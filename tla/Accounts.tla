------------------------------ MODULE Accounts ------------------------------
(***************************************************************************)
(* Accounts and authentication: signup and login of app/api/v1/auth.py,    *)
(* the tokens of app/core/security.py, and get_current_user of             *)
(* app/api/deps.py, which stands in front of every other route.            *)
(*                                                                         *)
(* Simplifications.  A stored hash is the password it verifies, and a      *)
(* token that verifies is one that create_access_token issued and that has *)
(* not expired: bcrypt and HS256 are trusted.  Time advances in ticks.  No *)
(* handler changes or deletes a user (but for the resume, module Profile). *)
(***************************************************************************)
EXTENDS Integers, FiniteSets

CONSTANTS
    Requests, Emails, Passwords,
    UserIds,         \* primary keys, never handed out twice
    ExpireTicks,     \* JWT_EXPIRE_MINUTES
    None             \* no such user yet; no token

Account == [email : Emails, password : Passwords]

\* A token: its `sub` claim and the time left until its `exp` claim.
Token == [sub : UserIds, left : -1..ExpireTicks]

ASSUME ExpireAssumption == ExpireTicks \in Nat
ASSUME NoneAssumption == None \notin Account \cup Token \cup UserIds

VARIABLES
    users,    \* the users table
    op,       \* what each request is: signup, login, or any other route
    form,     \* the email and password it sends
    pc,       \* its next step, or its HTTP outcome
    new,      \* the id of the user a signup inserted
    token,    \* the token it was answered with
    age,      \* history: ticks since, up to the first that is too many
    bearer,   \* the request whose token it presents (None: no token)
    current   \* `current_user`

vars == <<users, op, form, pc, new, token, age, bearer, current>>

Done == {"201", "200", "401", "409", "500", "crashed"}

TypeOK ==
    /\ users \in [UserIds -> Account \cup {None}]
    /\ op \in [Requests -> {"signup", "login", "other"}]
    /\ form \in [Requests -> Account]
    /\ pc \in [Requests -> {"start", "insert", "issue"} \cup Done]
    /\ new \in [Requests -> UserIds \cup {None}]
    /\ token \in [Requests -> Token \cup {None}]
    /\ age \in [Requests -> 0..(ExpireTicks + 1)]
    /\ bearer \in [Requests -> Requests \cup {None}]
    /\ current \in [Requests -> UserIds \cup {None}]

Init ==
    /\ users = [i \in UserIds |-> None]
    /\ op \in [Requests -> {"signup", "login", "other"}]
    /\ form \in [Requests -> Account]
    /\ pc = [r \in Requests |-> "start"]
    /\ new = [r \in Requests |-> None]
    /\ token = [r \in Requests |-> None]
    /\ age = [r \in Requests |-> 0]
    /\ bearer = [r \in Requests |-> None]
    /\ current = [r \in Requests |-> None]

Goto(r, label) == pc' = [pc EXCEPT ![r] = label]

\* The users with an email address: the query of signup and of login.
WithEmail(e) == {i \in UserIds : users[i] # None /\ users[i].email = e}

\* create_access_token.
Issue(r, i) ==
    /\ token' = [token EXCEPT ![r] = [sub |-> i, left |-> ExpireTicks]]
    /\ age' = [age EXCEPT ![r] = 0]

-----------------------------------------------------------------------------
(* signup                                                                  *)

\* The check that answers 409.
CheckEmail(r) ==
    /\ op[r] = "signup" /\ pc[r] = "start"
    /\ Goto(r, IF WithEmail(form[r].email) = {} THEN "insert" ELSE "409")
    /\ UNCHANGED <<users, op, form, new, token, age, bearer, current>>

InsertUserUnchecked(r) ==
    /\ pc[r] = "insert"
    /\ \E i \in UserIds :
          /\ users[i] = None
          /\ users' = [users EXCEPT ![i] = form[r]]
          /\ new' = [new EXCEPT ![r] = i]
          /\ Goto(r, "issue")
    /\ UNCHANGED <<op, form, token, age, bearer, current>>

\* Insert and commit; the unique index on email may have other ideas by now.
InsertUser(r) ==
    /\ pc[r] = "insert"
    /\ \/ \E i \in UserIds :
             /\ users[i] = None
             /\ WithEmail(form[r].email) = {}
             /\ users' = [users EXCEPT ![i] = form[r]]
             /\ new' = [new EXCEPT ![r] = i]
             /\ Goto(r, "issue")
       \/ /\ WithEmail(form[r].email) # {}
          /\ Goto(r, "500")
          /\ UNCHANGED <<users, new>>
    /\ UNCHANGED <<op, form, token, age, bearer, current>>

\* The refresh, and the answer with a token.
IssueToken(r) ==
    /\ pc[r] = "issue"
    /\ Issue(r, new[r])
    /\ Goto(r, "201")
    /\ UNCHANGED <<users, op, form, new, bearer, current>>

-----------------------------------------------------------------------------
(* login and get_current_user                                              *)

Verified(r, i) == users[i].password = form[r].password

Login(r) ==
    /\ op[r] = "login" /\ pc[r] = "start"
    /\ \/ \E i \in WithEmail(form[r].email) :
             /\ Verified(r, i)
             /\ Issue(r, i)
             /\ Goto(r, "200")
       \/ /\ \A i \in WithEmail(form[r].email) : ~ Verified(r, i)
          /\ Goto(r, "401")
          /\ UNCHANGED <<token, age>>
    /\ UNCHANGED <<users, op, form, new, bearer, current>>

DecodedUnexpired(t) == t # None

\* decode_access_token.
Decoded(t) == t # None /\ t.left >= 0

\* The user that a token's `sub` names is there.
Resolves(t) == Decoded(t) /\ users[t.sub] # None

\* A request with or without a token: whoever got one may present it.
GetCurrentUser(r) ==
    /\ op[r] = "other" /\ pc[r] = "start"
    /\ \E s \in Requests \cup {None} :
          LET t == IF s = None THEN None ELSE token[s]
          IN  /\ bearer' = [bearer EXCEPT ![r] = s]
              /\ \/ /\ Resolves(t)
                    /\ current' = [current EXCEPT ![r] = t.sub]
                    /\ Goto(r, "200")
                 \/ /\ ~ Resolves(t)
                    /\ Goto(r, "401")
                    /\ UNCHANGED current
    /\ UNCHANGED <<users, op, form, new, token, age>>

-----------------------------------------------------------------------------
\* The process dies, or a statement fails.
Crash(r) ==
    /\ pc[r] \in {"insert", "issue"}
    /\ Goto(r, "crashed")
    /\ UNCHANGED <<users, op, form, new, token, age, bearer, current>>

\* Time passes for tokens, until they have expired.
Tick ==
    /\ token' = [r \in Requests |->
          IF token[r] = None THEN None
          ELSE [token[r] EXCEPT !.left = IF @ >= 0 THEN @ - 1 ELSE @]]
    /\ age' = [r \in Requests |->
          IF token[r] # None /\ age[r] <= ExpireTicks THEN age[r] + 1 ELSE age[r]]
    /\ UNCHANGED <<users, op, form, pc, new, bearer, current>>

Next ==
    \/ \E r \in Requests :
          \/ CheckEmail(r) \/ InsertUser(r) \/ IssueToken(r)
          \/ Login(r) \/ GetCurrentUser(r) \/ Crash(r)
    \/ Tick

Spec == Init /\ [][Next]_vars

-----------------------------------------------------------------------------
(* Properties                                                              *)

(* "Email uniqueness is also enforced by the unique index" (auth.py:33):   *)
(* however signups race, an email has one account, that of a signup which  *)
(* sent this email and password; and a signup that was turned away left no *)
(* account behind and was turned away for one that exists.                 *)
OneAccountPerEmail ==
    /\ \A e \in Emails : Cardinality(WithEmail(e)) <= 1
    /\ \A i \in UserIds : users[i] # None =>
          \E r \in Requests : op[r] = "signup" /\ new[r] = i /\ form[r] = users[i]
    /\ \A r \in Requests : op[r] = "signup" /\ pc[r] \in {"409", "500"} =>
          new[r] = None /\ WithEmail(form[r].email) # {}

(* Whoever acts as a user presents a token, no older than                  *)
(* JWT_EXPIRE_MINUTES, that was the answer to a signup or login with that  *)
(* user's email and password.                                              *)
ActsAsOwner ==
    [][\A r \in Requests : current'[r] # current[r] =>
          LET s == bearer'[r]
          IN  /\ s # None /\ age[s] <= ExpireTicks
              /\ op[s] \in {"signup", "login"} /\ pc[s] \in {"200", "201"}
              /\ form[s] = users[current'[r]]]_vars

=============================================================================
