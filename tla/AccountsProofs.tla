---------------------------- MODULE AccountsProofs ----------------------------
(***************************************************************************)
(* Proofs about the users table, for any requests: about Accounts first,   *)
(* for any emails, passwords, ids and token lifetime, then about Profile.  *)
(* The argument for Accounts: the table only grows, and each row is what   *)
(* one signup sent; a token names a row that equals the form it was        *)
(* answered to, and loses a tick whenever its age gains one.               *)
(***************************************************************************)
EXTENDS Accounts, Profile, FiniteSetTheorems, TLAPS

\* Two ids never share an email, and a row is what the signup with its id sent.
Rows ==
    /\ \A i, j \in UserIds :
          users[i] # None /\ users[j] # None /\ users[i].email = users[j].email => i = j
    /\ \A i \in UserIds : users[i] # None =>
          \E r \in Requests : op[r] = "signup" /\ new[r] = i /\ form[r] = users[i]

\* How far a signup got, and what it has by then.
Signups ==
    \A r \in Requests :
        /\ pc[r] \in {"insert", "issue", "409", "500"} => op[r] = "signup"
        /\ pc[r] \in {"start", "insert", "409", "500"} => new[r] = None
        /\ pc[r] = "issue" => new[r] # None
        /\ new[r] # None => users[new[r]] = form[r]
        /\ pc[r] \in {"409", "500"} => WithEmail(form[r].email) # {}

\* Whom a token is for, who has it, and how old it is.
Tokens ==
    \A r \in Requests :
        /\ token[r] # None =>
              /\ op[r] \in {"signup", "login"} /\ pc[r] \in {"200", "201"}
              /\ users[token[r].sub] = form[r]
              /\ token[r].left = ExpireTicks - age[r]
        /\ pc[r] \in {"start", "insert", "issue"} => token[r] = None

AccountInv == TypeOK /\ Rows /\ Signups /\ Tokens

LEMMA NoneIsNew == None \notin Account /\ None \notin Token /\ None \notin UserIds
  BY NoneAssumption

\* No handler takes a row away or changes it.
RowsStay == \A i \in UserIds : users[i] # None => users'[i] = users[i]

LEMMA InitAccounts == Init => AccountInv
  BY NoneIsNew, ExpireAssumption
  DEF Init, AccountInv, TypeOK, Rows, Signups, Tokens, WithEmail, Done

\* A step that only moves a request and hands out a token, or does not.
LEMMA StepAccounts == AccountInv /\ [Next]_vars => AccountInv' /\ RowsStay
<1> SUFFICES ASSUME AccountInv, [Next]_vars PROVE AccountInv' /\ RowsStay
  OBVIOUS
<1> USE NoneIsNew, ExpireAssumption DEF AccountInv, Goto
<1>1. ASSUME NEW r \in Requests, CheckEmail(r) PROVE AccountInv' /\ RowsStay
  <2>1. UNCHANGED <<users, op, form, new, token, age, bearer, current>>
        /\ pc[r] = "start" /\ op[r] = "signup" /\ RowsStay
    BY <1>1 DEF CheckEmail, RowsStay
  <2>2. pc' = [pc EXCEPT ![r] = "insert"]
        \/ (pc' = [pc EXCEPT ![r] = "409"] /\ WithEmail(form[r].email) # {})
    <3> DEFINE free == WithEmail(form[r].email) = {}
    <3>1. pc' = [pc EXCEPT ![r] = IF free THEN "insert" ELSE "409"]
      BY <1>1 DEF CheckEmail
    <3>2. ~ free => WithEmail(form[r].email) # {}
      OBVIOUS
    <3> DEFINE next == IF free THEN "insert" ELSE "409"
    <3>3. free => next = "insert"
      OBVIOUS
    <3>4. ~ free => next = "409"
      OBVIOUS
    <3> HIDE DEF free, next
    <3>5. pc' = [pc EXCEPT ![r] = next]
      BY <3>1 DEF free, next
    <3> QED  BY <3>2, <3>3, <3>4, <3>5, Zenon
  <2>3. TypeOK'
    BY <2>1, <2>2 DEF TypeOK, Done
  <2>4. Rows'
    BY <2>1 DEF Rows
  <2>5. Signups'
    BY <2>1, <2>2 DEF Signups, WithEmail, TypeOK
  <2>6. Tokens'
    BY <2>1, <2>2 DEF Tokens, TypeOK
  <2> QED  BY <2>1, <2>3, <2>4, <2>5, <2>6
<1>2. ASSUME NEW r \in Requests, InsertUser(r) PROVE AccountInv' /\ RowsStay
  <2>1. /\ pc[r] = "insert" /\ op[r] = "signup" /\ new[r] = None /\ form[r] \in Account
        /\ UNCHANGED <<op, form, token, age, bearer, current>>
    BY <1>2 DEF InsertUser, Signups, TypeOK
  <2>2. CASE /\ WithEmail(form[r].email) # {} /\ pc' = [pc EXCEPT ![r] = "500"]
             /\ UNCHANGED <<users, new>>
    <3>1. TypeOK' /\ RowsStay
      BY <2>1, <2>2 DEF TypeOK, Done, RowsStay
    <3>2. Rows'
      BY <2>1, <2>2 DEF Rows
    <3>3. Signups'
      BY <2>1, <2>2 DEF Signups, WithEmail, TypeOK
    <3>4. Tokens'
      BY <2>1, <2>2 DEF Tokens, TypeOK
    <3> QED  BY <3>1, <3>2, <3>3, <3>4
  <2>3. CASE \E i \in UserIds :
               /\ users[i] = None /\ WithEmail(form[r].email) = {}
               /\ users' = [users EXCEPT ![i] = form[r]]
               /\ new' = [new EXCEPT ![r] = i]
               /\ pc' = [pc EXCEPT ![r] = "issue"]
    <3>1. PICK i \in UserIds :
             /\ users[i] = None /\ WithEmail(form[r].email) = {}
             /\ users' = [users EXCEPT ![i] = form[r]]
             /\ new' = [new EXCEPT ![r] = i]
             /\ pc' = [pc EXCEPT ![r] = "issue"]
      BY <2>3
    <3>2. /\ users'[i] = form[r] /\ \A j \in UserIds \ {i} : users'[j] = users[j]
          /\ new'[r] = i /\ \A q \in Requests \ {r} : new'[q] = new[q]
          /\ pc'[r] = "issue" /\ \A q \in Requests \ {r} : pc'[q] = pc[q]
      BY <3>1 DEF TypeOK
    <3>3. TypeOK' /\ RowsStay
      BY <2>1, <3>1 DEF TypeOK, RowsStay
    <3>4. \A j \in UserIds : users[j] # None => users[j].email # form[r].email
      BY <3>1 DEF WithEmail
    <3>5. Rows'
      BY <2>1, <3>2, <3>4 DEF Rows
    <3>6. Signups'
      <4>1. \A q \in Requests : WithEmail(form[q].email) # {} => WithEmail(form[q].email)' # {}
        BY <2>1, <3>3 DEF WithEmail, RowsStay
      <4>2. \A q \in Requests : new[q] # None => new[q] \in UserIds /\ users'[new[q]] = users[new[q]]
        BY <3>1, <3>2 DEF Signups, TypeOK
      <4> QED  BY <2>1, <3>2, <4>1, <4>2 DEF Signups
    <3>7. Tokens'
      <4>1. \A q \in Requests : token[q] # None =>
               token[q].sub \in UserIds /\ users'[token[q].sub] = users[token[q].sub]
        <5> TAKE q \in Requests
        <5>1. token[q] # None => token[q].sub \in UserIds /\ users[token[q].sub] # None
          BY DEF Tokens, TypeOK, Token
        <5> QED  BY <3>1, <3>2, <5>1
      <4> QED  BY <2>1, <3>2, <4>1 DEF Tokens
    <3> QED  BY <3>3, <3>5, <3>6, <3>7
  <2> QED  BY <1>2, <2>2, <2>3 DEF InsertUser
\* The answer with a token to a request whose form is that of user i.
<1>3. ASSUME NEW r \in Requests, NEW i \in UserIds, users[i] = form[r], Issue(r, i),
             pc[r] \in {"start", "issue"}, op[r] \in {"signup", "login"},
             NEW x \in {"200", "201"}, pc' = [pc EXCEPT ![r] = x],
             UNCHANGED <<users, op, form, new, bearer, current>>
      PROVE  AccountInv' /\ RowsStay
  <2>1. /\ token'[r] = [sub |-> i, left |-> ExpireTicks] /\ age'[r] = 0
        /\ \A q \in Requests \ {r} : token'[q] = token[q] /\ age'[q] = age[q] /\ pc'[q] = pc[q]
        /\ pc'[r] = x
    BY <1>3 DEF Issue, TypeOK
  <2>2. [sub |-> i, left |-> ExpireTicks] \in Token
    BY DEF Token
  <2>3. TypeOK'
    BY <1>3, <2>2 DEF TypeOK, Done, Issue
  <2>4. Rows' /\ RowsStay
    BY <1>3 DEF Rows, RowsStay
  <2>5. Signups'
    BY <1>3, <2>1 DEF Signups, WithEmail
  <2>6. Tokens'
    BY <1>3, <2>1 DEF Tokens
  <2> QED  BY <2>3, <2>4, <2>5, <2>6
<1>4. ASSUME NEW r \in Requests, IssueToken(r) PROVE AccountInv' /\ RowsStay
  <2>1. new[r] \in UserIds /\ users[new[r]] = form[r] /\ op[r] = "signup"
    BY <1>4 DEF IssueToken, Signups, TypeOK
  <2> QED  BY <1>3, <1>4, <2>1 DEF IssueToken
<1>5. ASSUME NEW r \in Requests, Login(r) PROVE AccountInv' /\ RowsStay
  <2>1. op[r] = "login" /\ pc[r] = "start" /\ UNCHANGED <<users, op, form, new, bearer, current>>
    BY <1>5 DEF Login
  <2>2. CASE \E i \in WithEmail(form[r].email) :
               Verified(r, i) /\ Issue(r, i) /\ pc' = [pc EXCEPT ![r] = "200"]
    <3>1. PICK i \in WithEmail(form[r].email) :
             Verified(r, i) /\ Issue(r, i) /\ pc' = [pc EXCEPT ![r] = "200"]
      BY <2>2
    <3>2. i \in UserIds /\ users[i] \in Account /\ form[r] \in Account
      BY <3>1 DEF WithEmail, TypeOK
    <3>3. users[i].email = form[r].email /\ users[i].password = form[r].password
      BY <3>1 DEF WithEmail, Verified
    <3>4. users[i] = form[r]
      BY <3>2, <3>3 DEF Account
    <3> QED  BY <1>3, <2>1, <3>1, <3>2, <3>4
  <2>3. CASE pc' = [pc EXCEPT ![r] = "401"] /\ UNCHANGED <<token, age>>
    <3>1. TypeOK' /\ RowsStay
      BY <2>1, <2>3 DEF TypeOK, Done, RowsStay
    <3>2. Rows'
      BY <2>1 DEF Rows
    <3>3. Signups'
      BY <2>1, <2>3 DEF Signups, WithEmail, TypeOK
    <3>4. Tokens'
      BY <2>1, <2>3 DEF Tokens, TypeOK
    <3> QED  BY <3>1, <3>2, <3>3, <3>4
  <2> QED  BY <1>5, <2>2, <2>3 DEF Login
<1>6. ASSUME NEW r \in Requests, GetCurrentUser(r) PROVE AccountInv' /\ RowsStay
  <2>1. /\ op[r] = "other" /\ pc[r] = "start" /\ UNCHANGED <<users, op, form, new, token, age>>
        /\ pc' = [pc EXCEPT ![r] = "200"] \/ pc' = [pc EXCEPT ![r] = "401"]
    BY <1>6 DEF GetCurrentUser
  <2>2. bearer' \in [Requests -> Requests \cup {None}]
    BY <1>6 DEF GetCurrentUser, TypeOK
  <2>3. current' \in [Requests -> UserIds \cup {None}]
    <3>1. PICK s \in Requests \cup {None} :
             \/ /\ Resolves(IF s = None THEN None ELSE token[s])
                /\ current' = [current EXCEPT ![r] = (IF s = None THEN None ELSE token[s]).sub]
             \/ UNCHANGED current
      BY <1>6 DEF GetCurrentUser
    <3>2. CASE Resolves(IF s = None THEN None ELSE token[s])
      <4>1. s \in Requests /\ token[s] # None
        BY <3>1, <3>2 DEF Resolves, Decoded
      <4>2. token[s].sub \in UserIds
        BY <4>1 DEF TypeOK, Token
      <4>3. (IF s = None THEN None ELSE token[s]).sub \in UserIds
        BY <3>2, <4>1, <4>2 DEF Resolves, Decoded
      <4> QED  BY <3>1, <4>3 DEF TypeOK
    <3>3. CASE UNCHANGED current
      BY <3>3 DEF TypeOK
    <3> QED  BY <3>1, <3>2, <3>3
  <2>4. TypeOK' /\ RowsStay
    BY <2>1, <2>2, <2>3 DEF TypeOK, Done, RowsStay
  <2>5. Rows'
    BY <2>1 DEF Rows
  <2>6. Signups'
    BY <2>1 DEF Signups, WithEmail, TypeOK
  <2>7. Tokens'
    BY <2>1 DEF Tokens, TypeOK
  <2> QED  BY <2>4, <2>5, <2>6, <2>7
<1>7. ASSUME NEW r \in Requests, Crash(r) PROVE AccountInv' /\ RowsStay
  <2>1. /\ pc[r] \in {"insert", "issue"} /\ pc' = [pc EXCEPT ![r] = "crashed"]
        /\ UNCHANGED <<users, op, form, new, token, age, bearer, current>>
    BY <1>7 DEF Crash
  <2>2. TypeOK' /\ RowsStay
    BY <2>1 DEF TypeOK, Done, RowsStay
  <2>3. Rows'
    BY <2>1 DEF Rows
  <2>4. Signups'
    BY <2>1 DEF Signups, WithEmail, TypeOK
  <2>5. Tokens'
    BY <2>1 DEF Tokens, TypeOK
  <2> QED  BY <2>2, <2>3, <2>4, <2>5
<1>8. CASE Tick
  <2>1. UNCHANGED <<users, op, form, pc, new, bearer, current>>
    BY <1>8 DEF Tick
  <2>2. ASSUME NEW r \in Requests
        PROVE  /\ token'[r] \in Token \cup {None} /\ age'[r] \in 0 .. (ExpireTicks + 1)
               /\ token'[r] # None <=> token[r] # None
               /\ token[r] # None =>
                     token'[r].sub = token[r].sub /\ token'[r].left = ExpireTicks - age'[r]
    <3>1. /\ age[r] \in 0 .. (ExpireTicks + 1) /\ token[r] \in Token \cup {None}
          /\ token'[r] = IF token[r] = None THEN None
                         ELSE [token[r] EXCEPT !.left = IF @ >= 0 THEN @ - 1 ELSE @]
          /\ age'[r] = IF token[r] # None /\ age[r] <= ExpireTicks THEN age[r] + 1 ELSE age[r]
      BY <1>8 DEF Tick, TypeOK
    <3>2. CASE token[r] = None
      BY <3>1, <3>2
    <3>3. CASE token[r] # None
      <4>1. /\ token[r] \in Token /\ token[r].left \in -1 .. ExpireTicks
            /\ token[r].left = ExpireTicks - age[r]
        BY <3>1, <3>3 DEF Tokens, Token
      <4> DEFINE n == IF token[r].left >= 0 THEN token[r].left - 1 ELSE token[r].left
      <4>2. n \in -1 .. ExpireTicks /\ token'[r] = [token[r] EXCEPT !.left = n]
        BY <3>1, <3>3, <4>1
      <4>3. token'[r] \in Token /\ token'[r].sub = token[r].sub /\ token'[r].left = n
        BY <4>1, <4>2 DEF Token
      <4>4. token'[r] # None
        BY <4>3
      <4>5. age'[r] \in 0 .. (ExpireTicks + 1) /\ n = ExpireTicks - age'[r]
        <5>1. CASE token[r].left >= 0
          BY <3>1, <3>3, <4>1, <4>2, <5>1
        <5>2. CASE token[r].left = -1
          BY <3>1, <3>3, <4>1, <4>2, <5>2
        <5> QED  BY <4>1, <5>1, <5>2
      <4> QED  BY <3>3, <4>3, <4>4, <4>5
    <3> QED  BY <3>2, <3>3
  <2>3. TypeOK' /\ RowsStay
    <3>1. token' \in [Requests -> Token \cup {None}] /\ age' \in [Requests -> 0 .. (ExpireTicks + 1)]
      BY <1>8, <2>2 DEF Tick
    <3> QED  BY <2>1, <3>1 DEF TypeOK, RowsStay
  <2>4. Rows'
    BY <2>1 DEF Rows
  <2>5. Signups'
    BY <2>1 DEF Signups, WithEmail
  <2>6. Tokens'
    BY <2>1, <2>2 DEF Tokens
  <2> QED  BY <2>3, <2>4, <2>5, <2>6
<1>9. CASE UNCHANGED vars
  BY <1>9 DEF vars, TypeOK, Rows, Signups, Tokens, WithEmail, RowsStay
<1> QED  BY <1>1, <1>2, <1>4, <1>5, <1>6, <1>7, <1>8, <1>9 DEF Next

LEMMA AccountInvariant == Spec => []AccountInv
  BY InitAccounts, StepAccounts, PTL DEF Spec

(* The tables and the handlers' variables keep their types.                *)
THEOREM TypeCorrect == Spec => []TypeOK
  BY AccountInvariant, PTL DEF AccountInv

(* However signups race, an email has one account at most, made by a       *)
(* signup that sent it, and a signup is turned away only for an account    *)
(* that exists (auth.py:22-52).                                            *)
THEOREM EmailsAreUnique == Spec => []OneAccountPerEmail
<1>1. AccountInv => OneAccountPerEmail
  <2> SUFFICES ASSUME AccountInv PROVE OneAccountPerEmail
    OBVIOUS
  <2>1. ASSUME NEW e \in Emails PROVE Cardinality(WithEmail(e)) <= 1
    <3>1. CASE WithEmail(e) = {}
      BY <3>1, FS_EmptySet
    <3>2. CASE WithEmail(e) # {}
      <4>1. PICK i \in UserIds : WithEmail(e) = {i}
        BY <3>2 DEF WithEmail, AccountInv, Rows
      <4>2. Cardinality({i}) = 1
        BY FS_Singleton
      <4> QED  BY <4>1, <4>2
    <3> QED  BY <3>1, <3>2
  <2>2. \A r \in Requests : op[r] = "signup" /\ pc[r] \in {"409", "500"} =>
           new[r] = None /\ WithEmail(form[r].email) # {}
    BY DEF AccountInv, Signups
  <2> QED  BY <2>1, <2>2 DEF OneAccountPerEmail, AccountInv, Rows
<1> QED  BY <1>1, AccountInvariant, PTL

(* Nobody acts as a user without a token, still valid, that answered this  *)
(* user's own email and password (deps.py, security.py).                   *)
THEOREM OwnersAct == Spec => ActsAsOwner
<1> DEFINE Acts == \A r \in Requests : current'[r] # current[r] =>
                      LET s == bearer'[r]
                      IN  /\ s # None /\ age[s] <= ExpireTicks
                          /\ op[s] \in {"signup", "login"} /\ pc[s] \in {"200", "201"}
                          /\ form[s] = users[current'[r]]
<1>1. AccountInv /\ [Next]_vars => [Acts]_vars
  <2> SUFFICES ASSUME AccountInv, Next PROVE Acts
    OBVIOUS
  <2>1. ASSUME NEW r \in Requests, GetCurrentUser(r) PROVE Acts
    <3>1. PICK s \in Requests \cup {None} :
             /\ bearer' = [bearer EXCEPT ![r] = s]
             /\ \/ /\ Resolves(IF s = None THEN None ELSE token[s])
                   /\ current' = [current EXCEPT ![r] = (IF s = None THEN None ELSE token[s]).sub]
                \/ UNCHANGED current
      BY <2>1 DEF GetCurrentUser
    <3>2. CASE Resolves(IF s = None THEN None ELSE token[s])
               /\ current' = [current EXCEPT ![r] = (IF s = None THEN None ELSE token[s]).sub]
      <4>1. s \in Requests /\ s # None /\ token[s] # None /\ token[s].left >= 0
        BY <3>2 DEF Resolves, Decoded
      <4>2. current' = [current EXCEPT ![r] = token[s].sub] /\ bearer'[r] = s
        BY <3>1, <3>2, <4>1 DEF AccountInv, TypeOK
      <4>3. /\ op[s] \in {"signup", "login"} /\ pc[s] \in {"200", "201"}
            /\ users[token[s].sub] = form[s] /\ token[s].left = ExpireTicks - age[s]
        BY <4>1 DEF AccountInv, Tokens
      <4>4. age[s] <= ExpireTicks
        BY <4>1, <4>3, ExpireAssumption DEF AccountInv, TypeOK
      <4>5. \A q \in Requests \ {r} : current'[q] = current[q]
        BY <4>2 DEF AccountInv, TypeOK
      <4>6. current'[r] = token[s].sub
        BY <4>2 DEF AccountInv, TypeOK
      <4> QED  BY <4>1, <4>2, <4>3, <4>4, <4>5, <4>6
    <3>3. CASE UNCHANGED current
      BY <3>3
    <3> QED  BY <3>1, <3>2, <3>3
  <2>2. ASSUME UNCHANGED current PROVE Acts
    BY <2>2
  <2>3. Next => UNCHANGED current \/ \E r \in Requests : GetCurrentUser(r)
    BY DEF Next, CheckEmail, InsertUser, IssueToken, Login, Crash, Tick
  <2> QED  BY <2>1, <2>2, <2>3
<1> QED  BY <1>1, AccountInvariant, PTL DEF Spec, ActsAsOwner

-----------------------------------------------------------------------------
(* The resume in the user's row: module Profile, for any requests and      *)
(* resumes.  The argument for WholeUnlessShared: every row a session ever  *)
(* loaded is a whole resume or none; between two whole, unrelated resumes  *)
(* either no column differs or both do; so a flush writes nothing or a     *)
(* whole resume.                                                           *)

\* The columns of a flushed row.
LEMMA FlushedColumns ==
    ASSUME NEW x \in Row, NEW l \in Row, NEW s \in Row
    PROVE  /\ Flushed(x, l, s) \in Row
           /\ \A c \in Columns : Flushed(x, l, s)[c] = IF s[c] # l[c] THEN s[c] ELSE x[c]
<1>1. DOMAIN x = Columns /\ DOMAIN s = Columns
  BY DEF Row
<1>2. \A c \in Columns : Flushed(x, l, s)[c] = IF s[c] # l[c] THEN s[c] ELSE x[c]
  BY <1>1 DEF Flushed, NetChanges
<1>3. Flushed(x, l, s) \in [Columns -> Texts \cup Names \cup {Null}]
  BY <1>1 DEF Flushed, NetChanges, Row
<1>4. "text" \in Columns /\ "filename" \in Columns
  BY DEF Columns
<1> QED  BY <1>2, <1>3, <1>4 DEF Row

\* Resumes are rows, and none of their columns is NULL.
LEMMA UploadsAreRows ==
    /\ Uploads \cup {Empty} \subseteq Row
    /\ \A u \in Uploads : u["text"] # Null /\ u["filename"] # Null
<1>1. Empty \in Row
  BY DEF Empty, Row, Columns
<1>2. ASSUME NEW u \in Uploads
      PROVE  u \in Row /\ u["text"] # Null /\ u["filename"] # Null
  BY UploadsAssumption DEF Row, Texts, Names, Columns
<1> QED  BY <1>1, <1>2

-----------------------------------------------------------------------------
(* Resumes: types                                                          *)

\* What a request may have sent by what it does.
Consistent ==
    \A r \in Calls :
        /\ at[r] = "start" => endpoint[r] = "none"
        /\ endpoint[r] = "save" => upload[r] \in Uploads
        /\ endpoint[r] = "delete" => upload[r] = Empty
        /\ at[r] = "flush" => endpoint[r] \in {"save", "delete"}

ResumeTypeInv == ResumeTypeOK /\ Consistent

LEMMA ResumeTypeInductive ==
    /\ ResumeInit => ResumeTypeInv
    /\ ResumeTypeInv /\ [ResumeNext]_resumeVars => ResumeTypeInv'
<1>1. ResumeInit => ResumeTypeInv
  BY UploadsAreRows DEF ResumeInit, ResumeTypeInv, ResumeTypeOK, Consistent, Endpoints, Ended, Refused
<1>2. ASSUME ResumeTypeInv, [ResumeNext]_resumeVars PROVE ResumeTypeInv'
  <2> USE <1>2, UploadsAreRows
      DEF ResumeTypeInv, ResumeTypeOK, Consistent, Endpoints, Ended, Refused, MoveTo
  <2>1. ASSUME NEW r \in Calls, Authenticate(r) PROVE ResumeTypeInv'
    <3>1. PICK o \in Endpoints \ {"none"} : \E u \in Sends(o) :
             /\ endpoint' = [endpoint EXCEPT ![r] = o]
             /\ upload' = [upload EXCEPT ![r] = u]
             /\ MoveTo(r, FirstStep(o, u))
      BY <2>1 DEF Authenticate
    <3>2. PICK u \in Sends(o) :
             /\ endpoint' = [endpoint EXCEPT ![r] = o]
             /\ upload' = [upload EXCEPT ![r] = u]
             /\ at' = [at EXCEPT ![r] = FirstStep(o, u)]
      BY <3>1
    <3>3. /\ u \in Uploads \cup {Empty}
          /\ o = "save" => u \in Uploads
          /\ o = "delete" => u = Empty
      BY <3>1, <3>2 DEF Sends
    <3>4. /\ FirstStep(o, u) \in {"ok", "flush", "parse", "generate", "422"}
          /\ FirstStep(o, u) = "flush" => o = "delete"
      BY DEF FirstStep
    <3>5. loaded' = [loaded EXCEPT ![r] = row] /\ row' = row /\ first' = first
      BY <2>1 DEF Authenticate
    <3> QED  BY <3>2, <3>3, <3>4, <3>5
  <2>2. ASSUME NEW r \in Calls, Parse(r) PROVE ResumeTypeInv'
    BY <2>2 DEF Parse
  <2>3. ASSUME NEW r \in Calls, Flush(r) PROVE ResumeTypeInv'
    <3>1. row' \in Row
      BY <2>3, FlushedColumns DEF Flush, Assigned
    <3> QED  BY <2>3, <3>1 DEF Flush
  <2>4. ASSUME NEW r \in Calls, Refresh(r) PROVE ResumeTypeInv'
    BY <2>4 DEF Refresh
  <2>5. ASSUME NEW r \in Calls, Generate(r) \/ Fail(r) PROVE ResumeTypeInv'
    BY <2>5 DEF Generate, Fail
  <2>6. CASE UNCHANGED resumeVars
    BY <2>6 DEF resumeVars
  <2> QED  BY <2>1, <2>2, <2>3, <2>4, <2>5, <2>6 DEF ResumeNext
<1> QED  BY <1>1, <1>2

(* The two columns keep their types, whatever the requests do.             *)
THEOREM ResumeTypeCorrect == ResumeSpec => []ResumeTypeOK
<1>1. ResumeSpec => []ResumeTypeInv
  BY ResumeTypeInductive, PTL DEF ResumeSpec
<1> QED  BY <1>1, PTL DEF ResumeTypeInv

-----------------------------------------------------------------------------
(* Resumes: whole                                                          *)

\* Besides the row itself, what the sessions hold is whole.
LoadedWhole ==
    Unrelated(Sent) =>
        /\ row \in Sent \cup {Empty}
        /\ \A r \in Calls : loaded[r] \in Sent \cup {Empty}

ResumeWholeInv == ResumeTypeInv /\ LoadedWhole

\* Between two unrelated resumes, or a resume and none, a flush is all or nothing.
LEMMA FlushIsWhole ==
    ASSUME NEW S \in SUBSET (Uploads \cup {Empty}), Unrelated(S),
           NEW x \in S \cup {Empty}, NEW l \in S \cup {Empty}, NEW s \in S \cup {Empty}
    PROVE  Flushed(x, l, s) \in {x, s}
<1>1. x \in Row /\ l \in Row /\ s \in Row
  BY UploadsAreRows
<1>2. s["text"] = l["text"] <=> s["filename"] = l["filename"]
  BY UploadsAreRows DEF Unrelated, Empty, Columns
<1>3. CASE s["text"] = l["text"]
  <2>1. \A c \in Columns : Flushed(x, l, s)[c] = x[c]
    BY <1>1, <1>2, <1>3, FlushedColumns DEF Columns
  <2> QED  BY <1>1, <2>1, FlushedColumns DEF Row
<1>4. CASE s["text"] # l["text"]
  <2>1. \A c \in Columns : Flushed(x, l, s)[c] = s[c]
    BY <1>1, <1>2, <1>4, FlushedColumns DEF Columns
  <2> QED  BY <1>1, <2>1, FlushedColumns DEF Row
<1> QED  BY <1>3, <1>4

LEMMA ResumeWholeInductive ==
    /\ ResumeInit => ResumeWholeInv
    /\ ResumeWholeInv /\ [ResumeNext]_resumeVars => ResumeWholeInv'
<1>1. ResumeInit => ResumeWholeInv
  BY ResumeTypeInductive DEF ResumeInit, ResumeWholeInv, LoadedWhole, Sent
<1>2. ASSUME ResumeWholeInv, [ResumeNext]_resumeVars PROVE ResumeWholeInv'
  <2>1. ResumeTypeInv /\ ResumeTypeInv'
    BY <1>2, ResumeTypeInductive DEF ResumeWholeInv
  <2>2. Sent \subseteq Uploads \cup {Empty}
    BY <2>1 DEF ResumeTypeInv, ResumeTypeOK, Consistent, Sent
  <2>3. ASSUME NEW r \in Calls, Authenticate(r) PROVE LoadedWhole'
    <3>1. Sent \subseteq Sent'
      BY <2>1, <2>3 DEF Authenticate, ResumeTypeInv, ResumeTypeOK, Consistent, Sent
    <3>2. Unrelated(Sent') => Unrelated(Sent)
      BY <3>1 DEF Unrelated
    <3>3. row' = row /\ loaded' = [loaded EXCEPT ![r] = row]
      BY <2>3 DEF Authenticate
    <3>4. Unrelated(Sent)' <=> Unrelated(Sent')
      BY DEF Unrelated
    <3> QED  BY <1>2, <2>1, <3>1, <3>2, <3>3, <3>4 DEF ResumeWholeInv, LoadedWhole, ResumeTypeInv,
                ResumeTypeOK
  <2>4. ASSUME NEW r \in Calls, Flush(r) PROVE LoadedWhole'
    <3>1. Sent' = Sent /\ loaded' = loaded
      BY <2>4 DEF Flush, Sent
    <3>2. upload[r] \in Sent \cup {Empty}
      BY <2>1, <2>4 DEF Flush, ResumeTypeInv, Consistent, Sent
    <3>3. row' = Flushed(row, loaded[r], upload[r])
      BY <2>4 DEF Flush, Assigned
    <3>4. Unrelated(Sent) => row' \in {row, upload[r]}
      BY <1>2, <2>2, <3>2, <3>3, FlushIsWhole DEF ResumeWholeInv, LoadedWhole
    <3>5. Unrelated(Sent)' <=> Unrelated(Sent)
      BY <3>1 DEF Unrelated
    <3> QED  BY <1>2, <3>1, <3>2, <3>4, <3>5 DEF ResumeWholeInv, LoadedWhole
  <2>5. ASSUME NEW r \in Calls, Refresh(r) PROVE LoadedWhole'
    <3>1. Sent' = Sent /\ row' = row /\ loaded' = [loaded EXCEPT ![r] = row]
      BY <2>5 DEF Refresh, Sent
    <3>2. Unrelated(Sent)' <=> Unrelated(Sent)
      BY <3>1 DEF Unrelated
    <3> QED  BY <1>2, <2>1, <3>1, <3>2 DEF ResumeWholeInv, LoadedWhole, ResumeTypeInv,
                ResumeTypeOK
  <2>6. ASSUME NEW r \in Calls, Parse(r) \/ Generate(r) \/ Fail(r)
        PROVE  LoadedWhole'
    <3>1. Sent' = Sent /\ row' = row /\ loaded' = loaded
      BY <2>6 DEF Parse, Generate, Fail, Sent
    <3>2. Unrelated(Sent)' <=> Unrelated(Sent)
      BY <3>1 DEF Unrelated
    <3> QED  BY <1>2, <3>1, <3>2 DEF ResumeWholeInv, LoadedWhole
  <2>7. CASE UNCHANGED resumeVars
    <3>1. Sent' = Sent /\ row' = row /\ loaded' = loaded
      BY <2>7 DEF resumeVars, Sent
    <3>2. Unrelated(Sent)' <=> Unrelated(Sent)
      BY <3>1 DEF Unrelated
    <3> QED  BY <1>2, <2>1, <2>7, <3>1, <3>2 DEF ResumeWholeInv, LoadedWhole
  <2> QED
    BY <1>2, <2>1, <2>3, <2>4, <2>5, <2>6, <2>7 DEF ResumeNext, ResumeWholeInv
<1> QED  BY <1>1, <1>2

(* Text and name stay together, for every set of resumes and requests,     *)
(* unless two resumes sent agree in one and differ in the other.           *)
THEOREM ResumesStayWhole == ResumeSpec => []WholeUnlessShared
<1>1. ResumeSpec => []ResumeWholeInv
  BY ResumeWholeInductive, PTL DEF ResumeSpec
<1>2. ResumeWholeInv => WholeUnlessShared
  BY DEF ResumeWholeInv, LoadedWhole, WholeUnlessShared
<1> QED  BY <1>1, <1>2, PTL

=============================================================================
