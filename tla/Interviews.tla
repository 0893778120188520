----------------------------- MODULE Interviews -----------------------------
(***************************************************************************)
(* Interview preparation.  generate_interview_questions of app/api/v1/ai.py *)
(* turns the reply of the AI client into a session and its questions, in   *)
(* one transaction.  save_answer of app/api/v1/interview.py looks for a    *)
(* question and its answer, then inserts or updates; list_sessions reads   *)
(* everything back with one SELECT per table.                              *)
(*                                                                         *)
(* Simplifications.  A reply of the AI is the sequence of its items, each  *)
(* with the position it claims and what becomes of its text.  A question   *)
(* is named by its session and its place there, an answer row by the       *)
(* request that inserted it.  No handler deletes any of this.  A flush and *)
(* its commit are one step where the unique index, or the lock of the row, *)
(* holds others up in between.                                             *)
(***************************************************************************)
EXTENDS Naturals, Sequences, FiniteSets

CONSTANTS
    Requests, Users, SessionIds, Texts,
    Old,        \* sessions of one question that are there from the start
    Counts,     \* how many questions a request may ask for
    Replies,    \* replies of the AI with a list of questions in it
    None        \* not committed; no id, row, text or answer

\* A text may be missing from an item, or be null or otherwise no column value.
Item == [position : Nat, text : {"good", "missing", "unstorable"}]

\* Place i of session s.
Questions == SessionIds \X UNION {1..n : n \in Counts}

Answer == [question : Questions, text : Texts]

\* An answer as a session loaded it: its row and the text read.
Loaded == [row : Requests, text : Texts]

ASSUME CountsAssumption == Counts \subseteq Nat \ {0}
ASSUME RepliesAssumption == Replies \subseteq Seq(Item)
ASSUME OldAssumption == Old \subseteq SessionIds /\ (Old # {} => Counts # {})
ASSUME RequestsAssumption == IsFiniteSet(Requests)
ASSUME NoneAssumption ==
    None \notin Users \cup SessionIds \cup Texts \cup Questions \cup Answer \cup Loaded

VARIABLES
    sessions,    \* the owner of each session that is committed
    questions,   \* the positions of its committed questions
    answers,     \* the answer row that each request inserted
    user,        \* the user of each request
    pc,          \* its next step, or its outcome
    count,       \* `payload.count`
    raw,         \* `raw_questions`
    sess,        \* the id that its session got
    listed,      \* the sessions that the first SELECT of a listing found
    shown,       \* the positions of their questions that the second found
    seen,        \* the answers that the third found
    target,      \* `payload.question_id`
    text,        \* `payload.text`
    loaded,      \* `question.answer`
    reply,       \* the text in the response
    during,      \* history: the saves committed since it loaded question.answer
    held         \* history: the texts its row held since its own commit

genVars == <<count, raw, sess>>
listVars == <<listed, shown, seen>>
history == <<during, held>>
saveVars == <<target, text, loaded, reply, history>>
vars == <<sessions, questions, answers, user, pc, genVars, listVars, saveVars>>

Done == {"ok", "listed", "saved", "404", "500", "crashed"}

TypeOK ==
    /\ sessions \in [SessionIds -> Users \cup {None}]
    /\ questions \in [SessionIds -> Seq(Nat)]
    /\ answers \in [Requests -> Answer \cup {None}]
    /\ user \in [Requests -> Users]
    /\ pc \in [Requests -> Done \cup
                 {"start", "flush", "commit", "respond", "select", "nested",
                  "save", "refresh"}]
    /\ count \in [Requests -> Counts \cup {0}]
    /\ raw \in [Requests -> Seq(Item)]
    /\ sess \in [Requests -> SessionIds \cup {None}]
    /\ listed \in [Requests -> SUBSET SessionIds]
    /\ shown \in [Requests -> [SessionIds -> Seq(Nat)]]
    /\ seen \in [Requests -> SUBSET Answer]
    /\ target \in [Requests -> Questions \cup {None}]
    /\ text \in [Requests -> Texts \cup {None}]
    /\ loaded \in [Requests -> Loaded \cup {None}]
    /\ reply \in [Requests -> Texts \cup {None}]
    /\ during \in [Requests -> SUBSET Requests]
    /\ held \in [Requests -> SUBSET Texts]

Init ==
    /\ sessions \in [SessionIds -> Users \cup {None}]
    /\ \A s \in SessionIds : sessions[s] = None <=> s \notin Old
    /\ questions = [s \in SessionIds |-> IF s \in Old THEN <<0>> ELSE <<>>]
    /\ answers = [r \in Requests |-> None]
    /\ user \in [Requests -> Users]
    /\ pc = [r \in Requests |-> "start"]
    /\ count = [r \in Requests |-> 0]
    /\ raw = [r \in Requests |-> <<>>]
    /\ sess = [r \in Requests |-> None]
    /\ listed = [r \in Requests |-> {}]
    /\ shown = [r \in Requests |-> [s \in SessionIds |-> <<>>]]
    /\ seen = [r \in Requests |-> {}]
    /\ target = [r \in Requests |-> None]
    /\ text = [r \in Requests |-> None]
    /\ loaded = [r \in Requests |-> None]
    /\ reply = [r \in Requests |-> None]
    /\ during = [r \in Requests |-> {}]
    /\ held = [r \in Requests |-> {}]

Goto(r, label) == pc' = [pc EXCEPT ![r] = label]

-----------------------------------------------------------------------------
(* generate_interview_questions                                            *)

\* _stub_generate_questions.
Stub(n) == [i \in 1..n |-> [position |-> i - 1, text |-> "good"]]

Renumbered(items) == [i \in DOMAIN items |-> [items[i] EXCEPT !.position = i - 1]]

GeneratedUncut(items, n) == Renumbered(items)

\* The positions are overwritten, and the list is cut to `count`.
Generated(items, n) == SubSeq(Renumbered(items), 1, IF Len(items) < n THEN Len(items) ELSE n)

\* generate_questions: the reply, or the stub when there is no client, the call
\* fails, its result has another shape, or its list is empty.
AskAi(r) ==
    /\ pc[r] = "start"
    /\ \E n \in Counts, items \in Replies \cup {<<>>} :
          /\ count' = [count EXCEPT ![r] = n]
          /\ raw' = [raw EXCEPT ![r] = IF items = <<>> THEN Stub(n) ELSE Generated(items, n)]
    /\ Goto(r, "flush")
    /\ UNCHANGED <<sessions, questions, answers, user, sess, listVars, saveVars>>

AllTexts(items, kinds) == \A i \in DOMAIN items : items[i].text \in kinds

FlushSessionCommits(r) ==
    /\ pc[r] = "flush"
    /\ \E s \in SessionIds \ Old :
          /\ \A q \in Requests : sess[q] # s
          /\ sess' = [sess EXCEPT ![r] = s]
          /\ sessions' = [sessions EXCEPT ![s] = user[r]]
    /\ Goto(r, IF AllTexts(raw[r], {"good", "unstorable"}) THEN "commit" ELSE "500")
    /\ UNCHANGED <<questions, answers, user, count, raw, listVars, saveVars>>

\* db.flush gives the session its id, in an open transaction that nobody else
\* sees; then the questions are built, and an item without a text raises.
FlushSession(r) ==
    /\ pc[r] = "flush"
    /\ \E s \in SessionIds \ Old :
          /\ \A q \in Requests : sess[q] # s
          /\ sess' = [sess EXCEPT ![r] = s]
    /\ Goto(r, IF AllTexts(raw[r], {"good", "unstorable"}) THEN "commit" ELSE "500")
    /\ UNCHANGED <<sessions, questions, answers, user, count, raw, listVars, saveVars>>

RowsWithoutPosition(items) == [i \in DOMAIN items |-> None]

\* The question rows made of the items.
Rows(items) == [i \in DOMAIN items |-> items[i].position]

\* The commit inserts the questions and makes them and the session visible at
\* once, unless the database refuses one of them.
Commit(r) ==
    /\ pc[r] = "commit"
    /\ \/ /\ AllTexts(raw[r], {"good"})
          /\ sessions' = [sessions EXCEPT ![sess[r]] = user[r]]
          /\ questions' = [questions EXCEPT ![sess[r]] = Rows(raw[r])]
          /\ Goto(r, "respond")
       \/ /\ ~ AllTexts(raw[r], {"good"})
          /\ Goto(r, "500")
          /\ UNCHANGED <<sessions, questions>>
    /\ UNCHANGED <<answers, user, genVars, listVars, saveVars>>

\* The questions are refreshed for the response.
Respond(r) ==
    /\ pc[r] = "respond"
    /\ Goto(r, "ok")
    /\ UNCHANGED <<sessions, questions, answers, user, genVars, listVars, saveVars>>

-----------------------------------------------------------------------------
(* save_answer                                                             *)

\* The answer rows of a question.
RowsOf(q) == {r \in Requests : answers[r] # None /\ answers[r].question = q}

\* The join with the session's owner finds the question.
Found(q, u) == q[2] \in DOMAIN questions[q[1]] /\ sessions[q[1]] = u

\* The SELECT and its selectinload of the answer.
LoadQuestion(r) ==
    /\ pc[r] = "start"
    /\ \E q \in Questions, t \in Texts :
          /\ target' = [target EXCEPT ![r] = q]
          /\ text' = [text EXCEPT ![r] = t]
          /\ \/ /\ Found(q, user[r]) /\ RowsOf(q) = {}
                /\ Goto(r, "save")
                /\ UNCHANGED loaded
             \/ /\ Found(q, user[r])
                /\ \E a \in RowsOf(q) :
                      loaded' = [loaded EXCEPT ![r] = [row |-> a, text |-> answers[a].text]]
                /\ Goto(r, "save")
             \/ /\ ~ Found(q, user[r])
                /\ Goto(r, "404")
                /\ UNCHANGED loaded
    /\ UNCHANGED <<sessions, questions, answers, user, genVars, listVars, reply, history>>

\* The row that a request inserts or updates.
RowSaved(r) == IF loaded[r] = None THEN r ELSE loaded[r].row

\* A commit that others, which have loaded the question before, may miss.
Commits(r) ==
    /\ during' = [q \in Requests |-> IF pc[q] \in {"save", "refresh"}
                                       THEN during[q] \cup {r} ELSE during[q]]
    /\ held' = [q \in Requests |->
          IF q = r \/ (pc[q] = "refresh" /\ RowSaved(q) = RowSaved(r))
          THEN held[q] \cup {answers'[RowSaved(r)].text} ELSE held[q]]

NewAnswer(r) == [question |-> target[r], text |-> text[r]]

InsertUnchecked(r) ==
    /\ pc[r] = "save" /\ loaded[r] = None
    /\ answers' = [answers EXCEPT ![r] = NewAnswer(r)]
    /\ Commits(r)
    /\ Goto(r, "refresh")
    /\ UNCHANGED <<sessions, questions, user, genVars, listVars, target, text, loaded, reply>>

\* No answer was loaded: insert one, unless another request has by now.
Insert(r) ==
    /\ pc[r] = "save" /\ loaded[r] = None
    /\ \/ /\ RowsOf(target[r]) = {}
          /\ answers' = [answers EXCEPT ![r] = NewAnswer(r)]
          /\ Commits(r)
          /\ Goto(r, "refresh")
       \/ /\ RowsOf(target[r]) # {}
          /\ Goto(r, "500")
          /\ UNCHANGED <<answers, history>>
    /\ UNCHANGED <<sessions, questions, user, genVars, listVars, target, text, loaded, reply>>

\* An answer was loaded: its text is updated if that differs from what was read.
Update(r) ==
    /\ pc[r] = "save" /\ loaded[r] # None
    /\ answers' = [answers EXCEPT ![loaded[r].row].text =
                      IF text[r] # loaded[r].text THEN text[r] ELSE @]
    /\ Commits(r)
    /\ Goto(r, "refresh")
    /\ UNCHANGED <<sessions, questions, user, genVars, listVars, target, text, loaded, reply>>

RefreshSkipped(r) ==
    /\ pc[r] = "refresh"
    /\ reply' = [reply EXCEPT ![r] = text[r]]
    /\ Goto(r, "saved")
    /\ UNCHANGED <<sessions, questions, answers, user, genVars, listVars,
                   target, text, loaded, history>>

\* db.refresh(answer): the response has what the row holds now.
Refresh(r) ==
    /\ pc[r] = "refresh"
    /\ reply' = [reply EXCEPT ![r] = answers[RowSaved(r)].text]
    /\ Goto(r, "saved")
    /\ UNCHANGED <<sessions, questions, answers, user, genVars, listVars,
                   target, text, loaded, history>>

-----------------------------------------------------------------------------
(* list_sessions                                                           *)

\* The first SELECT: the user's sessions.
List(r) ==
    /\ pc[r] = "start"
    /\ listed' = [listed EXCEPT ![r] = {s \in SessionIds : sessions[s] = user[r]}]
    /\ Goto(r, "select")
    /\ UNCHANGED <<sessions, questions, answers, user, genVars, shown, seen, saveVars>>

\* selectinload: the questions of those sessions, in a later snapshot.
ListQuestions(r) ==
    /\ pc[r] = "select"
    /\ shown' = [shown EXCEPT ![r] =
          [s \in SessionIds |-> IF s \in listed[r] THEN questions[s] ELSE <<>>]]
    /\ Goto(r, "nested")
    /\ UNCHANGED <<sessions, questions, answers, user, genVars, listed, seen, saveVars>>

\* The nested selectinload: the answers of those questions, in a third one.
ListAnswers(r) ==
    /\ pc[r] = "nested"
    /\ seen' = [seen EXCEPT ![r] = {answers[a] : a \in
          {b \in Requests : /\ answers[b] # None
                            /\ answers[b].question[1] \in listed[r]
                            /\ answers[b].question[2] \in DOMAIN shown[r][answers[b].question[1]]}}]
    /\ Goto(r, "listed")
    /\ UNCHANGED <<sessions, questions, answers, user, genVars, listed, shown, saveVars>>

\* The process dies, or a statement fails: an open transaction is rolled back.
Crash(r) ==
    /\ pc[r] \notin Done
    /\ Goto(r, "crashed")
    /\ UNCHANGED <<sessions, questions, answers, user, genVars, listVars, saveVars>>

Next == \E r \in Requests :
    \/ AskAi(r) \/ FlushSession(r) \/ Commit(r) \/ Respond(r)
    \/ LoadQuestion(r) \/ Insert(r) \/ Update(r) \/ Refresh(r)
    \/ List(r) \/ ListQuestions(r) \/ ListAnswers(r)
    \/ Crash(r)

Spec == Init /\ [][Next]_vars

-----------------------------------------------------------------------------
(* Properties                                                              *)

\* The positions 0, 1, 2, ... of at least one question.
InOrder(positions) ==
    positions # <<>> /\ \A i \in DOMAIN positions : positions[i] = i - 1

(* Whatever the AI replies and wherever a request fails, a session has the *)
(* questions of the one request that made it, at least one and no more     *)
(* than it asked for, numbered from 0 without gaps (ai_client.py:175-182); *)
(* and there are no questions without a session.                           *)
SessionsWhole ==
    \A s \in SessionIds \ Old :
        IF sessions[s] = None THEN questions[s] = <<>>
        ELSE /\ InOrder(questions[s])
             /\ \E r \in Requests :
                   sess[r] = s /\ user[r] = sessions[s] /\ Len(questions[s]) <= count[r]

\* Somebody with the right to answer q sent t as its answer.
SentFor(q, t, u) == \E r \in Requests : user[r] = u /\ target[r] = q /\ text[r] = t

(* A listing reads sessions, questions and answers in three snapshots, and *)
(* yet shows every session of the user it found with all of its questions, *)
(* and with at most one answer to each, which that user has sent.          *)
ListingWhole ==
    \A r \in Requests : pc[r] = "listed" =>
        /\ \A s \in listed[r] :
              sessions[s] = user[r] /\ shown[r][s] = questions[s] /\ InOrder(shown[r][s])
        /\ \A a \in seen[r] :
              /\ SentFor(a.question, a.text, user[r])
              /\ \A b \in seen[r] : a.question = b.question => a = b

(* "0-or-1 Answer" (models/interview.py:1), and it is the owner's: however *)
(* first answers race, a question has one answer at most, it exists, and   *)
(* the text was sent for that question by the owner of its session.        *)
AnswersOwned ==
    \A a \in Requests : answers[a] # None =>
        LET q == answers[a].question
        IN  /\ Found(q, sessions[q[1]])
            /\ SentFor(q, answers[a].text, sessions[q[1]])
            /\ RowsOf(q) = {a}

(* A response tells the truth (interview.py:50-60): it shows a text that   *)
(* the row did hold since this save was committed - not, after an UPDATE   *)
(* left out for lack of a change, one that another save had replaced - and *)
(* either the text that was sent or that of another save of the question   *)
(* committed since this one looked.                                        *)
RepliesTrue ==
    \A r \in Requests : pc[r] = "saved" =>
        /\ reply[r] \in held[r]
        /\ \/ reply[r] = text[r]
           \/ \E q \in during[r] : target[q] = target[r] /\ reply[r] = text[q]

=============================================================================
