--------------------------- MODULE InterviewsProofs ---------------------------
(***************************************************************************)
(* Proofs about Interviews, for any requests, users, sessions, texts and   *)
(* replies of the AI.  The argument: what a handler has in hand between    *)
(* two statements stays true of the tables, because a session that is      *)
(* committed never changes, an answer row never changes its question, and  *)
(* whoever changes its text since it was read is on the list `during`.     *)
(***************************************************************************)
EXTENDS Interviews, SequenceTheorems, TLAPS

-----------------------------------------------------------------------------
(* Sequences                                                               *)

\* Questions that a request may commit: some, not too many, numbered from 0.
Fits(items, n) ==
    /\ items # <<>> /\ Len(items) <= n
    /\ \A i \in 1 .. Len(items) : items[i].position = i - 1

LEMMA FunctionsAreSequences ==
    ASSUME NEW n \in Nat, NEW S, NEW s \in [1 .. n -> S]
    PROVE  s \in Seq(S) /\ Len(s) = n /\ DOMAIN s = 1 .. n
<1>1. s \in Seq(S)
  BY SeqDef
<1>2. DOMAIN s = 1 .. Len(s) /\ Len(s) \in Nat
  BY <1>1, LenProperties
<1>3. 1 .. n = 1 .. Len(s)
  BY <1>2
<1> QED  BY <1>1, <1>2, <1>3

\* The stub's questions need no correction.
LEMMA StubFits ==
    ASSUME NEW n \in Counts
    PROVE  Stub(n) \in Seq(Item) /\ Fits(Stub(n), n)
<1>1. n \in Nat /\ n > 0
  BY CountsAssumption
<1>2. Stub(n) \in [1 .. n -> Item]
  BY <1>1 DEF Stub, Item
<1>3. Stub(n) \in Seq(Item) /\ Len(Stub(n)) = n
  BY <1>1, <1>2, FunctionsAreSequences
<1>4. \A i \in 1 .. n : Stub(n)[i].position = i - 1
  BY <1>1 DEF Stub
<1>5. Stub(n) # <<>>
  BY <1>1, <1>3, EmptySeq
<1> QED  BY <1>1, <1>3, <1>4, <1>5 DEF Fits

\* The AI's questions fit once they are renumbered and cut.
LEMMA GeneratedFits ==
    ASSUME NEW items \in Seq(Item), items # <<>>, NEW n \in Counts
    PROVE  Generated(items, n) \in Seq(Item) /\ Fits(Generated(items, n), n)
<1> DEFINE all == Renumbered(items)
           k == IF Len(items) < n THEN Len(items) ELSE n
<1>1. /\ n \in Nat /\ n > 0 /\ Len(items) \in Nat /\ Len(items) > 0
      /\ DOMAIN items = 1 .. Len(items)
      /\ \A i \in 1 .. Len(items) : items[i] \in Item
  BY CountsAssumption, EmptySeq, LenProperties, ElementOfSeq
<1>2. /\ k \in Nat /\ k > 0 /\ k <= n /\ k <= Len(items)
  BY <1>1
<1>3. \A i \in 1 .. Len(items) : all[i] \in Item /\ all[i].position = i - 1
  <2> TAKE i \in 1 .. Len(items)
  <2>1. all[i] = [items[i] EXCEPT !.position = i - 1]
    BY <1>1 DEF Renumbered
  <2>2. items[i] \in Item /\ i - 1 \in Nat
    BY <1>1
  <2> QED  BY <2>1, <2>2 DEF Item
<1> HIDE DEF all, k
<1>4. \A i \in 1 .. k : all[i] \in Item
  BY <1>1, <1>2, <1>3
<1>5. /\ SubSeq(all, 1, k) \in Seq(Item)
      /\ Len(SubSeq(all, 1, k)) = k
      /\ \A i \in 1 .. k : SubSeq(all, 1, k)[i] = all[i]
  <2>1. /\ SubSeq(all, 1, k) \in Seq(Item)
        /\ Len(SubSeq(all, 1, k)) = (IF 1 <= k THEN k - 1 + 1 ELSE 0)
        /\ \A i \in 1 .. k - 1 + 1 : SubSeq(all, 1, k)[i] = all[1 + i - 1]
    BY <1>2, <1>4, SubSeqProperties, Z3
  <2>2. \A i \in 1 .. k : 1 + i - 1 = i
    BY <1>2
  <2>3. k - 1 + 1 = k /\ 1 <= k
    BY <1>2
  <2> QED  BY <2>1, <2>2, <2>3, Zenon
<1>6. Generated(items, n) = SubSeq(all, 1, k)
  BY DEF Generated, all, k
<1>7. SubSeq(all, 1, k) # <<>>
  <2>1. Len(SubSeq(all, 1, k)) # 0
    BY <1>2, <1>5
  <2> QED  BY <2>1, EmptySeq, Zenon
<1>8. \A i \in 1 .. k : SubSeq(all, 1, k)[i].position = i - 1
  BY <1>1, <1>2, <1>3, <1>5
<1> QED  BY <1>2, <1>5, <1>6, <1>7, <1>8 DEF Fits

\* The rows of fitting questions are in order.
LEMMA RowsInOrder ==
    ASSUME NEW items \in Seq(Item), NEW n \in Nat, Fits(items, n)
    PROVE  /\ Rows(items) \in Seq(Nat)
           /\ InOrder(Rows(items)) /\ Len(Rows(items)) <= n
<1>1. /\ Len(items) \in Nat /\ DOMAIN items = 1 .. Len(items)
      /\ \A i \in 1 .. Len(items) : items[i] \in Item
      /\ Len(items) # 0
  BY EmptySeq, LenProperties, ElementOfSeq DEF Fits
<1>2. \A i \in 1 .. Len(items) : items[i].position \in Nat
  BY <1>1 DEF Item
<1>3. Rows(items) \in [1 .. Len(items) -> Nat]
  BY <1>1, <1>2 DEF Rows
<1>4. Rows(items) \in Seq(Nat) /\ Len(Rows(items)) = Len(items)
      /\ DOMAIN Rows(items) = 1 .. Len(items)
  BY <1>1, <1>3, FunctionsAreSequences
<1>5. \A i \in 1 .. Len(items) : Rows(items)[i] = i - 1
  BY <1>1 DEF Rows, Fits
<1>6. Rows(items) # <<>>
  BY <1>1, <1>4, EmptySeq
<1> QED  BY <1>4, <1>5, <1>6 DEF InOrder, Fits

-----------------------------------------------------------------------------
(* Types, and what a handler has in hand at each of its steps              *)

\* What a request has not got yet.
Fresh ==
    \A r \in Requests :
        /\ pc[r] \in {"start", "flush"} => sess[r] = None
        /\ pc[r] = "start" => target[r] = None /\ text[r] = None /\ loaded[r] = None
        /\ pc[r] \in {"start", "save"} => answers[r] = None

\* What it has: fitting questions, a session id, a question, its answer's row.
Held ==
    \A r \in Requests :
        /\ pc[r] \in {"flush", "commit"} => Fits(raw[r], count[r])
        /\ pc[r] = "commit" => sess[r] \in SessionIds
        /\ pc[r] \in {"save", "refresh", "saved"} =>
              target[r] \in Questions /\ text[r] \in Texts
        /\ loaded[r] # None =>
              answers[loaded[r].row] # None /\ answers[loaded[r].row].question = target[r]
        /\ pc[r] = "refresh" /\ loaded[r] = None =>
              answers[r] # None /\ answers[r].question = target[r]

TypeInv == TypeOK /\ Fresh /\ Held

\* None is no session, question, text, answer and nothing loaded.
LEMMA NoneIsNew ==
    /\ None \notin SessionIds /\ None \notin Questions /\ None \notin Texts
    /\ None \notin Answer /\ None \notin Loaded /\ None \notin Users
  BY NoneAssumption

LEMMA InitTyped == Init => TypeInv
<1> SUFFICES ASSUME Init PROVE TypeInv
  OBVIOUS
<1>1. <<>> \in Seq(Nat) /\ <<0>> \in Seq(Nat) /\ <<>> \in Seq(Item)
  BY EmptySeq
<1>2. questions \in [SessionIds -> Seq(Nat)]
  BY <1>1 DEF Init
<1>3. raw \in [Requests -> Seq(Item)] /\ shown \in [Requests -> [SessionIds -> Seq(Nat)]]
  BY <1>1 DEF Init
<1>4. TypeOK
  BY <1>2, <1>3 DEF Init, TypeOK, Done
<1> QED  BY <1>4 DEF Init, TypeInv, Fresh, Held

LEMMA StepTyped == TypeInv /\ [Next]_vars => TypeInv'
<1> SUFFICES ASSUME TypeInv, [Next]_vars PROVE TypeInv'
  OBVIOUS
<1> USE NoneIsNew DEF TypeInv, TypeOK, Done, Goto, genVars, listVars, saveVars, history
<1>1. ASSUME NEW r \in Requests, AskAi(r) PROVE TypeInv'
  <2>1. PICK n \in Counts, items \in Replies \cup {<<>>} :
           /\ count' = [count EXCEPT ![r] = n]
           /\ raw' = [raw EXCEPT ![r] = IF items = <<>> THEN Stub(n) ELSE Generated(items, n)]
    BY <1>1 DEF AskAi
  <2>2. PICK new \in Seq(Item) : raw' = [raw EXCEPT ![r] = new] /\ Fits(new, n)
    <3>1. CASE items = <<>>
      BY <2>1, <3>1, StubFits
    <3>2. CASE items # <<>>
      <4>1. items \in Seq(Item)
        BY <3>2, RepliesAssumption
      <4> QED  BY <2>1, <3>2, <4>1, GeneratedFits
    <3> QED  BY <3>1, <3>2
  <2>3. /\ pc[r] = "start" /\ pc' = [pc EXCEPT ![r] = "flush"]
        /\ UNCHANGED <<sessions, questions, answers, user, sess, listVars, saveVars>>
    BY <1>1 DEF AskAi
  <2>4. TypeOK'
    BY <2>1, <2>2, <2>3
  <2>5. Fresh'
    BY <2>3 DEF Fresh
  <2>6. Held'
    BY <2>1, <2>2, <2>3 DEF Held
  <2> QED  BY <2>4, <2>5, <2>6
<1>2. ASSUME NEW r \in Requests, FlushSession(r) PROVE TypeInv'
  BY <1>2 DEF FlushSession, Fresh, Held
<1>3. ASSUME NEW r \in Requests, Commit(r) PROVE TypeInv'
  <2>1. pc[r] = "commit" /\ UNCHANGED <<answers, user, genVars, listVars, saveVars>>
    BY <1>3 DEF Commit
  <2>2. sess[r] \in SessionIds /\ Fits(raw[r], count[r]) /\ raw[r] \in Seq(Item)
    BY <2>1 DEF Held
  <2>3. count[r] \in Nat
    <3>1. count[r] \in Counts \cup {0}
      OBVIOUS
    <3>2. Counts \cup {0} \subseteq Nat
      BY CountsAssumption
    <3> QED  BY <3>1, <3>2, Zenon
  <2>4. Rows(raw[r]) \in Seq(Nat)
    BY <2>2, <2>3, RowsInOrder
  <2>5. /\ sessions' \in [SessionIds -> Users \cup {None}]
        /\ questions' \in [SessionIds -> Seq(Nat)]
    <3>1. CASE UNCHANGED <<sessions, questions>>
      BY <3>1
    <3>2. CASE /\ sessions' = [sessions EXCEPT ![sess[r]] = user[r]]
               /\ questions' = [questions EXCEPT ![sess[r]] = Rows(raw[r])]
      <4>1. user[r] \in Users
        OBVIOUS
      <4>2. sessions' \in [SessionIds -> Users \cup {None}]
        BY <2>2, <3>2, <4>1
      <4>3. questions' \in [SessionIds -> Seq(Nat)]
        BY <2>2, <2>4, <3>2
      <4> QED  BY <4>2, <4>3
    <3> QED  BY <1>3, <3>1, <3>2 DEF Commit
  <2>6. /\ pc' \in [Requests -> {"respond", "500"} \cup {pc[p] : p \in Requests}]
        /\ pc'[r] \in {"respond", "500"} /\ \A p \in Requests \ {r} : pc'[p] = pc[p]
    BY <1>3 DEF Commit
  <2>7. TypeOK'
    BY <2>1, <2>5, <2>6
  <2> QED  BY <2>1, <2>6, <2>7 DEF Fresh, Held
<1>4. ASSUME NEW r \in Requests, LoadQuestion(r) PROVE TypeInv'
  <2>1. PICK q \in Questions, t \in Texts :
           /\ target' = [target EXCEPT ![r] = q]
           /\ text' = [text EXCEPT ![r] = t]
           /\ \/ Found(q, user[r]) /\ RowsOf(q) = {} /\ Goto(r, "save") /\ UNCHANGED loaded
              \/ /\ Found(q, user[r])
                 /\ \E a \in RowsOf(q) :
                       loaded' = [loaded EXCEPT ![r] = [row |-> a, text |-> answers[a].text]]
                 /\ Goto(r, "save")
              \/ ~ Found(q, user[r]) /\ Goto(r, "404") /\ UNCHANGED loaded
    BY <1>4 DEF LoadQuestion
  <2>2. /\ pc[r] = "start"
        /\ UNCHANGED <<sessions, questions, answers, user, genVars, listVars, reply, history>>
    BY <1>4 DEF LoadQuestion
  <2>3. /\ pc' \in [Requests -> {"save", "404"} \cup {pc[p] : p \in Requests}]
        /\ pc'[r] \in {"save", "404"} /\ \A p \in Requests \ {r} : pc'[p] = pc[p]
    BY <2>1
  <2>4. CASE UNCHANGED loaded
    BY <2>1, <2>2, <2>3, <2>4 DEF Fresh, Held
  <2>5. CASE \E a \in RowsOf(q) :
                loaded' = [loaded EXCEPT ![r] = [row |-> a, text |-> answers[a].text]]
    <3>1. PICK a \in RowsOf(q) :
             loaded' = [loaded EXCEPT ![r] = [row |-> a, text |-> answers[a].text]]
      BY <2>5
    <3>2. a \in Requests /\ answers[a] \in Answer /\ answers[a].question = q
      BY <3>1 DEF RowsOf
    <3>3. [row |-> a, text |-> answers[a].text] \in Loaded
      BY <3>2 DEF Answer, Loaded
    <3>4. TypeOK'
      BY <2>1, <2>2, <2>3, <3>1, <3>3
    <3>5. Fresh'
      BY <2>1, <2>2, <2>3, <3>1 DEF Fresh
    <3>6. Held'
      BY <2>1, <2>2, <2>3, <3>1, <3>2, <3>3 DEF Held
    <3> QED  BY <3>4, <3>5, <3>6
  <2> QED  BY <2>1, <2>4, <2>5
<1>5. ASSUME NEW r \in Requests, Insert(r) PROVE TypeInv'
  <2>1. NewAnswer(r) \in Answer /\ NewAnswer(r).question = target[r]
    BY <1>5 DEF Insert, Held, NewAnswer, Answer
  <2>2. /\ pc[r] = "save" /\ loaded[r] = None /\ answers[r] = None
        /\ UNCHANGED <<sessions, questions, user, genVars, listVars, target, text, loaded, reply>>
    BY <1>5 DEF Insert, Fresh
  <2>3. CASE answers' = [answers EXCEPT ![r] = NewAnswer(r)] /\ Commits(r) /\ Goto(r, "refresh")
    <3>1. TypeOK'
      <4>1. RowSaved(r) = r /\ answers'[r].text \in Texts
        BY <2>1, <2>2, <2>3 DEF RowSaved, Answer
      <4> QED  BY <2>1, <2>2, <2>3, <4>1 DEF Commits
    <3>2. Fresh'
      BY <2>2, <2>3 DEF Fresh
    <3>3. Held'
      <4>1. \A a \in Requests : answers[a] # None => answers'[a] = answers[a]
        BY <2>2, <2>3
      <4>2. \A p \in Requests : loaded[p] # None => loaded[p].row \in Requests
        BY DEF Loaded
      <4> QED  BY <2>1, <2>2, <2>3, <4>1, <4>2 DEF Held
    <3> QED  BY <3>1, <3>2, <3>3
  <2>4. CASE Goto(r, "500") /\ UNCHANGED <<answers, history>>
    BY <2>2, <2>4 DEF Fresh, Held
  <2> QED  BY <1>5, <2>3, <2>4 DEF Insert
<1>6. ASSUME NEW r \in Requests, Update(r) PROVE TypeInv'
  <2> DEFINE a == loaded[r].row
  <2>1. a \in Requests /\ answers[a] \in Answer /\ loaded[r].text \in Texts /\ text[r] \in Texts
    BY <1>6 DEF Update, Held, Loaded
  <2>2. PICK t \in Texts : answers' = [answers EXCEPT ![a] = [answers[a] EXCEPT !.text = t]]
    <3>1. answers' = [answers EXCEPT ![a].text =
                         IF text[r] # loaded[r].text THEN text[r] ELSE @]
      BY <1>6 DEF Update
    <3>2. answers[a].text \in Texts
      BY <2>1 DEF Answer
    <3> QED  BY <2>1, <3>1, <3>2
  <2>3. [answers[a] EXCEPT !.text = t] \in Answer
        /\ [answers[a] EXCEPT !.text = t].question = answers[a].question
    BY <2>1 DEF Answer
  <2>4. /\ pc[r] = "save" /\ pc' = [pc EXCEPT ![r] = "refresh"] /\ loaded[r] # None
        /\ during' \in [Requests -> SUBSET Requests]
        /\ held' \in [Requests -> SUBSET Texts]
        /\ UNCHANGED <<sessions, questions, user, genVars, listVars, target, text, loaded, reply>>
    <3>1. RowSaved(r) = a /\ answers'[a].text = t
      BY <1>6, <2>1, <2>2 DEF Update, RowSaved, Answer
    <3> QED  BY <1>6, <3>1 DEF Update, Commits
  <2> HIDE DEF a
  <2>5. \A p \in Requests :
           /\ answers'[p] # None <=> answers[p] # None
           /\ answers[p] # None => answers'[p].question = answers[p].question
    <3> DEFINE b == [answers[a] EXCEPT !.text = t]
    <3>1. b # None /\ answers[a] # None /\ b.question = answers[a].question
      BY <2>1, <2>3
    <3>2. \A p \in Requests : answers'[p] = IF p = a THEN b ELSE answers[p]
      BY <2>1, <2>2
    <3> HIDE DEF b
    <3> QED  BY <3>1, <3>2
  <2>6. TypeOK'
    BY <2>1, <2>2, <2>3, <2>4
  <2>7. Fresh'
    BY <2>4, <2>5 DEF Fresh
  <2>8. Held'
    <3>1. \A p \in Requests : loaded[p] # None => loaded[p].row \in Requests
      BY DEF Loaded
    <3> QED  BY <2>4, <2>5, <3>1 DEF Held
  <2> QED  BY <2>6, <2>7, <2>8
<1>7. ASSUME NEW r \in Requests, Refresh(r) PROVE TypeInv'
  <2>1. RowSaved(r) \in Requests /\ answers[RowSaved(r)] \in Answer
    BY <1>7 DEF Refresh, RowSaved, Held, Loaded
  <2>2. answers[RowSaved(r)].text \in Texts
    BY <2>1 DEF Answer
  <2> QED  BY <1>7, <2>2 DEF Refresh, Fresh, Held
<1>8. ASSUME NEW r \in Requests, List(r) PROVE TypeInv'
  BY <1>8 DEF List, Fresh, Held
<1>12. ASSUME NEW r \in Requests, ListQuestions(r) PROVE TypeInv'
  <2>1. <<>> \in Seq(Nat)
    BY EmptySeq
  <2>2. shown' \in [Requests -> [SessionIds -> Seq(Nat)]]
    BY <1>12, <2>1 DEF ListQuestions
  <2> QED  BY <1>12, <2>2 DEF ListQuestions, Fresh, Held
<1>9. ASSUME NEW r \in Requests, ListAnswers(r) PROVE TypeInv'
  <2>1. /\ seen' \in [Requests -> SUBSET Answer]
        /\ pc' = [pc EXCEPT ![r] = "listed"] /\ pc[r] = "nested"
        /\ UNCHANGED <<sessions, questions, answers, user, genVars, listed, shown, saveVars>>
    BY <1>9 DEF ListAnswers
  <2> QED  BY <2>1 DEF Fresh, Held
<1>10. ASSUME NEW r \in Requests, Respond(r) PROVE TypeInv'
  BY <1>10 DEF Respond, Fresh, Held
<1>13. ASSUME NEW r \in Requests, Crash(r) PROVE TypeInv'
  BY <1>13 DEF Crash, Fresh, Held
<1>11. CASE UNCHANGED vars
  BY <1>11 DEF vars, Fresh, Held
<1> QED
  BY <1>1, <1>2, <1>3, <1>4, <1>5, <1>6, <1>7, <1>8, <1>9, <1>10, <1>11,
     <1>12, <1>13 DEF Next

(* The tables and the handlers' variables keep their types.                *)
THEOREM TypeCorrect == Spec => []TypeOK
<1>1. Spec => []TypeInv
  BY InitTyped, StepTyped, PTL DEF Spec
<1> QED  BY <1>1, PTL DEF TypeInv

-----------------------------------------------------------------------------
(* Sessions                                                                *)

\* A session id belongs to the request that was given it, and nobody has
\* committed it when that request is about to.
Ids ==
    /\ \A s \in Old : sessions[s] # None /\ InOrder(questions[s])
    /\ \A r \in Requests : sess[r] \notin Old
    /\ \A r, q \in Requests : sess[r] # None /\ sess[r] = sess[q] => r = q
    /\ \A r \in Requests : pc[r] = "commit" => sessions[sess[r]] = None

SessionInv == TypeInv /\ Ids /\ SessionsWhole

LEMMA InitSessions == Init => SessionInv
<1> SUFFICES ASSUME Init PROVE SessionInv
  OBVIOUS
<1>1. TypeInv
  BY InitTyped
<1>2. InOrder(<<0>>)
  BY DEF InOrder
<1>3. None \notin Old
  BY NoneIsNew, OldAssumption
<1>4. Ids
  BY <1>2, <1>3, OldAssumption DEF Init, Ids
<1>5. SessionsWhole
  BY DEF Init, SessionsWhole
<1> QED  BY <1>1, <1>4, <1>5 DEF SessionInv

\* Only AskAi, FlushSession and Commit touch what SessionInv is about.
OtherStep(r) ==
    \/ Respond(r) \/ LoadQuestion(r) \/ Insert(r) \/ Update(r) \/ Refresh(r)
    \/ List(r) \/ ListQuestions(r) \/ ListAnswers(r) \/ Crash(r)

LEMMA OtherSteps ==
    ASSUME NEW r \in Requests, TypeOK, OtherStep(r)
    PROVE  /\ UNCHANGED <<sessions, questions, user, count, raw, sess>>
           /\ \A q \in Requests : pc'[q] \in {"flush", "commit"} => pc'[q] = pc[q]
  BY DEF OtherStep, TypeOK, Done, Goto, genVars, listVars, saveVars, Respond, LoadQuestion,
         Insert, Update, Refresh, List, ListQuestions, ListAnswers, Crash

LEMMA StepSessions == SessionInv /\ [Next]_vars => SessionInv'
<1> SUFFICES ASSUME SessionInv, [Next]_vars PROVE SessionInv'
  OBVIOUS
<1>t. TypeInv /\ TypeOK /\ Fresh /\ Held /\ Ids /\ SessionsWhole /\ TypeInv'
  BY StepTyped DEF SessionInv, TypeInv
<1>1. ASSUME NEW r \in Requests, AskAi(r) PROVE Ids' /\ SessionsWhole'
  <2>1. /\ UNCHANGED <<sessions, questions, user, sess>> /\ pc' = [pc EXCEPT ![r] = "flush"]
        /\ sess[r] = None /\ \A q \in Requests \ {r} : count'[q] = count[q]
    BY <1>t, <1>1 DEF AskAi, Goto, Fresh, TypeOK
  <2>2. Ids'
    BY <1>t, <2>1 DEF Ids, TypeOK, Done
  <2>3. SessionsWhole'
    BY <1>t, <2>1, NoneIsNew DEF SessionsWhole
  <2> QED  BY <2>2, <2>3
<1>2. ASSUME NEW r \in Requests, FlushSession(r) PROVE Ids' /\ SessionsWhole'
  <2>1. PICK s \in SessionIds \ Old :
           (\A q \in Requests : sess[q] # s) /\ sess' = [sess EXCEPT ![r] = s]
    BY <1>2 DEF FlushSession
  <2>2. /\ UNCHANGED <<sessions, questions, user, count>>
        /\ sess[r] = None
        /\ \A q \in Requests \ {r} : pc'[q] = pc[q]
    BY <1>t, <1>2 DEF FlushSession, Goto, Fresh, TypeOK
  <2>3. sessions[s] = None
    BY <1>t, <2>1 DEF SessionsWhole
  <2>4. Ids'
    BY <1>t, <2>1, <2>2, <2>3, NoneIsNew DEF Ids, TypeOK
  <2>5. SessionsWhole'
    BY <1>t, <2>1, <2>2, NoneIsNew DEF SessionsWhole, TypeOK
  <2> QED  BY <2>4, <2>5
<1>3. ASSUME NEW r \in Requests, Commit(r) PROVE Ids' /\ SessionsWhole'
  <2>1. /\ pc[r] = "commit" /\ UNCHANGED <<user, count, sess>>
        /\ \A q \in Requests \ {r} : pc'[q] = pc[q]
        /\ pc'[r] \in {"respond", "500"}
    BY <1>t, <1>3 DEF Commit, Goto, genVars, TypeOK
  <2>2. /\ sess[r] \in SessionIds \ Old /\ sessions[sess[r]] = None
        /\ raw[r] \in Seq(Item) /\ Fits(raw[r], count[r])
    BY <1>t, <2>1 DEF Held, Ids, TypeOK
  <2>3. CASE UNCHANGED <<sessions, questions>>
    <3>1. Ids'
      BY <1>t, <2>1, <2>3 DEF Ids
    <3>2. SessionsWhole'
      BY <1>t, <2>1, <2>3 DEF SessionsWhole
    <3> QED  BY <3>1, <3>2
  <2>4. CASE /\ sessions' = [sessions EXCEPT ![sess[r]] = user[r]]
             /\ questions' = [questions EXCEPT ![sess[r]] = Rows(raw[r])]
    <3>1. count[r] \in Nat
      <4>1. count[r] \in Counts \cup {0}
        BY <1>t DEF TypeOK
      <4>2. Counts \cup {0} \subseteq Nat
        BY CountsAssumption
      <4> QED  BY <4>1, <4>2, Zenon
    <3>2. InOrder(Rows(raw[r])) /\ Len(Rows(raw[r])) <= count[r]
      BY <2>2, <3>1, RowsInOrder
    <3>3. /\ sessions'[sess[r]] = user[r] /\ questions'[sess[r]] = Rows(raw[r])
          /\ \A s \in SessionIds \ {sess[r]} :
                sessions'[s] = sessions[s] /\ questions'[s] = questions[s]
      BY <1>t, <2>2, <2>4 DEF TypeOK
    <3>4. \A q \in Requests \ {r} : pc'[q] = "commit" => sess[q] # sess[r] /\ sess[q] \in SessionIds
      BY <1>t, <2>1, <2>2, NoneIsNew DEF Ids, Held
    <3>5. Ids'
      BY <1>t, <2>1, <2>2, <3>3, <3>4, OldAssumption DEF Ids
    <3>6. SessionsWhole'
      <4> SUFFICES ASSUME NEW s \in SessionIds \ Old
                   PROVE  IF sessions'[s] = None THEN questions'[s] = <<>>
                          ELSE /\ InOrder(questions'[s])
                               /\ \E p \in Requests : /\ sess'[p] = s /\ user'[p] = sessions'[s]
                                                      /\ Len(questions'[s]) <= count'[p]
        BY DEF SessionsWhole, InOrder
      <4>1. CASE s = sess[r]
        <5>1. user[r] # None
          BY <1>t, NoneIsNew DEF TypeOK
        <5> QED  BY <2>1, <3>2, <3>3, <4>1, <5>1
      <4>2. CASE s # sess[r]
        BY <1>t, <2>1, <3>3, <4>2 DEF SessionsWhole
      <4> QED  BY <4>1, <4>2
    <3> QED  BY <3>5, <3>6
  <2> QED  BY <1>3, <2>3, <2>4 DEF Commit
<1>4. ASSUME NEW r \in Requests, OtherStep(r) PROVE Ids' /\ SessionsWhole'
  <2>1. /\ UNCHANGED <<sessions, questions, user, count, raw, sess>>
        /\ \A q \in Requests : pc'[q] = "commit" => pc[q] = "commit"
    BY <1>t, <1>4, OtherSteps
  <2>2. Ids'
    BY <1>t, <2>1 DEF Ids
  <2>3. SessionsWhole'
    BY <1>t, <2>1 DEF SessionsWhole
  <2> QED  BY <2>2, <2>3
<1>5. CASE UNCHANGED vars
  <2>1. UNCHANGED <<sessions, questions, user, count, sess, pc>>
    BY <1>5 DEF vars, genVars
  <2>2. Ids'
    BY <1>t, <2>1 DEF Ids
  <2>3. SessionsWhole'
    BY <1>t, <2>1 DEF SessionsWhole
  <2> QED  BY <1>t, <2>2, <2>3 DEF SessionInv
<1> QED
  BY <1>t, <1>1, <1>2, <1>3, <1>4, <1>5 DEF Next, OtherStep, SessionInv

(* Sessions and their questions come into being together and complete,     *)
(* whatever the AI replies and wherever requests fail (ai.py,              *)
(* ai_client.py).                                                          *)
THEOREM SessionsAreWhole == Spec => []SessionsWhole
<1>1. Spec => []SessionInv
  BY InitSessions, StepSessions, PTL DEF Spec
<1> QED  BY <1>1, PTL DEF SessionInv

\* A committed session never changes; nobody changes users.
LEMMA CommittedStay ==
    SessionInv /\ [Next]_vars =>
        /\ user' = user
        /\ \A s \in SessionIds : sessions[s] # None =>
              sessions'[s] = sessions[s] /\ questions'[s] = questions[s]
<1> SUFFICES ASSUME SessionInv, [Next]_vars
             PROVE  /\ user' = user
                    /\ \A s \in SessionIds : sessions[s] # None =>
                          sessions'[s] = sessions[s] /\ questions'[s] = questions[s]
  OBVIOUS
<1>t. TypeOK /\ Held /\ Ids
  BY DEF SessionInv, TypeInv
<1>1. ASSUME NEW r \in Requests, AskAi(r) \/ FlushSession(r)
      PROVE  UNCHANGED <<user, sessions, questions>>
  BY <1>1 DEF AskAi, FlushSession
<1>2. ASSUME NEW r \in Requests, Commit(r)
      PROVE  /\ user' = user
             /\ \A s \in SessionIds : sessions[s] # None =>
                   sessions'[s] = sessions[s] /\ questions'[s] = questions[s]
  <2>1. sessions[sess[r]] = None
    BY <1>t, <1>2 DEF Commit, Ids
  <2> QED  BY <1>t, <1>2, <2>1 DEF Commit, TypeOK
<1>3. ASSUME NEW r \in Requests, OtherStep(r) PROVE UNCHANGED <<user, sessions, questions>>
  BY <1>t, <1>3, OtherSteps
<1>4. CASE UNCHANGED vars
  BY <1>4 DEF vars
<1> QED  BY <1>1, <1>2, <1>3, <1>4 DEF Next, OtherStep

-----------------------------------------------------------------------------
(* Answers                                                                 *)

\* The question that a save is for was found, in a session of its user.
Looked ==
    \A r \in Requests : pc[r] \in {"save", "refresh", "saved"} => Found(target[r], user[r])

AnswerInv == SessionInv /\ Looked /\ AnswersOwned

\* What a request sent, it has sent.
LEMMA SentStays ==
    TypeInv /\ [Next]_vars =>
        /\ \A p \in Requests : pc[p] # "start" =>
              pc'[p] # "start" /\ target'[p] = target[p] /\ text'[p] = text[p]
        /\ \A q \in Questions, t \in Texts, u \in Users :
              SentFor(q, t, u) => SentFor(q, t, u)'
<1> SUFFICES ASSUME TypeInv, [Next]_vars
             PROVE  /\ \A p \in Requests : pc[p] # "start" =>
                          pc'[p] # "start" /\ target'[p] = target[p] /\ text'[p] = text[p]
                    /\ \A q \in Questions, t \in Texts, u \in Users :
                          SentFor(q, t, u) => SentFor(q, t, u)'
  OBVIOUS
<1>t. TypeOK /\ Fresh
  BY DEF TypeInv
<1>1. user' = user /\ \A p \in Requests : pc[p] # "start" =>
         pc'[p] # "start" /\ target'[p] = target[p] /\ text'[p] = text[p]
  <2> USE DEF TypeOK, Done, Goto, genVars, listVars, saveVars
  <2>1. ASSUME NEW r \in Requests, AskAi(r) \/ FlushSession(r) \/ Commit(r) \/ Respond(r)
        PROVE  <1>1!1 /\ <1>1!2
    BY <1>t, <2>1 DEF AskAi, FlushSession, Commit, Respond
  <2>2. ASSUME NEW r \in Requests, LoadQuestion(r) PROVE <1>1!1 /\ <1>1!2
    BY <1>t, <2>2 DEF LoadQuestion
  <2>3. ASSUME NEW r \in Requests, Insert(r) \/ Update(r) \/ Refresh(r) PROVE <1>1!1 /\ <1>1!2
    BY <1>t, <2>3 DEF Insert, Update, Refresh
  <2>4. ASSUME NEW r \in Requests, List(r) \/ ListQuestions(r) \/ ListAnswers(r) \/ Crash(r)
        PROVE  <1>1!1 /\ <1>1!2
    BY <1>t, <2>4 DEF List, ListQuestions, ListAnswers, Crash
  <2>5. CASE UNCHANGED vars
    BY <2>5 DEF vars
  <2> QED  BY <2>1, <2>2, <2>3, <2>4, <2>5 DEF Next
<1>2. ASSUME NEW q \in Questions, NEW t \in Texts, NEW u \in Users, SentFor(q, t, u)
      PROVE  SentFor(q, t, u)'
  <2>1. PICK p \in Requests : user[p] = u /\ target[p] = q /\ text[p] = t
    BY <1>2 DEF SentFor
  <2>2. pc[p] # "start"
    BY <1>t, <2>1, NoneIsNew DEF Fresh
  <2>3. user'[p] = u /\ target'[p] = q /\ text'[p] = t
    BY <1>1, <2>1, <2>2
  <2> QED  BY <2>3 DEF SentFor
<1> QED  BY <1>1, <1>2

\* A question that was found once will be found again.
LEMMA FoundStays ==
    ASSUME SessionInv, [Next]_vars, NEW q \in Questions, NEW u \in Users, Found(q, u)
    PROVE  Found(q, u)' /\ sessions'[q[1]] = sessions[q[1]]
<1>1. q[1] \in SessionIds /\ sessions[q[1]] # None
  BY NoneIsNew DEF Found, Questions
<1>2. sessions'[q[1]] = sessions[q[1]] /\ questions'[q[1]] = questions[q[1]]
  BY <1>1, CommittedStay
<1> QED  BY <1>2 DEF Found

\* Only Insert and Update touch the answers.
NoSave(r) ==
    \/ AskAi(r) \/ FlushSession(r) \/ Commit(r) \/ Respond(r) \/ LoadQuestion(r)
    \/ Refresh(r) \/ List(r) \/ ListQuestions(r) \/ ListAnswers(r) \/ Crash(r)

LEMMA NoSaves ==
    ASSUME NEW r \in Requests, NoSave(r)
    PROVE  UNCHANGED <<answers, history>>
  BY DEF NoSave, history, saveVars, genVars, listVars, AskAi, FlushSession, Commit, Respond,
         LoadQuestion, Refresh, List, ListQuestions, ListAnswers, Crash

\* What an Update does to the answer it loaded, and to no other.
LEMMA UpdateEffect ==
    ASSUME TypeInv, NEW r \in Requests, Update(r)
    PROVE  /\ loaded[r].row \in Requests /\ answers[loaded[r].row] \in Answer
           /\ answers'[loaded[r].row] \in Answer
           /\ answers'[loaded[r].row].question = target[r]
           /\ answers[loaded[r].row].question = target[r]
           /\ answers'[loaded[r].row].text =
                 (IF text[r] # loaded[r].text THEN text[r] ELSE answers[loaded[r].row].text)
           /\ \A a \in Requests \ {loaded[r].row} : answers'[a] = answers[a]
           /\ pc[r] = "save" /\ loaded[r] # None
           /\ target[r] \in Questions /\ text[r] \in Texts /\ loaded[r].text \in Texts
<1> DEFINE a == loaded[r].row
<1>1. /\ loaded[r] # None /\ pc[r] = "save"
      /\ answers' = [answers EXCEPT ![a].text =
                        IF text[r] # loaded[r].text THEN text[r] ELSE @]
  BY DEF Update
<1>2. /\ a \in Requests /\ loaded[r].text \in Texts
      /\ answers[a] \in Answer /\ answers[a].question = target[r]
      /\ target[r] \in Questions /\ text[r] \in Texts
  BY <1>1, NoneIsNew DEF TypeInv, TypeOK, Held, Loaded
<1> DEFINE t == IF text[r] # loaded[r].text THEN text[r] ELSE answers[a].text
<1>3. t \in Texts
  BY <1>2 DEF Answer
<1>4. answers' = [answers EXCEPT ![a] = [answers[a] EXCEPT !.text = t]]
  BY <1>1
<1> HIDE DEF a, t
<1>5. answers'[a] = [answers[a] EXCEPT !.text = t] /\ \A b \in Requests \ {a} : answers'[b] = answers[b]
  BY <1>2, <1>4 DEF TypeInv, TypeOK
<1>6. answers'[a] \in Answer /\ answers'[a].question = target[r] /\ answers'[a].text = t
  BY <1>2, <1>3, <1>5 DEF Answer
<1> QED  BY <1>1, <1>2, <1>5, <1>6 DEF a, t

LEMMA StepAnswers == AnswerInv /\ [Next]_vars => AnswerInv'
<1> SUFFICES ASSUME AnswerInv, [Next]_vars PROVE AnswerInv'
  OBVIOUS
<1>t. /\ SessionInv /\ TypeInv /\ TypeOK /\ Fresh /\ Held /\ Looked /\ AnswersOwned
      /\ SessionInv' /\ TypeInv' /\ TypeOK' /\ Held'
  BY StepSessions DEF AnswerInv, SessionInv, TypeInv
<1>u. user' = user
  BY <1>t, CommittedStay
<1>1. ASSUME NEW r \in Requests, pc'[r] \in {"save", "refresh", "saved"},
             pc[r] \in {"save", "refresh", "saved"}
      PROVE  Found(target[r], user[r])'
  <2>1. target[r] \in Questions /\ user[r] \in Users /\ target'[r] = target[r]
    BY <1>t, <1>1, SentStays DEF TypeOK, Held
  <2>2. Found(target[r], user[r])
    BY <1>t, <1>1 DEF Looked
  <2>3. PICK q \in Questions, u \in Users : q = target[r] /\ u = user[r]
    BY <2>1
  <2>4. Found(q, u)'
    BY <1>t, <2>2, <2>3, FoundStays
  <2> QED  BY <1>u, <2>1, <2>3, <2>4 DEF Found
<1>2. Looked'
  <2>1. ASSUME NEW r \in Requests, LoadQuestion(r) PROVE Looked'
    <3>1. pc[r] = "start" /\ UNCHANGED <<sessions, questions, user>>
          /\ \A p \in Requests \ {r} : pc'[p] = pc[p]
      BY <1>t, <2>1 DEF LoadQuestion, Goto, TypeOK
    <3>2. pc'[r] = "save" => Found(target'[r], user[r])
      BY <1>t, <2>1 DEF LoadQuestion, Goto, TypeOK
    <3>3. pc'[r] \in {"save", "404"}
      BY <1>t, <2>1 DEF LoadQuestion, Goto, TypeOK
    <3> QED  BY <1>1, <3>1, <3>2, <3>3 DEF Looked, Found
  <2> DEFINE Stay == \A p \in Requests : pc'[p] \in {"save", "refresh", "saved"} =>
                        pc[p] \in {"save", "refresh", "saved"}
  <2>2. ASSUME NEW r \in Requests, AskAi(r) \/ FlushSession(r) \/ Commit(r) \/ Respond(r)
        PROVE  Stay
    <3>1. \A p \in Requests \ {r} : pc'[p] = pc[p]
      BY <1>t, <2>2 DEF TypeOK, Goto, AskAi, FlushSession, Commit, Respond
    <3>2. pc'[r] \notin {"save", "refresh", "saved"}
      BY <1>t, <2>2 DEF TypeOK, Goto, AskAi, FlushSession, Commit, Respond
    <3> QED  BY <3>1, <3>2
  <2>3. ASSUME NEW r \in Requests, Insert(r) \/ Update(r) \/ Refresh(r)
        PROVE  Stay
    BY <1>t, <2>3 DEF TypeOK, Done, Goto, Insert, Update, Refresh
  <2>4. ASSUME NEW r \in Requests, List(r) \/ ListQuestions(r) \/ ListAnswers(r) \/ Crash(r)
        PROVE  Stay
    BY <1>t, <2>4 DEF TypeOK, Done, Goto, List, ListQuestions, ListAnswers, Crash
  <2>5. ASSUME UNCHANGED vars PROVE Stay
    <3>1. pc' = pc
      BY <2>5 DEF vars
    <3> QED  BY <3>1
  <2>6. Stay => Looked'
    BY <1>1 DEF Looked
  <2> QED  BY <2>1, <2>2, <2>3, <2>4, <2>5, <2>6 DEF Next
<1>3. ASSUME \A a \in Requests : answers'[a] # None =>
                \E q \in Questions, t \in Texts, u \in Users :
                   /\ answers'[a].question = q /\ answers'[a].text = t
                   /\ Found(q, u) /\ SentFor(q, t, u)
                   /\ \A b \in Requests : answers'[b] # None /\ answers'[b].question = q => a = b
      PROVE  AnswersOwned'
  <2> SUFFICES ASSUME NEW a \in Requests, answers'[a] # None
               PROVE  (LET q == answers[a].question
                       IN  /\ Found(q, sessions[q[1]])
                           /\ SentFor(q, answers[a].text, sessions[q[1]])
                           /\ RowsOf(q) = {a})'
    BY DEF AnswersOwned
  <2>1. PICK q \in Questions, t \in Texts, u \in Users :
           /\ answers'[a].question = q /\ answers'[a].text = t
           /\ Found(q, u) /\ SentFor(q, t, u)
           /\ \A b \in Requests : answers'[b] # None /\ answers'[b].question = q => a = b
    BY <1>3
  <2>2. Found(q, u)' /\ sessions'[q[1]] = u
    BY <1>t, <2>1, FoundStays DEF Found
  <2>3. SentFor(q, t, u)'
    BY <1>t, <2>1, SentStays
  <2>4. RowsOf(q)' = {a}
    BY <2>1 DEF RowsOf
  <2> QED  BY <2>1, <2>2, <2>3, <2>4 DEF Found, SentFor, RowsOf
<1>4. ASSUME NEW a \in Requests, answers[a] # None
      PROVE  \E q \in Questions, t \in Texts, u \in Users :
                /\ answers[a].question = q /\ answers[a].text = t
                /\ Found(q, u) /\ SentFor(q, t, u)
                /\ \A b \in Requests : answers[b] # None /\ answers[b].question = q => a = b
  <2>1. PICK q \in Questions, t \in Texts : answers[a].question = q /\ answers[a].text = t
    BY <1>t, <1>4 DEF TypeOK, Answer
  <2>2. Found(q, sessions[q[1]]) /\ SentFor(q, t, sessions[q[1]]) /\ RowsOf(q) = {a}
    BY <1>t, <1>4, <2>1 DEF AnswersOwned
  <2>3. sessions[q[1]] \in Users
    BY <1>t, <2>2 DEF SentFor, TypeOK
  <2> QED  BY <2>1, <2>2, <2>3 DEF RowsOf
<1>5. ASSUME UNCHANGED answers PROVE AnswersOwned'
  <2>1. \A a \in Requests : answers'[a] = answers[a]
    BY <1>5
  <2> QED  BY <1>3, <1>4, <2>1
<1>6. ASSUME NEW r \in Requests, Insert(r) PROVE AnswersOwned'
  <2>1. CASE UNCHANGED answers
    BY <1>5, <2>1
  <2>2. CASE answers' = [answers EXCEPT ![r] = NewAnswer(r)] /\ RowsOf(target[r]) = {}
    <3>1. PICK q \in Questions, t \in Texts, u \in Users :
             q = target[r] /\ t = text[r] /\ u = user[r]
      BY <1>t, <1>6 DEF Insert, Held, TypeOK
    <3>2. Found(q, u) /\ SentFor(q, t, u)
      BY <1>t, <1>6, <3>1 DEF Looked, Insert, SentFor
    <3>3. /\ answers'[r].question = q /\ answers'[r].text = t
          /\ \A a \in Requests \ {r} : answers'[a] = answers[a]
      BY <1>t, <2>2, <3>1 DEF NewAnswer, TypeOK
    <3>4. \A a \in Requests : answers[a] # None => answers[a].question # q
      BY <2>2, <3>1 DEF RowsOf
    <3>5. ASSUME NEW a \in Requests, answers'[a] # None
          PROVE  \E q2 \in Questions, t2 \in Texts, u2 \in Users :
                   /\ answers'[a].question = q2 /\ answers'[a].text = t2
                   /\ Found(q2, u2) /\ SentFor(q2, t2, u2)
                   /\ \A b \in Requests : answers'[b] # None /\ answers'[b].question = q2 => a = b
      <4>1. CASE a = r
        BY <3>2, <3>3, <3>4, <4>1
      <4>2. CASE a # r
        <5>1. PICK q2 \in Questions, t2 \in Texts, u2 \in Users :
                /\ answers[a].question = q2 /\ answers[a].text = t2
                /\ Found(q2, u2) /\ SentFor(q2, t2, u2)
                /\ \A b \in Requests : answers[b] # None /\ answers[b].question = q2 => a = b
          BY <1>4, <3>3, <3>5, <4>2
        <5> QED  BY <3>3, <3>4, <3>5, <4>2, <5>1
      <4> QED  BY <4>1, <4>2
    <3> QED  BY <1>3, <3>5
  <2> QED  BY <1>6, <2>1, <2>2 DEF Insert
<1>7. ASSUME NEW r \in Requests, Update(r) PROVE AnswersOwned'
  <2>1. PICK a \in Requests : a = loaded[r].row
    BY <1>t, <1>7, UpdateEffect
  <2>2. /\ answers[a] \in Answer /\ answers'[a] \in Answer
        /\ answers'[a].question = target[r] /\ answers[a].question = target[r]
        /\ answers'[a].text \in {text[r], answers[a].text}
        /\ \A b \in Requests \ {a} : answers'[b] = answers[b]
        /\ pc[r] = "save" /\ target[r] \in Questions /\ text[r] \in Texts
    BY <1>t, <1>7, <2>1, UpdateEffect
  <2>3. answers[a] # None
    BY <2>2, NoneIsNew
  <2>4. \A b \in Requests : /\ answers'[b] # None => answers[b] # None
                            /\ answers[b] # None => answers'[b].question = answers[b].question
    BY <2>2, <2>3
  <2>5. PICK u \in Users : u = user[r]
    BY <1>t DEF TypeOK
  <2>6. Found(target[r], u) /\ SentFor(target[r], text[r], u)
    BY <1>t, <2>2, <2>5 DEF Looked, SentFor
  <2>7. ASSUME NEW b \in Requests, answers'[b] # None
        PROVE  \E q \in Questions, t \in Texts, v \in Users :
                 /\ answers'[b].question = q /\ answers'[b].text = t
                 /\ Found(q, v) /\ SentFor(q, t, v)
                 /\ \A c \in Requests : answers'[c] # None /\ answers'[c].question = q => b = c
    <3>1. PICK q \in Questions, t \in Texts, v \in Users :
             /\ answers[b].question = q /\ answers[b].text = t
             /\ Found(q, v) /\ SentFor(q, t, v)
             /\ \A c \in Requests : answers[c] # None /\ answers[c].question = q => b = c
      BY <1>4, <2>4, <2>7
    <3>2. /\ answers'[b].question = q
          /\ \A c \in Requests : answers'[c] # None /\ answers'[c].question = q => b = c
      BY <2>4, <2>7, <3>1
    <3>3. CASE answers'[b].text = t
      BY <3>1, <3>2, <3>3
    <3>4. CASE answers'[b].text # t
      <4>1. b = a /\ answers'[b].text = text[r] /\ q = target[r]
        BY <2>2, <3>1, <3>4
      <4> QED  BY <2>2, <2>6, <3>2, <4>1
    <3> QED  BY <3>3, <3>4
  <2> QED  BY <1>3, <2>7
<1>8. ASSUME NEW r \in Requests, NoSave(r) PROVE AnswersOwned'
  BY <1>5, <1>8, NoSaves
<1>9. ASSUME UNCHANGED vars PROVE AnswersOwned'
  <2>1. UNCHANGED answers
    BY <1>9 DEF vars
  <2> QED  BY <1>5, <2>1
<1>10. AnswersOwned'
  <2>1. CASE Next
    <3>1. PICK r \in Requests : Insert(r) \/ Update(r) \/ NoSave(r)
      BY <2>1 DEF Next, NoSave
    <3> QED  BY <1>6, <1>7, <1>8, <3>1
  <2> QED  BY <1>9, <2>1
<1> QED  BY <1>t, <1>2, <1>10 DEF AnswerInv

(* A question has at most one answer, of the owner of its session, however *)
(* first answers race (interview.py:27-60).                                *)
THEOREM AnswersAreOwned == Spec => []AnswersOwned
<1>1. Init => AnswerInv
  <2>1. Init => Looked /\ AnswersOwned
    BY DEF Init, Looked, AnswersOwned
  <2> QED  BY <2>1, InitSessions DEF AnswerInv
<1>2. Spec => []AnswerInv
  BY <1>1, StepAnswers, PTL DEF Spec
<1> QED  BY <1>2, PTL DEF AnswerInv

-----------------------------------------------------------------------------
(* Listings                                                                *)

\* What a listing has read so far is still so.
Read ==
    \A r \in Requests :
        /\ pc[r] \in {"select", "nested", "listed"} =>
              \A s \in listed[r] : sessions[s] = user[r]
        /\ pc[r] \in {"nested", "listed"} =>
              \A s \in listed[r] : shown[r][s] = questions[s]
        /\ pc[r] = "listed" =>
              \A a \in seen[r] :
                 /\ SentFor(a.question, a.text, user[r])
                 /\ \A b \in seen[r] : a.question = b.question => a = b

ListInv == AnswerInv /\ Read

LEMMA ReadImpliesWhole == ListInv => ListingWhole
<1> SUFFICES ASSUME ListInv, NEW r \in Requests, pc[r] = "listed", NEW s \in listed[r]
             PROVE  sessions[s] = user[r] /\ shown[r][s] = questions[s] /\ InOrder(shown[r][s])
  BY DEF ListingWhole, ListInv, Read
<1>1. sessions[s] = user[r] /\ shown[r][s] = questions[s] /\ s \in SessionIds
  BY DEF ListInv, AnswerInv, SessionInv, TypeInv, TypeOK, Read
<1>2. sessions[s] # None
  BY <1>1, NoneIsNew DEF ListInv, AnswerInv, SessionInv, TypeInv, TypeOK
<1>3. InOrder(questions[s])
  BY <1>1, <1>2 DEF ListInv, AnswerInv, SessionInv, Ids, SessionsWhole
<1> QED  BY <1>1, <1>3

\* The steps of requests that are not reading a listing.
NoRead(r) ==
    \/ AskAi(r) \/ FlushSession(r) \/ Commit(r) \/ Respond(r) \/ LoadQuestion(r)
    \/ Insert(r) \/ Update(r) \/ Refresh(r) \/ Crash(r)

LEMMA NoReads ==
    ASSUME NEW r \in Requests, TypeOK, NoRead(r)
    PROVE  /\ UNCHANGED listVars
           /\ pc'[r] \notin {"select", "nested", "listed"}
           /\ \A p \in Requests \ {r} : pc'[p] = pc[p]
<1> USE DEF TypeOK, Done, Goto, saveVars, genVars, listVars
<1>1. CASE AskAi(r) \/ FlushSession(r) \/ Commit(r) \/ Respond(r)
  BY <1>1 DEF AskAi, FlushSession, Commit, Respond
<1>2. CASE LoadQuestion(r) \/ Insert(r)
  BY <1>2 DEF LoadQuestion, Insert
<1>3. CASE Update(r) \/ Refresh(r) \/ Crash(r)
  BY <1>3 DEF Update, Refresh, Crash
<1> QED  BY <1>1, <1>2, <1>3 DEF NoRead

LEMMA StepListings == ListInv /\ [Next]_vars => ListInv'
<1> SUFFICES ASSUME ListInv, [Next]_vars PROVE ListInv'
  OBVIOUS
<1>t. /\ AnswerInv /\ SessionInv /\ TypeInv /\ TypeOK /\ Read /\ AnswersOwned /\ AnswerInv'
      /\ TypeOK'
  BY StepAnswers DEF ListInv, AnswerInv, SessionInv, TypeInv
<1>u. /\ user' = user
      /\ \A s \in SessionIds : sessions[s] # None =>
            sessions'[s] = sessions[s] /\ questions'[s] = questions[s]
  BY <1>t, CommittedStay
<1>o. \A p \in Requests : listed[p] \subseteq SessionIds /\ user[p] \in Users /\ user[p] # None
  BY <1>t, NoneIsNew DEF TypeOK
<1> DEFINE ReadBy(r) ==
       /\ pc'[r] \in {"select", "nested", "listed"} =>
             \A s \in listed'[r] : sessions'[s] = user'[r]
       /\ pc'[r] \in {"nested", "listed"} =>
             \A s \in listed'[r] : shown'[r][s] = questions'[s]
       /\ pc'[r] = "listed" =>
             \A a \in seen'[r] :
                /\ SentFor(a.question, a.text, user[r])'
                /\ \A b \in seen'[r] : a.question = b.question => a = b
<1>1. ASSUME NEW p \in Requests, pc'[p] = pc[p],
             listed'[p] = listed[p], shown'[p] = shown[p], seen'[p] = seen[p]
      PROVE  ReadBy(p)
  <2>1. \A s \in listed[p] : sessions[s] = user[p] =>
           sessions'[s] = user'[p] /\ questions'[s] = questions[s]
    BY <1>u, <1>o
  <2>2. ASSUME NEW a \in seen[p], pc[p] = "listed" PROVE SentFor(a.question, a.text, user[p])'
    <3>1. a.question \in Questions /\ a.text \in Texts /\ SentFor(a.question, a.text, user[p])
      BY <1>t, <2>2 DEF TypeOK, Answer, Read
    <3>2. PICK q \in Questions, t \in Texts, u \in Users :
             q = a.question /\ t = a.text /\ u = user[p]
      BY <1>o, <3>1
    <3>3. SentFor(q, t, u)'
      BY <1>t, <3>1, <3>2, SentStays
    <3> QED  BY <1>u, <3>2, <3>3 DEF SentFor
  <2> QED  BY <1>t, <1>1, <2>1, <2>2 DEF Read
<1>2. ASSUME NEW r \in Requests, NoRead(r) PROVE \A p \in Requests : ReadBy(p)
  <2>1. /\ UNCHANGED <<listed, shown, seen>> /\ pc'[r] \notin {"select", "nested", "listed"}
        /\ \A p \in Requests \ {r} : pc'[p] = pc[p]
    BY <1>t, <1>2, NoReads DEF listVars
  <2>2. ASSUME NEW p \in Requests PROVE ReadBy(p)
    <3>1. CASE p = r
      BY <2>1, <3>1
    <3>2. CASE p # r
      <4>1. pc'[p] = pc[p] /\ listed'[p] = listed[p] /\ shown'[p] = shown[p] /\ seen'[p] = seen[p]
        BY <2>1, <3>2
      <4> QED  BY <1>1, <4>1
    <3> QED  BY <3>1, <3>2
  <2> QED  BY <2>2
<1>3. ASSUME NEW r \in Requests, List(r) \/ ListQuestions(r) \/ ListAnswers(r)
      PROVE  \A p \in Requests : ReadBy(p)
  <2>1. \A p \in Requests \ {r} :
           pc'[p] = pc[p] /\ listed'[p] = listed[p] /\ shown'[p] = shown[p] /\ seen'[p] = seen[p]
    BY <1>t, <1>3 DEF List, ListQuestions, ListAnswers, Goto, TypeOK
  <2>2. ASSUME List(r) PROVE ReadBy(r)
    BY <1>t, <1>u, <1>o, <2>2 DEF List, Goto, TypeOK
  <2>3. ASSUME ListQuestions(r) PROVE ReadBy(r)
    <3>1. /\ pc[r] = "select" /\ pc'[r] = "nested"
          /\ UNCHANGED <<sessions, questions, listed, user>>
          /\ \A s \in listed[r] : shown'[r][s] = questions[s]
      BY <1>t, <1>o, <2>3 DEF ListQuestions, Goto, TypeOK
    <3> QED  BY <1>t, <3>1 DEF Read
  <2>4. ASSUME ListAnswers(r) PROVE ReadBy(r)
    <3>1. /\ pc[r] = "nested" /\ pc'[r] = "listed"
          /\ UNCHANGED <<sessions, questions, listed, shown, user, target, text>>
      BY <1>t, <2>4 DEF ListAnswers, Goto, TypeOK, saveVars
    <3>2. \A a \in seen'[r] : \E b \in Requests :
             answers[b] # None /\ a = answers[b] /\ answers[b].question[1] \in listed[r]
      BY <1>t, <2>4 DEF ListAnswers, TypeOK
    <3>3. ASSUME NEW a \in seen'[r] PROVE SentFor(a.question, a.text, user[r])
      <4>1. PICK b \in Requests :
               answers[b] # None /\ a = answers[b] /\ answers[b].question[1] \in listed[r]
        BY <3>2, <3>3
      <4>2. SentFor(a.question, a.text, sessions[a.question[1]])
        BY <1>t, <4>1 DEF AnswersOwned
      <4>3. sessions[a.question[1]] = user[r]
        BY <1>t, <3>1, <4>1 DEF Read
      <4> QED  BY <4>2, <4>3
    <3>4. ASSUME NEW a \in seen'[r], NEW b \in seen'[r], a.question = b.question PROVE a = b
      <4>1. PICK i \in Requests : answers[i] # None /\ a = answers[i]
        BY <3>2
      <4>2. PICK j \in Requests : answers[j] # None /\ b = answers[j]
        BY <3>2
      <4>3. RowsOf(a.question) = {i} /\ j \in RowsOf(a.question)
        BY <1>t, <3>4, <4>1, <4>2 DEF AnswersOwned, RowsOf
      <4> QED  BY <4>1, <4>2, <4>3
    <3>5. \A a \in seen'[r] : SentFor(a.question, a.text, user[r])'
      BY <3>1, <3>3 DEF SentFor
    <3> QED  BY <1>t, <3>1, <3>4, <3>5 DEF Read
  <2>5. ReadBy(r)
    BY <1>3, <2>2, <2>3, <2>4
  <2>6. ASSUME NEW p \in Requests PROVE ReadBy(p)
    <3>1. CASE p = r
      BY <2>5, <3>1
    <3>2. CASE p # r
      BY <1>1, <2>1, <3>2
    <3> QED  BY <3>1, <3>2
  <2> QED  BY <2>6
<1>4. ASSUME UNCHANGED vars PROVE \A p \in Requests : ReadBy(p)
  <2>1. UNCHANGED <<pc, listed, shown, seen>>
    BY <1>4 DEF vars, listVars
  <2> QED  BY <1>1, <2>1
<1>5. \A p \in Requests : ReadBy(p)
  BY <1>2, <1>3, <1>4 DEF Next, NoRead
<1>6. Read'
  BY <1>5 DEF Read, SentFor
<1> QED  BY <1>t, <1>6 DEF ListInv

(* Three snapshots make one true listing (interview.py:63-84).             *)
THEOREM ListingsAreWhole == Spec => []ListingWhole
<1>1. Init => ListInv
  <2>1. Init => Looked /\ AnswersOwned /\ Read
    BY DEF Init, Looked, AnswersOwned, Read
  <2> QED  BY <2>1, InitSessions DEF ListInv, AnswerInv
<1>2. Spec => []ListInv
  BY <1>1, StepListings, PTL DEF Spec
<1> QED  BY <1>2, ReadImpliesWhole, PTL

-----------------------------------------------------------------------------
(* Replies                                                                 *)

\* The text of the row that r saves is t, or was sent for its question by a save
\* committed since r read the row.
Explained(r, t) ==
    \/ answers[RowSaved(r)].text = t
    \/ \E q \in during[r] : target[q] = target[r] /\ text[q] = answers[RowSaved(r)].text

Traced ==
    \A r \in Requests :
        /\ \A q \in during[r] : pc[q] # "start"
        /\ pc[r] = "save" /\ loaded[r] # None => Explained(r, loaded[r].text)
        /\ pc[r] = "refresh" => Explained(r, text[r])

\* A response has the text that was sent or that of a save in between.
Sourced ==
    \A r \in Requests : pc[r] = "saved" =>
        \/ reply[r] = text[r]
        \/ \E q \in during[r] : target[q] = target[r] /\ reply[r] = text[q]

ReplyInv == TypeInv /\ Traced /\ Sourced

\* A request that goes on, while nothing it relies on is lost.
LEMMA ExplainedStays ==
    ASSUME TypeInv, TypeInv', [Next]_vars, NEW r \in Requests, NEW t \in Texts,
           pc[r] # "start", loaded'[r] = loaded[r], \A q \in during[r] : pc[q] # "start",
           during[r] \subseteq during'[r],
           answers'[RowSaved(r)].text = answers[RowSaved(r)].text,
           Explained(r, t)
    PROVE  Explained(r, t)'
<1>1. target'[r] = target[r] /\ during[r] \subseteq Requests
      /\ \A q \in during[r] : target'[q] = target[q] /\ text'[q] = text[q]
  <2>1. during[r] \subseteq Requests
    BY DEF TypeInv, TypeOK
  <2> QED  BY <2>1, SentStays
<1>2. RowSaved(r)' = RowSaved(r)
  BY DEF RowSaved
<1>3. CASE answers[RowSaved(r)].text = t
  BY <1>2, <1>3 DEF Explained
<1>4. CASE \E q \in during[r] : target[q] = target[r] /\ text[q] = answers[RowSaved(r)].text
  <2>1. PICK q \in during[r] : target[q] = target[r] /\ text[q] = answers[RowSaved(r)].text
    BY <1>4
  <2>2. q \in during'[r] /\ target'[q] = target'[r] /\ text'[q] = answers'[RowSaved(r)].text
    BY <1>1, <2>1
  <2> QED  BY <1>2, <2>2 DEF Explained
<1> QED  BY <1>3, <1>4 DEF Explained

\* What the steps other than saves leave of a request that is between its load
\* and its response.
LEMMA NoSaveKeeps ==
    ASSUME TypeOK, Fresh, NEW r \in Requests, NoSave(r), NEW p \in Requests
    PROVE  /\ UNCHANGED <<answers, during>>
           /\ pc'[p] = "refresh" => pc[p] = "refresh"
           /\ pc'[p] = "save" => pc[p] = "save" \/ (p = r /\ LoadQuestion(r))
           /\ pc[p] # "start" => loaded'[p] = loaded[p]
           /\ pc'[p] = "saved" => (reply'[p] = reply[p] /\ pc[p] = "saved") \/ (p = r /\ Refresh(r))
<1> USE DEF TypeOK, Done, Goto, genVars, listVars, saveVars, history
<1>1. ASSUME UNCHANGED <<answers, during, loaded, reply>>,
             NEW x \in Done \cup {"flush", "commit", "respond", "select", "nested"},
             pc' = [pc EXCEPT ![r] = x], x # "saved"
      PROVE  /\ UNCHANGED <<answers, during>>
             /\ pc'[p] = "refresh" => pc[p] = "refresh"
             /\ pc'[p] = "save" => pc[p] = "save"
             /\ loaded'[p] = loaded[p]
             /\ pc'[p] = "saved" => reply'[p] = reply[p] /\ pc[p] = "saved"
  <2>1. CASE p = r
    BY <1>1, <2>1
  <2>2. CASE p # r
    BY <1>1, <2>2
  <2> QED  BY <2>1, <2>2
<1>2. CASE AskAi(r)
  BY <1>1, <1>2 DEF AskAi
<1>3. CASE FlushSession(r)
  BY <1>1, <1>3 DEF FlushSession
<1>4. CASE Commit(r)
  BY <1>1, <1>4 DEF Commit
<1>5. CASE Respond(r) \/ Crash(r)
  BY <1>1, <1>5 DEF Respond, Crash
<1>6. CASE List(r) \/ ListQuestions(r) \/ ListAnswers(r)
  <2>1. UNCHANGED <<answers, during, loaded, reply>>
    BY <1>6 DEF List, ListQuestions, ListAnswers
  <2>2. PICK x \in {"select", "nested", "listed"} : pc' = [pc EXCEPT ![r] = x]
    BY <1>6 DEF List, ListQuestions, ListAnswers
  <2> QED  BY <1>1, <2>1, <2>2
<1>7. CASE LoadQuestion(r)
  <2>1. UNCHANGED <<answers, during, reply>> /\ pc[r] = "start"
        /\ pc'[r] \in {"save", "404"}
        /\ \A q \in Requests \ {r} : pc'[q] = pc[q] /\ loaded'[q] = loaded[q]
    BY <1>7 DEF LoadQuestion
  <2>2. CASE p = r
    BY <1>7, <2>1, <2>2
  <2>3. CASE p # r
    BY <2>1, <2>3
  <2> QED  BY <2>2, <2>3
<1>8. CASE Refresh(r)
  BY <1>8 DEF Refresh
<1> QED  BY <1>2, <1>3, <1>4, <1>5, <1>6, <1>7, <1>8 DEF NoSave

LEMMA StepReplies == ReplyInv /\ [Next]_vars => ReplyInv'
<1> SUFFICES ASSUME ReplyInv, [Next]_vars PROVE ReplyInv'
  OBVIOUS
<1>t. /\ TypeInv /\ TypeOK /\ Fresh /\ Held /\ Traced /\ Sourced
      /\ TypeInv' /\ TypeOK' /\ Held'
  BY StepTyped DEF ReplyInv, TypeInv
<1>s. \A p \in Requests : pc[p] # "start" =>
         pc'[p] # "start" /\ target'[p] = target[p] /\ text'[p] = text[p]
  BY <1>t, SentStays
<1>d. \A p \in Requests : during[p] \subseteq Requests
  BY <1>t DEF TypeOK
<1> DEFINE Good(p) ==
       /\ \A q \in during'[p] : pc'[q] # "start"
       /\ pc'[p] = "save" /\ loaded'[p] # None => Explained(p, loaded[p].text)'
       /\ pc'[p] = "refresh" => Explained(p, text[p])'
       /\ pc'[p] = "saved" =>
             \/ reply'[p] = text'[p]
             \/ \E q \in during'[p] : target'[q] = target'[p] /\ reply'[p] = text'[q]
\* A request that goes on as before.
<1>1. ASSUME NEW p \in Requests, pc'[p] = pc[p], pc[p] # "start",
             loaded'[p] = loaded[p], pc[p] = "saved" => reply'[p] = reply[p],
             during[p] \subseteq during'[p], \A q \in during'[p] : pc'[q] # "start",
             pc[p] \in {"save", "refresh"} /\ (pc[p] = "save" => loaded[p] # None) =>
                answers'[RowSaved(p)].text = answers[RowSaved(p)].text
      PROVE  Good(p)
  <2>1. ASSUME pc[p] = "save", loaded[p] # None PROVE Explained(p, loaded[p].text)'
    <3>1. PICK t \in Texts : t = loaded[p].text
      BY <1>t, <2>1 DEF TypeOK, Loaded
    <3>2. Explained(p, t)'
      BY <1>t, <1>1, <2>1, <3>1, ExplainedStays DEF Traced
    <3> QED  BY <1>1, <3>1, <3>2 DEF Explained
  <2>2. ASSUME pc[p] = "refresh" PROVE Explained(p, text[p])'
    <3>1. PICK t \in Texts : t = text[p]
      BY <1>t, <2>2 DEF Held
    <3>2. Explained(p, t)'
      BY <1>t, <1>1, <2>2, <3>1, ExplainedStays DEF Traced
    <3>3. text'[p] = t
      BY <1>s, <1>1, <3>1
    <3> QED  BY <3>2, <3>3 DEF Explained
  <2>3. ASSUME pc[p] = "saved"
        PROVE  \/ reply'[p] = text'[p]
               \/ \E q \in during'[p] : target'[q] = target'[p] /\ reply'[p] = text'[q]
    <3>1. text'[p] = text[p] /\ target'[p] = target[p]
          /\ \A q \in during[p] : target'[q] = target[q] /\ text'[q] = text[q] /\ q \in during'[p]
      BY <1>t, <1>s, <1>d, <1>1 DEF Traced
    <3> QED  BY <1>t, <1>1, <2>3, <3>1 DEF Sourced
  <2> QED  BY <1>1, <2>1, <2>2, <2>3
\* A request that is neither waiting for its save or refresh, nor saved.
<1>2. ASSUME NEW p \in Requests, pc'[p] \notin {"save", "refresh", "saved"},
             during'[p] = during[p]
      PROVE  Good(p)
  BY <1>t, <1>s, <1>d, <1>2 DEF Traced
<1>3. ASSUME NEW r \in Requests, NoSave(r), NEW p \in Requests PROVE Good(p)
  <2>1. /\ UNCHANGED <<answers, during>>
        /\ pc'[p] = "refresh" => pc[p] = "refresh"
        /\ pc'[p] = "save" => pc[p] = "save" \/ (p = r /\ LoadQuestion(r))
        /\ pc[p] # "start" => loaded'[p] = loaded[p]
        /\ pc'[p] = "saved" => (reply'[p] = reply[p] /\ pc[p] = "saved") \/ (p = r /\ Refresh(r))
    BY <1>t, <1>3, NoSaveKeeps
  <2>2. \A q \in during'[p] : pc'[q] # "start"
    BY <1>t, <1>s, <1>d, <2>1 DEF Traced
  <2>3. CASE p = r /\ LoadQuestion(r)
    <3>1. PICK q \in Questions : \/ loaded'[r] = loaded[r] /\ loaded[r] = None
                                 \/ pc'[r] = "404"
                                 \/ \E a \in RowsOf(q) : loaded'[r] =
                                       [row |-> a, text |-> answers[a].text]
      BY <1>t, <2>3 DEF LoadQuestion, Fresh, TypeOK, Goto
    <3>2. pc'[r] \in {"save", "404"}
      BY <1>t, <2>3 DEF LoadQuestion, TypeOK, Goto
    <3>3. CASE \E a \in RowsOf(q) : loaded'[r] = [row |-> a, text |-> answers[a].text]
      <4>1. PICK a \in RowsOf(q) : loaded'[r] = [row |-> a, text |-> answers[a].text]
        BY <3>3
      <4>2. loaded'[r] # None => RowSaved(r)' = a /\ loaded'[r].text = answers'[a].text
        BY <2>1, <4>1 DEF RowSaved
      <4>3. loaded'[r] # None => Explained(r, loaded[r].text)'
        BY <4>2 DEF Explained
      <4> QED  BY <2>2, <2>3, <3>2, <4>3
    <3>4. CASE (loaded'[r] = loaded[r] /\ loaded[r] = None) \/ pc'[r] = "404"
      BY <2>2, <2>3, <3>2, <3>4
    <3> QED  BY <3>1, <3>3, <3>4
  <2>4. CASE p = r /\ Refresh(r)
    <3>1. /\ pc[r] = "refresh" /\ pc'[r] = "saved" /\ UNCHANGED <<answers, target, text, during, loaded>>
          /\ reply'[r] = answers[RowSaved(r)].text
      BY <1>t, <2>4 DEF Refresh, history, Goto, TypeOK
    <3>2. Explained(r, text[r])
      BY <1>t, <3>1 DEF Traced
    <3> QED  BY <2>2, <2>4, <3>1, <3>2 DEF Explained
  <2>5. CASE pc'[p] = pc[p] /\ pc[p] \in {"save", "refresh"}
    BY <1>1, <2>1, <2>2, <2>5
  <2>6. CASE pc'[p] = "saved" /\ pc[p] = "saved" /\ reply'[p] = reply[p]
    BY <1>1, <2>1, <2>2, <2>6
  <2>7. CASE pc'[p] \notin {"save", "refresh", "saved"}
    BY <1>2, <2>1, <2>7
  <2> QED  BY <2>1, <2>3, <2>4, <2>5, <2>6, <2>7
<1>4. ASSUME NEW r \in Requests, Insert(r), NEW p \in Requests PROVE Good(p)
  <2>1. /\ pc[r] = "save" /\ loaded[r] = None /\ UNCHANGED <<loaded, reply, target, text>>
        /\ answers[r] = None
        /\ \A q \in Requests \ {r} : pc'[q] = pc[q]
    BY <1>t, <1>4 DEF Insert, Goto, Fresh, TypeOK
  <2>2. CASE UNCHANGED <<answers, during>> /\ pc'[r] = "500"
    <3>1. \A q \in during'[p] : pc'[q] # "start"
      BY <1>t, <1>s, <1>d, <2>2 DEF Traced
    <3>2. CASE p = r \/ pc[p] = "start"
      BY <1>2, <2>1, <2>2, <3>2
    <3>3. CASE p # r /\ pc[p] # "start"
      BY <1>1, <2>1, <2>2, <3>1, <3>3
    <3> QED  BY <3>2, <3>3
  <2>3. CASE answers' = [answers EXCEPT ![r] = NewAnswer(r)] /\ Commits(r) /\ pc'[r] = "refresh"
    <3>1. /\ answers'[r].text = text[r]
          /\ \A q \in Requests \ {r} : answers'[q] = answers[q]
      BY <1>t, <2>3 DEF NewAnswer, TypeOK
    <3>2. /\ pc[p] \in {"save", "refresh"} => during'[p] = during[p] \cup {r}
          /\ pc[p] \notin {"save", "refresh"} => during'[p] = during[p]
      BY <2>3 DEF Commits
    <3>3. \A q \in during'[p] : pc'[q] # "start"
      BY <1>t, <1>s, <1>d, <2>3, <3>2 DEF Traced
    <3>4. CASE p = r
      <4>1. RowSaved(r)' = r
        BY <2>1 DEF RowSaved
      <4>2. Explained(r, text[r])'
        BY <2>1, <3>1, <4>1 DEF Explained
      <4> QED  BY <2>3, <3>3, <3>4, <4>2
    <3>5. CASE p # r /\ pc[p] = "start"
      BY <1>2, <2>1, <3>2, <3>5
    <3>6. CASE p # r /\ pc[p] # "start"
      <4>1. pc[p] \in {"save", "refresh"} /\ (pc[p] = "save" => loaded[p] # None) =>
               RowSaved(p) \in Requests \ {r}
        BY <1>t, <2>1, <3>6 DEF RowSaved, Held, TypeOK, Loaded
      <4> QED  BY <1>1, <2>1, <3>1, <3>2, <3>3, <3>6, <4>1
    <3> QED  BY <3>4, <3>5, <3>6
  <2> QED  BY <1>t, <1>4, <2>2, <2>3 DEF Insert, history, Goto, TypeOK
<1>5. ASSUME NEW r \in Requests, Update(r), NEW p \in Requests PROVE Good(p)
  <2> DEFINE a == loaded[r].row
  <2>1. /\ a \in Requests /\ answers[a].question = target[r]
        /\ answers'[a].text = IF text[r] # loaded[r].text THEN text[r] ELSE answers[a].text
        /\ \A b \in Requests \ {a} : answers'[b] = answers[b]
        /\ pc[r] = "save" /\ loaded[r] # None
    BY <1>t, <1>5, UpdateEffect
  <2>2. /\ UNCHANGED <<loaded, reply, target, text>> /\ Commits(r) /\ pc'[r] = "refresh"
        /\ \A q \in Requests \ {r} : pc'[q] = pc[q]
    BY <1>t, <1>5 DEF Update, Goto, TypeOK
  <2>3. /\ pc[p] \in {"save", "refresh"} => during'[p] = during[p] \cup {r}
        /\ pc[p] \notin {"save", "refresh"} => during'[p] = during[p]
    BY <2>2 DEF Commits
  <2>4. \A q \in during'[p] : pc'[q] # "start"
    BY <1>t, <1>s, <1>d, <2>2, <2>3 DEF Traced
  <2>5. RowSaved(r) = a /\ RowSaved(p)' = RowSaved(p)
    BY <2>1, <2>2 DEF RowSaved
  <2> HIDE DEF a
  <2>6. CASE p = r
    <3>1. CASE text[r] # loaded[r].text
      <4>1. Explained(r, text[r])'
        BY <2>1, <2>2, <2>5, <2>6, <3>1 DEF Explained
      <4> QED  BY <2>2, <2>4, <2>6, <4>1
    <3>2. CASE text[r] = loaded[r].text
      <4>1. Explained(r, text[r])
        BY <1>t, <2>1, <3>2 DEF Traced
      <4>2. Explained(r, text[r])'
        BY <2>1, <2>2, <2>3, <2>5, <2>6, <3>2, <4>1 DEF Explained
      <4> QED  BY <2>2, <2>4, <2>6, <4>2
    <3> QED  BY <3>1, <3>2
  <2>7. CASE p # r /\ pc[p] \in {"save", "refresh"} /\ (pc[p] = "save" => loaded[p] # None)
             /\ RowSaved(p) = a /\ text[r] # loaded[r].text
    <3>1. target[p] = target[r]
      BY <1>t, <2>1, <2>7 DEF RowSaved, Held
    <3>2. r \in during'[p] /\ target'[r] = target'[p] /\ text'[r] = answers'[RowSaved(p)].text
      BY <2>1, <2>2, <2>3, <2>7, <3>1
    <3>3. \E q \in during'[p] : target'[q] = target'[p] /\ text'[q] = answers'[RowSaved(p)'].text
      BY <2>5, <3>2
    <3>4. Explained(p, loaded[p].text)' /\ Explained(p, text[p])'
      BY <3>3 DEF Explained
    <3> QED  BY <2>2, <2>4, <2>7, <3>4
  <2>8. CASE p # r /\ pc[p] # "start"
             /\ ~ (pc[p] \in {"save", "refresh"} /\ (pc[p] = "save" => loaded[p] # None)
                   /\ RowSaved(p) = a /\ text[r] # loaded[r].text)
    <3>1. pc[p] \in {"save", "refresh"} /\ (pc[p] = "save" => loaded[p] # None) =>
             answers'[RowSaved(p)].text = answers[RowSaved(p)].text
      <4>1. RowSaved(p) \in Requests
        BY <1>t DEF RowSaved, TypeOK, Loaded
      <4> QED  BY <2>1, <2>8, <4>1
    <3> QED  BY <1>1, <2>2, <2>3, <2>4, <2>8, <3>1
  <2>9. CASE p # r /\ pc[p] = "start"
    BY <1>2, <2>2, <2>3, <2>9
  <2> QED  BY <2>6, <2>7, <2>8, <2>9
<1>6. ASSUME UNCHANGED vars, NEW p \in Requests PROVE Good(p)
  <2>1. UNCHANGED <<pc, answers, loaded, reply, during, target, text>>
    BY <1>6 DEF vars, saveVars, history
  <2>2. \A q \in during'[p] : pc'[q] # "start"
    BY <1>t, <1>s, <1>d, <2>1 DEF Traced
  <2>3. CASE pc[p] = "start"
    BY <1>2, <2>1, <2>3
  <2>4. CASE pc[p] # "start"
    BY <1>1, <2>1, <2>2, <2>4
  <2> QED  BY <2>3, <2>4
<1>7. \A p \in Requests : Good(p)
  <2>1. CASE Next
    <3>1. PICK r \in Requests : Insert(r) \/ Update(r) \/ NoSave(r)
      BY <2>1 DEF Next, NoSave
    <3> QED  BY <1>3, <1>4, <1>5, <3>1
  <2> QED  BY <1>6, <2>1
<1>8. Traced' /\ Sourced'
  BY <1>7 DEF Traced, Sourced
<1> QED  BY <1>t, <1>8 DEF ReplyInv

\* The text of a row that was saved, and then that in the response, is one that
\* the row held since that commit.
Stored ==
    \A r \in Requests :
        /\ pc[r] = "refresh" => answers[RowSaved(r)].text \in held[r]
        /\ pc[r] = "saved" => reply[r] \in held[r]

LEMMA StepStored == TypeInv /\ Stored /\ [Next]_vars => Stored'
<1> SUFFICES ASSUME TypeInv, Stored, [Next]_vars, NEW p \in Requests
             PROVE  /\ pc'[p] = "refresh" => answers'[RowSaved(p)'].text \in held'[p]
                    /\ pc'[p] = "saved" => reply'[p] \in held'[p]
  BY DEF Stored
<1>t. TypeOK /\ Fresh /\ Held
  BY DEF TypeInv
<1>1. ASSUME NEW r \in Requests, NoSave(r)
      PROVE  /\ pc'[p] = "refresh" => answers'[RowSaved(p)'].text \in held'[p]
             /\ pc'[p] = "saved" => reply'[p] \in held'[p]
  <2>1. /\ UNCHANGED <<answers, history>>
        /\ pc'[p] = "refresh" => pc[p] = "refresh"
        /\ pc[p] # "start" => loaded'[p] = loaded[p]
        /\ pc'[p] = "saved" => (reply'[p] = reply[p] /\ pc[p] = "saved") \/ (p = r /\ Refresh(r))
    BY <1>t, <1>1, NoSaveKeeps, NoSaves
  <2>2. pc'[p] = "refresh" => RowSaved(p)' = RowSaved(p)
    BY <2>1 DEF RowSaved
  <2>3. p = r /\ Refresh(r) => pc[p] = "refresh" /\ reply'[p] = answers[RowSaved(p)].text
    BY <1>t DEF Refresh, TypeOK
  <2> QED  BY <2>1, <2>2, <2>3 DEF Stored, history
\* A commit of the row that p saves is recorded; a commit of another row leaves it.
<1>2. ASSUME NEW r \in Requests, pc[r] = "save", Commits(r), UNCHANGED <<loaded, reply>>,
             pc' = [pc EXCEPT ![r] = "refresh"],
             pc[p] = "refresh" /\ RowSaved(p) # RowSaved(r) =>
                answers'[RowSaved(p)] = answers[RowSaved(p)]
      PROVE  /\ pc'[p] = "refresh" => answers'[RowSaved(p)'].text \in held'[p]
             /\ pc'[p] = "saved" => reply'[p] \in held'[p]
  <2>1. RowSaved(p)' = RowSaved(p)
    BY <1>2 DEF RowSaved
  <2>2. held'[p] = IF p = r \/ (pc[p] = "refresh" /\ RowSaved(p) = RowSaved(r))
                   THEN held[p] \cup {answers'[RowSaved(r)].text} ELSE held[p]
    BY <1>2 DEF Commits
  <2>3. pc'[p] = IF p = r THEN "refresh" ELSE pc[p]
    BY <1>t, <1>2 DEF TypeOK
  <2> QED  BY <1>2, <2>1, <2>2, <2>3 DEF Stored
<1>3. ASSUME NEW r \in Requests, Insert(r)
      PROVE  /\ pc'[p] = "refresh" => answers'[RowSaved(p)'].text \in held'[p]
             /\ pc'[p] = "saved" => reply'[p] \in held'[p]
  <2>1. /\ pc[r] = "save" /\ loaded[r] = None /\ answers[r] = None
        /\ UNCHANGED <<loaded, reply>> /\ RowSaved(r) = r
    BY <1>t, <1>3 DEF Insert, Fresh, RowSaved
  <2>2. CASE UNCHANGED <<answers, history>> /\ Goto(r, "500")
    <3>1. RowSaved(p)' = RowSaved(p) /\ (pc'[p] \in {"refresh", "saved"} => pc'[p] = pc[p])
      BY <1>t, <2>1, <2>2 DEF RowSaved, Goto, TypeOK
    <3> QED  BY <2>1, <2>2, <3>1 DEF Stored, history
  <2>3. CASE answers' = [answers EXCEPT ![r] = NewAnswer(r)] /\ Commits(r) /\ Goto(r, "refresh")
    <3>1. RowSaved(p) # r => answers'[RowSaved(p)] = answers[RowSaved(p)]
      BY <1>t, <2>3 DEF TypeOK
    <3> QED  BY <1>2, <2>1, <2>3, <3>1 DEF Goto
  <2> QED  BY <1>3, <2>2, <2>3 DEF Insert
<1>4. ASSUME NEW r \in Requests, Update(r)
      PROVE  /\ pc'[p] = "refresh" => answers'[RowSaved(p)'].text \in held'[p]
             /\ pc'[p] = "saved" => reply'[p] \in held'[p]
  <2>1. RowSaved(r) = loaded[r].row /\ RowSaved(p) \in Requests
    BY <1>t, <1>4 DEF Update, RowSaved, TypeOK, Loaded
  <2>2. \A a \in Requests \ {loaded[r].row} : answers'[a] = answers[a]
    BY <1>4, UpdateEffect
  <2>3. /\ pc[r] = "save" /\ Commits(r) /\ UNCHANGED <<loaded, reply>>
        /\ pc' = [pc EXCEPT ![r] = "refresh"]
    BY <1>4 DEF Update, Goto
  <2> QED  BY <1>2, <2>1, <2>2, <2>3
<1>5. CASE UNCHANGED vars
  BY <1>5 DEF vars, saveVars, history, Stored, RowSaved
<1> QED  BY <1>1, <1>3, <1>4, <1>5 DEF Next, NoSave

(* A save answers with a text that its row held since its own commit: the  *)
(* text sent, or that of a save that came between (interview.py:50-60).    *)
THEOREM RepliesAreTrue == Spec => []RepliesTrue
<1>1. Init => ReplyInv /\ Stored
  <2>1. Init => Traced /\ Sourced /\ Stored
    BY DEF Init, Traced, Sourced, Stored
  <2> QED  BY <2>1, InitTyped DEF ReplyInv
<1>2. Spec => []ReplyInv
  BY <1>1, StepReplies, PTL DEF Spec
<1>3. ReplyInv /\ Stored /\ [Next]_vars => Stored'
  BY StepStored DEF ReplyInv
<1>4. ReplyInv /\ Stored => RepliesTrue
  BY DEF ReplyInv, Sourced, Stored, RepliesTrue
<1> QED  BY <1>1, <1>2, <1>3, <1>4, PTL DEF Spec

=============================================================================
