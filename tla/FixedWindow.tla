---------------------------- MODULE FixedWindow ----------------------------
(***************************************************************************)
(* What the limiter of app/core/rate_limit.py promises: a request is       *)
(* charged and judged in one step, against the allowance of the window     *)
(* that is open; an allowance is renewed at the earliest Window ticks      *)
(* after it began, unless the counts are lost; answers follow the verdict, *)
(* or fail.  RateLimiter implements this with three commands.              *)
(***************************************************************************)
EXTENDS Naturals

CONSTANTS
    Requests, Keys,
    MaxRequests,   \* the allowance of a key in one window
    Window,        \* how long a window lasts, in ticks
    None           \* no verdict or no answer yet

VARIABLES
    key,       \* whose allowance each request is charged to
    used,      \* the requests charged to each key since its window opened
    age,       \* ticks since that window opened, at most Window
    verdict,   \* what was decided of each request
    answer,    \* what its caller learnt
    losses     \* how often the counts were lost

vars == <<key, used, age, verdict, answer, losses>>

Init ==
    /\ key \in [Requests -> Keys]
    /\ used = [k \in Keys |-> 0]
    /\ age = [k \in Keys |-> Window]
    /\ verdict = [r \in Requests |-> None]
    /\ answer = [r \in Requests |-> None]
    /\ losses = 0

\* Charge and judge; the answer may come at once.
Decide(r) ==
    LET k == key[r]
    IN  /\ verdict[r] = None
        /\ used' = [used EXCEPT ![k] = @ + 1]
        /\ age' = [age EXCEPT ![k] = IF used[k] = 0 THEN 0 ELSE @]
        /\ verdict' = [verdict EXCEPT ![r] =
                          IF used[k] < MaxRequests THEN "admitted" ELSE "rejected"]
        /\ \/ UNCHANGED answer
           \/ answer' = [answer EXCEPT ![r] = verdict'[r]]
        /\ UNCHANGED <<key, losses>>

Answer(r) ==
    /\ verdict[r] # None /\ answer[r] = None
    /\ answer' \in {[answer EXCEPT ![r] = verdict[r]], [answer EXCEPT ![r] = "failed"]}
    /\ UNCHANGED <<key, used, age, verdict, losses>>

\* A tick may close windows, never one that is younger than Window.
Tick ==
    /\ age' = [k \in Keys |-> IF age[k] < Window THEN age[k] + 1 ELSE age[k]]
    /\ \E closed \in SUBSET {k \in Keys : age'[k] = Window} :
          used' = [k \in Keys |-> IF k \in closed THEN 0 ELSE used[k]]
    /\ UNCHANGED <<key, verdict, answer, losses>>

Lose ==
    /\ used' = [k \in Keys |-> 0]
    /\ losses' = losses + 1
    /\ UNCHANGED <<key, age, verdict, answer>>

Next == (\E r \in Requests : Decide(r) \/ Answer(r)) \/ Tick \/ Lose

Spec == Init /\ [][Next]_vars

=============================================================================
