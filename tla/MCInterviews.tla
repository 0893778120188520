---------------------------- MODULE MCInterviews ----------------------------
(* Instances of Interviews for TLC.                                        *)
EXTENDS Interviews, TLC

\* Replies: too many and numbered from 1, the wrong order, one without a text
\* within the count or beyond it, and one whose text no row can hold.
MCItem(p, t) == [position |-> p, text |-> t]
MCReplies ==
    { <<MCItem(1, "good"), MCItem(2, "good"), MCItem(3, "good")>>,
      <<MCItem(1, "good"), MCItem(0, "good")>>,
      <<MCItem(0, "good"), MCItem(1, "missing")>>,
      <<MCItem(0, "unstorable")>> }

Symmetry ==
    Permutations(Requests) \cup Permutations(Users)
        \cup Permutations(SessionIds \ Old) \cup Permutations(Texts)

=============================================================================
