------------------------------ MODULE MCProfile ------------------------------
(* Instances of Profile for TLC.                                           *)
EXTENDS Profile, TLC

\* Four resumes: the first two share their text, the first and the third their name.
Resume(t, n) == [c \in Columns |-> IF c = "text" THEN t ELSE n]
MCUploads == {Resume("t1", "a"), Resume("t1", "b"), Resume("t2", "a"), Resume("t3", "c")}

Symmetry == Permutations(Calls)

=============================================================================
