----------------------------- MODULE UnitOfWork -----------------------------
(***************************************************************************)
(* What a SQLAlchemy session flushes for a row that a handler loaded and   *)
(* then assigned attributes of (external).  A row, and the assignments to  *)
(* it, are functions from column names to values.                          *)
(***************************************************************************)

\* The columns of the UPDATE: those set to something else than was loaded.
NetChanges(loaded, set) == {c \in DOMAIN set : set[c] # loaded[c]}

\* The row after that UPDATE; no UPDATE is sent when there is nothing to change.
Flushed(row, loaded, set) ==
    [c \in DOMAIN row |-> IF c \in NetChanges(loaded, set) THEN set[c] ELSE row[c]]

=============================================================================
