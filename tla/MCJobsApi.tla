----------------------------- MODULE MCJobsApi -----------------------------
(* Instances of JobsApi for TLC.                                           *)
EXTENDS JobsApi, TLC

\* A status that must not be null, and notes that may.
MCFields == {"status", "notes"}
MCNotNull == {"status"}
MCValues == {"a", "b"}

\* A full body (create, or PATCH of all fields), a status alone (the kanban
\* drag), notes erased, a status erased by mistake.
MCBodies ==
    { [status |-> "a", notes |-> "a"],
      [status |-> "b"],
      [status |-> "a"],
      [notes |-> Null],
      [status |-> Null, notes |-> "b"] }

\* Rows of two users.
MCSeeds ==
    { [owner |-> u, data |-> [status |-> "a", notes |-> "b"]] : u \in Users }

Symmetry == Permutations(Requests) \cup Permutations(Users) \cup Permutations(JobIds)

=============================================================================
