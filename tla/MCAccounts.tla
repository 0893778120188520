----------------------------- MODULE MCAccounts -----------------------------
(* Instances of Accounts for TLC.                                          *)
EXTENDS Accounts, TLC

Symmetry ==
    Permutations(Requests) \cup Permutations(Emails)
        \cup Permutations(Passwords) \cup Permutations(UserIds)

=============================================================================
