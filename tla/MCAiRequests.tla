---------------------------- MODULE MCAiRequests ----------------------------
(* AiRequests for TLC; no symmetry, EveryoneAnswered is a liveness property. *)
EXTENDS AiRequests

=============================================================================
