-------------------------- MODULE MCExternalTransfer --------------------------
(* Instances of ExternalTransfer for TLC. *)
EXTENDS ExternalTransfer, TLC

CONSTANTS a1, u1, u2

MCOwner == a1 :> u1

MCOpening == a1 :> [balance |-> 2, status |-> "active"]

MCRequests == XRequests \X Movements

MCSymmetry == Permutations(Initiations) \cup Permutations(Polls) \cup Permutations(Keys)
=============================================================================
