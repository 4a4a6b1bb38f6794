-------------------------- MODULE MCTransferHistory --------------------------
(* Instances of TransferHistory for TLC. *)
EXTENDS TransferHistory, TLC

CONSTANTS a1, a2, u1

MCOwner == (a1 :> u1) @@ (a2 :> u1)

(* A transfer of 2 leaves a1 too little for another one. *)
MCOpening == (a1 :> [balance |-> 3, status |-> "active"])
               @@ (a2 :> [balance |-> 2, status |-> "active"])

MCSymmetry == Permutations(TransferRequests) \cup Permutations(Keys)
=============================================================================
