-------------------------------- MODULE MCBank --------------------------------
(* Instances of Bank for TLC. *)
EXTENDS Bank, TLC

CONSTANTS a1, a2, u1

MCOwner == (a1 :> u1) @@ (a2 :> u1)

MCOpening == (a1 :> [balance |-> 3, status |-> "active"])
               @@ (a2 :> [balance |-> 0, status |-> "active"])

MCSymmetry == Permutations(TransferRequests) \cup Permutations(AccountRequests)
=============================================================================
