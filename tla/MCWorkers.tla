----------------------------- MODULE MCWorkers -----------------------------
(* Instances of Workers for TLC. *)
EXTENDS Workers, TLC

CONSTANTS n1, n2, i1, i2, i3, c1, c2

MCOperationOf == i1 :> "process" @@ i2 :> "reverse" @@ i3 :> "process"

Load(quick, work, errs, auth) ==
  [prompt |-> quick, work |-> work, errors |-> errs, auth |-> auth]

(* A slow process has one row to work on, a prompt one has two. *)
MCLoads ==
  {Load(TRUE, work, 1, FALSE) : work \in {{n1, n2}, {i1, i2}, {i2, i3}, {c1}}}
  \cup {Load(FALSE, {n1}, 1, FALSE), Load(FALSE, {i1}, 0, FALSE)}
  \cup {Load(TRUE, {c1, c2}, 0, TRUE), Load(TRUE, {c1}, 1, TRUE)}
=============================================================================
