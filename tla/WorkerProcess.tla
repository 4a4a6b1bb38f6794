-------------------------- MODULE WorkerProcess --------------------------
(* What the background workers of one process share: how fast the process  *)
(* is, and the errors of its database and the crashes it survives.         *)
EXTENDS Naturals

CONSTANT MaxErrors  \* database errors and crashes in a behaviour (a bound)

ASSUME ProcessAssumption == MaxErrors \in Nat

VARIABLES
  prompt,  \* goroutines a tick starts, or whose row it could select, do not outlive the next
  errors   \* errors and crashes that can still happen

processVars == <<prompt, errors>>

ProcessInit == prompt \in BOOLEAN /\ errors \in 0..MaxErrors

Error == errors > 0 /\ errors' = errors - 1
=============================================================================
