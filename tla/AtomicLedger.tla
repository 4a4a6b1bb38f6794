----------------------------- MODULE AtomicLedger -----------------------------
(***************************************************************************)
(* What the services promise about money: every request changes balances   *)
(* at most once, in one step, by its full effect, and no balance becomes   *)
(* negative.  How a request finds out whether it may, in how many          *)
(* statements and in what order, is left to the implementation.            *)
(***************************************************************************)
EXTENDS Integers

CONSTANTS
  Accounts,        \* account ids
  Requests,        \* requests that may move money
  Amounts,         \* the amounts they may move
  InitialBalance   \* InitialBalance[a]: what account a starts with

VARIABLES
  balance,  \* balance[a]: the balance of account a
  effect    \* effect[r]: what request r has done to each account

vars == <<balance, effect>>

NoEffect == [a \in Accounts |-> 0]

(* A deposit or withdrawal changes one account ... *)
Change(a, d) == [NoEffect EXCEPT ![a] = d]

(* ... and a transfer two, by opposite amounts. *)
Move(from, to, amount) == [NoEffect EXCEPT ![from] = -amount, ![to] = amount]

Effects ==
  {Change(a, d) : a \in Accounts, d \in Amounts \cup {-x : x \in Amounts}}
    \cup {Move(p[1], p[2], x) :
            p \in {q \in Accounts \X Accounts : q[1] # q[2]}, x \in Amounts}

Init ==
  /\ balance = InitialBalance
  /\ effect = [r \in Requests |-> NoEffect]

Post(r, e) ==
  /\ effect[r] = NoEffect
  /\ balance' = [a \in Accounts |-> balance[a] + e[a]]
  /\ \A a \in Accounts : balance'[a] >= 0
  /\ effect' = [effect EXCEPT ![r] = e]

Next == \E r \in Requests, e \in Effects : Post(r, e)

Spec == Init /\ [][Next]_vars
=============================================================================
