--------------------------------- MODULE Bank ---------------------------------
(***************************************************************************)
(* The account service whole: transfers, deposits, withdrawals and status  *)
(* changes on the same accounts, in one process that may crash with all of *)
(* its requests.                                                           *)
(***************************************************************************)
EXTENDS TransferService, AccountService, FiniteSetsExt

ASSUME BankAssumption ==
  /\ Requests = TransferRequests \cup AccountRequests
  /\ TransferRequests \cap AccountRequests = {}

bankVars == <<storeVars, transferVars, serviceVars>>

BankInit == StoreInit /\ TransferInit /\ AccountInit

BankCrash ==
  /\ Faults
  /\ \/ \E r \in TransferRequests : tPc[r] \in TOpen
     \/ \E r \in AccountRequests : aPc[r] \in AOpen
  /\ DropConnections
  /\ DropTransfers
  /\ DropAccountCalls
  /\ UNCHANGED <<accounts, ledger, posted, transfers, tJob, tFrom, tTo, audit,
                 aJob, aSeen, aRow>>

BankNext ==
  \/ TransferNext /\ UNCHANGED serviceVars
  \/ AccountNext /\ UNCHANGED transferVars
  \/ BankCrash

BankQuiet == TransfersQuiet /\ AccountsQuiet /\ UNCHANGED bankVars

BankSpec ==
  /\ BankInit
  /\ [][BankNext \/ BankQuiet]_bankVars
  /\ \A r \in TransferRequests : WF_bankVars(TransferStep(r) /\ UNCHANGED serviceVars)
  /\ \A r \in AccountRequests : WF_bankVars(AccountStep(r) /\ UNCHANGED transferVars)

-----------------------------------------------------------------------------
(* Properties. *)

(* What the committed movement of request r did to each account. *)
EffectOf(r) ==
  IF r \in TransferRequests
    THEN [a \in Accounts |->
            IF a = tJob[r].from THEN -tJob[r].amount
            ELSE IF a = tJob[r].to THEN tJob[r].amount ELSE 0]
    ELSE [a \in Accounts |->
            IF a = aJob[r].account THEN Delta(aJob[r].op, aJob[r].amount) ELSE 0]

L == INSTANCE AtomicLedger WITH
       InitialBalance <- [a \in Accounts |-> Opening[a].balance],
       balance <- [a \in Accounts |-> accounts[a].balance],
       effect <- [r \in Requests |->
                    IF r \in posted THEN EffectOf(r) ELSE [a \in Accounts |-> 0]]

(* The statements of concurrent transfers, deposits and withdrawals add up  *)
(* to the atomic movements of AtomicLedger: no update is lost, none is seen *)
(* half done, and no account is overdrawn.  It needs the row locks, and no  *)
(* concurrent status change (which saves the balance it read).              *)
ImplementsAtomicLedger == L!Spec

(* Every balance is what the committed movements add up to. *)
BalancesAddUp == \A a \in Accounts :
  accounts[a].balance = Opening[a].balance + MapThenSumSet(LAMBDA r : EffectOf(r)[a], posted)

(* Every request of either kind is answered, though transfers in opposite  *)
(* directions lock their rows in opposite orders, deposits and closures    *)
(* wait for the same rows, and the database must abort somebody.           *)
BankAnswers ==
  /\ RequestsAreAnswered
  /\ AccountRequestsAreAnswered
=============================================================================
