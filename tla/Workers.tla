------------------------------ MODULE Workers ------------------------------
(***************************************************************************)
(* The background workers main starts beside the server, the processing    *)
(* queue and the regulator's notification worker, and the client of        *)
(* NorthWind that the server's goroutines share.  They live in one         *)
(* process, which is killed and started again with all of them: the        *)
(* context that would end the workers is cancelled only when main returns. *)
(***************************************************************************)
EXTENDS RegulatorNotification, ProcessingQueue, NorthWindClient

CONSTANT Loads  \* what there is in a behaviour: what is to be done, a speed, errors,
                \* and whether NorthWind's client authenticates

ASSUME LoadAssumption == Loads \subseteq 
  [prompt : BOOLEAN, work : SUBSET (Notices \cup Items \cup PartnerCalls),
   errors : 0..MaxErrors, auth : BOOLEAN]

VARIABLE load

workerVars == <<noticeVars, queueVars, clientVars, load>>

WorkersInit ==
  /\ NoticeInit /\ QueueInit /\ ClientInit
  /\ load \in Loads
  /\ prompt = load.prompt /\ errors = load.errors /\ enableAuth = load.auth

Request ==
  \/ \E n \in Notices : n \in load.work /\ Notify(n) /\ UNCHANGED <<queueTables, clientTables>>
  \/ \E i \in Items : i \in load.work /\ Enqueue(i) /\ UNCHANGED <<noticeTables, clientTables>>
  \/ \E c \in PartnerCalls :
       c \in load.work /\ CallPartner(c) /\ UNCHANGED <<noticeTables, queueTables>>

WorkersCrash ==
  Error /\ DropSenders /\ DropGoroutines /\ DropCalls /\ UNCHANGED load

WorkersNext ==
  \/ Request /\ UNCHANGED load
  \/ NoticeStep /\ UNCHANGED <<queueTables, clientTables, load>>
  \/ QueueStep /\ UNCHANGED <<noticeTables, clientTables, load>>
  \/ ClientStep /\ UNCHANGED <<noticeTables, queueTables, load>>
  \/ WorkersCrash

WorkersFairness == NoticeFairness /\ QueueFairness

WorkersSpec == WorkersInit /\ [][WorkersNext]_workerVars /\ WorkersFairness
=============================================================================
