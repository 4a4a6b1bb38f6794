----------------------- MODULE RegulatorNotification -----------------------
(***************************************************************************)
(* Webhook notices to the regulator.  Settling a transfer inserts a row    *)
(* and starts a goroutine that sends it.  A worker, on every tick, retries *)
(* the rows whose back-off is over, one after the other, and then starts a *)
(* goroutine for each pending row that nears its deadline.  Every sender   *)
(* works on a copy of the row and saves the whole copy.                    *)
(*                                                                         *)
(* Time is what the code asks of it: a deadline is early, near (less than  *)
(* 30 seconds ahead) or passed; the next retry is none, future or due.     *)
(***************************************************************************)
EXTENDS WorkerProcess, FiniteSets, FiniteSetsExt, Functions

CONSTANTS
  Notices,      \* the notices transfers ask for
  Sweepers,     \* goroutines the worker's sweep can have running (a bound)
  Worker,       \* the worker, as a sender
  MaxAttempts,  \* config.MaxRetries
  BatchSize     \* rows the worker fetches at a time

ASSUME NoticeAssumption ==
  /\ Worker \notin Notices \cup Sweepers /\ Notices \cap Sweepers = {}
  /\ IsFiniteSet(Notices \cup Sweepers)
  /\ MaxAttempts \in Nat \ {0} /\ BatchSize \in Nat \ {0}

VARIABLES
  rows,      \* rows[n]: the row of notice n, or NoNotice
  deadline,  \* deadline[n]: how far n's deadline is
  senders,   \* senders[s]: the SendWebhook call of sender s
  tick,      \* what the worker's loop does next
  batch,     \* the copies the worker has still to retry
  tried,     \* tried[n]: requests sent for n
  got,       \* got[n]: whether, and when, the regulator received n
  refused,   \* refused[n]: a 4xx answered n
  hurt       \* notices an error or a crash has interfered with

noticeTables == <<rows, deadline, senders, tick, batch, tried, got, refused, hurt>>
noticeVars == <<processVars, noticeTables>>

Senders == Notices \cup Sweepers \cup {Worker}

(* A row: pending, sending, sent, retrying or failed_permanently, its count *)
(* of attempts, when it is to be sent again ("none", "future" or "due"),    *)
(* and whether it was sent within its deadline.                             *)
NoticeStatuses ==
  {"pending", "sending", "sent", "failed", "retrying", "failed_permanently"}

NoNotice == [status |-> "none", attempts |-> 0, retry |-> "none", inTime |-> FALSE]

NewNotice == [NoNotice EXCEPT !.status = "pending"]

Answers == {"ok", "client error", "server error", "no answer"}
Idle == [step |-> "idle"]

NoticeInit ==
  /\ ProcessInit
  /\ rows = [n \in Notices |-> NoNotice]
  /\ deadline = [n \in Notices |-> "early"]
  /\ senders = [s \in Senders |-> Idle]
  /\ tick = "waiting" /\ batch = {}
  /\ tried = [n \in Notices |-> 0]
  /\ got = [n \in Notices |-> "no"]
  /\ refused = [n \in Notices |-> FALSE] /\ hurt = {}

(* The notices some sender is about to mark as being sent. *)
Unmarked == {senders[s].id : s \in {t \in Senders : senders[t].step = "mark"}}

-----------------------------------------------------------------------------
(* Rows. *)

Valid(row) == row.status \in NoticeStatuses /\ row.attempts <= MaxAttempts

CanRetry(row) == row.status \in {"failed", "retrying"}

NeedsRetry(row) == CanRetry(row) /\ row.attempts < MaxAttempts /\ row.retry # "future"

MarkAsSending(row) == [row EXCEPT !.status = "sending", !.attempts = @ + 1]

(* Mutant: the deadline is not looked at. *)
MarkAsSentInTime(row, when) == [row EXCEPT !.status = "sent", !.inTime = TRUE]

MarkAsSent(row, when) == [row EXCEPT !.status = "sent", !.inTime = (when # "passed")]

(* Mutant: gives up one attempt early. *)
MarkAsFailedEarly(row) ==
  IF row.attempts + 1 < MaxAttempts
    THEN [row EXCEPT !.status = "retrying", !.retry = "future"]
    ELSE [row EXCEPT !.status = "failed_permanently"]

(* Mutant: no retry is scheduled. *)
MarkAsFailedForgotten(row) ==
  IF row.attempts < MaxAttempts
    THEN [row EXCEPT !.status = "retrying"]
    ELSE [row EXCEPT !.status = "failed_permanently"]

MarkAsFailed(row) ==
  IF row.attempts < MaxAttempts
    THEN [row EXCEPT !.status = "retrying", !.retry = "future"]
    ELSE [row EXCEPT !.status = "failed_permanently"]

(* A client error is final, whatever the attempts. *)
Answered(row, answer, when) ==
  CASE answer = "ok"           -> MarkAsSent(row, when)
    [] answer = "client error" -> [row EXCEPT !.status = "failed_permanently"]
    [] OTHER                   -> MarkAsFailed(row)

FindRetryable ==
  {n \in Notices : CanRetry(rows[n]) /\ rows[n].retry = "due" /\ rows[n].attempts < MaxAttempts}

(* Mutant: the sweep takes every row that is not settled. *)
FindUnsent == {n \in Notices : rows[n].status \in {"pending", "sending"} /\ deadline[n] = "near"}

FindApproachingDeadline ==
  {n \in Notices : rows[n].status = "pending" /\ deadline[n] = "near"}

(* The rows a query with a LIMIT returns. *)
Limited(found) == kSubset(Min({BatchSize, Cardinality(found)}), found)

-----------------------------------------------------------------------------
(* createAndSendNotification.  When the insert fails there is no notice.   *)

Sending(n) == [step |-> "mark", id |-> n, copy |-> rows'[n]]

Notify(n) ==
  /\ rows[n] = NoNotice
  /\ rows' = [rows EXCEPT ![n] = NewNotice]
  /\ senders' = [senders EXCEPT ![n] = Sending(n)]
  /\ UNCHANGED <<deadline, tick, batch, processVars, tried, got, refused, hurt>>

-----------------------------------------------------------------------------
(* SendWebhook, by sender s. *)

Ends(s) == senders' = [senders EXCEPT ![s] = Idle]

(* The call ends without sending when its copy cannot be saved.  A save    *)
(* that was reported as an error may have been made.                       *)
Mark(s) ==
  LET c == senders[s]  copy == MarkAsSending(c.copy) IN
  /\ c.step = "mark"
  /\ IF Valid(copy)
       THEN \/ /\ rows' = [rows EXCEPT ![c.id] = copy]
               /\ senders' = [senders EXCEPT ![s] = [c EXCEPT !.step = "post", !.copy = copy]]
               /\ UNCHANGED <<errors, hurt>>
            \/ /\ Error /\ Ends(s)
               /\ rows' \in {rows, [rows EXCEPT ![c.id] = copy]}
               /\ hurt' = hurt \cup {c.id}
       ELSE Ends(s) /\ UNCHANGED <<rows, errors, hurt>>
  /\ UNCHANGED <<deadline, tick, batch, prompt, tried, got, refused>>

Receive(n) ==
  got' = [got EXCEPT ![n] = IF got[n] # "no" THEN got[n]
                            ELSE IF deadline[n] = "passed" THEN "late" ELSE "in time"]

(* The POST.  A request without an answer may have been received. *)
Post(s) ==
  LET c == senders[s] IN
  /\ c.step = "post"
  /\ tried' = [tried EXCEPT ![c.id] = @ + 1]
  /\ \E a \in Answers :
       /\ senders' = [senders EXCEPT
                        ![s] = [step |-> "save", id |-> c.id, copy |-> c.copy, answer |-> a]]
       /\ CASE a = "ok" -> Receive(c.id)
            [] a = "no answer" -> Receive(c.id) \/ UNCHANGED got
            [] OTHER -> UNCHANGED got
       /\ refused' = [refused EXCEPT ![c.id] = @ \/ a = "client error"]
  /\ UNCHANGED <<rows, deadline, tick, batch, processVars, hurt>>

(* A save that fails is only logged. *)
SaveAttempt(s) ==
  LET c == senders[s] IN
  /\ c.step = "save"
  /\ Ends(s)
  /\ \/ /\ rows' = [rows EXCEPT ![c.id] = Answered(c.copy, c.answer, deadline[c.id])]
        /\ UNCHANGED <<errors, hurt>>
     \/ /\ Error /\ hurt' = hurt \cup {c.id} /\ UNCHANGED rows
  /\ UNCHANGED <<deadline, tick, batch, prompt, tried, got, refused>>

SendWebhook(s) == Mark(s) \/ Post(s) \/ SaveAttempt(s)

-----------------------------------------------------------------------------
(* The worker. *)

Tick ==
  /\ tick = "waiting"
  /\ \/ /\ \E taken \in Limited(FindRetryable) :
             batch' = {[id |-> n, copy |-> rows[n]] : n \in taken}
        /\ tick' = "retrying"
        /\ UNCHANGED errors
     \/ Error /\ tick' = "sweeping" /\ UNCHANGED batch
  /\ UNCHANGED <<rows, deadline, senders, prompt, tried, got, refused, hurt>>

Retry ==
  /\ tick = "retrying" /\ senders[Worker] = Idle
  /\ \E b \in batch :
       /\ batch' = batch \ {b}
       /\ senders' = IF NeedsRetry(b.copy)
                       THEN [senders EXCEPT
                               ![Worker] = [step |-> "mark", id |-> b.id, copy |-> b.copy]]
                       ELSE senders
  /\ UNCHANGED <<rows, deadline, tick, prompt, errors, tried, got, refused, hurt>>

RetriesDone ==
  /\ tick = "retrying" /\ batch = {} /\ senders[Worker] = Idle
  /\ tick' = "sweeping"
  /\ UNCHANGED <<rows, deadline, senders, batch, processVars, tried, got, refused, hurt>>

(* One goroutine for each row found; it waits here while all are busy.     *)
(* Which goroutine sends which row makes no difference.                    *)
Sweep ==
  LET free == {s \in Sweepers : senders[s] = Idle} IN
  /\ tick = "sweeping" /\ tick' = "waiting"
  /\ prompt => Unmarked \cap FindApproachingDeadline = {}
  /\ \/ /\ \E taken \in Limited(FindApproachingDeadline) :
             /\ Cardinality(taken) <= Cardinality(free)
             /\ LET row == CHOOSE f \in Injection(taken, free) : TRUE IN
                senders' = [s \in Senders |->
                  IF s \in Range(row)
                    THEN LET n == Inverse(row, taken, free)[s]
                         IN [step |-> "mark", id |-> n, copy |-> rows[n]]
                    ELSE senders[s]]
        /\ UNCHANGED errors
     \/ Error /\ UNCHANGED senders
  /\ UNCHANGED <<rows, deadline, batch, prompt, tried, got, refused, hurt>>

-----------------------------------------------------------------------------
(* Time, and a crash with the restart that follows it. *)

DeadlineNears(n) ==
  /\ rows[n] # NoNotice
  /\ deadline' = [deadline EXCEPT ![n] =
                    CASE @ = "early" -> "near" [] @ = "near" -> "passed" [] OTHER -> @]
  /\ deadline[n] # "passed"
  /\ prompt /\ deadline[n] = "early" => n \notin Unmarked
  /\ UNCHANGED <<rows, senders, tick, batch, processVars, tried, got, refused, hurt>>

RetryComesDue(n) ==
  /\ rows[n].retry = "future"
  /\ rows' = [rows EXCEPT ![n].retry = "due"]
  /\ UNCHANGED <<deadline, senders, tick, batch, processVars, tried, got, refused, hurt>>

(* A row in the sending state is never selected again, and a pending one   *)
(* only before its deadline.                                               *)
DropSenders ==
  /\ senders' = [s \in Senders |-> Idle]
  /\ tick' = "waiting" /\ batch' = {}
  /\ hurt' = hurt \cup {n \in Notices : rows[n].status \in {"pending", "sending"}}
  /\ UNCHANGED <<rows, deadline, prompt, tried, got, refused>>

SenderStep == \E s \in Senders : SendWebhook(s)
WorkerStep == Tick \/ Retry \/ RetriesDone \/ Sweep
NoticeTime == \E n \in Notices : DeadlineNears(n) \/ RetryComesDue(n)
NoticeStep ==
  \/ SenderStep
  \/ WorkerStep
  \/ NoticeTime

-----------------------------------------------------------------------------
Settled(n) == rows[n].status \in {"sent", "failed_permanently"}

(* Every request to the regulator is counted on its row, so no notice is   *)
(* sent more often than config.MaxRetries allows, in spite of retries,     *)
(* sweeps, errors and crashes.  Two senders of one row (not prompt) lose   *)
(* the count.                                                              *)
RequestsAreCounted == prompt => \A n \in Notices : tried[n] <= rows[n].attempts

(* SendWebhook gives a notice up only when the regulator refused it or     *)
(* MaxAttempts requests were really made, whatever copies were saved over  *)
(* each other.                                                             *)
GivesUpOnlyForCause ==
  \A n \in Notices :
    rows[n].status = "failed_permanently" => refused[n] \/ tried[n] >= MaxAttempts

(* A row that says sent was received, and one that says it was in time was *)
(* received before the deadline.                                           *)
SentWasReceived ==
  \A n \in Notices :
    rows[n].status = "sent" => /\ got[n] # "no"
                               /\ rows[n].inTime => got[n] = "in time"

(* Nothing overwrites a notice that has been sent or given up: no second   *)
(* sender still holds a copy.                                              *)
SettledIsFinal ==
  [][prompt => \A n \in Notices : Settled(n) => rows'[n] = rows[n]]_noticeVars

(* A notice is settled for good, unless an error or a crash interfered.    *)
NoticesSettle ==
  <>[](\A n \in Notices : rows[n] = NoNotice \/ Settled(n) \/ n \in hurt)

NoticeFairness ==
  /\ WF_noticeVars(SenderStep)
  /\ WF_noticeVars(WorkerStep)
  /\ WF_noticeVars(\E n \in Notices : RetryComesDue(n))
=============================================================================
