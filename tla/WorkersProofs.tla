---------------------------- MODULE WorkersProofs ---------------------------
(***************************************************************************)
(* What the background workers do, for any notices, sweepers, queue items, *)
(* calls and bounds.  The notices, the queue and the client of NorthWind   *)
(* have an inductive invariant each, and no part touches the state of      *)
(* another but to use up errors and crashes.                               *)
(*                                                                         *)
(* NoticeInv has a part that holds at any speed of the process, what copies *)
(* and rows say of the requests made, and a part for a prompt process, where *)
(* every copy is the row itself and no two senders have the same one.      *)
(***************************************************************************)
EXTENDS Workers, FiniteSetTheorems, TLAPS

-----------------------------------------------------------------------------
(* The notices. *)

NoticeRows ==
  [status : NoticeStatuses \cup {"none"}, attempts : Nat,
   retry : {"none", "future", "due"}, inTime : BOOLEAN]

Copies == [id : Notices, copy : NoticeRows]
SendStates == [step : {"mark", "post"}, id : Notices, copy : NoticeRows]
SaveStates == [step : {"save"}, id : Notices, copy : NoticeRows, answer : Answers]

NoticeTypes ==
  /\ rows \in [Notices -> NoticeRows]
  /\ deadline \in [Notices -> {"early", "near", "passed"}]
  /\ senders \in [Senders -> {Idle} \cup SendStates \cup SaveStates]
  /\ tick \in {"waiting", "retrying", "sweeping"}
  /\ batch \subseteq Copies
  /\ tried \in [Notices -> Nat]
  /\ got \in [Notices -> {"no", "late", "in time"}]
  /\ refused \in [Notices -> BOOLEAN]

Busy(s) == senders[s].step # "idle"

Unsettled == {"pending", "failed", "retrying"}

(* What a row says of its notice, whoever saved it. *)
NoticeRowOK(n) ==
  /\ rows[n].status = "none" => rows[n] = NoNotice
  /\ rows[n].status \in Unsettled => rows[n].attempts <= tried[n]
  /\ rows[n].retry = "future" => rows[n].status = "retrying"
  /\ rows[n].status = "failed_permanently" => refused[n] \/ tried[n] >= MaxAttempts
  /\ rows[n].status = "sent" => /\ got[n] # "no"
                                /\ rows[n].inTime => got[n] = "in time"
  /\ got[n] = "late" => deadline[n] = "passed"

(* What a sender knows of the notice it works on. *)
SenderOK(s) ==
  LET c == senders[s]  n == c.id IN
  Busy(s) =>
    /\ rows[n].status # "none"
    /\ s \in Notices => n = s
    /\ c.copy.retry # "future"
    /\ c.step = "mark" => /\ c.copy.status \in Unsettled
                          /\ s # Worker => c.copy.status = "pending"
                          /\ c.copy.attempts <= tried[n]
    /\ c.step # "mark" => c.copy.status = "sending"
    /\ c.step = "post" => c.copy.attempts <= tried[n] + 1
    /\ c.step = "save" => /\ c.copy.attempts <= tried[n]
                          /\ c.answer = "ok" => got[n] # "no"
                          /\ c.answer = "client error" => refused[n]

BatchOK ==
  /\ \A b \in batch : /\ rows[b.id].status # "none"
                      /\ CanRetry(b.copy) /\ b.copy.retry = "due"
                      /\ b.copy.attempts <= tried[b.id]
  /\ tick # "retrying" => batch = {} /\ senders[Worker] = Idle

(* When the process is prompt a copy, a sender's or one in the batch, is    *)
(* the row it was read from, and there are no two of the same row.          *)
CopiesAreRows ==
  /\ \A s \in Senders : Busy(s) => rows[senders[s].id] = senders[s].copy
  /\ \A s, t \in Senders : Busy(s) /\ Busy(t) /\ senders[s].id = senders[t].id => s = t
  /\ \A b \in batch : rows[b.id] = b.copy
  /\ \A b \in batch, s \in Senders : Busy(s) => senders[s].id # b.id

Counted ==
  /\ \A n \in Notices : tried[n] <= rows[n].attempts
  /\ \A s \in Senders : senders[s].step = "post" => tried[senders[s].id] < senders[s].copy.attempts

NoticeInv ==
  /\ NoticeTypes
  /\ \A n \in Notices : NoticeRowOK(n)
  /\ \A s \in Senders : SenderOK(s)
  /\ BatchOK
  /\ prompt => CopiesAreRows /\ Counted

-----------------------------------------------------------------------------
LEMMA NoticeInvInit == NoticeInit => NoticeInv
<1> SUFFICES ASSUME NoticeInit PROVE NoticeInv
  OBVIOUS
<1>1. NoNotice \in NoticeRows
  BY DEF NoNotice, NoticeRows, NoticeStatuses
<1>2. Worker \in Senders /\ \A s \in Senders : ~Busy(s)
  BY DEF NoticeInit, Busy, Idle, Senders
<1>3. NoticeTypes
  BY <1>1 DEF NoticeInit, NoticeTypes
<1>4. \A n \in Notices : NoticeRowOK(n)
  BY NoticeAssumption DEF NoticeInit, NoticeRowOK, NoNotice, Unsettled
<1>5. (\A s \in Senders : SenderOK(s)) /\ BatchOK
  BY <1>2 DEF NoticeInit, SenderOK, BatchOK
<1>6. CopiesAreRows /\ Counted
  BY <1>2 DEF NoticeInit, CopiesAreRows, Counted, NoNotice, Busy, Idle
<1>7. QED
  BY <1>3, <1>4, <1>5, <1>6 DEF NoticeInv

-----------------------------------------------------------------------------
(* Rows and copies. *)

LEMMA SenderTypes ==
  ASSUME NoticeTypes, NEW s \in Senders, Busy(s)
  PROVE  /\ senders[s] \in SendStates \cup SaveStates
         /\ senders[s].step \in {"mark", "post"} => senders[s] \in SendStates
         /\ senders[s].step = "save" => senders[s] \in SaveStates
         /\ senders[s].id \in Notices /\ senders[s].copy \in NoticeRows
<1>1. senders[s] \in {Idle} \cup SendStates \cup SaveStates
  BY DEF NoticeTypes
<1>2. senders[s] # Idle
  BY DEF Busy, Idle
<1>3. QED
  BY <1>1, <1>2 DEF SendStates, SaveStates

LEMMA MarkedCopy ==
  ASSUME NEW row \in NoticeRows, NEW saved, saved = MarkAsSending(row)
  PROVE  /\ saved \in NoticeRows
         /\ saved.status = "sending"
         /\ saved.attempts = row.attempts + 1
         /\ saved.retry = row.retry
<1>1. row.attempts + 1 \in Nat
  BY DEF NoticeRows
<1>2. saved \in NoticeRows
  BY <1>1 DEF MarkAsSending, NoticeRows, NoticeStatuses
<1>3. QED
  BY <1>2 DEF MarkAsSending, NoticeRows

(* What the row that keeps an answer is to be. *)
KeepsAnswer(row, answer, when, saved) ==
  /\ saved \in NoticeRows
  /\ saved.attempts = row.attempts
  /\ saved.status \in {"sent", "failed_permanently", "retrying"}
  /\ saved.retry = row.retry \/ saved.status = "retrying"
  /\ saved.status = "sent" => answer = "ok" /\ (saved.inTime => when # "passed")
  /\ saved.status = "failed_permanently" =>
       answer = "client error" \/ row.attempts >= MaxAttempts

LEMMA AnsweredCopy ==
  ASSUME NEW row \in NoticeRows, NEW answer \in Answers,
         NEW when \in {"early", "near", "passed"},
         NEW saved, saved = Answered(row, answer, when)
  PROVE  KeepsAnswer(row, answer, when, saved)
<1> USE DEF KeepsAnswer
<1>1. row.attempts \in Nat /\ MaxAttempts \in Nat
  BY NoticeAssumption DEF NoticeRows
<1>2. CASE answer = "ok"
  <2>1. saved = MarkAsSent(row, when)
    BY <1>2 DEF Answered
  <2>2. saved \in NoticeRows
    BY <2>1 DEF MarkAsSent, NoticeRows, NoticeStatuses
  <2>3. /\ saved.status = "sent" /\ saved.attempts = row.attempts
        /\ saved.retry = row.retry /\ saved.inTime = (when # "passed")
    BY <2>1 DEF MarkAsSent, NoticeRows
  <2>4. QED
    BY <1>2, <2>2, <2>3
<1>3. CASE answer = "client error"
  <2>1. saved = [row EXCEPT !.status = "failed_permanently"]
    BY <1>3 DEF Answered
  <2>2. saved \in NoticeRows
    BY <2>1 DEF NoticeRows, NoticeStatuses
  <2>3. /\ saved.status = "failed_permanently" /\ saved.attempts = row.attempts
        /\ saved.retry = row.retry
    BY <2>1 DEF NoticeRows
  <2>4. QED
    BY <1>3, <2>2, <2>3
<1>4. CASE answer \in {"server error", "no answer"}
  <2>1. saved = MarkAsFailed(row)
    BY <1>4 DEF Answered
  <2>2. CASE row.attempts < MaxAttempts
    <3>1. saved \in NoticeRows
      BY <2>1, <2>2 DEF MarkAsFailed, NoticeRows, NoticeStatuses
    <3>2. saved.status = "retrying" /\ saved.attempts = row.attempts
      BY <2>1, <2>2 DEF MarkAsFailed, NoticeRows
    <3>3. QED
      BY <3>1, <3>2
  <2>3. CASE ~(row.attempts < MaxAttempts)
    <3>1. saved \in NoticeRows
      BY <2>1, <2>3 DEF MarkAsFailed, NoticeRows, NoticeStatuses
    <3>2. /\ saved.status = "failed_permanently" /\ saved.attempts = row.attempts
          /\ saved.retry = row.retry
      BY <2>1, <2>3 DEF MarkAsFailed, NoticeRows
    <3>3. row.attempts >= MaxAttempts
      BY <1>1, <2>3
    <3>4. QED
      BY <3>1, <3>2, <3>3
  <2>4. QED
    BY <2>2, <2>3
<1>5. QED
  BY <1>2, <1>3, <1>4 DEF Answers

-----------------------------------------------------------------------------
(* Senders that end, and what the worker forgets, break nothing; nor do the *)
(* steps that only move the worker on.                                      *)
LEMMA EndingKeeps ==
  ASSUME NoticeInv, UNCHANGED <<rows, deadline, prompt, tried, got, refused>>,
         senders' \in [Senders -> {Idle} \cup SendStates \cup SaveStates],
         \A s \in Senders : senders'[s] \in {Idle, senders[s]},
         batch' \subseteq batch, tick' \in {"waiting", "retrying", "sweeping"},
         tick' # "retrying" => batch' = {} /\ senders'[Worker] = Idle
  PROVE  NoticeInv'
<1>1. \A s \in Senders : Busy(s)' => Busy(s) /\ senders'[s] = senders[s]
  BY DEF Busy, Idle
<1>2. NoticeTypes'
  BY DEF NoticeInv, NoticeTypes
<1>3. ASSUME NEW n \in Notices PROVE NoticeRowOK(n)'
  BY DEF NoticeInv, NoticeRowOK
<1>4. ASSUME NEW s \in Senders PROVE SenderOK(s)'
  <2>1. SenderOK(s)
    BY DEF NoticeInv
  <2>2. QED
    BY <1>1, <2>1 DEF SenderOK
<1>5. BatchOK'
  BY DEF NoticeInv, BatchOK
<1>6. ASSUME prompt PROVE CopiesAreRows' /\ Counted'
  <2>1. CopiesAreRows /\ Counted
    BY <1>6 DEF NoticeInv
  <2>2. CopiesAreRows'
    BY <1>1, <2>1 DEF CopiesAreRows
  <2>3. \A s \in Senders : senders'[s].step = "post" => senders'[s] = senders[s]
    BY DEF Idle
  <2>4. QED
    BY <2>1, <2>2, <2>3 DEF Counted
<1>7. QED
  BY <1>2, <1>3, <1>4, <1>5, <1>6 DEF NoticeInv

LEMMA NoticesElsewhere ==
  ASSUME NoticeInv, UNCHANGED <<noticeTables, prompt>>
  PROVE  NoticeInv'
<1>1. UNCHANGED <<rows, deadline, senders, tick, batch, prompt, tried, got, refused>>
  BY DEF noticeTables
<1>2. QED
  BY <1>1, EndingKeeps DEF NoticeInv, NoticeTypes, BatchOK

LEMMA CrashDropsSenders == NoticeInv /\ DropSenders => NoticeInv'
BY EndingKeeps DEF DropSenders, Senders

LEMMA RetriesDoneKeeps == NoticeInv /\ RetriesDone => NoticeInv'
BY EndingKeeps DEF RetriesDone, NoticeInv, NoticeTypes, BatchOK, processVars

-----------------------------------------------------------------------------
(* A sender saves its copy over the row, and goes on to send it or ends. *)
LEMMA SavingKeeps ==
  ASSUME NoticeInv, NEW s \in Senders, Busy(s),
         NEW n \in Notices, n = senders[s].id, NEW row \in NoticeRows,
         rows' = [rows EXCEPT ![n] = row], row.status # "none",
         row.status \in Unsettled => row.attempts <= tried[n],
         NEW next \in {Idle} \cup SendStates, senders' = [senders EXCEPT ![s] = next],
         next # Idle => /\ next.step = "post" /\ next.id = n /\ next.copy = row
                        /\ row.status = "sending" /\ row.retry # "future"
                        /\ row.attempts <= tried[n] + 1,
         UNCHANGED <<deadline, tick, batch, prompt, tried, got, refused>>,
         NoticeRowOK(n)',
         prompt => tried[n] <= row.attempts /\ (next # Idle => tried[n] < row.attempts)
  PROVE  NoticeInv'
<1>1. \A t \in Senders : t # s => senders'[t] = senders[t]
  BY DEF NoticeInv, NoticeTypes
<1>2. senders'[s] = next
  BY DEF NoticeInv, NoticeTypes
<1>3. rows'[n] = row /\ \A m \in Notices : m # n => rows'[m] = rows[m]
  BY DEF NoticeInv, NoticeTypes
<1>4. NoticeTypes'
  BY DEF NoticeInv, NoticeTypes
<1>5. ASSUME NEW m \in Notices PROVE NoticeRowOK(m)'
  <2>1. CASE m = n
    BY <2>1 DEF NoticeRowOK
  <2>2. CASE m # n
    <3>1. NoticeRowOK(m) /\ rows'[m] = rows[m]
      BY <1>3, <2>2 DEF NoticeInv
    <3>2. UNCHANGED <<deadline, tried, got, refused>>
      OBVIOUS
    <3>3. QED
      BY <3>1, <3>2, Zenon DEF NoticeRowOK
  <2>3. QED
    BY <2>1, <2>2
<1>6. Busy(s)' => next # Idle
  BY <1>2 DEF Busy, Idle
<1>7. ASSUME NEW t \in Senders PROVE SenderOK(t)'
  <2>1. SenderOK(t) /\ SenderOK(s)
    BY DEF NoticeInv
  <2>2. CASE t = s
    <3>1. CASE next = Idle
      BY <1>6, <2>2, <3>1 DEF SenderOK
    <3>2. CASE next # Idle
      <4>1. s \in Notices => n = s
        BY <2>1 DEF SenderOK
      <4>2. /\ senders'[t].step = "post" /\ senders'[t].id = n /\ senders'[t].copy = row
            /\ rows'[n].status = "sending" /\ tried'[n] = tried[n]
        BY <1>2, <1>3, <2>2, <3>2
      <4>3. QED
        BY <2>2, <3>2, <4>1, <4>2 DEF SenderOK
    <3>3. QED
      BY <3>1, <3>2
  <2>3. CASE t # s
    <3>1. Busy(t) => senders[t].id \in Notices
      BY SenderTypes DEF NoticeInv
    <3>2. senders'[t] = senders[t] /\ (Busy(t)' <=> Busy(t))
      BY <1>1, <2>3 DEF Busy
    <3>3. Busy(t) => rows'[senders[t].id].status # "none"
      BY <1>3, <2>1, <3>1 DEF SenderOK
    <3>4. QED
      BY <2>1, <3>2, <3>3 DEF SenderOK
  <2>4. QED
    BY <2>2, <2>3
<1>8. BatchOK'
  <2>1. senders[Worker] = Idle => s # Worker
    BY DEF Busy, Idle
  <2>2. Worker \in Senders
    BY DEF Senders
  <2>3. \A b \in batch : b.id \in Notices
    BY DEF NoticeInv, NoticeTypes, Copies
  <2>4. QED
    BY <1>1, <1>3, <2>1, <2>2, <2>3 DEF NoticeInv, BatchOK
<1>9. ASSUME prompt PROVE CopiesAreRows' /\ Counted'
  <2>1. CopiesAreRows /\ Counted
    BY <1>9 DEF NoticeInv
  <2>2. \A t \in Senders : t # s => (Busy(t)' <=> Busy(t))
    BY <1>1 DEF Busy
  <2>3. \A t \in Senders : Busy(t) => senders[t].id \in Notices
    BY SenderTypes DEF NoticeInv
  <2>4. \A t \in Senders : t # s /\ Busy(t) => senders[t].id # n
    BY <2>1 DEF CopiesAreRows
  <2>5. \A b \in batch : b.id \in Notices /\ b.id # n
    BY <2>1 DEF CopiesAreRows, NoticeInv, NoticeTypes, Copies
  <2>6. CopiesAreRows'
    <3>1. \A t \in Senders : Busy(t)' => rows'[senders'[t].id] = senders'[t].copy
      BY <1>1, <1>2, <1>3, <1>6, <2>1, <2>2, <2>3, <2>4 DEF CopiesAreRows
    <3>2. \A t, u \in Senders :
            Busy(t)' /\ Busy(u)' /\ senders'[t].id = senders'[u].id => t = u
      BY <1>1, <1>2, <1>6, <2>1, <2>2, <2>4 DEF CopiesAreRows
    <3>3. \A b \in batch : rows'[b.id] = b.copy
      BY <1>3, <2>1, <2>5 DEF CopiesAreRows
    <3>4. \A b \in batch, t \in Senders : Busy(t)' => senders'[t].id # b.id
      BY <1>1, <1>2, <1>6, <2>1, <2>2, <2>5 DEF CopiesAreRows
    <3>5. QED
      BY <3>1, <3>2, <3>3, <3>4 DEF CopiesAreRows
  <2>7. Counted'
    <3>1. \A m \in Notices : tried[m] <= rows'[m].attempts
      BY <1>3, <1>9, <2>1 DEF Counted
    <3>2. next # Idle => tried[n] < row.attempts /\ next.id = n /\ next.copy = row
      BY <1>9
    <3>3. senders'[s].step = "post" => next # Idle
      BY <1>2 DEF Idle
    <3>4. \A t \in Senders :
            senders'[t].step = "post" => tried[senders'[t].id] < senders'[t].copy.attempts
      BY <1>1, <1>2, <2>1, <3>2, <3>3 DEF Counted
    <3>5. QED
      BY <3>1, <3>4 DEF Counted
  <2>8. QED
    BY <2>6, <2>7
<1>10. QED
  BY <1>4, <1>5, <1>7, <1>8, <1>9 DEF NoticeInv

LEMMA EndKeeps ==
  ASSUME NoticeInv, NEW s \in Senders, Ends(s),
         UNCHANGED <<rows, deadline, tick, batch, prompt, tried, got, refused>>
  PROVE  NoticeInv'
<1>1. \A t \in Senders : senders'[t] \in {Idle, senders[t]}
  BY DEF Ends, NoticeInv, NoticeTypes
<1>2. senders' \in [Senders -> {Idle} \cup SendStates \cup SaveStates]
  BY DEF Ends, NoticeInv, NoticeTypes
<1>3. Worker \in Senders
  BY DEF Senders
<1>4. tick' # "retrying" => batch' = {} /\ senders'[Worker] = Idle
  BY <1>1, <1>3 DEF NoticeInv, BatchOK
<1>5. QED
  BY <1>1, <1>2, <1>4, EndingKeeps DEF NoticeInv, NoticeTypes

-----------------------------------------------------------------------------
(* SendWebhook. *)

LEMMA MarkKeeps ==
  ASSUME NoticeInv, NEW s \in Senders, Mark(s)
  PROVE  NoticeInv'
<1> PICK n, c : n = senders[s].id /\ c = senders[s].copy
  OBVIOUS
<1>1. Busy(s) /\ senders[s].step = "mark"
  BY DEF Mark, Busy
<1>2. senders[s] \in SendStates /\ n \in Notices /\ c \in NoticeRows
  BY <1>1, SenderTypes DEF NoticeInv
<1>3. PICK row : row = MarkAsSending(c)
  OBVIOUS
<1>4. /\ row \in NoticeRows /\ row.status = "sending" /\ row.attempts = c.attempts + 1
      /\ row.retry = c.retry
  BY <1>2, <1>3, MarkedCopy
<1>5. /\ c.retry # "future" /\ c.attempts <= tried[n] /\ rows[n].status # "none"
      /\ c.attempts \in Nat /\ tried[n] \in Nat
  BY <1>1, <1>2 DEF NoticeInv, NoticeTypes, NoticeRows, SenderOK
<1>6. ASSUME prompt PROVE tried[n] < row.attempts
  <2>1. rows[n] = c /\ tried[n] <= rows[n].attempts
    BY <1>1, <1>2, <1>6 DEF NoticeInv, CopiesAreRows, Counted
  <2>2. QED
    BY <1>4, <1>5, <2>1
<1>7. ASSUME rows' = [rows EXCEPT ![n] = row], UNCHANGED <<deadline, tried, got, refused>>
      PROVE  NoticeRowOK(n)'
  <2>1. rows'[n] = row
    BY <1>2, <1>7 DEF NoticeInv, NoticeTypes
  <2>2. NoticeRowOK(n)
    BY <1>2 DEF NoticeInv
  <2>3. QED
    BY <1>4, <1>5, <1>7, <2>1, <2>2 DEF NoticeRowOK, Unsettled
<1>8. UNCHANGED <<deadline, tick, batch, prompt, tried, got, refused>>
  BY DEF Mark
<1>9. CASE /\ rows' = [rows EXCEPT ![n] = row]
           /\ senders' = [senders EXCEPT
                            ![s] = [senders[s] EXCEPT !.step = "post", !.copy = row]]
  <2>1. PICK next : next = [senders[s] EXCEPT !.step = "post", !.copy = row]
    OBVIOUS
  <2>2. next \in SendStates /\ next.step = "post" /\ next.id = n /\ next.copy = row
    BY <1>2, <1>4, <2>1 DEF SendStates
  <2>3. row.status \notin Unsettled /\ row.attempts <= tried[n] + 1
    BY <1>4, <1>5 DEF Unsettled
  <2>4. prompt => tried[n] <= row.attempts
    BY <1>4, <1>5, <1>6
  <2>5. QED
    BY <1>1, <1>2, <1>4, <1>5, <1>6, <1>7, <1>8, <1>9, <2>1, <2>2, <2>3, <2>4, SavingKeeps
<1>10. CASE Ends(s) /\ rows' = [rows EXCEPT ![n] = row]
  <2>1. row.status \notin Unsettled
    BY <1>4 DEF Unsettled
  <2>2. prompt => tried[n] <= row.attempts
    BY <1>4, <1>5, <1>6
  <2>3. QED
    BY <1>1, <1>2, <1>4, <1>7, <1>8, <1>10, <2>1, <2>2, SavingKeeps DEF Ends
<1>11. CASE Ends(s) /\ rows' = rows
  BY <1>8, <1>11, EndKeeps
<1>12. QED
  BY <1>3, <1>9, <1>10, <1>11 DEF Mark

LEMMA SaveAttemptKeeps ==
  ASSUME NoticeInv, NEW s \in Senders, SaveAttempt(s)
  PROVE  NoticeInv'
<1> PICK n, c, answer :
      n = senders[s].id /\ c = senders[s].copy /\ answer = senders[s].answer
  OBVIOUS
<1>1. Busy(s) /\ senders[s].step = "save"
  BY DEF SaveAttempt, Busy
<1>2. /\ senders[s] \in SaveStates /\ n \in Notices /\ c \in NoticeRows
      /\ answer \in Answers
  BY <1>1, SenderTypes DEF NoticeInv, SaveStates
<1>3. deadline[n] \in {"early", "near", "passed"}
  BY <1>2 DEF NoticeInv, NoticeTypes
<1>4. PICK when, row : /\ when = deadline[n] /\ when \in {"early", "near", "passed"}
                       /\ row = Answered(c, answer, when)
  BY <1>3
<1>5. /\ row \in NoticeRows /\ row.attempts = c.attempts
      /\ row.status \in {"sent", "failed_permanently", "retrying"}
      /\ row.retry = c.retry \/ row.status = "retrying"
      /\ row.status = "sent" => answer = "ok" /\ (row.inTime => when # "passed")
      /\ row.status = "failed_permanently" =>
           answer = "client error" \/ c.attempts >= MaxAttempts
  <2>1. KeepsAnswer(c, answer, when, row)
    BY <1>2, <1>4, AnsweredCopy
  <2>2. QED
    BY <2>1 DEF KeepsAnswer
<1>6. /\ c.retry # "future" /\ c.attempts <= tried[n]
      /\ c.attempts \in Nat /\ tried[n] \in Nat /\ MaxAttempts \in Nat
  BY <1>1, <1>2, NoticeAssumption DEF NoticeInv, NoticeTypes, NoticeRows, SenderOK
<1>7. (answer = "ok" => got[n] # "no") /\ (answer = "client error" => refused[n])
  BY <1>1, <1>2 DEF NoticeInv, SenderOK
<1>8. UNCHANGED <<deadline, tick, batch, prompt, tried, got, refused>> /\ Ends(s)
  BY DEF SaveAttempt
<1>9. CASE rows' = [rows EXCEPT ![n] = row]
  <2>1. rows'[n] = row
    BY <1>2, <1>9 DEF NoticeInv, NoticeTypes
  <2>2. NoticeRowOK(n)
    BY <1>2 DEF NoticeInv
  <2>3. row.status = "failed_permanently" => refused[n] \/ tried[n] >= MaxAttempts
    <3>1. c.attempts >= MaxAttempts => tried[n] >= MaxAttempts
      BY <1>6
    <3>2. QED
      BY <1>5, <1>7, <3>1, Zenon
  <2>4. got[n] \in {"no", "late", "in time"}
    BY <1>2 DEF NoticeInv, NoticeTypes
  <2>5. NoticeRowOK(n)'
    BY <1>4, <1>5, <1>6, <1>8, <1>7, <2>1, <2>2, <2>3, <2>4 DEF NoticeRowOK
  <2>6. prompt => tried[n] <= row.attempts
    <3>1. prompt => rows[n] = c /\ tried[n] <= rows[n].attempts
      BY <1>1, <1>2 DEF NoticeInv, CopiesAreRows, Counted
    <3>2. QED
      BY <1>5, <3>1
  <2>7. row.attempts <= tried[n] /\ row.status # "none"
    BY <1>5, <1>6
  <2>8. QED
    BY <1>1, <1>2, <1>5, <1>8, <1>9, <2>5, <2>6, <2>7, SavingKeeps DEF Ends
<1>10. CASE UNCHANGED rows
  BY <1>8, <1>10, EndKeeps
<1>11. QED
  BY <1>4, <1>9, <1>10 DEF SaveAttempt

(* A request: the regulator may have received it, or refused it. *)
LEMMA PostKeeps ==
  ASSUME NoticeInv, NEW s \in Senders, Post(s)
  PROVE  NoticeInv'
<1> PICK n, c : n = senders[s].id /\ c = senders[s].copy
  OBVIOUS
<1>1. Busy(s) /\ senders[s].step = "post"
  BY DEF Post, Busy
<1>2. senders[s] \in SendStates /\ n \in Notices /\ c \in NoticeRows
  BY <1>1, SenderTypes DEF NoticeInv
<1>3. PICK answer \in Answers :
        /\ senders' = [senders EXCEPT
                         ![s] = [step |-> "save", id |-> n, copy |-> c, answer |-> answer]]
        /\ answer = "ok" => Receive(n)
        /\ got' = got \/ Receive(n)
        /\ refused' = [refused EXCEPT ![n] = @ \/ answer = "client error"]
  BY DEF Post, Answers
<1>4. /\ tried' = [tried EXCEPT ![n] = @ + 1]
      /\ UNCHANGED <<rows, deadline, tick, batch, prompt>>
  BY DEF Post, processVars
<1>5. /\ senders'[s] = [step |-> "save", id |-> n, copy |-> c, answer |-> answer]
      /\ \A t \in Senders : t # s => senders'[t] = senders[t]
      /\ Busy(s)'
  BY <1>3 DEF NoticeInv, NoticeTypes, Busy
<1>6. /\ tried'[n] = tried[n] + 1
      /\ \A m \in Notices : m # n => tried'[m] = tried[m]
      /\ \A m \in Notices : tried[m] \in Nat /\ tried'[m] \in Nat
      /\ tried' \in [Notices -> Nat]
  <2>1. tried \in [Notices -> Nat]
    BY DEF NoticeInv, NoticeTypes
  <2>2. tried' \in [Notices -> Nat]
    BY <1>2, <1>4, <2>1
  <2>3. QED
    BY <1>2, <1>4, <2>1, <2>2
<1>7. \A m \in Notices : tried[m] <= tried'[m]
  BY <1>6
<1>8. /\ \A m \in Notices : got[m] # "no" => got'[m] = got[m]
      /\ \A m \in Notices :
           got'[m] = got[m] \/ got'[m] = (IF deadline[m] = "passed" THEN "late" ELSE "in time")
      /\ answer = "ok" => got'[n] # "no"
      /\ got' \in [Notices -> {"no", "late", "in time"}]
  BY <1>2, <1>3 DEF Receive, NoticeInv, NoticeTypes
<1>9. /\ refused' \in [Notices -> BOOLEAN]
      /\ \A m \in Notices : refused[m] => refused'[m]
      /\ answer = "client error" => refused'[n]
  BY <1>2, <1>3 DEF NoticeInv, NoticeTypes
<1>10. NoticeTypes'
  <2>1. senders' \in [Senders -> {Idle} \cup SendStates \cup SaveStates]
    <3>1. [step |-> "save", id |-> n, copy |-> c, answer |-> answer] \in SaveStates
      BY <1>2 DEF SaveStates
    <3>2. QED
      BY <1>3, <3>1 DEF NoticeInv, NoticeTypes
  <2>2. QED
    BY <1>4, <1>6, <1>8, <1>9, <2>1 DEF NoticeInv, NoticeTypes
<1>11. \A m \in Notices : rows[m].attempts \in Nat /\ MaxAttempts \in Nat
  BY NoticeAssumption DEF NoticeInv, NoticeTypes, NoticeRows
<1>12. ASSUME NEW m \in Notices PROVE NoticeRowOK(m)'
  <2>1. NoticeRowOK(m)
    BY DEF NoticeInv
  <2>2. tried[m] >= MaxAttempts => tried'[m] >= MaxAttempts
    BY <1>6, <1>7, <1>11
  <2>3. rows[m].attempts <= tried[m] => rows[m].attempts <= tried'[m]
    BY <1>6, <1>7, <1>11
  <2>4. got'[m] = "late" => deadline[m] = "passed"
    BY <1>8, <2>1 DEF NoticeRowOK
  <2>5. UNCHANGED <<rows, deadline>> /\ (refused[m] => refused'[m])
        /\ (got[m] # "no" => got'[m] = got[m])
    BY <1>4, <1>8, <1>9
  <2>6. QED
    BY <2>1, <2>2, <2>3, <2>4, <2>5, Zenon DEF NoticeRowOK
<1>13. ASSUME NEW t \in Senders PROVE SenderOK(t)'
  <2>1. SenderOK(t)
    BY DEF NoticeInv
  <2>2. CASE t = s
    <3>1. c.attempts <= tried[n] + 1 /\ c.attempts \in Nat
      BY <1>1, <1>2, <2>1, <2>2 DEF SenderOK, NoticeRows
    <3>2. c.attempts <= tried'[n]
      BY <1>2, <1>6, <3>1
    <3>3. c.status = "sending" /\ c.retry # "future" /\ rows[n].status # "none"
          /\ (s \in Notices => n = s)
      BY <1>1, <2>1, <2>2 DEF SenderOK
    <3>4. /\ senders'[t].step = "save" /\ senders'[t].id = n /\ senders'[t].copy = c
          /\ senders'[t].answer = answer /\ rows' = rows
      BY <1>4, <1>5, <2>2
    <3>5. QED
      BY <1>8, <1>9, <2>2, <3>2, <3>3, <3>4 DEF SenderOK
  <2>3. CASE t # s
    <3>1. senders'[t] = senders[t] /\ (Busy(t)' <=> Busy(t))
      BY <1>5, <2>3 DEF Busy
    <3>2. ASSUME Busy(t)
          PROVE  /\ senders[t].id \in Notices /\ senders[t].copy.attempts \in Nat
                 /\ tried[senders[t].id] \in Nat /\ tried'[senders[t].id] \in Nat
                 /\ tried[senders[t].id] <= tried'[senders[t].id]
      BY <1>6, <1>7, <3>2, SenderTypes DEF NoticeInv, NoticeRows
    <3>3. Busy(t) /\ senders[t].copy.attempts <= tried[senders[t].id] =>
            senders[t].copy.attempts <= tried'[senders[t].id]
      BY <3>2
    <3>4. Busy(t) /\ senders[t].copy.attempts <= tried[senders[t].id] + 1 =>
            senders[t].copy.attempts <= tried'[senders[t].id] + 1
      BY <3>2
    <3>5. Busy(t) => /\ got[senders[t].id] # "no" => got'[senders[t].id] # "no"
                     /\ refused[senders[t].id] => refused'[senders[t].id]
      BY <1>8, <1>9, <3>2
    <3>6. QED
      BY <1>4, <2>1, <3>1, <3>3, <3>4, <3>5, Zenon DEF SenderOK
  <2>4. QED
    BY <2>2, <2>3
<1>14. BatchOK'
  <2>1. Worker \in Senders /\ (senders[Worker] = Idle => s # Worker)
    BY <1>1 DEF Senders, Busy, Idle
  <2>2. \A b \in batch : /\ b.id \in Notices /\ b.copy.attempts \in Nat
                         /\ b.copy.attempts <= tried[b.id]
    BY DEF NoticeInv, NoticeTypes, BatchOK, Copies, NoticeRows
  <2>3. \A b \in batch : b.copy.attempts <= tried'[b.id]
    BY <1>6, <1>7, <2>2
  <2>4. QED
    BY <1>4, <1>5, <2>1, <2>3 DEF NoticeInv, BatchOK
<1>15. ASSUME prompt PROVE CopiesAreRows' /\ Counted'
  <2>1. CopiesAreRows /\ Counted
    BY <1>15 DEF NoticeInv
  <2>2. /\ \A t \in Senders : (Busy(t)' <=> Busy(t)) /\ senders'[t].id = senders[t].id
        /\ \A t \in Senders : senders'[t].copy = senders[t].copy
    BY <1>1, <1>5 DEF Busy
  <2>3. CopiesAreRows'
    BY <1>4, <2>1, <2>2 DEF CopiesAreRows
  <2>4. rows[n] = c /\ tried[n] < c.attempts /\ c.attempts \in Nat
    BY <1>1, <1>2, <2>1 DEF CopiesAreRows, Counted, NoticeRows
  <2>5. \A m \in Notices : tried'[m] <= rows[m].attempts
    BY <1>2, <1>6, <2>1, <2>4 DEF Counted
  <2>6. ASSUME NEW t \in Senders, senders'[t].step = "post"
        PROVE  tried'[senders'[t].id] < senders'[t].copy.attempts
    <3>1. t # s /\ senders'[t] = senders[t] /\ Busy(t)
      BY <1>5, <2>6 DEF Busy
    <3>2. senders[t].id # n /\ senders[t].id \in Notices
      BY <1>1, <2>1, <3>1, SenderTypes DEF CopiesAreRows, NoticeInv
    <3>3. QED
      BY <1>6, <2>1, <2>6, <3>1, <3>2 DEF Counted
  <2>7. QED
    BY <1>4, <2>3, <2>5, <2>6 DEF Counted
<1>16. QED
  BY <1>4, <1>10, <1>12, <1>13, <1>14, <1>15 DEF NoticeInv

-----------------------------------------------------------------------------
(* Senders that start.  Each one of S takes up the notice of[s], which no   *)
(* copy is about when the process is prompt.                                *)
LEMMA StartingKeeps ==
  ASSUME NoticeInv, NEW S \in SUBSET Senders, NEW of \in [S -> Notices], NEW copy \in [S -> NoticeRows],
         \A s \in S : ~Busy(s),
         senders' = [s \in Senders |->
                       IF s \in S THEN [step |-> "mark", id |-> of[s], copy |-> copy[s]]
                                  ELSE senders[s]],
         batch' \subseteq batch,
         tick' \in {"waiting", "retrying", "sweeping"},
         tick' # "retrying" => batch' = {} /\ Worker \notin S /\ senders[Worker] = Idle,
         UNCHANGED <<rows, deadline, prompt, tried, got, refused>>,
         \A s \in S : /\ rows[of[s]].status # "none"
                      /\ s \in Notices => of[s] = s
                      /\ copy[s].retry # "future" /\ copy[s].status \in Unsettled
                      /\ s # Worker => copy[s].status = "pending"
                      /\ copy[s].attempts <= tried[of[s]],
         prompt => /\ \A s \in S : rows[of[s]] = copy[s]
                   /\ \A s, t \in S : of[s] = of[t] => s = t
                   /\ \A s \in S, t \in Senders : Busy(t) => senders[t].id # of[s]
                   /\ \A s \in S, b \in batch' : b.id # of[s]
  PROVE  NoticeInv'
<1>1. /\ \A s \in S : /\ senders'[s] = [step |-> "mark", id |-> of[s], copy |-> copy[s]]
                       /\ Busy(s)' /\ senders'[s].step = "mark"
                       /\ senders'[s].id = of[s] /\ senders'[s].copy = copy[s]
      /\ \A s \in Senders : s \notin S => senders'[s] = senders[s] /\ (Busy(s)' <=> Busy(s))
  BY DEF Busy
<1>2. NoticeTypes'
  <2>1. ASSUME NEW s \in Senders PROVE senders'[s] \in {Idle} \cup SendStates \cup SaveStates
    <3>1. CASE s \in S
      <4>1. of[s] \in Notices /\ copy[s] \in NoticeRows
        BY <3>1
      <4>2. QED
        BY <1>1, <3>1, <4>1 DEF SendStates
    <3>2. CASE s \notin S
      BY <1>1, <3>2, ZenonT(60) DEF NoticeInv, NoticeTypes
    <3>3. QED
      BY <3>1, <3>2
  <2>2. senders' \in [Senders -> {Idle} \cup SendStates \cup SaveStates]
    BY <2>1
  <2>3. QED
    BY <2>2 DEF NoticeInv, NoticeTypes
<1>3. ASSUME NEW m \in Notices PROVE NoticeRowOK(m)'
  <2>1. NoticeRowOK(m)
    BY DEF NoticeInv
  <2>2. UNCHANGED <<rows, deadline, tried, got, refused>>
    OBVIOUS
  <2>3. QED
    BY <2>1, <2>2, Zenon DEF NoticeRowOK
<1>4. ASSUME NEW s \in Senders PROVE SenderOK(s)'
  <2>1. SenderOK(s)
    BY DEF NoticeInv
  <2>2. CASE s \in S
    BY <1>1, <2>2 DEF SenderOK
  <2>3. CASE s \notin S
    BY <1>1, <2>1, <2>3 DEF SenderOK
  <2>4. QED
    BY <2>2, <2>3
<1>5. BatchOK'
  <2>1. tick' # "retrying" => senders'[Worker] = Idle
    BY <1>1 DEF Senders
  <2>2. QED
    BY <2>1 DEF NoticeInv, BatchOK
<1>6. ASSUME prompt PROVE CopiesAreRows' /\ Counted'
  <2>1. CopiesAreRows /\ Counted
    BY <1>6 DEF NoticeInv
  <2>2. /\ \A s \in S : rows[of[s]] = copy[s]
        /\ \A s, t \in S : of[s] = of[t] => s = t
        /\ \A s \in S, t \in Senders : Busy(t) => senders[t].id # of[s]
        /\ \A s \in S, b \in batch' : b.id # of[s]
    BY <1>6
  <2>3. \A s \in Senders : Busy(s)' => rows'[senders'[s].id] = senders'[s].copy
    BY <1>1, <2>1, <2>2 DEF CopiesAreRows
  <2>4. \A s, t \in Senders : Busy(s)' /\ Busy(t)' /\ senders'[s].id = senders'[t].id => s = t
    BY <1>1, <2>1, <2>2 DEF CopiesAreRows
  <2>5. \A b \in batch', s \in Senders : Busy(s)' => senders'[s].id # b.id
    BY <1>1, <2>1, <2>2 DEF CopiesAreRows
  <2>6. CopiesAreRows'
    BY <2>1, <2>3, <2>4, <2>5 DEF CopiesAreRows
  <2>7. \A s \in Senders : senders'[s].step = "post" => s \notin S /\ senders'[s] = senders[s]
    BY <1>1
  <2>8. QED
    BY <2>1, <2>6, <2>7 DEF Counted
<1>7. QED
  BY <1>2, <1>3, <1>4, <1>5, <1>6 DEF NoticeInv

-----------------------------------------------------------------------------
(* The worker. *)

LEMMA RetryKeeps ==
  ASSUME NoticeInv, Retry
  PROVE  NoticeInv'
<1>1. PICK b \in batch :
        /\ batch' = batch \ {b}
        /\ senders' = IF NeedsRetry(b.copy)
                        THEN [senders EXCEPT
                                ![Worker] = [step |-> "mark", id |-> b.id, copy |-> b.copy]]
                        ELSE senders
  BY DEF Retry
<1>2. /\ tick = "retrying" /\ senders[Worker] = Idle
      /\ UNCHANGED <<rows, deadline, tick, prompt, tried, got, refused>>
  BY DEF Retry
<1>3. Worker \in Senders /\ Worker \notin Notices /\ ~Busy(Worker)
  BY <1>2, NoticeAssumption DEF Senders, Busy, Idle
<1>4. CASE NeedsRetry(b.copy)
  <2>1. PICK n, row : n = b.id /\ row = b.copy /\ n \in Notices /\ row \in NoticeRows
    BY DEF NoticeInv, NoticeTypes, Copies
  <2>2. /\ rows[n].status # "none" /\ row.retry = "due" /\ row.status \in Unsettled
        /\ row.attempts <= tried[n]
    BY <2>1 DEF NoticeInv, BatchOK, CanRetry, Unsettled
  <2>3. PICK of, copy : of = [s \in {Worker} |-> n] /\ copy = [s \in {Worker} |-> row]
    OBVIOUS
  <2>4. senders' = [s \in Senders |->
                      IF s \in {Worker} THEN [step |-> "mark", id |-> of[s], copy |-> copy[s]]
                                        ELSE senders[s]]
    BY <1>1, <1>3, <1>4, <2>1, <2>3 DEF NoticeInv, NoticeTypes
  <2>5. ASSUME prompt
        PROVE  /\ rows[n] = row
               /\ \A t \in Senders : Busy(t) => senders[t].id # n
               /\ \A d \in batch' : d.id # n
    <3>1. CopiesAreRows
      BY <2>5 DEF NoticeInv
    <3>2. ASSUME NEW d \in batch, d.id = n PROVE d = b
      <4>1. d \in Copies /\ b \in Copies
        BY DEF NoticeInv, NoticeTypes
      <4>2. d.copy = b.copy /\ d.id = b.id
        BY <2>1, <3>1, <3>2 DEF CopiesAreRows
      <4>3. QED
        BY <4>1, <4>2 DEF Copies
    <3>3. QED
      BY <1>1, <2>1, <3>1, <3>2 DEF CopiesAreRows
  <2>6. /\ of \in [{Worker} -> Notices] /\ copy \in [{Worker} -> NoticeRows]
        /\ of[Worker] = n /\ copy[Worker] = row /\ {Worker} \in SUBSET Senders
    BY <1>3, <2>1, <2>3
  <2>7. batch' \subseteq batch
    BY <1>1
  <2>8. tick' = "retrying"
    BY <1>2
  <2>9. QED
    BY <1>2, <1>3, <2>2, <2>4, <2>5, <2>6, <2>7, <2>8, StartingKeeps
<1>5. CASE ~NeedsRetry(b.copy)
  BY <1>1, <1>2, <1>5, EndingKeeps DEF NoticeInv, NoticeTypes
<1>6. QED
  BY <1>4, <1>5

LEMMA TickKeeps ==
  ASSUME NoticeInv, Tick
  PROVE  NoticeInv'
<1>1. /\ tick = "waiting" /\ batch = {} /\ senders[Worker] = Idle
      /\ UNCHANGED <<rows, deadline, senders, prompt, tried, got, refused>>
  BY DEF Tick, NoticeInv, BatchOK
<1>2. CASE tick' = "sweeping" /\ UNCHANGED batch
  BY <1>1, <1>2, EndingKeeps DEF NoticeInv, NoticeTypes
<1>3. ASSUME NEW taken \in Limited(FindRetryable), tick' = "retrying",
             batch' = {[id |-> n, copy |-> rows[n]] : n \in taken}
      PROVE  NoticeInv'
  <2>1. taken \subseteq FindRetryable
    BY <1>3 DEF Limited, kSubset
  <2>2. \A n \in taken : n \in Notices /\ CanRetry(rows[n]) /\ rows[n].retry = "due"
    BY <2>1 DEF FindRetryable
  <2>3. ASSUME NEW b \in batch'
        PROVE  b.id \in taken /\ b.copy = rows[b.id] /\ b \in Copies
    <3>1. PICK n \in taken : b = [id |-> n, copy |-> rows[n]]
      BY <1>3
    <3>2. n \in Notices /\ rows[n] \in NoticeRows
      BY <2>2 DEF NoticeInv, NoticeTypes
    <3>3. QED
      BY <3>1, <3>2 DEF Copies
  <2>4. NoticeTypes'
    BY <1>1, <1>3, <2>3 DEF NoticeInv, NoticeTypes
  <2>5. \A m \in Notices : NoticeRowOK(m)'
    BY <1>1 DEF NoticeInv, NoticeRowOK
  <2>6. \A s \in Senders : SenderOK(s)'
    BY <1>1 DEF NoticeInv, SenderOK, Busy
  <2>7. BatchOK'
    <3>1. ASSUME NEW b \in batch'
          PROVE  rows[b.id].status # "none" /\ b.copy.attempts <= tried[b.id]
      <4>1. NoticeRowOK(b.id) /\ b.copy = rows[b.id] /\ CanRetry(rows[b.id])
        BY <2>2, <2>3, <3>1 DEF NoticeInv
      <4>2. QED
        BY <4>1 DEF NoticeRowOK, CanRetry, Unsettled
    <3>2. QED
      BY <1>1, <1>3, <2>2, <2>3, <3>1 DEF BatchOK
  <2>8. ASSUME prompt PROVE CopiesAreRows' /\ Counted'
    <3>1. CopiesAreRows /\ Counted
      BY <2>8 DEF NoticeInv
    <3>2. ASSUME NEW b \in batch', NEW s \in Senders, Busy(s) PROVE senders[s].id # b.id
      <4>1. s # Worker
        BY <1>1, <3>2 DEF Busy, Idle
      <4>2. rows[senders[s].id] = senders[s].copy /\ senders[s].copy.status \in {"pending", "sending"}
        BY <3>1, <3>2, <4>1 DEF CopiesAreRows, NoticeInv, SenderOK
      <4>3. rows[b.id].status \in {"failed", "retrying"}
        BY <2>2, <2>3, <3>2 DEF CanRetry
      <4>4. QED
        BY <4>2, <4>3
    <3>3. CopiesAreRows'
      BY <1>1, <2>3, <3>1, <3>2 DEF CopiesAreRows, Busy
    <3>4. QED
      BY <1>1, <3>1, <3>3 DEF Counted
  <2>9. QED
    BY <1>1, <2>4, <2>5, <2>6, <2>7, <2>8 DEF NoticeInv
<1>4. QED
  BY <1>2, <1>3 DEF Tick

(* As many goroutines as there are rows can be found among the free ones. *)
LEMMA FreeEnough ==
  ASSUME NEW S, NEW T, IsFiniteSet(S), IsFiniteSet(T), Cardinality(S) <= Cardinality(T)
  PROVE  Injection(S, T) # {}
<1> DEFINE m == Cardinality(S)
           n == Cardinality(T)
<1>1. m \in Nat /\ n \in Nat /\ Bijection(1..m, S) # {} /\ Bijection(1..n, T) # {}
  BY FS_CardinalityType DEF ExistsBijection
<1>2. PICK f \in Bijection(1..m, S), g \in Bijection(1..n, T) : TRUE
  BY <1>1
<1>3. /\ f \in [1..m -> S] /\ \A x \in S : \E i \in 1..m : f[i] = x
      /\ g \in [1..n -> T] /\ \A i, j \in 1..n : g[i] = g[j] => i = j
  BY <1>2 DEF Bijection, Injection, Surjection, IsInjective
<1>4. PICK number : number = [x \in S |-> CHOOSE i \in 1..m : f[i] = x]
  OBVIOUS
<1>5. \A x \in S : number[x] \in 1..m /\ f[number[x]] = x
  BY <1>3, <1>4
<1>6. 1..m \subseteq 1..n
  BY <1>1
<1>7. PICK h : h = [x \in S |-> g[number[x]]]
  OBVIOUS
<1>8. h \in [S -> T]
  BY <1>3, <1>5, <1>6, <1>7
<1>9. \A x, y \in S : h[x] = h[y] => x = y
  BY <1>3, <1>5, <1>6, <1>7
<1>10. h \in Injection(S, T)
  BY <1>8, <1>9 DEF Injection, IsInjective
<1>11. QED
  BY <1>10

(* What a tick hands to the goroutines it starts. *)
LEMMA HandsOut ==
  ASSUME NEW S, NEW T, NEW go \in Injection(S, T)
  PROVE  /\ Range(go) \subseteq T
         /\ \A t \in Range(go) : Inverse(go, S, T)[t] \in S
         /\ \A t, u \in Range(go) : Inverse(go, S, T)[t] = Inverse(go, S, T)[u] => t = u
<1>1. go \in [S -> T]
  BY DEF Injection
<1>2. Range(go) \subseteq T /\ \A t \in Range(go) : \E s \in S : go[s] = t
  BY <1>1 DEF Range
<1>3. \A t \in Range(go) : Inverse(go, S, T)[t] \in S /\ go[Inverse(go, S, T)[t]] = t
  BY <1>2 DEF Inverse
<1>4. QED
  BY <1>2, <1>3

LEMMA SweepKeeps ==
  ASSUME NoticeInv, Sweep
  PROVE  NoticeInv'
<1>1. /\ tick = "sweeping" /\ tick' = "waiting" /\ batch = {} /\ senders[Worker] = Idle
      /\ UNCHANGED <<rows, deadline, batch, prompt, tried, got, refused>>
  BY DEF Sweep, NoticeInv, BatchOK
<1>2. CASE UNCHANGED senders
  BY <1>1, <1>2, EndingKeeps DEF NoticeInv, NoticeTypes
<1>3. PICK free : free = {s \in Sweepers : senders[s] = Idle}
  OBVIOUS
<1>4. ASSUME NEW taken \in Limited(FindApproachingDeadline),
             Cardinality(taken) <= Cardinality(free),
             NEW row, row = CHOOSE f \in Injection(taken, free) : TRUE,
             senders' = [s \in Senders |->
               IF s \in Range(row)
                 THEN LET n == Inverse(row, taken, free)[s]
                      IN [step |-> "mark", id |-> n, copy |-> rows[n]]
                 ELSE senders[s]]
      PROVE  NoticeInv'
  <2>1. taken \subseteq FindApproachingDeadline /\ taken \subseteq Notices /\ free \subseteq Sweepers
    BY <1>3, <1>4 DEF Limited, kSubset, FindApproachingDeadline
  <2>2. IsFiniteSet(taken) /\ IsFiniteSet(free)
    BY <2>1, FS_Subset, NoticeAssumption
  <2>3. PICK of, S : S = Range(row) /\ of = [s \in S |-> Inverse(row, taken, free)[s]]
    OBVIOUS
  <2>4. /\ S \subseteq free /\ of \in [S -> taken]
        /\ \A s, t \in S : of[s] = of[t] => s = t
    <3>1. /\ Range(row) \subseteq free
          /\ \A t \in Range(row) : Inverse(row, taken, free)[t] \in taken
          /\ \A t, u \in Range(row) :
               Inverse(row, taken, free)[t] = Inverse(row, taken, free)[u] => t = u
      <4>1. Injection(taken, free) # {}
        BY <1>4, <2>2, FreeEnough
      <4>2. row \in Injection(taken, free)
        BY <1>4, <4>1, Zenon
      <4>3. QED
        BY <4>2, HandsOut
    <3>2. QED
      BY <2>3, <3>1
  <2>5. PICK copy : copy = [s \in S |-> rows[of[s]]]
    OBVIOUS
  <2>6. senders' = [s \in Senders |->
                      IF s \in S THEN [step |-> "mark", id |-> of[s], copy |-> copy[s]]
                                ELSE senders[s]]
    BY <1>4, <2>3, <2>5
  <2>7. \A s \in S : /\ s \in Sweepers /\ s \notin Notices /\ s # Worker /\ s \in Senders
                     /\ ~Busy(s)
    BY <1>3, <2>1, <2>4, NoticeAssumption DEF Busy, Idle, Senders
  <2>8. \A s \in S : /\ of[s] \in taken /\ of[s] \in Notices /\ copy[s] = rows[of[s]]
                     /\ rows[of[s]] \in NoticeRows
                     /\ rows[of[s]].status = "pending" /\ NoticeRowOK(of[s])
    BY <2>1, <2>4, <2>5 DEF NoticeInv, NoticeTypes, FindApproachingDeadline
  <2>9. \A s \in S : /\ copy[s].retry # "future" /\ copy[s].attempts <= tried[of[s]]
                     /\ copy[s].status = "pending" /\ copy[s].status \in Unsettled
    BY <2>8 DEF NoticeRowOK, Unsettled
  <2>10. ASSUME prompt, NEW s \in S, NEW t \in Senders, Busy(t) PROVE senders[t].id # of[s]
    <3>1. /\ rows[senders[t].id] = senders[t].copy /\ SenderOK(t)
      BY <2>10 DEF NoticeInv, CopiesAreRows
    <3>2. senders[t].step # "mark" => senders[t].copy.status = "sending"
      BY <2>10, <3>1 DEF SenderOK
    <3>3. senders[t].step = "mark" => senders[t].id \in Unmarked
      BY DEF Unmarked
    <3>4. of[s] \notin Unmarked
      BY <2>1, <2>8, <2>10 DEF Sweep
    <3>5. QED
      BY <2>8, <2>10, <3>1, <3>2, <3>3, <3>4
  <2>11. S \in SUBSET Senders /\ of \in [S -> Notices] /\ copy \in [S -> NoticeRows]
    BY <2>4, <2>5, <2>7, <2>8
  <2>12. batch' = {} /\ Worker \notin S
    BY <1>1, <2>7
  <2>13. QED
    BY <1>1, <2>4, <2>6, <2>7, <2>8, <2>9, <2>10, <2>11, <2>12, StartingKeeps
<1>5. CASE ~UNCHANGED senders
  <2>1. PICK taken \in Limited(FindApproachingDeadline) :
          /\ Cardinality(taken) <= Cardinality(free)
          /\ LET row == CHOOSE f \in Injection(taken, free) : TRUE IN
             senders' = [s \in Senders |->
               IF s \in Range(row)
                 THEN LET n == Inverse(row, taken, free)[s]
                      IN [step |-> "mark", id |-> n, copy |-> rows[n]]
                 ELSE senders[s]]
    BY <1>3, <1>5, ZenonT(60) DEF Sweep
  <2>2. PICK row : row = CHOOSE f \in Injection(taken, free) : TRUE
    OBVIOUS
  <2>3. QED
    BY <1>4, <2>1, <2>2
<1>6. QED
  BY <1>2, <1>5

-----------------------------------------------------------------------------
(* A row is inserted, and its first sender started. *)
LEMMA NotifyKeeps ==
  ASSUME NoticeInv, NEW n \in Notices, Notify(n)
  PROVE  NoticeInv'
<1>1. /\ rows[n] = NoNotice /\ rows' = [rows EXCEPT ![n] = NewNotice]
      /\ senders' = [senders EXCEPT ![n] = [step |-> "mark", id |-> n, copy |-> rows'[n]]]
      /\ UNCHANGED <<deadline, tick, batch, prompt, tried, got, refused>>
  BY DEF Notify, Sending, processVars
<1>2. PICK row : row = NewNotice
  OBVIOUS
<1>3. /\ row \in NoticeRows /\ row.status = "pending" /\ row.attempts = 0 /\ row.retry = "none"
  BY <1>2 DEF NewNotice, NoNotice, NoticeRows, NoticeStatuses
<1>4. n \in Senders /\ n # Worker /\ Worker \in Senders
  BY NoticeAssumption DEF Senders
<1>5. /\ rows'[n] = row /\ \A m \in Notices : m # n => rows'[m] = rows[m]
      /\ rows' \in [Notices -> NoticeRows]
  BY <1>1, <1>2, <1>3 DEF NoticeInv, NoticeTypes
<1>6. /\ senders'[n] = [step |-> "mark", id |-> n, copy |-> row] /\ Busy(n)'
      /\ \A t \in Senders : t # n => senders'[t] = senders[t] /\ (Busy(t)' <=> Busy(t))
  BY <1>1, <1>4, <1>5 DEF NoticeInv, NoticeTypes, Busy
<1>7. rows[n].status = "none"
  BY <1>1 DEF NoNotice
<1>8. \A m \in Notices : tried[m] \in Nat
  BY DEF NoticeInv, NoticeTypes
<1>9. ASSUME NEW t \in Senders, Busy(t) PROVE senders[t].id \in Notices /\ senders[t].id # n
  <2>1. SenderOK(t) /\ senders[t].id \in Notices
    BY <1>9, SenderTypes DEF NoticeInv
  <2>2. QED
    BY <1>7, <1>9, <2>1 DEF SenderOK
<1>10. NoticeTypes'
  <2>1. senders'[n] \in SendStates
    BY <1>3, <1>6 DEF SendStates
  <2>2. senders' \in [Senders -> {Idle} \cup SendStates \cup SaveStates]
    BY <1>1, <1>6, <2>1 DEF NoticeInv, NoticeTypes
  <2>3. QED
    BY <1>1, <1>5, <2>2 DEF NoticeInv, NoticeTypes
<1>11. ASSUME NEW m \in Notices PROVE NoticeRowOK(m)'
  <2>1. NoticeRowOK(m)
    BY DEF NoticeInv
  <2>2. CASE m = n
    <3>1. /\ rows'[m] = row /\ UNCHANGED <<deadline, got>> /\ tried'[m] \in Nat
          /\ got[m] = "late" => deadline[m] = "passed"
      BY <1>1, <1>5, <1>8, <2>1, <2>2 DEF NoticeRowOK
    <3>2. rows'[m].attempts <= tried'[m]
      BY <1>3, <3>1
    <3>3. QED
      BY <1>3, <3>1, <3>2 DEF NoticeRowOK
  <2>3. CASE m # n
    <3>1. rows'[m] = rows[m]
      BY <1>5, <2>3
    <3>2. QED
      BY <1>1, <2>1, <3>1, Zenon DEF NoticeRowOK
  <2>4. QED
    BY <2>2, <2>3
<1>12. ASSUME NEW t \in Senders PROVE SenderOK(t)'
  <2>1. SenderOK(t)
    BY DEF NoticeInv
  <2>2. CASE t = n
    <3>1. /\ senders'[t].step = "mark" /\ senders'[t].id = n /\ senders'[t].copy = row
          /\ rows'[n] = row /\ tried'[n] \in Nat
      BY <1>1, <1>5, <1>6, <1>8, <2>2
    <3>2. row.attempts <= tried'[n]
      BY <1>3, <3>1
    <3>3. QED
      BY <1>3, <2>2, <3>1, <3>2 DEF SenderOK, Unsettled
  <2>3. CASE t # n
    <3>1. Busy(t) => senders[t].id \in Notices /\ senders[t].id # n
      BY <1>9
    <3>2. Busy(t) => rows'[senders[t].id] = rows[senders[t].id]
      BY <1>5, <3>1
    <3>3. UNCHANGED <<tried, got, refused>> /\ senders'[t] = senders[t] /\ (Busy(t)' <=> Busy(t))
      BY <1>1, <1>6, <2>3
    <3>4. QED
      BY <2>1, <3>2, <3>3, Zenon DEF SenderOK
  <2>4. QED
    BY <2>2, <2>3
<1>13. \A b \in batch : b.id \in Notices /\ b.id # n
  BY <1>7 DEF NoticeInv, NoticeTypes, BatchOK, Copies
<1>14. BatchOK'
  BY <1>1, <1>4, <1>5, <1>6, <1>13 DEF NoticeInv, BatchOK
<1>15. ASSUME prompt PROVE CopiesAreRows' /\ Counted'
  <2>1. CopiesAreRows /\ Counted
    BY <1>15 DEF NoticeInv
  <2>2. CopiesAreRows'
    <3>1. \A t \in Senders : Busy(t)' => rows'[senders'[t].id] = senders'[t].copy
      BY <1>5, <1>6, <2>1, <1>9 DEF CopiesAreRows
    <3>2. \A t, u \in Senders :
            Busy(t)' /\ Busy(u)' /\ senders'[t].id = senders'[u].id => t = u
      BY <1>6, <2>1, <1>9 DEF CopiesAreRows
    <3>3. \A b \in batch : rows'[b.id] = b.copy
      BY <1>5, <1>13, <2>1 DEF CopiesAreRows
    <3>4. \A b \in batch, t \in Senders : Busy(t)' => senders'[t].id # b.id
      BY <1>6, <1>13, <2>1 DEF CopiesAreRows
    <3>5. QED
      BY <1>1, <3>1, <3>2, <3>3, <3>4 DEF CopiesAreRows
  <2>3. tried[n] <= 0
    BY <1>1, <2>1 DEF Counted, NoNotice
  <2>4. \A m \in Notices : tried[m] <= rows'[m].attempts
    BY <1>3, <1>5, <2>1, <2>3 DEF Counted
  <2>5. \A t \in Senders : senders'[t].step = "post" => senders'[t] = senders[t]
    BY <1>6
  <2>6. QED
    BY <1>1, <2>1, <2>2, <2>4, <2>5 DEF Counted
<1>16. QED
  BY <1>1, <1>10, <1>11, <1>12, <1>14, <1>15 DEF NoticeInv

-----------------------------------------------------------------------------
(* Time. *)

LEMMA DeadlineKeeps ==
  ASSUME NoticeInv, NEW n \in Notices, DeadlineNears(n)
  PROVE  NoticeInv'
<1>1. /\ UNCHANGED <<rows, senders, tick, batch, prompt, tried, got, refused>>
      /\ \A m \in Notices : deadline[m] = "passed" => deadline'[m] = "passed"
      /\ deadline' \in [Notices -> {"early", "near", "passed"}]
  BY DEF DeadlineNears, processVars, NoticeInv, NoticeTypes
<1>2. NoticeTypes'
  BY <1>1 DEF NoticeInv, NoticeTypes
<1>3. ASSUME NEW m \in Notices PROVE NoticeRowOK(m)'
  <2>1. NoticeRowOK(m) /\ (deadline[m] = "passed" => deadline'[m] = "passed")
    BY <1>1 DEF NoticeInv
  <2>2. QED
    BY <1>1, <2>1, Zenon DEF NoticeRowOK
<1>4. ASSUME NEW s \in Senders PROVE SenderOK(s)'
  BY <1>1 DEF NoticeInv, SenderOK, Busy
<1>5. BatchOK'
  BY <1>1 DEF NoticeInv, BatchOK
<1>6. prompt => CopiesAreRows' /\ Counted'
  BY <1>1 DEF NoticeInv, CopiesAreRows, Counted, Busy
<1>7. QED
  BY <1>1, <1>2, <1>3, <1>4, <1>5, <1>6 DEF NoticeInv

LEMMA RetryComesDueKeeps ==
  ASSUME NoticeInv, NEW n \in Notices, RetryComesDue(n)
  PROVE  NoticeInv'
<1>1. /\ rows[n].retry = "future" /\ rows' = [rows EXCEPT ![n].retry = "due"]
      /\ UNCHANGED <<deadline, senders, tick, batch, prompt, tried, got, refused>>
  BY DEF RetryComesDue, processVars
<1>2. PICK row : row = [rows[n] EXCEPT !.retry = "due"]
  OBVIOUS
<1>3. /\ rows' \in [Notices -> NoticeRows] /\ rows'[n] = row
      /\ \A m \in Notices : m # n => rows'[m] = rows[m]
  <2>1. rows[n] \in NoticeRows
    BY DEF NoticeInv, NoticeTypes
  <2>2. row \in NoticeRows
    BY <1>2, <2>1 DEF NoticeRows
  <2>3. rows' = [rows EXCEPT ![n] = row]
    BY <1>1, <1>2
  <2>4. QED
    BY <2>2, <2>3 DEF NoticeInv, NoticeTypes
<1>4. /\ row.retry = "due" /\ row.status = rows[n].status
      /\ row.attempts = rows[n].attempts /\ row.inTime = rows[n].inTime
  <2>1. rows[n] \in NoticeRows
    BY DEF NoticeInv, NoticeTypes
  <2>2. QED
    BY <1>2, <2>1 DEF NoticeRows
<1>5. NoticeTypes'
  BY <1>1, <1>3 DEF NoticeInv, NoticeTypes
<1>6. rows[n].status = "retrying" /\ NoticeRowOK(n)
  BY <1>1 DEF NoticeInv, NoticeRowOK
<1>7. ASSUME NEW m \in Notices PROVE NoticeRowOK(m)'
  <2>1. NoticeRowOK(m)
    BY DEF NoticeInv
  <2>2. CASE m = n
    BY <1>1, <1>3, <1>4, <1>6, <2>2 DEF NoticeRowOK
  <2>3. CASE m # n
    <3>1. rows'[m] = rows[m]
      BY <1>3, <2>3
    <3>2. QED
      BY <1>1, <2>1, <3>1, Zenon DEF NoticeRowOK
  <2>4. QED
    BY <2>2, <2>3
<1>8. \A m \in Notices : rows'[m].status = rows[m].status
  BY <1>3, <1>4
<1>9. ASSUME NEW s \in Senders PROVE SenderOK(s)'
  <2>1. SenderOK(s) /\ (Busy(s) => senders[s].id \in Notices)
    BY SenderTypes DEF NoticeInv
  <2>2. UNCHANGED <<senders, tried, got, refused>> /\ (Busy(s)' <=> Busy(s))
    BY <1>1 DEF Busy
  <2>3. Busy(s) => rows'[senders[s].id].status = rows[senders[s].id].status
    BY <1>8, <2>1
  <2>4. QED
    BY <2>1, <2>2, <2>3, Zenon DEF SenderOK
<1>10. BatchOK'
  BY <1>1, <1>8, ZenonT(60) DEF NoticeInv, NoticeTypes, BatchOK, Copies
<1>11. ASSUME prompt PROVE CopiesAreRows' /\ Counted'
  <2>1. CopiesAreRows /\ Counted
    BY <1>11 DEF NoticeInv
  <2>2. ASSUME NEW s \in Senders, Busy(s) PROVE senders[s].id \in Notices /\ senders[s].id # n
    <3>1. SenderOK(s) /\ senders[s].id \in Notices /\ rows[senders[s].id] = senders[s].copy
      BY <2>1, <2>2, SenderTypes DEF NoticeInv, CopiesAreRows
    <3>2. senders[s].copy.retry # "future"
      BY <2>2, <3>1 DEF SenderOK
    <3>3. QED
      BY <1>1, <3>1, <3>2
  <2>3. \A b \in batch : b.id \in Notices /\ b.id # n
    BY <1>1, <2>1 DEF NoticeInv, NoticeTypes, BatchOK, Copies, CopiesAreRows
  <2>4. CopiesAreRows'
    BY <1>1, <1>3, <2>1, <2>2, <2>3 DEF CopiesAreRows, Busy
  <2>5. \A m \in Notices : tried[m] <= rows'[m].attempts
    BY <1>3, <1>4, <2>1 DEF Counted
  <2>6. QED
    BY <1>1, <2>1, <2>4, <2>5 DEF Counted
<1>12. QED
  BY <1>1, <1>5, <1>7, <1>9, <1>10, <1>11 DEF NoticeInv

-----------------------------------------------------------------------------
LEMMA NoticeInvStep == NoticeInv /\ NoticeStep => NoticeInv'
<1>1. ASSUME NoticeInv, NEW s \in Senders, SendWebhook(s) PROVE NoticeInv'
  BY <1>1, MarkKeeps, PostKeeps, SaveAttemptKeeps DEF SendWebhook
<1>2. NoticeInv /\ WorkerStep => NoticeInv'
  BY TickKeeps, RetryKeeps, RetriesDoneKeeps, SweepKeeps DEF WorkerStep
<1>3. NoticeInv /\ NoticeTime => NoticeInv'
  BY DeadlineKeeps, RetryComesDueKeeps DEF NoticeTime
<1>4. QED
  BY <1>1, <1>2, <1>3 DEF NoticeStep, SenderStep

(* What the invariant says of rows and requests. *)
LEMMA NoticeInvMeans ==
  NoticeInv => RequestsAreCounted /\ GivesUpOnlyForCause /\ SentWasReceived
<1> SUFFICES ASSUME NoticeInv
             PROVE  RequestsAreCounted /\ GivesUpOnlyForCause /\ SentWasReceived
  OBVIOUS
<1>1. RequestsAreCounted
  BY DEF NoticeInv, Counted, RequestsAreCounted
<1>2. GivesUpOnlyForCause /\ SentWasReceived
  BY DEF NoticeInv, NoticeRowOK, GivesUpOnlyForCause, SentWasReceived
<1>3. QED
  BY <1>1, <1>2

(* A settled row is written by no one: whoever could write it would have a  *)
(* copy of it, and copies are of rows that are still to be sent.            *)
LEMMA SettledStays ==
  ASSUME NoticeInv, prompt, NEW n \in Notices, Settled(n),
         NoticeStep \/ \E m \in Notices : Notify(m)
  PROVE  rows'[n] = rows[n]
<1>1. rows \in [Notices -> NoticeRows] /\ rows[n].status \in {"sent", "failed_permanently"}
  BY DEF NoticeInv, NoticeTypes, Settled
<1>2. ASSUME NEW m \in Notices, Notify(m) PROVE rows'[n] = rows[n]
  BY <1>1, <1>2 DEF Notify, NoNotice
<1>3. ASSUME NEW s \in Senders, SendWebhook(s) PROVE rows'[n] = rows[n]
  <2>1. Busy(s)
    BY <1>3 DEF SendWebhook, Mark, Post, SaveAttempt, Busy
  <2>2. SenderOK(s) /\ rows[senders[s].id] = senders[s].copy
    BY <2>1 DEF NoticeInv, CopiesAreRows
  <2>3. senders[s].copy.status \in Unsettled \cup {"sending"}
    BY <2>1, <2>2 DEF SenderOK
  <2>4. senders[s].id # n
    BY <1>1, <2>2, <2>3 DEF Unsettled
  <2>5. QED
    BY <1>1, <1>3, <2>4 DEF SendWebhook, Mark, Post, SaveAttempt
<1>4. WorkerStep => rows'[n] = rows[n]
  BY DEF WorkerStep, Tick, Retry, RetriesDone, Sweep
<1>5. ASSUME NEW m \in Notices, DeadlineNears(m) \/ RetryComesDue(m) PROVE rows'[n] = rows[n]
  <2>1. rows[n].retry # "future"
    BY <1>1 DEF NoticeInv, NoticeRowOK
  <2>2. QED
    BY <1>1, <1>5, <2>1 DEF DeadlineNears, RetryComesDue
<1>6. QED
  BY <1>2, <1>3, <1>4, <1>5 DEF NoticeStep, SenderStep, NoticeTime

-----------------------------------------------------------------------------

(* The processing queue. *)

GoSteps ==
  {"waiting", "fetch", "balance", "lock", "complete", "retry", "retrySave", "duplicate", "fail"}

GoStates == [step : GoSteps, id : Items, read : Nat]

ItemRows == [status : {"none", "pending", "completed", "failed"}, retries : Nat, due : BOOLEAN]

Transactions == [status : {"pending", "completed", "reversed", "failed"}, version : Nat]

QueueTypes ==
  /\ items \in [Items -> ItemRows]
  /\ txns \in [Items -> Transactions]
  /\ gos \in [Goroutines -> {Gone} \cup GoStates]
  /\ applied \in [Items -> Nat]
  /\ errors \in 0..MaxErrors

Active(g) == gos[g].step # "gone"

At(i, steps) == \E g \in Goroutines : gos[g].step \in steps /\ gos[g].id = i

(* An item whose transaction was brought where it was to go. *)
Reached(i) == txns[i].status = Goal(i) /\ applied[i] >= 1 /\ i \notin Duplicates

ItemOK(i) == items[i].status = "completed" => Reached(i)

(* What a goroutine has done to its item so far. *)
GoOK(g) ==
  LET i == gos[g].id IN
  /\ gos[g].step = "balance" => i \notin Duplicates
  /\ gos[g].step = "lock" => applied[i] >= 1 /\ i \notin Duplicates
  /\ gos[g].step = "complete" => Reached(i)
  /\ gos[g].step = "duplicate" => i \in Duplicates

(* When the process is prompt one goroutine at a time works on an item,     *)
(* and finds it, and its transaction, as it read them.                      *)
GoAlone(g) ==
  \A h \in Goroutines : Active(g) /\ Active(h) /\ gos[h].id = gos[g].id => h = g

GoReads(g) ==
  LET i == gos[g].id IN
  /\ Active(g) => items[i].status = "pending"
  /\ gos[g].step \in {"waiting", "retrySave"} => gos[g].read = items[i].retries
  /\ gos[g].step \in {"fetch", "balance", "lock", "retry", "retrySave"} =>
       items[i].retries < MaxRetries
  /\ gos[g].step \in {"balance", "lock"} =>
       txns[i].status = Start(i) /\ txns[i].version = gos[g].read

Used == MaxErrors - errors

(* What explains the times the balance was changed. *)
Explained(i) ==
  /\ items[i].retries <= MaxRetries
  /\ rejects =>
       \/ applied[i] <= Used + items[i].retries
       \/ applied[i] <= Used + items[i].retries + 1 /\ At(i, {"lock", "retry", "retrySave"})
  /\ ~rejects =>
       \/ applied[i] <= Used
       \/ applied[i] <= Used + 1 /\ (txns[i].status # Start(i) \/ At(i, {"lock"}))

QueueInv ==
  /\ QueueTypes
  /\ \A i \in Items : ItemOK(i)
  /\ \A g \in Goroutines : GoOK(g)
  /\ prompt => /\ \A g \in Goroutines : GoAlone(g) /\ GoReads(g)
               /\ \A i \in Items : Explained(i)

-----------------------------------------------------------------------------
(* The client of NorthWind. *)

Tokens == [number : Nat, fresh : BOOLEAN]

ClientTypes ==
  /\ token \in Tokens /\ issued \in Nat
  /\ calls \in [PartnerCalls ->
                [step : OpenSteps \cup {"idle", "done", "failed", "killed"}, held : Tokens,
                 attempt : Nat]]
  /\ usable \in [PartnerCalls -> SUBSET Nat]
  /\ carried \in [PartnerCalls -> SUBSET Nat]

(* Once a call has looked at the token, there is one, and it has been good  *)
(* since the call began; so was the one the call took.                      *)
CallOK(c) ==
  /\ calls[c].step = "store" => calls[c].held.number # 0
  /\ calls[c].step = "read" => token.number # 0 /\ token.number \in usable[c]
  /\ calls[c].step = "send" => calls[c].held.number # 0 /\ calls[c].held.number \in usable[c]
  /\ 0 \notin carried[c] /\ carried[c] \subseteq usable[c]

ClientInv ==
  /\ ClientTypes
  /\ enableAuth => \A c \in PartnerCalls : CallOK(c)

LEMMA ClientInvInit == ClientInit => ClientInv
<1> SUFFICES ASSUME ClientInit PROVE ClientInv
  OBVIOUS
<1>1. token \in Tokens /\ issued \in Nat
  <2>1. token \in {NoToken, [number |-> 1, fresh |-> TRUE]} /\ issued \in 0..1
    BY DEF ClientInit
  <2>2. NoToken \in Tokens /\ [number |-> 1, fresh |-> TRUE] \in Tokens
    BY DEF NoToken, Tokens
  <2>3. issued \in Nat
    BY <2>1
  <2>4. QED
    BY <2>1, <2>2, <2>3, Zenon
<1>2. calls \in [PartnerCalls ->
                  [step : OpenSteps \cup {"idle", "done", "failed", "killed"}, held : Tokens,
                   attempt : Nat]]
  BY DEF ClientInit, NoCall, NoToken, Tokens
<1>3. \A c \in PartnerCalls : calls[c].step = "idle" /\ usable[c] = {} /\ carried[c] = {}
  BY DEF ClientInit, NoCall
<1>4. ClientTypes
  BY <1>1, <1>2 DEF ClientInit, ClientTypes
<1>5. QED
  BY <1>3, <1>4 DEF ClientInv, CallOK

LEMMA ClientElsewhere ==
  ASSUME ClientInv, UNCHANGED clientTables
  PROVE  ClientInv'
BY DEF ClientInv, ClientTypes, CallOK, clientTables, clientHistory

(* The steps that move one call on and leave the token alone. *)
LEMMA CallMoves ==
  ASSUME ClientInv, NEW c \in PartnerCalls,
         NEW call \in [step : OpenSteps \cup {"idle", "done", "failed", "killed"}, held : Tokens,
                      attempt : Nat],
         calls' = [calls EXCEPT ![c] = call],
         UNCHANGED <<enableAuth, token>>, issued' \in Nat,
         usable' \in [PartnerCalls -> SUBSET Nat], carried' \in [PartnerCalls -> SUBSET Nat],
         \A d \in PartnerCalls : usable[d] \subseteq usable'[d] /\ (d # c => carried'[d] = carried[d]),
         enableAuth => CallOK(c)'
  PROVE  ClientInv'
<1>1. ClientTypes'
  BY DEF ClientInv, ClientTypes
<1>2. ASSUME enableAuth, NEW d \in PartnerCalls, d # c PROVE CallOK(d)'
  <2>1. CallOK(d) /\ calls'[d] = calls[d]
    BY <1>2 DEF ClientInv, ClientTypes
  <2>2. QED
    BY <1>2, <2>1 DEF CallOK
<1>3. QED
  BY <1>1, <1>2 DEF ClientInv

LEMMA CallStepKeeps ==
  ASSUME ClientInv, NEW c \in PartnerCalls, CallStep(c) \/ CallPartner(c)
  PROVE  ClientInv'
<1>1. /\ ClientTypes /\ UNCHANGED enableAuth
      /\ enableAuth => CallOK(c)
  BY DEF ClientInv, CallStep, CallPartner, CheckToken, Authenticate, RequestToken, StoreToken,
         ReadToken, makeRequest
<1> DEFINE CallTypes == [step : OpenSteps \cup {"idle", "done", "failed", "killed"}, held : Tokens,
                         attempt : Nat]
<1>2. /\ calls \in [PartnerCalls -> CallTypes] /\ token \in Tokens /\ issued \in Nat
      /\ usable \in [PartnerCalls -> SUBSET Nat] /\ carried \in [PartnerCalls -> SUBSET Nat]
  BY <1>1 DEF ClientTypes
<1>3. PICK old : old = calls[c]
  OBVIOUS
<1>4. old \in CallTypes /\ old.held \in Tokens /\ old.held.number \in Nat /\ token.number \in Nat
  BY <1>2, <1>3 DEF Tokens
<1>5. ASSUME NEW from, NEW to \in OpenSteps \cup {"done", "failed"}, GoOn(c, from, to)
      PROVE  \E call \in CallTypes : /\ calls' = [calls EXCEPT ![c] = call] /\ calls'[c] = call
                                     /\ call.step = to /\ call.held = old.held /\ old.step = from
  <2>1. PICK call : call = [old EXCEPT !.step = to]
    OBVIOUS
  <2>2. call \in CallTypes /\ call.step = to /\ call.held = old.held
    BY <1>4, <2>1
  <2>3. calls' = [calls EXCEPT ![c] = call] /\ calls'[c] = call /\ old.step = from
    BY <1>2, <1>3, <1>5, <2>1 DEF GoOn
  <2>4. QED
    BY <2>2, <2>3
<1>6. ASSUME NEW C, NEW t \in Nat, Grant(C, t)
      PROVE  /\ usable' \in [PartnerCalls -> SUBSET Nat]
             /\ \A d \in PartnerCalls : usable[d] \subseteq usable'[d] /\ (d \in C => t \in usable'[d])
  BY <1>2, <1>6 DEF Grant
<1>7. CASE CallPartner(c)
  <2>1. GoOn(c, "idle", "check") /\ UNCHANGED <<enableAuth, token, issued, usable, carried>>
    BY <1>7 DEF CallPartner, clientHistory
  <2>2. PICK call \in CallTypes : calls' = [calls EXCEPT ![c] = call] /\ calls'[c] = call
                                 /\ call.step = "check"
    BY <1>5, <2>1 DEF OpenSteps
  <2>3. enableAuth => CallOK(c)'
    BY <1>1, <2>1, <2>2 DEF CallOK
  <2>4. QED
    BY <1>2, <2>1, <2>2, <2>3, CallMoves
<1>8. CASE CheckToken(c)
  <2>1. PICK to \in {"read", "authenticate"} :
          /\ GoOn(c, "check", to) /\ UNCHANGED <<enableAuth, token, issued, carried>>
          /\ to = "read" => HasValidToken /\ Grant({c}, token.number)
          /\ Grant({c}, token.number) \/ UNCHANGED usable
    BY <1>8 DEF CheckToken
  <2>2. PICK call \in CallTypes : calls' = [calls EXCEPT ![c] = call] /\ calls'[c] = call
                                 /\ call.step = to
    BY <1>5, <2>1 DEF OpenSteps
  <2>3. /\ usable' \in [PartnerCalls -> SUBSET Nat]
        /\ \A d \in PartnerCalls : usable[d] \subseteq usable'[d]
        /\ to = "read" => token.number \in usable'[c] /\ token.number # 0
    BY <1>2, <1>4, <1>6, <2>1 DEF HasValidToken
  <2>4. enableAuth => CallOK(c)'
    BY <1>1, <2>1, <2>2, <2>3 DEF CallOK
  <2>5. QED
    BY <1>2, <2>1, <2>2, <2>3, <2>4, CallMoves
<1>9. CASE Authenticate(c)
  <2>1. PICK to \in {"read", "ask"} :
          /\ GoOn(c, "authenticate", to) /\ UNCHANGED <<enableAuth, token, issued, carried>>
          /\ to = "read" /\ enableAuth => HasValidToken /\ Grant({c}, token.number)
          /\ Grant({c}, token.number) \/ UNCHANGED usable
    BY <1>9 DEF Authenticate
  <2>2. PICK call \in CallTypes : calls' = [calls EXCEPT ![c] = call] /\ calls'[c] = call
                                 /\ call.step = to
    BY <1>5, <2>1 DEF OpenSteps
  <2>3. /\ usable' \in [PartnerCalls -> SUBSET Nat]
        /\ \A d \in PartnerCalls : usable[d] \subseteq usable'[d]
        /\ to = "read" /\ enableAuth => token.number \in usable'[c] /\ token.number # 0
    BY <1>2, <1>4, <1>6, <2>1 DEF HasValidToken
  <2>4. enableAuth => CallOK(c)'
    BY <1>1, <2>1, <2>2, <2>3 DEF CallOK
  <2>5. QED
    BY <1>2, <2>1, <2>2, <2>3, <2>4, CallMoves
<1>10. CASE RequestToken(c)
  <2>1. UNCHANGED <<enableAuth, token, usable, carried>>
    BY <1>10 DEF RequestToken, clientHistory
  <2>2. CASE GoOn(c, "ask", "failed") /\ UNCHANGED issued
    <3>1. PICK call \in CallTypes : calls' = [calls EXCEPT ![c] = call] /\ calls'[c] = call
                                   /\ call.step = "failed"
      BY <1>5, <2>2
    <3>2. enableAuth => CallOK(c)'
      BY <1>1, <2>1, <3>1 DEF CallOK
    <3>3. QED
      BY <1>2, <2>1, <2>2, <3>1, <3>2, CallMoves
  <2>3. CASE ~(GoOn(c, "ask", "failed") /\ UNCHANGED issued)
    <3>1. PICK fresh \in BOOLEAN :
            calls' = [calls EXCEPT ![c] = [@ EXCEPT
              !.step = "store", !.held = [number |-> issued', fresh |-> fresh]]]
      BY <1>10, <2>3 DEF RequestToken
    <3>2. PICK held : held = [number |-> issued', fresh |-> fresh]
      OBVIOUS
    <3>3. held \in Tokens /\ held.number # 0 /\ issued' \in Nat
      <4>1. issued' = issued + 1
        BY <1>10, <2>3 DEF RequestToken
      <4>2. issued' \in Nat /\ issued' # 0
        BY <1>2, <4>1
      <4>3. QED
        BY <3>2, <4>2 DEF Tokens
    <3>4. PICK call : call = [old EXCEPT !.step = "store", !.held = held]
      OBVIOUS
    <3>5. call \in CallTypes /\ call.step = "store" /\ call.held = held
      BY <1>4, <3>3, <3>4 DEF OpenSteps
    <3>6. calls' = [calls EXCEPT ![c] = call] /\ calls'[c] = call
      BY <1>2, <1>3, <3>1, <3>2, <3>4
    <3>7. enableAuth => CallOK(c)'
      BY <1>1, <2>1, <3>3, <3>5, <3>6 DEF CallOK
    <3>8. QED
      BY <1>2, <2>1, <3>3, <3>5, <3>6, <3>7, CallMoves
  <2>4. QED
    BY <2>2, <2>3
<1>11. CASE StoreToken(c)
  <2>1. /\ GoOn(c, "store", "read") /\ token' = old.held /\ Grant(Calling, token'.number)
        /\ UNCHANGED <<enableAuth, issued, carried>>
    BY <1>3, <1>11 DEF StoreToken
  <2>2. PICK call \in CallTypes : calls' = [calls EXCEPT ![c] = call] /\ calls'[c] = call
                                 /\ call.step = "read" /\ old.step = "store"
    BY <1>5, <2>1 DEF OpenSteps
  <2>3. /\ usable' \in [PartnerCalls -> SUBSET Nat]
        /\ \A d \in PartnerCalls :
             usable[d] \subseteq usable'[d] /\ (d \in Calling => token'.number \in usable'[d])
    BY <1>4, <1>6, <2>1
  <2>4. enableAuth => token'.number # 0
    BY <1>1, <1>3, <2>1, <2>2 DEF CallOK
  <2>5. ASSUME enableAuth, NEW d \in PartnerCalls PROVE CallOK(d)'
    <3>1. CallOK(d)
      BY <2>5 DEF ClientInv
    <3>2. calls'[d].step = "read" => d \in Calling
      BY <1>2, <1>3, <2>2 DEF Calling, OpenSteps
    <3>3. d # c => calls'[d] = calls[d]
      BY <1>2, <2>2
    <3>4. QED
      BY <2>1, <2>2, <2>3, <2>4, <2>5, <3>1, <3>2, <3>3 DEF CallOK
  <2>6. ClientTypes'
    BY <1>2, <1>4, <2>1, <2>2, <2>3 DEF ClientTypes
  <2>7. QED
    BY <1>1, <2>5, <2>6 DEF ClientInv
<1>12. CASE ReadToken(c)
  <2>1. /\ old.step = "read" /\ UNCHANGED <<enableAuth, token, issued, usable, carried>>
        /\ calls' = [calls EXCEPT ![c] = [@ EXCEPT !.step = "send", !.held = token]]
    BY <1>3, <1>12 DEF ReadToken, clientHistory
  <2>2. PICK call : call = [old EXCEPT !.step = "send", !.held = token]
    OBVIOUS
  <2>3. call \in CallTypes /\ call.step = "send" /\ call.held = token
    BY <1>2, <1>4, <2>2 DEF OpenSteps
  <2>4. calls' = [calls EXCEPT ![c] = call] /\ calls'[c] = call
    BY <1>2, <1>3, <2>1, <2>2
  <2>5. enableAuth => CallOK(c)'
    BY <1>1, <1>3, <2>1, <2>3, <2>4 DEF CallOK
  <2>6. QED
    BY <1>2, <2>1, <2>3, <2>4, <2>5, CallMoves
<1>13. CASE makeRequest(c)
  <2>1. /\ old.step = "send" /\ UNCHANGED <<enableAuth, token, issued, usable>>
        /\ carried' = [carried EXCEPT ![c] = @ \cup {old.held.number}]
    BY <1>3, <1>13 DEF makeRequest
  <2>2. PICK call : /\ call \in CallTypes /\ calls' = [calls EXCEPT ![c] = call] /\ calls'[c] = call
                    /\ call.step \in {"done", "failed", "send"} /\ call.held = old.held
    <3>1. ASSUME NEW to \in {"done", "failed"}, GoOn(c, "send", to)
          PROVE  \E call : /\ call \in CallTypes /\ calls' = [calls EXCEPT ![c] = call]
                           /\ calls'[c] = call
                           /\ call.step \in {"done", "failed", "send"} /\ call.held = old.held
      BY <1>5, <3>1
    <3>2. ASSUME calls' = [calls EXCEPT ![c].attempt = @ + 1]
          PROVE  \E call : /\ call \in CallTypes /\ calls' = [calls EXCEPT ![c] = call]
                           /\ calls'[c] = call
                           /\ call.step \in {"done", "failed", "send"} /\ call.held = old.held
      <4>1. PICK call : call = [old EXCEPT !.attempt = @ + 1]
        OBVIOUS
      <4>2. call \in CallTypes /\ call.step = "send" /\ call.held = old.held
        BY <1>4, <2>1, <4>1
      <4>3. calls' = [calls EXCEPT ![c] = call] /\ calls'[c] = call
        BY <1>2, <1>3, <3>2, <4>1
      <4>4. QED
        BY <4>2, <4>3
    <3>3. QED
      BY <1>13, <3>1, <3>2 DEF makeRequest
  <2>3. /\ carried' \in [PartnerCalls -> SUBSET Nat]
        /\ carried'[c] = carried[c] \cup {old.held.number}
        /\ \A d \in PartnerCalls : d # c => carried'[d] = carried[d]
    BY <1>2, <1>4, <2>1
  <2>4. enableAuth => CallOK(c)'
    BY <1>1, <1>3, <2>1, <2>2, <2>3 DEF CallOK
  <2>5. QED
    BY <1>2, <2>1, <2>2, <2>3, <2>4, CallMoves
<1>14. QED
  BY <1>7, <1>8, <1>9, <1>10, <1>11, <1>12, <1>13 DEF CallStep

LEMMA ClientInvStep == ClientInv /\ ClientStep => ClientInv'
<1> SUFFICES ASSUME ClientInv, ClientStep PROVE ClientInv'
  OBVIOUS
<1>1. CASE TokenAges
  <2>1. /\ token' = [token EXCEPT !.fresh = FALSE]
        /\ UNCHANGED <<enableAuth, issued, calls, usable, carried>>
    BY <1>1 DEF TokenAges, clientHistory
  <2>2. token' \in Tokens /\ token'.number = token.number
    BY <2>1 DEF ClientInv, ClientTypes, Tokens
  <2>3. QED
    BY <2>1, <2>2 DEF ClientInv, ClientTypes, CallOK
<1>2. QED
  BY <1>1, CallStepKeeps DEF ClientStep

LEMMA CrashDropsCalls == ClientInv /\ DropCalls => ClientInv'
<1> SUFFICES ASSUME ClientInv, DropCalls PROVE ClientInv'
  OBVIOUS
<1> DEFINE CallTypes == [step : OpenSteps \cup {"idle", "done", "failed", "killed"}, held : Tokens,
                         attempt : Nat]
<1>1. /\ UNCHANGED <<enableAuth, usable, carried>> /\ issued' \in Nat
      /\ token' \in Tokens
  <2>1. issued \in Nat
    BY DEF ClientInv, ClientTypes
  <2>2. issued' \in Nat
    BY <2>1 DEF DropCalls
  <2>3. NoToken \in Tokens /\ [number |-> issued', fresh |-> TRUE] \in Tokens
    BY <2>2 DEF NoToken, Tokens
  <2>4. QED
    BY <2>2, <2>3 DEF DropCalls, clientHistory
<1>2. \A c \in PartnerCalls : calls'[c] \in CallTypes /\ calls'[c].step \notin OpenSteps
  BY DEF ClientInv, ClientTypes, DropCalls, Calling, OpenSteps
<1>3. calls' \in [PartnerCalls -> CallTypes]
  BY <1>2 DEF DropCalls
<1>4. ClientTypes'
  BY <1>1, <1>3 DEF ClientInv, ClientTypes
<1>5. QED
  BY <1>1, <1>2, <1>4 DEF ClientInv, CallOK, OpenSteps

-----------------------------------------------------------------------------
(* The queue. *)

LEMMA QueueInvInit == QueueInit => QueueInv
<1> SUFFICES ASSUME QueueInit PROVE QueueInv
  OBVIOUS
<1>1. MaxErrors \in Nat /\ MaxRetries \in Nat /\ errors \in 0..MaxErrors
  BY ProcessAssumption, QueueAssumption DEF QueueInit, ProcessInit
<1>2. QueueTypes
  BY <1>1 DEF QueueInit, QueueTypes, NoItem, ItemRows, Transactions, Start
<1>3. \A i \in Items : items[i].status = "none" /\ items[i].retries = 0 /\ applied[i] = 0
  BY DEF QueueInit, NoItem
<1>4. \A g \in Goroutines : gos[g].step = "gone"
  BY DEF QueueInit, Gone
<1>5. \A i \in Items : Explained(i)
  BY <1>1, <1>3 DEF Explained, Used
<1>6. QED
  BY <1>2, <1>3, <1>4, <1>5 DEF QueueInv, ItemOK, GoOK, GoAlone, GoReads, Active

LEMMA GoTypes ==
  ASSUME QueueTypes, NEW g \in Goroutines, Active(g)
  PROVE  gos[g] \in GoStates /\ gos[g].id \in Items /\ gos[g].read \in Nat
<1>1. gos[g] \in {Gone} \cup GoStates
  BY DEF QueueTypes
<1>2. gos[g] # Gone
  BY DEF Active, Gone
<1>3. QED
  BY <1>1, <1>2 DEF GoStates

LEMMA QueueNumbers ==
  ASSUME QueueTypes, NEW i \in Items
  PROVE  /\ applied[i] \in Nat /\ items[i].retries \in Nat /\ txns[i].version \in Nat
         /\ errors \in Nat /\ errors <= MaxErrors /\ Used \in Nat
         /\ MaxErrors \in Nat /\ MaxRetries \in Nat
<1>1. errors \in 0..MaxErrors /\ MaxErrors \in Nat /\ MaxRetries \in Nat
  BY ProcessAssumption, QueueAssumption DEF QueueTypes
<1>2. items[i] \in ItemRows /\ txns[i] \in Transactions /\ applied[i] \in Nat
  BY DEF QueueTypes
<1>3. QED
  BY <1>1, <1>2 DEF ItemRows, Transactions, Used

(* An error or a crash anywhere only explains more. *)
LEMMA QueueElsewhere ==
  ASSUME QueueInv, UNCHANGED <<items, txns, gos, rejects, applied, prompt>>,
         errors' \in 0..MaxErrors, errors' <= errors
  PROVE  QueueInv'
<1>1. QueueTypes'
  BY DEF QueueInv, QueueTypes
<1>2. ASSUME NEW i \in Items PROVE ItemOK(i)'
  BY DEF QueueInv, ItemOK, Reached
<1>3. ASSUME NEW g \in Goroutines PROVE GoOK(g)'
  BY DEF QueueInv, GoOK, Reached
<1>4. ASSUME prompt, NEW g \in Goroutines PROVE GoAlone(g)' /\ GoReads(g)'
  BY <1>4 DEF QueueInv, GoAlone, GoReads, Active
<1>5. ASSUME prompt, NEW i \in Items PROVE Explained(i)'
  <2>1. Explained(i)
    BY <1>5 DEF QueueInv
  <2>2. At(i, {"lock"})' = At(i, {"lock"})
    BY DEF At
  <2>3. At(i, {"lock", "retry", "retrySave"})' = At(i, {"lock", "retry", "retrySave"})
    BY DEF At
  <2>4. /\ applied'[i] = applied[i] /\ items'[i] = items[i] /\ txns'[i] = txns[i]
        /\ rejects' = rejects
        /\ Used <= Used' /\ Used \in Nat /\ Used' \in Nat
        /\ applied[i] \in Nat /\ items[i].retries \in Nat
    BY <1>1, QueueNumbers DEF QueueInv, Used
  <2>5. QED
    BY <2>1, <2>2, <2>3, <2>4 DEF Explained
<1>6. QED
  BY <1>1, <1>2, <1>3, <1>4, <1>5 DEF QueueInv

(* A row becomes, or stays, pending with the retries it has. *)
LEMMA ItemChanges ==
  ASSUME QueueInv, NEW i \in Items, items' \in [Items -> ItemRows],
         \A j \in Items : j # i => items'[j] = items[j],
         items'[i].status = "pending", items'[i].retries = items[i].retries,
         UNCHANGED <<txns, gos, rejects, applied, prompt, errors>>
  PROVE  QueueInv'
<1>1. QueueTypes'
  BY DEF QueueInv, QueueTypes
<1>2. \A j \in Items : /\ items'[j].retries = items[j].retries
                       /\ items'[j].status \in {items[j].status, "pending"}
  OBVIOUS
<1>3. ASSUME NEW j \in Items PROVE ItemOK(j)'
  BY <1>2 DEF QueueInv, ItemOK, Reached
<1>4. ASSUME NEW g \in Goroutines PROVE GoOK(g)'
  BY DEF QueueInv, GoOK, Reached
<1>5. ASSUME prompt, NEW g \in Goroutines PROVE GoAlone(g)' /\ GoReads(g)'
  <2>1. GoAlone(g) /\ GoReads(g) /\ (Active(g) => gos[g].id \in Items)
    BY <1>5, GoTypes DEF QueueInv
  <2>2. GoAlone(g)'
    BY <2>1 DEF GoAlone, Active
  <2>3. GoReads(g)'
    BY <1>2, <2>1 DEF GoReads, Active
  <2>4. QED
    BY <2>2, <2>3
<1>6. ASSUME prompt, NEW j \in Items PROVE Explained(j)'
  <2>1. Explained(j) /\ items'[j].retries = items[j].retries
    BY <1>2, <1>6 DEF QueueInv
  <2>2. UNCHANGED <<txns, gos, rejects, applied, errors>>
    OBVIOUS
  <2>3. QED
    BY <2>1, <2>2 DEF Explained, At, Used
<1>7. QED
  BY <1>1, <1>3, <1>4, <1>5, <1>6 DEF QueueInv

LEMMA EnqueueKeeps ==
  ASSUME QueueInv, NEW i \in Items, Enqueue(i)
  PROVE  QueueInv'
<1>1. items[i].retries = 0
  BY DEF Enqueue, NoItem
<1>2. [status |-> "pending", retries |-> 0, due |-> TRUE] \in ItemRows
  BY DEF ItemRows
<1>3. /\ items' \in [Items -> ItemRows]
      /\ \A j \in Items : j # i => items'[j] = items[j]
      /\ items'[i].status = "pending" /\ items'[i].retries = items[i].retries
      /\ UNCHANGED <<txns, gos, rejects, applied, prompt, errors>>
  BY <1>1, <1>2 DEF Enqueue, QueueInv, QueueTypes, processVars
<1>4. QED
  BY <1>3, ItemChanges

LEMMA ItemComesDueKeeps ==
  ASSUME QueueInv, NEW i \in Items, ItemComesDue(i)
  PROVE  QueueInv'
<1>1. items[i] \in ItemRows /\ items[i].status = "pending"
  BY DEF QueueInv, QueueTypes, ItemComesDue
<1>2. PICK row : row = [items[i] EXCEPT !.due = TRUE]
  OBVIOUS
<1>3. row \in ItemRows /\ row.status = "pending" /\ row.retries = items[i].retries
  BY <1>1, <1>2 DEF ItemRows
<1>4. items' = [items EXCEPT ![i] = row]
  BY <1>2 DEF ItemComesDue
<1>5. /\ items' \in [Items -> ItemRows]
      /\ \A j \in Items : j # i => items'[j] = items[j]
      /\ items'[i].status = "pending" /\ items'[i].retries = items[i].retries
      /\ UNCHANGED <<txns, gos, rejects, applied, prompt, errors>>
  BY <1>3, <1>4 DEF ItemComesDue, QueueInv, QueueTypes, processVars
<1>6. QED
  BY <1>5, ItemChanges

(* A goroutine works on its item: what it must keep of it, the others keep. *)
LEMMA GoMoves ==
  ASSUME QueueInv, QueueTypes', NEW g \in Goroutines, Active(g),
         NEW i \in Items, i = gos[g].id,
         \A j \in Items : j # i => items'[j] = items[j] /\ txns'[j] = txns[j] /\ applied'[j] = applied[j],
         \A h \in Goroutines : h # g => gos'[h] = gos[h],
         gos'[g].step # "gone" => gos'[g].id = i,
         UNCHANGED <<rejects, prompt>>, errors' <= errors, applied[i] <= applied'[i],
         Reached(i) => Reached(i)', ItemOK(i)', GoOK(g)',
         prompt => GoReads(g)' /\ Explained(i)'
  PROVE  QueueInv'
<1>1. ASSUME NEW j \in Items PROVE ItemOK(j)'
  <2>1. CASE j = i
    BY <2>1 DEF ItemOK, Reached
  <2>2. CASE j # i
    BY <2>2 DEF QueueInv, ItemOK, Reached
  <2>3. QED
    BY <2>1, <2>2
<1>2. ASSUME NEW h \in Goroutines PROVE GoOK(h)'
  <2>1. CASE h = g
    BY <2>1 DEF GoOK, Reached
  <2>2. CASE h # g
    <3>1. GoOK(h) /\ gos'[h] = gos[h] /\ (Active(h) => gos[h].id \in Items)
      BY <2>2, GoTypes DEF QueueInv
    <3>2. CASE ~Active(h)
      BY <3>1, <3>2 DEF GoOK, Active
    <3>3. CASE Active(h) /\ gos[h].id = i
      <4>1. applied[i] >= 1 => applied'[i] >= 1
        BY QueueNumbers DEF QueueInv, QueueTypes
      <4>2. QED
        BY <3>1, <3>3, <4>1 DEF GoOK, Reached
    <3>4. CASE Active(h) /\ gos[h].id # i
      <4>1. /\ applied'[gos[h].id] = applied[gos[h].id] /\ txns'[gos[h].id] = txns[gos[h].id]
        BY <3>1, <3>4
      <4>2. QED
        BY <3>1, <4>1 DEF GoOK, Reached
    <3>5. QED
      BY <3>2, <3>3, <3>4
  <2>3. QED
    BY <2>1, <2>2
<1>3. \A h \in Goroutines : Active(h)' => Active(h) /\ gos'[h].id = gos[h].id
  BY DEF Active
<1>4. ASSUME prompt, NEW h \in Goroutines PROVE GoAlone(h)'
  BY <1>3, <1>4 DEF QueueInv, GoAlone
<1>5. ASSUME prompt, NEW h \in Goroutines, h # g, Active(h)
      PROVE  gos[h].id \in Items /\ gos[h].id # i
  BY <1>5, GoTypes DEF QueueInv, GoAlone
<1>6. ASSUME prompt, NEW h \in Goroutines PROVE GoReads(h)'
  <2>1. CASE h = g
    BY <1>6, <2>1 DEF GoReads, Active
  <2>2. CASE h # g /\ Active(h)
    <3>1. GoReads(h) /\ gos'[h] = gos[h]
      BY <1>6, <2>2 DEF QueueInv
    <3>2. items'[gos[h].id] = items[gos[h].id] /\ txns'[gos[h].id] = txns[gos[h].id]
      BY <1>5, <1>6, <2>2
    <3>3. QED
      BY <2>2, <3>1, <3>2 DEF GoReads, Active
  <2>3. CASE h # g /\ ~Active(h)
    BY <2>3 DEF GoReads, Active
  <2>4. QED
    BY <2>1, <2>2, <2>3
<1>7. ASSUME prompt, NEW j \in Items PROVE Explained(j)'
  <2>1. CASE j = i
    BY <1>7, <2>1 DEF Explained, At
  <2>2. CASE j # i
    <3>1. Explained(j) /\ items'[j] = items[j] /\ txns'[j] = txns[j] /\ applied'[j] = applied[j]
      BY <1>7, <2>2 DEF QueueInv
    <3>2. ASSUME NEW h \in Goroutines, gos[h].step # "gone", gos[h].id = j PROVE gos'[h] = gos[h]
      BY <2>2, <3>2
    <3>3. At(j, {"lock"}) => At(j, {"lock"})'
      BY <3>2 DEF At
    <3>4. At(j, {"lock", "retry", "retrySave"}) => At(j, {"lock", "retry", "retrySave"})'
      BY <3>2 DEF At
    <3>5. /\ Used <= Used' /\ Used \in Nat /\ Used' \in Nat /\ UNCHANGED rejects
          /\ applied[j] \in Nat /\ items[j].retries \in Nat
      BY QueueNumbers DEF QueueInv, Used, QueueTypes
    <3>6. QED
      BY <3>1, <3>3, <3>4, <3>5 DEF Explained
  <2>3. QED
    BY <2>1, <2>2
<1>8. QED
  BY <1>1, <1>2, <1>4, <1>6, <1>7 DEF QueueInv

(* The goroutine of a prompt process is the one its item is explained by. *)
LEMMA GoExplains ==
  ASSUME QueueInv, prompt, NEW g \in Goroutines, Active(g), NEW i \in Items, i = gos[g].id
  PROVE  /\ GoReads(g) /\ items[i].retries <= MaxRetries
         /\ rejects =>
              \/ applied[i] <= Used + items[i].retries
              \/ /\ applied[i] <= Used + items[i].retries + 1
                 /\ gos[g].step \in {"lock", "retry", "retrySave"}
         /\ ~rejects =>
              \/ applied[i] <= Used
              \/ applied[i] <= Used + 1 /\ (txns[i].status # Start(i) \/ gos[g].step = "lock")
<1>1. GoReads(g) /\ Explained(i)
  BY DEF QueueInv
<1>2. ASSUME NEW steps, "gone" \notin steps, At(i, steps) PROVE gos[g].step \in steps
  BY <1>2 DEF QueueInv, GoAlone, At, Active
<1>3. At(i, {"lock"}) => gos[g].step = "lock"
  BY <1>2
<1>4. At(i, {"lock", "retry", "retrySave"}) => gos[g].step \in {"lock", "retry", "retrySave"}
  BY <1>2
<1>5. QED
  BY <1>1, <1>3, <1>4 DEF Explained

(* What a step of a goroutine does to the goroutines. *)
LEMMA GoSteppings ==
  ASSUME QueueInv, NEW g \in Goroutines, NEW from, from # "gone",
         \/ \E to \in GoSteps, value \in Nat : StepReading(g, from, to, value)
         \/ Finish(g, from)
  PROVE  /\ Active(g) /\ gos[g].step = from
         /\ gos' \in [Goroutines -> {Gone} \cup GoStates]
         /\ \A h \in Goroutines : h # g => gos'[h] = gos[h]
         /\ gos'[g].step # "gone" => gos'[g].id = gos[g].id
<1>1. Active(g) /\ gos[g].step = from
  BY DEF StepReading, Finish, Active
<1>2. gos[g] \in GoStates /\ gos \in [Goroutines -> {Gone} \cup GoStates]
  BY <1>1, GoTypes DEF QueueInv, QueueTypes
<1>3. ASSUME NEW to \in GoSteps, NEW value \in Nat, StepReading(g, from, to, value)
      PROVE  /\ gos' \in [Goroutines -> {Gone} \cup GoStates]
             /\ \A h \in Goroutines : h # g => gos'[h] = gos[h]
             /\ gos'[g].id = gos[g].id
  <2>1. PICK go : go = [gos[g] EXCEPT !.step = to, !.read = value]
    OBVIOUS
  <2>2. go \in GoStates /\ go.id = gos[g].id
    BY <1>2, <2>1 DEF GoStates
  <2>3. gos' = [gos EXCEPT ![g] = go]
    BY <1>2, <1>3, <2>1 DEF StepReading
  <2>4. QED
    BY <1>2, <2>2, <2>3
<1>4. Finish(g, from) => /\ gos' \in [Goroutines -> {Gone} \cup GoStates]
                         /\ \A h \in Goroutines : h # g => gos'[h] = gos[h]
                         /\ gos'[g] = Gone
  BY <1>2 DEF Finish
<1>5. QED
  BY <1>1, <1>3, <1>4 DEF Gone

LEMMA GoGetsThere ==
  ASSUME QueueTypes, NEW g \in Goroutines, NEW from, from # "gone", NEW to, NEW value,
         StepReading(g, from, to, value)
  PROVE  gos'[g].step = to /\ gos'[g].read = value
<1>1. gos[g] \in GoStates
  BY GoTypes DEF StepReading, Active
<1>2. QED
  BY <1>1 DEF StepReading, QueueTypes, GoStates

LEMMA AdmitKeeps ==
  ASSUME QueueInv, NEW g \in Goroutines, Admit(g)
  PROVE  QueueInv'
<1>1. /\ UNCHANGED <<items, txns, rejects, applied, prompt, errors>>
      /\ \/ Finish(g, "waiting")
         \/ StepReading(g, "waiting", IF gos[g].read >= MaxRetries THEN "fail" ELSE "fetch", 0)
  BY DEF Admit, Step, processVars
<1>2. /\ Active(g) /\ gos[g].step = "waiting"
      /\ gos' \in [Goroutines -> {Gone} \cup GoStates]
      /\ \A h \in Goroutines : h # g => gos'[h] = gos[h]
      /\ gos'[g].step # "gone" => gos'[g].id = gos[g].id
  BY <1>1, GoSteppings DEF GoSteps
<1>3. PICK i \in Items : i = gos[g].id
  BY <1>2, GoTypes DEF QueueInv
<1>4. \/ gos'[g].step \in {"gone", "fail"}
      \/ gos'[g].step = "fetch" /\ ~(gos[g].read >= MaxRetries)
  <2>1. CASE Finish(g, "waiting")
    BY <1>2, <2>1 DEF Finish, QueueInv, QueueTypes, Gone
  <2>2. CASE StepReading(g, "waiting", IF gos[g].read >= MaxRetries THEN "fail" ELSE "fetch", 0)
    <3>1. gos'[g].step = IF gos[g].read >= MaxRetries THEN "fail" ELSE "fetch"
      BY <2>2, GoGetsThere DEF QueueInv
    <3>2. QED
      BY <3>1
  <2>3. QED
    BY <1>1, <2>1, <2>2
<1>5. QueueTypes'
  BY <1>1, <1>2 DEF QueueInv, QueueTypes
<1>6. /\ Reached(i) => Reached(i)'
      /\ ItemOK(i)' /\ applied[i] <= applied'[i] /\ errors' <= errors
  BY <1>1, QueueNumbers DEF QueueInv, Reached, ItemOK
<1>7. GoOK(g)'
  BY <1>4 DEF GoOK
<1>8. ASSUME prompt PROVE GoReads(g)' /\ Explained(i)'
  <2>1. /\ items[i].status = "pending" /\ gos[g].read = items[i].retries
        /\ items[i].retries \in Nat /\ MaxRetries \in Nat
    BY <1>2, <1>3, <1>8, GoExplains, QueueNumbers DEF QueueInv, GoReads
  <2>2. gos'[g].step = "fetch" => items[i].retries < MaxRetries
    BY <1>4, <2>1
  <2>3. GoReads(g)'
    BY <1>1, <1>2, <1>3, <1>4, <2>1, <2>2 DEF GoReads, Active
  <2>4. /\ items[i].retries <= MaxRetries
        /\ rejects => applied[i] <= Used + items[i].retries
        /\ ~rejects => applied[i] <= Used \/ (applied[i] <= Used + 1 /\ txns[i].status # Start(i))
    BY <1>2, <1>3, <1>8, GoExplains
  <2>5. Explained(i)'
    BY <1>1, <2>4 DEF Explained, Used
  <2>6. QED
    BY <2>3, <2>5
<1>9. QED
  BY <1>1, <1>2, <1>3, <1>5, <1>6, <1>7, <1>8, GoMoves

LEMMA FetchTransactionKeeps ==
  ASSUME QueueInv, NEW g \in Goroutines, FetchTransaction(g)
  PROVE  QueueInv'
<1>1. Active(g) /\ gos[g].step = "fetch" /\ QueueTypes
  BY DEF FetchTransaction, Active, QueueInv
<1>2. PICK i \in Items : i = gos[g].id
  BY <1>1, GoTypes
<1>3. PICK v \in Nat : v = txns[i].version
  BY <1>1, QueueNumbers
<1>4. /\ UNCHANGED <<items, txns, rejects, applied, prompt>>
      /\ errors' = errors \/ (errors > 0 /\ errors' = errors - 1)
      /\ \/ StepReading(g, "fetch", "retry", 0)
         \/ StepReading(g, "fetch", "duplicate", 0) /\ i \in Duplicates
         \/ /\ StepReading(g, "fetch", "balance", v)
            /\ i \notin Duplicates /\ txns[i].status = Start(i)
  BY <1>1, <1>2, <1>3 DEF FetchTransaction, Error, Fails, Step
<1>5. /\ gos' \in [Goroutines -> {Gone} \cup GoStates]
      /\ \A h \in Goroutines : h # g => gos'[h] = gos[h]
      /\ gos'[g].step # "gone" => gos'[g].id = gos[g].id
  BY <1>4, GoSteppings DEF GoSteps
<1>6. \/ gos'[g].step = "retry"
      \/ gos'[g].step = "duplicate" /\ i \in Duplicates
      \/ /\ gos'[g].step = "balance" /\ gos'[g].read = v
         /\ i \notin Duplicates /\ txns[i].status = Start(i)
  BY <1>1, <1>4, GoGetsThere
<1>7. /\ errors' \in 0..MaxErrors /\ errors' <= errors /\ Used \in Nat /\ Used' \in Nat
      /\ Used <= Used' /\ applied[i] \in Nat /\ items[i].retries \in Nat
  BY <1>1, <1>4, QueueNumbers DEF Used
<1>8. QueueTypes'
  BY <1>4, <1>5, <1>7 DEF QueueInv, QueueTypes
<1>9. /\ Reached(i) => Reached(i)'
      /\ ItemOK(i)' /\ applied[i] <= applied'[i]
  BY <1>4, <1>7 DEF QueueInv, Reached, ItemOK
<1>10. GoOK(g)'
  BY <1>2, <1>5, <1>6 DEF GoOK
<1>11. ASSUME prompt PROVE GoReads(g)' /\ Explained(i)'
  <2>1. items[i].status = "pending" /\ items[i].retries < MaxRetries
    BY <1>1, <1>2, <1>11, GoExplains DEF GoReads
  <2>2. GoReads(g)'
    BY <1>2, <1>3, <1>4, <1>5, <1>6, <2>1 DEF GoReads, Active
  <2>3. /\ items[i].retries <= MaxRetries
        /\ rejects => applied[i] <= Used + items[i].retries
        /\ ~rejects => applied[i] <= Used \/ (applied[i] <= Used + 1 /\ txns[i].status # Start(i))
    BY <1>1, <1>2, <1>11, GoExplains
  <2>4. Explained(i)'
    BY <1>4, <1>7, <2>3 DEF Explained
  <2>5. QED
    BY <2>2, <2>4
<1>12. QED
  BY <1>1, <1>2, <1>4, <1>5, <1>7, <1>8, <1>9, <1>10, <1>11, GoMoves

LEMMA UpdateBalanceKeeps ==
  ASSUME QueueInv, NEW g \in Goroutines, UpdateBalance(g)
  PROVE  QueueInv'
<1>1. QueueTypes /\ Active(g) /\ gos[g].step = "balance"
  BY DEF UpdateBalance, StepReading, Fails, Step, Active, QueueInv
<1>2. PICK i \in Items, v \in Nat : i = gos[g].id /\ v = gos[g].read
  BY <1>1, GoTypes
<1>3. /\ UNCHANGED <<items, txns, rejects, prompt, errors>>
      /\ \/ /\ StepReading(g, "balance", "lock", v)
            /\ applied' = [applied EXCEPT ![i] = IF @ < CountLimit THEN @ + 1 ELSE @]
         \/ StepReading(g, "balance", "retry", 0) /\ UNCHANGED applied
  BY <1>2 DEF UpdateBalance, Fails, Step, processVars
<1>4. /\ gos' \in [Goroutines -> {Gone} \cup GoStates]
      /\ \A h \in Goroutines : h # g => gos'[h] = gos[h]
      /\ gos'[g].step # "gone" => gos'[g].id = gos[g].id
  BY <1>3, GoSteppings DEF GoSteps
<1>5. /\ applied[i] \in Nat /\ Used \in Nat /\ items[i].retries \in Nat /\ Used' = Used
      /\ CountLimit \in Nat /\ CountLimit >= 1
  BY <1>1, <1>3, QueueNumbers DEF Used, CountLimit
<1>6. \/ /\ gos'[g].step = "lock" /\ gos'[g].read = v
         /\ applied'[i] \in {applied[i], applied[i] + 1} /\ applied'[i] >= 1
      \/ gos'[g].step = "retry" /\ applied'[i] = applied[i]
  <2>1. CASE StepReading(g, "balance", "retry", 0) /\ UNCHANGED applied
    BY <1>1, <2>1, GoGetsThere
  <2>2. CASE /\ StepReading(g, "balance", "lock", v)
             /\ applied' = [applied EXCEPT ![i] = IF @ < CountLimit THEN @ + 1 ELSE @]
    <3>1. gos'[g].step = "lock" /\ gos'[g].read = v
      BY <1>1, <2>2, GoGetsThere
    <3>2. applied'[i] = IF applied[i] < CountLimit THEN applied[i] + 1 ELSE applied[i]
      BY <1>1, <2>2 DEF QueueTypes
    <3>3. applied'[i] \in {applied[i], applied[i] + 1} /\ applied'[i] >= 1
      BY <1>5, <3>2
    <3>4. QED
      BY <3>1, <3>3
  <2>3. QED
    BY <1>3, <2>1, <2>2
<1>7. /\ applied' \in [Items -> Nat] /\ \A j \in Items : j # i => applied'[j] = applied[j]
      /\ applied[i] <= applied'[i]
  <2>1. applied \in [Items -> Nat]
    BY <1>1 DEF QueueTypes
  <2>2. applied[i] <= applied'[i] /\ applied'[i] \in Nat
    BY <1>5, <1>6
  <2>3. \A j \in Items : j # i => applied'[j] = applied[j]
    BY <1>3, <2>1
  <2>4. applied' \in [Items -> Nat]
    BY <1>3, <2>1, <2>2
  <2>5. QED
    BY <2>2, <2>3, <2>4
<1>8. QueueTypes'
  BY <1>1, <1>3, <1>4, <1>7 DEF QueueTypes
<1>9. (Reached(i) => Reached(i)') /\ ItemOK(i)'
  BY <1>3, <1>5, <1>6 DEF QueueInv, Reached, ItemOK
<1>10. i \notin Duplicates
  BY <1>1, <1>2 DEF QueueInv, GoOK
<1>11. GoOK(g)'
  BY <1>2, <1>4, <1>6, <1>10 DEF GoOK
<1>12. ASSUME prompt PROVE GoReads(g)' /\ Explained(i)'
  <2>1. /\ items[i].status = "pending" /\ items[i].retries < MaxRetries
        /\ txns[i].status = Start(i) /\ txns[i].version = v
    BY <1>1, <1>2, <1>12, GoExplains DEF GoReads
  <2>2. GoReads(g)'
    BY <1>2, <1>3, <1>4, <1>6, <2>1 DEF GoReads, Active
  <2>3. /\ items[i].retries <= MaxRetries
        /\ rejects => applied[i] <= Used + items[i].retries
        /\ ~rejects => applied[i] <= Used
    BY <1>1, <1>2, <1>12, <2>1, GoExplains
  <2>4. /\ rejects => applied'[i] <= Used + items[i].retries \/
                      (applied'[i] <= Used + items[i].retries + 1 /\ gos'[g].step = "lock")
        /\ ~rejects => applied'[i] <= Used \/ (applied'[i] <= Used + 1 /\ gos'[g].step = "lock")
    BY <1>5, <1>6, <2>3
  <2>5. gos'[g].step = "lock" => At(i, {"lock"})' /\ At(i, {"lock", "retry", "retrySave"})'
    BY <1>2, <1>4 DEF At
  <2>6. Explained(i)'
    BY <1>3, <1>5, <2>3, <2>4, <2>5 DEF Explained
  <2>7. QED
    BY <2>2, <2>6
<1>13. errors' <= errors
  BY <1>1, <1>2, <1>3, QueueNumbers
<1>14. QED
  BY <1>1, <1>2, <1>3, <1>4, <1>7, <1>8, <1>9, <1>11, <1>12, <1>13, GoMoves

(* What SetTransaction does to the transactions. *)
LEMMA TransactionSet ==
  ASSUME QueueTypes, NEW i \in Items, NEW status \in {"completed", "reversed", "failed"},
         SetTransaction(i, status)
  PROVE  /\ txns' \in [Items -> Transactions] /\ txns'[i].status = status
         /\ \A j \in Items : j # i => txns'[j] = txns[j]
<1>1. txns[i].version + 1 \in Nat
  BY QueueNumbers
<1>2. PICK txn : txn = [status |-> status, version |-> txns[i].version + 1]
  OBVIOUS
<1>3. txn \in Transactions /\ txn.status = status
  BY <1>1, <1>2 DEF Transactions
<1>4. txns' = [txns EXCEPT ![i] = txn] /\ txns \in [Items -> Transactions]
  BY <1>2 DEF SetTransaction, QueueTypes
<1>5. QED
  BY <1>3, <1>4

LEMMA GoalIsNotStart ==
  ASSUME NEW i \in Items
  PROVE  Goal(i) \in {"completed", "reversed"} /\ Start(i) # Goal(i) /\ Start(i) # "failed"
BY DEF Goal, Start

LEMMA UpdateTransactionKeeps ==
  ASSUME QueueInv, NEW g \in Goroutines, UpdateTransaction(g)
  PROVE  QueueInv'
<1>1. QueueTypes /\ Active(g) /\ gos[g].step = "lock"
  BY DEF UpdateTransaction, Active, QueueInv
<1>2. PICK i \in Items, v \in Nat : i = gos[g].id /\ v = gos[g].read
  BY <1>1, GoTypes
<1>3. /\ UNCHANGED <<items, rejects, applied, prompt>>
      /\ \/ /\ Matches(i, v) /\ SetTransaction(i, Goal(i))
            /\ StepReading(g, "lock", "complete", 0) /\ UNCHANGED errors
         \/ /\ ~Matches(i, v) /\ StepReading(g, "lock", "retry", 0)
            /\ UNCHANGED <<txns, errors>>
         \/ /\ errors > 0 /\ errors' = errors - 1
            /\ StepReading(g, "lock", "retry", 0) /\ UNCHANGED txns
  BY <1>2 DEF UpdateTransaction, Fails, Step, Error
<1>4. /\ gos' \in [Goroutines -> {Gone} \cup GoStates]
      /\ \A h \in Goroutines : h # g => gos'[h] = gos[h]
      /\ gos'[g].step # "gone" => gos'[g].id = gos[g].id
  BY <1>3, GoSteppings DEF GoSteps
<1>5. /\ errors' \in 0..MaxErrors /\ errors' <= errors /\ Used \in Nat /\ Used' \in Nat
      /\ Used <= Used' /\ applied[i] \in Nat /\ items[i].retries \in Nat
      /\ errors' = errors - 1 => Used' = Used + 1
  BY <1>1, <1>3, QueueNumbers DEF Used
<1>6. /\ txns' \in [Items -> Transactions]
      /\ \A j \in Items : j # i => txns'[j] = txns[j]
      /\ txns'[i] = txns[i] \/ txns'[i].status = Goal(i)
      /\ \/ gos'[g].step = "complete" /\ ~rejects /\ txns'[i].status = Goal(i)
         \/ gos'[g].step = "retry" /\ ~Matches(i, v) /\ UNCHANGED txns
         \/ gos'[g].step = "retry" /\ Used' = Used + 1 /\ UNCHANGED txns
  <2>1. CASE /\ Matches(i, v) /\ SetTransaction(i, Goal(i))
             /\ StepReading(g, "lock", "complete", 0)
    BY <1>1, <2>1, TransactionSet, GoalIsNotStart, GoGetsThere DEF Matches
  <2>2. CASE /\ StepReading(g, "lock", "retry", 0) /\ UNCHANGED txns
             /\ ~Matches(i, v) \/ errors' = errors - 1
    BY <1>1, <1>5, <2>2, GoGetsThere DEF QueueTypes
  <2>3. QED
    BY <1>3, <2>1, <2>2
<1>7. QueueTypes'
  BY <1>1, <1>3, <1>4, <1>5, <1>6 DEF QueueTypes
<1>8. applied[i] >= 1 /\ i \notin Duplicates
  BY <1>1, <1>2 DEF QueueInv, GoOK
<1>9. (Reached(i) => Reached(i)') /\ ItemOK(i)'
  BY <1>3, <1>6, <1>8 DEF QueueInv, Reached, ItemOK
<1>10. GoOK(g)'
  BY <1>2, <1>3, <1>4, <1>6, <1>8 DEF GoOK, Reached
<1>11. ASSUME prompt PROVE GoReads(g)' /\ Explained(i)'
  <2>1. /\ items[i].status = "pending" /\ items[i].retries < MaxRetries
        /\ txns[i].status = Start(i) /\ txns[i].version = v
    BY <1>1, <1>2, <1>11, GoExplains DEF GoReads
  <2>2. GoReads(g)'
    BY <1>2, <1>3, <1>4, <1>6, <2>1 DEF GoReads, Active
  <2>3. /\ items[i].retries <= MaxRetries
        /\ rejects => applied[i] <= Used + items[i].retries + 1
        /\ ~rejects => applied[i] <= Used + 1
    <3>1. /\ items[i].retries <= MaxRetries
          /\ rejects => applied[i] <= Used + items[i].retries \/ applied[i] <= Used + items[i].retries + 1
          /\ ~rejects => applied[i] <= Used \/ applied[i] <= Used + 1
      BY <1>1, <1>2, <1>11, GoExplains
    <3>2. QED
      BY <1>5, <3>1
  <2>4. CASE gos'[g].step = "complete" /\ ~rejects /\ txns'[i].status = Goal(i)
    BY <1>3, <1>5, <2>2, <2>3, <2>4, GoalIsNotStart DEF Explained
  <2>5. CASE gos'[g].step = "retry" /\ ~Matches(i, v) /\ UNCHANGED txns
    <3>1. rejects /\ At(i, {"lock", "retry", "retrySave"})'
      BY <1>2, <1>4, <2>1, <2>5 DEF Matches, At
    <3>2. QED
      BY <1>3, <1>5, <2>2, <2>3, <3>1 DEF Explained
  <2>6. CASE gos'[g].step = "retry" /\ Used' = Used + 1 /\ UNCHANGED txns
    BY <1>3, <1>5, <2>2, <2>3, <2>6 DEF Explained
  <2>7. QED
    BY <1>6, <2>4, <2>5, <2>6
<1>12. applied[i] <= applied'[i]
  BY <1>3, <1>5
<1>13. QED
  BY <1>1, <1>2, <1>3, <1>4, <1>5, <1>6, <1>7, <1>9, <1>10, <1>11, <1>12, GoMoves

(* The steps after which a goroutine is gone, or only reads the retries. *)
LEMMA MarkCompletedKeeps ==
  ASSUME QueueInv, NEW g \in Goroutines, MarkCompleted(g)
  PROVE  QueueInv'
<1>1. QueueTypes /\ Active(g) /\ gos[g].step = "complete" /\ Finish(g, "complete")
  BY DEF MarkCompleted, Finish, Active, QueueInv
<1>2. PICK i \in Items : i = gos[g].id
  BY <1>1, GoTypes
<1>3. /\ UNCHANGED <<txns, rejects, applied, prompt>>
      /\ \/ items' = [items EXCEPT ![i].status = "completed"] /\ UNCHANGED errors
         \/ errors > 0 /\ errors' = errors - 1 /\ UNCHANGED items
  BY <1>2 DEF MarkCompleted, Error
<1>4. /\ gos' \in [Goroutines -> {Gone} \cup GoStates]
      /\ \A h \in Goroutines : h # g => gos'[h] = gos[h]
      /\ gos'[g].step = "gone"
  BY <1>1, GoSteppings DEF Finish, Gone, QueueTypes
<1>5. /\ errors' \in 0..MaxErrors /\ errors' <= errors /\ Used \in Nat /\ Used' \in Nat
      /\ Used <= Used' /\ applied[i] \in Nat /\ items[i].retries \in Nat
  BY <1>1, <1>3, QueueNumbers DEF Used
<1>6. /\ items' \in [Items -> ItemRows] /\ items'[i].retries = items[i].retries
      /\ \A j \in Items : j # i => items'[j] = items[j]
  <2>1. items \in [Items -> ItemRows]
    BY <1>1 DEF QueueTypes
  <2>2. [items[i] EXCEPT !.status = "completed"] \in ItemRows
    BY <2>1 DEF ItemRows
  <2>3. [items[i] EXCEPT !.status = "completed"].retries = items[i].retries
    BY <2>1 DEF ItemRows
  <2>4. QED
    BY <1>3, <2>1, <2>2, <2>3
<1>7. QueueTypes'
  BY <1>1, <1>3, <1>4, <1>5, <1>6 DEF QueueTypes
<1>8. Reached(i)
  BY <1>1, <1>2 DEF QueueInv, GoOK
<1>9. Reached(i)' /\ ItemOK(i)' /\ GoOK(g)'
  BY <1>3, <1>4, <1>8 DEF Reached, ItemOK, GoOK
<1>10. ASSUME prompt PROVE GoReads(g)' /\ Explained(i)'
  <2>1. GoReads(g)'
    BY <1>4 DEF GoReads, Active
  <2>2. /\ items[i].retries <= MaxRetries
        /\ rejects => applied[i] <= Used + items[i].retries
        /\ ~rejects => applied[i] <= Used \/ (applied[i] <= Used + 1 /\ txns[i].status # Start(i))
    BY <1>1, <1>2, <1>10, GoExplains
  <2>3. Explained(i)'
    BY <1>3, <1>5, <1>6, <2>2 DEF Explained
  <2>4. QED
    BY <2>1, <2>3
<1>11. applied[i] <= applied'[i]
  BY <1>3, <1>5
<1>12. QED
  BY <1>1, <1>2, <1>3, <1>4, <1>5, <1>6, <1>7, <1>9, <1>10, <1>11, GoMoves

LEMMA MarkFailedKeeps ==
  ASSUME QueueInv, NEW g \in Goroutines, MarkFailed(g)
  PROVE  QueueInv'
<1>1. QueueTypes /\ Active(g) /\ gos[g].step = "fail" /\ Finish(g, "fail")
  BY DEF MarkFailed, Finish, Active, QueueInv
<1>2. PICK i \in Items : i = gos[g].id
  BY <1>1, GoTypes
<1>3. /\ UNCHANGED <<txns, rejects, applied, prompt>>
      /\ \/ items' = [items EXCEPT ![i].status = "failed"] /\ UNCHANGED errors
         \/ errors > 0 /\ errors' = errors - 1 /\ UNCHANGED items
  BY <1>2 DEF MarkFailed, Error
<1>4. /\ gos' \in [Goroutines -> {Gone} \cup GoStates]
      /\ \A h \in Goroutines : h # g => gos'[h] = gos[h]
      /\ gos'[g].step = "gone"
  BY <1>1, GoSteppings DEF Finish, Gone, QueueTypes
<1>5. /\ errors' \in 0..MaxErrors /\ errors' <= errors /\ Used \in Nat /\ Used' \in Nat
      /\ Used <= Used' /\ applied[i] \in Nat /\ items[i].retries \in Nat
  BY <1>1, <1>3, QueueNumbers DEF Used
<1>6. /\ items' \in [Items -> ItemRows] /\ items'[i].retries = items[i].retries
      /\ items'[i].status \in {items[i].status, "failed"}
      /\ \A j \in Items : j # i => items'[j] = items[j]
  <2>1. items \in [Items -> ItemRows]
    BY <1>1 DEF QueueTypes
  <2>2. [items[i] EXCEPT !.status = "failed"] \in ItemRows
    BY <2>1 DEF ItemRows
  <2>3. /\ [items[i] EXCEPT !.status = "failed"].retries = items[i].retries
        /\ [items[i] EXCEPT !.status = "failed"].status = "failed"
    BY <2>1 DEF ItemRows
  <2>4. QED
    BY <1>3, <2>1, <2>2, <2>3
<1>7. QueueTypes'
  BY <1>1, <1>3, <1>4, <1>5, <1>6 DEF QueueTypes
<1>8. (Reached(i) => Reached(i)') /\ ItemOK(i)' /\ GoOK(g)'
  BY <1>3, <1>4, <1>6 DEF QueueInv, Reached, ItemOK, GoOK
<1>9. ASSUME prompt PROVE GoReads(g)' /\ Explained(i)'
  <2>1. GoReads(g)'
    BY <1>4 DEF GoReads, Active
  <2>2. /\ items[i].retries <= MaxRetries
        /\ rejects => applied[i] <= Used + items[i].retries
        /\ ~rejects => applied[i] <= Used \/ (applied[i] <= Used + 1 /\ txns[i].status # Start(i))
    BY <1>1, <1>2, <1>9, GoExplains
  <2>3. Explained(i)'
    BY <1>3, <1>5, <1>6, <2>2 DEF Explained
  <2>4. QED
    BY <2>1, <2>3
<1>10. applied[i] <= applied'[i]
  BY <1>3, <1>5
<1>11. QED
  BY <1>1, <1>2, <1>3, <1>4, <1>5, <1>6, <1>7, <1>8, <1>9, <1>10, GoMoves

LEMMA RejectDuplicateKeeps ==
  ASSUME QueueInv, NEW g \in Goroutines, RejectDuplicate(g)
  PROVE  QueueInv'
<1>1. /\ QueueTypes /\ Active(g) /\ gos[g].step = "duplicate"
      /\ StepReading(g, "duplicate", "fail", 0)
  BY DEF RejectDuplicate, Step, StepReading, Active, QueueInv
<1>2. PICK i \in Items : i = gos[g].id
  BY <1>1, GoTypes
<1>3. /\ UNCHANGED <<items, errors, rejects, applied, prompt>>
      /\ SetTransaction(i, "failed") \/ UNCHANGED txns
  BY <1>2 DEF RejectDuplicate, processVars
<1>4. /\ gos' \in [Goroutines -> {Gone} \cup GoStates]
      /\ \A h \in Goroutines : h # g => gos'[h] = gos[h]
      /\ gos'[g].step = "fail" /\ gos'[g].id = gos[g].id
  BY <1>1, GoSteppings, GoGetsThere, SMTT(60) DEF GoSteps
<1>5. /\ errors' <= errors /\ Used \in Nat /\ Used' = Used
      /\ applied[i] \in Nat /\ items[i].retries \in Nat
  BY <1>1, <1>3, QueueNumbers DEF Used
<1>6. /\ txns' \in [Items -> Transactions]
      /\ \A j \in Items : j # i => txns'[j] = txns[j]
      /\ txns'[i] = txns[i] \/ txns'[i].status = "failed"
  BY <1>1, <1>3, TransactionSet DEF QueueTypes
<1>7. QueueTypes'
  BY <1>1, <1>3, <1>4, <1>6 DEF QueueTypes
<1>8. i \in Duplicates
  BY <1>1, <1>2 DEF QueueInv, GoOK
<1>9. (Reached(i) => Reached(i)') /\ ItemOK(i)' /\ GoOK(g)'
  BY <1>3, <1>4, <1>8 DEF QueueInv, Reached, ItemOK, GoOK
<1>10. ASSUME prompt PROVE GoReads(g)' /\ Explained(i)'
  <2>1. items[i].status = "pending"
    BY <1>1, <1>2, <1>10, GoExplains DEF GoReads
  <2>2. GoReads(g)'
    BY <1>2, <1>3, <1>4, <2>1 DEF GoReads, Active
  <2>3. /\ items[i].retries <= MaxRetries
        /\ rejects => applied[i] <= Used + items[i].retries
        /\ ~rejects => applied[i] <= Used \/ (applied[i] <= Used + 1 /\ txns[i].status # Start(i))
    BY <1>1, <1>2, <1>10, GoExplains
  <2>4. txns[i].status # Start(i) => txns'[i].status # Start(i)
    BY <1>6, GoalIsNotStart
  <2>5. Explained(i)'
    BY <1>3, <1>5, <2>3, <2>4 DEF Explained
  <2>6. QED
    BY <2>2, <2>5
<1>11. applied[i] <= applied'[i]
  BY <1>3, <1>5
<1>12. QED
  BY <1>1, <1>2, <1>3, <1>4, <1>5, <1>6, <1>7, <1>9, <1>10, <1>11, GoMoves

LEMMA ReadRetryKeeps ==
  ASSUME QueueInv, NEW g \in Goroutines, ReadRetry(g)
  PROVE  QueueInv'
<1>1. QueueTypes /\ Active(g) /\ gos[g].step = "retry"
  BY DEF ReadRetry, StepReading, Finish, Active, QueueInv
<1>2. PICK i \in Items, n \in Nat : i = gos[g].id /\ n = items[i].retries
  BY <1>1, GoTypes, QueueNumbers
<1>3. /\ UNCHANGED <<items, txns, rejects, applied, prompt>>
      /\ \/ StepReading(g, "retry", "retrySave", n) /\ UNCHANGED errors
         \/ Finish(g, "retry") /\ errors > 0 /\ errors' = errors - 1
  BY <1>2 DEF ReadRetry, Error
<1>4. /\ gos' \in [Goroutines -> {Gone} \cup GoStates]
      /\ \A h \in Goroutines : h # g => gos'[h] = gos[h]
      /\ gos'[g].step # "gone" => gos'[g].id = gos[g].id
  BY <1>2, <1>3, GoSteppings DEF GoSteps
<1>5. /\ errors' \in 0..MaxErrors /\ errors' <= errors /\ Used \in Nat /\ Used' \in Nat
      /\ Used <= Used' /\ applied[i] \in Nat /\ items[i].retries \in Nat
      /\ errors' = errors - 1 => Used' = Used + 1
  BY <1>1, <1>3, QueueNumbers DEF Used
<1>6. \/ gos'[g].step = "retrySave" /\ gos'[g].read = n
      \/ gos'[g].step = "gone" /\ Used' = Used + 1
  <2>1. Finish(g, "retry") => gos'[g].step = "gone"
    BY <1>1 DEF Finish, Gone, QueueTypes
  <2>2. QED
    BY <1>1, <1>3, <1>5, <2>1, GoGetsThere
<1>7. QueueTypes'
  BY <1>1, <1>3, <1>4, <1>5 DEF QueueTypes
<1>8. (Reached(i) => Reached(i)') /\ ItemOK(i)' /\ GoOK(g)' /\ applied[i] <= applied'[i]
  BY <1>3, <1>5, <1>6 DEF QueueInv, Reached, ItemOK, GoOK
<1>9. ASSUME prompt PROVE GoReads(g)' /\ Explained(i)'
  <2>1. items[i].status = "pending" /\ items[i].retries < MaxRetries
    BY <1>1, <1>2, <1>9, GoExplains DEF GoReads
  <2>2. GoReads(g)'
    BY <1>2, <1>3, <1>4, <1>6, <2>1 DEF GoReads, Active
  <2>3. /\ items[i].retries <= MaxRetries
        /\ rejects => applied[i] <= Used + items[i].retries + 1
        /\ ~rejects => applied[i] <= Used \/ (applied[i] <= Used + 1 /\ txns[i].status # Start(i))
    <3>1. /\ items[i].retries <= MaxRetries
          /\ rejects => applied[i] <= Used + items[i].retries \/ applied[i] <= Used + items[i].retries + 1
          /\ ~rejects => applied[i] <= Used \/ (applied[i] <= Used + 1 /\ txns[i].status # Start(i))
      BY <1>1, <1>2, <1>9, GoExplains
    <3>2. QED
      BY <1>5, <3>1
  <2>4. gos'[g].step = "retrySave" => At(i, {"lock", "retry", "retrySave"})'
    BY <1>2, <1>4 DEF At
  <2>5. Explained(i)'
    BY <1>3, <1>5, <1>6, <2>3, <2>4 DEF Explained
  <2>6. QED
    BY <2>2, <2>5
<1>10. QED
  BY <1>1, <1>2, <1>3, <1>4, <1>5, <1>7, <1>8, <1>9, GoMoves

LEMMA SaveRetryKeeps ==
  ASSUME QueueInv, NEW g \in Goroutines, SaveRetry(g)
  PROVE  QueueInv'
<1>1. QueueTypes /\ Active(g) /\ gos[g].step = "retrySave" /\ Finish(g, "retrySave")
  BY DEF SaveRetry, Finish, Active, QueueInv
<1>2. PICK i \in Items, n \in Nat : i = gos[g].id /\ n = gos[g].read
  BY <1>1, GoTypes
<1>3. PICK row : row = [status |-> "pending", retries |-> n + 1, due |-> FALSE]
  OBVIOUS
<1>4. row \in ItemRows /\ row.status = "pending" /\ row.retries = n + 1
  BY <1>3 DEF ItemRows
<1>5. /\ UNCHANGED <<txns, rejects, applied, prompt>>
      /\ \/ items' = [items EXCEPT ![i] = row] /\ UNCHANGED errors
         \/ errors > 0 /\ errors' = errors - 1 /\ UNCHANGED items
  BY <1>2, <1>3 DEF SaveRetry, Error
<1>6. /\ gos' \in [Goroutines -> {Gone} \cup GoStates]
      /\ \A h \in Goroutines : h # g => gos'[h] = gos[h]
      /\ gos'[g].step = "gone"
  BY <1>1, GoSteppings DEF Finish, Gone, QueueTypes
<1>7. /\ errors' \in 0..MaxErrors /\ errors' <= errors /\ Used \in Nat /\ Used' \in Nat
      /\ Used <= Used' /\ applied[i] \in Nat /\ items[i].retries \in Nat /\ MaxRetries \in Nat
      /\ errors' = errors - 1 => Used' = Used + 1
  BY <1>1, <1>5, QueueNumbers DEF Used
<1>8. /\ items' \in [Items -> ItemRows]
      /\ \A j \in Items : j # i => items'[j] = items[j]
      /\ \/ items'[i] = row
         \/ items'[i] = items[i] /\ Used' = Used + 1
  BY <1>1, <1>4, <1>5, <1>7 DEF QueueTypes
<1>9. QueueTypes'
  BY <1>1, <1>5, <1>6, <1>7, <1>8 DEF QueueTypes
<1>10. (Reached(i) => Reached(i)') /\ ItemOK(i)' /\ GoOK(g)' /\ applied[i] <= applied'[i]
  BY <1>4, <1>5, <1>6, <1>7, <1>8 DEF QueueInv, Reached, ItemOK, GoOK
<1>11. ASSUME prompt PROVE GoReads(g)' /\ Explained(i)'
  <2>1. n = items[i].retries /\ items[i].retries < MaxRetries
    BY <1>1, <1>2, <1>11, GoExplains DEF GoReads
  <2>2. GoReads(g)'
    BY <1>6 DEF GoReads, Active
  <2>3. /\ rejects => applied[i] <= Used + items[i].retries + 1
        /\ ~rejects => applied[i] <= Used \/ (applied[i] <= Used + 1 /\ txns[i].status # Start(i))
    <3>1. /\ rejects => applied[i] <= Used + items[i].retries \/ applied[i] <= Used + items[i].retries + 1
          /\ ~rejects => applied[i] <= Used \/ (applied[i] <= Used + 1 /\ txns[i].status # Start(i))
      BY <1>1, <1>2, <1>11, GoExplains
    <3>2. QED
      BY <1>7, <3>1
  <2>4. items'[i].retries <= MaxRetries /\ items'[i].retries \in Nat
    BY <1>4, <1>7, <1>8, <2>1
  <2>5. rejects => applied[i] <= Used' + items'[i].retries
    BY <1>4, <1>7, <1>8, <2>1, <2>3
  <2>6. ~rejects => applied[i] <= Used' \/ (applied[i] <= Used' + 1 /\ txns[i].status # Start(i))
    BY <1>7, <2>3
  <2>7. Explained(i)'
    BY <1>5, <2>4, <2>5, <2>6 DEF Explained
  <2>8. QED
    BY <2>2, <2>7
<1>12. QED
  BY <1>1, <1>2, <1>5, <1>6, <1>7, <1>8, <1>9, <1>10, <1>11, GoMoves

(* A tick of a prompt process finds all goroutines gone. *)
LEMMA QueueTickKeeps ==
  ASSUME QueueInv, QueueTick
  PROVE  QueueInv'
<1>1. PICK free : free = {g \in Goroutines : gos[g] = Gone}
  OBVIOUS
<1>2. PICK go : go = CHOOSE f \in Injection(FetchPending, free) : TRUE
  OBVIOUS
<1>3. PICK S, of : S = Range(go) /\ of = [g \in S |-> Inverse(go, FetchPending, free)[g]]
  OBVIOUS
<1>4. /\ UNCHANGED <<items, txns, rejects, applied, prompt, errors>>
      /\ prompt => free = Goroutines
      /\ Cardinality(FetchPending) <= Cardinality(free)
      /\ gos' = [g \in Goroutines |->
           IF g \in Range(go)
             THEN LET i == Inverse(go, FetchPending, free)[g]
                  IN [step |-> "waiting", id |-> i, read |-> items[i].retries]
             ELSE gos[g]]
  BY <1>1, <1>2 DEF QueueTick, processVars
<1>5. FetchPending \subseteq Items /\ free \subseteq Goroutines
  BY <1>1 DEF FetchPending
<1>6. go \in Injection(FetchPending, free)
  <2>1. IsFiniteSet(FetchPending) /\ IsFiniteSet(free)
    BY <1>5, FS_Subset, QueueAssumption
  <2>2. Injection(FetchPending, free) # {}
    BY <1>4, <2>1, FreeEnough
  <2>3. QED
    BY <1>2, <2>2, Zenon
<1>7. /\ S \subseteq free
      /\ \A g \in S : of[g] \in FetchPending
      /\ \A g, h \in S : of[g] = of[h] => g = h
  <2>1. /\ Range(go) \subseteq free
        /\ \A g \in Range(go) : Inverse(go, FetchPending, free)[g] \in FetchPending
        /\ \A g, h \in Range(go) :
             Inverse(go, FetchPending, free)[g] = Inverse(go, FetchPending, free)[h] => g = h
    BY <1>6, HandsOut
  <2>2. QED
    BY <1>3, <2>1
<1>8. /\ gos' = [g \in Goroutines |->
             IF g \in S THEN [step |-> "waiting", id |-> of[g], read |-> items[of[g]].retries]
                        ELSE gos[g]]
      /\ \A g \in S : g \in Goroutines /\ of[g] \in Items /\ items[of[g]].status = "pending"
  BY <1>3, <1>4, <1>5, <1>7 DEF FetchPending
<1>9. /\ \A g \in S : /\ gos'[g] \in GoStates /\ gos'[g].step = "waiting"
                      /\ gos'[g].id = of[g] /\ gos'[g].read = items[of[g]].retries
      /\ \A g \in Goroutines : g \notin S => gos'[g] = gos[g]
  <2>1. ASSUME NEW g \in S
        PROVE  /\ gos'[g] \in GoStates /\ gos'[g].step = "waiting"
               /\ gos'[g].id = of[g] /\ gos'[g].read = items[of[g]].retries
    <3>1. items[of[g]].retries \in Nat /\ of[g] \in Items
      BY <1>8, QueueNumbers DEF QueueInv
    <3>2. gos'[g] = [step |-> "waiting", id |-> of[g], read |-> items[of[g]].retries]
      BY <1>8
    <3>3. QED
      BY <3>1, <3>2 DEF GoStates, GoSteps
  <2>2. QED
    BY <1>8, <2>1
<1>10. QueueTypes'
  <2>1. gos' \in [Goroutines -> {Gone} \cup GoStates]
    BY <1>8, <1>9 DEF QueueInv, QueueTypes
  <2>2. QED
    BY <1>4, <2>1 DEF QueueInv, QueueTypes
<1>11. ASSUME NEW i \in Items PROVE ItemOK(i)'
  BY <1>4 DEF QueueInv, ItemOK, Reached
<1>12. ASSUME NEW g \in Goroutines PROVE GoOK(g)'
  <2>1. CASE g \in S
    BY <1>9, <2>1 DEF GoOK
  <2>2. CASE g \notin S
    BY <1>4, <1>9, <2>2 DEF QueueInv, GoOK, Reached
  <2>3. QED
    BY <2>1, <2>2
<1>13. ASSUME prompt
       PROVE  /\ \A g \in Goroutines : GoAlone(g)' /\ GoReads(g)'
              /\ \A i \in Items : Explained(i)'
  <2>1. \A g \in Goroutines : gos[g].step = "gone"
    BY <1>1, <1>4, <1>13 DEF Gone
  <2>2. \A g \in Goroutines : Active(g)' => g \in S
    BY <1>9, <2>1 DEF Active
  <2>3. ASSUME NEW g \in Goroutines PROVE GoAlone(g)'
    BY <1>7, <1>9, <2>2 DEF GoAlone
  <2>4. ASSUME NEW g \in Goroutines PROVE GoReads(g)'
    <3>1. CASE g \in S
      BY <1>4, <1>8, <1>9, <3>1 DEF GoReads
    <3>2. CASE g \notin S
      BY <1>9, <2>1, <3>2 DEF GoReads, Active
    <3>3. QED
      BY <3>1, <3>2
  <2>5. ASSUME NEW i \in Items PROVE Explained(i)'
    <3>1. Explained(i)
      BY <1>13 DEF QueueInv
    <3>2. ~At(i, {"lock"}) /\ ~At(i, {"lock", "retry", "retrySave"})
      BY <2>1 DEF At
    <3>3. Used' = Used
      BY <1>4 DEF Used
    <3>4. QED
      BY <1>4, <3>1, <3>2, <3>3 DEF Explained
  <2>6. QED
    BY <2>3, <2>4, <2>5
<1>14. QED
  BY <1>4, <1>10, <1>11, <1>12, <1>13 DEF QueueInv

(* A crash is an error, and what it interrupts is explained by it. *)
LEMMA CrashDropsGoroutines ==
  ASSUME QueueInv, Error, DropGoroutines
  PROVE  QueueInv'
<1>1. /\ UNCHANGED <<items, txns, rejects, applied, prompt>>
      /\ \A g \in Goroutines : gos'[g].step = "gone"
      /\ gos' \in [Goroutines -> {Gone} \cup GoStates]
  BY DEF DropGoroutines, Gone
<1>2. errors' \in 0..MaxErrors /\ Used' = Used + 1
  <2>1. errors \in 0..MaxErrors /\ MaxErrors \in Nat
    BY ProcessAssumption DEF QueueInv, QueueTypes
  <2>2. errors > 0 /\ errors' = errors - 1
    BY DEF Error
  <2>3. QED
    BY <2>1, <2>2 DEF Used
<1>3. QueueTypes'
  BY <1>1, <1>2 DEF QueueInv, QueueTypes
<1>4. ASSUME NEW i \in Items PROVE ItemOK(i)'
  BY <1>1 DEF QueueInv, ItemOK, Reached
<1>5. ASSUME NEW g \in Goroutines PROVE GoOK(g)' /\ GoAlone(g)' /\ GoReads(g)'
  BY <1>1 DEF GoOK, GoAlone, GoReads, Active
<1>6. ASSUME prompt, NEW i \in Items PROVE Explained(i)'
  <2>1. Explained(i) /\ Used' = Used + 1
    BY <1>2, <1>6 DEF QueueInv
  <2>2. Used \in Nat /\ applied[i] \in Nat /\ items[i].retries \in Nat
    BY QueueNumbers DEF QueueInv
  <2>3. QED
    BY <1>1, <2>1, <2>2 DEF Explained
<1>7. QED
  BY <1>1, <1>3, <1>4, <1>5, <1>6 DEF QueueInv

LEMMA QueueInvStep == QueueInv /\ QueueStep => QueueInv'
<1> SUFFICES ASSUME QueueInv, QueueStep PROVE QueueInv'
  OBVIOUS
<1>1. ASSUME NEW g \in Goroutines, ProcessQueueItem(g) PROVE QueueInv'
  BY <1>1, AdmitKeeps, FetchTransactionKeeps, UpdateBalanceKeeps, UpdateTransactionKeeps,
     MarkCompletedKeeps, ReadRetryKeeps, SaveRetryKeeps, RejectDuplicateKeeps, MarkFailedKeeps
     DEF ProcessQueueItem
<1>2. CASE BreakerCools
  <2>1. /\ UNCHANGED <<items, txns, gos, rejects, applied, prompt>>
        /\ errors' = errors /\ errors \in 0..MaxErrors /\ MaxErrors \in Nat
    BY <1>2, ProcessAssumption DEF BreakerCools, processVars, QueueInv, QueueTypes
  <2>2. errors' \in 0..MaxErrors /\ errors' <= errors
    BY <2>1
  <2>3. QED
    BY <2>1, <2>2, QueueElsewhere
<1>3. QED
  BY <1>1, <1>2, QueueTickKeeps, ItemComesDueKeeps DEF QueueStep

(* What the invariant says of balances and items. *)
LEMMA QueueInvMeans == QueueInv => AppliedAsAsked
<1> SUFFICES ASSUME QueueInv, NEW i \in Items
             PROVE  /\ prompt => applied[i] <= (MaxErrors - errors) + (IF rejects THEN MaxRetries ELSE 1)
                    /\ items[i].status = "completed" => txns[i].status = Goal(i) /\ applied[i] >= 1
  BY DEF AppliedAsAsked
<1>1. items[i].status = "completed" => txns[i].status = Goal(i) /\ applied[i] >= 1
  BY DEF QueueInv, ItemOK, Reached
<1>2. ASSUME prompt PROVE applied[i] <= Used + (IF rejects THEN MaxRetries ELSE 1)
  <2>1. Explained(i)
    BY <1>2 DEF QueueInv
  <2>2. /\ applied[i] \in Nat /\ items[i].retries \in Nat /\ Used \in Nat /\ MaxRetries \in Nat
    BY QueueNumbers DEF QueueInv
  <2>3. At(i, {"lock", "retry", "retrySave"}) => items[i].retries < MaxRetries
    BY <1>2 DEF QueueInv, At, GoReads
  <2>4. QED
    BY <2>1, <2>2, <2>3 DEF Explained
<1>3. QED
  BY <1>1, <1>2 DEF Used

(* A finished item is written by no one. *)
LEMMA DoneStays ==
  ASSUME QueueInv, prompt, NEW i \in Items, Done(i),
         QueueStep \/ \E j \in Items : Enqueue(j)
  PROVE  items'[i] = items[i]
<1>1. items \in [Items -> ItemRows] /\ items[i].status \in {"completed", "failed"}
  BY DEF QueueInv, QueueTypes, Done
<1>2. ASSUME NEW j \in Items, Enqueue(j) \/ ItemComesDue(j) PROVE items'[i] = items[i]
  BY <1>1, <1>2 DEF Enqueue, ItemComesDue, NoItem
<1>3. ASSUME NEW g \in Goroutines, ProcessQueueItem(g) PROVE items'[i] = items[i]
  <2>1. Active(g)
    BY <1>3 DEF ProcessQueueItem, Admit, FetchTransaction, UpdateBalance, UpdateTransaction,
       MarkCompleted, ReadRetry, SaveRetry, RejectDuplicate, MarkFailed, Fails, Step,
       StepReading, Finish, Active
  <2>2. gos[g].id # i
    BY <1>1, <2>1 DEF QueueInv, GoReads
  <2>3. QED
    BY <1>1, <1>3, <2>2
       DEF ProcessQueueItem, Admit, FetchTransaction, UpdateBalance, UpdateTransaction,
           MarkCompleted, ReadRetry, SaveRetry, RejectDuplicate, MarkFailed
<1>4. QueueTick \/ BreakerCools => items'[i] = items[i]
  BY DEF QueueTick, BreakerCools
<1>5. QED
  BY <1>2, <1>3, <1>4 DEF QueueStep

-----------------------------------------------------------------------------
(* The three in one process.  They share its speed, which no step changes, *)
(* and the errors it has left, which a step uses one at a time.            *)

WorkersInv == NoticeInv /\ QueueInv /\ ClientInv

LEMMA NoticeStepShares ==
  ASSUME NoticeStep
  PROVE  prompt' = prompt /\ (errors' = errors \/ Error)
<1>1. ASSUME NEW s \in Senders, SendWebhook(s) PROVE prompt' = prompt /\ (errors' = errors \/ Error)
  BY <1>1, Zenon DEF SendWebhook, Mark, Post, SaveAttempt, processVars
<1>2. WorkerStep => prompt' = prompt /\ (errors' = errors \/ Error)
  BY DEF WorkerStep, Tick, Retry, RetriesDone, Sweep, processVars
<1>3. NoticeTime => prompt' = prompt /\ (errors' = errors \/ Error)
  BY DEF NoticeTime, DeadlineNears, RetryComesDue, processVars
<1>4. QED
  BY <1>1, <1>2, <1>3 DEF NoticeStep, SenderStep

LEMMA QueueStepShares == QueueStep => prompt' = prompt
<1>1. ASSUME NEW g \in Goroutines, ProcessQueueItem(g) PROVE prompt' = prompt
  BY <1>1 DEF ProcessQueueItem, Admit, FetchTransaction, UpdateBalance, UpdateTransaction,
     MarkCompleted, ReadRetry, SaveRetry, RejectDuplicate, MarkFailed, processVars
<1>2. QueueTick \/ (\E i \in Items : ItemComesDue(i)) \/ BreakerCools => prompt' = prompt
  BY DEF QueueTick, ItemComesDue, BreakerCools, processVars
<1>3. QED
  BY <1>1, <1>2 DEF QueueStep

LEMMA ClientStepShares ==
  ASSUME ClientStep \/ \E c \in PartnerCalls : CallPartner(c)
  PROVE  prompt' = prompt /\ errors' = errors
<1>1. ASSUME NEW c \in PartnerCalls, CallStep(c) PROVE UNCHANGED processVars
  BY <1>1, Zenon DEF CallStep, CheckToken, Authenticate, RequestToken, StoreToken, ReadToken,
     makeRequest
<1>2. TokenAges \/ (\E c \in PartnerCalls : CallPartner(c)) => UNCHANGED processVars
  BY DEF TokenAges, CallPartner
<1>3. QED
  BY <1>1, <1>2 DEF ClientStep, processVars

LEMMA ErrorsAreCounted ==
  ASSUME QueueTypes, errors' = errors \/ Error
  PROVE  errors' \in 0..MaxErrors /\ errors' <= errors
<1>1. errors \in 0..MaxErrors /\ MaxErrors \in Nat
  BY ProcessAssumption DEF QueueTypes
<1>2. errors' = errors \/ (errors > 0 /\ errors' = errors - 1)
  BY DEF Error
<1>3. QED
  BY <1>1, <1>2

LEMMA WorkersInvInit == WorkersInit => WorkersInv
BY NoticeInvInit, QueueInvInit, ClientInvInit DEF WorkersInit, WorkersInv

LEMMA WorkersInvStep == WorkersInv /\ [WorkersNext]_workerVars => WorkersInv'
<1> SUFFICES ASSUME WorkersInv, [WorkersNext]_workerVars PROVE WorkersInv'
  OBVIOUS
<1>1. NoticeInv /\ QueueInv /\ ClientInv /\ QueueTypes
  BY DEF WorkersInv, QueueInv
<1>2. ASSUME UNCHANGED queueTables, prompt' = prompt, errors' = errors \/ Error PROVE QueueInv'
  <2>1. errors' \in 0..MaxErrors /\ errors' <= errors
    BY <1>1, <1>2, ErrorsAreCounted
  <2>2. UNCHANGED <<items, txns, gos, rejects, applied, prompt>>
    BY <1>2 DEF queueTables
  <2>3. QED
    BY <1>1, <2>1, <2>2, QueueElsewhere
<1>3. UNCHANGED noticeTables /\ prompt' = prompt => NoticeInv'
  BY <1>1, NoticesElsewhere
<1>4. UNCHANGED clientTables => ClientInv'
  BY <1>1, ClientElsewhere
<1>5. CASE Request
  <2>1. ASSUME NEW n \in Notices, Notify(n), UNCHANGED <<queueTables, clientTables>>
        PROVE  WorkersInv'
    <3>1. prompt' = prompt /\ errors' = errors
      BY <2>1 DEF Notify, processVars
    <3>2. QED
      BY <1>1, <1>2, <1>4, <2>1, <3>1, NotifyKeeps DEF WorkersInv
  <2>2. ASSUME NEW i \in Items, Enqueue(i), UNCHANGED <<noticeTables, clientTables>>
        PROVE  WorkersInv'
    <3>1. prompt' = prompt
      BY <2>2 DEF Enqueue, processVars
    <3>2. QED
      BY <1>1, <1>3, <1>4, <2>2, <3>1, EnqueueKeeps DEF WorkersInv
  <2>3. ASSUME NEW c \in PartnerCalls, CallPartner(c), UNCHANGED <<noticeTables, queueTables>>
        PROVE  WorkersInv'
    <3>1. prompt' = prompt /\ errors' = errors
      BY <2>3, ClientStepShares
    <3>2. QED
      BY <1>1, <1>2, <1>3, <2>3, <3>1, CallStepKeeps DEF WorkersInv
  <2>4. QED
    BY <1>5, <2>1, <2>2, <2>3 DEF Request
<1>6. CASE NoticeStep /\ UNCHANGED <<queueTables, clientTables>>
  <2>1. prompt' = prompt /\ (errors' = errors \/ Error)
    BY <1>6, NoticeStepShares
  <2>2. QED
    BY <1>1, <1>2, <1>4, <1>6, <2>1, NoticeInvStep DEF WorkersInv
<1>7. CASE QueueStep /\ UNCHANGED <<noticeTables, clientTables>>
  BY <1>1, <1>3, <1>4, <1>7, QueueStepShares, QueueInvStep DEF WorkersInv
<1>8. CASE ClientStep /\ UNCHANGED <<noticeTables, queueTables>>
  <2>1. prompt' = prompt /\ errors' = errors
    BY <1>8, ClientStepShares
  <2>2. QED
    BY <1>1, <1>2, <1>3, <1>8, <2>1, ClientInvStep DEF WorkersInv
<1>9. CASE WorkersCrash
  BY <1>1, <1>9, CrashDropsSenders, CrashDropsGoroutines, CrashDropsCalls
     DEF WorkersCrash, WorkersInv
<1>10. CASE UNCHANGED workerVars
  <2>1. UNCHANGED <<noticeTables, queueTables, clientTables>> /\ prompt' = prompt /\ errors' = errors
    BY <1>10 DEF workerVars, noticeVars, queueVars, clientVars, processVars
  <2>2. QED
    BY <1>2, <1>3, <1>4, <2>1 DEF WorkersInv
<1>11. QED
  BY <1>5, <1>6, <1>7, <1>8, <1>9, <1>10 DEF WorkersNext

LEMMA WorkersInvAlways == WorkersSpec => []WorkersInv
BY WorkersInvInit, WorkersInvStep, PTL DEF WorkersSpec

-----------------------------------------------------------------------------
(* For any notices, sweepers and bounds, and beside the other workers: in a *)
(* prompt process every POST to the regulator is counted on the row, in     *)
(* spite of retries, sweeps, errors of the database, and crashes.           *)
THEOREM RequestsDoCount == WorkersSpec => []RequestsAreCounted
BY WorkersInvAlways, NoticeInvMeans, PTL DEF WorkersInv

(* At any speed, a notice is given up only if the regulator refused it or   *)
(* config.MaxRetries requests were made.                                    *)
THEOREM GivingUpHasCause == WorkersSpec => []GivesUpOnlyForCause
BY WorkersInvAlways, NoticeInvMeans, PTL DEF WorkersInv

(* At any speed, a row that MarkAsSent marked was received, and in time if  *)
(* the row says so.                                                         *)
THEOREM SentMeansReceived == WorkersSpec => []SentWasReceived
BY WorkersInvAlways, NoticeInvMeans, PTL DEF WorkersInv

(* In a prompt process nothing overwrites a notice that was sent or given   *)
(* up: no sender, tick, retry or crash leaves a copy of it to be saved.     *)
THEOREM SettledStaysSettled == WorkersSpec => SettledIsFinal
<1>1. WorkersInv /\ [WorkersNext]_workerVars =>
        [prompt => \A n \in Notices : Settled(n) => rows'[n] = rows[n]]_noticeVars
  <2> SUFFICES ASSUME WorkersInv, [WorkersNext]_workerVars, prompt, NEW n \in Notices, Settled(n)
               PROVE  rows'[n] = rows[n]
    OBVIOUS
  <2>1. NoticeInv
    BY DEF WorkersInv
  <2>2. NoticeStep \/ (\E m \in Notices : Notify(m)) \/ UNCHANGED rows
    BY DEF WorkersNext, Request, WorkersCrash, DropSenders, noticeTables, workerVars, noticeVars
  <2>3. QED
    BY <2>1, <2>2, SettledStays
<1>2. QED
  BY <1>1, WorkersInvAlways, PTL DEF WorkersSpec, SettledIsFinal

(* For any items, workers and retries: an operation of the queue changes    *)
(* the balance once, and once more only for each error or crash, or for     *)
(* each retry when the update of the transaction is always rejected; and a  *)
(* completed item did change it and its transaction.                        *)
THEOREM BalancesChangeAsAsked == WorkersSpec => []AppliedAsAsked
BY WorkersInvAlways, QueueInvMeans, PTL DEF WorkersInv

(* In a prompt process a completed or failed item is not set back to        *)
(* pending by IncrementRetry, nor marked again.                             *)
THEOREM FinishedStaysFinished == WorkersSpec => ItemsAreFinal
<1>1. WorkersInv /\ [WorkersNext]_workerVars =>
        [prompt => \A i \in Items : Done(i) => items'[i] = items[i]]_queueVars
  <2> SUFFICES ASSUME WorkersInv, [WorkersNext]_workerVars, prompt, NEW i \in Items, Done(i)
               PROVE  items'[i] = items[i]
    OBVIOUS
  <2>1. QueueInv
    BY DEF WorkersInv
  <2>2. QueueStep \/ (\E j \in Items : Enqueue(j)) \/ UNCHANGED items
    BY DEF WorkersNext, Request, WorkersCrash, DropGoroutines, queueTables, workerVars, queueVars
  <2>3. QED
    BY <2>1, <2>2, DoneStays
<1>2. QED
  BY <1>1, WorkersInvAlways, PTL DEF WorkersSpec, ItemsAreFinal

(* For any number of callers of NorthWind's client: with authentication on, *)
(* no request goes out without a token, or with one that was never good     *)
(* while its call ran, however the callers' locks interleave.               *)
THEOREM RequestsDoCarryTokens == WorkersSpec => []RequestsCarryTokens
<1>1. WorkersInv => RequestsCarryTokens
  BY DEF WorkersInv, ClientInv, CallOK, RequestsCarryTokens
<1>2. QED
  BY <1>1, WorkersInvAlways, PTL
=============================================================================
