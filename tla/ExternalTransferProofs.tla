------------------------ MODULE ExternalTransferProofs ------------------------
(***************************************************************************)
(* Theorems about ExternalTransfer for every set of initiations, polls,    *)
(* keys and accounts and every value of its other constants.               *)
(***************************************************************************)
EXTENDS ExternalTransfer, TLAPS

-----------------------------------------------------------------------------
(* The inductive invariant: types, and what holds of each row, of each       *)
(* initiation and of each poll, by the statement its request runs next.      *)

Outcomes == {"completed", "failed"}

ExternalTypes ==
  /\ xRows \in [Keys -> ExternalRow \cup {NoRow}]
  /\ northwind \in [Initiations -> {"none", "pending"} \cup Outcomes]
  /\ xPc \in [XRequests -> {"idle"} \cup IOpen \cup POpen \cup XEnded]
  /\ xJob \in [Initiations -> ExternalJob \cup {NoRequest}]
  /\ pRow \in [Polls -> ExternalRow \cup {NoRow}]
  /\ notices \subseteq Polls \X Keys \X Outcomes

Recorded(m) == \E e \in ledger : e.request = m

(* What a row says that NorthWind does not contradict. *)
Honest(row) ==
  /\ row.status = "completed" => northwind[row.id] = "completed"
  /\ row.status = "processing" => row.accepted /\ northwind[row.id] # "none"
  /\ row.status = "failed" =>
       IF row.accepted THEN northwind[row.id] = "failed"
                       ELSE LostAnswers \/ northwind[row.id] = "none"

(* Only the initiation that inserted a row gives it NorthWind's id, as its *)
(* last statement.                                                         *)
RowOK(k) == xRows[k] # NoRow =>
  LET r == xRows[k].id IN
  /\ xRows[k].key = k
  /\ xPc[r] # "idle" /\ xJob[r].key = k
  /\ xRows[k].accepted => xPc[r] = "accepted"
  /\ Honest(xRows[k])

BeforeInstruct == {"idle", "readAccount", "lookup", "schedule", "debitRow", "reserveRead",
                   "reserveSave", "create", "undoRead", "undoSave", "instruct", "rejected",
                   "scheduled"}
Giving == {"saveFailed", "refundRow", "refundRead", "refundSave", "refused"}
Reserved == {"create", "undoRead", "undoSave", "instruct", "saveProcessing", "accepted"}
              \cup Giving

InitiationOK(r) ==
  /\ xPc[r] \in {"idle"} \cup IOpen \cup XEnded
  /\ xPc[r] # "idle" => xJob[r] \in ExternalJob
  /\ xPc[r] \in BeforeInstruct => northwind[r] = "none"
  /\ xPc[r] \in {"saveProcessing", "accepted"} => northwind[r] # "none"
  /\ xPc[r] \in Giving => LostAnswers \/ northwind[r] = "none"
  /\ xPc[r] \in {"reserveRead", "reserveSave"} => Recorded(<<r, "reserve">>)
  /\ xPc[r] \in Reserved \/ northwind[r] # "none" => <<r, "reserve">> \in posted
  /\ xPc[r] \in {"instruct", "saveProcessing", "accepted"} \/ northwind[r] # "none" =>
       xRows[xJob[r].key].id = r
  /\ xPc[r] \in {"instruct", "saveProcessing", "saveFailed"} =>
       /\ xRows[xJob[r].key].id = r
       /\ xRows[xJob[r].key].status = "pending"
       /\ ~xRows[xJob[r].key].accepted
  /\ RefundedBy(r) => /\ <<r, "reserve">> \in posted
                      /\ LostAnswers \/ northwind[r] = "none"
                      /\ xPc[r] \in {"rejected", "refused", "crashed"}

PollOK(p) ==
  /\ xPc[p] \in {"idle"} \cup POpen \cup XEnded
  /\ xPc[p] \in POpen =>
       /\ pRow[p] \in ExternalRow /\ pRow[p].accepted /\ Honest(pRow[p])
       /\ xRows[pRow[p].key].id = pRow[p].id
       /\ xPc[pRow[p].id] = "accepted"
  /\ xPc[p] \in {"payRow", "payRead", "paySave", "fail"} => northwind[pRow[p].id] = "failed"
  /\ xPc[p] \in {"payRead", "paySave"} => Recorded(<<p, "refund">>)
  /\ RefundedBy(p) => /\ xPc[p] # "idle" /\ pRow[p] \in ExternalRow
                      /\ <<pRow[p].id, "reserve">> \in posted
                      /\ northwind[pRow[p].id] = "failed"
                      /\ xPc[pRow[p].id] = "accepted"

PostsAreRecorded == \A m \in posted : m \in Initiations \X {"refund"} \/ Recorded(m)

ExternalInv ==
  /\ ExternalTypes
  /\ \A k \in Keys : RowOK(k)
  /\ \A r \in Initiations : InitiationOK(r)
  /\ \A p \in Polls : PollOK(p)
  /\ PostsAreRecorded
  /\ NoticesAgree

LEMMA ExternalInvInit == ExternalInit => ExternalInv
BY ExternalAssumption
   DEF ExternalInit, StoreInit, ExternalInv, ExternalTypes, RowOK, InitiationOK, PollOK, PostsAreRecorded,
       NoticesAgree, RefundedBy, NoRow, XRequests, BeforeInstruct, Giving, Reserved, IOpen, POpen, XEnded

-----------------------------------------------------------------------------
(* What a statement of one request leaves alone. *)

Grows(r) ==
  /\ ledger \subseteq ledger' /\ posted \subseteq posted'
  /\ posted' \ posted \subseteq {r} \X Movements

(* An initiation writes only its own row, and only before it is accepted. *)
OfInitiation(r) ==
  /\ xPc[r] # "accepted"
  /\ \A q \in XRequests \ {r} : xPc'[q] = xPc[q]
  /\ \A q \in Initiations \ {r} : xJob'[q] = xJob[q] /\ northwind'[q] = northwind[q]
  /\ northwind[r] \in {"none", northwind'[r]}
  /\ \A k \in Keys : \/ xRows'[k] = xRows[k]
                     \/ xRows[k].id \in {r, NoRequest} /\ xRows'[k].id = r
  /\ Grows(r)
  /\ UNCHANGED <<pRow, notices>>

(* A poll writes only rows that their initiations are done with. *)
OfPoll(p) ==
  /\ \A q \in XRequests \ {p} : xPc'[q] = xPc[q]
  /\ \A q \in Polls \ {p} : pRow'[q] = pRow[q]
  /\ \A k \in Keys : \/ xRows'[k] = xRows[k]
                     \/ /\ xRows[k] # NoRow
                        /\ xRows'[k].id = xRows[k].id
                        /\ xPc[xRows[k].id] = "accepted"
  /\ Grows(p)
  /\ UNCHANGED <<northwind, xJob>>

LEMMA RowTypes ==
  ASSUME ExternalTypes, NEW k \in Keys
  PROVE  /\ xRows[k] # NoRow <=> xRows[k].id \in Initiations
         /\ xRows[k] # NoRow <=> xRows[k].id # NoRequest
         /\ xRows[k] # NoRow => xRows[k] \in ExternalRow
BY ExternalAssumption DEF ExternalTypes, ExternalRow, NoRow

LEMMA InitiationSparesInitiations ==
  ASSUME ExternalInv, NEW r \in Initiations, OfInitiation(r), NEW q \in Initiations, q # r
  PROVE  InitiationOK(q)'
<1> DEFINE k == xJob[q].key
<1>1. InitiationOK(q) /\ q # NoRequest /\ q \in XRequests
  BY ExternalAssumption DEF ExternalInv, XRequests
<1>2. xPc'[q] = xPc[q] /\ xJob'[q] = xJob[q] /\ northwind'[q] = northwind[q]
  BY <1>1 DEF OfInitiation
<1>3. xPc[q] # "idle" => k \in Keys
  BY <1>1 DEF InitiationOK, ExternalJob
<1>4. xPc[q] # "idle" /\ xRows[k].id = q => xRows'[k] = xRows[k]
  BY <1>1, <1>3 DEF OfInitiation
<1>5. northwind[q] # "none" => xPc[q] # "idle"
  BY <1>1 DEF InitiationOK, BeforeInstruct
<1>6. \A m \in Movements : <<q, m>> \in posted' <=> <<q, m>> \in posted
  BY DEF OfInitiation, Grows
<1>7. Recorded(<<q, "reserve">>) => Recorded(<<q, "reserve">>)'
  BY DEF OfInitiation, Grows, Recorded
<1>8. QED
  BY <1>1, <1>2, <1>4, <1>5, <1>6, <1>7 DEF InitiationOK, RefundedBy, Movements

LEMMA InitiationSparesPolls ==
  ASSUME ExternalInv, NEW r \in Initiations, OfInitiation(r), NEW p \in Polls
  PROVE  PollOK(p)'
<1>1. PollOK(p) /\ p # r /\ p \in XRequests /\ pRow' = pRow /\ xPc'[p] = xPc[p]
  BY ExternalAssumption DEF ExternalInv, XRequests, OfInitiation
<1>2. xPc[p] \in POpen \/ RefundedBy(p) =>
        /\ pRow[p].id \in Initiations /\ pRow[p].key \in Keys
        /\ xPc[pRow[p].id] = "accepted" /\ pRow[p].id # r
  BY <1>1 DEF PollOK, ExternalRow, OfInitiation
<1>3. xPc[p] \in POpen \/ RefundedBy(p) =>
        /\ xPc'[pRow[p].id] = xPc[pRow[p].id] /\ northwind'[pRow[p].id] = northwind[pRow[p].id]
  BY <1>2 DEF OfInitiation, XRequests
<1>4. xPc[p] \in POpen => xRows'[pRow[p].key].id = xRows[pRow[p].key].id
  BY <1>1, <1>2, ExternalAssumption DEF OfInitiation, PollOK
<1>5. RefundedBy(p)' <=> RefundedBy(p)
  BY <1>1 DEF OfInitiation, Grows, RefundedBy
<1>6. posted \subseteq posted' /\ (Recorded(<<p, "refund">>) => Recorded(<<p, "refund">>)')
  BY DEF OfInitiation, Grows, Recorded
<1>7. QED
  BY <1>1, <1>2, <1>3, <1>4, <1>5, <1>6 DEF PollOK, Honest, POpen

LEMMA InitiationSparesNotices ==
  ASSUME ExternalInv, NEW r \in Initiations, OfInitiation(r)
  PROVE  NoticesAgree'
<1>1. SUFFICES ASSUME NEW n \in notices
               PROVE  xRows'[n[2]] # NoRow /\ northwind'[xRows'[n[2]].id] = n[3]
  BY DEF NoticesAgree, OfInitiation
<1> DEFINE k == n[2]
<1>2. /\ k \in Keys /\ n[3] \in Outcomes
      /\ xRows[k] # NoRow /\ northwind[xRows[k].id] = n[3]
  BY DEF ExternalInv, ExternalTypes, NoticesAgree
<1>3. xRows[k].id \in Initiations /\ xRows'[k].id = xRows[k].id /\ xRows'[k] # NoRow
  BY <1>2, RowTypes, ExternalAssumption DEF ExternalInv, OfInitiation, NoRow
<1>4. northwind'[xRows[k].id] = northwind[xRows[k].id]
  BY <1>2, <1>3 DEF OfInitiation, Outcomes
<1>5. QED
  BY <1>2, <1>3, <1>4

LEMMA InitiationSparesRows ==
  ASSUME ExternalInv, NEW r \in Initiations, OfInitiation(r),
         NEW k \in Keys, xRows'[k] = xRows[k], xRows[k].id # r
  PROVE  RowOK(k)'
<1>1. xRows[k] # NoRow => xRows[k].id \in Initiations \ {r}
  BY RowTypes DEF ExternalInv
<1>2. QED
  BY <1>1 DEF ExternalInv, RowOK, Honest, OfInitiation, XRequests

(* So a statement of an initiation is right if it leaves its own request, and *)
(* the rows of that request, right.                                           *)
LEMMA InitiationKeeps ==
  ASSUME ExternalInv, NEW r \in Initiations, OfInitiation(r),
         ExternalTypes', InitiationOK(r)', PostsAreRecorded',
         \A k \in Keys : xRows'[k] # xRows[k] \/ xRows[k].id = r => RowOK(k)'
  PROVE  ExternalInv'
BY InitiationSparesInitiations, InitiationSparesPolls, InitiationSparesNotices,
   InitiationSparesRows
   DEF ExternalInv

(* Most statements of an initiation write no row and tell NorthWind nothing. *)
LEMMA QuietInitiation ==
  ASSUME ExternalInv, NEW r \in Initiations, NEW from \in IOpen, NEW to \in IOpen \cup XEnded,
         XGoto(r, from, to), UNCHANGED <<xRows, northwind, xJob, pRow, notices>>,
         Grows(r), InitiationOK(r)', PostsAreRecorded'
  PROVE  ExternalInv'
<1>1. /\ xPc[r] = from /\ xPc' = [xPc EXCEPT ![r] = to] /\ r \in XRequests
      /\ xPc[r] \notin {"idle", "accepted"} /\ xPc'[r] = to /\ to # "idle"
  BY DEF XGoto, IOpen, XEnded, ExternalInv, ExternalTypes, XRequests
<1>2. OfInitiation(r)
  BY <1>1 DEF OfInitiation, ExternalInv, ExternalTypes
<1>3. ExternalTypes'
  BY <1>1 DEF ExternalInv, ExternalTypes
<1>4. ASSUME NEW k \in Keys, xRows[k].id = r PROVE RowOK(k)'
  BY <1>1, <1>4, RowTypes DEF ExternalInv, RowOK, Honest
<1>5. QED
  BY <1>2, <1>3, <1>4, InitiationKeeps

LEMMA PostsStay == ASSUME PostsAreRecorded, posted' = posted, ledger \subseteq ledger'
                   PROVE  PostsAreRecorded'
BY DEF PostsAreRecorded, Recorded

(* ... and many of them move no money either. *)
LEMMA MovesNoMoney ==
  ASSUME ExternalInv, NEW r \in Initiations, NEW from \in IOpen, NEW to \in IOpen \cup XEnded,
         XGoto(r, from, to), UNCHANGED <<xRows, northwind, xJob, pRow, notices, posted>>,
         ledger \subseteq ledger',
         to \in BeforeInstruct => from \in BeforeInstruct,
         to \notin {"saveProcessing", "accepted", "instruct", "saveFailed", "crashed"},
         to \in Giving => from \in Giving,
         to \in {"reserveRead", "reserveSave"} =>
           from \in {"reserveRead", "reserveSave"} \/ Recorded(<<r, "reserve">>)',
         to \in Reserved => from \in Reserved
  PROVE  ExternalInv'
<1>1. /\ xPc[r] = from /\ xPc' = [xPc EXCEPT ![r] = to] /\ r \in XRequests
      /\ xPc[r] \notin {"idle", "accepted"} /\ xPc'[r] = to /\ to # "idle"
      /\ xPc[r] \notin {"rejected", "refused", "crashed"}
  BY DEF XGoto, IOpen, XEnded, ExternalInv, ExternalTypes, XRequests
<1>2. InitiationOK(r) /\ PostsAreRecorded
  BY DEF ExternalInv
<1>3. Recorded(<<r, "reserve">>) => Recorded(<<r, "reserve">>)'
  BY DEF Recorded
<1>4. InitiationOK(r)'
  BY <1>1, <1>2, <1>3 DEF InitiationOK, RefundedBy
<1>5. Grows(r)
  BY DEF Grows
<1>6. QED
  BY <1>2, <1>4, <1>5, PostsStay, QuietInitiation

LEMMA MovementIsRecorded ==
  ASSUME NEW r, NEW m, NEW a, NEW type, NEW amount, NEW before,
         MovementRow(r, m, a, type, amount, before)
  PROVE  Recorded(<<r, m>>)' /\ ledger \subseteq ledger'
<1> DEFINE e == Entry(<<r, m>>, a, type, amount, before, before + Delta(type, amount))
<1>1. ledger' = ledger \cup {e}
  BY DEF MovementRow
<1>2. e.request = <<r, m>>
  BY DEF Entry
<1> HIDE DEF e
<1>3. QED
  BY <1>1, <1>2 DEF Recorded

LEMMA InitiationMoves ==
  ASSUME ExternalInv, NEW r \in Initiations,
         \/ ReadAccount(r) \/ LookUp(r) \/ DebitRow(r) \/ RefundRow(r) \/ InitiationError(r)
         \/ MovementError(r)
  PROVE  ExternalInv'
<1> USE DEF IOpen, XEnded, BeforeInstruct, Giving, Reserved
<1>1. CASE ReadAccount(r)
  BY <1>1, MovesNoMoney DEF ReadAccount, storeVars
<1>2. CASE LookUp(r)
  <2>1. \E to \in {"rejected", "schedule", "debitRow"} : XGoto(r, "lookup", to)
    BY <1>2 DEF LookUp
  <2>2. QED
    BY <1>2, <2>1, MovesNoMoney DEF LookUp, storeVars
<1>3. CASE DebitRow(r)
  <2>1. Recorded(<<r, "reserve">>)' /\ ledger \subseteq ledger'
    BY <1>3, MovementIsRecorded DEF DebitRow
  <2>2. \E to \in {"reserveRead", "rejected"} : XGoto(r, "debitRow", to)
    BY <1>3 DEF DebitRow
  <2>3. QED
    BY <1>3, <2>1, <2>2, MovesNoMoney DEF DebitRow
<1>4. CASE RefundRow(r)
  <2>1. ledger \subseteq ledger'
    BY <1>4, MovementIsRecorded DEF RefundRow
  <2>2. QED
    BY <1>4, <2>1, MovesNoMoney DEF RefundRow
<1>5. CASE InitiationError(r)
  BY <1>5, MovesNoMoney DEF InitiationError, storeVars
<1>6. CASE MovementError(r)
  <2>1. InitiationOK(r)
    BY DEF ExternalInv
  <2>2. PICK from \in {"reserveRead", "reserveSave", "undoRead", "undoSave", "refundRead",
                      "refundSave", "payRead", "paySave"},
             to \in {"rejected", "refused", "fail"} :
          /\ XGoto(r, from, to)
          /\ to = "refused" <=> from \in {"refundRead", "refundSave"}
          /\ to = "fail" => from \in {"payRead", "paySave"}
    BY <1>6 DEF MovementError, MoveFails
  <2>3. from \notin {"payRead", "paySave"}
    BY <2>1, <2>2 DEF XGoto, InitiationOK
  <2>4. UNCHANGED <<ledger, posted, xRows, northwind, xJob, pRow, notices>>
    BY <1>6 DEF MovementError, MoveFails
  <2>5. QED
    BY <2>2, <2>3, <2>4, MovesNoMoney
<1>7. QED
  BY <1>1, <1>2, <1>3, <1>4, <1>5, <1>6

LEMMA InitiationCalled ==
  ASSUME ExternalInv, NEW r \in Initiations, CallInitiate(r)
  PROVE  ExternalInv'
<1>1. PICK j \in ExternalJob, to \in {"readAccount", "rejected"} :
        /\ xPc[r] = "idle" /\ xPc' = [xPc EXCEPT ![r] = to]
        /\ xJob' = [xJob EXCEPT ![r] = j]
  BY DEF CallInitiate
<1>2. UNCHANGED <<ledger, posted, xRows, northwind, pRow, notices>>
  BY DEF CallInitiate, storeVars
<1>3. r \in XRequests /\ xPc'[r] = to /\ xJob'[r] = j
  BY <1>1 DEF ExternalInv, ExternalTypes, XRequests
<1>4. OfInitiation(r)
  BY <1>1, <1>2 DEF OfInitiation, Grows, ExternalInv, ExternalTypes
<1>5. ExternalTypes'
  BY <1>1, <1>2 DEF ExternalInv, ExternalTypes, IOpen, XEnded
<1>6. InitiationOK(r)
  BY DEF ExternalInv
<1>7. InitiationOK(r)'
  BY <1>1, <1>2, <1>3, <1>6 DEF InitiationOK, RefundedBy, BeforeInstruct, Giving, Reserved, IOpen, XEnded
<1>8. \A k \in Keys : xRows[k].id # r
  BY <1>1, RowTypes DEF ExternalInv, RowOK
<1>9. QED
  BY <1>2, <1>4, <1>5, <1>7, <1>8, PostsStay, InitiationKeeps DEF ExternalInv

(* The reservation, after its transactions row; and its two refunds. *)
LEMMA InitiationPays ==
  ASSUME ExternalInv, NEW r \in Initiations, Reserve(r) \/ Undo(r) \/ Refund(r)
  PROVE  ExternalInv'
<1> USE DEF IOpen, XEnded, BeforeInstruct, Giving, Reserved
<1>1. InitiationOK(r) /\ PostsAreRecorded
  BY DEF ExternalInv
<1>2. ASSUME NEW m \in Movements, NEW a, NEW type, NEW amount, NEW from \in IOpen,
             NEW to \in IOpen, NEW otherwise \in XEnded,
             MoveRead(r, m, a, type, amount, from, to, otherwise),
             <<from, to, otherwise>> \in
               {<<"reserveRead", "reserveSave", "rejected">>,
                <<"undoRead", "undoSave", "rejected">>,
                <<"refundRead", "refundSave", "refused">>}
      PROVE  ExternalInv'
  BY <1>2, MovesNoMoney DEF MoveRead
<1>3. ASSUME NEW m \in Movements, NEW a, NEW type, NEW amount, NEW from \in IOpen,
             NEW to \in IOpen \cup XEnded, NEW otherwise \in XEnded,
             MoveSave(r, m, a, type, amount, from, to, otherwise),
             <<m, from, to, otherwise>> \in
               {<<"reserve", "reserveSave", "create", "rejected">>,
                <<"refund", "undoSave", "rejected", "rejected">>,
                <<"refund", "refundSave", "refused", "refused">>}
      PROVE  ExternalInv'
  <2>1. PICK next \in {to, otherwise} : XGoto(r, from, next)
    BY <1>3 DEF MoveSave
  <2>2. /\ xPc[r] = from /\ xPc'[r] = next
    BY <2>1 DEF XGoto, ExternalInv, ExternalTypes, XRequests
  <2>3. /\ posted' = posted \cup {<<r, m>>}
        /\ UNCHANGED <<ledger, xRows, northwind, xJob, pRow, notices>>
    BY <1>3 DEF MoveSave, UpdateBalanceSave
  <2>4. Grows(r)
    BY <2>3 DEF Grows
  <2>5. InitiationOK(r)'
    BY <1>1, <1>3, <2>2, <2>3 DEF InitiationOK, RefundedBy, Recorded
  <2>6. PostsAreRecorded'
    BY <1>1, <1>3, <2>2, <2>3 DEF PostsAreRecorded, Recorded, InitiationOK
  <2>7. QED
    BY <1>3, <2>1, <2>3, <2>4, <2>5, <2>6, QuietInitiation
<1>4. QED
  BY <1>2, <1>3 DEF Reserve, Undo, Refund, Movements

(* The INSERT: the row is the request's own from the start. *)
LEMMA InitiationInserts ==
  ASSUME ExternalInv, NEW r \in Initiations, Schedule(r) \/ CreateRow(r)
  PROVE  ExternalInv'
<1> DEFINE k == xJob[r].key
           row == [id |-> r, key |-> k, accepted |-> FALSE, status |-> "pending"]
<1> USE DEF IOpen, XEnded, BeforeInstruct, Giving, Reserved
<1>1. InitiationOK(r) /\ PostsAreRecorded /\ r \in XRequests
  BY DEF ExternalInv, XRequests
<1>2. PICK from \in {"schedule", "create"},
           to \in {"scheduled", "rejected", "instruct", "undoRead"} :
        /\ XGoto(r, from, to)
        /\ <<from, to>> \in {<<"schedule", "scheduled">>, <<"schedule", "rejected">>,
                             <<"create", "instruct">>, <<"create", "undoRead">>}
        /\ \/ to # "instruct" /\ xRows' = xRows
           \/ xRows[k] = NoRow /\ xRows' = [xRows EXCEPT ![k] = row]
  BY DEF Schedule, CreateRow, InsertRow
<1>3. UNCHANGED <<ledger, posted, northwind, xJob, pRow, notices>>
  BY DEF Schedule, CreateRow, storeVars
<1>4. CASE xRows' = xRows /\ to # "instruct"
  BY <1>2, <1>3, <1>4, MovesNoMoney, ZenonT(60)
<1>5. CASE xRows[k] = NoRow /\ xRows' = [xRows EXCEPT ![k] = row]
  <2>1. xPc[r] = from /\ xPc' = [xPc EXCEPT ![r] = to] /\ xPc'[r] = to
    BY <1>1, <1>2 DEF XGoto, ExternalInv, ExternalTypes
  <2>2. k \in Keys /\ row \in ExternalRow
    BY <1>1, <2>1 DEF InitiationOK, ExternalJob, ExternalRow
  <2>3. ExternalTypes'
    BY <1>3, <1>5, <2>1, <2>2 DEF ExternalInv, ExternalTypes
  <2>4. xRows'[k] = row /\ \A l \in Keys \ {k} : xRows'[l] = xRows[l]
    BY <1>5, <2>2 DEF ExternalInv, ExternalTypes
  <2>5. OfInitiation(r)
    BY <1>3, <1>5, <2>1, <2>2, <2>4 DEF OfInitiation, Grows, ExternalInv, ExternalTypes, NoRow
  <2>6. InitiationOK(r)'
    BY <1>1, <1>2, <1>3, <2>1, <2>4 DEF InitiationOK, RefundedBy, Recorded
  <2>7. RowOK(k)'
    BY <1>1, <1>3, <2>1, <2>4 DEF RowOK, Honest
  <2>8. \A l \in Keys \ {k} : xRows[l].id # r
    BY <1>1, <2>1, RowTypes DEF ExternalInv, RowOK
  <2>9. QED
    BY <1>1, <1>3, <2>3, <2>4, <2>5, <2>6, <2>7, <2>8, PostsStay, InitiationKeeps
<1>6. QED
  BY <1>2, <1>4, <1>5

(* The instruction, and the save of its outcome in the row. *)
LEMMA InitiationInstructs ==
  ASSUME ExternalInv, NEW r \in Initiations, Instruct(r) \/ SaveProcessing(r) \/ SaveFailed(r)
  PROVE  ExternalInv'
<1> DEFINE k == xJob[r].key
<1> USE DEF IOpen, XEnded, BeforeInstruct, Giving, Reserved
<1>1. InitiationOK(r) /\ PostsAreRecorded /\ r \in XRequests
  BY DEF ExternalInv, XRequests
<1>2. PICK from \in {"instruct", "saveProcessing", "saveFailed"},
           to \in {"saveProcessing", "saveFailed", "accepted", "refundRow"} :
        /\ XGoto(r, from, to)
        /\ <<from, to>> \in {<<"instruct", "saveProcessing">>, <<"instruct", "saveFailed">>,
                             <<"saveProcessing", "accepted">>, <<"saveFailed", "refundRow">>}
  BY DEF Instruct, SaveProcessing, SaveFailed
<1>3. xPc[r] = from /\ xPc' = [xPc EXCEPT ![r] = to] /\ xPc'[r] = to
  BY <1>1, <1>2 DEF XGoto, ExternalInv, ExternalTypes
<1>4. UNCHANGED <<ledger, posted, xJob, pRow, notices>>
  BY DEF Instruct, SaveProcessing, SaveFailed, storeVars
<1>5. /\ k \in Keys /\ xRows[k] \in ExternalRow /\ xRows[k].id = r /\ xRows[k].key = k
      /\ xRows[k].status = "pending" /\ ~xRows[k].accepted
  BY <1>1, <1>3, RowTypes DEF InitiationOK, ExternalJob, ExternalInv, RowOK
<1>6. \A l \in Keys \ {k} : xRows[l].id # r
  BY <1>1, <1>3, RowTypes DEF ExternalInv, RowOK
<1>7. PostsAreRecorded'
  BY <1>1, <1>4, PostsStay
<1>8. CASE Instruct(r)
  <2>1. /\ from = "instruct" /\ xRows' = xRows
        /\ \/ to = "saveProcessing" /\ northwind' = [northwind EXCEPT ![r] = "pending"]
           \/ to = "saveFailed" /\ northwind' = northwind
           \/ /\ to = "saveFailed" /\ LostAnswers
              /\ northwind' = [northwind EXCEPT ![r] = "pending"]
    BY <1>3, <1>8 DEF Instruct, XGoto
  <2>2. northwind[r] = "none"
    BY <1>1, <1>3, <2>1 DEF InitiationOK
  <2>3. ExternalTypes'
    BY <1>3, <1>4, <2>1 DEF ExternalInv, ExternalTypes
  <2>4. OfInitiation(r)
    BY <1>3, <1>4, <2>1, <2>2 DEF OfInitiation, Grows, ExternalInv, ExternalTypes
  <2>5. InitiationOK(r)'
    BY <1>1, <1>3, <1>4, <1>5, <2>1, <2>2
       DEF InitiationOK, RefundedBy, ExternalInv, ExternalTypes
  <2>6. RowOK(k)'
    BY <1>3, <1>4, <1>5, <2>1 DEF RowOK, Honest, ExternalInv
  <2>7. QED
    BY <1>4, <1>6, <1>7, <2>1, <2>3, <2>4, <2>5, <2>6, InitiationKeeps
<1>9. CASE SaveProcessing(r) \/ SaveFailed(r)
  <2> DEFINE saved == IF from = "saveProcessing"
                        THEN [xRows[k] EXCEPT !.status = "processing", !.accepted = TRUE]
                        ELSE [xRows[k] EXCEPT !.status = "failed"]
  <2>1. /\ from \in {"saveProcessing", "saveFailed"} /\ northwind' = northwind
        /\ xRows' = xRows \/ xRows' = [xRows EXCEPT ![k] = saved]
    BY <1>3, <1>9 DEF SaveProcessing, SaveFailed, SaveRow, XGoto
  <2>2. /\ saved \in ExternalRow /\ saved.id = r /\ saved.key = k
        /\ from = "saveProcessing" => saved.status = "processing" /\ saved.accepted
        /\ from = "saveFailed" => saved.status = "failed" /\ ~saved.accepted
    BY <1>5, <2>1 DEF ExternalRow
  <2> HIDE DEF saved
  <2>3. /\ xRows'[k] \in {xRows[k], saved}
        /\ \A l \in Keys \ {k} : xRows'[l] = xRows[l]
    BY <1>5, <2>1 DEF ExternalInv, ExternalTypes
  <2>4. ExternalTypes'
    BY <1>3, <1>4, <2>1, <2>2 DEF ExternalInv, ExternalTypes
  <2>5. OfInitiation(r)
    BY <1>3, <1>4, <1>5, <2>1, <2>2, <2>3
       DEF OfInitiation, Grows, ExternalInv, ExternalTypes
  <2>6. InitiationOK(r)'
    BY <1>1, <1>2, <1>3, <1>4, <1>5, <2>1, <2>2, <2>3 DEF InitiationOK, RefundedBy
  <2>7. RowOK(k)'
    <3>1. northwind[r] # "none" \/ from = "saveFailed"
      BY <1>1, <1>3, <2>1 DEF InitiationOK
    <3>2. from = "saveFailed" => LostAnswers \/ northwind[r] = "none"
      BY <1>1, <1>3 DEF InitiationOK
    <3>3. from = "saveProcessing" => to = "accepted"
      BY <1>2
    <3>4. CASE xRows'[k] = saved
      BY <1>3, <1>4, <2>1, <2>2, <3>1, <3>2, <3>3, <3>4 DEF RowOK, Honest
    <3>5. CASE xRows'[k] = xRows[k]
      BY <1>3, <1>4, <1>5, <3>5 DEF RowOK, Honest
    <3>6. QED
      BY <2>3, <3>4, <3>5
  <2>8. QED
    BY <1>4, <1>6, <1>7, <2>3, <2>4, <2>5, <2>6, <2>7, InitiationKeeps
<1>10. QED
  BY <1>8, <1>9

(* NorthWind decides what is pending there: nothing said so far is belied. *)
LEMMA NorthWindDecides ==
  ASSUME ExternalInv, NEW r \in Initiations, NorthWindStep(r)
  PROVE  ExternalInv'
<1>1. PICK outcome \in Outcomes :
        northwind[r] = "pending" /\ northwind' = [northwind EXCEPT ![r] = outcome]
  BY DEF NorthWindStep, Outcomes
<1>2. UNCHANGED <<ledger, posted, xRows, xPc, xJob, pRow, notices>>
  BY DEF NorthWindStep, storeVars
<1>3. /\ northwind'[r] = outcome /\ outcome # "none"
      /\ \A q \in Initiations \ {r} : northwind'[q] = northwind[q]
  BY <1>1 DEF ExternalInv, ExternalTypes, Outcomes
<1>4. ExternalTypes' /\ PostsAreRecorded'
  BY <1>1, <1>2, PostsStay DEF ExternalInv, ExternalTypes
<1>5. \A row \in ExternalRow : Honest(row) => Honest(row)'
  BY <1>1, <1>3 DEF Honest, ExternalRow
<1>6. ASSUME NEW k \in Keys PROVE RowOK(k)'
  BY <1>2, <1>5, RowTypes DEF ExternalInv, RowOK
<1>7. ASSUME NEW q \in Initiations PROVE InitiationOK(q)'
  BY <1>1, <1>2, <1>3 DEF ExternalInv, InitiationOK, RefundedBy, Recorded
<1>8. ASSUME NEW p \in Polls PROVE PollOK(p)'
  BY <1>1, <1>2, <1>3, <1>5 DEF ExternalInv, PollOK, RefundedBy, Recorded, ExternalRow
<1>9. NoticesAgree'
  <2>1. SUFFICES ASSUME NEW n \in notices PROVE northwind'[xRows[n[2]].id] = n[3]
    BY <1>2 DEF NoticesAgree, ExternalInv
  <2>2. /\ n[2] \in Keys /\ n[3] \in Outcomes
        /\ xRows[n[2]] # NoRow /\ northwind[xRows[n[2]].id] = n[3]
    BY DEF ExternalInv, ExternalTypes, NoticesAgree
  <2>3. QED
    BY <1>1, <1>3, <2>2, RowTypes DEF ExternalInv, Outcomes
<1>10. QED
  BY <1>4, <1>6, <1>7, <1>8, <1>9 DEF ExternalInv

-----------------------------------------------------------------------------
(* The polls. *)

LEMMA PollSparesInitiations ==
  ASSUME ExternalInv, NEW p \in Polls, OfPoll(p), NEW r \in Initiations
  PROVE  InitiationOK(r)'
<1> DEFINE k == xJob[r].key
<1>1. InitiationOK(r) /\ r # p /\ r \in XRequests /\ r # NoRequest
  BY ExternalAssumption DEF ExternalInv, XRequests
<1>2. xPc'[r] = xPc[r] /\ xJob'[r] = xJob[r] /\ northwind'[r] = northwind[r]
  BY <1>1 DEF OfPoll
<1>3. xPc[r] # "idle" => k \in Keys
  BY <1>1 DEF InitiationOK, ExternalJob
<1>4. xPc[r] # "idle" /\ xRows[k].id = r =>
        /\ xRows'[k].id = r
        /\ xPc[r] # "accepted" => xRows'[k] = xRows[k]
  BY <1>1, <1>3 DEF OfPoll
<1>5. northwind[r] # "none" => xPc[r] # "idle"
  BY <1>1 DEF InitiationOK, BeforeInstruct
<1>6. \A m \in Movements : <<r, m>> \in posted' <=> <<r, m>> \in posted
  BY <1>1 DEF OfPoll, Grows
<1>7. Recorded(<<r, "reserve">>) => Recorded(<<r, "reserve">>)'
  BY DEF OfPoll, Grows, Recorded
<1>8. QED
  BY <1>1, <1>2, <1>4, <1>5, <1>6, <1>7 DEF InitiationOK, RefundedBy, Movements

LEMMA PollSparesPolls ==
  ASSUME ExternalInv, NEW p \in Polls, OfPoll(p), NEW q \in Polls, q # p
  PROVE  PollOK(q)'
<1>1. PollOK(q) /\ q \in XRequests /\ pRow'[q] = pRow[q] /\ xPc'[q] = xPc[q]
  BY DEF ExternalInv, XRequests, OfPoll
<1>2. xPc[q] \in POpen \/ RefundedBy(q) =>
        /\ pRow[q].id \in Initiations /\ pRow[q].key \in Keys /\ pRow[q].id # p
  BY <1>1, ExternalAssumption DEF PollOK, ExternalRow
<1>3. xPc[q] \in POpen \/ RefundedBy(q) =>
        xPc'[pRow[q].id] = xPc[pRow[q].id] /\ northwind' = northwind
  BY <1>2 DEF OfPoll, XRequests
<1>4. xPc[q] \in POpen => xRows'[pRow[q].key].id = xRows[pRow[q].key].id
  BY <1>2 DEF OfPoll
<1>5. RefundedBy(q)' <=> RefundedBy(q)
  BY DEF OfPoll, Grows, RefundedBy
<1>6. posted \subseteq posted' /\ (Recorded(<<q, "refund">>) => Recorded(<<q, "refund">>)')
  BY DEF OfPoll, Grows, Recorded
<1>7. QED
  BY <1>1, <1>2, <1>3, <1>4, <1>5, <1>6 DEF PollOK, Honest, POpen

LEMMA PollSparesRows ==
  ASSUME ExternalInv, NEW p \in Polls, OfPoll(p), NEW k \in Keys, xRows'[k] = xRows[k]
  PROVE  RowOK(k)'
<1>1. xRows[k] # NoRow => xRows[k].id \in Initiations \ {p}
  BY RowTypes, ExternalAssumption DEF ExternalInv
<1>2. QED
  BY <1>1 DEF ExternalInv, RowOK, Honest, OfPoll, XRequests

LEMMA PollSparesNotices ==
  ASSUME ExternalInv, NEW p \in Polls, OfPoll(p), NEW n \in notices
  PROVE  xRows'[n[2]] # NoRow /\ northwind'[xRows'[n[2]].id] = n[3]
<1>1. n[2] \in Keys /\ xRows[n[2]] # NoRow /\ northwind[xRows[n[2]].id] = n[3]
  BY DEF ExternalInv, ExternalTypes, NoticesAgree
<1>2. QED
  BY <1>1, RowTypes DEF ExternalInv, OfPoll, NoRow

(* A poll goes on with the row it has, or with another status of it. *)
GoesOnWith(p, row) ==
  /\ row \in ExternalRow /\ row.accepted /\ Honest(row)
  /\ row.id = pRow[p].id /\ row.key = pRow[p].key
  /\ pRow' = [pRow EXCEPT ![p] = row]

(* A statement of a poll that has a row to work on and saves none. *)
LEMMA PollMoves ==
  ASSUME ExternalInv, NEW p \in Polls, NEW from \in POpen, NEW to \in POpen \cup XEnded,
         XGoto(p, from, to), UNCHANGED <<xRows, northwind, xJob>>, Grows(p),
         NEW row, GoesOnWith(p, row),
         to \in {"payRow", "payRead", "paySave", "fail"} => northwind[row.id] = "failed",
         to \in {"payRead", "paySave"} => Recorded(<<p, "refund">>)',
         RefundedBy(p)' => RefundedBy(p) \/ northwind[row.id] = "failed",
         PostsAreRecorded',
         \/ notices' = notices
         \/ \E outcome \in Outcomes : /\ northwind[row.id] = outcome
                                     /\ notices' = notices \cup {<<p, row.key, outcome>>}
  PROVE  ExternalInv'
<1> USE DEF GoesOnWith
<1>1. PollOK(p) /\ p \in XRequests /\ p \notin Initiations
  BY ExternalAssumption DEF ExternalInv, XRequests
<1>2. xPc[p] = from /\ xPc' = [xPc EXCEPT ![p] = to] /\ xPc'[p] = to /\ pRow'[p] = row
  BY <1>1 DEF XGoto, ExternalInv, ExternalTypes
<1>3. /\ row.id \in Initiations /\ row.key \in Keys /\ xPc[row.id] = "accepted"
      /\ xRows[row.key].id = row.id
  BY <1>1, <1>2 DEF PollOK, ExternalRow
<1>4. OfPoll(p)
  BY <1>2 DEF OfPoll, ExternalInv, ExternalTypes
<1>5. ExternalTypes'
  <2>1. \A outcome \in Outcomes : <<p, row.key, outcome>> \in Polls \X Keys \X Outcomes
    BY <1>3
  <2>2. notices' \subseteq Polls \X Keys \X Outcomes
    BY <2>1 DEF ExternalInv, ExternalTypes
  <2>3. QED
    BY <1>2, <2>2 DEF ExternalInv, ExternalTypes
<1>6. <<row.id, "reserve">> \in posted
  BY <1>3 DEF ExternalInv, InitiationOK, Reserved
<1>7. PollOK(p)'
  <2>1. xPc'[row.id] = "accepted"
    BY <1>1, <1>2, <1>3 DEF ExternalInv, ExternalTypes
  <2>2. Honest(row)'
    BY DEF Honest
  <2>3. RefundedBy(p)' => northwind[row.id] = "failed"
    BY <1>1 DEF PollOK
  <2>4. from # "idle" /\ to # "idle"
    BY DEF POpen, XEnded
  <2>5. posted \subseteq posted'
    BY DEF Grows
  <2>6. QED
    BY <1>2, <1>3, <1>6, <2>1, <2>2, <2>3, <2>4, <2>5 DEF PollOK
<1>8. NoticesAgree'
  <2>1. xRows[row.key] # NoRow
    BY <1>3, RowTypes DEF ExternalInv
  <2>2. ASSUME NEW n \in notices'
        PROVE  xRows'[n[2]] # NoRow /\ northwind'[xRows'[n[2]].id] = n[3]
    <3>1. CASE n \in notices
      BY <1>4, <3>1, PollSparesNotices
    <3>2. CASE n \notin notices
      <4>1. PICK outcome \in Outcomes :
              northwind[row.id] = outcome /\ n = <<p, row.key, outcome>>
        BY <2>2, <3>2
      <4>2. QED
        BY <1>3, <2>1, <4>1
    <3>3. QED
      BY <3>1, <3>2
  <2>3. QED
    BY <2>2 DEF NoticesAgree
<1>9. QED
  BY <1>4, <1>5, <1>7, <1>8, PollSparesInitiations, PollSparesPolls, PollSparesRows
     DEF ExternalInv

(* What a poll knows of the row it works on. *)
LEMMA PolledRow ==
  ASSUME ExternalInv, NEW p \in Polls, xPc[p] \in POpen
  PROVE  /\ pRow[p] \in ExternalRow /\ pRow[p].accepted /\ Honest(pRow[p])
         /\ pRow[p].id \in Initiations /\ pRow[p].key \in Keys
         /\ xRows[pRow[p].key].id = pRow[p].id /\ xPc[pRow[p].id] = "accepted"
         /\ northwind[pRow[p].id] \in {"pending"} \cup Outcomes
         /\ pRow = [pRow EXCEPT ![p] = pRow[p]]
<1>1. PollOK(p) /\ pRow = [pRow EXCEPT ![p] = pRow[p]]
  BY DEF ExternalInv, ExternalTypes
<1>2. pRow[p].id \in Initiations /\ pRow[p].key \in Keys
  BY <1>1 DEF PollOK, ExternalRow
<1>3. northwind[pRow[p].id] # "none" /\ northwind[pRow[p].id] \in {"none", "pending"} \cup Outcomes
  BY <1>1, <1>2 DEF ExternalInv, ExternalTypes, PollOK, InitiationOK
<1>4. QED
  BY <1>1, <1>2, <1>3 DEF PollOK

LEMMA PollAsks ==
  ASSUME ExternalInv, NEW p \in Polls, Ask(p)
  PROVE  ExternalInv'
<1> DEFINE answer == northwind[pRow[p].id]
<1>1. xPc[p] = "ask" /\ "ask" \in POpen
  BY DEF Ask, POpen
<1>2. UNCHANGED <<ledger, posted, xRows, northwind, xJob>> /\ Grows(p) /\ PostsAreRecorded'
  BY PostsStay DEF Ask, storeVars, Grows, ExternalInv
<1>3. RefundedBy(p)' => RefundedBy(p)
  BY <1>2 DEF RefundedBy
<1>4. /\ pRow[p] \in ExternalRow /\ pRow[p].accepted /\ Honest(pRow[p])
      /\ pRow = [pRow EXCEPT ![p] = pRow[p]] /\ answer \in {"pending"} \cup Outcomes
  BY <1>1, PolledRow
<1>5. pRow' = pRow => GoesOnWith(p, pRow[p])
  BY <1>4 DEF GoesOnWith
<1>6. CASE answer = "completed" /\ XGoto(p, "ask", "save") /\ SetPolled(p, "completed")
             /\ Notify(p, "completed")
  <2>1. PICK row : row = [pRow[p] EXCEPT !.status = "completed"]
    OBVIOUS
  <2>2. GoesOnWith(p, row)
    BY <1>4, <1>6, <2>1 DEF GoesOnWith, SetPolled, ExternalRow, Honest
  <2>3. /\ northwind[row.id] = "completed"
        /\ notices' = notices \cup {<<p, row.key, "completed">>}
    BY <1>6, <2>2 DEF GoesOnWith, Notify
  <2>4. \E from \in {"ask"}, to \in {"save"} : XGoto(p, from, to)
    BY <1>6
  <2>5. QED
    BY <1>2, <1>3, <2>2, <2>3, <2>4, PollMoves DEF Outcomes, POpen
<1>7. CASE answer = "pending" /\ XGoto(p, "ask", "save") /\ SetPolled(p, "processing")
             /\ UNCHANGED notices
  <2>1. PICK row : row = [pRow[p] EXCEPT !.status = "processing"]
    OBVIOUS
  <2>2. GoesOnWith(p, row)
    BY <1>4, <1>7, <2>1 DEF GoesOnWith, SetPolled, ExternalRow, Honest
  <2>3. \E from \in {"ask"}, to \in {"save"} : XGoto(p, from, to)
    BY <1>7
  <2>4. QED
    BY <1>2, <1>3, <1>7, <2>2, <2>3, PollMoves DEF POpen
<1>8. CASE /\ UNCHANGED <<pRow, notices>>
           /\ \E to \in {"payRow", "save"} :
                XGoto(p, "ask", to) /\ (to = "payRow" => answer = "failed")
  BY <1>1, <1>2, <1>3, <1>5, <1>8, PollMoves DEF POpen
<1>9. QED
  BY <1>6, <1>7, <1>8 DEF Ask

(* The refund of a transfer that failed at NorthWind, after its transactions row. *)
LEMMA PollPays ==
  ASSUME ExternalInv, NEW p \in Polls,
         PayRow(p) \/ Pay(p) \/ MovementError(p) \/ PollError(p)
  PROVE  ExternalInv'
<1>1. PollOK(p) /\ PostsAreRecorded /\ p \notin Initiations
  BY ExternalAssumption DEF ExternalInv
<1>2. ASSUME NEW from \in POpen,
             NEW to \in {"payRead", "paySave", "fail", "save", "rejected"},
             XGoto(p, from, to), UNCHANGED <<xRows, northwind, xJob, pRow, notices>>,
             Grows(p), PostsAreRecorded',
             to \in {"payRead", "paySave"} => Recorded(<<p, "refund">>)',
             to \in {"payRead", "paySave", "fail"} => from \in {"payRow", "payRead", "paySave"},
             RefundedBy(p)' => RefundedBy(p) \/ from = "paySave"
      PROVE  ExternalInv'
  <2>1. xPc[p] = from
    BY <1>2 DEF XGoto
  <2>2. from \in {"payRow", "payRead", "paySave"} => northwind[pRow[p].id] = "failed"
    BY <1>1, <2>1 DEF PollOK
  <2>3. GoesOnWith(p, pRow[p])
    BY <1>2, <2>1, PolledRow DEF GoesOnWith
  <2>4. QED
    BY <1>2, <2>1, <2>2, <2>3, PollMoves DEF POpen, XEnded
<1>3. CASE PayRow(p)
  <2>1. \/ XGoto(p, "payRow", "payRead") /\ Recorded(<<p, "refund">>)'
        \/ XGoto(p, "payRow", "fail")
    BY <1>3, MovementIsRecorded DEF PayRow
  <2>2. ledger \subseteq ledger'
    BY <1>3, MovementIsRecorded DEF PayRow
  <2>3. UNCHANGED <<posted, xRows, northwind, xJob, pRow, notices>>
    BY <1>3 DEF PayRow
  <2>4. Grows(p) /\ PostsAreRecorded' /\ (RefundedBy(p)' => RefundedBy(p))
    BY <1>1, <2>2, <2>3, PostsStay DEF Grows, RefundedBy
  <2>5. QED
    BY <1>2, <2>1, <2>3, <2>4 DEF POpen
<1>4. ASSUME NEW j, NEW a, MoveRead(p, "refund", a, "credit", j.amount, "payRead", "paySave", "fail")
      PROVE  ExternalInv'
  <2>1. \E to \in {"paySave", "fail"} : XGoto(p, "payRead", to)
    BY <1>4 DEF MoveRead
  <2>2. UNCHANGED <<ledger, posted, xRows, northwind, xJob, pRow, notices>>
    BY <1>4 DEF MoveRead
  <2>3. Recorded(<<p, "refund">>)'
    BY <1>1, <2>1, <2>2 DEF XGoto, PollOK, Recorded
  <2>4. Grows(p) /\ PostsAreRecorded' /\ (RefundedBy(p)' => RefundedBy(p))
    BY <1>1, <2>2, PostsStay DEF Grows, RefundedBy
  <2>5. QED
    BY <1>2, <2>1, <2>2, <2>3, <2>4 DEF POpen
<1>5. ASSUME NEW j, NEW a, MoveSave(p, "refund", a, "credit", j.amount, "paySave", "fail", "fail")
      PROVE  ExternalInv'
  <2>1. XGoto(p, "paySave", "fail")
    BY <1>5 DEF MoveSave
  <2>2. /\ posted' = posted \cup {<<p, "refund">>}
        /\ UNCHANGED <<ledger, xRows, northwind, xJob, pRow, notices>>
    BY <1>5 DEF MoveSave, UpdateBalanceSave
  <2>3. Recorded(<<p, "refund">>)
    BY <1>1, <2>1 DEF XGoto, PollOK
  <2>4. PostsAreRecorded'
    BY <1>1, <2>2, <2>3 DEF PostsAreRecorded, Recorded
  <2>5. Grows(p)
    BY <2>2 DEF Grows, Movements
  <2>6. QED
    BY <1>2, <2>1, <2>2, <2>4, <2>5 DEF POpen
<1>6. CASE MovementError(p)
  <2>1. PICK from \in {"reserveRead", "reserveSave", "undoRead", "undoSave", "refundRead",
                      "refundSave", "payRead", "paySave"},
             to \in {"rejected", "refused", "fail"} :
          /\ XGoto(p, from, to)
          /\ from \in {"payRead", "paySave"} => to = "fail"
    BY <1>6 DEF MovementError, MoveFails
  <2>2. from \in {"payRead", "paySave"}
    BY <1>1, <2>1 DEF XGoto, PollOK, POpen, XEnded
  <2>3. UNCHANGED <<ledger, posted, xRows, northwind, xJob, pRow, notices>>
    BY <1>6 DEF MovementError, MoveFails
  <2>4. Grows(p) /\ PostsAreRecorded' /\ (RefundedBy(p)' => RefundedBy(p))
    BY <1>1, <2>3, PostsStay DEF Grows, RefundedBy
  <2>5. QED
    BY <1>2, <2>1, <2>2, <2>3, <2>4 DEF POpen
<1>7. CASE PollError(p)
  <2>1. \/ XGoto(p, "ask", "rejected")
        \/ XGoto(p, "payRow", "save")
    BY <1>7 DEF PollError
  <2>2. UNCHANGED <<ledger, posted, xRows, northwind, xJob, pRow, notices>>
    BY <1>7 DEF PollError, storeVars
  <2>3. Grows(p) /\ PostsAreRecorded' /\ (RefundedBy(p)' => RefundedBy(p))
    BY <1>1, <2>2, PostsStay DEF Grows, RefundedBy
  <2>4. QED
    BY <1>2, <2>1, <2>2, <2>3 DEF POpen
<1>8. QED
  BY <1>3, <1>4, <1>5, <1>6, <1>7 DEF Pay

LEMMA PollFails ==
  ASSUME ExternalInv, NEW p \in Polls, FailTransfer(p)
  PROVE  ExternalInv'
<1>1. PICK row : row = [pRow[p] EXCEPT !.status = "failed"]
  OBVIOUS
<1>2. \E from \in {"fail"}, to \in {"save"} : XGoto(p, from, to)
  BY DEF FailTransfer
<1>3. xPc[p] = "fail" /\ northwind[pRow[p].id] = "failed"
  BY DEF FailTransfer, XGoto, ExternalInv, PollOK
<1>4. GoesOnWith(p, row)
  BY <1>1, <1>3, PolledRow DEF GoesOnWith, FailTransfer, SetPolled, ExternalRow, Honest, POpen
<1>5. notices' = notices \cup {<<p, row.key, "failed">>} /\ northwind[row.id] = "failed"
  BY <1>3, <1>4 DEF GoesOnWith, FailTransfer, Notify
<1>6. UNCHANGED <<ledger, posted, xRows, northwind, xJob>> /\ Grows(p) /\ PostsAreRecorded'
  BY PostsStay DEF FailTransfer, storeVars, Grows, ExternalInv
<1>7. RefundedBy(p)' => RefundedBy(p)
  BY <1>6 DEF RefundedBy
<1>8. QED
  BY <1>2, <1>4, <1>5, <1>6, <1>7, PollMoves DEF Outcomes, POpen

(* The row that was read is saved whole: it is stale, but as honest as ever. *)
LEMMA PollSaves ==
  ASSUME ExternalInv, NEW p \in Polls, SavePolled(p)
  PROVE  ExternalInv'
<1> DEFINE row == pRow[p]  k == pRow[p].key
<1>1. PICK to \in {"polled", "rejected"} :
        /\ xPc[p] = "save" /\ xPc' = [xPc EXCEPT ![p] = to]
        /\ xRows' = xRows \/ xRows' = [xRows EXCEPT ![k] = row]
  BY DEF SavePolled, XGoto
<1>2. UNCHANGED <<ledger, posted, northwind, xJob, pRow, notices>>
  BY DEF SavePolled, storeVars
<1>3. /\ row \in ExternalRow /\ row.accepted /\ Honest(row) /\ k \in Keys
      /\ xRows[k].id = row.id /\ xPc[row.id] = "accepted" /\ row.id \in Initiations
  BY <1>1, PolledRow DEF POpen
<1>4. /\ p \in XRequests /\ xPc'[p] = to /\ PollOK(p) /\ PostsAreRecorded /\ p \notin Initiations
      /\ \A q \in XRequests \ {p} : xPc'[q] = xPc[q]
  BY <1>1, ExternalAssumption DEF XRequests, ExternalInv, ExternalTypes
<1>5. xRows[k] # NoRow /\ RowOK(k)
  BY <1>3, RowTypes DEF ExternalInv
<1>6. xRows'[k] \in {xRows[k], row} /\ \A l \in Keys \ {k} : xRows'[l] = xRows[l]
  BY <1>1, <1>3 DEF ExternalInv, ExternalTypes
<1>7. ExternalTypes'
  BY <1>1, <1>2, <1>3 DEF ExternalInv, ExternalTypes, XEnded
<1>8. OfPoll(p)
  BY <1>2, <1>3, <1>4, <1>5, <1>6 DEF OfPoll, Grows
<1>9. PollOK(p)'
  BY <1>1, <1>2, <1>3, <1>4 DEF PollOK, RefundedBy, XEnded, POpen, ExternalRow, XRequests
<1>10. ASSUME NEW l \in Keys PROVE RowOK(l)'
  <2>1. CASE l = k /\ xRows'[k] = row
    <3>1. xPc'[row.id] = "accepted" /\ xJob[row.id].key = k
      BY <1>3, <1>4, <1>5 DEF RowOK, XRequests
    <3>2. Honest(row)'
      BY <1>2, <1>3 DEF Honest
    <3>3. QED
      BY <1>2, <2>1, <3>1, <3>2 DEF RowOK
  <2>2. CASE xRows'[l] = xRows[l]
    BY <1>8, <2>2, PollSparesRows
  <2>3. QED
    BY <1>6, <2>1, <2>2
<1>11. NoticesAgree'
  BY <1>2, <1>8, PollSparesNotices DEF NoticesAgree
<1>12. QED
  BY <1>2, <1>4, <1>7, <1>8, <1>9, <1>10, <1>11, PostsStay, PollSparesInitiations,
     PollSparesPolls
     DEF ExternalInv

LEMMA PollCalled ==
  ASSUME ExternalInv, NEW p \in Polls, CallPoll(p)
  PROVE  ExternalInv'
<1>1. PICK k \in Keys :
        \/ /\ xRows[k] # NoRow /\ xRows[k].accepted
           /\ xPc' = [xPc EXCEPT ![p] = "ask"] /\ pRow' = [pRow EXCEPT ![p] = xRows[k]]
        \/ xPc' = [xPc EXCEPT ![p] = "rejected"] /\ pRow' = pRow
  BY DEF CallPoll
<1>2. xPc[p] = "idle" /\ UNCHANGED <<ledger, posted, xRows, northwind, xJob, notices>>
  BY DEF CallPoll, storeVars
<1>3. /\ p \in XRequests /\ PollOK(p) /\ PostsAreRecorded /\ p \notin Initiations
      /\ \A q \in XRequests \ {p} : xPc'[q] = xPc[q]
  BY <1>1, ExternalAssumption DEF XRequests, ExternalInv, ExternalTypes
<1>4. ~RefundedBy(p)
  BY <1>2, <1>3 DEF PollOK
<1>5. xRows[k] # NoRow => xRows[k] \in ExternalRow /\ xRows[k].id \in Initiations /\ RowOK(k)
  BY RowTypes DEF ExternalInv
<1>6. ExternalTypes'
  BY <1>1, <1>2, <1>5 DEF ExternalInv, ExternalTypes, POpen, XEnded
<1>7. OfPoll(p)
  BY <1>1, <1>2, <1>3 DEF OfPoll, Grows, ExternalInv, ExternalTypes
<1>8. PollOK(p)'
  <2>1. CASE xPc' = [xPc EXCEPT ![p] = "rejected"]
    <3>1. xPc'[p] = "rejected"
      BY <1>3, <2>1 DEF ExternalInv, ExternalTypes
    <3>2. QED
      BY <1>2, <1>4, <3>1 DEF PollOK, RefundedBy, POpen, XEnded
  <2>2. CASE /\ xRows[k] # NoRow /\ xRows[k].accepted
             /\ xPc' = [xPc EXCEPT ![p] = "ask"] /\ pRow' = [pRow EXCEPT ![p] = xRows[k]]
    <3>1. xPc'[p] = "ask" /\ pRow'[p] = xRows[k]
      BY <1>3, <2>2 DEF ExternalInv, ExternalTypes
    <3>2. /\ xPc'[xRows[k].id] = "accepted" /\ xRows[k].key = k /\ Honest(xRows[k])
      BY <1>3, <1>5, <2>2 DEF RowOK, XRequests
    <3>3. QED
      BY <1>2, <1>4, <1>5, <2>2, <3>1, <3>2 DEF PollOK, RefundedBy, Honest, POpen
  <2>3. QED
    BY <1>1, <2>1, <2>2
<1>9. NoticesAgree'
  BY <1>2, <1>7, PollSparesNotices DEF NoticesAgree
<1>10. QED
  BY <1>2, <1>3, <1>6, <1>7, <1>8, <1>9, PostsStay, PollSparesInitiations, PollSparesPolls,
     PollSparesRows
     DEF ExternalInv

-----------------------------------------------------------------------------
(* A crash ends every request where it is; what it has done stays done. *)
LEMMA CrashKeeps ==
  ASSUME ExternalInv, ExternalCrash
  PROVE  ExternalInv'
<1>1. UNCHANGED <<ledger, posted, xRows, northwind, xJob, pRow, notices>>
  BY DEF ExternalCrash
<1>2. \A q \in XRequests :
        xPc'[q] = IF xPc[q] \in IOpen \cup POpen THEN "crashed" ELSE xPc[q]
  BY DEF ExternalCrash
<1>3. \A q \in XRequests :
        \/ xPc'[q] = xPc[q] /\ xPc[q] \notin IOpen \cup POpen
        \/ xPc'[q] = "crashed" /\ xPc[q] \in IOpen \cup POpen
  BY <1>2
<1>4. \A q \in XRequests : xPc[q] = "accepted" => xPc'[q] = "accepted"
  BY <1>3 DEF IOpen, POpen
<1>5. ExternalTypes' /\ PostsAreRecorded' /\ NoticesAgree'
  <2>1. ExternalTypes'
    BY <1>1 DEF ExternalInv, ExternalTypes, ExternalCrash, XEnded
  <2>2. NoticesAgree'
    BY <1>1 DEF ExternalInv, NoticesAgree
  <2>3. QED
    BY <1>1, <2>1, <2>2, PostsStay DEF ExternalInv
<1>6. ASSUME NEW k \in Keys PROVE RowOK(k)'
  <2>1. xRows[k] # NoRow => xRows[k].id \in XRequests
    BY RowTypes DEF ExternalInv, XRequests
  <2>2. QED
    BY <1>1, <1>3, <1>4, <2>1 DEF ExternalInv, RowOK, Honest, IOpen, POpen
<1>7. ASSUME NEW r \in Initiations PROVE InitiationOK(r)'
  <2>1. InitiationOK(r) /\ r \in XRequests
    BY DEF ExternalInv, XRequests
  <2>2. CASE xPc'[r] = xPc[r]
    BY <1>1, <2>1, <2>2 DEF InitiationOK, RefundedBy, Recorded
  <2>3. CASE xPc'[r] = "crashed" /\ xPc[r] \in IOpen \cup POpen
    BY <1>1, <2>1, <2>3
       DEF InitiationOK, RefundedBy, IOpen, POpen, XEnded, BeforeInstruct, Giving, Reserved
  <2>4. QED
    BY <1>3, <2>1, <2>2, <2>3
<1>8. ASSUME NEW p \in Polls PROVE PollOK(p)'
  <2>1. PollOK(p) /\ p \in XRequests
    BY DEF ExternalInv, XRequests
  <2>2. xPc[p] \in POpen \/ RefundedBy(p) => pRow[p].id \in XRequests
    BY <2>1 DEF PollOK, ExternalRow, XRequests
  <2>3. QED
    BY <1>1, <1>3, <1>4, <2>1, <2>2
       DEF PollOK, Honest, RefundedBy, Recorded, POpen, XEnded
<1>9. QED
  BY <1>5, <1>6, <1>7, <1>8 DEF ExternalInv

LEMMA ElsewhereKeeps ==
  ASSUME ExternalInv, UNCHANGED <<ledger, posted, xStateVars>>
  PROVE  ExternalInv'
<1>1. UNCHANGED <<ledger, posted, xRows, northwind, xPc, xJob, xSeen, xRead, pRow, notices>>
  BY DEF xStateVars
<1>2. ExternalTypes'
  BY <1>1 DEF ExternalInv, ExternalTypes
<1>3. ASSUME NEW k \in Keys PROVE RowOK(k)'
  BY <1>1 DEF ExternalInv, RowOK, Honest
<1>4. ASSUME NEW r \in Initiations PROVE InitiationOK(r)'
  BY <1>1 DEF ExternalInv, InitiationOK, RefundedBy, Recorded
<1>5. ASSUME NEW p \in Polls PROVE PollOK(p)'
  BY <1>1 DEF ExternalInv, PollOK, Honest, RefundedBy, Recorded
<1>6. PostsAreRecorded' /\ NoticesAgree'
  BY <1>1 DEF ExternalInv, PostsAreRecorded, NoticesAgree, Recorded, RefundedBy
<1>7. QED
  BY <1>2, <1>3, <1>4, <1>5, <1>6 DEF ExternalInv

LEMMA ExternalInvNext == ExternalInv /\ [ExternalNext]_xVars => ExternalInv'
<1> SUFFICES ASSUME ExternalInv, [ExternalNext]_xVars PROVE ExternalInv'
  OBVIOUS
<1>1. ASSUME NEW r \in Initiations, InitiationNext(r) PROVE ExternalInv'
  BY <1>1, InitiationCalled, InitiationMoves, InitiationPays, InitiationInserts,
     InitiationInstructs, NorthWindDecides
     DEF InitiationNext
<1>2. ASSUME NEW p \in Polls, PollNext(p) PROVE ExternalInv'
  BY <1>2, PollCalled, PollAsks, PollPays, PollFails, PollSaves DEF PollNext
<1>3. ASSUME NEW r \in XRequests, MovementError(r) PROVE ExternalInv'
  BY <1>3, InitiationMoves, PollPays DEF XRequests
<1>4. ASSUME NEW a \in Accounts, Deactivate(a) PROVE ExternalInv'
  BY <1>4, ElsewhereKeeps DEF Deactivate
<1>5. CASE UNCHANGED xVars
  BY <1>5, ElsewhereKeeps DEF xVars, storeVars
<1>6. QED
  BY <1>1, <1>2, <1>3, <1>4, <1>5, CrashKeeps DEF ExternalNext, ExternalQuiet

LEMMA ExternalInvHolds == ExternalSpec => []ExternalInv
BY ExternalInvInit, ExternalInvNext, PTL DEF ExternalSpec

-----------------------------------------------------------------------------
(* However many requests carry a key and wherever they die, NorthWind is     *)
(* instructed at most once under it, by the request whose row retries find.  *)
THEOREM KeysInstructOnce == ExternalSpec => []InstructedOncePerKey
<1>1. ExternalInv => InstructedOncePerKey
  BY DEF ExternalInv, InitiationOK, InstructedOncePerKey
<1>2. QED
  BY <1>1, ExternalInvHolds, PTL

(* Polls that save stale rows may take an outcome back, but no row ever      *)
(* contradicts NorthWind.                                                    *)
THEOREM RowsDoFollow == ExternalSpec => []RowsFollowNorthWind
<1>1. ExternalInv => RowsFollowNorthWind
  BY DEF ExternalInv, RowOK, Honest, RowsFollowNorthWind, NoRow
<1>2. QED
  BY <1>1, ExternalInvHolds, PTL

(* Refunds return a reservation, for a cause, and at most one of initiation  *)
(* and polls makes them; what moved, but an initiation's refund, has a row.  *)
THEOREM RefundsHaveCause == ExternalSpec => []MovementsAreAccountedFor
<1>1. ExternalInv => MovementsAreAccountedFor
  <2> SUFFICES ASSUME ExternalInv PROVE MovementsAreAccountedFor
    OBVIOUS
  <2>1. ASSUME NEW r \in Initiations, RefundedBy(r)
        PROVE  <<r, "reserve">> \in posted /\ (LostAnswers \/ northwind[r] = "none")
    BY <2>1 DEF ExternalInv, InitiationOK
  <2>2. ASSUME NEW p \in Polls, RefundedBy(p)
        PROVE  /\ <<pRow[p].id, "reserve">> \in posted
               /\ northwind[pRow[p].id] = "failed"
               /\ ~RefundedBy(pRow[p].id)
    <3>1. PollOK(p)
      BY DEF ExternalInv
    <3>2. pRow[p].id \in Initiations /\ xPc[pRow[p].id] = "accepted"
      BY <2>2, <3>1 DEF PollOK, ExternalRow
    <3>3. ~RefundedBy(pRow[p].id)
      BY <3>2 DEF ExternalInv, InitiationOK
    <3>4. QED
      BY <2>2, <3>1, <3>3 DEF PollOK
  <2>3. QED
    BY <2>1, <2>2 DEF ExternalInv, PostsAreRecorded, Recorded, MovementsAreAccountedFor
<1>2. QED
  BY <1>1, ExternalInvHolds, PTL

(* Whatever is lost or dies on the way, what clients are told is so. *)
THEOREM ExternalClientsAreToldTheTruth == ExternalSpec => []ExternalAnswersAreTrue
<1>1. ExternalInv => ExternalAnswersAreTrue
  BY DEF ExternalInv, InitiationOK, BeforeInstruct, Giving, Reserved, ExternalAnswersAreTrue
<1>2. QED
  BY <1>1, ExternalInvHolds, PTL

(* The regulator is never told two contradictory outcomes. *)
THEOREM NoticesDoAgree == ExternalSpec => []NoticesAgree
<1>1. ExternalInv => NoticesAgree
  BY DEF ExternalInv
<1>2. QED
  BY <1>1, ExternalInvHolds, PTL
=============================================================================
