---------------------------- MODULE ReadersProofs ---------------------------
(***************************************************************************)
(* Theorems about what readers are shown while others write: the walk      *)
(* through the pages of a history of transfers, and the reports of the     *)
(* account service, with the generators that fill the tables they read.    *)
(***************************************************************************)
EXTENDS TransferHistory, AccountReports, ServiceProofs, DataProofs

-----------------------------------------------------------------------------
(* The walk through the history of transfers. *)

(* A request that the insert hook has not stamped. *)
Unstamped == {"idle"} \cup (TBefore \ {"create"})

(* No two rows have the same created_at. *)
DatesInv ==
  /\ createdAt \in [TransferRequests -> Nat]
  /\ IsFiniteSet(Dated)
  /\ \A r \in Dated : createdAt[r] <= Cardinality(Dated)
  /\ \A r, q \in Dated : createdAt[r] = createdAt[q] => r = q
  /\ \A r \in Dated : tPc[r] \notin Unstamped

WalkType ==
  /\ walk \in [pc : {"none", "idle", "open", "ended", "failed"}, user : Users \cup {NoRequest},
               filter : Filters \cup {"none"}, limit : Nat, page : Nat,
               shown : SUBSET TransferRequests, began : SUBSET TransferRequests]
  /\ walk.pc = "open" => walk.limit > 0 /\ walk.page > 0

PlaceOf(r) == Place(Found(walk.user, walk.filter), NewestFirst(Found(walk.user, walk.filter)), r)

(* What was there when the walk began is still found, and of it everything *)
(* that has not been shown is still ahead: this is what the walk relies on *)
(* from page to page.                                                      *)
RestIsAhead ==
  walk.filter # "pending" =>
    /\ walk.pc = "open" =>
         /\ walk.began \subseteq Found(walk.user, walk.filter)
         /\ \A r \in walk.began \ walk.shown : PlaceOf(r) > (walk.page - 1) * walk.limit
    /\ walk.pc = "ended" => walk.began \subseteq walk.shown

WalkInv == DatesInv /\ WalkType /\ RestIsAhead

-----------------------------------------------------------------------------
(* What a step of the transfers may do to their rows. *)

(* One request at a time reaches the insert hook; past it a request does not *)
(* come back, and a request once called keeps its job.                       *)
StepShape ==
  /\ \A r, q \in TransferRequests :
       /\ tPc[r] # "create" /\ tPc'[r] = "create"
       /\ tPc[q] # "create" /\ tPc'[q] = "create"
       => r = q
  /\ \A r \in TransferRequests :
       /\ tPc[r] # "create" /\ tPc'[r] = "create" => tPc[r] = "readDestination"
       /\ tPc[r] \notin Unstamped => tPc'[r] \notin Unstamped
       /\ tPc[r] # "idle" => tJob'[r] = tJob[r]

LEMMA ShapeOfSteps == TypeInv /\ [Next]_tVars => StepShape
<1> SUFFICES ASSUME TypeInv, [Next]_tVars PROVE StepShape
  OBVIOUS
<1> USE DEF TypeInv, TransferTypeOK, Unstamped, TBefore, TInTx, TOpen
<1>1. ASSUME NEW r \in TransferRequests, NEW from, NEW to, TGoto(r, from, to),
             UNCHANGED tJob, to = "create" => from = "readDestination",
             to \in Unstamped => from \in Unstamped
      PROVE  StepShape
  BY <1>1 DEF TGoto, StepShape
<1>2. ASSUME NEW r \in TransferRequests, CallTransfer(r) PROVE StepShape
  BY <1>2 DEF CallTransfer, StepShape
<1>3. ASSUME NEW r \in TransferRequests, NEW pc \in TInTx, Rollback(r, pc) PROVE StepShape
  BY <1>1, <1>3 DEF Rollback
<1>4. ASSUME NEW r \in TransferRequests, TransferStep(r) PROVE StepShape
  <2>1. CASE CheckExisting(r) \/ ReadSource(r) \/ ReadDestination(r) \/ CreateTransfer(r)
    BY <1>1, <2>1 DEF CheckExisting, ReadSource, ReadDestination, CreateTransfer
  <2>2. CASE SelectSource(r) \/ DebitSource(r) \/ SelectDestination(r) \/ CreditDestination(r)
    BY <1>1, <1>3, <2>2 DEF SelectSource, DebitSource, SelectDestination, CreditDestination
  <2>3. CASE CommitTransfer(r) \/ MarkCompleted(r) \/ MarkFailed(r) \/ AuditOutcome(r)
    BY <1>1, <2>3 DEF CommitTransfer, MarkCompleted, MarkFailed, AuditOutcome, Audit
  <2>4. QED
    BY <1>3, <1>4, <2>1, <2>2, <2>3 DEF TransferStep, DeadlockVictim
<1>5. ASSUME NEW r \in TransferRequests, TransferDBError(r) PROVE StepShape
  BY <1>1, <1>5 DEF TransferDBError
<1>6. ASSUME TransferCrash PROVE StepShape
  BY <1>6 DEF TransferCrash, DropTransfers, StepShape
<1>7. ASSUME UNCHANGED tVars PROVE StepShape
  BY <1>7 DEF tVars, transferVars, StepShape
<1>8. QED
  BY <1>2, <1>3, <1>4, <1>5, <1>6, <1>7 DEF Next, TransferNext, TransactionError

(* The steps of TransferHistory are steps of the transfers, or of the walk. *)
LEMMA HistoryStep ==
  [TransferHistoryNext]_historyVars => [Next]_tVars
BY DEF TransferHistoryNext, Transfers, Walk, HistoryQuiet, historyVars, Next

LEMMA HistoryTypes == TransferHistorySpec => [](TypeInv /\ KeyInv)
<1>1. TransferHistoryInit => TransferServiceInit
  BY DEF TransferHistoryInit
<1>2. QED
  BY <1>1, HistoryStep, TypeInit, TypeNext, KeyInit, KeyNext, PTL DEF TransferHistorySpec

-----------------------------------------------------------------------------
(* The rows found are in a total order, and stay in it. *)

LEMMA FoundIs ==
  ASSUME DatesInv, NEW u, NEW f
  PROVE  /\ IsFiniteSet(Found(u, f)) /\ Found(u, f) \subseteq Dated
         /\ IsOrder(Found(u, f), NewestFirst(Found(u, f)))
<1>1. Found(u, f) \subseteq Dated /\ IsFiniteSet(Dated)
  BY DEF Found, DatesInv
<1>2. IsFiniteSet(Found(u, f))
  BY <1>1, FS_Subset
<1>3. \A q, r \in Found(u, f) :
        <<q, r>> \in NewestFirst(Found(u, f)) <=> createdAt[q] > createdAt[r]
  BY DEF NewestFirst
<1>4. \A r \in Found(u, f) : createdAt[r] \in Nat
  BY <1>1 DEF DatesInv, Dated
<1>5. \A q, r \in Found(u, f) : createdAt[q] = createdAt[r] => q = r
  BY <1>1 DEF DatesInv
<1>6. QED
  BY <1>1, <1>2, <1>3, <1>4, <1>5 DEF IsOrder

(* The stamps that are set stay, and a new one is the latest. *)
LEMMA DatesNext ==
  ASSUME DatesInv, StepShape, Stamped \/ UNCHANGED <<tPc, createdAt>>
  PROVE  /\ DatesInv'
         /\ \A r \in Dated : r \in Dated' /\ createdAt'[r] = createdAt[r]
<1>1. CASE UNCHANGED <<tPc, createdAt>>
  BY <1>1 DEF DatesInv, Dated
<1>2. CASE Stamped
  <2> DEFINE n == Cardinality(Dated)
             New(r) == HasWalk /\ tPc[r] # "create" /\ tPc'[r] = "create"
  <2>1. n \in Nat
    BY FS_CardinalityType DEF DatesInv
  <2>2. \A r \in TransferRequests : createdAt'[r] = IF New(r) THEN n + 1 ELSE createdAt[r]
    BY <1>2 DEF Stamped
  <2>3. createdAt' \in [TransferRequests -> Nat]
    BY <2>1, <2>2, <1>2 DEF Stamped, DatesInv
  <2>4. \A r \in Dated : ~New(r) /\ createdAt'[r] = createdAt[r] /\ r \in TransferRequests
    BY <2>2 DEF StepShape, DatesInv, Dated, Unstamped, TBefore
  <2>5. \A r \in Dated : r \in Dated' /\ createdAt'[r] = createdAt[r]
    BY <2>4 DEF Dated
  <2>6. CASE \E r \in TransferRequests : New(r)
    <3>1. PICK r \in TransferRequests : New(r)
      BY <2>6
    <3>2. \A q \in TransferRequests : New(q) => q = r
      BY <3>1 DEF StepShape
    <3>3. Dated' = Dated \cup {r} /\ r \notin Dated /\ createdAt'[r] = n + 1
      BY <2>1, <2>2, <2>4, <3>1, <3>2 DEF Dated
    <3>4. IsFiniteSet(Dated') /\ Cardinality(Dated') = n + 1
      BY <3>3, FS_AddElement DEF DatesInv
    <3>5. \A q \in Dated : createdAt[q] \in Nat /\ createdAt[q] <= n
      BY DEF DatesInv, Dated
    <3>6. \A q \in Dated' : createdAt'[q] <= Cardinality(Dated')
      BY <2>1, <2>5, <3>3, <3>4, <3>5
    <3>7. \A p, q \in Dated' : createdAt'[p] = createdAt'[q] => p = q
      BY <2>1, <2>5, <3>3, <3>5 DEF DatesInv
    <3>8. \A q \in Dated' : tPc'[q] \notin Unstamped
      <4>1. \A q \in Dated : tPc'[q] \notin Unstamped
        BY <2>4 DEF StepShape, DatesInv
      <4>2. tPc'[r] \notin Unstamped
        BY <3>1 DEF Unstamped, TBefore
      <4>3. QED
        BY <3>3, <4>1, <4>2
    <3>9. QED
      BY <2>3, <2>5, <3>4, <3>6, <3>7, <3>8 DEF DatesInv
  <2>7. CASE \A r \in TransferRequests : ~New(r)
    <3>1. createdAt' = createdAt
      BY <2>2, <2>3, <2>7 DEF DatesInv
    <3>2. Dated' = Dated
      BY <3>1 DEF Dated
    <3>3. \A q \in Dated' : tPc'[q] \notin Unstamped
      BY <2>4, <3>2 DEF StepShape, DatesInv
    <3>4. QED
      BY <2>5, <3>1, <3>2, <3>3 DEF DatesInv
  <2>8. QED
    BY <2>6, <2>7
<1>3. QED
  BY <1>1, <1>2

(* A row once found is found again, unless pending rows are asked for. *)
LEMMA FoundNext ==
  ASSUME TypeInv, DatesInv, StepShape, RowsKept,
         \A r \in Dated : r \in Dated' /\ createdAt'[r] = createdAt[r],
         NEW u, NEW f \in {"none", "completed", "failed"}
  PROVE  Found(u, f) \subseteq Found(u, f)'
<1> SUFFICES ASSUME NEW r \in Found(u, f) PROVE r \in Found(u, f)'
  OBVIOUS
<1>1. /\ r \in Dated /\ r \in TransferRequests /\ Matches(r, u, f)
  BY DEF Found, Dated
<1>2. tPc[r] # "idle"
  BY <1>1 DEF DatesInv, Unstamped
<1>3. tJob'[r] = tJob[r] /\ tJob[r].key \in Keys
  BY <1>1, <1>2 DEF StepShape, TypeInv, TransferTypeOK, TransferJob
<1>4. transfers[tJob[r].key].id = r
  BY <1>1 DEF Matches
<1>5. transfers[tJob[r].key] # NoTransfer
  BY <1>1, <1>4, StoreAssumption, TransferServiceAssumption DEF NoTransfer
<1>6. /\ transfers'[tJob[r].key].id = r
      /\ transfers[tJob[r].key].status # "pending" => transfers'[tJob[r].key] = transfers[tJob[r].key]
  BY <1>3, <1>4, <1>5 DEF RowsKept
<1>7. f # "none" => transfers[tJob[r].key].status = f
  BY <1>1 DEF Matches
<1>8. Matches(r, u, f)'
  BY <1>1, <1>3, <1>6, <1>7 DEF Matches
<1>9. QED
  BY <1>1, <1>8 DEF Found

(* ... in no earlier place. *)
LEMMA PlacesGrow ==
  ASSUME DatesInv, DatesInv',
         \A r \in Dated : r \in Dated' /\ createdAt'[r] = createdAt[r],
         NEW u, NEW f, Found(u, f) \subseteq Found(u, f)', NEW r \in Found(u, f)
  PROVE  LET place == Place(Found(u, f), NewestFirst(Found(u, f)), r)
         IN place \in Nat /\ place' \in Nat /\ place <= place'
<1> DEFINE F == Found(u, f)
           G == Found(u, f)'
           S == {q \in F : <<q, r>> \in NewestFirst(F)}
           T == {q \in G : <<q, r>> \in NewestFirst(Found(u, f))'}
<1>1. IsFiniteSet(F) /\ F \subseteq Dated
  BY FoundIs
<1>2. IsFiniteSet(G)
  <2>1. G \subseteq Dated' /\ IsFiniteSet(Dated')
    BY DEF Found, DatesInv
  <2>2. QED
    BY <2>1, FS_Subset
<1>3. S \subseteq T
  BY <1>1 DEF NewestFirst
<1>4. IsFiniteSet(T) /\ IsFiniteSet(S)
  BY <1>1, <1>2, FS_Subset
<1>5. Cardinality(S) <= Cardinality(T) /\ Cardinality(S) \in Nat /\ Cardinality(T) \in Nat
  BY <1>3, <1>4, FS_Subset, FS_CardinalityType
<1>6. /\ Place(F, NewestFirst(F), r) = Cardinality(S) + 1
      /\ Place(Found(u, f), NewestFirst(Found(u, f)), r)' = Cardinality(T) + 1
  BY DEF Place
<1> HIDE DEF S, T
<1>7. QED
  BY <1>5, <1>6

-----------------------------------------------------------------------------
(* The walk. *)

LEMMA WalkInit == TransferHistoryInit => WalkInv
<1> SUFFICES ASSUME TransferHistoryInit PROVE WalkInv
  OBVIOUS
<1>1. Dated = {}
  BY DEF TransferHistoryInit, Dated
<1>2. DatesInv
  BY <1>1, FS_EmptySet DEF TransferHistoryInit, DatesInv
<1>3. WalkType /\ walk.pc \in {"none", "idle"}
  BY DEF TransferHistoryInit, Walker, WalkType
<1>4. QED
  BY <1>2, <1>3 DEF WalkInv, RestIsAhead

(* What the transfers do meanwhile only pushes rows to later pages. *)
LEMMA WalkWaits ==
  ASSUME TypeInv, WalkInv, StepShape, RowsKept, UNCHANGED walk,
         Stamped \/ UNCHANGED <<tPc, createdAt>>
  PROVE  WalkInv'
<1>1. DatesInv' /\ \A r \in Dated : r \in Dated' /\ createdAt'[r] = createdAt[r]
  BY DatesNext DEF WalkInv
<1>2. WalkType'
  BY DEF WalkInv, WalkType
<1>3. RestIsAhead'
  <2>1. SUFFICES ASSUME walk.filter # "pending", walk.pc = "open"
                 PROVE  /\ walk.began \subseteq Found(walk.user, walk.filter)'
                        /\ \A r \in walk.began \ walk.shown :
                             PlaceOf(r)' > (walk.page - 1) * walk.limit
    BY DEF WalkInv, RestIsAhead
  <2> DEFINE u == walk.user  f == walk.filter
  <2>2. f \in {"none", "completed", "failed"}
    BY <2>1, TransferHistoryAssumption DEF WalkInv, WalkType
  <2>3. Found(u, f) \subseteq Found(u, f)'
    BY <1>1, <2>2, FoundNext DEF WalkInv
  <2>4. walk.began \subseteq Found(u, f)
    BY <2>1 DEF WalkInv, RestIsAhead
  <2>5. ASSUME NEW r \in walk.began \ walk.shown
        PROVE  PlaceOf(r)' > (walk.page - 1) * walk.limit
    <3>1. r \in Found(u, f) /\ PlaceOf(r) > (walk.page - 1) * walk.limit
      BY <2>1, <2>4, <2>5 DEF WalkInv, RestIsAhead
    <3>2. PlaceOf(r) \in Nat /\ PlaceOf(r)' \in Nat /\ PlaceOf(r) <= PlaceOf(r)'
      BY <1>1, <2>3, <3>1, PlacesGrow DEF WalkInv, PlaceOf
    <3>3. (walk.page - 1) * walk.limit \in Int
      BY <2>1 DEF WalkInv, WalkType
    <3>4. QED
      BY <3>1, <3>2, <3>3
  <2>6. QED
    BY <2>3, <2>4, <2>5
<1>4. QED
  BY <1>1, <1>2, <1>3 DEF WalkInv

(* Reading changes nothing that the walk is told about. *)
LEMMA ReadingIsQuiet ==
  ASSUME DatesInv, UNCHANGED <<tVars, createdAt>>
  PROVE  /\ DatesInv'
         /\ \A u, f : Found(u, f)' = Found(u, f)
         /\ \A u, f : NewestFirst(Found(u, f))' = NewestFirst(Found(u, f))
<1>1. Dated' = Dated
  BY DEF Dated
<1>2. tPc' = tPc /\ tJob' = tJob /\ transfers' = transfers
  BY DEF tVars, transferVars
<1>3. DatesInv'
  BY <1>1, <1>2 DEF DatesInv
<1>4. \A u, f : Found(u, f)' = Found(u, f)
  BY <1>1, <1>2 DEF Found, Matches
<1>5. \A u, f : NewestFirst(Found(u, f))' = NewestFirst(Found(u, f))
  BY <1>4 DEF NewestFirst
<1>6. QED
  BY <1>3, <1>4, <1>5

(* A page shows what comes next, and if it is short there is nothing beyond. *)
LEMMA PageRead ==
  ASSUME WalkInv, ReadPage, UNCHANGED <<tVars, createdAt>>
  PROVE  WalkInv'
<1>0. SUFFICES ASSUME NEW u, NEW f, NEW n, NEW page,
                      u = walk.user, f = walk.filter, n = walk.limit, page = walk.page
               PROVE  WalkInv'
  OBVIOUS
<1> DEFINE F == Found(u, f)
           before == NewestFirst(F)
           place(r) == Place(F, before, r)
           offset == (page - 1) * n
           rows == Slice(InOrder(F, before), offset, n)
<1>1. /\ walk.pc = "open" /\ n \in Nat /\ n > 0 /\ page \in Nat /\ page > 0
      /\ walk' = [walk EXCEPT !.pc = IF Len(rows) < n THEN "ended" ELSE "open",
                              !.page = @ + 1,
                              !.shown = @ \cup Range(rows)]
  BY <1>0 DEF WalkInv, WalkType, ReadPage, FindByUserAccounts
<1>2. offset \in Nat /\ page * n = offset + n
  BY <1>1
<1>3. IsFiniteSet(F) /\ F \subseteq TransferRequests /\ IsOrder(F, before)
  BY FoundIs DEF WalkInv, Dated
<1>4. DatesInv' /\ F' = F /\ before' = before
  BY ReadingIsQuiet DEF WalkInv
<1> HIDE DEF F, before
<1>5. /\ Len(rows) \in Nat /\ DOMAIN rows = 1..Len(rows) /\ Len(rows) <= n
      /\ \A i \in DOMAIN rows : rows[i] \in F
      /\ \A r \in F : place(r) \in (offset + 1)..(offset + n) =>
           place(r) - offset \in DOMAIN rows /\ rows[place(r) - offset] = r
      /\ Len(rows) < n => \A r \in F : place(r) <= offset + n
  <2>1. n \in Nat
    BY <1>1
  <2> HIDE DEF offset
  <2>2. LET slice == Slice(InOrder(F, before), offset, n) IN
         /\ Len(slice) \in Nat /\ DOMAIN slice = 1..Len(slice)
         /\ Len(slice) <= n
         /\ \A i \in DOMAIN slice :
              /\ slice[i] \in F
              /\ Place(F, before, slice[i]) = offset + i
         /\ \A r \in F : Place(F, before, r) \in (offset + 1)..(offset + n) =>
              /\ Place(F, before, r) - offset \in DOMAIN slice
              /\ slice[Place(F, before, r) - offset] = r
         /\ Len(slice) < n => \A r \in F : Place(F, before, r) <= offset + n
    BY <1>2, <1>3, <2>1, SliceIs, Zenon
  <2>3. QED
    BY <2>2
<1>6. \A r \in F : place(r) \in Nat
  BY <1>3, PlaceType
<1> HIDE DEF rows, offset, place
<1>7. Range(rows) \subseteq F
  BY <1>5 DEF Range
<1>8. \A r \in F : place(r) > offset /\ r \notin Range(rows) => place(r) > offset + n
  BY <1>1, <1>2, <1>5, <1>6 DEF Range
<1>9. WalkType'
  <2> DEFINE pc == IF Len(rows) < n THEN "ended" ELSE "open"
             shown == walk.shown \cup Range(rows)
  <2>1. walk' = [walk EXCEPT !.pc = pc, !.page = page + 1, !.shown = shown]
    BY <1>0, <1>1
  <2>2. /\ pc \in {"none", "idle", "open", "ended", "failed"} /\ page + 1 \in Nat
        /\ shown \in SUBSET TransferRequests /\ page + 1 > 0
    BY <1>1, <1>3, <1>7 DEF WalkInv, WalkType
  <2> HIDE DEF pc, shown
  <2>3. QED
    BY <1>0, <1>1, <2>1, <2>2 DEF WalkInv, WalkType
<1>10. /\ walk'.pc = (IF Len(rows) < n THEN "ended" ELSE "open") /\ walk'.page = page + 1
       /\ walk'.shown = walk.shown \cup Range(rows) /\ walk'.began = walk.began
       /\ walk'.user = u /\ walk'.filter = f /\ walk'.limit = n
  BY <1>0, <1>1 DEF WalkInv, WalkType
<1>11. ASSUME f # "pending"
       PROVE  /\ walk.began \subseteq F
              /\ \A r \in walk.began \ walk.shown : place(r) > offset
  BY <1>0, <1>1, <1>11 DEF WalkInv, RestIsAhead, PlaceOf, F, before, place, offset
<1>12. ASSUME f # "pending"
       PROVE  \A r \in walk'.began \ walk'.shown : r \in F /\ place(r) > offset + n
  BY <1>8, <1>10, <1>11, <1>12
<1>13. RestIsAhead'
  <2>1. SUFFICES ASSUME f # "pending"
                 PROVE  /\ walk'.pc = "open" => 
                             /\ walk'.began \subseteq F
                             /\ \A r \in walk'.began \ walk'.shown :
                                  PlaceOf(r)' > (walk'.page - 1) * walk'.limit
                        /\ walk'.pc = "ended" => walk'.began \subseteq walk'.shown
    BY <1>4, <1>10 DEF RestIsAhead, F
  <2>2. \A r : PlaceOf(r)' = place(r)
    BY <1>4, <1>10 DEF PlaceOf, place, F, before
  <2>3. (walk'.page - 1) * walk'.limit = page * n
    <3>1. walk'.page - 1 = page /\ walk'.limit = n
      BY <1>1, <1>10
    <3>2. QED
      BY <3>1
  <2>4. walk'.pc = "ended" => walk'.began \subseteq walk'.shown
    <3>1. ASSUME NEW r \in walk'.began \ walk'.shown, Len(rows) < n PROVE FALSE
      BY <1>2, <1>1, <1>5, <1>6, <1>12, <2>1, <3>1
    <3>2. QED
      BY <3>1, <1>10
  <2>5. QED
    BY <1>2, <1>10, <1>11, <1>12, <2>1, <2>2, <2>3, <2>4
<1>14. QED
  BY <1>4, <1>9, <1>13 DEF WalkInv

LEMMA WalkNext ==
  TypeInv /\ KeyInv /\ WalkInv /\ [TransferHistoryNext]_historyVars => WalkInv'
<1> SUFFICES ASSUME TypeInv, KeyInv, WalkInv, [TransferHistoryNext]_historyVars PROVE WalkInv'
  OBVIOUS
<1>1. StepShape /\ RowsKept
  BY HistoryStep, ShapeOfSteps, RowsAreKept
<1>2. CASE Transfers
  BY <1>1, <1>2, WalkWaits DEF Transfers
<1>3. CASE UNCHANGED historyVars
  <2>1. UNCHANGED <<tPc, createdAt, walk>>
    BY <1>3 DEF historyVars, tVars, transferVars
  <2>2. QED
    BY <1>1, <2>1, WalkWaits
<1>4. CASE Walk
  <2>1. UNCHANGED <<tVars, createdAt>>
    BY <1>4 DEF Walk
  <2>2. CASE BeginWalk
    <3>1. PICK u \in Users, f \in Filters, n \in PageLimits :
            walk' = [walk EXCEPT !.pc = "open", !.user = u, !.filter = f, !.limit = n,
                                 !.page = 1, !.began = Found(u, f)]
      BY <2>2 DEF BeginWalk
    <3>2. /\ Found(u, f) \subseteq TransferRequests /\ IsFiniteSet(Found(u, f))
          /\ IsOrder(Found(u, f), NewestFirst(Found(u, f)))
      BY FoundIs DEF WalkInv, Dated
    <3>3. n \in Nat /\ n > 0
      BY TransferHistoryAssumption
    <3>4. WalkType'
      <4>1. u \in Users \cup {NoRequest} /\ f \in Filters \cup {"none"}
            /\ Found(u, f) \in SUBSET TransferRequests
        BY <3>2
      <4>2. walk' = [pc |-> "open", user |-> u, filter |-> f, limit |-> n, page |-> 1,
                     shown |-> walk.shown, began |-> Found(u, f)]
        BY <3>1 DEF WalkInv, WalkType
      <4>3. QED
        BY <3>3, <4>1, <4>2 DEF WalkInv, WalkType
    <3>5. /\ DatesInv' /\ Found(u, f)' = Found(u, f)
          /\ NewestFirst(Found(u, f))' = NewestFirst(Found(u, f))
      BY <2>1, ReadingIsQuiet DEF WalkInv
    <3>6. /\ walk'.pc = "open" /\ walk'.user = u /\ walk'.filter = f /\ walk'.page = 1
          /\ walk'.began = Found(u, f) /\ walk'.limit = n
      BY <3>1 DEF WalkInv, WalkType
    <3>7. \A r \in Found(u, f) : PlaceOf(r)' > 0
      <4>1. \A r : PlaceOf(r)' = Place(Found(u, f), NewestFirst(Found(u, f)), r)
        BY <3>5, <3>6 DEF PlaceOf
      <4>2. QED
        BY <3>2, <4>1, PlaceType
    <3>8. (walk'.page - 1) * walk'.limit = 0
      BY <3>3, <3>6
    <3>9. RestIsAhead'
      BY <3>5, <3>6, <3>7, <3>8 DEF RestIsAhead
    <3>10. QED
      BY <3>4, <3>5, <3>9 DEF WalkInv
  <2>3. CASE ReadPage
    BY <2>1, <2>3, PageRead
  <2>4. CASE WalkFails
    <3>1. walk' = [walk EXCEPT !.pc = "failed"]
      BY <2>4 DEF WalkFails
    <3>2. WalkType' /\ walk'.pc = "failed"
      BY <3>1 DEF WalkInv, WalkType
    <3>3. QED
      BY <2>1, <3>2, ReadingIsQuiet DEF WalkInv, RestIsAhead
  <2>5. QED
    BY <1>4, <2>2, <2>3, <2>4 DEF Walk
<1>5. QED
  BY <1>2, <1>3, <1>4 DEF TransferHistoryNext, HistoryQuiet

(* Whatever requests do between two pages, a client that asks for one page  *)
(* after the other, until one comes back short, has been shown every        *)
(* transfer that matched when it began, unless it asked for pending ones.   *)
THEOREM WalksMissNone == TransferHistorySpec => []WalksMissNothing
<1>1. WalkInv => WalksMissNothing
  BY DEF WalkInv, RestIsAhead, WalksMissNothing
<1>2. QED
  BY <1>1, WalkInit, WalkNext, HistoryTypes, PTL DEF TransferHistorySpec

JournalRow ==
  [account : Accounts, type : {"credit", "debit"}, amount : Nat, before : Int, after : Int,
   at : Int, status : {"completed"}]

-----------------------------------------------------------------------------
(* Rows, newest first. *)

(* An order the query may return lists n of the positions, each once, and what *)
(* it has not listed up to a place is not newer than what it lists there.      *)
IsNewest(table, own, n, order) ==
  /\ order \in Seq(own) /\ DOMAIN order = 1..n /\ Len(order) = n
  /\ \A k \in 1..n : order[k] \in own
  /\ \A k, l \in 1..n : k # l => order[k] # order[l]
  /\ \A k \in 1..n, i \in own :
       (\A l \in 1..n : l < k => order[l] # i) => table[i].at <= table[order[k]].at

(* What one more position makes of such an order. *)
LEMMA NewestAppended ==
  ASSUME NEW table, NEW own, NEW k \in Nat \ {0}, NEW f,
         IsNewest(table, own, k - 1, f), NEW i \in own \ Range(f),
         \A j \in own \ Range(f) : table[j].at <= table[i].at
  PROVE  IsNewest(table, own, k, Append(f, i))
<1> DEFINE h == Append(f, i)
<1>1. f \in Seq(own) /\ DOMAIN f = 1..(k - 1) /\ Len(f) = k - 1
  BY DEF IsNewest
<1>2. /\ h \in Seq(own) /\ DOMAIN h = 1..k /\ Len(h) = k /\ h[k] = i
      /\ \A l \in 1..(k - 1) : h[l] = f[l]
  BY <1>1
<1>3. \A l \in 1..(k - 1) : f[l] # i
  BY <1>1 DEF Range
<1> HIDE DEF h
<1>4. \A l \in 1..k : l \in 1..(k - 1) \/ l = k
  OBVIOUS
<1>5. \A l \in 1..k : h[l] \in own
  BY <1>2
<1>6. ASSUME NEW l \in 1..k, NEW m \in 1..k, l # m PROVE h[l] # h[m]
  BY <1>2, <1>3, <1>4, <1>6 DEF IsNewest
<1>7. ASSUME NEW l \in 1..k, NEW j \in own, \A m \in 1..k : m < l => h[m] # j
      PROVE  table[j].at <= table[h[l]].at
  <2>1. CASE l = k
    <3>1. \A m \in 1..(k - 1) : f[m] # j
      BY <1>2, <1>7, <2>1
    <3>2. j \notin Range(f)
      BY <1>1, <3>1 DEF Range
    <3>3. QED
      BY <1>2, <2>1, <3>2
  <2>2. CASE l \in 1..(k - 1)
    <3>1. \A m \in 1..(k - 1) : m < l => f[m] # j
      BY <1>2, <1>7
    <3>2. QED
      BY <1>2, <2>2, <3>1 DEF IsNewest
  <2>3. QED
    BY <1>4, <2>1, <2>2
<1>8. IsNewest(table, own, k, h)
  BY <1>2, <1>5, <1>6, <1>7 DEF IsNewest
<1>9. QED
  BY <1>8 DEF h

LEMMA NewestRowsAre ==
  ASSUME NEW table, NEW own, NEW n \in Nat, NEW order \in NewestRows(table, own, n)
  PROVE  IsNewest(table, own, n, order)
<1> DEFINE newest(S) == {i \in S : \A j \in S : table[j].at <= table[i].at}
           more(F) == UNION {{Append(f, i) : i \in newest(own \ Range(f))} : f \in F}
           V == SUBSET Seq(own)
           step == [p \in (1..n) \X V |-> more(p[2])]
           start == {<<>>}
           found[k \in 0..n] ==
             IF k = 0 THEN {<<>>}
             ELSE UNION {{Append(f, i) : i \in newest(own \ Range(f))} : f \in found[k - 1]}
<1>1. start \in V
  OBVIOUS
<1>2. ASSUME NEW F \in V PROVE more(F) \in V
  <2>1. ASSUME NEW f \in F, NEW i \in newest(own \ Range(f)) PROVE Append(f, i) \in Seq(own)
    <3>1. f \in Seq(own) /\ i \in own
      BY <1>2
    <3>2. QED
      BY <3>1
  <2>2. QED
    BY <2>1
<1>3. step \in [(1..n) \X V -> V]
  <2> HIDE DEF more, V
  <2>1. QED
    BY <1>2
<1>4. PICK g : Follows(g, V, n, start, step)
  <2> HIDE DEF step, V, start
  <2>1. QED
    BY <1>1, <1>3, StepsExist
<1>5. /\ g = [k \in 0..n |-> g[k]] /\ g[0] = start
      /\ \A k \in 0..n : g[k] \in V
      /\ \A k \in 1..n : g[k] = step[<<k, g[k - 1]>>]
  <2> HIDE DEF step, V, start
  <2>1. QED
    BY <1>4 DEF Follows
<1>6. ASSUME NEW k \in 1..n PROVE g[k - 1] \in V /\ g[k] = more(g[k - 1])
  <2> HIDE DEF more, V
  <2>1. g[k - 1] \in V
    BY <1>5
  <2>2. <<k, g[k - 1]>> \in (1..n) \X V
    BY <2>1
  <2>3. QED
    BY <1>5, <2>1, <2>2
<1>7. found = [k \in 0..n |-> IF k = 0 THEN start ELSE more(found[k - 1])]
  <2>1. ASSUME NEW k \in 0..n PROVE g[k] = IF k = 0 THEN start ELSE more(g[k - 1])
    <3> HIDE DEF more, start, V, step
    <3>1. CASE k = 0
      BY <1>5, <3>1
    <3>2. CASE k # 0
      <4>1. k \in 1..n
        BY <3>2
      <4>2. QED
        BY <1>6, <3>2, <4>1
    <3>3. QED
      BY <3>1, <3>2
  <2>2. g = [k \in 0..n |-> IF k = 0 THEN start ELSE more(g[k - 1])]
    <3> HIDE DEF more, start, V, step
    <3>1. QED
      BY <1>5, <2>1, Zenon
  <2>3. QED
    BY <2>2, Zenon
<1>8. NewestRows(table, own, n) = found[n]
  BY Zenon DEF NewestRows
<1> HIDE DEF found
<1>9. found[0] = {<<>>} /\ \A k \in 1..n : found[k] = more(found[k - 1])
  <2> HIDE DEF more
  <2>1. ASSUME NEW k \in 0..n PROVE found[k] = IF k = 0 THEN {<<>>} ELSE more(found[k - 1])
    BY <1>7, Zenon
  <2>2. found[0] = {<<>>}
    BY <2>1
  <2>3. ASSUME NEW k \in 1..n PROVE found[k] = more(found[k - 1])
    <3>1. k \in 0..n /\ k # 0
      OBVIOUS
    <3>2. QED
      BY <2>1, <3>1, Zenon
  <2>4. QED
    BY <2>2, <2>3
<1> DEFINE G == {k \in 0..n : \A f \in found[k] : IsNewest(table, own, k, f)}
<1>10. 0 <= n => 0 \in G
  <2>1. IsNewest(table, own, 0, <<>>)
    BY DEF IsNewest
  <2>2. QED
    BY <1>9, <2>1
<1>11. ASSUME NEW k \in (0 + 1)..n, k - 1 \in G PROVE k \in G
  <2>1. k \in 1..n /\ k \in 0..n /\ k \in Nat \ {0}
    OBVIOUS
  <2>2. ASSUME NEW h \in found[k] PROVE IsNewest(table, own, k, h)
    <3>1. h \in more(found[k - 1])
      <4> HIDE DEF more
      <4>1. QED
        BY <1>9, <2>1
    <3>2. PICK f \in found[k - 1] : h \in {Append(f, i) : i \in newest(own \ Range(f))}
      BY <3>1
    <3>3. PICK i \in own \ Range(f) :
            /\ \A j \in own \ Range(f) : table[j].at <= table[i].at
            /\ h = Append(f, i)
      BY <3>2
    <3>4. IsNewest(table, own, k - 1, f)
      BY <1>11
    <3>5. QED
      BY <2>1, <3>3, <3>4, NewestAppended
  <2>3. QED
    BY <2>1, <2>2
<1>12. \A k \in 0..n : k \in G
  <2> HIDE DEF G
  <2>1. QED
    BY <1>10, <1>11, StepByStep
<1>13. n \in G
  BY <1>12
<1>14. QED
  BY <1>8, <1>13

LEMMA PositionsAre ==
  ASSUME NEW table \in Seq(JournalRow), NEW own \in SUBSET (DOMAIN table)
  PROVE  /\ IsFiniteSet(own) /\ Cardinality(own) \in Nat
         /\ \A i \in own : table[i].at \in Int
<1>1. DOMAIN table = 1..Len(table) /\ Len(table) \in Nat
  OBVIOUS
<1>2. IsFiniteSet(own) /\ Cardinality(own) \in Nat
  <2>1. IsFiniteSet(1..Len(table))
    BY <1>1, FS_Interval
  <2>2. QED
    BY <1>1, <2>1, FS_Subset, FS_CardinalityType
<1>3. \A i \in own : table[i].at \in Int
  <2>1. \A i \in own : table[i] \in JournalRow
    BY <1>1
  <2>2. QED
    BY <2>1 DEF JournalRow
<1>4. QED
  BY <1>2, <1>3

(* When it lists them all, it lists each of them once. *)
LEMMA WholeOrderIs ==
  ASSUME NEW table \in Seq(JournalRow), NEW own \in SUBSET (DOMAIN table), NEW n \in Nat,
         NEW order, IsNewest(table, own, n, order)
  PROVE  /\ \A k, l \in 1..n : k < l => table[order[k]].at >= table[order[l]].at
         /\ n = Cardinality(own) =>
              /\ order \in Bijection(1..n, own)
              /\ \A i \in own : \E k \in 1..n : order[k] = i
<1>1. IsFiniteSet(own) /\ Cardinality(own) \in Nat
  BY PositionsAre
<1>2. \A i \in own : table[i].at \in Int
  BY PositionsAre
<1>3. /\ DOMAIN order = 1..n /\ \A k \in 1..n : order[k] \in own
      /\ \A k, l \in 1..n : k # l => order[k] # order[l]
  BY DEF IsNewest
<1>4. ASSUME NEW k \in 1..n, NEW l \in 1..n, k < l
      PROVE  table[order[k]].at >= table[order[l]].at
  <2>1. order[l] \in own /\ order[k] \in own
    BY <1>3
  <2>2. \A m \in 1..n : m < k => order[m] # order[l]
    BY <1>3, <1>4
  <2>3. table[order[l]].at <= table[order[k]].at
    BY <2>1, <2>2 DEF IsNewest
  <2>4. QED
    BY <1>2, <2>1, <2>3
<1>5. ASSUME n = Cardinality(own)
      PROVE  \A i \in own : \E k \in 1..n : order[k] = i
  <2> DEFINE listed == {order[k] : k \in 1..n}
             b == [k \in 1..n |-> order[k]]
  <2>1. listed \subseteq own
    BY <1>3
  <2>2. b \in Bijection(1..n, listed)
    BY <1>3 DEF Bijection, Injection, Surjection, IsInjective
  <2>3. IsFiniteSet(1..n) /\ Cardinality(1..n) = n
    BY FS_Interval
  <2>4. Cardinality(listed) = n
    <3> HIDE DEF b, listed
    <3>1. ExistsBijection(1..n, listed)
      BY <2>2 DEF ExistsBijection
    <3>2. QED
      BY <2>3, <3>1, FS_Bijection
  <2> HIDE DEF listed, b
  <2>5. listed = own
    BY <1>1, <1>5, <2>1, <2>4, FS_Subset
  <2>6. QED
    BY <2>5 DEF listed
<1>6. ASSUME n = Cardinality(own) PROVE order \in Bijection(1..n, own)
  <2> DEFINE b == [k \in 1..n |-> order[k]]
  <2>1. order \in [1..n -> own]
    BY <1>3 DEF IsNewest
  <2>2. QED
    BY <1>3, <1>5, <1>6, <2>1 DEF Bijection, Injection, Surjection, IsInjective
<1>7. QED
  BY <1>4, <1>5, <1>6

(* Positions that are fetched in an order have in it the rows they have in the table. *)
LEMMA FetchedSums ==
  ASSUME NEW own, IsFiniteSet(own), NEW S, NEW order \in Bijection(S, own),
         NEW T \in SUBSET own, NEW U \in SUBSET S, \A k \in S : k \in U <=> order[k] \in T
  PROVE  /\ Cardinality(U) = Cardinality(T)
         /\ \A f, g : (\A k \in S : g[k] = f[order[k]] /\ g[k] \in Int)
                      => SumFunctionOnSet(g, U) = SumFunctionOnSet(f, T)
<1> DEFINE b == [k \in U |-> order[k]]
<1>1. /\ \A k \in S : order[k] \in own
      /\ \A k, l \in S : order[k] = order[l] => k = l
      /\ \A i \in own : \E k \in S : order[k] = i
  BY DEF Bijection, Injection, Surjection, IsInjective
<1>2. b \in Bijection(U, T)
  BY <1>1 DEF Bijection, Injection, Surjection, IsInjective
<1>3. order \in Injection(S, own)
  BY DEF Bijection
<1>4. IsFiniteSet(S)
  BY <1>3, FS_Injection
<1>5. IsFiniteSet(U)
  BY <1>4, FS_Subset
<1>6. Cardinality(U) = Cardinality(T)
  BY <1>2, <1>5, FS_Bijection DEF ExistsBijection
<1>7. ASSUME NEW f, NEW g, \A k \in S : g[k] = f[order[k]] /\ g[k] \in Int
      PROVE  SumFunctionOnSet(g, U) = SumFunctionOnSet(f, T)
  <2>1. \A k \in U : g[k] \in Int /\ f[b[k]] = g[k]
    BY <1>7
  <2> HIDE DEF b
  <2>2. QED
    BY <1>2, <1>5, <2>1, SumRenamed
<1>8. QED
  BY <1>6, <1>7

(* What is computed from rows that were read is what the table says. *)
LEMMA FetchedIs ==
  ASSUME NEW table \in Seq(JournalRow), NEW own \in SUBSET (DOMAIN table),
         NEW order \in NewestRows(table, own, Cardinality(own))
  PROVE  LET rows == Fetch(table, order) IN
         /\ rows = <<>> <=> own = {}
         /\ Len(rows) = Cardinality(own)
         /\ ShowsNewestFirst(rows, table, own)
         /\ Totals(rows) = TotalsAt(table, own)
         /\ \A type : Largest(rows, type)
                        = Max({0} \cup {table[i].amount : i \in own \cap Counted(table, type)})
         /\ SumOfBalances(rows, DOMAIN rows) = SumOfBalances(table, own)
<1> DEFINE n == Cardinality(own)
           rows == Fetch(table, order)
<1>1. IsFiniteSet(own) /\ n \in Nat /\ \A i \in own : table[i].at \in Int
  BY PositionsAre
<1>2. /\ DOMAIN order = 1..n /\ order \in Bijection(1..n, own)
      /\ \A k \in 1..n : order[k] \in own
      /\ \A i \in own : \E k \in 1..n : order[k] = i
      /\ \A k, l \in 1..n : k < l => table[order[k]].at >= table[order[l]].at
  <2>1. IsNewest(table, own, n, order)
    BY <1>1, NewestRowsAre
  <2>2. DOMAIN order = 1..n /\ \A k \in 1..n : order[k] \in own
    BY <2>1 DEF IsNewest
  <2>3. n = Cardinality(own)
    OBVIOUS
  <2> HIDE DEF n
  <2>4. n \in Nat
    BY <1>1
  <2>5. /\ \A k, l \in 1..n : k < l => table[order[k]].at >= table[order[l]].at
        /\ n = Cardinality(own) =>
             /\ order \in Bijection(1..n, own)
             /\ \A i \in own : \E k \in 1..n : order[k] = i
    BY <2>1, <2>4, WholeOrderIs
  <2>6. QED
    BY <2>2, <2>3, <2>5
<1>3. \A i \in own : /\ i \in DOMAIN table
                     /\ table[i].amount \in Int /\ table[i].after \in Int
  <2>1. \A i \in own : i \in DOMAIN table /\ table[i] \in JournalRow
    OBVIOUS
  <2>2. QED
    BY <2>1 DEF JournalRow
<1> HIDE DEF n
<1>4. rows = [k \in 1..n |-> table[order[k]]]
  BY <1>2 DEF Fetch
<1>5. DOMAIN rows = 1..n /\ Len(rows) = n /\ \A k \in 1..n : rows[k] = table[order[k]]
  BY <1>1, <1>4
<1> HIDE DEF rows
<1> DEFINE Positions(T) == {k \in 1..n : order[k] \in T}
<1>6. ASSUME NEW T \in SUBSET own
      PROVE  /\ SumOfAmounts(rows, Positions(T)) = SumOfAmounts(table, T)
             /\ SumOfBalances(rows, Positions(T)) = SumOfBalances(table, T)
             /\ Cardinality(Positions(T)) = Cardinality(T)
  <2> DEFINE amounts == [i \in DOMAIN table |-> table[i].amount]
             paid == [k \in DOMAIN rows |-> rows[k].amount]
             balances == [i \in DOMAIN table |-> table[i].after]
             left == [k \in DOMAIN rows |-> rows[k].after]
             S == 1..n
             U == Positions(T)
  <2>1. \A k \in S : paid[k] = amounts[order[k]] /\ paid[k] \in Int
    BY <1>2, <1>3, <1>5
  <2>2. \A k \in S : left[k] = balances[order[k]] /\ left[k] \in Int
    BY <1>2, <1>3, <1>5
  <2>3. order \in Bijection(S, own) /\ U \in SUBSET S /\ \A k \in S : k \in U <=> order[k] \in T
    BY <1>2
  <2>4. /\ Cardinality(U) = Cardinality(T)
        /\ \A f, g : (\A k \in S : g[k] = f[order[k]] /\ g[k] \in Int)
                     => SumFunctionOnSet(g, U) = SumFunctionOnSet(f, T)
    <3> HIDE DEF S, U
    <3>1. QED
      BY <1>1, <2>3, FetchedSums
  <2>5. SumFunctionOnSet(paid, U) = SumFunctionOnSet(amounts, T)
    <3> HIDE DEF paid, amounts, S, U
    <3>1. QED
      BY <2>1, <2>4
  <2>6. SumFunctionOnSet(left, U) = SumFunctionOnSet(balances, T)
    <3> HIDE DEF left, balances, S, U
    <3>1. QED
      BY <2>2, <2>4
  <2>7. QED
    BY <2>4, <2>5, <2>6 DEF SumOfAmounts, SumOfBalances
<1>7. /\ Completed(rows) = Positions(own \cap Completed(table))
      /\ \A type : Counted(rows, type) = Positions(own \cap Counted(table, type))
      /\ DOMAIN rows = Positions(own)
  BY <1>2, <1>3, <1>5 DEF Completed, Counted
<1>8. Totals(rows) = TotalsAt(table, own)
  BY <1>6, <1>7 DEF Totals, TotalsAt
<1>9. ASSUME NEW type
      PROVE  Largest(rows, type)
               = Max({0} \cup {table[i].amount : i \in own \cap Counted(table, type)})
  <2>1. {rows[k].amount : k \in Counted(rows, type)}
          = {table[i].amount : i \in own \cap Counted(table, type)}
    <3>1. \A k \in Counted(rows, type) : order[k] \in own \cap Counted(table, type)
            /\ rows[k].amount = table[order[k]].amount
      BY <1>2, <1>5, <1>7
    <3>2. \A i \in own \cap Counted(table, type) : \E k \in Counted(rows, type) :
            rows[k].amount = table[i].amount
      BY <1>2, <1>5, <1>7
    <3>3. QED
      BY <3>1, <3>2
  <2>2. QED
    BY <2>1 DEF Largest
<1>10. SumOfBalances(rows, DOMAIN rows) = SumOfBalances(table, own)
  BY <1>6, <1>7
<1>11. rows = <<>> <=> own = {}
  <2>1. rows = <<>> <=> n = 0
    BY <1>1, <1>4, <1>5
  <2>2. QED
    BY <1>1, <2>1, FS_EmptySet DEF n
<1>12. ShowsNewestFirst(rows, table, own)
  <2>1. Len(rows) = Cardinality(own)
    BY <1>5 DEF n
  <2>2. \A i \in own : \E k \in DOMAIN rows : rows[k] = table[i]
    BY <1>2, <1>5
  <2>3. \A k \in DOMAIN rows : \E i \in own : rows[k] = table[i]
    BY <1>2, <1>5
  <2>4. \A k, l \in DOMAIN rows : k < l => rows[k].at >= rows[l].at
    BY <1>2, <1>5
  <2>5. QED
    BY <2>1, <2>2, <2>3, <2>4 DEF ShowsNewestFirst
<1>13. QED
  BY <1>5, <1>8, <1>9, <1>10, <1>11, <1>12 DEF rows, n

-----------------------------------------------------------------------------
(* The generators. *)

(* r is v/u, rounded. *)
Near(r, v, u) == 2 * (u * r) <= 2 * v + u /\ 2 * v + u < 2 * (u * r) + 2 * u

LEMMA Quotient ==
  ASSUME NEW v \in Int, NEW u \in Nat \ {0}
  PROVE  v \div u \in Int /\ u * (v \div u) <= v /\ v < u * (v \div u) + u
BY SMT

LEMMA CentsAre ==
  ASSUME NEW v \in Nat, NEW u \in Nat \ {0}
  PROVE  Cents(v, u) \in Nat /\ Near(Cents(v, u), v, u)
<1> DEFINE r == Cents(v, u)
<1>1. 2 * v + u \in Int /\ 2 * u \in Nat \ {0}
  OBVIOUS
<1>2. /\ r \in Int /\ (2 * u) * r <= 2 * v + u /\ 2 * v + u < (2 * u) * r + 2 * u
  BY <1>1, Quotient DEF Cents
<1> HIDE DEF r
<1>3. (2 * u) * r = 2 * (u * r)
  BY <1>2
<1>4. r >= 0
  <2>1. CASE r <= -1
    <3>1. u * r <= -u
      BY <1>2, <2>1
    <3>2. QED
      BY <1>2, <1>3, <3>1
  <2>2. QED
    BY <1>2, <2>1
<1>5. QED
  BY <1>2, <1>3, <1>4 DEF Near, r

(* What is less than a multiple of the unit is less of it. *)
LEMMA LessOf ==
  ASSUME NEW u \in Nat \ {0}, NEW x \in Int, NEW m \in Int, u * x < u * m + u
  PROVE  x <= m
<1> DEFINE d == x - m - 1
<1>1. d \in Int /\ u * x = u * m + u + u * d
  OBVIOUS
<1>2. ~(d >= 0)
  <2> HIDE DEF d
  <2>1. d >= 0 => u * d >= 0
    BY <1>1
  <2>2. u * x \in Int /\ u * m \in Int /\ u * d \in Int
    BY <1>1
  <2>3. QED
    BY <1>1, <2>1, <2>2
<1>3. QED
  BY <1>1, <1>2

LEMMA Between ==
  ASSUME NEW u \in Nat \ {0}, NEW x \in Int, NEW m \in Nat,
         u * x < u * m + u, -(u * m + u) < u * x
  PROVE  x \in (-m)..m
<1>1. x <= m
  BY LessOf
<1>2. -x <= m
  <2> DEFINE y == -x
  <2>1. y \in Int /\ u * y = -(u * x) /\ u * x \in Int /\ u * m \in Int
    OBVIOUS
  <2> HIDE DEF y
  <2>2. u * y < u * m + u
    BY <2>1
  <2>3. y <= m
    BY <2>1, <2>2, LessOf
  <2>4. QED
    BY <2>3 DEF y
<1>3. QED
  BY <1>1, <1>2

SampleStep ==
  [type : {"credit", "debit"}, amount : Nat, after : Nat, unit : Nat \ {0}]

(* An account before its first row. *)
NoStep == Step("credit", 0, 0, 1)

StepAt(steps, k) == IF k = 0 THEN NoStep ELSE steps[k]

(* A step adds to the balance of the last one, or takes from it, exactly. *)
FollowsOn(last, step) == \E f \in {1, 10} :
  /\ step.unit = f * last.unit
  /\ step.after = f * last.after + Delta(step.type, step.amount)

LEMMA DrawnIs ==
  ASSUME NEW last \in SampleStep, NEW d \in SampleDraw
  PROVE  Drawn(last, d) \in SampleStep /\ FollowsOn(last, Drawn(last, d))
<1> DEFINE asked == d.amount * last.unit
           step == Drawn(last, d)
<1>1. /\ last.after \in Nat /\ last.unit \in Nat \ {0}
      /\ d.type \in {"credit", "debit"} /\ d.amount \in Nat
  BY DEF SampleStep, SampleDraw
<1>2. asked \in Nat
  BY <1>1
<1>3. CASE d.type = "debit" /\ last.after < asked
  <2>1. step = [type |-> "debit", amount |-> 3 * last.after, after |-> 7 * last.after,
                unit |-> 10 * last.unit]
    BY <1>3 DEF Drawn, Step
  <2> HIDE DEF step
  <2>2. step \in SampleStep
    BY <1>1, <2>1 DEF SampleStep
  <2>3. step.after = 10 * last.after + Delta(step.type, step.amount)
    BY <1>1, <2>1 DEF Delta
  <2>4. QED
    BY <2>1, <2>2, <2>3 DEF FollowsOn, step
<1>4. CASE ~(d.type = "debit" /\ last.after < asked)
  <2> HIDE DEF asked
  <2>1. step = [type |-> d.type, amount |-> asked, after |-> last.after + Delta(d.type, asked),
                unit |-> last.unit]
    BY <1>4 DEF Drawn, Step, asked
  <2> HIDE DEF step
  <2>2. last.after + Delta(d.type, asked) \in Nat
    BY <1>1, <1>2, <1>4 DEF Delta
  <2>3. step \in SampleStep
    BY <1>1, <1>2, <2>1, <2>2 DEF SampleStep
  <2>4. step.unit = 1 * last.unit /\ step.after = 1 * last.after + Delta(step.type, step.amount)
    BY <1>1, <2>1
  <2>5. QED
    BY <2>3, <2>4 DEF FollowsOn, step
<1>5. QED
  BY <1>3, <1>4

LEMMA ReachingIs ==
  ASSUME NEW last \in SampleStep, NEW target \in Nat
  PROVE  LET rest == Reaching(last, target) IN
         \/ Len(rest) = 0 /\ last.after = target * last.unit
         \/ /\ Len(rest) = 1 /\ rest[1] \in SampleStep /\ FollowsOn(last, rest[1])
            /\ rest[1].after = target * rest[1].unit
<1> DEFINE goal == target * last.unit
           rest == Reaching(last, target)
<1>1. last.after \in Nat /\ last.unit \in Nat \ {0}
  BY DEF SampleStep
<1>2. goal \in Nat
  BY <1>1
<1>3. ASSUME NEW type \in {"credit", "debit"}, NEW amount \in Nat,
             goal = last.after + Delta(type, amount),
             rest = <<Step(type, amount, goal, last.unit)>>
      PROVE  /\ Len(rest) = 1 /\ rest[1] \in SampleStep /\ FollowsOn(last, rest[1])
             /\ rest[1].after = target * rest[1].unit
  <2> DEFINE step == rest[1]
  <2>1. /\ Len(rest) = 1
        /\ step = [type |-> type, amount |-> amount, after |-> goal, unit |-> last.unit]
    BY <1>3 DEF Step
  <2>2. step.after = target * step.unit
    BY <2>1
  <2> HIDE DEF goal, step, rest
  <2>3. step \in SampleStep
    BY <1>1, <1>2, <2>1 DEF SampleStep
  <2>4. step.unit = 1 * last.unit /\ step.after = 1 * last.after + Delta(step.type, step.amount)
    BY <1>1, <1>3, <2>1
  <2>5. QED
    BY <2>1, <2>2, <2>3, <2>4 DEF FollowsOn, step
<1>4. CASE goal > last.after
  <2> DEFINE x == goal - last.after
  <2>1. rest = <<Step("credit", x, goal, last.unit)>>
    BY <1>1, <1>2, <1>4 DEF Reaching
  <2>2. x \in Nat /\ goal = last.after + Delta("credit", x)
    BY <1>1, <1>2, <1>4 DEF Delta
  <2> HIDE DEF x, goal, rest
  <2>3. QED
    BY <1>3, <2>1, <2>2 DEF rest
<1>5. CASE goal < last.after
  <2> DEFINE x == last.after - goal
  <2>1. rest = <<Step("debit", x, goal, last.unit)>>
    BY <1>1, <1>2, <1>5 DEF Reaching
  <2>2. x \in Nat /\ goal = last.after + Delta("debit", x)
    BY <1>1, <1>2, <1>5 DEF Delta
  <2> HIDE DEF x, goal, rest
  <2>3. QED
    BY <1>3, <2>1, <2>2 DEF rest
<1>6. CASE goal = last.after
  BY <1>1, <1>2, <1>6 DEF Reaching
<1>7. QED
  BY <1>1, <1>2, <1>4, <1>5, <1>6

(* The steps of a history follow one on the other, to the target. *)
LEMMA SampleStepsAre ==
  ASSUME NEW s \in Sample
  PROVE  LET steps == SampleSteps(s)  m == Len(steps) IN
         /\ steps \in Seq(SampleStep) /\ m \in Nat \ {0} /\ m <= Len(s.at)
         /\ \A k \in 1..m : FollowsOn(StepAt(steps, k - 1), steps[k])
         /\ steps[m].after = s.target * steps[m].unit
<1> DEFINE n == Len(s.draws)
           first == Step("credit", s.deposit, s.deposit, 1)
           V == SampleStep
           step == [p \in (1..n) \X V |-> Drawn(p[2], s.draws[p[1]])]
           drawn[i \in 0..n] == IF i = 0 THEN Step("credit", s.deposit, s.deposit, 1)
                                ELSE Drawn(drawn[i - 1], s.draws[i])
           last == Reaching(drawn[n], s.target)
           steps == SampleSteps(s)
<1>1. /\ s.deposit \in Nat /\ s.target \in Nat /\ n \in Nat /\ Len(s.at) = n + 2
      /\ \A i \in 1..n : s.draws[i] \in SampleDraw
  <2>1. s.deposit \in Nat /\ s.target \in Nat /\ s.draws \in Seq(SampleDraw)
        /\ Len(s.at) = n + 2
    BY DEF Sample
  <2>2. QED
    BY <2>1
<1>2. first \in SampleStep /\ FollowsOn(NoStep, first)
  <2>1. first = [type |-> "credit", amount |-> s.deposit, after |-> s.deposit, unit |-> 1]
    BY DEF Step
  <2>2. NoStep.unit = 1 /\ NoStep.after = 0
    BY DEF NoStep, Step
  <2> HIDE DEF first
  <2>3. first \in SampleStep
    BY <1>1, <2>1 DEF SampleStep
  <2>4. /\ first.unit = 1 * NoStep.unit
        /\ first.after = 1 * NoStep.after + Delta(first.type, first.amount)
    BY <1>1, <2>1, <2>2 DEF Delta
  <2>5. QED
    BY <2>3, <2>4 DEF FollowsOn
<1>3. step \in [(1..n) \X V -> V]
  BY <1>1, DrawnIs
<1>4. PICK g : Follows(g, V, n, first, step)
  <2> HIDE DEF step, V, first, n
  <2>1. QED
    BY <1>1, <1>2, <1>3, StepsExist DEF V
<1>5. /\ g = [i \in 0..n |-> g[i]] /\ g[0] = first
      /\ \A i \in 0..n : g[i] \in V
      /\ \A i \in 1..n : g[i] = step[<<i, g[i - 1]>>]
  <2> HIDE DEF step, V, first, n
  <2>1. QED
    BY <1>4 DEF Follows
<1>6. \A i \in 1..n : g[i] = Drawn(g[i - 1], s.draws[i])
  <2> HIDE DEF V, n, first
  <2>1. ASSUME NEW i \in 1..n PROVE g[i] = Drawn(g[i - 1], s.draws[i])
    <3>1. i - 1 \in 0..n
      BY <1>1
    <3>2. <<i, g[i - 1]>> \in (1..n) \X V
      BY <1>5, <3>1
    <3>3. QED
      BY <1>5, <3>2
  <2>2. QED
    BY <2>1
<1>7. drawn = [i \in 0..n |-> IF i = 0 THEN first ELSE Drawn(drawn[i - 1], s.draws[i])]
  <2>1. ASSUME NEW i \in 0..n
        PROVE  g[i] = IF i = 0 THEN first ELSE Drawn(g[i - 1], s.draws[i])
    <3> HIDE DEF first, n, step, V
    <3>1. CASE i = 0
      BY <1>5, <3>1
    <3>2. CASE i # 0
      <4>1. i \in 1..n
        BY <1>1, <3>2
      <4>2. QED
        BY <1>6, <3>2, <4>1
    <3>3. QED
      BY <3>1, <3>2
  <2>2. g = [i \in 0..n |-> IF i = 0 THEN first ELSE Drawn(g[i - 1], s.draws[i])]
    <3> HIDE DEF first, n, step, V
    <3>1. QED
      BY <1>5, <2>1, Zenon
  <2>3. QED
    BY <2>2, Zenon
<1>8. steps = [k \in 1..(1 + n + Len(last)) |-> IF k <= 1 + n THEN drawn[k - 1] ELSE last[1]]
  BY Zenon DEF SampleSteps
<1> HIDE DEF steps, last, drawn, first, n, step, V
<1>9. /\ drawn[0] = first
      /\ \A i \in 1..n : drawn[i] = Drawn(drawn[i - 1], s.draws[i])
  <2>1. ASSUME NEW i \in 0..n
        PROVE  drawn[i] = IF i = 0 THEN first ELSE Drawn(drawn[i - 1], s.draws[i])
    BY <1>7, Zenon
  <2>2. drawn[0] = first
    BY <1>1, <2>1
  <2>3. ASSUME NEW i \in 1..n PROVE drawn[i] = Drawn(drawn[i - 1], s.draws[i])
    <3>1. i \in 0..n /\ i # 0
      BY <1>1
    <3>2. QED
      BY <2>1, <3>1, Zenon
  <2>4. QED
    BY <2>2, <2>3
<1>10. \A i \in 0..n : drawn[i] \in SampleStep
  <2> DEFINE G == {i \in 0..n : drawn[i] \in SampleStep}
  <2>1. 0 <= n => 0 \in G
    BY <1>1, <1>2, <1>9
  <2>2. ASSUME NEW i \in (0 + 1)..n, i - 1 \in G PROVE i \in G
    <3>1. i \in 1..n /\ i \in 0..n
      BY <1>1
    <3>2. QED
      BY <1>1, <1>9, <2>2, <3>1, DrawnIs
  <2>3. n \in Int
    BY <1>1
  <2> HIDE DEF G
  <2>4. \A i \in 0..n : i \in G
    BY <2>1, <2>2, <2>3, StepByStep
  <2>5. QED
    BY <2>4 DEF G
<1> DEFINE Ends(final) == final.after = s.target * final.unit
<1>11. /\ Len(last) = 0 \/ Len(last) = 1
       /\ Len(last) = 0 => Ends(drawn[n])
       /\ Len(last) = 1 => last[1] \in SampleStep /\ FollowsOn(drawn[n], last[1]) /\ Ends(last[1])
  <2> DEFINE d == drawn[n]  t == s.target
  <2>1. d \in SampleStep /\ t \in Nat
    BY <1>1, <1>10
  <2> HIDE DEF d, t
  <2>2. LET rest == Reaching(d, t) IN
        \/ Len(rest) = 0 /\ d.after = t * d.unit
        \/ /\ Len(rest) = 1 /\ rest[1] \in SampleStep /\ FollowsOn(d, rest[1])
           /\ rest[1].after = t * rest[1].unit
    BY <2>1, ReachingIs
  <2>3. QED
    BY <2>2 DEF last, d, t
<1> HIDE DEF Ends
<1> DEFINE m == 1 + n + Len(last)
<1>12. m \in Nat \ {0} /\ m <= Len(s.at) /\ 1 + n <= m /\ (m = 1 + n \/ m = 2 + n)
  <2>1. CASE Len(last) = 0
    BY <1>1, <2>1
  <2>2. CASE Len(last) = 1
    BY <1>1, <2>2
  <2>3. QED
    BY <1>11, <2>1, <2>2
<1>13. DOMAIN steps = 1..m /\ Len(steps) = m
  BY <1>8, <1>12
<1>14. /\ \A k \in 1..(1 + n) : steps[k] = drawn[k - 1]
       /\ m = 2 + n => steps[m] = last[1]
  <2>1. \A k \in 1..(1 + n) : k \in 1..m /\ k <= 1 + n
    BY <1>1, <1>12
  <2>2. m = 2 + n => m \in 1..m /\ ~(m <= 1 + n)
    BY <1>1, <1>12
  <2>3. \A k \in 1..m : steps[k] = IF k <= 1 + n THEN drawn[k - 1] ELSE last[1]
    BY <1>8, Zenon
  <2> HIDE DEF m
  <2>4. QED
    BY <2>1, <2>2, <2>3
<1>15. m = 2 + n => Len(last) = 1
  BY <1>1, <1>11
<1>16. m = 1 + n => Len(last) = 0
  BY <1>1, <1>11
<1> HIDE DEF m
<1>17. ASSUME NEW k \in 1..m
       PROVE  steps[k] \in SampleStep /\ FollowsOn(StepAt(steps, k - 1), steps[k])
  <2>1. CASE k = 1
    <3>1. steps[k] = first
      BY <1>1, <1>9, <1>14, <2>1
    <3>2. StepAt(steps, k - 1) = NoStep
      BY <2>1 DEF StepAt
    <3>3. QED
      BY <1>2, <3>1, <3>2
  <2>2. CASE k # 1 /\ k <= 1 + n
    <3>1. k - 1 \in 1..n /\ k - 1 \in 1..(1 + n) /\ k \in 1..(1 + n) /\ k - 1 # 0
          /\ (k - 1) - 1 \in 0..n
      BY <1>1, <1>12, <2>2
    <3>2. steps[k] = drawn[k - 1] /\ steps[k - 1] = drawn[(k - 1) - 1]
      BY <1>14, <3>1
    <3>3. drawn[k - 1] = Drawn(drawn[(k - 1) - 1], s.draws[k - 1])
      BY <1>9, <3>1
    <3>4. StepAt(steps, k - 1) = drawn[(k - 1) - 1]
      BY <3>1, <3>2 DEF StepAt
    <3>5. drawn[(k - 1) - 1] \in SampleStep /\ s.draws[k - 1] \in SampleDraw
      BY <1>1, <1>10, <3>1
    <3>6. QED
      BY <3>2, <3>3, <3>4, <3>5, DrawnIs
  <2>3. CASE ~(k <= 1 + n)
    <3>1. k = m /\ m = 2 + n /\ k - 1 = 1 + n /\ k - 1 # 0 /\ k - 1 \in 1..(1 + n)
          /\ (k - 1) - 1 = n
      BY <1>1, <1>12, <2>3
    <3>2. steps[k] = last[1] /\ StepAt(steps, k - 1) = drawn[n]
      BY <1>14, <3>1 DEF StepAt
    <3>3. QED
      BY <1>11, <1>15, <3>1, <3>2
  <2>4. QED
    BY <2>1, <2>2, <2>3
<1>18. Ends(steps[m])
  <2>1. CASE m = 1 + n
    <3>1. steps[m] = drawn[n]
      <4>1. m \in 1..(1 + n) /\ m - 1 = n
        BY <1>1, <2>1
      <4>2. QED
        BY <1>14, <4>1
    <3>2. QED
      BY <1>11, <1>16, <2>1, <3>1
  <2>2. CASE m = 2 + n
    BY <1>11, <1>14, <1>15, <2>2
  <2>3. QED
    BY <1>12, <2>1, <2>2
<1>19. steps \in Seq(SampleStep)
  <2>1. steps \in [1..m -> SampleStep]
    <3>1. steps = [k \in 1..m |-> steps[k]]
      BY <1>8, Zenon DEF m
    <3>2. QED
      BY <1>17, <3>1
  <2>2. QED
    BY <1>12, <2>1
<1>20. QED
  BY <1>12, <1>13, <1>17, <1>18, <1>19 DEF steps, Ends

(* The unit of a step measures the balance before it as well. *)
LEMMA SameUnit ==
  ASSUME NEW last \in SampleStep, NEW step \in SampleStep, FollowsOn(last, step)
  PROVE  \E v \in Nat :
           /\ Near(Cents(last.after, last.unit), v, step.unit)
           /\ step.after = v + Delta(step.type, step.amount)
           /\ \A net \in Int, k \in Nat :
                2 * (last.unit * net - last.after) \in (-(k * last.unit))..(k * last.unit)
                  => 2 * (step.unit * net - v) \in (-(k * step.unit))..(k * step.unit)
<1> DEFINE r == Cents(last.after, last.unit)  w == last.after  u == last.unit
<1>1. w \in Nat /\ u \in Nat \ {0} /\ r \in Nat /\ Near(r, w, u)
  <2>1. w \in Nat /\ u \in Nat \ {0}
    BY DEF SampleStep
  <2>2. QED
    BY <2>1, CentsAre
<1>2. PICK f \in {1, 10} : step.unit = f * u /\ step.after = f * w + Delta(step.type, step.amount)
  BY DEF FollowsOn
<1> HIDE DEF r, w, u
<1>3. ASSUME NEW net \in Int, NEW k \in Nat, 2 * (u * net - w) \in (-(k * u))..(k * u)
      PROVE  2 * (10 * u * net - 10 * w) \in (-(k * (10 * u)))..(k * (10 * u))
  <2> DEFINE x == u * net  y == k * u
  <2>1. x \in Int /\ y \in Int /\ 2 * (x - w) \in (-y)..y
    BY <1>1, <1>3
  <2>2. 10 * u * net = 10 * x /\ k * (10 * u) = 10 * y
    BY <1>1
  <2> HIDE DEF x, y
  <2>3. 2 * (10 * x - 10 * w) \in (-(10 * y))..(10 * y)
    BY <1>1, <2>1
  <2>4. QED
    BY <2>2, <2>3
<1>4. Near(r, 10 * w, 10 * u)
  <2> DEFINE x == u * r
  <2>1. x \in Int /\ (10 * u) * r = 10 * x
    BY <1>1
  <2>2. 2 * x <= 2 * w + u /\ 2 * w + u < 2 * x + 2 * u
    BY <1>1 DEF Near
  <2> HIDE DEF x
  <2>3. QED
    BY <1>1, <2>1, <2>2 DEF Near
<1>5. CASE f = 1
  <2>1. step.unit = u /\ step.after = w + Delta(step.type, step.amount)
    BY <1>1, <1>2, <1>5
  <2>2. QED
    BY <1>1, <2>1 DEF r, w, u
<1>6. CASE f = 10
  <2> DEFINE v == 10 * w
  <2>1. step.unit = 10 * u /\ step.after = v + Delta(step.type, step.amount) /\ v \in Nat
    BY <1>1, <1>2, <1>6
  <2>2. Near(r, v, step.unit)
    BY <1>4, <2>1
  <2>3. \A net \in Int, k \in Nat :
          2 * (u * net - w) \in (-(k * u))..(k * u)
            => 2 * (step.unit * net - v) \in (-(k * step.unit))..(k * step.unit)
    BY <1>3, <2>1
  <2> HIDE DEF v
  <2>4. QED
    BY <2>1, <2>2, <2>3 DEF r, w, u
<1>7. QED
  BY <1>5, <1>6

(* Balances that are rounded, and the amount between them, are a cent apart. *)
LEMMA RoundedStep ==
  ASSUME NEW last \in SampleStep, NEW step \in SampleStep, FollowsOn(last, step)
  PROVE  Cents(step.after, step.unit) - Cents(last.after, last.unit)
           - Delta(step.type, Cents(step.amount, step.unit)) \in -1..1
<1> DEFINE left == Cents(last.after, last.unit)
           kept == Cents(step.after, step.unit)
           moved == Cents(step.amount, step.unit)
           u == step.unit  a == step.amount  b == step.after
           d == Delta(step.type, moved)
           e == kept - left - d
<1>1. /\ u \in Nat \ {0} /\ a \in Nat /\ b \in Nat /\ step.type \in {"credit", "debit"}
      /\ last.after \in Nat /\ last.unit \in Nat \ {0}
  BY DEF SampleStep
<1>2. /\ left \in Nat /\ kept \in Nat /\ moved \in Nat
      /\ Near(kept, b, u) /\ Near(moved, a, u)
  BY <1>1, CentsAre
<1>3. PICK v \in Nat : Near(left, v, u) /\ b = v + Delta(step.type, a)
  BY SameUnit
<1> HIDE DEF left, kept, moved, u, a, b
<1> DEFINE x == u * left  y == u * kept  z == u * moved
<1>4. /\ x \in Int /\ y \in Int /\ z \in Int
      /\ 2 * x <= 2 * v + u /\ 2 * v + u < 2 * x + 2 * u
      /\ 2 * y <= 2 * b + u /\ 2 * b + u < 2 * y + 2 * u
      /\ 2 * z <= 2 * a + u /\ 2 * a + u < 2 * z + 2 * u
  BY <1>1, <1>2, <1>3 DEF Near
<1>5. d \in Int /\ e \in Int
      /\ u * e = IF step.type = "credit" THEN y - x - z ELSE y - x + z
  <2>1. CASE step.type = "credit"
    <3>1. d = moved
      BY <2>1 DEF Delta
    <3>2. u * (kept - left - moved) = y - x - z
      BY <1>1, <1>2
    <3>3. QED
      BY <1>2, <2>1, <3>1, <3>2
  <2>2. CASE step.type = "debit"
    <3>1. d = -moved
      BY <2>2 DEF Delta
    <3>2. u * (kept - left - (-moved)) = y - x + z
      BY <1>1, <1>2
    <3>3. QED
      BY <1>2, <2>2, <3>1, <3>2
  <2>3. QED
    BY <1>1, <2>1, <2>2
<1>6. b = IF step.type = "credit" THEN v + a ELSE v - a
  BY <1>1, <1>3 DEF Delta
<1> HIDE DEF x, y, z, d, e
<1>7. u * e < u * 1 + u /\ -(u * 1 + u) < u * e
  <2> DEFINE q == u * e
  <2>1. q = IF step.type = "credit" THEN y - x - z ELSE y - x + z
    BY <1>5
  <2> HIDE DEF q
  <2>2. q < 2 * u /\ -(2 * u) < q
    <3>1. CASE step.type = "credit"
      BY <1>1, <1>4, <1>6, <2>1, <3>1
    <3>2. CASE step.type = "debit"
      BY <1>1, <1>4, <1>6, <2>1, <3>2
    <3>3. QED
      BY <1>1, <3>1, <3>2
  <2>3. u * 1 + u = 2 * u
    BY <1>1
  <2>4. QED
    BY <2>2, <2>3 DEF q
<1>8. e \in (-1)..1
  BY <1>1, <1>5, <1>7, Between
<1>9. QED
  BY <1>8 DEF e, d, kept, left, moved, u, a, b

(* Amounts that are rounded add up to the balance, but for half a cent each. *)
OffBy(net, k, step) ==
  2 * (step.unit * net - step.after) \in (-(k * step.unit))..(k * step.unit)

LEMMA OffStep ==
  ASSUME NEW last \in SampleStep, NEW step \in SampleStep, FollowsOn(last, step),
         NEW net \in Int, NEW k \in Nat, OffBy(net, k, last)
  PROVE  OffBy(net + Delta(step.type, Cents(step.amount, step.unit)), k + 1, step)
<1> DEFINE moved == Cents(step.amount, step.unit)
           u == step.unit  a == step.amount  b == step.after
           d == Delta(step.type, moved)
<1>1. u \in Nat \ {0} /\ a \in Nat /\ b \in Nat /\ step.type \in {"credit", "debit"}
  BY DEF SampleStep
<1>2. moved \in Nat /\ Near(moved, a, u)
  BY <1>1, CentsAre
<1>3. PICK v \in Nat :
        /\ b = v + Delta(step.type, a)
        /\ 2 * (u * net - v) \in (-(k * u))..(k * u)
  BY SameUnit DEF OffBy
<1> HIDE DEF moved, u, a, b
<1> DEFINE x == u * net  y == k * u  z == u * moved
<1>4. /\ x \in Int /\ y \in Int /\ z \in Int
      /\ 2 * (x - v) \in (-y)..y
      /\ 2 * z <= 2 * a + u /\ 2 * a + u < 2 * z + 2 * u
  BY <1>1, <1>2, <1>3 DEF Near
<1>5. (k + 1) * u = y + u
  BY <1>1
<1>6. 2 * (u * (net + d) - b) \in (-(y + u))..(y + u)
  <2>1. CASE step.type = "credit"
    <3>1. d = moved /\ b = v + a
      BY <1>3, <2>1 DEF Delta
    <3>2. u * (net + moved) = x + z
      BY <1>1, <1>2
    <3> HIDE DEF x, y, z, d
    <3>3. 2 * ((x + z) - (v + a)) \in (-(y + u))..(y + u)
      BY <1>1, <1>4
    <3>4. QED
      BY <3>1, <3>2, <3>3
  <2>2. CASE step.type = "debit"
    <3>1. d = -moved /\ b = v - a
      BY <1>1, <1>3, <2>2 DEF Delta
    <3>2. u * (net + (-moved)) = x - z
      BY <1>1, <1>2
    <3> HIDE DEF x, y, z, d
    <3>3. 2 * ((x - z) - (v - a)) \in (-(y + u))..(y + u)
      BY <1>1, <1>4
    <3>4. QED
      BY <3>1, <3>2, <3>3
  <2>3. QED
    BY <1>1, <2>1, <2>2
<1> HIDE DEF x, y, z, d
<1>7. QED
  BY <1>5, <1>6 DEF OffBy, d, moved, u, a, b

LEMMA OffWhole ==
  ASSUME NEW step \in SampleStep, NEW target \in Nat, step.after = target * step.unit,
         NEW net \in Int, NEW k \in Nat, OffBy(net, k, step)
  PROVE  Cents(step.after, step.unit) = target /\ 2 * (net - target) \in (-k)..k
<1> DEFINE u == step.unit  r == Cents(step.after, step.unit)
<1>1. u \in Nat \ {0} /\ step.after \in Nat
  BY DEF SampleStep
<1>2. r \in Nat /\ Near(r, step.after, u)
  BY <1>1, CentsAre
<1>3. 2 * (u * net - target * u) \in (-(k * u))..(k * u)
  BY DEF OffBy
<1>4. 2 * (u * r) <= 2 * (target * u) + u /\ 2 * (target * u) + u < 2 * (u * r) + 2 * u
  BY <1>2 DEF Near
<1> HIDE DEF u, r
<1>5. r - target \in (-0)..0
  <2> DEFINE e == r - target  x == u * r  y == target * u
  <2>1. e \in Int /\ u * e = x - y /\ x \in Int /\ y \in Int
    BY <1>1, <1>2
  <2>2. 2 * x <= 2 * y + u /\ 2 * y + u < 2 * x + 2 * u
    BY <1>4
  <2> HIDE DEF e, x, y
  <2>3. u * e < u * 0 + u /\ -(u * 0 + u) < u * e
    BY <1>1, <2>1, <2>2
  <2>4. e \in (-0)..0
    BY <1>1, <2>1, <2>3, Between
  <2>5. QED
    BY <2>4 DEF e
<1>6. 2 * (net - target) \in (-k)..k
  <2> DEFINE e == 2 * (net - target)  x == u * net  y == target * u  z == k * u
  <2>1. e \in Int /\ u * e = 2 * (x - y) /\ x \in Int /\ y \in Int /\ z \in Int /\ u * k = z
    BY <1>1
  <2>2. 2 * (x - y) \in (-z)..z
    BY <1>3
  <2> HIDE DEF e, x, y, z
  <2>3. u * e < u * k + u /\ -(u * k + u) < u * e
    BY <1>1, <2>1, <2>2
  <2>4. e \in (-k)..k
    BY <1>1, <2>1, <2>3, Between
  <2>5. QED
    BY <2>4 DEF e
<1>7. QED
  BY <1>2, <1>5, <1>6 DEF r

(* A history is a chain of balances from nothing to the balance of its account. *)
LEMMA SampleHistoryIs ==
  ASSUME NEW a \in Accounts, NEW s \in Sample
  PROVE  LET rows == SampleHistory(a, s)  m == Len(rows)  steps == SampleSteps(s) IN
         /\ rows \in Seq(JournalRow) /\ m \in Nat \ {0} /\ m = Len(steps) /\ m <= Len(s.at)
         /\ \A k \in 1..m :
              /\ rows[k].account = a /\ rows[k].at = s.at[k]
              /\ Delta(rows[k].type, rows[k].amount)
                   = Delta(steps[k].type, Cents(steps[k].amount, steps[k].unit))
              /\ rows[k].after - rows[k].before - Delta(rows[k].type, rows[k].amount) \in -1..1
              /\ k # 1 => rows[k].before = rows[k - 1].after
         /\ rows[m].after = SampleBalance(s) /\ SampleBalance(s) \in Nat
<1> DEFINE rows == SampleHistory(a, s)
           steps == SampleSteps(s)
           m == Len(steps)
           left(k) == IF k = 0 THEN 0 ELSE Cents(steps[k].after, steps[k].unit)
<1>1. /\ steps \in Seq(SampleStep) /\ m \in Nat \ {0} /\ m <= Len(s.at)
      /\ \A k \in 1..m : FollowsOn(StepAt(steps, k - 1), steps[k])
  BY SampleStepsAre
<1>2. rows = [k \in 1..m |-> StoredRow(a, steps[k], left(k - 1), s.at[k])]
  <2>1. DOMAIN steps = 1..m
    BY <1>1
  <2>2. rows = [k \in DOMAIN steps |-> StoredRow(a, steps[k], left(k - 1), s.at[k])]
    BY Zenon DEF SampleHistory
  <2>3. QED
    BY <2>1, <2>2, Zenon
<1>3. SampleBalance(s) = left(m)
  <2>1. m # 0
    BY <1>1
  <2>2. QED
    BY <2>1 DEF SampleBalance
<1>4. DOMAIN rows = 1..m /\ Len(rows) = m
  BY <1>1, <1>2
<1>5. \A k \in 1..(Len(s.at)) : s.at[k] \in Int
  BY DEF Sample
<1> HIDE DEF rows, steps, m
<1>6. ASSUME NEW k \in 1..m
      PROVE  /\ steps[k] \in SampleStep /\ StepAt(steps, k - 1) \in SampleStep
             /\ left(k - 1) = Cents(StepAt(steps, k - 1).after, StepAt(steps, k - 1).unit)
             /\ left(k) = Cents(steps[k].after, steps[k].unit)
  <2>1. DOMAIN steps = 1..m /\ \A l \in 1..m : steps[l] \in SampleStep
    BY <1>1 DEF m
  <2>2. k # 0 /\ (k = 1 \/ (k - 1 \in 1..m /\ k - 1 # 0))
    BY <1>1
  <2>3. /\ NoStep \in SampleStep /\ Cents(NoStep.after, NoStep.unit) = 0
    <3>1. NoStep = [type |-> "credit", amount |-> 0, after |-> 0, unit |-> 1]
      BY DEF NoStep, Step
    <3>2. NoStep \in SampleStep
      BY <3>1 DEF SampleStep
    <3>3. NoStep.after = 0 /\ NoStep.unit = 1
      BY <3>1
    <3>4. Cents(0, 1) = 0
      BY SMT DEF Cents
    <3>5. QED
      BY <3>2, <3>3, <3>4
  <2>4. QED
    BY <2>1, <2>2, <2>3 DEF StepAt
<1>7. ASSUME NEW k \in 0..m PROVE left(k) \in Nat
  <2>1. CASE k = 0
    BY <2>1
  <2>2. CASE k # 0
    <3>1. k \in 1..m
      BY <1>1, <2>2
    <3>2. steps[k].after \in Nat /\ steps[k].unit \in Nat \ {0}
      BY <1>6, <3>1 DEF SampleStep
    <3>3. Cents(steps[k].after, steps[k].unit) \in Nat
      BY <3>2, CentsAre
    <3>4. QED
      BY <2>2, <3>3
  <2>3. QED
    BY <2>1, <2>2
<1>8. ASSUME NEW k \in 1..m
      PROVE  /\ rows[k] \in JournalRow /\ rows[k].account = a /\ rows[k].at = s.at[k]
             /\ rows[k].before = left(k - 1) /\ rows[k].after = left(k)
             /\ Delta(rows[k].type, rows[k].amount)
                  = Delta(steps[k].type, Cents(steps[k].amount, steps[k].unit))
             /\ rows[k].after - rows[k].before - Delta(rows[k].type, rows[k].amount) \in -1..1
  <2> DEFINE step == steps[k]  last == StepAt(steps, k - 1)
             moved == Cents(step.amount, step.unit)  before == left(k - 1)  after == left(k)
  <2>1. /\ step \in SampleStep /\ last \in SampleStep /\ FollowsOn(last, step)
        /\ before = Cents(last.after, last.unit) /\ after = Cents(step.after, step.unit)
    <3> HIDE DEF left
    <3>1. QED
      BY <1>1, <1>6 DEF steps, m
  <2>2. before \in Nat /\ after \in Nat
    <3>1. k - 1 \in 0..m /\ k \in 0..m
      BY <1>1
    <3> HIDE DEF left
    <3>2. QED
      BY <1>7, <3>1
  <2>3. rows[k] = StoredRow(a, step, before, s.at[k])
    BY <1>2
  <2>4. k \in 1..(Len(s.at))
    BY <1>1 DEF m, steps
  <2> HIDE DEF step, last, before, after
  <2>5. rows[k] = [account |-> a, type |-> step.type, amount |-> moved, before |-> before,
                   after |-> after, at |-> s.at[k], status |-> "completed"]
    BY <2>1, <2>3 DEF StoredRow
  <2>6. step.type \in {"credit", "debit"} /\ moved \in Nat
    <3>1. step.type \in {"credit", "debit"} /\ step.amount \in Nat /\ step.unit \in Nat \ {0}
      BY <2>1 DEF SampleStep
    <3>2. QED
      BY <3>1, CentsAre
  <2>7. after - before - Delta(step.type, moved) \in -1..1
    BY <2>1, RoundedStep
  <2>8. s.at[k] \in Int
    BY <1>5, <2>4
  <2> HIDE DEF moved
  <2>9. /\ rows[k] \in JournalRow /\ rows[k].account = a /\ rows[k].at = s.at[k]
        /\ rows[k].before = before /\ rows[k].after = after
        /\ rows[k].type = step.type /\ rows[k].amount = moved
    BY <2>2, <2>5, <2>6, <2>8 DEF JournalRow
  <2>10. rows[k].after - rows[k].before - Delta(rows[k].type, rows[k].amount) \in -1..1
    BY <2>7, <2>9
  <2> HIDE DEF left
  <2>11. QED
    BY <2>9, <2>10 DEF step, before, after, moved
<1>9. ASSUME NEW k \in 1..m, k # 1 PROVE rows[k].before = rows[k - 1].after
  <2>1. k - 1 \in 1..m
    BY <1>1, <1>9
  <2> HIDE DEF left
  <2>2. QED
    BY <1>8, <2>1
<1> HIDE DEF left
<1>10. rows[m].after = SampleBalance(s) /\ SampleBalance(s) \in Nat
  <2>1. m \in 1..m /\ m \in 0..m
    BY <1>1 DEF m, steps
  <2>2. QED
    BY <1>3, <1>7, <1>8, <2>1
<1>11. rows \in Seq(JournalRow)
  <2>1. rows \in [1..m -> JournalRow]
    <3>1. rows = [k \in 1..m |-> rows[k]]
      BY <1>2, Zenon
    <3>2. QED
      BY <1>8, <3>1
  <2>2. m \in Nat
    BY <1>1 DEF m, steps
  <2>3. QED
    BY <2>1, <2>2
<1>12. QED
  <2>1. m \in Nat \ {0} /\ m <= Len(s.at) /\ m = Len(steps)
    BY <1>1 DEF m, steps
  <2>2. QED
    BY <1>4, <1>8, <1>9, <1>10, <1>11, <2>1 DEF rows, steps

LEMMA GeneratedBatchIs ==
  ASSUME NEW a \in Accounts, NEW start \in Int, NEW draws \in Seq(GeneratorDraw),
         NEW minimum \in Int
  PROVE  /\ GeneratedBatch(a, start, draws, minimum) \in Seq(JournalRow)
         /\ Len(GeneratedBatch(a, start, draws, minimum)) = Len(draws)
<1> DEFINE drawn(i, balance) == AdjustedDraw(balance, draws[i], minimum)
           change(i, balance) == Delta(drawn(i, balance).type, drawn(i, balance).amount)
           n == Len(draws)
           after == Balances(start, n, change)
           rows == GeneratedBatch(a, start, draws, minimum)
<1>1. n \in Nat
  OBVIOUS
<1>2. ASSUME NEW i \in 1..n, NEW balance \in Int
      PROVE  drawn(i, balance) \in GeneratorDraw /\ change(i, balance) \in Int
  <2>1. draws[i] \in GeneratorDraw
    OBVIOUS
  <2>2. /\ draws[i].type \in {"credit", "debit"} /\ draws[i].amount \in Nat
        /\ draws[i].income \in Nat /\ draws[i].at \in Int
    BY <2>1 DEF GeneratorDraw
  <2>3. [draws[i] EXCEPT !.type = "credit", !.amount = draws[i].income] \in GeneratorDraw
    BY <2>1, <2>2 DEF GeneratorDraw
  <2>4. drawn(i, balance) \in GeneratorDraw
    BY <2>1, <2>3 DEF AdjustedDraw
  <2>5. drawn(i, balance).amount \in Nat
    <3> HIDE DEF drawn
    <3>1. QED
      BY <2>4 DEF GeneratorDraw
  <2>6. change(i, balance) \in Int
    <3> HIDE DEF drawn
    <3>1. QED
      BY <2>5 DEF Delta
  <2>7. QED
    BY <2>4, <2>6
<1>3. after = [i \in 0..n |-> IF i = 0 THEN start ELSE after[i - 1] + change(i, after[i - 1])]
  <2> DEFINE step == [p \in (1..n) \X Int |-> p[2] + change(p[1], p[2])]
  <2> HIDE DEF drawn, change, n
  <2>1. step \in [(1..n) \X Int -> Int]
    BY <1>2
  <2>2. PICK g : Follows(g, Int, n, start, step)
    <3> HIDE DEF step
    <3>1. QED
      BY <1>1, <2>1, StepsExist
  <2>3. ASSUME NEW i \in 1..n PROVE g[i] = g[i - 1] + change(i, g[i - 1])
    <3>1. g[i - 1] \in Int
      BY <1>1, <2>2 DEF Follows
    <3>2. step[<<i, g[i - 1]>>] = g[i - 1] + change(i, g[i - 1])
      BY <3>1
    <3>3. QED
      BY <2>2, <3>2 DEF Follows
  <2>4. g = [i \in 0..n |-> IF i = 0 THEN start ELSE g[i - 1] + change(i, g[i - 1])]
    BY <1>1, <2>2, <2>3 DEF Follows
  <2>5. QED
    BY <2>4 DEF Balances
<1> HIDE DEF after, n
<1>4. /\ after[0] = start
      /\ \A i \in 1..n : after[i] = after[i - 1] + change(i, after[i - 1])
  <2> HIDE DEF change
  <2>1. \A i \in 0..n : after[i] = IF i = 0 THEN start ELSE after[i - 1] + change(i, after[i - 1])
    BY <1>3
  <2>2. QED
    BY <1>1, <2>1
<1>5. \A i \in 0..n : after[i] \in Int
  <2> DEFINE G == {i \in 0..n : after[i] \in Int}
  <2>1. 0 <= n => 0 \in G
    BY <1>1, <1>4
  <2>2. ASSUME NEW i \in (0 + 1)..n, i - 1 \in G PROVE i \in G
    <3>1. i \in 1..n /\ after[i - 1] \in Int
      BY <1>1, <2>2
    <3>2. change(i, after[i - 1]) \in Int
      BY <1>2, <3>1
    <3>3. after[i] \in Int
      <4> HIDE DEF change
      <4>1. QED
        BY <1>4, <3>1, <3>2
    <3>4. QED
      BY <1>1, <3>1, <3>3
  <2> HIDE DEF G
  <2>3. n \in Int
    BY <1>1
  <2>4. \A i \in 0..n : i \in G
    BY <2>1, <2>2, <2>3, StepByStep
  <2>5. QED
    BY <2>4 DEF G
<1> DEFINE row(k) == LET d == drawn(k, after[k - 1])
                     IN HistoryRow(a, d.type, d.amount, after[k - 1], d.at, "completed")
<1>6. rows = [k \in 1..n |-> row(k)]
  BY DEF GeneratedBatch, n, after
<1>7. ASSUME NEW k \in 1..n PROVE row(k) \in JournalRow
  <2> DEFINE d == drawn(k, after[k - 1])
  <2>1. after[k - 1] \in Int
    BY <1>1, <1>5
  <2>2. d \in GeneratorDraw
    BY <1>2, <2>1
  <2> HIDE DEF d
  <2>3. d.type \in {"credit", "debit"} /\ d.amount \in Nat /\ d.at \in Int
    BY <2>2 DEF GeneratorDraw
  <2>4. after[k - 1] + Delta(d.type, d.amount) \in Int
    BY <2>1, <2>3 DEF Delta
  <2>5. HistoryRow(a, d.type, d.amount, after[k - 1], d.at, "completed") \in JournalRow
    BY <2>1, <2>3, <2>4 DEF HistoryRow, JournalRow
  <2>6. QED
    BY <2>5 DEF d
<1>8. QED
  <2> HIDE DEF row, rows
  <2>1. rows \in [1..n -> JournalRow]
    BY <1>6, <1>7
  <2>2. rows \in Seq(JournalRow) /\ Len(rows) = n
    BY <1>1, <2>1
  <2>3. QED
    BY <2>2 DEF rows, n

(* The rows at 1 to i are in their places: none that follows is older. *)
Settled(rows, i) ==
  \A k \in 1..i : \A l \in (k + 1)..Len(rows) : rows[k].at <= rows[l].at

JournalOf(n) == {rows \in Seq(JournalRow) : Len(rows) = n}

(* An exchange changes two rows or none. *)
LEMMA ExchangeIs ==
  ASSUME NEW n \in Nat, NEW rows \in JournalOf(n), NEW i \in 1..n, NEW j \in 1..n
  PROVE  /\ Exchange(rows, i, j) \in JournalOf(n)
         /\ \/ ~(i < j /\ rows[i].at > rows[j].at) /\ Exchange(rows, i, j) = rows
            \/ /\ i < j /\ rows[i].at > rows[j].at
               /\ Exchange(rows, i, j)[i] = rows[j]
               /\ Exchange(rows, i, j)[j] = rows[i]
               /\ \A k \in (1..n) \ {i, j} : Exchange(rows, i, j)[k] = rows[k]
<1> DEFINE e == Exchange(rows, i, j)
<1>1. rows \in Seq(JournalRow) /\ Len(rows) = n /\ DOMAIN rows = 1..n
  BY DEF JournalOf
<1>2. CASE ~(i < j /\ rows[i].at > rows[j].at)
  BY <1>2, Zenon DEF Exchange
<1>3. CASE i < j /\ rows[i].at > rows[j].at
  <2>1. e = [rows EXCEPT ![i] = rows[j], ![j] = rows[i]]
    BY <1>3, Zenon DEF Exchange
  <2>2. e = [k \in 1..n |-> IF k = j THEN rows[i] ELSE IF k = i THEN rows[j] ELSE rows[k]]
    BY <1>1, <2>1
  <2> HIDE DEF e
  <2>3. rows[i] \in JournalRow /\ rows[j] \in JournalRow /\ \A k \in 1..n : rows[k] \in JournalRow
    BY <1>1
  <2>4. e \in [1..n -> JournalRow]
    BY <2>2, <2>3
  <2>5. e \in Seq(JournalRow) /\ Len(e) = n
    BY <2>4
  <2>6. e[i] = rows[j] /\ e[j] = rows[i] /\ \A k \in (1..n) \ {i, j} : e[k] = rows[k]
    BY <1>3, <2>2
  <2>7. QED
    BY <1>3, <2>5, <2>6 DEF e, JournalOf
<1>4. QED
  BY <1>2, <1>3

LEMMA JournalHasDates ==
  ASSUME NEW n \in Nat, NEW rows \in JournalOf(n)
  PROVE  Len(rows) = n /\ \A k \in 1..n : rows[k].at \in Int
<1>1. rows \in Seq(JournalRow) /\ Len(rows) = n
  BY DEF JournalOf
<1>2. \A k \in 1..n : rows[k] \in JournalRow
  BY <1>1
<1>3. \A row \in JournalRow : row.at \in Int
  BY DEF JournalRow
<1>4. QED
  BY <1>1, <1>2, <1>3

(* Once the row at i is exchanged with every later one, it is in its place. *)
LEMMA SettleRowIs ==
  ASSUME NEW n \in Nat, NEW rows \in JournalOf(n), NEW i \in 1..n, Settled(rows, i - 1)
  PROVE  SettleRow(rows, i) \in JournalOf(n) /\ Settled(SettleRow(rows, i), i)
<1> DEFINE V == JournalOf(n)
           step == [p \in (1..n) \X V |-> Exchange(p[2], i, p[1])]
<1>1. Len(rows) = n /\ n \in Int
  BY DEF JournalOf
<1>2. step \in [(1..n) \X V -> V]
  <2>1. ASSUME NEW p \in (1..n) \X V PROVE Exchange(p[2], i, p[1]) \in V
    <3>1. p[1] \in 1..n /\ p[2] \in V
      OBVIOUS
    <3> HIDE DEF V
    <3>2. QED
      BY <3>1, ExchangeIs DEF V
  <2>2. QED
    BY <2>1
<1>3. PICK g : Follows(g, V, n, rows, step)
  <2> HIDE DEF step, V
  <2>1. rows \in V
    BY DEF V
  <2>2. QED
    BY <1>2, <2>1, StepsExist
<1>4. /\ g = [j \in 0..n |-> g[j]] /\ g[0] = rows
      /\ \A j \in 0..n : g[j] \in V
  <2> HIDE DEF V, step
  <2>1. QED
    BY <1>3 DEF Follows
<1>5. ASSUME NEW j \in 1..n PROVE g[j - 1] \in V /\ g[j] = Exchange(g[j - 1], i, j)
  <2>1. g[j - 1] \in V /\ g[j] = step[<<j, g[j - 1]>>]
    <3> HIDE DEF V, step
    <3>1. QED
      BY <1>3, <1>4 DEF Follows
  <2>2. <<j, g[j - 1]>> \in (1..n) \X V
    BY <2>1
  <2>3. QED
    BY <2>1, <2>2
<1> HIDE DEF V, step
<1>6. g = [j \in 0..n |-> IF j = 0 THEN rows ELSE Exchange(g[j - 1], i, j)]
  <2> DEFINE next(j) == IF j = 0 THEN rows ELSE Exchange(g[j - 1], i, j)
  <2>1. ASSUME NEW j \in 0..n PROVE g[j] = next(j)
    <3>1. CASE j = 0
      BY <1>4, <3>1
    <3>2. CASE j # 0
      <4>1. j \in 1..n
        BY <3>2
      <4>2. QED
        BY <1>5, <3>2, <4>1
    <3>3. QED
      BY <3>1, <3>2
  <2> HIDE DEF next
  <2>2. g = [j \in 0..n |-> next(j)]
    BY <1>4, <2>1
  <2>3. QED
    BY <2>2 DEF next
<1> DEFINE upto[j \in 0..Len(rows)] == IF j = 0 THEN rows ELSE Exchange(upto[j - 1], i, j)
<1>7. upto = [j \in 0..n |-> IF j = 0 THEN rows ELSE Exchange(upto[j - 1], i, j)]
  BY <1>1, <1>6
<1>8. SettleRow(rows, i) = upto[n]
  BY <1>1 DEF SettleRow
<1> HIDE DEF upto
<1>9. upto[0] = rows /\ \A j \in 1..n : upto[j] = Exchange(upto[j - 1], i, j)
  <2> DEFINE next(j) == IF j = 0 THEN rows ELSE Exchange(upto[j - 1], i, j)
  <2>1. \A j \in 0..n : upto[j] = next(j)
    <3>1. upto = [j \in 0..n |-> next(j)]
      BY <1>7
    <3> HIDE DEF next
    <3>2. QED
      BY <3>1
  <2>2. ASSUME NEW j \in 1..n PROVE j # 0 /\ j \in 0..n
    OBVIOUS
  <2>3. QED
    BY <2>1, <2>2
<1> DEFINE Good(s, j) == /\ s \in JournalOf(n)
                         /\ Settled(s, i - 1)
                         /\ \A l \in (i + 1)..j : s[i].at <= s[l].at
           G == {j \in 0..n : Good(upto[j], j)}
<1>10. 0 <= n => 0 \in G
  BY <1>9
<1>11. ASSUME NEW j \in (0 + 1)..n, j - 1 \in G PROVE j \in G
  <2> DEFINE s == upto[j - 1]  e == upto[j]
  <2>1. j \in 1..n /\ Good(s, j - 1) /\ e = Exchange(s, i, j)
    BY <1>9, <1>11
  <2> HIDE DEF s, e, G
  <2>2. e \in JournalOf(n)
    BY <2>1, ExchangeIs
  <2>3. Len(s) = n /\ Len(e) = n /\ \A k \in 1..n : s[k].at \in Int /\ e[k].at \in Int
    <3>1. Len(s) = n /\ \A k \in 1..n : s[k].at \in Int
      BY <2>1, JournalHasDates
    <3>2. Len(e) = n /\ \A k \in 1..n : e[k].at \in Int
      BY <2>2, JournalHasDates
    <3>3. QED
      BY <3>1, <3>2
  <2>4. CASE ~(i < j /\ s[i].at > s[j].at) /\ e = s
    <3>1. \A l \in (i + 1)..j : s[i].at <= s[l].at
      BY <2>1, <2>3, <2>4
    <3>2. Good(e, j)
      BY <2>1, <2>4, <3>1
    <3>3. QED
      BY <2>1, <3>2 DEF G, e
  <2>5. CASE /\ i < j /\ s[i].at > s[j].at
             /\ e[i] = s[j] /\ e[j] = s[i]
             /\ \A k \in (1..n) \ {i, j} : e[k] = s[k]
    <3>1. ASSUME NEW l \in (i + 1)..j PROVE e[i].at <= e[l].at
      <4>1. l \in 1..n
        BY <2>1
      <4>2. CASE l = j
        BY <2>3, <2>5, <4>1, <4>2
      <4>3. CASE l # j
        <5>1. l \in (i + 1)..(j - 1) /\ l \in (1..n) \ {i, j}
          BY <2>1, <4>1, <4>3
        <5>2. s[i].at <= s[l].at /\ e[l] = s[l]
          BY <2>1, <2>5, <5>1
        <5>3. QED
          BY <2>1, <2>3, <2>5, <4>1, <5>2
      <4>4. QED
        BY <4>2, <4>3
    <3>2. ASSUME NEW k \in 1..(i - 1), NEW l \in (k + 1)..n PROVE e[k].at <= e[l].at
      <4>1. k \in (1..n) \ {i, j} /\ l \in 1..n /\ i \in (k + 1)..n /\ j \in (k + 1)..n
        BY <2>1, <2>5
      <4>2. e[l] \in {s[l], s[i], s[j]}
        BY <2>5, <4>1
      <4>3. s[k].at <= s[l].at /\ s[k].at <= s[i].at /\ s[k].at <= s[j].at
        BY <2>1, <2>3, <4>1 DEF Settled
      <4>4. e[k] = s[k]
        BY <2>5, <4>1
      <4>5. QED
        BY <4>2, <4>3, <4>4
    <3>3. Settled(e, i - 1)
      BY <2>3, <3>2 DEF Settled
    <3>4. Good(e, j)
      BY <2>2, <3>1, <3>3
    <3>5. QED
      BY <2>1, <3>4 DEF G, e
  <2>6. QED
    BY <2>1, <2>4, <2>5, ExchangeIs
<1>12. \A j \in 0..n : j \in G
  <2> HIDE DEF G, Good
  <2>1. 0 \in Int /\ n \in Int
    BY <1>1
  <2>2. QED
    BY <2>1, <1>10, <1>11, StepByStep
<1>13. Good(upto[n], n)
  BY <1>12
<1>14. Settled(upto[n], i)
  <2>1. Len(upto[n]) = n
    BY <1>13 DEF JournalOf
  <2>2. ASSUME NEW k \in 1..i, NEW l \in (k + 1)..n PROVE upto[n][k].at <= upto[n][l].at
    <3>1. CASE k = i
      BY <1>13, <3>1
    <3>2. CASE k # i
      <4>1. k \in 1..(i - 1)
        BY <3>2
      <4>2. QED
        BY <1>13, <2>1, <4>1 DEF Settled
    <3>3. QED
      BY <3>1, <3>2
  <2>3. QED
    BY <2>1, <2>2 DEF Settled
<1>15. QED
  BY <1>8, <1>13, <1>14

LEMMA SortedByDateIs ==
  ASSUME NEW rows \in Seq(JournalRow)
  PROVE  LET sorted == SortedByDate(rows) IN
         /\ sorted \in Seq(JournalRow) /\ Len(sorted) = Len(rows)
         /\ \A k, l \in DOMAIN sorted : k < l => sorted[k].at <= sorted[l].at
<1> DEFINE n == Len(rows)
           V == JournalOf(n)
           step == [p \in (1..n) \X V |->
                      IF Settled(p[2], p[1] - 1) THEN SettleRow(p[2], p[1]) ELSE p[2]]
           settled[i \in 0..n] == IF i = 0 THEN rows ELSE SettleRow(settled[i - 1], i)
<1>1. n \in Nat /\ rows \in V
  BY DEF JournalOf
<1>2. SortedByDate(rows) = settled[n]
  BY DEF SortedByDate
<1>3. step \in [(1..n) \X V -> V]
  <2> DEFINE next(p) == IF Settled(p[2], p[1] - 1) THEN SettleRow(p[2], p[1]) ELSE p[2]
  <2>1. ASSUME NEW p \in (1..n) \X V PROVE next(p) \in V
    <3>1. p[1] \in 1..n /\ p[2] \in V
      OBVIOUS
    <3> HIDE DEF n
    <3>2. Settled(p[2], p[1] - 1) => SettleRow(p[2], p[1]) \in V
      BY <1>1, <3>1, SettleRowIs
    <3>3. QED
      BY <3>1, <3>2
  <2>2. step = [p \in (1..n) \X V |-> next(p)]
    OBVIOUS
  <2> HIDE DEF next, step, V, n
  <2>3. QED
    BY <2>1, <2>2
<1> HIDE DEF n, V
<1>4. PICK g : Follows(g, V, n, rows, step)
  <2> HIDE DEF step
  <2>1. QED
    BY <1>1, <1>3, StepsExist
<1> DEFINE G == {i \in 0..n : Settled(g[i], i)}
<1>5. /\ g = [i \in 0..n |-> g[i]] /\ g[0] = rows
      /\ \A i \in 0..n : g[i] \in V
      /\ \A i \in 1..n : g[i] = step[<<i, g[i - 1]>>]
  <2> HIDE DEF step
  <2>1. QED
    BY <1>4 DEF Follows
<1>6. ASSUME NEW i \in 1..n, Settled(g[i - 1], i - 1)
      PROVE  g[i] = SettleRow(g[i - 1], i) /\ Settled(g[i], i)
  <2>1. i - 1 \in 0..n /\ g[i - 1] \in V
    BY <1>1, <1>5
  <2>2. step[<<i, g[i - 1]>>] = SettleRow(g[i - 1], i)
    BY <1>6, <2>1
  <2>3. g[i] = SettleRow(g[i - 1], i)
    BY <1>5, <2>2
  <2>4. Settled(SettleRow(g[i - 1], i), i)
    BY <1>1, <1>6, <2>1, SettleRowIs DEF V
  <2>5. QED
    BY <2>3, <2>4
<1> HIDE DEF step
<1>7. \A i \in 0..n : i \in G
  <2>1. 0 <= n => 0 \in G
    BY <1>1 DEF Settled
  <2>2. ASSUME NEW i \in (0 + 1)..n, i - 1 \in G PROVE i \in G
    <3>1. i \in 1..n /\ i \in 0..n /\ Settled(g[i - 1], i - 1)
      BY <1>1, <2>2
    <3>2. QED
      BY <1>6, <3>1
  <2> HIDE DEF G
  <2>3. QED
    BY <1>1, <2>1, <2>2, StepByStep
<1>8. g = [i \in 0..n |-> IF i = 0 THEN rows ELSE SettleRow(g[i - 1], i)]
  <2>1. ASSUME NEW i \in 1..n PROVE g[i] = SettleRow(g[i - 1], i)
    <3>1. i - 1 \in 0..n
      BY <1>1
    <3>2. Settled(g[i - 1], i - 1)
      BY <1>7, <3>1
    <3>3. QED
      BY <1>6, <3>2
  <2>2. \A i \in 0..n : i = 0 \/ i \in 1..n
    BY <1>1
  <2>3. \A i \in 0..n : g[i] = IF i = 0 THEN rows ELSE SettleRow(g[i - 1], i)
    BY <1>5, <2>1, <2>2
  <2>4. QED
    BY <1>5, <2>3
<1>9. settled = [i \in 0..n |-> IF i = 0 THEN rows ELSE SettleRow(settled[i - 1], i)]
  BY <1>8
<1> HIDE DEF settled
<1> DEFINE H == {i \in 0..n : settled[i] \in V /\ Settled(settled[i], i)}
<1>10. ASSUME NEW i \in 0..n PROVE settled[i] = IF i = 0 THEN rows ELSE SettleRow(settled[i - 1], i)
  BY <1>9
<1>11. \A i \in 0..n : i \in H
  <2>1. 0 <= n => 0 \in H
    BY <1>1, <1>10 DEF Settled
  <2>2. ASSUME NEW i \in (0 + 1)..n, i - 1 \in H PROVE i \in H
    <3>1. i \in 1..n /\ i \in 0..n /\ settled[i - 1] \in V /\ Settled(settled[i - 1], i - 1)
      BY <1>1, <2>2
    <3>2. settled[i] = SettleRow(settled[i - 1], i)
      BY <1>10, <3>1
    <3>3. settled[i] \in V /\ Settled(settled[i], i)
      BY <1>1, <3>1, <3>2, SettleRowIs DEF V
    <3>4. QED
      BY <3>1, <3>3
  <2> HIDE DEF H
  <2>3. QED
    BY <1>1, <2>1, <2>2, StepByStep
<1>12. settled[n] \in V /\ Settled(settled[n], n)
  BY <1>1, <1>11
<1> DEFINE sorted == SortedByDate(rows)
<1>13. sorted \in Seq(JournalRow) /\ Len(sorted) = n /\ DOMAIN sorted = 1..n /\ Settled(sorted, n)
  BY <1>1, <1>2, <1>12 DEF V, JournalOf
<1> HIDE DEF sorted
<1>14. ASSUME NEW k \in 1..n, NEW l \in 1..n, k < l PROVE sorted[k].at <= sorted[l].at
  BY <1>1, <1>13, <1>14 DEF Settled
<1>15. QED
  BY <1>13, <1>14 DEF sorted, n

(* After the balances are computed again every row follows from the one before it. *)
LEMMA RecalculatedIs ==
  ASSUME NEW rows \in Seq(JournalRow), NEW start \in Int, NEW minimum \in Int
  PROVE  LET done == RecalculatedBalances(rows, start, minimum) IN
         /\ done \in Seq(JournalRow) /\ Len(done) = Len(rows)
         /\ \A k \in DOMAIN done :
              /\ done[k].after = done[k].before + Delta(done[k].type, done[k].amount)
              /\ done[k].type = "debit" => done[k].after >= minimum
              /\ done[k].at = rows[k].at
         /\ \A k \in 2..Len(done) : done[k].before = done[k - 1].after
         /\ rows # <<>> => done[1].before = start
<1> DEFINE type(i, balance) ==
             IF balance - rows[i].amount < minimum THEN "credit" ELSE rows[i].type
           change(i, balance) == Delta(type(i, balance), rows[i].amount)
           n == Len(rows)
           after == Balances(start, n, change)
           done == RecalculatedBalances(rows, start, minimum)
<1>1. n \in Nat /\ DOMAIN rows = 1..n
  OBVIOUS
<1>2. \A i \in 1..n : /\ rows[i].account \in Accounts /\ rows[i].type \in {"credit", "debit"}
                      /\ rows[i].amount \in Nat /\ rows[i].at \in Int
                      /\ rows[i].status = "completed"
  <2>1. \A i \in 1..n : rows[i] \in JournalRow
    OBVIOUS
  <2>2. QED
    BY <2>1 DEF JournalRow
<1> HIDE DEF n
<1>3. \A i \in 1..n, balance \in Int :
        type(i, balance) \in {"credit", "debit"} /\ change(i, balance) \in Int
  BY <1>2 DEF Delta
<1>4. after = [i \in 0..n |-> IF i = 0 THEN start ELSE after[i - 1] + change(i, after[i - 1])]
  <2> DEFINE step == [p \in (1..n) \X Int |-> p[2] + change(p[1], p[2])]
  <2> HIDE DEF type, change
  <2>1. step \in [(1..n) \X Int -> Int]
    BY <1>3
  <2>2. PICK g : Follows(g, Int, n, start, step)
    <3> HIDE DEF step
    <3>1. QED
      BY <1>1, <2>1, StepsExist
  <2>3. ASSUME NEW i \in 1..n PROVE g[i] = g[i - 1] + change(i, g[i - 1])
    <3>1. g[i - 1] \in Int
      BY <1>1, <2>2 DEF Follows
    <3>2. step[<<i, g[i - 1]>>] = g[i - 1] + change(i, g[i - 1])
      BY <3>1
    <3>3. QED
      BY <2>2, <3>2 DEF Follows
  <2>4. g = [i \in 0..n |-> IF i = 0 THEN start ELSE g[i - 1] + change(i, g[i - 1])]
    BY <1>1, <2>2, <2>3 DEF Follows
  <2>5. QED
    BY <2>4 DEF Balances
<1> HIDE DEF after
<1>5. /\ after[0] = start
      /\ \A i \in 1..n : after[i] = after[i - 1] + change(i, after[i - 1])
  <2> HIDE DEF change
  <2>1. \A i \in 0..n : after[i] = IF i = 0 THEN start ELSE after[i - 1] + change(i, after[i - 1])
    BY <1>4
  <2>2. QED
    BY <1>1, <2>1
<1>6. \A i \in 0..n : after[i] \in Int
  <2> DEFINE G == {i \in 0..n : after[i] \in Int}
  <2>1. 0 <= n => 0 \in G
    BY <1>1, <1>5
  <2>2. ASSUME NEW i \in (0 + 1)..n, i - 1 \in G PROVE i \in G
    <3>1. i \in 1..n /\ after[i - 1] \in Int
      BY <1>1, <2>2
    <3>2. change(i, after[i - 1]) \in Int
      BY <1>3, <3>1
    <3>3. after[i] \in Int
      <4> HIDE DEF change
      <4>1. QED
        BY <1>5, <3>1, <3>2
    <3>4. QED
      BY <1>1, <3>1, <3>3
  <2> HIDE DEF G
  <2>3. n \in Int
    BY <1>1
  <2>4. \A i \in 0..n : i \in G
    BY <2>1, <2>2, <2>3, StepByStep
  <2>5. QED
    BY <2>4 DEF G
<1>7. done = [k \in 1..n |->
                HistoryRow(rows[k].account, type(k, after[k - 1]), rows[k].amount, after[k - 1],
                           rows[k].at, rows[k].status)]
  BY <1>1 DEF RecalculatedBalances, n, after
<1> HIDE DEF done
<1>8. ASSUME NEW k \in 1..n
      PROVE  /\ done[k] \in JournalRow
             /\ done[k].after = done[k].before + Delta(done[k].type, done[k].amount)
             /\ done[k].type = "debit" => done[k].after >= minimum
             /\ done[k].at = rows[k].at
             /\ done[k].before = after[k - 1] /\ done[k].after = after[k]
  <2> DEFINE t == type(k, after[k - 1])
             new == after[k - 1] + Delta(t, rows[k].amount)
  <2>1. after[k - 1] \in Int /\ after[k] \in Int
    BY <1>1, <1>6
  <2>2. t \in {"credit", "debit"} /\ new \in Int /\ new = after[k]
    BY <1>3, <1>5, <2>1
  <2>3. t = "debit" => new >= minimum
    BY <1>2, <2>1 DEF Delta
  <2>4. done[k] = [account |-> rows[k].account, type |-> t, amount |-> rows[k].amount,
                   before |-> after[k - 1], after |-> new,
                   at |-> rows[k].at, status |-> rows[k].status]
    BY <1>7 DEF HistoryRow
  <2>5. new = after[k - 1] + Delta(t, rows[k].amount)
    OBVIOUS
  <2> HIDE DEF t, new
  <2>6. QED
    BY <1>2, <2>1, <2>2, <2>3, <2>4, <2>5 DEF JournalRow
<1>9. done \in Seq(JournalRow) /\ Len(done) = n /\ DOMAIN done = 1..n
  <2>1. done = [k \in 1..n |-> done[k]]
    BY <1>7, Zenon
  <2>2. done \in [1..n -> JournalRow]
    BY <1>8, <2>1
  <2>3. QED
    BY <1>1, <2>2
<1>10. ASSUME NEW k \in 2..n PROVE done[k].before = done[k - 1].after
  <2>1. k \in 1..n /\ k - 1 \in 1..n
    BY <1>1
  <2>2. QED
    BY <1>8, <2>1
<1>11. rows # <<>> => done[1].before = start
  <2>1. rows # <<>> => 1 \in 1..n
    BY <1>1 DEF n
  <2>2. QED
    BY <1>5, <1>8, <2>1
<1>12. QED
  BY <1>8, <1>9, <1>10, <1>11 DEF done, n

(* A history reconciles and is as long as what was drawn. *)
IsHistory(done, start, draws, minimum) ==
  /\ done \in Seq(JournalRow) /\ Len(done) = Len(draws) /\ done # <<>>
  /\ \A k \in DOMAIN done :
       /\ done[k].after = done[k].before + Delta(done[k].type, done[k].amount)
       /\ done[k].type = "debit" => done[k].after >= minimum
  /\ \A k \in 2..Len(done) : done[k].before = done[k - 1].after
                            /\ done[k - 1].at <= done[k].at
  /\ done[1].before = start

(* A generated history is in the order of time, a chain of balances from the *)
(* one it starts with, and no debit in it leaves less than the minimum.      *)
LEMMA GeneratedHistoryIs ==
  ASSUME NEW a \in Accounts, NEW start \in Int, NEW draws \in Seq(GeneratorDraw) \ {<<>>},
         NEW minimum \in Int
  PROVE  IsHistory(GeneratedHistory(a, start, draws, minimum), start, draws, minimum)
<1> DEFINE batch == GeneratedBatch(a, start, draws, minimum)
           sorted == SortedByDate(batch)
           done == GeneratedHistory(a, start, draws, minimum)
<1>1. batch \in Seq(JournalRow) /\ Len(batch) = Len(draws)
  BY GeneratedBatchIs
<1>2. Len(draws) \in Nat \ {0}
  OBVIOUS
<1> HIDE DEF batch
<1>3. /\ sorted \in Seq(JournalRow) /\ Len(sorted) = Len(draws)
      /\ \A k, l \in DOMAIN sorted : k < l => sorted[k].at <= sorted[l].at
  BY <1>1, SortedByDateIs
<1>4. done = RecalculatedBalances(sorted, start, minimum)
  BY DEF GeneratedHistory, batch
<1> HIDE DEF sorted, done
<1>5. sorted # <<>> /\ DOMAIN sorted = 1..Len(draws)
  BY <1>2, <1>3
<1>6. /\ done \in Seq(JournalRow) /\ Len(done) = Len(draws)
      /\ \A k \in DOMAIN done :
           /\ done[k].after = done[k].before + Delta(done[k].type, done[k].amount)
           /\ done[k].type = "debit" => done[k].after >= minimum
           /\ done[k].at = sorted[k].at
      /\ \A k \in 2..Len(done) : done[k].before = done[k - 1].after
      /\ done[1].before = start
  BY <1>3, <1>4, <1>5, RecalculatedIs
<1>7. done # <<>> /\ DOMAIN done = 1..Len(draws)
  BY <1>2, <1>6
<1>8. ASSUME NEW k \in 2..Len(draws) PROVE done[k - 1].at <= done[k].at
  <2>1. k \in 1..Len(draws) /\ k - 1 \in 1..Len(draws) /\ k - 1 < k
    BY <1>2
  <2>2. QED
    BY <1>3, <1>5, <1>6, <1>7, <2>1
<1>9. QED
  BY <1>6, <1>7, <1>8 DEF done, IsHistory

-----------------------------------------------------------------------------
(* What the rows of an account add up to. *)

Deltas(rows) == [i \in DOMAIN rows |-> Delta(rows[i].type, rows[i].amount)]

NetOf(rows, a) == SumFunctionOnSet(Deltas(rows), RowsOf(rows, a))

LEMMA DeltasAre ==
  ASSUME NEW rows \in Seq(JournalRow)
  PROVE  /\ DOMAIN rows = 1..Len(rows) /\ Len(rows) \in Nat /\ DOMAIN Deltas(rows) = DOMAIN rows
         /\ \A i \in DOMAIN rows :
              /\ Deltas(rows)[i] \in Int
              /\ Deltas(rows)[i] = Delta(rows[i].type, rows[i].amount)
         /\ \A S \in SUBSET (DOMAIN rows) :
              /\ IsFiniteSet(S)
              /\ SumFunctionOnSet(Deltas(rows), S) \in Int
<1>1. DOMAIN rows = 1..Len(rows) /\ Len(rows) \in Nat
  OBVIOUS
<1>2. ASSUME NEW i \in DOMAIN rows
      PROVE  /\ Deltas(rows)[i] \in Int
             /\ Deltas(rows)[i] = Delta(rows[i].type, rows[i].amount)
  <2>1. rows[i] \in JournalRow
    OBVIOUS
  <2>2. Delta(rows[i].type, rows[i].amount) \in Int
    BY <2>1 DEF JournalRow, Delta
  <2>3. QED
    BY <2>2 DEF Deltas
<1>3. ASSUME NEW S \in SUBSET (DOMAIN rows)
      PROVE  IsFiniteSet(S) /\ SumFunctionOnSet(Deltas(rows), S) \in Int
  <2>1. IsFiniteSet(DOMAIN rows)
    BY <1>1, FS_Interval
  <2>2. IsFiniteSet(S)
    BY <2>1, FS_Subset
  <2>3. QED
    BY <1>2, <2>2, SumType
<1>4. DOMAIN Deltas(rows) = DOMAIN rows
  BY DEF Deltas
<1>5. QED
  BY <1>1, <1>2, <1>3, <1>4

(* The last of some rows adds to what those before it add up to. *)
LEMMA NetStep ==
  ASSUME NEW rows \in Seq(JournalRow), NEW S \in SUBSET (DOMAIN rows), NEW p \in S,
         \A i \in S : i <= p
  PROVE  SumFunctionOnSet(Deltas(rows), S)
           = SumFunctionOnSet(Deltas(rows), {i \in S : i < p}) + Delta(rows[p].type, rows[p].amount)
<1> DEFINE d == Deltas(rows)
           rest == S \ {p}
<1>1. /\ IsFiniteSet(S) /\ \A i \in S : d[i] \in Int
      /\ d[p] = Delta(rows[p].type, rows[p].amount)
      /\ DOMAIN rows = 1..Len(rows) /\ Len(rows) \in Nat
      /\ SumFunctionOnSet(d, rest) \in Int
  BY DeltasAre
<1>2. rest = {i \in S : i < p}
  BY <1>1
<1>3. SumFunctionOnSet(d, S) = d[p] + SumFunctionOnSet(d, rest)
  BY <1>1, SumOut
<1> HIDE DEF d, rest
<1>4. d[p] \in Int
  BY <1>1
<1>5. SumFunctionOnSet(d, S) = SumFunctionOnSet(d, rest) + d[p]
  BY <1>1, <1>3, <1>4
<1>6. QED
  BY <1>1, <1>2, <1>5 DEF d

(* A row that is added changes the sum of its account and nothing else. *)
Adds(rows, e, a) ==
  LET more == Append(rows, e)  own == RowsOf(rows, a) IN
  /\ more \in Seq(JournalRow)
  /\ Len(rows) + 1 \notin own /\ \A i \in own : i \in Int /\ i < Len(rows) + 1
  /\ more[Len(rows) + 1] = e /\ \A i \in own : more[i] = rows[i]
  /\ RowsOf(more, a) = IF e.account = a THEN own \cup {Len(rows) + 1} ELSE own
  /\ NetOf(more, a) = IF e.account = a THEN NetOf(rows, a) + Delta(e.type, e.amount)
                      ELSE NetOf(rows, a)

LEMMA NetAppended ==
  ASSUME NEW rows \in Seq(JournalRow), NEW e \in JournalRow, NEW a
  PROVE  Adds(rows, e, a)
<1> DEFINE more == Append(rows, e)
           n == Len(rows)
           own == RowsOf(rows, a)
<1>1. /\ n \in Nat /\ DOMAIN rows = 1..n /\ DOMAIN more = 1..(n + 1) /\ more \in Seq(JournalRow)
      /\ more[n + 1] = e /\ \A i \in 1..n : more[i] = rows[i]
  OBVIOUS
<1> HIDE DEF more, n
<1>2. RowsOf(more, a) = IF e.account = a THEN own \cup {n + 1} ELSE own
  BY <1>1 DEF RowsOf
<1>3. own \subseteq 1..n /\ \A i \in own : i \in Int /\ i <= n /\ i < n + 1
  BY <1>1 DEF RowsOf
<1>4. n + 1 \notin own /\ \A i \in own : more[i] = rows[i]
  BY <1>1, <1>3
<1> HIDE DEF own
<1>5. SumFunctionOnSet(Deltas(more), own) = SumFunctionOnSet(Deltas(rows), own)
  <2>1. IsFiniteSet(own)
    BY <1>1, <1>3, DeltasAre
  <2>2. ASSUME NEW i \in own PROVE Deltas(more)[i] = Deltas(rows)[i]
    <3>1. i \in DOMAIN rows /\ i \in DOMAIN more /\ more[i] = rows[i]
      BY <1>1, <1>3, <1>4
    <3>2. QED
      BY <3>1 DEF Deltas
  <2>3. QED
    BY <2>1, <2>2, SumAlike
<1>6. CASE e.account = a
  <2> DEFINE S == RowsOf(more, a)
  <2>1. /\ S \in SUBSET (DOMAIN more) /\ n + 1 \in S /\ \A i \in S : i <= n + 1
        /\ {i \in S : i < n + 1} = own
    <3>1. S = own \cup {n + 1}
      BY <1>2, <1>6
    <3>2. n + 1 \in 1..(n + 1) /\ own \subseteq 1..(n + 1) /\ ~(n + 1 < n + 1)
      BY <1>1, <1>3
    <3>3. ASSUME NEW i \in S PROVE i <= n + 1
      <4>1. i \in own \/ i = n + 1
        BY <3>1
      <4>2. CASE i \in own
        <5>1. i \in Int /\ i <= n
          BY <1>3, <4>2
        <5>2. QED
          BY <1>1, <5>1
      <4>3. CASE i = n + 1
        BY <1>1, <4>3
      <4>4. QED
        BY <4>1, <4>2, <4>3
    <3> HIDE DEF S
    <3>4. QED
      BY <1>1, <1>3, <3>1, <3>2, <3>3
  <2> HIDE DEF S
  <2>2. SumFunctionOnSet(Deltas(more), S)
          = SumFunctionOnSet(Deltas(more), own) + Delta(more[n + 1].type, more[n + 1].amount)
    BY <1>1, <2>1, NetStep
  <2>3. NetOf(more, a) = NetOf(rows, a) + Delta(e.type, e.amount)
    BY <1>1, <1>5, <2>2 DEF NetOf, S, own
  <2>4. QED
    BY <1>1, <1>2, <1>3, <1>4, <1>6, <2>3 DEF Adds, more, n, own
<1>7. CASE e.account # a
  <2>1. NetOf(more, a) = NetOf(rows, a)
    BY <1>2, <1>5, <1>7 DEF NetOf, own
  <2>2. QED
    BY <1>1, <1>2, <1>3, <1>4, <1>7, <2>1 DEF Adds, more, n, own
<1>8. QED
  BY <1>6, <1>7

-----------------------------------------------------------------------------
(* The rows of an account continue one another and lead to a balance. *)

Continue(rows, own, t) ==
  /\ \A i \in own :
       /\ rows[i].after - rows[i].before - Delta(rows[i].type, rows[i].amount) \in -1..1
       /\ rows[i].at <= t
  /\ \A i, j \in own : i < j => rows[i].at <= rows[j].at
  /\ \A i, j \in own : Adjacent(own, i, j) => rows[i].after = rows[j].before

EndWith(rows, own, balance) ==
  \A i \in own : (\A j \in own : j <= i) => rows[i].after = balance

Books(rows, a, t, balance) ==
  LET own == RowsOf(rows, a) IN
  /\ Continue(rows, own, t)
  /\ EndWith(rows, own, balance)
  /\ balance \in Int /\ 2 * (NetOf(rows, a) - balance) \in (-Cardinality(own))..Cardinality(own)

(* A sample history keeps the books of its account. *)
LEMMA SampleBooks ==
  ASSUME NEW rows \in Seq(JournalRow), NEW a \in Accounts, NEW s \in Sample, NEW o \in Nat,
         NEW t \in Int, \A k \in DOMAIN s.at : s.at[k] <= t,
         RowsOf(rows, a) = (o + 1)..(o + Len(SampleHistory(a, s))),
         \A k \in 1..Len(SampleHistory(a, s)) : rows[o + k] = SampleHistory(a, s)[k]
  PROVE  Books(rows, a, t, SampleBalance(s)) /\ SampleBalance(s) \in Nat
<1> DEFINE h == SampleHistory(a, s)
           m == Len(h)
           steps == SampleSteps(s)
           own == RowsOf(rows, a)
           balance == SampleBalance(s)
           moved(k) == Delta(steps[k].type, Cents(steps[k].amount, steps[k].unit))
<1>1. /\ m \in Nat \ {0} /\ m = Len(steps) /\ m <= Len(s.at)
      /\ \A k \in 1..m :
           /\ h[k].at = s.at[k] /\ Delta(h[k].type, h[k].amount) = moved(k)
           /\ h[k].after - h[k].before - Delta(h[k].type, h[k].amount) \in -1..1
           /\ k # 1 => h[k].before = h[k - 1].after
      /\ h[m].after = balance /\ balance \in Nat
  BY SampleHistoryIs
<1>2. own = (o + 1)..(o + m) /\ \A k \in 1..m : rows[o + k] = h[k]
  OBVIOUS
<1>3. /\ steps \in Seq(SampleStep)
      /\ \A k \in 1..m : FollowsOn(StepAt(steps, k - 1), steps[k])
      /\ s.target \in Nat /\ steps[m].after = s.target * steps[m].unit
  <2>1. s.target \in Nat
    BY DEF Sample
  <2>2. QED
    BY <1>1, <2>1, SampleStepsAre
<1>4. /\ DOMAIN s.at = 1..Len(s.at)
      /\ \A k \in 1..Len(s.at) : s.at[k] <= t /\ s.at[k] \in Int
      /\ \A k, l \in 1..Len(s.at) : k < l => s.at[k] <= s.at[l]
  <2>1. s.at \in Seq(Int) /\ \A k, l \in DOMAIN s.at : k < l => s.at[k] <= s.at[l]
    BY DEF Sample
  <2>2. DOMAIN s.at = 1..Len(s.at) /\ \A k \in DOMAIN s.at : s.at[k] <= t /\ s.at[k] \in Int
    BY <2>1
  <2>3. QED
    BY <2>1, <2>2, Zenon
<1> HIDE DEF h, m, steps, balance
<1> HIDE DEF own
<1>5. ASSUME NEW i \in own
      PROVE  /\ i - o \in 1..m /\ i - o \in 1..Len(s.at) /\ i \in Int /\ i - o \in Int
             /\ rows[i] = h[i - o] /\ i <= o + m
  <2> DEFINE k == i - o
  <2>1. k \in 1..m /\ i = o + k
    BY <1>1, <1>2
  <2>2. k \in 1..Len(s.at)
    BY <1>1, <1>4, <2>1
  <2>3. QED
    BY <1>2, <2>1, <2>2
<1>6. ASSUME NEW i \in own
      PROVE  /\ rows[i].after - rows[i].before - Delta(rows[i].type, rows[i].amount) \in -1..1
             /\ rows[i].at <= t /\ rows[i].at = s.at[i - o]
  <2> DEFINE k == i - o
  <2>1. k \in 1..m /\ k \in 1..Len(s.at) /\ rows[i] = h[k]
    BY <1>5
  <2> HIDE DEF k
  <2>2. h[k].after - h[k].before - Delta(h[k].type, h[k].amount) \in -1..1 /\ h[k].at = s.at[k]
    BY <1>1, <2>1
  <2>3. s.at[k] <= t
    BY <1>4, <2>1
  <2>4. QED
    BY <2>1, <2>2, <2>3 DEF k
<1>7. ASSUME NEW i \in own, NEW j \in own, i < j PROVE rows[i].at <= rows[j].at
  <2>1. i - o < j - o
    BY <1>5, <1>7
  <2>2. QED
    BY <1>4, <1>5, <1>6, <2>1
<1>8. ASSUME NEW i \in own, NEW j \in own, Adjacent(own, i, j) PROVE rows[i].after = rows[j].before
  <2>1. i < j /\ (i + 1 \in own => i + 1 <= i \/ j <= i + 1)
    BY <1>8 DEF Adjacent
  <2>2. j = i + 1
    <3>1. i \in Int /\ j \in Int /\ j <= o + m /\ o + 1 <= i
      BY <1>1, <1>2
    <3>2. i + 1 \in own
      BY <1>1, <1>2, <2>1, <3>1
    <3>3. QED
      BY <2>1, <3>1, <3>2
  <2>3. j - o # 1 /\ (j - o) - 1 = i - o /\ i - o \in 1..m /\ j - o \in 1..m
    BY <1>1, <1>5, <2>2
  <2>4. rows[i] = h[i - o] /\ rows[j] = h[j - o]
    BY <1>5
  <2>5. h[j - o].before = h[(j - o) - 1].after
    BY <1>1, <2>3
  <2>6. QED
    BY <2>3, <2>4, <2>5
<1>9. ASSUME NEW i \in own, \A j \in own : j <= i PROVE rows[i].after = balance
  <2>1. o + m \in own
    BY <1>1, <1>2
  <2>2. o + m <= i /\ i <= o + m /\ i \in Int
    BY <1>5, <1>9, <2>1
  <2>3. i - o = m
    BY <1>1, <2>2
  <2>4. QED
    BY <1>1, <1>5, <2>3
<1> DEFINE G == {k \in 0..m : OffBy(SumFunctionOnSet(Deltas(rows), (o + 1)..(o + k)), k,
                                    StepAt(steps, k))}
<1>10. 0 <= m => 0 \in G
  <2>1. (o + 1)..(o + 0) = {}
    OBVIOUS
  <2>2. SumFunctionOnSet(Deltas(rows), {}) = 0
    BY SumOfEmpty
  <2>3. StepAt(steps, 0) = [type |-> "credit", amount |-> 0, after |-> 0, unit |-> 1]
    BY DEF StepAt, NoStep, Step
  <2>4. OffBy(0, 0, StepAt(steps, 0))
    BY <2>3 DEF OffBy
  <2>5. QED
    BY <1>1, <2>1, <2>2, <2>4
<1>11. ASSUME NEW k \in (0 + 1)..m, k - 1 \in G PROVE k \in G
  <2> DEFINE S == (o + 1)..(o + k)
             R == (o + 1)..(o + (k - 1))
             net == SumFunctionOnSet(Deltas(rows), R)
  <2>1. k \in 1..m /\ k - 1 \in Nat /\ o + k \in Int /\ k # 0 /\ k \in 0..m /\ (k - 1) + 1 = k
    BY <1>1
  <2>2. /\ S \subseteq own /\ own \subseteq DOMAIN rows /\ o + k \in S /\ \A i \in S : i <= o + k
        /\ {i \in S : i < o + k} = R /\ R \subseteq own
    <3>1. own \subseteq DOMAIN rows
      BY DEF own, RowsOf
    <3>2. S \subseteq own
      BY <1>1, <1>2, <2>1
    <3>3. o + k \in S /\ \A i \in S : i <= o + k
      BY <2>1
    <3>4. {i \in S : i < o + k} = R
      BY <2>1
    <3>5. R \subseteq S
      BY <2>1
    <3>6. QED
      BY <3>1, <3>2, <3>3, <3>4, <3>5
  <2>3. net \in Int
    <3>1. R \in SUBSET (DOMAIN rows)
      BY <2>2
    <3> HIDE DEF R
    <3>2. QED
      BY <3>1, DeltasAre
  <2>4. SumFunctionOnSet(Deltas(rows), S) = net + moved(k)
    <3> DEFINE p == o + k
    <3>1. S \in SUBSET (DOMAIN rows) /\ p \in S /\ (\A i \in S : i <= p) /\ {i \in S : i < p} = R
      BY <2>2
    <3>2. Delta(rows[p].type, rows[p].amount) = moved(k)
      BY <1>1, <1>2, <2>1
    <3> HIDE DEF p, S, R, moved
    <3>3. QED
      BY <3>1, <3>2, NetStep
  <2>5. /\ StepAt(steps, k - 1) \in SampleStep /\ steps[k] \in SampleStep
        /\ FollowsOn(StepAt(steps, k - 1), steps[k]) /\ StepAt(steps, k) = steps[k]
    <3>1. NoStep \in SampleStep
      <4>1. NoStep = [type |-> "credit", amount |-> 0, after |-> 0, unit |-> 1]
        BY DEF NoStep, Step
      <4>2. QED
        BY <4>1 DEF SampleStep
    <3>2. \A l \in 1..m : l # 0 /\ steps[l] \in SampleStep /\ StepAt(steps, l) = steps[l]
      <4>1. \A l \in 1..m : steps[l] \in SampleStep
        BY <1>1, <1>3
      <4>2. \A l \in 1..m : l # 0
        BY <1>1
      <4>3. QED
        BY <4>1, <4>2, Zenon DEF StepAt
    <3>3. steps[k] \in SampleStep /\ StepAt(steps, k) = steps[k]
      BY <2>1, <3>2
    <3>4. StepAt(steps, k - 1) \in SampleStep
      <4>1. CASE k - 1 = 0
        BY <3>1, <4>1 DEF StepAt
      <4>2. CASE k - 1 # 0
        <5>1. k - 1 \in 1..m
          BY <1>1, <2>1, <4>2
        <5>2. QED
          BY <3>2, <5>1
      <4>3. QED
        BY <4>1, <4>2
    <3>5. FollowsOn(StepAt(steps, k - 1), steps[k])
      BY <1>3, <2>1
    <3>6. QED
      BY <3>3, <3>4, <3>5
  <2>6. OffBy(net, k - 1, StepAt(steps, k - 1))
    BY <1>11
  <2> HIDE DEF net, S
  <2>7. OffBy(net + moved(k), (k - 1) + 1, steps[k])
    BY <2>1, <2>3, <2>5, <2>6, OffStep
  <2>8. QED
    BY <2>1, <2>4, <2>5, <2>7 DEF S
<1>12. m \in G
  <2>1. m \in 0..m /\ 0 \in Int /\ m \in Int
    BY <1>1
  <2> HIDE DEF G
  <2>2. QED
    BY <1>10, <1>11, <2>1, StepByStep
<1>13. 2 * (NetOf(rows, a) - balance) \in (-Cardinality(own))..Cardinality(own)
  <2> DEFINE net == NetOf(rows, a)
  <2>1. StepAt(steps, m) = steps[m] /\ steps[m] \in SampleStep /\ balance = Cents(steps[m].after, steps[m].unit)
    <3>1. m # 0 /\ m \in 1..m /\ DOMAIN steps = 1..m
      BY <1>1, <1>3
    <3>2. QED
      BY <1>1, <1>3, <3>1 DEF StepAt, SampleBalance, balance, steps
  <2>2. OffBy(net, m, steps[m])
    BY <1>2, <1>12, <2>1 DEF NetOf, own
  <2>3. net \in Int
    <3>1. own \in SUBSET (DOMAIN rows)
      BY DEF own, RowsOf
    <3>2. QED
      BY <3>1, DeltasAre DEF NetOf, own
  <2>4. Cardinality(own) = m
    <3>1. o + 1 \in Int /\ o + m \in Int /\ o + 1 <= o + m /\ (o + m) - (o + 1) + 1 = m
      BY <1>1
    <3>2. QED
      BY <1>2, <3>1, FS_Interval
  <2> HIDE DEF net
  <2>5. balance = s.target /\ 2 * (net - s.target) \in (-m)..m
    <3>1. m \in Nat
      BY <1>1
    <3>2. QED
      BY <1>3, <2>1, <2>2, <2>3, <3>1, OffWhole
  <2>6. QED
    BY <2>4, <2>5 DEF net
<1>14. Continue(rows, own, t)
  BY <1>6, <1>7, <1>8 DEF Continue
<1>15. EndWith(rows, own, balance)
  BY <1>9 DEF EndWith
<1>16. QED
  BY <1>1, <1>13, <1>14, <1>15 DEF Books, own, balance

LEMMA NoBooks ==
  ASSUME NEW rows \in Seq(JournalRow), NEW a, RowsOf(rows, a) = {}, NEW t
  PROVE  Books(rows, a, t, 0)
<1>1. NetOf(rows, a) = 0
  BY SumOfEmpty DEF NetOf
<1>2. Cardinality(RowsOf(rows, a)) = 0
  BY FS_EmptySet
<1>3. 2 * (0 - 0) \in (-0)..0
  OBVIOUS
<1>4. QED
  BY <1>1, <1>2, <1>3 DEF Books, Continue, EndWith

LEMMA BooksAge ==
  ASSUME NEW rows \in Seq(JournalRow), NEW a, NEW t \in Int, NEW u \in Int, t <= u,
         NEW balance, Books(rows, a, t, balance)
  PROVE  Books(rows, a, u, balance)
<1>1. ASSUME NEW i \in RowsOf(rows, a) PROVE rows[i].at <= u
  <2>1. rows[i] \in JournalRow
    BY DEF RowsOf
  <2>2. rows[i].at \in Int /\ rows[i].at <= t
    BY <2>1 DEF Books, Continue, JournalRow
  <2>3. QED
    BY <2>2
<1>2. QED
  BY <1>1 DEF Books, Continue

(* The row of a movement continues the books of its account. *)
LEMMA BooksAppended ==
  ASSUME NEW rows \in Seq(JournalRow), NEW e \in JournalRow, NEW a, e.account = a,
         NEW t \in Int, NEW balance, Books(rows, a, t, balance),
         e.before = balance, e.after = balance + Delta(e.type, e.amount), e.at = t
  PROVE  Books(Append(rows, e), a, t, e.after)
<1> DEFINE more == Append(rows, e)
           own == RowsOf(rows, a)
           p == Len(rows) + 1
           all == RowsOf(more, a)
           d == Delta(e.type, e.amount)
<1>0. /\ p \notin own /\ \A i \in own : i \in Int /\ i < p
      /\ more[p] = e /\ \A i \in own : more[i] = rows[i]
      /\ RowsOf(more, a) = IF e.account = a THEN own \cup {p} ELSE own
      /\ NetOf(more, a) = IF e.account = a THEN NetOf(rows, a) + Delta(e.type, e.amount)
                          ELSE NetOf(rows, a)
  <2>1. Adds(rows, e, a)
    BY NetAppended
  <2>2. QED
    BY <2>1, Zenon DEF Adds
<1> HIDE DEF more, own, p
<1>1. /\ p \notin own /\ \A i \in own : i \in Int /\ i < p
      /\ more[p] = e /\ \A i \in own : more[i] = rows[i]
      /\ all = own \cup {p}
      /\ NetOf(more, a) = NetOf(rows, a) + d
  BY <1>0
<1>2. p \in Int /\ IsFiniteSet(own) /\ NetOf(rows, a) \in Int
  <2>1. own \in SUBSET (DOMAIN rows) /\ Len(rows) \in Nat
    BY DEF RowsOf, own
  <2>2. QED
    BY <2>1, DeltasAre DEF NetOf, own, p
<1>3. d \in Int /\ balance \in Int /\ e.after = balance + d
  BY DEF JournalRow, Delta, Books
<1>4. /\ \A i \in own : /\ rows[i].after - rows[i].before - Delta(rows[i].type, rows[i].amount) \in -1..1
                        /\ rows[i].at <= t
      /\ \A i, j \in own : i < j => rows[i].at <= rows[j].at
      /\ \A i, j \in own : Adjacent(own, i, j) => rows[i].after = rows[j].before
      /\ \A i \in own : (\A j \in own : j <= i) => rows[i].after = balance
      /\ 2 * (NetOf(rows, a) - balance) \in (-Cardinality(own))..Cardinality(own)
  BY DEF Books, Continue, EndWith, own
<1> HIDE DEF all, d
<1>5. \A i \in all : i \in Int /\ i <= p /\ (i # p => i \in own /\ i < p)
  BY <1>1, <1>2
<1>6. ASSUME NEW i \in all
      PROVE  /\ more[i].after - more[i].before - Delta(more[i].type, more[i].amount) \in -1..1
             /\ more[i].at <= t
  <2>1. CASE i = p
    <3>1. e.after - e.before - d = 0
      BY <1>3
    <3>2. QED
      BY <1>1, <2>1, <3>1 DEF d
  <2>2. CASE i # p
    BY <1>1, <1>4, <1>5, <2>2
  <2>3. QED
    BY <2>1, <2>2
<1>7. ASSUME NEW i \in all, NEW j \in all, i < j PROVE more[i].at <= more[j].at
  <2>1. i \in own /\ i # p
    BY <1>2, <1>5, <1>7
  <2>2. CASE j = p
    BY <1>1, <1>4, <2>1, <2>2
  <2>3. CASE j # p
    BY <1>1, <1>4, <1>5, <1>7, <2>1, <2>3
  <2>4. QED
    BY <2>2, <2>3
<1>8. ASSUME NEW i \in all, NEW j \in all, Adjacent(all, i, j) PROVE more[i].after = more[j].before
  <2>1. i < j /\ \A k \in all : k <= i \/ j <= k
    BY <1>8 DEF Adjacent
  <2>2. i \in own
    BY <1>2, <1>5, <2>1
  <2>3. CASE j = p
    <3>1. ASSUME NEW k \in own PROVE k <= i
      <4>1. k \in all /\ k \in Int /\ k < p
        BY <1>1
      <4>2. QED
        BY <1>2, <2>1, <2>3, <4>1
    <3>2. rows[i].after = balance
      BY <1>4, <2>2, <3>1
    <3>3. QED
      BY <1>1, <2>2, <2>3, <3>2
  <2>4. CASE j # p
    <3>1. j \in own /\ own \subseteq all
      BY <1>1, <1>5, <2>4
    <3>2. Adjacent(own, i, j)
      BY <2>1, <3>1 DEF Adjacent
    <3>3. QED
      BY <1>1, <1>4, <2>2, <3>1, <3>2
  <2>5. QED
    BY <2>3, <2>4
<1>9. ASSUME NEW i \in all, \A j \in all : j <= i PROVE more[i].after = e.after
  <2>1. p \in all /\ p <= i
    BY <1>1, <1>9
  <2>2. i = p
    BY <1>2, <1>5, <2>1
  <2>3. QED
    BY <1>1, <2>2
<1>10. 2 * (NetOf(more, a) - e.after) \in (-Cardinality(all))..Cardinality(all)
  <2>1. Cardinality(own) \in Nat /\ Cardinality(all) = Cardinality(own) + 1
    BY <1>1, <1>2, FS_CardinalityType, FS_AddElement
  <2>2. NetOf(more, a) - e.after = NetOf(rows, a) - balance
    BY <1>1, <1>2, <1>3
  <2>3. QED
    BY <1>2, <1>3, <1>4, <2>1, <2>2
<1>11. Continue(more, all, t)
  BY <1>6, <1>7, <1>8 DEF Continue
<1>12. EndWith(more, all, e.after)
  BY <1>9 DEF EndWith
<1>13. e.after \in Int
  BY <1>3
<1>14. QED
  BY <1>10, <1>11, <1>12, <1>13 DEF Books, more, all

(* ... and leaves the books of the others. *)
LEMMA BooksOther ==
  ASSUME NEW rows \in Seq(JournalRow), NEW e \in JournalRow, NEW a, e.account # a,
         NEW t, NEW balance, Books(rows, a, t, balance)
  PROVE  Books(Append(rows, e), a, t, balance)
<1> DEFINE more == Append(rows, e)
           own == RowsOf(rows, a)
           p == Len(rows) + 1
<1>0. /\ p \notin own /\ \A i \in own : i \in Int /\ i < p
      /\ more[p] = e /\ \A i \in own : more[i] = rows[i]
      /\ RowsOf(more, a) = IF e.account = a THEN own \cup {p} ELSE own
      /\ NetOf(more, a) = IF e.account = a THEN NetOf(rows, a) + Delta(e.type, e.amount)
                          ELSE NetOf(rows, a)
  <2>1. Adds(rows, e, a)
    BY NetAppended
  <2>2. QED
    BY <2>1, Zenon DEF Adds
<1> HIDE DEF more, own, p
<1>1. /\ RowsOf(more, a) = own /\ NetOf(more, a) = NetOf(rows, a)
      /\ \A i \in own : more[i] = rows[i]
  BY <1>0
<1>2. Continue(rows, own, t) /\ EndWith(rows, own, balance)
  BY DEF Books, own
<1>3. Continue(more, own, t) /\ EndWith(more, own, balance)
  BY <1>1, <1>2 DEF Continue, EndWith
<1>4. QED
  BY <1>1, <1>3 DEF Books, more, own

(* What a new user starts with. *)
LEMMA SampledIs ==
  ASSUME NEW u \in NewUsers
  PROVE  LET rows == SampleHistory(u.checking, u.first) \o SampleHistory(u.savings, u.second) IN
         /\ rows \in Seq(JournalRow)
         /\ Books(rows, u.checking, FirstNow, SampleBalance(u.first))
         /\ Books(rows, u.savings, FirstNow, SampleBalance(u.second))
         /\ {SampleBalance(u.first), SampleBalance(u.second)} \subseteq Nat
         /\ \A a : a # u.checking /\ a # u.savings => Books(rows, a, FirstNow, 0)
<1> DEFINE c == u.checking  s == u.savings
           h1 == SampleHistory(c, u.first)
           h2 == SampleHistory(s, u.second)
           n1 == Len(h1)  n2 == Len(h2)  n == n1 + n2
           rows == h1 \o h2
<1>1. /\ c \in Accounts /\ s \in Accounts /\ c # s /\ u.first \in Sample /\ u.second \in Sample
      /\ FirstNow \in Int
      /\ \A k \in DOMAIN u.first.at : u.first.at[k] <= FirstNow
      /\ \A k \in DOMAIN u.second.at : u.second.at[k] <= FirstNow
  BY AccountReportsAssumption
<1>2. /\ h1 \in Seq(JournalRow) /\ n1 \in Nat /\ \A k \in 1..n1 : h1[k].account = c
      /\ h2 \in Seq(JournalRow) /\ n2 \in Nat /\ \A k \in 1..n2 : h2[k].account = s
  <2> HIDE DEF c, s
  <2>1. QED
    BY <1>1, SampleHistoryIs
<1> HIDE DEF h1, h2, c, s
<1>3. /\ rows \in Seq(JournalRow) /\ DOMAIN rows = 1..n /\ n \in Nat
      /\ \A k \in 1..n1 : rows[0 + k] = h1[k]
      /\ \A k \in 1..n2 : rows[n1 + k] = h2[k]
  BY <1>2
<1> HIDE DEF rows
<1>4. /\ \A i \in 1..n : IF i <= n1 THEN rows[i].account = c ELSE rows[i].account = s
      /\ \A i \in (0 + 1)..(0 + n1) : i \in 1..n /\ i <= n1
      /\ \A i \in (n1 + 1)..(n1 + n2) : i \in 1..n /\ ~(i <= n1)
      /\ \A i \in 1..n : IF i <= n1 THEN i \in (0 + 1)..(0 + n1) ELSE i \in (n1 + 1)..(n1 + n2)
  <2>1. ASSUME NEW i \in 1..n
        PROVE  IF i <= n1 THEN rows[i].account = c ELSE rows[i].account = s
    <3>1. CASE i <= n1
      <4>1. i \in 1..n1 /\ 0 + i = i
        BY <1>2, <3>1
      <4>2. QED
        BY <1>2, <1>3, <3>1, <4>1
    <3>2. CASE ~(i <= n1)
      <4> DEFINE k == i - n1
      <4>1. k \in 1..n2 /\ n1 + k = i
        BY <1>2, <3>2
      <4> HIDE DEF k
      <4>2. QED
        BY <1>2, <1>3, <3>2, <4>1
    <3>3. QED
      BY <3>1, <3>2
  <2>2. QED
    BY <1>2, <2>1
<1> HIDE DEF n
<1>5. /\ RowsOf(rows, c) = (0 + 1)..(0 + n1) /\ RowsOf(rows, s) = (n1 + 1)..(n1 + n2)
      /\ \A a : a # c /\ a # s => RowsOf(rows, a) = {}
  <2> DEFINE R == (0 + 1)..(0 + n1)  S == (n1 + 1)..(n1 + n2)  D == 1..n
  <2>1. /\ \A i \in D : IF i <= n1 THEN rows[i].account = c /\ i \in R
                        ELSE rows[i].account = s /\ i \in S
        /\ \A i \in R : i \in D /\ i <= n1
        /\ \A i \in S : i \in D /\ ~(i <= n1)
        /\ DOMAIN rows = D /\ c # s
    BY <1>1, <1>3, <1>4 DEF c, s
  <2> HIDE DEF R, S, D
  <2>2. ASSUME NEW a, NEW i
        PROVE  /\ i \in RowsOf(rows, a) <=> i \in D /\ rows[i].account = a
               /\ i \in R <=> i \in D /\ rows[i].account = c
               /\ i \in S <=> i \in D /\ rows[i].account = s
               /\ i \in D => rows[i].account \in {c, s}
    <3>1. i \in RowsOf(rows, a) <=> i \in D /\ rows[i].account = a
      BY <2>1, Zenon DEF RowsOf
    <3> DEFINE small == i <= n1
    <3>2. /\ i \in D => IF small THEN rows[i].account = c /\ i \in R
                         ELSE rows[i].account = s /\ i \in S
          /\ i \in R => i \in D /\ small
          /\ i \in S => i \in D /\ ~small
      BY <2>1, Zenon
    <3> HIDE DEF small
    <3>3. QED
      BY <2>1, <3>1, <3>2
  <2>3. RowsOf(rows, c) = R /\ RowsOf(rows, s) = S
    BY <2>2
  <2>4. ASSUME NEW a, a # c, a # s PROVE RowsOf(rows, a) = {}
    BY <2>2, <2>4
  <2>5. QED
    BY <2>3, <2>4 DEF R, S
<1>6. Books(rows, c, FirstNow, SampleBalance(u.first)) /\ SampleBalance(u.first) \in Nat
  <2>1. /\ 0 \in Nat /\ u.first \in Sample /\ c \in Accounts /\ rows \in Seq(JournalRow)
        /\ RowsOf(rows, c) = (0 + 1)..(0 + Len(SampleHistory(c, u.first)))
        /\ \A k \in 1..Len(SampleHistory(c, u.first)) : rows[0 + k] = SampleHistory(c, u.first)[k]
    BY <1>1, <1>3, <1>5 DEF h1
  <2>2. QED
    BY <1>1, <2>1, SampleBooks
<1>7. Books(rows, s, FirstNow, SampleBalance(u.second)) /\ SampleBalance(u.second) \in Nat
  <2>1. /\ n1 \in Nat /\ u.second \in Sample /\ s \in Accounts /\ rows \in Seq(JournalRow)
        /\ RowsOf(rows, s) = (n1 + 1)..(n1 + Len(SampleHistory(s, u.second)))
        /\ \A k \in 1..Len(SampleHistory(s, u.second)) : rows[n1 + k] = SampleHistory(s, u.second)[k]
    BY <1>1, <1>2, <1>3, <1>5 DEF h2
  <2> HIDE DEF n1
  <2>2. QED
    BY <1>1, <2>1, SampleBooks
<1>8. \A a : a # c /\ a # s => Books(rows, a, FirstNow, 0)
  BY <1>3, <1>5, NoBooks
<1>9. QED
  BY <1>3, <1>6, <1>7, <1>8 DEF rows, h1, h2, c, s

(* The net of completed rows is what they add up to. *)
LEMMA NetOfTotals ==
  ASSUME NEW table \in Seq(JournalRow), NEW own \in SUBSET (DOMAIN table)
  PROVE  TotalsAt(table, own).net = SumFunctionOnSet(Deltas(table), own)
<1> DEFINE C == Counted(table, "credit")
           D == Counted(table, "debit")
           d == Deltas(table)
           amounts == [k \in DOMAIN table |-> table[k].amount]
<1>1. \A i \in DOMAIN table :
        /\ table[i].type \in {"credit", "debit"} /\ table[i].amount \in Int
        /\ table[i].status = "completed"
  <2>1. \A i \in DOMAIN table : table[i] \in JournalRow
    OBVIOUS
  <2>2. QED
    BY <2>1 DEF JournalRow
<1>2. IsFiniteSet(own)
  BY DeltasAre
<1> DEFINE added == own \cap C
<1>3. own \cap D = own \ added
  BY <1>1 DEF Counted, Completed
<1>4. \A i \in own : amounts[i] \in Int /\ d[i] = IF i \in added THEN amounts[i] ELSE -amounts[i]
  <2>1. \A i \in own : i \in added <=> table[i].type = "credit"
    BY <1>1 DEF Counted, Completed
  <2>2. \A i \in own : d[i] = Delta(table[i].type, table[i].amount)
    BY DeltasAre
  <2>3. QED
    BY <1>1, <2>1, <2>2 DEF Delta
<1>5. SumFunctionOnSet(d, own)
        = SumFunctionOnSet(amounts, added) - SumFunctionOnSet(amounts, own \ added)
  <2>1. added \in SUBSET own
    OBVIOUS
  <2> HIDE DEF added, d, amounts
  <2>2. QED
    BY <1>2, <1>4, <2>1, SumOfKinds
<1>6. QED
  BY <1>3, <1>5 DEF TotalsAt, SumOfAmounts

(* The rows of a period continue one another, and all of them lead to the balance. *)
LEMMA StatementIs ==
  ASSUME NEW table \in Seq(JournalRow), NEW a, NEW t, NEW balance, Books(table, a, t, balance),
         NEW from \in Int, NEW to \in Int
  PROVE  LET own == RowsBetween(table, a, from, to) IN
         /\ ContinueOneAnother(table, own)
         /\ own = RowsOf(table, a) => LeadTo(balance, table, own)
<1> DEFINE own == RowsBetween(table, a, from, to)
           all == RowsOf(table, a)
<1>1. own \in SUBSET (DOMAIN table) /\ all \in SUBSET (DOMAIN table) /\ own \subseteq all
  BY DEF RowsBetween, RowsOf
<1>2. \A i \in all : i \in Int /\ table[i].at \in Int
  <2>1. \A i \in DOMAIN table : i \in Int /\ table[i] \in JournalRow
    OBVIOUS
  <2>2. QED
    BY <1>1, <2>1 DEF JournalRow
<1>3. Continue(table, all, t) /\ EndWith(table, all, balance)
  BY DEF Books
<1>4. \A i \in all : i \in own <=> from <= table[i].at /\ table[i].at <= to
  BY DEF RowsBetween
<1> HIDE DEF own, all
<1>5. ASSUME NEW i \in own, NEW j \in own, Adjacent(own, i, j)
      PROVE  table[i].at <= table[j].at /\ table[i].after = table[j].before
  <2>1. i \in all /\ j \in all /\ i < j /\ \A k \in own : k <= i \/ j <= k
    BY <1>1, <1>5 DEF Adjacent
  <2>2. ASSUME NEW k \in all, i < k, k < j PROVE FALSE
    <3> DEFINE x == table[i].at  y == table[k].at  z == table[j].at
    <3>1. x <= y /\ y <= z /\ {x, y, z} \subseteq Int
      BY <1>2, <1>3, <2>1, <2>2 DEF Continue
    <3>2. from <= x /\ z <= to
      BY <1>4, <1>5, <2>1
    <3> HIDE DEF x, y, z
    <3>3. from <= y /\ y <= to
      BY <3>1, <3>2
    <3>4. k \in own
      BY <1>4, <3>3 DEF y
    <3>5. (k <= i \/ j <= k) /\ {i, j, k} \subseteq Int
      BY <1>2, <2>1, <3>4
    <3>6. QED
      BY <2>2, <3>5
  <2>3. \A k \in all : k <= i \/ j <= k
    BY <1>2, <2>1, <2>2
  <2>4. Adjacent(all, i, j)
    BY <2>1, <2>3 DEF Adjacent
  <2>5. QED
    BY <1>3, <2>1, <2>4 DEF Continue
<1>6. ContinueOneAnother(table, own)
  BY <1>1, <1>3, <1>5 DEF ContinueOneAnother, Continue
<1>7. ASSUME own = all PROVE LeadTo(balance, table, own)
  <2>1. TotalsAt(table, own).net = NetOf(table, a)
    BY <1>1, <1>7, NetOfTotals DEF NetOf, all
  <2>2. 2 * (NetOf(table, a) - balance) \in (-Cardinality(own))..Cardinality(own)
    BY <1>7 DEF Books, all
  <2>3. \A i \in own : (\A j \in own : j <= i) => table[i].after = balance
    BY <1>3, <1>7 DEF EndWith
  <2>4. QED
    BY <2>1, <2>2, <2>3 DEF LeadTo
<1>8. QED
  BY <1>6, <1>7 DEF own, all

(* The first page of a list. *)
LEMMA FirstPageIs ==
  ASSUME NEW table \in Seq(JournalRow), NEW a, NEW limit \in 1..DefaultLimit,
         NEW order \in ListQuery(table, a, <<>>)
  PROVE  LET page == Page(Fetch(table, order), <<>>, limit)
             own == RowsOf(table, a)
             shown == {i \in own : \E k \in DOMAIN page.rows : page.rows[k] = table[i]}
         IN /\ Len(page.rows) <= limit
            /\ page.hasMore <=> Cardinality(own) > limit
            /\ Cardinality(own) <= limit => shown = own
            /\ \A i \in shown, j \in own \ shown : table[i].at >= table[j].at
<1> DEFINE own == RowsOf(table, a)
           n == Cardinality(own)
           rows == Fetch(table, order)
           page == Page(rows, <<>>, limit)
           shown == {i \in own : \E k \in DOMAIN page.rows : page.rows[k] = table[i]}
           read == IF n <= DefaultLimit THEN n ELSE DefaultLimit + 1
           cut == IF limit < read THEN limit ELSE read
<1>0. DefaultLimit \in Nat \ {0} /\ limit \in Nat /\ 1 <= limit /\ limit <= DefaultLimit
  BY StatementsAssumption
<1>1. own \in SUBSET (DOMAIN table)
  BY DEF RowsOf
<1>2. order \in NewestRows(table, own, read)
  <2> DEFINE found == {i \in own : <<>> = <<>> \/ <<>>[1].at <= table[i].at}
  <2>1. found = own
    OBVIOUS
  <2>2. order \in NewestRows(table, found, IF Cardinality(found) <= DefaultLimit
                                             THEN Cardinality(found) ELSE DefaultLimit + 1)
    BY Zenon DEF ListQuery
  <2> HIDE DEF found
  <2>3. QED
    BY <2>1, <2>2
<1> HIDE DEF own
<1>3. n \in Nat /\ \A i \in own : table[i].at \in Int
  BY <1>1, PositionsAre
<1> HIDE DEF n
<1>4. read \in Nat /\ (read > limit <=> n > limit)
        /\ cut \in Nat /\ cut <= limit /\ cut <= read /\ (n <= limit => cut = n /\ read = n)
  BY <1>0, <1>3
<1> HIDE DEF read
<1>5. IsNewest(table, own, read, order)
  BY <1>2, <1>4, NewestRowsAre
<1>6. /\ DOMAIN order = 1..read /\ \A k \in 1..read : order[k] \in own
      /\ \A k \in 1..read, i \in own :
           (\A l \in 1..read : l < k => order[l] # i) => table[i].at <= table[order[k]].at
  BY <1>5 DEF IsNewest
<1>7. n <= limit => \A i \in own : \E k \in 1..read : order[k] = i
  <2>1. read = Cardinality(own) => \A i \in own : \E k \in 1..read : order[k] = i
    BY <1>1, <1>4, <1>5, WholeOrderIs
  <2>2. QED
    BY <1>4, <2>1 DEF n
<1> HIDE DEF rows
<1>8. /\ rows = [k \in 1..read |-> table[order[k]]]
      /\ Len(rows) = read /\ DOMAIN rows = 1..read /\ rows \in Seq(JournalRow)
  <2>1. rows = [k \in 1..read |-> table[order[k]]]
    BY <1>6 DEF Fetch, rows
  <2>2. \A k \in 1..read : table[order[k]] \in JournalRow
    BY <1>1, <1>6
  <2>3. QED
    BY <1>4, <2>1, <2>2
<1> HIDE DEF cut
<1>9. page.rows = [k \in 1..cut |-> table[order[k]]] /\ page.hasMore = (read > limit)
  <2>1. <<>> # <<Head(rows)>>
    OBVIOUS
  <2>2. page.rows = Slice(rows, 0, limit) /\ page.hasMore = (read > limit)
    BY <1>8, <2>1 DEF Page
  <2>3. Slice(rows, 0, limit) = SubSeq(rows, 1, cut)
    BY <1>0, <1>4, <1>8 DEF Slice, cut
  <2>4. SubSeq(rows, 1, cut) = [k \in 1..cut |-> rows[k]]
    BY <1>4, <1>8
  <2>5. \A k \in 1..cut : rows[k] = table[order[k]]
    BY <1>4, <1>8
  <2>6. QED
    BY <2>2, <2>3, <2>4, <2>5
<1> HIDE DEF page
<1>10. Len(page.rows) = cut /\ DOMAIN page.rows = 1..cut
       /\ \A k \in 1..cut : page.rows[k] = table[order[k]] /\ k \in 1..read
  BY <1>4, <1>9
<1>11. \A k \in 1..cut : order[k] \in shown
  BY <1>6, <1>10
<1>12. n <= limit => shown = own
  <2>1. \A i \in own : n <= limit => i \in shown
    BY <1>4, <1>7, <1>11
  <2>2. QED
    BY <2>1
<1>13. ASSUME NEW i \in shown, NEW j \in own \ shown PROVE table[i].at >= table[j].at
  <2>1. PICK k \in 1..cut : table[order[k]] = table[i]
    BY <1>10
  <2>2. k \in 1..read
    BY <1>10
  <2>3. \A l \in 1..read : l < k => order[l] # j
    <3>1. ASSUME NEW l \in 1..read, l < k PROVE l \in 1..cut
      BY <1>4, <3>1
    <3>2. QED
      BY <1>11, <3>1
  <2>4. table[j].at <= table[i].at
    BY <1>6, <2>1, <2>2, <2>3
  <2>5. table[i].at \in Int /\ table[j].at \in Int
    BY <1>3
  <2>6. QED
    BY <2>4, <2>5
<1>14. QED
  BY <1>4, <1>9, <1>10, <1>12, <1>13 DEF page, rows, own, n

-----------------------------------------------------------------------------
(* The invariant of the tables. *)

(* Only requests of this service post and record, and a recorded one is done. *)
RecordersInv ==
  /\ posted \subseteq AccountRequests
  /\ \A e \in ledger : e.request \in AccountRequests /\ aPc[e.request] = "done"

(* Where one request at a time is served, what it has read is what there is. *)
SerialInv == load.serial =>
  /\ \A r, q \in AccountRequests : aPc[r] \in AOpen /\ aPc[q] \in AOpen => r = q
  /\ \A r \in AccountRequests :
       LET j == aJob[r] IN
       /\ aPc[r] \in {"updateRead", "updateSave", "saveStatus"} =>
            aSeen[r].balance = accounts[j.account].balance
       /\ aPc[r] = "updateSave" => aRow[r].balance = accounts[j.account].balance
       /\ aPc[r] = "record" =>
            accounts[j.account].balance = aSeen[r].balance + Delta(j.op, j.amount)

MakesRows == \E j \in load.reports : j.kind = "generate"

(* No row is missing but the one a request is about to insert, and none was made up. *)
Genuine ==
  /\ load.serial /\ load.sampled /\ load.reports # {} /\ ~MakesRows
  /\ \A r \in posted : (\E e \in ledger : e.request = r) \/ aPc[r] = "record"

AtRecord(r, a) == aPc[r] = "record" /\ aJob[r].account = a

(* Then the rows of an account lead to its balance, or to the balance a *)
(* request had read before it changed it.                               *)
GenuineInv == Genuine => \A a \in Accounts :
  /\ (\A r \in AccountRequests : ~AtRecord(r, a)) => Books(journal, a, now, accounts[a].balance)
  /\ \A r \in AccountRequests : AtRecord(r, a) => Books(journal, a, now, aSeen[r].balance)

-----------------------------------------------------------------------------
(* The invariant of a report's run. *)

Kinds == {"summary", "metrics", "statement", "list", "transaction", "generate"}

JobTypeOK(j) ==
  /\ j.kind \in Kinds
  /\ j.kind # "summary" => j.account \in Accounts
  /\ j.kind = "metrics" =>
       /\ j = [kind |-> "metrics", user |-> j.user, account |-> j.account,
               from |-> j.from, to |-> j.to]
       /\ j.from \in Int /\ j.to \in Int
  /\ j.kind = "statement" => j.period \in Int
  /\ j.kind = "list" =>
       /\ j = [kind |-> "list", user |-> j.user, account |-> j.account,
               limit |-> j.limit, cursor |-> j.cursor]
       /\ j.limit \in Int
  /\ j.kind = "generate" => j.draws \in Seq(GeneratorDraw) \ {<<>>}

(* Which reports run which queries. *)
QueriesOf(pc) ==
  CASE pc = "requestor"              -> {"summary", "metrics", "statement"}
    [] pc \in {"target", "accounts"} -> {"summary"}
    [] pc = "account"                -> Kinds \ {"summary"}
    [] pc = "count"                  -> {"list"}
    [] pc = "rows"                   -> {"metrics", "statement", "list"}
    [] pc = "row"                    -> {"transaction"}
    [] pc = "insert"                 -> {"generate"}
    [] OTHER                         -> Kinds

ControlInv ==
  /\ rPc \in ROpen \cup REnded
  /\ rPc # "idle" =>
       /\ JobTypeOK(rJob) /\ rJob.kind \in QueriesOf(rPc)
       /\ load.reports # {} /\ (rJob.kind = "generate" => MakesRows)
  /\ rPc \in {"count", "rows"} /\ rJob.kind = "list" => rJob.limit >= 1
  /\ rPc = "insert" => rAnswer \in Seq(JournalRow) \ {<<>>}

TablesInv ==
  /\ AccountInv /\ RecordersInv
  /\ load \in Loads /\ now \in Nat /\ journal \in Seq(JournalRow)
  /\ ControlInv

(* The balance a report goes on with was that of its account at a moment. *)
MomentsInv ==
  /\ rPc \in ROpen => Moment \in moments
  /\ rPc \in {"count", "rows"} => \E m \in moments : m.balances[rJob.account] = rBalance

(* What of an answer is true at a moment among some. *)
SummaryHolds(ms, j, answer) ==
  \E m \in ms :
    /\ \A a \in AccountsOf(j.target) : answer.balances[a] = m.balances[a]
    /\ answer.total = SumFunctionOnSet(m.balances, AccountsOf(j.target))

MetricsHold(ms, metrics, a, from, to) ==
  \E m \in ms :
    LET own == RowsBetween(m.journal, a, from, to)
        most(type) == Max({0} \cup {m.journal[i].amount : i \in own \cap Counted(m.journal, type)})
    IN /\ metrics.totals = TotalsAt(m.journal, own)
       /\ metrics.largestDeposit = most("credit")
       /\ metrics.largestWithdrawal = most("debit")
       /\ IF own = {} THEN \E n \in ms : metrics.average = <<n.balances[a], 1>>
          ELSE metrics.average = <<SumOfBalances(m.journal, own), Cardinality(own)>>

PageHolds(ms, j, answer) ==
  \E m \in ms :
    LET own == RowsOf(m.journal, j.account)
        shown == {i \in own : \E k \in DOMAIN answer.rows : answer.rows[k] = m.journal[i]}
    IN /\ Len(answer.rows) <= j.limit
       /\ answer.hasMore <=> Cardinality(own) > j.limit
       /\ Cardinality(own) <= j.limit => shown = own
       /\ \A i \in shown, k \in own \ shown : m.journal[i].at >= m.journal[k].at

StatementHolds(ms, l, j, answer) ==
  \E m \in ms :
    LET a == j.account
        own == RowsOf(m.journal, a)
        inPeriod == RowsBetween(m.journal, a, PeriodStart(j.period), PeriodEnd(j.period))
    IN /\ answer.totals = TotalsAt(m.journal, inPeriod)
       /\ ShowsNewestFirst(answer.rows, m.journal, inPeriod)
       /\ m.settled /\ l.serial /\ l.sampled =>
            /\ ContinueOneAnother(m.journal, inPeriod)
            /\ inPeriod = own => LeadTo(m.balances[a], m.journal, own)

StatementIsGood(ms, l, j, answer) ==
  /\ answer = [rows |-> answer.rows, balances |-> answer.balances,
               totals |-> answer.totals, metrics |-> answer.metrics]
  /\ \A i \in DOMAIN answer.metrics :
       MetricsHold(ms, answer.metrics[i], j.account, PeriodStart(j.period), PeriodEnd(j.period))
  /\ StatementHolds(ms, l, j, answer)

(* A statement keeps what it has computed while it asks for its metrics. *)
AnswersInv ==
  /\ Answered("summary") => SummaryHolds(moments, rJob, rAnswer)
  /\ Answered("metrics") => MetricsHold(moments, rAnswer, rJob.account, rJob.from, rJob.to)
  /\ Answered("list") /\ rJob.cursor = <<>> /\ rJob.limit <= DefaultLimit =>
       PageHolds(moments, rJob, rAnswer)
  /\ Answered("statement") => rAnswer # <<>>
  /\ rPc # "idle" /\ rJob.kind = "statement" /\ rAnswer # <<>> =>
       StatementIsGood(moments, load, rJob, rAnswer)

(* What a generator has left to insert. *)
GeneratedInv == rPc = "insert" =>
  GeneratedReconciles /\ Len(rAnswer) <= Len(rJob.draws)

ReportsInv ==
  /\ TablesInv /\ SerialInv /\ GenuineInv
  /\ MomentsInv /\ AnswersInv /\ GeneratedInv

-----------------------------------------------------------------------------
(* The tables and the control of a report. *)

LEMMA JobsAreTyped ==
  ASSUME NEW j \in ReportJob
  PROVE  JobTypeOK(j)
<1> USE DEF JobTypeOK, Kinds
<1>1. CASE j \in [kind : {"summary"}, user : Users, target : Users]
  BY <1>1
<1>2. CASE j \in [kind : {"metrics"}, user : Users, account : Accounts, from : Int, to : Int]
  BY <1>2
<1>3. CASE j \in [kind : {"statement"}, user : Users, account : Accounts, period : Int]
  BY <1>3
<1>4. CASE j \in [kind : {"list"}, user : Users, account : Accounts, limit : Int,
                  cursor : {<<>>}]
  BY <1>4
<1>5. CASE j \in [kind : {"transaction"}, user : Users, account : Accounts]
  BY <1>5
<1>6. CASE j \in [kind : {"generate"}, user : Users, account : Accounts,
                  draws : Seq(GeneratorDraw) \ {<<>>}]
  <2> DEFINE D == Seq(GeneratorDraw) \ {<<>>}
  <2>1. j.kind = "generate" /\ j.account \in Accounts /\ j.draws \in D
    <3> HIDE DEF D
    <3>1. QED
      BY <1>6 DEF D
  <2>2. QED
    BY <2>1
<1>7. QED
  BY <1>1, <1>2, <1>3, <1>4, <1>5, <1>6 DEF ReportJob

LEMMA NormalizedIsTyped ==
  ASSUME NEW j, JobTypeOK(j), now \in Nat
  PROVE  /\ JobTypeOK(Normalized(j)) /\ Normalized(j).kind = j.kind
         /\ j.kind = "list" => /\ Normalized(j).limit >= 1 <=> j.limit >= 1
                               /\ Normalized(j).cursor = j.cursor
<1> USE DEF JobTypeOK, Kinds
<1>1. CASE j.kind = "metrics"
  <2> DEFINE f == MetricsFrom(j)  t == MetricsTo(j)
  <2>1. f \in Int /\ t \in Int
    <3>1. MetricsLength \in Nat
      BY StatementsAssumption
    <3>2. QED
      BY <1>1, <3>1 DEF MetricsFrom, MetricsTo
  <2> HIDE DEF f, t
  <2>2. Normalized(j) = [j EXCEPT !.from = f, !.to = t]
    BY <1>1 DEF Normalized, f, t
  <2>3. Normalized(j) = [kind |-> "metrics", user |-> j.user, account |-> j.account,
                         from |-> f, to |-> t]
    BY <1>1, <2>2
  <2>4. QED
    BY <1>1, <2>1, <2>3
<1>2. CASE j.kind = "list"
  <2> DEFINE l == IF j.limit > MaxLimit THEN MaxLimit ELSE j.limit
  <2>1. l \in Int /\ (l >= 1 <=> j.limit >= 1)
    <3>1. MaxLimit \in Nat \ {0}
      BY StatementsAssumption
    <3>2. QED
      BY <1>2, <3>1
  <2>2. Normalized(j) = [j EXCEPT !.limit = l]
    BY <1>2 DEF Normalized
  <2> HIDE DEF l
  <2>3. Normalized(j) = [kind |-> "list", user |-> j.user, account |-> j.account,
                         limit |-> l, cursor |-> j.cursor]
    BY <1>2, <2>2
  <2>4. QED
    BY <1>2, <2>1, <2>3
<1>3. CASE j.kind \notin {"metrics", "list"}
  BY <1>3 DEF Normalized
<1>4. QED
  BY <1>1, <1>2, <1>3

LEMMA CallTyped ==
  ASSUME TablesInv, CallReport, UNCHANGED load
  PROVE  ControlInv'
<1>1. PICK j \in NextReports \cup NextPages :
        /\ rPc' = IF ParametersAllowed(j) THEN FirstQuery(j) ELSE "refused"
        /\ rJob' = IF ParametersAllowed(j) THEN Normalized(j) ELSE j
  BY DEF CallReport
<1>2. /\ JobTypeOK(j) /\ load.reports # {} /\ (j.kind = "generate" => MakesRows)
  <2>1. CASE j \in NextReports
    <3>1. j \in load.reports
      BY <2>1 DEF NextReports
    <3>2. load.reports \subseteq ReportJob
      BY AccountReportsAssumption DEF TablesInv
    <3>3. JobTypeOK(j)
      BY <3>1, <3>2, JobsAreTyped
    <3>4. QED
      BY <3>1, <3>3 DEF MakesRows
  <2>2. CASE j \in NextPages
    <3>1. /\ rPc = "done" /\ rJob.kind = "list"
          /\ j = [rJob EXCEPT !.cursor = rAnswer.nextCursor]
      BY <2>2 DEF NextPages
    <3>2. JobTypeOK(rJob) /\ load.reports # {}
      BY <3>1 DEF TablesInv, ControlInv
    <3> DEFINE c == rAnswer.nextCursor
    <3>3. j = [rJob EXCEPT !.cursor = c]
      BY <3>1
    <3> HIDE DEF c
    <3>4. j = [kind |-> "list", user |-> rJob.user, account |-> rJob.account,
               limit |-> rJob.limit, cursor |-> c]
      BY <3>1, <3>2, <3>3 DEF JobTypeOK
    <3>5. QED
      BY <3>1, <3>2, <3>4 DEF JobTypeOK, Kinds
  <2>3. QED
    BY <2>1, <2>2
<1>3. JobTypeOK(rJob') /\ rJob'.kind = j.kind
  BY <1>1, <1>2, NormalizedIsTyped DEF TablesInv
<1>4. rPc' \in {"requestor", "account", "refused"} /\ rJob'.kind \in QueriesOf(rPc')
  <2>1. j.kind \in Kinds
    BY <1>2 DEF JobTypeOK
  <2>2. QED
    BY <1>1, <1>3, <2>1 DEF FirstQuery, QueriesOf, Kinds
<1>5. QED
  BY <1>2, <1>3, <1>4 DEF ControlInv, ROpen, REnded, JobTypeOK, MakesRows

LEMMA RowsRead ==
  ASSUME ReadRows
  PROVE  /\ rPc = "rows" /\ UNCHANGED <<journal, rJob, rBalance>>
         /\ rPc' = "done" \/ (rPc' = "requestor" /\ rJob.kind = "statement")
BY DEF ReadRows, ReadMetrics, ReadStatement, ReadStatementMetrics, ReadList, RGoto

LEMMA QueriesTyped ==
  ASSUME TablesInv, ReportStep \/ ReportError, UNCHANGED load
  PROVE  ControlInv'
<1>1. /\ rPc \in ROpen \cup REnded /\ (rPc # "idle" => JobTypeOK(rJob) /\ rJob.kind \in QueriesOf(rPc))
      /\ (rPc # "idle" => load.reports # {} /\ (rJob.kind = "generate" => MakesRows))
      /\ (rPc \in {"count", "rows"} /\ rJob.kind = "list" => rJob.limit >= 1)
      /\ (rPc = "insert" => rAnswer \in Seq(JournalRow) \ {<<>>})
  BY DEF TablesInv, ControlInv
<1>2. ASSUME rJob' = rJob, rPc \in ROpen, rPc' \in ROpen \cup REnded, rPc' # "idle",
             rJob.kind \in QueriesOf(rPc'),
             rPc' \in {"count", "rows"} /\ rJob.kind = "list" => rJob.limit >= 1,
             rPc' = "insert" => rAnswer' \in Seq(JournalRow) \ {<<>>}
      PROVE  ControlInv'
  <2>1. rPc # "idle"
    BY <1>2 DEF ROpen
  <2>2. JobTypeOK(rJob')
    BY <1>1, <1>2, <2>1
  <2>3. MakesRows' <=> MakesRows
    BY DEF MakesRows
  <2> DEFINE typed == rAnswer' \in Seq(JournalRow) \ {<<>>}
  <2>4. rPc' = "insert" => typed
    BY <1>2
  <2> HIDE DEF typed
  <2>5. QED
    BY <1>1, <1>2, <2>1, <2>2, <2>3, <2>4 DEF ControlInv, typed
<1>3. TakesMetrics => rJob.kind = "statement"
  BY DEF TakesMetrics
<1> DEFINE kind == rJob.kind
<1>4. CASE ReadRequestor
  <2>1. rPc = "requestor" /\ kind \in {"summary", "metrics", "statement"} /\ rJob' = rJob
    BY <1>1, <1>4 DEF ReadRequestor, RGoto, QueriesOf
  <2>2. \/ rPc' = "done" /\ kind = "statement"
        \/ rPc' = "refused"
        \/ rPc' = "account" /\ kind # "summary"
        \/ rPc' \in {"accounts", "target"} /\ kind = "summary"
    BY <1>3, <1>4, <2>1 DEF ReadRequestor, RGoto, Refused
  <2>3. kind \in QueriesOf(rPc')
    BY <2>1, <2>2 DEF QueriesOf, Kinds
  <2>4. QED
    BY <1>2, <2>1, <2>2, <2>3 DEF ROpen, REnded
<1>5. CASE ReadTarget
  BY <1>1, <1>2, <1>5 DEF ReadTarget, RGoto, QueriesOf, ROpen, REnded, Kinds
<1>6. CASE ReadAccounts
  BY <1>1, <1>2, <1>6 DEF ReadAccounts, RGoto, QueriesOf, ROpen, REnded, Kinds
<1>7. CASE ReadAccount
  <2> DEFINE balance == accounts[rJob.account].balance
  <2>1. rPc = "account" /\ kind \in Kinds \ {"summary"} /\ rJob' = rJob
    BY <1>1, <1>7 DEF ReadAccount, RGoto, QueriesOf
  <2>2. \/ rPc' = SecondQuery(rJob) /\ PageAllowed(rJob)
        \/ rPc' = "refused"
        \/ rPc' = "done" /\ kind = "statement"
    BY <1>3, <1>7 DEF ReadAccount, RGoto, Refused
  <2>3. /\ rPc' \in {"rows", "count", "row", "insert", "refused", "done"}
        /\ kind \in QueriesOf(rPc')
        /\ rPc' \in {"count", "rows"} /\ kind = "list" => rJob.limit >= 1
    BY <2>1, <2>2 DEF SecondQuery, PageAllowed, QueriesOf, Kinds
  <2>4. ASSUME rPc' = "insert" PROVE rAnswer' \in Seq(JournalRow) \ {<<>>}
    <3>1. kind = "generate"
      BY <2>3, <2>4 DEF QueriesOf
    <3>2. rAnswer' = GeneratedHistory(rJob.account, balance, rJob.draws, MinBalance)
      BY <1>7, <3>1 DEF ReadAccount
    <3>3. rJob.account \in Accounts /\ rJob.draws \in Seq(GeneratorDraw) \ {<<>>}
      BY <1>1, <2>1, <3>1 DEF JobTypeOK
    <3>4. balance \in Int /\ MinBalance \in Int
      BY <3>3, AccountReportsAssumption DEF TablesInv, AccountInv, StoreTypeOK, AccountRow
    <3> HIDE DEF balance
    <3>5. IsHistory(rAnswer', balance, rJob.draws, MinBalance)
      BY <3>2, <3>3, <3>4, GeneratedHistoryIs
    <3>6. QED
      BY <3>5 DEF IsHistory
  <2>5. QED
    BY <1>2, <2>1, <2>3, <2>4 DEF ROpen, REnded
<1>8. CASE CountRows
  BY <1>1, <1>2, <1>8 DEF CountRows, RGoto, QueriesOf, ROpen, REnded
<1>9. CASE ReadRows
  <2>1. rPc = "rows" /\ kind \in {"metrics", "statement", "list"} /\ rJob' = rJob
    BY <1>1, <1>9, RowsRead DEF QueriesOf
  <2>2. rPc' = "done" \/ (rPc' = "requestor" /\ kind = "statement")
    BY <1>9, RowsRead
  <2>3. kind \in QueriesOf(rPc')
    BY <2>1, <2>2 DEF QueriesOf, Kinds
  <2>4. QED
    BY <1>2, <2>1, <2>2, <2>3 DEF ROpen, REnded
<1>10. CASE ReadRow
  <2>1. rPc = "row" /\ kind = "transaction" /\ rJob' = rJob /\ rPc' \in {"done", "refused"}
    BY <1>1, <1>10 DEF ReadRow, RGoto, QueriesOf
  <2>2. QED
    BY <1>2, <2>1 DEF QueriesOf, ROpen, REnded, Kinds
<1>11. CASE InsertGenerated
  <2>1. /\ rPc = "insert" /\ kind = "generate" /\ rJob' = rJob
        /\ rPc' = IF Len(rAnswer) = 1 THEN "done" ELSE "insert"
        /\ rAnswer' = Tail(rAnswer) /\ rAnswer \in Seq(JournalRow) \ {<<>>}
    BY <1>1, <1>11 DEF InsertGenerated, QueriesOf
  <2>2. Len(rAnswer) # 1 => Tail(rAnswer) \in Seq(JournalRow) \ {<<>>}
    <3> DEFINE rest == Tail(rAnswer)
    <3>1. rest \in Seq(JournalRow) /\ Len(rest) = Len(rAnswer) - 1 /\ Len(rAnswer) \in Nat
      BY <2>1
    <3> HIDE DEF rest
    <3>2. Len(rAnswer) # 1 => rest # <<>>
      BY <3>1
    <3>3. QED
      BY <3>1, <3>2 DEF rest
  <2>3. kind \in QueriesOf(rPc')
    BY <2>1 DEF QueriesOf, Kinds
  <2>4. QED
    BY <1>2, <2>1, <2>2, <2>3 DEF ROpen, REnded
<1>12. CASE ReportError
  <2>1. /\ rPc \in ROpen /\ rJob' = rJob
        /\ rPc' = "failed" \/ (rPc' = "done" /\ kind = "statement")
    BY <1>3, <1>12 DEF ReportError
  <2>2. kind \in Kinds
    BY <1>1, <2>1 DEF JobTypeOK, ROpen
  <2>3. QED
    BY <1>2, <2>1, <2>2 DEF QueriesOf, ROpen, REnded
<1>13. QED
  BY <1>4, <1>5, <1>6, <1>7, <1>8, <1>9, <1>10, <1>11, <1>12 DEF ReportStep

LEMMA TablesInit == AccountReportsInit => TablesInv /\ SerialInv /\ GenuineInv
<1> SUFFICES ASSUME AccountReportsInit PROVE TablesInv /\ SerialInv /\ GenuineInv
  OBVIOUS
<1>1. load \in Loads /\ now = FirstNow /\ now \in Nat /\ ledger = {} /\ posted = {} /\ rPc = "idle"
  BY AccountReportsAssumption DEF AccountReportsInit
<1>2. load.sampled \in BOOLEAN
  BY <1>1, AccountReportsAssumption
<1>3. /\ accounts \in [Accounts -> AccountRow] /\ journal \in Seq(JournalRow)
      /\ \A a \in Accounts : accounts[a].status = "closed" => accounts[a].balance = 0
      /\ load.sampled => \A a \in Accounts : Books(journal, a, now, accounts[a].balance)
  <2>1. CASE load.sampled
    <3> DEFINE rows(u) == SampleHistory(u.checking, u.first) \o SampleHistory(u.savings, u.second)
               balance(u, a) == CASE a = u.checking -> SampleBalance(u.first)
                                  [] a = u.savings  -> SampleBalance(u.second)
                                  [] OTHER          -> 0
    <3>1. PICK u \in NewUsers :
            /\ journal = rows(u)
            /\ accounts = [a \in Accounts |-> [balance |-> balance(u, a), status |-> "active"]]
      BY <2>1, Zenon DEF AccountReportsInit, Sampled
    <3>2. /\ journal \in Seq(JournalRow)
          /\ Books(journal, u.checking, FirstNow, SampleBalance(u.first))
          /\ Books(journal, u.savings, FirstNow, SampleBalance(u.second))
          /\ {SampleBalance(u.first), SampleBalance(u.second)} \subseteq Nat
          /\ \A a : a # u.checking /\ a # u.savings => Books(journal, a, FirstNow, 0)
      BY <3>1, SampledIs
    <3>3. u.checking # u.savings
      BY AccountReportsAssumption
    <3>4. ASSUME NEW a \in Accounts
          PROVE  balance(u, a) \in Nat /\ Books(journal, a, FirstNow, balance(u, a))
      <4>1. CASE a = u.checking
        BY <3>2, <3>3, <4>1
      <4>2. CASE a = u.savings
        BY <3>2, <3>3, <4>2
      <4>3. CASE a # u.checking /\ a # u.savings
        BY <3>2, <4>3
      <4>4. QED
        BY <4>1, <4>2, <4>3
    <3> HIDE DEF rows, balance
    <3>5. /\ accounts \in [Accounts -> AccountRow]
          /\ \A a \in Accounts : /\ accounts[a].balance = balance(u, a)
                                 /\ accounts[a].status # "closed"
      BY <3>1, <3>4 DEF AccountRow, AccountStatuses
    <3>6. QED
      BY <1>1, <3>2, <3>4, <3>5
  <2>2. CASE ~load.sampled
    <3>1. journal = <<>> /\ accounts = Opening
      BY <2>2 DEF AccountReportsInit
    <3>2. QED
      BY <2>2, <3>1, StoreAssumption, AccountServiceAssumption
  <2>3. QED
    BY <2>1, <2>2
<1>4. AccountInv
  <2>1. /\ rowLock = [a \in Accounts |-> NoRequest] /\ AccountInit
    BY DEF AccountReportsInit
  <2>2. StoreTypeOK /\ ClosedIsEmpty
    BY <1>1, <1>3, <2>1 DEF StoreTypeOK, ClosedIsEmpty
  <2>3. CallsInv /\ PostedCalls /\ RecordsInv
    BY <1>1, <2>1 DEF AccountInit, CallsInv, CallsTypeOK,
       SavesAreChecked, StepsFitJobs, PostedCalls, RecordsInv, NoRow, AccountRow,
       AccountStatuses, AOpen, AEnded
  <2>4. QED
    BY <2>2, <2>3 DEF AccountInv
<1>5. \A r \in AccountRequests : aPc[r] = "idle"
  BY DEF AccountReportsInit, AccountInit
<1>6. TablesInv
  BY <1>1, <1>3, <1>4 DEF TablesInv, RecordersInv, ControlInv, REnded
<1>7. SerialInv
  BY <1>5 DEF SerialInv, AOpen
<1>8. GenuineInv
  BY <1>3, <1>5 DEF GenuineInv, Genuine, AtRecord
<1>9. QED
  BY <1>6, <1>7, <1>8

-----------------------------------------------------------------------------
(* A row is inserted when its request records its movement. *)

RowOf(r) ==
  LET j == aJob[r]  before == aSeen[r].balance
  IN Entry(r, j.account, j.op, j.amount, before, before + Delta(j.op, j.amount))

LEMMA RowOfIs ==
  ASSUME AccountInv, NEW r \in AccountRequests, aPc[r] = "record"
  PROVE  LET j == aJob[r]  before == aSeen[r].balance  row == RowInserted(RowOf(r)) IN
         /\ j \in AccountJob /\ MovesMoney(j) /\ j.account \in Accounts
         /\ RowOf(r) \in LedgerRow /\ RowOf(r).request = r
         /\ now \in Int => row \in JournalRow
         /\ row.account = j.account /\ row.type = j.op /\ row.amount = j.amount
         /\ row.before = before /\ row.after = before + Delta(j.op, j.amount) /\ row.at = now
<1> DEFINE j == aJob[r]  before == aSeen[r].balance
<1>1. j \in AccountJob /\ MovesMoney(j) /\ before \in Nat
  BY DEF AccountInv, CallsInv, CallsTypeOK, StepsFitJobs, AccountRow
<1>2. /\ j.account \in Accounts /\ j.amount \in Nat /\ j.op \in {"credit", "debit"}
  BY <1>1, JobFields DEF MovesMoney
<1>3. before + Delta(j.op, j.amount) \in Int
  BY <1>1, <1>2 DEF Delta
<1>4. r \in Requests
  BY AccountServiceAssumption
<1> HIDE DEF j, before
<1>5. RowOf(r) = [request |-> r, account |-> j.account, type |-> j.op, amount |-> j.amount,
                  before |-> before, after |-> before + Delta(j.op, j.amount)]
  BY DEF RowOf, Entry, j, before
<1>6. RowInserted(RowOf(r)) =
        [account |-> j.account, type |-> j.op, amount |-> j.amount,
         before |-> before, after |-> before + Delta(j.op, j.amount),
         at |-> now, status |-> "completed"]
  BY <1>5 DEF RowInserted, HistoryRow
<1>7. RowOf(r) \in LedgerRow /\ RowOf(r).request = r
  BY <1>1, <1>2, <1>3, <1>4, <1>5 DEF LedgerRow
<1>8. now \in Int => RowInserted(RowOf(r)) \in JournalRow
  BY <1>1, <1>2, <1>3, <1>6 DEF JournalRow
<1>9. QED
  BY <1>1, <1>2, <1>6, <1>7, <1>8 DEF j, before

(* What an activity of the account service does to the tables. *)
LEMMA ActivityShape ==
  ASSUME TablesInv, AccountActivity
  PROVE  /\ UNCHANGED <<load, now, reportVars>>
         /\ \/ UNCHANGED <<ledger, journal>>
            \/ \E r \in AccountRequests :
                 /\ RecordTransaction(r) /\ aPc' = [aPc EXCEPT ![r] = "done"]
                 /\ RowOf(r) \notin ledger /\ ledger' = ledger \cup {RowOf(r)}
                 /\ IF load.reports = {} THEN UNCHANGED journal
                    ELSE journal' = Append(journal, RowInserted(RowOf(r)))
<1>1. UNCHANGED <<load, now, reportVars>> /\ AccountNext /\ RowRecorded
  BY DEF AccountActivity
<1>2. ASSUME ledger' # ledger
      PROVE  \E r \in AccountRequests :
               /\ RecordTransaction(r) /\ aPc' = [aPc EXCEPT ![r] = "done"]
               /\ RowOf(r) \notin ledger /\ ledger' = ledger \cup {RowOf(r)}
               /\ IF load.reports = {} THEN UNCHANGED journal
                  ELSE journal' = Append(journal, RowInserted(RowOf(r)))
  <2>1. PICK r \in AccountRequests : RecordTransaction(r)
    BY <1>1, <1>2 DEF AccountNext, AccountStep, CallAccount, GetAccount, UpdateRead, UpdateSave,
                      SaveStatus, AccountDBError, storeVars
  <2>2. aPc' = [aPc EXCEPT ![r] = "done"] /\ ledger' = ledger \cup {RowOf(r)}
    BY <1>2, <2>1 DEF RecordTransaction, RowOf, AGoto
  <2>3. ledger' \ ledger = {RowOf(r)}
    BY <1>2, <2>2
  <2>4. QED
    BY <1>1, <1>2, <2>1, <2>2, <2>3 DEF RowRecorded
<1>3. ledger' = ledger => journal' = journal
  BY <1>1 DEF RowRecorded
<1>4. QED
  BY <1>1, <1>2, <1>3

LEMMA RecordersKept ==
  ASSUME TablesInv, AccountNext
  PROVE  RecordersInv'
<1>0. /\ posted \subseteq AccountRequests
      /\ \A e \in ledger : e.request \in AccountRequests /\ aPc[e.request] = "done"
      /\ aPc \in [AccountRequests -> {"idle"} \cup AOpen \cup AEnded]
      /\ AccountInv
  BY DEF TablesInv, RecordersInv, AccountInv, CallsInv, CallsTypeOK
<1>1. ASSUME NEW r \in AccountRequests, NEW pc, NEW to, aPc[r] = pc, pc # "done",
             aPc' = [aPc EXCEPT ![r] = to], ledger' = ledger,
             posted' \subseteq posted \cup {r}
      PROVE  RecordersInv'
  <2>1. \A e \in ledger : aPc'[e.request] = "done"
    BY <1>0, <1>1
  <2>2. QED
    BY <1>0, <1>1, <2>1 DEF RecordersInv
<1>2. ASSUME NEW r \in AccountRequests, RecordTransaction(r) PROVE RecordersInv'
  <2>1. aPc[r] = "record" /\ posted' = posted
    BY <1>2 DEF RecordTransaction, AGoto
  <2>2. CASE ledger' = ledger
    <3>1. \E to \in {"done", "unrecorded"} : aPc' = [aPc EXCEPT ![r] = to]
      BY <1>2 DEF RecordTransaction, AGoto
    <3>2. QED
      BY <1>1, <2>1, <2>2, <3>1
  <2>3. CASE ledger' = ledger \cup {RowOf(r)} /\ aPc' = [aPc EXCEPT ![r] = "done"]
    <3>1. RowOf(r).request = r
      BY <1>0, <2>1, RowOfIs
    <3>2. \A q \in AccountRequests : aPc[q] = "done" => aPc'[q] = "done"
      BY <1>0, <2>3
    <3>3. aPc'[r] = "done"
      BY <1>0, <2>3
    <3>4. QED
      BY <1>0, <2>1, <2>3, <3>1, <3>2, <3>3 DEF RecordersInv
  <2>4. QED
    BY <1>2, <2>2, <2>3 DEF RecordTransaction, RowOf, AGoto
<1>3. ASSUME NEW r \in AccountRequests, CallAccount(r) PROVE RecordersInv'
  <2>1. aPc[r] = "idle" /\ UNCHANGED <<ledger, posted>>
    BY <1>3 DEF CallAccount, storeVars
  <2>2. \E to \in {"getAccount", "rejected"} : aPc' = [aPc EXCEPT ![r] = to]
    BY <1>3 DEF CallAccount
  <2>3. QED
    BY <1>1, <2>1, <2>2
<1>4. ASSUME NEW r \in AccountRequests,
             GetAccount(r) \/ UpdateRead(r) \/ UpdateSave(r) \/ SaveStatus(r) \/ AccountDBError(r)
      PROVE  RecordersInv'
  <2>1. ledger' = ledger /\ posted' \subseteq posted \cup {r}
    BY <1>4 DEF GetAccount, UpdateRead, UpdateSave, SaveStatus, AccountDBError, storeVars,
                UpdateBalanceSave
  <2>2. aPc[r] # "done" /\ \E to : aPc' = [aPc EXCEPT ![r] = to]
    BY <1>4 DEF GetAccount, UpdateRead, UpdateSave, SaveStatus, AccountDBError, AGoto, AOpen
  <2>3. QED
    BY <1>1, <2>1, <2>2
<1>5. QED
  BY <1>2, <1>3, <1>4 DEF AccountNext, AccountStep

LEMMA TablesNext == TablesInv /\ [AccountReportsNext]_arVars => TablesInv'
<1> SUFFICES ASSUME TablesInv, [AccountReportsNext]_arVars PROVE TablesInv'
  OBVIOUS
<1>0. /\ AccountInv /\ RecordersInv /\ load \in Loads /\ now \in Nat
      /\ journal \in Seq(JournalRow) /\ ControlInv
  BY DEF TablesInv
<1>1. CASE AccountActivity
  <2>1. AccountNext /\ UNCHANGED <<load, now, reportVars>>
    BY <1>1 DEF AccountActivity
  <2>2. AccountInv'
    BY <1>0, <2>1, StoreKept, CallsKept, PostedKept, RecordsKept, ClosedKept DEF AccountInv
  <2>3. RecordersInv'
    BY <2>1, RecordersKept
  <2>4. ControlInv'
    BY <1>0, <2>1 DEF reportVars, ControlInv, JobTypeOK, QueriesOf, MakesRows
  <2>5. journal' \in Seq(JournalRow)
    <3>1. CASE journal' = journal
      BY <1>0, <3>1
    <3>2. CASE journal' # journal
      <4>1. PICK r \in AccountRequests :
              RecordTransaction(r) /\ journal' = Append(journal, RowInserted(RowOf(r)))
        BY <1>1, <3>2, ActivityShape
      <4>2. aPc[r] = "record"
        BY <4>1 DEF RecordTransaction, AGoto
      <4>3. RowInserted(RowOf(r)) \in JournalRow
        BY <1>0, <4>2, RowOfIs
      <4>4. QED
        BY <1>0, <4>1, <4>3
    <3>3. QED
      BY <3>1, <3>2
  <2>6. QED
    BY <1>0, <2>1, <2>2, <2>3, <2>4, <2>5 DEF TablesInv
<1>2. CASE Crash
  <2>1. /\ DropConnections /\ DropAccountCalls
        /\ UNCHANGED <<accounts, ledger, posted, aJob, aSeen, aRow>>
    BY <1>2 DEF Crash, AccountCrash
  <2>2. /\ rPc' = (IF rPc \in ROpen THEN "failed" ELSE rPc)
        /\ UNCHANGED <<load, now, journal, rJob, rBalance, rAnswer>>
    BY <1>2 DEF Crash
  <2>3. AccountInv'
    BY <1>0, <2>1, CallsDropped, StoreDropped DEF AccountInv, ClosedIsEmpty
  <2>4. RecordersInv'
    <3>1. \A r \in AccountRequests : aPc[r] = "done" => aPc'[r] = "done"
      BY <2>1 DEF DropAccountCalls, AOpen
    <3>2. QED
      BY <1>0, <2>1, <3>1 DEF RecordersInv
  <2>5. ControlInv'
    <3>1. CASE rPc \in ROpen
      BY <1>0, <2>2, <3>1 DEF ControlInv, JobTypeOK, QueriesOf, MakesRows, ROpen, REnded
    <3>2. CASE rPc \notin ROpen
      BY <1>0, <2>2, <3>2 DEF ControlInv, JobTypeOK, QueriesOf, MakesRows
    <3>3. QED
      BY <3>1, <3>2
  <2>6. QED
    BY <1>0, <2>2, <2>3, <2>4, <2>5 DEF TablesInv
<1>3. ASSUME UNCHANGED aVars PROVE AccountInv' /\ RecordersInv'
  BY <1>0, <1>3 DEF aVars, storeVars, serviceVars, AccountInv, StoreTypeOK, CallsInv, CallsTypeOK,
              SavesAreChecked, StepsFitJobs, PostedCalls, RecordsInv, Recorded, ClosedIsEmpty,
              RecordersInv
<1>4. CASE Tick
  <2>1. UNCHANGED <<aVars, load, journal, reportVars>> /\ now' = now + 1
    BY <1>4 DEF Tick
  <2>2. ControlInv'
    BY <1>0, <2>1 DEF reportVars, ControlInv, JobTypeOK, QueriesOf, MakesRows
  <2>3. QED
    BY <1>0, <1>3, <2>1, <2>2 DEF TablesInv
<1>5. CASE Report
  <2>1. UNCHANGED <<aVars, load, now>> /\ (CallReport \/ ReportStep \/ ReportError)
    BY <1>5 DEF Report
  <2>2. ControlInv'
    BY <2>1, CallTyped, QueriesTyped
  <2>3. journal' \in Seq(JournalRow)
    <3>1. CASE InsertGenerated
      <4>1. rPc = "insert" /\ (journal' = journal \/ journal' = Append(journal, Head(rAnswer)))
        BY <3>1 DEF InsertGenerated
      <4>2. rAnswer \in Seq(JournalRow) \ {<<>>}
        BY <1>0, <4>1 DEF ControlInv
      <4>3. Head(rAnswer) \in JournalRow
        BY <4>2
      <4>4. QED
        BY <1>0, <4>1, <4>3
    <3>2. CASE ~InsertGenerated
      <4>1. journal' = journal
        BY <2>1, <3>2 DEF CallReport, ReportStep, ReportError, ReadRequestor, ReadTarget,
             ReadAccounts, ReadAccount, CountRows, ReadRows, ReadRow
      <4>2. QED
        BY <1>0, <4>1
    <3>3. QED
      BY <3>1, <3>2
  <2>4. QED
    BY <1>0, <1>3, <2>1, <2>2, <2>3 DEF TablesInv
<1>6. CASE UNCHANGED arVars
  <2>1. UNCHANGED <<aVars, load, now, journal, reportVars>>
    BY <1>6 DEF arVars
  <2>2. ControlInv'
    BY <1>0, <2>1 DEF reportVars, ControlInv, JobTypeOK, QueriesOf, MakesRows
  <2>3. QED
    BY <1>0, <1>3, <2>1, <2>2 DEF TablesInv
<1>7. QED
  BY <1>1, <1>2, <1>4, <1>5, <1>6 DEF AccountReportsNext, Quiet

-----------------------------------------------------------------------------
(* One request at a time. *)

LEMMA SerialNext ==
  TablesInv /\ SerialInv /\ [AccountReportsNext]_arVars => SerialInv'
<1> SUFFICES ASSUME TablesInv, SerialInv, [AccountReportsNext]_arVars, load'.serial
             PROVE  /\ \A r, q \in AccountRequests : aPc'[r] \in AOpen /\ aPc'[q] \in AOpen => r = q
                    /\ \A r \in AccountRequests :
                         LET j == aJob'[r] IN
                         /\ aPc'[r] \in {"updateRead", "updateSave", "saveStatus"} =>
                              aSeen'[r].balance = accounts'[j.account].balance
                         /\ aPc'[r] = "updateSave" => aRow'[r].balance = accounts'[j.account].balance
                         /\ aPc'[r] = "record" =>
                              accounts'[j.account].balance = aSeen'[r].balance + Delta(j.op, j.amount)
  BY DEF SerialInv
<1>0. /\ aPc \in [AccountRequests -> {"idle"} \cup AOpen \cup AEnded]
      /\ \A r \in AccountRequests : aPc[r] # "idle" => aJob[r] \in AccountJob
      /\ aSeen \in [AccountRequests -> AccountRow] /\ aRow \in [AccountRequests -> AccountRow]
      /\ aJob \in [AccountRequests -> AccountJob \cup {NoRequest}]
      /\ accounts \in [Accounts -> AccountRow]
  BY DEF TablesInv, AccountInv, CallsInv, CallsTypeOK, StoreTypeOK
<1>1. load' = load
  BY DEF AccountReportsNext, AccountActivity, Crash, Tick, Report, Quiet, arVars
<1>2. load.serial
  BY <1>1
<1>3. /\ \A r, q \in AccountRequests : aPc[r] \in AOpen /\ aPc[q] \in AOpen => r = q
      /\ \A r \in AccountRequests :
           LET j == aJob[r] IN
           /\ aPc[r] \in {"updateRead", "updateSave", "saveStatus"} =>
                aSeen[r].balance = accounts[j.account].balance
           /\ aPc[r] = "updateSave" => aRow[r].balance = accounts[j.account].balance
           /\ aPc[r] = "record" =>
                accounts[j.account].balance = aSeen[r].balance + Delta(j.op, j.amount)
  BY <1>2 DEF SerialInv
<1>4. CASE UNCHANGED aVars
  BY <1>3, <1>4 DEF aVars, storeVars, serviceVars
<1>5. CASE Crash
  <2>1. \A r \in AccountRequests : aPc'[r] \notin AOpen
    BY <1>5 DEF Crash, AccountCrash, DropAccountCalls, AOpen
  <2>2. QED
    BY <2>1 DEF AOpen
<1>6. CASE AccountActivity
  <2>1. AccountNext /\ \A r, q \in AccountRequests : aPc'[r] \in AOpen /\ aPc'[q] \in AOpen => r = q
    BY <1>1, <1>2, <1>6 DEF AccountActivity, CallsAllowed
  <2>2. ASSUME NEW r \in AccountRequests, CallAccount(r), NEW q \in AccountRequests
        PROVE  LET j == aJob'[q] IN
               /\ aPc'[q] \in {"updateRead", "updateSave", "saveStatus"} =>
                    aSeen'[q].balance = accounts'[j.account].balance
               /\ aPc'[q] = "updateSave" => aRow'[q].balance = accounts'[j.account].balance
               /\ aPc'[q] = "record" =>
                    accounts'[j.account].balance = aSeen'[q].balance + Delta(j.op, j.amount)
    <3>1. aPc'[r] \in {"getAccount", "rejected"} /\ UNCHANGED <<accounts, aSeen, aRow>>
      BY <1>0, <2>2 DEF CallAccount, storeVars
    <3>2. q # r => aPc'[q] = aPc[q] /\ aJob'[q] = aJob[q]
      BY <1>0, <2>2 DEF CallAccount
    <3>3. QED
      BY <1>3, <3>1, <3>2
  <2>3. ASSUME NEW r \in AccountRequests, AccountStep(r) \/ AccountDBError(r)
        PROVE  /\ aPc[r] \in AOpen /\ UNCHANGED aJob
               /\ \A q \in AccountRequests : q # r => aPc'[q] \notin AOpen
    <3>1. aPc[r] \in AOpen /\ UNCHANGED aJob
      BY <2>3 DEF AccountStep, GetAccount, UpdateRead, UpdateSave, RecordTransaction, SaveStatus,
                  AccountDBError, AGoto, AOpen
    <3>2. \E to : aPc' = [aPc EXCEPT ![r] = to]
      BY <2>3 DEF AccountStep, GetAccount, UpdateRead, UpdateSave, RecordTransaction, SaveStatus,
                  AccountDBError, AGoto
    <3>3. \A q \in AccountRequests : q # r => aPc'[q] = aPc[q]
      BY <1>0, <3>2
    <3>4. QED
      BY <1>3, <3>1, <3>3
  <2>4. ASSUME NEW r \in AccountRequests, AccountStep(r) \/ AccountDBError(r)
        PROVE  LET j == aJob[r] IN
               /\ aPc'[r] \in {"updateRead", "updateSave", "saveStatus"} =>
                    aSeen'[r].balance = accounts'[j.account].balance
               /\ aPc'[r] = "updateSave" => aRow'[r].balance = accounts'[j.account].balance
               /\ aPc'[r] = "record" =>
                    accounts'[j.account].balance = aSeen'[r].balance + Delta(j.op, j.amount)
    <3> DEFINE j == aJob[r]  a == aJob[r].account
    <3>0. a \in Accounts /\ j.amount \in Nat
      BY <1>0, <2>3, <2>4, JobFields DEF AOpen
    <3> HIDE DEF a, j
    <3>1. CASE GetAccount(r)
      <4>1. aSeen' = [aSeen EXCEPT ![r] = accounts[a]] /\ accounts' = accounts
              /\ aPc'[r] \in {"rejected", "updateRead", "saveStatus"}
        BY <1>0, <3>1 DEF GetAccount, AGoto, storeVars, a
      <4>2. aSeen'[r] = accounts'[a]
        BY <1>0, <4>1
      <4>3. QED
        BY <4>1, <4>2 DEF a
    <3>2. CASE UpdateRead(r)
      <4>1. /\ aRow' = [aRow EXCEPT ![r] = accounts[a]] /\ accounts' = accounts /\ aSeen' = aSeen
            /\ aPc[r] = "updateRead" /\ aPc'[r] \in {"rejected", "updateSave"}
        BY <1>0, <3>2 DEF UpdateRead, AGoto, a
      <4>2. aRow'[r] = accounts'[a] /\ aSeen'[r].balance = accounts'[a].balance
        BY <1>0, <1>3, <4>1 DEF a
      <4>3. QED
        BY <4>1, <4>2 DEF a
    <3>3. CASE UpdateSave(r)
      <4> DEFINE saved == [aRow[r] EXCEPT !.balance = @ + Delta(j.op, j.amount)]
      <4>1. /\ accounts' = [accounts EXCEPT ![a] = saved] /\ aSeen' = aSeen
            /\ aPc[r] = "updateSave" /\ aPc'[r] \in {"record", "unrecorded"}
        BY <1>0, <3>3 DEF UpdateSave, UpdateBalanceSave, AGoto, a, j
      <4>2. saved.balance = aRow[r].balance + Delta(j.op, j.amount)
        <5>1. aRow[r] \in AccountRow
          BY <1>0
        <5>2. QED
          BY <5>1 DEF AccountRow
      <4>3. aRow[r].balance = aSeen[r].balance
        BY <1>3, <4>1
      <4> HIDE DEF saved
      <4>4. accounts'[a] = saved
        BY <1>0, <3>0, <4>1
      <4>5. accounts'[a].balance = aSeen'[r].balance + Delta(j.op, j.amount)
        BY <4>1, <4>2, <4>3, <4>4
      <4>6. QED
        BY <4>1, <4>5 DEF a, j
    <3>4. CASE RecordTransaction(r) \/ SaveStatus(r) \/ AccountDBError(r)
      <4>1. aPc'[r] \in AEnded
        BY <1>0, <3>4 DEF RecordTransaction, SaveStatus, AccountDBError, AGoto, AEnded
      <4>2. QED
        BY <4>1 DEF AEnded
    <3>5. QED
      BY <2>4, <3>1, <3>2, <3>3, <3>4 DEF AccountStep
  <2>5. ASSUME NEW r \in AccountRequests, AccountStep(r) \/ AccountDBError(r),
               NEW q \in AccountRequests
        PROVE  LET j == aJob'[q] IN
               /\ aPc'[q] \in {"updateRead", "updateSave", "saveStatus"} =>
                    aSeen'[q].balance = accounts'[j.account].balance
               /\ aPc'[q] = "updateSave" => aRow'[q].balance = accounts'[j.account].balance
               /\ aPc'[q] = "record" =>
                    accounts'[j.account].balance = aSeen'[q].balance + Delta(j.op, j.amount)
    <3>1. CASE q = r
      BY <2>3, <2>4, <2>5, <3>1
    <3>2. CASE q # r
      <4>1. aPc'[q] \notin AOpen
        BY <2>3, <2>5, <3>2
      <4>2. QED
        BY <4>1 DEF AOpen
    <3>3. QED
      BY <3>1, <3>2
  <2>6. QED
    BY <2>1, <2>2, <2>5 DEF AccountNext
<1>7. QED
  BY <1>4, <1>5, <1>6 DEF AccountReportsNext, Tick, Report, Quiet, arVars

-----------------------------------------------------------------------------
(* The rows lead to the balances. *)

(* A step that neither moves money nor writes a row. *)
LEMMA BooksStay ==
  ASSUME GenuineInv, Genuine, UNCHANGED <<journal, now>>,
         \A a \in Accounts : accounts'[a].balance = accounts[a].balance,
         \A q \in AccountRequests :
           /\ aPc'[q] = "record" <=> aPc[q] = "record"
           /\ aPc[q] = "record" => aJob'[q] = aJob[q] /\ aSeen'[q] = aSeen[q]
  PROVE  GenuineInv'
<1>1. \A q \in AccountRequests, a \in Accounts :
        /\ AtRecord(q, a)' <=> AtRecord(q, a)
        /\ AtRecord(q, a) => aSeen'[q] = aSeen[q]
  BY DEF AtRecord
<1>2. QED
  BY <1>1 DEF GenuineInv

(* Once a balance has moved, its row is about to follow. *)
LEMMA BooksMove ==
  ASSUME TablesInv, SerialInv, GenuineInv, Genuine, UNCHANGED <<journal, now>>,
         NEW r \in AccountRequests, UpdateSave(r), aPc'[r] = "record"
  PROVE  GenuineInv'
<1> DEFINE a0 == aJob[r].account
           saved == [aRow[r] EXCEPT !.balance = @ + Delta(aJob[r].op, aJob[r].amount)]
<1>1. /\ aPc \in [AccountRequests -> {"idle"} \cup AOpen \cup AEnded]
      /\ accounts \in [Accounts -> AccountRow] /\ load.serial
  BY DEF TablesInv, AccountInv, CallsInv, CallsTypeOK, StoreTypeOK, Genuine
<1>2. /\ aPc[r] = "updateSave" /\ UNCHANGED <<aJob, aSeen>>
      /\ accounts' = [accounts EXCEPT ![a0] = saved]
      /\ \E to : aPc' = [aPc EXCEPT ![r] = to]
  BY DEF UpdateSave, UpdateBalanceSave, AGoto
<1> HIDE DEF saved
<1>3. \A q \in AccountRequests : aPc[q] # "record"
  BY <1>1, <1>2 DEF SerialInv, AOpen
<1>4. /\ \A q \in AccountRequests : aPc'[q] = "record" <=> q = r
      /\ \A a \in Accounts : a # a0 => accounts'[a] = accounts[a]
      /\ aSeen[r].balance = accounts[a0].balance
  BY <1>1, <1>2, <1>3 DEF SerialInv
<1>5. \A a \in Accounts : Books(journal', a, now', accounts[a].balance)
  BY <1>3 DEF GenuineInv, AtRecord
<1>6. \A q \in AccountRequests, a \in Accounts : AtRecord(q, a)' <=> q = r /\ a = a0
  BY <1>2, <1>4 DEF AtRecord
<1>7. \A a \in Accounts :
        /\ (\A q \in AccountRequests : ~AtRecord(q, a)')
             => Books(journal', a, now', accounts'[a].balance)
        /\ \A q \in AccountRequests : AtRecord(q, a)' => Books(journal', a, now', aSeen'[q].balance)
  BY <1>2, <1>4, <1>5, <1>6
<1>8. QED
  BY <1>7 DEF GenuineInv

(* The row that follows ends the history of its account. *)
LEMMA BooksGrow ==
  ASSUME TablesInv, SerialInv, GenuineInv, Genuine, UNCHANGED <<accounts, aJob, aSeen, now>>,
         NEW r \in AccountRequests, aPc[r] = "record", aPc' = [aPc EXCEPT ![r] = "done"],
         journal' = Append(journal, RowInserted(RowOf(r)))
  PROVE  GenuineInv'
<1> DEFINE j == aJob[r]
           before == aSeen[r].balance
           row == RowInserted(RowOf(r))
<1>1. /\ aPc \in [AccountRequests -> {"idle"} \cup AOpen \cup AEnded]
      /\ journal \in Seq(JournalRow) /\ now \in Nat /\ AccountInv /\ load.serial
  BY DEF TablesInv, AccountInv, CallsInv, CallsTypeOK, Genuine
<1>2. /\ row \in JournalRow /\ j.account \in Accounts
      /\ row.account = j.account /\ row.type = j.op /\ row.amount = j.amount
      /\ row.before = before /\ row.after = before + Delta(j.op, j.amount) /\ row.at = now
  BY <1>1, RowOfIs
<1>3. /\ \A q \in AccountRequests : aPc[q] = "record" => q = r
      /\ accounts[j.account].balance = before + Delta(j.op, j.amount)
  BY <1>1 DEF SerialInv, AOpen
<1>4. \A q \in AccountRequests : aPc'[q] # "record"
  BY <1>1, <1>3
<1>5. /\ Books(journal, j.account, now, before)
      /\ \A a \in Accounts : a # j.account => Books(journal, a, now, accounts[a].balance)
  BY <1>2, <1>3 DEF GenuineInv, AtRecord
<1> HIDE DEF j, before, row
<1>6. ASSUME NEW a \in Accounts PROVE Books(Append(journal, row), a, now, accounts[a].balance)
  <2>1. CASE a = j.account
    <3>1. Books(Append(journal, row), a, now, row.after)
      <4>1. /\ row.account = a /\ Books(journal, a, now, before) /\ row.before = before
            /\ row.after = before + Delta(row.type, row.amount) /\ row.at = now /\ now \in Int
        BY <1>1, <1>2, <1>5, <2>1
      <4>2. QED
        BY <1>1, <1>2, <4>1, BooksAppended
    <3>2. QED
      BY <1>2, <1>3, <2>1, <3>1
  <2>2. CASE a # j.account
    <3>1. row.account # a /\ Books(journal, a, now, accounts[a].balance)
      BY <1>2, <1>5, <2>2
    <3>2. QED
      BY <1>1, <1>2, <3>1, BooksOther
  <2>3. QED
    BY <2>1, <2>2
<1>7. \A a \in Accounts : Books(journal', a, now', accounts'[a].balance)
  <2>1. journal' = Append(journal, row)
    BY DEF row
  <2>2. QED
    BY <1>6, <2>1
<1>8. QED
  BY <1>4, <1>7 DEF GenuineInv, AtRecord

LEMMA GenuineNext ==
  TablesInv /\ SerialInv /\ GenuineInv /\ [AccountReportsNext]_arVars => GenuineInv'
<1> SUFFICES ASSUME TablesInv, SerialInv, GenuineInv, [AccountReportsNext]_arVars, Genuine'
             PROVE  GenuineInv'
  BY DEF GenuineInv
<1>0. /\ aPc \in [AccountRequests -> {"idle"} \cup AOpen \cup AEnded]
      /\ aSeen \in [AccountRequests -> AccountRow]
      /\ aJob \in [AccountRequests -> AccountJob \cup {NoRequest}]
      /\ accounts \in [Accounts -> AccountRow]
      /\ posted \subseteq AccountRequests
      /\ \A e \in ledger : aPc[e.request] = "done"
      /\ \A r \in AccountRequests :
           /\ r \in posted => aPc[r] \in {"record", "done", "unrecorded", "crashed"}
           /\ aPc[r] = "record" => r \in posted
      /\ now \in Nat /\ journal \in Seq(JournalRow) /\ AccountInv
  BY DEF TablesInv, RecordersInv, AccountInv, CallsInv, CallsTypeOK, StoreTypeOK, PostedCalls
<1>1. load' = load
  BY DEF AccountReportsNext, AccountActivity, Crash, Tick, Report, Quiet, arVars
<1>2. load.serial /\ load.sampled /\ load.reports # {} /\ ~MakesRows
  BY <1>1 DEF Genuine, MakesRows
<1>3. \A r \in posted' : (\E e \in ledger' : e.request = r) \/ aPc'[r] = "record"
  BY DEF Genuine
<1>4. ASSUME \A r \in posted : (\E e \in ledger : e.request = r) \/ aPc[r] = "record"
      PROVE  Genuine
  BY <1>2, <1>4 DEF Genuine
<1>5. CASE UNCHANGED <<aVars, journal>> /\ now' \in {now, now + 1}
  <2>1. UNCHANGED <<accounts, ledger, posted, aPc, aJob, aSeen>>
    BY <1>5 DEF aVars, storeVars, serviceVars
  <2>2. Genuine
    BY <1>3, <1>4, <2>1
  <2>3. ASSUME NEW a, NEW balance, Books(journal, a, now, balance)
        PROVE  Books(journal', a, now', balance)
    <3>1. now \in Int /\ now' \in Int /\ now <= now' /\ journal' = journal
      BY <1>0, <1>5
    <3>2. Books(journal, a, now', balance)
      BY <1>0, <2>3, <3>1, BooksAge
    <3>3. QED
      BY <3>1, <3>2
  <2>4. \A r \in AccountRequests, a \in Accounts : AtRecord(r, a)' <=> AtRecord(r, a)
    BY <2>1 DEF AtRecord
  <2>5. QED
    BY <2>1, <2>2, <2>3, <2>4 DEF GenuineInv
<1>6. CASE Crash
  <2>1. UNCHANGED <<accounts, ledger, posted, aJob, aSeen, journal, now>>
    BY <1>6 DEF Crash, AccountCrash
  <2>2. \A q \in AccountRequests : aPc'[q] # "record"
    BY <1>6 DEF Crash, AccountCrash, DropAccountCalls, AOpen
  <2>3. \A q \in posted : \E e \in ledger : e.request = q
    BY <1>0, <1>3, <2>1, <2>2
  <2>4. \A q \in AccountRequests : aPc[q] # "record"
    BY <1>0, <2>3
  <2>5. QED
    BY <1>4, <2>1, <2>2, <2>3, <2>4, BooksStay
<1>7. CASE AccountActivity
  <2>1. AccountNext /\ now' = now
    BY <1>7 DEF AccountActivity
  <2>2. ASSUME NEW r \in AccountRequests, RecordTransaction(r) PROVE GenuineInv'
    <3>1. aPc[r] = "record" /\ UNCHANGED <<accounts, posted, aJob, aSeen>>
      BY <2>2 DEF RecordTransaction, AGoto
    <3>2. aPc'[r] = "done" /\ aPc' = [aPc EXCEPT ![r] = "done"] /\ ledger' # ledger
      <4>1. ASSUME ledger' = ledger PROVE FALSE
        <5>1. \A e \in ledger : e.request # r
          BY <1>0, <3>1
        <5>2. aPc'[r] = "record"
          BY <1>0, <1>3, <3>1, <4>1, <5>1
        <5>3. QED
          BY <1>0, <2>2, <5>2 DEF RecordTransaction, AGoto
      <4>2. QED
        BY <1>0, <2>2, <4>1 DEF RecordTransaction, AGoto
    <3>3. PICK q \in AccountRequests :
            /\ RecordTransaction(q) /\ aPc' = [aPc EXCEPT ![q] = "done"]
            /\ ledger' = ledger \cup {RowOf(q)}
            /\ journal' = Append(journal, RowInserted(RowOf(q)))
      BY <1>2, <1>7, <3>2, ActivityShape
    <3>4. q = r
      BY <1>0, <3>1, <3>2, <3>3 DEF RecordTransaction, AGoto
    <3>5. RowOf(r).request = r
      BY <1>0, <3>1, RowOfIs
    <3>6. ASSUME NEW p \in posted PROVE (\E e \in ledger : e.request = p) \/ aPc[p] = "record"
      <4>1. CASE p = r
        BY <3>1, <4>1
      <4>2. CASE p # r
        <5>1. aPc'[p] = aPc[p]
          BY <1>0, <3>2, <4>2
        <5>2. QED
          BY <1>3, <3>1, <3>3, <3>4, <3>5, <4>2, <5>1
      <4>3. QED
        BY <4>1, <4>2
    <3>7. QED
      BY <1>4, <2>1, <3>1, <3>2, <3>3, <3>4, <3>6, BooksGrow
  <2>3. ASSUME NEW r \in AccountRequests, UpdateSave(r) PROVE GenuineInv'
    <3>1. aPc[r] = "updateSave" /\ UNCHANGED ledger /\ posted' = posted \cup {r}
          /\ \E to \in {"record", "unrecorded"} : aPc' = [aPc EXCEPT ![r] = to]
      BY <2>3 DEF UpdateSave, UpdateBalanceSave, AGoto
    <3>2. aPc'[r] = "record"
      BY <1>0, <1>3, <3>1
    <3>3. \A p \in posted : p # r /\ aPc'[p] = aPc[p]
      BY <1>0, <3>1
    <3>4. Genuine
      BY <1>3, <1>4, <3>1, <3>3
    <3>5. journal' = journal
      BY <1>7, <3>1 DEF AccountActivity, RowRecorded
    <3>6. QED
      BY <2>1, <2>3, <3>2, <3>4, <3>5, BooksMove
  <2>4. ASSUME NEW r \in AccountRequests,
               CallAccount(r) \/ GetAccount(r) \/ UpdateRead(r) \/ SaveStatus(r) \/ AccountDBError(r)
        PROVE  GenuineInv'
    <3>1. /\ UNCHANGED <<ledger, posted>> /\ aPc[r] # "record"
          /\ \E to : to # "record" /\ aPc' = [aPc EXCEPT ![r] = to]
      BY <2>4 DEF CallAccount, GetAccount, UpdateRead, SaveStatus, AccountDBError, AGoto, storeVars
    <3>2. /\ aJob' = aJob \/ \E j : aJob' = [aJob EXCEPT ![r] = j]
          /\ aSeen' = aSeen \/ \E row : aSeen' = [aSeen EXCEPT ![r] = row]
      BY <2>4 DEF CallAccount, GetAccount, UpdateRead, SaveStatus, AccountDBError, storeVars
    <3>3. \A q \in AccountRequests :
            /\ aPc'[q] = "record" <=> aPc[q] = "record"
            /\ aPc[q] = "record" => aJob'[q] = aJob[q] /\ aSeen'[q] = aSeen[q]
      <4>1. \A q \in AccountRequests :
              /\ q # r => aPc'[q] = aPc[q] /\ aJob'[q] = aJob[q] /\ aSeen'[q] = aSeen[q]
              /\ aPc'[r] # "record"
        BY <1>0, <3>1, <3>2
      <4>2. QED
        BY <3>1, <4>1
    <3>4. \A a \in Accounts : accounts'[a].balance = accounts[a].balance
      <4>1. CASE SaveStatus(r)
        <5> DEFINE a0 == aJob[r].account  status == aJob[r].op
        <5>1. aPc[r] = "saveStatus" /\ accounts' = [accounts EXCEPT ![a0] = [aSeen[r] EXCEPT !.status = status]]
          BY <4>1 DEF SaveStatus, AGoto
        <5>2. aSeen[r].balance = accounts[a0].balance /\ aSeen[r] \in AccountRow
          BY <1>0, <1>2, <5>1 DEF SerialInv
        <5> HIDE DEF a0, status
        <5>3. [aSeen[r] EXCEPT !.status = status].balance = aSeen[r].balance
          BY <5>2 DEF AccountRow
        <5>4. QED
          BY <1>0, <5>1, <5>2, <5>3
      <4>2. CASE ~SaveStatus(r)
        BY <2>4, <4>2 DEF CallAccount, GetAccount, UpdateRead, AccountDBError, storeVars
      <4>3. QED
        BY <4>1, <4>2
    <3>5. Genuine
      BY <1>0, <1>3, <1>4, <3>1, <3>3
    <3>6. journal' = journal
      BY <1>7, <3>1 DEF AccountActivity, RowRecorded
    <3>7. QED
      BY <2>1, <3>3, <3>4, <3>5, <3>6, BooksStay
  <2>5. QED
    BY <2>1, <2>2, <2>3, <2>4 DEF AccountNext, AccountStep
<1>8. CASE Report
  <2>1. UNCHANGED <<aVars, now>> /\ (CallReport \/ ReportStep \/ ReportError)
    BY <1>8 DEF Report
  <2>2. journal' = journal
    <3>1. ~InsertGenerated
      <4>1. ASSUME rPc = "insert" PROVE MakesRows
        BY <4>1 DEF TablesInv, ControlInv, QueriesOf
      <4>2. QED
        BY <1>2, <4>1 DEF InsertGenerated
    <3>2. QED
      BY <2>1, <3>1, RowsRead DEF CallReport, ReportStep, ReportError, ReadRequestor, ReadTarget,
             ReadAccounts, ReadAccount, CountRows, ReadRow
  <2>3. QED
    BY <1>5, <2>1, <2>2
<1>9. QED
  BY <1>5, <1>6, <1>7, <1>8 DEF AccountReportsNext, Tick, Quiet, arVars

-----------------------------------------------------------------------------
(* The moments of a report. *)

LEMMA MomentIs ==
  /\ Moment.balances = [a \in Accounts |-> accounts[a].balance]
  /\ Moment.journal = journal
  /\ Moment.settled <=> /\ \A r \in posted : \E e \in ledger : e.request = r
                        /\ ~MakesRows
BY DEF Moment, MakesRows

(* Only a call opens a report, and until the next one no moment is lost. *)
LEMMA MomentsGrow ==
  ASSUME TablesInv, MomentsInv, [AccountReportsNext]_arVars
  PROVE  /\ load' = load
         /\ rPc' \in ROpen => Moment' \in moments'
         /\ moments \subseteq moments' \/ (CallReport /\ Report)
<1>0. rPc \in ROpen \cup REnded
  BY DEF TablesInv, ControlInv
<1>1. load' = load
  BY DEF AccountReportsNext, AccountActivity, Crash, Tick, Report, Quiet, arVars
<1>2. CASE UNCHANGED arVars
  <2>1. UNCHANGED <<rPc, moments, accounts, journal, posted, ledger, load>>
    BY <1>2 DEF arVars, aVars, storeVars, reportVars
  <2>2. Moment' = Moment
    BY <2>1 DEF Moment
  <2>3. QED
    BY <1>1, <2>1, <2>2 DEF MomentsInv
<1>3. CASE (AccountActivity \/ Crash \/ Tick \/ Report) /\ Witness
  <2>1. moments' = CASE rPc' \in ROpen /\ rPc \in REnded -> {Moment'}
                     [] rPc \in ROpen                    -> moments \cup {Moment'}
                     [] OTHER                            -> moments
    BY <1>3 DEF Witness
  <2> DEFINE m == Moment'
  <2> HIDE DEF m
  <2>2. \A s : ~(s \in ROpen /\ s \in REnded)
    BY DEF ROpen, REnded
  <2>3. rPc' \in ROpen => m \in moments'
    BY <1>0, <2>1, <2>2 DEF m
  <2>4. rPc \in ROpen \/ rPc' \notin ROpen => moments \subseteq moments'
    BY <1>0, <2>1, <2>2
  <2>5. rPc \in ROpen \/ rPc' \notin ROpen \/ (CallReport /\ Report)
    <3>1. CASE AccountActivity \/ Crash \/ Tick
      BY <1>0, <3>1 DEF AccountActivity, Crash, Tick, reportVars, ROpen
    <3>2. CASE Report
      <4>1. ReportStep \/ ReportError => rPc \in ROpen
        BY RowsRead DEF ReportStep, ReportError, ReadRequestor, ReadTarget, ReadAccounts,
               ReadAccount, CountRows, ReadRow, InsertGenerated, RGoto, ROpen
      <4>2. QED
        BY <3>2, <4>1 DEF Report
    <3>3. QED
      BY <1>3, <3>1, <3>2
  <2>6. QED
    BY <1>1, <2>3, <2>4, <2>5 DEF m
<1>4. QED
  BY <1>2, <1>3 DEF AccountReportsNext, Quiet

LEMMA CallShape ==
  ASSUME CallReport
  PROVE  /\ rPc' \in {"requestor", "account", "refused"}
         /\ rAnswer' = <<>>
BY DEF CallReport, FirstQuery

(* What a call does not start goes on with the job it has. *)
LEMMA MomentsNext ==
  TablesInv /\ MomentsInv /\ [AccountReportsNext]_arVars => MomentsInv'
<1> SUFFICES ASSUME TablesInv, MomentsInv, [AccountReportsNext]_arVars,
                    rPc' \in {"count", "rows"}
             PROVE  \E m \in moments' : m.balances[rJob'.account] = rBalance'
  BY MomentsGrow DEF MomentsInv
<1>1. moments \subseteq moments'
  BY MomentsGrow, CallShape
<1>2. CASE ReadAccount
  <2> DEFINE a == rJob.account
  <2>1. rPc = "account" /\ rJob' = rJob /\ rBalance' = accounts[a].balance
    BY <1>2 DEF ReadAccount, RGoto
  <2>2. a \in Accounts /\ Moment \in moments
    BY <2>1 DEF TablesInv, ControlInv, JobTypeOK, QueriesOf, MomentsInv, ROpen
  <2>3. Moment.balances[a] = accounts[a].balance
    BY <2>2, MomentIs
  <2>4. QED
    BY <1>1, <2>1, <2>2, <2>3
<1>3. CASE rPc \in {"count", "rows"} /\ UNCHANGED <<rJob, rBalance>>
  BY <1>1, <1>3 DEF MomentsInv
<1>4. ReadAccount \/ (rPc \in {"count", "rows"} /\ UNCHANGED <<rJob, rBalance>>)
  <2>1. CASE Report
    <3>1. ~CallReport
      BY CallShape
    <3>2. rPc # "account" \/ ReadAccount \/ ReportError
      BY <2>1, <3>1, RowsRead DEF Report, ReportStep, ReadRequestor, ReadTarget, ReadAccounts,
           CountRows, ReadRow, InsertGenerated, RGoto
    <3>3. QED
      BY <2>1, <3>1, RowsRead DEF Report, ReportStep, ReportError, ReadRequestor, ReadTarget,
           ReadAccounts, CountRows, ReadRow, InsertGenerated, RGoto, Refused
  <2>2. CASE UNCHANGED reportVars
    BY <2>2 DEF reportVars
  <2>3. CASE Crash
    BY <2>3 DEF Crash, ROpen
  <2>4. QED
    BY <2>1, <2>2, <2>3 DEF AccountReportsNext, AccountActivity, Tick, Quiet, arVars
<1>5. QED
  BY <1>2, <1>3, <1>4

-----------------------------------------------------------------------------
(* What a generator has left to insert. *)

LEMMA GeneratedNext ==
  TablesInv /\ GeneratedInv /\ [AccountReportsNext]_arVars => GeneratedInv'
<1> SUFFICES ASSUME TablesInv, GeneratedInv, [AccountReportsNext]_arVars, rPc' = "insert"
             PROVE  /\ Chains(rAnswer')
                    /\ \A i \in 1..(Len(rAnswer') - 1) : rAnswer'[i].at <= rAnswer'[i + 1].at
                    /\ \A i \in DOMAIN rAnswer' :
                         rAnswer'[i].type = "debit" => rAnswer'[i].after >= MinBalance
                    /\ rAnswer' # <<>> /\ Len(rAnswer') = Len(rJob'.draws) =>
                         Head(rAnswer').before = rBalance'
                    /\ Len(rAnswer') <= Len(rJob'.draws)
  BY DEF GeneratedInv, GeneratedReconciles
<1>1. CASE ReadAccount
  <2> DEFINE a == rJob.account  balance == accounts[a].balance
             draws == rJob.draws
             done == GeneratedHistory(a, balance, draws, MinBalance)
  <2>1. rPc = "account" /\ rJob' = rJob /\ rBalance' = balance /\ rJob.kind = "generate"
    <3>1. rPc = "account" /\ rJob' = rJob /\ rBalance' = balance
          /\ rPc' = IF MayRead(rJob) /\ PageAllowed(rJob) THEN SecondQuery(rJob) ELSE Refused
      BY <1>1 DEF ReadAccount, RGoto
    <3>2. rJob.kind \in Kinds \ {"summary"}
      BY <3>1 DEF TablesInv, ControlInv, QueriesOf
    <3>3. QED
      BY <3>1, <3>2 DEF SecondQuery, Refused, Kinds
  <2>2. /\ a \in Accounts /\ rJob.draws \in Seq(GeneratorDraw) \ {<<>>}
    BY <2>1 DEF TablesInv, ControlInv, JobTypeOK
  <2>3. balance \in Int /\ MinBalance \in Int
    BY <2>2, AccountReportsAssumption DEF TablesInv, AccountInv, StoreTypeOK, AccountRow
  <2>4. rAnswer' = done
    BY <1>1, <2>1 DEF ReadAccount
  <2>5. /\ done \in Seq(JournalRow) /\ Len(done) = Len(draws) /\ done # <<>>
        /\ \A k \in DOMAIN done :
             /\ done[k].after = done[k].before + Delta(done[k].type, done[k].amount)
             /\ done[k].type = "debit" => done[k].after >= MinBalance
        /\ \A k \in 2..Len(done) : done[k].before = done[k - 1].after
                                   /\ done[k - 1].at <= done[k].at
        /\ done[1].before = balance
    <3>1. a \in Accounts /\ draws \in Seq(GeneratorDraw) \ {<<>>}
      BY <2>2
    <3> HIDE DEF a, draws, balance
    <3>2. IsHistory(done, balance, draws, MinBalance)
      BY <2>3, <3>1, GeneratedHistoryIs
    <3> HIDE DEF done
    <3>3. QED
      BY <3>2 DEF IsHistory
  <2> HIDE DEF done, a, balance
  <2>6. Len(done) \in Nat /\ DOMAIN done = 1..Len(done) /\ Head(done) = done[1]
    BY <2>5
  <2>7. ASSUME NEW i \in 1..(Len(done) - 1)
        PROVE  done[i].after = done[i + 1].before /\ done[i].at <= done[i + 1].at
    <3>1. i + 1 \in 2..Len(done) /\ (i + 1) - 1 = i
      BY <2>6
    <3>2. QED
      BY <2>5, <3>1
  <2>8. Chains(done)
    BY <2>5, <2>7 DEF Chains, BalanceIsCorrect
  <2>9. QED
    BY <2>1, <2>4, <2>5, <2>6, <2>7, <2>8
<1>2. CASE InsertGenerated
  <2>1. /\ rPc = "insert" /\ UNCHANGED <<rJob, rBalance>> /\ rAnswer' = Tail(rAnswer)
        /\ Len(rAnswer) # 1
    BY <1>2 DEF InsertGenerated
  <2>2. /\ rAnswer \in Seq(JournalRow) \ {<<>>}
        /\ Chains(rAnswer)
        /\ \A i \in 1..(Len(rAnswer) - 1) : rAnswer[i].at <= rAnswer[i + 1].at
        /\ \A i \in DOMAIN rAnswer : rAnswer[i].type = "debit" => rAnswer[i].after >= MinBalance
        /\ Len(rAnswer) <= Len(rJob.draws)
    BY <2>1 DEF TablesInv, ControlInv, GeneratedInv, GeneratedReconciles
  <2>3. Len(rJob.draws) \in Nat
    BY <2>1 DEF TablesInv, ControlInv, QueriesOf, JobTypeOK
  <2> DEFINE n == Len(rAnswer)
  <2>4. /\ n \in Nat /\ n >= 1 /\ DOMAIN rAnswer = 1..n /\ Len(rAnswer') = n - 1
        /\ DOMAIN rAnswer' = 1..(n - 1)
        /\ \A i \in 1..(n - 1) : rAnswer'[i] = rAnswer[i + 1]
    BY <2>1, <2>2
  <2> HIDE DEF n
  <2>5. \A i \in 1..(n - 1) : i + 1 \in 1..n
    BY <2>4
  <2>6. \A i \in 1..((n - 1) - 1) : i \in 1..(n - 1) /\ i + 1 \in 1..(n - 1)
    BY <2>4
  <2>7. Chains(rAnswer')
    <3>1. \A i \in 1..n : BalanceIsCorrect(rAnswer[i])
      BY <2>2, <2>4 DEF Chains
    <3>2. \A i \in 1..(n - 1) : rAnswer[i].after = rAnswer[i + 1].before
      BY <2>2 DEF Chains, n
    <3>3. QED
      BY <2>4, <2>5, <2>6, <3>1, <3>2 DEF Chains
  <2>8. \A i \in 1..(Len(rAnswer') - 1) : rAnswer'[i].at <= rAnswer'[i + 1].at
    <3>1. \A i \in 1..(n - 1) : rAnswer[i].at <= rAnswer[i + 1].at
      BY <2>2 DEF n
    <3>2. QED
      BY <2>4, <2>6, <3>1
  <2>9. \A i \in DOMAIN rAnswer' : rAnswer'[i].type = "debit" => rAnswer'[i].after >= MinBalance
    BY <2>2, <2>4, <2>5
  <2>10. Len(rAnswer') <= Len(rJob'.draws) /\ Len(rAnswer') # Len(rJob'.draws)
    <3> DEFINE m == Len(rJob.draws)
    <3>1. n <= m /\ m \in Nat
      BY <2>2, <2>3 DEF n
    <3>2. Len(rJob'.draws) = m
      BY <2>1
    <3> HIDE DEF m
    <3>3. Len(rAnswer') <= m /\ Len(rAnswer') # m
      BY <2>4, <3>1
    <3>4. QED
      BY <3>2, <3>3
  <2>11. QED
    BY <2>7, <2>8, <2>9, <2>10
<1>3. CASE UNCHANGED reportVars
  BY <1>3 DEF reportVars, GeneratedInv, GeneratedReconciles
<1>4. ReadAccount \/ InsertGenerated \/ UNCHANGED reportVars
  <2>1. CASE Report
    <3>1. ~CallReport
      BY CallShape
    <3>2. QED
      BY <2>1, <3>1, RowsRead DEF Report, ReportStep, ReportError, ReadRequestor, ReadTarget,
           ReadAccounts, CountRows, ReadRow, RGoto, Refused
  <2>2. CASE Crash
    BY <2>2 DEF Crash, ROpen, reportVars
  <2>3. QED
    BY <2>1, <2>2 DEF AccountReportsNext, AccountActivity, Tick, Quiet, arVars
<1>5. QED
  BY <1>1, <1>2, <1>3, <1>4

-----------------------------------------------------------------------------
(* The answers. *)

(* What was true at one of some moments is true at one of more. *)
LEMMA HoldsGrow ==
  ASSUME NEW ms, NEW ns, ms \subseteq ns, NEW l, NEW j, NEW answer
  PROVE  /\ SummaryHolds(ms, j, answer) => SummaryHolds(ns, j, answer)
         /\ \A metrics, a, from, to :
              MetricsHold(ms, metrics, a, from, to) => MetricsHold(ns, metrics, a, from, to)
         /\ PageHolds(ms, j, answer) => PageHolds(ns, j, answer)
         /\ StatementHolds(ms, l, j, answer) => StatementHolds(ns, l, j, answer)
         /\ StatementIsGood(ms, l, j, answer) => StatementIsGood(ns, l, j, answer)
<1>1. SummaryHolds(ms, j, answer) => SummaryHolds(ns, j, answer)
  BY DEF SummaryHolds
<1>2. ASSUME NEW metrics, NEW a, NEW from, NEW to, MetricsHold(ms, metrics, a, from, to)
      PROVE  MetricsHold(ns, metrics, a, from, to)
  <2>1. PICK m \in ms :
          LET own == RowsBetween(m.journal, a, from, to)
              most(type) == Max({0} \cup {m.journal[i].amount :
                                            i \in own \cap Counted(m.journal, type)})
          IN /\ metrics.totals = TotalsAt(m.journal, own)
             /\ metrics.largestDeposit = most("credit")
             /\ metrics.largestWithdrawal = most("debit")
             /\ IF own = {} THEN \E n \in ms : metrics.average = <<n.balances[a], 1>>
                ELSE metrics.average = <<SumOfBalances(m.journal, own), Cardinality(own)>>
    BY <1>2 DEF MetricsHold
  <2>2. QED
    BY <2>1 DEF MetricsHold
<1>3. PageHolds(ms, j, answer) => PageHolds(ns, j, answer)
  BY DEF PageHolds
<1>4. StatementHolds(ms, l, j, answer) => StatementHolds(ns, l, j, answer)
  BY DEF StatementHolds
<1>5. StatementIsGood(ms, l, j, answer) => StatementIsGood(ns, l, j, answer)
  BY <1>2, <1>4 DEF StatementIsGood
<1>6. QED
  BY <1>1, <1>2, <1>3, <1>4, <1>5

(* An answer that is not touched stays as true as it was. *)
LEMMA AnswersStay ==
  ASSUME AnswersInv, moments \subseteq moments', UNCHANGED <<rJob, rAnswer, load>>,
         rPc' # "idle" => rPc # "idle",
         rPc' = "done" => rPc = "done" \/ (rJob.kind = "statement" /\ rAnswer # <<>>)
  PROVE  AnswersInv'
<1>1. /\ SummaryHolds(moments, rJob, rAnswer) => SummaryHolds(moments', rJob', rAnswer')
      /\ MetricsHold(moments, rAnswer, rJob.account, rJob.from, rJob.to)
           => MetricsHold(moments', rAnswer', rJob'.account, rJob'.from, rJob'.to)
      /\ PageHolds(moments, rJob, rAnswer) => PageHolds(moments', rJob', rAnswer')
      /\ StatementIsGood(moments, load, rJob, rAnswer)
           => StatementIsGood(moments', load', rJob', rAnswer')
  BY HoldsGrow
<1>2. QED
  BY <1>1 DEF AnswersInv, Answered

(* Transactions and generators have nothing to show. *)
LEMMA AnswersVoid ==
  ASSUME rJob'.kind \in {"transaction", "generate"}
  PROVE  AnswersInv'
BY DEF AnswersInv, Answered

LEMMA RangeIs ==
  ASSUME TablesInv, NEW from, NEW to
  PROVE  LET own == RowsBetween(journal, rJob.account, from, to) IN
         /\ own \in SUBSET (DOMAIN journal) /\ journal \in Seq(JournalRow)
         /\ RangeOf(from, to) = NewestRows(journal, own, Cardinality(own))
BY DEF TablesInv, RowsBetween, RowsOf, RangeOf

(* Metrics are computed from one reading of the table. *)
LEMMA MetricsAre ==
  ASSUME TablesInv, MomentsInv, rPc = "rows", NEW from, NEW to, NEW order \in RangeOf(from, to)
  PROVE  MetricsHold(moments, calculateAccountMetrics(Fetch(journal, order), rBalance),
                     rJob.account, from, to)
<1> DEFINE a == rJob.account
           own == RowsBetween(journal, a, from, to)
           rows == Fetch(journal, order)
           metrics == calculateAccountMetrics(rows, rBalance)
           most(type) == Max({0} \cup {journal[i].amount : i \in own \cap Counted(journal, type)})
<1>1. /\ Moment \in moments /\ \E n \in moments : n.balances[a] = rBalance
  BY DEF MomentsInv, ROpen
<1>2. /\ own \in SUBSET (DOMAIN journal) /\ journal \in Seq(JournalRow)
      /\ order \in NewestRows(journal, own, Cardinality(own))
  BY RangeIs
<1> HIDE DEF own
<1>3. LET fetched == Fetch(journal, order) IN
         /\ fetched = <<>> <=> own = {}
         /\ Len(fetched) = Cardinality(own)
         /\ ShowsNewestFirst(fetched, journal, own)
         /\ Totals(fetched) = TotalsAt(journal, own)
         /\ \A type : Largest(fetched, type)
                        = Max({0} \cup {journal[i].amount : i \in own \cap Counted(journal, type)})
         /\ SumOfBalances(fetched, DOMAIN fetched) = SumOfBalances(journal, own)
  BY <1>2, FetchedIs, Zenon
<1> HIDE DEF rows
<1>4. /\ metrics.totals = TotalsAt(journal, own)
      /\ metrics.largestDeposit = most("credit")
      /\ metrics.largestWithdrawal = most("debit")
      /\ IF own = {} THEN metrics.average = <<rBalance, 1>>
         ELSE metrics.average = <<SumOfBalances(journal, own), Cardinality(own)>>
  BY <1>3 DEF rows, calculateAccountMetrics
<1> HIDE DEF metrics
<1>5. Moment.journal = journal
  BY MomentIs
<1>6. MetricsHold(moments, metrics, a, from, to)
  <2>1. PICK n \in moments : n.balances[a] = rBalance
    BY <1>1
  <2> DEFINE m == Moment
  <2>2. m \in moments /\ m.journal = journal
    BY <1>1, <1>5
  <2> HIDE DEF m
  <2>3. /\ own = RowsBetween(m.journal, a, from, to)
        /\ metrics.totals = TotalsAt(m.journal, own)
        /\ \A type : most(type) = Max({0} \cup {m.journal[i].amount :
                                                 i \in own \cap Counted(m.journal, type)})
        /\ IF own = {} THEN \E k \in moments : metrics.average = <<k.balances[a], 1>>
           ELSE metrics.average = <<SumOfBalances(m.journal, own), Cardinality(own)>>
    BY <1>4, <2>1, <2>2 DEF own
  <2> HIDE DEF own, most
  <2>4. LET mine == RowsBetween(m.journal, a, from, to)
            largest(type) == Max({0} \cup {m.journal[i].amount :
                                              i \in mine \cap Counted(m.journal, type)})
        IN /\ metrics.totals = TotalsAt(m.journal, mine)
           /\ metrics.largestDeposit = largest("credit")
           /\ metrics.largestWithdrawal = largest("debit")
           /\ IF mine = {} THEN \E k \in moments : metrics.average = <<k.balances[a], 1>>
              ELSE metrics.average = <<SumOfBalances(m.journal, mine), Cardinality(mine)>>
    BY <1>4, <2>3
  <2>5. QED
    BY <2>2, <2>4 DEF MetricsHold
<1>7. QED
  BY <1>6 DEF metrics, rows

(* A statement is computed from one reading of the table, and where every *)
(* movement has its row this one leads to the balances.                   *)
LEMMA StatementsAre ==
  ASSUME TablesInv, GenuineInv, MomentsInv, rPc = "rows", rJob.kind = "statement",
         NEW order \in StatementRows, NEW answer,
         answer = [rows |-> Fetch(journal, order),
                   balances |-> PeriodBalances(Fetch(journal, order), rBalance),
                   totals |-> Totals(Fetch(journal, order)), metrics |-> <<>>]
  PROVE  StatementIsGood(moments, load, rJob, answer)
<1> DEFINE a == rJob.account
           from == PeriodStart(rJob.period)
           to == PeriodEnd(rJob.period)
           own == RowsOf(journal, a)
           inPeriod == RowsBetween(journal, a, from, to)
           rows == Fetch(journal, order)
<1>1. /\ a \in Accounts /\ rJob.period \in Int /\ load.reports # {}
      /\ AccountInv /\ RecordersInv /\ Moment \in moments
  BY DEF TablesInv, ControlInv, JobTypeOK, MomentsInv, ROpen
<1>2. from \in Int /\ to \in Int
  BY <1>1, StatementsAssumption DEF PeriodStart, PeriodEnd
<1>3. /\ inPeriod \in SUBSET (DOMAIN journal) /\ journal \in Seq(JournalRow)
      /\ order \in NewestRows(journal, inPeriod, Cardinality(inPeriod))
  BY RangeIs DEF StatementRows
<1> HIDE DEF from, to, rows
<1>4. answer.rows = rows /\ answer.totals = Totals(rows) /\ answer.metrics = <<>>
  BY DEF rows
<1>5. answer.totals = TotalsAt(journal, inPeriod) /\ ShowsNewestFirst(answer.rows, journal, inPeriod)
  <2> HIDE DEF inPeriod
  <2>1. Totals(rows) = TotalsAt(journal, inPeriod) /\ ShowsNewestFirst(rows, journal, inPeriod)
    BY <1>3, FetchedIs DEF rows
  <2>2. QED
    BY <1>4, <2>1
<1>6. ASSUME Moment.settled, load.serial, load.sampled
      PROVE  /\ ContinueOneAnother(journal, inPeriod)
             /\ inPeriod = own => LeadTo(accounts[a].balance, journal, own)
  <2>1. \A r \in posted : \E e \in ledger : e.request = r
    BY <1>6, MomentIs
  <2>2. Genuine
    BY <1>1, <1>6, <2>1, MomentIs DEF Genuine
  <2>3. \A r \in AccountRequests : ~AtRecord(r, a)
    BY <1>1, <2>1 DEF AtRecord, AccountInv, PostedCalls, RecordersInv
  <2> DEFINE balance == accounts[a].balance
  <2>4. Books(journal, a, now, balance)
    BY <1>1, <2>2, <2>3 DEF GenuineInv
  <2> HIDE DEF balance, a
  <2>5. /\ ContinueOneAnother(journal, inPeriod)
        /\ inPeriod = own => LeadTo(balance, journal, inPeriod)
    BY <1>2, <1>3, <2>4, StatementIs
  <2>6. QED
    BY <2>5 DEF balance, a
<1>7. /\ Moment.journal = journal /\ Moment.balances[a] = accounts[a].balance
  BY <1>1, MomentIs
<1> DEFINE m == Moment
<1>8. StatementHolds(moments, load, rJob, answer)
  <2>1. /\ m \in moments /\ own = RowsOf(m.journal, a)
        /\ inPeriod = RowsBetween(m.journal, a, PeriodStart(rJob.period), PeriodEnd(rJob.period))
        /\ answer.totals = TotalsAt(m.journal, inPeriod)
        /\ ShowsNewestFirst(answer.rows, m.journal, inPeriod)
    BY <1>1, <1>5, <1>7 DEF from, to
  <2>2. m.settled /\ load.serial /\ load.sampled =>
          /\ ContinueOneAnother(m.journal, inPeriod)
          /\ inPeriod = own => LeadTo(m.balances[a], m.journal, own)
    BY <1>6, <1>7
  <2> HIDE DEF m, own, inPeriod
  <2>3. QED
    BY <2>1, <2>2 DEF StatementHolds
<1>9. answer = [rows |-> answer.rows, balances |-> answer.balances,
                totals |-> answer.totals, metrics |-> answer.metrics]
  OBVIOUS
<1>10. QED
  BY <1>4, <1>8, <1>9 DEF StatementIsGood

LEMMA AnswersNext ==
  TablesInv /\ GenuineInv /\ MomentsInv /\ AnswersInv /\ [AccountReportsNext]_arVars => AnswersInv'
<1> SUFFICES ASSUME TablesInv, GenuineInv, MomentsInv, AnswersInv, [AccountReportsNext]_arVars
             PROVE  AnswersInv'
  OBVIOUS
<1>1. /\ load' = load
      /\ moments \subseteq moments' \/ (CallReport /\ Report)
  BY MomentsGrow
<1>2. CASE CallReport
  BY <1>2, CallShape DEF AnswersInv, Answered
<1>3. CASE ~CallReport
  <2>1. moments \subseteq moments'
    BY <1>1, <1>3
  <2>2. CASE UNCHANGED reportVars
    BY <1>1, <2>1, <2>2, AnswersStay DEF reportVars
  <2>3. CASE Crash
    <3>1. /\ UNCHANGED <<rJob, rAnswer>>
          /\ (rPc' = "failed" /\ rPc \in ROpen) \/ rPc' = rPc
      BY <2>3 DEF Crash
    <3>2. QED
      BY <1>1, <2>1, <3>1, AnswersStay DEF ROpen
  <2>4. CASE ReadRequestor \/ ReadTarget \/ CountRows \/ ReportError
    <3>1. /\ UNCHANGED <<rJob, rAnswer>> /\ rPc \in ROpen
          /\ rPc' = "done" => TakesMetrics
      BY <2>4 DEF ReadRequestor, ReadTarget, CountRows, ReportError, RGoto, Refused, ROpen
    <3>2. QED
      BY <1>1, <2>1, <3>1, AnswersStay DEF ROpen, TakesMetrics
  <2>5. CASE ReadAccount
    <3>1. rPc = "account" /\ rJob' = rJob
      BY <2>5 DEF ReadAccount, RGoto
    <3>2. CASE rJob.kind = "generate"
      BY <3>1, <3>2, AnswersVoid
    <3>3. CASE rJob.kind # "generate"
      <4>1. /\ rAnswer' = rAnswer
            /\ rPc' = IF MayRead(rJob) /\ PageAllowed(rJob) THEN SecondQuery(rJob) ELSE Refused
        BY <2>5, <3>3 DEF ReadAccount, RGoto
      <4>2. rJob.kind \in Kinds \ {"summary"}
        BY <3>1 DEF TablesInv, ControlInv, QueriesOf
      <4>3. rPc' = "done" => TakesMetrics
        BY <4>1, <4>2 DEF SecondQuery, Refused, Kinds
      <4>4. QED
        BY <1>1, <2>1, <3>1, <4>1, <4>3, AnswersStay DEF TakesMetrics
    <3>4. QED
      BY <3>2, <3>3
  <2>6. CASE ReadRow
    BY <2>6, AnswersVoid DEF ReadRow, RGoto, TablesInv, ControlInv, QueriesOf
  <2>7. CASE InsertGenerated
    BY <2>7, AnswersVoid DEF InsertGenerated, TablesInv, ControlInv, QueriesOf
  <2>8. CASE ReadAccounts
    <3> DEFINE T == AccountsOf(rJob.target)
               balances == [a \in T |-> accounts[a].balance]
    <3>1. /\ rPc = "accounts" /\ rPc' = "done" /\ rJob' = rJob
          /\ rAnswer' = SummaryOf(balances)
      BY <2>8 DEF ReadAccounts, RGoto
    <3>2. rJob.kind = "summary" /\ Moment \in moments'
      BY <2>1, <3>1 DEF TablesInv, ControlInv, QueriesOf, MomentsInv, ROpen
    <3>3. T \subseteq Accounts /\ IsFiniteSet(T)
      BY AccountReportsAssumption, FS_Subset DEF AccountsOf
    <3>4. \A a \in T : balances[a] = Moment.balances[a]
      BY <3>3, MomentIs
    <3>5. SumFunctionOnSet(balances, T) = SumFunctionOnSet(Moment.balances, T)
      <4> DEFINE b == Moment.balances
      <4> HIDE DEF b, balances, T
      <4>1. \A a \in T : balances[a] = b[a]
        BY <3>4 DEF b
      <4>2. SumFunctionOnSet(balances, T) = SumFunctionOnSet(b, T)
        BY <3>3, <4>1, SumAlike
      <4>3. QED
        BY <4>2 DEF b
    <3>6. rAnswer'.balances = balances /\ rAnswer'.total = SumFunctionOnSet(balances, T)
      BY <3>1 DEF SummaryOf
    <3>7. SummaryHolds(moments', rJob', rAnswer')
      <4> DEFINE m == Moment
      <4>1. /\ m \in moments' /\ \A a \in AccountsOf(rJob'.target) : rAnswer'.balances[a] = m.balances[a]
            /\ rAnswer'.total = SumFunctionOnSet(m.balances, AccountsOf(rJob'.target))
        BY <3>1, <3>2, <3>4, <3>5, <3>6
      <4> HIDE DEF m
      <4>2. QED
        BY <4>1 DEF SummaryHolds
    <3>8. QED
      BY <3>1, <3>2, <3>7 DEF AnswersInv, Answered
  <2>9. CASE ReadRows
    <3>1. rPc = "rows" /\ rJob' = rJob
      BY <2>9, RowsRead
    <3>2. CASE ReadMetrics
      <4>1. rJob.kind = "metrics"
        BY <3>2 DEF ReadMetrics
      <4>2. PICK order \in RangeOf(rJob.from, rJob.to) :
              rAnswer' = calculateAccountMetrics(Fetch(journal, order), rBalance)
        BY <3>2 DEF ReadMetrics
      <4>3. MetricsHold(moments, rAnswer', rJob.account, rJob.from, rJob.to)
        BY <3>1, <4>2, MetricsAre
      <4>4. MetricsHold(moments', rAnswer', rJob.account, rJob.from, rJob.to)
        BY <2>1, <4>3, HoldsGrow
      <4>5. QED
        BY <3>1, <4>1, <4>4 DEF AnswersInv, Answered
    <3>3. CASE ReadStatement
      <4>1. rJob.kind = "statement" /\ rPc' = "requestor"
        BY <3>3 DEF ReadStatement, RGoto
      <4>2. PICK order \in StatementRows :
              rAnswer' = [rows |-> Fetch(journal, order),
                          balances |-> PeriodBalances(Fetch(journal, order), rBalance),
                          totals |-> Totals(Fetch(journal, order)), metrics |-> <<>>]
        BY <3>3 DEF ReadStatement
      <4>3. StatementIsGood(moments, load, rJob, rAnswer')
        BY <3>1, <4>1, <4>2, StatementsAre
      <4>4. StatementIsGood(moments', load', rJob', rAnswer')
        BY <1>1, <2>1, <3>1, <4>3, HoldsGrow
      <4>5. QED
        BY <3>1, <4>1, <4>4 DEF AnswersInv, Answered
    <3>4. CASE ReadStatementMetrics
      <4>0. TakesMetrics /\ rPc' = "done"
        BY <3>4 DEF ReadStatementMetrics, RGoto
      <4> PICK order \in StatementRows :
            rAnswer' = [rAnswer EXCEPT !.metrics =
                          <<calculateAccountMetrics(Fetch(journal, order), rBalance)>>]
        BY <3>4 DEF ReadStatementMetrics
      <4> DEFINE from == PeriodStart(rJob.period)
                 to == PeriodEnd(rJob.period)
                 metrics == calculateAccountMetrics(Fetch(journal, order), rBalance)
      <4>1. rJob.kind = "statement" /\ rAnswer # <<>>
        BY <4>0 DEF TakesMetrics
      <4>2. StatementIsGood(moments, load, rJob, rAnswer)
        BY <3>1, <4>1 DEF AnswersInv
      <4>3. MetricsHold(moments, metrics, rJob.account, from, to)
        BY <3>1, MetricsAre DEF StatementRows
      <4> HIDE DEF from, to, metrics
      <4> DEFINE rows == rAnswer.rows  totals == rAnswer.totals  balances == rAnswer.balances
      <4>4. rAnswer = [rows |-> rows, balances |-> balances, totals |-> totals,
                       metrics |-> rAnswer.metrics]
        BY <4>2 DEF StatementIsGood
      <4>5. rAnswer' = [rAnswer EXCEPT !.metrics = <<metrics>>]
        BY DEF metrics
      <4> HIDE DEF rows, totals, balances
      <4>6. rAnswer' = [rows |-> rows, balances |-> balances, totals |-> totals,
                        metrics |-> <<metrics>>]
        BY <4>4, <4>5
      <4>7. rAnswer' # <<>>
        <5>1. "rows" \in DOMAIN rAnswer' /\ "rows" \notin DOMAIN (<<>>)
          BY <4>6
        <5>2. QED
          BY <5>1
      <4>8. StatementHolds(moments, load, rJob, rAnswer')
        <5>1. rAnswer'.rows = rAnswer.rows /\ rAnswer'.totals = rAnswer.totals
          BY <4>6 DEF rows, totals
        <5>2. StatementHolds(moments, load, rJob, rAnswer)
          BY <4>2 DEF StatementIsGood
        <5>3. QED
          BY <5>1, <5>2 DEF StatementHolds
      <4>9. StatementIsGood(moments, load, rJob, rAnswer')
        <5>1. \A i \in DOMAIN rAnswer'.metrics : rAnswer'.metrics[i] = metrics
          BY <4>6
        <5>2. QED
          BY <4>3, <4>6, <4>8, <5>1 DEF StatementIsGood, from, to
      <4>10. StatementIsGood(moments', load', rJob', rAnswer')
        BY <1>1, <2>1, <3>1, <4>9, HoldsGrow
      <4>11. QED
        BY <3>1, <4>0, <4>1, <4>7, <4>10 DEF AnswersInv, Answered
    <3>5. CASE ReadList
      <4>0. rJob.kind = "list" /\ rPc' = "done"
        BY <3>5 DEF ReadList, RGoto
      <4> PICK order \in ListQuery(journal, rJob.account, rJob.cursor) :
            rAnswer' = Page(Fetch(journal, order), rJob.cursor, rJob.limit)
        BY <3>5 DEF ReadList
      <4>1. ASSUME rJob.cursor = <<>>, rJob.limit <= DefaultLimit
            PROVE  PageHolds(moments', rJob', rAnswer')
        <5> DEFINE limit == rJob.limit  a == rJob.account
        <5>1. /\ limit \in 1..DefaultLimit /\ Moment \in moments' /\ journal \in Seq(JournalRow)
          BY <2>1, <3>1, <4>0, <4>1, StatementsAssumption
             DEF TablesInv, ControlInv, JobTypeOK, MomentsInv, ROpen
        <5>2. rAnswer' = Page(Fetch(journal, order), <<>>, limit)
              /\ order \in ListQuery(journal, a, <<>>)
          BY <4>1
        <5> DEFINE own == RowsOf(journal, a)
                   shown == {i \in own : \E k \in DOMAIN rAnswer'.rows : rAnswer'.rows[k] = journal[i]}
        <5>3. /\ Len(rAnswer'.rows) <= limit
              /\ rAnswer'.hasMore <=> Cardinality(own) > limit
              /\ Cardinality(own) <= limit => shown = own
              /\ \A i \in shown, k \in own \ shown : journal[i].at >= journal[k].at
          <6> DEFINE page == Page(Fetch(journal, order), <<>>, limit)
          <6> HIDE DEF a, limit
          <6>1. /\ Len(page.rows) <= limit
                /\ page.hasMore <=> Cardinality(RowsOf(journal, a)) > limit
                /\ LET mine == RowsOf(journal, a)
                       seen == {i \in mine : \E k \in DOMAIN page.rows : page.rows[k] = journal[i]}
                   IN /\ Cardinality(mine) <= limit => seen = mine
                      /\ \A i \in seen, k \in mine \ seen : journal[i].at >= journal[k].at
            BY <5>1, <5>2, FirstPageIs
          <6> HIDE DEF page
          <6>2. QED
            BY <5>2, <6>1 DEF page
        <5> DEFINE m == Moment
        <5>4. m \in moments' /\ m.journal = journal
          BY <5>1, MomentIs
        <5> HIDE DEF m
        <5>5. QED
          BY <3>1, <5>3, <5>4 DEF PageHolds
      <4>2. QED
        BY <3>1, <4>0, <4>1 DEF AnswersInv, Answered
    <3>6. QED
      BY <2>9, <3>2, <3>3, <3>4, <3>5 DEF ReadRows
  <2>10. QED
    BY <1>3, <2>2, <2>3, <2>4, <2>5, <2>6, <2>7, <2>8, <2>9
       DEF AccountReportsNext, AccountActivity, Tick, Report, ReportStep, Quiet, arVars
<1>4. QED
  BY <1>2, <1>3

LEMMA ReportsInvHolds == AccountReportsSpec => []ReportsInv
<1>1. AccountReportsInit => ReportsInv
  <2> SUFFICES ASSUME AccountReportsInit PROVE ReportsInv
    OBVIOUS
  <2>1. rPc = "idle"
    BY DEF AccountReportsInit
  <2>2. MomentsInv /\ AnswersInv /\ GeneratedInv
    BY <2>1 DEF MomentsInv, AnswersInv, Answered, GeneratedInv, ROpen
  <2>3. QED
    BY <2>2, TablesInit DEF ReportsInv
<1>2. ReportsInv /\ [AccountReportsNext]_arVars => ReportsInv'
  BY TablesNext, SerialNext, GenuineNext, MomentsNext, GeneratedNext, AnswersNext DEF ReportsInv
<1>3. QED
  BY <1>1, <1>2, PTL DEF AccountReportsSpec

(* A report reads several tables, or one of them more than once, while     *)
(* money moves; a summary, metrics and the first page of a list show what  *)
(* was true at one moment of their run, for any accounts, rows and loads.  *)
THEOREM ReportsAreConsistent == AccountReportsSpec => []ReportsAreOfOneMoment
<1>1. ReportsInv => ReportsAreOfOneMoment
  <2> SUFFICES ASSUME ReportsInv PROVE ReportsAreOfOneMoment
    OBVIOUS
  <2>1. SummaryIsOfOneMoment
    BY DEF ReportsInv, AnswersInv, SummaryIsOfOneMoment, SummaryHolds
  <2>2. MetricsAreOfOneMoment
    <3>1. ASSUME NEW metrics, NEW a, NEW from, NEW to, MetricsHold(moments, metrics, a, from, to)
          PROVE  \E m \in moments : MetricsHoldAt(m, metrics, a, from, to)
      BY <3>1 DEF MetricsHold, MetricsHoldAt
    <3>2. Answered("metrics") => MetricsHold(moments, rAnswer, rJob.account, rJob.from, rJob.to)
      BY DEF ReportsInv, AnswersInv
    <3>3. Answered("statement") =>
            \A i \in DOMAIN rAnswer.metrics :
              MetricsHold(moments, rAnswer.metrics[i], rJob.account,
                          PeriodStart(rJob.period), PeriodEnd(rJob.period))
      BY DEF ReportsInv, AnswersInv, Answered, StatementIsGood
    <3>4. QED
      BY <3>1, <3>2, <3>3 DEF MetricsAreOfOneMoment
  <2>3. FirstPageIsNewest
    BY DEF ReportsInv, AnswersInv, FirstPageIsNewest, PageHolds
  <2>4. QED
    BY <2>1, <2>2, <2>3 DEF ReportsAreOfOneMoment
<1>2. QED
  BY <1>1, ReportsInvHolds, PTL

(* What ServiceProofs shows of deposits, withdrawals and status changes     *)
(* holds as well when accounts start with sample histories and are reported *)
(* on meanwhile: a closed account is empty, an answer says what was done,   *)
(* and no row is ahead of its movement.                                     *)
THEOREM OperationsStayCorrect ==
  AccountReportsSpec => [](ClosedIsEmpty /\ AccountAnswersAreTrue /\ RecordsFollowMovements)
<1>1. ReportsInv => ClosedIsEmpty /\ AccountAnswersAreTrue /\ RecordsFollowMovements
  <2> SUFFICES ASSUME ReportsInv
               PROVE  ClosedIsEmpty /\ AccountAnswersAreTrue /\ RecordsFollowMovements
    OBVIOUS
  <2>1. AccountInv
    BY DEF ReportsInv, TablesInv
  <2>2. QED
    BY <2>1 DEF AccountInv, PostedCalls, RecordsInv, Recorded, AccountAnswersAreTrue,
               RecordsFollowMovements
<1>2. QED
  BY <1>1, ReportsInvHolds, PTL

(* Every balance a history shows follows from the row before it.  The rows  *)
(* of a statement of an account with a sample history continue one another, *)
(* and the whole history leads to the balance of the account, up to the     *)
(* rounding of fractions of a cent, where every movement has its row; this  *)
(* is so in whatever order rows of one instant are returned.  Those of a    *)
(* generated history go on from the balance that was read.                  *)
THEOREM BalancesFollowRows == AccountReportsSpec => []HistoriesReconcile
<1>1. ReportsInv => HistoriesReconcile
  <2> SUFFICES ASSUME ReportsInv PROVE HistoriesReconcile
    OBVIOUS
  <2>1. StatementReconciles
    BY DEF ReportsInv, AnswersInv, Answered, StatementReconciles, StatementIsGood, StatementHolds
  <2>2. GeneratedReconciles
    BY DEF ReportsInv, GeneratedInv, GeneratedReconciles
  <2>3. QED
    BY <2>1, <2>2 DEF HistoriesReconcile
<1>2. QED
  BY <1>1, ReportsInvHolds, PTL
=============================================================================
