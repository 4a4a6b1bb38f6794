---------------------------- MODULE TransferHistory ----------------------------
(***************************************************************************)
(* The transfer service beside a client that walks through the history of  *)
(* a user's transfers, page by page, until a page comes back short         *)
(* (GetTransferHistory).  A page is an offset and a limit into the rows    *)
(* ordered by created_at, newest first; transfers are inserted and change  *)
(* their status between two pages.                                         *)
(*                                                                         *)
(* created_at is set by the insert hook, before the INSERT: a row may      *)
(* appear behind rows that are already there.                              *)
(*                                                                         *)
(* One walk is enough, since it changes nothing, and a behaviour with a    *)
(* walk ends with it; in behaviours without one the order of the rows is   *)
(* not kept.  The total that comes with a page is counted by a query of    *)
(* its own and is left out.                                                *)
(***************************************************************************)
EXTENDS TransferService, Rows, Functions

CONSTANTS
  PageLimits,  \* the page sizes clients ask for
  Filters,     \* the statuses they ask for; "none" is no filter
  MaxActive    \* bound: callers, the client that walks counted

ASSUME TransferHistoryAssumption ==
  /\ PageLimits \subseteq Nat \ {0}
  /\ Filters \subseteq {"none", "pending", "completed", "failed"}
  /\ MaxActive \in Nat

VARIABLES
  createdAt,  \* createdAt[r]: the created_at of r's transfer, 0 if it has none
  walk        \* the client's walk

historyVars == <<tVars, createdAt, walk>>

Walker(pc) == [pc |-> pc, user |-> NoRequest, filter |-> "none", limit |-> 0,
               page |-> 0, shown |-> {}, began |-> {}]

HasWalk == walk.pc # "none"
WalkIsOver == walk.pc \in {"ended", "failed"}

TransferHistoryInit ==
  /\ TransferServiceInit
  /\ createdAt = [r \in TransferRequests |-> 0]
  /\ walk \in {Walker("none"), Walker("idle")}

-----------------------------------------------------------------------------
(* The query. *)

(* A row matches if it moves money from or to an account of the user and *)
(* has the status asked for, if any.                                     *)
Matches(r, user, filter) ==
  LET j == tJob[r] IN
  /\ transfers[j.key].id = r
  /\ Owner[j.from] = user \/ Owner[j.to] = user
  /\ filter = "none" \/ transfers[j.key].status = filter

Dated == {r \in TransferRequests : createdAt[r] > 0}

Found(user, filter) == {r \in Dated : Matches(r, user, filter)}

(* Mutant: transfers without an outcome come first. *)
PendingFirst(rows) ==
  LET pending(r) == transfers[tJob[r].key].status = "pending"
  IN {p \in rows \X rows :
        IF pending(p[1]) = pending(p[2]) THEN createdAt[p[1]] > createdAt[p[2]]
        ELSE pending(p[1])}

(* created_at DESC *)
NewestFirst(rows) == {p \in rows \X rows : createdAt[p[1]] > createdAt[p[2]]}

(* FindByUserAccountsWithFilters *)
FindByUserAccounts(user, filter, offset, limit) ==
  LET found == Found(user, filter)
  IN Slice(InOrder(found, NewestFirst(found)), offset, limit)

-----------------------------------------------------------------------------
(* The walk. *)

BeginWalk ==
  /\ walk.pc = "idle"
  /\ \E u \in Users, f \in Filters, n \in PageLimits :
       walk' = [walk EXCEPT !.pc = "open", !.user = u, !.filter = f, !.limit = n,
                            !.page = 1,
                            !.began = Found(u, f)]

(* GetTransferHistory: one page. *)
ReadPage ==
  LET offset == (walk.page - 1) * walk.limit
      rows == FindByUserAccounts(walk.user, walk.filter, offset, walk.limit)
  IN /\ walk.pc = "open"
     /\ walk' = [walk EXCEPT !.pc = IF Len(rows) < walk.limit THEN "ended" ELSE "open",
                             !.page = @ + 1,
                             !.shown = @ \cup Range(rows)]

(* A query fails, or the process dies; the client gives up. *)
WalkFails ==
  /\ Faults
  /\ walk.pc = "open"
  /\ walk' = [walk EXCEPT !.pc = "failed"]

Walk == (BeginWalk \/ ReadPage \/ WalkFails) /\ UNCHANGED <<tVars, createdAt>>

-----------------------------------------------------------------------------
(* The hook stamps a row once the checks of its request are done. *)
Stamped ==
  createdAt' = [r \in TransferRequests |->
                  IF HasWalk /\ tPc[r] # "create" /\ tPc'[r] = "create"
                    THEN Cardinality(Dated) + 1 ELSE createdAt[r]]

CallersBounded ==
  /\ ~WalkIsOver
  /\ Cardinality({r \in TransferRequests : tPc'[r] # "idle"})
       + (IF HasWalk THEN 1 ELSE 0) <= MaxActive

Transfers ==
  /\ TransferNext \/ TransferCrash
  /\ Stamped
  /\ UNCHANGED walk
  /\ CallersBounded

HistoryQuiet ==
  /\ WalkIsOver \/ (~HasWalk /\ TransfersQuiet)
  /\ UNCHANGED historyVars

TransferHistoryNext == Transfers \/ Walk \/ HistoryQuiet

TransferHistorySpec == TransferHistoryInit /\ [][TransferHistoryNext]_historyVars

-----------------------------------------------------------------------------
(* Properties. *)

(* A client that asks for page after page until one comes back short has    *)
(* been shown every transfer that was there, and matched, when it began:    *)
(* what happens meanwhile only pushes rows to later pages.  This needs      *)
(* outcomes to be final; a walk through the pending transfers may miss one  *)
(* that is still pending, since others leave the pages before it.           *)
WalksMissNothing ==
  walk.pc = "ended" /\ walk.filter # "pending" => walk.began \subseteq walk.shown
=============================================================================
