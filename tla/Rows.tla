---------------------------------- MODULE Rows ----------------------------------
(***************************************************************************)
(* What a query returns: the rows it finds, in an order, and of these a    *)
(* slice.  Rows are named by their keys or positions; an order is a set of *)
(* pairs of them, so that facts about it can be stated for every order.    *)
(***************************************************************************)
EXTENDS Integers, Sequences, FiniteSets

(* The place of a row: 1 if none comes before it. *)
Place(rows, before, r) == Cardinality({q \in rows : <<q, r>> \in before}) + 1

(* ORDER BY *)
InOrder(rows, before) ==
  [n \in 1..Cardinality(rows) |-> CHOOSE r \in rows : Place(rows, before, r) = n]

(* OFFSET and LIMIT *)
Slice(rows, offset, limit) ==
  SubSeq(rows, offset + 1, IF offset + limit < Len(rows) THEN offset + limit ELSE Len(rows))
=============================================================================
