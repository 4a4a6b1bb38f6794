----------------------------- MODULE Levenshtein -----------------------------
(***************************************************************************)
(* The edit distance by which the category service forgives misspelt       *)
(* names: the table the service fills, and what the distance is by         *)
(* definition.  A word is a sequence of letters.                           *)
(***************************************************************************)
EXTENDS Integers, Sequences, FiniteSets

Least(S) == CHOOSE n \in S : \A m \in S : n <= m

(* What it costs to take one letter for another. *)
cost(a, b) == IF a = b THEN 0 ELSE 1

calculateMinValue(a, b, c) ==
  IF a < b THEN IF a < c THEN a ELSE c
           ELSE IF b < c THEN b ELSE c

FirstRow(t) == [j \in 1..(Len(t) + 1) |-> j - 1]

(* Mutant: no letter of s is left out. *)
NextRowInserting(above, a, t) ==
  LET upto[j \in 0..Len(t)] ==
        IF j = 0 THEN <<above[1] + 1>>
        ELSE LET row == upto[j - 1]
                 left == row[Len(row)]
             IN Append(row, IF left < above[j] THEN left + 1 ELSE above[j] + cost(a, t[j]))
  IN upto[Len(above) - 1]

(* fillMatrix, row by row: the entries j + 1 are the distances of the first *)
(* letters of s, of which a is the last, from the first j of t.             *)
NextRow(above, a, t) ==
  LET upto[j \in 0..Len(t)] ==
        IF j = 0 THEN <<above[1] + 1>>
        ELSE LET row == upto[j - 1] IN
             Append(row, calculateMinValue(above[j + 1] + 1, row[Len(row)] + 1,
                                           above[j] + cost(a, t[j])))
  IN upto[Len(above) - 1]

Matrix(s, t) ==
  LET rows[i \in 0..Len(s)] ==
        IF i = 0 THEN FirstRow(t) ELSE NextRow(rows[i - 1], s[i], t)
  IN rows

levenshteinDistance(s, t) ==
  IF s = t THEN 0
  ELSE IF s = <<>> THEN Len(t)
  ELSE IF t = <<>> THEN Len(s)
  ELSE Matrix(s, t)[Len(s)][Len(t) + 1]

-----------------------------------------------------------------------------
(* The ways to pair letters of the first i of one word with letters of the *)
(* first j of another, in order.                                           *)
Pairings(i, j) ==
  {P \in SUBSET ((1..i) \X (1..j)) : \A p, q \in P : p[1] < q[1] <=> p[2] < q[2]}

(* What turning the first i letters of s into the first j of t costs: the *)
(* letters left over and those paired with another letter.                *)
Changes(s, t, i, j, P) ==
  i + j - 2 * Cardinality(P) + Cardinality({p \in P : s[p[1]] # t[p[2]]})

(* The least cost of turning s into t, by definition. *)
EditDistance(s, t) ==
  Least({Changes(s, t, Len(s), Len(t), P) : P \in Pairings(Len(s), Len(t))})
=============================================================================
