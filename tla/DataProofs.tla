------------------------------- MODULE DataProofs -------------------------------
(***************************************************************************)
(* Facts about data that need induction: the rows a query returns in their *)
(* order, sums over finite sets, functions defined step by step, and edit  *)
(* distances.                                                              *)
(*                                                                         *)
(* The induction theorems of the library take an operator; SetInduction    *)
(* says the same of a set, and is derived from the well-foundedness of     *)
(* strict inclusion.                                                       *)
(***************************************************************************)
EXTENDS Rows, Levenshtein, FiniteSetTheorems, TLAPS

-----------------------------------------------------------------------------
(* Orders. *)

(* A strict total order. *)
IsOrder(rows, before) ==
  /\ \A r \in rows : <<r, r>> \notin before
  /\ \A p, q, r \in rows : <<p, q>> \in before /\ <<q, r>> \in before => <<p, r>> \in before
  /\ \A q, r \in rows : q = r \/ <<q, r>> \in before \/ <<r, q>> \in before

(* No row is beyond the last place ... *)
LEMMA PlaceType ==
  ASSUME NEW rows, IsFiniteSet(rows), NEW before, IsOrder(rows, before)
  PROVE  \A r \in rows : Place(rows, before, r) \in 1..Cardinality(rows)
<1> SUFFICES ASSUME NEW r \in rows PROVE Place(rows, before, r) \in 1..Cardinality(rows)
  OBVIOUS
<1> DEFINE S == {q \in rows : <<q, r>> \in before}
<1>1. S \subseteq rows /\ r \notin S
  BY DEF IsOrder
<1>2. IsFiniteSet(S) /\ Cardinality(S) <= Cardinality(rows) /\ Cardinality(rows) # Cardinality(S)
  BY <1>1, FS_Subset
<1>3. Cardinality(S) \in Nat /\ Cardinality(rows) \in Nat
  BY <1>2, FS_CardinalityType
<1> HIDE DEF S
<1>4. QED
  BY <1>2, <1>3 DEF Place, S

(* ... places are in the order of the rows ... *)
LEMMA PlaceOrder ==
  ASSUME NEW rows, IsFiniteSet(rows), NEW before, IsOrder(rows, before)
  PROVE  \A q, r \in rows :
           <<q, r>> \in before <=> Place(rows, before, q) < Place(rows, before, r)
<1> DEFINE S(r) == {q \in rows : <<q, r>> \in before}
<1>0. \A r \in rows : IsFiniteSet(S(r)) /\ Cardinality(S(r)) \in Nat
  BY FS_Subset, FS_CardinalityType
<1>1. ASSUME NEW q \in rows, NEW r \in rows, <<q, r>> \in before
      PROVE  Place(rows, before, q) < Place(rows, before, r)
  <2>1. S(q) \subseteq S(r) /\ q \in S(r) /\ q \notin S(q)
    BY <1>1 DEF IsOrder
  <2>2. S(q) # S(r)
    BY <2>1
  <2>3. Cardinality(S(q)) <= Cardinality(S(r)) /\ Cardinality(S(r)) # Cardinality(S(q))
    <3> HIDE DEF S
    <3>1. QED
      BY <1>0, <2>1, <2>2, FS_Subset
  <2>4. QED
    BY <1>0, <2>3 DEF Place
<1>2. \A r \in rows : Place(rows, before, r) \in Nat
  BY <1>0 DEF Place
<1>3. ASSUME NEW q \in rows, NEW r \in rows, <<q, r>> \notin before
      PROVE  ~(Place(rows, before, q) < Place(rows, before, r))
  <2>1. q = r \/ <<r, q>> \in before
    BY <1>3 DEF IsOrder
  <2>2. QED
    BY <2>1, <1>1, <1>2
<1>4. QED
  BY <1>1, <1>3

(* ... no two rows have the same ... *)
LEMMA PlaceInjective ==
  ASSUME NEW rows, IsFiniteSet(rows), NEW before, IsOrder(rows, before)
  PROVE  \A q, r \in rows : Place(rows, before, q) = Place(rows, before, r) => q = r
BY PlaceOrder, PlaceType DEF IsOrder

(* ... and no place is empty, since there are as many places as rows. *)
LEMMA PlacesFilled ==
  ASSUME NEW rows, IsFiniteSet(rows), NEW before, IsOrder(rows, before)
  PROVE  \A n \in 1..Cardinality(rows) : \E r \in rows : Place(rows, before, r) = n
<1> DEFINE N == 1..Cardinality(rows)
           f == [r \in rows |-> Place(rows, before, r)]
<1>1. Cardinality(rows) \in Nat
  BY FS_CardinalityType
<1>2. IsFiniteSet(N) /\ Cardinality(N) = Cardinality(rows)
  BY <1>1, FS_Interval
<1>3. f \in Injection(rows, N)
  BY PlaceType, PlaceInjective DEF Injection, IsInjective
<1>4. f \in Surjection(rows, N)
  <2> HIDE DEF f, N
  <2>1. QED
    BY <1>2, <1>3, FS_Injection
<1>5. QED
  BY <1>4 DEF Surjection

(* The sequence of the rows has each of them at its place. *)
LEMMA InOrderIs ==
  ASSUME NEW rows, IsFiniteSet(rows), NEW before, IsOrder(rows, before)
  PROVE  /\ Cardinality(rows) \in Nat
         /\ InOrder(rows, before) \in [1..Cardinality(rows) -> rows]
         /\ InOrder(rows, before) \in Seq(rows)
         /\ Len(InOrder(rows, before)) = Cardinality(rows)
         /\ \A n \in 1..Cardinality(rows) : Place(rows, before, InOrder(rows, before)[n]) = n
         /\ \A r \in rows : InOrder(rows, before)[Place(rows, before, r)] = r
<1>1. Cardinality(rows) \in Nat
  BY FS_CardinalityType
<1>2. \A n \in 1..Cardinality(rows) :
        /\ InOrder(rows, before)[n] \in rows
        /\ Place(rows, before, InOrder(rows, before)[n]) = n
  BY PlacesFilled DEF InOrder
<1>3. InOrder(rows, before) \in [1..Cardinality(rows) -> rows]
  BY <1>2 DEF InOrder
<1>4. InOrder(rows, before) \in Seq(rows) /\ Len(InOrder(rows, before)) = Cardinality(rows)
  BY <1>1, <1>3
<1>5. \A r \in rows : InOrder(rows, before)[Place(rows, before, r)] = r
  BY <1>2, PlaceType, PlaceInjective
<1>6. QED
  BY <1>1, <1>2, <1>3, <1>4, <1>5

(* A slice shows the rows whose places it covers, and if it comes back short *)
(* there are no rows beyond it.                                              *)
LEMMA SliceIs ==
  ASSUME NEW rows, IsFiniteSet(rows), NEW before, IsOrder(rows, before),
         NEW offset \in Nat, NEW limit \in Nat
  PROVE  LET slice == Slice(InOrder(rows, before), offset, limit) IN
         /\ Len(slice) \in Nat /\ DOMAIN slice = 1..Len(slice)
         /\ Len(slice) <= limit
         /\ \A i \in DOMAIN slice :
              /\ slice[i] \in rows
              /\ Place(rows, before, slice[i]) = offset + i
         /\ \A r \in rows : Place(rows, before, r) \in (offset + 1)..(offset + limit) =>
              /\ Place(rows, before, r) - offset \in DOMAIN slice
              /\ slice[Place(rows, before, r) - offset] = r
         /\ Len(slice) < limit => \A r \in rows : Place(rows, before, r) <= offset + limit
<1> DEFINE s == InOrder(rows, before)
           c == Cardinality(rows)
           last == IF offset + limit < Len(s) THEN offset + limit ELSE Len(s)
           size == IF offset < last THEN last - offset ELSE 0
           slice == Slice(s, offset, limit)
<1>1. /\ c \in Nat /\ s \in Seq(rows) /\ Len(s) = c
      /\ \A n \in 1..c : s[n] \in rows /\ Place(rows, before, s[n]) = n
      /\ \A r \in rows : Place(rows, before, r) \in 1..c /\ s[Place(rows, before, r)] = r
  BY InOrderIs, PlaceType
<1> HIDE DEF s, c
<1>2. slice = [i \in 1..size |-> s[offset + i]]
  <2>1. offset < last => slice = [i \in 1..size |-> s[offset + i]]
    BY <1>1 DEF Slice
  <2>2. ~(offset < last) => slice = <<>>
    BY <1>1 DEF Slice
  <2>3. ~(offset < last) => [i \in 1..size |-> s[offset + i]] = <<>>
    OBVIOUS
  <2> HIDE DEF slice, size, last
  <2>4. QED
    BY <2>1, <2>2, <2>3
<1>3. size \in Nat /\ Len(slice) = size /\ DOMAIN slice = 1..size
  BY <1>1, <1>2
<1>4. size <= limit /\ (size < limit => c <= offset + limit)
  BY <1>1
<1>5. \A i \in 1..size : slice[i] = s[offset + i] /\ offset + i \in 1..c
  BY <1>1, <1>2
<1> HIDE DEF slice, size, last
<1>6. \A r \in rows : Place(rows, before, r) \in (offset + 1)..(offset + limit) =>
        Place(rows, before, r) - offset \in 1..size
  BY <1>1 DEF size, last
<1>7. \A i \in DOMAIN slice : slice[i] \in rows /\ Place(rows, before, slice[i]) = offset + i
  BY <1>1, <1>3, <1>5
<1>8. \A r \in rows : Place(rows, before, r) \in (offset + 1)..(offset + limit) =>
        slice[Place(rows, before, r) - offset] = r
  <2> SUFFICES ASSUME NEW r \in rows, Place(rows, before, r) \in (offset + 1)..(offset + limit)
               PROVE  slice[Place(rows, before, r) - offset] = r
    OBVIOUS
  <2>1. offset + (Place(rows, before, r) - offset) = Place(rows, before, r)
    BY <1>1
  <2>2. QED
    BY <1>1, <1>5, <1>6, <2>1
<1>9. QED
  BY <1>1, <1>3, <1>4, <1>6, <1>7, <1>8 DEF slice, s

-----------------------------------------------------------------------------
(* Sums. *)

(* Induction over the subsets of a finite set.  The claim is a set of sets. *)
LEMMA SetInduction ==
  ASSUME NEW S, IsFiniteSet(S), NEW G,
         \A T \in SUBSET S : (\A U \in SUBSET T : U # T => U \in G) => T \in G
  PROVE  S \in G
<1> DEFINE Bad == (SUBSET S) \ G
           R == StrictSubsetOrdering(S)
<1>1. SUFFICES ASSUME S \notin G PROVE FALSE
  OBVIOUS
<1>2. IsWellFoundedOn(R, SUBSET S)
  BY FS_StrictSubsetOrderingWellFounded, FS_FiniteSubsetsOfFinite
<1>3. PICK T \in Bad : \A U \in Bad : ~(<<U, T>> \in R)
  <2>1. Bad \subseteq SUBSET S /\ Bad # {}
    BY <1>1
  <2> HIDE DEF Bad, R
  <2>2. QED
    BY <1>2, <2>1, WFMin
<1>4. \A U \in SUBSET T : U # T => U \in G
  BY <1>3 DEF StrictSubsetOrdering
<1>5. QED
  BY <1>3, <1>4

(* The function by which the sum over a set is defined. *)
Chosen(s) == CHOOSE x \in s : TRUE
SumEq(g, f, S) ==
  g = [s \in SUBSET S |->
         IF s = {} THEN 0 ELSE f[Chosen(s)] + g[s \ {Chosen(s)}]]
SumBy(f, S) == CHOOSE g : SumEq(g, f, S)

LEMMA SumIsChosen ==
  ASSUME NEW f, NEW S
  PROVE SumFunctionOnSet(f, S) = SumBy(f, S)[S]
BY DEF SumFunctionOnSet, FoldFunctionOnSet, MapThenFoldSet, SumEq, Chosen, SumBy

LEMMA ChosenIn == \A s : s # {} => Chosen(s) \in s
BY DEF Chosen

(* There is at most one such function ... *)
LEMMA SumUnique ==
  ASSUME NEW f, NEW S, IsFiniteSet(S), NEW g, NEW h, SumEq(g, f, S), SumEq(h, f, S)
  PROVE  g = h
<1> DEFINE G == {T \in SUBSET S : g[T] = h[T]}
<1>1. ASSUME NEW T \in SUBSET S, \A U \in SUBSET T : U # T => U \in G
      PROVE  T \in G
  <2>1. CASE T = {}
    BY <2>1 DEF SumEq
  <2>2. CASE T # {}
    <3>1. Chosen(T) \in T
      BY <2>2, ChosenIn
    <3>2. g[T \ {Chosen(T)}] = h[T \ {Chosen(T)}]
      BY <1>1, <3>1
    <3>3. QED
      BY <2>2, <3>2 DEF SumEq
  <2>3. QED
    BY <2>1, <2>2
<1>2. ASSUME NEW T \in SUBSET S PROVE g[T] = h[T]
  <2>1. IsFiniteSet(T)
    BY FS_Subset
  <2>2. \A U \in SUBSET T : (\A V \in SUBSET U : V # U => V \in G) => U \in G
    BY <1>1
  <2> HIDE DEF G
  <2>3. T \in G
    BY <2>1, <2>2, SetInduction
  <2>4. QED
    BY <2>3 DEF G
<1>3. QED
  BY <1>2 DEF SumEq

(* ... of a subset it is the restriction ... *)
LEMMA SumRestrict ==
  ASSUME NEW f, NEW S, NEW T \in SUBSET S, NEW g, SumEq(g, f, S)
  PROVE  SumEq([s \in SUBSET T |-> g[s]], f, T)
<1> DEFINE h == [s \in SUBSET T |-> g[s]]
<1>1. ASSUME NEW s \in SUBSET T
      PROVE  g[s] = IF s = {} THEN 0 ELSE f[Chosen(s)] + h[s \ {Chosen(s)}]
  <2>1. g[s] = IF s = {} THEN 0 ELSE f[Chosen(s)] + g[s \ {Chosen(s)}]
    BY DEF SumEq
  <2>2. QED
    BY <2>1
<1>2. QED
  BY <1>1 DEF SumEq

(* ... and there is one. *)
LEMMA SumExists ==
  ASSUME NEW f, NEW S, IsFiniteSet(S)
  PROVE  SumEq(SumBy(f, S), f, S)
<1> DEFINE G == {T \in SUBSET S : SumEq(SumBy(f, T), f, T)}
<1>1. ASSUME NEW T \in SUBSET S, \A U \in SUBSET T : U # T => U \in G
      PROVE  T \in G
  <2> DEFINE g == [s \in SUBSET T |-> IF s = {} THEN 0
                     ELSE f[Chosen(s)] + SumBy(f, s \ {Chosen(s)})[s \ {Chosen(s)}]]
  <2>1. ASSUME NEW s \in SUBSET T, s # T
        PROVE  g[s] = SumBy(f, s)[s]
    <3>1. SumEq(SumBy(f, s), f, s)
      BY <1>1, <2>1
    <3>2. CASE s = {}
      BY <3>1, <3>2 DEF SumEq
    <3>3. CASE s # {}
      <4> DEFINE u == s \ {Chosen(s)}
      <4>1. Chosen(s) \in s /\ u \in SUBSET T /\ u # T /\ u \in SUBSET s
        BY <3>3, ChosenIn
      <4>2. SumEq(SumBy(f, u), f, u) /\ IsFiniteSet(u)
        BY <1>1, <4>1, FS_Subset
      <4>3. SumEq([v \in SUBSET u |-> SumBy(f, s)[v]], f, u)
        BY <3>1, <4>1, SumRestrict
      <4>4. SumBy(f, u) = [v \in SUBSET u |-> SumBy(f, s)[v]]
        BY <4>2, <4>3, SumUnique
      <4>5. SumBy(f, s)[s] = f[Chosen(s)] + SumBy(f, s)[u]
        BY <3>1, <3>3 DEF SumEq
      <4>6. QED
        BY <3>3, <4>4, <4>5
    <3>4. QED
      BY <3>2, <3>3
  <2>2. SumEq(g, f, T)
    <3>1. ASSUME NEW s \in SUBSET T, s # {}
          PROVE  g[s \ {Chosen(s)}] = SumBy(f, s \ {Chosen(s)})[s \ {Chosen(s)}]
      <4>1. Chosen(s) \in s
        BY <3>1, ChosenIn
      <4> HIDE DEF g
      <4>2. QED
        BY <2>1, <3>1, <4>1
    <3>2. QED
      BY <3>1 DEF SumEq
  <2>3. QED
    BY <2>2 DEF SumBy
<1>2. QED
  <2> HIDE DEF G
  <2>1. S \in G
    BY <1>1, SetInduction
  <2>2. QED
    BY <2>1 DEF G

(* So a sum is what its definition says.  Facts about sums: *)
LEMMA SumStep ==
  ASSUME NEW f, NEW S, IsFiniteSet(S)
  PROVE  SumFunctionOnSet(f, S) =
           IF S = {} THEN 0
           ELSE f[Chosen(S)] + SumFunctionOnSet(f, S \ {Chosen(S)})
<1> DEFINE u == S \ {Chosen(S)}
<1>1. SumEq(SumBy(f, S), f, S)
  BY SumExists
<1>2. IsFiniteSet(u)
  BY FS_Subset
<1>3. SumEq(SumBy(f, u), f, u)
  BY <1>2, SumExists
<1>4. SumEq([v \in SUBSET u |-> SumBy(f, S)[v]], f, u)
  BY <1>1, SumRestrict
<1>5. SumBy(f, u)[u] = SumBy(f, S)[u]
  <2>1. SumBy(f, u) = [v \in SUBSET u |-> SumBy(f, S)[v]]
    BY <1>2, <1>3, <1>4, SumUnique
  <2>2. QED
    BY <2>1
<1>6. QED
  BY <1>1, <1>5, SumIsChosen DEF SumEq

LEMMA SumOfEmpty == \A f : SumFunctionOnSet(f, {}) = 0
BY SumStep, FS_EmptySet

LEMMA SumType ==
  ASSUME NEW f, NEW S, IsFiniteSet(S), \A x \in S : f[x] \in Int
  PROVE  SumFunctionOnSet(f, S) \in Int
<1> DEFINE G == {T \in SUBSET S : SumFunctionOnSet(f, T) \in Int}
<1>1. ASSUME NEW T \in SUBSET S, \A U \in SUBSET T : U # T => U \in G
      PROVE  T \in G
  <2>1. IsFiniteSet(T)
    BY FS_Subset
  <2>2. CASE T = {}
    BY <2>2, SumOfEmpty
  <2>3. CASE T # {}
    <3>1. Chosen(T) \in T
      BY <2>3, ChosenIn
    <3>2. SumFunctionOnSet(f, T \ {Chosen(T)}) \in Int
      BY <1>1, <3>1
    <3>3. SumFunctionOnSet(f, T) = f[Chosen(T)] + SumFunctionOnSet(f, T \ {Chosen(T)})
      BY <2>1, <2>3, SumStep
    <3>4. QED
      BY <3>1, <3>2, <3>3
  <2>4. QED
    BY <2>2, <2>3
<1>2. QED
  <2> HIDE DEF G
  <2>1. S \in G
    BY <1>1, SetInduction
  <2>2. QED
    BY <2>1 DEF G

(* Any term can be taken out first. *)
LEMMA SumOut ==
  ASSUME NEW f, NEW S, IsFiniteSet(S), \A x \in S : f[x] \in Int
  PROVE  \A x \in S : SumFunctionOnSet(f, S) = f[x] + SumFunctionOnSet(f, S \ {x})
<1> DEFINE Out(T) == \A x \in T : SumFunctionOnSet(f, T) = f[x] + SumFunctionOnSet(f, T \ {x})
           G == {T \in SUBSET S : Out(T)}
<1>1. ASSUME NEW T \in SUBSET S, \A U \in SUBSET T : U # T => U \in G, NEW x \in T
      PROVE  SumFunctionOnSet(f, T) = f[x] + SumFunctionOnSet(f, T \ {x})
  <2> DEFINE c == Chosen(T)  u == T \ {c}  v == T \ {x}  w == u \ {x}
  <2>1. c \in T
    BY ChosenIn
  <2>2. SumFunctionOnSet(f, T) = f[c] + SumFunctionOnSet(f, u)
    BY SumStep, FS_Subset
  <2>3. CASE c = x
    BY <2>2, <2>3
  <2>4. CASE c # x
    <3>1. u \in G /\ v \in G /\ x \in u /\ c \in v /\ w = v \ {c}
      BY <1>1, <2>1, <2>4
    <3>2. SumFunctionOnSet(f, u) = f[x] + SumFunctionOnSet(f, w)
      BY <3>1
    <3>3. SumFunctionOnSet(f, v) = f[c] + SumFunctionOnSet(f, w)
      BY <3>1
    <3>4. SumFunctionOnSet(f, w) \in Int
      <4>1. IsFiniteSet(w) /\ w \subseteq S
        BY FS_Subset
      <4>2. QED
        BY <4>1, SumType
    <3>5. f[x] \in Int /\ f[c] \in Int
      BY <2>1
    <3> HIDE DEF c, u, v, w
    <3>6. QED
      BY <2>2, <3>2, <3>3, <3>4, <3>5 DEF v
  <2>5. QED
    BY <2>3, <2>4
<1>2. QED
  <2>1. \A T \in SUBSET S : (\A U \in SUBSET T : U # T => U \in G) => T \in G
    BY <1>1
  <2> HIDE DEF G
  <2>2. S \in G
    BY <2>1, SetInduction
  <2>3. QED
    BY <2>2 DEF G

LEMMA SumAlike ==
  ASSUME NEW f, NEW g, NEW S, IsFiniteSet(S), \A x \in S : f[x] = g[x]
  PROVE  SumFunctionOnSet(f, S) = SumFunctionOnSet(g, S)
<1> DEFINE G == {T \in SUBSET S : SumFunctionOnSet(f, T) = SumFunctionOnSet(g, T)}
<1>1. ASSUME NEW T \in SUBSET S, \A U \in SUBSET T : U # T => U \in G
      PROVE  T \in G
  <2>1. IsFiniteSet(T)
    BY FS_Subset
  <2>2. CASE T = {}
    BY <2>1, <2>2, SumStep
  <2>3. CASE T # {}
    <3>1. Chosen(T) \in T
      BY <2>3, ChosenIn
    <3>2. SumFunctionOnSet(f, T \ {Chosen(T)}) = SumFunctionOnSet(g, T \ {Chosen(T)})
      BY <1>1, <3>1
    <3>3. QED
      BY <2>1, <2>3, <3>1, <3>2, SumStep
  <2>4. QED
    BY <2>2, <2>3
<1>2. QED
  <2> HIDE DEF G
  <2>1. S \in G
    BY <1>1, SetInduction
  <2>2. QED
    BY <2>1 DEF G

(* A sum does not depend on what its terms are named after. *)
LEMMA SumRenamed ==
  ASSUME NEW S, IsFiniteSet(S), NEW T, NEW f, NEW g, NEW b \in Bijection(S, T),
         \A x \in S : f[x] \in Int /\ g[b[x]] = f[x]
  PROVE  SumFunctionOnSet(f, S) = SumFunctionOnSet(g, T)
<1> DEFINE Image(U) == {b[x] : x \in U}
           G == {U \in SUBSET S : SumFunctionOnSet(f, U) = SumFunctionOnSet(g, Image(U))}
<1>1. ASSUME NEW U \in SUBSET S, \A V \in SUBSET U : V # U => V \in G
      PROVE  U \in G
  <2>1. CASE U = {}
    <3>1. Image(U) = {}
      BY <2>1
    <3>2. QED
      BY <2>1, <3>1, SumOfEmpty
  <2>2. CASE U # {}
    <3>1. PICK x \in U : TRUE
      BY <2>2
    <3> DEFINE V == U \ {x}
    <3>2. V \in G
      BY <1>1, <3>1
    <3>3. b \in [S -> T] /\ (\A y, z \in S : b[y] = b[z] => y = z)
      BY DEF Bijection, Injection, IsInjective
    <3>4. Image(V) = Image(U) \ {b[x]}
      BY <3>1, <3>3
    <3>5. IsFiniteSet(U) /\ IsFiniteSet(Image(U))
      <4>1. IsFiniteSet(U)
        BY FS_Subset
      <4>2. [y \in U |-> b[y]] \in Bijection(U, Image(U))
        BY <3>3 DEF Bijection, Injection, Surjection, IsInjective
      <4> HIDE DEF Image
      <4>3. QED
        BY <4>1, <4>2, FS_Bijection DEF ExistsBijection
    <3>6. \A y \in Image(U) : g[y] \in Int
      <4>1. ASSUME NEW y \in Image(U)
            PROVE  g[y] \in Int
        <5>1. PICK z \in U : y = b[z]
          OBVIOUS
        <5>2. z \in S
          OBVIOUS
        <5>3. QED
          BY <5>1, <5>2
      <4>2. QED
        BY <4>1
    <3>7. SumFunctionOnSet(f, U) = f[x] + SumFunctionOnSet(f, V)
      BY <3>1, <3>5, SumOut
    <3>8. SumFunctionOnSet(g, Image(U)) = g[b[x]] + SumFunctionOnSet(g, Image(V))
      <4>1. b[x] \in Image(U)
        BY <3>1
      <4> DEFINE I == Image(U)  y == b[x]
      <4>2. /\ y \in I /\ IsFiniteSet(I) /\ Image(V) = I \ {y}
            /\ \A z \in I : g[z] \in Int
        BY <3>4, <3>5, <3>6, <4>1
      <4> HIDE DEF Image, I, y, G, V
      <4>3. SumFunctionOnSet(g, I) = g[y] + SumFunctionOnSet(g, I \ {y})
        BY <4>2, SumOut
      <4>4. QED
        BY <4>2, <4>3 DEF I, y
    <3>9. QED
      BY <3>1, <3>2, <3>7, <3>8
  <2>3. QED
    BY <2>1, <2>2
<1>2. Image(S) = T
  BY DEF Bijection, Surjection
<1>3. QED
  <2>1. \A U \in SUBSET S : (\A V \in SUBSET U : V # U => V \in G) => U \in G
    BY <1>1
  <2> HIDE DEF G
  <2>2. S \in G
    BY <2>1, SetInduction
  <2>3. SumFunctionOnSet(f, S) = SumFunctionOnSet(g, Image(S))
    BY <2>2 DEF G
  <2>4. QED
    BY <1>2, <2>3

(* A sum of what some rows add and the others take away. *)
LEMMA SumOfKinds ==
  ASSUME NEW S, IsFiniteSet(S), NEW C \in SUBSET S, NEW f, NEW g,
         \A x \in S : g[x] \in Int /\ f[x] = IF x \in C THEN g[x] ELSE -g[x]
  PROVE  SumFunctionOnSet(f, S)
           = SumFunctionOnSet(g, C) - SumFunctionOnSet(g, S \ C)
<1> DEFINE G == {T \in SUBSET S : SumFunctionOnSet(f, T)
                   = SumFunctionOnSet(g, T \cap C) - SumFunctionOnSet(g, T \ C)}
<1>1. ASSUME NEW T \in SUBSET S, \A U \in SUBSET T : U # T => U \in G
      PROVE  T \in G
  <2>1. CASE T = {}
    <3>1. T \cap C = {} /\ T \ C = {}
      BY <2>1
    <3>2. QED
      BY <2>1, <3>1, SumOfEmpty
  <2>2. CASE T # {}
    <3>1. PICK x : x \in T
      BY <2>2
    <3> DEFINE U == T \ {x}
               all == SumFunctionOnSet(f, T)  rest == SumFunctionOnSet(f, U)
               in == SumFunctionOnSet(g, T \cap C)  inU == SumFunctionOnSet(g, U \cap C)
               out == SumFunctionOnSet(g, T \ C)  outU == SumFunctionOnSet(g, U \ C)
    <3>2. IsFiniteSet(T)
      BY FS_Subset
    <3>3. IsFiniteSet(T \cap C) /\ IsFiniteSet(T \ C) /\ IsFiniteSet(U \cap C)
            /\ IsFiniteSet(U \ C) /\ IsFiniteSet(U)
      BY <3>2, FS_Subset
    <3>4. \A y \in T : f[y] \in Int /\ g[y] \in Int
      OBVIOUS
    <3>5. rest = inU - outU
      BY <1>1, <3>1
    <3>6. all = f[x] + rest
      BY <3>1, <3>2, <3>4, SumOut
    <3>7. inU \in Int /\ outU \in Int /\ rest \in Int /\ g[x] \in Int
      BY <3>1, <3>3, <3>4, SumType
    <3>8. CASE x \in C
      <4>1. T \ C = U \ C /\ (T \cap C) \ {x} = U \cap C /\ x \in T \cap C
        BY <3>1, <3>8
      <4>2. SumFunctionOnSet(g, T \cap C) = g[x] + SumFunctionOnSet(g, (T \cap C) \ {x})
        BY <3>3, <3>4, <4>1, SumOut
      <4>3. in = g[x] + inU /\ out = outU
        BY <4>1, <4>2, Zenon
      <4>4. f[x] = g[x]
        BY <3>1, <3>8
      <4>5. all = in - out
        <5> HIDE DEF all, rest, in, inU, out, outU
        <5>1. QED
          BY <3>5, <3>6, <3>7, <4>3, <4>4
      <4>6. QED
        BY <4>5
    <3>9. CASE x \notin C
      <4>1. T \cap C = U \cap C /\ (T \ C) \ {x} = U \ C /\ x \in T \ C
        BY <3>1, <3>9
      <4>2. SumFunctionOnSet(g, T \ C) = g[x] + SumFunctionOnSet(g, (T \ C) \ {x})
        BY <3>3, <3>4, <4>1, SumOut
      <4>3. out = g[x] + outU /\ in = inU
        BY <4>1, <4>2, Zenon
      <4>4. f[x] = -g[x]
        BY <3>1, <3>9
      <4>5. all = in - out
        <5> HIDE DEF all, rest, in, inU, out, outU
        <5>1. QED
          BY <3>5, <3>6, <3>7, <4>3, <4>4
      <4>6. QED
        BY <4>5
    <3>10. QED
      BY <3>8, <3>9
  <2>3. QED
    BY <2>1, <2>2
<1>2. S \in G
  <2> HIDE DEF G
  <2>1. QED
    BY <1>1, SetInduction
<1>3. S \cap C = C
  OBVIOUS
<1>4. QED
  BY <1>2, <1>3

-----------------------------------------------------------------------------
(* Sequences that are built step by step. *)

(* A finite set of numbers has a least one ... *)
LEMMA HasLeast ==
  ASSUME NEW S, IsFiniteSet(S), S # {}, S \subseteq Int
  PROVE  \E x \in S : \A y \in S : x <= y
<1> DEFINE Lowest(T) == \E x \in T : \A y \in T : x <= y
           G == {T \in SUBSET S : T # {} => Lowest(T)}
<1>1. ASSUME NEW T \in SUBSET S, \A U \in SUBSET T : U # T => U \in G
      PROVE  T \in G
  <2>1. CASE T # {}
    <3>1. PICK x : x \in T
      BY <2>1
    <3>2. CASE T \ {x} = {}
      <4>1. \A y \in T : x <= y
        BY <3>1, <3>2
      <4>2. QED
        BY <3>1, <4>1
    <3>3. CASE T \ {x} # {}
      <4>1. Lowest(T \ {x})
        BY <1>1, <3>1, <3>3
      <4>2. PICK z \in T \ {x} : \A y \in T \ {x} : z <= y
        BY <4>1
      <4>3. CASE x <= z
        <5>1. \A y \in T : x <= y
          BY <3>1, <4>2, <4>3
        <5>2. QED
          BY <3>1, <5>1
      <4>4. CASE ~(x <= z)
        <5>1. \A y \in T : z <= y
          BY <3>1, <4>2, <4>4
        <5>2. QED
          BY <4>2, <5>1
      <4>5. QED
        BY <4>3, <4>4
    <3>4. QED
      BY <3>2, <3>3
  <2>2. QED
    BY <2>1
<1>2. S \in G
  <2> HIDE DEF G
  <2>1. QED
    BY <1>1, SetInduction
<1>3. QED
  BY <1>2

(* ... so what holds of m, and of the next number with each, holds up to n. *)
LEMMA StepByStep ==
  ASSUME NEW m \in Int, NEW n \in Int, NEW G, m <= n => m \in G,
         \A i \in (m + 1)..n : i - 1 \in G => i \in G
  PROVE  \A i \in m..n : i \in G
<1> DEFINE Bad == (m..n) \ G
<1>1. SUFFICES ASSUME Bad # {} PROVE FALSE
  OBVIOUS
<1>2. IsFiniteSet(Bad)
  <2>1. IsFiniteSet(m..n)
    BY FS_Interval
  <2>2. QED
    BY <2>1, FS_Subset
<1>3. PICK i \in Bad : \A j \in Bad : i <= j
  <2>1. Bad \subseteq Int
    OBVIOUS
  <2> HIDE DEF Bad
  <2>2. QED
    BY <1>1, <1>2, <2>1, HasLeast
<1>4. i # m
  BY <1>3
<1>5. i \in (m + 1)..n /\ i - 1 \in m..n /\ i - 1 \notin Bad
  BY <1>3, <1>4
<1>6. QED
  BY <1>3, <1>5

(* A first value and the step from each value to the next make a sequence. *)
Follows(g, V, n, start, step) ==
  /\ g \in [0..n -> V]
  /\ g[0] = start
  /\ \A i \in 1..n : g[i] = step[<<i, g[i - 1]>>]

LEMMA StepsExist ==
  ASSUME NEW V, NEW n \in Nat, NEW start \in V, NEW step \in [(1..n) \X V -> V]
  PROVE  \E g : Follows(g, V, n, start, step)
<1> DEFINE Upto(k, g) == g[0] = start /\ \A i \in 1..k : g[i] = step[<<i, g[i - 1]>>]
           G == {k \in 0..n : \E g \in [0..n -> V] : Upto(k, g)}
<1>1. 0 \in G
  <2> DEFINE g == [i \in 0..n |-> start]
  <2>1. g \in [0..n -> V] /\ Upto(0, g)
    OBVIOUS
  <2> HIDE DEF g
  <2>2. QED
    BY <2>1
<1>2. ASSUME NEW k \in (0 + 1)..n, k - 1 \in G PROVE k \in G
  <2>1. PICK g \in [0..n -> V] : Upto(k - 1, g)
    BY <1>2
  <2> DEFINE v == step[<<k, g[k - 1]>>]
             h == [g EXCEPT ![k] = v]
  <2>2. v \in V
    OBVIOUS
  <2>3. h \in [0..n -> V] /\ h[k] = v /\ \A i \in 0..n : i # k => h[i] = g[i]
    BY <2>2
  <2> HIDE DEF h
  <2>4. Upto(k, h)
    <3>1. h[0] = start
      BY <2>1, <2>3
    <3>2. ASSUME NEW i \in 1..k PROVE h[i] = step[<<i, h[i - 1]>>]
      <4>1. h[i - 1] = g[i - 1]
        BY <2>3
      <4>2. CASE i = k
        BY <2>3, <4>1, <4>2
      <4>3. CASE i # k
        <5>1. i \in 1..(k - 1) /\ h[i] = g[i]
          BY <2>3, <4>3
        <5>2. QED
          BY <2>1, <4>1, <5>1
      <4>4. QED
        BY <4>2, <4>3
    <3>3. QED
      BY <3>1, <3>2
  <2>5. QED
    BY <2>3, <2>4
<1>3. n \in G
  <2>1. 0 <= n => 0 \in G
    BY <1>1
  <2> HIDE DEF G
  <2>2. \A i \in 0..n : i \in G
    BY <1>2, <2>1, StepByStep
  <2>3. QED
    BY <2>2
<1>4. PICK g \in [0..n -> V] : Upto(n, g)
  BY <1>3
<1>5. Follows(g, V, n, start, step)
  BY <1>4 DEF Follows
<1>6. QED
  BY <1>5

-----------------------------------------------------------------------------
(* The least of some numbers. *)

(* There is only one. *)
LEMMA LeastIs ==
  ASSUME NEW S, NEW n \in S, \A m \in S : n <= m, S \subseteq Int
  PROVE  Least(S) = n
<1> DEFINE l == Least(S)
<1>1. l \in S /\ \A m \in S : l <= m
  BY DEF Least
<1> HIDE DEF l
<1>2. l <= n /\ n <= l /\ l \in Int /\ n \in Int
  BY <1>1
<1>3. QED
  BY <1>2 DEF l

(* What the code takes for the least of three is the least of three. *)
LEMMA LeastOfThree ==
  ASSUME NEW a \in Nat, NEW b \in Nat, NEW c \in Nat
  PROVE  /\ calculateMinValue(a, b, c) \in Nat
         /\ calculateMinValue(a, b, c) \in {a, b, c}
         /\ calculateMinValue(a, b, c) <= a
         /\ calculateMinValue(a, b, c) <= b
         /\ calculateMinValue(a, b, c) <= c
  BY DEF calculateMinValue

-----------------------------------------------------------------------------
(* Distances, by definition. *)

(* v is the least cost of turning the first i letters of s into the first j of t. *)
IsDistance(s, t, i, j, v) ==
  /\ \E P \in Pairings(i, j) : Changes(s, t, i, j, P) = v
  /\ \A P \in Pairings(i, j) : v <= Changes(s, t, i, j, P)

(* A pairing, and the letters at i and j with it. *)
Paired(P, i, j) == P \cup {<<i, j>>}

(* There is only one distance. *)
LEMMA OneDistance ==
  ASSUME NEW s, NEW t, NEW i, NEW j, NEW v \in Int, NEW w \in Int,
         IsDistance(s, t, i, j, v), IsDistance(s, t, i, j, w)
  PROVE  v = w
<1>1. v <= w /\ w <= v
  BY DEF IsDistance
<1>2. QED
  BY <1>1

(* How many letters are paired, and paired with another letter. *)
LEMMA PairingIs ==
  ASSUME NEW s, NEW t, NEW i \in Nat, NEW j \in Nat, NEW P \in Pairings(i, j)
  PROVE  /\ IsFiniteSet(P) /\ Cardinality(P) \in Nat
         /\ IsFiniteSet({p \in P : s[p[1]] # t[p[2]]})
         /\ Cardinality({p \in P : s[p[1]] # t[p[2]]}) \in Nat
         /\ Changes(s, t, i, j, P) \in Int
<1>1. IsFiniteSet((1..i) \X (1..j))
  <2>1. IsFiniteSet(1..i) /\ IsFiniteSet(1..j)
    BY FS_Interval
  <2>2. QED
    BY <2>1, FS_Product
<1>2. P \subseteq (1..i) \X (1..j)
  BY DEF Pairings
<1>3. IsFiniteSet(P) /\ IsFiniteSet({p \in P : s[p[1]] # t[p[2]]})
  BY <1>1, <1>2, FS_Subset
<1> DEFINE Other == {p \in P : s[p[1]] # t[p[2]]}
<1> HIDE DEF Other
<1>4. Cardinality(P) \in Nat
  BY <1>3, FS_CardinalityType
<1>5. Cardinality(Other) \in Nat
  <2>1. IsFiniteSet(Other)
    BY <1>3 DEF Other
  <2>2. QED
    BY <2>1, FS_CardinalityType
<1>6. QED
  BY <1>3, <1>4, <1>5 DEF Changes, Other

OtherPairs(s, t, P) == {p \in P : s[p[1]] # t[p[2]]}

LEMMA PairingCounts ==
  ASSUME NEW s, NEW t, NEW i \in Nat, NEW j \in Nat, NEW P \in Pairings(i, j)
  PROVE  Cardinality(P) \in Nat /\ Cardinality(OtherPairs(s, t, P)) \in Nat
BY PairingIs DEF OtherPairs

(* Nothing can be paired with the letters of an empty word. *)
LEMMA NoPairs ==
  ASSUME NEW s, NEW t, NEW i \in Nat, NEW j \in Nat, i = 0 \/ j = 0
  PROVE  IsDistance(s, t, i, j, i + j)
<1>1. (1..i) \X (1..j) = {}
  OBVIOUS
<1>2. Pairings(i, j) = {{}}
  BY <1>1 DEF Pairings
<1>3. {p \in {} : s[p[1]] # t[p[2]]} = {} /\ Cardinality({}) = 0
  BY FS_EmptySet
<1>4. Changes(s, t, i, j, {}) = i + j
  BY <1>3 DEF Changes
<1>5. QED
  BY <1>2, <1>4 DEF IsDistance

(* Another letter of either word, left over. *)
LEMMA LeftOver ==
  ASSUME NEW s, NEW t, NEW i \in Nat, NEW j \in Nat, NEW P \in Pairings(i, j)
  PROVE  /\ P \in Pairings(i + 1, j) /\ P \in Pairings(i, j + 1)
         /\ Changes(s, t, i + 1, j, P) = Changes(s, t, i, j, P) + 1
         /\ Changes(s, t, i, j + 1, P) = Changes(s, t, i, j, P) + 1
<1>1. (1..i) \X (1..j) \subseteq (1..(i + 1)) \X (1..j)
  OBVIOUS
<1>2. (1..i) \X (1..j) \subseteq (1..i) \X (1..(j + 1))
  OBVIOUS
<1>3. P \in Pairings(i + 1, j) /\ P \in Pairings(i, j + 1)
  BY <1>1, <1>2 DEF Pairings
<1> DEFINE other == Cardinality(OtherPairs(s, t, P))
<1>4. Cardinality(P) \in Nat /\ other \in Nat
  BY PairingCounts
<1>5. /\ Changes(s, t, i, j, P) = i + j - 2 * Cardinality(P) + other
      /\ Changes(s, t, i + 1, j, P) = (i + 1) + j - 2 * Cardinality(P) + other
      /\ Changes(s, t, i, j + 1, P) = i + (j + 1) - 2 * Cardinality(P) + other
  BY DEF Changes, OtherPairs
<1> HIDE DEF other
<1>6. QED
  BY <1>3, <1>4, <1>5

(* A pair of last letters costs one if they differ. *)
LEMMA LastPair ==
  ASSUME NEW s, NEW t, NEW i \in Nat, NEW j \in Nat, NEW P \in Pairings(i, j)
  PROVE  /\ Paired(P, i + 1, j + 1) \in Pairings(i + 1, j + 1)
         /\ Changes(s, t, i + 1, j + 1, Paired(P, i + 1, j + 1))
              = Changes(s, t, i, j, P) + cost(s[i + 1], t[j + 1])
<1> DEFINE last == <<i + 1, j + 1>>
           Q == P \cup {last}
           off(R) == {p \in R : s[p[1]] # t[p[2]]}
<1>1. P \subseteq (1..i) \X (1..j) /\ \A p, q \in P : p[1] < q[1] <=> p[2] < q[2]
  BY DEF Pairings
<1>2. Q \in Pairings(i + 1, j + 1)
  <2>1. \A p \in P : p \in (1..(i + 1)) \X (1..(j + 1)) /\ p[1] \in 1..i /\ p[2] \in 1..j
    BY <1>1
  <2>2. last \in (1..(i + 1)) \X (1..(j + 1)) /\ last[1] = i + 1 /\ last[2] = j + 1
    OBVIOUS
  <2> HIDE DEF last
  <2>3. Q \subseteq (1..(i + 1)) \X (1..(j + 1))
    BY <2>1, <2>2
  <2>4. ASSUME NEW p \in Q, NEW q \in Q PROVE p[1] < q[1] <=> p[2] < q[2]
    <3>1. CASE p \in P /\ q \in P
      BY <1>1, <3>1
    <3>2. CASE p \in P /\ q = last
      BY <2>1, <2>2, <3>2
    <3>3. CASE p = last /\ q \in P
      BY <2>1, <2>2, <3>3
    <3>4. CASE p = last /\ q = last
      BY <2>2, <3>4
    <3>5. QED
      BY <3>1, <3>2, <3>3, <3>4
  <2>5. QED
    BY <2>3, <2>4 DEF Pairings
<1>3. last \notin P
  BY <1>1
<1>4. /\ IsFiniteSet(P) /\ Cardinality(P) \in Nat
      /\ IsFiniteSet(off(P)) /\ Cardinality(off(P)) \in Nat
  <2>1. IsFiniteSet(P) /\ off(P) \subseteq P
    BY PairingIs
  <2> HIDE DEF off
  <2>2. QED
    BY <2>1, FS_Subset, FS_CardinalityType
<1>5. Cardinality(Q) = Cardinality(P) + 1
  <2> HIDE DEF last
  <2>1. QED
    BY <1>3, <1>4, FS_AddElement
<1>6. Cardinality(off(Q)) = Cardinality(off(P)) + cost(s[i + 1], t[j + 1])
  <2>1. last[1] = i + 1 /\ last[2] = j + 1
    OBVIOUS
  <2> HIDE DEF last
  <2>2. CASE s[i + 1] = t[j + 1]
    <3>1. off(Q) = off(P)
      BY <2>1, <2>2
    <3> HIDE DEF off, Q
    <3>2. QED
      BY <1>4, <2>2, <3>1 DEF cost
  <2>3. CASE s[i + 1] # t[j + 1]
    <3>1. off(Q) = off(P) \cup {last} /\ last \notin off(P)
      BY <1>3, <2>1, <2>3
    <3>2. Cardinality(off(P) \cup {last}) = Cardinality(off(P)) + 1
      <4> HIDE DEF off
      <4>1. QED
        BY <1>4, <3>1, FS_AddElement
    <3> HIDE DEF off, Q
    <3>3. QED
      BY <1>4, <2>3, <3>1, <3>2 DEF cost
  <2>4. QED
    BY <2>2, <2>3
<1>7. Changes(s, t, i + 1, j + 1, Q) = i + 1 + (j + 1) - 2 * Cardinality(Q) + Cardinality(off(Q))
  BY DEF Changes
<1>8. Changes(s, t, i, j, P) = i + j - 2 * Cardinality(P) + Cardinality(off(P))
  BY DEF Changes
<1> DEFINE d == cost(s[i + 1], t[j + 1])
<1>9. d \in Nat /\ Cardinality(off(Q)) = Cardinality(off(P)) + d
  BY <1>6 DEF cost
<1> HIDE DEF off, Q, last, d
<1>10. Changes(s, t, i + 1, j + 1, Q) = Changes(s, t, i, j, P) + d
  BY <1>4, <1>5, <1>7, <1>8, <1>9
<1>11. QED
  BY <1>2, <1>10 DEF Q, last, d, Paired

(* What can become of the last letters: one of them is left over, or they *)
(* are paired with each other.                                            *)
LEMMA LastLetters ==
  ASSUME NEW i \in Nat, NEW j \in Nat, NEW P \in Pairings(i + 1, j + 1)
  PROVE  \/ P \in Pairings(i, j + 1)
         \/ P \in Pairings(i + 1, j)
         \/ \E Q \in Pairings(i, j) : P = Paired(Q, i + 1, j + 1)
<1>1. P \subseteq (1..(i + 1)) \X (1..(j + 1)) /\ \A p, q \in P : p[1] < q[1] <=> p[2] < q[2]
  BY DEF Pairings
<1>2. \A p \in P : p[1] \in 1..(i + 1) /\ p[2] \in 1..(j + 1) /\ p = <<p[1], p[2]>>
  BY <1>1
<1>3. CASE \A p \in P : p[1] # i + 1
  <2>1. \A p \in P : p \in (1..i) \X (1..(j + 1))
    BY <1>2, <1>3
  <2>2. QED
    BY <1>1, <2>1 DEF Pairings
<1>4. CASE \A p \in P : p[2] # j + 1
  <2>1. \A p \in P : p \in (1..(i + 1)) \X (1..j)
    BY <1>2, <1>4
  <2>2. QED
    BY <1>1, <2>1 DEF Pairings
<1>5. ASSUME NEW p \in P, p[1] = i + 1, NEW q \in P, q[2] = j + 1
      PROVE  \E Q \in Pairings(i, j) : P = Paired(Q, i + 1, j + 1)
  <2>1. p[2] = j + 1
    <3>1. CASE q[1] < p[1]
      <4>1. q[2] < p[2]
        BY <1>1, <3>1
      <4>2. QED
        BY <1>2, <1>5, <4>1
    <3>2. CASE ~(q[1] < p[1])
      <4>1. q[1] = i + 1
        BY <1>2, <1>5, <3>2
      <4>2. ~(p[1] < q[1])
        BY <1>5, <4>1
      <4>3. ~(p[2] < q[2])
        BY <1>1, <4>2
      <4>4. QED
        BY <1>2, <1>5, <4>3
    <3>3. QED
      BY <3>1, <3>2
  <2>2. p = <<i + 1, j + 1>>
    BY <1>2, <1>5, <2>1
  <2> DEFINE Q == P \ {p}
  <2>3. ASSUME NEW r \in Q PROVE r \in (1..i) \X (1..j)
    <3>1. r \in P /\ r # p
      OBVIOUS
    <3>2. r[1] < p[1] <=> r[2] < p[2]
      BY <1>1, <3>1
    <3>3. r[1] \in 1..(i + 1) /\ r[2] \in 1..(j + 1) /\ r = <<r[1], r[2]>>
      BY <1>2, <3>1
    <3>4. ~(r[1] = i + 1 /\ r[2] = j + 1)
      BY <2>2, <3>1, <3>3
    <3>5. r[1] \in 1..i /\ r[2] \in 1..j
      BY <1>5, <2>1, <3>2, <3>3, <3>4
    <3>6. QED
      BY <3>3, <3>5
  <2>4. Q \in Pairings(i, j)
    BY <1>1, <2>3 DEF Pairings
  <2>5. P = Paired(Q, i + 1, j + 1)
    BY <2>2 DEF Paired
  <2> HIDE DEF Q
  <2>6. QED
    BY <2>4, <2>5
<1>6. QED
  BY <1>3, <1>4, <1>5

(* The recurrence of the table. *)
LEMMA DistanceStep ==
  ASSUME NEW s, NEW t, NEW i \in Nat, NEW j \in Nat,
         NEW a \in Nat, NEW b \in Nat, NEW c \in Nat,
         IsDistance(s, t, i, j + 1, a), IsDistance(s, t, i + 1, j, b), IsDistance(s, t, i, j, c)
  PROVE  IsDistance(s, t, i + 1, j + 1,
                    calculateMinValue(a + 1, b + 1, c + cost(s[i + 1], t[j + 1])))
<1> DEFINE d == cost(s[i + 1], t[j + 1])
           v == calculateMinValue(a + 1, b + 1, c + d)
           Best(k, l, w) == \E P \in Pairings(k, l) : Changes(s, t, k, l, P) = w
<1>1. d \in Nat
  BY DEF cost
<1>2. \A P \in Pairings(i, j) :
        /\ Paired(P, i + 1, j + 1) \in Pairings(i + 1, j + 1)
        /\ Changes(s, t, i + 1, j + 1, Paired(P, i + 1, j + 1)) = Changes(s, t, i, j, P) + d
  <2>1. ASSUME NEW P \in Pairings(i, j)
        PROVE  /\ Paired(P, i + 1, j + 1) \in Pairings(i + 1, j + 1)
               /\ Changes(s, t, i + 1, j + 1, Paired(P, i + 1, j + 1))
                    = Changes(s, t, i, j, P) + cost(s[i + 1], t[j + 1])
    BY <2>1, LastPair
  <2>2. QED
    BY <2>1, Zenon
<1> HIDE DEF d
<1>3. v \in {a + 1, b + 1, c + d} /\ v <= a + 1 /\ v <= b + 1 /\ v <= c + d
  <2>1. a + 1 \in Nat /\ b + 1 \in Nat /\ c + d \in Nat
    BY <1>1
  <2>2. QED
    BY <2>1, LeastOfThree
<1> HIDE DEF v
<1>4. Best(i + 1, j + 1, a + 1)
  <2>1. PICK P \in Pairings(i, j + 1) : Changes(s, t, i, j + 1, P) = a
    BY DEF IsDistance
  <2>2. P \in Pairings(i + 1, j + 1) /\ Changes(s, t, i + 1, j + 1, P) = a + 1
    BY <2>1, LeftOver
  <2>3. QED
    BY <2>2
<1>5. Best(i + 1, j + 1, b + 1)
  <2>1. PICK P \in Pairings(i + 1, j) : Changes(s, t, i + 1, j, P) = b
    BY DEF IsDistance
  <2>2. P \in Pairings(i + 1, j + 1) /\ Changes(s, t, i + 1, j + 1, P) = b + 1
    BY <2>1, LeftOver
  <2>3. QED
    BY <2>2
<1>6. Best(i + 1, j + 1, c + d)
  <2>1. PICK P \in Pairings(i, j) : Changes(s, t, i, j, P) = c
    BY DEF IsDistance
  <2>2. Paired(P, i + 1, j + 1) \in Pairings(i + 1, j + 1) /\ Changes(s, t, i + 1, j + 1, Paired(P, i + 1, j + 1)) = c + d
    BY <1>2, <2>1
  <2>3. QED
    BY <2>2
<1>7. ASSUME NEW P \in Pairings(i + 1, j + 1) PROVE v <= Changes(s, t, i + 1, j + 1, P)
  <2>1. CASE P \in Pairings(i, j + 1)
    <3>1. a <= Changes(s, t, i, j + 1, P) /\ Changes(s, t, i, j + 1, P) \in Int
      <4>1. j + 1 \in Nat
        OBVIOUS
      <4>2. QED
        BY <2>1, <4>1, PairingIs DEF IsDistance
    <3>2. Changes(s, t, i + 1, j + 1, P) = Changes(s, t, i, j + 1, P) + 1
      BY <2>1, LeftOver
    <3>3. QED
      BY <1>1, <1>3, <3>1, <3>2
  <2>2. CASE P \in Pairings(i + 1, j)
    <3>1. b <= Changes(s, t, i + 1, j, P) /\ Changes(s, t, i + 1, j, P) \in Int
      <4>1. i + 1 \in Nat
        OBVIOUS
      <4>2. QED
        BY <2>2, <4>1, PairingIs DEF IsDistance
    <3>2. Changes(s, t, i + 1, j + 1, P) = Changes(s, t, i + 1, j, P) + 1
      BY <2>2, LeftOver
    <3>3. QED
      BY <1>1, <1>3, <3>1, <3>2
  <2>3. CASE \E Q \in Pairings(i, j) : P = Paired(Q, i + 1, j + 1)
    <3>1. PICK Q \in Pairings(i, j) : P = Paired(Q, i + 1, j + 1)
      BY <2>3
    <3>2. c <= Changes(s, t, i, j, Q) /\ Changes(s, t, i, j, Q) \in Int
      BY PairingIs DEF IsDistance
    <3>3. Changes(s, t, i + 1, j + 1, P) = Changes(s, t, i, j, Q) + d
      BY <1>2, <3>1
    <3>4. QED
      BY <1>1, <1>3, <3>2, <3>3
  <2>4. QED
    BY <2>1, <2>2, <2>3, LastLetters
<1>8. Best(i + 1, j + 1, v)
  <2> HIDE DEF Best
  <2>1. QED
    BY <1>3, <1>4, <1>5, <1>6
<1>9. IsDistance(s, t, i + 1, j + 1, v)
  BY <1>7, <1>8 DEF IsDistance
<1>10. QED
  BY <1>9 DEF v, d

-----------------------------------------------------------------------------
(* The table. *)

(* The entries of a row of the table, given the row above. *)
RowFollows(above, a, t, row) ==
  /\ row \in Seq(Nat) /\ Len(row) = Len(t) + 1
  /\ row[1] = above[1] + 1
  /\ \A j \in 1..Len(t) :
       row[j + 1] = calculateMinValue(above[j + 1] + 1, row[j] + 1, above[j] + cost(a, t[j]))

(* An entry is a number. *)
LEMMA EntryIsNatural ==
  ASSUME NEW n \in Nat, NEW row \in Seq(Nat), Len(row) = n + 1, NEW j \in 0..n
  PROVE  row[j + 1] \in Nat
<1>1. j + 1 \in 1..Len(row)
  OBVIOUS
<1>2. QED
  BY <1>1

(* A row is computed from left to right. *)
LEMMA NextRowIs ==
  ASSUME NEW t, NEW n \in Nat, Len(t) = n, NEW a,
         NEW above \in Seq(Nat), Len(above) = n + 1
  PROVE  RowFollows(above, a, t, NextRow(above, a, t))
<1> DEFINE entry(j, row) == calculateMinValue(above[j + 1] + 1, row[Len(row)] + 1,
                                   above[j] + cost(a, t[j]))
           V == {row \in Seq(Nat) : Len(row) # 0}
           step == [p \in (1..n) \X V |-> Append(p[2], entry(p[1], p[2]))]
           start == <<above[1] + 1>>
           upto[j \in 0..Len(t)] ==
             IF j = 0 THEN <<above[1] + 1>>
             ELSE LET row == upto[j - 1] IN
                  Append(row, calculateMinValue(above[j + 1] + 1, row[Len(row)] + 1,
                                     above[j] + cost(a, t[j])))
<1>1. \A j \in 1..(n + 1) : above[j] \in Nat
  OBVIOUS
<1>2. start \in V /\ Len(start) = 1 /\ start[1] = above[1] + 1
  BY <1>1
<1>3. ASSUME NEW j \in 1..n, NEW row \in V
      PROVE  entry(j, row) \in Nat /\ Append(row, entry(j, row)) \in V
  <2>1. row \in Seq(Nat) /\ row[Len(row)] \in Nat
    OBVIOUS
  <2>2. above[j + 1] \in Nat /\ above[j] \in Nat
    BY <1>1
  <2> DEFINE d == cost(a, t[j])
             x == above[j + 1] + 1
             y == row[Len(row)] + 1
             z == above[j] + d
  <2>3. d \in Nat
    BY DEF cost
  <2>4. entry(j, row) = calculateMinValue(x, y, z)
    OBVIOUS
  <2> HIDE DEF d, entry
  <2>5. x \in Nat /\ y \in Nat /\ z \in Nat
    <3> DEFINE p == above[j + 1]
               q == row[Len(row)]
               w == above[j]
    <3>1. p \in Nat /\ q \in Nat /\ w \in Nat
      BY <2>1, <2>2
    <3> HIDE DEF p, q, w, V, step, start, upto
    <3>2. p + 1 \in Nat /\ q + 1 \in Nat /\ w + d \in Nat
      BY <2>3, <3>1
    <3>3. QED
      BY <3>2 DEF p, q, w
  <2> HIDE DEF x, y, z
  <2>6. calculateMinValue(x, y, z) \in {x, y, z}
    BY <2>5, LeastOfThree
  <2>7. entry(j, row) \in Nat
    BY <2>4, <2>5, <2>6
  <2> DEFINE f == entry(j, row)
  <2> HIDE DEF f
  <2>8. f \in Nat => Append(row, f) \in V
    <3> DEFINE longer == Append(row, f)
    <3>1. f \in Nat => longer \in Seq(Nat) /\ Len(longer) = Len(row) + 1 /\ Len(row) \in Nat
      BY <2>1
    <3> HIDE DEF longer
    <3>2. f \in Nat => longer \in V
      BY <3>1
    <3>3. QED
      BY <3>2 DEF longer
  <2>9. QED
    BY <2>7, <2>8 DEF f
<1>4. step \in [(1..n) \X V -> V]
  <2> HIDE DEF entry, V
  <2>1. QED
    BY <1>3
<1>5. PICK g : Follows(g, V, n, start, step)
  <2> HIDE DEF step, V, start
  <2>1. QED
    BY <1>2, <1>4, StepsExist
<1>6. /\ g = [j \in 0..n |-> g[j]] /\ g[0] = start
      /\ \A j \in 0..n : g[j] \in V
      /\ \A j \in 1..n : g[j] = step[<<j, g[j - 1]>>]
  <2> HIDE DEF step, V, start
  <2>1. QED
    BY <1>5 DEF Follows
<1>7. ASSUME NEW j \in 1..n PROVE g[j - 1] \in V /\ g[j] = Append(g[j - 1], entry(j, g[j - 1]))
  <2> HIDE DEF entry, V
  <2>1. g[j - 1] \in V
    BY <1>6
  <2>2. <<j, g[j - 1]>> \in (1..n) \X V
    BY <2>1
  <2>3. QED
    BY <1>6, <2>1, <2>2
<1>8. upto = [j \in 0..n |-> IF j = 0 THEN start ELSE Append(upto[j - 1], entry(j, upto[j - 1]))]
  <2>1. \A j \in 0..n : g[j] = IF j = 0 THEN start ELSE Append(g[j - 1], entry(j, g[j - 1]))
    <3> HIDE DEF entry, start, step, V
    <3>1. ASSUME NEW j \in 0..n
          PROVE  g[j] = IF j = 0 THEN start ELSE Append(g[j - 1], entry(j, g[j - 1]))
      <4>1. CASE j = 0
        BY <1>6, <4>1
      <4>2. CASE j # 0
        <5>1. j \in 1..n
          BY <4>2
        <5>2. QED
          BY <1>7, <4>2, <5>1
      <4>3. QED
        BY <4>1, <4>2
    <3>2. QED
      BY <3>1
  <2>2. g = [j \in 0..n |-> IF j = 0 THEN start ELSE Append(g[j - 1], entry(j, g[j - 1]))]
    <3> HIDE DEF entry, start, step, V
    <3>1. QED
      BY <1>6, <2>1, Zenon
  <2>3. QED
    BY <2>2, Zenon
<1>9. NextRow(above, a, t) = upto[n]
  <2>1. NextRow(above, a, t) = upto[Len(above) - 1]
    BY Zenon DEF NextRow
  <2>2. Len(above) - 1 = n
    BY <1>1
  <2>3. QED
    BY <2>1, <2>2
<1> HIDE DEF upto
<1>10. upto[0] = start /\ \A j \in 1..n : upto[j] = Append(upto[j - 1], entry(j, upto[j - 1]))
  <2> HIDE DEF entry, start
  <2>1. ASSUME NEW j \in 0..n
        PROVE  upto[j] = IF j = 0 THEN start ELSE Append(upto[j - 1], entry(j, upto[j - 1]))
    BY <1>8, Zenon
  <2>2. upto[0] = start
    BY <2>1
  <2>3. ASSUME NEW j \in 1..n PROVE upto[j] = Append(upto[j - 1], entry(j, upto[j - 1]))
    <3>1. j \in 0..n /\ j # 0
      OBVIOUS
    <3>2. QED
      BY <2>1, <3>1, Zenon
  <2>4. QED
    BY <2>2, <2>3
<1> DEFINE Good(row, k) ==
             /\ row \in Seq(Nat) /\ Len(row) = k + 1
             /\ row[1] = above[1] + 1
             /\ \A j \in 1..k :
                  row[j + 1] = calculateMinValue(above[j + 1] + 1, row[j] + 1,
                                      above[j] + cost(a, t[j]))
           G == {k \in 0..n : Good(upto[k], k)}
<1>11. 0 <= n => 0 \in G
  <2>1. upto[0] \in Seq(Nat) /\ Len(upto[0]) = 0 + 1 /\ upto[0][1] = above[1] + 1
    <3> HIDE DEF entry
    <3>1. QED
      BY <1>2, <1>10
  <2>2. Good(upto[0], 0)
    BY <2>1
  <2> HIDE DEF Good
  <2>3. QED
    BY <2>2
<1>12. ASSUME NEW k \in (0 + 1)..n, k - 1 \in G PROVE k \in G
  <2> DEFINE row == upto[k - 1]  e == entry(k, row)
  <2>1. k \in 1..n /\ Good(row, k - 1)
    <3> HIDE DEF Good
    <3>1. QED
      BY <1>12
  <2>2. row \in V /\ Len(row) = k
    BY <2>1
  <2>3. e \in Nat /\ upto[k] = Append(row, e)
    BY <1>3, <1>10, <2>1, <2>2, Zenon
  <2>4. e = calculateMinValue(above[k + 1] + 1, row[k] + 1, above[k] + cost(a, t[k]))
    BY <2>2
  <2> HIDE DEF row, e, entry, G
  <2>5. upto[k] \in Seq(Nat) /\ Len(upto[k]) = k + 1 /\ upto[k][k + 1] = e
    BY <2>2, <2>3
  <2>6. \A j \in 1..k : upto[k][j] = row[j]
    BY <2>2, <2>3
  <2>7. ASSUME NEW j \in 1..k
        PROVE  upto[k][j + 1] = calculateMinValue(above[j + 1] + 1, upto[k][j] + 1,
                                       above[j] + cost(a, t[j]))
    <3>1. CASE j = k
      <4>1. upto[k][j] = row[k] /\ upto[k][j + 1] = e
        BY <2>5, <2>6, <3>1
      <4>2. QED
        BY <2>4, <3>1, <4>1
    <3>2. CASE j # k
      <4>1. j \in 1..(k - 1) /\ j + 1 \in 1..k
        BY <2>1, <3>2
      <4>2. upto[k][j] = row[j] /\ upto[k][j + 1] = row[j + 1]
        BY <2>6, <4>1
      <4>3. QED
        BY <2>1, <4>1, <4>2, Zenon
    <3>3. QED
      BY <3>1, <3>2
  <2>8. upto[k][1] = above[1] + 1
    BY <2>1, <2>6
  <2>9. Good(upto[k], k)
    BY <2>5, <2>7, <2>8
  <2> HIDE DEF Good
  <2>10. QED
    BY <2>1, <2>9 DEF G
<1>13. \A k \in 0..n : k \in G
  <2> HIDE DEF G
  <2>1. 0 \in Int /\ n \in Int
    OBVIOUS
  <2>2. QED
    BY <1>11, <1>12, <2>1, StepByStep
<1>14. Good(upto[n], n)
  <2> HIDE DEF Good
  <2>1. QED
    BY <1>13
<1>15. QED
  BY <1>9, <1>14 DEF RowFollows

(* The table is computed row by row. *)
LEMMA MatrixIs ==
  ASSUME NEW S, NEW s \in Seq(S), NEW t \in Seq(S)
  PROVE  /\ Matrix(s, t)[0] = FirstRow(t)
         /\ \A i \in 0..Len(s) : Matrix(s, t)[i] \in Seq(Nat) /\ Len(Matrix(s, t)[i]) = Len(t) + 1
         /\ \A i \in 1..Len(s) : Matrix(s, t)[i] = NextRow(Matrix(s, t)[i - 1], s[i], t)
<1> DEFINE n == Len(s)  m == Len(t)
           V == {row \in Seq(Nat) : Len(row) = m + 1}
           step == [p \in (1..n) \X V |-> NextRow(p[2], s[p[1]], t)]
           rows == Matrix(s, t)
<1>1. n \in Nat /\ m \in Nat
  OBVIOUS
<1>2. FirstRow(t) \in V
  <2>1. FirstRow(t) \in [1..(m + 1) -> Nat]
    BY DEF FirstRow
  <2>2. QED
    BY <1>1, <2>1
<1>3. ASSUME NEW i \in 1..n, NEW row \in V PROVE NextRow(row, s[i], t) \in V
  <2>1. RowFollows(row, s[i], t, NextRow(row, s[i], t))
    BY <1>1, <1>3, NextRowIs
  <2>2. QED
    BY <2>1 DEF RowFollows
<1> HIDE DEF V
<1>4. step \in [(1..n) \X V -> V]
  BY <1>3
<1>5. PICK g : Follows(g, V, n, FirstRow(t), step)
  <2> HIDE DEF step
  <2>1. QED
    BY <1>1, <1>2, <1>4, StepsExist
<1>6. /\ g = [i \in 0..n |-> g[i]] /\ g[0] = FirstRow(t)
      /\ \A i \in 0..n : g[i] \in V
      /\ \A i \in 1..n : g[i] = step[<<i, g[i - 1]>>]
  <2> HIDE DEF step
  <2>1. QED
    BY <1>5 DEF Follows
<1>7. ASSUME NEW i \in 1..n PROVE i - 1 \in 0..n /\ g[i] = NextRow(g[i - 1], s[i], t)
  <2>1. i - 1 \in 0..n /\ g[i - 1] \in V
    BY <1>6
  <2>2. QED
    BY <1>6, <2>1
<1>8. g = [i \in 0..n |-> IF i = 0 THEN FirstRow(t) ELSE NextRow(g[i - 1], s[i], t)]
  <2>1. ASSUME NEW i \in 0..n
        PROVE  g[i] = IF i = 0 THEN FirstRow(t) ELSE NextRow(g[i - 1], s[i], t)
    <3>1. CASE i = 0
      BY <1>6, <3>1
    <3>2. CASE i # 0
      <4>1. i \in 1..n
        BY <3>2
      <4>2. QED
        BY <1>7, <3>2, <4>1
    <3>3. QED
      BY <3>1, <3>2
  <2> HIDE DEF step
  <2>2. QED
    BY <1>6, <2>1, Zenon
<1>9. rows = [i \in 0..n |-> IF i = 0 THEN FirstRow(t) ELSE NextRow(rows[i - 1], s[i], t)]
  BY <1>8, Zenon DEF Matrix
<1> HIDE DEF rows, step
<1>10. rows[0] = FirstRow(t)
  BY <1>1, <1>9
<1>11. ASSUME NEW i \in 1..n PROVE rows[i] = NextRow(rows[i - 1], s[i], t)
  <2>1. i \in 0..n /\ i # 0
    OBVIOUS
  <2>2. QED
    BY <1>9, <2>1, Zenon
<1> DEFINE G == {i \in 0..n : rows[i] \in V}
<1>12. 0 <= n => 0 \in G
  BY <1>2, <1>10
<1>13. ASSUME NEW i \in (0 + 1)..n, i - 1 \in G PROVE i \in G
  <2>1. i \in 1..n /\ i \in 0..n /\ rows[i - 1] \in V
    BY <1>13
  <2>2. QED
    BY <1>3, <1>11, <2>1
<1>14. \A i \in 0..n : i \in G
  <2> HIDE DEF G, n
  <2>1. 0 \in Int /\ n \in Int
    BY <1>1
  <2>2. QED
    BY <1>12, <1>13, <2>1, StepByStep
<1>15. QED
  BY <1>10, <1>11, <1>14 DEF rows, V

(* It holds the distances of all first letters of the two words. *)
LEMMA EntriesAreDistances ==
  ASSUME NEW S, NEW s \in Seq(S), NEW t \in Seq(S)
  PROVE  \A i \in 0..Len(s) : \A j \in 0..Len(t) : IsDistance(s, t, i, j, Matrix(s, t)[i][j + 1])
<1> DEFINE n == Len(s)  m == Len(t)
           rows == Matrix(s, t)
           RowGood(i) == \A j \in 0..m : IsDistance(s, t, i, j, rows[i][j + 1])
           G == {i \in 0..n : RowGood(i)}
<1>1. n \in Nat /\ m \in Nat /\ n \in Int /\ m \in Int /\ 0 \in Int
  OBVIOUS
<1>2. /\ rows[0] = FirstRow(t)
      /\ \A i \in 0..n : rows[i] \in Seq(Nat) /\ Len(rows[i]) = m + 1
      /\ \A i \in 1..n : rows[i] = NextRow(rows[i - 1], s[i], t)
  BY MatrixIs
<1> HIDE DEF rows
<1>3. 0 <= n => 0 \in G
  <2>1. ASSUME NEW j \in 0..m PROVE IsDistance(s, t, 0, j, rows[0][j + 1])
    <3>1. rows[0][j + 1] = j /\ 0 + j = j /\ j \in Nat
      BY <1>1, <1>2 DEF FirstRow
    <3>2. IsDistance(s, t, 0, j, 0 + j)
      BY <3>1, NoPairs
    <3>3. QED
      BY <3>1, <3>2
  <2>2. QED
    BY <1>1, <2>1
<1>4. ASSUME NEW i \in (0 + 1)..n, i - 1 \in G PROVE i \in G
  <2> DEFINE above == rows[i - 1]  row == rows[i]  k == i - 1
             H == {j \in 0..m : IsDistance(s, t, i, j, row[j + 1])}
  <2>1. i \in 1..n /\ k \in 0..n /\ k \in Nat /\ i = k + 1 /\ RowGood(k)
    BY <1>1, <1>4
  <2>2. /\ above \in Seq(Nat) /\ Len(above) = m + 1
        /\ row = NextRow(above, s[i], t)
    BY <1>2, <2>1
  <2>3. /\ row \in Seq(Nat) /\ Len(row) = m + 1
        /\ row[1] = above[1] + 1
        /\ \A j \in 1..m :
              row[j + 1] = calculateMinValue(above[j + 1] + 1, row[j] + 1,
                                  above[j] + cost(s[i], t[j]))
    <3> DEFINE l == Len(t)  a == s[i]
    <3>1. l \in Nat /\ Len(t) = l /\ Len(above) = l + 1 /\ above \in Seq(Nat)
      BY <2>2
    <3>2. row = NextRow(above, a, t)
      BY <2>2
    <3> HIDE DEF l, a, above, row
    <3>3. RowFollows(above, a, t, row)
      BY <3>1, <3>2, NextRowIs
    <3>4. QED
      BY <3>3 DEF RowFollows, a
  <2>4. \A j \in 0..m : IsDistance(s, t, k, j, above[j + 1]) /\ above[j + 1] \in Nat /\ row[j + 1] \in Nat
    <3>1. \A j \in 0..m : IsDistance(s, t, k, j, above[j + 1])
      BY <2>1
    <3>2. ASSUME NEW j \in 0..m PROVE above[j + 1] \in Nat /\ row[j + 1] \in Nat
      <4> HIDE DEF above, row, m
      <4>1. QED
        BY <1>1, <2>2, <2>3, EntryIsNatural
    <3>3. QED
      BY <3>1, <3>2
  <2> HIDE DEF above, row, k, G
  <2>5. 0 <= m => 0 \in H
    <3>1. IsDistance(s, t, k, 0, k + 0) /\ IsDistance(s, t, k + 1, 0, k + 1 + 0)
      <4>1. k + 1 \in Nat /\ 0 \in Nat
        BY <2>1
      <4>2. QED
        BY <2>1, <4>1, NoPairs
    <3>2. IsDistance(s, t, k, 0, above[1]) /\ above[1] \in Nat
      BY <1>1, <2>4
    <3>3. above[1] = k + 0
      BY <2>1, <3>1, <3>2, OneDistance
    <3>4. row[1] = k + 1 + 0
      BY <2>1, <2>3, <3>3
    <3>5. IsDistance(s, t, i, 0, row[0 + 1])
      BY <2>1, <3>1, <3>4
    <3>6. QED
      BY <1>1, <3>5
  <2>6. ASSUME NEW j \in (0 + 1)..m, j - 1 \in H PROVE j \in H
    <3> DEFINE l == j - 1
    <3>1. j \in 1..m /\ l \in Nat /\ l \in 0..m /\ j \in 0..m /\ j = l + 1
      BY <1>1, <2>6
    <3>2. IsDistance(s, t, k, l + 1, above[j + 1]) /\ above[j + 1] \in Nat
      BY <2>4, <3>1
    <3>3. IsDistance(s, t, k, l, above[j]) /\ above[j] \in Nat
      BY <2>4, <3>1
    <3>4. IsDistance(s, t, k + 1, l, row[j]) /\ row[j] \in Nat
      BY <2>1, <2>4, <2>6, <3>1
    <3> HIDE DEF l, H
    <3>5. IsDistance(s, t, k + 1, l + 1,
                     calculateMinValue(above[j + 1] + 1, row[j] + 1,
                            above[j] + cost(s[k + 1], t[l + 1])))
      BY <2>1, <3>1, <3>2, <3>3, <3>4, DistanceStep
    <3>6. IsDistance(s, t, i, j, row[j + 1])
      BY <2>1, <2>3, <3>1, <3>5
    <3>7. QED
      BY <3>1, <3>6 DEF H
  <2>7. \A j \in 0..m : j \in H
    <3> HIDE DEF H, m
    <3>1. QED
      BY <1>1, <2>5, <2>6, StepByStep
  <2>8. RowGood(i)
    BY <2>7 DEF row
  <2>9. QED
    BY <1>1, <2>1, <2>8 DEF G
<1>5. \A i \in 0..n : i \in G
  <2> HIDE DEF G, n
  <2>1. QED
    BY <1>1, <1>3, <1>4, StepByStep
<1>6. QED
  BY <1>5 DEF rows

(* The distance of equal words is none, as the table would say. *)
LEMMA EqualWords ==
  ASSUME NEW S, NEW s \in Seq(S)
  PROVE  IsDistance(s, s, Len(s), Len(s), 0)
<1> DEFINE n == Len(s)
           Zero(i) == IsDistance(s, s, i, i, 0)
           G == {i \in 0..n : Zero(i)}
<1>1. n \in Nat /\ n \in Int /\ 0 \in Int /\ 0 \in Nat
  OBVIOUS
<1>2. 0 <= n => 0 \in G
  <2>1. IsDistance(s, s, 0, 0, 0 + 0)
    BY <1>1, NoPairs
  <2>2. QED
    BY <1>1, <2>1
<1>3. ASSUME NEW i \in (0 + 1)..n, i - 1 \in G PROVE i \in G
  <2> DEFINE k == i - 1
             d == cost(s[k + 1], s[k + 1])
             D(p, q) == Matrix(s, s)[p][q + 1]
  <2>1. k \in Nat /\ i = k + 1 /\ i \in 0..n /\ k \in 0..n /\ IsDistance(s, s, k, k, 0)
    BY <1>1, <1>3
  <2>2. IsDistance(s, s, k, k + 1, D(k, k + 1)) /\ IsDistance(s, s, k + 1, k, D(k + 1, k))
    BY <2>1, EntriesAreDistances
  <2>3. D(k, k + 1) \in Nat /\ D(k + 1, k) \in Nat
    <3>1. \A p \in 0..n : Matrix(s, s)[p] \in Seq(Nat) /\ Len(Matrix(s, s)[p]) = n + 1
      BY MatrixIs
    <3>2. k \in 0..n /\ k + 1 \in 0..n
      BY <1>1, <2>1
    <3> DEFINE r == Matrix(s, s)[k]  q == Matrix(s, s)[k + 1]
    <3>3. r \in Seq(Nat) /\ Len(r) = n + 1 /\ q \in Seq(Nat) /\ Len(q) = n + 1
      BY <3>1, <3>2
    <3> DEFINE x == k + 1
    <3> HIDE DEF n, k, d, D, r, q, x, Zero, G
    <3>4. r[x + 1] \in Nat
      BY <1>1, <3>2, <3>3, EntryIsNatural DEF x
    <3>5. q[k + 1] \in Nat
      BY <1>1, <3>2, <3>3, EntryIsNatural
    <3>6. QED
      BY <3>4, <3>5 DEF D, r, q, x
  <2> HIDE DEF k, D, n, G
  <2>4. IsDistance(s, s, k + 1, k + 1,
                   calculateMinValue(D(k, k + 1) + 1, D(k + 1, k) + 1,
                          0 + cost(s[k + 1], s[k + 1])))
    BY <1>1, <2>1, <2>2, <2>3, DistanceStep
  <2> DEFINE x == D(k, k + 1) + 1  y == D(k + 1, k) + 1
  <2>5. x \in Nat /\ y \in Nat /\ 0 + d = 0
    BY <2>3 DEF cost
  <2>6. IsDistance(s, s, k + 1, k + 1, calculateMinValue(x, y, 0))
    BY <2>4, <2>5
  <2> HIDE DEF x, y
  <2>7. calculateMinValue(x, y, 0) = 0
    BY <2>5 DEF calculateMinValue
  <2>8. QED
    BY <2>1, <2>6, <2>7 DEF G
<1>4. \A i \in 0..n : i \in G
  <2> HIDE DEF G, n
  <2>1. QED
    BY <1>1, <1>2, <1>3, StepByStep
<1>5. QED
  BY <1>1, <1>4

(* The table computes the edit distance of any two words, whatever their *)
(* letters.                                                              *)
THEOREM DistancesAreLeast ==
  ASSUME NEW S, NEW s \in Seq(S), NEW t \in Seq(S)
  PROVE  levenshteinDistance(s, t) = EditDistance(s, t)
<1> DEFINE n == Len(s)  m == Len(t)
           d == levenshteinDistance(s, t)
           Costs == {Changes(s, t, n, m, P) : P \in Pairings(n, m)}
<1>1. n \in Nat /\ m \in Nat /\ n \in 0..n /\ m \in 0..m
  OBVIOUS
<1>2. IsDistance(s, t, n, m, d)
  <2>1. CASE s = t
    BY <2>1, EqualWords, Zenon DEF levenshteinDistance
  <2>2. CASE s # t /\ s = <<>>
    <3>1. d = n + m /\ n = 0
      BY <2>2 DEF levenshteinDistance
    <3>2. QED
      BY <1>1, <3>1, NoPairs
  <2>3. CASE s # t /\ s # <<>> /\ t = <<>>
    <3>1. d = n + m /\ m = 0
      BY <2>3 DEF levenshteinDistance
    <3>2. QED
      BY <1>1, <3>1, NoPairs
  <2>4. CASE s # t /\ s # <<>> /\ t # <<>>
    <3>1. d = Matrix(s, t)[n][m + 1]
      BY <2>4, Zenon DEF levenshteinDistance
    <3>2. IsDistance(s, t, n, m, Matrix(s, t)[n][m + 1])
      BY <1>1, EntriesAreDistances
    <3>3. QED
      BY <3>1, <3>2
  <2>5. QED
    BY <2>1, <2>2, <2>3, <2>4
<1> HIDE DEF n, m, d
<1>3. d \in Costs /\ \A c \in Costs : d <= c
  BY <1>2 DEF IsDistance
<1>4. Costs \subseteq Int
  BY <1>1, PairingIs
<1> HIDE DEF Costs
<1>5. Least(Costs) = d
  BY <1>3, <1>4, LeastIs
<1>6. QED
  BY <1>5 DEF Costs, EditDistance, d, n, m
=============================================================================
