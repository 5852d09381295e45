--------------------------- MODULE TickCountProofs ---------------------------
(***************************************************************************)
(* Theorems about TickEmitter that rest on induction over data: where      *)
(* every ingest_seq number went, which is a sum over the calls, and that   *)
(* the closed forms of the gap detector are its loop.  For every set of    *)
(* frames and symbols and every bound.                                     *)
(*                                                                         *)
(* The sum is the fold of the community modules and the loop a recursive   *)
(* function: both are unfolded here to the function that their CHOOSE      *)
(* picks, once one is shown to exist.  Induction is by the least number    *)
(* outside a set (NatBySteps).                                             *)
(***************************************************************************)
EXTENDS TickHistoryProofs, FiniteSetTheorems
----------------------------------------------------------------------------
(* Sums over finite sets. *)

(* Induction, for a set of numbers instead of a formula. *)
LEMMA NatBySteps ==
    ASSUME NEW N, 0 \in N, \A n \in Nat : n \in N => n + 1 \in N
    PROVE  \A n \in Nat : n \in N
<1> DEFINE B == {n \in Nat : n \notin N}
<1>1. SUFFICES ASSUME B # {} PROVE FALSE
  OBVIOUS
<1>2. PICK b \in B : \A n \in B : ~ (<<n, b>> \in OpToRel(<, Nat))
  BY <1>1, WFMin, NatLessThanWellFounded
<1>3. b \in Nat /\ b \notin N /\ b # 0
  OBVIOUS
<1>4. b - 1 \in Nat /\ b - 1 < b /\ (b - 1) + 1 = b
  BY <1>3
<1>5. b - 1 \notin N
  BY <1>3, <1>4
<1>6. <<b - 1, b>> \in OpToRel(<, Nat)
  BY <1>3, <1>4 DEF OpToRel
<1> QED
  BY <1>2, <1>4, <1>5, <1>6

Pick(T) == CHOOSE x \in T : TRUE

(* g solves the recursion of SumFunctionOnSet(f, S). *)
Sums(f, S, g) ==
    g = [T \in SUBSET S |-> IF T = {} THEN 0 ELSE f[Pick(T)] + g[T \ {Pick(T)}]]

LEMMA SumUnfold ==
    ASSUME NEW f, NEW S
    PROVE  SumFunctionOnSet(f, S) = (CHOOSE g : Sums(f, S, g))[S]
BY Zenon DEF SumFunctionOnSet, FoldFunctionOnSet, MapThenFoldSet, Sums, Pick

LEMMA SmallerByOne ==
    ASSUME NEW T, IsFiniteSet(T), NEW x \in T
    PROVE  /\ IsFiniteSet(T \ {x})
           /\ Cardinality(T) \in Nat /\ Cardinality(T) > 0
           /\ Cardinality(T \ {x}) = Cardinality(T) - 1
<1>1. Cardinality(T) \in Nat /\ Cardinality(T) # 0
  BY FS_CardinalityType, FS_EmptySet
<1> QED
  BY <1>1, FS_RemoveElement

LEMMA PickSmaller ==
    ASSUME NEW T, IsFiniteSet(T), T # {}
    PROVE  /\ Pick(T) \in T
           /\ IsFiniteSet(T \ {Pick(T)})
           /\ Cardinality(T) \in Nat /\ Cardinality(T) > 0
           /\ Cardinality(T \ {Pick(T)}) = Cardinality(T) - 1
<1>1. Pick(T) \in T
  BY DEF Pick
<1> QED
  BY <1>1, SmallerByOne

LEMMA SumsExist ==
    ASSUME NEW f, NEW S, IsFiniteSet(S)
    PROVE  \E g : Sums(f, S, g)
<1> DEFINE Part(n) == {T \in SUBSET S : Cardinality(T) <= n}
           Step(T, g) == IF T = {} THEN 0 ELSE f[Pick(T)] + g[T \ {Pick(T)}]
           On(n, g) == g = [T \in Part(n) |-> Step(T, g)]
           N == {n \in Nat : \E g : On(n, g)}
<1>1. \A T \in SUBSET S : IsFiniteSet(T) /\ Cardinality(T) \in Nat
  BY FS_Subset, FS_CardinalityType
<1>2. 0 \in N
  <2> DEFINE z == [T \in Part(0) |-> 0]
  <2>1. \A T \in Part(0) : T = {}
    BY <1>1, FS_EmptySet
  <2>2. \A T \in Part(0) : Step(T, z) = 0
    BY <2>1
  <2>3. z = [T \in Part(0) |-> Step(T, z)]
    BY <2>2, Zenon
  <2> QED
    BY <2>3
<1>3. ASSUME NEW n \in Nat, n \in N PROVE n + 1 \in N
  <2>1. PICK g : On(n, g)
    BY <1>3
  <2> DEFINE h == [T \in Part(n + 1) |-> Step(T, g)]
  <2>2. ASSUME NEW U \in Part(n) PROVE U \in Part(n + 1) /\ h[U] = g[U]
    <3>1. U \in Part(n + 1)
      BY <1>1
    <3>2. h[U] = Step(U, g)
      BY <3>1
    <3>3. g[U] = Step(U, g)
      BY <2>1, Zenon
    <3> QED
      BY <3>1, <3>2, <3>3, Zenon
  <2>3. ASSUME NEW T \in Part(n + 1) PROVE Step(T, g) = Step(T, h)
    <3>1. CASE T = {}
      BY <3>1
    <3>2. CASE T # {}
      <4>1. T \ {Pick(T)} \in Part(n)
        BY <1>1, <3>2, PickSmaller
      <4>2. h[T \ {Pick(T)}] = g[T \ {Pick(T)}]
        BY <2>2, <4>1, Zenon
      <4> HIDE DEF h
      <4> QED
        BY <3>2, <4>2
    <3> QED
      BY <3>1, <3>2
  <2>4. h = [T \in Part(n + 1) |-> Step(T, h)]
    <3> HIDE DEF Step
    <3> QED
      BY <2>3, Zenon
  <2>5. On(n + 1, h)
    BY <2>4, Zenon
  <2> HIDE DEF h, On
  <2> QED
    BY <2>5
<1>4. PICK c \in Nat : c = Cardinality(S)
  BY FS_CardinalityType
<1>5. PICK g : On(c, g)
  <2> HIDE DEF On
  <2>1. \A n \in Nat : n \in N
    <3> HIDE DEF N
    <3> QED
      BY <1>2, <1>3, NatBySteps
  <2> QED
    BY <2>1
<1>6. Part(c) = SUBSET S
  BY <1>4, FS_Subset
<1> QED
  BY <1>5, <1>6, Zenon DEF Sums

(* Two such functions agree where both are defined. *)
LEMMA SumsAgree ==
    ASSUME NEW f, NEW S, IsFiniteSet(S), NEW U \in SUBSET S, NEW g, NEW h,
           Sums(f, S, g), Sums(f, U, h)
    PROVE  \A T \in SUBSET U : g[T] = h[T]
<1> DEFINE N == {n \in Nat : \A T \in SUBSET U : Cardinality(T) = n => g[T] = h[T]}
<1>1. \A T \in SUBSET U : IsFiniteSet(T) /\ Cardinality(T) \in Nat
  BY FS_Subset, FS_CardinalityType
<1>2. ASSUME NEW T \in SUBSET U
      PROVE  /\ g[T] = IF T = {} THEN 0 ELSE f[Pick(T)] + g[T \ {Pick(T)}]
             /\ h[T] = IF T = {} THEN 0 ELSE f[Pick(T)] + h[T \ {Pick(T)}]
  <2>1. T \in SUBSET S
    OBVIOUS
  <2> QED
    BY <2>1, Zenon DEF Sums
<1>3. 0 \in N
  BY <1>1, <1>2, FS_EmptySet
<1>4. ASSUME NEW n \in Nat, n \in N PROVE n + 1 \in N
  <2> SUFFICES ASSUME NEW T \in SUBSET U, Cardinality(T) = n + 1
               PROVE  g[T] = h[T]
    OBVIOUS
  <2>1. T # {}
    BY FS_EmptySet
  <2>2. Cardinality(T \ {Pick(T)}) = n
    BY <1>1, <2>1, PickSmaller
  <2>3. g[T \ {Pick(T)}] = h[T \ {Pick(T)}]
    BY <1>4, <2>2
  <2> QED
    BY <1>2, <2>1, <2>3
<1>5. \A n \in Nat : n \in N
  <2> HIDE DEF N
  <2> QED
    BY <1>3, <1>4, NatBySteps
<1> QED
  BY <1>1, <1>5

LEMMA SumStep ==
    ASSUME NEW f, NEW S, IsFiniteSet(S)
    PROVE  SumFunctionOnSet(f, S) =
              IF S = {} THEN 0
              ELSE f[Pick(S)] + SumFunctionOnSet(f, S \ {Pick(S)})
<1>1. PICK R : R = S \ {Pick(S)}
  OBVIOUS
<1>2. IsFiniteSet(R) /\ R \in SUBSET S /\ R \in SUBSET R
  BY <1>1, FS_Subset
<1>3. PICK g : Sums(f, S, g) /\ SumFunctionOnSet(f, S) = g[S]
  BY SumsExist, SumUnfold, Zenon
<1>4. PICK h : Sums(f, R, h) /\ SumFunctionOnSet(f, R) = h[R]
  BY <1>2, SumsExist, SumUnfold, Zenon
<1>5. g[S] = IF S = {} THEN 0 ELSE f[Pick(S)] + g[R]
  BY <1>1, <1>3, Zenon DEF Sums
<1>6. \A T \in SUBSET R : g[T] = h[T]
  BY <1>2, <1>3, <1>4, SumsAgree
<1>7. g[R] = h[R]
  BY <1>2, <1>6
<1> QED
  BY <1>1, <1>3, <1>4, <1>5, <1>7, Zenon

LEMMA SumType ==
    ASSUME NEW f, NEW S, IsFiniteSet(S), \A y \in S : f[y] \in Nat
    PROVE  SumFunctionOnSet(f, S) \in Nat
<1> DEFINE N == {n \in Nat : \A T \in SUBSET S :
                    Cardinality(T) = n => SumFunctionOnSet(f, T) \in Nat}
<1>1. \A T \in SUBSET S : IsFiniteSet(T) /\ Cardinality(T) \in Nat
  BY FS_Subset, FS_CardinalityType
<1>2. 0 \in N
  BY <1>1, FS_EmptySet, SumStep
<1>3. ASSUME NEW n \in Nat, n \in N PROVE n + 1 \in N
  <2> SUFFICES ASSUME NEW T \in SUBSET S, Cardinality(T) = n + 1
               PROVE  SumFunctionOnSet(f, T) \in Nat
    OBVIOUS
  <2>1. IsFiniteSet(T) /\ T # {}
    BY <1>1, FS_EmptySet
  <2>2. Pick(T) \in T /\ Cardinality(T \ {Pick(T)}) = n
    BY <2>1, PickSmaller
  <2>3. SumFunctionOnSet(f, T \ {Pick(T)}) \in Nat
    BY <1>3, <2>2
  <2>4. f[Pick(T)] \in Nat
    BY <2>2
  <2>5. SumFunctionOnSet(f, T) = f[Pick(T)] + SumFunctionOnSet(f, T \ {Pick(T)})
    BY <2>1, SumStep
  <2> QED
    BY <2>3, <2>4, <2>5
<1>4. \A n \in Nat : n \in N
  <2> HIDE DEF N
  <2> QED
    BY <1>2, <1>3, NatBySteps
<1> QED
  BY <1>1, <1>4

(* Any element may be taken out first. *)
LEMMA SumRemove ==
    ASSUME NEW f, NEW S, IsFiniteSet(S), \A y \in S : f[y] \in Nat, NEW x, x \in S
    PROVE  SumFunctionOnSet(f, S) = f[x] + SumFunctionOnSet(f, S \ {x})
<1> DEFINE N == {n \in Nat : \A T \in SUBSET S : Cardinality(T) = n =>
                    \A y \in T : SumFunctionOnSet(f, T) = f[y] + SumFunctionOnSet(f, T \ {y})}
<1>1. \A T \in SUBSET S : IsFiniteSet(T) /\ Cardinality(T) \in Nat
  BY FS_Subset, FS_CardinalityType
<1>2. 0 \in N
  BY <1>1, FS_EmptySet
<1>3. ASSUME NEW n \in Nat, n \in N PROVE n + 1 \in N
  <2> SUFFICES ASSUME NEW T \in SUBSET S, Cardinality(T) = n + 1, NEW y \in T
               PROVE  SumFunctionOnSet(f, T) = f[y] + SumFunctionOnSet(f, T \ {y})
    OBVIOUS
  <2>1. PICK z : z = Pick(T)
    OBVIOUS
  <2>2. IsFiniteSet(T) /\ T # {} /\ z \in T
    BY <1>1, <2>1, PickSmaller
  <2>3. SumFunctionOnSet(f, T) = f[z] + SumFunctionOnSet(f, T \ {z})
    BY <2>1, <2>2, SumStep
  <2>4. CASE y # z
    <3>1. Cardinality(T \ {z}) = n /\ Cardinality(T \ {y}) = n
      BY <2>2, SmallerByOne
    <3>2. T \ {z} \in SUBSET S /\ y \in T \ {z}
      BY <2>4
    <3>3. T \ {y} \in SUBSET S /\ z \in T \ {y}
      BY <2>2, <2>4
    <3>4. SumFunctionOnSet(f, T \ {z}) = f[y] + SumFunctionOnSet(f, (T \ {z}) \ {y})
      BY <1>3, <3>1, <3>2
    <3>5. SumFunctionOnSet(f, T \ {y}) = f[z] + SumFunctionOnSet(f, (T \ {y}) \ {z})
      BY <1>3, <3>1, <3>3
    <3>6. PICK U : U = (T \ {y}) \ {z}
      OBVIOUS
    <3>7. (T \ {z}) \ {y} = U /\ IsFiniteSet(U) /\ \A t \in U : f[t] \in Nat
      BY <1>1, <3>6
    <3>8. PICK s : s = SumFunctionOnSet(f, U)
      OBVIOUS
    <3>9. s \in Nat /\ f[y] \in Nat /\ f[z] \in Nat
      BY <2>2, <3>7, <3>8, SumType
    <3>10. SumFunctionOnSet(f, T) = f[z] + (f[y] + s) /\ SumFunctionOnSet(f, T \ {y}) = f[z] + s
      BY <2>3, <3>4, <3>5, <3>6, <3>7, <3>8, Zenon
    <3> QED
      BY <3>9, <3>10
  <2> QED
    BY <2>3, <2>4
<1>4. \A n \in Nat : n \in N
  <2> HIDE DEF N
  <2> QED
    BY <1>2, <1>3, NatBySteps
<1>5. S \in SUBSET S /\ Cardinality(S) \in Nat
  BY <1>1
<1> QED
  BY <1>4, <1>5

LEMMA SumAdd ==
    ASSUME NEW f, NEW S, IsFiniteSet(S), \A y \in S : f[y] \in Nat,
           NEW x, x \notin S, f[x] \in Nat
    PROVE  SumFunctionOnSet(f, S \cup {x}) = f[x] + SumFunctionOnSet(f, S)
<1>1. PICK U : U = S \cup {x}
  OBVIOUS
<1>2. IsFiniteSet(U) /\ x \in U /\ U \ {x} = S /\ \A y \in U : f[y] \in Nat
  BY <1>1, FS_AddElement
<1>3. SumFunctionOnSet(f, U) = f[x] + SumFunctionOnSet(f, U \ {x})
  BY <1>2, SumRemove
<1> QED
  BY <1>1, <1>2, <1>3, Zenon

(* Only the values on the set count. *)
LEMMA SumSame ==
    ASSUME NEW f, NEW g, NEW S, IsFiniteSet(S), \A x \in S : f[x] = g[x]
    PROVE  SumFunctionOnSet(f, S) = SumFunctionOnSet(g, S)
<1> DEFINE N == {n \in Nat : \A T \in SUBSET S : Cardinality(T) = n =>
                    SumFunctionOnSet(f, T) = SumFunctionOnSet(g, T)}
<1>1. \A T \in SUBSET S : IsFiniteSet(T) /\ Cardinality(T) \in Nat
  BY FS_Subset, FS_CardinalityType
<1>2. 0 \in N
  BY <1>1, FS_EmptySet, SumStep
<1>3. ASSUME NEW n \in Nat, n \in N PROVE n + 1 \in N
  <2> SUFFICES ASSUME NEW T \in SUBSET S, Cardinality(T) = n + 1
               PROVE  SumFunctionOnSet(f, T) = SumFunctionOnSet(g, T)
    OBVIOUS
  <2>1. IsFiniteSet(T) /\ T # {}
    BY <1>1, FS_EmptySet
  <2>2. Pick(T) \in T /\ Cardinality(T \ {Pick(T)}) = n
    BY <2>1, PickSmaller
  <2>3. SumFunctionOnSet(f, T \ {Pick(T)}) = SumFunctionOnSet(g, T \ {Pick(T)})
    BY <1>3, <2>2
  <2>4. f[Pick(T)] = g[Pick(T)]
    BY <2>2
  <2>5. /\ SumFunctionOnSet(f, T) = f[Pick(T)] + SumFunctionOnSet(f, T \ {Pick(T)})
        /\ SumFunctionOnSet(g, T) = g[Pick(T)] + SumFunctionOnSet(g, T \ {Pick(T)})
    BY <2>1, SumStep
  <2> QED
    BY <2>3, <2>4, <2>5, Zenon
<1>4. \A n \in Nat : n \in N
  <2> HIDE DEF N
  <2> QED
    BY <1>2, <1>3, NatBySteps
<1>5. S \in SUBSET S /\ Cardinality(S) \in Nat
  BY <1>1
<1> QED
  BY <1>4, <1>5
----------------------------------------------------------------------------
(* The numbers a frame burns. *)

LEMMA MinOfNats ==
    ASSUME NEW S \in SUBSET Nat, S # {}
    PROVE  Min(S) \in S /\ \A t \in S : Min(S) <= t
<1>1. PICK m \in S : \A n \in S : ~ (<<n, m>> \in OpToRel(<, Nat))
  BY WFMin, NatLessThanWellFounded
<1>2. \A t \in S : ~ (t < m)
  BY <1>1 DEF OpToRel
<1>3. \A t \in S : m <= t
  BY <1>2
<1>4. \E x \in S : \A y \in S : x =< y
  BY <1>3
<1> QED
  BY <1>4, Zenon DEF Min

LEMMA FirstInvalidFails ==
    ASSUME NEW f \in Frames, Form[f] = "trades", ~ Sound(f), NEW k, k = FirstInvalid(f)
    PROVE  /\ k \in DOMAIN Entries[f] /\ k \in Nat /\ k > 0
           /\ Entries[f][k].fails # {}
           /\ \A i \in DOMAIN Entries[f] : Entries[f][i].fails # {} => k <= i
<1>1. PICK S : S = {i \in DOMAIN Entries[f] : Entries[f][i].fails # {}}
  OBVIOUS
<1>2. DOMAIN Entries[f] = 1 .. Len(Entries[f]) /\ Len(Entries[f]) \in Nat
  BY EntriesType
<1>3. S \in SUBSET Nat /\ S # {}
  BY <1>1, <1>2 DEF Sound
<1>4. k \in S /\ \A t \in S : k <= t
  <2>1. k = Min(S)
    BY <1>1, Zenon DEF FirstInvalid
  <2> QED
    BY <1>3, <2>1, MinOfNats
<1> QED
  BY <1>1, <1>2, <1>4

LEMMA BurnedType ==
    ASSUME NEW f \in Frames
    PROVE  Burned(f) \in Nat
<1>1. PICK k : k = FirstInvalid(f)
  OBVIOUS
<1>2. Form[f] = "trades" /\ ~ Sound(f) => k \in Nat /\ k > 0
  BY <1>1, FirstInvalidFails
<1> QED
  BY <1>1, <1>2 DEF Burned

(* The row model is the last check. *)
LEMMA RowSchemaIsLast ==
    ASSUME NEW d, Precedes("row_schema", d)
    PROVE  d = "row_schema"
  BY DEF Precedes, CheckOrder

(* A frame that stops has consumed what Burned counts. *)
LEMMA StopBurns ==
    ASSUME NEW f \in Frames, Form[f] = "trades", NEW k, NEW c, StopsAt(f, k, c)
    PROVE  Burned(f) = Consumed(k, c)
<1>1. PICK m : m = FirstInvalid(f)
  OBVIOUS
<1>2. ~ Sound(f)
  BY DEF StopsAt, Sound
<1>3. /\ m \in DOMAIN Entries[f] /\ m \in Nat /\ m > 0
      /\ Entries[f][m].fails # {}
      /\ \A i \in DOMAIN Entries[f] : Entries[f][i].fails # {} => m <= i
  BY <1>1, <1>2, FirstInvalidFails
<1>4. k \in Nat /\ k > 0 /\ m <= k
  BY <1>3, EntriesType DEF StopsAt
<1>5. ~ (m < k)
  <2> SUFFICES ASSUME m < k PROVE FALSE
    OBVIOUS
  <2>1. m \in 1 .. k - 1
    BY <1>3, <1>4
  <2> QED
    BY <1>3, <2>1 DEF StopsAt
<1>6. m = k
  BY <1>3, <1>4, <1>5
<1>7. Entries[f][k].fails = {"row_schema"} <=> c = "row_schema"
  <2>1. c \in Entries[f][k].fails /\ \A d \in Entries[f][k].fails : Precedes(c, d)
    BY DEF StopsAt
  <2>2. ASSUME c = "row_schema" PROVE Entries[f][k].fails = {"row_schema"}
    BY <2>1, <2>2, RowSchemaIsLast
  <2> QED
    BY <2>1, <2>2
<1>8. Burned(f) = IF Entries[f][k].fails = {"row_schema"} THEN k ELSE k - 1
  BY <1>1, <1>2, <1>6 DEF Burned
<1> QED
  BY <1>4, <1>7, <1>8 DEF Consumed
----------------------------------------------------------------------------
(* The numbers taken before a call. *)

LEMMA BurnedByType ==
    ASSUME TypeOK
    PROVE  BurnedBy \in [DOMAIN calls -> Nat]
<1>1. \A k \in DOMAIN calls : calls[k].frame \in Frames
  BY CallsType
<1> QED
  BY <1>1, BurnedType DEF BurnedBy

LEMMA BeforeFinite ==
    ASSUME TypeOK, NEW n, NEW l
    PROVE  /\ IsFiniteSet(RowsBefore(n, l)) /\ IsFiniteSet(CallsBefore(n, l))
           /\ CallsBefore(n, l) \in SUBSET DOMAIN calls
<1>1. IsFiniteSet(DOMAIN rows) /\ IsFiniteSet(DOMAIN calls)
  BY RowsType, CallsType, FS_Interval
<1>2. RowsBefore(n, l) \in SUBSET DOMAIN rows /\ CallsBefore(n, l) \in SUBSET DOMAIN calls
  BY DEF RowsBefore, CallsBefore
<1> QED
  BY <1>1, <1>2, FS_Subset

LEMMA SeqBeforeType ==
    ASSUME TypeOK, NEW n, NEW l
    PROVE  SeqBefore(n, l) \in Nat
<1>1. Cardinality(RowsBefore(n, l)) \in Nat
  BY BeforeFinite, FS_CardinalityType
<1>2. SumFunctionOnSet(BurnedBy, CallsBefore(n, l)) \in Nat
  BY BurnedByType, BeforeFinite, SumType
<1> QED
  BY <1>1, <1>2 DEF SeqBefore

(* A call of process that returns m rows. *)
Gives(f, m) ==
    /\ Called(f)
    /\ DOMAIN rows' = 1 .. Len(rows) + m
    /\ \A i \in 1 .. Len(rows) : rows'[i] = rows[i]
    /\ \A j \in 1 .. m :
          rows'[Len(rows) + j].call = Len(calls) + 1 /\ rows'[Len(rows) + j].life = life

(* It leaves the counts of the earlier calls alone. *)
LEMMA EarlierCountsKept ==
    ASSUME TypeOK, TypeOK', HistoryInv, NEW f \in Frames, NEW m \in Nat, Gives(f, m),
           NEW n \in 1 .. Len(calls) + 1, NEW l
    PROVE  SeqBefore(n, l)' = SeqBefore(n, l)
<1>1. PICK c, r : c = Len(calls) + 1 /\ r = Len(rows)
  OBVIOUS
<1>2. /\ c \in Nat /\ DOMAIN calls = 1 .. c - 1 /\ DOMAIN calls' = 1 .. c
      /\ \A k \in 1 .. c - 1 : calls'[k] = calls[k]
  BY <1>1, CallFacts DEF Gives
<1>3. /\ r \in Nat /\ DOMAIN rows = 1 .. r /\ DOMAIN rows' = 1 .. r + m
      /\ \A i \in 1 .. r : rows'[i] = rows[i]
      /\ \A j \in 1 .. m : rows'[r + j].call = c
  BY <1>1, RowsType DEF Gives
<1>4. n \in 1 .. c
  BY <1>1
<1>5. RowsBefore(n, l)' = RowsBefore(n, l)
  <2>1. ASSUME NEW i \in DOMAIN rows' PROVE i \in DOMAIN rows \/ ~ (rows'[i].call < n)
    <3>1. CASE i > r
      <4>1. i - r \in 1 .. m /\ i = r + (i - r)
        BY <1>3, <3>1
      <4>2. rows'[i].call = c
        BY <1>3, <4>1
      <4> QED
        BY <1>2, <1>4, <4>2
    <3> QED
      BY <1>3, <3>1
  <2>2. RowsBefore(n, l)' = {i \in DOMAIN rows' : rows'[i].life = l /\ rows'[i].call < n}
    BY DEF RowsBefore
  <2>3. \A i \in DOMAIN rows : i \in DOMAIN rows' /\ rows'[i] = rows[i]
    BY <1>3
  <2> QED
    BY <2>1, <2>2, <2>3 DEF RowsBefore
<1>6. CallsBefore(n, l)' = CallsBefore(n, l)
  <2>1. CallsBefore(n, l)' = {k \in DOMAIN calls' : calls'[k].life = l /\ k < n}
    BY DEF CallsBefore
  <2>2. \A k \in DOMAIN calls' : k < n => k \in DOMAIN calls
    BY <1>2, <1>4
  <2>3. \A k \in DOMAIN calls : k \in DOMAIN calls' /\ calls'[k] = calls[k]
    BY <1>2
  <2> QED
    BY <2>1, <2>2, <2>3 DEF CallsBefore
<1>7. PICK g, S : g = BurnedBy' /\ S = CallsBefore(n, l)
  OBVIOUS
<1>8. SumFunctionOnSet(g, S) = SumFunctionOnSet(BurnedBy, S)
  <2>1. IsFiniteSet(S) /\ S \in SUBSET DOMAIN calls
    BY <1>7, BeforeFinite
  <2>2. ASSUME NEW k \in S PROVE g[k] = BurnedBy[k]
    <3>1. k \in DOMAIN calls /\ k \in DOMAIN calls' /\ calls'[k] = calls[k]
      BY <1>2, <2>1
    <3>2. g[k] = Burned(calls'[k].frame)
      BY <1>7, <3>1 DEF BurnedBy
    <3> QED
      BY <3>1, <3>2 DEF BurnedBy
  <2> QED
    BY <2>1, <2>2, SumSame
<1>9. SeqBefore(n, l)' = Cardinality(RowsBefore(n, l)') + SumFunctionOnSet(g, CallsBefore(n, l)')
  BY <1>7 DEF SeqBefore
<1> QED
  BY <1>5, <1>6, <1>7, <1>8, <1>9, Zenon DEF SeqBefore

(* It takes one number for each of its rows, and burns its own. *)
LEMMA NextCount ==
    ASSUME TypeOK, TypeOK', HistoryInv, NEW f \in Frames, NEW m \in Nat, Gives(f, m),
           NEW c, c = Len(calls) + 1, NEW l, l = life
    PROVE  SeqBefore(c + 1, l)' = SeqBefore(c, l) + m + Burned(f)
<1>1. PICK r : r = Len(rows)
  OBVIOUS
<1>2. /\ c \in Nat /\ DOMAIN calls = 1 .. c - 1 /\ DOMAIN calls' = 1 .. c
      /\ \A k \in 1 .. c - 1 : calls'[k] = calls[k]
      /\ calls'[c].frame = f /\ calls'[c].life = l
  BY CallFacts DEF Gives
<1>3. /\ r \in Nat /\ DOMAIN rows = 1 .. r /\ DOMAIN rows' = 1 .. r + m
      /\ \A i \in 1 .. r : rows'[i] = rows[i]
      /\ \A j \in 1 .. m : rows'[r + j].call = c /\ rows'[r + j].life = l
  BY <1>1, RowsType DEF Gives
<1>4. \A i \in 1 .. r : rows[i].call \in 1 .. c - 1
  BY <1>2, <1>3 DEF HistoryInv, RowsFromCalls
<1>5. PICK R : R = RowsBefore(c, l)
  OBVIOUS
<1>6. IsFiniteSet(R) /\ R \subseteq 1 .. r
  <2>1. IsFiniteSet(R)
    BY <1>5, BeforeFinite
  <2> QED
    BY <1>3, <1>5, <2>1 DEF RowsBefore
<1>7. RowsBefore(c + 1, l)' = R \cup (r + 1 .. r + m)
  <2>1. RowsBefore(c + 1, l)' = {i \in 1 .. r + m : rows'[i].life = l /\ rows'[i].call < c + 1}
    BY <1>3 DEF RowsBefore
  <2>2. R = {i \in 1 .. r : rows[i].life = l /\ rows[i].call < c}
    BY <1>3, <1>5 DEF RowsBefore
  <2>3. ASSUME NEW i \in 1 .. r
        PROVE  i \in 1 .. r + m /\ rows'[i] = rows[i] /\ rows[i].call < c /\ rows[i].call < c + 1
               /\ i \notin r + 1 .. r + m
    BY <1>2, <1>3, <1>4
  <2>4. ASSUME NEW i \in r + 1 .. r + m
        PROVE  i \in 1 .. r + m /\ rows'[i].life = l /\ rows'[i].call < c + 1
    <3>1. i - r \in 1 .. m /\ i = r + (i - r)
      BY <1>3
    <3>2. rows'[i].call = c /\ rows'[i].life = l
      BY <1>3, <3>1
    <3> QED
      BY <1>2, <1>3, <3>2
  <2>5. \A i \in 1 .. r + m : i \in 1 .. r \/ i \in r + 1 .. r + m
    BY <1>3
  <2> QED
    BY <2>1, <2>2, <2>3, <2>4, <2>5
<1>8. Cardinality(RowsBefore(c + 1, l)') = Cardinality(R) + m
  <2>1. PICK N, p : N = r + 1 .. r + m /\ p = Cardinality(R)
    OBVIOUS
  <2>2. R \cap N = {}
    BY <1>3, <1>6, <2>1
  <2>3. IsFiniteSet(N) /\ Cardinality(N) = m
    BY <1>3, <2>1, FS_Interval
  <2>4. Cardinality(R \cap N) = 0
    BY <2>2, FS_EmptySet
  <2>5. p \in Nat
    BY <1>6, <2>1, FS_CardinalityType
  <2>6. Cardinality(R \cup N) = Cardinality(R) + Cardinality(N) - Cardinality(R \cap N)
    BY <1>6, <2>3, FS_Union
  <2>7. Cardinality(R \cup N) = p + m - 0
    BY <2>1, <2>3, <2>4, <2>6, Zenon
  <2>8. Cardinality(R \cup N) = p + m
    BY <2>5, <2>7
  <2> QED
    BY <1>7, <2>1, <2>8, Zenon
<1>9. PICK K, g, b : K = CallsBefore(c, l) /\ g = BurnedBy' /\ b = BurnedBy
  OBVIOUS
<1>10. CallsBefore(c + 1, l)' = K \cup {c}
  <2>1. CallsBefore(c + 1, l)' = {k \in 1 .. c : calls'[k].life = l /\ k < c + 1}
    BY <1>2 DEF CallsBefore
  <2>2. K = {k \in 1 .. c - 1 : calls[k].life = l /\ k < c}
    BY <1>2, <1>9 DEF CallsBefore
  <2>3. \A k \in 1 .. c : k < c + 1 /\ (k = c \/ (k \in 1 .. c - 1 /\ k < c /\ calls'[k] = calls[k]))
    BY <1>2
  <2>4. c \in 1 .. c /\ c \notin 1 .. c - 1 /\ \A k \in 1 .. c - 1 : k \in 1 .. c
    <3>1. c > 0
      BY CallsType
    <3> QED
      BY <1>2, <3>1
  <2> QED
    BY <1>2, <2>1, <2>2, <2>3, <2>4
<1>11. SumFunctionOnSet(g, K \cup {c}) = SumFunctionOnSet(b, K) + Burned(f)
  <2>1. IsFiniteSet(K) /\ K \in SUBSET (1 .. c - 1) /\ c \notin K /\ c \in 1 .. c
    <3>1. c > 0
      BY CallsType
    <3> QED
      BY <1>2, <1>9, <3>1, BeforeFinite
  <2>2. g \in [1 .. c -> Nat] /\ b \in [1 .. c - 1 -> Nat]
    <3>1. (TypeOK => BurnedBy \in [DOMAIN calls -> Nat])'
      BY BurnedByType, PTL
    <3> QED
      BY <1>2, <1>9, <3>1, BurnedByType
  <2>3. g[c] = Burned(f)
    BY <1>2, <1>9, <2>1 DEF BurnedBy
  <2>4. \A k \in K : g[k] = b[k]
    <3> SUFFICES ASSUME NEW k \in K PROVE g[k] = b[k]
      OBVIOUS
    <3>1. k \in DOMAIN calls /\ k \in DOMAIN calls' /\ calls'[k] = calls[k]
      BY <1>2, <2>1
    <3>2. g[k] = Burned(calls'[k].frame)
      BY <1>9, <3>1 DEF BurnedBy
    <3> QED
      BY <1>9, <3>1, <3>2 DEF BurnedBy
  <2>5. SumFunctionOnSet(g, K \cup {c}) = g[c] + SumFunctionOnSet(g, K)
    <3>1. (\A k \in K : g[k] \in Nat) /\ g[c] \in Nat
      BY <2>1, <2>2
    <3> QED
      BY <2>1, <3>1, SumAdd
  <2>6. SumFunctionOnSet(g, K) = SumFunctionOnSet(b, K)
    BY <2>1, <2>4, SumSame
  <2>7. SumFunctionOnSet(b, K) \in Nat /\ Burned(f) \in Nat
    BY <2>1, <2>2, SumType, BurnedType
  <2>8. SumFunctionOnSet(g, K \cup {c}) = Burned(f) + SumFunctionOnSet(b, K)
    BY <2>3, <2>5, <2>6, Zenon
  <2> QED
    BY <2>7, <2>8
<1>12. SeqBefore(c + 1, l)' =
          Cardinality(RowsBefore(c + 1, l)') + SumFunctionOnSet(g, CallsBefore(c + 1, l)')
  BY <1>9 DEF SeqBefore
<1>13. SeqBefore(c, l) = Cardinality(R) + SumFunctionOnSet(b, K)
  BY <1>5, <1>9, Zenon DEF SeqBefore
<1>14. SeqBefore(c + 1, l)' = (Cardinality(R) + m) + (SumFunctionOnSet(b, K) + Burned(f))
  BY <1>8, <1>10, <1>11, <1>12, Zenon
<1>15. Cardinality(R) \in Nat /\ SumFunctionOnSet(b, K) \in Nat /\ Burned(f) \in Nat
  <2>1. b \in [DOMAIN calls -> Nat]
    BY <1>9, BurnedByType
  <2> QED
    BY <1>6, <1>9, <2>1, BeforeFinite, BurnedType, SumType, FS_CardinalityType
<1> QED
  BY <1>13, <1>14, <1>15
----------------------------------------------------------------------------
(* What each step does to the counts. *)

Counted(f, m) == Gives(f, m) /\ nextSeq' = nextSeq + m + Burned(f)

LEMMA EmitCounts ==
    ASSUME TypeOK, NEW f \in Frames, ProcessEmits(f)
    PROVE  /\ Counted(f, Len(Entries[f]))
           /\ \A j \in 1 .. Len(Entries[f]) :
                 rows'[Len(rows) + j].seq = nextSeq + j - 1 /\ rows'[Len(rows) + j].idx = j
<1>1. /\ DOMAIN rows' = 1 .. Len(rows) + Len(Entries[f])
      /\ \A i \in 1 .. Len(rows) : rows'[i] = rows[i]
      /\ \A j \in 1 .. Len(Entries[f]) :
            rows'[Len(rows) + j].seq = nextSeq + j - 1 /\ rows'[Len(rows) + j].life = life
  BY RowsAfterEmit
<1>2. \A j \in 1 .. Len(Entries[f]) :
         rows'[Len(rows) + j].call = Len(calls) + 1 /\ rows'[Len(rows) + j].idx = j
  BY RowsAdded
<1>3. Called(f) /\ Sound(f) /\ nextSeq' = nextSeq + Len(Entries[f])
  BY DEF ProcessEmits
<1>4. Burned(f) = 0 /\ nextSeq \in Nat /\ Len(Entries[f]) \in Nat
  BY <1>3, EntriesType DEF Burned, TypeOK
<1> QED
  BY <1>1, <1>2, <1>3, <1>4 DEF Counted, Gives

LEMMA EscapingAreChecks == Escaping \subseteq Checks
<1>1. Checks = {CheckOrder[i] : i \in 1 .. 17}
  BY DEF Checks, CheckOrder
<1> QED
  BY <1>1 DEF Escaping, CheckOrder

LEMMA RejectCounts ==
    ASSUME TypeOK, NEW f \in Frames,
           ProcessSkips(f) \/ ProcessRejectsEnvelope(f) \/ ProcessRejectsEntry(f) \/ ProcessRaises(f)
    PROVE  Counted(f, 0) /\ rows' = rows
<1>1. Called(f) /\ rows' = rows
  BY DEF ProcessSkips, ProcessRejectsEnvelope, ProcessRejectsEntry, ProcessRaises
<1>2. Gives(f, 0)
  BY <1>1, RowsType DEF Gives
<1>3. nextSeq' = nextSeq + Burned(f)
  <2>1. CASE Form[f] # "trades"
    <3>1. Burned(f) = 0 /\ nextSeq \in Nat
      BY <2>1 DEF Burned, TypeOK
    <3>2. nextSeq' = nextSeq
      BY <2>1 DEF ProcessSkips, ProcessRejectsEnvelope, ProcessRejectsEntry, ProcessRaises, code
    <3> QED
      BY <3>1, <3>2
  <2>2. CASE Form[f] = "trades"
    <3>1. \E k \in DOMAIN Entries[f], c \in Checks :
             StopsAt(f, k, c) /\ nextSeq' = nextSeq + Consumed(k, c)
      BY <2>2, EscapingAreChecks
           DEF ProcessSkips, ProcessRejectsEnvelope, ProcessRejectsEntry, ProcessRaises
    <3> QED
      BY <2>2, <3>1, StopBurns
  <2> QED
    BY <2>1, <2>2
<1>4. nextSeq \in Nat /\ Burned(f) \in Nat
  BY BurnedType DEF TypeOK
<1> QED
  BY <1>1, <1>2, <1>3, <1>4 DEF Counted

LEMMA CountedStep ==
    ASSUME TypeOK, TypeOK', HistoryInv, IngestSeqHolesExplained,
           NEW f \in Frames, NEW m \in Nat, Counted(f, m),
           \A j \in 1 .. m :
              rows'[Len(rows) + j].seq = nextSeq + j - 1 /\ rows'[Len(rows) + j].idx = j
    PROVE  IngestSeqHolesExplained'
<1>1. PICK c, l, r : c = Len(calls) + 1 /\ l = life /\ r = Len(rows)
  OBVIOUS
<1>2. /\ c \in Nat /\ life' = l
      /\ DOMAIN calls = 1 .. c - 1 /\ DOMAIN calls' = 1 .. c
  BY <1>1, CallFacts DEF Counted, Gives
<1>3. nextSeq = SeqBefore(c, l)
  BY <1>1 DEF IngestSeqHolesExplained
<1>4. nextSeq' = SeqBefore(Len(calls) + 1, life)'
  <2>1. Len(calls') = c
    <3>1. (TypeOK => Len(calls) \in Nat /\ DOMAIN calls = 1 .. Len(calls))'
      BY CallsType, PTL
    <3> QED
      BY <1>2, <3>1
  <2>2. SeqBefore(c + 1, l)' = SeqBefore(c, l) + m + Burned(f)
    BY <1>1, NextCount DEF Counted
  <2>3. SeqBefore(Len(calls) + 1, life)' = SeqBefore(c + 1, l)'
    BY <1>2, <2>1, Zenon DEF SeqBefore, RowsBefore, CallsBefore
  <2> QED
    BY <1>3, <2>2, <2>3 DEF Counted
<1>5. ASSUME NEW i \in DOMAIN rows', NEW n, n = rows'[i].call, NEW k, k = rows'[i].life
      PROVE  rows'[i].seq = SeqBefore(n, k)' + rows'[i].idx - 1
  <2>1. /\ r \in Nat /\ DOMAIN rows = 1 .. r /\ DOMAIN rows' = 1 .. r + m
        /\ \A x \in 1 .. r : rows'[x] = rows[x]
        /\ \A j \in 1 .. m :
              /\ rows'[r + j].call = c /\ rows'[r + j].life = l
              /\ rows'[r + j].seq = nextSeq + j - 1 /\ rows'[r + j].idx = j
    BY <1>1, RowsType DEF Counted, Gives
  <2>2. CASE i \in 1 .. r
    <3>1. rows'[i] = rows[i] /\ rows[i].call \in 1 .. c - 1
      BY <1>2, <2>1, <2>2 DEF HistoryInv, RowsFromCalls
    <3>2. n \in 1 .. Len(calls) + 1
      BY <1>1, <1>2, <1>5, <3>1
    <3>3. SeqBefore(n, k)' = SeqBefore(n, k)
      BY <3>2, EarlierCountsKept DEF Counted
    <3>4. rows[i].seq = SeqBefore(n, k) + rows[i].idx - 1
      BY <1>5, <2>1, <2>2, <3>1 DEF IngestSeqHolesExplained
    <3> QED
      BY <3>1, <3>3, <3>4
  <2>3. CASE i > r
    <3>1. PICK j \in 1 .. m : i = r + j
      <4>1. i - r \in 1 .. m /\ i = r + (i - r)
        BY <2>1, <2>3
      <4> QED
        BY <4>1
    <3>2. n = c /\ k = l /\ rows'[i].seq = nextSeq + j - 1 /\ rows'[i].idx = j
      BY <1>5, <2>1, <3>1
    <3>3. n \in 1 .. Len(calls) + 1
      BY <1>1, <1>2, <3>2, CallsType
    <3>4. SeqBefore(n, k)' = SeqBefore(n, k)
      BY <3>3, EarlierCountsKept DEF Counted
    <3> QED
      BY <1>3, <3>2, <3>4
  <2> QED
    BY <2>1, <2>2, <2>3
<1> QED
  BY <1>4, <1>5 DEF IngestSeqHolesExplained

(* A new process starts at 0, and no row or call is its own yet. *)
LEMMA RestartCounts ==
    ASSUME TypeOK, HistoryInv, IngestSeqHolesExplained, Restart
    PROVE  IngestSeqHolesExplained'
<1>1. rows' = rows /\ calls' = calls /\ life' = life + 1 /\ nextSeq' = 0 /\ life \in Nat
  BY DEF Restart, TypeOK
<1>2. PICK n, l : n = Len(calls) + 1 /\ l = life + 1
  OBVIOUS
<1>3. \A k \in DOMAIN calls : calls[k].life # l
  BY <1>1, <1>2, CallsType DEF HistoryInv, CallsNotLater
<1>4. \A i \in DOMAIN rows : rows[i].life # l
  BY <1>3 DEF HistoryInv, RowsFromCalls, RowOf
<1>5. CallsBefore(n, l) = {} /\ RowsBefore(n, l) = {}
  BY <1>3, <1>4 DEF CallsBefore, RowsBefore
<1>6. SeqBefore(n, l) = 0
  <2>1. IsFiniteSet({}) /\ Cardinality({}) = 0
    BY FS_EmptySet
  <2>2. SumFunctionOnSet(BurnedBy, {}) = 0
    BY <2>1, SumStep
  <2> QED
    BY <1>5, <2>1, <2>2 DEF SeqBefore
<1>7. \A x, y : SeqBefore(x, y)' = SeqBefore(x, y)
  BY <1>1, Zenon DEF SeqBefore, RowsBefore, CallsBefore, BurnedBy
<1>8. SeqBefore(Len(calls) + 1, life)' = SeqBefore(n, l)'
  BY <1>1, <1>2, Zenon DEF SeqBefore, RowsBefore, CallsBefore
<1>9. nextSeq' = SeqBefore(Len(calls) + 1, life)'
  BY <1>1, <1>6, <1>7, <1>8, Zenon
<1>10. ASSUME NEW i \in DOMAIN rows', NEW x, x = rows'[i].call, NEW y, y = rows'[i].life
       PROVE  rows'[i].seq = SeqBefore(x, y)' + rows'[i].idx - 1
  BY <1>1, <1>7, <1>10 DEF IngestSeqHolesExplained
<1> QED
  BY <1>9, <1>10 DEF IngestSeqHolesExplained

LEMMA QuietCounts ==
    ASSUME IngestSeqHolesExplained, UNCHANGED <<nextSeq, rows, calls, life>>
    PROVE  IngestSeqHolesExplained'
BY DEF IngestSeqHolesExplained, SeqBefore, RowsBefore, CallsBefore, BurnedBy

LEMMA CountStep ==
    ASSUME TypeOK, TypeOK', HistoryInv, IngestSeqHolesExplained, [Next]_vars
    PROVE  IngestSeqHolesExplained'
<1>1. ASSUME NEW f \in Frames, ProcessEmits(f) PROVE IngestSeqHolesExplained'
  <2>1. Len(Entries[f]) \in Nat
    BY EntriesType
  <2> QED
    BY <1>1, <2>1, EmitCounts, CountedStep
<1>2. ASSUME NEW f \in Frames,
             ProcessSkips(f) \/ ProcessRejectsEnvelope(f) \/ ProcessRejectsEntry(f) \/ ProcessRaises(f)
      PROVE  IngestSeqHolesExplained'
  <2>1. Counted(f, 0)
    BY <1>2, RejectCounts
  <2>2. \A j \in 1 .. 0 :
           rows'[Len(rows) + j].seq = nextSeq + j - 1 /\ rows'[Len(rows) + j].idx = j
    OBVIOUS
  <2> QED
    BY <2>1, <2>2, CountedStep
<1>3. CASE MarkReconnectBoundary \/ DrainQuarantine \/ UNCHANGED vars
  BY <1>3, QuietCounts DEF MarkReconnectBoundary, DrainQuarantine, vars
<1>4. CASE Restart
  BY <1>4, RestartCounts
<1> QED
  BY <1>1, <1>2, <1>3, <1>4 DEF Next

LEMMA InitCounts == Init => IngestSeqHolesExplained
<1> SUFFICES ASSUME Init PROVE IngestSeqHolesExplained
  OBVIOUS
<1>1. DOMAIN rows = {} /\ DOMAIN calls = {} /\ nextSeq = 0
  BY DEF Init
<1>2. PICK n, l : n = Len(calls) + 1 /\ l = life
  OBVIOUS
<1>3. CallsBefore(n, l) = {} /\ RowsBefore(n, l) = {}
  BY <1>1 DEF CallsBefore, RowsBefore
<1>4. IsFiniteSet({}) /\ Cardinality({}) = 0
  BY FS_EmptySet
<1>5. SumFunctionOnSet(BurnedBy, {}) = 0
  BY <1>4, SumStep
<1>6. SeqBefore(n, l) = 0
  BY <1>3, <1>4, <1>5 DEF SeqBefore
<1> QED
  BY <1>1, <1>2, <1>6 DEF IngestSeqHolesExplained

(* Every number ever taken is on a row or was burned by a discarded frame: *)
(* a row's ingest_seq is the count of the rows returned before it by its   *)
(* process plus the numbers of the frames discarded before it, and so is   *)
(* the counter (IngestSeqCounter.next, build_transaction_tick_row).        *)
THEOREM HolesCorrect == Spec => []IngestSeqHolesExplained
<1>1. Init => IngestSeqHolesExplained
  BY InitCounts
<1>2. TypeOK /\ TypeOK' /\ HistoryInv /\ IngestSeqHolesExplained /\ [Next]_vars
         => IngestSeqHolesExplained'
  BY CountStep
<1> QED
  BY <1>1, <1>2, HistoryInvariant, PTL DEF Spec
----------------------------------------------------------------------------
(* The loop over the entries of a frame. *)

(* What the detector knows after i entries, symbol by symbol. *)
NewestOf(S) == IF S = {} THEN NoTs ELSE Max(S)
Known(mem, es, i) == [s \in Symbols |-> NewestOf(Seen(mem, es, i + 1, s))]

LEMMA NewestFacts ==
    ASSUME NEW S \in SUBSET Times, S # {}
    PROVE  /\ NewestOf(S) \in S /\ NewestOf(S) \in Times /\ NewestOf(S) # NoTs
           /\ \A t \in S : t <= NewestOf(S)
<1>1. Max(S) \in S /\ \A t \in S : t <= Max(S)
  BY MaxOfTimes
<1>2. NewestOf(S) = Max(S)
  BY DEF NewestOf
<1> QED
  BY <1>1, <1>2, GapAssumption

LEMMA NewestIs ==
    ASSUME NEW S \in SUBSET Times, NEW x \in S, \A t \in S : t <= x
    PROVE  NewestOf(S) = x
<1>1. NewestOf(S) \in S /\ x <= NewestOf(S) /\ NewestOf(S) <= x
  BY NewestFacts
<1>2. PICK y : y = NewestOf(S)
  OBVIOUS
<1>3. y \in Times /\ x \in Times /\ x <= y /\ y <= x
  BY <1>1, <1>2
<1>4. y = x
  BY <1>3, GapAssumption DEF Times
<1> QED
  BY <1>2, <1>4

(* Entry i adds its time to what is known of its symbol, and of no other. *)
LEMMA SeenGrows ==
    ASSUME NEW mem \in Memory, NEW f \in Frames, NEW i \in 1 .. Len(Entries[f]), NEW s \in Symbols
    PROVE  /\ s = Entries[f][i].symbol =>
                 \A u : u \in Seen(mem, Entries[f], i + 1, s)
                           <=> u \in Seen(mem, Entries[f], i, s) \/ u = Entries[f][i].ts
           /\ s # Entries[f][i].symbol =>
                 Seen(mem, Entries[f], i + 1, s) = Seen(mem, Entries[f], i, s)
<1>1. PICK es : es = Entries[f]
  OBVIOUS
<1>2. DOMAIN es = 1 .. Len(es) /\ Len(es) \in Nat /\ i \in DOMAIN es
  BY <1>1, EntriesType
<1>3. {k \in DOMAIN es : k < i + 1 /\ es[k].symbol = s} =
         {k \in DOMAIN es : k < i /\ es[k].symbol = s} \cup
            (IF s = es[i].symbol THEN {i} ELSE {})
  BY <1>2
<1>4. PICK K : K = {k \in DOMAIN es : k < i /\ es[k].symbol = s}
  OBVIOUS
<1>5. {es[k].ts : k \in K \cup (IF s = es[i].symbol THEN {i} ELSE {})} =
         {es[k].ts : k \in K} \cup (IF s = es[i].symbol THEN {es[i].ts} ELSE {})
  OBVIOUS
<1>6. /\ Seen(mem, es, i + 1, s) =
            {es[k].ts : k \in K \cup (IF s = es[i].symbol THEN {i} ELSE {})}
               \cup (IF mem[s] = NoTs THEN {} ELSE {mem[s]})
      /\ Seen(mem, es, i, s) =
            {es[k].ts : k \in K} \cup (IF mem[s] = NoTs THEN {} ELSE {mem[s]})
  BY <1>3, <1>4 DEF Seen
<1> QED
  BY <1>1, <1>5, <1>6

LEMMA KnownAtStart ==
    ASSUME NEW mem \in Memory, NEW f \in Frames
    PROVE  Known(mem, Entries[f], 0) = mem
<1>1. PICK es : es = Entries[f]
  OBVIOUS
<1>2. DOMAIN es = 1 .. Len(es) /\ Len(es) \in Nat
  BY <1>1, EntriesType
<1>3. ASSUME NEW s \in Symbols PROVE NewestOf(Seen(mem, es, 0 + 1, s)) = mem[s]
  <2>1. {k \in DOMAIN es : k < 0 + 1 /\ es[k].symbol = s} = {}
    BY <1>2
  <2>2. Seen(mem, es, 0 + 1, s) = IF mem[s] = NoTs THEN {} ELSE {mem[s]}
    BY <2>1 DEF Seen
  <2>3. CASE mem[s] = NoTs
    BY <2>2, <2>3 DEF NewestOf
  <2>4. CASE mem[s] # NoTs
    <3>1. {mem[s]} \in SUBSET Times /\ mem[s] <= mem[s]
      BY <2>4, GapAssumption DEF Memory, Times
    <3>2. NewestOf({mem[s]}) = mem[s]
      BY <3>1, NewestIs
    <3> QED
      BY <2>2, <2>4, <3>2
  <2> QED
    BY <2>3, <2>4
<1>4. mem = [s \in Symbols |-> mem[s]]
  BY DEF Memory
<1>5. Known(mem, es, 0) = [s \in Symbols |-> mem[s]]
  BY <1>3 DEF Known
<1> QED
  BY <1>1, <1>4, <1>5

(* Observing the next entry is what the closed form says. *)
LEMMA KnownStep ==
    ASSUME NEW mem \in Memory, NEW f \in Frames, NEW i \in 1 .. Len(Entries[f])
    PROVE  Known(mem, Entries[f], i) =
              Observe(Known(mem, Entries[f], i - 1), Entries[f][i].symbol, Entries[f][i].ts)
<1>1. PICK es, a, t, old : /\ es = Entries[f] /\ a = es[i].symbol /\ t = es[i].ts
                           /\ old = Known(mem, es, i - 1)
  OBVIOUS
<1>2. a \in Symbols /\ t \in Times /\ i \in Nat /\ (i - 1) + 1 = i
  BY <1>1, EntriesType
<1>3. PICK S : S = Seen(mem, es, i, a)
  OBVIOUS
<1>4. S \in SUBSET Times /\ old[a] = NewestOf(S)
  <2>1. old = [s \in Symbols |-> NewestOf(Seen(mem, es, i, s))]
    BY <1>1, <1>2 DEF Known
  <2> QED
    BY <1>1, <1>2, <1>3, <2>1, SeenType
<1>5. ASSUME NEW s \in Symbols, s # a
      PROVE  Known(mem, es, i)[s] = old[s]
  <2>1. Seen(mem, es, i + 1, s) = Seen(mem, es, i, s)
    <3>1. s # Entries[f][i].symbol
      BY <1>1, <1>5
    <3>2. Seen(mem, Entries[f], i + 1, s) = Seen(mem, Entries[f], i, s)
      BY <3>1, SeenGrows
    <3> QED
      BY <1>1, <3>2, Zenon
  <2> QED
    BY <1>1, <1>2, <2>1 DEF Known
<1>6. Known(mem, es, i)[a] = NewestOf(S \cup {t})
  <2>1. Seen(mem, es, i + 1, a) = S \cup {t}
    <3>1. a = Entries[f][i].symbol /\ t = Entries[f][i].ts /\ S = Seen(mem, Entries[f], i, a)
      BY <1>1, <1>3, Zenon
    <3>2. \A u : u \in Seen(mem, Entries[f], i + 1, a)
                   <=> u \in Seen(mem, Entries[f], i, a) \/ u = Entries[f][i].ts
      BY <1>2, <3>1, SeenGrows
    <3>3. \A u : u \in Seen(mem, es, i + 1, a) <=> u \in S \/ u = t
      BY <1>1, <3>1, <3>2, Zenon
    <3> QED
      BY <3>3
  <2> QED
    BY <1>2, <2>1 DEF Known
<1>7. NewestOf(S \cup {t}) = IF old[a] = NoTs \/ t > old[a] THEN t ELSE old[a]
  <2>1. CASE S = {}
    <3>1. old[a] = NoTs
      BY <1>4, <2>1 DEF NewestOf
    <3>2. {t} \in SUBSET Times /\ t <= t /\ S \cup {t} = {t}
      BY <1>2, <2>1 DEF Times
    <3>3. NewestOf({t}) = t
      BY <3>2, NewestIs
    <3> QED
      BY <3>1, <3>2, <3>3
  <2>2. CASE S # {}
    <3>1. old[a] \in S /\ old[a] \in Times /\ old[a] # NoTs /\ \A u \in S : u <= old[a]
      BY <1>4, <2>2, NewestFacts
    <3>2. \A u \in S : u \in Int
      BY <1>4 DEF Times
    <3>3. t \in Int /\ old[a] \in Int /\ S \cup {t} \in SUBSET Times
      BY <1>2, <1>4, <3>1 DEF Times
    <3>4. CASE t > old[a]
      <4>1. \A u \in S \cup {t} : u <= t
        BY <3>1, <3>2, <3>3, <3>4
      <4>2. NewestOf(S \cup {t}) = t
        BY <3>3, <4>1, NewestIs
      <4> QED
        BY <3>4, <4>2
    <3>5. CASE ~ (t > old[a])
      <4>1. \A u \in S \cup {t} : u <= old[a]
        BY <3>1, <3>2, <3>3, <3>5
      <4>2. NewestOf(S \cup {t}) = old[a]
        BY <3>1, <3>3, <4>1, NewestIs
      <4> QED
        BY <3>1, <3>5, <4>2
    <3> QED
      BY <3>4, <3>5
  <2> QED
    BY <2>1, <2>2
<1>8. PICK new : new = Known(mem, es, i)
  OBVIOUS
<1>9. new = [s \in Symbols |-> new[s]] /\ old = [s \in Symbols |-> old[s]]
  BY <1>1, <1>8 DEF Known
<1>10. new[a] = (IF old[a] = NoTs \/ t > old[a] THEN t ELSE old[a])
       /\ \A s \in Symbols : s # a => new[s] = old[s]
  BY <1>5, <1>6, <1>7, <1>8
<1>11. new = Observe(old, a, t)
  <2>1. CASE old[a] = NoTs \/ t > old[a]
    <3>1. new[a] = t
      BY <1>10, <2>1
    <3>2. Observe(old, a, t) = [old EXCEPT ![a] = t]
      BY <2>1 DEF Observe
    <3> QED
      BY <1>2, <1>9, <1>10, <3>1, <3>2
  <2>2. CASE ~ (old[a] = NoTs \/ t > old[a])
    <3>1. new[a] = old[a] /\ Observe(old, a, t) = old
      BY <1>10, <2>2 DEF Observe
    <3> QED
      BY <1>9, <1>10, <3>1
  <2> QED
    BY <2>1, <2>2
<1> QED
  BY <1>1, <1>8, <1>11

(* The loop and its closed form are the same. *)
LEMMA LoopIsKnown ==
    ASSUME NEW mem \in Memory, NEW f \in Frames
    PROVE  \A i \in 0 .. Len(Entries[f]) :
              LoopMemory(mem, Entries[f])[i] = Known(mem, Entries[f], i)
<1>1. PICK es, n : es = Entries[f] /\ n = Len(es)
  OBVIOUS
<1>2. n \in Nat
  BY <1>1, EntriesType
<1> DEFINE Loop(g) ==
              g = [i \in 0 .. n |->
                      IF i = 0 THEN mem ELSE Observe(g[i - 1], es[i].symbol, es[i].ts)]
<1>3. PICK k : k = [i \in 0 .. n |-> Known(mem, es, i)]
  OBVIOUS
<1>4. Loop(k)
  <2>1. ASSUME NEW i \in 0 .. n
        PROVE  Known(mem, es, i) =
                  IF i = 0 THEN mem ELSE Observe(k[i - 1], es[i].symbol, es[i].ts)
    <3>1. CASE i = 0
      BY <1>1, <3>1, KnownAtStart
    <3>2. CASE i # 0
      <4>1. i \in 1 .. n /\ i - 1 \in 0 .. n
        BY <1>2, <3>2
      <4>2. k[i - 1] = Known(mem, es, i - 1)
        BY <1>3, <4>1
      <4>3. Known(mem, es, i) = Observe(Known(mem, es, i - 1), es[i].symbol, es[i].ts)
        BY <1>1, <4>1, KnownStep
      <4> QED
        BY <3>2, <4>2, <4>3
    <3> QED
      BY <3>1, <3>2
  <2> QED
    BY <1>3, <2>1, Zenon
<1>5. PICK h : Loop(h) /\ LoopMemory(mem, es) = h
  <2>1. LoopMemory(mem, es) = CHOOSE g : Loop(g)
    BY <1>1, Zenon DEF LoopMemory
  <2> QED
    BY <1>4, <2>1, Zenon
<1>6. /\ h[0] = mem
      /\ \A i \in 1 .. n : h[i] = Observe(h[i - 1], es[i].symbol, es[i].ts)
  <2>1. \A i \in 0 .. n :
           h[i] = IF i = 0 THEN mem ELSE Observe(h[i - 1], es[i].symbol, es[i].ts)
    BY <1>5, Zenon
  <2>2. 0 \in 0 .. n /\ \A i \in 1 .. n : i \in 0 .. n /\ i # 0
    BY <1>2
  <2> QED
    BY <2>1, <2>2
<1> DEFINE N == {i \in Nat : i \in 0 .. n => h[i] = Known(mem, es, i)}
<1>7. 0 \in N
  BY <1>1, <1>6, KnownAtStart
<1>8. ASSUME NEW i \in Nat, i \in N PROVE i + 1 \in N
  <2> SUFFICES ASSUME i + 1 \in 0 .. n PROVE h[i + 1] = Known(mem, es, i + 1)
    OBVIOUS
  <2>1. i \in 0 .. n /\ i + 1 \in 1 .. n /\ (i + 1) - 1 = i
    BY <1>2
  <2>2. PICK j \in 1 .. n : j = i + 1 /\ j - 1 = i
    BY <2>1
  <2>3. h[j] = Observe(h[i], es[j].symbol, es[j].ts)
    BY <1>6, <2>2
  <2>4. Known(mem, es, j) = Observe(Known(mem, es, i), es[j].symbol, es[j].ts)
    BY <1>1, <2>2, KnownStep
  <2>5. h[i] = Known(mem, es, i)
    BY <1>8, <2>1
  <2> QED
    BY <2>2, <2>3, <2>4, <2>5
<1>9. \A i \in Nat : i \in N
  <2> HIDE DEF N
  <2> QED
    BY <1>7, <1>8, NatBySteps
<1>10. \A i \in 0 .. n : h[i] = Known(mem, es, i)
  BY <1>2, <1>9
<1> QED
  BY <1>1, <1>5, <1>10

(* In every reachable memory the closed forms of the tags and of the       *)
(* memory are what the loop of process over the rows of any frame computes *)
(* (GapDetector.observe).                                                  *)
THEOREM LoopCorrect == Spec => []ClosedFormIsLoop
<1>1. TypeOK => ClosedFormIsLoop
  <2> SUFFICES ASSUME TypeOK, NEW f \in Frames
               PROVE  LET es  == Entries[f]
                          mem == LoopMemory(last, es)
                      IN  /\ \A j \in DOMAIN es :
                                JumpAt(last, es, j) <=> IsJump(mem[j - 1], es[j].symbol, es[j].ts)
                          /\ TrackedAfter(last, es) = mem[Len(es)]
    BY DEF ClosedFormIsLoop
  <2>1. PICK es, mem, n : es = Entries[f] /\ mem = LoopMemory(last, es) /\ n = Len(es)
    OBVIOUS
  <2>2. last \in Memory /\ n \in Nat /\ DOMAIN es = 1 .. n
    BY <2>1, EntriesType DEF TypeOK
  <2>3. \A i \in 0 .. n : mem[i] = Known(last, es, i)
    BY <2>1, <2>2, LoopIsKnown
  <2>4. ASSUME NEW j \in DOMAIN es
        PROVE  JumpAt(last, es, j) <=> IsJump(mem[j - 1], es[j].symbol, es[j].ts)
    <3>1. PICK s, t, S : s = es[j].symbol /\ t = es[j].ts /\ S = Seen(last, es, j, s)
      OBVIOUS
    <3>2. s \in Symbols /\ t \in Times /\ S \in SUBSET Times /\ j \in Nat
      BY <2>1, <2>2, <3>1, EntriesType, SeenType
    <3>3. PICK old : old = mem[j - 1][s]
      OBVIOUS
    <3>4. old = NewestOf(S)
      <4>1. j - 1 \in 0 .. n /\ (j - 1) + 1 = j
        BY <2>2, <3>2
      <4>2. mem[j - 1] = Known(last, es, j - 1)
        BY <2>3, <4>1
      <4> QED
        BY <3>1, <3>2, <3>3, <4>1, <4>2 DEF Known
    <3>5. JumpAt(last, es, j) <=> S # {} /\ \A u \in S : t - u > Threshold
      BY <3>1 DEF JumpAt
    <3>6. IsJump(mem[j - 1], s, t) <=> old # NoTs /\ t > old /\ t - old > Threshold
      BY <3>3 DEF IsJump
    <3>7. CASE S = {}
      BY <3>1, <3>4, <3>5, <3>6, <3>7 DEF NewestOf
    <3>8. CASE S # {}
      <4>1. old \in S /\ old \in Times /\ old # NoTs /\ \A u \in S : u <= old
        BY <3>2, <3>4, <3>8, NewestFacts
      <4>2. t \in Int /\ old \in Int /\ Threshold \in Nat /\ \A u \in S : u \in Int
        BY <3>2, <4>1, GapAssumption DEF Times
      <4>3. (\A u \in S : t - u > Threshold) <=> t > old /\ t - old > Threshold
        BY <4>1, <4>2
      <4> QED
        BY <3>1, <3>5, <3>6, <3>8, <4>1, <4>3
    <3> QED
      BY <3>7, <3>8
  <2>5. TrackedAfter(last, es) = mem[n]
    <3>1. n \in 0 .. n
      BY <2>2
    <3>2. Known(last, es, n) = TrackedAfter(last, es)
      BY <2>1 DEF Known, TrackedAfter, NewestOf
    <3> QED
      BY <2>3, <3>1, <3>2
  <2> QED
    BY <2>1, <2>4, <2>5
<1> QED
  BY <1>1, TypeCorrect, PTL
=============================================================================
