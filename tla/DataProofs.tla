----------------------------- MODULE DataProofs -----------------------------
(***************************************************************************)
(* Proofs about the heap of an engine (Memory) and about the values that   *)
(* leave and enter it (Values).                                            *)
(*                                                                         *)
(* The accounting of Memory is right, and its limit holds, for any number  *)
(* of blocks, any sizes and any limits.  WithinLargest is not inductive: a *)
(* block that has passed the check may be counted when the limit has       *)
(* changed, and what fits below the limit must fit below the largest one.  *)
(* That the count is the sum needs no other invariant, but it needs what a *)
(* sum over a finite set is, whose inductions are over the least           *)
(* counterexample.                                                         *)
(*                                                                         *)
(* A value of any depth and width that comes back from a component does so *)
(* as Values says.  The invariant is that it is, at each place, what the   *)
(* conversions up to there make of what was sent, of which the lemmas say  *)
(* what they keep.  As a value is a function from addresses, none of it is *)
(* an induction.                                                           *)
(***************************************************************************)
EXTENDS Memory, Values, TLAPS, FiniteSetTheorems, SequenceTheorems, WellFoundedInduction

-----------------------------------------------------------------------------
(* Sums over finite sets.  Induction is the existence of a least element.  *)

LEMMA Least ==
  ASSUME NEW T \in SUBSET Nat, T # {}
  PROVE  \E x \in T : \A y \in T : ~(y < x)
<1>1. \E x \in T : \A y \in T : ~(<<y, x>> \in OpToRel(<, Nat))
  BY NatLessThanWellFounded, WFMin
<1>2. \A x, y \in T : <<y, x>> \in OpToRel(<, Nat) <=> y < x
  BY DEF OpToRel
<1> QED BY <1>1, <1>2

LEMMA LeastSet ==
  ASSUME NEW S, IsFiniteSet(S), NEW T \in SUBSET SUBSET S, T # {}
  PROVE  \E s \in T : \A x \in s : s \ {x} \notin T
<1> DEFINE C == {Cardinality(s) : s \in T}
<1>1. \A s \in T : Cardinality(s) \in Nat /\ IsFiniteSet(s)
  BY FS_Subset, FS_CardinalityType
<1>2. C \in SUBSET Nat /\ C # {}
  BY <1>1
<1> HIDE DEF C
<1>3. PICK c \in C : \A y \in C : ~(y < c)
  BY <1>2, Least
<1>4. PICK s \in T : Cardinality(s) = c
  BY DEF C
<1>5. \A x \in s : Cardinality(s \ {x}) = c - 1 /\ c - 1 < c
  <2>1. \A x \in s : Cardinality(s \ {x}) = Cardinality(s) - 1
    BY <1>1, FS_RemoveElement
  <2> QED BY <1>2, <1>4, <2>1
<1>6. \A t \in T : Cardinality(t) \in C
  BY DEF C
<1> QED BY <1>3, <1>5, <1>6

\* The element with which a sum goes on.
First(s) == CHOOSE x \in s : TRUE

LEMMA FirstIn == \A s : s # {} => First(s) \in s
BY DEF First

\* The recursive function that the sum is, on the sets in D.
Summed(f, D, g) ==
  g = [s \in D |-> IF s = {} THEN 0 ELSE f[First(s)] + g[s \ {First(s)}]]

LEMMA SumDef ==
  ASSUME NEW S, NEW f
  PROVE  SumFunctionOnSet(f, S) = (CHOOSE g : Summed(f, SUBSET S, g))[S]
BY DEF SumFunctionOnSet, FoldFunctionOnSet, MapThenFoldSet, Summed, First

\* By induction over the sizes of the sets.
LEMMA SummedExists ==
  ASSUME NEW S, IsFiniteSet(S), NEW f, \A x \in S : f[x] \in Int
  PROVE  \E g : Summed(f, SUBSET S, g)
<1> DEFINE Upto(n) == {s \in SUBSET S : Cardinality(s) =< n}
           T == {n \in Nat : ~ \E g : Summed(f, Upto(n), g)}
<1>1. \A s \in SUBSET S : /\ IsFiniteSet(s) /\ Cardinality(s) \in Nat
                          /\ Cardinality(s) =< Cardinality(S)
                          /\ s # {} => Cardinality(s \ {First(s)}) = Cardinality(s) - 1
  <2> SUFFICES ASSUME NEW s \in SUBSET S
               PROVE  /\ IsFiniteSet(s) /\ Cardinality(s) \in Nat
                      /\ Cardinality(s) =< Cardinality(S)
                      /\ s # {} => Cardinality(s \ {First(s)}) = Cardinality(s) - 1
    OBVIOUS
  <2>1. IsFiniteSet(s) /\ Cardinality(s) \in Nat /\ Cardinality(s) =< Cardinality(S)
    BY FS_Subset, FS_CardinalityType
  <2>2. s # {} => Cardinality(s \ {First(s)}) = Cardinality(s) - 1
    BY <2>1, FirstIn, FS_RemoveElement
  <2> QED BY <2>1, <2>2
<1>2. T = {}
  <2>1. SUFFICES ASSUME T # {} PROVE FALSE
    OBVIOUS
  <2>2. PICK n \in T : \A m \in T : ~(m < n)
    <3>1. T \in SUBSET Nat
      OBVIOUS
    <3> HIDE DEF T
    <3> QED BY <2>1, <3>1, Least
  <2>3. n \in Nat /\ ~ \E g : Summed(f, Upto(n), g)
    OBVIOUS
  <2>4. CASE n = 0
    <3> DEFINE g == [s \in Upto(0) |-> 0]
    <3>1. \A s \in Upto(0) : s = {}
      <4> SUFFICES ASSUME NEW s \in SUBSET S, Cardinality(s) =< 0 PROVE s = {}
        OBVIOUS
      <4> HIDE DEF Upto, g, T
      <4>1. IsFiniteSet(s) /\ Cardinality(s) \in Nat
        BY <1>1
      <4> QED BY <4>1, FS_EmptySet
    <3>2. Summed(f, Upto(0), g)
      BY <3>1 DEF Summed
    <3> QED BY <2>3, <2>4, <3>2
  <2>5. CASE n # 0
    <3>1. n - 1 \in Nat /\ n - 1 < n
      BY <2>3, <2>5
    <3>2. PICK h : Summed(f, Upto(n - 1), h)
      BY <2>2, <3>1
    <3> DEFINE next(s) == IF s = {} THEN 0 ELSE f[First(s)] + h[s \ {First(s)}]
               g == [s \in Upto(n) |-> next(s)]
    <3>3. \A s \in Upto(n - 1) : h[s] = next(s)
      BY <3>2 DEF Summed
    <3>4. \A s \in Upto(n) : s # {} => s \ {First(s)} \in Upto(n - 1)
                                        /\ s \ {First(s)} \in Upto(n)
      BY <1>1, <2>3
    <3> HIDE DEF next, Upto
    <3>5. \A s \in Upto(n) : s # {} => g[s \ {First(s)}] = h[s \ {First(s)}]
      BY <3>3, <3>4
    <3>6. \A s \in Upto(n) : next(s) = IF s = {} THEN 0
                                       ELSE f[First(s)] + g[s \ {First(s)}]
      BY <3>5 DEF next
    <3>7. Summed(f, Upto(n), g)
      BY <3>6 DEF Summed
    <3> QED BY <2>3, <3>7
  <2> QED BY <2>4, <2>5
<1>3. Cardinality(S) \in Nat
  BY FS_CardinalityType
<1>4. Upto(Cardinality(S)) = SUBSET S
  BY <1>1
<1> QED BY <1>2, <1>3, <1>4

\* Two such functions agree where what they sum does.
LEMMA SummedSame ==
  ASSUME NEW S, IsFiniteSet(S), NEW D1, NEW D2, NEW f1, NEW f2, NEW g1, NEW g2,
         Summed(f1, D1, g1), Summed(f2, D2, g2),
         SUBSET S \subseteq D1, SUBSET S \subseteq D2,
         \A x \in S : f1[x] = f2[x]
  PROVE  g1[S] = g2[S]
<1> DEFINE T == {s \in SUBSET S : g1[s] # g2[s]}
<1>1. SUFFICES ASSUME T # {} PROVE FALSE
  OBVIOUS
<1>2. PICK s \in T : \A x \in s : s \ {x} \notin T
  BY <1>1, LeastSet
<1>3. s \in SUBSET S /\ s \in D1 /\ s \in D2 /\ g1[s] # g2[s]
  BY <1>2
<1>4. /\ g1[s] = IF s = {} THEN 0 ELSE f1[First(s)] + g1[s \ {First(s)}]
      /\ g2[s] = IF s = {} THEN 0 ELSE f2[First(s)] + g2[s \ {First(s)}]
  BY <1>3 DEF Summed
<1>5. s # {} => First(s) \in s /\ First(s) \in S
  BY <1>3, FirstIn
<1>6. s # {} => g1[s \ {First(s)}] = g2[s \ {First(s)}]
  BY <1>2, <1>3, <1>5
<1> QED BY <1>3, <1>4, <1>5, <1>6

\* The sum of a function over a finite set.
LEMMA SumSame ==
  ASSUME NEW S, IsFiniteSet(S), NEW f1, NEW f2,
         \A x \in S : f1[x] \in Int, \A x \in S : f1[x] = f2[x]
  PROVE  SumFunctionOnSet(f1, S) = SumFunctionOnSet(f2, S)
<1> DEFINE g1 == CHOOSE g : Summed(f1, SUBSET S, g)
           g2 == CHOOSE g : Summed(f2, SUBSET S, g)
<1>1. \A x \in S : f2[x] \in Int
  OBVIOUS
<1>2. Summed(f1, SUBSET S, g1) /\ Summed(f2, SUBSET S, g2)
  BY <1>1, SummedExists
<1> HIDE DEF g1, g2
<1>3. g1[S] = g2[S]
  BY <1>2, SummedSame
<1> QED BY <1>3, SumDef DEF g1, g2

LEMMA SumFirst ==
  ASSUME NEW S, IsFiniteSet(S), NEW f, \A x \in S : f[x] \in Int
  PROVE  SumFunctionOnSet(f, S) =
           IF S = {} THEN 0 ELSE f[First(S)] + SumFunctionOnSet(f, S \ {First(S)})
<1> DEFINE R == S \ {First(S)}
           g1 == CHOOSE g : Summed(f, SUBSET S, g)
           g2 == CHOOSE g : Summed(f, SUBSET R, g)
<1>1. IsFiniteSet(R) /\ \A x \in R : f[x] \in Int
  BY FS_RemoveElement
<1>2. Summed(f, SUBSET S, g1) /\ Summed(f, SUBSET R, g2)
  BY <1>1, SummedExists
<1>3. SumFunctionOnSet(f, S) = g1[S] /\ SumFunctionOnSet(f, R) = g2[R]
  BY SumDef
<1>4. SUBSET R \subseteq SUBSET S /\ SUBSET R \subseteq SUBSET R
  OBVIOUS
<1> HIDE DEF g1, g2, R
<1>5. g1[R] = g2[R]
  BY <1>1, <1>2, <1>4, SummedSame
<1>6. g1[S] = IF S = {} THEN 0 ELSE f[First(S)] + g1[R]
  BY <1>2 DEF Summed, R
<1> QED BY <1>3, <1>5, <1>6 DEF R

\* Of natural numbers it is one.
LEMMA SumNat ==
  ASSUME NEW S, IsFiniteSet(S), NEW f, \A x \in S : f[x] \in Nat
  PROVE  SumFunctionOnSet(f, S) \in Nat
<1> DEFINE T == {s \in SUBSET S : SumFunctionOnSet(f, s) \notin Nat}
<1>1. SUFFICES ASSUME T # {} PROVE FALSE
  OBVIOUS
<1>2. PICK s \in T : \A x \in s : s \ {x} \notin T
  BY <1>1, LeastSet
<1>3. s \in SUBSET S /\ SumFunctionOnSet(f, s) \notin Nat
  BY <1>2
<1>4. SumFunctionOnSet(f, s) =
        IF s = {} THEN 0 ELSE f[First(s)] + SumFunctionOnSet(f, s \ {First(s)})
  <2>1. IsFiniteSet(s) /\ \A x \in s : f[x] \in Int
    BY <1>3, FS_Subset
  <2> QED BY <2>1, SumFirst
<1>5. s # {} => f[First(s)] \in Nat /\ SumFunctionOnSet(f, s \ {First(s)}) \in Nat
  BY <1>2, <1>3, FirstIn
<1> QED BY <1>3, <1>4, <1>5

\* Any element may be summed first.
LEMMA SumRemove ==
  ASSUME NEW S, IsFiniteSet(S), NEW f, \A x \in S : f[x] \in Nat, NEW y \in S
  PROVE  SumFunctionOnSet(f, S) = f[y] + SumFunctionOnSet(f, S \ {y})
<1> DEFINE sum(s) == SumFunctionOnSet(f, s)
           T == {s \in SUBSET S : \E x \in s : sum(s) # f[x] + sum(s \ {x})}
<1>1. SUFFICES ASSUME T # {} PROVE FALSE
  OBVIOUS
<1>2. \A s \in SUBSET S : /\ sum(s) \in Nat
                          /\ s # {} => First(s) \in s
                          /\ s # {} => sum(s) = f[First(s)] + sum(s \ {First(s)})
  <2> SUFFICES ASSUME NEW s \in SUBSET S
               PROVE  /\ sum(s) \in Nat
                      /\ s # {} => First(s) \in s
                      /\ s # {} => sum(s) = f[First(s)] + sum(s \ {First(s)})
    OBVIOUS
  <2>1. IsFiniteSet(s) /\ (\A x \in s : f[x] \in Nat) /\ \A x \in s : f[x] \in Int
    BY FS_Subset
  <2> QED BY <2>1, FirstIn, SumNat, SumFirst
<1>3. PICK s \in T : \A x \in s : s \ {x} \notin T
  BY <1>1, LeastSet
<1>4. s \in SUBSET S
  BY <1>3
<1>5. PICK x \in s : sum(s) # f[x] + sum(s \ {x})
  BY <1>3
<1> DEFINE z == First(s)
<1>6. z \in s /\ sum(s) = f[z] + sum(s \ {z}) /\ z # x
  BY <1>2, <1>4, <1>5
<1> HIDE DEF z, sum
<1>7. s \ {z} \in SUBSET S /\ s \ {x} \in SUBSET S /\ x \in s \ {z} /\ z \in s \ {x}
      /\ (s \ {z}) \ {x} = (s \ {x}) \ {z} /\ (s \ {z}) \ {x} \in SUBSET S
  BY <1>4, <1>5, <1>6
<1>8. /\ sum(s \ {z}) = f[x] + sum((s \ {z}) \ {x})
      /\ sum(s \ {x}) = f[z] + sum((s \ {z}) \ {x})
  BY <1>3, <1>5, <1>6, <1>7
<1>9. f[x] \in Nat /\ f[z] \in Nat /\ sum((s \ {z}) \ {x}) \in Nat
  BY <1>2, <1>4, <1>5, <1>6, <1>7
<1> QED BY <1>5, <1>6, <1>8, <1>9

-----------------------------------------------------------------------------
(* The invariant.                                                          *)

\* A block that passed the check still fits below the largest limit.
GrowingFits ==
  \A g \in growing : allocatedMemory + Growth(g.block, g.total) =< largest

IInv == TypeOK /\ maxMemory =< largest /\ WithinLargest /\ GrowingFits

-----------------------------------------------------------------------------
\* The change that a new size makes to the count is a number.
LEMMA GrowthInt ==
  ASSUME TypeOK, NEW b \in Blocks, NEW n \in Sizes
  PROVE  Growth(b, n + Header) \in Int
BY MemoryAssumption DEF TypeOK, Growth, Live

\* Every live block has a size that is a natural number.
LEMMA SizeNat ==
  ASSUME TypeOK, NEW b \in Live
  PROVE  size[b] \in Nat
BY MemoryAssumption DEF TypeOK, Live

\* The limits are natural numbers.
LEMMA LimitsNat ==
  ASSUME TypeOK
  PROVE  maxMemory \in Nat /\ largest \in Nat
BY MemoryAssumption DEF TypeOK

LEMMA InitIInv == Init => IInv
<1> SUFFICES ASSUME Init PROVE IInv
  OBVIOUS
<1>1. TypeOK
  <2>1. initialized \in BOOLEAN
    BY Zenon DEF Init
  <2> QED BY <2>1, MemoryAssumption DEF Init, TypeOK, Optional
<1>2. maxMemory =< largest /\ WithinLargest /\ GrowingFits
  BY MemoryAssumption DEF Init, WithinLargest, GrowingFits
<1> QED BY <1>1, <1>2 DEF IInv

-----------------------------------------------------------------------------
\* Every step keeps the invariant.
LEMMA NextIInv == IInv /\ [Next]_vars => IInv'
<1> SUFFICES ASSUME IInv, [Next]_vars PROVE IInv'
  OBVIOUS
<1> USE MemoryAssumption
<1>1. CASE Initialize
  <2>1. TypeOK'
    BY <1>1 DEF IInv, Initialize, TypeOK, Optional
  <2>2. (maxMemory =< largest /\ WithinLargest /\ GrowingFits)'
    BY <1>1 DEF Initialize, WithinLargest, GrowingFits
  <2> QED BY <2>1, <2>2 DEF IInv
<1>2. CASE RecomputeMemory
  <2>1. PICK limit \in Limits :
          IF initialized
            THEN /\ maxMemory' = limit
                 /\ largest' = IF limit > largest THEN limit ELSE largest
            ELSE UNCHANGED <<maxMemory, largest>>
    BY <1>2 DEF RecomputeMemory
  <2>2. UNCHANGED <<initialized, engine, allocatedMemory, size, growing>>
    BY <1>2 DEF RecomputeMemory
  <2>3. TypeOK'
    BY <2>1, <2>2 DEF IInv, TypeOK
  <2>4. largest \in Nat /\ largest' \in Nat /\ largest =< largest' /\ maxMemory' =< largest'
    BY <2>1 DEF IInv, TypeOK
  <2>5. WithinLargest'
    BY <2>2, <2>4 DEF IInv, TypeOK, WithinLargest
  <2>6. GrowingFits'
    <3> SUFFICES ASSUME NEW g \in growing
                 PROVE  allocatedMemory + Growth(g.block, g.total) =< largest'
      BY <2>2 DEF GrowingFits, Growth, Live
    <3>1. \E b \in Blocks, n \in Sizes : g = [block |-> b, total |-> n + Header]
      <4>1. g \in [block : Blocks, total : {n + Header : n \in Sizes}]
        BY DEF IInv, TypeOK, Optional
      <4> QED BY <4>1
    <3>2. Growth(g.block, g.total) \in Int
      BY <3>1, GrowthInt DEF IInv
    <3> QED BY <2>4, <3>2 DEF IInv, TypeOK, GrowingFits
  <2> QED BY <2>3, <2>4, <2>5, <2>6 DEF IInv
<1>3. CASE Close \/ Destroyed \/ UNCHANGED vars
  <2>1. UNCHANGED <<maxMemory, allocatedMemory, size, growing, largest>>
        /\ initialized' \in BOOLEAN /\ engine' \in {"none", "live", "destroyed"}
    BY <1>3, Zenon DEF Close, Destroyed, vars, IInv, TypeOK
  <2>2. TypeOK'
    BY <2>1 DEF IInv, TypeOK
  <2>3. (maxMemory =< largest /\ WithinLargest /\ GrowingFits)'
    BY <2>1 DEF IInv, WithinLargest, GrowingFits, Growth, Live
  <2> QED BY <2>2, <2>3 DEF IInv
<1>4. ASSUME NEW b \in Blocks, NEW n \in Sizes, Grow(b, n + Header)
      PROVE  IInv'
  <2>1. UNCHANGED <<initialized, engine, maxMemory, allocatedMemory, size, largest>>
    BY <1>4 DEF Grow
  <2>2. growing' \in {{}, {[block |-> b, total |-> n + Header]}}
    BY <1>4 DEF Grow
  <2>3. TypeOK'
    BY <2>1, <2>2 DEF IInv, TypeOK, Optional
  <2>4. (maxMemory =< largest /\ WithinLargest)'
    BY <2>1 DEF IInv, WithinLargest
  <2>5. Growth(b, n + Header) \in Int
    BY GrowthInt DEF IInv
  <2>6. CASE Fits(b, n + Header)
    <3>1. allocatedMemory + Growth(b, n + Header) =< largest
      <4> DEFINE grown == Growth(b, n + Header)
      <4>1. grown \in Int /\ allocatedMemory \in Int /\ maxMemory \in Nat /\ largest \in Nat
        <5>1. TypeOK
          BY DEF IInv
        <5>2. allocatedMemory \in Int
          BY <5>1 DEF TypeOK
        <5> QED BY <2>5, <5>1, <5>2, LimitsNat
      <4>2. allocatedMemory + grown =< maxMemory /\ maxMemory =< largest
        BY <2>6 DEF IInv, Fits
      <4> HIDE DEF grown
      <4>3. allocatedMemory + grown =< largest
        BY <4>1, <4>2
      <4> QED BY <4>3 DEF grown
    <3>2. GrowingFits'
      BY <2>1, <2>2, <3>1 DEF GrowingFits, Growth, Live
    <3> QED BY <2>3, <2>4, <3>2 DEF IInv
  <2>7. CASE ~Fits(b, n + Header)
    <3>1. growing' = {}
      BY <1>4, <2>7 DEF Grow
    <3> QED BY <2>3, <2>4, <3>1 DEF IInv, GrowingFits
  <2> QED BY <2>6, <2>7
<1>5. ASSUME NEW b \in Blocks, NEW n \in Sizes, Shrink(b, n + Header)
      PROVE  IInv'
  <2>1. /\ UNCHANGED <<initialized, engine, maxMemory, growing, largest>>
        /\ growing = {} /\ Growth(b, n + Header) =< 0
        /\ allocatedMemory' = allocatedMemory + Growth(b, n + Header)
        /\ size' = [size EXCEPT ![b] = n + Header]
    BY <1>5 DEF Shrink
  <2>2. Growth(b, n + Header) \in Int
    BY GrowthInt DEF IInv
  <2>3. TypeOK'
    BY <2>1, <2>2 DEF IInv, TypeOK
  <2>4. (maxMemory =< largest /\ WithinLargest /\ GrowingFits)'
    <3>1. allocatedMemory \in Int /\ largest \in Nat
      BY LimitsNat DEF IInv, TypeOK
    <3>2. allocatedMemory' =< largest
      BY <2>1, <2>2, <3>1 DEF IInv, WithinLargest
    <3> QED BY <2>1, <3>2 DEF IInv, WithinLargest, GrowingFits
  <2> QED BY <2>3, <2>4 DEF IInv
<1>6. ASSUME NEW b \in Blocks, Free(b)
      PROVE  IInv'
  <2>1. /\ UNCHANGED <<initialized, engine, maxMemory, growing, largest>>
        /\ growing = {} /\ b \in Live
        /\ allocatedMemory' = IF BadFree(b) THEN 0 ELSE allocatedMemory - size[b]
        /\ size' = [size EXCEPT ![b] = NotAllocated]
    BY <1>6 DEF Free
  <2>2. size[b] \in Nat
    BY <2>1, SizeNat DEF IInv
  <2>3. TypeOK'
    BY <2>1, <2>2 DEF IInv, TypeOK
  <2>4. (maxMemory =< largest /\ WithinLargest /\ GrowingFits)'
    <3>1. allocatedMemory \in Int /\ largest \in Nat
      BY LimitsNat DEF IInv, TypeOK
    <3>2. allocatedMemory' =< largest
      BY <2>1, <2>2, <3>1 DEF IInv, WithinLargest
    <3> QED BY <2>1, <3>2 DEF IInv, WithinLargest, GrowingFits
  <2> QED BY <2>3, <2>4 DEF IInv
<1>7. CASE Count
  <2>1. PICK g \in growing :
          /\ allocatedMemory' = allocatedMemory + Growth(g.block, g.total)
          /\ size' = [size EXCEPT ![g.block] = g.total]
          /\ growing' = {}
          /\ UNCHANGED <<initialized, engine, maxMemory, largest>>
    BY <1>7 DEF Count
  <2>2. PICK b \in Blocks, n \in Sizes : g = [block |-> b, total |-> n + Header]
    BY <2>1 DEF IInv, TypeOK, Optional
  <2>3. Growth(g.block, g.total) \in Int
    BY <2>2, GrowthInt DEF IInv
  <2>4. TypeOK'
    <3>1. allocatedMemory' \in Int
      BY <2>1, <2>3 DEF IInv, TypeOK
    <3>2. size' \in [Blocks -> {NotAllocated} \cup {m + Header : m \in Sizes}]
      BY <2>1, <2>2 DEF IInv, TypeOK
    <3>3. growing' \in Optional([block : Blocks, total : {m + Header : m \in Sizes}])
      BY <2>1 DEF Optional
    <3> QED BY <2>1, <3>1, <3>2, <3>3 DEF IInv, TypeOK
  <2>5. (maxMemory =< largest /\ WithinLargest /\ GrowingFits)'
    <3>1. allocatedMemory' =< largest
      BY <2>1 DEF IInv, GrowingFits
    <3> QED BY <2>1, <3>1 DEF IInv, WithinLargest, GrowingFits
  <2> QED BY <2>4, <2>5 DEF IInv
<1> QED BY <1>1, <1>2, <1>3, <1>4, <1>5, <1>6, <1>7 DEF Next, Allocator

-----------------------------------------------------------------------------
\* Every field of the accounting keeps its type.
THEOREM TypeCorrect == Spec => []TypeOK
<1>1. IInv => TypeOK
  BY DEF IInv
<1> QED BY InitIInv, NextIInv, <1>1, PTL DEF Spec

\* The memory of an engine never exceeds the largest limit that
\* native_set_max_memory gave it, whenever it was called.
THEOREM LimitHolds == Spec => []WithinLargest
<1>1. IInv => WithinLargest
  BY DEF IInv
<1> QED BY InitIInv, NextIInv, <1>1, PTL DEF Spec

-----------------------------------------------------------------------------
(* The count.                                                              *)

SumInv == TypeOK /\ allocatedMemory = SumFunctionOnSet(size, Live)

LEMMA LiveFinite ==
  ASSUME TypeOK
  PROVE  /\ IsFiniteSet(Live) /\ Live \subseteq Blocks
         /\ \A b \in Live : size[b] \in Nat
<1>1. Live \subseteq Blocks
  BY DEF Live
<1> QED BY <1>1, SizeNat, FS_Subset, MemoryAssumption

\* A block that gets a size adds the difference to the sum.
LEMMA SumGrows ==
  ASSUME TypeOK, NEW b \in Blocks, NEW n \in Sizes,
         size' = [size EXCEPT ![b] = n + Header]
  PROVE  SumFunctionOnSet(size', Live') = SumFunctionOnSet(size, Live) + Growth(b, n + Header)
<1> DEFINE rest == Live \ {b}
<1>1. /\ Live' = rest \cup {b} /\ b \in Live' /\ Live' \ {b} = rest
      /\ size'[b] = n + Header /\ n + Header \in Nat
      /\ \A c \in rest : size'[c] = size[c]
  BY MemoryAssumption DEF TypeOK, Live, NotAllocated
<1>2. IsFiniteSet(rest) /\ IsFiniteSet(Live') /\ (\A c \in rest : size[c] \in Nat)
      /\ \A c \in Live' : size'[c] \in Nat
  BY <1>1, LiveFinite, FS_RemoveElement, FS_AddElement
<1> HIDE DEF rest
<1>3. SumFunctionOnSet(size', Live') = n + Header + SumFunctionOnSet(size', rest)
  <2>1. SumFunctionOnSet(size', Live') = size'[b] + SumFunctionOnSet(size', Live' \ {b})
    <3>1. PICK L, f : L = Live' /\ f = size'
      OBVIOUS
    <3>2. IsFiniteSet(L) /\ (\A c \in L : f[c] \in Nat) /\ b \in L
      BY <1>1, <1>2, <3>1
    <3>3. SumFunctionOnSet(f, L) = f[b] + SumFunctionOnSet(f, L \ {b})
      BY <3>2, SumRemove
    <3> QED BY <3>1, <3>3
  <2> QED BY <1>1, <2>1
<1>4. SumFunctionOnSet(size', rest) = SumFunctionOnSet(size, rest)
  <2>1. (\A c \in rest : size'[c] \in Int) /\ \A c \in rest : size'[c] = size[c]
    BY <1>1, <1>2
  <2> QED BY <1>2, <2>1, SumSame
<1>5. SumFunctionOnSet(size, rest) \in Nat
  BY <1>2, SumNat
<1>6. CASE b \in Live
  <2>1. size[b] \in Nat
    BY <1>6, SizeNat
  <2>2. SumFunctionOnSet(size, Live) = size[b] + SumFunctionOnSet(size, rest)
    BY <1>6, LiveFinite, SumRemove DEF rest
  <2> DEFINE total == n + Header
  <2>3. total \in Nat
    BY <1>1
  <2> HIDE DEF total
  <2>4. Growth(b, total) = total - size[b]
    BY <1>6 DEF Growth
  <2>5. total + SumFunctionOnSet(size, rest) =
          (size[b] + SumFunctionOnSet(size, rest)) + (total - size[b])
    BY <1>5, <2>1, <2>3
  <2>6. SumFunctionOnSet(size', Live') = total + SumFunctionOnSet(size, rest)
    BY <1>3, <1>4 DEF total
  <2>7. SumFunctionOnSet(size', Live') = SumFunctionOnSet(size, Live) + Growth(b, total)
    BY <2>2, <2>4, <2>5, <2>6
  <2> QED BY <2>7 DEF total
<1>7. CASE b \notin Live
  <2>1. Live = rest
    BY <1>7 DEF rest
  <2>2. Growth(b, n + Header) = n + Header
    BY <1>1, <1>7 DEF Growth
  <2> DEFINE total == n + Header
  <2>3. total \in Nat
    BY <1>1
  <2> HIDE DEF total
  <2>4. total + SumFunctionOnSet(size, rest) = SumFunctionOnSet(size, rest) + total
    BY <1>5, <2>3
  <2> QED BY <1>3, <1>4, <2>1, <2>2, <2>4 DEF total
<1> QED BY <1>6, <1>7

\* A block that is freed takes its size from the sum, which is not smaller.
LEMMA SumShrinks ==
  ASSUME TypeOK, NEW b \in Live
  PROVE  /\ SumFunctionOnSet(size, Live) \in Nat
         /\ SumFunctionOnSet(size, Live) >= size[b]
         /\ size' = [size EXCEPT ![b] = NotAllocated] =>
              SumFunctionOnSet(size', Live') = SumFunctionOnSet(size, Live) - size[b]
<1> DEFINE rest == Live \ {b}
<1>1. IsFiniteSet(rest) /\ (\A c \in rest : size[c] \in Nat) /\ size[b] \in Nat
  BY LiveFinite, FS_RemoveElement
<1>2. SumFunctionOnSet(size, Live) = size[b] + SumFunctionOnSet(size, rest)
  BY LiveFinite, SumRemove
<1>3. SumFunctionOnSet(size, rest) \in Nat
  BY <1>1, SumNat
<1>4. ASSUME size' = [size EXCEPT ![b] = NotAllocated]
      PROVE  SumFunctionOnSet(size', Live') = SumFunctionOnSet(size, rest)
  <2>1. Live' = rest /\ \A c \in rest : size'[c] = size[c]
    BY <1>4 DEF TypeOK, Live
  <2> HIDE DEF rest
  <2>2. \A c \in rest : size'[c] \in Int
    BY <1>1, <2>1
  <2> QED BY <1>1, <2>1, <2>2, SumSame
<1> QED BY <1>1, <1>2, <1>3, <1>4

LEMMA NextSumInv == TypeOK' /\ SumInv /\ [Next]_vars => SumInv'
<1> SUFFICES ASSUME TypeOK', SumInv, [Next]_vars
             PROVE  allocatedMemory' = SumFunctionOnSet(size', Live')
  BY DEF SumInv
<1>1. ASSUME UNCHANGED <<allocatedMemory, size>>
      PROVE  allocatedMemory' = SumFunctionOnSet(size', Live')
  <2>1. Live' = Live
    BY <1>1 DEF Live
  <2> QED BY <1>1, <2>1 DEF SumInv
<1>2. CASE Initialize
  <2>1. allocatedMemory' = 0 /\ Live' = {}
    BY <1>2 DEF Initialize, Live
  <2>2. IsFiniteSet({}) /\ \A x \in {} : size'[x] \in Int
    BY FS_EmptySet
  <2>3. SumFunctionOnSet(size', {}) = 0
    BY <2>2, SumFirst
  <2> QED BY <2>1, <2>3
<1>3. ASSUME NEW b \in Blocks, NEW n \in Sizes, Shrink(b, n + Header)
      PROVE  allocatedMemory' = SumFunctionOnSet(size', Live')
  BY <1>3, SumGrows DEF Shrink, SumInv
<1>4. CASE Count
  <2>1. PICK g \in growing :
          /\ allocatedMemory' = allocatedMemory + Growth(g.block, g.total)
          /\ size' = [size EXCEPT ![g.block] = g.total]
    BY <1>4 DEF Count
  <2>2. PICK b \in Blocks, n \in Sizes : g = [block |-> b, total |-> n + Header]
    BY <2>1 DEF SumInv, TypeOK, Optional
  <2> QED BY <2>1, <2>2, SumGrows DEF SumInv
<1>5. ASSUME NEW b \in Blocks, Free(b)
      PROVE  allocatedMemory' = SumFunctionOnSet(size', Live')
  <2>1. size[b] \in Nat
    BY <1>5, SizeNat DEF Free, SumInv
  <2>2. allocatedMemory \in Nat /\ allocatedMemory >= size[b]
    BY <1>5, SumShrinks DEF Free, SumInv
  <2>3. allocatedMemory' = allocatedMemory - size[b]
    BY <1>5, <2>1, <2>2 DEF Free, BadFree
  <2> QED BY <1>5, <2>3, SumShrinks DEF Free, SumInv
<1>6. CASE RecomputeMemory \/ Close \/ Destroyed \/ UNCHANGED vars
  BY <1>1, <1>6 DEF RecomputeMemory, Close, Destroyed, vars
<1>7. ASSUME NEW b \in Blocks, NEW n \in Sizes, Grow(b, n + Header)
      PROVE  allocatedMemory' = SumFunctionOnSet(size', Live')
  BY <1>1, <1>7 DEF Grow
<1> QED BY <1>2, <1>3, <1>4, <1>5, <1>6, <1>7 DEF Next, Allocator

\* What usedMemory reports is what the live blocks take, for any blocks and sizes,
\* and the "BAD FREE" of engine_free never happens.
THEOREM CountsAreSums == Spec => []CountIsSum
<1>1. Init => SumInv
  <2> SUFFICES ASSUME Init PROVE allocatedMemory = SumFunctionOnSet(size, Live)
    BY InitIInv DEF IInv, SumInv
  <2>1. allocatedMemory = 0 /\ Live = {}
    BY DEF Init, Live
  <2>2. IsFiniteSet({}) /\ \A x \in {} : size[x] \in Int
    BY FS_EmptySet
  <2>3. SumFunctionOnSet(size, {}) = 0
    BY <2>2, SumFirst
  <2> QED BY <2>1, <2>3
<1>2. SumInv => CountIsSum
  <2> SUFFICES ASSUME SumInv, NEW b \in Live PROVE ~BadFree(b)
    BY DEF SumInv, CountIsSum
  <2>1. allocatedMemory \in Nat /\ allocatedMemory >= size[b] /\ size[b] \in Nat
    BY SumShrinks, SizeNat DEF SumInv
  <2> QED BY <2>1 DEF BadFree
<1> QED BY <1>1, <1>2, NextSumInv, TypeCorrect, PTL DEF Spec

-----------------------------------------------------------------------------
(* The trips of Values.                                                    *)

\* What fromJava makes of a component's answer.
Answered(way, v) ==
  CASE way = "result" -> FromJava(v)
    [] way = "another" -> FromJava(OtherClass(v))
    [] OTHER -> ThroughJSON(v, DOMAIN v)

\* A whole trip.
Trip(e, way, v) == ToScript(Answered(way, AsSimpleJava(FromScript(e, v))))

\* What the script sends on the present trip.
Source == IF echo = {} THEN sent ELSE Trip(vm, route, sent)

\* A value is where it is by the conversions up to there, on the first trip of what was
\* sent and on the second of what came back.
ValueInv ==
  /\ vm \in Engines /\ route \in Routes /\ sent \in Sendable
  /\ echo \in {{}, {Trip(vm, route, sent)}}
  /\ at \in {"script", "machine", "component", "answer", "received", "refused", "crash"}
  /\ at = "script" => value = Source
  /\ at = "machine" => value = FromScript(vm, Source)
  /\ at = "component" => value = AsSimpleJava(FromScript(vm, Source))
  /\ at = "answer" => value = Answered(route, AsSimpleJava(FromScript(vm, Source)))
  /\ at = "received" => value = Trip(vm, route, Source)

\* A finite tree.
Tree(v) ==
  /\ v = [a \in DOMAIN v |-> v[a]]
  /\ <<>> \in DOMAIN v
  /\ DOMAIN v \subseteq Seq(Nat) /\ IsFiniteSet(DOMAIN v)
  /\ \A a \in DOMAIN v \ {<<>>} : Front(a) \in DOMAIN v

\* Nodes that all sides know, with containers of those kinds beside arrays.
Plainly(kinds) ==
  [kind : {"boolean", "number", "string", "byte"}, content : STRING]
    \cup [kind : {"null", "array", "bytes"} \cup kinds, content : {""}]

\* Its nodes are among those.
HasNodes(v, nodes) == \A a \in DOMAIN v : v[a] \in nodes

-----------------------------------------------------------------------------
(* Addresses and trees.                                                    *)

\* Where a container is, and what is above an item.
LEMMA Addresses ==
  ASSUME NEW a \in Seq(Nat), a # <<>>
  PROVE  /\ Front(a) \in Seq(Nat) /\ Len(Front(a)) = Len(a) - 1 /\ Len(a) \in Nat \ {0}
         /\ \A n \in 1 .. Len(a) - 1 : SubSeq(Front(a), 1, n) = SubSeq(a, 1, n)
         /\ SubSeq(a, 1, Len(a)) = a
         /\ SubSeq(a, 1, 0) = <<>>
<1>1. Len(a) \in Nat \ {0}
  BY EmptySeq
<1>2. Front(a) \in Seq(Nat) /\ Len(Front(a)) = Len(a) - 1
        /\ \A i \in 1 .. Len(a) - 1 : Front(a)[i] = a[i]
  <2> DEFINE m == Len(a) - 1
  <2>1. m \in Nat /\ \A i \in 1 .. m : a[i] \in Nat
    BY <1>1
  <2> HIDE DEF m
  <2>2. /\ SubSeq(a, 1, m) \in Seq(Nat)
        /\ Len(SubSeq(a, 1, m)) = IF 1 =< m THEN m - 1 + 1 ELSE 0
        /\ \A i \in 1 .. m - 1 + 1 : SubSeq(a, 1, m)[i] = a[1 + i - 1]
    BY <2>1, SubSeqProperties
  <2>3. /\ SubSeq(a, 1, m) \in Seq(Nat) /\ Len(SubSeq(a, 1, m)) = m
        /\ \A i \in 1 .. m : SubSeq(a, 1, m)[i] = a[i]
    BY <2>1, <2>2
  <2> QED BY <2>3 DEF Front, m
<1>3. ASSUME NEW n \in 1 .. Len(a) - 1
      PROVE  SubSeq(Front(a), 1, n) = SubSeq(a, 1, n)
  <2>1. /\ SubSeq(Front(a), 1, n) = [i \in 1 .. n |-> Front(a)[i]]
        /\ SubSeq(a, 1, n) = [i \in 1 .. n |-> a[i]]
    BY <1>1, <1>2
  <2> QED BY <2>1, <1>1, <1>2
<1>4. SubSeq(a, 1, Len(a)) = a
  BY <1>1
<1>5. SubSeq(a, 1, 0) = <<>>
  BY <1>1
<1> QED BY <1>1, <1>2, <1>3, <1>4, <1>5

\* What is left is a part of the tree with the nodes it had, and a tree.
LEMMA Left ==
  ASSUME NEW v, Tree(v), NEW places
  PROVE  LET w == Without(v, places)
         IN  /\ Tree(w) /\ DOMAIN w \subseteq DOMAIN v
             /\ \A a \in DOMAIN w : w[a] = v[a]
             /\ \A a \in DOMAIN w \ {<<>>} : a \notin places
<1> DEFINE w == Without(v, places)
<1>1. /\ DOMAIN w = {a \in DOMAIN v : \A n \in 1 .. Len(a) : SubSeq(a, 1, n) \notin places}
      /\ w = [a \in DOMAIN w |-> v[a]]
  BY DEF Without
<1>2. <<>> \in DOMAIN w
  BY <1>1 DEF Tree
<1>3. IsFiniteSet(DOMAIN w) /\ DOMAIN w \subseteq Seq(Nat)
  BY <1>1, FS_Subset DEF Tree
<1>4. ASSUME NEW a \in DOMAIN w \ {<<>>}
      PROVE  a \notin places /\ Front(a) \in DOMAIN w
  <2>1. a \in Seq(Nat) /\ Front(a) \in DOMAIN v
    BY <1>1 DEF Tree
  <2>2. a # <<>> /\ a \in DOMAIN v /\ \A n \in 1 .. Len(a) : SubSeq(a, 1, n) \notin places
    BY <1>1
  <2> HIDE DEF w
  <2>5. /\ Len(a) \in Nat \ {0} /\ Len(Front(a)) = Len(a) - 1 /\ SubSeq(a, 1, Len(a)) = a
        /\ \A n \in 1 .. Len(a) - 1 : SubSeq(Front(a), 1, n) = SubSeq(a, 1, n)
    BY <2>1, <2>2, Addresses
  <2>3. a \notin places
    <3>1. Len(a) \in 1 .. Len(a)
      BY <2>5
    <3>2. SubSeq(a, 1, Len(a)) \notin places
      BY <2>2, <3>1
    <3> QED BY <2>5, <3>2
  <2>4. ASSUME NEW n \in 1 .. Len(Front(a)) PROVE SubSeq(Front(a), 1, n) \notin places
    <3>1. n \in 1 .. Len(a) - 1 /\ n \in 1 .. Len(a)
      BY <2>5
    <3>2. SubSeq(a, 1, n) \notin places
      BY <2>2, <3>1
    <3> QED BY <2>5, <3>1, <3>2
  <2> QED BY <1>1, <2>1, <2>3, <2>4
<1> HIDE DEF w
<1>5. Tree(w)
  BY <1>1, <1>2, <1>3, <1>4 DEF Tree
<1> QED BY <1>1, <1>4, <1>5 DEF w

\* Nothing is left out of nowhere.
LEMMA AllLeft ==
  ASSUME NEW v, Tree(v)
  PROVE  Without(v, {}) = v
BY DEF Without, Tree

\* New nodes make another tree.
LEMMA Renamed ==
  ASSUME NEW v, Tree(v), NEW w, DOMAIN w = DOMAIN v, w = [a \in DOMAIN v |-> w[a]]
  PROVE  Tree(w)
BY DEF Tree

\* Fewer items have fewer elders.
LEMMA FewerElders ==
  ASSUME NEW v, Tree(v), NEW w, DOMAIN w \subseteq DOMAIN v, NEW a
  PROVE  /\ Cardinality(Elders(w, a)) \in Nat /\ Cardinality(Elders(v, a)) \in Nat
         /\ Cardinality(Elders(w, a)) =< Cardinality(Elders(v, a))
<1>1. Elders(w, a) \subseteq Elders(v, a) /\ Elders(v, a) \subseteq DOMAIN v
  BY DEF Elders, Items
<1>2. IsFiniteSet(Elders(v, a))
  BY <1>1, FS_Subset DEF Tree
<1> QED BY <1>1, <1>2, FS_Subset, FS_CardinalityType

\* An item is not its own elder.
LEMMA EldersAreItems ==
  ASSUME NEW v, Tree(v), NEW a \in DOMAIN v \ {<<>>}
  PROVE  Cardinality(Elders(v, a)) < Cardinality(Items(v, Front(a)))
<1> DEFINE all == Items(v, Front(a))
           elders == Elders(v, a)
<1>1. a \in all /\ all \subseteq DOMAIN v /\ elders \subseteq all
  BY DEF Items, Elders
<1>2. IsFiniteSet(all) /\ IsFiniteSet(elders)
  BY <1>1, FS_Subset DEF Tree
<1>3. a \in Seq(Nat) /\ a # <<>>
  BY DEF Tree
<1>4. Last(a) \in Nat
  BY <1>3, Addresses DEF Last
<1>5. a \notin elders
  BY <1>4 DEF Elders
<1>6. elders \subseteq all \ {a} /\ IsFiniteSet(all \ {a})
  BY <1>1, <1>2, <1>5, FS_Subset
<1>7. Cardinality(all \ {a}) = Cardinality(all) - 1
  BY <1>1, <1>2, FS_RemoveElement
<1>8. Cardinality(elders) =< Cardinality(all \ {a})
  BY <1>6, FS_Subset
<1> QED BY <1>2, <1>6, <1>7, <1>8, FS_CardinalityType

-----------------------------------------------------------------------------
(* The conversions.                                                        *)

\* What scripts send are trees.
LEMMA ScriptTrees ==
  ASSUME NEW v, IsScriptValue(v)
  PROVE  Tree(v) /\ HasNodes(v, ScriptNodes)
BY DEF IsScriptValue, Tree, HasNodes

\* Every node has become one that the machine knows; an array or a map was an array,
\* an object or a function, and bytes were bytes or another buffer.
LEMMA ConvertedNodes ==
  ASSUME NEW node \in ScriptNodes, NEW objects, objects \subseteq {"object", "function"}
  PROVE  /\ Converted(node, objects) \in Plainly({"map"})
         /\ Converted(node, objects).kind \in {"array", "map"} => node.kind \in Listing
         /\ Converted(node, objects).kind = "bytes" => node.kind \in Buffer
         /\ Converted(node, objects).kind = "string" => Converted(node, objects) = node
<1>1. CASE node.kind \in {"boolean", "number", "string", "byte", "array"}
  BY <1>1 DEF Converted, Plainly, ScriptNodes, Listing, Buffer
<1>2. CASE node.kind \in Buffer
  BY <1>2 DEF Converted, Plainly, ScriptNodes, Listing, Buffer, Node
<1>3. CASE node.kind \in objects
  BY <1>3 DEF Converted, Plainly, ScriptNodes, Listing, Buffer, Node
<1>4. CASE node.kind \notin {"boolean", "number", "string", "byte", "array"} \cup Buffer \cup objects
  BY <1>4 DEF Converted, Plainly, Buffer, Node, Null
<1> QED BY <1>1, <1>2, <1>3, <1>4

\* A text has become one that conversions leave alone, and is a text.
LEMMA Texts ==
  ASSUME NEW node \in ScriptNodes
  PROVE  /\ Text(node) \in ScriptNodes /\ Text(node).kind = node.kind
         /\ Text(node).kind = "string" => Text(node).content \notin DOMAIN Recoded
<1>1. CASE node.kind = "string" /\ node.content \in DOMAIN Recoded
  <2>1. Recoded[node.content] \in STRING \ DOMAIN Recoded
    BY <1>1, ValuesAssumption
  <2>2. Text(node) = Node("string", Recoded[node.content])
    BY <1>1 DEF Text
  <2> DEFINE t == Recoded[node.content]
  <2>3. Text(node) = [kind |-> "string", content |-> t] /\ t \in STRING \ DOMAIN Recoded
    BY <2>1, <2>2 DEF Node
  <2> HIDE DEF t
  <2>4. [kind |-> "string", content |-> t] \in ScriptNodes
    BY <2>3 DEF ScriptNodes
  <2> QED BY <1>1, <2>3, <2>4
<1>2. CASE ~(node.kind = "string" /\ node.content \in DOMAIN Recoded)
  BY <1>2 DEF Text
<1> QED BY <1>1, <1>2

\* What the machine gets of a script's value, and where Duktape has left off.
LEMMA FromScripts ==
  ASSUME NEW v, Tree(v), HasNodes(v, ScriptNodes), NEW e
  PROVE  LET m == FromScript(e, v)
         IN  /\ Tree(m) /\ DOMAIN m \subseteq DOMAIN v /\ HasNodes(m, Plainly({"map"}))
             /\ \A a \in DOMAIN m : /\ m[a].kind \in {"array", "map"} => v[a].kind \in Listing
                                    /\ m[a].kind = "bytes" => v[a].kind \in Buffer
             /\ e = "duktape" => /\ \A a \in DOMAIN m \ {<<>>} : a \notin Supernumerary(v)
                                 /\ ~HasText(m, DOMAIN Recoded)
<1> DEFINE cut == IF e = "duktape" THEN Supernumerary(v)
                  ELSE {a \in DOMAIN v \ {<<>>} : v[Front(a)].kind = "function"}
           objects == IF e = "duktape" THEN {"object", "function"} ELSE {"object"}
           read == Without(v, cut)
           text(a) == IF e = "duktape" THEN Text(read[a]) ELSE read[a]
           m == [a \in DOMAIN read |-> Converted(text(a), objects)]
<1>1. FromScript(e, v) = m
  BY DEF FromScript, FromDuktape, FromSpiderMonkey, ReadByDuktape, ReadBySpiderMonkey
<1>2. /\ Tree(read) /\ DOMAIN read \subseteq DOMAIN v /\ \A a \in DOMAIN read : read[a] = v[a]
      /\ \A a \in DOMAIN read \ {<<>>} : a \notin cut
  BY Left
<1> HIDE DEF cut, read
<1>3. Tree(m) /\ DOMAIN m = DOMAIN read
  BY <1>2, Renamed
<1>4. ASSUME NEW a \in DOMAIN m
      PROVE  /\ m[a] \in Plainly({"map"})
             /\ m[a].kind \in {"array", "map"} => v[a].kind \in Listing
             /\ m[a].kind = "bytes" => v[a].kind \in Buffer
             /\ e = "duktape" /\ m[a].kind = "string" => m[a].content \notin DOMAIN Recoded
  <2>1. a \in DOMAIN v /\ v[a] \in ScriptNodes /\ read[a] = v[a]
    BY <1>2, <1>3 DEF HasNodes
  <2>2. /\ text(a) \in ScriptNodes /\ text(a).kind = v[a].kind
        /\ e = "duktape" /\ text(a).kind = "string" => text(a).content \notin DOMAIN Recoded
    BY <2>1, Texts
  <2>3. m[a] = Converted(text(a), objects) /\ objects \subseteq {"object", "function"}
    BY <1>3
  <2> HIDE DEF m, objects, text
  <2> DEFINE node == text(a)
  <2>4. m[a] = Converted(node, objects) /\ node \in ScriptNodes
    BY <2>2, <2>3
  <2> HIDE DEF node
  <2>5. /\ m[a] \in Plainly({"map"})
        /\ m[a].kind \in {"array", "map"} => node.kind \in Listing
        /\ m[a].kind = "bytes" => node.kind \in Buffer
        /\ m[a].kind = "string" => m[a] = node
    BY <2>3, <2>4, ConvertedNodes
  <2> QED BY <2>2, <2>5 DEF node
<1>5. e = "duktape" => \A a \in DOMAIN m \ {<<>>} : a \notin Supernumerary(v)
  BY <1>2, <1>3 DEF cut
<1> HIDE DEF m
<1>6. e = "duktape" => ~HasText(m, DOMAIN Recoded)
  BY <1>4 DEF HasText
<1> QED BY <1>1, <1>2, <1>3, <1>4, <1>5, <1>6 DEF HasNodes

\* A node is a kind and a content.
LEMMA NodesAreRecords ==
  ASSUME NEW kinds, NEW node \in Plainly(kinds)
  PROVE  /\ node = Node(node.kind, node.content)
         /\ \A kind : [node EXCEPT !.kind = kind] = Node(kind, node.content)
<1>1. node = Node(node.kind, node.content)
  <2>1. CASE node \in [kind : {"boolean", "number", "string", "byte"}, content : STRING]
    BY <2>1 DEF Node
  <2>2. CASE node \in [kind : {"null", "array", "bytes"} \cup kinds, content : {""}]
    BY <2>2 DEF Node
  <2> QED BY <2>1, <2>2 DEF Plainly
<1>2. ASSUME NEW x, NEW y, NEW kind
      PROVE  [Node(x, y) EXCEPT !.kind = kind] = Node(kind, y)
  BY DEF Node
<1> QED BY <1>1, <1>2

\* Nodes but for maps are of all sides.
LEMMA OtherKinds ==
  ASSUME NEW kinds, NEW others
  PROVE  /\ \A kind \in kinds \cup {"null", "array", "bytes"} : Node(kind, "") \in Plainly(kinds)
         /\ \A node \in Plainly(others) : node.kind \notin others => node \in Plainly(kinds)
BY DEF Plainly, Node

\* A map becomes a HashMap.
LEMMA SimpleJava ==
  ASSUME NEW v, Tree(v), HasNodes(v, Plainly({"map"}))
  PROVE  LET h == AsSimpleJava(v)
         IN  /\ Tree(h) /\ DOMAIN h = DOMAIN v /\ HasNodes(h, Plainly({"hashmap"}))
             /\ \A a \in DOMAIN h : h[a] = IF v[a].kind = "map" THEN Node("hashmap", "") ELSE v[a]
<1> DEFINE h == AsSimpleJava(v)
<1>1. /\ DOMAIN h = DOMAIN v /\ h = [a \in DOMAIN v |-> h[a]]
      /\ \A a \in DOMAIN h : h[a] = IF v[a].kind = "map" THEN Node("hashmap", "") ELSE v[a]
  BY DEF AsSimpleJava
<1> HIDE DEF h
<1>2. Tree(h)
  BY <1>1, Renamed
<1>3. ASSUME NEW a \in DOMAIN h PROVE h[a] \in Plainly({"hashmap"})
  <2>1. v[a] \in Plainly({"map"}) /\ h[a] = IF v[a].kind = "map" THEN Node("hashmap", "") ELSE v[a]
    BY <1>1 DEF HasNodes
  <2> QED BY <2>1, OtherKinds
<1> QED BY <1>1, <1>2, <1>3 DEF HasNodes, h

\* A map becomes an object.
LEMMA ToScripts ==
  ASSUME NEW v, Tree(v), HasNodes(v, Plainly({"map"}))
  PROVE  LET r == ToScript(v)
         IN  /\ Tree(r) /\ DOMAIN r = DOMAIN v /\ HasNodes(r, Plainly({"object"}))
             /\ \A a \in DOMAIN r : r[a] = IF v[a].kind = "map" THEN Node("object", "") ELSE v[a]
<1> DEFINE r == ToScript(v)
<1>1. /\ DOMAIN r = DOMAIN v /\ r = [a \in DOMAIN v |-> r[a]]
      /\ \A a \in DOMAIN r : r[a] = IF v[a].kind = "map" THEN Node("object", "") ELSE v[a]
  BY DEF ToScript
<1> HIDE DEF r
<1>2. Tree(r)
  BY <1>1, Renamed
<1>3. ASSUME NEW a \in DOMAIN r PROVE r[a] \in Plainly({"object"})
  <2>1. v[a] \in Plainly({"map"}) /\ r[a] = IF v[a].kind = "map" THEN Node("object", "") ELSE v[a]
    BY <1>1 DEF HasNodes
  <2> QED BY <2>1, OtherKinds
<1> QED BY <1>1, <1>2, <1>3 DEF HasNodes, r

\* If all is known then nothing goes through JSON, and if the value itself is not
\* then everything does.
LEMMA AllOrNothing ==
  ASSUME NEW v, Tree(v)
  PROVE  /\ (\A a \in DOMAIN v : Known(v[a])) => Foreign(v) = {}
         /\ ~Known(v[<<>>]) => Foreign(v) = DOMAIN v
<1>1. (\A a \in DOMAIN v : Known(v[a])) => Foreign(v) = {}
  BY DEF Foreign
<1>2. ASSUME NEW a \in DOMAIN v PROVE IsPrefix(<<>>, a)
  <2>1. a \in Seq(Nat)
    BY DEF Tree
  <2> QED BY <2>1 DEF IsPrefix
<1>3. ASSUME ~Known(v[<<>>]) PROVE Foreign(v) = DOMAIN v
  BY <1>2, <1>3 DEF Foreign, Tree
<1> QED BY <1>1, <1>3

JavaNodes == Plainly({"hashmap", "list", "othermap"})

\* Every node has become one of JSValue's; in JSON there are no bytes.
LEMMA JavaNodesBack ==
  ASSUME NEW node \in JavaNodes, NEW isForeign \in BOOLEAN
  PROVE  LET back == FromJavaNode(node, isForeign)
         IN  /\ back \in Plainly({"map"})
             /\ back.kind = "map" <=> node.kind \in {"hashmap", "othermap"}
             /\ back.kind = "array" => node.kind \in {"array", "list", "bytes"}
             /\ back.kind = "array" /\ ~isForeign => node.kind \in {"array", "list"}
             /\ isForeign => back.kind \notin {"bytes", "byte"}
             /\ back = Null <=> node = Null
             /\ back.kind = "string" => back = node
<1> DEFINE back == FromJavaNode(node, isForeign)
<1>5. Null.kind = "null" /\ \A kind, content : Node(kind, content).kind = kind
  BY DEF Null, Node
<1>1. CASE node.kind \in {"hashmap", "othermap"}
  <2>1. back = Node("map", "")
    BY <1>1 DEF FromJavaNode
  <2>2. back \in Plainly({"map"})
    BY <2>1, OtherKinds
  <2> HIDE DEF back
  <2>3. back.kind = "map" /\ back # Null /\ node # Null
    BY <1>1, <1>5, <2>1
  <2> QED BY <1>1, <2>2, <2>3 DEF back
<1>2. CASE node.kind = "list" \/ (isForeign /\ node.kind = "bytes")
  <2>1. back = Node("array", "")
    BY <1>2 DEF FromJavaNode
  <2>2. back \in Plainly({"map"})
    BY <2>1, OtherKinds
  <2> HIDE DEF back
  <2>3. back.kind = "array" /\ back # Null /\ node # Null
    BY <1>2, <1>5, <2>1
  <2> QED BY <1>2, <2>2, <2>3 DEF back
<1>3. CASE isForeign /\ node.kind = "byte"
  <2>1. back = Node("number", node.content) /\ node.content \in STRING
    BY <1>3 DEF FromJavaNode, JavaNodes, Plainly
  <2>2. back \in Plainly({"map"})
    BY <2>1 DEF Plainly, Node
  <2> HIDE DEF back
  <2>3. back.kind = "number" /\ back # Null /\ node # Null
    BY <1>3, <1>5, <2>1
  <2> QED BY <1>3, <2>2, <2>3 DEF back
<1>4. CASE node.kind \notin {"hashmap", "othermap", "list"} /\ ~(isForeign /\ node.kind \in {"bytes", "byte"})
  BY <1>4 DEF FromJavaNode, JavaNodes, Plainly, Node, Null
<1> QED BY <1>1, <1>2, <1>3, <1>4

\* What comes back, by way of JSON or not: a part of the tree; by way of JSON, without
\* bytes and without null entries of maps.
LEMMA ComingBack ==
  ASSUME NEW v, Tree(v), HasNodes(v, JavaNodes), NEW foreign \in {{}, DOMAIN v}
  PROVE  LET f == ThroughJSON(v, foreign)
         IN  /\ Tree(f) /\ DOMAIN f \subseteq DOMAIN v /\ HasNodes(f, Plainly({"map"}))
             /\ \A a \in DOMAIN f :
                  /\ f[a].kind \in {"array", "map"}
                       => v[a].kind \in {"array", "list", "hashmap", "othermap", "bytes"}
                  /\ f[a].kind \in {"array", "map"} /\ foreign = {}
                       => v[a].kind \in {"array", "list", "hashmap", "othermap"}
                  /\ foreign # {} => f[a].kind \notin {"bytes", "byte"}
                  /\ f[a].kind = "string" => f[a] = v[a]
             /\ foreign # {} =>
                  \A a \in DOMAIN f \ {<<>>} : f[Front(a)].kind = "map" => f[a] # Null
<1> DEFINE cut == {a \in foreign \ {<<>>} : /\ Front(a) \in foreign /\ v[a] = Null
                                            /\ v[Front(a)].kind \in {"hashmap", "othermap"}}
           written == Without(v, cut)
           f == [a \in DOMAIN written |-> FromJavaNode(written[a], a \in foreign)]
<1>1. ThroughJSON(v, foreign) = f
  BY DEF ThroughJSON
<1>2. /\ Tree(written) /\ DOMAIN written \subseteq DOMAIN v
      /\ \A a \in DOMAIN written : written[a] = v[a]
      /\ \A a \in DOMAIN written \ {<<>>} : a \notin cut
  BY Left
<1> HIDE DEF written
<1>3. Tree(f) /\ DOMAIN f = DOMAIN written
  BY <1>2, Renamed
<1>4. \A a \in DOMAIN f : v[a] \in JavaNodes /\ f[a] = FromJavaNode(v[a], a \in foreign)
  BY <1>2, <1>3 DEF HasNodes
<1> HIDE DEF f
<1>5. ASSUME NEW a \in DOMAIN f
      PROVE  /\ f[a] \in Plainly({"map"})
             /\ f[a].kind = "map" <=> v[a].kind \in {"hashmap", "othermap"}
             /\ f[a].kind = "array" => v[a].kind \in {"array", "list", "bytes"}
             /\ f[a].kind = "array" /\ a \notin foreign => v[a].kind \in {"array", "list"}
             /\ a \in foreign => f[a].kind \notin {"bytes", "byte"}
             /\ f[a] = Null <=> v[a] = Null
             /\ f[a].kind = "string" => f[a] = v[a]
  <2>1. CASE a \in foreign
    <3>1. f[a] = FromJavaNode(v[a], TRUE) /\ v[a] \in JavaNodes
      BY <1>4, <2>1
    <3> QED BY <2>1, <3>1, JavaNodesBack
  <2>2. CASE a \notin foreign
    <3>1. f[a] = FromJavaNode(v[a], FALSE) /\ v[a] \in JavaNodes
      BY <1>4, <2>2 DEF FromJavaNode
    <3> QED BY <2>2, <3>1, JavaNodesBack
  <2> QED BY <2>1, <2>2
<1>6. foreign # {} => \A a \in DOMAIN f : a \in foreign
  BY <1>2, <1>3
<1>7. ASSUME foreign # {}, NEW a \in DOMAIN f \ {<<>>}, f[Front(a)].kind = "map"
      PROVE  f[a] # Null
  <2>1. Front(a) \in DOMAIN f /\ a \in foreign /\ Front(a) \in foreign
    BY <1>3, <1>6, <1>7 DEF Tree
  <2>2. v[Front(a)].kind \in {"hashmap", "othermap"} /\ (f[a] = Null <=> v[a] = Null)
    BY <1>5, <1>7, <2>1
  <2>3. a \notin cut
    BY <1>2, <1>3
  <2> QED BY <2>1, <2>2, <2>3
<1>8. HasNodes(f, Plainly({"map"}))
  BY <1>5 DEF HasNodes
<1>9. ASSUME NEW a \in DOMAIN f
      PROVE  /\ f[a].kind \in {"array", "map"}
                  => v[a].kind \in {"array", "list", "hashmap", "othermap", "bytes"}
             /\ f[a].kind \in {"array", "map"} /\ foreign = {}
                  => v[a].kind \in {"array", "list", "hashmap", "othermap"}
             /\ foreign # {} => f[a].kind \notin {"bytes", "byte"}
             /\ f[a].kind = "string" => f[a] = v[a]
  BY <1>5, <1>6
<1>10. Tree(f) /\ DOMAIN f \subseteq DOMAIN v
  BY <1>2, <1>3
<1> QED BY <1>1, <1>7, <1>8, <1>9, <1>10

\* A container of another class is a list or another map, and all else is itself.
LEMMA OtherClasses ==
  ASSUME NEW v, Tree(v), HasNodes(v, Plainly({"hashmap"}))
  PROVE  LET o == OtherClass(v)
         IN  /\ Tree(o) /\ DOMAIN o = DOMAIN v /\ HasNodes(o, JavaNodes)
             /\ \A a \in DOMAIN v \ {<<>>} : o[a] = v[a] /\ Known(o[a])
             /\ v[<<>>].kind = "array" => o[<<>>] = Node("list", "")
             /\ v[<<>>].kind = "hashmap" => o[<<>>] = Node("othermap", "")
             /\ v[<<>>].kind \notin {"array", "hashmap"} => o = v /\ Known(o[<<>>])
<1> DEFINE o == OtherClass(v)
           root == v[<<>>]
           class == CASE root.kind = "array" -> "list" [] root.kind = "hashmap" -> "othermap"
                      [] OTHER -> root.kind
<1>1. <<>> \in DOMAIN v /\ root \in Plainly({"hashmap"})
  BY DEF Tree, HasNodes
<1>2. root = Node(root.kind, root.content)
  BY <1>1, NodesAreRecords
<1>3. o = [v EXCEPT ![<<>>] = [root EXCEPT !.kind = class]]
  BY DEF OtherClass
<1>4. [root EXCEPT !.kind = class] = Node(class, root.content)
  BY <1>1, NodesAreRecords
<1>5. /\ DOMAIN o = DOMAIN v /\ o = [a \in DOMAIN v |-> o[a]]
      /\ o[<<>>] = Node(class, root.content)
      /\ \A a \in DOMAIN v \ {<<>>} : o[a] = v[a]
  BY <1>1, <1>3, <1>4
<1>6. root.kind \in {"array", "hashmap"} => root.content = ""
  BY <1>1 DEF Plainly
<1> HIDE DEF o
<1>7. Tree(o)
  BY <1>5, Renamed
<1>8. ASSUME NEW a \in DOMAIN v PROVE v[a] \in JavaNodes /\ Known(v[a])
  <2>1. v[a] \in Plainly({"hashmap"})
    BY DEF HasNodes
  <2> QED BY <2>1 DEF Plainly, JavaNodes, Known
<1>9. root.kind = "array" => o[<<>>] = Node("list", "")
  BY <1>5, <1>6
<1>10. root.kind = "hashmap" => o[<<>>] = Node("othermap", "")
  BY <1>5, <1>6
<1>11. root.kind \notin {"array", "hashmap"} => o = v
  <2>1. root.kind \notin {"array", "hashmap"} => o[<<>>] = v[<<>>]
    BY <1>2, <1>5
  <2>2. v = [a \in DOMAIN v |-> v[a]]
    BY DEF Tree
  <2> QED BY <1>5, <2>1, <2>2
<1>12. Node("list", "") \in JavaNodes /\ Node("othermap", "") \in JavaNodes
  BY OtherKinds DEF JavaNodes
<1>13. HasNodes(o, JavaNodes)
  <2> SUFFICES ASSUME NEW a \in DOMAIN o PROVE o[a] \in JavaNodes
    BY DEF HasNodes
  <2> QED BY <1>1, <1>5, <1>8, <1>9, <1>10, <1>11, <1>12
<1>14. \A a \in DOMAIN v \ {<<>>} : o[a] = v[a] /\ Known(o[a])
  BY <1>5, <1>8
<1>15. root.kind \notin {"array", "hashmap"} => Known(o[<<>>])
  BY <1>1, <1>8, <1>11
<1> QED BY <1>5, <1>7, <1>9, <1>10, <1>11, <1>13, <1>14, <1>15 DEF o

\* What fromJava makes of the answer, on each of the three ways.
LEMMA Answers ==
  ASSUME NEW h, Tree(h), HasNodes(h, Plainly({"hashmap"})), NEW way \in Routes
  PROVE  LET f == Answered(way, h)
         IN  /\ Tree(f) /\ DOMAIN f \subseteq DOMAIN h /\ HasNodes(f, Plainly({"map"}))
             /\ \A a \in DOMAIN f :
                  /\ f[a].kind \in {"array", "map"} => h[a].kind \in {"array", "hashmap", "bytes"}
                  /\ f[a].kind \in {"array", "map"} /\ way = "result"
                       => h[a].kind \in {"array", "hashmap"}
                  /\ f[a].kind = "string" => f[a] = h[a]
             /\ way = "signal" \/ (way = "another" /\ f[<<>>].kind \in {"array", "map"}) =>
                  /\ \A a \in DOMAIN f : f[a].kind \notin {"bytes", "byte"}
                  /\ \A a \in DOMAIN f \ {<<>>} : f[Front(a)].kind = "map" => f[a] # Null
<1> DEFINE f == Answered(way, h)
<1>1. ASSUME NEW a \in DOMAIN h
      PROVE  h[a] \in JavaNodes /\ Known(h[a]) /\ h[a].kind \notin {"list", "othermap"}
  <2>1. h[a] \in Plainly({"hashmap"})
    BY DEF HasNodes
  <2> QED BY <2>1 DEF Plainly, JavaNodes, Known
<1>2. HasNodes(h, JavaNodes) /\ Foreign(h) = {} /\ <<>> \in DOMAIN h
  BY <1>1, AllOrNothing DEF HasNodes, Tree
<1>3. CASE way = "result"
  <2>1. f = ThroughJSON(h, {})
    BY <1>2, <1>3 DEF Answered, FromJava
  <2> HIDE DEF f
  <2>2. /\ Tree(f) /\ DOMAIN f \subseteq DOMAIN h /\ HasNodes(f, Plainly({"map"}))
        /\ \A a \in DOMAIN f :
             /\ f[a].kind \in {"array", "map"}
                  => h[a].kind \in {"array", "list", "hashmap", "othermap"}
             /\ f[a].kind = "string" => f[a] = h[a]
    BY <1>2, <2>1, ComingBack
  <2>3. \A a \in DOMAIN f : f[a].kind \in {"array", "map"} => h[a].kind \in {"array", "hashmap"}
    BY <1>1, <2>2
  <2> QED BY <1>3, <2>2, <2>3 DEF f
<1>4. CASE way = "signal"
  <2>1. f = ThroughJSON(h, DOMAIN h) /\ DOMAIN h # {}
    BY <1>2, <1>4 DEF Answered
  <2> HIDE DEF f
  <2>2. /\ Tree(f) /\ DOMAIN f \subseteq DOMAIN h /\ HasNodes(f, Plainly({"map"}))
        /\ \A a \in DOMAIN f :
             /\ f[a].kind \in {"array", "map"}
                  => h[a].kind \in {"array", "list", "hashmap", "othermap", "bytes"}
             /\ f[a].kind \notin {"bytes", "byte"}
             /\ f[a].kind = "string" => f[a] = h[a]
        /\ \A a \in DOMAIN f \ {<<>>} : f[Front(a)].kind = "map" => f[a] # Null
    BY <1>2, <2>1, ComingBack
  <2>3. \A a \in DOMAIN f :
          f[a].kind \in {"array", "map"} => h[a].kind \in {"array", "hashmap", "bytes"}
    BY <1>1, <2>2
  <2> QED BY <1>4, <2>2, <2>3 DEF f
<1>5. CASE way = "another"
  <2> DEFINE o == OtherClass(h)
             foreign == Foreign(o)
  <2>1. /\ Tree(o) /\ DOMAIN o = DOMAIN h /\ HasNodes(o, JavaNodes)
        /\ \A a \in DOMAIN h \ {<<>>} : o[a] = h[a] /\ Known(o[a])
        /\ h[<<>>].kind = "array" => o[<<>>] = Node("list", "")
        /\ h[<<>>].kind = "hashmap" => o[<<>>] = Node("othermap", "")
        /\ h[<<>>].kind \notin {"array", "hashmap"} => o = h /\ Known(o[<<>>])
    BY OtherClasses
  <2>2. f = ThroughJSON(o, foreign)
    BY <1>5 DEF Answered, FromJava
  <2> HIDE DEF f, o
  <2>3. CASE h[<<>>].kind \in {"array", "hashmap"}
    <3>1. ~Known(o[<<>>])
      <4>1. Node("list", "").kind = "list" /\ Node("othermap", "").kind = "othermap"
        BY DEF Node
      <4> QED BY <2>1, <2>3, <4>1 DEF Known
    <3>2. f = ThroughJSON(o, DOMAIN o) /\ DOMAIN o # {}
      BY <1>2, <2>1, <2>2, <3>1, AllOrNothing
    <3> HIDE DEF foreign
    <3>3. /\ Tree(f) /\ DOMAIN f \subseteq DOMAIN o /\ HasNodes(f, Plainly({"map"}))
          /\ \A a \in DOMAIN f :
               /\ f[a].kind \in {"array", "map"}
                    => o[a].kind \in {"array", "list", "hashmap", "othermap", "bytes"}
               /\ f[a].kind \notin {"bytes", "byte"}
               /\ f[a].kind = "string" => f[a] = o[a]
          /\ \A a \in DOMAIN f \ {<<>>} : f[Front(a)].kind = "map" => f[a] # Null
      <4>1. Tree(o) /\ HasNodes(o, JavaNodes)
        BY <2>1
      <4> QED BY <3>2, <4>1, ComingBack
    <3>4. \A a \in DOMAIN f :
            f[a].kind \in {"array", "map"} => h[a].kind \in {"array", "hashmap", "bytes"}
      BY <1>1, <2>1, <2>3, <3>3
    <3>5. ASSUME NEW a \in DOMAIN f, f[a].kind = "string" PROVE f[a] = h[a]
      <4>1. Node("list", "").kind = "list" /\ Node("othermap", "").kind = "othermap"
        BY DEF Node
      <4>2. f[a] = o[a] /\ a \in DOMAIN h
        BY <2>1, <3>3, <3>5
      <4>3. a # <<>>
        BY <2>1, <2>3, <3>5, <4>1, <4>2
      <4> QED BY <2>1, <4>2, <4>3
    <3> QED BY <1>5, <2>1, <3>3, <3>4, <3>5 DEF f
  <2>4. CASE h[<<>>].kind \notin {"array", "hashmap"}
    <3>1. o = h /\ foreign = {}
      BY <1>2, <2>1, <2>4
    <3> HIDE DEF foreign
    <3>2. /\ Tree(f) /\ DOMAIN f \subseteq DOMAIN h /\ HasNodes(f, Plainly({"map"}))
          /\ \A a \in DOMAIN f :
               /\ f[a].kind \in {"array", "map"}
                    => h[a].kind \in {"array", "list", "hashmap", "othermap"}
               /\ f[a].kind = "string" => f[a] = h[a]
      BY <1>2, <2>2, <3>1, ComingBack
    <3>3. \A a \in DOMAIN f : f[a].kind \in {"array", "map"} => h[a].kind \in {"array", "hashmap"}
      BY <1>1, <3>2
    <3>4. <<>> \in DOMAIN f /\ f[<<>>].kind \notin {"array", "map"}
      BY <2>4, <3>2, <3>3 DEF Tree
    <3> QED BY <1>5, <3>2, <3>3, <3>4 DEF f
  <2> QED BY <2>3, <2>4
<1> QED BY <1>3, <1>4, <1>5 DEF Routes

-----------------------------------------------------------------------------
(* What a trip leaves alone.                                               *)

\* Made of what the engine and Java have, with no item that Duktape leaves off,
\* and, where it goes through JSON, with nothing that JSON changes.
Fit(e, way, v) ==
  /\ Tree(v) /\ HasNodes(v, Plainly({"object"}))
  /\ e = "duktape" => Supernumerary(v) = {} /\ ~HasText(v, DOMAIN Recoded)
  /\ way = "signal" \/ (way = "another" /\ v[<<>>].kind \in {"array", "object"}) =>
       /\ \A a \in DOMAIN v : v[a].kind \notin {"bytes", "byte"}
       /\ \A a \in DOMAIN v \ {<<>>} : v[Front(a)].kind = "object" => v[a] # Null

\* Whatever is sent, what comes back is fit for another trip; of bytes that become
\* arrays Duktape must be able to keep all.
LEMMA ArrivesFit ==
  ASSUME NEW v, Tree(v), HasNodes(v, ScriptNodes), NEW e, NEW way \in Routes,
         e = "duktape" => way = "result" \/ Small(v, Buffer)
  PROVE  Fit(e, way, Trip(e, way, v))
<1> DEFINE m == FromScript(e, v)
           h == AsSimpleJava(m)
           f == Answered(way, h)
           r == ToScript(f)
<1>1. /\ Tree(m) /\ DOMAIN m \subseteq DOMAIN v /\ HasNodes(m, Plainly({"map"}))
      /\ \A a \in DOMAIN m : /\ m[a].kind \in {"array", "map"} => v[a].kind \in Listing
                             /\ m[a].kind = "bytes" => v[a].kind \in Buffer
      /\ e = "duktape" => /\ \A a \in DOMAIN m \ {<<>>} : a \notin Supernumerary(v)
                          /\ ~HasText(m, DOMAIN Recoded)
  BY FromScripts
<1> HIDE DEF m
<1>2. /\ Tree(h) /\ DOMAIN h = DOMAIN m /\ HasNodes(h, Plainly({"hashmap"}))
      /\ \A a \in DOMAIN h : h[a] = IF m[a].kind = "map" THEN Node("hashmap", "") ELSE m[a]
  BY <1>1, SimpleJava
<1> HIDE DEF h
<1>3. /\ Tree(f) /\ DOMAIN f \subseteq DOMAIN h /\ HasNodes(f, Plainly({"map"}))
      /\ \A a \in DOMAIN f :
           /\ f[a].kind \in {"array", "map"} => h[a].kind \in {"array", "hashmap", "bytes"}
           /\ f[a].kind \in {"array", "map"} /\ way = "result" => h[a].kind \in {"array", "hashmap"}
           /\ f[a].kind = "string" => f[a] = h[a]
      /\ way = "signal" \/ (way = "another" /\ f[<<>>].kind \in {"array", "map"}) =>
           /\ \A a \in DOMAIN f : f[a].kind \notin {"bytes", "byte"}
           /\ \A a \in DOMAIN f \ {<<>>} : f[Front(a)].kind = "map" => f[a] # Null
  BY <1>2, Answers
<1> HIDE DEF f
<1>4. /\ Tree(r) /\ DOMAIN r = DOMAIN f /\ HasNodes(r, Plainly({"object"}))
      /\ \A a \in DOMAIN r : r[a] = IF f[a].kind = "map" THEN Node("object", "") ELSE f[a]
  BY <1>3, ToScripts
<1> HIDE DEF r
<1>5. Node("hashmap", "").kind = "hashmap" /\ Node("object", "").kind = "object"
  BY DEF Node
<1>6. ASSUME NEW a \in DOMAIN f
      PROVE  /\ f[a].kind \in {"array", "map"} => v[a].kind \in Listing \cup Buffer
             /\ f[a].kind \in {"array", "map"} /\ way = "result" => v[a].kind \in Listing
  <2>1. a \in DOMAIN h /\ a \in DOMAIN m
    BY <1>2, <1>3
  <2>4. h[a] = IF m[a].kind = "map" THEN Node("hashmap", "") ELSE m[a]
    BY <1>2, <2>1
  <2>2. h[a].kind \in {"array", "hashmap"} => m[a].kind \in {"array", "map", "hashmap"}
    BY <2>4
  <2>3. h[a].kind = "bytes" => m[a].kind = "bytes"
    BY <1>5, <2>4
  <2>5. m[a].kind # "hashmap"
    BY <1>1, <2>1 DEF HasNodes, Plainly
  <2> QED BY <1>1, <1>3, <2>1, <2>2, <2>3, <2>5
<1>7. ASSUME NEW a \in DOMAIN r
      PROVE  /\ r[a].kind = "object" <=> f[a].kind = "map"
             /\ r[a].kind \in Listing => f[a].kind \in {"array", "map"}
             /\ r[a].kind \in {"bytes", "byte"} => f[a].kind \in {"bytes", "byte"}
             /\ r[a] = Null => f[a] = Null
  <2>1. f[a] \in Plainly({"map"}) /\ r[a] = IF f[a].kind = "map" THEN Node("object", "") ELSE f[a]
    BY <1>3, <1>4 DEF HasNodes
  <2>2. f[a].kind \notin {"object", "function"} /\ Null.kind = "null"
    BY <2>1 DEF Plainly, Null, Node
  <2> QED BY <1>5, <2>1, <2>2 DEF Listing
<1>8. ASSUME e = "duktape", NEW a \in DOMAIN r \ {<<>>}, r[Front(a)].kind \in Listing
      PROVE  Cardinality(Elders(r, a)) < MaxKeys
  <2>1. Front(a) \in DOMAIN r /\ DOMAIN r \subseteq DOMAIN v
    BY <1>1, <1>2, <1>3, <1>4 DEF Tree
  <2>2. /\ Cardinality(Elders(r, a)) \in Nat /\ Cardinality(Elders(v, a)) \in Nat
        /\ Cardinality(Elders(r, a)) =< Cardinality(Elders(v, a))
    BY <2>1, FewerElders
  <2>3. f[Front(a)].kind \in {"array", "map"}
    BY <1>4, <1>7, <1>8, <2>1
  <2>4. Front(a) \in DOMAIN f
    BY <1>4, <2>1
  <2>5. MaxKeys \in Nat
    BY ValuesAssumption
  <2>6. CASE v[Front(a)].kind \in Listing
    <3>1. a \notin Supernumerary(v) /\ a \in DOMAIN v \ {<<>>}
      BY <1>1, <1>2, <1>3, <1>4, <1>8
    <3>2. ~(Cardinality(Elders(v, a)) >= MaxKeys)
      BY <2>6, <3>1 DEF Supernumerary
    <3> QED BY <2>2, <2>5, <3>2
  <2>7. CASE v[Front(a)].kind \notin Listing
    <3>1. v[Front(a)].kind \in Buffer /\ way # "result"
      BY <1>6, <2>3, <2>4, <2>7
    <3>2. Cardinality(Items(v, Front(a))) =< MaxKeys
      BY <1>8, <2>1, <3>1 DEF Small
    <3>3. Cardinality(Elders(v, a)) < Cardinality(Items(v, Front(a)))
      BY <2>1, EldersAreItems
    <3>4. Cardinality(Items(v, Front(a))) \in Nat
      BY FS_Subset, FS_CardinalityType DEF Items, Tree
    <3> QED BY <2>2, <2>5, <3>2, <3>3, <3>4
  <2> QED BY <2>6, <2>7
<1>9. e = "duktape" => Supernumerary(r) = {}
  <2> SUFFICES ASSUME e = "duktape", NEW a \in Supernumerary(r) PROVE FALSE
    OBVIOUS
  <2>1. a \in DOMAIN r \ {<<>>} /\ r[Front(a)].kind \in Listing
          /\ Cardinality(Elders(r, a)) >= MaxKeys
    BY DEF Supernumerary
  <2>2. Cardinality(Elders(r, a)) < MaxKeys
    BY <1>8, <2>1
  <2>3. Cardinality(Elders(r, a)) \in Nat /\ MaxKeys \in Nat
    BY <1>4, FewerElders, ValuesAssumption
  <2> QED BY <2>1, <2>2, <2>3
<1>10. ASSUME way = "signal" \/ (way = "another" /\ r[<<>>].kind \in {"array", "object"})
       PROVE  /\ \A a \in DOMAIN r : r[a].kind \notin {"bytes", "byte"}
              /\ \A a \in DOMAIN r \ {<<>>} : r[Front(a)].kind = "object" => r[a] # Null
  <2>1. <<>> \in DOMAIN r
    BY <1>4 DEF Tree
  <2>2. way = "signal" \/ (way = "another" /\ f[<<>>].kind \in {"array", "map"})
    BY <1>7, <1>10, <2>1 DEF Listing
  <2>3. \A a \in DOMAIN r \ {<<>>} : Front(a) \in DOMAIN r
    BY <1>4 DEF Tree
  <2> QED BY <1>3, <1>4, <1>7, <2>2, <2>3
<1>11. e = "duktape" => ~HasText(r, DOMAIN Recoded)
  <2> SUFFICES ASSUME NEW a \in DOMAIN r, r[a].kind = "string"
               PROVE  a \in DOMAIN m /\ m[a] = r[a]
    BY <1>1 DEF HasText
  <2>1. a \in DOMAIN f /\ a \in DOMAIN h /\ a \in DOMAIN m
    BY <1>2, <1>3, <1>4
  <2>2. r[a] = f[a]
    BY <1>4, <1>5
  <2>3. f[a] = h[a]
    BY <1>3, <2>1, <2>2
  <2>4. h[a] = m[a]
    BY <1>2, <1>5, <2>1, <2>2, <2>3
  <2> QED BY <2>1, <2>2, <2>3, <2>4
<1>12. Fit(e, way, r)
  BY <1>4, <1>9, <1>10, <1>11 DEF Fit
<1> QED BY <1>12 DEF Trip, r, f, h, m

\* The value with its objects as maps of another kind.
Renaming(v, kind) ==
  [a \in DOMAIN v |-> IF v[a].kind = "object" THEN Node(kind, "") ELSE v[a]]

\* Renamed trees are trees, with the same nodes but for the objects.
LEMMA Renamings ==
  ASSUME NEW v, Tree(v), HasNodes(v, Plainly({"object"})), NEW kind
  PROVE  LET w == Renaming(v, kind)
         IN  /\ Tree(w) /\ DOMAIN w = DOMAIN v /\ HasNodes(w, Plainly({kind}))
             /\ \A a \in DOMAIN v :
                  /\ v[a].kind = "object" => w[a] = Node(kind, "")
                  /\ v[a].kind # "object" => w[a] = v[a]
<1> DEFINE w == Renaming(v, kind)
<1>1. /\ DOMAIN w = DOMAIN v /\ w = [a \in DOMAIN v |-> w[a]]
      /\ \A a \in DOMAIN v : /\ v[a].kind = "object" => w[a] = Node(kind, "")
                             /\ v[a].kind # "object" => w[a] = v[a]
  BY DEF Renaming
<1> HIDE DEF w
<1>2. Tree(w)
  BY <1>1, Renamed
<1>3. ASSUME NEW a \in DOMAIN w PROVE w[a] \in Plainly({kind})
  <2>1. /\ v[a] \in Plainly({"object"})
        /\ v[a].kind = "object" => w[a] = Node(kind, "")
        /\ v[a].kind # "object" => w[a] = v[a]
    BY <1>1 DEF HasNodes
  <2> QED BY <2>1, OtherKinds
<1> QED BY <1>1, <1>2, <1>3 DEF HasNodes, w

\* On each way fromJava gives the maps of JSValue back.
LEMMA FitComesBack ==
  ASSUME NEW e, NEW way \in Routes, NEW v, Fit(e, way, v)
  PROVE  Answered(way, Renaming(v, "hashmap")) = Renaming(v, "map")
<1> DEFINE h == Renaming(v, "hashmap")
           m == Renaming(v, "map")
<1>1. Tree(v) /\ HasNodes(v, Plainly({"object"})) /\ <<>> \in DOMAIN v
  BY DEF Fit, Tree
<1>2. /\ Tree(h) /\ DOMAIN h = DOMAIN v /\ HasNodes(h, Plainly({"hashmap"}))
      /\ \A a \in DOMAIN v : /\ v[a].kind = "object" => h[a] = Node("hashmap", "")
                             /\ v[a].kind # "object" => h[a] = v[a]
  BY <1>1, Renamings
<1>3. /\ Tree(m) /\ DOMAIN m = DOMAIN v
      /\ \A a \in DOMAIN v : /\ v[a].kind = "object" => m[a] = Node("map", "")
                             /\ v[a].kind # "object" => m[a] = v[a]
  BY <1>1, Renamings
<1> HIDE DEF h, m
<1>4. /\ Node("hashmap", "").kind = "hashmap" /\ Node("othermap", "").kind = "othermap"
      /\ Node("list", "").kind = "list" /\ Null.kind = "null"
  BY DEF Node, Null
<1>5. ASSUME NEW a \in DOMAIN v, v[a].kind # "object"
      PROVE  /\ v[a].kind \in {"boolean", "number", "string", "byte", "null", "array", "bytes"}
             /\ v[a].kind = "array" => v[a] = Node("array", "")
  <2>1. v[a] \in Plainly({"object"})
    BY <1>1 DEF HasNodes
  <2>2. v[a].kind \in {"boolean", "number", "string", "byte", "null", "array", "bytes"}
    BY <1>5, <2>1 DEF Plainly
  <2>3. v[a].kind = "array" => v[a].content = ""
    BY <2>1 DEF Plainly
  <2>4. v[a] = Node(v[a].kind, v[a].content)
    BY <2>1, NodesAreRecords
  <2> QED BY <2>2, <2>3, <2>4
<1>6. ASSUME NEW o, Tree(o), DOMAIN o = DOMAIN v, NEW foreign,
             \A a \in DOMAIN v : FromJavaNode(o[a], a \in foreign) = m[a],
             \A a \in foreign \ {<<>>} : ~(/\ Front(a) \in foreign /\ o[a] = Null
                                           /\ o[Front(a)].kind \in {"hashmap", "othermap"})
      PROVE  ThroughJSON(o, foreign) = m
  <2> DEFINE written == Without(o, {a \in foreign \ {<<>>} :
                               /\ Front(a) \in foreign /\ o[a] = Null
                               /\ o[Front(a)].kind \in {"hashmap", "othermap"}})
  <2>1. written = Without(o, {})
    BY <1>6
  <2>2. written = o
    BY <1>6, <2>1, AllLeft
  <2> HIDE DEF written
  <2>3. [a \in DOMAIN written |-> FromJavaNode(written[a], a \in foreign)] = [a \in DOMAIN v |-> m[a]]
    BY <1>6, <2>2
  <2>4. m = [a \in DOMAIN v |-> m[a]]
    BY <1>3 DEF Tree
  <2> QED BY <2>3, <2>4 DEF ThroughJSON, written
<1>7. \A a \in DOMAIN v : Known(h[a]) /\ h[a].kind \notin {"list", "othermap"}
  BY <1>2, <1>4, <1>5 DEF Known
<1>8. Foreign(h) = {}
  BY <1>2, <1>7, AllOrNothing
<1>9. ThroughJSON(h, {}) = m
  <2>1. \A a \in DOMAIN v : FromJavaNode(h[a], a \in {}) = m[a]
    BY <1>2, <1>3, <1>4, <1>5 DEF FromJavaNode
  <2> QED BY <1>2, <1>6, <2>1
<1>10. ASSUME way = "signal" \/ (way = "another" /\ v[<<>>].kind \in {"array", "object"})
       PROVE  /\ \A a \in DOMAIN v : v[a].kind \notin {"bytes", "byte"}
              /\ \A a \in DOMAIN v \ {<<>>} : v[Front(a)].kind = "object" => v[a] # Null
  BY <1>10 DEF Fit
<1>11. ASSUME NEW o, Tree(o), DOMAIN o = DOMAIN v,
              way = "signal" \/ (way = "another" /\ v[<<>>].kind \in {"array", "object"}),
              \A a \in DOMAIN v :
                /\ o[a] = h[a] \/ (v[a].kind = "array" /\ o[a] = Node("list", ""))
                               \/ (v[a].kind = "object" /\ o[a] = Node("othermap", ""))
       PROVE  ThroughJSON(o, DOMAIN o) = m
  <2>1. ASSUME NEW a \in DOMAIN v PROVE FromJavaNode(o[a], a \in DOMAIN o) = m[a]
    <3>1. a \in DOMAIN o
      BY <1>11
    <3>2. CASE v[a].kind = "object"
      <4>1. o[a].kind \in {"hashmap", "othermap"} /\ m[a] = Node("map", "")
        BY <1>2, <1>3, <1>4, <1>11, <3>2
      <4> QED BY <4>1 DEF FromJavaNode
    <3>3. CASE v[a].kind = "array"
      <4>1. o[a] \in {Node("array", ""), Node("list", "")} /\ m[a] = Node("array", "")
        BY <1>2, <1>3, <1>4, <1>5, <1>11, <3>3
      <4>2. Node("array", "").kind = "array"
        BY DEF Node
      <4> QED BY <1>4, <4>1, <4>2 DEF FromJavaNode
    <3>4. CASE v[a].kind \notin {"object", "array"}
      <4>1. o[a] = v[a] /\ m[a] = v[a]
        BY <1>2, <1>3, <1>11, <3>4
      <4>2. v[a].kind \in {"boolean", "number", "string", "null"}
        BY <1>5, <1>10, <1>11, <3>4
      <4> QED BY <4>1, <4>2 DEF FromJavaNode
    <3> QED BY <3>2, <3>3, <3>4
  <2>2. ASSUME NEW a \in DOMAIN v \ {<<>>}, o[a] = Null, o[Front(a)].kind \in {"hashmap", "othermap"}
        PROVE  FALSE
    <3>1. Front(a) \in DOMAIN v
      BY <1>1 DEF Tree
    <3>2. v[Front(a)].kind = "object"
      BY <1>2, <1>4, <1>5, <1>11, <2>2, <3>1
    <3>3. v[a] = Null
      BY <1>2, <1>4, <1>11, <2>2
    <3> QED BY <1>10, <1>11, <3>2, <3>3
  <2> QED BY <1>6, <1>11, <2>1, <2>2
<1>12. CASE way = "result"
  BY <1>8, <1>9, <1>12 DEF Answered, FromJava, h, m
<1>13. CASE way = "signal"
  <2>1. ThroughJSON(h, DOMAIN h) = m
    BY <1>2, <1>11, <1>13
  <2> QED BY <1>13, <2>1 DEF Answered, h, m
<1>14. CASE way = "another"
  <2> DEFINE o == OtherClass(h)
  <2>1. /\ Tree(o) /\ DOMAIN o = DOMAIN h
        /\ \A a \in DOMAIN h \ {<<>>} : o[a] = h[a] /\ Known(o[a])
        /\ h[<<>>].kind = "array" => o[<<>>] = Node("list", "")
        /\ h[<<>>].kind = "hashmap" => o[<<>>] = Node("othermap", "")
        /\ h[<<>>].kind \notin {"array", "hashmap"} => o = h /\ Known(o[<<>>])
    BY <1>2, OtherClasses
  <2> HIDE DEF o
  <2>2. CASE v[<<>>].kind \in {"array", "object"}
    <3>1. /\ v[<<>>].kind = "array" => o[<<>>] = Node("list", "")
          /\ v[<<>>].kind = "object" => o[<<>>] = Node("othermap", "")
      BY <1>1, <1>2, <1>4, <2>1, <2>2
    <3>2. ~Known(o[<<>>])
      BY <1>4, <2>2, <3>1 DEF Known
    <3>3. Foreign(o) = DOMAIN o
      BY <2>1, <3>2, AllOrNothing
    <3>4. ThroughJSON(o, DOMAIN o) = m
      BY <1>2, <1>11, <1>14, <2>1, <2>2, <3>1
    <3> QED BY <1>14, <3>3, <3>4 DEF Answered, FromJava, h, m, o
  <2>3. CASE v[<<>>].kind \notin {"array", "object"}
    <3>1. o = h
      BY <1>1, <1>2, <1>5, <2>1, <2>3
    <3> QED BY <1>8, <1>9, <1>14, <3>1 DEF Answered, FromJava, h, m, o
  <2> QED BY <2>2, <2>3
<1> QED BY <1>12, <1>13, <1>14 DEF Routes

\* A value that is fit comes back as it was sent.
LEMMA Survives ==
  ASSUME NEW e, NEW way \in Routes, NEW v, Fit(e, way, v)
  PROVE  Trip(e, way, v) = v
<1> DEFINE h == Renaming(v, "hashmap")
           m == Renaming(v, "map")
           objects == IF e = "duktape" THEN {"object", "function"} ELSE {"object"}
           cut == IF e = "duktape" THEN Supernumerary(v)
                  ELSE {a \in DOMAIN v \ {<<>>} : v[Front(a)].kind = "function"}
           read == Without(v, cut)
<1>1. Tree(v) /\ HasNodes(v, Plainly({"object"})) /\ v = [a \in DOMAIN v |-> v[a]]
  BY DEF Fit, Tree
<1>2. ASSUME NEW a \in DOMAIN v
      PROVE  /\ v[a].kind \in {"boolean", "number", "string", "byte", "null", "array", "bytes", "object"}
             /\ v[a] = Node(v[a].kind, v[a].content)
             /\ v[a].kind \in {"null", "array", "bytes", "object"} => v[a].content = ""
  <2>1. v[a] \in Plainly({"object"})
    BY <1>1 DEF HasNodes
  <2>2. v[a] = Node(v[a].kind, v[a].content)
    BY <2>1, NodesAreRecords
  <2> QED BY <2>1, <2>2 DEF Plainly
<1>3. FromScript(e, v) = m
  <2> DEFINE text(a) == IF e = "duktape" THEN Text(read[a]) ELSE read[a]
  <2>1. FromScript(e, v) = [a \in DOMAIN read |-> Converted(text(a), objects)]
    BY DEF FromScript, FromDuktape, FromSpiderMonkey, ReadByDuktape, ReadBySpiderMonkey
  <2>2. cut = {}
    <3>1. CASE e = "duktape"
      BY <3>1 DEF Fit
    <3>2. CASE e # "duktape"
      <4>1. \A a \in DOMAIN v \ {<<>>} : Front(a) \in DOMAIN v
        BY <1>1 DEF Tree
      <4> QED BY <1>2, <3>2, <4>1
    <3> QED BY <3>1, <3>2
  <2>3. read = v
    BY <1>1, <2>2, AllLeft
  <2>5. \A a \in DOMAIN v : text(a) = v[a]
    BY <2>3 DEF Fit, HasText, Text
  <2> HIDE DEF read, text
  <2>4. ASSUME NEW a \in DOMAIN v
        PROVE  Converted(v[a], objects) = IF v[a].kind = "object" THEN Node("map", "") ELSE v[a]
    <3>1. CASE v[a].kind = "object"
      BY <3>1 DEF Converted, Buffer
    <3>2. CASE v[a].kind \in {"boolean", "number", "string", "byte", "array"}
      BY <3>2 DEF Converted, Buffer
    <3>3. CASE v[a].kind = "bytes"
      <4>1. v[a] = Node("bytes", "")
        BY <1>2, <3>3
      <4> QED BY <3>3, <4>1 DEF Converted, Buffer
    <3>4. CASE v[a].kind = "null"
      <4>1. v[a] = Null
        BY <1>2, <3>4 DEF Null
      <4> QED BY <3>4, <4>1 DEF Converted, Buffer
    <3> QED BY <1>2, <3>1, <3>2, <3>3, <3>4
  <2> QED BY <2>1, <2>3, <2>4, <2>5 DEF Renaming
<1>4. /\ Node("hashmap", "").kind = "hashmap" /\ Node("map", "").kind = "map"
      /\ \A a \in DOMAIN v : v[a].kind = "object" => v[a] = Node("object", "")
  BY <1>2 DEF Node
<1>5. /\ DOMAIN m = DOMAIN v
      /\ \A a \in DOMAIN v : /\ v[a].kind = "object" => m[a] = Node("map", "")
                             /\ v[a].kind # "object" => m[a] = v[a]
  BY DEF Renaming
<1> HIDE DEF m
<1>6. AsSimpleJava(m) = h
  <2>1. ASSUME NEW a \in DOMAIN v
        PROVE  (IF m[a].kind = "map" THEN Node("hashmap", "") ELSE m[a])
                 = (IF v[a].kind = "object" THEN Node("hashmap", "") ELSE v[a])
    BY <1>2, <1>4, <1>5
  <2> QED BY <1>5, <2>1 DEF AsSimpleJava, Renaming
<1>7. ToScript(m) = v
  <2>1. ASSUME NEW a \in DOMAIN v
        PROVE  (IF m[a].kind = "map" THEN Node("object", "") ELSE m[a]) = v[a]
    BY <1>2, <1>4, <1>5
  <2> QED BY <1>1, <1>5, <2>1 DEF ToScript
<1>8. Answered(way, h) = m
  BY FitComesBack DEF m
<1> QED BY <1>3, <1>6, <1>7, <1>8 DEF Trip

-----------------------------------------------------------------------------
(* The invariant and the properties.                                       *)

\* At first a script has what it sends.
LEMMA InitValueInv == ValueInit => ValueInv
BY DEF ValueInit, ValueInv, Source

\* Each step of a trip is one of the functions that a trip consists of.
LEMMA NextValueInv == ValueInv /\ [ValueNext]_valueVars => ValueInv'
<1> SUFFICES ASSUME ValueInv, [ValueNext]_valueVars PROVE ValueInv'
  OBVIOUS
<1> DEFINE Same == UNCHANGED <<vm, route, sent, echo>>
<1>1. Same => Source' = Source
  BY DEF Source
<1>2. ASSUME Yield PROVE ValueInv'
  BY <1>1, <1>2 DEF ValueInv, Yield
<1>3. ASSUME YieldNull PROVE ValueInv'
  BY <1>1, <1>3 DEF ValueInv, YieldNull
<1>4. ASSUME Invoke PROVE ValueInv'
  BY <1>1, <1>4 DEF ValueInv, Invoke
<1>5. ASSUME AnswerWithValue PROVE ValueInv'
  <2>1. Answered(route, value) = FromJava(value)
    BY <1>5 DEF AnswerWithValue, Answered
  <2> QED BY <1>1, <1>5, <2>1 DEF ValueInv, AnswerWithValue, Answer
<1>6. ASSUME AnswerWithOther PROVE ValueInv'
  <2>1. Answered(route, value) = FromJava(OtherClass(value))
    BY <1>6 DEF AnswerWithOther, Answered
  <2> QED BY <1>1, <1>6, <2>1 DEF ValueInv, AnswerWithOther, Answer
<1>7. ASSUME AnswerWithSignal PROVE ValueInv'
  <2>1. Answered(route, value) = ThroughJSON(value, DOMAIN value)
    BY <1>7 DEF AnswerWithSignal, Answered
  <2> QED BY <1>1, <1>7, <2>1 DEF ValueInv, AnswerWithSignal
<1>8. ASSUME Receive PROVE ValueInv'
  <2>1. Unwrapped(<<ToScript(value)>>) = ToScript(value)
    BY DEF Unwrapped
  <2> QED BY <1>1, <1>8, <2>1 DEF ValueInv, Receive, Trip
<1>9. ASSUME SendAgain PROVE ValueInv'
  <2>1. echo' = {Trip(vm, route, sent)} /\ value = Trip(vm, route, sent)
    BY <1>9 DEF SendAgain, ValueInv, Source
  <2>2. Source' = Trip(vm, route, sent)
    BY <1>9, <2>1 DEF SendAgain, Source
  <2> QED BY <1>9, <2>1, <2>2 DEF ValueInv, SendAgain
<1>10. ASSUME YieldBadText \/ ReceiveBadText PROVE ValueInv'
  BY <1>1, <1>10 DEF ValueInv, YieldBadText, ReceiveBadText
<1>11. ASSUME YieldTooDeep \/ ReceiveTooDeep PROVE ValueInv'
  BY <1>1, <1>11 DEF ValueInv, YieldTooDeep, ReceiveTooDeep, Refused
<1>12. ASSUME UNCHANGED valueVars PROVE ValueInv'
  BY <1>12 DEF ValueInv, Source, valueVars
<1> QED BY <1>2, <1>3, <1>4, <1>5, <1>6, <1>7, <1>8, <1>9, <1>10, <1>11, <1>12 DEF ValueNext

\* The invariant holds: nothing but the conversions has any influence on a value.
LEMMA ValueInvariant == ValueSpec => []ValueInv
BY InitValueInv, NextValueInv, PTL DEF ValueSpec

\* Of any finite tree of plain values, whose keys have no surrogates and which Duktape
\* has in UTF-8, what comes back from a component is what was sent, on either engine,
\* for any limit of keys and whatever the texts and numbers are; that it comes back is
\* not said.
THEOREM PlainAlwaysSurvives == ValueSpec => []PlainSurvives
<1>1. ValueInv => PlainSurvives
  <2> SUFFICES ASSUME ValueInv, FirstEcho, Plain(sent), route = "result" \/ JSONLike(sent)
               PROVE  value = sent
    BY DEF PlainSurvives
  <2>1. route \in Routes /\ IsScriptValue(sent) /\ value = Trip(vm, route, sent)
    BY ValuesAssumption DEF ValueInv, FirstEcho, Source
  <2>2. Tree(sent) /\ HasNodes(sent, ScriptNodes)
    BY <2>1, ScriptTrees
  <2>3. HasNodes(sent, Plainly({"object"}))
    <3> SUFFICES ASSUME NEW a \in DOMAIN sent PROVE sent[a] \in Plainly({"object"})
      BY DEF HasNodes
    <3>1. sent[a] \in ScriptNodes /\ sent[a].kind \notin {"undefined", "function", "buffer"}
      BY <2>2 DEF HasNodes, Plain
    <3> QED BY <3>1 DEF ScriptNodes, Plainly, Listing, Buffer
  <2>4. Supernumerary(sent) = {}
    <3> SUFFICES ASSUME NEW a \in Supernumerary(sent) PROVE FALSE
      OBVIOUS
    <3>1. /\ a \in DOMAIN sent \ {<<>>} /\ sent[Front(a)].kind \in Listing
          /\ Cardinality(Elders(sent, a)) >= MaxKeys
      BY DEF Supernumerary
    <3>2. Front(a) \in DOMAIN sent
      BY <2>2, <3>1 DEF Tree
    <3>3. Cardinality(Items(sent, Front(a))) =< MaxKeys
      BY <3>1, <3>2 DEF Plain, Small
    <3>4. Cardinality(Elders(sent, a)) < Cardinality(Items(sent, Front(a)))
      BY <2>2, <3>1, EldersAreItems
    <3>5. Cardinality(Elders(sent, a)) \in Nat /\ MaxKeys \in Nat
      BY <2>2, FewerElders, ValuesAssumption
    <3>6. Cardinality(Items(sent, Front(a))) \in Nat
      BY <2>2, FS_Subset, FS_CardinalityType DEF Items, Tree
    <3> QED BY <3>1, <3>3, <3>4, <3>5, <3>6
  <2>5. ASSUME JSONLike(sent), NEW a \in DOMAIN sent
        PROVE  sent[a].kind \notin {"bytes", "byte"}
    <3>1. \A b \in DOMAIN sent : sent[b].kind \notin Buffer
      BY <2>5 DEF JSONLike, Plain, Buffer
    <3>2. a # <<>> /\ sent[a].kind = "byte" => Front(a) \in DOMAIN sent /\ sent[Front(a)].kind \in Buffer
      BY <2>1 DEF IsScriptValue
    <3>3. a = <<>> => sent[a].kind # "byte"
      BY <2>1 DEF IsScriptValue
    <3> QED BY <3>1, <3>2, <3>3 DEF Buffer
  <2>6. Fit(vm, route, sent)
    BY <2>2, <2>3, <2>4, <2>5 DEF Fit, JSONLike, Plain
  <2> QED BY <2>1, <2>6, Survives
<1> QED BY <1>1, ValueInvariant, PTL

\* What has made one trip, of whatever was sent, makes the second unchanged; in Duktape
\* only if no bytes have become more numbers than it keeps.
THEOREM SecondEchoesAreSame == ValueSpec => []SecondEchoSame
<1>1. ValueInv => SecondEchoSame
  <2> SUFFICES ASSUME ValueInv, at = "received", echo # {},
                      vm = "duktape" => route = "result" \/ Small(sent, Buffer)
               PROVE  echo = {value}
    BY DEF SecondEchoSame
  <2> DEFINE first == Trip(vm, route, sent)
  <2>1. /\ route \in Routes /\ IsScriptValue(sent)
        /\ echo = {first} /\ value = Trip(vm, route, first)
    BY ValuesAssumption DEF ValueInv, Source
  <2>2. Tree(sent) /\ HasNodes(sent, ScriptNodes)
    BY <2>1, ScriptTrees
  <2>3. Fit(vm, route, first)
    BY <2>1, <2>2, ArrivesFit
  <2> HIDE DEF first
  <2>4. Trip(vm, route, first) = first
    BY <2>1, <2>3, Survives
  <2> QED BY <2>1, <2>4
<1> QED BY <1>1, ValueInvariant, PTL
=============================================================================
