------------------------- MODULE ReceiveBuffers_proofs -------------------------
(***************************************************************************)
(* The heap and the receive buffers, for buffers, messages and a heap of   *)
(* any sizes.  Whatever main_task, the Bluetooth task, the controller and  *)
(* the interrupt allocate and free, and in whatever order: the heap stays  *)
(* one, and the count of what is free is right; no more than one buffer is *)
(* lost; and with one link in use nothing is lost or freed twice.          *)
(***************************************************************************)
EXTENDS ReceiveBuffersProps, FiniteSetTheorems, FunctionTheorems, WellFoundedInduction,
        TLAPS
-----------------------------------------------------------------------------
(* Sums over sets.  MapThenSumSet takes one element after the other, as     *)
(* CHOOSE gives them; the lemmas say that the order makes no difference.    *)
(* A proof by induction looks at the least number for which it would fail.  *)

LEMMA Induct ==
    ASSUME NEW T, T \subseteq Nat, T # {}, 0 \notin T
    PROVE  \E n \in Nat : n \notin T /\ n + 1 \in T
<1>1. PICK m \in T : \A k \in T : ~ (<<k, m>> \in OpToRel(<, Nat))
  BY NatLessThanWellFounded, WFMin
<1>2. \A k \in Nat, m2 \in Nat : k < m2 => <<k, m2>> \in OpToRel(<, Nat)
  BY Zenon DEF OpToRel
<1>3. m \in Nat /\ m # 0
  BY <1>1
<1>4. m - 1 \in Nat /\ m - 1 < m /\ (m - 1) + 1 = m
  BY <1>3
<1>5. m - 1 \notin T
  BY <1>1, <1>2, <1>3, <1>4
<1> QED BY <1>1, <1>4, <1>5

Sum(S) == MapThenSumSet(LAMBDA b : b.size, S)

(* The element that is taken first, and a turn of the sum.                  *)
Some(s) == CHOOSE x \in s : TRUE
Turn(g, s) == IF s = {} THEN 0 ELSE Some(s).size + g[s \ {Some(s)}]

LEMMA SomeIn == \A s : s # {} => Some(s) \in s
  BY DEF Some

(* g sums up the subsets of S that have no more than n elements.            *)
SumsUp(g, S, n) == \A s \in SUBSET S : Cardinality(s) <= n => g[s] = Turn(g, s)

LEMMA LessThan ==
    ASSUME NEW S, IsFiniteSet(S), NEW s \in SUBSET S, NEW x \in s,
           NEW k \in Nat, Cardinality(s) <= k + 1
    PROVE  s \ {x} \in SUBSET S /\ Cardinality(s \ {x}) <= k
<1>1. IsFiniteSet(s)
  BY FS_Subset
<1>2. Cardinality(s) \in Nat
  BY <1>1, FS_CardinalityType
<1>3. Cardinality(s \ {x}) = Cardinality(s) - 1
  BY <1>1, FS_RemoveElement
<1> QED BY <1>2, <1>3

LEMMA SumsUpTo ==
    ASSUME NEW S, IsFiniteSet(S), NEW n \in Nat
    PROVE  \E g : SumsUp(g, S, n)
<1> DEFINE T == {k \in Nat : ~ \E g : SumsUp(g, S, k)}
<1>1. 0 \notin T
  <2> DEFINE g == [s \in SUBSET S |-> 0]
  <2>1. \A s \in SUBSET S : Cardinality(s) <= 0 => s = {}
    <3> TAKE s \in SUBSET S
    <3>1. IsFiniteSet(s) /\ Cardinality(s) \in Nat
      BY FS_Subset, FS_CardinalityType
    <3> QED BY <3>1, FS_EmptySet
  <2>2. SumsUp(g, S, 0)
    BY <2>1 DEF SumsUp, Turn
  <2> QED BY <2>2
<1>2. ASSUME NEW k \in Nat, k \notin T PROVE k + 1 \notin T
  <2>1. PICK g : SumsUp(g, S, k)
    BY <1>2
  <2> DEFINE h == [s \in SUBSET S |-> Turn(g, s)]
  <2>2. ASSUME NEW s \in SUBSET S, Cardinality(s) <= k + 1
        PROVE  h[s] = Turn(h, s)
    <3>1. CASE s = {}
      BY <3>1 DEF Turn
    <3>2. CASE s # {}
      <4> DEFINE x == Some(s)
                 t == s \ {x}
      <4>1. x \in s
        BY <3>2, SomeIn
      <4>2. t \in SUBSET S /\ Cardinality(t) <= k
        BY <2>2, <4>1, LessThan
      <4>3. g[t] = Turn(g, t) /\ h[t] = Turn(g, t)
        BY <2>1, <4>2 DEF SumsUp
      <4>4. h[s] = Turn(g, s)
        OBVIOUS
      <4> HIDE DEF h
      <4> QED BY <3>2, <4>3, <4>4 DEF Turn
    <3> QED BY <3>1, <3>2
  <2>3. SumsUp(h, S, k + 1)
    BY <2>2, Zenon DEF SumsUp
  <2> QED BY <2>3, Zenon
<1>3. T = {}
  BY <1>1, <1>2, Induct
<1> QED BY <1>3

(* The function that MapThenSumSet builds.                                  *)
Iter(S) == CHOOSE g : g = [s \in SUBSET S |-> Turn(g, s)]

LEMMA IterSums ==
    ASSUME NEW S, IsFiniteSet(S)
    PROVE  Sum(S) = Iter(S)[S] /\ \A s \in SUBSET S : Iter(S)[s] = Turn(Iter(S), s)
<1> DEFINE n == Cardinality(S)
<1>1. n \in Nat
  BY FS_CardinalityType
<1>2. PICK g : SumsUp(g, S, n)
  BY <1>1, SumsUpTo
<1>3. \A s \in SUBSET S : g[s] = Turn(g, s)
  <2>1. \A s \in SUBSET S : Cardinality(s) <= n
    BY FS_Subset
  <2> QED BY <1>2, <2>1 DEF SumsUp
<1> DEFINE h == [s \in SUBSET S |-> g[s]]
<1>4. h = [s \in SUBSET S |-> Turn(h, s)]
  <2>1. ASSUME NEW s \in SUBSET S PROVE g[s] = Turn(h, s)
    <3>1. CASE s = {}
      BY <1>3, <3>1 DEF Turn
    <3>2. CASE s # {}
      <4>1. s \ {Some(s)} \in SUBSET S
        OBVIOUS
      <4>2. h[s \ {Some(s)}] = g[s \ {Some(s)}]
        BY <4>1
      <4>3. g[s] = Turn(g, s)
        BY <1>3
      <4> HIDE DEF h
      <4> QED BY <3>2, <4>2, <4>3 DEF Turn
    <3> QED BY <3>1, <3>2
  <2>2. \A s \in SUBSET S : h[s] = Turn(h, s)
    BY <2>1
  <2>3. h = [s \in SUBSET S |-> h[s]]
    OBVIOUS
  <2> HIDE DEF h
  <2> QED BY <2>2, <2>3
<1> HIDE DEF h
<1>5. Iter(S) = [s \in SUBSET S |-> Turn(Iter(S), s)]
  BY <1>4, Zenon DEF Iter
<1>6. \A s \in SUBSET S : Iter(S)[s] = Turn(Iter(S), s)
  <2> DEFINE f == Iter(S)
  <2>1. f = [s \in SUBSET S |-> Turn(f, s)]
    BY <1>5
  <2> HIDE DEF f
  <2>2. \A s \in SUBSET S : f[s] = Turn(f, s)
    BY <2>1
  <2> QED BY <2>2 DEF f
<1>7. Sum(S) = Iter(S)[S]
  BY Zenon DEF Sum, MapThenSumSet, MapThenFoldSet, Turn, Iter, Some
<1> QED BY <1>6, <1>7

LEMMA SumIsNat ==
    ASSUME NEW S, IsFiniteSet(S), \A b \in S : b.size \in Nat,
           NEW f, \A s \in SUBSET S : f[s] = Turn(f, s)
    PROVE  \A s \in SUBSET S : f[s] \in Nat
<1> DEFINE T == {k \in Nat : \E s \in SUBSET S : Cardinality(s) <= k /\ f[s] \notin Nat}
<1>1. \A s \in SUBSET S : IsFiniteSet(s) /\ Cardinality(s) \in Nat
  BY FS_Subset, FS_CardinalityType
<1>2. 0 \notin T
  <2>1. \A s \in SUBSET S : Cardinality(s) <= 0 => s = {}
    BY <1>1, FS_EmptySet
  <2> QED BY <2>1 DEF Turn
<1>3. ASSUME NEW k \in Nat, k \notin T PROVE k + 1 \notin T
  <2>0. \A s \in SUBSET S : Cardinality(s) <= k => f[s] \in Nat
    BY <1>3
  <2> SUFFICES ASSUME NEW s \in SUBSET S, Cardinality(s) <= k + 1 PROVE f[s] \in Nat
    OBVIOUS
  <2>1. CASE s = {}
    <3>1. f[s] = 0
      BY <2>1 DEF Turn
    <3> QED BY <3>1
  <2>2. CASE s # {}
    <3> DEFINE x == Some(s)
    <3>1. x \in s
      BY <2>2, SomeIn
    <3>2. s \ {x} \in SUBSET S /\ Cardinality(s \ {x}) <= k
      BY <3>1, LessThan
    <3>3. f[s \ {x}] \in Nat /\ x.size \in Nat
      BY <2>0, <3>1, <3>2
    <3>4. f[s] = x.size + f[s \ {x}]
      BY <2>2 DEF Turn
    <3> HIDE DEF x
    <3> QED BY <3>3, <3>4
  <2> QED BY <2>1, <2>2
<1>4. T = {}
  BY <1>2, <1>3, Induct
<1> QED BY <1>1, <1>4

(* Any element may be taken first.                                          *)
LEMMA AnyFirst ==
    ASSUME NEW S, IsFiniteSet(S), \A b \in S : b.size \in Nat,
           NEW f, \A s \in SUBSET S : f[s] = Turn(f, s)
    PROVE  \A s \in SUBSET S : \A b \in s : f[s] = b.size + f[s \ {b}]
<1> DEFINE P(s) == \A b \in s : f[s] = b.size + f[s \ {b}]
           T == {k \in Nat : ~ \A s \in SUBSET S : Cardinality(s) <= k => P(s)}
<1>1. \A s \in SUBSET S : IsFiniteSet(s) /\ Cardinality(s) \in Nat
  BY FS_Subset, FS_CardinalityType
<1>2. 0 \notin T
  <2>1. \A s \in SUBSET S : Cardinality(s) <= 0 => s = {}
    BY <1>1, FS_EmptySet
  <2> QED BY <2>1
<1>3. ASSUME NEW k \in Nat, k \notin T PROVE k + 1 \notin T
  <2> SUFFICES ASSUME NEW s \in SUBSET S, Cardinality(s) <= k + 1, NEW b \in s
               PROVE  f[s] = b.size + f[s \ {b}]
    BY <1>3
  <2> DEFINE x == Some(s)
             both == (s \ {b}) \ {x}
  <2>1. x \in s
    BY SomeIn
  <2>2. f[s] = x.size + f[s \ {x}]
    BY DEF Turn
  <2>3. CASE x = b
    BY <2>2, <2>3
  <2>4. CASE x # b
    <3> HIDE DEF x
    <3>1. /\ s \ {x} \in SUBSET S /\ Cardinality(s \ {x}) <= k
          /\ s \ {b} \in SUBSET S /\ Cardinality(s \ {b}) <= k
      BY <2>1, LessThan
    <3>2. b \in s \ {x} /\ x \in s \ {b} /\ (s \ {x}) \ {b} = both
      BY <2>1, <2>4
    <3>3. f[s \ {x}] = b.size + f[both]
      BY <1>3, <3>1, <3>2
    <3>4. f[s \ {b}] = x.size + f[both]
      BY <1>3, <3>1, <3>2
    <3>5. b.size \in Nat /\ x.size \in Nat /\ f[both] \in Nat
      BY <2>1, SumIsNat
    <3> HIDE DEF both
    <3> QED BY <2>2, <3>3, <3>4, <3>5
  <2> QED BY <2>3, <2>4
<1>4. T = {}
  BY <1>2, <1>3, Induct
<1>5. \A s \in SUBSET S : P(s)
  <2> SUFFICES ASSUME NEW s \in SUBSET S PROVE P(s)
    OBVIOUS
  <2>1. Cardinality(s) \in Nat /\ Cardinality(s) <= Cardinality(s)
    BY <1>1
  <2> HIDE DEF P
  <2> QED BY <1>4, <2>1
<1> QED BY <1>5

(* What is summed up beside it makes no difference.                         *)
LEMMA SameSum ==
    ASSUME NEW S, IsFiniteSet(S), NEW f, \A s \in SUBSET S : f[s] = Turn(f, s),
           NEW g, \A s \in SUBSET S : g[s] = Turn(g, s)
    PROVE  \A s \in SUBSET S : f[s] = g[s]
<1> DEFINE T == {k \in Nat : ~ \A s \in SUBSET S : Cardinality(s) <= k => f[s] = g[s]}
<1>1. \A s \in SUBSET S : IsFiniteSet(s) /\ Cardinality(s) \in Nat
  BY FS_Subset, FS_CardinalityType
<1>2. 0 \notin T
  <2>1. \A s \in SUBSET S : Cardinality(s) <= 0 => s = {}
    BY <1>1, FS_EmptySet
  <2> QED BY <2>1 DEF Turn
<1>3. ASSUME NEW k \in Nat, k \notin T PROVE k + 1 \notin T
  <2> SUFFICES ASSUME NEW s \in SUBSET S, Cardinality(s) <= k + 1 PROVE f[s] = g[s]
    BY <1>3
  <2>1. CASE s = {}
    BY <2>1 DEF Turn
  <2>2. CASE s # {}
    <3> DEFINE x == Some(s)
    <3>1. x \in s
      BY <2>2, SomeIn
    <3>2. s \ {x} \in SUBSET S /\ Cardinality(s \ {x}) <= k
      BY <3>1, LessThan
    <3>3. f[s \ {x}] = g[s \ {x}]
      BY <1>3, <3>2
    <3>4. f[s] = x.size + f[s \ {x}] /\ g[s] = x.size + g[s \ {x}]
      BY <2>2 DEF Turn
    <3> QED BY <3>3, <3>4
  <2> QED BY <2>1, <2>2
<1>4. T = {}
  BY <1>2, <1>3, Induct
<1> QED BY <1>1, <1>4

LEMMA SumAdd ==
    ASSUME NEW S, IsFiniteSet(S), NEW b, b \notin S, b.size \in Nat, \A c \in S : c.size \in Nat
    PROVE  /\ Sum(S) \in Nat /\ Sum(S \cup {b}) = Sum(S) + b.size
           /\ IsFiniteSet(S \cup {b})
<1> DEFINE U == S \cup {b}
           f == Iter(S)
           g == Iter(U)
<1>1. IsFiniteSet(U) /\ \A c \in U : c.size \in Nat
  BY FS_AddElement
<1>2. Sum(S) = f[S] /\ \A s \in SUBSET S : f[s] = Turn(f, s)
  BY IterSums
<1>3. Sum(U) = g[U] /\ \A s \in SUBSET U : g[s] = Turn(g, s)
  BY <1>1, IterSums
<1> HIDE DEF f, g
<1>4. \A s \in SUBSET S : g[s] = Turn(g, s)
  BY <1>3
<1>5. f[S] = g[S]
  BY <1>2, <1>4, SameSum
<1>6. g[U] = b.size + g[U \ {b}]
  BY <1>1, <1>3, AnyFirst
<1>7. U \ {b} = S
  OBVIOUS
<1>8. f[S] \in Nat
  <2>1. \A s \in SUBSET S : f[s] \in Nat
    BY <1>2, SumIsNat
  <2> QED BY <2>1
<1>9. g[U] = b.size + f[S]
  BY <1>5, <1>6, <1>7
<1>10. b.size + f[S] = f[S] + b.size
  BY <1>8
<1> QED BY <1>1, <1>2, <1>3, <1>8, <1>9, <1>10, Zenon

LEMMA SumRemove ==
    ASSUME NEW S, IsFiniteSet(S), NEW b \in S, \A c \in S : c.size \in Nat
    PROVE  /\ Sum(S) \in Nat /\ Sum(S \ {b}) \in Nat /\ Sum(S) = Sum(S \ {b}) + b.size
           /\ IsFiniteSet(S \ {b})
<1> DEFINE R == S \ {b}
<1>1. IsFiniteSet(R)
  BY FS_RemoveElement
<1>2. R \cup {b} = S /\ b \notin R
  OBVIOUS
<1>3. b.size \in Nat /\ \A c \in R : c.size \in Nat
  OBVIOUS
<1> HIDE DEF R, Sum
<1>4. Sum(R) \in Nat /\ Sum(R \cup {b}) = Sum(R) + b.size
  BY <1>1, <1>2, <1>3, SumAdd
<1>5. Sum(S) = Sum(R) + b.size
  BY <1>2, <1>4, Zenon
<1>6. Sum(S) \in Nat
  BY <1>3, <1>4, <1>5
<1> QED BY <1>1, <1>4, <1>5, <1>6, Zenon DEF R

LEMMA SumIsNatural ==
    ASSUME NEW S, IsFiniteSet(S), \A c \in S : c.size \in Nat PROVE Sum(S) \in Nat
<1>1. Sum(S) = Iter(S)[S] /\ \A s \in SUBSET S : Iter(S)[s] = Turn(Iter(S), s)
  BY IterSums
<1>2. \A s \in SUBSET S : Iter(S)[s] \in Nat
  BY <1>1, SumIsNat
<1> QED BY <1>1, <1>2

LEMMA SumNone == Sum({}) = 0
<1>1. IsFiniteSet({})
  BY FS_EmptySet
<1>2. Sum({}) = Iter({})[{}] /\ \A s \in SUBSET {} : Iter({})[s] = Turn(Iter({}), s)
  BY <1>1, IterSums
<1>3. Iter({})[{}] = Turn(Iter({}), {})
  BY <1>2
<1> QED BY <1>2, <1>3 DEF Turn

-----------------------------------------------------------------------------
(***************************************************************************)
(* The list of free blocks stays right, for a heap of any size and any     *)
(* sequence of requests.                                                   *)
(***************************************************************************)

(* Blocks as HeapOK has them, without the joining of the free ones.         *)
Tiled(free, used) ==
    /\ free \subseteq Block /\ used \subseteq Block
    /\ free \cap used = {}
    /\ \A b, c \in free \cup used : b = c \/ End(b) <= c.at \/ End(c) <= b.at
    /\ \E b \in free \cup used : b.at = 0
    /\ \A b \in free \cup used :
         End(b) = HeapSize \/ \E c \in free \cup used : c.at = End(b)
    /\ \A b \in free \cup used : b.at % 8 = 0 /\ b.size % 8 = 0 /\ End(b) <= HeapSize

(* What is free and what is used adds up.                                   *)
Counted(h) == Sum(h.free) = h.left /\ h.left + Sum(h.used) = HeapSize

HeapInv(h) == h \in Heap /\ Tiled(h.free, h.used) /\ Coalesced(h) /\ Counted(h)

LEMMA HeapInvOK ==
    ASSUME NEW h, HeapInv(h) PROVE HeapOK(h)
BY DEF HeapInv, HeapOK, Tiled, Blocks, NoOverlap, NothingLost, Coalesced

(* There are finitely many blocks: each begins somewhere else.              *)
LEMMA TiledFinite ==
    ASSUME NEW free, NEW used, Tiled(free, used)
    PROVE  /\ IsFiniteSet(free) /\ IsFiniteSet(used)
           /\ \A b \in free \cup used : b.size \in Nat \ {0} /\ b.at \in Nat
<1> DEFINE all == free \cup used
           f == [b \in all |-> b.at]
<1>1. \A b \in all : b.size \in Nat \ {0} /\ b.at \in 0 .. HeapSize
  BY HeapAssumption DEF Tiled, Block
<1>2. f \in [all -> 0 .. HeapSize]
  BY <1>1
<1>3. \A b, c \in all : f[b] = f[c] => b = c
  <2> TAKE b, c \in all
  <2>1. b = c \/ End(b) <= c.at \/ End(c) <= b.at
    BY DEF Tiled
  <2> QED BY <1>1, <2>1, HeapAssumption DEF End
<1> HIDE DEF f, all
<1>4. f \in Injection(all, 0 .. HeapSize)
  BY <1>2, <1>3, Fun_IsInj
<1>5. IsFiniteSet(0 .. HeapSize)
  BY HeapAssumption, FS_Interval
<1>6. IsFiniteSet(all)
  BY <1>4, <1>5, FS_Injection
<1>7. free \in SUBSET all /\ used \in SUBSET all
  BY DEF all
<1>8. \A b \in all : b.size \in Nat \ {0} /\ b.at \in Nat
  BY <1>1, HeapAssumption
<1> QED BY <1>6, <1>7, <1>8, FS_Subset DEF all

-----------------------------------------------------------------------------
(* prvInsertBlockIntoFreeList: a block that is missing from a tiling, put   *)
(* back, completes it, and the free blocks are joined.                      *)
LEMMA Unique ==
    ASSUME NEW free, NEW used, NEW b \in Block, b \notin free, Tiled(free \cup {b}, used)
    PROVE  /\ \A c, d \in Before(free, b) : c = d
           /\ \A c, d \in After(free, b) : c = d
           /\ Before(free, b) \cap After(free, b) = {}
<1>1. ASSUME NEW c \in free \cup {b}
      PROVE  /\ c.at \in Nat /\ End(c) \in Nat /\ c.at < End(c)
             /\ \A d \in free \cup {b} : c = d \/ End(c) <= d.at \/ End(d) <= c.at
  <2>1. c \in Block
    BY DEF Tiled
  <2>2. c.at \in Nat /\ End(c) \in Nat /\ c.at < End(c)
    BY <2>1, HeapAssumption DEF Block, End
  <2> QED BY <2>2 DEF Tiled
<1>2. ASSUME NEW c \in Before(free, b), NEW d \in Before(free, b) PROVE c = d
  <2>1. c \in free /\ d \in free /\ End(c) = End(d)
    BY DEF Before
  <2> QED BY <1>1, <2>1
<1>3. ASSUME NEW c \in After(free, b), NEW d \in After(free, b) PROVE c = d
  <2>1. c \in free /\ d \in free /\ c.at = d.at
    BY DEF After
  <2> QED BY <1>1, <2>1
<1>4. Before(free, b) \cap After(free, b) = {}
  BY <1>1 DEF Before, After
<1> QED BY <1>2, <1>3, <1>4

LEMMA InsertTiled ==
    ASSUME NEW free, NEW used, NEW b \in Block, b \notin free,
           Tiled(free \cup {b}, used),
           \A c, d \in free : End(c) # d.at
    PROVE  /\ Tiled(InsertBlock(free, b), used)
           /\ \A c, d \in InsertBlock(free, b) : End(c) # d.at
           /\ Sum(InsertBlock(free, b)) = Sum(free) + b.size
<1> DEFINE F == Before(free, b)
           A == After(free, b)
           at == JoinedAt(free, b)
           end == JoinedEnd(free, b)
           j == [at |-> at, size |-> end - at]
           kept == free \ (F \cup A)
           gone == F \cup A \cup {b}
<1>1. /\ F = {} /\ at = b.at
      \/ \E c \in F : F = {c} /\ at = c.at
  BY Unique DEF JoinedAt
<1>2. /\ A = {} /\ end = End(b)
      \/ \E c \in A : A = {c} /\ end = End(c)
  BY Unique DEF JoinedEnd
<1>3. F \subseteq free /\ A \subseteq free /\ free \subseteq Block
  BY DEF Before, After, Tiled
<1>4. /\ at \in 0 .. HeapSize /\ at <= b.at
      /\ end \in 0 .. HeapSize /\ End(b) <= end
      /\ at % 8 = 0 /\ end % 8 = 0
  <2>1. at \in 0 .. HeapSize /\ at <= b.at /\ at % 8 = 0
    BY <1>1, <1>3, HeapAssumption DEF Tiled, Before, Block, End
  <2>2. end \in 0 .. HeapSize /\ End(b) <= end /\ end % 8 = 0
    <3>1. ASSUME NEW c \in free \cup {b}
          PROVE  End(c) \in 0 .. HeapSize /\ End(c) % 8 = 0 /\ c.at < End(c)
      <4>1. c.at \in Nat /\ c.size \in Nat \ {0} /\ c.at % 8 = 0 /\ c.size % 8 = 0
        BY HeapAssumption DEF Tiled, Block
      <4> QED BY <4>1, HeapAssumption DEF Tiled, End
    <3> QED BY <1>2, <1>3, <3>1, HeapAssumption DEF After
  <2> QED BY <2>1, <2>2
<1>5. j \in Block /\ End(j) = end /\ j.at = at /\ (end - at) % 8 = 0
  BY <1>4, HeapAssumption DEF Block, End
<1>6. InsertBlock(free, b) = kept \cup {j}
  BY DEF InsertBlock
(* what is replaced begins where j does, ends where it does, and lies in it *)
<1>7. /\ \A c \in gone : at <= c.at /\ End(c) <= end
      /\ \E c \in gone : c.at = at
      /\ \E c \in gone : End(c) = end
      /\ \A c \in gone : End(c) = end \/ \E d \in gone : d.at = End(c)
  BY <1>1, <1>2, <1>3, <1>4, HeapAssumption DEF Before, After, Block, End
(* and everything else lies outside *)
<1>8. ASSUME NEW c \in kept \cup used PROVE End(c) <= at \/ end <= c.at
  BY <1>1, <1>2, <1>3, <1>4, HeapAssumption DEF Tiled, Before, After, Block, End
<1>9. ASSUME NEW c \in gone PROVE End(c) <= end /\ at <= c.at /\ c.at < End(c)
  BY <1>3, <1>7, HeapAssumption DEF Block, End
<1>10. kept \cup used \cup gone = free \cup {b} \cup used
  BY <1>3
<1> DEFINE new == kept \cup {j}
<1>11. new \subseteq Block /\ used \subseteq Block /\ new \cap used = {}
  <2>1. j \notin used
    BY <1>5, <1>8, HeapAssumption DEF Block, End
  <2> QED BY <1>3, <1>5, <2>1 DEF Tiled
<1>12. \A c, d \in new \cup used : c = d \/ End(c) <= d.at \/ End(d) <= c.at
  BY <1>3, <1>5, <1>8 DEF Tiled
<1>13. \E c \in new \cup used : c.at = 0
  <2>1. PICK c \in free \cup {b} \cup used : c.at = 0
    BY DEF Tiled
  <2>2. CASE c \in gone
    BY <2>1, <2>2, <1>9, <1>4, <1>5, HeapAssumption
  <2> QED BY <2>1, <2>2, <1>10
<1>14. ASSUME NEW c \in new \cup used
       PROVE  End(c) = HeapSize \/ \E d \in new \cup used : d.at = End(c)
  <2>1. CASE c = j
    <3>1. PICK g \in gone : End(g) = end
      BY <1>7
    <3>2. CASE End(g) = HeapSize
      BY <2>1, <3>1, <3>2, <1>5
    <3>3. CASE \E d \in free \cup {b} \cup used : d.at = End(g)
      <4>1. PICK d \in free \cup {b} \cup used : d.at = End(g)
        BY <3>3
      <4>2. d \notin gone
        BY <4>1, <3>1, <1>4, <1>9, <1>3, HeapAssumption DEF Block, End
      <4> QED BY <4>1, <4>2, <3>1, <2>1, <1>5, <1>10
    <3>4. g \in free \cup {b} \cup used
      BY <1>10
    <3> QED BY <3>2, <3>3, <3>4 DEF Tiled
  <2>2. CASE c \in kept \cup used
    <3>1. CASE End(c) = HeapSize
      BY <3>1
    <3>2. CASE \E d \in free \cup {b} \cup used : d.at = End(c)
      <4>1. PICK d \in free \cup {b} \cup used : d.at = End(c)
        BY <3>2
      <4>2. CASE d \in gone
        <5>1. at <= d.at /\ d.at < end
          BY <4>2, <1>9, <1>3, <1>4, HeapAssumption DEF Block, End
        <5>2. c \in Block
          BY <2>2, <1>3 DEF Tiled
        <5>3. d \in Block /\ c.at < End(c)
          BY <5>2, <4>2, <1>3, HeapAssumption DEF Block, End
        <5>4. End(c) <= at \/ end <= c.at
          BY <2>2, <1>8
        <5>5. d.at = at
          BY <4>1, <5>1, <5>2, <5>3, <5>4, <1>4, HeapAssumption DEF Block, End
        <5> QED BY <5>5, <4>1, <1>5
      <4> QED BY <4>1, <4>2, <1>10
    <3> QED BY <2>2, <3>1, <3>2, <1>3 DEF Tiled
  <2> QED BY <2>1, <2>2
<1>15. ASSUME NEW c \in new \cup used
       PROVE  c.at % 8 = 0 /\ c.size % 8 = 0 /\ End(c) <= HeapSize
  BY <1>3, <1>4, <1>5, HeapAssumption DEF Tiled
<1>16. Tiled(new, used)
  BY <1>11, <1>12, <1>13, <1>14, <1>15 DEF Tiled
<1>17. ASSUME NEW c \in new, NEW d \in new PROVE End(c) # d.at
  <2>1. CASE c \in kept /\ d \in kept
    BY <2>1, <1>3
  <2>2. CASE c = j /\ d \in kept
    BY <2>2, <1>2, <1>3, <1>5 DEF After
  <2>3. CASE c \in kept /\ d = j
    BY <2>3, <1>1, <1>3, <1>5 DEF Before
  <2>4. CASE c = j /\ d = j
    BY <2>4, <1>4, <1>5, HeapAssumption DEF Block, End
  <2> QED BY <2>1, <2>2, <2>3, <2>4
<1>18. Sum(new) = Sum(free) + b.size
  <2> DEFINE R == free \ F
  <2>1. /\ IsFiniteSet(free) /\ \A c \in free : c.size \in Nat /\ c.at \in Nat
        /\ b.size \in Nat /\ b.at \in Nat
    <3>1. IsFiniteSet(free \cup {b}) /\ \A c \in free \cup {b} : c.size \in Nat /\ c.at \in Nat
      BY TiledFinite
    <3>2. free \in SUBSET (free \cup {b})
      OBVIOUS
    <3> QED BY <3>1, <3>2, FS_Subset
  <2>2. at \in Int /\ end \in Int /\ End(b) = b.at + b.size
    BY <1>4, HeapAssumption DEF End
  <2> HIDE DEF at, end
  <2>3. IsFiniteSet(R) /\ Sum(R) \in Nat /\ Sum(free) = Sum(R) + (b.at - at)
    <3>1. CASE F = {} /\ at = b.at
      <4>1. R = free
        BY <3>1
      <4>2. Sum(free) \in Nat
        BY <2>1, SumIsNatural
      <4> HIDE DEF R
      <4> QED BY <2>1, <2>2, <3>1, <4>1, <4>2
    <3>2. CASE \E c \in F : F = {c} /\ at = c.at
      <4>1. PICK c \in F : F = {c} /\ at = c.at
        BY <3>2
      <4>2. c \in free /\ c.at + c.size = b.at
        BY DEF Before, End
      <4>3. /\ IsFiniteSet(free \ {c}) /\ Sum(free \ {c}) \in Nat
            /\ Sum(free) = Sum(free \ {c}) + c.size
        BY <2>1, <4>2, SumRemove
      <4>4. R = free \ {c}
        BY <4>1
      <4>5. c.size = b.at - at
        BY <2>1, <4>1, <4>2
      <4> HIDE DEF R
      <4> QED BY <4>3, <4>4, <4>5
    <3> QED BY <1>1, <3>1, <3>2
  <2>4. kept = R \ A
    OBVIOUS
  <2>5. IsFiniteSet(kept) /\ Sum(kept) \in Nat /\ Sum(R) = Sum(kept) + (end - End(b))
    <3>1. CASE A = {} /\ end = End(b)
      <4>1. kept = R
        BY <2>4, <3>1
      <4> HIDE DEF R, kept
      <4> QED BY <2>1, <2>2, <2>3, <3>1, <4>1
    <3>2. CASE \E c \in A : A = {c} /\ end = End(c)
      <4>1. PICK c \in A : A = {c} /\ end = End(c)
        BY <3>2
      <4>2. c \in R /\ c.at = End(b)
        BY Unique DEF After
      <4>3. \A d \in R : d.size \in Nat
        BY <2>1
      <4>4. R \ {c} = kept
        BY <2>4, <4>1
      <4>5. c.size = end - End(b)
        BY <2>1, <2>2, <4>1, <4>2 DEF End
      <4> HIDE DEF R, kept
      <4>6. /\ IsFiniteSet(R \ {c}) /\ Sum(R \ {c}) \in Nat
            /\ Sum(R) = Sum(R \ {c}) + c.size
        BY <2>3, <4>2, <4>3, SumRemove
      <4> QED BY <4>4, <4>5, <4>6
    <3> QED BY <1>2, <3>1, <3>2
  <2>6. j \notin kept /\ j.size = end - at /\ j.size \in Nat
    <3>1. at < end
      BY <1>4, <2>1, <2>2, HeapAssumption DEF Block
    <3>2. \A c \in kept : End(c) <= at \/ end <= c.at
      BY <1>8
    <3> QED BY <1>5, <2>2, <3>1, <3>2
  <2>7. \A c \in kept : c.size \in Nat
    BY <2>1
  <2> HIDE DEF kept, j, R
  <2>8. Sum(kept \cup {j}) = Sum(kept) + j.size
    BY <2>5, <2>6, <2>7, SumAdd
  <2>9. Sum(kept) + j.size = Sum(free) + b.size
    BY <2>1, <2>2, <2>3, <2>5, <2>6
  <2> QED BY <2>8, <2>9 DEF new
<1> QED BY <1>6, <1>16, <1>17, <1>18

-----------------------------------------------------------------------------
(* What a function leaves is a heap if blocks and sums are right.           *)
LEMMA LeavesHeap ==
    ASSUME NEW free, NEW used, NEW left \in Int, Tiled(free, used),
           \A c, d \in free : End(c) # d.at,
           Sum(free) = left, left + Sum(used) = HeapSize
    PROVE  HeapInv([free |-> free, used |-> used, left |-> left])
<1> DEFINE h == [free |-> free, used |-> used, left |-> left]
<1>1. /\ IsFiniteSet(free) /\ IsFiniteSet(used)
      /\ \A b \in free : b.size \in Nat
      /\ \A b \in used : b.size \in Nat
  BY TiledFinite
<1>2. Sum(free) \in Nat /\ Sum(used) \in Nat
  BY <1>1, SumIsNatural
<1>3. left \in 0 .. HeapSize
  BY <1>2, HeapAssumption
<1>4. free \subseteq Block /\ used \subseteq Block
  BY DEF Tiled
<1>5. h \in Heap
  BY <1>3, <1>4 DEF Heap
<1>6. h.free = free /\ h.used = used /\ h.left = left
  OBVIOUS
<1> HIDE DEF h
<1>7. Coalesced(h) /\ Tiled(h.free, h.used) /\ Counted(h)
  BY <1>6 DEF Coalesced, Counted
<1>8. HeapInv(h)
  BY <1>5, <1>7 DEF HeapInv
<1> QED BY <1>8 DEF h

LEMMA HeapCounts ==
    ASSUME NEW h, HeapInv(h)
    PROVE  /\ IsFiniteSet(h.free) /\ IsFiniteSet(h.used)
           /\ \A b \in h.free \cup h.used : b.size \in Nat \ {0} /\ b.at \in Nat
           /\ h.left \in Int /\ Sum(h.free) = h.left /\ h.left + Sum(h.used) = HeapSize
           /\ Sum(h.used) \in Nat
<1>1. /\ IsFiniteSet(h.free) /\ IsFiniteSet(h.used)
      /\ \A b \in h.free \cup h.used : b.size \in Nat \ {0} /\ b.at \in Nat
  BY TiledFinite DEF HeapInv
<1>2. h.left \in Int
  BY HeapAssumption DEF HeapInv, Heap
<1>3. \A b \in h.used : b.size \in Nat
  BY <1>1
<1>4. Sum(h.used) \in Nat
  BY <1>1, <1>3, SumIsNatural
<1> QED BY <1>1, <1>2, <1>4 DEF HeapInv, Counted

-----------------------------------------------------------------------------
(* pvPortMalloc *)
LEMMA FirstFitExists ==
    ASSUME NEW h, NEW n \in Nat, HeapInv(h), CanMalloc(h, n)
    PROVE  /\ FirstFit(h, n) \in h.free /\ FirstFit(h, n) \in Block
           /\ FirstFit(h, n).size >= Wanted(n)
<1> DEFINE T == {b.at : b \in Fitting(h, n)}
<1>1. \A b \in Fitting(h, n) : b \in h.free /\ b \in Block /\ b.at \in Nat
  BY HeapAssumption DEF Fitting, HeapInv, Tiled, Block
<1>2. T \subseteq Nat /\ T # {}
  BY <1>1 DEF CanMalloc
<1>3. PICK x \in T : \A y \in T : <<y, x>> \notin OpToRel(<, Nat)
  BY <1>2, WFMin, NatLessThanWellFounded
<1>4. \A y \in T : x <= y
  <2> SUFFICES ASSUME NEW y \in T, ~(x <= y) PROVE FALSE
    OBVIOUS
  <2>1. y \in Nat /\ x \in Nat /\ y < x
    BY <1>2
  <2>2. <<y, x>> \in {ss \in Nat \X Nat : ss[1] < ss[2]}
    BY <2>1
  <2>3. <<y, x>> \in OpToRel(<, Nat)
    BY <2>2 DEF OpToRel
  <2> QED BY <1>3, <2>3
<1>5. \E b \in Fitting(h, n) : \A c \in Fitting(h, n) : b.at <= c.at
  BY <1>4
<1>6. FirstFit(h, n) \in Fitting(h, n)
  BY <1>5 DEF FirstFit
<1> QED BY <1>1, <1>6 DEF Fitting

LEMMA WantedIsRounded ==
    ASSUME NEW n \in Nat
    PROVE  Wanted(n) \in Nat /\ Wanted(n) >= n + xHeapStructSize /\ Wanted(n) % 8 = 0
BY HeapAssumption DEF Wanted

LEMMA SplitTiled ==
    ASSUME NEW free, NEW used, NEW f \in free, NEW w \in Nat \ {0},
           Tiled(free, used), w % 8 = 0, w < f.size
    PROVE  LET taken == [f EXCEPT !.size = w]
               rest  == [at |-> f.at + w, size |-> f.size - w]
           IN /\ taken \in Block /\ rest \in Block /\ rest \notin free
              /\ Tiled((free \ {f}) \cup {rest}, used \cup {taken})
<1> DEFINE taken == [f EXCEPT !.size = w]
           rest  == [at |-> f.at + w, size |-> f.size - w]
           old   == (free \ {f}) \cup used
<1>1. /\ f \in Block /\ f.at \in Nat /\ f.size \in Nat /\ f.at % 8 = 0 /\ f.size % 8 = 0
      /\ End(f) <= HeapSize /\ End(f) = f.at + f.size
  BY HeapAssumption DEF Tiled, Block, End
<1>2. /\ taken \in Block /\ rest \in Block
      /\ taken.at = f.at /\ taken.size = w /\ End(taken) = f.at + w
      /\ rest.at = f.at + w /\ rest.size = f.size - w /\ End(rest) = End(f)
  BY <1>1, HeapAssumption DEF Block, End
<1>3. (f.at + w) % 8 = 0 /\ (f.size - w) % 8 = 0
  BY <1>1
<1>4. ASSUME NEW c \in old
      PROVE  /\ c \in Block /\ c.at \in Nat /\ End(c) \in Nat /\ c.at < End(c)
             /\ End(c) <= f.at \/ End(f) <= c.at
  <2>1. c \in Block /\ c # f
    BY DEF Tiled
  <2>2. c.at \in Nat /\ End(c) \in Nat /\ c.at < End(c)
    BY <2>1, HeapAssumption DEF Block, End
  <2> QED BY <2>1, <2>2 DEF Tiled
<1>5. taken \notin old /\ rest \notin old /\ rest # f /\ taken # rest
  BY <1>1, <1>2, <1>4
<1> DEFINE free2 == (free \ {f}) \cup {rest}
           used2 == used \cup {taken}
<1>6. free2 \cup used2 = old \cup {taken, rest} /\ free \cup used = old \cup {f}
  OBVIOUS
<1>7. free2 \subseteq Block /\ used2 \subseteq Block /\ free2 \cap used2 = {}
  BY <1>2, <1>5 DEF Tiled
<1>8. \A b, c \in free2 \cup used2 : b = c \/ End(b) <= c.at \/ End(c) <= b.at
  <2>1. \A b, c \in old : b = c \/ End(b) <= c.at \/ End(c) <= b.at
    BY DEF Tiled
  <2>2. \A b \in old : /\ End(b) <= taken.at \/ End(taken) <= b.at
                       /\ End(b) <= rest.at \/ End(rest) <= b.at
    BY <1>1, <1>2, <1>4
  <2>3. End(taken) <= rest.at
    BY <1>1, <1>2
  <2> HIDE DEF taken, rest, old, free2, used2
  <2> QED BY <2>1, <2>2, <2>3, <1>6
<1>9. \E b \in free2 \cup used2 : b.at = 0
  <2>1. PICK b \in free \cup used : b.at = 0
    BY DEF Tiled
  <2> QED BY <2>1, <1>2, <1>6
<1>10. ASSUME NEW b \in free2 \cup used2
       PROVE  End(b) = HeapSize \/ \E c \in free2 \cup used2 : c.at = End(b)
  <2>1. CASE b = taken
    BY <2>1, <1>2
  <2>2. ASSUME NEW x \in free \cup used
        PROVE  End(x) = HeapSize \/ \E c \in free2 \cup used2 : c.at = End(x)
    <3>1. CASE \E c \in free \cup used : c.at = End(x)
      BY <3>1, <1>2, <1>6
    <3> QED BY <3>1 DEF Tiled
  <2>3. CASE b = rest
    BY <2>3, <2>2, <1>2
  <2> QED BY <2>1, <2>2, <2>3, <1>6
<1>11. ASSUME NEW b \in free2 \cup used2
       PROVE  b.at % 8 = 0 /\ b.size % 8 = 0 /\ End(b) <= HeapSize
  <2>1. CASE b \in old
    BY <2>1 DEF Tiled
  <2>2. CASE b = taken
    <3>1. f.at + w <= HeapSize
      BY <1>1, HeapAssumption
    <3> QED BY <2>2, <3>1, <1>1, <1>2
  <2>3. CASE b = rest
    BY <2>3, <1>1, <1>2, <1>3
  <2> QED BY <2>1, <2>2, <2>3, <1>6
<1>12. Tiled(free2, used2)
  BY <1>7, <1>8, <1>9, <1>10, <1>11 DEF Tiled
<1> QED BY <1>2, <1>4, <1>5, <1>12

(* A request that is granted leaves a heap, and its block, large enough for *)
(* what was asked for, was nobody's before.                                 *)
THEOREM MallocCorrect ==
    ASSUME NEW h, NEW n \in Nat, HeapInv(h), CanMalloc(h, n)
    PROVE  /\ HeapInv(Malloc(h, n))
           /\ Taken(h, n) \in Block /\ Taken(h, n).size >= n + xHeapStructSize
           /\ \A b \in h.used : End(b) <= Taken(h, n).at \/ End(Taken(h, n)) <= b.at
<1> DEFINE f == FirstFit(h, n)
           w == Wanted(n)
           others == h.free \ {f}
<1>1. f \in h.free /\ f \in Block /\ f.size >= w
  BY FirstFitExists
<1>2. w \in Nat \ {0} /\ w >= n + xHeapStructSize /\ w % 8 = 0
  BY WantedIsRounded, HeapAssumption DEF CanMalloc
<1>3. f.size \in Nat /\ f.at \in Nat
  BY <1>1, HeapAssumption DEF Block
<1>4. CASE IsSplit(h, n)
  <2>1. w < f.size
    BY <1>2, <1>3, <1>4, HeapAssumption DEF IsSplit, heapMINIMUM_BLOCK_SIZE
  <2>2. Taken(h, n) = [f EXCEPT !.size = w]
    BY <1>4 DEF Taken
  <2>3. /\ Taken(h, n) \in Block /\ Rest(h, n) \in Block /\ Rest(h, n) \notin h.free
        /\ Tiled(others \cup {Rest(h, n)}, h.used \cup {Taken(h, n)})
    <3>1. Tiled(h.free, h.used)
      BY DEF HeapInv
    <3> HIDE DEF f, w
    <3>2. LET taken == [f EXCEPT !.size = w]
              rest  == [at |-> f.at + w, size |-> f.size - w]
          IN /\ taken \in Block /\ rest \in Block /\ rest \notin h.free
             /\ Tiled((h.free \ {f}) \cup {rest}, h.used \cup {taken})
      BY <1>1, <1>2, <2>1, <3>1, SplitTiled
    <3>3. Rest(h, n) = [at |-> f.at + w, size |-> f.size - w]
      BY DEF Rest, f, w
    <3> QED BY <2>2, <3>2, <3>3
  <2>4. \A c, d \in others : End(c) # d.at
    BY DEF HeapInv, Coalesced
  <2>5. /\ Tiled(InsertBlock(others, Rest(h, n)), h.used \cup {Taken(h, n)})
        /\ \A c, d \in InsertBlock(others, Rest(h, n)) : End(c) # d.at
        /\ Sum(InsertBlock(others, Rest(h, n))) = Sum(others) + Rest(h, n).size
    BY <2>3, <2>4, InsertTiled
  <2>7. Taken(h, n).at = f.at /\ Taken(h, n).size = w /\ f.at + w <= End(f)
    BY <1>1, <1>2, <1>3, <2>1, <2>2 DEF Block, End
  <2>8. ASSUME NEW b \in h.used
        PROVE  End(b) <= Taken(h, n).at \/ End(Taken(h, n)) <= b.at
    <3>1. b # f /\ (End(b) <= f.at \/ End(f) <= b.at) /\ b \in Block
      BY <1>1 DEF HeapInv, Tiled
    <3> QED BY <3>1, <2>7, <1>2, <1>3, <1>1, HeapAssumption DEF Block, End
  <2>9. HeapInv(Malloc(h, n))
    <3> DEFINE t == Taken(h, n)
               left == h.left - t.size
    <3>1. t \notin h.used
      <4>1. t.at \in Int /\ End(t) \in Int /\ t.at < End(t)
        BY <1>2, <1>3, <2>7, HeapAssumption DEF End
      <4>2. t \in h.used => End(t) <= t.at
        BY <2>8
      <4> HIDE DEF t
      <4> QED BY <4>1, <4>2
    <3>2. Sum(h.used \cup {t}) = Sum(h.used) + t.size
      BY <1>2, <2>7, <3>1, HeapCounts, SumAdd
    <3>3. Sum(others) \in Nat /\ h.left = Sum(others) + f.size
      BY <1>1, HeapCounts, SumRemove
    <3>4. Rest(h, n).size = f.size - w
      BY DEF Rest
    <3>5. Malloc(h, n) = [free |-> InsertBlock(others, Rest(h, n)),
                          used |-> h.used \cup {t}, left |-> left]
      BY <1>4 DEF Malloc
    <3>6. h.left \in Int /\ h.left + Sum(h.used) = HeapSize /\ Sum(h.used) \in Nat
      BY HeapCounts
    <3>7. t.size = w
      BY <2>7
    <3> HIDE DEF t, others, f, w
    <3>8. left \in Int /\ left + Sum(h.used \cup {t}) = HeapSize
      BY <1>2, <3>2, <3>6, <3>7
    <3>9. Sum(InsertBlock(others, Rest(h, n))) = left
      BY <1>2, <1>3, <2>5, <3>3, <3>4, <3>6, <3>7
    <3> HIDE DEF left
    <3> QED BY <2>5, <3>5, <3>8, <3>9, LeavesHeap DEF t
  <2> QED BY <1>2, <2>3, <2>7, <2>8, <2>9
<1>5. CASE ~IsSplit(h, n)
  <2>1. Taken(h, n) = f
    BY <1>1, <1>5 DEF Taken, Block
  <2>2. others \cup (h.used \cup {f}) = h.free \cup h.used
    BY <1>1
  <2>3. Tiled(others, h.used \cup {f})
    BY <1>1, <2>2 DEF HeapInv, Tiled
  <2>4. HeapInv(Malloc(h, n))
    <3> DEFINE left == h.left - f.size
    <3>1. f \notin h.used
      BY <1>1 DEF HeapInv, Tiled
    <3>2. Sum(h.used \cup {f}) = Sum(h.used) + f.size
      BY <1>1, <1>3, <3>1, HeapCounts, SumAdd
    <3>3. Sum(others) \in Nat /\ h.left = Sum(others) + f.size
      BY <1>1, HeapCounts, SumRemove
    <3>4. Malloc(h, n) = [free |-> others, used |-> h.used \cup {f}, left |-> left]
      BY <1>5, <2>1 DEF Malloc
    <3>5. h.left \in Int /\ h.left + Sum(h.used) = HeapSize /\ Sum(h.used) \in Nat
      BY HeapCounts
    <3>6. \A c, d \in others : End(c) # d.at
      BY DEF HeapInv, Coalesced
    <3> HIDE DEF others, f, w
    <3>7. left \in Int /\ left + Sum(h.used \cup {f}) = HeapSize /\ Sum(others) = left
      BY <1>3, <3>2, <3>3, <3>5
    <3> HIDE DEF left
    <3> QED BY <2>3, <3>4, <3>6, <3>7, LeavesHeap
  <2>5. ASSUME NEW b \in h.used PROVE End(b) <= f.at \/ End(f) <= b.at
    BY <1>1 DEF HeapInv, Tiled
  <2> QED BY <1>1, <1>2, <1>3, <2>1, <2>4, <2>5, HeapAssumption
<1> QED BY <1>4, <1>5

(* vPortFree *)
THEOREM FreeCorrect ==
    ASSUME NEW h, NEW p, HeapInv(h), ~FreeAsserts(h, p)
    PROVE  HeapInv(Free(h, p))
<1>1. CASE p = NULL
  BY <1>1 DEF Free
<1>2. CASE p # NULL
  <2> DEFINE b == CHOOSE c \in BlockOf(h, p) : TRUE
  <2>1. b \in h.used /\ b \in Block /\ b \notin h.free
    BY <1>2 DEF FreeAsserts, BlockOf, HeapInv, Tiled
  <2>2. (h.free \cup {b}) \cup (h.used \ {b}) = h.free \cup h.used
    BY <2>1
  <2>3. Tiled(h.free \cup {b}, h.used \ {b})
    BY <2>1, <2>2 DEF HeapInv, Tiled
  <2>4. \A c, d \in h.free : End(c) # d.at
    BY DEF HeapInv, Coalesced
  <2> HIDE DEF b
  <2>5. /\ Tiled(InsertBlock(h.free, b), h.used \ {b})
        /\ \A c, d \in InsertBlock(h.free, b) : End(c) # d.at
        /\ Sum(InsertBlock(h.free, b)) = Sum(h.free) + b.size
    BY <2>1, <2>3, <2>4, InsertTiled
  <2>6. Free(h, p) = [free |-> InsertBlock(h.free, b), used |-> h.used \ {b},
                      left |-> h.left + b.size]
    BY <1>2 DEF Free, b
  <2>7. h.left \in Int /\ Sum(h.free) = h.left /\ h.left + Sum(h.used) = HeapSize
    BY HeapCounts
  <2>8. b.size \in Nat /\ Sum(h.used \ {b}) \in Nat
        /\ Sum(h.used) = Sum(h.used \ {b}) + b.size
    BY <2>1, HeapCounts, SumRemove
  <2>9. /\ h.left + b.size \in Int /\ Sum(InsertBlock(h.free, b)) = h.left + b.size
        /\ (h.left + b.size) + Sum(h.used \ {b}) = HeapSize
    BY <2>5, <2>7, <2>8
  <2> QED BY <2>5, <2>6, <2>9, LeavesHeap
<1> QED BY <1>1, <1>2

(* vPortDefineHeapRegions *)
LEMMA InitialHeap == HeapInv(DefineHeapRegions)
<1> DEFINE b == [at |-> 0, size |-> HeapSize]
<1>1. /\ b \in Block /\ b.at = 0 /\ End(b) = HeapSize
      /\ b.at % 8 = 0 /\ b.size % 8 = 0 /\ End(b) <= HeapSize /\ End(b) # b.at
  BY HeapAssumption DEF Block, End
<1> HIDE DEF b
<1>2. Tiled({b}, {}) /\ \A c, d \in {b} : End(c) # d.at
  BY <1>1 DEF Tiled
<1>3. DefineHeapRegions = [free |-> {b}, used |-> {}, left |-> HeapSize]
  BY DEF DefineHeapRegions, b
<1>4. Sum({b}) = HeapSize /\ Sum({}) = 0
  <2>1. b.size = HeapSize /\ IsFiniteSet({}) /\ {} \cup {b} = {b}
    BY FS_EmptySet DEF b
  <2>2. Sum({} \cup {b}) = Sum({}) + b.size
    BY <2>1, HeapAssumption, SumAdd
  <2> QED BY <2>1, <2>2, HeapAssumption, SumNone
<1>5. HeapSize \in Int /\ HeapSize + Sum({}) = HeapSize
  BY <1>4, HeapAssumption
<1> QED BY <1>2, <1>3, <1>4, <1>5, LeavesHeap

-----------------------------------------------------------------------------
(***************************************************************************)
(* The tasks that share the heap.                                          *)
(***************************************************************************)

LEMMA InitHeap ==
    ASSUME NEW n \in StartupSizes
    PROVE  HeapInv(Started(Malloc(DefineHeapRegions, n)))
<1>1. n \in Nat /\ BFLB_BOOT2_READBUF_SIZE \in Nat
      /\ CanMalloc(DefineHeapRegions, n)
      /\ CanMalloc(Malloc(DefineHeapRegions, n), BFLB_BOOT2_READBUF_SIZE)
  BY BuffersAssumption
<1>2. HeapInv(Malloc(DefineHeapRegions, n))
  BY <1>1, InitialHeap, MallocCorrect
<1> QED BY <1>1, <1>2, MallocCorrect DEF Started

LEMMA HandshakeHeap ==
    ASSUME HeapInv(heap), Handshake PROVE HeapInv(heap')
<1> DEFINE size == BFLB_EFLASH_LOADER_READBUF_SIZE
<1>1. CASE heap' = heap
  BY <1>1
<1>2. CASE AllocatePair /\ heap' # heap
  <2>1. /\ CanMalloc(heap, size) /\ CanMalloc(Malloc(heap, size), size)
        /\ heap' = Malloc(Malloc(heap, size), size)
    BY <1>2 DEF AllocatePair
  <2>2. size \in Nat
    BY BuffersAssumption
  <2>3. HeapInv(Malloc(heap, size))
    BY <2>1, <2>2, MallocCorrect
  <2> QED BY <2>1, <2>2, <2>3, MallocCorrect
<1> QED BY <1>1, <1>2 DEF Handshake

LEMMA BleTaskHeap ==
    ASSUME HeapInv(heap), BleTask PROVE HeapInv(heap')
<1>1. ASSUME NEW i, NEW next, FreeBuffer(i, next) PROVE HeapInv(heap')
  BY <1>1, FreeCorrect DEF FreeBuffer
<1>2. CASE FreeFirst
  BY <1>1, <1>2 DEF FreeFirst
<1>3. CASE FreeSecond
  BY <1>1, <1>3 DEF FreeSecond
<1>4. CASE AllocateBle
  BY <1>4, MallocCorrect, BuffersAssumption DEF AllocateBle
<1>5. CASE TestBuffer \/ UseBle \/ UseUart
  BY <1>5 DEF TestBuffer, UseBle, UseUart, memory
<1> QED BY <1>2, <1>3, <1>4, <1>5 DEF BleTask

LEMMA MessageHeap ==
    ASSUME HeapInv(heap), Message \/ HandleMessage PROVE HeapInv(heap')
<1>1. CASE Message
  <2>1. PICK n \in MessageSizes :
            \/ CanMalloc(heap, n) /\ heap' = Malloc(heap, n)
            \/ heap' = heap
    BY <1>1 DEF Message
  <2>2. n \in Nat
    BY BuffersAssumption
  <2> QED BY <2>1, <2>2, MallocCorrect
<1>2. CASE HandleMessage
  <2>1. PICK p \in messages :
            \/ ~FreeAsserts(heap, p) /\ heap' = Free(heap, p)
            \/ heap' = heap
    BY <1>2 DEF HandleMessage
  <2> QED BY <2>1, FreeCorrect
<1> QED BY <1>1, <1>2

LEMMA NextHeap ==
    ASSUME HeapInv(heap), [Next]_vars PROVE HeapInv(heap')
<1>1. CASE MainTask
  BY <1>1 DEF MainTask, PollBle, GiveUpWaiting, ReadUart, ReadBle, TakeUart, TakeBle,
              TimeOut, Execute, Ack, memory
<1>2. CASE SerialBytes \/ Connected \/ BleReceive \/ Disconnected
  BY <1>2 DEF SerialBytes, Connected, BleReceive, Disconnected, memory
<1>3. CASE Restart
  BY <1>3, InitHeap DEF Restart
<1>4. CASE UNCHANGED vars
  BY <1>4 DEF vars, memory
<1> QED BY <1>1, <1>2, <1>3, <1>4, HandshakeHeap, BleTaskHeap, MessageHeap DEF Next

(* No interleaving of allocations and frees breaks the free list: blocks    *)
(* never overlap, none is lost, no two free ones lie side by side           *)
(* (heap_5.c:305).                                                          *)
THEOREM HeapCorrect == Spec => []HeapConsistent
<1>1. Init => HeapInv(heap)
  BY InitHeap DEF Init
<1>2. HeapInv(heap) /\ [Next]_vars => HeapInv(heap)'
  BY NextHeap
<1>3. HeapInv(heap) => HeapConsistent
  BY HeapInvOK DEF HeapConsistent
<1> QED BY <1>1, <1>2, <1>3, PTL DEF Spec

-----------------------------------------------------------------------------
(***************************************************************************)
(* Every variable keeps its type, and xFreeBytesRemaining is right.        *)
(***************************************************************************)

IInv == TypeOK /\ HeapInv(heap)

LEMMA MallocedType ==
    ASSUME NEW h, NEW n \in Nat, HeapInv(h), CanMalloc(h, n)
    PROVE  HeapInv(Malloc(h, n)) /\ Malloced(h, n) \in Pointers \ {NULL}
<1> DEFINE t == Taken(h, n)
<1>1. /\ HeapInv(Malloc(h, n)) /\ t \in Block /\ t.size >= n + xHeapStructSize
  BY MallocCorrect
<1>2. t \in Malloc(h, n).used
  BY DEF Malloc
<1>3. End(t) <= HeapSize
  BY <1>1, <1>2 DEF HeapInv, Tiled
<1>4. t.at \in Nat /\ t.size \in Nat /\ HeapSize \in Nat /\ xHeapStructSize = 8
  BY <1>1, HeapAssumption DEF Block
<1>5. Payload(t) \in 0 .. HeapSize
  BY <1>1, <1>3, <1>4 DEF Payload, End
<1>6. -1 \notin 0 .. HeapSize
  BY <1>4
<1> QED BY <1>1, <1>5, <1>6 DEF Malloced, Pointers, NULL

LEMMA InitType ==
    ASSUME Init PROVE IInv
<1>1. HeapInv(heap)
  BY InitHeap DEF Init
<1>2. 0 \in Nat /\ 0 \in 0 .. 1 /\ 0 \in 0 .. MaxConns /\ NULL \in Pointers
  BY BuffersAssumption DEF Pointers
<1>3. readbuf \in [0 .. 1 -> Pointers]
  BY <1>2 DEF Init
<1> QED BY <1>1, <1>2, <1>3, Zenon DEF Init, IInv, TypeOK, HeapInv

LEMMA PiecesType == \A n \in Pieces : n \in Nat
  BY BuffersAssumption DEF Pieces

LEMMA MainType ==
    ASSUME IInv, MainTask PROVE IInv'
<1>1. memory' = memory /\ readbuf' = readbuf /\ int_rx' = int_rx /\ wild' = wild
      /\ conn' = conn /\ conns' = conns /\ ble_pc' = ble_pc
  BY DEF MainTask, PollBle, GiveUpWaiting, ReadUart, ReadBle, TakeUart, TakeBle,
         TimeOut, Execute, Ack, rx, ble
<1>2. rx_index \in 0 .. 1 /\ rx_len \in Nat /\ buf \in Pointers /\ to_cnt \in 0 .. 1
      /\ readbuf \in [0 .. 1 -> Pointers] /\ rcv \in BOOLEAN /\ window \in BOOLEAN
      /\ if_type \in {"uart", "ble"}
      /\ pc \in {"poll", "read", "wait_uart", "wait_ble", "exec", "ack", "left", "no_memory"}
  BY DEF IInv, TypeOK
<1>3. rx_index' \in 0 .. 1 /\ rx_len' \in Nat
  BY <1>2 DEF MainTask, PollBle, GiveUpWaiting, ReadUart, ReadBle, TakeUart, TakeBle,
              TimeOut, Execute, Ack, rx
<1>4. buf' \in Pointers
  <2>1. readbuf[rx_index] \in Pointers /\ readbuf[0] \in Pointers /\ NULL \in Pointers
    BY <1>2 DEF Pointers
  <2> QED BY <1>2, <2>1, Zenon
          DEF MainTask, PollBle, GiveUpWaiting, ReadUart, ReadBle, TakeUart, TakeBle,
              TimeOut, Execute, Ack, CountTimeout
<1>5. to_cnt' \in 0 .. 1
  BY <1>2 DEF MainTask, PollBle, GiveUpWaiting, ReadUart, ReadBle, TakeUart, TakeBle,
              TimeOut, Execute, Ack, CountTimeout
<1>6. rcv' \in BOOLEAN /\ window' \in BOOLEAN /\ if_type' \in {"uart", "ble"}
  BY <1>2 DEF MainTask, PollBle, GiveUpWaiting, ReadUart, ReadBle, TakeUart, TakeBle,
              TimeOut, Execute, Ack, CountTimeout, rx
<1>7. pc' \in {"poll", "read", "wait_uart", "wait_ble", "exec", "ack", "left", "no_memory"}
  BY <1>2 DEF MainTask, PollBle, GiveUpWaiting, ReadUart, ReadBle, TakeUart, TakeBle,
              TimeOut, Execute, Ack, CountTimeout
<1> QED BY <1>1, <1>3, <1>4, <1>5, <1>6, <1>7, Zenon DEF IInv, TypeOK, memory

(* What changes when memory is allocated or freed.                          *)
MemoryType ==
    /\ HeapInv(heap') /\ mine' \subseteq Pointers \ {NULL}
    /\ messages' \subseteq Pointers \ {NULL}
    /\ readbuf' \in [0 .. 1 -> Pointers]

LEMMA HandshakeType ==
    ASSUME IInv, Handshake PROVE IInv'
<1> DEFINE size == BFLB_EFLASH_LOADER_READBUF_SIZE
<1>1. /\ HeapInv(heap) /\ mine \subseteq Pointers \ {NULL}
      /\ messages \subseteq Pointers \ {NULL} /\ readbuf \in [0 .. 1 -> Pointers]
  BY DEF IInv, TypeOK
<1>2. MemoryType /\ pc' \in {"read", "no_memory"}
  <2>1. CASE UNCHANGED <<heap, mine, readbuf>>
    BY <1>1, <2>1 DEF Handshake, AllocatePair, MemoryType
  <2>2. CASE AllocatePair /\ ~ UNCHANGED <<heap, mine, readbuf>>
    <3> DEFINE p == Malloced(heap, size)
               q == Malloced(Malloc(heap, size), size)
    <3>1. /\ CanMalloc(heap, size) /\ CanMalloc(Malloc(heap, size), size)
          /\ heap' = Malloc(Malloc(heap, size), size)
          /\ readbuf' = [i \in 0 .. 1 |-> IF i = 0 THEN p ELSE q]
          /\ mine' = mine \cup {readbuf'[0], readbuf'[1]} /\ pc' = "read"
      BY <2>2 DEF AllocatePair
    <3>2. size \in Nat
      BY BuffersAssumption
    <3>3. HeapInv(Malloc(heap, size)) /\ p \in Pointers \ {NULL}
      BY <1>1, <3>1, <3>2, MallocedType
    <3>4. HeapInv(heap') /\ q \in Pointers \ {NULL}
      BY <3>1, <3>2, <3>3, MallocedType
    <3> HIDE DEF p, q
    <3>5. readbuf' \in [0 .. 1 -> Pointers] /\ mine' \subseteq Pointers \ {NULL}
      BY <1>1, <3>1, <3>3, <3>4
    <3>6. messages' = messages
      BY DEF Handshake
    <3> QED BY <1>1, <3>1, <3>4, <3>5, <3>6 DEF MemoryType
  <2> QED BY <2>1, <2>2 DEF Handshake
<1>3. 0 \in 0 .. 1 /\ 0 \in Nat
  OBVIOUS
<1> QED BY <1>2, <1>3, Zenon DEF IInv, TypeOK, MemoryType, HeapInv, Handshake, ble

LEMMA SerialType ==
    ASSUME IInv, SerialBytes PROVE IInv'
<1>1. PICK n \in Pieces : rx_len' = rx_len + n /\ wild' = ~Owned(readbuf[rx_index] + rx_len, n)
  BY DEF SerialBytes
<1>2. rx_len' \in Nat
  <2>1. rx_len \in Nat /\ n \in Nat
    BY PiecesType DEF IInv, TypeOK
  <2> QED BY <1>1, <2>1
<1>3. wild' \in BOOLEAN
  BY <1>1, Zenon
<1> QED BY <1>2, <1>3, Zenon DEF IInv, TypeOK, SerialBytes, memory, ble, main

LEMMA ReceiveType ==
    ASSUME IInv, BleReceive PROVE IInv'
<1> DEFINE at == IF rx_len >= BFLB_EFLASH_LOADER_BLE_READBUF_SIZE THEN 0 ELSE rx_len
<1>1. PICK n \in Pieces : rx_len' = at + n /\ wild' = ~Owned(readbuf[0] + at, n)
                          /\ rcv' = (n # Part \/ rcv)
  BY DEF BleReceive
<1>2. rx_len' \in Nat
  <2>1. at \in Nat /\ n \in Nat
    BY PiecesType DEF IInv, TypeOK
  <2> HIDE DEF at
  <2> QED BY <1>1, <2>1
<1>3. wild' \in BOOLEAN /\ rcv' \in BOOLEAN
  BY <1>1, Zenon
<1> QED BY <1>2, <1>3, Zenon DEF IInv, TypeOK, BleReceive, memory, ble, main

LEMMA LinkType ==
    ASSUME IInv, Connected \/ Disconnected PROVE IInv'
<1>1. conns' \in 0 .. MaxConns
  <2>1. conns \in 0 .. MaxConns
    BY DEF IInv, TypeOK
  <2> QED BY <2>1, BuffersAssumption DEF Connected, Disconnected
<1>2. conn' \in BOOLEAN /\ ble_pc' \in {"connected", "use_uart"}
  BY DEF Connected, Disconnected
<1>3. UNCHANGED <<memory, readbuf, rx, int_rx, if_type, main>>
  BY DEF Connected, Disconnected
<1> QED BY <1>1, <1>2, <1>3, Zenon DEF IInv, TypeOK, memory, rx, main

LEMMA BleTaskType ==
    ASSUME IInv, BleTask \/ HandleMessage PROVE IInv'
<1> DEFINE size == BFLB_EFLASH_LOADER_BLE_READBUF_SIZE
<1>1. /\ HeapInv(heap) /\ mine \subseteq Pointers \ {NULL}
      /\ messages \subseteq Pointers \ {NULL} /\ readbuf \in [0 .. 1 -> Pointers]
  BY DEF IInv, TypeOK
<1>2. CASE AllocateBle
  <2>1. MemoryType
    <3>1. CASE UNCHANGED <<heap, mine, readbuf>>
      BY <1>1, <1>2, <3>1 DEF AllocateBle, MemoryType
    <3>2. CASE ~ UNCHANGED <<heap, mine, readbuf>>
      <4> DEFINE p == Malloced(heap, size)
      <4>1. /\ CanMalloc(heap, size) /\ heap' = Malloc(heap, size)
            /\ readbuf' = [readbuf EXCEPT ![0] = p] /\ mine' = mine \cup {p}
            /\ messages' = messages
        BY <1>2, <3>2 DEF AllocateBle
      <4>2. HeapInv(heap') /\ p \in Pointers \ {NULL}
        BY <1>1, <4>1, MallocedType, BuffersAssumption
      <4> HIDE DEF p
      <4> QED BY <1>1, <4>1, <4>2 DEF MemoryType
    <3> QED BY <3>1, <3>2
  <2>2. ble_pc' \in {"use_ble", "no_memory"}
    BY <1>2 DEF AllocateBle
  <2> QED BY <1>2, <2>1, <2>2, Zenon
          DEF AllocateBle, IInv, TypeOK, MemoryType, HeapInv, rx, main
<1>3. CASE FreeFirst \/ FreeSecond
  <2>1. HeapInv(heap')
    BY <1>1, <1>3, BleTaskHeap DEF BleTask
  <2>2. mine' \subseteq mine /\ ble_pc' \in {"bad_free", "free", "allocate"}
    BY <1>3 DEF FreeFirst, FreeSecond, FreeBuffer
  <2>3. mine' \subseteq Pointers \ {NULL}
    BY <1>1, <2>2
  <2>4. UNCHANGED <<messages, readbuf, rx, int_rx, conn, conns, if_type, main>>
    BY <1>3 DEF FreeFirst, FreeSecond
  <2> QED BY <2>1, <2>2, <2>3, <2>4, Zenon DEF IInv, TypeOK, HeapInv, rx, main
<1>4. CASE TestBuffer \/ UseBle \/ UseUart
  <2>1. /\ UNCHANGED <<memory, readbuf, rx, int_rx, conn, conns, main>>
        /\ ble_pc' \in {"allocate", "idle"} /\ if_type' \in {"uart", "ble"}
    BY <1>4 DEF TestBuffer, UseBle, UseUart, IInv, TypeOK
  <2> QED BY <2>1, Zenon DEF IInv, TypeOK, memory, rx, main
<1>5. CASE HandleMessage
  <2>1. HeapInv(heap')
    BY <1>1, <1>5, MessageHeap
  <2>2. messages' \subseteq messages /\ ble_pc' \in {"bad_free", ble_pc}
    BY <1>5 DEF HandleMessage
  <2>3. messages' \subseteq Pointers \ {NULL}
    BY <1>1, <2>2
  <2>4. UNCHANGED <<mine, readbuf, rx, int_rx, conn, conns, if_type, main>>
    BY <1>5 DEF HandleMessage
  <2>5. ble_pc' \in {"idle", "connected", "free", "allocate", "use_ble", "use_uart",
                     "bad_free", "no_memory"}
    BY <2>2 DEF IInv, TypeOK
  <2> QED BY <2>1, <2>3, <2>4, <2>5, Zenon DEF IInv, TypeOK, HeapInv, rx, main
<1> QED BY <1>2, <1>3, <1>4, <1>5 DEF BleTask

LEMMA MessageType ==
    ASSUME IInv, Message PROVE IInv'
<1>1. HeapInv(heap) /\ messages \subseteq Pointers \ {NULL}
  BY DEF IInv, TypeOK
<1>2. PICK n \in MessageSizes :
        \/ /\ CanMalloc(heap, n) /\ heap' = Malloc(heap, n)
           /\ messages' = messages \cup {Malloced(heap, n)} /\ pc' = pc
        \/ pc' = "no_memory" /\ heap' = heap /\ messages' = messages
  BY DEF Message
<1>3. HeapInv(heap') /\ messages' \subseteq Pointers \ {NULL}
  <2>1. n \in Nat
    BY BuffersAssumption
  <2> QED BY <1>1, <1>2, <2>1, MallocedType
<1>4. pc' \in {"poll", "read", "wait_uart", "wait_ble", "exec", "ack", "left", "no_memory"}
  BY <1>2 DEF IInv, TypeOK
<1>5. UNCHANGED <<mine, readbuf, rx, int_rx, ble, if_type, window, buf, to_cnt>>
  BY DEF Message
<1> QED BY <1>3, <1>4, <1>5, Zenon DEF IInv, TypeOK, HeapInv, rx, ble

LEMMA RestartType ==
    ASSUME Restart PROVE IInv'
<1>1. HeapInv(heap')
  BY InitHeap DEF Restart
<1>2. 0 \in Nat /\ 0 \in 0 .. 1 /\ 0 \in 0 .. MaxConns /\ NULL \in Pointers
  BY BuffersAssumption DEF Pointers
<1>3. readbuf' \in [0 .. 1 -> Pointers]
  BY <1>2 DEF Restart
<1> QED BY <1>1, <1>2, <1>3, Zenon DEF Restart, IInv, TypeOK, HeapInv

LEMMA NextType ==
    ASSUME IInv, [Next]_vars PROVE IInv'
<1>1. CASE UNCHANGED vars
  BY <1>1, Zenon DEF vars, memory, rx, ble, main, IInv, TypeOK
<1> QED BY <1>1, MainType, HandshakeType, SerialType, ReceiveType, LinkType, BleTaskType,
           MessageType, RestartType DEF Next

(* The invariant the theorems of this module start from.                    *)
THEOREM IInvCorrect == Spec => []IInv
<1>1. Init => IInv
  BY InitType
<1>2. IInv /\ [Next]_vars => IInv'
  BY NextType
<1> QED BY <1>1, <1>2, PTL DEF Spec

(* xFreeBytesRemaining, which pvPortMalloc trusts before it searches, is     *)
(* the sum of the free blocks after any sequence of allocations and frees,  *)
(* and every variable keeps its type.                                       *)
THEOREM BufferCorrect == Spec => []BufferInv
<1>1. IInv => BufferInv
  BY Zenon DEF IInv, BufferInv, LeftExact, HeapInv, Counted, Sum
<1> QED BY <1>1, IInvCorrect, PTL

-----------------------------------------------------------------------------
(***************************************************************************)
(* A buffer is lost when the loader has no pointer to it any more.  It     *)
(* happens once: between TestBuffer and AllocateBle main_task allocates    *)
(* its pair, which is only when the loader has no buffer at all, and       *)
(* AllocateBle then drops the first of the pair.                           *)
(***************************************************************************)

Lost == mine \ {readbuf[0], readbuf[1]}

LostInv ==
    /\ \A p, q \in Lost : p = q
    /\ readbuf[0] = NULL => mine = {}
    /\ ble_pc = "free" => readbuf[0] # NULL /\ readbuf[0] \notin mine
    /\ ble_pc = "allocate" /\ readbuf[0] \in mine => Lost = {}

LEMMA HandshakeLost ==
    ASSUME IInv, LostInv, Handshake PROVE LostInv'
<1>1. CASE UNCHANGED <<mine, readbuf>>
  BY <1>1 DEF Handshake, ble, LostInv, Lost
<1>2. CASE ~ UNCHANGED <<mine, readbuf>>
  <2> DEFINE size == BFLB_EFLASH_LOADER_READBUF_SIZE
             p == Malloced(heap, size)
             q == Malloced(Malloc(heap, size), size)
  <2>1. /\ readbuf[0] = NULL /\ CanMalloc(heap, size)
        /\ readbuf' = [i \in 0 .. 1 |-> IF i = 0 THEN p ELSE q]
        /\ mine' = mine \cup {readbuf'[0], readbuf'[1]}
        /\ ble_pc' = ble_pc
    BY <1>2 DEF Handshake, NeedsPair, AllocatePair, ble
  <2>2. p # NULL
    BY <2>1, MallocedType, BuffersAssumption DEF IInv
  <2> HIDE DEF p, q
  <2>3. readbuf'[0] = p /\ mine = {}
    BY <2>1 DEF LostInv
  <2>4. mine' = {readbuf'[0], readbuf'[1]}
    BY <2>1, <2>3
  <2>5. Lost' = {}
    BY <2>4 DEF Lost
  <2> QED BY <2>1, <2>2, <2>3, <2>5 DEF LostInv
<1> QED BY <1>1, <1>2

LEMMA AllocateLost ==
    ASSUME IInv, LostInv, AllocateBle PROVE LostInv'
<1> DEFINE size == BFLB_EFLASH_LOADER_BLE_READBUF_SIZE
           q == Malloced(heap, size)
<1>1. CASE UNCHANGED <<mine, readbuf>>
  BY <1>1 DEF AllocateBle, LostInv, Lost
<1>2. CASE ~ UNCHANGED <<mine, readbuf>>
  <2>1. /\ ble_pc = "allocate" /\ ble_pc' = "use_ble" /\ CanMalloc(heap, size)
        /\ readbuf' = [readbuf EXCEPT ![0] = q] /\ mine' = mine \cup {q}
    BY <1>2 DEF AllocateBle
  <2>2. q # NULL
    BY <2>1, MallocedType, BuffersAssumption DEF IInv
  <2> HIDE DEF q
  <2>3. readbuf'[0] = q /\ readbuf'[1] = readbuf[1]
    BY <2>1 DEF IInv, TypeOK
  <2>4. Lost' \subseteq Lost \cup {readbuf[0]} /\ Lost' \subseteq Lost \cup (mine \cap {readbuf[0]})
    BY <2>1, <2>3 DEF Lost
  <2>5. \A x, y \in Lost' : x = y
    BY <2>1, <2>4 DEF LostInv
  <2> QED BY <2>1, <2>2, <2>3, <2>5 DEF LostInv
<1> QED BY <1>1, <1>2

LEMMA FreeLost ==
    ASSUME IInv, LostInv, FreeFirst \/ FreeSecond PROVE LostInv'
<1>1. readbuf' = readbuf
  BY DEF FreeFirst, FreeSecond
<1>2. CASE ble_pc' = "bad_free"
  BY <1>1, <1>2 DEF FreeFirst, FreeSecond, FreeBuffer, LostInv, Lost
<1>3. CASE FreeFirst /\ ble_pc' # "bad_free"
  <2>1. readbuf[0] # NULL /\ mine' = mine \ {readbuf[0]} /\ ble_pc' = "free"
    BY <1>3 DEF FreeFirst, FreeBuffer
  <2>2. Lost' = Lost
    BY <1>1, <2>1 DEF Lost
  <2> QED BY <1>1, <2>1, <2>2 DEF LostInv
<1>4. CASE FreeSecond /\ ble_pc' # "bad_free"
  <2>1. /\ ble_pc = "free" /\ mine' = mine \ {readbuf[1]} /\ ble_pc' = "allocate"
    BY <1>4 DEF FreeSecond, FreeBuffer
  <2>2. Lost' = Lost
    BY <1>1, <2>1 DEF Lost
  <2> QED BY <1>1, <2>1, <2>2 DEF LostInv
<1> QED BY <1>2, <1>3, <1>4

LEMMA NextLost ==
    ASSUME IInv, LostInv, [Next]_vars PROVE LostInv'
<1>1. CASE UNCHANGED vars \/ MainTask \/ SerialBytes \/ BleReceive \/ Message
  <2>1. UNCHANGED <<mine, readbuf, ble_pc>>
    BY <1>1 DEF vars, MainTask, PollBle, GiveUpWaiting, ReadUart, ReadBle, TakeUart, TakeBle,
                TimeOut, Execute, Ack, SerialBytes, BleReceive, Message, memory, ble
  <2> QED BY <2>1 DEF LostInv, Lost
<1>2. CASE Connected \/ Disconnected \/ UseBle \/ UseUart \/ HandleMessage
  <2>1. /\ UNCHANGED <<mine, readbuf>>
        /\ ble_pc' \in {"connected", "use_uart", "idle", "bad_free", ble_pc}
    BY <1>2 DEF Connected, Disconnected, UseBle, UseUart, HandleMessage, memory
  <2> QED BY <2>1 DEF LostInv, Lost
<1>3. CASE TestBuffer
  <2>1. readbuf[0] = NULL /\ mine = {} /\ UNCHANGED <<mine, readbuf>> /\ ble_pc' = "allocate"
    BY <1>3 DEF TestBuffer, memory, LostInv
  <2> QED BY <2>1 DEF LostInv, Lost
<1>4. CASE Restart
  BY <1>4 DEF Restart, LostInv, Lost
<1> QED BY <1>1, <1>2, <1>3, <1>4, HandshakeLost, AllocateLost, FreeLost DEF Next, BleTask

(* However often peers connect and serial sessions begin, in whatever order *)
(* with the steps of bl_connected, no more than one buffer is lost          *)
(* (bflb_eflash_loader_ble.c, bflb_eflash_loader_uart.c).                   *)
THEOREM AtMostOneLostCorrect == Spec => []AtMostOneLost
<1>1. Init => LostInv
  BY DEF Init, LostInv, Lost
<1>2. IInv /\ LostInv /\ [Next]_vars => LostInv'
  BY NextLost
<1>3. LostInv => AtMostOneLost
  <2> SUFFICES ASSUME LostInv PROVE Cardinality(Lost) <= 1
    BY DEF AtMostOneLost, Lost
  <2>1. CASE Lost = {}
    BY <2>1, FS_EmptySet
  <2>2. CASE Lost # {}
    <3>1. PICK p \in Lost : TRUE
      BY <2>2
    <3>2. Lost = {p}
      BY <3>1 DEF LostInv
    <3>3. Cardinality({p}) = 1
      BY FS_Singleton
    <3> QED BY <3>2, <3>3
  <2> QED BY <2>1, <2>2
<1> QED BY <1>1, <1>2, <1>3, IInvCorrect, PTL DEF Spec

-----------------------------------------------------------------------------
(***************************************************************************)
(* With one link in use everything received goes to the loader's memory,   *)
(* and no buffer is freed twice before a second connection.                *)
(***************************************************************************)

UartSize == BFLB_EFLASH_LOADER_READBUF_SIZE
BleSize  == BFLB_EFLASH_LOADER_BLE_READBUF_SIZE

(* n bytes at p lie in a block of h whose pointer is one of ps.             *)
Holds(h, ps, p, n) ==
    \E b \in h.used : Payload(b) \in ps /\ Payload(b) <= p /\ p + n <= End(b)

(* One link only; no buffer is left over from a session over the other.     *)
Sole == ~int_rx \/ conns = 0

(* No second connection after a serial session.                             *)
Early == ~int_rx \/ conns <= 1

InSession == pc \in {"read", "wait_uart", "wait_ble", "exec", "ack"}
BetweenCallbacks == ble_pc \in {"idle", "use_uart"}

Basics ==
    /\ HeapInv(heap)
    /\ readbuf \in [0 .. 1 -> Int]
    /\ rx_index \in 0 .. 1 /\ rx_len \in Nat /\ conns \in Nat
    /\ conns = 0 => ble_pc = "idle" /\ ~conn /\ if_type = "uart" /\ pc # "wait_ble"
    /\ ble_pc = "use_uart" => ~conn

(* What was allocated and not freed is still there, the loader's apart from *)
(* the messages' ...                                                        *)
Disjoint == mine \cap messages = {} /\ \A p \in mine \cup messages : BlockOf(heap, p) # {}

(* ... and bl_connected frees nothing but the loader's buffers, each once.  *)
Freeable ==
    /\ ble_pc \notin {"free", "allocate", "no_memory"} => readbuf[0] \in mine \cup {NULL}
    /\ conns = 0 \/ ble_pc \in {"connected", "free"} => readbuf[1] \in mine \cup {NULL}
    /\ conns = 0 \/ ble_pc = "connected" => readbuf[0] # readbuf[1] \/ readbuf[0] = NULL
    /\ ~int_rx => readbuf[1] = NULL
    /\ ~int_rx /\ conns = 0 => readbuf[0] = NULL

Alive == Early => ble_pc # "bad_free" /\ Disjoint /\ Freeable

(* Where the interrupt and the receive callback write.                      *)
Writable ==
    /\ int_rx /\ conns = 0 =>
         pc = "no_memory" \/ \A i \in 0 .. 1 : Holds(heap, mine, readbuf[i], UartSize)
    /\ Early /\ conns > 0 /\ ble_pc \in {"use_ble", "idle", "use_uart"} =>
         Holds(heap, mine, readbuf[0], BleSize)

(* A session over the first Bluetooth connection, with no serial one before. *)
FirstSession ==
    ~int_rx /\ conns <= 1 =>
        /\ if_type = "ble" => BetweenCallbacks
        /\ InSession => /\ conns = 1 /\ BetweenCallbacks
                        /\ conn => if_type = "ble" /\ pc # "wait_uart"
        /\ rx_index = 0 \/ (rx_len = 0 /\ conns = 1 /\ ~conn /\ BetweenCallbacks)

Command ==
    Sole /\ conns <= 1 =>
        /\ pc = "wait_uart" => buf = readbuf[rx_index]
        /\ pc = "exec" => Holds(heap, mine, buf, 4)

OneLinkInv ==
    /\ Basics /\ Alive /\ Writable /\ FirstSession /\ Command
    /\ Sole /\ wild => Overrun

-----------------------------------------------------------------------------
(* What allocating and freeing do to the blocks of others.                  *)
LEMMA MallocKeeps ==
    ASSUME NEW h, NEW n \in Nat, HeapInv(h), CanMalloc(h, n)
    PROVE  /\ Malloced(h, n) \in Int /\ Malloced(h, n) # NULL
           /\ BlockOf(h, Malloced(h, n)) = {}
           /\ BlockOf(Malloc(h, n), Malloced(h, n)) # {}
           /\ h.used \subseteq Malloc(h, n).used
           /\ \A ps : Malloced(h, n) \in ps => Holds(Malloc(h, n), ps, Malloced(h, n), n)
<1> DEFINE t == Taken(h, n)
<1>1. /\ t \in Block /\ t.size >= n + xHeapStructSize
      /\ \A b \in h.used : End(b) <= t.at \/ End(t) <= b.at
  BY MallocCorrect
<1>2. t.at \in Nat /\ t.size \in Nat /\ t.size > 0
  BY <1>1, HeapAssumption DEF Block
<1>3. Malloc(h, n).used = h.used \cup {t} /\ Malloced(h, n) = Payload(t)
  BY DEF Malloc, Malloced
<1> HIDE DEF t
<1>4. \A b \in h.used : Payload(b) # Payload(t)
  <2> TAKE b \in h.used
  <2>1. b \in Block
    BY DEF HeapInv, Tiled
  <2>2. b.at # t.at
    BY <1>1, <1>2, <2>1, HeapAssumption DEF End, Block
  <2> QED BY <1>2, <2>1, <2>2, HeapAssumption DEF Payload, Block
<1>5. Payload(t) \in Int /\ Payload(t) # NULL /\ Payload(t) + n <= End(t)
  BY <1>1, <1>2, HeapAssumption DEF Payload, End, NULL
<1>6. ASSUME NEW ps, Payload(t) \in ps PROVE Holds(Malloc(h, n), ps, Payload(t), n)
  BY <1>3, <1>5, <1>6 DEF Holds
<1> QED BY <1>3, <1>4, <1>5, <1>6 DEF BlockOf

LEMMA FreeKeeps ==
    ASSUME NEW h, NEW p, HeapInv(h), BlockOf(h, p) # {}
    PROVE  /\ \A b \in h.used : Payload(b) # p => b \in Free(h, p).used
           /\ \A q : q # p /\ BlockOf(h, q) # {} => BlockOf(Free(h, p), q) # {}
<1> DEFINE b == CHOOSE c \in BlockOf(h, p) : TRUE
<1>1. CASE p = NULL
  BY <1>1 DEF Free
<1>2. CASE p # NULL
  <2>1. b \in h.used /\ Payload(b) = p
    BY DEF BlockOf
  <2>2. Free(h, p).used = h.used \ {b}
    BY <1>2 DEF Free
  <2> HIDE DEF b
  <2>3. \A c \in h.used : Payload(c) # p => c \in Free(h, p).used
    BY <2>1, <2>2
  <2> QED BY <2>3 DEF BlockOf
<1> QED BY <1>1, <1>2

LEMMA HoldsKept ==
    ASSUME NEW h, NEW g, NEW ps, NEW qs, NEW p, NEW n, Holds(h, ps, p, n),
           \A b \in h.used : Payload(b) \in ps => b \in g.used /\ Payload(b) \in qs
    PROVE  Holds(g, qs, p, n)
BY DEF Holds

LEMMA HoldsPart ==
    ASSUME NEW h, NEW ps, NEW p \in Int, NEW n \in Int, NEW at \in Nat, NEW m \in Nat,
           HeapInv(h), Holds(h, ps, p, n), at + m <= n
    PROVE  Holds(h, ps, p + at, m)
<1>1. PICK b \in h.used : Payload(b) \in ps /\ Payload(b) <= p /\ p + n <= End(b)
  BY DEF Holds
<1>2. b \in Block
  BY DEF HeapInv, Tiled
<1>3. Payload(b) \in Int /\ End(b) \in Int
  BY <1>2, HeapAssumption DEF Payload, End, Block
<1>4. Payload(b) <= p + at /\ (p + at) + m <= End(b)
  BY <1>1, <1>3
<1> QED BY <1>1, <1>4 DEF Holds

LEMMA OwnedHolds ==
    \A p, n : Owned(p, n) <=> Holds(heap, mine, p, n)
BY DEF Owned, Holds

(* Nothing is promised of what a second connection does to a pair.          *)
LEMMA NothingMore ==
    ASSUME Basics', int_rx', conns' > 1 PROVE OneLinkInv'
<1>1. conns' # 0 /\ ~(conns' <= 1)
  BY DEF Basics
<1>2. ~Early' /\ ~Sole'
  BY <1>1 DEF Early, Sole
<1> QED BY <1>1, <1>2 DEF OneLinkInv, Alive, Writable, FirstSession, Command

-----------------------------------------------------------------------------
(* main_task: it takes a command from a buffer of the loader and leaves the *)
(* memory alone.                                                            *)
LEMMA MainKeeps ==
    ASSUME OneLinkInv, ~wild, MainTask PROVE OneLinkInv'
<1>1. /\ UNCHANGED <<heap, mine, messages, readbuf, int_rx, wild, conn, conns, ble_pc>>
      /\ pc # "no_memory"
  BY DEF MainTask, PollBle, GiveUpWaiting, ReadUart, ReadBle, TakeUart, TakeBle,
         TimeOut, Execute, Ack, memory, rx, ble
<1>2. Basics'
  <2>1. rx_index' \in 0 .. 1 /\ rx_len' \in Nat
    BY DEF OneLinkInv, Basics, MainTask, PollBle, GiveUpWaiting, ReadUart, ReadBle, TakeUart,
           TakeBle, TimeOut, Execute, Ack, rx
  <2>2. conns = 0 => if_type' = "uart" /\ pc' # "wait_ble"
    BY DEF OneLinkInv, Basics, MainTask, PollBle, GiveUpWaiting, ReadUart, ReadBle, TakeUart,
           TakeBle, TimeOut, Execute, Ack, CountTimeout
  <2> QED BY <1>1, <2>1, <2>2 DEF OneLinkInv, Basics
<1>3. Alive'
  BY <1>1 DEF OneLinkInv, Alive, Early, Disjoint, Freeable
<1>4. Writable'
  BY <1>1 DEF OneLinkInv, Writable, Early
<1>5. FirstSession'
  <2> SUFFICES ASSUME ~int_rx, conns <= 1 PROVE FirstSession'
    BY <1>1 DEF FirstSession
  <2>1. CASE PollBle
    BY <2>1, <1>1 DEF PollBle, OneLinkInv, Basics, FirstSession, InSession, BetweenCallbacks, rx
  <2>2. CASE TakeUart
    BY <2>2, <1>1 DEF TakeUart, CountTimeout, OneLinkInv, Basics, FirstSession, InSession, BetweenCallbacks
  <2>3. CASE GiveUpWaiting \/ ReadUart \/ ReadBle
    BY <2>3, <1>1 DEF GiveUpWaiting, ReadUart, ReadBle, CountTimeout, OneLinkInv, Basics,
                      FirstSession, InSession, BetweenCallbacks, rx
  <2>4. CASE TakeBle \/ TimeOut \/ Execute \/ Ack
    BY <2>4, <1>1 DEF TakeBle, TimeOut, Execute, Ack, CountTimeout, OneLinkInv, Basics,
                      FirstSession, InSession, BetweenCallbacks, rx
  <2> QED BY <2>1, <2>2, <2>3, <2>4 DEF MainTask
<1>6. Command'
  <2> SUFFICES ASSUME Sole, conns <= 1
               PROVE  /\ pc' = "wait_uart" => buf' = readbuf[rx_index']
                      /\ pc' = "exec" => Holds(heap, mine, buf', 4)
    BY <1>1 DEF Command, Sole
  <2>0. UartSize \in Nat /\ UartSize >= 4 /\ BleSize \in Nat /\ BleSize >= 4
    BY BuffersAssumption DEF UartSize, BleSize
  <2>1. \A p \in Int, n \in Nat : n >= 4 /\ Holds(heap, mine, p, n) => Holds(heap, mine, p, 4)
    <3> TAKE p \in Int, n \in Nat
    <3> HAVE n >= 4 /\ Holds(heap, mine, p, n)
    <3>1. PICK b \in heap.used : Payload(b) \in mine /\ Payload(b) <= p /\ p + n <= End(b)
      BY DEF Holds
    <3>2. b \in Block
      BY DEF OneLinkInv, Basics, HeapInv, Tiled
    <3>3. p + 4 <= End(b)
      BY <3>1, <3>2, HeapAssumption DEF Block, End
    <3> QED BY <3>1, <3>3 DEF Holds
  <2>2. readbuf[0] \in Int /\ readbuf[1] \in Int /\ rx_index \in {0, 1}
    BY DEF OneLinkInv, Basics
  <2>3. CASE TakeUart
    <3>1. /\ pc = "wait_uart" /\ buf = readbuf[rx_index]
          /\ rx_len >= 4 /\ pc' # "wait_uart"
          /\ pc' = "exec" => buf' = buf
      BY <2>3 DEF TakeUart, LooksWhole, CountTimeout, OneLinkInv, Command
    <3>2. CASE int_rx
      <4>1. Holds(heap, mine, readbuf[rx_index], UartSize)
        BY <3>1, <3>2, <2>2, <1>1 DEF OneLinkInv, Writable, Sole
      <4> QED BY <3>1, <4>1, <2>0, <2>1, <2>2
    <3>3. CASE ~int_rx
      <4>1. conns = 1 /\ BetweenCallbacks /\ rx_index = 0
        BY <3>1, <3>3 DEF OneLinkInv, FirstSession, InSession
      <4>2. Holds(heap, mine, readbuf[0], BleSize)
        BY <3>3, <4>1 DEF OneLinkInv, Writable, Early, BetweenCallbacks
      <4> QED BY <3>1, <4>1, <4>2, <2>0, <2>1, <2>2
    <3> QED BY <3>2, <3>3
  <2>4. CASE TakeBle
    <3>1. pc = "wait_ble" /\ buf' = readbuf[0] /\ pc' = "exec"
      BY <2>4 DEF TakeBle
    <3>2. ~int_rx /\ conns = 1
      BY <3>1 DEF OneLinkInv, Basics, Sole
    <3>3. BetweenCallbacks
      BY <3>1, <3>2 DEF OneLinkInv, FirstSession, InSession
    <3>4. Holds(heap, mine, readbuf[0], BleSize)
      BY <3>2, <3>3 DEF OneLinkInv, Writable, Early, BetweenCallbacks
    <3> QED BY <3>1, <3>4, <2>0, <2>1, <2>2
  <2>5. CASE ReadUart
    BY <2>5 DEF ReadUart, rx
  <2>6. CASE PollBle \/ GiveUpWaiting \/ ReadBle \/ TimeOut \/ Execute \/ Ack
    <3>1. pc' # "wait_uart" /\ pc' # "exec"
      BY <2>6 DEF PollBle, GiveUpWaiting, ReadBle, TimeOut, Execute, Ack, CountTimeout
    <3> QED BY <3>1
  <2> QED BY <2>3, <2>4, <2>5, <2>6 DEF MainTask
<1> QED BY <1>1, <1>2, <1>3, <1>4, <1>5, <1>6 DEF OneLinkInv, Sole

-----------------------------------------------------------------------------
(* A handshake allocates both buffers before it enables the interrupt.      *)
LEMMA HandshakeKeeps ==
    ASSUME OneLinkInv, ~wild, Handshake PROVE OneLinkInv'
<1>1. /\ UNCHANGED <<messages, wild, conn, conns, ble_pc, if_type, buf>>
      /\ pc = "poll" /\ if_type = "uart"
      /\ rx_index' = 0 /\ rx_len' = 0 /\ int_rx'
      /\ pc' \in {"read", "no_memory"}
  BY DEF Handshake, AllocatePair, ble
<1>2. HeapInv(heap')
  BY HandshakeHeap DEF OneLinkInv, Basics
<1>3. CASE UNCHANGED <<heap, mine, readbuf>> /\ (pc' = "no_memory" \/ readbuf[0] # NULL)
  <2>1. Basics'
    BY <1>1, <1>2, <1>3 DEF OneLinkInv, Basics
  <2>2. Alive'
    BY <1>1, <1>3 DEF OneLinkInv, Alive, Early, Disjoint, Freeable
  <2>3. Writable'
    <3>1. Early' => Early
      BY <1>1 DEF Early
    <3> QED BY <1>1, <1>3, <3>1 DEF OneLinkInv, Writable, Alive, Early, Freeable
  <2> QED BY <1>1, <2>1, <2>2, <2>3 DEF OneLinkInv, FirstSession, Command, Sole
<1>4. CASE AllocatePair /\ pc' = "read" /\ readbuf[0] = NULL
  <2> DEFINE h1 == Malloc(heap, UartSize)
             p0 == Malloced(heap, UartSize)
             p1 == Malloced(h1, UartSize)
  <2>0. UartSize \in Nat
    BY BuffersAssumption DEF UartSize
  <2>1. /\ CanMalloc(heap, UartSize) /\ CanMalloc(h1, UartSize)
        /\ heap' = Malloc(h1, UartSize)
        /\ readbuf' = [i \in 0 .. 1 |-> IF i = 0 THEN p0 ELSE p1]
        /\ mine' = mine \cup {readbuf'[0], readbuf'[1]}
    BY <1>4 DEF AllocatePair, UartSize
  <2>2. HeapInv(heap) /\ HeapInv(h1)
    BY <2>0, <2>1, MallocCorrect DEF OneLinkInv, Basics
  <2>3. /\ p0 \in Int /\ p0 # NULL /\ BlockOf(heap, p0) = {} /\ BlockOf(h1, p0) # {}
        /\ heap.used \subseteq h1.used
        /\ \A ps : p0 \in ps => Holds(h1, ps, p0, UartSize)
    BY <2>0, <2>1, <2>2, MallocKeeps
  <2>4. /\ p1 \in Int /\ p1 # NULL /\ BlockOf(h1, p1) = {} /\ BlockOf(heap', p1) # {}
        /\ h1.used \subseteq heap'.used
        /\ \A ps : p1 \in ps => Holds(heap', ps, p1, UartSize)
    BY <2>0, <2>1, <2>2, MallocKeeps
  <2> HIDE DEF h1, p0, p1
  <2>5. readbuf'[0] = p0 /\ readbuf'[1] = p1 /\ mine' = mine \cup {p0, p1}
    BY <2>1
  <2>6. Basics'
    BY <1>1, <1>2, <1>4, <2>1, <2>3, <2>4 DEF OneLinkInv, Basics
  <2>7. Alive'
    <3> SUFFICES ASSUME conns <= 1 PROVE ble_pc # "bad_free" /\ Disjoint' /\ Freeable'
      BY <1>1 DEF Alive, Early
    <3>1. Early
      BY DEF Early
    <3>2. \A p : BlockOf(heap, p) # {} => BlockOf(heap', p) # {} /\ BlockOf(h1, p) # {}
      BY <2>3, <2>4 DEF BlockOf
    <3>3. BlockOf(heap', p0) # {}
      BY <2>3, <2>4 DEF BlockOf
    <3>4. Disjoint'
      BY <1>1, <2>3, <2>4, <2>5, <3>1, <3>2, <3>3 DEF OneLinkInv, Alive, Disjoint
    <3>5. p0 # p1
      BY <2>3, <2>4
    <3> QED BY <1>1, <2>3, <2>4, <2>5, <3>1, <3>4, <3>5 DEF OneLinkInv, Alive, Freeable
  <2>8. Writable'
    <3>1. Holds(h1, {p0}, p0, UartSize)
      BY <2>3
    <3>2. Holds(heap', mine', p0, UartSize)
      BY <2>4, <2>5, <3>1, HoldsKept
    <3>3. Holds(heap', mine', p1, UartSize)
      BY <2>4, <2>5
    <3>4. ~(Early' /\ conns > 0 /\ ble_pc \in {"use_ble", "idle", "use_uart"})
      <4> SUFFICES ASSUME Early', conns > 0, ble_pc \in {"use_ble", "idle", "use_uart"}
                   PROVE  FALSE
        OBVIOUS
      <4>1. Holds(heap, mine, NULL, BleSize)
        BY <1>1, <1>4 DEF OneLinkInv, Writable, Early
      <4>2. PICK b \in heap.used : Payload(b) <= NULL
        BY <4>1 DEF Holds
      <4>3. b \in Block
        BY DEF OneLinkInv, Basics, HeapInv, Tiled
      <4> QED BY <4>2, <4>3, HeapAssumption DEF Block, Payload, NULL
    <3> QED BY <1>1, <2>5, <3>2, <3>3, <3>4 DEF Writable
  <2> QED BY <1>1, <1>4, <2>6, <2>7, <2>8 DEF OneLinkInv, FirstSession, Command, Sole
<1> QED BY <1>1, <1>3, <1>4 DEF Handshake, NeedsPair, AllocatePair

(* Messages come and go in blocks of their own.                             *)
LEMMA MessageKeeps ==
    ASSUME OneLinkInv, ~wild, Message \/ HandleMessage PROVE OneLinkInv'
<1>1. /\ UNCHANGED <<mine, readbuf, rx_index, rx_len, int_rx, wild, conn, conns, if_type, buf>>
      /\ HeapInv(heap')
      /\ pc' = pc \/ pc' = "no_memory"
      /\ ble_pc' = ble_pc \/ ble_pc' = "bad_free"
  BY MessageHeap DEF Message, HandleMessage, OneLinkInv, Basics, rx, ble, main
<1>2. CASE Early
  <2>1. /\ ble_pc' = ble_pc
        /\ Disjoint'
        /\ \A b \in heap.used : Payload(b) \in mine => b \in heap'.used
    <3>1. ble_pc # "bad_free" /\ Disjoint
      BY <1>2 DEF OneLinkInv, Alive
    <3>2. CASE Message
      <4>1. PICK n \in MessageSizes :
              \/ /\ CanMalloc(heap, n) /\ heap' = Malloc(heap, n)
                 /\ messages' = messages \cup {Malloced(heap, n)}
              \/ UNCHANGED <<heap, messages>>
        BY <3>2 DEF Message
      <4>2. CASE UNCHANGED <<heap, messages>>
        BY <1>1, <3>1, <3>2, <4>2 DEF Disjoint, Message, ble
      <4>3. CASE CanMalloc(heap, n) /\ heap' = Malloc(heap, n)
                 /\ messages' = messages \cup {Malloced(heap, n)}
        <5>1. /\ BlockOf(heap, Malloced(heap, n)) = {} /\ BlockOf(heap', Malloced(heap, n)) # {}
              /\ heap.used \subseteq heap'.used
          BY <4>3, MallocKeeps, BuffersAssumption DEF OneLinkInv, Basics
        <5>2. \A p : BlockOf(heap, p) # {} => BlockOf(heap', p) # {}
          BY <5>1 DEF BlockOf
        <5> QED BY <1>1, <3>1, <3>2, <4>3, <5>1, <5>2 DEF Disjoint, Message, ble
      <4> QED BY <4>1, <4>2, <4>3
    <3>3. CASE HandleMessage
      <4>1. PICK p \in messages :
              IF FreeAsserts(heap, p)
              THEN ble_pc' = "bad_free" /\ UNCHANGED <<heap, messages>>
              ELSE heap' = Free(heap, p) /\ messages' = messages \ {p} /\ UNCHANGED ble_pc
        BY <3>3 DEF HandleMessage
      <4>2. BlockOf(heap, p) # {} /\ p \notin mine
        BY <3>1 DEF Disjoint
      <4>3. heap' = Free(heap, p) /\ messages' = messages \ {p} /\ ble_pc' = ble_pc
        BY <4>1, <4>2 DEF FreeAsserts
      <4>4. /\ \A b \in heap.used : Payload(b) # p => b \in heap'.used
            /\ \A q : q # p /\ BlockOf(heap, q) # {} => BlockOf(heap', q) # {}
        BY <4>2, <4>3, FreeKeeps DEF OneLinkInv, Basics
      <4> QED BY <1>1, <3>1, <4>2, <4>3, <4>4 DEF Disjoint
    <3> QED BY <3>2, <3>3
  <2>2. \A p, n : Holds(heap, mine, p, n) => Holds(heap', mine, p, n)
    BY <2>1, HoldsKept
  <2>3. Basics'
    BY <1>1, <2>1 DEF OneLinkInv, Basics
  <2>4. Alive'
    BY <1>1, <1>2, <2>1 DEF OneLinkInv, Alive, Early, Freeable
  <2>5. Writable'
    BY <1>1, <2>1, <2>2 DEF OneLinkInv, Writable, Early
  <2>6. FirstSession'
    BY <1>1, <2>1 DEF OneLinkInv, FirstSession, InSession, BetweenCallbacks
  <2>7. Command'
    BY <1>1, <2>2 DEF OneLinkInv, Command, Sole
  <2> QED BY <1>1, <2>3, <2>4, <2>5, <2>6, <2>7 DEF OneLinkInv, Sole
<1>3. CASE ~Early
  <2>1. int_rx /\ conns > 1
    BY <1>3 DEF OneLinkInv, Basics, Early
  <2>2. Basics'
    BY <1>1, <2>1 DEF OneLinkInv, Basics
  <2> QED BY <1>1, <2>1, <2>2, NothingMore
<1> QED BY <1>2, <1>3

-----------------------------------------------------------------------------
(* What is received is written to a buffer of the loader, or is too long.   *)
LEMMA SerialKeeps ==
    ASSUME OneLinkInv, SerialBytes PROVE OneLinkInv'
<1>1. /\ UNCHANGED <<heap, mine, messages, readbuf, rx_index, int_rx, conn, conns, ble_pc,
                     if_type, pc, buf>>
      /\ int_rx /\ pc # "no_memory"
  BY DEF SerialBytes, memory, ble, main
<1>2. PICK n \in Pieces :
        /\ rx_len' = rx_len + n
        /\ wild' = ~Owned(readbuf[rx_index] + rx_len, n)
  BY DEF SerialBytes, UartSize
<1>3. n \in Nat /\ rx_len \in Nat /\ UartSize \in Nat
  BY BuffersAssumption DEF Pieces, OneLinkInv, Basics, UartSize
<1>4. Basics'
  BY <1>1, <1>2, <1>3 DEF OneLinkInv, Basics
<1>5. Sole /\ wild' => Overrun'
  <2> SUFFICES ASSUME Sole, rx_len + n <= UartSize PROVE ~wild'
    BY <1>1, <1>2, <1>3 DEF Sole, Overrun, UartSize
  <2>1. conns = 0
    BY <1>1 DEF Sole
  <2>2. Holds(heap, mine, readbuf[rx_index], UartSize) /\ readbuf[rx_index] \in Int
    BY <1>1, <2>1 DEF OneLinkInv, Basics, Writable
  <2>3. Holds(heap, mine, readbuf[rx_index] + rx_len, n)
    BY <1>2, <1>3, <2>1, <2>2, HoldsPart DEF OneLinkInv, Basics
  <2> QED BY <1>2, <2>3, OwnedHolds
<1>6. Alive' /\ Writable' /\ FirstSession' /\ Command'
  BY <1>1 DEF OneLinkInv, Alive, Early, Disjoint, Freeable, Writable, FirstSession, Command, Sole
<1> QED BY <1>1, <1>4, <1>5, <1>6 DEF OneLinkInv, Sole

LEMMA ReceiveKeeps ==
    ASSUME OneLinkInv, BleReceive PROVE OneLinkInv'
<1> DEFINE at == IF rx_len >= BleSize THEN 0 ELSE rx_len
<1>1. /\ UNCHANGED <<heap, mine, messages, readbuf, rx_index, int_rx, conn, conns, ble_pc,
                     if_type, pc, buf>>
      /\ conn /\ ble_pc = "idle"
  BY DEF BleReceive, memory, ble, main
<1>2. PICK n \in Pieces :
        /\ rx_len' = at + n
        /\ wild' = ~Owned(readbuf[0] + at, n)
  BY DEF BleReceive, BleSize
<1>3. n \in Nat /\ at \in Nat /\ BleSize \in Nat
  BY BuffersAssumption DEF Pieces, OneLinkInv, Basics, BleSize
<1> HIDE DEF at
<1>4. Basics' /\ conns # 0 /\ conns \in Nat
  BY <1>1, <1>2, <1>3 DEF OneLinkInv, Basics
<1>5. Sole /\ wild' => Overrun'
  <2> SUFFICES ASSUME Sole, at + n <= BleSize PROVE ~wild'
    BY <1>1, <1>2, <1>3, <1>4 DEF Overrun, BleSize
  <2>1. ~int_rx /\ conns > 0
    BY <1>4 DEF Sole
  <2>2. Holds(heap, mine, readbuf[0], BleSize) /\ readbuf[0] \in Int
    BY <1>1, <2>1 DEF OneLinkInv, Basics, Writable, Early
  <2>3. Holds(heap, mine, readbuf[0] + at, n)
    BY <1>2, <1>3, <2>1, <2>2, HoldsPart DEF OneLinkInv, Basics
  <2> QED BY <1>2, <2>3, OwnedHolds
<1>6. Alive' /\ Writable' /\ Command'
  BY <1>1 DEF OneLinkInv, Alive, Early, Disjoint, Freeable, Writable, Command, Sole
<1>7. FirstSession'
  BY <1>1 DEF OneLinkInv, FirstSession, InSession, BetweenCallbacks
<1> QED BY <1>1, <1>4, <1>5, <1>6, <1>7 DEF OneLinkInv, Sole

-----------------------------------------------------------------------------
(* The Bluetooth task                                                       *)
LEMMA LinkKeeps ==
    ASSUME OneLinkInv, ~wild, Connected \/ Disconnected \/ TestBuffer \/ UseBle \/ UseUart
    PROVE  OneLinkInv'
<1>1. UNCHANGED <<heap, mine, messages, readbuf, rx_index, rx_len, wild, int_rx, pc, buf>>
  BY DEF Connected, Disconnected, TestBuffer, UseBle, UseUart, memory, rx, main
<1>2. CASE Connected
  <2>1. ble_pc = "idle" /\ ~conn /\ conn' /\ conns' = conns + 1 /\ ble_pc' = "connected"
        /\ if_type' = if_type /\ conns \in Nat
    BY <1>2 DEF Connected, OneLinkInv, Basics
  <2>2. CASE int_rx /\ conns > 0
    <3>1. Basics'
      BY <1>1, <2>1, <2>2 DEF OneLinkInv, Basics
    <3> QED BY <1>1, <2>1, <2>2, <3>1, NothingMore
  <2>3. CASE ~int_rx \/ conns = 0
    <3>1. Basics'
      BY <1>1, <2>1 DEF OneLinkInv, Basics
    <3>2. Alive'
      BY <1>1, <2>1, <2>3 DEF OneLinkInv, Alive, Early, Disjoint, Freeable
    <3>3. Writable'
      BY <1>1, <2>1 DEF Writable
    <3>4. FirstSession'
      BY <1>1, <2>1 DEF OneLinkInv, Basics, FirstSession, InSession
    <3>5. Command'
      BY <1>1, <2>1, <2>3 DEF OneLinkInv, FirstSession, InSession, Command, Sole
    <3> QED BY <1>1, <2>1, <2>3, <3>1, <3>2, <3>3, <3>4, <3>5 DEF OneLinkInv, Sole
  <2> QED BY <2>1, <2>2, <2>3
<1>3. CASE Disconnected \/ TestBuffer \/ UseBle \/ UseUart
  <2>1. /\ conns' = conns /\ conns # 0
        /\ ble_pc' \in {"idle", "allocate", "use_uart"}
        /\ ble_pc' = "use_uart" => ~conn' /\ ble_pc = "idle" /\ if_type' = if_type
        /\ ble_pc' = "allocate" => ble_pc = "connected" /\ if_type' = if_type /\ conn' = conn
        /\ ble_pc' = "idle" => /\ ble_pc \in {"use_ble", "use_uart"} /\ conn' = conn
                               /\ ble_pc = "use_ble" => if_type' = "ble"
                               /\ ble_pc = "use_uart" => if_type' = "uart"
    BY <1>3 DEF Disconnected, TestBuffer, UseBle, UseUart, OneLinkInv, Basics
  <2>2. Basics'
    BY <1>1, <2>1 DEF OneLinkInv, Basics
  <2>3. Alive'
    BY <1>1, <2>1 DEF OneLinkInv, Alive, Early, Disjoint, Freeable
  <2>4. Writable'
    BY <1>1, <2>1 DEF OneLinkInv, Writable, Early
  <2>5. FirstSession'
    BY <1>1, <2>1 DEF OneLinkInv, Basics, FirstSession, InSession, BetweenCallbacks
  <2>6. Command'
    BY <1>1, <2>1 DEF OneLinkInv, Command, Sole
  <2> QED BY <1>1, <2>1, <2>2, <2>3, <2>4, <2>5, <2>6 DEF OneLinkInv, Sole
<1> QED BY <1>2, <1>3

LEMMA FreeBufferKeeps ==
    ASSUME OneLinkInv, Early, NEW i, NEW next,
           readbuf[i] \in mine \cup {NULL}, FreeBuffer(i, next), messages' = messages
    PROVE  ble_pc' = next /\ Disjoint' /\ mine' = mine \ {readbuf[i]}
<1>1. HeapInv(heap) /\ Disjoint
  BY DEF OneLinkInv, Basics, Alive
<1>2. /\ heap' = Free(heap, readbuf[i]) /\ mine' = mine \ {readbuf[i]} /\ ble_pc' = next
  BY <1>1 DEF FreeBuffer, FreeAsserts, Disjoint
<1>3. CASE readbuf[i] = NULL
  BY <1>1, <1>2, <1>3 DEF Free, Disjoint
<1>4. CASE readbuf[i] \in mine
  <2>1. BlockOf(heap, readbuf[i]) # {} /\ readbuf[i] \notin messages
    BY <1>1, <1>4 DEF Disjoint
  <2>2. \A q : q # readbuf[i] /\ BlockOf(heap, q) # {} => BlockOf(heap', q) # {}
    BY <1>1, <1>2, <2>1, FreeKeeps
  <2> QED BY <1>1, <1>2, <2>1, <2>2 DEF Disjoint
<1> QED BY <1>2, <1>3, <1>4

LEMMA ReplaceKeeps ==
    ASSUME OneLinkInv, ~wild, FreeFirst \/ FreeSecond \/ AllocateBle
    PROVE  OneLinkInv'
<1>1. /\ UNCHANGED <<messages, rx_index, rx_len, int_rx, wild, conn, conns, if_type, pc, buf>>
      /\ HeapInv(heap') /\ conns # 0
      /\ ble_pc \in {"connected", "free", "allocate"}
      /\ ble_pc' \in {"free", "allocate", "use_ble", "bad_free", "no_memory"}
  BY BleTaskHeap DEF FreeFirst, FreeSecond, AllocateBle, FreeBuffer, BleTask, OneLinkInv, Basics,
                     rx, main
<1>2. readbuf' \in [0 .. 1 -> Int]
  <2>1. CASE FreeFirst \/ FreeSecond
    BY <2>1 DEF FreeFirst, FreeSecond, OneLinkInv, Basics
  <2>2. CASE AllocateBle
    BY <2>2, MallocKeeps, BuffersAssumption DEF AllocateBle, OneLinkInv, Basics
  <2> QED BY <2>1, <2>2
<1>3. Basics'
  BY <1>1, <1>2 DEF OneLinkInv, Basics
<1>4. CASE int_rx /\ conns > 1
  BY <1>1, <1>3, <1>4, NothingMore
<1>5. CASE Early
  <2>1. Alive'
    <3>1. CASE FreeFirst
      <4>1. /\ ble_pc = "connected" /\ readbuf[0] \in mine /\ readbuf[0] # NULL
            /\ FreeBuffer(0, "free") /\ readbuf' = readbuf
        BY <1>5, <3>1 DEF FreeFirst, OneLinkInv, Alive, Freeable
      <4>2. ble_pc' = "free" /\ Disjoint' /\ mine' = mine \ {readbuf[0]}
        BY <1>1, <1>5, <4>1, FreeBufferKeeps
      <4> QED BY <1>1, <1>5, <4>1, <4>2 DEF OneLinkInv, Alive, Early, Freeable
    <3>2. CASE FreeSecond
      <4>1. /\ ble_pc = "free" /\ readbuf[1] \in mine \cup {NULL}
            /\ FreeBuffer(1, "allocate") /\ readbuf' = readbuf
        BY <1>5, <3>2 DEF FreeSecond, OneLinkInv, Alive, Freeable
      <4>2. ble_pc' = "allocate" /\ Disjoint'
        BY <1>1, <1>5, <4>1, FreeBufferKeeps
      <4> QED BY <1>1, <1>5, <4>1, <4>2 DEF OneLinkInv, Alive, Early, Freeable
    <3>3. CASE AllocateBle /\ ble_pc' = "no_memory"
      BY <1>1, <1>5, <3>3 DEF AllocateBle, OneLinkInv, Alive, Early, Disjoint, Freeable
    <3>4. CASE AllocateBle /\ ble_pc' # "no_memory"
      <4> DEFINE p == Malloced(heap, BleSize)
      <4>1. /\ CanMalloc(heap, BleSize) /\ heap' = Malloc(heap, BleSize)
            /\ readbuf' = [readbuf EXCEPT ![0] = p]
            /\ mine' = mine \cup {p} /\ ble_pc' = "use_ble"
        BY <3>4 DEF AllocateBle, BleSize
      <4>2. BlockOf(heap, p) = {} /\ BlockOf(heap', p) # {} /\ heap.used \subseteq heap'.used
        BY <4>1, MallocKeeps, BuffersAssumption DEF OneLinkInv, Basics, BleSize
      <4> HIDE DEF p
      <4>3. \A q : BlockOf(heap, q) # {} => BlockOf(heap', q) # {}
        BY <4>2 DEF BlockOf
      <4>4. readbuf'[0] = p /\ readbuf'[1] = readbuf[1]
        BY <4>1 DEF OneLinkInv, Basics
      <4>5. Disjoint'
        BY <1>1, <1>5, <4>1, <4>2, <4>3 DEF OneLinkInv, Alive, Disjoint
      <4> QED BY <1>1, <1>5, <4>1, <4>4, <4>5 DEF OneLinkInv, Alive, Early, Freeable
    <3> QED BY <3>1, <3>2, <3>3, <3>4
  <2>2. Writable'
    <3>1. CASE FreeFirst \/ FreeSecond \/ ble_pc' = "no_memory"
      BY <1>1, <3>1 DEF FreeFirst, FreeSecond, FreeBuffer, Writable
    <3>2. CASE AllocateBle /\ ble_pc' # "no_memory"
      <4> DEFINE p == Malloced(heap, BleSize)
      <4>1. /\ CanMalloc(heap, BleSize) /\ heap' = Malloc(heap, BleSize)
            /\ readbuf' = [readbuf EXCEPT ![0] = p]
            /\ mine' = mine \cup {p}
        BY <3>2 DEF AllocateBle, BleSize
      <4>2. Holds(heap', mine', p, BleSize)
        BY <4>1, MallocKeeps, BuffersAssumption DEF OneLinkInv, Basics, BleSize
      <4>3. readbuf'[0] = p
        BY <4>1 DEF OneLinkInv, Basics
      <4> QED BY <1>1, <4>2, <4>3 DEF Writable
    <3> QED BY <3>1, <3>2
  <2>3. ~int_rx /\ conns <= 1 => ~InSession /\ if_type # "ble" /\ rx_index = 0
    BY <1>1 DEF OneLinkInv, FirstSession, BetweenCallbacks
  <2>4. FirstSession' /\ Command'
    BY <1>1, <2>3 DEF FirstSession, Command, InSession, Sole
  <2> QED BY <1>1, <1>3, <2>1, <2>2, <2>4 DEF OneLinkInv, Sole
<1> QED BY <1>4, <1>5 DEF Early, OneLinkInv, Basics

-----------------------------------------------------------------------------
LEMMA RestartKeeps ==
    ASSUME Restart PROVE OneLinkInv'
<1>1. HeapInv(heap')
  BY InitHeap DEF Restart
<1> QED BY <1>1 DEF Restart, OneLinkInv, Basics, Alive, Disjoint, Freeable, Writable,
                    FirstSession, InSession, BetweenCallbacks, Command, NULL

LEMMA InitOneLink ==
    ASSUME Init PROVE OneLinkInv
<1>1. HeapInv(heap)
  BY InitHeap DEF Init
<1> QED BY <1>1 DEF Init, OneLinkInv, Basics, Alive, Disjoint, Freeable, Writable,
                    FirstSession, InSession, BetweenCallbacks, Command, NULL

LEMMA NextOneLink ==
    ASSUME OneLinkInv, [Next]_vars PROVE OneLinkInv'
<1>1. CASE UNCHANGED vars
  BY <1>1 DEF vars, memory, rx, ble, main, OneLinkInv, Basics, Alive, Early, Disjoint, Freeable,
              Writable, FirstSession, InSession, BetweenCallbacks, Command, Sole, Overrun
<1> QED BY <1>1, MainKeeps, HandshakeKeeps, SerialKeeps, ReceiveKeeps, LinkKeeps, ReplaceKeeps,
           MessageKeeps, RestartKeeps DEF Next, BleTask

(* As long as one of the two links is used, nothing but what is too long    *)
(* for a receive buffer is written outside of the loader's memory, the      *)
(* command being executed lies in it, and one connection after a serial     *)
(* session frees each buffer once (uart0_irq_callback, ble_blf_recv and     *)
(* bl_connected), for any lengths of what is received.                      *)
THEOREM OneLinkCorrect == Spec => []OneLinkIsSafe
<1>1. Init => OneLinkInv
  BY InitOneLink
<1>2. OneLinkInv /\ [Next]_vars => OneLinkInv'
  BY NextOneLink
<1>3. OneLinkInv => OneLinkIsSafe
  <2> SUFFICES ASSUME OneLinkInv PROVE OneLinkIsSafe
    OBVIOUS
  <2>1. conns \in Nat
    BY DEF OneLinkInv, Basics
  <2> QED BY <2>1, OwnedHolds DEF OneLinkInv, OneLinkIsSafe, Alive, Early, Sole, Command
<1> QED BY <1>1, <1>2, <1>3, PTL DEF Spec

(* Until a second connection after a serial session nobody's memory is      *)
(* freed by someone else, with messages of any sizes and any number of      *)
(* them, and a connected peer writes to a buffer of the loader that is as   *)
(* large as ble_blf_recv takes it to be.                                    *)
THEOREM NobodysElseCorrect == Spec => []NobodysElse
<1>1. Init => OneLinkInv
  BY InitOneLink
<1>2. OneLinkInv /\ [Next]_vars => OneLinkInv'
  BY NextOneLink
<1>3. OneLinkInv => NobodysElse
  <2> SUFFICES ASSUME OneLinkInv, ~SecondConnection PROVE NobodysElse
    BY DEF NobodysElse
  <2>1. Early
    BY DEF OneLinkInv, Basics, SecondConnection, Early
  <2>2. \A p \in mine \cup messages : BlockOf(heap, p) # {}
    BY <2>1 DEF OneLinkInv, Alive, Disjoint
  <2>3. conn /\ ble_pc = "idle" => Holds(heap, mine, readbuf[0], BleSize)
    BY <2>1 DEF OneLinkInv, Basics, Writable
  <2> QED BY <2>2, <2>3, OwnedHolds DEF NobodysElse, BleSize
<1> QED BY <1>1, <1>2, <1>3, PTL DEF Spec
=============================================================================
