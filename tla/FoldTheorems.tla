---------------------------- MODULE FoldTheorems ----------------------------
(***************************************************************************)
(* What the folds of the community modules compute.  Op is the step of a   *)
(* fold from the left over a sequence, with what the step reads besides:   *)
(* a module that uses such a fold instantiates this one with its own.      *)
(***************************************************************************)
EXTENDS Integers, Sequences, FiniteSets, SequencesExt, FiniteSetTheorems,
        WellFoundedInduction, TLAPS

CONSTANT Op(_, _, _, _)

-----------------------------------------------------------------------------
(* Induction over the numbers, for sets of numbers *)

\* A set of numbers that is not empty has a least one.
LEMMA LeastNumber ==
    ASSUME NEW S \in SUBSET Nat, NEW n \in S
    PROVE  \E k \in S : \A j \in S : k <= j
<1>1. \E k \in S : \A j \in S : ~(<<j, k>> \in OpToRel(<, Nat))
  BY NatLessThanWellFounded, WFMin, Zenon
<1>2. ASSUME NEW j \in Nat, NEW k \in Nat, ~(<<j, k>> \in OpToRel(<, Nat))
      PROVE  ~(j < k)
  BY <1>2, Zenon DEF OpToRel
<1>3. \E k \in S : \A j \in S : ~(j < k)
  BY <1>1, <1>2, Zenon
<1> QED BY <1>3

\* A set with 0, and with n + 1 whenever it has n, has all numbers.
LEMMA NumberInduction ==
    ASSUME NEW S, 0 \in S, \A n \in Nat : n \in S => n + 1 \in S
    PROVE  Nat \subseteq S
<1> SUFFICES ASSUME NEW x \in Nat \ S PROVE FALSE
  OBVIOUS
<1>1. Nat \ S \in SUBSET Nat /\ x \in Nat \ S
  OBVIOUS
<1>2. PICK m \in Nat \ S : \A k \in Nat \ S : m <= k
  BY <1>1, LeastNumber
<1>3. m # 0 /\ m - 1 \in Nat /\ m - 1 \in S
  BY <1>2
<1> QED BY <1>2, <1>3

-----------------------------------------------------------------------------
(* A fold over a sequence *)

Fold(p, q, base, seq) == FoldLeft(LAMBDA done, next : Op(p, q, done, next), base, seq)

\* The recursion of the fold, for the sets of positions of at most k elements.
Folds(p, q, base, seq, k, g) ==
    \A t \in {u \in SUBSET DOMAIN seq : Cardinality(u) <= k} :
        g[t] = IF t = {} THEN base ELSE Op(p, q, g[t \ {Max(t)}], seq[Max(t)])

\* A function satisfies the recursion up to any number of positions.
LEMMA FoldsUpTo ==
    ASSUME NEW p, NEW q, NEW base, NEW seq, NEW n \in Nat, DOMAIN seq = 1 .. n
    PROVE  \A k \in Nat : \E g : Folds(p, q, base, seq, k, g)
<1> DEFINE S == {k \in Nat : \E g : Folds(p, q, base, seq, k, g)}
<1>1. \A t \in SUBSET (1 .. n) : IsFiniteSet(t) /\ Cardinality(t) \in Nat /\ (t # {} => Max(t) \in t /\ Cardinality(t \ {Max(t)}) = Cardinality(t) - 1)
  <2> SUFFICES ASSUME NEW t \in SUBSET (1 .. n) PROVE IsFiniteSet(t) /\ Cardinality(t) \in Nat /\ (t # {} => Max(t) \in t /\ Cardinality(t \ {Max(t)}) = Cardinality(t) - 1)
    OBVIOUS
  <2>1. IsFiniteSet(t) /\ Cardinality(t) \in Nat
    <3>1. IsFiniteSet(1 .. n)
      BY FS_Interval
    <3>2. IsFiniteSet(t)
      BY <3>1, FS_Subset
    <3> QED BY <3>2, FS_CardinalityType
  <2>2. ASSUME t # {} PROVE Max(t) \in t
    <3>1. PICK x \in t : TRUE
      BY <2>2
    <3> DEFINE D == {n - y : y \in t}
    <3>2. D \in SUBSET Nat /\ n - x \in D
      OBVIOUS
    <3>3. PICK m \in D : \A k \in D : m <= k
      BY <3>2, LeastNumber
    <3>4. PICK z \in t : m = n - z
      BY <3>3
    <3>5. \A y \in t : n - z <= n - y
      BY <3>3, <3>4
    <3>6. \A y \in t : z >= y
      BY <3>5
    <3> QED BY <3>6 DEF Max
  <2> QED BY <2>1, <2>2, FS_RemoveElement
<1>2. 0 \in S
  <2> DEFINE g == [t \in SUBSET (1 .. n) |-> base]
  <2>1. ASSUME NEW t \in SUBSET (1 .. n), Cardinality(t) <= 0 PROVE t = {}
    <3>1. IsFiniteSet(t) /\ Cardinality(t) \in Nat
      BY <1>1
    <3>2. Cardinality(t) = 0
      BY <2>1, <3>1
    <3> QED BY <3>1, <3>2, FS_EmptySet
  <2>2. Folds(p, q, base, seq, 0, g)
    BY <2>1 DEF Folds
  <2> QED BY <2>2
<1>3. ASSUME NEW k \in Nat, k \in S PROVE k + 1 \in S
  <2>1. PICK g : Folds(p, q, base, seq, k, g)
    BY <1>3
  <2> DEFINE h == [t \in SUBSET (1 .. n) |->
                     IF t = {} THEN base ELSE Op(p, q, g[t \ {Max(t)}], seq[Max(t)])]
  <2>2. \A t \in SUBSET (1 .. n) : Cardinality(t) <= k => h[t] = g[t]
    BY <2>1 DEF Folds
  <2>3. ASSUME NEW t \in SUBSET (1 .. n), Cardinality(t) <= k + 1
        PROVE  h[t] = IF t = {} THEN base ELSE Op(p, q, h[t \ {Max(t)}], seq[Max(t)])
    <3>1. CASE t = {}
      BY <3>1
    <3>2. CASE t # {}
      <4>1. t \ {Max(t)} \in SUBSET (1 .. n) /\ Cardinality(t \ {Max(t)}) <= k
        <5>1. Cardinality(t) \in Nat /\ Cardinality(t \ {Max(t)}) = Cardinality(t) - 1
          BY <1>1, <3>2
        <5>2. Cardinality(t) <= k + 1
          BY <2>3
        <5> HIDE <1>1
        <5>3. Cardinality(t \ {Max(t)}) <= k
          BY <5>1, <5>2
        <5> QED BY <5>3
      <4>2. h[t \ {Max(t)}] = g[t \ {Max(t)}]
        BY <2>2, <4>1
      <4>3. h[t] = Op(p, q, g[t \ {Max(t)}], seq[Max(t)])
        BY <3>2
      <4> HIDE DEF h
      <4> QED BY <3>2, <4>2, <4>3
    <3> QED BY <3>1, <3>2
  <2> HIDE DEF h
  <2>4. Folds(p, q, base, seq, k + 1, h)
    BY <2>3 DEF Folds
  <2> QED BY <2>4
<1> HIDE DEF S
<1>4. Nat \subseteq S
  BY <1>2, <1>3, NumberInduction
<1> QED BY <1>4 DEF S

\* The values of a fold over a sequence, from the first prefix to the last.
LEMMA FoldUnrolls ==
    ASSUME NEW p, NEW q, NEW base, NEW seq, NEW n \in Nat, DOMAIN seq = 1 .. n
    PROVE  \E v : /\ v[0] = base
                  /\ \A k \in 1 .. n : v[k] = Op(p, q, v[k - 1], seq[k])
                  /\ Fold(p, q, base, seq) = v[n]
<1> DEFINE Iter(g) == g = [t \in SUBSET DOMAIN seq |->
                              IF t = {} THEN base ELSE Op(p, q, g[t \ {Max(t)}], seq[Max(t)])]
           iter == CHOOSE g : Iter(g)
<1>1. \E g : Iter(g)
  <2>1. PICK g : Folds(p, q, base, seq, n, g)
    BY FoldsUpTo
  <2> DEFINE h == [t \in SUBSET DOMAIN seq |-> g[t]]
  <2>2. \A t \in SUBSET DOMAIN seq : Cardinality(t) <= n
    <3>1. IsFiniteSet(1 .. n) /\ Cardinality(1 .. n) = n
      BY FS_Interval
    <3> QED BY <3>1, FS_Subset
  <2>3. h = [t \in SUBSET DOMAIN seq |->
                              IF t = {} THEN base ELSE Op(p, q, h[t \ {Max(t)}], seq[Max(t)])]
    <3>1. ASSUME NEW t \in SUBSET DOMAIN seq
          PROVE  h[t] = IF t = {} THEN base ELSE Op(p, q, h[t \ {Max(t)}], seq[Max(t)])
      <4>1. h[t] = g[t] /\ h[t \ {Max(t)}] = g[t \ {Max(t)}]
        OBVIOUS
      <4> QED BY <2>1, <2>2, <4>1 DEF Folds
    <3> QED BY <3>1
  <2> QED BY <2>3
<1>2. Iter(iter)
  BY <1>1
<1>3. Fold(p, q, base, seq) = iter[DOMAIN seq]
  BY DEF Fold, FoldLeft, MapThenFoldSet
<1> HIDE DEF iter
<1> DEFINE v == [k \in 0 .. n |-> iter[1 .. k]]
<1>4. v[0] = base
  BY <1>2
<1>5. ASSUME NEW k \in 1 .. n PROVE v[k] = Op(p, q, v[k - 1], seq[k])
  <2>1. 1 .. k \in SUBSET DOMAIN seq /\ 1 .. k # {} /\ k - 1 \in 0 .. n
    <3>1. k \in 1 .. k /\ k - 1 \in 0 .. n
      OBVIOUS
    <3>2. \A i \in 1 .. k : i \in 1 .. n
      OBVIOUS
    <3> QED BY <3>1, <3>2
  <2>2. Max(1 .. k) = k
    BY DEF Max
  <2>3. (1 .. k) \ {k} = 1 .. (k - 1)
    OBVIOUS
  <2>4. iter[1 .. k] = Op(p, q, iter[1 .. (k - 1)], seq[k])
    BY <1>2, <2>1, <2>2, <2>3
  <2>5. v[k] = iter[1 .. k] /\ v[k - 1] = iter[1 .. (k - 1)]
    BY <2>1
  <2> HIDE DEF v
  <2> QED BY <2>3, <2>4, <2>5
<1>6. v[n] = iter[DOMAIN seq]
  OBVIOUS
<1> QED BY <1>3, <1>4, <1>5, <1>6

\* One element more is folded last.
LEMMA FoldAppend ==
    ASSUME NEW p, NEW q, NEW base, NEW n \in Nat, NEW seq, NEW longer
    PROVE  /\ DOMAIN seq = 1 .. n
           /\ DOMAIN longer = 1 .. (n + 1) /\ \A k \in 1 .. n : longer[k] = seq[k]
           => Fold(p, q, base, longer) = Op(p, q, Fold(p, q, base, seq), longer[n + 1])
<1>0. ASSUME NEW s, NEW m \in Nat, DOMAIN s = 1 .. m
      PROVE  \E v : /\ v[0] = base
                    /\ \A k \in 1 .. m : v[k] = Op(p, q, v[k - 1], s[k])
                    /\ Fold(p, q, base, s) = v[m]
  <2>1. PICK result : result = Fold(p, q, base, s)
    OBVIOUS
  <2> QED BY <1>0, <2>1, FoldUnrolls
<1> SUFFICES ASSUME DOMAIN seq = 1 .. n,
                    DOMAIN longer = 1 .. (n + 1), \A k \in 1 .. n : longer[k] = seq[k]
             PROVE  Fold(p, q, base, longer) = Op(p, q, Fold(p, q, base, seq), longer[n + 1])
  OBVIOUS
<1>1. n \in Nat /\ DOMAIN seq = 1 .. n /\ n + 1 \in Nat /\ DOMAIN longer = 1 .. (n + 1)
      /\ \A k \in 1 .. n : longer[k] = seq[k]
  OBVIOUS
<1>2. PICK v : /\ v[0] = base
               /\ \A k \in 1 .. n : v[k] = Op(p, q, v[k - 1], seq[k])
               /\ Fold(p, q, base, seq) = v[n]
  BY <1>0, <1>1
<1>3. PICK w : /\ w[0] = base
               /\ \A k \in 1 .. (n + 1) : w[k] = Op(p, q, w[k - 1], longer[k])
               /\ Fold(p, q, base, longer) = w[n + 1]
  BY <1>0, <1>1
<1> DEFINE S == {k \in Nat : k <= n => v[k] = w[k]}
<1>4. 0 \in S
  BY <1>2, <1>3
<1>5. ASSUME NEW k \in Nat, k \in S PROVE k + 1 \in S
  <2> SUFFICES ASSUME k + 1 <= n PROVE v[k + 1] = w[k + 1]
    OBVIOUS
  <2>1. k + 1 \in 1 .. n /\ k + 1 \in 1 .. (n + 1) /\ (k + 1) - 1 = k /\ v[k] = w[k]
    BY <1>1, <1>5
  <2>2. v[k + 1] = Op(p, q, v[k], seq[k + 1]) /\ w[k + 1] = Op(p, q, w[k], longer[k + 1])
    BY <1>2, <1>3, <2>1
  <2> QED BY <1>1, <2>1, <2>2
<1> HIDE DEF S
<1>6. n \in S
  BY <1>1, <1>4, <1>5, NumberInduction
<1>7. v[n] = w[n]
  BY <1>1, <1>6 DEF S
<1>8. w[n + 1] = Op(p, q, w[n], longer[n + 1])
  <2>1. n + 1 \in 1 .. (n + 1) /\ (n + 1) - 1 = n
    BY <1>1
  <2>2. w[n + 1] = Op(p, q, w[n], longer[n + 1])
    BY <1>3, <2>1
  <2> QED BY <1>1, <2>2
<1> QED BY <1>2, <1>3, <1>7, <1>8

\* What holds at first, and after a step whenever it held before, holds of the
\* fold: J has the values allowed after each number of steps.
LEMMA FoldReaches ==
    ASSUME NEW p, NEW q, NEW base, NEW n \in Nat, NEW seq, DOMAIN seq = 1 .. n,
           NEW J, base \in J[0],
           \A k \in 1 .. n : \A done \in J[k - 1] : Op(p, q, done, seq[k]) \in J[k]
    PROVE  Fold(p, q, base, seq) \in J[n]
<1>1. n \in Nat /\ DOMAIN seq = 1 .. n
  OBVIOUS
<1>2. PICK v : /\ v[0] = base
               /\ \A k \in 1 .. n : v[k] = Op(p, q, v[k - 1], seq[k])
               /\ Fold(p, q, base, seq) = v[n]
  BY <1>1, FoldUnrolls
<1> DEFINE S == {k \in Nat : k <= n => v[k] \in J[k]}
<1>3. 0 \in S
  BY <1>2
<1>4. ASSUME NEW k \in Nat, k \in S PROVE k + 1 \in S
  <2> SUFFICES ASSUME k + 1 <= n PROVE v[k + 1] \in J[k + 1]
    OBVIOUS
  <2>1. k + 1 \in 1 .. n /\ (k + 1) - 1 = k /\ v[k] \in J[k]
    BY <1>4
  <2>2. v[k + 1] = Op(p, q, v[k], seq[k + 1])
    BY <1>2, <2>1
  <2> QED BY <2>1, <2>2
<1> HIDE DEF S
<1>5. n \in S
  BY <1>1, <1>3, <1>4, NumberInduction
<1> QED BY <1>1, <1>2, <1>5 DEF S

-----------------------------------------------------------------------------
(* The sum of a function over a finite set *)

Sum(size, set) == MapThenSumSet(LAMBDA x : size[x], set)

Pick(t) == CHOOSE x \in t : TRUE

\* The recursion of the sum, for the subsets of at most k elements.
Sums(size, set, k, g) ==
    \A t \in {u \in SUBSET set : Cardinality(u) <= k} :
        g[t] = IF t = {} THEN 0 ELSE size[Pick(t)] + g[t \ {Pick(t)}]

\* What is used of the subsets of a finite set.
LEMMA SubsetFacts ==
    ASSUME NEW set, IsFiniteSet(set), NEW t \in SUBSET set
    PROVE  /\ IsFiniteSet(t) /\ Cardinality(t) \in Nat /\ Cardinality(t) <= Cardinality(set)
           /\ Cardinality(set) \in Nat
           /\ (Cardinality(t) = 0) <=> (t = {})
           /\ \A x \in t : Cardinality(t \ {x}) = Cardinality(t) - 1
           /\ t # {} => Pick(t) \in t
<1>1. IsFiniteSet(t) /\ Cardinality(t) <= Cardinality(set)
  BY FS_Subset
<1>2. Cardinality(t) \in Nat /\ Cardinality(set) \in Nat /\ ((Cardinality(t) = 0) <=> (t = {}))
  BY <1>1, FS_CardinalityType, FS_EmptySet
<1>3. \A x \in t : Cardinality(t \ {x}) = Cardinality(t) - 1
  BY <1>1, FS_RemoveElement
<1>4. t # {} => Pick(t) \in t
  BY DEF Pick
<1> QED BY <1>1, <1>2, <1>3, <1>4

\* A function satisfies the recursion up to any number of elements.
LEMMA SumsUpTo ==
    ASSUME NEW size, NEW set, IsFiniteSet(set)
    PROVE  \A k \in Nat : \E g : Sums(size, set, k, g)
<1> DEFINE S == {k \in Nat : \E g : Sums(size, set, k, g)}
<1>2. 0 \in S
  <2> DEFINE g == [t \in SUBSET set |-> 0]
  <2>1. ASSUME NEW t \in SUBSET set, Cardinality(t) <= 0 PROVE t = {}
    BY <2>1, SubsetFacts
  <2>2. Sums(size, set, 0, g)
    BY <2>1 DEF Sums
  <2> QED BY <2>2
<1>3. ASSUME NEW k \in Nat, k \in S PROVE k + 1 \in S
  <2>1. PICK g : Sums(size, set, k, g)
    BY <1>3
  <2> DEFINE h == [t \in SUBSET set |-> IF t = {} THEN 0 ELSE size[Pick(t)] + g[t \ {Pick(t)}]]
  <2>2. \A t \in SUBSET set : Cardinality(t) <= k => h[t] = g[t]
    BY <2>1 DEF Sums
  <2>3. ASSUME NEW t \in SUBSET set, Cardinality(t) <= k + 1
        PROVE  h[t] = IF t = {} THEN 0 ELSE size[Pick(t)] + h[t \ {Pick(t)}]
    <3>1. CASE t = {}
      BY <3>1
    <3>2. CASE t # {}
      <4>1. t \ {Pick(t)} \in SUBSET set /\ Cardinality(t \ {Pick(t)}) <= k
        <5>1. Pick(t) \in t /\ Cardinality(t) \in Nat
              /\ Cardinality(t \ {Pick(t)}) = Cardinality(t) - 1
          BY <3>2, SubsetFacts
        <5> QED BY <2>3, <5>1
      <4>2. h[t \ {Pick(t)}] = g[t \ {Pick(t)}]
        BY <2>2, <4>1
      <4>3. h[t] = size[Pick(t)] + g[t \ {Pick(t)}]
        BY <3>2
      <4> HIDE DEF h
      <4> QED BY <3>2, <4>2, <4>3
    <3> QED BY <3>1, <3>2
  <2> HIDE DEF h
  <2>4. Sums(size, set, k + 1, h)
    BY <2>3 DEF Sums
  <2> QED BY <2>4
<1> HIDE DEF S
<1>4. Nat \subseteq S
  BY <1>2, <1>3, NumberInduction
<1> QED BY <1>4 DEF S

\* The sums of the subsets, each from that of a smaller one.
LEMMA SumUnrolls ==
    ASSUME NEW size, NEW set, IsFiniteSet(set)
    PROVE  \E g : Sums(size, set, Cardinality(set), g) /\ Sum(size, set) = g[set]
<1> DEFINE Iter(g) == g = [t \in SUBSET set |->
                              IF t = {} THEN 0 ELSE size[Pick(t)] + g[t \ {Pick(t)}]]
           iter == CHOOSE g : Iter(g)
<1>1. \E g : Iter(g)
  <2>1. PICK g : Sums(size, set, Cardinality(set), g)
    BY SumsUpTo, FS_CardinalityType
  <2> DEFINE h == [t \in SUBSET set |-> g[t]]
  <2>2. \A t \in SUBSET set : Cardinality(t) <= Cardinality(set)
    BY FS_Subset
  <2>3. h = [t \in SUBSET set |-> IF t = {} THEN 0 ELSE size[Pick(t)] + h[t \ {Pick(t)}]]
    <3>1. ASSUME NEW t \in SUBSET set
          PROVE  h[t] = IF t = {} THEN 0 ELSE size[Pick(t)] + h[t \ {Pick(t)}]
      <4>1. h[t] = g[t] /\ h[t \ {Pick(t)}] = g[t \ {Pick(t)}]
        OBVIOUS
      <4> QED BY <2>1, <2>2, <4>1 DEF Sums
    <3> QED BY <3>1
  <2> QED BY <2>3
<1>2. Iter(iter)
  BY <1>1
<1>3. Sum(size, set) = iter[set]
  BY DEF Sum, MapThenSumSet, MapThenFoldSet, Pick
<1> HIDE DEF iter
<1>4. Sums(size, set, Cardinality(set), iter)
  BY <1>2 DEF Sums
<1> QED BY <1>3, <1>4

\* Whatever element is chosen first, the sum is the same.
LEMMA SumsOfAny ==
    ASSUME NEW size, NEW set, IsFiniteSet(set), \A x \in set : size[x] \in Nat,
           NEW g, Sums(size, set, Cardinality(set), g)
    PROVE  \A t \in SUBSET set :
                g[t] \in Nat /\ \A c \in t : g[t] = g[t \ {c}] + size[c]
<1> DEFINE Good(t) == g[t] \in Nat /\ \A c \in t : g[t] = g[t \ {c}] + size[c]
           S == {k \in Nat : \A t \in SUBSET set : Cardinality(t) <= k => Good(t)}
<1>1. \A t \in SUBSET set : g[t] = IF t = {} THEN 0 ELSE size[Pick(t)] + g[t \ {Pick(t)}]
  BY SubsetFacts DEF Sums
<1>2. 0 \in S
  <2> SUFFICES ASSUME NEW t \in SUBSET set, Cardinality(t) <= 0 PROVE Good(t)
    OBVIOUS
  <2>1. t = {}
    BY SubsetFacts
  <2> QED BY <1>1, <2>1
<1>3. ASSUME NEW k \in Nat, k \in S PROVE k + 1 \in S
  <2> SUFFICES ASSUME NEW t \in SUBSET set, Cardinality(t) <= k + 1 PROVE Good(t)
    OBVIOUS
  <2>1. \A u \in SUBSET set : Cardinality(u) <= k => Good(u)
    BY <1>3
  <2>2. ASSUME NEW c \in t PROVE /\ t \ {c} \in SUBSET set /\ Cardinality(t \ {c}) <= k
                                 /\ \A d \in t \ {c} : Cardinality((t \ {c}) \ {d}) <= k
    <3>1. Cardinality(t) \in Nat /\ Cardinality(t \ {c}) = Cardinality(t) - 1
      BY SubsetFacts
    <3>2. ASSUME NEW d \in t \ {c} PROVE Cardinality((t \ {c}) \ {d}) <= k
      <4>1. Cardinality((t \ {c}) \ {d}) = Cardinality(t \ {c}) - 1
        BY SubsetFacts
      <4> QED BY <3>1, <4>1
    <3> QED BY <3>1, <3>2
  <2>3. CASE t = {}
    <3>1. g[t] = 0
      BY <1>1, <2>3
    <3> QED BY <2>3, <3>1
  <2>4. CASE t # {}
    <3> DEFINE x == Pick(t)
    <3>1. x \in t /\ size[x] \in Nat
      BY <2>4, SubsetFacts
    <3> HIDE DEF x
    <3>2. Good(t \ {x})
      BY <2>1, <2>2, <3>1
    <3>3. g[t] = size[x] + g[t \ {x}]
      BY <1>1, <2>4 DEF x
    <3>4. ASSUME NEW c \in t PROVE g[t] = g[t \ {c}] + size[c]
      <4>1. CASE c = x
        BY <3>1, <3>2, <3>3, <4>1
      <4>2. CASE c # x
        <5>1. c \in t \ {x} /\ x \in t \ {c} /\ (t \ {x}) \ {c} = (t \ {c}) \ {x}
          BY <3>1, <4>2
        <5>2. g[t \ {x}] = g[(t \ {c}) \ {x}] + size[c]
          BY <3>2, <5>1
        <5>3. Good(t \ {c})
          BY <2>1, <2>2
        <5>4. g[t \ {c}] = g[(t \ {c}) \ {x}] + size[x]
          BY <5>1, <5>3
        <5>5. g[(t \ {c}) \ {x}] \in Nat
          BY <2>1, <2>2, <5>1
        <5>6. size[c] \in Nat
          OBVIOUS
        <5> HIDE DEF Good, S
        <5> QED BY <3>1, <3>3, <5>2, <5>4, <5>5, <5>6
      <4> QED BY <4>1, <4>2
    <3>5. g[t] \in Nat
      BY <3>1, <3>2, <3>3
    <3> HIDE DEF S
    <3> QED BY <3>4, <3>5
  <2> QED BY <2>3, <2>4
<1> HIDE DEF S
<1>4. \A k \in Nat : k \in S
  BY <1>2, <1>3, NumberInduction
<1>5. ASSUME NEW t \in SUBSET set PROVE Good(t)
  <2>1. Cardinality(t) \in Nat /\ Cardinality(t) <= Cardinality(t)
    BY SubsetFacts
  <2> QED BY <1>4, <2>1 DEF S
<1> QED BY <1>5

\* The sum of natural numbers is one.
LEMMA SumNat ==
    ASSUME NEW size, NEW set, IsFiniteSet(set), \A x \in set : size[x] \in Nat
    PROVE  Sum(size, set) \in Nat
<1>1. PICK g : Sums(size, set, Cardinality(set), g) /\ Sum(size, set) = g[set]
  BY SumUnrolls
<1>2. \A t \in SUBSET set : g[t] \in Nat
  BY <1>1, SumsOfAny
<1> QED BY <1>1, <1>2

\* The sum over nothing is zero.
LEMMA SumEmpty ==
    ASSUME NEW size
    PROVE  Sum(size, {}) = 0
<1>1. IsFiniteSet({})
  BY FS_EmptySet
<1>2. PICK g : Sums(size, {}, Cardinality({}), g) /\ Sum(size, {}) = g[{}]
  BY <1>1, SumUnrolls
<1>3. Cardinality({}) = 0
  BY FS_EmptySet
<1> QED BY <1>2, <1>3 DEF Sums

\* One element more adds to the sum.
LEMMA SumAdd ==
    ASSUME NEW size, NEW set, IsFiniteSet(set), \A y \in set : size[y] \in Nat,
           NEW x, x \notin set, size[x] \in Nat
    PROVE  Sum(size, set) \in Nat /\ Sum(size, set \cup {x}) = Sum(size, set) + size[x]
<1> DEFINE larger == set \cup {x}
<1>1. IsFiniteSet(larger) /\ \A y \in larger : size[y] \in Nat
  BY FS_AddElement
<1>2. PICK h : Sums(size, set, Cardinality(set), h) /\ Sum(size, set) = h[set]
  BY SumUnrolls
<1>3. PICK g : Sums(size, larger, Cardinality(larger), g) /\ Sum(size, larger) = g[larger]
  BY <1>1, SumUnrolls
<1>4. \A t \in SUBSET set : h[t] \in Nat /\ \A c \in t : h[t] = h[t \ {c}] + size[c]
  BY <1>2, SumsOfAny
<1>5. \A t \in SUBSET larger : g[t] \in Nat /\ \A c \in t : g[t] = g[t \ {c}] + size[c]
  BY <1>1, <1>3, SumsOfAny
<1>6. g[{}] = 0 /\ h[{}] = 0
  <2>1. Cardinality({}) = 0 /\ Cardinality(set) \in Nat /\ Cardinality(larger) \in Nat
    BY <1>1, FS_EmptySet, FS_CardinalityType
  <2>2. Cardinality({}) <= Cardinality(set) /\ Cardinality({}) <= Cardinality(larger)
    BY <2>1
  <2> QED BY <1>2, <1>3, <2>2 DEF Sums
<1> DEFINE S == {k \in Nat : \A t \in SUBSET set : Cardinality(t) <= k => g[t] = h[t]}
<1>7. 0 \in S
  <2> SUFFICES ASSUME NEW t \in SUBSET set, Cardinality(t) <= 0 PROVE g[t] = h[t]
    OBVIOUS
  <2>1. t = {}
    BY SubsetFacts
  <2> QED BY <1>6, <2>1
<1>8. ASSUME NEW k \in Nat, k \in S PROVE k + 1 \in S
  <2> SUFFICES ASSUME NEW t \in SUBSET set, Cardinality(t) <= k + 1 PROVE g[t] = h[t]
    OBVIOUS
  <2>1. CASE t = {}
    BY <1>6, <2>1
  <2>2. CASE t # {}
    <3>1. PICK c \in t : TRUE
      BY <2>2
    <3>2. t \ {c} \in SUBSET set /\ Cardinality(t \ {c}) <= k
      <4>1. Cardinality(t) \in Nat /\ Cardinality(t \ {c}) = Cardinality(t) - 1
        BY <3>1, SubsetFacts
      <4> QED BY <4>1
    <3>3. g[t \ {c}] = h[t \ {c}]
      BY <1>8, <3>2
    <3>4. g[t] = g[t \ {c}] + size[c] /\ h[t] = h[t \ {c}] + size[c]
      BY <1>4, <1>5, <3>1
    <3> QED BY <3>3, <3>4
  <2> QED BY <2>1, <2>2
<1> HIDE DEF S, larger
<1>9. \A k \in Nat : k \in S
  BY <1>7, <1>8, NumberInduction
<1>10. g[set] = h[set]
  <2>1. Cardinality(set) \in Nat /\ Cardinality(set) <= Cardinality(set)
    BY FS_CardinalityType
  <2> QED BY <1>9, <2>1 DEF S
<1>11. g[larger] = g[set] + size[x]
  <2>1. larger \ {x} = set /\ x \in larger
    BY DEF larger
  <2> QED BY <1>5, <2>1
<1>12. h[set] \in Nat
  BY <1>4
<1> QED BY <1>2, <1>3, <1>10, <1>11, <1>12 DEF larger
=============================================================================
