---------------------------- MODULE DraftRunProofs ----------------------------
(***************************************************************************)
(* What holds of the content of a run for any template, any source, any    *)
(* figures and whatever the providers and the reviewer answer: the         *)
(* invariant of DraftRunInvariant, and of the properties of DraftRun the   *)
(* three that the passes over the document decide.                         *)
(***************************************************************************)
EXTENDS DraftRunInvariant, FiniteSetTheorems, TLAPS

AnyStep(p, q, done, next) == done
Numbers == INSTANCE FoldTheorems WITH Op <- AnyStep

-----------------------------------------------------------------------------
(* Sequences, of whatever they hold *)

\* A sequence is a function on the numbers up to its length.
LEMMA SeqFacts ==
  ASSUME NEW s, IsSeq(s)
  PROVE  /\ Len(s) \in Nat
         /\ DOMAIN s = 1 .. Len(s)
         /\ s = [i \in 1 .. Len(s) |-> s[i]]
         /\ \A i \in 1 .. Len(s) : s[i] \in ToSet(s)
         /\ \A x \in ToSet(s) : \E i \in 1 .. Len(s) : s[i] = x
<1>1. Len(s) \in Nat /\ DOMAIN s = 1 .. Len(s) /\ s = [i \in 1 .. Len(s) |-> s[i]]
  BY DEF IsSeq
<1> QED BY <1>1 DEF ToSet

\* A function on the numbers up to n is a sequence.
LEMMA FunctionIsSeq ==
  ASSUME NEW n \in Nat, NEW s, s = [i \in 1 .. n |-> s[i]]
  PROVE  IsSeq(s) /\ Len(s) = n
<1> DEFINE T == ToSet(s)
<1>1. DOMAIN s = 1 .. n
  OBVIOUS
<1>2. \A i \in 1 .. n : s[i] \in T
  BY <1>1 DEF ToSet
<1> HIDE DEF T
<1>3. s \in [1 .. n -> T]
  BY <1>2
<1>4. s \in Seq(T) /\ Len(s) = n
  BY <1>3
<1> QED BY <1>4 DEF IsSeq, T

\* A sequence of elements of a set is a sequence.
LEMMA SeqIsSeq ==
  ASSUME NEW S, NEW s \in Seq(S)
  PROVE  IsSeq(s) /\ ToSet(s) \subseteq S
<1>1. s = [i \in 1 .. Len(s) |-> s[i]] /\ Len(s) \in Nat
  OBVIOUS
<1> QED BY <1>1, FunctionIsSeq DEF ToSet

\* The empty sequence.
LEMMA EmptyIsSeq ==
  IsSeq(<<>>) /\ ToSet(<<>>) = {} /\ Len(<<>>) = 0
BY DEF IsSeq, ToSet

\* A sequence of one element.
LEMMA OneFacts ==
  ASSUME NEW x
  PROVE  IsSeq(<<x>>) /\ ToSet(<<x>>) = {x} /\ Len(<<x>>) = 1
BY DEF IsSeq, ToSet

\* A sequence without elements is empty.
LEMMA NothingInIt ==
  ASSUME NEW s, IsSeq(s), ToSet(s) = {}
  PROVE  s = <<>>
<1>1. Len(s) = 0
  BY SeqFacts
<1> QED BY <1>1 DEF IsSeq

\* One sequence behind the other.
LEMMA ConcatFacts ==
  ASSUME NEW s, NEW t, IsSeq(s), IsSeq(t)
  PROVE  /\ IsSeq(s \o t)
         /\ Len(s \o t) = Len(s) + Len(t)
         /\ ToSet(s \o t) = ToSet(s) \cup ToSet(t)
         /\ \A i \in 1 .. Len(s) : (s \o t)[i] = s[i]
         /\ \A i \in 1 .. Len(t) : (s \o t)[Len(s) + i] = t[i]
<1> DEFINE S == ToSet(s) \cup ToSet(t)
           c == s \o t
<1>1. s \in Seq(S) /\ t \in Seq(S)
  BY DEF IsSeq
<1> HIDE DEF S
<1>2. c \in Seq(S) /\ Len(c) = Len(s) + Len(t)
  BY <1>1
<1>3. /\ \A i \in 1 .. Len(s) : c[i] = s[i]
      /\ \A i \in 1 .. Len(t) : c[Len(s) + i] = t[i]
  BY <1>1
<1>4. \A i \in 1 .. Len(c) : i \in 1 .. Len(s) \/ (i - Len(s) \in 1 .. Len(t) /\ i = Len(s) + (i - Len(s)))
  BY <1>1, <1>2
<1>5. \A i \in 1 .. Len(s) : i \in 1 .. Len(c)
  BY <1>1, <1>2
<1>6. \A i \in 1 .. Len(t) : Len(s) + i \in 1 .. Len(c)
  BY <1>1, <1>2
<1>7. IsSeq(c)
  BY <1>2, SeqIsSeq
<1> HIDE DEF c
<1>8. /\ DOMAIN c = 1 .. Len(c) /\ DOMAIN s = 1 .. Len(s) /\ DOMAIN t = 1 .. Len(t)
  BY <1>7, SeqFacts
<1>9. ToSet(c) \subseteq ToSet(s) \cup ToSet(t)
  <2> SUFFICES ASSUME NEW i \in 1 .. Len(c) PROVE c[i] \in ToSet(s) \cup ToSet(t)
    BY <1>8 DEF ToSet
  <2>1. CASE i \in 1 .. Len(s)
    <3>1. c[i] = s[i]
      BY <1>3, <2>1
    <3> QED BY <1>8, <2>1, <3>1 DEF ToSet
  <2>2. CASE i - Len(s) \in 1 .. Len(t) /\ i = Len(s) + (i - Len(s))
    <3>1. c[Len(s) + (i - Len(s))] = t[i - Len(s)]
      BY <1>3, <2>2
    <3>2. c[i] = t[i - Len(s)]
      BY <2>2, <3>1
    <3> QED BY <1>8, <2>2, <3>2 DEF ToSet
  <2> QED BY <1>4, <2>1, <2>2
<1>10. ToSet(s) \cup ToSet(t) \subseteq ToSet(c)
  BY <1>3, <1>5, <1>6, <1>8 DEF ToSet
<1> QED BY <1>2, <1>3, <1>7, <1>9, <1>10 DEF c

\* One element more.
LEMMA AppendFacts ==
  ASSUME NEW s, NEW x, IsSeq(s)
  PROVE  /\ IsSeq(Append(s, x))
         /\ Len(Append(s, x)) = Len(s) + 1
         /\ ToSet(Append(s, x)) = ToSet(s) \cup {x}
         /\ \A i \in 1 .. Len(s) : Append(s, x)[i] = s[i]
         /\ Append(s, x)[Len(s) + 1] = x
<1>1. Append(s, x) = s \o <<x>>
  BY DEF IsSeq
<1>2. <<x>>[1] = x /\ 1 \in 1 .. Len(<<x>>)
  OBVIOUS
<1> QED BY <1>1, <1>2, OneFacts, ConcatFacts

\* A part of a sequence.
LEMMA PartFacts ==
  ASSUME NEW s, IsSeq(s), NEW m \in 1 .. (Len(s) + 1), NEW n \in 0 .. Len(s)
  PROVE  /\ IsSeq(SubSeq(s, m, n))
         /\ \A x \in ToSet(SubSeq(s, m, n)) : \E i \in m .. n : x = s[i]
         /\ \A i \in m .. n : s[i] \in ToSet(SubSeq(s, m, n))
<1>0. Len(s) \in Nat /\ DOMAIN s = 1 .. Len(s)
  BY SeqFacts
<1> DEFINE k == IF m <= n THEN n - m + 1 ELSE 0
           p == SubSeq(s, m, n)
<1>1. k \in Nat
  BY <1>0
<1>2. p = [i \in 1 .. k |-> s[i + m - 1]]
  BY <1>0 DEF IsSeq
<1>3. p = [i \in 1 .. k |-> p[i]]
  BY <1>2
<1>4. IsSeq(p) /\ Len(p) = k
  BY <1>1, <1>3, FunctionIsSeq
<1>5. DOMAIN p = 1 .. k /\ \A i \in 1 .. k : p[i] = s[i + m - 1]
  BY <1>2
<1>6. \A i \in 1 .. k : i + m - 1 \in m .. n
  BY <1>0
<1>7. \A i \in m .. n : i - m + 1 \in 1 .. k /\ (i - m + 1) + m - 1 = i
  BY <1>0
<1>8. \A i \in m .. n : s[i] = p[i - m + 1]
  BY <1>5, <1>7
<1> HIDE DEF k, p
<1>9. \A x \in ToSet(p) : \E i \in m .. n : x = s[i]
  BY <1>5, <1>6 DEF ToSet
<1>10. ASSUME NEW i \in m .. n PROVE s[i] \in ToSet(p)
  <2>1. i - m + 1 \in 1 .. k /\ s[i] = p[i - m + 1]
    BY <1>7, <1>8
  <2> QED BY <1>5, <2>1 DEF ToSet
<1> QED BY <1>4, <1>9, <1>10 DEF k, p

\* One element less.
LEMMA RemoveFacts ==
  ASSUME NEW s, IsSeq(s), NEW i \in 1 .. Len(s)
  PROVE  /\ IsSeq(RemoveAt(s, i))
         /\ ToSet(RemoveAt(s, i)) \subseteq ToSet(s)
         /\ \A x \in ToSet(s) : x = s[i] \/ x \in ToSet(RemoveAt(s, i))
<1>0. Len(s) \in Nat /\ \A j \in 1 .. Len(s) : s[j] \in ToSet(s)
  BY SeqFacts
<1> DEFINE before == SubSeq(s, 1, i - 1)
           after == SubSeq(s, i + 1, Len(s))
<1>1. /\ 1 \in 1 .. (Len(s) + 1) /\ i - 1 \in 0 .. Len(s)
      /\ i + 1 \in 1 .. (Len(s) + 1) /\ Len(s) \in 0 .. Len(s)
  BY <1>0
<1>2. /\ IsSeq(before)
      /\ \A x \in ToSet(before) : \E j \in 1 .. (i - 1) : x = s[j]
      /\ \A j \in 1 .. (i - 1) : s[j] \in ToSet(before)
  BY <1>1, PartFacts
<1>3. /\ IsSeq(after)
      /\ \A x \in ToSet(after) : \E j \in (i + 1) .. Len(s) : x = s[j]
      /\ \A j \in (i + 1) .. Len(s) : s[j] \in ToSet(after)
  BY <1>1, PartFacts
<1> HIDE DEF before, after
<1>4. IsSeq(before \o after) /\ ToSet(before \o after) = ToSet(before) \cup ToSet(after)
  BY <1>2, <1>3, ConcatFacts
<1>5. ToSet(before) \cup ToSet(after) \subseteq ToSet(s)
  <2>1. ASSUME NEW y \in ToSet(before) PROVE y \in ToSet(s)
    BY <1>0, <1>2
  <2>2. ASSUME NEW y \in ToSet(after) PROVE y \in ToSet(s)
    BY <1>0, <1>3
  <2> QED BY <2>1, <2>2
<1>6. ASSUME NEW x \in ToSet(s), x # s[i] PROVE x \in ToSet(before) \cup ToSet(after)
  <2>1. PICK j \in 1 .. Len(s) : x = s[j]
    BY SeqFacts
  <2>2. j \in 1 .. (i - 1) \/ j \in (i + 1) .. Len(s)
    BY <1>0, <1>6, <2>1
  <2> QED BY <1>2, <1>3, <2>1, <2>2
<1>7. RemoveAt(s, i) = before \o after
  BY DEF RemoveAt, before, after
<1> QED BY <1>4, <1>5, <1>6, <1>7

\* One element more, anywhere.
LEMMA InsertFacts ==
  ASSUME NEW s, IsSeq(s), NEW i \in 1 .. (Len(s) + 1), NEW x
  PROVE  IsSeq(InsertAt(s, i, x)) /\ ToSet(InsertAt(s, i, x)) = ToSet(s) \cup {x}
<1>0. Len(s) \in Nat /\ \A j \in 1 .. Len(s) : s[j] \in ToSet(s)
  BY SeqFacts
<1> DEFINE before == SubSeq(s, 1, i - 1)
           after == SubSeq(s, i, Len(s))
<1>1. 1 \in 1 .. (Len(s) + 1) /\ i - 1 \in 0 .. Len(s) /\ Len(s) \in 0 .. Len(s)
  BY <1>0
<1>2. /\ IsSeq(before)
      /\ \A y \in ToSet(before) : \E j \in 1 .. (i - 1) : y = s[j]
      /\ \A j \in 1 .. (i - 1) : s[j] \in ToSet(before)
  BY <1>1, PartFacts
<1>3. /\ IsSeq(after)
      /\ \A y \in ToSet(after) : \E j \in i .. Len(s) : y = s[j]
      /\ \A j \in i .. Len(s) : s[j] \in ToSet(after)
  BY <1>1, PartFacts
<1> HIDE DEF before, after
<1>4. IsSeq(before \o <<x>>) /\ ToSet(before \o <<x>>) = ToSet(before) \cup {x}
  BY <1>2, ConcatFacts, OneFacts
<1>5. /\ IsSeq((before \o <<x>>) \o after)
      /\ ToSet((before \o <<x>>) \o after) = ToSet(before \o <<x>>) \cup ToSet(after)
  BY <1>3, <1>4, ConcatFacts
<1>6. ToSet(before) \cup ToSet(after) \subseteq ToSet(s)
  <2>1. ASSUME NEW y \in ToSet(before) PROVE y \in ToSet(s)
    BY <1>0, <1>2
  <2>2. ASSUME NEW y \in ToSet(after) PROVE y \in ToSet(s)
    BY <1>0, <1>3
  <2> QED BY <2>1, <2>2
<1>7. ASSUME NEW y \in ToSet(s) PROVE y \in ToSet(before) \cup ToSet(after)
  <2>1. PICK j \in 1 .. Len(s) : y = s[j]
    BY SeqFacts
  <2>2. j \in 1 .. (i - 1) \/ j \in i .. Len(s)
    BY <1>0, <2>1
  <2> QED BY <1>2, <1>3, <2>1, <2>2
<1>8. InsertAt(s, i, x) = (before \o <<x>>) \o after
  BY DEF InsertAt, before, after
<1> QED BY <1>4, <1>5, <1>6, <1>7, <1>8

\* One element for another.
LEMMA ReplaceFacts ==
  ASSUME NEW s, IsSeq(s), NEW i \in 1 .. Len(s), NEW x
  PROVE  /\ IsSeq(ReplaceAt(s, i, x))
         /\ ToSet(ReplaceAt(s, i, x)) \subseteq ToSet(s) \cup {x}
         /\ \A y \in ToSet(s) : y = s[i] \/ y \in ToSet(ReplaceAt(s, i, x))
<1> DEFINE r == ReplaceAt(s, i, x)
<1>0. Len(s) \in Nat /\ DOMAIN s = 1 .. Len(s) /\ s = [j \in 1 .. Len(s) |-> s[j]]
  BY SeqFacts
<1>1. r = [j \in 1 .. Len(s) |-> IF j = i THEN x ELSE s[j]]
  BY <1>0 DEF ReplaceAt
<1>2. r = [j \in 1 .. Len(s) |-> r[j]]
  BY <1>1
<1>3. IsSeq(r) /\ Len(r) = Len(s)
  BY <1>0, <1>2, FunctionIsSeq
<1> QED BY <1>0, <1>1, <1>3 DEF ToSet

\* Selection is defined for every sequence: each prefix has its own selection.
LEMMA SelectionUnrolls ==
  ASSUME NEW s, IsSeq(s), NEW P
  PROVE  \E v : /\ v[0] = <<>>
                /\ \A n \in 1 .. Len(s) :
                     v[n] = IF n \in P THEN Append(v[n - 1], s[n]) ELSE v[n - 1]
                /\ Selection(s, P) = v[Len(s)]
<1> DEFINE Rec(v) == v = [n \in 0 .. Len(s) |->
                            IF n = 0 THEN <<>>
                            ELSE IF n \in P THEN Append(v[n - 1], s[n]) ELSE v[n - 1]]
           UpTo(k, v) == /\ v[0] = <<>>
                         /\ \A n \in 1 .. k : v[n] = IF n \in P THEN Append(v[n - 1], s[n]) ELSE v[n - 1]
           S == {k \in Nat : k <= Len(s) => \E v : UpTo(k, v)}
<1>0. Len(s) \in Nat
  BY SeqFacts
<1>1. 0 \in S
  <2>1. UpTo(0, [n \in {0} |-> <<>>])
    OBVIOUS
  <2> QED BY <2>1
<1>2. ASSUME NEW k \in Nat, k \in S PROVE k + 1 \in S
  <2> SUFFICES ASSUME k + 1 <= Len(s) PROVE \E v : UpTo(k + 1, v)
    BY <1>0
  <2>1. PICK v : UpTo(k, v)
    BY <1>0, <1>2
  <2> DEFINE w == [n \in 0 .. (k + 1) |->
                     IF n <= k THEN v[n] ELSE IF n \in P THEN Append(v[n - 1], s[n]) ELSE v[n - 1]]
  <2>2. w[0] = <<>>
    BY <2>1
  <2>3. ASSUME NEW n \in 1 .. (k + 1)
        PROVE  w[n] = IF n \in P THEN Append(w[n - 1], s[n]) ELSE w[n - 1]
    <3>1. w[n - 1] = v[n - 1]
      OBVIOUS
    <3>2. CASE n <= k
      <4>1. n \in 1 .. k /\ w[n] = v[n]
        BY <3>2
      <4> QED BY <2>1, <3>1, <4>1
    <3>3. CASE n = k + 1
      <4>1. w[n] = IF n \in P THEN Append(v[n - 1], s[n]) ELSE v[n - 1]
        BY <3>3
      <4> HIDE DEF w
      <4> QED BY <3>1, <4>1
    <3> QED BY <3>2, <3>3
  <2> HIDE DEF w
  <2>4. UpTo(k + 1, w)
    BY <2>2, <2>3
  <2> QED BY <2>4
<1> HIDE DEF S
<1>3. Nat \subseteq S
  BY <1>1, <1>2, Numbers!NumberInduction
<1>4. PICK u : UpTo(Len(s), u)
  BY <1>0, <1>3 DEF S
<1> DEFINE w == [n \in 0 .. Len(s) |-> u[n]]
<1>5. Rec(w)
  <2>1. ASSUME NEW n \in 0 .. Len(s)
        PROVE  w[n] = IF n = 0 THEN <<>>
                      ELSE IF n \in P THEN Append(w[n - 1], s[n]) ELSE w[n - 1]
    <3>1. CASE n = 0
      BY <1>4, <3>1
    <3>2. CASE n # 0
      <4>1. n \in 1 .. Len(s) /\ w[n - 1] = u[n - 1] /\ w[n] = u[n]
        BY <1>0, <3>2
      <4> HIDE DEF w
      <4> QED BY <1>4, <3>2, <4>1
    <3> QED BY <3>1, <3>2
  <2>2. w = [n \in 0 .. Len(s) |-> w[n]]
    OBVIOUS
  <2> HIDE DEF w
  <2> QED BY <2>1, <2>2
<1> DEFINE taken == CHOOSE v : Rec(v)
<1> HIDE DEF w
<1>6. Rec(taken)
  BY <1>5
<1>7. Selection(s, P) = taken[Len(s)]
  BY DEF Selection
<1> HIDE DEF taken
<1>8. taken[0] = <<>> /\ \A n \in 1 .. Len(s) :
                     taken[n] = IF n \in P THEN Append(taken[n - 1], s[n]) ELSE taken[n - 1]
  <2>1. \A n \in 0 .. Len(s) :
           taken[n] = IF n = 0 THEN <<>>
                      ELSE IF n \in P THEN Append(taken[n - 1], s[n]) ELSE taken[n - 1]
    BY <1>6, Zenon
  <2>2. 0 \in 0 .. Len(s) /\ \A n \in 1 .. Len(s) : n \in 0 .. Len(s) /\ n # 0
    BY <1>0
  <2> QED BY <2>1, <2>2
<1> QED BY <1>7, <1>8

\* A selection has the elements at these positions, each once and no others: it
\* leads each of its own positions to one of them.
LEMMA SelectionFacts ==
  ASSUME NEW s, IsSeq(s), NEW P
  PROVE  /\ IsSeq(Selection(s, P))
         /\ \A x \in ToSet(Selection(s, P)) : \E i \in P \cap (1 .. Len(s)) : x = s[i]
         /\ \A i \in P \cap (1 .. Len(s)) : s[i] \in ToSet(Selection(s, P))
         /\ \E e : /\ \A n \in 1 .. Len(Selection(s, P)) :
                        e[n] \in P \cap (1 .. Len(s)) /\ Selection(s, P)[n] = s[e[n]]
                   /\ \A n, m \in 1 .. Len(Selection(s, P)) : e[n] = e[m] => n = m
<1> DEFINE Q(k) == P \cap (1 .. k)
           Leads(k, t, e) == /\ \A n \in 1 .. Len(t) : e[n] \in Q(k) /\ t[n] = s[e[n]]
                             /\ \A n, m \in 1 .. Len(t) : e[n] = e[m] => n = m
           Good(k, t) == /\ IsSeq(t)
                         /\ \A x \in ToSet(t) : \E i \in Q(k) : x = s[i]
                         /\ \A i \in Q(k) : s[i] \in ToSet(t)
                         /\ \E e : Leads(k, t, e)
<1>0. Len(s) \in Nat
  BY SeqFacts
<1>1. PICK v : /\ v[0] = <<>>
               /\ \A n \in 1 .. Len(s) :
                     v[n] = IF n \in P THEN Append(v[n - 1], s[n]) ELSE v[n - 1]
               /\ Selection(s, P) = v[Len(s)]
  BY SelectionUnrolls
<1> DEFINE S == {k \in Nat : k <= Len(s) => Good(k, v[k])}
<1>2. 0 \in S
  <2>1. Leads(0, <<>>, <<>>)
    OBVIOUS
  <2>2. Q(0) = {}
    OBVIOUS
  <2> HIDE DEF Leads
  <2>3. Good(0, <<>>)
    BY <2>1, <2>2, EmptyIsSeq
  <2> HIDE DEF Good
  <2> QED BY <1>1, <2>3
<1>3. ASSUME NEW k \in Nat, k \in S PROVE k + 1 \in S
  <2> SUFFICES ASSUME k + 1 <= Len(s) PROVE Good(k + 1, v[k + 1])
    BY <1>0
  <2> DEFINE t == v[k]
  <2>1. Good(k, t)
    BY <1>0, <1>3
  <2>2. PICK e : Leads(k, t, e)
    BY <2>1
  <2>3. k + 1 \in 1 .. Len(s) /\ (k + 1) - 1 = k /\ Q(k) \subseteq Q(k + 1)
    BY <1>0
  <2>4. CASE k + 1 \notin P
    <3>1. v[k + 1] = t
      BY <1>1, <2>3, <2>4
    <3>2. Q(k + 1) = Q(k)
      BY <2>4
    <3> HIDE DEF Q, t
    <3>3. Leads(k + 1, t, e)
      BY <2>2, <3>2
    <3>4. Good(k + 1, t)
      BY <2>1, <3>2, <3>3, Zenon
    <3> QED BY <3>1, <3>4
  <2>5. CASE k + 1 \in P
    <3> DEFINE r == Append(t, s[k + 1])
    <3>1. v[k + 1] = r
      BY <1>1, <2>3, <2>5
    <3> HIDE DEF t
    <3>2. Len(t) \in Nat
      BY <2>1, SeqFacts
    <3>3. /\ IsSeq(r) /\ Len(r) = Len(t) + 1 /\ ToSet(r) = ToSet(t) \cup {s[k + 1]}
          /\ \A i \in 1 .. Len(t) : r[i] = t[i]
          /\ r[Len(t) + 1] = s[k + 1]
      BY <2>1, AppendFacts
    <3> HIDE DEF r
    <3>4. Q(k + 1) = Q(k) \cup {k + 1} /\ k + 1 \notin Q(k)
      BY <2>5
    <3> DEFINE f == [n \in 1 .. Len(r) |-> IF n <= Len(t) THEN e[n] ELSE k + 1]
    <3>5. /\ \A n \in 1 .. Len(t) : f[n] = e[n] /\ n \in 1 .. Len(r)
          /\ f[Len(t) + 1] = k + 1
          /\ \A n \in 1 .. Len(r) : n \in 1 .. Len(t) \/ n = Len(t) + 1
      BY <3>2, <3>3
    <3> HIDE DEF f, Q
    <3>6. Leads(k + 1, r, f)
      <4>1. ASSUME NEW n \in 1 .. Len(r) PROVE f[n] \in Q(k + 1) /\ r[n] = s[f[n]]
        BY <2>2, <3>3, <3>4, <3>5
      <4>2. ASSUME NEW n \in 1 .. Len(r), NEW m \in 1 .. Len(r), f[n] = f[m] PROVE n = m
        BY <2>2, <3>4, <3>5, <4>2
      <4> QED BY <4>1, <4>2
    <3> HIDE DEF Leads
    <3>7. Good(k + 1, r)
      BY <2>1, <3>3, <3>4, <3>6 DEF t
    <3> QED BY <3>1, <3>7
  <2> QED BY <2>4, <2>5
<1> HIDE DEF S
<1>4. Nat \subseteq S
  BY <1>2, <1>3, Numbers!NumberInduction
<1> HIDE DEF Good
<1>5. Good(Len(s), v[Len(s)])
  BY <1>0, <1>4 DEF S
<1> DEFINE t == Selection(s, P)
<1>6. Good(Len(s), t)
  BY <1>1, <1>5
<1> HIDE DEF t
<1>7. PICK e : Leads(Len(s), t, e)
  BY <1>6 DEF Good
<1> QED BY <1>6, <1>7, Zenon DEF Good, t

\* A selection of distinct elements has distinct elements.
LEMMA SelectionInjective ==
  ASSUME NEW s, IsSeq(s), IsInjective(s), NEW P
  PROVE  IsInjective(Selection(s, P))
<1> DEFINE t == Selection(s, P)
<1>1. DOMAIN s = 1 .. Len(s)
  BY SeqFacts
<1>2. IsSeq(t)
  BY SelectionFacts
<1>3. DOMAIN t = 1 .. Len(t)
  BY <1>2, SeqFacts
<1>4. PICK e : /\ \A n \in 1 .. Len(t) : e[n] \in P \cap (1 .. Len(s)) /\ t[n] = s[e[n]]
               /\ \A n, m \in 1 .. Len(t) : e[n] = e[m] => n = m
  BY SelectionFacts
<1> HIDE DEF t
<1>5. \A n, m \in 1 .. Len(t) : t[n] = t[m] => n = m
  BY <1>1, <1>4 DEF IsInjective
<1> QED BY <1>3, <1>5 DEF IsInjective, t

\* A selection of no positions is empty.
LEMMA SelectionEmpty ==
  ASSUME NEW s, IsSeq(s), NEW P, P \cap (1 .. Len(s)) = {}
  PROVE  Selection(s, P) = <<>>
<1>1. ToSet(Selection(s, P)) = {}
  BY SelectionFacts
<1> QED BY <1>1, SelectionFacts, NothingInIt

\* Flattening is defined for every sequence of sequences, and has their elements.
LEMMA FlattenFacts ==
  ASSUME NEW s, IsSeq(s), \A i \in 1 .. Len(s) : IsSeq(s[i])
  PROVE  /\ IsSeq(FlattenSeq(s))
         /\ \A x \in ToSet(FlattenSeq(s)) : \E i \in 1 .. Len(s) : x \in ToSet(s[i])
         /\ \A i \in 1 .. Len(s) : ToSet(s[i]) \subseteq ToSet(FlattenSeq(s))
<1> DEFINE N == Len(s)
           Rec(v) == v = [i \in 1 .. N |-> IF i = 1 THEN s[i] ELSE v[i - 1] \o s[i]]
           UpTo(k, v) == \A i \in 1 .. k : v[i] = IF i = 1 THEN s[i] ELSE v[i - 1] \o s[i]
           S == {k \in Nat : \E v : UpTo(k, v)}
           Good(k, t) == /\ IsSeq(t)
                         /\ \A x \in ToSet(t) : \E i \in 1 .. k : x \in ToSet(s[i])
                         /\ \A i \in 1 .. k : ToSet(s[i]) \subseteq ToSet(t)
<1>0. N \in Nat
  BY SeqFacts
<1>1. CASE N = 0
  <2>1. FlattenSeq(s) = s
    BY <1>1 DEF FlattenSeq
  <2>2. s = <<>>
    BY <1>1 DEF IsSeq
  <2> QED BY <1>1, <2>1, <2>2, EmptyIsSeq
<1>2. CASE N # 0
  <2>1. 0 \in S
    OBVIOUS
  <2>2. ASSUME NEW k \in Nat, k \in S PROVE k + 1 \in S
    <3>1. PICK v : UpTo(k, v)
      BY <2>2
    <3> DEFINE w == [i \in 1 .. (k + 1) |->
                       IF i <= k THEN v[i] ELSE IF i = 1 THEN s[i] ELSE v[i - 1] \o s[i]]
    <3>2. ASSUME NEW i \in 1 .. (k + 1) PROVE w[i] = IF i = 1 THEN s[i] ELSE w[i - 1] \o s[i]
      <4>1. CASE i <= k
        <5>1. i \in 1 .. k /\ w[i] = v[i] /\ (i # 1 => w[i - 1] = v[i - 1])
          BY <4>1
        <5> HIDE DEF w
        <5> QED BY <3>1, <5>1
      <4>2. CASE i = k + 1
        <5>1. w[i] = (IF i = 1 THEN s[i] ELSE v[i - 1] \o s[i]) /\ (i # 1 => w[i - 1] = v[i - 1])
          BY <4>2
        <5> HIDE DEF w
        <5> QED BY <5>1
      <4> QED BY <4>1, <4>2
    <3> HIDE DEF w
    <3> QED BY <3>2
  <2> HIDE DEF S
  <2>3. Nat \subseteq S
    BY <2>1, <2>2, Numbers!NumberInduction
  <2>4. PICK u : UpTo(N, u)
    BY <1>0, <2>3 DEF S
  <2> DEFINE w == [i \in 1 .. N |-> u[i]]
  <2>5. Rec(w)
    <3>1. ASSUME NEW i \in 1 .. N PROVE w[i] = IF i = 1 THEN s[i] ELSE w[i - 1] \o s[i]
      <4>1. w[i] = u[i] /\ (i # 1 => w[i - 1] = u[i - 1])
        BY <1>0
      <4> HIDE DEF w
      <4> QED BY <2>4, <4>1
    <3>2. w = [i \in 1 .. N |-> w[i]]
      OBVIOUS
    <3> HIDE DEF w
    <3> QED BY <3>1, <3>2
  <2> DEFINE flat == CHOOSE v : Rec(v)
  <2> HIDE DEF w
  <2>6. Rec(flat)
    BY <2>5
  <2>7. FlattenSeq(s) = flat[N]
    BY <1>2 DEF FlattenSeq
  <2> HIDE DEF flat
  <2> DEFINE G == {k \in Nat : k + 1 <= N => Good(k + 1, flat[k + 1])}
  <2>8. 0 \in G
    <3>1. 1 \in 1 .. N
      BY <1>0, <1>2
    <3>2. flat[1] = s[1] /\ IsSeq(s[1])
      BY <2>6, <3>1
    <3>3. Good(1, flat[1])
      BY <3>2
    <3> QED BY <3>3
  <2>9. ASSUME NEW k \in Nat, k \in G PROVE k + 1 \in G
    <3> DEFINE n == k + 1
    <3> SUFFICES ASSUME n + 1 <= N PROVE Good(n + 1, flat[n + 1])
      OBVIOUS
    <3>1. Good(n, flat[n])
      BY <1>0, <2>9
    <3>2. n + 1 \in 1 .. N /\ n + 1 # 1 /\ (n + 1) - 1 = n /\ n \in 1 .. N
      BY <1>0
    <3>3. flat[n + 1] = flat[n] \o s[n + 1]
      BY <2>6, <3>2
    <3> HIDE DEF n
    <3>4. IsSeq(flat[n + 1]) /\ ToSet(flat[n + 1]) = ToSet(flat[n]) \cup ToSet(s[n + 1])
      BY <3>1, <3>2, <3>3, ConcatFacts
    <3>5. \A i \in 1 .. (n + 1) : i \in 1 .. n \/ i = n + 1
      BY <3>2
    <3>6. \A i \in 1 .. n : i \in 1 .. (n + 1)
      BY <3>2
    <3>7. n + 1 \in 1 .. (n + 1)
      BY <3>2
    <3> QED BY <3>1, <3>4, <3>5, <3>6, <3>7
  <2> HIDE DEF G, Good
  <2>10. Nat \subseteq G
    BY <2>8, <2>9, Numbers!NumberInduction
  <2>11. N - 1 \in Nat /\ (N - 1) + 1 = N
    BY <1>0, <1>2
  <2>12. Good(N, flat[N])
    BY <2>10, <2>11 DEF G
  <2> QED BY <2>7, <2>12 DEF Good
<1> QED BY <1>1, <1>2

MergeStep(known, q, done, next) ==
    LET spans == next.spans \cap Spans
        figs == next.figs \cap known
    IN  IF next.spans \cup next.figs # {} /\ spans \cup figs = {} THEN done
        ELSE Append(done,
                [next EXCEPT !.id = UniqueProviderId(next.id, ToSet(Ids(done))),
                             !.spans = spans, !.figs = figs, !.section = NoSection])

Merges == INSTANCE FoldTheorems WITH Op <- MergeStep

ReviewStep(p, q, base, c) ==
    MergeProviderReview(base, [i \in DOMAIN c |-> PromotedQuestion(c[i])], {})

Rounds == INSTANCE FoldTheorems WITH Op <- ReviewStep

-----------------------------------------------------------------------------
(* The questions of the review *)

\* The ids of a list of questions, one by one.
LEMMA IdsFacts ==
  ASSUME NEW qs, IsSeq(qs)
  PROVE  /\ IsSeq(Ids(qs)) /\ Len(Ids(qs)) = Len(qs)
         /\ DOMAIN Ids(qs) = 1 .. Len(qs)
         /\ \A i \in 1 .. Len(qs) : Ids(qs)[i] = qs[i].id /\ qs[i].id \in IdsOf(qs)
         /\ \A id \in IdsOf(qs) : \E i \in 1 .. Len(qs) : qs[i].id = id
<1>1. DOMAIN qs = 1 .. Len(qs) /\ Len(qs) \in Nat
  BY SeqFacts
<1>2. Ids(qs) = [i \in 1 .. Len(qs) |-> qs[i].id]
  BY <1>1 DEF Ids
<1>3. DOMAIN Ids(qs) = 1 .. Len(qs) /\ \A i \in 1 .. Len(qs) : Ids(qs)[i] = qs[i].id
  BY <1>2
<1>4. Ids(qs) = [i \in 1 .. Len(qs) |-> Ids(qs)[i]]
  BY <1>2
<1>5. IsSeq(Ids(qs)) /\ Len(Ids(qs)) = Len(qs)
  BY <1>1, <1>4, FunctionIsSeq
<1> QED BY <1>3, <1>5 DEF IdsOf, ToSet

\* The ids of a list are finitely many.
LEMMA IdsFinite ==
  ASSUME NEW qs, IsSeq(qs)
  PROVE  IsFiniteSet(IdsOf(qs))
<1> DEFINE f == Ids(qs)
<1>1. Len(qs) \in Nat /\ DOMAIN f = 1 .. Len(qs)
  BY SeqFacts, IdsFacts
<1>2. f \in [1 .. Len(qs) -> IdsOf(qs)] /\ \A id \in IdsOf(qs) : \E i \in 1 .. Len(qs) : f[i] = id
  BY <1>1, IdsFacts, SeqFacts DEF IdsOf
<1>3. f \in Surjection(1 .. Len(qs), IdsOf(qs))
  BY <1>2 DEF Surjection
<1>4. IsFiniteSet(1 .. Len(qs))
  BY <1>1, FS_Interval
<1> QED BY <1>3, <1>4, FS_Surjection

\* Lists with ids of different names, one behind the other.
LEMMA ReviewConcat ==
  ASSUME NEW qs, NEW rs, ReviewIsSound(qs), ReviewIsSound(rs), IdsOf(qs) \cap IdsOf(rs) = {}
  PROVE  /\ ReviewIsSound(qs \o rs)
         /\ IdsOf(qs \o rs) = IdsOf(qs) \cup IdsOf(rs)
         /\ Extends(qs, qs \o rs)
<1> DEFINE c == qs \o rs
           n == Len(qs)
           m == Len(rs)
<1>1. n \in Nat /\ m \in Nat /\ DOMAIN qs = 1 .. n /\ DOMAIN rs = 1 .. m
  BY SeqFacts DEF ReviewIsSound
<1>2. /\ IsSeq(c) /\ Len(c) = n + m /\ ToSet(c) = ToSet(qs) \cup ToSet(rs)
      /\ \A i \in 1 .. n : c[i] = qs[i]
      /\ \A i \in 1 .. m : c[n + i] = rs[i]
  BY ConcatFacts DEF ReviewIsSound
<1> HIDE DEF c, n, m
<1>3. DOMAIN c = 1 .. (n + m)
  BY <1>2, SeqFacts
<1>4. \A i \in 1 .. (n + m) : \/ i \in 1 .. n /\ c[i] = qs[i]
                              \/ i - n \in 1 .. m /\ c[i] = rs[i - n]
  <2> TAKE i \in 1 .. (n + m)
  <2>1. i \in 1 .. n \/ (i - n \in 1 .. m /\ n + (i - n) = i)
    BY <1>1
  <2>2. CASE i - n \in 1 .. m /\ n + (i - n) = i
    <3>1. c[n + (i - n)] = rs[i - n]
      BY <1>2, <2>2
    <3> QED BY <2>2, <3>1
  <2> QED BY <1>2, <2>1, <2>2
<1>5. (\A i \in 1 .. n : i \in 1 .. (n + m)) /\ (\A i \in 1 .. m : n + i \in 1 .. (n + m))
  BY <1>1
<1>6. /\ \A i \in 1 .. n : Ids(qs)[i] = qs[i].id /\ qs[i].id \in IdsOf(qs)
      /\ \A id \in IdsOf(qs) : \E i \in 1 .. n : qs[i].id = id
      /\ DOMAIN Ids(qs) = 1 .. n
  BY IdsFacts DEF ReviewIsSound, n
<1>7. /\ \A i \in 1 .. m : Ids(rs)[i] = rs[i].id /\ rs[i].id \in IdsOf(rs)
      /\ \A id \in IdsOf(rs) : \E i \in 1 .. m : rs[i].id = id
      /\ DOMAIN Ids(rs) = 1 .. m
  BY IdsFacts DEF ReviewIsSound, m
<1>8. /\ \A i \in 1 .. (n + m) : Ids(c)[i] = c[i].id /\ c[i].id \in IdsOf(c)
      /\ \A id \in IdsOf(c) : \E i \in 1 .. (n + m) : c[i].id = id
      /\ DOMAIN Ids(c) = 1 .. (n + m)
  BY <1>2, IdsFacts
<1>9. IdsOf(c) \subseteq IdsOf(qs) \cup IdsOf(rs)
  BY <1>4, <1>6, <1>7, <1>8
<1>10. IdsOf(qs) \cup IdsOf(rs) \subseteq IdsOf(c)
  BY <1>2, <1>5, <1>6, <1>7, <1>8
<1>11. IsInjective(Ids(c))
  <2> SUFFICES ASSUME NEW i \in 1 .. (n + m), NEW j \in 1 .. (n + m), c[i].id = c[j].id
               PROVE  i = j
    BY <1>8 DEF IsInjective
  <2>1. CASE i \in 1 .. n /\ c[i] = qs[i] /\ j \in 1 .. n /\ c[j] = qs[j]
    BY <1>6, <2>1 DEF ReviewIsSound, IsInjective
  <2>2. CASE i - n \in 1 .. m /\ c[i] = rs[i - n] /\ j - n \in 1 .. m /\ c[j] = rs[j - n]
    <3>1. i - n = j - n
      BY <1>7, <2>2 DEF ReviewIsSound, IsInjective
    <3> QED BY <1>1, <3>1
  <2>3. CASE i \in 1 .. n /\ c[i] = qs[i] /\ j - n \in 1 .. m /\ c[j] = rs[j - n]
    BY <1>6, <1>7, <2>3
  <2>4. CASE i - n \in 1 .. m /\ c[i] = rs[i - n] /\ j \in 1 .. n /\ c[j] = qs[j]
    BY <1>6, <1>7, <2>4
  <2> QED BY <1>4, <2>1, <2>2, <2>3, <2>4
<1>12. QuestionsHaveFields(c)
  BY <1>1, <1>3, <1>4 DEF QuestionsHaveFields, ReviewIsSound
<1>13. \A q \in ToSet(c) : q.spans \subseteq Spans /\ q.figs \subseteq Figures
  BY <1>2 DEF ReviewIsSound
<1>14. Extends(qs, c)
  BY <1>1, <1>2 DEF Extends, n
<1> QED BY <1>2, <1>9, <1>10, <1>11, <1>12, <1>13, <1>14 DEF ReviewIsSound, c

\* A list of one question that cites what exists.
LEMMA ReviewOne ==
  ASSUME NEW q, DOMAIN q = Fields, q.spans \subseteq Spans, q.figs \subseteq Figures
  PROVE  ReviewIsSound(<<q>>) /\ IdsOf(<<q>>) = {q.id}
<1>1. IsSeq(<<q>>) /\ ToSet(<<q>>) = {q} /\ Len(<<q>>) = 1
  BY OneFacts
<1>2. 1 .. 1 = {1} /\ <<q>>[1] = q
  OBVIOUS
<1>3. DOMAIN <<q>> = {1} /\ DOMAIN Ids(<<q>>) = {1}
  BY <1>1, <1>2, SeqFacts, IdsFacts
<1>4. /\ 1 \in 1 .. Len(<<q>>) /\ <<q>>[1].id \in IdsOf(<<q>>)
      /\ \A id \in IdsOf(<<q>>) : \E i \in 1 .. Len(<<q>>) : <<q>>[i].id = id
  BY <1>1, IdsFacts
<1>5. IdsOf(<<q>>) = {q.id}
  BY <1>1, <1>2, <1>4
<1>6. QuestionsHaveFields(<<q>>)
  BY <1>2, <1>3 DEF QuestionsHaveFields, Fields
<1>7. IsInjective(Ids(<<q>>))
  BY <1>3 DEF IsInjective
<1> QED BY <1>1, <1>5, <1>6, <1>7 DEF ReviewIsSound

\* The empty list.
LEMMA ReviewNone ==
  ReviewIsSound(<<>>) /\ IdsOf(<<>>) = {}
<1>1. DOMAIN Ids(<<>>) = {}
  BY DEF Ids
<1> QED BY <1>1, EmptyIsSeq DEF ReviewIsSound, IdsOf, ToSet, IsInjective, QuestionsHaveFields

\* A list that extends one that extends another.
LEMMA ExtendsTwice ==
  ASSUME NEW r, NEW s, NEW t, IsSeq(r), IsSeq(s), IsSeq(t), Extends(r, s), Extends(s, t)
  PROVE  Extends(r, t)
<1>1. Len(r) \in Nat /\ Len(s) \in Nat /\ Len(t) \in Nat
  BY SeqFacts
<1> QED BY <1>1 DEF Extends

\* The name a provider's question gets is free, and its own if that is free.
LEMMA FreshId ==
  ASSUME NEW id, NEW seen, IsFiniteSet(seen)
  PROVE  /\ UniqueProviderId(id, seen) \notin seen
         /\ id \notin seen => UniqueProviderId(id, seen) = id
<1> DEFINE C == Cardinality(seen)
           numbered(k) == <<"llm", id, k>>
           R == 2 .. (C + 2)
           T == {numbered(k) : k \in R}
           Free == {k \in R : numbered(k) \notin seen}
           P(k) == numbered(k) \notin seen /\ \A j \in 2 .. (k - 1) : numbered(j) \in seen
<1>1. C \in Nat
  BY FS_CardinalityType
<1>2. \A k, j \in R : numbered(k) = numbered(j) => k = j
  OBVIOUS
<1>3. Free # {}
  <2> SUFFICES ASSUME Free = {} PROVE FALSE
    OBVIOUS
  <2> DEFINE f == [k \in R |-> numbered(k)]
  <2>1. f \in [R -> seen]
    OBVIOUS
  <2>2. \A k, j \in R : f[k] = f[j] => k = j
    BY <1>2
  <2> HIDE DEF f, numbered
  <2>3. f \in Injection(R, seen)
    BY <2>1, <2>2 DEF Injection, IsInjective
  <2>4. Cardinality(R) <= C
    BY <2>3, FS_Injection
  <2>5. Cardinality(R) = C + 1
    <3>1. 2 \in Int /\ C + 2 \in Int /\ ~(2 > C + 2) /\ (C + 2) - 2 + 1 = C + 1
      BY <1>1
    <3> HIDE DEF C
    <3> QED BY <3>1, FS_Interval
  <2> HIDE DEF C
  <2> QED BY <1>1, <2>4, <2>5
<1>4. \E k \in R : P(k)
  <2>1. Free \in SUBSET Nat
    BY <1>1
  <2>2. PICK k \in Free : \A j \in Free : k <= j
    BY <1>3, <2>1, Numbers!LeastNumber
  <2> HIDE DEF numbered
  <2>3. \A j \in 2 .. (k - 1) : j \in R /\ ~(k <= j)
    BY <1>1, <2>2
  <2>4. \A j \in 2 .. (k - 1) : numbered(j) \in seen
    BY <2>2, <2>3
  <2> QED BY <2>2, <2>4
<1> DEFINE k == CHOOSE n \in R : P(n)
<1>5. P(k)
  <2> HIDE DEF P, R
  <2> QED BY <1>4
<1>6. CASE id \notin seen
  <2>1. UniqueProviderId(id, seen) = id
    BY <1>6 DEF UniqueProviderId
  <2> QED BY <1>6, <2>1
<1>7. CASE id \in seen /\ <<"llm", id>> \notin seen
  <2>1. UniqueProviderId(id, seen) = <<"llm", id>>
    BY <1>7 DEF UniqueProviderId
  <2> QED BY <1>7, <2>1
<1>8. CASE id \in seen /\ <<"llm", id>> \in seen
  <2>1. UniqueProviderId(id, seen) = numbered(k)
    BY <1>8 DEF UniqueProviderId
  <2> HIDE DEF k
  <2> QED BY <1>5, <1>8, <2>1
<1> QED BY <1>6, <1>7, <1>8

\* One question merged: it is dropped, or comes last under a free id.
LEMMA MergeOne ==
  ASSUME NEW base, ReviewIsSound(base), NEW q, DOMAIN q = Fields,
         NEW known \in SUBSET Figures
  PROVE  LET merged == MergeStep(known, 0, base, q)
         IN  /\ ReviewIsSound(merged)
             /\ Extends(base, merged)
             /\ IdsOf(base) \subseteq IdsOf(merged)
             /\ (/\ q.spans \subseteq Spans /\ q.figs \subseteq known
                 /\ q.id \notin IdsOf(base))
                => IdsOf(merged) = IdsOf(base) \cup {q.id}
<1> DEFINE merged == MergeStep(known, 0, base, q)
           id == UniqueProviderId(q.id, IdsOf(base))
           kept == [q EXCEPT !.id = id, !.spans = q.spans \cap Spans, !.figs = q.figs \cap known,
                             !.section = NoSection]
           dropped == q.spans \cup q.figs # {} /\ (q.spans \cap Spans) \cup (q.figs \cap known) = {}
<1>1. IsSeq(base) /\ Len(base) \in Nat
  BY SeqFacts DEF ReviewIsSound
<1>2. merged = IF dropped THEN base ELSE Append(base, kept)
  BY DEF MergeStep, IdsOf
<1>3. /\ DOMAIN kept = Fields /\ kept.id = id
      /\ kept.spans \subseteq Spans /\ kept.figs \subseteq Figures
  BY DEF Fields
<1>4. id \notin IdsOf(base) /\ (q.id \notin IdsOf(base) => id = q.id)
  BY <1>1, IdsFinite, FreshId
<1>5. (q.spans \subseteq Spans /\ q.figs \subseteq known) => ~dropped
  OBVIOUS
<1> HIDE DEF merged, kept, id, dropped
<1>6. CASE dropped
  <2>1. merged = base
    BY <1>2, <1>6
  <2>2. Extends(base, base)
    BY <1>1 DEF Extends
  <2> QED BY <1>5, <1>6, <2>1, <2>2 DEF merged
<1>7. CASE ~dropped
  <2>1. ReviewIsSound(<<kept>>) /\ IdsOf(<<kept>>) = {id}
    BY <1>3, ReviewOne
  <2>2. merged = base \o <<kept>>
    BY <1>1, <1>2, <1>7 DEF IsSeq
  <2>3. IdsOf(base) \cap {id} = {}
    BY <1>4
  <2>4. /\ ReviewIsSound(merged) /\ IdsOf(merged) = IdsOf(base) \cup {id}
        /\ Extends(base, merged)
    BY <2>1, <2>2, <2>3, ReviewConcat
  <2> QED BY <1>4, <2>4 DEF merged
<1> QED BY <1>6, <1>7

\* The lists a merge goes through.
LEMMA MergeUnrolls ==
  ASSUME NEW base, NEW candidate, IsSeq(candidate), NEW known
  PROVE  \E v : /\ v[0] = base
                /\ \A k \in 1 .. Len(candidate) : v[k] = MergeStep(known, 0, v[k - 1], candidate[k])
                /\ MergeProviderReview(base, candidate, known) = v[Len(candidate)]
<1>1. Len(candidate) \in Nat /\ DOMAIN candidate = 1 .. Len(candidate)
  BY SeqFacts
<1>2. MergeProviderReview(base, candidate, known) = Merges!Fold(known, 0, base, candidate)
  BY DEF MergeProviderReview, MergeStep, FoldLeft, MapThenFoldSet, Max,
         Merges!Fold, Merges!FoldLeft, Merges!MapThenFoldSet, Merges!Max
<1> QED BY <1>1, <1>2, Merges!FoldUnrolls

\* A provider's questions are added to the list, under free ids, and what they
\* cite exists.
LEMMA MergeKeeps ==
  ASSUME NEW base, ReviewIsSound(base), NEW candidate, IsSeq(candidate),
         QuestionsHaveFields(candidate), NEW known \in SUBSET Figures
  PROVE  /\ ReviewIsSound(MergeProviderReview(base, candidate, known))
         /\ Extends(base, MergeProviderReview(base, candidate, known))
         /\ IdsOf(base) \subseteq IdsOf(MergeProviderReview(base, candidate, known))
<1>0. Len(candidate) \in Nat /\ DOMAIN candidate = 1 .. Len(candidate)
  BY SeqFacts
<1>1. PICK v : /\ v[0] = base
               /\ \A k \in 1 .. Len(candidate) : v[k] = MergeStep(known, 0, v[k - 1], candidate[k])
               /\ MergeProviderReview(base, candidate, known) = v[Len(candidate)]
  BY MergeUnrolls
<1> DEFINE Good(r) == ReviewIsSound(r) /\ Extends(base, r) /\ IdsOf(base) \subseteq IdsOf(r)
           S == {k \in Nat : k <= Len(candidate) => Good(v[k])}
<1>2. 0 \in S
  <2>1. Len(base) \in Nat
    BY SeqFacts DEF ReviewIsSound
  <2> QED BY <1>1, <2>1 DEF Extends
<1>3. ASSUME NEW k \in Nat, k \in S PROVE k + 1 \in S
  <2> SUFFICES ASSUME k + 1 <= Len(candidate) PROVE Good(v[k + 1])
    BY <1>0
  <2>1. Good(v[k])
    BY <1>0, <1>3
  <2>2. k + 1 \in 1 .. Len(candidate) /\ (k + 1) - 1 = k
    BY <1>0
  <2>3. v[k + 1] = MergeStep(known, 0, v[k], candidate[k + 1])
    BY <1>1, <2>2
  <2>4. DOMAIN candidate[k + 1] = Fields
    BY <1>0, <2>2 DEF QuestionsHaveFields, Fields
  <2>5. /\ ReviewIsSound(v[k + 1]) /\ Extends(v[k], v[k + 1])
        /\ IdsOf(v[k]) \subseteq IdsOf(v[k + 1])
    BY <2>1, <2>3, <2>4, MergeOne
  <2>6. Extends(base, v[k + 1])
    BY <2>1, <2>5, ExtendsTwice DEF ReviewIsSound
  <2> QED BY <2>1, <2>5, <2>6
<1> HIDE DEF S, Good
<1>4. Nat \subseteq S
  BY <1>2, <1>3, Numbers!NumberInduction
<1>5. Good(v[Len(candidate)])
  BY <1>0, <1>4 DEF S
<1> QED BY <1>1, <1>5 DEF Good

\* Questions whose ids are distinct and free, and that cite what exists, are all
\* added under their own ids.
LEMMA MergeAll ==
  ASSUME NEW base, ReviewIsSound(base), NEW candidate, ReviewIsSound(candidate),
         IdsOf(base) \cap IdsOf(candidate) = {}
  PROVE  IdsOf(candidate) \subseteq IdsOf(MergeProviderReview(base, candidate, Figures))
<1>1. IsSeq(candidate)
  BY DEF ReviewIsSound
<1>2. PICK v : /\ v[0] = base
               /\ \A k \in 1 .. Len(candidate) : v[k] = MergeStep(Figures, 0, v[k - 1], candidate[k])
               /\ MergeProviderReview(base, candidate, Figures) = v[Len(candidate)]
  BY <1>1, MergeUnrolls
<1> DEFINE n == Len(candidate)
<1>0. n \in Nat /\ DOMAIN candidate = 1 .. n /\ IsSeq(candidate)
  BY <1>1, SeqFacts
<1>3. /\ v[0] = base
      /\ \A k \in 1 .. n : v[k] = MergeStep(Figures, 0, v[k - 1], candidate[k])
      /\ MergeProviderReview(base, candidate, Figures) = v[n]
  BY <1>2
<1> HIDE DEF n
<1> DEFINE Good(k, r) == /\ ReviewIsSound(r)
                         /\ \A i \in 1 .. k : candidate[i].id \in IdsOf(r)
                         /\ \A i \in (k + 1) .. n : candidate[i].id \notin IdsOf(r)
           S == {k \in Nat : k <= n => Good(k, v[k])}
<1>4. /\ \A i \in 1 .. n : candidate[i].id \in IdsOf(candidate)
      /\ \A id \in IdsOf(candidate) : \E i \in 1 .. n : candidate[i].id = id
      /\ \A i, j \in 1 .. n : candidate[i].id = candidate[j].id => i = j
  <2>1. /\ DOMAIN Ids(candidate) = 1 .. n
        /\ \A i \in 1 .. n : Ids(candidate)[i] = candidate[i].id /\ candidate[i].id \in IdsOf(candidate)
        /\ \A id \in IdsOf(candidate) : \E i \in 1 .. n : candidate[i].id = id
    BY <1>0, IdsFacts DEF n
  <2> QED BY <2>1 DEF ReviewIsSound, IsInjective
<1>5. 0 \in S
  BY <1>3, <1>4
<1>6. ASSUME NEW k \in Nat, k \in S PROVE k + 1 \in S
  <2> SUFFICES ASSUME k + 1 <= n PROVE Good(k + 1, v[k + 1])
    BY <1>0
  <2> DEFINE q == candidate[k + 1]
  <2>1. Good(k, v[k])
    BY <1>0, <1>6
  <2>2. k + 1 \in 1 .. n /\ (k + 1) - 1 = k /\ k + 1 \in (k + 1) .. n
    BY <1>0
  <2>3. v[k + 1] = MergeStep(Figures, 0, v[k], q)
    BY <1>3, <2>2
  <2>4. DOMAIN q = Fields /\ q \in ToSet(candidate)
    BY <1>0, <2>2 DEF ReviewIsSound, QuestionsHaveFields, Fields, ToSet
  <2>5. q.spans \subseteq Spans /\ q.figs \subseteq Figures /\ q.id \notin IdsOf(v[k])
    BY <2>1, <2>2, <2>4 DEF ReviewIsSound
  <2>6. ReviewIsSound(v[k + 1]) /\ IdsOf(v[k + 1]) = IdsOf(v[k]) \cup {q.id}
    BY <2>1, <2>3, <2>4, <2>5, MergeOne
  <2>7. \A i \in 1 .. (k + 1) : i \in 1 .. k \/ i = k + 1
    OBVIOUS
  <2>8. \A i \in ((k + 1) + 1) .. n : i \in (k + 1) .. n /\ i \in 1 .. n /\ i # k + 1
    BY <1>0
  <2>9. \A i \in 1 .. (k + 1) : candidate[i].id \in IdsOf(v[k + 1])
    BY <2>1, <2>6, <2>7
  <2>10. \A i \in ((k + 1) + 1) .. n : candidate[i].id \notin IdsOf(v[k + 1])
    BY <1>4, <2>1, <2>2, <2>6, <2>8
  <2> QED BY <2>6, <2>9, <2>10
<1> HIDE DEF S, Good
<1>7. Nat \subseteq S
  BY <1>5, <1>6, Numbers!NumberInduction
<1>8. Good(n, v[n])
  BY <1>0, <1>7 DEF S
<1> QED BY <1>3, <1>4, <1>8 DEF Good

\* What a provider's question says is kept but for the basis of its suggestion.
LEMMA PromotedFields ==
  ASSUME NEW qs, IsSeq(qs), QuestionsHaveFields(qs)
  PROVE  LET promoted == [i \in DOMAIN qs |-> PromotedQuestion(qs[i])]
         IN  /\ IsSeq(promoted) /\ Len(promoted) = Len(qs)
             /\ QuestionsHaveFields(promoted)
             /\ \A i \in DOMAIN qs : promoted[i] = PromotedQuestion(qs[i])
             /\ \A i \in DOMAIN qs : promoted[i].id = qs[i].id
             /\ DOMAIN promoted = DOMAIN qs
<1> DEFINE promoted == [i \in DOMAIN qs |-> PromotedQuestion(qs[i])]
<1>1. Len(qs) \in Nat /\ DOMAIN qs = 1 .. Len(qs)
  BY SeqFacts
<1>2. DOMAIN promoted = 1 .. Len(qs) /\ \A i \in 1 .. Len(qs) : promoted[i] = PromotedQuestion(qs[i])
  BY <1>1
<1>3. promoted = [i \in 1 .. Len(qs) |-> promoted[i]]
  BY <1>1
<1>4. IsSeq(promoted) /\ Len(promoted) = Len(qs)
  BY <1>1, <1>3, FunctionIsSeq
<1>5. \A i \in 1 .. Len(qs) : DOMAIN PromotedQuestion(qs[i]) = Fields /\ PromotedQuestion(qs[i]).id = qs[i].id
  BY <1>1 DEF QuestionsHaveFields, PromotedQuestion, Fields
<1> QED BY <1>1, <1>2, <1>4, <1>5 DEF QuestionsHaveFields, Fields

\* All rounds of a review provider keep what is there.
LEMMA ProviderReviewKeeps ==
  ASSUME NEW review, ReviewIsSound(review), NEW candidates, IsSeq(candidates),
         \A n \in DOMAIN candidates : IsSeq(candidates[n]) /\ QuestionsHaveFields(candidates[n])
  PROVE  /\ ReviewIsSound(ProviderReview(review, candidates))
         /\ Extends(review, ProviderReview(review, candidates))
<1> DEFINE n == Len(candidates)
<1>0. n \in Nat /\ DOMAIN candidates = 1 .. n
  BY SeqFacts
<1>1. ProviderReview(review, candidates) = Rounds!Fold(0, 0, review, candidates)
  BY DEF ProviderReview, ReviewStep, FoldLeft, MapThenFoldSet, Max,
         Rounds!Fold, Rounds!FoldLeft, Rounds!MapThenFoldSet, Rounds!Max
<1> HIDE DEF n
<1>2. PICK v : /\ v[0] = review
               /\ \A k \in 1 .. n : v[k] = ReviewStep(0, 0, v[k - 1], candidates[k])
               /\ ProviderReview(review, candidates) = v[n]
  BY <1>0, <1>1, Rounds!FoldUnrolls
<1> DEFINE Good(r) == ReviewIsSound(r) /\ Extends(review, r)
           S == {k \in Nat : k <= n => Good(v[k])}
<1>3. 0 \in S
  <2>1. Len(review) \in Nat
    BY SeqFacts DEF ReviewIsSound
  <2> QED BY <1>2, <2>1 DEF Extends
<1>4. ASSUME NEW k \in Nat, k \in S PROVE k + 1 \in S
  <2> SUFFICES ASSUME k + 1 <= n PROVE Good(v[k + 1])
    BY <1>0
  <2> DEFINE c == candidates[k + 1]
             promoted == [i \in DOMAIN c |-> PromotedQuestion(c[i])]
  <2>1. Good(v[k])
    BY <1>0, <1>4
  <2>2. k + 1 \in 1 .. n /\ (k + 1) - 1 = k
    BY <1>0
  <2>3. v[k + 1] = MergeProviderReview(v[k], promoted, {})
    BY <1>2, <2>2 DEF ReviewStep
  <2>4. IsSeq(c) /\ QuestionsHaveFields(c)
    BY <1>0, <2>2
  <2>5. IsSeq(promoted) /\ QuestionsHaveFields(promoted)
    BY <2>4, PromotedFields
  <2> HIDE DEF promoted
  <2>6. ReviewIsSound(v[k + 1]) /\ Extends(v[k], v[k + 1])
    BY <2>1, <2>3, <2>5, MergeKeeps
  <2>7. Extends(review, v[k + 1])
    BY <2>1, <2>6, ExtendsTwice DEF ReviewIsSound
  <2> QED BY <2>6, <2>7
<1> HIDE DEF S, Good
<1>5. Nat \subseteq S
  BY <1>3, <1>4, Numbers!NumberInduction
<1>6. Good(v[n])
  BY <1>0, <1>5 DEF S
<1> QED BY <1>2, <1>6 DEF Good

\* The spans and the sections are listed in some order, all of them.
LEMMA OrderFacts ==
  /\ IsSeq(SpanOrder) /\ DOMAIN SpanOrder = 1 .. Len(SpanOrder) /\ Len(SpanOrder) \in Nat
  /\ \A i \in 1 .. Len(SpanOrder) : SpanOrder[i] \in Spans
  /\ IsSeq(SectionOrder) /\ DOMAIN SectionOrder = 1 .. Len(SectionOrder) /\ Len(SectionOrder) \in Nat
  /\ \A i \in 1 .. Len(SectionOrder) : SectionOrder[i] \in Sections
  /\ \A id \in Sections : \E i \in 1 .. Len(SectionOrder) : SectionOrder[i] = id
<1>1. IsSeq(SpanOrder) /\ IsSeq(SectionOrder)
  BY OrdersAreInjective DEF IsSeq, Spans, Sections
<1> QED BY <1>1, SeqFacts DEF Spans, Sections

\* The text of a span is a sequence of prose, placeholders and references.
LEMMA SpanTextFacts ==
  ASSUME NEW doc, SourceIsRead(doc), NEW span \in Spans
  PROVE  /\ IsSeq(SpanText(doc, span))
         /\ \A t \in ToSet(SpanText(doc, span)) : t.k \in SourceKinds
<1> DEFINE a == <<Token("text", <<span, 0>>)>>
           b == [n \in 1 .. doc[span].phs |-> Token("ph", <<span, n>>)]
           c == [n \in DOMAIN doc[span].refs |-> Token("fig", <<doc[span].refs[n], 0>>)]
<1>1. IsSeq(a) /\ \A t \in ToSet(a) : t.k \in SourceKinds
  <2>1. IsSeq(a) /\ ToSet(a) = {Token("text", <<span, 0>>)}
    BY OneFacts
  <2> QED BY <2>1 DEF Token, SourceKinds
<1>2. IsSeq(b) /\ \A t \in ToSet(b) : t.k \in SourceKinds
  <2>1. doc[span].phs \in Nat
    BY DEF SourceIsRead
  <2>2. b = [n \in 1 .. doc[span].phs |-> b[n]]
    OBVIOUS
  <2>3. IsSeq(b)
    BY <2>1, <2>2, FunctionIsSeq
  <2> QED BY <2>3 DEF ToSet, Token, SourceKinds
<1>3. IsSeq(c) /\ \A t \in ToSet(c) : t.k \in SourceKinds
  <2>1. IsSeq(doc[span].refs)
    BY DEF SourceIsRead, IsSeq
  <2>2. DOMAIN doc[span].refs = 1 .. Len(doc[span].refs) /\ Len(doc[span].refs) \in Nat
    BY <2>1, SeqFacts
  <2>3. c = [n \in 1 .. Len(doc[span].refs) |-> c[n]]
    BY <2>2
  <2>4. IsSeq(c)
    BY <2>2, <2>3, FunctionIsSeq
  <2> QED BY <2>4 DEF ToSet, Token, SourceKinds
<1>4. SpanText(doc, span) = (a \o b) \o c
  <2>1. SpanText(doc, span) = a \o b \o c
    BY DEF SpanText
  <2> QED BY <2>1
<1> HIDE DEF a, b, c
<1>5. IsSeq(a \o b) /\ ToSet(a \o b) = ToSet(a) \cup ToSet(b)
  BY <1>1, <1>2, ConcatFacts
<1>6. IsSeq((a \o b) \o c) /\ ToSet((a \o b) \o c) = ToSet(a \o b) \cup ToSet(c)
  BY <1>3, <1>5, ConcatFacts
<1> QED BY <1>1, <1>2, <1>3, <1>4, <1>5, <1>6

\* The placeholders of a source are a sequence.
LEMMA PlaceholdersAreSeq ==
  ASSUME NEW doc, SourceIsRead(doc)
  PROVE  IsSeq(SourcePlaceholders(doc))
<1> DEFINE texts == [i \in DOMAIN SpanOrder |-> SpanText(doc, SpanOrder[i])]
           text == FlattenSeq(texts)
<1>1. texts = [i \in 1 .. Len(SpanOrder) |-> texts[i]]
  BY OrderFacts
<1>2. \A i \in 1 .. Len(SpanOrder) : texts[i] = SpanText(doc, SpanOrder[i]) /\ SpanOrder[i] \in Spans
  BY OrderFacts
<1>3. \A i \in 1 .. Len(SpanOrder) : IsSeq(texts[i])
  BY <1>2, SpanTextFacts
<1> HIDE DEF texts
<1>4. IsSeq(texts) /\ Len(texts) = Len(SpanOrder)
  BY <1>1, OrderFacts, FunctionIsSeq
<1>5. IsSeq(text)
  BY <1>3, <1>4, FlattenFacts
<1> HIDE DEF text
<1>6. IsSeq(Selection(text, {i \in DOMAIN text : text[i].k = "ph"}))
  BY <1>5, SelectionFacts
<1> QED BY <1>6 DEF SourcePlaceholders, text, texts

\* A function on the numbers up to n lists its values.
LEMMA ListFacts ==
  ASSUME NEW n \in Nat, NEW s, NEW f, s = [i \in 1 .. n |-> f[i]]
  PROVE  IsSeq(s) /\ Len(s) = n /\ DOMAIN s = 1 .. n /\ \A i \in 1 .. n : s[i] = f[i]
<1>1. s = [i \in 1 .. n |-> s[i]] /\ DOMAIN s = 1 .. n /\ \A i \in 1 .. n : s[i] = f[i]
  OBVIOUS
<1> QED BY <1>1, FunctionIsSeq

\* A list is sound if its ids are distinct and each question is.
LEMMA ListIsSound ==
  ASSUME NEW qs, IsSeq(qs),
         \A i \in 1 .. Len(qs) : DOMAIN qs[i] = Fields,
         \A i \in 1 .. Len(qs) : qs[i].spans \subseteq Spans /\ qs[i].figs \subseteq Figures,
         \A i, j \in 1 .. Len(qs) : qs[i].id = qs[j].id => i = j
  PROVE  ReviewIsSound(qs)
<1>2. /\ DOMAIN Ids(qs) = 1 .. Len(qs) /\ DOMAIN qs = 1 .. Len(qs)
      /\ \A i \in 1 .. Len(qs) : Ids(qs)[i] = qs[i].id
  BY IdsFacts, SeqFacts
<1>3. IsInjective(Ids(qs))
  BY <1>2 DEF IsInjective
<1>4. QuestionsHaveFields(qs)
  BY <1>2 DEF QuestionsHaveFields, Fields
<1>5. \A q \in ToSet(qs) : q.spans \subseteq Spans /\ q.figs \subseteq Figures
  BY SeqFacts
<1> QED BY <1>3, <1>4, <1>5 DEF ReviewIsSound

\* A question of the deterministic review has the fields of a question.
LEMMA ReviewQuestionFacts ==
  ASSUME NEW id, NEW suggestion
  PROVE  /\ DOMAIN ReviewQuestion(id, suggestion) = Fields
         /\ ReviewQuestion(id, suggestion).id = id
         /\ ReviewQuestion(id, suggestion).spans \subseteq Spans
         /\ ReviewQuestion(id, suggestion).figs \subseteq Figures
BY DEF ReviewQuestion, Fields

\* Questions of the review under one name and distinct numbers.
Numbered(qs, name, number, suggestion) ==
    /\ IsSeq(qs)
    /\ \A i \in 1 .. Len(qs) : qs[i] = ReviewQuestion(<<name, number[i]>>, suggestion)
    /\ \A i, j \in 1 .. Len(qs) : number[i] = number[j] => i = j

\* Questions of one name and with distinct numbers are a sound review.
LEMMA NumberedQuestions ==
  ASSUME NEW qs, NEW number, NEW name, NEW suggestion, Numbered(qs, name, number, suggestion)
  PROVE  ReviewIsSound(qs) /\ \A id \in IdsOf(qs) : id[1] = name
<1> USE DEF Numbered
<1>0. ASSUME NEW i \in 1 .. Len(qs)
      PROVE  /\ DOMAIN qs[i] = Fields /\ qs[i].id = <<name, number[i]>>
             /\ qs[i].spans \subseteq Spans /\ qs[i].figs \subseteq Figures
  <2> DEFINE id == <<name, number[i]>>
  <2>1. qs[i] = ReviewQuestion(id, suggestion)
    OBVIOUS
  <2> HIDE DEF id
  <2>2. /\ DOMAIN ReviewQuestion(id, suggestion) = Fields
        /\ ReviewQuestion(id, suggestion).id = id
        /\ ReviewQuestion(id, suggestion).spans \subseteq Spans
        /\ ReviewQuestion(id, suggestion).figs \subseteq Figures
    BY ReviewQuestionFacts
  <2>3. qs[i].id = id
    BY <2>1, <2>2
  <2> QED BY <2>1, <2>2, <2>3 DEF id
<1>1. \A i \in 1 .. Len(qs) : DOMAIN qs[i] = Fields
  BY <1>0, Zenon
<1>2. \A i \in 1 .. Len(qs) : qs[i].id = <<name, number[i]>>
  BY <1>0, Zenon
<1>3. \A i \in 1 .. Len(qs) : qs[i].spans \subseteq Spans /\ qs[i].figs \subseteq Figures
  BY <1>0, Zenon
<1>4. \A i, j \in 1 .. Len(qs) : qs[i].id = qs[j].id => i = j
  BY <1>2
<1>5. ReviewIsSound(qs)
  BY <1>1, <1>3, <1>4, ListIsSound
<1>6. \A id \in IdsOf(qs) : \E i \in 1 .. Len(qs) : qs[i].id = id
  BY IdsFacts
<1> QED BY <1>2, <1>5, <1>6

\* The questions about sections are a sound review, under their name.
LEMMA SectionQuestionsAreSound ==
  ASSUME NEW name, NEW asked
  PROVE  /\ ReviewIsSound(SectionQuestions(name, asked))
         /\ \A id \in IdsOf(SectionQuestions(name, asked)) : id[1] = name
<1> DEFINE all == [i \in DOMAIN SectionOrder |-> i]
           P == {i \in DOMAIN SectionOrder : SectionOrder[i] \in asked}
           indices == Selection(all, P)
           qs == SectionQuestions(name, asked)
<1>1. all = [i \in 1 .. Len(SectionOrder) |-> all[i]] /\ IsInjective(all)
  BY OrderFacts DEF IsInjective
<1>2. IsSeq(all)
  BY <1>1, OrderFacts, FunctionIsSeq
<1> HIDE DEF all, P
<1>3. IsSeq(indices) /\ IsInjective(indices)
  BY <1>1, <1>2, SelectionFacts, SelectionInjective
<1>4. qs = [n \in DOMAIN indices |-> ReviewQuestion(<<name, indices[n]>>, TRUE)]
  BY DEF SectionQuestions, all, P
<1> HIDE DEF indices, qs
<1>5. DOMAIN indices = 1 .. Len(indices) /\ Len(indices) \in Nat
  BY <1>3, SeqFacts
<1>6. \A i, j \in 1 .. Len(indices) : indices[i] = indices[j] => i = j
  BY <1>3, <1>5 DEF IsInjective
<1> DEFINE question == [n \in 1 .. Len(indices) |-> ReviewQuestion(<<name, indices[n]>>, TRUE)]
<1>7. /\ IsSeq(qs) /\ Len(qs) = Len(indices)
      /\ \A n \in 1 .. Len(qs) : qs[n] = ReviewQuestion(<<name, indices[n]>>, TRUE)
  <2>1. qs = [n \in 1 .. Len(indices) |-> question[n]]
    BY <1>4, <1>5
  <2>2. \A n \in 1 .. Len(indices) : question[n] = ReviewQuestion(<<name, indices[n]>>, TRUE)
    OBVIOUS
  <2> HIDE DEF question
  <2> QED BY <1>5, <2>1, <2>2, ListFacts
<1>8. Numbered(qs, name, indices, TRUE)
  BY <1>6, <1>7 DEF Numbered
<1>9. ReviewIsSound(qs) /\ \A id \in IdsOf(qs) : id[1] = name
  BY <1>8, NumberedQuestions
<1> QED BY <1>9 DEF qs

\* One question under a name, or none.
LEMMA OneQuestion ==
  ASSUME NEW name, NEW asked
  PROVE  LET qs == IF asked THEN <<ReviewQuestion(<<name, 1>>, TRUE)>> ELSE <<>>
         IN  ReviewIsSound(qs) /\ \A id \in IdsOf(qs) : id[1] = name
<1> DEFINE q == ReviewQuestion(<<name, 1>>, TRUE)
<1>1. /\ DOMAIN q = Fields /\ q.id = <<name, 1>>
      /\ q.spans \subseteq Spans /\ q.figs \subseteq Figures
  BY DEF ReviewQuestion, Fields
<1> HIDE DEF q
<1>2. ReviewIsSound(<<q>>) /\ IdsOf(<<q>>) = {q.id}
  BY <1>1, ReviewOne
<1>3. ReviewIsSound(<<q>>) /\ \A id \in IdsOf(<<q>>) : id[1] = name
  BY <1>1, <1>2
<1> QED BY <1>3, ReviewNone DEF q

\* The deterministic review asks every question under an id of its own.
LEMMA BuildReviewIsSound ==
  ASSUME NEW doc, SourceIsRead(doc)
  PROVE  ReviewIsSound(BuildReview(doc))
<1> DEFINE under(id) == {s \in Spans : doc[s].home = id}
           a == SectionQuestions("req", {id \in Required : under(id) = {}})
           b == IF FindContextualConflicts(doc) # {}
                THEN <<ReviewQuestion(<<"open", 1>>, TRUE)>> ELSE <<>>
           c == IF under("") = Spans THEN <<ReviewQuestion(<<"structure", 1>>, TRUE)>> ELSE <<>>
           d == [n \in DOMAIN SourcePlaceholders(doc) |-> ReviewQuestion(<<"ph", n>>, FALSE)]
           e == SectionQuestions("crit", {id \in HardBlockers :
                    under(id) # {} /\ \A s \in under(id) : ~doc[s].evidence})
<1>1. ReviewIsSound(a) /\ \A id \in IdsOf(a) : id[1] = "req"
  BY SectionQuestionsAreSound
<1>2. ReviewIsSound(b) /\ \A id \in IdsOf(b) : id[1] = "open"
  BY OneQuestion
<1>3. ReviewIsSound(c) /\ \A id \in IdsOf(c) : id[1] = "structure"
  BY OneQuestion
<1>4. ReviewIsSound(d) /\ \A id \in IdsOf(d) : id[1] = "ph"
  <2> DEFINE n == Len(SourcePlaceholders(doc))
             number == [i \in 1 .. n |-> i]
  <2>1. DOMAIN SourcePlaceholders(doc) = 1 .. n /\ n \in Nat
    BY PlaceholdersAreSeq, SeqFacts
  <2> HIDE DEF n
  <2>2. d = [i \in 1 .. n |-> d[i]]
    BY <2>1
  <2>3. \A i \in 1 .. n : d[i] = ReviewQuestion(<<"ph", number[i]>>, FALSE)
    BY <2>1
  <2>4. \A i, j \in 1 .. n : number[i] = number[j] => i = j
    OBVIOUS
  <2> HIDE DEF d, number
  <2>5. IsSeq(d) /\ Len(d) = n
    BY <2>1, <2>2, FunctionIsSeq
  <2>6. Numbered(d, "ph", number, FALSE)
    BY <2>3, <2>4, <2>5 DEF Numbered
  <2> QED BY <2>6, NumberedQuestions
<1>5. ReviewIsSound(e) /\ \A id \in IdsOf(e) : id[1] = "crit"
  BY SectionQuestionsAreSound
<1>6. BuildReview(doc) = (((a \o b) \o c) \o d) \o e
  <2>1. BuildReview(doc) = a \o b \o c \o d \o e
    BY DEF BuildReview
  <2> QED BY <2>1
<1> HIDE DEF a, b, c, d, e
<1>7. /\ ReviewIsSound(a \o b) /\ \A id \in IdsOf(a \o b) : id[1] \in {"req", "open"}
  <2>1. IdsOf(a) \cap IdsOf(b) = {}
    BY <1>1, <1>2
  <2>2. ReviewIsSound(a \o b) /\ IdsOf(a \o b) = IdsOf(a) \cup IdsOf(b)
    BY <1>1, <1>2, <2>1, ReviewConcat
  <2> QED BY <1>1, <1>2, <2>2
<1>8. /\ ReviewIsSound((a \o b) \o c)
      /\ \A id \in IdsOf((a \o b) \o c) : id[1] \in {"req", "open", "structure"}
  <2>1. IdsOf(a \o b) \cap IdsOf(c) = {}
    BY <1>3, <1>7
  <2>2. ReviewIsSound((a \o b) \o c) /\ IdsOf((a \o b) \o c) = IdsOf(a \o b) \cup IdsOf(c)
    BY <1>3, <1>7, <2>1, ReviewConcat
  <2> QED BY <1>3, <1>7, <2>2
<1>9. /\ ReviewIsSound(((a \o b) \o c) \o d)
      /\ \A id \in IdsOf(((a \o b) \o c) \o d) : id[1] \in {"req", "open", "structure", "ph"}
  <2>1. IdsOf((a \o b) \o c) \cap IdsOf(d) = {}
    BY <1>4, <1>8
  <2>2. /\ ReviewIsSound(((a \o b) \o c) \o d)
        /\ IdsOf(((a \o b) \o c) \o d) = IdsOf((a \o b) \o c) \cup IdsOf(d)
    BY <1>4, <1>8, <2>1, ReviewConcat
  <2> QED BY <1>4, <1>8, <2>2
<1>10. IdsOf(((a \o b) \o c) \o d) \cap IdsOf(e) = {}
  BY <1>5, <1>9
<1> QED BY <1>5, <1>6, <1>9, <1>10, ReviewConcat

-----------------------------------------------------------------------------
(* The figures and the mapping *)

\* Whatever the provider says, the candidates are figures of the source, each once.
LEMMA CandidatesAreFigures ==
  ASSUME NEW fits, NEW sizes, NEW responses, NEW limits
  PROVE  FigureList(Candidates(Interpret(fits, sizes, responses, limits)))
<1> DEFINE results == Interpret(fits, sizes, responses, limits)
           P == {i \in DOMAIN results : results[i].status # "unsupported"}
           kept == Selection(results, P)
           figs == Candidates(results)
           n == Len(FigureOrder)
<1>1. /\ IsSeq(FigureOrder) /\ n \in Nat /\ DOMAIN FigureOrder = 1 .. n
      /\ \A i \in 1 .. n : FigureOrder[i] \in Figures
      /\ \A i, j \in 1 .. n : FigureOrder[i] = FigureOrder[j] => i = j
  <2>1. IsSeq(FigureOrder) /\ IsInjective(FigureOrder)
    BY FiguresAreOrdered DEF IsSeq
  <2> QED BY <2>1, SeqFacts, FiguresAreOrdered DEF IsInjective
<1>2. /\ results = [i \in 1 .. n |-> results[i]]
      /\ \A i \in 1 .. n : results[i].fig = FigureOrder[i]
  BY <1>1 DEF Interpret
<1> HIDE DEF results, n
<1>3. IsSeq(results) /\ Len(results) = n
  BY <1>1, <1>2, FunctionIsSeq
<1> HIDE DEF P
<1>4. /\ IsSeq(kept)
      /\ \E e : /\ \A i \in 1 .. Len(kept) : e[i] \in P \cap (1 .. Len(results)) /\ kept[i] = results[e[i]]
               /\ \A i, j \in 1 .. Len(kept) : e[i] = e[j] => i = j
  <2> HIDE DEF kept
  <2>1. kept = Selection(results, P)
    BY DEF kept
  <2>2. IsSeq(kept)
    BY <1>3, <2>1, SelectionFacts
  <2> QED BY <1>3, <2>1, <2>2, SelectionFacts
<1>5. figs = [i \in DOMAIN kept |-> kept[i].fig]
  BY DEF Candidates, P
<1> HIDE DEF kept, figs
<1>6. Len(kept) \in Nat /\ DOMAIN kept = 1 .. Len(kept)
  BY <1>4, SeqFacts
<1>7. PICK e : /\ \A i \in 1 .. Len(kept) : e[i] \in P \cap (1 .. Len(results)) /\ kept[i] = results[e[i]]
               /\ \A i, j \in 1 .. Len(kept) : e[i] = e[j] => i = j
  BY <1>4
<1>8. figs = [i \in 1 .. Len(kept) |-> figs[i]] /\ \A i \in 1 .. Len(kept) : figs[i] = kept[i].fig
  BY <1>5, <1>6
<1>9. IsSeq(figs) /\ Len(figs) = Len(kept)
  BY <1>6, <1>8, FunctionIsSeq
<1>10. ASSUME NEW i \in 1 .. Len(kept)
       PROVE  e[i] \in 1 .. n /\ figs[i] = FigureOrder[e[i]]
  <2>1. e[i] \in 1 .. n /\ kept[i] = results[e[i]]
    BY <1>3, <1>7
  <2>2. results[e[i]].fig = FigureOrder[e[i]]
    BY <1>2, <2>1
  <2> QED BY <1>8, <2>1, <2>2
<1>11. DOMAIN figs = 1 .. Len(kept)
  BY <1>8
<1>12. IsInjective(figs)
  <2>1. ASSUME NEW i \in 1 .. Len(kept), NEW j \in 1 .. Len(kept), figs[i] = figs[j] PROVE i = j
    <3>1. FigureOrder[e[i]] = FigureOrder[e[j]]
      BY <1>10, <2>1
    <3>2. e[i] = e[j]
      BY <1>1, <1>10, <3>1
    <3> QED BY <1>7, <3>2
  <2> QED BY <1>11, <2>1 DEF IsInjective
<1>13. ToSet(figs) \subseteq Figures
  <2>1. ASSUME NEW i \in 1 .. Len(kept) PROVE figs[i] \in Figures
    BY <1>1, <1>10
  <2> QED BY <1>11, <2>1 DEF ToSet
<1>14. FigureList(figs)
  BY <1>9, <1>12, <1>13 DEF FigureList
<1> QED BY <1>14 DEF figs, results

\* The offline mapping lists what it should.
LEMMA OfflineIsParsed ==
  ASSUME NEW doc
  PROVE  AnswerIsParsed(OfflineMapping(doc))
<1> DEFINE status(id) == SectionStatus(doc, id)
           P == {i \in DOMAIN SectionOrder : status(SectionOrder[i]) \in DOMAIN GapKind}
           open == Selection(SectionOrder, P)
           m == OfflineMapping(doc)
<1>0. IsSeq(open)
  <2> HIDE DEF P
  <2> QED BY OrderFacts, SelectionFacts
<1> HIDE DEF open
<1>1. DOMAIN open = 1 .. Len(open) /\ Len(open) \in Nat
  BY <1>0, SeqFacts
<1>2. /\ m.sections = [i \in DOMAIN SectionOrder |-> m.sections[i]]
      /\ \A i \in DOMAIN SectionOrder :
            DOMAIN m.sections[i] = {"id", "status", "spans", "figs", "gaps", "text"}
  BY DEF OfflineMapping
<1>3. /\ m.gaps = [i \in DOMAIN open |-> m.gaps[i]]
      /\ \A i \in DOMAIN open : DOMAIN m.gaps[i] = {"id", "section", "kind", "blocking", "question"}
  BY DEF OfflineMapping, open
<1>4. /\ m.questions = [i \in DOMAIN open |-> m.questions[i]]
      /\ \A i \in DOMAIN open : DOMAIN m.questions[i] = {"id", "blocking", "section", "spans", "figs", "suggestion"}
  BY DEF OfflineMapping, open
<1> HIDE DEF m
<1>5. IsSeq(m.sections) /\ DOMAIN m.sections = DOMAIN SectionOrder
  <2>1. m.sections = [i \in 1 .. Len(SectionOrder) |-> m.sections[i]] /\ Len(SectionOrder) \in Nat
    BY <1>2, OrderFacts
  <2>2. DOMAIN m.sections = DOMAIN SectionOrder
    BY <1>2
  <2> HIDE <1>2
  <2> QED BY <2>1, <2>2, FunctionIsSeq
<1>6. IsSeq(m.gaps) /\ DOMAIN m.gaps = DOMAIN open
  <2>1. m.gaps = [i \in 1 .. Len(open) |-> m.gaps[i]]
    BY <1>1, <1>3
  <2>2. DOMAIN m.gaps = DOMAIN open
    BY <1>3
  <2> HIDE <1>3
  <2> QED BY <1>1, <2>1, <2>2, FunctionIsSeq
<1>7. IsSeq(m.questions) /\ DOMAIN m.questions = DOMAIN open
  <2>1. m.questions = [i \in 1 .. Len(open) |-> m.questions[i]]
    BY <1>1, <1>4
  <2>2. DOMAIN m.questions = DOMAIN open
    BY <1>4
  <2> HIDE <1>4
  <2> QED BY <1>1, <2>1, <2>2, FunctionIsSeq
<1> QED BY <1>2, <1>3, <1>4, <1>5, <1>6, <1>7 DEF AnswerIsParsed, QuestionsHaveFields, m

\* What a live provider answers is parsed before it is looked at.
LEMMA LiveIsParsed ==
  ASSUME NEW answer \in LiveMappings
  PROVE  AnswerIsParsed(answer)
BY InputsAssumption DEF AnswerIsParsed, IsSeq

\* What is promoted is parsed, and an accepted answer becomes a sound mapping.
LEMMA AcceptedIsSound ==
  ASSUME NEW answer, AnswerIsParsed(answer), MappingAccepted(answer)
  PROVE  MappingIsSound(PromotedMapping(answer))
<1> DEFINE m == PromotedMapping(answer)
<1>1. /\ DOMAIN m = {"sections", "dispositions", "gaps", "questions"}
      /\ m.sections = [i \in DOMAIN answer.sections |->
                         [answer.sections[i] EXCEPT !.gaps = {CanonicalGap(answer, g) : g \in @}]]
      /\ m.gaps = [i \in DOMAIN answer.gaps |-> [answer.gaps[i] EXCEPT !.id = i]]
      /\ m.questions = [i \in DOMAIN answer.questions |-> PromotedQuestion(answer.questions[i])]
  BY DEF PromotedMapping
<1> HIDE DEF m
<1>2. /\ DOMAIN answer.sections = 1 .. Len(answer.sections) /\ Len(answer.sections) \in Nat
      /\ DOMAIN answer.gaps = 1 .. Len(answer.gaps) /\ Len(answer.gaps) \in Nat
  BY SeqFacts DEF AnswerIsParsed
<1>3. /\ IsSeq(m.sections) /\ DOMAIN m.sections = DOMAIN answer.sections
      /\ \A i \in DOMAIN m.sections : /\ DOMAIN m.sections[i] = {"id", "status", "spans", "figs", "gaps", "text"}
                                      /\ m.sections[i].id = answer.sections[i].id
  <2>1. DOMAIN m.sections = DOMAIN answer.sections
    BY <1>1
  <2>2. ASSUME NEW i \in DOMAIN answer.sections
        PROVE  /\ DOMAIN m.sections[i] = {"id", "status", "spans", "figs", "gaps", "text"}
               /\ m.sections[i].id = answer.sections[i].id
    <3>1. DOMAIN answer.sections[i] = {"id", "status", "spans", "figs", "gaps", "text"}
      BY DEF AnswerIsParsed
    <3>2. m.sections[i] = [answer.sections[i] EXCEPT !.gaps = {CanonicalGap(answer, g) : g \in @}]
      BY <1>1
    <3> QED BY <3>1, <3>2
  <2>3. m.sections = [i \in 1 .. Len(answer.sections) |-> m.sections[i]]
    BY <1>1, <1>2
  <2> HIDE <1>1
  <2>4. IsSeq(m.sections)
    BY <1>2, <2>3, FunctionIsSeq
  <2> QED BY <2>1, <2>2, <2>4
<1>4. /\ IsSeq(m.gaps)
      /\ \A i \in DOMAIN m.gaps : DOMAIN m.gaps[i] = {"id", "section", "kind", "blocking", "question"}
  <2>1. DOMAIN m.gaps = DOMAIN answer.gaps
    BY <1>1
  <2>2. ASSUME NEW i \in DOMAIN answer.gaps
        PROVE  DOMAIN m.gaps[i] = {"id", "section", "kind", "blocking", "question"}
    BY <1>1 DEF AnswerIsParsed
  <2>3. m.gaps = [i \in 1 .. Len(answer.gaps) |-> m.gaps[i]]
    BY <1>1, <1>2
  <2> HIDE <1>1
  <2>4. IsSeq(m.gaps)
    BY <1>2, <2>3, FunctionIsSeq
  <2> QED BY <2>1, <2>2, <2>4
<1>5. IsSeq(m.questions) /\ QuestionsHaveFields(m.questions)
  BY <1>1, PromotedFields DEF AnswerIsParsed
<1>6. Ids(m.sections) = Ids(answer.sections)
  BY <1>3 DEF Ids
<1>7. ToSet(Ids(m.sections)) = Sections /\ CoverageValid(m)
  BY <1>6 DEF MappingAccepted, PlacementsMatch, m
<1> QED BY <1>1, <1>3, <1>4, <1>5, <1>7 DEF MappingIsSound, AnswerIsParsed, m

\* The questions of a sound mapping are a sound list.
LEMMA MappingQuestionsAreSound ==
  ASSUME NEW m, MappingIsSound(m)
  PROVE  ReviewIsSound(m.questions)
<1>1. IsSeq(m.questions) /\ QuestionsHaveFields(m.questions) /\ IsInjective(Ids(m.questions))
  BY DEF MappingIsSound, AnswerIsParsed, CoverageValid, IdsUnique
<1>2. ASSUME NEW i \in DOMAIN m.questions
      PROVE  m.questions[i].spans \subseteq Spans /\ m.questions[i].figs \subseteq Figures
  BY DEF MappingIsSound, CoverageValid, ReferencesResolve
<1> QED BY <1>1, <1>2 DEF ReviewIsSound, ToSet

\* A selection of a sound list is sound.
LEMMA SelectionIsSound ==
  ASSUME NEW qs, ReviewIsSound(qs), NEW P
  PROVE  /\ ReviewIsSound(Selection(qs, P))
         /\ \A id \in IdsOf(Selection(qs, P)) : \E i \in P \cap (1 .. Len(qs)) : qs[i].id = id
         /\ \A i \in P \cap (1 .. Len(qs)) : qs[i].id \in IdsOf(Selection(qs, P))
<1> DEFINE t == Selection(qs, P)
<1>1. /\ IsSeq(qs) /\ DOMAIN qs = 1 .. Len(qs)
      /\ DOMAIN Ids(qs) = 1 .. Len(qs) /\ \A i \in 1 .. Len(qs) : Ids(qs)[i] = qs[i].id
  BY SeqFacts, IdsFacts DEF ReviewIsSound
<1>2. \A i, j \in 1 .. Len(qs) : qs[i].id = qs[j].id => i = j
  BY <1>1 DEF ReviewIsSound, IsInjective
<1>3. IsSeq(t) /\ \A i \in P \cap (1 .. Len(qs)) : qs[i] \in ToSet(t)
  BY <1>1, SelectionFacts
<1>4. PICK e : /\ \A i \in 1 .. Len(t) : e[i] \in P \cap (1 .. Len(qs)) /\ t[i] = qs[e[i]]
               /\ \A i, j \in 1 .. Len(t) : e[i] = e[j] => i = j
  BY <1>1, SelectionFacts
<1> HIDE DEF t
<1>5. /\ \A i \in 1 .. Len(t) : t[i].id \in IdsOf(t)
      /\ \A id \in IdsOf(t) : \E i \in 1 .. Len(t) : t[i].id = id
      /\ \A x \in ToSet(t) : \E i \in 1 .. Len(t) : t[i] = x
  BY <1>3, IdsFacts, SeqFacts
<1>6. \A i \in 1 .. Len(t) : DOMAIN t[i] = Fields
  BY <1>1, <1>4 DEF ReviewIsSound, QuestionsHaveFields, Fields
<1>7. \A i \in 1 .. Len(t) : t[i].spans \subseteq Spans /\ t[i].figs \subseteq Figures
  BY <1>1, <1>4, SeqFacts DEF ReviewIsSound
<1>8. \A i, j \in 1 .. Len(t) : t[i].id = t[j].id => i = j
  BY <1>2, <1>4
<1>9. ReviewIsSound(t)
  BY <1>3, <1>6, <1>7, <1>8, ListIsSound
<1>10. \A id \in IdsOf(t) : \E i \in P \cap (1 .. Len(qs)) : qs[i].id = id
  BY <1>4, <1>5
<1>11. \A i \in P \cap (1 .. Len(qs)) : qs[i].id \in IdsOf(t)
  BY <1>3, <1>5
<1> QED BY <1>9, <1>10, <1>11 DEF t

\* The questions about figures that are asked: one id each.
LEMMA VisualQuestionsAreSound ==
  ASSUME NEW asked, FigureList(asked)
  PROVE  LET qs == [i \in DOMAIN asked |->
                      [ReviewQuestion(<<asked[i], 0>>, FALSE) EXCEPT !.figs = {asked[i]}]]
         IN  ReviewIsSound(qs) /\ \A id \in IdsOf(qs) : \E f \in ToSet(asked) : id = <<f, 0>>
<1> DEFINE q(f) == [ReviewQuestion(<<f, 0>>, FALSE) EXCEPT !.figs = {f}]
           qs == [i \in DOMAIN asked |-> q(asked[i])]
<1>1. /\ Len(asked) \in Nat /\ DOMAIN asked = 1 .. Len(asked)
      /\ \A i \in 1 .. Len(asked) : asked[i] \in ToSet(asked) /\ asked[i] \in Figures
      /\ \A i, j \in 1 .. Len(asked) : asked[i] = asked[j] => i = j
  BY SeqFacts DEF FigureList, IsInjective
<1>2. ASSUME NEW f
      PROVE  /\ DOMAIN q(f) = Fields /\ q(f).id = <<f, 0>> /\ q(f).spans \subseteq Spans
             /\ q(f).figs = {f}
  BY DEF ReviewQuestion, Fields
<1> HIDE DEF q
<1>3. qs = [i \in 1 .. Len(asked) |-> qs[i]] /\ \A i \in 1 .. Len(asked) : qs[i] = q(asked[i])
  BY <1>1
<1> HIDE DEF qs
<1>4. IsSeq(qs) /\ Len(qs) = Len(asked)
  BY <1>1, <1>3, FunctionIsSeq
<1>5. \A i \in 1 .. Len(qs) : DOMAIN qs[i] = Fields
  BY <1>2, <1>3, <1>4
<1>6. \A i \in 1 .. Len(qs) : qs[i].spans \subseteq Spans /\ qs[i].figs \subseteq Figures
  BY <1>1, <1>2, <1>3, <1>4
<1>7. \A i \in 1 .. Len(qs) : qs[i].id = <<asked[i], 0>>
  BY <1>2, <1>3, <1>4
<1>8. \A i, j \in 1 .. Len(qs) : qs[i].id = qs[j].id => i = j
  BY <1>1, <1>4, <1>7
<1>9. ReviewIsSound(qs)
  BY <1>4, <1>5, <1>6, <1>8, ListIsSound
<1>10. \A id \in IdsOf(qs) : \E i \in 1 .. Len(qs) : qs[i].id = id
  BY <1>4, IdsFacts
<1>11. ASSUME NEW id \in IdsOf(qs) PROVE \E f \in ToSet(asked) : id = <<f, 0>>
  <2>1. PICK i \in 1 .. Len(qs) : qs[i].id = id
    BY <1>10
  <2>2. id = <<asked[i], 0>> /\ asked[i] \in ToSet(asked)
    BY <1>1, <1>4, <1>7, <2>1
  <2> QED BY <2>2
<1> QED BY <1>9, <1>11 DEF qs, q

\* All questions together: those of the review first, each with its own id, and
\* among them every question that a gap of the mapping is linked to.
LEMMA MergedQuestionsAreSound ==
  ASSUME NEW review, ReviewIsSound(review), NEW m, MappingIsSound(m), NEW figs, FigureList(figs)
  PROVE  /\ ReviewIsSound(MergedQuestions(review, m, figs))
         /\ Extends(review, MergedQuestions(review, m, figs))
         /\ \A g \in ToSet(m.gaps) :
              g.question = NoQuestion \/ g.question \in IdsOf(MergedQuestions(review, m, figs))
<1> DEFINE P == {i \in DOMAIN m.questions : m.questions[i].id \notin IdsOf(review)}
           added == Selection(m.questions, P)
           merged == MergeProviderReview(review, added, Figures)
           Q == {i \in DOMAIN figs : <<figs[i], 0>> \notin IdsOf(merged)}
           asked == Selection(figs, Q)
           visual == [i \in DOMAIN asked |->
                        [ReviewQuestion(<<asked[i], 0>>, FALSE) EXCEPT !.figs = {asked[i]}]]
<1>1. ReviewIsSound(m.questions) /\ DOMAIN m.questions = 1 .. Len(m.questions)
  BY MappingQuestionsAreSound, SeqFacts DEF ReviewIsSound
<1>2. /\ ReviewIsSound(added)
      /\ \A id \in IdsOf(added) : \E i \in P \cap (1 .. Len(m.questions)) : m.questions[i].id = id
      /\ \A i \in P \cap (1 .. Len(m.questions)) : m.questions[i].id \in IdsOf(added)
  <2> HIDE DEF P
  <2> QED BY <1>1, SelectionIsSound
<1>3. IdsOf(review) \cap IdsOf(added) = {}
  BY <1>2
<1> HIDE DEF added
<1>4. /\ ReviewIsSound(merged) /\ Extends(review, merged)
      /\ IdsOf(review) \subseteq IdsOf(merged)
      /\ IdsOf(added) \subseteq IdsOf(merged)
  BY <1>2, <1>3, MergeKeeps, MergeAll DEF ReviewIsSound
<1>5. \A i \in DOMAIN m.questions : m.questions[i].id \in IdsOf(merged)
  BY <1>1, <1>2, <1>4
<1> HIDE DEF merged, P
<1>6. FigureList(asked) /\ \A f \in ToSet(asked) : <<f, 0>> \notin IdsOf(merged)
  <2>1. IsSeq(figs) /\ DOMAIN figs = 1 .. Len(figs)
    BY SeqFacts DEF FigureList
  <2>2. \A i \in Q : <<figs[i], 0>> \notin IdsOf(merged) /\ figs[i] \in Figures
    BY SeqFacts DEF FigureList
  <2> HIDE DEF Q
  <2>3. IsSeq(asked) /\ IsInjective(asked) /\ \A f \in ToSet(asked) : \E i \in Q : f = figs[i]
    BY <2>1, SelectionFacts, SelectionInjective DEF FigureList
  <2> QED BY <2>2, <2>3 DEF FigureList
<1> HIDE DEF Q, asked
<1>7. ReviewIsSound(visual) /\ \A id \in IdsOf(visual) : \E f \in ToSet(asked) : id = <<f, 0>>
  BY <1>6, VisualQuestionsAreSound
<1> HIDE DEF visual
<1>8. IdsOf(merged) \cap IdsOf(visual) = {}
  BY <1>6, <1>7
<1>9. /\ ReviewIsSound(merged \o visual) /\ IdsOf(merged \o visual) = IdsOf(merged) \cup IdsOf(visual)
      /\ Extends(merged, merged \o visual)
  BY <1>4, <1>7, <1>8, ReviewConcat
<1>10. MergedQuestions(review, m, figs) = merged \o visual
  BY DEF MergedQuestions, merged, visual, asked, Q, added, P, IdsOf
<1>11. Extends(review, merged \o visual)
  BY <1>4, <1>9, ExtendsTwice DEF ReviewIsSound
<1>12. ASSUME NEW g \in ToSet(m.gaps)
       PROVE  g.question = NoQuestion \/ g.question \in IdsOf(merged \o visual)
  <2>1. g.question \in ToSet(Ids(m.questions)) \cup {NoQuestion}
    BY DEF MappingIsSound, CoverageValid, ReferencesResolve, ToSet
  <2>2. \A id \in IdsOf(m.questions) : \E i \in 1 .. Len(m.questions) : m.questions[i].id = id
    BY <1>1, IdsFacts DEF ReviewIsSound
  <2> QED BY <1>1, <1>5, <1>9, <2>1, <2>2 DEF IdsOf
<1> QED BY <1>9, <1>10, <1>11, <1>12

-----------------------------------------------------------------------------
(* The inductive invariant *)

\* A run starts with the source that was ingested, and with nothing else.
LEMMA InitHolds == Init => DraftInv
<1> SUFFICES ASSUME Init PROVE DraftInv
  OBVIOUS
<1>1. source \in OfflineSources \cup LiveSources
  BY DEF Init
<1>2. SourceIsRead(source)
  BY <1>1, InputsAssumption DEF SourceIsRead
<1>3. IsInjective(<<>>)
  BY DEF IsInjective
<1>4. FigureList(<<>>)
  BY <1>3, EmptyIsSeq DEF FigureList
<1> QED BY <1>2, <1>4 DEF Init, DraftInv, Mapped, Drafted, Decided

\* The candidates are figures of the source, whatever the provider saw in them.
LEMMA VisualsHold ==
  ASSUME DraftInv, InterpretVisuals
  PROVE  DraftInv'
<1>1. FigureList(figures')
  BY CandidatesAreFigures DEF InterpretVisuals
<1>2. phase' = "analyze" /\ UNCHANGED source
  BY DEF InterpretVisuals
<1> QED BY <1>1, <1>2 DEF DraftInv, Mapped, Drafted, Decided

\* The review that the mapping is merged into extends the deterministic one.
LEMMA ReviewsAreSound ==
  ASSUME SourceIsRead(source), NEW review \in Reviews
  PROVE  ReviewIsSound(review) /\ Extends(BuildReview(source), review)
<1>1. PICK c \in (IF provider = "offline" THEN ReviewCandidates ELSE {<<>>}) :
        review = ProviderReview(BuildReview(source), c)
  BY DEF Reviews
<1>2. IsSeq(c) /\ \A n \in DOMAIN c : IsSeq(c[n]) /\ QuestionsHaveFields(c[n])
  <2>1. CASE c \in ReviewCandidates
    BY <2>1, InputsAssumption DEF IsSeq
  <2>2. CASE c = <<>>
    <3>1. DOMAIN c = {}
      BY <2>2
    <3> QED BY <2>2, <3>1, EmptyIsSeq
  <2> QED BY <1>1, <2>1, <2>2
<1>3. ReviewIsSound(BuildReview(source))
  BY BuildReviewIsSound
<1> QED BY <1>1, <1>2, <1>3, ProviderReviewKeeps

\* A mapping that is refused ends the analysis; one that passes is sound, and what its gaps are
\* linked to is asked.
LEMMA MappingHolds ==
  ASSUME DraftInv, MapDocument
  PROVE  DraftInv'
<1>1. SourceIsRead(source) /\ FigureList(figures) /\ UNCHANGED <<provider, source, figures>>
  BY DEF DraftInv, MapDocument
<1>2. PICK answer \in MappingAnswers, review \in Reviews :
        IF MappingAccepted(answer)
        THEN /\ phase' = "draft"
             /\ mapping' = PromotedMapping(answer)
             /\ questions' = MergedQuestions(review, mapping', figures)
        ELSE /\ phase' = "failed"
             /\ UNCHANGED <<mapping, questions>>
  BY DEF MapDocument
<1>3. CASE ~MappingAccepted(answer)
  <2>1. phase' = "failed"
    BY <1>2, <1>3
  <2> QED BY <1>1, <2>1 DEF DraftInv, Mapped, Drafted, Decided
<1>4. CASE MappingAccepted(answer)
  <2>1. phase' = "draft" /\ mapping' = PromotedMapping(answer)
        /\ questions' = MergedQuestions(review, mapping', figures)
    BY <1>2, <1>4
  <2>2. AnswerIsParsed(answer)
    <3>1. CASE provider = "offline"
      BY <3>1, OfflineIsParsed DEF MappingAnswers
    <3>2. CASE provider # "offline"
      BY <3>2, LiveIsParsed DEF MappingAnswers
    <3> QED BY <3>1, <3>2
  <2>3. MappingIsSound(mapping')
    BY <1>4, <2>1, <2>2, AcceptedIsSound
  <2>4. ReviewIsSound(review) /\ Extends(BuildReview(source), review)
    BY <1>1, ReviewsAreSound
  <2>5. /\ ReviewIsSound(questions') /\ Extends(review, questions')
        /\ \A g \in ToSet(mapping'.gaps) : g.question = NoQuestion \/ g.question \in IdsOf(questions')
    BY <1>1, <2>1, <2>3, <2>4, MergedQuestionsAreSound
  <2>6. Extends(BuildReview(source), questions')
    <3>1. IsSeq(BuildReview(source))
      BY <1>1, BuildReviewIsSound DEF ReviewIsSound
    <3> QED BY <2>4, <2>5, <3>1, ExtendsTwice DEF ReviewIsSound
  <2>7. QuestionsAreAsked(questions', source', mapping')
    BY <1>1, <2>5, <2>6 DEF QuestionsAreAsked
  <2>8. provider' = "offline" => mapping' = PromotedMapping(OfflineMapping(source'))
    BY <1>1, <2>1 DEF MappingAnswers
  <2> QED BY <1>1, <2>1, <2>3, <2>7, <2>8 DEF DraftInv, Mapped, Drafted, Decided
<1> QED BY <1>3, <1>4

\* The joined texts of spans are prose, placeholders and references.
LEMMA JoinedIsSource ==
  ASSUME NEW doc, SourceIsRead(doc), NEW P
  PROVE  LET spans == Selection(SpanOrder, P)
         IN  TextIsSource(FlattenSeq([i \in DOMAIN spans |-> SpanText(doc, spans[i])]))
<1> DEFINE spans == Selection(SpanOrder, P)
           texts == [i \in DOMAIN spans |-> SpanText(doc, spans[i])]
<1>1. IsSeq(spans) /\ \A x \in ToSet(spans) : x \in Spans
  <2>1. IsSeq(spans) /\ \A x \in ToSet(spans) : \E i \in P \cap (1 .. Len(SpanOrder)) : x = SpanOrder[i]
    BY OrderFacts, SelectionFacts
  <2> QED BY <2>1, OrderFacts
<1> HIDE DEF spans
<1>2. Len(spans) \in Nat /\ DOMAIN spans = 1 .. Len(spans) /\ \A i \in 1 .. Len(spans) : spans[i] \in Spans
  BY <1>1, SeqFacts
<1>3. texts = [i \in 1 .. Len(spans) |-> texts[i]]
      /\ \A i \in 1 .. Len(spans) : texts[i] = SpanText(doc, spans[i])
  BY <1>2
<1> HIDE DEF texts
<1>4. IsSeq(texts) /\ Len(texts) = Len(spans)
  BY <1>2, <1>3, FunctionIsSeq
<1>5. ASSUME NEW i \in 1 .. Len(texts)
      PROVE  IsSeq(texts[i]) /\ \A t \in ToSet(texts[i]) : t.k \in SourceKinds
  <2>1. spans[i] \in Spans /\ texts[i] = SpanText(doc, spans[i])
    BY <1>2, <1>3, <1>4
  <2> QED BY <2>1, SpanTextFacts
<1>6. /\ IsSeq(FlattenSeq(texts))
      /\ \A x \in ToSet(FlattenSeq(texts)) : \E i \in 1 .. Len(texts) : x \in ToSet(texts[i])
  BY <1>4, <1>5, FlattenFacts
<1>7. TextIsSource(FlattenSeq(texts))
  BY <1>5, <1>6 DEF TextIsSource
<1> QED BY <1>7 DEF texts, spans

\* Whatever a provider drafts is of the source.
LEMMA DraftTextsAreSource ==
  ASSUME SourceIsRead(source), MappingIsSound(mapping), NEW answer \in DraftAnswers
  PROVE  \A id \in ToSet(Ids(mapping.sections)) : TextIsSource(answer.texts[id])
<1> DEFINE full == OfflineDraftAnswer(source, mapping).texts
           ids == ToSet(Ids(mapping.sections))
           clean == [id \in DOMAIN full |->
                      Selection(full[id], {i \in DOMAIN full[id] : full[id][i].k # "ph"})]
           more == [n \in 1 .. Len(SourcePlaceholders(source)) + 1 |-> Token("ph", <<"new", n>>)]
           extra == [clean EXCEPT ![SectionOrder[1]] = @ \o more]
<1>0. full = [id \in ids |->
                   LET spans == CitedSpans(mapping, id)
                   IN  FlattenSeq([i \in DOMAIN spans |-> SpanText(source, spans[i])])]
  BY DEF OfflineDraftAnswer
<1>1. DOMAIN full = ids
  BY <1>0
<1>2. ASSUME NEW id \in ids PROVE TextIsSource(full[id])
  <2> DEFINE P == {i \in DOMAIN SpanOrder : SpanOrder[i] \in Named(mapping.sections, id).spans}
             spans == Selection(SpanOrder, P)
  <2>1. full[id] = FlattenSeq([i \in DOMAIN spans |-> SpanText(source, spans[i])])
    BY <1>0 DEF CitedSpans
  <2> HIDE DEF P, full
  <2>2. TextIsSource(FlattenSeq([i \in DOMAIN spans |-> SpanText(source, spans[i])]))
    BY JoinedIsSource
  <2> QED BY <2>1, <2>2
<1> HIDE DEF full, ids
<1>3. ASSUME NEW id \in ids PROVE TextIsSource(clean[id])
  <2> DEFINE P == {i \in DOMAIN full[id] : full[id][i].k # "ph"}
             t == Selection(full[id], P)
  <2>1. clean[id] = t
    BY <1>1
  <2>2. IsSeq(full[id]) /\ \A x \in ToSet(full[id]) : x.k \in SourceKinds
    BY <1>2 DEF TextIsSource
  <2> HIDE DEF P
  <2>3. IsSeq(t) /\ \A x \in ToSet(t) : \E i \in P \cap (1 .. Len(full[id])) : x = full[id][i]
    BY <2>2, SelectionFacts
  <2>4. \A x \in ToSet(t) : x \in ToSet(full[id])
    BY <2>2, <2>3, SeqFacts
  <2> QED BY <2>1, <2>2, <2>3, <2>4 DEF TextIsSource
<1>4. TextIsSource(more)
  <2>1. Len(SourcePlaceholders(source)) + 1 \in Nat
    BY PlaceholdersAreSeq, SeqFacts
  <2>2. more = [n \in 1 .. Len(SourcePlaceholders(source)) + 1 |-> more[n]]
    OBVIOUS
  <2>3. \A n \in DOMAIN more : more[n].k = "ph"
    BY DEF Token
  <2> HIDE DEF more
  <2>4. IsSeq(more)
    BY <2>1, <2>2, FunctionIsSeq
  <2> QED BY <2>3, <2>4 DEF TextIsSource, ToSet, SourceKinds
<1> HIDE DEF more
<1>5. ASSUME NEW id \in ids PROVE TextIsSource(extra[id])
  <2>1. DOMAIN clean = ids
    BY <1>1
  <2> HIDE DEF clean
  <2>2. CASE id # SectionOrder[1]
    BY <1>3, <2>1, <2>2
  <2>3. CASE id = SectionOrder[1]
    <3>1. extra[id] = clean[id] \o more
      BY <2>1, <2>3
    <3>2. /\ IsSeq(clean[id] \o more)
          /\ ToSet(clean[id] \o more) = ToSet(clean[id]) \cup ToSet(more)
      BY <1>3, <1>4, ConcatFacts DEF TextIsSource
    <3> QED BY <1>3, <1>4, <3>1, <3>2 DEF TextIsSource
  <2> QED BY <2>2, <2>3
<1>6. DraftAnswers = IF provider = "offline" THEN {OfflineDraftAnswer(source, mapping)}
                     ELSE {[texts |-> t, frozen |-> TRUE] : t \in {full, clean, extra}}
                            \cup {[texts |-> full, frozen |-> FALSE]}
  BY Zenon DEF DraftAnswers, full, clean, extra, more
<1> HIDE DEF clean, extra
<1>7. answer.texts \in {full, clean, extra}
  <2>1. CASE provider = "offline"
    BY <1>6, <2>1 DEF full
  <2>2. CASE provider # "offline"
    BY <1>6, <2>2
  <2> QED BY <2>1, <2>2
<1> QED BY <1>2, <1>3, <1>5, <1>7 DEF ids

\* A draft that is accepted has the sections of its mapping.
LEMMA DraftHolds ==
  ASSUME DraftInv, GenerateDraft
  PROVE  DraftInv'
<1>1. /\ phase = "draft"
      /\ UNCHANGED <<provider, source, figures, mapping, questions>>
  BY DEF GenerateDraft
<1>2. /\ SourceIsRead(source) /\ FigureList(figures) /\ MappingIsSound(mapping)
      /\ QuestionsAreAsked(questions, source, mapping)
      /\ provider = "offline" => mapping = PromotedMapping(OfflineMapping(source))
  BY <1>1 DEF DraftInv, Mapped
<1>3. PICK answer \in DraftAnswers :
        IF DraftAccepted(mapping, answer, Len(SourcePlaceholders(source)))
        THEN phase' = "audit" /\ draft' = PromotedDraft(mapping, answer.texts)
        ELSE phase' = "failed" /\ UNCHANGED draft
  BY DEF GenerateDraft
<1>4. CASE phase' = "failed"
  BY <1>1, <1>2, <1>4 DEF DraftInv, Mapped, Drafted, Decided
<1>5. CASE phase' = "audit" /\ draft' = PromotedDraft(mapping, answer.texts)
  <2> DEFINE d == PromotedDraft(mapping, answer.texts)
  <2>1. /\ DOMAIN mapping = {"sections", "dispositions", "gaps", "questions"}
        /\ IsSeq(mapping.sections)
        /\ \A i \in DOMAIN mapping.sections :
             DOMAIN mapping.sections[i] = {"id", "status", "spans", "figs", "gaps", "text"}
    BY <1>2 DEF MappingIsSound, AnswerIsParsed
  <2>2. /\ d.gaps = mapping.gaps /\ d.questions = mapping.questions
        /\ d.sections = [i \in DOMAIN mapping.sections |->
                          [mapping.sections[i] EXCEPT !.text = answer.texts[mapping.sections[i].id]]]
    BY <2>1 DEF PromotedDraft
  <2>3. DOMAIN mapping.sections = 1 .. Len(mapping.sections) /\ Len(mapping.sections) \in Nat
    BY <2>1, SeqFacts
  <2> HIDE DEF d
  <2>4. d.sections = [i \in 1 .. Len(mapping.sections) |-> d.sections[i]]
        /\ DOMAIN d.sections = DOMAIN mapping.sections
    BY <2>2, <2>3
  <2>5. IsSeq(d.sections)
    BY <2>3, <2>4, FunctionIsSeq
  <2>6. ASSUME NEW i \in DOMAIN mapping.sections
        PROVE  /\ d.sections[i].id = mapping.sections[i].id
               /\ d.sections[i].gaps = mapping.sections[i].gaps
               /\ TextIsSource(d.sections[i].text)
    <3>1. d.sections[i] = [mapping.sections[i] EXCEPT !.text = answer.texts[mapping.sections[i].id]]
      BY <2>2
    <3>2. /\ d.sections[i].id = mapping.sections[i].id
          /\ d.sections[i].gaps = mapping.sections[i].gaps
          /\ d.sections[i].text = answer.texts[mapping.sections[i].id]
      BY <2>1, <3>1
    <3>3. mapping.sections[i].id \in ToSet(Ids(mapping.sections))
      BY <2>1, <2>3, IdsFacts DEF IdsOf
    <3>4. TextIsSource(answer.texts[mapping.sections[i].id])
      BY <1>2, <1>3, <3>3, DraftTextsAreSource
    <3> QED BY <3>2, <3>4
  <2>7. DraftIsOf(d, mapping)
    BY <2>2, <2>4, <2>5, <2>6 DEF DraftIsOf
  <2> QED BY <1>1, <1>2, <1>5, <2>7 DEF DraftInv, Mapped, Drafted, Decided, d
<1> QED BY <1>3, <1>4, <1>5

\* The report of the Stage 1 audit changes nothing but the verdict.
LEMMA AuditHolds ==
  ASSUME DraftInv, AuditDraft
  PROVE  DraftInv'
BY DEF DraftInv, AuditDraft, Mapped, Drafted, Decided

\* A failed analysis has nothing that the invariant is about.
LEMMA FailureHolds ==
  ASSUME DraftInv, CallFails
  PROVE  DraftInv'
BY DEF DraftInv, CallFails, Mapped, Drafted, Decided

\* The decisions of an editor's file are a list.
LEMMA FilesAreLists ==
  ASSUME IsSeq(questions), NEW dispositions, NEW ds \in DecisionFiles(dispositions)
  PROVE  IsSeq(ds)
<1> DEFINE ids == Ids(questions)
           all(choice) == [i \in DOMAIN ids |-> [id |-> ids[i], disp |-> choice[i]]]
           file(choice) == Selection(all(choice), {i \in DOMAIN ids : choice[i] # "absent"})
<1>1. DOMAIN ids = 1 .. Len(questions) /\ Len(questions) \in Nat
  BY IdsFacts, SeqFacts
<1>2. ASSUME NEW choice PROVE IsSeq(file(choice))
  <2> DEFINE list == all(choice)
             P == {i \in DOMAIN ids : choice[i] # "absent"}
  <2>1. list = [i \in 1 .. Len(questions) |-> list[i]]
    BY <1>1
  <2> HIDE DEF list, P
  <2>2. IsSeq(list)
    BY <1>1, <2>1, FunctionIsSeq
  <2>3. IsSeq(Selection(list, P))
    BY <2>2, SelectionFacts
  <2> QED BY <2>3 DEF list, P
<1>3. ASSUME NEW s, IsSeq(s) PROVE IsSeq(Reverse(s))
  <2>1. Len(s) \in Nat
    BY <1>3, SeqFacts
  <2>2. Reverse(s) = [i \in 1 .. Len(s) |-> Reverse(s)[i]]
    BY DEF Reverse
  <2> QED BY <2>1, <2>2, FunctionIsSeq
<1>4. \E choice : ds = file(choice) \/ ds = Reverse(file(choice))
  BY DEF DecisionFiles
<1> HIDE DEF file
<1> QED BY <1>2, <1>3, <1>4

\* Stage 2 only applies decisions that name questions which exist.
LEMMA FinishHolds ==
  ASSUME DraftInv, phase \in {"waiting", "blocked"}, NEW ds, NEW ws, Finish(ds, ws),
         IsSeq(ds), EffectiveDecisionsExist(questions, ds),
         decisions' = ds, waivers' = ws,
         UNCHANGED <<provider, source, figures, mapping, draft, fidelity, questions>>
  PROVE  DraftInv'
<1>1. /\ final' = FinalOf(ds, ws)
      /\ phase' \in {"sealed", "blocked"}
      /\ phase' = "sealed" => FinalAuditPasses(final', mapping, fidelity, ds, ws)
  BY DEF Finish
<1>2. FinalOf(decisions, waivers)' = FinalOf(ds, ws)
  BY DEF FinalOf
<1>3. /\ SourceIsRead(source) /\ FigureList(figures) /\ MappingIsSound(mapping)
      /\ QuestionsAreAsked(questions, source, mapping)
      /\ provider = "offline" => mapping = PromotedMapping(OfflineMapping(source))
      /\ DraftIsOf(draft, mapping)
  BY DEF DraftInv, Mapped, Drafted
<1>4. (final = FinalOf(decisions, waivers))'
  BY <1>1, <1>2
<1>5. EffectiveDecisionsExist(questions, decisions)'
  OBVIOUS
<1>6. FinalAuditPasses(final, mapping, fidelity, decisions, waivers)' <=>
        FinalAuditPasses(final', mapping, fidelity, ds, ws)
  OBVIOUS
<1> QED BY <1>1, <1>3, <1>4, <1>5, <1>6 DEF DraftInv, Mapped, Drafted, Decided

\* So for a run that waits,
LEMMA ContinueHolds ==
  ASSUME DraftInv, Continue
  PROVE  DraftInv'
<1>1. PICK ds \in DecisionFiles(Dispositions), ws \in SUBSET Sections :
        /\ EffectiveDecisionsExist(questions, ds)
        /\ decisions' = ds /\ waivers' = ws /\ Finish(ds, ws)
  BY DEF Continue
<1>2. phase = "waiting" /\ UNCHANGED <<provider, source, figures, mapping, draft, fidelity, questions>>
  BY DEF Continue
<1>3. IsSeq(questions)
  BY <1>2 DEF DraftInv, Mapped, QuestionsAreAsked, ReviewIsSound
<1>4. IsSeq(ds)
  BY <1>3, FilesAreLists
<1> QED BY <1>1, <1>2, <1>4, FinishHolds

\* and for a failed one that is retried with the decisions it has.
LEMMA RetryHolds ==
  ASSUME DraftInv, Retry
  PROVE  DraftInv'
<1>1. /\ phase = "blocked" /\ Finish(decisions, waivers)
      /\ UNCHANGED <<provider, source, figures, mapping, draft, fidelity, questions, decisions, waivers>>
  BY DEF Retry
<1>2. IsSeq(decisions) /\ EffectiveDecisionsExist(questions, decisions)
  BY <1>1 DEF DraftInv, Decided
<1> QED BY <1>1, <1>2, FinishHolds

\* The invariant is about the variables of the run.
LEMMA StutterHolds ==
  ASSUME DraftInv, UNCHANGED vars
  PROVE  DraftInv'
<1>1. (FinalOf(decisions, waivers))' = FinalOf(decisions, waivers)
  BY DEF FinalOf, vars
<1> QED BY <1>1 DEF vars, DraftInv, Mapped, Drafted, Decided

\* Whatever the source, the provider's answers, the reviews and the decisions are: a
\* run that was mapped keeps the questions of its review, its draft says what its
\* mapping says, and its final document is the one its decisions lead to
\* (CoreRunner._analyze, continue_run and _finish).
THEOREM DraftInvariance == Spec => []DraftInv
<1>1. DraftInv /\ [Next]_vars => DraftInv'
  BY VisualsHold, MappingHolds, DraftHolds, AuditHolds, FailureHolds, ContinueHolds, RetryHolds,
     StutterHolds DEF Next
<1> QED BY <1>1, InitHolds, PTL DEF Spec

\* No answer of a provider drops, renames or reorders a question of the deterministic
\* review, and every gap that is linked to a question is linked to one that the gate
\* asks (_merge_provider_review and _assign_visual_questions of core/runner.py).
THEOREM ReviewSurvives == Spec => []ReviewSurvivesProviders
<1>1. DraftInv => ReviewSurvivesProviders
  <2> SUFFICES ASSUME DraftInv, phase = "waiting" PROVE ReviewSurvivesProviders
    BY DEF ReviewSurvivesProviders
  <2>1. /\ SourceIsRead(source) /\ ReviewIsSound(questions) /\ Extends(BuildReview(source), questions)
        /\ \A g \in ToSet(mapping.gaps) : g.question = NoQuestion \/ g.question \in IdsOf(questions)
    BY DEF DraftInv, Mapped, QuestionsAreAsked
  <2>2. IsSeq(BuildReview(source)) /\ IsSeq(questions)
    BY <2>1, BuildReviewIsSound DEF ReviewIsSound
  <2>3. IsPrefix(BuildReview(source), questions)
    <3> DEFINE r == BuildReview(source)
               n == Len(r)
    <3>1. n \in Nat /\ r = [i \in 1 .. n |-> r[i]] /\ Len(questions) \in Nat
      BY <2>2, SeqFacts
    <3>2. n <= Len(questions) /\ \A i \in 1 .. n : questions[i] = r[i]
      BY <2>1 DEF Extends
    <3> HIDE DEF r
    <3>3. SubSeq(r, 1, n) = [i \in 1 .. n |-> r[i]]
      BY <2>2, <3>1 DEF IsSeq, r
    <3>4. SubSeq(questions, 1, n) = [i \in 1 .. n |-> questions[i]]
      BY <2>2, <3>1, <3>2 DEF IsSeq
    <3>5. SubSeq(r, 1, n) = SubSeq(questions, 1, n)
      BY <3>2, <3>3, <3>4
    <3> QED BY <3>2, <3>5 DEF IsPrefix, r
  <2> QED BY <2>1, <2>3 DEF ReviewSurvivesProviders, ReviewIsSound, IdsOf
<1> QED BY <1>1, DraftInvariance, PTL

-----------------------------------------------------------------------------
(* What a pass over a text keeps and adds *)

\* The tokens that revision and the figure appendix add.
Added == {"ans", "log", "fig", "refs", "shot"}

\* t comes of s: the tokens of T that are in s stay, and others are only added.
Keeps(t, s, T) ==
    /\ IsSeq(t)
    /\ ToSet(s) \cap T \subseteq ToSet(t)
    /\ \A x \in ToSet(t) : x \in ToSet(s) \/ x.k \in Added

\* A text keeps what it says,
LEMMA KeepsNothing ==
  ASSUME NEW s, IsSeq(s), NEW T
  PROVE  Keeps(s, s, T)
BY DEF Keeps

\* and what two passes keep, both together keep.
LEMMA KeepsTwice ==
  ASSUME NEW r, NEW s, NEW t, NEW T, Keeps(s, r, T), Keeps(t, s, T)
  PROVE  Keeps(t, r, T)
BY DEF Keeps

\* The least and the greatest of some numbers.
LEMMA LeastOf ==
  ASSUME NEW n \in Nat, NEW I \in SUBSET (1 .. n), I # {}
  PROVE  Min(I) \in I /\ Max(I) \in I /\ \A j \in I : Min(I) <= j
<1>0. \A j \in I : j \in Int
  OBVIOUS
<1>1. PICK least \in I : \A j \in I : least <= j
  <2>1. I \in SUBSET Nat
    OBVIOUS
  <2> QED BY <2>1, Numbers!LeastNumber
<1>2. \E m \in I : \A j \in I : m >= j
  <2> DEFINE C == {n - j : j \in I}
  <2>1. C \in SUBSET Nat /\ C # {}
    OBVIOUS
  <2>2. PICK c \in C : \A j \in I : c <= n - j
    <3>1. \A j \in I : n - j \in C
      OBVIOUS
    <3> HIDE DEF C
    <3>2. PICK c \in C : \A d \in C : c <= d
      BY <2>1, Numbers!LeastNumber
    <3> QED BY <3>1, <3>2
  <2>3. PICK k \in I : c = n - k
    OBVIOUS
  <2>4. ASSUME NEW j \in I PROVE k >= j
    <3>1. j \in Int /\ k \in Int
      BY <1>0
    <3>2. n - k <= n - j
      BY <2>2, <2>3, <3>1
    <3> QED BY <3>1, <3>2
  <2> QED BY <2>4
<1> QED BY <1>1, <1>2 DEF Min, Max

\* The first token of a kind and an id is one of them, if there is one.
LEMMA FirstOfFacts ==
  ASSUME NEW s, IsSeq(s), NEW kind, NEW id
  PROVE  \/ /\ FirstOf(s, kind, id) = 0
            /\ ~\E i \in 1 .. Len(s) : s[i].k = kind /\ s[i].id = id
         \/ /\ FirstOf(s, kind, id) \in 1 .. Len(s)
            /\ s[FirstOf(s, kind, id)].k = kind
            /\ s[FirstOf(s, kind, id)].id = id
<1> DEFINE I == {i \in 1 .. Len(s) : s[i].k = kind /\ s[i].id = id}
<1>1. FirstOf(s, kind, id) = IF I # {} THEN Min(I) ELSE 0
  BY DEF FirstOf, SelectInSeq
<1>2. Len(s) \in Nat /\ I \in SUBSET (1 .. Len(s))
  BY SeqFacts
<1>3. CASE I = {}
  BY <1>1, <1>3
<1>4. CASE I # {}
  <2>1. FirstOf(s, kind, id) \in I
    <3> HIDE DEF I
    <3> QED BY <1>1, <1>2, <1>4, LeastOf
  <2> QED BY <2>1
<1> QED BY <1>3, <1>4

\* The first token of a kind.
LEMMA FirstKindFacts ==
  ASSUME NEW s, IsSeq(s), NEW kind
  PROVE  LET i == SelectInSeq(s, LAMBDA t : t.k = kind)
         IN  \/ i = 0 /\ \A j \in 1 .. Len(s) : s[j].k # kind
             \/ i \in 1 .. Len(s) /\ s[i].k = kind /\ \A j \in 1 .. (i - 1) : s[j].k # kind
<1> DEFINE I == {i \in 1 .. Len(s) : s[i].k = kind}
           i == SelectInSeq(s, LAMBDA t : t.k = kind)
<1>1. i = IF I # {} THEN Min(I) ELSE 0
  BY DEF SelectInSeq
<1>2. Len(s) \in Nat /\ I \in SUBSET (1 .. Len(s))
  BY SeqFacts
<1> HIDE DEF i
<1>3. CASE I = {}
  BY <1>1, <1>3 DEF i
<1>4. CASE I # {}
  <2>1. i \in I /\ \A j \in I : i <= j
    <3> HIDE DEF I
    <3> QED BY <1>1, <1>2, <1>4, LeastOf
  <2>2. \A j \in 1 .. (i - 1) : j \in 1 .. Len(s) /\ ~(i <= j)
    BY <1>2, <2>1
  <2>3. \A j \in 1 .. (i - 1) : s[j].k # kind
    BY <2>1, <2>2
  <2> QED BY <2>1, <2>3 DEF i
<1> QED BY <1>3, <1>4

\* To replace or to delete the first token of a kind and an id leaves all others.
LEMMA SubstituteKeeps ==
  ASSUME NEW s, IsSeq(s), NEW T, NEW kind, NEW id, NEW token, token.k \in Added,
         \A t \in T : ~(t.k = kind /\ t.id = id)
  PROVE  /\ Keeps(Substitute(s, FirstOf(s, kind, id), token), s, T)
         /\ Keeps(Delete(s, FirstOf(s, kind, id)), s, T)
<1> DEFINE i == FirstOf(s, kind, id)
<1>1. CASE i = 0
  <2>1. Substitute(s, i, token) = s /\ Delete(s, i) = s
    BY <1>1 DEF Substitute, Delete
  <2> QED BY <2>1, KeepsNothing
<1>2. CASE i # 0
  <2>1. i \in 1 .. Len(s) /\ s[i].k = kind /\ s[i].id = id
    BY <1>2, FirstOfFacts
  <2> HIDE DEF i
  <2>2. Substitute(s, i, token) = ReplaceAt(s, i, token) /\ Delete(s, i) = RemoveAt(s, i)
    BY <1>2 DEF Substitute, Delete
  <2>3. s[i] \notin T
    BY <2>1
  <2>4. Keeps(ReplaceAt(s, i, token), s, T)
    <3>1. /\ IsSeq(ReplaceAt(s, i, token))
          /\ ToSet(ReplaceAt(s, i, token)) \subseteq ToSet(s) \cup {token}
          /\ \A y \in ToSet(s) : y = s[i] \/ y \in ToSet(ReplaceAt(s, i, token))
      BY <2>1, ReplaceFacts
    <3> QED BY <2>3, <3>1 DEF Keeps
  <2>5. Keeps(RemoveAt(s, i), s, T)
    <3>1. /\ IsSeq(RemoveAt(s, i))
          /\ ToSet(RemoveAt(s, i)) \subseteq ToSet(s)
          /\ \A x \in ToSet(s) : x = s[i] \/ x \in ToSet(RemoveAt(s, i))
      BY <2>1, RemoveFacts
    <3> QED BY <2>3, <3>1 DEF Keeps
  <2> QED BY <2>2, <2>4, <2>5 DEF i
<1> QED BY <1>1, <1>2

-----------------------------------------------------------------------------
(* The steps of the revision *)

GapStep(ds, ws, doc, gap) ==
    LET at == <<"gap", gap.id>>
    IN  IF gap.question \in ToSet(AcceptedIds(ds))
        THEN Substitute(doc, FirstOf(doc, "gap", at), Answer(gap.question, at))
        ELSE IF GapResolved(gap, ds, ws)
             THEN Delete(doc, FirstOf(doc, "gap", at)) ELSE doc

VisualStep(ds, q, doc, f) ==
    LET at == <<f, 0>>
    IN  CASE at \in ToSet(AcceptedIds(ds)) ->
                Substitute(doc, FirstOf(doc, "cand", at), Answer(at, at))
          [] DispositionOf(ds, at) = "reject" ->
                Delete(doc, FirstOf(doc, "cand", at))
          [] OTHER -> doc

AnswerStep(p, q, doc, id) ==
    LET i == SelectInSeq(doc, LAMBDA t : t.k = "ph")
    IN  IF i = 0 THEN doc ELSE ReplaceAt(doc, i, Answer(id, doc[i].id))

PlaceStep(doc, q, done, f) ==
    LET at == ReferencePlace(done.text, doc, f)
    IN  IF at = 0 THEN [done EXCEPT !.unplaced = Append(@, Reference(f))]
        ELSE [done EXCEPT !.text = InsertAt(@, at, Reference(f))]

GapPass == INSTANCE FoldTheorems WITH Op <- GapStep
VisualPass == INSTANCE FoldTheorems WITH Op <- VisualStep
AnswerPass == INSTANCE FoldTheorems WITH Op <- AnswerStep
PlacePass == INSTANCE FoldTheorems WITH Op <- PlaceStep

\* No token of T is the callout of a resolved gap.
OpenGapsOnly(T, gaps, ds, ws) ==
    \A g \in ToSet(gaps) : GapResolved(g, ds, ws) =>
        \A t \in T : ~(t.k = "gap" /\ t.id = <<"gap", g.id>>)

\* The texts that the pass over the gaps goes through.
LEMMA GapsUnroll ==
  ASSUME NEW ds, NEW ws, NEW base, NEW list, NEW n \in Nat, DOMAIN list = 1 .. n,
         NEW result, result = GapPass!Fold(ds, ws, base, list)
  PROVE  \E v : /\ v[0] = base
                /\ \A k \in 1 .. n : v[k] = GapStep(ds, ws, v[k - 1], list[k])
                /\ result = v[n]
BY GapPass!FoldUnrolls

\* The pass over the gaps keeps the callouts of those that are open.
LEMMA GapsKept ==
  ASSUME NEW text, IsSeq(text), NEW gaps, IsSeq(gaps), NEW ds, NEW ws, NEW T,
         OpenGapsOnly(T, gaps, ds, ws)
  PROVE  Keeps(ReviseGaps(text, gaps, ds, ws), text, T)
<1> DEFINE n == Len(gaps)
<1>1. n \in Nat /\ DOMAIN gaps = 1 .. n /\ \A i \in 1 .. n : gaps[i] \in ToSet(gaps)
  BY SeqFacts
<1>2. ReviseGaps(text, gaps, ds, ws) = GapPass!Fold(ds, ws, text, gaps)
  BY DEF ReviseGaps, GapStep, FoldLeft, MapThenFoldSet, Max,
         GapPass!Fold, GapPass!FoldLeft, GapPass!MapThenFoldSet, GapPass!Max
<1> HIDE DEF n
<1>3. PICK v : /\ v[0] = text
               /\ \A k \in 1 .. n : v[k] = GapStep(ds, ws, v[k - 1], gaps[k])
               /\ ReviseGaps(text, gaps, ds, ws) = v[n]
  <2>0. n \in Nat /\ DOMAIN gaps = 1 .. n
    BY <1>1
  <2> DEFINE result == ReviseGaps(text, gaps, ds, ws)
  <2>1. result = GapPass!Fold(ds, ws, text, gaps)
    BY <1>2
  <2> HIDE DEF result
  <2>2. \E v : /\ v[0] = text
               /\ \A k \in 1 .. n : v[k] = GapStep(ds, ws, v[k - 1], gaps[k])
               /\ result = v[n]
    BY <2>0, <2>1, GapsUnroll
  <2> QED BY <2>2, Zenon DEF result
<1> DEFINE S == {k \in Nat : k <= n => Keeps(v[k], text, T)}
<1>4. 0 \in S
  BY <1>3, KeepsNothing
<1>5. ASSUME NEW k \in Nat, k \in S PROVE k + 1 \in S
  <2> SUFFICES ASSUME k + 1 <= n PROVE Keeps(v[k + 1], text, T)
    BY <1>1
  <2> DEFINE g == gaps[k + 1]
             at == <<"gap", g.id>>
             token == Answer(g.question, at)
  <2>1. Keeps(v[k], text, T) /\ IsSeq(v[k])
    BY <1>1, <1>5 DEF Keeps
  <2>2. k + 1 \in 1 .. n /\ (k + 1) - 1 = k
    BY <1>1
  <2>3. v[k + 1] = GapStep(ds, ws, v[k], g) /\ g \in ToSet(gaps)
    BY <1>1, <1>3, <2>2
  <2>4. token.k \in Added
    BY DEF Answer, Added
  <2> HIDE DEF token
  <2>5. v[k + 1] = IF g.question \in ToSet(AcceptedIds(ds))
                   THEN Substitute(v[k], FirstOf(v[k], "gap", at), token)
                   ELSE IF GapResolved(g, ds, ws)
                        THEN Delete(v[k], FirstOf(v[k], "gap", at)) ELSE v[k]
    BY <2>3 DEF GapStep, token
  <2>6. g.question \in ToSet(AcceptedIds(ds)) => GapResolved(g, ds, ws)
    BY DEF GapResolved
  <2> HIDE DEF g
  <2>7. CASE GapResolved(g, ds, ws)
    <3>1. \A t \in T : ~(t.k = "gap" /\ t.id = at)
      BY <2>3, <2>7 DEF OpenGapsOnly
    <3> HIDE DEF at
    <3>2. /\ Keeps(Substitute(v[k], FirstOf(v[k], "gap", at), token), v[k], T)
          /\ Keeps(Delete(v[k], FirstOf(v[k], "gap", at)), v[k], T)
      BY <2>1, <2>4, <3>1, SubstituteKeeps
    <3>3. Keeps(v[k + 1], v[k], T)
      BY <2>5, <2>7, <3>2
    <3> QED BY <2>1, <3>3, KeepsTwice
  <2>8. CASE ~GapResolved(g, ds, ws)
    BY <2>1, <2>5, <2>6, <2>8
  <2> QED BY <2>7, <2>8
<1> HIDE DEF S
<1>6. Nat \subseteq S
  BY <1>4, <1>5, Numbers!NumberInduction
<1> QED BY <1>1, <1>3, <1>6 DEF S

\* No token of T is the candidate of a reviewed figure.
UnreviewedOnly(T, figs, ds) ==
    \A f \in ToSet(figs) :
        (<<f, 0>> \in ToSet(AcceptedIds(ds)) \/ DispositionOf(ds, <<f, 0>>) = "reject") =>
            \A t \in T : ~(t.k = "cand" /\ t.id = <<f, 0>>)

\* The texts that the pass over the figures goes through.
LEMMA VisualsUnroll ==
  ASSUME NEW ds, NEW base, NEW list, NEW n \in Nat, DOMAIN list = 1 .. n,
         NEW result, result = VisualPass!Fold(ds, 0, base, list)
  PROVE  \E v : /\ v[0] = base
                /\ \A k \in 1 .. n : v[k] = VisualStep(ds, 0, v[k - 1], list[k])
                /\ result = v[n]
BY VisualPass!FoldUnrolls

\* The pass over the figures keeps the callouts of those that nobody has reviewed.
LEMMA VisualsKept ==
  ASSUME NEW text, IsSeq(text), NEW figs, IsSeq(figs), NEW ds, NEW T,
         UnreviewedOnly(T, figs, ds)
  PROVE  Keeps(ReviseVisuals(text, figs, ds), text, T)
<1> DEFINE n == Len(figs)
<1>1. n \in Nat /\ DOMAIN figs = 1 .. n /\ \A i \in 1 .. n : figs[i] \in ToSet(figs)
  BY SeqFacts
<1>2. ReviseVisuals(text, figs, ds) = VisualPass!Fold(ds, 0, text, figs)
  BY DEF ReviseVisuals, VisualStep, FoldLeft, MapThenFoldSet, Max,
         VisualPass!Fold, VisualPass!FoldLeft, VisualPass!MapThenFoldSet, VisualPass!Max
<1> HIDE DEF n
<1>3. PICK v : /\ v[0] = text
               /\ \A k \in 1 .. n : v[k] = VisualStep(ds, 0, v[k - 1], figs[k])
               /\ ReviseVisuals(text, figs, ds) = v[n]
  <2>0. n \in Nat /\ DOMAIN figs = 1 .. n
    BY <1>1
  <2> DEFINE result == ReviseVisuals(text, figs, ds)
  <2>1. result = VisualPass!Fold(ds, 0, text, figs)
    BY <1>2
  <2> HIDE DEF result
  <2>2. \E v : /\ v[0] = text
               /\ \A k \in 1 .. n : v[k] = VisualStep(ds, 0, v[k - 1], figs[k])
               /\ result = v[n]
    BY <2>0, <2>1, VisualsUnroll
  <2> QED BY <2>2, Zenon DEF result
<1> DEFINE S == {k \in Nat : k <= n => Keeps(v[k], text, T)}
<1>4. 0 \in S
  BY <1>3, KeepsNothing
<1>5. ASSUME NEW k \in Nat, k \in S PROVE k + 1 \in S
  <2> SUFFICES ASSUME k + 1 <= n PROVE Keeps(v[k + 1], text, T)
    BY <1>1
  <2> DEFINE f == figs[k + 1]
             at == <<f, 0>>
             token == Answer(at, at)
             accepted == at \in ToSet(AcceptedIds(ds))
             rejected == DispositionOf(ds, at) = "reject"
  <2>1. Keeps(v[k], text, T) /\ IsSeq(v[k])
    BY <1>1, <1>5 DEF Keeps
  <2>2. k + 1 \in 1 .. n /\ (k + 1) - 1 = k
    BY <1>1
  <2>3. v[k + 1] = VisualStep(ds, 0, v[k], f) /\ f \in ToSet(figs)
    BY <1>1, <1>3, <2>2
  <2>4. token.k \in Added
    BY DEF Answer, Added
  <2> HIDE DEF token
  <2>5. \/ accepted /\ v[k + 1] = Substitute(v[k], FirstOf(v[k], "cand", at), token)
        \/ rejected /\ v[k + 1] = Delete(v[k], FirstOf(v[k], "cand", at))
        \/ v[k + 1] = v[k]
    BY <2>3 DEF VisualStep, token
  <2>6. accepted \/ rejected => \A t \in T : ~(t.k = "cand" /\ t.id = at)
    BY <2>3 DEF UnreviewedOnly
  <2> HIDE DEF at, accepted, rejected
  <2>7. CASE accepted \/ rejected
    <3>1. /\ Keeps(Substitute(v[k], FirstOf(v[k], "cand", at), token), v[k], T)
          /\ Keeps(Delete(v[k], FirstOf(v[k], "cand", at)), v[k], T)
      BY <2>1, <2>4, <2>6, <2>7, SubstituteKeeps
    <3>2. Keeps(v[k + 1], v[k], T)
      BY <2>1, <2>5, <3>1, KeepsNothing
    <3> QED BY <2>1, <3>2, KeepsTwice
  <2>8. CASE ~(accepted \/ rejected)
    BY <2>1, <2>5, <2>8
  <2> QED BY <2>7, <2>8
<1> HIDE DEF S
<1>6. Nat \subseteq S
  BY <1>4, <1>5, Numbers!NumberInduction
<1> QED BY <1>1, <1>3, <1>6 DEF S

\* The texts that the pass over the answers goes through.
LEMMA AnswersUnroll ==
  ASSUME NEW base, NEW list, NEW n \in Nat, DOMAIN list = 1 .. n,
         NEW result, result = AnswerPass!Fold(0, 0, base, list)
  PROVE  \E v : /\ v[0] = base
                /\ \A k \in 1 .. n : v[k] = AnswerStep(0, 0, v[k - 1], list[k])
                /\ result = v[n]
BY AnswerPass!FoldUnrolls

\* The pass over the answers takes placeholders, and nothing else.
LEMMA AnswersKept ==
  ASSUME NEW text, IsSeq(text), NEW ds, IsSeq(ds), NEW T, \A t \in T : t.k # "ph"
  PROVE  Keeps(ApplyDeterministicAnswers(text, ds), text, T)
<1> DEFINE ids == AcceptedIds(ds)
           n == Len(ids)
<1>1. n \in Nat /\ DOMAIN ids = 1 .. n
  <2> DEFINE P == {i \in DOMAIN ds : ds[i].disp \in {"accept", "accept_suggestion"}}
             chosen == Selection(ds, P)
  <2>1. ids = Ids(chosen)
    BY DEF AcceptedIds
  <2>2. IsSeq(chosen)
    <3> HIDE DEF P
    <3> QED BY SelectionFacts
  <2> HIDE DEF chosen
  <2> QED BY <2>1, <2>2, IdsFacts, SeqFacts
<1>2. ApplyDeterministicAnswers(text, ds) = AnswerPass!Fold(0, 0, text, ids)
  BY DEF ApplyDeterministicAnswers, AnswerStep, FoldLeft, MapThenFoldSet, Max,
         AnswerPass!Fold, AnswerPass!FoldLeft, AnswerPass!MapThenFoldSet, AnswerPass!Max
<1> HIDE DEF n, ids
<1>3. PICK v : /\ v[0] = text
               /\ \A k \in 1 .. n : v[k] = AnswerStep(0, 0, v[k - 1], ids[k])
               /\ ApplyDeterministicAnswers(text, ds) = v[n]
  <2>0. n \in Nat /\ DOMAIN ids = 1 .. n
    BY <1>1
  <2> DEFINE result == ApplyDeterministicAnswers(text, ds)
  <2>1. result = AnswerPass!Fold(0, 0, text, ids)
    BY <1>2
  <2> HIDE DEF result
  <2>2. \E v : /\ v[0] = text
               /\ \A k \in 1 .. n : v[k] = AnswerStep(0, 0, v[k - 1], ids[k])
               /\ result = v[n]
    BY <2>0, <2>1, AnswersUnroll
  <2> QED BY <2>2, Zenon DEF result
<1> DEFINE S == {k \in Nat : k <= n => Keeps(v[k], text, T)}
<1>4. 0 \in S
  BY <1>3, KeepsNothing
<1>5. ASSUME NEW k \in Nat, k \in S PROVE k + 1 \in S
  <2> SUFFICES ASSUME k + 1 <= n PROVE Keeps(v[k + 1], text, T)
    BY <1>1
  <2> DEFINE i == SelectInSeq(v[k], LAMBDA t : t.k = "ph")
             token == Answer(ids[k + 1], v[k][i].id)
  <2>1. Keeps(v[k], text, T) /\ IsSeq(v[k])
    BY <1>1, <1>5 DEF Keeps
  <2>2. k + 1 \in 1 .. n /\ (k + 1) - 1 = k
    BY <1>1
  <2>3. v[k + 1] = AnswerStep(0, 0, v[k], ids[k + 1])
    BY <1>3, <2>2
  <2>4. token.k \in Added
    BY DEF Answer, Added
  <2>5. v[k + 1] = IF i = 0 THEN v[k] ELSE ReplaceAt(v[k], i, token)
    BY <2>3 DEF AnswerStep
  <2>6. i = 0 \/ (i \in 1 .. Len(v[k]) /\ v[k][i].k = "ph")
    BY <2>1, FirstKindFacts
  <2> HIDE DEF i, token
  <2>7. CASE i = 0
    BY <2>1, <2>5, <2>7
  <2>8. CASE i \in 1 .. Len(v[k]) /\ v[k][i].k = "ph" /\ i # 0
    <3>1. /\ IsSeq(ReplaceAt(v[k], i, token))
          /\ ToSet(ReplaceAt(v[k], i, token)) \subseteq ToSet(v[k]) \cup {token}
          /\ \A y \in ToSet(v[k]) : y = v[k][i] \/ y \in ToSet(ReplaceAt(v[k], i, token))
      BY <2>1, <2>8, ReplaceFacts
    <3>2. v[k][i] \notin T
      BY <2>8
    <3>3. Keeps(v[k + 1], v[k], T)
      BY <2>4, <2>5, <2>8, <3>1, <3>2 DEF Keeps
    <3> QED BY <2>1, <3>3, KeepsTwice
  <2> QED BY <2>6, <2>7, <2>8
<1> HIDE DEF S
<1>6. Nat \subseteq S
  BY <1>4, <1>5, Numbers!NumberInduction
<1> QED BY <1>1, <1>3, <1>6 DEF S

\* The answers go where placeholders are; the decision log comes behind the text if
\* an answer was accepted.
LEMMA DecisionsKept ==
  ASSUME NEW text, IsSeq(text), NEW ds, IsSeq(ds), NEW T, \A t \in T : t.k # "ph"
  PROVE  /\ Keeps(ApplyReviewerDecisions(text, ds), text, T)
         /\ AcceptedIds(ds) # <<>> => DecisionLog(ds) \in ToSet(ApplyReviewerDecisions(text, ds))
<1> DEFINE filled == ApplyDeterministicAnswers(text, ds)
           log == DecisionLog(ds)
<1>1. Keeps(filled, text, T)
  BY AnswersKept
<1>2. ApplyReviewerDecisions(text, ds) =
        IF AcceptedIds(ds) = <<>> THEN filled ELSE Append(filled, log)
  BY DEF ApplyReviewerDecisions
<1>3. log.k \in Added
  BY DEF DecisionLog, Added
<1> HIDE DEF filled, log
<1>4. IsSeq(Append(filled, log)) /\ ToSet(Append(filled, log)) = ToSet(filled) \cup {log}
  BY <1>1, AppendFacts DEF Keeps
<1>5. Keeps(Append(filled, log), text, T)
  BY <1>1, <1>3, <1>4 DEF Keeps
<1> QED BY <1>1, <1>2, <1>4, <1>5 DEF log

\* What is dropped begins at the review markers.
LEMMA DropFacts ==
  ASSUME NEW text, IsSeq(text)
  PROVE  /\ IsSeq(DropReviewMarkers(text))
         /\ ToSet(DropReviewMarkers(text)) \subseteq ToSet(text)
         /\ \A t \in ToSet(DropReviewMarkers(text)) : t.k # "mark"
         /\ (\A t \in ToSet(text) : t.k # "mark") => DropReviewMarkers(text) = text
<1> DEFINE i == SelectInSeq(text, LAMBDA t : t.k = "mark")
           r == DropReviewMarkers(text)
<1>1. r = IF i = 0 THEN text ELSE SubSeq(text, 1, i - 1)
  BY DEF DropReviewMarkers
<1>2. \/ i = 0 /\ \A j \in 1 .. Len(text) : text[j].k # "mark"
      \/ /\ i \in 1 .. Len(text) /\ text[i].k = "mark"
         /\ \A j \in 1 .. (i - 1) : text[j].k # "mark"
  BY FirstKindFacts
<1>3. /\ Len(text) \in Nat
      /\ \A j \in 1 .. Len(text) : text[j] \in ToSet(text)
      /\ \A x \in ToSet(text) : \E j \in 1 .. Len(text) : text[j] = x
  BY SeqFacts
<1> HIDE DEF i, r
<1>4. CASE i = 0
  BY <1>1, <1>2, <1>3, <1>4 DEF r
<1>5. CASE i # 0
  <2>1. i \in 1 .. Len(text) /\ text[i].k = "mark" /\ \A j \in 1 .. (i - 1) : text[j].k # "mark"
    BY <1>2, <1>5
  <2>2. 1 \in 1 .. (Len(text) + 1) /\ i - 1 \in 0 .. Len(text)
    BY <1>3, <2>1
  <2>3. r = SubSeq(text, 1, i - 1)
    BY <1>1, <1>5
  <2>4. IsSeq(r) /\ \A x \in ToSet(r) : \E j \in 1 .. (i - 1) : x = text[j]
    BY <2>2, <2>3, PartFacts
  <2>5. \A j \in 1 .. (i - 1) : j \in 1 .. Len(text)
    BY <1>3, <2>1
  <2> QED BY <1>3, <2>1, <2>4, <2>5 DEF r
<1> QED BY <1>4, <1>5

-----------------------------------------------------------------------------
(* The references and the appendix *)

\* The prose before a figure is the text of a span, or nothing.
LEMMA AnchorIsSeq ==
  ASSUME NEW doc, SourceIsRead(doc), NEW f
  PROVE  IsSeq(AnchorText(doc, f))
<1>0. Len(SpanOrder) \in Nat /\ DOMAIN SpanOrder = 1 .. Len(SpanOrder)
      /\ \A i \in 1 .. Len(SpanOrder) : SpanOrder[i] \in Spans
  BY OrderFacts
<1>1. ASSUME NEW i \in 1 .. Len(SpanOrder) PROVE IsSeq(AnchorAt(doc, f, i))
  <2> DEFINE home == doc[SpanOrder[i]].home
             before == {j \in 1 .. (IF f \in Leading THEN i - 1 ELSE i) :
                          home \in {doc[SpanOrder[j]].home, ""}}
  <2>1. AnchorAt(doc, f, i) = IF before = {} THEN <<>> ELSE SpanText(doc, SpanOrder[Max(before)])
    BY DEF AnchorAt
  <2>2. before \in SUBSET (1 .. Len(SpanOrder))
    <3> DEFINE last == IF f \in Leading THEN i - 1 ELSE i
    <3>1. last <= Len(SpanOrder) /\ last \in Int
      BY <1>0
    <3>2. before \subseteq 1 .. last
      OBVIOUS
    <3> HIDE DEF last, before
    <3> QED BY <1>0, <3>1, <3>2
  <2> HIDE DEF before
  <2>3. CASE before = {}
    BY <2>1, <2>3, EmptyIsSeq
  <2>4. CASE before # {}
    <3>1. Max(before) \in 1 .. Len(SpanOrder)
      BY <1>0, <2>2, <2>4, LeastOf
    <3> DEFINE span == SpanOrder[Max(before)]
    <3>2. span \in Spans /\ AnchorAt(doc, f, i) = SpanText(doc, span)
      BY <1>0, <2>1, <2>4, <3>1
    <3> HIDE DEF span
    <3> QED BY <3>2, SpanTextFacts
  <2> QED BY <2>3, <2>4
<1> DEFINE places == {i \in DOMAIN SpanOrder :
                        SpanOrder[i] \in FigureSpans[f] /\ AnchorAt(doc, f, i) # <<>>}
<1>2. AnchorText(doc, f) = IF places = {} THEN <<>> ELSE AnchorAt(doc, f, Min(places))
  BY DEF AnchorText
<1>3. places \in SUBSET (1 .. Len(SpanOrder))
  BY <1>0
<1> HIDE DEF places
<1>4. CASE places = {}
  BY <1>2, <1>4, EmptyIsSeq
<1>5. CASE places # {}
  <2>1. Min(places) \in 1 .. Len(SpanOrder)
    BY <1>0, <1>3, <1>5, LeastOf
  <2> QED BY <1>1, <1>2, <1>5, <2>1
<1> QED BY <1>4, <1>5

\* A section ends behind its heading, at the end of the text at the latest.
LEMMA SectionEnds ==
  ASSUME NEW text, IsSeq(text), NEW i \in 0 .. Len(text)
  PROVE  SectionEnd(text, i) \in (i + 1) .. (Len(text) + 1)
<1> DEFINE n == Len(text)
           E(j) == j = n + 1 \/ IsHeading(text[j])
           C == {j \in (i + 1) .. (n + 1) : E(j)}
<1>0. n \in Nat /\ i \in Nat /\ i <= n
  BY SeqFacts
<1> HIDE DEF n
<1>1. n + 1 \in C /\ C \in SUBSET Nat
  BY <1>0
<1>2. PICK k \in C : \A j \in C : k <= j
  <2> HIDE DEF C
  <2> QED BY <1>1, Numbers!LeastNumber
<1>3. k \in (i + 1) .. (n + 1) /\ E(k)
  OBVIOUS
<1>4. ASSUME NEW l \in (i + 1) .. (k - 1) PROVE ~IsHeading(text[l])
  <2>1. l \in (i + 1) .. (n + 1) /\ ~(k <= l)
    BY <1>0, <1>3
  <2>2. l \notin C
    BY <1>2, <2>1
  <2> QED BY <2>1, <2>2
<1> DEFINE End(j) == E(j) /\ \A l \in (i + 1) .. (j - 1) : ~IsHeading(text[l])
<1>5. k \in (i + 1) .. (n + 1) /\ End(k)
  BY <1>3, <1>4
<1>6. SectionEnd(text, i) = CHOOSE j \in (i + 1) .. (n + 1) : End(j)
  BY DEF SectionEnd, n
<1> HIDE DEF End
<1> QED BY <1>5, <1>6 DEF n

\* A reference finds no place, or one in the text or behind it.
LEMMA PlaceIsInText ==
  ASSUME NEW text, IsSeq(text), NEW doc, SourceIsRead(doc), NEW f
  PROVE  ReferencePlace(text, doc, f) = 0 \/ ReferencePlace(text, doc, f) \in 1 .. (Len(text) + 1)
<1> DEFINE anchor == AnchorText(doc, f)
           places == Places(text, anchor)
           headings == MatchingHeadings(text, doc, f)
<1>1. ReferencePlace(text, doc, f) =
        IF anchor # <<>> /\ Cardinality(places) = 1
        THEN (CHOOSE i \in places : TRUE) + Len(anchor)
        ELSE IF headings # {}
             THEN SectionEnd(text, CHOOSE i \in headings : \A j \in headings : i <= j)
             ELSE 0
  BY DEF ReferencePlace
<1>2. Len(text) \in Nat /\ DOMAIN text = 1 .. Len(text) /\ IsSeq(anchor) /\ Len(anchor) \in Nat
  BY SeqFacts, AnchorIsSeq
<1>3. \A i \in places : i \in 1 .. (Len(text) - Len(anchor) + 1)
  BY DEF Places
<1>4. headings \in SUBSET (0 .. Len(text))
  BY <1>2 DEF MatchingHeadings
<1> HIDE DEF anchor, places, headings
<1>5. CASE anchor # <<>> /\ Cardinality(places) = 1
  <2>1. places # {}
    BY <1>5, FS_EmptySet
  <2>2. (CHOOSE i \in places : TRUE) \in 1 .. (Len(text) - Len(anchor) + 1)
    BY <1>3, <2>1
  <2> QED BY <1>1, <1>2, <1>5, <2>2
<1>6. CASE ~(anchor # <<>> /\ Cardinality(places) = 1) /\ headings # {}
  <2> DEFINE first == CHOOSE i \in headings : \A j \in headings : i <= j
  <2>1. \E i \in headings : \A j \in headings : i <= j
    <3>1. headings \in SUBSET Nat
      BY <1>4
    <3> QED BY <1>6, <3>1, Numbers!LeastNumber
  <2>2. first \in 0 .. Len(text)
    BY <1>4, <2>1
  <2>3. ReferencePlace(text, doc, f) = SectionEnd(text, first)
    BY <1>1, <1>6
  <2> HIDE DEF first
  <2>4. SectionEnd(text, first) \in (first + 1) .. (Len(text) + 1)
    BY <2>2, SectionEnds
  <2> QED BY <1>2, <2>2, <2>3, <2>4
<1>7. CASE ~(anchor # <<>> /\ Cardinality(places) = 1) /\ headings = {}
  BY <1>1, <1>7
<1> QED BY <1>5, <1>6, <1>7

\* The states a placement of references goes through.
LEMMA PlacementUnrolls ==
  ASSUME NEW doc, NEW base, NEW order, NEW n \in Nat, DOMAIN order = 1 .. n,
         NEW result, result = PlacePass!Fold(doc, 0, base, order)
  PROVE  \E v : /\ v[0] = base
                /\ \A k \in 1 .. n : v[k] = PlaceStep(doc, 0, v[k - 1], order[k])
                /\ result = v[n]
BY PlacePass!FoldUnrolls

\* The appendix drops no token but references, and adds none but references, their
\* heading and entries.
LEMMA AppendixKeeps ==
  ASSUME NEW text, IsSeq(text), NEW doc, SourceIsRead(doc), NEW T, \A t \in T : t.k # "fig"
  PROVE  Keeps(ComposeFigureAppendix(text, doc), text, T)
<1> DEFINE n == Len(FigureOrder)
           P == {i \in DOMAIN text : text[i].k # "fig"}
           prose == Selection(text, P)
           start == [text |-> prose, unplaced |-> <<>>]
           placed == PlacePass!Fold(doc, 0, start, FigureOrder)
           refs == IF placed.unplaced = <<>> THEN <<>>
                   ELSE <<Token("refs", <<"refs", 0>>)>> \o placed.unplaced
           shots == [i \in DOMAIN FigureOrder |-> Screenshot(doc, FigureOrder[i])]
<1>1. n \in Nat /\ DOMAIN FigureOrder = 1 .. n
  <2>1. IsSeq(FigureOrder)
    BY FiguresAreOrdered DEF IsSeq
  <2> QED BY <2>1, SeqFacts
<1>2. ComposeFigureAppendix(text, doc) = (placed.text \o refs) \o shots
  <2>1. ComposeFigureAppendix(text, doc) = placed.text \o refs \o shots
    BY DEF ComposeFigureAppendix, PlaceStep, FoldLeft, MapThenFoldSet, Max,
           PlacePass!Fold, PlacePass!FoldLeft, PlacePass!MapThenFoldSet, PlacePass!Max
  <2> QED BY <2>1
<1>3. Keeps(prose, text, T)
  <2>1. DOMAIN text = 1 .. Len(text) /\ \A x \in ToSet(text) : \E i \in 1 .. Len(text) : text[i] = x
    BY SeqFacts
  <2>2. \A i \in 1 .. Len(text) : i \in P \/ text[i].k = "fig"
    BY <2>1
  <2> HIDE DEF P
  <2>3. /\ IsSeq(prose)
        /\ \A x \in ToSet(prose) : \E i \in P \cap (1 .. Len(text)) : x = text[i]
        /\ \A i \in P \cap (1 .. Len(text)) : text[i] \in ToSet(prose)
    BY SelectionFacts
  <2> HIDE DEF prose
  <2>4. \A x \in ToSet(prose) : x \in ToSet(text)
    BY <2>3, SeqFacts
  <2>5. ASSUME NEW x \in ToSet(text) \cap T PROVE x \in ToSet(prose)
    <3>1. PICK i \in 1 .. Len(text) : text[i] = x
      BY <2>1
    <3>2. i \in P
      BY <2>2, <2>5, <3>1
    <3> QED BY <2>3, <3>1, <3>2
  <2> QED BY <2>3, <2>4, <2>5 DEF Keeps
<1> DEFINE Good(r) == /\ DOMAIN r = {"text", "unplaced"}
                      /\ Keeps(r.text, text, T)
                      /\ IsSeq(r.unplaced)
                      /\ \A x \in ToSet(r.unplaced) : x.k \in Added
<1>4. Good(start)
  <2> HIDE DEF prose
  <2> QED BY <1>3, EmptyIsSeq
<1> HIDE DEF n, start, placed
<1>5. PICK v : /\ v[0] = start
               /\ \A k \in 1 .. n : v[k] = PlaceStep(doc, 0, v[k - 1], FigureOrder[k])
               /\ placed = v[n]
  <2>1. placed = PlacePass!Fold(doc, 0, start, FigureOrder)
    BY DEF placed
  <2> QED BY <1>1, <2>1, PlacementUnrolls
<1>6. ASSUME NEW r, Good(r), NEW f PROVE Good(PlaceStep(doc, 0, r, f))
  <2> DEFINE at == ReferencePlace(r.text, doc, f)
             ref == Reference(f)
             s == PlaceStep(doc, 0, r, f)
  <2>1. IsSeq(r.text)
    BY <1>6 DEF Keeps
  <2>2. at = 0 \/ at \in 1 .. (Len(r.text) + 1)
    BY <2>1, PlaceIsInText
  <2>3. ref.k \in Added
    BY DEF Reference, Token, Added
  <2>4. s = IF at = 0 THEN [r EXCEPT !.unplaced = Append(@, ref)]
            ELSE [r EXCEPT !.text = InsertAt(@, at, ref)]
    BY DEF PlaceStep
  <2> HIDE DEF at, ref, s
  <2>5. CASE at = 0
    <3>1. DOMAIN s = {"text", "unplaced"} /\ s.text = r.text /\ s.unplaced = Append(r.unplaced, ref)
      BY <1>6, <2>4, <2>5
    <3>2. IsSeq(s.unplaced) /\ ToSet(s.unplaced) = ToSet(r.unplaced) \cup {ref}
      BY <1>6, <3>1, AppendFacts
    <3> QED BY <1>6, <2>3, <3>1, <3>2 DEF s
  <2>6. CASE at \in 1 .. (Len(r.text) + 1) /\ at # 0
    <3>1. /\ DOMAIN s = {"text", "unplaced"} /\ s.unplaced = r.unplaced
          /\ s.text = InsertAt(r.text, at, ref)
      BY <1>6, <2>4, <2>6
    <3>2. IsSeq(s.text) /\ ToSet(s.text) = ToSet(r.text) \cup {ref}
      BY <2>1, <2>6, <3>1, InsertFacts
    <3>3. Keeps(s.text, r.text, T)
      BY <2>3, <3>2 DEF Keeps
    <3>4. Keeps(s.text, text, T)
      BY <1>6, <3>3, KeepsTwice
    <3> QED BY <1>6, <3>1, <3>4 DEF s
  <2> QED BY <2>2, <2>5, <2>6
<1> DEFINE S == {k \in Nat : k <= n => Good(v[k])}
<1> HIDE DEF Good
<1>7. 0 \in S
  BY <1>4, <1>5
<1>8. ASSUME NEW k \in Nat, k \in S PROVE k + 1 \in S
  <2> SUFFICES ASSUME k + 1 <= n PROVE Good(v[k + 1])
    BY <1>1
  <2>1. Good(v[k])
    BY <1>1, <1>8
  <2>2. k + 1 \in 1 .. n /\ (k + 1) - 1 = k
    BY <1>1
  <2>3. v[k + 1] = PlaceStep(doc, 0, v[k], FigureOrder[k + 1])
    BY <1>5, <2>2
  <2> QED BY <1>6, <2>1, <2>3
<1> HIDE DEF S
<1>9. Nat \subseteq S
  BY <1>7, <1>8, Numbers!NumberInduction
<1>10. Good(placed)
  BY <1>1, <1>5, <1>9 DEF S
<1>11. /\ Keeps(placed.text, text, T)
       /\ IsSeq(placed.unplaced) /\ \A x \in ToSet(placed.unplaced) : x.k \in Added
  BY <1>10 DEF Good
<1>12. IsSeq(refs) /\ \A x \in ToSet(refs) : x.k \in Added
  <2> DEFINE heading == Token("refs", <<"refs", 0>>)
  <2>1. heading.k \in Added
    BY DEF Token, Added
  <2>2. refs = IF placed.unplaced = <<>> THEN <<>> ELSE <<heading>> \o placed.unplaced
    OBVIOUS
  <2> HIDE DEF heading, refs
  <2>3. IsSeq(<<heading>>) /\ ToSet(<<heading>>) = {heading}
    BY OneFacts
  <2>4. /\ IsSeq(<<heading>> \o placed.unplaced)
        /\ ToSet(<<heading>> \o placed.unplaced) = {heading} \cup ToSet(placed.unplaced)
    BY <1>11, <2>3, ConcatFacts
  <2> QED BY <1>11, <2>1, <2>2, <2>4, EmptyIsSeq
<1>13. IsSeq(shots) /\ \A x \in ToSet(shots) : x.k \in Added
  <2>1. shots = [i \in 1 .. n |-> shots[i]] /\ \A i \in DOMAIN shots : shots[i].k = "shot"
    BY <1>1 DEF Screenshot
  <2> HIDE DEF shots
  <2>2. IsSeq(shots)
    BY <1>1, <2>1, FunctionIsSeq
  <2> QED BY <2>1, <2>2 DEF ToSet, Added
<1> HIDE DEF refs, shots
<1>14. IsSeq(placed.text \o refs) /\ ToSet(placed.text \o refs) = ToSet(placed.text) \cup ToSet(refs)
  BY <1>11, <1>12, ConcatFacts DEF Keeps
<1>15. /\ IsSeq((placed.text \o refs) \o shots)
       /\ ToSet((placed.text \o refs) \o shots) = ToSet(placed.text \o refs) \cup ToSet(shots)
  BY <1>13, <1>14, ConcatFacts
<1> QED BY <1>2, <1>11, <1>12, <1>13, <1>14, <1>15 DEF Keeps

-----------------------------------------------------------------------------
(* The document that is revised *)

\* The callouts of some gaps.
LEMMA GapTokensFacts ==
  ASSUME NEW b, IsSeq(b.gaps), NEW ids
  PROVE  /\ IsSeq(GapTokens(b, ids))
         /\ \A t \in ToSet(GapTokens(b, ids)) : t.k = "gap"
         /\ \A g \in ToSet(b.gaps) :
              g.id \in ids => Token("gap", <<"gap", g.id>>) \in ToSet(GapTokens(b, ids))
<1> DEFINE P == {i \in DOMAIN b.gaps : b.gaps[i].id \in ids}
           shown == Selection(b.gaps, P)
           tokens == [i \in DOMAIN shown |-> Token("gap", <<"gap", shown[i].id>>)]
<1>1. GapTokens(b, ids) = tokens
  BY DEF GapTokens
<1>2. \A g \in ToSet(b.gaps) : g.id \in ids => \E i \in P \cap (1 .. Len(b.gaps)) : b.gaps[i] = g
  BY SeqFacts
<1> HIDE DEF P
<1>3. IsSeq(shown) /\ \A g \in ToSet(b.gaps) : g.id \in ids => g \in ToSet(shown)
  <2>1. IsSeq(shown) /\ \A i \in P \cap (1 .. Len(b.gaps)) : b.gaps[i] \in ToSet(shown)
    BY SelectionFacts
  <2> QED BY <1>2, <2>1
<1> HIDE DEF shown
<1>4. /\ DOMAIN shown = 1 .. Len(shown) /\ Len(shown) \in Nat
      /\ \A x \in ToSet(shown) : \E i \in 1 .. Len(shown) : shown[i] = x
  BY <1>3, SeqFacts
<1>5. /\ tokens = [i \in 1 .. Len(shown) |-> tokens[i]]
      /\ DOMAIN tokens = 1 .. Len(shown)
      /\ \A i \in 1 .. Len(shown) : tokens[i] = Token("gap", <<"gap", shown[i].id>>)
  BY <1>4
<1> HIDE DEF tokens
<1>6. IsSeq(tokens)
  BY <1>4, <1>5, FunctionIsSeq
<1>7. \A t \in ToSet(tokens) : t.k = "gap"
  BY <1>5 DEF ToSet, Token
<1>8. ASSUME NEW g \in ToSet(b.gaps), g.id \in ids
      PROVE  Token("gap", <<"gap", g.id>>) \in ToSet(tokens)
  <2>1. PICK i \in 1 .. Len(shown) : shown[i] = g
    BY <1>3, <1>4, <1>8
  <2>2. tokens[i] = Token("gap", <<"gap", g.id>>)
    BY <1>5, <2>1
  <2> QED BY <1>5, <2>2 DEF ToSet
<1> QED BY <1>1, <1>6, <1>7, <1>8

\* The kinds of tokens of the document before its review markers.
BodyKinds == {"head", "text", "ph", "fig", "gap"}

\* A section shows its heading, its text and the callouts of its gaps.
LEMMA SectionFacts ==
  ASSUME NEW b, IsSeq(b.gaps), NEW section, TextIsSource(section.text)
  PROVE  /\ IsSeq(RenderSection(b, section))
         /\ \A t \in ToSet(RenderSection(b, section)) : t.k \in BodyKinds
         /\ \A g \in ToSet(b.gaps) : g.id \in section.gaps =>
              Token("gap", <<"gap", g.id>>) \in ToSet(RenderSection(b, section))
<1> DEFINE heading == Token("head", <<section.id, 0>>)
           callouts == GapTokens(b, section.gaps)
<1>1. RenderSection(b, section) = (<<heading>> \o section.text) \o callouts
  <2>1. RenderSection(b, section) = <<heading>> \o section.text \o callouts
    BY DEF RenderSection
  <2> QED BY <2>1
<1>2. heading.k = "head"
  BY DEF Token
<1>3. /\ IsSeq(callouts) /\ \A t \in ToSet(callouts) : t.k = "gap"
      /\ \A g \in ToSet(b.gaps) : g.id \in section.gaps => Token("gap", <<"gap", g.id>>) \in ToSet(callouts)
  BY GapTokensFacts
<1> HIDE DEF heading, callouts
<1>4. IsSeq(<<heading>>) /\ ToSet(<<heading>>) = {heading}
  BY OneFacts
<1>5. /\ IsSeq(<<heading>> \o section.text)
      /\ ToSet(<<heading>> \o section.text) = {heading} \cup ToSet(section.text)
  BY <1>4, ConcatFacts DEF TextIsSource
<1>6. /\ IsSeq((<<heading>> \o section.text) \o callouts)
      /\ ToSet((<<heading>> \o section.text) \o callouts) =
           ToSet(<<heading>> \o section.text) \cup ToSet(callouts)
  BY <1>3, <1>5, ConcatFacts
<1>7. \A t \in {heading} \cup ToSet(section.text) \cup ToSet(callouts) : t.k \in BodyKinds
  BY <1>2, <1>3 DEF TextIsSource, SourceKinds, BodyKinds
<1> QED BY <1>1, <1>3, <1>5, <1>6, <1>7

\* The gaps of some section.
PlacedGaps(b) == UNION {s.gaps : s \in ToSet(b.sections)}

\* The questions that no such gap is linked to.
AloneQuestions(b) ==
    LET asked == {g.question : g \in {h \in ToSet(b.gaps) : h.id \in PlacedGaps(b)}}
    IN  Selection(b.questions, {i \in DOMAIN b.questions : b.questions[i].id \notin asked})

\* Every gap is called out; without review markers nothing else is added.
LEMMA RenderFacts ==
  ASSUME NEW m, MappingIsSound(m), NEW d, DraftIsOf(d, m)
  PROVE  /\ IsSeq(RenderMarkdown(d))
         /\ \A g \in ToSet(m.gaps) : Token("gap", <<"gap", g.id>>) \in ToSet(RenderMarkdown(d))
         /\ ({g.id : g \in ToSet(d.gaps)} \subseteq PlacedGaps(d) /\ AloneQuestions(d) = <<>>) =>
              \A t \in ToSet(RenderMarkdown(d)) : t.k \in BodyKinds
<1> DEFINE unplaced == {g.id : g \in ToSet(d.gaps)} \ PlacedGaps(d)
           alone == AloneQuestions(d)
           parts == [i \in DOMAIN SectionOrder |->
                       RenderSection(d, Named(d.sections, SectionOrder[i]))]
           body == FlattenSeq(parts)
           marker == Token("mark", <<"mark", 0>>)
           asks == [i \in DOMAIN alone |-> Token("ask", alone[i].id)]
           callouts == GapTokens(d, unplaced)
<1>1. RenderMarkdown(d) = IF unplaced = {} /\ alone = <<>> THEN body
                          ELSE ((body \o <<marker>>) \o callouts) \o asks
  <2>1. RenderMarkdown(d) = IF unplaced = {} /\ alone = <<>> THEN body
                            ELSE body \o <<marker>> \o callouts \o asks
    BY DEF RenderMarkdown, AloneQuestions, PlacedGaps
  <2> QED BY <2>1
<1>2. /\ d.gaps = m.gaps /\ IsSeq(d.gaps) /\ IsSeq(d.questions)
      /\ IsSeq(d.sections) /\ DOMAIN d.sections = 1 .. Len(d.sections)
      /\ DOMAIN m.sections = DOMAIN d.sections
  BY SeqFacts DEF MappingIsSound, AnswerIsParsed, DraftIsOf
<1>3. \A i \in 1 .. Len(d.sections) :
        /\ d.sections[i].id = m.sections[i].id
        /\ TextIsSource(d.sections[i].text)
  BY <1>2 DEF DraftIsOf
<1>4. /\ \A i, j \in 1 .. Len(d.sections) : d.sections[i].id = d.sections[j].id => i = j
      /\ \A id \in Sections : \E i \in 1 .. Len(d.sections) : d.sections[i].id = id
      /\ \A i \in 1 .. Len(d.sections) : d.sections[i].id \in Sections
  <2>1. IsSeq(m.sections) /\ IsInjective(Ids(m.sections)) /\ IdsOf(m.sections) = Sections
    BY DEF MappingIsSound, AnswerIsParsed, CoverageValid, IdsUnique, IdsOf
  <2>2. 1 .. Len(m.sections) = 1 .. Len(d.sections)
    BY <1>2, <2>1, SeqFacts
  <2>3. /\ DOMAIN Ids(m.sections) = 1 .. Len(m.sections)
        /\ \A i \in 1 .. Len(m.sections) : Ids(m.sections)[i] = m.sections[i].id /\ m.sections[i].id \in Sections
        /\ \A id \in Sections : \E i \in 1 .. Len(m.sections) : m.sections[i].id = id
    BY <2>1, IdsFacts
  <2>4. \A i, j \in 1 .. Len(m.sections) : m.sections[i].id = m.sections[j].id => i = j
    BY <2>1, <2>3 DEF IsInjective
  <2> QED BY <1>3, <2>2, <2>3, <2>4
<1>5. \A i \in 1 .. Len(d.sections) : Named(d.sections, d.sections[i].id) = d.sections[i]
  BY <1>2, <1>4 DEF Named
<1>6. ASSUME NEW n \in 1 .. Len(SectionOrder)
      PROVE  /\ IsSeq(parts[n])
             /\ \A t \in ToSet(parts[n]) : t.k \in BodyKinds
             /\ \A g \in ToSet(d.gaps) : g.id \in Named(d.sections, SectionOrder[n]).gaps =>
                  Token("gap", <<"gap", g.id>>) \in ToSet(parts[n])
  <2> DEFINE section == Named(d.sections, SectionOrder[n])
  <2>1. parts[n] = RenderSection(d, section)
    BY OrderFacts
  <2>2. PICK i \in 1 .. Len(d.sections) : d.sections[i].id = SectionOrder[n]
    BY <1>4, OrderFacts
  <2>3. section = d.sections[i]
    BY <1>5, <2>2
  <2> HIDE DEF section, parts
  <2>4. TextIsSource(section.text)
    BY <1>3, <2>3
  <2>5. /\ IsSeq(RenderSection(d, section))
        /\ \A t \in ToSet(RenderSection(d, section)) : t.k \in BodyKinds
        /\ \A g \in ToSet(d.gaps) : g.id \in section.gaps =>
             Token("gap", <<"gap", g.id>>) \in ToSet(RenderSection(d, section))
    BY <1>2, <2>4, SectionFacts
  <2> QED BY <2>1, <2>5 DEF section
<1>7. parts = [i \in 1 .. Len(SectionOrder) |-> parts[i]] /\ Len(SectionOrder) \in Nat
  BY OrderFacts
<1> HIDE DEF parts
<1>8. IsSeq(parts) /\ Len(parts) = Len(SectionOrder)
  BY <1>7, FunctionIsSeq
<1>9. /\ IsSeq(body)
      /\ \A t \in ToSet(body) : \E i \in 1 .. Len(SectionOrder) : t \in ToSet(parts[i])
      /\ \A i \in 1 .. Len(SectionOrder) : ToSet(parts[i]) \subseteq ToSet(body)
  BY <1>6, <1>8, FlattenFacts
<1> HIDE DEF body
<1>10. \A t \in ToSet(body) : t.k \in BodyKinds
  BY <1>6, <1>9
<1>11. ASSUME NEW g \in ToSet(d.gaps), g.id \in PlacedGaps(d)
       PROVE  Token("gap", <<"gap", g.id>>) \in ToSet(body)
  <2>1. PICK s \in ToSet(d.sections) : g.id \in s.gaps
    BY <1>11 DEF PlacedGaps
  <2>2. PICK i \in 1 .. Len(d.sections) : d.sections[i] = s
    BY <1>2, SeqFacts
  <2>3. PICK n \in 1 .. Len(SectionOrder) : SectionOrder[n] = s.id
    BY <1>4, <2>2, OrderFacts
  <2>4. Named(d.sections, SectionOrder[n]) = s
    BY <1>5, <2>2, <2>3
  <2>5. Token("gap", <<"gap", g.id>>) \in ToSet(parts[n])
    BY <1>6, <2>1, <2>4
  <2> QED BY <1>9, <2>5
<1>12. CASE unplaced = {} /\ alone = <<>>
  <2>1. RenderMarkdown(d) = body
    BY <1>1, <1>12
  <2>2. \A g \in ToSet(m.gaps) : g.id \in PlacedGaps(d)
    BY <1>2, <1>12
  <2> QED BY <1>2, <1>9, <1>10, <1>11, <2>1, <2>2
<1>13. CASE ~(unplaced = {} /\ alone = <<>>)
  <2>0. ~({g.id : g \in ToSet(d.gaps)} \subseteq PlacedGaps(d) /\ AloneQuestions(d) = <<>>)
    BY <1>13
  <2>1. RenderMarkdown(d) = ((body \o <<marker>>) \o callouts) \o asks
    BY <1>1, <1>13
  <2>2. /\ IsSeq(callouts)
        /\ \A g \in ToSet(d.gaps) : g.id \in unplaced => Token("gap", <<"gap", g.id>>) \in ToSet(callouts)
    BY <1>2, GapTokensFacts
  <2>3. IsSeq(asks)
    <3>1. IsSeq(alone)
      <4> DEFINE Q == {i \in DOMAIN d.questions : d.questions[i].id \notin
                         {g.question : g \in {h \in ToSet(d.gaps) : h.id \in PlacedGaps(d)}}}
      <4>1. alone = Selection(d.questions, Q)
        BY DEF AloneQuestions
      <4> HIDE DEF Q, alone
      <4> QED BY <1>2, <4>1, SelectionFacts
    <3> HIDE DEF alone
    <3>2. DOMAIN alone = 1 .. Len(alone) /\ Len(alone) \in Nat
      BY <3>1, SeqFacts
    <3>3. asks = [i \in 1 .. Len(alone) |-> asks[i]]
      BY <3>2
    <3> HIDE DEF asks
    <3> QED BY <3>2, <3>3, FunctionIsSeq
  <2>4. \A g \in ToSet(d.gaps) : g.id \in unplaced \/ g.id \in PlacedGaps(d)
    OBVIOUS
  <2> HIDE DEF unplaced, alone, marker, callouts, asks
  <2>5. IsSeq(body \o <<marker>>) /\ ToSet(body) \subseteq ToSet(body \o <<marker>>)
    BY <1>9, OneFacts, ConcatFacts
  <2>6. /\ IsSeq((body \o <<marker>>) \o callouts)
        /\ ToSet((body \o <<marker>>) \o callouts) = ToSet(body \o <<marker>>) \cup ToSet(callouts)
    BY <2>2, <2>5, ConcatFacts
  <2>7. /\ IsSeq(((body \o <<marker>>) \o callouts) \o asks)
        /\ ToSet(((body \o <<marker>>) \o callouts) \o asks) =
             ToSet((body \o <<marker>>) \o callouts) \cup ToSet(asks)
    BY <2>3, <2>6, ConcatFacts
  <2>8. \A g \in ToSet(d.gaps) : Token("gap", <<"gap", g.id>>) \in ToSet(RenderMarkdown(d))
    BY <1>11, <2>1, <2>2, <2>4, <2>5, <2>6, <2>7
  <2> QED BY <1>2, <2>0, <2>1, <2>7, <2>8
<1> QED BY <1>12, <1>13

\* The candidate draft is the document with the candidates behind it.
LEMMA CandidateFacts ==
  ASSUME NEW d, IsSeq(RenderMarkdown(d)), NEW figs, IsSeq(figs)
  PROVE  /\ IsSeq(CandidateDraft(d, figs))
         /\ ToSet(RenderMarkdown(d)) \subseteq ToSet(CandidateDraft(d, figs))
         /\ \A f \in ToSet(figs) : Token("cand", <<f, 0>>) \in ToSet(CandidateDraft(d, figs))
         /\ \A t \in ToSet(CandidateDraft(d, figs)) : t \in ToSet(RenderMarkdown(d)) \/ t.k = "cand"
<1> DEFINE cands == [i \in DOMAIN figs |-> Token("cand", <<figs[i], 0>>)]
           text == RenderMarkdown(d)
<1>1. CandidateDraft(d, figs) = text \o cands
  BY DEF CandidateDraft
<1>2. /\ DOMAIN figs = 1 .. Len(figs) /\ Len(figs) \in Nat
      /\ \A f \in ToSet(figs) : \E i \in 1 .. Len(figs) : figs[i] = f
  BY SeqFacts
<1>3. /\ cands = [i \in 1 .. Len(figs) |-> cands[i]] /\ DOMAIN cands = 1 .. Len(figs)
      /\ \A i \in 1 .. Len(figs) : cands[i] = Token("cand", <<figs[i], 0>>)
  BY <1>2
<1> HIDE DEF cands, text
<1>4. IsSeq(cands)
  BY <1>2, <1>3, FunctionIsSeq
<1>5. IsSeq(text \o cands) /\ ToSet(text \o cands) = ToSet(text) \cup ToSet(cands)
  BY <1>4, ConcatFacts DEF text
<1>6. \A f \in ToSet(figs) : Token("cand", <<f, 0>>) \in ToSet(cands)
  BY <1>2, <1>3 DEF ToSet
<1>7. \A t \in ToSet(cands) : t.k = "cand"
  BY <1>3 DEF ToSet, Token
<1> QED BY <1>1, <1>5, <1>6, <1>7 DEF text

-----------------------------------------------------------------------------
(* The final document *)

\* An accepted question is not deferred, left out or rejected.
LEMMA AcceptedDisposition ==
  ASSUME NEW ds, IsSeq(ds), IsInjective(Ids(ds)), NEW id \in ToSet(AcceptedIds(ds))
  PROVE  DispositionOf(ds, id) \in {"accept", "accept_suggestion"}
<1> DEFINE P == {i \in DOMAIN ds : ds[i].disp \in {"accept", "accept_suggestion"}}
           chosen == Selection(ds, P)
<1>1. AcceptedIds(ds) = Ids(chosen)
  BY DEF AcceptedIds
<1>2. \A i \in P : ds[i].disp \in {"accept", "accept_suggestion"}
  OBVIOUS
<1> HIDE DEF P
<1>3. IsSeq(chosen) /\ \A x \in ToSet(chosen) : \E i \in P \cap (1 .. Len(ds)) : x = ds[i]
  BY SelectionFacts
<1> HIDE DEF chosen
<1>4. PICK j \in 1 .. Len(chosen) : chosen[j].id = id
  BY <1>1, <1>3, IdsFacts DEF IdsOf
<1>5. PICK i \in P \cap (1 .. Len(ds)) : chosen[j] = ds[i]
  BY <1>3, SeqFacts
<1>6. /\ DOMAIN Ids(ds) = 1 .. Len(ds) /\ DOMAIN ds = 1 .. Len(ds)
      /\ \A k \in 1 .. Len(ds) : Ids(ds)[k] = ds[k].id /\ ds[k].id \in IdsOf(ds)
  BY IdsFacts, SeqFacts
<1>7. \A k \in 1 .. Len(ds) : ds[k].id = id => k = i
  BY <1>4, <1>5, <1>6 DEF IsInjective
<1>8. Named(ds, id) = ds[i]
  BY <1>4, <1>5, <1>6, <1>7 DEF Named
<1>9. DispositionOf(ds, id) = ds[i].disp
  BY <1>4, <1>5, <1>6, <1>8 DEF DispositionOf, IdsOf
<1> QED BY <1>2, <1>5, <1>9

\* All steps of the revision but the last.
Revised(text, gaps, figs, ds, ws) ==
    ApplyReviewerDecisions(ReviseVisuals(ReviseGaps(text, gaps, ds, ws), figs, ds), ds)

\* The three passes together keep what each keeps, and log the decisions.
LEMMA RevisionKeeps ==
  ASSUME NEW text, IsSeq(text), NEW gaps, IsSeq(gaps), NEW figs, IsSeq(figs),
         NEW ds, IsSeq(ds), NEW ws, NEW T, \A t \in T : t.k # "ph",
         OpenGapsOnly(T, gaps, ds, ws), UnreviewedOnly(T, figs, ds)
  PROVE  /\ Keeps(Revised(text, gaps, figs, ds, ws), text, T)
         /\ AcceptedIds(ds) # <<>> => DecisionLog(ds) \in ToSet(Revised(text, gaps, figs, ds, ws))
<1> DEFINE a == ReviseGaps(text, gaps, ds, ws)
           b == ReviseVisuals(a, figs, ds)
           c == ApplyReviewerDecisions(b, ds)
<1>1. Keeps(a, text, T)
  BY GapsKept
<1> HIDE DEF a
<1>2. Keeps(b, a, T)
  BY <1>1, VisualsKept DEF Keeps
<1> HIDE DEF b
<1>3. Keeps(c, b, T) /\ (AcceptedIds(ds) # <<>> => DecisionLog(ds) \in ToSet(c))
  <2>1. IsSeq(b)
    BY <1>2 DEF Keeps
  <2> QED BY <2>1, DecisionsKept
<1> HIDE DEF c
<1>4. Keeps(c, text, T)
  BY <1>1, <1>2, <1>3, KeepsTwice
<1>5. Revised(text, gaps, figs, ds, ws) = c
  BY DEF Revised, a, b, c
<1> QED BY <1>3, <1>4, <1>5

\* Unless a blocking gap is open or a figure not reviewed, the markers are dropped.
LEMMA RevisionDrops ==
  ASSUME NEW text, NEW gaps, NEW figs, NEW ds, NEW ws
  PROVE  LET revised == Revised(text, gaps, figs, ds, ws)
         IN  \/ ReviseExactDraft(text, gaps, figs, ds, ws) = DropReviewMarkers(revised)
             \/ /\ ReviseExactDraft(text, gaps, figs, ds, ws) = revised
                /\ \/ \E g \in ToSet(gaps) : g.blocking /\ ~GapResolved(g, ds, ws)
                   \/ \E f \in ToSet(figs) : DispositionOf(ds, <<f, 0>>) \in {"defer", "absent"}
<1> DEFINE openGaps == {g \in ToSet(gaps) : g.blocking /\ ~GapResolved(g, ds, ws)}
           unreviewed == {f \in ToSet(figs) : DispositionOf(ds, <<f, 0>>) \in {"defer", "absent"}}
           revised == Revised(text, gaps, figs, ds, ws)
<1>1. ReviseExactDraft(text, gaps, figs, ds, ws) =
        IF openGaps = {} /\ unreviewed = {} THEN DropReviewMarkers(revised) ELSE revised
  BY DEF ReviseExactDraft, Revised
<1>2. openGaps # {} => \E g \in ToSet(gaps) : g.blocking /\ ~GapResolved(g, ds, ws)
  OBVIOUS
<1>3. unreviewed # {} => \E f \in ToSet(figs) : DispositionOf(ds, <<f, 0>>) \in {"defer", "absent"}
  OBVIOUS
<1> HIDE DEF openGaps, unreviewed, revised
<1>4. CASE openGaps = {} /\ unreviewed = {}
  BY <1>1, <1>4 DEF revised
<1>5. CASE ~(openGaps = {} /\ unreviewed = {})
  BY <1>1, <1>2, <1>3, <1>5 DEF revised
<1> QED BY <1>4, <1>5

\* What a final document is made of, up to the references and the appendix.
Candidate == CandidateDraft(draft, figures)
Exact == ReviseExactDraft(Candidate, mapping.gaps, figures, decisions, waivers)

\* A document keeps what its revision and its appendix do not touch: a token kept by
\* both is in the final document.
LEMMA FinalKeeps ==
  ASSUME DraftInv, Decided, NEW T, \A t \in T : t.k # "fig"
  PROVE  IsSeq(Exact) => Keeps(final, Exact, T)
<1>1. final = ComposeFigureAppendix(Exact, source) /\ SourceIsRead(source)
  BY DEF DraftInv, FinalOf, Exact, Candidate
<1> QED BY <1>1, AppendixKeeps

\* What holds of every decided run.
LEMMA DecidedFacts ==
  ASSUME DraftInv, Decided
  PROVE  /\ MappingIsSound(mapping) /\ DraftIsOf(draft, mapping) /\ IsSeq(mapping.gaps)
         /\ IsSeq(figures) /\ IsSeq(decisions) /\ IsInjective(Ids(decisions))
         /\ IsSeq(Candidate) /\ IsSeq(RenderMarkdown(draft))
         /\ \A g \in ToSet(mapping.gaps) : Token("gap", <<"gap", g.id>>) \in ToSet(Candidate)
         /\ \A f \in ToSet(figures) : Token("cand", <<f, 0>>) \in ToSet(Candidate)
         /\ \A t \in ToSet(Candidate) : t \in ToSet(RenderMarkdown(draft)) \/ t.k = "cand"
<1>1. /\ MappingIsSound(mapping) /\ DraftIsOf(draft, mapping)
      /\ IsSeq(figures) /\ IsSeq(decisions) /\ IsInjective(Ids(decisions))
  BY DEF DraftInv, Mapped, Drafted, Decided, FigureList, EffectiveDecisionsExist
<1>2. IsSeq(mapping.gaps)
  BY <1>1 DEF MappingIsSound, AnswerIsParsed
<1>3. /\ IsSeq(RenderMarkdown(draft))
      /\ \A g \in ToSet(mapping.gaps) : Token("gap", <<"gap", g.id>>) \in ToSet(RenderMarkdown(draft))
  BY <1>1, RenderFacts
<1>4. /\ IsSeq(Candidate)
      /\ ToSet(RenderMarkdown(draft)) \subseteq ToSet(Candidate)
      /\ \A f \in ToSet(figures) : Token("cand", <<f, 0>>) \in ToSet(Candidate)
      /\ \A t \in ToSet(Candidate) : t \in ToSet(RenderMarkdown(draft)) \/ t.k = "cand"
  BY <1>1, <1>3, CandidateFacts DEF Candidate
<1> QED BY <1>1, <1>2, <1>3, <1>4

\* The callout of an open gap is still in the document.
LEMMA OpenGapShows ==
  ASSUME DraftInv, Decided, NEW g \in ToSet(mapping.gaps), ~GapResolved(g, decisions, waivers),
         Exact = Revised(Candidate, mapping.gaps, figures, decisions, waivers)
  PROVE  Token("gap", <<"gap", g.id>>) \in ToSet(final)
<1> DEFINE t == Token("gap", <<"gap", g.id>>)
           T == {t}
<1>1. t.k = "gap" /\ t.id = <<"gap", g.id>>
  BY DEF Token
<1>2. t \in ToSet(Candidate)
  BY DecidedFacts
<1> HIDE DEF t
<1>3. OpenGapsOnly(T, mapping.gaps, decisions, waivers)
  <2> SUFFICES ASSUME NEW h \in ToSet(mapping.gaps), GapResolved(h, decisions, waivers),
                      <<"gap", h.id>> = <<"gap", g.id>>
               PROVE  FALSE
    BY <1>1 DEF OpenGapsOnly
  <2>1. h.id = g.id
    OBVIOUS
  <2>2. PICK i \in 1 .. Len(mapping.gaps) : mapping.gaps[i] = g
    BY DecidedFacts, SeqFacts
  <2>3. PICK j \in 1 .. Len(mapping.gaps) : mapping.gaps[j] = h
    BY DecidedFacts, SeqFacts
  <2>4. IsInjective(Ids(mapping.gaps))
    BY DecidedFacts DEF MappingIsSound, CoverageValid, IdsUnique
  <2>5. /\ DOMAIN Ids(mapping.gaps) = 1 .. Len(mapping.gaps)
        /\ Ids(mapping.gaps)[i] = g.id /\ Ids(mapping.gaps)[j] = h.id
    BY <2>2, <2>3, DecidedFacts, IdsFacts
  <2>6. i = j
    BY <2>1, <2>4, <2>5 DEF IsInjective
  <2> QED BY <2>2, <2>3, <2>6
<1>4. UnreviewedOnly(T, figures, decisions)
  BY <1>1 DEF UnreviewedOnly
<1>5. Keeps(Exact, Candidate, T)
  <2>1. \A x \in T : x.k # "ph"
    BY <1>1
  <2> HIDE DEF T
  <2> QED BY <1>3, <1>4, <2>1, DecidedFacts, RevisionKeeps
<1>6. Keeps(final, Exact, T)
  <2>1. \A x \in T : x.k # "fig"
    BY <1>1
  <2> HIDE DEF T
  <2> QED BY <1>5, <2>1, FinalKeeps DEF Keeps
<1> QED BY <1>2, <1>5, <1>6 DEF Keeps, t

\* The candidate of a figure that was not reviewed is still in the document.
LEMMA UnreviewedShows ==
  ASSUME DraftInv, Decided, NEW f \in ToSet(figures),
         DispositionOf(decisions, <<f, 0>>) \in {"defer", "absent"},
         Exact = Revised(Candidate, mapping.gaps, figures, decisions, waivers)
  PROVE  Token("cand", <<f, 0>>) \in ToSet(final)
<1> DEFINE t == Token("cand", <<f, 0>>)
           T == {t}
<1>1. t.k = "cand" /\ t.id = <<f, 0>>
  BY DEF Token
<1>2. t \in ToSet(Candidate)
  BY DecidedFacts
<1> HIDE DEF t
<1>3. UnreviewedOnly(T, figures, decisions)
  <2> SUFFICES ASSUME NEW h \in ToSet(figures), <<h, 0>> = <<f, 0>>,
                      <<h, 0>> \in ToSet(AcceptedIds(decisions))
                        \/ DispositionOf(decisions, <<h, 0>>) = "reject"
               PROVE  FALSE
    BY <1>1 DEF UnreviewedOnly
  <2>1. CASE <<h, 0>> \in ToSet(AcceptedIds(decisions))
    <3>1. DispositionOf(decisions, <<h, 0>>) \in {"accept", "accept_suggestion"}
      BY <2>1, DecidedFacts, AcceptedDisposition
    <3>2. DispositionOf(decisions, <<f, 0>>) \in {"accept", "accept_suggestion"}
      BY <3>1
    <3> QED BY <3>2
  <2>2. CASE DispositionOf(decisions, <<h, 0>>) = "reject"
    <3>1. DispositionOf(decisions, <<f, 0>>) = "reject"
      BY <2>2
    <3> QED BY <3>1
  <2> QED BY <2>1, <2>2
<1>4. OpenGapsOnly(T, mapping.gaps, decisions, waivers)
  BY <1>1 DEF OpenGapsOnly
<1>5. Keeps(Exact, Candidate, T)
  <2>1. \A x \in T : x.k # "ph"
    BY <1>1
  <2> HIDE DEF T
  <2> QED BY <1>3, <1>4, <2>1, DecidedFacts, RevisionKeeps
<1>6. Keeps(final, Exact, T)
  <2>1. \A x \in T : x.k # "fig"
    BY <1>1
  <2> HIDE DEF T
  <2> QED BY <1>5, <2>1, FinalKeeps DEF Keeps
<1> QED BY <1>2, <1>5, <1>6 DEF Keeps, t

\* Where the markers stay, something the audit refuses stays with them.
LEMMA PassedIsUnmarked ==
  ASSUME DraftInv, Decided, BlockingGapsResolved(final, mapping.gaps), ~Has(final, "cand")
  PROVE  IsSeq(final) /\ \A t \in ToSet(final) : t.k # "mark"
<1>1. IsSeq(Revised(Candidate, mapping.gaps, figures, decisions, waivers))
  <2>1. OpenGapsOnly({}, mapping.gaps, decisions, waivers) /\ UnreviewedOnly({}, figures, decisions)
    BY DEF OpenGapsOnly, UnreviewedOnly
  <2> DEFINE T == {}
  <2>2. \A t \in T : t.k # "ph"
    OBVIOUS
  <2>3. OpenGapsOnly(T, mapping.gaps, decisions, waivers) /\ UnreviewedOnly(T, figures, decisions)
    BY <2>1
  <2> HIDE DEF T
  <2> QED BY <2>2, <2>3, DecidedFacts, RevisionKeeps DEF Keeps
<1>2. CASE Exact = DropReviewMarkers(Revised(Candidate, mapping.gaps, figures, decisions, waivers))
  <2>1. IsSeq(Exact) /\ \A t \in ToSet(Exact) : t.k # "mark"
    BY <1>1, <1>2, DropFacts
  <2>2. Keeps(final, Exact, {})
    BY <2>1, FinalKeeps
  <2> QED BY <2>1, <2>2 DEF Keeps, Added
<1>3. CASE /\ Exact = Revised(Candidate, mapping.gaps, figures, decisions, waivers)
           /\ \/ \E g \in ToSet(mapping.gaps) : g.blocking /\ ~GapResolved(g, decisions, waivers)
              \/ \E f \in ToSet(figures) : DispositionOf(decisions, <<f, 0>>) \in {"defer", "absent"}
  <2>1. CASE \E g \in ToSet(mapping.gaps) : g.blocking /\ ~GapResolved(g, decisions, waivers)
    <3>1. PICK g \in ToSet(mapping.gaps) : g.blocking /\ ~GapResolved(g, decisions, waivers)
      BY <2>1
    <3>2. Token("gap", <<"gap", g.id>>) \in ToSet(final)
      BY <1>3, <3>1, OpenGapShows
    <3>3. PICK i \in DOMAIN final : final[i] = Token("gap", <<"gap", g.id>>)
      BY <3>2 DEF ToSet
    <3>4. final[i].k = "gap" /\ final[i].id = <<"gap", g.id>>
      BY <3>3 DEF Token
    <3> QED BY <3>1, <3>4 DEF BlockingGapsResolved
  <2>2. CASE \E f \in ToSet(figures) : DispositionOf(decisions, <<f, 0>>) \in {"defer", "absent"}
    <3>1. PICK f \in ToSet(figures) : DispositionOf(decisions, <<f, 0>>) \in {"defer", "absent"}
      BY <2>2
    <3>2. Token("cand", <<f, 0>>) \in ToSet(final)
      BY <1>3, <3>1, UnreviewedShows
    <3>3. PICK i \in DOMAIN final : final[i] = Token("cand", <<f, 0>>)
      BY <3>2 DEF ToSet
    <3>4. final[i].k = "cand"
      BY <3>3 DEF Token
    <3> QED BY <3>4 DEF Has
  <2> QED BY <1>3, <2>1, <2>2
<1>4. \/ Exact = DropReviewMarkers(Revised(Candidate, mapping.gaps, figures, decisions, waivers))
      \/ /\ Exact = Revised(Candidate, mapping.gaps, figures, decisions, waivers)
         /\ \/ \E g \in ToSet(mapping.gaps) : g.blocking /\ ~GapResolved(g, decisions, waivers)
            \/ \E f \in ToSet(figures) : DispositionOf(decisions, <<f, 0>>) \in {"defer", "absent"}
  BY RevisionDrops DEF Exact
<1> QED BY <1>2, <1>3, <1>4

\* Nothing of the review machinery is left in a sealed document, for any template, any
\* draft and any decisions: no placeholder and no candidate figure, which the audit
\* refuses, and no callout of a blocking gap and no review marker either, which it
\* does not look for where the revision has missed one (_apply_reviewer_decisions in
\* core/runner.py and the final audit of core/rewrite.py).
THEOREM SealedIsClean == Spec => []SealedTextIsClean
<1>1. DraftInv => SealedTextIsClean
  <2> SUFFICES ASSUME DraftInv, phase = "sealed" PROVE SealedTextIsClean
    BY DEF SealedTextIsClean
  <2>1. /\ Decided
        /\ ~Has(final, "ph") /\ ~Has(final, "cand")
        /\ BlockingGapsResolved(final, mapping.gaps)
    BY DEF DraftInv, Decided, FinalAuditPasses
  <2>2. IsSeq(final) /\ \A t \in ToSet(final) : t.k # "mark"
    BY <2>1, PassedIsUnmarked
  <2>3. ~Has(final, "mark")
    BY <2>2 DEF Has, ToSet
  <2>4. ASSUME NEW g \in ToSet(mapping.gaps), g.blocking
        PROVE  FirstOf(final, "gap", <<"gap", g.id>>) = 0
    <3>1. DOMAIN final = 1 .. Len(final)
      BY <2>2, SeqFacts
    <3>2. ~\E i \in 1 .. Len(final) : final[i].k = "gap" /\ final[i].id = <<"gap", g.id>>
      BY <2>1, <2>4, <3>1 DEF BlockingGapsResolved
    <3> DEFINE id == <<"gap", g.id>>
    <3>3. ~\E i \in 1 .. Len(final) : final[i].k = "gap" /\ final[i].id = id
      BY <3>2
    <3> HIDE DEF id
    <3>4. FirstOf(final, "gap", id) = 0
      BY <2>2, <3>3, FirstOfFacts
    <3> QED BY <3>4 DEF id
  <2> QED BY <2>1, <2>3, <2>4 DEF SealedTextIsClean
<1> QED BY <1>1, DraftInvariance, PTL

\* In an offline mapping every gap is in its section, and every question is that of
\* a gap.
LEMMA OfflineIsPlaced ==
  ASSUME NEW doc, NEW m, m = PromotedMapping(OfflineMapping(doc))
  PROVE  /\ DOMAIN m.questions = DOMAIN m.gaps
         /\ \A n \in DOMAIN m.gaps :
              /\ m.gaps[n].id = n
              /\ m.questions[n].id = m.gaps[n].question
              /\ \E i \in DOMAIN m.sections : n \in m.sections[i].gaps
<1> DEFINE status(id) == SectionStatus(doc, id)
           P == {i \in DOMAIN SectionOrder : status(SectionOrder[i]) \in DOMAIN GapKind}
           open == Selection(SectionOrder, P)
           question(n) == IF status(open[n]) = "partial" THEN <<"ph", 1>> ELSE <<"map", n>>
           o == OfflineMapping(doc)
<1>1. IsSeq(open) /\ \A x \in ToSet(open) : \E i \in P \cap (1 .. Len(SectionOrder)) : x = SectionOrder[i]
  <2> HIDE DEF P
  <2> QED BY OrderFacts, SelectionFacts
<1>2. \A n \in DOMAIN open : \E i \in DOMAIN SectionOrder : open[n] = SectionOrder[i]
  <2>1. \A n \in DOMAIN open : open[n] \in ToSet(open)
    BY DEF ToSet
  <2> HIDE DEF open, P
  <2> QED BY <1>1, <2>1, OrderFacts
<1> HIDE DEF open, question
<1>3. /\ DOMAIN o.sections = DOMAIN SectionOrder
      /\ \A i \in DOMAIN SectionOrder :
           /\ DOMAIN o.sections[i] = {"id", "status", "spans", "figs", "gaps", "text"}
           /\ o.sections[i].gaps = {n \in DOMAIN open : open[n] = SectionOrder[i]}
  BY DEF OfflineMapping, open
<1>4. /\ DOMAIN o.gaps = DOMAIN open
      /\ \A n \in DOMAIN open :
           /\ DOMAIN o.gaps[n] = {"id", "section", "kind", "blocking", "question"}
           /\ o.gaps[n].id = n /\ o.gaps[n].question = question(n)
  BY DEF OfflineMapping, open, question
<1>5. /\ DOMAIN o.questions = DOMAIN open
      /\ \A n \in DOMAIN open :
           /\ DOMAIN o.questions[n] = {"id", "blocking", "section", "spans", "figs", "suggestion"}
           /\ o.questions[n].id = question(n)
  BY DEF OfflineMapping, open, question
<1> HIDE DEF o
<1>6. \A n \in DOMAIN open : CanonicalGap(o, n) = n
  BY <1>4 DEF CanonicalGap
<1>7. /\ m.sections = [i \in DOMAIN o.sections |->
                         [o.sections[i] EXCEPT !.gaps = {CanonicalGap(o, g) : g \in @}]]
      /\ m.gaps = [i \in DOMAIN o.gaps |-> [o.gaps[i] EXCEPT !.id = i]]
      /\ m.questions = [i \in DOMAIN o.questions |-> PromotedQuestion(o.questions[i])]
  BY DEF PromotedMapping, o
<1>8. DOMAIN m.questions = DOMAIN open /\ DOMAIN m.gaps = DOMAIN open /\ DOMAIN m.sections = DOMAIN SectionOrder
  BY <1>3, <1>4, <1>5, <1>7
<1>9. ASSUME NEW n \in DOMAIN open
      PROVE  m.gaps[n].id = n /\ m.gaps[n].question = question(n) /\ m.questions[n].id = question(n)
  <2>1. m.gaps[n] = [o.gaps[n] EXCEPT !.id = n]
    BY <1>4, <1>7
  <2>2. m.gaps[n].id = n /\ m.gaps[n].question = question(n)
    BY <1>4, <2>1
  <2>3. m.questions[n] = PromotedQuestion(o.questions[n])
    BY <1>5, <1>7
  <2>4. m.questions[n].id = question(n)
    BY <1>5, <2>3 DEF PromotedQuestion
  <2> QED BY <2>2, <2>4
<1>10. ASSUME NEW n \in DOMAIN open
       PROVE  \E i \in DOMAIN m.sections : n \in m.sections[i].gaps
  <2>1. PICK i \in DOMAIN SectionOrder : open[n] = SectionOrder[i]
    BY <1>2
  <2>2. n \in o.sections[i].gaps
    BY <1>3, <2>1
  <2>3. m.sections[i].gaps = {CanonicalGap(o, g) : g \in o.sections[i].gaps}
    BY <1>3, <1>7
  <2>4. CanonicalGap(o, n) \in m.sections[i].gaps
    BY <2>2, <2>3
  <2> QED BY <1>6, <1>8, <2>4
<1> QED BY <1>8, <1>9, <1>10

\* So its draft has no review markers.
LEMMA OfflineIsUnmarked ==
  ASSUME NEW doc, NEW m, m = PromotedMapping(OfflineMapping(doc)), MappingIsSound(m),
         NEW d, DraftIsOf(d, m)
  PROVE  \A t \in ToSet(RenderMarkdown(d)) : t.k \in BodyKinds
<1>1. /\ DOMAIN m.questions = DOMAIN m.gaps
      /\ \A n \in DOMAIN m.gaps :
           /\ m.gaps[n].id = n
           /\ m.questions[n].id = m.gaps[n].question
           /\ \E i \in DOMAIN m.sections : n \in m.sections[i].gaps
  BY OfflineIsPlaced
<1>2. /\ d.gaps = m.gaps /\ d.questions = m.questions
      /\ DOMAIN d.sections = DOMAIN m.sections
      /\ \A i \in DOMAIN m.sections : d.sections[i].gaps = m.sections[i].gaps
  BY DEF DraftIsOf
<1>3. \A n \in DOMAIN m.gaps : m.gaps[n].id \in PlacedGaps(d)
  <2> SUFFICES ASSUME NEW n \in DOMAIN m.gaps PROVE m.gaps[n].id \in PlacedGaps(d)
    OBVIOUS
  <2>1. PICK i \in DOMAIN d.sections : n \in d.sections[i].gaps
    BY <1>1, <1>2
  <2>2. d.sections[i] \in ToSet(d.sections)
    BY DEF ToSet
  <2> QED BY <1>1, <2>1, <2>2 DEF PlacedGaps
<1>4. {g.id : g \in ToSet(d.gaps)} \subseteq PlacedGaps(d)
  BY <1>2, <1>3 DEF ToSet
<1>5. AloneQuestions(d) = <<>>
  <2> DEFINE asked == {g.question : g \in {h \in ToSet(d.gaps) : h.id \in PlacedGaps(d)}}
             Q == {i \in DOMAIN d.questions : d.questions[i].id \notin asked}
  <2>1. AloneQuestions(d) = Selection(d.questions, Q)
    BY DEF AloneQuestions
  <2>2. ASSUME NEW i \in DOMAIN d.questions PROVE d.questions[i].id \in asked
    <3>1. /\ i \in DOMAIN d.gaps /\ d.questions[i].id = d.gaps[i].question
          /\ d.gaps[i].id \in PlacedGaps(d)
      BY <1>1, <1>2, <1>3
    <3>2. d.gaps[i] \in ToSet(d.gaps)
      BY <3>1 DEF ToSet
    <3>3. d.gaps[i].question \in asked
      BY <3>1, <3>2
    <3> QED BY <3>1, <3>3
  <2>3. Q = {}
    BY <2>2
  <2>4. IsSeq(d.questions)
    BY <1>2 DEF MappingIsSound, AnswerIsParsed
  <2> HIDE DEF Q
  <2> QED BY <2>1, <2>3, <2>4, SelectionEmpty
<1> QED BY <1>4, <1>5, RenderFacts

\* With the offline provider the decision log reaches the final document.
LEMMA OfflineLogStays ==
  ASSUME DraftInv, Decided, provider = "offline", AcceptedIds(decisions) # <<>>
  PROVE  DecisionLog(decisions) \in ToSet(final)
<1> DEFINE revised == Revised(Candidate, mapping.gaps, figures, decisions, waivers)
           log == DecisionLog(decisions)
           none == {}
<1>1. \A t \in ToSet(Candidate) : t.k \in BodyKinds \/ t.k = "cand"
  <2>1. mapping = PromotedMapping(OfflineMapping(source))
    BY DEF DraftInv, Mapped, Decided
  <2>2. \A t \in ToSet(RenderMarkdown(draft)) : t.k \in BodyKinds
    BY <2>1, DecidedFacts, OfflineIsUnmarked
  <2> QED BY <2>2, DecidedFacts
<1>2. Keeps(revised, Candidate, none) /\ log \in ToSet(revised)
  <2>1. /\ OpenGapsOnly(none, mapping.gaps, decisions, waivers)
        /\ UnreviewedOnly(none, figures, decisions)
        /\ \A t \in none : t.k # "ph"
    BY DEF OpenGapsOnly, UnreviewedOnly
  <2> HIDE DEF none
  <2> QED BY <2>1, DecidedFacts, RevisionKeeps
<1> HIDE DEF revised, none
<1>3. \A t \in ToSet(revised) : t.k # "mark"
  BY <1>1, <1>2 DEF Keeps, BodyKinds, Added
<1>4. Exact = revised
  <2>1. IsSeq(revised)
    BY <1>2 DEF Keeps
  <2>2. DropReviewMarkers(revised) = revised
    BY <1>3, <2>1, DropFacts
  <2> QED BY <2>2, RevisionDrops DEF Exact, revised
<1>5. log.k # "fig"
  BY DEF DecisionLog
<1> HIDE DEF log
<1> DEFINE T == {log}
<1>6. Keeps(final, Exact, T)
  <2>1. (\A t \in T : t.k # "fig") /\ IsSeq(Exact)
    BY <1>2, <1>4, <1>5 DEF Keeps
  <2> HIDE DEF T
  <2> QED BY <2>1, FinalKeeps
<1> QED BY <1>2, <1>4, <1>6 DEF Keeps, log

\* Every answer the reviewer has accepted in an offline run is in the sealed document,
\* at its marker or in the decision log: the offline mapping places every gap, so the
\* log is never dropped with the markers (_apply_deterministic_answers).
THEOREM OfflineKeeps == Spec => []OfflineKeepsAnswers
<1>1. DraftInv => OfflineKeepsAnswers
  <2> SUFFICES ASSUME DraftInv, phase = "sealed", provider = "offline",
                      NEW id \in ToSet(AcceptedIds(decisions))
               PROVE  id \in AnswersIn(final)
    BY DEF OfflineKeepsAnswers
  <2>1. AcceptedIds(decisions) # <<>>
    BY EmptyIsSeq
  <2>2. DecisionLog(decisions) \in ToSet(final)
    BY <2>1, OfflineLogStays DEF Decided
  <2>3. PICK i \in DOMAIN final : final[i] = DecisionLog(decisions)
    BY <2>2 DEF ToSet
  <2>4. final[i].k = "log" /\ final[i].answers = ToSet(AcceptedIds(decisions))
    BY <2>3 DEF DecisionLog
  <2> QED BY <2>3, <2>4 DEF AnswersIn
<1> QED BY <1>1, DraftInvariance, PTL
=============================================================================
