------------------------------ MODULE SeqLemmas ------------------------------
(***************************************************************************)
(* Facts about the list operations of the models: every nonempty set of    *)
(* naturals has a least element, what SelectInSeq finds, what RemoveAt and *)
(* InsertAt leave at each position, the values of a loop that a recursive  *)
(* function stands for, what FlattenSeq puts together, and which           *)
(* sequences are prefixes of others.                                       *)
(***************************************************************************)
EXTENDS Integers, Sequences, SequencesExt, SequenceTheorems,
        WellFoundedInduction, TLAPS

\* The search loops of the code stop at the first match: there is one.
LEMMA LeastNat ==
    ASSUME NEW T, T \subseteq Nat, T # {}
    PROVE  \E m \in T : \A n \in T : m <= n
<1>1. PICK m \in T : \A n \in T : ~(<<n, m>> \in OpToRel(<, Nat))
  BY NatLessThanWellFounded, WFMin, Zenon
<1>2. \A n \in T : ~(n < m)
  BY <1>1 DEF OpToRel
<1> QED BY <1>2

\* Min of a nonempty set of naturals is its least element.
LEMMA MinIsLeast ==
    ASSUME NEW T, T \subseteq Nat, T # {}
    PROVE  /\ Min(T) \in T
           /\ \A n \in T : Min(T) <= n
BY LeastNat DEF Min

\* Max of a nonempty bounded set of naturals is its greatest element.
LEMMA MaxIsGreatest ==
    ASSUME NEW n \in Nat, NEW T, T \subseteq 0 .. n, T # {}
    PROVE  /\ Max(T) \in T
           /\ \A k \in T : Max(T) >= k
<1> DEFINE U == {d \in 0 .. n : n - d \in T}
<1>1. U \subseteq Nat /\ U # {}
  <2>1. PICK k \in T : TRUE
    OBVIOUS
  <2>2. k \in 0 .. n /\ n - k \in 0 .. n /\ n - (n - k) = k
    BY <2>1
  <2>3. n - k \in U
    BY <2>1, <2>2
  <2>4. U \subseteq Nat
    OBVIOUS
  <2> HIDE DEF U
  <2> QED BY <2>3, <2>4
<1>2. PICK d \in U : \A e \in U : d <= e
  <2> HIDE DEF U
  <2> QED BY <1>1, LeastNat
<1>3. n - d \in T /\ \A k \in T : n - d >= k
  <2>1. \A k \in T : k \in 0 .. n /\ n - k \in U
    OBVIOUS
  <2> QED BY <1>2, <2>1
<1> QED BY <1>3 DEF Max

\* What a search from the front returns: the first matching position, or 0.
LEMMA FirstMatch ==
    ASSUME NEW n \in Nat, NEW I, I \subseteq 1 .. n,
           NEW f, f = IF I # {} THEN Min(I) ELSE 0
    PROVE  /\ f \in 0 .. n
           /\ f # 0 => f \in I /\ \A j \in 1 .. f - 1 : j \notin I
           /\ f = 0 => I = {}
<1>1. CASE I = {}
  BY <1>1
<1>2. CASE I # {}
  <2>1. f \in I /\ \A k \in I : f <= k
    <3>1. I \subseteq Nat
      OBVIOUS
    <3> QED BY <1>2, <3>1, MinIsLeast
  <2>2. f \in 1 .. n
    BY <2>1
  <2> QED BY <2>1, <2>2
<1> QED BY <1>1, <1>2

\* What a search for the last match returns.
LEMMA LastMatch ==
    ASSUME NEW n \in Nat, NEW I, I \subseteq 1 .. n,
           NEW f, f = IF I # {} THEN Max(I) ELSE 0
    PROVE  /\ f \in 0 .. n
           /\ f # 0 => f \in I
           /\ f = 0 => I = {}
<1>1. CASE I = {}
  BY <1>1
<1>2. CASE I # {}
  <2>1. f \in I
    <3>1. I \subseteq 0 .. n
      OBVIOUS
    <3> QED BY <1>2, <3>1, MaxIsGreatest
  <2> QED BY <2>1
<1> QED BY <1>1, <1>2

\* RemoveAt drops one entry and keeps the order of the others.
LEMMA RemoveAtProperties ==
    ASSUME NEW S, NEW s \in Seq(S), NEW i \in 1 .. Len(s)
    PROVE  /\ RemoveAt(s, i) \in Seq(S)
           /\ Len(RemoveAt(s, i)) = Len(s) - 1
           /\ \A j \in 1 .. Len(s) - 1 :
                 RemoveAt(s, i)[j] = IF j < i THEN s[j] ELSE s[j + 1]
<1> DEFINE a == SubSeq(s, 1, i - 1)
           b == SubSeq(s, i + 1, Len(s))
<1>1. /\ a \in Seq(S)
      /\ Len(a) = i - 1
      /\ \A j \in 1 .. i - 1 : a[j] = s[j]
  BY SubSeqProperties
<1>2. /\ b \in Seq(S)
      /\ Len(b) = Len(s) - i
      /\ \A j \in 1 .. Len(s) - i : b[j] = s[i + j]
  BY SubSeqProperties
<1>3. RemoveAt(s, i) = a \o b
  BY DEF RemoveAt
<1> HIDE DEF a, b
<1>4. /\ a \o b \in Seq(S)
      /\ Len(a \o b) = Len(a) + Len(b)
      /\ \A j \in 1 .. Len(a) + Len(b) :
            (a \o b)[j] = IF j <= Len(a) THEN a[j] ELSE b[j - Len(a)]
  BY <1>1, <1>2, ConcatProperties
<1> QED BY <1>1, <1>2, <1>3, <1>4

\* The entries left by RemoveAt are the other entries.
LEMMA RemoveAtEntries ==
    ASSUME NEW S, NEW s \in Seq(S), NEW i \in 1 .. Len(s)
    PROVE  /\ \A j \in 1 .. Len(s) - 1 :
                 \E k \in 1 .. Len(s) : k # i /\ RemoveAt(s, i)[j] = s[k]
           /\ \A k \in 1 .. Len(s) : k # i =>
                 \E j \in 1 .. Len(s) - 1 : RemoveAt(s, i)[j] = s[k]
<1> DEFINE r == RemoveAt(s, i)
<1>1. /\ Len(s) \in Nat
      /\ \A j \in 1 .. Len(s) - 1 : r[j] = IF j < i THEN s[j] ELSE s[j + 1]
  BY RemoveAtProperties
<1> HIDE DEF r
<1>2. ASSUME NEW j \in 1 .. Len(s) - 1
      PROVE  \E k \in 1 .. Len(s) : k # i /\ r[j] = s[k]
  <2>1. CASE j < i
    BY <1>1, <2>1
  <2>2. CASE ~(j < i)
    <3>1. j + 1 \in 1 .. Len(s) /\ j + 1 # i /\ r[j] = s[j + 1]
      BY <1>1, <2>2
    <3> QED BY <3>1
  <2> QED BY <2>1, <2>2
<1>3. ASSUME NEW k \in 1 .. Len(s), k # i
      PROVE  \E j \in 1 .. Len(s) - 1 : r[j] = s[k]
  <2>1. CASE k < i
    BY <1>1, <2>1
  <2>2. CASE k > i
    <3>1. k - 1 \in 1 .. Len(s) - 1 /\ r[k - 1] = s[k]
      BY <1>1, <2>2
    <3> QED BY <3>1
  <2> QED BY <1>3, <2>1, <2>2
<1> QED BY <1>2, <1>3 DEF r

\* InsertAt adds one entry and keeps the order of the others.
LEMMA InsertAtProperties ==
    ASSUME NEW S, NEW s \in Seq(S), NEW e \in S, NEW i \in 1 .. Len(s) + 1
    PROVE  /\ InsertAt(s, i, e) \in Seq(S)
           /\ Len(InsertAt(s, i, e)) = Len(s) + 1
           /\ \A j \in 1 .. Len(s) + 1 :
                 InsertAt(s, i, e)[j] =
                     IF j < i THEN s[j] ELSE IF j = i THEN e ELSE s[j - 1]
<1> DEFINE a == SubSeq(s, 1, i - 1)
           c == a \o <<e>>
           b == SubSeq(s, i, Len(s))
<1>1. /\ a \in Seq(S)
      /\ Len(a) = i - 1
      /\ \A j \in 1 .. i - 1 : a[j] = s[j]
  BY SubSeqProperties
<1>2. /\ b \in Seq(S)
      /\ Len(b) = Len(s) - i + 1
      /\ \A j \in 1 .. Len(s) - i + 1 : b[j] = s[i + j - 1]
  BY SubSeqProperties
<1>3. InsertAt(s, i, e) = c \o b
  BY DEF InsertAt
<1>4. /\ c \in Seq(S)
      /\ Len(c) = i
      /\ \A j \in 1 .. i - 1 : c[j] = s[j]
      /\ c[i] = e
  BY <1>1, AppendProperties
<1> HIDE DEF a, b, c
<1>5. /\ c \o b \in Seq(S)
      /\ Len(c \o b) = Len(c) + Len(b)
      /\ \A j \in 1 .. Len(c) + Len(b) :
            (c \o b)[j] = IF j <= Len(c) THEN c[j] ELSE b[j - Len(c)]
  BY <1>2, <1>4, ConcatProperties
<1> QED BY <1>2, <1>3, <1>4, <1>5

\* Induction, for a set: the property is membership, so that no operator has
\* to be instantiated.
LEMMA SetInduction ==
    ASSUME NEW T, 0 \in T, \A n \in Nat : n \in T => n + 1 \in T
    PROVE  Nat \subseteq T
<1> SUFFICES ASSUME Nat \ T # {} PROVE FALSE
  OBVIOUS
<1>1. PICK x \in Nat \ T : \A y \in Nat \ T : x <= y
  BY LeastNat
<1>2. x - 1 \in Nat /\ x - 1 \in T
  BY <1>1
<1> QED BY <1>1, <1>2

\* f[i] is the value in S after i steps of a loop, G[i] what the step i does.
Runs(f, S, base, n, G) ==
    f \in [0 .. n -> S] /\ f[0] = base /\ \A i \in 1 .. n : f[i] = G[i][f[i - 1]]

\* A loop that makes n steps has a value after each of them.
LEMMA LoopValues ==
    ASSUME NEW S, NEW base \in S, NEW n \in Nat, NEW G \in [1 .. n -> [S -> S]]
    PROVE  \E f : Runs(f, S, base, n, G)
<1> DEFINE Upto(f, k) == f[0] = base /\ \A i \in 1 .. k : f[i] = G[i][f[i - 1]]
           T == {k \in Nat : k <= n => \E f \in [0 .. k -> S] : Upto(f, k)}
<1>1. 0 \in T
  <2> DEFINE f == [i \in 0 .. 0 |-> base]
  <2>1. f \in [0 .. 0 -> S] /\ Upto(f, 0)
    OBVIOUS
  <2> QED BY <2>1
<1>2. ASSUME NEW k \in Nat, k \in T PROVE k + 1 \in T
  <2> SUFFICES ASSUME k + 1 <= n PROVE \E f \in [0 .. k + 1 -> S] : Upto(f, k + 1)
    OBVIOUS
  <2>1. PICK f \in [0 .. k -> S] : Upto(f, k)
    BY <1>2
  <2> DEFINE x == G[k + 1][f[k]]
             g == [i \in 0 .. k + 1 |-> IF i = k + 1 THEN x ELSE f[i]]
  <2>2. x \in S
    <3>1. k + 1 \in 1 .. n /\ k \in 0 .. k
      OBVIOUS
    <3>2. G[k + 1] \in [S -> S] /\ f[k] \in S
      BY <3>1
    <3> QED BY <3>2
  <2>3. /\ \A i \in 0 .. k : i \in 0 .. k + 1 /\ i # k + 1
        /\ k + 1 \in 0 .. k + 1 /\ 0 \in 0 .. k /\ (k + 1) - 1 = k
        /\ \A i \in 1 .. k : i - 1 \in 0 .. k /\ i \in 0 .. k
        /\ \A i \in 1 .. k + 1 : i \in 1 .. k \/ i = k + 1
    OBVIOUS
  <2>4. g[k + 1] = x /\ \A i \in 0 .. k : g[i] = f[i]
    <3> HIDE DEF x
    <3> QED BY <2>3
  <2>5. g \in [0 .. k + 1 -> S]
    <3> HIDE DEF x
    <3>1. \A i \in 0 .. k + 1 : (IF i = k + 1 THEN x ELSE f[i]) \in S
      BY <2>2
    <3> QED BY <3>1
  <2> HIDE DEF g
  <2>6. Upto(g, k + 1)
    <3>1. g[0] = base
      BY <2>1, <2>3, <2>4
    <3>2. ASSUME NEW i \in 1 .. k + 1 PROVE g[i] = G[i][g[i - 1]]
      <4>1. CASE i \in 1 .. k
        BY <2>1, <2>3, <2>4, <4>1
      <4>2. CASE i = k + 1
        BY <2>3, <2>4, <4>2
      <4> QED BY <2>3, <4>1, <4>2
    <3> QED BY <3>1, <3>2
  <2> QED BY <2>5, <2>6
<1> HIDE DEF T
<1>3. Nat \subseteq T
  BY <1>1, <1>2, SetInduction
<1>4. \E f \in [0 .. n -> S] : Upto(f, n)
  BY <1>3 DEF T
<1> QED BY <1>4 DEF Runs

\* A sequence is one over its own elements.
LEMMA SeqOfElements ==
    ASSUME NEW E, NEW s \in Seq(E)
    PROVE  /\ ToSet(s) = {s[i] : i \in 1 .. Len(s)} /\ ToSet(s) \subseteq E
           /\ s \in Seq(ToSet(s))
<1>1. DOMAIN s = 1 .. Len(s) /\ Len(s) \in Nat /\ \A i \in 1 .. Len(s) : s[i] \in E
  OBVIOUS
<1>2. ToSet(s) = {s[i] : i \in 1 .. Len(s)}
  BY <1>1 DEF ToSet
<1>3. \A i \in 1 .. Len(s) : s[i] \in ToSet(s)
  BY <1>2
<1>4. s = [i \in 1 .. Len(s) |-> s[i]]
  BY <1>1
<1>5. s \in Seq(ToSet(s))
  BY <1>1, <1>3, <1>4
<1> QED BY <1>1, <1>2, <1>5

\* g[i] is the first i sequences of s one behind the other, as the recursive
\* function inside FlattenSeq computes it.
IsFlat(g, s) == g = [i \in 1 .. Len(s) |-> IF i = 1 THEN s[i] ELSE g[i - 1] \o s[i]]

\* FlattenSeq takes the last value of such a function.
LEMMA FlatChoice ==
    ASSUME NEW s, Len(s) # 0, \E g : IsFlat(g, s)
    PROVE  \E g : IsFlat(g, s) /\ FlattenSeq(s) = g[Len(s)]
<1> DEFINE h == CHOOSE g : IsFlat(g, s)
<1>1. IsFlat(h, s)
  OBVIOUS
<1>2. FlattenSeq(s) = h[Len(s)]
  BY DEF FlattenSeq, IsFlat
<1> QED BY <1>1, <1>2

\* What a flattening function holds at the first position.
LEMMA FlatFirst ==
    ASSUME NEW s, NEW g, IsFlat(g, s), 1 \in 1 .. Len(s)
    PROVE  g[1] = s[1]
  BY DEF IsFlat

\* At the next position one more sequence is added.
LEMMA FlatNext ==
    ASSUME NEW s, NEW g, IsFlat(g, s), NEW k \in Nat, k # 0, k + 1 \in 1 .. Len(s)
    PROVE  g[k + 1] = g[k] \o s[k + 1]
<1>1. k + 1 # 1 /\ (k + 1) - 1 = k
  OBVIOUS
<1>2. \A i \in 1 .. Len(s) : g[i] = IF i = 1 THEN s[i] ELSE g[i - 1] \o s[i]
  BY DEF IsFlat
<1>3. g[k + 1] = g[(k + 1) - 1] \o s[k + 1]
  BY <1>1, <1>2
<1> QED BY <1>1, <1>3

\* Every value of a flattening function is a sequence.
LEMMA FlatType ==
    ASSUME NEW S, NEW s \in Seq(Seq(S)), NEW g, IsFlat(g, s)
    PROVE  \A i \in 1 .. Len(s) : g[i] \in Seq(S)
<1> DEFINE T == {n \in Nat : n \in 1 .. Len(s) => g[n] \in Seq(S)}
<1>0. Len(s) \in Nat /\ \A i \in 1 .. Len(s) : s[i] \in Seq(S)
  OBVIOUS
<1>1. 0 \in T
  OBVIOUS
<1>2. ASSUME NEW n \in Nat, n \in T PROVE n + 1 \in T
  <2> SUFFICES ASSUME n + 1 \in 1 .. Len(s) PROVE g[n + 1] \in Seq(S)
    OBVIOUS
  <2>1. CASE n = 0
    <3>1. g[1] = s[1] /\ 1 \in 1 .. Len(s)
      BY <2>1, FlatFirst
    <3> QED BY <1>0, <2>1, <3>1
  <2>2. CASE n # 0
    <3>1. n \in 1 .. Len(s)
      BY <1>0, <2>2
    <3>2. g[n] \in Seq(S) /\ s[n + 1] \in Seq(S)
      BY <1>0, <1>2, <3>1
    <3>3. g[n + 1] = g[n] \o s[n + 1]
      BY <2>2, FlatNext
    <3> QED BY <3>2, <3>3, ConcatProperties
  <2> QED BY <2>1, <2>2
<1> HIDE DEF T
<1>3. Nat \subseteq T
  BY <1>1, <1>2, SetInduction
<1> QED BY <1>0, <1>3 DEF T

\* There is a flattening function for every sequence of sequences.
LEMMA FlatExists ==
    ASSUME NEW S, NEW s \in Seq(Seq(S))
    PROVE  \E g : IsFlat(g, s)
<1> DEFINE Upto(g, n) == g = [i \in 1 .. n |-> IF i = 1 THEN s[i] ELSE g[i - 1] \o s[i]]
           T == {n \in Nat : \E g : Upto(g, n)}
<1>1. 0 \in T
  <2> DEFINE e == [i \in 1 .. 0 |-> IF i = 1 THEN s[i] ELSE <<>> \o s[i]]
  <2>1. Upto(e, 0)
    OBVIOUS
  <2> QED BY <2>1
<1>2. ASSUME NEW n \in Nat, n \in T PROVE n + 1 \in T
  <2>1. PICK g : Upto(g, n)
    BY <1>2
  <2> DEFINE new == IF n = 0 THEN s[n + 1] ELSE g[n] \o s[n + 1]
             h == [i \in 1 .. n + 1 |-> IF i = n + 1 THEN new ELSE g[i]]
  <2>2. h[n + 1] = new /\ \A i \in 1 .. n : h[i] = g[i]
    <3> HIDE DEF new
    <3>1. n + 1 \in 1 .. n + 1 /\ \A i \in 1 .. n : i \in 1 .. n + 1 /\ i # n + 1
      OBVIOUS
    <3> QED BY <3>1
  <2>3. \A i \in 1 .. n : g[i] = IF i = 1 THEN s[i] ELSE g[i - 1] \o s[i]
    BY <2>1
  <2>7. DOMAIN h = 1 .. n + 1 /\ h = [i \in 1 .. n + 1 |-> h[i]]
    OBVIOUS
  <2>4. ASSUME NEW i \in 1 .. n + 1
        PROVE  h[i] = IF i = 1 THEN s[i] ELSE h[i - 1] \o s[i]
    <3> HIDE DEF h
    <3>1. CASE i = n + 1 /\ n = 0
      BY <2>2, <3>1
    <3>2. CASE i = n + 1 /\ n # 0
      <4>1. i # 1 /\ i - 1 = n /\ n \in 1 .. n
        BY <3>2
      <4>2. h[i - 1] = g[n]
        BY <2>2, <4>1
      <4> QED BY <2>2, <3>2, <4>1, <4>2
    <3>3. CASE i \in 1 .. n /\ i = 1
      BY <2>2, <2>3, <3>3
    <3>4. CASE i \in 1 .. n /\ i # 1
      <4>1. i - 1 \in 1 .. n
        BY <3>4
      <4>2. h[i - 1] = g[i - 1] /\ h[i] = g[i]
        BY <2>2, <3>4, <4>1
      <4> QED BY <2>3, <3>4, <4>2
    <3> QED BY <3>1, <3>2, <3>3, <3>4
  <2> HIDE DEF h
  <2>5. Upto(h, n + 1)
    BY <2>7, <2>4
  <2> HIDE DEF Upto
  <2> QED BY <2>5
<1> HIDE DEF T
<1>3. Nat \subseteq T
  BY <1>1, <1>2, SetInduction
<1>4. Len(s) \in Nat
  OBVIOUS
<1>5. \E g : Upto(g, Len(s))
  BY <1>3, <1>4 DEF T
<1> QED BY <1>5 DEF IsFlat

\* Flattening a sequence of sequences gives a sequence.
LEMMA FlattenType ==
    ASSUME NEW S, NEW s \in Seq(Seq(S))
    PROVE  FlattenSeq(s) \in Seq(S)
<1>1. CASE Len(s) = 0
  <2>1. FlattenSeq(s) = s /\ s = <<>>
    BY <1>1 DEF FlattenSeq
  <2> QED BY <2>1
<1>2. CASE Len(s) # 0
  <2>1. PICK g : IsFlat(g, s) /\ FlattenSeq(s) = g[Len(s)]
    BY <1>2, FlatChoice, FlatExists
  <2>2. Len(s) \in 1 .. Len(s)
    BY <1>2
  <2> QED BY <2>1, <2>2, FlatType
<1> QED BY <1>1, <1>2

\* Nothing put together is nothing.
LEMMA FlattenEmpty == FlattenSeq(<<>>) = <<>>
  BY DEF FlattenSeq

\* One more sequence comes behind the others.
LEMMA FlattenAppend ==
    ASSUME NEW S, NEW s \in Seq(Seq(S)), NEW x \in Seq(S)
    PROVE  FlattenSeq(Append(s, x)) = FlattenSeq(s) \o x
<1> DEFINE t == Append(s, x)
           n == Len(s)
<1>1. /\ t \in Seq(Seq(S)) /\ Len(t) = n + 1 /\ n \in Nat /\ t[n + 1] = x
      /\ \A i \in 1 .. n : t[i] = s[i]
  BY AppendProperties
<1> HIDE DEF t, n
<1>2. PICK h : IsFlat(h, t) /\ FlattenSeq(t) = h[n + 1]
  BY <1>1, FlatChoice, FlatExists
<1>3. CASE n = 0
  <2>1. s = <<>> /\ FlattenSeq(s) = <<>>
    BY <1>3, FlattenEmpty DEF n
  <2>2. h[1] = t[1]
    BY <1>1, <1>2, <1>3, FlatFirst
  <2>3. FlattenSeq(t) = x
    BY <1>1, <1>2, <1>3, <2>2
  <2> QED BY <2>1, <2>3, ConcatEmptySeq DEF t
<1>4. CASE n # 0
  <2>1. PICK g : IsFlat(g, s) /\ FlattenSeq(s) = g[n]
    BY <1>4, FlatChoice, FlatExists DEF n
  <2> DEFINE T == {k \in Nat : k \in 1 .. n => g[k] = h[k]}
  <2>2. 0 \in T
    OBVIOUS
  <2>3. ASSUME NEW k \in Nat, k \in T PROVE k + 1 \in T
    <3> SUFFICES ASSUME k + 1 \in 1 .. n PROVE g[k + 1] = h[k + 1]
      OBVIOUS
    <3>0. k + 1 \in 1 .. Len(s) /\ k + 1 \in 1 .. Len(t) /\ t[k + 1] = s[k + 1]
      BY <1>1 DEF n
    <3>1. CASE k = 0
      <4>1. g[1] = s[1]
        BY <2>1, <3>0, <3>1, FlatFirst
      <4>2. h[1] = t[1]
        BY <1>2, <3>0, <3>1, FlatFirst
      <4> QED BY <3>0, <3>1, <4>1, <4>2
    <3>2. CASE k # 0
      <4>1. g[k + 1] = g[k] \o s[k + 1]
        BY <2>1, <3>0, <3>2, FlatNext
      <4>2. h[k + 1] = h[k] \o t[k + 1]
        BY <1>2, <3>0, <3>2, FlatNext
      <4>3. g[k] = h[k]
        BY <1>1, <2>3, <3>2
      <4> QED BY <3>0, <4>1, <4>2, <4>3
    <3> QED BY <3>1, <3>2
  <2> HIDE DEF T
  <2>4. Nat \subseteq T
    BY <2>2, <2>3, SetInduction
  <2>5. g[n] = h[n]
    BY <1>1, <1>4, <2>4 DEF T
  <2>6. h[n + 1] = h[n] \o t[n + 1]
    <3>1. n + 1 \in 1 .. Len(t)
      BY <1>1
    <3> QED BY <1>1, <1>2, <1>4, <3>1, FlatNext
  <2>7. FlattenSeq(t) = FlattenSeq(s) \o x
    BY <1>1, <1>2, <2>1, <2>5, <2>6
  <2> QED BY <2>7 DEF t
<1> QED BY <1>3, <1>4

\* Two elements put behind a sequence.
LEMMA ConcatPair ==
    ASSUME NEW S, NEW s \in Seq(S), NEW x \in S, NEW y \in S
    PROVE  /\ s \o <<x, y>> \in Seq(S)
           /\ Len(s \o <<x, y>>) = Len(s) + 2
           /\ \A j \in 1 .. Len(s) : (s \o <<x, y>>)[j] = s[j]
           /\ (s \o <<x, y>>)[Len(s) + 1] = x
           /\ (s \o <<x, y>>)[Len(s) + 2] = y
<1> DEFINE p == <<x, y>>
<1>1. p \in Seq(S) /\ Len(p) = 2 /\ p[1] = x /\ p[2] = y /\ Len(s) \in Nat
  OBVIOUS
<1> HIDE DEF p
<1>2. /\ s \o p \in Seq(S)
      /\ Len(s \o p) = Len(s) + Len(p)
      /\ \A j \in 1 .. Len(s) + Len(p) :
            (s \o p)[j] = IF j <= Len(s) THEN s[j] ELSE p[j - Len(s)]
  BY <1>1, ConcatProperties
<1>3. Len(s) + 1 - Len(s) = 1 /\ Len(s) + 2 - Len(s) = 2
  BY <1>1
<1>4. \A j \in 1 .. Len(s) : (s \o p)[j] = s[j]
  BY <1>1, <1>2
<1>5. (s \o p)[Len(s) + 1] = x /\ (s \o p)[Len(s) + 2] = y
  BY <1>1, <1>2, <1>3
<1> QED BY <1>1, <1>2, <1>4, <1>5 DEF p

\* A prefix agrees with the longer sequence wherever it is defined.
LEMMA PrefixElements ==
    ASSUME NEW S, NEW s \in Seq(S), NEW t \in Seq(S)
    PROVE  IsPrefix(s, t) <=>
              Len(s) <= Len(t) /\ \A i \in 1 .. Len(s) : s[i] = t[i]
<1>1. Len(s) \in Nat /\ Len(t) \in Nat
  OBVIOUS
<1>2. SubSeq(s, 1, Len(s)) = [i \in 1 .. Len(s) |-> s[i]]
  BY <1>1
<1>3. ASSUME Len(s) <= Len(t) PROVE SubSeq(t, 1, Len(s)) = [i \in 1 .. Len(s) |-> t[i]]
  BY <1>1, <1>3
<1> QED BY <1>1, <1>2, <1>3 DEF IsPrefix

\* A sequence is a prefix of itself with another behind it.
LEMMA PrefixConcat ==
    ASSUME NEW S, NEW s \in Seq(S), NEW x \in Seq(S)
    PROVE  IsPrefix(s, s \o x)
<1>1. /\ s \o x \in Seq(S) /\ Len(s) <= Len(s \o x)
      /\ \A i \in 1 .. Len(s) : s[i] = (s \o x)[i]
  BY ConcatProperties
<1> QED BY <1>1, PrefixElements

\* Every sequence is a prefix of itself.
LEMMA PrefixSelf == ASSUME NEW S, NEW s \in Seq(S) PROVE IsPrefix(s, s)
<1>1. Len(s) \in Nat
  OBVIOUS
<1> QED BY <1>1, PrefixElements

\* A prefix of a prefix is a prefix.
LEMMA PrefixTransitive ==
    ASSUME NEW S, NEW s \in Seq(S), NEW t \in Seq(S), NEW u \in Seq(S),
           IsPrefix(s, t), IsPrefix(t, u)
    PROVE  IsPrefix(s, u)
<1>1. Len(s) \in Nat /\ Len(t) \in Nat /\ Len(u) \in Nat
  OBVIOUS
<1>2. Len(s) <= Len(t) /\ \A i \in 1 .. Len(s) : s[i] = t[i]
  BY PrefixElements
<1>3. Len(t) <= Len(u) /\ \A i \in 1 .. Len(t) : t[i] = u[i]
  BY PrefixElements
<1>4. Len(s) <= Len(u) /\ \A i \in 1 .. Len(s) : s[i] = u[i]
  BY <1>1, <1>2, <1>3
<1> QED BY <1>4, PrefixElements

\* What a front of the sequences gives is a front of what all of them give.
LEMMA FlattenPrefix ==
    ASSUME NEW S, NEW t \in Seq(Seq(S)), NEW s \in Seq(Seq(S)),
           Len(t) <= Len(s), \A i \in 1 .. Len(t) : s[i] = t[i]
    PROVE  IsPrefix(FlattenSeq(t), FlattenSeq(s))
<1> DEFINE n == Len(t)
           T == {d \in Nat : \A u \in Seq(Seq(S)) :
                    Len(u) = n + d /\ (\A i \in 1 .. n : u[i] = t[i]) =>
                       IsPrefix(FlattenSeq(t), FlattenSeq(u))}
<1>1. n \in Nat /\ n = Len(t) /\ FlattenSeq(t) \in Seq(S)
  BY FlattenType
<1> HIDE DEF n
<1>2. 0 \in T
  <2> SUFFICES ASSUME NEW u \in Seq(Seq(S)), Len(u) = n + 0,
                      \A i \in 1 .. n : u[i] = t[i]
               PROVE  IsPrefix(FlattenSeq(t), FlattenSeq(u))
    OBVIOUS
  <2>1. u = t
    BY <1>1, SeqEqual
  <2> QED BY <1>1, <2>1, PrefixSelf
<1>3. ASSUME NEW d \in Nat, d \in T PROVE d + 1 \in T
  <2> SUFFICES ASSUME NEW u \in Seq(Seq(S)), Len(u) = n + (d + 1),
                      \A i \in 1 .. n : u[i] = t[i]
               PROVE  IsPrefix(FlattenSeq(t), FlattenSeq(u))
    OBVIOUS
  <2> DEFINE f == SubSeq(u, 1, n + d)
             x == u[n + (d + 1)]
  <2>1. /\ f \in Seq(Seq(S)) /\ Len(f) = n + d /\ x \in Seq(S)
        /\ \A i \in 1 .. n + d : f[i] = u[i]
    BY <1>1
  <2>2. u = Append(f, x)
    <3> HIDE DEF f, x
    <3>1. /\ Append(f, x) \in Seq(Seq(S)) /\ Len(Append(f, x)) = Len(f) + 1
          /\ \A i \in 1 .. Len(f) : Append(f, x)[i] = f[i]
          /\ Append(f, x)[Len(f) + 1] = x
      BY <2>1, AppendProperties
    <3>2. Len(f) + 1 = n + (d + 1) /\ Len(f) = n + d
      BY <1>1, <2>1
    <3>3. ASSUME NEW i \in 1 .. Len(u) PROVE u[i] = Append(f, x)[i]
      <4>1. i \in 1 .. n + d \/ i = n + (d + 1)
        BY <1>1
      <4>2. CASE i \in 1 .. n + d
        BY <2>1, <3>2, <3>1, <4>2
      <4>3. CASE i = n + (d + 1)
        BY <3>2, <3>1, <4>3 DEF x
      <4> QED BY <4>1, <4>2, <4>3
    <3> QED BY <3>2, <3>1, <3>3, SeqEqual
  <2>3. IsPrefix(FlattenSeq(t), FlattenSeq(f))
    <3> HIDE DEF f
    <3>1. \A i \in 1 .. n : f[i] = t[i]
      <4>1. \A i \in 1 .. n : i \in 1 .. n + d
        BY <1>1
      <4> QED BY <2>1, <4>1
    <3> QED BY <1>3, <2>1, <3>1
  <2> HIDE DEF f, x
  <2> DEFINE a == FlattenSeq(f)
  <2>4. a \in Seq(S) /\ FlattenSeq(u) = a \o x
    BY <2>1, <2>2, FlattenType, FlattenAppend
  <2>5. IsPrefix(FlattenSeq(t), a)
    BY <2>3
  <2> HIDE DEF a
  <2>6. IsPrefix(a, a \o x) /\ a \o x \in Seq(S)
    BY <2>1, <2>4, PrefixConcat, ConcatProperties
  <2> QED BY <1>1, <2>4, <2>5, <2>6, PrefixTransitive
<1> HIDE DEF T
<1>4. Nat \subseteq T
  BY <1>2, <1>3, SetInduction
<1>5. Len(s) - n \in Nat /\ Len(s) = n + (Len(s) - n) /\ n = Len(t)
  BY <1>1
<1> QED BY <1>4, <1>5 DEF T

=============================================================================
