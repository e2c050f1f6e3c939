--------------------------- MODULE SequenceLemmas ---------------------------
(***************************************************************************)
(* Induction over sequences, and what it says of the operators that the    *)
(* conversions are built from: Only, FlattenSeq and folds.                 *)
(***************************************************************************)
EXTENDS Integers, SequencesExt, Pattern, SequenceTheorems, WellFoundedInduction, TLAPS

\* A set of places has a first one.
LEMMA FirstPlace ==
    ASSUME NEW places \in SUBSET Nat, places # {}
    PROVE  Min(places) \in places /\ \A i \in places : Min(places) <= i
<1> DEFINE before == OpToRel(<, Nat)
<1>1. \A x, y \in Nat : <<x, y>> \in before <=> x < y
  BY DEF OpToRel
<1>2. IsWellFoundedOn(before, Nat)
  BY NatLessThanWellFounded
<1> HIDE DEF before
<1>3. PICK x \in places : \A y \in places : <<y, x>> \notin before
  BY <1>2, WFMin
<1>4. ASSUME NEW y \in places PROVE x <= y
  <2>1. <<y, x>> \in before <=> y < x
    BY <1>1
  <2>2. ~ (y < x)
    BY <1>3, <2>1
  <2> QED BY <2>2
<1> QED BY <1>4 DEF Min

\* Induction up to a bound: what holds of 0 and is handed on holds of each.
LEMMA UpTo ==
    ASSUME NEW n \in Nat, NEW P, 0 \in P, \A k \in 0 .. n - 1 : k \in P => k + 1 \in P
    PROVE  \A k \in 0 .. n : k \in P
<1> DEFINE bad == {k \in 0 .. n : k \notin P}
<1> SUFFICES ASSUME bad # {} PROVE FALSE
  OBVIOUS
<1>1. Min(bad) \in bad /\ \A k \in bad : Min(bad) <= k
  BY FirstPlace
<1> DEFINE m == Min(bad)
<1> HIDE DEF m
<1>2. m \in 0 .. n /\ m \notin P /\ \A k \in bad : m <= k
  BY <1>1 DEF m
<1>3. m # 0
  BY <1>2
<1>4. m - 1 \in 0 .. n - 1 /\ ~ (m <= m - 1) /\ m - 1 \in 0 .. n
  BY <1>2, <1>3
<1>5. m - 1 \in P
  BY <1>2, <1>4
<1>6. m - 1 + 1 = m
  BY <1>2
<1> QED BY <1>2, <1>4, <1>5, <1>6

\* Induction over sequences.
LEMMA SequenceInduction ==
    ASSUME NEW E, NEW P, <<>> \in P,
           \A s \in Seq(E), x \in E : s \in P => Append(s, x) \in P
    PROVE  \A s \in Seq(E) : s \in P
<1> SUFFICES ASSUME NEW t \in Seq(E) PROVE t \in P
  OBVIOUS
<1> DEFINE Q == {n \in Nat : \A s \in Seq(E) : Len(s) = n => s \in P}
<1>1. 0 \in Q
  BY EmptySeq
<1>2. ASSUME NEW k \in 0 .. Len(t) - 1, k \in Q PROVE k + 1 \in Q
  <2> SUFFICES ASSUME NEW s \in Seq(E), Len(s) = k + 1 PROVE s \in P
    BY LenProperties
  <2>1. s # <<>>
    BY EmptySeq
  <2>2. PICK r \in Seq(E), x \in E : s = Append(r, x)
    BY <2>1, SequenceEmptyOrAppend
  <2>3. Len(r) = k
    BY <2>2, AppendProperties, LenProperties
  <2> QED BY <1>2, <2>2, <2>3
<1> HIDE DEF Q
<1>3. Len(t) \in Nat /\ Len(t) \in 0 .. Len(t)
  BY LenProperties
<1>4. Len(t) \in Q
  BY <1>1, <1>2, <1>3, UpTo
<1> QED BY <1>4 DEF Q

\* A recursion on numbers has a solution.
Recursion(h, V, base, n, step) ==
    /\ h \in [0 .. n -> V]
    /\ h = [k \in 0 .. n |-> IF k = 0 THEN base ELSE step[k][h[k - 1]]]

LEMMA RecursionSolved ==
    ASSUME NEW V, NEW base \in V, NEW n \in Nat, NEW step,
           \A k \in 1 .. n, v \in V : step[k][v] \in V
    PROVE  \E h : Recursion(h, V, base, n, step)
<1> DEFINE Solves(h, m) ==
             /\ h \in [0 .. m -> V] /\ h[0] = base
             /\ \A k \in 1 .. m : h[k] = step[k][h[k - 1]]
           P == {m \in Nat : \E h \in [0 .. m -> V] : Solves(h, m)}
<1>1. 0 \in P
  <2> DEFINE h == [k \in 0 .. 0 |-> base]
  <2>1. Solves(h, 0)
    OBVIOUS
  <2> QED BY <2>1
<1>2. ASSUME NEW m \in 0 .. n - 1, m \in P PROVE m + 1 \in P
  <2>1. PICK h \in [0 .. m -> V] : Solves(h, m)
    BY <1>2
  <2> DEFINE g == [k \in 0 .. m + 1 |-> IF k = m + 1 THEN step[m + 1][h[m]] ELSE h[k]]
  <2>2. g \in [0 .. m + 1 -> V]
    <3>1. m + 1 \in 1 .. n /\ h[m] \in V
      BY <2>1
    <3>2. \A k \in 0 .. m + 1 : k # m + 1 => k \in 0 .. m
      OBVIOUS
    <3> QED BY <2>1, <3>1, <3>2
  <2>3. g[0] = base
    BY <2>1
  <2>4. ASSUME NEW k \in 1 .. m + 1 PROVE g[k] = step[k][g[k - 1]]
    <3>1. CASE k = m + 1
      <4>1. k - 1 = m /\ m \in 0 .. m + 1 /\ m # m + 1
        BY <3>1
      <4> QED BY <3>1, <4>1
    <3>2. CASE k # m + 1
      <4>1. k \in 1 .. m /\ k - 1 \in 0 .. m + 1 /\ k - 1 # m + 1 /\ k \in 0 .. m + 1
        BY <3>2
      <4> QED BY <2>1, <3>2, <4>1
    <3> QED BY <3>1, <3>2
  <2>5. Solves(g, m + 1)
    BY <2>2, <2>3, <2>4
  <2> HIDE DEF g, Solves
  <2> QED BY <2>2, <2>5
<1>3. n \in P
  <2> HIDE DEF P
  <2> QED BY <1>1, <1>2, UpTo
<1>4. PICK h \in [0 .. n -> V] : Solves(h, n)
  BY <1>3
<1>5. h = [k \in 0 .. n |-> IF k = 0 THEN base ELSE step[k][h[k - 1]]]
  BY <1>4
<1> QED BY <1>4, <1>5 DEF Recursion

----------------------------------------------------------------------------
(* Only *)

\* What is chosen of each prefix of a sequence.
OnlyOfPrefix(h, s, set, E) ==
    /\ h \in [0 .. Len(s) -> Seq(E)]
    /\ h[0] = <<>>
    /\ \A k \in 1 .. Len(s) : h[k] = IF s[k] \in set THEN Append(h[k - 1], s[k]) ELSE h[k - 1]
    /\ Only(s, set) = h[Len(s)]

LEMMA OnlyByPrefix ==
    ASSUME NEW E, NEW s \in Seq(E), NEW set
    PROVE  \E h : OnlyOfPrefix(h, s, set, E)
<1> DEFINE n == Len(s)
           V == Seq(E)
           base == <<>>
           step == [k \in 1 .. n |-> [v \in V |-> IF s[k] \in set THEN Append(v, s[k]) ELSE v]]
           Sol(h) == h = [k \in 0 .. n |->
                             IF k = 0 THEN <<>>
                             ELSE IF s[k] \in set THEN Append(h[k - 1], s[k]) ELSE h[k - 1]]
           it == CHOOSE h : Sol(h)
<1>1. n \in Nat /\ base \in V /\ \A k \in 1 .. n, v \in V : step[k][v] \in V
  <2>1. \A k \in 1 .. n : s[k] \in E
    BY ElementOfSeq
  <2> QED BY <2>1, LenProperties, EmptySeq, AppendProperties
<1>2. PICK f : Recursion(f, V, base, n, step)
  <2> HIDE DEF step, n, V, base
  <2> QED BY <1>1, RecursionSolved
<1>3. Sol(f)
  <2>1. ASSUME NEW k \in 0 .. n, k # 0
        PROVE  step[k][f[k - 1]] =
                  IF s[k] \in set THEN Append(f[k - 1], s[k]) ELSE f[k - 1]
    <3>1. k \in 1 .. n /\ k - 1 \in 0 .. n
      BY <1>1, <2>1
    <3>2. f[k - 1] \in V
      BY <1>2, <3>1 DEF Recursion
    <3> QED BY <3>1, <3>2
  <2> HIDE DEF step, n
  <2> QED BY <1>2, <2>1 DEF Recursion
<1>4. Sol(it)
  BY <1>3
<1>5. Only(s, set) = it[n]
  BY DEF Only
<1> HIDE DEF it
<1>6. /\ it[0] = <<>>
      /\ \A k \in 1 .. n : it[k] = IF s[k] \in set THEN Append(it[k - 1], s[k]) ELSE it[k - 1]
      /\ DOMAIN it = 0 .. n
  <2>1. 0 \in 0 .. n /\ \A k \in 1 .. n : k \in 0 .. n /\ k # 0
    BY <1>1
  <2> HIDE DEF n
  <2> QED BY <1>4, <2>1
<1>7. \A k \in 0 .. n : it[k] \in V
  <2> DEFINE P == {k \in 0 .. n : it[k] \in V}
  <2>1. 0 \in P
    <3>1. it[0] \in V
      BY <1>6, EmptySeq
    <3> QED BY <1>1, <3>1
  <2>2. ASSUME NEW k \in 0 .. n - 1, k \in P PROVE k + 1 \in P
    <3>1. k + 1 \in 1 .. n /\ k + 1 \in 0 .. n /\ k + 1 - 1 = k
      BY <1>1, <2>2
    <3>2. s[k + 1] \in E
      BY <3>1, ElementOfSeq
    <3>3. it[k + 1] = IF s[k + 1] \in set THEN Append(it[k], s[k + 1]) ELSE it[k]
      BY <1>6, <3>1
    <3>4. it[k] \in Seq(E)
      BY <2>2
    <3>5. it[k + 1] \in Seq(E)
      BY <3>2, <3>3, <3>4, AppendProperties
    <3> QED BY <3>1, <3>5
  <2> HIDE DEF P
  <2>3. \A k \in 0 .. n : k \in P
    BY <1>1, <2>1, <2>2, UpTo
  <2> QED BY <2>3 DEF P
<1>8. it \in [0 .. n -> V]
  BY <1>4, <1>7
<1> QED BY <1>5, <1>6, <1>8 DEF OnlyOfPrefix

\* Only goes from left to right.
LEMMA OnlyAppend ==
    ASSUME NEW E, NEW s \in Seq(E), NEW x \in E, NEW set
    PROVE  /\ Only(<<>>, set) = <<>>
           /\ x \in set => Only(Append(s, x), set) = Append(Only(s, set), x)
           /\ x \notin set => Only(Append(s, x), set) = Only(s, set)
<1>1. Only(<<>>, set) = <<>>
  <2>1. PICK h : OnlyOfPrefix(h, <<>>, set, E)
    BY EmptySeq, OnlyByPrefix
  <2> QED BY <2>1, EmptySeq DEF OnlyOfPrefix
<1>2. PICK h : OnlyOfPrefix(h, s, set, E)
  BY OnlyByPrefix
<1> DEFINE t == Append(s, x)
<1>3. /\ t \in Seq(E) /\ Len(s) \in Nat /\ Len(t) = Len(s) + 1 /\ t[Len(s) + 1] = x
      /\ \A k \in 1 .. Len(s) : t[k] = s[k]
  BY AppendProperties, LenProperties
<1> HIDE DEF t
<1>4. PICK g : OnlyOfPrefix(g, t, set, E)
  BY <1>3, OnlyByPrefix
<1> USE <1>2, <1>4 DEF OnlyOfPrefix
<1>5. \A k \in 0 .. Len(s) : g[k] = h[k]
  <2> DEFINE P == {k \in 0 .. Len(s) : g[k] = h[k]}
  <2>1. 0 \in P
    BY <1>2, <1>3, <1>4
  <2>2. ASSUME NEW k \in 0 .. Len(s) - 1, k \in P PROVE k + 1 \in P
    <3>1. k + 1 \in 1 .. Len(s) /\ k + 1 \in 1 .. Len(t) /\ k + 1 - 1 = k /\ k + 1 \in 0 .. Len(s)
      BY <1>3
    <3>2. t[k + 1] = s[k + 1]
      BY <1>3, <3>1
    <3>3. g[k + 1] = IF t[k + 1] \in set THEN Append(g[k], t[k + 1]) ELSE g[k]
      BY <1>4, <3>1
    <3>4. h[k + 1] = IF s[k + 1] \in set THEN Append(h[k], s[k + 1]) ELSE h[k]
      BY <1>2, <3>1
    <3> QED BY <2>2, <3>1, <3>2, <3>3, <3>4
  <2> HIDE DEF P
  <2>3. \A k \in 0 .. Len(s) : k \in P
    BY <1>3, <2>1, <2>2, UpTo
  <2> QED BY <2>3 DEF P
<1>6. Only(t, set) = IF x \in set THEN Append(Only(s, set), x) ELSE Only(s, set)
  <2>1. Len(t) \in 1 .. Len(t) /\ Len(t) - 1 = Len(s) /\ Len(s) \in 0 .. Len(s)
    BY <1>3
  <2>2. Only(t, set) = g[Len(t)] /\ Only(s, set) = h[Len(s)] /\ g[Len(s)] = h[Len(s)]
    BY <1>5, <2>1
  <2>3. g[Len(t)] = IF t[Len(t)] \in set THEN Append(g[Len(t) - 1], t[Len(t)]) ELSE g[Len(t) - 1]
    BY <2>1
  <2>4. t[Len(t)] = x
    BY <1>3
  <2> QED BY <2>1, <2>2, <2>3, <2>4
<1> QED BY <1>1, <1>6 DEF t

LEMMA OnlyType == ASSUME NEW E, NEW s \in Seq(E), NEW set PROVE Only(s, set) \in Seq(E)
<1>1. PICK h : OnlyOfPrefix(h, s, set, E)
  BY OnlyByPrefix
<1>2. Len(s) \in 0 .. Len(s)
  BY LenProperties
<1> QED BY <1>1, <1>2 DEF OnlyOfPrefix

LEMMA OnlyEmpty == ASSUME NEW set PROVE Only(<<>>, set) = <<>>
<1>1. <<>> \in Seq({0}) /\ 0 \in {0}
  BY EmptySeq
<1> QED BY <1>1, OnlyAppend

\* The elements of a longer sequence.
LEMMA ElementsAppend ==
    ASSUME NEW E, NEW s \in Seq(E), NEW x \in E
    PROVE  ToSet(<<>>) = {} /\ ToSet(Append(s, x)) = ToSet(s) \cup {x}
<1>1. ToSet(<<>>) = {}
  BY EmptySeq DEF ToSet
<1> DEFINE t == Append(s, x)
<1>2. /\ t \in Seq(E) /\ Len(s) \in Nat /\ Len(t) = Len(s) + 1 /\ t[Len(s) + 1] = x
      /\ \A k \in 1 .. Len(s) : t[k] = s[k]
      /\ DOMAIN t = 1 .. Len(s) + 1 /\ DOMAIN s = 1 .. Len(s)
  BY AppendProperties, LenProperties
<1> HIDE DEF t
<1>3. ToSet(t) \subseteq ToSet(s) \cup {x}
  <2>1. ASSUME NEW k \in DOMAIN t PROVE t[k] \in ToSet(s) \cup {x}
    <3>1. CASE k = Len(s) + 1
      BY <1>2, <3>1
    <3>2. CASE k # Len(s) + 1
      <4>1. k \in 1 .. Len(s)
        BY <1>2, <3>2
      <4> QED BY <1>2, <4>1 DEF ToSet
    <3> QED BY <3>1, <3>2
  <2> QED BY <2>1 DEF ToSet
<1>4. ToSet(s) \cup {x} \subseteq ToSet(t)
  <2>1. \A k \in 1 .. Len(s) : k \in DOMAIN t
    BY <1>2
  <2>2. Len(s) + 1 \in DOMAIN t
    BY <1>2
  <2> QED BY <1>2, <2>1, <2>2 DEF ToSet
<1> QED BY <1>1, <1>3, <1>4 DEF t

\* What is chosen is what there is of the set.
LEMMA OnlySet ==
    ASSUME NEW E, NEW s \in Seq(E), NEW set
    PROVE  ToSet(Only(s, set)) = ToSet(s) \cap set
<1> DEFINE P == {r \in Seq(E) : ToSet(Only(r, set)) = ToSet(r) \cap set}
<1> HIDE DEF P
<1>1. <<>> \in P
  BY OnlyEmpty, EmptySeq DEF P, ToSet
<1>2. ASSUME NEW r \in Seq(E), NEW x \in E, r \in P PROVE Append(r, x) \in P
  <2>0. Append(r, x) \in Seq(E)
    BY AppendProperties
  <2>1. Only(r, set) \in Seq(E)
    BY OnlyType
  <2>4. /\ x \in set => Only(Append(r, x), set) = Append(Only(r, set), x)
        /\ x \notin set => Only(Append(r, x), set) = Only(r, set)
    BY OnlyAppend
  <2>2. ToSet(Append(r, x)) = ToSet(r) \cup {x}
    BY ElementsAppend
  <2>3. ToSet(Append(Only(r, set), x)) = ToSet(Only(r, set)) \cup {x}
    BY <2>1, ElementsAppend
  <2> QED BY <1>2, <2>0, <2>2, <2>3, <2>4 DEF P
<1>3. s \in P
  BY <1>1, <1>2, SequenceInduction
<1> QED BY <1>3 DEF P

\* Choosing twice is choosing once.
LEMMA OnlyTwice ==
    ASSUME NEW E, NEW s \in Seq(E), NEW A, NEW B
    PROVE  Only(Only(s, A), B) = Only(s, A \cap B)
<1> DEFINE C == A \cap B
           P == {r \in Seq(E) : Only(Only(r, A), B) = Only(r, C)}
<1> HIDE DEF P, C
<1>1. <<>> \in P
  BY OnlyEmpty, EmptySeq DEF P
<1>2. ASSUME NEW r \in Seq(E), NEW x \in E, r \in P PROVE Append(r, x) \in P
  <2>0. Append(r, x) \in Seq(E)
    BY AppendProperties
  <2>1. Only(r, A) \in Seq(E)
    BY OnlyType
  <2>5. /\ x \in A => Only(Append(r, x), A) = Append(Only(r, A), x)
        /\ x \notin A => Only(Append(r, x), A) = Only(r, A)
    BY OnlyAppend
  <2>4. /\ x \in C => Only(Append(r, x), C) = Append(Only(r, C), x)
        /\ x \notin C => Only(Append(r, x), C) = Only(r, C)
    BY OnlyAppend
  <2>6. x \in C <=> x \in A /\ x \in B
    BY DEF C
  <2>2. /\ x \in B => Only(Append(Only(r, A), x), B) = Append(Only(Only(r, A), B), x)
        /\ x \notin B => Only(Append(Only(r, A), x), B) = Only(Only(r, A), B)
    BY <2>1, OnlyAppend
  <2>3. Only(Only(r, A), B) = Only(r, C)
    BY <1>2 DEF P
  <2> QED BY <2>0, <2>2, <2>3, <2>4, <2>5, <2>6 DEF P
<1>3. s \in P
  BY <1>1, <1>2, SequenceInduction
<1> QED BY <1>3 DEF P, C

\* Two sets that do not differ on the elements choose the same.
LEMMA OnlySame ==
    ASSUME NEW E, NEW s \in Seq(E), NEW A, NEW B, ToSet(s) \cap A = ToSet(s) \cap B
    PROVE  Only(s, A) = Only(s, B)
<1> DEFINE P == {r \in Seq(E) : ToSet(r) \cap A = ToSet(r) \cap B => Only(r, A) = Only(r, B)}
<1> HIDE DEF P
<1>1. <<>> \in P
  BY OnlyEmpty, EmptySeq DEF P
<1>2. ASSUME NEW r \in Seq(E), NEW x \in E, r \in P PROVE Append(r, x) \in P
  <2>0. Append(r, x) \in Seq(E)
    BY AppendProperties
  <2>1. /\ x \in A => Only(Append(r, x), A) = Append(Only(r, A), x)
        /\ x \notin A => Only(Append(r, x), A) = Only(r, A)
    BY OnlyAppend
  <2>4. /\ x \in B => Only(Append(r, x), B) = Append(Only(r, B), x)
        /\ x \notin B => Only(Append(r, x), B) = Only(r, B)
    BY OnlyAppend
  <2>2. ToSet(Append(r, x)) = ToSet(r) \cup {x}
    BY ElementsAppend
  <2>3. ASSUME ToSet(Append(r, x)) \cap A = ToSet(Append(r, x)) \cap B
        PROVE  ToSet(r) \cap A = ToSet(r) \cap B /\ (x \in A <=> x \in B)
    BY <2>2, <2>3
  <2> QED BY <1>2, <2>0, <2>1, <2>3, <2>4 DEF P
<1>3. s \in P
  BY <1>1, <1>2, SequenceInduction
<1> QED BY <1>3 DEF P

\* Choosing all.
LEMMA OnlyAll ==
    ASSUME NEW E, NEW s \in Seq(E), NEW A, ToSet(s) \subseteq A
    PROVE  Only(s, A) = s
<1> DEFINE P == {r \in Seq(E) : ToSet(r) \subseteq A => Only(r, A) = r}
<1> HIDE DEF P
<1>1. <<>> \in P
  BY OnlyEmpty, EmptySeq DEF P
<1>2. ASSUME NEW r \in Seq(E), NEW x \in E, r \in P PROVE Append(r, x) \in P
  <2>0. Append(r, x) \in Seq(E)
    BY AppendProperties
  <2>1. /\ x \in A => Only(Append(r, x), A) = Append(Only(r, A), x)
        /\ x \notin A => Only(Append(r, x), A) = Only(r, A)
    BY OnlyAppend
  <2>2. ToSet(Append(r, x)) = ToSet(r) \cup {x}
    BY ElementsAppend
  <2> QED BY <1>2, <2>0, <2>1, <2>2 DEF P
<1>3. s \in P
  BY <1>1, <1>2, SequenceInduction
<1> QED BY <1>3 DEF P

\* A longer sequence at the end of another one.
LEMMA ConcatAppend ==
    ASSUME NEW E, NEW s \in Seq(E), NEW t \in Seq(E), NEW x \in E
    PROVE  /\ s \o <<>> = s
           /\ s \o Append(t, x) = Append(s \o t, x)
<1>1. <<x>> \in Seq(E) /\ Append(t, x) = t \o <<x>> /\ Append(s \o t, x) = (s \o t) \o <<x>>
  BY AppendIsConcat, ConcatProperties
<1>2. s \o (t \o <<x>>) = (s \o t) \o <<x>>
  BY <1>1, ConcatAssociative
<1> QED BY <1>1, <1>2, ConcatEmptySeq

LEMMA OnlyConcat ==
    ASSUME NEW E, NEW s \in Seq(E), NEW t \in Seq(E), NEW set
    PROVE  Only(s \o t, set) = Only(s, set) \o Only(t, set)
<1> DEFINE P == {r \in Seq(E) : Only(s \o r, set) = Only(s, set) \o Only(r, set)}
<1> HIDE DEF P
<1>0. Only(s, set) \in Seq(E)
  BY OnlyType
<1>1. <<>> \in P
  BY <1>0, OnlyEmpty, EmptySeq, ConcatEmptySeq DEF P
<1>2. ASSUME NEW r \in Seq(E), NEW x \in E, r \in P PROVE Append(r, x) \in P
  <2>1. Append(r, x) \in Seq(E) /\ s \o r \in Seq(E)
    BY AppendProperties, ConcatProperties
  <2>2. Only(r, set) \in Seq(E)
    BY OnlyType
  <2>3. /\ s \o Append(r, x) = Append(s \o r, x)
        /\ Only(s, set) \o Append(Only(r, set), x) = Append(Only(s, set) \o Only(r, set), x)
    BY <1>0, <2>2, ConcatAppend
  <2>4. /\ x \in set => Only(Append(r, x), set) = Append(Only(r, set), x)
        /\ x \notin set => Only(Append(r, x), set) = Only(r, set)
    BY OnlyAppend
  <2>5. /\ x \in set => Only(Append(s \o r, x), set) = Append(Only(s \o r, set), x)
        /\ x \notin set => Only(Append(s \o r, x), set) = Only(s \o r, set)
    <3> DEFINE q == s \o r
    <3>1. q \in Seq(E)
      BY <2>1
    <3> HIDE DEF q
    <3>2. /\ x \in set => Only(Append(q, x), set) = Append(Only(q, set), x)
          /\ x \notin set => Only(Append(q, x), set) = Only(q, set)
      BY <3>1, OnlyAppend
    <3> QED BY <3>2 DEF q
  <2>6. Only(s \o r, set) = Only(s, set) \o Only(r, set)
    BY <1>2 DEF P
  <2> QED BY <2>1, <2>3, <2>4, <2>5, <2>6 DEF P
<1>3. t \in P
  BY <1>1, <1>2, SequenceInduction
<1> QED BY <1>3 DEF P

----------------------------------------------------------------------------
(* FlattenSeq *)

\* Each prefix of some texts as one text.
FlattenedPrefix(h, texts, E) ==
    /\ h \in [1 .. Len(texts) -> Seq(E)]
    /\ h[1] = texts[1]
    /\ \A k \in 2 .. Len(texts) : h[k] = h[k - 1] \o texts[k]
    /\ FlattenSeq(texts) = h[Len(texts)]

LEMMA FlattenByPrefix ==
    ASSUME NEW E, NEW texts \in Seq(Seq(E)), texts # <<>>
    PROVE  \E h : FlattenedPrefix(h, texts, E)
<1> DEFINE n == Len(texts)
           V == Seq(E)
           base == <<>>
           step == [k \in 1 .. n |-> [v \in V |-> v \o texts[k]]]
           Sol(h) == h = [k \in 1 .. n |-> IF k = 1 THEN texts[k] ELSE h[k - 1] \o texts[k]]
           it == CHOOSE h : Sol(h)
<1>0. n \in Nat /\ n # 0 /\ \A k \in 1 .. n : texts[k] \in V
  BY LenProperties, ElementOfSeq, EmptySeq
<1>1. base \in V /\ \A k \in 1 .. n, v \in V : step[k][v] \in V
  BY <1>0, EmptySeq, ConcatProperties
<1>2. PICK f : Recursion(f, V, base, n, step)
  <2> HIDE DEF step, n, V, base
  <2> QED BY <1>0, <1>1, RecursionSolved
<1>3. Sol([k \in 1 .. n |-> f[k]])
  <2> DEFINE g == [k \in 1 .. n |-> f[k]]
  <2>1. \A k \in 0 .. n : f[k] \in V
    BY <1>2 DEF Recursion
  <2>2. ASSUME NEW k \in 1 .. n PROVE f[k] = f[k - 1] \o texts[k]
    <3>1. k - 1 \in 0 .. n /\ k \in 0 .. n /\ k # 0
      BY <1>0
    <3>2. f[k] = step[k][f[k - 1]]
      <4> HIDE DEF step, n
      <4> QED BY <1>2, <3>1 DEF Recursion
    <3> QED BY <2>1, <3>1, <3>2
  <2>3. f[1] = texts[1]
    <3>1. f[1 - 1] = <<>>
      <4> HIDE DEF n
      <4>1. 0 \in 0 .. n /\ 1 - 1 = 0
        BY <1>0
      <4> QED BY <1>2, <4>1 DEF Recursion
    <3>2. 1 \in 1 .. n
      BY <1>0
    <3>3. f[1] = f[1 - 1] \o texts[1]
      BY <2>2, <3>2
    <3>4. texts[1] \in V /\ <<>> \o texts[1] = texts[1]
      BY <1>0, <3>2, ConcatEmptySeq
    <3> QED BY <3>1, <3>3, <3>4
  <2>4. \A k \in 1 .. n : k # 1 => k - 1 \in 1 .. n
    BY <1>0
  <2>5. \A k \in 1 .. n : g[k] = IF k = 1 THEN texts[k] ELSE g[k - 1] \o texts[k]
    <3> HIDE DEF n
    <3> QED BY <2>2, <2>3, <2>4
  <2> QED BY <2>5
<1>4. Sol(it)
  BY <1>3
<1>5. FlattenSeq(texts) = it[n]
  BY <1>0 DEF FlattenSeq
<1> HIDE DEF it
<1>6. /\ it[1] = texts[1]
      /\ \A k \in 2 .. n : it[k] = it[k - 1] \o texts[k]
      /\ DOMAIN it = 1 .. n
  <2>1. 1 \in 1 .. n /\ \A k \in 2 .. n : k \in 1 .. n /\ k # 1
    BY <1>0
  <2> HIDE DEF n
  <2> QED BY <1>4, <2>1
<1>7. \A k \in 1 .. n : it[k] \in V
  <2> DEFINE P == {k \in 0 .. n : k # 0 => it[k] \in V}
  <2>1. 0 \in P
    BY <1>0
  <2>2. ASSUME NEW k \in 0 .. n - 1, k \in P PROVE k + 1 \in P
    <3>1. k + 1 \in 1 .. n /\ k + 1 \in 0 .. n /\ k + 1 - 1 = k
      BY <1>0, <2>2
    <3>2. CASE k = 0
      BY <1>0, <1>6, <3>1, <3>2
    <3>3. CASE k # 0
      <4>1. k + 1 \in 2 .. n /\ it[k] \in V /\ texts[k + 1] \in V
        BY <1>0, <2>2, <3>1, <3>3
      <4> DEFINE m == k + 1
      <4>2. it[m] = it[m - 1] \o texts[m]
        <5>1. m \in 2 .. n
          BY <4>1
        <5> HIDE DEF m, n
        <5> QED BY <1>6, <5>1
      <4>3. m - 1 = k
        BY <3>1
      <4>4. it[m] = it[k] \o texts[m]
        <5> HIDE DEF m
        <5> QED BY <4>2, <4>3
      <4> QED BY <3>1, <4>1, <4>4, ConcatProperties
    <3> QED BY <3>2, <3>3
  <2> HIDE DEF P
  <2>3. \A k \in 0 .. n : k \in P
    BY <1>0, <2>1, <2>2, UpTo
  <2>4. \A k \in 1 .. n : k \in 0 .. n /\ k # 0
    BY <1>0
  <2> QED BY <2>3, <2>4 DEF P
<1>8. it \in [1 .. n -> V]
  BY <1>4, <1>7
<1> QED BY <1>5, <1>6, <1>8 DEF FlattenedPrefix

\* A text more is added at the end.
LEMMA FlattenAppend ==
    ASSUME NEW E, NEW texts \in Seq(Seq(E)), NEW text \in Seq(E)
    PROVE  /\ FlattenSeq(<<>>) = <<>>
           /\ FlattenSeq(texts) \in Seq(E)
           /\ FlattenSeq(Append(texts, text)) = FlattenSeq(texts) \o text
<1>1. FlattenSeq(<<>>) = <<>>
  BY EmptySeq DEF FlattenSeq
<1> DEFINE t == Append(texts, text)
<1>3. /\ t \in Seq(Seq(E)) /\ Len(texts) \in Nat /\ Len(t) = Len(texts) + 1
      /\ t[Len(texts) + 1] = text /\ t # <<>>
      /\ \A k \in 1 .. Len(texts) : t[k] = texts[k]
  BY AppendProperties, LenProperties
<1> HIDE DEF t
<1>4. PICK g : FlattenedPrefix(g, t, E)
  BY <1>3, FlattenByPrefix
<1>5. CASE texts = <<>>
  <2>1. FlattenSeq(t) = text
    <3>1. Len(t) = 1 /\ t[1] = text
      BY <1>3, <1>5, EmptySeq
    <3> QED BY <1>4, <3>1 DEF FlattenedPrefix
  <2> QED BY <1>1, <1>5, <2>1, EmptySeq, ConcatEmptySeq DEF t
<1>6. CASE texts # <<>>
  <2>1. PICK h : FlattenedPrefix(h, texts, E)
    BY <1>6, FlattenByPrefix
  <2>2. Len(texts) \in 1 .. Len(texts)
    BY <1>3, <1>6, EmptySeq
  <2> USE <2>1, <1>4 DEF FlattenedPrefix
  <2>3. \A k \in 1 .. Len(texts) : g[k] = h[k]
    <3> DEFINE P == {k \in 0 .. Len(texts) : k # 0 => g[k] = h[k]}
    <3>1. 0 \in P
      BY <1>3
    <3>2. ASSUME NEW k \in 0 .. Len(texts) - 1, k \in P PROVE k + 1 \in P
      <4>1. k + 1 \in 1 .. Len(texts) /\ k + 1 - 1 = k /\ k + 1 \in 0 .. Len(texts)
        BY <1>3
      <4>2. t[k + 1] = texts[k + 1]
        BY <1>3, <4>1
      <4>3. CASE k = 0
        BY <4>1, <4>2, <4>3
      <4>4. CASE k # 0
        <5>1. k + 1 \in 2 .. Len(texts) /\ k + 1 \in 2 .. Len(t)
          BY <1>3, <4>4
        <5> DEFINE m == k + 1
        <5>2. g[m] = g[m - 1] \o t[m] /\ h[m] = h[m - 1] \o texts[m]
          <6>1. m \in 2 .. Len(texts) /\ m \in 2 .. Len(t)
            BY <5>1
          <6> HIDE DEF m
          <6> QED BY <6>1
        <5>3. g[k + 1] = g[k] \o t[k + 1] /\ h[k + 1] = h[k] \o texts[k + 1]
          BY <4>1, <5>2
        <5> QED BY <3>2, <4>1, <4>2, <4>4, <5>3
      <4> QED BY <4>3, <4>4
    <3> HIDE DEF P
    <3>3. \A k \in 0 .. Len(texts) : k \in P
      BY <1>3, <3>1, <3>2, UpTo
    <3>4. \A k \in 1 .. Len(texts) : k \in 0 .. Len(texts) /\ k # 0
      BY <1>3
    <3> QED BY <3>3, <3>4 DEF P
  <2>4. Len(t) \in 2 .. Len(t) /\ Len(t) - 1 = Len(texts)
    BY <1>3, <2>2
  <2>5. g[Len(t)] = g[Len(texts)] \o text
    BY <1>3, <2>4
  <2>6. FlattenSeq(t) = FlattenSeq(texts) \o text
    BY <2>2, <2>3, <2>5
  <2>7. FlattenSeq(texts) \in Seq(E)
    BY <2>2
  <2> QED BY <1>1, <2>6, <2>7 DEF t
<1> QED BY <1>5, <1>6

----------------------------------------------------------------------------
(* A function applied to each element. *)

Mapped(f, s) == [i \in DOMAIN s |-> f[s[i]]]

LEMMA MappedType ==
    ASSUME NEW E, NEW F, NEW f, NEW s \in Seq(E), \A x \in E : f[x] \in F
    PROVE  Mapped(f, s) \in Seq(F) /\ Len(Mapped(f, s)) = Len(s)
<1>1. Len(s) \in Nat /\ DOMAIN s = 1 .. Len(s) /\ \A i \in 1 .. Len(s) : s[i] \in E
  BY LenProperties, ElementOfSeq
<1>2. Mapped(f, s) \in [1 .. Len(s) -> F]
  BY <1>1 DEF Mapped
<1> HIDE DEF Mapped
<1> QED BY <1>1, <1>2, SeqDef, LenProperties

LEMMA MappedAppend ==
    ASSUME NEW E, NEW f, NEW s \in Seq(E), NEW x \in E
    PROVE  /\ Mapped(f, <<>>) = <<>>
           /\ Mapped(f, Append(s, x)) = Append(Mapped(f, s), f[x])
<1>1. Mapped(f, <<>>) = <<>>
  BY EmptySeq DEF Mapped
<1> DEFINE F == {f[e] : e \in E}
<1>2. ASSUME NEW r \in Seq(E)
      PROVE  Mapped(f, r) \in Seq(F) /\ Len(Mapped(f, r)) = Len(r)
  <2>1. \A e \in E : f[e] \in F
    OBVIOUS
  <2> HIDE DEF F
  <2> QED BY <2>1, MappedType
<1> DEFINE t == Append(s, x)
           a == Mapped(f, s)
<1>3. /\ t \in Seq(E) /\ Len(s) \in Nat /\ Len(t) = Len(s) + 1 /\ t[Len(s) + 1] = x
      /\ \A k \in 1 .. Len(s) : t[k] = s[k]
      /\ DOMAIN t = 1 .. Len(s) + 1 /\ DOMAIN s = 1 .. Len(s)
  BY AppendProperties, LenProperties
<1>10. f[x] \in F
  OBVIOUS
<1> HIDE DEF t, F
<1>4. /\ a \in Seq(F) /\ Len(a) = Len(s) /\ f[x] \in F
      /\ \A k \in 1 .. Len(s) : a[k] = f[s[k]]
  BY <1>2, <1>3, <1>10 DEF Mapped
<1>5. /\ Mapped(f, t) \in Seq(F) /\ Len(Mapped(f, t)) = Len(t)
      /\ \A k \in 1 .. Len(t) : Mapped(f, t)[k] = f[t[k]]
  BY <1>2, <1>3 DEF Mapped
<1> HIDE DEF a
<1>6. /\ Append(a, f[x]) \in Seq(F) /\ Len(Append(a, f[x])) = Len(a) + 1
      /\ Append(a, f[x])[Len(a) + 1] = f[x]
      /\ \A k \in 1 .. Len(a) : Append(a, f[x])[k] = a[k]
  BY <1>4, AppendProperties
<1>7. ASSUME NEW k \in 1 .. Len(t) PROVE Mapped(f, t)[k] = Append(a, f[x])[k]
  <2>1. CASE k = Len(s) + 1
    BY <1>3, <1>4, <1>5, <1>6, <2>1
  <2>2. CASE k # Len(s) + 1
    <3>1. k \in 1 .. Len(s)
      BY <1>3, <2>2
    <3> QED BY <1>3, <1>4, <1>5, <1>6, <3>1
  <2> QED BY <2>1, <2>2
<1>8. Mapped(f, t) = Append(a, f[x])
  BY <1>3, <1>4, <1>5, <1>6, <1>7, SeqEqual
<1> QED BY <1>1, <1>2, <1>8 DEF a, t

\* What is chosen of the values are the values of what is chosen.
LEMMA OnlyMapped ==
    ASSUME NEW E, NEW f, NEW s \in Seq(E), NEW A, NEW B,
           \A x \in E : f[x] \in A <=> x \in B
    PROVE  Only(Mapped(f, s), A) = Mapped(f, Only(s, B))
<1> DEFINE F == {f[x] : x \in E}
<1>0. \A x \in E : f[x] \in F
  OBVIOUS
<1> HIDE DEF F
<1> DEFINE P == {r \in Seq(E) : Only(Mapped(f, r), A) = Mapped(f, Only(r, B))}
<1> HIDE DEF P
<1>1. <<>> \in P
  <2>1. Mapped(f, <<>>) = <<>>
    BY EmptySeq DEF Mapped
  <2> QED BY <2>1, OnlyEmpty, EmptySeq DEF P
<1>2. ASSUME NEW r \in Seq(E), NEW x \in E, r \in P PROVE Append(r, x) \in P
  <2>0. Append(r, x) \in Seq(E) /\ f[x] \in F
    BY <1>0, AppendProperties
  <2>1. Only(r, B) \in Seq(E)
    BY OnlyType
  <2>2. /\ Mapped(f, r) \in Seq(F)
        /\ Mapped(f, Append(r, x)) = Append(Mapped(f, r), f[x])
        /\ Mapped(f, Append(Only(r, B), x)) = Append(Mapped(f, Only(r, B)), f[x])
    <3> DEFINE o == Only(r, B)
    <3>1. o \in Seq(E)
      BY <2>1
    <3> HIDE DEF o
    <3>2. Mapped(f, Append(o, x)) = Append(Mapped(f, o), f[x])
      BY <3>1, MappedAppend
    <3>3. Mapped(f, Append(r, x)) = Append(Mapped(f, r), f[x])
      BY MappedAppend
    <3>4. Mapped(f, r) \in Seq(F)
      BY <1>0, MappedType
    <3> QED BY <3>2, <3>3, <3>4 DEF o
  <2>3. /\ x \in B => Only(Append(r, x), B) = Append(Only(r, B), x)
        /\ x \notin B => Only(Append(r, x), B) = Only(r, B)
    BY OnlyAppend
  <2> DEFINE y == f[x]
             q == Mapped(f, r)
  <2>4. q \in Seq(F) /\ y \in F
    BY <2>0, <2>2
  <2> HIDE DEF q, y
  <2>5. /\ y \in A => Only(Append(q, y), A) = Append(Only(q, A), y)
        /\ y \notin A => Only(Append(q, y), A) = Only(q, A)
    BY <2>4, OnlyAppend
  <2>6. Only(q, A) = Mapped(f, Only(r, B)) /\ (y \in A <=> x \in B)
    BY <1>2 DEF P, q, y
  <2>7. Mapped(f, Append(r, x)) = Append(q, y)
    BY <2>2 DEF q, y
  <2>8. Mapped(f, Append(Only(r, B), x)) = Append(Mapped(f, Only(r, B)), y)
    BY <2>2 DEF y
  <2>9. Only(Mapped(f, Append(r, x)), A) = Mapped(f, Only(Append(r, x), B))
    <3>1. CASE x \in B
      BY <2>3, <2>5, <2>6, <2>7, <2>8, <3>1
    <3>2. CASE x \notin B
      BY <2>3, <2>5, <2>6, <2>7, <3>2
    <3> QED BY <3>1, <3>2
  <2> QED BY <2>0, <2>9 DEF P
<1>3. s \in P
  BY <1>1, <1>2, SequenceInduction
<1> QED BY <1>3 DEF P

----------------------------------------------------------------------------
(* FoldLeft: step[c][v] is what becomes of v when c comes next. *)

\* The values on the way through a sequence, and the last one.
Goes(h, base, step, s, n) ==
    h[0] = base /\ \A k \in 1 .. n : h[k] = step[s[k]][h[k - 1]]

Folded(h, V, base, step, s) == h \in [0 .. Len(s) -> V] /\ Goes(h, base, step, s, Len(s))

Folding(V, base, step, s) == (CHOOSE h : Folded(h, V, base, step, s))[Len(s)]

Steps(E, V, step) == \A c \in E, v \in V : step[c][v] \in V

LEMMA FoldedExists ==
    ASSUME NEW E, NEW V, NEW base \in V, NEW step,
           \A c \in E, v \in V : step[c][v] \in V, NEW s \in Seq(E)
    PROVE  \E h : Folded(h, V, base, step, s)
<1> DEFINE n == Len(s)
           at == [k \in 1 .. n |-> step[s[k]]]
<1>1. n \in Nat /\ \A k \in 1 .. n : s[k] \in E
  BY LenProperties, ElementOfSeq
<1>2. \A k \in 1 .. n, v \in V : at[k][v] \in V
  BY <1>1
<1>3. PICK h : Recursion(h, V, base, n, at)
  <2> HIDE DEF n, at
  <2> QED BY <1>1, <1>2, RecursionSolved
<1>4. /\ h \in [0 .. n -> V]
      /\ h = [k \in 0 .. n |-> IF k = 0 THEN base ELSE at[k][h[k - 1]]]
  BY <1>3 DEF Recursion
<1>5. \A k \in 1 .. n : k \in 0 .. n /\ k # 0
  BY <1>1
<1>6. 0 \in 0 .. n
  BY <1>1
<1>7. h[0] = base /\ \A k \in 1 .. n : h[k] = at[k][h[k - 1]]
  <2> HIDE DEF at, n
  <2> QED BY <1>4, <1>5, <1>6
<1>8. \A k \in 1 .. n : at[k] = step[s[k]]
  OBVIOUS
<1>9. Folded(h, V, base, step, s)
  <2> HIDE DEF at
  <2> QED BY <1>4, <1>7, <1>8 DEF Folded, Goes
<1> QED BY <1>9

\* Two ways through a sequence are one.
LEMMA FoldedOnce ==
    ASSUME NEW base, NEW step, NEW s, NEW n \in Nat, NEW h, NEW g,
           Goes(h, base, step, s, n), Goes(g, base, step, s, n)
    PROVE  \A k \in 0 .. n : g[k] = h[k]
<1> DEFINE P == {k \in 0 .. n : g[k] = h[k]}
<1>1. 0 \in P
  BY DEF Goes
<1>2. ASSUME NEW k \in 0 .. n - 1, k \in P PROVE k + 1 \in P
  <2>1. k + 1 \in 1 .. n /\ k + 1 - 1 = k /\ k + 1 \in 0 .. n
    OBVIOUS
  <2> DEFINE m == k + 1
  <2>2. m \in 1 .. n /\ m - 1 = k
    BY <2>1
  <2> HIDE DEF m
  <2>3. g[m] = step[s[m]][g[m - 1]] /\ h[m] = step[s[m]][h[m - 1]]
    BY <2>2 DEF Goes
  <2>4. g[k] = h[k]
    BY <1>2
  <2>5. g[m] = h[m]
    BY <2>2, <2>3, <2>4
  <2> QED BY <2>1, <2>5 DEF m
<1> HIDE DEF P
<1>3. \A k \in 0 .. n : k \in P
  BY <1>1, <1>2, UpTo
<1> QED BY <1>3 DEF P

LEMMA FoldingAppend ==
    ASSUME NEW E, NEW V, NEW base \in V, NEW step,
           Steps(E, V, step), NEW s \in Seq(E), NEW x \in E
    PROVE  /\ Folding(V, base, step, <<>>) = base
           /\ Folding(V, base, step, s) \in V
           /\ Folding(V, base, step, Append(s, x)) = step[x][Folding(V, base, step, s)]
<1> DEFINE t == Append(s, x)
           H(r) == CHOOSE h : Folded(h, V, base, step, r)
<1>1. /\ t \in Seq(E) /\ Len(s) \in Nat /\ Len(t) = Len(s) + 1 /\ t[Len(s) + 1] = x
      /\ \A k \in 1 .. Len(s) : t[k] = s[k]
  BY AppendProperties, LenProperties
<1>2. ASSUME NEW r \in Seq(E)
      PROVE  Folded(H(r), V, base, step, r) /\ Folding(V, base, step, r) = H(r)[Len(r)]
  <2>1. \E h : Folded(h, V, base, step, r)
    BY FoldedExists DEF Steps
  <2> QED BY <2>1 DEF Folding
<1> HIDE DEF t, H
<1>3. Folding(V, base, step, <<>>) = base
  BY <1>2, EmptySeq DEF Folded, Goes
<1>4. Folding(V, base, step, s) \in V
  BY <1>1, <1>2 DEF Folded
<1> DEFINE h == H(s)
           g == H(t)
<1>5. /\ Goes(h, base, step, s, Len(s)) /\ Goes(g, base, step, t, Len(t))
      /\ Folding(V, base, step, s) = h[Len(s)]
      /\ Folding(V, base, step, t) = g[Len(t)]
  BY <1>1, <1>2 DEF Folded
<1> HIDE DEF h, g
<1>6. Goes(g, base, step, s, Len(s))
  <2>1. \A k \in 1 .. Len(s) : k \in 1 .. Len(t) /\ t[k] = s[k]
    BY <1>1
  <2> QED BY <1>5, <2>1 DEF Goes
<1>7. g[Len(s)] = h[Len(s)]
  <2>1. Len(s) \in 0 .. Len(s)
    BY <1>1
  <2> DEFINE n == Len(s)
  <2>2. n \in Nat /\ Goes(h, base, step, s, n) /\ Goes(g, base, step, s, n)
    BY <1>1, <1>5, <1>6
  <2> HIDE DEF n
  <2>3. \A k \in 0 .. n : g[k] = h[k]
    BY <2>2, FoldedOnce
  <2> QED BY <2>1, <2>3 DEF n
<1>8. Len(t) \in 1 .. Len(t) /\ Len(t) - 1 = Len(s) /\ t[Len(t)] = x
  BY <1>1
<1>9. g[Len(t)] = step[x][g[Len(s)]]
  BY <1>5, <1>8 DEF Goes
<1> QED BY <1>3, <1>4, <1>5, <1>7, <1>9 DEF t

\* A set of places of a sequence has a last one.
LEMMA LastPlace ==
    ASSUME NEW n \in Nat, NEW places \in SUBSET (1 .. n), places # {}
    PROVE  Max(places) \in places /\ \A i \in places : i <= Max(places)
<1> DEFINE left == {n - k : k \in places}
<1>0. \A i \in places : i \in 1 .. n /\ i \in Int
  OBVIOUS
<1>1. left \in SUBSET Nat /\ left # {}
  <2>1. \A i \in places : n - i \in Nat
    BY <1>0
  <2> QED BY <2>1
<1> DEFINE m == Min(left)
<1>2. m \in left /\ \A i \in left : m <= i
  <2> HIDE DEF left
  <2> QED BY <1>1, FirstPlace
<1> HIDE DEF m
<1>3. PICK k \in places : m = n - k
  BY <1>2
<1>4. \A i \in places : n - i \in left
  OBVIOUS
<1>5. ASSUME NEW i \in places PROVE k >= i
  <2> HIDE DEF left
  <2>1. n - k <= n - i
    BY <1>2, <1>3, <1>4
  <2>2. i \in Int /\ k \in Int
    BY <1>0
  <2> QED BY <2>1, <2>2
<1>6. Max(places) \in places /\ \A i \in places : Max(places) >= i
  BY <1>3, <1>5 DEF Max
<1> HIDE DEF left
<1>7. Max(places) \in Int /\ \A i \in places : i \in Int
  BY <1>0, <1>6
<1> QED BY <1>6, <1>7

\* FoldLeft goes by sets of places, and takes the last place off each time.
SetFolded(f, V, base, step, s) ==
    /\ f \in [SUBSET (1 .. Len(s)) -> V]
    /\ f = [u \in SUBSET (1 .. Len(s)) |->
               IF u = {} THEN base ELSE step[s[Max(u)]][f[u \ {Max(u)}]]]

LEMMA SetFoldExists ==
    ASSUME NEW E, NEW V, NEW base \in V, NEW step,
           Steps(E, V, step), NEW s \in Seq(E)
    PROVE  \E f : SetFolded(f, V, base, step, s)
<1> DEFINE n == Len(s)
           Solves(h, m) ==
             /\ h \in [SUBSET (1 .. m) -> V]
             /\ h[{}] = base
             /\ \A u \in SUBSET (1 .. m) : u # {} => h[u] = step[s[Max(u)]][h[u \ {Max(u)}]]
           P == {m \in 0 .. n : \E h : Solves(h, m)}
<1>0. n \in Nat /\ \A k \in 1 .. n : s[k] \in E
  BY LenProperties, ElementOfSeq
<1>1. 0 \in P
  <2> DEFINE h == [u \in SUBSET (1 .. 0) |-> base]
  <2>1. 1 .. 0 = {}
    OBVIOUS
  <2>2. Solves(h, 0)
    BY <2>1
  <2>3. 0 \in 0 .. n
    BY <1>0
  <2> HIDE DEF h, Solves
  <2> QED BY <2>2, <2>3
<1>2. ASSUME NEW m \in 0 .. n - 1, m \in P PROVE m + 1 \in P
  <2>1. PICK h : Solves(h, m)
    BY <1>2
  <2>0. m + 1 \in 1 .. n /\ m \in Nat /\ m + 1 \in 0 .. n /\ m + 1 \in Nat
    BY <1>0
  <2> DEFINE l == m + 1
             g == [u \in SUBSET (1 .. l) |->
                      IF u \in SUBSET (1 .. m) THEN h[u] ELSE step[s[l]][h[u \ {l}]]]
  <2>2. \A u \in SUBSET (1 .. l) : u \ {l} \in SUBSET (1 .. m)
    BY <2>0
  <2>3. g \in [SUBSET (1 .. l) -> V]
    <3>1. \A u \in SUBSET (1 .. m) : h[u] \in V
      BY <2>1
    <3>2. \A v \in V : step[s[l]][v] \in V
      BY <1>0, <2>0 DEF Steps
    <3> HIDE DEF l, Solves
    <3> QED BY <2>2, <3>1, <3>2
  <2>4. g[{}] = base
    <3>1. {} \in SUBSET (1 .. m) /\ {} \in SUBSET (1 .. l)
      OBVIOUS
    <3> QED BY <2>1, <3>1
  <2>5. ASSUME NEW u \in SUBSET (1 .. l), u # {}
        PROVE  g[u] = step[s[Max(u)]][g[u \ {Max(u)}]]
    <3>1. Max(u) \in u /\ \A i \in u : i <= Max(u)
      <4> HIDE DEF l
      <4>1. l \in Nat
        BY <2>0 DEF l
      <4> QED BY <2>5, <4>1, LastPlace
    <3>2. CASE u \in SUBSET (1 .. m)
      <4>1. u \ {Max(u)} \in SUBSET (1 .. m) /\ u \ {Max(u)} \in SUBSET (1 .. l)
        BY <3>2
      <4>2. h[u] = step[s[Max(u)]][h[u \ {Max(u)}]]
        BY <2>1, <2>5, <3>2
      <4>3. g[u] = h[u] /\ g[u \ {Max(u)}] = h[u \ {Max(u)}]
        BY <3>2, <4>1
      <4> QED BY <4>2, <4>3
    <3>3. CASE u \notin SUBSET (1 .. m)
      <4>1. l \in u
        BY <2>0, <3>3
      <4>2. Max(u) = l
        <5>1. l <= Max(u) /\ Max(u) \in 1 .. l
          BY <3>1, <4>1
        <5> HIDE DEF l
        <5>2. l \in Nat
          BY <2>0 DEF l
        <5> QED BY <5>1, <5>2
      <4>3. u \ {l} \in SUBSET (1 .. m) /\ u \ {l} \in SUBSET (1 .. l)
        BY <2>2
      <4>4. g[u] = step[s[l]][h[u \ {l}]] /\ g[u \ {l}] = h[u \ {l}]
        BY <3>3, <4>3
      <4> QED BY <4>2, <4>4
    <3> QED BY <3>2, <3>3
  <2>6. Solves(g, l)
    <3> HIDE DEF g, l
    <3> QED BY <2>3, <2>4, <2>5
  <2> HIDE DEF g, Solves
  <2> QED BY <2>0, <2>6
<1>3. n \in P
  <2>1. n \in 0 .. n
    BY <1>0
  <2> HIDE DEF P, n
  <2> QED BY <1>0, <1>1, <1>2, <2>1, UpTo
<1>4. PICK h : Solves(h, n)
  BY <1>3
<1>5. SetFolded(h, V, base, step, s)
  <2>1. {} \in SUBSET (1 .. n)
    OBVIOUS
  <2>2. \A u \in SUBSET (1 .. n) :
           h[u] = IF u = {} THEN base ELSE step[s[Max(u)]][h[u \ {Max(u)}]]
    BY <1>4, <2>1
  <2>3. h \in [SUBSET (1 .. n) -> V]
    BY <1>4
  <2> HIDE DEF Solves
  <2> QED BY <2>2, <2>3 DEF SetFolded
<1> QED BY <1>5

\* The places up to one, and its predecessor.
LEMMA InitialSegment ==
    ASSUME NEW n \in Nat, NEW k \in 1 .. n
    PROVE  /\ 1 .. k \in SUBSET (1 .. n) /\ 1 .. k # {}
           /\ Max(1 .. k) = k /\ (1 .. k) \ {Max(1 .. k)} = 1 .. k - 1
           /\ 1 .. 0 = {}
<1>1. 1 .. k \in SUBSET (1 .. n) /\ 1 .. k # {} /\ k \in 1 .. k
  OBVIOUS
<1>2. Max(1 .. k) \in 1 .. k /\ \A i \in 1 .. k : i <= Max(1 .. k)
  <2> DEFINE u == 1 .. k
  <2>1. u \in SUBSET (1 .. n) /\ u # {}
    BY <1>1
  <2> HIDE DEF u
  <2>2. Max(u) \in u /\ \A i \in u : i <= Max(u)
    BY <2>1, LastPlace
  <2> QED BY <2>2 DEF u
<1>3. Max(1 .. k) = k
  BY <1>1, <1>2
<1>4. (1 .. k) \ {k} = 1 .. k - 1
  OBVIOUS
<1> QED BY <1>1, <1>3, <1>4

\* What goes along the initial segments is the fold.
LEMMA SegmentFold ==
    ASSUME NEW E, NEW V, NEW base \in V, NEW step,
           Steps(E, V, step), NEW s \in Seq(E), NEW it,
           it[{}] = base,
           \A k \in 1 .. Len(s) : it[1 .. k - 1] \in V =>
               it[1 .. k] = step[s[k]][it[1 .. k - 1]]
    PROVE  it[1 .. Len(s)] = Folding(V, base, step, s)
<1> DEFINE n == Len(s)
           g == [k \in 0 .. n |-> it[1 .. k]]
<1>0. n \in Nat /\ \A k \in 1 .. n : s[k] \in E
  BY LenProperties, ElementOfSeq
<1>1. 1 .. 0 = {} /\ 0 \in 0 .. n
  BY <1>0
<1>2. \A k \in 1 .. n : k \in 0 .. n /\ k - 1 \in 0 .. n
  BY <1>0
<1>3. g[0] = base
  BY <1>1
<1>4. \A k \in 1 .. n : g[k - 1] \in V => g[k] = step[s[k]][g[k - 1]]
  BY <1>2
<1> HIDE DEF g
<1>5. \A k \in 0 .. n : g[k] \in V
  <2> DEFINE P == {k \in 0 .. n : g[k] \in V}
  <2>1. 0 \in P
    BY <1>1, <1>3
  <2>2. ASSUME NEW k \in 0 .. n - 1, k \in P PROVE k + 1 \in P
    <3>1. k + 1 \in 1 .. n /\ k + 1 - 1 = k /\ k + 1 \in 0 .. n
      BY <1>0
    <3> DEFINE m == k + 1
    <3>2. m \in 1 .. n /\ m - 1 = k /\ s[m] \in E
      BY <1>0, <3>1
    <3>3. g[k] \in V
      BY <2>2
    <3> HIDE DEF m, n
    <3>4. g[m] = step[s[m]][g[k]]
      BY <1>4, <3>2, <3>3
    <3>5. g[m] \in V
      BY <3>2, <3>3, <3>4 DEF Steps
    <3> QED BY <3>1, <3>5 DEF m
  <2> HIDE DEF P
  <2>3. \A k \in 0 .. n : k \in P
    BY <1>0, <2>1, <2>2, UpTo
  <2> QED BY <2>3 DEF P
<1>6. Goes(g, base, step, s, n)
  BY <1>2, <1>3, <1>4, <1>5 DEF Goes
<1> DEFINE h == CHOOSE r : Folded(r, V, base, step, s)
<1>7. Folded(h, V, base, step, s)
  <2>1. \E r : Folded(r, V, base, step, s)
    BY FoldedExists DEF Steps
  <2> QED BY <2>1
<1> HIDE DEF h
<1>8. n \in 0 .. n /\ \A k \in 0 .. n : g[k] = h[k]
  <2>1. Goes(h, base, step, s, n)
    BY <1>7 DEF Folded
  <2> HIDE DEF n
  <2>2. \A k \in 0 .. n : h[k] = g[k]
    BY <1>0, <1>6, <2>1, FoldedOnce
  <2> QED BY <1>0, <2>2
<1>9. it[1 .. n] = h[n]
  BY <1>8 DEF g
<1> QED BY <1>9 DEF h, Folding

----------------------------------------------------------------------------
(* More of FlattenSeq. *)

LEMMA FlattenOne == ASSUME NEW E, NEW text \in Seq(E) PROVE FlattenSeq(<<text>>) = text
<1>1. <<>> \in Seq(Seq(E)) /\ Append(<<>>, text) = <<text>>
  BY EmptySeq
<1>2. FlattenSeq(Append(<<>>, text)) = FlattenSeq(<<>>) \o text /\ FlattenSeq(<<>>) = <<>>
  BY <1>1, FlattenAppend
<1> QED BY <1>1, <1>2, ConcatEmptySeq

\* Without the empty texts it is the same.
LEMMA FlattenSome ==
    ASSUME NEW E, NEW texts \in Seq(Seq(E)), NEW A, ToSet(texts) \ {<<>>} \subseteq A
    PROVE  FlattenSeq(Only(texts, A)) = FlattenSeq(texts)
<1> DEFINE V == Seq(E)
           P == {r \in Seq(V) :
                    ToSet(r) \ {<<>>} \subseteq A => FlattenSeq(Only(r, A)) = FlattenSeq(r)}
<1> HIDE DEF P
<1>1. <<>> \in P
  BY OnlyEmpty, EmptySeq DEF P
<1>2. ASSUME NEW r \in Seq(V), NEW x \in V, r \in P PROVE Append(r, x) \in P
  <2>0. Append(r, x) \in Seq(V) /\ r \in Seq(Seq(E)) /\ x \in Seq(E)
    BY AppendProperties
  <2> SUFFICES ASSUME ToSet(Append(r, x)) \ {<<>>} \subseteq A
               PROVE  FlattenSeq(Only(Append(r, x), A)) = FlattenSeq(Append(r, x))
    BY <2>0 DEF P
  <2>1. /\ x \in A => Only(Append(r, x), A) = Append(Only(r, A), x)
        /\ x \notin A => Only(Append(r, x), A) = Only(r, A)
    <3> HIDE DEF V
    <3> QED BY OnlyAppend
  <2>2. ToSet(Append(r, x)) = ToSet(r) \cup {x}
    <3> HIDE DEF V
    <3> QED BY ElementsAppend
  <2>3. FlattenSeq(Only(r, A)) = FlattenSeq(r)
    BY <1>2, <2>2 DEF P
  <2>4. FlattenSeq(Append(r, x)) = FlattenSeq(r) \o x /\ FlattenSeq(r) \in Seq(E)
    BY <2>0, FlattenAppend
  <2>5. FlattenSeq(Append(Only(r, A), x)) = FlattenSeq(Only(r, A)) \o x
    <3> DEFINE o == Only(r, A)
    <3>1. o \in Seq(Seq(E))
      BY <2>0, OnlyType
    <3> HIDE DEF o, V
    <3>2. FlattenSeq(Append(o, x)) = FlattenSeq(o) \o x
      BY <2>0, <3>1, FlattenAppend
    <3> QED BY <3>2 DEF o
  <2>6. CASE x \in A
    BY <2>1, <2>3, <2>4, <2>5, <2>6
  <2>7. CASE x \notin A
    <3>1. x = <<>>
      BY <2>2, <2>7
    <3>2. FlattenSeq(r) \o <<>> = FlattenSeq(r)
      BY <2>4, ConcatEmptySeq
    <3> QED BY <2>1, <2>3, <2>4, <2>7, <3>1, <3>2
  <2> QED BY <2>6, <2>7
<1>3. texts \in P
  <2> HIDE DEF V
  <2>1. texts \in Seq(V)
    BY DEF V
  <2> QED BY <1>1, <1>2, <2>1, SequenceInduction
<1> QED BY <1>3 DEF P

\* The elements of two sequences.
LEMMA ElementsConcat ==
    ASSUME NEW E, NEW s \in Seq(E), NEW t \in Seq(E)
    PROVE  ToSet(s \o t) = ToSet(s) \cup ToSet(t)
<1> DEFINE P == {r \in Seq(E) : ToSet(s \o r) = ToSet(s) \cup ToSet(r)}
<1> HIDE DEF P
<1>1. <<>> \in P
  <2>1. ToSet(<<>>) = {}
    BY EmptySeq DEF ToSet
  <2> QED BY <2>1, ConcatEmptySeq, EmptySeq DEF P
<1>2. ASSUME NEW r \in Seq(E), NEW x \in E, r \in P PROVE Append(r, x) \in P
  <2>1. Append(r, x) \in Seq(E) /\ s \o Append(r, x) = Append(s \o r, x)
    BY AppendProperties, ConcatAppend
  <2> DEFINE q == s \o r
  <2>2. q \in Seq(E)
    BY ConcatProperties
  <2> HIDE DEF q
  <2>3. ToSet(Append(q, x)) = ToSet(q) \cup {x} /\ ToSet(Append(r, x)) = ToSet(r) \cup {x}
    BY <2>2, ElementsAppend
  <2>4. ToSet(q) = ToSet(s) \cup ToSet(r)
    BY <1>2 DEF P, q
  <2> QED BY <2>1, <2>3, <2>4 DEF P, q
<1>3. t \in P
  BY <1>1, <1>2, SequenceInduction
<1> QED BY <1>3 DEF P

\* The first element stays the first when it is chosen.
LEMMA OnlyFirst ==
    ASSUME NEW E, NEW s \in Seq(E), s # <<>>, NEW A, s[1] \in A
    PROVE  Only(s, A) # <<>> /\ Only(s, A)[1] = s[1]
<1> DEFINE P == {r \in Seq(E) : r # <<>> /\ r[1] \in A =>
                                    Only(r, A) # <<>> /\ Only(r, A)[1] = r[1]}
<1> HIDE DEF P
<1>1. <<>> \in P
  BY EmptySeq DEF P
<1>2. ASSUME NEW r \in Seq(E), NEW x \in E, r \in P PROVE Append(r, x) \in P
  <2> DEFINE o == Only(r, A)
             t == Append(r, x)
             q == Only(t, A)
  <2>1. t \in Seq(E) /\ o \in Seq(E)
    BY AppendProperties, OnlyType
  <2>2. /\ x \in A => q = Append(o, x)
        /\ x \notin A => q = o
    BY OnlyAppend
  <2>3. /\ r # <<>> => t[1] = r[1]
        /\ r = <<>> => t[1] = x
    <3>1. r # <<>> => 1 \in 1 .. Len(r)
      <4>1. r # <<>> => Len(r) # 0
        BY EmptySeq
      <4> QED BY <4>1, LenProperties
    <3> QED BY <3>1, AppendProperties
  <2>4. /\ o # <<>> => Append(o, x)[1] = o[1]
        /\ o = <<>> => Append(o, x)[1] = x
        /\ Append(o, x) # <<>>
    <3> HIDE DEF o
    <3>1. o # <<>> => 1 \in 1 .. Len(o)
      <4>1. o # <<>> => Len(o) # 0
        BY <2>1, EmptySeq
      <4> QED BY <2>1, <4>1, LenProperties
    <3> QED BY <2>1, <3>1, AppendProperties
  <2>5. r = <<>> => o = <<>>
    BY OnlyEmpty
  <2>6. r # <<>> /\ r[1] \in A => o # <<>> /\ o[1] = r[1]
    BY <1>2 DEF P
  <2> HIDE DEF o, t, q
  <2>7. t[1] \in A => q # <<>> /\ q[1] = t[1]
    <3>1. CASE r = <<>>
      BY <2>2, <2>3, <2>4, <2>5, <3>1
    <3>2. CASE r # <<>>
      BY <2>2, <2>3, <2>4, <2>6, <3>2
    <3> QED BY <3>1, <3>2
  <2> QED BY <2>1, <2>7 DEF P, t, q
<1>3. s \in P
  BY <1>1, <1>2, SequenceInduction
<1> QED BY <1>3 DEF P
=============================================================================
