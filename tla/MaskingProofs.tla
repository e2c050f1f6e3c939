--------------------------- MODULE MaskingProofs ---------------------------
(***************************************************************************)
(* Proofs about mask_text, for texts of any length: what re.sub does to a  *)
(* text is a walk over its places; no pattern crosses a comma; each piece  *)
(* between commas is masked for what it is, and masking again changes      *)
(* nothing.                                                                *)
(***************************************************************************)
EXTENDS Texts, SequenceLemmas, FiniteSetTheorems

----------------------------------------------------------------------------
(* A walk over the places of a text: at each place something is put, and  *)
(* the walk goes on at a later place.                                      *)

\* h[i] is what is put from place i on.
Walk(h, n, put, next) ==
    h[n + 1] = <<>> /\ \A i \in 1 .. n : h[i] = put[i] \o h[next[i]]

\* What is put is text, and every step goes on.
Steady(n, put, next) ==
    /\ n \in Nat
    /\ put \in [1 .. n -> Seq(Int)]
    /\ next \in [1 .. n -> 2 .. n + 1]
    /\ \A i \in 1 .. n : i < next[i]

\* From its end such a walk can be filled in.
LEMMA WalkExists ==
    ASSUME NEW n, NEW put, NEW next, Steady(n, put, next)
    PROVE  \E h \in [1 .. n + 1 -> Seq(Int)] : Walk(h, n, put, next)
<1> DEFINE V == Seq(Int)
           From(h, m) == /\ h \in [m .. n + 1 -> V]
                         /\ h[n + 1] = <<>>
                         /\ \A i \in m .. n : h[i] = put[i] \o h[next[i]]
           P == {k \in 0 .. n : \E h : From(h, n + 1 - k)}
<1>0. n \in Nat /\ \A i \in 1 .. n : put[i] \in V /\ next[i] \in 2 .. n + 1 /\ i < next[i]
  BY DEF Steady
<1>1. 0 \in P
  <2> DEFINE h == [i \in {n + 1} |-> <<>>]
  <2>1. n + 1 - 0 = n + 1 /\ n + 1 .. n + 1 = {n + 1} /\ n + 1 .. n = {}
    BY <1>0
  <2>2. <<>> \in V
    BY EmptySeq
  <2>3. From(h, n + 1)
    BY <2>1, <2>2
  <2>4. 0 \in 0 .. n
    BY <1>0
  <2> HIDE DEF h, From
  <2> QED BY <2>1, <2>3, <2>4
<1>2. ASSUME NEW k \in 0 .. n - 1, k \in P PROVE k + 1 \in P
  <2> DEFINE m == n - k
  <2>1. m \in 1 .. n /\ n + 1 - k = m + 1 /\ n + 1 - (k + 1) = m /\ k + 1 \in 0 .. n
    BY <1>0
  <2> HIDE DEF m
  <2>2. PICK h : From(h, m + 1)
    <3> HIDE DEF From
    <3> QED BY <1>2, <2>1
  <2> DEFINE g == [i \in m .. n + 1 |-> IF i = m THEN put[m] \o h[next[m]] ELSE h[i]]
  <2>3. /\ \A i \in m .. n + 1 : i = m \/ i \in m + 1 .. n + 1
        /\ \A i \in m .. n : i = m \/ i \in m + 1 .. n
        /\ \A i \in m .. n : next[i] \in m + 1 .. n + 1 /\ next[i] \in m .. n + 1 /\ next[i] # m
        /\ m \in m .. n + 1 /\ n + 1 \in m .. n + 1 /\ n + 1 # m
    BY <1>0, <2>1
  <2>4. put[m] \o h[next[m]] \in V
    <3>1. h[next[m]] \in V /\ put[m] \in V
      BY <1>0, <2>1, <2>2, <2>3
    <3> QED BY <3>1, ConcatProperties
  <2>5. g \in [m .. n + 1 -> V]
    BY <2>2, <2>3, <2>4
  <2>6. ASSUME NEW i \in m .. n PROVE g[i] = put[i] \o g[next[i]]
    <3>1. g[next[i]] = h[next[i]]
      BY <2>3
    <3>2. CASE i = m
      BY <2>3, <3>1, <3>2
    <3>3. CASE i # m
      <4>1. i \in m + 1 .. n /\ i \in m .. n + 1
        BY <1>0, <2>1, <3>3
      <4>2. h[i] = put[i] \o h[next[i]]
        BY <2>2, <4>1
      <4>3. g[i] = h[i]
        BY <3>3, <4>1
      <4> QED BY <3>1, <4>2, <4>3
    <3> QED BY <3>2, <3>3
  <2>7. g[n + 1] = <<>>
    BY <2>2, <2>3
  <2>8. From(g, m)
    <3> HIDE DEF g
    <3> QED BY <2>5, <2>6, <2>7
  <2> HIDE DEF From, g
  <2> QED BY <2>1, <2>8
<1>3. \A k \in 0 .. n : k \in P
  <2> HIDE DEF P
  <2> QED BY <1>0, <1>1, <1>2, UpTo
<1>4. n \in 0 .. n /\ n + 1 - n = 1
  BY <1>0
<1>5. PICK h : From(h, 1)
  <2> HIDE DEF From
  <2> QED BY <1>3, <1>4
<1> QED BY <1>5 DEF Walk

\* And there is one way to.
LEMMA WalkOnce ==
    ASSUME NEW n, NEW put, NEW next, NEW h, NEW g,
           Steady(n, put, next), Walk(h, n, put, next), Walk(g, n, put, next)
    PROVE  h[1] = g[1]
<1> DEFINE P == {k \in 0 .. n : \A i \in n + 1 - k .. n + 1 : h[i] = g[i]}
<1>0. n \in Nat /\ \A i \in 1 .. n : next[i] \in 2 .. n + 1 /\ i < next[i]
  BY DEF Steady
<1>1. 0 \in P
  <2>1. h[n + 1] = g[n + 1]
    BY DEF Walk
  <2>2. 0 \in 0 .. n /\ \A i \in n + 1 - 0 .. n + 1 : i = n + 1
    BY <1>0
  <2> QED BY <2>1, <2>2
<1>2. ASSUME NEW k \in 0 .. n - 1, k \in P PROVE k + 1 \in P
  <2> DEFINE m == n - k
  <2>1. m \in 1 .. n /\ n + 1 - k = m + 1 /\ n + 1 - (k + 1) = m /\ k + 1 \in 0 .. n
    BY <1>0
  <2> HIDE DEF m
  <2>2. \A i \in m + 1 .. n + 1 : h[i] = g[i]
    BY <1>2, <2>1
  <2>3. next[m] \in m + 1 .. n + 1
    BY <1>0, <2>1
  <2>4. h[m] = put[m] \o h[next[m]] /\ g[m] = put[m] \o g[next[m]]
    BY <2>1 DEF Walk
  <2>5. h[m] = g[m]
    BY <2>2, <2>3, <2>4
  <2>6. \A i \in m .. n + 1 : i = m \/ i \in m + 1 .. n + 1
    BY <1>0, <2>1
  <2> QED BY <2>1, <2>2, <2>5, <2>6
<1>3. \A k \in 0 .. n : k \in P
  <2> HIDE DEF P
  <2> QED BY <1>0, <1>1, <1>2, UpTo
<1>4. n \in 0 .. n /\ n + 1 - n = 1 /\ 1 \in 1 .. n + 1
  BY <1>0
<1> QED BY <1>3, <1>4

----------------------------------------------------------------------------
(* re.sub is such a walk. *)

\* ends[i] is where a match at place i ends, masks[i] what it becomes.
PutAt(s, ends, masks) == [i \in 1 .. Len(s) |-> IF ends[i] = 0 THEN <<s[i]>> ELSE masks[i]]
NextAt(s, ends) == [i \in 1 .. Len(s) |-> IF ends[i] = 0 THEN i + 1 ELSE ends[i] + 1]

Matched(s, ends, masks) ==
    /\ s \in Seq(Int)
    /\ ends \in [1 .. Len(s) -> 0 .. Len(s)]
    /\ \A i \in 1 .. Len(s) : ends[i] = 0 \/ i <= ends[i]
    /\ masks \in [1 .. Len(s) -> Seq(Int)]

Replaces(h, s, ends, masks) ==
    /\ h \in [1 .. Len(s) + 1 -> Seq(Int)]
    /\ Walk(h, Len(s), PutAt(s, ends, masks), NextAt(s, ends))

\* What is made of a text.
Became(out, s, ends, masks) ==
    Matched(s, ends, masks) /\ \E h : Replaces(h, s, ends, masks) /\ out = h[1]

LEMMA OneCharacter == ASSUME NEW c \in Int PROVE <<c>> \in Seq(Int) /\ Len(<<c>>) = 1
<1>1. <<>> \in Seq(Int) /\ Len(<<>>) = 0 /\ Append(<<>>, c) = <<c>>
  BY EmptySeq
<1>2. Append(<<>>, c) \in Seq(Int) /\ Len(Append(<<>>, c)) = Len(<<>>) + 1
  BY <1>1, AppendProperties
<1> QED BY <1>1, <1>2

LEMMA MatchedSteady ==
    ASSUME NEW s, NEW ends, NEW masks, Matched(s, ends, masks)
    PROVE  Steady(Len(s), PutAt(s, ends, masks), NextAt(s, ends))
<1> DEFINE n == Len(s)
<1>1. n \in Nat /\ \A i \in 1 .. n : s[i] \in Int /\ <<s[i]>> \in Seq(Int)
  <2>1. \A i \in 1 .. n : s[i] \in Int
    BY ElementOfSeq DEF Matched
  <2> QED BY <2>1, LenProperties, OneCharacter DEF Matched
<1>2. \A i \in 1 .. n : masks[i] \in Seq(Int) /\ ends[i] \in 0 .. n /\ (ends[i] = 0 \/ i <= ends[i])
  BY DEF Matched
<1> HIDE DEF n
<1>3. \A i \in 1 .. n : IF ends[i] = 0 THEN <<s[i]>> \in Seq(Int) ELSE masks[i] \in Seq(Int)
  BY <1>1, <1>2
<1>4. PutAt(s, ends, masks) \in [1 .. n -> Seq(Int)]
  BY <1>3 DEF PutAt, n
<1>5. \A i \in 1 .. n : (IF ends[i] = 0 THEN i + 1 ELSE ends[i] + 1) \in i + 1 .. n + 1
  BY <1>1, <1>2
<1>6. \A i \in 1 .. n : \A k \in i + 1 .. n + 1 : k \in 2 .. n + 1 /\ i < k
  BY <1>1
<1> DEFINE next == NextAt(s, ends)
<1>7. next = [i \in 1 .. n |-> IF ends[i] = 0 THEN i + 1 ELSE ends[i] + 1]
  BY DEF NextAt, n
<1> HIDE DEF next
<1>8. next \in [1 .. n -> 2 .. n + 1] /\ \A i \in 1 .. n : i < next[i]
  BY <1>5, <1>6, <1>7
<1> QED BY <1>1, <1>4, <1>8 DEF Steady, next, n

\* The first place of a set of ends, and the last one.
LEMMA BestFirst ==
    ASSUME NEW S \in SUBSET Nat, S # {}
    PROVE  Best(S, <) \in S /\ \A k \in S : Best(S, <) <= k
<1> DEFINE m == Min(S)
<1>1. m \in S /\ \A k \in S : m <= k
  BY FirstPlace
<1> HIDE DEF m
<1>2. \A k \in S : k \in Nat /\ ~ (k < m)
  BY <1>1
<1>3. \E j \in S : \A k \in S : ~ (k < j)
  BY <1>1, <1>2
<1> DEFINE b == CHOOSE j \in S : \A k \in S : ~ (k < j)
<1>4. b \in S /\ \A k \in S : ~ (k < b)
  BY <1>3
<1>5. Best(S, <) = b
  BY DEF Best
<1> HIDE DEF b
<1>6. \A k \in S : b <= k
  BY <1>2, <1>4
<1> QED BY <1>4, <1>5, <1>6

LEMMA BestLast ==
    ASSUME NEW n \in Nat, NEW S \in SUBSET (1 .. n), S # {}
    PROVE  Best(S, >) \in S /\ \A k \in S : k <= Best(S, >)
<1> DEFINE m == Max(S)
<1>1. m \in S /\ \A k \in S : k <= m
  BY LastPlace
<1> HIDE DEF m
<1>2. \A k \in S : k \in Nat /\ ~ (k > m)
  BY <1>1
<1>3. \E j \in S : \A k \in S : ~ (k > j)
  BY <1>1, <1>2
<1> DEFINE b == CHOOSE j \in S : \A k \in S : ~ (k > j)
<1>4. b \in S /\ \A k \in S : ~ (k > b)
  BY <1>3
<1>5. Best(S, >) = b
  BY DEF Best
<1> HIDE DEF b
<1>6. \A k \in S : k <= b
  BY <1>2, <1>4
<1> QED BY <1>4, <1>5, <1>6

\* The characters of a text, and what is around it.
LEMMA Around ==
    ASSUME NEW s \in Seq(Int), NEW i \in Int
    PROVE  /\ i \in 1 .. Len(s) => CharAt(s, i) = s[i] /\ s[i] \in Int
           /\ i \notin 1 .. Len(s) => CharAt(s, i) = Comma
<1>1. DOMAIN s = 1 .. Len(s) /\ (i \in 1 .. Len(s) => s[i] \in Int)
  BY LenProperties, ElementOfSeq
<1> QED BY <1>1 DEF CharAt

LEMMA CommaInNone ==
    Comma \notin Digit /\ Comma \notin WordChar /\ Comma \notin LocalChar /\ Comma \in Int
    /\ Comma # Plus /\ Comma # AtDomain /\ Comma \notin Digit \cup {Space, Dash}
BY DEF Comma, Digit, WordChar, LocalChar, Plus, AtDomain, Space, Dash, Letter

\* Where the matches of the three patterns may end.
EmailEnds(s, i) == {j \in i + 1 .. Len(s) : s[j] = AtDomain /\ Span(s, i, j - 1) \subseteq LocalChar}
CardEnds(s, i) ==
    {j \in i .. Len(s) : /\ s[j] \in Digit /\ CharAt(s, j + 1) \notin Digit
                         /\ Span(s, i, j) \subseteq Digit \cup {Space, Dash}
                         /\ Len(Digits(SubSeq(s, i, j))) \in 13 .. 19}
PhoneEnds(s, i) ==
    {j \in i + 9 .. i + 19 : /\ CharAt(s, j) \in Digit /\ CharAt(s, j + 1) \notin WordChar
                             /\ Span(s, i, j) \subseteq Digit \cup {Space, Dash}}
First(s, i) == IF CharAt(s, i) = Plus THEN i + 1 ELSE i

EmailStarts(s, i) == /\ CharAt(s, i) \in LocalChar
                     /\ (s[i] \in WordChar) # (CharAt(s, i - 1) \in WordChar)
CardStarts(s, i) == CharAt(s, i) \in Digit /\ CharAt(s, i - 1) \notin Digit
PhoneStarts(s, i) == CharAt(s, First(s, i)) \in Digit /\ CharAt(s, i - 1) \notin WordChar

LEMMA EmailMatch ==
    ASSUME NEW s \in Seq(Int), NEW i \in 1 .. Len(s)
    PROVE  LET end == EmailEnd(s, i) IN
           /\ ~ EmailStarts(s, i) \/ EmailEnds(s, i) = {} => end = 0
           /\ EmailStarts(s, i) /\ EmailEnds(s, i) # {} =>
                 end \in EmailEnds(s, i) /\ \A k \in EmailEnds(s, i) : end <= k
           /\ end \in 0 .. Len(s) /\ (end = 0 \/ i <= end)
<1> DEFINE S == EmailEnds(s, i)
<1>0. Len(s) \in Nat
  BY LenProperties
<1>1. S \in SUBSET Nat /\ \A j \in S : j \in 0 .. Len(s) /\ i <= j
  BY <1>0 DEF EmailEnds
<1>2. EmailEnd(s, i) = IF EmailStarts(s, i) THEN Best(S, <) ELSE 0
  BY DEF EmailEnd, EmailStarts, EmailEnds
<1> HIDE DEF S
<1>3. CASE ~ EmailStarts(s, i) \/ S = {}
  <2>1. EmailEnd(s, i) = 0
    BY <1>2, <1>3 DEF Best
  <2> QED BY <1>0, <1>3, <2>1 DEF S
<1>4. CASE EmailStarts(s, i) /\ S # {}
  <2>1. Best(S, <) \in S /\ \A k \in S : Best(S, <) <= k
    BY <1>1, <1>4, BestFirst
  <2>2. EmailEnd(s, i) = Best(S, <)
    BY <1>2, <1>4
  <2> QED BY <1>1, <1>4, <2>1, <2>2 DEF S
<1> QED BY <1>3, <1>4

LEMMA CardMatch ==
    ASSUME NEW s \in Seq(Int), NEW i \in 1 .. Len(s)
    PROVE  LET end == CardEnd(s, i) IN
           /\ ~ CardStarts(s, i) \/ CardEnds(s, i) = {} => end = 0
           /\ CardStarts(s, i) /\ CardEnds(s, i) # {} =>
                 end \in CardEnds(s, i) /\ \A k \in CardEnds(s, i) : end <= k
           /\ end \in 0 .. Len(s) /\ (end = 0 \/ i <= end)
<1> DEFINE S == CardEnds(s, i)
<1>0. Len(s) \in Nat
  BY LenProperties
<1>1. S \in SUBSET Nat /\ \A j \in S : j \in 0 .. Len(s) /\ i <= j
  BY <1>0 DEF CardEnds
<1>2. CardEnd(s, i) = IF CardStarts(s, i) THEN Best(S, <) ELSE 0
  BY DEF CardEnd, CardStarts, CardEnds
<1> HIDE DEF S
<1>3. CASE ~ CardStarts(s, i) \/ S = {}
  <2>1. CardEnd(s, i) = 0
    BY <1>2, <1>3 DEF Best
  <2> QED BY <1>0, <1>3, <2>1 DEF S
<1>4. CASE CardStarts(s, i) /\ S # {}
  <2>1. Best(S, <) \in S /\ \A k \in S : Best(S, <) <= k
    BY <1>1, <1>4, BestFirst
  <2>2. CardEnd(s, i) = Best(S, <)
    BY <1>2, <1>4
  <2> QED BY <1>1, <1>4, <2>1, <2>2 DEF S
<1> QED BY <1>3, <1>4

LEMMA PhoneMatch ==
    ASSUME NEW s \in Seq(Int), NEW i \in 1 .. Len(s)
    PROVE  LET end == PhoneEnd(s, i)
               ends == PhoneEnds(s, First(s, i)) IN
           /\ ~ PhoneStarts(s, i) \/ ends = {} => end = 0
           /\ PhoneStarts(s, i) /\ ends # {} => end \in ends /\ \A k \in ends : k <= end
           /\ end \in 0 .. Len(s) /\ (end = 0 \/ i <= end)
<1> DEFINE S == PhoneEnds(s, First(s, i))
<1>0. Len(s) \in Nat
  BY LenProperties
<1>1. S \in SUBSET (1 .. Len(s)) /\ \A j \in S : j \in 0 .. Len(s) /\ i <= j
  <2>1. First(s, i) \in i .. i + 1
    BY DEF First
  <2>2. ASSUME NEW j \in S PROVE j \in 1 .. Len(s) /\ i <= j
    <3>1. j \in First(s, i) + 9 .. First(s, i) + 19 /\ CharAt(s, j) \in Digit
      BY DEF PhoneEnds
    <3>2. j \in Int /\ i <= j
      BY <2>1, <3>1
    <3> QED BY <3>1, <3>2, Around, CommaInNone
  <2> QED BY <1>0, <2>2
<1>2. PhoneEnd(s, i) = IF PhoneStarts(s, i) THEN Best(S, >) ELSE 0
  BY DEF PhoneEnd, PhoneStarts, PhoneEnds, First
<1> HIDE DEF S
<1>3. CASE ~ PhoneStarts(s, i) \/ S = {}
  <2>1. PhoneEnd(s, i) = 0
    BY <1>2, <1>3 DEF Best
  <2> QED BY <1>0, <1>3, <2>1 DEF S
<1>4. CASE PhoneStarts(s, i) /\ S # {}
  <2>1. Best(S, >) \in S /\ \A k \in S : k <= Best(S, >)
    BY <1>0, <1>1, <1>4, BestLast
  <2>2. PhoneEnd(s, i) = Best(S, >)
    BY <1>2, <1>4
  <2> QED BY <1>1, <1>4, <2>1, <2>2 DEF S
<1> QED BY <1>3, <1>4

LEMMA PartType ==
    ASSUME NEW s \in Seq(Int), NEW i \in 1 .. Len(s), NEW j \in 0 .. Len(s)
    PROVE  SubSeq(s, i, j) \in Seq(Int)
<1>1. Len(s) \in Nat /\ \A k \in 1 .. Len(s) : s[k] \in Int
  BY LenProperties, ElementOfSeq
<1>2. i \in Int /\ j \in Int /\ \A k \in i .. j : s[k] \in Int
  <2>1. \A k \in i .. j : k \in 1 .. Len(s)
    BY <1>1
  <2> QED BY <1>1, <2>1
<1> QED BY <1>2, SubSeqProperties

LEMMA MaskTypes ==
    ASSUME NEW raw \in Seq(Int)
    PROVE  MaskEmail(raw) \in Seq(Int) /\ MaskCard(raw) \in Seq(Int) /\ MaskPhone(raw) \in Seq(Int)
<1> DEFINE digits == Digits(raw)
           tail == SubSeq(digits, Len(digits) - 1, Len(digits))
<1>1. \A c \in {MaskedEmail, MaskedCard, MaskedPhone} : c \in Int /\ <<c>> \in Seq(Int)
  <2>1. \A c \in {MaskedEmail, MaskedCard, MaskedPhone} : c \in Int
    BY DEF MaskedEmail, MaskedCard, MaskedPhone
  <2> QED BY <2>1, OneCharacter
<1>2. digits \in Seq(Int) /\ Len(digits) \in Nat
  <2>1. digits \in Seq(Int)
    BY OnlyType DEF Digits
  <2> QED BY <2>1, LenProperties
<1>3. Len(digits) \in 10 .. 15 => tail \in Seq(Int)
  <2> DEFINE l == Len(digits)
  <2>1. l \in Nat
    BY <1>2
  <2> HIDE DEF digits, l
  <2>2. l \in 10 .. 15 => l - 1 \in 1 .. l /\ l \in 0 .. l
    BY <2>1
  <2> QED BY <1>2, <2>2, PartType DEF l
<1> HIDE DEF tail
<1>4. Len(digits) \in 10 .. 15 => <<MaskedPhone>> \o tail \in Seq(Int)
  BY <1>1, <1>3, ConcatProperties
<1>5. MaskPhone(raw) = IF Len(digits) \in 10 .. 15 THEN <<MaskedPhone>> \o tail ELSE raw
  BY DEF MaskPhone, tail
<1> QED BY <1>1, <1>4, <1>5 DEF MaskEmail, MaskCard

EmailAt(s) == [i \in 1 .. Len(s) |-> EmailEnd(s, i)]
EmailMasks(s) == [i \in 1 .. Len(s) |-> MaskEmail(SubSeq(s, i, EmailEnd(s, i)))]

LEMMA EmailWalk ==
    ASSUME NEW s \in Seq(Int)
    PROVE  Became(Substitute(s, EmailEnd, MaskEmail), s, EmailAt(s), EmailMasks(s))
<1> DEFINE n == Len(s)
           put == PutAt(s, EmailAt(s), EmailMasks(s))
           next == NextAt(s, EmailAt(s))
           Sol(h) == h = [i \in 1 .. Len(s) + 1 |->
                             IF i > Len(s) THEN <<>>
                             ELSE LET j == EmailEnd(s, i)
                                  IN IF j = 0 THEN <<s[i]>> \o h[i + 1]
                                     ELSE MaskEmail(SubSeq(s, i, j)) \o h[j + 1]]
           from == CHOOSE h : Sol(h)
<1>0. n \in Nat
  BY LenProperties
<1>1. \A i \in 1 .. n : EmailEnd(s, i) \in 0 .. n /\ (EmailEnd(s, i) = 0 \/ i <= EmailEnd(s, i))
  BY EmailMatch
<1>2. \A i \in 1 .. n : MaskEmail(SubSeq(s, i, EmailEnd(s, i))) \in Seq(Int)
  BY <1>1, PartType, MaskTypes
<1>3. Matched(s, EmailAt(s), EmailMasks(s))
  BY <1>1, <1>2 DEF Matched, EmailAt, EmailMasks
<1>4. Steady(n, put, next)
  BY <1>3, MatchedSteady
<1>5. PICK f : f \in [1 .. n + 1 -> Seq(Int)] /\ Walk(f, n, put, next)
  <2> HIDE DEF n, put, next
  <2> QED BY <1>4, WalkExists
<1>6. \A i \in 1 .. n :
        /\ put[i] = IF EmailEnd(s, i) = 0 THEN <<s[i]>> ELSE MaskEmail(SubSeq(s, i, EmailEnd(s, i)))
        /\ next[i] = IF EmailEnd(s, i) = 0 THEN i + 1 ELSE EmailEnd(s, i) + 1
  BY DEF PutAt, NextAt, EmailAt, EmailMasks
<1> HIDE DEF put, next
<1>7. Sol(f)
  <2>1. ASSUME NEW i \in 1 .. n + 1
        PROVE  f[i] = IF i > n THEN <<>>
                      ELSE LET j == EmailEnd(s, i)
                           IN IF j = 0 THEN <<s[i]>> \o f[i + 1]
                              ELSE MaskEmail(SubSeq(s, i, j)) \o f[j + 1]
    <3>1. CASE i = n + 1
      BY <1>0, <1>5, <3>1 DEF Walk
    <3>2. CASE i # n + 1
      <4>1. i \in 1 .. n /\ ~ (i > n)
        BY <1>0, <3>2
      <4> QED BY <1>5, <1>6, <4>1 DEF Walk
    <3> QED BY <3>1, <3>2
  <2> QED BY <1>5, <2>1
<1>8. Sol(from)
  BY <1>7, Zenon
<1>9. Substitute(s, EmailEnd, MaskEmail) = from[1]
  BY DEF Substitute
<1> HIDE DEF from
<1>10. Walk(from, n, put, next)
  <2>1. n + 1 \in 1 .. n + 1 /\ n + 1 > n /\ \A i \in 1 .. n : i \in 1 .. n + 1 /\ ~ (i > n)
    BY <1>0
  <2>2. from[n + 1] = <<>>
    BY <1>8, <2>1
  <2>3. \A i \in 1 .. n : from[i] = IF EmailEnd(s, i) = 0 THEN <<s[i]>> \o from[i + 1]
                             ELSE MaskEmail(SubSeq(s, i, EmailEnd(s, i))) \o from[EmailEnd(s, i) + 1]
    BY <1>8, <2>1
  <2>4. \A i \in 1 .. n : from[i] = put[i] \o from[next[i]]
    BY <1>6, <2>3
  <2> QED BY <2>2, <2>4 DEF Walk
<1>11. from[1] = f[1]
  <2> HIDE DEF n, Sol
  <2>1. Walk(f, n, put, next)
    BY <1>5
  <2> QED BY <1>4, <1>10, <2>1, WalkOnce
<1>12. Replaces(f, s, EmailAt(s), EmailMasks(s))
  BY <1>5 DEF Replaces, put, next
<1> QED BY <1>3, <1>9, <1>11, <1>12 DEF Became

CardAt(s) == [i \in 1 .. Len(s) |-> CardEnd(s, i)]
CardMasks(s) == [i \in 1 .. Len(s) |-> MaskCard(SubSeq(s, i, CardEnd(s, i)))]

LEMMA CardWalk ==
    ASSUME NEW s \in Seq(Int)
    PROVE  Became(Substitute(s, CardEnd, MaskCard), s, CardAt(s), CardMasks(s))
<1> DEFINE n == Len(s)
           put == PutAt(s, CardAt(s), CardMasks(s))
           next == NextAt(s, CardAt(s))
           Sol(h) == h = [i \in 1 .. Len(s) + 1 |->
                             IF i > Len(s) THEN <<>>
                             ELSE LET j == CardEnd(s, i)
                                  IN IF j = 0 THEN <<s[i]>> \o h[i + 1]
                                     ELSE MaskCard(SubSeq(s, i, j)) \o h[j + 1]]
           from == CHOOSE h : Sol(h)
<1>0. n \in Nat
  BY LenProperties
<1>1. \A i \in 1 .. n : CardEnd(s, i) \in 0 .. n /\ (CardEnd(s, i) = 0 \/ i <= CardEnd(s, i))
  BY CardMatch
<1>2. \A i \in 1 .. n : MaskCard(SubSeq(s, i, CardEnd(s, i))) \in Seq(Int)
  BY <1>1, PartType, MaskTypes
<1>3. Matched(s, CardAt(s), CardMasks(s))
  BY <1>1, <1>2 DEF Matched, CardAt, CardMasks
<1>4. Steady(n, put, next)
  BY <1>3, MatchedSteady
<1>5. PICK f : f \in [1 .. n + 1 -> Seq(Int)] /\ Walk(f, n, put, next)
  <2> HIDE DEF n, put, next
  <2> QED BY <1>4, WalkExists
<1>6. \A i \in 1 .. n :
        /\ put[i] = IF CardEnd(s, i) = 0 THEN <<s[i]>> ELSE MaskCard(SubSeq(s, i, CardEnd(s, i)))
        /\ next[i] = IF CardEnd(s, i) = 0 THEN i + 1 ELSE CardEnd(s, i) + 1
  BY DEF PutAt, NextAt, CardAt, CardMasks
<1> HIDE DEF put, next
<1>7. Sol(f)
  <2>1. ASSUME NEW i \in 1 .. n + 1
        PROVE  f[i] = IF i > n THEN <<>>
                      ELSE LET j == CardEnd(s, i)
                           IN IF j = 0 THEN <<s[i]>> \o f[i + 1]
                              ELSE MaskCard(SubSeq(s, i, j)) \o f[j + 1]
    <3>1. CASE i = n + 1
      BY <1>0, <1>5, <3>1 DEF Walk
    <3>2. CASE i # n + 1
      <4>1. i \in 1 .. n /\ ~ (i > n)
        BY <1>0, <3>2
      <4> QED BY <1>5, <1>6, <4>1 DEF Walk
    <3> QED BY <3>1, <3>2
  <2> QED BY <1>5, <2>1
<1>8. Sol(from)
  BY <1>7
<1>9. Substitute(s, CardEnd, MaskCard) = from[1]
  BY DEF Substitute
<1> HIDE DEF from
<1>10. Walk(from, n, put, next)
  <2>1. n + 1 \in 1 .. n + 1 /\ n + 1 > n /\ \A i \in 1 .. n : i \in 1 .. n + 1 /\ ~ (i > n)
    BY <1>0
  <2>2. from[n + 1] = <<>>
    BY <1>8, <2>1
  <2>3. \A i \in 1 .. n : from[i] = IF CardEnd(s, i) = 0 THEN <<s[i]>> \o from[i + 1]
                             ELSE MaskCard(SubSeq(s, i, CardEnd(s, i))) \o from[CardEnd(s, i) + 1]
    BY <1>8, <2>1
  <2>4. \A i \in 1 .. n : from[i] = put[i] \o from[next[i]]
    BY <1>6, <2>3
  <2> QED BY <2>2, <2>4 DEF Walk
<1>11. from[1] = f[1]
  <2> HIDE DEF n, Sol
  <2>1. Walk(f, n, put, next)
    BY <1>5
  <2> QED BY <1>4, <1>10, <2>1, WalkOnce
<1>12. Replaces(f, s, CardAt(s), CardMasks(s))
  BY <1>5 DEF Replaces, put, next
<1> QED BY <1>3, <1>9, <1>11, <1>12 DEF Became

PhoneAt(s) == [i \in 1 .. Len(s) |-> PhoneEnd(s, i)]
PhoneMasks(s) == [i \in 1 .. Len(s) |-> MaskPhone(SubSeq(s, i, PhoneEnd(s, i)))]

LEMMA PhoneWalk ==
    ASSUME NEW s \in Seq(Int)
    PROVE  Became(Substitute(s, PhoneEnd, MaskPhone), s, PhoneAt(s), PhoneMasks(s))
<1> DEFINE n == Len(s)
           put == PutAt(s, PhoneAt(s), PhoneMasks(s))
           next == NextAt(s, PhoneAt(s))
           Sol(h) == h = [i \in 1 .. Len(s) + 1 |->
                             IF i > Len(s) THEN <<>>
                             ELSE LET j == PhoneEnd(s, i)
                                  IN IF j = 0 THEN <<s[i]>> \o h[i + 1]
                                     ELSE MaskPhone(SubSeq(s, i, j)) \o h[j + 1]]
           from == CHOOSE h : Sol(h)
<1>0. n \in Nat
  BY LenProperties
<1>1. \A i \in 1 .. n : PhoneEnd(s, i) \in 0 .. n /\ (PhoneEnd(s, i) = 0 \/ i <= PhoneEnd(s, i))
  BY PhoneMatch
<1>2. \A i \in 1 .. n : MaskPhone(SubSeq(s, i, PhoneEnd(s, i))) \in Seq(Int)
  BY <1>1, PartType, MaskTypes
<1>3. Matched(s, PhoneAt(s), PhoneMasks(s))
  BY <1>1, <1>2 DEF Matched, PhoneAt, PhoneMasks
<1>4. Steady(n, put, next)
  BY <1>3, MatchedSteady
<1>5. PICK f : f \in [1 .. n + 1 -> Seq(Int)] /\ Walk(f, n, put, next)
  <2> HIDE DEF n, put, next
  <2> QED BY <1>4, WalkExists
<1>6. \A i \in 1 .. n :
        /\ put[i] = IF PhoneEnd(s, i) = 0 THEN <<s[i]>> ELSE MaskPhone(SubSeq(s, i, PhoneEnd(s, i)))
        /\ next[i] = IF PhoneEnd(s, i) = 0 THEN i + 1 ELSE PhoneEnd(s, i) + 1
  BY DEF PutAt, NextAt, PhoneAt, PhoneMasks
<1> HIDE DEF put, next
<1>7. Sol(f)
  <2>1. ASSUME NEW i \in 1 .. n + 1
        PROVE  f[i] = IF i > n THEN <<>>
                      ELSE LET j == PhoneEnd(s, i)
                           IN IF j = 0 THEN <<s[i]>> \o f[i + 1]
                              ELSE MaskPhone(SubSeq(s, i, j)) \o f[j + 1]
    <3>1. CASE i = n + 1
      BY <1>0, <1>5, <3>1 DEF Walk
    <3>2. CASE i # n + 1
      <4>1. i \in 1 .. n /\ ~ (i > n)
        BY <1>0, <3>2
      <4> QED BY <1>5, <1>6, <4>1 DEF Walk
    <3> QED BY <3>1, <3>2
  <2> QED BY <1>5, <2>1
<1>8. Sol(from)
  BY <1>7
<1>9. Substitute(s, PhoneEnd, MaskPhone) = from[1]
  BY DEF Substitute
<1> HIDE DEF from
<1>10. Walk(from, n, put, next)
  <2>1. n + 1 \in 1 .. n + 1 /\ n + 1 > n /\ \A i \in 1 .. n : i \in 1 .. n + 1 /\ ~ (i > n)
    BY <1>0
  <2>2. from[n + 1] = <<>>
    BY <1>8, <2>1
  <2>3. \A i \in 1 .. n : from[i] = IF PhoneEnd(s, i) = 0 THEN <<s[i]>> \o from[i + 1]
                             ELSE MaskPhone(SubSeq(s, i, PhoneEnd(s, i))) \o from[PhoneEnd(s, i) + 1]
    BY <1>8, <2>1
  <2>4. \A i \in 1 .. n : from[i] = put[i] \o from[next[i]]
    BY <1>6, <2>3
  <2> QED BY <2>2, <2>4 DEF Walk
<1>11. from[1] = f[1]
  <2> HIDE DEF n, Sol
  <2>1. Walk(f, n, put, next)
    BY <1>5
  <2> QED BY <1>4, <1>10, <2>1, WalkOnce
<1>12. Replaces(f, s, PhoneAt(s), PhoneMasks(s))
  BY <1>5 DEF Replaces, put, next
<1> QED BY <1>3, <1>9, <1>11, <1>12 DEF Became

----------------------------------------------------------------------------
(* What comes out of a walk. *)

LEMMA ReplacedOnce ==
    ASSUME NEW s, NEW ends, NEW masks, NEW h, NEW g,
           Matched(s, ends, masks), Replaces(h, s, ends, masks),
           Walk(g, Len(s), PutAt(s, ends, masks), NextAt(s, ends))
    PROVE  h[1] = g[1]
<1>1. Steady(Len(s), PutAt(s, ends, masks), NextAt(s, ends))
  BY MatchedSteady
<1>2. Walk(h, Len(s), PutAt(s, ends, masks), NextAt(s, ends))
  BY DEF Replaces
<1> QED BY <1>1, <1>2, WalkOnce

\* When every match is put back the text is as it was.
LEMMA Untouched ==
    ASSUME NEW s, NEW ends, NEW masks, NEW h,
           Matched(s, ends, masks), Replaces(h, s, ends, masks),
           \A i \in 1 .. Len(s) : ends[i] # 0 => masks[i] = SubSeq(s, i, ends[i])
    PROVE  h[1] = s
<1> DEFINE n == Len(s)
           g == [i \in 1 .. n + 1 |-> SubSeq(s, i, n)]
           put == PutAt(s, ends, masks)
           next == NextAt(s, ends)
<1>0. s \in Seq(Int) /\ n \in Nat
  BY LenProperties DEF Matched
<1>1. g[n + 1] = <<>>
  <2>1. n + 1 \in 1 .. n + 1 /\ n + 1 \in Int /\ n \in Int /\ n < n + 1
    BY <1>0
  <2>2. SubSeq(s, n + 1, n) = <<>>
    <3> HIDE DEF n
    <3> QED BY <2>1, SubSeqEmpty
  <2> QED BY <2>1, <2>2
<1>2. ASSUME NEW i \in 1 .. n PROVE g[i] = put[i] \o g[next[i]]
  <2>1. i \in 1 .. n + 1 /\ g[i] = SubSeq(s, i, n)
    BY <1>0
  <2>2. CASE ends[i] = 0
    <3>1. put[i] = <<s[i]>> /\ next[i] = i + 1
      BY <2>2 DEF PutAt, NextAt
    <3>2. i + 1 \in 1 .. n + 1 /\ n \in i .. n
      BY <1>0
    <3>3. SubSeq(s, i, n) = <<s[i]>> \o SubSeq(s, i + 1, n)
      BY <1>0, <3>2, SubSeqRecursiveFirst
    <3> QED BY <2>1, <3>1, <3>2, <3>3
  <2>3. CASE ends[i] # 0
    <3> DEFINE e == ends[i]
    <3>1. e \in i .. n
      BY <2>3 DEF Matched
    <3>2. put[i] = SubSeq(s, i, e) /\ next[i] = e + 1
      BY <2>3 DEF PutAt, NextAt
    <3> HIDE DEF e
    <3>3. i \in 1 .. n + 1 /\ e \in i - 1 .. n /\ n \in e .. n /\ e + 1 \in 1 .. n + 1
      BY <1>0, <3>1
    <3>4. SubSeq(s, i, e) \o SubSeq(s, e + 1, n) = SubSeq(s, i, n)
      BY <1>0, <3>3, ConcatAdjacentSubSeq
    <3>5. g[e + 1] = SubSeq(s, e + 1, n)
      BY <3>3
    <3> QED BY <2>1, <3>2, <3>4, <3>5
  <2> QED BY <2>2, <2>3
<1>3. g[1] = s
  <2>1. 1 \in 1 .. n + 1
    BY <1>0
  <2> QED BY <1>0, <2>1, SubSeqFull
<1> HIDE DEF g
<1>4. Walk(g, n, put, next)
  BY <1>1, <1>2 DEF Walk
<1> QED BY <1>3, <1>4, ReplacedOnce

\* A match up to the end, at the first place or at the second.
ToEnd(out, s, ends, masks) ==
    /\ ends[1] = Len(s) => out = masks[1]
    /\ Len(s) > 1 /\ ends[1] = 0 /\ ends[2] = Len(s) => out = <<s[1]>> \o masks[2]

LEMMA MatchedToEnd ==
    ASSUME NEW s, NEW ends, NEW masks, NEW out, Became(out, s, ends, masks), s # <<>>
    PROVE  ToEnd(out, s, ends, masks)
<1>a. Matched(s, ends, masks)
  BY DEF Became
<1>b. PICK h : Replaces(h, s, ends, masks) /\ out = h[1]
  BY DEF Became
<1> DEFINE n == Len(s)
           put == PutAt(s, ends, masks)
           next == NextAt(s, ends)
<1>0. s \in Seq(Int) /\ n \in Nat /\ n # 0
  BY <1>a, EmptySeq, LenProperties DEF Matched
<1>1. h[n + 1] = <<>> /\ \A i \in 1 .. n : h[i] = put[i] \o h[next[i]]
  BY <1>b DEF Replaces, Walk
<1>2. \A i \in 1 .. n : ends[i] = n => h[i] = masks[i]
  <2> SUFFICES ASSUME NEW i \in 1 .. n, ends[i] = n PROVE h[i] = masks[i]
    OBVIOUS
  <2>1. ends[i] # 0
    BY <1>0
  <2>2. put[i] = masks[i] /\ next[i] = n + 1
    BY <1>0, <2>1 DEF PutAt, NextAt
  <2>3. masks[i] \in Seq(Int)
    BY <1>a DEF Matched
  <2> HIDE DEF put, next, n
  <2>4. h[i] = masks[i] \o <<>>
    BY <1>1, <2>2
  <2> QED BY <2>3, <2>4, ConcatEmptySeq
<1>3. 1 \in 1 .. n /\ (n > 1 => 2 \in 1 .. n)
  BY <1>0
<1>4. ends[1] = 0 => h[1] = <<s[1]>> \o h[2]
  <2>1. ends[1] = 0 => put[1] = <<s[1]>> /\ next[1] = 2
    BY <1>3 DEF PutAt, NextAt
  <2> HIDE DEF put, next, n
  <2> QED BY <1>1, <1>3, <2>1
<1> QED BY <1>b, <1>2, <1>3, <1>4 DEF ToEnd

\* Two texts with a comma between them.
LEMMA WithComma ==
    ASSUME NEW a, NEW b, a \in Seq(Int), b \in Seq(Int)
    PROVE  LET t == a \o <<Comma>> \o b IN
           /\ t \in Seq(Int) /\ Len(a) \in Nat /\ Len(b) \in Nat
           /\ Len(t) = Len(a) + 1 + Len(b)
           /\ \A i \in 1 .. Len(a) : t[i] = a[i]
           /\ t[Len(a) + 1] = Comma
           /\ \A i \in 1 .. Len(b) : t[Len(a) + 1 + i] = b[i]
<1> DEFINE c == <<Comma>>
           u == a \o c
           t == u \o b
<1>0. Len(a) \in Nat /\ Len(b) \in Nat
  BY LenProperties
<1>1. c \in Seq(Int) /\ Len(c) = 1 /\ c[1] = Comma
  BY OneCharacter, CommaInNone
<1> HIDE DEF c
<1>2. /\ u \in Seq(Int) /\ Len(u) = Len(a) + Len(c)
      /\ \A i \in 1 .. Len(a) + Len(c) : u[i] = IF i <= Len(a) THEN a[i] ELSE c[i - Len(a)]
  BY <1>1, ConcatProperties
<1> HIDE DEF u
<1>3. /\ t \in Seq(Int) /\ Len(t) = Len(u) + Len(b)
      /\ \A i \in 1 .. Len(u) + Len(b) : t[i] = IF i <= Len(u) THEN u[i] ELSE b[i - Len(u)]
  <2>1. u \in Seq(Int)
    BY <1>2
  <2> QED BY <2>1, ConcatProperties
<1> HIDE DEF t
<1> DEFINE k == Len(a)
           l == Len(b)
           m == k + 1
<1>4. k \in Nat /\ l \in Nat /\ Len(u) = m /\ Len(t) = m + l
  BY <1>0, <1>1, <1>2, <1>3
<1>5. /\ \A i \in 1 .. m + l : t[i] = IF i <= m THEN u[i] ELSE b[i - m]
      /\ \A i \in 1 .. m : u[i] = IF i <= k THEN a[i] ELSE c[i - k]
  <2> HIDE DEF m
  <2>1. Len(u) + Len(b) = m + l /\ Len(u) = m
    BY <1>4
  <2>2. Len(a) + Len(c) = m
    BY <1>1, <1>2, <1>4
  <2> QED BY <1>2, <1>3, <2>1, <2>2
<1> HIDE DEF k, l
<1>6. ASSUME NEW i \in 1 .. k PROVE t[i] = a[i]
  <2>1. i \in 1 .. m + l /\ i <= m /\ i \in 1 .. m /\ i <= k
    BY <1>4
  <2> HIDE DEF m
  <2> QED BY <1>5, <2>1
<1>7. t[m] = Comma
  <2>1. m \in 1 .. m + l /\ m <= m /\ m \in 1 .. m /\ ~ (m <= k) /\ m - k = 1
    BY <1>4
  <2> HIDE DEF m
  <2>2. t[m] = c[m - k]
    BY <1>5, <2>1
  <2> QED BY <1>1, <2>1, <2>2
<1>8. ASSUME NEW i \in 1 .. l PROVE t[m + i] = b[i]
  <2> DEFINE j == m + i
  <2>1. j \in 1 .. m + l /\ ~ (j <= m) /\ j - m = i
    BY <1>4
  <2> HIDE DEF j, m
  <2>2. t[j] = b[j - m]
    BY <1>5, <2>1
  <2> QED BY <2>1, <2>2 DEF j
<1>9. t \in Seq(Int)
  BY <1>3
<1> QED BY <1>0, <1>4, <1>6, <1>7, <1>8, <1>9 DEF t, u, c, k, l, m

\* The matches of a text with a comma are those of its two parts.
Parted(a, b, ends, masks, endsA, masksA, endsB, masksB) ==
    LET d == Len(a) + 1 IN
    /\ \A i \in 1 .. Len(a) : ends[i] = endsA[i] /\ (endsA[i] # 0 => masks[i] = masksA[i])
    /\ ends[d] = 0
    /\ \A i \in 1 .. Len(b) : /\ endsB[i] = 0 => ends[d + i] = 0
                              /\ endsB[i] # 0 => ends[d + i] = d + endsB[i]
                                                 /\ masks[d + i] = masksB[i]

Reassociate(x, y, z) == (x \o y) \o z = x \o (y \o z)

LEMMA Reassociated ==
    ASSUME NEW x, NEW y, NEW z, x \in Seq(Int), y \in Seq(Int), z \in Seq(Int)
    PROVE  Reassociate(x, y, z)
BY ConcatAssociative, SMTT(30) DEF Reassociate

LEMMA ReplacedInParts ==
    ASSUME NEW a, NEW b, a \in Seq(Int), b \in Seq(Int),
           NEW ends, NEW masks, NEW endsA, NEW masksA, NEW endsB, NEW masksB,
           NEW out, NEW outA, NEW outB,
           Became(outA, a, endsA, masksA), Became(outB, b, endsB, masksB),
           Became(out, a \o <<Comma>> \o b, ends, masks),
           Parted(a, b, ends, masks, endsA, masksA, endsB, masksB)
    PROVE  out = outA \o <<Comma>> \o outB
<1>a. PICK hA : Replaces(hA, a, endsA, masksA) /\ outA = hA[1]
  BY DEF Became
<1>b. PICK hB : Replaces(hB, b, endsB, masksB) /\ outB = hB[1]
  BY DEF Became
<1>c. PICK h : Replaces(h, a \o <<Comma>> \o b, ends, masks) /\ out = h[1]
  BY DEF Became
<1>d. Matched(a, endsA, masksA) /\ Matched(b, endsB, masksB)
      /\ Matched(a \o <<Comma>> \o b, ends, masks)
  BY DEF Became
<1> DEFINE t == a \o <<Comma>> \o b
           k == Len(a)
           l == Len(b)
           n == Len(t)
           rest == <<Comma>> \o hB[1]
           g == [i \in 1 .. n + 1 |-> IF i <= k + 1 THEN hA[i] \o rest ELSE hB[i - (k + 1)]]
           put == PutAt(t, ends, masks)
           next == NextAt(t, ends)
           putA == PutAt(a, endsA, masksA)
           nextA == NextAt(a, endsA)
           putB == PutAt(b, endsB, masksB)
           nextB == NextAt(b, endsB)
<1>0. /\ k \in Nat /\ l \in Nat /\ n = k + 1 + l
      /\ \A i \in 1 .. k : t[i] = a[i]
      /\ t[k + 1] = Comma
      /\ \A i \in 1 .. l : t[k + 1 + i] = b[i]
  BY WithComma
<1>1. /\ \A i \in 1 .. k + 1 : hA[i] \in Seq(Int)
      /\ hA[k + 1] = <<>> /\ \A i \in 1 .. k : hA[i] = putA[i] \o hA[nextA[i]]
  BY <1>a DEF Replaces, Walk
<1>2. /\ \A i \in 1 .. l + 1 : hB[i] \in Seq(Int)
      /\ hB[l + 1] = <<>> /\ \A i \in 1 .. l : hB[i] = putB[i] \o hB[nextB[i]]
  BY <1>b DEF Replaces, Walk
<1>3. /\ \A i \in 1 .. k : putA[i] \in Seq(Int) /\ nextA[i] \in 2 .. k + 1
      /\ \A i \in 1 .. l : putB[i] \in Seq(Int) /\ nextB[i] \in 2 .. l + 1
  <2>1. Steady(k, putA, nextA) /\ Steady(l, putB, nextB)
    BY <1>d, MatchedSteady
  <2> HIDE DEF k, l, putA, nextA, putB, nextB
  <2> QED BY <2>1 DEF Steady
<1>4. \A i \in 1 .. n + 1 : g[i] = IF i <= k + 1 THEN hA[i] \o rest ELSE hB[i - (k + 1)]
  OBVIOUS
<1>5. \A i \in 1 .. k : put[i] = putA[i] /\ next[i] = nextA[i]
  <2> SUFFICES ASSUME NEW i \in 1 .. k PROVE put[i] = putA[i] /\ next[i] = nextA[i]
    OBVIOUS
  <2>1. i \in 1 .. n /\ t[i] = a[i]
    BY <1>0
  <2>2. ends[i] = endsA[i] /\ (endsA[i] # 0 => masks[i] = masksA[i])
    BY DEF Parted
  <2>3. /\ ends[i] = 0 => put[i] = <<t[i]>> /\ next[i] = i + 1
        /\ ends[i] # 0 => put[i] = masks[i] /\ next[i] = ends[i] + 1
    <3> HIDE DEF t
    <3> QED BY <2>1 DEF PutAt, NextAt
  <2>4. /\ endsA[i] = 0 => putA[i] = <<a[i]>> /\ nextA[i] = i + 1
        /\ endsA[i] # 0 => putA[i] = masksA[i] /\ nextA[i] = endsA[i] + 1
    BY DEF PutAt, NextAt
  <2> HIDE DEF t, put, next, putA, nextA
  <2> QED BY <2>1, <2>2, <2>3, <2>4
<1>6. put[k + 1] = <<Comma>> /\ next[k + 1] = k + 2
  <2>1. k + 1 \in 1 .. n /\ t[k + 1] = Comma /\ k + 1 + 1 = k + 2
    BY <1>0
  <2>2. ends[k + 1] = 0
    BY DEF Parted
  <2>3. put[k + 1] = <<t[k + 1]>> /\ next[k + 1] = k + 1 + 1
    <3> DEFINE i == k + 1
    <3>1. i \in 1 .. n /\ ends[i] = 0
      BY <2>1, <2>2
    <3> HIDE DEF t, i
    <3>2. put[i] = <<t[i]>> /\ next[i] = i + 1
      BY <3>1 DEF PutAt, NextAt
    <3> QED BY <3>2 DEF i
  <2> HIDE DEF t, put, next
  <2> QED BY <2>1, <2>3
<1>7. \A i \in 1 .. l : put[k + 1 + i] = putB[i] /\ next[k + 1 + i] = k + 1 + nextB[i]
  <2> SUFFICES ASSUME NEW i \in 1 .. l
               PROVE  put[k + 1 + i] = putB[i] /\ next[k + 1 + i] = k + 1 + nextB[i]
    OBVIOUS
  <2> DEFINE m == k + 1 + i
  <2>1. m \in 1 .. n /\ t[m] = b[i]
    BY <1>0
  <2>2. /\ endsB[i] = 0 => ends[m] = 0
        /\ endsB[i] # 0 => ends[m] = k + 1 + endsB[i] /\ masks[m] = masksB[i]
    BY DEF Parted
  <2>3. endsB[i] \in Nat
    <3>1. endsB[i] \in 0 .. l
      BY <1>d DEF Matched
    <3> QED BY <1>0, <3>1
  <2>4. m = k + 1 + i
    OBVIOUS
  <2> HIDE DEF m
  <2>5. /\ ends[m] = 0 => put[m] = <<t[m]>> /\ next[m] = m + 1
        /\ ends[m] # 0 => put[m] = masks[m] /\ next[m] = ends[m] + 1
    <3> HIDE DEF t
    <3> QED BY <2>1 DEF PutAt, NextAt
  <2>6. /\ endsB[i] = 0 => putB[i] = <<b[i]>> /\ nextB[i] = i + 1
        /\ endsB[i] # 0 => putB[i] = masksB[i] /\ nextB[i] = endsB[i] + 1
    BY DEF PutAt, NextAt
  <2> HIDE DEF t, put, next, putB, nextB, k, l
  <2>7. CASE endsB[i] = 0
    <3>1. m + 1 = k + 1 + (i + 1)
      BY <1>0, <2>4
    <3> QED BY <2>1, <2>2, <2>4, <2>5, <2>6, <2>7, <3>1
  <2>8. CASE endsB[i] # 0
    <3>1. ends[m] = k + 1 + endsB[i] /\ ends[m] # 0
      BY <1>0, <2>2, <2>3, <2>8
    <3>2. ends[m] + 1 = k + 1 + (endsB[i] + 1)
      BY <1>0, <2>3, <3>1
    <3> QED BY <2>2, <2>4, <2>5, <2>6, <2>8, <3>1, <3>2
  <2> QED BY <2>7, <2>8
<1>8. rest \in Seq(Int) /\ <<Comma>> \in Seq(Int)
  <2>1. <<Comma>> \in Seq(Int)
    BY OneCharacter, CommaInNone
  <2>2. hB[1] \in Seq(Int)
    BY <1>0, <1>2
  <2> QED BY <2>1, <2>2, ConcatProperties
<1> HIDE DEF t, g, put, next, putA, nextA, putB, nextB
<1>9. Walk(g, n, put, next)
  <2>1. g[n + 1] = <<>>
    <3> DEFINE m == n + 1
    <3>1. m \in 1 .. n + 1 /\ ~ (m <= k + 1) /\ m - (k + 1) = l + 1
      BY <1>0
    <3> HIDE DEF n, k, l, m
    <3>2. g[m] = hB[m - (k + 1)]
      BY <1>4, <3>1
    <3> QED BY <1>2, <3>1, <3>2 DEF m
  <2>2. ASSUME NEW i \in 1 .. n PROVE g[i] = put[i] \o g[next[i]]
    <3>1. CASE i \in 1 .. k
      <4>1. next[i] = nextA[i] /\ put[i] = putA[i] /\ nextA[i] \in 2 .. k + 1
        BY <1>3, <1>5, <3>1
      <4>2. nextA[i] \in 1 .. n + 1 /\ nextA[i] <= k + 1 /\ nextA[i] \in 1 .. k + 1
            /\ i \in 1 .. n + 1 /\ i <= k + 1
        BY <1>0, <3>1, <4>1
      <4> HIDE DEF n, k, l, rest
      <4>3. g[i] = hA[i] \o rest /\ g[nextA[i]] = hA[nextA[i]] \o rest
        BY <1>4, <4>2
      <4>4. hA[i] = putA[i] \o hA[nextA[i]] /\ putA[i] \in Seq(Int) /\ hA[nextA[i]] \in Seq(Int)
        BY <1>1, <1>3, <3>1, <4>2
      <4>5. (putA[i] \o hA[nextA[i]]) \o rest = putA[i] \o (hA[nextA[i]] \o rest)
        <5> DEFINE x == putA[i]
                   y == hA[nextA[i]]
                   z == rest
        <5>1. x \in Seq(Int) /\ y \in Seq(Int) /\ z \in Seq(Int)
          BY <1>8, <4>4
        <5> HIDE DEF x, y, z
        <5>2. Reassociate(x, y, z)
          BY <5>1, Reassociated
        <5> QED BY <5>2 DEF x, y, z, Reassociate
      <4> QED BY <4>1, <4>3, <4>4, <4>5
    <3>2. CASE i = k + 1
      <4>1. i \in 1 .. n + 1 /\ i <= k + 1 /\ k + 2 \in 1 .. n + 1 /\ ~ (k + 2 <= k + 1)
            /\ k + 2 - (k + 1) = 1
        BY <1>0, <3>2
      <4>2. <<>> \o rest = rest
        BY <1>8, ConcatEmptySeq
      <4> HIDE DEF n, k, l, rest
      <4>3. g[i] = rest
        BY <1>1, <1>4, <3>2, <4>1, <4>2
      <4>4. g[k + 2] = hB[1]
        <5> DEFINE j == k + 2
        <5>1. j \in 1 .. n + 1 /\ ~ (j <= k + 1) /\ j - (k + 1) = 1
          BY <1>0, <4>1
        <5> HIDE DEF j
        <5>2. g[j] = hB[j - (k + 1)]
          BY <1>4, <5>1
        <5> QED BY <5>1, <5>2 DEF j
      <4> QED BY <1>6, <3>2, <4>3, <4>4 DEF rest
    <3>3. CASE i \notin 1 .. k + 1
      <4> DEFINE j == i - (k + 1)
                 e == nextB[j]
      <4>1. j \in 1 .. l /\ i = k + 1 + j /\ ~ (i <= k + 1) /\ i \in 1 .. n + 1
        BY <1>0, <3>3
      <4> HIDE DEF j
      <4>2. e \in 2 .. l + 1
        BY <1>3, <4>1
      <4> HIDE DEF e
      <4>3. k + 1 + e \in 1 .. n + 1 /\ ~ (k + 1 + e <= k + 1) /\ k + 1 + e - (k + 1) = e
        BY <1>0, <4>2
      <4> HIDE DEF n, k, l
      <4>4. g[i] = hB[j] /\ g[k + 1 + e] = hB[e]
        <5> DEFINE r == k + 1 + e
        <5>1. r \in 1 .. n + 1 /\ ~ (r <= k + 1) /\ r - (k + 1) = e
          BY <1>0, <4>2, <4>3
        <5> HIDE DEF r
        <5>2. g[r] = hB[r - (k + 1)]
          BY <1>4, <5>1
        <5>3. g[i] = hB[i - (k + 1)]
          BY <1>4, <4>1
        <5> QED BY <5>1, <5>2, <5>3 DEF j, r
      <4>5. put[i] = putB[j] /\ next[i] = k + 1 + e
        BY <1>7, <4>1 DEF e
      <4>6. hB[j] = putB[j] \o hB[e]
        BY <1>2, <4>1 DEF e
      <4> QED BY <4>4, <4>5, <4>6
    <3>4. i \in 1 .. k \/ i = k + 1 \/ i \notin 1 .. k + 1
      BY <1>0
    <3> QED BY <3>1, <3>2, <3>3, <3>4
  <2> QED BY <2>1, <2>2 DEF Walk
<1>10. h[1] = g[1]
  <2>1. Matched(t, ends, masks) /\ Replaces(h, t, ends, masks)
    BY <1>c, <1>d DEF t
  <2>2. Walk(g, Len(t), PutAt(t, ends, masks), NextAt(t, ends))
    BY <1>9 DEF put, next
  <2> QED BY <2>1, <2>2, ReplacedOnce
<1>11. g[1] = hA[1] \o rest
  <2>1. 1 \in 1 .. n + 1 /\ 1 <= k + 1
    BY <1>0
  <2> HIDE DEF n, k
  <2> QED BY <1>4, <2>1
<1>12. hA[1] \o rest = hA[1] \o <<Comma>> \o hB[1]
  <2> DEFINE x == hA[1]
             y == <<Comma>>
             z == hB[1]
  <2>1. x \in Seq(Int) /\ y \in Seq(Int) /\ z \in Seq(Int)
    BY <1>0, <1>1, <1>2, <1>8
  <2> HIDE DEF x, y, z
  <2>2. Reassociate(x, y, z)
    BY <2>1, Reassociated
  <2> QED BY <2>2 DEF x, y, z, Reassociate
<1> QED BY <1>a, <1>b, <1>c, <1>10, <1>11, <1>12

----------------------------------------------------------------------------
(* A text inside another one, between commas or the ends. *)

Inside(s, t, d) ==
    /\ s \in Seq(Int) /\ t \in Seq(Int) /\ d \in Nat /\ d + Len(s) <= Len(t)
    /\ \A k \in 1 .. Len(s) : t[d + k] = s[k]
    /\ CharAt(t, d) = Comma /\ CharAt(t, d + Len(s) + 1) = Comma

LEMMA InsideAt ==
    ASSUME NEW s, NEW t, NEW d, Inside(s, t, d), NEW k \in 0 .. Len(s) + 1
    PROVE  CharAt(t, d + k) = CharAt(s, k)
<1>0. s \in Seq(Int) /\ t \in Seq(Int) /\ d \in Nat /\ Len(s) \in Nat /\ Len(t) \in Nat
      /\ d + Len(s) <= Len(t)
  BY LenProperties DEF Inside
<1>1. CASE k \in 1 .. Len(s)
  <2>1. d + k \in 1 .. Len(t)
    BY <1>0, <1>1
  <2>2. CharAt(s, k) = s[k]
    BY <1>0, <1>1, Around
  <2> DEFINE m == d + k
  <2>3. m \in 1 .. Len(t) /\ m \in Int /\ t[m] = s[k]
    BY <1>0, <1>1, <2>1 DEF Inside
  <2> HIDE DEF m
  <2>4. CharAt(t, m) = t[m]
    BY <1>0, <2>3, Around
  <2> QED BY <2>2, <2>3, <2>4 DEF m
<1>2. CASE k = 0
  <2>1. 0 \notin 1 .. Len(s) /\ 0 \in Int
    OBVIOUS
  <2>2. CharAt(s, 0) = Comma
    BY <1>0, <2>1, Around
  <2>3. d + k = d
    BY <1>0, <1>2
  <2> QED BY <1>2, <2>2, <2>3 DEF Inside
<1>3. CASE k = Len(s) + 1
  <2>1. k \notin 1 .. Len(s) /\ k \in Int
    BY <1>0, <1>3
  <2>2. CharAt(s, k) = Comma
    BY <1>0, <2>1, Around
  <2>3. d + k = d + Len(s) + 1
    BY <1>0, <1>3
  <2> QED BY <2>2, <2>3 DEF Inside
<1> QED BY <1>0, <1>1, <1>2, <1>3

Cut(s, i, j) == SubSeq(s, i, j)

LEMMA InsideSpan ==
    ASSUME NEW s, NEW t, NEW d, Inside(s, t, d),
           NEW i \in 1 .. Len(s), NEW j \in 0 .. Len(s)
    PROVE  Span(t, d + i, d + j) = Span(s, i, j) /\ Cut(t, d + i, d + j) = Cut(s, i, j)
<1>0. s \in Seq(Int) /\ t \in Seq(Int) /\ d \in Nat /\ Len(s) \in Nat /\ Len(t) \in Nat
      /\ d + Len(s) <= Len(t)
  BY LenProperties DEF Inside
<1>1. \A k \in 1 .. Len(s) : t[d + k] = s[k] /\ s[k] \in Int
  BY <1>0, ElementOfSeq DEF Inside
<1>2. Span(t, d + i, d + j) = Span(s, i, j)
  <2>1. ASSUME NEW k \in i .. j PROVE d + k \in d + i .. d + j /\ t[d + k] = s[k]
    BY <1>0, <1>1
  <2>2. ASSUME NEW m \in d + i .. d + j PROVE m - d \in i .. j /\ t[m] = s[m - d]
    <3> DEFINE k == m - d
    <3>1. k \in i .. j /\ k \in 1 .. Len(s) /\ d + k = m
      BY <1>0
    <3> HIDE DEF k
    <3>2. t[d + k] = s[k]
      BY <1>1, <3>1
    <3> QED BY <3>1, <3>2 DEF k
  <2>3. Span(s, i, j) \subseteq Span(t, d + i, d + j)
    <3> SUFFICES ASSUME NEW k \in i .. j PROVE s[k] \in Span(t, d + i, d + j)
      BY DEF Span
    <3> DEFINE m == d + k
    <3>1. m \in d + i .. d + j /\ t[m] = s[k]
      BY <2>1
    <3> HIDE DEF m
    <3> QED BY <3>1 DEF Span
  <2>4. Span(t, d + i, d + j) \subseteq Span(s, i, j)
    <3> SUFFICES ASSUME NEW m \in d + i .. d + j PROVE t[m] \in Span(s, i, j)
      BY DEF Span
    <3> DEFINE k == m - d
    <3>1. k \in i .. j /\ t[m] = s[k]
      BY <2>2
    <3> HIDE DEF k
    <3> QED BY <3>1 DEF Span
  <2> QED BY <2>3, <2>4
<1>3. SubSeq(t, d + i, d + j) = SubSeq(s, i, j)
  <2> DEFINE x == d + i
             y == d + j
             l == j - i + 1
             p == SubSeq(t, x, y)
             q == SubSeq(s, i, j)
  <2>1. x \in Int /\ y \in Int /\ y - x + 1 = l /\ (x <= y <=> i <= j)
        /\ \A k \in 1 .. l : x + k - 1 = d + (i + k - 1) /\ i + k - 1 \in 1 .. Len(s)
    BY <1>0
  <2>2. \A m \in x .. y : t[m] \in Int
    <3>1. \A m \in x .. y : m \in 1 .. Len(t)
      BY <1>0
    <3> HIDE DEF x, y
    <3> QED BY <1>0, <3>1, ElementOfSeq
  <2>3. \A m \in i .. j : s[m] \in Int
    BY <1>0, <1>1
  <2> HIDE DEF x, y, l
  <2>4. /\ p \in Seq(Int) /\ Len(p) = IF x <= y THEN y - x + 1 ELSE 0
        /\ \A k \in 1 .. y - x + 1 : p[k] = t[x + k - 1]
    BY <2>1, <2>2, SubSeqProperties
  <2>5. /\ q \in Seq(Int) /\ Len(q) = IF i <= j THEN j - i + 1 ELSE 0
        /\ \A k \in 1 .. j - i + 1 : q[k] = s[i + k - 1]
    <3>1. i \in Int /\ j \in Int
      OBVIOUS
    <3> QED BY <2>3, <3>1, SubSeqProperties
  <2> HIDE DEF p, q
  <2>6. l = j - i + 1 /\ l \in Int
    BY DEF l
  <2>7. Len(p) = Len(q) /\ \A k \in 1 .. Len(p) : k \in 1 .. l
    <3>1. CASE i <= j
      <4>1. Len(p) = l /\ Len(q) = l
        BY <2>1, <2>4, <2>5, <2>6, <3>1
      <4> QED BY <4>1
    <3>2. CASE ~ (i <= j)
      <4>1. Len(p) = 0 /\ Len(q) = 0
        BY <2>1, <2>4, <2>5, <3>2
      <4> QED BY <4>1
    <3> QED BY <3>1, <3>2
  <2>8. ASSUME NEW k \in 1 .. l PROVE p[k] = q[k]
    <3>1. p[k] = t[x + k - 1] /\ q[k] = s[i + k - 1]
      BY <2>1, <2>4, <2>5, <2>6
    <3> DEFINE m == i + k - 1
    <3>2. m \in 1 .. Len(s) /\ x + k - 1 = d + m /\ q[k] = s[m]
      BY <2>1, <3>1
    <3> HIDE DEF m
    <3>3. t[d + m] = s[m]
      BY <1>1, <3>2
    <3> QED BY <3>1, <3>2, <3>3
  <2>9. p = q
    BY <2>4, <2>5, <2>7, <2>8, SeqEqual
  <2> QED BY <2>9 DEF p, q, x, y
<1> QED BY <1>2, <1>3 DEF Cut

\* What goes on past its end has a comma.
LEMMA InsideStop ==
    ASSUME NEW s, NEW t, NEW d, Inside(s, t, d),
           NEW i \in 1 .. Len(s), NEW j \in 1 .. Len(t), d + Len(s) < j
    PROVE  Comma \in Span(t, d + i, j) /\ t[d + Len(s) + 1] = Comma
<1>0. t \in Seq(Int) /\ d \in Nat /\ Len(s) \in Nat /\ Len(t) \in Nat
  BY LenProperties DEF Inside
<1> DEFINE m == d + Len(s) + 1
<1>1. m \in 1 .. Len(t) /\ m \in Int /\ m \in d + i .. j
  BY <1>0
<1>2. CharAt(t, m) = Comma
  BY DEF Inside
<1> HIDE DEF m
<1>3. t[m] = Comma
  BY <1>0, <1>1, <1>2, Around
<1> QED BY <1>1, <1>3 DEF Span, m

LEMMA LeastShifted ==
    ASSUME NEW S \in SUBSET Nat, NEW T \in SUBSET Nat, NEW d \in Nat, NEW e \in S, NEW f \in T,
           \A j \in S : d + j \in T, \A m \in T : m - d \in S,
           \A j \in S : e <= j, \A m \in T : f <= m
    PROVE  f = d + e
<1>1. f <= d + e
  OBVIOUS
<1>2. e <= f - d
  OBVIOUS
<1>3. e \in Nat /\ f \in Nat
  OBVIOUS
<1> QED BY <1>1, <1>2, <1>3

LEMMA GreatestShifted ==
    ASSUME NEW S \in SUBSET Nat, NEW T \in SUBSET Nat, NEW d \in Nat, NEW e \in S, NEW f \in T,
           \A j \in S : d + j \in T, \A m \in T : m - d \in S,
           \A j \in S : j <= e, \A m \in T : m <= f
    PROVE  f = d + e
<1>1. d + e <= f
  OBVIOUS
<1>2. f - d <= e
  OBVIOUS
<1>3. e \in Nat /\ f \in Nat
  OBVIOUS
<1> QED BY <1>1, <1>2, <1>3

----------------------------------------------------------------------------
(* The matches of a text inside another one are its own. *)

LEMMA EmailInside ==
    ASSUME NEW s, NEW t, NEW d, Inside(s, t, d), NEW i \in 1 .. Len(s)
    PROVE  /\ EmailEnd(s, i) = 0 => EmailEnd(t, d + i) = 0
           /\ EmailEnd(s, i) # 0 => EmailEnd(t, d + i) = d + EmailEnd(s, i)
<1> DEFINE m == d + i
           S == EmailEnds(s, i)
           T == EmailEnds(t, m)
           e == EmailEnd(s, i)
           f == EmailEnd(t, m)
<1>0. s \in Seq(Int) /\ t \in Seq(Int) /\ d \in Nat /\ Len(s) \in Nat /\ Len(t) \in Nat
      /\ d + Len(s) <= Len(t)
  BY LenProperties DEF Inside
<1>1. m \in 1 .. Len(t) /\ m \in Int /\ m - 1 = d + (i - 1) /\ i - 1 \in 0 .. Len(s) + 1
      /\ i \in 0 .. Len(s) + 1 /\ m = d + i
  BY <1>0
<1>2. \A k \in 1 .. Len(s) : t[d + k] = s[k]
  BY DEF Inside
<1>3. EmailStarts(t, m) <=> EmailStarts(s, i)
  <2>1. CharAt(t, m) = CharAt(s, i) /\ CharAt(t, m - 1) = CharAt(s, i - 1)
    <3> HIDE DEF m
    <3>1. CharAt(t, d + i) = CharAt(s, i) /\ CharAt(t, d + (i - 1)) = CharAt(s, i - 1)
      BY <1>1, InsideAt
    <3> QED BY <1>1, <3>1
  <2>2. t[m] = s[i]
    BY <1>2
  <2> QED BY <2>1, <2>2 DEF EmailStarts
<1>4. ASSUME NEW j \in S PROVE d + j \in T
  <2>1. j \in i + 1 .. Len(s) /\ s[j] = AtDomain /\ Span(s, i, j - 1) \subseteq LocalChar
    BY DEF EmailEnds
  <2>2. j \in 1 .. Len(s) /\ j - 1 \in 0 .. Len(s) /\ d + j \in m + 1 .. Len(t)
        /\ (d + j) - 1 = d + (j - 1)
    BY <1>0, <2>1, SMTT(30)
  <2>3. t[d + j] = AtDomain
    BY <1>2, <2>1, <2>2
  <2> HIDE DEF m
  <2>4. Span(t, m, (d + j) - 1) \subseteq LocalChar
    <3> DEFINE l == j - 1
    <3>1. l \in 0 .. Len(s) /\ (d + j) - 1 = d + l /\ Span(s, i, l) \subseteq LocalChar
      BY <2>1, <2>2
    <3> HIDE DEF l
    <3>2. Span(t, d + i, d + l) = Span(s, i, l)
      BY <3>1, InsideSpan
    <3> QED BY <1>1, <3>1, <3>2
  <2> DEFINE k == d + j
  <2>5. k \in m + 1 .. Len(t)
    BY <2>2
  <2>6. t[k] = AtDomain
    BY <2>3
  <2>7. Span(t, m, k - 1) \subseteq LocalChar
    BY <2>4
  <2> HIDE DEF k
  <2> QED BY <2>5, <2>6, <2>7 DEF EmailEnds, k
<1>5. ASSUME NEW j \in T PROVE j - d \in S
  <2>1. j \in m + 1 .. Len(t) /\ t[j] = AtDomain /\ Span(t, m, j - 1) \subseteq LocalChar
    BY DEF EmailEnds
  <2>2. j - d \in i + 1 .. Len(s)
    <3> SUFFICES ASSUME d + Len(s) < j PROVE FALSE
      BY <1>0, <2>1
    <3>1. t[d + Len(s) + 1] # AtDomain
      <4>1. j \in 1 .. Len(t)
        BY <1>0, <2>1
      <4>2. t[d + Len(s) + 1] = Comma
        BY <4>1, InsideStop
      <4> QED BY <4>2, CommaInNone
    <3>2. d + Len(s) + 1 < j
      <4> DEFINE c == d + Len(s) + 1
      <4>1. c # j
        <5> HIDE DEF c
        <5> QED BY <2>1, <3>1 DEF c
      <4>2. j \in Int /\ Len(s) \in Int /\ d \in Int
        BY <1>0, <2>1
      <4> QED BY <4>1, <4>2
    <3> DEFINE l == j - 1
    <3>5. Span(t, m, l) \subseteq LocalChar
      BY <2>1
    <3>3. l \in 1 .. Len(t) /\ d + Len(s) < l
      <4>1. j \in Int /\ j <= Len(t)
        BY <1>0, <2>1
      <4> QED BY <1>0, <3>2, <4>1, SMTT(30)
    <3> HIDE DEF l
    <3>4. Comma \in Span(t, d + i, l)
      BY <3>3, InsideStop
    <3> QED BY <3>4, <3>5, CommaInNone
  <2> DEFINE k == j - d
             l == k - 1
  <2>3. k \in i + 1 .. Len(s) /\ k \in 1 .. Len(s) /\ d + k = j /\ l \in 0 .. Len(s) /\ d + l = j - 1
    BY <1>0, <2>1, <2>2
  <2>4. l = k - 1
    OBVIOUS
  <2> HIDE DEF k, l
  <2>5. s[k] = AtDomain
    BY <1>2, <2>1, <2>3
  <2>6. Span(s, i, l) \subseteq LocalChar
    <3>1. Span(t, d + i, d + l) = Span(s, i, l)
      BY <2>3, InsideSpan
    <3> QED BY <2>1, <2>3, <3>1
  <2> QED BY <2>3, <2>4, <2>5, <2>6 DEF EmailEnds, k
<1>6. S \in SUBSET Nat /\ T \in SUBSET Nat /\ \A j \in S : i < j
  <2>1. \A j \in S : j \in i + 1 .. Len(s)
    BY DEF EmailEnds
  <2>2. \A j \in T : j \in m + 1 .. Len(t)
    BY DEF EmailEnds
  <2> HIDE DEF m, S, T
  <2>3. \A j \in i + 1 .. Len(s) : j \in Nat /\ i < j
    BY <1>0
  <2>4. \A j \in m + 1 .. Len(t) : j \in Nat
    BY <1>0, <1>1
  <2> QED BY <2>1, <2>2, <2>3, <2>4
<1>7. /\ ~ EmailStarts(s, i) \/ S = {} => e = 0
      /\ EmailStarts(s, i) /\ S # {} => e \in S /\ \A k \in S : e <= k
  BY <1>0, EmailMatch
<1>8. /\ ~ EmailStarts(t, m) \/ T = {} => f = 0
      /\ EmailStarts(t, m) /\ T # {} => f \in T /\ \A k \in T : f <= k
  <2> HIDE DEF m
  <2> QED BY <1>0, <1>1, EmailMatch
<1> HIDE DEF S, T, e, f, m
<1>9. S = {} <=> T = {}
  BY <1>4, <1>5
<1>10. CASE ~ EmailStarts(s, i) \/ S = {}
  BY <1>3, <1>7, <1>8, <1>9, <1>10 DEF e, f, m
<1>11. CASE EmailStarts(s, i) /\ S # {}
  <2>1. e \in S /\ f \in T /\ (\A k \in S : e <= k) /\ \A k \in T : f <= k
    BY <1>3, <1>7, <1>8, <1>9, <1>11
  <2>2. f = d + e
    BY <1>0, <1>4, <1>5, <1>6, <2>1, LeastShifted
  <2>3. e # 0
    BY <1>6, <2>1
  <2> QED BY <2>2, <2>3 DEF e, f, m
<1> QED BY <1>10, <1>11

LEMMA CardInside ==
    ASSUME NEW s, NEW t, NEW d, Inside(s, t, d), NEW i \in 1 .. Len(s)
    PROVE  /\ CardEnd(s, i) = 0 => CardEnd(t, d + i) = 0
           /\ CardEnd(s, i) # 0 => CardEnd(t, d + i) = d + CardEnd(s, i)
<1> DEFINE m == d + i
           S == CardEnds(s, i)
           T == CardEnds(t, m)
           e == CardEnd(s, i)
           f == CardEnd(t, m)
           Fits(u, from, j) == /\ u[j] \in Digit /\ CharAt(u, j + 1) \notin Digit
                               /\ Span(u, from, j) \subseteq Digit \cup {Space, Dash}
                               /\ Len(Digits(SubSeq(u, from, j))) \in 13 .. 19
<1>0. s \in Seq(Int) /\ t \in Seq(Int) /\ d \in Nat /\ Len(s) \in Nat /\ Len(t) \in Nat
      /\ d + Len(s) <= Len(t)
  BY LenProperties DEF Inside
<1>1. m \in 1 .. Len(t) /\ m \in Int /\ m - 1 = d + (i - 1) /\ i - 1 \in 0 .. Len(s) + 1
      /\ i \in 0 .. Len(s) + 1 /\ m = d + i
  BY <1>0
<1>2. \A k \in 1 .. Len(s) : t[d + k] = s[k]
  BY DEF Inside
<1>3. CardStarts(t, m) <=> CardStarts(s, i)
  <2>1. CharAt(t, m) = CharAt(s, i) /\ CharAt(t, m - 1) = CharAt(s, i - 1)
    <3> HIDE DEF m
    <3>1. CharAt(t, d + i) = CharAt(s, i) /\ CharAt(t, d + (i - 1)) = CharAt(s, i - 1)
      BY <1>1, InsideAt
    <3> QED BY <1>1, <3>1
  <2> QED BY <2>1 DEF CardStarts
<1>a. (\A j \in S : j \in i .. Len(s) /\ Fits(s, i, j)) /\ (\A j \in T : j \in m .. Len(t) /\ Fits(t, m, j))
  <2> HIDE DEF m
  <2> QED BY DEF CardEnds
<1>b. /\ \A j \in i .. Len(s) : Fits(s, i, j) => j \in S
      /\ \A j \in m .. Len(t) : Fits(t, m, j) => j \in T
  <2> HIDE DEF m
  <2> QED BY DEF CardEnds
<1> HIDE DEF S, T, m
<1>c. ASSUME NEW j \in i .. Len(s) PROVE Fits(t, m, d + j) <=> Fits(s, i, j)
  <2>1. j \in 1 .. Len(s) /\ j \in 0 .. Len(s) /\ j + 1 \in 0 .. Len(s) + 1
        /\ (d + j) + 1 = d + (j + 1)
    BY <1>0
  <2>2. t[d + j] = s[j]
    BY <1>2, <2>1
  <2>3. CharAt(t, d + (j + 1)) = CharAt(s, j + 1)
    BY <2>1, InsideAt
  <2>4. Span(t, d + i, d + j) = Span(s, i, j) /\ SubSeq(t, d + i, d + j) = SubSeq(s, i, j)
    <3> DEFINE l == j
    <3>1. l \in 0 .. Len(s)
      BY <2>1
    <3> HIDE DEF l, Fits
    <3>2. Span(t, d + i, d + l) = Span(s, i, l)
      BY <3>1, InsideSpan
    <3>3. Cut(t, d + i, d + l) = Cut(s, i, l)
      BY <3>1, InsideSpan
    <3> QED BY <3>2, <3>3 DEF l, Cut
  <2>5. CharAt(t, (d + j) + 1) = CharAt(s, j + 1)
    BY <2>1, <2>3
  <2>6. Span(t, m, d + j) = Span(s, i, j) /\ SubSeq(t, m, d + j) = SubSeq(s, i, j)
    BY <1>1, <2>4
  <2> DEFINE k == d + j
  <2>7. t[k] = s[j] /\ CharAt(t, k + 1) = CharAt(s, j + 1) /\ Span(t, m, k) = Span(s, i, j)
        /\ SubSeq(t, m, k) = SubSeq(s, i, j)
    BY <2>2, <2>5, <2>6
  <2> HIDE DEF k
  <2>8. Fits(t, m, k) <=> Fits(s, i, j)
    BY <2>7
  <2> QED BY <2>8 DEF k
<1>4. ASSUME NEW j \in S PROVE d + j \in T
  <2>1. j \in i .. Len(s) /\ Fits(s, i, j)
    BY <1>a
  <2>2. d + j \in m .. Len(t)
    BY <1>0, <1>1, <2>1
  <2> HIDE DEF Fits
  <2>3. Fits(t, m, d + j)
    BY <1>c, <2>1
  <2> QED BY <1>b, <2>2, <2>3
<1>5. ASSUME NEW j \in T PROVE j - d \in S
  <2>1. j \in m .. Len(t) /\ Fits(t, m, j)
    BY <1>a
  <2>2. j - d \in i .. Len(s)
    <3> SUFFICES ASSUME d + Len(s) < j PROVE FALSE
      BY <1>0, <1>1, <2>1
    <3>1. j \in 1 .. Len(t)
      BY <1>0, <1>1, <2>1
    <3>2. Comma \in Span(t, m, j)
      BY <1>1, <3>1, InsideStop
    <3> QED BY <2>1, <3>2, CommaInNone
  <2> DEFINE k == j - d
  <2>3. k \in i .. Len(s) /\ d + k = j
    BY <1>0, <1>1, <2>1, <2>2
  <2> HIDE DEF k, Fits
  <2>4. Fits(s, i, k)
    BY <1>c, <2>1, <2>3
  <2> QED BY <1>b, <2>3, <2>4 DEF k
<1>6. S \in SUBSET Nat /\ T \in SUBSET Nat /\ \A j \in S : i <= j
  <2>1. \A j \in i .. Len(s) : j \in Nat /\ i <= j
    BY <1>0
  <2>2. \A j \in m .. Len(t) : j \in Nat
    BY <1>0, <1>1
  <2> HIDE DEF Fits
  <2> QED BY <1>a, <2>1, <2>2
<1>7. /\ ~ CardStarts(s, i) \/ S = {} => e = 0
      /\ CardStarts(s, i) /\ S # {} => e \in S /\ \A k \in S : e <= k
  BY <1>0, CardMatch DEF S
<1>8. /\ ~ CardStarts(t, m) \/ T = {} => f = 0
      /\ CardStarts(t, m) /\ T # {} => f \in T /\ \A k \in T : f <= k
  BY <1>0, <1>1, CardMatch DEF T
<1> HIDE DEF e, f, Fits
<1>9. S = {} <=> T = {}
  BY <1>4, <1>5
<1>10. CASE ~ CardStarts(s, i) \/ S = {}
  BY <1>3, <1>7, <1>8, <1>9, <1>10 DEF e, f, m
<1>11. CASE CardStarts(s, i) /\ S # {}
  <2>1. e \in S /\ f \in T /\ (\A k \in S : e <= k) /\ \A k \in T : f <= k
    BY <1>3, <1>7, <1>8, <1>9, <1>11
  <2>2. f = d + e
    BY <1>0, <1>4, <1>5, <1>6, <2>1, LeastShifted
  <2>3. e # 0
    BY <1>6, <2>1
  <2> QED BY <2>2, <2>3 DEF e, f, m
<1> QED BY <1>10, <1>11

LEMMA PhoneInside ==
    ASSUME NEW s, NEW t, NEW d, Inside(s, t, d), NEW i \in 1 .. Len(s)
    PROVE  /\ PhoneEnd(s, i) = 0 => PhoneEnd(t, d + i) = 0
           /\ PhoneEnd(s, i) # 0 => PhoneEnd(t, d + i) = d + PhoneEnd(s, i)
<1> DEFINE m == d + i
           p == First(s, i)
           q == First(t, m)
           S == PhoneEnds(s, p)
           T == PhoneEnds(t, q)
           e == PhoneEnd(s, i)
           f == PhoneEnd(t, m)
           Fits(u, from, j) == /\ CharAt(u, j) \in Digit /\ CharAt(u, j + 1) \notin WordChar
                               /\ Span(u, from, j) \subseteq Digit \cup {Space, Dash}
<1>0. s \in Seq(Int) /\ t \in Seq(Int) /\ d \in Nat /\ Len(s) \in Nat /\ Len(t) \in Nat
      /\ d + Len(s) <= Len(t)
  BY LenProperties DEF Inside
<1>1. m \in 1 .. Len(t) /\ m \in Int /\ m - 1 = d + (i - 1) /\ i - 1 \in 0 .. Len(s) + 1
      /\ i \in 0 .. Len(s) + 1 /\ m = d + i /\ m + 1 = d + (i + 1) /\ i + 1 \in 0 .. Len(s) + 1
  BY <1>0
<1>2. CharAt(t, m) = CharAt(s, i) /\ CharAt(t, m - 1) = CharAt(s, i - 1)
  <2> HIDE DEF m
  <2>1. CharAt(t, d + i) = CharAt(s, i) /\ CharAt(t, d + (i - 1)) = CharAt(s, i - 1)
    BY <1>1, InsideAt
  <2> QED BY <1>1, <2>1
<1> HIDE DEF m
<1>x. (p = i /\ q = m) \/ (p = i + 1 /\ q = m + 1)
  BY <1>2 DEF First
<1> HIDE DEF p, q
<1>3. p \in i .. i + 1 /\ q = d + p /\ p \in 0 .. Len(s) + 1 /\ p \in Int /\ q \in Int
  <2>1. i \in Int /\ 1 <= i /\ i <= Len(s) /\ m = d + i
    BY <1>0, <1>1
  <2>2. CASE p = i /\ q = m
    BY <1>0, <2>1, <2>2
  <2>3. CASE p = i + 1 /\ q = m + 1
    BY <1>0, <2>1, <2>3
  <2> QED BY <1>x, <2>2, <2>3
<1>d. PhoneStarts(t, m) <=> PhoneStarts(s, i)
  <2>1. CharAt(t, q) = CharAt(s, p)
    BY <1>3, InsideAt
  <2> QED BY <1>2, <2>1 DEF PhoneStarts, p, q
<1>a. (\A j \in S : j \in p + 9 .. p + 19 /\ Fits(s, p, j)) /\ (\A j \in T : j \in q + 9 .. q + 19 /\ Fits(t, q, j))
  BY DEF PhoneEnds
<1>b. /\ \A j \in p + 9 .. p + 19 : Fits(s, p, j) => j \in S
      /\ \A j \in q + 9 .. q + 19 : Fits(t, q, j) => j \in T
  BY DEF PhoneEnds
<1> HIDE DEF S, T
<1>c. ASSUME NEW j \in p .. Len(s) PROVE Fits(t, q, d + j) <=> Fits(s, p, j)
  <2>1. j \in 0 .. Len(s) /\ j \in 0 .. Len(s) + 1 /\ j + 1 \in 0 .. Len(s) + 1
        /\ (d + j) + 1 = d + (j + 1) /\ p \in 1 .. Len(s)
    <3>1. i \in Int /\ 1 <= i /\ i <= p /\ p <= j /\ j <= Len(s) /\ j \in Int
      BY <1>0, <1>3
    <3>2. j \in 0 .. Len(s) + 1 /\ j + 1 \in 0 .. Len(s) + 1 /\ j \in 0 .. Len(s)
      BY <1>0, <1>3, <3>1
    <3>3. (d + j) + 1 = d + (j + 1)
      BY <1>0, <3>1
    <3>4. p \in 1 .. Len(s)
      BY <1>0, <1>3, <3>1
    <3> QED BY <3>2, <3>3, <3>4
  <2>2. CharAt(t, d + j) = CharAt(s, j)
    BY <2>1, InsideAt
  <2>3. CharAt(t, d + (j + 1)) = CharAt(s, j + 1)
    BY <2>1, InsideAt
  <2>4. Span(t, d + p, d + j) = Span(s, p, j)
    BY <2>1, InsideSpan
  <2> DEFINE k == d + j
  <2>7. CharAt(t, k) = CharAt(s, j) /\ CharAt(t, k + 1) = CharAt(s, j + 1) /\ Span(t, q, k) = Span(s, p, j)
    BY <1>3, <2>1, <2>2, <2>3, <2>4
  <2> HIDE DEF k
  <2>8. Fits(t, q, k) <=> Fits(s, p, j)
    BY <2>7
  <2> QED BY <2>8 DEF k
<1>e. \A j \in S : j \in p .. Len(s) /\ j \in Nat /\ i <= j
  <2> SUFFICES ASSUME NEW j \in S PROVE j \in p .. Len(s) /\ j \in Nat /\ i <= j
    OBVIOUS
  <2>1. j \in p + 9 .. p + 19 /\ CharAt(s, j) \in Digit
    BY <1>a
  <2>2. j \in Int
    BY <1>3, <2>1
  <2>3. j \in 1 .. Len(s)
    BY <1>0, <2>1, <2>2, Around, CommaInNone
  <2> QED BY <1>0, <1>3, <2>1, <2>3
<1>f. \A j \in T : j \in Nat /\ j \in 1 .. Len(t)
  <2> SUFFICES ASSUME NEW j \in T PROVE j \in Nat /\ j \in 1 .. Len(t)
    OBVIOUS
  <2>1. j \in q + 9 .. q + 19 /\ CharAt(t, j) \in Digit
    BY <1>a
  <2>2. j \in Int
    BY <1>3, <2>1
  <2>3. j \in 1 .. Len(t)
    BY <1>0, <2>1, <2>2, Around, CommaInNone
  <2> QED BY <1>0, <2>3
<1>4. ASSUME NEW j \in S PROVE d + j \in T
  <2>1. j \in p + 9 .. p + 19 /\ Fits(s, p, j) /\ j \in p .. Len(s)
    BY <1>a, <1>e
  <2>2. d + j \in q + 9 .. q + 19
    BY <1>0, <1>3, <2>1
  <2> HIDE DEF Fits
  <2>3. Fits(t, q, d + j)
    BY <1>c, <2>1
  <2> QED BY <1>b, <2>2, <2>3
<1>5. ASSUME NEW j \in T PROVE j - d \in S
  <2>1. j \in q + 9 .. q + 19 /\ Fits(t, q, j) /\ j \in 1 .. Len(t)
    BY <1>a, <1>f
  <2>2. j - d \in p .. Len(s)
    <3> SUFFICES ASSUME d + Len(s) < j PROVE FALSE
      BY <1>0, <1>3, <2>1
    <3>1. CASE p \in 1 .. Len(s)
      <4>1. Comma \in Span(t, q, j)
        BY <1>3, <2>1, <3>1, InsideStop
      <4> QED BY <2>1, <4>1, CommaInNone
    <3>2. CASE p \notin 1 .. Len(s)
      <4>1. CharAt(t, q) = Comma
        <5>1. CharAt(t, q) = CharAt(s, p)
          BY <1>3, InsideAt
        <5> QED BY <1>0, <1>3, <3>2, <5>1, Around
      <4>2. q \in 1 .. Len(t) /\ q \in q .. j
        BY <1>0, <1>3, <2>1
      <4>3. t[q] = Comma
        BY <1>0, <1>3, <4>1, <4>2, Around
      <4>4. Comma \in Span(t, q, j)
        BY <4>2, <4>3 DEF Span
      <4> QED BY <2>1, <4>4, CommaInNone
    <3> QED BY <3>1, <3>2
  <2> DEFINE k == j - d
  <2>3. k \in p .. Len(s) /\ d + k = j /\ k \in p + 9 .. p + 19
    BY <1>0, <1>3, <2>1, <2>2
  <2> HIDE DEF k, Fits
  <2>4. Fits(s, p, k)
    BY <1>c, <2>1, <2>3
  <2> QED BY <1>b, <2>3, <2>4 DEF k
<1>7. /\ ~ PhoneStarts(s, i) \/ S = {} => e = 0
      /\ PhoneStarts(s, i) /\ S # {} => e \in S /\ \A k \in S : k <= e
  BY <1>0, PhoneMatch DEF S, p
<1>8. /\ ~ PhoneStarts(t, m) \/ T = {} => f = 0
      /\ PhoneStarts(t, m) /\ T # {} => f \in T /\ \A k \in T : k <= f
  BY <1>0, <1>1, PhoneMatch DEF T, q
<1> HIDE DEF e, f, Fits
<1>9. S = {} <=> T = {}
  BY <1>4, <1>5
<1>10. CASE ~ PhoneStarts(s, i) \/ S = {}
  BY <1>d, <1>7, <1>8, <1>9, <1>10 DEF e, f, m
<1>11. CASE PhoneStarts(s, i) /\ S # {}
  <2>1. e \in S /\ f \in T /\ (\A k \in S : k <= e) /\ \A k \in T : k <= f
    BY <1>d, <1>7, <1>8, <1>9, <1>11
  <2>2. S \in SUBSET Nat /\ T \in SUBSET Nat
    BY <1>e, <1>f
  <2>3. f = d + e
    BY <1>0, <1>4, <1>5, <2>1, <2>2, GreatestShifted
  <2>4. e # 0
    BY <1>e, <2>1
  <2> QED BY <2>3, <2>4 DEF e, f, m
<1> QED BY <1>10, <1>11

----------------------------------------------------------------------------
(* No pattern crosses a comma. *)

LEMMA CommaInside ==
    ASSUME NEW a, NEW b, a \in Seq(Int), b \in Seq(Int)
    PROVE  /\ Inside(a, a \o <<Comma>> \o b, 0)
           /\ Inside(b, a \o <<Comma>> \o b, Len(a) + 1)
<1> DEFINE t == a \o <<Comma>> \o b
           d == Len(a) + 1
<1>0. /\ t \in Seq(Int) /\ Len(a) \in Nat /\ Len(b) \in Nat
      /\ Len(t) = Len(a) + 1 + Len(b)
      /\ \A i \in 1 .. Len(a) : t[i] = a[i]
      /\ t[Len(a) + 1] = Comma
      /\ \A i \in 1 .. Len(b) : t[Len(a) + 1 + i] = b[i]
  BY WithComma
<1> HIDE DEF t
<1>1. CharAt(t, 0) = Comma
  <2>1. 0 \in Int /\ 0 \notin 1 .. Len(t)
    OBVIOUS
  <2> QED BY <1>0, <2>1, Around
<1>2. CharAt(t, d) = Comma
  <2>1. d \in Int /\ d \in 1 .. Len(t)
    BY <1>0
  <2>2. t[d] = Comma
    BY <1>0
  <2> HIDE DEF d
  <2> QED BY <1>0, <2>1, <2>2, Around
<1>3. CharAt(t, d + Len(b) + 1) = Comma
  <2> DEFINE e == d + Len(b) + 1
  <2>1. e \in Int /\ e \notin 1 .. Len(t)
    BY <1>0
  <2> HIDE DEF e
  <2>2. CharAt(t, e) = Comma
    BY <1>0, <2>1, Around
  <2> QED BY <2>2 DEF e
<1>4. Inside(a, t, 0)
  <2>1. 0 \in Nat /\ 0 + Len(a) <= Len(t) /\ 0 + Len(a) + 1 = d /\ \A k \in 1 .. Len(a) : 0 + k = k
    BY <1>0
  <2>2. CharAt(t, 0 + Len(a) + 1) = Comma
    BY <1>2, <2>1
  <2>3. \A k \in 1 .. Len(a) : t[0 + k] = a[k]
    BY <1>0, <2>1
  <2> QED BY <1>0, <1>1, <2>1, <2>2, <2>3 DEF Inside
<1>5. Inside(b, t, d)
  <2>1. d \in Nat /\ d + Len(b) <= Len(t)
    BY <1>0
  <2>2. \A i \in 1 .. Len(b) : t[d + i] = b[i]
    BY <1>0
  <2> HIDE DEF d
  <2> QED BY <1>0, <1>2, <1>3, <2>1, <2>2 DEF Inside
<1> QED BY <1>4, <1>5 DEF t, d

LEMMA CommaUnmatched ==
    ASSUME NEW s, NEW i, s \in Seq(Int), i \in 1 .. Len(s), s[i] = Comma
    PROVE  EmailEnd(s, i) = 0 /\ CardEnd(s, i) = 0 /\ PhoneEnd(s, i) = 0
<1>1. CharAt(s, i) = Comma
  BY Around
<1>2. First(s, i) = i
  BY <1>1, CommaInNone DEF First
<1>3. ~ EmailStarts(s, i) /\ ~ CardStarts(s, i) /\ ~ PhoneStarts(s, i)
  BY <1>1, <1>2, CommaInNone DEF EmailStarts, CardStarts, PhoneStarts
<1> QED BY <1>3, EmailMatch, CardMatch, PhoneMatch

LEMMA EmailAtComma ==
    ASSUME NEW a, NEW b, a \in Seq(Int), b \in Seq(Int)
    PROVE  Substitute(a \o <<Comma>> \o b, EmailEnd, MaskEmail)
             = Substitute(a, EmailEnd, MaskEmail) \o <<Comma>> \o Substitute(b, EmailEnd, MaskEmail)
<1> DEFINE t == a \o <<Comma>> \o b
           d == Len(a) + 1
<1>0. /\ t \in Seq(Int) /\ Len(a) \in Nat /\ Len(b) \in Nat
      /\ Len(t) = Len(a) + 1 + Len(b) /\ t[Len(a) + 1] = Comma
  BY WithComma
<1>1. Inside(a, t, 0) /\ Inside(b, t, d)
  BY CommaInside
<1> HIDE DEF t
<1>2. /\ d \in 1 .. Len(t)
      /\ \A i \in 1 .. Len(a) : i \in 1 .. Len(t) /\ 0 + i = i
      /\ \A i \in 1 .. Len(b) : d + i \in 1 .. Len(t)
      /\ \A i \in 0 .. Len(a) : 0 + i = i
      /\ t[d] = Comma
  BY <1>0
<1> HIDE DEF d
<1>3. EmailEnd(t, d) = 0
  BY <1>0, <1>2, CommaUnmatched
<1>4. \A i \in 1 .. Len(a) : EmailEnd(a, i) \in 0 .. Len(a)
  BY EmailMatch
<1>5. \A i \in 1 .. Len(b) : EmailEnd(b, i) \in 0 .. Len(b)
  BY EmailMatch
<1>6. ASSUME NEW i \in 1 .. Len(a)
      PROVE  /\ EmailEnd(t, i) = EmailEnd(a, i)
             /\ EmailEnd(a, i) # 0 => SubSeq(t, i, EmailEnd(t, i)) = SubSeq(a, i, EmailEnd(a, i))
  <2>1. /\ EmailEnd(a, i) = 0 => EmailEnd(t, 0 + i) = 0
        /\ EmailEnd(a, i) # 0 => EmailEnd(t, 0 + i) = 0 + EmailEnd(a, i)
    BY <1>1, EmailInside
  <2> DEFINE e == EmailEnd(a, i)
  <2>2. e \in 0 .. Len(a) /\ 0 + e = e /\ 0 + i = i
    BY <1>2, <1>4
  <2>3. EmailEnd(t, i) = e
    BY <2>1, <2>2
  <2> HIDE DEF e
  <2>4. Cut(t, 0 + i, 0 + e) = Cut(a, i, e)
    BY <1>1, <2>2, InsideSpan
  <2>5. SubSeq(t, i, e) = SubSeq(a, i, e)
    BY <2>2, <2>4 DEF Cut
  <2> QED BY <2>3, <2>5 DEF e
<1>7. ASSUME NEW i \in 1 .. Len(b)
      PROVE  /\ EmailEnd(b, i) = 0 => EmailEnd(t, d + i) = 0
             /\ EmailEnd(b, i) # 0 => /\ EmailEnd(t, d + i) = d + EmailEnd(b, i)
                                   /\ SubSeq(t, d + i, EmailEnd(t, d + i)) = SubSeq(b, i, EmailEnd(b, i))
  <2>1. /\ EmailEnd(b, i) = 0 => EmailEnd(t, d + i) = 0
        /\ EmailEnd(b, i) # 0 => EmailEnd(t, d + i) = d + EmailEnd(b, i)
    BY <1>1, EmailInside
  <2> DEFINE e == EmailEnd(b, i)
  <2>2. e \in 0 .. Len(b)
    BY <1>5
  <2> HIDE DEF e
  <2>4. Cut(t, d + i, d + e) = Cut(b, i, e)
    BY <1>1, <2>2, InsideSpan
  <2>5. SubSeq(t, d + i, d + e) = SubSeq(b, i, e)
    BY <2>4 DEF Cut
  <2> QED BY <2>1, <2>5 DEF e
<1> DEFINE ends == EmailAt(t)
           masks == EmailMasks(t)
           endsA == EmailAt(a)
           masksA == EmailMasks(a)
           endsB == EmailAt(b)
           masksB == EmailMasks(b)
<1>8. Parted(a, b, ends, masks, endsA, masksA, endsB, masksB)
  <2>1. ASSUME NEW i \in 1 .. Len(a)
        PROVE  ends[i] = endsA[i] /\ (endsA[i] # 0 => masks[i] = masksA[i])
    <3>1. ends[i] = EmailEnd(t, i) /\ masks[i] = MaskEmail(SubSeq(t, i, EmailEnd(t, i)))
      BY <1>2 DEF EmailAt, EmailMasks
    <3>2. endsA[i] = EmailEnd(a, i) /\ masksA[i] = MaskEmail(SubSeq(a, i, EmailEnd(a, i)))
      BY DEF EmailAt, EmailMasks
    <3> HIDE DEF ends, masks, endsA, masksA
    <3> QED BY <1>6, <3>1, <3>2
  <2>2. ends[d] = 0
    BY <1>2, <1>3 DEF EmailAt
  <2>3. ASSUME NEW i \in 1 .. Len(b)
        PROVE  /\ endsB[i] = 0 => ends[d + i] = 0
               /\ endsB[i] # 0 => ends[d + i] = d + endsB[i] /\ masks[d + i] = masksB[i]
    <3> DEFINE m == d + i
    <3>1. m \in 1 .. Len(t)
      BY <1>2
    <3>2. /\ EmailEnd(b, i) = 0 => EmailEnd(t, m) = 0
          /\ EmailEnd(b, i) # 0 => /\ EmailEnd(t, m) = d + EmailEnd(b, i)
                                /\ SubSeq(t, m, EmailEnd(t, m)) = SubSeq(b, i, EmailEnd(b, i))
      BY <1>7
    <3> HIDE DEF m
    <3>3. ends[m] = EmailEnd(t, m) /\ masks[m] = MaskEmail(SubSeq(t, m, EmailEnd(t, m)))
      BY <3>1 DEF EmailAt, EmailMasks
    <3>4. endsB[i] = EmailEnd(b, i) /\ masksB[i] = MaskEmail(SubSeq(b, i, EmailEnd(b, i)))
      BY DEF EmailAt, EmailMasks
    <3> HIDE DEF ends, masks, endsB, masksB
    <3>5. /\ endsB[i] = 0 => ends[m] = 0
          /\ endsB[i] # 0 => ends[m] = d + endsB[i] /\ masks[m] = masksB[i]
      BY <3>2, <3>3, <3>4
    <3> QED BY <3>5 DEF m
  <2> HIDE DEF ends, masks, endsA, masksA, endsB, masksB
  <2> QED BY <2>1, <2>2, <2>3 DEF Parted, d
<1> HIDE DEF ends, masks, endsA, masksA, endsB, masksB
<1>9. Became(Substitute(a, EmailEnd, MaskEmail), a, endsA, masksA)
  BY EmailWalk DEF endsA, masksA
<1>10. Became(Substitute(b, EmailEnd, MaskEmail), b, endsB, masksB)
  BY EmailWalk DEF endsB, masksB
<1>11. Became(Substitute(a \o <<Comma>> \o b, EmailEnd, MaskEmail), a \o <<Comma>> \o b, ends, masks)
  BY <1>0, EmailWalk DEF ends, masks, t
<1> DEFINE out == Substitute(a \o <<Comma>> \o b, EmailEnd, MaskEmail)
           outA == Substitute(a, EmailEnd, MaskEmail)
           outB == Substitute(b, EmailEnd, MaskEmail)
<1>12. Became(out, a \o <<Comma>> \o b, ends, masks) /\ Became(outA, a, endsA, masksA)
       /\ Became(outB, b, endsB, masksB)
  BY <1>9, <1>10, <1>11
<1> HIDE DEF out, outA, outB
<1>13. out = outA \o <<Comma>> \o outB
  BY <1>8, <1>12, ReplacedInParts
<1> QED BY <1>13 DEF out, outA, outB

LEMMA CardAtComma ==
    ASSUME NEW a, NEW b, a \in Seq(Int), b \in Seq(Int)
    PROVE  Substitute(a \o <<Comma>> \o b, CardEnd, MaskCard)
             = Substitute(a, CardEnd, MaskCard) \o <<Comma>> \o Substitute(b, CardEnd, MaskCard)
<1> DEFINE t == a \o <<Comma>> \o b
           d == Len(a) + 1
<1>0. /\ t \in Seq(Int) /\ Len(a) \in Nat /\ Len(b) \in Nat
      /\ Len(t) = Len(a) + 1 + Len(b) /\ t[Len(a) + 1] = Comma
  BY WithComma
<1>1. Inside(a, t, 0) /\ Inside(b, t, d)
  BY CommaInside
<1> HIDE DEF t
<1>2. /\ d \in 1 .. Len(t)
      /\ \A i \in 1 .. Len(a) : i \in 1 .. Len(t) /\ 0 + i = i
      /\ \A i \in 1 .. Len(b) : d + i \in 1 .. Len(t)
      /\ \A i \in 0 .. Len(a) : 0 + i = i
      /\ t[d] = Comma
  BY <1>0
<1> HIDE DEF d
<1>3. CardEnd(t, d) = 0
  BY <1>0, <1>2, CommaUnmatched
<1>4. \A i \in 1 .. Len(a) : CardEnd(a, i) \in 0 .. Len(a)
  BY CardMatch
<1>5. \A i \in 1 .. Len(b) : CardEnd(b, i) \in 0 .. Len(b)
  BY CardMatch
<1>6. ASSUME NEW i \in 1 .. Len(a)
      PROVE  /\ CardEnd(t, i) = CardEnd(a, i)
             /\ CardEnd(a, i) # 0 => SubSeq(t, i, CardEnd(t, i)) = SubSeq(a, i, CardEnd(a, i))
  <2>1. /\ CardEnd(a, i) = 0 => CardEnd(t, 0 + i) = 0
        /\ CardEnd(a, i) # 0 => CardEnd(t, 0 + i) = 0 + CardEnd(a, i)
    BY <1>1, CardInside
  <2> DEFINE e == CardEnd(a, i)
  <2>2. e \in 0 .. Len(a) /\ 0 + e = e /\ 0 + i = i
    BY <1>2, <1>4
  <2>3. CardEnd(t, i) = e
    BY <2>1, <2>2
  <2> HIDE DEF e
  <2>4. Cut(t, 0 + i, 0 + e) = Cut(a, i, e)
    BY <1>1, <2>2, InsideSpan
  <2>5. SubSeq(t, i, e) = SubSeq(a, i, e)
    BY <2>2, <2>4 DEF Cut
  <2> QED BY <2>3, <2>5 DEF e
<1>7. ASSUME NEW i \in 1 .. Len(b)
      PROVE  /\ CardEnd(b, i) = 0 => CardEnd(t, d + i) = 0
             /\ CardEnd(b, i) # 0 => /\ CardEnd(t, d + i) = d + CardEnd(b, i)
                                   /\ SubSeq(t, d + i, CardEnd(t, d + i)) = SubSeq(b, i, CardEnd(b, i))
  <2>1. /\ CardEnd(b, i) = 0 => CardEnd(t, d + i) = 0
        /\ CardEnd(b, i) # 0 => CardEnd(t, d + i) = d + CardEnd(b, i)
    BY <1>1, CardInside
  <2> DEFINE e == CardEnd(b, i)
  <2>2. e \in 0 .. Len(b)
    BY <1>5
  <2> HIDE DEF e
  <2>4. Cut(t, d + i, d + e) = Cut(b, i, e)
    BY <1>1, <2>2, InsideSpan
  <2>5. SubSeq(t, d + i, d + e) = SubSeq(b, i, e)
    BY <2>4 DEF Cut
  <2> QED BY <2>1, <2>5 DEF e
<1> DEFINE ends == CardAt(t)
           masks == CardMasks(t)
           endsA == CardAt(a)
           masksA == CardMasks(a)
           endsB == CardAt(b)
           masksB == CardMasks(b)
<1>8. Parted(a, b, ends, masks, endsA, masksA, endsB, masksB)
  <2>1. ASSUME NEW i \in 1 .. Len(a)
        PROVE  ends[i] = endsA[i] /\ (endsA[i] # 0 => masks[i] = masksA[i])
    <3>1. ends[i] = CardEnd(t, i) /\ masks[i] = MaskCard(SubSeq(t, i, CardEnd(t, i)))
      BY <1>2 DEF CardAt, CardMasks
    <3>2. endsA[i] = CardEnd(a, i) /\ masksA[i] = MaskCard(SubSeq(a, i, CardEnd(a, i)))
      BY DEF CardAt, CardMasks
    <3> HIDE DEF ends, masks, endsA, masksA
    <3> QED BY <1>6, <3>1, <3>2
  <2>2. ends[d] = 0
    BY <1>2, <1>3 DEF CardAt
  <2>3. ASSUME NEW i \in 1 .. Len(b)
        PROVE  /\ endsB[i] = 0 => ends[d + i] = 0
               /\ endsB[i] # 0 => ends[d + i] = d + endsB[i] /\ masks[d + i] = masksB[i]
    <3> DEFINE m == d + i
    <3>1. m \in 1 .. Len(t)
      BY <1>2
    <3>2. /\ CardEnd(b, i) = 0 => CardEnd(t, m) = 0
          /\ CardEnd(b, i) # 0 => /\ CardEnd(t, m) = d + CardEnd(b, i)
                                /\ SubSeq(t, m, CardEnd(t, m)) = SubSeq(b, i, CardEnd(b, i))
      BY <1>7
    <3> HIDE DEF m
    <3>3. ends[m] = CardEnd(t, m) /\ masks[m] = MaskCard(SubSeq(t, m, CardEnd(t, m)))
      BY <3>1 DEF CardAt, CardMasks
    <3>4. endsB[i] = CardEnd(b, i) /\ masksB[i] = MaskCard(SubSeq(b, i, CardEnd(b, i)))
      BY DEF CardAt, CardMasks
    <3> HIDE DEF ends, masks, endsB, masksB
    <3>5. /\ endsB[i] = 0 => ends[m] = 0
          /\ endsB[i] # 0 => ends[m] = d + endsB[i] /\ masks[m] = masksB[i]
      BY <3>2, <3>3, <3>4
    <3> QED BY <3>5 DEF m
  <2> HIDE DEF ends, masks, endsA, masksA, endsB, masksB
  <2> QED BY <2>1, <2>2, <2>3 DEF Parted, d
<1> HIDE DEF ends, masks, endsA, masksA, endsB, masksB
<1>9. Became(Substitute(a, CardEnd, MaskCard), a, endsA, masksA)
  BY CardWalk DEF endsA, masksA
<1>10. Became(Substitute(b, CardEnd, MaskCard), b, endsB, masksB)
  BY CardWalk DEF endsB, masksB
<1>11. Became(Substitute(a \o <<Comma>> \o b, CardEnd, MaskCard), a \o <<Comma>> \o b, ends, masks)
  BY <1>0, CardWalk DEF ends, masks, t
<1> DEFINE out == Substitute(a \o <<Comma>> \o b, CardEnd, MaskCard)
           outA == Substitute(a, CardEnd, MaskCard)
           outB == Substitute(b, CardEnd, MaskCard)
<1>12. Became(out, a \o <<Comma>> \o b, ends, masks) /\ Became(outA, a, endsA, masksA)
       /\ Became(outB, b, endsB, masksB)
  BY <1>9, <1>10, <1>11
<1> HIDE DEF out, outA, outB
<1>13. out = outA \o <<Comma>> \o outB
  BY <1>8, <1>12, ReplacedInParts
<1> QED BY <1>13 DEF out, outA, outB

LEMMA PhoneAtComma ==
    ASSUME NEW a, NEW b, a \in Seq(Int), b \in Seq(Int)
    PROVE  Substitute(a \o <<Comma>> \o b, PhoneEnd, MaskPhone)
             = Substitute(a, PhoneEnd, MaskPhone) \o <<Comma>> \o Substitute(b, PhoneEnd, MaskPhone)
<1> DEFINE t == a \o <<Comma>> \o b
           d == Len(a) + 1
<1>0. /\ t \in Seq(Int) /\ Len(a) \in Nat /\ Len(b) \in Nat
      /\ Len(t) = Len(a) + 1 + Len(b) /\ t[Len(a) + 1] = Comma
  BY WithComma
<1>1. Inside(a, t, 0) /\ Inside(b, t, d)
  BY CommaInside
<1> HIDE DEF t
<1>2. /\ d \in 1 .. Len(t)
      /\ \A i \in 1 .. Len(a) : i \in 1 .. Len(t) /\ 0 + i = i
      /\ \A i \in 1 .. Len(b) : d + i \in 1 .. Len(t)
      /\ \A i \in 0 .. Len(a) : 0 + i = i
      /\ t[d] = Comma
  BY <1>0
<1> HIDE DEF d
<1>3. PhoneEnd(t, d) = 0
  BY <1>0, <1>2, CommaUnmatched
<1>4. \A i \in 1 .. Len(a) : PhoneEnd(a, i) \in 0 .. Len(a)
  BY PhoneMatch
<1>5. \A i \in 1 .. Len(b) : PhoneEnd(b, i) \in 0 .. Len(b)
  BY PhoneMatch
<1>6. ASSUME NEW i \in 1 .. Len(a)
      PROVE  /\ PhoneEnd(t, i) = PhoneEnd(a, i)
             /\ PhoneEnd(a, i) # 0 => SubSeq(t, i, PhoneEnd(t, i)) = SubSeq(a, i, PhoneEnd(a, i))
  <2>1. /\ PhoneEnd(a, i) = 0 => PhoneEnd(t, 0 + i) = 0
        /\ PhoneEnd(a, i) # 0 => PhoneEnd(t, 0 + i) = 0 + PhoneEnd(a, i)
    BY <1>1, PhoneInside
  <2> DEFINE e == PhoneEnd(a, i)
  <2>2. e \in 0 .. Len(a) /\ 0 + e = e /\ 0 + i = i
    BY <1>2, <1>4
  <2>3. PhoneEnd(t, i) = e
    BY <2>1, <2>2
  <2> HIDE DEF e
  <2>4. Cut(t, 0 + i, 0 + e) = Cut(a, i, e)
    BY <1>1, <2>2, InsideSpan
  <2>5. SubSeq(t, i, e) = SubSeq(a, i, e)
    BY <2>2, <2>4 DEF Cut
  <2> QED BY <2>3, <2>5 DEF e
<1>7. ASSUME NEW i \in 1 .. Len(b)
      PROVE  /\ PhoneEnd(b, i) = 0 => PhoneEnd(t, d + i) = 0
             /\ PhoneEnd(b, i) # 0 => /\ PhoneEnd(t, d + i) = d + PhoneEnd(b, i)
                                   /\ SubSeq(t, d + i, PhoneEnd(t, d + i)) = SubSeq(b, i, PhoneEnd(b, i))
  <2>1. /\ PhoneEnd(b, i) = 0 => PhoneEnd(t, d + i) = 0
        /\ PhoneEnd(b, i) # 0 => PhoneEnd(t, d + i) = d + PhoneEnd(b, i)
    BY <1>1, PhoneInside
  <2> DEFINE e == PhoneEnd(b, i)
  <2>2. e \in 0 .. Len(b)
    BY <1>5
  <2> HIDE DEF e
  <2>4. Cut(t, d + i, d + e) = Cut(b, i, e)
    BY <1>1, <2>2, InsideSpan
  <2>5. SubSeq(t, d + i, d + e) = SubSeq(b, i, e)
    BY <2>4 DEF Cut
  <2> QED BY <2>1, <2>5 DEF e
<1> DEFINE ends == PhoneAt(t)
           masks == PhoneMasks(t)
           endsA == PhoneAt(a)
           masksA == PhoneMasks(a)
           endsB == PhoneAt(b)
           masksB == PhoneMasks(b)
<1>8. Parted(a, b, ends, masks, endsA, masksA, endsB, masksB)
  <2>1. ASSUME NEW i \in 1 .. Len(a)
        PROVE  ends[i] = endsA[i] /\ (endsA[i] # 0 => masks[i] = masksA[i])
    <3>1. ends[i] = PhoneEnd(t, i) /\ masks[i] = MaskPhone(SubSeq(t, i, PhoneEnd(t, i)))
      BY <1>2 DEF PhoneAt, PhoneMasks
    <3>2. endsA[i] = PhoneEnd(a, i) /\ masksA[i] = MaskPhone(SubSeq(a, i, PhoneEnd(a, i)))
      BY DEF PhoneAt, PhoneMasks
    <3> HIDE DEF ends, masks, endsA, masksA
    <3> QED BY <1>6, <3>1, <3>2
  <2>2. ends[d] = 0
    BY <1>2, <1>3 DEF PhoneAt
  <2>3. ASSUME NEW i \in 1 .. Len(b)
        PROVE  /\ endsB[i] = 0 => ends[d + i] = 0
               /\ endsB[i] # 0 => ends[d + i] = d + endsB[i] /\ masks[d + i] = masksB[i]
    <3> DEFINE m == d + i
    <3>1. m \in 1 .. Len(t)
      BY <1>2
    <3>2. /\ PhoneEnd(b, i) = 0 => PhoneEnd(t, m) = 0
          /\ PhoneEnd(b, i) # 0 => /\ PhoneEnd(t, m) = d + PhoneEnd(b, i)
                                /\ SubSeq(t, m, PhoneEnd(t, m)) = SubSeq(b, i, PhoneEnd(b, i))
      BY <1>7
    <3> HIDE DEF m
    <3>3. ends[m] = PhoneEnd(t, m) /\ masks[m] = MaskPhone(SubSeq(t, m, PhoneEnd(t, m)))
      BY <3>1 DEF PhoneAt, PhoneMasks
    <3>4. endsB[i] = PhoneEnd(b, i) /\ masksB[i] = MaskPhone(SubSeq(b, i, PhoneEnd(b, i)))
      BY DEF PhoneAt, PhoneMasks
    <3> HIDE DEF ends, masks, endsB, masksB
    <3>5. /\ endsB[i] = 0 => ends[m] = 0
          /\ endsB[i] # 0 => ends[m] = d + endsB[i] /\ masks[m] = masksB[i]
      BY <3>2, <3>3, <3>4
    <3> QED BY <3>5 DEF m
  <2> HIDE DEF ends, masks, endsA, masksA, endsB, masksB
  <2> QED BY <2>1, <2>2, <2>3 DEF Parted, d
<1> HIDE DEF ends, masks, endsA, masksA, endsB, masksB
<1>9. Became(Substitute(a, PhoneEnd, MaskPhone), a, endsA, masksA)
  BY PhoneWalk DEF endsA, masksA
<1>10. Became(Substitute(b, PhoneEnd, MaskPhone), b, endsB, masksB)
  BY PhoneWalk DEF endsB, masksB
<1>11. Became(Substitute(a \o <<Comma>> \o b, PhoneEnd, MaskPhone), a \o <<Comma>> \o b, ends, masks)
  BY <1>0, PhoneWalk DEF ends, masks, t
<1> DEFINE out == Substitute(a \o <<Comma>> \o b, PhoneEnd, MaskPhone)
           outA == Substitute(a, PhoneEnd, MaskPhone)
           outB == Substitute(b, PhoneEnd, MaskPhone)
<1>12. Became(out, a \o <<Comma>> \o b, ends, masks) /\ Became(outA, a, endsA, masksA)
       /\ Became(outB, b, endsB, masksB)
  BY <1>9, <1>10, <1>11
<1> HIDE DEF out, outA, outB
<1>13. out = outA \o <<Comma>> \o outB
  BY <1>8, <1>12, ReplacedInParts
<1> QED BY <1>13 DEF out, outA, outB

LEMMA SubstituteTypes ==
    ASSUME NEW s, s \in Seq(Int)
    PROVE  /\ Substitute(s, EmailEnd, MaskEmail) \in Seq(Int)
           /\ Substitute(s, CardEnd, MaskCard) \in Seq(Int)
           /\ Substitute(s, PhoneEnd, MaskPhone) \in Seq(Int)
<1>1. ASSUME NEW out, NEW ends, NEW masks, Became(out, s, ends, masks) PROVE out \in Seq(Int)
  <2>1. PICK h : Replaces(h, s, ends, masks) /\ out = h[1]
    BY <1>1 DEF Became
  <2>2. 1 \in 1 .. Len(s) + 1
    BY LenProperties
  <2> QED BY <2>1, <2>2 DEF Replaces
<1>2. /\ Became(Substitute(s, EmailEnd, MaskEmail), s, EmailAt(s), EmailMasks(s))
      /\ Became(Substitute(s, CardEnd, MaskCard), s, CardAt(s), CardMasks(s))
      /\ Became(Substitute(s, PhoneEnd, MaskPhone), s, PhoneAt(s), PhoneMasks(s))
  BY EmailWalk, CardWalk, PhoneWalk
<1> QED BY <1>1, <1>2

\* Whatever two texts are, nothing of one is masked because of the other when there
\* is a comma between them, or any other character that no pattern has a use for.
THEOREM NothingCrossesComma ==
    ASSUME NEW a \in Seq(Int), NEW b \in Seq(Int)
    PROVE  MaskText(a \o <<Comma>> \o b) = MaskText(a) \o <<Comma>> \o MaskText(b)
<1> DEFINE a1 == Substitute(a, EmailEnd, MaskEmail)
           b1 == Substitute(b, EmailEnd, MaskEmail)
           a2 == Substitute(a1, CardEnd, MaskCard)
           b2 == Substitute(b1, CardEnd, MaskCard)
<1>1. Substitute(a \o <<Comma>> \o b, EmailEnd, MaskEmail) = a1 \o <<Comma>> \o b1
  BY EmailAtComma
<1>2. a1 \in Seq(Int) /\ b1 \in Seq(Int)
  BY SubstituteTypes
<1>3. MaskText(a) = Substitute(a2, PhoneEnd, MaskPhone)
      /\ MaskText(b) = Substitute(b2, PhoneEnd, MaskPhone)
  BY DEF MaskText
<1>4. MaskText(a \o <<Comma>> \o b)
        = Substitute(Substitute(a1 \o <<Comma>> \o b1, CardEnd, MaskCard), PhoneEnd, MaskPhone)
  BY <1>1 DEF MaskText
<1> HIDE DEF a1, b1
<1>5. Substitute(a1 \o <<Comma>> \o b1, CardEnd, MaskCard) = a2 \o <<Comma>> \o b2
  BY <1>2, CardAtComma
<1>6. a2 \in Seq(Int) /\ b2 \in Seq(Int)
  BY <1>2, SubstituteTypes
<1> HIDE DEF a2, b2
<1>7. Substitute(a2 \o <<Comma>> \o b2, PhoneEnd, MaskPhone)
        = Substitute(a2, PhoneEnd, MaskPhone) \o <<Comma>> \o Substitute(b2, PhoneEnd, MaskPhone)
  BY <1>6, PhoneAtComma
<1> QED BY <1>3, <1>4, <1>5, <1>7

----------------------------------------------------------------------------
(* The digits of a text and of its parts. *)

LEMMA DigitsType ==
    ASSUME NEW s, s \in Seq(Int)
    PROVE  Digits(s) \in Seq(Int) /\ Len(Digits(s)) \in Nat
<1>1. Digits(s) \in Seq(Int)
  BY OnlyType DEF Digits
<1> QED BY <1>1, LenProperties

LEMMA DigitsAppend ==
    ASSUME NEW E, NEW s \in Seq(E), NEW x \in E
    PROVE  /\ x \in Digit => Digits(Append(s, x)) = Append(Digits(s), x)
           /\ x \notin Digit => Digits(Append(s, x)) = Digits(s)
<1> DEFINE set == Digit
<1> HIDE DEF set
<1>1. /\ x \in set => Only(Append(s, x), set) = Append(Only(s, set), x)
      /\ x \notin set => Only(Append(s, x), set) = Only(s, set)
  BY OnlyAppend
<1> QED BY <1>1 DEF Digits, set

LEMMA DigitsOfTwo ==
    ASSUME NEW a, NEW b, a \in Seq(Int), b \in Seq(Int)
    PROVE  /\ Digits(a \o b) = Digits(a) \o Digits(b)
           /\ Len(Digits(a \o b)) = Len(Digits(a)) + Len(Digits(b))
<1>1. Digits(a \o b) = Digits(a) \o Digits(b)
  BY OnlyConcat DEF Digits
<1>2. Digits(a) \in Seq(Int) /\ Digits(b) \in Seq(Int)
  BY DigitsType
<1> HIDE DEF Digits
<1> QED BY <1>1, <1>2, ConcatProperties

LEMMA DigitsOfOne ==
    ASSUME NEW c \in Int
    PROVE  c \notin Digit => Digits(<<c>>) = <<>>
<1>1. <<>> \in Seq(Int) /\ Append(<<>>, c) = <<c>>
  BY EmptySeq
<1>2. c \notin Digit => Only(Append(<<>>, c), Digit) = Only(<<>>, Digit)
  BY <1>1, OnlyAppend
<1> QED BY <1>1, <1>2, OnlyEmpty DEF Digits

\* A text is what is before a part, the part, and what is behind it.
PartOf(b, s) == b \in Seq(Int) /\ \E a, c \in Seq(Int) : (a \o b) \o c = s

LEMMA AroundPart ==
    ASSUME NEW s, NEW i, NEW j, s \in Seq(Int), i \in 1 .. Len(s), j \in i .. Len(s)
    PROVE  PartOf(Cut(s, i, j), s)
<1> DEFINE n == Len(s)
<1>0. n \in Nat /\ i \in Nat /\ j \in Nat
  BY LenProperties
<1>1. 1 \in 1 .. n + 1 /\ i - 1 \in 1 - 1 .. n /\ j \in i - 1 .. n /\ j \in 1 - 1 .. n /\ n \in j .. n
      /\ (i - 1) + 1 = i /\ 1 \in 1 .. n
  BY <1>0
<1>2. SubSeq(s, 1, i - 1) \o SubSeq(s, i, j) = SubSeq(s, 1, j)
  <2> DEFINE k == i - 1
  <2>1. k \in 1 - 1 .. n /\ j \in k .. n /\ k + 1 = i
    BY <1>0, <1>1
  <2> HIDE DEF k
  <2>2. SubSeq(s, 1, k) \o SubSeq(s, k + 1, j) = SubSeq(s, 1, j)
    BY <1>1, <2>1, ConcatAdjacentSubSeq
  <2> QED BY <2>1, <2>2 DEF k
<1>3. SubSeq(s, 1, j) \o SubSeq(s, j + 1, n) = SubSeq(s, 1, n)
  BY <1>1, ConcatAdjacentSubSeq
<1>4. SubSeq(s, 1, n) = s
  BY SubSeqFull
<1>5. SubSeq(s, 1, i - 1) \in Seq(Int)
  <2>1. i - 1 \in 0 .. n
    BY <1>0
  <2> QED BY <1>1, <2>1, PartType
<1>6. SubSeq(s, i, j) \in Seq(Int)
  <2>1. j \in 0 .. n
    BY <1>0
  <2> QED BY <2>1, PartType
<1>7. SubSeq(s, j + 1, n) \in Seq(Int)
  <2>1. CASE j = n
    <3>1. j + 1 \in Int /\ n \in Int /\ n < j + 1
      BY <1>0, <2>1
    <3>2. SubSeq(s, j + 1, n) = <<>>
      BY <3>1, SubSeqEmpty
    <3> QED BY <3>2, EmptySeq
  <2>2. CASE j # n
    <3>1. j + 1 \in 1 .. n /\ n \in 0 .. n
      BY <1>0, <2>2
    <3> QED BY <3>1, PartType
  <2> QED BY <2>1, <2>2
<1> QED BY <1>2, <1>3, <1>4, <1>5, <1>6, <1>7, Zenon DEF Cut, PartOf

\* A part has no more digits.
LEMMA DigitsOfPart ==
    ASSUME NEW s, NEW i, NEW j, s \in Seq(Int), i \in 1 .. Len(s), j \in i .. Len(s)
    PROVE  Len(Digits(Cut(s, i, j))) <= Len(Digits(s))
<1> DEFINE b == Cut(s, i, j)
<1>0. PartOf(b, s)
  BY AroundPart
<1> HIDE DEF b
<1>1. PICK a, c \in Seq(Int) : (a \o b) \o c = s /\ b \in Seq(Int)
  BY <1>0 DEF PartOf
<1>2. a \o b \in Seq(Int)
  BY <1>1, ConcatProperties
<1>3. Len(Digits(a \o b)) = Len(Digits(a)) + Len(Digits(b))
  BY <1>1, DigitsOfTwo
<1>4. Len(Digits(s)) = Len(Digits(a \o b)) + Len(Digits(c))
  BY <1>1, <1>2, DigitsOfTwo
<1>5. Len(Digits(a)) \in Nat /\ Len(Digits(b)) \in Nat /\ Len(Digits(c)) \in Nat
  BY <1>1, DigitsType
<1> QED BY <1>3, <1>4, <1>5 DEF b

\* It has no more digits than characters, and as many only when it is digits.
LEMMA DigitsShorter ==
    ASSUME NEW s, s \in Seq(Int)
    PROVE  /\ Len(Digits(s)) <= Len(s)
           /\ Len(Digits(s)) = Len(s) => ToSet(s) \subseteq Digit
<1> DEFINE P == {r \in Seq(Int) : /\ Len(Digits(r)) <= Len(r)
                                  /\ Len(Digits(r)) = Len(r) => ToSet(r) \subseteq Digit}
<1> HIDE DEF P
<1>1. <<>> \in P
  <2>1. Digits(<<>>) = <<>> /\ ToSet(<<>>) = {} /\ <<>> \in Seq(Int) /\ Len(<<>>) = 0
    BY OnlyEmpty, EmptySeq DEF Digits, ToSet
  <2> QED BY <2>1 DEF P
<1>2. ASSUME NEW r \in Seq(Int), NEW x \in Int, r \in P PROVE Append(r, x) \in P
  <2> DEFINE t == Append(r, x)
             d == Digits(r)
             e == Digits(t)
  <2>1. t \in Seq(Int) /\ Len(t) = Len(r) + 1
    BY AppendProperties
  <2>2. d \in Seq(Int) /\ Len(d) \in Nat /\ Len(r) \in Nat
    BY DigitsType, LenProperties
  <2>3. /\ x \in Digit => e = Append(d, x)
        /\ x \notin Digit => e = d
    BY DigitsAppend
  <2>4. Len(Append(d, x)) = Len(d) + 1
    BY <2>2, AppendProperties
  <2>5. ToSet(t) = ToSet(r) \cup {x}
    BY ElementsAppend
  <2>6. Len(d) <= Len(r) /\ (Len(d) = Len(r) => ToSet(r) \subseteq Digit)
    BY <1>2 DEF P
  <2> HIDE DEF t, d, e
  <2>7. Len(e) <= Len(t) /\ (Len(e) = Len(t) => ToSet(t) \subseteq Digit)
    <3>1. CASE x \in Digit
      <4>1. Len(e) = Len(d) + 1
        BY <2>3, <2>4, <3>1
      <4> QED BY <2>1, <2>2, <2>5, <2>6, <3>1, <4>1
    <3>2. CASE x \notin Digit
      <4>1. Len(e) = Len(d) /\ Len(d) < Len(t)
        BY <2>1, <2>2, <2>3, <2>6, <3>2
      <4>2. Len(t) \in Nat
        BY <2>1, <2>2
      <4> QED BY <2>2, <4>1, <4>2
    <3> QED BY <3>1, <3>2
  <2> QED BY <2>1, <2>7 DEF P, t, e
<1>3. s \in P
  BY <1>1, <1>2, SequenceInduction
<1> QED BY <1>3 DEF P

----------------------------------------------------------------------------
(* Texts that stay, and texts that are matched as a whole. *)

LEMMA EmailUntouched ==
    ASSUME NEW s, s \in Seq(Int), AtDomain \notin ToSet(s)
    PROVE  Substitute(s, EmailEnd, MaskEmail) = s
<1>0. Len(s) \in Nat /\ DOMAIN s = 1 .. Len(s)
  BY LenProperties
<1>1. ASSUME NEW i \in 1 .. Len(s) PROVE EmailEnd(s, i) = 0
  <2>1. \A j \in i + 1 .. Len(s) : s[j] # AtDomain
    <3>1. \A j \in i + 1 .. Len(s) : j \in DOMAIN s
      BY <1>0
    <3> QED BY <3>1 DEF ToSet
  <2>2. EmailEnds(s, i) = {}
    BY <2>1 DEF EmailEnds
  <2> QED BY <2>2, EmailMatch
<1> DEFINE out == Substitute(s, EmailEnd, MaskEmail)
           ends == EmailAt(s)
           masks == EmailMasks(s)
<1>2. Became(out, s, ends, masks)
  BY EmailWalk
<1>3. \A i \in 1 .. Len(s) : ends[i] = 0
  BY <1>1 DEF EmailAt
<1> HIDE DEF out, ends, masks
<1>4. PICK h : Replaces(h, s, ends, masks) /\ out = h[1]
  BY <1>2 DEF Became
<1>5. Matched(s, ends, masks)
  BY <1>2 DEF Became
<1>6. h[1] = s
  BY <1>3, <1>4, <1>5, Untouched
<1> QED BY <1>4, <1>6 DEF out

LEMMA CardUntouched ==
    ASSUME NEW s, s \in Seq(Int),
           \A i \in 1 .. Len(s) : \A j \in CardEnds(s, i) :
               CardStarts(s, i) => MaskCard(Cut(s, i, j)) = Cut(s, i, j)
    PROVE  Substitute(s, CardEnd, MaskCard) = s
<1> DEFINE out == Substitute(s, CardEnd, MaskCard)
           ends == CardAt(s)
           masks == CardMasks(s)
<1>1. Became(out, s, ends, masks)
  BY CardWalk
<1>2. ASSUME NEW i \in 1 .. Len(s), CardEnd(s, i) # 0
      PROVE  MaskCard(SubSeq(s, i, CardEnd(s, i))) = SubSeq(s, i, CardEnd(s, i))
  <2>1. CardStarts(s, i) /\ CardEnd(s, i) \in CardEnds(s, i)
    BY <1>2, CardMatch
  <2> QED BY <2>1 DEF Cut
<1>3. \A i \in 1 .. Len(s) : ends[i] # 0 => masks[i] = SubSeq(s, i, ends[i])
  BY <1>2 DEF CardAt, CardMasks
<1> HIDE DEF out, ends, masks
<1>4. PICK h : Replaces(h, s, ends, masks) /\ out = h[1]
  BY <1>1 DEF Became
<1>5. Matched(s, ends, masks)
  BY <1>1 DEF Became
<1>6. h[1] = s
  BY <1>3, <1>4, <1>5, Untouched
<1> QED BY <1>4, <1>6 DEF out

LEMMA PhoneUntouched ==
    ASSUME NEW s, s \in Seq(Int),
           \A i \in 1 .. Len(s) : \A j \in PhoneEnds(s, First(s, i)) :
               PhoneStarts(s, i) /\ j \in i .. Len(s) => MaskPhone(Cut(s, i, j)) = Cut(s, i, j)
    PROVE  Substitute(s, PhoneEnd, MaskPhone) = s
<1> DEFINE out == Substitute(s, PhoneEnd, MaskPhone)
           ends == PhoneAt(s)
           masks == PhoneMasks(s)
<1>1. Became(out, s, ends, masks)
  BY PhoneWalk
<1>2. ASSUME NEW i \in 1 .. Len(s), PhoneEnd(s, i) # 0
      PROVE  MaskPhone(SubSeq(s, i, PhoneEnd(s, i))) = SubSeq(s, i, PhoneEnd(s, i))
  <2> DEFINE e == PhoneEnd(s, i)
  <2>1. PhoneStarts(s, i) /\ e \in PhoneEnds(s, First(s, i)) /\ e \in 0 .. Len(s) /\ i <= e
    BY <1>2, PhoneMatch
  <2> HIDE DEF e
  <2>2. e \in i .. Len(s)
    BY <2>1, LenProperties
  <2>3. MaskPhone(SubSeq(s, i, e)) = SubSeq(s, i, e)
    BY <2>1, <2>2 DEF Cut
  <2> QED BY <2>3 DEF e
<1>3. \A i \in 1 .. Len(s) : ends[i] # 0 => masks[i] = SubSeq(s, i, ends[i])
  BY <1>2 DEF PhoneAt, PhoneMasks
<1> HIDE DEF out, ends, masks
<1>4. PICK h : Replaces(h, s, ends, masks) /\ out = h[1]
  BY <1>1 DEF Became
<1>5. Matched(s, ends, masks)
  BY <1>1 DEF Became
<1>6. h[1] = s
  BY <1>3, <1>4, <1>5, Untouched
<1> QED BY <1>4, <1>6 DEF out

\* What holds no address and less digits than a phone number has.
LEMMA NoneMasked ==
    ASSUME NEW s, s \in Seq(Int), Len(Digits(s)) < 10
    PROVE  /\ Substitute(s, CardEnd, MaskCard) = s
           /\ Substitute(s, PhoneEnd, MaskPhone) = s
           /\ AtDomain \notin ToSet(s) => MaskText(s) = s
<1>0. Len(s) \in Nat /\ Len(Digits(s)) \in Nat
  BY LenProperties, DigitsType
<1>1. ASSUME NEW i \in 1 .. Len(s), NEW j \in i .. Len(s)
      PROVE  Len(Digits(Cut(s, i, j))) \in Nat /\ Len(Digits(Cut(s, i, j))) < 10
  <2>1. Len(Digits(Cut(s, i, j))) <= Len(Digits(s))
    BY DigitsOfPart
  <2>2. Cut(s, i, j) \in Seq(Int)
    BY AroundPart DEF PartOf
  <2>3. Len(Digits(Cut(s, i, j))) \in Nat
    BY <2>2, DigitsType
  <2> QED BY <1>0, <2>1, <2>3
<1>2. Substitute(s, CardEnd, MaskCard) = s
  <2>1. ASSUME NEW i \in 1 .. Len(s), NEW j \in CardEnds(s, i) PROVE FALSE
    <3>1. j \in i .. Len(s) /\ Len(Digits(Cut(s, i, j))) \in 13 .. 19
      BY DEF CardEnds, Cut
    <3> DEFINE l == Len(Digits(Cut(s, i, j)))
    <3>2. l \in Nat /\ l < 10 /\ l \in 13 .. 19
      BY <1>1, <3>1
    <3> HIDE DEF l
    <3> QED BY <3>2
  <2> QED BY <2>1, CardUntouched
<1>3. Substitute(s, PhoneEnd, MaskPhone) = s
  <2>1. ASSUME NEW i \in 1 .. Len(s), NEW j \in i .. Len(s)
        PROVE  MaskPhone(Cut(s, i, j)) = Cut(s, i, j)
    <3> DEFINE l == Len(Digits(Cut(s, i, j)))
    <3>0. l \in Nat /\ l < 10
      BY <1>1
    <3> HIDE DEF l
    <3>1. l \notin 10 .. 15
      BY <3>0
    <3> QED BY <3>1 DEF MaskPhone, l
  <2> QED BY <2>1, PhoneUntouched
<1>4. AtDomain \notin ToSet(s) => Substitute(s, EmailEnd, MaskEmail) = s
  BY EmailUntouched
<1> QED BY <1>2, <1>3, <1>4 DEF MaskText

LEMMA EmailWhole ==
    ASSUME NEW s, s \in Seq(Int), s # <<>>, EmailEnd(s, 1) = Len(s)
    PROVE  Substitute(s, EmailEnd, MaskEmail) = <<MaskedEmail>>
<1> DEFINE out == Substitute(s, EmailEnd, MaskEmail)
           ends == EmailAt(s)
           masks == EmailMasks(s)
<1>1. Became(out, s, ends, masks)
  BY EmailWalk
<1>2. 1 \in 1 .. Len(s)
  BY EmptySeq, LenProperties
<1>3. ends[1] = Len(s) /\ masks[1] = <<MaskedEmail>>
  BY <1>2 DEF EmailAt, EmailMasks, MaskEmail
<1> HIDE DEF out, ends, masks
<1>4. ToEnd(out, s, ends, masks)
  BY <1>1, MatchedToEnd
<1> QED BY <1>3, <1>4 DEF ToEnd, out

LEMMA CardWhole ==
    ASSUME NEW s, s \in Seq(Int), s # <<>>
    PROVE  /\ CardEnd(s, 1) = Len(s) => Substitute(s, CardEnd, MaskCard) = MaskCard(s)
           /\ Len(s) > 1 /\ CardEnd(s, 1) = 0 /\ CardEnd(s, 2) = Len(s) =>
                 Substitute(s, CardEnd, MaskCard) = <<s[1]>> \o MaskCard(Cut(s, 2, Len(s)))
<1> DEFINE out == Substitute(s, CardEnd, MaskCard)
           ends == CardAt(s)
           masks == CardMasks(s)
<1>1. Became(out, s, ends, masks)
  BY CardWalk
<1>2. Len(s) \in Nat /\ 1 \in 1 .. Len(s) /\ (Len(s) > 1 => 2 \in 1 .. Len(s))
  BY EmptySeq, LenProperties
<1>3. ends[1] = CardEnd(s, 1) /\ masks[1] = MaskCard(SubSeq(s, 1, CardEnd(s, 1)))
  BY <1>2 DEF CardAt, CardMasks
<1>4. Len(s) > 1 => ends[2] = CardEnd(s, 2) /\ masks[2] = MaskCard(SubSeq(s, 2, CardEnd(s, 2)))
  BY <1>2 DEF CardAt, CardMasks
<1> HIDE DEF out, ends, masks
<1>5. ToEnd(out, s, ends, masks)
  BY <1>1, MatchedToEnd
<1>9. SubSeq(s, 1, Len(s)) = s
  BY SubSeqFull
<1>10. CardEnd(s, 1) = Len(s) => out = MaskCard(s)
  BY <1>3, <1>5, <1>9 DEF ToEnd
<1>11. Len(s) > 1 /\ CardEnd(s, 1) = 0 /\ CardEnd(s, 2) = Len(s) =>
          out = <<s[1]>> \o MaskCard(Cut(s, 2, Len(s)))
  BY <1>3, <1>4, <1>5 DEF ToEnd, Cut
<1> QED BY <1>10, <1>11 DEF out

LEMMA PhoneWhole ==
    ASSUME NEW s, s \in Seq(Int), s # <<>>, PhoneEnd(s, 1) = Len(s)
    PROVE  Substitute(s, PhoneEnd, MaskPhone) = MaskPhone(s)
<1> DEFINE out == Substitute(s, PhoneEnd, MaskPhone)
           ends == PhoneAt(s)
           masks == PhoneMasks(s)
<1>1. Became(out, s, ends, masks)
  BY PhoneWalk
<1>2. 1 \in 1 .. Len(s)
  BY EmptySeq, LenProperties
<1>3. ends[1] = Len(s) /\ masks[1] = MaskPhone(s)
  <2>1. SubSeq(s, 1, Len(s)) = s
    BY SubSeqFull
  <2>2. ends[1] = Len(s)
    BY <1>2 DEF PhoneAt
  <2>3. masks[1] = MaskPhone(SubSeq(s, 1, PhoneEnd(s, 1)))
    BY <1>2 DEF PhoneMasks
  <2> QED BY <2>1, <2>2, <2>3
<1> HIDE DEF out, ends, masks
<1>4. ToEnd(out, s, ends, masks)
  BY <1>1, MatchedToEnd
<1> QED BY <1>3, <1>4 DEF ToEnd, out

----------------------------------------------------------------------------
(* What is left of addresses and numbers, and of texts that are neither. *)

LEMMA FewDigits ==
    ASSUME NEW c \in Int, c \notin Digit
    PROVE  /\ <<c>> \in Seq(Int) /\ ToSet(<<c>>) = {c} /\ Digits(<<c>>) = <<>>
           /\ Len(Digits(<<c>>)) = 0
<1>1. <<>> \in Seq(Int) /\ Append(<<>>, c) = <<c>> /\ Len(<<>>) = 0
  BY EmptySeq
<1>2. ToSet(<<>>) = {} /\ ToSet(Append(<<>>, c)) = ToSet(<<>>) \cup {c}
  BY <1>1, ElementsAppend, ZenonT(30)
<1> QED BY <1>1, <1>2, OneCharacter, DigitsOfOne

\* No mask is masked again.
LEMMA MasksStay ==
    /\ MaskText(<<MaskedEmail>>) = <<MaskedEmail>>
    /\ \A front \in {<<>>, <<Plus>>} :
          /\ front \o <<MaskedCard>> \in Seq(Int)
          /\ Substitute(front \o <<MaskedCard>>, PhoneEnd, MaskPhone) = front \o <<MaskedCard>>
          /\ MaskText(front \o <<MaskedCard>>) = front \o <<MaskedCard>>
<1>0. \A c \in {MaskedEmail, MaskedCard, Plus} : c \in Int /\ c \notin Digit /\ c # AtDomain
  BY DEF MaskedEmail, MaskedCard, Plus, Digit, AtDomain
<1>1. \A c \in {MaskedEmail, MaskedCard, Plus} :
         /\ <<c>> \in Seq(Int) /\ ToSet(<<c>>) = {c} /\ Len(Digits(<<c>>)) = 0
  BY <1>0, FewDigits
<1>2. MaskText(<<MaskedEmail>>) = <<MaskedEmail>>
  <2> DEFINE s == <<MaskedEmail>>
  <2>1. s \in Seq(Int) /\ Len(Digits(s)) < 10 /\ AtDomain \notin ToSet(s)
    BY <1>0, <1>1
  <2> HIDE DEF s
  <2>2. MaskText(s) = s
    BY <2>1, NoneMasked
  <2> QED BY <2>2 DEF s
<1>3. ASSUME NEW front \in {<<>>, <<Plus>>}
      PROVE  /\ front \o <<MaskedCard>> \in Seq(Int)
             /\ Substitute(front \o <<MaskedCard>>, PhoneEnd, MaskPhone) = front \o <<MaskedCard>>
             /\ MaskText(front \o <<MaskedCard>>) = front \o <<MaskedCard>>
  <2> DEFINE c == <<MaskedCard>>
             s == front \o c
  <2>1. /\ front \in Seq(Int) /\ ToSet(front) \subseteq {Plus} /\ Len(Digits(front)) = 0
    <3>1. <<>> \in Seq(Int) /\ ToSet(<<>>) = {} /\ Digits(<<>>) = <<>> /\ Len(<<>>) = 0
      BY EmptySeq, OnlyEmpty DEF Digits, ToSet
    <3> QED BY <1>1, <3>1
  <2>2. c \in Seq(Int) /\ ToSet(c) = {MaskedCard} /\ Len(Digits(c)) = 0
    BY <1>1
  <2> HIDE DEF c
  <2>3. s \in Seq(Int) /\ ToSet(s) = ToSet(front) \cup ToSet(c)
    BY <2>1, <2>2, ConcatProperties, ElementsConcat
  <2>4. Len(Digits(s)) = Len(Digits(front)) + Len(Digits(c))
    BY <2>1, <2>2, DigitsOfTwo
  <2>5. AtDomain \notin ToSet(s) /\ Len(Digits(s)) < 10
    BY <1>0, <2>1, <2>2, <2>3, <2>4
  <2> HIDE DEF s
  <2>6. Substitute(s, PhoneEnd, MaskPhone) = s
    BY <2>3, <2>5, NoneMasked
  <2>7. MaskText(s) = s
    BY <2>3, <2>5, NoneMasked
  <2> QED BY <2>3, <2>6, <2>7 DEF s, c
<1> QED BY <1>2, <1>3

LEMMA PhoneMaskStays ==
    ASSUME NEW x \in Int, NEW y \in Int, x # AtDomain, y # AtDomain
    PROVE  MaskText(<<MaskedPhone, x, y>>) = <<MaskedPhone, x, y>>
<1> DEFINE s == <<MaskedPhone, x, y>>
<1>1. MaskedPhone \in Int /\ MaskedPhone # AtDomain
  BY DEF MaskedPhone, AtDomain
<1>2. s \in Seq(Int) /\ Len(s) = 3 /\ DOMAIN s = 1 .. 3
  <2>1. s \in [1 .. 3 -> Int]
    BY <1>1
  <2> QED BY <1>1
<1>3. AtDomain \notin ToSet(s)
  <2>1. s[1] = MaskedPhone /\ s[2] = x /\ s[3] = y
    OBVIOUS
  <2>2. \A i \in 1 .. 3 : i = 1 \/ i = 2 \/ i = 3
    OBVIOUS
  <2> HIDE DEF s
  <2>3. \A i \in DOMAIN s : s[i] # AtDomain
    BY <1>1, <1>2, <2>1, <2>2
  <2> QED BY <2>3 DEF ToSet
<1> HIDE DEF s
<1>4. Len(Digits(s)) < 10
  <2>1. Len(Digits(s)) <= 3 /\ Len(Digits(s)) \in Nat
    BY <1>2, DigitsShorter, DigitsType
  <2> QED BY <2>1
<1>5. MaskText(s) = s
  BY <1>2, <1>3, <1>4, NoneMasked
<1> QED BY <1>5 DEF s

LEMMA AddressMasked ==
    ASSUME NEW p, p \in Seq(Int), IsAddress(p)
    PROVE  MaskText(p) = <<MaskedEmail>> /\ AtDomain \in ToSet(p)
<1> DEFINE n == Len(p)
<1>0. n \in Nat /\ n > 1 /\ DOMAIN p = 1 .. n /\ p # <<>>
  BY LenProperties, EmptySeq DEF IsAddress
<1>1. p[1] \in WordChar /\ p[n] = AtDomain /\ Span(p, 1, n - 1) \subseteq LocalChar
  BY DEF IsAddress
<1>2. AtDomain \in ToSet(p)
  <2>1. n \in DOMAIN p
    BY <1>0
  <2> QED BY <1>1, <2>1 DEF ToSet
<1>3. \A k \in 1 .. n - 1 : p[k] \in LocalChar
  BY <1>1 DEF Span
<1>4. AtDomain \notin LocalChar
  BY DEF AtDomain, LocalChar, Digit, Letter, Dash, Plus
<1>5. EmailStarts(p, 1)
  <2>1. 1 \in 1 .. n - 1 /\ 1 \in 1 .. Len(p) /\ 0 \notin 1 .. Len(p) /\ 0 \in Int /\ 1 \in Int
        /\ 1 - 1 = 0
    BY <1>0
  <2>2. CharAt(p, 1) = p[1] /\ CharAt(p, 1 - 1) = Comma
    BY <2>1, Around
  <2>3. p[1] \in LocalChar
    BY <1>3, <2>1
  <2> QED BY <1>1, <2>2, <2>3, CommaInNone DEF EmailStarts
<1>6. EmailEnds(p, 1) = {n}
  <2>1. n \in EmailEnds(p, 1)
    <3>1. n \in 1 + 1 .. Len(p)
      BY <1>0
    <3> QED BY <1>1, <3>1 DEF EmailEnds
  <2>2. ASSUME NEW j \in EmailEnds(p, 1) PROVE j = n
    <3>1. j \in 1 + 1 .. n /\ p[j] = AtDomain
      BY DEF EmailEnds
    <3> HIDE DEF n
    <3>2. j # n => j \in 1 .. n - 1
      BY <1>0, <3>1
    <3> QED BY <1>3, <1>4, <3>1, <3>2
  <2> QED BY <2>1, <2>2
<1>7. EmailEnd(p, 1) = n
  <2>1. 1 \in 1 .. Len(p)
    BY <1>0
  <2> HIDE DEF n
  <2>2. EmailEnd(p, 1) \in EmailEnds(p, 1)
    BY <1>5, <1>6, <2>1, EmailMatch
  <2> QED BY <1>6, <2>2
<1>8. Substitute(p, EmailEnd, MaskEmail) = <<MaskedEmail>>
  BY <1>0, <1>7, EmailWhole
<1>9. Substitute(Substitute(<<MaskedEmail>>, CardEnd, MaskCard), PhoneEnd, MaskPhone) = <<MaskedEmail>>
  <2> DEFINE s == <<MaskedEmail>>
  <2>1. MaskedEmail \in Int /\ MaskedEmail \notin Digit
    BY DEF MaskedEmail, Digit
  <2>2. s \in Seq(Int) /\ Len(Digits(s)) < 10
    BY <2>1, FewDigits
  <2> HIDE DEF s
  <2>3. Substitute(s, CardEnd, MaskCard) = s
    BY <2>2, NoneMasked
  <2>4. Substitute(s, PhoneEnd, MaskPhone) = s
    BY <2>2, NoneMasked
  <2> QED BY <2>3, <2>4 DEF s
<1> QED BY <1>2, <1>8, <1>9 DEF MaskText

\* The characters of a part.
LEMMA PartElements ==
    ASSUME NEW s, NEW i, NEW j, s \in Seq(Int), i \in 1 .. Len(s), j \in i .. Len(s)
    PROVE  ToSet(Cut(s, i, j)) = Span(s, i, j) /\ Len(Cut(s, i, j)) = j - i + 1
<1> DEFINE c == Cut(s, i, j)
           l == j - i + 1
<1>0. Len(s) \in Nat /\ i \in Nat /\ j \in Nat /\ i <= j /\ l \in Nat
  BY LenProperties
<1>1. \A k \in i .. j : s[k] \in Int
  <2>1. \A k \in i .. j : k \in 1 .. Len(s)
    BY <1>0
  <2> QED BY <2>1, ElementOfSeq
<1>2. /\ c \in Seq(Int) /\ Len(c) = IF i <= j THEN j - i + 1 ELSE 0
      /\ \A k \in 1 .. j - i + 1 : c[k] = s[i + k - 1]
  <2>1. i \in Int /\ j \in Int
    BY <1>0
  <2> QED BY <1>1, <2>1, SubSeqProperties DEF Cut
<1> HIDE DEF c
<1>3. Len(c) = l /\ DOMAIN c = 1 .. l /\ \A k \in 1 .. l : c[k] = s[i + k - 1]
  <2>1. Len(c) = l
    BY <1>0, <1>2
  <2> QED BY <1>2, <2>1, LenProperties
<1>4. ToSet(c) \subseteq Span(s, i, j)
  <2> SUFFICES ASSUME NEW k \in 1 .. l PROVE c[k] \in Span(s, i, j)
    BY <1>3 DEF ToSet
  <2> DEFINE m == i + k - 1
  <2>1. m \in i .. j /\ c[k] = s[m]
    BY <1>0, <1>3
  <2> HIDE DEF m
  <2> QED BY <2>1 DEF Span
<1>5. Span(s, i, j) \subseteq ToSet(c)
  <2> SUFFICES ASSUME NEW m \in i .. j PROVE s[m] \in ToSet(c)
    BY DEF Span
  <2> DEFINE k == m - i + 1
  <2>1. k \in 1 .. l /\ i + k - 1 = m
    BY <1>0
  <2> HIDE DEF k, l
  <2>2. c[k] = s[m]
    BY <1>3, <2>1
  <2> QED BY <1>3, <2>1, <2>2 DEF ToSet
<1> QED BY <1>3, <1>4, <1>5 DEF c, l

\* What is up to a place has no less digits than a part that ends there.
LEMMA DigitsOfPrefix ==
    ASSUME NEW s, NEW i, NEW j, s \in Seq(Int), i \in 1 .. Len(s), j \in i .. Len(s)
    PROVE  /\ Len(Digits(Cut(s, i, j))) \in Nat /\ Len(Digits(Cut(s, 1, j))) \in Nat
           /\ Len(Digits(Cut(s, i, j))) <= Len(Digits(Cut(s, 1, j)))
<1> DEFINE n == Len(s)
           m == i - 1
           a == SubSeq(s, 1, m)
           b == SubSeq(s, i, j)
<1>0. n \in Nat /\ i \in Nat /\ j \in Nat
  BY LenProperties
<1>1. 1 \in 1 .. n + 1 /\ m \in 1 - 1 .. n /\ j \in m .. n /\ m + 1 = i /\ m \in 0 .. n /\ j \in 0 .. n
      /\ 1 \in 1 .. n
  BY <1>0
<1>2. a \in Seq(Int) /\ b \in Seq(Int) /\ SubSeq(s, 1, j) \in Seq(Int)
  <2> HIDE DEF m
  <2> QED BY <1>1, PartType
<1>3. a \o b = SubSeq(s, 1, j)
  <2> HIDE DEF m
  <2>1. SubSeq(s, 1, m) \o SubSeq(s, m + 1, j) = SubSeq(s, 1, j)
    BY <1>1, ConcatAdjacentSubSeq
  <2> QED BY <1>1, <2>1
<1> HIDE DEF a, b
<1>4. Len(Digits(a \o b)) = Len(Digits(a)) + Len(Digits(b))
  BY <1>2, DigitsOfTwo
<1>5. Len(Digits(a)) \in Nat /\ Len(Digits(b)) \in Nat /\ Len(Digits(SubSeq(s, 1, j))) \in Nat
  BY <1>2, DigitsType
<1>6. Cut(s, 1, j) = a \o b /\ Cut(s, i, j) = b
  BY <1>3 DEF Cut, b
<1> DEFINE x == Len(Digits(a))
           y == Len(Digits(b))
<1>7. x \in Nat /\ y \in Nat /\ y <= x + y
  <2>1. x \in Nat /\ y \in Nat
    BY <1>5
  <2> HIDE DEF x, y
  <2> QED BY <2>1
<1> QED BY <1>3, <1>4, <1>5, <1>6, <1>7

\* A number from its first digit on.
Shape(p, f, n, l) ==
    /\ p \in Seq(Int) /\ p # <<>> /\ n = Len(p) /\ n \in Nat
    /\ f \in {1, 2} /\ f <= n /\ l = Len(Digits(p)) /\ l \in Nat
    /\ f = 1 => p[1] \in Digit
    /\ f = 2 => p[1] = Plus
    /\ p[f] \in Digit /\ p[n] \in Digit
    /\ \A k \in f .. n : p[k] \in Digit \cup {Space, Dash}
    /\ l <= n - f + 1
    /\ \/ (\A k \in f .. n : p[k] \in Digit) /\ l = n - f + 1
       \/ /\ n - f < 20 /\ l < 20
          /\ \A i \in f .. n - 1 : p[i] \in Digit /\ p[i + 1] \notin Digit =>
                                      Len(Digits(Cut(p, 1, i))) < 13

\* Only the plus is before it.
PlusOf(p) == IF p[1] = Plus THEN <<Plus>> ELSE <<>>

LEMMA FrontAndRest ==
    ASSUME NEW p, NEW f, p \in Seq(Int), p # <<>>, f \in {1, 2}, f <= Len(p),
           f = 1 => p[1] \in Digit, f = 2 => p[1] = Plus
    PROVE  /\ p = PlusOf(p) \o Cut(p, f, Len(p)) /\ Digits(Cut(p, f, Len(p))) = Digits(p)
           /\ Cut(p, f, Len(p)) \in Seq(Int) /\ PlusOf(p) = IF f = 1 THEN <<>> ELSE <<Plus>>
<1> DEFINE n == Len(p)
           c == Cut(p, f, n)
<1>0. n \in Nat
  BY LenProperties
<1>1. Plus \in Int /\ Plus \notin Digit
  BY DEF Plus, Digit
<1>2. <<>> \o p = p
  BY ConcatEmptySeq
<1>3. CASE f = 1
  <2>1. PlusOf(p) = <<>>
    BY <1>1, <1>3 DEF PlusOf
  <2>2. c = p
    BY <1>3, SubSeqFull DEF Cut
  <2> QED BY <1>2, <1>3, <2>1, <2>2
<1>4. CASE f = 2
  <2>1. PlusOf(p) = <<Plus>> /\ p[1] = Plus
    BY <1>4 DEF PlusOf
  <2>2. 1 \in 1 .. n /\ n \in 1 .. n /\ 2 \in 1 .. n /\ n \in 0 .. n /\ 1 + 1 = 2
    BY <1>0, <1>4
  <2>3. c \in Seq(Int)
    BY <1>4, <2>2, PartType DEF Cut
  <2>4. SubSeq(p, 1, n) = <<p[1]>> \o SubSeq(p, 1 + 1, n)
    BY <2>2, SubSeqRecursiveFirst
  <2>5. p = <<Plus>> \o c
    BY <1>4, <2>1, <2>2, <2>4, SubSeqFull DEF Cut
  <2>6. <<Plus>> \in Seq(Int) /\ Digits(<<Plus>>) = <<>>
    BY <1>1, FewDigits
  <2> HIDE DEF c
  <2>7. Digits(<<Plus>> \o c) = Digits(<<Plus>>) \o Digits(c)
    BY <2>3, <2>6, DigitsOfTwo
  <2>8. Digits(c) \in Seq(Int)
    BY <2>3, DigitsType
  <2>9. Digits(p) = Digits(c)
    BY <2>5, <2>6, <2>7, <2>8, ConcatEmptySeq
  <2>10. PlusOf(p) = IF f = 1 THEN <<>> ELSE <<Plus>>
    BY <1>4, <2>1
  <2> QED BY <2>1, <2>3, <2>5, <2>9, <2>10 DEF c
<1> QED BY <1>3, <1>4

LEMMA NumberShape ==
    ASSUME NEW p, p \in Seq(Int), p # <<>>, IsNumber(p)
    PROVE  Shape(p, FirstDigit(p), Len(p), Len(Digits(p))) /\ AtDomain \notin ToSet(p)
<1> DEFINE f == FirstDigit(p)
           n == Len(p)
           l == Len(Digits(p))
           c == Cut(p, f, n)
<1>0. n \in Nat /\ l \in Nat /\ DOMAIN p = 1 .. n
  BY LenProperties, DigitsType
<1>1. f \in {1, 2} /\ (f = 1 => p[1] # Plus) /\ (f = 2 => p[1] = Plus)
  BY DEF FirstDigit
<1>2. /\ f <= n /\ p[f] \in Digit /\ p[n] \in Digit
      /\ \/ Span(p, f, n) \subseteq Digit
         \/ /\ Span(p, f, n) \subseteq Digit \cup {Space, Dash} /\ n - f < 20
            /\ \A i \in f .. n - 1 : p[i] \in Digit /\ p[i + 1] \notin Digit =>
                                        Len(Digits(SubSeq(p, 1, i))) < 13
  BY DEF IsNumber
<1>a. n = Len(p) /\ l = Len(Digits(p))
  OBVIOUS
<1> HIDE DEF f, n, l
<1>3. f \in 1 .. n /\ n \in f .. n
  BY <1>0, <1>1, <1>2
<1>4. c \in Seq(Int) /\ Digits(c) = Digits(p)
  BY <1>1, <1>2, FrontAndRest DEF n
<1>5. ToSet(c) = Span(p, f, n) /\ Len(c) = n - f + 1
  BY <1>3, PartElements DEF n
<1> HIDE DEF c
<1>6. /\ Len(Digits(c)) <= Len(c)
      /\ Len(Digits(c)) = Len(c) => ToSet(c) \subseteq Digit
  BY <1>4, DigitsShorter
<1>7. l <= n - f + 1 /\ (l = n - f + 1 => Span(p, f, n) \subseteq Digit)
  BY <1>4, <1>5, <1>6 DEF l
<1>8. \A k \in f .. n : p[k] \in Span(p, f, n)
  BY DEF Span
<1>11. AtDomain \notin ToSet(p)
  <2>1. AtDomain \notin Digit \cup {Space, Dash} /\ AtDomain # Plus
    BY DEF AtDomain, Digit, Space, Dash, Plus
  <2>2. ASSUME NEW k \in 1 .. n PROVE p[k] # AtDomain
    <3>1. CASE k < f
      <4>1. f = 2 /\ k = 1
        BY <1>0, <1>1, <3>1
      <4> QED BY <1>1, <2>1, <4>1
    <3>2. CASE ~ (k < f)
      <4>1. k \in f .. n
        BY <1>0, <1>1, <3>2
      <4> QED BY <1>2, <1>8, <2>1, <4>1
    <3> QED BY <3>1, <3>2
  <2> QED BY <1>0, <2>2 DEF ToSet
<1>9. CASE Span(p, f, n) \subseteq Digit
  <2>1. Only(c, Digit) = c
    BY <1>4, <1>5, <1>9, OnlyAll
  <2>2. l = n - f + 1
    BY <1>4, <1>5, <2>1 DEF Digits, l
  <2>3. \A k \in f .. n : p[k] \in Digit /\ p[k] \in Digit \cup {Space, Dash}
    BY <1>8, <1>9
  <2>4. Shape(p, f, n, l)
    BY <1>0, <1>a, <1>1, <1>2, <1>7, <2>2, <2>3 DEF Shape
  <2> QED BY <2>4, <1>11 DEF f, n, l
<1>10. CASE ~ (Span(p, f, n) \subseteq Digit)
  <2>1. l # n - f + 1
    BY <1>7, <1>10
  <2>2. l < 20
    BY <1>0, <1>1, <1>2, <1>7, <1>10, <2>1
  <2>3. \A k \in f .. n : p[k] \in Digit \cup {Space, Dash}
    BY <1>2, <1>8, <1>10
  <2>4. \A i \in f .. n - 1 : p[i] \in Digit /\ p[i + 1] \notin Digit => Len(Digits(Cut(p, 1, i))) < 13
    BY <1>2, <1>10 DEF Cut
  <2>5. Shape(p, f, n, l)
    BY <1>0, <1>a, <1>1, <1>2, <1>7, <1>10, <2>2, <2>3, <2>4 DEF Shape
  <2> QED BY <2>5, <1>11 DEF f, n, l
<1> QED BY <1>9, <1>10

\* Where a match of a number can be.
LEMMA NumberAround ==
    ASSUME NEW p, NEW f, NEW n, NEW l, Shape(p, f, n, l)
    PROVE  /\ \A k \in 1 .. n : CharAt(p, k) = p[k]
           /\ CharAt(p, 0) = Comma /\ CharAt(p, n + 1) = Comma
           /\ CharAt(p, f - 1) \notin WordChar
<1>0. p \in Seq(Int) /\ n = Len(p) /\ n \in Nat /\ f \in {1, 2} /\ f <= n /\ (f = 2 => p[1] = Plus)
  BY DEF Shape
<1>1. \A k \in 1 .. n : CharAt(p, k) = p[k]
  <2>1. \A k \in 1 .. n : k \in Int
    BY <1>0
  <2> QED BY <1>0, <2>1, Around
<1>2. CharAt(p, 0) = Comma
  <2>1. 0 \in Int /\ 0 \notin 1 .. n
    BY <1>0
  <2> QED BY <1>0, <2>1, Around
<1>3. CharAt(p, n + 1) = Comma
  <2> DEFINE m == n + 1
  <2>1. m \in Int /\ m \notin 1 .. n
    BY <1>0
  <2> HIDE DEF m
  <2>2. CharAt(p, m) = Comma
    BY <1>0, <2>1, Around
  <2> QED BY <2>2 DEF m
<1>4. Plus \notin WordChar /\ Comma \notin WordChar
  BY DEF Plus, Comma, WordChar, Digit, Letter, AtDomain
<1>5. CharAt(p, f - 1) \notin WordChar
  <2>1. CASE f = 1
    BY <1>2, <1>4, <2>1
  <2>2. CASE f = 2
    <3>1. 1 \in 1 .. n /\ f - 1 = 1
      BY <1>0, <2>2
    <3>2. CharAt(p, 1) = Plus
      BY <1>0, <1>1, <2>2, <3>1
    <3> QED BY <1>4, <3>1, <3>2
  <2> QED BY <1>0, <2>1, <2>2
<1> QED BY <1>1, <1>2, <1>3, <1>5

LEMMA NumberCards ==
    ASSUME NEW p, NEW f, NEW n, NEW l, Shape(p, f, n, l)
    PROVE  Substitute(p, CardEnd, MaskCard) =
               IF LuhnOk(Digits(p)) THEN PlusOf(p) \o <<MaskedCard>> ELSE p
<1>0. /\ p \in Seq(Int) /\ p # <<>> /\ n = Len(p) /\ n \in Nat
      /\ f \in {1, 2} /\ f <= n /\ l = Len(Digits(p)) /\ l \in Nat
      /\ f = 1 => p[1] \in Digit
      /\ f = 2 => p[1] = Plus
      /\ p[f] \in Digit /\ p[n] \in Digit
      /\ \A k \in f .. n : p[k] \in Digit \cup {Space, Dash}
  BY DEF Shape
<1>1. /\ \A k \in 1 .. n : CharAt(p, k) = p[k]
      /\ CharAt(p, 0) = Comma /\ CharAt(p, n + 1) = Comma
      /\ CharAt(p, f - 1) \notin WordChar
  BY NumberAround
<1>2. Digit \subseteq WordChar /\ Comma \notin Digit /\ Plus \notin Digit
  BY DEF WordChar, Comma, Plus, Digit
<1>3. f \in 1 .. n /\ n \in f .. n /\ f \in Int
  BY <1>0
<1>4. /\ p = PlusOf(p) \o Cut(p, f, n) /\ Digits(Cut(p, f, n)) = Digits(p)
      /\ Cut(p, f, n) \in Seq(Int) /\ PlusOf(p) = IF f = 1 THEN <<>> ELSE <<Plus>>
  BY <1>0, FrontAndRest
<1>5. CASE l \in 13 .. 19
  <2>1. CardStarts(p, f)
    BY <1>0, <1>1, <1>2, <1>3 DEF CardStarts
  <2>2. n \in CardEnds(p, f)
    <3>1. Span(p, f, n) \subseteq Digit \cup {Space, Dash}
      BY <1>0 DEF Span
    <3>2. Len(Digits(SubSeq(p, f, n))) = l
      BY <1>0, <1>4 DEF Cut
    <3> QED BY <1>0, <1>1, <1>2, <1>3, <1>5, <3>1, <3>2 DEF CardEnds
  <2>3. ASSUME NEW j \in CardEnds(p, f) PROVE j = n
    <3>1. /\ j \in f .. n /\ p[j] \in Digit /\ CharAt(p, j + 1) \notin Digit
          /\ Len(Digits(Cut(p, f, j))) \in 13 .. 19
      BY <1>0 DEF CardEnds, Cut
    <3> SUFFICES ASSUME j # n PROVE FALSE
      OBVIOUS
    <3> DEFINE m == j + 1
    <3>2. j \in f .. n - 1 /\ m \in f .. n /\ m \in 1 .. n
      BY <1>0, <3>1
    <3> HIDE DEF m
    <3>3. p[m] \notin Digit
      BY <1>1, <3>1, <3>2 DEF m
    <3>4. Len(Digits(Cut(p, 1, j))) < 13
      BY <3>1, <3>2, <3>3 DEF Shape, m
    <3>5. /\ Len(Digits(Cut(p, f, j))) \in Nat /\ Len(Digits(Cut(p, 1, j))) \in Nat
          /\ Len(Digits(Cut(p, f, j))) <= Len(Digits(Cut(p, 1, j)))
      <4>1. f \in 1 .. Len(p) /\ j \in f .. Len(p)
        BY <1>0, <1>3, <3>1
      <4> QED BY <1>0, <4>1, DigitsOfPrefix
    <3> DEFINE x == Len(Digits(Cut(p, f, j)))
               y == Len(Digits(Cut(p, 1, j)))
    <3>6. x \in Nat /\ y \in Nat /\ x <= y /\ y < 13 /\ x \in 13 .. 19
      BY <3>1, <3>4, <3>5
    <3> HIDE DEF x, y
    <3> QED BY <3>6
  <2>4. CardEnd(p, f) = n
    <3>1. f \in 1 .. Len(p)
      BY <1>0, <1>3
    <3>2. CardEnd(p, f) \in CardEnds(p, f)
      BY <1>0, <2>1, <2>2, <3>1, CardMatch
    <3> QED BY <2>3, <3>2
  <2>5. CASE f = 1
    <3>1. Substitute(p, CardEnd, MaskCard) = MaskCard(p)
      BY <1>0, <2>4, <2>5, CardWhole
    <3>2. <<MaskedCard>> = <<>> \o <<MaskedCard>>
      OBVIOUS
    <3> QED BY <1>4, <2>5, <3>1, <3>2 DEF MaskCard
  <2>6. CASE f = 2
    <3>1. CardEnd(p, 1) = 0
      <4>1. 1 \in 1 .. Len(p)
        BY <1>0
      <4>2. ~ CardStarts(p, 1)
        BY <1>0, <1>1, <1>2, <2>6, <4>1 DEF CardStarts
      <4> QED BY <1>0, <4>1, <4>2, CardMatch
    <3>2. Len(p) > 1 /\ CardEnd(p, 2) = Len(p)
      BY <1>0, <2>4, <2>6
    <3>3. Substitute(p, CardEnd, MaskCard) = <<p[1]>> \o MaskCard(Cut(p, 2, Len(p)))
      BY <1>0, <3>1, <3>2, CardWhole
    <3>4. PlusOf(p) = <<Plus>> /\ p[1] = Plus /\ n = Len(p)
      BY <1>0, <1>4, <2>6
    <3> DEFINE c == Cut(p, 2, Len(p))
    <3>5. p = PlusOf(p) \o c /\ Digits(c) = Digits(p)
      BY <1>4, <2>6, <3>4
    <3> HIDE DEF c
    <3>6. MaskCard(c) = IF LuhnOk(Digits(p)) THEN <<MaskedCard>> ELSE c
      BY <3>5 DEF MaskCard
    <3>7. Substitute(p, CardEnd, MaskCard) = PlusOf(p) \o MaskCard(c)
      BY <3>3, <3>4 DEF c
    <3> QED BY <3>5, <3>6, <3>7
  <2> QED BY <1>0, <2>5, <2>6
<1>6. CASE l \notin 13 .. 19
  <2>1. ~ LuhnOk(Digits(p))
    BY <1>0, <1>6 DEF LuhnOk
  <2>2. ASSUME NEW i \in 1 .. Len(p), NEW j \in CardEnds(p, i), CardStarts(p, i) PROVE FALSE
    <3> DEFINE m == Len(Digits(Cut(p, i, j)))
    <3>1. /\ j \in i .. n /\ p[j] \in Digit /\ CharAt(p, j + 1) \notin Digit /\ m \in 13 .. 19
      BY <1>0 DEF CardEnds, Cut
    <3>2. m <= l
      <4>1. j \in i .. Len(p)
        BY <1>0, <3>1
      <4> QED BY <1>0, <4>1, DigitsOfPart
    <3> HIDE DEF m
    <3>3. l > 19
      <4>1. l \in Nat /\ m \in 13 .. 19
        BY <1>0, <3>1
      <4> QED BY <1>6, <3>2, <4>1
    <3>4. \A k \in f .. n : p[k] \in Digit
      BY <1>0, <3>3 DEF Shape
    <3>5. p[i] \in Digit /\ CharAt(p, i - 1) \notin Digit /\ i \in 1 .. n
      BY <1>0, <1>1, <2>2 DEF CardStarts
    <3>6. i = f
      <4>1. CASE i < f
        <5>1. f = 2 /\ i = 1
          BY <1>0, <3>5, <4>1
        <5> QED BY <1>0, <1>2, <3>5, <5>1
      <4>2. CASE i > f
        <5> DEFINE k == i - 1
        <5>1. k \in f .. n /\ k \in 1 .. n
          BY <1>0, <3>5, <4>2
        <5> HIDE DEF k
        <5>2. CharAt(p, k) \in Digit
          BY <1>1, <3>4, <5>1
        <5> QED BY <3>5, <5>2 DEF k
      <4> QED BY <1>3, <3>5, <4>1, <4>2
    <3>7. j = n
      <4> SUFFICES ASSUME j # n PROVE FALSE
        OBVIOUS
      <4> DEFINE k == j + 1
      <4>1. k \in f .. n /\ k \in 1 .. n
        BY <1>0, <3>1, <3>6
      <4> HIDE DEF k
      <4>2. CharAt(p, k) \in Digit
        BY <1>1, <3>4, <4>1
      <4> QED BY <3>1, <4>2 DEF k
    <3>8. m = l
      BY <1>0, <1>4, <3>6, <3>7 DEF m
    <3> QED BY <1>6, <3>1, <3>8
  <2>3. Substitute(p, CardEnd, MaskCard) = p
    BY <1>0, <2>2, CardUntouched
  <2> QED BY <2>1, <2>3
<1> QED BY <1>5, <1>6

LEMMA NumberPhones ==
    ASSUME NEW p, NEW f, NEW n, NEW l, Shape(p, f, n, l)
    PROVE  Substitute(p, PhoneEnd, MaskPhone) = MaskPhone(p)
<1>0. /\ p \in Seq(Int) /\ p # <<>> /\ n = Len(p) /\ n \in Nat
      /\ f \in {1, 2} /\ f <= n /\ l = Len(Digits(p)) /\ l \in Nat
      /\ f = 1 => p[1] \in Digit
      /\ f = 2 => p[1] = Plus
      /\ p[f] \in Digit /\ p[n] \in Digit
      /\ \A k \in f .. n : p[k] \in Digit \cup {Space, Dash}
      /\ l <= n - f + 1
  BY DEF Shape
<1>1. /\ \A k \in 1 .. n : CharAt(p, k) = p[k]
      /\ CharAt(p, 0) = Comma /\ CharAt(p, n + 1) = Comma
      /\ CharAt(p, f - 1) \notin WordChar
  BY NumberAround
<1>2. Digit \subseteq WordChar /\ Comma \notin Digit /\ Plus \notin Digit /\ Comma \notin WordChar
  BY DEF WordChar, Comma, Plus, Digit, Letter, AtDomain
<1>3. f \in 1 .. n /\ n \in f .. n /\ f \in Int /\ 1 \in 1 .. n
  BY <1>0
<1>4. First(p, 1) = f
  BY <1>0, <1>1, <1>2, <1>3 DEF First
<1>5. l \notin 10 .. 15 => MaskPhone(p) = p
  BY <1>0 DEF MaskPhone
<1>6. CASE l < 10
  <2>1. Substitute(p, PhoneEnd, MaskPhone) = p
    BY <1>0, <1>6, NoneMasked
  <2>2. l \notin 10 .. 15
    BY <1>6
  <2> QED BY <1>5, <2>1, <2>2
<1>7. CASE l >= 10 /\ n <= f + 19
  <2>1. n \in f + 9 .. f + 19
    BY <1>0, <1>7
  <2>2. n \in PhoneEnds(p, f)
    <3>1. Span(p, f, n) \subseteq Digit \cup {Space, Dash}
      BY <1>0 DEF Span
    <3>2. CharAt(p, n) = p[n]
      BY <1>1, <1>0
    <3> QED BY <1>0, <1>1, <1>2, <2>1, <3>1, <3>2 DEF PhoneEnds
  <2>3. PhoneStarts(p, 1)
    <3>1. CharAt(p, f) = p[f] /\ CharAt(p, 1 - 1) = Comma
      BY <1>1, <1>3
    <3> QED BY <1>0, <1>2, <1>4, <3>1 DEF PhoneStarts
  <2>4. ASSUME NEW j \in PhoneEnds(p, f) PROVE j \in Int /\ j <= n
    <3>1. j \in f + 9 .. f + 19 /\ CharAt(p, j) \in Digit
      BY DEF PhoneEnds
    <3>2. j \in Int
      BY <1>0, <3>1
    <3>3. j \in 1 .. n
      BY <1>0, <1>2, <3>1, <3>2, Around
    <3> QED BY <3>2, <3>3
  <2>5. PhoneEnd(p, 1) = n
    <3> DEFINE e == PhoneEnd(p, 1)
    <3>1. 1 \in 1 .. Len(p)
      BY <1>0, <1>3
    <3>2. PhoneEnds(p, First(p, 1)) # {} /\ n \in PhoneEnds(p, First(p, 1))
      BY <1>4, <2>2
    <3>3. e \in PhoneEnds(p, First(p, 1)) /\ \A k \in PhoneEnds(p, First(p, 1)) : k <= e
      BY <1>0, <2>3, <3>1, <3>2, PhoneMatch
    <3> HIDE DEF e
    <3>4. e \in Int /\ e <= n /\ n <= e
      BY <1>4, <2>2, <2>4, <3>3
    <3>5. e = n
      BY <1>0, <3>4
    <3> QED BY <3>5 DEF e
  <2> QED BY <1>0, <2>5, PhoneWhole
<1>8. CASE l >= 10 /\ ~ (n <= f + 19)
  <2>1. (\A k \in f .. n : p[k] \in Digit) /\ l = n - f + 1
    <3>1. ~ (n - f < 20)
      BY <1>0, <1>8
    <3> QED BY <3>1 DEF Shape
  <2>2. l \notin 10 .. 15
    <3>1. n \in Nat /\ f \in Int /\ l = n - f + 1 /\ ~ (n <= f + 19)
      BY <1>0, <1>3, <1>8, <2>1
    <3>2. l > 15
      BY <3>1
    <3> QED BY <3>2
  <2>3. ASSUME NEW i \in 1 .. Len(p), NEW j \in PhoneEnds(p, First(p, i)), PhoneStarts(p, i) PROVE FALSE
    <3>1. CharAt(p, First(p, i)) \in Digit /\ CharAt(p, i - 1) \notin WordChar /\ i \in 1 .. n
      BY <1>0, <2>3 DEF PhoneStarts
    <3>2. First(p, i) = f
      <4>1. CASE i < f
        <5>1. f = 2 /\ i = 1
          BY <1>0, <3>1, <4>1
        <5> QED BY <1>4, <5>1
      <4>2. CASE i = f
        <5>1. CharAt(p, f) # Plus
          BY <1>0, <1>1, <1>2, <1>3
        <5> QED BY <4>2, <5>1 DEF First
      <4>3. CASE i > f
        <5> DEFINE k == i - 1
        <5>1. k \in f .. n /\ k \in 1 .. n
          BY <1>0, <3>1, <4>3
        <5> HIDE DEF k
        <5>2. CharAt(p, k) \in Digit
          BY <1>1, <2>1, <5>1
        <5> QED BY <1>2, <3>1, <5>2 DEF k
      <4> QED BY <1>3, <3>1, <4>1, <4>2, <4>3
    <3>3. j \in f + 9 .. f + 19 /\ CharAt(p, j + 1) \notin WordChar
      BY <3>2 DEF PhoneEnds
    <3> DEFINE k == j + 1
    <3>4. k \in f .. n /\ k \in 1 .. n
      BY <1>0, <1>8, <3>3
    <3> HIDE DEF k
    <3>5. CharAt(p, k) \in Digit
      BY <1>1, <2>1, <3>4
    <3> QED BY <1>2, <3>3, <3>5 DEF k
  <2>4. Substitute(p, PhoneEnd, MaskPhone) = p
    BY <1>0, <2>3, PhoneUntouched
  <2> QED BY <1>5, <2>2, <2>4
<1>9. l < 10 \/ (l >= 10 /\ n <= f + 19) \/ (l >= 10 /\ ~ (n <= f + 19))
  <2>1. l \in Nat
    BY <1>0
  <2> QED BY <2>1
<1> QED BY <1>6, <1>7, <1>8, <1>9

----------------------------------------------------------------------------
(* Sums over the places of a sequence. *)

Adds(h, v, n) ==
    h \in [0 .. n -> Int] /\ h[0] = 0 /\ \A k \in 1 .. n : h[k] = h[k - 1] + v[k]

Values(v, n) == n \in Nat /\ v \in [1 .. n -> Int]

Total(v, n) == (CHOOSE h : Adds(h, v, n))[n]

LEMMA AddsExists == ASSUME NEW v, NEW n, Values(v, n) PROVE \E h : Adds(h, v, n)
<1> DEFINE step == [k \in 1 .. n |-> [x \in Int |-> x + v[k]]]
<1>0. n \in Nat /\ 0 \in Int /\ \A k \in 1 .. n : v[k] \in Int
  BY DEF Values
<1>1. \A k \in 1 .. n, x \in Int : step[k][x] = x + v[k] /\ step[k][x] \in Int
  BY <1>0
<1> HIDE DEF step
<1>2. PICK h : Recursion(h, Int, 0, n, step)
  BY <1>0, <1>1, RecursionSolved
<1>3. /\ h \in [0 .. n -> Int]
      /\ h = [k \in 0 .. n |-> IF k = 0 THEN 0 ELSE step[k][h[k - 1]]]
  BY <1>2 DEF Recursion
<1>4. 0 \in 0 .. n /\ \A k \in 1 .. n : k \in 0 .. n /\ k - 1 \in 0 .. n /\ k # 0
  BY <1>0
<1>5. h[0] = 0
  BY <1>3, <1>4
<1>6. ASSUME NEW k \in 1 .. n PROVE h[k] = h[k - 1] + v[k]
  <2>1. h[k] = step[k][h[k - 1]] /\ h[k - 1] \in Int
    BY <1>3, <1>4
  <2> QED BY <1>1, <2>1
<1> QED BY <1>3, <1>5, <1>6 DEF Adds

LEMMA TotalIs ==
    ASSUME NEW v, NEW n, NEW h, Values(v, n), Adds(h, v, n)
    PROVE  Total(v, n) = h[n] /\ Total(v, n) \in Int
<1> DEFINE g == CHOOSE g : Adds(g, v, n)
           P == {k \in 0 .. n : g[k] = h[k]}
<1>0. n \in Nat
  BY DEF Values
<1>1. Adds(g, v, n)
  OBVIOUS
<1>2. Total(v, n) = g[n]
  BY DEF Total
<1> HIDE DEF g
<1>3. 0 \in P
  BY <1>0, <1>1 DEF Adds
<1>4. ASSUME NEW k \in 0 .. n - 1, k \in P PROVE k + 1 \in P
  <2> DEFINE m == k + 1
  <2>1. m \in 1 .. n /\ m \in 0 .. n /\ m - 1 = k
    BY <1>0
  <2> HIDE DEF m
  <2>2. g[m] = g[m - 1] + v[m] /\ h[m] = h[m - 1] + v[m]
    BY <1>1, <2>1 DEF Adds
  <2>3. g[k] = h[k]
    BY <1>4
  <2>4. g[m] = h[m]
    BY <2>1, <2>2, <2>3
  <2>5. m \in P
    BY <2>1, <2>4
  <2> QED BY <2>5 DEF m
<1>5. n \in P
  <2> HIDE DEF P
  <2>1. \A k \in 0 .. n : k \in P
    BY <1>0, <1>3, <1>4, UpTo
  <2>2. n \in 0 .. n
    BY <1>0
  <2> QED BY <2>1, <2>2
<1>6. h[n] \in Int
  <2>1. n \in 0 .. n
    BY <1>0
  <2> QED BY <2>1 DEF Adds
<1> QED BY <1>2, <1>5, <1>6

LEMMA TotalSum ==
    ASSUME NEW v, NEW w, NEW u, NEW n, Values(v, n), Values(w, n), Values(u, n),
           \A k \in 1 .. n : v[k] = w[k] + u[k]
    PROVE  Total(v, n) = Total(w, n) + Total(u, n)
<1>0. n \in Nat
  BY DEF Values
<1>1. PICK g : Adds(g, w, n)
  BY AddsExists
<1>2. PICK f : Adds(f, u, n)
  BY AddsExists
<1> DEFINE h == [k \in 0 .. n |-> g[k] + f[k]]
<1>3. \A k \in 0 .. n : g[k] \in Int /\ f[k] \in Int /\ h[k] = g[k] + f[k]
  BY <1>1, <1>2 DEF Adds
<1>4. h \in [0 .. n -> Int]
  BY <1>3
<1>5. 0 \in 0 .. n /\ n \in 0 .. n /\ \A k \in 1 .. n : k \in 0 .. n /\ k - 1 \in 0 .. n
  BY <1>0
<1> HIDE DEF h
<1>6. h[0] = 0
  <2>1. g[0] = 0 /\ f[0] = 0
    BY <1>1, <1>2 DEF Adds
  <2> QED BY <1>3, <1>5, <2>1
<1>7. ASSUME NEW k \in 1 .. n PROVE h[k] = h[k - 1] + v[k]
  <2>1. g[k] = g[k - 1] + w[k] /\ f[k] = f[k - 1] + u[k]
    BY <1>1, <1>2 DEF Adds
  <2>2. w[k] \in Int /\ u[k] \in Int /\ v[k] = w[k] + u[k]
    BY DEF Values
  <2>3. h[k] = g[k] + f[k] /\ h[k - 1] = g[k - 1] + f[k - 1] /\ g[k - 1] \in Int /\ f[k - 1] \in Int
    BY <1>3, <1>5
  <2> QED BY <2>1, <2>2, <2>3
<1>8. Adds(h, v, n)
  BY <1>4, <1>6, <1>7 DEF Adds
<1>9. Total(v, n) = h[n] /\ Total(w, n) = g[n] /\ Total(u, n) = f[n]
  BY <1>1, <1>2, <1>8, TotalIs
<1> QED BY <1>3, <1>5, <1>9

LEMMA TotalOne ==
    ASSUME NEW u, NEW n, NEW x, NEW c \in Int, Values(u, n), x \in 1 .. n,
           \A k \in 1 .. n : u[k] = IF k = x THEN c ELSE 0
    PROVE  Total(u, n) = c
<1>0. n \in Nat
  BY DEF Values
<1> DEFINE h == [k \in 0 .. n |-> IF k < x THEN 0 ELSE c]
<1>1. h \in [0 .. n -> Int]
  OBVIOUS
<1>2. 0 \in 0 .. n /\ n \in 0 .. n /\ 0 < x /\ ~ (n < x)
  BY <1>0
<1>3. ASSUME NEW k \in 1 .. n PROVE h[k] = h[k - 1] + u[k]
  <2>1. k \in 0 .. n /\ k - 1 \in 0 .. n
    BY <1>0
  <2>2. h[k] = (IF k < x THEN 0 ELSE c) /\ h[k - 1] = IF k - 1 < x THEN 0 ELSE c
    BY <2>1
  <2> HIDE DEF h
  <2>3. CASE k < x
    BY <2>2, <2>3
  <2>4. CASE k = x
    BY <2>2, <2>4
  <2>5. CASE k > x
    BY <2>2, <2>5
  <2> QED BY <2>3, <2>4, <2>5
<1>4. h[0] = 0 /\ h[n] = c
  BY <1>2
<1> HIDE DEF h
<1>5. Adds(h, u, n)
  BY <1>1, <1>3, <1>4 DEF Adds
<1>6. Total(u, n) = h[n]
  BY <1>5, TotalIs
<1> QED BY <1>4, <1>6

LEMMA TotalNone ==
    ASSUME NEW u, NEW n, Values(u, n), \A k \in 1 .. n : u[k] = 0
    PROVE  Total(u, n) = 0
<1>0. n \in Nat
  BY DEF Values
<1> DEFINE h == [k \in 0 .. n |-> 0]
<1>1. h \in [0 .. n -> Int] /\ h[0] = 0 /\ h[n] = 0
  BY <1>0
<1>2. ASSUME NEW k \in 1 .. n PROVE h[k] = h[k - 1] + u[k]
  <2>1. k \in 0 .. n /\ k - 1 \in 0 .. n
    BY <1>0
  <2> QED BY <2>1
<1> HIDE DEF h
<1>3. Adds(h, u, n)
  BY <1>1, <1>2 DEF Adds
<1>4. Total(u, n) = h[n]
  BY <1>3, TotalIs
<1> QED BY <1>1, <1>4

\* From the end it is the same.
LEMMA TotalReversed ==
    ASSUME NEW v, NEW w, NEW n, Values(v, n), Values(w, n),
           \A k \in 1 .. n : w[k] = v[(n - k) + 1]
    PROVE  Total(w, n) = Total(v, n)
<1>0. n \in Nat
  BY DEF Values
<1>1. PICK h : Adds(h, v, n)
  BY AddsExists
<1> DEFINE g == [k \in 0 .. n |-> h[n] - h[n - k]]
<1>2. 0 \in 0 .. n /\ n \in 0 .. n /\ n - 0 = n /\ n - n = 0
      /\ (\A k \in 0 .. n : n - k \in 0 .. n)
      /\ \A k \in 1 .. n : k \in 0 .. n /\ k - 1 \in 0 .. n /\ n - (k - 1) = (n - k) + 1
                           /\ (n - k) + 1 \in 1 .. n /\ (n - k) + 1 - 1 = n - k
  BY <1>0
<1>3. h[0] = 0 /\ \A k \in 0 .. n : h[k] \in Int
  BY <1>1 DEF Adds
<1>4. \A k \in 0 .. n : g[k] = h[n] - h[n - k]
  OBVIOUS
<1>5. g \in [0 .. n -> Int]
  <2>1. \A k \in 0 .. n : h[n] - h[n - k] \in Int
    BY <1>2, <1>3
  <2> QED BY <2>1
<1> HIDE DEF g
<1>6. g[0] = 0 /\ g[n] = h[n]
  <2>1. g[0] = h[n] - h[n] /\ g[n] = h[n] - h[0] /\ h[n] \in Int
    BY <1>2, <1>3, <1>4
  <2> QED BY <1>3, <2>1
<1>7. ASSUME NEW k \in 1 .. n PROVE g[k] = g[k - 1] + w[k]
  <2> DEFINE m == (n - k) + 1
  <2>1. m \in 1 .. n /\ m - 1 = n - k /\ n - (k - 1) = m /\ k \in 0 .. n /\ k - 1 \in 0 .. n
        /\ m \in 0 .. n /\ m - 1 \in 0 .. n
    BY <1>0
  <2>2. w[k] = v[m]
    OBVIOUS
  <2> HIDE DEF m
  <2>3. h[m] = h[m - 1] + v[m]
    BY <1>1, <2>1 DEF Adds
  <2>4. g[k] = h[n] - h[m - 1] /\ g[k - 1] = h[n] - h[m]
    BY <1>4, <2>1
  <2>5. h[n] \in Int /\ h[m] \in Int /\ h[m - 1] \in Int /\ v[m] \in Int
    BY <1>2, <1>3, <2>1 DEF Values
  <2> QED BY <2>2, <2>3, <2>4, <2>5
<1>8. Adds(g, w, n)
  BY <1>5, <1>6, <1>7 DEF Adds
<1>9. Total(w, n) = g[n] /\ Total(v, n) = h[n]
  BY <1>1, <1>8, TotalIs
<1> QED BY <1>6, <1>9

\* The values at some of the places.
At(v, n, set) == [k \in 1 .. n |-> IF k \in set THEN v[k] ELSE 0]

TotalAt(v, n, set) == Total(At(v, n, set), n)

LEMMA AtValues == ASSUME NEW v, NEW n, NEW set, Values(v, n) PROVE Values(At(v, n, set), n)
BY DEF Values, At

\* One place less.
OneLess(v, n, set, x) ==
    TotalAt(v, n, set) = TotalAt(v, n, set \ {x}) + v[x]

LEMMA TotalRemove ==
    ASSUME NEW v, NEW n, NEW set, NEW x, Values(v, n), set \in SUBSET (1 .. n), x \in set
    PROVE  OneLess(v, n, set, x)
<1> DEFINE a == At(v, n, set)
           b == At(v, n, set \ {x})
           u == [k \in 1 .. n |-> IF k = x THEN v[x] ELSE 0]
<1>1. x \in 1 .. n /\ v[x] \in Int /\ \A k \in 1 .. n : v[k] \in Int
  BY DEF Values
<1>2. Values(a, n) /\ Values(b, n)
  BY AtValues
<1>3. Values(u, n)
  BY <1>1 DEF Values
<1>4. \A k \in 1 .. n : a[k] = b[k] + u[k]
  BY <1>1 DEF At
<1>5. \A k \in 1 .. n : u[k] = IF k = x THEN v[x] ELSE 0
  OBVIOUS
<1> HIDE DEF a, b, u
<1>6. Total(u, n) = v[x]
  BY <1>1, <1>3, <1>5, TotalOne
<1>7. Total(a, n) = Total(b, n) + Total(u, n)
  BY <1>2, <1>3, <1>4, TotalSum
<1> QED BY <1>6, <1>7 DEF a, b, TotalAt, OneLess

\* What takes one place after the other, in whatever order, is the sum.
Takes(f, v, S) ==
    f[{}] = 0 /\ \A s \in SUBSET S : s # {} => \E x \in s : f[s] = f[s \ {x}] + v[x]

LEMMA SetTotal ==
    ASSUME NEW v, NEW n, NEW S, NEW f, Values(v, n), S \in SUBSET (1 .. n), Takes(f, v, S)
    PROVE  f[S] = TotalAt(v, n, S)
<1> DEFINE P == {m \in 0 .. n : \A s \in SUBSET S : Cardinality(s) = m => f[s] = TotalAt(v, n, s)}
<1>0. n \in Nat
  BY DEF Values
<1>1. \A s \in SUBSET S : IsFiniteSet(s) /\ Cardinality(s) \in 0 .. n
  <2>1. IsFiniteSet(1 .. n) /\ Cardinality(1 .. n) = n
    <3>1. 1 \in Int /\ n \in Int
      BY <1>0
    <3>2. IsFiniteSet(1 .. n) /\ Cardinality(1 .. n) = IF 1 > n THEN 0 ELSE n - 1 + 1
      BY <3>1, FS_Interval
    <3> QED BY <1>0, <3>2
  <2>2. ASSUME NEW s \in SUBSET S PROVE IsFiniteSet(s) /\ Cardinality(s) \in 0 .. n
    <3>1. IsFiniteSet(s) /\ Cardinality(s) <= Cardinality(1 .. n)
      BY <2>1, FS_Subset
    <3>2. Cardinality(s) \in Nat
      BY <3>1, FS_CardinalityType
    <3> QED BY <1>0, <2>1, <3>1, <3>2
  <2> QED BY <2>2
<1>2. 0 \in P
  <2>1. ASSUME NEW s \in SUBSET S, Cardinality(s) = 0 PROVE f[s] = TotalAt(v, n, s)
    <3>1. s = {}
      BY <1>1, <2>1, FS_EmptySet
    <3>2. Values(At(v, n, s), n) /\ \A k \in 1 .. n : At(v, n, s)[k] = 0
      BY <3>1, AtValues DEF At
    <3>3. TotalAt(v, n, s) = 0
      BY <3>2, TotalNone DEF TotalAt
    <3> QED BY <3>1, <3>3 DEF Takes
  <2>2. 0 \in 0 .. n
    BY <1>0
  <2> QED BY <2>1, <2>2
<1>3. ASSUME NEW m \in 0 .. n - 1, m \in P PROVE m + 1 \in P
  <2>1. ASSUME NEW s \in SUBSET S, Cardinality(s) = m + 1 PROVE f[s] = TotalAt(v, n, s)
    <3>1. IsFiniteSet(s) /\ s # {}
      <4>1. m + 1 # 0
        BY <1>0
      <4> QED BY <1>1, <2>1, <4>1, FS_EmptySet
    <3>2. PICK x \in s : f[s] = f[s \ {x}] + v[x]
      BY <3>1 DEF Takes
    <3>3. Cardinality(s \ {x}) = m
      <4>1. Cardinality(s \ {x}) = Cardinality(s) - 1
        BY <3>1, <3>2, FS_RemoveElement
      <4> QED BY <1>0, <2>1, <4>1
    <3>4. f[s \ {x}] = TotalAt(v, n, s \ {x})
      <4>1. s \ {x} \in SUBSET S
        OBVIOUS
      <4> QED BY <1>3, <3>3, <4>1
    <3>5. TotalAt(v, n, s) = TotalAt(v, n, s \ {x}) + v[x]
      <4>1. s \in SUBSET (1 .. n)
        OBVIOUS
      <4>2. OneLess(v, n, s, x)
        BY <3>2, <4>1, TotalRemove
      <4> QED BY <4>2 DEF OneLess
    <3> QED BY <3>2, <3>4, <3>5
  <2>2. m + 1 \in 0 .. n
    BY <1>0
  <2> QED BY <2>1, <2>2
<1>4. \A m \in 0 .. n : m \in P
  <2> HIDE DEF P
  <2> QED BY <1>0, <1>2, <1>3, UpTo
<1> QED BY <1>1, <1>4

LEMMA SetSum ==
    ASSUME NEW d, NEW S, d \in Seq(Int), S \in SUBSET (1 .. Len(d))
    PROVE  FoldSet(LAMBDA i, total : total + d[i], 0, S) = TotalAt(d, Len(d), S)
<1> DEFINE n == Len(d)
           Sol(h) == h = [u \in SUBSET S |->
                             IF u = {} THEN 0
                             ELSE h[u \ {CHOOSE x \in u : TRUE}] + d[CHOOSE x \in u : TRUE]]
           it == CHOOSE h : Sol(h)
           f == [u \in SUBSET S |-> TotalAt(d, n, u)]
<1>0. n \in Nat /\ \A k \in 1 .. n : d[k] \in Int
  BY LenProperties, ElementOfSeq
<1>1. Values(d, n)
  <2>1. d \in [1 .. n -> Int]
    BY SeqDef, LenProperties
  <2> QED BY <1>0, <2>1 DEF Values
<1>2. TotalAt(d, n, {}) = 0
  <2>1. Values(At(d, n, {}), n)
    BY <1>1, AtValues
  <2>2. \A k \in 1 .. n : At(d, n, {})[k] = 0
    BY DEF At
  <2> QED BY <2>1, <2>2, TotalNone DEF TotalAt
<1>3. ASSUME NEW u \in SUBSET S, u # {}
      PROVE  LET x == CHOOSE x \in u : TRUE
             IN TotalAt(d, n, u) = TotalAt(d, n, u \ {x}) + d[x]
  <2> DEFINE x == CHOOSE x \in u : TRUE
  <2>1. x \in u
    BY <1>3
  <2> HIDE DEF x
  <2>2. u \in SUBSET (1 .. n)
    OBVIOUS
  <2>3. OneLess(d, n, u, x)
    BY <1>1, <2>1, <2>2, TotalRemove
  <2>4. TotalAt(d, n, u) = TotalAt(d, n, u \ {x}) + d[x]
    BY <2>3 DEF OneLess
  <2> QED BY <2>4 DEF x
<1> HIDE DEF n
<1>4. Sol(f)
  <2>1. ASSUME NEW u \in SUBSET S
        PROVE  f[u] = IF u = {} THEN 0
                      ELSE f[u \ {CHOOSE x \in u : TRUE}] + d[CHOOSE x \in u : TRUE]
    <3>1. CASE u = {}
      BY <1>2, <3>1
    <3>2. CASE u # {}
      <4> DEFINE x == CHOOSE x \in u : TRUE
      <4>1. TotalAt(d, n, u) = TotalAt(d, n, u \ {x}) + d[x]
        BY <1>3, <3>2
      <4>2. f[u] = TotalAt(d, n, u) /\ f[u \ {x}] = TotalAt(d, n, u \ {x})
        OBVIOUS
      <4> HIDE DEF f
      <4>3. f[u] = f[u \ {x}] + d[x]
        BY <4>1, <4>2
      <4> QED BY <3>2, <4>3
    <3> QED BY <3>1, <3>2
  <2>2. f = [u \in SUBSET S |-> f[u]]
    OBVIOUS
  <2> HIDE DEF f
  <2> QED BY <2>1, <2>2
<1>5. Sol(it)
  BY <1>4
<1>6. FoldSet(LAMBDA i, total : total + d[i], 0, S) = it[S]
  BY DEF FoldSet, MapThenFoldSet
<1> HIDE DEF it
<1>7. Takes(it, d, S)
  <2>1. it[{}] = 0
    BY <1>5
  <2>2. ASSUME NEW u \in SUBSET S, u # {} PROVE \E x \in u : it[u] = it[u \ {x}] + d[x]
    <3> DEFINE x == CHOOSE x \in u : TRUE
    <3>1. x \in u
      BY <2>2
    <3>2. it[u] = it[u \ {x}] + d[x]
      BY <1>5, <2>2
    <3> HIDE DEF x
    <3> QED BY <3>1, <3>2
  <2> QED BY <2>1, <2>2 DEF Takes
<1>8. it[S] = TotalAt(d, n, S)
  BY <1>1, <1>7, SetTotal DEF n
<1> QED BY <1>6, <1>8 DEF n

----------------------------------------------------------------------------
(* The check of _luhn_ok, which walks the digits from the last one and     *)
(* doubles every second, is the check sum of the standard.                 *)

Double(d) == IF 2 * d > 9 THEN 2 * d - 9 ELSE 2 * d
Counts(digits) ==
    [i \in 1 .. Len(digits) |->
        IF (Len(digits) - i) % 2 = 1 THEN Double(digits[i]) ELSE digits[i]]

LEMMA LuhnTotal ==
    ASSUME NEW d, d \in Seq(Int)
    PROVE  LuhnOk(d) <=> Len(d) \in 13 .. 19 /\ Total(Counts(d), Len(d)) % 10 = 0
<1> DEFINE n == Len(d)
           r == Reverse(d)
           w == [i \in 1 .. n |-> IF i % 2 = 0 THEN Double(r[i]) ELSE r[i]]
           Sol(h) == h = [i \in 0 .. Len(d) |->
                             IF i = 0 THEN 0
                             ELSE h[i - 1] + (IF i % 2 = 0
                                              THEN IF 2 * Reverse(d)[i] > 9 THEN 2 * Reverse(d)[i] - 9
                                                   ELSE 2 * Reverse(d)[i]
                                              ELSE Reverse(d)[i])]
           total == CHOOSE h : Sol(h)
<1>0. n \in Nat /\ \A k \in 1 .. n : d[k] \in Int
  BY LenProperties, ElementOfSeq
<1>1. LuhnOk(d) <=> n \in 13 .. 19 /\ total[n] % 10 = 0
  BY DEF LuhnOk
<1>2. \A i \in 1 .. n : (n - i) + 1 \in 1 .. n /\ r[i] = d[(n - i) + 1]
  BY <1>0 DEF Reverse
<1>3. \A x \in Int : Double(x) \in Int
  BY DEF Double
<1>4. Values(w, n)
  <2>1. \A i \in 1 .. n : (IF i % 2 = 0 THEN Double(r[i]) ELSE r[i]) \in Int
    BY <1>0, <1>2, <1>3
  <2> QED BY <1>0, <2>1 DEF Values
<1>5. Values(Counts(d), n)
  <2>1. \A i \in 1 .. n : (IF (n - i) % 2 = 1 THEN Double(d[i]) ELSE d[i]) \in Int
    BY <1>0, <1>3
  <2> QED BY <1>0, <2>1 DEF Values, Counts
<1>6. ASSUME NEW i \in 1 .. n PROVE w[i] = Counts(d)[(n - i) + 1]
  <2> DEFINE k == (n - i) + 1
  <2>1. k \in 1 .. n /\ r[i] = d[k]
    BY <1>2
  <2>2. (n - k) % 2 = 1 <=> i % 2 = 0
    <3>1. n - k = i - 1 /\ i \in Int
      BY <1>0
    <3>2. (i - 1) % 2 = 1 <=> i % 2 = 0
      BY <3>1
    <3> QED BY <3>1, <3>2
  <2> HIDE DEF k
  <2>3. Counts(d)[k] = IF (n - k) % 2 = 1 THEN Double(d[k]) ELSE d[k]
    BY <2>1 DEF Counts
  <2>4. w[i] = Counts(d)[k]
    BY <2>1, <2>2, <2>3
  <2> QED BY <2>4 DEF k
<1>7. \A i \in 1 .. n : w[i] = IF i % 2 = 0 THEN (IF 2 * r[i] > 9 THEN 2 * r[i] - 9 ELSE 2 * r[i])
                               ELSE r[i]
  BY DEF Double
<1> HIDE DEF w
<1>8. PICK h : Adds(h, w, n)
  BY <1>4, AddsExists
<1>9. Sol(h)
  <2>1. h \in [0 .. n -> Int] /\ h[0] = 0 /\ \A k \in 1 .. n : h[k] = h[k - 1] + w[k]
    BY <1>8 DEF Adds
  <2>2. ASSUME NEW i \in 0 .. n
        PROVE  h[i] = IF i = 0 THEN 0
                      ELSE h[i - 1] + (IF i % 2 = 0
                                       THEN IF 2 * r[i] > 9 THEN 2 * r[i] - 9 ELSE 2 * r[i]
                                       ELSE r[i])
    <3>1. CASE i = 0
      BY <2>1, <3>1
    <3>2. CASE i # 0
      <4>1. i \in 1 .. n
        BY <1>0, <3>2
      <4>2. h[i] = h[i - 1] + w[i]
        BY <2>1, <4>1
      <4> QED BY <1>7, <3>2, <4>1, <4>2
    <3> QED BY <3>1, <3>2
  <2> QED BY <2>1, <2>2
<1>10. Sol(total)
  BY <1>9
<1> HIDE DEF total
<1>11. Adds(total, w, n)
  <2>1. 0 \in 0 .. n /\ \A i \in 1 .. n : i \in 0 .. n /\ i # 0 /\ i - 1 \in 0 .. n
    BY <1>0
  <2>2. total[0] = 0
    BY <1>10, <2>1
  <2>3. ASSUME NEW i \in 1 .. n PROVE total[i] = total[i - 1] + w[i]
    <3>1. total[i] = total[i - 1] + (IF i % 2 = 0
                                     THEN IF 2 * r[i] > 9 THEN 2 * r[i] - 9 ELSE 2 * r[i]
                                     ELSE r[i])
      BY <1>10, <2>1
    <3> QED BY <1>7, <3>1
  <2>4. \A k \in 0 .. n : total[k] = h[k]
    <3> DEFINE P == {k \in 0 .. n : total[k] = h[k]}
    <3>1. 0 \in P
      BY <1>8, <2>1, <2>2 DEF Adds
    <3>2. ASSUME NEW k \in 0 .. n - 1, k \in P PROVE k + 1 \in P
      <4> DEFINE m == k + 1
      <4>1. m \in 1 .. n /\ m \in 0 .. n /\ m - 1 = k
        BY <1>0
      <4> HIDE DEF m
      <4>2. h[m] = h[m - 1] + w[m] /\ total[m] = total[m - 1] + w[m]
        BY <1>8, <2>3, <4>1 DEF Adds
      <4>3. total[k] = h[k]
        BY <3>2
      <4>4. m \in P
        BY <4>1, <4>2, <4>3
      <4> QED BY <4>4 DEF m
    <3> HIDE DEF P
    <3>3. \A k \in 0 .. n : k \in P
      BY <1>0, <3>1, <3>2, UpTo
    <3> QED BY <3>3 DEF P
  <2>5. total = [k \in 0 .. n |-> total[k]]
    BY <1>10
  <2>6. \A k \in 0 .. n : total[k] \in Int
    BY <1>8, <2>4 DEF Adds
  <2>7. total \in [0 .. n -> Int]
    BY <2>5, <2>6
  <2> QED BY <2>2, <2>3, <2>7 DEF Adds
<1>12. total[n] = Total(w, n)
  BY <1>4, <1>11, TotalIs
<1>13. Total(w, n) = Total(Counts(d), n)
  BY <1>4, <1>5, <1>6, TotalReversed
<1> QED BY <1>1, <1>12, <1>13

\* Whatever the digits are, the code and the standard agree on them.
THEOREM LuhnIsCard ==
    ASSUME NEW d \in Seq(Int) PROVE LuhnOk(d) <=> IsCard(d)
<1> DEFINE n == Len(d)
           all == 1 .. n
           doubled == {i \in all : (n - i) % 2 = 1}
           high == {i \in doubled : d[i] > 4}
           nines == [i \in all |-> -9]
           both == [i \in all |-> At(d, n, all)[i] + At(d, n, doubled)[i]]
<1>0. n \in Nat /\ DOMAIN d = all /\ \A k \in all : d[k] \in Int
  BY LenProperties, ElementOfSeq
<1>1. Values(d, n)
  <2>1. d \in [1 .. n -> Int]
    BY SeqDef, LenProperties
  <2> QED BY <1>0, <2>1 DEF Values
<1>2. FoldSet(LAMBDA i, total : total + d[i], 0, all) = TotalAt(d, n, all)
  <2>1. all \in SUBSET (1 .. n)
    OBVIOUS
  <2> QED BY <2>1, SetSum
<1>3. FoldSet(LAMBDA i, total : total + d[i], 0, doubled) = TotalAt(d, n, doubled)
  <2>1. doubled \in SUBSET (1 .. n)
    OBVIOUS
  <2> HIDE DEF doubled
  <2> QED BY <2>1, SetSum
<1>4. IsCard(d) <=>
        n \in 13 .. 19
        /\ (TotalAt(d, n, all) + TotalAt(d, n, doubled) - 9 * Cardinality(high)) % 10 = 0
  BY <1>0, <1>2, <1>3 DEF IsCard
<1>5. Values(nines, n)
  BY <1>0 DEF Values
<1>6. high \in SUBSET (1 .. n)
  OBVIOUS
<1>7. /\ Values(At(d, n, all), n) /\ Values(At(d, n, doubled), n)
      /\ Values(At(nines, n, high), n)
  <2> HIDE DEF nines, all, doubled, high
  <2> QED BY <1>1, <1>5, AtValues
<1>8. Values(both, n)
  <2>1. \A i \in all : At(d, n, all)[i] \in Int /\ At(d, n, doubled)[i] \in Int
    BY <1>7 DEF Values
  <2>2. \A i \in all : At(d, n, all)[i] + At(d, n, doubled)[i] \in Int
    BY <2>1
  <2> QED BY <1>0, <2>2 DEF Values
<1>9. Values(Counts(d), n)
  <2>1. \A i \in 1 .. n : (IF (n - i) % 2 = 1 THEN Double(d[i]) ELSE d[i]) \in Int
    BY <1>0 DEF Double
  <2> QED BY <1>0, <2>1 DEF Values, Counts
<1>10. \A i \in 1 .. n : Counts(d)[i] = both[i] + At(nines, n, high)[i]
  <2> SUFFICES ASSUME NEW i \in 1 .. n PROVE Counts(d)[i] = both[i] + At(nines, n, high)[i]
    OBVIOUS
  <2>1. Counts(d)[i] = IF i \in doubled THEN Double(d[i]) ELSE d[i]
    BY DEF Counts
  <2>2. both[i] = d[i] + IF i \in doubled THEN d[i] ELSE 0
    BY DEF At
  <2>3. At(nines, n, high)[i] = IF i \in high THEN -9 ELSE 0
    BY DEF At
  <2>4. i \in high <=> i \in doubled /\ d[i] > 4
    OBVIOUS
  <2>5. d[i] \in Int
    BY <1>0
  <2> DEFINE x == d[i]
  <2> HIDE DEF x, both, high, doubled, nines
  <2>6. x \in Int /\ Counts(d)[i] = (IF i \in doubled THEN Double(x) ELSE x)
        /\ both[i] = (x + IF i \in doubled THEN x ELSE 0)
        /\ (i \in high <=> i \in doubled /\ x > 4)
    BY <2>1, <2>2, <2>4, <2>5 DEF x
  <2>7. Double(x) = IF x > 4 THEN (x + x) + (-9) ELSE (x + x) + 0
    BY <2>6 DEF Double
  <2>8. CASE i \in doubled
    BY <2>3, <2>6, <2>7, <2>8
  <2>9. CASE i \notin doubled
    BY <2>3, <2>6, <2>9
  <2> QED BY <2>8, <2>9
<1>11. \A i \in 1 .. n : both[i] = At(d, n, all)[i] + At(d, n, doubled)[i]
  OBVIOUS
<1>12. TotalAt(nines, n, high) = -9 * Cardinality(high)
  <2> DEFINE f == [s \in SUBSET high |-> -9 * Cardinality(s)]
  <2>1. \A s \in SUBSET high : IsFiniteSet(s) /\ Cardinality(s) \in Nat
    <3>1. IsFiniteSet(1 .. n)
      <4>1. 1 \in Int /\ n \in Int
        BY <1>0
      <4> QED BY <4>1, FS_Interval
    <3>2. \A s \in SUBSET high : s \in SUBSET (1 .. n)
      BY <1>6
    <3> QED BY <3>1, <3>2, FS_Subset, FS_CardinalityType
  <2>2. f[{}] = 0
    <3>1. Cardinality({}) = 0
      BY FS_EmptySet
    <3> QED BY <3>1
  <2>3. ASSUME NEW s \in SUBSET high, s # {} PROVE \E x \in s : f[s] = f[s \ {x}] + nines[x]
    <3>1. PICK x \in s : TRUE
      BY <2>3
    <3>2. Cardinality(s \ {x}) = Cardinality(s) - 1
      BY <2>1, FS_RemoveElement
    <3>3. nines[x] = -9
      BY <1>6
    <3>4. f[s] = -9 * Cardinality(s) /\ f[s \ {x}] = -9 * Cardinality(s \ {x})
      OBVIOUS
    <3> DEFINE c == Cardinality(s)
    <3>5. c \in Nat /\ Cardinality(s \ {x}) = c - 1
      BY <2>1, <3>2
    <3> HIDE DEF c
    <3>6. -9 * c = (-9 * (c - 1)) + (-9)
      BY <3>5
    <3> QED BY <3>3, <3>4, <3>5, <3>6 DEF c
  <2> HIDE DEF f, nines, high
  <2>4. Takes(f, nines, high)
    BY <2>2, <2>3 DEF Takes
  <2>5. f[high] = TotalAt(nines, n, high)
    BY <1>5, <1>6, <2>4, SetTotal
  <2> QED BY <2>5 DEF f
<1> HIDE DEF both, nines, high, doubled, all
<1>13. Total(Counts(d), n) = Total(both, n) + Total(At(nines, n, high), n)
  BY <1>7, <1>8, <1>9, <1>10, TotalSum
<1>14. Total(both, n) = Total(At(d, n, all), n) + Total(At(d, n, doubled), n)
  BY <1>7, <1>8, <1>11, TotalSum
<1>15. /\ Total(At(d, n, all), n) \in Int /\ Total(At(d, n, doubled), n) \in Int
       /\ Total(At(nines, n, high), n) \in Int
  <2>1. \A v : Values(v, n) => Total(v, n) \in Int
    <3> SUFFICES ASSUME NEW v, Values(v, n) PROVE Total(v, n) \in Int
      OBVIOUS
    <3>1. PICK h : Adds(h, v, n)
      BY AddsExists
    <3> QED BY <3>1, TotalIs
  <2> QED BY <1>7, <2>1
<1> DEFINE c == Cardinality(high)
           x == Total(At(d, n, all), n)
           y == Total(At(d, n, doubled), n)
<1>16. c \in Nat
  <2>1. IsFiniteSet(1 .. n)
    <3>1. 1 \in Int /\ n \in Int
      BY <1>0
    <3> QED BY <3>1, FS_Interval
  <2>2. IsFiniteSet(high)
    BY <1>6, <2>1, FS_Subset
  <2> QED BY <2>2, FS_CardinalityType
<1>17. x \in Int /\ y \in Int /\ Total(Counts(d), n) = (x + y) + (-9 * c)
  BY <1>12, <1>13, <1>14, <1>15 DEF TotalAt
<1>18. IsCard(d) <=> n \in 13 .. 19 /\ (x + y - 9 * c) % 10 = 0
  BY <1>4 DEF TotalAt
<1> HIDE DEF c, x, y
<1>19. (x + y) + (-9 * c) = x + y - 9 * c
  BY <1>16, <1>17
<1>20. LuhnOk(d) <=> n \in 13 .. 19 /\ Total(Counts(d), n) % 10 = 0
  BY LuhnTotal
<1> QED BY <1>17, <1>18, <1>19, <1>20

----------------------------------------------------------------------------
(* Each piece is masked for what it is, once. *)

\* A phone number's mask keeps the last two digits.
LEMMA PhoneShown ==
    ASSUME NEW p, p \in Seq(Int), Len(Digits(p)) \in 10 .. 15
    PROVE  LET d == Digits(p) IN
           /\ MaskPhone(p) = <<MaskedPhone, d[Len(d) - 1], d[Len(d)]>>
           /\ MaskText(MaskPhone(p)) = MaskPhone(p)
           /\ MaskPhone(p) \in Seq(Int) /\ MaskPhone(p) # <<>>
<1> DEFINE d == Digits(p)
           l == Len(d)
           k == l - 1
           tail == SubSeq(d, k, l)
           x == d[k]
           y == d[l]
           r == <<MaskedPhone, x, y>>
           q == <<MaskedPhone>> \o tail
<1>0. d \in Seq(Int) /\ l \in Nat /\ DOMAIN d = 1 .. l /\ l \in 10 .. 15
  BY DigitsType, LenProperties
<1>1. MaskPhone(p) = q
  BY <1>0 DEF MaskPhone
<1>2. ToSet(d) \subseteq Digit
  BY OnlySet DEF Digits
<1>3. k \in 1 .. l /\ l \in 1 .. l /\ k \in Int /\ l \in Int /\ k <= l /\ l - k + 1 = 2
      /\ k + 1 - 1 = k /\ k + 2 - 1 = l /\ \A i \in k .. l : i \in 1 .. l
  <2>1. l \in Nat /\ l \in 10 .. 15
    BY <1>0
  <2> HIDE DEF l
  <2> QED BY <2>1
<1> HIDE DEF d, l, k
<1>4. \A i \in 1 .. l : d[i] \in Digit /\ d[i] \in Int /\ d[i] # AtDomain
  <2>1. \A i \in 1 .. l : d[i] \in Digit
    BY <1>0, <1>2 DEF ToSet
  <2>2. \A c \in Digit : c \in Int /\ c # AtDomain
    BY DEF Digit, AtDomain
  <2> QED BY <2>1, <2>2
<1>5. x \in Int /\ y \in Int /\ x # AtDomain /\ y # AtDomain
  BY <1>3, <1>4
<1>6. tail \in Seq(Int) /\ Len(tail) = 2 /\ tail[1] = x /\ tail[2] = y
  <2>1. \A i \in k .. l : d[i] \in Int
    BY <1>3, <1>4
  <2>2. /\ tail \in Seq(Int) /\ Len(tail) = IF k <= l THEN l - k + 1 ELSE 0
        /\ \A i \in 1 .. l - k + 1 : tail[i] = d[k + i - 1]
    BY <1>3, <2>1, SubSeqProperties
  <2>3. 1 \in 1 .. l - k + 1 /\ 2 \in 1 .. l - k + 1
    BY <1>3
  <2> HIDE DEF tail
  <2>4. tail[1] = d[k + 1 - 1] /\ tail[2] = d[k + 2 - 1]
    BY <2>2, <2>3
  <2> QED BY <1>3, <2>2, <2>4
<1> HIDE DEF tail
<1>7. MaskedPhone \in Int
  BY DEF MaskedPhone
<1> HIDE DEF x, y
<1>8. r \in Seq(Int) /\ Len(r) = 3 /\ r[1] = MaskedPhone /\ r[2] = x /\ r[3] = y
  BY <1>5, <1>7
<1>9. q \in Seq(Int) /\ Len(q) = 3 /\ q[1] = MaskedPhone /\ q[2] = x /\ q[3] = y
  <2> DEFINE m == <<MaskedPhone>>
  <2>1. m \in Seq(Int) /\ Len(m) = 1 /\ m[1] = MaskedPhone
    BY <1>7, OneCharacter
  <2> HIDE DEF m
  <2>2. /\ m \o tail \in Seq(Int) /\ Len(m \o tail) = Len(m) + Len(tail)
        /\ \A i \in 1 .. Len(m) + Len(tail) :
              (m \o tail)[i] = IF i <= Len(m) THEN m[i] ELSE tail[i - Len(m)]
    BY <1>6, <2>1, ConcatProperties
  <2>3. Len(m) + Len(tail) = 3
    BY <1>6, <2>1
  <2>4. (m \o tail)[1] = m[1] /\ (m \o tail)[2] = tail[1] /\ (m \o tail)[3] = tail[2]
    BY <2>1, <2>2, <2>3
  <2> QED BY <1>6, <2>1, <2>2, <2>3, <2>4 DEF m
<1> HIDE DEF q, r
<1>10. q = r
  <2>1. \A i \in 1 .. 3 : i = 1 \/ i = 2 \/ i = 3
    OBVIOUS
  <2>2. \A i \in 1 .. 3 : q[i] = r[i]
    BY <1>8, <1>9, <2>1
  <2> QED BY <1>8, <1>9, <2>2, SeqEqual
<1>11. MaskText(r) = r
  BY <1>5, PhoneMaskStays DEF r
<1>12. r # <<>>
  <2>1. Len(r) # 0
    BY <1>8
  <2> QED BY <2>1, EmptySeq
<1>13. MaskPhone(p) = r
  BY <1>1, <1>10
<1>14. r = <<MaskedPhone, d[l - 1], d[l]>>
  BY DEF r, x, y, k
<1> QED BY <1>8, <1>11, <1>12, <1>13, <1>14 DEF d, l

LEMMA NumberMasked ==
    ASSUME NEW p, p \in Seq(Int), p # <<>>, IsNumber(p)
    PROVE  MaskText(p) = (IF LuhnOk(Digits(p)) THEN PlusOf(p) \o <<MaskedCard>> ELSE MaskPhone(p))
           /\ AtDomain \notin ToSet(p)
<1> DEFINE f == FirstDigit(p)
           n == Len(p)
           l == Len(Digits(p))
<1>1. Shape(p, f, n, l) /\ AtDomain \notin ToSet(p)
  BY NumberShape
<1> HIDE DEF f, n, l
<1>2. Substitute(p, EmailEnd, MaskEmail) = p
  BY <1>1, EmailUntouched
<1>3. Substitute(p, CardEnd, MaskCard) =
          IF LuhnOk(Digits(p)) THEN PlusOf(p) \o <<MaskedCard>> ELSE p
  BY <1>1, NumberCards
<1>4. Substitute(p, PhoneEnd, MaskPhone) = MaskPhone(p)
  BY <1>1, NumberPhones
<1>5. PlusOf(p) \in {<<>>, <<Plus>>}
  BY DEF PlusOf
<1> DEFINE c == PlusOf(p) \o <<MaskedCard>>
<1>6. Substitute(c, PhoneEnd, MaskPhone) = c
  BY <1>5, MasksStay
<1>7. MaskText(p) = Substitute(Substitute(p, CardEnd, MaskCard), PhoneEnd, MaskPhone)
  BY <1>2 DEF MaskText
<1> HIDE DEF c
<1>8. CASE LuhnOk(Digits(p))
  <2>1. Substitute(p, CardEnd, MaskCard) = c
    BY <1>3, <1>8 DEF c
  <2>2. MaskText(p) = c
    BY <1>6, <1>7, <2>1
  <2> QED BY <1>1, <1>8, <2>2 DEF c
<1>9. CASE ~ LuhnOk(Digits(p))
  <2>1. Substitute(p, CardEnd, MaskCard) = p
    BY <1>3, <1>9
  <2>2. MaskText(p) = MaskPhone(p)
    BY <1>4, <1>7, <2>1
  <2> QED BY <1>1, <1>9, <2>2
<1> QED BY <1>8, <1>9

IsPiece(p) == p \in Seq(Int) /\ p # <<>> /\ (IsAddress(p) \/ IsNumber(p) \/ HoldsNone(p))
Text(p) == p \in Seq(Int) /\ p # <<>>

LEMMA PieceMasked ==
    ASSUME NEW p, IsPiece(p)
    PROVE  MaskText(p) = Shown(p) /\ MaskText(Shown(p)) = Shown(p) /\ Text(Shown(p))
<1> DEFINE d == Digits(p)
           l == Len(d)
           plus == PlusOf(p)
           ten == <<MaskedPhone, d[Len(d) - 1], d[Len(d)]>>
<1>0. p \in Seq(Int) /\ p # <<>> /\ d \in Seq(Int) /\ l \in Nat
  BY DigitsType DEF IsPiece
<1>1. /\ AtDomain \in ToSet(p) => Shown(p) = <<MaskedEmail>>
      /\ AtDomain \notin ToSet(p) /\ IsCard(d) => Shown(p) = plus \o <<MaskedCard>>
      /\ AtDomain \notin ToSet(p) /\ ~ IsCard(d) /\ l \in 10 .. 15 => Shown(p) = ten
      /\ AtDomain \notin ToSet(p) /\ ~ IsCard(d) /\ l \notin 10 .. 15 => Shown(p) = p
  BY DEF Shown, PlusOf
<1>2. IsCard(d) <=> LuhnOk(d)
  BY <1>0, LuhnIsCard
<1>3. LuhnOk(d) => l \in 13 .. 19
  BY DEF LuhnOk
<1> HIDE DEF ten
<1>4. CASE IsAddress(p)
  <2>1. MaskText(p) = <<MaskedEmail>> /\ AtDomain \in ToSet(p)
    BY <1>0, <1>4, AddressMasked
  <2>2. MaskText(<<MaskedEmail>>) = <<MaskedEmail>>
    BY MasksStay
  <2>3. Text(<<MaskedEmail>>)
    <3>1. MaskedEmail \in Int
      BY DEF MaskedEmail
    <3>2. <<MaskedEmail>> \in Seq(Int) /\ Len(<<MaskedEmail>>) = 1
      BY <3>1, OneCharacter
    <3> QED BY <3>2, EmptySeq DEF Text
  <2> QED BY <1>1, <2>1, <2>2, <2>3
<1>5. CASE IsNumber(p)
  <2>1. MaskText(p) = (IF LuhnOk(d) THEN plus \o <<MaskedCard>> ELSE MaskPhone(p))
        /\ AtDomain \notin ToSet(p)
    BY <1>0, <1>5, NumberMasked
  <2>2. CASE LuhnOk(d)
    <3> DEFINE c == plus \o <<MaskedCard>>
    <3>1. plus \in {<<>>, <<Plus>>}
      BY DEF PlusOf
    <3>2. c \in Seq(Int) /\ MaskText(c) = c
      BY <3>1, MasksStay
    <3>3. c # <<>>
      <4>1. plus \in Seq(Int) /\ <<MaskedCard>> \in Seq(Int) /\ Len(<<MaskedCard>>) = 1
        <5>1. Plus \in Int /\ MaskedCard \in Int
          BY DEF Plus, MaskedCard
        <5> QED BY <3>1, <5>1, OneCharacter, EmptySeq
      <4>2. Len(c) = Len(plus) + 1 /\ Len(plus) \in Nat
        BY <4>1, ConcatProperties, LenProperties
      <4>3. Len(c) # 0
        BY <4>2
      <4> QED BY <4>3, EmptySeq
    <3> HIDE DEF c, plus
    <3>4. Shown(p) = c /\ MaskText(p) = c
      BY <1>1, <1>2, <2>1, <2>2 DEF c
    <3> QED BY <3>2, <3>3, <3>4 DEF Text
  <2>3. CASE ~ LuhnOk(d) /\ l \in 10 .. 15
    <3>1. MaskPhone(p) = ten /\ MaskText(MaskPhone(p)) = MaskPhone(p)
          /\ MaskPhone(p) \in Seq(Int) /\ MaskPhone(p) # <<>>
      BY <1>0, <2>3, PhoneShown DEF ten
    <3>2. Shown(p) = ten /\ MaskText(p) = MaskPhone(p)
      BY <1>1, <1>2, <2>1, <2>3
    <3> QED BY <3>1, <3>2 DEF Text
  <2>4. CASE ~ LuhnOk(d) /\ l \notin 10 .. 15
    <3>1. MaskPhone(p) = p
      BY <2>4 DEF MaskPhone
    <3>2. Shown(p) = p /\ MaskText(p) = p
      BY <1>1, <1>2, <2>1, <2>4, <3>1
    <3> QED BY <1>0, <3>2 DEF Text
  <2> QED BY <2>2, <2>3, <2>4
<1>6. CASE HoldsNone(p)
  <2>1. AtDomain \notin ToSet(p) /\ l < 10
    BY <1>6 DEF HoldsNone
  <2>2. MaskText(p) = p
    BY <1>0, <2>1, NoneMasked
  <2>3. l \notin 13 .. 19 /\ l \notin 10 .. 15
    <3>1. l \in Nat /\ l < 10
      BY <1>0, <2>1
    <3> HIDE DEF l
    <3> QED BY <3>1
  <2>4. Shown(p) = p
    BY <1>1, <1>2, <1>3, <2>1, <2>3
  <2> QED BY <1>0, <2>2, <2>4 DEF Text
<1> QED BY <1>4, <1>5, <1>6 DEF IsPiece

----------------------------------------------------------------------------
(* Pieces with commas between them. *)

Longer(all, piece) == IF all = <<>> THEN piece ELSE all \o <<Comma>> \o piece
Strings == Seq(Int)
JoinSteps == [piece \in Strings |-> [all \in Strings |-> Longer(all, piece)]]

LEMMA LongerType ==
    ASSUME NEW a \in Strings, NEW b \in Strings PROVE Longer(a, b) \in Strings
<1>1. a \o <<Comma>> \o b \in Seq(Int)
  BY WithComma DEF Strings
<1> QED BY <1>1 DEF Longer, Strings

LEMMA JoinStepsType ==
    /\ <<>> \in Strings /\ Steps(Strings, Strings, JoinSteps)
    /\ \A c \in Strings, v \in Strings : JoinSteps[c][v] = Longer(v, c)
<1>1. \A c \in Strings, v \in Strings : JoinSteps[c][v] = Longer(v, c)
  BY DEF JoinSteps
<1>2. \A c \in Strings, v \in Strings : JoinSteps[c][v] \in Strings
  BY <1>1, LongerType
<1>3. <<>> \in Strings
  BY EmptySeq DEF Strings
<1> QED BY <1>1, <1>2, <1>3 DEF Steps

LEMMA JoinedFolds ==
    ASSUME NEW s \in Seq(Strings)
    PROVE  Joined(s) = Folding(Strings, <<>>, JoinSteps, s)
<1> DEFINE n == Len(s)
           T == Strings
           V == Strings
           base == <<>>
           step == JoinSteps
           Sol(h) == h = [u \in SUBSET DOMAIN s |->
                             IF u = {} THEN <<>>
                             ELSE IF h[u \ {Max(u)}] = <<>> THEN s[Max(u)]
                                  ELSE h[u \ {Max(u)}] \o <<Comma>> \o s[Max(u)]]
           it == CHOOSE h : Sol(h)
<1>0. n \in Nat /\ DOMAIN s = 1 .. n /\ \A k \in 1 .. n : s[k] \in T
  BY LenProperties, ElementOfSeq
<1>1. base \in V /\ Steps(T, V, step)
  BY JoinStepsType
<1>2. ASSUME NEW c \in T, NEW v \in V PROVE step[c][v] = Longer(v, c)
  BY <1>2, JoinStepsType
<1>3. PICK f : SetFolded(f, V, base, step, s)
  <2> HIDE DEF step, V, base
  <2> QED BY <1>1, SetFoldExists
<1>4. Sol(f)
  <2>1. ASSUME NEW u \in SUBSET (1 .. n), u # {}
        PROVE  s[Max(u)] \in T /\ f[u \ {Max(u)}] \in V
    <3>1. Max(u) \in 1 .. n /\ u \ {Max(u)} \in SUBSET (1 .. n)
      BY <1>0, <2>1, LastPlace
    <3> QED BY <1>0, <1>3, <3>1 DEF SetFolded
  <2> HIDE DEF step, V, T, base, n
  <2>2. f = [u \in SUBSET (1 .. n) |->
               IF u = {} THEN base ELSE step[s[Max(u)]][f[u \ {Max(u)}]]]
    BY <1>3, ZenonT(40) DEF SetFolded, n
  <2>3. ASSUME NEW u \in SUBSET (1 .. n), u # {}
        PROVE  step[s[Max(u)]][f[u \ {Max(u)}]] = Longer(f[u \ {Max(u)}], s[Max(u)])
    BY <1>2, <2>1, <2>3
  <2> QED BY <1>0, <2>2, <2>3, ZenonT(40) DEF base, Longer
<1>5. Sol(it)
  BY <1>4, Zenon
<1>6. Joined(s) = it[1 .. n]
  BY <1>0 DEF Joined, FoldLeft, MapThenFoldSet
<1> HIDE DEF it
<1>7. it[{}] = base
  <2>1. {} \in SUBSET DOMAIN s
    OBVIOUS
  <2> QED BY <1>5, <2>1
<1>8. ASSUME NEW k \in 1 .. n, it[1 .. k - 1] \in V
      PROVE  it[1 .. k] = step[s[k]][it[1 .. k - 1]]
  <2>1. /\ 1 .. k \in SUBSET DOMAIN s /\ 1 .. k # {} /\ Max(1 .. k) = k
        /\ (1 .. k) \ {Max(1 .. k)} = 1 .. k - 1
    BY <1>0, InitialSegment
  <2> DEFINE u == 1 .. k
             w == 1 .. k - 1
  <2> HIDE DEF u, w
  <2>2. u \in SUBSET DOMAIN s /\ u # {} /\ Max(u) = k /\ u \ {Max(u)} = w
    BY <2>1 DEF u, w
  <2>3. it[u] = Longer(it[w], s[k])
    BY <1>5, <2>2 DEF Longer
  <2>4. it[w] \in V /\ s[k] \in T
    BY <1>0, <1>8 DEF w
  <2>5. it[u] = step[s[k]][it[w]]
    BY <1>2, <2>3, <2>4
  <2> QED BY <2>5 DEF u, w
<1>9. it[1 .. n] = Folding(V, base, step, s)
  <2>1. s \in Seq(T)
    OBVIOUS
  <2> HIDE DEF V, T, base, step
  <2> QED BY <1>1, <1>7, <1>8, <2>1, SegmentFold
<1> QED BY <1>6, <1>9

\* One piece more.
LEMMA JoinedAppend ==
    ASSUME NEW s \in Seq(Strings), NEW x \in Strings
    PROVE  /\ Joined(<<>>) = <<>>
           /\ Joined(s) \in Strings
           /\ Joined(Append(s, x)) = Longer(Joined(s), x)
<1> DEFINE V == Strings
           base == <<>>
           step == JoinSteps
<1>1. base \in V /\ Steps(V, V, step)
  BY JoinStepsType
<1>2. /\ Joined(<<>>) = Folding(V, base, step, <<>>)
      /\ Joined(s) = Folding(V, base, step, s)
      /\ Joined(Append(s, x)) = Folding(V, base, step, Append(s, x))
  <2>1. <<>> \in Seq(V) /\ Append(s, x) \in Seq(V)
    BY EmptySeq, AppendProperties
  <2>2. \A r \in Seq(V) : Joined(r) = Folding(V, base, step, r)
    BY JoinedFolds
  <2> QED BY <2>1, <2>2
<1>3. /\ Folding(V, base, step, <<>>) = base
      /\ Folding(V, base, step, s) \in V
      /\ Folding(V, base, step, Append(s, x)) = step[x][Folding(V, base, step, s)]
  <2> HIDE DEF V, base, step
  <2>1. s \in Seq(V) /\ x \in V
    BY DEF V
  <2> QED BY <1>1, <2>1, FoldingAppend
<1>4. step[x][Joined(s)] = Longer(Joined(s), x)
  BY <1>2, <1>3, JoinStepsType
<1> QED BY <1>2, <1>3, <1>4

LEMMA NothingToMask == MaskText(<<>>) = <<>>
<1>1. <<>> \in Seq(Int) /\ Digits(<<>>) = <<>> /\ ToSet(<<>>) = {} /\ Len(<<>>) = 0
  BY EmptySeq, OnlyEmpty DEF Digits, ToSet
<1>2. Len(Digits(<<>>)) < 10 /\ AtDomain \notin ToSet(<<>>)
  BY <1>1
<1> QED BY <1>1, <1>2, NoneMasked

\* What two texts become, with a comma or alone.
LEMMA LongerMasked ==
    ASSUME NEW a \in Strings, NEW b \in Strings, MaskText(a) \in Strings, MaskText(b) \in Strings,
           a = <<>> <=> MaskText(a) = <<>>
    PROVE  MaskText(Longer(a, b)) = Longer(MaskText(a), MaskText(b))
<1>1. CASE a = <<>>
  BY <1>1 DEF Longer
<1>2. CASE a # <<>>
  <2>1. MaskText(a \o <<Comma>> \o b) = MaskText(a) \o <<Comma>> \o MaskText(b)
    BY NothingCrossesComma DEF Strings
  <2> QED BY <1>2, <2>1 DEF Longer
<1> QED BY <1>1, <1>2

ShownOf(E) == [p \in E |-> Shown(p)]

\* s are pieces, and t is what is left of them.
Pairs(s, t) ==
    /\ s \in Seq(Strings) /\ t \in Seq(Strings)
    /\ MaskText(Joined(s)) = Joined(t) /\ MaskText(Joined(t)) = Joined(t)
    /\ Joined(s) = <<>> <=> Joined(t) = <<>>

LEMMA PairsAppend ==
    ASSUME NEW s, NEW t, Pairs(s, t), NEW x, IsPiece(x)
    PROVE  Pairs(Append(s, x), Append(t, Shown(x)))
<1> DEFINE y == Shown(x)
           a == Joined(s)
           b == Joined(t)
<1>1. x \in Strings /\ x # <<>> /\ MaskText(x) = y /\ MaskText(y) = y /\ y \in Strings /\ y # <<>>
  BY PieceMasked DEF IsPiece, Text, Strings
<1> HIDE DEF y
<1>2. /\ s \in Seq(Strings) /\ t \in Seq(Strings)
      /\ MaskText(a) = b /\ MaskText(b) = b /\ (a = <<>> <=> b = <<>>)
  BY DEF Pairs
<1>3. Append(s, x) \in Seq(Strings) /\ Append(t, y) \in Seq(Strings)
  BY <1>1, <1>2, AppendProperties
<1>4. /\ a \in Strings /\ Joined(Append(s, x)) = Longer(a, x)
  BY <1>1, <1>2, JoinedAppend
<1>5. /\ b \in Strings /\ Joined(Append(t, y)) = Longer(b, y)
  BY <1>1, <1>2, JoinedAppend
<1> HIDE DEF a, b
<1>6. MaskText(Longer(a, x)) = Longer(b, y)
  <2>1. MaskText(Longer(a, x)) = Longer(MaskText(a), MaskText(x))
    BY <1>1, <1>2, <1>4, <1>5, LongerMasked
  <2> QED BY <1>1, <1>2, <2>1
<1>7. MaskText(Longer(b, y)) = Longer(b, y)
  <2>1. MaskText(Longer(b, y)) = Longer(MaskText(b), MaskText(y))
    BY <1>1, <1>2, <1>4, <1>5, LongerMasked
  <2> QED BY <1>1, <1>2, <2>1
<1>8. ASSUME NEW c \in Strings, NEW z \in Strings, z # <<>> PROVE Longer(c, z) # <<>>
  <2>1. CASE c = <<>>
    BY <1>8, <2>1 DEF Longer
  <2>2. CASE c # <<>>
    <3> DEFINE w == c \o <<Comma>> \o z
    <3>1. Len(w) = Len(c) + 1 + Len(z) /\ Len(c) \in Nat /\ Len(z) \in Nat /\ w \in Seq(Int)
      BY WithComma DEF Strings
    <3> HIDE DEF w
    <3>2. Len(w) # 0
      BY <3>1
    <3>3. w # <<>>
      BY <3>2, EmptySeq
    <3> QED BY <2>2, <3>3 DEF Longer, w
  <2> QED BY <2>1, <2>2
<1>9. Longer(a, x) # <<>> /\ Longer(b, y) # <<>>
  BY <1>1, <1>4, <1>5, <1>8
<1> QED BY <1>3, <1>4, <1>5, <1>6, <1>7, <1>9 DEF Pairs, y

LEMMA JoinedMasked ==
    ASSUME NEW E, \A p \in E : IsPiece(p), NEW s \in Seq(E)
    PROVE  Pairs(s, Mapped(ShownOf(E), s))
<1> DEFINE f == ShownOf(E)
           P == {r \in Seq(E) : Pairs(r, Mapped(f, r))}
<1>1. \A p \in E : f[p] = Shown(p)
  BY DEF ShownOf
<1> HIDE DEF f
<1>2. <<>> \in P
  <2>1. <<>> \in Seq(E) /\ <<>> \in Seq(Strings)
    BY EmptySeq
  <2>2. Mapped(f, <<>>) = <<>>
    BY EmptySeq DEF Mapped
  <2>3. Joined(<<>>) = <<>>
    <3>1. <<>> \in Strings
      BY EmptySeq DEF Strings
    <3> QED BY <2>1, <3>1, JoinedAppend
  <2>4. Pairs(<<>>, <<>>)
    BY <2>1, <2>3, NothingToMask DEF Pairs
  <2> QED BY <2>1, <2>2, <2>4
<1>3. ASSUME NEW r \in Seq(E), NEW x \in E, r \in P PROVE Append(r, x) \in P
  <2>1. Append(r, x) \in Seq(E)
    BY AppendProperties
  <2>2. Mapped(f, Append(r, x)) = Append(Mapped(f, r), f[x])
    BY MappedAppend
  <2>3. Pairs(r, Mapped(f, r)) /\ IsPiece(x)
    BY <1>3
  <2>4. Pairs(Append(r, x), Append(Mapped(f, r), Shown(x)))
    BY <2>3, PairsAppend
  <2> QED BY <1>1, <2>1, <2>2, <2>4
<1> HIDE DEF P
<1>4. s \in P
  BY <1>2, <1>3, SequenceInduction
<1> QED BY <1>4 DEF P, f

----------------------------------------------------------------------------
(* The properties. *)

GivenPieces == kind = "numbers" => text \in Seq(Pieces["numbers"])

LEMMA PiecesGiven == Spec => []GivenPieces
<1>1. Init => GivenPieces
  BY EmptySeq DEF Init, GivenPieces
<1>2. GivenPieces /\ [Next]_vars => GivenPieces'
  <2> SUFFICES ASSUME GivenPieces, [Next]_vars, kind' = "numbers"
               PROVE  text' \in Seq(Pieces["numbers"])
    BY DEF GivenPieces
  <2>1. CASE Piece
    BY <2>1, AppendProperties DEF Piece, Grow, GivenPieces
  <2>2. CASE Character \/ Part \/ RunResponse \/ DigestRequest
    BY <2>2 DEF Character, Part, RunResponse, DigestRequest, Grow, Documents
  <2>3. CASE UNCHANGED vars
    BY <2>3 DEF vars, GivenPieces
  <2> QED BY <2>1, <2>2, <2>3 DEF Next
<1> QED BY <1>1, <1>2, PTL DEF Spec

LEMMA GivenMasked == GivenPieces => PiecesMasked /\ MaskedOnce
<1> SUFFICES ASSUME GivenPieces, kind = "numbers" PROVE PiecesMasked /\ MaskedOnce
  BY DEF PiecesMasked, MaskedOnce
<1> DEFINE E == Pieces["numbers"]
           f == ShownOf(E)
           t == Mapped(f, text)
<1>1. \A p \in E : IsPiece(p)
  BY PiecesAssumption DEF IsPiece
<1>2. text \in Seq(E)
  BY DEF GivenPieces
<1>3. \A i \in DOMAIN text : f[text[i]] = Shown(text[i])
  <2>1. \A i \in DOMAIN text : text[i] \in E
    BY <1>2, LenProperties, ElementOfSeq
  <2> HIDE DEF E
  <2> QED BY <2>1 DEF ShownOf
<1> HIDE DEF E, f
<1>4. Pairs(text, t)
  BY <1>1, <1>2, JoinedMasked DEF f
<1>5. t = [i \in DOMAIN text |-> Shown(text[i])]
  BY <1>3 DEF Mapped
<1> HIDE DEF t
<1>6. MaskText(Joined(text)) = Joined(t) /\ MaskText(Joined(t)) = Joined(t)
  BY <1>4 DEF Pairs
<1> QED BY <1>5, <1>6 DEF PiecesMasked, MaskedOnce

\* PiecesMasked of every text of addresses, numbers and other texts with commas
\* between them, however many there are and however long: each is masked for
\* what it is, whatever stands before and behind it.
THEOREM EachPieceMasked == Spec => []PiecesMasked
<1>1. GivenPieces => PiecesMasked
  BY GivenMasked
<1> QED BY <1>1, PiecesGiven, PTL

\* MaskedOnce of every such text: the ticketing service may mask what the
\* gateway masked, and nothing changes.
THEOREM MaskedTextStays == Spec => []MaskedOnce
<1>1. GivenPieces => MaskedOnce
  BY GivenMasked
<1> QED BY <1>1, PiecesGiven, PTL
=============================================================================
