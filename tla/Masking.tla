------------------------------ MODULE Masking ------------------------------
(***************************************************************************)
(* mask_text: e-mail addresses, then card numbers, then phone numbers are  *)
(* replaced in a text.  A text is a sequence of characters: the digits are *)
(* the numbers 0 .. 9, the other classes the patterns tell apart are the   *)
(* negative numbers below.  AtDomain is "@" with the domain behind it,     *)
(* and ends the address.                                                   *)
(***************************************************************************)
EXTENDS Integers, Sequences, FiniteSets, SequencesExt, Pattern

Space == -1
Dash == -2
Letter == -3
Plus == -4
Comma == -5        \* any character no pattern has a use for
AtDomain == -6
MaskedEmail == -11 \* [email]
MaskedCard == -12  \* ****-****-****-****
MaskedPhone == -13 \* "+** *** ** ** ", two digits follow

Digit == 0 .. 9
WordChar == Digit \cup {Letter, AtDomain}
LocalChar == Digit \cup {Letter, Dash, Plus}

Digits(text) == Only(text, Digit)
CharAt(text, i) == IF i \in DOMAIN text THEN text[i] ELSE Comma
Span(text, i, j) == {text[k] : k \in i .. j}
Best(ends, Better(_, _)) ==
    IF ends = {} THEN 0 ELSE CHOOSE j \in ends : \A k \in ends : ~ Better(k, j)

----------------------------------------------------------------------------
(* Cards *)

LuhnOk(digits) ==
    /\ Len(digits) \in 13 .. 19
    /\ LET double(d) == IF 2 * d > 9 THEN 2 * d - 9 ELSE 2 * d
           total[i \in 0 .. Len(digits)] ==
               IF i = 0 THEN 0
               ELSE total[i - 1] + (IF i % 2 = 0 THEN double(Reverse(digits)[i]) ELSE Reverse(digits)[i])
       IN total[Len(digits)] % 10 = 0

\* _CARD_CANDIDATE_RE: lazy separators, so it ends with the first group of
\* digits that makes 13 of them.
CardEnd(text, i) ==
    IF CharAt(text, i) \in Digit /\ CharAt(text, i - 1) \notin Digit
    THEN Best({j \in i .. Len(text) :
                  /\ text[j] \in Digit /\ CharAt(text, j + 1) \notin Digit
                  /\ Span(text, i, j) \subseteq Digit \cup {Space, Dash}
                  /\ Len(Digits(SubSeq(text, i, j))) \in 13 .. 19}, <)
    ELSE 0

MaskCard(raw) == IF LuhnOk(Digits(raw)) THEN <<MaskedCard>> ELSE raw

----------------------------------------------------------------------------
(* E-mail addresses and phones *)

\* _EMAIL_RE: from a word boundary over the local part up to its "@".
EmailEnd(text, i) ==
    IF CharAt(text, i) \in LocalChar /\ (text[i] \in WordChar) # (CharAt(text, i - 1) \in WordChar)
    THEN Best({j \in i + 1 .. Len(text) :
                  text[j] = AtDomain /\ Span(text, i, j - 1) \subseteq LocalChar}, <)
    ELSE 0

\* _PHONE_RE: greedy, 10 to 20 characters between two digits.
PhoneEnd(text, i) ==
    LET first == IF CharAt(text, i) = Plus THEN i + 1 ELSE i
    IN IF CharAt(text, first) \in Digit /\ CharAt(text, i - 1) \notin WordChar
       THEN Best({j \in first + 9 .. first + 19 :
                     /\ CharAt(text, j) \in Digit /\ CharAt(text, j + 1) \notin WordChar
                     /\ Span(text, first, j) \subseteq Digit \cup {Space, Dash}}, >)
       ELSE 0

\* Mutant of MaskPhone: the tail is digits[2:].
MaskPhoneLongTail(raw) ==
    LET digits == Digits(raw)
    IN IF Len(digits) \in 10 .. 15 THEN <<MaskedPhone>> \o SubSeq(digits, 3, Len(digits)) ELSE raw

MaskPhone(raw) ==
    LET digits == Digits(raw)
    IN IF Len(digits) \in 10 .. 15
       THEN <<MaskedPhone>> \o SubSeq(digits, Len(digits) - 1, Len(digits))
       ELSE raw

MaskEmail(raw) == <<MaskedEmail>>

\* Mutant of MaskText: phones come before cards.
MaskTextPhonesFirst(text) ==
    Substitute(Substitute(Substitute(text, EmailEnd, MaskEmail), PhoneEnd, MaskPhone),
               CardEnd, MaskCard)

MaskText(text) ==
    Substitute(Substitute(Substitute(text, EmailEnd, MaskEmail), CardEnd, MaskCard),
               PhoneEnd, MaskPhone)
=============================================================================
