------------------------------ MODULE Pattern ------------------------------
(***************************************************************************)
(* What the conversions have in common: choosing elements of a sequence,   *)
(* and re.sub of Python on a sequence of characters.                       *)
(***************************************************************************)
EXTENDS Integers, Sequences

\* The elements of a sequence that are in a set, in their order.
Only(seq, set) ==
    LET from[k \in 0 .. Len(seq)] ==
            IF k = 0 THEN <<>>
            ELSE IF seq[k] \in set THEN Append(from[k - 1], seq[k]) ELSE from[k - 1]
    IN from[Len(seq)]

\* re.sub: what a pattern matches is said by the end of its match at a position,
\* 0 when there is none.  The matches are taken from the left and do not overlap; Put
\* says what a match becomes.  A pattern looks at the original text around a position.
Substitute(text, MatchEnd(_, _), Put(_)) ==
    LET from[i \in 1 .. Len(text) + 1] ==
            IF i > Len(text) THEN <<>>
            ELSE LET j == MatchEnd(text, i)
                 IN IF j = 0 THEN <<text[i]>> \o from[i + 1]
                    ELSE Put(SubSeq(text, i, j)) \o from[j + 1]
    IN from[1]
=============================================================================
