------------------------------ MODULE MCTexts ------------------------------
(***************************************************************************)
(* Samples for TLC: alphabets and lengths of the documents, pieces, the    *)
(* responses and requests in which each field takes each of its values.    *)
(***************************************************************************)
EXTENDS Texts

AllKinds == {"html", "plain", "intake", "mime", "numbers", "response", "digest"}
AngleOnly == {"angle"}
CardsOnly == {"cards"}

Characters ==
    [html |-> {1, Nl, OpenBreak, OpenQuote, CloseQuote, OpenSkip, CloseSkip},
     plain |-> {1, Nl, Gt, Wrote, Lt},
     intake |-> {1, Hello, Insult, Override, OpenBreak, OpenQuote, CloseQuote, OpenSkip, CloseSkip},
     angle |-> {1, Lt, OpenBreak, OpenQuote, CloseQuote}]

Lengths == [html |-> 7, plain |-> 6, intake |-> 5, angle |-> 6, mime |-> 3,
            numbers |-> 2, cards |-> 1, response |-> 1, digest |-> 1]

\* Multiparts, and texts: an empty one, one of a word, one of two lines.
NestedParts ==
    [type : {"multipart"}, attached : BOOLEAN, depth : 1 .. 3, text : {<<>>}]
    \cup [type : {"plain", "html", "other"}, attached : BOOLEAN, depth : 1 .. 3,
          text : {<<>>, <<1>>, <<2, Nl, 3>>}]

\* A number of n digits: 5 in front, ones, and a last digit that makes the check
\* sum right, or 7; in groups of four with a separator between them, or none.
Number(n, last) == [i \in 1 .. n |-> IF i = 1 THEN 5 ELSE IF i = n THEN last ELSE 1]
Grouped(digits, separator) ==
    LET starts == {i \in DOMAIN digits : i % 4 = 1 /\ i > 1}
    IN FoldLeftDomain(LAMBDA all, i : (IF i \in starts THEN Append(all, separator) ELSE all)
                                      \o <<digits[i]>>, <<>>, digits)
Numbers(lengths) ==
    {Number(n, 7) : n \in lengths}
    \cup {number \in {Number(n, last) : n \in lengths, last \in 0 .. 9} : IsCard(number)}
Addresses == {<<Letter, AtDomain>>, <<4, Plus, 1, Dash, 1, AtDomain>>, Number(16, 1) \o <<AtDomain>>}
GroupedNumbers(lengths) ==
    {Grouped(number, separator) : number \in Numbers(lengths), separator \in {Space, Dash}}
SamplePieces ==
    [numbers |->
        Addresses \cup {<<Letter, 4, Space, 1>>}
        \cup Numbers({9, 10, 13, 15, 16, 19, 20}) \cup GroupedNumbers({10, 15, 16})
        \cup {<<Plus>> \o number : number \in Numbers({10, 13})},
     cards |-> GroupedNumbers(13 .. 19)]

SampleFiles == {<<>>, <<"plain1">>, <<"plain1", "plain2">>}
               \cup {<<"plain1", name>> : name \in Names \ Plain}
SampleResponses == Responses(SampleFiles)

Ticket(id, user, category) ==
    [NoFields EXCEPT !["ticket_id"] = id, !["user_id"] = user, !["category"] = category]
Escalated(ticket) == [ticket EXCEPT !["status"] = "escalated"]
SampleTickets == {NoFields, Escalated(NoFields), Ticket("t1", "ann", "bug"),
                  Escalated(Ticket("t2", "ann", "bug")), Ticket("", "", "bug"),
                  [Ticket("t3", "bob", "bug") EXCEPT !["text"] = "help"]}
TicketLists == UNION {[1 .. n -> SampleTickets] : n \in 0 .. 2}
SampleRequests ==
    [tickets : TicketLists, flat : SampleTickets, body : BodyKinds, listed : TicketLists]
=============================================================================
