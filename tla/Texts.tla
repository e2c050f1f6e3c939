------------------------------- MODULE Texts -------------------------------
(***************************************************************************)
(* The texts that pass through the gateway: the body of a mail on its way  *)
(* to the workflow, numbers and addresses that are masked, the response of *)
(* a run, the request for a digest.  A sample of one kind grows by a       *)
(* character, a part, a piece or a whole message at a time, and what the   *)
(* code makes of it is compared with a description of the whole sample.    *)
(***************************************************************************)
EXTENDS Masking, MailText, EndOutputs, DigestBody

CONSTANTS
    Kinds,          \* kinds of samples looked at
    Alphabet,       \* characters and tags of a document, by kind; 1 is a word
    MaxLength,      \* by kind
    Parts,          \* parts of a mail
    Pieces,         \* numbers and addresses, as texts, by kind
    RunResponses,   \* responses of Dify
    DigestRequests  \* requests for a digest

Documents == {"html", "plain", "intake", "angle"}
Lists == {"numbers", "cards"}

ASSUME KindsAssumption ==
    /\ Kinds \subseteq Documents \cup Lists \cup {"mime", "response", "digest"}
    /\ \A kind \in Kinds : MaxLength[kind] \in Nat

\* What the HTML of these kinds shows is words, for the intake also what its rules
\* look for: no text of it is a literal "<" or ">" or looks like the head of a quote.
ASSUME AlphabetAssumption ==
    /\ Alphabet["html"] \subseteq {1, Nl} \cup OpenTags \cup CloseTags
    /\ Alphabet["intake"] \subseteq
           Nat \cup {Hello, Insult, Override} \cup OpenTags \cup CloseTags

\* Parts of words and line breaks.
ASSUME PartsAssumption == Parts \subseteq PartsOver(Nat)

\* An address, whose name starts with a letter or a digit; a number, with a plus and
\* with separators or without; a text that holds neither.  A number with separators
\* is no longer than a phone number may be and has 13 digits only with its last group.
IsAddress(piece) ==
    /\ Len(piece) > 1 /\ piece[1] \in WordChar /\ piece[Len(piece)] = AtDomain
    /\ Span(piece, 1, Len(piece) - 1) \subseteq LocalChar
FirstDigit(piece) == IF piece[1] = Plus THEN 2 ELSE 1
IsNumber(piece) ==
    LET first == FirstDigit(piece)
        all == Span(piece, first, Len(piece))
    IN /\ first <= Len(piece) /\ piece[first] \in Digit /\ piece[Len(piece)] \in Digit
       /\ \/ all \subseteq Digit
          \/ /\ all \subseteq Digit \cup {Space, Dash} /\ Len(piece) - first < 20
             /\ \A i \in first .. Len(piece) - 1 :
                   piece[i] \in Digit /\ piece[i + 1] \notin Digit =>
                       Len(Digits(SubSeq(piece, 1, i))) < 13
HoldsNone(piece) == AtDomain \notin ToSet(piece) /\ Len(Digits(piece)) < 10

ASSUME PiecesAssumption ==
    \A piece \in Pieces["numbers"] :
        /\ piece \in Seq(Int) /\ piece # <<>>
        /\ IsAddress(piece) \/ IsNumber(piece) \/ HoldsNone(piece)

ASSUME ResponsesAssumption == RunResponses \subseteq Responses(Seq(Names))

ASSUME RequestsAssumption == DigestRequests \subseteq Requests(Seq(Tickets))

VARIABLES kind, text
vars == <<kind, text>>

Init == kind \in Kinds /\ text = <<>>

Room == Len(text) < MaxLength[kind]
Grow(item) == text' = Append(text, item) /\ UNCHANGED kind

\* Each word of a document is another one: its number is its place.
Character ==
    /\ kind \in Documents /\ Room
    /\ \E c \in Alphabet[kind] : Grow(IF c = 1 THEN Len(text) + 1 ELSE c)

\* A part comes inside the one before it when that is a multipart, or beside it or
\* beside one it is in.
PartFits(part) ==
    IF text = <<>> THEN part.depth = 1
    ELSE part.depth <= Last(text).depth + IF Last(text).type = "multipart" THEN 1 ELSE 0
Part == kind = "mime" /\ Room /\ \E part \in Parts : PartFits(part) /\ Grow(part)

Piece == kind \in Lists /\ Room /\ \E piece \in Pieces[kind] : Grow(piece)
RunResponse == kind = "response" /\ Room /\ \E response \in RunResponses : Grow(response)
DigestRequest == kind = "digest" /\ Room /\ \E request \in DigestRequests : Grow(request)

Next == Character \/ Part \/ Piece \/ RunResponse \/ DigestRequest

Spec == Init /\ [][Next]_vars

----------------------------------------------------------------------------
(* The request of a mail. *)

Words(lines) == Only(FlattenSeq(lines), Nat \ {0})

\* A place of a document is hidden after a script that was not closed, and
\* quoted when, over some stretch before it, more quotes opened than closed.
Hidden(doc, i) ==
    \E k \in 1 .. i - 1 : doc[k] = OpenSkip /\ CloseSkip \notin {doc[j] : j \in k .. i - 1}
Tags(doc, tag, k, i) == Cardinality({j \in k .. i - 1 : doc[j] = tag /\ ~ Hidden(doc, j)})
Quoted(doc, i) == \E k \in 1 .. i - 1 : Tags(doc, OpenQuote, k, i) > Tags(doc, CloseQuote, k, i)

Visible(doc) == {i \in DOMAIN doc : doc[i] > 0 /\ ~ Hidden(doc, i)}
InOrder(set) == Only([i \in DOMAIN text |-> i], set)

\* An HTML mail: the words before the first quoted one are the request, the
\* rest of what can be seen is the quote; when the first word is quoted all of
\* it is the request.  What is in a script is in neither.
QuoteKeptApart ==
    kind = "html" =>
        LET parts == SplitQuotedBody(SanitizeHtml(text))
            before == {i \in Visible(text) : \A j \in Visible(text) : j <= i => ~ Quoted(text, j)}
            request == IF before = {} THEN Visible(text) ELSE before
        IN /\ Words(parts.request) = InOrder(request)
           /\ Words(parts.blockquote) = InOrder(Visible(text) \ request)

\* A plain body: request and quote are the body, the request has no line of the
\* quote unless all of the mail is quoted, and it is never empty when the mail
\* is not ("so retrieval never gets an empty query").
SplitLosesNothing ==
    kind = "plain" =>
        LET lines == ExtractBody(<<[type |-> "plain", attached |-> FALSE, depth |-> 1, text |-> text]>>)
            parts == SplitQuotedBody(lines)
        IN /\ parts.request \o parts.blockquote = lines
           /\ FlattenSeq(parts.request) = <<>> => FlattenSeq(lines) = <<>>
           /\ parts.blockquote # <<>> => \A i \in DOMAIN parts.request :
                 parts.request[i] # <<>> => parts.request[i][1] # Gt /\ parts.request[i] # <<Wrote>>

\* Part j is inside part i, an attachment or inside of one.
IsInside(j, i) == i < j /\ \A k \in i + 1 .. j : text[k].depth > text[i].depth
InAttachment(j) ==
    text[j].attached \/ \E i \in DOMAIN text : text[i].attached /\ IsInside(j, i)

\* The words of the body are those of all plain texts that are no attachments
\* themselves, in their order, and of the HTML ones only when there is no plain one.
\* The texts inside an attached mail count (walk() reaches them, although
\* requirements.md:22 and normalize.py:203 have attachments skipped): its plain text
\* even displaces the HTML of the mail it is attached to.  As long as none of the
\* texts read is inside an attachment, what the attachments hold changes nothing.
BodyIsUnattachedTexts ==
    kind = "mime" =>
        LET texts(type) == {i \in DOMAIN text : text[i].type = type /\ ~ text[i].attached}
            read == IF texts("plain") = {} THEN texts("html") ELSE texts("plain")
            emptied == [i \in DOMAIN text |->
                IF InAttachment(i) THEN [text[i] EXCEPT !.type = "other", !.text = <<>>]
                ELSE text[i]]
        IN /\ Words(ExtractBody(text)) =
                  Words([i \in DOMAIN text |-> IF i \in read THEN text[i].text ELSE <<>>])
           /\ (\A i \in read : ~ InAttachment(i)) => ExtractBody(text) = ExtractBody(emptied)

\* The intake rules answer for the text a reader sees, quotes included and
\* scripts not, in their order, and a greeting only when it is all there is
\* (FR-2).
IntakeReadsWhatIsSeen ==
    kind = "intake" =>
        LET seen == {i \in DOMAIN text : /\ text[i] > 0 \/ text[i] \in {Hello, Insult, Override}
                                         /\ ~ Hidden(text, i)}
            shown == {text[i] : i \in seen}
            hello == \E i \in seen : seen = {i} /\ text[i] = Hello /\ ~ Quoted(text, i)
        IN MatchStaticReply(<<>>, SanitizeHtml(text)) =
               IF Insult \in shown THEN "toxicity"
               ELSE IF Override \in shown THEN "injection"
               ELSE IF hello THEN "greeting" ELSE "none"

\* normalize.py, _TextExtractor: "Inside <blockquote>, each visible line is
\* prefixed with > so the one body splitter can treat HTML quotes like plain
\* replies."  So no word of a quote is in the request of a mail that has a
\* request of its own.
QuotedNeverRequested ==
    kind = "angle" =>
        LET request == Words(SplitQuotedBody(SanitizeHtml(text)).request)
            own == {i \in Visible(text) : \A j \in Visible(text) : j <= i => ~ Quoted(text, j)}
        IN own # {} => \A i \in ToSet(request) : ~ Quoted(text, i)

----------------------------------------------------------------------------
(* What is masked. *)

Joined(pieces) ==
    FoldLeft(LAMBDA all, piece : IF all = <<>> THEN piece ELSE all \o <<Comma>> \o piece,
             <<>>, pieces)

\* The check sum of ISO/IEC 7812 by the places of the digits.
IsCard(digits) ==
    LET doubled == {i \in DOMAIN digits : (Len(digits) - i) % 2 = 1}
        high == {i \in doubled : digits[i] > 4}
        sum(set) == FoldSet(LAMBDA i, total : total + digits[i], 0, set)
    IN /\ Len(digits) \in 13 .. 19
       /\ (sum(DOMAIN digits) + sum(doubled) - 9 * Cardinality(high)) % 10 = 0

\* What is left of a piece that stands alone between commas.
Shown(piece) ==
    LET digits == Digits(piece)
        plus == IF piece[1] = Plus THEN <<Plus>> ELSE <<>>
    IN CASE AtDomain \in ToSet(piece) -> <<MaskedEmail>>
         [] AtDomain \notin ToSet(piece) /\ IsCard(digits) -> plus \o <<MaskedCard>>
         [] AtDomain \notin ToSet(piece) /\ ~ IsCard(digits) /\ Len(digits) \in 10 .. 15 ->
              <<MaskedPhone, digits[Len(digits) - 1], digits[Len(digits)]>>
         [] OTHER -> piece

\* Every piece is masked for what it is, whatever is around it: an address, a
\* card number, a phone number; a number that is none of them stays.
PiecesMasked ==
    kind = "numbers" =>
        MaskText(Joined(text)) = Joined([i \in DOMAIN text |-> Shown(text[i])])

\* A text that was masked by the gateway does not change when the ticketing
\* service masks it again (service.py, create_ticket and append_message).
MaskedOnce ==
    kind = "numbers" => MaskText(MaskText(Joined(text))) = MaskText(Joined(text))

\* docs/requirements.md, SEC: detection covers "payment-card candidates that
\* pass a Luhn check", of 13 to 19 digits.
CardsMasked ==
    kind = "cards" =>
        \A i \in DOMAIN text : IsCard(Digits(text[i])) => MaskedCard \in ToSet(MaskText(text[i]))

----------------------------------------------------------------------------
(* Responses and digests. *)

\* The reply of a finished run names its ticket, also when the answer is the
\* knowledge gap that opened it, and then cites nothing; it cites file names
\* only, all of them or, when one is none, the run counts as failed (FR-3, FR-4).
RepliesNameAndCite ==
    kind = "response" => \A i \in DOMAIN text :
        LET response == text[i]
            body == CallResult(response).body
        IN /\ body # <<>> => ToSet(response.files) \subseteq Plain
           /\ body # <<>> /\ response.reply = "gap" => ~ Contains(body, "sources")
           /\ body # <<>> => (Contains(body, "ticket") <=> response.ticket = "id")
           /\ body # <<>> /\ response.reply = "answer" /\ response.files # <<>> =>
                 Last(body) = "sources"

\* A run is posted again only when its own answer never came: an answer that
\* was read, usable or not, may stem from a run that changed a ticket.
AnsweredRunNotRepeated ==
    kind = "response" => \A i \in DOMAIN text :
        IsRetryable(CallResult(text[i])) => text[i].http \notin 200 .. 399

\* The fields that FR-1 has the gateway format the operator's mail from, and what a
\* mail tells of a list of tickets: those with such a field, each with all of its.
ReportFields == {"ticket_id", "user_id", "category", "created_at", "text"}
Report(ticket) == {<<field, ticket[field]>> : field \in {f \in ReportFields : ticket[f] # ""}}
Told(tickets) == Only(tickets, {ticket \in ToSet(tickets) : Report(ticket) # {}})
Tells(blocks, tickets) ==
    /\ Len(blocks) = Len(Told(tickets))
    /\ \A k \in DOMAIN blocks : ToSet(blocks[k]) = Report(Told(tickets)[k])

\* The ways in which a request gives tickets, of which it may use several.
Offered(request) ==
    {request.tickets, Told(<<request.flat>>),
     IF request.body = "list" THEN request.listed ELSE <<>>} \ {<<>>}

\* A digest tells the tickets that were given in one way, in their order and with
\* all the fields of FR-1 they have, and mixes nothing into them; if they were given
\* in one way only it is these.  A status is told of none of them: a ticket that has
\* nothing else is left out, and a list of such tickets makes an empty mail.
TicketsAllTold ==
    kind = "digest" => \A i \in DOMAIN text :
        LET request == text[i]
            mail == ResolveSmtpBody(request)
        IN /\ mail.kind = "mail" => \E tickets \in Offered(request) : Tells(mail.blocks, tickets)
           /\ Cardinality(Offered(request)) = 1 =>
                 /\ mail.kind = "mail"
                 /\ \A tickets \in Offered(request) : Tells(mail.blocks, tickets)
           /\ Offered(request) = {} => mail.kind # "mail"
=============================================================================
