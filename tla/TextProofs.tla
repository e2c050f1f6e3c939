----------------------------- MODULE TextProofs -----------------------------
(***************************************************************************)
(* Proofs about the conversions: the quote split, the responses of Dify,   *)
(* the digest, the parts of a mail, and HTML documents of any length and   *)
(* nesting, whose extractor is followed token by token.                    *)
(***************************************************************************)
EXTENDS Texts, SequenceLemmas, FiniteSetTheorems

\* A prefix and the rest are the sequence.
LEMMA PrefixAndRest ==
    ASSUME NEW S, NEW s \in Seq(S), NEW k \in 1 .. Len(s)
    PROVE  SubSeq(s, 1, k - 1) \o SubSeq(s, k, Len(s)) = s
<1> DEFINE a == SubSeq(s, 1, k - 1)
           b == SubSeq(s, k, Len(s))
<1>0. Len(s) \in Nat /\ k \in Nat
  BY LenProperties
<1>1. /\ a \in Seq(S) /\ Len(a) = k - 1
      /\ \A i \in 1 .. k - 1 : a[i] = s[i]
  BY SubSeqProperties
<1>2. /\ b \in Seq(S) /\ Len(b) = Len(s) - k + 1
      /\ \A i \in 1 .. Len(s) - k + 1 : b[i] = s[k + i - 1]
  BY SubSeqProperties
<1> HIDE DEF a, b
<1>3. /\ a \o b \in Seq(S) /\ Len(a \o b) = Len(s)
      /\ \A i \in 1 .. Len(s) : (a \o b)[i] = IF i <= k - 1 THEN a[i] ELSE b[i - (k - 1)]
  BY <1>1, <1>2, ConcatProperties
<1>4. ASSUME NEW i \in 1 .. Len(s) PROVE (a \o b)[i] = s[i]
  <2>1. CASE i <= k - 1
    BY <1>0, <1>1, <1>3, <2>1
  <2>2. CASE i > k - 1
    <3>1. i - (k - 1) \in 1 .. Len(s) - k + 1 /\ k + (i - (k - 1)) - 1 = i
      BY <1>0, <2>2
    <3>2. (a \o b)[i] = b[i - (k - 1)]
      BY <1>0, <1>3, <2>2
    <3>3. b[i - (k - 1)] = s[k + (i - (k - 1)) - 1]
      BY <1>2, <3>1
    <3> QED BY <3>1, <3>2, <3>3
  <2>3. i <= k - 1 \/ i > k - 1
    BY <1>0
  <2> QED BY <2>1, <2>2, <2>3
<1>5. a \o b = s
  BY <1>3, <1>4, SeqEqual
<1> QED BY <1>5 DEF a, b

\* Whatever its lines are, split_quoted_body neither loses nor doubles one, puts
\* no boundary line into a request that has a quote behind it, and leaves the
\* request empty only when there is no line with text.
THEOREM SplitKeepsLines ==
    ASSUME NEW S, NEW lines \in Seq(S)
    PROVE  LET parts == SplitQuotedBody(lines)
           IN /\ parts.request \o parts.blockquote = lines
              /\ parts.blockquote # <<>> => \A i \in DOMAIN parts.request :
                    ~ IsQuoteBoundaryLine(parts.request[i])
              /\ FlattenSeq(parts.request) = <<>> => parts.request = lines
<1> DEFINE cuts == {i \in 1 .. Len(lines) : IsQuoteBoundaryLine(lines[i])}
           cut == SelectInSeq(lines, IsQuoteBoundaryLine)
           parts == SplitQuotedBody(lines)
<1>1. CASE cut = 0 \/ FlattenSeq(SubSeq(lines, 1, cut - 1)) = <<>>
  <2>1. parts.request = lines /\ parts.blockquote = <<>>
    BY <1>1 DEF SplitQuotedBody, Split
  <2> QED BY <2>1, ConcatEmptySeq
<1>2. CASE cut # 0 /\ FlattenSeq(SubSeq(lines, 1, cut - 1)) # <<>>
  <2>1. /\ parts.request = SubSeq(lines, 1, cut - 1)
        /\ parts.blockquote = SubSeq(lines, cut, Len(lines))
    BY <1>2 DEF SplitQuotedBody, Split
  <2>2. cut \in 1 .. Len(lines) /\ \A i \in 1 .. cut - 1 : ~ IsQuoteBoundaryLine(lines[i])
    <3>1. cuts # {} /\ cut = Min(cuts)
      BY <1>2 DEF SelectInSeq
    <3>2. Len(lines) \in Nat /\ cuts \in SUBSET Nat
      BY LenProperties
    <3> HIDE DEF cut
    <3>3. cut \in cuts /\ \A i \in cuts : cut <= i
      <4> HIDE DEF cuts
      <4> QED BY <3>1, <3>2, FirstPlace
    <3>4. \A i \in 1 .. cut - 1 : i \in 1 .. Len(lines) /\ i \notin cuts
      BY <3>2, <3>3
    <3> QED BY <3>3, <3>4
  <2>3. parts.request \o parts.blockquote = lines
    BY <2>1, <2>2, PrefixAndRest
  <2>4. /\ Len(parts.request) = cut - 1 /\ parts.request \in Seq(S)
        /\ \A i \in 1 .. cut - 1 : parts.request[i] = lines[i]
    BY <2>1, <2>2, SubSeqProperties
  <2>5. DOMAIN parts.request = 1 .. cut - 1
    BY <2>2, <2>4
  <2>6. \A i \in DOMAIN parts.request : ~ IsQuoteBoundaryLine(parts.request[i])
    BY <2>2, <2>4, <2>5
  <2>7. FlattenSeq(parts.request) # <<>>
    BY <1>2, <2>1
  <2> HIDE DEF parts
  <2> QED BY <2>3, <2>6, <2>7 DEF parts
<1> QED BY <1>1, <1>2

----------------------------------------------------------------------------
(* Any number of responses, with any lists of names. *)

Expected == Responses(Seq(Names))
Given == kind = "response" => text \in Seq(Expected)

LEMMA SamplesGiven == Spec => []Given
<1>1. Init => Given
  BY DEF Init, Given
<1>2. Given /\ [Next]_vars => Given'
  <2> SUFFICES ASSUME Given, [Next]_vars, kind' = "response" PROVE text' \in Seq(Expected)
    BY DEF Given
  <2>1. CASE UNCHANGED vars
    BY <2>1 DEF Given, vars
  <2>2. CASE RunResponse
    BY <2>2, ResponsesAssumption DEF RunResponse, Grow, Given, Expected
  <2>3. CASE Character \/ Part \/ Piece \/ DigestRequest
    BY <2>3 DEF Character, Part, Piece, DigestRequest, Grow, Documents, Lists
  <2> QED BY <2>1, <2>2, <2>3 DEF Next
<1> QED BY <1>1, <1>2, PTL DEF Spec

\* Whatever a response is, the run that gave it is not posted again once its
\* status line was read and was no error.
THEOREM AnsweredOnce == Spec => []AnsweredRunNotRepeated
<1>1. ASSUME NEW response \in Expected, IsRetryable(CallResult(response))
      PROVE  response.http \notin 200 .. 399
  <2>1. response.http \in {NoResponse, 200, 404, 408, 429, 500}
    BY <1>1 DEF Expected, Responses
  <2>2. CASE response.http = 200
    BY <1>1, <2>2 DEF CallResult, Failure, IsRetryable, NoResponse
  <2> QED BY <2>1, <2>2 DEF NoResponse
<1>2. Given => AnsweredRunNotRepeated
  BY <1>1 DEF Given, AnsweredRunNotRepeated
<1> QED BY <1>2, SamplesGiven, PTL

\* A body that is sent is the one that parse_outputs built from good outputs.
LEMMA BodySent ==
    ASSUME NEW response \in Expected, CallResult(response).body # <<>>
    PROVE  /\ CallResult(response).body = SmtpBody(response)
           /\ ToSet(response.files) \subseteq Plain
  BY DEF CallResult, Failure, ParseOutputs, SourceFilenames

\* The blocks of a body, whatever the outputs are.
LEMMA BlocksOfBody ==
    ASSUME NEW response
    PROVE  LET body == SmtpBody(response)
               cites == response.files # <<>> /\ response.reply # "gap"
           IN /\ (Contains(body, "sources") <=> cites)
              /\ (Contains(body, "ticket") <=> response.ticket = "id")
              /\ cites => Last(body) = "sources"
<1> DEFINE body == SmtpBody(response)
           cites == response.files # <<>> /\ response.reply # "gap"
<1>1. CASE response.ticket = "id" /\ cites
  <2>1. body = <<"reply">> \o <<"ticket">> \o <<"sources">>
    BY <1>1 DEF SmtpBody
  <2>2. Len(body) = 3 /\ body[1] = "reply" /\ body[2] = "ticket" /\ body[3] = "sources"
    BY <2>1
  <2> HIDE DEF body
  <2>3. Contains(body, "sources") /\ Contains(body, "ticket") /\ Last(body) = "sources"
    BY <2>2 DEF Contains, Last
  <2> QED BY <1>1, <2>3 DEF body
<1>2. CASE response.ticket = "id" /\ ~ cites
  <2>1. body = <<"reply">> \o <<"ticket">> \o <<>>
    BY <1>2 DEF SmtpBody
  <2>2. Len(body) = 2 /\ body[1] = "reply" /\ body[2] = "ticket"
    BY <2>1
  <2> HIDE DEF body
  <2>3. ~ Contains(body, "sources") /\ Contains(body, "ticket")
    BY <2>2 DEF Contains
  <2> QED BY <1>2, <2>3 DEF body
<1>3. CASE response.ticket # "id" /\ cites
  <2>1. body = <<"reply">> \o <<>> \o <<"sources">>
    BY <1>3 DEF SmtpBody
  <2>2. Len(body) = 2 /\ body[1] = "reply" /\ body[2] = "sources"
    BY <2>1
  <2> HIDE DEF body
  <2>3. Contains(body, "sources") /\ ~ Contains(body, "ticket") /\ Last(body) = "sources"
    BY <2>2 DEF Contains, Last
  <2> QED BY <1>3, <2>3 DEF body
<1>4. CASE response.ticket # "id" /\ ~ cites
  <2>1. body = <<"reply">> \o <<>> \o <<>>
    BY <1>4 DEF SmtpBody
  <2>2. Len(body) = 1 /\ body[1] = "reply"
    BY <2>1
  <2> HIDE DEF body
  <2>3. ~ Contains(body, "sources") /\ ~ Contains(body, "ticket")
    BY <2>2 DEF Contains
  <2> QED BY <1>4, <2>3 DEF body
<1> QED BY <1>1, <1>2, <1>3, <1>4

\* Whatever the lists of names are, the reply of a finished run names its ticket,
\* cites file names only, and nothing after a knowledge gap.
THEOREM RepliesGood == Spec => []RepliesNameAndCite
<1>1. ASSUME NEW response \in Expected, CallResult(response).body # <<>>
      PROVE  LET body == CallResult(response).body
             IN /\ ToSet(response.files) \subseteq Plain
                /\ response.reply = "gap" => ~ Contains(body, "sources")
                /\ (Contains(body, "ticket") <=> response.ticket = "id")
                /\ response.reply = "answer" /\ response.files # <<>> => Last(body) = "sources"
  <2> DEFINE cites == response.files # <<>> /\ response.reply # "gap"
  <2>1. /\ CallResult(response).body = SmtpBody(response)
        /\ ToSet(response.files) \subseteq Plain
    BY <1>1, BodySent
  <2>2. /\ (Contains(SmtpBody(response), "sources") <=> cites)
        /\ (Contains(SmtpBody(response), "ticket") <=> response.ticket = "id")
        /\ cites => Last(SmtpBody(response)) = "sources"
    BY BlocksOfBody
  <2> QED BY <2>1, <2>2
<1>2. Given => RepliesNameAndCite
  BY <1>1 DEF Given, RepliesNameAndCite
<1> QED BY <1>2, SamplesGiven, PTL

----------------------------------------------------------------------------
(* Any number of requests for a digest, of any tickets. *)

Wanted == Requests(Seq(Tickets))
Sought == kind = "digest" => text \in Seq(Wanted)

LEMMA SamplesSought == Spec => []Sought
<1>1. Init => Sought
  BY DEF Init, Sought
<1>2. Sought /\ [Next]_vars => Sought'
  <2> SUFFICES ASSUME Sought, [Next]_vars, kind' = "digest" PROVE text' \in Seq(Wanted)
    BY DEF Sought
  <2>1. CASE UNCHANGED vars
    BY <2>1 DEF Sought, vars
  <2>2. CASE DigestRequest
    BY <2>2, RequestsAssumption DEF DigestRequest, Grow, Sought, Wanted
  <2>3. CASE Character \/ Part \/ Piece \/ RunResponse
    BY <2>3 DEF Character, Part, Piece, RunResponse, Grow, Documents, Lists
  <2> QED BY <2>1, <2>2, <2>3 DEF Next
<1> QED BY <1>1, <1>2, PTL DEF Spec

FieldsOf(ticket) == {field \in Fields : ticket[field] # ""}

\* A ticket that has something to report, and one that has not.
Telling == {ticket \in Tickets : Report(ticket) # {}}

\* The block of a ticket reports it, and is empty when there is nothing to.
LEMMA BlockTells ==
    ASSUME NEW ticket \in Tickets
    PROVE  /\ ToSet(TicketBlock(ticket)) = Report(ticket)
           /\ TicketBlock(ticket) = <<>> <=> Report(ticket) = {}
<1> DEFINE sent == Only(FieldOrder, FieldsOf(ticket))
<1>1. FieldOrder \in Seq(ReportFields) /\ ToSet(FieldOrder) = ReportFields
  BY DEF ReportFields, FieldOrder, ToSet
<1>2. sent \in Seq(ReportFields) /\ ToSet(sent) = {f \in ReportFields : ticket[f] # ""}
  <2>1. ToSet(sent) = ReportFields \cap FieldsOf(ticket)
    BY <1>1, OnlySet
  <2>2. ReportFields \subseteq Fields
    BY <1>1 DEF Fields
  <2>3. ReportFields \cap FieldsOf(ticket) = {f \in ReportFields : ticket[f] # ""}
    BY <2>2 DEF FieldsOf
  <2>4. sent \in Seq(ReportFields)
    BY <1>1, OnlyType
  <2> QED BY <2>1, <2>3, <2>4
<1>3. TicketBlock(ticket) = [i \in DOMAIN sent |-> <<sent[i], ticket[sent[i]]>>]
  BY DEF TicketBlock, FieldsOf
<1> HIDE DEF sent
<1>4. ToSet(TicketBlock(ticket)) = {<<field, ticket[field]>> : field \in ToSet(sent)}
  BY <1>3 DEF ToSet
<1>5. ToSet(TicketBlock(ticket)) = Report(ticket)
  BY <1>2, <1>4 DEF Report
<1>6. TicketBlock(ticket) = <<>> <=> ToSet(TicketBlock(ticket)) = {}
  <2>1. DOMAIN sent = 1 .. Len(sent) /\ Len(sent) \in Nat
    BY <1>2, LenProperties
  <2>2. TicketBlock(ticket) = <<>> <=> DOMAIN sent = {}
    <3>1. TicketBlock(ticket) = <<>> => DOMAIN TicketBlock(ticket) = {}
      BY EmptySeq
    <3>2. DOMAIN TicketBlock(ticket) = DOMAIN sent
      BY <1>3
    <3>3. DOMAIN sent = {} => TicketBlock(ticket) = <<>>
      <4>1. DOMAIN sent = {} => Len(sent) = 0
        BY <2>1
      <4>2. Len(sent) = 0 => sent = <<>>
        BY <1>2, EmptySeq
      <4> QED BY <1>3, <4>1, <4>2
    <3> QED BY <3>1, <3>2, <3>3
  <2>3. DOMAIN sent = {} <=> ToSet(TicketBlock(ticket)) = {}
    BY <1>3 DEF ToSet
  <2> QED BY <2>2, <2>3
<1> QED BY <1>5, <1>6

\* A digest has a block for each ticket that has something to report, in order.
LEMMA DigestTells ==
    ASSUME NEW tickets \in Seq(Tickets)
    PROVE  Tells(DigestOf(tickets), tickets)
<1> DEFINE f == [ticket \in Tickets |-> TicketBlock(ticket)]
           F == {TicketBlock(ticket) : ticket \in Tickets}
           blocks == Mapped(f, tickets)
           A == F \ {<<>>}
           B == Telling
           told == Told(tickets)
<1>1. /\ f \in [Tickets -> F]
      /\ \A x \in Tickets : f[x] \in F /\ f[x] = TicketBlock(x)
      /\ \A x \in Tickets : f[x] \in A <=> x \in B
  BY BlockTells DEF Telling
<1>2. told = Only(tickets, B) /\ told \in Seq(Tickets)
  <2> DEFINE D == {ticket \in ToSet(tickets) : Report(ticket) # {}}
  <2>1. ToSet(tickets) \subseteq Tickets
    BY ElementOfSeq, LenProperties DEF ToSet
  <2>2. ToSet(tickets) \cap B = ToSet(tickets) \cap D
    BY <2>1 DEF Telling
  <2>3. told = Only(tickets, D)
    BY DEF Told
  <2> HIDE DEF B, D, told
  <2> QED BY <2>2, <2>3, OnlySame, OnlyType
<1>3. DigestOf(tickets) = Only(blocks, ToSet(blocks) \ {<<>>})
  <2>1. \A i \in DOMAIN tickets : tickets[i] \in Tickets
    BY ElementOfSeq, LenProperties
  <2>2. blocks = [i \in DOMAIN tickets |-> TicketBlock(tickets[i])]
    BY <2>1 DEF Mapped
  <2> HIDE DEF blocks
  <2> QED BY <2>2 DEF DigestOf
<1> HIDE DEF f, F
<1>4. blocks \in Seq(F)
  BY <1>1, MappedType
<1>5. Only(blocks, ToSet(blocks) \ {<<>>}) = Only(blocks, A)
  <2> HIDE DEF blocks
  <2>1. ToSet(blocks) \subseteq F
    BY <1>4, ElementOfSeq, LenProperties DEF ToSet
  <2>2. ToSet(blocks) \cap A = ToSet(blocks) \cap (ToSet(blocks) \ {<<>>})
    BY <2>1
  <2> HIDE DEF A
  <2> QED BY <1>4, <2>2, OnlySame
<1>6. Only(blocks, A) = Mapped(f, Only(tickets, B))
  <2>1. \A x \in Tickets : f[x] \in A <=> x \in B
    BY <1>1
  <2> HIDE DEF A, B, blocks
  <2>2. Only(Mapped(f, tickets), A) = Mapped(f, Only(tickets, B))
    BY <2>1, OnlyMapped
  <2> QED BY <2>2 DEF blocks
<1>7. DigestOf(tickets) = Mapped(f, told)
  BY <1>2, <1>3, <1>5, <1>6
<1> HIDE DEF told
<1>8. Mapped(f, told) \in Seq(F) /\ Len(Mapped(f, told)) = Len(told)
  <2>1. \A x \in Tickets : f[x] \in F
    BY <1>1
  <2>2. told \in Seq(Tickets)
    BY <1>2
  <2> HIDE DEF A, B, blocks
  <2> QED BY <2>1, <2>2, MappedType
<1>9. \A k \in DOMAIN told : told[k] \in Tickets
  BY <1>2, ElementOfSeq, LenProperties
<1>10. DOMAIN Mapped(f, told) = DOMAIN told
  BY DEF Mapped
<1>11. \A k \in DOMAIN told : ToSet(Mapped(f, told)[k]) = Report(told[k])
  BY <1>1, <1>9, BlockTells DEF Mapped
<1> QED BY <1>7, <1>8, <1>10, <1>11 DEF Tells, told

\* A mail is the digest of tickets that were given in one way; the tickets of a
\* single way are mailed; without any there is no digest.
LEMMA OneWayMailed ==
    ASSUME NEW request \in Wanted
    PROVE  /\ ResolveSmtpBody(request).kind = "mail" =>
                 \E tickets \in Offered(request) :
                    tickets \in Seq(Tickets) /\ ResolveSmtpBody(request).blocks = DigestOf(tickets)
           /\ \A tickets \in Offered(request) : Offered(request) = {tickets} =>
                 /\ tickets \in Seq(Tickets)
                 /\ ResolveSmtpBody(request) = Mailed(DigestOf(tickets))
           /\ Offered(request) = {} => ResolveSmtpBody(request).kind # "mail"
<1> DEFINE one == Told(<<request.flat>>)
           listed == IF request.body = "list" THEN request.listed ELSE <<>>
           all == {request.tickets, one, listed} \ {<<>>}
           mail == ResolveSmtpBody(request)
<1>1. /\ request.tickets \in Seq(Tickets) /\ request.flat \in Tickets
      /\ listed \in Seq(Tickets) /\ <<request.flat>> \in Seq(Tickets)
  BY EmptySeq DEF Wanted, Requests
<1>2. IF HasFlatTicketFields(request) THEN one = <<request.flat>> ELSE one = <<>>
  <2> DEFINE flat == <<request.flat>>
             D == {ticket \in ToSet(flat) : Report(ticket) # {}}
             e == <<>>
  <2>1. one = Only(flat, D)
    BY DEF Told
  <2>2. HasFlatTicketFields(request) <=> Report(request.flat) # {}
    <3>1. ToSet(FieldOrder) = ReportFields
      BY DEF ReportFields, FieldOrder, ToSet
    <3> QED BY <3>1 DEF HasFlatTicketFields, Report
  <2>3. ToSet(flat) = {request.flat}
    BY DEF ToSet
  <2>4. flat = Append(e, request.flat) /\ e \in Seq(Tickets) /\ e = <<>>
    BY EmptySeq
  <2> HIDE DEF flat, e
  <2>5. request.flat \in D <=> Report(request.flat) # {}
    BY <2>3
  <2> HIDE DEF D, one
  <2>6. Only(e, D) = <<>>
    BY <2>4, OnlyEmpty
  <2>7. /\ request.flat \in D => Only(flat, D) = Append(Only(e, D), request.flat)
        /\ request.flat \notin D => Only(flat, D) = Only(e, D)
    <3> DEFINE x == request.flat
    <3>1. x \in Tickets /\ e \in Seq(Tickets)
      BY <1>1, <2>4
    <3> HIDE DEF x, one, listed, all, mail
    <3>2. /\ x \in D => Only(Append(e, x), D) = Append(Only(e, D), x)
          /\ x \notin D => Only(Append(e, x), D) = Only(e, D)
      BY <3>1, OnlyAppend
    <3> QED BY <2>4, <3>2 DEF x
  <2> QED BY <2>1, <2>2, <2>4, <2>5, <2>6, <2>7 DEF flat
<1>3. <<request.flat>> # <<>>
  OBVIOUS
<1>4. mail = IF request.tickets # <<>> THEN Mailed(DigestOf(request.tickets))
             ELSE IF one # <<>> THEN Mailed(DigestOf(one))
             ELSE IF listed # <<>> THEN Mailed(DigestOf(listed))
             ELSE ResolveBody(request)
  <2> HIDE DEF one
  <2> QED BY <1>2, <1>3 DEF ResolveSmtpBody, ResolveBody
<1>5. listed = <<>> => ResolveBody(request).kind # "mail"
  BY DEF ResolveBody, Refused, AsText
<1>6. one \in Seq(Tickets)
  BY <1>1, <1>2, EmptySeq
<1>7. \A blocks : Mailed(blocks).kind = "mail" /\ Mailed(blocks).blocks = blocks
  BY DEF Mailed
<1>8. Offered(request) = all
  BY DEF Offered
<1> DEFINE way == IF request.tickets # <<>> THEN request.tickets
                  ELSE IF one # <<>> THEN one ELSE listed
<1>9. /\ way \in Seq(Tickets)
      /\ all # {} => way \in all /\ mail = Mailed(DigestOf(way))
      /\ all = {} => mail.kind # "mail"
  <2>1. way \in Seq(Tickets)
    BY <1>1, <1>6
  <2> HIDE DEF one, listed, mail
  <2>2. CASE request.tickets # <<>>
    BY <1>4, <2>1, <2>2
  <2>3. CASE request.tickets = <<>> /\ one # <<>>
    BY <1>4, <2>1, <2>3
  <2>4. CASE request.tickets = <<>> /\ one = <<>> /\ listed # <<>>
    BY <1>4, <2>1, <2>4
  <2>5. CASE request.tickets = <<>> /\ one = <<>> /\ listed = <<>>
    BY <1>4, <1>5, <2>1, <2>5
  <2> QED BY <2>2, <2>3, <2>4, <2>5
<1> HIDE DEF way, all, mail
<1>10. \A tickets : all = {tickets} => all # {} /\ (way \in all => way = tickets)
  OBVIOUS
<1>11. mail.kind = "mail" => \E tickets \in all :
          tickets \in Seq(Tickets) /\ mail.blocks = DigestOf(tickets)
  BY <1>7, <1>9
<1>12. \A tickets \in all : all = {tickets} =>
          tickets \in Seq(Tickets) /\ mail = Mailed(DigestOf(tickets))
  BY <1>9, <1>10
<1> QED BY <1>8, <1>9, <1>11, <1>12 DEF mail

\* Whatever the tickets of a request are, those that were given in one way are told,
\* each that has a field of FR-1 with all of these, in their order, and no status.
THEOREM EachTicketTold == Spec => []TicketsAllTold
<1>1. ASSUME NEW request \in Wanted
      PROVE  LET mail == ResolveSmtpBody(request)
             IN /\ mail.kind = "mail" =>
                      \E tickets \in Offered(request) : Tells(mail.blocks, tickets)
                /\ Cardinality(Offered(request)) = 1 =>
                      /\ mail.kind = "mail"
                      /\ \A tickets \in Offered(request) : Tells(mail.blocks, tickets)
                /\ Offered(request) = {} => mail.kind # "mail"
  <2> DEFINE mail == ResolveSmtpBody(request)
  <2>1. mail.kind = "mail" => \E tickets \in Offered(request) : Tells(mail.blocks, tickets)
    BY OneWayMailed, DigestTells
  <2>2. ASSUME Cardinality(Offered(request)) = 1
        PROVE  /\ mail.kind = "mail"
               /\ \A tickets \in Offered(request) : Tells(mail.blocks, tickets)
    <3>1. IsFiniteSet(Offered(request))
      <4>1. \A a, b, c : IsFiniteSet({a, b, c})
        <5> SUFFICES ASSUME NEW a, NEW b, NEW c PROVE IsFiniteSet({a, b, c})
          OBVIOUS
        <5>1. IsFiniteSet({a})
          BY FS_Singleton
        <5>2. IsFiniteSet({a} \cup {b})
          BY <5>1, FS_AddElement
        <5>3. IsFiniteSet(({a} \cup {b}) \cup {c})
          BY <5>2, FS_AddElement
        <5>4. ({a} \cup {b}) \cup {c} = {a, b, c}
          OBVIOUS
        <5> QED BY <5>3, <5>4
      <4> DEFINE some == {request.tickets, Told(<<request.flat>>),
                          IF request.body = "list" THEN request.listed ELSE <<>>}
      <4>2. IsFiniteSet(some)
        BY <4>1
      <4> HIDE DEF some
      <4>3. Offered(request) = some \ {<<>>}
        BY DEF Offered, some
      <4> QED BY <4>2, <4>3, FS_Subset
    <3>2. PICK tickets : Offered(request) = {tickets}
      BY <2>2, <3>1, FS_Singleton
    <3>3. tickets \in Seq(Tickets) /\ mail = Mailed(DigestOf(tickets))
      BY <3>2, OneWayMailed
    <3> HIDE DEF mail
    <3>4. mail.kind = "mail" /\ mail.blocks = DigestOf(tickets)
      BY <3>3 DEF Mailed
    <3> QED BY <3>2, <3>3, <3>4, DigestTells
  <2>3. Offered(request) = {} => mail.kind # "mail"
    BY OneWayMailed
  <2> QED BY <2>1, <2>2, <2>3
<1>2. Sought => TicketsAllTold
  <2> SUFFICES ASSUME text \in Seq(Wanted), NEW i \in DOMAIN text
               PROVE  LET request == text[i]
                          mail == ResolveSmtpBody(request)
                      IN /\ mail.kind = "mail" =>
                              \E tickets \in Offered(request) : Tells(mail.blocks, tickets)
                         /\ Cardinality(Offered(request)) = 1 =>
                              /\ mail.kind = "mail"
                              /\ \A tickets \in Offered(request) : Tells(mail.blocks, tickets)
                         /\ Offered(request) = {} => mail.kind # "mail"
    BY DEF Sought, TicketsAllTold
  <2>1. text[i] \in Wanted
    BY ElementOfSeq, LenProperties
  <2> QED BY <1>1, <2>1
<1> QED BY <1>2, SamplesSought, PTL

----------------------------------------------------------------------------
(* SplitLines *)

\* One line at least, and what one character more makes of the lines.
SomeLines(E) == Seq(Seq(E)) \ {<<>>}
Longer(lines, c) == [lines EXCEPT ![Len(lines)] = Append(@, c)]

LEMMA LongerType ==
    ASSUME NEW E, NEW lines \in SomeLines(E), NEW c \in E
    PROVE  Longer(lines, c) \in SomeLines(E) /\ Append(lines, <<>>) \in SomeLines(E)
<1>1. Len(lines) \in Nat /\ Len(lines) # 0 /\ lines \in [1 .. Len(lines) -> Seq(E)]
  BY LenProperties, EmptySeq, SeqDef DEF SomeLines
<1>2. Append(lines[Len(lines)], c) \in Seq(E)
  BY <1>1, AppendProperties
<1>3. Longer(lines, c) \in [1 .. Len(lines) -> Seq(E)]
  BY <1>1, <1>2 DEF Longer
<1>4. Longer(lines, c) \in Seq(Seq(E)) /\ Len(Longer(lines, c)) = Len(lines)
  <2> DEFINE new == Longer(lines, c)
  <2> HIDE DEF new
  <2>1. new \in [1 .. Len(lines) -> Seq(E)]
    BY <1>3 DEF new
  <2>2. new \in Seq(Seq(E)) /\ Len(new) = Len(lines)
    BY <1>1, <2>1, SeqDef, LenProperties
  <2> QED BY <2>2 DEF new
<1>5. Append(lines, <<>>) \in Seq(Seq(E)) /\ Len(Append(lines, <<>>)) = Len(lines) + 1
  <2>1. <<>> \in Seq(E)
    BY EmptySeq
  <2>2. lines \in Seq(Seq(E))
    BY DEF SomeLines
  <2> QED BY <2>1, <2>2, AppendProperties
<1>6. Longer(lines, c) # <<>> /\ Append(lines, <<>>) # <<>>
  <2>1. Len(<<>>) = 0
    BY EmptySeq
  <2>2. Len(Longer(lines, c)) # 0
    BY <1>1, <1>4
  <2>3. Len(Append(lines, <<>>)) # 0
    BY <1>1, <1>5
  <2> HIDE DEF Longer
  <2> QED BY <2>1, <2>2, <2>3
<1> QED BY <1>4, <1>5, <1>6 DEF SomeLines

SplitStep(E) ==
    [c \in E |-> [lines \in SomeLines(E) |->
        IF c = Nl THEN Append(lines, <<>>) ELSE Longer(lines, c)]]

LEMMA SplitStepType ==
    ASSUME NEW E
    PROVE  /\ << <<>> >> \in SomeLines(E)
           /\ Steps(E, SomeLines(E), SplitStep(E))
<1>1. << <<>> >> \in SomeLines(E)
  BY EmptySeq DEF SomeLines
<1> QED BY <1>1, LongerType DEF SplitStep, Steps

LEMMA SplitLinesFolds ==
    ASSUME NEW E, NEW s \in Seq(E)
    PROVE  SplitLines(s) = Folding(SomeLines(E), << <<>> >>, SplitStep(E), s)
<1> DEFINE n == Len(s)
           V == SomeLines(E)
           base == << <<>> >>
           step == SplitStep(E)
           Sol(h) == h = [u \in SUBSET DOMAIN s |->
                             IF u = {} THEN << <<>> >>
                             ELSE IF s[Max(u)] = Nl THEN Append(h[u \ {Max(u)}], <<>>)
                                  ELSE [h[u \ {Max(u)}] EXCEPT ![Len(h[u \ {Max(u)}])] =
                                           Append(@, s[Max(u)])]]
           it == CHOOSE h : Sol(h)
<1>0. n \in Nat /\ DOMAIN s = 1 .. n /\ \A k \in 1 .. n : s[k] \in E
  BY LenProperties, ElementOfSeq
<1>1. base \in V /\ Steps(E, V, step)
  BY SplitStepType
<1>2. ASSUME NEW c \in E, NEW v \in V
      PROVE  step[c][v] = IF c = Nl THEN Append(v, <<>>) ELSE [v EXCEPT ![Len(v)] = Append(@, c)]
  BY <1>2 DEF SplitStep, Longer
<1>3. PICK f : SetFolded(f, V, base, step, s)
  <2> HIDE DEF step, V, base
  <2> QED BY <1>1, SetFoldExists
<1>4. Sol(f)
  <2>1. ASSUME NEW u \in SUBSET (1 .. n), u # {}
        PROVE  s[Max(u)] \in E /\ f[u \ {Max(u)}] \in V
    <3>1. Max(u) \in 1 .. n /\ u \ {Max(u)} \in SUBSET (1 .. n)
      BY <1>0, <2>1, LastPlace
    <3> QED BY <1>0, <1>3, <3>1 DEF SetFolded
  <2> HIDE DEF step, V, base, n
  <2>2. f = [u \in SUBSET (1 .. n) |->
               IF u = {} THEN base ELSE step[s[Max(u)]][f[u \ {Max(u)}]]]
    BY <1>3 DEF SetFolded, n
  <2>3. ASSUME NEW u \in SUBSET (1 .. n), u # {}
        PROVE  step[s[Max(u)]][f[u \ {Max(u)}]] =
                 IF s[Max(u)] = Nl THEN Append(f[u \ {Max(u)}], <<>>)
                 ELSE [f[u \ {Max(u)}] EXCEPT ![Len(f[u \ {Max(u)}])] = Append(@, s[Max(u)])]
    BY <1>2, <2>1, <2>3
  <2> QED BY <1>0, <2>2, <2>3 DEF base
<1>5. Sol(it)
  BY <1>4
<1>6. SplitLines(s) = it[1 .. n]
  BY <1>0 DEF SplitLines, FoldLeft, MapThenFoldSet
<1> HIDE DEF it
<1>7. it[{}] = base
  <2>1. {} \in SUBSET DOMAIN s
    OBVIOUS
  <2> QED BY <1>5, <2>1
<1>8. ASSUME NEW k \in 1 .. n, it[1 .. k - 1] \in V
      PROVE  it[1 .. k] = step[s[k]][it[1 .. k - 1]]
  <2>1. /\ 1 .. k \in SUBSET DOMAIN s /\ 1 .. k # {} /\ Max(1 .. k) = k
        /\ (1 .. k) \ {Max(1 .. k)} = 1 .. k - 1
    BY <1>0, InitialSegment
  <2> DEFINE u == 1 .. k
             w == 1 .. k - 1
  <2> HIDE DEF u, w
  <2>2. u \in SUBSET DOMAIN s /\ u # {} /\ Max(u) = k /\ u \ {Max(u)} = w
    BY <2>1 DEF u, w
  <2>3. it[u] = IF s[k] = Nl THEN Append(it[w], <<>>)
                ELSE [it[w] EXCEPT ![Len(it[w])] = Append(@, s[k])]
    BY <1>5, <2>2
  <2>4. it[w] \in V /\ s[k] \in E
    BY <1>0, <1>8 DEF w
  <2>5. it[u] = step[s[k]][it[w]]
    BY <1>2, <2>3, <2>4
  <2> QED BY <2>5 DEF u, w
<1>9. it[1 .. n] = Folding(V, base, step, s)
  <2> HIDE DEF V, base, step
  <2> QED BY <1>1, <1>7, <1>8, SegmentFold
<1> QED BY <1>6, <1>9

\* A line break opens a line, any other character goes to the last one.
LEMMA SplitLinesAppend ==
    ASSUME NEW E, NEW s \in Seq(E), NEW x \in E
    PROVE  /\ SplitLines(<<>>) = << <<>> >>
           /\ SplitLines(s) \in SomeLines(E)
           /\ x = Nl => SplitLines(Append(s, x)) = Append(SplitLines(s), <<>>)
           /\ x # Nl => SplitLines(Append(s, x)) = Longer(SplitLines(s), x)
<1> DEFINE V == SomeLines(E)
           base == << <<>> >>
           step == SplitStep(E)
<1>1. base \in V /\ Steps(E, V, step)
  BY SplitStepType
<1>2. /\ SplitLines(<<>>) = Folding(V, base, step, <<>>)
      /\ SplitLines(s) = Folding(V, base, step, s)
      /\ SplitLines(Append(s, x)) = Folding(V, base, step, Append(s, x))
  <2>1. <<>> \in Seq(E) /\ Append(s, x) \in Seq(E)
    BY EmptySeq, AppendProperties
  <2> QED BY <2>1, SplitLinesFolds
<1>3. /\ Folding(V, base, step, <<>>) = base
      /\ Folding(V, base, step, s) \in V
      /\ Folding(V, base, step, Append(s, x)) = step[x][Folding(V, base, step, s)]
  <2> HIDE DEF V, base, step
  <2> QED BY <1>1, FoldingAppend
<1> QED BY <1>2, <1>3 DEF SplitStep

----------------------------------------------------------------------------
(* JoinParts *)

\* What one part more makes of the text.
JoinStep(C) ==
    [part \in PartsOver(C) |-> [v \in Seq(C) |->
        IF v = <<>> THEN part.text ELSE v \o <<Nl>> \o part.text]]

LEMMA JoinStepType ==
    ASSUME NEW C, Nl \in C
    PROVE  <<>> \in Seq(C) /\ Steps(PartsOver(C), Seq(C), JoinStep(C))
<1>1. ASSUME NEW v \in Seq(C), NEW w \in Seq(C) PROVE v \o <<Nl>> \o w \in Seq(C)
  <2>1. <<Nl>> \in Seq(C)
    OBVIOUS
  <2>2. v \o <<Nl>> \in Seq(C)
    BY <2>1, ConcatProperties
  <2> QED BY <2>2, ConcatProperties
<1>2. \A part \in PartsOver(C) : part.text \in Seq(C)
  BY DEF PartsOver
<1> QED BY <1>1, <1>2, EmptySeq DEF Steps, JoinStep

LEMMA JoinPartsFolds ==
    ASSUME NEW C, Nl \in C, NEW s \in Seq(PartsOver(C))
    PROVE  JoinParts(s) = Folding(Seq(C), <<>>, JoinStep(C), s)
<1> DEFINE n == Len(s)
           E == PartsOver(C)
           V == Seq(C)
           base == <<>>
           step == JoinStep(C)
           Sol(h) == h = [u \in SUBSET DOMAIN s |->
                             IF u = {} THEN <<>>
                             ELSE IF h[u \ {Max(u)}] = <<>> THEN s[Max(u)].text
                                  ELSE h[u \ {Max(u)}] \o <<Nl>> \o s[Max(u)].text]
           it == CHOOSE h : Sol(h)
<1>0. n \in Nat /\ DOMAIN s = 1 .. n /\ \A k \in 1 .. n : s[k] \in E
  BY LenProperties, ElementOfSeq
<1>1. base \in V /\ Steps(E, V, step)
  BY JoinStepType
<1>2. ASSUME NEW c \in E, NEW v \in V
      PROVE  step[c][v] = IF v = <<>> THEN c.text ELSE v \o <<Nl>> \o c.text
  BY <1>2 DEF JoinStep
<1>3. PICK f : SetFolded(f, V, base, step, s)
  <2> HIDE DEF step, V, base, E
  <2>1. s \in Seq(E)
    BY DEF E
  <2> QED BY <1>1, <2>1, SetFoldExists
<1>4. Sol(f)
  <2>1. ASSUME NEW u \in SUBSET (1 .. n), u # {}
        PROVE  s[Max(u)] \in E /\ f[u \ {Max(u)}] \in V
    <3>1. Max(u) \in 1 .. n /\ u \ {Max(u)} \in SUBSET (1 .. n)
      BY <1>0, <2>1, LastPlace
    <3> QED BY <1>0, <1>3, <3>1 DEF SetFolded
  <2> HIDE DEF step, V, base, n, E
  <2>2. f = [u \in SUBSET (1 .. n) |->
               IF u = {} THEN base ELSE step[s[Max(u)]][f[u \ {Max(u)}]]]
    BY <1>3 DEF SetFolded, n
  <2>3. ASSUME NEW u \in SUBSET (1 .. n), u # {}
        PROVE  step[s[Max(u)]][f[u \ {Max(u)}]] =
                 IF f[u \ {Max(u)}] = <<>> THEN s[Max(u)].text
                 ELSE f[u \ {Max(u)}] \o <<Nl>> \o s[Max(u)].text
    BY <1>2, <2>1, <2>3
  <2> QED BY <1>0, <2>2, <2>3 DEF base
<1>5. Sol(it)
  BY <1>4
<1>6. JoinParts(s) = it[1 .. n]
  BY <1>0 DEF JoinParts, FoldLeft, MapThenFoldSet
<1> HIDE DEF it
<1>7. it[{}] = base
  <2>1. {} \in SUBSET DOMAIN s
    OBVIOUS
  <2> QED BY <1>5, <2>1
<1>8. ASSUME NEW k \in 1 .. n, it[1 .. k - 1] \in V
      PROVE  it[1 .. k] = step[s[k]][it[1 .. k - 1]]
  <2>1. /\ 1 .. k \in SUBSET DOMAIN s /\ 1 .. k # {} /\ Max(1 .. k) = k
        /\ (1 .. k) \ {Max(1 .. k)} = 1 .. k - 1
    BY <1>0, InitialSegment
  <2> DEFINE u == 1 .. k
             w == 1 .. k - 1
  <2> HIDE DEF u, w
  <2>2. u \in SUBSET DOMAIN s /\ u # {} /\ Max(u) = k /\ u \ {Max(u)} = w
    BY <2>1 DEF u, w
  <2>3. it[u] = IF it[w] = <<>> THEN s[k].text ELSE it[w] \o <<Nl>> \o s[k].text
    BY <1>5, <2>2
  <2>4. it[w] \in V /\ s[k] \in E
    BY <1>0, <1>8 DEF w
  <2>5. it[u] = step[s[k]][it[w]]
    BY <1>2, <2>3, <2>4
  <2> QED BY <2>5 DEF u, w
<1>9. it[1 .. n] = Folding(V, base, step, s)
  <2>1. s \in Seq(E)
    OBVIOUS
  <2> HIDE DEF V, base, step, E
  <2> QED BY <1>1, <1>7, <1>8, <2>1, SegmentFold
<1> QED BY <1>6, <1>9

\* A part more comes after a line break, the first one without.
LEMMA JoinPartsAppend ==
    ASSUME NEW C, Nl \in C, NEW s \in Seq(PartsOver(C)), NEW part \in PartsOver(C)
    PROVE  /\ JoinParts(<<>>) = <<>>
           /\ JoinParts(s) \in Seq(C)
           /\ JoinParts(s) = <<>> => JoinParts(Append(s, part)) = part.text
           /\ JoinParts(s) # <<>> =>
                JoinParts(Append(s, part)) = JoinParts(s) \o <<Nl>> \o part.text
<1> DEFINE E == PartsOver(C)
           V == Seq(C)
           base == <<>>
           step == JoinStep(C)
<1>1. base \in V /\ Steps(E, V, step)
  BY JoinStepType
<1>2. /\ JoinParts(<<>>) = Folding(V, base, step, <<>>)
      /\ JoinParts(s) = Folding(V, base, step, s)
      /\ JoinParts(Append(s, part)) = Folding(V, base, step, Append(s, part))
  <2>1. <<>> \in Seq(PartsOver(C)) /\ Append(s, part) \in Seq(PartsOver(C))
    BY EmptySeq, AppendProperties
  <2> QED BY <2>1, JoinPartsFolds
<1>3. /\ Folding(V, base, step, <<>>) = base
      /\ Folding(V, base, step, s) \in V
      /\ Folding(V, base, step, Append(s, part)) = step[part][Folding(V, base, step, s)]
  <2>1. s \in Seq(E) /\ part \in E
    OBVIOUS
  <2> HIDE DEF V, base, step, E
  <2> QED BY <1>1, <2>1, FoldingAppend
<1> HIDE DEF V
<1>4. ASSUME NEW v \in V
      PROVE  step[part][v] = IF v = <<>> THEN part.text ELSE v \o <<Nl>> \o part.text
  BY DEF JoinStep, V
<1>5. JoinParts(s) \in V /\ JoinParts(Append(s, part)) = step[part][JoinParts(s)]
  BY <1>2, <1>3
<1> HIDE DEF step
<1>6. JoinParts(<<>>) = <<>>
  BY <1>2, <1>3
<1>7. JoinParts(Append(s, part)) =
         IF JoinParts(s) = <<>> THEN part.text ELSE JoinParts(s) \o <<Nl>> \o part.text
  BY <1>4, <1>5
<1> QED BY <1>5, <1>6, <1>7 DEF V

----------------------------------------------------------------------------
(* Plain bodies of any length. *)

\* The characters of a document of a kind: the alphabet's, and words.
Letters(k) == Alphabet[k] \cup Nat \cup {Nl}
Written == kind \in Documents => text \in Seq(Letters(kind))

LEMMA SamplesWritten == Spec => []Written
<1>1. Init => Written
  BY DEF Init, Written
<1>2. Written /\ [Next]_vars => Written'
  <2> SUFFICES ASSUME Written, [Next]_vars, kind' \in Documents
               PROVE  text' \in Seq(Letters(kind'))
    BY DEF Written
  <2>1. CASE UNCHANGED vars
    BY <2>1 DEF Written, vars
  <2>2. CASE Character
    <3>1. PICK c \in Alphabet[kind] : Grow(IF c = 1 THEN Len(text) + 1 ELSE c)
      BY <2>2 DEF Character
    <3> DEFINE item == IF c = 1 THEN Len(text) + 1 ELSE c
    <3>2. kind' = kind /\ text' = Append(text, item)
      BY <3>1 DEF Grow
    <3>3. text \in Seq(Letters(kind))
      BY <3>2 DEF Written
    <3>4. item \in Letters(kind)
      BY <3>3, LenProperties DEF Letters
    <3> HIDE DEF item
    <3> QED BY <3>2, <3>3, <3>4, AppendProperties
  <2>3. CASE Part \/ Piece \/ RunResponse \/ DigestRequest
    BY <2>3 DEF Part, Piece, RunResponse, DigestRequest, Grow, Documents, Lists
  <2> QED BY <2>1, <2>2, <2>3 DEF Next
<1> QED BY <1>1, <1>2, PTL DEF Spec

\* The body of a mail with one plain part is that part.
LEMMA OnePlainPart ==
    ASSUME NEW C, Nl \in C, NEW doc \in Seq(C)
    PROVE  ExtractBody(<<[type |-> "plain", attached |-> FALSE, depth |-> 1, text |-> doc]>>) = SplitLines(doc)
<1> DEFINE part == [type |-> "plain", attached |-> FALSE, depth |-> 1, text |-> doc]
           E == PartsOver(C)
           A == {p \in ToSet(<<part>>) : p.type = "plain" /\ ~ p.attached}
<1>1. part \in E
  BY DEF PartsOver
<1>2. <<>> \in Seq(E) /\ Append(<<>>, part) = <<part>>
  BY EmptySeq
<1>3. <<part>> \in Seq(E)
  BY <1>1
<1>4. ToSet(<<part>>) \subseteq A
  BY DEF ToSet
<1>5. Only(<<part>>, A) = <<part>>
  <2> HIDE DEF A, part, E
  <2> QED BY <1>3, <1>4, OnlyAll
<1>6. Leaves(<<part>>, "plain") = <<part>>
  BY <1>5 DEF Leaves
<1>7. JoinParts(<<part>>) = part.text
  <2> HIDE DEF part, E
  <2>1. JoinParts(<<>>) = <<>> /\ JoinParts(Append(<<>>, part)) = part.text
    BY <1>1, <1>2, JoinPartsAppend DEF E
  <2> QED BY <1>2, <2>1
<1>8. <<part>> # <<>>
  OBVIOUS
<1> QED BY <1>6, <1>7, <1>8 DEF ExtractBody

\* Whatever the lines of a plain body are, none of them is lost, no line of the
\* quote is in the request, and the request is empty only when the mail is.
THEOREM NothingLost == Spec => []SplitLosesNothing
<1>1. ASSUME Written, kind = "plain"
      PROVE  LET lines == ExtractBody(<<[type |-> "plain", attached |-> FALSE, depth |-> 1, text |-> text]>>)
                 parts == SplitQuotedBody(lines)
             IN /\ parts.request \o parts.blockquote = lines
                /\ FlattenSeq(parts.request) = <<>> => FlattenSeq(lines) = <<>>
                /\ parts.blockquote # <<>> => \A i \in DOMAIN parts.request :
                     parts.request[i] # <<>> =>
                         parts.request[i][1] # Gt /\ parts.request[i] # <<Wrote>>
  <2> DEFINE C == Letters("plain")
             lines == SplitLines(text)
             parts == SplitQuotedBody(lines)
  <2>1. text \in Seq(C) /\ Nl \in C
    BY <1>1 DEF Written, Documents, Letters
  <2>2. ExtractBody(<<[type |-> "plain", attached |-> FALSE, depth |-> 1, text |-> text]>>) = lines
    BY <2>1, OnePlainPart
  <2>3. lines \in Seq(Seq(C))
    <3> HIDE DEF C
    <3>1. SplitLines(text) \in SomeLines(C)
      BY <2>1, SplitLinesAppend
    <3> QED BY <3>1 DEF SomeLines
  <2> HIDE DEF C, lines
  <2>4. /\ parts.request \o parts.blockquote = lines
        /\ parts.blockquote # <<>> => \A i \in DOMAIN parts.request :
              ~ IsQuoteBoundaryLine(parts.request[i])
        /\ FlattenSeq(parts.request) = <<>> => parts.request = lines
    BY <2>3, SplitKeepsLines
  <2>5. ASSUME NEW line, line # <<>>, ~ IsQuoteBoundaryLine(line)
        PROVE  line[1] # Gt /\ line # <<Wrote>>
    <3>1. <<Wrote>>[1] = Wrote /\ Last(<<Wrote>>) = Wrote
      BY DEF Last
    <3> QED BY <2>5, <3>1 DEF IsQuoteBoundaryLine
  <2> HIDE DEF parts
  <2>6. /\ parts.request \o parts.blockquote = lines
        /\ FlattenSeq(parts.request) = <<>> => FlattenSeq(lines) = <<>>
        /\ parts.blockquote # <<>> => \A i \in DOMAIN parts.request :
             parts.request[i] # <<>> => parts.request[i][1] # Gt /\ parts.request[i] # <<Wrote>>
    BY <2>4, <2>5
  <2> QED BY <2>2, <2>6 DEF parts
<1>2. Written => SplitLosesNothing
  BY <1>1 DEF SplitLosesNothing
<1> QED BY <1>2, SamplesWritten, PTL

----------------------------------------------------------------------------
(* What is on the lines. *)

\* The character goes to the last line.
LEMMA LongerLast ==
    ASSUME NEW E, NEW lines \in Seq(Seq(E)), NEW line \in Seq(E), NEW c \in E
    PROVE  Longer(Append(lines, line), c) = Append(lines, Append(line, c))
<1> DEFINE a == Append(lines, line)
           new == Append(line, c)
           b == Append(lines, new)
<1>1. new \in Seq(E)
  BY AppendProperties
<1>2. /\ a \in Seq(Seq(E)) /\ Len(lines) \in Nat /\ Len(a) = Len(lines) + 1
      /\ a[Len(lines) + 1] = line
      /\ \A k \in 1 .. Len(lines) : a[k] = lines[k]
      /\ DOMAIN a = 1 .. Len(lines) + 1
  BY AppendProperties, LenProperties
<1> HIDE DEF new
<1>3. /\ b \in Seq(Seq(E)) /\ Len(b) = Len(lines) + 1
      /\ b[Len(lines) + 1] = new
      /\ \A k \in 1 .. Len(lines) : b[k] = lines[k]
      /\ DOMAIN b = 1 .. Len(lines) + 1
  BY <1>1, AppendProperties, LenProperties
<1> HIDE DEF a, b
<1>4. Longer(a, c) = [k \in DOMAIN a |-> IF k = Len(a) THEN new ELSE a[k]]
  BY <1>2 DEF Longer, new
<1>5. \A k \in DOMAIN a : k # Len(a) => k \in 1 .. Len(lines)
  BY <1>2
<1>6. Longer(a, c) = [k \in 1 .. Len(b) |-> b[k]]
  BY <1>2, <1>3, <1>4, <1>5
<1>7. b = [k \in 1 .. Len(b) |-> b[k]]
  BY <1>3
<1> QED BY <1>6, <1>7 DEF a, b, new

\* The lines hold the text without its line breaks.
LEMMA SplitFlat ==
    ASSUME NEW E, NEW s \in Seq(E)
    PROVE  FlattenSeq(SplitLines(s)) = Only(s, E \ {Nl})
<1> DEFINE W == E \ {Nl}
           P == {r \in Seq(E) : FlattenSeq(SplitLines(r)) = Only(r, W)}
<1>0. \A x \in E : x \in W <=> x # Nl
  OBVIOUS
<1> HIDE DEF P, W
<1>1. <<>> \in P
  <2>1. SplitLines(<<>>) = << <<>> >>
    <3>1. <<>> \in Seq({Nl}) /\ Nl \in {Nl}
      BY EmptySeq
    <3> QED BY <3>1, SplitLinesAppend
  <2>2. FlattenSeq(<< <<>> >>) = <<>>
    <3>1. <<>> \in Seq({Nl})
      BY EmptySeq
    <3> QED BY <3>1, FlattenOne
  <2>3. Only(<<>>, W) = <<>>
    BY OnlyEmpty
  <2> QED BY <2>1, <2>2, <2>3, EmptySeq DEF P
<1>2. ASSUME NEW r \in Seq(E), NEW x \in E, r \in P PROVE Append(r, x) \in P
  <2> DEFINE lines == SplitLines(r)
  <2>0. Append(r, x) \in Seq(E)
    BY AppendProperties
  <2>1. lines \in SomeLines(E)
    BY SplitLinesAppend
  <2>2. /\ x = Nl => SplitLines(Append(r, x)) = Append(lines, <<>>)
        /\ x # Nl => SplitLines(Append(r, x)) = Longer(lines, x)
    BY SplitLinesAppend
  <2>3. FlattenSeq(lines) = Only(r, W)
    BY <1>2 DEF P
  <2> HIDE DEF lines
  <2>4. /\ x # Nl => Only(Append(r, x), W) = Append(Only(r, W), x)
        /\ x = Nl => Only(Append(r, x), W) = Only(r, W)
    <3>1. /\ x \in W => Only(Append(r, x), W) = Append(Only(r, W), x)
          /\ x \notin W => Only(Append(r, x), W) = Only(r, W)
      BY OnlyAppend
    <3> QED BY <1>0, <3>1
  <2>5. PICK q \in Seq(Seq(E)), l \in Seq(E) : lines = Append(q, l)
    BY <2>1, SequenceEmptyOrAppend DEF SomeLines
  <2>6. FlattenSeq(lines) = FlattenSeq(q) \o l /\ FlattenSeq(q) \in Seq(E)
    BY <2>5, FlattenAppend
  <2>7. CASE x = Nl
    <3>1. FlattenSeq(Append(lines, <<>>)) = FlattenSeq(lines)
      <4>1. lines \in Seq(Seq(E)) /\ <<>> \in Seq(E)
        BY <2>1, EmptySeq DEF SomeLines
      <4>2. /\ FlattenSeq(lines) \in Seq(E)
            /\ FlattenSeq(Append(lines, <<>>)) = FlattenSeq(lines) \o <<>>
        BY <4>1, FlattenAppend
      <4> QED BY <4>2, ConcatEmptySeq
    <3> QED BY <2>0, <2>2, <2>3, <2>4, <2>7, <3>1 DEF P
  <2>8. CASE x # Nl
    <3>1. SplitLines(Append(r, x)) = Append(q, Append(l, x))
      BY <2>2, <2>5, <2>8, LongerLast
    <3>2. Append(l, x) \in Seq(E)
      BY AppendProperties
    <3>3. FlattenSeq(Append(q, Append(l, x))) = FlattenSeq(q) \o Append(l, x)
      <4> DEFINE m == Append(l, x)
      <4> HIDE DEF m
      <4>1. m \in Seq(E)
        BY <3>2 DEF m
      <4>2. FlattenSeq(Append(q, m)) = FlattenSeq(q) \o m
        BY <4>1, FlattenAppend
      <4> QED BY <4>2 DEF m
    <3>4. FlattenSeq(q) \o Append(l, x) = Append(FlattenSeq(q) \o l, x)
      BY <2>6, ConcatAppend
    <3>5. FlattenSeq(SplitLines(Append(r, x))) = Append(FlattenSeq(lines), x)
      BY <2>6, <3>1, <3>3, <3>4
    <3> QED BY <2>0, <2>3, <2>4, <2>8, <3>5 DEF P
  <2> QED BY <2>7, <2>8
<1>3. s \in P
  BY <1>1, <1>2, SequenceInduction
<1> QED BY <1>3 DEF P, W

LEMMA SplitWords ==
    ASSUME NEW E, NEW s \in Seq(E), NEW W, Nl \notin W
    PROVE  Only(FlattenSeq(SplitLines(s)), W) = Only(s, W)
<1> DEFINE A == E \ {Nl}
           B == A \cap W
<1>1. FlattenSeq(SplitLines(s)) = Only(s, A)
  BY SplitFlat
<1>2. ToSet(s) \subseteq E
  BY ElementOfSeq, LenProperties DEF ToSet
<1>3. ToSet(s) \cap B = ToSet(s) \cap W
  BY <1>2
<1>4. Only(Only(s, A), W) = Only(s, B)
  <2> HIDE DEF A
  <2> QED BY OnlyTwice
<1> HIDE DEF A, B
<1>5. Only(s, B) = Only(s, W)
  BY <1>3, OnlySame
<1> QED BY <1>1, <1>4, <1>5

----------------------------------------------------------------------------
(* SanitizeHtml *)

\* The states of the extractor on a document of some tokens.
Chunks(T) == T \cup {Nl, Gt}
Extractors(T) ==
    [chunks : Seq(Chunks(T)), skip : Nat, quote : Nat, lineStart : BOOLEAN]
FeedStep(T) == [token \in T |-> [x \in Extractors(T) |-> Feed(x, token)]]

LEMMA FeedType ==
    ASSUME NEW T
    PROVE  /\ Extractor \in Extractors(T)
           /\ Steps(T, Extractors(T), FeedStep(T))
           /\ \A x \in Extractors(T), token \in T : Feed(x, token) \in Extractors(T)
<1>1. Extractor \in Extractors(T)
  BY EmptySeq DEF Extractor, Extractors
<1>2. ASSUME NEW x \in Extractors(T), NEW token \in T PROVE Feed(x, token) \in Extractors(T)
  <2>1. /\ x.chunks \in Seq(Chunks(T)) /\ x.skip \in Nat /\ x.quote \in Nat
        /\ x.lineStart \in BOOLEAN
        /\ x = [chunks |-> x.chunks, skip |-> x.skip, quote |-> x.quote,
                lineStart |-> x.lineStart]
    BY DEF Extractors
  <2>2. token \in Chunks(T) /\ Nl \in Chunks(T) /\ Gt \in Chunks(T)
    BY DEF Chunks
  <2>3. /\ Append(x.chunks, Nl) \in Seq(Chunks(T))
        /\ Append(x.chunks, token) \in Seq(Chunks(T))
    BY <2>1, <2>2, AppendProperties
  <2>4. x.chunks \o PrefixQuoteLine(x, token) \in Seq(Chunks(T))
    <3>1. PrefixQuoteLine(x, token) \in Seq(Chunks(T))
      BY <2>2 DEF PrefixQuoteLine
    <3> QED BY <2>1, <3>1, ConcatProperties
  <2>5. HandleStarttag(x, token) \in Extractors(T)
    BY <2>1, <2>3 DEF HandleStarttag, Extractors
  <2>6. HandleEndtag(x, token) \in Extractors(T)
    <3> DEFINE skip == IF token = CloseSkip /\ x.skip > 0 THEN x.skip - 1 ELSE x.skip
               quote == IF token = CloseQuote /\ x.quote > 0 THEN x.quote - 1 ELSE x.quote
               lineStart == IF token = CloseQuote /\ x.quote = 1 THEN FALSE ELSE x.lineStart
    <3>1. skip \in Nat /\ quote \in Nat /\ lineStart \in BOOLEAN
      <4>1. \A k \in Nat : k > 0 => k - 1 \in Nat
        OBVIOUS
      <4>2. skip \in Nat
        BY <2>1, <4>1
      <4>3. quote \in Nat
        BY <2>1, <4>1
      <4>4. lineStart \in BOOLEAN
        BY <2>1
      <4> QED BY <4>2, <4>3, <4>4
    <3>2. HandleEndtag(x, token) =
            [x EXCEPT !.skip = skip, !.quote = quote, !.lineStart = lineStart]
      BY DEF HandleEndtag
    <3> HIDE DEF skip, quote, lineStart
    <3> QED BY <3>1, <3>2 DEF Extractors
  <2>7. HandleData(x, token) \in Extractors(T)
    <3>1. CASE x.skip # 0
      BY <3>1 DEF HandleData
    <3>2. CASE x.skip = 0 /\ x.quote = 0
      BY <2>1, <2>3, <3>2 DEF HandleData, Extractors
    <3>3. CASE x.skip = 0 /\ x.quote # 0
      <4>1. HandleData(x, token) =
              [x EXCEPT !.chunks = @ \o PrefixQuoteLine(x, token), !.lineStart = (token = Nl)]
        BY <3>3 DEF HandleData
      <4> QED BY <2>1, <2>4, <4>1 DEF Extractors
    <3> QED BY <3>1, <3>2, <3>3
  <2> QED BY <2>5, <2>6, <2>7 DEF Feed
<1> QED BY <1>1, <1>2 DEF Steps, FeedStep

LEMMA FeedFolds ==
    ASSUME NEW T, NEW s \in Seq(T)
    PROVE  FoldLeft(Feed, Extractor, s) = Folding(Extractors(T), Extractor, FeedStep(T), s)
<1> DEFINE n == Len(s)
           V == Extractors(T)
           base == Extractor
           step == FeedStep(T)
           Sol(h) == h = [u \in SUBSET DOMAIN s |->
                             IF u = {} THEN Extractor
                             ELSE Feed(h[u \ {Max(u)}], s[Max(u)])]
           it == CHOOSE h : Sol(h)
<1>0. n \in Nat /\ DOMAIN s = 1 .. n /\ \A k \in 1 .. n : s[k] \in T
  BY LenProperties, ElementOfSeq
<1>1. base \in V /\ Steps(T, V, step)
  BY FeedType
<1>2. ASSUME NEW c \in T, NEW v \in V PROVE step[c][v] = Feed(v, c)
  BY <1>2 DEF FeedStep
<1>3. PICK f : SetFolded(f, V, base, step, s)
  <2> HIDE DEF step, V, base
  <2> QED BY <1>1, SetFoldExists
<1>4. Sol(f)
  <2>1. ASSUME NEW u \in SUBSET (1 .. n), u # {}
        PROVE  s[Max(u)] \in T /\ f[u \ {Max(u)}] \in V
    <3>1. Max(u) \in 1 .. n /\ u \ {Max(u)} \in SUBSET (1 .. n)
      BY <1>0, <2>1, LastPlace
    <3> QED BY <1>0, <1>3, <3>1 DEF SetFolded
  <2> HIDE DEF step, V, base, n
  <2>2. f = [u \in SUBSET (1 .. n) |->
               IF u = {} THEN base ELSE step[s[Max(u)]][f[u \ {Max(u)}]]]
    BY <1>3 DEF SetFolded, n
  <2>3. ASSUME NEW u \in SUBSET (1 .. n), u # {}
        PROVE  step[s[Max(u)]][f[u \ {Max(u)}]] = Feed(f[u \ {Max(u)}], s[Max(u)])
    BY <1>2, <2>1, <2>3
  <2> QED BY <1>0, <2>2, <2>3 DEF base
<1>5. Sol(it)
  BY <1>4
<1>6. FoldLeft(Feed, Extractor, s) = it[1 .. n]
  BY <1>0 DEF FoldLeft, MapThenFoldSet
<1> HIDE DEF it
<1>7. it[{}] = base
  <2>1. {} \in SUBSET DOMAIN s
    OBVIOUS
  <2> QED BY <1>5, <2>1
<1>8. ASSUME NEW k \in 1 .. n, it[1 .. k - 1] \in V
      PROVE  it[1 .. k] = step[s[k]][it[1 .. k - 1]]
  <2>1. /\ 1 .. k \in SUBSET DOMAIN s /\ 1 .. k # {} /\ Max(1 .. k) = k
        /\ (1 .. k) \ {Max(1 .. k)} = 1 .. k - 1
    BY <1>0, InitialSegment
  <2> DEFINE u == 1 .. k
             w == 1 .. k - 1
  <2> HIDE DEF u, w
  <2>2. u \in SUBSET DOMAIN s /\ u # {} /\ Max(u) = k /\ u \ {Max(u)} = w
    BY <2>1 DEF u, w
  <2>3. it[u] = Feed(it[w], s[k])
    BY <1>5, <2>2
  <2>4. it[w] \in V /\ s[k] \in T
    BY <1>0, <1>8 DEF w
  <2>5. it[u] = step[s[k]][it[w]]
    BY <1>2, <2>3, <2>4
  <2> QED BY <2>5 DEF u, w
<1>9. it[1 .. n] = Folding(V, base, step, s)
  <2> HIDE DEF V, base, step
  <2> QED BY <1>1, <1>7, <1>8, SegmentFold
<1> QED BY <1>6, <1>9

\* One token more.
LEMMA FeedAppend ==
    ASSUME NEW T, NEW s \in Seq(T), NEW x \in T
    PROVE  /\ FoldLeft(Feed, Extractor, <<>>) = Extractor
           /\ FoldLeft(Feed, Extractor, s) \in Extractors(T)
           /\ FoldLeft(Feed, Extractor, Append(s, x)) = Feed(FoldLeft(Feed, Extractor, s), x)
<1> DEFINE V == Extractors(T)
           base == Extractor
           step == FeedStep(T)
           F(r) == FoldLeft(Feed, Extractor, r)
<1>1. base \in V /\ Steps(T, V, step)
  BY FeedType
<1>2. /\ F(<<>>) = Folding(V, base, step, <<>>)
      /\ F(s) = Folding(V, base, step, s)
      /\ F(Append(s, x)) = Folding(V, base, step, Append(s, x))
  <2>1. <<>> \in Seq(T) /\ Append(s, x) \in Seq(T)
    BY EmptySeq, AppendProperties
  <2>2. \A r \in Seq(T) : F(r) = Folding(V, base, step, r)
    BY FeedFolds
  <2> HIDE DEF F
  <2> QED BY <2>1, <2>2
<1> HIDE DEF F
<1>3. /\ Folding(V, base, step, <<>>) = base
      /\ Folding(V, base, step, s) \in V
      /\ Folding(V, base, step, Append(s, x)) = step[x][Folding(V, base, step, s)]
  <2> HIDE DEF V, base, step
  <2> QED BY <1>1, FoldingAppend
<1> HIDE DEF V
<1>4. \A v \in V : step[x][v] = Feed(v, x)
  BY DEF FeedStep, V
<1>5. F(<<>>) = base /\ F(s) \in V /\ F(Append(s, x)) = step[x][F(s)]
  BY <1>2, <1>3
<1> HIDE DEF step
<1>6. F(<<>>) = Extractor /\ F(s) \in V /\ F(Append(s, x)) = Feed(F(s), x)
  BY <1>4, <1>5
<1> QED BY <1>6 DEF F, V

----------------------------------------------------------------------------
(* Substitute where nothing matches. *)

\* A text without "<" has no tag that is taken out.
LEMMA NoTagOut ==
    ASSUME NEW C, NEW s \in Seq(C), Lt \notin C
    PROVE  Substitute(s, TagEnd, LAMBDA match : <<>>) = s
<1> DEFINE n == Len(s)
           Sol(h) == h = [i \in 1 .. Len(s) + 1 |->
                             IF i > Len(s) THEN <<>>
                             ELSE LET j == TagEnd(s, i)
                                  IN IF j = 0 THEN <<s[i]>> \o h[i + 1] ELSE <<>> \o h[j + 1]]
           f == [i \in 1 .. Len(s) + 1 |-> SubSeq(s, i, n)]
           from == CHOOSE h : Sol(h)
<1>0. n \in Nat /\ \A i \in 1 .. n : s[i] \in C
  BY LenProperties, ElementOfSeq
<1>1. \A i \in 1 .. n : TagEnd(s, i) = 0
  BY <1>0 DEF TagEnd
<1>2. \A i \in 1 .. n : SubSeq(s, i, n) = <<s[i]>> \o SubSeq(s, i + 1, n)
  BY <1>0, SubSeqRecursiveFirst
<1>3. SubSeq(s, n + 1, n) = <<>>
  BY <1>0, SubSeqEmpty
<1>4. Sol(f)
  <2>1. ASSUME NEW i \in 1 .. n + 1
        PROVE  SubSeq(s, i, n) =
                 IF i > n THEN <<>>
                 ELSE LET j == TagEnd(s, i)
                      IN IF j = 0 THEN <<s[i]>> \o f[i + 1] ELSE <<>> \o f[j + 1]
    <3>1. CASE i = n + 1
      BY <1>0, <1>3, <3>1
    <3>2. CASE i # n + 1
      <4>1. i \in 1 .. n /\ ~ (i > n) /\ i + 1 \in 1 .. n + 1
        BY <1>0, <3>2
      <4> QED BY <1>1, <1>2, <4>1
    <3> QED BY <3>1, <3>2
  <2> QED BY <2>1
<1>5. Sol(from)
  BY <1>4
<1>6. Substitute(s, TagEnd, LAMBDA match : <<>>) = from[1]
  BY DEF Substitute
<1> HIDE DEF from
<1>7. from[n + 1] = <<>> /\ \A i \in 1 .. n : from[i] = <<s[i]>> \o from[i + 1]
  <2>1. n + 1 \in 1 .. Len(s) + 1 /\ n + 1 > Len(s)
    BY <1>0
  <2>2. \A i \in 1 .. n : i \in 1 .. Len(s) + 1 /\ ~ (i > Len(s))
    BY <1>0
  <2> QED BY <1>1, <1>5, <2>1, <2>2
<1>8. from[1] = SubSeq(s, 1, n)
  <2> DEFINE P == {k \in 0 .. n : from[n + 1 - k] = SubSeq(s, n + 1 - k, n)}
  <2>1. 0 \in P
    <3>1. 0 \in 0 .. n /\ n + 1 - 0 = n + 1
      BY <1>0
    <3>2. from[n + 1] = SubSeq(s, n + 1, n)
      BY <1>3, <1>7
    <3> HIDE DEF n
    <3> QED BY <3>1, <3>2
  <2>2. ASSUME NEW k \in 0 .. n - 1, k \in P PROVE k + 1 \in P
    <3> DEFINE i == n - k
    <3>1. i \in 1 .. n /\ i + 1 = n + 1 - k /\ n + 1 - (k + 1) = i /\ k + 1 \in 0 .. n
      BY <1>0
    <3>2. from[n + 1 - k] = SubSeq(s, n + 1 - k, n)
      BY <2>2
    <3> HIDE DEF i, n
    <3>3. from[i] = SubSeq(s, i, n)
      BY <1>2, <1>7, <3>1, <3>2
    <3> QED BY <3>1, <3>3
  <2> HIDE DEF P
  <2>3. \A k \in 0 .. n : k \in P
    BY <1>0, <2>1, <2>2, UpTo
  <2>4. n \in 0 .. n /\ n + 1 - n = 1
    BY <1>0
  <2> QED BY <2>3, <2>4 DEF P
<1> QED BY <1>6, <1>8, SubSeqFull

----------------------------------------------------------------------------
(* Any number of parts of words and line breaks. *)

Sent == kind = "mime" => text \in Seq(PartsOver(Nat))

LEMMA SamplesSent == Spec => []Sent
<1>1. Init => Sent
  BY DEF Init, Sent
<1>2. Sent /\ [Next]_vars => Sent'
  <2> SUFFICES ASSUME Sent, [Next]_vars, kind' = "mime" PROVE text' \in Seq(PartsOver(Nat))
    BY DEF Sent
  <2>1. CASE UNCHANGED vars
    BY <2>1 DEF Sent, vars
  <2>2. CASE Part
    BY <2>2, PartsAssumption DEF Part, Grow, Sent
  <2>3. CASE Character \/ DigestRequest \/ Piece \/ RunResponse
    BY <2>3 DEF Character, DigestRequest, Piece, RunResponse, Grow, Documents, Lists
  <2> QED BY <2>1, <2>2, <2>3 DEF Next
<1> QED BY <1>1, <1>2, PTL DEF Spec

\* A document of words and line breaks is read as it is.
LEMMA WordsAreData ==
    ASSUME NEW doc \in Seq(Nat)
    PROVE  FoldLeft(Feed, Extractor, doc) = [Extractor EXCEPT !.chunks = doc]
<1> DEFINE P == {r \in Seq(Nat) : FoldLeft(Feed, Extractor, r) = [Extractor EXCEPT !.chunks = r]}
<1> HIDE DEF P
<1>1. <<>> \in P
  <2>1. <<>> \in Seq(Nat) /\ 0 \in Nat
    BY EmptySeq
  <2>2. FoldLeft(Feed, Extractor, <<>>) = Extractor
    BY <2>1, FeedAppend
  <2>3. [Extractor EXCEPT !.chunks = <<>>] = Extractor
    BY DEF Extractor
  <2> QED BY <2>1, <2>2, <2>3 DEF P
<1>2. ASSUME NEW r \in Seq(Nat), NEW x \in Nat, r \in P PROVE Append(r, x) \in P
  <2>1. FoldLeft(Feed, Extractor, Append(r, x)) = Feed(FoldLeft(Feed, Extractor, r), x)
    BY FeedAppend
  <2>2. FoldLeft(Feed, Extractor, r) = [Extractor EXCEPT !.chunks = r]
    BY <1>2 DEF P
  <2> DEFINE e == [Extractor EXCEPT !.chunks = r]
  <2>3. e.skip = 0 /\ e.quote = 0 /\ e.chunks = r
    BY DEF Extractor
  <2>4. x \notin OpenTags \cup CloseTags
    BY DEF OpenTags, CloseTags, OpenBreak, OpenQuote, CloseQuote, OpenSkip, CloseSkip
  <2>5. [e EXCEPT !.chunks = Append(r, x)] = [Extractor EXCEPT !.chunks = Append(r, x)]
    BY DEF Extractor
  <2> HIDE DEF e
  <2>6. Feed(e, x) = HandleData(e, x)
    BY <2>4 DEF Feed
  <2>7. HandleData(e, x) = [e EXCEPT !.chunks = Append(r, x)]
    BY <2>3 DEF HandleData
  <2>8. Append(r, x) \in Seq(Nat)
    BY AppendProperties
  <2> QED BY <2>1, <2>2, <2>5, <2>6, <2>7, <2>8 DEF P, e
<1>3. doc \in P
  BY <1>1, <1>2, SequenceInduction
<1> QED BY <1>3 DEF P

\* The lines of such a document hold its words.
LEMMA WordsOfHtml ==
    ASSUME NEW doc \in Seq(Nat)
    PROVE  Words(SanitizeHtml(doc)) = Only(doc, Nat \ {0})
<1> DEFINE lines == SplitLines(doc)
           kept == Only(lines, ToSet(lines) \ {<<>>})
           W == Nat \ {0}
<1>1. FoldLeft(Feed, Extractor, doc).chunks = doc
  BY WordsAreData DEF Extractor
<1>2. Substitute(doc, TagEnd, LAMBDA match : <<>>) = doc
  <2>1. Lt \notin Nat
    BY DEF Lt
  <2> QED BY <2>1, NoTagOut
<1>3. SanitizeHtml(doc) = kept
  BY <1>1, <1>2 DEF SanitizeHtml
<1>4. lines \in Seq(Seq(Nat))
  <2>1. 0 \in Nat
    OBVIOUS
  <2>2. lines \in SomeLines(Nat)
    BY <2>1, SplitLinesAppend
  <2> QED BY <2>2 DEF SomeLines
<1>5. Only(FlattenSeq(lines), W) = Only(doc, W)
  <2>1. Nl \notin W
    BY DEF Nl
  <2> HIDE DEF W
  <2> QED BY <2>1, SplitWords
<1> HIDE DEF lines
<1>6. FlattenSeq(kept) = FlattenSeq(lines)
  <2> DEFINE A == ToSet(lines) \ {<<>>}
  <2>1. ToSet(lines) \ {<<>>} \subseteq A
    OBVIOUS
  <2> HIDE DEF A
  <2>2. FlattenSeq(Only(lines, A)) = FlattenSeq(lines)
    BY <1>4, <2>1, FlattenSome
  <2> QED BY <2>2 DEF A
<1> QED BY <1>3, <1>5, <1>6 DEF Words

\* The texts of a type, as a set of parts.
LeafParts(type) == {part \in PartsOver(Nat) : part.type = type /\ ~ part.attached}

LEMMA LeavesAre ==
    ASSUME NEW parts \in Seq(PartsOver(Nat)), NEW type
    PROVE  /\ Leaves(parts, type) = Only(parts, LeafParts(type))
           /\ Leaves(parts, type) \in Seq(PartsOver(Nat))
           /\ Leaves(parts, type) = <<>> <=>
                 \A i \in DOMAIN parts : parts[i] \notin LeafParts(type)
<1> DEFINE E == PartsOver(Nat)
           A == LeafParts(type)
           B == {part \in ToSet(parts) : part.type = type /\ ~ part.attached}
           r == Only(parts, A)
<1>0. parts \in Seq(E)
  OBVIOUS
<1>1. ToSet(parts) \subseteq E
  BY ElementOfSeq, LenProperties DEF ToSet
<1>2. ToSet(parts) \cap B = ToSet(parts) \cap A
  BY <1>1 DEF LeafParts
<1>3. Leaves(parts, type) = Only(parts, B)
  BY DEF Leaves
<1> HIDE DEF A, B, E
<1>4. Leaves(parts, type) = r
  BY <1>0, <1>2, <1>3, OnlySame
<1>5. r \in Seq(E) /\ ToSet(r) = ToSet(parts) \cap A
  BY <1>0, OnlyType, OnlySet
<1> HIDE DEF r
<1>6. r = <<>> <=> ToSet(r) = {}
  <2>1. DOMAIN r = 1 .. Len(r) /\ Len(r) \in Nat
    BY <1>5, LenProperties
  <2>2. ToSet(r) = {} <=> DOMAIN r = {}
    BY DEF ToSet
  <2>3. DOMAIN r = {} <=> Len(r) = 0
    <3> DEFINE n == Len(r)
    <3> HIDE DEF n
    <3>1. n \in Nat /\ (n = 0 => 1 .. n = {}) /\ (n # 0 => 1 \in 1 .. n)
      BY <2>1 DEF n
    <3> QED BY <2>1, <3>1 DEF n
  <2>4. Len(r) = 0 <=> r = <<>>
    BY <1>5, EmptySeq
  <2> QED BY <2>2, <2>3, <2>4
<1>7. ToSet(parts) \cap A = {} <=> \A i \in DOMAIN parts : parts[i] \notin A
  BY DEF ToSet
<1> QED BY <1>4, <1>5, <1>6, <1>7 DEF r, E, A

\* Two mails that have the same parts of a set at the same places.
LEMMA OnlyAlike ==
    ASSUME NEW E, NEW s \in Seq(E), NEW t \in Seq(E), Len(t) = Len(s), NEW A,
           \A i \in 1 .. Len(s) : s[i] = t[i] \/ (s[i] \notin A /\ t[i] \notin A)
    PROVE  Only(s, A) = Only(t, A)
<1> DEFINE Alike(r, q) == /\ Len(q) = Len(r)
                          /\ \A i \in 1 .. Len(r) : r[i] = q[i] \/ (r[i] \notin A /\ q[i] \notin A)
           P == {r \in Seq(E) : \A q \in Seq(E) : Alike(r, q) => Only(r, A) = Only(q, A)}
<1> HIDE DEF P
<1>1. <<>> \in P
  <2>1. \A q \in Seq(E) : Len(q) = 0 => q = <<>>
    BY EmptySeq
  <2>2. Len(<<>>) = 0 /\ <<>> \in Seq(E)
    BY EmptySeq
  <2> QED BY <2>1, <2>2 DEF P
<1>2. ASSUME NEW r \in Seq(E), NEW x \in E, r \in P PROVE Append(r, x) \in P
  <2> DEFINE n == Len(r)
             l == Append(r, x)
  <2>1. /\ n \in Nat /\ l \in Seq(E) /\ Len(l) = n + 1 /\ l[n + 1] = x
        /\ \A i \in 1 .. n : l[i] = r[i]
    BY AppendProperties, LenProperties
  <2> SUFFICES ASSUME NEW q \in Seq(E), Alike(l, q) PROVE Only(l, A) = Only(q, A)
    BY <2>1 DEF P
  <2> DEFINE p == SubSeq(q, 1, n)
             y == q[n + 1]
  <2>2. Len(q) = n + 1 /\ \A i \in 1 .. n + 1 : l[i] = q[i] \/ (l[i] \notin A /\ q[i] \notin A)
    <3> HIDE DEF l
    <3> QED BY <2>1
  <2> HIDE DEF l, n
  <2>3. n + 1 \in 1 .. n + 1 /\ \A i \in 1 .. n : i \in 1 .. n + 1
    BY <2>1
  <2>4. p \in Seq(E) /\ Len(p) = n /\ \A i \in 1 .. n : p[i] = q[i]
    <3>1. 1 \in 1 .. Len(q) + 1 /\ n \in 1 - 1 .. Len(q) /\ n - 1 + 1 = n
      BY <2>1, <2>2
    <3> QED BY <2>1, <2>2, <3>1, SubSeqProperties
  <2>5. y \in E
    BY <2>2, <2>3, ElementOfSeq
  <2>6. q = Append(p, y)
    <3> HIDE DEF p, y
    <3> DEFINE a == Append(p, y)
    <3>1. /\ a \in Seq(E) /\ Len(a) = n + 1 /\ a[n + 1] = y
          /\ \A i \in 1 .. n : a[i] = p[i]
      BY <2>4, <2>5, AppendProperties
    <3>2. \A i \in 1 .. n + 1 : i \in 1 .. n \/ i = n + 1
      BY <2>1
    <3> HIDE DEF a
    <3>3. \A i \in 1 .. Len(q) : q[i] = a[i]
      BY <2>2, <2>4, <3>1, <3>2 DEF y
    <3>4. q = a
      BY <2>2, <3>1, <3>3, SeqEqual
    <3> QED BY <3>4 DEF a
  <2>7. Alike(r, p)
    BY <2>1, <2>2, <2>3, <2>4 DEF n
  <2>8. Only(r, A) = Only(p, A)
    BY <1>2, <2>4, <2>7 DEF P
  <2>9. x = y \/ (x \notin A /\ y \notin A)
    BY <2>1, <2>2, <2>3
  <2> HIDE DEF p, y
  <2>10. /\ Only(l, A) = IF x \in A THEN Append(Only(r, A), x) ELSE Only(r, A)
         /\ Only(q, A) = IF y \in A THEN Append(Only(p, A), y) ELSE Only(p, A)
    BY <2>4, <2>5, <2>6, OnlyAppend DEF l
  <2> QED BY <2>8, <2>9, <2>10
<1>3. s \in P
  BY <1>1, <1>2, SequenceInduction
<1> QED BY <1>3 DEF P

\* The texts of the parts of a set, one after the other, are those of the joined
\* ones as far as the words go.
LEMMA JoinWords ==
    ASSUME NEW parts \in Seq(PartsOver(Nat)), NEW A
    PROVE  Only(JoinParts(Only(parts, A)), Nat \ {0}) =
               Words([i \in DOMAIN parts |-> IF parts[i] \in A THEN parts[i].text ELSE <<>>])
<1> DEFINE E == PartsOver(Nat)
           W == Nat \ {0}
           f == [part \in E |-> IF part \in A THEN part.text ELSE <<>>]
           P == {r \in Seq(E) : Only(JoinParts(Only(r, A)), W) = Only(FlattenSeq(Mapped(f, r)), W)}
<1>1. /\ \A x \in E : f[x] \in Seq(Nat) /\ x.text \in Seq(Nat)
      /\ \A x \in E : x \in A => f[x] = x.text
      /\ \A x \in E : x \notin A => f[x] = <<>>
  BY EmptySeq DEF PartsOver
<1>2. Nl \in Nat /\ Nl \notin W
  BY DEF Nl
<1>3. ASSUME NEW r \in Seq(E) PROVE JoinParts(r) \in Seq(Nat)
  <2>1. [type |-> "plain", attached |-> FALSE, depth |-> 1, text |-> <<>>] \in E
    BY EmptySeq DEF PartsOver
  <2> QED BY <1>2, <2>1, JoinPartsAppend
<1>4. ASSUME NEW r \in Seq(E), NEW x \in E
      PROVE  /\ JoinParts(<<>>) = <<>>
             /\ JoinParts(r) = <<>> => JoinParts(Append(r, x)) = x.text
             /\ JoinParts(r) # <<>> => JoinParts(Append(r, x)) = JoinParts(r) \o <<Nl>> \o x.text
  BY <1>2, JoinPartsAppend
<1> HIDE DEF P, W, f, E
<1>5. ASSUME NEW r \in Seq(E), NEW x \in E
      PROVE  Only(JoinParts(Append(r, x)), W) = Only(JoinParts(r), W) \o Only(x.text, W)
  <2>1. JoinParts(r) \in Seq(Nat) /\ x.text \in Seq(Nat)
    BY <1>1, <1>3
  <2>2. Only(x.text, W) \in Seq(Nat) /\ Only(JoinParts(r), W) \in Seq(Nat)
    BY <2>1, OnlyType
  <2>3. CASE JoinParts(r) = <<>>
    <3>1. Only(JoinParts(r), W) = <<>>
      BY <2>3, OnlyEmpty
    <3>2. <<>> \o Only(x.text, W) = Only(x.text, W)
      BY <2>2, ConcatEmptySeq
    <3> QED BY <1>4, <2>3, <3>1, <3>2
  <2>4. CASE JoinParts(r) # <<>>
    <3> DEFINE a == JoinParts(r)
               b == Append(a, Nl)
               c == x.text
    <3> HIDE DEF a, b, c
    <3>1. a \in Seq(Nat) /\ c \in Seq(Nat)
      BY <2>1 DEF a, c
    <3>2. b \in Seq(Nat) /\ a \o <<Nl>> = b
      BY <1>2, <3>1, AppendProperties, AppendIsConcat DEF b
    <3>3. Only(b, W) = Only(a, W)
      BY <1>2, <3>1, OnlyAppend DEF b
    <3>4. Only(b \o c, W) = Only(b, W) \o Only(c, W)
      BY <3>1, <3>2, OnlyConcat
    <3>5. JoinParts(Append(r, x)) = b \o c
      BY <1>4, <2>4, <3>2 DEF a, c
    <3> QED BY <3>3, <3>4, <3>5 DEF a, c
  <2> QED BY <2>3, <2>4
<1>6. <<>> \in P
  <2> DEFINE e == <<>>
  <2>1. e \in Seq(E) /\ Only(e, A) = <<>> /\ JoinParts(<<>>) = <<>>
    <3>1. \E x : x \in E
      <4>1. [type |-> "plain", attached |-> FALSE, depth |-> 1, text |-> <<>>] \in E
        BY EmptySeq DEF PartsOver, E
      <4> QED BY <4>1
    <3> QED BY <1>4, <3>1, OnlyEmpty, EmptySeq
  <2>2. Mapped(f, e) = <<>>
    <3>1. DOMAIN e = {}
      BY EmptySeq
    <3> QED BY <3>1 DEF Mapped
  <2>3. FlattenSeq(<<>>) = <<>>
    BY DEF FlattenSeq
  <2> QED BY <2>1, <2>2, <2>3 DEF P
<1>7. ASSUME NEW r \in Seq(E), NEW x \in E, r \in P PROVE Append(r, x) \in P
  <2> DEFINE m == Mapped(f, r)
             o == Only(r, A)
  <2>1. m \in Seq(Seq(Nat)) /\ Mapped(f, Append(r, x)) = Append(m, f[x]) /\ f[x] \in Seq(Nat)
    BY <1>1, MappedType, MappedAppend
  <2>2. o \in Seq(E)
    BY OnlyType
  <2>3. /\ x \in A => Only(Append(r, x), A) = Append(o, x)
        /\ x \notin A => Only(Append(r, x), A) = o
    BY OnlyAppend
  <2>4. Only(JoinParts(o), W) = Only(FlattenSeq(m), W)
    BY <1>7 DEF P
  <2> HIDE DEF m, o
  <2>5. /\ FlattenSeq(m) \in Seq(Nat)
        /\ FlattenSeq(Append(m, f[x])) = FlattenSeq(m) \o f[x]
    BY <2>1, FlattenAppend
  <2>6. Only(FlattenSeq(Append(m, f[x])), W) = Only(FlattenSeq(m), W) \o Only(f[x], W)
    BY <2>1, <2>5, OnlyConcat
  <2>7. Only(JoinParts(Only(Append(r, x), A)), W) = Only(FlattenSeq(Append(m, f[x])), W)
    <3>1. CASE x \in A
      <4>1. Only(JoinParts(Append(o, x)), W) = Only(JoinParts(o), W) \o Only(x.text, W)
        BY <1>5, <2>2
      <4> QED BY <1>1, <2>3, <2>4, <2>6, <3>1, <4>1
    <3>2. CASE x \notin A
      <4>1. Only(f[x], W) = <<>>
        BY <1>1, <3>2, OnlyEmpty
      <4>2. Only(FlattenSeq(m), W) \o <<>> = Only(FlattenSeq(m), W)
        <5>1. Only(FlattenSeq(m), W) \in Seq(Nat)
          BY <2>5, OnlyType
        <5> QED BY <5>1, ConcatEmptySeq
      <4> QED BY <2>3, <2>4, <2>6, <3>2, <4>1, <4>2
    <3> QED BY <3>1, <3>2
  <2>8. Append(r, x) \in Seq(E)
    BY AppendProperties
  <2> QED BY <2>1, <2>7, <2>8 DEF P
<1>8. parts \in P
  <2>1. parts \in Seq(E)
    BY DEF E
  <2> QED BY <1>6, <1>7, <2>1, SequenceInduction
<1>9. Mapped(f, parts) = [i \in DOMAIN parts |-> IF parts[i] \in A THEN parts[i].text ELSE <<>>]
  <2>1. \A i \in DOMAIN parts : parts[i] \in E
    BY ElementOfSeq, LenProperties DEF E
  <2> QED BY <2>1 DEF Mapped, f
<1>10. Only(JoinParts(Only(parts, A)), W) = Only(FlattenSeq(Mapped(f, parts)), W)
  BY <1>8 DEF P
<1> QED BY <1>9, <1>10 DEF Words, W

\* The words of the body are those of the texts of the preferred type.
LEMMA BodyWords ==
    ASSUME NEW parts \in Seq(PartsOver(Nat)), NEW type,
           type = IF Leaves(parts, "plain") # <<>> THEN "plain" ELSE "html"
    PROVE  Words(ExtractBody(parts)) =
               Words([i \in DOMAIN parts |->
                         IF parts[i] \in LeafParts(type) THEN parts[i].text ELSE <<>>])
<1> DEFINE W == Nat \ {0}
           doc == JoinParts(Leaves(parts, type))
<1>1. doc \in Seq(Nat)
  <2>1. [type |-> "plain", attached |-> FALSE, depth |-> 1, text |-> <<>>] \in PartsOver(Nat)
    BY EmptySeq DEF PartsOver
  <2>2. Nl \in Nat
    BY DEF Nl
  <2>3. Leaves(parts, type) \in Seq(PartsOver(Nat))
    BY LeavesAre
  <2> QED BY <2>1, <2>2, <2>3, JoinPartsAppend
<1>2. ExtractBody(parts) = IF type = "plain" THEN SplitLines(doc) ELSE SanitizeHtml(doc)
  BY DEF ExtractBody
<1> HIDE DEF doc
<1>3. Words(SplitLines(doc)) = Only(doc, W)
  <2>1. Nl \notin W
    BY DEF Nl
  <2>2. Words(SplitLines(doc)) = Only(FlattenSeq(SplitLines(doc)), W)
    BY DEF Words
  <2> HIDE DEF W
  <2> QED BY <1>1, <2>1, <2>2, SplitWords
<1>4. Words(SanitizeHtml(doc)) = Only(doc, W)
  BY <1>1, WordsOfHtml
<1>5. Only(doc, W) =
         Words([i \in DOMAIN parts |->
                   IF parts[i] \in LeafParts(type) THEN parts[i].text ELSE <<>>])
  BY LeavesAre, JoinWords DEF doc
<1> QED BY <1>2, <1>3, <1>4, <1>5

\* Whatever tree of parts a mail is, its body has the words of all texts of the
\* preferred type that are no attachments themselves, and depends on nothing in the
\* attachments unless one of these texts is inside of one.
THEOREM UnattachedTextsRead == Spec => []BodyIsUnattachedTexts
<1>1. ASSUME kind = "mime", text \in Seq(PartsOver(Nat))
      PROVE  BodyIsUnattachedTexts
  <2> DEFINE texts(type) == {i \in DOMAIN text : text[i].type = type /\ ~ text[i].attached}
             read == IF texts("plain") = {} THEN texts("html") ELSE texts("plain")
             type == IF Leaves(text, "plain") # <<>> THEN "plain" ELSE "html"
             emptied == [i \in DOMAIN text |->
                IF InAttachment(i) THEN [text[i] EXCEPT !.type = "other", !.text = <<>>]
                ELSE text[i]]
             E == PartsOver(Nat)
  <2>1. DOMAIN text = 1 .. Len(text) /\ Len(text) \in Nat /\ \A i \in DOMAIN text : text[i] \in E
    BY <1>1, ElementOfSeq, LenProperties
  <2>2. \A t : \A i \in DOMAIN text : i \in texts(t) <=> text[i] \in LeafParts(t)
    BY <2>1 DEF LeafParts
  <2>3. Leaves(text, "plain") = <<>> <=> texts("plain") = {}
    <3>1. Leaves(text, "plain") = <<>> <=> \A i \in DOMAIN text : text[i] \notin LeafParts("plain")
      BY <1>1, LeavesAre
    <3> QED BY <2>2, <3>1
  <2>4. read = texts(type)
    BY <2>3
  <2>5. Words(ExtractBody(text)) =
           Words([i \in DOMAIN text |-> IF i \in read THEN text[i].text ELSE <<>>])
    <3>1. Words(ExtractBody(text)) =
             Words([i \in DOMAIN text |->
                       IF text[i] \in LeafParts(type) THEN text[i].text ELSE <<>>])
      <4> HIDE DEF type
      <4>1. type = IF Leaves(text, "plain") # <<>> THEN "plain" ELSE "html"
        BY DEF type
      <4> QED BY <1>1, <4>1, BodyWords
    <3> HIDE DEF texts, read, type
    <3>2. [i \in DOMAIN text |-> IF text[i] \in LeafParts(type) THEN text[i].text ELSE <<>>]
             = [i \in DOMAIN text |-> IF i \in read THEN text[i].text ELSE <<>>]
      BY <2>2, <2>4 DEF texts
    <3> QED BY <3>1, <3>2
  <2>6. ASSUME \A i \in read : ~ InAttachment(i) PROVE ExtractBody(text) = ExtractBody(emptied)
    <3>1. emptied \in Seq(E) /\ Len(emptied) = Len(text) /\ DOMAIN emptied = DOMAIN text
      <4>1. \A i \in DOMAIN text : emptied[i] \in E
        BY <2>1, EmptySeq DEF PartsOver
      <4>2. DOMAIN emptied = 1 .. Len(text)
        BY <2>1
      <4> HIDE DEF emptied, E
      <4>3. emptied \in [1 .. Len(text) -> E]
        <5>1. emptied = [i \in DOMAIN text |-> emptied[i]]
          BY DEF emptied
        <5> QED BY <2>1, <4>1, <5>1
      <4>4. emptied \in Seq(E)
        BY <2>1, <4>3, SeqDef
      <4> QED BY <2>1, <4>2, <4>4, LenProperties
    <3>2. ASSUME NEW t \in {"plain", "html"}, NEW i \in DOMAIN text, i \notin texts(t) \/ i \in read
          PROVE  emptied[i] = text[i] \/ (text[i] \notin LeafParts(t) /\ emptied[i] \notin LeafParts(t))
      <4>1. CASE InAttachment(i)
        <5>1. text[i] \notin LeafParts(t)
          BY <2>2, <2>6, <3>2, <4>1
        <5>2. emptied[i].type = "other"
          BY <2>1, <4>1 DEF PartsOver
        <5> QED BY <5>1, <5>2 DEF LeafParts
      <4>2. CASE ~ InAttachment(i)
        BY <4>2
      <4> QED BY <4>1, <4>2
    <3>3. ASSUME NEW t \in {"plain", "html"}, texts(t) \subseteq read
          PROVE  Leaves(emptied, t) = Leaves(text, t)
      <4>1. \A i \in 1 .. Len(text) :
               text[i] = emptied[i] \/ (text[i] \notin LeafParts(t) /\ emptied[i] \notin LeafParts(t))
        BY <2>1, <3>2, <3>3
      <4> HIDE DEF emptied, E
      <4>2. Only(text, LeafParts(t)) = Only(emptied, LeafParts(t))
        <5>1. text \in Seq(E)
          BY <1>1 DEF E
        <5> QED BY <3>1, <4>1, <5>1, OnlyAlike
      <4> QED BY <1>1, <3>1, <4>2, LeavesAre DEF E
    <3>4. texts("plain") \subseteq read
      OBVIOUS
    <3>5. texts("plain") = {} => texts("html") \subseteq read
      OBVIOUS
    <3>6. Leaves(emptied, "plain") = Leaves(text, "plain")
      BY <3>3, <3>4
    <3>7. texts("plain") = {} => Leaves(emptied, "html") = Leaves(text, "html")
      BY <3>3, <3>5
    <3> HIDE DEF texts, read, type, emptied
    <3> QED BY <2>3, <3>6, <3>7 DEF ExtractBody
  <2> QED BY <2>5, <2>6 DEF BodyIsUnattachedTexts
<1>2. Sent => BodyIsUnattachedTexts
  BY <1>1 DEF Sent, BodyIsUnattachedTexts
<1> QED BY <1>2, SamplesSent, PTL

----------------------------------------------------------------------------
(* What of a document is hidden and what is quoted, as the extractor sees it. *)

Read(doc) == FoldLeft(Feed, Extractor, doc)

\* Whether a place is hidden depends on what is before it.
LEMMA HiddenAppend ==
    ASSUME NEW T, NEW doc \in Seq(T), NEW c \in T
    PROVE  /\ \A i \in 1 .. Len(doc) + 1 : Hidden(Append(doc, c), i) <=> Hidden(doc, i)
           /\ Hidden(Append(doc, c), Len(doc) + 2) <=>
                 c = OpenSkip \/ (c # CloseSkip /\ Hidden(doc, Len(doc) + 1))
           /\ ~ Hidden(doc, 1)
<1> DEFINE n == Len(doc)
           d == Append(doc, c)
<1>1. n \in Nat /\ d[n + 1] = c /\ \A j \in 1 .. n : d[j] = doc[j]
  BY AppendProperties, LenProperties
<1> HIDE DEF d, n
<1>2. ASSUME NEW i \in 1 .. n + 1, NEW k \in 1 .. i - 1
      PROVE  /\ d[k] = doc[k]
             /\ {d[j] : j \in k .. i - 1} = {doc[j] : j \in k .. i - 1}
  <2>1. k \in 1 .. n /\ \A j \in k .. i - 1 : j \in 1 .. n
    BY <1>1
  <2> QED BY <1>1, <2>1
<1>3. \A i \in 1 .. n + 1 : Hidden(d, i) <=> Hidden(doc, i)
  BY <1>2 DEF Hidden
<1>4. n + 2 - 1 = n + 1 /\ n + 1 - 1 = n /\ 1 - 1 = 0 /\ 1 .. 0 = {}
  BY <1>1
<1>5. ASSUME NEW k \in 1 .. n
      PROVE  /\ d[k] = doc[k]
             /\ {d[j] : j \in k .. n + 1} = {doc[j] : j \in k .. n} \cup {c}
  <2>1. \A j \in k .. n + 1 : j = n + 1 \/ (j \in k .. n /\ j \in 1 .. n)
    BY <1>1
  <2>2. n + 1 \in k .. n + 1 /\ \A j \in k .. n : j \in k .. n + 1 /\ j \in 1 .. n
    BY <1>1
  <2> QED BY <1>1, <2>1, <2>2
<1>6. d[n + 1] = c /\ {d[j] : j \in n + 1 .. n + 1} = {c}
  <2>1. n + 1 .. n + 1 = {n + 1}
    BY <1>1
  <2> QED BY <1>1, <2>1
<1>7. Hidden(doc, n + 1) <=>
         \E k \in 1 .. n : doc[k] = OpenSkip /\ CloseSkip \notin {doc[j] : j \in k .. n}
  <2> DEFINE i == n + 1
  <2>1. i - 1 = n
    BY <1>1
  <2> HIDE DEF i, n
  <2>2. Hidden(doc, i) <=>
          \E k \in 1 .. n : doc[k] = OpenSkip /\ CloseSkip \notin {doc[j] : j \in k .. n}
    BY <2>1, Zenon DEF Hidden
  <2> QED BY <2>2 DEF i
<1>8. Hidden(d, n + 2) <=>
         \E k \in 1 .. n + 1 : d[k] = OpenSkip /\ CloseSkip \notin {d[j] : j \in k .. n + 1}
  <2> DEFINE i == n + 2
             m == n + 1
  <2>1. i - 1 = m
    BY <1>1
  <2> HIDE DEF i, m
  <2>2. Hidden(d, i) <=>
          \E k \in 1 .. m : d[k] = OpenSkip /\ CloseSkip \notin {d[j] : j \in k .. m}
    BY <2>1, Zenon DEF Hidden
  <2> QED BY <2>2 DEF i, m
<1>9. OpenSkip # CloseSkip
  BY DEF OpenSkip, CloseSkip
<1>10. ASSUME Hidden(d, n + 2)
       PROVE  c = OpenSkip \/ (c # CloseSkip /\ Hidden(doc, n + 1))
  <2>1. PICK k \in 1 .. n + 1 : d[k] = OpenSkip /\ CloseSkip \notin {d[j] : j \in k .. n + 1}
    BY <1>8, <1>10
  <2>2. CASE k = n + 1
    BY <1>6, <2>1, <2>2
  <2>3. CASE k # n + 1
    <3>1. k \in 1 .. n
      BY <1>1, <2>3
    <3> QED BY <1>5, <1>7, <2>1, <3>1
  <2> QED BY <2>2, <2>3
<1>11. ASSUME c = OpenSkip \/ (c # CloseSkip /\ Hidden(doc, n + 1))
       PROVE  Hidden(d, n + 2)
  <2>1. CASE c = OpenSkip
    <3>1. n + 1 \in 1 .. n + 1
      BY <1>1
    <3> QED BY <1>6, <1>8, <1>9, <2>1, <3>1
  <2>2. CASE c # CloseSkip /\ Hidden(doc, n + 1)
    <3>1. PICK k \in 1 .. n : doc[k] = OpenSkip /\ CloseSkip \notin {doc[j] : j \in k .. n}
      BY <1>7, <2>2
    <3>2. k \in 1 .. n + 1
      BY <1>1
    <3> QED BY <1>5, <1>8, <2>2, <3>1, <3>2
  <2> QED BY <1>11, <2>1, <2>2
<1>12. ~ Hidden(doc, 1)
  BY <1>4 DEF Hidden
<1> QED BY <1>3, <1>10, <1>11, <1>12 DEF d, n

\* A token counts no tag before its place.
LEMMA TagsSame ==
    ASSUME NEW T, NEW doc \in Seq(T), NEW c \in T, NEW tag,
           NEW i \in 1 .. Len(doc) + 1, NEW k \in 1 .. Len(doc) + 1
    PROVE  Tags(Append(doc, c), tag, k, i) = Tags(doc, tag, k, i)
<1> DEFINE n == Len(doc)
           d == Append(doc, c)
           S(t) == {j \in k .. i - 1 : t[j] = tag /\ ~ Hidden(t, j)}
<1>1. n \in Nat /\ \A j \in 1 .. n : d[j] = doc[j]
  BY AppendProperties, LenProperties
<1>2. \A j \in 1 .. n + 1 : Hidden(d, j) <=> Hidden(doc, j)
  BY HiddenAppend
<1> HIDE DEF d, n
<1>3. \A j \in k .. i - 1 : j \in 1 .. n /\ j \in 1 .. n + 1
  BY <1>1 DEF n
<1>4. S(d) = S(doc)
  BY <1>1, <1>2, <1>3
<1> QED BY <1>4 DEF Tags, d

\* One tag more is counted when it is seen.
LEMMA TagsAppend ==
    ASSUME NEW T, NEW doc \in Seq(T), NEW c \in T, NEW tag, NEW k \in 1 .. Len(doc) + 1
    PROVE  /\ Tags(doc, tag, k, Len(doc) + 1) \in Nat
           /\ c = tag /\ ~ Hidden(doc, Len(doc) + 1) =>
                Tags(Append(doc, c), tag, k, Len(doc) + 2) = Tags(doc, tag, k, Len(doc) + 1) + 1
           /\ ~ (c = tag /\ ~ Hidden(doc, Len(doc) + 1)) =>
                Tags(Append(doc, c), tag, k, Len(doc) + 2) = Tags(doc, tag, k, Len(doc) + 1)
<1> DEFINE n == Len(doc)
           d == Append(doc, c)
           S(t, i) == {j \in k .. i - 1 : t[j] = tag /\ ~ Hidden(t, j)}
<1>1. n \in Nat /\ k \in 1 .. n + 1 /\ d[n + 1] = c /\ \A j \in 1 .. n : d[j] = doc[j]
  BY AppendProperties, LenProperties
<1>6. /\ Tags(doc, tag, k, n + 1) = Cardinality(S(doc, n + 1))
      /\ Tags(d, tag, k, n + 2) = Cardinality(S(d, n + 2))
  BY DEF Tags
<1>2. \A i \in 1 .. n + 1 : Hidden(d, i) <=> Hidden(doc, i)
  BY HiddenAppend
<1> HIDE DEF d, n
<1>3. ASSUME NEW t, NEW i \in Int PROVE S(t, i) \subseteq k .. i - 1
  OBVIOUS
<1>4. /\ c = tag /\ ~ Hidden(doc, n + 1) => S(d, n + 2) = S(doc, n + 1) \cup {n + 1}
      /\ ~ (c = tag /\ ~ Hidden(doc, n + 1)) => S(d, n + 2) = S(doc, n + 1)
      /\ n + 1 \notin S(doc, n + 1)
      /\ IsFiniteSet(S(doc, n + 1))
  <2>1. \A j \in k .. n + 2 - 1 : j = n + 1 \/ (j \in k .. n + 1 - 1 /\ j \in 1 .. n)
    BY <1>1
  <2>2. /\ n + 1 \in k .. n + 2 - 1 /\ n + 1 \in 1 .. n + 1 /\ n + 1 \notin k .. n + 1 - 1
        /\ \A j \in k .. n + 1 - 1 : j \in k .. n + 2 - 1 /\ j \in 1 .. n /\ j \in 1 .. n + 1
    BY <1>1
  <2>3. IsFiniteSet(k .. n + 1 - 1)
    BY <1>1, FS_Interval
  <2>4. IsFiniteSet(S(doc, n + 1))
    <3> HIDE DEF S
    <3>1. S(doc, n + 1) \in SUBSET (k .. n + 1 - 1)
      BY <1>1, <1>3
    <3> QED BY <2>3, <3>1, FS_Subset
  <2>5. /\ (n + 1 \in S(d, n + 2) <=> c = tag /\ ~ Hidden(doc, n + 1))
        /\ \A j \in k .. n + 1 - 1 : j \in S(d, n + 2) <=> j \in S(doc, n + 1)
    BY <1>1, <1>2, <2>2
  <2>6. /\ S(doc, n + 1) \in SUBSET (k .. n + 1 - 1)
        /\ S(d, n + 2) \in SUBSET (k .. n + 2 - 1)
    <3> HIDE DEF S
    <3> QED BY <1>1, <1>3
  <2> HIDE DEF S
  <2>7. n + 1 \notin S(doc, n + 1)
    BY <2>2, <2>6
  <2>8. c = tag /\ ~ Hidden(doc, n + 1) => S(d, n + 2) = S(doc, n + 1) \cup {n + 1}
    BY <2>1, <2>2, <2>5, <2>6
  <2>9. ~ (c = tag /\ ~ Hidden(doc, n + 1)) => S(d, n + 2) = S(doc, n + 1)
    BY <2>1, <2>2, <2>5, <2>6
  <2> QED BY <2>4, <2>7, <2>8, <2>9
<1>5. /\ Cardinality(S(doc, n + 1)) \in Nat
      /\ c = tag /\ ~ Hidden(doc, n + 1) =>
            Cardinality(S(d, n + 2)) = Cardinality(S(doc, n + 1)) + 1
      /\ ~ (c = tag /\ ~ Hidden(doc, n + 1)) =>
            Cardinality(S(d, n + 2)) = Cardinality(S(doc, n + 1))
  <2> HIDE DEF S
  <2>1. /\ Cardinality(S(doc, n + 1)) \in Nat
        /\ Cardinality(S(doc, n + 1) \cup {n + 1}) = Cardinality(S(doc, n + 1)) + 1
    BY <1>4, FS_CardinalityType, FS_AddElement
  <2> QED BY <1>4, <2>1
<1> HIDE DEF S
<1> QED BY <1>5, <1>6 DEF d, n

\* What a token does to the counters of the extractor.
LEMMA FeedCounts ==
    ASSUME NEW T, NEW x \in Extractors(T), NEW c \in T, x.skip \in {0, 1}
    PROVE  /\ c = OpenSkip => Feed(x, c).skip = 1
           /\ c = CloseSkip => Feed(x, c).skip = 0
           /\ c \notin {OpenSkip, CloseSkip} => Feed(x, c).skip = x.skip
           /\ c = OpenQuote /\ x.skip = 0 => Feed(x, c).quote = x.quote + 1
           /\ c = CloseQuote /\ x.skip = 0 /\ x.quote > 0 => Feed(x, c).quote = x.quote - 1
           /\ c = CloseQuote /\ x.skip = 0 /\ x.quote = 0 => Feed(x, c).quote = 0
           /\ c \notin {OpenQuote, CloseQuote} \/ x.skip # 0 => Feed(x, c).quote = x.quote
<1>0. /\ x.chunks \in Seq(Chunks(T)) /\ x.skip \in Nat /\ x.quote \in Nat
      /\ x.lineStart \in BOOLEAN
      /\ x = [chunks |-> x.chunks, skip |-> x.skip, quote |-> x.quote,
              lineStart |-> x.lineStart]
  BY DEF Extractors
<1>1. HandleData(x, c).skip = x.skip /\ HandleData(x, c).quote = x.quote
  <2>1. CASE x.skip # 0
    BY <2>1 DEF HandleData
  <2>2. CASE x.skip = 0 /\ x.quote = 0
    BY <1>0, <2>2 DEF HandleData
  <2>3. CASE x.skip = 0 /\ x.quote # 0
    BY <1>0, <2>3 DEF HandleData
  <2> QED BY <2>1, <2>2, <2>3
<1>2. /\ HandleStarttag(x, c).skip = IF c = OpenSkip THEN x.skip + 1 ELSE x.skip
      /\ HandleStarttag(x, c).quote = IF c = OpenQuote THEN x.quote + 1 ELSE x.quote
  BY DEF HandleStarttag
<1>3. /\ HandleEndtag(x, c).skip = IF c = CloseSkip /\ x.skip > 0 THEN x.skip - 1 ELSE x.skip
      /\ HandleEndtag(x, c).quote =
            IF c = CloseQuote /\ x.quote > 0 THEN x.quote - 1 ELSE x.quote
  BY <1>0 DEF HandleEndtag
<1>4. /\ c \in OpenTags /\ x.skip = 0 => Feed(x, c) = HandleStarttag(x, c)
      /\ c \in CloseTags /\ x.skip = 0 => Feed(x, c) = HandleEndtag(x, c)
      /\ c = CloseSkip => Feed(x, c) = HandleEndtag(x, c)
      /\ c \notin OpenTags \cup CloseTags => Feed(x, c) = HandleData(x, c)
      /\ x.skip = 1 /\ c # CloseSkip => Feed(x, c) = HandleData(x, c)
  <2>1. c \in OpenTags => c \notin CloseTags
    BY DEF OpenTags, CloseTags, OpenBreak, OpenQuote, CloseQuote, OpenSkip, CloseSkip
  <2>2. CloseSkip \in CloseTags
    BY DEF CloseTags
  <2> QED BY <2>1, <2>2 DEF Feed
<1>5. /\ OpenTags = {OpenBreak, OpenQuote, OpenSkip} /\ CloseTags = {CloseQuote, CloseSkip}
      /\ OpenBreak # OpenQuote /\ OpenBreak # OpenSkip /\ OpenQuote # OpenSkip
      /\ CloseQuote # CloseSkip /\ OpenTags \cap CloseTags = {}
  BY DEF OpenTags, CloseTags, OpenBreak, OpenQuote, CloseQuote, OpenSkip, CloseSkip
<1> HIDE DEF OpenTags, CloseTags
<1> DEFINE y == Feed(x, c)
<1>6. x.quote \in Nat /\ (x.skip = 0 \/ x.skip = 1)
  BY <1>0
<1>7. CASE c = CloseSkip
  <2>1. y = HandleEndtag(x, c) /\ c # CloseQuote /\ c # OpenSkip /\ c # OpenQuote
    BY <1>4, <1>5, <1>7
  <2>2. y.skip = 0 /\ y.quote = x.quote
    BY <1>3, <1>6, <1>7, <2>1
  <2> HIDE DEF y
  <2> QED BY <1>7, <2>1, <2>2 DEF y
<1>8. CASE c # CloseSkip /\ x.skip = 1
  <2>1. y = HandleData(x, c)
    BY <1>4, <1>8
  <2>2. y.skip = 1 /\ y.quote = x.quote
    BY <1>1, <1>8, <2>1
  <2> HIDE DEF y
  <2> QED BY <1>8, <2>2 DEF y
<1>9. CASE c = CloseQuote /\ x.skip = 0
  <2>1. y = HandleEndtag(x, c) /\ c # CloseSkip /\ c # OpenSkip /\ c # OpenQuote
    BY <1>4, <1>5, <1>9
  <2>2. y.skip = 0 /\ y.quote = IF x.quote > 0 THEN x.quote - 1 ELSE x.quote
    BY <1>3, <1>9, <2>1
  <2>3. (x.quote > 0 => y.quote = x.quote - 1) /\ (x.quote = 0 => y.quote = 0)
    BY <1>6, <2>2
  <2> HIDE DEF y
  <2> QED BY <1>9, <2>1, <2>2, <2>3 DEF y
<1>10. CASE c \in OpenTags /\ x.skip = 0
  <2>1. y = HandleStarttag(x, c) /\ c # CloseQuote /\ c # CloseSkip
    BY <1>4, <1>5, <1>10
  <2>2. /\ y.skip = IF c = OpenSkip THEN 1 ELSE 0
        /\ y.quote = IF c = OpenQuote THEN x.quote + 1 ELSE x.quote
    BY <1>2, <1>10, <2>1
  <2>3. OpenQuote # OpenSkip
    BY <1>5
  <2> HIDE DEF y
  <2> QED BY <1>10, <2>1, <2>2, <2>3 DEF y
<1>11. CASE c \notin OpenTags \cup CloseTags /\ x.skip = 0
  <2>1. /\ y = HandleData(x, c)
        /\ c # OpenQuote /\ c # OpenSkip /\ c # CloseQuote /\ c # CloseSkip
    BY <1>4, <1>5, <1>11
  <2>2. y.skip = 0 /\ y.quote = x.quote
    BY <1>1, <1>11, <2>1
  <2> HIDE DEF y
  <2> QED BY <1>11, <2>1, <2>2 DEF y
<1>12. c \in CloseTags => c = CloseSkip \/ c = CloseQuote
  BY <1>5
<1> QED BY <1>6, <1>7, <1>8, <1>9, <1>10, <1>11, <1>12

\* No tag is counted over no stretch.
LEMMA TagsCount ==
    ASSUME NEW doc, NEW tag, NEW k \in Int, NEW m \in Int
    PROVE  Tags(doc, tag, k, m) \in Nat /\ Tags(doc, tag, m, m) = 0
<1> DEFINE S(l) == {j \in l .. m - 1 : doc[j] = tag /\ ~ Hidden(doc, j)}
<1>1. S(k) \subseteq k .. m - 1 /\ Tags(doc, tag, k, m) = Cardinality(S(k))
  BY DEF Tags
<1>2. IsFiniteSet(k .. m - 1)
  BY FS_Interval
<1>3. m .. m - 1 = {}
  OBVIOUS
<1>4. S(m) = {} /\ Tags(doc, tag, m, m) = Cardinality(S(m))
  BY <1>3 DEF Tags
<1> HIDE DEF S
<1> QED BY <1>1, <1>2, <1>4, FS_Subset, FS_CardinalityType, FS_EmptySet

\* skip says whether the next place is hidden; quote is the most that opened
\* and did not close over a stretch.
Counted(doc, x, m) ==
    /\ x.skip \in {0, 1} /\ (x.skip = 1 <=> Hidden(doc, m))
    /\ \A k \in 1 .. m :
          Tags(doc, OpenQuote, k, m) <= Tags(doc, CloseQuote, k, m) + x.quote
    /\ x.quote > 0 => \E k \in 1 .. m :
          Tags(doc, OpenQuote, k, m) = Tags(doc, CloseQuote, k, m) + x.quote

LEMMA Counting ==
    ASSUME NEW T, NEW doc \in Seq(T)
    PROVE  Counted(doc, Read(doc), Len(doc) + 1)
<1> DEFINE P == {r \in Seq(T) : Counted(r, Read(r), Len(r) + 1)}
<1> HIDE DEF P
<1>1. <<>> \in P
  <2>1. <<>> \in Seq({0}) /\ 0 \in {0} /\ Len(<<>>) + 1 = 1
    BY EmptySeq
  <2>2. Read(<<>>) = Extractor
    BY <2>1, FeedAppend DEF Read
  <2>3. ~ Hidden(<<>>, 1)
    BY <2>1, HiddenAppend
  <2>4. \A tag : Tags(<<>>, tag, 1, 1) = 0
    <3>1. 1 \in Int
      OBVIOUS
    <3> QED BY <3>1, TagsCount
  <2>5. Extractor.skip = 0 /\ Extractor.quote = 0
    BY DEF Extractor
  <2>6. \A k \in 1 .. 1 : Tags(<<>>, OpenQuote, k, 1) = 0 /\ Tags(<<>>, CloseQuote, k, 1) = 0
    BY <2>4
  <2>7. Counted(<<>>, Extractor, 1)
    BY <2>3, <2>5, <2>6 DEF Counted
  <2> QED BY <2>1, <2>2, <2>7, EmptySeq DEF P
<1>2. ASSUME NEW r \in Seq(T), NEW c \in T, r \in P PROVE Append(r, c) \in P
  <2>18. ASSUME NEW tag, NEW k \in 1 .. Len(r) + 1
         PROVE  /\ c = tag /\ ~ Hidden(r, Len(r) + 1) =>
                      Tags(Append(r, c), tag, k, Len(r) + 2) = Tags(r, tag, k, Len(r) + 1) + 1
                /\ ~ (c = tag /\ ~ Hidden(r, Len(r) + 1)) =>
                      Tags(Append(r, c), tag, k, Len(r) + 2) = Tags(r, tag, k, Len(r) + 1)
    BY TagsAppend
  <2> DEFINE d == Append(r, c)
             x == Read(r)
             y == Read(d)
             m == Len(r) + 1
  <2>1. d \in Seq(T) /\ Len(d) + 1 = m + 1 /\ m \in Nat /\ m \in 1 .. m
    BY AppendProperties, LenProperties
  <2>2. x \in Extractors(T) /\ y = Feed(x, c) /\ x.quote \in Nat
    <3>1. x \in Extractors(T) /\ y = Feed(x, c)
      BY FeedAppend DEF Read
    <3> QED BY <3>1 DEF Extractors
  <2>3. Counted(r, x, m)
    BY <1>2 DEF P
  <2>4. Hidden(d, m + 1) <=> c = OpenSkip \/ (c # CloseSkip /\ Hidden(r, m))
    <3>1. Len(r) + 2 = m + 1
      BY <2>1, LenProperties
    <3> QED BY <3>1, HiddenAppend
  <2>5. ASSUME NEW k \in 1 .. m, NEW tag
        PROVE  /\ Tags(r, tag, k, m) \in Nat
               /\ c = tag /\ ~ Hidden(r, m) => Tags(d, tag, k, m + 1) = Tags(r, tag, k, m) + 1
               /\ ~ (c = tag /\ ~ Hidden(r, m)) => Tags(d, tag, k, m + 1) = Tags(r, tag, k, m)
    <3> DEFINE n == Len(r)
    <3>1. n + 1 = m /\ n + 2 = m + 1 /\ k \in 1 .. n + 1
      BY <2>1, LenProperties
    <3>2. Tags(r, tag, k, m) \in Nat
      BY <2>1, TagsCount
    <3>5. /\ c = tag /\ ~ Hidden(r, n + 1) =>
                Tags(d, tag, k, n + 2) = Tags(r, tag, k, n + 1) + 1
          /\ ~ (c = tag /\ ~ Hidden(r, n + 1)) =>
                Tags(d, tag, k, n + 2) = Tags(r, tag, k, n + 1)
      BY <2>18, <3>1
    <3> HIDE DEF n, m, d
    <3>3. c = tag /\ ~ Hidden(r, m) => Tags(d, tag, k, m + 1) = Tags(r, tag, k, m) + 1
      BY <3>1, <3>5
    <3>4. ~ (c = tag /\ ~ Hidden(r, m)) => Tags(d, tag, k, m + 1) = Tags(r, tag, k, m)
      BY <3>1, <3>5
    <3> QED BY <3>2, <3>3, <3>4
  <2>6. \A tag : Tags(r, tag, m, m) = 0 /\ Tags(d, tag, m + 1, m + 1) = 0
    <3>1. m \in Int /\ m + 1 \in Int
      BY <2>1
    <3> HIDE DEF m, d
    <3> QED BY <3>1, TagsCount
  <2>7. /\ x.skip \in {0, 1}
        /\ c = OpenSkip => y.skip = 1
        /\ c = CloseSkip => y.skip = 0
        /\ c \notin {OpenSkip, CloseSkip} => y.skip = x.skip
        /\ c = OpenQuote /\ x.skip = 0 => y.quote = x.quote + 1
        /\ c = CloseQuote /\ x.skip = 0 /\ x.quote > 0 => y.quote = x.quote - 1
        /\ c = CloseQuote /\ x.skip = 0 /\ x.quote = 0 => y.quote = 0
        /\ c \notin {OpenQuote, CloseQuote} \/ x.skip # 0 => y.quote = x.quote
    <3>1. x.skip \in {0, 1}
      BY <2>3 DEF Counted
    <3> HIDE DEF x, y
    <3> QED BY <2>2, <3>1, FeedCounts
  <2> HIDE DEF d, x, y, m
  <2>8. OpenSkip # CloseSkip /\ OpenQuote # CloseQuote
    BY DEF OpenQuote, CloseQuote, OpenSkip, CloseSkip
  <2>9. y.skip \in {0, 1} /\ (y.skip = 1 <=> Hidden(d, m + 1))
    BY <2>3, <2>4, <2>7, <2>8 DEF Counted
  <2>10. x.skip = 0 <=> ~ Hidden(r, m)
    BY <2>3, <2>7 DEF Counted
  <2>11. \A k \in 1 .. m :
            /\ Tags(r, OpenQuote, k, m) \in Nat /\ Tags(r, CloseQuote, k, m) \in Nat
            /\ Tags(r, OpenQuote, k, m) <= Tags(r, CloseQuote, k, m) + x.quote
    BY <2>3, <2>5 DEF Counted
  <2>12. \A k \in 1 .. m + 1 : k \in 1 .. m \/ k = m + 1
    BY <2>1
  <2>13. x.quote > 0 => \E k \in 1 .. m :
               Tags(r, OpenQuote, k, m) = Tags(r, CloseQuote, k, m) + x.quote
    BY <2>3 DEF Counted
  <2>17. \A k \in 1 .. m : k \in 1 .. m + 1
    BY <2>1
  <2>14. CASE c = OpenQuote /\ ~ Hidden(r, m)
    <3>1. y.quote = x.quote + 1
      BY <2>7, <2>10, <2>14
    <3>2. \A k \in 1 .. m : /\ Tags(d, OpenQuote, k, m + 1) = Tags(r, OpenQuote, k, m) + 1
                            /\ Tags(d, CloseQuote, k, m + 1) = Tags(r, CloseQuote, k, m)
      BY <2>5, <2>8, <2>14
    <3>3. \A k \in 1 .. m + 1 :
             Tags(d, OpenQuote, k, m + 1) <= Tags(d, CloseQuote, k, m + 1) + y.quote
      BY <2>2, <2>6, <2>11, <2>12, <3>1, <3>2
    <3>4. \E k \in 1 .. m : Tags(d, OpenQuote, k, m + 1) = Tags(d, CloseQuote, k, m + 1) + y.quote
      <4>1. CASE x.quote > 0
        <5>1. PICK k \in 1 .. m : Tags(r, OpenQuote, k, m) = Tags(r, CloseQuote, k, m) + x.quote
          BY <2>13, <4>1
        <5>2. Tags(d, OpenQuote, k, m + 1) = Tags(d, CloseQuote, k, m + 1) + y.quote
          BY <2>2, <2>11, <3>1, <3>2, <5>1
        <5> QED BY <5>2
      <4>2. CASE x.quote = 0
        <5>1. m \in 1 .. m
          BY <2>1
        <5> QED BY <2>6, <3>1, <3>2, <4>2, <5>1
      <4> QED BY <2>2, <4>1, <4>2
    <3>5. Counted(d, y, m + 1)
      BY <2>9, <2>17, <3>3, <3>4 DEF Counted
    <3> QED BY <2>1, <3>5 DEF P, y, d
  <2>15. CASE c = CloseQuote /\ ~ Hidden(r, m)
    <3>1. y.quote = IF x.quote > 0 THEN x.quote - 1 ELSE 0
      BY <2>2, <2>7, <2>10, <2>15
    <3>2. \A k \in 1 .. m : /\ Tags(d, OpenQuote, k, m + 1) = Tags(r, OpenQuote, k, m)
                            /\ Tags(d, CloseQuote, k, m + 1) = Tags(r, CloseQuote, k, m) + 1
      BY <2>5, <2>8, <2>15
    <3>3. \A k \in 1 .. m + 1 :
             Tags(d, OpenQuote, k, m + 1) <= Tags(d, CloseQuote, k, m + 1) + y.quote
      BY <2>2, <2>6, <2>11, <2>12, <3>1, <3>2
    <3>4. ASSUME y.quote > 0
          PROVE  \E k \in 1 .. m :
                    Tags(d, OpenQuote, k, m + 1) = Tags(d, CloseQuote, k, m + 1) + y.quote
      <4>1. x.quote > 0
        BY <3>1, <3>4
      <4>2. PICK k \in 1 .. m : Tags(r, OpenQuote, k, m) = Tags(r, CloseQuote, k, m) + x.quote
        BY <2>13, <4>1
      <4>3. Tags(d, OpenQuote, k, m + 1) = Tags(d, CloseQuote, k, m + 1) + y.quote
        <5>1. y.quote = x.quote - 1 /\ y.quote \in Nat /\ x.quote \in Nat
          BY <2>2, <3>1, <4>1
        <5>2. /\ Tags(d, OpenQuote, k, m + 1) = Tags(r, OpenQuote, k, m)
              /\ Tags(d, CloseQuote, k, m + 1) = Tags(r, CloseQuote, k, m) + 1
              /\ Tags(r, OpenQuote, k, m) \in Nat /\ Tags(r, CloseQuote, k, m) \in Nat
          BY <2>11, <3>2
        <5> DEFINE do == Tags(d, OpenQuote, k, m + 1)
                   dc == Tags(d, CloseQuote, k, m + 1)
                   ro == Tags(r, OpenQuote, k, m)
                   rc == Tags(r, CloseQuote, k, m)
                   q == x.quote
                   p == y.quote
        <5>6. p = q - 1 /\ q \in Nat
          BY <5>1
        <5>3. do = ro /\ dc = rc + 1 /\ ro \in Nat /\ rc \in Nat
          BY <5>2
        <5>4. ro = rc + q
          BY <4>2
        <5> HIDE DEF do, dc, ro, rc, p, q
        <5>5. do = dc + p
          BY <5>3, <5>4, <5>6
        <5> QED BY <5>5 DEF do, dc, p
      <4> QED BY <4>3
    <3>5. Counted(d, y, m + 1)
      BY <2>9, <2>17, <3>3, <3>4 DEF Counted
    <3> QED BY <2>1, <3>5 DEF P, y, d
  <2>16. CASE c \notin {OpenQuote, CloseQuote} \/ Hidden(r, m)
    <3>1. y.quote = x.quote
      BY <2>7, <2>10, <2>16
    <3>2. \A k \in 1 .. m : /\ Tags(d, OpenQuote, k, m + 1) = Tags(r, OpenQuote, k, m)
                            /\ Tags(d, CloseQuote, k, m + 1) = Tags(r, CloseQuote, k, m)
      BY <2>5, <2>16
    <3>3. \A k \in 1 .. m + 1 :
             Tags(d, OpenQuote, k, m + 1) <= Tags(d, CloseQuote, k, m + 1) + y.quote
      BY <2>2, <2>6, <2>11, <2>12, <3>1, <3>2
    <3>5. Counted(d, y, m + 1)
      <4>1. y.quote > 0 => \E k \in 1 .. m :
               Tags(d, OpenQuote, k, m + 1) = Tags(d, CloseQuote, k, m + 1) + y.quote
        BY <2>13, <3>1, <3>2
      <4> QED BY <2>9, <2>17, <3>3, <4>1 DEF Counted
    <3> QED BY <2>1, <3>5 DEF P, y, d
  <2> QED BY <2>14, <2>15, <2>16
<1>3. doc \in P
  BY <1>1, <1>2, SequenceInduction
<1> QED BY <1>3 DEF P

\* What is read next is hidden when skip says so, and quoted when quote does.
LEMMA NextPlace ==
    ASSUME NEW T, NEW doc \in Seq(T)
    PROVE  /\ Read(doc).skip \in {0, 1}
           /\ Read(doc).skip = 0 <=> ~ Hidden(doc, Len(doc) + 1)
           /\ Read(doc).quote > 0 <=> Quoted(doc, Len(doc) + 1)
<1> DEFINE x == Read(doc)
           m == Len(doc) + 1
<1>1. m \in Nat
  BY LenProperties
<1>2. \A k \in 1 .. m : \A tag : Tags(doc, tag, k, m) \in Nat /\ Tags(doc, tag, m, m) = 0
  <2>1. \A k \in 1 .. m : k \in Int /\ m \in Int
    BY <1>1
  <2> HIDE DEF m
  <2> QED BY <2>1, TagsCount
<1>3. x.quote \in Nat
  <2>1. CASE doc = <<>>
    <3>1. <<>> \in Seq({0}) /\ 0 \in {0}
      BY EmptySeq
    <3>2. x = Extractor
      BY <2>1, <3>1, FeedAppend DEF Read
    <3> QED BY <3>2 DEF Extractor
  <2>2. CASE doc # <<>>
    <3>1. PICK r \in Seq(T), c \in T : doc = Append(r, c)
      BY <2>2, SequenceEmptyOrAppend
    <3>2. x \in Extractors(T)
      BY FeedAppend, <3>1 DEF Read
    <3> QED BY <3>2 DEF Extractors
  <2> QED BY <2>1, <2>2
<1>4. Counted(doc, x, m)
  BY Counting
<1> HIDE DEF x, m
<1>5. x.skip \in {0, 1} /\ (x.skip = 0 <=> ~ Hidden(doc, m))
  BY <1>4 DEF Counted
<1>6. \A k \in 1 .. m - 1 : k \in 1 .. m
  BY <1>1
<1>7. x.quote > 0 <=> Quoted(doc, m)
  <2>1. ASSUME x.quote > 0 PROVE Quoted(doc, m)
    <3>1. PICK k \in 1 .. m :
             Tags(doc, OpenQuote, k, m) = Tags(doc, CloseQuote, k, m) + x.quote
      BY <1>4, <2>1 DEF Counted
    <3>2. Tags(doc, OpenQuote, k, m) > Tags(doc, CloseQuote, k, m)
      BY <1>2, <1>3, <2>1, <3>1
    <3>3. k # m
      BY <1>2, <3>2
    <3>4. k \in 1 .. m - 1
      BY <1>1, <3>3
    <3> QED BY <3>2, <3>4 DEF Quoted
  <2>2. ASSUME Quoted(doc, m) PROVE x.quote > 0
    <3>1. PICK k \in 1 .. m - 1 : Tags(doc, OpenQuote, k, m) > Tags(doc, CloseQuote, k, m)
      BY <2>2 DEF Quoted
    <3>2. Tags(doc, OpenQuote, k, m) <= Tags(doc, CloseQuote, k, m) + x.quote
      BY <1>4, <1>6 DEF Counted
    <3> QED BY <1>2, <1>3, <1>6, <3>1, <3>2
  <2> QED BY <2>1, <2>2
<1> QED BY <1>5, <1>7 DEF x, m

\* What a token does to the chunks of the extractor and to the start of a line.
LEMMA FeedChunks ==
    ASSUME NEW T, NEW x \in Extractors(T), NEW c \in T, x.skip \in {0, 1}
    PROVE  LET y == Feed(x, c)
           IN /\ x.skip = 1 \/ c \in {OpenSkip, CloseSkip} =>
                     y.chunks = x.chunks /\ y.lineStart = x.lineStart
              /\ x.skip = 0 /\ c \in {OpenBreak, OpenQuote} => y.chunks = Append(x.chunks, Nl)
              /\ x.skip = 0 /\ c = OpenBreak => y.lineStart = (x.lineStart \/ x.quote > 0)
              /\ x.skip = 0 /\ c = OpenQuote => y.lineStart
              /\ x.skip = 0 /\ c = CloseQuote =>
                     y.chunks = x.chunks /\ (x.quote # 1 => y.lineStart = x.lineStart)
              /\ x.skip = 0 /\ x.quote = 0 /\ c \notin OpenTags \cup CloseTags =>
                     y.chunks = Append(x.chunks, c)
              /\ x.skip = 0 /\ x.quote > 0 /\ c \notin OpenTags \cup CloseTags =>
                     /\ y.lineStart = (c = Nl)
                     /\ ~ x.lineStart \/ c \in {Nl, Gt} => y.chunks = Append(x.chunks, c)
                     /\ x.lineStart /\ c \notin {Nl, Gt} =>
                            y.chunks = Append(Append(x.chunks, Gt), c)
<1> DEFINE y == Feed(x, c)
<1>0. /\ x.chunks \in Seq(Chunks(T)) /\ x.skip \in Nat /\ x.quote \in Nat
      /\ x.lineStart \in BOOLEAN
      /\ x = [chunks |-> x.chunks, skip |-> x.skip, quote |-> x.quote,
              lineStart |-> x.lineStart]
      /\ c \in Chunks(T) /\ Gt \in Chunks(T) /\ Nl \in Chunks(T)
  BY DEF Extractors, Chunks
<1>1. /\ OpenTags = {OpenBreak, OpenQuote, OpenSkip} /\ CloseTags = {CloseQuote, CloseSkip}
      /\ OpenBreak # OpenQuote /\ OpenBreak # OpenSkip /\ OpenQuote # OpenSkip
      /\ CloseQuote # CloseSkip /\ OpenTags \cap CloseTags = {}
  BY DEF OpenTags, CloseTags, OpenBreak, OpenQuote, CloseQuote, OpenSkip, CloseSkip
<1>2. /\ x.chunks \o <<c>> = Append(x.chunks, c)
      /\ x.chunks \o <<Gt, c>> = Append(Append(x.chunks, Gt), c)
  BY <1>0
<1>3. /\ c \in OpenTags /\ x.skip = 0 => y = HandleStarttag(x, c)
      /\ c \in CloseTags /\ x.skip = 0 => y = HandleEndtag(x, c)
      /\ c = CloseSkip => y = HandleEndtag(x, c)
      /\ c \notin OpenTags \cup CloseTags => y = HandleData(x, c)
      /\ x.skip = 1 /\ c # CloseSkip => y = HandleData(x, c)
  <2>1. c \in OpenTags => c \notin CloseTags
    BY <1>1
  <2>2. CloseSkip \in CloseTags
    BY <1>1
  <2> HIDE DEF OpenTags, CloseTags
  <2> QED BY <2>1, <2>2 DEF Feed
<1> HIDE DEF y, OpenTags, CloseTags
<1>4. CASE x.skip = 1 /\ c # CloseSkip
  <2>1. y = x
    BY <1>3, <1>4 DEF HandleData
  <2> QED BY <1>4, <2>1 DEF y
<1>5. CASE c = CloseSkip
  <2>1. y.chunks = x.chunks /\ y.lineStart = x.lineStart
    BY <1>0, <1>1, <1>3, <1>5 DEF HandleEndtag
  <2>2. c \notin {OpenBreak, OpenQuote, CloseQuote} /\ c \in CloseTags
    BY <1>1, <1>5
  <2> QED BY <2>1, <2>2 DEF y
<1>6. CASE x.skip = 0 /\ c = CloseQuote
  <2>1. y.chunks = x.chunks /\ (x.quote # 1 => y.lineStart = x.lineStart)
    <3>1. y = HandleEndtag(x, c)
      BY <1>1, <1>3, <1>6
    <3> QED BY <1>0, <3>1 DEF HandleEndtag
  <2>2. c \notin {OpenBreak, OpenQuote, OpenSkip, CloseSkip} /\ c \in CloseTags
    BY <1>1, <1>6
  <2> QED BY <1>6, <2>1, <2>2 DEF y
<1>7. CASE x.skip = 0 /\ c \in OpenTags
  <2>1. y = HandleStarttag(x, c)
    BY <1>3, <1>7
  <2>2. /\ y.chunks = IF c \in {OpenBreak, OpenQuote} THEN Append(x.chunks, Nl) ELSE x.chunks
        /\ y.lineStart = \/ x.lineStart
                         \/ c \in {OpenBreak, OpenQuote} /\ (x.quote > 0 \/ c = OpenQuote)
    BY <2>1 DEF HandleStarttag
  <2>3. c \notin {CloseQuote, CloseSkip}
    BY <1>1, <1>7
  <2>4. CASE c = OpenBreak
    <3>1. y.chunks = Append(x.chunks, Nl) /\ y.lineStart = (x.lineStart \/ x.quote > 0)
      BY <1>0, <1>1, <2>2, <2>4
    <3>2. c \notin {OpenQuote, OpenSkip, CloseQuote, CloseSkip} /\ c \in OpenTags
      BY <1>1, <1>7, <2>3, <2>4
    <3> QED BY <1>7, <2>4, <3>1, <3>2 DEF y
  <2>5. CASE c = OpenQuote
    <3>1. y.chunks = Append(x.chunks, Nl) /\ y.lineStart
      BY <1>0, <1>1, <2>2, <2>5
    <3>2. c \notin {OpenBreak, OpenSkip, CloseQuote, CloseSkip} /\ c \in OpenTags
      BY <1>1, <1>7, <2>3, <2>5
    <3>3. x.skip = 0 /\ x.skip # 1
      BY <1>7
    <3> HIDE DEF y
    <3> QED BY <2>5, <3>1, <3>2, <3>3, ZenonT(40) DEF y
  <2>6. CASE c = OpenSkip
    BY <1>0, <1>1, <1>7, <2>2, <2>3, <2>6 DEF y
  <2> QED BY <1>1, <1>7, <2>4, <2>5, <2>6
<1>8. CASE x.skip = 0 /\ c \notin OpenTags \cup CloseTags
  <2>1. y = HandleData(x, c)
    BY <1>3, <1>8
  <2>2. c \notin {OpenBreak, OpenQuote, OpenSkip, CloseQuote, CloseSkip}
    BY <1>1, <1>8
  <2>3. CASE x.quote = 0
    <3>1. y.chunks = Append(x.chunks, c)
      BY <1>0, <1>8, <2>1, <2>3 DEF HandleData
    <3> QED BY <1>8, <2>2, <2>3, <3>1 DEF y
  <2>4. CASE x.quote > 0
    <3>1. /\ y.chunks = x.chunks \o PrefixQuoteLine(x, c)
          /\ y.lineStart = (c = Nl)
      BY <1>0, <1>8, <2>1, <2>4 DEF HandleData
    <3>2. CASE x.lineStart /\ c \notin {Nl, Gt}
      <4>1. PrefixQuoteLine(x, c) = <<Gt, c>>
        BY <3>2 DEF PrefixQuoteLine
      <4>2. y.chunks = Append(Append(x.chunks, Gt), c)
        BY <1>2, <3>1, <4>1
      <4>3. y.lineStart = (c = Nl) /\ x.skip = 0 /\ x.quote # 0 /\ x.lineStart
            /\ c # Nl /\ c # Gt
        BY <1>0, <1>8, <2>4, <3>1, <3>2
      <4>4. x.skip # 1 /\ c \notin {Nl, Gt}
        BY <4>3
      <4> QED BY <1>8, <2>2, <4>2, <4>3, <4>4, ZenonT(40) DEF y
    <3>3. CASE ~ (x.lineStart /\ c \notin {Nl, Gt})
      <4>1. PrefixQuoteLine(x, c) = <<c>>
        BY <3>3 DEF PrefixQuoteLine
      <4>2. y.chunks = Append(x.chunks, c)
        BY <1>2, <3>1, <4>1
      <4> QED BY <1>8, <2>2, <2>4, <3>1, <3>3, <4>2 DEF y
    <3> QED BY <3>2, <3>3
  <2> QED BY <1>0, <2>3, <2>4
<1>9. x.skip = 0 \/ x.skip = 1
  OBVIOUS
<1>10. c \in CloseTags => c = CloseQuote \/ c = CloseSkip
  BY <1>1
<1> QED BY <1>4, <1>5, <1>6, <1>7, <1>8, <1>9, <1>10

----------------------------------------------------------------------------
(* What the intake rules hear of a document. *)

\* What a document of the intake is made of.
Signs == Nat \cup {Hello, Insult, Override}
Tokens == Signs \cup OpenTags \cup CloseTags

Seen(doc) == {i \in DOMAIN doc : /\ doc[i] > 0 \/ doc[i] \in {Hello, Insult, Override}
                                 /\ ~ Hidden(doc, i)}
Greeted(doc) == \E i \in Seen(doc) : Seen(doc) = {i} /\ doc[i] = Hello /\ ~ Quoted(doc, i)

LEMMA SignsApart ==
    /\ Signs \cap (OpenTags \cup CloseTags) = {} /\ Nl \in Signs /\ Gt \notin Tokens
    /\ Lt \notin Chunks(Tokens) /\ Hello # Nl /\ Hello # Gt
    /\ \A c \in Tokens : (c > 0 \/ c \in {Hello, Insult, Override}) <=> c \in Signs \ {Nl}
    /\ \A c \in Tokens : c \in Signs \/ c \in {OpenBreak, OpenQuote, OpenSkip, CloseQuote, CloseSkip}
BY DEF Signs, Tokens, Chunks, OpenTags, CloseTags, OpenBreak, OpenQuote, OpenSkip,
       CloseQuote, CloseSkip, Nl, Lt, Gt, Hello, Insult, Override

\* A sign that is not hidden is seen.
LEMMA SeenAppend ==
    ASSUME NEW doc \in Seq(Tokens), NEW c \in Tokens
    PROVE  LET n == Len(doc)
               d == Append(doc, c)
           IN /\ c \in Signs \ {Nl} /\ ~ Hidden(doc, n + 1) => Seen(d) = Seen(doc) \cup {n + 1}
              /\ ~ (c \in Signs \ {Nl} /\ ~ Hidden(doc, n + 1)) => Seen(d) = Seen(doc)
              /\ Seen(doc) \subseteq 1 .. n /\ n + 1 \notin Seen(doc)
              /\ d[n + 1] = c
              /\ \A i \in 1 .. n : d[i] = doc[i]
              /\ \A i \in 1 .. n + 1 : Quoted(d, i) <=> Quoted(doc, i)
<1> DEFINE n == Len(doc)
           d == Append(doc, c)
<1>1. /\ n \in Nat /\ d[n + 1] = c /\ \A j \in 1 .. n : d[j] = doc[j] /\ doc[j] \in Tokens
      /\ DOMAIN doc = 1 .. n /\ DOMAIN d = 1 .. n + 1
  BY AppendProperties, LenProperties, ElementOfSeq
<1>2. \A i \in 1 .. n + 1 : Hidden(d, i) <=> Hidden(doc, i)
  BY HiddenAppend
<1>3. \A i \in 1 .. n + 1, k \in 1 .. n + 1 : \A tag :
         Tags(d, tag, k, i) = Tags(doc, tag, k, i)
  <2> TAKE i \in 1 .. n + 1, k \in 1 .. n + 1
  <2> TAKE tag
  <2> QED BY TagsSame
<1> HIDE DEF n, d
<1>4. \A i \in 1 .. n + 1 : Quoted(d, i) <=> Quoted(doc, i)
  <2> TAKE i \in 1 .. n + 1
  <2>1. \A k \in 1 .. i - 1 : k \in 1 .. n + 1
    BY <1>1
  <2>2. \A k \in 1 .. i - 1 : /\ Tags(d, OpenQuote, k, i) = Tags(doc, OpenQuote, k, i)
                              /\ Tags(d, CloseQuote, k, i) = Tags(doc, CloseQuote, k, i)
    BY <1>3, <2>1
  <2> QED BY <2>2 DEF Quoted
<1>5. /\ \A j \in 1 .. n + 1 : j \in Seen(d) <=> d[j] \in Signs \ {Nl} /\ ~ Hidden(doc, j)
      /\ \A j \in 1 .. n : j \in Seen(doc) <=> doc[j] \in Signs \ {Nl} /\ ~ Hidden(doc, j)
  <2>1. \A j \in 1 .. n : j \in 1 .. n + 1
    BY <1>1
  <2>2. \A j \in 1 .. n + 1 : d[j] \in Tokens
    <3>1. \A j \in 1 .. n + 1 : j = n + 1 \/ j \in 1 .. n
      BY <1>1
    <3> QED BY <1>1, <3>1
  <2> QED BY <1>1, <1>2, <2>1, <2>2, SignsApart DEF Seen
<1>6. Seen(doc) \subseteq 1 .. n /\ Seen(d) \subseteq 1 .. n + 1
  BY <1>1 DEF Seen
<1>7. /\ n + 1 \notin 1 .. n /\ n + 1 \in 1 .. n + 1
      /\ \A j \in 1 .. n + 1 : j \in 1 .. n \/ j = n + 1
      /\ \A j \in 1 .. n : j \in 1 .. n + 1
  BY <1>1
<1>8. \A j \in 1 .. n : j \in Seen(d) <=> j \in Seen(doc)
  BY <1>1, <1>5, <1>7
<1>9. n + 1 \in Seen(d) <=> c \in Signs \ {Nl} /\ ~ Hidden(doc, n + 1)
  BY <1>1, <1>5, <1>7
<1>10. c \in Signs \ {Nl} /\ ~ Hidden(doc, n + 1) => Seen(d) = Seen(doc) \cup {n + 1}
  BY <1>6, <1>7, <1>8, <1>9
<1>11. ~ (c \in Signs \ {Nl} /\ ~ Hidden(doc, n + 1)) => Seen(d) = Seen(doc)
  BY <1>6, <1>7, <1>8, <1>9
<1> QED BY <1>1, <1>4, <1>6, <1>7, <1>10, <1>11 DEF n, d

Marks == Chunks(Tokens) \ {Nl}

\* said, the chunks without their line breaks, is what was seen but for quote marks;
\* a quote that has left no mark so far is at the start of a line.
Heard(doc, x, said) ==
    /\ ToSet(said) \ {Gt} = {doc[i] : i \in Seen(doc)}
    /\ said = <<>> <=> Seen(doc) = {}
    /\ said = <<Hello>> <=> Greeted(doc)
    /\ x.quote > 0 /\ Gt \notin ToSet(said) => x.lineStart

\* A token from which nothing is heard.
LEMMA HearingNothing ==
    ASSUME NEW doc \in Seq(Tokens), NEW c \in Tokens, NEW x, NEW said, Heard(doc, x, said),
           ~ (c \in Signs \ {Nl} /\ ~ Hidden(doc, Len(doc) + 1)),
           NEW y, y.quote > 0 /\ Gt \notin ToSet(said) => y.lineStart
    PROVE  Heard(Append(doc, c), y, said)
<1> DEFINE n == Len(doc)
           d == Append(doc, c)
<1>1. /\ Seen(d) = Seen(doc) /\ Seen(doc) \subseteq 1 .. n
      /\ \A i \in 1 .. n : d[i] = doc[i]
      /\ \A i \in 1 .. n + 1 : Quoted(d, i) <=> Quoted(doc, i)
  BY SeenAppend
<1>2. \A i \in 1 .. n : i \in 1 .. n + 1
  BY LenProperties
<1> HIDE DEF n, d
<1>3. {d[i] : i \in Seen(d)} = {doc[i] : i \in Seen(doc)}
  BY <1>1
<1>4. Greeted(d) <=> Greeted(doc)
  BY <1>1, <1>2 DEF Greeted
<1> QED BY <1>1, <1>3, <1>4 DEF Heard, d

\* A sign that is heard, after the marks of a quote or without.
LEMMA HearingSign ==
    ASSUME NEW doc \in Seq(Tokens), NEW c \in Signs \ {Nl}, NEW x, NEW said \in Seq(Marks),
           Heard(doc, x, said), ~ Hidden(doc, Len(doc) + 1), NEW y, NEW more \in Seq(Marks),
           IF Quoted(doc, Len(doc) + 1) THEN Gt \in ToSet(more)
           ELSE more = said /\ ~ y.quote > 0,
           ToSet(more) \ {Gt} = ToSet(said) \ {Gt}
    PROVE  Heard(Append(doc, c), y, Append(more, c))
<1> DEFINE n == Len(doc)
           d == Append(doc, c)
           new == Append(more, c)
<1>0. c \in Tokens /\ c \in Marks /\ c # Gt /\ Hello \in Marks
  BY SignsApart DEF Tokens, Marks, Chunks, Signs
<1>1. /\ Seen(d) = Seen(doc) \cup {n + 1}
      /\ Seen(doc) \subseteq 1 .. n /\ n + 1 \notin Seen(doc)
      /\ d[n + 1] = c
      /\ \A i \in 1 .. n : d[i] = doc[i]
      /\ \A i \in 1 .. n + 1 : Quoted(d, i) <=> Quoted(doc, i)
  BY <1>0, SeenAppend
<1>2. n \in Nat /\ n + 1 \in 1 .. n + 1
  BY LenProperties
<1>3. ToSet(new) = ToSet(more) \cup {c}
  BY <1>0, ElementsAppend
<1>4. new # <<>> /\ (new = <<Hello>> <=> more = <<>> /\ c = Hello)
  <2>1. Len(new) = Len(more) + 1 /\ Len(more) \in Nat /\ new[Len(more) + 1] = c
    BY <1>0, AppendProperties, LenProperties
  <2>2. ASSUME new = <<Hello>> PROVE more = <<>> /\ c = Hello
    <3> HIDE DEF new
    <3>1. Len(<<Hello>>) = 1 /\ <<Hello>>[1] = Hello
      OBVIOUS
    <3>2. Len(more) = 0
      BY <2>1, <2>2, <3>1
    <3>3. c = Hello
      BY <2>1, <2>2, <3>1, <3>2
    <3> QED BY <3>2, <3>3, EmptySeq
  <2>3. ASSUME more = <<>>, c = Hello PROVE new = <<Hello>>
    BY <2>3
  <2>4. new # <<>>
    <3> HIDE DEF new
    <3> QED BY <2>1
  <2> QED BY <2>2, <2>3, <2>4
<1> HIDE DEF n, d, new
<1>5. {d[i] : i \in Seen(d)} = {doc[i] : i \in Seen(doc)} \cup {c}
  BY <1>1
<1>6. ToSet(new) \ {Gt} = {d[i] : i \in Seen(d)}
  BY <1>0, <1>3, <1>5 DEF Heard
<1>7. Greeted(d) <=> Seen(doc) = {} /\ c = Hello /\ ~ Quoted(doc, n + 1)
  <2>1. ASSUME Greeted(d) PROVE Seen(doc) = {} /\ c = Hello /\ ~ Quoted(doc, n + 1)
    <3>1. PICK i \in Seen(d) : Seen(d) = {i} /\ d[i] = Hello /\ ~ Quoted(d, i)
      BY <2>1 DEF Greeted
    <3>2. i = n + 1 /\ Seen(doc) = {}
      BY <1>1, <3>1
    <3> QED BY <1>1, <1>2, <3>1, <3>2
  <2>2. ASSUME Seen(doc) = {}, c = Hello, ~ Quoted(doc, n + 1) PROVE Greeted(d)
    BY <1>1, <1>2, <2>2 DEF Greeted
  <2> QED BY <2>1, <2>2
<1>8. CASE Quoted(doc, n + 1)
  <2>1. Gt \in ToSet(more) /\ Gt \in ToSet(new)
    BY <1>3, <1>8 DEF n
  <2>2. more # <<>>
    <3>1. ToSet(<<>>) = {}
      BY EmptySeq DEF ToSet
    <3> QED BY <2>1, <3>1
  <2>3. Seen(d) # {}
    BY <1>1
  <2> QED BY <1>4, <1>6, <1>7, <1>8, <2>1, <2>2, <2>3 DEF Heard, d, new
<1>9. CASE ~ Quoted(doc, n + 1)
  <2>1. more = said /\ ~ y.quote > 0
    BY <1>9 DEF n
  <2>2. said = <<>> <=> Seen(doc) = {}
    BY DEF Heard
  <2>3. Seen(d) # {}
    BY <1>1
  <2> QED BY <1>4, <1>6, <1>7, <1>9, <2>1, <2>2, <2>3 DEF Heard, d, new
<1> QED BY <1>8, <1>9

LEMMA Hearing ==
    ASSUME NEW doc \in Seq(Tokens)
    PROVE  Heard(doc, Read(doc), Only(Read(doc).chunks, Marks))
<1> DEFINE T == Tokens
           Said(r) == Only(Read(r).chunks, Marks)
           P == {r \in Seq(T) : Heard(r, Read(r), Said(r))}
<1> HIDE DEF P
<1>1. <<>> \in P
  <2>1. <<>> \in Seq({0}) /\ 0 \in {0}
    BY EmptySeq
  <2>2. Read(<<>>) = Extractor
    BY <2>1, FeedAppend DEF Read
  <2>3. Said(<<>>) = <<>>
    BY <2>2, OnlyEmpty DEF Extractor
  <2>4. Seen(<<>>) = {} /\ ~ Greeted(<<>>)
    BY EmptySeq DEF Seen, Greeted
  <2>5. ToSet(<<>>) = {} /\ <<>> # <<Hello>>
    BY EmptySeq DEF ToSet
  <2>6. Heard(<<>>, Extractor, <<>>)
    BY <2>4, <2>5 DEF Heard, Extractor
  <2> HIDE DEF Said
  <2> QED BY <2>2, <2>3, <2>6, EmptySeq DEF P
<1>2. ASSUME NEW r \in Seq(T), NEW c \in T, r \in P PROVE Append(r, c) \in P
  <2> DEFINE d == Append(r, c)
             x == Read(r)
             y == Read(d)
             said == Said(r)
             m == Len(r) + 1
  <2>1. d \in Seq(T)
    BY AppendProperties
  <2>2. x \in Extractors(T) /\ y = Feed(x, c)
    BY FeedAppend DEF Read
  <2>3. /\ x.skip \in {0, 1} /\ (x.skip = 0 <=> ~ Hidden(r, m))
        /\ x.quote > 0 <=> Quoted(r, m)
    BY NextPlace
  <2>4. x.chunks \in Seq(Chunks(T)) /\ x.quote \in Nat
    BY <2>2 DEF Extractors
  <2>5. Heard(r, x, said)
    BY <1>2 DEF P
  <2> HIDE DEF d, x, y, m
  <2>6. said \in Seq(Chunks(T)) /\ ToSet(said) = ToSet(x.chunks) \cap Marks /\ said \in Seq(Marks)
    <3>1. Only(x.chunks, Marks) \in Seq(Chunks(T))
      BY <2>4, OnlyType
    <3>2. ToSet(Only(x.chunks, Marks)) = ToSet(x.chunks) \cap Marks
      BY <2>4, OnlySet
    <3> DEFINE o == Only(x.chunks, Marks)
    <3> HIDE DEF o
    <3>3. o \in Seq(Marks)
      <4>1. o \in Seq(Chunks(T)) /\ ToSet(o) \subseteq Marks
        BY <3>1, <3>2 DEF o
      <4>2. \A k \in 1 .. Len(o) : o[k] \in Marks
        BY <4>1, LenProperties DEF ToSet
      <4> QED BY <4>1, <4>2, SeqDef, LenProperties
    <3> QED BY <3>1, <3>2, <3>3 DEF o, x
  <2>7. ASSUME NEW a \in Seq(Chunks(T)), NEW e \in Chunks(T)
        PROVE  /\ e \in Marks => Only(Append(a, e), Marks) = Append(Only(a, Marks), e)
               /\ e = Nl => Only(Append(a, e), Marks) = Only(a, Marks)
    <3>1. e = Nl => e \notin Marks
      BY DEF Marks
    <3> QED BY <3>1, OnlyAppend
  <2>8. said = Only(x.chunks, Marks) /\ Said(d) = Only(y.chunks, Marks)
    BY DEF x, y
  <2>9. x.quote > 0 /\ Gt \notin ToSet(said) => x.lineStart
    BY <2>5 DEF Heard
  <2>10. Nl \in Chunks(T) /\ Gt \in Chunks(T) /\ Gt \in Marks /\ c \in Chunks(T)
    BY DEF Chunks, Marks, Nl, Gt
  <2> HIDE DEF Said, said
  <2>11. CASE c \in {OpenBreak, OpenQuote, OpenSkip, CloseQuote, CloseSkip} \/ x.skip = 1
    <3>1. Said(d) = said
      <4>1. y.chunks = x.chunks \/ y.chunks = Append(x.chunks, Nl)
        BY <2>2, <2>3, <2>11, FeedChunks
      <4> QED BY <2>4, <2>7, <2>8, <2>10, <4>1
    <3>2. y.quote > 0 /\ Gt \notin ToSet(said) => y.lineStart
      <4>1. CASE x.skip = 1 \/ c \in {OpenSkip, CloseSkip}
        <5>1. y.lineStart = x.lineStart
          BY <2>2, <2>3, <4>1, FeedChunks
        <5>2. y.quote = x.quote
          <6>1. OpenSkip \notin {OpenQuote, CloseQuote} /\ CloseSkip \notin {OpenQuote, CloseQuote}
            BY DEF OpenQuote, CloseQuote, OpenSkip, CloseSkip
          <6>2. c \notin {OpenQuote, CloseQuote} \/ x.skip # 0
            BY <4>1, <6>1
          <6> QED BY <2>2, <2>3, <6>2, FeedCounts
        <5> QED BY <2>9, <5>1, <5>2
      <4>2. CASE x.skip = 0 /\ c = OpenBreak
        <5>1. y.lineStart = (x.lineStart \/ x.quote > 0)
          BY <2>2, <2>3, <4>2, FeedChunks
        <5>2. y.quote = x.quote
          <6>1. OpenBreak \notin {OpenQuote, CloseQuote}
            BY DEF OpenQuote, CloseQuote, OpenBreak
          <6> QED BY <2>2, <2>3, <4>2, <6>1, FeedCounts
        <5> QED BY <5>1, <5>2
      <4>3. CASE x.skip = 0 /\ c = OpenQuote
        BY <2>2, <2>3, <4>3, FeedChunks
      <4>4. CASE x.skip = 0 /\ c = CloseQuote
        <5>1. x.quote # 1 => y.lineStart = x.lineStart
          BY <2>2, <2>3, <4>4, FeedChunks
        <5>2. /\ x.quote > 0 => y.quote = x.quote - 1
              /\ x.quote = 0 => y.quote = 0
          BY <2>2, <2>3, <4>4, FeedCounts
        <5>3. y.quote > 0 => x.quote > 0 /\ x.quote # 1
          BY <2>4, <5>2
        <5> QED BY <2>9, <5>1, <5>3
      <4> QED BY <2>3, <2>11, <4>1, <4>2, <4>3, <4>4
    <3>3. ~ (c \in Signs \ {Nl} /\ ~ Hidden(r, m))
      <4>1. c \in {OpenBreak, OpenQuote, OpenSkip, CloseQuote, CloseSkip} => c \notin Signs
        BY SignsApart DEF OpenTags, CloseTags
      <4> QED BY <2>3, <2>11, <4>1
    <3>4. Heard(d, y, said)
      BY <2>5, <3>2, <3>3, HearingNothing DEF d, m
    <3> QED BY <2>1, <3>1, <3>4 DEF P, y, d
  <2>12. CASE c \in Signs /\ x.skip = 0
    <3>1. c \notin OpenTags \cup CloseTags /\ c \notin {OpenQuote, CloseQuote} /\ c # Gt
      <4>1. c \notin OpenTags \cup CloseTags /\ c # Gt
        BY <2>12, SignsApart
      <4> QED BY <4>1 DEF OpenTags, CloseTags
    <3>2. y.quote = x.quote
      BY <2>2, <2>3, <3>1, FeedCounts
    <3>3. CASE c = Nl
      <4>1. y.chunks = Append(x.chunks, c) /\ (x.quote > 0 => y.lineStart)
        <5>1. CASE x.quote = 0
          BY <2>2, <2>3, <2>12, <3>1, <5>1, FeedChunks
        <5>2. CASE x.quote > 0
          <6>1. y.chunks = Append(x.chunks, c)
            BY <2>2, <2>3, <2>12, <3>1, <3>3, <5>2, FeedChunks
          <6>2. y.lineStart = (c = Nl)
            BY <2>2, <2>3, <2>12, <3>1, <5>2, FeedChunks
          <6> QED BY <3>3, <6>1, <6>2
        <5> QED BY <2>4, <5>1, <5>2
      <4>2. Said(d) = said
        BY <2>4, <2>7, <2>8, <2>10, <3>3, <4>1
      <4>3. Heard(d, y, said)
        BY <2>5, <3>2, <3>3, <4>1, HearingNothing DEF d, m
      <4> QED BY <2>1, <4>2, <4>3 DEF P, y, d
    <3>4. CASE c # Nl
      <4>0. c \in Marks /\ c \in Signs \ {Nl} /\ ~ Hidden(r, m)
        BY <2>3, <2>10, <2>12, <3>4 DEF Marks
      <4>1. CASE ~ (x.quote > 0)
        <5>1. y.chunks = Append(x.chunks, c)
          BY <2>2, <2>3, <2>4, <2>12, <3>1, <4>1, FeedChunks
        <5>2. Said(d) = Append(said, c)
          BY <2>4, <2>7, <2>8, <2>10, <4>0, <5>1
        <5>3. Heard(d, y, Append(said, c))
          BY <2>3, <2>5, <2>6, <3>2, <4>0, <4>1, HearingSign DEF d, m
        <5> QED BY <2>1, <5>2, <5>3 DEF P, y, d
      <4>2. CASE x.quote > 0 /\ ~ x.lineStart
        <5>1. y.chunks = Append(x.chunks, c)
          BY <2>2, <2>3, <2>12, <3>1, <4>2, FeedChunks
        <5>2. Said(d) = Append(said, c)
          BY <2>4, <2>7, <2>8, <2>10, <4>0, <5>1
        <5>3. Gt \in ToSet(said)
          BY <2>9, <4>2
        <5>4. Heard(d, y, Append(said, c))
          BY <2>3, <2>5, <2>6, <4>0, <4>2, <5>3, HearingSign DEF d, m
        <5> QED BY <2>1, <5>2, <5>4 DEF P, y, d
      <4>3. CASE x.quote > 0 /\ x.lineStart
        <5> DEFINE more == Append(said, Gt)
        <5>1. y.chunks = Append(Append(x.chunks, Gt), c)
          BY <2>2, <2>3, <2>12, <3>1, <3>4, <4>3, FeedChunks
        <5>2. Said(d) = Append(more, c)
          <6>1. Append(x.chunks, Gt) \in Seq(Chunks(T))
            BY <2>4, <2>10, AppendProperties
          <6>2. Only(Append(x.chunks, Gt), Marks) = more
            BY <2>4, <2>7, <2>8, <2>10
          <6> QED BY <2>7, <2>8, <2>10, <4>0, <5>1, <6>1, <6>2
        <5>3. /\ more \in Seq(Marks) /\ ToSet(more) = ToSet(said) \cup {Gt}
              /\ ToSet(more) \ {Gt} = ToSet(said) \ {Gt} /\ Gt \in ToSet(more)
          BY <2>6, <2>10, AppendProperties, ElementsAppend
        <5> HIDE DEF more
        <5>4. Heard(d, y, Append(more, c))
          BY <2>3, <2>5, <2>6, <4>0, <4>3, <5>3, HearingSign DEF d, m
        <5> QED BY <2>1, <5>2, <5>4 DEF P, y, d
      <4> QED BY <4>1, <4>2, <4>3
    <3> QED BY <3>3, <3>4
  <2> QED BY <2>3, <2>11, <2>12, SignsApart
<1>3. doc \in P
  BY <1>1, <1>2, SequenceInduction
<1> QED BY <1>3 DEF P

\* The lines of an HTML document hold what the extractor read.
LEMMA BodyOfHtml ==
    ASSUME NEW T, NEW doc \in Seq(T), doc # <<>>, Lt \notin Chunks(T)
    PROVE  FlattenSeq(SanitizeHtml(doc)) = Only(Read(doc).chunks, Chunks(T) \ {Nl})
<1> DEFINE raw == Read(doc).chunks
           lines == SplitLines(raw)
           A == ToSet(lines) \ {<<>>}
           E == Chunks(T)
<1>1. raw \in Seq(E)
  <2>1. PICK r \in Seq(T), c \in T : doc = Append(r, c)
    BY SequenceEmptyOrAppend
  <2>2. Read(doc) \in Extractors(T)
    BY <2>1, FeedAppend DEF Read
  <2> QED BY <2>2 DEF Extractors
<1>2. Nl \in E
  BY DEF Chunks
<1>3. SanitizeHtml(doc) = Only(SplitLines(Substitute(raw, TagEnd, LAMBDA match : <<>>)),
                               ToSet(SplitLines(Substitute(raw, TagEnd, LAMBDA match : <<>>)))
                                   \ {<<>>})
  BY DEF SanitizeHtml, Read
<1> HIDE DEF raw, E
<1>4. Substitute(raw, TagEnd, LAMBDA match : <<>>) = raw
  BY <1>1, NoTagOut DEF E
<1>5. SanitizeHtml(doc) = Only(lines, A)
  BY <1>3, <1>4
<1>6. lines \in Seq(Seq(E))
  <2>1. lines \in SomeLines(E)
    BY <1>1, <1>2, SplitLinesAppend
  <2> QED BY <2>1 DEF SomeLines
<1>7. FlattenSeq(lines) = Only(raw, E \ {Nl})
  BY <1>1, SplitFlat
<1>8. FlattenSeq(Only(lines, A)) = FlattenSeq(lines)
  <2>1. ToSet(lines) \ {<<>>} \subseteq A
    OBVIOUS
  <2> HIDE DEF lines, A
  <2> QED BY <1>6, <2>1, FlattenSome
<1> QED BY <1>5, <1>7, <1>8 DEF raw, E

\* The intake rules answer for the text a reader sees, for HTML mails of any length
\* and any nesting of quotes and scripts (intake_rules.py on what the extractor of
\* normalize.py leaves).
THEOREM IntakeHearsWhatIsSeen == Spec => []IntakeReadsWhatIsSeen
<1>1. ASSUME NEW doc \in Seq(Tokens)
      PROVE  LET shown == {doc[i] : i \in Seen(doc)}
             IN MatchStaticReply(<<>>, SanitizeHtml(doc)) =
                    IF Insult \in shown THEN "toxicity"
                    ELSE IF Override \in shown THEN "injection"
                    ELSE IF Greeted(doc) THEN "greeting" ELSE "none"
  <2> DEFINE body == FlattenSeq(SanitizeHtml(doc))
             said == Only(Read(doc).chunks, Marks)
             shown == {doc[i] : i \in Seen(doc)}
  <2>1. body = said
    <3>1. CASE doc = <<>>
      <4>1. <<>> \in Seq({0}) /\ 0 \in {0} /\ Lt \notin {}
        BY EmptySeq
      <4>2. Read(<<>>).chunks = <<>>
        <5>1. Read(<<>>) = Extractor
          BY <4>1, FeedAppend DEF Read
        <5> QED BY <5>1 DEF Extractor
      <4>3. Substitute(<<>>, TagEnd, LAMBDA match : <<>>) = <<>>
        <5>1. <<>> \in Seq({})
          BY EmptySeq
        <5> QED BY <5>1, NoTagOut
      <4>4. SplitLines(<<>>) = << <<>> >>
        <5>1. <<>> \in Seq({Nl}) /\ Nl \in {Nl}
          BY EmptySeq
        <5> QED BY <5>1, SplitLinesAppend
      <4> DEFINE lines == << <<>> >>
      <4>5. SanitizeHtml(<<>>) = Only(lines, ToSet(lines) \ {<<>>})
        BY <4>2, <4>3, <4>4 DEF SanitizeHtml, Read
      <4>6. FlattenSeq(Only(lines, ToSet(lines) \ {<<>>})) = FlattenSeq(lines)
        <5> DEFINE A == ToSet(lines) \ {<<>>}
        <5>1. lines \in Seq(Seq({})) /\ ToSet(lines) \ {<<>>} \subseteq A
          BY EmptySeq
        <5> HIDE DEF lines, A
        <5>2. FlattenSeq(Only(lines, A)) = FlattenSeq(lines)
          BY <5>1, FlattenSome
        <5> QED BY <5>2 DEF A
      <4>7. FlattenSeq(lines) = <<>>
        <5>1. <<>> \in Seq({})
          BY EmptySeq
        <5> QED BY <5>1, FlattenOne
      <4>8. Only(<<>>, Marks) = <<>>
        BY OnlyEmpty
      <4> HIDE DEF lines
      <4> QED BY <3>1, <4>2, <4>5, <4>6, <4>7, <4>8
    <3>2. CASE doc # <<>>
      BY <3>2, BodyOfHtml, SignsApart DEF Marks
    <3> QED BY <3>1, <3>2
  <2>2. Heard(doc, Read(doc), said)
    BY Hearing
  <2>3. /\ ToSet(said) \ {Gt} = shown
        /\ said = <<Hello>> <=> Greeted(doc)
    BY <2>2 DEF Heard
  <2>4. Insult # Gt /\ Override # Gt /\ ToSet(<<>>) = {} /\ <<>> # <<Hello>>
    BY EmptySeq DEF ToSet, Insult, Override, Gt
  <2>5. /\ IsGreeting(<<>>, body) <=> body = <<Hello>>
        /\ ToSet(<<>>) \cup ToSet(body) = ToSet(body)
    BY <2>4 DEF IsGreeting
  <2>6. MatchStaticReply(<<>>, SanitizeHtml(doc)) =
           LET blob == ToSet(body)
           IN CASE Insult \in blob -> "toxicity"
                [] Override \in blob /\ Insult \notin blob -> "injection"
                [] blob \cap {Insult, Override} = {} /\ IsGreeting(<<>>, body) -> "greeting"
                [] OTHER -> "none"
    BY <2>5 DEF MatchStaticReply
  <2> HIDE DEF body, said, shown
  <2>7. /\ Insult \in ToSet(body) <=> Insult \in shown
        /\ Override \in ToSet(body) <=> Override \in shown
        /\ IsGreeting(<<>>, body) <=> Greeted(doc)
    BY <2>1, <2>3, <2>4, <2>5
  <2>8. CASE Insult \in shown
    BY <2>6, <2>7, <2>8 DEF shown
  <2>9. CASE Insult \notin shown /\ Override \in shown
    BY <2>6, <2>7, <2>9 DEF shown
  <2>10. CASE Insult \notin shown /\ Override \notin shown /\ Greeted(doc)
    <3>1. ToSet(body) \cap {Insult, Override} = {}
      BY <2>7, <2>10
    <3> QED BY <2>6, <2>7, <2>10, <3>1 DEF shown
  <2>11. CASE Insult \notin shown /\ Override \notin shown /\ ~ Greeted(doc)
    BY <2>6, <2>7, <2>11 DEF shown
  <2> QED BY <2>8, <2>9, <2>10, <2>11
<1>2. Written => IntakeReadsWhatIsSeen
  <2> SUFFICES ASSUME Written, kind = "intake" PROVE IntakeReadsWhatIsSeen
    BY DEF IntakeReadsWhatIsSeen
  <2>1. text \in Seq(Letters("intake")) /\ Letters("intake") \subseteq Tokens
    <3>1. Letters("intake") \subseteq Tokens
      <4>1. Nl \in Nat
        BY DEF Nl
      <4> QED BY <4>1, AlphabetAssumption DEF Letters, Tokens, Signs
    <3> QED BY <3>1 DEF Written, Documents
  <2>2. text \in Seq(Tokens)
    <3>1. \A k \in 1 .. Len(text) : text[k] \in Tokens
      BY <2>1, ElementOfSeq
    <3> QED BY <2>1, <3>1, SeqDef, LenProperties
  <2> QED BY <1>1, <2>2 DEF IntakeReadsWhatIsSeen, Seen, Greeted
<1> QED BY <1>2, SamplesWritten, PTL

----------------------------------------------------------------------------
(* The request of an HTML mail and its quote. *)

\* What an HTML document is made of; a word is the number of its place.
Markup == Nat \cup OpenTags \cup CloseTags
Terms == Nat \ {0}

\* What is read of it outside of quotes and in them.
Unmarked == Nat
Marked == Nat \cup {Gt}

Placed(doc) == \A i \in DOMAIN doc : doc[i] > 0 => doc[i] = i

Order(doc, set) == Only([i \in DOMAIN doc |-> i], set)
Before(doc) == {i \in Visible(doc) : \A j \in Visible(doc) : j <= i => ~ Quoted(doc, j)}

LEMMA MarkupApart ==
    /\ Nat \cap (OpenTags \cup CloseTags) = {} /\ Nl \in Nat /\ Gt \notin Markup /\ Gt \notin Nat
    /\ Lt \notin Chunks(Markup) /\ Wrote \notin Chunks(Markup)
    /\ \A c \in Markup : /\ c \in Tokens
                         /\ c \notin {Hello, Insult, Override}
                         /\ c > 0 <=> c \in Terms
                         /\ c \in Signs \ {Nl} <=> c \in Terms
    /\ \A c \in Markup : c \in Nat \/ c \in {OpenBreak, OpenQuote, OpenSkip, CloseQuote, CloseSkip}
    /\ Nl \notin Terms /\ Gt \notin Terms /\ Terms \subseteq Unmarked
    /\ Nl \in Unmarked /\ Unmarked \subseteq Marked /\ Gt \in Marked /\ Nl \in Marked
    /\ Terms \subseteq Marked /\ Marked \subseteq Int
BY DEF Markup, Terms, Unmarked, Marked, Tokens, Signs, Chunks, OpenTags, CloseTags, OpenBreak, OpenQuote, OpenSkip,
       CloseQuote, CloseSkip, Nl, Lt, Gt, Wrote, Hello, Insult, Override

LEMMA Wider ==
    ASSUME NEW A, NEW B, A \subseteq B, NEW s \in Seq(A)
    PROVE  s \in Seq(B)
<1>1. \A k \in 1 .. Len(s) : s[k] \in B
  BY ElementOfSeq
<1> QED BY <1>1, SeqDef, LenProperties

\* A word that is not hidden can be seen.
LEMMA VisibleAppend ==
    ASSUME NEW doc \in Seq(Markup), NEW c \in Markup
    PROVE  LET n == Len(doc)
               d == Append(doc, c)
           IN /\ c \in Terms /\ ~ Hidden(doc, n + 1) => Visible(d) = Visible(doc) \cup {n + 1}
              /\ ~ (c \in Terms /\ ~ Hidden(doc, n + 1)) => Visible(d) = Visible(doc)
              /\ Visible(doc) \subseteq 1 .. n /\ n + 1 \notin Visible(doc)
              /\ \A i \in 1 .. n + 1 : Quoted(d, i) <=> Quoted(doc, i)
<1> DEFINE n == Len(doc)
           d == Append(doc, c)
<1>1. doc \in Seq(Tokens) /\ c \in Tokens
  <2>1. Markup \subseteq Tokens
    BY MarkupApart
  <2> HIDE DEF n, d
  <2> QED BY <2>1, Wider
<1>2. \A s \in Seq(Markup) : Visible(s) = Seen(s)
  <2> TAKE s \in Seq(Markup)
  <2>1. \A i \in DOMAIN s : s[i] \in Markup
    BY ElementOfSeq, LenProperties
  <2> QED BY <2>1, MarkupApart DEF Visible, Seen
<1>3. d \in Seq(Markup)
  BY AppendProperties
<1>4. Visible(d) = Seen(d) /\ Visible(doc) = Seen(doc)
  BY <1>2, <1>3
<1>5. /\ c \in Signs \ {Nl} /\ ~ Hidden(doc, n + 1) => Seen(d) = Seen(doc) \cup {n + 1}
      /\ ~ (c \in Signs \ {Nl} /\ ~ Hidden(doc, n + 1)) => Seen(d) = Seen(doc)
      /\ Seen(doc) \subseteq 1 .. n /\ n + 1 \notin Seen(doc)
      /\ \A i \in 1 .. n + 1 : Quoted(d, i) <=> Quoted(doc, i)
  BY <1>1, SeenAppend
<1>6. c \in Signs \ {Nl} <=> c \in Terms
  BY MarkupApart
<1> HIDE DEF n, d
<1> QED BY <1>4, <1>5, <1>6 DEF n, d

\* Places of the document before the new one, and the new one.
LEMMA OrderAppend ==
    ASSUME NEW E, NEW doc \in Seq(E), NEW c \in E, NEW set \in SUBSET (1 .. Len(doc))
    PROVE  /\ Order(Append(doc, c), set) = Order(doc, set)
           /\ Order(Append(doc, c), set \cup {Len(doc) + 1}) = Append(Order(doc, set), Len(doc) + 1)
<1> DEFINE n == Len(doc)
           d == Append(doc, c)
           ids == [i \in DOMAIN doc |-> i]
           new == [i \in DOMAIN d |-> i]
<1>1. n \in Nat /\ DOMAIN doc = 1 .. n /\ DOMAIN d = 1 .. n + 1
  BY AppendProperties, LenProperties
<1>2. ids \in Seq(Unmarked) /\ new \in Seq(Unmarked) /\ Len(ids) = n /\ Len(new) = n + 1
  BY <1>1 DEF Unmarked
<1>3. new = Append(ids, n + 1)
  <2>1. Append(ids, n + 1) \in Seq(Unmarked) /\ Len(Append(ids, n + 1)) = n + 1
    BY <1>1, <1>2, AppendProperties
  <2>2. \A k \in 1 .. n + 1 : Append(ids, n + 1)[k] = new[k]
    <3> TAKE k \in 1 .. n + 1
    <3>1. CASE k = n + 1
      BY <1>1, <1>2, <3>1, AppendProperties
    <3>2. CASE k # n + 1
      <4>1. k \in 1 .. n
        BY <1>1, <3>2
      <4> QED BY <1>1, <1>2, <4>1, AppendProperties
    <3> QED BY <3>1, <3>2
  <2> HIDE DEF ids, new, n
  <2> QED BY <1>2, <2>1, <2>2, SeqEqual
<1>4. ToSet(ids) \subseteq 1 .. n
  BY <1>1 DEF ToSet
<1>5. n + 1 \notin 1 .. n /\ n + 1 \in Unmarked /\ set \subseteq 1 .. n
  BY <1>1 DEF Unmarked
<1> HIDE DEF ids, new, n, d
<1>6. Only(Append(ids, n + 1), set) = Only(ids, set)
  <2>1. n + 1 \notin set
    BY <1>5
  <2> QED BY <1>2, <1>5, <2>1, OnlyAppend
<1>7. Only(Append(ids, n + 1), set \cup {n + 1}) = Append(Only(ids, set), n + 1)
  <2> DEFINE m == n + 1
             both == set \cup {m}
  <2>1. m \in both /\ m \in Unmarked /\ ToSet(ids) \cap both = ToSet(ids) \cap set
    BY <1>4, <1>5
  <2> HIDE DEF both, m
  <2>2. Only(Append(ids, m), both) = Append(Only(ids, both), m)
    BY <1>2, <2>1, OnlyAppend
  <2>3. Only(ids, both) = Only(ids, set)
    BY <1>2, <2>1, OnlySame
  <2> QED BY <2>2, <2>3 DEF both, m
<1> QED BY <1>3, <1>6, <1>7 DEF Order, ids, new, d, n

LEMMA BeforeAppend ==
    ASSUME NEW doc \in Seq(Markup), NEW c \in Markup
    PROVE  LET n == Len(doc)
               d == Append(doc, c)
           IN /\ Visible(d) = Visible(doc) => Before(d) = Before(doc)
              /\ (\E j \in Visible(doc) : Quoted(doc, j)) => Before(d) = Before(doc)
              /\ (\A j \in Visible(doc) : ~ Quoted(doc, j)) => Before(doc) = Visible(doc)
              /\ (\A j \in Visible(doc) : ~ Quoted(doc, j)) /\ Quoted(doc, n + 1) =>
                     Before(d) = Visible(doc)
<1> DEFINE n == Len(doc)
           d == Append(doc, c)
<1>1. n \in Nat
  BY LenProperties
<1>2. /\ Visible(d) = Visible(doc) \/ Visible(d) = Visible(doc) \cup {n + 1}
      /\ Visible(doc) \subseteq 1 .. n /\ n + 1 \notin Visible(doc)
      /\ \A i \in 1 .. n + 1 : Quoted(d, i) <=> Quoted(doc, i)
  BY VisibleAppend
<1> HIDE DEF n, d
<1>3. \A i \in 1 .. n : i \in 1 .. n + 1 /\ i <= n + 1 /\ ~ (n + 1 <= i)
  BY <1>1
<1>4. n + 1 \in 1 .. n + 1 /\ n + 1 <= n + 1
  BY <1>1
<1>5. \A j \in Visible(doc) : j \in 1 .. n /\ (Quoted(d, j) <=> Quoted(doc, j))
  BY <1>2, <1>3
<1>6. Visible(d) = Visible(doc) => Before(d) = Before(doc)
  BY <1>5 DEF Before
<1>7. \A i \in Visible(doc) : i \in Before(d) <=> i \in Before(doc)
  BY <1>2, <1>3, <1>5 DEF Before
<1>8. Before(doc) \subseteq Visible(doc) /\ Before(d) \subseteq Visible(d)
  BY DEF Before
<1>9. ASSUME NEW j \in Visible(doc), Quoted(doc, j) PROVE Before(d) = Before(doc)
  <2>1. n + 1 \notin Before(d)
    BY <1>2, <1>3, <1>5, <1>9 DEF Before
  <2> QED BY <1>2, <1>7, <1>8, <2>1
<1>10. (\A j \in Visible(doc) : ~ Quoted(doc, j)) => Before(doc) = Visible(doc)
  BY DEF Before
<1>11. ASSUME \A j \in Visible(doc) : ~ Quoted(doc, j), Quoted(doc, n + 1)
       PROVE  Before(d) = Visible(doc)
  <2>1. n + 1 \notin Before(d)
    BY <1>2, <1>4, <1>11 DEF Before
  <2> QED BY <1>2, <1>7, <1>8, <1>10, <1>11, <2>1
<1> QED BY <1>6, <1>9, <1>10, <1>11 DEF n, d

\* The chunks of a document in which no quote can be seen; then a quote begins on
\* a line of its own, with its mark.
Ready(x) == x.quote > 0 => x.lineStart /\ \E a \in Seq(Unmarked) : x.chunks = Append(a, Nl)
OneBody(doc, x) ==
    /\ x.chunks \in Seq(Unmarked) /\ Ready(x)
    /\ \A i \in Visible(doc) : ~ Quoted(doc, i)
    /\ Only(x.chunks, Terms) = Order(doc, Visible(doc))

\* Those of a document with a quote: what is before the first mark, and the rest.
TwoBodies(doc, x, a, b) ==
    /\ a \in Seq(Unmarked) /\ b \in Seq(Marked)
    /\ x.chunks = Append(Append(a, Nl), Gt) \o b
    /\ \E j \in Visible(doc) : Quoted(doc, j)
    /\ Only(a, Terms) = Order(doc, Before(doc))
    /\ Only(b, Terms) = Order(doc, Visible(doc) \ Before(doc))

Apart(doc, x) == OneBody(doc, x) \/ \E a, b : TwoBodies(doc, x, a, b)

\* What is read before the mark, and behind it.
LEMMA MoreChunks ==
    ASSUME NEW a \in Seq(Unmarked), NEW b \in Seq(Marked), NEW e \in Marked
    PROVE  /\ Append(Append(Append(a, Nl), Gt) \o b, e) = Append(Append(a, Nl), Gt) \o Append(b, e)
           /\ Append(b, e) \in Seq(Marked)
           /\ e \in Terms => Only(Append(b, e), Terms) = Append(Only(b, Terms), e)
           /\ e \notin Terms => Only(Append(b, e), Terms) = Only(b, Terms)
<1> DEFINE h == Append(Append(a, Nl), Gt)
<1>1. h \in Seq(Marked)
  <2>1. Nl \in Marked /\ Gt \in Marked /\ Unmarked \subseteq Marked
    BY MarkupApart
  <2>2. a \in Seq(Marked)
    BY <2>1, Wider
  <2>3. Append(a, Nl) \in Seq(Marked)
    BY <2>1, <2>2, AppendProperties
  <2> DEFINE t == Append(a, Nl)
  <2> HIDE DEF t
  <2>4. Append(t, Gt) \in Seq(Marked)
    BY <2>1, <2>3, AppendProperties DEF t
  <2> QED BY <2>4 DEF t
<1>2. b \in Seq(Marked) /\ e \in Marked
  OBVIOUS
<1> HIDE DEF h
<1>3. Append(h \o b, e) = h \o Append(b, e) /\ Append(b, e) \in Seq(Marked)
  <2>1. h \o Append(b, e) = Append(h \o b, e)
    BY <1>1, <1>2, ConcatAppend
  <2>2. Append(b, e) \in Seq(Marked)
    BY <1>2, AppendProperties
  <2> QED BY <2>1, <2>2
<1>4. /\ e \in Terms => Only(Append(b, e), Terms) = Append(Only(b, Terms), e)
      /\ e \notin Terms => Only(Append(b, e), Terms) = Only(b, Terms)
  BY <1>2, OnlyAppend
<1> QED BY <1>3, <1>4 DEF h

\* A token after which nothing more can be seen.
LEMMA ApartSilent ==
    ASSUME NEW doc \in Seq(Markup), NEW c \in Markup, NEW x, NEW y, Apart(doc, x),
           ~ (c \in Terms /\ ~ Hidden(doc, Len(doc) + 1)),
           y.chunks = x.chunks \/ y.chunks = Append(x.chunks, Nl), OneBody(doc, x) => Ready(y)
    PROVE  Apart(Append(doc, c), y)
<1> DEFINE n == Len(doc)
           d == Append(doc, c)
<1>1. /\ Visible(d) = Visible(doc) /\ Visible(doc) \subseteq 1 .. n
      /\ \A i \in 1 .. n + 1 : Quoted(d, i) <=> Quoted(doc, i)
  BY VisibleAppend
<1>2. Before(d) = Before(doc)
  BY <1>1, BeforeAppend
<1>3. \A i \in Visible(doc) : Quoted(d, i) <=> Quoted(doc, i)
  <2>1. \A i \in 1 .. n : i \in 1 .. n + 1
    BY LenProperties
  <2> QED BY <1>1, <2>1
<1>4. \A set \in SUBSET (1 .. n) : Order(d, set) = Order(doc, set)
  <2>1. \A set \in SUBSET (1 .. n) :
           /\ Order(d, set) = Order(doc, set)
           /\ Order(d, set \cup {n + 1}) = Append(Order(doc, set), n + 1)
    BY OrderAppend
  <2> QED BY <2>1
<1>5. Before(doc) \in SUBSET (1 .. n) /\ Visible(doc) \in SUBSET (1 .. n)
      /\ Visible(doc) \ Before(doc) \in SUBSET (1 .. n)
  BY <1>1 DEF Before
<1>6. /\ Order(d, Visible(d)) = Order(doc, Visible(doc))
      /\ Order(d, Before(d)) = Order(doc, Before(doc))
      /\ Order(d, Visible(d) \ Before(d)) = Order(doc, Visible(doc) \ Before(doc))
  BY <1>1, <1>2, <1>4, <1>5
<1> HIDE DEF d, n
<1>7. Nl \in Unmarked /\ Nl \notin Terms /\ Nl \in Marked
  BY MarkupApart
<1>8. CASE OneBody(doc, x)
  <2>1. y.chunks \in Seq(Unmarked) /\ Only(y.chunks, Terms) = Only(x.chunks, Terms)
    <3>1. x.chunks \in Seq(Unmarked)
      BY <1>8 DEF OneBody
    <3>2. Append(x.chunks, Nl) \in Seq(Unmarked) /\ Only(Append(x.chunks, Nl), Terms) = Only(x.chunks, Terms)
      <4> DEFINE t == x.chunks
      <4> HIDE DEF t
      <4>1. Append(t, Nl) \in Seq(Unmarked) /\ Only(Append(t, Nl), Terms) = Only(t, Terms)
        BY <1>7, <3>1, AppendProperties, OnlyAppend DEF t
      <4> QED BY <4>1 DEF t
    <3> QED BY <3>1, <3>2
  <2>2. OneBody(d, y)
    BY <1>1, <1>3, <1>6, <1>8, <2>1 DEF OneBody
  <2> QED BY <2>2 DEF Apart, d
<1>9. CASE \E a, b : TwoBodies(doc, x, a, b)
  <2>1. PICK a, b : TwoBodies(doc, x, a, b)
    BY <1>9
  <2>2. a \in Seq(Unmarked) /\ b \in Seq(Marked)
    BY <2>1 DEF TwoBodies
  <2>3. \E j \in Visible(d) : Quoted(d, j)
    BY <1>1, <1>3, <2>1 DEF TwoBodies
  <2>4. CASE y.chunks = x.chunks
    <3>1. TwoBodies(d, y, a, b)
      BY <1>6, <2>1, <2>3, <2>4 DEF TwoBodies
    <3> QED BY <3>1 DEF Apart, d
  <2>5. CASE y.chunks = Append(x.chunks, Nl)
    <3> DEFINE b2 == Append(b, Nl)
    <3>1. /\ y.chunks = Append(Append(a, Nl), Gt) \o b2
          /\ b2 \in Seq(Marked) /\ Only(b2, Terms) = Only(b, Terms)
      <4>1. x.chunks = Append(Append(a, Nl), Gt) \o b
        BY <2>1 DEF TwoBodies
      <4>2. /\ Append(Append(Append(a, Nl), Gt) \o b, Nl) = Append(Append(a, Nl), Gt) \o b2
            /\ b2 \in Seq(Marked) /\ Only(b2, Terms) = Only(b, Terms)
        BY <1>7, <2>2, MoreChunks, ZenonT(30)
      <4> HIDE DEF b2
      <4> QED BY <2>5, <4>1, <4>2
    <3> HIDE DEF b2
    <3>2. TwoBodies(d, y, a, b2)
      BY <1>6, <2>1, <2>3, <3>1 DEF TwoBodies
    <3> QED BY <3>2 DEF Apart, d
  <2> QED BY <2>4, <2>5
<1> QED BY <1>8, <1>9 DEF Apart

\* A word that can be seen.
LEMMA ApartWord ==
    ASSUME NEW doc \in Seq(Markup), NEW c \in Markup, NEW x, NEW y, Apart(doc, x),
           c \in Terms, c = Len(doc) + 1, ~ Hidden(doc, Len(doc) + 1),
           Quoted(doc, Len(doc) + 1) <=> x.quote > 0, y.quote = x.quote,
           y.chunks = Append(x.chunks, c) \/ y.chunks = Append(Append(x.chunks, Gt), c),
           ~ x.quote > 0 => y.chunks = Append(x.chunks, c),
           x.quote > 0 /\ x.lineStart => y.chunks = Append(Append(x.chunks, Gt), c)
    PROVE  Apart(Append(doc, c), y)
<1> DEFINE n == Len(doc)
           d == Append(doc, c)
<1>1. /\ Visible(d) = Visible(doc) \cup {c} /\ Visible(doc) \subseteq 1 .. n
      /\ c \notin Visible(doc)
      /\ \A i \in 1 .. n + 1 : Quoted(d, i) <=> Quoted(doc, i)
  BY VisibleAppend
<1>2. /\ (\E j \in Visible(doc) : Quoted(doc, j)) => Before(d) = Before(doc)
      /\ (\A j \in Visible(doc) : ~ Quoted(doc, j)) /\ Quoted(doc, c) =>
             Before(d) = Visible(doc)
  BY BeforeAppend
<1>3. /\ \A i \in Visible(doc) : Quoted(d, i) <=> Quoted(doc, i)
      /\ Quoted(d, c) <=> Quoted(doc, c)
  <2>1. c \in 1 .. n + 1 /\ \A i \in 1 .. n : i \in 1 .. n + 1
    BY LenProperties
  <2> QED BY <1>1, <2>1
<1>4. \A set \in SUBSET (1 .. n) : /\ Order(d, set) = Order(doc, set)
                                   /\ Order(d, set \cup {c}) = Append(Order(doc, set), c)
  BY OrderAppend
<1>5. Before(doc) \in SUBSET (1 .. n) /\ Visible(doc) \in SUBSET (1 .. n)
      /\ Visible(doc) \ Before(doc) \in SUBSET (1 .. n) /\ {} \in SUBSET (1 .. n)
  BY <1>1 DEF Before
<1>6. c \in Unmarked /\ Gt \notin Terms /\ Nl \notin Terms /\ Nl \in Unmarked
  BY MarkupApart
<1>7. c \in Marked /\ Gt \in Marked
  BY MarkupApart
<1>8. Quoted(doc, c) <=> x.quote > 0
  OBVIOUS
<1> HIDE DEF d, n
<1>9. CASE OneBody(doc, x) /\ ~ x.quote > 0
  <2>1. y.chunks = Append(x.chunks, c)
    BY <1>9
  <2>2. y.chunks \in Seq(Unmarked) /\ Only(y.chunks, Terms) = Append(Only(x.chunks, Terms), c)
    <3> DEFINE t == x.chunks
    <3>1. t \in Seq(Unmarked)
      BY <1>9 DEF OneBody
    <3> HIDE DEF t
    <3>2. Append(t, c) \in Seq(Unmarked) /\ Only(Append(t, c), Terms) = Append(Only(t, Terms), c)
      BY <1>6, <3>1, AppendProperties, OnlyAppend
    <3> QED BY <2>1, <3>2 DEF t
  <2>3. Order(d, Visible(d)) = Append(Order(doc, Visible(doc)), c)
    BY <1>1, <1>4, <1>5
  <2>4. \A i \in Visible(d) : ~ Quoted(d, i)
    BY <1>1, <1>3, <1>8, <1>9 DEF OneBody
  <2>5. Ready(y)
    BY <1>9 DEF Ready
  <2>6. OneBody(d, y)
    BY <1>9, <2>2, <2>3, <2>4, <2>5 DEF OneBody
  <2> QED BY <2>6 DEF Apart, d
<1>10. CASE OneBody(doc, x) /\ x.quote > 0
  <2>1. PICK a \in Seq(Unmarked) : x.chunks = Append(a, Nl)
    BY <1>10 DEF OneBody, Ready
  <2>2. x.lineStart
    BY <1>10 DEF OneBody, Ready
  <2> DEFINE b == Append(<<>>, c)
  <2>3. /\ y.chunks = Append(Append(a, Nl), Gt) \o b
        /\ b \in Seq(Marked) /\ Only(b, Terms) = Append(<<>>, c)
    <3>1. y.chunks = Append(Append(Append(a, Nl), Gt), c)
      BY <1>10, <2>1, <2>2
    <3>2. <<>> \in Seq(Marked) /\ Only(<<>>, Terms) = <<>>
      BY EmptySeq, OnlyEmpty
    <3> DEFINE h == Append(Append(a, Nl), Gt)
               e == <<>>
    <3>3. h \o e = h
      <4>1. a \in Seq(Marked) /\ Nl \in Marked /\ Gt \in Marked
        BY MarkupApart, Wider
      <4>2. Append(a, Nl) \in Seq(Marked)
        BY <4>1, AppendProperties
      <4>3. h \in Seq(Marked)
        BY <4>1, <4>2, AppendProperties
      <4> HIDE DEF h
      <4> QED BY <4>3, ConcatEmptySeq
    <3>4. /\ Append(h \o e, c) = h \o Append(e, c)
          /\ Append(e, c) \in Seq(Marked)
          /\ Only(Append(e, c), Terms) = Append(Only(e, Terms), c)
      <4>1. e \in Seq(Marked)
        BY <3>2
      <4> HIDE DEF e
      <4> QED BY <1>7, <4>1, MoreChunks
    <3> HIDE DEF h
    <3> QED BY <3>1, <3>2, <3>3, <3>4 DEF h
  <2>4. Only(a, Terms) = Order(doc, Visible(doc))
    <3>1. Only(Append(a, Nl), Terms) = Only(a, Terms)
      BY <1>6, OnlyAppend
    <3> QED BY <1>10, <2>1, <3>1 DEF OneBody
  <2>5. Before(d) = Visible(doc) /\ Visible(d) \ Before(d) = {c}
    BY <1>1, <1>2, <1>8, <1>10 DEF OneBody
  <2>6. Order(d, Before(d)) = Order(doc, Visible(doc))
    BY <1>4, <1>5, <2>5
  <2>7. Order(d, {c}) = Append(<<>>, c)
    <3>1. {} \cup {c} = {c} /\ Order(doc, {}) = <<>>
      <4> DEFINE ids == [i \in DOMAIN doc |-> i]
      <4>1. ids \in Seq(Unmarked)
        BY LenProperties DEF Unmarked
      <4>2. ToSet(Only(ids, {})) = {} /\ Only(ids, {}) \in Seq(Unmarked)
        <5> HIDE DEF ids
        <5> QED BY <4>1, OnlySet, OnlyType
      <4> DEFINE o == Only(ids, {})
      <4> HIDE DEF o
      <4>3. o = <<>>
        <5>3. o \in Seq(Unmarked) /\ ToSet(o) = {}
          BY <4>2 DEF o
        <5>4. DOMAIN o = 1 .. Len(o) /\ Len(o) \in Nat
          BY <5>3, LenProperties
        <5>5. DOMAIN o = {}
          BY <5>3 DEF ToSet
        <5>1. DOMAIN o = 1 .. Len(o) /\ Len(o) \in Nat /\ DOMAIN o = {}
          BY <5>4, <5>5
        <5>2. Len(o) = 0
          BY <5>1
        <5> QED BY <4>2, <5>2, EmptySeq DEF o
      <4> QED BY <4>3 DEF o, Order
    <3>2. Order(d, {} \cup {c}) = Append(Order(doc, {}), c)
      BY <1>4, <1>5
    <3> QED BY <3>1, <3>2
  <2>8. \E j \in Visible(d) : Quoted(d, j)
    BY <1>1, <1>3, <1>8, <1>10
  <2> HIDE DEF b
  <2>9. TwoBodies(d, y, a, b)
    BY <2>1, <2>3, <2>4, <2>5, <2>6, <2>7, <2>8 DEF TwoBodies
  <2> QED BY <2>9 DEF Apart, d
<1>11. CASE \E a, b : TwoBodies(doc, x, a, b)
  <2>1. PICK a, b : TwoBodies(doc, x, a, b)
    BY <1>11
  <2>2. a \in Seq(Unmarked) /\ b \in Seq(Marked) /\ x.chunks = Append(Append(a, Nl), Gt) \o b
    BY <2>1 DEF TwoBodies
  <2>3. \E j \in Visible(d) : Quoted(d, j)
    BY <1>1, <1>3, <2>1 DEF TwoBodies
  <2>4. Before(d) = Before(doc)
    BY <1>2, <2>1 DEF TwoBodies
  <2>5. c \notin Before(doc)
    BY <1>1 DEF Before
  <2>6. Visible(d) \ Before(d) = (Visible(doc) \ Before(doc)) \cup {c}
    BY <1>1, <2>4, <2>5
  <2>7. /\ Order(d, Before(d)) = Order(doc, Before(doc))
        /\ Order(d, Visible(d) \ Before(d)) = Append(Order(doc, Visible(doc) \ Before(doc)), c)
    BY <1>4, <1>5, <2>4, <2>6
  <2>8. CASE y.chunks = Append(x.chunks, c)
    <3> DEFINE b2 == Append(b, c)
    <3>1. /\ y.chunks = Append(Append(a, Nl), Gt) \o b2
          /\ b2 \in Seq(Marked) /\ Only(b2, Terms) = Append(Only(b, Terms), c)
      BY <1>7, <2>2, <2>8, MoreChunks
    <3> HIDE DEF b2
    <3>2. TwoBodies(d, y, a, b2)
      BY <2>1, <2>3, <2>7, <3>1 DEF TwoBodies
    <3> QED BY <3>2 DEF Apart, d
  <2>9. CASE y.chunks = Append(Append(x.chunks, Gt), c)
    <3> DEFINE b1 == Append(b, Gt)
               b2 == Append(b1, c)
    <3>1. /\ Append(x.chunks, Gt) = Append(Append(a, Nl), Gt) \o b1
          /\ b1 \in Seq(Marked) /\ Only(b1, Terms) = Only(b, Terms)
      <4>1. /\ Append(Append(Append(a, Nl), Gt) \o b, Gt) = Append(Append(a, Nl), Gt) \o b1
            /\ b1 \in Seq(Marked) /\ Only(b1, Terms) = Only(b, Terms)
        BY <1>6, <1>7, <2>2, MoreChunks, ZenonT(30)
      <4> HIDE DEF b1
      <4> QED BY <2>2, <4>1
    <3> HIDE DEF b1
    <3>2. /\ y.chunks = Append(Append(a, Nl), Gt) \o b2
          /\ b2 \in Seq(Marked) /\ Only(b2, Terms) = Append(Only(b1, Terms), c)
      <4>1. /\ Append(Append(Append(a, Nl), Gt) \o b1, c) = Append(Append(a, Nl), Gt) \o b2
            /\ b2 \in Seq(Marked) /\ Only(b2, Terms) = Append(Only(b1, Terms), c)
        BY <1>7, <2>2, <3>1, MoreChunks, ZenonT(30)
      <4> HIDE DEF b2
      <4> QED BY <2>9, <3>1, <4>1
    <3> HIDE DEF b2
    <3>3. TwoBodies(d, y, a, b2)
      BY <2>1, <2>3, <2>7, <3>1, <3>2 DEF TwoBodies
    <3> QED BY <3>3 DEF Apart, d
  <2> QED BY <2>8, <2>9
<1> QED BY <1>9, <1>10, <1>11 DEF Apart

\* What is read of a document comes apart at its first visible quote.
LEMMA Parting ==
    ASSUME NEW doc \in Seq(Markup), Placed(doc)
    PROVE  Apart(doc, Read(doc))
<1> DEFINE T == Markup
           P == {r \in Seq(T) : Placed(r) => Apart(r, Read(r))}
<1> HIDE DEF P
<1>1. <<>> \in P
  <2>1. <<>> \in Seq({0}) /\ 0 \in {0}
    BY EmptySeq
  <2>2. Read(<<>>) = Extractor
    BY <2>1, FeedAppend DEF Read
  <2>3. Visible(<<>>) = {} /\ [i \in DOMAIN <<>> |-> i] = <<>>
    BY EmptySeq DEF Visible
  <2>4. Only(<<>>, Terms) = Order(<<>>, Visible(<<>>))
    BY <2>3, OnlyEmpty DEF Order
  <2>5. Ready(Extractor)
    BY DEF Ready, Extractor
  <2>6. OneBody(<<>>, Extractor)
    <3>1. Extractor.chunks = <<>> /\ <<>> \in Seq(Unmarked)
      BY EmptySeq DEF Extractor
    <3> QED BY <2>3, <2>4, <2>5, <3>1 DEF OneBody
  <2> QED BY <2>2, <2>6, EmptySeq DEF P, Apart
<1>2. ASSUME NEW r \in Seq(T), NEW c \in T, r \in P PROVE Append(r, c) \in P
  <2> DEFINE d == Append(r, c)
             x == Read(r)
             y == Read(d)
             m == Len(r) + 1
  <2>1. d \in Seq(T)
    BY AppendProperties
  <2>2. x \in Extractors(T) /\ y = Feed(x, c)
    BY FeedAppend DEF Read
  <2>3. /\ x.skip \in {0, 1} /\ (x.skip = 0 <=> ~ Hidden(r, m))
        /\ x.quote > 0 <=> Quoted(r, m)
    BY NextPlace
  <2>4. x.chunks \in Seq(Chunks(T)) /\ x.quote \in Nat
    BY <2>2 DEF Extractors
  <2> SUFFICES ASSUME Placed(d) PROVE Apart(d, y)
    BY <2>1 DEF P
  <2>5. Apart(r, x) /\ (c \in Terms => c = m)
    <3>1. /\ Len(r) \in Nat /\ d[m] = c /\ \A i \in 1 .. Len(r) : d[i] = r[i]
          /\ DOMAIN r = 1 .. Len(r) /\ DOMAIN d = 1 .. m
      BY AppendProperties, LenProperties
    <3>2. m \in DOMAIN d /\ \A i \in DOMAIN r : i \in DOMAIN d
      BY <3>1
    <3>3. Placed(r)
      BY <3>1, <3>2 DEF Placed
    <3>4. c \in Terms => c > 0
      BY MarkupApart
    <3>5. c > 0 => c = m
      BY <3>1, <3>2 DEF Placed
    <3> QED BY <1>2, <3>3, <3>4, <3>5 DEF P
  <2> HIDE DEF d, x, y, m
  <2>6. CASE c \in {OpenBreak, OpenQuote, OpenSkip, CloseQuote, CloseSkip} \/ x.skip = 1
    <3>1. y.chunks = x.chunks \/ y.chunks = Append(x.chunks, Nl)
      BY <2>2, <2>3, <2>6, FeedChunks
    <3>2. ASSUME OneBody(r, x) PROVE Ready(y)
      <4>0. x.chunks \in Seq(Unmarked) /\ Ready(x)
        BY <3>2 DEF OneBody
      <4>1. CASE x.skip = 1 \/ c \in {OpenSkip, CloseSkip}
        <5>1. y.lineStart = x.lineStart /\ y.chunks = x.chunks
          BY <2>2, <2>3, <4>1, FeedChunks
        <5>2. y.quote = x.quote
          <6>1. OpenSkip \notin {OpenQuote, CloseQuote} /\ CloseSkip \notin {OpenQuote, CloseQuote}
            BY DEF OpenQuote, CloseQuote, OpenSkip, CloseSkip
          <6>2. c \notin {OpenQuote, CloseQuote} \/ x.skip # 0
            BY <4>1, <6>1
          <6> QED BY <2>2, <2>3, <6>2, FeedCounts
        <5> QED BY <4>0, <5>1, <5>2 DEF Ready
      <4>2. CASE x.skip = 0 /\ c = OpenBreak
        <5>1. y.lineStart = (x.lineStart \/ x.quote > 0) /\ y.chunks = Append(x.chunks, Nl)
          BY <2>2, <2>3, <4>2, FeedChunks
        <5>2. y.quote = x.quote
          <6>1. OpenBreak \notin {OpenQuote, CloseQuote}
            BY DEF OpenQuote, CloseQuote, OpenBreak
          <6> QED BY <2>2, <2>3, <4>2, <6>1, FeedCounts
        <5> QED BY <4>0, <5>1, <5>2 DEF Ready
      <4>3. CASE x.skip = 0 /\ c = OpenQuote
        <5>1. y.lineStart /\ y.chunks = Append(x.chunks, Nl)
          BY <2>2, <2>3, <4>3, FeedChunks
        <5> QED BY <4>0, <5>1 DEF Ready
      <4>4. CASE x.skip = 0 /\ c = CloseQuote
        <5>1. y.chunks = x.chunks /\ (x.quote # 1 => y.lineStart = x.lineStart)
          BY <2>2, <2>3, <4>4, FeedChunks
        <5>2. /\ x.quote > 0 => y.quote = x.quote - 1
              /\ x.quote = 0 => y.quote = 0
          BY <2>2, <2>3, <4>4, FeedCounts
        <5>3. y.quote > 0 => x.quote > 0 /\ x.quote # 1
          BY <2>4, <5>2
        <5> QED BY <4>0, <5>1, <5>3 DEF Ready
      <4> QED BY <2>3, <2>6, <4>1, <4>2, <4>3, <4>4
    <3>3. ~ (c \in Terms /\ ~ Hidden(r, m))
      <4>1. c \in {OpenBreak, OpenQuote, OpenSkip, CloseQuote, CloseSkip} => c \notin Terms
        BY MarkupApart DEF OpenTags, CloseTags, Terms
      <4> QED BY <2>3, <2>6, <4>1
    <3> QED BY <2>5, <3>1, <3>2, <3>3, ApartSilent DEF d, m
  <2>7. CASE c \in Nat /\ x.skip = 0
    <3>1. c \notin OpenTags \cup CloseTags /\ c \notin {OpenQuote, CloseQuote} /\ c # Gt
      <4>1. c \notin OpenTags \cup CloseTags /\ c # Gt
        BY <2>7, MarkupApart
      <4> QED BY <4>1 DEF OpenTags, CloseTags
    <3>2. y.quote = x.quote
      BY <2>2, <2>3, <3>1, FeedCounts
    <3>3. CASE c = Nl
      <4>1. y.chunks = Append(x.chunks, Nl)
        <5>1. CASE x.quote = 0
          BY <2>2, <2>3, <2>7, <3>1, <3>3, <5>1, FeedChunks
        <5>2. CASE x.quote > 0
          BY <2>2, <2>3, <2>7, <3>1, <3>3, <5>2, FeedChunks
        <5> QED BY <2>4, <5>1, <5>2
      <4>2. x.quote > 0 => y.lineStart = (c = Nl)
        BY <2>2, <2>3, <2>7, <3>1, FeedChunks
      <4>3. OneBody(r, x) => Ready(y)
        <5>1. OneBody(r, x) => x.chunks \in Seq(Unmarked)
          BY DEF OneBody
        <5> QED BY <3>2, <3>3, <4>1, <4>2, <5>1 DEF Ready
      <4>4. c \notin Terms
        BY <3>3, MarkupApart
      <4> QED BY <2>5, <4>1, <4>3, <4>4, ApartSilent DEF d, m
    <3>4. CASE c # Nl
      <4>1. c \in Terms /\ ~ Hidden(r, m) /\ c = m
        BY <2>3, <2>5, <2>7, <3>4 DEF Terms, Nl
      <4>2. ~ x.quote > 0 => y.chunks = Append(x.chunks, c)
        <5>1. ~ x.quote > 0 => x.quote = 0
          BY <2>4
        <5> QED BY <2>2, <2>3, <2>7, <3>1, <5>1, FeedChunks
      <4>3. x.quote > 0 /\ x.lineStart => y.chunks = Append(Append(x.chunks, Gt), c)
        BY <2>2, <2>3, <2>7, <3>1, <3>4, FeedChunks
      <4>4. x.quote > 0 /\ ~ x.lineStart => y.chunks = Append(x.chunks, c)
        BY <2>2, <2>3, <2>7, <3>1, FeedChunks
      <4>5. y.chunks = Append(x.chunks, c) \/ y.chunks = Append(Append(x.chunks, Gt), c)
        BY <4>2, <4>3, <4>4
      <4> QED BY <2>3, <2>5, <3>2, <4>1, <4>2, <4>3, <4>5, ApartWord DEF d, m
    <3> QED BY <3>3, <3>4
  <2> QED BY <2>3, <2>6, <2>7, MarkupApart
<1>3. doc \in P
  <2>1. doc \in Seq(T)
    OBVIOUS
  <2> QED BY <1>1, <1>2, <2>1, SequenceInduction
<1> QED BY <1>3 DEF P

----------------------------------------------------------------------------
(* The lines before a mark and the lines from it on. *)

\* A line break parts the lines.
LEMMA SplitConcat ==
    ASSUME NEW E, Nl \in E, NEW a \in Seq(E), NEW t \in Seq(E)
    PROVE  SplitLines(Append(a, Nl) \o t) = SplitLines(a) \o SplitLines(t)
<1> DEFINE h == Append(a, Nl)
           L == SplitLines(a)
           P == {r \in Seq(E) : SplitLines(h \o r) = L \o SplitLines(r)}
<1>0. h \in Seq(E) /\ L \in SomeLines(E) /\ L \in Seq(Seq(E))
  BY AppendProperties, SplitLinesAppend DEF SomeLines
<1>1. SplitLines(h) = Append(L, <<>>)
  BY SplitLinesAppend
<1> HIDE DEF h, L, P
<1>2. <<>> \in P
  <2>1. h \o <<>> = h
    BY <1>0, ConcatEmptySeq
  <2>2. SplitLines(<<>>) = << <<>> >>
    <3>1. <<>> \in Seq({Nl}) /\ Nl \in {Nl}
      BY EmptySeq
    <3> QED BY <3>1, SplitLinesAppend
  <2>3. Append(L, <<>>) = L \o << <<>> >>
    <3>1. <<>> \in Seq(E)
      BY EmptySeq
    <3> DEFINE e == <<>>
               V == Seq(E)
    <3>2. e \in V /\ L \in Seq(V)
      BY <1>0, <3>1
    <3> HIDE DEF e, V
    <3>3. Append(L, e) = L \o <<e>>
      BY <3>2, AppendIsConcat
    <3> QED BY <3>3 DEF e
  <2> QED BY <1>1, <2>1, <2>2, <2>3, EmptySeq DEF P
<1>3. ASSUME NEW r \in Seq(E), NEW x \in E, r \in P PROVE Append(r, x) \in P
  <2> DEFINE M == SplitLines(r)
  <2>1. /\ M \in SomeLines(E)
        /\ x = Nl => SplitLines(Append(r, x)) = Append(M, <<>>)
        /\ x # Nl => SplitLines(Append(r, x)) = Longer(M, x)
    BY SplitLinesAppend
  <2>2. h \o r \in Seq(E) /\ h \o Append(r, x) = Append(h \o r, x)
    <3>1. h \o r \in Seq(E)
      BY <1>0, ConcatProperties
    <3>2. h \o Append(r, x) = Append(h \o r, x)
      BY <1>0, ConcatAppend
    <3> QED BY <3>1, <3>2
  <2> DEFINE hr == h \o r
  <2> HIDE DEF M, hr
  <2>3. /\ x = Nl => SplitLines(Append(hr, x)) = Append(SplitLines(hr), <<>>)
        /\ x # Nl => SplitLines(Append(hr, x)) = Longer(SplitLines(hr), x)
    <3>1. hr \in Seq(E)
      BY <2>2 DEF hr
    <3> QED BY <3>1, SplitLinesAppend
  <2>4. SplitLines(hr) = L \o M
    BY <1>3 DEF P, M, hr
  <2>5. PICK q \in Seq(Seq(E)), l \in Seq(E) : M = Append(q, l)
    BY <2>1, SequenceEmptyOrAppend DEF SomeLines
  <2>6. ASSUME NEW e \in Seq(E), NEW s \in Seq(Seq(E)) PROVE L \o Append(s, e) = Append(L \o s, e)
    <3> DEFINE V == Seq(E)
    <3>1. e \in V /\ s \in Seq(V) /\ L \in Seq(V)
      BY <1>0
    <3> HIDE DEF V
    <3> QED BY <3>1, ConcatAppend, SMTT(60)
  <2>7. CASE x = Nl
    <3>1. <<>> \in Seq(E) /\ M \in Seq(Seq(E))
      BY <2>1, EmptySeq DEF SomeLines
    <3>2. L \o Append(M, <<>>) = Append(L \o M, <<>>)
      BY <2>6, <3>1
    <3>3. SplitLines(h \o Append(r, x)) = L \o SplitLines(Append(r, x))
      BY <2>1, <2>2, <2>3, <2>4, <2>7, <3>2 DEF hr
    <3> QED BY <3>3, AppendProperties DEF P
  <2>8. CASE x # Nl
    <3> DEFINE k == Append(l, x)
               Lq == L \o q
    <3>1. k \in Seq(E) /\ Lq \in Seq(Seq(E))
      BY <1>0, AppendProperties, ConcatProperties
    <3>2. L \o M = Append(Lq, l)
      BY <2>5, <2>6
    <3>3. Longer(M, x) = Append(q, k)
      BY <2>5, LongerLast
    <3>4. L \o Append(q, k) = Append(Lq, k)
      <4> HIDE DEF k
      <4> QED BY <2>6, <3>1
    <3>5. Longer(Append(Lq, l), x) = Append(Lq, k)
      <4> HIDE DEF Lq
      <4> QED BY <3>1, LongerLast
    <3> HIDE DEF k, Lq
    <3>6. SplitLines(h \o Append(r, x)) = L \o SplitLines(Append(r, x))
      BY <2>1, <2>2, <2>3, <2>4, <2>8, <3>2, <3>3, <3>4, <3>5 DEF hr
    <3> QED BY <3>6, AppendProperties DEF P
  <2> QED BY <2>7, <2>8
<1>4. t \in P
  BY <1>2, <1>3, SequenceInduction
<1> QED BY <1>4 DEF P, h, L

\* The mark opens the first line.
LEMMA MarkFirst ==
    ASSUME NEW E, NEW mark \in E, mark # Nl, NEW t \in Seq(E)
    PROVE  /\ SplitLines(<<mark>> \o t) \in SomeLines(E)
           /\ SplitLines(<<mark>> \o t)[1] # <<>>
           /\ SplitLines(<<mark>> \o t)[1][1] = mark
<1> DEFINE h == <<mark>>
           Good(lines) == lines[1] # <<>> /\ lines[1][1] = mark
           P == {r \in Seq(E) : Good(SplitLines(h \o r))}
<1>0. h \in Seq(E) /\ h = Append(<<>>, mark) /\ <<>> \in Seq(E)
  BY EmptySeq
<1> HIDE DEF h, P
<1>1. <<>> \in P
  <2>1. h \o <<>> = h
    BY <1>0, ConcatEmptySeq
  <2>2. SplitLines(h) = Longer(<< <<>> >>, mark)
    <3>1. /\ SplitLines(<<>>) = << <<>> >>
          /\ SplitLines(Append(<<>>, mark)) = Longer(SplitLines(<<>>), mark)
      <4> DEFINE e == <<>>
      <4>1. e \in Seq(E)
        BY <1>0
      <4> HIDE DEF e
      <4>2. SplitLines(Append(e, mark)) = Longer(SplitLines(e), mark)
        BY <4>1, SplitLinesAppend
      <4>3. SplitLines(<<>>) = << <<>> >>
        BY <1>0, SplitLinesAppend
      <4> QED BY <4>2, <4>3 DEF e
    <3> QED BY <1>0, <3>1
  <2>3. Longer(<< <<>> >>, mark)[1] = <<mark>>
    BY DEF Longer
  <2>4. Good(SplitLines(h))
    <3>1. SplitLines(h)[1] = <<mark>>
      BY <2>2, <2>3
    <3>2. <<mark>> # <<>> /\ <<mark>>[1] = mark
      OBVIOUS
    <3> QED BY <3>1, <3>2
  <2> QED BY <1>0, <2>1, <2>4 DEF P
<1>2. ASSUME NEW r \in Seq(E), NEW x \in E, r \in P PROVE Append(r, x) \in P
  <2> DEFINE hr == h \o r
             M == SplitLines(hr)
  <2>1. hr \in Seq(E)
    BY <1>0, ConcatProperties
  <2>2. h \o Append(r, x) = Append(hr, x)
    BY <1>0, ConcatAppend
  <2>3. Good(M)
    BY <1>2 DEF P
  <2> HIDE DEF hr
  <2>4. /\ M \in SomeLines(E)
        /\ x = Nl => SplitLines(Append(hr, x)) = Append(M, <<>>)
        /\ x # Nl => SplitLines(Append(hr, x)) = Longer(M, x)
    BY <2>1, SplitLinesAppend
  <2> HIDE DEF M
  <2>5. PICK q \in Seq(Seq(E)), l \in Seq(E) : M = Append(q, l)
    BY <2>4, SequenceEmptyOrAppend DEF SomeLines
  <2>6. Len(q) \in Nat /\ (q = <<>> \/ 1 \in 1 .. Len(q)) /\ Len(l) \in Nat
    <3>1. Len(q) \in Nat /\ Len(l) \in Nat
      BY LenProperties
    <3>2. q # <<>> => Len(q) # 0
      BY EmptySeq
    <3> QED BY <3>1, <3>2
  <2>7. ASSUME NEW k \in Seq(E) PROVE q # <<>> => Append(q, k)[1] = q[1]
    BY <2>6, AppendProperties
  <2>8. ASSUME NEW k \in Seq(E) PROVE q = <<>> => Append(q, k)[1] = k
    OBVIOUS
  <2>9. CASE x = Nl
    <3>1. Append(M, <<>>)[1] = M[1]
      <4>1. M \in Seq(Seq(E)) /\ Len(M) = Len(q) + 1 /\ <<>> \in Seq(E)
        BY <2>4, <2>5, AppendProperties, EmptySeq DEF SomeLines
      <4>2. 1 \in 1 .. Len(M)
        BY <2>6, <4>1
      <4> QED BY <4>1, <4>2, AppendProperties
    <3>2. Good(SplitLines(h \o Append(r, x)))
      BY <2>2, <2>3, <2>4, <2>9, <3>1
    <3> QED BY <3>2, AppendProperties DEF P
  <2>10. CASE x # Nl
    <3> DEFINE k == Append(l, x)
    <3>1. k \in Seq(E) /\ k # <<>> /\ (l # <<>> => k[1] = l[1])
      <4>1. l # <<>> => 1 \in 1 .. Len(l)
        <5>1. l # <<>> => Len(l) # 0
          BY EmptySeq
        <5> QED BY <2>6, <5>1
      <4> QED BY <4>1, AppendProperties
    <3>2. Longer(M, x) = Append(q, k)
      BY <2>5, LongerLast
    <3> HIDE DEF k
    <3>3. Good(Append(q, k))
      <4>1. CASE q = <<>>
        <5>1. M[1] = l /\ Append(q, k)[1] = k
          BY <2>5, <2>8, <3>1, <4>1
        <5> QED BY <2>3, <3>1, <5>1
      <4>2. CASE q # <<>>
        <5>1. M[1] = q[1] /\ Append(q, k)[1] = q[1]
          BY <2>5, <2>7, <3>1, <4>2
        <5> QED BY <2>3, <5>1
      <4> QED BY <4>1, <4>2
    <3>4. Good(SplitLines(h \o Append(r, x)))
      BY <2>2, <2>4, <2>10, <3>2, <3>3
    <3> QED BY <3>4, AppendProperties DEF P
  <2> QED BY <2>9, <2>10
<1>3. t \in P
  BY <1>1, <1>2, SequenceInduction
<1>4. h \o t \in Seq(E)
  BY <1>0, ConcatProperties
<1>5. SplitLines(h \o t) \in SomeLines(E)
  <2> DEFINE s == h \o t
  <2> HIDE DEF s
  <2>1. s \in Seq(E)
    BY <1>4 DEF s
  <2>2. SplitLines(s) \in SomeLines(E)
    BY <2>1, SplitLinesAppend
  <2> QED BY <2>2 DEF s
<1> QED BY <1>3, <1>5 DEF P, h

\* The places that are put in order are all there.
LEMMA OrderSet ==
    ASSUME NEW E, NEW doc \in Seq(E), NEW set \in SUBSET (1 .. Len(doc))
    PROVE  Order(doc, set) = <<>> <=> set = {}
<1> DEFINE ids == [i \in DOMAIN doc |-> i]
           o == Only(ids, set)
<1>1. ids \in Seq(Unmarked) /\ ToSet(ids) = 1 .. Len(doc)
  <2>1. Len(doc) \in Nat /\ DOMAIN doc = 1 .. Len(doc)
    BY LenProperties
  <2>2. ids \in Seq(Unmarked)
    BY <2>1 DEF Unmarked
  <2>3. ToSet(ids) = 1 .. Len(doc)
    BY <2>1 DEF ToSet
  <2> QED BY <2>2, <2>3
<1> HIDE DEF ids
<1>2. o \in Seq(Unmarked) /\ ToSet(o) = ToSet(ids) \cap set
  BY <1>1, OnlySet, OnlyType
<1> HIDE DEF o
<1>3. ToSet(o) = set
  BY <1>1, <1>2
<1>4. o = <<>> <=> ToSet(o) = {}
  <2>1. DOMAIN o = 1 .. Len(o) /\ Len(o) \in Nat
    BY <1>2, LenProperties
  <2>2. ToSet(o) = {} => DOMAIN o = {}
    BY DEF ToSet
  <2>3. DOMAIN o = {} => Len(o) = 0
    BY <2>1
  <2>4. Len(o) = 0 => o = <<>>
    BY <1>2, EmptySeq
  <2>5. ToSet(<<>>) = {}
    BY EmptySeq DEF ToSet
  <2> QED BY <2>2, <2>3, <2>4, <2>5
<1> QED BY <1>3, <1>4 DEF Order, o, ids

\* Lines without a mark at their head are no boundary.
LEMMA NoBoundary ==
    ASSUME NEW line \in Seq(Unmarked)
    PROVE  ~ IsQuoteBoundaryLine(line)
<1>1. CASE line = <<>>
  BY <1>1 DEF IsQuoteBoundaryLine
<1>2. CASE line # <<>>
  <2>1. 1 \in 1 .. Len(line)
    <3>1. Len(line) # 0 /\ Len(line) \in Nat
      BY <1>2, EmptySeq, LenProperties
    <3> QED BY <3>1
  <2>2. line[1] \in Unmarked
    BY <2>1, ElementOfSeq
  <2>3. line[1] # Gt /\ line[1] # Wrote
    BY <2>2 DEF Unmarked, Gt, Wrote
  <2> QED BY <2>3 DEF IsQuoteBoundaryLine
<1> QED BY <1>1, <1>2

\* A body is cut at its first boundary line, unless nothing is before it.
LEMMA CutAt ==
    ASSUME NEW V, NEW above \in Seq(V), NEW below \in Seq(V), below # <<>>,
           IsQuoteBoundaryLine(below[1]),
           \A i \in 1 .. Len(above) : ~ IsQuoteBoundaryLine(above[i])
    PROVE  LET parts == SplitQuotedBody(above \o below)
           IN /\ FlattenSeq(above) = <<>> => parts = Split(above \o below, <<>>)
              /\ FlattenSeq(above) # <<>> => parts = Split(above, below)
<1> DEFINE n == Len(above)
           m == Len(below)
           all == above \o below
           cuts == {i \in 1 .. Len(all) : IsQuoteBoundaryLine(all[i])}
           cut == SelectInSeq(all, IsQuoteBoundaryLine)
<1>1. n \in Nat /\ m \in Nat /\ m # 0
  BY LenProperties, EmptySeq
<1>2. /\ all \in Seq(V) /\ Len(all) = n + m
      /\ \A i \in 1 .. n + m : all[i] = IF i <= n THEN above[i] ELSE below[i - n]
  BY ConcatProperties
<1> HIDE DEF all, n, m
<1>3. \A i \in 1 .. n : i \in 1 .. n + m /\ i <= n
  BY <1>1
<1>4. n + 1 \in 1 .. n + m /\ ~ (n + 1 <= n) /\ n + 1 - n = 1 /\ n + 1 \in Nat
  BY <1>1
<1>5. all[n + 1] = below[1] /\ \A i \in 1 .. n : all[i] = above[i]
  <2> DEFINE k == n + 1
  <2>2. k \in 1 .. n + m /\ ~ (k <= n) /\ k - n = 1
    BY <1>1
  <2> HIDE DEF k
  <2>3. all[k] = below[k - n]
    BY <1>2, <2>2
  <2>1. all[n + 1] = below[1]
    BY <2>2, <2>3 DEF k
  <2> QED BY <1>2, <1>3, <2>1
<1>6. n + 1 \in cuts /\ \A i \in 1 .. n : i \notin cuts
  <2>1. IsQuoteBoundaryLine(all[n + 1]) /\ \A i \in 1 .. n : ~ IsQuoteBoundaryLine(all[i])
    BY <1>5 DEF n
  <2> QED BY <1>2, <1>4, <2>1
<1>7. cuts \in SUBSET Nat /\ cuts # {}
  <2>1. cuts \in SUBSET Nat
    BY <1>1, <1>2
  <2> QED BY <1>6, <2>1
<1>8. cut = Min(cuts)
  BY <1>7 DEF SelectInSeq
<1> HIDE DEF cut
<1>9. cut \in cuts /\ \A i \in cuts : cut <= i
  <2> HIDE DEF cuts
  <2> QED BY <1>7, <1>8, FirstPlace
<1>10. cut = n + 1
  <2>1. cut \in Nat /\ cut <= n + 1 /\ cut \notin 1 .. n /\ cut >= 1
    BY <1>6, <1>7, <1>9
  <2> HIDE DEF cuts
  <2> QED BY <1>1, <2>1
<1>11. SubSeq(all, 1, cut - 1) = above
  <2>1. cut - 1 = n
    BY <1>1, <1>10
  <2> DEFINE s == SubSeq(all, 1, n)
  <2>2. /\ s \in Seq(V) /\ Len(s) = n
        /\ \A i \in 1 .. n : s[i] = all[i]
    <3>1. 1 \in Int /\ n \in Int /\ \A i \in 1 .. n : all[i] \in V
      BY <1>1, <1>2, <1>3, ElementOfSeq
    <3>2. /\ s \in Seq(V)
          /\ Len(s) = IF 1 <= n THEN n - 1 + 1 ELSE 0
          /\ \A i \in 1 .. n - 1 + 1 : s[i] = all[1 + i - 1]
      BY <3>1, SubSeqProperties
    <3> HIDE DEF s
    <3>3. Len(s) = n
      BY <1>1, <3>2
    <3>4. \A i \in 1 .. n : i \in 1 .. n - 1 + 1 /\ 1 + i - 1 = i
      BY <1>1
    <3> QED BY <3>2, <3>3, <3>4
  <2> HIDE DEF s
  <2>3. s = above
    BY <1>5, <2>2, SeqEqual DEF n
  <2> QED BY <2>1, <2>3 DEF s
<1>12. SubSeq(all, cut, Len(all)) = below
  <2> DEFINE k == n + 1
             l == n + m
             s == SubSeq(all, k, l)
  <2>1. /\ k \in Int /\ l \in Int /\ k <= l /\ l - k + 1 = m
        /\ \A i \in k .. l : i \in 1 .. l
        /\ \A i \in 1 .. m : k + i - 1 = n + i /\ n + i \in 1 .. l /\ ~ (n + i <= n) /\ n + i - n = i
    BY <1>1
  <2>2. \A i \in k .. l : all[i] \in V
    BY <1>2, <2>1, ElementOfSeq
  <2> HIDE DEF k, l
  <2>3. /\ s \in Seq(V)
        /\ Len(s) = IF k <= l THEN l - k + 1 ELSE 0
        /\ \A i \in 1 .. l - k + 1 : s[i] = all[k + i - 1]
    BY <2>1, <2>2, SubSeqProperties
  <2> HIDE DEF s
  <2>4. Len(s) = m /\ \A i \in 1 .. m : s[i] = all[n + i]
    BY <2>1, <2>3
  <2>5. \A i \in 1 .. m : all[n + i] = below[i]
    <3> TAKE i \in 1 .. m
    <3> DEFINE j == n + i
    <3>1. j \in 1 .. n + m /\ ~ (j <= n) /\ j - n = i
      BY <1>1
    <3> HIDE DEF j
    <3>2. all[j] = below[j - n]
      BY <1>2, <3>1
    <3> QED BY <3>1, <3>2 DEF j
  <2>6. s = below
    BY <2>3, <2>4, <2>5, SeqEqual DEF m
  <2> QED BY <1>2, <1>10, <2>6 DEF k, l, s
<1>13. cut # 0
  BY <1>1, <1>10
<1>14. SplitQuotedBody(all) =
          IF cut = 0 \/ FlattenSeq(SubSeq(all, 1, cut - 1)) = <<>> THEN Split(all, <<>>)
          ELSE Split(SubSeq(all, 1, cut - 1), SubSeq(all, cut, Len(all)))
  BY DEF SplitQuotedBody, cut
<1> QED BY <1>11, <1>12, <1>13, <1>14 DEF all

\* The lines with text hold what all the lines hold.
LEMMA WordsOfLines ==
    ASSUME NEW E, Nl \in E, NEW s \in Seq(E), NEW F, Seq(E) \ {<<>>} \subseteq F
    PROVE  LET kept == Only(SplitLines(s), F)
           IN /\ kept \in Seq(Seq(E))
              /\ FlattenSeq(kept) = Only(s, E \ {Nl})
              /\ Words(kept) = Only(s, Terms)
<1> DEFINE lines == SplitLines(s)
           V == Seq(E)
<1>1. lines \in Seq(V)
  <2>1. lines \in SomeLines(E)
    BY SplitLinesAppend
  <2> QED BY <2>1 DEF SomeLines
<1>2. FlattenSeq(lines) = Only(s, E \ {Nl})
  BY SplitFlat
<1>3. Only(FlattenSeq(lines), Terms) = Only(s, Terms)
  <2>1. Nl \notin Terms
    BY MarkupApart
  <2> QED BY <2>1, SplitWords
<1> HIDE DEF lines
<1>4. ToSet(lines) \ {<<>>} \subseteq F
  <2>1. \A k \in DOMAIN lines : lines[k] \in V
    BY <1>1, ElementOfSeq, LenProperties
  <2>2. ToSet(lines) \subseteq V
    BY <2>1 DEF ToSet
  <2> QED BY <2>2
<1>5. FlattenSeq(Only(lines, F)) = FlattenSeq(lines)
  BY <1>1, <1>4, FlattenSome
<1>6. Only(lines, F) \in Seq(V)
  <2> HIDE DEF V
  <2> QED BY <1>1, OnlyType
<1> QED BY <1>2, <1>3, <1>5, <1>6 DEF Words, Terms, lines

\* The lines of an HTML mail that have text.
Filled == Seq(Marked) \ {<<>>}
LEMMA KeptLines ==
    ASSUME NEW doc, Read(doc).chunks \in Seq(Marked)
    PROVE  SanitizeHtml(doc) = Only(SplitLines(Read(doc).chunks), Filled)
<1> DEFINE raw == Read(doc).chunks
           lines == SplitLines(raw)
           V == Seq(Marked)
           A == ToSet(lines) \ {<<>>}
<1>1. SanitizeHtml(doc) = Only(SplitLines(Substitute(raw, TagEnd, LAMBDA match : <<>>)),
                               ToSet(SplitLines(Substitute(raw, TagEnd, LAMBDA match : <<>>)))
                                   \ {<<>>})
  BY DEF SanitizeHtml, Read
<1> HIDE DEF raw
<1>2. Substitute(raw, TagEnd, LAMBDA match : <<>>) = raw
  <2>1. raw \in Seq(Marked) /\ Lt \notin Marked
    BY DEF raw, Marked, Lt, Gt
  <2> QED BY <2>1, NoTagOut
<1>3. SanitizeHtml(doc) = Only(lines, A)
  BY <1>1, <1>2
<1>4. lines \in Seq(V)
  <2>1. raw \in Seq(Marked) /\ Nl \in Marked
    BY MarkupApart DEF raw
  <2>2. lines \in SomeLines(Marked)
    BY <2>1, SplitLinesAppend
  <2> QED BY <2>2 DEF SomeLines
<1> HIDE DEF lines
<1>5. ToSet(lines) \cap A = ToSet(lines) \cap Filled
  <2>1. \A k \in DOMAIN lines : lines[k] \in V
    BY <1>4, ElementOfSeq, LenProperties
  <2>2. ToSet(lines) \subseteq V
    BY <2>1 DEF ToSet
  <2> QED BY <2>2 DEF Filled
<1> HIDE DEF A, V
<1>6. Only(lines, A) = Only(lines, Filled)
  BY <1>4, <1>5, OnlySame
<1> QED BY <1>3, <1>6 DEF lines, raw

\* The words of an HTML document are the numbers of their places.
Numbered == kind = "html" => Placed(text)

LEMMA WordsNumbered == Spec => []Numbered
<1>1. Init => Numbered
  BY EmptySeq DEF Init, Numbered, Placed
<1>2. Written /\ Numbered /\ [Next]_vars => Numbered'
  <2> SUFFICES ASSUME Written, Numbered, [Next]_vars, kind' = "html" PROVE Placed(text)'
    BY DEF Numbered
  <2>1. CASE UNCHANGED vars
    BY <2>1 DEF Numbered, vars, Placed
  <2>2. CASE Character
    <3>1. PICK c \in Alphabet[kind] : Grow(IF c = 1 THEN Len(text) + 1 ELSE c)
      BY <2>2 DEF Character
    <3> DEFINE item == IF c = 1 THEN Len(text) + 1 ELSE c
    <3>2. kind' = kind /\ text' = Append(text, item)
      BY <3>1 DEF Grow
    <3>3. text \in Seq(Letters("html")) /\ Placed(text)
      BY <3>2 DEF Written, Numbered, Documents
    <3>4. Len(text) \in Nat /\ DOMAIN text = 1 .. Len(text)
      BY <3>3, LenProperties
    <3>5. item \in Letters("html") /\ (item > 0 => item = Len(text) + 1)
      <4>1. CASE c = 1
        BY <3>4, <4>1 DEF Letters
      <4>2. CASE c # 1
        <5>1. c \in {Nl} \cup OpenTags \cup CloseTags /\ c \in Letters("html")
          BY <3>1, <3>2, <4>2, AlphabetAssumption DEF Letters
        <5>2. ~ c > 0
          BY <5>1 DEF Nl, OpenTags, CloseTags, OpenBreak, OpenQuote, OpenSkip, CloseQuote,
                      CloseSkip
        <5> QED BY <4>2, <5>1, <5>2
      <4> QED BY <4>1, <4>2
    <3> DEFINE n == Len(text)
               d == Append(text, item)
    <3> HIDE DEF item
    <3>6. /\ DOMAIN d = 1 .. n + 1 /\ d[n + 1] = item /\ \A i \in 1 .. n : d[i] = text[i]
      BY <3>3, <3>5, AppendProperties, LenProperties
    <3>7. \A i \in 1 .. n + 1 : i = n + 1 \/ i \in 1 .. n
      BY <3>4
    <3> HIDE DEF n, d
    <3>8. Placed(d)
      BY <3>3, <3>4, <3>5, <3>6, <3>7 DEF Placed, n
    <3> QED BY <3>2, <3>8 DEF Placed, d
  <2>3. CASE Part \/ Piece \/ RunResponse \/ DigestRequest
    BY <2>3 DEF Part, Piece, RunResponse, DigestRequest, Grow, Lists
  <2> QED BY <2>1, <2>2, <2>3 DEF Next
<1> QED BY <1>1, <1>2, SamplesWritten, PTL DEF Spec

\* The request of an HTML mail is what is seen before its first visible quote, or
\* all of it when that is nothing, and the rest is its quote: for documents of any
\* length and any nesting (_TextExtractor and split_quoted_body of normalize.py).
THEOREM QuotesApart == Spec => []QuoteKeptApart
<1>1. ASSUME NEW doc \in Seq(Markup), Placed(doc)
      PROVE  LET parts == SplitQuotedBody(SanitizeHtml(doc))
                 request == IF Before(doc) = {} THEN Visible(doc) ELSE Before(doc)
             IN /\ Words(parts.request) = Order(doc, request)
                /\ Words(parts.blockquote) = Order(doc, Visible(doc) \ request)
  <2> DEFINE x == Read(doc)
             raw == x.chunks
             body == SanitizeHtml(doc)
             parts == SplitQuotedBody(body)
             all == Visible(doc)
             before == Before(doc)
  <2>1. /\ all \in SUBSET (1 .. Len(doc)) /\ before \in SUBSET (1 .. Len(doc))
        /\ {} \in SUBSET (1 .. Len(doc)) /\ all \ {} = all /\ all \ all = {}
    BY LenProperties DEF Visible, Before
  <2>2. Order(doc, {}) = <<>> /\ (Order(doc, before) = <<>> <=> before = {})
    BY <2>1, OrderSet
  <2>3. Words(<<>>) = <<>>
    <3>1. FlattenSeq(<<>>) = <<>>
      BY DEF FlattenSeq
    <3> QED BY <3>1, OnlyEmpty DEF Words
  <2>4. Apart(doc, x)
    BY <1>1, Parting
  <2>5. Nl \in Unmarked /\ Nl \in Marked /\ Gt \in Marked /\ Unmarked \subseteq Marked
        /\ Gt \notin Terms /\ Nl \notin Terms /\ Nl # Gt /\ Gt # Nl
    BY MarkupApart DEF Nl, Gt
  <2>6. Seq(Unmarked) \ {<<>>} \subseteq Filled /\ Seq(Marked) \ {<<>>} \subseteq Filled
    <3>1. Seq(Unmarked) \subseteq Seq(Marked)
      BY <2>5, Wider
    <3> QED BY <3>1 DEF Filled
  <2>7. CASE OneBody(doc, x)
    <3>1. raw \in Seq(Unmarked) /\ Only(raw, Terms) = Order(doc, all)
      BY <2>7 DEF OneBody
    <3>2. before = all
      BY <2>7 DEF OneBody, Before
    <3>3. body = Only(SplitLines(raw), Filled)
      <4>1. raw \in Seq(Marked)
        BY <2>5, <3>1, Wider
      <4> QED BY <4>1, KeptLines
    <3> HIDE DEF raw, all, before
    <3>4. body \in Seq(Seq(Unmarked)) /\ Words(body) = Only(raw, Terms)
      <4> HIDE DEF body
      <4> DEFINE kept == Only(SplitLines(raw), Filled)
      <4>1. kept \in Seq(Seq(Unmarked)) /\ Words(kept) = Only(raw, Terms)
        BY <2>5, <2>6, <3>1, WordsOfLines
      <4> HIDE DEF kept
      <4>2. body = kept
        BY <3>3 DEF kept
      <4> QED BY <4>1, <4>2
    <3> HIDE DEF body
    <3>5. \A i \in 1 .. Len(body) : ~ IsQuoteBoundaryLine(body[i])
      BY <3>4, ElementOfSeq, NoBoundary
    <3>6. parts = Split(body, <<>>)
      <4>1. SelectInSeq(body, IsQuoteBoundaryLine) = 0
        BY <3>5 DEF SelectInSeq
      <4> QED BY <4>1 DEF SplitQuotedBody
    <3>7. parts.request = body /\ parts.blockquote = <<>>
      BY <3>6 DEF Split
    <3> QED BY <2>1, <2>2, <2>3, <3>1, <3>2, <3>4, <3>7 DEF all, before, body
  <2>8. CASE \E a, b : TwoBodies(doc, x, a, b)
    <3>1. PICK a, b : TwoBodies(doc, x, a, b)
      BY <2>8
    <3>2. /\ a \in Seq(Unmarked) /\ b \in Seq(Marked)
          /\ raw = Append(Append(a, Nl), Gt) \o b
          /\ Only(a, Terms) = Order(doc, before)
          /\ Only(b, Terms) = Order(doc, all \ before)
      BY <3>1 DEF TwoBodies
    <3> HIDE DEF raw, all, before
    <3> DEFINE h == Append(a, Nl)
               m == <<Gt>> \o b
               top == SplitLines(a)
               low == SplitLines(m)
               above == Only(top, Filled)
               below == Only(low, Filled)
    <3>3. a \in Seq(Marked) /\ h \in Seq(Marked) /\ m \in Seq(Marked)
          /\ <<Gt>> \in Seq(Marked)
      <4>1. a \in Seq(Marked)
        BY <2>5, <3>2, Wider
      <4>2. h \in Seq(Marked)
        BY <2>5, <4>1, AppendProperties
      <4>3. <<Gt>> \in Seq(Marked)
        BY <2>5
      <4>4. m \in Seq(Marked)
        <5> DEFINE g == <<Gt>>
        <5>1. g \in Seq(Marked)
          BY <4>3
        <5> HIDE DEF g
        <5>2. g \o b \in Seq(Marked)
          BY <3>2, <5>1, ConcatProperties
        <5> QED BY <5>2 DEF g
      <4> QED BY <4>1, <4>2, <4>3, <4>4
    <3>4. raw = h \o m
      <4> DEFINE g == <<Gt>>
      <4>1. g \in Seq(Marked)
        BY <3>3
      <4>2. Append(h, Gt) = h \o g
        BY <2>5, <3>3, AppendIsConcat
      <4> HIDE DEF g, h
      <4>3. (h \o g) \o b = h \o (g \o b)
        BY <3>2, <3>3, <4>1, ConcatAssociative
      <4> QED BY <3>2, <4>2, <4>3 DEF g, h
    <3>5. SplitLines(raw) = top \o low
      <4> HIDE DEF m
      <4>1. SplitLines(h \o m) = top \o low
        BY <2>5, <3>3, SplitConcat
      <4> QED BY <3>4, <4>1
    <3>6. raw \in Seq(Marked)
      <4> HIDE DEF h, m
      <4> QED BY <3>3, <3>4, ConcatProperties
    <3>7. top \in Seq(Seq(Marked)) /\ low \in Seq(Seq(Marked)) /\ low # <<>>
          /\ low[1] # <<>> /\ low[1][1] = Gt
      <4>1. low \in SomeLines(Marked) /\ low[1] # <<>> /\ low[1][1] = Gt
        BY <2>5, <3>2, MarkFirst
      <4>2. top \in SomeLines(Marked)
        BY <2>5, <3>3, SplitLinesAppend
      <4> QED BY <4>1, <4>2 DEF SomeLines
    <3>8. body = Only(SplitLines(raw), Filled)
      BY <3>6, KeptLines DEF raw
    <3>9. /\ above \in Seq(Seq(Unmarked)) /\ Words(above) = Only(a, Terms)
          /\ FlattenSeq(above) = Only(a, Unmarked \ {Nl})
      BY <2>5, <2>6, <3>2, WordsOfLines
    <3>10. below \in Seq(Seq(Marked)) /\ Words(below) = Only(m, Terms)
      <4> HIDE DEF m
      <4> QED BY <2>5, <2>6, <3>3, WordsOfLines
    <3>11. Words(body) = Only(raw, Terms)
      <4> HIDE DEF body
      <4> DEFINE kept == Only(SplitLines(raw), Filled)
      <4>1. Words(kept) = Only(raw, Terms)
        BY <2>5, <2>6, <3>6, WordsOfLines
      <4> HIDE DEF kept
      <4>2. body = kept
        BY <3>8 DEF kept
      <4> QED BY <4>1, <4>2
    <3>12. body = above \o below
      <4> DEFINE V == Seq(Marked)
      <4> HIDE DEF top, low, V
      <4>1. top \in Seq(V) /\ low \in Seq(V)
        BY <3>7 DEF V
      <4>2. Only(top \o low, Filled) = Only(top, Filled) \o Only(low, Filled)
        BY <4>1, OnlyConcat
      <4> QED BY <3>5, <3>8, <4>2
    <3>13. below # <<>> /\ below[1] = low[1]
      <4> DEFINE V == Seq(Marked)
      <4> HIDE DEF low, V
      <4>1. low \in Seq(V) /\ low # <<>> /\ low[1] \in Filled
        <5>1. low \in Seq(V) /\ low # <<>>
          BY <3>7 DEF V
        <5>2. 1 \in 1 .. Len(low)
          <6>1. Len(low) # 0 /\ Len(low) \in Nat
            BY <5>1, EmptySeq, LenProperties
          <6> QED BY <6>1
        <5>3. low[1] \in V
          BY <5>1, <5>2, ElementOfSeq
        <5> QED BY <3>7, <5>1, <5>3 DEF V, Filled
      <4> QED BY <4>1, OnlyFirst
    <3>14. IsQuoteBoundaryLine(below[1])
      BY <3>7, <3>13 DEF IsQuoteBoundaryLine
    <3>15. Only(m, Terms) = Order(doc, all \ before)
      <4> DEFINE g == <<Gt>>
                 e == <<>>
      <4>1. g \in Seq(Marked) /\ g = Append(e, Gt) /\ e \in Seq(Marked)
        BY <3>3, EmptySeq
      <4>2. Only(e, Terms) = <<>>
        BY OnlyEmpty
      <4> HIDE DEF g, e
      <4>3. Only(g, Terms) = <<>>
        BY <2>5, <4>1, <4>2, OnlyAppend
      <4>4. Only(g \o b, Terms) = Only(g, Terms) \o Only(b, Terms)
        <5>1. b \in Seq(Marked) /\ g \in Seq(Marked)
          BY <3>2, <4>1
        <5> QED BY <5>1, OnlyConcat
      <4>5. <<>> \o Only(b, Terms) = Only(b, Terms)
        <5>1. Only(b, Terms) \in Seq(Marked)
          BY <3>2, OnlyType
        <5> QED BY <5>1, ConcatEmptySeq
      <4> QED BY <3>2, <4>3, <4>4, <4>5 DEF g
    <3>16. Only(raw, Terms) = Order(doc, before) \o Order(doc, all \ before)
      <4> HIDE DEF h, m
      <4>1. Only(h \o m, Terms) = Only(h, Terms) \o Only(m, Terms)
        BY <3>3, OnlyConcat
      <4>2. Only(h, Terms) = Only(a, Terms)
        BY <2>5, <3>3, OnlyAppend DEF h
      <4> QED BY <3>2, <3>4, <3>15, <4>1, <4>2
    <3>17. Order(doc, all \ before) \in Seq(Marked)
      BY <3>2, OnlyType
    <3>18. FlattenSeq(above) = <<>> <=> before = {}
      <4>1. Unmarked \ {Nl} = Terms
        BY DEF Unmarked, Terms, Nl
      <4> QED BY <2>2, <3>2, <3>9, <4>1
    <3> HIDE DEF body
    <3>19. /\ FlattenSeq(above) = <<>> => parts = Split(body, <<>>)
           /\ FlattenSeq(above) # <<>> => parts = Split(above, below)
      <4> DEFINE V == Seq(Marked)
      <4>1. above \in Seq(V)
        <5> DEFINE U == Seq(Unmarked)
        <5>1. U \subseteq V /\ above \in Seq(U)
          <6>1. U \subseteq V
            BY <2>5, Wider
          <6> QED BY <3>9, <6>1
        <5> HIDE DEF U, V, above
        <5> QED BY <5>1, Wider
      <4>2. \A i \in 1 .. Len(above) : ~ IsQuoteBoundaryLine(above[i])
        <5> HIDE DEF above
        <5> QED BY <3>9, ElementOfSeq, NoBoundary
      <4>3. below \in Seq(V)
        BY <3>10
      <4> HIDE DEF V, above, below
      <4> QED BY <3>12, <3>13, <3>14, <4>1, <4>2, <4>3, CutAt
    <3> HIDE DEF above, below, m, parts
    <3>20. CASE before = {}
      <4>1. parts.request = body /\ parts.blockquote = <<>>
        BY <3>18, <3>19, <3>20 DEF Split
      <4>2. Words(body) = Order(doc, all)
        <5>1. <<>> \o Order(doc, all \ before) = Order(doc, all \ before)
          BY <3>17, ConcatEmptySeq
        <5> QED BY <2>1, <2>2, <3>11, <3>16, <3>20, <5>1
      <4> QED BY <2>1, <2>2, <2>3, <3>20, <4>1, <4>2 DEF parts, body, all, before
    <3>21. CASE before # {}
      <4>1. parts.request = above /\ parts.blockquote = below
        BY <3>18, <3>19, <3>21 DEF Split
      <4> QED BY <3>2, <3>9, <3>10, <3>15, <3>21, <4>1 DEF parts, body, all, before
    <3> QED BY <3>20, <3>21
  <2> QED BY <2>4, <2>7, <2>8 DEF Apart
<1>2. Written /\ Numbered => QuoteKeptApart
  <2> SUFFICES ASSUME Written, Numbered, kind = "html" PROVE QuoteKeptApart
    BY DEF QuoteKeptApart
  <2>1. Letters("html") \subseteq Markup
    <3>1. 1 \in Nat /\ Nl \in Nat
      BY DEF Nl
    <3> QED BY <3>1, AlphabetAssumption DEF Letters, Markup
  <2>2. text \in Seq(Markup) /\ Placed(text)
    <3>1. text \in Seq(Letters("html"))
      BY DEF Written, Documents
    <3> QED BY <2>1, <3>1, Wider DEF Numbered
  <2> DEFINE before == {i \in Visible(text) : \A j \in Visible(text) : j <= i => ~ Quoted(text, j)}
  <2>3. before = Before(text) /\ \A set : InOrder(set) = Order(text, set)
    BY DEF Before, InOrder, Order
  <2> HIDE DEF before
  <2>4. LET parts == SplitQuotedBody(SanitizeHtml(text))
            request == IF before = {} THEN Visible(text) ELSE before
        IN /\ Words(parts.request) = InOrder(request)
           /\ Words(parts.blockquote) = InOrder(Visible(text) \ request)
    BY <1>1, <2>2, <2>3
  <2> QED BY <2>4 DEF QuoteKeptApart, before
<1> QED BY <1>2, SamplesWritten, WordsNumbered, PTL
=============================================================================
