----------------------------- MODULE DigestBody -----------------------------
(***************************************************************************)
(* The body of the digest mail, from the request of POST /v1/emails/send:  *)
(* a list of tickets, the fields of one ticket, or a text that may itself  *)
(* be a JSON list of tickets.                                              *)
(*                                                                         *)
(* A ticket is a function from its fields to their values, "" when a field *)
(* was left out; a body is the sequence of its blocks, a block the         *)
(* sequence of its lines.  A status is accepted, the tickets of an         *)
(* escalation have one, but none of the lines is made of it.               *)
(***************************************************************************)
EXTENDS Integers, Sequences, SequencesExt, Pattern

FieldOrder == <<"ticket_id", "user_id", "category", "created_at", "text">>
Fields == ToSet(FieldOrder) \cup {"status"}
Tickets == [Fields -> STRING]
NoFields == [field \in Fields |-> ""]

\* What a body is before it is read: absent or empty, a text, or JSON; a list
\* of tickets may hold an item that is no object, or one whose field has
\* another type, on which model_validate raises.
BodyKinds == {"absent", "text", "list", "mixed", "illTyped"}

\* _format_ticket_block: the fields of the order that were sent, in this order.
TicketBlock(ticket) ==
    LET sent == Only(FieldOrder, {field \in Fields : ticket[field] # ""})
    IN [i \in DOMAIN sent |-> <<sent[i], ticket[sent[i]]>>]

\* Mutant of DigestOf: tickets that were opened alike are told once.
DigestOfOnce(tickets) ==
    LET firsts == {i \in DOMAIN tickets :
                      \A j \in 1 .. i - 1 : tickets[j].category # tickets[i].category}
        blocks == [i \in DOMAIN tickets |->
                      IF i \in firsts THEN TicketBlock(tickets[i]) ELSE <<>>]
    IN Only(blocks, ToSet(blocks) \ {<<>>})

\* _format_digest_body
DigestOf(tickets) ==
    LET blocks == [i \in DOMAIN tickets |-> TicketBlock(tickets[i])]
    IN Only(blocks, ToSet(blocks) \ {<<>>})

Mailed(blocks) == [kind |-> "mail", blocks |-> blocks]
AsText == [kind |-> "text", blocks |-> <<>>]
Refused(reason) == [kind |-> reason, blocks |-> <<>>]

\* "listed" are the tickets of a body that is a JSON list, in which an empty
\* list counts as text.  A status beside the fields of one ticket is ignored:
\* SendEmailRequest has no such field.
Requests(lists) == [tickets : lists, flat : Tickets, body : BodyKinds, listed : lists]

ResolveBody(request) ==
    CASE request.body = "absent" -> Refused("missing_digest")
      [] request.body = "illTyped" -> Refused("raises")
      [] request.body = "list" /\ request.listed # <<>> -> Mailed(DigestOf(request.listed))
      [] OTHER -> AsText

HasFlatTicketFields(request) == \E field \in ToSet(FieldOrder) : request.flat[field] # ""

\* _resolve_smtp_body
ResolveSmtpBody(request) ==
    CASE request.tickets # <<>> -> Mailed(DigestOf(request.tickets))
      [] request.tickets = <<>> /\ HasFlatTicketFields(request) ->
           Mailed(DigestOf(<<request.flat>>))
      [] OTHER -> ResolveBody(request)
=============================================================================
