---------------------------- MODULE TicketBook ----------------------------
(***************************************************************************)
(* What the ticketing service promises its callers, with every operation   *)
(* atomic: an employee has one ticket at a time that is not closed, a      *)
(* message goes on the employee's own ticket, and a ticket is escalated    *)
(* once it is old enough.  Ticketing implements this book for callers that *)
(* do not overlap two create-ticket calls of one employee.                 *)
(***************************************************************************)
EXTENDS Integers

CONSTANTS Users, Categories, TicketIds, MessageIds, Ages, MaxTime, None

VARIABLES
    book,       \* the tickets: who, what, since when, open or escalated
    notes,      \* the messages: on which ticket, in which role, by whom
    clock

bookVars == <<book, notes, clock>>

Opened == {t \in TicketIds : book[t] # None}
OpenedBy(u) == {t \in Opened : book[t].user = u}

BookInit ==
    /\ book = [t \in TicketIds |-> None]
    /\ notes = [m \in MessageIds |-> None]
    /\ clock = 0

\* The ticket's date is the time of its INSERT, not later than now.
OpenTicket(t, u, c, at) ==
    /\ t \notin Opened
    /\ OpenedBy(u) = {}
    /\ at <= clock
    /\ book' = [book EXCEPT ![t] =
          [user |-> u, category |-> c, status |-> "open", created |-> at]]
    /\ UNCHANGED <<notes, clock>>

AddNote(m, t, r, u) ==
    /\ t \in OpenedBy(u)
    /\ notes[m] = None
    /\ notes' = [notes EXCEPT ![m] = [ticket |-> t, role |-> r, by |-> u]]
    /\ UNCHANGED <<book, clock>>

\* One run escalates a set of tickets, all or nothing.
EscalateAll(batch) ==
    /\ \A t \in batch : /\ t \in Opened
                        /\ book[t].status = "open"
                        /\ \E age \in Ages : book[t].created + age < clock
    /\ book' = [t \in TicketIds |->
          IF t \in batch THEN [book[t] EXCEPT !.status = "escalated"] ELSE book[t]]
    /\ UNCHANGED <<notes, clock>>

TurnClock ==
    /\ clock < MaxTime
    /\ clock' = clock + 1
    /\ UNCHANGED <<book, notes>>

BookNext ==
    \/ \E t \in TicketIds, u \in Users, c \in Categories, at \in 0 .. MaxTime :
          OpenTicket(t, u, c, at)
    \/ \E m \in MessageIds, t \in TicketIds, r \in {"user", "agent"}, u \in Users :
          AddNote(m, t, r, u)
    \/ \E batch \in SUBSET TicketIds : EscalateAll(batch)
    \/ TurnClock

BookSpec == BookInit /\ [][BookNext]_bookVars
=============================================================================
