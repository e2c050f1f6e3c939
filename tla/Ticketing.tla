----------------------------- MODULE Ticketing -----------------------------
(***************************************************************************)
(* The ticketing service: three MCP tools (create-ticket, list-my-tickets, *)
(* append-message) and the private HTTP route escalate-stale, all served   *)
(* by one asyncio process on one PostgreSQL database.                      *)
(*                                                                         *)
(* Every call is a unit of work on a session of its own.  The process      *)
(* yields at each await, so the SELECT, the UPDATEs of the flush and the   *)
(* COMMIT of different sessions interleave.  The database runs in its      *)
(* default isolation, READ COMMITTED: a SELECT sees what is committed when *)
(* it runs, an UPDATE by primary key takes the row's lock, waits for       *)
(* another holder, and then writes its columns over whatever is there.     *)
(***************************************************************************)
EXTENDS Integers, FiniteSets

CONSTANTS
    Users,             \* user ids (sender mailboxes) that are not blank
    Categories,        \* TicketCategory
    TicketIds,         \* ids new_id() may give a ticket; a bound on tickets
    MessageIds,        \* ids new_id() may give a message; a bound on messages
    Sessions,          \* units of work that may be live at once
    Ages,              \* thresholds a call of escalate-stale may end up with
    EscalationSeconds, \* Settings.escalation_seconds, the default threshold
    MaxTime,           \* bound on the clock
    None               \* no row, no id, an argument that was left out

Statuses == {"open", "escalated", "answered", "closed"}
Roles == {"user", "agent"}
Listed == {"open", "escalated", "answered"}     \* DEFAULT_LIST_STATUSES
Blank == "blank"                                \* a user_id that strips to ""
Unknown == "unknown"                            \* an enum value nobody declared
Time == 0 .. MaxTime

TicketRow == [user : Users, category : Categories, status : Statuses,
              created : Time, updated : Time]

\* A ticket as the abstract book of TicketBook shows it: all but updated_at.
ShownRow == [user : Users, category : Categories, status : Statuses, created : Time]

\* "by" is the scope user_id of the append that wrote the row: history, not
\* a column of the table.
MessageRow == [ticket : TicketIds, role : Roles, by : Users]

ASSUME IdsAssumption ==
    /\ TicketIds \subseteq Nat
    /\ TicketIds \cap MessageIds = {}
    /\ None \notin TicketIds /\ None \notin MessageIds
    /\ None \notin TicketRow /\ None \notin ShownRow /\ None \notin MessageRow

ASSUME ClockAssumption ==
    /\ MaxTime \in Nat
    /\ Ages \subseteq Nat
    /\ EscalationSeconds \in Ages

ASSUME UsersAssumption ==
    /\ Blank \notin Users
    /\ Unknown \notin Categories

VARIABLES
    tickets,    \* committed rows of the tickets table
    messages,   \* committed rows of the messages table
    now,        \* utcnow(), the one clock of the service
    pc,         \* where a session is in its unit of work
    call,       \* the arguments of the call it serves
    fresh,      \* the uuid of the row it is about to insert
    view,       \* the tickets its SELECT loaded for update
    locked,     \* the rows it has updated and not yet committed
    stamp,      \* the utcnow() it holds
    reply       \* the answer its caller has not read yet

dbVars == <<tickets, messages>>
sessionVars == <<pc, call, fresh, view, locked, stamp, reply>>
vars == <<tickets, messages, now, pc, call, fresh, view, locked, stamp, reply>>

Ops == {"none", "create", "list", "append", "escalate"}
Codes == {"FORBIDDEN", "NOT_ELIGIBLE", "CONFLICT", "NOT_FOUND", "failed"}
ReplyKinds == {"none", "created", "listed", "appended", "escalated"} \cup Codes

\* The arguments of a call: those a tool does not take are None, {} or 0.
Args(op, u, c, t, r, statuses, age) ==
    [op |-> op, user |-> u, category |-> c, ticket |-> t, role |-> r,
     statuses |-> statuses, age |-> age]
NoCall == Args("none", None, None, None, None, {}, 0)
CreateArgs(u, c) == Args("create", u, c, None, None, {}, 0)
ListArgs(u, statuses) == Args("list", u, None, None, None, statuses, 0)
AppendArgs(u, t, r) == Args("append", u, None, t, r, {}, 0)
EscalateArgs(age) == Args("escalate", None, None, None, None, {}, age)

Answer(kind, id, rows) == [kind |-> kind, id |-> id, rows |-> rows]
NoReply == Answer("none", None, {})
Refused(code) == Answer(code, None, {})

Stored == {t \in TicketIds : tickets[t] # None}
StoredMessages == {m \in MessageIds : messages[m] # None}
Reserved == {fresh[s] : s \in Sessions}

TypeOK ==
    /\ tickets \in [TicketIds -> TicketRow \cup {None}]
    /\ messages \in [MessageIds -> MessageRow \cup {None}]
    /\ now \in Time
    /\ pc \in [Sessions -> {"idle", "select", "flush", "commit"}]
    /\ call \in [Sessions ->
          [op : Ops, user : Users \cup {None}, category : Categories \cup {None},
           ticket : TicketIds \cup {None}, role : Roles \cup {None},
           statuses : SUBSET Statuses, age : Nat]]
    /\ fresh \in [Sessions -> TicketIds \cup MessageIds \cup {None}]
    /\ view \in [Sessions -> SUBSET TicketIds]
    /\ locked \in [Sessions -> SUBSET TicketIds]
    /\ stamp \in [Sessions -> Time]
    /\ reply \in [Sessions ->
          [kind : ReplyKinds, id : TicketIds \cup MessageIds \cup {None},
           rows : SUBSET TicketIds]]

Init ==
    /\ tickets = [t \in TicketIds |-> None]
    /\ messages = [m \in MessageIds |-> None]
    /\ now = 0
    /\ pc = [s \in Sessions |-> "idle"]
    /\ call = [s \in Sessions |-> NoCall]
    /\ fresh = [s \in Sessions |-> None]
    /\ view = [s \in Sessions |-> {}]
    /\ locked = [s \in Sessions |-> {}]
    /\ stamp = [s \in Sessions |-> 0]
    /\ reply = [s \in Sessions |-> NoReply]

----------------------------------------------------------------------------
(* How a unit of work begins and ends. *)

Free(s) == pc[s] = "idle" /\ reply[s] = NoReply

\* The call is refused before its first await: nothing reached the database.
Refuse(s, code) ==
    /\ reply' = [reply EXCEPT ![s] = Refused(code)]
    /\ UNCHANGED <<dbVars, now, pc, call, fresh, view, locked>>

\* The call reaches its first SELECT.
Start(s, arguments, id) ==
    /\ pc' = [pc EXCEPT ![s] = "select"]
    /\ call' = [call EXCEPT ![s] = arguments]
    /\ fresh' = [fresh EXCEPT ![s] = id]
    /\ UNCHANGED <<dbVars, now, view, locked, reply>>

\* The session is closed and the caller has, or is about to read, answer a.
Close(s, a) ==
    /\ pc' = [pc EXCEPT ![s] = "idle"]
    /\ call' = [call EXCEPT ![s] = NoCall]
    /\ fresh' = [fresh EXCEPT ![s] = None]
    /\ view' = [view EXCEPT ![s] = {}]
    /\ locked' = [locked EXCEPT ![s] = {}]
    /\ stamp' = [stamp EXCEPT ![s] = 0]
    /\ reply' = [reply EXCEPT ![s] = a]

\* The SELECT loaded the rows in "loaded"; the ORM holds changes to flush.
Loaded(s, loaded) ==
    /\ pc' = [pc EXCEPT ![s] = "flush"]
    /\ view' = [view EXCEPT ![s] = loaded]
    /\ UNCHANGED <<dbVars, now, call, fresh, locked>>

----------------------------------------------------------------------------
(* create-ticket *)

CallCreate(s, u, c) ==
    /\ Free(s)
    /\ \/ u = Blank /\ Refuse(s, "FORBIDDEN")
       \/ u # Blank /\ c = Unknown /\ Refuse(s, "NOT_ELIGIBLE")
       \/ /\ u # Blank /\ c # Unknown
          /\ \E id \in TicketIds \ (Stored \cup Reserved) :
                Start(s, CreateArgs(u, c), id)
    /\ UNCHANGED stamp

\* Mutant of ActiveOf: a ticket stops counting once it is escalated.
ActiveOfOpenOnly(u) ==
    {t \in Stored : tickets[t].user = u /\ tickets[t].status = "open"}

ActiveOf(u) == {t \in Stored : tickets[t].user = u /\ tickets[t].status # "closed"}

SelectActive(s) ==
    /\ pc[s] = "select" /\ call[s].op = "create"
    /\ \/ /\ ActiveOf(call[s].user) # {}
          /\ Close(s, Refused("CONFLICT"))
          /\ UNCHANGED <<dbVars, now>>
       \/ /\ ActiveOf(call[s].user) = {}
          /\ Loaded(s, {})
          /\ UNCHANGED <<stamp, reply>>

\* Mutant of FlushTicket: the tool answers before the COMMIT.
FlushTicketAnswers(s) ==
    /\ pc[s] = "flush" /\ call[s].op = "create"
    /\ pc' = [pc EXCEPT ![s] = "commit"]
    /\ stamp' = [stamp EXCEPT ![s] = now]
    /\ reply' = [reply EXCEPT ![s] = Answer("created", fresh[s], {})]
    /\ UNCHANGED <<dbVars, now, call, fresh, view, locked>>

\* INSERT INTO tickets: created_at and updated_at take their default here.
FlushTicket(s) ==
    /\ pc[s] = "flush" /\ call[s].op = "create"
    /\ pc' = [pc EXCEPT ![s] = "commit"]
    /\ stamp' = [stamp EXCEPT ![s] = now]
    /\ UNCHANGED <<dbVars, now, call, fresh, view, locked, reply>>

CommitCreate(s) ==
    /\ pc[s] = "commit" /\ call[s].op = "create"
    /\ tickets' = [tickets EXCEPT ![fresh[s]] =
          [user |-> call[s].user, category |-> call[s].category,
           status |-> "open", created |-> stamp[s], updated |-> stamp[s]]]
    /\ \E a \in {Answer("created", fresh[s], {}), Refused("failed")} : Close(s, a)
    /\ UNCHANGED <<messages, now>>

----------------------------------------------------------------------------
(* list-my-tickets *)

CallList(s, u, statuses) ==
    /\ Free(s)
    /\ LET filter == IF statuses = None THEN Listed ELSE statuses
       IN \/ u = Blank /\ Refuse(s, "FORBIDDEN")
          \/ u # Blank /\ Unknown \in filter /\ Refuse(s, "NOT_ELIGIBLE")
          \/ /\ u # Blank /\ filter = {}
             /\ reply' = [reply EXCEPT ![s] = Answer("listed", None, {})]
             /\ UNCHANGED <<dbVars, now, pc, call, fresh, view, locked>>
          \/ /\ u # Blank /\ filter # {} /\ Unknown \notin filter
             /\ Start(s, ListArgs(u, filter), None)
    /\ UNCHANGED stamp

\* ORDER BY updated_at DESC: "id" is the row the caller reads first.
SelectMine(s) ==
    /\ pc[s] = "select" /\ call[s].op = "list"
    /\ LET mine == {t \in Stored : /\ tickets[t].user = call[s].user
                                   /\ tickets[t].status \in call[s].statuses}
       IN \/ mine = {} /\ Close(s, Answer("listed", None, {}))
          \/ \E t \in mine :
                /\ \A other \in mine : tickets[other].updated <= tickets[t].updated
                /\ Close(s, Answer("listed", t, mine))
    /\ UNCHANGED <<dbVars, now>>

----------------------------------------------------------------------------
(* append-message *)

\* Mutant of CallAppend: the role is stored as it came.
CallAppendAnyRole(s, u, t, r) ==
    /\ Free(s)
    /\ \/ u = Blank /\ Refuse(s, "FORBIDDEN")
       \/ /\ u # Blank
          /\ \E id \in MessageIds \ (StoredMessages \cup Reserved) :
                Start(s, AppendArgs(u, t, r), id)
    /\ UNCHANGED stamp

\* MessageRole(role) raises before the service sees the call.
CallAppend(s, u, t, r) ==
    /\ Free(s)
    /\ \/ r = Unknown /\ Refuse(s, "failed")
       \/ r # Unknown /\ u = Blank /\ Refuse(s, "FORBIDDEN")
       \/ /\ r # Unknown /\ u # Blank
          /\ \E id \in MessageIds \ (StoredMessages \cup Reserved) :
                Start(s, AppendArgs(u, t, r), id)
    /\ UNCHANGED stamp

\* Mutant of InScope: any employee's ticket will do.
InScopeOfAnyone(u, t) == t \in Stored

InScope(u, t) == t \in Stored /\ tickets[t].user = u

SelectTicket(s) ==
    /\ pc[s] = "select" /\ call[s].op = "append"
    /\ \/ /\ ~ InScope(call[s].user, call[s].ticket)
          /\ Close(s, Refused("NOT_FOUND"))
          /\ UNCHANGED <<dbVars, now>>
       \/ /\ InScope(call[s].user, call[s].ticket)
          /\ Loaded(s, {call[s].ticket})
          /\ stamp' = [stamp EXCEPT ![s] = now]
          /\ UNCHANGED reply

\* Mutant of TouchedRow: a follow-up reopens its ticket.
TouchedRowReopened(row, at) == [row EXCEPT !.updated = at, !.status = "open"]

TouchedRow(row, at) == [row EXCEPT !.updated = at]

CommitAppend(s) ==
    /\ pc[s] = "commit" /\ call[s].op = "append"
    /\ messages' = [messages EXCEPT ![fresh[s]] =
          [ticket |-> call[s].ticket, role |-> call[s].role, by |-> call[s].user]]
    /\ tickets' = [tickets EXCEPT ![call[s].ticket] = TouchedRow(@, stamp[s])]
    /\ \E a \in {Answer("appended", fresh[s], {}), Refused("failed")} : Close(s, a)
    /\ UNCHANGED now

----------------------------------------------------------------------------
(* POST /v1/tickets/escalate-stale *)

CallEscalate(s, older) ==
    /\ Free(s)
    /\ Start(s, EscalateArgs(IF older = None THEN EscalationSeconds ELSE older), None)
    /\ stamp' = [stamp EXCEPT ![s] = now]

\* Mutant of Stale: the cutoff is inclusive.
StaleInclusive(cutoff) ==
    {t \in Stored : tickets[t].status = "open" /\ tickets[t].created <= cutoff}

\* Mutant of Stale: an escalated ticket is found again.
StaleAnyStatus(cutoff) == {t \in Stored : tickets[t].created < cutoff}

Stale(cutoff) ==
    {t \in Stored : tickets[t].status = "open" /\ tickets[t].created < cutoff}

\* The handler returns and the response goes out; get_db_session commits
\* after its yield, when the response has been sent.
SelectStale(s) ==
    /\ pc[s] = "select" /\ call[s].op = "escalate"
    /\ LET stale == Stale(stamp[s] - call[s].age)
       IN /\ Loaded(s, stale)
          /\ reply' = [reply EXCEPT ![s] = Answer("escalated", None, stale)]
    /\ stamp' = [stamp EXCEPT ![s] = now]

\* Mutant of EscalatedRow: the wrong column gets the time of the change.
EscalatedRowRestarted(row, at) ==
    [row EXCEPT !.status = "escalated", !.created = at]

\* Mutant of EscalatedRow: only the time of the update is set.
EscalatedRowTouched(row, at) == [row EXCEPT !.updated = at]

EscalatedRow(row, at) == [row EXCEPT !.status = "escalated", !.updated = at]

\* Mutant of CommitEscalate: one UPDATE ... WHERE finds its rows anew.
CommitEscalateReselects(s) ==
    /\ pc[s] = "commit" /\ call[s].op = "escalate"
    /\ tickets' = [t \in TicketIds |->
          IF t \in Stale(now - call[s].age) THEN EscalatedRow(tickets[t], stamp[s])
          ELSE tickets[t]]
    /\ Close(s, reply[s])
    /\ UNCHANGED <<messages, now>>

CommitEscalate(s) ==
    /\ pc[s] = "commit" /\ call[s].op = "escalate"
    /\ tickets' = [t \in TicketIds |->
          IF t \in view[s] THEN EscalatedRow(tickets[t], stamp[s]) ELSE tickets[t]]
    /\ Close(s, reply[s])
    /\ UNCHANGED <<messages, now>>

----------------------------------------------------------------------------
(* Steps that append and escalate share. *)

\* Mutant of Unflushed: an object stays dirty when its UPDATE has been sent.
UnflushedStaysDirty(s) == view[s]

Unflushed(s) == view[s] \ locked[s]

HeldByOther(s, t) == \E other \in Sessions \ {s} : t \in locked[other]

\* Mutant of FlushRow: the rows are updated in the order the SELECT gave them.
FlushRowUnordered(s) ==
    /\ pc[s] = "flush"
    /\ \E t \in Unflushed(s) :
          /\ ~ HeldByOther(s, t)
          /\ locked' = [locked EXCEPT ![s] = @ \cup {t}]
    /\ UNCHANGED <<dbVars, now, pc, call, fresh, view, stamp, reply>>

\* The unit of work emits its UPDATEs in primary-key order, one statement per
\* row; each waits for the row's lock.
FlushRow(s) ==
    /\ pc[s] = "flush"
    /\ \E t \in Unflushed(s) :
          /\ \A other \in Unflushed(s) : t <= other
          /\ ~ HeldByOther(s, t)
          /\ locked' = [locked EXCEPT ![s] = @ \cup {t}]
    /\ UNCHANGED <<dbVars, now, pc, call, fresh, view, stamp, reply>>

FlushDone(s) ==
    /\ pc[s] = "flush" /\ call[s].op # "create"
    /\ Unflushed(s) = {}
    /\ pc' = [pc EXCEPT ![s] = "commit"]
    /\ UNCHANGED <<dbVars, now, call, fresh, view, locked, stamp, reply>>

\* A statement fails or the process dies: the database rolls back.  A caller
\* whose response has left keeps it, the others get an error.
Rollback(s) ==
    /\ pc[s] # "idle"
    /\ LET responded == call[s].op = "escalate" /\ pc[s] # "select"
       IN \/ ~ (responded /\ reply[s] = NoReply) /\ Close(s, Refused("failed"))
          \/ responded /\ Close(s, reply[s])
    /\ UNCHANGED <<dbVars, now>>

----------------------------------------------------------------------------
(* The surroundings. *)

\* The caller reads its response; a response may leave before its session ends.
ReadReply(s) ==
    /\ reply[s] # NoReply
    /\ reply' = [reply EXCEPT ![s] = NoReply]
    /\ UNCHANGED <<dbVars, now, pc, call, fresh, view, locked, stamp>>

Tick ==
    /\ now < MaxTime
    /\ now' = now + 1
    /\ UNCHANGED <<dbVars, sessionVars>>

\* The "statuses" arguments callers are given to choose from.
Filters == {None, {}, {"open"}, {Unknown}}

Call(s) ==
    \/ \E u \in Users \cup {Blank}, c \in Categories \cup {Unknown} : CallCreate(s, u, c)
    \/ \E u \in Users \cup {Blank}, f \in Filters : CallList(s, u, f)
    \/ \E u \in Users \cup {Blank}, t \in TicketIds, r \in Roles \cup {Unknown} :
          CallAppend(s, u, t, r)
    \/ \E older \in Ages \cup {None} : CallEscalate(s, older)

Work(s) ==
    \/ SelectActive(s) \/ FlushTicket(s) \/ CommitCreate(s)
    \/ SelectMine(s)
    \/ SelectTicket(s) \/ CommitAppend(s)
    \/ SelectStale(s) \/ CommitEscalate(s)
    \/ FlushRow(s) \/ FlushDone(s)

Next ==
    \/ Tick
    \/ \E s \in Sessions : Call(s) \/ Work(s) \/ Rollback(s) \/ ReadReply(s)

Spec == Init /\ [][Next]_vars

\* Callers that never have two create-ticket calls of one user in flight.
Creating(s) == pc[s] # "idle" /\ call[s].op = "create"
OneCreator ==
    \A s1, s2 \in Sessions :
        (Creating(s1) /\ Creating(s2) /\ call[s1].user = call[s2].user) => s1 = s2
SerialNext == Next /\ OneCreator'
SerialSpec == Init /\ [][SerialNext]_vars

\* Every awaited statement returns; a lock queue serves its waiters in order.
Fairness ==
    \A s \in Sessions : /\ WF_vars(Work(s))
                        /\ SF_vars(FlushRow(s))
FairSpec == Spec /\ Fairness
----------------------------------------------------------------------------
(* Safety. *)

\* An employee has at most one ticket that is not closed, whatever create,
\* append and escalate calls do between a create's SELECT and its INSERT
\* (create_ticket's CONFLICT check).
OneActivePerUser ==
    \A t1, t2 \in Stored :
        /\ tickets[t1].user = tickets[t2].user
        /\ tickets[t1].status # "closed" /\ tickets[t2].status # "closed"
        => t1 = t2

\* A message sits on a stored ticket of the employee whose call wrote it,
\* although the scope was checked before the row was locked
\* (_require_ticket_for_scope).
MessageScope ==
    \A m \in StoredMessages :
        /\ messages[m].ticket \in Stored
        /\ tickets[messages[m].ticket].user = messages[m].by

\* A ticket that is escalated outlived a threshold since its creation: no
\* append, and no overlapping run, lets a younger one through
\* (escalate_stale's cutoff).
EscalatedIsStale ==
    \A t \in Stored :
        tickets[t].status = "escalated" =>
            \E age \in Ages : tickets[t].created + age < now

\* A tool that answered "created" or "appended" has committed the row it
\* names (_run commits before it returns).
AckedIsDurable ==
    \A s \in Sessions :
        /\ reply[s].kind = "created" => reply[s].id \in Stored
        /\ reply[s].kind = "appended" => reply[s].id \in StoredMessages

\* s waits for other when the next row of its flush is locked by it.
WaitsFor(s, other) ==
    /\ pc[s] = "flush"
    /\ \E t \in Unflushed(s) : /\ \A u \in Unflushed(s) : t <= u
                              /\ t \in locked[other]

\* Overlapping flushes never wait for each other in a circle of two: the rows
\* are updated in key order.
NoDeadlock ==
    \A s1, s2 \in Sessions : s1 # s2 => ~ (WaitsFor(s1, s2) /\ WaitsFor(s2, s1))

----------------------------------------------------------------------------
(* The inductive invariant behind the safety properties. *)

\* What a session holds fits the call it serves.
SessionOK(s) ==
    /\ stamp[s] <= now
    /\ pc[s] = "idle" <=> call[s].op = "none"
    /\ pc[s] \in {"idle", "select"} => view[s] = {}
    /\ locked[s] \subseteq view[s]
    /\ pc[s] = "commit" => locked[s] = view[s]
    /\ call[s].op \in {"none", "list", "escalate"} => fresh[s] = None
    /\ call[s].op = "list" => pc[s] = "select"

CreateOK(s) ==
    call[s].op = "create" =>
        /\ call[s].user \in Users /\ call[s].category \in Categories
        /\ fresh[s] \in TicketIds \ Stored
        /\ view[s] = {}

AppendOK(s) ==
    call[s].op = "append" =>
        /\ call[s].user \in Users /\ call[s].role \in Roles
        /\ call[s].ticket \in TicketIds
        /\ fresh[s] \in MessageIds \ StoredMessages
        /\ pc[s] \in {"flush", "commit"} =>
              view[s] = {call[s].ticket} /\ InScope(call[s].user, call[s].ticket)

\* A ticket an escalation loaded is still stored, and was old enough.
EscalateOK(s) ==
    call[s].op = "escalate" =>
        /\ call[s].age \in Ages
        /\ \A t \in view[s] : t \in Stored /\ tickets[t].created + call[s].age < now

\* A uuid belongs to one session, a row lock too.
Unshared ==
    \A r1, r2 \in Sessions :
        r1 # r2 => /\ fresh[r1] = fresh[r2] => fresh[r1] = None
                   /\ locked[r1] \cap locked[r2] = {}

\* A session's locked rows come before the rows it has yet to lock.
LockOrder ==
    \A s \in Sessions : \A t \in locked[s], u \in Unflushed(s) : t < u

StatusOK == \A t \in Stored : tickets[t].status \in {"open", "escalated"}

IInv ==
    /\ TypeOK
    /\ \A s \in Sessions : SessionOK(s) /\ CreateOK(s) /\ AppendOK(s) /\ EscalateOK(s)
    /\ Unshared
    /\ LockOrder
    /\ StatusOK
    /\ MessageScope
    /\ EscalatedIsStale

\* With one creator per employee nothing can come between the SELECT that
\* found no active ticket and the INSERT.
NoneActive ==
    \A s \in Sessions :
        Creating(s) /\ pc[s] \in {"flush", "commit"} => ActiveOf(call[s].user) = {}

SerialInv ==
    /\ IInv
    /\ OneCreator
    /\ NoneActive
    /\ OneActivePerUser

----------------------------------------------------------------------------
(* Action properties. *)

StatusMove ==
    \A t \in Stored :
        \/ tickets'[t].status = tickets[t].status
        \/ tickets[t].status = "open" /\ tickets'[t].status = "escalated"

\* Without another system the only change of status is open to escalated: an
\* append holding a row it read earlier cannot take an escalation back.
StatusForward == [][StatusMove]_vars

KeepsHistory ==
    /\ \A t \in Stored : /\ tickets'[t] # None
                         /\ tickets'[t].user = tickets[t].user
                         /\ tickets'[t].category = tickets[t].category
                         /\ tickets'[t].created = tickets[t].created
    /\ \A m \in StoredMessages : messages'[m] = messages[m]

\* Owner, category and creation time of a ticket and every message are
\* written once and never lost, and a rolled back unit of work leaves no row.
HistoryKept == [][KeepsHistory]_vars

----------------------------------------------------------------------------
(* Liveness. *)

\* Every unit of work ends: no call waits for a row lock for ever.
CallsEnd == \A s \in Sessions : pc[s] # "idle" ~> pc[s] = "idle"

----------------------------------------------------------------------------
(* Refinement: the committed rows, without updated_at, are the book. *)

Shown(row) == [user |-> row.user, category |-> row.category,
               status |-> row.status, created |-> row.created]
Rows == [t \in TicketIds |-> IF tickets[t] = None THEN None ELSE Shown(tickets[t])]

Book == INSTANCE TicketBook WITH
    book <- Rows,
    notes <- messages,
    clock <- now

\* Serial creators see a book with atomic operations: the COMMIT is where a
\* call takes effect, and no overlap of SELECT, flush and COMMIT shows.
ImplementsBook == Book!BookSpec
=============================================================================
