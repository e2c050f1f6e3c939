------------------------------ MODULE Helpdesk ------------------------------
(***************************************************************************)
(* The workflow email_helpdesk between the gateway that posts mails to it  *)
(* and the ticketing service whose tools it calls.  A run classifies the   *)
(* mail, lists the sender's tickets, answers, and then appends to the      *)
(* ticket it found, or opens one when the knowledge base had no answer.    *)
(*                                                                         *)
(* The gateway waits for one run at a time, but a timeout, a 5xx answer or *)
(* a restart of the gateway leaves a run behind that goes on in Dify, and  *)
(* a tool node that gives up leaves a call behind that goes on in the      *)
(* service.  The next run then works beside what was left.                 *)
(***************************************************************************)
EXTENDS Ticketing

CONSTANTS
    Mails,        \* mails the workflow may be run for
    Sender,       \* the employee a mail came from
    Runs          \* workflow runs, started in order; a bound on them

ASSUME MailsAssumption == None \notin Mails /\ Sender \in [Mails -> Users]
ASSUME RunsAssumption == Runs \subseteq Nat /\ None \notin Runs /\ None \notin Sessions

VARIABLES
    job,        \* the run whose response the gateway waits for
    settled,    \* mails that were answered and marked
    step,       \* the node a run is at
    mail,       \* the mail a run was posted for
    ticket,     \* End's ticket_id
    conn,       \* the session answering the open tool call of a run
    notes,      \* messages the service told a run it appended
    had,        \* the sender's active tickets when the run was posted (history)
    stray,      \* runs of which something was left going on (history)
    maker       \* the run whose create-ticket took a ticket's id (history)

deskVars == <<job, settled>>
runVars == <<step, mail, ticket, conn, notes, had, stray, maker>>
allVars == <<vars, deskVars, runVars>>

Ended == {"canned", "done", "failed", "conflict"}
Steps == {"idle", "intent", "list", "decide", "create"} \cup Roles \cup Ended
User(r) == Sender[mail[r]]

DeskTypeOK ==
    /\ job \in Runs \cup {None}
    /\ settled \subseteq Mails /\ stray \subseteq Runs
    /\ step \in [Runs -> Steps] /\ mail \in [Runs -> Mails \cup {None}]
    /\ ticket \in [Runs -> TicketIds \cup {None}]
    /\ conn \in [Runs -> Sessions \cup {None}]
    /\ notes \in [Runs -> SUBSET MessageIds] /\ had \in [Runs -> SUBSET TicketIds]
    /\ maker \in [TicketIds -> Runs \cup {None}]

DeskInit ==
    /\ Init
    /\ job = None /\ settled = {} /\ stray = {}
    /\ step = [r \in Runs |-> "idle"] /\ mail = [r \in Runs |-> None]
    /\ ticket = [r \in Runs |-> None] /\ conn = [r \in Runs |-> None]
    /\ notes = [r \in Runs |-> {}] /\ had = [r \in Runs |-> {}]
    /\ maker = [t \in TicketIds |-> None]

----------------------------------------------------------------------------
(* The gateway.  How often it retries is the matter of Gateway: here a mail  *)
(* may be posted as long as it is not settled.                              *)

\* Mutant of Post: a second request is sent while the first is open.
PostHedged(m, r) ==
    /\ m \notin settled
    /\ step[r] = "idle" /\ \A other \in Runs : other < r => step[other] # "idle"
    /\ job' = r
    /\ step' = [step EXCEPT ![r] = "intent"]
    /\ mail' = [mail EXCEPT ![r] = m]
    /\ had' = [had EXCEPT ![r] = ActiveOf(Sender[m])]
    /\ UNCHANGED <<vars, settled, ticket, conn, notes, stray, maker>>

\* The blocking POST, of a mail that is new, comes again after a fault, or is
\* retried, starts a run.
Post(m, r) ==
    /\ job = None /\ m \notin settled
    /\ step[r] = "idle" /\ \A other \in Runs : other < r => step[other] # "idle"
    /\ job' = r
    /\ step' = [step EXCEPT ![r] = "intent"]
    /\ mail' = [mail EXCEPT ![r] = m]
    /\ had' = [had EXCEPT ![r] = ActiveOf(Sender[m])]
    /\ UNCHANGED <<vars, settled, ticket, conn, notes, stray, maker>>

\* The loop turns to another attempt, or replies; the reply may not be
\* accepted, or its mail not be marked.
TurnFrom(m) == job' = None /\ settled' \in {settled, settled \cup {m}}

\* The run's response: End outputs, or HTTP 200 with the status failed, which
\* is not retried.
Respond ==
    /\ job # None /\ step[job] \in Ended
    /\ TurnFrom(mail[job])
    /\ UNCHANGED <<vars, runVars>>

\* The response is lost: a timeout, an error status, the death of the gateway.
Missed ==
    /\ job # None
    /\ TurnFrom(mail[job])
    /\ stray' = IF step[job] \in Ended THEN stray ELSE stray \cup {job}
    /\ UNCHANGED <<vars, step, mail, ticket, conn, notes, had, maker>>

----------------------------------------------------------------------------
(* A run of the workflow. *)

\* What a step of run r leaves alone but for its node.
At(r, node) ==
    /\ step' = [step EXCEPT ![r] = node]
    /\ UNCHANGED <<deskVars, mail, had, maker>>

\* Detect intent: all but "safe" gets the template and calls no tool.
Intent(r) ==
    /\ step[r] = "intent"
    /\ \E node \in {"list", "canned"} : At(r, node)
    /\ UNCHANGED <<vars, ticket, conn, notes, stray>>

\* Mutant of ListTickets: escalated tickets are left out.
ListOpenTickets(s, u) == CallList(s, u, {"open"})

\* list-user-tickets leaves "statuses" out.
ListTickets(s, u) == CallList(s, u, None)

\* A tool node opens its call.
ToolCall(r, s) ==
    /\ conn[r] = None
    /\ \/ step[r] = "list" /\ ListTickets(s, User(r))
       \/ step[r] = "create" /\ \E c \in Categories : CallCreate(s, User(r), c)
       \/ step[r] \in Roles /\ CallAppend(s, User(r), ticket[r], step[r])
    /\ conn' = [conn EXCEPT ![r] = s]
    /\ maker' = IF step[r] = "create" THEN [maker EXCEPT ![fresh'[s]] = r] ELSE maker
    /\ UNCHANGED <<deskVars, step, mail, ticket, notes, had, stray>>

\* Mutant of AfterTool: the agent's message comes right after the create.
AfterToolSkipsUser(node) ==
    CASE node = "list" -> "decide" [] node = "create" -> "agent"
      [] node = "user" -> "agent" [] node = "agent" -> "done"

\* The edges out of the tool nodes, over Parse tickets and Parse created ticket.
AfterTool(node) ==
    CASE node = "list" -> "decide" [] node = "create" -> "user"
      [] node = "user" -> "agent" [] node = "agent" -> "done"

\* Mutant of ToolFailed: the workflow goes on past a tool error.
ToolFailedGoesOn(node, answer) == node = "create" /\ answer.kind \in Codes

\* A tool error fails its node.  A refusal comes as a JSON object: only Parse
\* created ticket stumbles over it, the append nodes' results are not read.
ToolFailed(node, answer) ==
    \/ answer.kind = "failed"
    \/ node = "create" /\ answer.kind \in Codes

\* Mutant of TicketAfter: the id of whatever the tool answered.
TicketAfterAny(r, answer) == answer.id

\* Parse tickets takes the first of the list, Parse created ticket the new one;
\* Ticket ID aggregator passes on whichever ran.
TicketAfter(r, answer) == IF step[r] \in {"list", "create"} THEN answer.id ELSE ticket[r]

ToolReply(r) ==
    /\ conn[r] # None
    /\ LET answer == reply[conn[r]]
       IN /\ ReadReply(conn[r])
          /\ \/ /\ ToolFailed(step[r], answer)
                /\ At(r, IF answer.kind = "CONFLICT" THEN "conflict" ELSE "failed")
                /\ UNCHANGED <<ticket, notes>>
             \/ /\ ~ ToolFailed(step[r], answer)
                /\ At(r, AfterTool(step[r]))
                /\ ticket' = [ticket EXCEPT ![r] = TicketAfter(r, answer)]
                /\ notes' = IF answer.kind = "appended"
                            THEN [notes EXCEPT ![r] = @ \cup {answer.id}] ELSE notes
    /\ conn' = [conn EXCEPT ![r] = None]
    /\ UNCHANGED stray

\* The tool node gives up on a call that goes on.
ToolLost(r) ==
    /\ conn[r] # None
    /\ At(r, "failed")
    /\ conn' = [conn EXCEPT ![r] = None]
    /\ stray' = IF reply[conn[r]] = NoReply THEN stray \cup {r} ELSE stray
    /\ UNCHANGED <<vars, ticket, notes>>

\* if/else, on what was listed before the answer was written: follow-up, answer
\* from the knowledge base, or, over the Question Classifier, a ticket.
Decide(r) ==
    /\ step[r] = "decide"
    /\ \/ ticket[r] # None /\ At(r, "user")
       \/ ticket[r] = None /\ \E node \in {"done", "create"} : At(r, node)
    /\ UNCHANGED <<vars, ticket, conn, notes, stray>>

\* A model or the knowledge base fails.
NodeFails(r) ==
    /\ step[r] \in {"intent", "decide"}
    /\ At(r, "failed")
    /\ UNCHANGED <<vars, ticket, conn, notes, stray>>

RunStep(r) ==
    \/ Intent(r) \/ Decide(r) \/ NodeFails(r)
    \/ ToolReply(r) \/ ToolLost(r) \/ \E s \in Sessions : ToolCall(r, s)

----------------------------------------------------------------------------
(* The service beside it, and the workflow that escalates. *)

\* A run of escalate_stale, taken at its commit: its steps beside other calls
\* are explored in Ticketing and EscalateDigest.
EscalateNow ==
    /\ Stale(now - EscalationSeconds) # {}
    /\ \A s \in Sessions : locked[s] \cap Stale(now - EscalationSeconds) = {}
    /\ tickets' = [t \in TicketIds |->
          IF t \in Stale(now - EscalationSeconds) THEN EscalatedRow(tickets[t], now)
          ELSE tickets[t]]
    /\ UNCHANGED <<messages, now, sessionVars>>

Service ==
    /\ \/ Tick \/ EscalateNow
       \/ \E s \in Sessions : Work(s) \/ Rollback(s)
       \/ \E s \in Sessions : (\A r \in Runs : conn[r] # s) /\ ReadReply(s)
    /\ UNCHANGED <<deskVars, runVars>>

DeskNext ==
    \/ \E m \in Mails, r \in Runs : Post(m, r)
    \/ Respond \/ Missed
    \/ \E r \in Runs : RunStep(r)
    \/ Service

DeskSpec == DeskInit /\ [][DeskNext]_allVars

\* The behaviours in which nothing is ever left going on: every response comes
\* or its run has ended, and no tool node gives up on an open call.
TidyNext == DeskNext /\ stray' = {}
TidySpec == DeskInit /\ [][TidyNext]_allVars

----------------------------------------------------------------------------
(* Safety. *)

\* An employee gets a second active ticket only if something of an earlier run
\* was left going on: the workflow's own check before create-ticket and the
\* gateway's one mail at a time leave no other way (FR-3).
TwoActiveNeedOverlap ==
    stray = {} =>
        \A t1, t2 \in Stored : tickets[t1].user = tickets[t2].user => t1 = t2

\* A run fails on the CONFLICT of a create only then, too: what it listed
\* before the answer was written still held (if/else, Parse created ticket).
ConflictNeedsOverlap ==
    stray = {} => \A r \in Runs : step[r] # "conflict"

\* FR-3, row 3: a run whose sender had an active ticket when it was posted does
\* not end well without a ticket, and without strays it is that ticket,
\* escalated in the meantime or not.
FollowUpAppends ==
    \A r \in Runs :
        step[r] = "done" /\ had[r] # {} =>
            ticket[r] # None /\ (stray = {} => ticket[r] \in had[r])

\* A run that ends well with a ticket_id names the sender's ticket, and the mail
\* and the answer are both on it (FR-3 rows 2 and 3), whatever the append tools
\* answered.
ReportedIsRecorded ==
    \A r \in Runs :
        step[r] = "done" /\ ticket[r] # None =>
            /\ InScope(User(r), ticket[r])
            /\ \A role \in Roles : \E m \in notes[r] \cap StoredMessages :
                  messages[m].ticket = ticket[r] /\ messages[m].role = role

\* A ticket without an employee's message is the one that a run of its employee
\* asked create-ticket for, and that very run failed afterwards, or has yet to
\* read the answer or to append the mail (CONTEXT.md, Ticket).
HasMail(t) == \E m \in StoredMessages : messages[m].ticket = t /\ messages[m].role = "user"
BareNeedsFailure ==
    \A t \in Stored :
        \/ HasMail(t)
        \/ \E r \in Runs :
              /\ maker[t] = r /\ User(r) = tickets[t].user
              /\ \/ step[r] = "failed"
                 \/ step[r] = "create" /\ conn[r] # None
                 \/ step[r] = "user" /\ ticket[r] = t

----------------------------------------------------------------------------
(* The inductive invariant behind the safety properties. *)

Tools == {"list", "create"} \cup Roles
Busy(r) == step[r] \in Tools \cup {"intent", "decide"}
Mine(u) == {t \in Stored : tickets[t].user = u}
Noted(r, role) ==
    \E m \in notes[r] \cap StoredMessages :
        messages[m].ticket = ticket[r] /\ messages[m].role = role

\* A session serves tools only, and answers when its work has ended.
ServeOK(s) ==
    /\ call[s].op # "escalate"
    /\ reply[s] # NoReply => pc[s] = "idle"

\* What a run knows fits the node it is at.
RunOK(r) ==
    /\ step[r] = "idle" => job # r /\ conn[r] = None /\ ticket[r] = None /\ had[r] = {}
    /\ step[r] # "idle" => mail[r] \in Mails
    /\ step[r] \in {"intent", "list", "create"} => ticket[r] = None
    /\ step[r] \in Roles => ticket[r] # None
    /\ ticket[r] # None => InScope(User(r), ticket[r])
    /\ \A t \in had[r] : InScope(User(r), t)
    /\ step[r] \in {"decide", "create", "done"} /\ ticket[r] = None => had[r] = {}
    /\ step[r] = "agent" => Noted(r, "user")
    /\ step[r] = "done" /\ ticket[r] # None => \A role \in Roles : Noted(r, role)

\* The call a run has to make at its node.
Asked(r, arguments) ==
    \/ step[r] = "list" /\ arguments = ListArgs(User(r), Listed)
    \/ step[r] = "create" /\ \E c \in Categories : arguments = CreateArgs(User(r), c)
    \/ step[r] \in Roles /\ arguments = AppendArgs(User(r), ticket[r], step[r])

\* The open call of a run has a session of its own, which works on it or has
\* answered.
CallOK(r) ==
    conn[r] # None =>
        /\ step[r] \in Tools
        /\ pc[conn[r]] # "idle" => Asked(r, call[conn[r]])
        /\ pc[conn[r]] = "idle" => reply[conn[r]] # NoReply
        /\ \A other \in Runs : conn[other] = conn[r] => other = r

\* What an answer says to a run at this node.
Says(r, answer) ==
    \/ answer.kind = "failed"
    \/ /\ step[r] = "list" /\ answer.kind = "listed"
       /\ IF answer.id = None THEN had[r] = {} ELSE InScope(User(r), answer.id)
    \/ step[r] = "create" /\ answer.kind = "CONFLICT"
    \/ step[r] = "create" /\ answer.kind = "created" /\ InScope(User(r), answer.id)
    \/ /\ step[r] \in Roles /\ answer.kind = "appended"
       /\ answer.id \in StoredMessages
       /\ messages[answer.id].ticket = ticket[r] /\ messages[answer.id].role = step[r]

AnswerOK(r) ==
    conn[r] # None /\ reply[conn[r]] # NoReply => Says(r, reply[conn[r]])

\* The run has found no ticket and created none yet.
NoneYet(r) ==
    \/ /\ step[r] = "list" /\ conn[r] # None
       /\ reply[conn[r]].kind = "listed" /\ reply[conn[r]].id = None
    \/ step[r] = "decide" /\ ticket[r] = None
    \/ step[r] = "create" /\ (conn[r] # None => pc[conn[r]] # "idle")

OneTicketEach == \A t1, t2 \in Stored : tickets[t1].user = tickets[t2].user => t1 = t2

\* As long as nothing was left going on, the run the gateway waits for is the
\* only one, and what it found still holds.
AloneOK ==
    stray = {} =>
        /\ OneTicketEach
        /\ \A s \in Sessions : pc[s] # "idle" => \E r \in Runs : conn[r] = s
        /\ \A r \in Runs : /\ Busy(r) => r = job
                           /\ NoneYet(r) => Mine(User(r)) = {}
                           /\ step[r] # "conflict"
                           /\ conn[r] # None => reply[conn[r]].kind # "CONFLICT"

\* A create is under way for a run that waits for it or has given it up.
Backs(r, s) ==
    /\ maker[fresh[s]] = r
    /\ step[r] # "idle" /\ User(r) = call[s].user
    /\ step[r] = "failed" \/ (step[r] = "create" /\ conn[r] = s)
CreatorOK(s) ==
    pc[s] # "idle" /\ call[s].op = "create" => \E r \in Runs : Backs(r, s)

\* Who accounts for a ticket without an employee's message.
Accounts(r, t) ==
    /\ maker[t] = r
    /\ step[r] # "idle" /\ User(r) = tickets[t].user
    /\ \/ step[r] = "failed"
       \/ step[r] = "user" /\ ticket[r] = t
       \/ /\ step[r] = "create" /\ conn[r] # None
          /\ reply[conn[r]] \in {Answer("created", t, {}), Refused("failed")}

BareOK == \A t \in Stored : HasMail(t) \/ \E r \in Runs : Accounts(r, t)

DeskInv ==
    /\ DeskTypeOK
    /\ \A s \in Sessions : ServeOK(s) /\ CreatorOK(s)
    /\ \A r \in Runs : RunOK(r) /\ CallOK(r) /\ AnswerOK(r)
    /\ AloneOK
    /\ BareOK
=============================================================================
