--------------------------- MODULE HelpdeskProofs ---------------------------
(***************************************************************************)
(* Proofs about Helpdesk, for every number of employees, mails, runs and   *)
(* sessions.  The service's invariant carries over; the workflow's says    *)
(* what the open calls, the answers and the tickets mean to the runs.      *)
(***************************************************************************)
EXTENDS Helpdesk, TicketingProofs

\* The runs start idle, on a service that has just started.
LEMMA DeskStarts == DeskInit => DeskInv
<1> SUFFICES ASSUME DeskInit PROVE DeskInv
  OBVIOUS
<1> USE DEF DeskInit, Init
<1>1. DeskTypeOK
  BY DEF DeskTypeOK, Steps
<1>2. \A s \in Sessions : ServeOK(s) /\ CreatorOK(s)
  BY DEF ServeOK, CreatorOK, NoCall, Args
<1>3. \A r \in Runs : RunOK(r) /\ CallOK(r) /\ AnswerOK(r)
  BY RunsAssumption DEF RunOK, CallOK, AnswerOK, Roles
<1>4. AloneOK
  BY DEF AloneOK, OneTicketEach, Stored, Busy, NoneYet, Tools, Roles
<1>5. BareOK
  BY DEF BareOK, Stored
<1> QED BY <1>1, <1>2, <1>3, <1>4, <1>5 DEF DeskInv

----------------------------------------------------------------------------
(* The service under the workflow. *)

\* What an escalation at its commit does to the rows.
LEMMA EscalateNowEffect ==
    ASSUME IInv, EscalateNow
    PROVE  /\ \A t \in Stored : /\ tickets'[t] # None
                                /\ SameTicket(tickets'[t], tickets[t])
                                /\ tickets'[t].status \in {"escalated", tickets[t].status}
                                /\ tickets'[t].status # tickets[t].status =>
                                      tickets[t].created + EscalationSeconds < now
           /\ \A t \in TicketIds \ Stored : tickets'[t] = None
           /\ UNCHANGED <<messages, now, sessionVars>>
<1> DEFINE stale == Stale(now - EscalationSeconds)
<1>1. /\ \A t \in Stored : tickets[t] \in TicketRow
      /\ now \in Time /\ now \in Nat /\ EscalationSeconds \in Nat
  BY ClockAssumption DEF IInv, TypeOK, Stored, Time
<1>2. /\ stale \subseteq Stored
      /\ \A t \in stale : tickets[t].created + EscalationSeconds < now
  BY <1>1 DEF Stale, TicketRow, Time
<1>3. /\ \A t \in stale : tickets'[t] = EscalatedRow(tickets[t], now)
      /\ \A t \in TicketIds \ stale : tickets'[t] = tickets[t]
      /\ UNCHANGED <<messages, now, sessionVars>>
  BY DEF EscalateNow, Stale, Stored
<1>4. \A t \in stale :
         /\ tickets'[t] \in TicketRow /\ tickets'[t] # None
         /\ tickets'[t].status = "escalated" /\ SameTicket(tickets'[t], tickets[t])
  BY <1>1, <1>2, <1>3, RowUpdates, IdsAssumption
<1> HIDE DEF stale
<1>5. \A t \in Stored \ stale : tickets'[t] = tickets[t]
  BY <1>3 DEF Stored
<1> QED BY <1>2, <1>3, <1>4, <1>5 DEF Stored, SameTicket

\* It keeps the service's invariant.
LEMMA EscalateNowStep == IInv /\ EscalateNow => IInv'
<1> SUFFICES ASSUME IInv, EscalateNow PROVE IInv'
  OBVIOUS
<1>1. /\ \A t \in Stored : /\ tickets'[t] # None
                           /\ SameTicket(tickets'[t], tickets[t])
                           /\ tickets'[t].status \in {"escalated", tickets[t].status}
                           /\ tickets'[t].status # tickets[t].status =>
                                 tickets[t].created + EscalationSeconds < now
      /\ \A t \in TicketIds \ Stored : tickets'[t] = None
      /\ UNCHANGED <<messages, now, sessionVars>>
  BY EscalateNowEffect
<1>2. TypeOK'
  <2>1. tickets' \in [TicketIds -> TicketRow \cup {None}]
    <3>1. /\ now \in Time
          /\ \A t \in TicketIds : tickets[t] \in TicketRow \cup {None}
      BY DEF IInv, TypeOK
    <3>2. \A t \in Stale(now - EscalationSeconds) : EscalatedRow(tickets[t], now) \in TicketRow
      BY <3>1, RowUpdates DEF Stale, Stored
    <3> QED BY <3>1, <3>2 DEF EscalateNow
  <2> QED BY <1>1, <2>1 DEF IInv, TypeOK, sessionVars
<1>3. TablesGrow /\ Stored' = Stored /\ StoredMessages' = StoredMessages
  BY <1>1, ClockAssumption
     DEF TablesGrow, SameTicket, Stored, StoredMessages, IInv, TypeOK, Time
<1>4. ASSUME NEW r \in Sessions PROVE SessionsOK(r)'
  <2>1. SessionsOK(r) /\ Untouched(r)
    BY <1>1 DEF IInv, SessionsOK, sessionVars, Untouched
  <2> QED BY <1>1, <1>2, <1>3, <2>1, Bystander DEF IInv, Stored, StoredMessages
<1>5. Unshared' /\ LockOrder'
  BY <1>1 DEF IInv, Unshared, LockOrder, Unflushed, sessionVars
<1>6. StatusOK' /\ MessageScope'
  BY <1>1, <1>3 DEF IInv, StatusOK, MessageScope, SameTicket, Stored, StoredMessages
<1>7. EscalatedIsStale'
  BY <1>1, <1>3, ClockAssumption DEF IInv, EscalatedIsStale, SameTicket
<1> QED BY <1>2, <1>4, <1>5, <1>6, <1>7 DEF IInv, SessionsOK

\* Whatever the workflow and the gateway do, the service takes a step of its
\* own, an escalation among them, or none.
LEMMA DeskServiceStep ==
    ASSUME DeskInv, [DeskNext]_allVars PROVE [Next]_vars \/ EscalateNow
<1>1. ASSUME NEW m \in Mails, NEW r \in Runs, Post(m, r) PROVE UNCHANGED vars
  BY <1>1 DEF Post
<1>2. CASE Respond \/ Missed
  BY <1>2 DEF Respond, Missed
<1>3. ASSUME NEW r \in Runs, Intent(r) \/ Decide(r) \/ NodeFails(r) \/ ToolLost(r)
      PROVE  UNCHANGED vars
  BY <1>3 DEF Intent, Decide, NodeFails, ToolLost
<1>4. ASSUME NEW r \in Runs, ToolReply(r) PROVE Next
  <2>1. conn[r] \in Sessions /\ ReadReply(conn[r])
    BY <1>4 DEF ToolReply, DeskInv, DeskTypeOK
  <2> QED BY <2>1 DEF Next
<1>5. ASSUME NEW r \in Runs, NEW s \in Sessions, ToolCall(r, s) PROVE Next
  <2>1. User(r) \in Users
    BY <1>5, MailsAssumption DEF ToolCall, User, DeskInv, RunOK, Roles
  <2>2. step[r] \in Roles => ticket[r] \in TicketIds
    BY DEF DeskInv, DeskTypeOK, RunOK
  <2>3. Call(s)
    BY <1>5, <2>1, <2>2 DEF ToolCall, ListTickets, Call, Filters
  <2> QED BY <2>3 DEF Next
<1>6. CASE Service
  BY <1>6 DEF Service, Next
<1>7. CASE UNCHANGED allVars
  BY <1>7 DEF allVars, vars
<1> QED BY <1>1, <1>2, <1>3, <1>4, <1>5, <1>6, <1>7 DEF DeskNext, RunStep

\* So its invariant holds under the workflow.
LEMMA DeskKeepsIInv == IInv /\ DeskInv /\ [DeskNext]_allVars => IInv'
BY DeskServiceStep, InductiveStep, EscalateNowStep

\* Nothing that was stored is lost.
LEMMA DeskHistory == IInv /\ DeskInv /\ [DeskNext]_allVars => KeepsHistory
<1> SUFFICES ASSUME IInv, DeskInv, [DeskNext]_allVars PROVE KeepsHistory
  OBVIOUS
<1>1. CASE EscalateNow
  BY <1>1, EscalateNowEffect DEF KeepsHistory, SameTicket, StoredMessages
<1> QED BY <1>1, DeskServiceStep, HistoryStep

\* So what a run relies on in the tables lasts.
LEMMA Lasting ==
    ASSUME KeepsHistory
    PROVE  /\ \A u, t : InScope(u, t) => InScope(u, t)'
           /\ \A t \in Stored : tickets'[t].user = tickets[t].user
           /\ Stored \subseteq Stored' /\ StoredMessages \subseteq StoredMessages'
           /\ \A m \in StoredMessages : messages'[m] = messages[m]
           /\ \A t : HasMail(t) => HasMail(t)'
BY DEF KeepsHistory, InScope, Stored, StoredMessages, HasMail

----------------------------------------------------------------------------
(* The steps of the workflow that leave the service alone. *)

\* The other runs are left alone, and no create-ticket is called.
RunsAside(r) ==
    /\ maker' = maker
    /\ \A q \in Runs \ {r} :
          /\ step'[q] = step[q] /\ mail'[q] = mail[q] /\ ticket'[q] = ticket[q]
          /\ conn'[q] = conn[q] /\ notes'[q] = notes[q] /\ had'[q] = had[q]

\* The service is left alone, but run r may read its answer.
OnlyReads(r) ==
    /\ UNCHANGED <<tickets, messages, pc, call, fresh>>
    /\ \A s \in Sessions : \/ reply'[s] = reply[s]
                           \/ conn[r] = s /\ reply'[s] = NoReply

LEMMA NoRead == ASSUME NEW r \in Runs, UNCHANGED vars PROVE OnlyReads(r)
BY DEF OnlyReads, vars

\* A step of run r after which it has no open call keeps what is said of the
\* sessions, the other runs and the bare tickets, unless r accounted for them.
LEMMA LocalStep ==
    ASSUME IInv, DeskInv, NEW r \in Runs, OnlyReads(r), RunsAside(r), conn'[r] = None,
           job' \in {job, r},
           \A s \in Sessions : pc[s] # "idle" /\ Backs(r, s) => Backs(r, s)',
           \A t \in Stored : Accounts(r, t) => Accounts(r, t)' \/ HasMail(t)
    PROVE  /\ \A s \in Sessions : ServeOK(s)' /\ CreatorOK(s)'
           /\ \A q \in Runs : CallOK(q)' /\ AnswerOK(q)'
           /\ \A q \in Runs \ {r} : RunOK(q)'
           /\ BareOK'
<1> USE DEF DeskInv, RunsAside, OnlyReads
<1>1. ASSUME NEW s \in Sessions PROVE ServeOK(s)'
  BY DEF ServeOK
<1>2. ASSUME NEW s \in Sessions PROVE CreatorOK(s)'
  <2> SUFFICES ASSUME pc[s] # "idle", call[s].op = "create"
               PROVE  \E q \in Runs : Backs(q, s)'
    BY DEF CreatorOK
  <2>1. PICK q \in Runs : Backs(q, s)
    BY DEF CreatorOK
  <2>2. q # r => Backs(q, s)'
    BY <2>1 DEF Backs, User
  <2> QED BY <2>1, <2>2
<1>3. ASSUME NEW q \in Runs \ {r} PROVE RunOK(q)'
  BY DEF RunOK, User, InScope, Stored, Noted, StoredMessages
<1>4. ASSUME NEW q \in Runs, q # r, conn[q] # None
      PROVE  conn[q] \in Sessions /\ reply'[conn[q]] = reply[conn[q]]
  BY <1>4 DEF CallOK, DeskTypeOK
<1>5. ASSUME NEW q \in Runs PROVE CallOK(q)' /\ AnswerOK(q)'
  <2>1. CASE q = r
    BY <2>1 DEF CallOK, AnswerOK
  <2>2. CASE q # r
    <3>1. CallOK(q)'
      BY <1>4, <2>2 DEF CallOK, Asked, User
    <3>2. AnswerOK(q)'
      BY <1>4, <2>2 DEF AnswerOK, Says, User, InScope, Stored, StoredMessages
    <3> QED BY <3>1, <3>2
  <2> QED BY <2>1, <2>2
<1>6. BareOK'
  <2> SUFFICES ASSUME NEW t \in Stored, ~ HasMail(t) PROVE \E q \in Runs : Accounts(q, t)'
    BY DEF BareOK, HasMail, Stored, StoredMessages
  <2>1. PICK q \in Runs : Accounts(q, t)
    BY DEF BareOK
  <2>2. q # r => Accounts(q, t)'
    BY <1>4, <2>1 DEF Accounts, User
  <2> QED BY <2>1, <2>2
<1> QED BY <1>1, <1>2, <1>3, <1>5, <1>6

\* A step of the run the gateway waits for, or comes to wait for, keeps what
\* holds when nothing was left going on.
LEMMA LocalAlone ==
    ASSUME DeskInv, NEW r \in Runs, OnlyReads(r), RunsAside(r), conn'[r] = None,
           stray' = {} => /\ stray = {}
                          /\ conn[r] # None => pc[conn[r]] = "idle"
                          /\ (Busy(r) /\ job' = job) \/ (job = None /\ job' = r)
                          /\ step'[r] # "conflict",
           NoneYet(r)' => NoneYet(r) /\ mail'[r] = mail[r]
    PROVE  AloneOK'
<1> SUFFICES ASSUME stray' = {} PROVE AloneOK'
  BY DEF AloneOK
<1> USE DEF DeskInv, RunsAside, OnlyReads
<1>0. AloneOK /\ stray = {}
  OBVIOUS
<1>1. OneTicketEach'
  BY <1>0 DEF AloneOK, OneTicketEach, Stored
<1>2. ASSUME NEW s \in Sessions, pc'[s] # "idle" PROVE \E q \in Runs : conn'[q] = s
  <2>1. PICK q \in Runs : conn[q] = s
    BY <1>0, <1>2 DEF AloneOK
  <2>2. q # r
    BY <1>0, <1>2, <2>1, RunsAssumption
  <2> QED BY <2>1, <2>2
<1>3. ASSUME NEW q \in Runs \ {r}
      PROVE  /\ ~ Busy(q)' /\ ~ NoneYet(q)' /\ step'[q] # "conflict" /\ conn'[q] = None
  <2>1. ~ Busy(q)
    BY <1>0, RunsAssumption DEF AloneOK
  <2>2. ~ Busy(q)' /\ conn'[q] = None
    BY <2>1 DEF Busy, CallOK
  <2> QED BY <1>0, <2>2 DEF Busy, NoneYet, Tools, AloneOK
<1>4. Busy(r)' => r = job'
  BY <1>0 DEF AloneOK
<1>5. ASSUME NoneYet(r)' PROVE Mine(User(r))' = {}
  BY <1>0, <1>5 DEF AloneOK, Mine, User, Stored
<1> QED BY <1>1, <1>2, <1>3, <1>4, <1>5 DEF AloneOK

\* The scope of a run survives a step that leaves the tables alone.
LEMMA SameRun ==
    ASSUME NEW r \in Runs, UNCHANGED <<tickets, messages>>, mail'[r] = mail[r]
    PROVE  /\ User(r)' = User(r)
           /\ \A t : InScope(User(r), t)' = InScope(User(r), t)
<1>1. User(r)' = User(r) /\ Stored' = Stored
  BY DEF User, Stored
<1> QED BY <1>1 DEF InScope

\* Post keeps the invariant.
LEMMA PostStep ==
    ASSUME IInv, DeskInv, NEW m \in Mails, NEW r \in Runs, Post(m, r) PROVE DeskInv'
<1> USE DEF DeskInv, Post
<1>1. DeskTypeOK'
  BY DEF DeskTypeOK, Steps, ActiveOf, Stored
<1>2. /\ RunsAside(r) /\ step[r] = "idle" /\ step'[r] = "intent" /\ mail'[r] = m
      /\ had'[r] = ActiveOf(Sender[m]) /\ conn'[r] = None /\ ticket'[r] = None
  BY DEF DeskTypeOK, RunsAside, RunOK
<1>3. RunOK(r)'
  BY <1>2 DEF RunOK, Roles, ActiveOf, InScope, User, Stored, vars
<1>4. AloneOK'
  BY <1>2, NoRead, LocalAlone DEF NoneYet
<1>5. /\ \A s \in Sessions : ServeOK(s)' /\ CreatorOK(s)'
      /\ \A q \in Runs : CallOK(q)' /\ AnswerOK(q)'
      /\ \A q \in Runs \ {r} : RunOK(q)'
      /\ BareOK'
  BY <1>2, NoRead, LocalStep DEF Backs, Accounts
<1> QED BY <1>1, <1>3, <1>4, <1>5

\* The gateway turning away from a run keeps the invariant.
LEMMA TurnStep ==
    ASSUME IInv, DeskInv, Respond \/ Missed PROVE DeskInv'
<1> USE DEF DeskInv
<1>1. job \in Runs /\ step[job] # "idle" /\ mail[job] \in Mails
  BY DEF Respond, Missed, DeskTypeOK, RunOK
<1>2. /\ UNCHANGED <<vars, step, mail, ticket, conn, notes, had, maker>>
      /\ job' = None
      /\ stray \subseteq stray' /\ (stray' = {} => stray = {} /\ step[job] \in Ended)
      /\ stray' \subseteq Runs /\ settled' \subseteq Mails
  <2>1. CASE Respond
    BY <1>1, <2>1 DEF Respond, TurnFrom, DeskTypeOK, runVars
  <2>2. CASE Missed
    BY <1>1, <2>2 DEF Missed, TurnFrom, DeskTypeOK
  <2> QED BY <2>1, <2>2
<1>3. DeskTypeOK'
  BY <1>2 DEF DeskTypeOK
<1>4. \A s \in Sessions : ServeOK(s)' /\ CreatorOK(s)'
  BY <1>2 DEF ServeOK, CreatorOK, Backs, User, vars
<1>5. ASSUME NEW r \in Runs PROVE RunOK(r)' /\ CallOK(r)' /\ AnswerOK(r)'
  <2>1. RunOK(r)'
    BY <1>2, RunsAssumption DEF RunOK, User, InScope, Noted, Stored, StoredMessages, vars
  <2>2. CallOK(r)'
    BY <1>2 DEF CallOK, Asked, User, vars
  <2>3. AnswerOK(r)'
    BY <1>2 DEF AnswerOK, Says, User, InScope, Stored, StoredMessages, vars
  <2> QED BY <2>1, <2>2, <2>3
<1>6. AloneOK'
  <2> SUFFICES ASSUME stray' = {} PROVE AloneOK'
    BY DEF AloneOK
  <2>1. \A r \in Runs : ~ Busy(r)
    BY <1>2, RunsAssumption DEF AloneOK, Busy, Tools, Roles, Ended
  <2>2. OneTicketEach'
    BY <1>2 DEF AloneOK, OneTicketEach, Stored, vars
  <2>3. \A r \in Runs : ~ Busy(r)' /\ NoneYet(r)' = NoneYet(r) /\ Mine(User(r))' = Mine(User(r))
    BY <1>2, <2>1 DEF Busy, NoneYet, Mine, User, Stored, vars
  <2> QED BY <1>2, <2>2, <2>3 DEF AloneOK, vars
<1>7. BareOK'
  BY <1>2 DEF BareOK, Accounts, HasMail, User, Stored, StoredMessages, vars
<1> QED BY <1>3, <1>4, <1>5, <1>6, <1>7

\* The nodes that call no tool keep the invariant.
LEMMA NodeStep ==
    ASSUME IInv, DeskInv, NEW r \in Runs, Intent(r) \/ Decide(r) \/ NodeFails(r)
    PROVE  DeskInv'
<1> USE DEF DeskInv
<1>1. /\ UNCHANGED <<vars, ticket, conn, notes, stray, job, settled, mail, had, maker>>
      /\ step[r] \in {"intent", "decide"}
      /\ \E node \in Steps :
            /\ step' = [step EXCEPT ![r] = node]
            /\ \/ node \in {"failed", "canned"}
               \/ node = "list" /\ step[r] = "intent"
               \/ node = "user" /\ step[r] = "decide" /\ ticket[r] # None
               \/ node \in {"done", "create"} /\ step[r] = "decide" /\ ticket[r] = None
  BY DEF Intent, Decide, NodeFails, At, Steps, Ended, Roles, deskVars
<1>2. DeskTypeOK' /\ RunsAside(r)
  BY <1>1 DEF DeskTypeOK, RunsAside
<1>3. /\ conn[r] = None /\ conn'[r] = None
      /\ \/ step'[r] \in {"failed", "canned"}
         \/ step'[r] = "list" /\ step[r] = "intent"
         \/ step'[r] = "user" /\ step[r] = "decide" /\ ticket[r] # None
         \/ step'[r] \in {"done", "create"} /\ step[r] = "decide" /\ ticket[r] = None
  BY <1>1 DEF CallOK, Tools, Roles, DeskTypeOK
<1>4. RunOK(r)'
  <2>1. User(r)' = User(r) /\ \A t : InScope(User(r), t)' = InScope(User(r), t)
    BY <1>1, SameRun DEF vars
  <2> QED BY <1>1, <1>3, <2>1 DEF RunOK, Roles
<1>5. AloneOK'
  <2>1. Busy(r) /\ step'[r] # "conflict"
    BY <1>1, <1>3 DEF Busy
  <2>2. NoneYet(r)' => NoneYet(r)
    BY <1>1, <1>3 DEF NoneYet
  <2> QED BY <1>1, <1>2, <1>3, <2>1, <2>2, NoRead, LocalAlone
<1>6. /\ \A s \in Sessions : ServeOK(s)' /\ CreatorOK(s)'
      /\ \A q \in Runs : CallOK(q)' /\ AnswerOK(q)'
      /\ \A q \in Runs \ {r} : RunOK(q)'
      /\ BareOK'
  BY <1>1, <1>2, <1>3, NoRead, LocalStep DEF Backs, Accounts
<1> QED BY <1>2, <1>4, <1>5, <1>6

\* A tool node giving up keeps the invariant.
LEMMA ToolLostStep ==
    ASSUME IInv, DeskInv, NEW r \in Runs, ToolLost(r) PROVE DeskInv'
<1> USE DEF DeskInv, ToolLost, At, deskVars
<1>1. /\ RunsAside(r) /\ conn'[r] = None /\ step'[r] = "failed" /\ step[r] \in Tools
      /\ conn[r] \in Sessions
  BY DEF DeskTypeOK, RunsAside, CallOK
<1>2. DeskTypeOK'
  BY DEF DeskTypeOK, Steps, Ended
<1>3. RunOK(r)'
  <2>1. User(r)' = User(r) /\ \A t : InScope(User(r), t)' = InScope(User(r), t)
    BY SameRun DEF vars
  <2> QED BY <1>1, <2>1 DEF RunOK, Roles, Tools
<1>4. AloneOK'
  <2>1. stray' = {} => stray = {} /\ pc[conn[r]] = "idle"
    BY <1>1 DEF ServeOK
  <2> QED BY <1>1, <2>1, NoRead, LocalAlone DEF Busy, NoneYet
<1>5. /\ \A s \in Sessions : ServeOK(s)' /\ CreatorOK(s)'
      /\ \A q \in Runs : CallOK(q)' /\ AnswerOK(q)'
      /\ \A q \in Runs \ {r} : RunOK(q)'
      /\ BareOK'
  <2>1. \A s \in Sessions : Backs(r, s) => Backs(r, s)'
    BY <1>1 DEF Backs, User, vars
  <2>2. \A t \in Stored : Accounts(r, t) => Accounts(r, t)'
    BY <1>1 DEF Accounts, User, vars
  <2> QED BY <1>1, <2>1, <2>2, NoRead, LocalStep
<1> QED BY <1>2, <1>3, <1>4, <1>5

\* A run that reads the answer of its tool keeps the invariant.
LEMMA ToolReplyStep ==
    ASSUME IInv, DeskInv, NEW r \in Runs, ToolReply(r) PROVE DeskInv'
<1> DEFINE answer == reply[conn[r]]
<1> USE DEF DeskInv
<1>1. /\ conn[r] \in Sessions /\ conn[r] # None /\ answer # NoReply
      /\ pc[conn[r]] = "idle" /\ step[r] \in Tools /\ Says(r, answer) /\ step[r] # "idle"
  BY DEF ToolReply, ReadReply, DeskTypeOK, ServeOK, CallOK, AnswerOK, Tools, Roles
<1>2. /\ OnlyReads(r) /\ UNCHANGED <<tickets, messages>>
  BY DEF ToolReply, ReadReply, OnlyReads, IInv, TypeOK, dbVars
<1>3. /\ conn' = [conn EXCEPT ![r] = None]
      /\ UNCHANGED <<job, settled, stray, mail, had, maker>>
      /\ \/ /\ answer.kind = "failed" \/ (step[r] = "create" /\ answer.kind = "CONFLICT")
            /\ step' = [step EXCEPT ![r] = IF answer.kind = "CONFLICT" THEN "conflict" ELSE "failed"]
            /\ UNCHANGED <<ticket, notes>>
         \/ /\ step[r] = "list" /\ answer.kind = "listed"
            /\ step' = [step EXCEPT ![r] = "decide"]
            /\ ticket' = [ticket EXCEPT ![r] = answer.id]
            /\ UNCHANGED notes
         \/ /\ step[r] = "create" /\ answer.kind = "created"
            /\ step' = [step EXCEPT ![r] = "user"]
            /\ ticket' = [ticket EXCEPT ![r] = answer.id]
            /\ UNCHANGED notes
         \/ /\ step[r] \in Roles /\ answer.kind = "appended"
            /\ step' = [step EXCEPT ![r] = IF step[r] = "user" THEN "agent" ELSE "done"]
            /\ ticket' = ticket
            /\ notes' = [notes EXCEPT ![r] = @ \cup {answer.id}]
  <2>1. CASE ToolFailed(step[r], answer)
    <3>1. answer.kind = "failed" \/ (step[r] = "create" /\ answer.kind = "CONFLICT")
      BY <1>1, <2>1 DEF ToolFailed, Says, Codes, Roles
    <3> QED BY <2>1, <3>1 DEF ToolReply, At, deskVars
  <2>2. CASE ~ ToolFailed(step[r], answer)
    <3>1. /\ step' = [step EXCEPT ![r] = AfterTool(step[r])]
          /\ ticket' = [ticket EXCEPT ![r] = TicketAfter(r, answer)]
          /\ notes' = IF answer.kind = "appended"
                      THEN [notes EXCEPT ![r] = @ \cup {answer.id}] ELSE notes
          /\ conn' = [conn EXCEPT ![r] = None]
          /\ UNCHANGED <<job, settled, stray, mail, had, maker>>
      BY <2>2 DEF ToolReply, At, deskVars
    <3>2. \/ step[r] = "list" /\ answer.kind = "listed"
          \/ step[r] = "create" /\ answer.kind = "created"
          \/ step[r] \in Roles /\ answer.kind = "appended"
      BY <1>1, <2>2 DEF ToolFailed, Says, Codes
    <3>3. [ticket EXCEPT ![r] = ticket[r]] = ticket
      BY DEF DeskTypeOK
    <3> HIDE DEF answer
    <3> QED BY <3>1, <3>2, <3>3 DEF AfterTool, TicketAfter, Roles
  <2> QED BY <2>1, <2>2
<1>4. /\ step[r] = "list" /\ answer.kind = "listed" /\ answer.id # None => InScope(User(r), answer.id)
      /\ step[r] = "create" /\ answer.kind = "created" => InScope(User(r), answer.id)
      /\ step[r] = "list" /\ answer.kind = "listed" /\ answer.id = None => had[r] = {}
      /\ answer.kind = "appended" =>
            /\ answer.id \in StoredMessages
            /\ messages[answer.id].ticket = ticket[r] /\ messages[answer.id].role = step[r]
  BY <1>1 DEF Says, Roles
<1> HIDE DEF answer
<1>5. DeskTypeOK'
  BY <1>3, <1>4 DEF DeskTypeOK, Steps, Ended, Roles, InScope, Stored, StoredMessages
<1>6. RunsAside(r) /\ conn'[r] = None
  BY <1>3, <1>5 DEF RunsAside, DeskTypeOK
<1>7. RunOK(r)'
  <2>1. /\ User(r)' = User(r) /\ \A t : InScope(User(r), t)' = InScope(User(r), t)
        /\ StoredMessages' = StoredMessages
    BY <1>2, <1>3, SameRun DEF StoredMessages
  <2>2. /\ mail'[r] = mail[r] /\ had'[r] = had[r] /\ mail[r] \in Mails
        /\ \A t \in had[r] : InScope(User(r), t)
        /\ ticket[r] # None => InScope(User(r), ticket[r])
    BY <1>1, <1>3 DEF RunOK
  <2>3. CASE step'[r] \in {"failed", "conflict"} /\ ticket' = ticket
    BY <2>1, <2>2, <2>3 DEF RunOK, Roles
  <2>4. CASE /\ step[r] = "list" /\ answer.kind = "listed"
             /\ step'[r] = "decide" /\ ticket'[r] = answer.id
    BY <1>4, <2>1, <2>2, <2>4 DEF RunOK, Roles
  <2>5. CASE /\ step[r] = "create" /\ answer.kind = "created"
             /\ step'[r] = "user" /\ ticket'[r] = answer.id
    BY <1>4, <2>1, <2>2, <2>5, IdsAssumption DEF RunOK, Roles, InScope, Stored
  <2>6. CASE /\ step[r] \in Roles /\ answer.kind = "appended"
             /\ step'[r] = (IF step[r] = "user" THEN "agent" ELSE "done")
             /\ ticket' = ticket /\ notes'[r] = notes[r] \cup {answer.id}
    <3>1. ticket[r] # None
      BY <2>6 DEF RunOK
    <3>2. /\ answer.id \in notes'[r] \cap StoredMessages'
          /\ messages'[answer.id].ticket = ticket'[r]
          /\ messages'[answer.id].role = step[r]
      BY <1>2, <1>4, <2>1, <2>6
    <3>3. CASE step[r] = "user"
      <4>1. Noted(r, "user")'
        BY <3>2, <3>3 DEF Noted
      <4> QED BY <2>1, <2>2, <2>6, <3>1, <3>3, <4>1 DEF RunOK, Roles
    <3>4. CASE step[r] = "agent"
      <4>1. Noted(r, "agent")'
        BY <3>2, <3>4 DEF Noted
      <4>2. Noted(r, "user")'
        BY <1>2, <2>1, <2>6, <3>4 DEF RunOK, Noted
      <4> QED BY <2>1, <2>2, <2>6, <3>1, <3>4, <4>1, <4>2 DEF RunOK, Roles
    <3> QED BY <2>6, <3>3, <3>4 DEF Roles
  <2> QED BY <1>3, <2>3, <2>4, <2>5, <2>6 DEF DeskTypeOK
<1>8. AloneOK'
  <2>1. Busy(r)
    BY <1>1 DEF Busy
  <2>2. stray' = {} => step'[r] # "conflict"
    BY <1>1, <1>3 DEF AloneOK, DeskTypeOK, answer
  <2>3. NoneYet(r)' => NoneYet(r) /\ mail'[r] = mail[r]
    BY <1>1, <1>3 DEF NoneYet, DeskTypeOK, answer, Roles
  <2> QED BY <1>1, <1>2, <1>3, <1>6, <2>1, <2>2, <2>3, LocalAlone
<1>9. /\ \A s \in Sessions : ServeOK(s)' /\ CreatorOK(s)'
      /\ \A q \in Runs : CallOK(q)' /\ AnswerOK(q)'
      /\ \A q \in Runs \ {r} : RunOK(q)'
      /\ BareOK'
  <2>1. \A s \in Sessions : pc[s] # "idle" /\ Backs(r, s) => Backs(r, s)'
    BY <1>1 DEF Backs, Tools, Roles
  <2>2. ASSUME NEW t \in Stored, Accounts(r, t) PROVE Accounts(r, t)' \/ HasMail(t)
    <3>1. /\ maker'[t] = r /\ step[r] # "idle" /\ User(r) = tickets[t].user
          /\ \/ step[r] = "user" /\ ticket[r] = t
             \/ step[r] = "create" /\ answer \in {Answer("created", t, {}), Refused("failed")}
      BY <1>1, <1>3, <2>2 DEF Accounts, answer, Tools, Roles
    <3>2. User(r)' = User(r) /\ tickets' = tickets
      BY <1>2, <1>3, SameRun
    <3>3. CASE step[r] = "user" /\ ticket[r] = t
      <4>1. answer.kind = "appended" => HasMail(t)
        BY <1>4, <3>3 DEF HasMail
      <4> QED BY <1>3, <3>1, <3>2, <3>3, <4>1 DEF Accounts, DeskTypeOK, Roles
    <3>4. CASE step[r] = "create" /\ answer = Answer("created", t, {})
      <4>1. answer.kind = "created" /\ answer.id = t
        BY <3>4 DEF Answer
      <4> QED BY <1>3, <3>1, <3>2, <3>4, <4>1 DEF Accounts, DeskTypeOK, Roles
    <3>5. CASE step[r] = "create" /\ answer = Refused("failed")
      <4>1. answer.kind = "failed"
        BY <3>5 DEF Refused, Answer
      <4> QED BY <1>3, <3>1, <3>2, <3>5, <4>1 DEF Accounts, DeskTypeOK, Roles
    <3> QED BY <3>1, <3>3, <3>4, <3>5
  <2> QED BY <1>2, <1>3, <1>6, <2>1, <2>2, LocalStep
<1> QED BY <1>5, <1>7, <1>8, <1>9

\* A tool node's call has the arguments of its node, and is not refused.
LEMMA ToolCalls ==
    ASSUME IInv, DeskInv, NEW r \in Runs, NEW s \in Sessions, ToolCall(r, s)
    PROVE  \E arguments, id :
              /\ Start(s, arguments, id) /\ Asked(r, arguments)
              /\ arguments.op # "escalate"
              /\ arguments.op = "create" => /\ step[r] = "create" /\ arguments.user = User(r)
                                            /\ id \in TicketIds \ (Stored \cup Reserved)
              /\ arguments.op # "create" => step[r] # "create"
<1>1. User(r) \in Users /\ User(r) # Blank
  BY MailsAssumption, UsersAssumption DEF ToolCall, User, DeskInv, RunOK, Roles
<1>2. CASE step[r] = "list" /\ ListTickets(s, User(r))
  <2>1. Listed # {} /\ Unknown \notin Listed
    BY DEF Listed, Unknown
  <2>2. Listed # None \/ Listed = None
    OBVIOUS
  <2>3. Start(s, ListArgs(User(r), Listed), None)
    BY <1>1, <1>2, <2>1 DEF ListTickets, CallList
  <2> QED BY <1>2, <2>3 DEF Asked, ListArgs, Args
<1>3. CASE step[r] = "create" /\ \E c \in Categories : CallCreate(s, User(r), c)
  <2>1. PICK c \in Categories : CallCreate(s, User(r), c)
    BY <1>3
  <2>2. PICK id \in TicketIds \ (Stored \cup Reserved) : Start(s, CreateArgs(User(r), c), id)
    BY <1>1, <2>1, UsersAssumption DEF CallCreate
  <2> QED BY <1>3, <2>2 DEF Asked, CreateArgs, Args
<1>4. CASE step[r] \in Roles /\ CallAppend(s, User(r), ticket[r], step[r])
  <2>1. PICK id : Start(s, AppendArgs(User(r), ticket[r], step[r]), id)
    BY <1>1, <1>4 DEF CallAppend, Roles, Unknown
  <2> QED BY <1>4, <2>1 DEF Asked, AppendArgs, Args, Roles
<1> QED BY <1>2, <1>3, <1>4 DEF ToolCall

\* A tool node opening its call keeps the invariant.
LEMMA ToolCallStep ==
    ASSUME IInv, DeskInv, NEW r \in Runs, NEW s \in Sessions, ToolCall(r, s) PROVE DeskInv'
<1> USE DEF DeskInv
<1>1. /\ conn[r] = None /\ pc[s] = "idle" /\ reply[s] = NoReply /\ s # None
      /\ step[r] \in Tools
      /\ conn' = [conn EXCEPT ![r] = s]
      /\ maker' = IF step[r] = "create" THEN [maker EXCEPT ![fresh'[s]] = r] ELSE maker
      /\ UNCHANGED <<deskVars, step, mail, ticket, notes, had, stray>>
  BY RunsAssumption DEF ToolCall, Tools, ListTickets, CallList, CallCreate, CallAppend, Free
<1>2. PICK arguments, id :
              /\ Start(s, arguments, id) /\ Asked(r, arguments)
              /\ arguments.op # "escalate"
              /\ arguments.op = "create" => /\ step[r] = "create" /\ arguments.user = User(r)
                                            /\ id \in TicketIds \ (Stored \cup Reserved)
              /\ arguments.op # "create" => step[r] # "create"
  BY ToolCalls
<1>3. /\ UNCHANGED <<tickets, messages, reply>>
      /\ pc'[s] = "select" /\ call'[s] = arguments /\ fresh'[s] = id
      /\ \A x \in Sessions \ {s} : pc'[x] = pc[x] /\ call'[x] = call[x] /\ fresh'[x] = fresh[x]
      /\ conn'[r] = s /\ \A q \in Runs \ {r} : conn'[q] = conn[q]
  BY <1>1, <1>2 DEF Start, dbVars, IInv, TypeOK, DeskTypeOK
<1>4. \A q \in Runs : conn[q] # s
  BY <1>1 DEF CallOK
<1>5. \A q \in Runs : User(q)' = User(q)
  BY <1>1 DEF User
\* The id of a create is taken by no ticket and no other session.
<1>11. /\ \A t \in Stored : maker'[t] = maker[t]
       /\ \A x \in Sessions \ {s} : maker'[fresh[x]] = maker[fresh[x]]
       /\ arguments.op = "create" => maker'[fresh'[s]] = r
  <2>1. CASE step[r] = "create"
    <3>1. id \in TicketIds \ (Stored \cup Reserved)
      BY <1>2, <2>1
    <3>2. maker' = [maker EXCEPT ![id] = r] /\ maker \in [TicketIds -> Runs \cup {None}]
      BY <1>1, <1>3, <2>1 DEF DeskTypeOK
    <3> QED BY <1>3, <3>1, <3>2 DEF Reserved
  <2>2. CASE step[r] # "create"
    BY <1>1, <1>2, <2>2
  <2> QED BY <2>1, <2>2
<1>6. DeskTypeOK'
  <2>1. maker' \in [TicketIds -> Runs \cup {None}]
    BY <1>1, <1>2, <1>3 DEF DeskTypeOK
  <2> QED BY <1>1, <2>1 DEF DeskTypeOK, deskVars
<1>7. ASSUME NEW x \in Sessions PROVE ServeOK(x)' /\ CreatorOK(x)'
  <2>1. CASE x = s
    <3>1. ServeOK(s)'
      BY <1>1, <1>2, <1>3 DEF ServeOK
    <3>2. CreatorOK(s)'
      BY <1>1, <1>2, <1>3, <1>5, <1>11 DEF CreatorOK, Backs
    <3> QED BY <2>1, <3>1, <3>2
  <2>2. CASE x # s
    <3>1. ServeOK(x)'
      BY <1>3, <2>2 DEF ServeOK
    <3>2. CreatorOK(x)'
      <4> SUFFICES ASSUME pc[x] # "idle", call[x].op = "create"
                   PROVE  \E q \in Runs : Backs(q, x)'
        BY <1>3, <2>2 DEF CreatorOK
      <4>1. PICK q \in Runs : Backs(q, x)
        BY DEF CreatorOK
      <4>2. q # r
        BY <1>1, <4>1, RunsAssumption DEF Backs, Tools, Roles
      <4> QED BY <1>1, <1>3, <1>5, <1>11, <2>2, <4>1, <4>2 DEF Backs
    <3> QED BY <3>1, <3>2
  <2> QED BY <2>1, <2>2
<1>8. ASSUME NEW q \in Runs PROVE RunOK(q)' /\ CallOK(q)' /\ AnswerOK(q)'
  <2>1. RunOK(q)'
    <3>1. \A t : InScope(User(q), t)' = InScope(User(q), t)
      BY <1>1, <1>3, SameRun
    <3>2. step[r] # "idle" /\ UNCHANGED <<job, step, mail, ticket, notes, had>>
      BY <1>1 DEF Tools, Roles, deskVars
    <3>3. \A role : Noted(q, role)' = Noted(q, role)
      BY <1>3, <3>2 DEF Noted, StoredMessages
    <3> QED BY <1>3, <3>1, <3>2, <3>3 DEF RunOK
  <2>2. CallOK(q)'
    <3>1. CASE q = r
      BY <1>1, <1>2, <1>3, <1>4, <1>5, <3>1 DEF CallOK, Asked
    <3>2. CASE q # r
      BY <1>1, <1>3, <1>4, <1>5, <3>2 DEF CallOK, Asked, DeskTypeOK
    <3> QED BY <3>1, <3>2
  <2>3. AnswerOK(q)'
    <3>1. CASE q = r
      BY <1>1, <1>3, <3>1 DEF AnswerOK
    <3>2. CASE q # r
      BY <1>1, <1>3, <1>5, <3>2 DEF AnswerOK, Says, InScope, Stored, StoredMessages
    <3> QED BY <3>1, <3>2
  <2> QED BY <2>1, <2>2, <2>3
<1>9. AloneOK'
  <2> SUFFICES ASSUME stray = {} PROVE AloneOK'
    BY <1>1 DEF AloneOK
  <2>1. OneTicketEach'
    BY <1>3 DEF AloneOK, OneTicketEach, Stored
  <2>2. ASSUME NEW x \in Sessions, pc'[x] # "idle" PROVE \E q \in Runs : conn'[q] = x
    <3>1. CASE x = s
      BY <1>3, <3>1
    <3>2. CASE x # s
      <4>1. PICK q \in Runs : conn[q] = x
        BY <1>3, <2>2, <3>2 DEF AloneOK
      <4>2. q # r
        BY <1>1, <4>1, RunsAssumption
      <4> QED BY <1>3, <4>1, <4>2
    <3> QED BY <3>1, <3>2
  <2>3. ASSUME NEW q \in Runs, NoneYet(q)' PROVE NoneYet(q)
    <3>1. CASE q = r
      BY <1>1, <1>3, <2>3, <3>1 DEF NoneYet, NoReply, Answer
    <3>2. CASE q # r
      BY <1>1, <1>3, <1>4, <2>3, <3>2 DEF NoneYet, DeskTypeOK
    <3> QED BY <3>1, <3>2
  <2>4. ASSUME NEW q \in Runs
        PROVE  /\ Busy(q)' => q = job'
               /\ NoneYet(q)' => Mine(User(q))' = {}
               /\ step'[q] # "conflict"
               /\ conn'[q] # None => reply'[conn'[q]].kind # "CONFLICT"
    <3>1. (Busy(q)' => q = job') /\ step'[q] # "conflict"
      BY <1>1 DEF AloneOK, Busy, deskVars
    <3>2. NoneYet(q)' => Mine(User(q))' = {}
      BY <1>3, <1>5, <2>3 DEF AloneOK, Mine, Stored
    <3>3. conn'[q] # None => reply'[conn'[q]].kind # "CONFLICT"
      BY <1>1, <1>3 DEF AloneOK, NoReply, Answer
    <3> QED BY <3>1, <3>2, <3>3
  <2> QED BY <2>1, <2>2, <2>4 DEF AloneOK
<1>10. BareOK'
  <2> SUFFICES ASSUME NEW t \in Stored, ~ HasMail(t) PROVE \E q \in Runs : Accounts(q, t)'
    BY <1>3 DEF BareOK, HasMail, Stored, StoredMessages
  <2>1. PICK q \in Runs : Accounts(q, t)
    BY DEF BareOK
  <2> QED BY <1>1, <1>3, <1>5, <1>11, <2>1 DEF Accounts
<1> QED BY <1>6, <1>7, <1>8, <1>9, <1>10

----------------------------------------------------------------------------
(* The steps of the service, which leave the workflow alone. *)

\* What the runs hold and what they were told lasts.
LEMMA RunsLast ==
    ASSUME DeskInv, KeepsHistory, UNCHANGED <<deskVars, runVars>>
    PROVE  /\ DeskTypeOK'
           /\ \A r \in Runs : /\ RunOK(r)' /\ User(r)' = User(r)
                              /\ \A answer : Says(r, answer) => Says(r, answer)'
<1> USE DEF DeskInv, deskVars, runVars
<1>1. DeskTypeOK'
  BY DEF DeskTypeOK
<1>2. ASSUME NEW r \in Runs PROVE RunOK(r)' /\ User(r)' = User(r)
  <2>1. User(r)' = User(r)
    BY DEF User
  <2>2. \A t : InScope(User(r), t) => InScope(User(r), t)'
    BY <2>1 DEF KeepsHistory, InScope, Stored
  <2>3. \A role : Noted(r, role) => Noted(r, role)'
    BY DEF KeepsHistory, Noted, StoredMessages
  <2> QED BY <2>1, <2>2, <2>3 DEF RunOK
<1>3. ASSUME NEW r \in Runs, NEW answer, Says(r, answer) PROVE Says(r, answer)'
  <2>1. \A t : InScope(User(r), t) => InScope(User(r), t)'
    BY <1>2 DEF KeepsHistory, InScope, Stored
  <2>2. answer.id \in StoredMessages =>
            answer.id \in StoredMessages' /\ messages'[answer.id] = messages[answer.id]
    BY DEF KeepsHistory, StoredMessages
  <2> QED BY <1>3, <2>1, <2>2 DEF Says
<1> QED BY <1>1, <1>2, <1>3

\* A step under which no session starts, moves or answers a run, and no ticket
\* or message comes, keeps the invariant.
LEMMA RestStep ==
    ASSUME IInv, DeskInv, KeepsHistory, UNCHANGED <<deskVars, runVars>>,
           Stored' = Stored, UNCHANGED <<messages, pc, call, fresh>>,
           \A s \in Sessions : \/ reply'[s] = reply[s]
                               \/ reply'[s] = NoReply /\ \A r \in Runs : conn[r] # s
    PROVE  DeskInv'
<1> USE DEF DeskInv, deskVars, runVars
<1>1. /\ DeskTypeOK'
      /\ \A r \in Runs : /\ RunOK(r)' /\ User(r)' = User(r)
                         /\ \A answer : Says(r, answer) => Says(r, answer)'
  BY RunsLast
<1>2. \A r \in Runs : conn[r] # None =>
         conn[r] \in Sessions /\ reply'[conn[r]] = reply[conn[r]]
  BY DEF DeskTypeOK
<1>3. \A t \in Stored : tickets'[t].user = tickets[t].user
  BY DEF KeepsHistory
<1>4. \A s \in Sessions : ServeOK(s)' /\ CreatorOK(s)'
  BY <1>1 DEF ServeOK, CreatorOK, Backs
<1>5. ASSUME NEW r \in Runs PROVE CallOK(r)' /\ AnswerOK(r)'
  BY <1>1, <1>2 DEF CallOK, Asked, AnswerOK
<1>6. AloneOK'
  <2> SUFFICES ASSUME stray = {} PROVE AloneOK'
    BY DEF AloneOK
  <2>1. OneTicketEach'
    BY <1>3 DEF AloneOK, OneTicketEach
  <2>2. ASSUME NEW r \in Runs PROVE NoneYet(r)' => Mine(User(r))' = {}
    <3>1. NoneYet(r)' => NoneYet(r)
      BY <1>2 DEF NoneYet
    <3>2. Mine(User(r))' = Mine(User(r))
      BY <1>1, <1>3 DEF Mine
    <3> QED BY <3>1, <3>2 DEF AloneOK
  <2> QED BY <1>2, <2>1, <2>2 DEF AloneOK, Busy
<1>7. BareOK'
  <2> SUFFICES ASSUME NEW t \in Stored, ~ HasMail(t) PROVE \E r \in Runs : Accounts(r, t)'
    BY DEF BareOK, HasMail, StoredMessages
  <2>1. PICK r \in Runs : Accounts(r, t)
    BY DEF BareOK
  <2> QED BY <1>1, <1>2, <1>3, <2>1 DEF Accounts
<1> QED BY <1>1, <1>4, <1>5, <1>6, <1>7

\* The clock, an escalation, and a caller that reads an answer no run waits for.
LEMMA QuietServiceStep ==
    ASSUME IInv, DeskInv, KeepsHistory, UNCHANGED <<deskVars, runVars>>,
           \/ Tick \/ EscalateNow
           \/ \E s \in Sessions : (\A r \in Runs : conn[r] # s) /\ ReadReply(s)
    PROVE  DeskInv'
<1>1. CASE Tick
  BY <1>1, RestStep DEF Tick, dbVars, sessionVars, Stored
<1>2. CASE EscalateNow
  <2>1. Stored' = Stored
    BY <1>2, EscalateNowEffect DEF Stored
  <2> QED BY <1>2, <2>1, EscalateNowEffect, RestStep DEF sessionVars
<1>3. ASSUME NEW s \in Sessions, \A r \in Runs : conn[r] # s, ReadReply(s) PROVE DeskInv'
  <2>1. \A x \in Sessions : reply'[x] = IF x = s THEN NoReply ELSE reply[x]
    BY <1>3 DEF ReadReply, IInv, TypeOK
  <2> QED BY <1>3, <2>1, RestStep DEF ReadReply, dbVars, Stored
<1> QED BY <1>1, <1>2, <1>3

\* A session goes on with its call, or ends it with answer a.
OthersRest(s) ==
    \A x \in Sessions \ {s} : /\ pc'[x] = pc[x] /\ call'[x] = call[x]
                               /\ fresh'[x] = fresh[x] /\ reply'[x] = reply[x]
GoesOn(s) ==
    /\ pc'[s] # "idle" /\ call'[s] = call[s] /\ fresh'[s] = fresh[s] /\ reply'[s] = NoReply
    /\ UNCHANGED <<tickets, messages>>
EndsWith(s, a) == pc'[s] = "idle" /\ call'[s] = NoCall /\ reply'[s] = a

\* What an answer that writes nothing says of the tables.
ReadsOnly(s, a) ==
    /\ UNCHANGED <<tickets, messages>>
    /\ \/ a = Refused("failed")
       \/ call[s].op = "create" /\ a = Refused("CONFLICT") /\ ActiveOf(call[s].user) # {}
       \/ call[s].op = "append" /\ ~ InScope(call[s].user, call[s].ticket)
       \/ /\ call[s].op = "list" /\ a.kind = "listed" /\ a.id = None
          /\ \A t \in Mine(call[s].user) : tickets[t].status \notin call[s].statuses
       \/ /\ call[s].op = "list" /\ a.kind = "listed" /\ a.id # None
          /\ InScope(call[s].user, a.id)

\* A commit writes its row, whether its answer arrives or not.
Created(s, a) ==
    /\ call[s].op = "create" /\ UNCHANGED messages
    /\ fresh[s] \in TicketIds \ Stored
    /\ tickets'[fresh[s]] # None /\ tickets'[fresh[s]].user = call[s].user
    /\ \A t \in TicketIds \ {fresh[s]} : tickets'[t] = tickets[t]
    /\ a \in {Answer("created", fresh[s], {}), Refused("failed")}
Appended(s, a) ==
    /\ call[s].op = "append" /\ Stored' = Stored
    /\ fresh[s] \in StoredMessages'
    /\ messages'[fresh[s]].ticket = call[s].ticket
    /\ messages'[fresh[s]].role = call[s].role
    /\ a \in {Answer("appended", fresh[s], {}), Refused("failed")}
Writes(s, a) == Created(s, a) \/ Appended(s, a)

\* The cases of a session's step.
LEMMA SessionCases ==
    ASSUME IInv, DeskInv, NEW s \in Sessions, Work(s) \/ Rollback(s)
    PROVE  /\ pc[s] # "idle" /\ reply[s] = NoReply /\ OthersRest(s)
           /\ \/ GoesOn(s)
              \/ \E a : a # NoReply /\ EndsWith(s, a) /\ (ReadsOnly(s, a) \/ Writes(s, a))
<1> DEFINE Ends == \E a : a # NoReply /\ EndsWith(s, a) /\ (ReadsOnly(s, a) \/ Writes(s, a))
<1>0. /\ call[s].op # "escalate" /\ (reply[s] # NoReply => pc[s] = "idle")
      /\ SessionOK(s) /\ CreateOK(s) /\ AppendOK(s) /\ TypeOK
  BY DEF DeskInv, ServeOK, IInv
<1>1. ASSUME NEW a, Close(s, a)
      PROVE  EndsWith(s, a) /\ OthersRest(s)
  BY <1>0, <1>1 DEF Close, TypeOK, EndsWith, OthersRest
<1>2. \A code \in Codes : Refused(code) # NoReply /\ Refused(code).kind = code
  BY DEF Refused, NoReply, Answer, Codes
<1>3. pc[s] # "idle" /\ reply[s] = NoReply
  <2>1. pc[s] # "idle"
    BY DEF Work, Rollback, SelectActive, FlushTicket, CommitCreate, SelectMine, SelectTicket,
           CommitAppend, SelectStale, CommitEscalate, FlushRow, FlushDone
  <2> QED BY <1>0, <2>1
<1>4. ASSUME \/ pc' = [pc EXCEPT ![s] = "flush"] \/ pc' = [pc EXCEPT ![s] = "commit"]
             \/ pc' = pc,
             UNCHANGED <<tickets, messages, call, fresh, reply>>
      PROVE  GoesOn(s) /\ OthersRest(s)
  BY <1>0, <1>3, <1>4 DEF TypeOK, GoesOn, OthersRest
<1>5. CASE SelectActive(s)
  <2>1. CASE ActiveOf(call[s].user) # {}
    BY <1>1, <1>2, <1>3, <1>5, <2>1 DEF SelectActive, ReadsOnly, dbVars, Codes
  <2>2. CASE ActiveOf(call[s].user) = {}
    BY <1>3, <1>4, <1>5, <2>2 DEF SelectActive, Loaded, dbVars
  <2> QED BY <2>1, <2>2
<1>6. CASE FlushTicket(s) \/ FlushRow(s) \/ FlushDone(s)
  BY <1>3, <1>4, <1>6 DEF FlushTicket, FlushRow, FlushDone, dbVars
<1>7. CASE SelectTicket(s)
  <2>1. CASE ~ InScope(call[s].user, call[s].ticket)
    BY <1>1, <1>2, <1>3, <1>7, <2>1 DEF SelectTicket, ReadsOnly, dbVars, Codes
  <2>2. CASE InScope(call[s].user, call[s].ticket)
    BY <1>3, <1>4, <1>7, <2>2 DEF SelectTicket, Loaded, dbVars
  <2> QED BY <2>1, <2>2
<1>8. CASE SelectMine(s)
  <2> DEFINE mine == {t \in Stored : /\ tickets[t].user = call[s].user
                                     /\ tickets[t].status \in call[s].statuses}
  <2>1. ASSUME NEW t, NEW rows
        PROVE  /\ Answer("listed", t, rows) # NoReply /\ Answer("listed", t, rows).kind = "listed"
               /\ Answer("listed", t, rows).id = t
    BY DEF Answer, NoReply
  <2>2. CASE mine = {} /\ Close(s, Answer("listed", None, {}))
    BY <1>1, <1>3, <1>8, <2>1, <2>2 DEF SelectMine, ReadsOnly, Mine, dbVars
  <2>3. ASSUME NEW t \in mine, Close(s, Answer("listed", t, mine)) PROVE Ends /\ OthersRest(s)
    <3>1. InScope(call[s].user, t) /\ t # None
      BY IdsAssumption DEF InScope, Stored
    <3> QED BY <1>1, <1>8, <2>1, <2>3, <3>1 DEF SelectMine, ReadsOnly, dbVars
  <2> QED BY <1>3, <1>8, <2>2, <2>3 DEF SelectMine
<1>9. CASE CommitCreate(s)
  <2>1. PICK a \in {Answer("created", fresh[s], {}), Refused("failed")} : Close(s, a)
    BY <1>9 DEF CommitCreate
  <2>2. a # NoReply
    BY <1>2, <2>1 DEF Answer, NoReply, Refused
  <2>3. fresh[s] \in TicketIds \ Stored
    BY <1>0, <1>9 DEF CommitCreate, CreateOK
  <2>4. /\ tickets'[fresh[s]].user = call[s].user /\ tickets'[fresh[s]] # None
        /\ \A t \in TicketIds \ {fresh[s]} : tickets'[t] = tickets[t]
    <3>1. call[s].user \in Users /\ call[s].category \in Categories /\ stamp[s] \in Time
      BY <1>0, <1>9 DEF CommitCreate, CreateOK, TypeOK
    <3>2. [user |-> call[s].user, category |-> call[s].category, status |-> "open",
           created |-> stamp[s], updated |-> stamp[s]] \in TicketRow
      BY <3>1 DEF TicketRow, Statuses
    <3> QED BY <1>0, <1>9, <2>3, <3>2, IdsAssumption DEF CommitCreate, TypeOK
  <2>5. Created(s, a)
    BY <1>9, <2>1, <2>3, <2>4 DEF Created, CommitCreate
  <2> QED BY <1>1, <1>3, <2>1, <2>2, <2>5 DEF Writes
<1>10. CASE CommitAppend(s)
  <2>1. PICK a \in {Answer("appended", fresh[s], {}), Refused("failed")} : Close(s, a)
    BY <1>10 DEF CommitAppend
  <2>2. a # NoReply
    BY <2>1 DEF Answer, NoReply, Refused
  <2>3. /\ fresh[s] \in MessageIds \ StoredMessages /\ call[s].ticket \in Stored
        /\ call[s].user \in Users /\ call[s].role \in Roles
    BY <1>0, <1>10 DEF CommitAppend, AppendOK, InScope
  <2>4. /\ messages'[fresh[s]].ticket = call[s].ticket /\ messages'[fresh[s]].role = call[s].role
        /\ messages'[fresh[s]] # None
    <3>1. [ticket |-> call[s].ticket, role |-> call[s].role, by |-> call[s].user] \in MessageRow
      BY <2>3 DEF MessageRow, Stored
    <3> QED BY <1>0, <1>10, <2>3, <3>1, IdsAssumption DEF CommitAppend, TypeOK
  <2>5. Stored' = Stored
    <3>1. tickets[call[s].ticket] \in TicketRow /\ stamp[s] \in Time
      BY <1>0, <2>3 DEF TypeOK, Stored
    <3>2. TouchedRow(tickets[call[s].ticket], stamp[s]) # None
      BY <3>1, RowUpdates, IdsAssumption
    <3> QED BY <1>0, <1>10, <2>3, <3>2 DEF CommitAppend, TypeOK, Stored
  <2>6. Appended(s, a)
    BY <1>10, <2>1, <2>3, <2>4, <2>5 DEF Appended, CommitAppend, StoredMessages
  <2> QED BY <1>1, <1>3, <2>1, <2>2, <2>6 DEF Writes
<1>11. CASE Rollback(s)
  <2>1. Close(s, Refused("failed")) /\ UNCHANGED dbVars
    BY <1>0, <1>11 DEF Rollback
  <2> QED BY <1>1, <1>2, <1>3, <2>1 DEF ReadsOnly, dbVars, Codes
<1>12. ~ SelectStale(s) /\ ~ CommitEscalate(s)
  BY <1>0 DEF SelectStale, CommitEscalate
<1> QED BY <1>5, <1>6, <1>7, <1>8, <1>9, <1>10, <1>11, <1>12 DEF Work

\* A session's step keeps the invariant.
LEMMA SessionStep ==
    ASSUME IInv, DeskInv, KeepsHistory, UNCHANGED <<deskVars, runVars>>,
           NEW s \in Sessions, Work(s) \/ Rollback(s)
    PROVE  DeskInv'
<1> USE DEF DeskInv, deskVars, runVars
<1>0. /\ DeskTypeOK'
      /\ \A r \in Runs : /\ RunOK(r)' /\ User(r)' = User(r)
                         /\ \A answer : Says(r, answer) => Says(r, answer)'
  BY RunsLast
<1>1. /\ pc[s] # "idle" /\ reply[s] = NoReply /\ OthersRest(s)
      /\ \/ GoesOn(s)
         \/ \E a : a # NoReply /\ EndsWith(s, a) /\ (ReadsOnly(s, a) \/ Writes(s, a))
  BY SessionCases
<1>2. /\ \A t \in Stored : tickets'[t].user = tickets[t].user /\ t \in Stored'
      /\ \A t : HasMail(t) => HasMail(t)'
  BY Lasting
\* What an ending call tells the run that waits for it.
<1>3. ASSUME NEW r \in Runs, conn[r] = s
      PROVE  /\ conn[r] # None /\ Asked(r, call[s]) /\ step[r] \in Tools /\ RunOK(r)
             /\ call[s].op = "create" <=> step[r] = "create"
             /\ call[s].op = "list" <=> step[r] = "list"
             /\ call[s].op = "append" <=> step[r] \in Roles
             /\ call[s].user = User(r)
             /\ call[s].op = "append" => /\ call[s].ticket = ticket[r]
                                         /\ call[s].role = step[r]
             /\ call[s].op = "list" => call[s].statuses = Listed
  <2>1. conn[r] # None /\ Asked(r, call[s]) /\ step[r] \in Tools /\ RunOK(r)
    BY <1>1, <1>3, RunsAssumption DEF CallOK
  <2>2. CASE step[r] = "list" /\ call[s] = ListArgs(User(r), Listed)
    BY <2>1, <2>2 DEF ListArgs, Args, Roles
  <2>3. CASE step[r] = "create" /\ \E c \in Categories : call[s] = CreateArgs(User(r), c)
    BY <2>1, <2>3 DEF CreateArgs, Args, Roles
  <2>4. CASE step[r] \in Roles /\ call[s] = AppendArgs(User(r), ticket[r], step[r])
    BY <2>1, <2>4 DEF AppendArgs, Args, Roles
  <2> QED BY <2>1, <2>2, <2>3, <2>4 DEF Asked
<1>4. \A t \in Stored : tickets[t].status \in Listed /\ tickets[t].status # "closed"
  BY DEF IInv, StatusOK, Listed
<1>5. ASSUME NEW r \in Runs, conn[r] = s, NEW a, EndsWith(s, a), ReadsOnly(s, a) \/ Writes(s, a)
      PROVE  Says(r, a)'
  <2>1. CASE a = Refused("failed")
    BY <2>1 DEF Says, Refused, Answer
  <2>2. CASE call[s].op = "create" /\ a = Refused("CONFLICT")
    BY <1>3, <1>5, <2>2 DEF Says, Refused, Answer
  <2>3. CASE call[s].op = "append" /\ ~ InScope(call[s].user, call[s].ticket)
    BY <1>3, <1>5, <2>3 DEF RunOK
  <2>4. CASE /\ call[s].op = "list" /\ a.kind = "listed" /\ a.id = None
             /\ \A t \in Mine(call[s].user) : tickets[t].status \notin call[s].statuses
    <3>1. Mine(User(r)) = {}
      BY <1>3, <1>4, <1>5, <2>4 DEF Mine
    <3>2. had[r] = {}
      BY <1>3, <1>5, <3>1 DEF RunOK, InScope, Mine
    <3> QED BY <1>3, <1>5, <2>4, <3>2 DEF Says
  <2>5. CASE /\ call[s].op = "list" /\ a.kind = "listed" /\ a.id # None
             /\ InScope(call[s].user, a.id)
    <3>1. Says(r, a)
      BY <1>3, <1>5, <2>5 DEF Says
    <3> QED BY <1>0, <3>1
  <2>6. CASE Created(s, a) /\ a = Answer("created", fresh[s], {})
    <3>1. a.kind = "created" /\ a.id = fresh[s] /\ step[r] = "create"
      BY <1>3, <1>5, <2>6 DEF Created, Answer
    <3>2. \A t : t = fresh[s] => InScope(User(r), t)'
      BY <1>0, <1>3, <1>5, <2>6 DEF Created, InScope, Stored
    <3> QED BY <3>1, <3>2 DEF Says
  <2>7. CASE Appended(s, a) /\ a = Answer("appended", fresh[s], {})
    <3>1. a.kind = "appended" /\ a.id = fresh[s] /\ step[r] \in Roles
      BY <1>3, <1>5, <2>7 DEF Appended, Answer
    <3> QED BY <1>3, <1>5, <2>7, <3>1 DEF Says, Appended
  <2> QED BY <1>5, <2>1, <2>2, <2>3, <2>4, <2>5, <2>6, <2>7
          DEF ReadsOnly, Writes, Created, Appended
<1>6. ASSUME NEW x \in Sessions PROVE ServeOK(x)' /\ CreatorOK(x)'
  <2>1. CASE x # s \/ GoesOn(s)
    BY <1>0, <1>1, <2>1 DEF OthersRest, GoesOn, ServeOK, CreatorOK, Backs
  <2>2. CASE x = s /\ \E a : EndsWith(s, a)
    BY <2>2 DEF EndsWith, ServeOK, CreatorOK, NoCall, Args
  <2> QED BY <1>1, <2>1, <2>2
<1>7. ASSUME NEW r \in Runs PROVE CallOK(r)' /\ AnswerOK(r)'
  <2>1. CASE conn[r] # s
    BY <1>0, <1>1, <2>1 DEF OthersRest, CallOK, Asked, AnswerOK, DeskTypeOK
  <2>2. CASE conn[r] = s /\ GoesOn(s)
    BY <1>0, <1>1, <2>2 DEF GoesOn, CallOK, Asked, AnswerOK
  <2>3. ASSUME conn[r] = s, NEW a, a # NoReply, EndsWith(s, a),
               ReadsOnly(s, a) \/ Writes(s, a)
        PROVE  CallOK(r)' /\ AnswerOK(r)'
    BY <1>5, <2>3 DEF EndsWith, CallOK, AnswerOK
  <2> QED BY <1>1, <2>1, <2>2, <2>3
<1>8. AloneOK'
  <2> SUFFICES ASSUME stray = {} PROVE AloneOK'
    BY DEF AloneOK
  <2> USE DEF AloneOK
  <2>1. PICK r \in Runs : conn[r] = s /\ r = job /\ Busy(r)
    <3>1. PICK r \in Runs : conn[r] = s
      BY <1>1
    <3> QED BY <1>3, <3>1 DEF Busy
  <2>2. \A q \in Runs \ {r} : ~ Busy(q) /\ ~ NoneYet(q)
    BY <2>1 DEF Busy, NoneYet, Tools
  <2>3. \A q \in Runs \ {r} : ~ Busy(q)' /\ ~ NoneYet(q)'
    BY <2>2 DEF Busy, NoneYet, Tools
  <2>4. \A x \in Sessions : pc'[x] # "idle" => \E q \in Runs : conn'[q] = x
    BY <1>1 DEF OthersRest
  <2>5. call[s].op = "create" => Mine(User(r)) = {}
    BY <1>1, <1>3, <2>1 DEF NoneYet
  <2>6. OneTicketEach'
    <3>1. CASE UNCHANGED tickets
      BY <3>1 DEF OneTicketEach, Stored
    <3>2. CASE Stored' = Stored
      BY <1>2, <3>2 DEF OneTicketEach
    <3>3. ASSUME NEW a, Created(s, a) PROVE OneTicketEach'
      <4>1. /\ Stored' = Stored \cup {fresh[s]}
            /\ tickets'[fresh[s]].user = User(r)
            /\ \A t \in Stored : tickets[t].user # User(r)
        BY <1>3, <2>1, <2>5, <3>3 DEF Created, Stored, Mine
      <4> QED BY <1>2, <4>1 DEF OneTicketEach
    <3> QED BY <1>1, <3>1, <3>2, <3>3 DEF GoesOn, ReadsOnly, Writes, Appended
  <2>7. ASSUME NoneYet(r)' PROVE Mine(User(r))' = {}
    <3>1. CASE GoesOn(s)
      <4>1. NoneYet(r)
        BY <1>1, <2>1, <2>7, <3>1 DEF GoesOn, NoneYet
      <4> QED BY <1>0, <3>1, <4>1 DEF GoesOn, Mine, Stored
    <3>2. ASSUME NEW a, EndsWith(s, a), ReadsOnly(s, a) \/ Writes(s, a)
          PROVE  Mine(User(r))' = {}
      <4>1. step[r] = "list" /\ a.kind = "listed" /\ a.id = None
        BY <1>3, <2>1, <2>7, <3>2 DEF NoneYet, EndsWith, Tools, Roles
      <4>2. call[s].op = "list" /\ call[s].statuses = Listed /\ call[s].user = User(r)
        BY <1>3, <2>1, <4>1
      <4>3. UNCHANGED tickets /\ \A t \in Mine(User(r)) : tickets[t].status \notin Listed
        BY <3>2, <4>1, <4>2 DEF ReadsOnly, Writes, Created, Appended, Refused, Answer
      <4> QED BY <1>0, <1>4, <4>3 DEF Mine, Stored
    <3> QED BY <1>1, <3>1, <3>2
  <2>8. \A q \in Runs : conn'[q] # None => reply'[conn'[q]].kind # "CONFLICT"
    <3>1. \A q \in Runs \ {r} : conn[q] = None
      BY <2>2 DEF CallOK, Busy
    <3>2. CASE GoesOn(s)
      BY <2>1, <3>1, <3>2 DEF GoesOn, NoReply, Answer
    <3>3. ASSUME NEW a, EndsWith(s, a), ReadsOnly(s, a) \/ Writes(s, a),
                 a.kind = "CONFLICT"
          PROVE  FALSE
      <4>1. Says(r, a)'
        BY <1>5, <2>1, <3>3
      <4>2. step[r] = "create"
        BY <3>3, <4>1 DEF Says
      <4>3. call[s].op = "create" /\ call[s].user = User(r) /\ Mine(User(r)) = {}
        BY <1>3, <2>1, <2>5, <4>2
      <4>4. ActiveOf(call[s].user) = {}
        BY <4>3 DEF ActiveOf, Mine
      <4> QED BY <3>3, <4>3, <4>4
              DEF ReadsOnly, Writes, Created, Appended, Refused, Answer
    <3> QED BY <1>1, <2>1, <3>1, <3>2, <3>3 DEF EndsWith
  <2>9. Busy(r)' => r = job'
    BY <2>1
  <2> QED BY <2>3, <2>4, <2>6, <2>7, <2>8, <2>9
<1>9. BareOK'
  <2>1. ASSUME NEW t \in Stored, ~ HasMail(t) PROVE \E r \in Runs : Accounts(r, t)'
    <3>1. PICK r \in Runs : Accounts(r, t)
      BY <2>1 DEF BareOK
    <3>2. step[r] = "create" /\ conn[r] # None
             /\ reply[conn[r]] \in {Answer("created", t, {}), Refused("failed")}
          => conn[r] # s /\ conn[r] \in Sessions
      BY <1>1 DEF DeskTypeOK, NoReply, Answer, Refused
    <3> QED BY <1>0, <1>1, <1>2, <3>1, <3>2 DEF Accounts, OthersRest
  <2>2. ASSUME NEW t \in Stored', t \notin Stored PROVE \E r \in Runs : Accounts(r, t)'
    <3>1. PICK a : EndsWith(s, a) /\ Created(s, a)
      BY <1>1, <2>2 DEF GoesOn, ReadsOnly, Writes, Appended, Stored
    <3>2. t = fresh[s]
      BY <2>2, <3>1 DEF Created, Stored
    <3>3. PICK r \in Runs : Backs(r, s)
      BY <1>1, <3>1 DEF CreatorOK, Created
    <3>4. User(r)' = tickets'[t].user /\ step[r] # "idle" /\ maker[t] = r
      BY <1>0, <3>1, <3>2, <3>3 DEF Backs, Created
    <3>5. CASE step[r] = "failed"
      BY <3>4, <3>5 DEF Accounts
    <3>6. CASE step[r] = "create" /\ conn[r] = s
      BY <3>1, <3>2, <3>4, <3>6, RunsAssumption DEF Accounts, EndsWith, Created
    <3> QED BY <3>3, <3>5, <3>6 DEF Backs
  <2> QED BY <1>2, <2>1, <2>2 DEF BareOK
<1> QED BY <1>0, <1>6, <1>7, <1>8, <1>9

----------------------------------------------------------------------------
(* The invariant of the workflow and what follows from it. *)

LEMMA DeskStep == IInv /\ DeskInv /\ [DeskNext]_allVars => IInv' /\ DeskInv'
<1> SUFFICES ASSUME IInv, DeskInv, [DeskNext]_allVars PROVE IInv' /\ DeskInv'
  OBVIOUS
<1>1. IInv' /\ KeepsHistory
  BY DeskKeepsIInv, DeskHistory
<1>2. ASSUME NEW m \in Mails, NEW r \in Runs, Post(m, r) PROVE DeskInv'
  BY <1>2, PostStep
<1>3. CASE Respond \/ Missed
  BY <1>1, <1>3, TurnStep
<1>4. ASSUME NEW r \in Runs, RunStep(r) PROVE DeskInv'
  BY <1>4, NodeStep, ToolReplyStep, ToolLostStep, ToolCallStep DEF RunStep
<1>5. CASE Service
  BY <1>1, <1>5, QuietServiceStep, SessionStep DEF Service
<1>6. CASE UNCHANGED allVars
  <2>1. UNCHANGED <<deskVars, runVars>> /\ UNCHANGED <<messages, pc, call, fresh, reply, tickets>>
    BY <1>6 DEF allVars, vars
  <2> QED BY <1>1, <2>1, RestStep DEF Stored
<1> QED BY <1>1, <1>2, <1>3, <1>4, <1>5, <1>6 DEF DeskNext

\* In every state of the workflow's specification the service's invariant and
\* the workflow's hold together.
THEOREM DeskInvariance == DeskSpec => [](IInv /\ DeskInv)
<1>1. DeskInit => IInv /\ DeskInv
  BY DeskStarts, InductiveInit DEF DeskInit
<1> QED BY <1>1, DeskStep, PTL DEF DeskSpec

\* The variables of the workflow keep their types.
THEOREM DeskTypeCorrect == DeskSpec => []DeskTypeOK
<1>1. DeskInv => DeskTypeOK
  BY DEF DeskInv
<1> QED BY <1>1, DeskInvariance, PTL

\* As long as the gateway leaves nothing behind, the workflow's own check is
\* enough for one ticket per employee, with any number of mails and runs.
THEOREM SecondTicketIsLeftBehind == DeskSpec => []TwoActiveNeedOverlap
<1>1. DeskInv => TwoActiveNeedOverlap
  BY DEF DeskInv, AloneOK, OneTicketEach, TwoActiveNeedOverlap
<1> QED BY <1>1, DeskInvariance, PTL

\* And no run fails on the CONFLICT of its create-ticket.
THEOREM ConflictIsLeftBehind == DeskSpec => []ConflictNeedsOverlap
<1>1. DeskInv => ConflictNeedsOverlap
  BY DEF DeskInv, AloneOK, ConflictNeedsOverlap
<1> QED BY <1>1, DeskInvariance, PTL

\* A run that ends well goes to the ticket its sender had when it was posted.
THEOREM FollowUpsAreAppended == DeskSpec => []FollowUpAppends
<1>1. ASSUME DeskInv PROVE FollowUpAppends
  <2> SUFFICES ASSUME NEW r \in Runs, step[r] = "done", had[r] # {}
               PROVE  ticket[r] # None /\ (stray = {} => ticket[r] \in had[r])
    BY DEF FollowUpAppends
  <2>1. RunOK(r) /\ AloneOK
    BY <1>1 DEF DeskInv
  <2>2. ticket[r] # None
    BY <2>1 DEF RunOK
  <2>3. ASSUME stray = {} PROVE ticket[r] \in had[r]
    <3>1. PICK t \in had[r] : InScope(User(r), t)
      BY <2>1 DEF RunOK
    <3>2. InScope(User(r), ticket[r])
      BY <2>1, <2>2 DEF RunOK
    <3> QED BY <2>1, <2>3, <3>1, <3>2 DEF AloneOK, OneTicketEach, InScope
  <2> QED BY <2>2, <2>3
<1> QED BY <1>1, DeskInvariance, PTL

\* The mail and the answer of a run that ends well are on the ticket it names.
THEOREM ReportsAreRecorded == DeskSpec => []ReportedIsRecorded
<1>1. DeskInv => ReportedIsRecorded
  BY DEF DeskInv, RunOK, ReportedIsRecorded, Noted
<1> QED BY <1>1, DeskInvariance, PTL

\* A ticket stays without its employee's mail only by the run that made it,
\* which failed after that or has yet to append.
THEOREM BareTicketsHaveAFailure == DeskSpec => []BareNeedsFailure
<1>1. ASSUME DeskInv PROVE BareNeedsFailure
  <2> SUFFICES ASSUME NEW t \in Stored, ~ HasMail(t)
               PROVE  \E r \in Runs :
                         /\ maker[t] = r /\ User(r) = tickets[t].user
                         /\ \/ step[r] = "failed"
                            \/ step[r] = "create" /\ conn[r] # None
                            \/ step[r] = "user" /\ ticket[r] = t
    BY DEF BareNeedsFailure
  <2>1. PICK r \in Runs : Accounts(r, t)
    BY <1>1 DEF DeskInv, BareOK
  <2> QED BY <2>1 DEF Accounts
<1> QED BY <1>1, DeskInvariance, PTL
=============================================================================
