------------------------- MODULE HelpdeskRefinement -------------------------
(***************************************************************************)
(* The help desk as its employees see it.  When nothing is left going on,  *)
(* the workflow on the interleaved service implements TicketBook: the      *)
(* unguarded create-ticket does not show, because the workflow lists       *)
(* before it creates and the gateway has one mail in hand.  Whatever is    *)
(* left going on, the service keeps its other promises under the workflow. *)
(***************************************************************************)
EXTENDS HelpdeskProofs

\* A create commits for the run the gateway waits for, which found no ticket.
LEMMA CreatorFoundNone ==
    ASSUME IInv, DeskInv, stray = {}, NEW s \in Sessions, CommitCreate(s)
    PROVE  ActiveOf(call[s].user) = {}
<1>1. pc[s] = "commit" /\ call[s].op = "create"
  BY DEF CommitCreate
<1>2. PICK r \in Runs : conn[r] = s
  BY <1>1 DEF DeskInv, AloneOK
<1>3. /\ conn[r] # None /\ pc[conn[r]] # "idle"
      /\ Asked(r, call[s])
  BY <1>1, <1>2, RunsAssumption DEF DeskInv, CallOK
<1>4. step[r] = "create" /\ call[s].user = User(r)
  <2>1. CASE step[r] = "list" /\ call[s] = ListArgs(User(r), Listed)
    BY <1>1, <2>1 DEF ListArgs, Args
  <2>2. CASE step[r] = "create" /\ \E c \in Categories : call[s] = CreateArgs(User(r), c)
    BY <2>2 DEF CreateArgs, Args
  <2>3. CASE step[r] \in Roles /\ call[s] = AppendArgs(User(r), ticket[r], step[r])
    BY <1>1, <2>3 DEF AppendArgs, Args
  <2> QED BY <1>3, <2>1, <2>2, <2>3 DEF Asked
<1>5. Mine(User(r)) = {}
  BY <1>3, <1>4 DEF DeskInv, AloneOK, NoneYet
<1> QED BY <1>4, <1>5 DEF Mine, ActiveOf

\* An escalation at its commit is one of the book.
LEMMA EscalateNowShown == ASSUME IInv, EscalateNow PROVE Book!BookNext
<1> DEFINE batch == Stale(now - EscalationSeconds)
<1>1. /\ TypeOK /\ now \in Nat /\ EscalationSeconds \in Ages /\ EscalationSeconds \in Nat
  BY ClockAssumption DEF IInv, TypeOK, Time
<1>2. /\ batch \subseteq Stored
      /\ \A t \in batch : /\ tickets[t].status = "open"
                          /\ tickets[t].created + EscalationSeconds < now
  <2>1. \A t \in Stored : tickets[t].created \in Nat
    BY <1>1, ClockAssumption DEF TypeOK, Stored, TicketRow, Time
  <2> QED BY <1>1, <2>1 DEF Stale
<1>3. /\ \A t \in batch : tickets'[t] = EscalatedRow(tickets[t], now)
      /\ \A t \in TicketIds \ batch : tickets'[t] = tickets[t]
      /\ messages' = messages /\ now' = now
  BY DEF EscalateNow, Stale, Stored
<1>4. \A t \in batch : /\ tickets'[t] # None
                       /\ Shown(tickets'[t]) = [Shown(tickets[t]) EXCEPT !.status = "escalated"]
  <2> SUFFICES ASSUME NEW t \in batch
               PROVE  /\ tickets'[t] # None
                      /\ Shown(tickets'[t]) = [Shown(tickets[t]) EXCEPT !.status = "escalated"]
    OBVIOUS
  <2>1. tickets[t] \in TicketRow /\ now \in Time
    BY <1>1, <1>2 DEF TypeOK, Stored
  <2>2. /\ EscalatedRow(tickets[t], now) \in TicketRow
        /\ EscalatedRow(tickets[t], now).status = "escalated"
        /\ SameTicket(EscalatedRow(tickets[t], now), tickets[t])
    BY <2>1, RowUpdates
  <2>3. tickets'[t] \in TicketRow
    BY <1>3, <2>2
  <2> QED BY <1>3, <2>2, <2>3, IdsAssumption DEF Shown, SameTicket
<1> HIDE DEF batch
<1>5. Rows' = [t \in TicketIds |->
         IF t \in batch THEN [Rows[t] EXCEPT !.status = "escalated"] ELSE Rows[t]]
  <2> SUFFICES ASSUME NEW t \in TicketIds
               PROVE  Rows'[t] = IF t \in batch THEN [Rows[t] EXCEPT !.status = "escalated"]
                                 ELSE Rows[t]
    BY DEF Rows
  <2>1. CASE t \in batch
    BY <1>2, <1>4, <2>1 DEF Rows, Stored
  <2>2. CASE t \notin batch
    BY <1>3, <2>2 DEF Rows
  <2> QED BY <2>1, <2>2
<1>6. \A t \in batch : \E age \in Ages : Rows[t].created + age < now
  BY <1>1, <1>2, RowShown DEF Stored
<1>7. Book!EscalateAll(batch)
  BY <1>1, <1>2, <1>3, <1>5, <1>6, RowShown, OpenedShown DEF Book!EscalateAll, Stored
<1> QED BY <1>2, <1>7 DEF Book!BookNext, Stored

\* As long as nothing is left going on, the help desk is a book of tickets: an
\* employee's mails open one ticket and go on it, escalated or not, with any
\* number of employees, mails, runs and sessions.
THEOREM DeskIsABook == TidySpec => ImplementsBook
<1>1. DeskInit => Book!BookInit /\ IInv /\ DeskInv /\ stray = {}
  BY BookStarts, DeskStarts, InductiveInit DEF DeskInit
<1>2. IInv /\ DeskInv /\ stray = {} /\ [TidyNext]_allVars => (IInv /\ DeskInv /\ stray = {})'
  <2>1. IInv /\ DeskInv /\ [TidyNext]_allVars => IInv' /\ DeskInv'
    BY DeskStep DEF TidyNext
  <2>2. stray = {} /\ [TidyNext]_allVars => stray' = {}
    BY DEF TidyNext, allVars, runVars
  <2> QED BY <2>1, <2>2
<1>3. ASSUME IInv, DeskInv, stray = {}, IInv', [TidyNext]_allVars
      PROVE  [Book!BookNext]_(Book!bookVars)
  <2> SUFFICES Book!BookNext \/ UNCHANGED <<Rows, messages, now>>
    BY DEF Book!bookVars
  <2>1. [Next]_vars \/ EscalateNow
    BY <1>3, DeskServiceStep DEF TidyNext
  <2>2. TypeOK'
    BY <1>3 DEF IInv
  <2>3. ASSUME NEW s \in Sessions, CommitCreate(s) \/ CommitAppend(s) \/ CommitEscalate(s)
        PROVE  Book!BookNext
    BY <1>3, <2>2, <2>3, CreatorFoundNone, CreateShown, AppendShown, EscalateShown
  <2>4. CASE EscalateNow
    BY <1>3, <2>4, EscalateNowShown
  <2>5. CASE Tick
    BY <2>5 DEF Tick, dbVars, Rows, Book!BookNext, Book!TurnClock
  <2>6. CASE UNCHANGED dbVars /\ now' = now
    BY <2>6 DEF dbVars, Rows
  <2> QED BY <2>1, <2>3, <2>4, <2>5, <2>6, TableSteps
<1> QED BY <1>1, <1>2, <1>3, PTL DEF TidySpec, ImplementsBook, Book!BookSpec

\* So no employee has two active tickets then.
THEOREM TidyDeskOneActive == TidySpec => []OneActivePerUser
<1>1. DeskInit => stray = {}
  BY DEF DeskInit
<1>2. stray = {} /\ [TidyNext]_allVars => (stray = {})'
  BY DEF TidyNext, allVars, runVars
<1>3. [TidyNext]_allVars => [DeskNext]_allVars
  BY DEF TidyNext
<1>4. DeskInv /\ stray = {} => OneActivePerUser
  BY DEF DeskInv, AloneOK, OneTicketEach, OneActivePerUser
<1>5. TidySpec => DeskSpec
  BY <1>3, PTL DEF TidySpec, DeskSpec
<1>6. TidySpec => [](stray = {})
  BY <1>1, <1>2, PTL DEF TidySpec
<1>7. TidySpec => [](IInv /\ DeskInv)
  BY <1>5, DeskInvariance
<1> QED BY <1>4, <1>6, <1>7, PTL

----------------------------------------------------------------------------
(* The promises of the service under the workflow, strays or not. *)

\* Every message sits on a ticket of the employee whose run appended it, and no
\* ticket was escalated before its age.
THEOREM DeskKeepsScope == DeskSpec => [](MessageScope /\ EscalatedIsStale)
<1>1. IInv => MessageScope /\ EscalatedIsStale
  BY DEF IInv
<1> QED BY <1>1, DeskInvariance, PTL

\* No run, retry or call that was given up loses or rewrites what is stored.
THEOREM DeskKeepsHistory == DeskSpec => HistoryKept
<1>1. IInv /\ DeskInv /\ [DeskNext]_allVars => [KeepsHistory]_vars
  BY DeskHistory
<1> QED BY <1>1, DeskInvariance, PTL DEF DeskSpec, HistoryKept

\* No run, stray or retry takes an escalation back or closes a ticket.
THEOREM DeskKeepsForward == DeskSpec => StatusForward
<1>1. IInv /\ DeskInv /\ [DeskNext]_allVars => [StatusMove]_vars
  <2> SUFFICES ASSUME IInv, DeskInv, [DeskNext]_allVars PROVE StatusMove
    OBVIOUS
  <2>1. CASE EscalateNow
    <3>1. \A t \in Stored : tickets'[t].status \in {"escalated", tickets[t].status}
      BY <2>1, EscalateNowEffect
    <3>2. \A t \in Stored : tickets[t].status \in {"open", "escalated"}
      BY DEF IInv, StatusOK
    <3> QED BY <3>1, <3>2 DEF StatusMove
  <2> QED BY <2>1, DeskServiceStep, StatusStep
<1> QED BY <1>1, DeskInvariance, PTL DEF DeskSpec, StatusForward

\* A tool node that got an answer acts on what is stored, and a run that was left
\* behind cannot undo it.
THEOREM DeskKeepsAcked == DeskSpec => []AckedIsDurable
<1>1. DeskInit => AckedIsDurable
  BY DEF DeskInit, Init, AckedIsDurable, NoReply, Answer
<1>2. IInv /\ DeskInv /\ AckedIsDurable /\ [DeskNext]_allVars => AckedIsDurable'
  <2> SUFFICES ASSUME IInv, DeskInv, AckedIsDurable, [DeskNext]_allVars
               PROVE  AckedIsDurable'
    OBVIOUS
  <2>1. CASE EscalateNow
    <3>1. /\ Stored \subseteq Stored' /\ StoredMessages \subseteq StoredMessages'
          /\ reply' = reply
      BY <2>1, DeskHistory, Lasting DEF EscalateNow, sessionVars
    <3> QED BY <3>1 DEF AckedIsDurable
  <2> QED BY <2>1, DeskServiceStep, AckedStep
<1> QED BY <1>1, <1>2, DeskInvariance, PTL DEF DeskSpec

\* No session that serves a run waits for another one's row lock in a circle.
THEOREM DeskNoMutualWait == DeskSpec => []NoDeadlock
<1>1. IInv => NoDeadlock
  BY NoCircle
<1> QED BY <1>1, DeskInvariance, PTL
=============================================================================
