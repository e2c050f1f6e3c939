--------------------------- MODULE GatewayProofs ---------------------------
(***************************************************************************)
(* Proofs about Gateway, for every inbox, every set of kinds and every     *)
(* number of attempts, faults and restarts.                                *)
(***************************************************************************)
EXTENDS Gateway, TLAPS

\* An empty inbox and a sleeping loop satisfy every part of the invariant.
LEMMA InitIInv == Init => IInv
BY MailsAssumption, KindsAssumption, BoundsAssumption DEF Init, IInv, TypeOK, LoopOK,
   RouteOK, BatchOK, RepliesPaid, QueueOK, SeenMeansAnswered, DuplicatesNeedFaults,
   StaticNeverPosted, InOrder, Sources, AllKinds

\* Each step leaves the variables in their types.
LEMMA TypeStep == IInv /\ [Next]_vars => TypeOK'
<1> SUFFICES ASSUME IInv, [Next]_vars PROVE TypeOK'
  OBVIOUS
<1> USE MailsAssumption, BoundsAssumption DEF IInv, TypeOK, Sources
<1>1. CASE Poll
  BY <1>1 DEF Poll, inbox, Unseen
<1>2. CASE PollFailed
  BY <1>2 DEF PollFailed, vars
<1>3. CASE CycleDone
  BY <1>3 DEF CycleDone, inbox
<1>4. CASE Handle
  BY <1>4 DEF Handle, Route, inbox
<1>5. CASE Post
  BY <1>5 DEF Post, CanRetry, inbox, LoopOK
<1>6. CASE Send
  <2>1. cur \in Mails
    BY <1>6 DEF Send, LoopOK
  <2> QED BY <1>6, <2>1 DEF Send, inbox
<1>7. CASE SendFailed
  BY <1>7 DEF SendFailed, Faulty, Handled, inbox, LoopOK
<1>8. CASE SendRaises
  BY <1>8 DEF SendRaises, inbox
<1>9. CASE Mark
  BY <1>9 DEF Mark, Handled, LoopOK
<1>10. CASE MarkFailed
  BY <1>10 DEF MarkFailed, Faulty, Handled, inbox, LoopOK
<1>11. CASE Restart
  BY <1>11 DEF Restart, Faulty, inbox
<1>14. CASE PostRaises
  BY <1>14 DEF PostRaises, inbox, LoopOK
<1>12. CASE \E m \in Mails : Arrive(m)
  BY <1>12 DEF Arrive, loop
<1>13. CASE UNCHANGED vars
  BY <1>13 DEF vars
<1> QED BY <1>1, <1>2, <1>3, <1>4, <1>5, <1>6, <1>7, <1>8, <1>9, <1>10, <1>11,
           <1>12, <1>13, <1>14 DEF Next, Step

\* Each step keeps what is known of the mail in hand.
LEMMA LoopStep == IInv /\ [Next]_vars => LoopOK' /\ RouteOK'
<1> SUFFICES ASSUME IInv, [Next]_vars PROVE LoopOK' /\ RouteOK'
  OBVIOUS
<1> USE MailsAssumption DEF IInv, TypeOK, LoopOK, RouteOK
<1>1. CASE Poll
  BY <1>1 DEF Poll, inbox, Unseen
<1>2. CASE PollFailed
  BY <1>2 DEF PollFailed, vars
<1>3. CASE CycleDone
  BY <1>3 DEF CycleDone, inbox
<1>4. CASE Handle
  BY <1>4 DEF Handle, Route, inbox
<1>5. CASE Post
  BY <1>5 DEF Post, inbox
<1>6. CASE Send
  BY <1>6 DEF Send, inbox
<1>7. CASE SendFailed
  BY <1>7 DEF SendFailed, Handled, inbox
<1>8. CASE SendRaises
  BY <1>8 DEF SendRaises, inbox
<1>9. CASE Mark
  BY <1>9 DEF Mark, Handled
<1>10. CASE MarkFailed
  BY <1>10 DEF MarkFailed, Handled, inbox
<1>11. CASE Restart
  BY <1>11 DEF Restart, inbox
<1>14. CASE PostRaises
  BY <1>14 DEF PostRaises, inbox
<1>12. CASE \E m \in Mails : Arrive(m)
  BY <1>12 DEF Arrive, loop
<1>13. CASE UNCHANGED vars
  BY <1>13 DEF vars
<1> QED BY <1>1, <1>2, <1>3, <1>4, <1>5, <1>6, <1>7, <1>8, <1>9, <1>10, <1>11,
           <1>12, <1>13, <1>14 DEF Next, Step

\* Each step keeps the accounts: replies paid by faults, marks by replies,
\* posts only of mails that no intake rule answers.
LEMMA AccountsStep ==
    IInv /\ [Next]_vars =>
        RepliesPaid' /\ SeenMeansAnswered' /\ DuplicatesNeedFaults' /\ StaticNeverPosted'
<1> SUFFICES ASSUME IInv, [Next]_vars
             PROVE  /\ RepliesPaid' /\ SeenMeansAnswered'
                    /\ DuplicatesNeedFaults' /\ StaticNeverPosted'
  OBVIOUS
<1> USE MailsAssumption DEF IInv, TypeOK, LoopOK, RouteOK, RepliesPaid,
        SeenMeansAnswered, DuplicatesNeedFaults, StaticNeverPosted
<1>1. CASE Poll
  BY <1>1 DEF Poll, inbox, Unseen
<1>2. CASE PollFailed
  BY <1>2 DEF PollFailed, vars
<1>3. CASE CycleDone
  BY <1>3 DEF CycleDone, inbox
<1>4. CASE Handle
  BY <1>4 DEF Handle, Route, inbox
<1>5. CASE Post
  BY <1>5 DEF Post, inbox
<1>6. CASE Send
  BY <1>6 DEF Send, inbox
<1>7. CASE SendFailed
  BY <1>7 DEF SendFailed, Faulty, Handled, inbox
<1>8. CASE SendRaises
  BY <1>8 DEF SendRaises, inbox
<1>9. CASE Mark
  BY <1>9 DEF Mark, Handled
<1>10. CASE MarkFailed
  BY <1>10 DEF MarkFailed, Faulty, Handled, inbox
<1>11. CASE Restart
  BY <1>11 DEF Restart, Faulty, inbox
<1>14. CASE PostRaises
  BY <1>14 DEF PostRaises, inbox
<1>12. CASE \E m \in Mails : Arrive(m)
  BY <1>12 DEF Arrive, loop
<1>13. CASE UNCHANGED vars
  BY <1>13 DEF vars
<1> QED BY <1>1, <1>2, <1>3, <1>4, <1>5, <1>6, <1>7, <1>8, <1>9, <1>10, <1>11,
           <1>12, <1>13, <1>14 DEF Next, Step

\* Each step keeps the order in which mails are settled.
LEMMA OrderStep == IInv /\ [Next]_vars => QueueOK' /\ InOrder'
<1> SUFFICES ASSUME IInv, [Next]_vars PROVE QueueOK' /\ InOrder'
  OBVIOUS
<1> USE MailsAssumption DEF IInv, TypeOK, LoopOK, RouteOK, QueueOK, InOrder,
        Settled, SeenMeansAnswered
<1>1. CASE Poll
  BY <1>1 DEF Poll, inbox, Unseen
<1>2. CASE PollFailed
  BY <1>2 DEF PollFailed, vars
<1>3. CASE CycleDone
  BY <1>3 DEF CycleDone, inbox
<1>4. CASE Handle
  BY <1>4 DEF Handle, Route, inbox
<1>5. CASE Post
  BY <1>5 DEF Post, inbox
<1>6. CASE Send
  BY <1>6 DEF Send, inbox
<1>7. CASE SendFailed
  BY <1>7 DEF SendFailed, Faulty, Handled, inbox
<1>8. CASE SendRaises
  BY <1>8 DEF SendRaises, inbox
<1>9. CASE Mark
  BY <1>9 DEF Mark, Handled
<1>10. CASE MarkFailed
  BY <1>10 DEF MarkFailed, Faulty, Handled, inbox
<1>11. CASE Restart
  BY <1>11 DEF Restart, Faulty, inbox
<1>14. CASE PostRaises
  BY <1>14 DEF PostRaises, inbox
<1>12. CASE \E m \in Mails : Arrive(m)
  BY <1>12 DEF Arrive, loop
<1>13. CASE UNCHANGED vars
  BY <1>13 DEF vars
<1> QED BY <1>1, <1>2, <1>3, <1>4, <1>5, <1>6, <1>7, <1>8, <1>9, <1>10, <1>11,
           <1>12, <1>13, <1>14 DEF Next, Step

\* Each step keeps the accounts of the batch.
LEMMA BatchStep == IInv /\ [Next]_vars => BatchOK'
<1> SUFFICES ASSUME IInv, [Next]_vars PROVE BatchOK'
  OBVIOUS
<1> USE MailsAssumption DEF IInv, TypeOK, LoopOK, BatchOK
<1>1. CASE Poll
  BY <1>1 DEF Poll, inbox, Unseen
<1>2. CASE PollFailed
  BY <1>2 DEF PollFailed, vars, Dropped
<1>3. CASE CycleDone
  BY <1>3 DEF CycleDone, inbox
<1>4. CASE Handle
  BY <1>4 DEF Handle, Route, inbox
<1>5. CASE Post
  BY <1>5 DEF Post, inbox
<1>6. CASE Send
  BY <1>6 DEF Send, inbox
<1>7. CASE SendFailed
  BY <1>7 DEF SendFailed, Faulty, Handled, inbox
<1>8. CASE SendRaises
  <2>1. cur \in fetched /\ cur' = None /\ fetched' = fetched /\ kind' = kind /\ raised' = raised
    BY <1>8 DEF SendRaises, inbox
  <2>2. \A m \in batch \cup {cur} : Dropped(m)'
    <3>1. cur \in Nat
      BY <2>1
    <3>2. cur \in fetched' /\ ~ kind'[cur].sendable
      BY <1>8, <2>1 DEF SendRaises
    <3>3. \A m \in batch \cup {cur} : cur <= m
      BY <1>8, <2>1, <3>1 DEF SendRaises
    <3> QED BY <3>2, <3>3 DEF Dropped
  <2> QED BY <1>8, <2>1, <2>2 DEF SendRaises, inbox
<1>9. CASE Mark
  BY <1>9 DEF Mark, Handled
<1>10. CASE MarkFailed
  BY <1>10 DEF MarkFailed, Faulty, Handled, inbox
<1>11. CASE Restart
  BY <1>11 DEF Restart, inbox
<1>14. CASE PostRaises
  <2>1. cur \in fetched /\ cur' = None /\ fetched' = fetched /\ raised' = cur
    BY <1>14 DEF PostRaises, inbox
  <2>2. \A m \in batch \cup {cur} : Dropped(m)'
    <3>1. cur \in Nat
      BY <2>1
    <3>2. cur \in fetched' /\ cur = raised'
      BY <2>1
    <3>3. \A m \in batch \cup {cur} : cur <= m
      BY <1>14, <2>1, <3>1 DEF PostRaises
    <3> QED BY <3>2, <3>3 DEF Dropped
  <2> QED BY <1>14, <2>1, <2>2 DEF PostRaises, inbox
<1>12. CASE \E m \in Mails : Arrive(m)
  BY <1>12 DEF Arrive, loop, Dropped
<1>13. CASE UNCHANGED vars
  BY <1>13 DEF vars, Dropped
<1> QED BY <1>1, <1>2, <1>3, <1>4, <1>5, <1>6, <1>7, <1>8, <1>9, <1>10, <1>11,
           <1>12, <1>13, <1>14 DEF Next, Step

----------------------------------------------------------------------------

\* The inductive invariant holds in every reachable state of the gateway.
THEOREM Invariance == Spec => []IInv
<1>1. IInv /\ [Next]_vars => IInv'
  BY TypeStep, LoopStep, BatchStep, AccountsStep, OrderStep DEF IInv
<1> QED BY InitIInv, <1>1, PTL DEF Spec

\* Every variable of the poll loop keeps its type; the attempts of one mail
\* never exceed WORKFLOW_RETRY_ATTEMPTS.
THEOREM TypeCorrect == Spec => []TypeOK
<1>1. IInv => TypeOK
  BY DEF IInv
<1> QED BY Invariance, <1>1, PTL

\* handle_inbound_message marks a mail only after its reply was accepted, or
\* when it has no sender, across restarts and failed submissions.
THEOREM SeenOnlyAnswered == Spec => []SeenMeansAnswered
<1>1. IInv => SeenMeansAnswered
  BY DEF IInv
<1> QED BY Invariance, <1>1, PTL

\* A mail is answered again only for a fault of its own (FR-8).
THEOREM DuplicatesPaid == Spec => []DuplicatesNeedFaults
<1>1. IInv => DuplicatesNeedFaults
  BY DEF IInv
<1> QED BY Invariance, <1>1, PTL

\* What an intake rule answers is never posted to Dify.
THEOREM IntakeFirst == Spec => []StaticNeverPosted
<1>1. IInv => StaticNeverPosted
  BY DEF IInv
<1> QED BY Invariance, <1>1, PTL

\* Mails are answered in the order of their UIDs, but for those a fault hit.
THEOREM AnsweredInOrder == Spec => []InOrder
<1>1. IInv => InOrder
  BY DEF IInv
<1> QED BY Invariance, <1>1, PTL

\* run_poll_cycle leaves no mail of its batch unsettled that met no fault, up to
\* the first whose reply cannot be addressed or whose POST raised.
THEOREM BatchWorkedOff == Spec => []BatchHandled
<1>1. IInv => BatchHandled
  <2> SUFFICES ASSUME IInv, pc = "sleep", NEW m \in fetched, ~ Dropped(m)
               PROVE  m \in seen \/ faults[m] > 0
    BY DEF BatchHandled, Dropped
  <2>1. cur = None /\ batch = {}
    BY DEF IInv, LoopOK
  <2>2. m # None /\ m \in Mails
    BY MailsAssumption DEF IInv, TypeOK
  <2> QED BY <2>1, <2>2 DEF IInv, BatchOK
<1> QED BY Invariance, <1>1, PTL

----------------------------------------------------------------------------
(* The refinement. *)

\* An empty inbox is a mail room that has just opened.
LEMMA RoomOpens == Init => Room!RoomInit
BY DEF Init, Room!RoomInit, Tray, Addressed

\* What the mail room shows of a mail.
LEMMA TrayShown ==
    ASSUME IInv, NEW m \in Mails
    PROVE  /\ Tray[m] = "filed" <=> m \in seen
           /\ Tray[m] = "open" <=> m \in Unseen
           /\ Tray[m] = "away" <=> m \notin arrived
           /\ m \in Addressed <=> kind[m].sender
BY DEF IInv, TypeOK, Tray, Addressed, Unseen

\* The mail in hand is open, and when its reply is sent that is due.
LEMMA InHand ==
    ASSUME IInv, cur # None
    PROVE  /\ cur \in Mails /\ cur \in Unseen /\ Tray[cur] = "open"
           /\ pc = "send" => Room!Due(cur)
<1>1. cur \in Mails /\ cur \in Unseen
  BY DEF IInv, TypeOK, LoopOK, Unseen
<1>2. Tray[cur] = "open"
  BY <1>1, TrayShown
<1>3. ASSUME pc = "send" PROVE Room!Due(cur)
  <2>1. kind[cur].sender /\ replies[cur] <= faults[cur]
    BY <1>1, <1>3 DEF IInv, TypeOK, RouteOK, RepliesPaid, Unseen
  <2>2. \A older \in Addressed : older < cur => replies[older] > 0 \/ faults[older] > 0
    BY <1>1 DEF IInv, QueueOK, Settled, Addressed
  <2> QED BY <1>1, <1>2, <2>1, <2>2 DEF Room!Due, Addressed
<1> QED BY <1>1, <1>2, <1>3

\* A fault of the mail in hand is a mishap, with or without a reply.
LEMMA FaultShown ==
    ASSUME IInv, cur # None, Faulty, UNCHANGED <<kind, arrived, seen>>,
           \/ UNCHANGED replies
           \/ pc = "send" /\ replies' = [replies EXCEPT ![cur] = @ + 1]
    PROVE  Room!RoomNext
<1>1. cur \in Mails /\ Tray[cur] = "open" /\ (pc = "send" => Room!Due(cur))
  BY InHand
<1>2. Tray' = Tray /\ Addressed' = Addressed
  BY DEF Tray, Addressed
<1>3. Room!Mishap(cur)
  BY <1>1, <1>2 DEF Faulty, Room!Mishap
<1> QED BY <1>1, <1>3 DEF Room!RoomNext

\* Every step of the loop is a step of the mail room, or does not show.
LEMMA RoomStep == IInv /\ [Next]_vars => [Room!RoomNext]_(Room!room)
<1> SUFFICES ASSUME IInv, [Next]_vars
             PROVE  Room!RoomNext \/ UNCHANGED <<Addressed, Tray, replies, faults>>
  BY DEF Room!room
<1>1. CASE UNCHANGED <<kind, arrived, seen, replies, faults>>
  BY <1>1 DEF Addressed, Tray
<1>2. CASE Poll \/ PollFailed \/ CycleDone \/ Handle \/ Post \/ PostRaises \/ SendRaises
           \/ UNCHANGED vars
  BY <1>1, <1>2 DEF Poll, PollFailed, CycleDone, Handle, Post, PostRaises, SendRaises, inbox,
         vars
<1>3. CASE Send
  <2>1. cur # None /\ UNCHANGED <<kind, arrived, seen, faults>>
    BY <1>3 DEF Send, inbox, IInv, LoopOK
  <2>2. cur \in Mails /\ Room!Due(cur)
    BY <1>3, <2>1, InHand DEF Send
  <2>3. Room!Reply(cur)
    BY <1>3, <2>1, <2>2 DEF Send, Room!Reply, Tray, Addressed
  <2> QED BY <2>2, <2>3 DEF Room!RoomNext
<1>4. CASE SendFailed
  <2>1. cur # None /\ Faulty /\ UNCHANGED <<kind, arrived, seen>>
    BY <1>4 DEF SendFailed, inbox, IInv, LoopOK
  <2>2. UNCHANGED replies \/ (pc = "send" /\ replies' = [replies EXCEPT ![cur] = @ + 1])
    <3>1. replies \in [Mails -> Nat] /\ cur \in Mails
      BY <2>1, InHand DEF IInv, TypeOK
    <3>2. PICK accepted \in {0, 1} : replies' = [replies EXCEPT ![cur] = @ + accepted]
      BY <1>4 DEF SendFailed
    <3>3. [replies EXCEPT ![cur] = @ + 0] = replies
      BY <3>1
    <3> QED BY <1>4, <3>2, <3>3 DEF SendFailed
  <2> QED BY <2>1, <2>2, FaultShown
<1>5. CASE Mark
  <2>1. /\ cur # None /\ UNCHANGED <<kind, arrived, replies, faults>>
        /\ seen' = seen \cup {cur}
        /\ ~ kind[cur].sender \/ replies[cur] > 0
    BY <1>5 DEF Mark, IInv, LoopOK, RouteOK
  <2>2. cur \in Mails /\ Tray[cur] = "open" /\ cur \notin seen
    BY <2>1, InHand DEF Unseen
  <2>3. Tray' = [Tray EXCEPT ![cur] = "filed"]
    BY <2>1, <2>2 DEF Tray
  <2>4. Room!File(cur)
    BY <2>1, <2>2, <2>3 DEF Room!File, Addressed
  <2> QED BY <2>2, <2>4 DEF Room!RoomNext
<1>6. CASE MarkFailed
  BY <1>6, FaultShown DEF MarkFailed, inbox, IInv, LoopOK
<1>7. CASE Restart
  <2>1. CASE cur = None
    BY <1>1, <1>7, <2>1 DEF Restart, inbox
  <2>2. CASE cur # None
    BY <1>7, <2>2, FaultShown DEF Restart, inbox
  <2> QED BY <2>1, <2>2
<1>8. ASSUME NEW m \in Mails, Arrive(m) PROVE Room!RoomNext
  <2>1. /\ m \notin arrived /\ m \notin seen /\ arrived' = arrived \cup {m}
        /\ UNCHANGED <<kind, seen, replies, faults>>
    BY <1>8 DEF Arrive, IInv, TypeOK
  <2>2. Tray[m] = "away" /\ \A older \in Mails : older < m => Tray[older] # "away"
    BY <1>8, TrayShown DEF Arrive
  <2>3. Tray' = [Tray EXCEPT ![m] = "open"]
    BY <2>1 DEF Tray
  <2>4. Room!Deliver(m)
    BY <2>1, <2>2, <2>3 DEF Room!Deliver, Addressed
  <2> QED BY <2>4 DEF Room!RoomNext
<1> QED BY <1>2, <1>3, <1>4, <1>5, <1>6, <1>7, <1>8 DEF Next, Step

\* The poll loop, with its batches, attempts, faults and restarts, is the mail
\* room of MailRoom for every inbox.
THEOREM RoomImplemented == Spec => ImplementsMailRoom
BY RoomOpens, RoomStep, Invariance, PTL DEF Spec, ImplementsMailRoom, Room!RoomSpec
=============================================================================
