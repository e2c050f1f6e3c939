------------------------------ MODULE Gateway ------------------------------
(***************************************************************************)
(* The email gateway's poll loop: fetch the UNSEEN batch, then message by  *)
(* message pick a canned reply or run the blocking workflow, submit the    *)
(* reply by SMTP, and set \Seen when the server accepted it.               *)
(*                                                                         *)
(* Nothing but the mailbox's flags outlives a cycle.  SMTP may accept a    *)
(* reply that is reported as failed, a STORE may raise or be refused       *)
(* without a word, and the process may die anywhere; the next cycle then   *)
(* takes the message as new.                                               *)
(***************************************************************************)
EXTENDS Integers

CONSTANTS
    Mails,         \* UIDs of the inbox, in order of arrival; a bound on mails
    Kinds,         \* the kinds of mail that may arrive
    Attempts,      \* WORKFLOW_RETRY_ATTEMPTS
    MaxFaults,     \* bound on the faults that hit the handling of one mail
    MaxRestarts,   \* bound on restarts of the process
    MaxRaises,     \* bound on POSTs whose answer raises
    None           \* no mail

\* What the loop tells apart in a mail: From holds a mailbox; an intake rule
\* matches; normalize_inbound returns; the reply's headers can be set.
AllKinds == [sender : BOOLEAN, static : BOOLEAN, readable : BOOLEAN, sendable : BOOLEAN]

ASSUME MailsAssumption == Mails \subseteq Nat /\ None \notin Mails
ASSUME KindsAssumption == Kinds \subseteq AllKinds
ASSUME BoundsAssumption ==
    /\ Attempts \in Nat \ {0}
    /\ MaxFaults \in Nat /\ MaxRestarts \in Nat /\ MaxRaises \in Nat

VARIABLES
    kind,       \* the kind of each mail
    arrived,    \* mails in the inbox
    seen,       \* mails with the \Seen flag
    pc,         \* where the loop is
    fetched,    \* the batch of this cycle, or of the last one that ended
    batch,      \* mails of the batch still to be handled
    cur,        \* the mail being handled
    failed,     \* failed_count of _outbound_from_workflow
    outbound,   \* source of the reply to send
    replies,    \* replies to a mail the SMTP server accepted
    posted,     \* mails whose text went to Dify (history)
    faults,     \* faults that hit the handling of a mail (history)
    restarts,   \* restarts so far
    raised,     \* the mail whose POST raised out of the last cycle (history)
    raises      \* POSTs so far whose answer raised

inbox == <<kind, arrived, seen>>
loop == <<pc, fetched, batch, cur, failed, outbound>>
vars == <<kind, arrived, seen, pc, fetched, batch, cur, failed, outbound,
          replies, posted, faults, restarts, raised, raises>>

Sources == {"none", "static", "workflow_outputs", "workflow_give_up"}

TypeOK ==
    /\ kind \in [Mails -> Kinds]
    /\ arrived \subseteq Mails /\ seen \subseteq arrived
    /\ pc \in {"sleep", "next", "post", "send", "mark"}
    /\ fetched \subseteq arrived /\ batch \subseteq fetched
    /\ cur \in Mails \cup {None}
    /\ failed \in 0 .. Attempts /\ (pc = "post" => failed < Attempts)
    /\ outbound \in Sources
    /\ replies \in [Mails -> Nat]
    /\ posted \subseteq arrived
    /\ faults \in [Mails -> 0 .. MaxFaults]
    /\ restarts \in 0 .. MaxRestarts
    /\ raised \in Mails \cup {None}
    /\ raises \in 0 .. MaxRaises

Init ==
    /\ kind \in [Mails -> Kinds]
    /\ arrived = {} /\ seen = {}
    /\ pc = "sleep"
    /\ fetched = {} /\ batch = {}
    /\ cur = None
    /\ failed = 0
    /\ outbound = "none"
    /\ replies = [m \in Mails |-> 0]
    /\ posted = {}
    /\ faults = [m \in Mails |-> 0]
    /\ restarts = 0
    /\ raised = None /\ raises = 0

----------------------------------------------------------------------------
(* The mailbox. *)

\* A mail is delivered to the inbox; UIDs ascend.
Arrive(m) ==
    /\ m \notin arrived
    /\ \A other \in Mails : other < m => other \in arrived
    /\ arrived' = arrived \cup {m}
    /\ UNCHANGED <<kind, seen, loop, replies, posted, faults, restarts, raised, raises>>

Unseen == arrived \ seen

----------------------------------------------------------------------------
(* run_poll_cycle *)

\* Mutant of Poll: mails that were answered once are skipped.
PollUnanswered ==
    /\ pc = "sleep"
    /\ \A m \in Unseen : kind[m].readable
    /\ pc' = "next"
    /\ fetched' = {m \in Unseen : replies[m] = 0}
    /\ batch' = fetched'
    /\ raised' = None
    /\ UNCHANGED <<inbox, cur, failed, outbound, replies, posted, faults, restarts, raises>>

\* fetch_unseen downloads and normalizes every UNSEEN message before the first
\* is handled.
Poll ==
    /\ pc = "sleep"
    /\ \A m \in Unseen : kind[m].readable
    /\ pc' = "next"
    /\ fetched' = Unseen
    /\ batch' = Unseen
    /\ raised' = None
    /\ UNCHANGED <<inbox, cur, failed, outbound, replies, posted, faults, restarts, raises>>

\* An exception of one message ends the fetch: poll_with_interval logs it and
\* sleeps.
PollFailed ==
    /\ pc = "sleep"
    /\ \E m \in Unseen : ~ kind[m].readable
    /\ UNCHANGED vars

CycleDone ==
    /\ pc = "next" /\ batch = {}
    /\ pc' = "sleep"
    /\ UNCHANGED <<inbox, fetched, batch, cur, failed, outbound, replies, posted, faults, restarts, raised, raises>>

\* Mutant of Route: the workflow runs first, the intake rules come after it.
RouteUnfiltered(m) ==
    \/ /\ ~ kind[m].sender
       /\ pc' = "mark" /\ outbound' = "none"
    \/ /\ kind[m].sender
       /\ pc' = "post" /\ outbound' = "none"

\* handle_inbound_message up to its first await: no mailbox, an intake rule, or
\* the workflow.
Route(m) ==
    \/ /\ ~ kind[m].sender
       /\ pc' = "mark" /\ outbound' = "none"
    \/ /\ kind[m].sender /\ kind[m].static
       /\ pc' = "send" /\ outbound' = "static"
    \/ /\ kind[m].sender /\ ~ kind[m].static
       /\ pc' = "post" /\ outbound' = "none"

\* Mutant of Handle: the batch is worked off in any order.
HandleAnyOrder ==
    /\ pc = "next"
    /\ \E m \in batch :
          /\ cur' = m
          /\ batch' = batch \ {m}
          /\ Route(m)
    /\ failed' = 0
    /\ UNCHANGED <<inbox, fetched, replies, posted, faults, restarts, raised, raises>>

\* Mutant of Handle: a mail is marked when it is taken, not when it is answered.
HandleMarksFirst ==
    /\ pc = "next"
    /\ \E m \in batch :
          /\ \A other \in batch : m <= other
          /\ cur' = m
          /\ batch' = batch \ {m}
          /\ seen' = seen \cup {m}
          /\ Route(m)
    /\ failed' = 0
    /\ UNCHANGED <<kind, arrived, fetched, replies, posted, faults, restarts, raised, raises>>

Handle ==
    /\ pc = "next"
    /\ \E m \in batch :
          /\ \A other \in batch : m <= other
          /\ cur' = m
          /\ batch' = batch \ {m}
          /\ Route(m)
    /\ failed' = 0
    /\ UNCHANGED <<inbox, fetched, replies, posted, faults, restarts, raised, raises>>

----------------------------------------------------------------------------
(* _outbound_from_workflow *)

\* What one blocking POST may return besides usable End outputs.
Misses == {"http_error", "http_5xx", "http_429", "http_408", "http_4xx",
           "bad_json", "outputs_invalid"}
Retryable == {"http_error", "http_5xx", "http_429", "http_408"}

\* Mutant of CanRetry: the last attempt is not counted.
CanRetryOnceMore(miss) == miss \in Retryable /\ failed < Attempts

\* failed_count has been incremented when it is compared.
CanRetry(miss) == miss \in Retryable /\ failed + 1 < Attempts

\* One attempt; the jittered sleep before the next one is part of "post".
Post ==
    /\ pc = "post"
    /\ posted' = posted \cup {cur}
    /\ \/ /\ outbound' = "workflow_outputs" /\ pc' = "send"
          /\ UNCHANGED failed
       \/ \E miss \in Misses :
             /\ failed' = failed + 1
             /\ \/ CanRetry(miss) /\ UNCHANGED <<pc, outbound>>
                \/ ~ CanRetry(miss) /\ pc' = "send" /\ outbound' = "workflow_give_up"
    /\ UNCHANGED <<inbox, fetched, batch, cur, replies, faults, restarts, raised, raises>>

\* The answer is no error and its JSON is no object: reading the run's id from it
\* raises, outside the try blocks of run_blocking_workflow, and the exception leaves
\* the cycle, with the rest of the batch.
PostRaises ==
    /\ pc = "post"
    /\ raises < MaxRaises
    /\ posted' = posted \cup {cur}
    /\ raised' = cur /\ raises' = raises + 1
    /\ pc' = "sleep" /\ cur' = None /\ outbound' = "none" /\ failed' = 0
    /\ batch' = {}
    /\ UNCHANGED <<inbox, fetched, replies, faults, restarts>>

----------------------------------------------------------------------------
(* send_reply and mark_seen *)

Faulty == faults[cur] < MaxFaults /\ faults' = [faults EXCEPT ![cur] = @ + 1]

\* handle_inbound_message returns; the loop takes the next message.
Handled == pc' = "next" /\ cur' = None /\ outbound' = "none" /\ failed' = 0

\* Mutant of SendFailed: the result of send_reply is not looked at.
SendFailedUnnoticed ==
    /\ pc = "send" /\ kind[cur].sendable
    /\ \E accepted \in {0, 1} : replies' = [replies EXCEPT ![cur] = @ + accepted]
    /\ Faulty
    /\ pc' = "mark"
    /\ UNCHANGED <<inbox, fetched, batch, cur, failed, outbound, posted, restarts, raised, raises>>

\* _deliver reports a failure.  The server refused the mail, or took it before
\* the connection broke.
SendFailed ==
    /\ pc = "send" /\ kind[cur].sendable
    /\ \E accepted \in {0, 1} : replies' = [replies EXCEPT ![cur] = @ + accepted]
    /\ Faulty
    /\ Handled
    /\ UNCHANGED <<inbox, fetched, batch, posted, restarts, raised, raises>>

\* The server accepted the reply.
Send ==
    /\ pc = "send" /\ kind[cur].sendable
    /\ replies' = [replies EXCEPT ![cur] = @ + 1]
    /\ pc' = "mark"
    /\ UNCHANGED <<inbox, fetched, batch, cur, failed, outbound, posted, faults, restarts, raised, raises>>

\* A header of the reply cannot be set: the exception leaves send_reply and the
\* cycle, with the rest of the batch.
SendRaises ==
    /\ pc = "send" /\ ~ kind[cur].sendable
    /\ pc' = "sleep" /\ cur' = None /\ outbound' = "none" /\ failed' = 0
    /\ batch' = {}
    /\ UNCHANGED <<inbox, fetched, replies, posted, faults, restarts, raised, raises>>

\* Mutant of Mark: the STORE names no flag.
MarkForgets ==
    /\ pc = "mark"
    /\ Handled
    /\ UNCHANGED <<inbox, fetched, batch, replies, posted, faults, restarts, raised, raises>>

Mark ==
    /\ pc = "mark"
    /\ seen' = seen \cup {cur}
    /\ Handled
    /\ UNCHANGED <<kind, arrived, fetched, batch, replies, posted, faults, restarts, raised, raises>>

\* Mutant of MarkFailed: the exception is not caught and ends the cycle.
MarkFailedRaises ==
    /\ pc = "mark"
    /\ Faulty
    /\ pc' = "sleep" /\ cur' = None /\ outbound' = "none" /\ failed' = 0
    /\ batch' = {}
    /\ UNCHANGED <<inbox, fetched, replies, posted, restarts, raised, raises>>

\* mark_seen raises and is caught, or the server refuses the STORE and nobody
\* looks at its status.
MarkFailed ==
    /\ pc = "mark"
    /\ Faulty
    /\ Handled
    /\ UNCHANGED <<inbox, fetched, batch, replies, posted, restarts, raised, raises>>

\* The process dies and is started again; a mail in hand is a fault of it.
Restart ==
    /\ pc # "sleep" /\ restarts < MaxRestarts
    /\ \/ cur = None /\ UNCHANGED faults
       \/ cur # None /\ Faulty
    /\ restarts' = restarts + 1
    /\ pc' = "sleep" /\ cur' = None /\ outbound' = "none" /\ failed' = 0
    /\ fetched' = {} /\ batch' = {}
    /\ UNCHANGED <<inbox, replies, posted, raised, raises>>

----------------------------------------------------------------------------
Step ==
    \/ Poll \/ PollFailed \/ CycleDone \/ Handle \/ Post \/ PostRaises
    \/ Send \/ SendFailed \/ SendRaises \/ Mark \/ MarkFailed

Next == Step \/ Restart \/ \E m \in Mails : Arrive(m)

Spec == Init /\ [][Next]_vars

\* The loop never stops: each await returns (SMTP and the POST have timeouts),
\* and a restarted process polls again.
FairSpec == Spec /\ WF_vars(Step)

----------------------------------------------------------------------------
(* Properties. *)

\* A mail leaves the UNSEEN queue only when a reply to it was accepted, or when
\* there is nobody to reply to (handle_inbound_message; FR-8).
SeenMeansAnswered ==
    \A m \in seen : ~ kind[m].sender \/ replies[m] > 0

\* A reply is repeated only after a fault of its own mail: an SMTP answer that
\* was lost, a flag that was not stored, a crash in between (FR-8, at least
\* once); never because of another mail or an overlapping batch.
DuplicatesNeedFaults == \A m \in Mails : replies[m] <= 1 + faults[m]

\* The text of a mail that an intake rule answers, or that has no sender, never
\* leaves for Dify, however often the mail is handled.
StaticNeverPosted ==
    \A m \in posted : kind[m].sender /\ ~ kind[m].static

\* A mail is not answered before an older one that can be answered, unless a
\* fault hit the older one.
InOrder ==
    \A m1, m2 \in Mails :
        m1 < m2 /\ replies[m2] > 0 =>
            replies[m1] > 0 \/ ~ kind[m1].sender \/ faults[m1] > 0

\* A cycle that ends has settled every mail of its batch that met no fault, up to
\* the first whose reply cannot be addressed or whose POST was answered with JSON
\* that is no object: no other exception leaves the loop over the batch
\* (run_poll_cycle).
BatchHandled ==
    pc = "sleep" =>
        \A m \in fetched :
            (\A older \in fetched : older <= m => kind[older].sendable /\ older # raised) =>
                m \in seen \/ faults[m] > 0

\* Whatever faults, restarts and exceptions of a POST come before, a mail is settled
\* in the end, if no mail of the inbox ends the fetch and no reply up to its own
\* ends the cycle.
Settles ==
    \A m \in Mails :
        /\ m \in arrived
        /\ \A other \in Mails : /\ kind[other].readable
                                /\ other <= m => kind[other].sendable
        ~> m \in seen

\* tests/integration/test_email_gateway.py: "Mail left UNSEEN (as after a
\* crash) is processed on the next cycle."  An ordinary mail is settled in the
\* end, whatever else is in the inbox.
LeftoverProcessed ==
    \A m \in Mails :
        m \in arrived /\ kind[m].readable /\ kind[m].sendable ~> m \in seen

----------------------------------------------------------------------------
(* The inductive invariant behind the safety properties. *)

\* The mail in hand is unseen and out of the batch; outside a cycle there is none.
\* No POST has raised in a cycle that goes on.
LoopOK ==
    /\ pc # "sleep" => raised = None
    /\ pc \in {"post", "send", "mark"} <=> cur # None
    /\ pc = "sleep" => batch = {}
    /\ batch \cap seen = {}
    /\ cur # None => cur \in fetched \ (batch \cup seen)

\* What the routing of the mail in hand established.
RouteOK ==
    /\ pc = "post" => kind[cur].sender /\ ~ kind[cur].static
    /\ pc = "send" => kind[cur].sender
    /\ pc = "mark" => ~ kind[cur].sender \/ replies[cur] > 0

\* An unseen mail's replies are all paid for by faults, but for the one that is
\* about to be marked.
RepliesPaid ==
    \A m \in Mails \ seen :
        replies[m] <= faults[m] + (IF pc = "mark" /\ m = cur THEN 1 ELSE 0)

Settled(m) == replies[m] > 0 \/ ~ kind[m].sender \/ faults[m] > 0

\* Older mails are settled, in hand, or still in the batch.
QueueOK ==
    /\ \A m1, m2 \in Mails : m1 < m2 /\ m2 \in arrived => m1 \in arrived
    /\ \A m1, m2 \in Mails : m1 < m2 /\ m2 = cur => Settled(m1)
    /\ \A m1, m2 \in Mails :
          m1 < m2 /\ m2 \in batch => m1 \in batch \/ m1 = cur \/ Settled(m1)

Dropped(m) ==
    \E older \in fetched : older <= m /\ (~ kind[older].sendable \/ older = raised)

\* The batch is worked off from its oldest mail; what is no longer in it was
\* settled, met a fault, or was dropped by an exception of it or of an older mail.
BatchOK ==
    /\ cur # None => \A m \in batch : cur <= m
    /\ \A m \in fetched : \/ m \in batch \cup seen \/ m = cur \/ faults[m] > 0
                          \/ pc = "sleep" /\ Dropped(m)

IInv ==
    /\ TypeOK
    /\ LoopOK
    /\ RouteOK
    /\ BatchOK
    /\ RepliesPaid
    /\ QueueOK
    /\ SeenMeansAnswered
    /\ DuplicatesNeedFaults
    /\ StaticNeverPosted
    /\ InOrder

----------------------------------------------------------------------------
(* Refinement: mailbox and replies, without the loop, are the mail room. *)

Addressed == {m \in Mails : kind[m].sender}
Tray == [m \in Mails |-> IF m \in seen THEN "filed" ELSE IF m \in arrived THEN "open" ELSE "away"]

Room == INSTANCE MailRoom WITH
    Letters <- Mails,
    addressed <- Addressed,
    tray <- Tray,
    sent <- replies,
    mishaps <- faults

\* Seen from the mailbox, batches, attempts and restarts do not show: each mail
\* is replied to in its turn, and again only after a mishap of its own, before
\* it is marked (handle_inbound_message; FR-8).
ImplementsMailRoom == Room!RoomSpec
=============================================================================
