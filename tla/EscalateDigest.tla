--------------------------- MODULE EscalateDigest ---------------------------
(***************************************************************************)
(* The scheduled workflow escalate_stale beside the ticketing service and  *)
(* the email gateway.  Each firing of the schedule is a run: it posts to   *)
(* escalate-stale, reads {count, tickets}, stops when count is 0, and      *)
(* otherwise posts the tickets to the gateway, which mails the digest.     *)
(*                                                                         *)
(* The schedule fires every minute whether or not the last run has ended,  *)
(* so runs overlap.  Both requests retry: a retry follows a lost response, *)
(* a timeout or an error status alike, and the request that got no answer  *)
(* goes on inside the service.                                             *)
(***************************************************************************)
EXTENDS Ticketing

CONSTANTS
    Runs,          \* firings of the schedule; a bound on them
    MaxRetries     \* retry_config.max_retries of both requests

ASSUME RetriesAssumption == MaxRetries \in Nat
ASSUME RunsAssumption == None \notin Runs

VARIABLES
    phase,      \* the node a run is at
    misses,     \* failed tries of its two request nodes
    conn,       \* the session answering its open request
    owner,      \* the run whose request a session serves
    rows,       \* the tickets in the body the run parsed
    mails,      \* digests of the run the SMTP server accepted
    before,     \* tickets already escalated when the run fired (history)
    moved,      \* tickets the run's requests moved to escalated (history)
    undone      \* tickets whose escalation by the run was rolled back (history)

digestVars == <<phase, misses, conn, owner, rows, mails, before, moved, undone>>
allVars == <<vars, digestVars>>

Escalated == {t \in Stored : tickets[t].status = "escalated"}
Ended == {"done", "failed"}

DigestTypeOK ==
    /\ phase \in [Runs -> {"idle", "request", "await", "branch", "send"} \cup Ended]
    /\ misses \in [Runs -> [{"request", "send"} -> 0 .. MaxRetries + 1]]
    /\ conn \in [Runs -> Sessions \cup {None}]
    /\ owner \in [Sessions -> Runs \cup {None}]
    /\ mails \in [Runs -> Nat]
    /\ \A history \in {rows, before, moved, undone} : history \in [Runs -> SUBSET TicketIds]

DigestInit ==
    /\ Init
    /\ phase = [r \in Runs |-> "idle"]
    /\ misses = [r \in Runs |-> [node \in {"request", "send"} |-> 0]]
    /\ conn = [r \in Runs |-> None]
    /\ owner = [s \in Sessions |-> None]
    /\ rows = [r \in Runs |-> {}]
    /\ mails = [r \in Runs |-> 0]
    /\ before = [r \in Runs |-> {}]
    /\ moved = [r \in Runs |-> {}]
    /\ undone = [r \in Runs |-> {}]

----------------------------------------------------------------------------
(* The workflow. *)

\* Schedule Trigger.
Fire(r) ==
    /\ phase[r] = "idle"
    /\ phase' = [phase EXCEPT ![r] = "request"]
    /\ before' = [before EXCEPT ![r] = Escalated]
    /\ UNCHANGED <<vars, misses, conn, owner, rows, mails, moved, undone>>

\* Mutant of AfterMiss: misses are not counted.
AfterMissUncounted(r, node) ==
    /\ phase' = [phase EXCEPT ![r] = IF misses[r][node] < MaxRetries THEN node ELSE "failed"]
    /\ UNCHANGED misses

\* Mutant of AfterMiss: one retry too many.
AfterMissOneMore(r, node) ==
    /\ misses' = [misses EXCEPT ![r][node] = @ + 1]
    /\ phase' = [phase EXCEPT ![r] = IF misses[r][node] <= MaxRetries THEN node ELSE "failed"]

\* A request node failed: it is tried again while retries are left, else the
\* run fails.
AfterMiss(r, node) ==
    /\ misses' = [misses EXCEPT ![r][node] = @ + 1]
    /\ phase' = [phase EXCEPT ![r] = IF misses[r][node] < MaxRetries THEN node ELSE "failed"]

\* Request escalate: the POST reaches the service, which opens a session.
Request(r) ==
    /\ phase[r] = "request"
    /\ \E s \in Sessions :
          /\ \E older \in Ages : CallEscalate(s, older)
          /\ conn' = [conn EXCEPT ![r] = s]
          /\ owner' = [owner EXCEPT ![s] = r]
    /\ phase' = [phase EXCEPT ![r] = "await"]
    /\ UNCHANGED <<misses, rows, mails, before, moved, undone>>

\* The response arrives.  A session whose transaction is still open is left
\* to commit on its own.
Response(r) ==
    /\ phase[r] = "await"
    /\ LET answer == reply[conn[r]]
       IN /\ ReadReply(conn[r])
          /\ \/ /\ answer.kind = "escalated"
                /\ rows' = [rows EXCEPT ![r] = answer.rows]
                /\ phase' = [phase EXCEPT ![r] = "branch"]
                /\ UNCHANGED misses
             \/ /\ answer.kind = "failed"
                /\ AfterMiss(r, "request")
                /\ UNCHANGED rows
    /\ conn' = [conn EXCEPT ![r] = None]
    /\ UNCHANGED <<owner, mails, before, moved, undone>>

\* The connection breaks or the client's read times out, at any moment of the
\* service's work.
ResponseLost(r) ==
    /\ phase[r] = "await"
    /\ AfterMiss(r, "request")
    /\ conn' = [conn EXCEPT ![r] = None]
    /\ UNCHANGED <<vars, owner, rows, mails, before, moved, undone>>

\* Parse body and IF/ELSE: count > 0.
Branch(r) ==
    /\ phase[r] = "branch"
    /\ phase' = [phase EXCEPT ![r] = IF rows[r] = {} THEN "done" ELSE "send"]
    /\ UNCHANGED <<vars, misses, conn, owner, rows, mails, before, moved, undone>>

\* Mutant of Send: the gateway answers 200 whatever the SMTP server said.
SendUnchecked(r) ==
    /\ phase[r] = "send"
    /\ \E accepted \in {0, 1} : mails' = [mails EXCEPT ![r] = @ + accepted]
    /\ phase' = [phase EXCEPT ![r] = "done"]
    /\ UNCHANGED <<vars, misses, conn, owner, rows, before, moved, undone>>

\* Send digest: the gateway submits the mail and answers 200 when the server
\* accepted it, 500 when _deliver reported a failure.  The server may have
\* accepted a mail that is reported as failed: the connection broke after the
\* DATA, or the 200 was lost.
Send(r) ==
    /\ phase[r] = "send"
    /\ \/ /\ mails' = [mails EXCEPT ![r] = @ + 1]
          /\ phase' = [phase EXCEPT ![r] = "done"]
          /\ UNCHANGED misses
       \/ /\ \E accepted \in {0, 1} : mails' = [mails EXCEPT ![r] = @ + accepted]
          /\ AfterMiss(r, "send")
    /\ UNCHANGED <<vars, conn, owner, rows, before, moved, undone>>

----------------------------------------------------------------------------
(* The service beside it: employees open tickets, other calls leave the     *)
(* status of a ticket alone.                                                *)

\* With a set of tickets for the run that s serves.
Credit(history, s, set) ==
    [r \in Runs |-> IF owner[s] = r THEN history[r] \cup set ELSE history[r]]

\* A step of s.  What it moves out of "open", or has in view when it is rolled
\* back, counts for the run it serves.
ServiceWork(s) ==
    /\ \/ /\ Work(s)
          /\ moved' = Credit(moved, s, Escalated' \ Escalated)
          /\ UNCHANGED undone
       \/ /\ Rollback(s)
          /\ undone' = Credit(undone, s, view[s])
          /\ UNCHANGED moved
    /\ owner' = IF pc'[s] = "idle" THEN [owner EXCEPT ![s] = None] ELSE owner
    /\ UNCHANGED <<phase, misses, conn, rows, mails, before>>

ServiceCall(s) ==
    /\ \E u \in Users, c \in Categories : CallCreate(s, u, c)
    /\ owner' = [owner EXCEPT ![s] = None]
    /\ UNCHANGED <<phase, misses, conn, rows, mails, before, moved, undone>>

\* An answer nobody waits for any more.
Unread(s) ==
    /\ \A r \in Runs : conn[r] # s
    /\ ReadReply(s)
    /\ UNCHANGED digestVars

DigestTick == Tick /\ UNCHANGED digestVars

RunStep(r) ==
    \/ Request(r) \/ Response(r) \/ ResponseLost(r) \/ Branch(r) \/ Send(r)

DigestNext ==
    \/ DigestTick
    \/ \E r \in Runs : Fire(r) \/ RunStep(r)
    \/ \E s \in Sessions : ServiceCall(s) \/ ServiceWork(s) \/ Unread(s)

DigestSpec == DigestInit /\ [][DigestNext]_allVars

\* Dify goes on with a run, the service with its calls, and a client that hung
\* up frees its connection.  A request gets a connection in the end.
DigestFairness ==
    /\ \A r \in Runs : WF_allVars(RunStep(r)) /\ SF_allVars(Request(r))
    /\ \A s \in Sessions : /\ WF_allVars(ServiceWork(s))
                           /\ SF_allVars(FlushRow(s) /\ UNCHANGED digestVars)
                           /\ WF_allVars(Unread(s))
DigestFairSpec == DigestSpec /\ DigestFairness
----------------------------------------------------------------------------
(* Safety. *)

\* A run never reports a ticket that was escalated before the run fired,
\* whichever run or retry escalated it (escalate_stale selects open rows).
FreshDigest == \A r \in Runs : rows[r] \cap before[r] = {}

\* A run that ends well mailed a digest exactly when it had tickets to report
\* (the IF/ELSE, and send_email's 500 when SMTP did not accept the mail).
DoneMeansMailed ==
    \A r \in Runs : phase[r] = "done" => (rows[r] = {} <=> mails[r] = 0)

\* Without a miss of its request a run reports every ticket it moved.
NothingLostWithoutMiss ==
    \A r \in Runs :
        phase[r] \in {"branch", "send"} \cup Ended /\ misses[r]["request"] = 0 =>
            moved[r] \subseteq rows[r]

\* The digest may go out before the escalation is committed; still, every ticket
\* it reports is escalated, or about to be by an open request of the run, unless
\* the database took that request back (get_db_session commits after the
\* response; FR-8).
ReportedUnlessUndone ==
    \A r \in Runs : \A t \in rows[r] \ undone[r] :
        t \in Escalated \/ \E s \in Sessions : owner[s] = r /\ t \in view[s]

\* The retries bound the copies of one digest.
MailBudget == \A r \in Runs : mails[r] <= MaxRetries + 1

\* CONTEXT.md: a run that ends well reported the tickets it moved.
MovedIsReported ==
    \A r \in Runs : phase[r] = "done" => moved[r] \subseteq rows[r]

----------------------------------------------------------------------------
(* The inductive invariant behind the safety properties. *)

\* The tickets the service has told a run, read or not.
Waiting(r) == phase[r] = "await"
Told(r) == IF Waiting(r) THEN reply[conn[r]].rows ELSE rows[r]

\* What a run holds fits the node it is at.
RunOK(r) ==
    /\ Waiting(r) => conn[r] \in Sessions
    /\ conn[r] # None => Waiting(r)
    /\ phase[r] # "failed" => \A node \in {"request", "send"} : misses[r][node] <= MaxRetries
    /\ mails[r] <= misses[r]["send"] + (IF phase[r] = "done" THEN 1 ELSE 0)
    /\ phase[r] \in {"idle", "request", "await", "branch"} => mails[r] = 0
    /\ phase[r] \in {"idle", "request", "await"} => rows[r] = {}
    /\ phase[r] = "send" => rows[r] # {}
    /\ phase[r] = "done" => (rows[r] = {} <=> mails[r] = 0)

\* A run waits for a session of its own, which has answered once it is past
\* its SELECT.
LinkOK(r) ==
    Waiting(r) =>
        /\ pc[conn[r]] = "select" \/ reply[conn[r]] # NoReply
        /\ pc[conn[r]] # "idle" => owner[conn[r]] = r
        /\ \A other \in Runs : Waiting(other) /\ conn[other] = conn[r] => other = r

ServeOK(s) ==
    /\ call[s].op \in {"none", "create", "escalate"}
    /\ owner[s] # None => call[s].op = "escalate"
    /\ pc[s] = "select" => reply[s] = NoReply

FreshOK(r) == before[r] \subseteq Escalated /\ Told(r) \cap before[r] = {}

AccountedOK(r) ==
    \A t \in Told(r) \ undone[r] :
        t \in Escalated \/ \E s \in Sessions : owner[s] = r /\ t \in view[s]

\* Before its first miss a run has one session at most, and has moved nothing
\* until that ends.
FirstTryOK(r) ==
    misses[r]["request"] = 0 =>
        /\ moved[r] \subseteq Told(r)
        /\ \A s \in Sessions : owner[s] = r =>
              /\ phase[r] \notin {"idle", "request"}
              /\ Waiting(r) => s = conn[r]
              /\ pc[s] = "select" => Waiting(r)
              /\ moved[r] = {} /\ view[s] \subseteq Told(r)
              /\ \A other \in Sessions : owner[other] = r => other = s

DigestInv ==
    /\ DigestTypeOK
    /\ \A s \in Sessions : ServeOK(s)
    /\ \A r \in Runs : /\ RunOK(r) /\ LinkOK(r)
                       /\ FreshOK(r) /\ AccountedOK(r) /\ FirstTryOK(r)

----------------------------------------------------------------------------
(* Liveness. *)

\* Every run ends: its retries are bounded and the service answers or drops
\* its requests, even when row locks are contended.
RunsEnd == \A r \in Runs : phase[r] # "idle" ~> phase[r] \in Ended
=============================================================================
