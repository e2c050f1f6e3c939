------------------------ MODULE EscalateDigestProofs ------------------------
(***************************************************************************)
(* Proofs about EscalateDigest, for every number of runs, retries and      *)
(* sessions.  The composition is a restriction of the ticketing service,   *)
(* so its invariant is at hand.                                            *)
(***************************************************************************)
EXTENDS EscalateDigest, TicketingProofs

\* The runs start idle, on a service that has just started.
LEMMA DigestStarts == DigestInit => DigestInv
<1> SUFFICES ASSUME DigestInit PROVE DigestInv
  OBVIOUS
<1> USE DEF DigestInit, Init
<1>1. DigestTypeOK
  BY RetriesAssumption DEF DigestTypeOK
<1>2. \A s \in Sessions : ServeOK(s)
  BY DEF ServeOK, NoCall, Args
<1>3. \A r \in Runs : RunOK(r)
  BY RetriesAssumption DEF RunOK, Waiting
<1>4. \A r \in Runs : LinkOK(r) /\ FreshOK(r) /\ AccountedOK(r) /\ FirstTryOK(r)
  BY RunsAssumption DEF LinkOK, FreshOK, AccountedOK, FirstTryOK, Waiting, Told
<1> QED BY <1>1, <1>2, <1>3, <1>4 DEF DigestInv

\* Whatever the workflow does, the service takes one of its own steps or none.
LEMMA ServiceStep == DigestInv /\ [DigestNext]_allVars => [Next]_vars
<1> SUFFICES ASSUME DigestInv, [DigestNext]_allVars PROVE [Next]_vars
  OBVIOUS
<1>1. ASSUME NEW r \in Runs, Fire(r) \/ ResponseLost(r) \/ Branch(r) \/ Send(r)
      PROVE  UNCHANGED vars
  BY <1>1 DEF Fire, ResponseLost, Branch, Send
<1>2. ASSUME NEW r \in Runs, Request(r) PROVE Next
  BY <1>2 DEF Request, Next, Call
<1>3. ASSUME NEW r \in Runs, Response(r) PROVE Next
  BY <1>3 DEF Response, Next, DigestInv, RunOK, Waiting
<1>4. ASSUME NEW s \in Sessions, ServiceCall(s) PROVE Next
  BY <1>4 DEF ServiceCall, Next, Call
<1>5. ASSUME NEW s \in Sessions, ServiceWork(s) \/ Unread(s) PROVE Next
  BY <1>5 DEF ServiceWork, Unread, Next
<1>6. CASE DigestTick
  BY <1>6 DEF DigestTick, Next
<1>7. CASE UNCHANGED allVars
  BY <1>7 DEF allVars, vars
<1> QED BY <1>1, <1>2, <1>3, <1>4, <1>5, <1>6, <1>7 DEF DigestNext, RunStep

----------------------------------------------------------------------------
(* What the steps of a session do to what runs rely on. *)

\* The other sessions are left alone.
Aside(s) ==
    \A r \in Sessions \ {s} :
        pc'[r] = pc[r] /\ call'[r] = call[r] /\ view'[r] = view[r] /\ reply'[r] = reply[r]

\* A session ends with answer a.
LEMMA ClosedAside ==
    ASSUME TypeOK, NEW s \in Sessions, NEW a, Close(s, a)
    PROVE  /\ Aside(s)
           /\ pc'[s] = "idle" /\ call'[s].op = "none" /\ view'[s] = {} /\ reply'[s] = a
BY DEF TypeOK, Close, Aside, NoCall, Args

\* A step that goes on without an answer.
GoesOn(s) ==
    /\ UNCHANGED dbVars
    /\ call'[s] = call[s] /\ view'[s] = view[s] /\ reply'[s] = reply[s]
    /\ pc[s] # "idle" /\ pc'[s] \in {"flush", "commit"}
    /\ pc[s] = "select" => call[s].op = "create"

\* SelectStale: what is answered is what is loaded, and none of it escalated.
Answers(s) ==
    /\ UNCHANGED dbVars
    /\ pc[s] = "select" /\ pc'[s] = "flush"
    /\ call[s].op = "escalate" /\ call'[s] = call[s]
    /\ reply'[s].kind = "escalated"
    /\ view'[s] = reply'[s].rows /\ view'[s] \cap Escalated = {}

\* The end of a create-ticket.
Creates(s) ==
    /\ call[s].op = "create"
    /\ pc'[s] = "idle" /\ call'[s].op = "none" /\ view[s] = {} /\ view'[s] = {}
    /\ reply'[s].rows = {}
    /\ Escalated' = Escalated

\* The commit of an escalation.
Escalates(s) ==
    /\ call[s].op = "escalate" /\ pc[s] = "commit"
    /\ pc'[s] = "idle" /\ call'[s].op = "none" /\ view'[s] = {}
    /\ reply'[s] = reply[s]
    /\ Escalated' = Escalated \cup view[s]

\* A create adds an open ticket.
LEMMA CreateEscalatesNone ==
    ASSUME IInv, NEW s \in Sessions, CommitCreate(s)
    PROVE  Escalated' = Escalated
<1> DEFINE row == [user |-> call[s].user, category |-> call[s].category,
                   status |-> "open", created |-> stamp[s], updated |-> stamp[s]]
<1>1. /\ fresh[s] \in TicketIds \ Stored /\ tickets' = [tickets EXCEPT ![fresh[s]] = row]
      /\ row.status = "open"
  BY CommitEffect DEF IInv, CreateOK, CommitCreate
<1> HIDE DEF row
<1> QED BY <1>1 DEF Escalated, Stored, IInv, TypeOK

\* Without lists and appends a step of a session is one of these four.
LEMMA WorkCases ==
    ASSUME IInv, NEW s \in Sessions, ServeOK(s), Work(s)
    PROVE  Aside(s) /\ (GoesOn(s) \/ Answers(s) \/ Creates(s) \/ Escalates(s))
<1>0. TypeOK /\ SessionOK(s) /\ CreateOK(s) /\ EscalateOK(s)
  BY DEF IInv
<1>1. CASE SelectActive(s)
  <2>1. CASE Close(s, Refused("CONFLICT")) /\ UNCHANGED <<dbVars, now>>
    <3>1. Escalated' = Escalated
      BY <2>1 DEF Escalated, Stored, dbVars
    <3> QED BY <1>0, <1>1, <2>1, <3>1, ClosedAside
            DEF SelectActive, Creates, CreateOK, Refused, Answer
  <2>2. CASE Loaded(s, {}) /\ UNCHANGED <<stamp, reply>>
    BY <1>0, <1>1, <2>2 DEF SelectActive, Loaded, GoesOn, Aside, TypeOK, SessionOK
  <2> QED BY <1>1, <2>1, <2>2 DEF SelectActive
<1>2. CASE FlushTicket(s) \/ FlushRow(s) \/ FlushDone(s)
  BY <1>0, <1>2 DEF FlushTicket, FlushRow, FlushDone, GoesOn, Aside, TypeOK
<1>3. CASE CommitCreate(s)
  <2>1. PICK a \in {Answer("created", fresh[s], {}), Refused("failed")} : Close(s, a)
    BY <1>3 DEF CommitCreate
  <2>2. a.rows = {}
    BY <2>1 DEF Refused, Answer
  <2> QED BY <1>0, <1>3, <2>1, <2>2, ClosedAside, CreateEscalatesNone
          DEF CommitCreate, Creates, CreateOK
<1>4. CASE SelectStale(s)
  <2> DEFINE stale == Stale(stamp[s] - call[s].age)
  <2>1. stale \cap Escalated = {}
    BY DEF Stale, Escalated
  <2>2. /\ Loaded(s, stale)
        /\ reply' = [reply EXCEPT ![s] = Answer("escalated", None, stale)]
    BY <1>4 DEF SelectStale
  <2> HIDE DEF stale
  <2> QED BY <1>0, <1>4, <2>1, <2>2 DEF SelectStale, Loaded, Answers, Answer, Aside, TypeOK
<1>5. CASE CommitEscalate(s)
  <2>1. Escalated' = Escalated \cup view[s]
    BY <1>0, <1>5, CommitEffect DEF CommitEscalate, Escalated, Stored, EscalateOK, TypeOK
  <2> QED BY <1>0, <1>5, <2>1, ClosedAside DEF CommitEscalate, Escalates
<1>6. CASE SelectMine(s) \/ SelectTicket(s) \/ CommitAppend(s)
  BY <1>6 DEF SelectMine, SelectTicket, CommitAppend, ServeOK
<1> QED BY <1>1, <1>2, <1>3, <1>4, <1>5, <1>6 DEF Work

\* A rolled back session ends with what it had answered, or with an error.
LEMMA RollbackCases ==
    ASSUME IInv, NEW s \in Sessions, Rollback(s)
    PROVE  /\ Aside(s) /\ UNCHANGED dbVars
           /\ pc[s] # "idle" /\ pc'[s] = "idle" /\ call'[s].op = "none" /\ view'[s] = {}
           /\ \/ reply'[s] = reply[s] /\ pc[s] # "select"
              \/ reply'[s].rows = {} /\ reply'[s] # NoReply
<1>1. Refused("failed").rows = {} /\ Refused("failed") # NoReply
  BY DEF Refused, NoReply, Answer
<1>2. PICK a \in {Refused("failed"), reply[s]} :
         Close(s, a) /\ (a = Refused("failed") \/ pc[s] # "select")
  BY DEF Rollback
<1> QED BY <1>1, <1>2, ClosedAside DEF Rollback, IInv

----------------------------------------------------------------------------
(* The steps of a run. *)

\* The other runs are left alone.
RunsAside(r) ==
    \A q \in Runs \ {r} :
        /\ phase'[q] = phase[q] /\ misses'[q] = misses[q] /\ conn'[q] = conn[q]
        /\ rows'[q] = rows[q] /\ mails'[q] = mails[q]
        /\ before'[q] = before[q] /\ moved'[q] = moved[q] /\ undone'[q] = undone[q]

\* A step of the workflow that leaves the service alone keeps what is said of
\* the other runs and of the sessions.
LEMMA RunsAsideOK ==
    ASSUME DigestInv, NEW r \in Runs, RunsAside(r), UNCHANGED <<vars, owner>>,
           ~ Waiting(r)'
    PROVE  /\ \A s \in Sessions : ServeOK(s)'
           /\ \A q \in Runs \ {r} : /\ RunOK(q)' /\ LinkOK(q)'
                                     /\ FreshOK(q)' /\ AccountedOK(q)' /\ FirstTryOK(q)'
<1> USE DEF DigestInv, RunsAside
<1>1. \A s \in Sessions : ServeOK(s)'
  BY DEF ServeOK, vars
<1>2. ASSUME NEW q \in Runs \ {r}
      PROVE  /\ RunOK(q)' /\ FreshOK(q)' /\ AccountedOK(q)' /\ FirstTryOK(q)'
  <2>1. Told(q)' = Told(q) /\ Waiting(q)' = Waiting(q) /\ Escalated' = Escalated
    BY DEF Told, Waiting, Escalated, Stored, vars
  <2>2. RunOK(q)'
    BY DEF RunOK, Waiting, vars
  <2>3. FreshOK(q)' /\ AccountedOK(q)' /\ FirstTryOK(q)'
    BY <2>1 DEF FreshOK, AccountedOK, FirstTryOK, Waiting, vars
  <2> QED BY <2>2, <2>3
<1>3. ASSUME NEW q \in Runs \ {r} PROVE LinkOK(q)'
  BY DEF LinkOK, Waiting, vars
<1> QED BY <1>1, <1>2, <1>3

\* A miss is counted; the run fails when the retries are used up.
LEMMA MissCounted ==
    ASSUME DigestTypeOK, NEW r \in Runs, NEW node \in {"request", "send"},
           misses[r][node] <= MaxRetries, AfterMiss(r, node)
    PROVE  /\ phase' \in [Runs -> {"idle", "request", "await", "branch", "send"} \cup Ended]
           /\ misses' \in [Runs -> [{"request", "send"} -> 0 .. MaxRetries + 1]]
           /\ \A q \in Runs \ {r} : phase'[q] = phase[q] /\ misses'[q] = misses[q]
           /\ phase'[r] \in {node, "failed"}
           /\ phase'[r] = node => misses'[r][node] <= MaxRetries
           /\ misses'[r][node] = misses[r][node] + 1
           /\ \A other \in {"request", "send"} : other # node => misses'[r][other] = misses[r][other]
<1>1. misses[r] \in [{"request", "send"} -> 0 .. MaxRetries + 1]
  BY DEF DigestTypeOK
<1>2. misses' = [misses EXCEPT ![r] = [misses[r] EXCEPT ![node] = misses[r][node] + 1]]
  BY DEF AfterMiss
<1>3. [misses[r] EXCEPT ![node] = misses[r][node] + 1] \in [{"request", "send"} -> 0 .. MaxRetries + 1]
  BY <1>1, RetriesAssumption
<1>4. misses'[r] = [misses[r] EXCEPT ![node] = misses[r][node] + 1]
  BY <1>2 DEF DigestTypeOK
<1>5. phase' = [phase EXCEPT ![r] = IF misses[r][node] < MaxRetries THEN node ELSE "failed"]
  BY DEF AfterMiss
<1> QED BY <1>1, <1>2, <1>3, <1>4, <1>5, RetriesAssumption DEF DigestTypeOK, Ended

\* Fire keeps the invariant.
LEMMA FireStep ==
    ASSUME DigestInv, NEW r \in Runs, Fire(r) PROVE DigestInv'
<1> USE DEF DigestInv, Fire
<1>1. DigestTypeOK'
  BY DEF DigestTypeOK, Escalated, Stored, Ended
<1>2. RunsAside(r) /\ ~ Waiting(r)'
  BY DEF DigestTypeOK, RunsAside, Waiting
<1>3. /\ phase[r] = "idle" /\ phase'[r] = "request" /\ before'[r] = Escalated
      /\ rows[r] = {} /\ Escalated' = Escalated
  BY DEF RunOK, DigestTypeOK, Escalated, Stored, vars
<1>4. RunOK(r)' /\ LinkOK(r)'
  BY <1>3 DEF RunOK, LinkOK, Waiting
<1>5. FreshOK(r)' /\ AccountedOK(r)' /\ FirstTryOK(r)'
  BY <1>3 DEF FreshOK, AccountedOK, FirstTryOK, Told, Waiting
<1> QED BY <1>1, <1>2, <1>4, <1>5, RunsAsideOK

\* Branch keeps the invariant.
LEMMA BranchStep ==
    ASSUME DigestInv, NEW r \in Runs, Branch(r) PROVE DigestInv'
<1> USE DEF DigestInv, Branch
<1>1. DigestTypeOK'
  BY DEF DigestTypeOK, Ended
<1>2. RunsAside(r) /\ ~ Waiting(r)'
  BY DEF DigestTypeOK, RunsAside, Waiting
<1>3. /\ phase[r] = "branch" /\ phase'[r] = IF rows[r] = {} THEN "done" ELSE "send"
      /\ Escalated' = Escalated
  BY DEF DigestTypeOK, Escalated, Stored, vars
<1>4. mails[r] = 0 /\ misses[r]["send"] \in Nat
  BY <1>3, RetriesAssumption DEF RunOK, DigestTypeOK
<1>5. RunOK(r)' /\ LinkOK(r)'
  BY <1>3, <1>4 DEF RunOK, LinkOK, Waiting
<1>6. FreshOK(r)' /\ AccountedOK(r)' /\ FirstTryOK(r)'
  BY <1>3 DEF FreshOK, AccountedOK, FirstTryOK, Told, Waiting, vars
<1> QED BY <1>1, <1>2, <1>5, <1>6, RunsAsideOK

\* Send keeps the invariant: a mail more goes with the end or with a miss.
LEMMA SendStep ==
    ASSUME DigestInv, NEW r \in Runs, Send(r) PROVE DigestInv'
<1> USE DEF DigestInv
<1>1. /\ phase[r] = "send" /\ rows[r] # {} /\ misses[r]["send"] \in 0 .. MaxRetries
      /\ mails[r] \in Nat /\ mails[r] <= misses[r]["send"] /\ Escalated' = Escalated
  BY RetriesAssumption DEF Send, RunOK, DigestTypeOK, Escalated, Stored, vars
<1>2. /\ DigestTypeOK' /\ RunsAside(r) /\ ~ Waiting(r)' /\ RunOK(r)'
      /\ misses'[r]["request"] = misses[r]["request"]
  <2>1. CASE /\ mails' = [mails EXCEPT ![r] = @ + 1]
             /\ phase' = [phase EXCEPT ![r] = "done"] /\ UNCHANGED misses
    <3>1. DigestTypeOK'
      BY <1>1, <2>1 DEF Send, DigestTypeOK, Ended
    <3>2. RunsAside(r) /\ ~ Waiting(r)' /\ misses'[r]["request"] = misses[r]["request"]
      BY <1>1, <2>1 DEF Send, DigestTypeOK, RunsAside, Waiting
    <3>3. RunOK(r)'
      BY <1>1, <2>1, RetriesAssumption DEF Send, RunOK, Waiting, DigestTypeOK
    <3> QED BY <3>1, <3>2, <3>3
  <2>2. ASSUME NEW accepted \in {0, 1}, mails' = [mails EXCEPT ![r] = @ + accepted],
               AfterMiss(r, "send")
        PROVE  /\ DigestTypeOK' /\ RunsAside(r) /\ ~ Waiting(r)' /\ RunOK(r)'
               /\ misses'[r]["request"] = misses[r]["request"]
    <3>1. /\ phase' \in [Runs -> {"idle", "request", "await", "branch", "send"} \cup Ended]
          /\ misses' \in [Runs -> [{"request", "send"} -> 0 .. MaxRetries + 1]]
          /\ \A q \in Runs \ {r} : phase'[q] = phase[q] /\ misses'[q] = misses[q]
          /\ phase'[r] \in {"send", "failed"}
          /\ phase'[r] = "send" => misses'[r]["send"] <= MaxRetries
          /\ misses'[r]["send"] = misses[r]["send"] + 1
          /\ misses'[r]["request"] = misses[r]["request"]
      BY <1>1, <2>2, MissCounted
    <3>2. DigestTypeOK'
      <4>1. mails' \in [Runs -> Nat]
        BY <2>2 DEF DigestTypeOK
      <4>2. UNCHANGED <<conn, owner, rows, before, moved, undone>>
        BY DEF Send
      <4> QED BY <3>1, <4>1, <4>2 DEF DigestTypeOK
    <3>3. RunsAside(r) /\ ~ Waiting(r)'
      BY <1>1, <2>2, <3>1 DEF Send, DigestTypeOK, RunsAside, Waiting
    <3>4. mails'[r] <= misses'[r]["send"]
      BY <1>1, <2>2, <3>1 DEF DigestTypeOK
    <3>5. RunOK(r)'
      BY <1>1, <3>1, <3>4 DEF Send, RunOK, Waiting
    <3> QED BY <3>1, <3>2, <3>3, <3>5
  <2> QED BY <2>1, <2>2 DEF Send
<1>3. LinkOK(r)'
  BY <1>2 DEF LinkOK
<1>4. FreshOK(r)' /\ AccountedOK(r)' /\ FirstTryOK(r)'
  <2>1. Told(r) = rows[r] /\ Told(r)' = rows[r] /\ ~ Waiting(r) /\ phase'[r] \notin {"idle", "request"}
    BY <1>1, <1>2, MissCounted DEF Told, Waiting, Send, DigestTypeOK
  <2> QED BY <1>1, <1>2, <2>1 DEF Send, FreshOK, AccountedOK, FirstTryOK, vars
<1>5. UNCHANGED <<vars, owner>>
  BY DEF Send
<1> QED BY <1>2, <1>3, <1>4, <1>5, RunsAsideOK

\* A lost response keeps the invariant: a session that still serves the run
\* goes on, and the run counts a miss.
LEMMA ResponseLostStep ==
    ASSUME DigestInv, NEW r \in Runs, ResponseLost(r) PROVE DigestInv'
<1> USE DEF DigestInv
<1>1. /\ phase[r] = "await" /\ misses[r]["request"] \in 0 .. MaxRetries
      /\ rows[r] = {} /\ mails[r] = 0 /\ misses[r]["send"] \in Nat /\ misses[r]["send"] <= MaxRetries
      /\ Escalated' = Escalated
  BY RetriesAssumption DEF ResponseLost, RunOK, Waiting, DigestTypeOK, Escalated, Stored, vars
<1>2. /\ phase' \in [Runs -> {"idle", "request", "await", "branch", "send"} \cup Ended]
      /\ misses' \in [Runs -> [{"request", "send"} -> 0 .. MaxRetries + 1]]
      /\ \A q \in Runs \ {r} : phase'[q] = phase[q] /\ misses'[q] = misses[q]
      /\ phase'[r] \in {"request", "failed"}
      /\ phase'[r] = "request" => misses'[r]["request"] <= MaxRetries
      /\ misses'[r]["request"] = misses[r]["request"] + 1
      /\ misses'[r]["send"] = misses[r]["send"]
  BY <1>1, MissCounted DEF ResponseLost
<1>3. DigestTypeOK'
  BY <1>2 DEF ResponseLost, DigestTypeOK
<1>4. RunsAside(r) /\ ~ Waiting(r)' /\ conn'[r] = None
  BY <1>2 DEF ResponseLost, DigestTypeOK, RunsAside, Waiting
<1>5. RunOK(r)' /\ LinkOK(r)'
  BY <1>1, <1>2, <1>4 DEF ResponseLost, RunOK, LinkOK, Waiting
<1>6. Told(r)' = {}
  BY <1>1, <1>4 DEF Told, ResponseLost
<1>7. FreshOK(r)' /\ AccountedOK(r)' /\ FirstTryOK(r)'
  <2>1. misses'[r]["request"] # 0
    BY <1>1, <1>2
  <2> QED BY <1>1, <1>6, <2>1 DEF FreshOK, AccountedOK, FirstTryOK, ResponseLost
<1>8. UNCHANGED <<vars, owner>>
  BY DEF ResponseLost
<1> QED BY <1>3, <1>4, <1>5, <1>7, <1>8, RunsAsideOK

\* Nothing of run q changes.
SameRun(q) ==
    /\ phase'[q] = phase[q] /\ misses'[q] = misses[q] /\ conn'[q] = conn[q]
    /\ rows'[q] = rows[q] /\ mails'[q] = mails[q]
    /\ before'[q] = before[q] /\ moved'[q] = moved[q] /\ undone'[q] = undone[q]

\* A run whose answer stays does not notice that another one is read.
LEMMA AnswerReadElsewhere ==
    ASSUME DigestInv, NEW q \in Runs, SameRun(q), UNCHANGED <<dbVars, pc, view, owner>>,
           Waiting(q) => reply'[conn[q]] = reply[conn[q]]
    PROVE  RunOK(q)' /\ FreshOK(q)' /\ AccountedOK(q)' /\ FirstTryOK(q)'
<1> USE DEF DigestInv, SameRun
<1>1. Told(q)' = Told(q) /\ Waiting(q)' = Waiting(q) /\ Escalated' = Escalated
  BY DEF Told, Waiting, Escalated, Stored, dbVars
<1>2. RunOK(q)'
  BY <1>1 DEF RunOK, Waiting
<1>3. FreshOK(q)' /\ AccountedOK(q)' /\ FirstTryOK(q)'
  BY <1>1 DEF FreshOK, AccountedOK, FirstTryOK
<1> QED BY <1>2, <1>3

\* A run that reads its answer knows what it was told.
LEMMA ResponseStep ==
    ASSUME IInv, DigestInv, NEW r \in Runs, Response(r) PROVE DigestInv'
<1> USE DEF DigestInv
<1> DEFINE c == conn[r]
<1>0. TypeOK /\ c \in Sessions /\ phase[r] = "await" /\ Waiting(r)
  BY DEF IInv, Response, RunOK, Waiting
<1>1. /\ misses[r]["request"] \in 0 .. MaxRetries
      /\ rows[r] = {} /\ mails[r] = 0 /\ misses[r]["send"] \in Nat /\ misses[r]["send"] <= MaxRetries
      /\ Told(r) = reply[c].rows
  BY <1>0, RetriesAssumption DEF RunOK, DigestTypeOK, Told
<1>2. /\ reply[c] # NoReply /\ reply' = [reply EXCEPT ![c] = NoReply]
      /\ UNCHANGED <<dbVars, now, pc, call, view, owner, mails, before, moved, undone>>
      /\ conn' = [conn EXCEPT ![r] = None]
      /\ Escalated' = Escalated
  BY DEF Response, ReadReply, Escalated, Stored, dbVars
<1>3. reply'[c] = NoReply /\ \A s \in Sessions \ {c} : reply'[s] = reply[s]
  BY <1>0, <1>2 DEF TypeOK
<1>4. /\ phase' \in [Runs -> {"idle", "request", "await", "branch", "send"} \cup Ended]
      /\ misses' \in [Runs -> [{"request", "send"} -> 0 .. MaxRetries + 1]]
      /\ rows' \in [Runs -> SUBSET TicketIds]
      /\ \A q \in Runs \ {r} : phase'[q] = phase[q] /\ misses'[q] = misses[q] /\ rows'[q] = rows[q]
      /\ misses'[r]["send"] = misses[r]["send"]
      /\ \/ phase'[r] = "branch" /\ rows'[r] = reply[c].rows /\ misses'[r] = misses[r]
         \/ /\ phase'[r] \in {"request", "failed"} /\ rows'[r] = {}
            /\ phase'[r] = "request" => misses'[r]["request"] <= MaxRetries
            /\ misses'[r]["request"] = misses[r]["request"] + 1
  <2>1. CASE /\ rows' = [rows EXCEPT ![r] = reply[c].rows]
             /\ phase' = [phase EXCEPT ![r] = "branch"] /\ UNCHANGED misses
    BY <1>0, <2>1 DEF DigestTypeOK, TypeOK
  <2>2. CASE AfterMiss(r, "request") /\ UNCHANGED rows
    BY <1>1, <2>2, MissCounted DEF DigestTypeOK
  <2> QED BY <2>1, <2>2 DEF Response
<1>5. DigestTypeOK'
  <2>1. conn' \in [Runs -> Sessions \cup {None}]
    BY <1>2 DEF DigestTypeOK
  <2>2. owner' = owner /\ mails' = mails /\ before' = before /\ moved' = moved /\ undone' = undone
    BY <1>2
  <2>3. \A history \in {rows', before', moved', undone'} : history \in [Runs -> SUBSET TicketIds]
    BY <1>4, <2>2 DEF DigestTypeOK
  <2>4. owner \in [Sessions -> Runs \cup {None}] /\ mails \in [Runs -> Nat]
    BY DEF DigestTypeOK
  <2> HIDE DEF DigestInv
  <2> QED BY <1>4, <2>1, <2>2, <2>3, <2>4 DEF DigestTypeOK
<1>6. \A s \in Sessions : ServeOK(s)'
  BY <1>2, <1>3 DEF ServeOK
<1>7. ~ Waiting(r)'
  BY <1>4 DEF Waiting
<1>8. ASSUME NEW q \in Runs \ {r}
      PROVE  /\ RunOK(q)' /\ LinkOK(q)'
             /\ FreshOK(q)' /\ AccountedOK(q)' /\ FirstTryOK(q)'
  <2>1. SameRun(q)
    BY <1>2, <1>4 DEF SameRun, DigestTypeOK
  <2>2. Waiting(q) => conn[q] \in Sessions /\ reply'[conn[q]] = reply[conn[q]]
    BY <1>0, <1>3 DEF LinkOK, RunOK
  <2>3. LinkOK(q)'
    BY <1>2, <1>4, <1>7, <2>1, <2>2 DEF LinkOK, SameRun, Waiting, DigestTypeOK
  <2> QED BY <1>2, <2>1, <2>2, <2>3, AnswerReadElsewhere
<1>9. RunOK(r)' /\ LinkOK(r)'
  BY <1>1, <1>2, <1>4, <1>7 DEF RunOK, LinkOK, Waiting, DigestTypeOK
<1>10. FreshOK(r)' /\ AccountedOK(r)' /\ FirstTryOK(r)'
  <2>1. CASE phase'[r] = "branch" /\ rows'[r] = reply[c].rows /\ misses'[r] = misses[r]
    <3>1. Told(r)' = Told(r)
      BY <1>1, <1>7, <2>1 DEF Told
    <3>2. misses[r]["request"] = 0 => \A s \in Sessions : owner[s] = r => pc[s] # "select"
      BY <1>0, <1>2 DEF FirstTryOK, ServeOK
    <3> QED BY <1>2, <1>7, <2>1, <3>1, <3>2 DEF FreshOK, AccountedOK, FirstTryOK
  <2>2. CASE rows'[r] = {} /\ misses'[r]["request"] = misses[r]["request"] + 1
    <3>1. Told(r)' = {} /\ misses'[r]["request"] # 0
      BY <1>1, <1>7, <2>2 DEF Told
    <3> QED BY <1>2, <3>1 DEF FreshOK, AccountedOK, FirstTryOK
  <2> QED BY <1>4, <2>1, <2>2
<1> QED BY <1>5, <1>6, <1>8, <1>9, <1>10

\* Reading an answer nobody waits for.
LEMMA UnreadStep ==
    ASSUME IInv, DigestInv, NEW s \in Sessions, Unread(s) PROVE DigestInv'
<1> USE DEF DigestInv
<1>1. /\ reply' = [reply EXCEPT ![s] = NoReply]
      /\ UNCHANGED <<dbVars, pc, call, view>> /\ UNCHANGED digestVars
      /\ \A r \in Runs : conn[r] # s
  BY DEF Unread, ReadReply
<1>2. reply'[s] = NoReply /\ \A other \in Sessions \ {s} : reply'[other] = reply[other]
  BY <1>1 DEF IInv, TypeOK
<1>3. DigestTypeOK'
  BY <1>1 DEF DigestTypeOK, digestVars
<1>4. \A other \in Sessions : ServeOK(other)'
  BY <1>1, <1>2 DEF ServeOK, digestVars
<1>5. ASSUME NEW q \in Runs
      PROVE  RunOK(q)' /\ LinkOK(q)' /\ FreshOK(q)' /\ AccountedOK(q)' /\ FirstTryOK(q)'
  <2>1. SameRun(q) /\ owner' = owner
    BY <1>1 DEF SameRun, digestVars
  <2>2. Waiting(q) => reply'[conn[q]] = reply[conn[q]]
    BY <1>1, <1>2 DEF RunOK
  <2>3. LinkOK(q)'
    BY <1>1, <2>1, <2>2 DEF LinkOK, Waiting, digestVars
  <2> QED BY <1>1, <2>1, <2>2, <2>3, AnswerReadElsewhere
<1> QED BY <1>3, <1>4, <1>5

----------------------------------------------------------------------------
(* The steps of the service. *)

\* A free session serves no run, and no run waits for it.
LEMMA FreeSession ==
    ASSUME IInv, DigestInv, NEW s \in Sessions, Free(s)
    PROVE  /\ owner[s] = None /\ view[s] = {} /\ reply[s].rows = {}
           /\ \A q \in Runs : Waiting(q) => conn[q] # s
<1>1. call[s].op = "none" /\ view[s] = {} /\ reply[s].rows = {}
  BY DEF Free, IInv, SessionOK, NoReply, Answer
<1>2. owner[s] = None
  BY <1>1 DEF DigestInv, ServeOK
<1>3. \A q \in Runs : Waiting(q) => conn[q] # s
  BY DEF DigestInv, LinkOK, Free
<1> QED BY <1>1, <1>2, <1>3

\* A free session that starts a call leaves a run alone that is not its own.
LEMMA StartElsewhere ==
    ASSUME IInv, DigestInv, NEW s \in Sessions, Free(s), NEW q \in Runs, SameRun(q),
           UNCHANGED <<dbVars, view, reply>>,
           owner'[s] # q,
           \A other \in Sessions \ {s} : pc'[other] = pc[other] /\ owner'[other] = owner[other]
    PROVE  RunOK(q)' /\ FreshOK(q)' /\ AccountedOK(q)' /\ FirstTryOK(q)'
<1> USE DEF DigestInv, SameRun
<1>1. owner[s] = None /\ q # None /\ (Waiting(q) => conn[q] # s)
  BY FreeSession, RunsAssumption
<1>2. Told(q)' = Told(q) /\ Waiting(q)' = Waiting(q) /\ Escalated' = Escalated
  BY DEF Told, Waiting, Escalated, Stored, dbVars
<1>3. RunOK(q)'
  BY <1>2 DEF RunOK, Waiting
<1>4. \A other \in Sessions : owner[other] = q <=> owner'[other] = q
  BY <1>1
<1>5. \A other \in Sessions : owner[other] = q => pc'[other] = pc[other]
  BY <1>1
<1>6. FreshOK(q)' /\ AccountedOK(q)'
  BY <1>2, <1>4 DEF FreshOK, AccountedOK
<1>7. FirstTryOK(q)'
  BY <1>2, <1>4, <1>5 DEF FirstTryOK
<1> QED BY <1>3, <1>6, <1>7

\* A request that is served by a free session starts without an answer.
LEMMA RequestStep ==
    ASSUME IInv, DigestInv, NEW r \in Runs, Request(r) PROVE DigestInv'
<1> USE DEF DigestInv
<1>1. PICK s \in Sessions, older \in Ages :
         /\ CallEscalate(s, older)
         /\ conn' = [conn EXCEPT ![r] = s] /\ owner' = [owner EXCEPT ![s] = r]
  BY DEF Request
<1>2. /\ Free(s) /\ UNCHANGED <<dbVars, view, reply>>
      /\ pc' = [pc EXCEPT ![s] = "select"]
      /\ call'[s].op = "escalate"
      /\ \A other \in Sessions \ {s} : call'[other] = call[other] /\ pc'[other] = pc[other]
  BY <1>1 DEF CallEscalate, Start, EscalateArgs, Args, IInv, TypeOK
<1>3. /\ phase[r] = "request" /\ phase' = [phase EXCEPT ![r] = "await"]
      /\ UNCHANGED <<misses, rows, mails, before, moved, undone>>
  BY DEF Request
<1>4. /\ owner[s] = None /\ view[s] = {} /\ reply[s] = NoReply /\ reply[s].rows = {}
      /\ \A q \in Runs : Waiting(q) => conn[q] # s
  BY <1>2, FreeSession DEF Free
<1>5. pc'[s] = "select" /\ conn'[r] = s /\ owner'[s] = r /\ phase'[r] = "await"
  BY <1>1, <1>2, <1>3 DEF IInv, TypeOK, DigestTypeOK
<1>6. DigestTypeOK'
  BY <1>1, <1>3 DEF DigestTypeOK
<1>7. \A other \in Sessions : ServeOK(other)'
  BY <1>1, <1>2, <1>4, <1>5 DEF ServeOK, DigestTypeOK
<1>8. ASSUME NEW q \in Runs \ {r}
      PROVE  RunOK(q)' /\ LinkOK(q)' /\ FreshOK(q)' /\ AccountedOK(q)' /\ FirstTryOK(q)'
  <2>1. SameRun(q)
    BY <1>1, <1>3 DEF SameRun, DigestTypeOK
  <2>2. \A other \in Sessions \ {s} : owner'[other] = owner[other]
    BY <1>1 DEF DigestTypeOK
  <2>3. Waiting(q)' => Waiting(q) /\ conn'[q] \in Sessions \ {s}
    BY <1>4, <2>1 DEF SameRun, Waiting, RunOK
  <2>4. LinkOK(q)'
    <3> SUFFICES ASSUME Waiting(q)'
                 PROVE  /\ pc'[conn'[q]] = "select" \/ reply'[conn'[q]] # NoReply
                        /\ pc'[conn'[q]] # "idle" => owner'[conn'[q]] = q
                        /\ \A other \in Runs : Waiting(other)' /\ conn'[other] = conn'[q] => other = q
      BY DEF LinkOK
    <3>1. \A other \in Runs \ {r} : phase'[other] = phase[other] /\ conn'[other] = conn[other]
      BY <1>1, <1>3 DEF DigestTypeOK
    <3> QED BY <1>2, <1>5, <2>1, <2>2, <2>3, <3>1 DEF LinkOK, SameRun, Waiting
  <2> QED BY <1>2, <1>5, <2>1, <2>2, <2>4, StartElsewhere
<1>9. RunOK(r)'
  BY <1>3, <1>5 DEF RunOK, Waiting
<1>10. LinkOK(r)'
  <2>1. \A other \in Runs \ {r} : Waiting(other)' => conn'[other] # s
    BY <1>1, <1>3, <1>4 DEF Waiting, DigestTypeOK
  <2> QED BY <1>5, <2>1 DEF LinkOK
<1>11. FreshOK(r)' /\ AccountedOK(r)' /\ FirstTryOK(r)'
  <2>1. Told(r)' = {} /\ Told(r) = {} /\ Waiting(r)' /\ Escalated' = Escalated
    BY <1>2, <1>3, <1>4, <1>5 DEF Told, Waiting, RunOK, Escalated, Stored, dbVars
  <2>2. FirstTryOK(r)'
    <3> SUFFICES ASSUME misses[r]["request"] = 0
                 PROVE  /\ moved[r] = {}
                        /\ \A other \in Sessions : owner'[other] = r => other = s
      BY <1>2, <1>3, <1>4, <1>5, <2>1 DEF FirstTryOK
    <3> QED BY <1>1, <1>3, <2>1 DEF FirstTryOK, DigestTypeOK
  <2> QED BY <1>3, <2>1, <2>2 DEF FreshOK, AccountedOK
<1> QED BY <1>6, <1>7, <1>8, <1>9, <1>10, <1>11

\* An employee opens a ticket beside the runs.
LEMMA ServiceCallStep ==
    ASSUME IInv, DigestInv, NEW s \in Sessions, ServiceCall(s) PROVE DigestInv'
<1> USE DEF DigestInv
<1>1. PICK u \in Users, c \in Categories : CallCreate(s, u, c)
  BY DEF ServiceCall
<1>2. PICK id \in TicketIds : Free(s) /\ Start(s, CreateArgs(u, c), id)
  BY <1>1, UsersAssumption DEF CallCreate
<1>3. /\ UNCHANGED <<dbVars, view, reply>>
      /\ pc'[s] = "select" /\ call'[s].op = "create"
      /\ \A other \in Sessions \ {s} : call'[other] = call[other] /\ pc'[other] = pc[other]
  BY <1>2 DEF Start, CreateArgs, Args, IInv, TypeOK
<1>4. owner' = owner /\ owner[s] = None /\ reply[s] = NoReply
      /\ \A q \in Runs : Waiting(q) => conn[q] # s
  BY <1>2, FreeSession DEF ServiceCall, DigestTypeOK, Free
<1>5. UNCHANGED <<phase, misses, conn, rows, mails, before, moved, undone>>
  BY DEF ServiceCall
<1>6. DigestTypeOK'
  BY <1>4, <1>5 DEF DigestTypeOK
<1>7. \A other \in Sessions : ServeOK(other)'
  BY <1>3, <1>4 DEF ServeOK
<1>8. ASSUME NEW q \in Runs
      PROVE  RunOK(q)' /\ LinkOK(q)' /\ FreshOK(q)' /\ AccountedOK(q)' /\ FirstTryOK(q)'
  <2>1. SameRun(q)
    BY <1>5 DEF SameRun
  <2>2. LinkOK(q)'
    BY <1>3, <1>4, <1>5 DEF LinkOK, Waiting, RunOK
  <2> QED BY <1>2, <1>3, <1>4, <2>1, <2>2, RunsAssumption, StartElsewhere
<1> QED BY <1>6, <1>7, <1>8

\* What a step of session s leaves alone.
WorkFrame(s) ==
    /\ Aside(s)
    /\ UNCHANGED <<phase, misses, conn, rows, mails, before>>
    /\ \A other \in Sessions \ {s} : owner'[other] = owner[other]

Kept(q) == LinkOK(q) /\ FreshOK(q) /\ AccountedOK(q) /\ FirstTryOK(q)

\* The session goes on: nothing shows.
LEMMA GoesOnStep ==
    ASSUME IInv, DigestInv, NEW s \in Sessions, WorkFrame(s), GoesOn(s),
           owner' = owner, moved' = moved, undone' = undone
    PROVE  ServeOK(s)' /\ \A q \in Runs : Kept(q)'
<1> USE DEF DigestInv, WorkFrame, GoesOn, Aside
<1>1. ServeOK(s)'
  BY DEF ServeOK
<1>2. ASSUME NEW q \in Runs PROVE Kept(q)'
  <2>1. /\ Told(q)' = Told(q) /\ Waiting(q)' = Waiting(q) /\ Escalated' = Escalated
        /\ \A other \in Sessions : view'[other] = view[other]
        /\ \A other \in Sessions : pc'[other] = "select" => pc[other] = "select"
    BY DEF Told, Waiting, RunOK, Escalated, Stored, dbVars
  <2>2. FreshOK(q)' /\ AccountedOK(q)' /\ FirstTryOK(q)'
    BY <2>1 DEF FreshOK, AccountedOK, FirstTryOK
  <2>3. LinkOK(q)'
    <3>1. Waiting(q) /\ conn[q] = s => pc[s] # "select" /\ owner[s] = q
      BY RunsAssumption DEF LinkOK, ServeOK
    <3> QED BY <2>1, <3>1 DEF LinkOK, Waiting, RunOK
  <2> QED BY <2>2, <2>3 DEF Kept
<1> QED BY <1>1, <1>2

\* The session answers an escalation: its run is told the rows it loaded.
LEMMA AnswersStep ==
    ASSUME IInv, DigestInv, NEW s \in Sessions, WorkFrame(s), Answers(s),
           owner' = owner, moved' = moved, undone' = undone
    PROVE  ServeOK(s)' /\ \A q \in Runs : Kept(q)'
<1> USE DEF DigestInv, WorkFrame, Answers, Aside
<1>0. view[s] = {} /\ reply'[s] # NoReply
  BY DEF IInv, SessionOK, NoReply, Answer
<1>1. ServeOK(s)'
  BY DEF ServeOK
<1>2. ASSUME NEW q \in Runs PROVE Kept(q)'
  <2>1. /\ Waiting(q)' = Waiting(q) /\ Escalated' = Escalated
        /\ Told(q)' = IF Waiting(q) /\ conn[q] = s THEN view'[s] ELSE Told(q)
        /\ \A other \in Sessions : view[other] \subseteq view'[other]
        /\ \A other \in Sessions : pc'[other] = "select" => pc[other] = "select"
    BY <1>0 DEF Told, Waiting, RunOK, Escalated, Stored, dbVars
  <2>2. Waiting(q) /\ conn[q] = s => owner[s] = q
    BY DEF LinkOK
  <2>3. FreshOK(q)'
    BY <2>1 DEF FreshOK
  <2>4. AccountedOK(q)'
    BY <2>1, <2>2 DEF AccountedOK
  <2>5. FirstTryOK(q)'
    <3>1. misses[q]["request"] = 0 /\ owner[s] = q => Waiting(q) /\ conn[q] = s
      BY DEF FirstTryOK
    <3> QED BY <2>1, <2>2, <3>1 DEF FirstTryOK
  <2>6. LinkOK(q)'
    BY <1>0, <2>1, <2>2 DEF LinkOK, Waiting, RunOK
  <2> QED BY <2>3, <2>4, <2>5, <2>6 DEF Kept
<1> QED BY <1>1, <1>2

\* A create ends: no run has to do with it.
LEMMA CreatesStep ==
    ASSUME IInv, DigestInv, NEW s \in Sessions, WorkFrame(s), Creates(s),
           owner'[s] = None, moved' = moved, undone' = undone
    PROVE  ServeOK(s)' /\ \A q \in Runs : Kept(q)'
<1> USE DEF DigestInv, WorkFrame, Creates, Aside
<1>0. owner[s] = None /\ pc[s] # "idle"
  BY DEF ServeOK, IInv, SessionOK
<1>1. ServeOK(s)'
  BY DEF ServeOK
<1>2. ASSUME NEW q \in Runs PROVE Kept(q)'
  <2>1. Waiting(q) => conn[q] # s
    BY <1>0, RunsAssumption DEF LinkOK
  <2>2. /\ Waiting(q)' = Waiting(q) /\ Told(q)' = Told(q)
        /\ \A other \in Sessions : view'[other] = view[other] /\ owner'[other] = owner[other]
        /\ \A other \in Sessions : pc'[other] = "select" => pc[other] = "select"
    BY <1>0, <2>1 DEF Told, Waiting, RunOK
  <2>3. FreshOK(q)' /\ AccountedOK(q)' /\ FirstTryOK(q)'
    BY <2>2 DEF FreshOK, AccountedOK, FirstTryOK
  <2>4. LinkOK(q)'
    BY <2>1, <2>2 DEF LinkOK, Waiting, RunOK
  <2> QED BY <2>3, <2>4 DEF Kept
<1> QED BY <1>1, <1>2

\* An escalation is committed: what its run was told of it is escalated now.
LEMMA EscalatesStep ==
    ASSUME IInv, DigestInv, NEW s \in Sessions, WorkFrame(s), Escalates(s),
           owner'[s] = None, undone' = undone,
           moved' = Credit(moved, s, Escalated' \ Escalated)
    PROVE  ServeOK(s)' /\ \A q \in Runs : Kept(q)'
<1> USE DEF DigestInv, WorkFrame, Escalates, Aside
<1>1. ServeOK(s)'
  BY DEF ServeOK
<1>2. ASSUME NEW q \in Runs PROVE Kept(q)'
  <2>1. /\ Waiting(q)' = Waiting(q) /\ Told(q)' = Told(q)
        /\ \A other \in Sessions \ {s} : view'[other] = view[other]
        /\ \A other \in Sessions : owner'[other] = q => owner[other] = q /\ other # s
        /\ \A other \in Sessions : pc'[other] = "select" => pc[other] = "select"
    BY RunsAssumption DEF Told, Waiting, RunOK
  <2>2. moved'[q] \subseteq IF owner[s] = q THEN moved[q] \cup view[s] ELSE moved[q]
    BY DEF Credit
  <2>3. FreshOK(q)'
    BY <2>1 DEF FreshOK
  <2>4. AccountedOK(q)'
    BY <2>1 DEF AccountedOK
  <2>5. FirstTryOK(q)'
    <3>1. SUFFICES ASSUME misses[q]["request"] = 0
                   PROVE  /\ moved'[q] \subseteq Told(q)'
                          /\ \A other \in Sessions : owner'[other] = q =>
                                /\ phase[q] \notin {"idle", "request"}
                                /\ Waiting(q)' => other = conn[q]
                                /\ pc'[other] = "select" => Waiting(q)'
                                /\ moved'[q] = {} /\ view'[other] \subseteq Told(q)'
                                /\ \A third \in Sessions : owner'[third] = q => third = other
      BY DEF FirstTryOK
    <3>2. FirstTryOK(q)
      OBVIOUS
    <3>3. CASE owner[s] = q
      <4>1. moved[q] \subseteq Told(q) /\ view[s] \subseteq Told(q)
        BY <3>1, <3>2, <3>3 DEF FirstTryOK
      <4>2. \A other \in Sessions : owner'[other] # q
        BY <2>1, <3>1, <3>2, <3>3 DEF FirstTryOK
      <4> QED BY <2>1, <2>2, <3>3, <4>1, <4>2
    <3>4. CASE owner[s] # q
      <4>1. moved'[q] \subseteq moved[q]
        BY <2>2, <3>4
      <4>2. moved[q] \subseteq Told(q)
        BY <3>1, <3>2 DEF FirstTryOK
      <4>3. ASSUME NEW other \in Sessions, owner'[other] = q
            PROVE  /\ phase[q] \notin {"idle", "request"}
                   /\ Waiting(q) => other = conn[q]
                   /\ pc[other] = "select" => Waiting(q)
                   /\ moved[q] = {} /\ view[other] \subseteq Told(q)
                   /\ \A third \in Sessions : owner[third] = q => third = other
        BY <2>1, <3>1, <3>2, <4>3 DEF FirstTryOK
      <4> QED BY <2>1, <4>1, <4>2, <4>3
    <3> QED BY <3>3, <3>4
  <2>6. LinkOK(q)'
    BY <2>1 DEF LinkOK, Waiting, RunOK
  <2> QED BY <2>3, <2>4, <2>5, <2>6 DEF Kept
<1> QED BY <1>1, <1>2

\* A unit of work is rolled back: what its run was told of it is undone.
LEMMA RollbackStep ==
    ASSUME IInv, DigestInv, NEW s \in Sessions, WorkFrame(s), Rollback(s),
           owner'[s] = None, moved' = moved, undone' = Credit(undone, s, view[s])
    PROVE  ServeOK(s)' /\ \A q \in Runs : Kept(q)'
<1> USE DEF DigestInv, WorkFrame, Aside
<1>0. /\ pc[s] # "idle" /\ pc'[s] = "idle" /\ call'[s].op = "none" /\ view'[s] = {}
      /\ UNCHANGED dbVars
      /\ \/ reply'[s] = reply[s] /\ pc[s] # "select"
         \/ reply'[s].rows = {} /\ reply'[s] # NoReply
  BY RollbackCases
<1>1. ServeOK(s)'
  BY <1>0 DEF ServeOK
<1>2. ASSUME NEW q \in Runs PROVE Kept(q)'
  <2>1. /\ Waiting(q)' = Waiting(q) /\ Escalated' = Escalated
        /\ Told(q)' \subseteq Told(q)
        /\ ~ (Waiting(q) /\ conn[q] = s) => Told(q)' = Told(q)
        /\ \A other \in Sessions \ {s} : view'[other] = view[other]
        /\ \A other \in Sessions : owner'[other] = q => owner[other] = q /\ other # s
        /\ \A other \in Sessions : pc'[other] = "select" => pc[other] = "select"
    BY <1>0, RunsAssumption DEF Told, Waiting, RunOK, Escalated, Stored, dbVars
  <2>2. undone'[q] = IF owner[s] = q THEN undone[q] \cup view[s] ELSE undone[q]
    BY DEF Credit
  <2>3. Waiting(q) /\ conn[q] = s => owner[s] = q
    BY <1>0 DEF LinkOK
  <2>4. FreshOK(q)'
    BY <2>1 DEF FreshOK
  <2>5. AccountedOK(q)'
    BY <2>1, <2>2 DEF AccountedOK
  <2>6. FirstTryOK(q)'
    BY <2>1, <2>3 DEF FirstTryOK
  <2>7. LinkOK(q)'
    BY <1>0, <2>1 DEF LinkOK, Waiting, RunOK
  <2> QED BY <2>4, <2>5, <2>6, <2>7 DEF Kept
<1> QED BY <1>1, <1>2

\* A step of the service in a session keeps the invariant.
LEMMA ServiceWorkStep ==
    ASSUME IInv, DigestInv, NEW s \in Sessions, ServiceWork(s) PROVE DigestInv'
<1> USE DEF DigestInv
<1>0. ServeOK(s)
  OBVIOUS
<1>1. Aside(s)
  BY <1>0, WorkCases, RollbackCases DEF ServiceWork
<1>2. /\ UNCHANGED <<phase, misses, conn, rows, mails, before>>
      /\ owner' = IF pc'[s] = "idle" THEN [owner EXCEPT ![s] = None] ELSE owner
  BY DEF ServiceWork
<1>3. WorkFrame(s) /\ (pc'[s] = "idle" => owner'[s] = None) /\ (pc'[s] # "idle" => owner' = owner)
  BY <1>1, <1>2 DEF WorkFrame, DigestTypeOK
<1>4. \A history \in [Runs -> SUBSET TicketIds], set \in SUBSET TicketIds :
         Credit(history, s, set) \in [Runs -> SUBSET TicketIds]
  BY DEF Credit
<1>5. \A history \in [Runs -> SUBSET TicketIds] : Credit(history, s, {}) = history
  BY DEF Credit
<1>6. Escalated' \ Escalated \in SUBSET TicketIds /\ view[s] \in SUBSET TicketIds
  BY DEF Escalated, Stored, IInv, TypeOK
<1>7. moved \in [Runs -> SUBSET TicketIds] /\ undone \in [Runs -> SUBSET TicketIds]
  BY DEF DigestTypeOK
<1>8. moved' \in [Runs -> SUBSET TicketIds] /\ undone' \in [Runs -> SUBSET TicketIds]
  BY <1>4, <1>6, <1>7 DEF ServiceWork
<1>9. DigestTypeOK'
  BY <1>2, <1>8 DEF DigestTypeOK
<1>10. \A other \in Sessions \ {s} : ServeOK(other)'
  BY <1>3 DEF ServeOK, WorkFrame, Aside
<1>11. \A q \in Runs : RunOK(q)'
  BY <1>2 DEF RunOK, Waiting
<1>12. ServeOK(s)' /\ \A q \in Runs : Kept(q)'
  <2>1. CASE Rollback(s) /\ undone' = Credit(undone, s, view[s]) /\ moved' = moved
    BY <1>3, <2>1, RollbackCases, RollbackStep
  <2>2. CASE Work(s) /\ moved' = Credit(moved, s, Escalated' \ Escalated) /\ undone' = undone
    <3>1. Escalated' = Escalated => moved' = moved
      <4>1. Escalated' = Escalated => Escalated' \ Escalated = {}
        OBVIOUS
      <4> QED BY <1>5, <1>7, <2>2, <4>1
    <3>2. CASE GoesOn(s)
      <4>1. Escalated' = Escalated
        BY <3>2 DEF GoesOn, Escalated, Stored, dbVars
      <4> QED BY <1>3, <2>2, <3>1, <3>2, <4>1, GoesOnStep DEF GoesOn
    <3>3. CASE Answers(s)
      <4>1. Escalated' = Escalated
        BY <3>3 DEF Answers, Escalated, Stored, dbVars
      <4> QED BY <1>3, <2>2, <3>1, <3>3, <4>1, AnswersStep DEF Answers
    <3>4. CASE Creates(s)
      BY <1>3, <2>2, <3>1, <3>4, CreatesStep DEF Creates
    <3>5. CASE Escalates(s)
      BY <1>3, <2>2, <3>5, EscalatesStep DEF Escalates
    <3> QED BY <1>0, <2>2, <3>2, <3>3, <3>4, <3>5, WorkCases
  <2> QED BY <2>1, <2>2 DEF ServiceWork
<1> QED BY <1>9, <1>10, <1>11, <1>12 DEF Kept

\* The clock, and a step of nobody, keep the invariant.
LEMMA DigestIdleStep ==
    ASSUME DigestInv, DigestTick \/ UNCHANGED allVars PROVE DigestInv'
<1>1. /\ UNCHANGED <<pc, call, view, reply, tickets>>
      /\ UNCHANGED digestVars
  BY DEF DigestTick, Tick, allVars, vars, dbVars, sessionVars
<1>2. Escalated' = Escalated /\ \A r \in Runs : Waiting(r)' = Waiting(r) /\ Told(r)' = Told(r)
  BY <1>1 DEF Escalated, Stored, Waiting, Told, digestVars
<1>3. DigestTypeOK' /\ \A s \in Sessions : ServeOK(s)'
  BY <1>1 DEF DigestInv, DigestTypeOK, ServeOK, digestVars
<1>4. ASSUME NEW r \in Runs
      PROVE  RunOK(r)' /\ LinkOK(r)' /\ FreshOK(r)' /\ AccountedOK(r)' /\ FirstTryOK(r)'
  <2>1. RunOK(r)' /\ LinkOK(r)'
    BY <1>1, <1>2 DEF DigestInv, RunOK, LinkOK, digestVars
  <2>2. FreshOK(r)' /\ AccountedOK(r)' /\ FirstTryOK(r)'
    BY <1>1, <1>2 DEF DigestInv, FreshOK, AccountedOK, FirstTryOK, digestVars
  <2> QED BY <2>1, <2>2
<1> QED BY <1>3, <1>4 DEF DigestInv

\* Every step of the composition keeps its invariant.
LEMMA DigestStep == IInv /\ DigestInv /\ [DigestNext]_allVars => DigestInv'
<1> SUFFICES ASSUME IInv, DigestInv, [DigestNext]_allVars PROVE DigestInv'
  OBVIOUS
<1>1. CASE DigestTick \/ UNCHANGED allVars
  BY <1>1, DigestIdleStep
<1>2. ASSUME NEW r \in Runs, Fire(r) \/ RunStep(r) PROVE DigestInv'
  BY <1>2, FireStep, RequestStep, ResponseStep, ResponseLostStep, BranchStep, SendStep
     DEF RunStep
<1>3. ASSUME NEW s \in Sessions, ServiceCall(s) \/ ServiceWork(s) \/ Unread(s) PROVE DigestInv'
  BY <1>3, ServiceCallStep, ServiceWorkStep, UnreadStep
<1> QED BY <1>1, <1>2, <1>3 DEF DigestNext

----------------------------------------------------------------------------

\* What a run has read it was told.
LEMMA ReadIsTold == ASSUME DigestInv, NEW r \in Runs PROVE rows[r] \subseteq Told(r)
BY DEF DigestInv, RunOK, Told, Waiting

\* The service's invariant and the workflow's hold in every reachable state.
THEOREM DigestInvariance == DigestSpec => [](IInv /\ DigestInv)
<1>1. DigestInit => IInv /\ DigestInv
  BY DigestStarts, InductiveInit DEF DigestInit
<1>2. IInv /\ DigestInv /\ [DigestNext]_allVars => (IInv /\ DigestInv)'
  BY ServiceStep, InductiveStep, DigestStep
<1> QED BY <1>1, <1>2, PTL DEF DigestSpec

\* Every variable of the workflow keeps its type: no node is tried more often
\* than its retry_config allows.
THEOREM DigestTypeCorrect == DigestSpec => []DigestTypeOK
<1>1. DigestInv => DigestTypeOK
  BY DEF DigestInv
<1> QED BY <1>1, DigestInvariance, PTL

\* escalate_stale never hands a run a ticket that was escalated before the run
\* fired, however runs and retries overlap.
THEOREM DigestsFresh == DigestSpec => []FreshDigest
<1>1. ASSUME DigestInv, NEW r \in Runs PROVE rows[r] \cap before[r] = {}
  <2>1. Told(r) \cap before[r] = {}
    BY <1>1 DEF DigestInv, FreshOK
  <2> QED BY <1>1, <2>1, ReadIsTold
<1>2. DigestInv => FreshDigest
  BY <1>1 DEF FreshDigest
<1> QED BY <1>2, DigestInvariance, PTL

\* A run of escalate_stale that ends well mailed a digest exactly when it had
\* tickets to report.
THEOREM EndsAreMailed == DigestSpec => []DoneMeansMailed
<1>1. DigestInv => DoneMeansMailed
  BY DEF DigestInv, DoneMeansMailed, RunOK
<1> QED BY <1>1, DigestInvariance, PTL

\* A run whose first escalate-stale request was answered reports every ticket
\* it moved.
THEOREM NoLossWithoutMiss == DigestSpec => []NothingLostWithoutMiss
<1>1. ASSUME DigestInv PROVE NothingLostWithoutMiss
  BY <1>1 DEF DigestInv, NothingLostWithoutMiss, FirstTryOK, Told, Waiting, Ended
<1> QED BY <1>1, DigestInvariance, PTL

\* A reported ticket is escalated, or about to be by an open request of the
\* run, unless the database took that request back after its response.
THEOREM ReportsAccounted == DigestSpec => []ReportedUnlessUndone
<1>1. ASSUME DigestInv, NEW r \in Runs, NEW t \in rows[r] \ undone[r]
      PROVE  t \in Escalated \/ \E s \in Sessions : owner[s] = r /\ t \in view[s]
  <2>1. t \in Told(r) \ undone[r]
    BY <1>1, ReadIsTold
  <2> QED BY <1>1, <2>1 DEF DigestInv, AccountedOK
<1>2. DigestInv => ReportedUnlessUndone
  BY <1>1 DEF ReportedUnlessUndone
<1> QED BY <1>2, DigestInvariance, PTL

\* The retries of the send node bound the copies of one digest.
THEOREM MailsBounded == DigestSpec => []MailBudget
<1>1. ASSUME DigestInv, NEW r \in Runs PROVE mails[r] <= MaxRetries + 1
  <2>1. mails[r] \in Nat /\ misses[r]["send"] \in 0 .. MaxRetries + 1
    BY <1>1 DEF DigestInv, DigestTypeOK
  <2>2. mails[r] <= misses[r]["send"] + (IF phase[r] = "done" THEN 1 ELSE 0)
    BY <1>1 DEF DigestInv, RunOK
  <2>3. phase[r] # "failed" => misses[r]["send"] <= MaxRetries
    BY <1>1 DEF DigestInv, RunOK
  <2> QED BY <2>1, <2>2, <2>3, RetriesAssumption
<1>2. DigestInv => MailBudget
  BY <1>1 DEF MailBudget
<1> QED BY <1>2, DigestInvariance, PTL

\* The service beside the workflow is the service: every promise of Ticketing's
\* Spec holds while runs fire, miss and retry.
THEOREM DigestIsTheService == DigestSpec => Spec
<1>1. DigestInit => Init
  BY DEF DigestInit
<1> QED BY <1>1, ServiceStep, DigestInvariance, PTL DEF DigestSpec, Spec

\* Beside the workflow as without it, a ticket's status only moves forward.
THEOREM DigestKeepsForward == DigestSpec => StatusForward
BY DigestIsTheService, StatusOnlyForward, PTL

\* No retry of the workflow loses or rewrites a ticket.
THEOREM DigestKeepsHistory == DigestSpec => HistoryKept
BY DigestIsTheService, HistoryNeverLost, PTL

\* A create-ticket that was acknowledged while runs overlap is stored.
THEOREM DigestKeepsAcked == DigestSpec => []AckedIsDurable
BY DigestIsTheService, AcknowledgedIsStored, PTL

\* Overlapping runs and retries, each with a session of its own, escalate the
\* same rows in the same order: they never wait for each other in a circle.
THEOREM DigestNoMutualWait == DigestSpec => []NoDeadlock
BY DigestIsTheService, NoMutualWait, PTL
=============================================================================
