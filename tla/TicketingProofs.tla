-------------------------- MODULE TicketingProofs --------------------------
(***************************************************************************)
(* Proofs about Ticketing, for every set of users, categories, ids and     *)
(* sessions and every bound on the clock.                                  *)
(***************************************************************************)
EXTENDS Ticketing, TLAPS

\* The kinds of answer a call can end with, as the type invariant has them.
Replies == [kind : ReplyKinds, id : TicketIds \cup MessageIds \cup {None},
            rows : SUBSET TicketIds]

Arguments == [op : Ops, user : Users \cup {None}, category : Categories \cup {None},
              ticket : TicketIds \cup {None}, role : Roles \cup {None},
              statuses : SUBSET Statuses, age : Nat]

\* The initial state has the types of the tables and of the idle sessions.
LEMMA InitType == Init => TypeOK
BY ClockAssumption DEF Init, TypeOK, Time, NoCall, Args, NoReply, Answer, Ops,
   ReplyKinds, Codes

\* Closing a session, whatever it answers, leaves every session variable in
\* its type.
LEMMA CloseType ==
    ASSUME TypeOK, NEW s \in Sessions, NEW a \in Replies, Close(s, a)
    PROVE  /\ pc' \in [Sessions -> {"idle", "select", "flush", "commit"}]
           /\ call' \in [Sessions -> Arguments]
           /\ fresh' \in [Sessions -> TicketIds \cup MessageIds \cup {None}]
           /\ view' \in [Sessions -> SUBSET TicketIds]
           /\ locked' \in [Sessions -> SUBSET TicketIds]
           /\ stamp' \in [Sessions -> Time]
           /\ reply' \in [Sessions -> Replies]
<1>1. NoCall \in Arguments
  BY DEF NoCall, Args, Arguments, Ops
<1>2. 0 \in Time
  BY ClockAssumption DEF Time
<1> QED BY <1>1, <1>2 DEF TypeOK, Close, Arguments, Replies

\* Every answer an action gives is of the type of replies.
LEMMA AnswerType ==
    /\ \A code \in Codes : Refused(code) \in Replies
    /\ \A id \in MessageIds : Answer("appended", id, {}) \in Replies
    /\ \A id \in TicketIds : Answer("created", id, {}) \in Replies
    /\ \A id \in TicketIds \cup {None}, rows \in SUBSET TicketIds :
          /\ Answer("listed", id, rows) \in Replies
          /\ Answer("escalated", id, rows) \in Replies
    /\ NoReply \in Replies
BY DEF Refused, Answer, Replies, ReplyKinds, NoReply

\* The arguments each call starts with are of their type.
LEMMA ArgumentType ==
    ASSUME NEW u \in Users
    PROVE  /\ \A c \in Categories :
                CreateArgs(u, c) \in Arguments
           /\ \A f \in SUBSET Statuses :
                ListArgs(u, f) \in Arguments
           /\ \A t \in TicketIds, r \in Roles :
                AppendArgs(u, t, r)
                    \in Arguments
           /\ \A age \in Nat :
                EscalateArgs(age) \in Arguments
BY DEF CreateArgs, ListArgs, AppendArgs, EscalateArgs, Args, Arguments, Ops

\* A call that starts leaves every variable in its type.
LEMMA StartType ==
    ASSUME TypeOK, NEW s \in Sessions, NEW arguments \in Arguments,
           NEW id \in TicketIds \cup MessageIds \cup {None},
           Start(s, arguments, id), stamp' \in [Sessions -> Time]
    PROVE  TypeOK'
BY DEF TypeOK, Start, Arguments, dbVars

\* A call that is refused, or listed without a query, only sets its reply.
LEMMA RefuseType ==
    ASSUME TypeOK, NEW s \in Sessions, NEW code \in Codes, Refuse(s, code),
           UNCHANGED stamp
    PROVE  TypeOK'
<1>1. Refused(code) \in Replies
  BY AnswerType
<1> QED BY <1>1 DEF TypeOK, Refuse, Replies, dbVars

\* A session that closes without touching the tables keeps the types.
LEMMA CloseOnlyType ==
    ASSUME TypeOK, NEW s \in Sessions, NEW a \in Replies, Close(s, a),
           UNCHANGED <<dbVars, now>>
    PROVE  TypeOK'
BY CloseType DEF TypeOK, Arguments, Replies, dbVars

\* The calls, whatever arguments they bring, keep the types.
LEMMA CallType ==
    ASSUME TypeOK, NEW s \in Sessions, Call(s)
    PROVE  TypeOK'
<1> USE DEF Codes
<1>1. ASSUME NEW u \in Users \cup {Blank}, NEW c \in Categories \cup {Unknown},
             CallCreate(s, u, c)
      PROVE  TypeOK'
  <2>1. CASE u = Blank /\ Refuse(s, "FORBIDDEN")
    BY <1>1, <2>1, RefuseType DEF CallCreate
  <2>2. CASE Refuse(s, "NOT_ELIGIBLE")
    BY <1>1, <2>2, RefuseType DEF CallCreate
  <2>3. ASSUME u # Blank, c # Unknown, NEW id \in TicketIds,
               Start(s, CreateArgs(u, c), id)
        PROVE  TypeOK'
    <3>1. CreateArgs(u, c) \in Arguments
      BY <2>3, ArgumentType
    <3>2. stamp' \in [Sessions -> Time]
      BY <1>1 DEF CallCreate, TypeOK
    <3> QED BY <3>1, <3>2, <2>3, StartType
  <2> QED BY <1>1, <2>1, <2>2, <2>3 DEF CallCreate
<1>2. ASSUME NEW u \in Users \cup {Blank}, NEW f \in Filters, CallList(s, u, f)
      PROVE  TypeOK'
  <2> DEFINE filter == IF f = None THEN Listed ELSE f
  <2>1. CASE Refuse(s, "FORBIDDEN")
    BY <1>2, <2>1, RefuseType DEF CallList
  <2>2. CASE Refuse(s, "NOT_ELIGIBLE")
    BY <1>2, <2>2, RefuseType DEF CallList
  <2>3. CASE /\ reply' = [reply EXCEPT ![s] = Answer("listed", None, {})]
             /\ UNCHANGED <<dbVars, now, pc, call, fresh, view, locked>>
    <3>1. Answer("listed", None, {}) \in Replies
      BY AnswerType
    <3> QED BY <1>2, <2>3, <3>1 DEF CallList, TypeOK, Replies, dbVars
  <2>4. CASE /\ u # Blank /\ filter # {} /\ Unknown \notin filter
             /\ Start(s, ListArgs(u, filter), None)
    <3>1. filter \in SUBSET Statuses
      <4>1. CASE f = None
        BY <4>1 DEF Listed, Statuses
      <4>2. CASE f # None
        BY <4>2, <2>4 DEF Filters, Statuses
      <4> QED BY <4>1, <4>2
    <3>2. ListArgs(u, filter) \in Arguments
      BY <2>4, <3>1, ArgumentType
    <3>3. stamp' \in [Sessions -> Time]
      BY <1>2 DEF CallList, TypeOK
    <3> HIDE DEF filter
    <3> QED BY <2>4, <3>2, <3>3, StartType
  <2> QED BY <1>2, <2>1, <2>2, <2>3, <2>4 DEF CallList
<1>3. ASSUME NEW u \in Users \cup {Blank}, NEW t \in TicketIds,
             NEW r \in Roles \cup {Unknown}, CallAppend(s, u, t, r)
      PROVE  TypeOK'
  <2>1. CASE Refuse(s, "failed")
    BY <1>3, <2>1, RefuseType DEF CallAppend
  <2>2. CASE Refuse(s, "FORBIDDEN")
    BY <1>3, <2>2, RefuseType DEF CallAppend
  <2>3. ASSUME u # Blank, r # Unknown, NEW id \in MessageIds,
               Start(s, AppendArgs(u, t, r), id)
        PROVE  TypeOK'
    <3>1. AppendArgs(u, t, r)
              \in Arguments
      BY <2>3, ArgumentType
    <3>2. stamp' \in [Sessions -> Time]
      BY <1>3 DEF CallAppend, TypeOK
    <3> QED BY <3>1, <3>2, <2>3, StartType
  <2> QED BY <1>3, <2>1, <2>2, <2>3 DEF CallAppend
<1>4. ASSUME NEW older \in Ages \cup {None}, CallEscalate(s, older)
      PROVE  TypeOK'
  <2> DEFINE age == IF older = None THEN EscalationSeconds ELSE older
  <2>1. age \in Nat
    BY ClockAssumption
  <2>2. EscalateArgs(age) \in Arguments
    BY <2>1 DEF EscalateArgs, Args, Arguments, Ops
  <2>3. stamp' \in [Sessions -> Time]
    BY <1>4 DEF CallEscalate, TypeOK
  <2>4. Start(s, EscalateArgs(age), None)
    BY <1>4 DEF CallEscalate
  <2> HIDE DEF age
  <2> QED BY <2>2, <2>3, <2>4, StartType
<1> QED BY <1>1, <1>2, <1>3, <1>4 DEF Call

----------------------------------------------------------------------------
(* The types, continued: a session's own steps. *)

SameTicket(new, row) ==
    new.user = row.user /\ new.category = row.category /\ new.created = row.created

\* An append or an escalation rewrites a row of the table into a row of the
\* table, with the owner, category and creation time it had.
LEMMA RowUpdates ==
    ASSUME NEW row \in TicketRow, NEW at \in Time
    PROVE  /\ TouchedRow(row, at) \in TicketRow
           /\ TouchedRow(row, at).status = row.status
           /\ EscalatedRow(row, at) \in TicketRow
           /\ EscalatedRow(row, at).status = "escalated"
           /\ SameTicket(TouchedRow(row, at), row)
           /\ SameTicket(EscalatedRow(row, at), row)
BY DEF SameTicket, TouchedRow, EscalatedRow, TicketRow, Statuses

\* A select, flush or commit of a session keeps the types; what a commit
\* writes is typed because the session's arguments are (CreateOK, AppendOK).
LEMMA WorkType ==
    ASSUME IInv, NEW s \in Sessions, Work(s)
    PROVE  TypeOK'
<1> USE DEF IInv
<1>1. CASE SelectActive(s)
  <2>1. Refused("CONFLICT") \in Replies
    BY AnswerType DEF Codes
  <2>2. CASE Loaded(s, {}) /\ UNCHANGED <<stamp, reply>>
    BY <2>2 DEF Loaded, TypeOK, dbVars
  <2> QED BY <1>1, <2>1, <2>2, CloseOnlyType DEF SelectActive
<1>2. CASE FlushTicket(s)
  BY <1>2 DEF FlushTicket, TypeOK, dbVars
<1>3. CASE CommitCreate(s)
  <2>1. fresh[s] \in TicketIds /\ call[s].user \in Users /\ call[s].category \in Categories
    BY <1>3 DEF CommitCreate, CreateOK
  <2>2. PICK a \in {Answer("created", fresh[s], {}), Refused("failed")} : Close(s, a)
    BY <1>3 DEF CommitCreate
  <2>3. a \in Replies
    BY <2>1, AnswerType DEF Codes
  <2>4. [user |-> call[s].user, category |-> call[s].category,
         status |-> "open", created |-> stamp[s], updated |-> stamp[s]] \in TicketRow
    BY <2>1 DEF TicketRow, Statuses, TypeOK
  <2>5. tickets' \in [TicketIds -> TicketRow \cup {None}]
    BY <1>3, <2>4 DEF CommitCreate, TypeOK
  <2> QED BY <1>3, <2>2, <2>3, <2>5, CloseType DEF CommitCreate, TypeOK, Arguments, Replies
<1>4. CASE SelectMine(s)
  <2>1. PICK a \in Replies : Close(s, a) /\ UNCHANGED <<dbVars, now>>
    <3> DEFINE mine == {t \in Stored : /\ tickets[t].user = call[s].user
                                       /\ tickets[t].status \in call[s].statuses}
    <3>1. mine \in SUBSET TicketIds
      BY DEF Stored
    <3>2. \A t \in mine : Answer("listed", t, mine) \in Replies
      BY <3>1, AnswerType
    <3>3. Answer("listed", None, {}) \in Replies
      BY AnswerType
    <3> QED BY <1>4, <3>2, <3>3 DEF SelectMine
  <2> QED BY <2>1, CloseOnlyType
<1>5. CASE SelectTicket(s)
  <2>1. Refused("NOT_FOUND") \in Replies
    BY AnswerType DEF Codes
  <2>2. CASE /\ InScope(call[s].user, call[s].ticket)
             /\ Loaded(s, {call[s].ticket})
             /\ stamp' = [stamp EXCEPT ![s] = now]
             /\ UNCHANGED reply
    BY <2>2 DEF Loaded, TypeOK, InScope, Stored, dbVars
  <2> QED BY <1>5, <2>1, <2>2, CloseOnlyType DEF SelectTicket
<1>6. CASE CommitAppend(s)
  <2>1. /\ fresh[s] \in MessageIds /\ call[s].user \in Users
        /\ call[s].role \in Roles /\ call[s].ticket \in Stored
    BY <1>6 DEF CommitAppend, AppendOK, InScope
  <2>2. PICK a \in {Answer("appended", fresh[s], {}), Refused("failed")} : Close(s, a)
    BY <1>6 DEF CommitAppend
  <2>3. a \in Replies
    BY <2>1, AnswerType DEF Codes
  <2>4. messages' \in [MessageIds -> MessageRow \cup {None}]
    BY <1>6, <2>1 DEF CommitAppend, TypeOK, MessageRow, Stored
  <2>5. TouchedRow(tickets[call[s].ticket], stamp[s]) \in TicketRow
    BY <2>1, RowUpdates DEF TypeOK, Stored
  <2>6. tickets' \in [TicketIds -> TicketRow \cup {None}]
    BY <1>6, <2>1, <2>5 DEF CommitAppend, TypeOK
  <2> QED BY <1>6, <2>2, <2>3, <2>4, <2>6, CloseType DEF CommitAppend, TypeOK, Arguments, Replies
<1>7. CASE SelectStale(s)
  <2> DEFINE stale == Stale(stamp[s] - call[s].age)
  <2>1. stale \in SUBSET TicketIds
    BY DEF Stale, Stored
  <2>2. Answer("escalated", None, stale) \in Replies
    BY <2>1, AnswerType
  <2>3. /\ Loaded(s, stale)
        /\ reply' = [reply EXCEPT ![s] = Answer("escalated", None, stale)]
        /\ stamp' = [stamp EXCEPT ![s] = now]
    BY <1>7 DEF SelectStale
  <2> HIDE DEF stale
  <2> QED BY <2>1, <2>2, <2>3 DEF Loaded, TypeOK, Replies, dbVars
<1>8. CASE CommitEscalate(s)
  <2>1. \A t \in view[s] : EscalatedRow(tickets[t], stamp[s]) \in TicketRow
    BY <1>8, RowUpdates DEF CommitEscalate, EscalateOK, TypeOK, Stored
  <2>2. tickets' \in [TicketIds -> TicketRow \cup {None}]
    BY <1>8, <2>1 DEF CommitEscalate, TypeOK
  <2>3. reply[s] \in Replies
    BY DEF TypeOK, Replies
  <2> QED BY <1>8, <2>2, <2>3, CloseType DEF CommitEscalate, TypeOK, Arguments, Replies
<1>9. CASE FlushRow(s)
  BY <1>9 DEF FlushRow, TypeOK, dbVars, Unflushed
<1>10. CASE FlushDone(s)
  BY <1>10 DEF FlushDone, TypeOK, dbVars
<1> QED BY <1>1, <1>2, <1>3, <1>4, <1>5, <1>6, <1>7, <1>8, <1>9, <1>10 DEF Work

\* Every step keeps the types.
LEMMA TypeStep == IInv /\ [Next]_vars => TypeOK'
<1> SUFFICES ASSUME IInv, [Next]_vars PROVE TypeOK'
  OBVIOUS
<1> USE DEF IInv
<1>1. CASE Tick
  BY <1>1, ClockAssumption DEF Tick, TypeOK, Time, dbVars, sessionVars
<1>2. ASSUME NEW s \in Sessions, Rollback(s) PROVE TypeOK'
  <2>1. PICK a \in {Refused("failed"), reply[s]} : Close(s, a) /\ UNCHANGED <<dbVars, now>>
    BY <1>2 DEF Rollback
  <2>2. a \in Replies
    BY AnswerType DEF TypeOK, Replies, Codes
  <2> QED BY <2>1, <2>2, CloseOnlyType
<1>3. ASSUME NEW s \in Sessions, ReadReply(s) PROVE TypeOK'
  <2>1. NoReply \in Replies
    BY AnswerType
  <2> QED BY <1>3, <2>1 DEF ReadReply, TypeOK, Replies, dbVars
<1>4. CASE UNCHANGED vars
  BY <1>4 DEF vars, TypeOK
<1> QED BY <1>1, <1>2, <1>3, <1>4, CallType, WorkType DEF Next

----------------------------------------------------------------------------
(* The inductive invariant. *)

SessionsOK(s) == SessionOK(s) /\ CreateOK(s) /\ AppendOK(s) /\ EscalateOK(s)

\* What every step keeps of the tables: rows stay, with their owner and
\* creation time, and time does not go back.
TablesGrow ==
    /\ now <= now'
    /\ \A t \in Stored : /\ tickets'[t] # None
                         /\ tickets'[t].user = tickets[t].user
                         /\ tickets'[t].created = tickets[t].created
    /\ \A m \in StoredMessages : messages'[m] = messages[m]

\* Nothing of session r changes.
Untouched(r) ==
    /\ pc'[r] = pc[r] /\ call'[r] = call[r] /\ fresh'[r] = fresh[r]
    /\ view'[r] = view[r] /\ locked'[r] = locked[r] /\ stamp'[r] = stamp[r]

\* A session that a step of another one leaves alone keeps what it relies on,
\* as long as its uuid was not inserted by that step.
LEMMA Bystander ==
    ASSUME TypeOK, TypeOK', NEW r \in Sessions, SessionsOK(r), Untouched(r), TablesGrow,
           fresh[r] \in TicketIds \ Stored => tickets'[fresh[r]] = None,
           fresh[r] \in MessageIds \ StoredMessages => messages'[fresh[r]] = None
    PROVE  SessionsOK(r)'
<1> USE DEF SessionsOK, Untouched, TablesGrow
<1>1. SessionOK(r)'
  BY ClockAssumption DEF SessionOK, TypeOK, Time
<1>2. CreateOK(r)'
  BY DEF CreateOK, Stored
<1>3. AppendOK(r)'
  BY DEF AppendOK, StoredMessages, InScope, Stored
<1>4. EscalateOK(r)'
  <2> SUFFICES ASSUME call[r].op = "escalate", NEW t \in view[r]
               PROVE  t \in Stored' /\ tickets'[t].created + call[r].age < now'
    BY DEF EscalateOK
  <2>1. t \in Stored /\ tickets[t].created + call[r].age < now /\ call[r].age \in Ages
    BY DEF EscalateOK
  <2>2. tickets[t].created \in Nat /\ now \in Nat /\ now' \in Nat /\ call[r].age \in Nat
    BY <2>1, ClockAssumption DEF TypeOK, Stored, TicketRow, Time
  <2> QED BY <2>1, <2>2 DEF Stored
<1> QED BY <1>1, <1>2, <1>3, <1>4

\* A closed session holds nothing.
LEMMA Closed ==
    ASSUME TypeOK, TypeOK', NEW s \in Sessions, NEW a, Close(s, a)
    PROVE  /\ SessionsOK(s)'
           /\ fresh'[s] = None /\ locked'[s] = {} /\ view'[s] = {}
           /\ call'[s] = NoCall /\ pc'[s] = "idle"
           /\ \A r \in Sessions \ {s} : Untouched(r)
<1>1. \A r \in Sessions \ {s} : Untouched(r)
  BY DEF Close, TypeOK, Untouched
<1>2. /\ fresh'[s] = None /\ locked'[s] = {} /\ view'[s] = {}
      /\ call'[s] = NoCall /\ pc'[s] = "idle" /\ stamp'[s] = 0
  BY DEF Close, TypeOK
<1>3. SessionsOK(s)'
  BY <1>2, ClockAssumption DEF SessionsOK, SessionOK, CreateOK, AppendOK, EscalateOK,
     NoCall, Args, TypeOK, Time
<1> QED BY <1>1, <1>2, <1>3

\* A step that leaves the tables and the clock alone leaves all they grow by.
LEMMA SameTables ==
    ASSUME TypeOK, UNCHANGED <<dbVars, now>>
    PROVE  TablesGrow /\ Stored' = Stored /\ StoredMessages' = StoredMessages
BY ClockAssumption DEF TablesGrow, dbVars, Stored, StoredMessages, TypeOK, Time

\* Parts of IInv that speak only of the tables and the clock.
TablesOK == StatusOK /\ MessageScope /\ EscalatedIsStale

LEMMA SameTablesOK ==
    ASSUME IInv, UNCHANGED <<dbVars, now>>
    PROVE  TablesOK'
BY DEF IInv, TablesOK, StatusOK, MessageScope, EscalatedIsStale, dbVars, Stored, StoredMessages

\* Closing a session can only free ids and locks.
LEMMA CloseShares ==
    ASSUME IInv, TypeOK', NEW s \in Sessions, NEW a, Close(s, a)
    PROVE  Unshared' /\ LockOrder'
<1>1. /\ fresh'[s] = None /\ locked'[s] = {} /\ view'[s] = {}
      /\ \A r \in Sessions \ {s} : Untouched(r)
  BY Closed DEF IInv
<1> QED BY <1>1 DEF IInv, Unshared, LockOrder, Unflushed, Untouched

\* A session that closes without a commit keeps the invariant.
LEMMA CloseOnlyStep ==
    ASSUME IInv, TypeOK', NEW s \in Sessions, NEW a, Close(s, a), UNCHANGED <<dbVars, now>>
    PROVE  IInv'
<1>1. /\ SessionsOK(s)'
      /\ \A r \in Sessions \ {s} : Untouched(r)
  BY Closed DEF IInv
<1>2. TablesGrow /\ Stored' = Stored /\ StoredMessages' = StoredMessages /\ TablesOK'
  BY SameTables, SameTablesOK DEF IInv
<1>3. ASSUME NEW r \in Sessions \ {s} PROVE SessionsOK(r)'
  <2>1. SessionsOK(r)
    BY DEF IInv, SessionsOK
  <2> QED BY <1>1, <1>2, <2>1, Bystander DEF IInv, Stored, StoredMessages, dbVars
<1>4. Unshared' /\ LockOrder'
  BY CloseShares
<1> QED BY <1>1, <1>2, <1>3, <1>4 DEF IInv, SessionsOK, TablesOK

\* A step of session s that leaves the tables and the clock alone keeps the
\* invariant when it keeps the part about s, takes no uuid another session
\* or a row has, and locks only a free row, in key order.
LEMMA QuietStep ==
    ASSUME IInv, TypeOK', NEW s \in Sessions, UNCHANGED <<dbVars, now>>,
           \A r \in Sessions \ {s} : Untouched(r),
           SessionsOK(s)',
           \A r \in Sessions \ {s} :
              /\ fresh'[s] = fresh[r] => fresh[r] = None
              /\ locked'[s] \cap locked[r] = {},
           \A t \in locked'[s], u \in view'[s] \ locked'[s] : t < u
    PROVE  IInv'
<1>1. TablesGrow /\ Stored' = Stored /\ StoredMessages' = StoredMessages /\ TablesOK'
  BY SameTables, SameTablesOK DEF IInv
<1>2. ASSUME NEW r \in Sessions \ {s} PROVE SessionsOK(r)'
  <2>1. SessionsOK(r)
    BY DEF IInv, SessionsOK
  <2> QED BY <1>1, <2>1, Bystander DEF IInv, Stored, StoredMessages, dbVars
<1>3. Unshared'
  BY DEF IInv, Unshared, Untouched
<1>4. LockOrder'
  BY DEF IInv, LockOrder, Unflushed, Untouched
<1> QED BY <1>1, <1>2, <1>3, <1>4 DEF IInv, SessionsOK, TablesOK

\* A call that starts keeps the invariant.
LEMMA StartStep ==
    ASSUME IInv, TypeOK', NEW s \in Sessions, pc[s] = "idle",
           NEW arguments, NEW id, Start(s, arguments, id),
           stamp' = stamp \/ stamp' = [stamp EXCEPT ![s] = now],
           \/ /\ \E u \in Users, c \in Categories : arguments = CreateArgs(u, c)
              /\ id \in TicketIds \ (Stored \cup Reserved)
           \/ /\ \E u \in Users, t \in TicketIds, r \in Roles : arguments = AppendArgs(u, t, r)
              /\ id \in MessageIds \ (StoredMessages \cup Reserved)
           \/ /\ \E u \in Users, f \in SUBSET Statuses : arguments = ListArgs(u, f)
              /\ id = None
           \/ (\E age \in Ages : arguments = EscalateArgs(age)) /\ id = None
    PROVE  IInv'
<1>1. \A r \in Sessions \ {s} : Untouched(r)
  BY DEF IInv, TypeOK, Start, Untouched
<1>2. /\ pc'[s] = "select" /\ call'[s] = arguments /\ fresh'[s] = id
      /\ view'[s] = {} /\ locked'[s] = {}
      /\ stamp'[s] \in {stamp[s], now}
      /\ UNCHANGED <<dbVars, now>>
  BY DEF IInv, TypeOK, Start, SessionOK
<1>3. SessionsOK(s)'
  <2>1. stamp'[s] <= now'
    BY <1>2, ClockAssumption DEF IInv, TypeOK, SessionOK, Time
  <2> QED BY <1>2, <2>1 DEF SessionsOK, SessionOK, CreateOK, AppendOK, EscalateOK,
            CreateArgs, AppendArgs, ListArgs, EscalateArgs, Args, Stored, StoredMessages, dbVars
<1>4. \A r \in Sessions \ {s} :
         /\ fresh'[s] = fresh[r] => fresh[r] = None
         /\ locked'[s] \cap locked[r] = {}
  BY <1>2 DEF Reserved
<1>5. \A t \in locked'[s], u \in view'[s] \ locked'[s] : t < u
  BY <1>2
<1> QED BY <1>1, <1>2, <1>3, <1>4, <1>5, QuietStep

\* A step that changes nothing but replies keeps the invariant.
LEMMA ReplyStep ==
    ASSUME IInv, TypeOK', UNCHANGED <<dbVars, now, pc, call, fresh, view, locked, stamp>>
    PROVE  IInv'
<1>1. TablesOK'
  BY SameTablesOK
<1> QED BY <1>1 DEF IInv, TablesOK, SessionOK, CreateOK, AppendOK, EscalateOK, Unshared,
        LockOrder, Unflushed, InScope, Stored, StoredMessages, dbVars

\* The calls, whatever arguments they bring, keep the invariant.
LEMMA CallStep ==
    ASSUME IInv, NEW s \in Sessions, Call(s)
    PROVE  IInv'
<1>t. TypeOK'
  BY CallType DEF IInv
<1>1. ASSUME NEW u \in Users \cup {Blank}, NEW c \in Categories \cup {Unknown},
             CallCreate(s, u, c)
      PROVE  IInv'
  <2>1. CASE Refuse(s, "FORBIDDEN") \/ Refuse(s, "NOT_ELIGIBLE")
    BY <1>t, <1>1, <2>1, ReplyStep DEF CallCreate, Refuse
  <2>2. ASSUME u # Blank, c # Unknown, NEW id \in TicketIds \ (Stored \cup Reserved),
               Start(s, CreateArgs(u, c), id)
        PROVE  IInv'
    BY <1>t, <1>1, <2>2, StartStep DEF CallCreate, Free
  <2> QED BY <1>1, <2>1, <2>2 DEF CallCreate
<1>2. ASSUME NEW u \in Users \cup {Blank}, NEW f \in Filters, CallList(s, u, f)
      PROVE  IInv'
  <2> DEFINE filter == IF f = None THEN Listed ELSE f
  <2>1. CASE Refuse(s, "FORBIDDEN") \/ Refuse(s, "NOT_ELIGIBLE")
    BY <1>t, <1>2, <2>1, ReplyStep DEF CallList, Refuse
  <2>2. CASE UNCHANGED <<dbVars, now, pc, call, fresh, view, locked>>
    BY <1>t, <1>2, <2>2, ReplyStep DEF CallList
  <2>3. CASE u # Blank /\ Unknown \notin filter /\ Start(s, ListArgs(u, filter), None)
    <3>1. filter \in SUBSET Statuses
      BY <2>3 DEF Filters, Listed, Statuses
    <3> HIDE DEF filter
    <3> QED BY <1>t, <1>2, <2>3, <3>1, StartStep DEF CallList, Free
  <2> QED BY <1>2, <2>1, <2>2, <2>3 DEF CallList
<1>3. ASSUME NEW u \in Users \cup {Blank}, NEW t \in TicketIds,
             NEW r \in Roles \cup {Unknown}, CallAppend(s, u, t, r)
      PROVE  IInv'
  <2>1. CASE Refuse(s, "failed") \/ Refuse(s, "FORBIDDEN")
    BY <1>t, <1>3, <2>1, ReplyStep DEF CallAppend, Refuse
  <2>2. ASSUME u # Blank, r # Unknown,
               NEW id \in MessageIds \ (StoredMessages \cup Reserved),
               Start(s, AppendArgs(u, t, r), id)
        PROVE  IInv'
    BY <1>t, <1>3, <2>2, StartStep DEF CallAppend, Free
  <2> QED BY <1>3, <2>1, <2>2 DEF CallAppend
<1>4. ASSUME NEW older \in Ages \cup {None}, CallEscalate(s, older)
      PROVE  IInv'
  <2> DEFINE age == IF older = None THEN EscalationSeconds ELSE older
  <2>1. age \in Ages
    BY ClockAssumption
  <2>2. Start(s, EscalateArgs(age), None) /\ stamp' = [stamp EXCEPT ![s] = now]
    BY <1>4 DEF CallEscalate
  <2> HIDE DEF age
  <2> QED BY <1>t, <1>4, <2>1, <2>2, StartStep DEF CallEscalate, Free
<1> QED BY <1>1, <1>2, <1>3, <1>4 DEF Call

\* A SELECT that found what it was for: the session goes on to its flush.
LEMMA LoadedStep ==
    ASSUME IInv, TypeOK', NEW s \in Sessions, pc[s] = "select",
           NEW loaded, Loaded(s, loaded),
           stamp' = stamp \/ stamp' = [stamp EXCEPT ![s] = now],
           call[s].op \in {"create", "append", "escalate"},
           call[s].op = "create" => loaded = {},
           call[s].op = "append" => /\ loaded = {call[s].ticket}
                                    /\ InScope(call[s].user, call[s].ticket),
           call[s].op = "escalate" =>
              \A t \in loaded : t \in Stored /\ tickets[t].created + call[s].age < now
    PROVE  IInv'
<1>1. \A r \in Sessions \ {s} : Untouched(r)
  BY DEF IInv, TypeOK, Loaded, Untouched
<1>2. /\ pc'[s] = "flush" /\ call'[s] = call[s] /\ fresh'[s] = fresh[s]
      /\ view'[s] = loaded /\ locked'[s] = {}
      /\ stamp'[s] \in {stamp[s], now}
      /\ UNCHANGED <<dbVars, now>>
  BY DEF IInv, TypeOK, Loaded, SessionOK
<1>3. SessionsOK(s)'
  <2>1. stamp'[s] <= now'
    BY <1>2, ClockAssumption DEF IInv, TypeOK, SessionOK, Time
  <2> QED BY <1>2, <2>1 DEF IInv, SessionsOK, SessionOK, CreateOK, AppendOK, EscalateOK,
            InScope, Stored, StoredMessages, dbVars
<1>4. \A r \in Sessions \ {s} :
         /\ fresh'[s] = fresh[r] => fresh[r] = None
         /\ locked'[s] \cap locked[r] = {}
  BY <1>2 DEF IInv, Unshared
<1> QED BY <1>1, <1>2, <1>3, <1>4, QuietStep

\* A commit keeps the invariant when the tables grow and stay in order, and
\* the only uuid it inserted is its own.
LEMMA CommitStep ==
    ASSUME IInv, TypeOK', NEW s \in Sessions, NEW a, Close(s, a), TablesGrow, TablesOK',
           \A t \in TicketIds \ Stored : t # fresh[s] => tickets'[t] = None,
           \A m \in MessageIds \ StoredMessages : m # fresh[s] => messages'[m] = None
    PROVE  IInv'
<1>1. SessionsOK(s)' /\ \A r \in Sessions \ {s} : Untouched(r)
  BY Closed DEF IInv
<1>2. ASSUME NEW r \in Sessions \ {s} PROVE SessionsOK(r)'
  <2>1. SessionsOK(r)
    BY DEF IInv, SessionsOK
  <2>2. fresh[r] = fresh[s] => fresh[r] = None
    BY DEF IInv, Unshared
  <2> QED BY <1>1, <2>1, <2>2, Bystander, IdsAssumption DEF IInv
<1>3. Unshared' /\ LockOrder'
  BY CloseShares
<1> QED BY <1>1, <1>2, <1>3 DEF IInv, SessionsOK, TablesOK

\* The INSERT of a ticket.
LEMMA CommitCreateStep ==
    ASSUME IInv, TypeOK', NEW s \in Sessions, CommitCreate(s)
    PROVE  IInv'
<1> DEFINE row == [user |-> call[s].user, category |-> call[s].category,
                   status |-> "open", created |-> stamp[s], updated |-> stamp[s]]
<1>1. /\ fresh[s] \in TicketIds \ Stored
      /\ call[s].user \in Users /\ call[s].category \in Categories
  BY DEF IInv, CommitCreate, CreateOK
<1>2. PICK a : Close(s, a)
  BY DEF CommitCreate
<1>3. row \in TicketRow /\ row # None /\ row.status = "open"
  BY <1>1, IdsAssumption DEF IInv, TypeOK, TicketRow, Statuses
<1> HIDE DEF row
<1>4. /\ tickets' = [tickets EXCEPT ![fresh[s]] = row]
      /\ UNCHANGED <<messages, now>>
  BY DEF CommitCreate, row
<1>5. /\ \A t \in Stored : t # fresh[s] /\ tickets'[t] = tickets[t]
      /\ tickets'[fresh[s]] = row
      /\ Stored' = Stored \cup {fresh[s]}
  BY <1>1, <1>3, <1>4 DEF Stored, IInv, TypeOK
<1>6. TablesGrow
  BY <1>4, <1>5, ClockAssumption DEF TablesGrow, IInv, TypeOK, Time, Stored
<1>7. TablesOK'
  <2>1. StatusOK'
    BY <1>3, <1>5 DEF IInv, StatusOK
  <2>2. MessageScope'
    BY <1>4, <1>5 DEF IInv, MessageScope, StoredMessages
  <2>3. EscalatedIsStale'
    BY <1>3, <1>4, <1>5 DEF IInv, EscalatedIsStale
  <2> QED BY <2>1, <2>2, <2>3 DEF TablesOK
<1>8. \A t \in TicketIds \ Stored : t # fresh[s] => tickets'[t] = None
  BY <1>4 DEF IInv, TypeOK, Stored
<1>9. \A m \in MessageIds \ StoredMessages : m # fresh[s] => messages'[m] = None
  BY <1>4 DEF StoredMessages
<1> QED BY <1>2, <1>6, <1>7, <1>8, <1>9, CommitStep

\* The INSERT of a message and the UPDATE of its ticket.
LEMMA CommitAppendStep ==
    ASSUME IInv, TypeOK', NEW s \in Sessions, CommitAppend(s)
    PROVE  IInv'
<1> DEFINE t0 == call[s].ticket
           row == [ticket |-> t0, role |-> call[s].role, by |-> call[s].user]
<1>1. /\ fresh[s] \in MessageIds \ StoredMessages
      /\ t0 \in Stored /\ tickets[t0].user = call[s].user
      /\ call[s].user \in Users /\ call[s].role \in Roles
  BY DEF IInv, CommitAppend, AppendOK, InScope
<1>2. PICK a : Close(s, a)
  BY DEF CommitAppend
<1>3. row # None /\ row.ticket = t0 /\ row.by = call[s].user
  BY <1>1, IdsAssumption DEF MessageRow, Stored
<1>4. /\ tickets[t0] \in TicketRow
      /\ stamp[s] \in Time
  BY <1>1 DEF IInv, TypeOK, Stored
<1>5. /\ messages' = [messages EXCEPT ![fresh[s]] = row]
      /\ tickets' = [tickets EXCEPT ![t0] = TouchedRow(tickets[t0], stamp[s])]
      /\ UNCHANGED now
  BY DEF CommitAppend
<1> HIDE DEF t0, row
<1>6. /\ \A t \in Stored : /\ tickets'[t] # None
                           /\ tickets'[t].user = tickets[t].user
                           /\ tickets'[t].created = tickets[t].created
                           /\ tickets'[t].status = tickets[t].status
      /\ Stored' = Stored
  <2> DEFINE new == TouchedRow(tickets[t0], stamp[s])
  <2>1. /\ new \in TicketRow /\ new # None
        /\ new.status = tickets[t0].status /\ SameTicket(new, tickets[t0])
    BY <1>4, RowUpdates, IdsAssumption
  <2> HIDE DEF new
  <2>2. tickets' = [tickets EXCEPT ![t0] = new]
    BY <1>5 DEF new
  <2>3. /\ tickets'[t0] = new
        /\ \A t \in TicketIds : t # t0 => tickets'[t] = tickets[t]
    BY <1>1, <2>2 DEF IInv, TypeOK, Stored
  <2> QED BY <1>1, <2>1, <2>3 DEF Stored, SameTicket
<1>7. /\ \A m \in StoredMessages : m # fresh[s] /\ messages'[m] = messages[m]
      /\ messages'[fresh[s]] = row
      /\ StoredMessages' = StoredMessages \cup {fresh[s]}
  BY <1>1, <1>3, <1>5 DEF StoredMessages, IInv, TypeOK
<1>8. TablesGrow
  BY <1>5, <1>6, <1>7, ClockAssumption DEF TablesGrow, IInv, TypeOK, Time
<1>9. TablesOK'
  <2>1. StatusOK'
    BY <1>6 DEF IInv, StatusOK
  <2>2. MessageScope'
    BY <1>1, <1>3, <1>6, <1>7 DEF IInv, MessageScope
  <2>3. EscalatedIsStale'
    BY <1>5, <1>6 DEF IInv, EscalatedIsStale
  <2> QED BY <2>1, <2>2, <2>3 DEF TablesOK
<1>10. \A t \in TicketIds \ Stored : t # fresh[s] => tickets'[t] = None
  BY <1>6 DEF Stored
<1>11. \A m \in MessageIds \ StoredMessages : m # fresh[s] => messages'[m] = None
  BY <1>5 DEF IInv, TypeOK, StoredMessages
<1> QED BY <1>2, <1>8, <1>9, <1>10, <1>11, CommitStep

\* The UPDATEs of an escalation.
LEMMA CommitEscalateStep ==
    ASSUME IInv, TypeOK', NEW s \in Sessions, CommitEscalate(s)
    PROVE  IInv'
<1>1. /\ view[s] \subseteq Stored
      /\ call[s].age \in Ages
      /\ \A t \in view[s] : tickets[t].created + call[s].age < now
  BY DEF IInv, CommitEscalate, EscalateOK
<1>2. PICK a : Close(s, a)
  BY DEF CommitEscalate
<1>3. \A t \in Stored : tickets[t] \in TicketRow
  BY DEF IInv, TypeOK, Stored
<1>4. stamp[s] \in Time
  BY DEF IInv, TypeOK
<1>5. /\ \A t \in view[s] : tickets'[t] = EscalatedRow(tickets[t], stamp[s])
      /\ \A t \in TicketIds \ view[s] : tickets'[t] = tickets[t]
      /\ UNCHANGED <<messages, now>>
  BY <1>1 DEF CommitEscalate, Stored
<1>6. /\ \A t \in Stored : /\ tickets'[t] # None
                           /\ tickets'[t].user = tickets[t].user
                           /\ tickets'[t].created = tickets[t].created
      /\ \A t \in view[s] : tickets'[t].status = "escalated"
      /\ Stored' = Stored
  <2>1. \A t \in view[s] :
           /\ tickets'[t] \in TicketRow /\ tickets'[t] # None
           /\ tickets'[t].status = "escalated" /\ SameTicket(tickets'[t], tickets[t])
    BY <1>1, <1>3, <1>4, <1>5, RowUpdates, IdsAssumption
  <2>2. \A t \in TicketIds : t \in view[s] \/ tickets'[t] = tickets[t]
    BY <1>5
  <2> QED BY <1>1, <2>1, <2>2 DEF Stored, SameTicket
<1>7. TablesGrow
  BY <1>5, <1>6, ClockAssumption DEF TablesGrow, IInv, TypeOK, Time
<1>8. TablesOK'
  <2>1. StatusOK'
    BY <1>5, <1>6 DEF IInv, StatusOK, Stored
  <2>2. MessageScope'
    BY <1>5, <1>6 DEF IInv, MessageScope, StoredMessages
  <2>3. EscalatedIsStale'
    BY <1>1, <1>5, <1>6 DEF IInv, EscalatedIsStale, Stored
  <2> QED BY <2>1, <2>2, <2>3 DEF TablesOK
<1>9. \A t \in TicketIds \ Stored : t # fresh[s] => tickets'[t] = None
  BY <1>6 DEF Stored
<1>10. \A m \in MessageIds \ StoredMessages : m # fresh[s] => messages'[m] = None
  BY <1>5 DEF StoredMessages
<1> QED BY <1>2, <1>7, <1>8, <1>9, <1>10, CommitStep

\* The selects, flushes and commits of a session keep the invariant.
LEMMA WorkStep ==
    ASSUME IInv, NEW s \in Sessions, Work(s)
    PROVE  IInv'
<1>t. TypeOK'
  BY WorkType
<1>1. CASE SelectActive(s)
  BY <1>t, <1>1, CloseOnlyStep, LoadedStep DEF SelectActive
<1>2. CASE FlushTicket(s)
  <2>1. \A r \in Sessions \ {s} : Untouched(r)
    BY <1>2 DEF FlushTicket, IInv, TypeOK, Untouched
  <2>2. /\ pc[s] = "flush" /\ call[s].op = "create" /\ pc'[s] = "commit"
        /\ call'[s] = call[s] /\ fresh'[s] = fresh[s] /\ stamp'[s] = now
        /\ view'[s] = {} /\ locked'[s] = {} /\ view[s] = {}
        /\ UNCHANGED <<dbVars, now>>
    BY <1>2 DEF FlushTicket, IInv, TypeOK, SessionOK, CreateOK
  <2>3. SessionsOK(s)'
    BY <2>2, ClockAssumption DEF IInv, TypeOK, Time, SessionsOK, SessionOK, CreateOK,
       AppendOK, EscalateOK, Stored, dbVars
  <2>4. \A r \in Sessions \ {s} : fresh'[s] = fresh[r] => fresh[r] = None
    BY <2>2 DEF IInv, Unshared
  <2> QED BY <1>t, <2>1, <2>2, <2>3, <2>4, QuietStep
<1>3. CASE CommitCreate(s)
  BY <1>t, <1>3, CommitCreateStep
<1>4. CASE SelectMine(s)
  BY <1>t, <1>4, CloseOnlyStep DEF SelectMine
<1>5. CASE SelectTicket(s)
  BY <1>t, <1>5, CloseOnlyStep, LoadedStep DEF SelectTicket
<1>6. CASE CommitAppend(s)
  BY <1>t, <1>6, CommitAppendStep
<1>7. CASE SelectStale(s)
  <2> DEFINE stale == Stale(stamp[s] - call[s].age)
  <2>1. \A t \in stale : t \in Stored /\ tickets[t].created + call[s].age < now
    <3>1. ASSUME NEW t \in stale PROVE t \in Stored /\ tickets[t].created < stamp[s] - call[s].age
      BY DEF Stale
    <3>2. /\ stamp[s] \in Nat /\ now \in Nat /\ stamp[s] <= now /\ call[s].age \in Nat
          /\ \A t \in Stored : tickets[t].created \in Nat
      BY ClockAssumption DEF IInv, TypeOK, Time, SessionOK, Stored, TicketRow
    <3> QED BY <3>1, <3>2
  <2>2. /\ pc[s] = "select" /\ call[s].op = "escalate" /\ Loaded(s, stale)
        /\ stamp' = [stamp EXCEPT ![s] = now]
    BY <1>7 DEF SelectStale
  <2> HIDE DEF stale
  <2> QED BY <1>t, <2>1, <2>2, LoadedStep
<1>8. CASE CommitEscalate(s)
  BY <1>t, <1>8, CommitEscalateStep
<1>9. CASE FlushRow(s)
  <2>1. PICK t \in Unflushed(s) : /\ \A other \in Unflushed(s) : t <= other
                                  /\ ~ HeldByOther(s, t)
                                  /\ locked' = [locked EXCEPT ![s] = @ \cup {t}]
    BY <1>9 DEF FlushRow
  <2>2. \A r \in Sessions \ {s} : Untouched(r)
    BY <1>9, <2>1 DEF FlushRow, IInv, TypeOK, Untouched
  <2>3. /\ pc[s] = "flush" /\ pc'[s] = "flush" /\ call'[s] = call[s] /\ fresh'[s] = fresh[s]
        /\ stamp'[s] = stamp[s] /\ view'[s] = view[s] /\ locked'[s] = locked[s] \cup {t}
        /\ t \in view[s] /\ UNCHANGED <<dbVars, now>>
    BY <1>9, <2>1 DEF FlushRow, IInv, TypeOK, Unflushed
  <2>4. SessionsOK(s)'
    BY <2>3 DEF IInv, SessionsOK, SessionOK, CreateOK,
       AppendOK, EscalateOK, InScope, Stored, StoredMessages, dbVars
  <2>5. \A r \in Sessions \ {s} : /\ fresh'[s] = fresh[r] => fresh[r] = None
                                  /\ locked'[s] \cap locked[r] = {}
    BY <2>1, <2>3 DEF IInv, Unshared, HeldByOther
  <2>6. \A a \in locked'[s], b \in view'[s] \ locked'[s] : a < b
    <3>1. view[s] \subseteq Nat /\ locked[s] \subseteq Nat
      BY IdsAssumption DEF IInv, TypeOK
    <3>2. \A a \in locked[s], b \in Unflushed(s) : a < b
      BY DEF IInv, LockOrder
    <3>3. \A b \in view'[s] \ locked'[s] : b \in Unflushed(s) /\ b # t
      BY <2>3 DEF Unflushed
    <3> QED BY <2>1, <2>3, <3>1, <3>2, <3>3
  <2> QED BY <1>t, <2>2, <2>3, <2>4, <2>5, <2>6, QuietStep
<1>10. CASE FlushDone(s)
  <2>1. \A r \in Sessions \ {s} : Untouched(r)
    BY <1>10 DEF FlushDone, IInv, TypeOK, Untouched
  <2>2. /\ pc[s] = "flush" /\ call[s].op # "create" /\ pc'[s] = "commit"
        /\ call'[s] = call[s] /\ fresh'[s] = fresh[s] /\ stamp'[s] = stamp[s]
        /\ view'[s] = view[s] /\ locked'[s] = locked[s] /\ locked[s] = view[s]
        /\ UNCHANGED <<dbVars, now>>
    BY <1>10 DEF FlushDone, IInv, TypeOK, SessionOK, Unflushed
  <2>3. SessionsOK(s)'
    BY <2>2 DEF IInv, SessionsOK, SessionOK, CreateOK,
       AppendOK, EscalateOK, InScope, Stored, StoredMessages, dbVars
  <2>4. \A r \in Sessions \ {s} : /\ fresh'[s] = fresh[r] => fresh[r] = None
                                  /\ locked'[s] \cap locked[r] = {}
    BY <2>2 DEF IInv, Unshared
  <2> QED BY <1>t, <2>1, <2>2, <2>3, <2>4, QuietStep
<1> QED BY <1>1, <1>2, <1>3, <1>4, <1>5, <1>6, <1>7, <1>8, <1>9, <1>10 DEF Work

\* IInv is inductive.
LEMMA InductiveStep == IInv /\ [Next]_vars => IInv'
<1> SUFFICES ASSUME IInv, [Next]_vars PROVE IInv'
  OBVIOUS
<1>t. TypeOK'
  BY TypeStep
<1>1. CASE Tick
  <2>1. TablesGrow /\ Stored' = Stored /\ StoredMessages' = StoredMessages
    BY <1>1, ClockAssumption
       DEF Tick, IInv, TypeOK, Time, TablesGrow, dbVars, Stored, StoredMessages
  <2>2. ASSUME NEW r \in Sessions PROVE SessionsOK(r)'
    <3>1. SessionsOK(r) /\ Untouched(r)
      BY <1>1 DEF IInv, SessionsOK, Tick, sessionVars, Untouched
    <3> QED BY <1>1, <1>t, <2>1, <3>1, Bystander DEF IInv, Tick, dbVars, Stored, StoredMessages
  <2>3. Unshared' /\ LockOrder'
    BY <1>1 DEF IInv, Tick, sessionVars, Unshared, LockOrder, Unflushed
  <2>4. StatusOK' /\ MessageScope'
    BY <1>1 DEF IInv, Tick, dbVars, StatusOK, MessageScope, Stored, StoredMessages
  <2>5. EscalatedIsStale'
    <3>1. \A t \in Stored : tickets[t].created \in Nat
      BY DEF IInv, TypeOK, Stored, TicketRow, Time
    <3>2. now \in Nat /\ now' = now + 1 /\ tickets' = tickets
      BY <1>1, ClockAssumption DEF Tick, IInv, TypeOK, Time, dbVars
    <3> QED BY <3>1, <3>2, ClockAssumption DEF IInv, EscalatedIsStale, Stored
  <2> QED BY <1>t, <2>2, <2>3, <2>4, <2>5 DEF IInv, SessionsOK
<1>2. ASSUME NEW s \in Sessions, Rollback(s) PROVE IInv'
  BY <1>t, <1>2, CloseOnlyStep DEF Rollback
<1>3. ASSUME NEW s \in Sessions, ReadReply(s) PROVE IInv'
  BY <1>t, <1>3, ReplyStep DEF ReadReply
<1>4. CASE UNCHANGED vars
  BY <1>t, <1>4, ReplyStep DEF vars, dbVars
<1> QED BY <1>1, <1>2, <1>3, <1>4, CallStep, WorkStep DEF Next

\* The empty database and its idle sessions satisfy the invariant.
LEMMA InductiveInit == Init => IInv
<1> SUFFICES ASSUME Init PROVE IInv
  OBVIOUS
<1>1. TypeOK
  BY InitType
<1>2. Stored = {} /\ StoredMessages = {}
  BY DEF Init, Stored, StoredMessages
<1>3. \A s \in Sessions : SessionOK(s) /\ CreateOK(s) /\ AppendOK(s) /\ EscalateOK(s)
  BY DEF Init, SessionOK, CreateOK, AppendOK, EscalateOK, NoCall, Args
<1>4. Unshared /\ LockOrder
  BY DEF Init, Unshared, LockOrder
<1> QED BY <1>1, <1>2, <1>3, <1>4 DEF IInv, StatusOK, MessageScope, EscalatedIsStale

----------------------------------------------------------------------------
(* Safety. *)

\* Every reachable state satisfies the inductive invariant: the types, the
\* shape of every live session, the lock order and the state of the tables.
THEOREM Invariance == Spec => []IInv
<1>1. Init => IInv
  BY InductiveInit
<1>2. IInv /\ [Next]_vars => IInv'
  BY InductiveStep
<1> QED BY <1>1, <1>2, PTL DEF Spec

\* The types of the tables and of the sessions hold for any number of
\* sessions, ids and users.
THEOREM TypeCorrect == Spec => []TypeOK
<1>1. IInv => TypeOK
  BY DEF IInv
<1> QED BY <1>1, Invariance, PTL

\* A message is only ever stored on a ticket of the employee whose call
\* wrote it.
THEOREM ScopeKept == Spec => []MessageScope
<1>1. IInv => MessageScope
  BY DEF IInv
<1> QED BY <1>1, Invariance, PTL

\* A ticket is escalated only once its age exceeds a threshold.
THEOREM OnlyStaleEscalated == Spec => []EscalatedIsStale
<1>1. IInv => EscalatedIsStale
  BY DEF IInv
<1> QED BY <1>1, Invariance, PTL

\* Each waits for a row above all those it holds.
LEMMA NoCircle == IInv => NoDeadlock
<1> SUFFICES ASSUME IInv, NEW r1 \in Sessions, NEW r2 \in Sessions,
                    WaitsFor(r1, r2), WaitsFor(r2, r1)
             PROVE  FALSE
  BY DEF NoDeadlock
<1>1. PICK t1 \in Unflushed(r1) : t1 \in locked[r2]
  BY DEF WaitsFor
<1>2. PICK t2 \in Unflushed(r2) : t2 \in locked[r1]
  BY DEF WaitsFor
<1>3. t2 < t1 /\ t1 < t2
  BY <1>1, <1>2 DEF IInv, LockOrder
<1>4. t1 \in Nat /\ t2 \in Nat
  BY <1>1, <1>2, IdsAssumption DEF IInv, TypeOK, Unflushed
<1> QED BY <1>3, <1>4

\* No two units of work wait for each other's row locks.
THEOREM NoMutualWait == Spec => []NoDeadlock
  BY NoCircle, Invariance, PTL

\* Only the three commits write the tables.
LEMMA TableSteps ==
    ASSUME [Next]_vars
    PROVE  \/ UNCHANGED dbVars /\ (Tick \/ now' = now)
           \/ \E s \in Sessions : CommitCreate(s) \/ CommitAppend(s) \/ CommitEscalate(s)
<1>1. CASE Tick
  BY <1>1 DEF Tick
<1>2. ASSUME NEW s \in Sessions, Call(s) PROVE UNCHANGED <<dbVars, now>>
  BY <1>2 DEF Call, CallCreate, CallList, CallAppend, CallEscalate, Refuse, Start
<1>3. ASSUME NEW s \in Sessions, Work(s), ~ CommitCreate(s), ~ CommitAppend(s), ~ CommitEscalate(s)
      PROVE  UNCHANGED <<dbVars, now>>
  BY <1>3 DEF Work, SelectActive, FlushTicket, SelectMine, SelectTicket, SelectStale,
     FlushRow, FlushDone, Loaded
<1>4. ASSUME NEW s \in Sessions, Rollback(s) \/ ReadReply(s) PROVE UNCHANGED <<dbVars, now>>
  BY <1>4 DEF Rollback, ReadReply
<1>5. CASE UNCHANGED vars
  BY <1>5 DEF vars, dbVars
<1> QED BY <1>1, <1>2, <1>3, <1>4, <1>5 DEF Next

\* What each commit does to the rows that were there: an append touches one
\* ticket, an escalation moves tickets to escalated, a create adds one.
LEMMA CommitEffect ==
    ASSUME IInv, NEW s \in Sessions
    PROVE  /\ CommitCreate(s) =>
                /\ fresh[s] \in TicketIds \ Stored
                /\ tickets' = [tickets EXCEPT ![fresh[s]] =
                     [user |-> call[s].user, category |-> call[s].category,
                      status |-> "open", created |-> stamp[s], updated |-> stamp[s]]]
                /\ messages' = messages
           /\ CommitAppend(s) =>
                /\ \A t \in Stored : /\ tickets'[t] # None
                                     /\ SameTicket(tickets'[t], tickets[t])
                                     /\ tickets'[t].status = tickets[t].status
                /\ \A t \in TicketIds \ Stored : tickets'[t] = None
                /\ fresh[s] \in MessageIds \ StoredMessages
                /\ messages' = [messages EXCEPT ![fresh[s]] =
                     [ticket |-> call[s].ticket, role |-> call[s].role, by |-> call[s].user]]
           /\ CommitEscalate(s) =>
                /\ \A t \in Stored : /\ tickets'[t] # None
                                     /\ SameTicket(tickets'[t], tickets[t])
                                     /\ tickets'[t].status =
                                          IF t \in view[s] THEN "escalated" ELSE tickets[t].status
                /\ \A t \in TicketIds \ Stored : tickets'[t] = None
                /\ messages' = messages
<1>1. \A t \in Stored : tickets[t] \in TicketRow
  BY DEF IInv, TypeOK, Stored
<1>2. stamp[s] \in Time
  BY DEF IInv, TypeOK
<1>3. ASSUME CommitCreate(s) PROVE fresh[s] \in TicketIds \ Stored
  BY <1>3 DEF IInv, CommitCreate, CreateOK
<1>4. ASSUME CommitAppend(s)
      PROVE  /\ \A t \in Stored : /\ tickets'[t] # None
                                  /\ SameTicket(tickets'[t], tickets[t])
                                  /\ tickets'[t].status = tickets[t].status
             /\ \A t \in TicketIds \ Stored : tickets'[t] = None
             /\ fresh[s] \in MessageIds \ StoredMessages
  <2> DEFINE t0 == call[s].ticket
             new == TouchedRow(tickets[t0], stamp[s])
  <2>1. t0 \in Stored /\ fresh[s] \in MessageIds \ StoredMessages
    BY <1>4 DEF IInv, CommitAppend, AppendOK, InScope
  <2>2. /\ new \in TicketRow /\ new # None
        /\ new.status = tickets[t0].status /\ SameTicket(new, tickets[t0])
    BY <1>1, <1>2, <2>1, RowUpdates, IdsAssumption
  <2>3. tickets' = [tickets EXCEPT ![t0] = new]
    BY <1>4 DEF CommitAppend
  <2> HIDE DEF new, t0
  <2>4. /\ tickets'[t0] = new
        /\ \A t \in TicketIds : t # t0 => tickets'[t] = tickets[t]
    BY <2>1, <2>3 DEF IInv, TypeOK, Stored
  <2> QED BY <2>1, <2>2, <2>4 DEF Stored, SameTicket
<1>5. ASSUME CommitEscalate(s)
      PROVE  /\ \A t \in Stored : /\ tickets'[t] # None
                                  /\ SameTicket(tickets'[t], tickets[t])
                                  /\ tickets'[t].status =
                                       IF t \in view[s] THEN "escalated" ELSE tickets[t].status
             /\ \A t \in TicketIds \ Stored : tickets'[t] = None
  <2>1. view[s] \subseteq Stored
    BY <1>5 DEF IInv, CommitEscalate, EscalateOK
  <2>2. /\ \A t \in view[s] : tickets'[t] = EscalatedRow(tickets[t], stamp[s])
        /\ \A t \in TicketIds \ view[s] : tickets'[t] = tickets[t]
    BY <1>5, <2>1 DEF CommitEscalate, Stored
  <2>3. \A t \in view[s] :
           /\ tickets'[t] \in TicketRow /\ tickets'[t] # None
           /\ tickets'[t].status = "escalated" /\ SameTicket(tickets'[t], tickets[t])
    BY <1>1, <1>2, <2>1, <2>2, RowUpdates, IdsAssumption
  <2> QED BY <2>1, <2>2, <2>3 DEF Stored, SameTicket
<1> QED BY <1>3, <1>4, <1>5 DEF CommitCreate, CommitAppend, CommitEscalate

\* No step takes a status back.
LEMMA StatusStep == IInv /\ [Next]_vars => StatusMove
<1> SUFFICES ASSUME IInv, [Next]_vars PROVE StatusMove
  OBVIOUS
<1>1. CASE UNCHANGED dbVars
  BY <1>1 DEF dbVars, StatusMove
<1>2. ASSUME NEW s \in Sessions, CommitCreate(s) PROVE StatusMove
  BY <1>2, CommitEffect DEF IInv, TypeOK, Stored, StatusMove
<1>3. ASSUME NEW s \in Sessions, CommitAppend(s) PROVE StatusMove
  BY <1>3, CommitEffect DEF StatusMove
<1>4. ASSUME NEW s \in Sessions, CommitEscalate(s) PROVE StatusMove
  BY <1>4, CommitEffect DEF IInv, StatusOK, StatusMove
<1> QED BY <1>1, <1>2, <1>3, <1>4, TableSteps

\* A status only moves from open to escalated: no append, working from a row
\* it read earlier, takes an escalation back.
THEOREM StatusOnlyForward == Spec => StatusForward
BY StatusStep, Invariance, PTL DEF Spec, StatusForward

\* No step takes back or changes what is stored.
LEMMA HistoryStep == IInv /\ [Next]_vars => KeepsHistory
<1> SUFFICES ASSUME IInv, [Next]_vars PROVE KeepsHistory
  OBVIOUS
<1>1. CASE UNCHANGED dbVars
  BY <1>1 DEF dbVars, KeepsHistory, Stored
<1>2. ASSUME NEW s \in Sessions, CommitCreate(s) PROVE KeepsHistory
  BY <1>2, CommitEffect DEF IInv, TypeOK, Stored, KeepsHistory
<1>3. ASSUME NEW s \in Sessions, CommitAppend(s) PROVE KeepsHistory
  BY <1>3, CommitEffect DEF IInv, TypeOK, StoredMessages, SameTicket, KeepsHistory
<1>4. ASSUME NEW s \in Sessions, CommitEscalate(s) PROVE KeepsHistory
  BY <1>4, CommitEffect DEF SameTicket, KeepsHistory
<1> QED BY <1>1, <1>2, <1>3, <1>4, TableSteps

\* Tickets keep owner, category and creation time, messages never change, and
\* neither is ever lost.
THEOREM HistoryNeverLost == Spec => HistoryKept
BY HistoryStep, Invariance, PTL DEF Spec, HistoryKept

\* A new answer that names a ticket or a message comes from the commit of it.
LEMMA NewAnswers ==
    ASSUME IInv, [Next]_vars, NEW r \in Sessions,
           reply'[r].kind \in {"created", "appended"}
    PROVE  \/ reply'[r] = reply[r]
           \/ CommitCreate(r) /\ reply'[r] = Answer("created", fresh[r], {})
           \/ CommitAppend(r) /\ reply'[r] = Answer("appended", fresh[r], {})
<1>0. TypeOK
  BY DEF IInv
<1> USE DEF Refused, Answer
<1>1. CASE Tick \/ UNCHANGED vars
  BY <1>1 DEF Tick, sessionVars, vars
<1>2. ASSUME NEW s \in Sessions, Call(s) PROVE reply'[r] = reply[r]
  BY <1>0, <1>2 DEF Call, CallCreate, CallList, CallAppend, CallEscalate, Refuse, Start, TypeOK
<1>3. ASSUME NEW s \in Sessions, NEW a, Close(s, a)
      PROVE  reply'[r] = reply[r] \/ (r = s /\ reply'[r] = a)
  BY <1>0, <1>3 DEF Close, TypeOK
<1>4. ASSUME NEW s \in Sessions, Rollback(s) \/ ReadReply(s) PROVE reply'[r] = reply[r]
  BY <1>0, <1>3, <1>4 DEF Rollback, ReadReply, NoReply, TypeOK
<1>5. ASSUME NEW s \in Sessions, CommitCreate(s)
      PROVE  reply'[r] = reply[r] \/ (r = s /\ reply'[r] = Answer("created", fresh[r], {}))
  <2>1. PICK a \in {Answer("created", fresh[s], {}), Refused("failed")} : Close(s, a)
    BY <1>5 DEF CommitCreate
  <2> QED BY <1>3, <2>1
<1>6. ASSUME NEW s \in Sessions, CommitAppend(s)
      PROVE  reply'[r] = reply[r] \/ (r = s /\ reply'[r] = Answer("appended", fresh[r], {}))
  <2>1. PICK a \in {Answer("appended", fresh[s], {}), Refused("failed")} : Close(s, a)
    BY <1>6 DEF CommitAppend
  <2> QED BY <1>3, <2>1
<1>7. ASSUME NEW s \in Sessions, Work(s), ~ CommitCreate(s), ~ CommitAppend(s)
      PROVE  reply'[r] = reply[r]
  <2>1. CASE SelectActive(s)
    BY <1>3, <2>1 DEF SelectActive
  <2>2. CASE FlushTicket(s) \/ FlushRow(s) \/ FlushDone(s)
    BY <2>2 DEF FlushTicket, FlushRow, FlushDone
  <2>3. CASE SelectMine(s)
    <3>1. PICK id, rows : Close(s, Answer("listed", id, rows))
      BY <2>3, Zenon DEF SelectMine
    <3>2. reply'[r] = reply[r] \/ reply'[r].kind = "listed"
      BY <1>3, <3>1
    <3> QED BY <3>2
  <2>4. CASE SelectTicket(s)
    BY <1>3, <2>4 DEF SelectTicket
  <2>5. CASE SelectStale(s)
    BY <1>0, <2>5 DEF SelectStale, TypeOK
  <2>6. CASE CommitEscalate(s)
    BY <1>3, <2>6 DEF CommitEscalate
  <2> QED BY <1>7, <2>1, <2>2, <2>3, <2>4, <2>5, <2>6 DEF Work
<1> QED BY <1>1, <1>2, <1>4, <1>5, <1>6, <1>7 DEF Next

\* What was acknowledged stays stored, and a new answer names what was committed.
LEMMA AckedStep == IInv /\ AckedIsDurable /\ [Next]_vars => AckedIsDurable'
<1> SUFFICES ASSUME IInv, AckedIsDurable, [Next]_vars, NEW r \in Sessions
             PROVE  /\ reply'[r].kind = "created" => reply'[r].id \in Stored'
                    /\ reply'[r].kind = "appended" => reply'[r].id \in StoredMessages'
  BY DEF AckedIsDurable
<1>1. Stored \subseteq Stored' /\ StoredMessages \subseteq StoredMessages'
  BY HistoryStep DEF KeepsHistory, Stored, StoredMessages
<1>2. CASE reply'[r] = reply[r]
  BY <1>1, <1>2 DEF AckedIsDurable
<1>3. CASE CommitCreate(r) /\ reply'[r] = Answer("created", fresh[r], {})
  <2>1. fresh[r] \in Stored'
    <3> DEFINE row == [user |-> call[r].user, category |-> call[r].category,
                       status |-> "open", created |-> stamp[r], updated |-> stamp[r]]
    <3>1. /\ fresh[r] \in TicketIds /\ tickets' = [tickets EXCEPT ![fresh[r]] = row]
      BY <1>3, CommitEffect
    <3>2. row \in TicketRow
      BY <1>3 DEF CommitCreate, IInv, TypeOK, CreateOK, TicketRow, Statuses
    <3>3. row # None
      BY <3>2, IdsAssumption
    <3> HIDE DEF row
    <3> QED BY <3>1, <3>3 DEF Stored, IInv, TypeOK
  <2> QED BY <1>3, <2>1 DEF Answer
<1>4. CASE CommitAppend(r) /\ reply'[r] = Answer("appended", fresh[r], {})
  <2>1. fresh[r] \in StoredMessages'
    <3> DEFINE row == [ticket |-> call[r].ticket, role |-> call[r].role, by |-> call[r].user]
    <3>1. /\ fresh[r] \in MessageIds /\ messages' = [messages EXCEPT ![fresh[r]] = row]
      BY <1>4, CommitEffect
    <3>2. row \in MessageRow
      BY <1>4 DEF CommitAppend, IInv, AppendOK, MessageRow
    <3>3. row # None
      BY <3>2, IdsAssumption
    <3> HIDE DEF row
    <3> QED BY <3>1, <3>3 DEF StoredMessages, IInv, TypeOK
  <2> QED BY <1>4, <2>1 DEF Answer
<1> QED BY <1>2, <1>3, <1>4, NewAnswers

\* A ticket or message a tool has acknowledged is stored: the answer leaves
\* after the COMMIT, and nothing that is stored is lost.
THEOREM AcknowledgedIsStored == Spec => []AckedIsDurable
<1>1. Init => AckedIsDurable
  BY DEF Init, AckedIsDurable, NoReply, Answer
<1> QED BY <1>1, AckedStep, Invariance, PTL DEF Spec

----------------------------------------------------------------------------
(* Serial creators. *)

\* A session that is creating a ticket after a step was creating it before;
\* it is past its SELECT only if it was so already, or because its employee
\* has no active ticket.
LEMMA CreatingStep ==
    ASSUME IInv, [Next]_vars, NEW s \in Sessions, Creating(s)',
           pc'[s] \in {"flush", "commit"}
    PROVE  /\ call'[s] = call[s] /\ Creating(s)
           /\ \/ pc[s] \in {"flush", "commit"}
              \/ ActiveOf(call[s].user) = {} /\ UNCHANGED dbVars
<1> USE DEF Creating
<1>0. TypeOK
  BY DEF IInv
<1>1. CASE Tick \/ UNCHANGED vars
  BY <1>1 DEF Tick, sessionVars, vars
<1>2. ASSUME NEW r \in Sessions, Call(r)
      PROVE  call'[s] = call[s] /\ pc'[s] = pc[s]
  BY <1>0, <1>2 DEF Call, CallCreate, CallList, CallAppend, CallEscalate, Refuse, Start, TypeOK
<1>3. ASSUME NEW r \in Sessions, Rollback(r) \/ ReadReply(r)
      PROVE  call'[s] = call[s] /\ pc'[s] = pc[s]
  BY <1>0, <1>3 DEF Rollback, ReadReply, Close, TypeOK
<1>4. ASSUME NEW r \in Sessions, NEW a, Close(r, a)
      PROVE  call'[s] = call[s] /\ pc'[s] = pc[s]
  BY <1>0, <1>4 DEF Close, TypeOK
<1>5. ASSUME NEW r \in Sessions, Work(r)
      PROVE  /\ call'[s] = call[s] /\ Creating(s)
             /\ \/ pc[s] \in {"flush", "commit"}
                \/ ActiveOf(call[s].user) = {} /\ UNCHANGED dbVars
  <2>1. CASE SelectActive(r)
    BY <1>0, <1>4, <2>1 DEF SelectActive, Loaded, TypeOK
  <2>2. CASE FlushTicket(r) \/ FlushRow(r) \/ FlushDone(r)
    BY <1>0, <2>2 DEF FlushTicket, FlushRow, FlushDone, TypeOK
  <2>3. CASE SelectTicket(r) \/ SelectStale(r)
    BY <1>0, <1>4, <2>3 DEF SelectTicket, SelectStale, Loaded, TypeOK
  <2>4. CASE SelectMine(r)
    BY <1>4, <2>4 DEF SelectMine
  <2>5. CASE CommitCreate(r) \/ CommitAppend(r) \/ CommitEscalate(r)
    BY <1>4, <2>5 DEF CommitCreate, CommitAppend, CommitEscalate
  <2> QED BY <1>5, <2>1, <2>2, <2>3, <2>4, <2>5 DEF Work
<1> QED BY <1>1, <1>2, <1>3, <1>5 DEF Next

\* An append or an escalation gives no employee a first active ticket.
LEMMA ActiveKept ==
    ASSUME IInv, NEW s \in Sessions, CommitAppend(s) \/ CommitEscalate(s), NEW u \in Users
    PROVE  ActiveOf(u)' \subseteq ActiveOf(u)
BY CommitEffect DEF IInv, StatusOK, ActiveOf, Stored, SameTicket

\* A create adds its ticket to its own employee's active ones only.
LEMMA ActiveGrown ==
    ASSUME IInv, NEW s \in Sessions, CommitCreate(s), NEW u \in Users
    PROVE  ActiveOf(u)' \subseteq ActiveOf(u) \cup (IF u = call[s].user THEN {fresh[s]} ELSE {})
<1> DEFINE row == [user |-> call[s].user, category |-> call[s].category,
                   status |-> "open", created |-> stamp[s], updated |-> stamp[s]]
<1>1. /\ fresh[s] \in TicketIds /\ tickets' = [tickets EXCEPT ![fresh[s]] = row]
      /\ row.user = call[s].user
  BY CommitEffect
<1> HIDE DEF row
<1> QED BY <1>1 DEF IInv, TypeOK, ActiveOf, Stored

\* The property, in the terms of the service's own check.
LEMMA OneActiveByUser ==
    ASSUME IInv
    PROVE  OneActivePerUser <=> \A u \in Users : \A t1, t2 \in ActiveOf(u) : t1 = t2
<1>1. \A t \in Stored : tickets[t].user \in Users
  BY DEF IInv, TypeOK, Stored, TicketRow
<1> QED BY <1>1 DEF OneActivePerUser, ActiveOf

\* SerialInv is inductive when creators are serial.
LEMMA SerialStep == SerialInv /\ [SerialNext]_vars => SerialInv'
<1> SUFFICES ASSUME SerialInv, [SerialNext]_vars PROVE SerialInv'
  OBVIOUS
<1> USE DEF SerialInv
<1>1. [Next]_vars
  BY DEF SerialNext
<1>2. IInv'
  BY <1>1, InductiveStep
<1>3. OneCreator'
  BY DEF SerialNext, OneCreator, Creating, vars
<1>4. NoneActive'
  <2> SUFFICES ASSUME NEW s \in Sessions, Creating(s)', pc'[s] \in {"flush", "commit"}
               PROVE  ActiveOf(call[s].user)' = {} /\ call'[s] = call[s]
    BY DEF NoneActive, ActiveOf
  <2>1. call'[s] = call[s] /\ Creating(s)
    BY <1>1, CreatingStep
  <2>2. call[s].user \in Users
    BY <2>1 DEF IInv, CreateOK, Creating
  <2>3. ActiveOf(call[s].user) = {}
    BY <1>1, <2>1, CreatingStep DEF NoneActive
  <2>4. CASE UNCHANGED dbVars
    BY <2>1, <2>3, <2>4 DEF ActiveOf, Stored, dbVars
  <2>5. ASSUME NEW r \in Sessions, CommitAppend(r) \/ CommitEscalate(r)
        PROVE  ActiveOf(call[s].user)' = {}
    <3>1. \A u \in Users : ActiveOf(u)' \subseteq ActiveOf(u)
      BY <2>5, ActiveKept
    <3> QED BY <2>1, <2>2, <2>3, <3>1 DEF ActiveOf
  <2>6. ASSUME NEW r \in Sessions, CommitCreate(r)
        PROVE  ActiveOf(call[s].user)' = {}
    <3>1. pc'[r] = "idle" /\ Creating(r)
      BY <2>6 DEF CommitCreate, Close, IInv, TypeOK, Creating
    <3>2. call[r].user # call[s].user
      BY <2>1, <3>1 DEF OneCreator
    <3>3. \A u \in Users : u # call[r].user => ActiveOf(u)' \subseteq ActiveOf(u)
      BY <2>6, ActiveGrown
    <3> QED BY <2>1, <2>2, <2>3, <3>2, <3>3 DEF ActiveOf
  <2> QED BY <1>1, <2>1, <2>4, <2>5, <2>6, TableSteps
<1>5. OneActivePerUser'
  <2>0. OneActivePerUser' <=> \A u \in Users : \A t1, t2 \in ActiveOf(u)' : t1 = t2
    <3>1. \A t \in Stored' : tickets'[t].user \in Users
      BY <1>2 DEF IInv, TypeOK, Stored, TicketRow
    <3> QED BY <3>1 DEF OneActivePerUser, ActiveOf
  <2> SUFFICES ASSUME NEW u \in Users, NEW t1 \in ActiveOf(u)', NEW t2 \in ActiveOf(u)'
               PROVE  t1 = t2
    BY <2>0
  <2>1. \A x, y \in ActiveOf(u) : x = y
    BY OneActiveByUser
  <2>2. CASE UNCHANGED dbVars
    BY <2>1, <2>2 DEF ActiveOf, Stored, dbVars
  <2>3. ASSUME NEW r \in Sessions, CommitAppend(r) \/ CommitEscalate(r) PROVE t1 = t2
    BY <2>1, <2>3, ActiveKept
  <2>4. ASSUME NEW r \in Sessions, CommitCreate(r) PROVE t1 = t2
    <3>1. u = call[r].user => ActiveOf(u) = {}
      BY <2>4 DEF NoneActive, Creating, CommitCreate
    <3> QED BY <2>1, <2>4, <3>1, ActiveGrown
  <2> QED BY <1>1, <2>2, <2>3, <2>4, TableSteps
<1> QED BY <1>2, <1>3, <1>4, <1>5

\* With serial creators SerialInv holds in every reachable state.
THEOREM SerialInvariance == SerialSpec => []SerialInv
<1>1. Init => SerialInv
  <2> SUFFICES ASSUME Init PROVE SerialInv
    OBVIOUS
  <2>1. Stored = {} /\ \A s \in Sessions : pc[s] = "idle"
    BY DEF Init, Stored
  <2> QED BY <2>1, InductiveInit DEF SerialInv, OneCreator, NoneActive, OneActivePerUser,
            ActiveOf, Creating
<1> QED BY <1>1, SerialStep, PTL DEF SerialSpec

\* No employee has two active tickets when create-ticket calls of one employee
\* do not overlap, whatever else runs beside them.
THEOREM SerialOneActive == SerialSpec => []OneActivePerUser
<1>1. SerialInv => OneActivePerUser
  BY DEF SerialInv
<1> QED BY <1>1, SerialInvariance, PTL

----------------------------------------------------------------------------
(***************************************************************************)
(* With serial creators, Ticketing implements TicketBook: each COMMIT is   *)
(* one atomic operation of the book, and every other step is invisible.    *)
(***************************************************************************)

\* A book row is there exactly when the ticket is, and shows its columns.
LEMMA RowShown ==
    ASSUME TypeOK, NEW t \in TicketIds
    PROVE  /\ Rows[t] # None <=> t \in Stored
           /\ t \in Stored => /\ Rows[t] = Shown(tickets[t])
                              /\ Rows[t].user = tickets[t].user
                              /\ Rows[t].category = tickets[t].category
                              /\ Rows[t].status = tickets[t].status
                              /\ Rows[t].created = tickets[t].created
<1>1. CASE t \in Stored
  <2>1. tickets[t] \in TicketRow /\ tickets[t] # None
    BY <1>1 DEF TypeOK, Stored
  <2>2. Shown(tickets[t]) \in ShownRow
    BY <2>1 DEF TicketRow, ShownRow, Shown
  <2> QED BY <1>1, <2>1, <2>2, IdsAssumption DEF Rows, Shown
<1>2. CASE t \notin Stored
  BY <1>2 DEF Rows, Stored
<1> QED BY <1>1, <1>2

\* The book's view of what is open.
LEMMA OpenedShown ==
    ASSUME TypeOK
    PROVE  /\ Book!Opened = Stored
           /\ \A u \in Users : Book!OpenedBy(u) = {t \in Stored : tickets[t].user = u}
BY RowShown DEF Book!Opened, Book!OpenedBy, Stored

\* The empty database is the empty book.
LEMMA BookStarts == Init => Book!BookInit
BY DEF Init, Book!BookInit, Rows

\* A committed create opens the ticket in the book, if its employee has none.
LEMMA CreateShown ==
    ASSUME IInv, TypeOK', NEW s \in Sessions, CommitCreate(s), ActiveOf(call[s].user) = {}
    PROVE  Book!BookNext
<1> DEFINE t0 == fresh[s]
           row == [user |-> call[s].user, category |-> call[s].category,
                   status |-> "open", created |-> stamp[s], updated |-> stamp[s]]
<1>1. /\ t0 \in TicketIds \ Stored
      /\ tickets' = [tickets EXCEPT ![t0] = row]
      /\ messages' = messages /\ now' = now
  BY CommitEffect DEF CommitCreate
<1>2. /\ call[s].user \in Users /\ call[s].category \in Categories
      /\ stamp[s] \in 0 .. MaxTime /\ stamp[s] <= now
  BY DEF IInv, CommitCreate, CreateOK, SessionOK, TypeOK, Time
<1>3. t0 \notin Book!Opened /\ Book!OpenedBy(call[s].user) = {}
  BY <1>1, <1>2, OpenedShown DEF IInv, StatusOK, ActiveOf
<1>4. Rows' = [Rows EXCEPT ![t0] = Shown(row)]
  <2>1. row \in TicketRow
    BY <1>2 DEF TicketRow, Statuses, Time
  <2>2. row # None
    BY <2>1, IdsAssumption
  <2> HIDE DEF row, t0
  <2> QED BY <1>1, <2>2 DEF Rows, IInv, TypeOK
<1>5. Book!OpenTicket(t0, call[s].user, call[s].category, stamp[s])
  BY <1>1, <1>2, <1>3, <1>4 DEF Book!OpenTicket, Shown
<1> QED BY <1>1, <1>2, <1>5 DEF Book!BookNext

\* A committed append adds its note.
LEMMA AppendShown ==
    ASSUME IInv, TypeOK', NEW s \in Sessions, CommitAppend(s)
    PROVE  Book!BookNext
<1>1. /\ fresh[s] \in MessageIds \ StoredMessages
      /\ call[s].ticket \in Stored /\ tickets[call[s].ticket].user = call[s].user
      /\ call[s].user \in Users /\ call[s].role \in Roles
  BY DEF IInv, CommitAppend, AppendOK, InScope
<1>2. /\ \A t \in Stored : /\ tickets'[t] # None
                           /\ SameTicket(tickets'[t], tickets[t])
                           /\ tickets'[t].status = tickets[t].status
      /\ \A t \in TicketIds \ Stored : tickets'[t] = None
      /\ messages' = [messages EXCEPT ![fresh[s]] =
           [ticket |-> call[s].ticket, role |-> call[s].role, by |-> call[s].user]]
      /\ now' = now
  BY CommitEffect DEF CommitAppend
<1>3. Rows' = Rows
  BY <1>2 DEF Rows, Shown, SameTicket, Stored
<1>4. Book!AddNote(fresh[s], call[s].ticket, call[s].role, call[s].user)
  <2>1. call[s].ticket \in Book!OpenedBy(call[s].user)
    BY <1>1, OpenedShown DEF IInv
  <2> QED BY <1>1, <1>2, <1>3, <2>1 DEF Book!AddNote, StoredMessages
<1> QED BY <1>1, <1>4 DEF Book!BookNext, Roles, Stored

\* A committed escalation escalates, in the book, the tickets of its batch
\* that another run did not escalate first.
LEMMA EscalateShown ==
    ASSUME IInv, TypeOK', NEW s \in Sessions, CommitEscalate(s)
    PROVE  Book!BookNext
<1> DEFINE batch == {t \in view[s] : tickets[t].status = "open"}
<1>1. /\ view[s] \subseteq Stored
      /\ \A t \in view[s] : tickets[t].created + call[s].age < now
      /\ call[s].age \in Ages
  BY DEF IInv, CommitEscalate, EscalateOK
<1>2. /\ \A t \in Stored : /\ tickets'[t] # None
                           /\ SameTicket(tickets'[t], tickets[t])
                           /\ tickets'[t].status =
                                IF t \in view[s] THEN "escalated" ELSE tickets[t].status
      /\ \A t \in TicketIds \ Stored : tickets'[t] = None
      /\ messages' = messages /\ now' = now
  BY CommitEffect DEF CommitEscalate
<1>3. \A t \in Stored :
         tickets'[t].status = IF t \in batch THEN "escalated" ELSE tickets[t].status
  BY <1>1, <1>2 DEF IInv, StatusOK
<1>4. batch \subseteq Stored /\ \A t \in batch : tickets[t].status = "open"
  BY <1>1
<1>5. \A t \in batch : \E age \in Ages : Rows[t].created + age < now
  BY <1>1, RowShown DEF IInv, Stored
<1> HIDE DEF batch
<1>6. Rows' = [t \in TicketIds |->
         IF t \in batch THEN [Rows[t] EXCEPT !.status = "escalated"] ELSE Rows[t]]
  <2> SUFFICES ASSUME NEW t \in TicketIds
               PROVE  Rows'[t] = IF t \in batch THEN [Rows[t] EXCEPT !.status = "escalated"]
                                 ELSE Rows[t]
    BY DEF Rows
  <2>1. CASE t \notin Stored
    BY <1>2, <1>4, <2>1 DEF Rows, Stored
  <2>2. CASE t \in Stored
    <3>1. Rows[t] = Shown(tickets[t]) /\ Rows'[t] = Shown(tickets'[t])
      BY <1>2, <2>2 DEF Rows, Stored
    <3> QED BY <1>2, <1>3, <1>4, <2>2, <3>1 DEF Shown, SameTicket
  <2> QED BY <2>1, <2>2
<1>7. Book!EscalateAll(batch)
  BY <1>2, <1>4, <1>5, <1>6, RowShown, OpenedShown
     DEF Book!EscalateAll, IInv, Stored
<1> QED BY <1>4, <1>7 DEF Book!BookNext, Stored

\* Serial creators see the atomic book: every behaviour of the detailed
\* service, mapped to its committed rows, is a behaviour of TicketBook.
THEOREM Refinement == SerialSpec => ImplementsBook
<1>1. Init => Book!BookInit
  BY BookStarts
<1>2. SerialInv /\ [SerialNext]_vars => [Book!BookNext]_(Book!bookVars)
  <2> SUFFICES ASSUME SerialInv, [SerialNext]_vars
               PROVE  Book!BookNext \/ UNCHANGED <<Rows, messages, now>>
    BY DEF Book!bookVars
  <2>1. [Next]_vars /\ TypeOK'
    BY SerialStep DEF SerialNext, SerialInv, IInv
  <2>2. ASSUME NEW s \in Sessions, CommitCreate(s) \/ CommitAppend(s) \/ CommitEscalate(s)
        PROVE  Book!BookNext
    <3>1. CommitCreate(s) => ActiveOf(call[s].user) = {}
      BY DEF SerialInv, NoneActive, Creating, CommitCreate
    <3> QED BY <2>1, <2>2, <3>1, CreateShown, AppendShown, EscalateShown DEF SerialInv
  <2>3. CASE Tick
    BY <2>3 DEF Tick, dbVars, Rows, Book!BookNext, Book!TurnClock
  <2>4. CASE UNCHANGED dbVars /\ now' = now
    BY <2>4 DEF dbVars, Rows
  <2> QED BY <2>1, <2>2, <2>3, <2>4, TableSteps
<1> QED BY <1>1, <1>2, SerialInvariance, PTL DEF SerialSpec, ImplementsBook, Book!BookSpec
=============================================================================
