----------------------------- MODULE MCHelpdesk -----------------------------
(***************************************************************************)
(* Instances of Helpdesk for TLC: mails of one employee.  Ids are numbers; *)
(* a uuid is as good as another, so TLC only follows steps that take the   *)
(* least free ids and the least free session.                              *)
(***************************************************************************)
EXTENDS Helpdesk

CONSTANTS ann, bug

OneUser == {ann}
OneCategory == {bug}
TwoTickets == {1, 2}
NumberedMessages == 11 .. 14
TwoSessions == 1 .. 2
NoAge == {0}
TwoMails == 1 .. 2
TwoRuns == 1 .. 2
FromAnn == [m \in TwoMails |-> ann]

\* Ids and sessions are taken in order, mails too (they differ in nothing that
\* the workflow reads).  The clock turns when there is a ticket to grow old and
\* no call is half done: late stamps are explored by MCTicketing.
Unused(kind) == kind \ (Stored \cup StoredMessages \cup Reserved)
LeastFirst ==
    /\ now' # now => Stale(now + 1) # {} /\ \A s \in Sessions : pc[s] = "idle"
    /\ mail' = mail \/ \A m \in Mails \ settled : mail'[job'] <= m
    /\ \A s \in Sessions : pc[s] = "idle" /\ pc'[s] # "idle" =>
          /\ \A other \in Sessions : Free(other) => s <= other
          /\ \A kind \in {TicketIds, MessageIds} :
                fresh'[s] \in kind => \A id \in Unused(kind) : fresh'[s] <= id
=============================================================================
