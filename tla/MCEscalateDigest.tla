-------------------------- MODULE MCEscalateDigest --------------------------
(***************************************************************************)
(* Instances of EscalateDigest for TLC: the service's constants as in      *)
(* MCTicketing, without messages, and runs r1, r2 of the workflow.         *)
(***************************************************************************)
EXTENDS EscalateDigest, TLC

CONSTANTS ann, bug, s1, s2, r1, r2

OneUser == {ann}
OneCategory == {bug}
OneTicket == {1}
TwoTickets == {1, 2}
NoMessages == {}
TwoSessions == {s1, s2}
NoAge == {0}
OneRun == {r1}
TwoRuns == {r1, r2}

\* Ids are taken in order, a uuid is as good as another; the clock turns when
\* there is a ticket to grow old.  A run that has its rows goes on at once: the
\* rest of it changes nothing that a step of the service or of another run reads.
Unused == TicketIds \ (Stored \cup Reserved)
Sending == {r \in Runs : phase[r] \in {"branch", "send"}}
LeastFirst ==
    /\ now' # now => Stale(now + 1) # {}
    /\ \A s \in Sessions : fresh'[s] \in Unused => \A id \in Unused : fresh'[s] <= id
    /\ Sending # {} => \E r \in Sending : phase'[r] # phase[r] \/ misses'[r] # misses[r]

\* Runs are alike, sessions too: sound for the runs that check invariants.
Alike == Permutations(TwoRuns) \cup Permutations(TwoSessions)
=============================================================================
