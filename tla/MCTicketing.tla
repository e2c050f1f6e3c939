---------------------------- MODULE MCTicketing ----------------------------
(***************************************************************************)
(* Instances of Ticketing for TLC.  Ids are numbers (tickets, whose order  *)
(* is the primary-key order) and model values (messages).                  *)
(***************************************************************************)
EXTENDS Ticketing

CONSTANTS ann, bob, bug, s1, s2, m1

OneUser == {ann}
TwoUsers == {ann, bob}
OneCategory == {bug}
OneTicket == {1}
TwoTickets == {1, 2}
OneMessage == {m1}
TwoSessions == {s1, s2}
NoAge == {0}
OneAge == {1}
=============================================================================
