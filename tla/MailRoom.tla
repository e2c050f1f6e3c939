------------------------------ MODULE MailRoom ------------------------------
(***************************************************************************)
(* What the email gateway promises whoever writes to the support address,  *)
(* whatever its loop, its batches and its restarts: letters are taken as   *)
(* they come; a letter with an address is replied to before it is filed;   *)
(* none is replied to before an older one was, unless something went wrong *)
(* with that one; and a letter gets a second reply only after a mishap of  *)
(* its own.                                                                *)
(***************************************************************************)
EXTENDS Integers

CONSTANT Letters    \* in order of arrival

VARIABLES
    addressed,      \* letters with somebody to reply to
    tray,           \* where a letter is
    sent,           \* replies to a letter
    mishaps         \* what went wrong with a letter

room == <<addressed, tray, sent, mishaps>>

RoomInit ==
    /\ addressed \subseteq Letters
    /\ tray = [m \in Letters |-> "away"]
    /\ sent = [m \in Letters |-> 0]
    /\ mishaps = [m \in Letters |-> 0]

Deliver(m) ==
    /\ tray[m] = "away"
    /\ \A older \in Letters : older < m => tray[older] # "away"
    /\ tray' = [tray EXCEPT ![m] = "open"]
    /\ UNCHANGED <<addressed, sent, mishaps>>

\* Somebody may reply to m now.
Due(m) ==
    /\ tray[m] = "open" /\ m \in addressed
    /\ sent[m] <= mishaps[m]
    /\ \A older \in addressed : older < m => sent[older] > 0 \/ mishaps[older] > 0

Reply(m) ==
    /\ Due(m)
    /\ sent' = [sent EXCEPT ![m] = @ + 1]
    /\ UNCHANGED <<addressed, tray, mishaps>>

\* Nobody knows whether the reply that was being sent, if any, went out.
Mishap(m) ==
    /\ tray[m] = "open"
    /\ mishaps' = [mishaps EXCEPT ![m] = @ + 1]
    /\ sent' = sent \/ (Due(m) /\ sent' = [sent EXCEPT ![m] = @ + 1])
    /\ UNCHANGED <<addressed, tray>>

File(m) ==
    /\ tray[m] = "open"
    /\ m \in addressed => sent[m] > 0
    /\ tray' = [tray EXCEPT ![m] = "filed"]
    /\ UNCHANGED <<addressed, sent, mishaps>>

RoomNext == \E m \in Letters : Deliver(m) \/ Reply(m) \/ Mishap(m) \/ File(m)

RoomSpec == RoomInit /\ [][RoomNext]_room
=============================================================================
