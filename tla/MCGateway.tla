----------------------------- MODULE MCGateway -----------------------------
(***************************************************************************)
(* Instances of Gateway for TLC.  A mail is a UID and one of a few kinds.  *)
(***************************************************************************)
EXTENDS Gateway

Mail(sender, static, readable, sendable) ==
    [sender |-> sender, static |-> static, readable |-> readable, sendable |-> sendable]

Request == Mail(TRUE, FALSE, TRUE, TRUE)
Canned == Mail(TRUE, TRUE, TRUE, TRUE)
NoSender == Mail(FALSE, FALSE, TRUE, TRUE)
UnknownCharset == Mail(TRUE, FALSE, FALSE, TRUE)
TwoLineSubject == Mail(TRUE, FALSE, TRUE, FALSE)

TwoMails == 1 .. 2
ThreeMails == 1 .. 3
Ordinary == {Request, Canned, NoSender}
AnyKind == Ordinary \cup {UnknownCharset, TwoLineSubject}
OneUnreadable == {Request, UnknownCharset}
=============================================================================
