------------------------------ MODULE MailQueue ------------------------------
(* What a mailbox promises: every mail that was accepted is received once,   *)
(* in the order of acceptance but for the urgent ones, unless a reset drops  *)
(* all that are held; and it never holds more than Size of them.             *)
EXTENDS Naturals, Sequences

CONSTANTS Mails, NoMail, Size

VARIABLES queue, got      \* the mails held; what the last call took out
vars == <<queue, got>>

Init == queue = <<>> /\ got = NoMail

Accept == \E m \in Mails :
            /\ Len(queue) < Size
            /\ queue' \in {Append(queue, m), <<m>> \o queue}
            /\ got' = NoMail
Receive == /\ queue # <<>>
           /\ got' = Head(queue) /\ queue' = Tail(queue)
Discard == queue' = <<>> /\ got' = "all"

Next == Accept \/ Receive \/ Discard
Spec == Init /\ [][Next]_vars
=============================================================================
