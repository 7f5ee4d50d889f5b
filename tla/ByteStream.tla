------------------------------- MODULE ByteStream -------------------------------
(***************************************************************************)
(* What one direction of a reliable byte stream promises: the receiver     *)
(* gets what was sent, in order, once, and nothing is taken back.          *)
(***************************************************************************)
EXTENDS Naturals, Sequences

VARIABLES sent, received

Init == sent = <<>> /\ received = <<>>

\* One more chunk of data is accepted from the application.
Send == Len(sent') = Len(sent) + 1 /\ SubSeq(sent', 1, Len(sent)) = sent /\ UNCHANGED received

\* A chunk arrives and with it those that were waiting for it.
Receive == /\ \E n \in (Len(received) + 1)..Len(sent) : received' = SubSeq(sent, 1, n)
           /\ UNCHANGED sent

Next == Send \/ Receive
Spec == Init /\ [][Next]_<<sent, received>>
=================================================================================
