----------------------------------- MODULE Utp -----------------------------------
(***************************************************************************)
(* UtpStream (src/utp.cpp): a client c that connects, the slave s that the *)
(* listening master makes for it, and the datagrams between them, which    *)
(* may be lost, overtaken and, of the types in Dups, duplicated.           *)
(*                                                                         *)
(* send() never waits for the window: the event it would wait for,         *)
(* sendingQueueNotFull, is set at the start and cleared nowhere; so the    *)
(* sizes of windows and packets are left out.  recv() takes bytes from the *)
(* front of the receiving buffer; received is all that went into it.       *)
(***************************************************************************)
EXTENDS Integers, Sequences, FiniteSets

CONSTANTS SeqMod,       \* stands for 2^16
          SynSeqs,      \* the random synSeq of connect()
          Senders,      \* the ends whose application sends
          Dups,         \* types of datagrams that may arrive more than once
          Prompt,       \* the SYN is sent again only when it or its answer is lost
          ServerFirst,  \* the server's application may send before it heard from the client
          MaxTransmit,  \* stands for 5
          MaxData       \* bound: packets of data from one end

Ends == {"c", "s"}
Peer(e) == IF e = "c" THEN "s" ELSE "c"

ASSUME UtpAssumption ==
    /\ SeqMod \in Nat /\ SeqMod % 2 = 0 /\ SynSeqs \subseteq 1..(SeqMod - 1)
    /\ MaxTransmit \in Nat /\ MaxData \in Nat /\ MaxData < SeqMod \div 2
    /\ Senders \subseteq Ends /\ {Prompt, ServerFirst} \subseteq BOOLEAN

VARIABLES end,       \* UtpStreamPrivate at each end
          sent, received,  \* history: what the applications sent, what arrived
          heard,     \* history: packets known to be acknowledged, at the sender
          net        \* datagrams on their way
vars == <<end, sent, received, heard, net>>

Seq16(n) == (n + SeqMod) % SeqMod
\* Mutant: the distance of two sequence numbers without a sign.
UnsignedDiff(a, b) == Seq16(a - b)
\* seqDiff(): positive when a is ahead of b within half the sequence space.
SeqDiff(a, b) == IF Seq16(a - b) < SeqMod \div 2 THEN Seq16(a - b) ELSE Seq16(a - b) - SeqMod

\* A datagram; chunk is its payload (0: none), upto what its sender had received.
Datagram(e, type, seq, chunk) ==
    [to |-> Peer(e), type |-> type, seq |-> seq, ack |-> end[e].ackNr, chunk |-> chunk,
     upto |-> Len(received[e])]

New(state, seq, ack) ==
    [state |-> state, seqNr |-> seq, ackNr |-> ack, syn |-> 0, sendQueue |-> <<>>,
     outOfOrder |-> {}, finReceived |-> FALSE]

Init ==
    /\ end = [c |-> New("Unconnected", 1, 0), s |-> New("Listening", 1, 0)]
    /\ sent = [e \in Ends |-> <<>>] /\ received = [e \in Ends |-> <<>>]
    /\ heard = [e \in Ends |-> 0] /\ net = {}

Live(e) == end[e].state \in {"Connecting", "Connected"}

--------------------------------------------------------------------------------
(* Connecting. *)

\* connect(): the SYN is not counted by seqNr but precedes it.
Connect(syn) ==
    /\ end["c"].state = "Unconnected"
    /\ end' = [end EXCEPT !["c"] = [New("Connecting", Seq16(syn + 1), 0) EXCEPT !.syn = syn]]
    /\ net' = {Datagram("c", "SYN", syn, 0)}
    /\ UNCHANGED <<sent, received, heard>>

ShakesHands == \E p \in net : p.type = "SYN" \/ (p.type = "STATE" /\ p.to = "c")

\* connect() sends the SYN again after a timeout.
SynAgain ==
    /\ end["c"].state = "Connecting" /\ (Prompt => ~ShakesHands)
    /\ net' = net \cup {Datagram("c", "SYN", end["c"].syn, 0)}
    /\ UNCHANGED <<end, sent, received, heard>>

\* The SYN or its answer is lost.  (Any other datagram is lost when it is never
\* handled.)
Lose(p) ==
    /\ end["c"].state = "Connecting" /\ (p.type = "SYN" \/ (p.type = "STATE" /\ p.to = "c"))
    /\ net' = net \ {p} /\ UNCHANGED <<end, sent, received, heard>>

\* What is left of the network once p was handled and out was sent.
Handled(p, out) == (IF p.type \in Dups THEN net ELSE net \ {p}) \cup out

\* sendAck() of an end whose ackNr and received are as given.
AckOf(e, ack, data) == [Datagram(e, "STATE", end[e].seqNr, 0) EXCEPT !.ack = ack, !.upto = Len(data)]

\* The constructor of a slave, and what a SYN that comes again does to it.
NewSlave(p) == New("Connected", 1, p.seq)
SynAtSlave(p) == [end["s"] EXCEPT !.ackNr = p.seq]

\* A SYN makes the slave, or is fed to the one that is there.
OnSyn(p) ==
    LET s == IF end["s"].state = "Listening" THEN NewSlave(p) ELSE SynAtSlave(p)
    IN /\ p.type = "SYN" /\ end["s"].state \in {"Listening", "Connected"}
       /\ end' = [end EXCEPT !["s"] = s]
       /\ net' = Handled(p, {AckOf("s", p.seq, received["s"])})
       /\ UNCHANGED <<sent, received, heard>>

\* The answer to the SYN.
OnSynAck(p) ==
    /\ p.type = "STATE" /\ p.to = "c" /\ end["c"].state = "Connecting"
    /\ end' = [end EXCEPT !["c"].state = "Connected", !["c"].ackNr = Seq16(p.seq - 1)]
    /\ net' = Handled(p, {}) /\ UNCHANGED <<sent, received, heard>>

--------------------------------------------------------------------------------
(* Sending, acknowledging and sending again. *)

\* sendPacket() for DATA and FIN: it stays in sendQueue and takes a number.
Queued(e, p) ==
    [end[e] EXCEPT !.seqNr = Seq16(@ + 1), !.sendQueue = Append(@, [packet |-> p, transmitCount |-> 1])]

Send(e) ==
    LET chunk == Len(sent[e]) + 1
        p == Datagram(e, "DATA", end[e].seqNr, chunk)
    IN /\ e \in Senders /\ end[e].state = "Connected" /\ Len(sent[e]) < MaxData
       /\ e = "s" => ServerFirst \/ received["s"] # <<>>
       /\ end' = [end EXCEPT ![e] = Queued(e, p)]
       /\ sent' = [sent EXCEPT ![e] = Append(@, chunk)]
       /\ net' = net \cup {p} /\ UNCHANGED <<received, heard>>

\* ackPackets(): the front of sendQueue up to the acknowledged number.
AckPackets(q, ack) ==
    LET kept == {i \in DOMAIN q : SeqDiff(ack, q[i].packet.seq) < 0}
    IN IF kept = {} THEN <<>> ELSE SubSeq(q, CHOOSE i \in kept : \A j \in kept : i <= j, Len(q))

\* handleDatagram(): the acknowledgement counts unless it is behind this end's
\* own ackNr, a number of the other direction.
Acked(e, p) ==
    IF SeqDiff(p.ack, end[e].ackNr) >= 0 THEN AckPackets(end[e].sendQueue, p.ack) ELSE end[e].sendQueue

\* Mutant: a packet that is sent again is not counted.
Uncounted(entry) == entry
\* flushOutgoing(): pkt.transmitCount++.
Counted(entry) == [entry EXCEPT !.transmitCount = @ + 1]

\* flushOutgoing() finds packet i late: it is sent again as it was, or the stream
\* is given up.
Retransmit(e, i) ==
    LET entry == Counted(end[e].sendQueue[i])
    IN /\ Live(e)
       /\ IF entry.transmitCount > MaxTransmit
          THEN end' = [end EXCEPT ![e].state = "Closed"] /\ UNCHANGED net
          ELSE end' = [end EXCEPT ![e].sendQueue[i] = entry] /\ net' = net \cup {entry.packet}
       /\ UNCHANGED <<sent, received, heard>>

--------------------------------------------------------------------------------
(* Receiving. *)

\* The packets of outOfOrder that follow seq without a gap.
FollowUps(e, seq) ==
    LET early == end[e].outOfOrder
        Has(n) == \A i \in 1..n : \E x \in early : x.seq = Seq16(seq + i)
        n == CHOOSE n \in 0..Cardinality(early) : Has(n) /\ (n = Cardinality(early) \/ ~Has(n + 1))
    IN [i \in 1..n |-> CHOOSE x \in early : x.seq = Seq16(seq + i)]

\* What a run of packets brings into the receiving buffer: a FIN has no payload.
Payloads(run) ==
    LET upTo[i \in 0..Len(run)] ==
            IF i = 0 THEN <<>>
            ELSE IF run[i].chunk > 0 THEN Append(upTo[i - 1], run[i].chunk) ELSE upTo[i - 1]
    IN  upTo[Len(run)]

\* Mutant: a packet that was received before is not recognised.
TakesOld(e, p) == SeqDiff(p.seq, Seq16(end[e].ackNr + 1)) <= 0
\* hdr.seqNr == expected.
InOrder(e, p) == p.seq = Seq16(end[e].ackNr + 1)
Ahead(e, p) == SeqDiff(p.seq, Seq16(end[e].ackNr + 1)) > 0

Hears(e, p) == heard' = [heard EXCEPT ![e] = IF p.upto > @ THEN p.upto ELSE @]

\* handleDatagram() for ST_STATE of a connected stream.
OnState(e, p) ==
    /\ p.type = "STATE" /\ end[e].state = "Connected"
    /\ end' = [end EXCEPT ![e].sendQueue = Acked(e, p)]
    /\ net' = Handled(p, {}) /\ Hears(e, p) /\ UNCHANGED <<sent, received>>

\* handleDatagram() for ST_DATA and ST_FIN: in order, with what waited for it;
\* ahead; or old, which is acknowledged once more when it has a payload.
OnData(e, p) ==
    LET x == [seq |-> p.seq, chunk |-> p.chunk]
        run == <<x>> \o FollowUps(e, p.seq)
        data == Payloads(run)
        me == [end[e] EXCEPT !.sendQueue = Acked(e, p), !.finReceived = @ \/ p.type = "FIN"]
    IN /\ p.type \in {"DATA", "FIN"} /\ Live(e)
       /\ \/ /\ InOrder(e, p)
             /\ end' = [end EXCEPT ![e] = [me EXCEPT
                   !.ackNr = run[Len(run)].seq,
                   !.outOfOrder = {y \in @ : \A i \in 2..Len(run) : y.seq # run[i].seq}]]
             /\ received' = [received EXCEPT ![e] = @ \o data]
             /\ net' = Handled(p, {AckOf(e, run[Len(run)].seq, received[e] \o data)})
          \/ /\ ~InOrder(e, p) /\ Ahead(e, p)
             /\ end' = [end EXCEPT ![e] = [me EXCEPT
                   !.outOfOrder = {y \in @ : y.seq # p.seq} \cup {x}]]
             /\ net' = Handled(p, {AckOf(e, me.ackNr, received[e])}) /\ UNCHANGED received
          \/ /\ ~InOrder(e, p) /\ ~Ahead(e, p)
             /\ end' = [end EXCEPT ![e] = me]
             /\ net' = Handled(p, IF p.chunk > 0 THEN {AckOf(e, me.ackNr, received[e])} ELSE {})
             /\ UNCHANGED received
       /\ Hears(e, p) /\ UNCHANGED sent

--------------------------------------------------------------------------------
(* Closing. *)

\* close(): a FIN is sent once and never again; what is in sendQueue is given up.
Close(e) ==
    LET p == Datagram(e, "FIN", end[e].seqNr, 0)
    IN /\ Live(e)
       /\ end' = [end EXCEPT ![e] = [Queued(e, p) EXCEPT !.state = "Closed"]]
       /\ net' = net \cup {p} /\ UNCHANGED <<sent, received, heard>>

\* abort(), the idle timeout, the deadline of connect().
AbortStream(e) ==
    /\ Live(e) /\ end' = [end EXCEPT ![e].state = "Closed"]
    /\ UNCHANGED <<sent, received, heard, net>>

Retransmits(e) == \E i \in DOMAIN end[e].sendQueue : Retransmit(e, i)
Next ==
    \/ \E syn \in SynSeqs : Connect(syn)
    \/ SynAgain
    \/ \E p \in net : Lose(p) \/ OnSyn(p) \/ OnSynAck(p) \/ OnState(p.to, p) \/ OnData(p.to, p)
    \/ \E e \in Ends : Send(e) \/ Retransmits(e) \/ Close(e) \/ AbortStream(e)

Spec == Init /\ [][Next]_vars

\* doUpdate() runs every 50 ms as long as the stream lives; the network owes
\* nothing.
FairSpec == Spec /\ \A e \in Ends : WF_vars(Retransmits(e))

--------------------------------------------------------------------------------
(* Properties. *)

Up == INSTANCE ByteStream WITH sent <- sent["c"], received <- received["s"]
Down == INSTANCE ByteStream WITH sent <- sent["s"], received <- received["c"]

\* "one reliable byte stream per session" (docs/references.rst:4654): received
\* is always a prefix of sent, and grows only, in each direction.  The network
\* loses, duplicates and reorders what follows the handshake; it holds when
\* the SYN is not repeated needlessly (Prompt, and no "SYN" in Dups) and the
\* client speaks first (~ServerFirst).
ReliableStream == Up!Spec /\ Down!Spec

\* ackPackets() drops a packet of data only when the peer has received it, also
\* when acknowledgements are late or the sequence numbers wrap.
OnlyReceivedLeave ==
    \A e \in Ends : \A n \in DOMAIN sent[e] :
        \/ n <= Len(received[Peer(e)])
        \/ \E i \in DOMAIN end[e].sendQueue : end[e].sendQueue[i].packet.chunk = n

\* A packet is not sent again and again for ever: sendQueue is emptied or the
\* stream is given up.
TransfersEnd == \A e \in Ends : end[e].sendQueue # <<>> ~> (end[e].sendQueue = <<>> \/ ~Live(e))

\* An acknowledgement that arrives takes the packet out of sendQueue, so that it
\* is not sent again until the retransmit limit closes the stream.
AckedPacketsLeave ==
    \A e \in Ends : \A i \in DOMAIN end[e].sendQueue :
        end[e].sendQueue[i].packet.chunk \notin 1..heard[e]
=================================================================================
