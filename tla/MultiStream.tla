------------------------------ MODULE MultiStream ------------------------------
(***************************************************************************)
(* One stream of a MultiStream connection (src/multi_stream.cpp): the      *)
(* slave at each end, the credit that flows between them, the coroutines   *)
(* doSend and doReceive of the two masters, and the connection, which is   *)
(* reliable and ordered until one end aborts it.  doKeepalive appears only *)
(* as one of the reasons for an abort: its packets are ignored.            *)
(*                                                                         *)
(* A slave is in its master's map exactly while its error is NoError       *)
(* (open): every path that sets the one clears the other before it blocks. *)
(* Coroutines block in creditEvent.tryWait() ("credit"), sendingQueue.put()*)
(* ("put"), done->tryWait() ("wait") and receivingQueue.get() ("get"), the *)
(* sending one in sendall().                                               *)
(***************************************************************************)
EXTENDS Naturals, Sequences, FiniteSets

CONSTANTS Writers, Readers,  \* coroutines that call sendPacket(), recvPacket()
          EndOf,             \* the end whose slave each of them uses
          Sizes,             \* sizes of packets
          Modes,             \* "async", "nowait" (waitSent = false), "wait"
          RecvCap, SendCap,  \* _slaveReceivingCapacity, _slaveSendingCapacity
          NewCaps,           \* arguments of setReceivingCapacity()
          Threshold,         \* max(WindowUpdateMinBytes, capacity / 8)
          Batch,             \* frames that fit into one sendall()
          WireCap,           \* frames one direction of the connection buffers
          MaxSends,          \* bound: packets of one writer
          MaxInputs          \* bound: close(), aborts, setReceivingCapacity()

ASSUME MultiStreamAssumption ==
    /\ {RecvCap, SendCap, Threshold, Batch, WireCap} \subseteq Nat \ {0}
    /\ Sizes \subseteq Nat \ {0} /\ NewCaps \subseteq Nat
    /\ Modes \subseteq {"async", "nowait", "wait"} /\ {"nobody", "closer"} \cap Writers = {}
    /\ EndOf \in [Writers \cup Readers -> {"a", "b"}] /\ IsFiniteSet(Readers)

VARIABLES slave,    \* MultiStreamSlavePrivate, one at each end
          cmd,      \* commandQueue
          tx,       \* doSend(): what is still to be written, the whole batch
          wire,     \* frames from this end that the peer has not read
          down,     \* the master's error is set
          writer, reader, closer,
          got,      \* history: packets recvPacket() returned
          queued,   \* history: packets queued before the close barrier
          inputs
vars == <<slave, cmd, tx, wire, down, writer, reader, closer, got, queued, inputs>>
calls == <<writer, reader, closer>>

Ends == {"a", "b"}  \* a makes the stream, b takes it
Peer(e) == IF e = "a" THEN "b" ELSE "a"

\* A frame: arg is the size of the data, the credit, or the reset code; by names
\* the call whose ValueEvent it completes (nobody: no event).
Frame(type, arg, by, n) == [type |-> type, arg |-> arg, by |-> by, n |-> n]
Command(type, arg) == Frame(type, arg, "nobody", 0)
Barrier == Frame("BARRIER", 1, "closer", 0)
Pill == Frame("PILL", 0, "nobody", 0)
RESET(code) == Command("RESET", code)

\* The sum of arg over the frames of q whose type is among types.
Bytes(q, types) ==
    LET upTo[i \in 0..Len(q)] ==
            IF i = 0 THEN 0 ELSE upTo[i - 1] + IF q[i].type \in types THEN q[i].arg ELSE 0
    IN  upTo[Len(q)]
\* The packets among the frames of q, in their order.
Packets(q) ==
    LET upTo[i \in 0..Len(q)] ==
            IF i = 0 THEN <<>> ELSE IF q[i].type = "DATA" THEN Append(upTo[i - 1], q[i].n) ELSE upTo[i - 1]
    IN  upTo[Len(q)]
\* size() of a slave's queue.
Size(q) == Bytes(q, {"DATA", "BARRIER"})

NoSlave == [is |-> "none", taken |-> FALSE, closing |-> FALSE, credit |-> 0, pending |-> 0,
            event |-> FALSE, cap |-> RecvCap, recvQ |-> <<>>, sendQ |-> <<>>]
Open(s) == s.is = "open"
Ended(s) == s.is \notin {"none", "open"}
Idle == [todo |-> <<>>, all |-> <<>>]

Init ==
    /\ slave = [e \in Ends |-> NoSlave] /\ cmd = [e \in Ends |-> <<>>]
    /\ tx = [e \in Ends |-> Idle] /\ wire = [e \in Ends |-> <<>>] /\ down = [e \in Ends |-> FALSE]
    /\ writer = [w \in Writers |-> [at |-> "idle", n |-> 0, size |-> 0, mode |-> "wait", done |-> "unset"]]
    /\ reader = [r \in Readers |-> "idle"] /\ closer = [e \in Ends |-> [at |-> "idle", done |-> FALSE]]
    /\ got = [e \in Ends |-> <<>>] /\ queued = [e \in Ends |-> <<>>] /\ inputs = 0

Input == inputs < MaxInputs /\ inputs' = inputs + 1

--------------------------------------------------------------------------------
(* What several handlers share. *)

ReadersIn(e) == {r \in Readers : EndOf[r] = e /\ reader[r] = "get"}

\* Mutant: finish() drops what was received and not read.
PillsOnly(e, q) == [i \in 1..Cardinality(ReadersIn(e)) |-> Pill]
\* Mutant: finish() leaves the receivers asleep.
WakeNobody(e, q) == q
\* wakeReceivers(): an empty packet for each active receiver, after the data.
WakeReceivers(e, q) == q \o [i \in 1..Cardinality(ReadersIn(e)) |-> Pill]

\* finish(): error and master are set, receivers and senders are woken; the
\* queued packets stay or go.
Finish(e, s, reason, discard) ==
    [s EXCEPT !.is = reason, !.closing = FALSE, !.event = TRUE,
              !.recvQ = WakeReceivers(e, @), !.sendQ = IF discard THEN <<>> ELSE @]

\* done->send(value) for the packets of q.
TellWriters(q, value) ==
    [w \in Writers |-> IF \E i \in DOMAIN q : q[i].by = w
                       THEN [writer[w] EXCEPT !.done = value] ELSE writer[w]]
HasBarrier(q) == \E i \in DOMAIN q : q[i].type = "BARRIER"
\* Mutant: the ValueEvent of close() is set by the written barrier only.
ForgetCloser(e) == closer
\* finish(), cleanSendingQueue(): closeDone is completed whether the barrier is
\* still queued or close() has not even queued it.
TellCloser(e) == [closer EXCEPT ![e].done = TRUE]

\* finish() with discardPendingSends, after whatever else the handler did to s.
Discard(e, s, reason) ==
    /\ slave' = [slave EXCEPT ![e] = Finish(e, s, reason, TRUE)]
    /\ writer' = TellWriters(s.sendQ, "false") /\ closer' = TellCloser(e)

--------------------------------------------------------------------------------
(* The application: making, taking, sending, closing, receiving. *)

MakeSlave ==
    /\ slave["a"].is = "none" /\ ~down["a"]
    /\ slave' = [slave EXCEPT !["a"] = [NoSlave EXCEPT !.is = "open", !.taken = TRUE]]
    /\ cmd' = [cmd EXCEPT !["a"] = Append(@, Command("MAKE", RecvCap))]
    /\ UNCHANGED <<tx, wire, down, calls, got, queued, inputs>>

\* takeSlave(): also a slave that the peer has closed meanwhile.
TakeSlave ==
    /\ slave["b"].is # "none" /\ ~slave["b"].taken /\ ~down["b"]
    /\ slave' = [slave EXCEPT !["b"].taken = TRUE]
    /\ UNCHANGED <<cmd, tx, wire, down, calls, got, queued, inputs>>

HasRoom(s) == Size(s.sendQ) < SendCap

\* sendingQueue gets a packet, which counts as queued unless it comes after the
\* barrier or into a slave that has ended.
Push(e, s, f) ==
    /\ slave' = [slave EXCEPT ![e] = [s EXCEPT !.sendQ = Append(@, f)]]
    /\ queued' = IF Open(s) /\ ~HasBarrier(s.sendQ) /\ f.type = "DATA"
                 THEN [queued EXCEPT ![e] = Append(@, f.n)] ELSE queued

\* enqueueSlavePacket() for writer w, whose call is c.
Enqueue(w, s, c) ==
    LET f == Frame("DATA", c.size, IF c.mode = "wait" THEN w ELSE "nobody", <<w, c.n>>)
    IN IF c.mode = "async" \/ HasRoom(s)
       THEN /\ Push(EndOf[w], s, f)
            /\ writer' = [writer EXCEPT ![w] = [c EXCEPT !.at = IF c.mode = "wait" THEN "wait" ELSE "idle"]]
       ELSE /\ slave' = [slave EXCEPT ![EndOf[w]] = s]
            /\ writer' = [writer EXCEPT ![w] = [c EXCEPT !.at = "put"]] /\ UNCHANGED queued

\* Mutant: the credit of a packet is checked and not used up.
KeepCredit(s, bytes) == s
\* sendPacketRaw(): sendCredit -= bytes.
UseCredit(s, bytes) == [s EXCEPT !.credit = @ - bytes]

\* sendPacket(), sendPacketAsync() up to where they block; a call that returns
\* false at once changes nothing.
SendPacket(w, size, mode) ==
    LET s == slave[EndOf[w]]
        c == [at |-> "credit", n |-> writer[w].n + 1, size |-> size, mode |-> mode, done |-> "unset"]
    IN /\ writer[w].at = "idle" /\ writer[w].n < MaxSends
       /\ s.taken /\ Open(s) /\ ~s.closing
       /\ \/ s.credit >= size /\ Enqueue(w, UseCredit(s, size), c)
          \/ /\ s.credit < size /\ mode # "async"
             /\ slave' = [slave EXCEPT ![EndOf[w]].event = FALSE]
             /\ writer' = [writer EXCEPT ![w] = c] /\ UNCHANGED queued
       /\ UNCHANGED <<cmd, tx, wire, down, reader, closer, got, inputs>>

\* waitForSendCredit() goes on: with credit enough it does not look at closing
\* and error any more.
CreditWake(w) ==
    LET s == slave[EndOf[w]]
        c == writer[w]
    IN /\ c.at = "credit" /\ s.event
       /\ \/ s.credit >= c.size /\ Enqueue(w, UseCredit(s, c.size), c)
          \/ /\ s.credit < c.size /\ (s.closing \/ ~Open(s))
             /\ writer' = [writer EXCEPT ![w].at = "idle"] /\ UNCHANGED <<slave, queued>>
          \/ /\ s.credit < c.size /\ ~s.closing /\ Open(s)
             /\ slave' = [slave EXCEPT ![EndOf[w]].event = FALSE] /\ UNCHANGED <<writer, queued>>
       /\ UNCHANGED <<cmd, tx, wire, down, reader, closer, got, inputs>>

\* sendingQueue.put() goes on, also into a slave that ended meanwhile.
PutGoesOn(w) ==
    /\ writer[w].at = "put" /\ HasRoom(slave[EndOf[w]])
    /\ Enqueue(w, slave[EndOf[w]], writer[w])
    /\ UNCHANGED <<cmd, tx, wire, down, reader, closer, got, inputs>>

\* done->tryWait() returns; releaseSendCredit() when the packet was not sent.
SendReturns(w) ==
    LET c == writer[w]
    IN /\ c.at = "wait" /\ c.done # "unset"
       /\ writer' = [writer EXCEPT ![w].at = "idle"]
       /\ slave' = IF c.done = "true" THEN slave
                   ELSE [slave EXCEPT ![EndOf[w]].credit = @ + c.size, ![EndOf[w]].event = TRUE]
       /\ UNCHANGED <<cmd, tx, wire, down, reader, closer, got, queued, inputs>>

\* close(): the barrier goes behind what is queued, or waits for room.
Close(e) ==
    LET s == [slave[e] EXCEPT !.closing = TRUE]
    IN /\ Input /\ closer[e].at = "idle" /\ s.taken /\ Open(s)
       /\ IF HasRoom(s) THEN Push(e, s, Barrier) ELSE slave' = [slave EXCEPT ![e] = s] /\ UNCHANGED queued
       /\ closer' = [closer EXCEPT ![e].at = IF HasRoom(s) THEN "wait" ELSE "put"]
       /\ UNCHANGED <<cmd, tx, wire, down, writer, reader, got>>

ClosePuts(e) ==
    /\ closer[e].at = "put" /\ HasRoom(slave[e])
    /\ Push(e, slave[e], Barrier) /\ closer' = [closer EXCEPT ![e].at = "wait"]
    /\ UNCHANGED <<cmd, tx, wire, down, writer, reader, got, inputs>>

CloseReturns(e) ==
    /\ closer[e].at = "wait" /\ closer[e].done
    /\ closer' = [closer EXCEPT ![e].at = "back"]
    /\ UNCHANGED <<slave, cmd, tx, wire, down, writer, reader, got, queued, inputs>>

\* MultiStreamSlave::abort(), also from its destructor: cleanSlave() sends RESET.
AbortSlave(e) ==
    /\ Input /\ slave[e].taken /\ Open(slave[e])
    /\ Discard(e, slave[e], "aborted")
    /\ cmd' = [cmd EXCEPT ![e] = Append(@, RESET(1))]
    /\ UNCHANGED <<tx, wire, down, reader, got, queued>>

\* recvPacket() finds nothing and blocks.
RecvBlocks(r) ==
    LET s == slave[EndOf[r]]
    IN /\ reader[r] = "idle" /\ s.taken /\ Open(s) /\ s.recvQ = <<>>
       /\ reader' = [reader EXCEPT ![r] = "get"]
       /\ UNCHANGED <<slave, cmd, tx, wire, down, writer, closer, got, queued, inputs>>

\* Mutant: credit goes back by the threshold only.
ReturnsByThreshold(s) == s.pending >= Threshold
\* maybeSendWindowUpdate(): enough was read, or nothing is left to read.
ReturnsCredit(s) == s.pending >= Threshold \/ s.recvQ = <<>>

\* recvPacket() gets a packet and maybeSendWindowUpdate() runs, or an empty one.
RecvPacket(r) ==
    LET e == EndOf[r]
        f == Head(slave[e].recvQ)
        s == [slave[e] EXCEPT !.recvQ = Tail(@), !.pending = IF Open(slave[e]) THEN @ + f.arg ELSE @]
    IN /\ slave[e].taken /\ slave[e].recvQ # <<>>
       /\ reader' = [reader EXCEPT ![r] = "idle"]
       /\ got' = IF f.type = "PILL" THEN got ELSE [got EXCEPT ![e] = Append(@, f.n)]
       /\ IF Open(s) /\ ReturnsCredit(s)
          THEN /\ slave' = [slave EXCEPT ![e] = [s EXCEPT !.pending = 0]]
               /\ cmd' = [cmd EXCEPT ![e] = Append(@, Command("WINDOW", s.pending))]
          ELSE slave' = [slave EXCEPT ![e] = s] /\ UNCHANGED cmd
       /\ UNCHANGED <<tx, wire, down, writer, closer, queued, inputs>>

\* setReceivingCapacity(): growing gives the difference to the peer, shrinking
\* takes nothing back.
SetReceivingCapacity(e, bytes) ==
    LET s == slave[e]
    IN /\ Input /\ s.taken /\ bytes # s.cap
       /\ slave' = [slave EXCEPT ![e].cap = bytes]
       /\ cmd' = IF bytes > s.cap /\ Open(s)
                 THEN [cmd EXCEPT ![e] = Append(@, Command("WINDOW", bytes - s.cap))] ELSE cmd
       /\ UNCHANGED <<tx, wire, down, calls, got, queued>>

--------------------------------------------------------------------------------
(* The masters. *)

\* What findNextSlaveWithData() still finds: nothing after a barrier, because
\* processCloseBarrier() takes the slave out of the map.
Sendable(s) ==
    LET stops == {i \in DOMAIN s.sendQ : s.sendQ[i].type = "BARRIER"}
    IN IF ~Open(s) THEN <<>>
       ELSE IF stops = {} THEN s.sendQ ELSE SubSeq(s.sendQ, 1, CHOOSE i \in stops : \A j \in stops : i <= j)

\* doSend(): commands first, then the packets of the slave.
Pending(e) == cmd[e] \o Sendable(slave[e])

\* doSend() fills buf.  A barrier becomes a RESET and ends the slave at once.
FillBatch(e) ==
    LET n == IF Len(Pending(e)) < Batch THEN Len(Pending(e)) ELSE Batch
        c == IF n < Len(cmd[e]) THEN n ELSE Len(cmd[e])
        batch == SubSeq(Pending(e), 1, n)
        s == [slave[e] EXCEPT !.sendQ = SubSeq(@, n - c + 1, Len(@))]
    IN /\ ~down[e] /\ tx[e] = Idle /\ n > 0
       /\ tx' = [tx EXCEPT ![e] = [todo |-> batch, all |-> batch]]
       /\ cmd' = [cmd EXCEPT ![e] = SubSeq(@, c + 1, Len(@))]
       /\ slave' = [slave EXCEPT ![e] = IF HasBarrier(batch) THEN Finish(e, s, "closed", FALSE) ELSE s]
       /\ UNCHANGED <<wire, down, calls, got, queued, inputs>>

\* sendall() writes a frame; after the last one the ValueEvents are told.
WriteFrame(e) ==
    LET f == Head(tx[e].todo)
        last == Len(tx[e].todo) = 1
    IN /\ ~down[e] /\ tx[e] # Idle /\ Len(wire[e]) < WireCap
       /\ wire' = [wire EXCEPT ![e] = Append(@, IF f.type = "BARRIER" THEN RESET(0) ELSE f)]
       /\ tx' = [tx EXCEPT ![e] = IF last THEN Idle ELSE [todo |-> Tail(@.todo), all |-> @.all]]
       /\ writer' = IF last THEN TellWriters(tx[e].all, "true") ELSE writer
       /\ closer' = IF last /\ HasBarrier(tx[e].all) THEN [closer EXCEPT ![e].done = TRUE] ELSE closer
       /\ UNCHANGED <<slave, cmd, down, reader, got, queued, inputs>>

\* doReceive() reads the frame f of the peer.
Reads(e, type) == ~down[e] /\ wire[Peer(e)] # <<>> /\ Head(wire[Peer(e)]).type = type
Incoming(e) == Head(wire[Peer(e)])
Consume(e) == wire' = [wire EXCEPT ![Peer(e)] = Tail(@)]

\* handleIncomingPacket(): receivingQueue.put() blocks while it is full; a
\* packet of a slave that has ended is dropped.
OnData(e) ==
    LET s == slave[e]
    IN /\ Reads(e, "DATA") /\ Consume(e)
       /\ Open(s) => Size(s.recvQ) < s.cap
       /\ slave' = IF Open(s) THEN [slave EXCEPT ![e].recvQ = Append(@, Incoming(e))] ELSE slave
       /\ UNCHANGED <<cmd, tx, down, calls, got, queued, inputs>>

\* handleCommand(), MAKE_SLAVE_REQUEST.
OnMake(e) ==
    /\ Reads(e, "MAKE") /\ Consume(e)
    /\ slave' = [slave EXCEPT ![e] = [NoSlave EXCEPT !.is = "open", !.credit = Incoming(e).arg, !.event = TRUE]]
    /\ cmd' = [cmd EXCEPT ![e] = Append(@, Command("MADE", RecvCap))]
    /\ UNCHANGED <<tx, down, calls, got, queued, inputs>>

\* SLAVE_MADE_REQUEST: a slave that is gone by now is refused.
OnMade(e) ==
    /\ Reads(e, "MADE") /\ Consume(e)
    /\ IF Open(slave[e])
       THEN slave' = [slave EXCEPT ![e].credit = Incoming(e).arg, ![e].event = TRUE] /\ UNCHANGED cmd
       ELSE cmd' = [cmd EXCEPT ![e] = Append(@, RESET(3))] /\ UNCHANGED slave
    /\ UNCHANGED <<tx, down, calls, got, queued, inputs>>

\* RESET_SLAVE_REQUEST.
OnReset(e) ==
    /\ Reads(e, "RESET") /\ Consume(e)
    /\ IF Open(slave[e])
       THEN Discard(e, slave[e], IF Incoming(e).arg = 0 THEN "normal" ELSE "reset")
       ELSE UNCHANGED <<slave, writer, closer>>
    /\ UNCHANGED <<cmd, tx, down, reader, got, queued, inputs>>

\* Mutant: addSendCredit() replaces the credit.
SetCredit(s, credit) == [s EXCEPT !.credit = credit, !.event = TRUE]
AddSendCredit(s, credit) == [s EXCEPT !.credit = @ + credit, !.event = TRUE]

\* WINDOW_UPDATE_REQUEST.
OnWindow(e) ==
    /\ Reads(e, "WINDOW") /\ Consume(e)
    /\ slave' = IF Open(slave[e]) THEN [slave EXCEPT ![e] = AddSendCredit(@, Incoming(e).arg)] ELSE slave
    /\ UNCHANGED <<cmd, tx, down, calls, got, queued, inputs>>

\* MultiStreamMasterPrivate::abort(): the coroutines are killed, the batch of
\* doSend() fails, the slave ends without a RESET.
Abort(e) ==
    LET open == Open(slave[e])
        told == tx[e].all \o IF open THEN slave[e].sendQ ELSE <<>>
    IN /\ ~down[e] /\ down' = [down EXCEPT ![e] = TRUE]
       /\ cmd' = [cmd EXCEPT ![e] = <<>>] /\ tx' = [tx EXCEPT ![e] = Idle]
       /\ slave' = IF open THEN [slave EXCEPT ![e] = Finish(e, @, "broken", TRUE)] ELSE slave
       /\ writer' = TellWriters(told, "false")
       /\ closer' = IF open \/ HasBarrier(told) THEN TellCloser(e) ELSE closer
       /\ UNCHANGED <<wire, reader, got, queued>>

\* abort() of the application, a keepalive timeout, a bad packet; and what the
\* other end sees of it.
MasterAborts(e) == Input /\ Abort(e)
PeerGone(e) == down[Peer(e)] /\ Abort(e) /\ UNCHANGED inputs

--------------------------------------------------------------------------------
Receive(e) ==
    \/ OnData(e) \/ OnMake(e) \/ OnMade(e) \/ OnReset(e) \/ OnWindow(e)
WriterStep(w) == CreditWake(w) \/ PutGoesOn(w) \/ SendReturns(w)
ReaderStep(r) == RecvBlocks(r) \/ RecvPacket(r)
CloserStep(e) == ClosePuts(e) \/ CloseReturns(e)

Next ==
    \/ MakeSlave \/ TakeSlave
    \/ \E w \in Writers : WriterStep(w) \/ \E size \in Sizes, mode \in Modes : SendPacket(w, size, mode)
    \/ \E r \in Readers : ReaderStep(r)
    \/ \E e \in Ends : \/ Close(e) \/ CloserStep(e) \/ AbortSlave(e)
                       \/ \E bytes \in NewCaps : SetReceivingCapacity(e, bytes)
                       \/ FillBatch(e) \/ WriteFrame(e) \/ Receive(e)
                       \/ MasterAborts(e) \/ PeerGone(e)

Spec == Init /\ [][Next]_vars

\* The event loop runs every coroutine that can go on; the application takes the
\* slave it is offered and keeps reading from it.
FairSpec ==
    /\ Spec /\ WF_vars(TakeSlave)
    /\ \A w \in Writers : WF_vars(WriterStep(w))
    /\ \A r \in Readers : WF_vars(ReaderStep(r))
    /\ \A e \in Ends : /\ WF_vars(CloserStep(e)) /\ WF_vars(FillBatch(e)) /\ WF_vars(WriteFrame(e))
                       /\ WF_vars(Receive(e)) /\ WF_vars(PeerGone(e))

--------------------------------------------------------------------------------
(* Properties. *)

Frames == [type : {"MAKE", "MADE", "WINDOW", "RESET", "DATA", "BARRIER", "PILL"}, arg : Nat,
           by : Writers \cup {"nobody", "closer"}, n : {0} \cup (Writers \X Nat)]
SlaveType ==
    [is : {"none", "open", "aborted", "closed", "normal", "reset", "broken"}, taken : BOOLEAN,
     closing : BOOLEAN, credit : Nat, pending : Nat, event : BOOLEAN, cap : Nat,
     recvQ : Seq(Frames), sendQ : Seq(Frames)]
WriterType ==
    [at : {"idle", "credit", "put", "wait"}, n : Nat, size : Nat, mode : {"async", "nowait", "wait"},
     done : {"unset", "true", "false"}]

TypeOK ==
    /\ slave \in [Ends -> SlaveType]
    /\ cmd \in [Ends -> Seq(Frames)] /\ wire \in [Ends -> Seq(Frames)]
    /\ tx \in [Ends -> [todo : Seq(Frames), all : Seq(Frames)]]
    /\ down \in [Ends -> BOOLEAN]
    /\ writer \in [Writers -> WriterType] /\ reader \in [Readers -> {"idle", "get"}]
    /\ closer \in [Ends -> [at : {"idle", "put", "wait", "back"}, done : BOOLEAN]]
    /\ got \in [Ends -> Seq({0} \cup (Writers \X Nat))]
    /\ queued \in [Ends -> Seq({0} \cup (Writers \X Nat))]

Data(q) == Bytes(q, {"DATA"})
Grants(q) == Bytes(q, {"MAKE", "MADE", "WINDOW"})

\* What each writer of e is blocked with in put(), and the bytes of all of them.
Blocked(e) == [w \in Writers |-> IF EndOf[w] = e /\ writer[w].at = "put" THEN writer[w].size ELSE 0]
BytesOf(f) == UNION {{w} \X (1..f[w]) : w \in Writers}

\* While both slaves are open no byte of credit is lost or made up: what the
\* sender may still use, what is queued, written or received and not read, and
\* what is on its way back add up to the capacity the receiver has announced.
CreditConserved ==
    \A e \in Ends : LET p == Peer(e)
                        s == slave[e]
                        t == slave[p]
                    IN Open(s) /\ Open(t) =>
        s.credit + Cardinality(BytesOf(Blocked(e))) + Data(s.sendQ) + Data(tx[e].todo) + Data(wire[e])
          + Size(t.recvQ) + t.pending + Grants(cmd[p]) + Grants(tx[p].todo) + Grants(wire[p]) = t.cap

\* doReceive() never blocks in receivingQueue.put(): a slave whose application
\* does not read cannot hold up the other streams and the commands behind it.
ReceiveNeverBlocks ==
    \A e \in Ends : Reads(e, "DATA") /\ Open(slave[e]) => Size(slave[e].recvQ) < slave[e].cap

\* "so the peer receives all prior data first": when the RESET of close() ends a
\* slave, the application has read or can still read every packet that was queued
\* before the barrier, in the order of the queue, whoever else closes or aborts.
CloseDeliversAll ==
    \A e \in Ends : slave[e].is = "normal" => got[e] \o Packets(slave[e].recvQ) = queued[Peer(e)]

\* A receiver that sleeps in recvPacket() when its slave ends finds an empty
\* packet (with one receiver: a second one may take it away).
ReceiversAreTold ==
    \A e \in Ends : Ended(slave[e]) /\ ReadersIn(e) # {} => slave[e].recvQ # <<>>

\* A sender that waits for credit gets it, or is told that the stream has ended,
\* as long as the peer's application reads.
SendersGetOn == \A w \in Writers : writer[w].at = "credit" ~> writer[w].at # "credit"

\* close() returns, whatever the peer does, unless senders that were blocked in
\* put() fill the queue of the slave again after it ended.
CloseEnds ==
    \A e \in Ends : closer[e].at \in {"put", "wait"}
        ~> closer[e].at = "back" \/ (Ended(slave[e]) /\ ~HasRoom(slave[e]))
=================================================================================
