---------------------------------- MODULE Mqtt ----------------------------------
(***************************************************************************)
(* MqttClient (src/mqtt.cpp): the calls of the application, the three      *)
(* coroutines send, receive and keepalive, the two bounded queues between  *)
(* them, and the broker at the other end of a TCP connection.              *)
(*                                                                         *)
(* One thread: a coroutine runs until it blocks, which it does in          *)
(* sendingQueue.put() (putting), sendall() (tx), receivingQueue.put()      *)
(* (rx), done->tryWait() and recv().  A packet carries the call whose      *)
(* ValueEvent it completes; on the wire that field is only a name.         *)
(***************************************************************************)
EXTENDS Naturals, Sequences, FiniteSets

CONSTANTS Calls,      \* calls of publish(), subscribe(), ..., one each
          Receivers,  \* coroutines that call recv()
          Inbound,    \* messages the broker publishes, also their packet ids
          Ops,        \* what the calls do, of Requests
          MaxId,      \* stands for 65535
          SendCap, RecvCap,  \* sendingQueueCapacity, receivingQueueCapacity
          WireCap,    \* packets one direction of the connection buffers
          KeepAlive,  \* keepAliveMs in ticks of doKeepalive(); 0: there is none
          MaxInputs   \* bound: calls, published messages, packets the broker
                      \* sends again and failures in one behaviour

Requests == {"PUBLISH0", "PUBLISH1", "PUBLISH2", "SUBSCRIBE", "UNSUBSCRIBE"}

ASSUME MqttAssumption ==
    /\ {MaxId, SendCap, RecvCap, WireCap, MaxInputs} \subseteq Nat \ {0} /\ KeepAlive \in Nat
    /\ Ops \subseteq Requests
    /\ {"nobody", "receive", "keepalive"} \cap Calls = {}

VARIABLES
    state, nextId, waiters, incomingQos2, awaitingPingResp,
    sending, receiving,  \* sendingQueue, receivingQueue
    putting,    \* the packet a coroutine is blocked with in sendingQueue.put()
    tx,         \* the packet doSend() is in sendall() with
    rx,         \* what doReceive() is blocked with in receivingQueue.put()
    quiet,      \* ticks since lastOutboundTimestamp
    keepalive,  \* doKeepalive() has not returned
    call,       \* the calls: where they are, what they do
    done,       \* their ValueEvents
    recv,       \* receivers blocked in recv()
    delivered,  \* every message put into receivingQueue so far
    toBroker, toClient, broker

client == <<nextId, waiters, incomingQos2, awaitingPingResp, quiet, keepalive>>
queues == <<sending, receiving, putting, tx, rx, delivered>>
wire == <<toBroker, toClient, broker>>
vars == <<state, client, queues, call, done, recv, wire>>

None == [type |-> "none", id |-> 0, done |-> "nobody"]
Packet(type, id, c) == [type |-> type, id |-> id, done |-> c]
Empty == "empty"  \* the MqttMessage() that abort() puts into receivingQueue

\* The map a sent packet's waiter is in, by the answer that completes it.
AnswerTo == [PUBLISH1 |-> "PUBACK", PUBLISH2 |-> "PUBREC",
             SUBSCRIBE |-> "SUBACK", UNSUBSCRIBE |-> "UNSUBACK"]
Owners == Calls \cup {"receive", "keepalive"}

Init ==
    /\ state = "Connecting" /\ nextId = 1 /\ waiters = {} /\ incomingQos2 = {}
    /\ awaitingPingResp = FALSE /\ quiet = 0 /\ keepalive = FALSE
    /\ sending = <<>> /\ receiving = <<>> /\ delivered = <<>>
    /\ putting = [o \in Owners |-> None] /\ tx = None /\ rx = <<>>
    /\ call = [c \in Calls |-> [at |-> "idle", op |-> "none", sync |-> FALSE]]
    /\ done = [c \in Calls |-> "unset"]
    /\ recv = {}
    /\ toBroker = <<>> /\ toClient = <<>>
    /\ broker \in [up : {TRUE}, mute : {FALSE}, taken : {{}}, written : {{}}, dups : {0}, failures : {0},
                   msg : [Inbound -> {"new"}], qos : [Inbound -> 0..2]]

\* A call, a message or a failure may come from outside.
Input == broker.failures + broker.dups + Cardinality({m \in Inbound : broker.msg[m] # "new"})
           + Cardinality({c \in Calls : call[c].at # "idle"}) < MaxInputs

--------------------------------------------------------------------------------
(* Helpers of the client. *)

\* nextPacketId(): 0xffff is followed by 1.
NextPacketId == IF nextId = MaxId THEN 1 ELSE nextId + 1

\* waiters[packetId] = done: an older entry of that id is gone.
Register(ws, answer, id, c) ==
    {w \in ws : ~(w.answer = answer /\ w.id = id)}
      \cup {[answer |-> answer, id |-> id, done |-> c]}

\* done->send(value) on the ValueEvents of a set of calls.
SendTo(d, cs, value) == [c \in Calls |-> IF c \in cs THEN value ELSE d[c]]
WaitingFor(answer, id) == {w \in waiters : w.answer = answer /\ w.id = id}
DoneOf(ws) == {w.done : w \in ws}

\* sendingQueue.put(): append, or block the caller while the queue is full.
Put(o, p) ==
    IF Len(sending) < SendCap
    THEN sending' = Append(sending, p) /\ UNCHANGED putting
    ELSE putting' = [putting EXCEPT ![o] = p] /\ UNCHANGED sending

\* Mutant: the map of QoS 2 publishes whose PUBREL is out is forgotten.
FailsAllButComp == {w \in waiters : w.answer # "PUBCOMP"}
\* failAllWaiters(): every map is emptied, every ValueEvent gets false.
FailAllWaiters == waiters

\* Mutant: a receiver that sleeps in recv() is not told.
PoisonNobody == receiving
\* abort(): receivingQueue.putForcedly(MqttMessage()).
Poison == Append(receiving, Empty)

\* abort() once the client is open: the waiters fail, the receiver is woken and
\* the coroutines are killed where they block.  Calls that block in
\* sendingQueue.put() stay there.  connection->abort() drops what is under way;
\* what still reaches the broker is of no consequence for the client.
Abort(d) ==
    /\ state' = "Closed"
    /\ done' = SendTo(d, DoneOf(FailAllWaiters), "false")
    /\ waiters' = waiters \ FailAllWaiters
    /\ receiving' = Poison
    /\ putting' = [putting EXCEPT !["receive"] = None, !["keepalive"] = None]
    /\ tx' = None /\ rx' = <<>> /\ keepalive' = FALSE
    /\ toBroker' = <<>> /\ toClient' = <<>> /\ broker' = [broker EXCEPT !.up = FALSE]
    /\ UNCHANGED <<nextId, incomingQos2, awaitingPingResp, quiet, sending, delivered>>

--------------------------------------------------------------------------------
(* The application's calls. *)

\* The constructor: CONNECT is answered by CONNACK and the coroutines start, or
\* the client is aborted.
Handshake ==
    /\ state = "Connecting"
    /\ \/ /\ state' = "Connected" /\ keepalive' = (KeepAlive > 0)
          /\ UNCHANGED <<nextId, waiters, incomingQos2, awaitingPingResp, quiet, queues, done, wire>>
       \/ Abort(done)
    /\ UNCHANGED <<call, recv>>

At(c, where) == call' = [call EXCEPT ![c].at = where]
Enter(c, op, sync, where) ==
    call' = [call EXCEPT ![c] = [at |-> where, op |-> op, sync |-> sync]]

\* A call that is refused: not connected, or (after nextPacketId()) a bad or
\* too long message.
Refused(c) ==
    /\ call[c].at = "idle" /\ state # "Connecting" /\ Input
    /\ nextId' \in IF state = "Connected" THEN {nextId, NextPacketId} ELSE {nextId}
    /\ Enter(c, "none", TRUE, "returned")
    /\ done' = [done EXCEPT ![c] = "false"]
    /\ UNCHANGED <<state, waiters, incomingQos2, awaitingPingResp, quiet, keepalive,
                   queues, recv, wire>>

\* publish(), publishAsync(), subscribe(), unsubscribe(): the waiter is
\* registered before the packet is queued.
Request(c, op, sync) ==
    /\ call[c].at = "idle" /\ state = "Connected" /\ Input
    /\ sync \/ op \in {"PUBLISH0", "PUBLISH1", "PUBLISH2"}
    /\ LET id == IF op = "PUBLISH0" THEN 0 ELSE nextId
           who == IF sync THEN c ELSE "nobody"
       IN /\ nextId' = IF op = "PUBLISH0" THEN nextId ELSE NextPacketId
          /\ waiters' = IF op = "PUBLISH0" THEN waiters
                        ELSE Register(waiters, AnswerTo[op], id, who)
          /\ Put(c, Packet(op, id, who))
    /\ Enter(c, op, sync, IF Len(sending) >= SendCap THEN "put"
                          ELSE IF sync THEN "wait" ELSE "returned")
    /\ UNCHANGED <<state, incomingQos2, awaitingPingResp, quiet, keepalive,
                   receiving, tx, rx, delivered, done, recv, wire>>

\* A coroutine blocked in sendingQueue.put() finds room.  doKeepalive() then looks
\* at the state and goes on or returns.
PutGoesOn(o) ==
    /\ putting[o] # None /\ Len(sending) < SendCap
    /\ sending' = Append(sending, putting[o])
    /\ putting' = [putting EXCEPT ![o] = None]
    /\ IF o \in Calls THEN At(o, IF call[o].sync THEN "wait" ELSE "returned")
                      ELSE UNCHANGED call
    /\ keepalive' = IF o = "keepalive" THEN state = "Connected" ELSE keepalive
    /\ UNCHANGED <<state, nextId, waiters, incomingQos2, awaitingPingResp, quiet,
                   receiving, tx, rx, delivered, done, recv, wire>>

\* done->tryWait() returns.
WaitReturns(c) ==
    /\ call[c].at = "wait" /\ call[c].op # "DISCONNECT"
    /\ done[c] # "unset"
    /\ At(c, "returned")
    /\ UNCHANGED <<state, client, queues, done, recv, wire>>

\* disconnect(): DISCONNECT is queued and waited for, if only for
\* connectTimeout, and the client aborted; abort() does so at once.
Disconnect(c) ==
    /\ call[c].at = "idle" /\ state = "Connected" /\ Input
    /\ state' = "Disconnecting"
    /\ Put(c, Packet("DISCONNECT", 0, c))
    /\ Enter(c, "DISCONNECT", TRUE, IF Len(sending) >= SendCap THEN "put" ELSE "wait")
    /\ UNCHANGED <<client, receiving, tx, rx, delivered, done, recv, wire>>

UserShutdown(c) ==
    /\ Enter(c, "DISCONNECT", TRUE, "returned")
    /\ IF state # "Closed" THEN Abort(done)
                           ELSE UNCHANGED <<state, client, queues, done, wire>>
    /\ UNCHANGED recv

AbortCall(c) == call[c].at = "idle" /\ state # "Connecting" /\ Input /\ UserShutdown(c)
DisconnectEnds(c) == call[c].at = "wait" /\ call[c].op = "DISCONNECT" /\ UserShutdown(c)

\* MqttClient::recv() returns, or waits for receivingQueue.
Recv(r) ==
    /\ state # "Connecting"
    /\ IF receiving # <<>>
       THEN receiving' = Tail(receiving) /\ recv' = recv \ {r}
       ELSE r \notin recv /\ state = "Connected"
            /\ recv' = recv \cup {r} /\ UNCHANGED receiving
    /\ UNCHANGED <<state, client, sending, putting, tx, rx, delivered, call, done, wire>>

--------------------------------------------------------------------------------
(* The coroutines. *)

Running == state \in {"Connected", "Disconnecting"}

\* doSend() takes a packet ...
SendTake ==
    /\ Running /\ tx = None /\ sending # <<>>
    /\ tx' = Head(sending) /\ sending' = Tail(sending)
    /\ UNCHANGED <<state, client, receiving, putting, rx, delivered, call, done, recv, wire>>

\* Mutant: a QoS 2 publish counts as done once it is written.
WritePublishes(p) == p.type \in {"PUBLISH0", "PUBLISH2", "DISCONNECT"}
\* The packets whose ValueEvent is set when they are written.
WriteCompletes(p) == p.type \in {"PUBLISH0", "DISCONNECT"}

\* ... writes it, and tells a call that waits for no more than that ...
SendWrite ==
    /\ Running /\ tx # None /\ broker.up /\ Len(toBroker) < WireCap
    /\ toBroker' = Append(toBroker, tx)
    /\ broker' = [broker EXCEPT !.written = @ \cup ({tx.done} \cap Calls)]
    /\ done' = SendTo(done, IF WriteCompletes(tx) THEN {tx.done} ELSE {}, "true")
    /\ tx' = None /\ quiet' = 0
    /\ UNCHANGED <<state, nextId, waiters, incomingQos2, awaitingPingResp, keepalive,
                   sending, receiving, putting, rx, delivered, call, recv, toClient>>

\* ... or cannot, and aborts.
SendFails ==
    /\ Running /\ tx # None /\ ~broker.up
    /\ Abort(SendTo(done, {tx.done}, "false"))
    /\ UNCHANGED <<call, recv>>

\* doKeepalive() wakes up: PINGREQ is due, or PINGRESP is overdue.  The state is
\* looked at after that, when put() has returned: a client that disconnects has no
\* keepalive any more.
KeepaliveTick ==
    LET now == IF quiet > KeepAlive THEN quiet ELSE quiet + 1
    IN /\ keepalive /\ putting["keepalive"] = None
       /\ IF awaitingPingResp /\ now > KeepAlive
          THEN Abort(done)
          ELSE /\ quiet' = now
               /\ IF ~awaitingPingResp /\ now >= KeepAlive
                  THEN /\ awaitingPingResp' = TRUE
                       /\ Put("keepalive", Packet("PINGREQ", 0, "nobody"))
                       /\ keepalive' = (Len(sending) >= SendCap \/ state = "Connected")
                  ELSE /\ keepalive' = (state = "Connected")
                       /\ UNCHANGED <<awaitingPingResp, sending, putting>>
               /\ UNCHANGED <<state, nextId, waiters, incomingQos2, receiving, tx, rx,
                              delivered, done, wire>>
       /\ UNCHANGED <<call, recv>>

\* Mutant: the stored QoS 2 message is not erased when it is delivered.
StoredAgain(m) == incomingQos2
\* incomingQos2.erase() after receivingQueue.put().
Erased(m) == incomingQos2 \ {m}

Reply(p) == IF p = None THEN UNCHANGED <<sending, putting>> ELSE Put("receive", p)

\* receivingQueue.put(m) has room; what follows is the answer.
Delivers(m, answer) ==
    /\ receiving' = Append(receiving, m) /\ delivered' = Append(delivered, m)
    /\ incomingQos2' = Erased(m)
    /\ Reply(answer)
    /\ rx' = <<>>

Deliver(m, answer) ==
    IF Len(receiving) < RecvCap THEN Delivers(m, answer)
    ELSE /\ rx' = <<m, answer>>
         /\ UNCHANGED <<receiving, delivered, incomingQos2, sending, putting>>

\* doReceive() blocked in receivingQueue.put() finds room.
DeliverGoesOn ==
    /\ rx # <<>> /\ Len(receiving) < RecvCap
    /\ Delivers(rx[1], rx[2])
    /\ UNCHANGED <<state, nextId, waiters, awaitingPingResp, quiet, keepalive, tx, call,
                   done, recv, wire>>

Incoming(type) ==
    /\ Running /\ rx = <<>> /\ putting["receive"] = None
    /\ toClient # <<>> /\ Head(toClient).type = type
    /\ toClient' = Tail(toClient)
    /\ UNCHANGED <<nextId, quiet, call, recv, toBroker, broker>>

\* handleIncoming(): PUBLISH, by QoS.
OnPublish ==
    /\ Incoming("PUBLISH")
    /\ LET m == Head(toClient).id
       IN CASE broker.qos[m] = 0 -> Deliver(m, None)
            [] broker.qos[m] = 1 -> Deliver(m, Packet("PUBACK", m, "nobody"))
            [] broker.qos[m] = 2 ->
                 /\ incomingQos2' = incomingQos2 \cup {m}
                 /\ Put("receive", Packet("PUBREC", m, "nobody"))
                 /\ UNCHANGED <<receiving, delivered, rx>>
    /\ UNCHANGED <<state, waiters, awaitingPingResp, keepalive, tx, done>>

\* PUBREL: the stored message is delivered, a second one only answered.
OnPubRel ==
    /\ Incoming("PUBREL")
    /\ LET m == Head(toClient).id
           comp == Packet("PUBCOMP", m, "nobody")
       IN IF m \in incomingQos2 THEN Deliver(m, comp)
          ELSE Put("receive", comp) /\ UNCHANGED <<incomingQos2, receiving, delivered, rx>>
    /\ UNCHANGED <<state, waiters, awaitingPingResp, keepalive, tx, done>>

\* PUBACK, PUBCOMP, SUBACK, UNSUBACK: completeWaiter().  0x80 in a SUBACK says no.
OnAnswer(type) ==
    /\ Incoming(type)
    /\ LET ws == WaitingFor(type, Head(toClient).id)
       IN /\ waiters' = waiters \ ws
          /\ done' = SendTo(done, DoneOf(ws), IF Head(toClient).done = "refused" THEN "false" ELSE "true")
    /\ UNCHANGED <<state, incomingQos2, awaitingPingResp, keepalive, queues>>

\* PUBREC: the waiter moves on to PUBCOMP and PUBREL is queued, unless the client
\* is disconnecting.
OnPubRec ==
    /\ Incoming("PUBREC")
    /\ LET id == Head(toClient).id
           ws == WaitingFor("PUBREC", id)
           rest == waiters \ ws
       IN IF ws = {} THEN UNCHANGED <<waiters, sending, putting, done>>
          ELSE \E w \in ws :
               IF state = "Connected"
               THEN /\ waiters' = Register(rest, "PUBCOMP", id, w.done)
                    /\ Put("receive", Packet("PUBREL", id, w.done))
                    /\ UNCHANGED done
               ELSE /\ waiters' = {v \in rest : ~(v.answer = "PUBCOMP" /\ v.id = id)}
                    /\ done' = SendTo(done, {w.done}, "false")
                    /\ UNCHANGED <<sending, putting>>
    /\ UNCHANGED <<state, incomingQos2, awaitingPingResp, keepalive, receiving, tx, rx, delivered>>

OnPingResp ==
    /\ Incoming("PINGRESP")
    /\ awaitingPingResp' = FALSE
    /\ UNCHANGED <<state, waiters, incomingQos2, keepalive, queues, done>>

\* doReceive() aborts: the connection is closed, or a packet is malformed, of a
\* wrong type or too large.
ReceiveFails ==
    /\ Running /\ rx = <<>> /\ putting["receive"] = None
    /\ IF toClient = <<>> THEN ~broker.up ELSE Head(toClient).type = "BAD"
    /\ Abort(done)
    /\ UNCHANGED <<call, recv>>

--------------------------------------------------------------------------------
(* The broker (external), as the client relies on it, and its failures. *)

Answers(p) ==
    CASE p.type = "PUBLISH1" -> {Packet("PUBACK", p.id, "ok")}
      [] p.type = "PUBLISH2" -> {Packet("PUBREC", p.id, "ok")}
      [] p.type = "PUBREL" -> {Packet("PUBCOMP", p.id, "ok")}
      [] p.type = "SUBSCRIBE" -> {Packet("SUBACK", p.id, "ok"), Packet("SUBACK", p.id, "refused")}
      [] p.type = "UNSUBSCRIBE" -> {Packet("UNSUBACK", p.id, "ok")}
      [] p.type = "PINGREQ" -> {Packet("PINGRESP", 0, "ok")}
      [] p.type = "PUBREC" -> {Packet("PUBREL", p.id, "ok")}
      [] OTHER -> {None}

BrokerTakes ==
    /\ broker.up /\ ~broker.mute /\ toBroker # <<>>
    /\ LET p == Head(toBroker)
           told == [PUBREC |-> "rec", PUBACK |-> "done", PUBCOMP |-> "done"]
       IN /\ \E a \in Answers(p) :
                toClient' = IF a = None THEN toClient ELSE Append(toClient, a)
          /\ broker' = [broker EXCEPT
                !.up = p.type # "DISCONNECT",
                !.taken = @ \cup ({p.done} \cap Calls),
                !.msg = IF p.type \in DOMAIN told /\ @[p.id] # "done"
                        THEN [@ EXCEPT ![p.id] = told[p.type]] ELSE @]
    /\ toBroker' = Tail(toBroker)
    /\ UNCHANGED <<state, client, queues, call, done, recv>>

\* A message is published, or its PUBLISH or PUBREL is sent once more.
BrokerPublishes(m) ==
    /\ broker.up /\ ~broker.mute /\ Running /\ Input /\ Len(toClient) < WireCap
    /\ \/ broker.msg[m] = "new"
       \/ broker.qos[m] > 0 /\ broker.msg[m] \in {"sent", "rec"}
    /\ toClient' = Append(toClient, Packet(IF broker.msg[m] = "rec" THEN "PUBREL" ELSE "PUBLISH", m, "ok"))
    /\ broker' = [broker EXCEPT !.dups = IF broker.msg[m] = "new" THEN @ ELSE @ + 1,
                                !.msg[m] = IF @ = "new" THEN "sent" ELSE @]
    /\ UNCHANGED <<state, client, queues, call, done, recv, toBroker>>

\* The connection breaks; the broker stops answering; it sends nonsense.
BrokerFails ==
    /\ broker.up /\ ~broker.mute /\ Running /\ Input
    /\ \/ broker' = [broker EXCEPT !.up = FALSE, !.failures = 1] /\ UNCHANGED toClient
       \/ broker' = [broker EXCEPT !.mute = TRUE, !.failures = 1] /\ UNCHANGED toClient
       \/ /\ broker' = [broker EXCEPT !.mute = TRUE, !.failures = 1]
          /\ toClient' = Append(toClient, Packet("BAD", 0, "ok"))
    /\ UNCHANGED <<state, client, queues, call, done, recv, toBroker>>

--------------------------------------------------------------------------------
Client ==
    \/ Handshake
    \/ \E c \in Calls : \/ Refused(c) \/ \E op \in Ops, sync \in BOOLEAN : Request(c, op, sync)
                        \/ WaitReturns(c) \/ Disconnect(c) \/ AbortCall(c) \/ DisconnectEnds(c)
    \/ \E o \in Owners : PutGoesOn(o)
    \/ \E r \in Receivers : Recv(r)
    \/ SendTake \/ SendWrite \/ SendFails \/ KeepaliveTick \/ DeliverGoesOn
    \/ OnPublish \/ OnPubRel \/ OnPubRec \/ OnPingResp \/ ReceiveFails
    \/ \E type \in {"PUBACK", "PUBCOMP", "SUBACK", "UNSUBACK"} : OnAnswer(type)

Next == Client \/ BrokerTakes \/ BrokerFails \/ \E m \in Inbound : BrokerPublishes(m)

Spec == Init /\ [][Next]_vars

\* The event loop runs every coroutine that can go on, the application keeps
\* calling recv(), and a broker that is not mute reads what it is sent.
FairSpec ==
    /\ Spec
    /\ WF_vars(SendTake) /\ WF_vars(SendWrite) /\ WF_vars(SendFails) /\ WF_vars(KeepaliveTick)
    /\ WF_vars(DeliverGoesOn \/ OnPublish \/ OnPubRel \/ OnPubRec \/ OnPingResp \/ ReceiveFails
               \/ \E type \in {"PUBACK", "PUBCOMP", "SUBACK", "UNSUBACK"} : OnAnswer(type))
    /\ WF_vars(BrokerTakes)
    /\ \A o \in Owners : WF_vars(PutGoesOn(o))
    /\ \A c \in Calls : WF_vars(WaitReturns(c) \/ DisconnectEnds(c))
    /\ \A r \in Receivers : WF_vars(Recv(r))

--------------------------------------------------------------------------------
(* Properties. *)

Times(m) == Cardinality({i \in DOMAIN delivered : delivered[i] = m})

\* A message that handleIncoming() answers with PUBACK or PUBCOMP, after which
\* the broker forgets it, has been put into receivingQueue; one of QoS 2 at most
\* once, however often PUBLISH and PUBREL are sent again.
Delivery ==
    \A m \in Inbound :
        /\ \E p \in {tx} \cup {putting[o] : o \in Owners}
                  \cup {sending[i] : i \in DOMAIN sending} \cup {toBroker[i] : i \in DOMAIN toBroker} :
              p.id = m /\ p.type \in {"PUBACK", "PUBCOMP"}
           => Times(m) >= 1
        /\ broker.qos[m] = 2 => Times(m) <= 1

\* A call that is told true was written (QoS 0, DISCONNECT) or taken by the broker.
TrueMeansTaken ==
    \A c \in Calls : done[c] = "true" =>
        c \in IF call[c].op \in {"PUBLISH0", "DISCONNECT"} THEN broker.written ELSE broker.taken

\* A call whose ValueEvent is not set yet is still in one of the maps that
\* failAllWaiters() and handleIncoming() complete, and a closed client has no
\* such call: nobody waits in done->tryWait() for an answer that cannot come.
NobodyWaitsUnseen ==
    /\ \A c \in Calls : (/\ call[c].at = "wait" /\ done[c] = "unset"
                         /\ call[c].op \notin {"PUBLISH0", "DISCONNECT"})
                           => c \in DoneOf(waiters)
    /\ state = "Closed" => waiters = {}

\* docs/references.rst:4154 on recv(): "Returns an empty message when the
\* connection is closed."  A receiver that sleeps in recv() when the client is
\* closed finds the empty message of abort(); it leaves one, for one receiver.
ReceiverIsTold == state = "Closed" /\ recv # {} => receiving # <<>>

\* A call blocked in sendingQueue.put() with its DISCONNECT.
DisconnectStuck == \E c \in Calls : call[c].at = "put" /\ call[c].op = "DISCONNECT"

\* With a keepalive, a call that waits for an acknowledgement returns, also when
\* the broker is silent (doKeepalive() aborts) or the connection breaks.  A full
\* sendingQueue can keep it from returning in two ways: doKeepalive() is stuck in
\* put() itself, or it has returned because disconnect() changed the state and is
\* stuck there.
AcknowledgedCallsEnd ==
    \A c \in Calls : (KeepAlive > 0 /\ call[c].at = "wait" /\ call[c].op # "PUBLISH0")
                        ~> (call[c].at = "returned" \/ putting["keepalive"] # None \/ DisconnectStuck)
=================================================================================
