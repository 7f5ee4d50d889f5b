------------------------------- MODULE MqttProofs -------------------------------
(***************************************************************************)
(* Proofs about Mqtt, for any number of calls, receivers and messages, any *)
(* sizes of the queues and any number of failures and repetitions.         *)
(*                                                                         *)
(* The messages of the broker and the calls of the application share the   *)
(* queues and the connection but not the ids, so there are two invariants: *)
(* MessagesInv follows a message from its PUBLISH to its last              *)
(* acknowledgement, ExchangeInv a call from its packet id to its answer.   *)
(* nextPacketId() does not look which ids are in use.  What the second     *)
(* says is therefore proved for behaviours in which the id a call takes is *)
(* not in use (FreshIds), and it is proved that this is so as long as      *)
(* there are not more calls than ids (FewCalls).                           *)
(***************************************************************************)
EXTENDS Mqtt, SequenceTheorems, FiniteSetTheorems, TLAPS

--------------------------------------------------------------------------------
(* What the variables hold. *)

Ids == (0..MaxId) \cup Inbound
Tokens == Calls \cup {"nobody", "ok", "refused"}
Types == {"PUBLISH0", "PUBLISH1", "PUBLISH2", "SUBSCRIBE", "UNSUBSCRIBE", "DISCONNECT",
          "PUBLISH", "PUBACK", "PUBREC", "PUBREL", "PUBCOMP", "SUBACK", "UNSUBACK",
          "PINGREQ", "PINGRESP", "BAD", "none"}
Packets == [type : Types, id : Ids, done : Tokens]
Waiters == [answer : {"PUBACK", "PUBREC", "PUBCOMP", "SUBACK", "UNSUBACK"}, id : 0..MaxId, done : Calls \cup {"nobody"}]
States == {"Connecting", "Connected", "Disconnecting", "Closed"}

ClientTyped ==
    /\ state \in States /\ nextId \in 1..MaxId /\ waiters \in SUBSET Waiters
    /\ incomingQos2 \in SUBSET Inbound
    /\ awaitingPingResp \in BOOLEAN /\ quiet \in Nat /\ keepalive \in BOOLEAN
QueuesTyped ==
    /\ sending \in Seq(Packets) /\ receiving \in Seq(Inbound \cup {Empty})
    /\ putting \in [Owners -> Packets] /\ tx \in Packets
    /\ rx \in {<<>>} \cup (Inbound \X Packets)
    /\ delivered \in Seq(Inbound)
CallsTyped ==
    /\ call \in [Calls -> [at : {"idle", "put", "wait", "returned"}, op : Requests \cup {"DISCONNECT", "none"}, sync : BOOLEAN]]
    /\ done \in [Calls -> {"unset", "true", "false"}]
    /\ recv \in SUBSET Receivers
BrokerSet == [up : BOOLEAN, mute : BOOLEAN, taken : SUBSET Calls, written : SUBSET Calls,
              dups : Nat, failures : Nat,
              msg : [Inbound -> {"new", "sent", "rec", "done"}], qos : [Inbound -> 0..2]]
WireTyped ==
    /\ toBroker \in Seq(Packets) /\ toClient \in Seq(Packets)
    /\ broker \in BrokerSet
TypeOK == ClientTyped /\ QueuesTyped /\ CallsTyped /\ WireTyped

\* The packets the client has yet to get across, with the empty slots.
Out == {tx} \cup {putting[o] : o \in Owners}
         \cup {sending[i] : i \in DOMAIN sending} \cup {toBroker[i] : i \in DOMAIN toBroker}
\* The packets on their way to the client.
In == {toClient[i] : i \in DOMAIN toClient}

\* The outgoing packets that answer the broker bear the id of a message, the
\* answers of the broker an id of the client.
Acks == {"PUBREC", "PUBACK", "PUBCOMP"}
Asks == DOMAIN AnswerTo \cup {"PUBREL"}
Replies == {"PUBACK", "PUBREC", "PUBCOMP", "SUBACK", "UNSUBACK"}
GoodOut(p) == /\ p.type \in Acks => p.id \in Inbound
              /\ p.type \in Asks => p.id \in 0..MaxId
              /\ p.done \in Calls \cup {"nobody"}
GoodIn(a) == /\ a.type \in {"PUBLISH", "PUBREL"} => a.id \in Inbound
             /\ a.type \in Replies => a.id \in 0..MaxId
IdsApart == (\A p \in Out : GoodOut(p)) /\ (\A a \in In : GoodIn(a))

--------------------------------------------------------------------------------
(* Messages of the broker. *)

Delivered(m) == \E i \in DOMAIN delivered : delivered[i] = m
Holding(m) == rx # <<>> /\ rx[1] = m
OutAck(m, ts) == \E p \in Out : p.id = m /\ p.type \in ts
InMsg(m, t) == \E a \in In : a.id = m /\ a.type = t
Late == {"rec", "done"}

\* A message whose PUBREC was sent is stored until it is delivered.
Stored(m) == (OutAck(m, {"PUBREC"}) \/ InMsg(m, "PUBREL") \/ broker.msg[m] = "rec")
                 => m \in incomingQos2 \/ Delivered(m)
ReleaseLast(s, m) ==
    \A i, j \in DOMAIN s : (/\ s[i].id = m /\ s[i].type = "PUBREL"
                            /\ s[j].id = m /\ s[j].type = "PUBLISH") => j < i
\* The broker asks for the release of a message after it sent it the last time.
Released(m) == (InMsg(m, "PUBREL") => broker.msg[m] \in Late) /\ ReleaseLast(toClient, m)
\* A message of QoS 2 that is on its way into receivingQueue, or was put there,
\* is not sent any more, and is stored no longer than that.
Once(m) == broker.qos[m] = 2 =>
    /\ Delivered(m) \/ Holding(m) => broker.msg[m] \in Late /\ ~InMsg(m, "PUBLISH")
    /\ Delivered(m) => m \notin incomingQos2
    /\ Holding(m) => m \in incomingQos2
    /\ \A i, j \in DOMAIN delivered : delivered[i] = m /\ delivered[j] = m => i = j
\* What is answered was delivered.
Answered(m) == OutAck(m, {"PUBACK", "PUBCOMP"}) => Delivered(m)
HeldAnswer ==
    rx # <<>> => rx[2] = None \/ (rx[2].id = rx[1] /\ rx[2].type \in {"PUBACK", "PUBCOMP"}
                                  /\ rx[2].done = "nobody")
MessageInv(m) == Stored(m) /\ Released(m) /\ Once(m) /\ Answered(m)
DeliveryInv == HeldAnswer /\ \A m \in Inbound : MessageInv(m)

--------------------------------------------------------------------------------
(* The calls. *)

\* The ids of the exchanges that are under way.
IdsInUse == {w.id : w \in waiters} \cup {p.id : p \in {q \in Out : q.type \in Asks}}
              \cup {a.id : a \in {b \in In : b.type \in Replies}}
\* A call takes an id that is not in use (nextPacketId() does not look).
FreshIds == \A c \in Calls :
    call[c].at = "idle" /\ call'[c].op \in DOMAIN AnswerTo => nextId \notin IdsInUse

Confirmed == DOMAIN AnswerTo
\* Who waits for an answer is in a map, and a call is in putting where it blocks.
MustWait(c) == /\ call[c].at \in {"put", "wait"} /\ call[c].sync /\ done[c] = "unset"
               /\ call[c].op \in Confirmed
SeenCall(c) ==
    /\ MustWait(c) => c \in DoneOf(waiters)
    /\ call[c].at = "wait" => call[c].sync
    /\ putting[c] # None => call[c].at = "put"
    /\ call[c].op = "none" => done[c] # "unset" \/ call[c].at = "idle"
Seen == (\A c \in Calls : SeenCall(c)) /\ (state = "Closed" => waiters = {})
\* One id, one exchange: its waiter, its packets, its answers.
OneExchange ==
    /\ \A v, w \in waiters : v.id = w.id => v = w
    /\ \A w \in waiters, p \in Out : p.type \in Asks /\ p.id = w.id => p.done = w.done
    /\ \A w \in waiters, a \in In : a.type \in Replies /\ a.id = w.id /\ w.done \in Calls
                                      => w.done \in broker.taken
\* A token belongs to a call that was made, of that kind.
Named(p) == /\ call[p.done].at # "idle"
            /\ call[p.done].op = p.type \/ (p.type = "PUBREL" /\ call[p.done].op = "PUBLISH2")
Tokened ==
    /\ \A p \in Out : p.done \in Calls => Named(p)
    /\ \A w \in waiters : w.done \in Calls =>
          call[w.done].at # "idle" /\ call[w.done].op \in Confirmed
          /\ (w.answer = "PUBREC" => call[w.done].op = "PUBLISH2")
    /\ \A c \in Calls : done[c] = "true" => call[c].at # "idle"
ExchangeInv == Seen /\ OneExchange /\ Tokened /\ TrueMeansTaken

--------------------------------------------------------------------------------
(* Facts about the helpers. *)

\* What the assumption says of the constants.
LEMMA Bounds ==
    /\ MaxId \in Nat \ {0} /\ SendCap \in Nat /\ RecvCap \in Nat /\ MaxInputs \in Nat
    /\ "nobody" \notin Calls /\ "receive" \notin Calls /\ "keepalive" \notin Calls
    /\ Calls \subseteq Owners /\ "receive" \in Owners /\ "keepalive" \in Owners
BY MqttAssumption DEF Owners

\* An empty slot has the form of a packet.
LEMMA NoneIsPacket == None \in Packets
<1>1. 0 \in Ids /\ "nobody" \in Tokens
  BY Bounds DEF Ids, Tokens
<1>2. "none" \in Types
  BY DEF Types
<1> QED
  BY <1>1, <1>2 DEF None, Packets

\* packet() makes a packet.
LEMMA PacketIsPacket ==
    ASSUME NEW t \in Types, NEW id \in Ids, NEW c \in Tokens
    PROVE  /\ Packet(t, id, c) \in Packets
           /\ Packet(t, id, c).type = t /\ Packet(t, id, c).id = id /\ Packet(t, id, c).done = c
BY DEF Packet, Packets

\* What taking the first packet of a queue leaves.
LEMMA HeadTail ==
    ASSUME NEW S, NEW s \in Seq(S), s # <<>>
    PROVE  /\ Head(s) \in S /\ Tail(s) \in Seq(S) /\ Head(s) = s[1] /\ 1 \in DOMAIN s
           /\ Len(s) \in Nat \ {0} /\ Len(Tail(s)) = Len(s) - 1
           /\ \A i \in DOMAIN Tail(s) : i + 1 \in DOMAIN s /\ Tail(s)[i] = s[i + 1]
OBVIOUS

\* What putting a packet into a queue makes of it.
LEMMA AppendIs ==
    ASSUME NEW S, NEW s \in Seq(S), NEW x \in S
    PROVE  /\ Append(s, x) \in Seq(S) /\ Append(s, x) # <<>> /\ Len(s) \in Nat
           /\ DOMAIN Append(s, x) = 1..(Len(s) + 1) /\ DOMAIN s = 1..Len(s)
           /\ Append(s, x)[Len(s) + 1] = x
           /\ \A i \in DOMAIN s : i \in DOMAIN Append(s, x) /\ Append(s, x)[i] = s[i]
OBVIOUS

Elems(s) == {s[i] : i \in DOMAIN s}

\* The packets of a queue after a put().
LEMMA ElemsAppend ==
    ASSUME NEW S, NEW s \in Seq(S), NEW x \in S
    PROVE  Elems(Append(s, x)) \subseteq Elems(s) \cup {x}
<1>1. ASSUME NEW i \in DOMAIN Append(s, x)
      PROVE  Append(s, x)[i] \in Elems(s) \cup {x}
  <2>1. i \in DOMAIN s \/ i = Len(s) + 1
    BY AppendIs
  <2> QED
    BY <2>1, AppendIs DEF Elems
<1> QED
  BY <1>1 DEF Elems

\* The packets of a queue after a get().
LEMMA ElemsTail ==
    ASSUME NEW S, NEW s \in Seq(S), s # <<>>
    PROVE  Elems(Tail(s)) \subseteq Elems(s) /\ Head(s) \in Elems(s)
BY HeadTail DEF Elems

\* Out and In, as the elements of their queues.
LEMMA ElemsOut ==
    /\ Out = {tx} \cup {putting[o] : o \in Owners} \cup Elems(sending) \cup Elems(toBroker)
    /\ In = Elems(toClient)
BY DEF Out, In, Elems

\* The same after a step.
LEMMA ElemsOutNext ==
    /\ Out' = {tx'} \cup {putting'[o] : o \in Owners} \cup Elems(sending') \cup Elems(toBroker')
    /\ In' = Elems(toClient')
BY DEF Out, In, Elems

\* A queue that was cleared has no packets.
LEMMA ElemsEmpty == Elems(<<>>) = {}
BY DEF Elems

\* The step adds at most p to the packets on their way out.
Adds(p) == Out' \subseteq Out \cup {None, p}

\* sendingQueue.put(), blocked or not, adds just its packet to what is to be sent.
LEMMA PutAdds ==
    ASSUME TypeOK, NEW o \in Owners, NEW p \in Packets, Put(o, p), UNCHANGED <<tx, toBroker>>
    PROVE  /\ Adds(p) /\ sending' \in Seq(Packets) /\ putting' \in [Owners -> Packets]
           /\ \A q \in Owners : putting'[q] = putting[q] \/ (q = o /\ Len(sending) >= SendCap)
<1>1. /\ sending \in Seq(Packets) /\ putting \in [Owners -> Packets] /\ Len(sending) \in Nat
      /\ SendCap \in Nat
  BY Bounds DEF TypeOK, QueuesTyped
<1>2. CASE Len(sending) < SendCap
  <2>1. sending' = Append(sending, p) /\ putting' = putting
    BY <1>2 DEF Put
  <2>2. sending' \in Seq(Packets) /\ Elems(sending') \subseteq Elems(sending) \cup {p}
    BY <1>1, <2>1, AppendIs, ElemsAppend
  <2> QED
    BY <1>1, <2>1, <2>2, ElemsOut, ElemsOutNext DEF Adds
<1>3. CASE ~(Len(sending) < SendCap)
  <2>1. putting' = [putting EXCEPT ![o] = p] /\ sending' = sending
    BY <1>3 DEF Put
  <2>2. /\ putting' \in [Owners -> Packets]
        /\ \A q \in Owners : putting'[q] = IF q = o THEN p ELSE putting[q]
    BY <1>1, <2>1
  <2>3. {putting'[q] : q \in Owners} \subseteq {putting[q] : q \in Owners} \cup {p}
    BY <2>2
  <2> QED
    BY <1>1, <1>3, <2>1, <2>2, <2>3, ElemsOut, ElemsOutNext DEF Adds
<1> QED
  BY <1>2, <1>3

\* What abort() does to each variable.
LEMMA AbortEffect ==
    ASSUME TypeOK, NEW d, Abort(d)
    PROVE  /\ Adds(None) /\ toClient' = <<>> /\ In' = {} /\ waiters' = {} /\ state' = "Closed"
           /\ done' = SendTo(d, DoneOf(waiters), "false")
           /\ putting' \in [Owners -> Packets] /\ receiving' # <<>>
           /\ \A o \in Owners : putting'[o] = putting[o] \/ o \in {"receive", "keepalive"}
           /\ rx' = <<>> /\ tx' = None /\ toBroker' = <<>> /\ keepalive' = FALSE
           /\ broker' = [broker EXCEPT !.up = FALSE]
           /\ UNCHANGED <<nextId, incomingQos2, awaitingPingResp, quiet, sending, delivered>>
<1>1. /\ putting \in [Owners -> Packets] /\ receiving \in Seq(Inbound \cup {Empty})
  BY DEF TypeOK, QueuesTyped
<1>2. /\ putting' \in [Owners -> Packets]
      /\ \A o \in Owners : putting'[o] = IF o \in {"receive", "keepalive"} THEN None ELSE putting[o]
  BY <1>1, NoneIsPacket DEF Abort
<1>3. {putting'[o] : o \in Owners} \subseteq {putting[o] : o \in Owners} \cup {None}
  BY <1>2
<1>4. receiving' = Append(receiving, Empty)
  BY DEF Abort, Poison
<1>5. receiving' # <<>>
  BY <1>1, <1>4, AppendIs
<1>6. /\ tx' = None /\ rx' = <<>> /\ toBroker' = <<>> /\ toClient' = <<>> /\ sending' = sending
      /\ state' = "Closed" /\ done' = SendTo(d, DoneOf(waiters), "false") /\ waiters' = {}
      /\ keepalive' = FALSE /\ broker' = [broker EXCEPT !.up = FALSE]
      /\ UNCHANGED <<nextId, incomingQos2, awaitingPingResp, quiet, sending, delivered>>
  BY DEF Abort, FailAllWaiters
<1>7. Adds(None)
  BY <1>3, <1>6, ElemsOut, ElemsOutNext, ElemsEmpty DEF Adds
<1>8. In' = {}
  BY <1>6, ElemsOutNext, ElemsEmpty
<1> QED
  BY <1>2, <1>5, <1>6, <1>7, <1>8

\* Telling the calls in cs the value v changes nobody else.
LEMMA SendToTyped ==
    ASSUME NEW d, NEW cs, NEW v \in {"unset", "true", "false"},
           \A c \in Calls : d[c] \in {"unset", "true", "false"}
    PROVE  /\ SendTo(d, cs, v) \in [Calls -> {"unset", "true", "false"}]
           /\ \A c \in Calls : SendTo(d, cs, v)[c] = IF c \in cs THEN v ELSE d[c]
BY DEF SendTo

\* Abort() keeps every variable in its type.
LEMMA AbortTyped ==
    ASSUME TypeOK, NEW d, \A c \in Calls : d[c] \in {"unset", "true", "false"}, Abort(d)
    PROVE  /\ ClientTyped' /\ QueuesTyped' /\ WireTyped'
           /\ done' \in [Calls -> {"unset", "true", "false"}]
<1>1. receiving' \in Seq(Inbound \cup {Empty})
  <2>1. receiving \in Seq(Inbound \cup {Empty}) /\ receiving' = Append(receiving, Empty)
    BY DEF TypeOK, QueuesTyped, Abort, Poison
  <2> QED
    BY <2>1
<1>2. done' \in [Calls -> {"unset", "true", "false"}]
  <2>1. done' = SendTo(d, DoneOf(waiters), "false")
    BY AbortEffect
  <2> QED
    BY <2>1, SendToTyped
<1>3. ClientTyped'
  BY AbortEffect DEF TypeOK, ClientTyped, States
<1>4. QueuesTyped'
  BY <1>1, AbortEffect, NoneIsPacket DEF TypeOK, QueuesTyped
<1>5. WireTyped'
  <2>1. toBroker' = <<>> /\ toClient' = <<>> /\ broker' = [broker EXCEPT !.up = FALSE]
    BY AbortEffect
  <2>2. broker' \in BrokerSet
    BY <2>1 DEF TypeOK, WireTyped, BrokerSet
  <2> QED
    BY <2>1, <2>2 DEF WireTyped
<1> QED
  BY <1>2, <1>3, <1>4, <1>5

--------------------------------------------------------------------------------
(* Every step keeps the types. *)

\* The broker's CONNACK, which ends connect() keeps every variable in its type.
LEMMA HandshakeTyped == ASSUME TypeOK, Handshake PROVE TypeOK'
<1>1. CASE Abort(done)
  <2>1. \A c \in Calls : done[c] \in {"unset", "true", "false"}
    BY DEF TypeOK, CallsTyped
  <2> QED
    BY <1>1, <2>1, AbortTyped DEF TypeOK, CallsTyped, Handshake
<1>2. CASE ~Abort(done)
  <2>1. /\ state' = "Connected" /\ keepalive' = (KeepAlive > 0)
        /\ UNCHANGED <<nextId, waiters, incomingQos2, awaitingPingResp, quiet, queues, done, wire, call, recv>>
    BY <1>2 DEF Handshake
  <2> QED
    BY <2>1 DEF TypeOK, ClientTyped, QueuesTyped, CallsTyped, WireTyped, States, queues, wire
<1> QED
  BY <1>1, <1>2

\* A call that begins changes its own record only.
LEMMA EnterTyped ==
    ASSUME TypeOK, NEW c \in Calls, NEW op \in Requests \cup {"DISCONNECT", "none"}, NEW sync \in BOOLEAN,
           NEW where \in {"idle", "put", "wait", "returned"}, Enter(c, op, sync, where)
    PROVE  /\ call' \in [Calls -> [at : {"idle", "put", "wait", "returned"},
                                  op : Requests \cup {"DISCONNECT", "none"}, sync : BOOLEAN]]
           /\ call'[c].at = where /\ call'[c].op = op /\ call'[c].sync = sync
           /\ \A x \in Calls : x # c => call'[x] = call[x]
BY DEF TypeOK, CallsTyped, Enter

\* A call that goes on changes its own place only.
LEMMA AtTyped ==
    ASSUME TypeOK, NEW c \in Calls, NEW where \in {"idle", "put", "wait", "returned"}, At(c, where)
    PROVE  /\ call' \in [Calls -> [at : {"idle", "put", "wait", "returned"},
                                  op : Requests \cup {"DISCONNECT", "none"}, sync : BOOLEAN]]
           /\ call'[c].at = where /\ call'[c].op = call[c].op /\ call'[c].sync = call[c].sync
           /\ \A x \in Calls : x # c => call'[x] = call[x]
BY DEF TypeOK, CallsTyped, At

\* nextPacketId() stays within the ids, 0 left out.
LEMMA NextIdTyped == ASSUME TypeOK PROVE NextPacketId \in 1..MaxId
BY Bounds DEF TypeOK, ClientTyped, NextPacketId

\* A call that the closed client refuses keeps every variable in its type.
LEMMA RefusedTyped == ASSUME TypeOK, NEW c \in Calls, Refused(c) PROVE TypeOK'
<1>1. nextId' \in 1..MaxId
  BY NextIdTyped DEF Refused, TypeOK, ClientTyped
<1>2. CallsTyped'
  BY EnterTyped DEF Refused, TypeOK, CallsTyped
<1> QED
  BY <1>1, <1>2 DEF Refused, TypeOK, ClientTyped, QueuesTyped, WireTyped, queues, wire

\* The entry of a map has the form of a waiter.
LEMMA RegisterTyped ==
    ASSUME NEW ws \in SUBSET Waiters, NEW a \in Replies, NEW id \in 0..MaxId, NEW c \in Calls \cup {"nobody"}
    PROVE  Register(ws, a, id, c) \in SUBSET Waiters
BY DEF Register, Waiters, Replies

\* Every request but PUBLISH with QoS 0 waits for an answer.
LEMMA AnswerToIs ==
    ASSUME NEW op \in Requests, op # "PUBLISH0"
    PROVE  op \in DOMAIN AnswerTo /\ AnswerTo[op] \in Replies /\ op \in Asks /\ op \in Types
BY DEF Requests, AnswerTo, Replies, Asks, Types

\* What a request does, with its packet id and its token.
Asking(c, op, sync, id, who) ==
    /\ id = (IF op = "PUBLISH0" THEN 0 ELSE nextId) /\ who = (IF sync THEN c ELSE "nobody")
    /\ id \in 0..MaxId /\ who \in Calls \cup {"nobody"}
    /\ nextId' = (IF op = "PUBLISH0" THEN nextId ELSE NextPacketId)
    /\ waiters' = (IF op = "PUBLISH0" THEN waiters ELSE Register(waiters, AnswerTo[op], id, who))
    /\ Put(c, Packet(op, id, who))

\* A request, with its id and its token named.
LEMMA RequestAsks ==
    ASSUME TypeOK, NEW c \in Calls, NEW op \in Ops, NEW sync \in BOOLEAN, Request(c, op, sync)
    PROVE  \E id, who : Asking(c, op, sync, id, who)
<1>1. nextId \in 0..MaxId /\ 0 \in 0..MaxId
  BY Bounds DEF TypeOK, ClientTyped
<1> QED
  BY <1>1 DEF Request, Asking

\* Publish(), subscribe() or unsubscribe() up to its put() keeps every variable in
\* its type.
LEMMA RequestTyped ==
    ASSUME TypeOK, NEW c \in Calls, NEW op \in Ops, NEW sync \in BOOLEAN, Request(c, op, sync)
    PROVE  TypeOK'
<1>1. PICK id, who : Asking(c, op, sync, id, who)
  BY RequestAsks
<1>2. op \in Requests /\ op \in Types /\ c \in Owners
  BY MqttAssumption, Bounds DEF Requests, Types
<1>3. Packet(op, id, who) \in Packets
  BY <1>1, <1>2, PacketIsPacket DEF Asking, Ids, Tokens
<1>4. /\ UNCHANGED <<state, incomingQos2, awaitingPingResp, quiet, keepalive, receiving, tx, rx, delivered>>
      /\ UNCHANGED <<done, recv, toBroker, toClient, broker>>
  BY DEF Request, wire
<1>5. sending' \in Seq(Packets) /\ putting' \in [Owners -> Packets]
  BY <1>1, <1>2, <1>3, <1>4, PutAdds DEF Asking
<1>6. waiters' \in SUBSET Waiters
  <2>1. CASE op = "PUBLISH0"
    BY <1>1, <2>1 DEF Asking, TypeOK, ClientTyped
  <2>2. CASE op # "PUBLISH0"
    BY <1>1, <1>2, <2>2, AnswerToIs, RegisterTyped DEF Asking, TypeOK, ClientTyped
  <2> QED
    BY <2>1, <2>2
<1>7. nextId' \in 1..MaxId
  BY <1>1, NextIdTyped DEF Asking, TypeOK, ClientTyped
<1>8. CallsTyped'
  <2>1. PICK where \in {"put", "wait", "returned"} : Enter(c, op, sync, where)
    BY DEF Request
  <2> QED
    BY <1>2, <1>4, <2>1, EnterTyped DEF TypeOK, CallsTyped
<1>9. ClientTyped' /\ QueuesTyped' /\ WireTyped'
  BY <1>4, <1>5, <1>6, <1>7 DEF TypeOK, ClientTyped, QueuesTyped, WireTyped
<1> QED
  BY <1>8, <1>9 DEF TypeOK

\* The return of a blocked sendingQueue.put() keeps every variable in its type.
LEMMA PutGoesOnTyped == ASSUME TypeOK, NEW o \in Owners, PutGoesOn(o) PROVE TypeOK'
<1>1. putting' \in [Owners -> Packets] /\ sending' \in Seq(Packets)
  BY NoneIsPacket DEF PutGoesOn, TypeOK, QueuesTyped
<1>2. CallsTyped'
  <2>1. CASE o \in Calls
    <3>1. PICK where \in {"wait", "returned"} : At(o, where)
      BY <2>1 DEF PutGoesOn
    <3> QED
      BY <2>1, <3>1, AtTyped DEF PutGoesOn, TypeOK, CallsTyped
  <2>2. CASE o \notin Calls
    BY <2>2 DEF PutGoesOn, TypeOK, CallsTyped
  <2> QED
    BY <2>1, <2>2
<1> QED
  BY <1>1, <1>2 DEF PutGoesOn, TypeOK, ClientTyped, QueuesTyped, WireTyped, client, wire

\* The return of done->tryWait() keeps every variable in its type.
LEMMA WaitReturnsTyped == ASSUME TypeOK, NEW c \in Calls, WaitReturns(c) PROVE TypeOK'
<1>1. CallsTyped'
  BY AtTyped DEF WaitReturns, TypeOK, CallsTyped
<1> QED
  BY <1>1 DEF WaitReturns, TypeOK, ClientTyped, QueuesTyped, WireTyped, client, queues, wire

\* A DISCONNECT asks for nothing.
LEMMA DisconnectPacket == ASSUME NEW c \in Calls
    PROVE Packet("DISCONNECT", 0, c) \in Packets /\ Packet("PINGREQ", 0, "nobody") \in Packets
<1>1. {"DISCONNECT", "PINGREQ"} \subseteq Types /\ 0 \in Ids /\ c \in Tokens /\ "nobody" \in Tokens
  BY Bounds DEF Types, Ids, Tokens
<1> QED
  BY <1>1, PacketIsPacket

\* Disconnect() up to its put() keeps every variable in its type.
LEMMA DisconnectTyped == ASSUME TypeOK, NEW c \in Calls, Disconnect(c) PROVE TypeOK'
<1>1. UNCHANGED <<tx, toBroker>> /\ c \in Owners
  BY Bounds DEF Disconnect, wire
<1>2. putting' \in [Owners -> Packets] /\ sending' \in Seq(Packets)
  BY <1>1, PutAdds, DisconnectPacket DEF Disconnect
<1>3. CallsTyped'
  <2>1. PICK where \in {"put", "wait"} : Enter(c, "DISCONNECT", TRUE, where)
    BY DEF Disconnect
  <2> QED
    BY <2>1, EnterTyped DEF Disconnect, TypeOK, CallsTyped
<1> QED
  BY <1>2, <1>3 DEF Disconnect, TypeOK, ClientTyped, QueuesTyped, WireTyped, client, wire, States

\* The rest of disconnect(), which aborts keeps every variable in its type.
LEMMA UserShutdownTyped == ASSUME TypeOK, NEW c \in Calls, UserShutdown(c) PROVE TypeOK'
<1>1. /\ call' \in [Calls -> [at : {"idle", "put", "wait", "returned"},
                              op : Requests \cup {"DISCONNECT", "none"}, sync : BOOLEAN]]
      /\ recv' = recv
  BY EnterTyped DEF UserShutdown
<1>2. CASE state # "Closed"
  <2>1. Abort(done) /\ \A x \in Calls : done[x] \in {"unset", "true", "false"}
    BY <1>2 DEF UserShutdown, TypeOK, CallsTyped
  <2> QED
    BY <1>1, <2>1, AbortTyped DEF TypeOK, CallsTyped
<1>3. CASE state = "Closed"
  <2>1. UNCHANGED <<state, client, queues, done, wire>>
    BY <1>3 DEF UserShutdown
  <2> QED
    BY <1>1, <2>1 DEF TypeOK, ClientTyped, QueuesTyped, WireTyped, CallsTyped, client, queues, wire
<1> QED
  BY <1>2, <1>3

\* Recv() keeps every variable in its type.
LEMMA RecvTyped == ASSUME TypeOK, NEW r \in Receivers, Recv(r) PROVE TypeOK'
<1>1. receiving' \in Seq(Inbound \cup {Empty})
  <2>1. receiving \in Seq(Inbound \cup {Empty})
    BY DEF TypeOK, QueuesTyped
  <2>2. CASE receiving # <<>>
    <3>1. receiving' = Tail(receiving)
      BY <2>2 DEF Recv
    <3> QED
      BY <2>1, <2>2, <3>1, HeadTail
  <2>3. CASE receiving = <<>>
    BY <2>1, <2>3 DEF Recv
  <2> QED
    BY <2>2, <2>3
<1>2. recv' \in SUBSET Receivers
  BY DEF Recv, TypeOK, CallsTyped
<1> QED
  BY <1>1, <1>2 DEF Recv, TypeOK, ClientTyped, QueuesTyped, WireTyped, CallsTyped, client, wire

\* DoSend() taking a packet keeps every variable in its type.
LEMMA SendTakeTyped == ASSUME TypeOK, SendTake PROVE TypeOK'
<1>1. sending \in Seq(Packets) /\ sending # <<>>
  BY DEF SendTake, TypeOK, QueuesTyped
<1>2. Head(sending) \in Packets /\ Tail(sending) \in Seq(Packets)
  BY <1>1, HeadTail
<1> QED
  BY <1>2 DEF SendTake, TypeOK, ClientTyped, QueuesTyped, WireTyped, CallsTyped, client, wire

\* What doSend() does after sendall(), by the state of the client.
LEMMA SendWriteEffect ==
    ASSUME TypeOK, SendWrite
    PROVE  /\ broker' \in BrokerSet /\ broker'.written = broker.written \cup ({tx.done} \cap Calls)
           /\ broker'.taken = broker.taken /\ broker'.msg = broker.msg /\ broker'.qos = broker.qos
           /\ done' \in [Calls -> {"unset", "true", "false"}]
           /\ \A c \in Calls : done'[c] = IF c = tx.done /\ WriteCompletes(tx) THEN "true" ELSE done[c]
<1>1. broker' = [broker EXCEPT !.written = broker.written \cup ({tx.done} \cap Calls)]
  BY DEF SendWrite
<1>2. broker \in BrokerSet /\ \A c \in Calls : done[c] \in {"unset", "true", "false"}
  BY DEF TypeOK, WireTyped, CallsTyped
<1>3. /\ broker' \in BrokerSet /\ broker'.written = broker.written \cup ({tx.done} \cap Calls)
      /\ broker'.taken = broker.taken /\ broker'.msg = broker.msg /\ broker'.qos = broker.qos
  BY <1>1, <1>2 DEF BrokerSet
<1>4. PICK cs : cs = IF WriteCompletes(tx) THEN {tx.done} ELSE {}
  OBVIOUS
<1>5. done' = SendTo(done, cs, "true")
  BY <1>4 DEF SendWrite
<1>6. /\ done' \in [Calls -> {"unset", "true", "false"}]
      /\ \A c \in Calls : done'[c] = IF c \in cs THEN "true" ELSE done[c]
  BY <1>2, <1>5, SendToTyped
<1>7. \A c : c \in cs <=> c = tx.done /\ WriteCompletes(tx)
  BY <1>4
<1> QED
  BY <1>3, <1>6, <1>7

\* DoSend() after sendall() keeps every variable in its type.
LEMMA SendWriteTyped == ASSUME TypeOK, SendWrite PROVE TypeOK'
<1>1. toBroker' \in Seq(Packets)
  BY DEF SendWrite, TypeOK, QueuesTyped, WireTyped
<1> QED
  BY <1>1, SendWriteEffect, NoneIsPacket
     DEF SendWrite, TypeOK, ClientTyped, QueuesTyped, WireTyped, CallsTyped

\* A sendall() that fails keeps every variable in its type.
LEMMA SendFailsTyped == ASSUME TypeOK, SendFails PROVE TypeOK'
<1>1. PICK d : d = SendTo(done, {tx.done}, "false")
  OBVIOUS
<1>2. \A c \in Calls : d[c] \in {"unset", "true", "false"}
  BY <1>1, SendToTyped DEF TypeOK, CallsTyped
<1>3. Abort(d) /\ UNCHANGED <<call, recv>>
  BY <1>1 DEF SendFails
<1> QED
  BY <1>2, <1>3, AbortTyped DEF TypeOK, CallsTyped

\* A turn of doKeepalive() keeps every variable in its type.
LEMMA KeepaliveTickTyped == ASSUME TypeOK, KeepaliveTick PROVE TypeOK'
<1>1. PICK now : now = IF quiet > KeepAlive THEN quiet ELSE quiet + 1
  OBVIOUS
<1>2. now \in Nat
  BY <1>1 DEF TypeOK, ClientTyped
<1>3. CASE awaitingPingResp /\ now > KeepAlive
  <2>1. Abort(done) /\ UNCHANGED <<call, recv>> /\ \A c \in Calls : done[c] \in {"unset", "true", "false"}
    BY <1>1, <1>3 DEF KeepaliveTick, TypeOK, CallsTyped
  <2> QED
    BY <2>1, AbortTyped DEF TypeOK, CallsTyped
<1>4. CASE ~(awaitingPingResp /\ now > KeepAlive)
  <2>1. /\ quiet' = now /\ keepalive' \in BOOLEAN
        /\ \/ awaitingPingResp' = TRUE /\ Put("keepalive", Packet("PINGREQ", 0, "nobody"))
           \/ UNCHANGED <<awaitingPingResp, sending, putting>>
        /\ UNCHANGED <<state, nextId, waiters, incomingQos2, receiving, tx, rx, delivered, done, wire, call, recv>>
    BY <1>1, <1>4 DEF KeepaliveTick
  <2>2. UNCHANGED <<tx, toBroker>> /\ "keepalive" \in Owners
    BY <2>1, Bounds DEF wire
  <2>3. Packet("PINGREQ", 0, "nobody") \in Packets
    <3>1. "PINGREQ" \in Types /\ 0 \in Ids /\ "nobody" \in Tokens
      BY Bounds DEF Types, Ids, Tokens
    <3> QED
      BY <3>1, PacketIsPacket
  <2>4. sending' \in Seq(Packets) /\ putting' \in [Owners -> Packets] /\ awaitingPingResp' \in BOOLEAN
    BY <2>1, <2>2, <2>3, PutAdds DEF TypeOK, QueuesTyped, ClientTyped
  <2> QED
    BY <1>2, <2>1, <2>4 DEF TypeOK, ClientTyped, QueuesTyped, WireTyped, CallsTyped, wire
<1> QED
  BY <1>3, <1>4

\* receivingQueue.put() and the answer.
LEMMA DeliversEffect ==
    ASSUME TypeOK, NEW m \in Inbound, NEW p \in Packets, Delivers(m, p), UNCHANGED <<tx, toBroker>>
    PROVE  /\ Adds(p) /\ QueuesTyped' /\ incomingQos2' = incomingQos2 \ {m} /\ rx' = <<>>
           /\ delivered' = Append(delivered, m)
           /\ \A c \in Calls : putting'[c] = putting[c]
<1>1. /\ sending \in Seq(Packets) /\ receiving \in Seq(Inbound \cup {Empty}) /\ delivered \in Seq(Inbound)
      /\ putting \in [Owners -> Packets] /\ tx \in Packets /\ "receive" \in Owners
  BY Bounds DEF TypeOK, QueuesTyped
<1>2. /\ receiving' = Append(receiving, m) /\ delivered' = Append(delivered, m)
      /\ incomingQos2' = incomingQos2 \ {m} /\ rx' = <<>> /\ Reply(p)
  BY DEF Delivers, Erased
<1>3. receiving' \in Seq(Inbound \cup {Empty}) /\ delivered' \in Seq(Inbound)
  BY <1>1, <1>2
<1>4. /\ Adds(p) /\ sending' \in Seq(Packets) /\ putting' \in [Owners -> Packets]
      /\ \A c \in Calls : putting'[c] = putting[c]
  <2>1. CASE p = None
    <3>1. UNCHANGED <<sending, putting>>
      BY <1>2, <2>1 DEF Reply
    <3>2. Out' = Out
      BY <3>1, ElemsOut, ElemsOutNext
    <3> QED
      BY <1>1, <3>1, <3>2 DEF Adds
  <2>2. CASE p # None
    <3>1. Put("receive", p)
      BY <1>2, <2>2 DEF Reply
    <3> QED
      BY <1>1, <3>1, PutAdds, Bounds
  <2> QED
    BY <2>1, <2>2
<1> QED
  BY <1>1, <1>2, <1>3, <1>4 DEF QueuesTyped

\* What doReceive() holds in a blocked put().
LEMMA RxIs ==
    ASSUME TypeOK, rx # <<>>
    PROVE  rx[1] \in Inbound /\ rx[2] \in Packets
BY DEF TypeOK, QueuesTyped

\* The return of a blocked receivingQueue.put() keeps every variable in its type.
LEMMA DeliverGoesOnTyped == ASSUME TypeOK, DeliverGoesOn PROVE TypeOK'
<1>1. PICK m, p : m = rx[1] /\ p = rx[2]
  OBVIOUS
<1>2. m \in Inbound /\ p \in Packets /\ Delivers(m, p) /\ UNCHANGED <<tx, toBroker>>
  BY <1>1, RxIs DEF DeliverGoesOn, wire
<1>3. QueuesTyped' /\ incomingQos2' = incomingQos2 \ {m}
  BY <1>2, DeliversEffect
<1> QED
  BY <1>3 DEF DeliverGoesOn, TypeOK, ClientTyped, WireTyped, CallsTyped, wire

\* Deliver() delivers or blocks.
LEMMA DeliverEffect ==
    ASSUME TypeOK, NEW m \in Inbound, NEW p \in Packets, Deliver(m, p), UNCHANGED <<tx, toBroker>>
    PROVE  /\ Adds(p) /\ QueuesTyped' /\ \A c \in Calls : putting'[c] = putting[c]
           /\ \/ /\ incomingQos2' = incomingQos2 \ {m} /\ rx' = <<>> /\ delivered' = Append(delivered, m)
              \/ /\ incomingQos2' = incomingQos2 /\ rx' = <<m, p>> /\ delivered' = delivered /\ Out' = Out
<1>1. CASE Len(receiving) < RecvCap
  BY <1>1, DeliversEffect DEF Deliver
<1>2. CASE ~(Len(receiving) < RecvCap)
  <2>1. rx' = <<m, p>> /\ UNCHANGED <<receiving, delivered, incomingQos2, sending, putting>>
    BY <1>2 DEF Deliver
  <2>2. Out' = Out
    BY <2>1, ElemsOut, ElemsOutNext
  <2>3. QueuesTyped'
    BY <2>1 DEF TypeOK, QueuesTyped
  <2> QED
    BY <2>1, <2>2, <2>3 DEF Adds
<1> QED
  BY <1>1, <1>2

\* What every handler of a packet shares: the first packet of the connection is
\* taken.
LEMMA IncomingEffect ==
    ASSUME TypeOK, NEW t, Incoming(t)
    PROVE  /\ toClient \in Seq(Packets) /\ toClient # <<>> /\ toClient' = Tail(toClient)
           /\ Head(toClient) \in In /\ Head(toClient).type = t /\ Head(toClient) \in Packets
           /\ In' \subseteq In /\ WireTyped' /\ rx = <<>> /\ Running
           /\ UNCHANGED <<nextId, quiet, call, recv, toBroker, broker>>
<1>1. toClient \in Seq(Packets) /\ toClient # <<>>
  BY DEF Incoming, TypeOK, WireTyped
<1>2. Tail(toClient) \in Seq(Packets) /\ Head(toClient) \in Packets
  BY <1>1, HeadTail
<1>3. Head(toClient) \in In /\ In' \subseteq In
  BY <1>1, ElemsTail, ElemsOut, ElemsOutNext DEF Incoming
<1> QED
  BY <1>1, <1>2, <1>3 DEF Incoming, TypeOK, WireTyped

\* A reply is a packet.
LEMMA ReplyIsPacket ==
    ASSUME NEW t \in Acks \cup {"PUBREL"}, NEW id \in Ids, NEW c \in Tokens
    PROVE  /\ Packet(t, id, c) \in Packets
           /\ Packet(t, id, c).type = t /\ Packet(t, id, c).id = id /\ Packet(t, id, c).done = c
<1>1. t \in Types
  BY DEF Acks, Types
<1> QED
  BY <1>1, PacketIsPacket

\* handleIncoming() of PUBLISH, by QoS.
Publishes(m) ==
    \/ broker.qos[m] = 0 /\ Deliver(m, None)
    \/ broker.qos[m] = 1 /\ Deliver(m, Packet("PUBACK", m, "nobody"))
    \/ /\ broker.qos[m] = 2
       /\ incomingQos2' = incomingQos2 \cup {m}
       /\ Put("receive", Packet("PUBREC", m, "nobody"))
       /\ UNCHANGED <<receiving, delivered, rx>>

\* What a PUBLISH does, by its quality of service and incomingQos2.
LEMMA OnPublishIs ==
    ASSUME TypeOK, IdsApart, OnPublish
    PROVE  Head(toClient).id \in Inbound /\ Publishes(Head(toClient).id)
<1>1. PICK m : m = Head(toClient).id
  OBVIOUS
<1>2. m \in Inbound
  BY <1>1, IncomingEffect DEF OnPublish, IdsApart, GoodIn
<1>3. broker.qos[m] \in 0..2
  BY <1>2 DEF TypeOK, WireTyped, BrokerSet
<1>4. CASE broker.qos[m] = 0
  BY <1>1, <1>2, <1>4 DEF OnPublish, Publishes
<1>5. CASE broker.qos[m] = 1
  BY <1>1, <1>2, <1>5 DEF OnPublish, Publishes
<1>6. CASE broker.qos[m] = 2
  BY <1>1, <1>2, <1>6 DEF OnPublish, Publishes
<1> QED
  BY <1>3, <1>4, <1>5, <1>6

\* A put() of doReceive() adds its packet and blocks no call.
LEMMA PutReplies ==
    ASSUME TypeOK, NEW p \in Packets, Put("receive", p), UNCHANGED <<receiving, delivered, rx, tx, toBroker>>
    PROVE  Adds(p) /\ QueuesTyped' /\ \A c \in Calls : putting'[c] = putting[c]
<1>1. "receive" \in Owners /\ "receive" \notin Calls /\ Calls \subseteq Owners
  BY Bounds
<1>2. /\ Adds(p) /\ sending' \in Seq(Packets) /\ putting' \in [Owners -> Packets]
      /\ \A c \in Calls : putting'[c] = putting[c]
  BY <1>1, PutAdds
<1> QED
  BY <1>2 DEF TypeOK, QueuesTyped

\* A message of QoS 0 or 1 is delivered or held, one of QoS 2 stored.
LEMMA OnPublishEffect ==
    ASSUME TypeOK, IdsApart, OnPublish, NEW m, m = Head(toClient).id
    PROVE  /\ m \in Inbound /\ QueuesTyped' /\ \A c \in Calls : putting'[c] = putting[c]
           /\ \/ /\ broker.qos[m] # 2
                 /\ \E p \in {None, Packet("PUBACK", m, "nobody")} :
                       /\ Adds(p)
                       /\ \/ /\ incomingQos2' = incomingQos2 \ {m} /\ rx' = <<>>
                             /\ delivered' = Append(delivered, m)
                          \/ /\ incomingQos2' = incomingQos2 /\ rx' = <<m, p>>
                             /\ delivered' = delivered /\ Out' = Out
              \/ /\ broker.qos[m] = 2 /\ incomingQos2' = incomingQos2 \cup {m}
                 /\ Adds(Packet("PUBREC", m, "nobody")) /\ UNCHANGED <<delivered, rx>>
<1>1. m \in Inbound /\ Publishes(m)
  BY OnPublishIs
<1>2. UNCHANGED <<tx, toBroker>>
  BY DEF OnPublish, Incoming
<1>3. /\ Packet("PUBACK", m, "nobody") \in Packets /\ Packet("PUBREC", m, "nobody") \in Packets
      /\ None \in Packets
  <2>1. m \in Ids /\ "nobody" \in Tokens /\ "PUBACK" \in Acks /\ "PUBREC" \in Acks
    BY <1>1 DEF Ids, Tokens, Acks
  <2> QED
    BY <2>1, ReplyIsPacket, NoneIsPacket
<1>4. ASSUME broker.qos[m] # 2, NEW p \in Packets, p \in {None, Packet("PUBACK", m, "nobody")}, Deliver(m, p)
      PROVE  /\ QueuesTyped' /\ \A c \in Calls : putting'[c] = putting[c]
             /\ broker.qos[m] # 2
             /\ \E q \in {None, Packet("PUBACK", m, "nobody")} :
                   /\ Adds(q)
                   /\ \/ /\ incomingQos2' = incomingQos2 \ {m} /\ rx' = <<>>
                         /\ delivered' = Append(delivered, m)
                      \/ /\ incomingQos2' = incomingQos2 /\ rx' = <<m, q>>
                         /\ delivered' = delivered /\ Out' = Out
  BY <1>1, <1>2, <1>4, DeliverEffect
<1>5. CASE broker.qos[m] = 0 /\ Deliver(m, None)
  BY <1>1, <1>3, <1>4, <1>5
<1>6. CASE broker.qos[m] = 1 /\ Deliver(m, Packet("PUBACK", m, "nobody"))
  <2>1. broker.qos[m] # 2
    BY <1>6
  <2> QED
    BY <1>1, <1>3, <1>4, <1>6, <2>1
<1>7. CASE /\ broker.qos[m] = 2 /\ incomingQos2' = incomingQos2 \cup {m}
           /\ Put("receive", Packet("PUBREC", m, "nobody")) /\ UNCHANGED <<receiving, delivered, rx>>
  BY <1>1, <1>2, <1>3, <1>7, PutReplies
<1> QED
  BY <1>1, <1>5, <1>6, <1>7 DEF Publishes

\* An incoming PUBLISH keeps every variable in its type.
LEMMA OnPublishTyped == ASSUME TypeOK, IdsApart, OnPublish PROVE TypeOK'
<1>1. PICK m : m = Head(toClient).id
  OBVIOUS
<1>2. QueuesTyped' /\ incomingQos2' \in SUBSET Inbound
  BY <1>1, OnPublishEffect DEF TypeOK, ClientTyped
<1>3. WireTyped' /\ UNCHANGED <<nextId, quiet, call, recv>>
  BY IncomingEffect DEF OnPublish
<1> QED
  BY <1>2, <1>3 DEF OnPublish, TypeOK, ClientTyped, CallsTyped

\* What a PUBREL does, whether the message is stored or not.
LEMMA OnPubRelEffect ==
    ASSUME TypeOK, IdsApart, OnPubRel, NEW m, m = Head(toClient).id, NEW comp, comp = Packet("PUBCOMP", m, "nobody")
    PROVE  /\ m \in Inbound /\ QueuesTyped' /\ \A c \in Calls : putting'[c] = putting[c]
           /\ Adds(comp)
           /\ \/ /\ m \in incomingQos2
                 /\ \/ /\ incomingQos2' = incomingQos2 \ {m} /\ rx' = <<>>
                       /\ delivered' = Append(delivered, m)
                    \/ /\ incomingQos2' = incomingQos2 /\ rx' = <<m, comp>>
                       /\ delivered' = delivered /\ Out' = Out
              \/ /\ m \notin incomingQos2 /\ UNCHANGED <<incomingQos2, delivered, rx>>
<1>1. m \in Inbound
  BY IncomingEffect DEF OnPubRel, IdsApart, GoodIn
<1>2. UNCHANGED <<tx, toBroker>>
  BY DEF OnPubRel, Incoming
<1>3. comp \in Packets
  <2>1. m \in Ids /\ "nobody" \in Tokens /\ "PUBCOMP" \in Acks
    BY <1>1 DEF Ids, Tokens, Acks
  <2> QED
    BY <2>1, ReplyIsPacket
<1>4. CASE m \in incomingQos2
  <2>1. Deliver(m, comp)
    BY <1>4 DEF OnPubRel
  <2> QED
    BY <1>1, <1>2, <1>3, <1>4, <2>1, DeliverEffect
<1>5. CASE m \notin incomingQos2
  <2>1. Put("receive", comp) /\ UNCHANGED <<incomingQos2, receiving, delivered, rx>>
    BY <1>5 DEF OnPubRel
  <2> QED
    BY <1>1, <1>2, <1>3, <1>5, <2>1, PutReplies
<1> QED
  BY <1>4, <1>5

\* An incoming PUBREL keeps every variable in its type.
LEMMA OnPubRelTyped == ASSUME TypeOK, IdsApart, OnPubRel PROVE TypeOK'
<1>1. PICK m, comp : m = Head(toClient).id /\ comp = Packet("PUBCOMP", m, "nobody")
  OBVIOUS
<1>2. QueuesTyped' /\ incomingQos2' \in SUBSET Inbound
  BY <1>1, OnPubRelEffect DEF TypeOK, ClientTyped
<1>3. WireTyped' /\ UNCHANGED <<nextId, quiet, call, recv>>
  BY IncomingEffect DEF OnPubRel
<1> QED
  BY <1>2, <1>3 DEF OnPubRel, TypeOK, ClientTyped, CallsTyped

\* What an answer does to the maps and to the call it tells.
LEMMA OnAnswerEffect ==
    ASSUME TypeOK, NEW t, OnAnswer(t), NEW ws, ws = WaitingFor(t, Head(toClient).id)
    PROVE  /\ ws \subseteq waiters /\ waiters' = waiters \ ws
           /\ \E v \in {"true", "false"} :
                 /\ done' \in [Calls -> {"unset", "true", "false"}]
                 /\ \A c \in Calls : done'[c] = IF c \in DoneOf(ws) THEN v ELSE done[c]
<1>1. PICK v : v = IF Head(toClient).done = "refused" THEN "false" ELSE "true"
  OBVIOUS
<1>2. waiters' = waiters \ ws /\ done' = SendTo(done, DoneOf(ws), v) /\ v \in {"true", "false"}
  BY <1>1 DEF OnAnswer
<1>3. \A c \in Calls : done[c] \in {"unset", "true", "false"}
  BY DEF TypeOK, CallsTyped
<1> QED
  BY <1>2, <1>3, SendToTyped DEF WaitingFor

\* A PUBACK, PUBCOMP, SUBACK or UNSUBACK keeps every variable in its type.
LEMMA OnAnswerTyped == ASSUME TypeOK, NEW t, OnAnswer(t) PROVE TypeOK'
<1>1. PICK ws : ws = WaitingFor(t, Head(toClient).id)
  OBVIOUS
<1>2. waiters' \subseteq waiters /\ done' \in [Calls -> {"unset", "true", "false"}]
  BY <1>1, OnAnswerEffect
<1>3. WireTyped' /\ UNCHANGED <<nextId, quiet, call, recv>>
  BY IncomingEffect DEF OnAnswer
<1> QED
  BY <1>2, <1>3 DEF OnAnswer, TypeOK, ClientTyped, CallsTyped, QueuesTyped, queues

\* PUBREC: nobody waits for it, or the waiter w moves on, or is failed.
MovesOn(id) ==
    \/ UNCHANGED <<waiters, sending, putting, done, tx, toBroker>>
    \/ \E w \in waiters :
          /\ w.id = id /\ w.answer = "PUBREC"
          /\ \/ /\ state = "Connected" /\ done' = done
                /\ waiters' = Register(waiters \ WaitingFor("PUBREC", id), "PUBCOMP", id, w.done)
                /\ Adds(Packet("PUBREL", id, w.done))
             \/ /\ UNCHANGED <<sending, putting, tx, toBroker>>
                /\ waiters' = {v \in waiters \ WaitingFor("PUBREC", id) : ~(v.answer = "PUBCOMP" /\ v.id = id)}
                /\ done' = SendTo(done, {w.done}, "false")

\* What a PUBREC does: the waiter moves to waitPubComp and a PUBREL is put.
LEMMA OnPubRecEffect ==
    ASSUME TypeOK, IdsApart, OnPubRec, NEW id, id = Head(toClient).id
    PROVE  /\ id \in 0..MaxId /\ \A c \in Calls : putting'[c] = putting[c]
           /\ QueuesTyped'
           /\ MovesOn(id)
<1>1. id \in 0..MaxId
  BY IncomingEffect DEF OnPubRec, IdsApart, GoodIn, Replies
<1>2. UNCHANGED <<tx, toBroker, receiving, rx, delivered>>
  BY DEF OnPubRec, Incoming
<1>3. PICK ws : ws = WaitingFor("PUBREC", id)
  OBVIOUS
<1>4. CASE ws = {}
  <2>1. UNCHANGED <<waiters, sending, putting, done>>
    BY <1>3, <1>4 DEF OnPubRec
  <2> QED
    BY <1>1, <1>2, <2>1 DEF TypeOK, QueuesTyped, MovesOn
<1>5. CASE ws # {}
  <2>1. PICK w \in ws :
           IF state = "Connected"
           THEN /\ waiters' = Register(waiters \ ws, "PUBCOMP", id, w.done)
                /\ Put("receive", Packet("PUBREL", id, w.done))
                /\ UNCHANGED done
           ELSE /\ waiters' = {v \in waiters \ ws : ~(v.answer = "PUBCOMP" /\ v.id = id)}
                /\ done' = SendTo(done, {w.done}, "false")
                /\ UNCHANGED <<sending, putting>>
    BY <1>3, <1>5 DEF OnPubRec
  <2>2. w \in waiters /\ w.id = id /\ w.answer = "PUBREC"
    BY <1>3 DEF WaitingFor
  <2>3. CASE state = "Connected"
    <3>1. Packet("PUBREL", id, w.done) \in Packets
      <4>1. id \in Ids /\ w.done \in Tokens /\ "PUBREL" \in Acks \cup {"PUBREL"}
        BY <1>1, <2>2 DEF Ids, Tokens, TypeOK, ClientTyped, Waiters
      <4> QED
        BY <4>1, ReplyIsPacket
    <3>2. /\ waiters' = Register(waiters \ ws, "PUBCOMP", id, w.done)
          /\ Put("receive", Packet("PUBREL", id, w.done)) /\ done' = done
      BY <2>1, <2>3
    <3>3. Adds(Packet("PUBREL", id, w.done)) /\ QueuesTyped' /\ \A c \in Calls : putting'[c] = putting[c]
      BY <1>2, <3>1, <3>2, PutReplies
    <3> QED
      BY <1>1, <1>3, <2>2, <2>3, <3>2, <3>3 DEF MovesOn
  <2>4. CASE state # "Connected"
    <3>1. /\ waiters' = {v \in waiters \ ws : ~(v.answer = "PUBCOMP" /\ v.id = id)}
          /\ done' = SendTo(done, {w.done}, "false") /\ UNCHANGED <<sending, putting>>
      BY <2>1, <2>4
    <3>2. QueuesTyped'
      BY <1>2, <3>1 DEF TypeOK, QueuesTyped
    <3> QED
      BY <1>1, <1>2, <1>3, <2>2, <3>1, <3>2 DEF MovesOn
  <2> QED
    BY <2>3, <2>4
<1> QED
  BY <1>4, <1>5

\* A PUBREC, answered by a PUBREL keeps every variable in its type.
LEMMA OnPubRecTyped == ASSUME TypeOK, IdsApart, OnPubRec PROVE TypeOK'
<1>1. PICK id : id = Head(toClient).id
  OBVIOUS
<1>2. waiters \in SUBSET Waiters /\ \A c \in Calls : done[c] \in {"unset", "true", "false"}
  BY DEF TypeOK, ClientTyped, CallsTyped
<1>3. QueuesTyped' /\ id \in 0..MaxId
  BY <1>1, OnPubRecEffect
<1>4. waiters' \in SUBSET Waiters /\ done' \in [Calls -> {"unset", "true", "false"}]
  <2>1. CASE UNCHANGED <<waiters, done>>
    BY <2>1 DEF TypeOK, ClientTyped, CallsTyped
  <2>2. CASE ~UNCHANGED <<waiters, done>>
    <3>1. PICK w \in waiters :
               \/ /\ done' = done
                  /\ waiters' = Register(waiters \ WaitingFor("PUBREC", id), "PUBCOMP", id, w.done)
               \/ /\ waiters' \subseteq waiters
                  /\ done' = SendTo(done, {w.done}, "false")
      BY <1>1, <2>2, OnPubRecEffect DEF MovesOn
    <3>2. w.done \in Calls \cup {"nobody"}
      BY <1>2 DEF Waiters
    <3>3. waiters \ WaitingFor("PUBREC", id) \in SUBSET Waiters /\ "PUBCOMP" \in Replies
      BY <1>2 DEF Replies
    <3>4. Register(waiters \ WaitingFor("PUBREC", id), "PUBCOMP", id, w.done) \in SUBSET Waiters
      BY <1>3, <3>2, <3>3, RegisterTyped
    <3>5. done \in [Calls -> {"unset", "true", "false"}]
      BY DEF TypeOK, CallsTyped
    <3>6. SendTo(done, {w.done}, "false") \in [Calls -> {"unset", "true", "false"}]
      BY <1>2, SendToTyped
    <3> QED
      BY <1>2, <3>1, <3>4, <3>5, <3>6
  <2> QED
    BY <2>1, <2>2
<1>5. WireTyped' /\ UNCHANGED <<nextId, quiet, call, recv>>
  BY IncomingEffect DEF OnPubRec
<1> QED
  BY <1>3, <1>4, <1>5 DEF OnPubRec, TypeOK, ClientTyped, CallsTyped

\* A PINGRESP keeps every variable in its type.
LEMMA OnPingRespTyped == ASSUME TypeOK, OnPingResp PROVE TypeOK'
<1>1. WireTyped' /\ UNCHANGED <<nextId, quiet, call, recv>>
  BY IncomingEffect DEF OnPingResp
<1> QED
  BY <1>1 DEF OnPingResp, TypeOK, ClientTyped, CallsTyped, QueuesTyped, queues

\* A packet doReceive() cannot use, or the end of the connection keeps every
\* variable in its type.
LEMMA ReceiveFailsTyped == ASSUME TypeOK, ReceiveFails PROVE TypeOK'
<1>1. Abort(done) /\ UNCHANGED <<call, recv>> /\ \A c \in Calls : done[c] \in {"unset", "true", "false"}
  BY DEF ReceiveFails, TypeOK, CallsTyped
<1> QED
  BY <1>1, AbortTyped DEF TypeOK, CallsTyped

\* An answer of the broker is a packet: the answer to a request bears its id, and
\* PUBREC is answered by PUBREL.
LEMMA AnswersAre ==
    ASSUME NEW p \in Packets, NEW a \in Answers(p), a # None
    PROVE  /\ a.type \in Replies \cup {"PUBREL", "PINGRESP"} /\ a.done \in {"ok", "refused"}
           /\ a = Packet(a.type, a.id, a.done)
           /\ a.type \in Replies => p.type \in Asks /\ a.id = p.id
           /\ a.type = "PUBREL" => p.type = "PUBREC" /\ a.id = p.id
           /\ a.type = "PINGRESP" => a.id = 0
BY DEF Answers, Packet, Replies, Asks, AnswerTo

\* The broker's answer is a packet.
LEMMA AnswerIsPacket ==
    ASSUME NEW p \in Packets, NEW a \in Answers(p), a # None
    PROVE  a \in Packets
<1>1. a.type \in Types
  BY AnswersAre DEF Replies, Types
<1>2. a.id \in Ids
  <2>1. p.id \in Ids /\ 0 \in Ids
    BY Bounds DEF Packets, Ids
  <2> QED
    BY <2>1, AnswersAre
<1>3. a.done \in Tokens
  BY AnswersAre DEF Tokens
<1> QED
  BY <1>1, <1>2, <1>3, AnswersAre, PacketIsPacket

\* The broker's part of the step that takes p.
LEMMA BrokerTakesEffect ==
    ASSUME TypeOK, BrokerTakes, NEW p, p = Head(toBroker)
    PROVE  /\ p \in Packets /\ p \in Out /\ toBroker' \in Seq(Packets) /\ Out' \subseteq Out
           /\ broker' \in BrokerSet /\ broker'.taken = broker.taken \cup ({p.done} \cap Calls)
           /\ broker'.qos = broker.qos /\ broker'.written = broker.written
           /\ \A m \in Inbound : broker'.msg[m] =
                 IF p.id = m /\ p.type \in Acks /\ broker.msg[m] # "done"
                 THEN (IF p.type = "PUBREC" THEN "rec" ELSE "done") ELSE broker.msg[m]
           /\ \E a \in Answers(p) : toClient' = IF a = None THEN toClient ELSE Append(toClient, a)
           /\ UNCHANGED <<state, client, queues, call, done, recv>>
<1>1. toBroker \in Seq(Packets) /\ toBroker # <<>> /\ toBroker' = Tail(toBroker)
  BY DEF BrokerTakes, TypeOK, WireTyped
<1>2. p \in Packets /\ toBroker' \in Seq(Packets)
  BY <1>1, HeadTail
<1>3. UNCHANGED <<state, client, queues, call, done, recv>> /\ UNCHANGED <<tx, putting, sending>>
  BY DEF BrokerTakes, queues
<1>4. p \in Out /\ Out' \subseteq Out
  BY <1>1, <1>3, ElemsTail, ElemsOut, ElemsOutNext
<1>5. \E a \in Answers(p) : toClient' = IF a = None THEN toClient ELSE Append(toClient, a)
  BY DEF BrokerTakes
<1>6. PICK told : told = [PUBREC |-> "rec", PUBACK |-> "done", PUBCOMP |-> "done"]
  OBVIOUS
<1>7. PICK msg : msg = IF p.type \in DOMAIN told /\ broker.msg[p.id] # "done"
                       THEN [broker.msg EXCEPT ![p.id] = told[p.type]] ELSE broker.msg
  OBVIOUS
<1>8. broker' = [broker EXCEPT !.up = p.type # "DISCONNECT",
                               !.taken = broker.taken \cup ({p.done} \cap Calls), !.msg = msg]
  BY <1>6, <1>7 DEF BrokerTakes
<1>9. DOMAIN told = Acks /\ \A t \in Acks : told[t] = IF t = "PUBREC" THEN "rec" ELSE "done"
  BY <1>6 DEF Acks
<1>10. broker \in BrokerSet /\ broker.msg \in [Inbound -> {"new", "sent", "rec", "done"}]
  BY DEF TypeOK, WireTyped, BrokerSet
<1>11. /\ msg \in [Inbound -> {"new", "sent", "rec", "done"}]
       /\ \A m \in Inbound : msg[m] =
                 IF p.id = m /\ p.type \in Acks /\ broker.msg[m] # "done"
                 THEN (IF p.type = "PUBREC" THEN "rec" ELSE "done") ELSE broker.msg[m]
  BY <1>7, <1>9, <1>10
<1>12. /\ broker' \in BrokerSet /\ broker'.taken = broker.taken \cup ({p.done} \cap Calls)
       /\ broker'.qos = broker.qos /\ broker'.written = broker.written /\ broker'.msg = msg
  BY <1>8, <1>10, <1>11 DEF BrokerSet
<1> QED
  BY <1>2, <1>3, <1>4, <1>5, <1>11, <1>12

\* The broker taking a packet and answering it keeps every variable in its type.
LEMMA BrokerTakesTyped == ASSUME TypeOK, BrokerTakes PROVE TypeOK'
<1>1. PICK p : p = Head(toBroker)
  OBVIOUS
<1>2. PICK a \in Answers(p) : toClient' = IF a = None THEN toClient ELSE Append(toClient, a)
  BY <1>1, BrokerTakesEffect
<1>3. toClient' \in Seq(Packets)
  <2>1. toClient \in Seq(Packets) /\ p \in Packets
    BY <1>1, BrokerTakesEffect DEF TypeOK, WireTyped
  <2> QED
    BY <1>2, <2>1, AnswerIsPacket, AppendIs
<1>4. WireTyped' /\ UNCHANGED <<state, client, queues, call, done, recv>>
  BY <1>1, <1>3, BrokerTakesEffect DEF WireTyped
<1> QED
  BY <1>4 DEF TypeOK, ClientTyped, QueuesTyped, CallsTyped, client, queues

\* What the broker's sending of a message changes.
LEMMA BrokerPublishesEffect ==
    ASSUME TypeOK, NEW m \in Inbound, BrokerPublishes(m),
           NEW p, p = Packet(IF broker.msg[m] = "rec" THEN "PUBREL" ELSE "PUBLISH", m, "ok")
    PROVE  /\ p \in Packets /\ p.id = m /\ p.type = (IF broker.msg[m] = "rec" THEN "PUBREL" ELSE "PUBLISH")
           /\ broker.msg[m] \in {"new", "sent", "rec"} /\ toClient' = Append(toClient, p)
           /\ broker' \in BrokerSet /\ broker'.taken = broker.taken /\ broker'.qos = broker.qos
           /\ broker'.written = broker.written
           /\ \A x \in Inbound : broker'.msg[x] = IF x = m /\ broker.msg[m] = "new" THEN "sent" ELSE broker.msg[x]
           /\ UNCHANGED <<state, client, queues, call, done, recv, toBroker>>
<1>1. /\ broker.msg[m] \in {"new", "sent", "rec"} /\ toClient' = Append(toClient, p)
      /\ UNCHANGED <<state, client, queues, call, done, recv, toBroker>>
  BY DEF BrokerPublishes
<1>2. p \in Packets /\ p.id = m /\ p.type = (IF broker.msg[m] = "rec" THEN "PUBREL" ELSE "PUBLISH")
  <2>1. m \in Ids /\ "ok" \in Tokens /\ {"PUBREL", "PUBLISH"} \subseteq Types
    BY DEF Ids, Tokens, Types
  <2> QED
    BY <2>1, PacketIsPacket
<1>3. PICK n, msg : /\ n = IF broker.msg[m] = "new" THEN broker.dups ELSE broker.dups + 1
                    /\ msg = [broker.msg EXCEPT ![m] = IF broker.msg[m] = "new" THEN "sent" ELSE broker.msg[m]]
  OBVIOUS
<1>4. broker' = [broker EXCEPT !.dups = n, !.msg = msg]
  BY <1>3 DEF BrokerPublishes, TypeOK, WireTyped, BrokerSet
<1>5. /\ broker \in BrokerSet /\ n \in Nat /\ msg \in [Inbound -> {"new", "sent", "rec", "done"}]
      /\ \A x \in Inbound : msg[x] = IF x = m /\ broker.msg[m] = "new" THEN "sent" ELSE broker.msg[x]
  BY <1>3 DEF TypeOK, WireTyped, BrokerSet
<1>6. /\ broker' \in BrokerSet /\ broker'.taken = broker.taken /\ broker'.qos = broker.qos
      /\ broker'.written = broker.written /\ broker'.msg = msg
  BY <1>4, <1>5 DEF BrokerSet
<1> QED
  BY <1>1, <1>2, <1>5, <1>6

\* The broker sending a message, for the first time or again keeps every variable
\* in its type.
LEMMA BrokerPublishesTyped == ASSUME TypeOK, NEW m \in Inbound, BrokerPublishes(m) PROVE TypeOK'
<1>1. PICK p : p = Packet(IF broker.msg[m] = "rec" THEN "PUBREL" ELSE "PUBLISH", m, "ok")
  OBVIOUS
<1>2. /\ p \in Packets /\ toClient' = Append(toClient, p) /\ broker' \in BrokerSet
      /\ UNCHANGED <<state, client, queues, call, done, recv, toBroker>>
  BY <1>1, BrokerPublishesEffect
<1>3. toClient' \in Seq(Packets)
  BY <1>2 DEF TypeOK, WireTyped
<1> QED
  BY <1>2, <1>3 DEF TypeOK, ClientTyped, QueuesTyped, CallsTyped, WireTyped, client, queues

\* What a failure of the broker changes.
LEMMA BrokerFailsEffect ==
    ASSUME TypeOK, BrokerFails, NEW p, p = Packet("BAD", 0, "ok")
    PROVE  /\ p \in Packets /\ p.type = "BAD" /\ toClient' \in {toClient, Append(toClient, p)}
           /\ broker' \in BrokerSet /\ broker'.taken = broker.taken /\ broker'.qos = broker.qos
           /\ broker'.written = broker.written /\ broker'.msg = broker.msg
           /\ UNCHANGED <<state, client, queues, call, done, recv, toBroker>>
<1>1. p \in Packets /\ p.type = "BAD"
  <2>1. 0 \in Ids /\ "ok" \in Tokens /\ "BAD" \in Types
    BY Bounds DEF Ids, Tokens, Types
  <2> QED
    BY <2>1, PacketIsPacket
<1>2. /\ toClient' \in {toClient, Append(toClient, p)}
      /\ \/ broker' = [broker EXCEPT !.up = FALSE, !.failures = 1]
         \/ broker' = [broker EXCEPT !.mute = TRUE, !.failures = 1]
      /\ UNCHANGED <<state, client, queues, call, done, recv, toBroker>>
  BY DEF BrokerFails
<1>3. broker \in BrokerSet
  BY DEF TypeOK, WireTyped
<1>4. /\ broker' \in BrokerSet /\ broker'.taken = broker.taken /\ broker'.qos = broker.qos
      /\ broker'.written = broker.written /\ broker'.msg = broker.msg
  <2>1. CASE broker' = [broker EXCEPT !.up = FALSE, !.failures = 1]
    BY <1>3, <2>1 DEF BrokerSet
  <2>2. CASE broker' = [broker EXCEPT !.mute = TRUE, !.failures = 1]
    BY <1>3, <2>2 DEF BrokerSet
  <2> QED
    BY <1>2, <2>1, <2>2
<1> QED
  BY <1>1, <1>2, <1>4

\* A failure of the broker keeps every variable in its type.
LEMMA BrokerFailsTyped == ASSUME TypeOK, BrokerFails PROVE TypeOK'
<1>1. PICK p : p = Packet("BAD", 0, "ok")
  OBVIOUS
<1>2. /\ p \in Packets /\ toClient' \in {toClient, Append(toClient, p)} /\ broker' \in BrokerSet
      /\ UNCHANGED <<state, client, queues, call, done, recv, toBroker>>
  BY <1>1, BrokerFailsEffect
<1>3. toClient' \in Seq(Packets)
  BY <1>2 DEF TypeOK, WireTyped
<1> QED
  BY <1>2, <1>3 DEF TypeOK, ClientTyped, QueuesTyped, CallsTyped, WireTyped, client, queues

\* The order of PUBLISH and PUBREL survives when the first packet is taken ...
LEMMA ReleaseLastTail ==
    ASSUME NEW m, NEW S, NEW s \in Seq(S), s # <<>>, ReleaseLast(s, m)
    PROVE  ReleaseLast(Tail(s), m)
<1>1. ASSUME NEW i \in DOMAIN Tail(s), NEW j \in DOMAIN Tail(s),
             Tail(s)[i].id = m /\ Tail(s)[i].type = "PUBREL", Tail(s)[j].id = m /\ Tail(s)[j].type = "PUBLISH"
      PROVE  j < i
  <2>1. /\ i + 1 \in DOMAIN s /\ j + 1 \in DOMAIN s /\ Tail(s)[i] = s[i + 1] /\ Tail(s)[j] = s[j + 1]
        /\ i \in Nat /\ j \in Nat
    BY HeadTail
  <2>2. j + 1 < i + 1
    BY <1>1, <2>1 DEF ReleaseLast
  <2> QED
    BY <2>1, <2>2
<1> QED
  BY <1>1 DEF ReleaseLast

\* ... and when a packet comes behind.
LEMMA ReleaseLastAppend ==
    ASSUME NEW m, NEW S, NEW s \in Seq(S), NEW x \in S, ReleaseLast(s, m),
           x.id = m /\ x.type = "PUBLISH" => ~\E a \in Elems(s) : a.id = m /\ a.type = "PUBREL"
    PROVE  ReleaseLast(Append(s, x), m)
<1> DEFINE t == Append(s, x)
<1>1. /\ DOMAIN t = 1..(Len(s) + 1) /\ DOMAIN s = 1..Len(s) /\ t[Len(s) + 1] = x /\ Len(s) \in Nat
      /\ \A i \in DOMAIN s : t[i] = s[i]
  BY AppendIs
<1> HIDE DEF t
<1>2. ASSUME NEW i \in DOMAIN t, NEW j \in DOMAIN t,
             t[i].id = m /\ t[i].type = "PUBREL", t[j].id = m /\ t[j].type = "PUBLISH"
      PROVE  j < i
  <2>1. CASE j \in DOMAIN s /\ i \in DOMAIN s
    BY <1>1, <1>2, <2>1 DEF ReleaseLast
  <2>2. CASE j \in DOMAIN s /\ i = Len(s) + 1
    BY <1>1, <2>2
  <2>3. CASE j = Len(s) + 1 /\ i \in DOMAIN s
    BY <1>1, <1>2, <2>3 DEF Elems
  <2>4. CASE j = Len(s) + 1 /\ i = Len(s) + 1
    BY <1>2, <2>4
  <2>5. (j \in DOMAIN s \/ j = Len(s) + 1) /\ (i \in DOMAIN s \/ i = Len(s) + 1)
    BY <1>1
  <2> QED
    BY <2>1, <2>2, <2>3, <2>4, <2>5
<1> QED
  BY <1>2 DEF ReleaseLast, t

\* What can happen to the packets on their way to the client when none of them
\* is about a message of the broker.
Shorter ==
    \/ toClient' = toClient \/ toClient' = <<>> \/ (toClient # <<>> /\ toClient' = Tail(toClient))
    \/ \E a \in Packets : a.type \notin {"PUBLISH", "PUBREL"} /\ toClient' = Append(toClient, a)

\* A wire that only lost packets has no new ones and keeps their order.
LEMMA ShorterIs ==
    ASSUME TypeOK, Shorter
    PROVE  /\ \A a \in In' : a.type \in {"PUBLISH", "PUBREL"} => a \in In
           /\ \A m \in Inbound : ReleaseLast(toClient, m) => ReleaseLast(toClient', m)
<1>1. toClient \in Seq(Packets)
  BY DEF TypeOK, WireTyped
<1>2. CASE toClient' = toClient
  BY <1>2, ElemsOut, ElemsOutNext
<1>3. CASE toClient' = <<>>
  <2>1. \A m : ReleaseLast(<<>>, m)
    BY DEF ReleaseLast
  <2> QED
    BY <1>3, <2>1, ElemsOutNext, ElemsEmpty
<1>4. CASE toClient # <<>> /\ toClient' = Tail(toClient)
  BY <1>1, <1>4, ElemsTail, ElemsOut, ElemsOutNext, ReleaseLastTail
<1>5. ASSUME NEW a \in Packets, a.type \notin {"PUBLISH", "PUBREL"}, toClient' = Append(toClient, a)
      PROVE  /\ \A b \in In' : b.type \in {"PUBLISH", "PUBREL"} => b \in In
             /\ \A m \in Inbound : ReleaseLast(toClient, m) => ReleaseLast(toClient', m)
  <2>1. In' \subseteq In \cup {a}
    BY <1>1, <1>5, ElemsAppend, ElemsOut, ElemsOutNext
  <2>2. \A m \in Inbound : ReleaseLast(toClient, m) => ReleaseLast(toClient', m)
    BY <1>1, <1>5, ReleaseLastAppend
  <2> QED
    BY <1>5, <2>1, <2>2
<1> QED
  BY <1>2, <1>3, <1>4, <1>5 DEF Shorter

\* A step that is not about a message of the broker.
Calm ==
    /\ UNCHANGED <<incomingQos2, delivered>> /\ rx' \in {rx, <<>>}
    /\ \A p \in Out' : p.type \in Acks => p \in Out
    /\ Shorter
    /\ broker'.msg = broker.msg /\ broker'.qos = broker.qos

\* A step that touches no message keeps what is said about messages.
LEMMA CalmKeeps ==
    ASSUME TypeOK, DeliveryInv, Calm
    PROVE  DeliveryInv'
<1>1. ASSUME NEW m \in Inbound PROVE MessageInv(m)'
  <2>1. /\ \A a \in In' : a.type \in {"PUBLISH", "PUBREL"} => a \in In
        /\ ReleaseLast(toClient, m) => ReleaseLast(toClient', m)
    BY ShorterIs DEF Calm
  <2>2. InMsg(m, "PUBREL")' => InMsg(m, "PUBREL")
    BY <2>1 DEF InMsg
  <2>3. InMsg(m, "PUBLISH")' => InMsg(m, "PUBLISH")
    BY <2>1 DEF InMsg
  <2>4. OutAck(m, {"PUBREC"})' => OutAck(m, {"PUBREC"})
    BY DEF OutAck, Calm, Acks
  <2>5. OutAck(m, {"PUBACK", "PUBCOMP"})' => OutAck(m, {"PUBACK", "PUBCOMP"})
    BY DEF OutAck, Calm, Acks
  <2>6. Delivered(m)' <=> Delivered(m)
    BY DEF Delivered, Calm
  <2>7. Holding(m)' => Holding(m)
    BY DEF Holding, Calm
  <2>8. MessageInv(m)
    BY DEF DeliveryInv
  <2>9. Stored(m)'
    BY <2>2, <2>4, <2>6, <2>8 DEF MessageInv, Stored, Calm
  <2>10. Released(m)'
    BY <2>1, <2>2, <2>8 DEF MessageInv, Released, Calm
  <2>11. Once(m)'
    BY <2>3, <2>6, <2>7, <2>8 DEF MessageInv, Once, Calm
  <2>12. Answered(m)'
    BY <2>5, <2>6, <2>8 DEF MessageInv, Answered, Calm
  <2> QED
    BY <2>9, <2>10, <2>11, <2>12 DEF MessageInv
<1>2. HeldAnswer'
  BY DEF DeliveryInv, HeldAnswer, Calm
<1> QED
  BY <1>1, <1>2 DEF DeliveryInv

\* What an empty slot bears.
LEMMA NoneIs == None.type = "none" /\ None.id = 0 /\ None.done = "nobody"
BY DEF None

\* What was delivered after receivingQueue.put().
LEMMA DeliveredAppend ==
    ASSUME TypeOK, NEW m0 \in Inbound, delivered' = Append(delivered, m0), NEW m
    PROVE  /\ Delivered(m)' <=> (Delivered(m) \/ m = m0)
           /\ (\A i, j \in DOMAIN delivered : delivered[i] = m /\ delivered[j] = m => i = j)
                /\ (m = m0 => ~Delivered(m))
              => \A i, j \in DOMAIN delivered' : delivered'[i] = m /\ delivered'[j] = m => i = j
<1>1. PICK n : n = Len(delivered)
  OBVIOUS
<1>2. /\ DOMAIN delivered' = 1..(n + 1) /\ DOMAIN delivered = 1..n /\ delivered'[n + 1] = m0 /\ n \in Nat
      /\ \A i \in DOMAIN delivered : i \in DOMAIN delivered' /\ delivered'[i] = delivered[i]
  BY <1>1, AppendIs DEF TypeOK, QueuesTyped
<1>3. \A i \in DOMAIN delivered' : i \in DOMAIN delivered \/ i = n + 1
  BY <1>2
<1>4. n + 1 \in DOMAIN delivered'
  BY <1>2
<1>5. Delivered(m)' <=> (Delivered(m) \/ m = m0)
  BY <1>2, <1>3, <1>4 DEF Delivered
<1>6. ASSUME \A i, j \in DOMAIN delivered : delivered[i] = m /\ delivered[j] = m => i = j,
             m = m0 => ~Delivered(m),
             NEW i \in DOMAIN delivered', NEW j \in DOMAIN delivered', delivered'[i] = m, delivered'[j] = m
      PROVE  i = j
  BY <1>2, <1>3, <1>6 DEF Delivered
<1> QED
  BY <1>5, <1>6

\* What the answer to a message may be.
AnswerFor(m, p) ==
    p = None \/ (p.id = m /\ p.type \in {"PUBACK", "PUBCOMP"} /\ p.done = "nobody")

\* A message that is put into receivingQueue ...
LEMMA DeliveringKeeps ==
    ASSUME TypeOK, DeliveryInv, NEW m0 \in Inbound, NEW p0, AnswerFor(m0, p0), Adds(p0), Shorter,
           delivered' = Append(delivered, m0), incomingQos2' = incomingQos2 \ {m0}, rx' = <<>>, broker' = broker,
           broker.qos[m0] = 2 => ~Delivered(m0) /\ broker.msg[m0] \in Late /\ ~InMsg(m0, "PUBLISH")'
    PROVE  DeliveryInv'
<1>1. ASSUME NEW m \in Inbound PROVE MessageInv(m)'
  <2>1. /\ \A a \in In' : a.type \in {"PUBLISH", "PUBREL"} => a \in In
        /\ ReleaseLast(toClient, m) => ReleaseLast(toClient', m)
    BY ShorterIs
  <2>2. InMsg(m, "PUBREL")' => InMsg(m, "PUBREL")
    BY <2>1 DEF InMsg
  <2>3. InMsg(m, "PUBLISH")' => InMsg(m, "PUBLISH")
    BY <2>1 DEF InMsg
  <2>4. OutAck(m, {"PUBREC"})' => OutAck(m, {"PUBREC"})
    BY NoneIs DEF OutAck, Adds, AnswerFor
  <2>5. m # m0 => (OutAck(m, {"PUBACK", "PUBCOMP"})' => OutAck(m, {"PUBACK", "PUBCOMP"}))
    BY NoneIs DEF OutAck, Adds, AnswerFor
  <2>6. Delivered(m)' <=> (Delivered(m) \/ m = m0)
    BY DeliveredAppend
  <2>7. ~Holding(m)'
    BY DEF Holding
  <2>8. MessageInv(m)
    BY DEF DeliveryInv
  <2>9. Stored(m)'
    BY <2>2, <2>4, <2>6, <2>8 DEF MessageInv, Stored
  <2>10. Released(m)'
    BY <2>1, <2>2, <2>8 DEF MessageInv, Released
  <2>11. Once(m)'
    <3>1. SUFFICES ASSUME broker.qos[m] = 2
                   PROVE  /\ Delivered(m)' => broker.msg[m] \in Late /\ ~InMsg(m, "PUBLISH")'
                          /\ Delivered(m)' => m \notin incomingQos2'
                          /\ \A i, j \in DOMAIN delivered' : delivered'[i] = m /\ delivered'[j] = m => i = j
      BY <2>7 DEF Once
    <3>2. /\ Delivered(m) => broker.msg[m] \in Late /\ ~InMsg(m, "PUBLISH")
          /\ Delivered(m) => m \notin incomingQos2
          /\ \A i, j \in DOMAIN delivered : delivered[i] = m /\ delivered[j] = m => i = j
      BY <2>8, <3>1 DEF MessageInv, Once
    <3>3. m = m0 => ~Delivered(m)
      BY <3>1
    <3>4. \A i, j \in DOMAIN delivered' : delivered'[i] = m /\ delivered'[j] = m => i = j
      BY <3>2, <3>3, DeliveredAppend
    <3>5. CASE m = m0
      BY <3>1, <3>4, <3>5
    <3>6. CASE m # m0
      BY <2>3, <2>6, <3>2, <3>4, <3>6
    <3> QED
      BY <3>5, <3>6
  <2>12. Answered(m)'
    BY <2>5, <2>6, <2>8 DEF MessageInv, Answered
  <2> QED
    BY <2>9, <2>10, <2>11, <2>12 DEF MessageInv
<1>2. HeldAnswer'
  BY DEF HeldAnswer
<1> QED
  BY <1>1, <1>2 DEF DeliveryInv

\* ... and one that has to wait for room.
LEMMA HoldingKeeps ==
    ASSUME TypeOK, DeliveryInv, NEW m0 \in Inbound, NEW p0, AnswerFor(m0, p0), Out' = Out, Shorter,
           delivered' = delivered, incomingQos2' = incomingQos2, rx' = <<m0, p0>>, broker' = broker,
           broker.qos[m0] = 2 => m0 \in incomingQos2 /\ broker.msg[m0] \in Late /\ ~InMsg(m0, "PUBLISH")'
    PROVE  DeliveryInv'
<1>1. ASSUME NEW m \in Inbound PROVE MessageInv(m)'
  <2>1. /\ \A a \in In' : a.type \in {"PUBLISH", "PUBREL"} => a \in In
        /\ ReleaseLast(toClient, m) => ReleaseLast(toClient', m)
    BY ShorterIs
  <2>2. InMsg(m, "PUBREL")' => InMsg(m, "PUBREL")
    BY <2>1 DEF InMsg
  <2>3. InMsg(m, "PUBLISH")' => InMsg(m, "PUBLISH")
    BY <2>1 DEF InMsg
  <2>4. OutAck(m, {"PUBREC"})' => OutAck(m, {"PUBREC"})
    BY DEF OutAck
  <2>5. OutAck(m, {"PUBACK", "PUBCOMP"})' => OutAck(m, {"PUBACK", "PUBCOMP"})
    BY DEF OutAck
  <2>6. Delivered(m)' <=> Delivered(m)
    BY DEF Delivered
  <2>7. Holding(m)' => m = m0
    BY DEF Holding
  <2>8. MessageInv(m)
    BY DEF DeliveryInv
  <2>9. Stored(m)'
    BY <2>2, <2>4, <2>6, <2>8 DEF MessageInv, Stored
  <2>10. Released(m)'
    BY <2>1, <2>2, <2>8 DEF MessageInv, Released
  <2>11. Once(m)'
    BY <2>3, <2>6, <2>7, <2>8 DEF MessageInv, Once
  <2>12. Answered(m)'
    BY <2>5, <2>6, <2>8 DEF MessageInv, Answered
  <2> QED
    BY <2>9, <2>10, <2>11, <2>12 DEF MessageInv
<1>2. HeldAnswer'
  BY DEF HeldAnswer, AnswerFor
<1> QED
  BY <1>1, <1>2 DEF DeliveryInv

\* The return of a blocked receivingQueue.put() keeps what is said about messages.
LEMMA DeliverGoesOnKeeps == ASSUME TypeOK, DeliveryInv, DeliverGoesOn PROVE DeliveryInv'
<1>1. PICK m, p : m = rx[1] /\ p = rx[2]
  OBVIOUS
<1>2. /\ m \in Inbound /\ p \in Packets /\ Delivers(m, p) /\ UNCHANGED <<tx, toBroker, toClient, broker>>
      /\ rx # <<>>
  BY <1>1, RxIs DEF DeliverGoesOn, wire
<1>3. Adds(p) /\ incomingQos2' = incomingQos2 \ {m} /\ rx' = <<>> /\ delivered' = Append(delivered, m)
  BY <1>2, DeliversEffect
<1>4. AnswerFor(m, p) /\ Holding(m)
  BY <1>1, <1>2 DEF DeliveryInv, HeldAnswer, AnswerFor, Holding
<1>5. broker.qos[m] = 2 => ~Delivered(m) /\ broker.msg[m] \in Late /\ ~InMsg(m, "PUBLISH")
  BY <1>2, <1>4 DEF DeliveryInv, MessageInv, Once
<1>6. InMsg(m, "PUBLISH")' <=> InMsg(m, "PUBLISH")
  BY <1>2 DEF InMsg, In
<1>7. Shorter
  BY <1>2 DEF Shorter
<1> QED
  BY <1>2, <1>3, <1>4, <1>5, <1>6, <1>7, DeliveringKeeps

\* A PUBREL delivers the stored message, and only once.
LEMMA OnPubRelKeeps == ASSUME TypeOK, IdsApart, DeliveryInv, OnPubRel PROVE DeliveryInv'
<1>1. PICK m, comp : m = Head(toClient).id /\ comp = Packet("PUBCOMP", m, "nobody")
  OBVIOUS
<1>2. /\ m \in Inbound /\ Adds(comp)
      /\ \/ /\ m \in incomingQos2
            /\ \/ /\ incomingQos2' = incomingQos2 \ {m} /\ rx' = <<>>
                  /\ delivered' = Append(delivered, m)
               \/ /\ incomingQos2' = incomingQos2 /\ rx' = <<m, comp>>
                  /\ delivered' = delivered /\ Out' = Out
         \/ /\ m \notin incomingQos2 /\ UNCHANGED <<incomingQos2, delivered, rx>>
  BY <1>1, OnPubRelEffect
<1>3. /\ toClient \in Seq(Packets) /\ toClient # <<>> /\ toClient' = Tail(toClient) /\ broker' = broker
      /\ Head(toClient) \in In /\ Head(toClient).type = "PUBREL" /\ In' \subseteq In
  BY IncomingEffect DEF OnPubRel
<1>4. Shorter
  BY <1>3 DEF Shorter
<1>5. comp.id = m /\ comp.type = "PUBCOMP" /\ comp.done = "nobody"
  BY <1>1 DEF Packet
<1>6. InMsg(m, "PUBREL") /\ MessageInv(m)
  BY <1>1, <1>2, <1>3 DEF InMsg, DeliveryInv
<1>7. broker.msg[m] \in Late /\ ReleaseLast(toClient, m)
  BY <1>6 DEF MessageInv, Released
<1>8. ~InMsg(m, "PUBLISH")'
  <2>1. SUFFICES ASSUME NEW a \in In, a.id = m, a.type = "PUBLISH" PROVE FALSE
    BY <1>3 DEF InMsg
  <2>2. PICK j \in DOMAIN toClient : a = toClient[j]
    BY DEF In
  <2>3. 1 \in DOMAIN toClient /\ toClient[1].id = m /\ toClient[1].type = "PUBREL"
    BY <1>1, <1>3, HeadTail
  <2>4. j < 1 /\ j \in Nat \ {0}
    BY <1>3, <1>7, <2>1, <2>2, <2>3 DEF ReleaseLast
  <2> QED
    BY <2>4
<1>9. AnswerFor(m, comp)
  BY <1>5 DEF AnswerFor
<1>10. CASE m \in incomingQos2
  <2>1. broker.qos[m] = 2 => ~Delivered(m)
    BY <1>6, <1>10 DEF MessageInv, Once
  <2>2. CASE incomingQos2' = incomingQos2 \ {m} /\ rx' = <<>> /\ delivered' = Append(delivered, m)
    BY <1>2, <1>3, <1>4, <1>7, <1>8, <1>9, <2>1, <2>2, DeliveringKeeps
  <2>3. CASE incomingQos2' = incomingQos2 /\ rx' = <<m, comp>> /\ delivered' = delivered /\ Out' = Out
    BY <1>2, <1>3, <1>4, <1>7, <1>8, <1>9, <1>10, <2>3, HoldingKeeps
  <2> QED
    BY <1>2, <1>10, <2>2, <2>3
<1>11. CASE m \notin incomingQos2
  <2>1. UNCHANGED <<incomingQos2, delivered, rx>>
    BY <1>2, <1>11
  <2>2. Delivered(m)
    BY <1>6, <1>11 DEF MessageInv, Stored
  <2>3. ASSUME NEW x \in Inbound PROVE MessageInv(x)'
    <3>1. /\ \A a \in In' : a.type \in {"PUBLISH", "PUBREL"} => a \in In
          /\ ReleaseLast(toClient, x) => ReleaseLast(toClient', x)
      BY <1>4, ShorterIs
    <3>2. InMsg(x, "PUBREL")' => InMsg(x, "PUBREL")
      BY <3>1 DEF InMsg
    <3>3. InMsg(x, "PUBLISH")' => InMsg(x, "PUBLISH")
      BY <3>1 DEF InMsg
    <3>4. OutAck(x, {"PUBREC"})' => OutAck(x, {"PUBREC"})
      BY <1>2, <1>5, NoneIs DEF OutAck, Adds
    <3>5. OutAck(x, {"PUBACK", "PUBCOMP"})' => OutAck(x, {"PUBACK", "PUBCOMP"}) \/ x = m
      BY <1>2, <1>5, NoneIs DEF OutAck, Adds
    <3>6. Delivered(x)' <=> Delivered(x)
      BY <2>1 DEF Delivered
    <3>7. Holding(x)' <=> Holding(x)
      BY <2>1 DEF Holding
    <3>8. MessageInv(x)
      BY DEF DeliveryInv
    <3>9. Stored(x)'
      BY <1>3, <2>1, <3>2, <3>4, <3>6, <3>8 DEF MessageInv, Stored
    <3>10. Released(x)'
      BY <1>3, <3>1, <3>2, <3>8 DEF MessageInv, Released
    <3>11. Once(x)'
      BY <1>3, <2>1, <3>3, <3>6, <3>7, <3>8 DEF MessageInv, Once
    <3>12. Answered(x)'
      BY <2>2, <3>5, <3>6, <3>8 DEF MessageInv, Answered
    <3> QED
      BY <3>9, <3>10, <3>11, <3>12 DEF MessageInv
  <2>4. HeldAnswer'
    BY <2>1 DEF DeliveryInv, HeldAnswer
  <2> QED
    BY <2>3, <2>4 DEF DeliveryInv
<1> QED
  BY <1>10, <1>11

\* A PUBLISH, repeated or not, keeps what is said about messages.
LEMMA OnPublishKeeps == ASSUME TypeOK, IdsApart, DeliveryInv, OnPublish PROVE DeliveryInv'
<1>1. PICK m : m = Head(toClient).id
  OBVIOUS
<1>2. /\ m \in Inbound
      /\ \/ /\ broker.qos[m] # 2
            /\ \E p \in {None, Packet("PUBACK", m, "nobody")} :
                  /\ Adds(p)
                  /\ \/ /\ incomingQos2' = incomingQos2 \ {m} /\ rx' = <<>>
                        /\ delivered' = Append(delivered, m)
                     \/ /\ incomingQos2' = incomingQos2 /\ rx' = <<m, p>>
                        /\ delivered' = delivered /\ Out' = Out
         \/ /\ broker.qos[m] = 2 /\ incomingQos2' = incomingQos2 \cup {m}
            /\ Adds(Packet("PUBREC", m, "nobody")) /\ UNCHANGED <<delivered, rx>>
  BY <1>1, OnPublishEffect
<1>3. /\ toClient \in Seq(Packets) /\ toClient # <<>> /\ toClient' = Tail(toClient) /\ broker' = broker
      /\ Head(toClient) \in In /\ Head(toClient).type = "PUBLISH" /\ In' \subseteq In
  BY IncomingEffect DEF OnPublish
<1>4. Shorter
  BY <1>3 DEF Shorter
<1>5. CASE broker.qos[m] # 2
  <2>1. PICK p \in {None, Packet("PUBACK", m, "nobody")} :
                  /\ Adds(p)
                  /\ \/ /\ incomingQos2' = incomingQos2 \ {m} /\ rx' = <<>>
                        /\ delivered' = Append(delivered, m)
                     \/ /\ incomingQos2' = incomingQos2 /\ rx' = <<m, p>>
                        /\ delivered' = delivered /\ Out' = Out
    BY <1>2, <1>5
  <2>2. AnswerFor(m, p)
    BY DEF AnswerFor, Packet
  <2>3. CASE incomingQos2' = incomingQos2 \ {m} /\ rx' = <<>> /\ delivered' = Append(delivered, m)
    BY <1>2, <1>3, <1>4, <1>5, <2>1, <2>2, <2>3, DeliveringKeeps
  <2>4. CASE incomingQos2' = incomingQos2 /\ rx' = <<m, p>> /\ delivered' = delivered /\ Out' = Out
    BY <1>2, <1>3, <1>4, <1>5, <2>1, <2>2, <2>4, HoldingKeeps
  <2> QED
    BY <2>1, <2>3, <2>4
<1>6. CASE broker.qos[m] = 2
  <2>1. PICK rec : rec = Packet("PUBREC", m, "nobody")
    OBVIOUS
  <2>2. incomingQos2' = incomingQos2 \cup {m} /\ Adds(rec) /\ UNCHANGED <<delivered, rx>>
    BY <1>2, <1>6, <2>1
  <2>3. rec.id = m /\ rec.type = "PUBREC"
    BY <2>1 DEF Packet
  <2>4. InMsg(m, "PUBLISH")
    BY <1>1, <1>3 DEF InMsg
  <2>5. ASSUME NEW x \in Inbound PROVE MessageInv(x)'
    <3>1. /\ \A a \in In' : a.type \in {"PUBLISH", "PUBREL"} => a \in In
          /\ ReleaseLast(toClient, x) => ReleaseLast(toClient', x)
      BY <1>4, ShorterIs
    <3>2. InMsg(x, "PUBREL")' => InMsg(x, "PUBREL")
      BY <3>1 DEF InMsg
    <3>3. InMsg(x, "PUBLISH")' => InMsg(x, "PUBLISH")
      BY <3>1 DEF InMsg
    <3>4. OutAck(x, {"PUBREC"})' => OutAck(x, {"PUBREC"}) \/ x = m
      BY <2>2, <2>3, NoneIs DEF OutAck, Adds
    <3>5. OutAck(x, {"PUBACK", "PUBCOMP"})' => OutAck(x, {"PUBACK", "PUBCOMP"})
      BY <2>2, <2>3, NoneIs DEF OutAck, Adds
    <3>6. Delivered(x)' <=> Delivered(x)
      BY <2>2 DEF Delivered
    <3>7. Holding(x)' <=> Holding(x)
      BY <2>2 DEF Holding
    <3>8. MessageInv(x)
      BY DEF DeliveryInv
    <3>9. Stored(x)'
      BY <1>3, <2>2, <3>2, <3>4, <3>6, <3>8 DEF MessageInv, Stored
    <3>10. Released(x)'
      BY <1>3, <3>1, <3>2, <3>8 DEF MessageInv, Released
    <3>11. Once(x)'
      <4>1. CASE x = m
        <5>1. ~Delivered(x) /\ ~Holding(x)
          BY <1>6, <2>4, <3>8, <4>1 DEF MessageInv, Once
        <5> QED
          BY <2>2, <3>6, <3>7, <3>8, <5>1, <1>3 DEF MessageInv, Once
      <4>2. CASE x # m
        BY <1>3, <2>2, <3>3, <3>6, <3>7, <3>8, <4>2 DEF MessageInv, Once
      <4> QED
        BY <4>1, <4>2
    <3>12. Answered(x)'
      BY <3>5, <3>6, <3>8 DEF MessageInv, Answered
    <3> QED
      BY <3>9, <3>10, <3>11, <3>12 DEF MessageInv
  <2>6. HeldAnswer'
    BY <2>2 DEF DeliveryInv, HeldAnswer
  <2> QED
    BY <2>5, <2>6 DEF DeliveryInv
<1> QED
  BY <1>5, <1>6

\* The broker's taking of an acknowledgement keeps what is said about messages.
LEMMA BrokerTakesKeeps == ASSUME TypeOK, DeliveryInv, BrokerTakes PROVE DeliveryInv'
<1>1. PICK p : p = Head(toBroker)
  OBVIOUS
<1>2. /\ p \in Packets /\ p \in Out /\ Out' \subseteq Out /\ broker'.qos = broker.qos
      /\ \A m \in Inbound : broker'.msg[m] =
                 IF p.id = m /\ p.type \in Acks /\ broker.msg[m] # "done"
                 THEN (IF p.type = "PUBREC" THEN "rec" ELSE "done") ELSE broker.msg[m]
      /\ UNCHANGED <<incomingQos2, delivered, rx>>
  BY <1>1, BrokerTakesEffect DEF client, queues
<1>3. PICK a \in Answers(p) : toClient' = IF a = None THEN toClient ELSE Append(toClient, a)
  BY <1>1, BrokerTakesEffect
<1>4. /\ toClient \in Seq(Packets) /\ (a # None => a \in Packets)
      /\ a # None => a.type # "PUBLISH" /\ (a.type = "PUBREL" => p.type = "PUBREC" /\ a.id = p.id)
  BY <1>2, AnswerIsPacket, AnswersAre DEF TypeOK, WireTyped, Replies
<1>5. In' \subseteq In \cup ({a} \ {None})
  BY <1>3, <1>4, ElemsAppend, ElemsOut, ElemsOutNext
<1>6. ASSUME NEW m \in Inbound PROVE MessageInv(m)'
  <2>1. MessageInv(m)
    BY DEF DeliveryInv
  <2>2. InMsg(m, "PUBREL")' => InMsg(m, "PUBREL") \/ (p.type = "PUBREC" /\ p.id = m)
    BY <1>4, <1>5 DEF InMsg
  <2>3. InMsg(m, "PUBLISH")' => InMsg(m, "PUBLISH")
    BY <1>4, <1>5 DEF InMsg
  <2>4. OutAck(m, {"PUBREC"})' => OutAck(m, {"PUBREC"})
    BY <1>2 DEF OutAck
  <2>5. OutAck(m, {"PUBACK", "PUBCOMP"})' => OutAck(m, {"PUBACK", "PUBCOMP"})
    BY <1>2 DEF OutAck
  <2>6. p.type = "PUBREC" /\ p.id = m => OutAck(m, {"PUBREC"})
    BY <1>2 DEF OutAck
  <2>7. Delivered(m)' <=> Delivered(m)
    BY <1>2 DEF Delivered
  <2>8. Holding(m)' <=> Holding(m)
    BY <1>2 DEF Holding
  <2>9. /\ broker.msg[m] \in Late => broker'.msg[m] \in Late
        /\ p.type = "PUBREC" /\ p.id = m => broker'.msg[m] \in Late
        /\ broker'.msg[m] = "rec" => broker.msg[m] = "rec" \/ (p.type = "PUBREC" /\ p.id = m)
    BY <1>2 DEF Late, Acks
  <2>10. Stored(m)'
    BY <1>2, <2>1, <2>2, <2>4, <2>6, <2>7, <2>9 DEF MessageInv, Stored
  <2>11. ReleaseLast(toClient', m)
    <3>1. ReleaseLast(toClient, m)
      BY <2>1 DEF MessageInv, Released
    <3> QED
      BY <1>3, <1>4, <3>1, ReleaseLastAppend
  <2>12. Released(m)'
    BY <2>1, <2>2, <2>9, <2>11 DEF MessageInv, Released
  <2>13. Once(m)'
    BY <1>2, <2>1, <2>3, <2>7, <2>8, <2>9 DEF MessageInv, Once
  <2>14. Answered(m)'
    BY <2>1, <2>5, <2>7 DEF MessageInv, Answered
  <2> QED
    BY <2>10, <2>12, <2>13, <2>14 DEF MessageInv
<1>7. HeldAnswer'
  BY <1>2 DEF DeliveryInv, HeldAnswer
<1> QED
  BY <1>6, <1>7 DEF DeliveryInv

\* The broker's sending of a message keeps what is said about messages.
LEMMA BrokerPublishesKeeps ==
    ASSUME TypeOK, DeliveryInv, NEW m0 \in Inbound, BrokerPublishes(m0) PROVE DeliveryInv'
<1>1. PICK p : p = Packet(IF broker.msg[m0] = "rec" THEN "PUBREL" ELSE "PUBLISH", m0, "ok")
  OBVIOUS
<1>2. /\ p \in Packets /\ p.id = m0 /\ p.type = (IF broker.msg[m0] = "rec" THEN "PUBREL" ELSE "PUBLISH")
      /\ broker.msg[m0] \in {"new", "sent", "rec"} /\ toClient' = Append(toClient, p)
      /\ broker'.qos = broker.qos
      /\ \A x \in Inbound : broker'.msg[x] = IF x = m0 /\ broker.msg[m0] = "new" THEN "sent" ELSE broker.msg[x]
      /\ UNCHANGED <<incomingQos2, delivered, rx, tx, putting, sending, toBroker>>
  BY <1>1, BrokerPublishesEffect DEF client, queues
<1>3. Out' = Out
  BY <1>2, ElemsOut, ElemsOutNext
<1>4. toClient \in Seq(Packets) /\ In' \subseteq In \cup {p}
  BY <1>2, ElemsAppend, ElemsOut, ElemsOutNext DEF TypeOK, WireTyped
<1>5. ASSUME NEW m \in Inbound PROVE MessageInv(m)'
  <2>1. MessageInv(m)
    BY DEF DeliveryInv
  <2>2. InMsg(m, "PUBREL")' => InMsg(m, "PUBREL") \/ broker.msg[m] = "rec"
    BY <1>2, <1>4 DEF InMsg
  <2>3. InMsg(m, "PUBLISH")' => InMsg(m, "PUBLISH") \/ broker.msg[m] \in {"new", "sent"}
    BY <1>2, <1>4 DEF InMsg
  <2>4. OutAck(m, {"PUBREC"})' => OutAck(m, {"PUBREC"})
    BY <1>3 DEF OutAck
  <2>5. OutAck(m, {"PUBACK", "PUBCOMP"})' => OutAck(m, {"PUBACK", "PUBCOMP"})
    BY <1>3 DEF OutAck
  <2>6. Delivered(m)' <=> Delivered(m)
    BY <1>2 DEF Delivered
  <2>7. Holding(m)' <=> Holding(m)
    BY <1>2 DEF Holding
  <2>8. /\ broker.msg[m] \in Late => broker'.msg[m] \in Late
        /\ broker'.msg[m] = "rec" <=> broker.msg[m] = "rec"
    BY <1>2 DEF Late
  <2>9. Stored(m)'
    BY <1>2, <2>1, <2>2, <2>4, <2>6, <2>8 DEF MessageInv, Stored
  <2>10. ReleaseLast(toClient', m)
    <3>1. ReleaseLast(toClient, m)
      BY <2>1 DEF MessageInv, Released
    <3>2. p.id = m /\ p.type = "PUBLISH" => ~InMsg(m, "PUBREL")
      BY <1>2, <2>1 DEF MessageInv, Released, Late
    <3>3. p.id = m /\ p.type = "PUBLISH" => ~\E a \in Elems(toClient) : a.id = m /\ a.type = "PUBREL"
      BY <3>2, ElemsOut DEF InMsg
    <3> QED
      BY <1>2, <1>4, <3>1, <3>3, ReleaseLastAppend
  <2>11. Released(m)'
    <3>1. broker.msg[m] = "rec" => broker'.msg[m] \in Late
      BY <2>8 DEF Late
    <3> QED
      BY <2>1, <2>2, <2>8, <2>10, <3>1 DEF MessageInv, Released
  <2>12. Once(m)'
    <3>1. broker.msg[m] \in Late => broker.msg[m] \notin {"new", "sent"}
      BY DEF Late
    <3> QED
      BY <1>2, <2>1, <2>3, <2>6, <2>7, <2>8, <3>1 DEF MessageInv, Once
  <2>13. Answered(m)'
    BY <2>1, <2>5, <2>6 DEF MessageInv, Answered
  <2> QED
    BY <2>9, <2>11, <2>12, <2>13 DEF MessageInv
<1>6. HeldAnswer'
  BY <1>2 DEF DeliveryInv, HeldAnswer
<1> QED
  BY <1>5, <1>6 DEF DeliveryInv

--------------------------------------------------------------------------------
(* The ids of packets, and the steps that are not about a message of the       *)
(* broker.                                                                     *)

\* When a step touches no message.
LEMMA CalmBy ==
    ASSUME TypeOK, NEW p, Adds(p), p.type \notin Acks, Shorter, UNCHANGED <<incomingQos2, delivered>>,
           rx' \in {rx, <<>>}, broker'.msg = broker.msg, broker'.qos = broker.qos
    PROVE  Calm
BY NoneIs DEF Calm, Adds, Acks

\* An empty slot acknowledges nothing.
LEMMA NoneIsGood == GoodOut(None) /\ None.type \notin Acks
BY NoneIs DEF GoodOut, Acks, Asks, AnswerTo

\* When the ids stay apart.
LEMMA ApartBy ==
    ASSUME IdsApart, NEW p, Adds(p), GoodOut(p), \A a \in In' : a \in In \/ GoodIn(a)
    PROVE  IdsApart'
<1>1. \A q \in Out' : GoodOut(q)
  BY NoneIsGood DEF IdsApart, Adds
<1>2. \A a \in In' : GoodIn(a)
  BY DEF IdsApart
<1> QED
  BY <1>1, <1>2 DEF IdsApart, GoodOut, GoodIn

\* Out depends on its four places only.
LEMMA OutSame ==
    ASSUME UNCHANGED <<tx, putting, sending, toBroker>>
    PROVE  Out' = Out /\ Adds(None)
BY ElemsOut, ElemsOutNext DEF Adds

\* In depends on the wire only.
LEMMA InSame == ASSUME toClient' = toClient PROVE In' = In /\ Shorter
BY ElemsOut, ElemsOutNext DEF Shorter

\* A step that is not about a message, and adds p to what is on its way out.
Plain(p) == Adds(p) /\ GoodOut(p) /\ p.type \notin Acks /\ Calm /\ \A a \in In' : a \in In \/ GoodIn(a)

\* Abort() is plain: nothing happens to the messages of the broker.
LEMMA AbortPlain == ASSUME TypeOK, NEW d, Abort(d) PROVE Plain(None)
<1>1. /\ Adds(None) /\ toClient' = <<>> /\ In' = {} /\ rx' = <<>> /\ broker' = [broker EXCEPT !.up = FALSE]
      /\ UNCHANGED <<incomingQos2, delivered>>
  BY AbortEffect
<1>2. broker'.msg = broker.msg /\ broker'.qos = broker.qos
  BY <1>1 DEF TypeOK, WireTyped, BrokerSet
<1>3. Calm
  BY <1>1, <1>2, NoneIsGood, CalmBy DEF Shorter
<1> QED
  BY <1>1, <1>3, NoneIsGood DEF Plain

\* The step leaves the queues, the connection and the broker alone.
LEMMA IdlePlain ==
    ASSUME TypeOK, UNCHANGED <<tx, putting, sending, toBroker>>, UNCHANGED <<toClient, broker, rx, incomingQos2, delivered>>
    PROVE  Plain(None)
BY OutSame, InSame, NoneIsGood, CalmBy DEF Plain

\* A put() of a packet that acknowledges nothing is plain.
LEMMA PutPlain ==
    ASSUME TypeOK, NEW o \in Owners, NEW p \in Packets, Put(o, p), GoodOut(p), p.type \notin Acks,
           UNCHANGED <<tx, toBroker, toClient, broker, rx, incomingQos2, delivered>>
    PROVE  Plain(p)
<1>1. Adds(p)
  BY PutAdds
<1> QED
  BY <1>1, InSame, CalmBy DEF Plain

\* The broker's CONNACK, which ends connect() is plain: nothing happens to the
\* messages of the broker.
LEMMA HandshakePlain == ASSUME TypeOK, Handshake PROVE Plain(None)
<1>1. CASE Abort(done)
  BY <1>1, AbortPlain
<1>2. CASE ~Abort(done)
  BY <1>2, IdlePlain DEF Handshake, queues, wire
<1> QED
  BY <1>1, <1>2

\* A call that the closed client refuses is plain: nothing happens to the messages
\* of the broker.
LEMMA RefusedPlain == ASSUME TypeOK, NEW c \in Calls, Refused(c) PROVE Plain(None)
BY IdlePlain DEF Refused, queues, wire

\* Publish(), subscribe() or unsubscribe() up to its put() is plain: nothing
\* happens to the messages of the broker.
LEMMA RequestPlain ==
    ASSUME TypeOK, NEW c \in Calls, NEW op \in Ops, NEW sync \in BOOLEAN, Request(c, op, sync),
           NEW id, NEW who, Asking(c, op, sync, id, who)
    PROVE  /\ Plain(Packet(op, id, who)) /\ UNCHANGED <<toClient, broker>>
           /\ \A q \in Calls : putting'[q] = putting[q] \/ (q = c /\ Len(sending) >= SendCap)
<1>1. op \in Requests /\ op \in Types /\ c \in Owners
  BY MqttAssumption, Bounds DEF Requests, Types
<1>2. PICK p : p = Packet(op, id, who)
  OBVIOUS
<1>3. /\ p \in Packets /\ p.type = op /\ p.id = id /\ p.done = who /\ id \in 0..MaxId
      /\ who \in Calls \cup {"nobody"} /\ Put(c, p)
  BY <1>1, <1>2, PacketIsPacket DEF Asking, Ids, Tokens
<1>4. UNCHANGED <<tx, toBroker, toClient, broker, rx, incomingQos2, delivered>>
  BY DEF Request, wire
<1>5. GoodOut(p) /\ p.type \notin Acks
  BY <1>1, <1>3 DEF GoodOut, Acks, Requests
<1>6. Plain(p)
  BY <1>1, <1>3, <1>4, <1>5, PutPlain
<1>7. \A q \in Calls : putting'[q] = putting[q] \/ (q = c /\ Len(sending) >= SendCap)
  BY <1>1, <1>3, <1>4, PutAdds, Bounds
<1> QED
  BY <1>2, <1>4, <1>6, <1>7

\* The return of a blocked sendingQueue.put() is plain: nothing happens to the
\* messages of the broker.
LEMMA PutGoesOnPlain == ASSUME TypeOK, NEW o \in Owners, PutGoesOn(o) PROVE Plain(None) /\ Out' \subseteq Out \cup {None}
<1>1. /\ sending \in Seq(Packets) /\ putting \in [Owners -> Packets] /\ putting[o] \in Packets
      /\ sending' = Append(sending, putting[o]) /\ putting' = [putting EXCEPT ![o] = None]
      /\ UNCHANGED <<tx, toBroker, toClient, broker, rx, incomingQos2, delivered>>
  BY DEF PutGoesOn, TypeOK, QueuesTyped, client, wire
<1>2. {putting'[q] : q \in Owners} \subseteq {putting[q] : q \in Owners} \cup {None}
  BY <1>1
<1>3. Elems(sending') \subseteq Elems(sending) \cup {putting[o]}
  BY <1>1, ElemsAppend
<1>4. Out' \subseteq Out \cup {None}
  BY <1>1, <1>2, <1>3, ElemsOut, ElemsOutNext
<1>5. Adds(None)
  BY <1>4 DEF Adds
<1> QED
  BY <1>1, <1>4, <1>5, InSame, NoneIsGood, CalmBy DEF Plain

\* The return of done->tryWait() is plain: nothing happens to the messages of the
\* broker.
LEMMA WaitReturnsPlain == ASSUME TypeOK, NEW c \in Calls, WaitReturns(c) PROVE Plain(None)
BY IdlePlain DEF WaitReturns, client, queues, wire

\* Disconnect() up to its put() is plain: nothing happens to the messages of the
\* broker.
LEMMA DisconnectPlain ==
    ASSUME TypeOK, NEW c \in Calls, Disconnect(c)
    PROVE  /\ Plain(Packet("DISCONNECT", 0, c)) /\ UNCHANGED <<toClient, broker>>
           /\ \A q \in Calls : putting'[q] = putting[q] \/ (q = c /\ Len(sending) >= SendCap)
<1>1. PICK p : p = Packet("DISCONNECT", 0, c)
  OBVIOUS
<1>2. /\ p \in Packets /\ p.type = "DISCONNECT" /\ p.done = c /\ c \in Owners /\ Put(c, p)
      /\ UNCHANGED <<tx, toBroker, toClient, broker, rx, incomingQos2, delivered>>
  BY <1>1, DisconnectPacket, Bounds DEF Disconnect, Packet, client, wire
<1>3. GoodOut(p) /\ p.type \notin Acks
  BY <1>2 DEF GoodOut, Acks, Asks, AnswerTo
<1>4. \A q \in Calls : putting'[q] = putting[q] \/ (q = c /\ Len(sending) >= SendCap)
  BY <1>2, PutAdds, Bounds
<1> QED
  BY <1>1, <1>2, <1>3, <1>4, PutPlain

\* The rest of disconnect(), which aborts is plain: nothing happens to the messages
\* of the broker.
LEMMA UserShutdownPlain == ASSUME TypeOK, NEW c \in Calls, UserShutdown(c) PROVE Plain(None)
<1>1. CASE state # "Closed"
  BY <1>1, AbortPlain DEF UserShutdown
<1>2. CASE state = "Closed"
  BY <1>2, IdlePlain DEF UserShutdown, client, queues, wire
<1> QED
  BY <1>1, <1>2

\* Recv() is plain: nothing happens to the messages of the broker.
LEMMA RecvPlain == ASSUME TypeOK, NEW r \in Receivers, Recv(r) PROVE Plain(None)
BY IdlePlain DEF Recv, client, wire

\* DoSend() taking a packet is plain: nothing happens to the messages of the
\* broker.
LEMMA SendTakePlain == ASSUME TypeOK, SendTake PROVE Plain(None)
<1>1. /\ sending \in Seq(Packets) /\ sending # <<>> /\ tx' = Head(sending) /\ sending' = Tail(sending)
      /\ UNCHANGED <<putting, toBroker, toClient, broker, rx, incomingQos2, delivered>>
  BY DEF SendTake, TypeOK, QueuesTyped, client, wire
<1>2. Adds(None)
  BY <1>1, ElemsTail, ElemsOut, ElemsOutNext DEF Adds
<1> QED
  BY <1>1, <1>2, InSame, NoneIsGood, CalmBy DEF Plain

\* DoSend() after sendall() is plain: nothing happens to the messages of the
\* broker.
LEMMA SendWritePlain == ASSUME TypeOK, SendWrite PROVE Plain(None) /\ In' = In
<1>1. /\ toBroker \in Seq(Packets) /\ tx \in Packets /\ tx' = None /\ toBroker' = Append(toBroker, tx)
      /\ UNCHANGED <<putting, sending, toClient, rx, incomingQos2, delivered>>
  BY DEF SendWrite, TypeOK, QueuesTyped, WireTyped
<1>2. Adds(None)
  BY <1>1, ElemsAppend, ElemsOut, ElemsOutNext DEF Adds
<1>3. broker'.msg = broker.msg /\ broker'.qos = broker.qos
  BY SendWriteEffect
<1> QED
  BY <1>1, <1>2, <1>3, InSame, NoneIsGood, CalmBy DEF Plain

\* A sendall() that fails is plain: nothing happens to the messages of the broker.
LEMMA SendFailsPlain == ASSUME TypeOK, SendFails PROVE Plain(None)
BY AbortPlain DEF SendFails

\* A turn of doKeepalive() is plain: nothing happens to the messages of the broker.
LEMMA KeepaliveTickPlain ==
    ASSUME TypeOK, KeepaliveTick
    PROVE  \/ Abort(done)
           \/ /\ \E p \in {None, Packet("PINGREQ", 0, "nobody")} : Plain(p)
              /\ \A c \in Calls : putting'[c] = putting[c]
              /\ UNCHANGED <<state, nextId, waiters, done, toClient, broker>>
<1>1. SUFFICES ASSUME ~Abort(done)
               PROVE  /\ \E p \in {None, Packet("PINGREQ", 0, "nobody")} : Plain(p)
                      /\ \A c \in Calls : putting'[c] = putting[c]
                      /\ UNCHANGED <<state, nextId, waiters, done, toClient, broker>>
  OBVIOUS
<1>2. /\ \/ Put("keepalive", Packet("PINGREQ", 0, "nobody"))
         \/ UNCHANGED <<sending, putting>>
      /\ UNCHANGED <<state, nextId, waiters, incomingQos2, tx, rx, delivered, done, toBroker, toClient, broker>>
  BY <1>1 DEF KeepaliveTick, wire
<1>3. CASE UNCHANGED <<sending, putting>>
  BY <1>2, <1>3, IdlePlain
<1>4. CASE Put("keepalive", Packet("PINGREQ", 0, "nobody"))
  <2>1. PICK p : p = Packet("PINGREQ", 0, "nobody")
    OBVIOUS
  <2>2. p \in Packets /\ p.type = "PINGREQ" /\ p.done = "nobody"
    <3>1. "PINGREQ" \in Types /\ 0 \in Ids /\ "nobody" \in Tokens
      BY Bounds DEF Types, Ids, Tokens
    <3> QED
      BY <2>1, <3>1, PacketIsPacket
  <2>3. GoodOut(p) /\ p.type \notin Acks
    BY <2>2 DEF GoodOut, Acks, Asks, AnswerTo
  <2>4. Plain(p) /\ \A c \in Calls : putting'[c] = putting[c]
    BY <1>2, <1>4, <2>1, <2>2, <2>3, PutPlain, PutAdds, Bounds
  <2> QED
    BY <1>2, <2>1, <2>4
<1> QED
  BY <1>2, <1>3, <1>4

\* A PUBACK, PUBCOMP, SUBACK or UNSUBACK is plain: nothing happens to the messages
\* of the broker.
LEMMA OnAnswerPlain == ASSUME TypeOK, NEW t, OnAnswer(t) PROVE Plain(None)
<1>1. /\ toClient # <<>> /\ toClient' = Tail(toClient) /\ In' \subseteq In
      /\ UNCHANGED <<toBroker, broker>>
  BY IncomingEffect DEF OnAnswer
<1>2. UNCHANGED <<tx, putting, sending, toBroker, rx, incomingQos2, delivered>>
  BY <1>1 DEF OnAnswer, queues
<1> QED
  BY <1>1, <1>2, OutSame, NoneIsGood, CalmBy DEF Plain, Shorter

\* A PINGRESP is plain: nothing happens to the messages of the broker.
LEMMA OnPingRespPlain == ASSUME TypeOK, OnPingResp PROVE Plain(None)
<1>1. /\ toClient # <<>> /\ toClient' = Tail(toClient) /\ In' \subseteq In
      /\ UNCHANGED <<toBroker, broker>>
  BY IncomingEffect DEF OnPingResp
<1>2. UNCHANGED <<tx, putting, sending, toBroker, rx, incomingQos2, delivered>>
  BY <1>1 DEF OnPingResp, queues
<1> QED
  BY <1>1, <1>2, OutSame, NoneIsGood, CalmBy DEF Plain, Shorter

\* A PUBREC, answered by a PUBREL is plain: nothing happens to the messages of the
\* broker.
LEMMA OnPubRecPlain == ASSUME TypeOK, IdsApart, OnPubRec PROVE \E p : Plain(p)
<1>1. PICK id : id = Head(toClient).id
  OBVIOUS
<1>2. /\ toClient # <<>> /\ toClient' = Tail(toClient) /\ In' \subseteq In
      /\ UNCHANGED <<toBroker, broker>>
  BY IncomingEffect DEF OnPubRec
<1>3. UNCHANGED <<rx, incomingQos2, delivered>> /\ id \in 0..MaxId
  BY <1>1, OnPubRecEffect DEF OnPubRec
<1>4. CASE UNCHANGED <<sending, putting, tx, toBroker>>
  BY <1>2, <1>3, <1>4, OutSame, NoneIsGood, CalmBy DEF Plain, Shorter
<1>5. CASE ~UNCHANGED <<sending, putting, tx, toBroker>>
  <2>1. PICK w \in waiters : Adds(Packet("PUBREL", id, w.done))
    BY <1>1, <1>5, OnPubRecEffect DEF MovesOn
  <2>2. PICK p : p = Packet("PUBREL", id, w.done)
    OBVIOUS
  <2>3. GoodOut(p) /\ p.type \notin Acks
    BY <1>3, <2>2 DEF GoodOut, Acks, Packet, TypeOK, ClientTyped, Waiters
  <2> QED
    BY <1>2, <1>3, <2>1, <2>2, <2>3, CalmBy DEF Plain, Shorter
<1> QED
  BY <1>4, <1>5

\* A packet doReceive() cannot use, or the end of the connection is plain: nothing
\* happens to the messages of the broker.
LEMMA ReceiveFailsPlain == ASSUME TypeOK, ReceiveFails PROVE Plain(None)
BY AbortPlain DEF ReceiveFails

\* A failure of the broker is plain: nothing happens to the messages of the broker.
LEMMA BrokerFailsPlain == ASSUME TypeOK, BrokerFails PROVE Plain(None)
<1>1. PICK p : p = Packet("BAD", 0, "ok")
  OBVIOUS
<1>2. /\ p \in Packets /\ p.type = "BAD" /\ toClient' \in {toClient, Append(toClient, p)}
      /\ broker'.qos = broker.qos /\ broker'.msg = broker.msg
      /\ UNCHANGED <<state, client, queues, call, done, recv, toBroker>>
  BY <1>1, BrokerFailsEffect
<1>3. UNCHANGED <<tx, putting, sending, toBroker, rx, incomingQos2, delivered>>
  BY <1>2 DEF queues, client
<1>4. toClient \in Seq(Packets)
  BY DEF TypeOK, WireTyped
<1>5. In' \subseteq In \cup {p}
  BY <1>2, <1>4, ElemsAppend, ElemsOut, ElemsOutNext
<1>6. GoodIn(p)
  BY <1>2 DEF GoodIn, Replies
<1>7. Shorter
  BY <1>2 DEF Shorter
<1> QED
  BY <1>2, <1>3, <1>5, <1>6, <1>7, OutSame, NoneIsGood, CalmBy DEF Plain

\* A plain step keeps the invariant of the messages.
LEMMA PlainKeeps ==
    ASSUME TypeOK, IdsApart, DeliveryInv, NEW p, Plain(p)
    PROVE  IdsApart' /\ DeliveryInv'
BY ApartBy, CalmKeeps DEF Plain

\* The steps about a message of the broker keep the ids apart.
LEMMA OnPublishApart ==
    ASSUME TypeOK, IdsApart, OnPublish
    PROVE  IdsApart' /\ \E p : Adds(p) /\ p.done = "nobody" /\ p.type \notin Asks
<1>1. PICK m : m = Head(toClient).id
  OBVIOUS
<1>2. m \in Inbound
  BY <1>1, OnPublishEffect
<1>3. PICK p \in {None, Packet("PUBACK", m, "nobody"), Packet("PUBREC", m, "nobody")} : Adds(p)
  BY <1>1, OnPublishEffect
<1>4. GoodOut(p) /\ p.done = "nobody" /\ p.type \notin Asks
  BY <1>2 DEF GoodOut, Packet, None, Acks, Asks, AnswerTo
<1>5. In' \subseteq In
  BY IncomingEffect DEF OnPublish
<1> QED
  BY <1>3, <1>4, <1>5, ApartBy

\* An incoming PUBREL keeps the ids of the two directions apart.
LEMMA OnPubRelApart ==
    ASSUME TypeOK, IdsApart, OnPubRel
    PROVE  IdsApart' /\ \E p : Adds(p) /\ p.done = "nobody" /\ p.type \notin Asks
<1>1. PICK m, p : m = Head(toClient).id /\ p = Packet("PUBCOMP", m, "nobody")
  OBVIOUS
<1>2. m \in Inbound /\ Adds(p)
  BY <1>1, OnPubRelEffect
<1>3. GoodOut(p) /\ p.done = "nobody" /\ p.type \notin Asks
  BY <1>1, <1>2 DEF GoodOut, Packet, None, Acks, Asks, AnswerTo
<1>4. In' \subseteq In
  BY IncomingEffect DEF OnPubRel
<1> QED
  BY <1>2, <1>3, <1>4, ApartBy

\* The return of a blocked receivingQueue.put() keeps the ids of the two directions
\* apart.
LEMMA DeliverGoesOnApart ==
    ASSUME TypeOK, IdsApart, DeliveryInv, DeliverGoesOn
    PROVE  /\ IdsApart' /\ \E p : Adds(p) /\ p.done = "nobody" /\ p.type \notin Asks
           /\ In' = In /\ \A c \in Calls : putting'[c] = putting[c]
<1>1. PICK m, p : m = rx[1] /\ p = rx[2]
  OBVIOUS
<1>2. /\ m \in Inbound /\ p \in Packets /\ Delivers(m, p) /\ UNCHANGED <<tx, toBroker, toClient>>
      /\ rx # <<>>
  BY <1>1, RxIs DEF DeliverGoesOn, wire
<1>3. Adds(p) /\ \A c \in Calls : putting'[c] = putting[c]
  BY <1>2, DeliversEffect
<1>4. p = None \/ (p.id = m /\ p.type \in {"PUBACK", "PUBCOMP"} /\ p.done = "nobody")
  BY <1>1, <1>2 DEF DeliveryInv, HeldAnswer
<1>5. GoodOut(p) /\ p.done = "nobody" /\ p.type \notin Asks
  BY <1>2, <1>4, NoneIs, NoneIsGood DEF GoodOut, Acks, Asks, AnswerTo
<1>6. In' = In
  BY <1>2, InSame
<1> QED
  BY <1>3, <1>5, <1>6, ApartBy

\* The broker taking a packet and answering it keeps the ids of the two directions
\* apart.
LEMMA BrokerTakesApart == ASSUME TypeOK, IdsApart, BrokerTakes PROVE IdsApart'
<1>1. PICK p : p = Head(toBroker)
  OBVIOUS
<1>2. p \in Packets /\ p \in Out /\ Out' \subseteq Out
  BY <1>1, BrokerTakesEffect
<1>3. PICK a \in Answers(p) : toClient' = IF a = None THEN toClient ELSE Append(toClient, a)
  BY <1>1, BrokerTakesEffect
<1>4. toClient \in Seq(Packets) /\ (a # None => a \in Packets)
  BY <1>2, AnswerIsPacket DEF TypeOK, WireTyped
<1>5. In' \subseteq In \cup ({a} \ {None})
  BY <1>3, <1>4, ElemsAppend, ElemsOut, ElemsOutNext
<1>6. GoodOut(p)
  BY <1>2 DEF IdsApart
<1>7. a # None => GoodIn(a)
  <2>1. SUFFICES ASSUME a # None PROVE GoodIn(a)
    OBVIOUS
  <2>2. /\ a.type \in Replies \cup {"PUBREL", "PINGRESP"}
        /\ a.type \in Replies => p.type \in Asks /\ a.id = p.id
        /\ a.type = "PUBREL" => p.type = "PUBREC" /\ a.id = p.id
    BY <1>2, <2>1, AnswersAre
  <2>3. a.type # "PUBLISH"
    BY <2>2 DEF Replies
  <2> QED
    BY <1>6, <2>2, <2>3 DEF GoodIn, GoodOut, Acks
<1>8. Adds(None)
  BY <1>2 DEF Adds
<1> QED
  BY <1>5, <1>7, <1>8, NoneIsGood, ApartBy

\* The broker sending a message, for the first time or again keeps the ids of the
\* two directions apart.
LEMMA BrokerPublishesApart == ASSUME TypeOK, IdsApart, NEW m \in Inbound, BrokerPublishes(m) PROVE IdsApart'
<1>1. PICK p : p = Packet(IF broker.msg[m] = "rec" THEN "PUBREL" ELSE "PUBLISH", m, "ok")
  OBVIOUS
<1>2. /\ p \in Packets /\ p.id = m /\ p.type \in {"PUBREL", "PUBLISH"} /\ toClient' = Append(toClient, p)
      /\ UNCHANGED <<queues, toBroker>>
  BY <1>1, BrokerPublishesEffect
<1>3. UNCHANGED <<tx, putting, sending, toBroker>>
  BY <1>2 DEF queues
<1>4. In' \subseteq In \cup {p}
  BY <1>2, ElemsAppend, ElemsOut, ElemsOutNext DEF TypeOK, WireTyped
<1>5. GoodIn(p)
  BY <1>2 DEF GoodIn, Replies
<1> QED
  BY <1>3, <1>4, <1>5, OutSame, NoneIsGood, ApartBy

--------------------------------------------------------------------------------
(* The messages of the broker: the theorem. *)

MessagesInv == TypeOK /\ IdsApart /\ DeliveryInv

\* The invariant of the messages holds for a new client.
LEMMA InitMessages == ASSUME Init PROVE MessagesInv
<1>1. broker \in BrokerSet /\ \A m \in Inbound : broker.msg[m] = "new"
  <2>1. broker \in [up : {TRUE}, mute : {FALSE}, taken : {{}}, written : {{}}, dups : {0}, failures : {0},
                   msg : [Inbound -> {"new"}], qos : [Inbound -> 0..2]]
    BY DEF Init
  <2>2. [Inbound -> {"new"}] \subseteq [Inbound -> {"new", "sent", "rec", "done"}]
    OBVIOUS
  <2>3. {0} \subseteq Nat /\ {{}} \subseteq SUBSET Calls /\ {TRUE} \subseteq BOOLEAN /\ {FALSE} \subseteq BOOLEAN
    OBVIOUS
  <2>4. broker \in BrokerSet
    BY <2>1, <2>2, <2>3 DEF BrokerSet
  <2>5. broker.msg \in [Inbound -> {"new"}]
    BY <2>1
  <2> QED
    BY <2>4, <2>5
<1>2. TypeOK
  <2>1. ClientTyped
    <3>1. /\ state = "Connecting" /\ nextId = 1 /\ waiters = {} /\ incomingQos2 = {}
          /\ awaitingPingResp = FALSE /\ quiet = 0 /\ keepalive = FALSE
      BY DEF Init
    <3>2. 1 \in 1..MaxId
      BY Bounds
    <3> QED
      BY <3>1, <3>2 DEF ClientTyped, States
  <2>2. QueuesTyped
    BY NoneIsPacket DEF Init, QueuesTyped
  <2>3. CallsTyped
    BY DEF Init, CallsTyped
  <2>4. WireTyped
    BY <1>1 DEF Init, WireTyped
  <2> QED
    BY <2>1, <2>2, <2>3, <2>4 DEF TypeOK
<1>3. Out \subseteq {None} /\ In = {}
  BY DEF Init, Out, In
<1>4. IdsApart
  BY <1>3, NoneIsGood DEF IdsApart
<1>5. ASSUME NEW m \in Inbound PROVE MessageInv(m)
  <2>1. ~Delivered(m) /\ ~Holding(m) /\ ~InMsg(m, "PUBREL") /\ ~InMsg(m, "PUBLISH")
    BY <1>3 DEF Init, Delivered, Holding, InMsg
  <2>2. ~OutAck(m, {"PUBREC"}) /\ ~OutAck(m, {"PUBACK", "PUBCOMP"})
    BY <1>3, NoneIs DEF OutAck
  <2>3. ReleaseLast(toClient, m) /\ delivered = <<>> /\ broker.msg[m] = "new"
    BY <1>1 DEF Init, ReleaseLast
  <2> QED
    BY <2>1, <2>2, <2>3 DEF MessageInv, Stored, Released, Once, Answered
<1>6. HeldAnswer
  BY DEF Init, HeldAnswer
<1> QED
  BY <1>2, <1>4, <1>5, <1>6 DEF MessagesInv, DeliveryInv

\* Stuttering keeps the invariant of the messages.
LEMMA StutterMessages == ASSUME MessagesInv, UNCHANGED vars PROVE MessagesInv'
<1>1. TypeOK'
  BY DEF MessagesInv, vars, client, queues, wire, TypeOK, ClientTyped, QueuesTyped, CallsTyped, WireTyped
<1>2. UNCHANGED <<tx, putting, sending, toBroker>> /\ UNCHANGED <<toClient, broker, rx, incomingQos2, delivered>>
  BY DEF vars, client, queues, wire
<1>3. Plain(None)
  BY <1>2, IdlePlain DEF MessagesInv
<1> QED
  BY <1>1, <1>3, PlainKeeps DEF MessagesInv

\* Every step keeps the invariant of the messages.
LEMMA NextMessages == ASSUME MessagesInv, Next PROVE MessagesInv'
<1>0. TypeOK /\ IdsApart /\ DeliveryInv
  BY DEF MessagesInv
<1>1. CASE Handshake
  BY <1>0, <1>1, HandshakeTyped, HandshakePlain, PlainKeeps DEF MessagesInv
<1>2. ASSUME NEW c \in Calls, Refused(c) PROVE MessagesInv'
  BY <1>0, <1>2, RefusedTyped, RefusedPlain, PlainKeeps DEF MessagesInv
<1>3. ASSUME NEW c \in Calls, NEW op \in Ops, NEW sync \in BOOLEAN, Request(c, op, sync) PROVE MessagesInv'
  <2>1. PICK id, who : Asking(c, op, sync, id, who)
    BY <1>0, <1>3, RequestAsks
  <2>2. Plain(Packet(op, id, who))
    BY <1>0, <1>3, <2>1, RequestPlain
  <2> QED
    BY <1>0, <1>3, <2>2, RequestTyped, PlainKeeps DEF MessagesInv
<1>4. ASSUME NEW c \in Calls, WaitReturns(c) PROVE MessagesInv'
  BY <1>0, <1>4, WaitReturnsTyped, WaitReturnsPlain, PlainKeeps DEF MessagesInv
<1>5. ASSUME NEW c \in Calls, Disconnect(c) PROVE MessagesInv'
  BY <1>0, <1>5, DisconnectTyped, DisconnectPlain, PlainKeeps DEF MessagesInv
<1>6. ASSUME NEW c \in Calls, AbortCall(c) \/ DisconnectEnds(c) PROVE MessagesInv'
  <2>1. UserShutdown(c)
    BY <1>6 DEF AbortCall, DisconnectEnds
  <2> QED
    BY <1>0, <2>1, UserShutdownTyped, UserShutdownPlain, PlainKeeps DEF MessagesInv
<1>7. ASSUME NEW o \in Owners, PutGoesOn(o) PROVE MessagesInv'
  BY <1>0, <1>7, PutGoesOnTyped, PutGoesOnPlain, PlainKeeps DEF MessagesInv
<1>8. ASSUME NEW r \in Receivers, Recv(r) PROVE MessagesInv'
  BY <1>0, <1>8, RecvTyped, RecvPlain, PlainKeeps DEF MessagesInv
<1>9. CASE SendTake
  BY <1>0, <1>9, SendTakeTyped, SendTakePlain, PlainKeeps DEF MessagesInv
<1>10. CASE SendWrite
  BY <1>0, <1>10, SendWriteTyped, SendWritePlain, PlainKeeps DEF MessagesInv
<1>11. CASE SendFails
  BY <1>0, <1>11, SendFailsTyped, SendFailsPlain, PlainKeeps DEF MessagesInv
<1>12. CASE KeepaliveTick
  <2>1. \E p : Plain(p)
    BY <1>0, <1>12, KeepaliveTickPlain, AbortPlain
  <2> QED
    BY <1>0, <1>12, <2>1, KeepaliveTickTyped, PlainKeeps DEF MessagesInv
<1>13. CASE DeliverGoesOn
  BY <1>0, <1>13, DeliverGoesOnTyped, DeliverGoesOnApart, DeliverGoesOnKeeps DEF MessagesInv
<1>14. CASE OnPublish
  BY <1>0, <1>14, OnPublishTyped, OnPublishApart, OnPublishKeeps DEF MessagesInv
<1>15. CASE OnPubRel
  BY <1>0, <1>15, OnPubRelTyped, OnPubRelApart, OnPubRelKeeps DEF MessagesInv
<1>16. CASE OnPubRec
  BY <1>0, <1>16, OnPubRecTyped, OnPubRecPlain, PlainKeeps DEF MessagesInv
<1>17. CASE OnPingResp
  BY <1>0, <1>17, OnPingRespTyped, OnPingRespPlain, PlainKeeps DEF MessagesInv
<1>18. CASE ReceiveFails
  BY <1>0, <1>18, ReceiveFailsTyped, ReceiveFailsPlain, PlainKeeps DEF MessagesInv
<1>19. ASSUME NEW t, OnAnswer(t) PROVE MessagesInv'
  BY <1>0, <1>19, OnAnswerTyped, OnAnswerPlain, PlainKeeps DEF MessagesInv
<1>20. CASE BrokerTakes
  BY <1>0, <1>20, BrokerTakesTyped, BrokerTakesApart, BrokerTakesKeeps DEF MessagesInv
<1>21. CASE BrokerFails
  BY <1>0, <1>21, BrokerFailsTyped, BrokerFailsPlain, PlainKeeps DEF MessagesInv
<1>22. ASSUME NEW m \in Inbound, BrokerPublishes(m) PROVE MessagesInv'
  BY <1>0, <1>22, BrokerPublishesTyped, BrokerPublishesApart, BrokerPublishesKeeps DEF MessagesInv
<1> QED
  BY <1>1, <1>2, <1>3, <1>4, <1>5, <1>6, <1>7, <1>8, <1>9, <1>10, <1>11, <1>12, <1>13, <1>14,
     <1>15, <1>16, <1>17, <1>18, <1>19, <1>20, <1>21, <1>22 DEF Next, Client

\* What is delivered once is in the queue's history at one place.
LEMMA TimesIs ==
    ASSUME TypeOK, NEW m
    PROVE  /\ Delivered(m) => Times(m) >= 1
           /\ (\A i, j \in DOMAIN delivered : delivered[i] = m /\ delivered[j] = m => i = j) => Times(m) <= 1
<1> DEFINE at == {i \in DOMAIN delivered : delivered[i] = m}
<1>1. IsFiniteSet(DOMAIN delivered)
  <2>1. DOMAIN delivered = 1..Len(delivered) /\ Len(delivered) \in Nat
    BY DEF TypeOK, QueuesTyped
  <2> QED
    BY <2>1, FS_Interval
<1>2. IsFiniteSet(at)
  BY <1>1, FS_Subset
<1>3. Cardinality(at) \in Nat /\ (Cardinality(at) = 0 <=> at = {})
  BY <1>2, FS_CardinalityType, FS_EmptySet
<1>4. ASSUME Delivered(m) PROVE Times(m) >= 1
  <2>1. at # {}
    BY <1>4 DEF Delivered
  <2> QED
    BY <1>3, <2>1 DEF Times
<1>5. ASSUME \A i, j \in DOMAIN delivered : delivered[i] = m /\ delivered[j] = m => i = j PROVE Times(m) <= 1
  <2>1. CASE at = {}
    BY <1>3, <2>1 DEF Times
  <2>2. CASE at # {}
    <3>1. PICK i : i \in at
      BY <2>2
    <3>2. at = {i}
      BY <1>5, <3>1
    <3> QED
      BY <3>2, FS_Singleton DEF Times
  <2> QED
    BY <2>1, <2>2
<1> QED
  BY <1>4, <1>5

\* What is acknowledged was delivered, and QoS 2 once, by the invariant of the
\* messages.
LEMMA MessagesDelivery == ASSUME MessagesInv PROVE Delivery
<1>1. ASSUME NEW m \in Inbound
      PROVE  /\ (\E p \in Out : p.id = m /\ p.type \in {"PUBACK", "PUBCOMP"}) => Times(m) >= 1
             /\ broker.qos[m] = 2 => Times(m) <= 1
  <2>1. TypeOK /\ MessageInv(m)
    BY DEF MessagesInv, DeliveryInv
  <2>2. OutAck(m, {"PUBACK", "PUBCOMP"}) => Delivered(m)
    BY <2>1 DEF MessageInv, Answered
  <2>3. broker.qos[m] = 2 => \A i, j \in DOMAIN delivered : delivered[i] = m /\ delivered[j] = m => i = j
    BY <2>1 DEF MessageInv, Once
  <2> QED
    BY <2>1, <2>2, <2>3, TimesIs DEF OutAck
<1> QED
  BY <1>1 DEF Delivery, Out

\* The invariant of the messages holds always.
LEMMA MessagesAlways == Spec => []MessagesInv
<1>1. MessagesInv /\ [Next]_vars => MessagesInv'
  BY NextMessages, StutterMessages
<1> QED
  BY InitMessages, <1>1, PTL DEF Spec

\* For any calls, messages and bounds: a message that was answered with PUBACK or
\* PUBCOMP has been put into receivingQueue, and one of QoS 2 only once, however
\* often the broker sends PUBLISH and PUBREL again.
THEOREM MessagesAreDelivered == Spec => []Delivery
<1>1. MessagesInv => Delivery
  BY MessagesDelivery
<1> QED
  BY <1>1, MessagesAlways, PTL

--------------------------------------------------------------------------------
(* The calls: what keeps each part of their invariant. *)

\* A call that was made stays what it is.
Goes(c) == call[c].at # "idle" => call'[c].at # "idle" /\ call'[c].op = call[c].op

\* When every token still belongs to a call that was made.
LEMMA TokenedBy ==
    ASSUME Tokened, \A c \in Calls : Goes(c),
           \A p \in Out' : p.done \in Calls => p \in Out \/ Named(p)',
           \A w \in waiters' : w.done \in Calls =>
              w \in waiters \/ (/\ call'[w.done].at # "idle" /\ call'[w.done].op \in Confirmed
                                /\ w.answer = "PUBREC" => call'[w.done].op = "PUBLISH2"),
           \A c \in Calls : done'[c] = "true" => done[c] = "true" \/ call'[c].at # "idle"
    PROVE  Tokened'
<1>1. ASSUME NEW p \in Out', p.done \in Calls PROVE Named(p)'
  <2>1. CASE p \in Out
    BY <1>1, <2>1 DEF Tokened, Named, Goes
  <2> QED
    BY <1>1, <2>1
<1>2. \A w \in waiters' : w.done \in Calls =>
          /\ call'[w.done].at # "idle" /\ call'[w.done].op \in Confirmed
          /\ w.answer = "PUBREC" => call'[w.done].op = "PUBLISH2"
  BY DEF Tokened, Goes
<1>3. \A c \in Calls : done'[c] = "true" => call'[c].at # "idle"
  BY DEF Tokened, Goes
<1>4. \A p \in Out' : p.done \in Calls =>
            /\ call'[p.done].at # "idle"
            /\ call'[p.done].op = p.type \/ (p.type = "PUBREL" /\ call'[p.done].op = "PUBLISH2")
  BY <1>1 DEF Named
<1>5. Confirmed' = Confirmed
  BY DEF Confirmed, AnswerTo
<1> QED
  BY <1>2, <1>3, <1>4, <1>5 DEF Tokened, Named

\* When a call that was told true still was taken.
LEMMA TrueBy ==
    ASSUME Tokened, TrueMeansTaken, \A c \in Calls : Goes(c),
           broker.taken \subseteq broker'.taken, broker.written \subseteq broker'.written,
           \A c \in Calls : done'[c] = "true" => done[c] = "true"
              \/ c \in IF call'[c].op \in {"PUBLISH0", "DISCONNECT"} THEN broker'.written ELSE broker'.taken
    PROVE  TrueMeansTaken'
BY DEF TrueMeansTaken, Tokened, Goes

\* When one id still stands for one exchange.
LEMMA OneExchangeBy ==
    ASSUME OneExchange, waiters' \subseteq waiters, broker.taken \subseteq broker'.taken,
           \A p \in Out' : p \in Out \/ p.type \notin Asks,
           \A a \in In' : a \in In \/ a.type \notin Replies
    PROVE  OneExchange'
<1>1. \A v, w \in waiters' : v.id = w.id => v = w
  BY DEF OneExchange
<1>2. \A w \in waiters', p \in Out' : p.type \in Asks /\ p.id = w.id => p.done = w.done
  BY DEF OneExchange
<1>3. \A w \in waiters', a \in In' : a.type \in Replies /\ a.id = w.id /\ w.done \in Calls
                                      => w.done \in broker'.taken
  BY DEF OneExchange
<1>4. Asks' = Asks /\ Replies' = Replies
  BY DEF Asks, AnswerTo, Replies
<1> QED
  BY <1>1, <1>2, <1>3, <1>4 DEF OneExchange

\* A call goes on as it was, or returns.
Returns(c) == /\ call'[c].at = "returned" /\ call[c].at # "put"
              /\ call'[c].op = "none" => done'[c] # "unset"

\* When everybody who waits is still in a map.
LEMMA SeenBy ==
    ASSUME Seen, \A c \in Calls : call'[c] = call[c] \/ Returns(c),
           \A c \in Calls : done[c] # "unset" => done'[c] # "unset",
           \A c \in Calls : done'[c] = "unset" => (c \in DoneOf(waiters) => c \in DoneOf(waiters')),
           \A c \in Calls : putting'[c] \in {putting[c], None},
           state' = "Closed" => waiters' = {}
    PROVE  Seen'
<1>1. ASSUME NEW c \in Calls PROVE SeenCall(c)'
  <2>1. SeenCall(c)
    BY DEF Seen
  <2>2. DoneOf(waiters)' = DoneOf(waiters')
    BY DEF DoneOf
  <2>3. CASE call'[c] = call[c]
    <3>1. MustWait(c)' => MustWait(c)
      BY <2>3 DEF MustWait, Confirmed
    <3>2. MustWait(c)' => c \in DoneOf(waiters')
      BY <2>1, <2>3, <3>1 DEF SeenCall, MustWait
    <3> QED
      BY <2>1, <2>2, <2>3, <3>2 DEF SeenCall
  <2>4. CASE Returns(c)
    BY <2>1, <2>4 DEF SeenCall, MustWait, Returns
  <2> QED
    BY <2>3, <2>4
<1> QED
  BY <1>1 DEF Seen

\* A step that leaves the calls alone, and whose new packets are not theirs.
LEMMA ExchangeFrame ==
    ASSUME ExchangeInv, UNCHANGED <<call, done, waiters>>, state' = "Closed" => state = "Closed",
           broker.taken \subseteq broker'.taken, broker.written \subseteq broker'.written,
           \A p \in Out' : p \in Out \/ (p.type \notin Asks /\ p.done \notin Calls),
           \A a \in In' : a \in In \/ a.type \notin Replies,
           \A c \in Calls : putting'[c] \in {putting[c], None}
    PROVE  ExchangeInv'
<1>1. Seen /\ OneExchange /\ Tokened /\ TrueMeansTaken
  BY DEF ExchangeInv
<1>2. \A c \in Calls : Goes(c)
  BY DEF Goes
<1>3. Tokened'
  BY <1>1, <1>2, TokenedBy
<1>4. TrueMeansTaken'
  BY <1>1, <1>2, TrueBy
<1>5. OneExchange'
  BY <1>1, OneExchangeBy
<1>6. Seen'
  <2>1. state' = "Closed" => waiters' = {}
    BY <1>1 DEF Seen
  <2>2. \A c \in Calls : done'[c] = "unset" => (c \in DoneOf(waiters) => c \in DoneOf(waiters'))
    OBVIOUS
  <2> QED
    BY <1>1, <2>1, <2>2, SeenBy
<1> QED
  BY <1>3, <1>4, <1>5, <1>6 DEF ExchangeInv

\* abort(): every waiter is failed.
Ends(c) == call'[c] = call[c]
           \/ (/\ call'[c].at = "returned" /\ call'[c].op = "DISCONNECT"
               /\ call[c].at = "idle" \/ (call[c].at = "wait" /\ call[c].op = "DISCONNECT"))

\* Abort() keeps one exchange to one id, and everybody who waits in a map.
LEMMA AbortExchange ==
    ASSUME TypeOK, ExchangeInv, NEW d, Abort(d),
           \A c \in Calls : d[c] = done[c] \/ d[c] = "false",
           \A c \in Calls : Ends(c)
    PROVE  ExchangeInv'
<1>1. Seen /\ OneExchange /\ Tokened /\ TrueMeansTaken
  BY DEF ExchangeInv
<1>2. /\ Adds(None) /\ In' = {} /\ waiters' = {} /\ done' = SendTo(d, DoneOf(waiters), "false")
      /\ \A o \in Owners : putting'[o] = putting[o] \/ o \in {"receive", "keepalive"}
      /\ broker' = [broker EXCEPT !.up = FALSE]
  BY AbortEffect
<1>3. broker'.taken = broker.taken /\ broker'.written = broker.written
  BY <1>2 DEF TypeOK, WireTyped, BrokerSet
<1>4. \A c \in Calls : done'[c] = IF c \in DoneOf(waiters) THEN "false" ELSE d[c]
  <2>1. \A c \in Calls : d[c] \in {"unset", "true", "false"}
    BY DEF TypeOK, CallsTyped
  <2> QED
    BY <1>2, <2>1, SendToTyped
<1>5. \A c \in Calls : Goes(c)
  BY DEF Ends, Goes
<1>6. Tokened'
  <2>1. \A p \in Out' : p.done \in Calls => p \in Out
    BY <1>2, NoneIs, Bounds DEF Adds
  <2> QED
    BY <1>1, <1>2, <1>4, <1>5, <2>1, TokenedBy
<1>7. TrueMeansTaken'
  BY <1>1, <1>3, <1>4, <1>5, TrueBy
<1>8. OneExchange'
  <2>1. \A p \in Out' : p \in Out \/ p.type \notin Asks
    BY <1>2, NoneIs DEF Adds, Asks, AnswerTo
  <2> QED
    BY <1>1, <1>2, <1>3, <2>1, OneExchangeBy
<1>9. Seen'
  <2>1. \A c \in Calls : call'[c] = call[c] \/ Returns(c)
    BY DEF Ends, Returns
  <2>2. \A c \in Calls : done[c] # "unset" => done'[c] # "unset"
    BY <1>4
  <2>3. \A c \in Calls : done'[c] = "unset" => (c \in DoneOf(waiters) => c \in DoneOf(waiters'))
    BY <1>4
  <2>4. \A c \in Calls : putting'[c] \in {putting[c], None}
    BY <1>2, Bounds
  <2> QED
    BY <1>1, <1>2, <2>1, <2>2, <2>3, <2>4, SeenBy
<1> QED
  BY <1>6, <1>7, <1>8, <1>9 DEF ExchangeInv

\* A step that adds a packet of no call adds no request.
LEMMA CallsOnly ==
    ASSUME NEW p, Adds(p), p.done \notin Calls, p.type \notin Asks
    PROVE  \A q \in Out' : q \in Out \/ (q.type \notin Asks /\ q.done \notin Calls)
BY NoneIs, Bounds DEF Adds, Asks, AnswerTo

\* Steps of the coroutines that complete no call.
LEMMA QuietExchange ==
    ASSUME ExchangeInv, NEW p, Adds(p), p.done \notin Calls, p.type \notin Asks,
           \A a \in In' : a \in In \/ a.type \notin Replies,
           UNCHANGED <<call, done, waiters>>, state' = "Closed" => state = "Closed",
           broker'.taken = broker.taken, broker'.written = broker.written,
           \A c \in Calls : putting'[c] = putting[c]
    PROVE  ExchangeInv'
BY CallsOnly, ExchangeFrame

\* An empty slot belongs to no call.
LEMMA NoneIsNobodys == None.done \notin Calls /\ None.type \notin Asks
BY NoneIs, Bounds DEF Asks, AnswerTo

\* A step that leaves all calls alone.
LEMMA NoCallEnds == ASSUME call' = call PROVE \A c \in Calls : Ends(c) /\ Goes(c)
BY DEF Ends, Goes

\* The broker's CONNACK, which ends connect() keeps one exchange to one id, and
\* everybody who waits in a map.
LEMMA HandshakeExchange == ASSUME TypeOK, ExchangeInv, Handshake PROVE ExchangeInv'
<1>1. CASE Abort(done)
  BY <1>1, NoCallEnds, AbortExchange DEF Handshake
<1>2. CASE ~Abort(done)
  <2>1. /\ state' = "Connected"
        /\ UNCHANGED <<waiters, call, done, tx, putting, sending, toBroker, toClient, broker>>
    BY <1>2 DEF Handshake, queues, wire
  <2> QED
    BY <2>1, OutSame, InSame, NoneIsNobodys, QuietExchange
<1> QED
  BY <1>1, <1>2

\* Recv() keeps one exchange to one id, and everybody who waits in a map.
LEMMA RecvExchange == ASSUME TypeOK, ExchangeInv, NEW r \in Receivers, Recv(r) PROVE ExchangeInv'
<1>1. UNCHANGED <<state, waiters, call, done, tx, putting, sending, toBroker, toClient, broker>>
  BY DEF Recv, client, wire
<1> QED
  BY <1>1, OutSame, InSame, NoneIsNobodys, QuietExchange

\* DoSend() taking a packet keeps one exchange to one id, and everybody who waits
\* in a map.
LEMMA SendTakeExchange == ASSUME TypeOK, ExchangeInv, SendTake PROVE ExchangeInv'
<1>1. UNCHANGED <<state, waiters, call, done, putting, toClient, broker>>
  BY DEF SendTake, client, wire
<1>2. Adds(None)
  BY SendTakePlain DEF Plain
<1> QED
  BY <1>1, <1>2, InSame, NoneIsNobodys, QuietExchange

\* A turn of doKeepalive() keeps one exchange to one id, and everybody who waits in
\* a map.
LEMMA KeepaliveTickExchange == ASSUME TypeOK, ExchangeInv, KeepaliveTick PROVE ExchangeInv'
<1>1. call' = call
  BY DEF KeepaliveTick
<1>2. CASE Abort(done)
  BY <1>1, <1>2, NoCallEnds, AbortExchange
<1>3. CASE ~Abort(done)
  <2>1. /\ \A c \in Calls : putting'[c] = putting[c]
        /\ UNCHANGED <<state, nextId, waiters, done, toClient, broker>>
    BY <1>3, KeepaliveTickPlain
  <2>2. PICK p \in {None, Packet("PINGREQ", 0, "nobody")} : Plain(p)
    BY <1>3, KeepaliveTickPlain
  <2>3. p.done \notin Calls /\ p.type \notin Asks /\ Adds(p)
    BY <2>2, Bounds DEF None, Packet, Asks, AnswerTo, Plain
  <2> QED
    BY <1>1, <2>1, <2>3, InSame, QuietExchange
<1> QED
  BY <1>2, <1>3

\* The return of a blocked receivingQueue.put() keeps one exchange to one id, and
\* everybody who waits in a map.
LEMMA DeliverGoesOnExchange ==
    ASSUME TypeOK, IdsApart, DeliveryInv, ExchangeInv, DeliverGoesOn PROVE ExchangeInv'
<1>1. UNCHANGED <<state, waiters, call, done, broker>>
  BY DEF DeliverGoesOn, wire
<1>2. PICK p : Adds(p) /\ p.done = "nobody" /\ p.type \notin Asks
  BY DeliverGoesOnApart
<1>3. In' = In /\ \A c \in Calls : putting'[c] = putting[c]
  BY DeliverGoesOnApart
<1> QED
  BY <1>1, <1>2, <1>3, Bounds, QuietExchange

\* An incoming PUBLISH keeps one exchange to one id, and everybody who waits in a
\* map.
LEMMA OnPublishExchange == ASSUME TypeOK, IdsApart, ExchangeInv, OnPublish PROVE ExchangeInv'
<1>1. UNCHANGED <<state, waiters, call, done, broker>> /\ In' \subseteq In
  BY IncomingEffect DEF OnPublish
<1>2. PICK p : Adds(p) /\ p.done = "nobody" /\ p.type \notin Asks
  BY OnPublishApart
<1>3. \A c \in Calls : putting'[c] = putting[c]
  BY OnPublishEffect
<1> QED
  BY <1>1, <1>2, <1>3, Bounds, QuietExchange

\* An incoming PUBREL keeps one exchange to one id, and everybody who waits in a
\* map.
LEMMA OnPubRelExchange == ASSUME TypeOK, IdsApart, ExchangeInv, OnPubRel PROVE ExchangeInv'
<1>1. UNCHANGED <<state, waiters, call, done, broker>> /\ In' \subseteq In
  BY IncomingEffect DEF OnPubRel
<1>2. PICK p : Adds(p) /\ p.done = "nobody" /\ p.type \notin Asks
  BY OnPubRelApart
<1>3. \A c \in Calls : putting'[c] = putting[c]
  BY OnPubRelEffect
<1> QED
  BY <1>1, <1>2, <1>3, Bounds, QuietExchange

\* A PINGRESP keeps one exchange to one id, and everybody who waits in a map.
LEMMA OnPingRespExchange == ASSUME TypeOK, ExchangeInv, OnPingResp PROVE ExchangeInv'
<1>1. UNCHANGED <<state, waiters, call, done, broker>> /\ In' \subseteq In
  BY IncomingEffect DEF OnPingResp
<1>2. UNCHANGED <<tx, putting, sending, toBroker>>
  BY IncomingEffect DEF OnPingResp, queues
<1> QED
  BY <1>1, <1>2, OutSame, NoneIsNobodys, QuietExchange

\* A packet doReceive() cannot use, or the end of the connection keeps one exchange
\* to one id, and everybody who waits in a map.
LEMMA ReceiveFailsExchange == ASSUME TypeOK, ExchangeInv, ReceiveFails PROVE ExchangeInv'
BY NoCallEnds, AbortExchange DEF ReceiveFails

\* A sendall() that fails keeps one exchange to one id, and everybody who waits in
\* a map.
LEMMA SendFailsExchange == ASSUME TypeOK, ExchangeInv, SendFails PROVE ExchangeInv'
<1>1. PICK d : d = SendTo(done, {tx.done}, "false")
  OBVIOUS
<1>2. Abort(d) /\ call' = call
  BY <1>1 DEF SendFails
<1>3. \A c \in Calls : d[c] = done[c] \/ d[c] = "false"
  BY <1>1 DEF SendTo
<1> QED
  BY <1>2, <1>3, NoCallEnds, AbortExchange

\* A failure of the broker keeps one exchange to one id, and everybody who waits in
\* a map.
LEMMA BrokerFailsExchange == ASSUME TypeOK, ExchangeInv, BrokerFails PROVE ExchangeInv'
<1>1. PICK p : p = Packet("BAD", 0, "ok")
  OBVIOUS
<1>2. /\ p \in Packets /\ p.type = "BAD" /\ toClient' \in {toClient, Append(toClient, p)}
      /\ broker'.taken = broker.taken /\ broker'.written = broker.written
      /\ UNCHANGED <<state, client, queues, call, done, recv, toBroker>>
  BY <1>1, BrokerFailsEffect
<1>3. UNCHANGED <<tx, putting, sending, toBroker, waiters>>
  BY <1>2 DEF queues, client
<1>4. toClient \in Seq(Packets)
  BY DEF TypeOK, WireTyped
<1>5. In' \subseteq In \cup {p} /\ p.type \notin Replies
  BY <1>2, <1>4, ElemsAppend, ElemsOut, ElemsOutNext DEF Replies
<1> QED
  BY <1>2, <1>3, <1>5, OutSame, NoneIsNobodys, QuietExchange

\* The broker sending a message, for the first time or again keeps one exchange to
\* one id, and everybody who waits in a map.
LEMMA BrokerPublishesExchange ==
    ASSUME TypeOK, ExchangeInv, NEW m \in Inbound, BrokerPublishes(m) PROVE ExchangeInv'
<1>1. PICK p : p = Packet(IF broker.msg[m] = "rec" THEN "PUBREL" ELSE "PUBLISH", m, "ok")
  OBVIOUS
<1>2. /\ p \in Packets /\ p.type \in {"PUBREL", "PUBLISH"} /\ toClient' = Append(toClient, p)
      /\ broker'.taken = broker.taken /\ broker'.written = broker.written
      /\ UNCHANGED <<state, client, queues, call, done, recv, toBroker>>
  BY <1>1, BrokerPublishesEffect
<1>3. UNCHANGED <<tx, putting, sending, toBroker, waiters>>
  BY <1>2 DEF queues, client
<1>4. In' \subseteq In \cup {p} /\ p.type \notin Replies
  BY <1>2, ElemsAppend, ElemsOut, ElemsOutNext DEF Replies, TypeOK, WireTyped
<1> QED
  BY <1>2, <1>3, <1>4, OutSame, NoneIsNobodys, QuietExchange

\* The rest of disconnect(), which aborts keeps one exchange to one id, and
\* everybody who waits in a map.
LEMMA UserShutdownExchange ==
    ASSUME TypeOK, ExchangeInv, NEW c \in Calls, UserShutdown(c),
           call[c].at = "idle" \/ (call[c].at = "wait" /\ call[c].op = "DISCONNECT")
    PROVE  ExchangeInv'
<1>1. /\ call'[c].at = "returned" /\ call'[c].op = "DISCONNECT"
      /\ \A x \in Calls : x # c => call'[x] = call[x]
  BY EnterTyped DEF UserShutdown
<1>2. \A x \in Calls : Ends(x)
  BY <1>1 DEF Ends
<1>3. CASE state # "Closed"
  BY <1>2, <1>3, AbortExchange DEF UserShutdown
<1>4. CASE state = "Closed"
  <2>1. UNCHANGED <<state, waiters, done, tx, putting, sending, toBroker, toClient, broker>>
    BY <1>4 DEF UserShutdown, client, queues, wire
  <2>2. Seen /\ OneExchange /\ Tokened /\ TrueMeansTaken
    BY DEF ExchangeInv
  <2>3. \A x \in Calls : Goes(x)
    BY <1>2 DEF Ends, Goes
  <2>4. Out' = Out /\ In' = In
    BY <2>1, OutSame, InSame
  <2>5. Tokened'
    BY <2>1, <2>2, <2>3, <2>4, TokenedBy
  <2>6. TrueMeansTaken'
    BY <2>1, <2>2, <2>3, TrueBy
  <2>7. OneExchange'
    BY <2>1, <2>2, <2>4, OneExchangeBy
  <2>8. \A x \in Calls : call'[x] = call[x] \/ Returns(x)
    BY <1>2 DEF Ends, Returns
  <2>9. Seen'
    <3>1. state' = "Closed" => waiters' = {}
      BY <2>1, <2>2 DEF Seen
    <3> QED
      BY <2>1, <2>2, <2>8, <3>1, SeenBy
  <2> QED
    BY <2>5, <2>6, <2>7, <2>9 DEF ExchangeInv
<1> QED
  BY <1>3, <1>4

\* A call that the closed client refuses keeps one exchange to one id, and
\* everybody who waits in a map.
LEMMA RefusedExchange == ASSUME TypeOK, ExchangeInv, NEW c \in Calls, Refused(c) PROVE ExchangeInv'
<1>1. /\ UNCHANGED <<state, waiters, tx, putting, sending, toBroker, toClient, broker>>
      /\ call[c].at = "idle" /\ done' = [done EXCEPT ![c] = "false"]
  BY DEF Refused, queues, wire
<1>2. /\ call'[c].at = "returned" /\ \A x \in Calls : x # c => call'[x] = call[x]
  BY EnterTyped DEF Refused
<1>3. \A x \in Calls : done'[x] = IF x = c THEN "false" ELSE done[x]
  BY <1>1 DEF TypeOK, CallsTyped
<1>4. Seen /\ OneExchange /\ Tokened /\ TrueMeansTaken
  BY DEF ExchangeInv
<1>5. \A x \in Calls : Goes(x)
  BY <1>1, <1>2 DEF Goes
<1>6. Out' = Out /\ In' = In
  BY <1>1, OutSame, InSame
<1>7. Tokened'
  BY <1>1, <1>3, <1>4, <1>5, <1>6, TokenedBy
<1>8. TrueMeansTaken'
  BY <1>1, <1>3, <1>4, <1>5, TrueBy
<1>9. OneExchange'
  BY <1>1, <1>4, <1>6, OneExchangeBy
<1>10. \A x \in Calls : call'[x] = call[x] \/ Returns(x)
  BY <1>1, <1>2, <1>3 DEF Returns
<1>11. Seen'
  <2>1. state' = "Closed" => waiters' = {}
    BY <1>1, <1>4 DEF Seen
  <2> QED
    BY <1>1, <1>3, <1>4, <1>10, <2>1, SeenBy
<1> QED
  BY <1>7, <1>8, <1>9, <1>11 DEF ExchangeInv

\* The return of done->tryWait() keeps one exchange to one id, and everybody who
\* waits in a map.
LEMMA WaitReturnsExchange == ASSUME TypeOK, ExchangeInv, NEW c \in Calls, WaitReturns(c) PROVE ExchangeInv'
<1>1. /\ UNCHANGED <<state, waiters, done, tx, putting, sending, toBroker, toClient, broker>>
      /\ call[c].at = "wait" /\ done[c] # "unset"
  BY DEF WaitReturns, client, queues, wire
<1>2. /\ call'[c].at = "returned" /\ call'[c].op = call[c].op /\ \A x \in Calls : x # c => call'[x] = call[x]
  BY AtTyped DEF WaitReturns
<1>4. Seen /\ OneExchange /\ Tokened /\ TrueMeansTaken
  BY DEF ExchangeInv
<1>5. \A x \in Calls : Goes(x)
  BY <1>1, <1>2 DEF Goes
<1>6. Out' = Out /\ In' = In
  BY <1>1, OutSame, InSame
<1>7. Tokened'
  BY <1>1, <1>4, <1>5, <1>6, TokenedBy
<1>8. TrueMeansTaken'
  BY <1>1, <1>4, <1>5, TrueBy
<1>9. OneExchange'
  BY <1>1, <1>4, <1>6, OneExchangeBy
<1>10. \A x \in Calls : call'[x] = call[x] \/ Returns(x)
  BY <1>1, <1>2 DEF Returns
<1>11. Seen'
  <2>1. state' = "Closed" => waiters' = {}
    BY <1>1, <1>4 DEF Seen
  <2> QED
    BY <1>1, <1>4, <1>10, <2>1, SeenBy
<1> QED
  BY <1>7, <1>8, <1>9, <1>11 DEF ExchangeInv

\* The return of a blocked sendingQueue.put() keeps one exchange to one id, and
\* everybody who waits in a map.
LEMMA PutGoesOnExchange == ASSUME TypeOK, ExchangeInv, NEW o \in Owners, PutGoesOn(o) PROVE ExchangeInv'
<1>1. Seen /\ OneExchange /\ Tokened /\ TrueMeansTaken
  BY DEF ExchangeInv
<1>2. /\ UNCHANGED <<state, waiters, done, toClient, broker>> /\ putting[o] # None
      /\ putting' = [putting EXCEPT ![o] = None] /\ putting \in [Owners -> Packets]
  BY DEF PutGoesOn, TypeOK, QueuesTyped, client, wire
<1>3. Out' \subseteq Out \cup {None} /\ In' = In
  BY <1>2, PutGoesOnPlain, InSame
<1>4. \A p \in Out' : p \in Out \/ (p.type \notin Asks /\ p.done \notin Calls)
  BY <1>3, NoneIsNobodys
<1>5. \A c \in Calls : putting'[c] = IF c = o THEN None ELSE putting[c]
  BY <1>2, Bounds
<1>6. CASE o \notin Calls
  <2>1. call' = call
    BY <1>6 DEF PutGoesOn
  <2> QED
    BY <1>2, <1>3, <1>4, <1>5, <2>1, ExchangeFrame
<1>7. CASE o \in Calls
  <2>1. call[o].at = "put"
    BY <1>1, <1>2, <1>7 DEF Seen, SeenCall
  <2>2. PICK where : where = IF call[o].sync THEN "wait" ELSE "returned"
    OBVIOUS
  <2>3. At(o, where) /\ where \in {"wait", "returned"}
    BY <1>7, <2>2 DEF PutGoesOn
  <2>4. /\ call'[o].at = where /\ call'[o].op = call[o].op /\ call'[o].sync = call[o].sync
        /\ \A x \in Calls : x # o => call'[x] = call[x]
    BY <1>7, <2>3, AtTyped
  <2>5. \A c \in Calls : Goes(c)
    BY <2>1, <2>3, <2>4 DEF Goes
  <2>6. Tokened'
    BY <1>1, <1>2, <1>4, <2>5, TokenedBy
  <2>7. TrueMeansTaken'
    BY <1>1, <1>2, <2>5, TrueBy
  <2>8. OneExchange'
    BY <1>1, <1>2, <1>3, <1>4, OneExchangeBy
  <2>9. ASSUME NEW c \in Calls PROVE SeenCall(c)'
    <3>1. SeenCall(c)
      BY <1>1 DEF Seen
    <3>2. CASE c = o
      <4>1. MustWait(o)' => MustWait(o)
        BY <1>2, <2>1, <2>4 DEF MustWait, Confirmed
      <4>2. call'[o].at = "wait" => call'[o].sync
        BY <2>2, <2>4
      <4>3. call'[o].op = "none" => done'[o] # "unset"
        BY <1>2, <2>1, <2>4, <3>1, <3>2 DEF SeenCall
      <4> QED
        BY <1>2, <1>5, <3>1, <3>2, <4>1, <4>2, <4>3 DEF SeenCall
    <3>3. CASE c # o
      <4>1. call'[c] = call[c] /\ putting'[c] = putting[c]
        BY <1>5, <2>4, <3>3
      <4> QED
        BY <1>2, <3>1, <4>1 DEF SeenCall, MustWait, Confirmed
    <3> QED
      BY <3>2, <3>3
  <2>10. Seen'
    BY <1>1, <1>2, <2>9 DEF Seen
  <2> QED
    BY <2>6, <2>7, <2>8, <2>10 DEF ExchangeInv
<1> QED
  BY <1>6, <1>7

\* DoSend() after sendall() keeps one exchange to one id, and everybody who waits
\* in a map.
LEMMA SendWriteExchange == ASSUME TypeOK, ExchangeInv, SendWrite PROVE ExchangeInv'
<1>1. Seen /\ OneExchange /\ Tokened /\ TrueMeansTaken
  BY DEF ExchangeInv
<1>2. /\ UNCHANGED <<state, waiters, call, putting>> /\ Adds(None) /\ In' = In
      /\ broker'.written = broker.written \cup ({tx.done} \cap Calls) /\ broker'.taken = broker.taken
      /\ \A c \in Calls : done'[c] = IF c = tx.done /\ WriteCompletes(tx) THEN "true" ELSE done[c]
  BY SendWriteEffect, SendWritePlain DEF SendWrite, Plain
<1>3. \A p \in Out' : p \in Out \/ (p.type \notin Asks /\ p.done \notin Calls)
  BY <1>2, NoneIsNobodys, CallsOnly
<1>4. \A c \in Calls : Goes(c)
  BY <1>2 DEF Goes
<1>5. tx.done \in Calls => Named(tx)
  BY <1>1 DEF Tokened, Out
<1>6. Tokened'
  BY <1>1, <1>2, <1>3, <1>4, <1>5, TokenedBy DEF Named
<1>7. TrueMeansTaken'
  <2>1. ASSUME NEW c \in Calls, done'[c] = "true", done[c] # "true"
        PROVE  c \in IF call'[c].op \in {"PUBLISH0", "DISCONNECT"} THEN broker'.written ELSE broker'.taken
    <3>1. c = tx.done /\ WriteCompletes(tx)
      BY <1>2, <2>1
    <3>2. call[c].op \in {"PUBLISH0", "DISCONNECT"}
      BY <1>5, <3>1 DEF Named, WriteCompletes
    <3> QED
      BY <1>2, <3>1, <3>2
  <2> QED
    BY <1>1, <1>2, <1>4, <2>1, TrueBy
<1>8. OneExchange'
  BY <1>1, <1>2, <1>3, OneExchangeBy
<1>9. Seen'
  <2>1. state' = "Closed" => waiters' = {}
    BY <1>1, <1>2 DEF Seen
  <2> QED
    BY <1>1, <1>2, <2>1, SeenBy
<1> QED
  BY <1>6, <1>7, <1>8, <1>9 DEF ExchangeInv

\* Disconnect() up to its put() keeps one exchange to one id, and everybody who
\* waits in a map.
LEMMA DisconnectExchange == ASSUME TypeOK, ExchangeInv, NEW c \in Calls, Disconnect(c) PROVE ExchangeInv'
<1>1. Seen /\ OneExchange /\ Tokened /\ TrueMeansTaken
  BY DEF ExchangeInv
<1>2. PICK p : p = Packet("DISCONNECT", 0, c)
  OBVIOUS
<1>3. p.type = "DISCONNECT" /\ p.done = c /\ p.type \notin Asks
  BY <1>2 DEF Packet, Asks, AnswerTo
<1>4. /\ Adds(p) /\ In' = In /\ UNCHANGED <<toClient, broker, waiters, done>>
      /\ \A q \in Calls : putting'[q] = putting[q] \/ (q = c /\ Len(sending) >= SendCap)
      /\ call[c].at = "idle" /\ state' = "Disconnecting"
  BY <1>2, DisconnectPlain, InSame DEF Disconnect, Plain, client
<1>5. PICK where : where = IF Len(sending) >= SendCap THEN "put" ELSE "wait"
  OBVIOUS
<1>6. Enter(c, "DISCONNECT", TRUE, where) /\ where \in {"put", "wait"}
  BY <1>5 DEF Disconnect
<1>7. /\ call'[c].at = where /\ call'[c].op = "DISCONNECT" /\ call'[c].sync = TRUE
      /\ \A x \in Calls : x # c => call'[x] = call[x]
  BY <1>6, EnterTyped
<1>8. \A x \in Calls : Goes(x)
  BY <1>4, <1>7 DEF Goes
<1>9. Named(p)'
  BY <1>3, <1>6, <1>7 DEF Named
<1>10. Tokened'
  <2>1. \A q \in Out' : q.done \in Calls => q \in Out \/ q = p
    BY <1>4, NoneIsNobodys DEF Adds
  <2> QED
    BY <1>1, <1>4, <1>8, <1>9, <2>1, TokenedBy
<1>11. TrueMeansTaken'
  BY <1>1, <1>4, <1>8, TrueBy
<1>12. OneExchange'
  <2>1. \A q \in Out' : q \in Out \/ q.type \notin Asks
    BY <1>3, <1>4, NoneIsNobodys DEF Adds
  <2> QED
    BY <1>1, <1>4, <2>1, OneExchangeBy
<1>13. ASSUME NEW x \in Calls PROVE SeenCall(x)'
  <2>1. SeenCall(x)
    BY <1>1 DEF Seen
  <2>2. CASE x = c
    <3>1. ~MustWait(c)'
      BY <1>7 DEF MustWait, Confirmed, AnswerTo
    <3>2. putting'[c] # None => call'[c].at = "put"
      <4>1. putting[c] = None
        BY <1>4, <2>1, <2>2 DEF SeenCall
      <4> QED
        BY <1>4, <1>5, <1>7, <4>1
    <3> QED
      BY <1>7, <2>2, <3>1, <3>2 DEF SeenCall
  <2>3. CASE x # c
    <3>1. call'[x] = call[x] /\ putting'[x] = putting[x]
      BY <1>4, <1>7, <2>3
    <3> QED
      BY <1>4, <2>1, <3>1 DEF SeenCall, MustWait, Confirmed
  <2> QED
    BY <2>2, <2>3
<1>14. Seen'
  BY <1>4, <1>13 DEF Seen
<1> QED
  BY <1>10, <1>11, <1>12, <1>14 DEF ExchangeInv

\* A PUBACK, PUBCOMP, SUBACK or UNSUBACK keeps one exchange to one id, and
\* everybody who waits in a map.
LEMMA OnAnswerExchange ==
    ASSUME TypeOK, ExchangeInv, NEW t \in Replies, OnAnswer(t) PROVE ExchangeInv'
<1>1. Seen /\ OneExchange /\ Tokened /\ TrueMeansTaken
  BY DEF ExchangeInv
<1>2. PICK a, ws : a = Head(toClient) /\ ws = WaitingFor(t, a.id)
  OBVIOUS
<1>3. /\ a \in In /\ a.type = t /\ In' \subseteq In /\ UNCHANGED <<call, broker, state, putting>>
      /\ UNCHANGED <<tx, sending, toBroker>>
  BY <1>2, IncomingEffect DEF OnAnswer, queues
<1>4. ws \subseteq waiters /\ waiters' = waiters \ ws /\ \A w \in ws : w.id = a.id
  BY <1>2, OnAnswerEffect DEF WaitingFor
<1>5. PICK v \in {"true", "false"} : \A c \in Calls : done'[c] = IF c \in DoneOf(ws) THEN v ELSE done[c]
  BY <1>2, OnAnswerEffect
<1>6. Out' = Out
  BY <1>3, OutSame
<1>7. \A c \in Calls : Goes(c)
  BY <1>3 DEF Goes
<1>8. ASSUME NEW c \in Calls, c \in DoneOf(ws)
      PROVE  call[c].at # "idle" /\ call[c].op \notin {"PUBLISH0", "DISCONNECT"} /\ c \in broker.taken
  <2>1. PICK w \in ws : w.done = c
    BY <1>8 DEF DoneOf
  <2>2. call[c].at # "idle" /\ call[c].op \in Confirmed
    BY <1>1, <1>4, <2>1 DEF Tokened
  <2>3. c \in broker.taken
    BY <1>1, <1>3, <1>4, <2>1 DEF OneExchange
  <2> QED
    BY <2>2, <2>3 DEF Confirmed, AnswerTo
<1>9. Tokened'
  BY <1>1, <1>3, <1>4, <1>5, <1>6, <1>7, <1>8, TokenedBy
<1>10. TrueMeansTaken'
  BY <1>1, <1>3, <1>5, <1>7, <1>8, TrueBy
<1>11. OneExchange'
  BY <1>1, <1>3, <1>4, <1>6, OneExchangeBy
<1>12. Seen'
  <2>1. state' = "Closed" => waiters' = {}
    BY <1>1, <1>3, <1>4 DEF Seen
  <2>2. \A c \in Calls : done'[c] = "unset" => (c \in DoneOf(waiters) => c \in DoneOf(waiters'))
    BY <1>4, <1>5 DEF DoneOf
  <2> QED
    BY <1>1, <1>3, <1>5, <2>1, <2>2, SeenBy
<1> QED
  BY <1>9, <1>10, <1>11, <1>12 DEF ExchangeInv

\* The broker marks a request as taken when it answers it: the invariant of the
\* calls holds.
LEMMA BrokerTakesExchange == ASSUME TypeOK, ExchangeInv, BrokerTakes PROVE ExchangeInv'
<1>1. Seen /\ OneExchange /\ Tokened /\ TrueMeansTaken
  BY DEF ExchangeInv
<1>2. PICK p : p = Head(toBroker)
  OBVIOUS
<1>3. /\ p \in Packets /\ p \in Out /\ Out' \subseteq Out
      /\ broker'.taken = broker.taken \cup ({p.done} \cap Calls) /\ broker'.written = broker.written
      /\ UNCHANGED <<state, client, queues, call, done, recv>>
  BY <1>2, BrokerTakesEffect
<1>4. UNCHANGED <<state, waiters, putting, call, done>>
  BY <1>3 DEF client, queues
<1>5. PICK a \in Answers(p) : toClient' = IF a = None THEN toClient ELSE Append(toClient, a)
  BY <1>2, BrokerTakesEffect
<1>6. toClient \in Seq(Packets) /\ (a # None => a \in Packets)
  BY <1>3, AnswerIsPacket DEF TypeOK, WireTyped
<1>7. In' \subseteq In \cup ({a} \ {None})
  BY <1>5, <1>6, ElemsAppend, ElemsOut, ElemsOutNext
<1>8. a # None /\ a.type \in Replies => p.type \in Asks /\ a.id = p.id
  BY <1>3, AnswersAre
<1>9. \A c \in Calls : Goes(c)
  BY <1>4 DEF Goes
<1>10. Tokened'
  BY <1>1, <1>3, <1>4, <1>9, TokenedBy
<1>11. TrueMeansTaken'
  BY <1>1, <1>3, <1>4, <1>9, TrueBy
<1>12. OneExchange'
  <2>1. \A v, w \in waiters' : v.id = w.id => v = w
    BY <1>1, <1>4 DEF OneExchange
  <2>2. \A w \in waiters', q \in Out' : q.type \in Asks /\ q.id = w.id => q.done = w.done
    BY <1>1, <1>3, <1>4 DEF OneExchange
  <2>3. ASSUME NEW w \in waiters', NEW b \in In', b.type \in Replies, b.id = w.id, w.done \in Calls
        PROVE  w.done \in broker'.taken
    <3>1. CASE b \in In
      BY <1>1, <1>3, <1>4, <2>3, <3>1 DEF OneExchange
    <3>2. CASE b \notin In
      <4>1. b = a /\ a # None
        BY <1>7, <3>2
      <4>2. p.type \in Asks /\ w.id = p.id
        BY <1>8, <2>3, <4>1
      <4>3. p.done = w.done
        BY <1>1, <1>3, <1>4, <4>2 DEF OneExchange
      <4> QED
        BY <1>3, <2>3, <4>3
    <3> QED
      BY <3>1, <3>2
  <2>4. Asks' = Asks /\ Replies' = Replies
    BY DEF Asks, AnswerTo, Replies
  <2> QED
    BY <2>1, <2>2, <2>3, <2>4 DEF OneExchange
<1>13. Seen'
  <2>1. state' = "Closed" => waiters' = {}
    BY <1>1, <1>4 DEF Seen
  <2> QED
    BY <1>1, <1>4, <2>1, SeenBy
<1> QED
  BY <1>10, <1>11, <1>12, <1>13 DEF ExchangeInv

\* Publish(), subscribe() or unsubscribe() up to its put() keeps one exchange to
\* one id, and everybody who waits in a map.
LEMMA RequestExchange ==
    ASSUME TypeOK, ExchangeInv, NEW c \in Calls, NEW op \in Ops, NEW sync \in BOOLEAN, Request(c, op, sync),
           op # "PUBLISH0" => nextId \notin IdsInUse
    PROVE  ExchangeInv'
<1>1. Seen /\ OneExchange /\ Tokened /\ TrueMeansTaken
  BY DEF ExchangeInv
<1>2. PICK id, who : Asking(c, op, sync, id, who)
  BY RequestAsks
<1>3. PICK p : p = Packet(op, id, who)
  OBVIOUS
<1>4. p.type = op /\ p.id = id /\ p.done = who /\ op \in Requests
  BY <1>3, MqttAssumption DEF Packet
<1>5. /\ Adds(p) /\ In' = In /\ UNCHANGED <<toClient, broker, done, state>>
      /\ \A q \in Calls : putting'[q] = putting[q] \/ (q = c /\ Len(sending) >= SendCap)
      /\ call[c].at = "idle" /\ state = "Connected"
  BY <1>2, <1>3, RequestPlain, InSame DEF Request, Plain
<1>6. PICK where : where = IF Len(sending) >= SendCap THEN "put" ELSE IF sync THEN "wait" ELSE "returned"
  OBVIOUS
<1>7. Enter(c, op, sync, where) /\ where \in {"put", "wait", "returned"}
  BY <1>6 DEF Request
<1>8. /\ call'[c].at = where /\ call'[c].op = op /\ call'[c].sync = sync
      /\ \A x \in Calls : x # c => call'[x] = call[x]
  BY <1>4, <1>7, EnterTyped
<1>9. \A x \in Calls : Goes(x)
  BY <1>5, <1>8 DEF Goes
<1>10. who = (IF sync THEN c ELSE "nobody") /\ "nobody" \notin Calls
  BY <1>2, Bounds DEF Asking
<1>11. p.done \in Calls => Named(p)'
  BY <1>4, <1>7, <1>8, <1>10 DEF Named
<1>12. \A q \in Out' : q.done \in Calls => q \in Out \/ q = p
  BY <1>5, NoneIsNobodys DEF Adds
<1>13. \A q \in Out' : q.type \in Asks => q \in Out \/ q = p
  BY <1>5, NoneIsNobodys DEF Adds
<1>14. TrueMeansTaken'
  BY <1>1, <1>5, <1>9, TrueBy
<1>15. ASSUME waiters \subseteq waiters' \/ DoneOf(waiters) \subseteq DoneOf(waiters'),
              op # "PUBLISH0" => who \in DoneOf(waiters')
       PROVE  Seen'
  <2>1. DoneOf(waiters) \subseteq DoneOf(waiters')
    BY <1>15 DEF DoneOf
  <2>2. ASSUME NEW x \in Calls PROVE SeenCall(x)'
    <3>1. SeenCall(x)
      BY <1>1 DEF Seen
    <3>2. CASE x = c
      <4>1. MustWait(c)' => c \in DoneOf(waiters')
        <5>1. SUFFICES ASSUME MustWait(c)' PROVE c \in DoneOf(waiters')
          OBVIOUS
        <5>2. sync /\ op \in Confirmed
          BY <1>8, <5>1 DEF MustWait, Confirmed
        <5>3. op # "PUBLISH0"
          BY <5>2 DEF Confirmed, AnswerTo
        <5> QED
          BY <1>10, <1>15, <5>2, <5>3
      <4>2. putting'[c] # None => call'[c].at = "put"
        <5>1. putting[c] = None
          BY <1>5, <3>1, <3>2 DEF SeenCall
        <5> QED
          BY <1>5, <1>6, <1>8, <5>1
      <4>3. call'[c].at = "wait" => call'[c].sync
        BY <1>6, <1>8
      <4>4. call'[c].op # "none"
        BY <1>4, <1>8 DEF Requests
      <4>5. DoneOf(waiters)' = DoneOf(waiters')
        BY DEF DoneOf
      <4> QED
        BY <3>2, <4>1, <4>2, <4>3, <4>4, <4>5 DEF SeenCall
    <3>3. CASE x # c
      <4>1. call'[x] = call[x] /\ putting'[x] = putting[x]
        BY <1>5, <1>8, <3>3
      <4>2. MustWait(x)' => MustWait(x)
        BY <1>5, <4>1 DEF MustWait, Confirmed
      <4>3. DoneOf(waiters)' = DoneOf(waiters')
        BY DEF DoneOf
      <4> QED
        BY <1>5, <2>1, <3>1, <4>1, <4>2, <4>3 DEF SeenCall
    <3> QED
      BY <3>2, <3>3
  <2> QED
    BY <1>5, <2>2 DEF Seen
<1>16. CASE op = "PUBLISH0"
  <2>1. waiters' = waiters /\ p.type \notin Asks
    BY <1>2, <1>4, <1>16 DEF Asking, Asks, AnswerTo
  <2>2. Seen'
    BY <1>15, <1>16, <2>1
  <2>3. Tokened'
    BY <1>1, <1>5, <1>9, <1>11, <1>12, <2>1, TokenedBy
  <2>4. OneExchange'
    BY <1>1, <1>5, <1>13, <2>1, OneExchangeBy
  <2> QED
    BY <1>14, <2>2, <2>3, <2>4 DEF ExchangeInv
<1>17. CASE op # "PUBLISH0"
  <2>1. id = nextId /\ id \notin IdsInUse /\ waiters' = Register(waiters, AnswerTo[op], id, who)
    BY <1>2, <1>17 DEF Asking
  <2>2. /\ \A w \in waiters : w.id # id
        /\ \A q \in Out : q.type \in Asks => q.id # id
        /\ \A a \in In : a.type \in Replies => a.id # id
    BY <2>1 DEF IdsInUse
  <2>3. PICK n : n = [answer |-> AnswerTo[op], id |-> id, done |-> who]
    OBVIOUS
  <2>4. /\ waiters' = waiters \cup {n} /\ n.answer = AnswerTo[op] /\ n.id = id /\ n.done = who
        /\ DoneOf(waiters) \cup {who} \subseteq DoneOf(waiters')
    <3>1. PICK answer : answer = AnswerTo[op]
      OBVIOUS
    <3>2. /\ Register(waiters, answer, id, who) = waiters \cup {n}
          /\ n.answer = answer /\ n.id = id /\ n.done = who
          /\ DoneOf(waiters) \cup {who} \subseteq DoneOf(waiters \cup {n})
      BY <2>2, <2>3, <3>1 DEF Register, DoneOf
    <3> QED
      BY <2>1, <3>1, <3>2
  <2>5. Seen'
    BY <1>15, <2>4
  <2>6. Tokened'
    <3>1. op \in Confirmed /\ (AnswerTo[op] = "PUBREC" => op = "PUBLISH2")
      BY <1>4, <1>17 DEF Confirmed, AnswerTo, Requests
    <3>2. n.done \in Calls => /\ call'[n.done].at # "idle" /\ call'[n.done].op \in Confirmed
                              /\ n.answer = "PUBREC" => call'[n.done].op = "PUBLISH2"
      BY <1>7, <1>8, <1>10, <2>4, <3>1
    <3>3. \A w \in waiters' : w.done \in Calls =>
              w \in waiters \/ (/\ call'[w.done].at # "idle" /\ call'[w.done].op \in Confirmed
                                /\ w.answer = "PUBREC" => call'[w.done].op = "PUBLISH2")
      <4>1. ASSUME NEW w \in waiters', w \notin waiters PROVE w = n
        BY <2>4, <4>1
      <4> QED
        BY <3>2, <4>1
    <3> QED
      BY <1>1, <1>5, <1>9, <1>11, <1>12, <3>3, TokenedBy
  <2>7. OneExchange'
    <3>1. \A v, w \in waiters' : v.id = w.id => v = w
      BY <1>1, <2>2, <2>4 DEF OneExchange
    <3>2. \A w \in waiters', q \in Out' : q.type \in Asks /\ q.id = w.id => q.done = w.done
      BY <1>1, <1>4, <1>13, <2>2, <2>4 DEF OneExchange
    <3>3. \A w \in waiters', a \in In' : a.type \in Replies /\ a.id = w.id /\ w.done \in Calls
                                      => w.done \in broker'.taken
      BY <1>1, <1>5, <2>2, <2>4 DEF OneExchange
    <3>4. Asks' = Asks /\ Replies' = Replies
      BY DEF Asks, AnswerTo, Replies
    <3> QED
      BY <3>1, <3>2, <3>3, <3>4 DEF OneExchange
  <2> QED
    BY <1>14, <2>5, <2>6, <2>7 DEF ExchangeInv
<1> QED
  BY <1>16, <1>17

\* A PUBREC, answered by a PUBREL keeps one exchange to one id, and everybody who
\* waits in a map.
LEMMA OnPubRecExchange == ASSUME TypeOK, IdsApart, ExchangeInv, OnPubRec PROVE ExchangeInv'
<1>1. Seen /\ OneExchange /\ Tokened /\ TrueMeansTaken
  BY DEF ExchangeInv
<1>2. PICK id : id = Head(toClient).id
  OBVIOUS
<1>3. /\ UNCHANGED <<call, broker, state>> /\ In' \subseteq In /\ Running
      /\ \E a \in In : a.id = id /\ a.type \in Replies
  BY <1>2, IncomingEffect DEF OnPubRec, Replies
<1>4. \A c \in Calls : putting'[c] = putting[c]
  BY <1>2, OnPubRecEffect
<1>5. \A c \in Calls : Goes(c)
  BY <1>3 DEF Goes
<1>6. state' # "Closed"
  BY <1>3 DEF Running
<1>7. CASE UNCHANGED <<waiters, sending, putting, done, tx, toBroker>>
  <2>1. Out' = Out /\ Adds(None)
    BY <1>7, OutSame
  <2> QED
    BY <1>3, <1>4, <1>7, <2>1, NoneIsNobodys, QuietExchange
<1>8. ASSUME NEW w \in waiters, w.id = id, w.answer = "PUBREC",
             state = "Connected", done' = done,
             waiters' = Register(waiters \ WaitingFor("PUBREC", id), "PUBCOMP", id, w.done),
             Adds(Packet("PUBREL", id, w.done))
      PROVE  ExchangeInv'
  <2>1. PICK rest, n, p : /\ rest = waiters \ WaitingFor("PUBREC", id)
                          /\ n = [answer |-> "PUBCOMP", id |-> id, done |-> w.done]
                          /\ p = Packet("PUBREL", id, w.done)
    OBVIOUS
  <2>2. p.type = "PUBREL" /\ p.id = id /\ p.done = w.done /\ Adds(p)
    BY <1>8, <2>1 DEF Packet
  <2>3. rest = waiters \ {w} /\ \A v \in rest : v.id # id
    BY <1>1, <1>8, <2>1 DEF WaitingFor, OneExchange
  <2>4. /\ waiters' = rest \cup {n} /\ n.answer = "PUBCOMP" /\ n.id = id /\ n.done = w.done
        /\ DoneOf(rest) \cup {w.done} \subseteq DoneOf(waiters')
    <3>1. PICK who : who = w.done
      OBVIOUS
    <3>2. /\ Register(rest, "PUBCOMP", id, who) = rest \cup {n}
          /\ n.answer = "PUBCOMP" /\ n.id = id /\ n.done = who
          /\ DoneOf(rest) \cup {who} \subseteq DoneOf(rest \cup {n})
      BY <2>1, <2>3, <3>1 DEF Register, DoneOf
    <3> QED
      BY <1>8, <2>1, <3>1, <3>2
  <2>5. w.done \in Calls => /\ call[w.done].at # "idle" /\ call[w.done].op \in Confirmed
                           /\ call[w.done].op = "PUBLISH2"
    BY <1>1, <1>8 DEF Tokened
  <2>6. p.done \in Calls => Named(p)'
    BY <1>3, <2>2, <2>5 DEF Named
  <2>7. \A q \in Out' : q.done \in Calls => q \in Out \/ q = p
    BY <2>2, NoneIsNobodys DEF Adds
  <2>8. \A q \in Out' : q.type \in Asks => q \in Out \/ q = p
    BY <2>2, NoneIsNobodys DEF Adds
  <2>9. Tokened'
    BY <1>1, <1>3, <1>5, <1>8, <2>3, <2>4, <2>5, <2>6, <2>7, TokenedBy
  <2>10. TrueMeansTaken'
    BY <1>1, <1>3, <1>5, <1>8, TrueBy
  <2>11. OneExchange'
    <3>1. \A u, v \in waiters' : u.id = v.id => u = v
      BY <1>1, <2>3, <2>4 DEF OneExchange
    <3>2. \A v \in waiters', q \in Out' : q.type \in Asks /\ q.id = v.id => q.done = v.done
      BY <1>1, <1>8, <2>2, <2>3, <2>4, <2>8 DEF OneExchange
    <3>3. \A v \in waiters', a \in In' : a.type \in Replies /\ a.id = v.id /\ v.done \in Calls
                                      => v.done \in broker'.taken
      BY <1>1, <1>3, <1>8, <2>3, <2>4 DEF OneExchange
    <3>4. Asks' = Asks /\ Replies' = Replies
      BY DEF Asks, AnswerTo, Replies
    <3> QED
      BY <3>1, <3>2, <3>3, <3>4 DEF OneExchange
  <2>12. Seen'
    <3>1. DoneOf(waiters) \subseteq DoneOf(waiters')
      BY <2>3, <2>4 DEF DoneOf
    <3> QED
      BY <1>1, <1>3, <1>4, <1>6, <1>8, <3>1, SeenBy
  <2> QED
    BY <2>9, <2>10, <2>11, <2>12 DEF ExchangeInv
<1>9. ASSUME NEW w \in waiters, w.id = id, w.answer = "PUBREC",
             UNCHANGED <<sending, putting, tx, toBroker>>,
             waiters' = {v \in waiters \ WaitingFor("PUBREC", id) : ~(v.answer = "PUBCOMP" /\ v.id = id)},
             done' = SendTo(done, {w.done}, "false")
      PROVE  ExchangeInv'
  <2>1. waiters' = waiters \ {w}
    BY <1>1, <1>9 DEF WaitingFor, OneExchange
  <2>2. \A c \in Calls : done'[c] = IF c = w.done THEN "false" ELSE done[c]
    BY <1>9 DEF SendTo
  <2>3. Out' = Out
    BY <1>9, OutSame
  <2>4. Tokened'
    BY <1>1, <1>5, <2>1, <2>2, <2>3, TokenedBy
  <2>5. TrueMeansTaken'
    BY <1>1, <1>3, <1>5, <2>2, TrueBy
  <2>6. OneExchange'
    BY <1>1, <1>3, <2>1, <2>3, OneExchangeBy
  <2>7. Seen'
    <3>1. \A c \in Calls : done'[c] = "unset" => (c \in DoneOf(waiters) => c \in DoneOf(waiters'))
      BY <2>1, <2>2 DEF DoneOf
    <3> QED
      BY <1>1, <1>3, <1>4, <1>6, <2>2, <3>1, SeenBy
  <2> QED
    BY <2>4, <2>5, <2>6, <2>7 DEF ExchangeInv
<1>10. MovesOn(id)
  BY <1>2, OnPubRecEffect
<1> QED
  BY <1>7, <1>8, <1>9, <1>10 DEF MovesOn

--------------------------------------------------------------------------------
(* The calls: the theorems. *)

\* The invariant of the calls holds for a new client.
LEMMA InitExchange == ASSUME Init PROVE ExchangeInv
<1>1. /\ waiters = {} /\ Out \subseteq {None} /\ In = {} /\ state = "Connecting"
      /\ \A c \in Calls : call[c].at = "idle" /\ done[c] = "unset" /\ putting[c] = None
  BY Bounds DEF Init, Out, In
<1>2. Seen
  BY <1>1 DEF Seen, SeenCall, MustWait
<1>3. OneExchange
  BY <1>1 DEF OneExchange
<1>4. Tokened
  BY <1>1, NoneIsNobodys DEF Tokened
<1>5. TrueMeansTaken
  BY <1>1 DEF TrueMeansTaken
<1> QED
  BY <1>2, <1>3, <1>4, <1>5 DEF ExchangeInv

\* Stuttering keeps the invariant of the calls.
LEMMA StutterExchange == ASSUME ExchangeInv, UNCHANGED vars PROVE ExchangeInv'
<1>1. UNCHANGED <<state, waiters, call, done, tx, putting, sending, toBroker, toClient, broker>>
  BY DEF vars, client, queues, wire
<1> QED
  BY <1>1, OutSame, InSame, NoneIsNobodys, QuietExchange

\* Every step that takes a fresh id, if any, keeps the invariant of the calls.
LEMMA NextExchange == ASSUME MessagesInv, ExchangeInv, Next, FreshIds \/ UNCHANGED vars PROVE ExchangeInv'
<1>0. TypeOK /\ IdsApart /\ DeliveryInv
  BY DEF MessagesInv
<1>1. CASE Handshake
  BY <1>0, <1>1, HandshakeExchange
<1>2. ASSUME NEW c \in Calls, Refused(c) PROVE ExchangeInv'
  BY <1>0, <1>2, RefusedExchange
<1>3. ASSUME NEW c \in Calls, NEW op \in Ops, NEW sync \in BOOLEAN, Request(c, op, sync) PROVE ExchangeInv'
  <2>1. CASE UNCHANGED vars
    BY <2>1, StutterExchange
  <2>2. CASE FreshIds
    <3>1. op \in Requests /\ call[c].at = "idle"
      BY <1>3, MqttAssumption DEF Request
    <3>2. PICK where \in {"put", "wait", "returned"} : Enter(c, op, sync, where)
      BY <1>3 DEF Request
    <3>3. call'[c].op = op
      BY <1>0, <3>1, <3>2, EnterTyped
    <3>4. op # "PUBLISH0" => nextId \notin IdsInUse
      BY <2>2, <3>1, <3>3, AnswerToIs DEF FreshIds
    <3> QED
      BY <1>0, <1>3, <3>4, RequestExchange
  <2> QED
    BY <2>1, <2>2
<1>4. ASSUME NEW c \in Calls, WaitReturns(c) PROVE ExchangeInv'
  BY <1>0, <1>4, WaitReturnsExchange
<1>5. ASSUME NEW c \in Calls, Disconnect(c) PROVE ExchangeInv'
  BY <1>0, <1>5, DisconnectExchange
<1>6. ASSUME NEW c \in Calls, AbortCall(c) \/ DisconnectEnds(c) PROVE ExchangeInv'
  BY <1>0, <1>6, UserShutdownExchange DEF AbortCall, DisconnectEnds
<1>7. ASSUME NEW o \in Owners, PutGoesOn(o) PROVE ExchangeInv'
  BY <1>0, <1>7, PutGoesOnExchange
<1>8. ASSUME NEW r \in Receivers, Recv(r) PROVE ExchangeInv'
  BY <1>0, <1>8, RecvExchange
<1>9. CASE SendTake
  BY <1>0, <1>9, SendTakeExchange
<1>10. CASE SendWrite
  BY <1>0, <1>10, SendWriteExchange
<1>11. CASE SendFails
  BY <1>0, <1>11, SendFailsExchange
<1>12. CASE KeepaliveTick
  BY <1>0, <1>12, KeepaliveTickExchange
<1>13. CASE DeliverGoesOn
  BY <1>0, <1>13, DeliverGoesOnExchange
<1>14. CASE OnPublish
  BY <1>0, <1>14, OnPublishExchange
<1>15. CASE OnPubRel
  BY <1>0, <1>15, OnPubRelExchange
<1>16. CASE OnPubRec
  BY <1>0, <1>16, OnPubRecExchange
<1>17. CASE OnPingResp
  BY <1>0, <1>17, OnPingRespExchange
<1>18. CASE ReceiveFails
  BY <1>0, <1>18, ReceiveFailsExchange
<1>19. ASSUME NEW t \in {"PUBACK", "PUBCOMP", "SUBACK", "UNSUBACK"}, OnAnswer(t) PROVE ExchangeInv'
  <2>1. t \in Replies
    BY DEF Replies
  <2> QED
    BY <1>0, <1>19, <2>1, OnAnswerExchange
<1>20. CASE BrokerTakes
  BY <1>0, <1>20, BrokerTakesExchange
<1>21. CASE BrokerFails
  BY <1>0, <1>21, BrokerFailsExchange
<1>22. ASSUME NEW m \in Inbound, BrokerPublishes(m) PROVE ExchangeInv'
  BY <1>0, <1>22, BrokerPublishesExchange
<1> QED
  BY <1>1, <1>2, <1>3, <1>4, <1>5, <1>6, <1>7, <1>8, <1>9, <1>10, <1>11, <1>12, <1>13, <1>14,
     <1>15, <1>16, <1>17, <1>18, <1>19, <1>20, <1>21, <1>22 DEF Next, Client

\* As long as ids are fresh the invariant of the calls holds.
LEMMA ExchangeAlways == Spec /\ [][FreshIds]_vars => []ExchangeInv
<1>1. MessagesInv /\ ExchangeInv /\ [Next]_vars /\ [FreshIds]_vars => ExchangeInv'
  BY NextExchange, StutterExchange
<1> QED
  BY InitExchange, <1>1, MessagesAlways, PTL DEF Spec

\* As long as no call takes the packet id of an exchange that is under way, a call
\* that waits for an acknowledgement is in one of the maps that handleIncoming()
\* and failAllWaiters() complete, and a closed client has none.
THEOREM NobodyIsForgotten == Spec /\ [][FreshIds]_vars => []NobodyWaitsUnseen
<1>1. MessagesInv /\ ExchangeInv => NobodyWaitsUnseen
  <2>1. SUFFICES ASSUME MessagesInv, ExchangeInv PROVE NobodyWaitsUnseen
    OBVIOUS
  <2>2. ASSUME NEW c \in Calls, call[c].at = "wait", done[c] = "unset",
               call[c].op \notin {"PUBLISH0", "DISCONNECT"}
        PROVE  c \in DoneOf(waiters)
    <3>1. SeenCall(c)
      BY <2>1 DEF ExchangeInv, Seen
    <3>2. call[c].op \in Requests \cup {"DISCONNECT", "none"}
      BY <2>1 DEF MessagesInv, TypeOK, CallsTyped
    <3>3. call[c].op # "none"
      BY <2>2, <3>1 DEF SeenCall
    <3>4. call[c].op \in Confirmed
      BY <2>2, <3>2, <3>3, AnswerToIs DEF Confirmed
    <3> QED
      BY <2>2, <3>1, <3>4 DEF SeenCall, MustWait
  <2> QED
    BY <2>1, <2>2 DEF NobodyWaitsUnseen, ExchangeInv, Seen
<1> QED
  BY <1>1, ExchangeAlways, MessagesAlways, PTL

\* Under the same condition a call that returns true was written (QoS 0,
\* DISCONNECT) or taken by the broker.
THEOREM TrueIsTaken == Spec /\ [][FreshIds]_vars => []TrueMeansTaken
<1>1. ExchangeInv => TrueMeansTaken
  BY DEF ExchangeInv
<1> QED
  BY <1>1, ExchangeAlways, PTL

--------------------------------------------------------------------------------
(* Packet ids are fresh as long as there are more of them than calls. *)

FewCalls == IsFiniteSet(Calls) /\ Cardinality(Calls) <= MaxId

\* The calls that were made, and the ids of the first k packets that take one:
\* 1, ..., k.
Made == {c \in Calls : call[c].at # "idle"}
Issued(k) == {id \in 1..MaxId : id <= k}
Counted(k) == /\ k <= Cardinality(Made) /\ nextId = (IF k = MaxId THEN 1 ELSE k + 1)
              /\ IdsInUse \subseteq Issued(k)
CountInv == \E k \in Nat : Counted(k)

\* The calls made so far are finitely many.
LEMMA MadeIs ==
    ASSUME FewCalls
    PROVE  /\ IsFiniteSet(Made) /\ Cardinality(Made) \in Nat /\ Cardinality(Made) <= Cardinality(Calls)
           /\ Cardinality(Calls) \in Nat
           /\ (\E c \in Calls : call[c].at = "idle") => Cardinality(Made) < Cardinality(Calls)
<1>1. Made \subseteq Calls
  BY DEF Made
<1>2. /\ IsFiniteSet(Made) /\ Cardinality(Made) <= Cardinality(Calls)
      /\ Cardinality(Made) = Cardinality(Calls) => Made = Calls
  BY <1>1, FS_Subset DEF FewCalls
<1>3. Cardinality(Made) \in Nat /\ Cardinality(Calls) \in Nat
  BY <1>2, FS_CardinalityType DEF FewCalls
<1>4. (\E c \in Calls : call[c].at = "idle") => Made # Calls
  BY DEF Made
<1> QED
  BY <1>2, <1>3, <1>4

\* So they are after a step.
LEMMA MadeNextIs == ASSUME FewCalls PROVE IsFiniteSet(Made') /\ Cardinality(Made') \in Nat
<1>1. Made' \subseteq Calls
  BY DEF Made
<1> QED
  BY <1>1, FS_Subset, FS_CardinalityType DEF FewCalls

\* An id that is free while a call is still to be made.
LEMMA NextIsFree ==
    ASSUME FewCalls, TypeOK, NEW k \in Nat, Counted(k), NEW c \in Calls, call[c].at = "idle"
    PROVE  k < MaxId /\ nextId \notin Issued(k) /\ Issued(k) \cup {nextId} = Issued(k + 1)
           /\ NextPacketId = (IF k + 1 = MaxId THEN 1 ELSE k + 2)
<1>1. k < MaxId /\ MaxId \in Nat \ {0}
  BY MadeIs, Bounds DEF Counted, FewCalls
<1>2. nextId \notin Issued(k) /\ nextId \in 1..MaxId
  BY <1>1 DEF Counted, Issued
<1>3. Issued(k) \cup {nextId} = Issued(k + 1)
  BY <1>1 DEF Counted, Issued
<1>4. NextPacketId = (IF k + 1 = MaxId THEN 1 ELSE k + 2)
  BY <1>1 DEF Counted, NextPacketId
<1> QED
  BY <1>1, <1>2, <1>3, <1>4

\* A step that takes no id.
Keeps == nextId' = nextId /\ Made \subseteq Made' /\ IdsInUse' \subseteq IdsInUse

\* A step that issues no id keeps the count.
LEMMA KeepsCount == ASSUME FewCalls, CountInv, Keeps PROVE CountInv'
<1>1. PICK k \in Nat : Counted(k)
  BY DEF CountInv
<1>2. Cardinality(Made) <= Cardinality(Made')
  BY MadeNextIs, FS_Subset DEF Keeps
<1>3. Cardinality(Made) \in Nat /\ Cardinality(Made') \in Nat
  BY MadeIs, MadeNextIs
<1>4. Counted(k)'
  BY <1>1, <1>2, <1>3 DEF Counted, Keeps
<1> QED
  BY <1>4 DEF CountInv

\* The ids that are in use after a step.
LEMMA IdsBy ==
    ASSUME NEW S, IdsInUse \subseteq S, \A w \in waiters' : w.id \in S,
           \A p \in Out' : p.type \in Asks => p \in Out \/ p.id \in S,
           \A a \in In' : a.type \in Replies => a \in In \/ a.id \in S
    PROVE  IdsInUse' \subseteq S
<1>1. \A p \in Out' : p.type \in Asks => p.id \in S
  BY DEF IdsInUse
<1>2. \A a \in In' : a.type \in Replies => a.id \in S
  BY DEF IdsInUse
<1>3. Asks' = Asks /\ Replies' = Replies
  BY DEF Asks, AnswerTo, Replies
<1>4. ASSUME NEW id \in IdsInUse' PROVE id \in S
  <2>1. \/ \E w \in waiters' : id = w.id
        \/ \E p \in Out' : p.type \in Asks /\ id = p.id
        \/ \E a \in In' : a.type \in Replies /\ id = a.id
    BY <1>3 DEF IdsInUse
  <2> QED
    BY <1>1, <1>2, <2>1
<1> QED
  BY <1>4

\* When a step issues no id and uses none that was not in use.
LEMMA KeepsBy ==
    ASSUME nextId' = nextId, \A c \in Calls : Goes(c), waiters' \subseteq waiters,
           NEW p, Adds(p), p.type \notin Asks, \A a \in In' : a \in In \/ a.type \notin Replies
    PROVE  Keeps
<1>1. \A q \in Out' : q.type \in Asks => q \in Out
  BY NoneIsNobodys DEF Adds
<1>2. \A w \in waiters' : w.id \in IdsInUse
  BY DEF IdsInUse
<1>3. IdsInUse' \subseteq IdsInUse
  BY <1>1, <1>2, IdsBy
<1>4. Made \subseteq Made'
  BY DEF Made, Goes
<1> QED
  BY <1>3, <1>4 DEF Keeps

\* abort() issues no id.
LEMMA AbortKeeps == ASSUME TypeOK, NEW d, Abort(d), \A c \in Calls : Goes(c) PROVE Keeps
<1>1. Adds(None) /\ In' = {} /\ waiters' = {} /\ nextId' = nextId
  BY AbortEffect
<1> QED
  BY <1>1, NoneIsNobodys, KeepsBy

\* A step that takes the next id, or could have.
LEMMA TakesCount ==
    ASSUME FewCalls, TypeOK, CountInv, NEW c \in Calls, call[c].at = "idle", call'[c].at # "idle",
           \A x \in Calls : x # c => call'[x] = call[x],
           \/ nextId' = nextId /\ IdsInUse' \subseteq IdsInUse
           \/ nextId' = NextPacketId /\ IdsInUse' \subseteq IdsInUse \cup {nextId}
    PROVE  CountInv'
<1>1. PICK k \in Nat : Counted(k)
  BY DEF CountInv
<1>2. Made' = Made \cup {c} /\ c \notin Made
  BY DEF Made
<1>3. Cardinality(Made') = Cardinality(Made) + 1 /\ Cardinality(Made) \in Nat
  BY <1>2, MadeIs, FS_AddElement
<1>4. /\ k < MaxId /\ Issued(k) \cup {nextId} = Issued(k + 1)
      /\ NextPacketId = (IF k + 1 = MaxId THEN 1 ELSE k + 2)
  BY <1>1, NextIsFree
<1>5. CASE nextId' = nextId /\ IdsInUse' \subseteq IdsInUse
  <2>1. Counted(k)'
    BY <1>1, <1>3, <1>5 DEF Counted
  <2> QED
    BY <2>1 DEF CountInv
<1>6. CASE nextId' = NextPacketId /\ IdsInUse' \subseteq IdsInUse \cup {nextId}
  <2>1. k + 1 \in Nat /\ k + 1 <= Cardinality(Made') /\ nextId' = (IF k + 1 = MaxId THEN 1 ELSE k + 2)
    BY <1>1, <1>3, <1>4, <1>6 DEF Counted
  <2>2. IdsInUse' \subseteq Issued(k + 1)
    BY <1>1, <1>4, <1>6 DEF Counted
  <2>3. Counted(k + 1)'
    BY <2>1, <2>2 DEF Counted, Issued
  <2> QED
    BY <2>1, <2>3 DEF CountInv
<1> QED
  BY <1>5, <1>6

\* A request issues one id for one call.
LEMMA RequestCount ==
    ASSUME FewCalls, TypeOK, CountInv, NEW c \in Calls, NEW op \in Ops, NEW sync \in BOOLEAN, Request(c, op, sync)
    PROVE  CountInv'
<1>1. PICK id, who : Asking(c, op, sync, id, who)
  BY RequestAsks
<1>2. PICK p : p = Packet(op, id, who)
  OBVIOUS
<1>3. p.type = op /\ p.id = id /\ op \in Requests
  BY <1>2, MqttAssumption DEF Packet
<1>4. Adds(p) /\ In' = In /\ call[c].at = "idle"
  BY <1>1, <1>2, RequestPlain, InSame DEF Request, Plain
<1>5. PICK where \in {"put", "wait", "returned"} : Enter(c, op, sync, where)
  BY DEF Request
<1>6. call'[c].at # "idle" /\ \A x \in Calls : x # c => call'[x] = call[x]
  BY <1>3, <1>5, EnterTyped
<1>7. \A q \in Out' : q.type \in Asks => q \in Out \/ q = p
  BY <1>4, NoneIsNobodys DEF Adds
<1>8. CASE op = "PUBLISH0"
  <2>1. waiters' = waiters /\ nextId' = nextId /\ p.type \notin Asks
    BY <1>1, <1>3, <1>8 DEF Asking, Asks, AnswerTo
  <2>2. \A w \in waiters' : w.id \in IdsInUse
    BY <2>1 DEF IdsInUse
  <2>3. IdsInUse' \subseteq IdsInUse
    BY <1>4, <1>7, <2>1, <2>2, IdsBy
  <2> QED
    BY <1>4, <1>6, <2>1, <2>3, TakesCount
<1>9. CASE op # "PUBLISH0"
  <2>1. /\ waiters' = Register(waiters, AnswerTo[op], id, who) /\ nextId' = NextPacketId /\ id = nextId
    BY <1>1, <1>9 DEF Asking
  <2>2. \A w \in waiters' : w \in waiters \/ w.id = nextId
    BY <2>1 DEF Register
  <2>3. PICK S : S = IdsInUse \cup {nextId}
    OBVIOUS
  <2>4. IdsInUse \subseteq S /\ \A w \in waiters' : w.id \in S
    BY <2>2, <2>3 DEF IdsInUse
  <2>5. \A q \in Out' : q.type \in Asks => q \in Out \/ q.id \in S
    BY <1>3, <1>7, <2>1, <2>3
  <2>6. IdsInUse' \subseteq S
    BY <1>4, <2>4, <2>5, IdsBy
  <2> QED
    BY <1>4, <1>6, <2>1, <2>3, <2>6, TakesCount
<1> QED
  BY <1>8, <1>9

\* A refused call may issue an id, and is a call too.
LEMMA RefusedCount == ASSUME FewCalls, TypeOK, CountInv, NEW c \in Calls, Refused(c) PROVE CountInv'
<1>1. /\ UNCHANGED <<waiters, tx, putting, sending, toBroker, toClient>> /\ call[c].at = "idle"
      /\ nextId' = nextId \/ nextId' = NextPacketId
  BY DEF Refused, queues, wire
<1>2. call'[c].at # "idle" /\ \A x \in Calls : x # c => call'[x] = call[x]
  BY EnterTyped DEF Refused
<1>3. IdsInUse' \subseteq IdsInUse
  <2>1. Out' = Out /\ In' = In /\ \A w \in waiters' : w.id \in IdsInUse
    BY <1>1, OutSame, InSame DEF IdsInUse
  <2> QED
    BY <2>1, IdsBy
<1> QED
  BY <1>1, <1>2, <1>3, TakesCount

\* A PUBREL bears the id of its PUBREC.
LEMMA OnPubRecKeeps == ASSUME TypeOK, IdsApart, OnPubRec PROVE Keeps
<1>1. PICK id : id = Head(toClient).id
  OBVIOUS
<1>2. UNCHANGED <<call, nextId>> /\ In' \subseteq In
  BY IncomingEffect DEF OnPubRec
<1>3. \A c \in Calls : Goes(c)
  BY <1>2, NoCallEnds
<1>4. MovesOn(id)
  BY <1>1, OnPubRecEffect
<1>5. CASE waiters' \subseteq waiters /\ UNCHANGED <<sending, putting, tx, toBroker>>
  BY <1>2, <1>3, <1>5, OutSame, NoneIsNobodys, KeepsBy
<1>6. ASSUME NEW w \in waiters, w.id = id, Adds(Packet("PUBREL", id, w.done)),
             waiters' = Register(waiters \ WaitingFor("PUBREC", id), "PUBCOMP", id, w.done)
      PROVE  Keeps
  <2>1. PICK p : p = Packet("PUBREL", id, w.done)
    OBVIOUS
  <2>2. p.id = id /\ Adds(p)
    BY <1>6, <2>1 DEF Packet
  <2>3. id \in IdsInUse
    BY <1>6 DEF IdsInUse
  <2>4. \A v \in waiters' : v \in waiters \/ v.id = id
    BY <1>6 DEF Register
  <2>5. \A v \in waiters' : v.id \in IdsInUse
    BY <2>3, <2>4 DEF IdsInUse
  <2>6. \A q \in Out' : q.type \in Asks => q \in Out \/ q.id \in IdsInUse
    BY <2>2, <2>3, NoneIsNobodys DEF Adds
  <2>7. IdsInUse' \subseteq IdsInUse
    BY <1>2, <2>5, <2>6, IdsBy
  <2>8. Made' = Made
    BY <1>2 DEF Made
  <2> QED
    BY <1>2, <2>7, <2>8 DEF Keeps
<1> QED
  BY <1>4, <1>5, <1>6 DEF MovesOn

\* The broker answers with the id it was sent.
LEMMA BrokerTakesKeepsIds == ASSUME TypeOK, BrokerTakes PROVE Keeps
<1>1. PICK p : p = Head(toBroker)
  OBVIOUS
<1>2. p \in Packets /\ p \in Out /\ Out' \subseteq Out /\ UNCHANGED <<state, client, queues, call, done, recv>>
  BY <1>1, BrokerTakesEffect
<1>3. UNCHANGED <<nextId, waiters, call>>
  BY <1>2 DEF client
<1>4. PICK a \in Answers(p) : toClient' = IF a = None THEN toClient ELSE Append(toClient, a)
  BY <1>1, BrokerTakesEffect
<1>5. toClient \in Seq(Packets) /\ (a # None => a \in Packets)
  BY <1>2, AnswerIsPacket DEF TypeOK, WireTyped
<1>6. In' \subseteq In \cup ({a} \ {None})
  BY <1>4, <1>5, ElemsAppend, ElemsOut, ElemsOutNext
<1>7. a # None /\ a.type \in Replies => p.type \in Asks /\ a.id = p.id
  BY <1>2, AnswersAre
<1>8. a # None /\ a.type \in Replies => a.id \in IdsInUse
  BY <1>2, <1>7 DEF IdsInUse
<1>9. \A b \in In' : b.type \in Replies => b \in In \/ b.id \in IdsInUse
  BY <1>6, <1>8
<1>10. \A w \in waiters' : w.id \in IdsInUse
  BY <1>3 DEF IdsInUse
<1>11. IdsInUse' \subseteq IdsInUse
  BY <1>2, <1>9, <1>10, IdsBy
<1>12. Made' = Made
  BY <1>3 DEF Made
<1> QED
  BY <1>3, <1>11, <1>12 DEF Keeps

\* A step that leaves ids and calls alone issues no id.
LEMMA SilentKeeps ==
    ASSUME UNCHANGED <<nextId, call, waiters, tx, putting, sending, toBroker, toClient>>
    PROVE  Keeps
BY NoCallEnds, OutSame, InSame, NoneIsNobodys, KeepsBy

\* Every step keeps the count.
LEMMA NextCount == ASSUME FewCalls, MessagesInv, Next, CountInv PROVE CountInv'
<1>0. TypeOK /\ IdsApart /\ DeliveryInv
  BY DEF MessagesInv
<1>1. CASE Handshake
  <2>1. CASE Abort(done)
    BY <1>0, <1>1, <2>1, NoCallEnds, AbortKeeps, KeepsCount DEF Handshake
  <2>2. CASE ~Abort(done)
    BY <1>1, <2>2, SilentKeeps, KeepsCount DEF Handshake, queues, wire
  <2> QED
    BY <2>1, <2>2
<1>2. ASSUME NEW c \in Calls, Refused(c) PROVE CountInv'
  BY <1>0, <1>2, RefusedCount
<1>3. ASSUME NEW c \in Calls, NEW op \in Ops, NEW sync \in BOOLEAN, Request(c, op, sync) PROVE CountInv'
  BY <1>0, <1>3, RequestCount
<1>4. ASSUME NEW c \in Calls, WaitReturns(c) PROVE CountInv'
  <2>1. \A x \in Calls : Goes(x)
    <3>1. /\ call'[c].at = "returned" /\ call'[c].op = call[c].op /\ \A x \in Calls : x # c => call'[x] = call[x]
      BY <1>0, <1>4, AtTyped DEF WaitReturns
    <3> QED
      BY <3>1 DEF Goes
  <2>2. UNCHANGED <<nextId, waiters, tx, putting, sending, toBroker, toClient>>
    BY <1>4 DEF WaitReturns, client, queues, wire
  <2> QED
    BY <2>1, <2>2, OutSame, InSame, NoneIsNobodys, KeepsBy, KeepsCount
<1>5. ASSUME NEW c \in Calls, Disconnect(c) PROVE CountInv'
  <2>1. PICK p : p = Packet("DISCONNECT", 0, c)
    OBVIOUS
  <2>2. p.type \notin Asks
    BY <2>1 DEF Packet, Asks, AnswerTo
  <2>3. Adds(p) /\ In' = In /\ UNCHANGED <<waiters, nextId>> /\ call[c].at = "idle"
    BY <1>0, <1>5, <2>1, DisconnectPlain, InSame DEF Disconnect, Plain, client
  <2>4. PICK where \in {"put", "wait"} : Enter(c, "DISCONNECT", TRUE, where)
    BY <1>5 DEF Disconnect
  <2>5. call'[c].at = where /\ \A x \in Calls : x # c => call'[x] = call[x]
    BY <1>0, <2>4, EnterTyped
  <2>6. \A x \in Calls : Goes(x)
    BY <2>3, <2>5 DEF Goes
  <2> QED
    BY <2>2, <2>3, <2>6, KeepsBy, KeepsCount
<1>6. ASSUME NEW c \in Calls, AbortCall(c) \/ DisconnectEnds(c) PROVE CountInv'
  <2>1. UserShutdown(c) /\ (call[c].at = "idle" \/ call[c].op = "DISCONNECT")
    BY <1>6 DEF AbortCall, DisconnectEnds
  <2>2. /\ call'[c].at = "returned" /\ call'[c].op = "DISCONNECT"
        /\ \A x \in Calls : x # c => call'[x] = call[x]
    BY <1>0, <2>1, EnterTyped DEF UserShutdown
  <2>3. \A x \in Calls : Goes(x)
    BY <2>1, <2>2 DEF Goes
  <2>4. CASE state # "Closed"
    BY <1>0, <2>1, <2>3, <2>4, AbortKeeps, KeepsCount DEF UserShutdown
  <2>5. CASE state = "Closed"
    <3>1. UNCHANGED <<nextId, waiters, tx, putting, sending, toBroker, toClient>>
      BY <2>1, <2>5 DEF UserShutdown, client, queues, wire
    <3> QED
      BY <2>3, <3>1, OutSame, InSame, NoneIsNobodys, KeepsBy, KeepsCount
  <2> QED
    BY <2>4, <2>5
<1>7. ASSUME NEW o \in Owners, PutGoesOn(o) PROVE CountInv'
  <2>1. Adds(None) /\ UNCHANGED <<nextId, waiters, toClient>>
    BY <1>0, <1>7, PutGoesOnPlain DEF Plain, PutGoesOn, client, wire
  <2>2. \A x \in Calls : Goes(x)
    <3>1. CASE o \in Calls
      <4>1. PICK where \in {"wait", "returned"} : At(o, where)
        BY <1>7, <3>1 DEF PutGoesOn
      <4>2. /\ call'[o].at = where /\ call'[o].op = call[o].op /\ \A x \in Calls : x # o => call'[x] = call[x]
        BY <1>0, <3>1, <4>1, AtTyped
      <4> QED
        BY <4>2 DEF Goes
    <3>2. CASE o \notin Calls
      BY <1>7, <3>2, NoCallEnds DEF PutGoesOn
    <3> QED
      BY <3>1, <3>2
  <2> QED
    BY <2>1, <2>2, InSame, NoneIsNobodys, KeepsBy, KeepsCount
<1>8. ASSUME NEW r \in Receivers, Recv(r) PROVE CountInv'
  BY <1>8, SilentKeeps, KeepsCount DEF Recv, client, wire
<1>9. CASE SendTake
  <2>1. Adds(None) /\ UNCHANGED <<nextId, waiters, toClient, call>>
    BY <1>0, <1>9, SendTakePlain DEF Plain, SendTake, client, wire
  <2> QED
    BY <2>1, NoCallEnds, InSame, NoneIsNobodys, KeepsBy, KeepsCount
<1>10. CASE SendWrite
  <2>1. Adds(None) /\ In' = In /\ UNCHANGED <<nextId, waiters, call>>
    BY <1>0, <1>10, SendWritePlain DEF Plain, SendWrite
  <2> QED
    BY <2>1, NoCallEnds, NoneIsNobodys, KeepsBy, KeepsCount
<1>11. CASE SendFails
  BY <1>0, <1>11, NoCallEnds, AbortKeeps, KeepsCount DEF SendFails
<1>12. CASE KeepaliveTick
  <2>1. call' = call
    BY <1>12 DEF KeepaliveTick
  <2>2. CASE Abort(done)
    BY <1>0, <2>1, <2>2, NoCallEnds, AbortKeeps, KeepsCount
  <2>3. CASE ~Abort(done)
    <3>1. UNCHANGED <<nextId, waiters, toClient>>
      BY <1>0, <1>12, <2>3, KeepaliveTickPlain
    <3>2. PICK p \in {None, Packet("PINGREQ", 0, "nobody")} : Plain(p)
      BY <1>0, <1>12, <2>3, KeepaliveTickPlain
    <3>3. p.type \notin Asks /\ Adds(p)
      BY <3>2 DEF None, Packet, Asks, AnswerTo, Plain
    <3> QED
      BY <2>1, <3>1, <3>3, NoCallEnds, InSame, KeepsBy, KeepsCount
  <2> QED
    BY <2>2, <2>3
<1>13. CASE DeliverGoesOn
  <2>1. UNCHANGED <<nextId, waiters, call>>
    BY <1>13 DEF DeliverGoesOn
  <2>2. PICK p : Adds(p) /\ p.type \notin Asks
    BY <1>0, <1>13, DeliverGoesOnApart
  <2>3. In' = In
    BY <1>0, <1>13, DeliverGoesOnApart
  <2> QED
    BY <2>1, <2>2, <2>3, NoCallEnds, KeepsBy, KeepsCount
<1>14. CASE OnPublish
  <2>1. UNCHANGED <<nextId, waiters, call>> /\ In' \subseteq In
    BY <1>0, <1>14, IncomingEffect DEF OnPublish
  <2>2. PICK p : Adds(p) /\ p.type \notin Asks
    BY <1>0, <1>14, OnPublishApart
  <2> QED
    BY <2>1, <2>2, NoCallEnds, KeepsBy, KeepsCount
<1>15. CASE OnPubRel
  <2>1. UNCHANGED <<nextId, waiters, call>> /\ In' \subseteq In
    BY <1>0, <1>15, IncomingEffect DEF OnPubRel
  <2>2. PICK p : Adds(p) /\ p.type \notin Asks
    BY <1>0, <1>15, OnPubRelApart
  <2> QED
    BY <2>1, <2>2, NoCallEnds, KeepsBy, KeepsCount
<1>16. CASE OnPubRec
  BY <1>0, <1>16, OnPubRecKeeps, KeepsCount
<1>17. CASE OnPingResp
  <2>1. UNCHANGED <<nextId, waiters, call, tx, putting, sending, toBroker>> /\ In' \subseteq In
    BY <1>0, <1>17, IncomingEffect DEF OnPingResp, queues
  <2> QED
    BY <2>1, NoCallEnds, OutSame, NoneIsNobodys, KeepsBy, KeepsCount
<1>18. CASE ReceiveFails
  BY <1>0, <1>18, NoCallEnds, AbortKeeps, KeepsCount DEF ReceiveFails
<1>19. ASSUME NEW t, OnAnswer(t) PROVE CountInv'
  <2>1. UNCHANGED <<nextId, call, tx, putting, sending, toBroker>> /\ In' \subseteq In
    BY <1>0, <1>19, IncomingEffect DEF OnAnswer, queues
  <2>2. waiters' \subseteq waiters
    BY <1>0, <1>19, OnAnswerEffect
  <2> QED
    BY <2>1, <2>2, NoCallEnds, OutSame, NoneIsNobodys, KeepsBy, KeepsCount
<1>20. CASE BrokerTakes
  BY <1>0, <1>20, BrokerTakesKeepsIds, KeepsCount
<1>21. CASE BrokerFails
  <2>1. PICK p : p = Packet("BAD", 0, "ok")
    OBVIOUS
  <2>2. /\ p \in Packets /\ p.type = "BAD" /\ toClient' \in {toClient, Append(toClient, p)}
        /\ UNCHANGED <<state, client, queues, call, done, recv, toBroker>>
    BY <1>0, <1>21, <2>1, BrokerFailsEffect
  <2>3. UNCHANGED <<nextId, waiters, call, tx, putting, sending, toBroker>>
    BY <2>2 DEF client, queues
  <2>4. In' \subseteq In \cup {p} /\ p.type \notin Replies
    BY <1>0, <2>2, ElemsAppend, ElemsOut, ElemsOutNext DEF Replies, TypeOK, WireTyped
  <2> QED
    BY <2>3, <2>4, NoCallEnds, OutSame, NoneIsNobodys, KeepsBy, KeepsCount
<1>22. ASSUME NEW m \in Inbound, BrokerPublishes(m) PROVE CountInv'
  <2>1. PICK p : p = Packet(IF broker.msg[m] = "rec" THEN "PUBREL" ELSE "PUBLISH", m, "ok")
    OBVIOUS
  <2>2. /\ p \in Packets /\ p.type \in {"PUBREL", "PUBLISH"} /\ toClient' = Append(toClient, p)
        /\ UNCHANGED <<state, client, queues, call, done, recv, toBroker>>
    BY <1>0, <1>22, <2>1, BrokerPublishesEffect
  <2>3. UNCHANGED <<nextId, waiters, call, tx, putting, sending, toBroker>>
    BY <2>2 DEF client, queues
  <2>4. In' \subseteq In \cup {p} /\ p.type \notin Replies
    BY <1>0, <2>2, ElemsAppend, ElemsOut, ElemsOutNext DEF Replies, TypeOK, WireTyped
  <2> QED
    BY <2>3, <2>4, NoCallEnds, OutSame, NoneIsNobodys, KeepsBy, KeepsCount
<1> QED
  BY <1>1, <1>2, <1>3, <1>4, <1>5, <1>6, <1>7, <1>8, <1>9, <1>10, <1>11, <1>12, <1>13, <1>14,
     <1>15, <1>16, <1>17, <1>18, <1>19, <1>20, <1>21, <1>22 DEF Next, Client

\* A new client has issued no id.
LEMMA InitCount == ASSUME FewCalls, Init PROVE CountInv
<1>1. nextId = 1 /\ waiters = {} /\ Out \subseteq {None} /\ In = {}
  BY DEF Init, Out, In
<1>2. IdsInUse = {}
  BY <1>1, NoneIsNobodys DEF IdsInUse
<1>3. Counted(0)
  BY <1>1, <1>2, MadeIs, Bounds DEF Counted
<1> QED
  BY <1>3 DEF CountInv

\* With at most MaxId calls the next id is not in use.
LEMMA CountIsFresh == ASSUME FewCalls, TypeOK, CountInv PROVE FreshIds
<1>1. PICK k \in Nat : Counted(k)
  BY DEF CountInv
<1>2. ASSUME NEW c \in Calls, call[c].at = "idle" PROVE nextId \notin IdsInUse
  BY <1>1, <1>2, NextIsFree DEF Counted
<1> QED
  BY <1>2 DEF FreshIds

\* nextPacketId() does not look whether an id is in use.  It need not as long as
\* the application makes no more calls than there are ids: the ids are then used
\* once, also those that a refused call drops.
THEOREM IdsAreFresh == ASSUME FewCalls PROVE Spec => [][FreshIds]_vars
<1>1. Init => CountInv
  BY InitCount
<1>2. MessagesInv /\ CountInv /\ [Next]_vars => CountInv'
  <2>1. ASSUME CountInv, UNCHANGED vars PROVE CountInv'
    BY <2>1, SilentKeeps, KeepsCount DEF vars, client, queues, wire
  <2> QED
    BY <2>1, NextCount
<1>3. MessagesInv /\ CountInv => FreshIds
  BY CountIsFresh DEF MessagesInv
<1> QED
  BY <1>1, <1>2, <1>3, MessagesAlways, PTL DEF Spec

\* So with no more than 65535 calls every call that waits for an acknowledgement is
\* seen, and true means taken.
THEOREM FewCallsAreSeen == ASSUME FewCalls PROVE Spec => [](NobodyWaitsUnseen /\ TrueMeansTaken)
<1>1. Spec => [][FreshIds]_vars
  BY IdsAreFresh
<1> QED
  BY <1>1, NobodyIsForgotten, TrueIsTaken, PTL

--------------------------------------------------------------------------------
(* The receiver. *)

OneReceiver == \A r, s \in Receivers : r = s

\* When a sleeping receiver still finds something.
LEMMA ToldBy ==
    ASSUME ReceiverIsTold, recv' = recv, state' = "Closed" => state = "Closed",
           receiving # <<>> => receiving' # <<>>
    PROVE  ReceiverIsTold'
BY DEF ReceiverIsTold

\* abort() puts the empty message.
LEMMA AbortTold == ASSUME TypeOK, NEW d, Abort(d) PROVE ReceiverIsTold'
BY AbortEffect DEF ReceiverIsTold

\* A put() into receivingQueue leaves it non-empty.
LEMMA DeliversTold ==
    ASSUME TypeOK, ReceiverIsTold, NEW m \in Inbound, NEW p, Delivers(m, p) \/ Deliver(m, p), UNCHANGED <<state, recv>>
    PROVE  ReceiverIsTold'
<1>1. receiving \in Seq(Inbound \cup {Empty})
  BY DEF TypeOK, QueuesTyped
<1>2. receiving' = receiving \/ receiving' = Append(receiving, m)
  BY DEF Delivers, Deliver
<1>3. receiving # <<>> => receiving' # <<>>
  BY <1>1, <1>2, AppendIs
<1> QED
  BY <1>3, ToldBy

\* Every step keeps that the one receiver is told.
LEMMA NextTold == ASSUME OneReceiver, MessagesInv, ReceiverIsTold, Next PROVE ReceiverIsTold'
<1>0. TypeOK /\ IdsApart
  BY DEF MessagesInv
<1>1. ASSUME NEW r \in Receivers, Recv(r) PROVE ReceiverIsTold'
  <2>1. CASE receiving # <<>>
    <3>1. recv' = recv \ {r} /\ recv \subseteq Receivers
      BY <1>0, <1>1, <2>1 DEF Recv, TypeOK, CallsTyped
    <3>2. recv' = {}
      BY <3>1 DEF OneReceiver
    <3> QED
      BY <3>2 DEF ReceiverIsTold
  <2>2. CASE receiving = <<>>
    BY <1>1, <2>2 DEF Recv, ReceiverIsTold
  <2> QED
    BY <2>1, <2>2
<1>2. CASE Handshake
  BY <1>0, <1>2, AbortTold DEF Handshake, ReceiverIsTold
<1>3. ASSUME NEW c \in Calls, AbortCall(c) \/ DisconnectEnds(c) PROVE ReceiverIsTold'
  <2>1. UserShutdown(c)
    BY <1>3 DEF AbortCall, DisconnectEnds
  <2>2. CASE state # "Closed"
    BY <1>0, <2>1, <2>2, AbortTold DEF UserShutdown
  <2>3. CASE state = "Closed"
    BY <2>1, <2>3 DEF UserShutdown, queues, ReceiverIsTold
  <2> QED
    BY <2>2, <2>3
<1>4. CASE SendFails \/ ReceiveFails
  BY <1>0, <1>4, AbortTold DEF SendFails, ReceiveFails
<1>5. CASE KeepaliveTick
  <2>1. CASE Abort(done)
    BY <1>0, <2>1, AbortTold
  <2>2. CASE ~Abort(done)
    BY <1>5, <2>2 DEF KeepaliveTick, ReceiverIsTold
  <2> QED
    BY <2>1, <2>2
<1>6. CASE DeliverGoesOn
  <2>1. rx[1] \in Inbound /\ Delivers(rx[1], rx[2]) /\ UNCHANGED <<state, recv>>
    BY <1>0, <1>6, RxIs DEF DeliverGoesOn
  <2> QED
    BY <1>0, <2>1, DeliversTold
<1>7. CASE OnPublish
  <2>1. PICK m : m = Head(toClient).id
    OBVIOUS
  <2>2. m \in Inbound /\ Publishes(m) /\ UNCHANGED <<state, recv>>
    BY <1>0, <1>7, <2>1, OnPublishIs DEF OnPublish, Incoming
  <2>3. CASE receiving' = receiving
    BY <2>2, <2>3, ToldBy
  <2>4. CASE receiving' # receiving
    <3>1. \E p : Deliver(m, p)
      BY <2>2, <2>4 DEF Publishes
    <3> QED
      BY <1>0, <2>2, <3>1, DeliversTold
  <2> QED
    BY <2>3, <2>4
<1>8. CASE OnPubRel
  <2>1. PICK m, comp : m = Head(toClient).id /\ comp = Packet("PUBCOMP", m, "nobody")
    OBVIOUS
  <2>2. m \in Inbound /\ UNCHANGED <<state, recv>>
    BY <1>0, <1>8, <2>1, OnPubRelEffect DEF OnPubRel, Incoming
  <2>3. Deliver(m, comp) \/ receiving' = receiving
    BY <1>8, <2>1 DEF OnPubRel
  <2> QED
    BY <1>0, <2>2, <2>3, DeliversTold, ToldBy
<1>9. CASE UNCHANGED <<receiving, recv>> /\ (state' = "Closed" => state = "Closed")
  BY <1>9 DEF ReceiverIsTold
<1>10. ASSUME NEW c \in Calls,
              Refused(c) \/ WaitReturns(c) \/ Disconnect(c) \/ \E op \in Ops, sync \in BOOLEAN : Request(c, op, sync)
       PROVE  ReceiverIsTold'
  BY <1>9, <1>10 DEF Refused, WaitReturns, Disconnect, Request, queues
<1>11. CASE SendTake \/ SendWrite \/ OnPingResp \/ OnPubRec \/ BrokerTakes \/ BrokerFails
  BY <1>9, <1>11 DEF SendTake, SendWrite, OnPingResp, OnPubRec, BrokerTakes, BrokerFails, Incoming, queues
<1>12. ASSUME NEW t, OnAnswer(t) PROVE ReceiverIsTold'
  BY <1>9, <1>12 DEF OnAnswer, Incoming, queues
<1>13. ASSUME NEW o \in Owners, PutGoesOn(o) PROVE ReceiverIsTold'
  BY <1>9, <1>13 DEF PutGoesOn
<1>14. ASSUME NEW m \in Inbound, BrokerPublishes(m) PROVE ReceiverIsTold'
  BY <1>9, <1>14 DEF BrokerPublishes, queues
<1> QED
  BY <1>1, <1>2, <1>3, <1>4, <1>5, <1>6, <1>7, <1>8, <1>10, <1>11, <1>12, <1>13, <1>14 DEF Next, Client

\* The one empty message that abort() puts into receivingQueue reaches the receiver
\* that sleeps in recv(), if there is only one.
THEOREM OneReceiverIsTold == ASSUME OneReceiver PROVE Spec => []ReceiverIsTold
<1>1. Init => ReceiverIsTold
  BY DEF Init, ReceiverIsTold
<1>2. MessagesInv /\ ReceiverIsTold /\ [Next]_vars => ReceiverIsTold'
  <2>1. ASSUME ReceiverIsTold, UNCHANGED vars PROVE ReceiverIsTold'
    BY <2>1 DEF vars, queues, ReceiverIsTold
  <2> QED
    BY <2>1, NextTold
<1> QED
  BY <1>1, <1>2, MessagesAlways, PTL DEF Spec

=================================================================================
