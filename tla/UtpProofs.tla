------------------------------- MODULE UtpProofs -------------------------------
(***************************************************************************)
(* Proofs about Utp, for any modulus of the sequence numbers, any initial  *)
(* number and any network: as long as the SYN is not sent again or         *)
(* duplicated while an answer is under way, and the server speaks second,  *)
(* each direction is a reliable stream.                                    *)
(***************************************************************************)
EXTENDS Utp, SequenceTheorems, FiniteSetTheorems, WellFoundedInduction, TLAPS

\* The use under which the stream is reliable (see the findings in the README).
Orderly == Prompt /\ ~ServerFirst /\ "SYN" \notin Dups

Half == SeqMod \div 2
Numbers == 0..(SeqMod - 1)

\* The number of the k-th packet of an end whose numbers start after b.
Nth(b, k) == Seq16(b + k)
Base(e) == IF e = "c" THEN end["c"].syn ELSE 0
Num(e, k) == Nth(Base(e), k)

L(e) == Len(sent[e])
G(e) == Len(received[e])
Gone(e) == end[e].state = "Closed"
--------------------------------------------------------------------------------
(* Sequence numbers that wrap. *)

\* What the assumption says of the sequence space.
LEMMA Modulus == SeqMod \in Nat /\ SeqMod >= 2 /\ Half \in Nat /\ 2 * Half = SeqMod /\ MaxData \in Nat /\ MaxData + 1 <= Half
<1>1. SeqMod \in Nat /\ SeqMod % 2 = 0 /\ MaxData \in Nat /\ MaxData < SeqMod \div 2
  BY UtpAssumption
<1>2. 2 * (SeqMod \div 2) = SeqMod /\ SeqMod \div 2 \in Nat
  BY <1>1
<1> QED
  BY <1>1, <1>2 DEF Half

\* Seq16() within one turn of the space on either side.
LEMMA Seq16Law ==
    ASSUME NEW n \in (-SeqMod)..(2 * SeqMod - 1)
    PROVE  Seq16(n) = IF n < 0 THEN n + SeqMod ELSE IF n < SeqMod THEN n ELSE n - SeqMod
<1> DEFINE M == SeqMod
<1>0. M \in Nat \ {0}
  BY Modulus
<1>1. \A x \in 0..(M - 1) : x % M = x /\ (x + M) % M = x /\ (x + M + M) % M = x
  <2> SUFFICES ASSUME NEW x \in 0..(M - 1)
               PROVE  x % M = x /\ (x + M) % M = x /\ (x + M + M) % M = x
    OBVIOUS
  <2> HIDE DEF M
  <2>1. x % M = x
    BY <1>0
  <2>2. (x + M) % M = x
    BY <1>0
  <2>3. (x + M + M) % M = x
    BY <1>0
  <2> QED
    BY <2>1, <2>2, <2>3
<1> HIDE DEF M
<1>2. Seq16(n) = (n + M) % M
  BY DEF Seq16, M
<1>3. n \in (-M)..(2 * M - 1)
  BY DEF M
<1>4. CASE n < 0
  <2>1. n + M \in 0..(M - 1)
    BY <1>0, <1>3, <1>4
  <2> QED
    BY <1>1, <1>2, <1>4, <2>1 DEF M
<1>5. CASE n >= 0 /\ n < M
  <2>1. n \in 0..(M - 1)
    BY <1>0, <1>3, <1>5
  <2> QED
    BY <1>1, <1>2, <1>3, <1>5, <2>1 DEF M
<1>6. CASE n >= M
  <2>1. n - M \in 0..(M - 1) /\ n + M = (n - M) + M + M
    BY <1>0, <1>3, <1>6
  <2>2. Seq16(n) = n - M
    BY <1>1, <1>2, <2>1
  <2> QED
    BY <1>0, <1>3, <1>6, <2>2 DEF M
<1> QED
  BY <1>0, <1>3, <1>4, <1>5, <1>6

\* The numbers of successive packets are successive; within one turn of the
\* space they differ, and within half of it SeqDiff() orders them.
LEMMA NthLaw ==
    ASSUME NEW b \in Numbers, NEW k \in 0..SeqMod
    PROVE  /\ Nth(b, k) = IF b + k < SeqMod THEN b + k ELSE b + k - SeqMod
           /\ Nth(b, k) \in Numbers
<1>1. b + k \in (-SeqMod)..(2 * SeqMod - 1) /\ b \in Nat /\ k \in Nat
  BY Modulus DEF Numbers
<1>2. Nth(b, k) = IF b + k < SeqMod THEN b + k ELSE b + k - SeqMod
  BY <1>1, Seq16Law, Modulus DEF Nth
<1> QED
  BY <1>1, <1>2, Modulus DEF Numbers

\* Within half the space different packets have different numbers.
LEMMA NthDiffer ==
    ASSUME NEW b \in Numbers, NEW k \in 0..SeqMod, NEW j \in 0..SeqMod,
           k - j < SeqMod, j - k < SeqMod, Nth(b, k) = Nth(b, j)
    PROVE  k = j
<1>1. Nth(b, k) = IF b + k < SeqMod THEN b + k ELSE b + k - SeqMod
  BY NthLaw
<1>2. Nth(b, j) = IF b + j < SeqMod THEN b + j ELSE b + j - SeqMod
  BY NthLaw
<1>3. SeqMod \in Nat /\ b \in Nat /\ k \in Nat /\ j \in Nat /\ b < SeqMod
  BY Modulus DEF Numbers
<1>4. (IF b + k < SeqMod THEN b + k ELSE b + k - SeqMod)
        = (IF b + j < SeqMod THEN b + j ELSE b + j - SeqMod)
  BY <1>1, <1>2
<1>5. CASE b + k < SeqMod /\ b + j < SeqMod
  BY <1>3, <1>4, <1>5
<1>6. CASE ~(b + k < SeqMod) /\ ~(b + j < SeqMod)
  BY <1>3, <1>4, <1>6
<1>7. CASE b + k < SeqMod /\ ~(b + j < SeqMod)
  BY <1>3, <1>4, <1>7
<1>8. CASE ~(b + k < SeqMod) /\ b + j < SeqMod
  BY <1>3, <1>4, <1>8
<1> QED
  BY <1>5, <1>6, <1>7, <1>8

\* Counting on from the number of the k-th packet, across the wrap.
LEMMA NthNext ==
    ASSUME NEW b \in Numbers, NEW k \in 0..SeqMod, NEW i \in 0..SeqMod, k + i <= SeqMod
    PROVE  Seq16(Nth(b, k) + i) = Nth(b, k + i)
<1> DEFINE x == Nth(b, k)
<1>0. SeqMod \in Nat /\ b \in Nat /\ k \in Nat /\ i \in Nat /\ b < SeqMod /\ SeqMod >= 2
  BY Modulus DEF Numbers
<1>1. (x = IF b + k < SeqMod THEN b + k ELSE b + k - SeqMod) /\ x \in Numbers
  BY NthLaw
<1>2. k + i \in 0..SeqMod
  BY <1>0
<1>3. Nth(b, k + i) = IF b + (k + i) < SeqMod THEN b + (k + i) ELSE b + (k + i) - SeqMod
  BY <1>2, NthLaw
<1> HIDE DEF x
<1>4. x \in Nat /\ x < SeqMod
  BY <1>0, <1>1 DEF Numbers
<1>5. x + i \in (-SeqMod)..(2 * SeqMod - 1)
  BY <1>0, <1>4
<1> DEFINE y == x + i
<1>6. Seq16(y) = IF y < 0 THEN y + SeqMod ELSE IF y < SeqMod THEN y ELSE y - SeqMod
  <2> HIDE DEF y
  <2> QED
    BY <1>5, Seq16Law DEF y
<1>7. Seq16(x + i) = IF b + (k + i) < SeqMod THEN b + (k + i) ELSE b + (k + i) - SeqMod
  BY <1>0, <1>1, <1>4, <1>6
<1> QED
  BY <1>3, <1>7 DEF x

\* Within half the space SeqDiff() compares packets as their places do, across the
\* wrap too.
LEMMA NthOrder ==
    ASSUME NEW b \in Numbers, NEW k \in 0..SeqMod, NEW j \in 0..SeqMod,
           k - j \in (-Half)..(Half - 1)
    PROVE  SeqDiff(Nth(b, k), Nth(b, j)) = k - j
<1> DEFINE x == Nth(b, k)
           y == Nth(b, j)
<1>1. /\ x = IF b + k < SeqMod THEN b + k ELSE b + k - SeqMod
      /\ y = IF b + j < SeqMod THEN b + j ELSE b + j - SeqMod
      /\ x \in Numbers /\ y \in Numbers
  BY NthLaw
<1>2. SeqDiff(x, y) = IF Seq16(x - y) < Half THEN Seq16(x - y) ELSE Seq16(x - y) - SeqMod
  BY DEF SeqDiff, Half
<1> HIDE DEF x, y
<1>3. x - y \in (-SeqMod)..(2 * SeqMod - 1)
  BY <1>1, Modulus DEF Numbers
<1>4. Seq16(x - y) = IF x - y < 0 THEN x - y + SeqMod ELSE IF x - y < SeqMod THEN x - y ELSE x - y - SeqMod
  BY <1>3, Seq16Law
<1>5. SeqDiff(x, y) = k - j
  BY <1>1, <1>2, <1>3, <1>4, Modulus DEF Numbers
<1> QED
  BY <1>5 DEF x, y

--------------------------------------------------------------------------------
(* The operators on packets. *)

\* A non-empty set of naturals has a least element.
LEMMA LeastNumber ==
    ASSUME NEW T \in SUBSET Nat, T # {}
    PROVE  \E m \in T : \A n \in T : m <= n
<1> DEFINE R == {ss \in Nat \X Nat : ss[1] < ss[2]}
<1>1. R = OpToRel(<, Nat)
  BY DEF OpToRel
<1>2. IsWellFoundedOn(R, Nat)
  BY <1>1, NatLessThanWellFounded
<1>3. PICK m \in T : \A n \in T : ~(<<n, m>> \in R)
  <2> HIDE DEF R
  <2> QED
    BY <1>2, WFMin
<1>4. \A n \in T : n < m => <<n, m>> \in R
  BY SMT
<1>5. \A n \in T : ~(n < m)
  <2> HIDE DEF R
  <2> QED
    BY <1>3, <1>4, Zenon
<1> QED
  BY <1>5


\* Packets g+1, g+2, ... of which those up to l have a payload, their number.
Successive(run, g, l) ==
    \A i \in DOMAIN run : run[i].chunk = IF g + i <= l THEN g + i ELSE 0

Counting(g, n) == [j \in 1..n |-> g + j]
Least(a, b) == IF a <= b THEN a ELSE b

\* Numbers that count up go on with the next one.
LEMMA CountingAppend ==
    ASSUME NEW g \in Nat, NEW n \in Nat
    PROVE  Counting(g, n) \in Seq(Nat) /\ Len(Counting(g, n)) = n
           /\ Append(Counting(g, n), g + (n + 1)) = Counting(g, n + 1)
BY DEF Counting

\* Two runs that count up, one after the other.
LEMMA CountingJoins ==
    ASSUME NEW n \in Nat, NEW m \in Nat
    PROVE  Counting(0, n) \o Counting(n, m) = Counting(0, n + m)
BY DEF Counting

\* The start of a run that counts up.
LEMMA CountingPart ==
    ASSUME NEW n \in Nat, NEW m \in Nat, m <= n
    PROVE  SubSeq(Counting(0, n), 1, m) = Counting(0, m)
BY DEF Counting

\* Successive packets bring successive payloads.
LEMMA PayloadsCount ==
    ASSUME NEW S, NEW run \in Seq(S), NEW g \in Nat, NEW l \in Nat, g <= l, Successive(run, g, l)
    PROVE  Payloads(run) = Counting(g, Least(Len(run), l - g))
<1> DEFINE Step(f, i) == IF i = 0 THEN <<>>
                         ELSE IF run[i].chunk > 0 THEN Append(f[i - 1], run[i].chunk) ELSE f[i - 1]
           part(i) == Counting(g, Least(i, l - g))
           w == [i \in 0..Len(run) |-> part(i)]
           u == CHOOSE f : f = [i \in 0..Len(run) |-> Step(f, i)]
<1>0. Len(run) \in Nat /\ l - g \in Nat /\ DOMAIN run = 1..Len(run)
  OBVIOUS
<1>1. part(0) = <<>>
  BY <1>0 DEF Counting, Least
<1>2. ASSUME NEW i \in 1..Len(run)
      PROVE  part(i) = IF run[i].chunk > 0 THEN Append(part(i - 1), run[i].chunk) ELSE part(i - 1)
  <2>0. i \in Nat /\ i >= 1 /\ run[i].chunk = IF g + i <= l THEN g + i ELSE 0
    BY <1>0 DEF Successive
  <2>1. CASE g + i <= l
    <3>1. Least(i, l - g) = i /\ Least(i - 1, l - g) = i - 1 /\ run[i].chunk = g + i /\ run[i].chunk > 0
      BY <1>0, <2>0, <2>1 DEF Least
    <3>2. Append(Counting(g, i - 1), g + ((i - 1) + 1)) = Counting(g, (i - 1) + 1)
      <4>1. i - 1 \in Nat
        BY <2>0
      <4> QED
        BY <4>1, CountingAppend
    <3>3. (i - 1) + 1 = i
      BY <2>0
    <3> QED
      BY <3>1, <3>2, <3>3
  <2>2. CASE ~(g + i <= l)
    <3>1. Least(i, l - g) = l - g /\ Least(i - 1, l - g) = l - g /\ run[i].chunk = 0
      BY <1>0, <2>0, <2>2 DEF Least
    <3> QED
      BY <3>1
  <2> QED
    BY <2>1, <2>2
<1> HIDE DEF part
<1>3. w = [i \in 0..Len(run) |-> Step(w, i)]
  <2> SUFFICES ASSUME NEW i \in 0..Len(run) PROVE part(i) = Step(w, i)
    OBVIOUS
  <2>1. CASE i = 0
    BY <1>1, <2>1
  <2>2. CASE i # 0
    <3>1. i \in 1..Len(run) /\ i - 1 \in 0..Len(run)
      BY <1>0, <2>2
    <3>2. w[i - 1] = part(i - 1)
      BY <3>1
    <3> HIDE DEF w
    <3> QED
      BY <1>2, <2>2, <3>1, <3>2
  <2> QED
    BY <2>1, <2>2
<1>4. u = [i \in 0..Len(run) |-> Step(u, i)]
  <2> HIDE DEF w
  <2> QED
    BY <1>3
<1>5. Payloads(run) = u[Len(run)]
  BY DEF Payloads
<1> HIDE DEF u
<1> DEFINE Bad == {i \in 0..Len(run) : u[i] # part(i)}
<1>6. Bad = {}
  <2> SUFFICES ASSUME Bad # {} PROVE FALSE
    OBVIOUS
  <2>0. Bad \in SUBSET Nat
    BY <1>0
  <2>1. PICK m \in Bad : \A n \in Bad : m <= n
    <3> HIDE DEF Bad
    <3> QED
      BY <2>0, LeastNumber
  <2>2. m \in 0..Len(run) /\ u[m] # part(m) /\ m \in Nat
    OBVIOUS
  <2>3. u[m] = Step(u, m)
    BY <1>4, <2>2
  <2>4. CASE m = 0
    BY <1>1, <2>2, <2>3, <2>4
  <2>5. CASE m # 0
    <3>1. m \in 1..Len(run) /\ m - 1 \in 0..Len(run) /\ ~(m <= m - 1)
      BY <1>0, <2>2, <2>5
    <3>2. u[m - 1] = part(m - 1)
      BY <2>1, <3>1
    <3> QED
      BY <1>2, <2>2, <2>3, <2>5, <3>1, <3>2
  <2> QED
    BY <2>4, <2>5
<1>7. u[Len(run)] = part(Len(run))
  BY <1>0, <1>6
<1> QED
  BY <1>5, <1>7 DEF part

\* ackPackets() drops packets from the front, and none beyond the acknowledged one.
LEMMA AckPacketsLaw ==
    ASSUME NEW S, NEW q \in Seq(S), NEW b \in Numbers, NEW d \in Nat, NEW k \in Nat,
           d + Len(q) <= MaxData, k <= MaxData,
           \A i \in DOMAIN q : q[i].packet.seq = Nth(b, d + i)
    PROVE  \E m \in 0..Len(q) : /\ AckPackets(q, Nth(b, k)) = SubSeq(q, m + 1, Len(q))
                                /\ m # 0 => d + m <= k
<1> DEFINE kept == {i \in DOMAIN q : SeqDiff(Nth(b, k), q[i].packet.seq) < 0}
<1>0. Len(q) \in Nat /\ DOMAIN q = 1..Len(q)
  OBVIOUS
<1>1. ASSUME NEW i \in 1..Len(q)
      PROVE  SeqDiff(Nth(b, k), q[i].packet.seq) = k - (d + i)
  <2>1. d + i \in 0..SeqMod /\ k \in 0..SeqMod /\ k - (d + i) \in (-Half)..(Half - 1)
    BY <1>0, Modulus
  <2>2. q[i].packet.seq = Nth(b, d + i)
    BY <1>0
  <2> QED
    BY <2>1, <2>2, NthOrder
<1>2. kept = {i \in 1..Len(q) : k < d + i}
  BY <1>0, <1>1
<1>3. AckPackets(q, Nth(b, k)) =
        IF kept = {} THEN <<>> ELSE SubSeq(q, CHOOSE i \in kept : \A j \in kept : i <= j, Len(q))
  BY DEF AckPackets
<1> HIDE DEF kept
<1>4. CASE kept = {}
  <2>1. AckPackets(q, Nth(b, k)) = SubSeq(q, Len(q) + 1, Len(q))
    BY <1>0, <1>3, <1>4
  <2>2. Len(q) # 0 => d + Len(q) <= k
    BY <1>0, <1>2, <1>4
  <2> QED
    BY <1>0, <2>1, <2>2
<1>5. CASE kept # {}
  <2> DEFINE i == CHOOSE i \in kept : \A j \in kept : i <= j
  <2>1. kept \in SUBSET Nat
    BY <1>0, <1>2
  <2>2. i \in kept /\ \A j \in kept : i <= j
    BY <1>5, <2>1, LeastNumber
  <2>3. AckPackets(q, Nth(b, k)) = SubSeq(q, i, Len(q))
    BY <1>3, <1>5
  <2> HIDE DEF i
  <2>4. i \in 1..Len(q) /\ i - 1 \in 0..Len(q) /\ (i - 1) + 1 = i
    BY <1>0, <1>2, <2>2
  <2>5. i - 1 # 0 => d + (i - 1) <= k
    <3> SUFFICES ASSUME i - 1 # 0, ~(d + (i - 1) <= k) PROVE FALSE
      OBVIOUS
    <3>1. i - 1 \in 1..Len(q) /\ k < d + (i - 1) /\ ~(i <= i - 1)
      BY <1>0, <2>4
    <3> QED
      BY <1>2, <2>2, <3>1
  <2> QED
    BY <2>3, <2>4, <2>5
<1> QED
  BY <1>4, <1>5

--------------------------------------------------------------------------------
(* The inductive invariant. *)

Packets == [to : Ends, type : {"SYN", "STATE", "DATA", "FIN"}, seq : Numbers, ack : Numbers,
            chunk : Nat, upto : Nat]
Entries == [packet : Packets, transmitCount : Nat]
Streams == [state : {"Unconnected", "Listening", "Connecting", "Connected", "Closed"},
            seqNr : Numbers, ackNr : Numbers, syn : Numbers, sendQueue : Seq(Entries),
            outOfOrder : SUBSET [seq : Numbers, chunk : Nat], finReceived : BOOLEAN]

TypeOK ==
    /\ end \in [Ends -> Streams] /\ sent \in [Ends -> Seq(Nat)] /\ received \in [Ends -> Seq(Nat)]
    /\ heard \in [Ends -> Nat] /\ net \subseteq Packets
    /\ \A e \in Ends : IsFiniteSet(end[e].outOfOrder)

\* Packet chunk of e has the number of its place; the FIN follows the last one.
Sound(e, seq, chunk) ==
    \/ chunk \in 1..L(e) /\ seq = Num(e, chunk)
    \/ chunk = 0 /\ seq = Num(e, L(e) + 1) /\ Gone(e)

\* What e acknowledges it has received; only the FIN comes after all the data.
Acks(e, ack) ==
    \E k \in 0..(L(Peer(e)) + 1) :
        /\ ack = Num(Peer(e), k)
        /\ k > G(e) => L(Peer(e)) = G(e) /\ Gone(Peer(e))

\* ackNr is the number of the last packet received in order.
AckIs(e, ack) ==
    \/ ack = Num(Peer(e), G(e))
    \/ ack = Num(Peer(e), G(e) + 1) /\ L(Peer(e)) = G(e) /\ Gone(Peer(e))

\* A datagram under way says the truth about its sender.
Tells(p) ==
    /\ p.type \in {"DATA", "FIN"} => Sound(Peer(p.to), p.seq, p.chunk)
    /\ p.type # "SYN" => Acks(Peer(p.to), p.ack)
    /\ p.type = "SYN" => p.to = "s" /\ p.seq = end["c"].syn

Within(e) == L(e) <= MaxData /\ G(e) <= L(Peer(e))
Counts(e) == sent[e] = Counting(0, L(e)) /\ received[e] = Counting(0, G(e))
EarlySound(e) == \A x \in end[e].outOfOrder : Sound(Peer(e), x.seq, x.chunk)

\* sendQueue holds the last packets of an open stream; the others were received.
QueueSound(e) ==
    LET q == end[e].sendQueue
        d == L(e) - Len(q)
    IN ~Gone(e) => /\ end[e].seqNr = Num(e, L(e) + 1)
                   /\ d \in 0..G(Peer(e))
                   /\ \A i \in DOMAIN q : /\ q[i].packet.to = Peer(e) /\ q[i].packet.type = "DATA"
                                          /\ q[i].packet.chunk = d + i /\ Tells(q[i].packet)

Leaves(e) ==
    \A n \in DOMAIN sent[e] :
        \/ n <= Len(received[Peer(e)])
        \/ \E i \in DOMAIN end[e].sendQueue : end[e].sendQueue[i].packet.chunk = n

AckSound(e) == end[e].state \notin {"Unconnected", "Listening"} => AckIs(e, end[e].ackNr)

EndSound(e) == Counts(e) /\ EarlySound(e) /\ QueueSound(e) /\ Leaves(e) /\ AckSound(e)

Handshakes ==
    /\ end["c"].state \in {"Unconnected", "Connecting", "Connected", "Closed"}
    /\ end["s"].state \in {"Listening", "Connected", "Closed"}
    /\ end["c"].state = "Unconnected" =>
          /\ net = {} /\ end["c"] = New("Unconnected", 1, 0) /\ end["s"] = New("Listening", 1, 0)
          /\ \A e \in Ends : sent[e] = <<>> /\ received[e] = <<>>
    /\ end["c"].state = "Connecting" => sent["c"] = <<>>
    /\ sent["s"] # <<>> => received["s"] # <<>>
    /\ end["s"].state = "Listening" => end["s"] = New("Listening", 1, 0)

\* The SYN is under way, or its answer, but not both, and only until the client
\* is connected.
OneSyn ==
    /\ \A p \in net : p.type = "SYN" => sent["c"] = <<>> /\ end["c"].state \in {"Connecting", "Closed"}
    /\ end["c"].state = "Connecting" =>
          /\ \A p, q \in net : p.type = "SYN" /\ q.type = "SYN" => p = q
          /\ \A p, q \in net : p.type = "STATE" /\ p.to = "c" => p.seq = 1 /\ q.type # "SYN"

IndInv ==
    /\ TypeOK /\ Handshakes /\ OneSyn
    /\ \A e \in Ends : Within(e) /\ EndSound(e)
    /\ \A p \in net : Tells(p)
--------------------------------------------------------------------------------
(* What was true of a packet stays true. *)

\* The two ends are each other's peer.
LEMMA EndsAre ==
    /\ Ends = {"c", "s"} /\ \A e \in Ends : Peer(e) \in Ends /\ Peer(e) # e /\ Peer(Peer(e)) = e
    /\ \A e, d \in Ends : d # e => d = Peer(e)
BY DEF Ends, Peer

\* Lengths of what was sent and received are natural numbers.
LEMMA Lengths ==
    ASSUME TypeOK
    PROVE  \A e \in Ends : L(e) \in Nat /\ G(e) \in Nat /\ Base(e) \in Numbers
<1>1. \A e \in Ends : L(e) \in Nat /\ G(e) \in Nat
  BY DEF TypeOK, L, G
<1>2. "c" \in Ends /\ 0 \in Numbers
  BY Modulus DEF Ends, Numbers
<1>3. end["c"].syn \in Numbers
  BY <1>2 DEF TypeOK, Streams
<1> QED
  BY <1>1, <1>2, <1>3 DEF Base

\* Nothing is taken back: more is sent, by ends that are not closed; more arrives.
Advance ==
    \A e \in Ends :
        /\ Base(e)' = Base(e) /\ L(e) <= L(e)' /\ G(e) <= G(e)'
        /\ Gone(e) => Gone(e)' /\ L(e)' = L(e)

\* What is said of a DATA packet stays true when both directions only grow.
LEMMA SoundStays ==
    ASSUME TypeOK, TypeOK', Advance, NEW e \in Ends, NEW seq, NEW chunk, Sound(e, seq, chunk)
    PROVE  Sound(e, seq, chunk)'
<1>1. L(e) \in Nat /\ L(e)' \in Nat
  BY Lengths DEF TypeOK, L
<1>2. Base(e)' = Base(e) /\ L(e) <= L(e)' /\ (Gone(e) => Gone(e)' /\ L(e)' = L(e))
  BY DEF Advance
<1> QED
  BY <1>1, <1>2 DEF Sound, Num

\* So does what is said of an acknowledgement ...
LEMMA AcksStay ==
    ASSUME TypeOK, TypeOK', Advance, NEW e \in Ends, Within(e)', NEW ack, Acks(e, ack)
    PROVE  Acks(e, ack)'
<1> DEFINE d == Peer(e)
<1>0. d \in Ends
  BY EndsAre
<1>1. L(d) \in Nat /\ L(d)' \in Nat /\ G(e) \in Nat /\ G(e)' \in Nat
  BY <1>0 DEF TypeOK, L, G
<1>2. /\ Base(d)' = Base(d) /\ L(d) <= L(d)' /\ G(e) <= G(e)' /\ G(e)' <= L(d)'
      /\ Gone(d) => Gone(d)' /\ L(d)' = L(d)
  BY <1>0 DEF Advance, Within
<1>3. PICK k \in 0..(L(d) + 1) : ack = Num(d, k) /\ (k > G(e) => L(d) = G(e) /\ Gone(d))
  BY DEF Acks
<1> HIDE DEF d
<1>4. k \in 0..(L(d)' + 1) /\ ack = Num(d, k)' /\ (k > G(e)' => L(d)' = G(e)' /\ Gone(d)')
  BY <1>1, <1>2, <1>3 DEF Num
<1> QED
  BY <1>4 DEF Acks, d

\* ... and of every datagram.
LEMMA TellsStays ==
    ASSUME TypeOK, TypeOK', Advance, \A e \in Ends : Within(e)', NEW p, p.to \in Ends, Tells(p)
    PROVE  Tells(p)'
<1>1. Peer(p.to) \in Ends
  BY EndsAre
<1>2. p.type \in {"DATA", "FIN"} => Sound(Peer(p.to), p.seq, p.chunk)'
  BY <1>1, SoundStays DEF Tells
<1>3. p.type # "SYN" => Acks(Peer(p.to), p.ack)'
  BY <1>1, AcksStay DEF Tells
<1>4. end'["c"].syn = end["c"].syn
  BY DEF Advance, Base, Ends
<1> QED
  BY <1>2, <1>3, <1>4 DEF Tells

\* An end that takes no step is as it was, whatever the other one does.
LEMMA EndStays ==
    ASSUME TypeOK, TypeOK', Advance, \A e \in Ends : Within(e)', NEW d \in Ends,
           end'[d] = end[d], sent'[d] = sent[d], received'[d] = received[d], EndSound(d)
    PROVE  EndSound(d)'
<1> DEFINE e == Peer(d)
           q == end[d].sendQueue
<1>0. e \in Ends /\ Peer(e) = d
  BY EndsAre
<1>1. L(d)' = L(d) /\ G(d)' = G(d) /\ Gone(d)' = Gone(d)
  BY DEF L, G, Gone
<1>2. /\ Base(e)' = Base(e) /\ Base(d)' = Base(d) /\ G(e) <= G(e)' /\ L(e) <= L(e)'
      /\ Gone(e) => Gone(e)' /\ L(e)' = L(e)
  BY <1>0 DEF Advance
<1>3. /\ L(d) \in Nat /\ G(d) \in Nat /\ G(e) \in Nat /\ G(e)' \in Nat /\ L(e) \in Nat /\ L(e)' \in Nat
      /\ q \in Seq(Entries)
  BY <1>0 DEF TypeOK, L, G, Streams
<1>4. Counts(d)'
  BY <1>1 DEF EndSound, Counts
<1>5. EarlySound(d)'
  <2> SUFFICES ASSUME NEW x \in end[d].outOfOrder PROVE Sound(Peer(d), x.seq, x.chunk)'
    BY DEF EarlySound
  <2>1. Sound(e, x.seq, x.chunk)
    BY DEF EndSound, EarlySound
  <2> QED
    BY <1>0, <2>1, SoundStays
<1>6. QueueSound(d)'
  <2> SUFFICES ASSUME ~Gone(d) PROVE QueueSound(d)'
    BY <1>1 DEF QueueSound
  <2>1. /\ end[d].seqNr = Num(d, L(d) + 1) /\ L(d) - Len(q) \in 0..G(e)
        /\ \A i \in DOMAIN q : /\ q[i].packet.to = Peer(d) /\ q[i].packet.type = "DATA"
                               /\ q[i].packet.chunk = (L(d) - Len(q)) + i /\ Tells(q[i].packet)
    BY DEF EndSound, QueueSound
  <2>2. end'[d].seqNr = Num(d, L(d) + 1)'
    BY <1>1, <1>2, <2>1 DEF Num
  <2>3. L(d)' - Len(q) \in 0..G(e)'
    BY <1>1, <1>2, <1>3, <2>1
  <2>4. \A i \in DOMAIN q : Tells(q[i].packet)'
    BY <1>0, <2>1, TellsStays
  <2> QED
    BY <1>1, <2>1, <2>2, <2>3, <2>4 DEF QueueSound
<1>7. Leaves(d)'
  <2> SUFFICES ASSUME NEW n \in DOMAIN sent[d]
               PROVE  \/ n <= G(e)'
                      \/ \E i \in DOMAIN q : q[i].packet.chunk = n
    BY DEF Leaves, G
  <2>1. n <= G(e) \/ \E i \in DOMAIN q : q[i].packet.chunk = n
    BY DEF EndSound, Leaves, G
  <2>2. n \in Nat
    BY DEF TypeOK
  <2> QED
    BY <1>2, <1>3, <2>1, <2>2
<1>8. AckSound(d)'
  BY <1>1, <1>2, <1>3 DEF EndSound, AckSound, AckIs, Num
<1> QED
  BY <1>4, <1>5, <1>6, <1>7, <1>8 DEF EndSound

\* An end whose ackNr is that of the last packet received tells the truth when it
\* sends it.
LEMMA AckIsAcks ==
    ASSUME TypeOK, NEW e \in Ends, Within(e), NEW ack, AckIs(e, ack)
    PROVE  Acks(e, ack)
<1>1. Peer(e) \in Ends
  BY EndsAre
<1>2. L(Peer(e)) \in Nat /\ G(e) \in Nat
  BY <1>1, Lengths
<1>3. G(e) <= L(Peer(e))
  BY DEF Within
<1> QED
  BY <1>2, <1>3 DEF Acks, AckIs

\* The network alone changes.
LEMMA NetStep ==
    ASSUME IndInv, UNCHANGED <<end, sent, received>>, heard' \in [Ends -> Nat], net' \subseteq Packets
    PROVE  /\ TypeOK' /\ Advance /\ \A e \in Ends : Within(e)' /\ EndSound(e)'
           /\ \A p \in net : Tells(p)'
<1>1. TypeOK'
  BY DEF IndInv, TypeOK
<1>2. Advance
  <2> SUFFICES ASSUME NEW e \in Ends
               PROVE  /\ Base(e)' = Base(e) /\ L(e) <= L(e)' /\ G(e) <= G(e)'
                      /\ Gone(e) => Gone(e)' /\ L(e)' = L(e)
    BY DEF Advance
  <2>1. L(e) \in Nat /\ G(e) \in Nat
    BY Lengths DEF IndInv
  <2>2. L(e)' = L(e) /\ G(e)' = G(e) /\ Base(e)' = Base(e) /\ Gone(e)' = Gone(e)
    BY DEF L, G, Base, Gone
  <2> QED
    BY <2>1, <2>2
<1>3. \A e \in Ends : Within(e)'
  BY DEF IndInv, Within, L, G
<1>4. \A e \in Ends : EndSound(e)'
  BY <1>1, <1>2, <1>3, EndStays DEF IndInv
<1>5. \A p \in net : p.to \in Ends
  BY DEF IndInv, TypeOK, Packets
<1>6. \A p \in net : Tells(p)'
  BY <1>1, <1>2, <1>3, <1>5, TellsStays DEF IndInv
<1> QED
  BY <1>1, <1>2, <1>3, <1>4, <1>6

\* What sendPacket() makes is a datagram.
LEMMA DatagramType ==
    ASSUME TypeOK, NEW e \in Ends, NEW type \in {"SYN", "STATE", "DATA", "FIN"}, NEW seq \in Numbers, NEW chunk \in Nat
    PROVE  Datagram(e, type, seq, chunk) \in Packets
BY EndsAre DEF Datagram, Packets, TypeOK, Streams

\* An orderly connect() repeats its SYN only when neither the SYN nor its answer is
\* under way.
LEMMA SynAgainKeeps == Orderly /\ IndInv /\ SynAgain => IndInv'
<1> SUFFICES ASSUME Orderly, IndInv, SynAgain PROVE IndInv'
  OBVIOUS
<1>p. PICK p : p = Datagram("c", "SYN", end["c"].syn, 0)
  OBVIOUS
<1>0. "c" \in Ends /\ end["c"].syn \in Numbers /\ TypeOK
  BY DEF IndInv, TypeOK, Streams, Ends
<1>1. p \in Packets /\ p.type = "SYN" /\ p.to = "s" /\ p.seq = end["c"].syn
  <2>1. p \in Packets
    BY <1>p, <1>0, DatagramType, Modulus
  <2> QED
    BY <1>p, <2>1 DEF Datagram, Peer
<1>2. net' = net \cup {p} /\ UNCHANGED <<end, sent, received, heard>> /\ end["c"].state = "Connecting"
  BY <1>p DEF SynAgain
<1>3. \A r \in net : r.type # "SYN" /\ ~(r.type = "STATE" /\ r.to = "c")
  BY DEF SynAgain, Orderly, ShakesHands
<1>4. /\ TypeOK' /\ Advance /\ \A e \in Ends : Within(e)' /\ EndSound(e)'
      /\ \A r \in net : Tells(r)'
  <2>1. net' \subseteq Packets /\ heard' \in [Ends -> Nat]
    BY <1>0, <1>1, <1>2 DEF TypeOK
  <2> QED
    BY <1>2, <2>1, NetStep
<1>5. Tells(p)'
  BY <1>1, <1>2 DEF Tells
<1>6. Handshakes'
  BY <1>2 DEF IndInv, Handshakes, New
<1>7. OneSyn'
  BY <1>1, <1>2, <1>3 DEF IndInv, OneSyn, Handshakes
<1> QED
  BY <1>2, <1>4, <1>5, <1>6, <1>7 DEF IndInv

\* Loss of a datagram of the handshake keeps the invariant.
LEMMA LoseKeeps ==
    ASSUME IndInv, NEW p \in net, Lose(p)
    PROVE  IndInv'
<1>1. net' = net \ {p} /\ UNCHANGED <<end, sent, received, heard>> /\ end["c"].state = "Connecting"
  BY DEF Lose
<1>2. /\ TypeOK' /\ Advance /\ \A e \in Ends : Within(e)' /\ EndSound(e)'
      /\ \A r \in net : Tells(r)'
  <2>1. net' \subseteq Packets /\ heard' \in [Ends -> Nat]
    BY <1>1 DEF IndInv, TypeOK
  <2> QED
    BY <1>1, <2>1, NetStep
<1>3. Handshakes'
  BY <1>1 DEF IndInv, Handshakes, New
<1>4. OneSyn'
  BY <1>1 DEF IndInv, OneSyn
<1> QED
  BY <1>1, <1>2, <1>3, <1>4 DEF IndInv

\* The frame of a step of e: its record becomes r, it has sent n packets and
\* received m.
Frame(e, r, n, m) ==
    /\ r \in Streams /\ IsFiniteSet(r.outOfOrder) /\ (e = "c" => r.syn = end[e].syn)
    /\ end' = [end EXCEPT ![e] = r]
    /\ n \in L(e)..MaxData /\ m \in G(e)..L(Peer(e))
    /\ sent' = [sent EXCEPT ![e] = Counting(0, n)]
    /\ received' = [received EXCEPT ![e] = Counting(0, m)]
    /\ Gone(e) => r.state = "Closed" /\ n = L(e)
    /\ heard' \in [Ends -> Nat] /\ net' \subseteq Packets

\* A step of one end with the given record and lengths: what it keeps of the other
\* end, of the network and of the counters.
LEMMA FrameKeeps ==
    ASSUME IndInv, NEW e \in Ends, NEW r, NEW n, NEW m, Frame(e, r, n, m)
    PROVE  /\ TypeOK' /\ Advance /\ \A d \in Ends : Within(d)'
           /\ EndSound(Peer(e))' /\ Counts(e)' /\ (\A p \in net : Tells(p)')
           /\ end'[e] = r /\ end'[Peer(e)] = end[Peer(e)]
           /\ L(e)' = n /\ G(e)' = m /\ L(Peer(e))' = L(Peer(e)) /\ G(Peer(e))' = G(Peer(e))
           /\ Base(e)' = Base(e) /\ Base(Peer(e))' = Base(Peer(e))
           /\ (Gone(e)' <=> r.state = "Closed") /\ (Gone(Peer(e))' <=> Gone(Peer(e)))
<1> DEFINE d == Peer(e)
<1>0. d \in Ends /\ d # e /\ Peer(d) = e /\ \A x \in Ends : x = e \/ x = d
  BY EndsAre
<1>1. L(e) \in Nat /\ G(e) \in Nat /\ L(d) \in Nat /\ G(d) \in Nat /\ n \in Nat /\ m \in Nat
  BY <1>0, Lengths, Modulus DEF IndInv, Frame
<1>2. Counting(0, n) \in Seq(Nat) /\ Len(Counting(0, n)) = n /\ Counting(0, m) \in Seq(Nat) /\ Len(Counting(0, m)) = m
  BY <1>1, CountingAppend
<1>3. end'[e] = r /\ sent'[e] = Counting(0, n) /\ received'[e] = Counting(0, m)
  BY DEF Frame, IndInv, TypeOK
<1>4. end'[d] = end[d] /\ sent'[d] = sent[d] /\ received'[d] = received[d]
  BY <1>0 DEF Frame, IndInv, TypeOK
<1>5. L(e)' = n /\ G(e)' = m /\ L(d)' = L(d) /\ G(d)' = G(d)
  BY <1>2, <1>3, <1>4 DEF L, G
<1>6. TypeOK'
  <2>1. end' \in [Ends -> Streams] /\ sent' \in [Ends -> Seq(Nat)] /\ received' \in [Ends -> Seq(Nat)]
    BY <1>2 DEF Frame, IndInv, TypeOK
  <2>2. \A x \in Ends : IsFiniteSet(end'[x].outOfOrder)
    BY <1>0, <1>3, <1>4 DEF Frame, IndInv, TypeOK
  <2> QED
    BY <2>1, <2>2 DEF Frame, TypeOK
<1>7. Base(e)' = Base(e) /\ Base(d)' = Base(d)
  BY <1>0, <1>3, <1>4 DEF Base, Frame, Ends, Peer
<1>8. (Gone(e)' <=> r.state = "Closed") /\ (Gone(d)' <=> Gone(d))
  BY <1>3, <1>4 DEF Gone
<1>9. Advance
  BY <1>0, <1>1, <1>5, <1>7, <1>8 DEF Advance, Frame
<1>10. \A x \in Ends : Within(x)'
  <2>1. Within(e) /\ Within(d)
    BY <1>0 DEF IndInv
  <2>2. Within(e)'
    BY <1>1, <1>5, <2>1 DEF Within, Frame
  <2>3. Within(d)'
    BY <1>0, <1>1, <1>5, <2>1 DEF Within, Frame
  <2> QED
    BY <1>0, <2>2, <2>3
<1>11. EndSound(d)'
  BY <1>0, <1>4, <1>6, <1>9, <1>10, EndStays DEF IndInv
<1>12. Counts(e)'
  BY <1>3, <1>5 DEF Counts
<1>13. \A p \in net : Tells(p)'
  <2>1. \A p \in net : p.to \in Ends
    BY DEF IndInv, TypeOK, Packets
  <2> QED
    BY <1>6, <1>9, <1>10, <2>1, TellsStays DEF IndInv
<1> QED
  BY <1>3, <1>4, <1>5, <1>6, <1>7, <1>8, <1>9, <1>10, <1>11, <1>12, <1>13

\* Sent and received are what they were.
LEMMA SameCounts ==
    ASSUME IndInv, NEW e \in Ends
    PROVE  /\ sent = [sent EXCEPT ![e] = Counting(0, L(e))] /\ received = [received EXCEPT ![e] = Counting(0, G(e))]
           /\ L(e) \in L(e)..MaxData /\ G(e) \in G(e)..L(Peer(e))
<1>1. sent[e] = Counting(0, L(e)) /\ received[e] = Counting(0, G(e)) /\ Within(e)
  BY DEF IndInv, EndSound, Counts
<1>2. L(e) \in Nat /\ G(e) \in Nat /\ L(Peer(e)) \in Nat
  BY EndsAre, Lengths DEF IndInv
<1>3. sent \in [Ends -> Seq(Nat)] /\ received \in [Ends -> Seq(Nat)]
  BY DEF IndInv, TypeOK
<1> QED
  BY <1>1, <1>2, <1>3, Modulus DEF Within

\* A step of e whose packets tell the truth, and after which e does, keeps the
\* invariant.
LEMMA StepKeeps ==
    ASSUME IndInv, NEW e \in Ends, NEW r, NEW n, NEW m, Frame(e, r, n, m),
           EarlySound(e)', QueueSound(e)', Leaves(e)', AckSound(e)', Handshakes', OneSyn',
           NEW out, net' \subseteq net \cup out, \A p \in out : Tells(p)'
    PROVE  IndInv'
<1>1. /\ TypeOK' /\ \A d \in Ends : Within(d)'
      /\ EndSound(Peer(e))' /\ Counts(e)' /\ \A p \in net : Tells(p)'
  BY FrameKeeps
<1>2. EndSound(e)'
  BY <1>1 DEF EndSound
<1>3. \A d \in Ends : EndSound(d)'
  BY <1>1, <1>2, EndsAre
<1>4. \A p \in net' : Tells(p)'
  BY <1>1
<1> QED
  BY <1>1, <1>3, <1>4 DEF IndInv

\* Empty streams are those of length 0.
LEMMA Empty ==
    ASSUME TypeOK, NEW e \in Ends
    PROVE  (sent[e] = <<>> <=> L(e) = 0) /\ (received[e] = <<>> <=> G(e) = 0)
BY DEF TypeOK, L, G

\* What the invariant says of an end that is connecting or connected.
LEMMA LiveEnd ==
    ASSUME IndInv, NEW e \in Ends, Live(e)
    PROVE  /\ end["c"].state # "Unconnected" /\ end[e].state \notin {"Listening", "Unconnected"} /\ ~Gone(e)
           /\ AckIs(e, end[e].ackNr) /\ Acks(e, end[e].ackNr)
           /\ end[e].seqNr = Num(e, L(e) + 1) /\ (e = "s" => end[e].state = "Connected")
<1>1. end[e].state \in {"Connecting", "Connected"}
  BY DEF Live
<1>2. e = "c" \/ e = "s"
  BY DEF Ends
<1>3. end["c"].state # "Unconnected"
  BY <1>1, <1>2 DEF IndInv, Handshakes, New
<1>4. AckIs(e, end[e].ackNr) /\ QueueSound(e) /\ Within(e) /\ TypeOK
  BY <1>1 DEF IndInv, EndSound, AckSound
<1>5. ~Gone(e)
  BY <1>1 DEF Gone
<1>6. e = "s" => end[e].state = "Connected"
  BY <1>1 DEF IndInv, Handshakes
<1> QED
  BY <1>1, <1>3, <1>4, <1>5, <1>6, AckIsAcks DEF QueueSound

\* Such a step that receives nothing leaves ackNr true.
LEMMA FrameAck ==
    ASSUME IndInv, NEW e \in Ends, NEW r, NEW n, NEW m, Frame(e, r, n, m), m = G(e), NEW ack, AckIs(e, ack)
    PROVE  AckIs(e, ack)'
<1>1. /\ G(e)' = G(e) /\ L(Peer(e))' = L(Peer(e)) /\ Base(Peer(e))' = Base(Peer(e))
      /\ (Gone(Peer(e))' <=> Gone(Peer(e)))
  BY FrameKeeps
<1> QED
  BY <1>1 DEF AckIs, Num

\* What was in sendQueue is still there.
LEMMA FrameLeaves ==
    ASSUME IndInv, NEW e \in Ends, NEW r, NEW n, NEW m, Frame(e, r, n, m), n = L(e),
           \A i \in DOMAIN end[e].sendQueue : \E j \in DOMAIN r.sendQueue :
               r.sendQueue[j].packet.chunk = end[e].sendQueue[i].packet.chunk
    PROVE  Leaves(e)'
<1>1. /\ end'[e] = r /\ L(e)' = L(e) /\ G(Peer(e))' = G(Peer(e)) /\ TypeOK'
  BY FrameKeeps
<1>2. DOMAIN sent'[e] = DOMAIN sent[e]
  <2>1. DOMAIN sent[e] = 1..L(e) /\ DOMAIN sent'[e] = 1..L(e)'
    BY <1>1 DEF IndInv, TypeOK, L
  <2> QED
    BY <1>1, <2>1
<1>3. Leaves(e)
  BY DEF IndInv, EndSound
<1>4. ASSUME NEW k \in DOMAIN sent[e]
      PROVE  k <= G(Peer(e)) \/ \E j \in DOMAIN r.sendQueue : r.sendQueue[j].packet.chunk = k
  BY <1>3 DEF Leaves, G
<1> QED
  BY <1>1, <1>2, <1>4 DEF Leaves, G

\* The packets of an open stream that are not in sendQueue were received.
LEMMA FrameQueue ==
    ASSUME IndInv, NEW e \in Ends, NEW r, NEW n, NEW m, Frame(e, r, n, m), ~Gone(e), r.state # "Closed",
           r.seqNr = Num(e, n + 1), n - Len(r.sendQueue) \in 0..G(Peer(e)),
           \A i \in DOMAIN r.sendQueue :
               LET p == r.sendQueue[i].packet
               IN p.to = Peer(e) /\ p.type = "DATA" /\ p.chunk = (n - Len(r.sendQueue)) + i /\ Tells(p)'
    PROVE  QueueSound(e)' /\ Leaves(e)'
<1> DEFINE q == r.sendQueue
           d == n - Len(q)
<1>1. /\ end'[e] = r /\ L(e)' = n /\ G(Peer(e))' = G(Peer(e)) /\ Base(e)' = Base(e) /\ TypeOK'
      /\ (Gone(e)' <=> r.state = "Closed")
  BY FrameKeeps
<1>2. n \in Nat /\ q \in Seq(Entries) /\ Len(q) \in Nat /\ G(Peer(e)) \in Nat
  <2>1. L(e) \in Nat /\ MaxData \in Nat /\ G(Peer(e)) \in Nat
    BY EndsAre, Lengths, Modulus DEF IndInv
  <2> QED
    BY <2>1 DEF Frame, Streams
<1>3. QueueSound(e)'
  BY <1>1 DEF QueueSound, Num
<1>4. ASSUME NEW k \in 1..n
      PROVE  k <= G(Peer(e)) \/ \E i \in DOMAIN q : q[i].packet.chunk = k
  <2>1. CASE k <= d
    BY <1>2, <2>1
  <2>2. CASE ~(k <= d)
    <3>1. k - d \in 1..Len(q) /\ d + (k - d) = k
      <4>1. PICK l \in Nat : l = Len(q)
        BY <1>2
      <4>2. ~(k <= n - l) => k - (n - l) \in 1..l /\ (n - l) + (k - (n - l)) = k
        BY <1>2
      <4> QED
        BY <2>2, <4>1, <4>2
    <3>2. k - d \in DOMAIN q
      BY <1>2, <3>1
    <3>3. q[k - d].packet.chunk = d + (k - d)
      BY <3>2
    <3> QED
      BY <3>1, <3>2, <3>3
  <2> QED
    BY <2>1, <2>2
<1>5. DOMAIN sent'[e] = 1..n
  BY <1>1 DEF TypeOK, L
<1> QED
  BY <1>1, <1>3, <1>4, <1>5 DEF Leaves, G

\* A true ackNr is a true acknowledgement after such a step.
LEMMA FrameAcks ==
    ASSUME IndInv, NEW e \in Ends, NEW r, NEW n, NEW m, Frame(e, r, n, m), NEW ack, AckIs(e, ack)'
    PROVE  Acks(e, ack)'
<1>1. Peer(e) \in Ends /\ TypeOK' /\ Within(e)'
  BY EndsAre, FrameKeeps
<1>2. L(Peer(e))' \in Nat /\ G(e)' \in Nat
  BY <1>1 DEF TypeOK, L, G
<1>3. G(e)' <= L(Peer(e))'
  BY <1>1 DEF Within
<1> QED
  BY <1>2, <1>3 DEF Acks, AckIs

\* What arrived early is still sound after such a step.
LEMMA FrameEarly ==
    ASSUME IndInv, NEW e \in Ends, NEW r, NEW n, NEW m, Frame(e, r, n, m),
           \A x \in r.outOfOrder : x \in end[e].outOfOrder \/ Sound(Peer(e), x.seq, x.chunk)
    PROVE  EarlySound(e)'
<1>1. TypeOK' /\ TypeOK /\ Advance /\ end'[e] = r /\ Peer(e) \in Ends
  BY FrameKeeps, EndsAre DEF IndInv
<1>2. \A x \in r.outOfOrder : Sound(Peer(e), x.seq, x.chunk)
  BY DEF IndInv, EndSound, EarlySound
<1>3. \A x \in r.outOfOrder : Sound(Peer(e), x.seq, x.chunk)'
  BY <1>1, <1>2, SoundStays
<1> QED
  BY <1>1, <1>3 DEF EarlySound

\* What the datagrams tell is still true after such a step.
LEMMA FrameTells ==
    ASSUME IndInv, NEW e \in Ends, NEW r, NEW n, NEW m, Frame(e, r, n, m), NEW p, p.to \in Ends, Tells(p)
    PROVE  Tells(p)'
BY FrameKeeps, TellsStays DEF IndInv

\* The packets of the handshake are still what they were after such a step.
LEMMA FrameHandshakes ==
    ASSUME IndInv, NEW e \in Ends, NEW r, NEW n, NEW m, Frame(e, r, n, m), Live(e),
           r.state \in {"Connecting", "Connected", "Closed"},
           r.state = "Connecting" => end[e].state = "Connecting" /\ n = L(e),
           e = "s" /\ n # 0 => received["s"] # <<>>
    PROVE  Handshakes'
<1>1. /\ end'[e] = r /\ end'[Peer(e)] = end[Peer(e)] /\ L(e)' = n /\ G(e)' = m /\ TypeOK' /\ TypeOK
      /\ L(Peer(e))' = L(Peer(e)) /\ G(Peer(e))' = G(Peer(e))
  BY FrameKeeps DEF IndInv
<1>2. /\ end["c"].state # "Unconnected" /\ end[e].state \notin {"Listening", "Unconnected"}
      /\ (e = "s" => end[e].state = "Connected")
  BY LiveEnd
<1>3. /\ sent["c"] = <<>> <=> L("c") = 0
      /\ sent'["c"] = <<>> <=> L("c")' = 0
      /\ sent["s"] = <<>> <=> L("s") = 0
      /\ sent'["s"] = <<>> <=> L("s")' = 0
      /\ received["s"] = <<>> <=> G("s") = 0
      /\ received'["s"] = <<>> <=> G("s")' = 0
  BY <1>1, Empty DEF Ends, TypeOK, L, G
<1>4. Handshakes /\ m >= G(e) /\ G(e) \in Nat /\ m \in Nat
  BY <1>1, Lengths DEF IndInv, Frame
<1>5. CASE e = "c"
  <2>1. Peer(e) = "s"
    BY <1>5 DEF Peer
  <2> QED
    BY <1>1, <1>2, <1>3, <1>4, <1>5, <2>1 DEF Handshakes, New
<1>6. CASE e = "s"
  <2>1. Peer(e) = "c"
    BY <1>6 DEF Peer
  <2> QED
    BY <1>1, <1>2, <1>3, <1>4, <1>6, <2>1 DEF Handshakes, New
<1> QED
  BY <1>5, <1>6 DEF Ends

\* Such a step sends no second SYN.
LEMMA FrameOneSyn ==
    ASSUME IndInv, NEW e \in Ends, NEW r, NEW n, NEW m, Frame(e, r, n, m),
           NEW out, net' \subseteq net \cup out,
           \A p \in out : p.type # "SYN" /\ (p.type = "STATE" /\ p.to = "c" => end["c"].state # "Connecting"),
           e = "c" => r.state \in {end["c"].state, "Closed"} /\ (n = L("c") \/ end["c"].state = "Connected")
    PROVE  OneSyn'
<1>1. /\ end'[e] = r /\ end'[Peer(e)] = end[Peer(e)] /\ L(e)' = n /\ TypeOK' /\ TypeOK
      /\ L(Peer(e))' = L(Peer(e))
  BY FrameKeeps DEF IndInv
<1>2. /\ sent["c"] = <<>> <=> L("c") = 0
      /\ sent'["c"] = <<>> <=> L("c")' = 0
  BY <1>1, Empty DEF Ends, TypeOK, L, G
<1>3. /\ end'["c"].state \in {end["c"].state, "Closed"}
      /\ sent["c"] = <<>> => sent'["c"] = <<>> \/ end["c"].state = "Connected"
  <2>1. CASE e = "c"
    BY <1>1, <1>2, <2>1
  <2>2. CASE e = "s"
    <3>1. Peer(e) = "c"
      BY <2>2 DEF Peer
    <3> QED
      BY <1>1, <1>2, <2>2, <3>1
  <2> QED
    BY <2>1, <2>2 DEF Ends
<1> QED
  BY <1>3 DEF IndInv, OneSyn

\* abort() keeps the invariant.
LEMMA AbortKeeps ==
    ASSUME IndInv, NEW e \in Ends, AbortStream(e)
    PROVE  IndInv'
<1>r. PICK r : r = [end[e] EXCEPT !.state = "Closed"]
  OBVIOUS
<1>n. PICK n, m : n = L(e) /\ m = G(e)
  OBVIOUS
<1>1. Live(e) /\ end' = [end EXCEPT ![e] = r] /\ UNCHANGED <<sent, received, heard, net>>
  BY <1>r DEF AbortStream, IndInv, TypeOK
<1>2. /\ r \in Streams /\ r.state = "Closed" /\ r.outOfOrder = end[e].outOfOrder /\ r.syn = end[e].syn
      /\ r.sendQueue = end[e].sendQueue /\ r.ackNr = end[e].ackNr /\ IsFiniteSet(r.outOfOrder)
  BY <1>r DEF IndInv, TypeOK, Streams
<1>3. Frame(e, r, n, m)
  BY <1>n, <1>1, <1>2, SameCounts DEF Frame, IndInv, TypeOK
<1>4. end'[e] = r /\ (Gone(e)' <=> r.state = "Closed")
  BY <1>3, FrameKeeps
<1>5. EarlySound(e)'
  BY <1>2, <1>3, FrameEarly
<1>6. QueueSound(e)'
  BY <1>2, <1>4 DEF QueueSound
<1>7. Leaves(e)'
  BY <1>n, <1>2, <1>3, FrameLeaves
<1>8. AckSound(e)'
  <2>a. PICK ack : ack = end[e].ackNr
    OBVIOUS
  <2>1. AckIs(e, ack)
    BY <1>1, <2>a, LiveEnd
  <2>2. AckIs(e, ack)'
    BY <1>n, <1>3, <2>1, FrameAck
  <2> QED
    BY <1>2, <1>4, <2>a, <2>2 DEF AckSound
<1>9. Handshakes'
  <2>1. e = "s" /\ n # 0 => received["s"] # <<>>
    BY <1>n, Empty DEF IndInv, Handshakes
  <2> QED
    BY <1>1, <1>2, <1>3, <2>1, FrameHandshakes
<1>o. PICK out : out = {}
  OBVIOUS
<1>10. net' \subseteq net \cup out /\ (\A p \in out : Tells(p)')
  BY <1>o, <1>1
<1>11. OneSyn'
  BY <1>o, <1>n, <1>2, <1>3, <1>10, FrameOneSyn
<1> QED
  BY <1>3, <1>5, <1>6, <1>7, <1>8, <1>9, <1>10, <1>11, StepKeeps

\* sendPacket() counts on.
LEMMA NextNumber ==
    ASSUME IndInv, NEW e \in Ends, Live(e)
    PROVE  Seq16(end[e].seqNr + 1) = Num(e, (L(e) + 1) + 1) /\ Seq16(end[e].seqNr + 1) \in Numbers
<1>1. /\ L(e) \in Nat /\ Base(e) \in Numbers /\ L(e) <= MaxData
      /\ L(e) + 1 \in 0..SeqMod /\ (L(e) + 1) + 1 \in 0..SeqMod /\ 1 \in 0..SeqMod
  BY Lengths, Modulus DEF IndInv, Within
<1>2. end[e].seqNr = Nth(Base(e), L(e) + 1)
  BY LiveEnd DEF Num
<1>3. Seq16(Nth(Base(e), L(e) + 1) + 1) = Nth(Base(e), (L(e) + 1) + 1)
  BY <1>1, NthNext
<1>4. Nth(Base(e), (L(e) + 1) + 1) \in Numbers
  BY <1>1, NthLaw
<1> QED
  BY <1>2, <1>3, <1>4 DEF Num

\* close() with its FIN keeps the invariant.
LEMMA CloseKeeps ==
    ASSUME IndInv, NEW e \in Ends, Close(e)
    PROVE  IndInv'
<1>p. PICK p : p = Datagram(e, "FIN", end[e].seqNr, 0)
  OBVIOUS
<1>r. PICK r : r = [Queued(e, p) EXCEPT !.state = "Closed"]
  OBVIOUS
<1>n. PICK n, m : n = L(e) /\ m = G(e)
  OBVIOUS
<1>o. PICK out : out = {p}
  OBVIOUS
<1>1. /\ Live(e) /\ end' = [end EXCEPT ![e] = r] /\ UNCHANGED <<sent, received, heard>>
      /\ net' = net \cup {p}
  BY <1>p, <1>r DEF Close
<1>2. end[e] \in Streams /\ TypeOK /\ e \in Ends
  BY DEF IndInv, TypeOK
<1>3. p \in Packets /\ p.to = Peer(e) /\ p.type = "FIN" /\ p.seq = end[e].seqNr /\ p.chunk = 0 /\ p.ack = end[e].ackNr
  <2>1. end[e].seqNr \in Numbers
    BY <1>2 DEF Streams
  <2> QED
    BY <1>p, <1>2, <2>1, DatagramType DEF Datagram
<1>4. /\ r = [end[e] EXCEPT !.seqNr = Seq16(@ + 1), !.state = "Closed",
                            !.sendQueue = Append(@, [packet |-> p, transmitCount |-> 1])]
      /\ Seq16(end[e].seqNr + 1) \in Numbers
  BY <1>r, <1>1, <1>2, NextNumber DEF Queued, Streams
<1>5. /\ r \in Streams /\ r.state = "Closed" /\ r.outOfOrder = end[e].outOfOrder /\ r.syn = end[e].syn
      /\ r.sendQueue = Append(end[e].sendQueue, [packet |-> p, transmitCount |-> 1])
      /\ r.ackNr = end[e].ackNr /\ IsFiniteSet(r.outOfOrder)
  <2>1. [packet |-> p, transmitCount |-> 1] \in Entries
    BY <1>3 DEF Entries
  <2>2. IsFiniteSet(end[e].outOfOrder)
    BY <1>2 DEF TypeOK
  <2>3. Append(end[e].sendQueue, [packet |-> p, transmitCount |-> 1]) \in Seq(Entries)
    <3>1. end[e].sendQueue \in Seq(Entries)
      BY <1>2 DEF Streams
    <3> QED
      BY <2>1, <3>1
  <2>4. /\ r.state = "Closed" /\ r.outOfOrder = end[e].outOfOrder /\ r.syn = end[e].syn
        /\ r.sendQueue = Append(end[e].sendQueue, [packet |-> p, transmitCount |-> 1])
        /\ r.ackNr = end[e].ackNr
    BY <1>2, <1>4 DEF Streams
  <2>5. r \in Streams
    BY <1>2, <1>4, <2>3 DEF Streams
  <2> QED
    BY <2>2, <2>4, <2>5
<1>6. Frame(e, r, n, m)
  <2>1. net' \subseteq Packets
    BY <1>1, <1>2, <1>3 DEF TypeOK
  <2> QED
    BY <1>n, <1>1, <1>2, <1>5, <2>1, SameCounts DEF Frame, TypeOK
<1>7. end'[e] = r /\ (Gone(e)' <=> r.state = "Closed") /\ L(e)' = L(e) /\ Base(e)' = Base(e) /\ TypeOK' /\ Advance /\ Within(e)'
  BY <1>n, <1>6, FrameKeeps
<1>8. EarlySound(e)'
  BY <1>5, <1>6, FrameEarly
<1>9. QueueSound(e)'
  BY <1>5, <1>7 DEF QueueSound
<1>10. Leaves(e)'
  <2>1. end[e].sendQueue \in Seq(Entries)
    BY <1>2 DEF Streams
  <2>2. \A i \in DOMAIN end[e].sendQueue : i \in DOMAIN r.sendQueue /\ r.sendQueue[i] = end[e].sendQueue[i]
    BY <1>5, <2>1
  <2> QED
    BY <1>n, <1>6, <2>2, FrameLeaves
<1>a. PICK ack : ack = end[e].ackNr
  OBVIOUS
<1>11. AckSound(e)'
  <2>1. AckIs(e, ack)
    BY <1>1, <1>a, LiveEnd
  <2>2. AckIs(e, ack)'
    BY <1>n, <1>6, <2>1, FrameAck
  <2> QED
    BY <1>5, <1>7, <1>a, <2>2 DEF AckSound
<1>12. Tells(p)'
  <2>1. Peer(p.to) = e
    BY <1>3, EndsAre
  <2>2. Acks(e, p.ack)
    BY <1>1, <1>3, LiveEnd
  <2>3. Acks(e, p.ack)'
    BY <1>2, <1>7, <2>2, AcksStay
  <2>4. Sound(e, p.seq, p.chunk)'
    BY <1>1, <1>3, <1>5, <1>7, LiveEnd DEF Sound, Num
  <2> QED
    BY <1>3, <2>1, <2>3, <2>4 DEF Tells
<1>13. Handshakes'
  <2>1. e = "s" /\ n # 0 => received["s"] # <<>>
    BY <1>n, Empty DEF IndInv, Handshakes
  <2> QED
    BY <1>1, <1>5, <1>6, <2>1, FrameHandshakes
<1>14. net' \subseteq net \cup out /\ (\A x \in out : Tells(x)')
  BY <1>o, <1>1, <1>12
<1>15. OneSyn'
  <2>1. e = "c" => r.state \in {end["c"].state, "Closed"} /\ n = L("c")
    BY <1>n, <1>5
  <2>2. \A x \in out : x.type # "SYN" /\ x.type # "STATE"
    BY <1>o, <1>3
  <2> QED
    BY <1>6, <1>14, <2>1, <2>2, FrameOneSyn
<1> QED
  BY <1>6, <1>8, <1>9, <1>10, <1>11, <1>13, <1>14, <1>15, StepKeeps

\* send() keeps the invariant: the new packet bears the next number.
LEMMA SendKeeps ==
    ASSUME Orderly, IndInv, NEW e \in Ends, Send(e)
    PROVE  IndInv'
<1>p. PICK p : p = Datagram(e, "DATA", end[e].seqNr, Len(sent[e]) + 1)
  OBVIOUS
<1>r. PICK r : r = Queued(e, p)
  OBVIOUS
<1>n. PICK n, m : n = L(e) + 1 /\ m = G(e)
  OBVIOUS
<1>o. PICK out : out = {p}
  OBVIOUS
<1>q. PICK q : q = end[e].sendQueue
  OBVIOUS
<1>1. /\ end[e].state = "Connected" /\ L(e) < MaxData /\ end' = [end EXCEPT ![e] = r]
      /\ sent' = [sent EXCEPT ![e] = Append(@, L(e) + 1)] /\ UNCHANGED <<received, heard>>
      /\ net' = net \cup {p} /\ Live(e) /\ (e = "s" => received["s"] # <<>>)
  BY <1>p, <1>r DEF Send, Live, Orderly, L
<1>2. /\ end[e] \in Streams /\ TypeOK /\ q \in Seq(Entries) /\ Len(q) \in Nat
      /\ L(e) \in Nat /\ MaxData \in Nat /\ G(Peer(e)) \in Nat /\ Peer(e) \in Ends
  BY <1>q, Lengths, EndsAre, Modulus DEF IndInv, TypeOK, Streams
<1>3. /\ p \in Packets /\ p.to = Peer(e) /\ p.type = "DATA" /\ p.seq = end[e].seqNr /\ p.chunk = n
      /\ p.ack = end[e].ackNr
  <2>1. end[e].seqNr \in Numbers /\ Len(sent[e]) + 1 \in Nat /\ n = Len(sent[e]) + 1
    BY <1>n, <1>2 DEF Streams, L
  <2> QED
    BY <1>p, <1>2, <2>1, DatagramType DEF Datagram
<1>4. /\ r = [end[e] EXCEPT !.seqNr = Seq16(@ + 1), !.sendQueue = Append(@, [packet |-> p, transmitCount |-> 1])]
      /\ Seq16(end[e].seqNr + 1) = Num(e, n + 1) /\ Seq16(end[e].seqNr + 1) \in Numbers
  BY <1>r, <1>n, <1>1, <1>2, NextNumber DEF Queued
<1>x. PICK x : x = [packet |-> p, transmitCount |-> 1]
  OBVIOUS
<1>5. /\ r \in Streams /\ r.state = "Connected" /\ r.outOfOrder = end[e].outOfOrder /\ r.syn = end[e].syn
      /\ r.sendQueue = Append(q, x) /\ r.seqNr = Num(e, n + 1)
      /\ r.ackNr = end[e].ackNr /\ IsFiniteSet(r.outOfOrder)
  <2>1. x \in Entries
    BY <1>x, <1>3 DEF Entries
  <2>2. IsFiniteSet(end[e].outOfOrder)
    BY <1>2 DEF TypeOK
  <2>3. Append(q, x) \in Seq(Entries)
    BY <1>2, <2>1
  <2>4. /\ r.state = "Connected" /\ r.outOfOrder = end[e].outOfOrder /\ r.syn = end[e].syn
        /\ r.sendQueue = Append(q, x) /\ r.seqNr = Num(e, n + 1) /\ r.ackNr = end[e].ackNr
    BY <1>q, <1>x, <1>1, <1>2, <1>4 DEF Streams
  <2>5. r \in Streams
    BY <1>q, <1>x, <1>2, <1>4, <2>3 DEF Streams
  <2> QED
    BY <2>2, <2>4, <2>5
<1>6. Frame(e, r, n, m)
  <2>1. net' \subseteq Packets
    BY <1>1, <1>2, <1>3 DEF TypeOK
  <2>2. sent' = [sent EXCEPT ![e] = Counting(0, n)]
    <3>1. sent[e] = Counting(0, L(e))
      BY DEF IndInv, EndSound, Counts
    <3>2. Append(Counting(0, L(e)), 0 + (L(e) + 1)) = Counting(0, L(e) + 1)
      BY <1>2, CountingAppend
    <3>3. 0 + (L(e) + 1) = L(e) + 1
      BY <1>2
    <3> QED
      BY <1>n, <1>1, <3>1, <3>2, <3>3
  <2>3. n \in L(e)..MaxData /\ ~Gone(e)
    BY <1>n, <1>1, <1>2 DEF Gone
  <2> QED
    BY <1>n, <1>1, <1>2, <1>5, <2>1, <2>2, <2>3, SameCounts DEF Frame, TypeOK
<1>7. /\ end'[e] = r /\ L(e)' = n /\ Base(e)' = Base(e) /\ TypeOK' /\ Advance /\ Within(e)'
      /\ (Gone(e)' <=> r.state = "Closed")
  BY <1>6, FrameKeeps
<1>8. EarlySound(e)'
  BY <1>5, <1>6, FrameEarly
<1>9. Tells(p)'
  <2>1. Peer(p.to) = e
    BY <1>3, EndsAre
  <2>2. Acks(e, p.ack)
    BY <1>1, <1>3, LiveEnd
  <2>3. Acks(e, p.ack)'
    BY <1>2, <1>7, <2>2, AcksStay
  <2>4. p.chunk \in 1..L(e)' /\ p.seq = Num(e, p.chunk)'
    BY <1>n, <1>1, <1>2, <1>3, <1>7, LiveEnd DEF Num
  <2>5. Sound(e, p.seq, p.chunk)'
    BY <2>4 DEF Sound
  <2> QED
    BY <1>3, <2>1, <2>3, <2>5 DEF Tells
<1>10. QueueSound(e)' /\ Leaves(e)'
  <2>1. /\ L(e) - Len(q) \in 0..G(Peer(e))
        /\ \A i \in DOMAIN q : /\ q[i].packet.to = Peer(e) /\ q[i].packet.type = "DATA"
                               /\ q[i].packet.chunk = (L(e) - Len(q)) + i /\ Tells(q[i].packet)
    <3>1. QueueSound(e) /\ ~Gone(e)
      BY <1>1 DEF IndInv, EndSound, Gone
    <3> QED
      BY <1>q, <3>1 DEF QueueSound
  <2>2. Len(r.sendQueue) = Len(q) + 1 /\ n - Len(r.sendQueue) = L(e) - Len(q)
    BY <1>n, <1>2, <1>5
  <2>3. ASSUME NEW i \in DOMAIN r.sendQueue
        PROVE  LET y == r.sendQueue[i].packet
               IN y.to = Peer(e) /\ y.type = "DATA" /\ y.chunk = (n - Len(r.sendQueue)) + i /\ Tells(y)'
    <3>1. i \in 1..(Len(q) + 1) /\ DOMAIN q = 1..Len(q)
      BY <1>2, <1>5
    <3>2. CASE i = Len(q) + 1
      <4>1. r.sendQueue[i] = x
        BY <1>2, <1>5, <3>2
      <4>2. r.sendQueue[i].packet = p
        BY <1>x, <4>1
      <4>3. (L(e) - Len(q)) + i = n
        BY <1>n, <1>2, <3>2
      <4> QED
        BY <1>3, <1>9, <2>2, <4>2, <4>3
    <3>3. CASE i # Len(q) + 1
      <4>1. i \in DOMAIN q
        BY <1>2, <3>1, <3>3
      <4>2. r.sendQueue[i] = q[i]
        BY <1>2, <1>5, <4>1
      <4>y. PICK y : y = q[i].packet
        OBVIOUS
      <4>3. y.to = Peer(e) /\ y.type = "DATA" /\ y.chunk = (L(e) - Len(q)) + i /\ Tells(y)
        BY <2>1, <4>1, <4>y
      <4>4. Tells(y)'
        BY <1>2, <1>6, <4>3, FrameTells
      <4> QED
        BY <2>2, <4>2, <4>y, <4>3, <4>4
    <3> QED
      BY <3>2, <3>3
  <2>4. ~Gone(e) /\ r.state # "Closed" /\ r.seqNr = Num(e, n + 1) /\ n - Len(r.sendQueue) \in 0..G(Peer(e))
    BY <1>1, <1>5, <2>1, <2>2 DEF Gone
  <2> QED
    BY <1>6, <2>3, <2>4, FrameQueue
<1>a. PICK ack : ack = end[e].ackNr
  OBVIOUS
<1>11. AckSound(e)'
  <2>1. AckIs(e, ack)
    BY <1>1, <1>a, LiveEnd
  <2>2. AckIs(e, ack)'
    BY <1>n, <1>6, <2>1, FrameAck
  <2> QED
    BY <1>5, <1>7, <1>a, <2>2 DEF AckSound
<1>13. Handshakes'
  BY <1>1, <1>5, <1>6, FrameHandshakes
<1>14. net' \subseteq net \cup out /\ (\A y \in out : Tells(y)')
  BY <1>o, <1>1, <1>9
<1>15. OneSyn'
  <2>1. e = "c" => r.state \in {end["c"].state, "Closed"} /\ end["c"].state = "Connected"
    BY <1>1, <1>5
  <2>2. \A y \in out : y.type # "SYN" /\ y.type # "STATE"
    BY <1>o, <1>3
  <2> QED
    BY <1>6, <1>14, <2>1, <2>2, FrameOneSyn
<1> QED
  BY <1>6, <1>8, <1>10, <1>11, <1>13, <1>14, <1>15, StepKeeps

\* The packets in the sendQueue of an open stream.
LEMMA Waiting ==
    ASSUME IndInv, NEW e \in Ends, Live(e)
    PROVE  LET q == end[e].sendQueue IN
           /\ q \in Seq(Entries) /\ Len(q) \in Nat /\ DOMAIN q = 1..Len(q)
           /\ L(e) - Len(q) \in 0..G(Peer(e))
           /\ \A i \in DOMAIN q : /\ q[i].packet.to = Peer(e) /\ q[i].packet.type = "DATA" /\ q[i].packet \in Packets
                                  /\ q[i].packet.chunk = (L(e) - Len(q)) + i /\ Tells(q[i].packet)
<1> DEFINE q == end[e].sendQueue
<1>1. q \in Seq(Entries)
  BY DEF IndInv, TypeOK, Streams
<1>2. QueueSound(e) /\ ~Gone(e)
  BY DEF IndInv, EndSound, Gone, Live
<1>3. \A i \in DOMAIN q : q[i].packet \in Packets
  <2>1. \A i \in DOMAIN q : q[i] \in Entries
    BY <1>1
  <2> QED
    BY <2>1 DEF Entries
<1> QED
  BY <1>1, <1>2, <1>3 DEF QueueSound

\* flushOutgoing() sends again what is in sendQueue, or closes at the limit.
LEMMA RetransmitKeeps ==
    ASSUME IndInv, NEW e \in Ends, NEW i \in DOMAIN end[e].sendQueue, Retransmit(e, i)
    PROVE  IndInv'
<1>q. PICK q : q = end[e].sendQueue
  OBVIOUS
<1>x. PICK x : x = Counted(q[i])
  OBVIOUS
<1>0. Live(e)
  BY DEF Retransmit
<1>1. CASE x.transmitCount > MaxTransmit
  <2>1. AbortStream(e)
    BY <1>q, <1>x, <1>1 DEF Retransmit, AbortStream
  <2> QED
    BY <2>1, AbortKeeps
<1>2. CASE ~(x.transmitCount > MaxTransmit)
  <2>p. PICK p : p = x.packet
    OBVIOUS
  <2>r. PICK r : r = [end[e] EXCEPT !.sendQueue = [q EXCEPT ![i] = x]]
    OBVIOUS
  <2>n. PICK n, m : n = L(e) /\ m = G(e)
    OBVIOUS
  <2>o. PICK out : out = {p}
    OBVIOUS
  <2>1. /\ q \in Seq(Entries) /\ Len(q) \in Nat /\ DOMAIN q = 1..Len(q)
        /\ L(e) - Len(q) \in 0..G(Peer(e)) /\ i \in DOMAIN q
        /\ \A j \in DOMAIN q : /\ q[j].packet.to = Peer(e) /\ q[j].packet.type = "DATA" /\ q[j].packet \in Packets
                               /\ q[j].packet.chunk = (L(e) - Len(q)) + j /\ Tells(q[j].packet)
    BY <1>q, <1>0, Waiting
  <2>2. TypeOK /\ end[e] \in Streams /\ Peer(e) \in Ends
    BY EndsAre DEF IndInv, TypeOK
  <2>3. x = [q[i] EXCEPT !.transmitCount = @ + 1] /\ q[i] \in Entries
    BY <1>x, <2>1 DEF Counted
  <2>4. x \in Entries /\ x.packet = q[i].packet /\ p = q[i].packet
    BY <2>3, <2>p DEF Entries
  <2>5. end' = [end EXCEPT ![e] = r] /\ net' = net \cup {p} /\ UNCHANGED <<sent, received, heard>>
    <3>1. end' = [end EXCEPT ![e].sendQueue[i] = x] /\ net' = net \cup {p} /\ UNCHANGED <<sent, received, heard>>
      BY <1>q, <1>x, <1>2, <2>p DEF Retransmit
    <3> QED
      BY <1>q, <2>r, <2>2, <3>1 DEF TypeOK
  <2>6. [q EXCEPT ![i] = x] \in Seq(Entries) /\ Len([q EXCEPT ![i] = x]) = Len(q)
    BY <2>1, <2>4
  <2>7. /\ r \in Streams /\ r.state = end[e].state /\ r.outOfOrder = end[e].outOfOrder /\ r.syn = end[e].syn
        /\ r.sendQueue = [q EXCEPT ![i] = x] /\ r.seqNr = end[e].seqNr /\ r.ackNr = end[e].ackNr
    BY <2>r, <2>2, <2>6 DEF Streams
  <2>8. Frame(e, r, n, m)
    <3>1. net' \subseteq Packets
      BY <2>1, <2>2, <2>4, <2>5 DEF TypeOK
    <3>2. IsFiniteSet(r.outOfOrder) /\ ~Gone(e)
      BY <1>0, <2>2, <2>7 DEF TypeOK, Gone, Live
    <3> QED
      BY <2>n, <2>2, <2>5, <2>7, <3>1, <3>2, SameCounts DEF Frame, TypeOK
  <2>9. end'[e] = r
    BY <2>8, FrameKeeps
  <2>10. EarlySound(e)'
    BY <2>7, <2>8, FrameEarly
  <2>11. \A j \in DOMAIN q : Tells(q[j].packet)'
    BY <2>1, <2>2, <2>8, FrameTells
  <2>12. QueueSound(e)' /\ Leaves(e)'
    <3>1. ASSUME NEW j \in DOMAIN r.sendQueue
          PROVE  LET y == r.sendQueue[j].packet
                 IN y.to = Peer(e) /\ y.type = "DATA" /\ y.chunk = (n - Len(r.sendQueue)) + j /\ Tells(y)'
      <4>1. j \in DOMAIN q /\ r.sendQueue[j].packet = q[j].packet
        BY <2>1, <2>4, <2>7
      <4> QED
        BY <2>n, <2>1, <2>6, <2>7, <2>11, <4>1
    <3>2. ~Gone(e) /\ r.state # "Closed" /\ r.seqNr = Num(e, n + 1) /\ n - Len(r.sendQueue) \in 0..G(Peer(e))
      BY <1>0, <2>n, <2>1, <2>6, <2>7, LiveEnd DEF Live
    <3> QED
      BY <2>8, <3>1, <3>2, FrameQueue
  <2>a. PICK ack : ack = end[e].ackNr
    OBVIOUS
  <2>13. AckSound(e)'
    <3>1. AckIs(e, ack)
      BY <1>0, <2>a, LiveEnd
    <3>2. AckIs(e, ack)'
      BY <2>n, <2>8, <3>1, FrameAck
    <3> QED
      BY <2>7, <2>9, <2>a, <3>2 DEF AckSound
  <2>14. Handshakes'
    <3>1. e = "s" /\ n # 0 => received["s"] # <<>>
      BY <2>n, Empty DEF IndInv, Handshakes
    <3>2. r.state \in {"Connecting", "Connected", "Closed"} /\ (r.state = "Connecting" => end[e].state = "Connecting" /\ n = L(e))
      BY <1>0, <2>n, <2>7 DEF Live
    <3> QED
      BY <1>0, <2>8, <3>1, <3>2, FrameHandshakes
  <2>15. net' \subseteq net \cup out /\ (\A y \in out : Tells(y)')
    BY <2>o, <2>1, <2>4, <2>5, <2>11
  <2>16. OneSyn'
    <3>1. e = "c" => r.state \in {end["c"].state, "Closed"} /\ n = L("c")
      BY <2>n, <2>7
    <3>2. \A y \in out : y.type # "SYN" /\ y.type # "STATE"
      BY <2>o, <2>1, <2>4
    <3> QED
      BY <2>8, <2>15, <3>1, <3>2, FrameOneSyn
  <2> QED
    BY <2>8, <2>10, <2>12, <2>13, <2>14, <2>15, <2>16, StepKeeps
<1> QED
  BY <1>1, <1>2

Arrives(p, e) == p \in net /\ p.to = e

\* Of the last packets of l, of which g were received, those up to k <= g leave.
LEMMA DropsWithin ==
    ASSUME NEW S, NEW q \in Seq(S), NEW b \in Numbers, NEW l \in Nat, NEW g \in Nat, NEW k \in 0..g,
           l <= MaxData, g <= l, l - Len(q) \in 0..g,
           \A i \in DOMAIN q : q[i].packet.seq = Nth(b, (l - Len(q)) + i)
    PROVE  \E j \in 0..Len(q) : /\ AckPackets(q, Nth(b, k)) = SubSeq(q, j + 1, Len(q))
                                /\ l - (Len(q) - j) \in 0..g
<1> DEFINE d == l - Len(q)
<1>1. Len(q) \in Nat /\ d \in 0..g /\ d \in Nat /\ d + Len(q) = l /\ MaxData \in Nat
  BY Modulus
<1>2. \A i \in DOMAIN q : q[i].packet.seq = Nth(b, d + i)
  OBVIOUS
<1> HIDE DEF d
<1>3. d + Len(q) <= MaxData /\ k \in Nat /\ k <= MaxData /\ k <= g
  BY <1>1
<1>4. PICK j \in 0..Len(q) : AckPackets(q, Nth(b, k)) = SubSeq(q, j + 1, Len(q)) /\ (j # 0 => d + j <= k)
  BY <1>1, <1>2, <1>3, AckPacketsLaw
<1>5. d + j \in 0..g
  BY <1>1, <1>3, <1>4
<1>6. l - (Len(q) - j) = d + j
  BY <1>1 DEF d
<1> QED
  BY <1>4, <1>5, <1>6

\* An acknowledgement takes only packets out of sendQueue that the peer received.
LEMMA AckedDrops ==
    ASSUME IndInv, NEW e \in Ends, Live(e), NEW p, Arrives(p, e), p.type # "SYN"
    PROVE  \E j \in 0..Len(end[e].sendQueue) :
              /\ Acked(e, p) = SubSeq(end[e].sendQueue, j + 1, Len(end[e].sendQueue))
              /\ L(e) - (Len(end[e].sendQueue) - j) \in 0..G(Peer(e))
<1> DEFINE q == end[e].sendQueue
           d == L(e) - Len(q)
<1>1. q \in Seq(Entries) /\ Len(q) \in Nat /\ DOMAIN q = 1..Len(q) /\ d \in 0..G(Peer(e))
  BY Waiting
<1>2. \A i \in DOMAIN q : /\ q[i].packet.to = Peer(e) /\ q[i].packet.type = "DATA"
                          /\ q[i].packet.chunk = d + i /\ Tells(q[i].packet)
  BY Waiting
<1>3. /\ Peer(e) \in Ends /\ Peer(Peer(e)) = e /\ L(e) \in Nat /\ L(e) <= MaxData /\ G(Peer(e)) \in Nat /\ G(Peer(e)) <= L(e)
      /\ Base(e) \in Numbers
  BY EndsAre, Lengths DEF IndInv, Within
<1>4. CASE ~(SeqDiff(p.ack, end[e].ackNr) >= 0)
  <2>1. Acked(e, p) = q
    BY <1>4 DEF Acked
  <2> HIDE DEF q
  <2>2. q = SubSeq(q, 0 + 1, Len(q)) /\ 0 \in 0..Len(q) /\ Len(q) - 0 = Len(q)
    BY <1>1
  <2>3. \E j \in 0..Len(q) : Acked(e, p) = SubSeq(q, j + 1, Len(q)) /\ L(e) - (Len(q) - j) \in 0..G(Peer(e))
    BY <1>1, <2>1, <2>2
  <2> QED
    BY <2>3 DEF q
<1>5. CASE SeqDiff(p.ack, end[e].ackNr) >= 0
  <2>1. Acked(e, p) = AckPackets(q, p.ack)
    BY <1>5 DEF Acked
  <2>2. PICK k \in 0..(L(e) + 1) : p.ack = Nth(Base(e), k) /\ (k > G(Peer(e)) => Gone(e))
    <3>1. Acks(Peer(e), p.ack)
      BY DEF IndInv, Tells, Arrives
    <3> QED
      BY <1>3, <3>1 DEF Acks, Num
  <2>3. k \in 0..G(Peer(e))
    <3>1. ~(k > G(Peer(e)))
      BY <2>2, LiveEnd
    <3> QED
      BY <1>3, <2>2, <3>1
  <2>4. \A i \in DOMAIN q : q[i].packet.seq = Nth(Base(e), d + i)
    <3> SUFFICES ASSUME NEW i \in DOMAIN q PROVE q[i].packet.seq = Nth(Base(e), d + i)
      OBVIOUS
    <3>1. q[i].packet.chunk = d + i /\ Sound(e, q[i].packet.seq, q[i].packet.chunk)
      BY <1>2, <1>3 DEF Tells
    <3>2. d + i > 0
      <4> HIDE DEF d
      <4> QED
        BY <1>1, <1>3
    <3> HIDE DEF q, d
    <3> QED
      BY <3>1, <3>2 DEF Sound, Num
  <2> HIDE DEF q
  <2>5. \E j \in 0..Len(q) : /\ AckPackets(q, Nth(Base(e), k)) = SubSeq(q, j + 1, Len(q))
                             /\ L(e) - (Len(q) - j) \in 0..G(Peer(e))
    BY <1>1, <1>3, <2>3, <2>4, DropsWithin
  <2> QED
    BY <2>1, <2>2, <2>5 DEF q
<1> QED
  BY <1>4, <1>5

\* What an acknowledgement leaves of sendQueue.
LEMMA AckedType ==
    ASSUME IndInv, NEW e \in Ends, Live(e), NEW p, Arrives(p, e), p.type # "SYN"
    PROVE  Acked(e, p) \in Seq(Entries)
<1> DEFINE q == end[e].sendQueue
<1>1. q \in Seq(Entries) /\ Len(q) \in Nat
  BY Waiting
<1>2. PICK j \in 0..Len(q) : Acked(e, p) = SubSeq(q, j + 1, Len(q))
  BY AckedDrops
<1> HIDE DEF q
<1> QED
  BY <1>1, <1>2

IsTail(u, q, j) ==
    /\ Len(u) = Len(q) - j /\ DOMAIN u = 1..(Len(q) - j)
    /\ \A i \in 1..(Len(q) - j) : i + j \in DOMAIN q /\ u[i] = q[i + j]

\* SubSeq to the end is a tail.
LEMMA TailOf ==
    ASSUME NEW S, NEW q \in Seq(S), NEW j \in 0..Len(q)
    PROVE  IsTail(SubSeq(q, j + 1, Len(q)), q, j)
<1> DEFINE u == SubSeq(q, j + 1, Len(q))
<1>1. Len(q) \in Nat /\ DOMAIN q = 1..Len(q) /\ j + 1 \in Int /\ Len(q) \in Int /\ j \in Nat /\ j <= Len(q)
  OBVIOUS
<1>2. \A i \in (j + 1)..Len(q) : q[i] \in S
  BY <1>1
<1>3. /\ u \in Seq(S) /\ Len(u) = IF j + 1 <= Len(q) THEN Len(q) - (j + 1) + 1 ELSE 0
      /\ \A i \in 1..(Len(q) - (j + 1) + 1) : u[i] = q[(j + 1) + i - 1]
  BY <1>1, <1>2, SubSeqProperties
<1> HIDE DEF u
<1>4. Len(q) - (j + 1) + 1 = Len(q) - j /\ \A i \in 1..(Len(q) - j) : i + j \in DOMAIN q /\ (j + 1) + i - 1 = i + j
  BY <1>1
<1>5. Len(u) = Len(q) - j
  <2>1. \A l, k \in Nat : k <= l => (IF k + 1 <= l THEN l - (k + 1) + 1 ELSE 0) = l - k
    OBVIOUS
  <2>2. Len(u) = IF j + 1 <= Len(q) THEN Len(q) - (j + 1) + 1 ELSE 0
    BY <1>3
  <2> QED
    BY <1>1, <2>1, <2>2, Zenon
<1>6. DOMAIN u = 1..Len(u)
  BY <1>3
<1>7. \A i \in 1..(Len(q) - j) : u[i] = q[i + j]
  <2>1. \A i \in 1..(Len(q) - j) : u[i] = q[(j + 1) + i - 1]
    BY <1>3, <1>4, Zenon
  <2> QED
    BY <1>4, <2>1, Zenon
<1>8. IsTail(u, q, j)
  BY <1>4, <1>5, <1>6, <1>7, Zenon DEF IsTail
<1> QED
  BY <1>8 DEF u

\* Taking acknowledged packets from sendQueue keeps the invariant.
LEMMA FrameAcked ==
    ASSUME IndInv, NEW e \in Ends, Live(e), NEW p, Arrives(p, e), p.type # "SYN",
           NEW r, NEW n, NEW m, Frame(e, r, n, m), n = L(e),
           r.seqNr = end[e].seqNr, r.state # "Closed", r.sendQueue = Acked(e, p)
    PROVE  QueueSound(e)' /\ Leaves(e)'
<1>q. PICK q : q = end[e].sendQueue
  OBVIOUS
<1> DEFINE u == r.sendQueue
<1>0. /\ q \in Seq(Entries) /\ Len(q) \in Nat /\ DOMAIN q = 1..Len(q) /\ L(e) - Len(q) \in 0..G(Peer(e))
      /\ L(e) \in Nat /\ Peer(e) \in Ends /\ G(Peer(e)) \in Nat
  BY <1>q, Waiting, Lengths, EndsAre DEF IndInv
<1>1. \A i \in DOMAIN q : /\ q[i].packet.to = Peer(e) /\ q[i].packet.type = "DATA"
                          /\ q[i].packet.chunk = (L(e) - Len(q)) + i /\ Tells(q[i].packet)
  BY <1>q, Waiting
<1>2. PICK j \in 0..Len(q) : u = SubSeq(q, j + 1, Len(q)) /\ L(e) - (Len(q) - j) \in 0..G(Peer(e))
  BY <1>q, AckedDrops
<1>3. \A i \in DOMAIN q : Tells(q[i].packet)'
  BY <1>0, <1>1, FrameTells
<1> HIDE DEF u
<1>4. Len(u) = Len(q) - j /\ DOMAIN u = 1..(Len(q) - j) /\ \A i \in 1..(Len(q) - j) : i + j \in DOMAIN q /\ u[i] = q[i + j]
  <2>1. IsTail(u, q, j)
    BY <1>0, <1>2, TailOf, Zenon
  <2> QED
    BY <2>1 DEF IsTail
<1>5. ASSUME NEW i \in DOMAIN u
      PROVE  LET y == u[i].packet
             IN y.to = Peer(e) /\ y.type = "DATA" /\ y.chunk = (n - Len(u)) + i /\ Tells(y)'
  <2>1. i + j \in DOMAIN q /\ u[i] = q[i + j]
    BY <1>4
  <2>2. (L(e) - Len(q)) + (i + j) = (n - Len(u)) + i
    BY <1>0, <1>4
  <2>y. PICK y : y = q[i + j].packet
    OBVIOUS
  <2>3. y.to = Peer(e) /\ y.type = "DATA" /\ y.chunk = (n - Len(u)) + i /\ Tells(y)'
    BY <1>1, <1>3, <2>1, <2>2, <2>y
  <2> QED
    BY <2>1, <2>y, <2>3
<1>6. ~Gone(e) /\ r.state # "Closed" /\ r.seqNr = Num(e, n + 1) /\ n - Len(u) \in 0..G(Peer(e))
  <2>1. ~Gone(e) /\ r.seqNr = Num(e, n + 1)
    BY LiveEnd
  <2>2. n - Len(u) \in 0..G(Peer(e))
    BY <1>2, <1>4
  <2> QED
    BY <2>1, <2>2
<1> QED
  BY <1>5, <1>6, FrameQueue DEF u

\* A datagram of the network can be handled by the end it is for.
LEMMA ArrivesIs ==
    ASSUME IndInv, NEW p \in net
    PROVE  p \in Packets /\ p.to \in Ends /\ Tells(p) /\ Arrives(p, p.to) /\ p.upto \in Nat
BY DEF IndInv, TypeOK, Packets, Arrives

\* A pure acknowledgement keeps the invariant.
LEMMA OnStateKeeps ==
    ASSUME IndInv, NEW e \in Ends, NEW p, Arrives(p, e), OnState(e, p)
    PROVE  IndInv'
<1>r. PICK r : r = [end[e] EXCEPT !.sendQueue = Acked(e, p)]
  OBVIOUS
<1>n. PICK n, m : n = L(e) /\ m = G(e)
  OBVIOUS
<1>o. PICK out : out = {}
  OBVIOUS
<1>1. /\ p.type = "STATE" /\ end[e].state = "Connected" /\ end' = [end EXCEPT ![e] = r] /\ UNCHANGED <<sent, received>>
      /\ net' \subseteq net /\ Live(e) /\ p.type # "SYN"
  BY <1>r DEF OnState, Handled, Live, IndInv, TypeOK
<1>2. TypeOK /\ end[e] \in Streams /\ IsFiniteSet(end[e].outOfOrder) /\ p \in net /\ p.upto \in Nat /\ p \in Packets
  BY ArrivesIs DEF IndInv, TypeOK, Arrives
<1>3. heard' \in [Ends -> Nat]
  BY <1>2 DEF OnState, Hears, TypeOK
<1>4. Acked(e, p) \in Seq(Entries)
  BY <1>1, AckedType
<1>5. /\ r \in Streams /\ r.state = "Connected" /\ r.outOfOrder = end[e].outOfOrder /\ r.syn = end[e].syn
      /\ r.sendQueue = Acked(e, p) /\ r.seqNr = end[e].seqNr /\ r.ackNr = end[e].ackNr
  BY <1>r, <1>1, <1>2, <1>4 DEF Streams
<1>6. Frame(e, r, n, m)
  BY <1>n, <1>1, <1>2, <1>3, <1>5, SameCounts DEF Frame, TypeOK, Gone
<1>7. end'[e] = r
  BY <1>6, FrameKeeps
<1>8. EarlySound(e)'
  BY <1>5, <1>6, FrameEarly
<1>9. QueueSound(e)' /\ Leaves(e)'
  BY <1>n, <1>1, <1>5, <1>6, FrameAcked
<1>a. PICK ack : ack = end[e].ackNr
  OBVIOUS
<1>10. AckSound(e)'
  <2>1. AckIs(e, ack)
    BY <1>1, <1>a, LiveEnd
  <2>2. AckIs(e, ack)'
    BY <1>n, <1>6, <2>1, FrameAck
  <2> QED
    BY <1>5, <1>7, <1>a, <2>2 DEF AckSound
<1>11. Handshakes'
  <2>1. e = "s" /\ n # 0 => received["s"] # <<>>
    BY <1>n, Empty DEF IndInv, Handshakes
  <2> QED
    BY <1>1, <1>5, <1>6, <2>1, FrameHandshakes
<1>12. net' \subseteq net \cup out /\ (\A y \in out : Tells(y)')
  BY <1>o, <1>1
<1>13. OneSyn'
  <2>1. e = "c" => r.state \in {end["c"].state, "Closed"} /\ n = L("c")
    BY <1>n, <1>1, <1>5
  <2> QED
    BY <1>o, <1>6, <1>12, <2>1, FrameOneSyn
<1> QED
  BY <1>6, <1>8, <1>9, <1>10, <1>11, <1>12, <1>13, StepKeeps

\* ack() makes a datagram.
LEMMA AckOfType ==
    ASSUME TypeOK, NEW e \in Ends, NEW ack \in Numbers, NEW data \in Seq(Nat)
    PROVE  LET a == AckOf(e, ack, data)
           IN a \in Packets /\ a.to = Peer(e) /\ a.type = "STATE" /\ a.seq = end[e].seqNr /\ a.ack = ack
<1>1. end[e].seqNr \in Numbers /\ Len(data) \in Nat
  BY DEF TypeOK, Streams
<1>2. Datagram(e, "STATE", end[e].seqNr, 0) \in Packets
  BY <1>1, DatagramType
<1>3. /\ Datagram(e, "STATE", end[e].seqNr, 0).to = Peer(e) /\ Datagram(e, "STATE", end[e].seqNr, 0).type = "STATE"
      /\ Datagram(e, "STATE", end[e].seqNr, 0).seq = end[e].seqNr
  BY DEF Datagram
<1> DEFINE d == Datagram(e, "STATE", end[e].seqNr, 0)
<1>4. AckOf(e, ack, data) = [d EXCEPT !.ack = ack, !.upto = Len(data)]
  BY DEF AckOf
<1> HIDE DEF d
<1> QED
  BY <1>1, <1>2, <1>3, <1>4 DEF Packets, d

\* The slave that a SYN makes is an end.
LEMMA NewType ==
    ASSUME NEW state \in {"Unconnected", "Listening", "Connecting", "Connected", "Closed"},
           NEW seq \in Numbers, NEW ack \in Numbers
    PROVE  /\ New(state, seq, ack) \in Streams /\ IsFiniteSet(New(state, seq, ack).outOfOrder)
           /\ New(state, seq, ack).outOfOrder = {} /\ New(state, seq, ack).sendQueue = <<>>
           /\ New(state, seq, ack).state = state /\ New(state, seq, ack).seqNr = seq /\ New(state, seq, ack).ackNr = ack
<1>1. 0 \in Numbers /\ <<>> \in Seq(Entries)
  BY Modulus DEF Numbers
<1>2. New(state, seq, ack) \in Streams
  BY <1>1 DEF New, Streams
<1> QED
  BY <1>2, FS_EmptySet DEF New

\* While the SYN is under way nothing was sent in either direction.
LEMMA SynMeans ==
    ASSUME IndInv, NEW p \in net, p.type = "SYN"
    PROVE  /\ p.seq = Num("c", 0) /\ p.to = "s" /\ p.seq \in Numbers
           /\ L("c") = 0 /\ G("c") = 0 /\ L("s") = 0 /\ G("s") = 0
           /\ end["c"].state \in {"Connecting", "Closed"}
           /\ (end["s"].state \in {"Listening", "Connected"} => end["s"].seqNr = 1 /\ end["s"].sendQueue = <<>>)
<1>1. p.to = "s" /\ p.seq = end["c"].syn /\ sent["c"] = <<>> /\ end["c"].state \in {"Connecting", "Closed"}
  BY DEF IndInv, Tells, OneSyn
<1>2. "c" \in Ends /\ "s" \in Ends /\ Peer("c") = "s" /\ Peer("s") = "c" /\ TypeOK /\ Within("c") /\ Within("s")
  BY DEF Ends, Peer, IndInv
<1>3. L("c") = 0 /\ L("c") \in Nat /\ G("c") \in Nat /\ L("s") \in Nat /\ G("s") \in Nat
  BY <1>1, <1>2, Empty, Lengths
<1>4. G("s") = 0
  BY <1>2, <1>3 DEF Within
<1>5. L("s") = 0
  BY <1>2, <1>4, Empty DEF IndInv, Handshakes
<1>6. G("c") = 0
  BY <1>2, <1>3, <1>5 DEF Within
<1>7. p.seq = Base("c") /\ Base("c") \in Numbers /\ Base("s") = 0 /\ 0 \in Numbers
  BY <1>1, <1>2, Lengths, Modulus DEF Base, Numbers
<1>8. p.seq = Num("c", 0)
  <2>1. 0 \in 0..SeqMod
    BY Modulus
  <2>2. Nth(Base("c"), 0) = IF Base("c") + 0 < SeqMod THEN Base("c") + 0 ELSE Base("c") + 0 - SeqMod
    BY <1>7, <2>1, NthLaw
  <2>3. Base("c") \in Nat /\ Base("c") < SeqMod
    BY <1>7, Modulus DEF Numbers
  <2> QED
    BY <1>7, <2>2, <2>3 DEF Num
<1>9. ASSUME end["s"].state = "Connected"
      PROVE  end["s"].seqNr = 1 /\ end["s"].sendQueue = <<>>
  <2>1. Live("s")
    BY <1>9 DEF Live
  <2>2. end["s"].seqNr = Nth(0, 1)
    BY <1>2, <1>5, <1>7, <2>1, LiveEnd DEF Num
  <2>3. Nth(0, 1) = 1
    <3>1. 1 \in 0..SeqMod /\ 1 < SeqMod
      BY Modulus
    <3>2. Nth(0, 1) = IF 0 + 1 < SeqMod THEN 0 + 1 ELSE 0 + 1 - SeqMod
      BY <1>7, <3>1, NthLaw
    <3> QED
      BY <3>1, <3>2
  <2>4. end["s"].sendQueue \in Seq(Entries) /\ 0 - Len(end["s"].sendQueue) \in 0..0
    BY <1>2, <1>5, <1>6, <2>1, Waiting
  <2>5. Len(end["s"].sendQueue) = 0
    BY <2>4
  <2> QED
    BY <2>2, <2>3, <2>4, <2>5
<1>10. ASSUME end["s"].state = "Listening"
       PROVE  end["s"].seqNr = 1 /\ end["s"].sendQueue = <<>>
  BY <1>10 DEF IndInv, Handshakes, New
<1> QED
  BY <1>1, <1>3, <1>4, <1>5, <1>6, <1>7, <1>8, <1>9, <1>10

\* The SYN, which arrives once, makes a slave that has received nothing.
LEMMA OnSynKeeps ==
    ASSUME Orderly, IndInv, NEW p \in net, OnSyn(p)
    PROVE  IndInv'
<1>r. PICK r : r = IF end["s"].state = "Listening" THEN New("Connected", 1, p.seq)
                   ELSE [end["s"] EXCEPT !.ackNr = p.seq]
  OBVIOUS
<1>a. PICK a : a = AckOf("s", p.seq, received["s"])
  OBVIOUS
<1>n. PICK n, m : n = L("s") /\ m = G("s")
  OBVIOUS
<1>o. PICK out : out = {a}
  OBVIOUS
<1>1. /\ p.type = "SYN" /\ end["s"].state \in {"Listening", "Connected"} /\ end' = [end EXCEPT !["s"] = r]
      /\ net' = Handled(p, {a}) /\ UNCHANGED <<sent, received, heard>>
  BY <1>r, <1>a DEF OnSyn, NewSlave, SynAtSlave
<1>2. net' = (net \ {p}) \cup {a}
  BY <1>1 DEF Handled, Orderly
<1>3. /\ p.seq = Num("c", 0) /\ p.seq \in Numbers /\ L("c") = 0 /\ L("s") = 0 /\ G("s") = 0 /\ G("c") = 0
      /\ end["c"].state \in {"Connecting", "Closed"} /\ end["s"].seqNr = 1 /\ end["s"].sendQueue = <<>>
  BY <1>1, SynMeans
<1>4. "c" \in Ends /\ "s" \in Ends /\ Peer("c") = "s" /\ Peer("s") = "c" /\ TypeOK /\ end["s"] \in Streams /\ 1 \in Numbers
  BY Modulus DEF Ends, Peer, IndInv, TypeOK, Numbers
<1>5. a \in Packets /\ a.to = "c" /\ a.type = "STATE" /\ a.seq = 1 /\ a.ack = p.seq
  <2>1. received["s"] \in Seq(Nat)
    BY <1>4 DEF TypeOK
  <2> QED
    BY <1>a, <1>3, <1>4, <2>1, AckOfType
<1>6. /\ r \in Streams /\ IsFiniteSet(r.outOfOrder) /\ r.state = "Connected" /\ r.seqNr = 1 /\ r.ackNr = p.seq
      /\ r.sendQueue = <<>> /\ (r.outOfOrder = {} \/ r.outOfOrder = end["s"].outOfOrder)
  <2>1. CASE end["s"].state = "Listening"
    BY <1>r, <1>3, <1>4, <2>1, NewType
  <2>2. CASE end["s"].state # "Listening"
    <3>1. IsFiniteSet(end["s"].outOfOrder)
      BY <1>4 DEF TypeOK
    <3> QED
      BY <1>r, <1>1, <1>3, <1>4, <2>2, <3>1 DEF Streams
  <2> QED
    BY <2>1, <2>2
<1>7. Frame("s", r, n, m)
  <2>1. net' \subseteq Packets
    BY <1>2, <1>4, <1>5 DEF TypeOK
  <2> QED
    BY <1>n, <1>1, <1>4, <1>6, <2>1, SameCounts DEF Frame, TypeOK, Gone
<1>8. /\ end'["s"] = r /\ end'["c"] = end["c"] /\ G("s")' = 0 /\ L("c")' = 0 /\ Base("c")' = Base("c")
  BY <1>n, <1>3, <1>4, <1>7, FrameKeeps
<1>9. EarlySound("s")'
  BY <1>4, <1>6, <1>7, FrameEarly
<1>10. QueueSound("s")' /\ Leaves("s")'
  <2>1. Num("s", 0 + 1) = 1
    <3>1. 1 \in 0..SeqMod /\ 1 < SeqMod /\ 0 \in Numbers /\ 0 + 1 = 1
      BY Modulus DEF Numbers
    <3>2. Nth(0, 1) = IF 0 + 1 < SeqMod THEN 0 + 1 ELSE 0 + 1 - SeqMod
      BY <3>1, NthLaw
    <3>3. Nth(0, 1) = 1
      BY <3>1, <3>2
    <3> QED
      BY <3>1, <3>3 DEF Num, Base
  <2>2. DOMAIN r.sendQueue = {} /\ Len(r.sendQueue) = 0
    BY <1>6
  <2>3. ~Gone("s") /\ r.state # "Closed" /\ r.seqNr = Num("s", n + 1) /\ n - Len(r.sendQueue) \in 0..G(Peer("s"))
    BY <1>n, <1>1, <1>3, <1>4, <1>6, <2>1, <2>2 DEF Gone
  <2> QED
    BY <1>4, <1>7, <2>2, <2>3, FrameQueue
<1>11. AckIs("s", p.seq)'
  BY <1>3, <1>4, <1>8 DEF AckIs, Num
<1>12. AckSound("s")'
  BY <1>6, <1>8, <1>11 DEF AckSound
<1>13. Tells(a)'
  <2>1. Acks("s", p.seq)'
    BY <1>4, <1>7, <1>11, FrameAcks
  <2> QED
    BY <1>4, <1>5, <2>1 DEF Tells
<1>14. Handshakes'
  BY <1>1, <1>3, <1>4, <1>6, <1>8 DEF IndInv, Handshakes
<1>15. OneSyn'
  BY <1>1, <1>2, <1>5, <1>8 DEF IndInv, OneSyn
<1>16. net' \subseteq net \cup out /\ (\A y \in out : Tells(y)')
  BY <1>o, <1>2, <1>13
<1> QED
  BY <1>4, <1>7, <1>9, <1>10, <1>12, <1>14, <1>15, <1>16, StepKeeps

\* The SYN-ACK sets ackNr of the client before data of the server can have arrived.
LEMMA OnSynAckKeeps ==
    ASSUME IndInv, NEW p \in net, OnSynAck(p)
    PROVE  IndInv'
<1>r. PICK r : r = [end["c"] EXCEPT !.state = "Connected", !.ackNr = Seq16(p.seq - 1)]
  OBVIOUS
<1>n. PICK n, m : n = L("c") /\ m = G("c")
  OBVIOUS
<1>o. PICK out : out = {}
  OBVIOUS
<1>1. /\ p.type = "STATE" /\ p.to = "c" /\ end["c"].state = "Connecting" /\ end' = [end EXCEPT !["c"] = r]
      /\ net' \subseteq net /\ UNCHANGED <<sent, received, heard>>
  BY <1>r DEF OnSynAck, Handled, IndInv, TypeOK
<1>2. /\ "c" \in Ends /\ "s" \in Ends /\ Peer("c") = "s" /\ Peer("s") = "c" /\ TypeOK /\ end["c"] \in Streams
      /\ IsFiniteSet(end["c"].outOfOrder) /\ Live("c")
  BY <1>1 DEF Ends, Peer, IndInv, TypeOK, Live
<1>3. p.seq = 1 /\ sent["c"] = <<>> /\ \A x \in net : x.type # "SYN"
  BY <1>1 DEF IndInv, OneSyn, Handshakes
<1>4. L("c") = 0 /\ L("s") = 0 /\ G("c") = 0
  <2>1. L("c") = 0 /\ L("s") \in Nat /\ G("s") \in Nat /\ G("c") \in Nat /\ Within("c") /\ Within("s")
    BY <1>2, <1>3, Empty, Lengths DEF IndInv
  <2>2. G("s") = 0
    BY <1>2, <2>1 DEF Within
  <2>3. L("s") = 0
    BY <1>2, <2>2, Empty DEF IndInv, Handshakes
  <2> QED
    BY <1>2, <2>1, <2>3 DEF Within
<1>5. Seq16(p.seq - 1) = 0 /\ Num("s", 0) = 0 /\ 0 \in Numbers
  <2>1. 0 \in (-SeqMod)..(2 * SeqMod - 1) /\ 0 < SeqMod /\ 0 \in Numbers
    BY Modulus DEF Numbers
  <2>2. Seq16(0) = IF 0 < 0 THEN 0 + SeqMod ELSE IF 0 < SeqMod THEN 0 ELSE 0 - SeqMod
    BY <2>1, Seq16Law
  <2>3. Seq16(0) = 0
    BY <2>1, <2>2
  <2>4. 0 + 0 = 0 /\ p.seq - 1 = 0
    BY <1>3
  <2> QED
    BY <2>1, <2>3, <2>4 DEF Num, Nth, Base
<1>6. /\ r \in Streams /\ r.state = "Connected" /\ r.outOfOrder = end["c"].outOfOrder /\ r.syn = end["c"].syn
      /\ r.sendQueue = end["c"].sendQueue /\ r.seqNr = end["c"].seqNr /\ r.ackNr = 0
  BY <1>r, <1>2, <1>5 DEF Streams
<1>7. Frame("c", r, n, m)
  BY <1>n, <1>1, <1>2, <1>6, SameCounts DEF Frame, TypeOK, Gone
<1>8. end'["c"] = r /\ end'["s"] = end["s"] /\ G("c")' = 0 /\ Base("s")' = Base("s")
  BY <1>n, <1>2, <1>4, <1>7, FrameKeeps
<1>9. EarlySound("c")'
  BY <1>2, <1>6, <1>7, FrameEarly
<1>10. QueueSound("c")' /\ Leaves("c")'
  <2>1. end["c"].sendQueue \in Seq(Entries) /\ L("c") - Len(end["c"].sendQueue) \in 0..G("s")
    BY <1>2, Waiting
  <2>2. Len(r.sendQueue) = 0 /\ DOMAIN r.sendQueue = {}
    BY <1>4, <1>6, <2>1
  <2>3. ~Gone("c") /\ r.state # "Closed" /\ r.seqNr = Num("c", n + 1)
    BY <1>n, <1>2, <1>6, LiveEnd
  <2>4. n - Len(r.sendQueue) \in 0..G(Peer("c"))
    BY <1>n, <1>2, <1>6, <2>1
  <2> QED
    BY <1>2, <1>7, <2>2, <2>3, <2>4, FrameQueue
<1>11. AckSound("c")'
  BY <1>2, <1>5, <1>6, <1>8 DEF AckSound, AckIs, Num
<1>12. Handshakes'
  BY <1>2, <1>6, <1>7, FrameHandshakes
<1>13. OneSyn'
  BY <1>1, <1>3, <1>6, <1>8 DEF OneSyn
<1>14. net' \subseteq net \cup out /\ (\A y \in out : Tells(y)')
  BY <1>o, <1>1
<1> QED
  BY <1>2, <1>7, <1>9, <1>10, <1>11, <1>12, <1>13, <1>14, StepKeeps

\* The invariant holds before connect().
LEMMA InitIndInv == Init => IndInv
<1> SUFFICES ASSUME Init PROVE IndInv
  OBVIOUS
<1>1. /\ end["c"] = New("Unconnected", 1, 0) /\ end["s"] = New("Listening", 1, 0)
      /\ \A e \in Ends : sent[e] = <<>> /\ received[e] = <<>>
  BY DEF Init, Ends
<1>2. 0 \in Numbers /\ 1 \in Numbers /\ MaxData \in Nat
  BY Modulus DEF Numbers
<1>3. \A e \in Ends : /\ end[e] \in Streams /\ IsFiniteSet(end[e].outOfOrder) /\ end[e].outOfOrder = {}
                      /\ end[e].sendQueue = <<>> /\ end[e].seqNr = 1 /\ end[e].state \in {"Unconnected", "Listening"}
  BY <1>1, <1>2, NewType DEF Ends
<1>4. TypeOK
  <2>1. DOMAIN end = Ends /\ end = [e \in Ends |-> end[e]]
    BY DEF Init, Ends
  <2> QED
    BY <1>1, <1>2, <1>3, <2>1 DEF TypeOK, Init
<1>5. \A e \in Ends : L(e) = 0 /\ G(e) = 0 /\ Peer(e) \in Ends
  BY <1>1, EndsAre DEF L, G
<1>6. \A e \in Ends : Within(e)
  BY <1>2, <1>5 DEF Within
<1>7. ASSUME NEW e \in Ends PROVE EndSound(e)
  <2>1. Counts(e)
    BY <1>1, <1>5 DEF Counts, Counting
  <2>2. QueueSound(e)
    <3>1. Num(e, 0 + 1) = 1
      <4>1. 1 \in 0..SeqMod /\ 1 < SeqMod /\ 0 \in Numbers /\ 0 + 1 = 1
        BY Modulus DEF Numbers
      <4>2. Nth(0, 1) = IF 0 + 1 < SeqMod THEN 0 + 1 ELSE 0 + 1 - SeqMod
        BY <4>1, NthLaw
      <4>3. Nth(0, 1) = 1
        BY <4>1, <4>2
      <4>4. Base(e) = 0
        BY <1>1 DEF Base, New
      <4> QED
        BY <4>1, <4>3, <4>4 DEF Num
    <3>2. L(e) - Len(end[e].sendQueue) \in 0..G(Peer(e)) /\ DOMAIN end[e].sendQueue = {}
      BY <1>3, <1>5
    <3> QED
      BY <1>3, <1>5, <3>1, <3>2 DEF QueueSound
  <2> QED
    BY <1>1, <1>3, <2>1, <2>2 DEF EndSound, EarlySound, Leaves, AckSound
<1>8. Handshakes
  BY <1>1 DEF Handshakes, New, Init
<1>9. net = {}
  BY DEF Init
<1> QED
  BY <1>4, <1>6, <1>7, <1>8, <1>9 DEF IndInv, OneSyn

\* connect() keeps the invariant.
LEMMA ConnectKeeps ==
    ASSUME IndInv, NEW syn \in SynSeqs, Connect(syn)
    PROVE  IndInv'
<1>r. PICK r : r = [New("Connecting", Seq16(syn + 1), 0) EXCEPT !.syn = syn]
  OBVIOUS
<1>p. PICK p : p = Datagram("c", "SYN", syn, 0)
  OBVIOUS
<1>1. end["c"].state = "Unconnected" /\ end' = [end EXCEPT !["c"] = r] /\ net' = {p} /\ UNCHANGED <<sent, received, heard>>
  BY <1>r, <1>p DEF Connect
<1>2. /\ end["c"] = New("Unconnected", 1, 0) /\ end["s"] = New("Listening", 1, 0)
      /\ \A e \in Ends : sent[e] = <<>> /\ received[e] = <<>>
  BY <1>1 DEF IndInv, Handshakes
<1>3. /\ "c" \in Ends /\ "s" \in Ends /\ Peer("c") = "s" /\ Peer("s") = "c" /\ TypeOK /\ syn \in Numbers
      /\ 0 \in Numbers /\ 1 \in Numbers /\ MaxData \in Nat /\ syn + 1 \in Int
  BY UtpAssumption, Modulus DEF Ends, Peer, IndInv, Numbers
<1>4. Nth(syn, 1) \in Numbers /\ Nth(syn, 1) = Seq16(syn + 1)
  <2>1. 1 \in 0..SeqMod
    BY Modulus
  <2> QED
    BY <1>3, <2>1, NthLaw DEF Nth
<1>5. /\ r \in Streams /\ r.state = "Connecting" /\ r.seqNr = Nth(syn, 1) /\ r.ackNr = 0 /\ r.syn = syn
      /\ r.sendQueue = <<>> /\ r.outOfOrder = {} /\ IsFiniteSet(r.outOfOrder)
  <2>1. /\ New("Connecting", Seq16(syn + 1), 0) \in Streams
        /\ New("Connecting", Seq16(syn + 1), 0).outOfOrder = {} /\ New("Connecting", Seq16(syn + 1), 0).sendQueue = <<>>
        /\ New("Connecting", Seq16(syn + 1), 0).state = "Connecting" /\ New("Connecting", Seq16(syn + 1), 0).ackNr = 0
        /\ New("Connecting", Seq16(syn + 1), 0).seqNr = Seq16(syn + 1)
    BY <1>3, <1>4, NewType
  <2> QED
    BY <1>r, <1>3, <1>4, <2>1, FS_EmptySet DEF Streams
<1>6. p \in Packets /\ p.type = "SYN" /\ p.to = "s" /\ p.seq = syn
  <2>1. p \in Packets
    BY <1>p, <1>3, DatagramType
  <2> QED
    BY <1>p, <1>3, <2>1 DEF Datagram
<1>7. end'["c"] = r /\ end'["s"] = end["s"] /\ end' \in [Ends -> Streams]
  BY <1>1, <1>3, <1>5 DEF TypeOK
<1>8. TypeOK'
  BY <1>1, <1>3, <1>5, <1>6, <1>7 DEF TypeOK, Ends
<1>9. \A e \in Ends : L(e)' = 0 /\ G(e)' = 0 /\ Peer(e) \in Ends
  BY <1>1, <1>2, EndsAre DEF L, G
<1>10. \A e \in Ends : Within(e)'
  BY <1>3, <1>9 DEF Within
<1>11. ASSUME NEW e \in Ends PROVE EndSound(e)'
  <2>0. /\ end'[e].sendQueue = <<>> /\ end'[e].outOfOrder = {}
    BY <1>2, <1>5, <1>7 DEF Ends, New
  <2>1. Counts(e)'
    BY <1>1, <1>2, <1>9 DEF Counts, Counting
  <2>2. QueueSound(e)'
    <3>1. end'[e].seqNr = Num(e, 0 + 1)'
      <4>0. 0 + 1 = 1
        OBVIOUS
      <4>1. CASE e = "c"
        BY <1>5, <1>7, <4>0, <4>1 DEF Num, Base
      <4>2. CASE e = "s"
        <5>1. 1 \in 0..SeqMod /\ 1 < SeqMod
          BY Modulus
        <5>2. Nth(0, 1) = IF 0 + 1 < SeqMod THEN 0 + 1 ELSE 0 + 1 - SeqMod
          BY <1>3, <5>1, NthLaw
        <5>3. Nth(0, 1) = 1
          BY <5>1, <5>2
        <5> QED
          BY <1>2, <1>7, <4>0, <4>2, <5>3 DEF Num, Base, New
      <4> QED
        BY <4>1, <4>2 DEF Ends
    <3>2. L(e)' - Len(end'[e].sendQueue) \in 0..G(Peer(e))' /\ DOMAIN end'[e].sendQueue = {}
      BY <1>9, <2>0
    <3> QED
      BY <1>9, <3>1, <3>2 DEF QueueSound
  <2>3. AckSound(e)'
    <3>1. CASE e = "c"
      <4>1. Num("s", 0)' = 0
        <5>1. 0 \in 0..SeqMod /\ 0 < SeqMod
          BY Modulus
        <5>2. Nth(0, 0) = IF 0 + 0 < SeqMod THEN 0 + 0 ELSE 0 + 0 - SeqMod
          BY <1>3, <5>1, NthLaw
        <5>3. Nth(0, 0) = 0
          BY <5>1, <5>2
        <5> QED
          BY <5>3 DEF Num, Base
      <4> QED
        BY <1>3, <1>5, <1>7, <1>9, <3>1, <4>1 DEF AckSound, AckIs
    <3>2. CASE e = "s"
      BY <1>2, <1>7, <3>2 DEF AckSound, New
    <3> QED
      BY <3>1, <3>2 DEF Ends
  <2>4. Leaves(e)' /\ EarlySound(e)'
    BY <1>1, <1>2, <2>0 DEF Leaves, EarlySound
  <2> QED
    BY <2>1, <2>2, <2>3, <2>4 DEF EndSound
<1>12. Handshakes'
  BY <1>1, <1>2, <1>3, <1>5, <1>7 DEF Handshakes, New
<1>13. OneSyn'
  BY <1>1, <1>2, <1>3, <1>5, <1>6, <1>7 DEF OneSyn
<1>14. Tells(p)'
  BY <1>5, <1>6, <1>7 DEF Tells
<1> QED
  BY <1>1, <1>8, <1>10, <1>11, <1>12, <1>13, <1>14 DEF IndInv

--------------------------------------------------------------------------------
(* Data and FIN arrive. *)

\* A number tells which packet it is.
LEMMA SoundAt ==
    ASSUME IndInv, NEW d \in Ends, NEW k \in 1..(MaxData + 2), NEW seq, NEW chunk, Sound(d, seq, chunk), seq = Num(d, k)
    PROVE  k <= L(d) + 1 /\ (chunk = IF k <= L(d) THEN k ELSE 0) /\ (k = L(d) + 1 => Gone(d))
<1>1. /\ L(d) \in Nat /\ Base(d) \in Numbers /\ L(d) <= MaxData /\ MaxData \in Nat /\ SeqMod \in Nat
      /\ MaxData + 2 <= SeqMod /\ MaxData + 1 < SeqMod
  BY Lengths, Modulus DEF IndInv, Within
<1>2. CASE chunk \in 1..L(d) /\ seq = Num(d, chunk)
  <2>1. Nth(Base(d), k) = Nth(Base(d), chunk)
    BY <1>2 DEF Num
  <2>2. k \in 0..SeqMod /\ chunk \in 0..SeqMod /\ k - chunk < SeqMod /\ chunk - k < SeqMod
    BY <1>1, <1>2
  <2>3. k = chunk
    BY <1>1, <2>1, <2>2, NthDiffer
  <2> QED
    BY <1>1, <1>2, <2>3
<1>3. CASE chunk = 0 /\ seq = Num(d, L(d) + 1) /\ Gone(d)
  <2> DEFINE l == L(d) + 1
  <2>1. Nth(Base(d), k) = Nth(Base(d), l)
    BY <1>3 DEF Num
  <2>2. k \in 0..SeqMod /\ l \in 0..SeqMod /\ k - l < SeqMod /\ l - k < SeqMod
    BY <1>1
  <2>3. k = l
    <3> HIDE DEF l
    <3> QED
      BY <1>1, <2>1, <2>2, NthDiffer
  <2> QED
    BY <1>1, <1>3, <2>3
<1> QED
  BY <1>2, <1>3 DEF Sound

\* The same for the packets of one end.
LEMMA NumNext ==
    ASSUME IndInv, NEW d \in Ends, NEW k \in Nat, NEW i \in Nat, k + i <= MaxData + 2
    PROVE  Seq16(Num(d, k) + i) = Num(d, k + i) /\ Num(d, k) \in Numbers
<1>1. Base(d) \in Numbers /\ MaxData + 2 <= SeqMod /\ SeqMod \in Nat /\ MaxData \in Nat
  BY Lengths, Modulus DEF IndInv
<1>2. k \in 0..SeqMod /\ i \in 0..SeqMod /\ k + i <= SeqMod
  BY <1>1
<1> QED
  BY <1>1, <1>2, NthNext, NthLaw DEF Num

\* A packet that is in order is the next one of the peer.
LEMMA InOrderIsNext ==
    ASSUME IndInv, NEW e \in Ends, Live(e), NEW p, Arrives(p, e), p.type \in {"DATA", "FIN"}, InOrder(e, p)
    PROVE  /\ p.seq = Num(Peer(e), G(e) + 1) /\ G(e) <= L(Peer(e))
           /\ p.chunk = IF G(e) + 1 <= L(Peer(e)) THEN G(e) + 1 ELSE 0
           /\ G(e) = L(Peer(e)) => Gone(Peer(e))
<1> DEFINE d == Peer(e)
           g == G(e)
<1>1. d \in Ends /\ g \in Nat /\ L(d) \in Nat /\ g <= L(d) /\ L(d) <= MaxData /\ MaxData \in Nat
  BY EndsAre, Lengths, Modulus DEF IndInv, Within
<1>2. Sound(d, p.seq, p.chunk)
  BY DEF IndInv, Tells, Arrives
<1>3. AckIs(e, end[e].ackNr) /\ p.seq = Seq16(end[e].ackNr + 1)
  BY LiveEnd DEF InOrder
<1>4. CASE end[e].ackNr = Num(d, g)
  <2> HIDE DEF d, g
  <2>1. p.seq = Num(d, g + 1)
    BY <1>1, <1>3, <1>4, NumNext
  <2>2. g + 1 \in 1..(MaxData + 2)
    BY <1>1
  <2>3. g + 1 <= L(d) + 1 /\ (p.chunk = IF g + 1 <= L(d) THEN g + 1 ELSE 0) /\ (g + 1 = L(d) + 1 => Gone(d))
    BY <1>1, <1>2, <2>1, <2>2, SoundAt
  <2>4. g = L(d) => Gone(d)
    BY <2>3
  <2> QED
    BY <1>1, <2>1, <2>3, <2>4 DEF d, g
<1>5. CASE end[e].ackNr = Num(d, g + 1) /\ L(d) = g
  <2> HIDE DEF d, g
  <2>1. p.seq = Num(d, (g + 1) + 1)
    <3>1. g + 1 \in Nat /\ (g + 1) + 1 <= MaxData + 2
      BY <1>1
    <3> QED
      BY <1>1, <1>3, <1>5, <3>1, NumNext
  <2>2. (g + 1) + 1 \in 1..(MaxData + 2)
    BY <1>1
  <2>3. (g + 1) + 1 <= L(d) + 1
    BY <1>1, <1>2, <2>1, <2>2, SoundAt
  <2> QED
    BY <1>1, <1>5, <2>3
<1> QED
  BY <1>3, <1>4, <1>5 DEF AckIs

\* The largest n, up to b, for which all of 1..n are there.
LEMMA LastThere ==
    ASSUME NEW T, NEW b \in Nat
    PROVE  \E n \in 0..b : (\A i \in 1..n : i \in T) /\ (n = b \/ ~(\A i \in 1..(n + 1) : i \in T))
<1> DEFINE Missing == {i \in 1..b : i \notin T}
<1>1. CASE Missing = {}
  BY <1>1
<1>2. CASE Missing # {}
  <2>1. Missing \in SUBSET Nat
    OBVIOUS
  <2>2. PICK m \in Missing : \A i \in Missing : m <= i
    <3> HIDE DEF Missing
    <3> QED
      BY <1>2, <2>1, LeastNumber
  <2>3. m \in 1..b /\ m \notin T /\ m - 1 \in 0..b /\ (m - 1) + 1 = m
    OBVIOUS
  <2>4. \A i \in 1..(m - 1) : i \in T
    <3> SUFFICES ASSUME NEW i \in 1..(m - 1), i \notin T PROVE FALSE
      OBVIOUS
    <3>1. i \in 1..b /\ ~(m <= i)
      BY <2>3
    <3> QED
      BY <2>2, <3>1
  <2>5. ~(\A i \in 1..((m - 1) + 1) : i \in T)
    BY <2>3
  <2> QED
    BY <2>3, <2>4, <2>5
<1> QED
  BY <1>1, <1>2

\* The packets that waited are those after the one that arrived.
LEMMA FollowUpsAre ==
    ASSUME IndInv, NEW e \in Ends, NEW seq, NEW k, k \in 1..(L(Peer(e)) + 1), seq = Num(Peer(e), k)
    PROVE  \E n \in 0..(L(Peer(e)) + 1 - k) :
              /\ DOMAIN FollowUps(e, seq) = 1..n /\ FollowUps(e, seq) \in Seq(end[e].outOfOrder)
              /\ Len(FollowUps(e, seq)) = n
              /\ \A i \in 1..n : FollowUps(e, seq)[i].seq = Num(Peer(e), k + i)
<1> DEFINE d == Peer(e)
           early == end[e].outOfOrder
           There(i) == \E x \in early : x.seq = Seq16(seq + i)
           Has(j) == \A i \in 1..j : There(i)
           c == Cardinality(early)
           n == CHOOSE n \in 0..c : Has(n) /\ (n = c \/ ~Has(n + 1))
           f == FollowUps(e, seq)
<1>1. d \in Ends /\ L(d) \in Nat /\ L(d) <= MaxData /\ MaxData \in Nat /\ k \in Nat /\ IsFiniteSet(early)
  BY EndsAre, Lengths, Modulus DEF IndInv, Within, TypeOK
<1>2. c \in Nat
  BY <1>1, FS_CardinalityType
<1>3. f = [i \in 1..n |-> CHOOSE x \in early : x.seq = Seq16(seq + i)]
  BY DEF FollowUps
<1>4. n \in 0..c /\ Has(n)
  <2> DEFINE T == {i \in 1..(c + 1) : There(i)}
  <2> HIDE DEF c, There
  <2>1. PICK m \in 0..c : (\A i \in 1..m : i \in T) /\ (m = c \/ ~(\A i \in 1..(m + 1) : i \in T))
    <3> HIDE DEF T
    <3> QED
      BY <1>2, LastThere
  <2>2. \A j \in 0..(c + 1) : (\A i \in 1..j : i \in T) <=> Has(j)
    <3> SUFFICES ASSUME NEW j \in 0..(c + 1) PROVE (\A i \in 1..j : i \in T) <=> Has(j)
      OBVIOUS
    <3>1. \A i \in 1..j : i \in 1..(c + 1)
      BY <1>2
    <3> QED
      BY <3>1
  <2>3. m \in 0..(c + 1) /\ m + 1 \in 0..(c + 1)
    BY <1>2
  <2> HIDE DEF Has, T
  <2>4. Has(m) /\ (m = c \/ ~Has(m + 1))
    BY <2>1, <2>2, <2>3
  <2> QED
    BY <2>4
<1> HIDE DEF n, c
<1>5. n \in Nat
  BY <1>2, <1>4
<1>6. \A x \in early : \E j \in 1..(L(d) + 1) : x.seq = Num(d, j)
  <2> SUFFICES ASSUME NEW x \in early PROVE \E j \in 1..(L(d) + 1) : x.seq = Num(d, j)
    OBVIOUS
  <2>1. Sound(d, x.seq, x.chunk)
    BY DEF IndInv, EndSound, EarlySound
  <2> HIDE DEF early, d
  <2>2. L(d) + 1 \in 1..(L(d) + 1) /\ \A j \in 1..L(d) : j \in 1..(L(d) + 1)
    BY <1>1
  <2> QED
    BY <2>1, <2>2 DEF Sound
<1> HIDE DEF f
<1>7. n <= L(d) + 1 - k
  <2> SUFFICES ASSUME ~(n <= L(d) + 1 - k) PROVE FALSE
    OBVIOUS
  <2>i. PICK i : i = (L(d) + 1 - k) + 1
    OBVIOUS
  <2>1. i \in 1..n /\ i \in Nat /\ k + i = L(d) + 2 /\ k + i <= MaxData + 2
    BY <1>1, <1>5, <2>i
  <2>2. PICK x \in early : x.seq = Seq16(seq + i)
    BY <1>4, <2>1
  <2>3. PICK j \in 1..(L(d) + 1) : x.seq = Num(d, j)
    BY <1>6
  <2> DEFINE z == k + i
  <2>4. Nth(Base(d), z) = Nth(Base(d), j)
    BY <1>1, <2>1, <2>2, <2>3, NumNext DEF Num
  <2>5. /\ Base(d) \in Numbers /\ z \in 0..SeqMod /\ j \in 0..SeqMod /\ z - j < SeqMod
        /\ j - z < SeqMod /\ z # j
    <3>1. MaxData + 2 <= SeqMod /\ SeqMod \in Nat /\ Base(d) \in Numbers
      BY <1>1, Lengths, Modulus DEF IndInv
    <3> HIDE DEF d
    <3> QED
      BY <1>1, <2>1, <3>1
  <2> HIDE DEF z
  <2> QED
    BY <2>4, <2>5, NthDiffer
<1>8. ASSUME NEW i \in 1..n
      PROVE  f[i] \in early /\ f[i].seq = Num(d, k + i)
  <2>1. f[i] \in early /\ f[i].seq = Seq16(seq + i)
    BY <1>3, <1>4
  <2>2. i \in Nat /\ k + i <= MaxData + 2
    BY <1>1, <1>5, <1>7
  <2>3. Seq16(Num(d, k) + i) = Num(d, k + i)
    BY <1>1, <2>2, NumNext
  <2> QED
    BY <2>1, <2>3
<1>9. DOMAIN f = 1..n /\ f \in Seq(early) /\ Len(f) = n
  <2>1. f \in [1..n -> early]
    BY <1>3, <1>8
  <2>2. f \in Seq(early) /\ Len(f) = n
    BY <1>5, <2>1
  <2> QED
    BY <2>1, <2>2
<1>10. n \in 0..(L(d) + 1 - k)
  BY <1>1, <1>5, <1>7
<1> QED
  BY <1>8, <1>9, <1>10 DEF f

EarlySet == [seq : Numbers, chunk : Nat]

\* The packet that arrived and those that waited for it are the next ones of the
\* peer, up to its last one or its FIN.
RunOf(run, N, e) ==
    /\ run \in Seq(EarlySet) /\ Len(run) = N /\ DOMAIN run = 1..N
    /\ \A i \in 1..N : run[i].seq = Num(Peer(e), G(e) + i)
    /\ Successive(run, G(e), L(Peer(e)))
    /\ G(e) + N = L(Peer(e)) + 1 => Gone(Peer(e))

\* The run that a DATA packet completes: the packet and those that arrived early
\* and follow it without a gap are the next ones of the sender.
LEMMA RunIs ==
    ASSUME IndInv, NEW e \in Ends, Live(e), NEW p, Arrives(p, e), p.type \in {"DATA", "FIN"}, InOrder(e, p)
    PROVE  \E N \in 1..(L(Peer(e)) + 1 - G(e)) :
              RunOf(<<[seq |-> p.seq, chunk |-> p.chunk]>> \o FollowUps(e, p.seq), N, e)
<1> DEFINE d == Peer(e)
           g == G(e)
           x == [seq |-> p.seq, chunk |-> p.chunk]
           f == FollowUps(e, p.seq)
           run == <<x>> \o f
<1>1. d \in Ends /\ g \in Nat /\ L(d) \in Nat /\ g <= L(d) /\ L(d) <= MaxData /\ MaxData \in Nat
  BY EndsAre, Lengths, Modulus DEF IndInv, Within
<1>2. /\ p.seq = Num(d, g + 1) /\ (p.chunk = IF g + 1 <= L(d) THEN g + 1 ELSE 0) /\ (g = L(d) => Gone(d))
  BY InOrderIsNext
<1>3. g + 1 \in 1..(L(d) + 1)
  BY <1>1
<1>4. PICK n \in 0..(L(d) + 1 - (g + 1)) :
        /\ DOMAIN f = 1..n /\ f \in Seq(end[e].outOfOrder) /\ Len(f) = n
        /\ \A i \in 1..n : f[i].seq = Num(d, (g + 1) + i)
  <2>1. PICK k : k = g + 1
    OBVIOUS
  <2>2. k \in 1..(L(Peer(e)) + 1) /\ p.seq = Num(Peer(e), k)
    BY <1>2, <1>3, <2>1
  <2>3. \E n \in 0..(L(Peer(e)) + 1 - k) :
            /\ DOMAIN FollowUps(e, p.seq) = 1..n /\ FollowUps(e, p.seq) \in Seq(end[e].outOfOrder)
            /\ Len(FollowUps(e, p.seq)) = n
            /\ \A i \in 1..n : FollowUps(e, p.seq)[i].seq = Num(Peer(e), k + i)
    BY <2>2, FollowUpsAre
  <2> QED
    BY <2>1, <2>3, Zenon
<1>5. x \in EarlySet /\ end[e].outOfOrder \subseteq EarlySet
  BY DEF Arrives, IndInv, TypeOK, Packets, Streams, EarlySet
<1>6. \A i \in 1..n : Sound(d, f[i].seq, f[i].chunk)
  <2>1. \A i \in 1..n : f[i] \in end[e].outOfOrder
    BY <1>4
  <2> QED
    BY <2>1 DEF IndInv, EndSound, EarlySound
<1> HIDE DEF x, f, d, g
<1>7. f \in Seq(EarlySet)
  BY <1>4, <1>5
<1>8. /\ run \in Seq(EarlySet) /\ Len(run) = n + 1 /\ DOMAIN run = 1..(n + 1)
      /\ run[1] = x /\ \A i \in 2..(n + 1) : i - 1 \in 1..n /\ run[i] = f[i - 1]
  BY <1>4, <1>5, <1>7
<1> HIDE DEF run
<1>9. ASSUME NEW i \in 1..(n + 1)
      PROVE  /\ run[i].seq = Num(d, g + i) /\ (run[i].chunk = IF g + i <= L(d) THEN g + i ELSE 0)
             /\ g + i = L(d) + 1 => Gone(d)
  <2>1. CASE i = 1
    <3>1. g + 1 = L(d) + 1 => g = L(d)
      BY <1>1
    <3> QED
      BY <1>2, <1>8, <2>1, <3>1 DEF x
  <2>2. CASE i # 1
    <3>1. i \in 2..(n + 1) /\ i - 1 \in 1..n /\ (g + 1) + (i - 1) = g + i /\ g + i \in 1..(MaxData + 2)
      BY <1>1, <2>2
    <3>2. run[i] = f[i - 1] /\ f[i - 1].seq = Num(d, g + i)
      BY <1>4, <1>8, <3>1
    <3>3. Sound(d, run[i].seq, run[i].chunk) /\ run[i].seq = Num(d, g + i)
      BY <1>6, <3>1, <3>2
    <3> QED
      BY <1>1, <3>1, <3>3, SoundAt
  <2> QED
    BY <2>1, <2>2
<1>10. n + 1 \in 1..(L(d) + 1 - g) /\ n + 1 \in 1..(n + 1)
  BY <1>1
<1>11. Successive(run, g, L(d))
  BY <1>8, <1>9 DEF Successive
<1>12. RunOf(run, n + 1, e)
  BY <1>8, <1>9, <1>10, <1>11 DEF RunOf, d, g
<1>13. \E N \in 1..(L(d) + 1 - g) : RunOf(run, N, e)
  BY <1>10, <1>12
<1> QED
  BY <1>13 DEF run, x, f, d, g

\* Data or a FIN reaches the server only after the client is connected.
LEMMA DataAfterSyn ==
    ASSUME IndInv, NEW p, Arrives(p, "s"), p.type \in {"DATA", "FIN"}
    PROVE  end["c"].state # "Connecting"
<1> SUFFICES ASSUME end["c"].state = "Connecting" PROVE FALSE
  OBVIOUS
<1>1. Sound("c", p.seq, p.chunk) /\ "c" \in Ends
  BY DEF IndInv, Tells, Arrives, Peer, Ends
<1>2. L("c") = 0 /\ ~Gone("c")
  BY <1>1, Empty DEF IndInv, Handshakes, Gone
<1> QED
  BY <1>1, <1>2 DEF Sound

\* What the three cases of handleDatagram() have in common.
LEMMA DataStep ==
    ASSUME IndInv, NEW e \in Ends, Live(e), NEW p, Arrives(p, e), p.type \in {"DATA", "FIN"},
           NEW r, NEW n, NEW m, Frame(e, r, n, m), n = L(e), r.state = end[e].state, r.seqNr = end[e].seqNr,
           r.sendQueue = Acked(e, p),
           \A x \in r.outOfOrder : x \in end[e].outOfOrder \/ Sound(Peer(e), x.seq, x.chunk),
           AckIs(e, r.ackNr)', NEW out, net' \subseteq net \cup out,
           \A a \in out : a.to = Peer(e) /\ a.type = "STATE" /\ a.ack = r.ackNr
    PROVE  IndInv'
<1>1. end'[e] = r /\ Peer(e) \in Ends /\ Peer(Peer(e)) = e
  BY FrameKeeps, EndsAre
<1>2. p.type # "SYN" /\ r.state \in {"Connecting", "Connected"}
  BY DEF Live
<1>3. EarlySound(e)'
  BY FrameEarly
<1>4. QueueSound(e)' /\ Leaves(e)'
  BY <1>2, FrameAcked
<1>5. AckSound(e)'
  BY <1>1 DEF AckSound
<1>6. Acks(e, r.ackNr)'
  BY FrameAcks
<1>7. \A a \in out : Tells(a)'
  BY <1>1, <1>6 DEF Tells
<1>8. Handshakes'
  <2>1. e = "s" /\ n # 0 => received["s"] # <<>>
    BY Empty DEF IndInv, Handshakes
  <2> QED
    BY <1>2, <2>1, FrameHandshakes
<1>9. OneSyn'
  <2>1. e = "c" => r.state \in {end["c"].state, "Closed"} /\ n = L("c")
    OBVIOUS
  <2>2. \A a \in out : a.type # "SYN" /\ (a.type = "STATE" /\ a.to = "c" => end["c"].state # "Connecting")
    <3>1. Peer(e) = "c" => e = "s"
      BY DEF Peer, Ends
    <3> QED
      BY <3>1, DataAfterSyn
  <2> QED
    BY <2>1, <2>2, FrameOneSyn
<1> QED
  BY <1>3, <1>4, <1>5, <1>7, <1>8, <1>9, StepKeeps

\* The payloads of the run, and the number to acknowledge.
LEMMA RunBrings ==
    ASSUME IndInv, NEW e \in Ends, NEW run, NEW N \in 1..(L(Peer(e)) + 1 - G(e)), RunOf(run, N, e)
    PROVE  \E m \in G(e)..L(Peer(e)) :
              /\ m > G(e) \/ (m = G(e) /\ L(Peer(e)) = G(e))
              /\ received[e] \o Payloads(run) = Counting(0, m)
              /\ \/ run[Len(run)].seq = Num(Peer(e), m)
                 \/ run[Len(run)].seq = Num(Peer(e), m + 1) /\ L(Peer(e)) = m /\ Gone(Peer(e))
<1> DEFINE d == Peer(e)
           g == G(e)
           l == L(d)
           k == Least(N, l - g)
<1>1. d \in Ends /\ g \in Nat /\ l \in Nat /\ g <= l
  BY EndsAre, Lengths DEF IndInv, Within
<1>2. received[e] = Counting(0, g)
  BY DEF IndInv, EndSound, Counts
<1>3. /\ run \in Seq(EarlySet) /\ Len(run) = N /\ Successive(run, g, l) /\ (g + N = l + 1 => Gone(d))
      /\ \A i \in 1..N : run[i].seq = Num(d, g + i)
  BY DEF RunOf
<1> HIDE DEF d, g, l
<1>4. Payloads(run) = Counting(g, k)
  BY <1>1, <1>3, PayloadsCount
<1>5. N \in 1..(l + 1 - g)
  BY DEF d, g, l
<1>6. k \in Nat /\ g + k \in g..l
  BY <1>1, <1>5 DEF Least
<1>7. received[e] \o Payloads(run) = Counting(0, g + k)
  BY <1>1, <1>2, <1>4, <1>6, CountingJoins
<1>8. run[N].seq = Num(d, g + N)
  BY <1>1, <1>3, <1>5
<1>9. CASE g + N <= l
  <2>1. k = N /\ g + k > g
    BY <1>1, <1>5, <1>9 DEF Least
  <2> QED
    BY <1>3, <1>6, <1>7, <1>8, <2>1 DEF d, g, l
<1>10. CASE ~(g + N <= l)
  <2>1. k = l - g /\ g + k = l /\ g + N = l + 1 /\ (l > g \/ l = g)
    BY <1>1, <1>5, <1>10 DEF Least
  <2>2. run[N].seq = Num(d, l + 1) /\ Gone(d)
    BY <1>3, <1>8, <2>1
  <2> QED
    BY <1>3, <1>6, <1>7, <2>1, <2>2 DEF d, g, l
<1> QED
  BY <1>9, <1>10

\* A DATA packet, in order, early or again, keeps the invariant.
LEMMA OnDataKeeps ==
    ASSUME IndInv, NEW e \in Ends, NEW p, Arrives(p, e), OnData(e, p)
    PROVE  IndInv'
<1>x. PICK x : x = [seq |-> p.seq, chunk |-> p.chunk]
  OBVIOUS
<1>u. PICK run : run = <<x>> \o FollowUps(e, p.seq)
  OBVIOUS
<1>i. PICK me : me = [end[e] EXCEPT !.sendQueue = Acked(e, p), !.finReceived = @ \/ p.type = "FIN"]
  OBVIOUS
<1>1. Live(e) /\ p.type \in {"DATA", "FIN"} /\ p.type # "SYN" /\ sent' = sent
  BY DEF OnData
<1>2. /\ TypeOK /\ end[e] \in Streams /\ IsFiniteSet(end[e].outOfOrder) /\ p \in Packets /\ p.upto \in Nat
      /\ Peer(e) \in Ends /\ x \in EarlySet /\ Sound(Peer(e), p.seq, p.chunk) /\ net \subseteq Packets /\ ~Gone(e)
  BY <1>x, <1>1, EndsAre DEF Arrives, IndInv, TypeOK, Packets, Tells, EarlySet, Gone, Live
<1>3. heard' \in [Ends -> Nat]
  BY <1>2 DEF OnData, Hears, TypeOK
<1>4. Acked(e, p) \in Seq(Entries)
  BY <1>1, AckedType
<1>5. /\ me \in Streams /\ me.state = end[e].state /\ me.seqNr = end[e].seqNr /\ me.ackNr = end[e].ackNr /\ me.syn = end[e].syn
      /\ me.sendQueue = Acked(e, p) /\ me.outOfOrder = end[e].outOfOrder
  BY <1>i, <1>2, <1>4 DEF Streams
<1>6. L(e) \in Nat /\ G(e) \in Nat /\ L(Peer(e)) \in Nat /\ Within(e)
  BY <1>2, Lengths DEF IndInv
<1>n. PICK n : n = L(e)
  OBVIOUS
<1>7. /\ sent' = [sent EXCEPT ![e] = Counting(0, n)] /\ n \in L(e)..MaxData
      /\ received = [received EXCEPT ![e] = Counting(0, G(e))] /\ G(e) \in G(e)..L(Peer(e))
  BY <1>n, <1>1, SameCounts
<1>8. CASE InOrder(e, p)
  <2>a. PICK ack : ack = run[Len(run)].seq
    OBVIOUS
  <2>l. PICK later : later = {y \in end[e].outOfOrder : \A i \in 2..Len(run) : y.seq # run[i].seq}
    OBVIOUS
  <2>r. PICK r : r = [me EXCEPT !.ackNr = ack, !.outOfOrder = later]
    OBVIOUS
  <2>o. PICK out : out = {AckOf(e, ack, received[e] \o Payloads(run))}
    OBVIOUS
  <2>1. /\ end' = [end EXCEPT ![e] = r] /\ received' = [received EXCEPT ![e] = @ \o Payloads(run)]
        /\ net' = Handled(p, out)
    <3>1. /\ end' = [end EXCEPT ![e] = [me EXCEPT !.ackNr = run[Len(run)].seq,
                        !.outOfOrder = {y \in @ : \A i \in 2..Len(run) : y.seq # run[i].seq}]]
          /\ received' = [received EXCEPT ![e] = @ \o Payloads(run)]
          /\ net' = Handled(p, {AckOf(e, run[Len(run)].seq, received[e] \o Payloads(run))})
      <4> DEFINE x0 == [seq |-> p.seq, chunk |-> p.chunk]
                 run0 == <<x0>> \o FollowUps(e, p.seq)
                 me0 == [end[e] EXCEPT !.sendQueue = Acked(e, p), !.finReceived = @ \/ p.type = "FIN"]
      <4>1. x = x0 /\ run = run0 /\ me = me0
        BY <1>x, <1>u, <1>i, Zenon
      <4>2. /\ end' = [end EXCEPT ![e] = [me0 EXCEPT !.ackNr = run0[Len(run0)].seq,
                          !.outOfOrder = {y \in @ : \A i \in 2..Len(run0) : y.seq # run0[i].seq}]]
            /\ received' = [received EXCEPT ![e] = @ \o Payloads(run0)]
            /\ net' = Handled(p, {AckOf(e, run0[Len(run0)].seq, received[e] \o Payloads(run0))})
        BY <1>8, Zenon DEF OnData
      <4> HIDE DEF x0, run0, me0
      <4> QED
        BY <4>1, <4>2, Zenon
    <3>2. me.outOfOrder = end[e].outOfOrder
      BY <1>5
    <3> QED
      BY <2>a, <2>l, <2>r, <2>o, <3>1, <3>2, Zenon
  <2>2. PICK N \in 1..(L(Peer(e)) + 1 - G(e)) : RunOf(run, N, e)
    BY <1>x, <1>u, <1>1, <1>8, RunIs
  <2>3. PICK m \in G(e)..L(Peer(e)) :
          /\ received[e] \o Payloads(run) = Counting(0, m)
          /\ ack = Num(Peer(e), m) \/ (ack = Num(Peer(e), m + 1) /\ L(Peer(e)) = m /\ Gone(Peer(e)))
    BY <2>a, <2>2, RunBrings
  <2>4. ack \in Numbers
    <3>1. N \in DOMAIN run /\ Len(run) = N /\ run \in Seq(EarlySet)
      BY <1>6, <2>2 DEF RunOf
    <3>2. run[N] \in EarlySet
      BY <3>1
    <3> QED
      BY <2>a, <3>1, <3>2 DEF EarlySet
  <2>5. later \subseteq end[e].outOfOrder /\ later \in SUBSET EarlySet
    BY <1>2, <2>l DEF Streams, EarlySet
  <2>6. /\ r \in Streams /\ r.state = end[e].state /\ r.seqNr = end[e].seqNr /\ r.ackNr = ack /\ r.syn = end[e].syn
        /\ r.sendQueue = Acked(e, p) /\ r.outOfOrder \subseteq end[e].outOfOrder
    BY <1>5, <2>r, <2>4, <2>5 DEF Streams, EarlySet
  <2>7. IsFiniteSet(r.outOfOrder)
    BY <1>2, <2>6, FS_Subset
  <2>8. m \in Nat /\ Counting(0, m) \in Seq(Nat)
    <3>1. m \in Nat
      BY <1>6
    <3> QED
      BY <3>1, CountingAppend
  <2>9. \A a \in out : a \in Packets /\ a.to = Peer(e) /\ a.type = "STATE" /\ a.ack = ack
    BY <1>2, <2>o, <2>3, <2>4, <2>8, AckOfType
  <2>10. net' \subseteq net \cup out /\ net' \subseteq Packets
    BY <1>2, <2>1, <2>9 DEF Handled
  <2>11. received' = [received EXCEPT ![e] = Counting(0, m)]
    BY <2>1, <2>3
  <2>12. Frame(e, r, n, m)
    BY <1>2, <1>3, <1>7, <2>1, <2>6, <2>7, <2>10, <2>11 DEF Frame
  <2>13. AckIs(e, ack)'
    <3>1. /\ G(e)' = m /\ L(Peer(e))' = L(Peer(e)) /\ Base(Peer(e))' = Base(Peer(e)) /\ (Gone(Peer(e))' <=> Gone(Peer(e)))
      BY <2>12, FrameKeeps
    <3> QED
      BY <2>3, <3>1 DEF AckIs, Num
  <2>14. AckIs(e, r.ackNr)'
    BY <2>6, <2>13
  <2> QED
    BY <1>n, <1>1, <2>6, <2>9, <2>10, <2>12, <2>14, DataStep
<1>9. ASSUME NEW r, NEW out, ~InOrder(e, p), end' = [end EXCEPT ![e] = r], received' = received, net' = Handled(p, out),
             r \in Streams, r.state = end[e].state, r.seqNr = end[e].seqNr, r.ackNr = end[e].ackNr, r.syn = end[e].syn,
             r.sendQueue = Acked(e, p), r.outOfOrder \subseteq end[e].outOfOrder \cup {x}, IsFiniteSet(r.outOfOrder),
             out \subseteq {AckOf(e, end[e].ackNr, received[e])}
      PROVE  IndInv'
  <2>m. PICK m : m = G(e)
    OBVIOUS
  <2>1. end[e].ackNr \in Numbers /\ received[e] \in Seq(Nat)
    BY <1>2 DEF Streams, TypeOK
  <2>2. \A a \in out : a \in Packets /\ a.to = Peer(e) /\ a.type = "STATE" /\ a.ack = r.ackNr
    BY <1>2, <1>9, <2>1, AckOfType
  <2>3. net' \subseteq net \cup out /\ net' \subseteq Packets
    BY <1>2, <1>9, <2>2 DEF Handled
  <2>4. Frame(e, r, n, m)
    BY <1>2, <1>3, <1>7, <1>9, <2>m, <2>3 DEF Frame
  <2>5. \A y \in r.outOfOrder : y \in end[e].outOfOrder \/ Sound(Peer(e), y.seq, y.chunk)
    BY <1>x, <1>2, <1>9
  <2>6. AckIs(e, r.ackNr)'
    <3>1. AckIs(e, r.ackNr)
      BY <1>1, <1>9, LiveEnd
    <3> QED
      BY <2>m, <2>4, <3>1, FrameAck
  <2> QED
    BY <1>n, <1>1, <1>9, <2>2, <2>3, <2>4, <2>5, <2>6, DataStep
<1>10. CASE ~InOrder(e, p) /\ Ahead(e, p)
  <2>r. PICK r : r = [me EXCEPT !.outOfOrder = {y \in @ : y.seq # p.seq} \cup {x}]
    OBVIOUS
  <2>o. PICK out : out = {AckOf(e, end[e].ackNr, received[e])}
    OBVIOUS
  <2>1. end' = [end EXCEPT ![e] = r] /\ received' = received /\ net' = Handled(p, out)
    BY <1>x, <1>i, <1>5, <2>r, <2>o, <1>10 DEF OnData
  <2>2. /\ {y \in end[e].outOfOrder : y.seq # p.seq} \cup {x} \in SUBSET EarlySet
        /\ IsFiniteSet({y \in end[e].outOfOrder : y.seq # p.seq} \cup {x})
    <3>1. IsFiniteSet({y \in end[e].outOfOrder : y.seq # p.seq})
      BY <1>2, FS_Subset
    <3>2. IsFiniteSet({y \in end[e].outOfOrder : y.seq # p.seq} \cup {x})
      BY <3>1, FS_AddElement
    <3> QED
      BY <1>2, <3>2 DEF Streams, EarlySet
  <2>3. /\ r \in Streams /\ r.state = end[e].state /\ r.seqNr = end[e].seqNr /\ r.ackNr = end[e].ackNr /\ r.syn = end[e].syn
        /\ r.sendQueue = Acked(e, p) /\ r.outOfOrder = {y \in end[e].outOfOrder : y.seq # p.seq} \cup {x}
    BY <1>5, <2>r, <2>2 DEF Streams, EarlySet
  <2>4. r.outOfOrder \subseteq end[e].outOfOrder \cup {x} /\ IsFiniteSet(r.outOfOrder)
    BY <2>2, <2>3
  <2> QED
    BY <1>9, <1>10, <2>o, <2>1, <2>3, <2>4
<1>11. CASE ~InOrder(e, p) /\ ~Ahead(e, p)
  <2>o. PICK out : out = IF p.chunk > 0 THEN {AckOf(e, end[e].ackNr, received[e])} ELSE {}
    OBVIOUS
  <2>1. end' = [end EXCEPT ![e] = me] /\ received' = received /\ net' = Handled(p, out)
    BY <1>i, <1>5, <2>o, <1>11 DEF OnData
  <2>2. out \subseteq {AckOf(e, end[e].ackNr, received[e])}
    BY <2>o
  <2> QED
    BY <1>2, <1>5, <1>9, <1>11, <2>1, <2>2
<1> QED
  BY <1>8, <1>10, <1>11

--------------------------------------------------------------------------------
(* The theorems. *)

\* Stuttering keeps the invariant.
LEMMA StutterKeeps == IndInv /\ UNCHANGED vars => IndInv'
<1> SUFFICES ASSUME IndInv, UNCHANGED vars PROVE IndInv'
  OBVIOUS
<1>1. UNCHANGED <<end, sent, received>> /\ heard' = heard /\ net' = net
  BY DEF vars
<1>2. heard' \in [Ends -> Nat] /\ net' \subseteq Packets
  BY <1>1 DEF IndInv, TypeOK
<1>3. /\ TypeOK' /\ \A e \in Ends : Within(e)' /\ EndSound(e)'
      /\ \A p \in net : Tells(p)'
  BY <1>1, <1>2, NetStep
<1>4. Handshakes' /\ OneSyn'
  BY <1>1 DEF IndInv, Handshakes, OneSyn, New
<1> QED
  BY <1>1, <1>3, <1>4 DEF IndInv

\* Every step of an orderly use keeps the invariant.
LEMMA NextIndInv == Orderly /\ IndInv /\ [Next]_vars => IndInv'
<1> SUFFICES ASSUME Orderly, IndInv, [Next]_vars PROVE IndInv'
  OBVIOUS
<1>1. CASE \E syn \in SynSeqs : Connect(syn)
  BY <1>1, ConnectKeeps
<1>2. CASE SynAgain
  BY <1>2, SynAgainKeeps
<1>3. ASSUME NEW p \in net, Lose(p) \/ OnSyn(p) \/ OnSynAck(p) \/ OnState(p.to, p) \/ OnData(p.to, p)
      PROVE  IndInv'
  <2>e. PICK e : e = p.to
    OBVIOUS
  <2>1. e \in Ends /\ Arrives(p, e)
    BY <2>e, ArrivesIs
  <2>2. CASE Lose(p)
    BY <2>2, LoseKeeps
  <2>3. CASE OnSyn(p)
    BY <2>3, OnSynKeeps
  <2>4. CASE OnSynAck(p)
    BY <2>4, OnSynAckKeeps
  <2>5. CASE OnState(p.to, p)
    <3>1. OnState(e, p)
      BY <2>e, <2>5
    <3> QED
      BY <2>1, <3>1, OnStateKeeps
  <2>6. CASE OnData(p.to, p)
    <3>1. OnData(e, p)
      BY <2>e, <2>6
    <3> QED
      BY <2>1, <3>1, OnDataKeeps
  <2> QED
    BY <1>3, <2>2, <2>3, <2>4, <2>5, <2>6
<1>4. ASSUME NEW e \in Ends, Send(e) \/ Retransmits(e) \/ Close(e) \/ AbortStream(e)
      PROVE  IndInv'
  <2>1. CASE Send(e)
    BY <2>1, SendKeeps
  <2>2. CASE Retransmits(e)
    BY <2>2, RetransmitKeeps DEF Retransmits
  <2>3. CASE Close(e)
    BY <2>3, CloseKeeps
  <2>4. CASE AbortStream(e)
    BY <2>4, AbortKeeps
  <2> QED
    BY <1>4, <2>1, <2>2, <2>3, <2>4
<1>5. CASE UNCHANGED vars
  BY <1>5, StutterKeeps
<1> QED
  BY <1>1, <1>2, <1>3, <1>4, <1>5 DEF Next

\* For every modulus, every initial number and every network that loses, reorders
\* and repeats: ackPackets() drops a packet of data only when the peer has it, as
\* long as each end sends fewer packets than half the sequence space has numbers
\* (UtpAssumption), so that no datagram is so late that its number means another.
THEOREM OnlyReceivedPacketsLeave ==
    ASSUME Orderly
    PROVE  Spec => []OnlyReceivedLeave
<1>1. IndInv => OnlyReceivedLeave
  BY DEF IndInv, EndSound, Leaves, OnlyReceivedLeave
<1>2. IndInv /\ [Next]_vars => IndInv'
  BY NextIndInv
<1> QED
  BY InitIndInv, <1>1, <1>2, PTL DEF Spec

\* What a step does to the stream from e to its peer.
StreamStep(e) ==
    \/ sent'[e] = sent[e] /\ received'[Peer(e)] = received[Peer(e)]
    \/ L(e)' = L(e) + 1 /\ received'[Peer(e)] = received[Peer(e)]
    \/ sent'[e] = sent[e] /\ G(Peer(e))' > G(Peer(e))

\* DATA delivers the next bytes of the sender, or nothing.
LEMMA OnDataStream ==
    ASSUME IndInv, IndInv', NEW e \in Ends, NEW p, Arrives(p, e), OnData(e, p), NEW d \in Ends
    PROVE  StreamStep(d)
<1>1. sent' = sent /\ Live(e) /\ p.type \in {"DATA", "FIN"} /\ TypeOK /\ received \in [Ends -> Seq(Nat)]
  BY DEF OnData, IndInv, TypeOK
<1>2. CASE ~InOrder(e, p)
  <2>1. received' = received
    BY <1>2 DEF OnData
  <2> QED
    BY <1>1, <2>1 DEF StreamStep
<1>3. CASE InOrder(e, p)
  <2> DEFINE run == <<[seq |-> p.seq, chunk |-> p.chunk]>> \o FollowUps(e, p.seq)
  <2>1. received' = [received EXCEPT ![e] = @ \o Payloads(run)]
    BY <1>3, Zenon DEF OnData
  <2>2. PICK N \in 1..(L(Peer(e)) + 1 - G(e)) : RunOf(run, N, e)
    BY <1>1, <1>3, RunIs
  <2> HIDE DEF run
  <2>3. PICK m \in G(e)..L(Peer(e)) : received[e] \o Payloads(run) = Counting(0, m)
    BY <2>2, RunBrings
  <2>4. G(e) \in Nat /\ m \in Nat /\ m >= G(e)
    <3>1. G(e) \in Nat /\ L(Peer(e)) \in Nat
      BY <1>1, EndsAre, Lengths
    <3> QED
      BY <3>1
  <2>5. received'[e] = Counting(0, m) /\ G(e)' = m
    <3>1. received'[e] = Counting(0, m)
      BY <1>1, <2>1, <2>3
    <3> QED
      BY <2>4, <3>1, CountingAppend DEF G
  <2>6. received[e] = Counting(0, G(e))
    BY DEF IndInv, EndSound, Counts
  <2>7. CASE Peer(d) = e
    <3>1. m = G(e) => received'[e] = received[e]
      BY <2>5, <2>6
    <3>2. m # G(e) => m > G(e)
      BY <2>4
    <3> QED
      BY <1>1, <2>5, <2>7, <3>1, <3>2 DEF StreamStep
  <2>8. CASE Peer(d) # e
    <3>1. received'[Peer(d)] = received[Peer(d)]
      BY <1>1, <2>1, <2>8, EndsAre
    <3> QED
      BY <1>1, <3>1 DEF StreamStep
  <2> QED
    BY <2>7, <2>8
<1> QED
  BY <1>2, <1>3

\* send() extends the stream.
LEMMA SendStream ==
    ASSUME IndInv, IndInv', NEW e \in Ends, Send(e), NEW d \in Ends
    PROVE  StreamStep(d)
<1>1. /\ sent' = [sent EXCEPT ![e] = Append(@, Len(sent[e]) + 1)] /\ received' = received
      /\ sent \in [Ends -> Seq(Nat)]
  BY DEF Send, IndInv, TypeOK
<1>2. CASE d = e
  <2>1. sent'[e] = Append(sent[e], Len(sent[e]) + 1) /\ sent[e] \in Seq(Nat)
    BY <1>1
  <2>2. Len(sent[e]) \in Nat /\ Len(Append(sent[e], Len(sent[e]) + 1)) = Len(sent[e]) + 1
    BY <2>1
  <2>3. L(e)' = L(e) + 1
    BY <2>1, <2>2 DEF L
  <2> QED
    BY <1>1, <1>2, <2>3 DEF StreamStep
<1>3. CASE d # e
  BY <1>1, <1>3 DEF StreamStep
<1> QED
  BY <1>2, <1>3

\* Every step is one of ByteStream in each direction, or leaves it alone.
LEMMA NextStream ==
    ASSUME IndInv, IndInv', [Next]_vars, NEW d \in Ends
    PROVE  StreamStep(d)
<1>1. CASE sent' = sent /\ received' = received
  BY <1>1 DEF StreamStep
<1>2. ASSUME NEW p \in net, OnData(p.to, p) PROVE StreamStep(d)
  <2>e. PICK e : e = p.to
    OBVIOUS
  <2>1. e \in Ends /\ Arrives(p, e) /\ OnData(e, p)
    BY <1>2, <2>e, ArrivesIs
  <2> QED
    BY <2>1, OnDataStream
<1>3. ASSUME NEW e \in Ends, Send(e) PROVE StreamStep(d)
  BY <1>3, SendStream
<1>4. ASSUME NEW p \in net, Lose(p) \/ OnSyn(p) \/ OnSynAck(p) \/ OnState(p.to, p)
      PROVE  sent' = sent /\ received' = received
  BY <1>4 DEF Lose, OnSyn, OnSynAck, OnState
<1>5. ASSUME NEW e \in Ends, Retransmits(e) \/ Close(e) \/ AbortStream(e)
      PROVE  sent' = sent /\ received' = received
  BY <1>5 DEF Retransmits, Retransmit, Close, AbortStream
<1>6. ASSUME SynAgain \/ (\E syn \in SynSeqs : Connect(syn)) \/ UNCHANGED vars
      PROVE  sent' = sent /\ received' = received
  BY <1>6 DEF SynAgain, Connect, vars
<1> QED
  BY <1>1, <1>2, <1>3, <1>4, <1>5, <1>6 DEF Next

\* Such a step is one of the reliable stream.
LEMMA StreamRefines ==
    ASSUME IndInv, IndInv', NEW e \in Ends, NEW d \in Ends, d = Peer(e), StreamStep(e)
    PROVE  \/ /\ Len(sent'[e]) = Len(sent[e]) + 1 /\ SubSeq(sent'[e], 1, Len(sent[e])) = sent[e]
              /\ received'[d] = received[d]
           \/ /\ \E n \in (Len(received[d]) + 1)..Len(sent[e]) : received'[d] = SubSeq(sent[e], 1, n)
              /\ sent'[e] = sent[e]
           \/ sent'[e] = sent[e] /\ received'[d] = received[d]
<1>1. /\ sent[e] = Counting(0, L(e)) /\ sent'[e] = Counting(0, L(e)') /\ received'[d] = Counting(0, G(d)')
  BY DEF IndInv, EndSound, Counts
<1>2. L(e) \in Nat /\ L(e)' \in Nat /\ G(d) \in Nat /\ G(d)' \in Nat /\ G(d)' <= L(e)'
  <2>1. Peer(d) = e
    BY EndsAre
  <2> QED
    BY <2>1 DEF IndInv, TypeOK, L, G, Within
<1>3. CASE L(e)' = L(e) + 1 /\ received'[Peer(e)] = received[Peer(e)]
  <2>1. SubSeq(Counting(0, L(e)'), 1, L(e)) = Counting(0, L(e))
    BY <1>2, <1>3, CountingPart
  <2> QED
    BY <1>1, <1>3, <2>1 DEF L
<1>4. CASE sent'[e] = sent[e] /\ G(Peer(e))' > G(Peer(e))
  <2>1. L(e)' = L(e)
    BY <1>4 DEF L
  <2>2. G(d)' \in (G(d) + 1)..L(e) /\ G(d)' <= L(e)
    BY <1>2, <1>4, <2>1
  <2>3. SubSeq(Counting(0, L(e)), 1, G(d)') = Counting(0, G(d)')
    BY <1>2, <2>2, CountingPart
  <2>4. received'[d] = SubSeq(sent[e], 1, G(d)')
    BY <1>1, <2>3
  <2> QED
    BY <1>4, <2>2, <2>4 DEF L, G
<1> QED
  BY <1>3, <1>4 DEF StreamStep

\* For every modulus, every initial number and every network that loses, reorders
\* and repeats, each direction of a UtpStream implements the reliable stream:
\* what arrives is what was sent, in order, once.  The bound is the same.
THEOREM StreamIsReliable ==
    ASSUME Orderly
    PROVE  Spec => ReliableStream
<1>1. Init => Up!Init /\ Down!Init
  BY DEF Init, Up!Init, Down!Init, Ends
<1>2. IndInv /\ IndInv' /\ [Next]_vars => [Up!Next]_<<sent["c"], received["s"]>>
  <2> SUFFICES ASSUME IndInv, IndInv', [Next]_vars PROVE [Up!Next]_<<sent["c"], received["s"]>>
    OBVIOUS
  <2>1. "c" \in Ends /\ "s" \in Ends /\ "s" = Peer("c")
    BY DEF Ends, Peer
  <2>2. StreamStep("c")
    BY <2>1, NextStream
  <2>3. \/ /\ Len(sent'["c"]) = Len(sent["c"]) + 1 /\ SubSeq(sent'["c"], 1, Len(sent["c"])) = sent["c"]
           /\ received'["s"] = received["s"]
        \/ /\ \E n \in (Len(received["s"]) + 1)..Len(sent["c"]) : received'["s"] = SubSeq(sent["c"], 1, n)
           /\ sent'["c"] = sent["c"]
        \/ sent'["c"] = sent["c"] /\ received'["s"] = received["s"]
    BY <2>1, <2>2, StreamRefines
  <2> QED
    BY <2>3 DEF Up!Next, Up!Send, Up!Receive
<1>3. IndInv /\ IndInv' /\ [Next]_vars => [Down!Next]_<<sent["s"], received["c"]>>
  <2> SUFFICES ASSUME IndInv, IndInv', [Next]_vars PROVE [Down!Next]_<<sent["s"], received["c"]>>
    OBVIOUS
  <2>1. "c" \in Ends /\ "s" \in Ends /\ "c" = Peer("s")
    BY DEF Ends, Peer
  <2>2. StreamStep("s")
    BY <2>1, NextStream
  <2>3. \/ /\ Len(sent'["s"]) = Len(sent["s"]) + 1 /\ SubSeq(sent'["s"], 1, Len(sent["s"])) = sent["s"]
           /\ received'["c"] = received["c"]
        \/ /\ \E n \in (Len(received["c"]) + 1)..Len(sent["s"]) : received'["c"] = SubSeq(sent["s"], 1, n)
           /\ sent'["s"] = sent["s"]
        \/ sent'["s"] = sent["s"] /\ received'["c"] = received["c"]
    BY <2>1, <2>2, StreamRefines
  <2> QED
    BY <2>3 DEF Down!Next, Down!Send, Down!Receive
<1>4. IndInv /\ [Next]_vars => IndInv'
  BY NextIndInv
<1> QED
  BY InitIndInv, <1>1, <1>2, <1>3, <1>4, PTL DEF Spec, ReliableStream, Up!Spec, Down!Spec
================================================================================
