--------------------------- MODULE MultiStreamProofs ---------------------------
(***************************************************************************)
(* Proofs about MultiStream, for any number of writers and readers at both *)
(* ends, any packets and capacities.                                       *)
(***************************************************************************)
EXTENDS MultiStream, FiniteSetTheorems, SequenceTheorems, WellFoundedInduction, TLAPS

\* The frames that can be in each queue.
Commands(e) ==
    {f \in Frames : /\ f.type \in {IF e = "a" THEN "MAKE" ELSE "MADE", "WINDOW", "RESET"}
                    /\ f.by = "nobody" /\ (f.type = "RESET" => f.arg # 0)}
Packed(e) == {f \in Frames : f.type = "DATA" /\ f.arg # 0 /\ (f.by \in Writers => EndOf[f.by] = e)}
FramesTell ==
    \A e \in Ends :
        /\ cmd[e] \in Seq(Commands(e))
        /\ slave[e].sendQ \in Seq(Packed(e) \cup {Barrier})
        /\ tx[e].todo \in Seq(Commands(e) \cup Packed(e) \cup {Barrier})
        /\ tx[e].all \in Seq(Commands(e) \cup Packed(e) \cup {Barrier})
        /\ wire[e] \in Seq(Commands(e) \cup Packed(e) \cup {RESET(0)})
        /\ slave[Peer(e)].recvQ \in Seq(Packed(e) \cup {Pill})

\* A packet that waits has a size; one that was refused a slave that has ended.
WritersTell ==
    \A w \in Writers :
        /\ writer[w].at # "idle" => writer[w].size # 0
        /\ writer[w].done = "false" => Ended(slave[EndOf[w]])

\* Nothing comes from an end whose slave is not there yet.
SilentBefore ==
    /\ \A e \in Ends : slave[e].is = "none" =>
          /\ slave[e] = NoSlave /\ cmd[e] = <<>> /\ tx[e] = Idle /\ wire[e] = <<>>
          /\ queued[e] = <<>> /\ got[e] = <<>> /\ closer[e].at = "idle"
          /\ \A w \in Writers : EndOf[w] = e => writer[w].at = "idle" /\ writer[w].done = "unset"
    /\ slave["a"].is = "none" => slave["b"].is = "none"
    /\ \A e \in Ends : tx[e].todo = <<>> => tx[e] = Idle

\* A frame of this type is on its way from e ...
Has(q, type) == \E i \in DOMAIN q : q[i].type = type
Comes(e, type) == Has(wire[e], type) \/ Has(tx[e].todo, type) \/ Has(cmd[e], type)

\* ... and nothing is before it.
OnlyFirst(q, type) == \A i \in DOMAIN q : q[i].type = type => i = 1
IsFirst(e, type) ==
    /\ OnlyFirst(wire[e], type) /\ OnlyFirst(tx[e].todo, type) /\ OnlyFirst(cmd[e], type)
    /\ Has(tx[e].todo, type) \/ Has(cmd[e], type) => wire[e] = <<>>
    /\ Has(cmd[e], type) => tx[e].todo = <<>>

\* MAKE and MADE are the first frame of their end.
GreetingsFirst ==
    /\ IsFirst("a", "MAKE") /\ IsFirst("b", "MADE")
    /\ Comes("a", "MAKE") => slave["b"].is = "none"
    /\ slave["b"].is = "none" /\ Open(slave["a"]) => Comes("a", "MAKE")

\* Until MADE arrives a has no credit and has queued nothing.
NothingBeforeMade ==
    slave["b"].is = "none" \/ Comes("b", "MADE") =>
        /\ slave["a"].credit = 0 /\ queued["a"] = <<>> /\ got["b"] = <<>>
        /\ ~Has(slave["a"].sendQ, "DATA") /\ ~Has(tx["a"].todo, "DATA") /\ ~Has(wire["a"], "DATA")
        /\ ~Has(slave["b"].recvQ, "DATA")
        /\ \A w \in Writers : EndOf[w] = "a" => writer[w].at \in {"idle", "credit"}

\* Until MAKE arrives nothing has come to a.
NothingBeforeMake ==
    slave["b"].is = "none" =>
        /\ got["a"] = <<>> /\ slave["a"].is # "normal"
        /\ ~Has(slave["a"].recvQ, "DATA")
        /\ Open(slave["a"]) => slave["a"].recvQ = <<>> /\ slave["a"].pending = 0

Inv ==
    /\ TypeOK /\ FramesTell /\ WritersTell /\ SilentBefore
    /\ GreetingsFirst /\ NothingBeforeMade /\ NothingBeforeMake

\* Until MAKE arrives the credit for b is in the frames of a.
CreditBeforeMake ==
    slave["b"].is = "none" /\ Open(slave["a"]) =>
        Grants(cmd["a"]) + Grants(tx["a"].todo) + Grants(wire["a"]) = slave["a"].cap

\* What e may still send and has in its queues, and what it has received and owes for it.
Claimed(e) == Cardinality(BytesOf(Blocked(e)))
Out(e) == slave[e].credit + Claimed(e) + Data(slave[e].sendQ) + Data(tx[e].todo)
In(e) == Size(slave[e].recvQ) + slave[e].pending + Grants(cmd[e]) + Grants(tx[e].todo)

\* What is on its way to an open slave, or there, has room, also when its sender has ended.
RoomForAll ==
    \A e \in Ends : Open(slave[Peer(e)]) =>
        Data(tx[e].todo) + Data(wire[e]) + In(Peer(e)) + Grants(wire[Peer(e)]) <= slave[Peer(e)].cap

\* CreditConserved, in terms of what each end has.
Conserved ==
    \A e \in Ends : Open(slave[e]) /\ Open(slave[Peer(e)]) =>
        Out(e) + Data(wire[e]) + In(Peer(e)) + Grants(wire[Peer(e)]) = slave[Peer(e)].cap

FinitelyBlocked == \A e \in Ends : IsFiniteSet(BytesOf(Blocked(e)))
CreditInv == FinitelyBlocked /\ CreditBeforeMake /\ Conserved /\ RoomForAll

\* What is in front of the barrier of a queue: doSend() still sends it.
Ahead(q, h, r) == q = h \o r /\ ~Has(h, "BARRIER") /\ (r # <<>> => Head(r).type = "BARRIER")

\* close() leaves a mark behind the packets it found: the barrier, then a RESET.
IsMark(f) == f.type = "BARRIER" \/ (f.type = "RESET" /\ f.arg = 0)
Marked(q) == \E i \in DOMAIN q : IsMark(q[i])
NoDataBehindMark(q) == \A i, j \in DOMAIN q : i < j /\ IsMark(q[i]) => q[j].type # "DATA"

\* One direction, whose receiver has a: w is on the connection, t in doSend(), s in the
\* queue of the sender and k was queued.  Nothing is skipped, and nothing is behind the mark.
Complete(is, a, w, t, s, k) ==
    /\ is = "open" => \E h, r \in Seq(Frames) : Ahead(s, h, r) /\ (a \o Packets(w) \o Packets(t)) \o Packets(h) = k
    /\ Marked(w) \/ Marked(t) => is # "open" /\ a \o Packets(w) \o Packets(t) = k
    /\ NoDataBehindMark(w) /\ NoDataBehindMark(t)
    /\ Marked(w) => ~Has(t, "DATA")

Arrived(e) == got[e] \o Packets(slave[e].recvQ)
Awaits(s) == s.is \in {"none", "open"}
Line(e) == Complete(slave[e].is, Arrived(Peer(e)), wire[e], tx[e].todo, slave[e].sendQ, queued[e])

NothingSkipped == \A e \in Ends : Awaits(slave[Peer(e)]) => Line(e)
ClosedForGood ==
    \A e \in Ends : slave[e].is = "normal" => Ended(slave[Peer(e)]) /\ Arrived(e) = queued[Peer(e)]

CloseInv == NothingSkipped /\ ClosedForGood
--------------------------------------------------------------------------------
(* Induction, and what the sums and the lists of packets are. *)

\* Induction up to N, as a fact about sets.
LEMMA UpTo ==
    ASSUME NEW N \in Nat, NEW S, 0 \in S, \A n \in 0..N : n # N /\ n \in S => n + 1 \in S
    PROVE  \A n \in 0..N : n \in S
<1> DEFINE T == {n \in 0..N : n \notin S}
           R == {ss \in Nat \X Nat : ss[1] < ss[2]}
<1>1. SUFFICES ASSUME T # {} PROVE FALSE
  OBVIOUS
<1>2. R = OpToRel(<, Nat)
  BY DEF OpToRel
<1>3. IsWellFoundedOn(R, Nat)
  BY <1>2, NatLessThanWellFounded
<1>4. T \subseteq Nat
  OBVIOUS
<1>5. PICK m \in T : \A n \in T : ~(<<n, m>> \in R)
  <2> HIDE DEF R, T
  <2> QED
    BY <1>1, <1>3, <1>4, WFMin
<1>6. m \in 0..N /\ m \notin S /\ m # 0
  OBVIOUS
<1>7. m - 1 \in 0..N /\ m - 1 # N /\ m - 1 + 1 = m /\ <<m - 1, m>> \in R
  BY <1>6
<1>8. m - 1 \in S
  BY <1>5, <1>7
<1> QED
  BY <1>6, <1>7, <1>8

\* A loop over N elements that starts with z and goes on by F is well defined.
HasLoop(A, z, N, F) ==
    \E g \in [0..N -> A] : g[0] = z /\ \A i \in 1..N : g[i] = F[<<i, g[i - 1]>>]
LEMMA LoopExists ==
    ASSUME NEW A, NEW z \in A, NEW N \in Nat, NEW F \in [(1..N) \X A -> A]
    PROVE  HasLoop(A, z, N, F)
<1> DEFINE Good(n) == \E g \in [0..n -> A] : g[0] = z /\ \A i \in 1..n : g[i] = F[<<i, g[i - 1]>>]
           S == {n \in 0..N : Good(n)}
<1>1. Good(0)
  <2>1. [i \in 0..0 |-> z] \in [0..0 -> A] /\ [i \in 0..0 |-> z][0] = z
    OBVIOUS
  <2>2. \A i \in 1..0 : FALSE
    OBVIOUS
  <2> QED
    BY <2>1, <2>2, Zenon
<1>2. ASSUME NEW n \in 0..N, n # N, Good(n) PROVE Good(n + 1)
  <2>1. PICK g \in [0..n -> A] : g[0] = z /\ \A i \in 1..n : g[i] = F[<<i, g[i - 1]>>]
    BY <1>2
  <2> DEFINE h == [i \in 0..(n + 1) |-> IF i = n + 1 THEN F[<<n + 1, g[n]>>] ELSE g[i]]
  <2>2. n + 1 \in 1..N /\ g[n] \in A /\ n \in Nat
    BY <1>2
  <2>3. F[<<n + 1, g[n]>>] \in A
    BY <2>2
  <2>4. h \in [0..(n + 1) -> A] /\ h[0] = z
    BY <2>1, <2>2, <2>3
  <2>5. ASSUME NEW i \in 1..(n + 1) PROVE h[i] = F[<<i, h[i - 1]>>]
    <3>1. i - 1 \in 0..n /\ i - 1 \in 0..(n + 1) /\ i \in 0..(n + 1) /\ i - 1 # n + 1
      BY <2>2
    <3>2. h[i - 1] = g[i - 1]
      BY <3>1
    <3>3. CASE i = n + 1
      <4>1. h[i] = F[<<n + 1, g[n]>>] /\ i - 1 = n
        BY <3>1, <3>3, <2>2
      <4> QED
        BY <4>1, <3>2, <3>3
    <3>4. CASE i # n + 1
      <4>1. h[i] = g[i] /\ i \in 1..n
        BY <3>1, <3>4, <2>2
      <4> QED
        BY <4>1, <3>2, <2>1
    <3> QED
      BY <3>3, <3>4
  <2> HIDE DEF h
  <2> QED
    BY <2>4, <2>5, Zenon
<1>3. 0 \in S /\ \A n \in 0..N : n # N /\ n \in S => n + 1 \in S
  <2>1. 0 \in 0..N /\ \A n \in 0..N : n # N => n + 1 \in 0..N
    OBVIOUS
  <2> HIDE DEF Good
  <2> QED
    BY <1>1, <1>2, <2>1
<1>4. N \in S
  <2> HIDE DEF S
  <2>1. \A n \in 0..N : n \in S
    BY <1>3, UpTo
  <2> QED
    BY <2>1
<1> QED
  BY <1>4 DEF HasLoop

Value(f, types) == IF f.type \in types THEN f.arg ELSE 0

LEMMA ValueIsNat ==
    ASSUME NEW q \in Seq(Frames), NEW i \in 1..Len(q), NEW types
    PROVE  q[i] \in Frames /\ Value(q[i], types) \in Nat
<1>1. q[i] \in Frames
  OBVIOUS
<1>2. q[i].arg \in Nat
  BY <1>1 DEF Frames
<1> QED
  BY <1>1, <1>2 DEF Value

\* Bytes() is what its loop has after the last frame.
LEMMA BytesLoop ==
    ASSUME NEW q \in Seq(Frames), NEW types
    PROVE  \E g \in [0..Len(q) -> Nat] :
              /\ g[0] = 0 /\ Bytes(q, types) = g[Len(q)]
              /\ \A i \in 1..Len(q) : g[i] = g[i - 1] + Value(q[i], types)
<1> DEFINE N == Len(q)
           F == [x \in (1..N) \X Nat |-> x[2] + Value(q[x[1]], types)]
           upTo[i \in 0..N] == IF i = 0 THEN 0 ELSE upTo[i - 1] + IF q[i].type \in types THEN q[i].arg ELSE 0
<1>1. \A i \in 1..N : Value(q[i], types) \in Nat
  BY ValueIsNat
<1>2. N \in Nat /\ F \in [(1..N) \X Nat -> Nat]
  BY <1>1
<1>3. PICK g \in [0..N -> Nat] : g[0] = 0 /\ \A i \in 1..N : g[i] = F[<<i, g[i - 1]>>]
  <2> HIDE DEF F, N
  <2>1. 0 \in Nat
    OBVIOUS
  <2>2. HasLoop(Nat, 0, N, F)
    BY <1>2, <2>1, LoopExists
  <2> QED
    BY <2>2 DEF HasLoop
<1>4. \A i \in 1..N : g[i] = g[i - 1] + Value(q[i], types)
  <2> SUFFICES ASSUME NEW i \in 1..N PROVE g[i] = g[i - 1] + Value(q[i], types)
    OBVIOUS
  <2>1. <<i, g[i - 1]>> \in (1..N) \X Nat
    BY <1>2
  <2>2. F[<<i, g[i - 1]>>] = g[i - 1] + Value(q[i], types)
    BY <2>1
  <2> HIDE DEF F
  <2> QED
    BY <1>3, <2>2
<1>5. g = [i \in 0..N |-> IF i = 0 THEN 0 ELSE g[i - 1] + IF q[i].type \in types THEN q[i].arg ELSE 0]
  BY <1>2, <1>3, <1>4 DEF Value
<1>6. upTo = [i \in 0..N |-> IF i = 0 THEN 0 ELSE upTo[i - 1] + IF q[i].type \in types THEN q[i].arg ELSE 0]
  BY <1>5, Zenon
<1>7. Bytes(q, types) = upTo[N]
  BY DEF Bytes
<1> HIDE DEF upTo, N
<1>8. \A i \in 1..N : upTo[i] = upTo[i - 1] + Value(q[i], types)
  <2> SUFFICES ASSUME NEW i \in 1..N PROVE upTo[i] = upTo[i - 1] + Value(q[i], types)
    OBVIOUS
  <2>1. i \in 0..N /\ i # 0
    BY <1>2
  <2> QED
    BY <1>6, <2>1 DEF Value
<1>9. upTo[0] = 0
  BY <1>2, <1>6
<1> DEFINE S == {i \in 0..N : upTo[i] = g[i]}
<1>10. \A n \in 0..N : n \in S
  <2>1. 0 \in S
    BY <1>2, <1>3, <1>9
  <2>2. \A n \in 0..N : n # N /\ n \in S => n + 1 \in S
    BY <1>2, <1>4, <1>8
  <2> HIDE DEF S
  <2> QED
    BY <1>2, <2>1, <2>2, UpTo
<1>11. upTo[N] = g[N]
  BY <1>2, <1>10
<1> QED
  BY <1>3, <1>4, <1>7, <1>11 DEF N

\* Sums of sequences put together, of one frame and of none.
LEMMA BytesConcat ==
    ASSUME NEW q \in Seq(Frames), NEW r \in Seq(Frames), NEW types
    PROVE  /\ Bytes(q, types) \in Nat /\ Bytes(r, types) \in Nat
           /\ Bytes(q \o r, types) = Bytes(q, types) + Bytes(r, types)
<1> DEFINE s == q \o r
<1>1. /\ s \in Seq(Frames) /\ Len(s) = Len(q) + Len(r) /\ Len(q) \in Nat /\ Len(r) \in Nat
      /\ \A i \in 1..Len(q) : s[i] = q[i]
      /\ \A i \in 1..Len(r) : s[Len(q) + i] = r[i]
  OBVIOUS
<1> HIDE DEF s
<1>2. PICK g \in [0..Len(q) -> Nat] : /\ g[0] = 0 /\ Bytes(q, types) = g[Len(q)]
                                      /\ \A i \in 1..Len(q) : g[i] = g[i - 1] + Value(q[i], types)
  BY BytesLoop
<1>3. PICK h \in [0..Len(r) -> Nat] : /\ h[0] = 0 /\ Bytes(r, types) = h[Len(r)]
                                      /\ \A i \in 1..Len(r) : h[i] = h[i - 1] + Value(r[i], types)
  BY BytesLoop
<1>4. PICK k \in [0..Len(s) -> Nat] : /\ k[0] = 0 /\ Bytes(s, types) = k[Len(s)]
                                      /\ \A i \in 1..Len(s) : k[i] = k[i - 1] + Value(s[i], types)
  BY <1>1, BytesLoop
<1> DEFINE S == {n \in 0..Len(q) : k[n] = g[n]}
           T == {n \in 0..Len(r) : k[Len(q) + n] = g[Len(q)] + h[n]}
<1>5. \A n \in 0..Len(q) : n \in S
  <2>1. 0 \in S
    BY <1>1, <1>2, <1>4
  <2>2. ASSUME NEW n \in 0..Len(q), n # Len(q), n \in S PROVE n + 1 \in S
    <3>1. n + 1 \in 1..Len(q) /\ n + 1 \in 1..Len(s) /\ n + 1 - 1 = n
      BY <1>1, <2>2
    <3>2. k[n + 1] = k[n] + Value(s[n + 1], types) /\ g[n + 1] = g[n] + Value(q[n + 1], types)
      BY <3>1, <1>2, <1>4
    <3> QED
      BY <3>1, <3>2, <2>2, <1>1
  <2> HIDE DEF S
  <2> QED
    BY <1>1, <2>1, <2>2, UpTo
<1>6. \A n \in 0..Len(r) : n \in T
  <2>1. 0 \in T
    <3>1. Len(q) \in S
      BY <1>1, <1>5
    <3> QED
      BY <3>1, <1>1, <1>2, <1>3
  <2>2. ASSUME NEW n \in 0..Len(r), n # Len(r), n \in T PROVE n + 1 \in T
    <3>1. n + 1 \in 1..Len(r) /\ Len(q) + n + 1 \in 1..Len(s) /\ n + 1 - 1 = n /\ Len(q) + n + 1 - 1 = Len(q) + n
      BY <1>1, <2>2
    <3>2. k[Len(q) + n + 1] = k[Len(q) + n] + Value(s[Len(q) + n + 1], types)
      BY <3>1, <1>4
    <3>3. h[n + 1] = h[n] + Value(r[n + 1], types)
      BY <3>1, <1>3
    <3>4. s[Len(q) + n + 1] = r[n + 1] /\ Value(r[n + 1], types) \in Nat
      <4>1. s[Len(q) + (n + 1)] = r[n + 1] /\ Len(q) + (n + 1) = Len(q) + n + 1
        BY <3>1, <1>1
      <4> QED
        BY <4>1, <3>1, ValueIsNat
    <3>5. h[n] \in Nat /\ g[Len(q)] \in Nat /\ k[Len(q) + n] = g[Len(q)] + h[n]
      <4>1. k[Len(q) + n] = g[Len(q)] + h[n]
        BY <2>2
      <4>2. Len(q) \in 0..Len(q)
        BY <1>1
      <4>3. h[n] \in Nat
        OBVIOUS
      <4>4. g[Len(q)] \in Nat
        BY <4>2
      <4> QED
        BY <4>1, <4>3, <4>4
    <3>6. k[Len(q) + (n + 1)] = g[Len(q)] + h[n + 1] /\ n + 1 \in 0..Len(r)
      BY <3>1, <3>2, <3>3, <3>4, <3>5, <1>1
    <3> QED
      BY <3>6
  <2> HIDE DEF T
  <2> QED
    BY <1>1, <2>1, <2>2, UpTo
<1>7. k[Len(q) + Len(r)] = g[Len(q)] + h[Len(r)] /\ g[Len(q)] \in Nat /\ h[Len(r)] \in Nat
  <2>1. Len(r) \in T
    BY <1>1, <1>6
  <2>2. Len(q) \in 0..Len(q) /\ Len(r) \in 0..Len(r)
    BY <1>1
  <2>3. k[Len(q) + Len(r)] = g[Len(q)] + h[Len(r)]
    BY <2>1, Zenon
  <2> QED
    BY <2>2, <2>3, Zenon
<1>8. Bytes(s, types) = Bytes(q, types) + Bytes(r, types)
  BY <1>1, <1>2, <1>3, <1>4, <1>7
<1> QED
  BY <1>2, <1>3, <1>7, <1>8 DEF s

LEMMA BytesOfFew ==
    ASSUME NEW f \in Frames, NEW types
    PROVE  Bytes(<<>>, types) = 0 /\ Bytes(<<f>>, types) = Value(f, types)
<1>1. <<>> \in Seq(Frames) /\ Len(<<>>) = 0 /\ <<f>> \in Seq(Frames) /\ Len(<<f>>) = 1 /\ <<f>>[1] = f
  OBVIOUS
<1>2. Bytes(<<>>, types) = 0
  <2>1. PICK g \in [0..Len(<<>>) -> Nat] : g[0] = 0 /\ Bytes(<<>>, types) = g[Len(<<>>)]
    BY <1>1, BytesLoop
  <2> QED
    BY <1>1, <2>1
<1>3. Bytes(<<f>>, types) = Value(f, types)
  <2> DEFINE q == <<f>>
  <2>1. q \in Seq(Frames) /\ Len(q) = 1 /\ q[1] = f
    BY <1>1
  <2> HIDE DEF q
  <2>2. PICK g \in [0..Len(q) -> Nat] : /\ g[0] = 0 /\ Bytes(q, types) = g[Len(q)]
                                        /\ \A i \in 1..Len(q) : g[i] = g[i - 1] + Value(q[i], types)
    BY <2>1, BytesLoop
  <2>3. g[1] = g[0] + Value(f, types)
    BY <2>1, <2>2
  <2>4. Value(f, types) \in Nat
    BY <2>1, ValueIsNat
  <2> QED
    BY <2>1, <2>2, <2>3, <2>4 DEF q
<1> QED
  BY <1>2, <1>3

\* What the steps do to a queue does this to its bytes.
LEMMA BytesAppend ==
    ASSUME NEW q \in Seq(Frames), NEW f \in Frames, NEW types
    PROVE  /\ Bytes(q, types) \in Nat /\ Value(f, types) \in Nat
           /\ Bytes(Append(q, f), types) = Bytes(q, types) + Value(f, types)
<1> DEFINE one == <<f>>
<1>1. Append(q, f) = q \o one /\ one \in Seq(Frames) /\ Bytes(one, types) = Value(f, types)
  BY BytesOfFew
<1> HIDE DEF one
<1> QED
  BY <1>1, BytesConcat

LEMMA BytesTail ==
    ASSUME NEW q \in Seq(Frames), q # <<>>, NEW types
    PROVE  /\ Bytes(Tail(q), types) \in Nat /\ Value(Head(q), types) \in Nat
           /\ Bytes(q, types) = Value(Head(q), types) + Bytes(Tail(q), types)
<1> DEFINE one == <<Head(q)>>
           rest == Tail(q)
<1>1. q = one \o rest /\ one \in Seq(Frames) /\ rest \in Seq(Frames) /\ Head(q) \in Frames
  OBVIOUS
<1>2. Bytes(one, types) = Value(Head(q), types)
  BY <1>1, BytesOfFew
<1> HIDE DEF one, rest
<1>3. /\ Bytes(one, types) \in Nat /\ Bytes(rest, types) \in Nat
      /\ Bytes(one \o rest, types) = Bytes(one, types) + Bytes(rest, types)
  BY <1>1, BytesConcat
<1>4. Bytes(q, types) = Bytes(one \o rest, types)
  BY <1>1, Zenon
<1> QED
  BY <1>2, <1>3, <1>4 DEF rest

LEMMA SplitAt ==
    ASSUME NEW S, NEW q \in Seq(S), NEW n \in 0..Len(q)
    PROVE  LET x == SubSeq(q, 1, n)
               y == SubSeq(q, n + 1, Len(q))
           IN  /\ x \in Seq(S) /\ y \in Seq(S) /\ q = x \o y
               /\ Len(x) = n /\ Len(y) = Len(q) - n
               /\ \A i \in 1..n : x[i] = q[i]
               /\ \A i \in 1..(Len(q) - n) : y[i] = q[n + i]
<1> DEFINE x == SubSeq(q, 1, n)
           y == SubSeq(q, n + 1, Len(q))
<1>1. /\ 1 \in 1..(Len(q) + 1) /\ n \in (1 - 1)..Len(q) /\ Len(q) \in n..Len(q)
      /\ n \in Int /\ n + 1 \in Int /\ Len(q) \in Int
      /\ \A i \in 1..n : q[i] \in S
      /\ \A i \in (n + 1)..Len(q) : q[i] \in S
  OBVIOUS
<1>2. x \o y = SubSeq(q, 1, Len(q))
  BY <1>1, ConcatAdjacentSubSeq
<1>3. SubSeq(q, 1, Len(q)) = q
  BY SubSeqFull
<1>4. /\ x \in Seq(S) /\ Len(x) = IF 1 <= n THEN n - 1 + 1 ELSE 0
      /\ \A i \in 1..(n - 1 + 1) : x[i] = q[1 + i - 1]
  BY <1>1, SubSeqProperties
<1>5. /\ y \in Seq(S) /\ Len(y) = IF n + 1 <= Len(q) THEN Len(q) - (n + 1) + 1 ELSE 0
      /\ \A i \in 1..(Len(q) - (n + 1) + 1) : y[i] = q[n + 1 + i - 1]
  BY <1>1, SubSeqProperties
<1> HIDE DEF x, y
<1>6. Len(x) = n /\ Len(y) = Len(q) - n
  BY <1>1, <1>4, <1>5
<1>7. ASSUME NEW i \in 1..n PROVE x[i] = q[i]
  <2>1. i \in 1..(n - 1 + 1) /\ 1 + i - 1 = i
    BY <1>1
  <2> QED
    BY <1>4, <2>1
<1>8. ASSUME NEW i \in 1..(Len(q) - n) PROVE y[i] = q[n + i]
  <2>1. i \in 1..(Len(q) - (n + 1) + 1) /\ n + 1 + i - 1 = n + i
    BY <1>1
  <2> QED
    BY <1>5, <2>1
<1>9. q = x \o y
  BY <1>2, <1>3, Zenon
<1> QED
  BY <1>4, <1>5, <1>6, <1>7, <1>8, <1>9, Zenon DEF x, y

LEMMA BytesSplit ==
    ASSUME NEW q \in Seq(Frames), NEW n \in 0..Len(q), NEW types
    PROVE  /\ Bytes(SubSeq(q, 1, n), types) \in Nat
           /\ Bytes(SubSeq(q, n + 1, Len(q)), types) \in Nat
           /\ Bytes(q, types) = Bytes(SubSeq(q, 1, n), types) + Bytes(SubSeq(q, n + 1, Len(q)), types)
<1> DEFINE x == SubSeq(q, 1, n)
           y == SubSeq(q, n + 1, Len(q))
<1>1. x \in Seq(Frames) /\ y \in Seq(Frames) /\ q = x \o y
  BY SplitAt
<1> HIDE DEF x, y
<1>2. /\ Bytes(x, types) \in Nat /\ Bytes(y, types) \in Nat
      /\ Bytes(q, types) = Bytes(x, types) + Bytes(y, types)
  BY <1>1, BytesConcat
<1> QED
  BY <1>2 DEF x, y

LEMMA BytesZero ==
    ASSUME NEW q \in Seq(Frames), NEW types, \A i \in DOMAIN q : q[i].type \notin types
    PROVE  Bytes(q, types) = 0
<1>1. PICK g \in [0..Len(q) -> Nat] : /\ g[0] = 0 /\ Bytes(q, types) = g[Len(q)]
                                      /\ \A i \in 1..Len(q) : g[i] = g[i - 1] + Value(q[i], types)
  BY BytesLoop
<1>2. Len(q) \in Nat /\ \A i \in 1..Len(q) : Value(q[i], types) = 0
  BY DEF Value
<1> DEFINE S == {n \in 0..Len(q) : g[n] = 0}
<1>3. 0 \in S
  BY <1>1, <1>2
<1>4. ASSUME NEW n \in 0..Len(q), n # Len(q), n \in S PROVE n + 1 \in S
  BY <1>1, <1>2, <1>4
<1>5. \A n \in 0..Len(q) : n \in S
  <2> HIDE DEF S
  <2> QED
    BY <1>2, <1>3, <1>4, UpTo
<1> QED
  BY <1>1, <1>2, <1>5

Names == {0} \cup (Writers \X Nat)
\* What a frame adds to the packets.
NameOf(f) == IF f.type = "DATA" THEN <<f.n>> ELSE <<>>

LEMMA NameIsSeq ==
    ASSUME NEW f \in Frames
    PROVE  NameOf(f) \in Seq(Names)
<1>1. f.n \in Names
  BY DEF Frames, Names
<1> QED
  BY <1>1 DEF NameOf

LEMMA Regroup ==
    ASSUME NEW x \in Seq(Names), NEW y \in Seq(Names), NEW z \in Seq(Names)
    PROVE  (x \o y) \o z = x \o (y \o z)
  OBVIOUS

\* Packets() is what its loop has after the last frame.
LEMMA PacketsLoop ==
    ASSUME NEW q \in Seq(Frames)
    PROVE  \E g \in [0..Len(q) -> Seq(Names)] :
              /\ g[0] = <<>> /\ Packets(q) = g[Len(q)]
              /\ \A i \in 0..Len(q) : i # Len(q) => g[i + 1] = g[i] \o NameOf(q[i + 1])
<1> DEFINE N == Len(q)
           F == [x \in (1..N) \X Seq(Names) |-> x[2] \o NameOf(q[x[1]])]
           Turn(g, i) == IF i = 0 THEN <<>> ELSE IF q[i].type = "DATA" THEN Append(g[i - 1], q[i].n) ELSE g[i - 1]
           upTo[i \in 0..N] == Turn(upTo, i)
<1>1. \A i \in 1..N : q[i] \in Frames /\ NameOf(q[i]) \in Seq(Names)
  BY NameIsSeq
<1>2. N \in Nat /\ F \in [(1..N) \X Seq(Names) -> Seq(Names)]
  BY <1>1
<1>3. PICK g \in [0..N -> Seq(Names)] : g[0] = <<>> /\ \A i \in 1..N : g[i] = F[<<i, g[i - 1]>>]
  <2> HIDE DEF F, N
  <2>1. <<>> \in Seq(Names)
    OBVIOUS
  <2>2. HasLoop(Seq(Names), <<>>, N, F)
    BY <1>2, <2>1, LoopExists
  <2> QED
    BY <2>2 DEF HasLoop
<1>4. \A i \in 1..N : g[i] = g[i - 1] \o NameOf(q[i])
  <2> SUFFICES ASSUME NEW i \in 1..N PROVE g[i] = g[i - 1] \o NameOf(q[i])
    OBVIOUS
  <2>1. <<i, g[i - 1]>> \in (1..N) \X Seq(Names)
    <3>1. i - 1 \in 0..N
      BY <1>2
    <3> QED
      BY <3>1, Zenon
  <2>2. F[<<i, g[i - 1]>>] = g[i - 1] \o NameOf(q[i])
    BY <2>1
  <2> HIDE DEF F
  <2> QED
    BY <1>3, <2>2
<1>5. ASSUME NEW i \in 1..N, NEW s \in Seq(Names)
      PROVE  s \o NameOf(q[i]) = IF q[i].type = "DATA" THEN Append(s, q[i].n) ELSE s
  <2>1. q[i].n \in Names
    BY <1>1 DEF Frames, Names
  <2>2. s \o <<>> = s
    BY ConcatEmptySeq
  <2>3. Append(s, q[i].n) = s \o <<q[i].n>>
    BY <2>1, AppendIsConcat
  <2> QED
    BY <2>2, <2>3 DEF NameOf
<1>6. ASSUME NEW i \in 0..N PROVE g[i] = Turn(g, i)
  <2>1. CASE i = 0
    BY <1>3, <2>1
  <2>2. CASE i # 0
    <3>1. i \in 1..N /\ i - 1 \in 0..N
      BY <1>2, <2>2
    <3>2. g[i - 1] \in Seq(Names)
      BY <3>1
    <3> QED
      BY <1>4, <1>5, <2>2, <3>1, <3>2
  <2> QED
    BY <2>1, <2>2
<1>7. g = [i \in 0..N |-> Turn(g, i)]
  <2> HIDE DEF Turn
  <2> QED
    BY <1>6
<1>8. upTo = [i \in 0..N |-> Turn(upTo, i)]
  BY <1>7, Zenon
<1>9. Packets(q) = upTo[N]
  BY DEF Packets
<1> HIDE DEF upTo, N
<1> DEFINE S == {i \in 0..N : upTo[i] = g[i]}
<1>10. \A n \in 0..N : n \in S
  <2>1. 0 \in S
    BY <1>2, <1>3, <1>8
  <2>2. ASSUME NEW n \in 0..N, n # N, n \in S PROVE n + 1 \in S
    <3>1. n + 1 \in 0..N /\ n + 1 # 0 /\ n + 1 - 1 = n
      BY <1>2, <2>2
    <3>2. upTo[n + 1] = Turn(upTo, n + 1) /\ g[n + 1] = Turn(g, n + 1)
      <4> HIDE DEF Turn
      <4> QED
        BY <1>6, <1>8, <3>1
    <3>3. Turn(upTo, n + 1) = Turn(g, n + 1)
      BY <2>2, <3>1
    <3> HIDE DEF Turn
    <3> QED
      BY <3>1, <3>2, <3>3
  <2> HIDE DEF S
  <2> QED
    BY <1>2, <2>1, <2>2, UpTo
<1>11. upTo[N] = g[N]
  BY <1>2, <1>10
<1>12. ASSUME NEW i \in 0..N, i # N PROVE g[i + 1] = g[i] \o NameOf(q[i + 1])
  <2> DEFINE j == i + 1
  <2>1. j \in 1..N /\ j - 1 = i
    BY <1>2, <1>12
  <2> HIDE DEF j
  <2>2. g[j] = g[j - 1] \o NameOf(q[j])
    BY <1>4, <2>1, Zenon
  <2> QED
    BY <2>1, <2>2, Zenon DEF j
<1> QED
  BY <1>3, <1>9, <1>11, <1>12, Zenon DEF N

\* Packets of sequences put together.
LEMMA PacketsConcat ==
    ASSUME NEW q \in Seq(Frames), NEW r \in Seq(Frames)
    PROVE  /\ Packets(q) \in Seq(Names) /\ Packets(r) \in Seq(Names)
           /\ Packets(q \o r) = Packets(q) \o Packets(r)
<1> DEFINE s == q \o r
<1>1. /\ s \in Seq(Frames) /\ Len(s) = Len(q) + Len(r) /\ Len(q) \in Nat /\ Len(r) \in Nat
      /\ \A i \in 1..Len(q) : s[i] = q[i]
      /\ \A i \in 1..Len(r) : s[Len(q) + i] = r[i]
  OBVIOUS
<1> HIDE DEF s
<1>2. PICK g \in [0..Len(q) -> Seq(Names)] : /\ g[0] = <<>> /\ Packets(q) = g[Len(q)]
                                             /\ \A i \in 0..Len(q) : i # Len(q) => g[i + 1] = g[i] \o NameOf(q[i + 1])
  BY PacketsLoop
<1>3. PICK h \in [0..Len(r) -> Seq(Names)] : /\ h[0] = <<>> /\ Packets(r) = h[Len(r)]
                                             /\ \A i \in 0..Len(r) : i # Len(r) => h[i + 1] = h[i] \o NameOf(r[i + 1])
  BY PacketsLoop
<1>4. PICK k \in [0..Len(s) -> Seq(Names)] : /\ k[0] = <<>> /\ Packets(s) = k[Len(s)]
                                             /\ \A i \in 0..Len(s) : i # Len(s) => k[i + 1] = k[i] \o NameOf(s[i + 1])
  BY <1>1, PacketsLoop
<1> DEFINE S == {n \in 0..Len(q) : k[n] = g[n]}
           T == {n \in 0..Len(r) : k[Len(q) + n] = g[Len(q)] \o h[n]}
<1>5. \A n \in 0..Len(q) : n \in S
  <2>1. 0 \in S
    BY <1>1, <1>2, <1>4
  <2>2. ASSUME NEW n \in 0..Len(q), n # Len(q), n \in S PROVE n + 1 \in S
    <3>1. n + 1 \in 1..Len(q) /\ n + 1 \in 0..Len(q) /\ n + 1 \in 1..Len(s) /\ n + 1 - 1 = n
      BY <1>1, <2>2
    <3>2. k[n + 1] = k[n] \o NameOf(s[n + 1]) /\ g[n + 1] = g[n] \o NameOf(q[n + 1]) /\ s[n + 1] = q[n + 1]
      <4>1. n \in 0..Len(s) /\ n # Len(s)
        BY <1>1, <2>2
      <4> QED
        BY <4>1, <2>2, <3>1, <1>1, <1>2, <1>4, Zenon
    <3>3. k[n] = g[n]
      BY <2>2
    <3>4. k[n + 1] = g[n + 1]
      BY <3>2, <3>3, Zenon
    <3> QED
      BY <3>1, <3>4, Zenon
  <2> HIDE DEF S
  <2> QED
    BY <1>1, <2>1, <2>2, UpTo
<1>6. g[Len(q)] \in Seq(Names) /\ h[Len(r)] \in Seq(Names)
  <2>1. Len(q) \in 0..Len(q) /\ Len(r) \in 0..Len(r)
    BY <1>1
  <2> QED
    BY <2>1, Zenon
<1>7. \A n \in 0..Len(r) : n \in T
  <2>1. 0 \in T
    <3>1. k[Len(q)] = g[Len(q)] /\ Len(q) + 0 = Len(q) /\ 0 \in 0..Len(r)
      BY <1>1, <1>5
    <3>2. g[Len(q)] \o h[0] = g[Len(q)]
      BY <1>3, <1>6, ConcatEmptySeq
    <3> QED
      BY <3>1, <3>2
  <2>2. ASSUME NEW n \in 0..Len(r), n # Len(r), n \in T PROVE n + 1 \in T
    <3>1. /\ n + 1 \in 1..Len(r) /\ n + 1 \in 0..Len(r) /\ n + 1 - 1 = n
          /\ Len(q) + (n + 1) \in 1..Len(s) /\ Len(q) + (n + 1) - 1 = Len(q) + n
      BY <1>1, <2>2
    <3>2. /\ k[Len(q) + (n + 1)] = k[Len(q) + n] \o NameOf(s[Len(q) + (n + 1)])
          /\ s[Len(q) + (n + 1)] = r[n + 1]
      <4>1. Len(q) + n \in 0..Len(s) /\ Len(q) + n # Len(s) /\ (Len(q) + n) + 1 = Len(q) + (n + 1)
        BY <1>1, <2>2
      <4>2. k[(Len(q) + n) + 1] = k[Len(q) + n] \o NameOf(s[(Len(q) + n) + 1])
        BY <4>1, <1>4, Zenon
      <4> QED
        BY <4>1, <4>2, <3>1, <1>1, Zenon
    <3>3. h[n + 1] = h[n] \o NameOf(r[n + 1])
      BY <2>2, <1>3, Zenon
    <3>4. k[Len(q) + n] = g[Len(q)] \o h[n]
      BY <2>2
    <3> DEFINE G == g[Len(q)]
               H == h[n]
               F == NameOf(r[n + 1])
    <3>5. G \in Seq(Names) /\ H \in Seq(Names) /\ F \in Seq(Names)
      <4>1. r[n + 1] \in Frames
        BY <3>1
      <4> QED
        BY <1>6, <4>1, NameIsSeq
    <3>6. k[Len(q) + (n + 1)] = (G \o H) \o F
      BY <3>2, <3>4, Zenon
    <3>7. h[n + 1] = H \o F
      BY <3>3
    <3> HIDE DEF G, H, F
    <3>8. (G \o H) \o F = G \o (H \o F)
      BY <3>5, Regroup, Zenon
    <3>9. k[Len(q) + (n + 1)] = G \o h[n + 1]
      BY <3>6, <3>7, <3>8, Zenon
    <3> QED
      BY <3>1, <3>9, Zenon DEF G
  <2> HIDE DEF T
  <2> QED
    BY <1>1, <2>1, <2>2, UpTo
<1>8. k[Len(q) + Len(r)] = g[Len(q)] \o h[Len(r)]
  <2>1. Len(r) \in T
    BY <1>1, <1>7
  <2> QED
    BY <2>1, Zenon
<1>9. Packets(s) = Packets(q) \o Packets(r)
  BY <1>1, <1>2, <1>3, <1>4, <1>8, Zenon
<1> QED
  BY <1>2, <1>3, <1>6, <1>9 DEF s

LEMMA PacketsOfFew ==
    ASSUME NEW f \in Frames
    PROVE  Packets(<<>>) = <<>> /\ Packets(<<f>>) = NameOf(f)
<1>1. <<>> \in Seq(Frames) /\ Len(<<>>) = 0 /\ <<f>> \in Seq(Frames) /\ Len(<<f>>) = 1 /\ <<f>>[1] = f
  OBVIOUS
<1>2. Packets(<<>>) = <<>>
  <2>1. PICK g \in [0..Len(<<>>) -> Seq(Names)] : g[0] = <<>> /\ Packets(<<>>) = g[Len(<<>>)]
    BY <1>1, PacketsLoop
  <2> QED
    BY <1>1, <2>1
<1>3. Packets(<<f>>) = NameOf(f)
  <2> DEFINE q == <<f>>
  <2>1. q \in Seq(Frames) /\ Len(q) = 1 /\ q[1] = f
    BY <1>1
  <2> HIDE DEF q
  <2>2. PICK g \in [0..Len(q) -> Seq(Names)] : /\ g[0] = <<>> /\ Packets(q) = g[Len(q)]
                                               /\ \A i \in 0..Len(q) : i # Len(q) => g[i + 1] = g[i] \o NameOf(q[i + 1])
    BY <2>1, PacketsLoop
  <2>3. g[1] = g[0] \o NameOf(f)
    <3>1. 0 \in 0..Len(q) /\ 0 # Len(q) /\ 0 + 1 = 1
      BY <2>1
    <3> QED
      BY <2>1, <2>2, <3>1, Zenon
  <2>4. <<>> \o NameOf(f) = NameOf(f)
    BY NameIsSeq, ConcatEmptySeq, Zenon
  <2>5. Packets(q) = NameOf(f)
    BY <2>1, <2>2, <2>3, <2>4, Zenon
  <2> QED
    BY <2>5 DEF q
<1> QED
  BY <1>2, <1>3

\* What the steps do to a queue does this to its packets.
LEMMA PacketsAppend ==
    ASSUME NEW q \in Seq(Frames), NEW f \in Frames
    PROVE  /\ Packets(q) \in Seq(Names)
           /\ Packets(Append(q, f)) = Packets(q) \o NameOf(f)
<1> DEFINE one == <<f>>
<1>1. Append(q, f) = q \o one /\ one \in Seq(Frames) /\ Packets(one) = NameOf(f)
  BY PacketsOfFew
<1> HIDE DEF one
<1>2. Packets(q) \in Seq(Names) /\ Packets(q \o one) = Packets(q) \o Packets(one)
  BY <1>1, PacketsConcat
<1> QED
  BY <1>1, <1>2, Zenon

LEMMA PacketsTail ==
    ASSUME NEW q \in Seq(Frames), q # <<>>
    PROVE  /\ Packets(Tail(q)) \in Seq(Names) /\ NameOf(Head(q)) \in Seq(Names)
           /\ Packets(q) = NameOf(Head(q)) \o Packets(Tail(q))
<1> DEFINE one == <<Head(q)>>
           rest == Tail(q)
<1>1. q = one \o rest /\ one \in Seq(Frames) /\ rest \in Seq(Frames) /\ Head(q) \in Frames
  OBVIOUS
<1>2. Packets(one) = NameOf(Head(q)) /\ NameOf(Head(q)) \in Seq(Names)
  BY <1>1, PacketsOfFew, NameIsSeq
<1> HIDE DEF one, rest
<1>3. Packets(rest) \in Seq(Names) /\ Packets(one \o rest) = Packets(one) \o Packets(rest)
  BY <1>1, PacketsConcat
<1>4. Packets(q) = Packets(one \o rest)
  BY <1>1, Zenon
<1>5. Packets(q) = NameOf(Head(q)) \o Packets(rest)
  BY <1>2, <1>3, <1>4, Zenon
<1> QED
  BY <1>2, <1>3, <1>5 DEF rest

LEMMA PacketsSplit ==
    ASSUME NEW q \in Seq(Frames), NEW n \in 0..Len(q)
    PROVE  /\ Packets(SubSeq(q, 1, n)) \in Seq(Names)
           /\ Packets(SubSeq(q, n + 1, Len(q))) \in Seq(Names)
           /\ Packets(q) = Packets(SubSeq(q, 1, n)) \o Packets(SubSeq(q, n + 1, Len(q)))
<1> DEFINE x == SubSeq(q, 1, n)
           y == SubSeq(q, n + 1, Len(q))
<1>1. x \in Seq(Frames) /\ y \in Seq(Frames) /\ q = x \o y
  BY SplitAt
<1> HIDE DEF x, y
<1>2. /\ Packets(x) \in Seq(Names) /\ Packets(y) \in Seq(Names)
      /\ Packets(x \o y) = Packets(x) \o Packets(y)
  BY <1>1, PacketsConcat
<1>3. Packets(q) = Packets(x) \o Packets(y)
  BY <1>1, <1>2, Zenon
<1> QED
  BY <1>2, <1>3 DEF x, y

LEMMA PacketsZero ==
    ASSUME NEW q \in Seq(Frames), ~Has(q, "DATA")
    PROVE  Packets(q) = <<>>
<1>1. PICK g \in [0..Len(q) -> Seq(Names)] : /\ g[0] = <<>> /\ Packets(q) = g[Len(q)]
                                             /\ \A i \in 0..Len(q) : i # Len(q) => g[i + 1] = g[i] \o NameOf(q[i + 1])
  BY PacketsLoop
<1>2. Len(q) \in Nat /\ \A i \in 1..Len(q) : NameOf(q[i]) = <<>>
  BY DEF NameOf, Has
<1> DEFINE S == {n \in 0..Len(q) : g[n] = <<>>}
<1>3. 0 \in S
  BY <1>1, <1>2
<1>4. ASSUME NEW n \in 0..Len(q), n # Len(q), n \in S PROVE n + 1 \in S
  <2>1. n + 1 \in 1..Len(q) /\ n + 1 \in 0..Len(q) /\ n + 1 - 1 = n
    BY <1>2, <1>4
  <2>2. g[n + 1] = g[n] \o NameOf(q[n + 1])
    BY <1>1, <1>4, Zenon
  <2>3. g[n + 1] = <<>> \o <<>>
    BY <1>2, <1>4, <2>1, <2>2
  <2> QED
    BY <2>1, <2>3
<1>5. \A n \in 0..Len(q) : n \in S
  <2> HIDE DEF S
  <2> QED
    BY <1>2, <1>3, <1>4, UpTo
<1> QED
  BY <1>1, <1>2, <1>5
--------------------------------------------------------------------------------
(* Types. *)

LEMMA FrameTypes ==
    /\ Barrier \in Frames /\ Pill \in Frames
    /\ \A n \in Nat : RESET(n) \in Frames /\ \A t \in {"MAKE", "MADE", "WINDOW"} : Command(t, n) \in Frames
    /\ \A n \in Nat, k \in Nat, w \in Writers, by \in Writers \cup {"nobody"} : Frame("DATA", n, by, <<w, k>>) \in Frames
  BY DEF Barrier, Pill, RESET, Command, Frame, Frames

\* wakeReceivers() adds as many empty packets as there are receivers.
LEMMA ReceiversWoken ==
    ASSUME TypeOK, NEW e \in Ends, NEW q \in Seq(Frames)
    PROVE  \E pills \in Seq({Pill}) :
              /\ WakeReceivers(e, q) = q \o pills
              /\ ReadersIn(e) # {} => pills # <<>>
<1> DEFINE m == Cardinality(ReadersIn(e))
           pills == [i \in 1..m |-> Pill]
<1>1. ReadersIn(e) \subseteq Readers
  BY DEF ReadersIn
<1>2. IsFiniteSet(ReadersIn(e))
  BY <1>1, FS_Subset, MultiStreamAssumption
<1>3. m \in Nat /\ (ReadersIn(e) # {} => m # 0)
  BY <1>2, FS_CardinalityType, FS_EmptySet
<1>4. pills \in Seq({Pill}) /\ Len(pills) = m
  <2> HIDE DEF m
  <2> QED
    BY <1>3
<1>5. WakeReceivers(e, q) = q \o pills
  BY DEF WakeReceivers
<1>6. ReadersIn(e) # {} => pills # <<>>
  BY <1>3, <1>4
<1> QED
  BY <1>4, <1>5, <1>6

\* finish() with and without discardPendingSends.
Discarded(e, s, reason) == Finish(e, s, reason, TRUE)
Emptied(e, s, reason) == Finish(e, s, reason, FALSE)

LEMMA FinishDiscards ==
    ASSUME TypeOK, NEW e \in Ends, NEW s \in SlaveType,
           NEW reason \in {"aborted", "closed", "normal", "reset", "broken"}
    PROVE  /\ Discarded(e, s, reason) \in SlaveType
           /\ Discarded(e, s, reason).is = reason /\ Discarded(e, s, reason).credit = s.credit
           /\ Discarded(e, s, reason).pending = s.pending /\ Discarded(e, s, reason).cap = s.cap
           /\ Discarded(e, s, reason).recvQ = WakeReceivers(e, s.recvQ)
           /\ Discarded(e, s, reason).sendQ = <<>>
<1> DEFINE new == Discarded(e, s, reason)
<1>1. s.recvQ \in Seq(Frames) /\ <<>> \in Seq(Frames)
  BY DEF SlaveType
<1>2. WakeReceivers(e, s.recvQ) \in Seq(Frames)
  <2>1. PICK pills \in Seq({Pill}) : WakeReceivers(e, s.recvQ) = s.recvQ \o pills
    BY <1>1, ReceiversWoken
  <2> QED
    BY <1>1, <2>1, FrameTypes
<1>3. new = [s EXCEPT !.is = reason, !.closing = FALSE, !.event = TRUE,
                      !.recvQ = WakeReceivers(e, s.recvQ), !.sendQ = <<>>]
  BY DEF SlaveType, Finish, Discarded
<1>4. \A q, k \in Seq(Frames) : [s EXCEPT !.is = reason, !.closing = FALSE, !.event = TRUE,
                                         !.recvQ = q, !.sendQ = k] \in SlaveType
  BY DEF SlaveType
<1>5. new \in SlaveType
  BY <1>1, <1>2, <1>3, <1>4, Zenon
<1> QED
  BY <1>3, <1>5 DEF SlaveType

LEMMA FinishKeeps ==
    ASSUME TypeOK, NEW e \in Ends, NEW s \in SlaveType,
           NEW reason \in {"aborted", "closed", "normal", "reset", "broken"}
    PROVE  /\ Emptied(e, s, reason) \in SlaveType
           /\ Emptied(e, s, reason).is = reason /\ Emptied(e, s, reason).credit = s.credit
           /\ Emptied(e, s, reason).pending = s.pending /\ Emptied(e, s, reason).cap = s.cap
           /\ Emptied(e, s, reason).recvQ = WakeReceivers(e, s.recvQ)
           /\ Emptied(e, s, reason).sendQ = s.sendQ
<1> DEFINE new == Emptied(e, s, reason)
<1>1. s.recvQ \in Seq(Frames) /\ <<>> \in Seq(Frames)
  BY DEF SlaveType
<1>2. WakeReceivers(e, s.recvQ) \in Seq(Frames)
  <2>1. PICK pills \in Seq({Pill}) : WakeReceivers(e, s.recvQ) = s.recvQ \o pills
    BY <1>1, ReceiversWoken
  <2> QED
    BY <1>1, <2>1, FrameTypes
<1>3. new = [s EXCEPT !.is = reason, !.closing = FALSE, !.event = TRUE,
                      !.recvQ = WakeReceivers(e, s.recvQ)]
  BY DEF SlaveType, Finish, Emptied
<1>4. \A q, k \in Seq(Frames) : [s EXCEPT !.is = reason, !.closing = FALSE, !.event = TRUE,
                                         !.recvQ = q] \in SlaveType
  BY DEF SlaveType
<1>5. new \in SlaveType
  BY <1>1, <1>2, <1>3, <1>4, Zenon
<1> QED
  BY <1>3, <1>5 DEF SlaveType

\* What the parts of a state are.
LEMMA Parts ==
    ASSUME TypeOK
    PROVE  /\ \A e \in Ends : slave[e] \in SlaveType /\ Peer(e) \in Ends
           /\ \A e \in Ends : cmd[e] \in Seq(Frames) /\ wire[e] \in Seq(Frames)
           /\ \A e \in Ends : tx[e].todo \in Seq(Frames) /\ tx[e].all \in Seq(Frames)
           /\ \A w \in Writers : writer[w] \in WriterType /\ EndOf[w] \in Ends
           /\ \A r \in Readers : EndOf[r] \in Ends
  BY MultiStreamAssumption DEF TypeOK, Ends, Peer

LEMMA QueueParts ==
    ASSUME NEW s \in SlaveType
    PROVE  /\ s.recvQ \in Seq(Frames) /\ s.sendQ \in Seq(Frames)
           /\ s.credit \in Nat /\ s.pending \in Nat /\ s.cap \in Nat
  BY DEF SlaveType

\* done->send() changes nothing but done.
LEMMA WritersTold ==
    ASSUME TypeOK, NEW q \in Seq(Frames), NEW value \in {"true", "false"}
    PROVE  /\ TellWriters(q, value) \in [Writers -> WriterType]
           /\ \A w \in Writers :
                 /\ TellWriters(q, value)[w].at = writer[w].at
                 /\ TellWriters(q, value)[w].size = writer[w].size
                 /\ TellWriters(q, value)[w] # writer[w] => \E i \in DOMAIN q : q[i].by = w
                 /\ TellWriters(q, value)[w].done \in {value, writer[w].done}
<1> DEFINE T == TellWriters(q, value)
           new(w) == [writer[w] EXCEPT !.done = value]
<1>1. ASSUME NEW w \in Writers
      PROVE  /\ new(w) \in WriterType /\ new(w).at = writer[w].at /\ new(w).size = writer[w].size
             /\ new(w).done = value /\ writer[w] \in WriterType
  <2>1. writer[w] \in WriterType
    BY DEF TypeOK
  <2>2. ASSUME NEW c \in WriterType
        PROVE  /\ [c EXCEPT !.done = value] \in WriterType /\ [c EXCEPT !.done = value].at = c.at
               /\ [c EXCEPT !.done = value].size = c.size /\ [c EXCEPT !.done = value].done = value
    BY DEF WriterType
  <2> QED
    BY <2>1, <2>2
<1>2. ASSUME NEW w \in Writers
      PROVE  T[w] = IF \E i \in DOMAIN q : q[i].by = w THEN new(w) ELSE writer[w]
  BY DEF TellWriters
<1>3. ASSUME NEW w \in Writers
      PROVE  /\ T[w] \in WriterType /\ T[w].at = writer[w].at /\ T[w].size = writer[w].size
             /\ T[w] # writer[w] => \E i \in DOMAIN q : q[i].by = w
             /\ T[w].done \in {value, writer[w].done}
  <2> HIDE DEF T
  <2>1. CASE \E i \in DOMAIN q : q[i].by = w
    <3>1. T[w] = new(w)
      BY <1>2, <2>1
    <3> QED
      BY <1>1, <2>1, <3>1
  <2>2. CASE ~(\E i \in DOMAIN q : q[i].by = w)
    <3>1. T[w] = writer[w]
      BY <1>2, <2>2
    <3> QED
      BY <1>1, <2>2, <3>1
  <2> QED
    BY <2>1, <2>2
<1>4. T \in [Writers -> WriterType]
  <2>1. T = [w \in Writers |-> T[w]]
    BY DEF TellWriters
  <2> HIDE DEF T
  <2> QED
    BY <1>3, <2>1
<1> QED
  BY <1>3, <1>4

--------------------------------------------------------------------------------
(* What each step does, end by end. *)

Core(s) == <<s.is, s.credit, s.pending, s.cap, s.recvQ, s.sendQ>>
Rests(e) ==
    /\ slave'[e] = slave[e] /\ cmd'[e] = cmd[e] /\ tx'[e] = tx[e]
    /\ got'[e] = got[e] /\ queued'[e] = queued[e] /\ closer'[e].at = closer[e].at
    /\ \A w \in Writers : EndOf[w] = e => writer'[w] = writer[w]
KeepsWriters(e) ==
    \A w \in Writers : EndOf[w] = e => writer'[w].at = writer[w].at /\ writer'[w].size = writer[w].size
Holds(e) == cmd'[e] = cmd[e] /\ tx'[e] = tx[e] /\ got'[e] = got[e] /\ wire' = wire

\* A step of the application that moves no frame and no credit.
Quiet(e) ==
    /\ Core(slave'[e]) = Core(slave[e]) /\ Holds(e) /\ queued'[e] = queued[e]
    /\ \A w \in Writers : EndOf[w] = e =>
          \/ writer'[w].at = writer[w].at /\ writer'[w].size = writer[w].size
          \/ writer'[w].at \in {"idle", "credit"} /\ writer[w].at # "put"
\* releaseSendCredit() at a slave that has ended.
Refunds(e, w) ==
    /\ EndOf[w] = e /\ writer[w].at = "wait" /\ writer'[w].at = "idle" /\ Ended(slave[e])
    /\ \E n \in Nat : Core(slave'[e]) = Core([slave[e] EXCEPT !.credit = @ + n])
    /\ Holds(e) /\ queued'[e] = queued[e]
    /\ \A v \in Writers \ {w} : writer'[v] = writer[v]
\* A frame goes behind sendingQueue.
Queues(e, f) ==
    /\ slave'[e].sendQ = Append(slave[e].sendQ, f)
    /\ queued'[e] = IF Open(slave[e]) /\ ~Has(slave[e].sendQ, "BARRIER") /\ f.type = "DATA"
                    THEN Append(queued[e], f.n) ELSE queued[e]
\* The writer w uses credit, and its packet is queued or waits for room.
Uses(e, w) ==
    LET s == slave[e]
        t == slave'[e]
    IN  /\ EndOf[w] = e /\ writer[w].at \in {"idle", "credit"} /\ s.is # "none"
        /\ t.is = s.is /\ t.pending = s.pending /\ t.cap = s.cap /\ t.recvQ = s.recvQ /\ Holds(e)
        /\ \A v \in Writers \ {w} : writer'[v] = writer[v]
        /\ \E size \in Nat \ {0} :
              /\ s.credit >= size /\ t.credit = s.credit - size
              /\ \/ /\ writer'[w].at # "put"
                    /\ \E f \in Packed(e) : f.arg = size /\ Queues(e, f)
                 \/ /\ writer'[w].at = "put" /\ writer'[w].size = size
                    /\ t.sendQ = s.sendQ /\ queued'[e] = queued[e]
\* A packet that waited for room is queued.
Puts(e, w) ==
    LET s == slave[e]
        t == slave'[e]
    IN  /\ EndOf[w] = e /\ writer[w].at = "put" /\ writer'[w].at \in {"wait", "idle"}
        /\ t.is = s.is /\ t.credit = s.credit /\ t.pending = s.pending /\ t.cap = s.cap /\ t.recvQ = s.recvQ
        /\ Holds(e) /\ \A v \in Writers \ {w} : writer'[v] = writer[v]
        /\ \E f \in Packed(e) : f.arg = writer[w].size /\ Queues(e, f)
\* The barrier is queued.
Bars(e) ==
    LET s == slave[e]
        t == slave'[e]
    IN  /\ t.is = s.is /\ t.credit = s.credit /\ t.pending = s.pending /\ t.cap = s.cap /\ t.recvQ = s.recvQ
        /\ s.is # "none" /\ Holds(e) /\ Queues(e, Barrier) /\ writer' = writer
\* finish()
Finishes(e, reason) ==
    LET s == slave[e]
        t == slave'[e]
    IN  /\ Open(s) /\ t.is = reason /\ t.credit = s.credit /\ t.pending = s.pending /\ t.cap = s.cap
        /\ \E pills \in Seq({Pill}) : t.recvQ = s.recvQ \o pills
        /\ KeepsWriters(e)
AbortsSlave(e) ==
    /\ Finishes(e, "aborted") /\ slave'[e].sendQ = <<>>
    /\ cmd'[e] = Append(cmd[e], RESET(1))
    /\ tx'[e] = tx[e] /\ got'[e] = got[e] /\ queued'[e] = queued[e] /\ wire' = wire
\* recvPacket() with the frame f.
Gets(e, f) ==
    LET s == slave[e]
        t == slave'[e]
        n == IF Open(s) THEN s.pending + f.arg ELSE s.pending
    IN  /\ s.is # "none" /\ s.recvQ # <<>> /\ f = Head(s.recvQ) /\ t.recvQ = Tail(s.recvQ)
        /\ t.is = s.is /\ t.credit = s.credit /\ t.cap = s.cap /\ t.sendQ = s.sendQ
        /\ got'[e] = got[e] \o IF f.type = "PILL" THEN <<>> ELSE <<f.n>>
        /\ \/ Open(s) /\ t.pending = 0 /\ cmd'[e] = Append(cmd[e], Command("WINDOW", n))
           \/ t.pending = n /\ cmd'[e] = cmd[e]
        /\ tx'[e] = tx[e] /\ queued'[e] = queued[e] /\ wire' = wire /\ writer' = writer
\* setReceivingCapacity()
Resizes(e) ==
    LET s == slave[e]
        t == slave'[e]
    IN  /\ s.is # "none" /\ t.is = s.is /\ t.credit = s.credit /\ t.pending = s.pending
        /\ t.recvQ = s.recvQ /\ t.sendQ = s.sendQ
        /\ IF t.cap > s.cap /\ Open(s) THEN cmd'[e] = Append(cmd[e], Command("WINDOW", t.cap - s.cap))
                                       ELSE cmd'[e] = cmd[e]
        /\ tx'[e] = tx[e] /\ got'[e] = got[e] /\ queued'[e] = queued[e] /\ wire' = wire /\ writer' = writer
\* doSend() takes p of the commands p \o q and x of the packets x \o y.
Fills(e, p, q, x, y) ==
    LET s == slave[e]
        t == slave'[e]
    IN  /\ cmd[e] = p \o q /\ s.sendQ = x \o y /\ p \o x # <<>>
        /\ q = <<>> \/ x = <<>>
        /\ x # <<>> => Open(s)
        /\ \A i \in DOMAIN x : x[i].type = "BARRIER" => i = Len(x)
        /\ tx[e] = Idle /\ tx'[e] = [todo |-> p \o x, all |-> p \o x] /\ cmd'[e] = q
        /\ t.sendQ = y /\ t.credit = s.credit /\ t.pending = s.pending /\ t.cap = s.cap
        /\ IF Has(x, "BARRIER")
           THEN /\ t.is = "closed" /\ \E pills \in Seq({Pill}) : t.recvQ = s.recvQ \o pills
           ELSE t.is = s.is /\ t.recvQ = s.recvQ
        /\ got'[e] = got[e] /\ queued'[e] = queued[e] /\ wire' = wire /\ writer' = writer
\* sendall() writes the frame f as g.
Writes(e, f, g) ==
    /\ tx[e].todo # <<>> /\ f = Head(tx[e].todo) /\ tx'[e].todo = Tail(tx[e].todo)
    /\ tx'[e].all \in {<<>>, tx[e].all} /\ (tx'[e].todo = <<>> => tx'[e] = Idle)
    /\ g = (IF f.type = "BARRIER" THEN RESET(0) ELSE f)
    /\ wire'[e] = Append(wire[e], g) /\ wire'[Peer(e)] = wire[Peer(e)]
    /\ slave'[e] = slave[e] /\ cmd'[e] = cmd[e] /\ got'[e] = got[e] /\ queued'[e] = queued[e]
    /\ KeepsWriters(e)
\* doReceive() reads the frame f.
Takes(e, f) ==
    /\ wire[Peer(e)] # <<>> /\ f = Head(wire[Peer(e)]) /\ wire'[Peer(e)] = Tail(wire[Peer(e)])
    /\ wire'[e] = wire[e] /\ tx'[e] = tx[e] /\ got'[e] = got[e] /\ queued'[e] = queued[e]
    /\ KeepsWriters(e)
TakesData(e, f) ==
    LET s == slave[e]
        t == slave'[e]
    IN  /\ Takes(e, f) /\ f.type = "DATA" /\ cmd'[e] = cmd[e]
        /\ IF Open(s) THEN /\ t.recvQ = Append(s.recvQ, f) /\ t.is = s.is /\ t.credit = s.credit
                           /\ t.pending = s.pending /\ t.cap = s.cap /\ t.sendQ = s.sendQ
                      ELSE t = s
TakesWindow(e, f) ==
    LET s == slave[e]
        t == slave'[e]
    IN  /\ Takes(e, f) /\ f.type = "WINDOW" /\ cmd'[e] = cmd[e]
        /\ IF Open(s) THEN Core(t) = Core([s EXCEPT !.credit = @ + f.arg]) ELSE t = s
TakesReset(e, f) ==
    /\ Takes(e, f) /\ f.type = "RESET" /\ cmd'[e] = cmd[e]
    /\ IF Open(slave[e]) THEN /\ Finishes(e, IF f.arg = 0 THEN "normal" ELSE "reset")
                              /\ slave'[e].sendQ = <<>>
                         ELSE slave'[e] = slave[e]
TakesMake(e, f) ==
    /\ Takes(e, f) /\ f.type = "MAKE" /\ e = "b" /\ slave[e].is = "none"
    /\ Core(slave'[e]) = <<"open", f.arg, 0, RecvCap, <<>>, <<>>>>
    /\ cmd'[e] = Append(cmd[e], Command("MADE", RecvCap))
TakesMade(e, f) ==
    /\ Takes(e, f) /\ f.type = "MADE" /\ e = "a" /\ slave[e].is # "none"
    /\ IF Open(slave[e])
       THEN Core(slave'[e]) = Core([slave[e] EXCEPT !.credit = f.arg]) /\ cmd'[e] = cmd[e]
       ELSE slave'[e] = slave[e] /\ cmd'[e] = Append(cmd[e], RESET(3))
\* makeSlave()
Makes(e) ==
    /\ e = "a" /\ slave[e].is = "none" /\ Core(slave'[e]) = <<"open", 0, 0, RecvCap, <<>>, <<>>>>
    /\ cmd'[e] = Append(cmd[e], Command("MAKE", RecvCap))
    /\ tx'[e] = tx[e] /\ got'[e] = got[e] /\ queued'[e] = queued[e] /\ wire' = wire /\ writer' = writer
\* abort() of the master.
Breaks(e) ==
    /\ cmd'[e] = <<>> /\ tx'[e] = Idle /\ got'[e] = got[e] /\ queued'[e] = queued[e] /\ wire' = wire
    /\ IF Open(slave[e]) THEN Finishes(e, "broken") /\ slave'[e].sendQ = <<>>
                         ELSE slave'[e] = slave[e] /\ KeepsWriters(e)

ApplicationStep(e) ==
    \/ Quiet(e) \/ Bars(e) \/ AbortsSlave(e) \/ Resizes(e) \/ Makes(e)
    \/ \E w \in Writers : Refunds(e, w) \/ Uses(e, w) \/ Puts(e, w)
    \/ \E f \in Packed(Peer(e)) \cup {Pill} : Gets(e, f)
MasterStep(e) ==
    \/ Breaks(e)
    \/ \E p, q, x, y \in Seq(Frames) : Fills(e, p, q, x, y)
    \/ \E f \in Frames : \/ \E g \in Frames : Writes(e, f, g)
                         \/ TakesData(e, f) \/ TakesWindow(e, f) \/ TakesReset(e, f)
                         \/ TakesMake(e, f) \/ TakesMade(e, f)
\* What a step of e is to the other end, and to a slave that is not there.
StepOf(e) ==
    /\ Rests(Peer(e))
    /\ ApplicationStep(e) \/ MasterStep(e)
    /\ slave'[e].is = "none" => Rests(e)

LEMMA NoSlaveType == NoSlave \in SlaveType
<1>1. <<>> \in Seq(Frames) /\ RecvCap \in Nat
  BY MultiStreamAssumption
<1> QED
  BY <1>1 DEF NoSlave, SlaveType

LEMMA MakeSlaveStep ==
    ASSUME Inv, MakeSlave
    PROVE  StepOf("a") /\ TypeOK' /\ WritersTell'
<1> DEFINE new == [NoSlave EXCEPT !.is = "open", !.taken = TRUE]
           f == Command("MAKE", RecvCap)
<1>0. TypeOK /\ WritersTell /\ RecvCap \in Nat /\ "a" \in Ends /\ "b" \in Ends /\ Peer("a") = "b" /\ "a" # "b"
  BY MultiStreamAssumption DEF Inv, Ends, Peer
<1>1. new \in SlaveType /\ Core(new) = <<"open", 0, 0, RecvCap, <<>>, <<>>>> /\ f \in Frames /\ Open(new)
  <2>1. \A s \in SlaveType : /\ [s EXCEPT !.is = "open", !.taken = TRUE] \in SlaveType
                             /\ Core([s EXCEPT !.is = "open", !.taken = TRUE])
                                = <<"open", s.credit, s.pending, s.cap, s.recvQ, s.sendQ>>
                             /\ Open([s EXCEPT !.is = "open", !.taken = TRUE])
    BY DEF SlaveType, Core, Open
  <2>2. NoSlave.credit = 0 /\ NoSlave.pending = 0 /\ NoSlave.cap = RecvCap /\ NoSlave.recvQ = <<>> /\ NoSlave.sendQ = <<>>
    BY DEF NoSlave
  <2>3. new \in SlaveType /\ Open(new) /\ Core(new) = <<"open", 0, 0, RecvCap, <<>>, <<>>>>
    BY <2>1, <2>2, NoSlaveType, Zenon
  <2>4. f \in Frames
    BY <1>0, FrameTypes
  <2> QED
    BY <2>3, <2>4
<1>2. /\ slave["a"].is = "none" /\ slave' = [slave EXCEPT !["a"] = new]
      /\ cmd' = [cmd EXCEPT !["a"] = Append(cmd["a"], f)]
      /\ UNCHANGED <<tx, wire, down, writer, reader, closer, got, queued, inputs>>
  BY DEF MakeSlave, calls
<1> HIDE DEF new, f
<1>3. TypeOK'
  <2>1. slave' \in [Ends -> SlaveType]
    BY <1>0, <1>1, <1>2 DEF TypeOK
  <2>2. cmd' \in [Ends -> Seq(Frames)]
    BY <1>0, <1>1, <1>2 DEF TypeOK
  <2> QED
    BY <1>0, <1>2, <2>1, <2>2 DEF TypeOK
<1>4. slave'["a"] = new /\ slave'["b"] = slave["b"] /\ cmd'["a"] = Append(cmd["a"], f) /\ cmd'["b"] = cmd["b"]
  BY <1>0, <1>2 DEF TypeOK
<1>5. WritersTell'
  <2> SUFFICES ASSUME NEW w \in Writers
               PROVE  /\ writer[w].at # "idle" => writer[w].size # 0
                      /\ writer[w].done = "false" => Ended(slave'[EndOf[w]])
    BY <1>2 DEF WritersTell
  <2>1. EndOf[w] \in {"a", "b"} /\ ~Ended(slave["a"])
    BY <1>2, MultiStreamAssumption DEF Ended
  <2> QED
    BY <1>0, <1>4, <2>1 DEF WritersTell
<1>6. Makes("a")
  BY <1>1, <1>2, <1>4 DEF Makes, f
<1>7. Rests("b")
  BY <1>2, <1>4 DEF Rests
<1>8. slave'["a"].is # "none"
  BY <1>1, <1>4 DEF Open
<1> QED
  BY <1>0, <1>3, <1>5, <1>6, <1>7, <1>8 DEF StepOf, ApplicationStep

LEMMA EndFacts ==
    ASSUME Inv, NEW e \in Ends
    PROVE  /\ TypeOK /\ WritersTell /\ Peer(e) \in Ends /\ Peer(e) # e /\ Ends = {e, Peer(e)}
           /\ slave[e] \in SlaveType /\ cmd[e] \in Seq(Frames) /\ wire[e] \in Seq(Frames)
           /\ wire[Peer(e)] \in Seq(Frames) /\ slave[e].sendQ \in Seq(Frames) /\ slave[e].recvQ \in Seq(Frames)
           /\ tx[e].todo \in Seq(Frames) /\ tx[e].all \in Seq(Frames)
           /\ got[e] \in Seq(Names) /\ queued[e] \in Seq(Names)
           /\ Peer(Peer(e)) = e
  BY DEF Inv, TypeOK, SlaveType, Ends, Peer, Names

WritersQuiet(e) ==
    \A w \in Writers :
        IF EndOf[w] = e
        THEN /\ \/ writer'[w].at = writer[w].at /\ writer'[w].size = writer[w].size
                \/ writer'[w].at \in {"idle", "credit"} /\ writer[w].at # "put"
             /\ writer'[w].at # "idle" => writer'[w].size # 0
             /\ writer'[w].done \in {"unset", writer[w].done}
        ELSE writer'[w] = writer[w]

\* A step that leaves the frames and the credit of e alone.
LEMMA QuietStep ==
    ASSUME Inv, NEW e \in Ends, slave[e].is # "none",
           NEW s \in SlaveType, Core(s) = Core(slave[e]), slave' = [slave EXCEPT ![e] = s],
           UNCHANGED <<cmd, tx, wire, down, got, queued>>,
           writer' \in [Writers -> WriterType], reader' \in [Readers -> {"idle", "get"}],
           closer' \in [Ends -> [at : {"idle", "put", "wait", "back"}, done : BOOLEAN]],
           closer'[Peer(e)].at = closer[Peer(e)].at, WritersQuiet(e)
    PROVE  StepOf(e) /\ TypeOK' /\ WritersTell'
<1>0. /\ TypeOK /\ WritersTell /\ Peer(e) \in Ends /\ Peer(e) # e /\ Ends = {e, Peer(e)}
      /\ slave[e] \in SlaveType
  BY EndFacts
<1>1. slave' \in [Ends -> SlaveType] /\ slave'[e] = s /\ slave'[Peer(e)] = slave[Peer(e)]
  BY <1>0 DEF TypeOK
<1>2. TypeOK'
  BY <1>0, <1>1 DEF TypeOK
<1>3. s.is = slave[e].is
  BY DEF Core
<1>4. WritersTell'
  <2> SUFFICES ASSUME NEW w \in Writers
               PROVE  /\ writer'[w].at # "idle" => writer'[w].size # 0
                      /\ writer'[w].done = "false" => Ended(slave'[EndOf[w]])
    BY DEF WritersTell
  <2>1. EndOf[w] \in Ends
    BY MultiStreamAssumption DEF Ends
  <2>2. CASE EndOf[w] = e
    BY <1>0, <1>1, <1>3, <2>2 DEF WritersTell, WritersQuiet, Ended
  <2>3. CASE EndOf[w] # e
    <3>1. EndOf[w] = Peer(e) /\ writer'[w] = writer[w]
      BY <1>0, <2>1, <2>3 DEF WritersQuiet
    <3> QED
      BY <1>0, <1>1, <3>1 DEF WritersTell
  <2> QED
    BY <2>2, <2>3
<1>5. Quiet(e)
  BY <1>1 DEF Quiet, Holds, WritersQuiet
<1>6. Rests(Peer(e))
  BY <1>0, <1>1 DEF Rests, WritersQuiet
<1> QED
  BY <1>1, <1>2, <1>3, <1>4, <1>5, <1>6 DEF StepOf, ApplicationStep

LEMMA TakeSlaveStep ==
    ASSUME Inv, TakeSlave
    PROVE  StepOf("b") /\ TypeOK' /\ WritersTell'
<1> DEFINE s == [slave["b"] EXCEPT !.taken = TRUE]
<1>0. TypeOK /\ WritersTell /\ slave["b"] \in SlaveType /\ "b" \in Ends
  BY EndFacts DEF Ends
<1>1. s \in SlaveType /\ Core(s) = Core(slave["b"])
  BY <1>0 DEF SlaveType, Core
<1>2. slave["b"].is # "none" /\ slave' = [slave EXCEPT !["b"] = s]
  BY DEF TakeSlave
<1>3. UNCHANGED <<cmd, tx, wire, down, got, queued, writer, reader, closer>>
  BY DEF TakeSlave, calls
<1>4. WritersQuiet("b")
  BY <1>0, <1>3 DEF WritersTell, WritersQuiet
<1> HIDE DEF s
<1> QED
  BY <1>0, <1>1, <1>2, <1>3, <1>4, QuietStep DEF TypeOK

LEMMA CloseReturnsStep ==
    ASSUME Inv, NEW e \in Ends, CloseReturns(e)
    PROVE  StepOf(e) /\ TypeOK' /\ WritersTell'
<1>0. TypeOK /\ WritersTell /\ slave[e] \in SlaveType /\ Peer(e) \in Ends /\ Peer(e) # e
  BY EndFacts
<1>1. slave[e].is # "none"
  BY DEF CloseReturns, Inv, SilentBefore
<1>2. slave' = [slave EXCEPT ![e] = slave[e]]
  BY <1>0 DEF CloseReturns, TypeOK
<1>3. UNCHANGED <<cmd, tx, wire, down, got, queued, writer, reader>>
  BY DEF CloseReturns
<1>4. WritersQuiet(e)
  BY <1>0, <1>3 DEF WritersTell, WritersQuiet
<1>5. /\ closer' \in [Ends -> [at : {"idle", "put", "wait", "back"}, done : BOOLEAN]]
      /\ closer'[Peer(e)].at = closer[Peer(e)].at
  BY <1>0 DEF CloseReturns, TypeOK
<1> QED
  BY <1>0, <1>1, <1>2, <1>3, <1>4, <1>5, QuietStep DEF TypeOK

LEMMA RecvBlocksStep ==
    ASSUME Inv, NEW r \in Readers, RecvBlocks(r)
    PROVE  StepOf(EndOf[r]) /\ TypeOK' /\ WritersTell'
<1> DEFINE e == EndOf[r]
<1>0. e \in Ends
  BY Parts DEF Inv
<1> HIDE DEF e
<1>1. TypeOK /\ WritersTell /\ slave[e] \in SlaveType /\ Peer(e) \in Ends /\ Peer(e) # e
  BY <1>0, EndFacts
<1>2. slave[e].is # "none"
  BY DEF RecvBlocks, Open, e
<1>3. slave' = [slave EXCEPT ![e] = slave[e]]
  BY <1>1 DEF RecvBlocks, TypeOK
<1>4. UNCHANGED <<cmd, tx, wire, down, got, queued, writer, closer>>
  BY DEF RecvBlocks
<1>5. WritersQuiet(e)
  BY <1>1, <1>4 DEF WritersTell, WritersQuiet
<1>6. reader' \in [Readers -> {"idle", "get"}]
  BY <1>1 DEF RecvBlocks, TypeOK
<1>7. StepOf(e) /\ TypeOK' /\ WritersTell'
  BY <1>0, <1>1, <1>2, <1>3, <1>4, <1>5, <1>6, QuietStep DEF TypeOK
<1> QED
  BY <1>7 DEF e

\* sendingQueue.put() of the frame f into the slave s.
LEMMA PushStep ==
    ASSUME Inv, NEW e \in Ends, NEW s \in SlaveType, NEW f \in Frames,
           s.is = slave[e].is, s.sendQ = slave[e].sendQ, Push(e, s, f)
    PROVE  /\ slave' \in [Ends -> SlaveType] /\ queued' \in [Ends -> Seq(Names)]
           /\ slave'[Peer(e)] = slave[Peer(e)] /\ queued'[Peer(e)] = queued[Peer(e)]
           /\ slave'[e].is = s.is /\ slave'[e].credit = s.credit /\ slave'[e].pending = s.pending
           /\ slave'[e].cap = s.cap /\ slave'[e].recvQ = s.recvQ
           /\ Queues(e, f)
<1> DEFINE new == [s EXCEPT !.sendQ = Append(s.sendQ, f)]
<1>0. TypeOK /\ Peer(e) \in Ends /\ Peer(e) # e
  BY EndFacts
<1>1. /\ new \in SlaveType /\ new.is = s.is /\ new.credit = s.credit /\ new.pending = s.pending
      /\ new.cap = s.cap /\ new.recvQ = s.recvQ /\ new.sendQ = Append(s.sendQ, f)
  <2>1. Append(s.sendQ, f) \in Seq(Frames)
    BY DEF SlaveType
  <2> QED
    BY <2>1 DEF SlaveType
<1>2. slave' = [slave EXCEPT ![e] = new]
  BY DEF Push
<1> HIDE DEF new
<1>3. slave' \in [Ends -> SlaveType] /\ slave'[Peer(e)] = slave[Peer(e)] /\ slave'[e] = new
  BY <1>0, <1>1, <1>2 DEF TypeOK
<1>4. f.n \in Names
  BY DEF Frames, Names
<1>5. HasBarrier(s.sendQ) <=> Has(slave[e].sendQ, "BARRIER")
  BY DEF HasBarrier, Has
<1>6. queued \in [Ends -> Seq(Names)]
  BY <1>0 DEF TypeOK, Names
<1>7. CASE Open(s) /\ ~HasBarrier(s.sendQ) /\ f.type = "DATA"
  <2>1. queued' = [queued EXCEPT ![e] = Append(@, f.n)]
    BY <1>7 DEF Push
  <2>2. queued' \in [Ends -> Seq(Names)] /\ queued'[Peer(e)] = queued[Peer(e)] /\ queued'[e] = Append(queued[e], f.n)
    BY <1>0, <1>4, <1>6, <2>1
  <2> QED
    BY <1>1, <1>3, <1>5, <1>7, <2>2 DEF Queues, Open
<1>8. CASE ~(Open(s) /\ ~HasBarrier(s.sendQ) /\ f.type = "DATA")
  <2>1. queued' = queued
    BY <1>8 DEF Push
  <2>2. ~(Open(slave[e]) /\ ~Has(slave[e].sendQ, "BARRIER") /\ f.type = "DATA")
    BY <1>5, <1>8 DEF Open
  <2>3. Queues(e, f)
    BY <1>1, <1>3, <2>1, <2>2 DEF Queues
  <2> QED
    BY <1>1, <1>3, <1>6, <2>1, <2>3
<1> QED
  BY <1>7, <1>8

\* enqueueSlavePacket(): the packet is queued, or its writer waits for room.
LEMMA EnqueueStep ==
    ASSUME Inv, NEW w \in Writers, NEW e \in Ends, e = EndOf[w], NEW s \in SlaveType, NEW c \in WriterType,
           s.is = slave[e].is, s.sendQ = slave[e].sendQ, s.is # "none",
           c.size # 0, c.done = "false" => Ended(s), Enqueue(w, s, c),
           UNCHANGED <<cmd, tx, wire, down, reader, closer, got>>
    PROVE  /\ TypeOK' /\ WritersTell' /\ Rests(Peer(e)) /\ slave'[e].is # "none" /\ Holds(e)
           /\ slave'[e].is = s.is /\ slave'[e].credit = s.credit /\ slave'[e].pending = s.pending
           /\ slave'[e].cap = s.cap /\ slave'[e].recvQ = s.recvQ
           /\ \A v \in Writers \ {w} : writer'[v] = writer[v]
           /\ \/ /\ writer'[w].at \in {"wait", "idle"}
                 /\ \E f \in Packed(e) : f.arg = c.size /\ Queues(e, f)
              \/ /\ writer'[w].at = "put" /\ writer'[w].size = c.size
                 /\ slave'[e].sendQ = s.sendQ /\ queued'[e] = queued[e] /\ ~HasRoom(s)
<1> DEFINE f == Frame("DATA", c.size, IF c.mode = "wait" THEN w ELSE "nobody", <<w, c.n>>)
<1>0. /\ TypeOK /\ WritersTell /\ Peer(e) \in Ends /\ Peer(e) # e /\ Ends = {e, Peer(e)}
      /\ writer \in [Writers -> WriterType]
  BY EndFacts DEF TypeOK
<1>1. c.size \in Nat /\ c.n \in Nat /\ c.size # 0
  BY DEF WriterType
<1>2. f \in Packed(e) /\ f.arg = c.size /\ f \in Frames
  <2>1. (IF c.mode = "wait" THEN w ELSE "nobody") \in Writers \cup {"nobody"}
    OBVIOUS
  <2>2. f \in Frames
    BY <1>1, <2>1, FrameTypes
  <2>3. f.type = "DATA" /\ f.arg = c.size /\ f.by \in {w, "nobody"}
    BY DEF Frame
  <2>4. f.by \in Writers => EndOf[f.by] = e
    BY <2>3, MultiStreamAssumption
  <2> QED
    BY <1>1, <2>2, <2>3, <2>4 DEF Packed
<1>3. ASSUME NEW at \in {"idle", "wait", "put"}, writer' = [writer EXCEPT ![w] = [c EXCEPT !.at = at]]
      PROVE  /\ writer' \in [Writers -> WriterType] /\ \A v \in Writers \ {w} : writer'[v] = writer[v]
             /\ writer'[w].at = at /\ writer'[w].size = c.size /\ writer'[w].done = c.done
  <2>1. /\ [c EXCEPT !.at = at] \in WriterType /\ [c EXCEPT !.at = at].at = at
        /\ [c EXCEPT !.at = at].size = c.size /\ [c EXCEPT !.at = at].done = c.done
    BY DEF WriterType
  <2> QED
    BY <1>0, <1>3, <2>1
<1>4. ASSUME slave' \in [Ends -> SlaveType], queued' \in [Ends -> Seq(Names)], writer' \in [Writers -> WriterType],
             slave'[Peer(e)] = slave[Peer(e)], queued'[Peer(e)] = queued[Peer(e)], slave'[e].is = s.is,
             \A v \in Writers \ {w} : writer'[v] = writer[v], writer'[w].size = c.size, writer'[w].done = c.done
      PROVE  TypeOK' /\ WritersTell' /\ Rests(Peer(e)) /\ slave'[e].is # "none" /\ Holds(e)
  <2>1. TypeOK'
    BY <1>0, <1>4 DEF TypeOK, Names
  <2>2. WritersTell'
    <3> SUFFICES ASSUME NEW v \in Writers
                 PROVE  /\ writer'[v].at # "idle" => writer'[v].size # 0
                        /\ writer'[v].done = "false" => Ended(slave'[EndOf[v]])
      BY DEF WritersTell
    <3>1. EndOf[v] \in Ends /\ \A p \in Ends : slave'[p].is = slave[p].is
      BY <1>0, <1>4, MultiStreamAssumption DEF Ends
    <3>2. CASE v = w
      BY <1>4, <3>2 DEF Ended
    <3>3. CASE v # w
      BY <1>0, <1>4, <3>1, <3>3 DEF WritersTell, Ended
    <3> QED
      BY <3>2, <3>3
  <2>3. Rests(Peer(e))
    <3>1. \A v \in Writers : EndOf[v] = Peer(e) => v # w
      BY <1>0
    <3> QED
      BY <1>0, <1>4, <3>1 DEF Rests
  <2> QED
    BY <1>4, <2>1, <2>2, <2>3 DEF Holds
<1>5. CASE c.mode = "async" \/ HasRoom(s)
  <2>1. Push(e, s, f) /\ writer' = [writer EXCEPT ![w] = [c EXCEPT !.at = IF c.mode = "wait" THEN "wait" ELSE "idle"]]
    BY <1>5 DEF Enqueue
  <2> HIDE DEF f
  <2>2. /\ slave' \in [Ends -> SlaveType] /\ queued' \in [Ends -> Seq(Names)]
        /\ slave'[Peer(e)] = slave[Peer(e)] /\ queued'[Peer(e)] = queued[Peer(e)]
        /\ slave'[e].is = s.is /\ slave'[e].credit = s.credit /\ slave'[e].pending = s.pending
        /\ slave'[e].cap = s.cap /\ slave'[e].recvQ = s.recvQ /\ Queues(e, f)
    BY <1>2, <2>1, PushStep
  <2>3. (IF c.mode = "wait" THEN "wait" ELSE "idle") \in {"idle", "wait"}
    OBVIOUS
  <2>4. /\ writer' \in [Writers -> WriterType] /\ \A v \in Writers \ {w} : writer'[v] = writer[v]
        /\ writer'[w].at \in {"wait", "idle"} /\ writer'[w].size = c.size /\ writer'[w].done = c.done
    BY <1>3, <2>1, <2>3
  <2> QED
    BY <1>2, <1>4, <2>2, <2>4
<1>6. CASE ~(c.mode = "async" \/ HasRoom(s))
  <2>1. slave' = [slave EXCEPT ![e] = s] /\ queued' = queued /\ writer' = [writer EXCEPT ![w] = [c EXCEPT !.at = "put"]]
    BY <1>6 DEF Enqueue
  <2>2. slave' \in [Ends -> SlaveType] /\ slave'[Peer(e)] = slave[Peer(e)] /\ slave'[e] = s
    BY <1>0, <2>1 DEF TypeOK
  <2>3. queued' \in [Ends -> Seq(Names)]
    BY <1>0, <2>1 DEF TypeOK, Names
  <2>4. /\ writer' \in [Writers -> WriterType] /\ \A v \in Writers \ {w} : writer'[v] = writer[v]
        /\ writer'[w].at = "put" /\ writer'[w].size = c.size /\ writer'[w].done = c.done
    BY <1>3, <2>1
  <2> QED
    BY <1>4, <1>6, <2>1, <2>2, <2>3, <2>4
<1> QED
  BY <1>5, <1>6

\* sendPacketRaw() with credit enough.
LEMMA UseStep ==
    ASSUME Inv, NEW w \in Writers, NEW e \in Ends, e = EndOf[w], NEW c \in WriterType, c.size # 0,
           writer[w].at \in {"idle", "credit"}, slave[e].is # "none", slave[e].credit >= c.size,
           c.done = "false" => Ended(slave[e]), Enqueue(w, UseCredit(slave[e], c.size), c),
           UNCHANGED <<cmd, tx, wire, down, reader, closer, got>>
    PROVE  StepOf(e) /\ TypeOK' /\ WritersTell'
<1> DEFINE s == UseCredit(slave[e], c.size)
<1>0. slave[e] \in SlaveType /\ c.size \in Nat \ {0}
  BY EndFacts DEF WriterType
<1>1. /\ s \in SlaveType /\ s.is = slave[e].is /\ s.sendQ = slave[e].sendQ /\ s.pending = slave[e].pending
      /\ s.cap = slave[e].cap /\ s.recvQ = slave[e].recvQ /\ s.credit = slave[e].credit - c.size
  <2>1. slave[e].credit - c.size \in Nat
    BY <1>0 DEF SlaveType
  <2> QED
    BY <1>0, <2>1 DEF UseCredit, SlaveType
<1> HIDE DEF s
<1>2. s.is # "none" /\ (c.done = "false" => Ended(s)) /\ Enqueue(w, s, c)
  BY <1>1 DEF Ended, s
<1>3. /\ TypeOK' /\ WritersTell' /\ Rests(Peer(e)) /\ slave'[e].is # "none" /\ Holds(e)
      /\ slave'[e].is = s.is /\ slave'[e].credit = s.credit /\ slave'[e].pending = s.pending
      /\ slave'[e].cap = s.cap /\ slave'[e].recvQ = s.recvQ
      /\ \A v \in Writers \ {w} : writer'[v] = writer[v]
      /\ \/ /\ writer'[w].at \in {"wait", "idle"}
            /\ \E f \in Packed(e) : f.arg = c.size /\ Queues(e, f)
         \/ /\ writer'[w].at = "put" /\ writer'[w].size = c.size
            /\ slave'[e].sendQ = s.sendQ /\ queued'[e] = queued[e] /\ ~HasRoom(s)
  BY <1>1, <1>2, EnqueueStep
<1>4. Uses(e, w)
  BY <1>0, <1>1, <1>3 DEF Uses
<1> QED
  BY <1>3, <1>4 DEF StepOf, ApplicationStep

LEMMA SendPacketStep ==
    ASSUME Inv, NEW w \in Writers, NEW size \in Sizes, NEW mode \in Modes, SendPacket(w, size, mode)
    PROVE  StepOf(EndOf[w]) /\ TypeOK' /\ WritersTell'
<1> DEFINE e == EndOf[w]
           c == [at |-> "credit", n |-> writer[w].n + 1, size |-> size, mode |-> mode, done |-> "unset"]
<1>0. e \in Ends /\ writer[w] \in WriterType /\ size \in Nat \ {0} /\ mode \in {"async", "nowait", "wait"}
  BY Parts, MultiStreamAssumption DEF Inv
<1> HIDE DEF e
<1>1. TypeOK /\ WritersTell /\ slave[e] \in SlaveType /\ Peer(e) \in Ends /\ Peer(e) # e
  BY <1>0, EndFacts
<1>2. c \in WriterType /\ c.size = size /\ c.done = "unset" /\ c.at = "credit"
  BY <1>0 DEF WriterType
<1>3. /\ writer[w].at = "idle" /\ Open(slave[e]) /\ slave[e].is # "none"
      /\ UNCHANGED <<cmd, tx, wire, down, reader, closer, got>>
  BY DEF SendPacket, e, Open
<1>4. \/ slave[e].credit >= size /\ Enqueue(w, UseCredit(slave[e], size), c)
      \/ /\ slave[e].credit < size /\ slave' = [slave EXCEPT ![e].event = FALSE]
         /\ writer' = [writer EXCEPT ![w] = c] /\ UNCHANGED queued
  BY DEF SendPacket, e
<1> HIDE DEF c
<1>5. CASE slave[e].credit >= size /\ Enqueue(w, UseCredit(slave[e], size), c)
  <2>1. StepOf(e) /\ TypeOK' /\ WritersTell'
    BY <1>0, <1>2, <1>3, <1>5, UseStep DEF e
  <2> QED
    BY <2>1 DEF e
<1>6. CASE /\ slave[e].credit < size /\ slave' = [slave EXCEPT ![e].event = FALSE]
           /\ writer' = [writer EXCEPT ![w] = c] /\ UNCHANGED queued
  <2> DEFINE s == [slave[e] EXCEPT !.event = FALSE]
  <2>1. s \in SlaveType /\ Core(s) = Core(slave[e]) /\ slave' = [slave EXCEPT ![e] = s]
    BY <1>1, <1>6 DEF SlaveType, Core
  <2>2. writer' \in [Writers -> WriterType] /\ writer'[w] = c /\ \A v \in Writers \ {w} : writer'[v] = writer[v]
    BY <1>1, <1>2, <1>6 DEF TypeOK
  <2>3. WritersQuiet(e)
    <3> SUFFICES ASSUME NEW v \in Writers
        PROVE  IF EndOf[v] = e
               THEN /\ \/ writer'[v].at = writer[v].at /\ writer'[v].size = writer[v].size
                       \/ writer'[v].at \in {"idle", "credit"} /\ writer[v].at # "put"
                    /\ writer'[v].at # "idle" => writer'[v].size # 0
                    /\ writer'[v].done \in {"unset", writer[v].done}
               ELSE writer'[v] = writer[v]
      BY DEF WritersQuiet
    <3>1. CASE v = w
      BY <1>0, <1>2, <1>3, <2>2, <3>1 DEF e
    <3>2. CASE v # w
      BY <1>1, <2>2, <3>2 DEF WritersTell
    <3> QED
      BY <3>1, <3>2
  <2> HIDE DEF s
  <2>4. StepOf(e) /\ TypeOK' /\ WritersTell'
    BY <1>0, <1>1, <1>3, <1>6, <2>1, <2>2, <2>3, QuietStep DEF TypeOK
  <2> QED
    BY <2>4 DEF e
<1> QED
  BY <1>4, <1>5, <1>6

LEMMA CreditWakeStep ==
    ASSUME Inv, NEW w \in Writers, CreditWake(w)
    PROVE  StepOf(EndOf[w]) /\ TypeOK' /\ WritersTell'
<1> DEFINE e == EndOf[w]
           c == writer[w]
<1>0. e \in Ends /\ c \in WriterType
  BY Parts DEF Inv
<1> HIDE DEF e
<1>1. /\ TypeOK /\ WritersTell /\ slave[e] \in SlaveType /\ Peer(e) \in Ends /\ Peer(e) # e
      /\ writer \in [Writers -> WriterType]
  BY <1>0, EndFacts DEF TypeOK
<1>2. c.at = "credit" /\ UNCHANGED <<cmd, tx, wire, down, reader, closer, got>>
  BY DEF CreditWake
<1>3. c.size # 0 /\ (c.done = "false" => Ended(slave[e])) /\ slave[e].is # "none"
  BY <1>0, <1>1, <1>2 DEF WritersTell, Inv, SilentBefore, e
<1>4. \/ slave[e].credit >= c.size /\ Enqueue(w, UseCredit(slave[e], c.size), c)
      \/ writer' = [writer EXCEPT ![w].at = "idle"] /\ UNCHANGED <<slave, queued>>
      \/ slave' = [slave EXCEPT ![e].event = FALSE] /\ UNCHANGED <<writer, queued>>
  BY DEF CreditWake, e
<1>5. CASE slave[e].credit >= c.size /\ Enqueue(w, UseCredit(slave[e], c.size), c)
  <2> HIDE DEF c
  <2>1. StepOf(e) /\ TypeOK' /\ WritersTell'
    BY <1>0, <1>2, <1>3, <1>5, UseStep DEF e, c
  <2> QED
    BY <2>1 DEF e
<1>6. CASE writer' = [writer EXCEPT ![w].at = "idle"] /\ UNCHANGED <<slave, queued>>
  <2>1. slave' = [slave EXCEPT ![e] = slave[e]]
    BY <1>1, <1>6 DEF TypeOK
  <2>2. [c EXCEPT !.at = "idle"] \in WriterType /\ [c EXCEPT !.at = "idle"].at = "idle" /\ [c EXCEPT !.at = "idle"].done = c.done
    BY <1>0 DEF WriterType
  <2>3. /\ writer' \in [Writers -> WriterType] /\ writer'[w].at = "idle" /\ writer'[w].done = c.done
        /\ \A v \in Writers \ {w} : writer'[v] = writer[v]
    BY <1>1, <1>6, <2>2
  <2>4. WritersQuiet(e)
    <3> SUFFICES ASSUME NEW v \in Writers
        PROVE  IF EndOf[v] = e
               THEN /\ \/ writer'[v].at = writer[v].at /\ writer'[v].size = writer[v].size
                       \/ writer'[v].at \in {"idle", "credit"} /\ writer[v].at # "put"
                    /\ writer'[v].at # "idle" => writer'[v].size # 0
                    /\ writer'[v].done \in {"unset", writer[v].done}
               ELSE writer'[v] = writer[v]
      BY DEF WritersQuiet
    <3>1. CASE v = w
      BY <1>2, <2>3, <3>1 DEF e
    <3>2. CASE v # w
      BY <1>1, <2>3, <3>2 DEF WritersTell
    <3> QED
      BY <3>1, <3>2
  <2>5. StepOf(e) /\ TypeOK' /\ WritersTell'
    BY <1>0, <1>1, <1>2, <1>3, <1>6, <2>1, <2>3, <2>4, QuietStep DEF TypeOK
  <2> QED
    BY <2>5 DEF e
<1>7. CASE slave' = [slave EXCEPT ![e].event = FALSE] /\ UNCHANGED <<writer, queued>>
  <2> DEFINE s == [slave[e] EXCEPT !.event = FALSE]
  <2>1. s \in SlaveType /\ Core(s) = Core(slave[e]) /\ slave' = [slave EXCEPT ![e] = s]
    BY <1>1, <1>7 DEF SlaveType, Core
  <2>2. WritersQuiet(e)
    BY <1>1, <1>7 DEF WritersTell, WritersQuiet
  <2> HIDE DEF s
  <2>3. StepOf(e) /\ TypeOK' /\ WritersTell'
    BY <1>0, <1>1, <1>2, <1>3, <1>7, <2>1, <2>2, QuietStep DEF TypeOK
  <2> QED
    BY <2>3 DEF e
<1> QED
  BY <1>4, <1>5, <1>6, <1>7

LEMMA PutGoesOnStep ==
    ASSUME Inv, NEW w \in Writers, PutGoesOn(w)
    PROVE  StepOf(EndOf[w]) /\ TypeOK' /\ WritersTell'
<1> DEFINE e == EndOf[w]
           c == writer[w]
           s == slave[e]
<1>0. e \in Ends /\ c \in WriterType
  BY Parts DEF Inv
<1> HIDE DEF e
<1>1. TypeOK /\ WritersTell /\ s \in SlaveType
  BY <1>0, EndFacts
<1>2. c.at = "put" /\ HasRoom(s) /\ Enqueue(w, s, c) /\ UNCHANGED <<cmd, tx, wire, down, reader, closer, got>>
  BY DEF PutGoesOn, e
<1>3. c.size # 0 /\ (c.done = "false" => Ended(s)) /\ s.is # "none"
  BY <1>0, <1>1, <1>2 DEF WritersTell, Inv, SilentBefore, e
<1>4. /\ TypeOK' /\ WritersTell' /\ Rests(Peer(e)) /\ slave'[e].is # "none" /\ Holds(e)
      /\ slave'[e].is = s.is /\ slave'[e].credit = s.credit /\ slave'[e].pending = s.pending
      /\ slave'[e].cap = s.cap /\ slave'[e].recvQ = s.recvQ
      /\ \A v \in Writers \ {w} : writer'[v] = writer[v]
      /\ writer'[w].at \in {"wait", "idle"}
      /\ \E f \in Packed(e) : f.arg = c.size /\ Queues(e, f)
  <2> HIDE DEF c
  <2> QED
    BY <1>0, <1>1, <1>2, <1>3, EnqueueStep DEF e
<1>5. Puts(e, w)
  BY <1>2, <1>4 DEF Puts, e
<1> QED
  BY <1>4, <1>5 DEF StepOf, ApplicationStep, e

LEMMA SendReturnsStep ==
    ASSUME Inv, NEW w \in Writers, SendReturns(w)
    PROVE  StepOf(EndOf[w]) /\ TypeOK' /\ WritersTell'
<1> DEFINE e == EndOf[w]
           c == writer[w]
           s == slave[e]
<1>0. e \in Ends /\ c \in WriterType
  BY Parts DEF Inv
<1> HIDE DEF e
<1>1. /\ TypeOK /\ WritersTell /\ s \in SlaveType /\ Peer(e) \in Ends /\ Peer(e) # e /\ Ends = {e, Peer(e)}
      /\ writer \in [Writers -> WriterType]
  BY <1>0, EndFacts DEF TypeOK
<1>2. /\ c.at = "wait" /\ c.done # "unset" /\ writer' = [writer EXCEPT ![w].at = "idle"]
      /\ UNCHANGED <<cmd, tx, wire, down, reader, closer, got, queued>>
  BY DEF SendReturns
<1>3. (c.done = "false" => Ended(s)) /\ s.is # "none"
  BY <1>0, <1>1, <1>2 DEF WritersTell, Inv, SilentBefore, e
<1>4. /\ writer' \in [Writers -> WriterType] /\ writer'[w].at = "idle" /\ writer'[w].done = c.done
      /\ \A v \in Writers \ {w} : writer'[v] = writer[v]
  <2>1. [c EXCEPT !.at = "idle"] \in WriterType /\ [c EXCEPT !.at = "idle"].at = "idle" /\ [c EXCEPT !.at = "idle"].done = c.done
    BY <1>0 DEF WriterType
  <2> QED
    BY <1>1, <1>2, <2>1
<1>5. CASE c.done = "true"
  <2>1. slave' = [slave EXCEPT ![e] = slave[e]]
    BY <1>1, <1>5 DEF TypeOK, SendReturns
  <2>2. WritersQuiet(e)
    <3> SUFFICES ASSUME NEW v \in Writers
        PROVE  IF EndOf[v] = e
               THEN /\ \/ writer'[v].at = writer[v].at /\ writer'[v].size = writer[v].size
                       \/ writer'[v].at \in {"idle", "credit"} /\ writer[v].at # "put"
                    /\ writer'[v].at # "idle" => writer'[v].size # 0
                    /\ writer'[v].done \in {"unset", writer[v].done}
               ELSE writer'[v] = writer[v]
      BY DEF WritersQuiet
    <3>1. CASE v = w
      BY <1>2, <1>4, <3>1 DEF e
    <3>2. CASE v # w
      BY <1>1, <1>4, <3>2 DEF WritersTell
    <3> QED
      BY <3>1, <3>2
  <2>3. StepOf(e) /\ TypeOK' /\ WritersTell'
    BY <1>0, <1>1, <1>2, <1>3, <1>4, <2>1, <2>2, QuietStep DEF TypeOK
  <2> QED
    BY <2>3 DEF e
<1>6. CASE c.done = "false"
  <2> DEFINE n == c.size
             new == [s EXCEPT !.credit = @ + n, !.event = TRUE]
  <2>1. n \in Nat
    BY <1>0 DEF WriterType
  <2>2. slave' = [slave EXCEPT ![e].credit = @ + n, ![e].event = TRUE]
    BY <1>6 DEF SendReturns, e
  <2>3. slave' = [slave EXCEPT ![e] = new]
    BY <1>0, <1>1, <2>2 DEF TypeOK
  <2>4. new \in SlaveType /\ Core(new) = Core([s EXCEPT !.credit = @ + n]) /\ new.is = s.is
    <3> HIDE DEF n, s
    <3>1. s.credit + n \in Nat
      BY <1>1, <2>1 DEF SlaveType
    <3> QED
      BY <1>1, <3>1 DEF SlaveType, Core
  <2> HIDE DEF new, n
  <2>5. slave' \in [Ends -> SlaveType] /\ slave'[e] = new /\ slave'[Peer(e)] = slave[Peer(e)]
    BY <1>0, <1>1, <2>3, <2>4 DEF TypeOK
  <2>6. TypeOK'
    BY <1>1, <1>2, <1>4, <2>5 DEF TypeOK
  <2>7. WritersTell'
    <3> SUFFICES ASSUME NEW v \in Writers
                 PROVE  /\ writer'[v].at # "idle" => writer'[v].size # 0
                        /\ writer'[v].done = "false" => Ended(slave'[EndOf[v]])
      BY DEF WritersTell
    <3>1. EndOf[v] \in Ends /\ \A p \in Ends : slave'[p].is = slave[p].is
      BY <1>1, <2>4, <2>5, MultiStreamAssumption DEF Ends
    <3>2. CASE v = w
      BY <1>3, <1>4, <2>4, <2>5, <3>2 DEF Ended, e
    <3>3. CASE v # w
      BY <1>1, <1>4, <3>1, <3>3 DEF WritersTell, Ended
    <3> QED
      BY <3>2, <3>3
  <2>8. Rests(Peer(e))
    <3>1. \A v \in Writers : EndOf[v] = Peer(e) => v # w
      BY <1>1 DEF e
    <3> QED
      BY <1>1, <1>2, <1>4, <2>5, <3>1 DEF Rests
  <2>9. Refunds(e, w)
    BY <1>2, <1>3, <1>4, <1>6, <2>1, <2>4, <2>5 DEF Refunds, Holds, e
  <2>10. slave'[e].is # "none"
    BY <1>3, <2>4, <2>5
  <2> QED
    BY <2>6, <2>7, <2>8, <2>9, <2>10 DEF StepOf, ApplicationStep, e
<1>7. c.done \in {"true", "false"}
  BY <1>0, <1>2 DEF WriterType
<1> QED
  BY <1>5, <1>6, <1>7

\* A step that changes no writer, or tells writers of e how their packets fared.
TellsOnly(e) ==
    \A w \in Writers :
        /\ writer'[w].at = writer[w].at /\ writer'[w].size = writer[w].size
        /\ \/ writer'[w] = writer[w]
           \/ EndOf[w] = e /\ (writer'[w].done \in {"true", writer[w].done} \/ Ended(slave'[e]))
LEMMA TellStep ==
    ASSUME Inv, NEW e \in Ends, slave'[Peer(e)] = slave[Peer(e)], TellsOnly(e),
           slave'[e].is = slave[e].is \/ ~Ended(slave[e])
    PROVE  /\ WritersTell' /\ KeepsWriters(e)
           /\ \A w \in Writers : EndOf[w] = Peer(e) => writer'[w] = writer[w]
<1>0. WritersTell /\ Peer(e) \in Ends /\ Peer(e) # e /\ Ends = {e, Peer(e)}
  BY EndFacts
<1>1. KeepsWriters(e)
  BY DEF TellsOnly, KeepsWriters
<1>2. \A w \in Writers : EndOf[w] = Peer(e) => writer'[w] = writer[w]
  BY <1>0 DEF TellsOnly
<1>3. ASSUME NEW w \in Writers
      PROVE  writer'[w].at # "idle" => writer'[w].size # 0
  BY <1>0 DEF TellsOnly, WritersTell
<1>4. ASSUME NEW w \in Writers, writer'[w].done = "false"
      PROVE  Ended(slave'[EndOf[w]])
  <2>1. EndOf[w] \in Ends
    BY MultiStreamAssumption DEF Ends
  <2>2. CASE writer'[w] = writer[w] \/ writer'[w].done = writer[w].done
    <3>1. Ended(slave[EndOf[w]])
      BY <1>0, <1>4, <2>2 DEF WritersTell
    <3> QED
      BY <1>0, <2>1, <3>1 DEF Ended
  <2>3. CASE ~(writer'[w] = writer[w] \/ writer'[w].done = writer[w].done)
    BY <1>4, <2>3 DEF TellsOnly
  <2> QED
    BY <2>2, <2>3
<1> QED
  BY <1>1, <1>2, <1>3, <1>4 DEF WritersTell

\* The barrier is queued.
LEMMA BarStep ==
    ASSUME Inv, NEW e \in Ends, slave[e].is # "none", NEW s \in SlaveType, Core(s) = Core(slave[e]),
           Push(e, s, Barrier), UNCHANGED <<cmd, tx, wire, down, writer, reader, got>>,
           closer' \in [Ends -> [at : {"idle", "put", "wait", "back"}, done : BOOLEAN]],
           closer'[Peer(e)].at = closer[Peer(e)].at
    PROVE  StepOf(e) /\ TypeOK' /\ WritersTell'
<1>0. TypeOK /\ WritersTell
  BY EndFacts
<1>1. /\ s.is = slave[e].is /\ s.credit = slave[e].credit /\ s.pending = slave[e].pending
      /\ s.cap = slave[e].cap /\ s.recvQ = slave[e].recvQ /\ s.sendQ = slave[e].sendQ /\ Barrier \in Frames
  BY FrameTypes DEF Core
<1>2. /\ slave' \in [Ends -> SlaveType] /\ queued' \in [Ends -> Seq(Names)]
      /\ slave'[Peer(e)] = slave[Peer(e)] /\ queued'[Peer(e)] = queued[Peer(e)]
      /\ slave'[e].is = s.is /\ slave'[e].credit = s.credit /\ slave'[e].pending = s.pending
      /\ slave'[e].cap = s.cap /\ slave'[e].recvQ = s.recvQ /\ Queues(e, Barrier)
  BY <1>1, PushStep
<1>3. TypeOK'
  BY <1>0, <1>2 DEF TypeOK, Names
<1>4. TellsOnly(e)
  BY DEF TellsOnly
<1>5. WritersTell'
  BY <1>1, <1>2, <1>4, TellStep
<1>6. Bars(e)
  BY <1>1, <1>2 DEF Bars, Holds
<1>7. Rests(Peer(e))
  BY <1>2 DEF Rests
<1> QED
  BY <1>1, <1>2, <1>3, <1>5, <1>6, <1>7 DEF StepOf, ApplicationStep

LEMMA CloseStep ==
    ASSUME Inv, NEW e \in Ends, Close(e)
    PROVE  StepOf(e) /\ TypeOK' /\ WritersTell'
<1> DEFINE s == [slave[e] EXCEPT !.closing = TRUE]
<1>0. TypeOK /\ WritersTell /\ slave[e] \in SlaveType /\ Peer(e) \in Ends /\ Peer(e) # e
  BY EndFacts
<1>1. s \in SlaveType /\ Core(s) = Core(slave[e]) /\ s.is = slave[e].is
  BY <1>0 DEF SlaveType, Core
<1>2. Open(s) /\ UNCHANGED <<cmd, tx, wire, down, writer, reader, got>>
  BY DEF Close
<1>3. slave[e].is # "none"
  BY <1>1, <1>2 DEF Open
<1>4. /\ closer' \in [Ends -> [at : {"idle", "put", "wait", "back"}, done : BOOLEAN]]
      /\ closer'[Peer(e)].at = closer[Peer(e)].at
  <2>1. PICK x \in {"wait", "put"} : closer' = [closer EXCEPT ![e].at = x]
    BY DEF Close
  <2>2. closer \in [Ends -> [at : {"idle", "put", "wait", "back"}, done : BOOLEAN]]
    BY <1>0 DEF TypeOK
  <2> QED
    BY <1>0, <2>1, <2>2
<1>5. IF HasRoom(s) THEN Push(e, s, Barrier) ELSE slave' = [slave EXCEPT ![e] = s] /\ UNCHANGED queued
  BY DEF Close
<1> HIDE DEF s
<1>6. CASE HasRoom(s)
  BY <1>1, <1>2, <1>3, <1>4, <1>5, <1>6, BarStep
<1>7. CASE ~HasRoom(s)
  <2>1. WritersQuiet(e)
    BY <1>0, <1>2 DEF WritersTell, WritersQuiet
  <2> QED
    BY <1>0, <1>1, <1>2, <1>3, <1>4, <1>5, <1>7, <2>1, QuietStep DEF TypeOK
<1> QED
  BY <1>6, <1>7

LEMMA ClosePutsStep ==
    ASSUME Inv, NEW e \in Ends, ClosePuts(e)
    PROVE  StepOf(e) /\ TypeOK' /\ WritersTell'
<1>0. TypeOK /\ slave[e] \in SlaveType /\ Peer(e) \in Ends /\ Peer(e) # e
  BY EndFacts
<1>1. slave[e].is # "none"
  BY DEF ClosePuts, Inv, SilentBefore
<1>2. /\ closer' \in [Ends -> [at : {"idle", "put", "wait", "back"}, done : BOOLEAN]]
      /\ closer'[Peer(e)].at = closer[Peer(e)].at
  BY <1>0 DEF ClosePuts, TypeOK
<1>3. Push(e, slave[e], Barrier) /\ UNCHANGED <<cmd, tx, wire, down, writer, reader, got>>
  BY DEF ClosePuts
<1> QED
  BY <1>0, <1>1, <1>2, <1>3, BarStep

\* The packets of e are those of its own writers.
LEMMA OwnWriters ==
    ASSUME NEW e \in Ends, NEW q \in Seq(Commands(e) \cup Packed(e) \cup {Barrier})
    PROVE  /\ q \in Seq(Frames)
           /\ \A w \in Writers : (\E i \in DOMAIN q : q[i].by = w) => EndOf[w] = e
<1>1. Commands(e) \cup Packed(e) \cup {Barrier} \subseteq Frames
  BY FrameTypes DEF Commands, Packed
<1>2. q \in Seq(Frames)
  <2>1. \A i \in 1..Len(q) : q[i] \in Frames
    BY <1>1
  <2> QED
    BY <2>1
<1>3. ASSUME NEW w \in Writers, NEW i \in DOMAIN q, q[i].by = w
      PROVE  EndOf[w] = e
  <2>1. q[i] \in Commands(e) \cup Packed(e) \cup {Barrier}
    OBVIOUS
  <2>2. CASE q[i] \in Commands(e)
    BY <1>3, <2>2, MultiStreamAssumption DEF Commands
  <2>3. CASE q[i] \in Packed(e)
    BY <1>3, <2>3 DEF Packed
  <2>4. CASE q[i] = Barrier
    BY <1>3, <2>4, MultiStreamAssumption DEF Barrier, Frame
  <2> QED
    BY <2>1, <2>2, <2>3, <2>4
<1> QED
  BY <1>2, <1>3

LEMMA SeqWider ==
    ASSUME NEW S, NEW T, S \subseteq T, NEW q \in Seq(S)
    PROVE  q \in Seq(T)
<1>1. \A i \in 1..Len(q) : q[i] \in T
  OBVIOUS
<1> QED
  BY <1>1

LEMMA SentFrames ==
    ASSUME Inv, NEW e \in Ends
    PROVE  slave[e].sendQ \in Seq(Commands(e) \cup Packed(e) \cup {Barrier})
<1>1. slave[e].sendQ \in Seq(Packed(e) \cup {Barrier})
  BY DEF Inv, FramesTell
<1>2. Packed(e) \cup {Barrier} \subseteq Commands(e) \cup Packed(e) \cup {Barrier}
  OBVIOUS
<1> QED
  BY <1>1, <1>2, SeqWider

LEMMA DiscardStep ==
    ASSUME Inv, NEW e \in Ends, Open(slave[e]), NEW reason \in {"aborted", "normal", "reset", "broken"},
           slave' = [slave EXCEPT ![e] = Finish(e, slave[e], reason, TRUE)],
           NEW q \in Seq(Commands(e) \cup Packed(e) \cup {Barrier}), writer' = TellWriters(q, "false"),
           closer' = TellCloser(e)
    PROVE  /\ slave' \in [Ends -> SlaveType] /\ slave'[Peer(e)] = slave[Peer(e)]
           /\ writer' \in [Writers -> WriterType] /\ TellsOnly(e)
           /\ closer' \in [Ends -> [at : {"idle", "put", "wait", "back"}, done : BOOLEAN]]
           /\ closer'[Peer(e)].at = closer[Peer(e)].at
           /\ slave'[e].sendQ = <<>> /\ Finishes(e, reason) /\ WritersTell' /\ slave'[e].is # "none"
           /\ \A w \in Writers : EndOf[w] = Peer(e) => writer'[w] = writer[w]
<1> DEFINE new == Discarded(e, slave[e], reason)
<1>0. TypeOK /\ slave[e] \in SlaveType /\ Peer(e) \in Ends /\ Peer(e) # e /\ slave[e].recvQ \in Seq(Frames)
  BY EndFacts
<1>1. /\ new \in SlaveType /\ new.is = reason /\ new.credit = slave[e].credit /\ new.pending = slave[e].pending
      /\ new.cap = slave[e].cap /\ new.recvQ = WakeReceivers(e, slave[e].recvQ) /\ new.sendQ = <<>>
  <2>1. reason \in {"aborted", "closed", "normal", "reset", "broken"}
    OBVIOUS
  <2> QED
    BY <1>0, <2>1, FinishDiscards
<1> HIDE DEF new
<1>2. slave' \in [Ends -> SlaveType] /\ slave'[Peer(e)] = slave[Peer(e)] /\ slave'[e] = new
  BY <1>0, <1>1 DEF TypeOK, Discarded, new
<1>3. /\ writer' \in [Writers -> WriterType]
      /\ \A w \in Writers : /\ writer'[w].at = writer[w].at /\ writer'[w].size = writer[w].size
                            /\ writer'[w] # writer[w] => EndOf[w] = e
  <2>1. /\ q \in Seq(Frames)
        /\ \A w \in Writers : (\E i \in DOMAIN q : q[i].by = w) => EndOf[w] = e
    BY OwnWriters
  <2> QED
    BY <1>0, <2>1, WritersTold
<1>4. Ended(slave'[e])
  BY <1>1, <1>2 DEF Ended
<1>5. TellsOnly(e)
  BY <1>3, <1>4 DEF TellsOnly
<1>6. /\ WritersTell' /\ KeepsWriters(e)
      /\ \A w \in Writers : EndOf[w] = Peer(e) => writer'[w] = writer[w]
  <2>1. ~Ended(slave[e])
    BY DEF Open, Ended
  <2> QED
    BY <1>2, <1>5, <2>1, TellStep
<1>7. Finishes(e, reason)
  <2>1. PICK pills \in Seq({Pill}) : WakeReceivers(e, slave[e].recvQ) = slave[e].recvQ \o pills
    BY <1>0, ReceiversWoken
  <2> QED
    BY <1>1, <1>2, <1>6, <2>1 DEF Finishes
<1>8. /\ closer' \in [Ends -> [at : {"idle", "put", "wait", "back"}, done : BOOLEAN]]
      /\ closer'[Peer(e)].at = closer[Peer(e)].at
  BY <1>0 DEF TellCloser, TypeOK
<1> QED
  BY <1>1, <1>2, <1>3, <1>5, <1>6, <1>7, <1>8

LEMMA AbortSlaveStep ==
    ASSUME Inv, NEW e \in Ends, AbortSlave(e)
    PROVE  StepOf(e) /\ TypeOK' /\ WritersTell'
<1>0. TypeOK /\ Peer(e) \in Ends /\ Peer(e) # e /\ RESET(1) \in Frames
  BY EndFacts, FrameTypes
<1>1. slave[e].sendQ \in Seq(Commands(e) \cup Packed(e) \cup {Barrier})
  BY SentFrames
<1>2. /\ slave' \in [Ends -> SlaveType] /\ slave'[Peer(e)] = slave[Peer(e)]
      /\ writer' \in [Writers -> WriterType]
      /\ closer' \in [Ends -> [at : {"idle", "put", "wait", "back"}, done : BOOLEAN]]
      /\ closer'[Peer(e)].at = closer[Peer(e)].at
      /\ slave'[e].sendQ = <<>> /\ Finishes(e, "aborted") /\ WritersTell' /\ slave'[e].is # "none"
      /\ \A w \in Writers : EndOf[w] = Peer(e) => writer'[w] = writer[w]
  BY <1>1, DiscardStep DEF AbortSlave, Discard
<1>3. cmd' = [cmd EXCEPT ![e] = Append(@, RESET(1))] /\ UNCHANGED <<tx, wire, down, reader, got, queued>>
  BY DEF AbortSlave
<1>4. cmd' \in [Ends -> Seq(Frames)] /\ cmd'[e] = Append(cmd[e], RESET(1)) /\ cmd'[Peer(e)] = cmd[Peer(e)]
  BY <1>0, <1>3 DEF TypeOK
<1>5. TypeOK'
  BY <1>0, <1>2, <1>3, <1>4 DEF TypeOK
<1>6. Rests(Peer(e)) /\ AbortsSlave(e)
  BY <1>2, <1>3, <1>4 DEF Rests, AbortsSlave
<1> QED
  BY <1>2, <1>5, <1>6 DEF StepOf, ApplicationStep

LEMMA ReceivedFrames ==
    ASSUME Inv, NEW e \in Ends
    PROVE  slave[e].recvQ \in Seq(Packed(Peer(e)) \cup {Pill})
<1>1. Peer(e) \in Ends /\ Peer(Peer(e)) = e
  BY EndFacts
<1> QED
  BY <1>1 DEF Inv, FramesTell

LEMMA RecvPacketStep ==
    ASSUME Inv, NEW r \in Readers, RecvPacket(r)
    PROVE  StepOf(EndOf[r]) /\ TypeOK' /\ WritersTell'
<1> DEFINE e == EndOf[r]
           f == Head(slave[e].recvQ)
           s == [slave[e] EXCEPT !.recvQ = Tail(@), !.pending = IF Open(slave[e]) THEN @ + f.arg ELSE @]
           n == IF Open(slave[e]) THEN slave[e].pending + f.arg ELSE slave[e].pending
<1>0. e \in Ends
  BY Parts DEF Inv
<1>1. /\ slave[e].taken /\ slave[e].recvQ # <<>> /\ reader' = [reader EXCEPT ![r] = "idle"]
      /\ got' = (IF f.type = "PILL" THEN got ELSE [got EXCEPT ![e] = Append(@, f.n)])
      /\ UNCHANGED <<tx, wire, down, writer, closer, queued>>
  BY DEF RecvPacket
<1>2. IF Open(s) /\ ReturnsCredit(s)
      THEN /\ slave' = [slave EXCEPT ![e] = [s EXCEPT !.pending = 0]]
           /\ cmd' = [cmd EXCEPT ![e] = Append(@, Command("WINDOW", s.pending))]
      ELSE slave' = [slave EXCEPT ![e] = s] /\ UNCHANGED cmd
  BY DEF RecvPacket
<1> HIDE DEF e
<1>3. /\ TypeOK /\ slave[e] \in SlaveType /\ Peer(e) \in Ends /\ Peer(e) # e
      /\ slave[e].recvQ \in Seq(Frames) /\ slave[e].pending \in Nat
  BY <1>0, EndFacts DEF SlaveType
<1>4. f \in Frames /\ f \in Packed(Peer(e)) \cup {Pill} /\ f.arg \in Nat /\ f.n \in Names
  <2>1. slave[e].recvQ \in Seq(Packed(Peer(e)) \cup {Pill})
    BY <1>0, ReceivedFrames
  <2>2. f \in Frames /\ f \in Packed(Peer(e)) \cup {Pill}
    BY <1>1, <1>3, <2>1
  <2> QED
    BY <2>2 DEF Frames, Names
<1>5. slave[e].is # "none"
  BY <1>0, <1>1 DEF Inv, SilentBefore, NoSlave
<1> HIDE DEF f
<1>6. n \in Nat
  <2>1. slave[e].pending + f.arg \in Nat
    BY <1>3, <1>4
  <2> QED
    BY <1>3, <2>1
<1>7. s = [slave[e] EXCEPT !.recvQ = Tail(slave[e].recvQ), !.pending = n]
  BY <1>3 DEF SlaveType
<1> HIDE DEF n
<1>8. /\ s \in SlaveType /\ s.is = slave[e].is /\ s.credit = slave[e].credit /\ s.pending = n
      /\ s.cap = slave[e].cap /\ s.recvQ = Tail(slave[e].recvQ) /\ s.sendQ = slave[e].sendQ
  <2>1. Tail(slave[e].recvQ) \in Seq(Frames)
    BY <1>1, <1>3
  <2> HIDE DEF s
  <2> QED
    BY <1>3, <1>6, <1>7, <2>1 DEF SlaveType
<1> HIDE DEF s
<1>9. /\ [s EXCEPT !.pending = 0] \in SlaveType /\ [s EXCEPT !.pending = 0].is = slave[e].is
      /\ [s EXCEPT !.pending = 0].credit = slave[e].credit /\ [s EXCEPT !.pending = 0].pending = 0
      /\ [s EXCEPT !.pending = 0].cap = slave[e].cap
      /\ [s EXCEPT !.pending = 0].recvQ = Tail(slave[e].recvQ) /\ [s EXCEPT !.pending = 0].sendQ = slave[e].sendQ
  BY <1>8 DEF SlaveType
<1>10. /\ got' \in [Ends -> Seq(Names)] /\ got'[Peer(e)] = got[Peer(e)]
       /\ got'[e] = got[e] \o (IF f.type = "PILL" THEN <<>> ELSE <<f.n>>)
  <2>1. got \in [Ends -> Seq(Names)] /\ got[e] \in Seq(Names)
    BY <1>0, <1>3 DEF TypeOK, Names
  <2>2. CASE f.type = "PILL"
    BY <1>0, <1>1, <1>3, <2>1, <2>2
  <2>3. CASE f.type # "PILL"
    <3>1. got' = [got EXCEPT ![e] = Append(got[e], f.n)]
      BY <1>1, <2>3
    <3>2. Append(got[e], f.n) \in Seq(Names) /\ Append(got[e], f.n) = got[e] \o <<f.n>>
      BY <1>4, <2>1, AppendIsConcat
    <3> QED
      BY <1>0, <1>3, <2>1, <2>3, <3>1, <3>2
  <2> QED
    BY <2>2, <2>3
<1>11. /\ slave' \in [Ends -> SlaveType] /\ slave'[Peer(e)] = slave[Peer(e)]
       /\ cmd' \in [Ends -> Seq(Frames)] /\ cmd'[Peer(e)] = cmd[Peer(e)]
       /\ slave'[e].is = slave[e].is /\ slave'[e].credit = slave[e].credit
       /\ slave'[e].cap = slave[e].cap /\ slave'[e].recvQ = Tail(slave[e].recvQ) /\ slave'[e].sendQ = slave[e].sendQ
       /\ \/ Open(slave[e]) /\ slave'[e].pending = 0 /\ cmd'[e] = Append(cmd[e], Command("WINDOW", n))
          \/ slave'[e].pending = n /\ cmd'[e] = cmd[e]
  <2>1. CASE Open(s) /\ ReturnsCredit(s)
    <3>1. /\ slave' = [slave EXCEPT ![e] = [s EXCEPT !.pending = 0]]
          /\ cmd' = [cmd EXCEPT ![e] = Append(cmd[e], Command("WINDOW", n))]
      BY <1>2, <1>8, <2>1
    <3>2. Command("WINDOW", n) \in Frames
      BY <1>6, FrameTypes
    <3>3. Append(cmd[e], Command("WINDOW", n)) \in Seq(Frames)
      BY <1>0, <1>3, <3>2 DEF TypeOK
    <3>4. cmd' \in [Ends -> Seq(Frames)] /\ cmd'[Peer(e)] = cmd[Peer(e)] /\ cmd'[e] = Append(cmd[e], Command("WINDOW", n))
      BY <1>0, <1>3, <3>1, <3>3 DEF TypeOK
    <3>5. slave' \in [Ends -> SlaveType] /\ slave'[Peer(e)] = slave[Peer(e)] /\ slave'[e] = [s EXCEPT !.pending = 0]
      BY <1>0, <1>3, <1>9, <3>1 DEF TypeOK
    <3> QED
      BY <1>8, <1>9, <2>1, <3>4, <3>5 DEF Open
  <2>2. CASE ~(Open(s) /\ ReturnsCredit(s))
    <3>1. slave' = [slave EXCEPT ![e] = s] /\ cmd' = cmd
      BY <1>2, <2>2
    <3>2. slave' \in [Ends -> SlaveType] /\ slave'[Peer(e)] = slave[Peer(e)] /\ slave'[e] = s
      BY <1>0, <1>3, <1>8, <3>1 DEF TypeOK
    <3> QED
      BY <1>3, <1>8, <3>1, <3>2 DEF TypeOK
  <2> QED
    BY <2>1, <2>2
<1>12. TypeOK'
  <2>1. reader' \in [Readers -> {"idle", "get"}]
    BY <1>1, <1>3 DEF TypeOK
  <2> QED
    BY <1>1, <1>3, <1>10, <1>11, <2>1 DEF TypeOK, Names
<1>13. WritersTell'
  <2>1. TellsOnly(e)
    BY <1>1 DEF TellsOnly
  <2> QED
    BY <1>0, <1>11, <2>1, TellStep
<1>14. Gets(e, f)
  BY <1>1, <1>5, <1>10, <1>11 DEF Gets, f, n
<1>15. Rests(Peer(e))
  BY <1>1, <1>10, <1>11 DEF Rests
<1>16. StepOf(e)
  BY <1>4, <1>5, <1>11, <1>14, <1>15 DEF StepOf, ApplicationStep
<1> QED
  BY <1>12, <1>13, <1>16 DEF e

LEMMA SetReceivingCapacityStep ==
    ASSUME Inv, NEW e \in Ends, NEW bytes \in NewCaps, SetReceivingCapacity(e, bytes)
    PROVE  StepOf(e) /\ TypeOK' /\ WritersTell'
<1> DEFINE s == slave[e]
           new == [slave[e] EXCEPT !.cap = bytes]
           d == Command("WINDOW", bytes - s.cap)
<1>0. TypeOK /\ s \in SlaveType /\ Peer(e) \in Ends /\ Peer(e) # e /\ bytes \in Nat /\ s.cap \in Nat
  BY EndFacts, MultiStreamAssumption DEF SlaveType
<1>1. /\ s.taken /\ slave' = [slave EXCEPT ![e] = new]
      /\ cmd' = (IF bytes > s.cap /\ Open(s) THEN [cmd EXCEPT ![e] = Append(cmd[e], d)] ELSE cmd)
      /\ UNCHANGED <<tx, wire, down, writer, reader, closer, got, queued>>
  BY DEF SetReceivingCapacity, calls
<1>2. /\ new \in SlaveType /\ new.is = s.is /\ new.credit = s.credit /\ new.pending = s.pending
      /\ new.cap = bytes /\ new.recvQ = s.recvQ /\ new.sendQ = s.sendQ
  BY <1>0 DEF SlaveType
<1> HIDE DEF new
<1>3. slave' \in [Ends -> SlaveType] /\ slave'[Peer(e)] = slave[Peer(e)] /\ slave'[e] = new
  BY <1>0, <1>1, <1>2 DEF TypeOK
<1>4. s.is # "none"
  BY <1>1 DEF Inv, SilentBefore, NoSlave
<1>5. /\ cmd' \in [Ends -> Seq(Frames)] /\ cmd'[Peer(e)] = cmd[Peer(e)]
      /\ IF bytes > s.cap /\ Open(s) THEN cmd'[e] = Append(cmd[e], d) ELSE cmd'[e] = cmd[e]
  <2>1. CASE bytes > s.cap /\ Open(s)
    <3>1. bytes - s.cap \in Nat
      BY <1>0, <2>1
    <3>2. d \in Frames
      BY <3>1, FrameTypes
    <3> HIDE DEF d
    <3>3. Append(cmd[e], d) \in Seq(Frames)
      BY <1>0, <3>2 DEF TypeOK
    <3> QED
      BY <1>0, <1>1, <2>1, <3>3 DEF TypeOK
  <2>2. CASE ~(bytes > s.cap /\ Open(s))
    BY <1>0, <1>1, <2>2 DEF TypeOK
  <2> QED
    BY <2>1, <2>2
<1>6. TypeOK'
  BY <1>0, <1>1, <1>3, <1>5 DEF TypeOK
<1>7. WritersTell'
  <2>1. TellsOnly(e)
    BY <1>1 DEF TellsOnly
  <2> QED
    BY <1>2, <1>3, <2>1, TellStep
<1>8. Resizes(e)
  BY <1>1, <1>2, <1>3, <1>4, <1>5 DEF Resizes
<1>9. Rests(Peer(e))
  BY <1>1, <1>3, <1>5 DEF Rests
<1> QED
  BY <1>2, <1>3, <1>4, <1>6, <1>7, <1>8, <1>9 DEF StepOf, ApplicationStep

LEMMA LeastExists ==
    ASSUME NEW S, S \subseteq Nat, S # {}
    PROVE  \E i \in S : \A j \in S : i <= j
<1> DEFINE R == {ss \in Nat \X Nat : ss[1] < ss[2]}
<1>1. R = OpToRel(<, Nat)
  BY DEF OpToRel
<1>2. IsWellFoundedOn(R, Nat)
  <2> HIDE DEF R
  <2> QED
    BY <1>1, NatLessThanWellFounded, Zenon
<1>3. PICK i \in S : \A j \in S : ~(<<j, i>> \in R)
  <2> HIDE DEF R
  <2> QED
    BY <1>2, WFMin
<1>4. ASSUME NEW j \in S PROVE i <= j
  <2>1. i \in Nat /\ j \in Nat /\ ~(<<j, i>> \in R)
    BY <1>3
  <2> QED
    BY <2>1
<1> QED
  BY <1>4

\* The packets that doSend() still finds end with the first barrier.
LEMMA SendableIs ==
    ASSUME NEW s \in SlaveType
    PROVE  \E m \in 0..Len(s.sendQ) :
              /\ Sendable(s) = SubSeq(s.sendQ, 1, m) /\ (m # 0 => Open(s))
              /\ \A i \in 1..m : s.sendQ[i].type = "BARRIER" => i = m
<1> DEFINE q == s.sendQ
           stops == {i \in DOMAIN q : q[i].type = "BARRIER"}
           k == CHOOSE i \in stops : \A j \in stops : i <= j
<1>1. q \in Seq(Frames) /\ Len(q) \in Nat /\ DOMAIN q = 1..Len(q)
  BY DEF SlaveType
<1>2. CASE ~Open(s)
  <2>1. Sendable(s) = <<>>
    BY <1>2 DEF Sendable
  <2>2. SubSeq(q, 1, 0) = <<>> /\ 0 \in 0..Len(q) /\ 1..0 = {}
    BY <1>1
  <2> QED
    BY <2>1, <2>2
<1>3. CASE Open(s) /\ stops = {}
  <2>1. Sendable(s) = q
    BY <1>3 DEF Sendable
  <2>2. SubSeq(q, 1, Len(q)) = q /\ Len(q) \in 0..Len(q)
    BY <1>1
  <2>3. \A i \in 1..Len(q) : q[i].type # "BARRIER"
    BY <1>1, <1>3
  <2> QED
    BY <1>3, <2>1, <2>2, <2>3
<1>4. CASE Open(s) /\ stops # {}
  <2>1. Sendable(s) = SubSeq(q, 1, k)
    BY <1>4 DEF Sendable
  <2>2. k \in stops /\ \A j \in stops : k <= j
    <3>1. stops \subseteq Nat
      BY <1>1
    <3> HIDE DEF stops
    <3>2. \E i \in stops : \A j \in stops : i <= j
      BY <1>4, <3>1, LeastExists
    <3> QED
      BY <3>2
  <2>3. k \in 0..Len(q)
    BY <1>1, <2>2
  <2>4. ASSUME NEW i \in 1..k, q[i].type = "BARRIER" PROVE i = k
    <3> HIDE DEF k
    <3>1. i \in stops
      BY <1>1, <2>3, <2>4
    <3>2. k <= i
      BY <2>2, <3>1
    <3> QED
      BY <2>3, <3>2
  <2> HIDE DEF k
  <2> QED
    BY <1>4, <2>1, <2>3, <2>4
<1> QED
  BY <1>2, <1>3, <1>4

\* The first n frames of commands and packets.
LEMMA FirstOf ==
    ASSUME NEW a \in Seq(Frames), NEW b \in Seq(Frames), NEW c \in 0..Len(a), NEW k \in 0..Len(b),
           c # Len(a) => k = 0
    PROVE  SubSeq(a \o b, 1, c + k) = SubSeq(a, 1, c) \o SubSeq(b, 1, k)
<1> DEFINE ab == a \o b
           x == SubSeq(a, 1, c)
           y == SubSeq(b, 1, k)
           z == SubSeq(ab, 1, c + k)
<1>1. ab \in Seq(Frames) /\ Len(ab) = Len(a) + Len(b)
  OBVIOUS
<1>2. x \in Seq(Frames) /\ Len(x) = c /\ \A i \in 1..c : x[i] = a[i]
  BY SplitAt
<1>3. y \in Seq(Frames) /\ Len(y) = k /\ \A i \in 1..k : y[i] = b[i]
  BY SplitAt
<1>4. c + k \in 0..Len(ab)
  BY <1>1
<1>5. z \in Seq(Frames) /\ Len(z) = c + k /\ \A i \in 1..(c + k) : z[i] = ab[i]
  <2> HIDE DEF ab
  <2> QED
    BY <1>1, <1>4, SplitAt
<1>6. \A i \in 1..(c + k) : ab[i] = IF i <= c THEN a[i] ELSE b[i - c]
  <2> SUFFICES ASSUME NEW i \in 1..(c + k) PROVE ab[i] = IF i <= c THEN a[i] ELSE b[i - c]
    OBVIOUS
  <2>1. CASE i <= c
    <3>1. i \in 1..Len(a)
      BY <2>1
    <3> QED
      BY <2>1, <3>1
  <2>2. CASE ~(i <= c)
    <3>1. c = Len(a) /\ i \in (Len(a) + 1)..(Len(a) + Len(b))
      BY <2>2
    <3> QED
      BY <2>2, <3>1
  <2> QED
    BY <2>1, <2>2
<1> HIDE DEF x, y, z, ab
<1>7. x \o y \in Seq(Frames) /\ Len(x \o y) = c + k
  BY <1>2, <1>3, ConcatProperties
<1>8. \A i \in 1..(c + k) : (x \o y)[i] = IF i <= c THEN x[i] ELSE y[i - c]
  <2>1. \A i \in 1..(Len(x) + Len(y)) : (x \o y)[i] = IF i <= Len(x) THEN x[i] ELSE y[i - Len(x)]
    BY <1>2, <1>3, ConcatProperties
  <2> QED
    BY <1>2, <1>3, <2>1
<1>9. \A i \in 1..(c + k) : (x \o y)[i] = z[i]
  <2> SUFFICES ASSUME NEW i \in 1..(c + k) PROVE (x \o y)[i] = z[i]
    OBVIOUS
  <2>1. CASE i <= c
    BY <1>2, <1>5, <1>6, <1>8, <2>1
  <2>2. CASE ~(i <= c)
    <3>1. i - c \in 1..k
      BY <2>2
    <3> QED
      BY <1>3, <1>5, <1>6, <1>8, <2>2, <3>1
  <2> QED
    BY <2>1, <2>2
<1> DEFINE xy == x \o y
<1>10. xy \in Seq(Frames) /\ Len(xy) = Len(z) /\ z \in Seq(Frames) /\ \A i \in 1..Len(z) : xy[i] = z[i]
  BY <1>5, <1>7, <1>9
<1> HIDE DEF xy
<1>11. xy = z
  BY <1>10
<1> QED
  BY <1>11 DEF xy, x, y, z, ab

\* What the operations on queues do to Has() and OnlyFirst().
LEMMA HasAppend ==
    ASSUME NEW q \in Seq(Frames), NEW f \in Frames, NEW type
    PROVE  /\ Has(Append(q, f), type) <=> Has(q, type) \/ f.type = type
           /\ OnlyFirst(q, type) /\ (f.type = type => q = <<>>) => OnlyFirst(Append(q, f), type)
<1> DEFINE r == Append(q, f)
<1>1. /\ r \in Seq(Frames) /\ Len(r) = Len(q) + 1 /\ DOMAIN r = 1..(Len(q) + 1) /\ DOMAIN q = 1..Len(q)
      /\ \A i \in 1..Len(q) : r[i] = q[i]
      /\ r[Len(q) + 1] = f /\ Len(q) \in Nat /\ (q = <<>> => Len(q) = 0)
  OBVIOUS
<1> HIDE DEF r
<1>2. \A i \in 1..(Len(q) + 1) : i \in 1..Len(q) \/ i = Len(q) + 1
  BY <1>1
<1>3. Has(r, type) <=> Has(q, type) \/ f.type = type
  BY <1>1, <1>2 DEF Has
<1>4. ASSUME OnlyFirst(q, type), f.type = type => q = <<>>, NEW i \in DOMAIN r, r[i].type = type
      PROVE  i = 1
  <2>1. CASE i \in 1..Len(q)
    BY <1>1, <1>4, <2>1 DEF OnlyFirst
  <2>2. CASE i = Len(q) + 1
    BY <1>1, <1>4, <2>2
  <2> QED
    BY <1>1, <1>2, <2>1, <2>2
<1> QED
  BY <1>3, <1>4 DEF OnlyFirst, r

LEMMA HasTail ==
    ASSUME NEW q \in Seq(Frames), q # <<>>, NEW type
    PROVE  /\ Has(q, type) <=> Head(q).type = type \/ Has(Tail(q), type)
           /\ OnlyFirst(q, type) => OnlyFirst(Tail(q), type) /\ ~Has(Tail(q), type)
           /\ Head(q) \in Frames /\ Tail(q) \in Seq(Frames)
<1> DEFINE r == Tail(q)
<1>1. /\ r \in Seq(Frames) /\ DOMAIN r = 1..(Len(q) - 1) /\ DOMAIN q = 1..Len(q) /\ Len(q) \in Nat
      /\ \A i \in 1..(Len(q) - 1) : r[i] = q[i + 1]
      /\ Head(q) = q[1] /\ Len(q) # 0 /\ Head(q) \in Frames
  OBVIOUS
<1> HIDE DEF r
<1>2. Has(q, type) => Head(q).type = type \/ Has(r, type)
  <2> SUFFICES ASSUME NEW i \in DOMAIN q, q[i].type = type, i # 1 PROVE Has(r, type)
    BY <1>1 DEF Has
  <2>1. i - 1 \in DOMAIN r /\ r[i - 1] = q[i]
    BY <1>1
  <2> QED
    BY <2>1 DEF Has
<1>3. Head(q).type = type \/ Has(r, type) => Has(q, type)
  <2>1. 1 \in DOMAIN q /\ \A i \in DOMAIN r : i + 1 \in DOMAIN q /\ r[i] = q[i + 1]
    BY <1>1
  <2> QED
    BY <1>1, <2>1 DEF Has
<1>4. OnlyFirst(q, type) => ~Has(r, type)
  <2> SUFFICES ASSUME OnlyFirst(q, type), NEW i \in DOMAIN r, r[i].type = type PROVE FALSE
    BY DEF Has
  <2>1. i + 1 \in DOMAIN q /\ r[i] = q[i + 1] /\ i + 1 # 1
    BY <1>1
  <2> QED
    BY <2>1 DEF OnlyFirst
<1>5. ~Has(r, type) => OnlyFirst(r, type)
  BY DEF Has, OnlyFirst
<1> QED
  BY <1>1, <1>2, <1>3, <1>4, <1>5 DEF r

LEMMA HasConcat ==
    ASSUME NEW q \in Seq(Frames), NEW r \in Seq(Frames), NEW type
    PROVE  /\ Has(q \o r, type) <=> Has(q, type) \/ Has(r, type)
           /\ OnlyFirst(q, type) /\ OnlyFirst(r, type) /\ (Has(r, type) => q = <<>>) => OnlyFirst(q \o r, type)
           /\ OnlyFirst(q \o r, type) =>
                 OnlyFirst(q, type) /\ OnlyFirst(r, type) /\ (Has(r, type) => q = <<>>)
<1> DEFINE z == q \o r
           m == Len(q)
           n == Len(r)
<1>1. /\ z \in Seq(Frames) /\ DOMAIN z = 1..(m + n) /\ DOMAIN q = 1..m /\ DOMAIN r = 1..n
      /\ \A i \in 1..(m + n) : z[i] = IF i <= m THEN q[i] ELSE r[i - m]
      /\ m \in Nat /\ n \in Nat /\ (m = 0 <=> q = <<>>)
  OBVIOUS
<1> HIDE DEF z, m, n
<1>2. \A i \in 1..m : i \in 1..(m + n) /\ z[i] = q[i]
  BY <1>1
<1>3. \A i \in 1..n : m + i \in 1..(m + n) /\ z[m + i] = r[i]
  <2> SUFFICES ASSUME NEW i \in 1..n PROVE m + i \in 1..(m + n) /\ z[m + i] = r[i]
    OBVIOUS
  <2>1. m + i \in 1..(m + n) /\ ~(m + i <= m) /\ m + i - m = i
    BY <1>1
  <2> QED
    BY <1>1, <2>1
<1>4. ASSUME NEW i \in DOMAIN z
      PROVE  (i \in DOMAIN q /\ z[i] = q[i]) \/ (\E j \in DOMAIN r : i = m + j /\ z[i] = r[j])
  <2>1. CASE i <= m
    BY <1>1, <1>2, <2>1
  <2>2. CASE ~(i <= m)
    <3>1. i \in 1..(m + n) /\ m \in Nat /\ n \in Nat
      BY <1>1
    <3>2. i - m \in 1..n /\ i = m + (i - m)
      BY <2>2, <3>1
    <3>3. z[i] = r[i - m]
      BY <1>1, <2>2, <3>1
    <3> QED
      BY <1>1, <3>2, <3>3
  <2> QED
    BY <2>1, <2>2
<1>5. Has(z, type) <=> Has(q, type) \/ Has(r, type)
  <2>1. Has(z, type) => Has(q, type) \/ Has(r, type)
    BY <1>4 DEF Has
  <2>2. Has(q, type) \/ Has(r, type) => Has(z, type)
    BY <1>1, <1>2, <1>3 DEF Has
  <2> QED
    BY <2>1, <2>2
<1>6. ASSUME OnlyFirst(q, type), OnlyFirst(r, type), Has(r, type) => q = <<>> PROVE OnlyFirst(z, type)
  <2> SUFFICES ASSUME NEW i \in DOMAIN z, z[i].type = type PROVE i = 1
    BY DEF OnlyFirst
  <2>1. CASE i \in DOMAIN q /\ z[i] = q[i]
    BY <1>6, <2>1 DEF OnlyFirst
  <2>2. CASE \E j \in DOMAIN r : i = m + j /\ z[i] = r[j]
    <3>1. PICK j \in DOMAIN r : i = m + j /\ z[i] = r[j]
      BY <2>2
    <3>2. Has(r, type) /\ j = 1
      BY <1>6, <3>1 DEF Has, OnlyFirst
    <3> QED
      BY <1>1, <1>6, <3>1, <3>2
  <2> QED
    BY <1>4, <2>1, <2>2
<1>7. ASSUME OnlyFirst(z, type)
      PROVE  OnlyFirst(q, type) /\ OnlyFirst(r, type) /\ (Has(r, type) => q = <<>>)
  <2>1. OnlyFirst(q, type)
    BY <1>1, <1>2, <1>7 DEF OnlyFirst
  <2>2. ASSUME NEW j \in DOMAIN r, r[j].type = type PROVE j = 1 /\ m = 0
    <3>1. m + j \in DOMAIN z /\ z[m + j].type = type
      BY <1>1, <1>3, <2>2
    <3>2. m + j = 1 /\ j \in 1..n
      BY <1>1, <1>7, <3>1 DEF OnlyFirst
    <3> QED
      BY <1>1, <3>2
  <2> QED
    BY <1>1, <2>1, <2>2 DEF OnlyFirst, Has
<1> QED
  BY <1>5, <1>6, <1>7 DEF z

LEMMA NoBarrierInCommands ==
    ASSUME Inv, NEW e \in Ends
    PROVE  \A i \in DOMAIN cmd[e] : cmd[e][i].type # "BARRIER"
<1>1. cmd[e] \in Seq(Commands(e))
  BY DEF Inv, FramesTell
<1>2. \A i \in DOMAIN cmd[e] : cmd[e][i] \in Commands(e)
  BY <1>1
<1> QED
  BY <1>2 DEF Commands

LEMMA FillBatchStep ==
    ASSUME Inv, NEW e \in Ends, FillBatch(e)
    PROVE  StepOf(e) /\ TypeOK' /\ WritersTell'
<1> DEFINE a == cmd[e]
           b == slave[e].sendQ
           n == IF Len(Pending(e)) < Batch THEN Len(Pending(e)) ELSE Batch
           c == IF n < Len(a) THEN n ELSE Len(a)
           k == n - c
           batch == SubSeq(Pending(e), 1, n)
           p == SubSeq(a, 1, c)
           q == SubSeq(a, c + 1, Len(a))
           x == SubSeq(b, 1, k)
           y == SubSeq(b, k + 1, Len(b))
           s == [slave[e] EXCEPT !.sendQ = SubSeq(@, n - c + 1, Len(@))]
<1>0. /\ TypeOK /\ slave[e] \in SlaveType /\ a \in Seq(Frames) /\ b \in Seq(Frames)
      /\ Peer(e) \in Ends /\ Peer(e) # e /\ slave[e].recvQ \in Seq(Frames)
  BY EndFacts
<1>1. /\ ~down[e] /\ tx[e] = Idle /\ n > 0
      /\ tx' = [tx EXCEPT ![e] = [todo |-> batch, all |-> batch]]
      /\ cmd' = [cmd EXCEPT ![e] = q]
      /\ slave' = [slave EXCEPT ![e] = IF HasBarrier(batch) THEN Finish(e, s, "closed", FALSE) ELSE s]
      /\ UNCHANGED <<wire, down, writer, reader, closer, got, queued>>
  BY DEF FillBatch, calls
<1>2. PICK m \in 0..Len(b) :
         /\ Sendable(slave[e]) = SubSeq(b, 1, m) /\ (m # 0 => Open(slave[e]))
         /\ \A i \in 1..m : b[i].type = "BARRIER" => i = m
  BY <1>0, SendableIs
<1> DEFINE d == SubSeq(b, 1, m)
<1>3. d \in Seq(Frames) /\ Len(d) = m /\ \A i \in 1..m : d[i] = b[i]
  BY <1>0, SplitAt
<1>4. Pending(e) = a \o d
  BY <1>2 DEF Pending
<1> HIDE DEF a, b, d
<1>5. Len(Pending(e)) = Len(a) + m /\ Len(a) \in Nat /\ m \in Nat /\ Len(b) \in Nat /\ m <= Len(b)
  <2>1. Len(a \o d) = Len(a) + Len(d) /\ Len(a) \in Nat /\ Len(b) \in Nat
    BY <1>0, <1>3, ConcatProperties, LenProperties
  <2>2. m \in Nat /\ m <= Len(b)
    BY <1>2, <2>1
  <2> QED
    BY <1>3, <1>4, <2>1, <2>2
<1>6. Batch \in Nat
  BY MultiStreamAssumption
<1>7. /\ n \in Nat /\ c \in 0..Len(a) /\ k \in 0..m /\ k \in 0..Len(b) /\ c + k = n /\ (c # Len(a) => k = 0)
      /\ k = n - c
  BY <1>5, <1>6
<1> HIDE DEF n, c, k
<1>8. p \in Seq(Frames) /\ q \in Seq(Frames) /\ a = p \o q /\ Len(p) = c /\ Len(q) = Len(a) - c
  BY <1>0, <1>7, SplitAt
<1>9. /\ x \in Seq(Frames) /\ y \in Seq(Frames) /\ b = x \o y /\ Len(x) = k /\ Len(y) = Len(b) - k
      /\ \A i \in 1..k : x[i] = b[i]
  BY <1>0, <1>7, SplitAt
<1>10. batch = p \o x
  <2>1. SubSeq(a \o d, 1, c + k) = SubSeq(a, 1, c) \o SubSeq(d, 1, k)
    <3>1. k \in 0..Len(d)
      BY <1>3, <1>7
    <3>2. a \in Seq(Frames) /\ d \in Seq(Frames) /\ c \in 0..Len(a) /\ (c # Len(a) => k = 0)
      BY <1>0, <1>3, <1>7
    <3> QED
      BY <3>1, <3>2, FirstOf, Zenon
  <2>2. SubSeq(d, 1, k) = x
    <3> DEFINE z == SubSeq(d, 1, k)
    <3>1. z \in Seq(Frames) /\ Len(z) = k /\ \A i \in 1..k : z[i] = d[i]
      BY <1>3, <1>7, SplitAt
    <3> HIDE DEF x, z
    <3>2. \A i \in 1..k : i \in 1..m
      BY <1>5, <1>7
    <3>4. \A i \in 1..k : z[i] = x[i]
      BY <1>3, <1>9, <3>1, <3>2
    <3>5. z \in Seq(Frames) /\ x \in Seq(Frames) /\ Len(z) = Len(x) /\ \A i \in 1..Len(z) : z[i] = x[i]
      BY <1>9, <3>1, <3>4
    <3>3. z = x
      BY <3>5, SeqEqual
    <3> QED
      BY <3>3 DEF z
  <2> QED
    BY <1>4, <1>7, <2>1, <2>2
<1>11. s = [slave[e] EXCEPT !.sendQ = y]
  BY <1>0, <1>7 DEF SlaveType, b
<1> HIDE DEF p, q, x, y, batch, s
<1>12. /\ s \in SlaveType /\ s.is = slave[e].is /\ s.credit = slave[e].credit /\ s.pending = slave[e].pending
       /\ s.cap = slave[e].cap /\ s.recvQ = slave[e].recvQ /\ s.sendQ = y
  BY <1>0, <1>9, <1>11 DEF SlaveType
<1>13. q = <<>> \/ x = <<>>
  <2>1. Len(q) = 0 \/ Len(x) = 0
    BY <1>5, <1>7, <1>8, <1>9
  <2> QED
    BY <1>8, <1>9, <2>1, EmptySeq
<1>14. p \o x # <<>> /\ p \o x \in Seq(Frames)
  <2>1. p \o x \in Seq(Frames) /\ Len(p \o x) = Len(p) + Len(x)
    BY <1>8, <1>9, ConcatProperties
  <2>2. Len(p \o x) # 0
    BY <1>1, <1>7, <1>8, <1>9, <2>1
  <2> QED
    BY <2>1, <2>2
<1>15. x # <<>> => Open(slave[e])
  BY <1>2, <1>7, <1>9
<1>16. ASSUME NEW i \in DOMAIN x, x[i].type = "BARRIER" PROVE i = Len(x)
  <2>0. i \in 1..k
    BY <1>9, LenProperties
  <2>1. i \in 1..k /\ i \in 1..m
    BY <1>5, <1>7, <2>0
  <2>2. b[i].type = "BARRIER"
    BY <1>9, <1>16, <2>1
  <2>3. i = m
    BY <1>2, <2>1, <2>2
  <2> QED
    BY <1>5, <1>7, <1>9, <2>1, <2>3
<1>17. HasBarrier(batch) <=> Has(x, "BARRIER")
  <2>1. ~Has(a, "BARRIER")
    BY NoBarrierInCommands DEF Has, a
  <2>2. ~Has(p, "BARRIER")
    BY <1>8, <2>1, HasConcat
  <2>3. Has(p \o x, "BARRIER") <=> Has(x, "BARRIER")
    BY <1>8, <1>9, <2>2, HasConcat
  <2> QED
    BY <1>10, <2>3 DEF HasBarrier, Has
<1>18. /\ slave' \in [Ends -> SlaveType] /\ slave'[Peer(e)] = slave[Peer(e)]
       /\ slave'[e].sendQ = y /\ slave'[e].credit = slave[e].credit /\ slave'[e].pending = slave[e].pending
       /\ slave'[e].cap = slave[e].cap
       /\ IF Has(x, "BARRIER")
          THEN /\ slave'[e].is = "closed" /\ \E pills \in Seq({Pill}) : slave'[e].recvQ = slave[e].recvQ \o pills
          ELSE slave'[e].is = slave[e].is /\ slave'[e].recvQ = slave[e].recvQ
  <2>1. CASE HasBarrier(batch)
    <3> DEFINE new == Emptied(e, s, "closed")
    <3>1. slave' = [slave EXCEPT ![e] = new]
      BY <1>1, <2>1 DEF Emptied
    <3>2. /\ new \in SlaveType /\ new.is = "closed" /\ new.credit = s.credit /\ new.pending = s.pending
          /\ new.cap = s.cap /\ new.recvQ = WakeReceivers(e, s.recvQ) /\ new.sendQ = s.sendQ
      BY <1>0, <1>12, FinishKeeps
    <3> HIDE DEF new
    <3>3. slave' \in [Ends -> SlaveType] /\ slave'[Peer(e)] = slave[Peer(e)] /\ slave'[e] = new
      BY <1>0, <3>1, <3>2 DEF TypeOK
    <3>4. PICK pills \in Seq({Pill}) : WakeReceivers(e, slave[e].recvQ) = slave[e].recvQ \o pills
      BY <1>0, ReceiversWoken
    <3> QED
      BY <1>12, <1>17, <2>1, <3>2, <3>3, <3>4
  <2>2. CASE ~HasBarrier(batch)
    <3>1. slave' = [slave EXCEPT ![e] = s]
      BY <1>1, <2>2
    <3>2. slave' \in [Ends -> SlaveType] /\ slave'[Peer(e)] = slave[Peer(e)] /\ slave'[e] = s
      BY <1>0, <1>12, <3>1 DEF TypeOK
    <3> QED
      BY <1>12, <1>17, <2>2, <3>2
  <2> QED
    BY <2>1, <2>2
<1>19. /\ cmd' \in [Ends -> Seq(Frames)] /\ cmd'[Peer(e)] = cmd[Peer(e)] /\ cmd'[e] = q
       /\ tx' \in [Ends -> [todo : Seq(Frames), all : Seq(Frames)]] /\ tx'[Peer(e)] = tx[Peer(e)]
       /\ tx'[e] = [todo |-> p \o x, all |-> p \o x]
  <2>1. cmd' \in [Ends -> Seq(Frames)] /\ cmd'[Peer(e)] = cmd[Peer(e)] /\ cmd'[e] = q
    BY <1>0, <1>1, <1>8 DEF TypeOK
  <2>2. [todo |-> batch, all |-> batch] \in [todo : Seq(Frames), all : Seq(Frames)]
    BY <1>10, <1>14
  <2>3. /\ tx' \in [Ends -> [todo : Seq(Frames), all : Seq(Frames)]] /\ tx'[Peer(e)] = tx[Peer(e)]
        /\ tx'[e] = [todo |-> batch, all |-> batch]
    BY <1>0, <1>1, <2>2 DEF TypeOK
  <2> QED
    BY <1>10, <2>1, <2>3
<1>20. TypeOK'
  BY <1>0, <1>1, <1>18, <1>19 DEF TypeOK
<1>21. slave'[e].is = slave[e].is \/ (Open(slave[e]) /\ slave'[e].is = "closed")
  <2>1. Has(x, "BARRIER") => x # <<>>
    BY DEF Has
  <2> QED
    BY <1>15, <1>18, <2>1
<1>22. WritersTell'
  <2>1. TellsOnly(e)
    BY <1>1 DEF TellsOnly
  <2>2. slave'[e].is = slave[e].is \/ ~Ended(slave[e])
    BY <1>21 DEF Open, Ended
  <2> QED
    BY <1>18, <2>1, <2>2, TellStep
<1>23. Fills(e, p, q, x, y)
  BY <1>1, <1>8, <1>9, <1>13, <1>14, <1>15, <1>16, <1>18, <1>19 DEF Fills, a, b
<1>24. Rests(Peer(e))
  BY <1>1, <1>18, <1>19 DEF Rests
<1>25. slave'[e].is # "none"
  <2>1. a = <<>> /\ b = <<>> => p = <<>> /\ x = <<>>
    BY <1>7, <1>8, <1>9
  <2>2. slave[e].is = "none" => a = <<>> /\ b = <<>>
    BY DEF Inv, SilentBefore, NoSlave, a, b
  <2> QED
    BY <1>14, <1>21, <2>1, <2>2
<1> QED
  BY <1>8, <1>9, <1>20, <1>22, <1>23, <1>24, <1>25 DEF StepOf, MasterStep

LEMMA WriteFrameStep ==
    ASSUME Inv, NEW e \in Ends, WriteFrame(e)
    PROVE  StepOf(e) /\ TypeOK' /\ WritersTell'
<1> DEFINE f == Head(tx[e].todo)
           g == IF f.type = "BARRIER" THEN RESET(0) ELSE f
           last == Len(tx[e].todo) = 1
           t == IF last THEN Idle ELSE [todo |-> Tail(tx[e].todo), all |-> tx[e].all]
<1>0. /\ TypeOK /\ Peer(e) \in Ends /\ Peer(e) # e /\ tx[e].todo \in Seq(Frames) /\ tx[e].all \in Seq(Frames)
      /\ tx[e] \in [todo : Seq(Frames), all : Seq(Frames)] /\ wire[e] \in Seq(Frames)
  BY EndFacts DEF TypeOK
<1>1. /\ tx[e] # Idle /\ wire' = [wire EXCEPT ![e] = Append(@, g)] /\ tx' = [tx EXCEPT ![e] = t]
      /\ writer' = (IF last THEN TellWriters(tx[e].all, "true") ELSE writer)
      /\ closer' = (IF last /\ HasBarrier(tx[e].all) THEN [closer EXCEPT ![e].done = TRUE] ELSE closer)
      /\ UNCHANGED <<slave, cmd, down, reader, got, queued>>
  <2>1. tx[e] # Idle /\ wire' = [wire EXCEPT ![e] = Append(@, g)] /\ UNCHANGED <<slave, cmd, down, reader, got, queued>>
    BY DEF WriteFrame
  <2>2. tx' = [tx EXCEPT ![e] = t]
    BY DEF WriteFrame
  <2>3. writer' = (IF last THEN TellWriters(tx[e].all, "true") ELSE writer)
    BY DEF WriteFrame
  <2>4. closer' = (IF last /\ HasBarrier(tx[e].all) THEN [closer EXCEPT ![e].done = TRUE] ELSE closer)
    BY DEF WriteFrame
  <2> QED
    BY <2>1, <2>2, <2>3, <2>4
<1>2. tx[e].todo # <<>>
  BY <1>1 DEF Inv, SilentBefore
<1>3. f \in Frames /\ g \in Frames
  <2>1. f \in Frames /\ RESET(0) \in Frames
    BY <1>0, <1>2, HeadTailProperties, FrameTypes
  <2> QED
    BY <2>1
<1>4. wire' \in [Ends -> Seq(Frames)] /\ wire'[e] = Append(wire[e], g) /\ wire'[Peer(e)] = wire[Peer(e)]
  <2> HIDE DEF g
  <2> QED
    BY <1>0, <1>1, <1>3 DEF TypeOK
<1>5. /\ t \in [todo : Seq(Frames), all : Seq(Frames)] /\ t.todo = Tail(tx[e].todo)
      /\ t.all \in {<<>>, tx[e].all} /\ (t.todo = <<>> => t = Idle)
  <2>1. Tail(tx[e].todo) \in Seq(Frames) /\ Len(Tail(tx[e].todo)) = Len(tx[e].todo) - 1
    BY <1>0, <1>2, HeadTailProperties
  <2>2. CASE last
    <3> DEFINE r == Tail(tx[e].todo)
    <3>4. r \in Seq(Frames) /\ Len(r) = 0
      BY <2>1, <2>2
    <3> HIDE DEF r
    <3>5. r = <<>>
      BY <3>4, EmptySeq
    <3>1. Tail(tx[e].todo) = <<>>
      BY <3>5 DEF r
    <3>2. Idle.todo = <<>> /\ Idle.all = <<>> /\ Idle \in [todo : Seq(Frames), all : Seq(Frames)]
      BY EmptySeq DEF Idle
    <3>3. t = Idle
      BY <2>2
    <3> QED
      BY <3>1, <3>2, <3>3
  <2>3. CASE ~last
    <3>1. Len(Tail(tx[e].todo)) # 0
      BY <1>0, <2>1, <2>3, LenProperties
    <3>2. Tail(tx[e].todo) # <<>>
      BY <3>1, EmptySeq
    <3>3. t = [todo |-> Tail(tx[e].todo), all |-> tx[e].all]
      BY <1>0, <2>3
    <3>4. t \in [todo : Seq(Frames), all : Seq(Frames)] /\ t.todo = Tail(tx[e].todo) /\ t.all = tx[e].all
      <4> HIDE DEF t, last
      <4>1. tx[e].all \in Seq(Frames)
        BY <1>0
      <4> QED
        BY <2>1, <3>3, <4>1
    <3> QED
      BY <3>2, <3>4
  <2> QED
    BY <2>2, <2>3
<1> HIDE DEF t
<1>6. tx' \in [Ends -> [todo : Seq(Frames), all : Seq(Frames)]] /\ tx'[e] = t /\ tx'[Peer(e)] = tx[Peer(e)]
  BY <1>0, <1>1, <1>5 DEF TypeOK
<1>7. writer' \in [Writers -> WriterType] /\ TellsOnly(e)
  <2>1. CASE last
    <3> DEFINE q == tx[e].all
    <3>1. q \in Seq(Commands(e) \cup Packed(e) \cup {Barrier})
      BY DEF Inv, FramesTell
    <3> HIDE DEF q
    <3>2. /\ q \in Seq(Frames)
          /\ \A w \in Writers : (\E i \in DOMAIN q : q[i].by = w) => EndOf[w] = e
      BY <3>1, OwnWriters
    <3>3. writer' = TellWriters(q, "true")
      BY <1>1, <2>1 DEF q
    <3>4. /\ writer' \in [Writers -> WriterType]
          /\ \A w \in Writers : /\ writer'[w].at = writer[w].at /\ writer'[w].size = writer[w].size
                                /\ writer'[w] # writer[w] => EndOf[w] = e
                                /\ writer'[w].done \in {"true", writer[w].done}
      BY <1>0, <3>2, <3>3, WritersTold
    <3> QED
      BY <3>4 DEF TellsOnly
  <2>2. CASE ~last
    BY <1>0, <1>1, <2>2 DEF TypeOK, TellsOnly
  <2> QED
    BY <2>1, <2>2
<1>8. /\ closer' \in [Ends -> [at : {"idle", "put", "wait", "back"}, done : BOOLEAN]]
      /\ closer'[Peer(e)].at = closer[Peer(e)].at
  <2>1. CASE last /\ HasBarrier(tx[e].all)
    <3>1. closer' = [closer EXCEPT ![e].done = TRUE]
      BY <1>1, <2>1
    <3> QED
      BY <1>0, <3>1 DEF TypeOK
  <2>2. CASE ~(last /\ HasBarrier(tx[e].all))
    <3>1. closer' = closer
      BY <1>1, <2>2
    <3> QED
      BY <1>0, <3>1 DEF TypeOK
  <2> QED
    BY <2>1, <2>2
<1> HIDE DEF last
<1>9. TypeOK'
  BY <1>0, <1>1, <1>4, <1>6, <1>7, <1>8 DEF TypeOK
<1>10. WritersTell' /\ KeepsWriters(e) /\ \A w \in Writers : EndOf[w] = Peer(e) => writer'[w] = writer[w]
  BY <1>1, <1>7, TellStep
<1>11. Writes(e, f, g)
  BY <1>1, <1>2, <1>4, <1>5, <1>6, <1>10 DEF Writes
<1>12. Rests(Peer(e))
  BY <1>1, <1>6, <1>8, <1>10 DEF Rests
<1>13. slave'[e].is # "none"
  BY <1>1 DEF Inv, SilentBefore
<1> HIDE DEF f, g
<1> QED
  BY <1>3, <1>9, <1>10, <1>11, <1>12, <1>13 DEF StepOf, MasterStep

\* doReceive() takes the first frame that the peer has written.
LEMMA ConsumeStep ==
    ASSUME Inv, NEW e \in Ends, NEW type, Reads(e, type), Consume(e)
    PROVE  /\ wire[Peer(e)] # <<>> /\ Incoming(e) = Head(wire[Peer(e)]) /\ Incoming(e).type = type
           /\ Incoming(e) \in Frames /\ Incoming(e) \in Commands(Peer(e)) \cup Packed(Peer(e)) \cup {RESET(0)}
           /\ wire' \in [Ends -> Seq(Frames)] /\ wire'[e] = wire[e]
           /\ wire'[Peer(e)] = Tail(wire[Peer(e)]) /\ slave[Peer(e)].is # "none"
<1>0. TypeOK /\ Peer(e) \in Ends /\ Peer(e) # e /\ wire[Peer(e)] \in Seq(Frames)
  BY EndFacts
<1>1. wire[Peer(e)] # <<>> /\ Incoming(e) = Head(wire[Peer(e)]) /\ Incoming(e).type = type
  BY DEF Reads, Incoming
<1>2. wire[Peer(e)] \in Seq(Commands(Peer(e)) \cup Packed(Peer(e)) \cup {RESET(0)})
  BY <1>0 DEF Inv, FramesTell
<1>3. Incoming(e) \in Frames /\ Tail(wire[Peer(e)]) \in Seq(Frames)
  BY <1>0, <1>1, HeadTailProperties
<1>4. Incoming(e) \in Commands(Peer(e)) \cup Packed(Peer(e)) \cup {RESET(0)}
  BY <1>1, <1>2, HeadTailProperties
<1>5. wire' \in [Ends -> Seq(Frames)] /\ wire'[e] = wire[e] /\ wire'[Peer(e)] = Tail(wire[Peer(e)])
  BY <1>0, <1>3 DEF TypeOK, Consume
<1>6. slave[Peer(e)].is # "none"
  BY <1>0, <1>1 DEF Inv, SilentBefore
<1> QED
  BY <1>1, <1>3, <1>4, <1>5, <1>6

LEMMA OnDataStep ==
    ASSUME Inv, NEW e \in Ends, OnData(e)
    PROVE  StepOf(e) /\ TypeOK' /\ WritersTell'
<1> DEFINE f == Incoming(e)
           s == slave[e]
           new == [s EXCEPT !.recvQ = Append(s.recvQ, f)]
<1>0. TypeOK /\ Peer(e) \in Ends /\ Peer(e) # e /\ s \in SlaveType /\ s.recvQ \in Seq(Frames)
  BY EndFacts
<1>1. /\ wire[Peer(e)] # <<>> /\ f = Head(wire[Peer(e)]) /\ f.type = "DATA" /\ f \in Frames
      /\ wire' \in [Ends -> Seq(Frames)] /\ wire'[e] = wire[e] /\ wire'[Peer(e)] = Tail(wire[Peer(e)])
      /\ slave[Peer(e)].is # "none" /\ f \in Commands(Peer(e)) \cup Packed(Peer(e)) \cup {RESET(0)}
  BY ConsumeStep DEF OnData
<1>2. /\ slave' = (IF Open(s) THEN [slave EXCEPT ![e] = new] ELSE slave)
      /\ UNCHANGED <<cmd, tx, down, writer, reader, closer, got, queued>>
  BY DEF OnData, calls
<1> HIDE DEF f
<1>3. /\ new \in SlaveType /\ new.is = s.is /\ new.credit = s.credit /\ new.pending = s.pending
      /\ new.cap = s.cap /\ new.recvQ = Append(s.recvQ, f) /\ new.sendQ = s.sendQ
  <2>1. Append(s.recvQ, f) \in Seq(Frames)
    BY <1>0, <1>1
  <2> QED
    BY <1>0, <2>1 DEF SlaveType
<1> HIDE DEF new
<1>4. /\ slave' \in [Ends -> SlaveType] /\ slave'[Peer(e)] = slave[Peer(e)]
      /\ slave'[e] = (IF Open(s) THEN new ELSE s)
  <2>1. CASE Open(s)
    BY <1>0, <1>2, <1>3, <2>1 DEF TypeOK
  <2>2. CASE ~Open(s)
    BY <1>0, <1>2, <2>2 DEF TypeOK
  <2> QED
    BY <2>1, <2>2
<1>5. TypeOK'
  BY <1>0, <1>1, <1>2, <1>4 DEF TypeOK
<1>6. slave'[e].is = s.is
  BY <1>3, <1>4
<1>7. WritersTell' /\ KeepsWriters(e)
  <2>1. TellsOnly(e)
    BY <1>2 DEF TellsOnly
  <2> QED
    BY <1>4, <1>6, <2>1, TellStep
<1>8. TakesData(e, f)
  <2>1. Takes(e, f)
    BY <1>1, <1>2, <1>7 DEF Takes
  <2> QED
    BY <1>1, <1>2, <1>3, <1>4, <2>1 DEF TakesData
<1>9. Rests(Peer(e))
  BY <1>2, <1>4 DEF Rests
<1>10. slave'[e].is # "none"
  <2>1. CASE s.is # "none"
    BY <1>6, <2>1
  <2>2. CASE s.is = "none"
    <3>1. e = "b" /\ Peer(e) = "a"
      BY <1>0, <1>1, <2>2 DEF Ends, Peer, Inv, SilentBefore
    <3>2. ~Has(wire["a"], "DATA")
      BY <2>2, <3>1 DEF Inv, NothingBeforeMade
    <3>3. Has(wire["a"], "DATA")
      <4>1. wire["a"] \in Seq(Frames)
        BY <1>0, <3>1 DEF TypeOK
      <4> QED
        BY <1>1, <3>1, <4>1, HasTail
    <3> QED
      BY <3>2, <3>3
  <2> QED
    BY <2>1, <2>2
<1> QED
  BY <1>1, <1>5, <1>7, <1>8, <1>9, <1>10 DEF StepOf, MasterStep

LEMMA OnWindowStep ==
    ASSUME Inv, NEW e \in Ends, OnWindow(e)
    PROVE  StepOf(e) /\ TypeOK' /\ WritersTell'
<1> DEFINE f == Incoming(e)
           s == slave[e]
           new == AddSendCredit(s, f.arg)
<1>0. TypeOK /\ Peer(e) \in Ends /\ Peer(e) # e /\ s \in SlaveType
  BY EndFacts
<1>1. /\ wire[Peer(e)] # <<>> /\ f = Head(wire[Peer(e)]) /\ f.type = "WINDOW" /\ f \in Frames
      /\ wire' \in [Ends -> Seq(Frames)] /\ wire'[e] = wire[e] /\ wire'[Peer(e)] = Tail(wire[Peer(e)])
  BY ConsumeStep DEF OnWindow
<1>2. /\ slave' = (IF Open(s) THEN [slave EXCEPT ![e] = new] ELSE slave)
      /\ UNCHANGED <<cmd, tx, down, writer, reader, closer, got, queued>>
  BY DEF OnWindow, calls
<1> HIDE DEF f
<1>3. new \in SlaveType /\ Core(new) = Core([s EXCEPT !.credit = @ + f.arg]) /\ new.is = s.is
  <2>1. f.arg \in Nat
    BY <1>1 DEF Frames
  <2>2. s.credit + f.arg \in Nat
    BY <1>0, <2>1 DEF SlaveType
  <2> HIDE DEF s
  <2> QED
    BY <1>0, <2>2 DEF SlaveType, Core, AddSendCredit
<1> HIDE DEF new
<1>4. /\ slave' \in [Ends -> SlaveType] /\ slave'[Peer(e)] = slave[Peer(e)]
      /\ slave'[e] = (IF Open(s) THEN new ELSE s)
  <2>1. CASE Open(s)
    BY <1>0, <1>2, <1>3, <2>1 DEF TypeOK
  <2>2. CASE ~Open(s)
    BY <1>0, <1>2, <2>2 DEF TypeOK
  <2> QED
    BY <2>1, <2>2
<1>5. TypeOK'
  BY <1>0, <1>1, <1>2, <1>4 DEF TypeOK
<1>6. slave'[e].is = s.is
  BY <1>3, <1>4
<1>7. WritersTell' /\ KeepsWriters(e)
  <2>1. TellsOnly(e)
    BY <1>2 DEF TellsOnly
  <2> QED
    BY <1>4, <1>6, <2>1, TellStep
<1>8. TakesWindow(e, f)
  <2>1. Takes(e, f)
    BY <1>1, <1>2, <1>7 DEF Takes
  <2> QED
    BY <1>1, <1>2, <1>3, <1>4, <2>1 DEF TakesWindow
<1>9. Rests(Peer(e))
  BY <1>2, <1>4 DEF Rests
<1>10. slave'[e].is = "none" => Rests(e)
  <2>1. slave'[e].is = "none" => slave'[e] = slave[e]
    BY <1>4, <1>6 DEF Open
  <2> QED
    BY <1>2, <2>1 DEF Rests
<1> QED
  BY <1>1, <1>5, <1>7, <1>8, <1>9, <1>10 DEF StepOf, MasterStep

LEMMA OnResetStep ==
    ASSUME Inv, NEW e \in Ends, OnReset(e)
    PROVE  StepOf(e) /\ TypeOK' /\ WritersTell'
<1> DEFINE f == Incoming(e)
           s == slave[e]
           reason == IF f.arg = 0 THEN "normal" ELSE "reset"
<1>0. TypeOK /\ Peer(e) \in Ends /\ Peer(e) # e /\ s \in SlaveType
  BY EndFacts
<1>1. /\ wire[Peer(e)] # <<>> /\ f = Head(wire[Peer(e)]) /\ f.type = "RESET" /\ f \in Frames
      /\ wire' \in [Ends -> Seq(Frames)] /\ wire'[e] = wire[e] /\ wire'[Peer(e)] = Tail(wire[Peer(e)])
  BY ConsumeStep DEF OnReset
<1>2. /\ IF Open(s) THEN Discard(e, s, reason) ELSE UNCHANGED <<slave, writer, closer>>
      /\ UNCHANGED <<cmd, tx, down, reader, got, queued>>
  BY DEF OnReset
<1> HIDE DEF f
<1>3. reason \in {"aborted", "normal", "reset", "broken"}
  OBVIOUS
<1>4. CASE Open(s)
  <2> HIDE DEF reason
  <2>1. s.sendQ \in Seq(Commands(e) \cup Packed(e) \cup {Barrier})
    BY SentFrames
  <2>2. /\ slave' \in [Ends -> SlaveType] /\ slave'[Peer(e)] = slave[Peer(e)]
        /\ writer' \in [Writers -> WriterType]
        /\ closer' \in [Ends -> [at : {"idle", "put", "wait", "back"}, done : BOOLEAN]]
        /\ closer'[Peer(e)].at = closer[Peer(e)].at
        /\ slave'[e].sendQ = <<>> /\ Finishes(e, reason) /\ WritersTell' /\ slave'[e].is # "none"
        /\ \A w \in Writers : EndOf[w] = Peer(e) => writer'[w] = writer[w]
    BY <1>2, <1>3, <1>4, <2>1, DiscardStep DEF Discard
  <2>3. TypeOK'
    BY <1>0, <1>1, <1>2, <2>2 DEF TypeOK
  <2>4. Takes(e, f)
    BY <1>1, <1>2, <2>2 DEF Takes, Finishes
  <2>5. TakesReset(e, f)
    BY <1>1, <1>2, <1>4, <2>2, <2>4 DEF TakesReset, reason
  <2>6. Rests(Peer(e))
    BY <1>2, <2>2 DEF Rests
  <2> QED
    BY <1>1, <2>2, <2>3, <2>5, <2>6 DEF StepOf, MasterStep
<1>5. CASE ~Open(s)
  <2>1. UNCHANGED <<slave, writer, closer, cmd, tx, down, reader, got, queued>>
    BY <1>2, <1>5
  <2>2. TypeOK'
    BY <1>0, <1>1, <2>1 DEF TypeOK
  <2>3. WritersTell' /\ KeepsWriters(e)
    <3>1. TellsOnly(e)
      BY <2>1 DEF TellsOnly
    <3> QED
      BY <2>1, <3>1, TellStep
  <2>4. Takes(e, f)
    BY <1>1, <2>1, <2>3 DEF Takes
  <2>5. TakesReset(e, f)
    BY <1>1, <1>5, <2>1, <2>4 DEF TakesReset
  <2>6. Rests(e) /\ Rests(Peer(e))
    BY <2>1 DEF Rests
  <2> QED
    BY <1>1, <2>2, <2>3, <2>5, <2>6 DEF StepOf, MasterStep
<1> QED
  BY <1>4, <1>5

LEMMA OnMakeStep ==
    ASSUME Inv, NEW e \in Ends, OnMake(e)
    PROVE  StepOf(e) /\ TypeOK' /\ WritersTell'
<1> DEFINE f == Incoming(e)
           s == slave[e]
           new == [NoSlave EXCEPT !.is = "open", !.credit = f.arg, !.event = TRUE]
           g == Command("MADE", RecvCap)
<1>0. /\ TypeOK /\ Peer(e) \in Ends /\ Peer(e) # e /\ s \in SlaveType /\ cmd[e] \in Seq(Frames)
      /\ wire[Peer(e)] \in Seq(Frames)
  BY EndFacts
<1>1. /\ wire[Peer(e)] # <<>> /\ f = Head(wire[Peer(e)]) /\ f.type = "MAKE" /\ f \in Frames
      /\ wire' \in [Ends -> Seq(Frames)] /\ wire'[e] = wire[e] /\ wire'[Peer(e)] = Tail(wire[Peer(e)])
      /\ f \in Commands(Peer(e)) \cup Packed(Peer(e)) \cup {RESET(0)}
  BY ConsumeStep DEF OnMake
<1>2. /\ slave' = [slave EXCEPT ![e] = new] /\ cmd' = [cmd EXCEPT ![e] = Append(cmd[e], g)]
      /\ UNCHANGED <<tx, down, writer, reader, closer, got, queued>>
  BY DEF OnMake, calls
<1> HIDE DEF f
<1>3. e = "b" /\ Peer(e) = "a" /\ s.is = "none"
  <2>1. RESET(0).type # "MAKE" /\ \A h \in Packed(Peer(e)) : h.type # "MAKE"
    BY DEF RESET, Command, Frame, Packed
  <2>2. f \in Commands(Peer(e))
    BY <1>1, <2>1
  <2>3. e = "b" /\ Peer(e) = "a"
    BY <1>0, <1>1, <2>2 DEF Commands, Ends, Peer
  <2>4. Comes("a", "MAKE")
    BY <1>0, <1>1, <2>3, HasTail DEF Comes
  <2> QED
    BY <2>3, <2>4 DEF Inv, GreetingsFirst
<1>4. new \in SlaveType /\ Core(new) = <<"open", f.arg, 0, RecvCap, <<>>, <<>>>> /\ new.is = "open"
  <2>1. f.arg \in Nat
    BY <1>1 DEF Frames
  <2>2. \A z \in SlaveType, n \in Nat :
           /\ [z EXCEPT !.is = "open", !.credit = n, !.event = TRUE] \in SlaveType
           /\ [z EXCEPT !.is = "open", !.credit = n, !.event = TRUE].is = "open"
           /\ Core([z EXCEPT !.is = "open", !.credit = n, !.event = TRUE])
              = <<"open", n, z.pending, z.cap, z.recvQ, z.sendQ>>
    BY DEF SlaveType, Core
  <2>3. NoSlave.pending = 0 /\ NoSlave.cap = RecvCap /\ NoSlave.recvQ = <<>> /\ NoSlave.sendQ = <<>>
    BY DEF NoSlave
  <2> QED
    BY <2>1, <2>2, <2>3, NoSlaveType, Zenon
<1> HIDE DEF new
<1>5. slave' \in [Ends -> SlaveType] /\ slave'[Peer(e)] = slave[Peer(e)] /\ slave'[e] = new
  BY <1>0, <1>2, <1>4 DEF TypeOK
<1>6. cmd' \in [Ends -> Seq(Frames)] /\ cmd'[Peer(e)] = cmd[Peer(e)] /\ cmd'[e] = Append(cmd[e], g)
  <2>1. g \in Frames
    BY FrameTypes, MultiStreamAssumption
  <2> HIDE DEF g
  <2>2. Append(cmd[e], g) \in Seq(Frames)
    BY <1>0, <2>1
  <2> QED
    BY <1>0, <1>2, <2>2 DEF TypeOK
<1>7. TypeOK'
  BY <1>0, <1>1, <1>2, <1>5, <1>6 DEF TypeOK
<1>8. WritersTell' /\ KeepsWriters(e)
  <2>1. TellsOnly(e) /\ ~Ended(slave[e])
    BY <1>2, <1>3 DEF TellsOnly, Ended
  <2> QED
    BY <1>5, <2>1, TellStep
<1>9. TakesMake(e, f)
  <2>1. Takes(e, f)
    BY <1>1, <1>2, <1>8 DEF Takes
  <2> QED
    BY <1>1, <1>3, <1>4, <1>5, <1>6, <2>1 DEF TakesMake
<1>10. Rests(Peer(e))
  BY <1>2, <1>5, <1>6 DEF Rests
<1> QED
  BY <1>1, <1>4, <1>5, <1>7, <1>8, <1>9, <1>10 DEF StepOf, MasterStep

LEMMA OnMadeStep ==
    ASSUME Inv, NEW e \in Ends, OnMade(e)
    PROVE  StepOf(e) /\ TypeOK' /\ WritersTell'
<1> DEFINE f == Incoming(e)
           s == slave[e]
           new == [s EXCEPT !.credit = f.arg, !.event = TRUE]
<1>0. TypeOK /\ Peer(e) \in Ends /\ Peer(e) # e /\ s \in SlaveType /\ cmd[e] \in Seq(Frames)
  BY EndFacts
<1>1. /\ wire[Peer(e)] # <<>> /\ f = Head(wire[Peer(e)]) /\ f.type = "MADE" /\ f \in Frames
      /\ wire' \in [Ends -> Seq(Frames)] /\ wire'[e] = wire[e] /\ wire'[Peer(e)] = Tail(wire[Peer(e)])
      /\ f \in Commands(Peer(e)) \cup Packed(Peer(e)) \cup {RESET(0)} /\ slave[Peer(e)].is # "none"
  BY ConsumeStep DEF OnMade
<1>2. /\ IF Open(s)
         THEN slave' = [slave EXCEPT ![e].credit = f.arg, ![e].event = TRUE] /\ UNCHANGED cmd
         ELSE cmd' = [cmd EXCEPT ![e] = Append(cmd[e], RESET(3))] /\ UNCHANGED slave
      /\ UNCHANGED <<tx, down, writer, reader, closer, got, queued>>
  BY DEF OnMade, calls
<1> HIDE DEF f
<1>3. e = "a" /\ s.is # "none"
  <2>1. RESET(0).type # "MADE" /\ \A h \in Packed(Peer(e)) : h.type # "MADE"
    BY DEF RESET, Command, Frame, Packed
  <2>2. f \in Commands(Peer(e))
    BY <1>1, <2>1
  <2>3. e = "a" /\ Peer(e) = "b"
    BY <1>0, <1>1, <2>2 DEF Commands, Ends, Peer
  <2> QED
    BY <1>1, <2>3 DEF Inv, SilentBefore
<1>4. new \in SlaveType /\ Core(new) = Core([s EXCEPT !.credit = f.arg]) /\ new.is = s.is
  <2>1. f.arg \in Nat
    BY <1>1 DEF Frames
  <2> HIDE DEF s
  <2> QED
    BY <1>0, <2>1 DEF SlaveType, Core
<1>5. /\ slave' \in [Ends -> SlaveType] /\ slave'[Peer(e)] = slave[Peer(e)] /\ slave'[e].is = s.is
      /\ cmd' \in [Ends -> Seq(Frames)] /\ cmd'[Peer(e)] = cmd[Peer(e)]
      /\ IF Open(s) THEN Core(slave'[e]) = Core([s EXCEPT !.credit = f.arg]) /\ cmd'[e] = cmd[e]
                    ELSE slave'[e] = s /\ cmd'[e] = Append(cmd[e], RESET(3))
  <2>1. CASE Open(s)
    <3>1. slave' = [slave EXCEPT ![e] = new] /\ cmd' = cmd
      BY <1>0, <1>2, <2>1 DEF TypeOK
    <3> HIDE DEF new
    <3>2. slave' \in [Ends -> SlaveType] /\ slave'[Peer(e)] = slave[Peer(e)] /\ slave'[e] = new
      BY <1>0, <1>4, <3>1 DEF TypeOK
    <3> QED
      BY <1>0, <1>4, <2>1, <3>1, <3>2 DEF TypeOK
  <2>2. CASE ~Open(s)
    <3>1. slave' = slave /\ cmd' = [cmd EXCEPT ![e] = Append(cmd[e], RESET(3))]
      BY <1>2, <2>2
    <3>2. Append(cmd[e], RESET(3)) \in Seq(Frames)
      BY <1>0, FrameTypes
    <3> QED
      BY <1>0, <2>2, <3>1, <3>2 DEF TypeOK
  <2> QED
    BY <2>1, <2>2
<1>6. TypeOK'
  BY <1>0, <1>1, <1>2, <1>5 DEF TypeOK
<1>7. WritersTell' /\ KeepsWriters(e)
  <2>1. TellsOnly(e)
    BY <1>2 DEF TellsOnly
  <2> QED
    BY <1>5, <2>1, TellStep
<1>8. TakesMade(e, f)
  <2>1. Takes(e, f)
    BY <1>1, <1>2, <1>7 DEF Takes
  <2> QED
    BY <1>1, <1>3, <1>5, <2>1 DEF TakesMade
<1>9. Rests(Peer(e))
  BY <1>2, <1>5 DEF Rests
<1> QED
  BY <1>1, <1>3, <1>5, <1>6, <1>7, <1>8, <1>9 DEF StepOf, MasterStep

LEMMA AbortStep ==
    ASSUME Inv, NEW e \in Ends, Abort(e)
    PROVE  StepOf(e) /\ TypeOK' /\ WritersTell'
<1> DEFINE s == slave[e]
           told == tx[e].all \o IF Open(s) THEN s.sendQ ELSE <<>>
           S == Commands(e) \cup Packed(e) \cup {Barrier}
<1>0. TypeOK /\ Peer(e) \in Ends /\ Peer(e) # e /\ s \in SlaveType
  BY EndFacts
<1>1. /\ down' = [down EXCEPT ![e] = TRUE] /\ cmd' = [cmd EXCEPT ![e] = <<>>] /\ tx' = [tx EXCEPT ![e] = Idle]
      /\ UNCHANGED <<wire, reader, got, queued>>
  BY DEF Abort
<1>2. slave' = IF Open(s) THEN [slave EXCEPT ![e] = Finish(e, s, "broken", TRUE)] ELSE slave
  BY DEF Abort
<1>3. writer' = TellWriters(told, "false")
  BY DEF Abort
<1>4. closer' = IF Open(s) \/ HasBarrier(told) THEN TellCloser(e) ELSE closer
  BY DEF Abort
<1>5. told \in Seq(S)
  <2>1. tx[e].all \in Seq(S) /\ s.sendQ \in Seq(S)
    BY SentFrames DEF Inv, FramesTell
  <2>2. (IF Open(s) THEN s.sendQ ELSE <<>>) \in Seq(S)
    BY <2>1, EmptySeq
  <2> HIDE DEF S
  <2> QED
    BY <2>1, <2>2, ConcatProperties
<1>6. /\ down' \in [Ends -> BOOLEAN] /\ cmd' \in [Ends -> Seq(Frames)] /\ cmd'[e] = <<>> /\ cmd'[Peer(e)] = cmd[Peer(e)]
      /\ tx' \in [Ends -> [todo : Seq(Frames), all : Seq(Frames)]] /\ tx'[e] = Idle /\ tx'[Peer(e)] = tx[Peer(e)]
  <2>1. Idle \in [todo : Seq(Frames), all : Seq(Frames)] /\ <<>> \in Seq(Frames)
    BY EmptySeq DEF Idle
  <2>2. down' \in [Ends -> BOOLEAN]
    BY <1>0, <1>1 DEF TypeOK
  <2>3. cmd' \in [Ends -> Seq(Frames)] /\ cmd'[e] = <<>> /\ cmd'[Peer(e)] = cmd[Peer(e)]
    BY <1>0, <1>1, <2>1 DEF TypeOK
  <2>4. tx' \in [Ends -> [todo : Seq(Frames), all : Seq(Frames)]] /\ tx'[e] = Idle /\ tx'[Peer(e)] = tx[Peer(e)]
    BY <1>0, <1>1, <2>1 DEF TypeOK
  <2> QED
    BY <2>2, <2>3, <2>4
<1>7. CASE Open(s)
  <2> HIDE DEF told
  <2>1. closer' = TellCloser(e)
    BY <1>4, <1>7
  <2>2. slave' = [slave EXCEPT ![e] = Finish(e, slave[e], "broken", TRUE)]
    BY <1>2, <1>7
  <2>3. /\ slave' \in [Ends -> SlaveType] /\ slave'[Peer(e)] = slave[Peer(e)]
        /\ writer' \in [Writers -> WriterType]
        /\ closer' \in [Ends -> [at : {"idle", "put", "wait", "back"}, done : BOOLEAN]]
        /\ closer'[Peer(e)].at = closer[Peer(e)].at
        /\ slave'[e].sendQ = <<>> /\ Finishes(e, "broken") /\ WritersTell' /\ slave'[e].is # "none"
        /\ \A w \in Writers : EndOf[w] = Peer(e) => writer'[w] = writer[w]
    BY <1>3, <1>5, <1>7, <2>1, <2>2, DiscardStep
  <2>4. TypeOK'
    BY <1>0, <1>1, <1>6, <2>3 DEF TypeOK
  <2>5. Breaks(e) /\ Rests(Peer(e))
    BY <1>1, <1>6, <1>7, <2>3 DEF Breaks, Rests
  <2> QED
    BY <2>3, <2>4, <2>5 DEF StepOf, MasterStep
<1>8. CASE ~Open(s)
  <2> HIDE DEF told
  <2>1. slave' = slave
    BY <1>2, <1>8
  <2>2. /\ told \in Seq(Frames)
        /\ \A w \in Writers : (\E i \in DOMAIN told : told[i].by = w) => EndOf[w] = e
    BY <1>5, OwnWriters
  <2>3. /\ writer' \in [Writers -> WriterType]
        /\ \A w \in Writers : /\ writer'[w].at = writer[w].at /\ writer'[w].size = writer[w].size
                              /\ writer'[w] # writer[w] => EndOf[w] = e /\ \E i \in DOMAIN told : told[i].by = w
    BY <1>0, <1>3, <2>2, WritersTold
  <2>4. s.is = "none" => told = <<>> /\ ~HasBarrier(told)
    <3>1. s.is = "none" => tx[e].all = <<>>
      BY DEF Inv, SilentBefore, Idle
    <3>2. s.is = "none" => told = <<>>
      BY <1>8, <3>1 DEF told
    <3> QED
      BY <3>2 DEF HasBarrier
  <2>5. TellsOnly(e)
    <3>1. s.is = "none" \/ Ended(slave'[e])
      BY <1>0, <1>8, <2>1 DEF Ended, Open, SlaveType
    <3>2. s.is = "none" => \A w \in Writers : writer'[w] = writer[w]
      BY <2>3, <2>4
    <3> QED
      BY <2>3, <3>1, <3>2 DEF TellsOnly
  <2>6. WritersTell' /\ KeepsWriters(e) /\ \A w \in Writers : EndOf[w] = Peer(e) => writer'[w] = writer[w]
    BY <2>1, <2>5, TellStep
  <2>7. /\ closer' \in [Ends -> [at : {"idle", "put", "wait", "back"}, done : BOOLEAN]]
        /\ closer'[Peer(e)].at = closer[Peer(e)].at /\ (s.is = "none" => closer' = closer)
    <3>1. CASE HasBarrier(told)
      <4>1. closer' = TellCloser(e)
        BY <1>4, <3>1
      <4> QED
        BY <1>0, <2>4, <3>1, <4>1 DEF TellCloser, TypeOK
    <3>2. CASE ~HasBarrier(told)
      <4>1. closer' = closer
        BY <1>4, <1>8, <3>2
      <4> QED
        BY <1>0, <4>1 DEF TypeOK
    <3> QED
      BY <3>1, <3>2
  <2>8. TypeOK'
    BY <1>0, <1>1, <1>6, <2>1, <2>3, <2>7 DEF TypeOK
  <2>9. Breaks(e) /\ Rests(Peer(e))
    BY <1>1, <1>6, <1>8, <2>1, <2>6, <2>7 DEF Breaks, Rests
  <2>10. slave'[e].is = "none" => Rests(e)
    <3> SUFFICES ASSUME s.is = "none" PROVE Rests(e)
      BY <2>1
    <3>1. cmd[e] = <<>> /\ tx[e] = Idle
      BY DEF Inv, SilentBefore
    <3>2. \A w \in Writers : writer'[w] = writer[w]
      BY <2>3, <2>4
    <3> QED
      BY <1>1, <1>6, <2>1, <2>7, <3>1, <3>2 DEF Rests
  <2> QED
    BY <2>6, <2>8, <2>9, <2>10 DEF StepOf, MasterStep
<1> QED
  BY <1>7, <1>8

\* Every step is one of these.
LEMMA EveryStep ==
    ASSUME Inv, Next
    PROVE  (\E e \in Ends : StepOf(e)) /\ TypeOK' /\ WritersTell'
<1>1. CASE MakeSlave
  BY <1>1, MakeSlaveStep DEF Ends
<1>2. CASE TakeSlave
  BY <1>2, TakeSlaveStep DEF Ends
<1>3. ASSUME NEW w \in Writers, WriterStep(w) \/ \E size \in Sizes, mode \in Modes : SendPacket(w, size, mode)
      PROVE  StepOf(EndOf[w]) /\ EndOf[w] \in Ends /\ TypeOK' /\ WritersTell'
  <2>1. EndOf[w] \in Ends
    BY Parts DEF Inv
  <2> QED
    BY <1>3, <2>1, CreditWakeStep, PutGoesOnStep, SendReturnsStep, SendPacketStep DEF WriterStep
<1>4. ASSUME NEW r \in Readers, ReaderStep(r)
      PROVE  StepOf(EndOf[r]) /\ EndOf[r] \in Ends /\ TypeOK' /\ WritersTell'
  <2>1. EndOf[r] \in Ends
    BY Parts DEF Inv
  <2> QED
    BY <1>4, <2>1, RecvBlocksStep, RecvPacketStep DEF ReaderStep
<1>5. ASSUME NEW e \in Ends,
             \/ Close(e) \/ CloserStep(e) \/ AbortSlave(e)
             \/ \E bytes \in NewCaps : SetReceivingCapacity(e, bytes)
             \/ FillBatch(e) \/ WriteFrame(e) \/ Receive(e)
             \/ MasterAborts(e) \/ PeerGone(e)
      PROVE  StepOf(e) /\ TypeOK' /\ WritersTell'
  <2>1. CASE Close(e) \/ CloserStep(e) \/ AbortSlave(e)
    BY <2>1, CloseStep, ClosePutsStep, CloseReturnsStep, AbortSlaveStep DEF CloserStep
  <2>2. CASE \E bytes \in NewCaps : SetReceivingCapacity(e, bytes)
    BY <2>2, SetReceivingCapacityStep
  <2>3. CASE FillBatch(e) \/ WriteFrame(e)
    BY <2>3, FillBatchStep, WriteFrameStep
  <2>4. CASE Receive(e)
    BY <2>4, OnDataStep, OnMakeStep, OnMadeStep, OnResetStep, OnWindowStep DEF Receive
  <2>5. CASE MasterAborts(e) \/ PeerGone(e)
    BY <2>5, AbortStep DEF MasterAborts, PeerGone
  <2> QED
    BY <1>5, <2>1, <2>2, <2>3, <2>4, <2>5
<1> QED
  BY <1>1, <1>2, <1>3, <1>4, <1>5 DEF Next

--------------------------------------------------------------------------------
(* The frames of the two ends, and which comes first. *)

LEMMA SeqParts ==
    ASSUME NEW S, NEW p \in Seq(Frames), NEW q \in Seq(Frames), p \o q \in Seq(S)
    PROVE  p \in Seq(S) /\ q \in Seq(S)
<1> DEFINE z == p \o q
<1>1. /\ Len(z) = Len(p) + Len(q) /\ Len(p) \in Nat /\ Len(q) \in Nat
      /\ \A i \in 1..Len(z) : z[i] = IF i <= Len(p) THEN p[i] ELSE q[i - Len(p)]
  BY ConcatProperties, LenProperties
<1>2. z \in Seq(S)
  OBVIOUS
<1> HIDE DEF z
<1>3. \A i \in 1..Len(z) : z[i] \in S
  BY <1>2
<1>4. ASSUME NEW i \in 1..Len(p) PROVE p[i] \in S
  <2>1. i \in 1..Len(z) /\ i <= Len(p)
    BY <1>1
  <2> QED
    BY <1>1, <1>3, <2>1
<1>5. ASSUME NEW i \in 1..Len(q) PROVE q[i] \in S
  <2>1. Len(p) + i \in 1..Len(z) /\ ~(Len(p) + i <= Len(p)) /\ Len(p) + i - Len(p) = i
    BY <1>1
  <2>2. z[Len(p) + i] = q[i]
    BY <1>1, <2>1
  <2> QED
    BY <1>3, <2>1, <2>2
<1> QED
  BY <1>4, <1>5

LEMMA CommandTypes ==
    ASSUME NEW e \in Ends
    PROVE  /\ RESET(1) \in Commands(e) /\ RESET(3) \in Commands(e)
           /\ \A n \in Nat : Command("WINDOW", n) \in Commands(e)
           /\ e = "a" => Command("MAKE", RecvCap) \in Commands(e)
           /\ e = "b" => Command("MADE", RecvCap) \in Commands(e)
<1>1. RecvCap \in Nat
  BY MultiStreamAssumption
<1>2. ASSUME NEW type \in {IF e = "a" THEN "MAKE" ELSE "MADE", "WINDOW", "RESET"}, NEW n \in Nat,
             type = "RESET" => n # 0
      PROVE  Command(type, n) \in Commands(e)
  <2>1. Command(type, n) \in Frames
    BY DEF Command, Frame, Frames
  <2>2. Command(type, n).type = type /\ Command(type, n).arg = n /\ Command(type, n).by = "nobody"
    BY DEF Command, Frame
  <2> HIDE <1>1
  <2> QED
    BY <1>2, <2>1, <2>2 DEF Commands
<1>3. RESET(1) \in Commands(e) /\ RESET(3) \in Commands(e)
  BY <1>2 DEF RESET
<1>4. \A n \in Nat : Command("WINDOW", n) \in Commands(e)
  BY <1>2
<1> QED
  BY <1>1, <1>2, <1>3, <1>4

LEMMA FramesKept ==
    ASSUME Inv, NEW e \in Ends, StepOf(e), TypeOK'
    PROVE  FramesTell'
<1> DEFINE p == Peer(e)
           C == Commands(e)
           K == Packed(e) \cup {Barrier}
           O == Commands(e) \cup Packed(e) \cup {Barrier}
           W == Commands(e) \cup Packed(e) \cup {RESET(0)}
           V == Commands(p) \cup Packed(p) \cup {RESET(0)}
           R == Packed(p) \cup {Pill}
<1>0. /\ p \in Ends /\ p # e /\ Peer(p) = e /\ Ends = {e, p} /\ TypeOK /\ slave[e] \in SlaveType
      /\ cmd[e] \in Seq(Frames) /\ slave[e].sendQ \in Seq(Frames)
  BY EndFacts
<1>1. /\ cmd[e] \in Seq(C) /\ slave[e].sendQ \in Seq(K) /\ tx[e].todo \in Seq(O) /\ tx[e].all \in Seq(O)
      /\ wire[e] \in Seq(W) /\ wire[p] \in Seq(V) /\ slave[e].recvQ \in Seq(R)
  BY <1>0 DEF Inv, FramesTell
<1>2. SUFFICES /\ cmd'[e] \in Seq(C) /\ slave'[e].sendQ \in Seq(K) /\ tx'[e].todo \in Seq(O) /\ tx'[e].all \in Seq(O)
               /\ wire'[e] \in Seq(W) /\ wire'[p] \in Seq(V) /\ slave'[e].recvQ \in Seq(R)
  <2> SUFFICES ASSUME NEW x \in Ends
      PROVE  /\ cmd'[x] \in Seq(Commands(x))
             /\ slave'[x].sendQ \in Seq(Packed(x) \cup {Barrier})
             /\ tx'[x].todo \in Seq(Commands(x) \cup Packed(x) \cup {Barrier})
             /\ tx'[x].all \in Seq(Commands(x) \cup Packed(x) \cup {Barrier})
             /\ wire'[x] \in Seq(Commands(x) \cup Packed(x) \cup {RESET(0)})
             /\ slave'[Peer(x)].recvQ \in Seq(Packed(x) \cup {Pill})
    BY DEF FramesTell
  <2>1. Rests(p)
    BY DEF StepOf
  <2>2. /\ slave[p].recvQ \in Seq(Packed(e) \cup {Pill}) /\ cmd[p] \in Seq(Commands(p))
        /\ slave[p].sendQ \in Seq(Packed(p) \cup {Barrier})
        /\ tx[p].todo \in Seq(Commands(p) \cup Packed(p) \cup {Barrier})
        /\ tx[p].all \in Seq(Commands(p) \cup Packed(p) \cup {Barrier})
    BY <1>0 DEF Inv, FramesTell
  <2>3. slave'[p] = slave[p] /\ cmd'[p] = cmd[p] /\ tx'[p] = tx[p]
    BY <2>1 DEF Rests
  <2>4. CASE x = e
    BY <1>2, <2>2, <2>3, <2>4
  <2>5. CASE x = p
    BY <1>0, <1>2, <2>2, <2>3, <2>5
  <2> QED
    BY <1>0, <2>4, <2>5
<1>3. /\ RESET(1) \in C /\ RESET(3) \in C /\ (\A n \in Nat : Command("WINDOW", n) \in C) /\ Barrier \in K
      /\ (e = "a" => Command("MAKE", RecvCap) \in C) /\ (e = "b" => Command("MADE", RecvCap) \in C)
  BY CommandTypes
<1>4. ASSUME NEW q \in Seq({Pill}) PROVE q \in Seq(R)
  BY <1>4, SeqMonotonic
<1>5. /\ <<>> \in Seq(C) /\ <<>> \in Seq(K) /\ <<>> \in Seq(O) /\ <<>> \in Seq(R)
      /\ Idle.todo = <<>> /\ Idle.all = <<>>
  BY EmptySeq DEF Idle
<1>6. /\ \A f \in Packed(e) : f \in K
      /\ \A f \in O : f.type # "BARRIER" => f \in W
      /\ RESET(0) \in W
      /\ \A f \in V : f.type = "DATA" => f \in R
      /\ C \subseteq O /\ K \subseteq O
  BY DEF Barrier, Frame, RESET, Command, Commands
<1>7. /\ Barrier.type = "BARRIER" /\ Pill.type = "PILL"
  BY DEF Barrier, Pill, Frame
<1> HIDE DEF C, K, O, W, V, R
<1>8. ASSUME Holds(e), slave'[e].recvQ = slave[e].recvQ,
             slave'[e].sendQ = slave[e].sendQ \/ \E f \in K : slave'[e].sendQ = Append(slave[e].sendQ, f)
      PROVE  /\ cmd'[e] \in Seq(C) /\ slave'[e].sendQ \in Seq(K) /\ tx'[e].todo \in Seq(O) /\ tx'[e].all \in Seq(O)
             /\ wire'[e] \in Seq(W) /\ wire'[p] \in Seq(V) /\ slave'[e].recvQ \in Seq(R)
  <2>1. slave'[e].sendQ \in Seq(K)
    <3>1. \A f \in K : Append(slave[e].sendQ, f) \in Seq(K)
      BY <1>1, AppendProperties
    <3> QED
      BY <1>1, <1>8, <3>1
  <2> QED
    BY <1>1, <1>8, <2>1 DEF Holds
<1>9. CASE Quiet(e)
  BY <1>8, <1>9 DEF Quiet, Core
<1>10. CASE Bars(e)
  BY <1>3, <1>8, <1>10 DEF Bars, Queues
<1>11. ASSUME NEW w \in Writers, Refunds(e, w) \/ Uses(e, w) \/ Puts(e, w)
       PROVE  /\ cmd'[e] \in Seq(C) /\ slave'[e].sendQ \in Seq(K) /\ tx'[e].todo \in Seq(O) /\ tx'[e].all \in Seq(O)
              /\ wire'[e] \in Seq(W) /\ wire'[p] \in Seq(V) /\ slave'[e].recvQ \in Seq(R)
  <2>1. CASE Refunds(e, w)
    <3>1. PICK n \in Nat : Core(slave'[e]) = Core([slave[e] EXCEPT !.credit = @ + n])
      BY <2>1 DEF Refunds
    <3>2. slave'[e].recvQ = slave[e].recvQ /\ slave'[e].sendQ = slave[e].sendQ
      BY <1>0, <3>1 DEF Core, SlaveType
    <3> QED
      BY <1>8, <2>1, <3>2 DEF Refunds
  <2>2. CASE Uses(e, w)
    BY <1>6, <1>8, <2>2 DEF Uses, Queues
  <2>3. CASE Puts(e, w)
    BY <1>6, <1>8, <2>3 DEF Puts, Queues
  <2> QED
    BY <1>11, <2>1, <2>2, <2>3
<1>12. ASSUME NEW q \in Seq({Pill}) PROVE slave[e].recvQ \o q \in Seq(R)
  BY <1>1, <1>4, ConcatProperties
<1>13. CASE AbortsSlave(e)
  <2>1. slave'[e].recvQ \in Seq(R)
    BY <1>12, <1>13 DEF AbortsSlave, Finishes
  <2>2. cmd'[e] \in Seq(C)
    BY <1>1, <1>3, <1>13, AppendProperties DEF AbortsSlave
  <2> QED
    BY <1>1, <1>5, <1>13, <2>1, <2>2 DEF AbortsSlave
<1>14. CASE Resizes(e)
  <2>1. cmd'[e] \in Seq(C)
    <3>1. CASE cmd'[e] = cmd[e]
      BY <1>1, <3>1
    <3>2. CASE cmd'[e] # cmd[e]
      <4>1. cmd'[e] = Append(cmd[e], Command("WINDOW", slave'[e].cap - slave[e].cap)) /\ slave'[e].cap > slave[e].cap
        BY <1>14, <3>2 DEF Resizes
      <4>3. slave'[e].cap \in Nat /\ slave[e].cap \in Nat
        <5>1. slave'[e] \in SlaveType
          BY DEF TypeOK
        <5> QED
          BY <1>0, <5>1 DEF SlaveType
      <4>2. slave'[e].cap - slave[e].cap \in Nat
        BY <4>1, <4>3
      <4> QED
        BY <1>1, <1>3, <4>1, <4>2, AppendProperties
    <3> QED
      BY <3>1, <3>2
  <2> QED
    BY <1>1, <1>14, <2>1 DEF Resizes
<1>15. CASE Makes(e)
  <2>1. slave'[e].recvQ = <<>> /\ slave'[e].sendQ = <<>>
    BY <1>15 DEF Makes, Core
  <2>2. cmd'[e] \in Seq(C)
    BY <1>1, <1>3, <1>15, AppendProperties DEF Makes
  <2> QED
    BY <1>1, <1>5, <1>15, <2>1, <2>2 DEF Makes
<1>16. ASSUME NEW f \in Packed(p) \cup {Pill}, Gets(e, f)
       PROVE  /\ cmd'[e] \in Seq(C) /\ slave'[e].sendQ \in Seq(K) /\ tx'[e].todo \in Seq(O) /\ tx'[e].all \in Seq(O)
              /\ wire'[e] \in Seq(W) /\ wire'[p] \in Seq(V) /\ slave'[e].recvQ \in Seq(R)
  <2>1. slave'[e].recvQ \in Seq(R)
    BY <1>1, <1>16, HeadTailProperties DEF Gets
  <2>2. f \in Frames /\ f.arg \in Nat
    BY FrameTypes DEF Packed, Frames
  <2>3. slave[e].pending \in Nat /\ slave[e].pending + f.arg \in Nat
    BY <1>0, <2>2 DEF SlaveType
  <2>4. cmd'[e] \in Seq(C)
    BY <1>1, <1>3, <1>16, <2>3, AppendProperties DEF Gets
  <2> QED
    BY <1>1, <1>16, <2>1, <2>4 DEF Gets
<1>17. CASE Breaks(e)
  <2>1. slave'[e].recvQ \in Seq(R) /\ slave'[e].sendQ \in Seq(K)
    BY <1>1, <1>5, <1>12, <1>17 DEF Breaks, Finishes
  <2> QED
    BY <1>1, <1>5, <1>17, <2>1 DEF Breaks
<1>18. ASSUME NEW h \in Seq(Frames), NEW q \in Seq(Frames), NEW x \in Seq(Frames), NEW y \in Seq(Frames),
              Fills(e, h, q, x, y)
       PROVE  /\ cmd'[e] \in Seq(C) /\ slave'[e].sendQ \in Seq(K) /\ tx'[e].todo \in Seq(O) /\ tx'[e].all \in Seq(O)
              /\ wire'[e] \in Seq(W) /\ wire'[p] \in Seq(V) /\ slave'[e].recvQ \in Seq(R)
  <2>1. h \in Seq(C) /\ q \in Seq(C) /\ x \in Seq(K) /\ y \in Seq(K)
    BY <1>1, <1>18, SeqParts DEF Fills
  <2>2. h \in Seq(O) /\ x \in Seq(O)
    BY <1>6, <2>1, SeqMonotonic
  <2>3. h \o x \in Seq(O)
    BY <2>2, ConcatProperties
  <2>4. slave'[e].recvQ \in Seq(R)
    BY <1>1, <1>12, <1>18 DEF Fills
  <2> QED
    BY <1>1, <1>18, <2>1, <2>3, <2>4 DEF Fills
<1>19. ASSUME NEW f \in Frames, NEW g \in Frames, Writes(e, f, g)
       PROVE  /\ cmd'[e] \in Seq(C) /\ slave'[e].sendQ \in Seq(K) /\ tx'[e].todo \in Seq(O) /\ tx'[e].all \in Seq(O)
              /\ wire'[e] \in Seq(W) /\ wire'[p] \in Seq(V) /\ slave'[e].recvQ \in Seq(R)
  <2>1. f \in O /\ tx'[e].todo \in Seq(O)
    BY <1>1, <1>19, HeadTailProperties DEF Writes
  <2>2. g \in W
    BY <1>6, <1>19, <2>1 DEF Writes
  <2>3. wire'[e] \in Seq(W)
    BY <1>1, <1>19, <2>2, AppendProperties DEF Writes
  <2>4. tx'[e].all \in Seq(O)
    BY <1>1, <1>5, <1>19 DEF Writes
  <2> QED
    BY <1>1, <1>19, <2>1, <2>3, <2>4 DEF Writes
<1>20. ASSUME NEW f \in Frames, Takes(e, f)
       PROVE  /\ tx'[e].todo \in Seq(O) /\ tx'[e].all \in Seq(O) /\ wire'[e] \in Seq(W) /\ wire'[p] \in Seq(V) /\ f \in V
  BY <1>1, <1>20, HeadTailProperties DEF Takes
<1>21. ASSUME NEW f \in Frames,
              \/ TakesData(e, f) \/ TakesWindow(e, f) \/ TakesReset(e, f) \/ TakesMake(e, f) \/ TakesMade(e, f)
       PROVE  /\ cmd'[e] \in Seq(C) /\ slave'[e].sendQ \in Seq(K) /\ slave'[e].recvQ \in Seq(R) /\ Takes(e, f)
  <2>1. CASE TakesData(e, f)
    <3>1. f \in R
      BY <1>6, <1>20, <2>1 DEF TakesData
    <3>2. slave'[e].recvQ \in Seq(R)
      BY <1>1, <2>1, <3>1, AppendProperties DEF TakesData
    <3> QED
      BY <1>1, <2>1, <3>2 DEF TakesData
  <2>2. CASE TakesWindow(e, f)
    <3>1. slave'[e].sendQ = slave[e].sendQ /\ slave'[e].recvQ = slave[e].recvQ
      BY <1>0, <2>2 DEF TakesWindow, Core, SlaveType
    <3> QED
      BY <1>1, <2>2, <3>1 DEF TakesWindow
  <2>3. CASE TakesReset(e, f)
    BY <1>1, <1>5, <1>12, <2>3 DEF TakesReset, Finishes
  <2>4. CASE TakesMake(e, f)
    <3>1. slave'[e].recvQ = <<>> /\ slave'[e].sendQ = <<>>
      BY <2>4 DEF TakesMake, Core
    <3>2. cmd'[e] \in Seq(C)
      BY <1>1, <1>3, <2>4, AppendProperties DEF TakesMake
    <3> QED
      BY <1>5, <2>4, <3>1, <3>2 DEF TakesMake
  <2>5. CASE TakesMade(e, f)
    <3>1. slave'[e].sendQ = slave[e].sendQ /\ slave'[e].recvQ = slave[e].recvQ
      BY <1>0, <2>5 DEF TakesMade, Core, SlaveType
    <3>2. cmd'[e] \in Seq(C)
      <4>1. Append(cmd[e], RESET(3)) \in Seq(C)
        BY <1>1, <1>3, AppendProperties
      <4> QED
        BY <1>1, <2>5, <4>1 DEF TakesMade
    <3> QED
      BY <1>1, <2>5, <3>1, <3>2 DEF TakesMade
  <2> QED
    BY <1>21, <2>1, <2>2, <2>3, <2>4, <2>5
<1> QED
  BY <1>9, <1>10, <1>11, <1>13, <1>14, <1>15, <1>16, <1>17, <1>18, <1>19, <1>20, <1>21
     DEF StepOf, ApplicationStep, MasterStep

\* What a step of e does to the connection and to doSend().
LEMMA StepSummary ==
    ASSUME Inv, NEW e \in Ends, StepOf(e)
    PROVE  /\ wire'[e] = wire[e] \/ tx[e].todo # <<>>
           /\ wire'[Peer(e)] = wire[Peer(e)] \/ wire[Peer(e)] # <<>>
           /\ tx'[e].todo = <<>> => tx'[e] = Idle
           /\ slave[e].is = "none" => \/ slave'[e].is = "none" \/ e = "a"
                                      \/ e = "b" /\ \E f \in Frames : TakesMake(e, f)
<1>0. (tx[e].todo = <<>> => tx[e] = Idle) /\ slave[e] \in SlaveType
  BY EndFacts DEF Inv, SilentBefore
<1>1. CASE Quiet(e)
  BY <1>0, <1>1 DEF Quiet, Holds, Core
<1>2. CASE Bars(e)
  BY <1>0, <1>2 DEF Bars, Holds
<1>3. ASSUME NEW w \in Writers, Refunds(e, w) \/ Uses(e, w) \/ Puts(e, w)
      PROVE  Holds(e) /\ (slave[e].is = "none" => slave'[e].is = "none")
  <2>1. CASE Refunds(e, w)
    BY <2>1 DEF Refunds, Ended
  <2>2. CASE Uses(e, w)
    BY <2>2 DEF Uses
  <2>3. CASE Puts(e, w)
    BY <2>3 DEF Puts
  <2> QED
    BY <1>3, <2>1, <2>2, <2>3
<1>4. ASSUME Holds(e), slave[e].is = "none" => slave'[e].is = "none"
      PROVE  /\ wire'[e] = wire[e] \/ tx[e].todo # <<>>
             /\ wire'[Peer(e)] = wire[Peer(e)] \/ wire[Peer(e)] # <<>>
             /\ tx'[e].todo = <<>> => tx'[e] = Idle
             /\ slave[e].is = "none" => \/ slave'[e].is = "none" \/ e = "a"
                                        \/ e = "b" /\ \E f \in Frames : TakesMake(e, f)
  BY <1>0, <1>4 DEF Holds
<1>5. CASE AbortsSlave(e)
  BY <1>0, <1>5 DEF AbortsSlave, Finishes, Open
<1>6. CASE Resizes(e)
  BY <1>0, <1>6 DEF Resizes
<1>7. CASE Makes(e)
  BY <1>0, <1>7 DEF Makes
<1>8. ASSUME NEW f, Gets(e, f)
      PROVE  slave[e].is # "none" /\ wire' = wire /\ tx'[e] = tx[e]
  BY <1>8 DEF Gets
<1>9. CASE Breaks(e)
  <2>1. wire' = wire /\ tx'[e] = Idle
    BY <1>9 DEF Breaks
  <2>2. slave[e].is = "none" => slave'[e] = slave[e]
    BY <1>9 DEF Breaks, Open
  <2> QED
    BY <2>1, <2>2
<1>10. ASSUME NEW h, NEW q, NEW x, NEW y, Fills(e, h, q, x, y)
       PROVE  /\ wire' = wire /\ tx'[e].todo # <<>>
              /\ slave[e].is = "none" => slave'[e].is = "none"
  <2>1. Has(x, "BARRIER") => x # <<>>
    BY DEF Has
  <2> QED
    BY <1>10, <2>1 DEF Fills, Open
<1>11. ASSUME NEW f, NEW g, Writes(e, f, g)
       PROVE  /\ tx[e].todo # <<>> /\ wire'[Peer(e)] = wire[Peer(e)] /\ slave'[e] = slave[e]
              /\ tx'[e].todo = <<>> => tx'[e] = Idle
  BY <1>11 DEF Writes
<1>12. ASSUME NEW f \in Frames,
              \/ TakesData(e, f) \/ TakesWindow(e, f) \/ TakesReset(e, f) \/ TakesMake(e, f) \/ TakesMade(e, f)
       PROVE  /\ wire'[e] = wire[e] /\ wire[Peer(e)] # <<>> /\ tx'[e] = tx[e]
              /\ slave[e].is = "none" => slave'[e].is = "none" \/ (e = "b" /\ TakesMake(e, f))
  <2>1. CASE TakesData(e, f)
    BY <2>1 DEF TakesData, Takes
  <2>2. CASE TakesWindow(e, f)
    BY <2>2 DEF TakesWindow, Takes, Open
  <2>3. CASE TakesReset(e, f)
    BY <2>3 DEF TakesReset, Takes, Open
  <2>4. CASE TakesMake(e, f)
    BY <2>4 DEF TakesMake, Takes
  <2>5. CASE TakesMade(e, f)
    BY <2>5 DEF TakesMade, Takes
  <2> QED
    BY <1>12, <2>1, <2>2, <2>3, <2>4, <2>5
<1>13. CASE ApplicationStep(e)
  <2>1. CASE Quiet(e) \/ Bars(e) \/ AbortsSlave(e) \/ Resizes(e) \/ Makes(e)
    BY <1>1, <1>2, <1>5, <1>6, <1>7, <2>1
  <2>2. CASE \E w \in Writers : Refunds(e, w) \/ Uses(e, w) \/ Puts(e, w)
    BY <1>3, <1>4, <2>2
  <2>3. CASE \E f \in Packed(Peer(e)) \cup {Pill} : Gets(e, f)
    BY <1>0, <1>8, <2>3
  <2> QED
    BY <1>13, <2>1, <2>2, <2>3 DEF ApplicationStep
<1>14. CASE MasterStep(e)
  <2>1. CASE \E h, q, x, y \in Seq(Frames) : Fills(e, h, q, x, y)
    BY <1>10, <2>1
  <2>2. CASE \E f \in Frames : \E g \in Frames : Writes(e, f, g)
    BY <1>11, <2>2
  <2>3. CASE \E f \in Frames : \/ TakesData(e, f) \/ TakesWindow(e, f) \/ TakesReset(e, f)
                               \/ TakesMake(e, f) \/ TakesMade(e, f)
    BY <1>0, <1>12, <2>3
  <2> QED
    BY <1>9, <1>14, <2>1, <2>2, <2>3 DEF MasterStep
<1> QED
  BY <1>13, <1>14 DEF StepOf

LEMMA SilenceKept ==
    ASSUME Inv, NEW e \in Ends, StepOf(e)
    PROVE  SilentBefore'
<1> DEFINE p == Peer(e)
<1>0. p \in Ends /\ p # e /\ Ends = {e, p} /\ SilentBefore
  BY EndFacts DEF Inv
<1>1. Rests(p) /\ (slave'[e].is = "none" => Rests(e))
  BY DEF StepOf
<1>2. /\ wire'[e] = wire[e] \/ tx[e].todo # <<>>
      /\ wire'[p] = wire[p] \/ wire[p] # <<>>
      /\ tx'[e].todo = <<>> => tx'[e] = Idle
      /\ slave[e].is = "none" => \/ slave'[e].is = "none" \/ e = "a"
                                 \/ e = "b" /\ \E f \in Frames : TakesMake(e, f)
  BY StepSummary
<1>3. ASSUME NEW x \in Ends, slave'[x].is = "none"
      PROVE  /\ slave'[x] = NoSlave /\ cmd'[x] = <<>> /\ tx'[x] = Idle /\ wire'[x] = <<>>
             /\ queued'[x] = <<>> /\ got'[x] = <<>> /\ closer'[x].at = "idle"
             /\ \A w \in Writers : EndOf[w] = x => writer'[w].at = "idle" /\ writer'[w].done = "unset"
  <2>1. Rests(x)
    BY <1>0, <1>1, <1>3
  <2>2. slave[x].is = "none"
    BY <1>3, <2>1 DEF Rests
  <2>3. /\ slave[x] = NoSlave /\ cmd[x] = <<>> /\ tx[x] = Idle /\ wire[x] = <<>>
        /\ queued[x] = <<>> /\ got[x] = <<>> /\ closer[x].at = "idle"
        /\ \A w \in Writers : EndOf[w] = x => writer[w].at = "idle" /\ writer[w].done = "unset"
    BY <1>0, <2>2 DEF SilentBefore
  <2>4. wire'[x] = <<>>
    <3>1. tx[x].todo = <<>>
      BY <2>3 DEF Idle
    <3> QED
      BY <1>0, <1>2, <2>3, <3>1
  <2> QED
    BY <2>1, <2>3, <2>4 DEF Rests
<1>4. slave'["a"].is = "none" => slave'["b"].is = "none"
  <2> SUFFICES ASSUME slave'["a"].is = "none", slave'["b"].is # "none" PROVE FALSE
    OBVIOUS
  <2>1. "a" \in Ends /\ "b" \in Ends
    BY DEF Ends
  <2>2. Rests("a")
    BY <1>0, <1>1, <2>1
  <2>3. slave["a"].is = "none" /\ slave["b"].is = "none" /\ wire["a"] = <<>>
    <3>1. slave["a"].is = "none"
      BY <2>2 DEF Rests
    <3> QED
      BY <1>0, <2>1, <3>1 DEF SilentBefore
  <2>4. e = "b"
    <3>1. CASE e # "b"
      BY <1>0, <1>1, <2>1, <2>3, <3>1 DEF Rests
    <3> QED
      BY <3>1
  <2>5. PICK f \in Frames : TakesMake(e, f)
    BY <1>2, <2>3, <2>4
  <2> QED
    BY <2>3, <2>4, <2>5 DEF TakesMake, Takes, Peer
<1>5. ASSUME NEW x \in Ends PROVE tx'[x].todo = <<>> => tx'[x] = Idle
  BY <1>0, <1>1, <1>2 DEF SilentBefore, Rests
<1> QED
  BY <1>3, <1>4, <1>5 DEF SilentBefore

\* The first packets: nothing is sent without credit, nothing is received that was not sent.
Mute(e) ==
    /\ slave[e].credit = 0 /\ queued[e] = <<>>
    /\ ~Has(slave[e].sendQ, "DATA") /\ ~Has(tx[e].todo, "DATA") /\ ~Has(wire[e], "DATA")
    /\ \A w \in Writers : EndOf[w] = e => writer[w].at \in {"idle", "credit"}
Deaf(e) == got[e] = <<>> /\ ~Has(slave[e].recvQ, "DATA")
Granted(e) == \E f \in Frames : TakesWindow(e, f) \/ TakesMake(e, f) \/ TakesMade(e, f)

\* The queues of an end, as sequences of frames.
LEMMA QueueTypes ==
    ASSUME Inv, NEW e \in Ends
    PROVE  /\ slave[e] \in SlaveType /\ slave[e].sendQ \in Seq(Frames) /\ slave[e].recvQ \in Seq(Frames)
           /\ cmd[e] \in Seq(Frames) /\ tx[e].todo \in Seq(Frames) /\ wire[e] \in Seq(Frames)
           /\ slave[e].credit \in Nat /\ slave[e].pending \in Nat /\ slave[e].cap \in Nat
           /\ got[e] \in Seq(Names) /\ queued[e] \in Seq(Names)
<1>1. slave[e] \in SlaveType
  BY DEF Inv, TypeOK
<1>2. tx[e] \in [todo : Seq(Frames), all : Seq(Frames)] /\ cmd[e] \in Seq(Frames) /\ wire[e] \in Seq(Frames)
  BY DEF Inv, TypeOK
<1>3. got[e] \in Seq(Names) /\ queued[e] \in Seq(Names)
  BY DEF Inv, TypeOK, Names
<1> QED
  BY <1>1, <1>2, <1>3 DEF SlaveType

LEMMA NoDataInCommands ==
    ASSUME Inv, NEW e \in Ends, NEW x \in Seq(Frames), NEW y \in Seq(Frames), cmd[e] = x \o y
    PROVE  ~Has(x, "DATA") /\ ~Has(x, "BARRIER")
<1>1. cmd[e] \in Seq(Commands(e))
  BY DEF Inv, FramesTell
<1>2. x \in Seq(Commands(e))
  BY <1>1, SeqParts
<1>3. \A f \in Commands(e) : f.type # "DATA" /\ f.type # "BARRIER"
  BY DEF Commands
<1>4. \A i \in DOMAIN x : x[i] \in Commands(e)
  BY <1>2
<1> QED
  BY <1>3, <1>4 DEF Has

LEMMA EmptyHasNone ==
    ASSUME NEW type
    PROVE  ~Has(<<>>, type) /\ Idle.todo = <<>>
  BY DEF Has, Idle

LEMMA NoneInPills ==
    ASSUME NEW q \in Seq({Pill})
    PROVE  q \in Seq(Frames) /\ ~Has(q, "DATA") /\ ~Has(q, "BARRIER")
<1>1. q \in Seq(Frames)
  <2>1. {Pill} \subseteq Frames
    BY FrameTypes
  <2> QED
    BY <2>1, SeqMonotonic
<1>2. Pill.type = "PILL" /\ \A i \in DOMAIN q : q[i] = Pill
  BY DEF Pill, Frame
<1> QED
  BY <1>1, <1>2 DEF Has

LEMMA MuteKept ==
    ASSUME Inv, NEW e \in Ends, StepOf(e), Mute(e), ~Granted(e)
    PROVE  Mute(e)'
<1>0. /\ slave[e] \in SlaveType /\ slave[e].sendQ \in Seq(Frames) /\ cmd[e] \in Seq(Frames)
      /\ tx[e].todo \in Seq(Frames) /\ wire[e] \in Seq(Frames) /\ slave[e].credit \in Nat
  BY QueueTypes
<1>1. /\ slave[e].credit = 0 /\ queued[e] = <<>>
      /\ ~Has(slave[e].sendQ, "DATA") /\ ~Has(tx[e].todo, "DATA") /\ ~Has(wire[e], "DATA")
      /\ \A w \in Writers : EndOf[w] = e => writer[w].at \in {"idle", "credit"}
  BY DEF Mute
<1>2. ~Has(<<>>, "DATA") /\ Idle.todo = <<>>
  BY EmptyHasNone
<1>3. SUFFICES /\ slave'[e].credit = 0 /\ queued'[e] = <<>>
               /\ ~Has(slave'[e].sendQ, "DATA") /\ ~Has(tx'[e].todo, "DATA") /\ ~Has(wire'[e], "DATA")
               /\ \A w \in Writers : EndOf[w] = e => writer'[w].at \in {"idle", "credit"}
  BY DEF Mute, Has
<1>4. CASE Quiet(e)
  BY <1>1, <1>4 DEF Quiet, Holds, Core
<1>5. CASE Bars(e)
  <2>1. ~Has(slave'[e].sendQ, "DATA")
    <3>1. Barrier \in Frames /\ Barrier.type # "DATA"
      BY FrameTypes DEF Barrier, Frame
    <3> QED
      BY <1>0, <1>1, <1>5, <3>1, HasAppend DEF Bars, Queues
  <2>2. queued'[e] = queued[e]
    BY <1>5 DEF Bars, Queues, Barrier, Frame
  <2> QED
    BY <1>1, <1>5, <2>1, <2>2 DEF Bars, Holds
<1>6. ASSUME NEW w \in Writers, Refunds(e, w) \/ Uses(e, w) \/ Puts(e, w)
      PROVE  FALSE
  <2>1. CASE Refunds(e, w)
    BY <1>1, <2>1 DEF Refunds
  <2>2. CASE Uses(e, w)
    BY <1>1, <2>2 DEF Uses
  <2>3. CASE Puts(e, w)
    BY <1>1, <2>3 DEF Puts
  <2> QED
    BY <1>6, <2>1, <2>2, <2>3
<1>7. CASE AbortsSlave(e)
  BY <1>1, <1>2, <1>7 DEF AbortsSlave, Finishes, KeepsWriters
<1>8. CASE Resizes(e)
  BY <1>1, <1>8 DEF Resizes
<1>9. CASE Makes(e)
  BY <1>1, <1>2, <1>9 DEF Makes, Core
<1>10. ASSUME NEW f, Gets(e, f)
       PROVE  /\ slave'[e].credit = slave[e].credit /\ queued'[e] = queued[e] /\ slave'[e].sendQ = slave[e].sendQ
              /\ tx'[e] = tx[e] /\ wire' = wire /\ writer' = writer
  BY <1>10 DEF Gets
<1>11. CASE Breaks(e)
  BY <1>1, <1>2, <1>11 DEF Breaks, Finishes, KeepsWriters
<1>12. ASSUME NEW h \in Seq(Frames), NEW q \in Seq(Frames), NEW x \in Seq(Frames), NEW y \in Seq(Frames),
              Fills(e, h, q, x, y)
       PROVE  /\ slave'[e].credit = 0 /\ queued'[e] = <<>>
              /\ ~Has(slave'[e].sendQ, "DATA") /\ ~Has(tx'[e].todo, "DATA")
              /\ wire' = wire /\ writer' = writer
  <2>1. ~Has(h, "DATA")
    BY <1>12, NoDataInCommands DEF Fills
  <2>2. ~Has(x, "DATA") /\ ~Has(y, "DATA")
    BY <1>1, <1>12, HasConcat DEF Fills
  <2>3. ~Has(h \o x, "DATA")
    BY <2>1, <2>2, HasConcat
  <2> QED
    BY <1>1, <1>12, <2>2, <2>3 DEF Fills
<1>13. ASSUME NEW f \in Frames, NEW g \in Frames, Writes(e, f, g)
       PROVE  /\ ~Has(tx'[e].todo, "DATA") /\ ~Has(wire'[e], "DATA")
              /\ slave'[e] = slave[e] /\ queued'[e] = queued[e] /\ KeepsWriters(e)
  <2>1. f.type # "DATA" /\ ~Has(tx'[e].todo, "DATA")
    BY <1>0, <1>1, <1>13, HasTail DEF Writes
  <2>2. g.type # "DATA"
    BY <1>13, <2>1 DEF Writes, RESET, Command, Frame
  <2>3. ~Has(wire'[e], "DATA")
    BY <1>0, <1>1, <1>13, <2>2, HasAppend DEF Writes
  <2> QED
    BY <1>13, <2>1, <2>3 DEF Writes
<1>14. ASSUME NEW f \in Frames, TakesData(e, f) \/ TakesReset(e, f)
       PROVE  /\ slave'[e].credit = 0 /\ queued'[e] = <<>> /\ ~Has(slave'[e].sendQ, "DATA")
              /\ tx'[e] = tx[e] /\ wire'[e] = wire[e] /\ KeepsWriters(e)
  <2>1. CASE TakesData(e, f)
    BY <1>1, <2>1 DEF TakesData, Takes
  <2>2. CASE TakesReset(e, f)
    BY <1>1, <1>2, <2>2 DEF TakesReset, Takes, Finishes
  <2> QED
    BY <1>14, <2>1, <2>2
<1>15. CASE ApplicationStep(e)
  BY <1>1, <1>4, <1>5, <1>6, <1>7, <1>8, <1>9, <1>10, <1>15 DEF ApplicationStep
<1>16. CASE MasterStep(e)
  <2>1. CASE \E h, q, x, y \in Seq(Frames) : Fills(e, h, q, x, y)
    BY <1>1, <1>12, <2>1
  <2>2. CASE \E f \in Frames : \E g \in Frames : Writes(e, f, g)
    BY <1>1, <1>13, <2>2 DEF KeepsWriters
  <2>3. CASE \E f \in Frames : TakesData(e, f) \/ TakesReset(e, f)
    BY <1>1, <1>14, <2>3 DEF KeepsWriters
  <2> QED
    BY <1>11, <1>16, <2>1, <2>2, <2>3 DEF MasterStep, Granted
<1> QED
  BY <1>15, <1>16 DEF StepOf

LEMMA DeafKept ==
    ASSUME Inv, NEW e \in Ends, StepOf(e), Deaf(e), ~Has(wire[Peer(e)], "DATA")
    PROVE  Deaf(e)' /\ ~Has(wire'[Peer(e)], "DATA")
<1> DEFINE p == Peer(e)
<1>0. /\ p \in Ends /\ slave[e] \in SlaveType /\ slave[e].recvQ \in Seq(Frames)
      /\ wire[p] \in Seq(Frames) /\ got[e] \in Seq(Names)
  BY QueueTypes, EndFacts
<1>1. got[e] = <<>> /\ ~Has(slave[e].recvQ, "DATA")
  BY DEF Deaf
<1>2. ~Has(<<>>, "DATA")
  BY EmptyHasNone
<1>3. SUFFICES got'[e] = <<>> /\ ~Has(slave'[e].recvQ, "DATA") /\ ~Has(wire'[p], "DATA")
  BY DEF Deaf, Has
<1> DEFINE Good == got'[e] = <<>> /\ ~Has(slave'[e].recvQ, "DATA") /\ ~Has(wire'[p], "DATA")
<1> HIDE DEF p
<1>4. CASE Quiet(e)
  BY <1>1, <1>4 DEF Quiet, Holds, Core, p
<1>5. CASE Bars(e)
  BY <1>1, <1>5 DEF Bars, Holds, p
<1>6. ASSUME NEW w \in Writers, Refunds(e, w) \/ Uses(e, w) \/ Puts(e, w)
      PROVE  slave'[e].recvQ = slave[e].recvQ /\ Holds(e)
  <2>1. CASE Refunds(e, w)
    <3>1. PICK n \in Nat : Core(slave'[e]) = Core([slave[e] EXCEPT !.credit = @ + n])
      BY <2>1 DEF Refunds
    <3>2. slave'[e].recvQ = slave[e].recvQ
      BY <1>0, <3>1 DEF Core, SlaveType
    <3> QED
      BY <2>1, <3>2 DEF Refunds
  <2>2. CASE Uses(e, w)
    BY <2>2 DEF Uses
  <2>3. CASE Puts(e, w)
    BY <2>3 DEF Puts
  <2> QED
    BY <1>6, <2>1, <2>2, <2>3
<1>7. ASSUME NEW reason, Finishes(e, reason) PROVE ~Has(slave'[e].recvQ, "DATA")
  <2>1. PICK pills \in Seq({Pill}) : slave'[e].recvQ = slave[e].recvQ \o pills
    BY <1>7 DEF Finishes
  <2>2. pills \in Seq(Frames) /\ ~Has(pills, "DATA")
    BY NoneInPills
  <2> QED
    BY <1>0, <1>1, <2>1, <2>2, HasConcat
<1>8. CASE AbortsSlave(e)
  BY <1>1, <1>7, <1>8 DEF AbortsSlave, p
<1>9. CASE Resizes(e)
  BY <1>1, <1>9 DEF Resizes, p
<1>10. CASE Makes(e)
  BY <1>1, <1>2, <1>10 DEF Makes, Core, p
<1>11. ASSUME NEW f \in Packed(Peer(e)) \cup {Pill}, Gets(e, f)
       PROVE  Good
  <2>1. f.type # "DATA" /\ ~Has(slave'[e].recvQ, "DATA")
    BY <1>0, <1>1, <1>11, HasTail DEF Gets
  <2>2. f.type = "PILL"
    BY <2>1 DEF Packed, Pill, Frame
  <2> QED
    BY <1>0, <1>1, <1>11, <2>1, <2>2 DEF Gets, p
<1>12. CASE Breaks(e)
  BY <1>1, <1>7, <1>12 DEF Breaks, p
<1>13. ASSUME NEW h \in Seq(Frames), NEW q \in Seq(Frames), NEW x \in Seq(Frames), NEW y \in Seq(Frames),
              Fills(e, h, q, x, y)
       PROVE  Good
  <2>1. ~Has(slave'[e].recvQ, "DATA")
    <3>1. CASE Has(x, "BARRIER")
      <4>1. PICK pills \in Seq({Pill}) : slave'[e].recvQ = slave[e].recvQ \o pills
        BY <1>13, <3>1 DEF Fills
      <4>2. pills \in Seq(Frames) /\ ~Has(pills, "DATA")
        BY NoneInPills
      <4> QED
        BY <1>0, <1>1, <4>1, <4>2, HasConcat
    <3>2. CASE ~Has(x, "BARRIER")
      BY <1>1, <1>13, <3>2 DEF Fills
    <3> QED
      BY <3>1, <3>2
  <2> QED
    BY <1>1, <1>13, <2>1 DEF Fills, p
<1>14. ASSUME NEW f \in Frames, NEW g \in Frames, Writes(e, f, g)
       PROVE  Good
  BY <1>1, <1>14 DEF Writes, p
<1>15. ASSUME NEW f \in Frames, Takes(e, f)
       PROVE  got'[e] = <<>> /\ ~Has(wire'[p], "DATA") /\ f.type # "DATA"
  BY <1>0, <1>1, <1>15, HasTail DEF Takes, p
<1>16. ASSUME NEW f \in Frames,
              \/ TakesData(e, f) \/ TakesWindow(e, f) \/ TakesReset(e, f) \/ TakesMake(e, f) \/ TakesMade(e, f)
       PROVE  Good
  <2>1. CASE TakesData(e, f)
    BY <1>15, <2>1 DEF TakesData
  <2>2. CASE TakesWindow(e, f)
    <3>1. slave'[e].recvQ = slave[e].recvQ
      BY <1>0, <2>2 DEF TakesWindow, Core, SlaveType
    <3> QED
      BY <1>1, <1>15, <2>2, <3>1 DEF TakesWindow
  <2>3. CASE TakesReset(e, f)
    BY <1>1, <1>7, <1>15, <2>3 DEF TakesReset
  <2>4. CASE TakesMake(e, f)
    BY <1>2, <1>15, <2>4 DEF TakesMake, Core
  <2>5. CASE TakesMade(e, f)
    <3>1. slave'[e].recvQ = slave[e].recvQ
      BY <1>0, <2>5 DEF TakesMade, Core, SlaveType
    <3> QED
      BY <1>1, <1>15, <2>5, <3>1 DEF TakesMade
  <2> QED
    BY <1>16, <2>1, <2>2, <2>3, <2>4, <2>5
<1>17. CASE ApplicationStep(e)
  BY <1>1, <1>4, <1>5, <1>6, <1>8, <1>9, <1>10, <1>11, <1>17 DEF ApplicationStep, Holds, p
<1>18. CASE MasterStep(e)
  BY <1>12, <1>13, <1>14, <1>16, <1>18 DEF MasterStep
<1> QED
  BY <1>17, <1>18 DEF StepOf

\* How the frames of e move: appended to the commands, taken into a batch, written, dropped by
\* an abort.
Fresh(e, type) ==
    \/ type = "MAKE" /\ Makes(e)
    \/ type = "MADE" /\ \E g \in Frames : TakesMake(e, g)
Flows(e) ==
    \/ cmd'[e] = cmd[e] /\ tx'[e].todo = tx[e].todo /\ wire'[e] = wire[e]
    \/ /\ tx'[e].todo = tx[e].todo /\ wire'[e] = wire[e]
       /\ \E f \in Frames : /\ cmd'[e] = Append(cmd[e], f)
                            /\ f.type \in {"WINDOW", "RESET"} \/ Fresh(e, f.type)
    \/ Breaks(e)
    \/ /\ wire'[e] = wire[e] /\ tx[e].todo = <<>>
       /\ \E h, q, x \in Seq(Frames) : /\ cmd[e] = h \o q /\ tx'[e].todo = h \o x /\ cmd'[e] = q
                                       /\ ~Has(x, "MAKE") /\ ~Has(x, "MADE") /\ h \o x # <<>> /\ (q = <<>> \/ x = <<>>)
    \/ /\ cmd'[e] = cmd[e] /\ tx[e].todo # <<>> /\ tx'[e].todo = Tail(tx[e].todo)
       /\ \E g \in Frames : /\ wire'[e] = Append(wire[e], g)
                            /\ \A type \in {"MAKE", "MADE"} : g.type = type <=> Head(tx[e].todo).type = type

LEMMA StepFlows ==
    ASSUME Inv, NEW e \in Ends, StepOf(e), TypeOK'
    PROVE  Flows(e)
<1>0. /\ slave[e] \in SlaveType /\ slave'[e] \in SlaveType /\ cmd[e] \in Seq(Frames)
      /\ slave[e].pending \in Nat /\ slave'[e].cap \in Nat /\ slave[e].cap \in Nat
  <2>1. slave'[e] \in SlaveType
    BY DEF TypeOK
  <2> QED
    BY <2>1, QueueTypes DEF SlaveType
<1>1. /\ \A n \in Nat : RESET(n) \in Frames /\ RESET(n).type = "RESET"
      /\ \A n \in Nat, t \in {"MAKE", "MADE", "WINDOW"} : Command(t, n) \in Frames /\ Command(t, n).type = t
  BY FrameTypes DEF RESET, Command, Frame
<1>2. CASE Quiet(e)
  BY <1>2 DEF Quiet, Holds, Flows
<1>3. CASE Bars(e)
  BY <1>3 DEF Bars, Holds, Flows
<1>4. ASSUME NEW w \in Writers, Refunds(e, w) \/ Uses(e, w) \/ Puts(e, w)
      PROVE  Flows(e)
  BY <1>4 DEF Refunds, Uses, Puts, Holds, Flows
<1>5. CASE AbortsSlave(e)
  BY <1>1, <1>5 DEF AbortsSlave, Flows
<1>6. CASE Resizes(e)
  <2>1. CASE cmd'[e] = cmd[e]
    BY <1>6, <2>1 DEF Resizes, Flows
  <2>2. CASE cmd'[e] # cmd[e]
    <3>1. cmd'[e] = Append(cmd[e], Command("WINDOW", slave'[e].cap - slave[e].cap)) /\ slave'[e].cap > slave[e].cap
      BY <1>6, <2>2 DEF Resizes
    <3>2. slave'[e].cap - slave[e].cap \in Nat
      BY <1>0, <3>1
    <3> QED
      BY <1>1, <1>6, <3>1, <3>2 DEF Resizes, Flows
  <2> QED
    BY <2>1, <2>2
<1>7. CASE Makes(e)
  <2>1. RecvCap \in Nat
    BY MultiStreamAssumption
  <2>2. Command("MAKE", RecvCap) \in Frames /\ Fresh(e, Command("MAKE", RecvCap).type)
    <3>1. Fresh(e, "MAKE")
      BY <1>7 DEF Fresh
    <3>2. Command("MAKE", RecvCap) \in Frames /\ Command("MAKE", RecvCap).type = "MAKE"
      BY <1>1, <2>1
    <3> QED
      BY <3>1, <3>2
  <2> QED
    BY <1>7, <2>2 DEF Makes, Flows
<1>8. ASSUME NEW f \in Packed(Peer(e)) \cup {Pill}, Gets(e, f)
      PROVE  Flows(e)
  <2>1. f \in Frames /\ f.arg \in Nat
    BY FrameTypes DEF Packed, Frames
  <2>2. slave[e].pending + f.arg \in Nat
    BY <1>0, <2>1
  <2>3. tx'[e] = tx[e] /\ wire' = wire
    BY <1>8 DEF Gets
  <2>4. CASE cmd'[e] = cmd[e]
    BY <2>3, <2>4 DEF Flows
  <2>5. CASE cmd'[e] # cmd[e]
    <3>1. cmd'[e] = Append(cmd[e], Command("WINDOW", slave[e].pending + f.arg))
      BY <1>8, <2>5 DEF Gets
    <3> QED
      BY <1>1, <2>2, <2>3, <3>1 DEF Flows
  <2> QED
    BY <2>4, <2>5
<1>9. CASE Breaks(e)
  BY <1>9 DEF Flows
<1>10. ASSUME NEW h \in Seq(Frames), NEW q \in Seq(Frames), NEW x \in Seq(Frames), NEW y \in Seq(Frames),
              Fills(e, h, q, x, y)
       PROVE  Flows(e)
  <2>1. ~Has(x, "MAKE") /\ ~Has(x, "MADE")
    <3>1. slave[e].sendQ \in Seq(Packed(e) \cup {Barrier})
      BY DEF Inv, FramesTell
    <3>2. x \in Seq(Packed(e) \cup {Barrier})
      BY <1>10, <3>1, SeqParts DEF Fills
    <3>3. \A f \in Packed(e) \cup {Barrier} : f.type # "MAKE" /\ f.type # "MADE"
      BY DEF Packed, Barrier, Frame
    <3>4. \A i \in DOMAIN x : x[i] \in Packed(e) \cup {Barrier}
      BY <3>2
    <3> QED
      BY <3>3, <3>4 DEF Has
  <2>2. wire' = wire /\ tx[e].todo = <<>> /\ cmd[e] = h \o q /\ tx'[e].todo = h \o x /\ cmd'[e] = q /\ h \o x # <<>> /\ (q = <<>> \/ x = <<>>)
    <3>1. tx[e] = Idle /\ tx'[e] = [todo |-> h \o x, all |-> h \o x]
      BY <1>10 DEF Fills
    <3>2. wire' = wire /\ cmd[e] = h \o q /\ cmd'[e] = q /\ h \o x # <<>> /\ (q = <<>> \/ x = <<>>)
      BY <1>10 DEF Fills
    <3>3. tx[e].todo = <<>>
      BY <3>1 DEF Idle
    <3>4. tx'[e].todo = h \o x
      BY <3>1
    <3> QED
      BY <3>2, <3>3, <3>4
  <2> QED
    BY <2>1, <2>2 DEF Flows
<1>11. ASSUME NEW f \in Frames, NEW g \in Frames, Writes(e, f, g)
       PROVE  Flows(e)
  <2>1. \A type \in {"MAKE", "MADE"} : g.type = type <=> f.type = type
    BY <1>11 DEF Writes, RESET, Command, Frame
  <2> QED
    BY <1>11, <2>1 DEF Writes, Flows
<1>12. ASSUME NEW f \in Frames,
              \/ TakesData(e, f) \/ TakesWindow(e, f) \/ TakesReset(e, f) \/ TakesMake(e, f) \/ TakesMade(e, f)
       PROVE  Flows(e)
  <2>1. CASE TakesData(e, f)
    BY <2>1 DEF TakesData, Takes, Flows
  <2>2. CASE TakesWindow(e, f)
    BY <2>2 DEF TakesWindow, Takes, Flows
  <2>3. CASE TakesReset(e, f)
    BY <2>3 DEF TakesReset, Takes, Flows
  <2>4. CASE TakesMake(e, f)
    <3>1. RecvCap \in Nat
      BY MultiStreamAssumption
    <3>2. Command("MADE", RecvCap) \in Frames /\ Fresh(e, Command("MADE", RecvCap).type)
      BY <1>1, <2>4, <3>1 DEF Fresh
    <3> QED
      BY <2>4, <3>2 DEF TakesMake, Takes, Flows
  <2>5. CASE TakesMade(e, f)
    <3>1. RESET(3) \in Frames /\ RESET(3).type = "RESET"
      BY <1>1
    <3> QED
      BY <2>5, <3>1 DEF TakesMade, Takes, Flows
  <2> QED
    BY <1>12, <2>1, <2>2, <2>3, <2>4, <2>5
<1>13. CASE ApplicationStep(e)
  BY <1>2, <1>3, <1>4, <1>5, <1>6, <1>7, <1>8, <1>13 DEF ApplicationStep
<1>14. CASE MasterStep(e)
  BY <1>9, <1>10, <1>11, <1>12, <1>14 DEF MasterStep
<1> QED
  BY <1>13, <1>14 DEF StepOf

\* The greeting of e stays in front of everything else of e.
LEMMA FlowKept ==
    ASSUME Inv, NEW e \in Ends, Flows(e), NEW type \in {"MAKE", "MADE"}, IsFirst(e, type)
    PROVE  /\ IsFirst(e, type)'
           /\ Comes(e, type)' => Comes(e, type) \/ Fresh(e, type)
           /\ Comes(e, type) => Comes(e, type)' \/ Breaks(e)
<1>0. cmd[e] \in Seq(Frames) /\ tx[e].todo \in Seq(Frames) /\ wire[e] \in Seq(Frames)
  BY QueueTypes
<1> DEFINE C == cmd[e]
           T == tx[e].todo
           W == wire[e]
           C2 == cmd'[e]
           T2 == tx'[e].todo
           W2 == wire'[e]
<1>1. /\ OnlyFirst(W, type) /\ OnlyFirst(T, type) /\ OnlyFirst(C, type)
      /\ Has(T, type) \/ Has(C, type) => W = <<>>
      /\ Has(C, type) => T = <<>>
  BY DEF IsFirst
<1>2. SUFFICES /\ OnlyFirst(W2, type) /\ OnlyFirst(T2, type) /\ OnlyFirst(C2, type)
               /\ Has(T2, type) \/ Has(C2, type) => W2 = <<>>
               /\ Has(C2, type) => T2 = <<>>
               /\ Has(W2, type) \/ Has(T2, type) \/ Has(C2, type) =>
                      Has(W, type) \/ Has(T, type) \/ Has(C, type) \/ Fresh(e, type)
               /\ Has(W, type) \/ Has(T, type) \/ Has(C, type) =>
                      Has(W2, type) \/ Has(T2, type) \/ Has(C2, type) \/ Breaks(e)
  BY DEF IsFirst, Comes, Has, OnlyFirst
<1>3. ~Has(<<>>, type) /\ OnlyFirst(<<>>, type) /\ Idle.todo = <<>>
  BY DEF Has, OnlyFirst, Idle
<1>4. Fresh(e, type) => C = <<>> /\ T = <<>> /\ W = <<>>
  <2>1. Fresh(e, type) => slave[e].is = "none"
    BY DEF Fresh, Makes, TakesMake
  <2>2. slave[e].is = "none" => cmd[e] = <<>> /\ tx[e] = Idle /\ wire[e] = <<>>
    BY DEF Inv, SilentBefore
  <2> QED
    BY <2>1, <2>2, <1>3
<1>5. CASE C2 = C /\ T2 = T /\ W2 = W
  BY <1>1, <1>5
<1>6. ASSUME NEW f \in Frames, T2 = T, W2 = W, C2 = Append(C, f), f.type \in {"WINDOW", "RESET"} \/ Fresh(e, f.type)
      PROVE  /\ OnlyFirst(C2, type)
             /\ Has(C2, type) <=> Has(C, type) \/ f.type = type
             /\ f.type = type => C = <<>> /\ T = <<>> /\ W = <<>> /\ Fresh(e, type)
  <2>1. f.type = type => C = <<>> /\ T = <<>> /\ W = <<>> /\ Fresh(e, type)
    BY <1>4, <1>6
  <2> HIDE DEF C
  <2>2. C \in Seq(Frames)
    BY <1>0 DEF C
  <2> QED
    BY <1>1, <1>6, <2>1, <2>2, HasAppend
<1>7. CASE Breaks(e)
  <2>1. C2 = <<>> /\ T2 = <<>> /\ W2 = W
    BY <1>3, <1>7 DEF Breaks
  <2> QED
    BY <1>1, <1>3, <1>7, <2>1
<1>8. ASSUME NEW h \in Seq(Frames), NEW q \in Seq(Frames), NEW x \in Seq(Frames),
             W2 = W, T = <<>>, C = h \o q, T2 = h \o x, C2 = q,
             ~Has(x, "MAKE"), ~Has(x, "MADE"), h \o x # <<>>, q = <<>> \/ x = <<>>
      PROVE  /\ OnlyFirst(T2, type) /\ OnlyFirst(C2, type)
             /\ ~Has(T, type)
             /\ Has(C, type) <=> Has(T2, type) \/ Has(C2, type)
             /\ Has(C2, type) => T2 = <<>>
  <2>1. ~Has(x, type) /\ OnlyFirst(x, type)
    BY <1>8 DEF Has, OnlyFirst
  <2>2. /\ Has(h \o q, type) <=> Has(h, type) \/ Has(q, type)
        /\ OnlyFirst(h, type) /\ OnlyFirst(q, type) /\ (Has(q, type) => h = <<>>)
    BY <1>1, <1>8, HasConcat
  <2>3. Has(h \o x, type) <=> Has(h, type)
    BY <2>1, HasConcat
  <2>4. OnlyFirst(h \o x, type)
    BY <2>1, <2>2, HasConcat
  <2>5. Has(q, type) => h \o x = <<>>
    <3> SUFFICES ASSUME Has(q, type) PROVE FALSE
      OBVIOUS
    <3>1. h = <<>> /\ x = <<>>
      BY <1>3, <1>8, <2>2
    <3> QED
      BY <1>8, <3>1
  <2> QED
    BY <1>3, <1>8, <2>2, <2>3, <2>4, <2>5
<1>9. ASSUME NEW g \in Frames, C2 = C, T # <<>>, T2 = Tail(T), W2 = Append(W, g),
             g.type = type <=> Head(T).type = type
      PROVE  /\ OnlyFirst(W2, type) /\ OnlyFirst(T2, type) /\ ~Has(T2, type) /\ ~Has(C, type)
             /\ Has(W2, type) <=> Has(W, type) \/ Has(T, type)
  <2> HIDE DEF T, W
  <2>1. T \in Seq(Frames) /\ W \in Seq(Frames)
    BY <1>0 DEF T, W
  <2>2. /\ Has(T, type) <=> Head(T).type = type \/ Has(Tail(T), type)
        /\ OnlyFirst(Tail(T), type) /\ ~Has(Tail(T), type)
    BY <1>1, <1>9, <2>1, HasTail
  <2>3. g.type = type => W = <<>>
    BY <1>1, <1>9, <2>2
  <2>4. (Has(Append(W, g), type) <=> Has(W, type) \/ g.type = type) /\ OnlyFirst(Append(W, g), type)
    BY <1>1, <2>1, <2>3, HasAppend
  <2> QED
    BY <1>1, <1>9, <2>2, <2>4
<1>10. CASE /\ tx'[e].todo = tx[e].todo /\ wire'[e] = wire[e]
            /\ \E f \in Frames : /\ cmd'[e] = Append(cmd[e], f)
                                 /\ f.type \in {"WINDOW", "RESET"} \/ Fresh(e, f.type)
  <2>1. PICK f \in Frames : C2 = Append(C, f) /\ (f.type \in {"WINDOW", "RESET"} \/ Fresh(e, f.type))
    BY <1>10
  <2>2. /\ OnlyFirst(C2, type)
        /\ Has(C2, type) <=> Has(C, type) \/ f.type = type
        /\ f.type = type => C = <<>> /\ T = <<>> /\ W = <<>> /\ Fresh(e, type)
    BY <1>6, <1>10, <2>1
  <2>3. T2 = T /\ W2 = W
    BY <1>10
  <2> HIDE DEF C, T, W, C2, T2, W2
  <2> QED
    BY <1>1, <1>3, <2>2, <2>3
<1>11. CASE /\ wire'[e] = wire[e] /\ tx[e].todo = <<>>
            /\ \E h, q, x \in Seq(Frames) :
                  /\ cmd[e] = h \o q /\ tx'[e].todo = h \o x /\ cmd'[e] = q
                  /\ ~Has(x, "MAKE") /\ ~Has(x, "MADE") /\ h \o x # <<>> /\ (q = <<>> \/ x = <<>>)
  <2>1. /\ OnlyFirst(T2, type) /\ OnlyFirst(C2, type)
        /\ ~Has(T, type)
        /\ Has(C, type) <=> Has(T2, type) \/ Has(C2, type)
        /\ Has(C2, type) => T2 = <<>>
    BY <1>8, <1>11
  <2>2. W2 = W
    BY <1>11
  <2> HIDE DEF C, T, W, C2, T2, W2
  <2> QED
    BY <1>1, <2>1, <2>2
<1>12. CASE /\ cmd'[e] = cmd[e] /\ tx[e].todo # <<>> /\ tx'[e].todo = Tail(tx[e].todo)
            /\ \E g \in Frames : /\ wire'[e] = Append(wire[e], g)
                                 /\ \A t \in {"MAKE", "MADE"} : g.type = t <=> Head(tx[e].todo).type = t
  <2>1. /\ OnlyFirst(W2, type) /\ OnlyFirst(T2, type) /\ ~Has(T2, type) /\ ~Has(C, type)
        /\ Has(W2, type) <=> Has(W, type) \/ Has(T, type)
    BY <1>9, <1>12
  <2>2. C2 = C
    BY <1>12
  <2> HIDE DEF C, T, W, C2, T2, W2
  <2> QED
    BY <1>1, <2>1, <2>2
<1> QED
  BY <1>5, <1>7, <1>10, <1>11, <1>12 DEF Flows

\* doReceive() of e reads a frame.
Reading(e, f) ==
    \/ TakesData(e, f) \/ TakesWindow(e, f) \/ TakesReset(e, f) \/ TakesMake(e, f) \/ TakesMade(e, f)

LEMMA WireOfPeer ==
    ASSUME NEW e \in Ends, StepOf(e)
    PROVE  wire'[Peer(e)] = wire[Peer(e)] \/ \E f \in Frames : Reading(e, f)
<1>1. ASSUME NEW w \in Writers, Refunds(e, w) \/ Uses(e, w) \/ Puts(e, w) PROVE wire' = wire
  BY <1>1 DEF Refunds, Uses, Puts, Holds
<1>2. ASSUME NEW f, Gets(e, f) PROVE wire' = wire
  BY <1>2 DEF Gets
<1>3. CASE ApplicationStep(e)
  <2>1. Quiet(e) \/ Bars(e) \/ AbortsSlave(e) \/ Resizes(e) \/ Makes(e) => wire' = wire
    BY DEF Quiet, Bars, Holds, AbortsSlave, Resizes, Makes
  <2> QED
    BY <1>1, <1>2, <1>3, <2>1 DEF ApplicationStep
<1>4. CASE MasterStep(e)
  <2>1. Breaks(e) => wire' = wire
    BY DEF Breaks
  <2>2. ASSUME NEW h, NEW q, NEW x, NEW y, Fills(e, h, q, x, y) PROVE wire' = wire
    BY <2>2 DEF Fills
  <2>3. ASSUME NEW f, NEW g, Writes(e, f, g) PROVE wire'[Peer(e)] = wire[Peer(e)]
    BY <2>3 DEF Writes
  <2> QED
    BY <1>4, <2>1, <2>2, <2>3 DEF MasterStep, Reading
<1> QED
  BY <1>3, <1>4 DEF StepOf

LEMMA ReadingTakes ==
    ASSUME NEW e, NEW f, Reading(e, f)
    PROVE  Takes(e, f)
  BY DEF Reading, TakesData, TakesWindow, TakesReset, TakesMake, TakesMade

\* The greeting of the other end is read first.
LEMMA TakenKept ==
    ASSUME Inv, NEW e \in Ends, StepOf(e), NEW type \in {"MAKE", "MADE"}, IsFirst(Peer(e), type)
    PROVE  /\ IsFirst(Peer(e), type)'
           /\ Comes(Peer(e), type)' => Comes(Peer(e), type)
           /\ Comes(Peer(e), type) => Comes(Peer(e), type)' \/ \E f \in Frames : Reading(e, f)
           /\ \A f \in Frames : Reading(e, f) /\ Comes(Peer(e), type) => f.type = type
           /\ \A f \in Frames : Reading(e, f) /\ f.type = type => ~Comes(Peer(e), type)'
<1> DEFINE p == Peer(e)
           W == wire[p]
           W2 == wire'[p]
           Waits == Has(tx[p].todo, type) \/ Has(cmd[p], type)
<1>0. p \in Ends /\ W \in Seq(Frames)
  BY QueueTypes, EndFacts
<1>1. /\ OnlyFirst(W, type) /\ OnlyFirst(tx[p].todo, type) /\ OnlyFirst(cmd[p], type)
      /\ Waits => W = <<>>
      /\ Has(cmd[p], type) => tx[p].todo = <<>>
  BY DEF IsFirst
<1>2. tx'[p] = tx[p] /\ cmd'[p] = cmd[p]
  BY DEF StepOf, Rests
<1>3. SUFFICES /\ OnlyFirst(W2, type) /\ (Waits => W2 = <<>>)
               /\ Has(W2, type) \/ Waits => Has(W, type) \/ Waits
               /\ Has(W, type) \/ Waits => Has(W2, type) \/ Waits \/ \E f \in Frames : Reading(e, f)
               /\ \A f \in Frames : Reading(e, f) /\ (Has(W, type) \/ Waits) => f.type = type
               /\ \A f \in Frames : Reading(e, f) /\ f.type = type => ~(Has(W2, type) \/ Waits)
  BY <1>1, <1>2 DEF IsFirst, Comes, Has, OnlyFirst
<1>4. ASSUME NEW f \in Frames, Reading(e, f)
      PROVE  W # <<>> /\ f = Head(W) /\ W2 = Tail(W)
  BY <1>4, ReadingTakes DEF Takes
<1>5. wire'[p] = wire[p] \/ \E f \in Frames : Reading(e, f)
  BY WireOfPeer
<1>6. ~Has(<<>>, type)
  BY EmptyHasNone
<1> HIDE DEF p, W, W2, Waits
<1>7. ASSUME W # <<>>
      PROVE  /\ Has(W, type) <=> Head(W).type = type \/ Has(Tail(W), type)
             /\ OnlyFirst(Tail(W), type) /\ ~Has(Tail(W), type)
  BY <1>0, <1>1, <1>7, HasTail
<1>8. CASE \E f \in Frames : Reading(e, f)
  BY <1>1, <1>4, <1>7, <1>8
<1>9. CASE ~\E f \in Frames : Reading(e, f)
  <2>1. W2 = W
    BY <1>5, <1>9 DEF W, W2
  <2> QED
    BY <1>1, <1>9, <2>1
<1> QED
  BY <1>8, <1>9

\* When a slave opens, when it ends normally, and when something reaches it.
LEMMA SlaveChanges ==
    ASSUME Inv, NEW e \in Ends, StepOf(e)
    PROVE  /\ Open(slave'[e]) => Open(slave[e]) \/ Makes(e) \/ \E f \in Frames : TakesMake(e, f)
           /\ slave'[e].is = "normal" => slave[e].is = "normal" \/ \E f \in Frames : Reading(e, f)
           /\ (Open(slave'[e]) /\ Open(slave[e]) /\ slave[e].recvQ = <<>> /\ slave[e].pending = 0)
                => \/ slave'[e].recvQ = <<>> /\ slave'[e].pending = 0
                   \/ \E f \in Frames : Reading(e, f)
           /\ Breaks(e) => ~Open(slave'[e])
<1> DEFINE Good ==
      /\ Open(slave'[e]) => Open(slave[e]) \/ Makes(e)
      /\ slave'[e].is = "normal" => slave[e].is = "normal"
      /\ (Open(slave'[e]) /\ Open(slave[e]) /\ slave[e].recvQ = <<>> /\ slave[e].pending = 0)
            => slave'[e].recvQ = <<>> /\ slave'[e].pending = 0
<1>0. slave[e] \in SlaveType
  BY QueueTypes
<1>1. ASSUME Quiet(e) PROVE Good
  BY <1>0, <1>1 DEF Quiet, Core, Open
<1>2. ASSUME Bars(e) PROVE Good
  BY <1>2 DEF Bars, Open
<1>3. ASSUME NEW w \in Writers, Refunds(e, w) \/ Uses(e, w) \/ Puts(e, w)
      PROVE  Good
  <2>1. CASE Refunds(e, w)
    <3>1. PICK n \in Nat : Core(slave'[e]) = Core([slave[e] EXCEPT !.credit = @ + n])
      BY <2>1 DEF Refunds
    <3>2. /\ slave'[e].recvQ = slave[e].recvQ /\ slave'[e].pending = slave[e].pending
          /\ slave'[e].is = slave[e].is
      BY <1>0, <3>1 DEF Core, SlaveType
    <3> QED
      BY <3>2 DEF Open
  <2>2. CASE Uses(e, w)
    BY <2>2 DEF Uses, Open
  <2>3. CASE Puts(e, w)
    BY <2>3 DEF Puts, Open
  <2> QED
    BY <1>3, <2>1, <2>2, <2>3
<1>4. ASSUME AbortsSlave(e) PROVE Good
  BY <1>4 DEF AbortsSlave, Finishes, Open
<1>5. ASSUME Resizes(e) PROVE Good
  BY <1>5 DEF Resizes, Open
<1>6. ASSUME Makes(e) PROVE Good
  BY <1>6 DEF Makes, Core, Open
<1>7. ASSUME NEW f, Gets(e, f) PROVE Good
  BY <1>7 DEF Gets, Open
<1>8. ASSUME Breaks(e) PROVE Good
  <2>1. CASE Open(slave[e])
    BY <1>8, <2>1 DEF Breaks, Finishes, Open
  <2>2. CASE ~Open(slave[e])
    BY <1>8, <2>2 DEF Breaks, Open
  <2> QED
    BY <2>1, <2>2
<1>9. Breaks(e) => ~Open(slave'[e])
  <2>1. CASE Open(slave[e])
    BY <2>1 DEF Breaks, Finishes, Open
  <2>2. CASE ~Open(slave[e])
    BY <2>2 DEF Breaks, Open
  <2> QED
    BY <2>1, <2>2
<1>10. ASSUME NEW h, NEW q, NEW x, NEW y, Fills(e, h, q, x, y) PROVE Good
  <2>1. CASE Has(x, "BARRIER")
    BY <1>10, <2>1 DEF Fills, Open
  <2>2. CASE ~Has(x, "BARRIER")
    BY <1>10, <2>2 DEF Fills, Open
  <2> QED
    BY <2>1, <2>2
<1>11. ASSUME NEW f, NEW g, Writes(e, f, g) PROVE Good
  BY <1>11 DEF Writes, Open
<1>12. ASSUME NEW f \in Frames, Reading(e, f)
       PROVE  Open(slave'[e]) => Open(slave[e]) \/ \E g \in Frames : TakesMake(e, g)
  <2>1. CASE TakesData(e, f)
    BY <2>1 DEF TakesData
  <2>2. CASE TakesWindow(e, f)
    BY <2>2 DEF TakesWindow
  <2>3. CASE TakesReset(e, f)
    BY <2>3 DEF TakesReset
  <2>5. CASE TakesMade(e, f)
    BY <2>5 DEF TakesMade
  <2> QED
    BY <1>12, <2>1, <2>2, <2>3, <2>5 DEF Reading
<1>13. Good \/ \E f \in Frames : Reading(e, f)
  <2>1. CASE ApplicationStep(e)
    <3> HIDE DEF Good
    <3> QED
      BY <1>1, <1>2, <1>3, <1>4, <1>5, <1>6, <1>7, <2>1 DEF ApplicationStep
  <2>2. CASE MasterStep(e)
    <3> HIDE DEF Good
    <3> QED
      BY <1>8, <1>10, <1>11, <2>2 DEF MasterStep, Reading
  <2> QED
    BY <2>1, <2>2 DEF StepOf
<1>14. Open(slave'[e]) => Open(slave[e]) \/ Makes(e) \/ \E f \in Frames : TakesMake(e, f)
  BY <1>12, <1>13
<1> QED
  BY <1>9, <1>13, <1>14

\* The greetings stay in front, and nothing moves before them.
LEMMA GreetingsKept ==
    ASSUME Inv, NEW e \in Ends, StepOf(e), TypeOK'
    PROVE  GreetingsFirst' /\ NothingBeforeMade' /\ NothingBeforeMake'
<1> DEFINE p == Peer(e)
<1>0. /\ "a" \in Ends /\ "b" \in Ends /\ Peer("a") = "b" /\ Peer("b") = "a" /\ (e = "a" \/ e = "b")
      /\ Ends = {"a", "b"}
  BY DEF Ends, Peer
<1>1. Rests(p) /\ (slave'[e].is = "none" => Rests(e))
  BY DEF StepOf
<1>2. /\ IsFirst("a", "MAKE") /\ IsFirst("b", "MADE")
      /\ Comes("a", "MAKE") => slave["b"].is = "none"
      /\ slave["b"].is = "none" /\ Open(slave["a"]) => Comes("a", "MAKE")
  BY DEF Inv, GreetingsFirst
<1>3. Flows(e)
  BY StepFlows
<1>4. /\ e = "a" => slave'["b"] = slave["b"]
      /\ e = "b" => slave'["a"] = slave["a"]
      /\ slave'["b"].is = "none" => Rests("b") /\ slave["b"].is = "none"
      /\ slave'["a"].is = "none" => Rests("a") /\ slave["a"].is = "none"
  BY <1>0, <1>1 DEF Rests
<1>5. /\ slave["b"].is = "none" => wire["b"] = <<>> /\ ~Comes("b", "MADE")
      /\ slave["a"].is = "none" => slave["b"].is = "none"
  <2>1. slave["b"].is = "none" => cmd["b"] = <<>> /\ tx["b"] = Idle /\ wire["b"] = <<>>
    BY <1>0 DEF Inv, SilentBefore
  <2>2. ~Has(<<>>, "MADE") /\ Idle.todo = <<>>
    BY EmptyHasNone
  <2>3. slave["b"].is = "none" => ~Comes("b", "MADE")
    BY <2>1, <2>2 DEF Comes
  <2> QED
    BY <2>1, <2>3 DEF Inv, SilentBefore
<1>6. /\ e = "a" => /\ IsFirst("a", "MAKE")' /\ (Comes("a", "MAKE")' => Comes("a", "MAKE") \/ Fresh("a", "MAKE"))
                    /\ Comes("a", "MAKE") => Comes("a", "MAKE")' \/ Breaks("a")
      /\ e = "b" => /\ IsFirst("b", "MADE")' /\ (Comes("b", "MADE")' => Comes("b", "MADE") \/ Fresh("b", "MADE"))
  BY <1>0, <1>2, <1>3, FlowKept
<1>7. /\ e = "b" => /\ IsFirst("a", "MAKE")' /\ (Comes("a", "MAKE")' => Comes("a", "MAKE"))
                    /\ Comes("a", "MAKE") => Comes("a", "MAKE")' \/ \E f \in Frames : Reading("b", f)
                    /\ \A f \in Frames : Reading("b", f) /\ Comes("a", "MAKE") => f.type = "MAKE"
                    /\ \A f \in Frames : Reading("b", f) /\ f.type = "MAKE" => ~Comes("a", "MAKE")'
  BY <1>0, <1>2, TakenKept
<1>8. /\ e = "a" => /\ IsFirst("b", "MADE")' /\ (Comes("b", "MADE")' => Comes("b", "MADE"))
                    /\ \A f \in Frames : Reading("a", f) /\ Comes("b", "MADE") => f.type = "MADE"
                    /\ \A f \in Frames : Reading("a", f) /\ f.type = "MADE" => ~Comes("b", "MADE")'
  BY <1>0, <1>2, TakenKept
<1>9. ASSUME NEW f \in Frames, Reading("b", f), f.type = "MAKE" PROVE Open(slave'["b"])
  BY <1>9 DEF Reading, TakesData, TakesWindow, TakesReset, TakesMake, TakesMade, Core, Open
<1>10. /\ Open(slave'[e]) => Open(slave[e]) \/ Makes(e) \/ \E f \in Frames : TakesMake(e, f)
       /\ slave'[e].is = "normal" => slave[e].is = "normal" \/ \E f \in Frames : Reading(e, f)
       /\ (Open(slave'[e]) /\ Open(slave[e]) /\ slave[e].recvQ = <<>> /\ slave[e].pending = 0)
            => \/ slave'[e].recvQ = <<>> /\ slave'[e].pending = 0
               \/ \E f \in Frames : Reading(e, f)
       /\ Breaks(e) => ~Open(slave'[e])
  BY SlaveChanges
<1>11. GreetingsFirst'
  <2>1. IsFirst("a", "MAKE")' /\ IsFirst("b", "MADE")'
    BY <1>0, <1>6, <1>7, <1>8
  <2>2. Comes("a", "MAKE")' => slave'["b"].is = "none"
    <3>1. CASE e = "a"
      <4>1. Fresh("a", "MAKE") => slave["a"].is = "none"
        BY DEF Fresh, Makes
      <4> QED
        BY <1>2, <1>4, <1>5, <1>6, <3>1, <4>1
    <3>2. CASE e = "b"
      <4> SUFFICES ASSUME Comes("a", "MAKE")', slave'["b"].is # "none" PROVE FALSE
        OBVIOUS
      <4>1. Comes("a", "MAKE") /\ slave["b"].is = "none"
        BY <1>2, <1>7, <3>2
      <4>2. PICK f \in Frames : TakesMake("b", f)
        <5>1. slave[e].is = "none" => \/ slave'[e].is = "none" \/ e = "a"
                                      \/ e = "b" /\ \E f \in Frames : TakesMake(e, f)
          BY StepSummary
        <5> QED
          BY <3>2, <4>1, <5>1
      <4> QED
        BY <1>7, <3>2, <4>2 DEF TakesMake, Reading
    <3> QED
      BY <1>0, <3>1, <3>2
  <2>3. ASSUME slave'["b"].is = "none", Open(slave'["a"]) PROVE Comes("a", "MAKE")'
    <3>1. slave["b"].is = "none"
      BY <1>4, <2>3
    <3>2. CASE e = "a"
      <4>1. CASE Makes("a")
        <5>1. cmd'["a"] = Append(cmd["a"], Command("MAKE", RecvCap)) /\ cmd["a"] \in Seq(Frames)
          BY <1>0, <4>1, QueueTypes DEF Makes
        <5>2. Command("MAKE", RecvCap) \in Frames /\ Command("MAKE", RecvCap).type = "MAKE"
          BY FrameTypes, MultiStreamAssumption DEF Command, Frame
        <5>3. Has(cmd'["a"], "MAKE")
          BY <5>1, <5>2, HasAppend
        <5> QED
          BY <5>3 DEF Comes, Has
      <4>2. CASE ~Makes("a")
        <5>1. Open(slave["a"])
          BY <1>0, <1>10, <2>3, <3>2, <4>2 DEF TakesMake
        <5> QED
          BY <1>2, <1>6, <1>10, <2>3, <3>1, <3>2, <5>1
      <4> QED
        BY <4>1, <4>2
    <3>3. CASE e = "b"
      <4>1. Comes("a", "MAKE")
        BY <1>2, <1>4, <2>3, <3>1, <3>3
      <4> QED
        BY <1>7, <1>9, <2>3, <3>3, <4>1 DEF Open
    <3> QED
      BY <1>0, <3>2, <3>3
  <2> QED
    BY <2>1, <2>2, <2>3 DEF GreetingsFirst
<1>12. NothingBeforeMade'
  <2>1. SUFFICES ASSUME slave'["b"].is = "none" \/ Comes("b", "MADE")'
                 PROVE  Mute("a")' /\ Deaf("b")'
    BY DEF NothingBeforeMade, Mute, Deaf, Has
  <2>2. slave["b"].is = "none" \/ Comes("b", "MADE")
    BY <1>0, <1>4, <1>6, <1>8, <2>1 DEF Fresh, TakesMake
  <2>3. Mute("a") /\ Deaf("b")
    BY <2>2 DEF Inv, NothingBeforeMade, Mute, Deaf
  <2>4. CASE e = "a"
    <3>1. ~Granted("a")
      <4> SUFFICES ASSUME NEW f \in Frames, TakesWindow("a", f) \/ TakesMake("a", f) \/ TakesMade("a", f)
                   PROVE  FALSE
        BY DEF Granted
      <4>1. Reading("a", f)
        BY DEF Reading
      <4>2. wire["b"] # <<>>
        BY <1>0, <4>1, ReadingTakes DEF Takes
      <4>3. slave["b"].is # "none" /\ slave'["b"].is # "none" /\ Comes("b", "MADE")
        BY <1>4, <1>5, <2>2, <2>4, <4>2
      <4>4. f.type = "MADE"
        BY <1>8, <2>4, <4>1, <4>3
      <4> QED
        BY <1>8, <2>1, <2>4, <4>1, <4>3, <4>4
    <3>2. Mute("a")'
      BY <2>3, <2>4, <3>1, MuteKept
    <3>3. Deaf("b")'
      BY <1>0, <1>1, <2>3, <2>4 DEF Rests, Deaf, Has
    <3> QED
      BY <3>2, <3>3
  <2>5. CASE e = "b"
    <3>1. ~Has(wire["a"], "DATA")
      BY <2>3 DEF Mute
    <3>2. Deaf("b")' /\ ~Has(wire'["a"], "DATA")
      BY <1>0, <2>3, <2>5, <3>1, DeafKept
    <3>3. Mute("a")'
      BY <1>0, <1>1, <2>3, <2>5, <3>2 DEF Rests, Mute, Has
    <3> QED
      BY <3>2, <3>3
  <2> QED
    BY <1>0, <2>4, <2>5
<1>13. NothingBeforeMake'
  <2>1. SUFFICES ASSUME slave'["b"].is = "none"
                 PROVE  /\ Deaf("a")' /\ slave'["a"].is # "normal"
                        /\ Open(slave'["a"]) => slave'["a"].recvQ = <<>> /\ slave'["a"].pending = 0
    BY DEF NothingBeforeMake, Deaf, Has
  <2>2. slave["b"].is = "none" /\ wire["b"] = <<>>
    BY <1>4, <1>5, <2>1
  <2>3. /\ Deaf("a") /\ slave["a"].is # "normal"
        /\ Open(slave["a"]) => slave["a"].recvQ = <<>> /\ slave["a"].pending = 0
    BY <2>2 DEF Inv, NothingBeforeMake, Deaf
  <2>4. CASE e = "a"
    <3>1. ~\E f \in Frames : Reading("a", f)
      BY <1>0, <2>2, ReadingTakes DEF Takes
    <3>2. Deaf("a")'
      <4>1. ~Has(wire["b"], "DATA")
        BY <2>2, EmptyHasNone
      <4> QED
        BY <1>0, <2>3, <2>4, <4>1, DeafKept
    <3>3. slave'["a"].is # "normal"
      BY <1>10, <2>3, <2>4, <3>1
    <3>4. ASSUME Open(slave'["a"]) PROVE slave'["a"].recvQ = <<>> /\ slave'["a"].pending = 0
      <4>1. CASE Makes("a")
        BY <4>1 DEF Makes, Core
      <4>2. CASE ~Makes("a")
        <5>1. Open(slave["a"])
          BY <1>0, <1>10, <2>4, <3>4, <4>2 DEF TakesMake
        <5> QED
          BY <1>10, <2>3, <2>4, <3>1, <3>4, <5>1
      <4> QED
        BY <4>1, <4>2
    <3> QED
      BY <3>2, <3>3, <3>4
  <2>5. CASE e = "b"
    BY <1>0, <1>1, <2>3, <2>5 DEF Rests, Deaf, Has
  <2> QED
    BY <1>0, <2>4, <2>5
<1> QED
  BY <1>11, <1>12, <1>13

LEMMA InvInit == Init => Inv
<1> SUFFICES ASSUME Init PROVE Inv
  OBVIOUS
<1>1. /\ <<>> \in Seq(Frames) /\ <<>> \in Seq(Names)
      /\ \A e \in Ends : <<>> \in Seq(Commands(e)) /\ <<>> \in Seq(Packed(e) \cup {Barrier})
            /\ <<>> \in Seq(Commands(e) \cup Packed(e) \cup {Barrier}) /\ <<>> \in Seq(Packed(e) \cup {Pill})
            /\ <<>> \in Seq(Commands(e) \cup Packed(e) \cup {RESET(0)})
  BY EmptySeq
<1>2. \A e \in Ends : /\ slave[e] = NoSlave /\ cmd[e] = <<>> /\ tx[e] = Idle /\ wire[e] = <<>>
                      /\ queued[e] = <<>> /\ got[e] = <<>> /\ closer[e].at = "idle"
  BY DEF Init
<1>3. \A w \in Writers : writer[w].at = "idle" /\ writer[w].done = "unset"
  BY DEF Init
<1>4. /\ NoSlave.is = "none" /\ NoSlave.sendQ = <<>> /\ NoSlave.recvQ = <<>> /\ NoSlave.credit = 0
      /\ Idle.todo = <<>> /\ Idle.all = <<>>
  BY DEF NoSlave, Idle
<1>5. "a" \in Ends /\ "b" \in Ends /\ \A e \in Ends : Peer(e) \in Ends
  BY DEF Ends, Peer
<1>6. TypeOK
  <2>1. slave \in [Ends -> SlaveType]
    BY NoSlaveType DEF Init
  <2>2. tx \in [Ends -> [todo : Seq(Frames), all : Seq(Frames)]]
    BY <1>1 DEF Init, Idle
  <2>3. writer \in [Writers -> WriterType]
    BY DEF Init, WriterType
  <2>4. /\ cmd \in [Ends -> Seq(Frames)] /\ wire \in [Ends -> Seq(Frames)]
        /\ got \in [Ends -> Seq({0} \cup (Writers \X Nat))] /\ queued \in [Ends -> Seq({0} \cup (Writers \X Nat))]
    BY <1>1 DEF Init, Names
  <2>5. /\ down \in [Ends -> BOOLEAN] /\ reader \in [Readers -> {"idle", "get"}]
        /\ closer \in [Ends -> [at : {"idle", "put", "wait", "back"}, done : BOOLEAN]]
    BY DEF Init
  <2> QED
    BY <2>1, <2>2, <2>3, <2>4, <2>5 DEF TypeOK
<1>7. FramesTell
  <2> SUFFICES ASSUME NEW e \in Ends
      PROVE  /\ cmd[e] \in Seq(Commands(e))
             /\ slave[e].sendQ \in Seq(Packed(e) \cup {Barrier})
             /\ tx[e].todo \in Seq(Commands(e) \cup Packed(e) \cup {Barrier})
             /\ tx[e].all \in Seq(Commands(e) \cup Packed(e) \cup {Barrier})
             /\ wire[e] \in Seq(Commands(e) \cup Packed(e) \cup {RESET(0)})
             /\ slave[Peer(e)].recvQ \in Seq(Packed(e) \cup {Pill})
    BY DEF FramesTell
  <2> QED
    BY <1>1, <1>2, <1>4, <1>5
<1>8. WritersTell
  BY <1>3 DEF WritersTell
<1>9. SilentBefore
  BY <1>2, <1>3, <1>4, <1>5 DEF SilentBefore
<1>10. \A type : ~Has(<<>>, type) /\ OnlyFirst(<<>>, type)
  BY DEF Has, OnlyFirst
<1>11. GreetingsFirst
  BY <1>2, <1>4, <1>5, <1>10 DEF GreetingsFirst, IsFirst, Comes, Open
<1>12. NothingBeforeMade
  BY <1>2, <1>3, <1>4, <1>5, <1>10 DEF NothingBeforeMade
<1>13. NothingBeforeMake
  BY <1>2, <1>4, <1>5, <1>10 DEF NothingBeforeMake, Open
<1> QED
  BY <1>6, <1>7, <1>8, <1>9, <1>11, <1>12, <1>13 DEF Inv

LEMMA InvNext ==
    ASSUME Inv, Next
    PROVE  Inv' /\ \E e \in Ends : StepOf(e)
<1>1. TypeOK' /\ WritersTell' /\ \E e \in Ends : StepOf(e)
  BY EveryStep
<1>2. PICK e \in Ends : StepOf(e)
  BY <1>1
<1>3. FramesTell'
  BY <1>1, <1>2, FramesKept
<1>4. SilentBefore'
  BY <1>2, SilenceKept
<1>5. GreetingsFirst' /\ NothingBeforeMade' /\ NothingBeforeMake'
  BY <1>1, <1>2, GreetingsKept
<1> QED
  BY <1>1, <1>3, <1>4, <1>5 DEF Inv

--------------------------------------------------------------------------------
(* Credit: no step makes it up or loses it. *)

LEMMA SumsAre ==
    ASSUME NEW q \in Seq(Frames)
    PROVE  Data(q) \in Nat /\ Size(q) \in Nat /\ Grants(q) \in Nat
  BY BytesConcat DEF Data, Size, Grants

LEMMA SumsOfNone == Data(<<>>) = 0 /\ Size(<<>>) = 0 /\ Grants(<<>>) = 0
<1>1. Pill \in Frames
  BY FrameTypes
<1> QED
  BY <1>1, BytesOfFew DEF Data, Size, Grants

\* What one frame adds to the sums.
DataOf(f) == Value(f, {"DATA"})
SizeOf(f) == Value(f, {"DATA", "BARRIER"})
GrantOf(f) == Value(f, {"MAKE", "MADE", "WINDOW"})

LEMMA SumsAppend ==
    ASSUME NEW q \in Seq(Frames), NEW f \in Frames
    PROVE  /\ Data(Append(q, f)) = Data(q) + DataOf(f) /\ Size(Append(q, f)) = Size(q) + SizeOf(f)
           /\ Grants(Append(q, f)) = Grants(q) + GrantOf(f)
           /\ DataOf(f) \in Nat /\ SizeOf(f) \in Nat /\ GrantOf(f) \in Nat
  BY BytesAppend DEF Data, Size, Grants, DataOf, SizeOf, GrantOf

LEMMA SumsTail ==
    ASSUME NEW q \in Seq(Frames), q # <<>>
    PROVE  /\ Data(q) = DataOf(Head(q)) + Data(Tail(q)) /\ Size(q) = SizeOf(Head(q)) + Size(Tail(q))
           /\ Grants(q) = GrantOf(Head(q)) + Grants(Tail(q))
           /\ DataOf(Head(q)) \in Nat /\ SizeOf(Head(q)) \in Nat /\ GrantOf(Head(q)) \in Nat
           /\ Data(Tail(q)) \in Nat /\ Size(Tail(q)) \in Nat /\ Grants(Tail(q)) \in Nat
  BY BytesTail DEF Data, Size, Grants, DataOf, SizeOf, GrantOf

LEMMA SumsConcat ==
    ASSUME NEW q \in Seq(Frames), NEW r \in Seq(Frames)
    PROVE  Data(q \o r) = Data(q) + Data(r) /\ Grants(q \o r) = Grants(q) + Grants(r)
  BY BytesConcat DEF Data, Grants

LEMMA SumsZero ==
    ASSUME NEW q \in Seq(Frames)
    PROVE  /\ ~Has(q, "DATA") => Data(q) = 0
           /\ ~Has(q, "MAKE") /\ ~Has(q, "MADE") /\ ~Has(q, "WINDOW") => Grants(q) = 0
  BY BytesZero DEF Data, Grants, Has

LEMMA ValuesOfFrames ==
    /\ \A f \in Frames : /\ f.arg \in Nat
                         /\ f.type = "DATA" => DataOf(f) = f.arg /\ SizeOf(f) = f.arg /\ GrantOf(f) = 0
                         /\ f.type \in {"MAKE", "MADE", "WINDOW"} => DataOf(f) = 0 /\ GrantOf(f) = f.arg
                         /\ f.type \in {"RESET", "PILL", "BARRIER"} => DataOf(f) = 0 /\ GrantOf(f) = 0
                         /\ f.type = "PILL" => SizeOf(f) = 0
    /\ Pill.type = "PILL" /\ Pill.arg = 0 /\ Barrier.type = "BARRIER"
    /\ \A n \in Nat : RESET(n) \in Frames /\ RESET(n).type = "RESET"
    /\ \A n \in Nat, t \in {"MAKE", "MADE", "WINDOW"} :
          Command(t, n) \in Frames /\ Command(t, n).type = t /\ Command(t, n).arg = n
<1>1. \A f \in Frames : f.arg \in Nat
  BY DEF Frames
<1>2. /\ Pill.type = "PILL" /\ Pill.arg = 0 /\ Barrier.type = "BARRIER"
      /\ \A n \in Nat : RESET(n) \in Frames /\ RESET(n).type = "RESET"
      /\ \A n \in Nat, t \in {"MAKE", "MADE", "WINDOW"} :
            Command(t, n) \in Frames /\ Command(t, n).type = t /\ Command(t, n).arg = n
  BY FrameTypes DEF Pill, Barrier, RESET, Command, Frame
<1>3. \A f \in Frames : /\ f.type = "DATA" => DataOf(f) = f.arg /\ SizeOf(f) = f.arg /\ GrantOf(f) = 0
                        /\ f.type \in {"MAKE", "MADE", "WINDOW"} => DataOf(f) = 0 /\ GrantOf(f) = f.arg
                        /\ f.type \in {"RESET", "PILL", "BARRIER"} => DataOf(f) = 0 /\ GrantOf(f) = 0
                        /\ f.type = "PILL" => SizeOf(f) = 0
  BY DEF DataOf, SizeOf, GrantOf, Value
<1> QED
  BY <1>1, <1>2, <1>3

\* One writer blocks in put(), or goes on.
LEMMA BytesOfChange ==
    ASSUME NEW f \in [Writers -> Nat], NEW g \in [Writers -> Nat], NEW w \in Writers,
           \A v \in Writers : v # w => g[v] = f[v], IsFiniteSet(BytesOf(f))
    PROVE  /\ IsFiniteSet(BytesOf(g))
           /\ Cardinality(BytesOf(f)) \in Nat /\ Cardinality(BytesOf(g)) \in Nat
           /\ Cardinality(BytesOf(g)) + f[w] = Cardinality(BytesOf(f)) + g[w]
<1> DEFINE R == UNION {{v} \X (1..f[v]) : v \in Writers \ {w}}
           Own(m) == {w} \X (1..m)
<1>1. BytesOf(f) = R \cup Own(f[w]) /\ BytesOf(g) = R \cup Own(g[w])
  BY DEF BytesOf
<1>2. \A m \in Nat : R \cap Own(m) = {}
  OBVIOUS
<1>3. ASSUME NEW m \in Nat PROVE IsFiniteSet(Own(m)) /\ Cardinality(Own(m)) = m
  <2>1. IsFiniteSet(1..m) /\ Cardinality(1..m) = m
    <3>1. 1 \in Int /\ m \in Int
      OBVIOUS
    <3>2. IsFiniteSet(1..m) /\ Cardinality(1..m) = IF 1 > m THEN 0 ELSE m - 1 + 1
      BY <3>1, FS_Interval, Zenon
    <3> QED
      BY <3>2
  <2> DEFINE S == {w}
             T == 1..m
  <2>2. IsFiniteSet(S) /\ IsFiniteSet(T) /\ Cardinality(S) = 1 /\ Cardinality(T) = m
    BY <2>1, FS_Singleton
  <2>3. Own(m) = S \X T
    OBVIOUS
  <2> HIDE DEF S, T, Own
  <2>4. IsFiniteSet(S \X T) /\ Cardinality(S \X T) = Cardinality(S) * Cardinality(T)
    BY <2>2, FS_Product
  <2> QED
    BY <2>2, <2>3, <2>4
<1> HIDE DEF R, Own
<1>4. IsFiniteSet(R) /\ Cardinality(R) \in Nat
  BY <1>1, FS_Subset, FS_CardinalityType
<1>5. ASSUME NEW m \in Nat
      PROVE  IsFiniteSet(R \cup Own(m)) /\ Cardinality(R \cup Own(m)) = Cardinality(R) + m
  <2>1. /\ IsFiniteSet(R \cup Own(m))
        /\ Cardinality(R \cup Own(m)) = Cardinality(R) + Cardinality(Own(m)) - Cardinality(R \cap Own(m))
    BY <1>3, <1>4, FS_Union
  <2>2. Cardinality(R \cap Own(m)) = 0
    BY <1>2, FS_EmptySet
  <2> QED
    BY <1>3, <1>4, <2>1, <2>2
<1>6. f[w] \in Nat /\ g[w] \in Nat
  OBVIOUS
<1>7. Cardinality(BytesOf(f)) = Cardinality(R) + f[w]
  BY <1>1, <1>5, <1>6
<1>8. IsFiniteSet(BytesOf(g)) /\ Cardinality(BytesOf(g)) = Cardinality(R) + g[w]
  BY <1>1, <1>5, <1>6
<1> QED
  BY <1>4, <1>6, <1>7, <1>8

LEMMA BlockedIs ==
    ASSUME TypeOK, TypeOK', NEW e \in Ends
    PROVE  /\ Blocked(e) \in [Writers -> Nat] /\ Blocked(e)' \in [Writers -> Nat]
           /\ \A w \in Writers :
                 /\ Blocked(e)[w] = IF EndOf[w] = e /\ writer[w].at = "put" THEN writer[w].size ELSE 0
                 /\ (Blocked(e)')[w] = IF EndOf[w] = e /\ writer'[w].at = "put" THEN writer'[w].size ELSE 0
<1>1. ASSUME NEW w \in Writers PROVE writer[w].size \in Nat /\ writer'[w].size \in Nat
  <2>1. writer[w] \in WriterType /\ writer'[w] \in WriterType
    BY DEF TypeOK
  <2> QED
    BY <2>1 DEF WriterType
<1> QED
  BY <1>1 DEF Blocked

\* The writers blocked in put() of an end whose writers stay where they are.
LEMMA BlockedKept ==
    ASSUME TypeOK, TypeOK', NEW e \in Ends, KeepsWriters(e) \/ Quiet(e) \/ Rests(e) \/ writer' = writer
    PROVE  Blocked(e)' = Blocked(e)
<1>1. ASSUME NEW w \in Writers, EndOf[w] = e
      PROVE  \/ writer'[w].at = writer[w].at /\ writer'[w].size = writer[w].size
             \/ writer'[w].at # "put" /\ writer[w].at # "put"
  BY <1>1 DEF KeepsWriters, Quiet, Rests
<1>2. \A w \in Writers : (Blocked(e)')[w] = Blocked(e)[w]
  BY <1>1, BlockedIs
<1> QED
  BY <1>2, BlockedIs

\* A step of e conserves both, with what the other end has sent.
Balanced(e) ==
    /\ IsFiniteSet(BytesOf(Blocked(e)'))
    /\ Out(e)' + Data(wire'[e]) + Grants(wire'[Peer(e)]) = Out(e) + Data(wire[e]) + Grants(wire[Peer(e)])
    /\ In(e)' + Grants(wire'[e]) + Data(wire'[Peer(e)]) + slave[e].cap
          = In(e) + Grants(wire[e]) + Data(wire[Peer(e)]) + slave'[e].cap

LEMMA OutInTypes ==
    ASSUME Inv, NEW e \in Ends, IsFiniteSet(BytesOf(Blocked(e)))
    PROVE  /\ Out(e) \in Nat /\ In(e) \in Nat /\ Claimed(e) \in Nat
           /\ Data(slave[e].sendQ) \in Nat /\ Data(tx[e].todo) \in Nat /\ Data(wire[e]) \in Nat
           /\ Size(slave[e].recvQ) \in Nat /\ Grants(cmd[e]) \in Nat /\ Grants(tx[e].todo) \in Nat
           /\ Grants(wire[e]) \in Nat
           /\ slave[e].credit \in Nat /\ slave[e].pending \in Nat /\ slave[e].cap \in Nat
<1>1. Claimed(e) \in Nat
  BY FS_CardinalityType DEF Claimed
<1>2. /\ Data(slave[e].sendQ) \in Nat /\ Data(tx[e].todo) \in Nat /\ Data(wire[e]) \in Nat
      /\ Size(slave[e].recvQ) \in Nat /\ Grants(cmd[e]) \in Nat /\ Grants(tx[e].todo) \in Nat
      /\ Grants(wire[e]) \in Nat
  BY QueueTypes, SumsAre
<1>3. slave[e].credit \in Nat /\ slave[e].pending \in Nat /\ slave[e].cap \in Nat
  BY QueueTypes
<1> QED
  BY <1>1, <1>2, <1>3 DEF Out, In

\* A step of the application.
LEMMA BalancedApplication ==
    ASSUME Inv, TypeOK', NEW e \in Ends, ApplicationStep(e), Open(slave[e]), Open(slave'[e]),
           slave'[e].cap >= slave[e].cap, IsFiniteSet(BytesOf(Blocked(e)))
    PROVE  Balanced(e)
<1> DEFINE p == Peer(e)
<1>0. /\ slave[e].sendQ \in Seq(Frames) /\ slave[e].recvQ \in Seq(Frames)
      /\ cmd[e] \in Seq(Frames) /\ tx[e].todo \in Seq(Frames) /\ wire[e] \in Seq(Frames) /\ wire[p] \in Seq(Frames)
      /\ slave[e] \in SlaveType
  BY QueueTypes, EndFacts
<1>1. /\ Claimed(e) \in Nat /\ Data(slave[e].sendQ) \in Nat /\ Data(tx[e].todo) \in Nat /\ Data(wire[e]) \in Nat
      /\ Size(slave[e].recvQ) \in Nat /\ Grants(cmd[e]) \in Nat /\ Grants(tx[e].todo) \in Nat
      /\ Grants(wire[e]) \in Nat /\ Data(wire[p]) \in Nat /\ Grants(wire[p]) \in Nat
      /\ slave[e].credit \in Nat /\ slave[e].pending \in Nat /\ slave[e].cap \in Nat /\ slave'[e].cap \in Nat
  <2>1. slave'[e] \in SlaveType
    BY DEF TypeOK
  <2> QED
    BY <1>0, <2>1, SumsAre, OutInTypes DEF SlaveType
<1>2. /\ slave[e].is = "open" /\ slave'[e].is = "open"
  BY DEF Open
<1>3. /\ Out(e)' = slave'[e].credit + Cardinality(BytesOf(Blocked(e)')) + Data(slave'[e].sendQ) + Data(tx'[e].todo)
      /\ In(e)' = Size(slave'[e].recvQ) + slave'[e].pending + Grants(cmd'[e]) + Grants(tx'[e].todo)
      /\ Out(e) = slave[e].credit + Claimed(e) + Data(slave[e].sendQ) + Data(tx[e].todo)
      /\ In(e) = Size(slave[e].recvQ) + slave[e].pending + Grants(cmd[e]) + Grants(tx[e].todo)
      /\ Claimed(e) = Cardinality(BytesOf(Blocked(e)))
  BY DEF Out, In, Claimed, Data, Size, Grants, Bytes, BytesOf
<1>4. ASSUME Blocked(e)' = Blocked(e) \/ (Cardinality(BytesOf(Blocked(e)')) \in Nat /\ IsFiniteSet(BytesOf(Blocked(e)'))),
             tx'[e] = tx[e], wire' = wire,
             slave'[e].credit + Cardinality(BytesOf(Blocked(e)')) + Data(slave'[e].sendQ)
                = slave[e].credit + Claimed(e) + Data(slave[e].sendQ),
             Size(slave'[e].recvQ) + slave'[e].pending + Grants(cmd'[e]) + slave[e].cap
                = Size(slave[e].recvQ) + slave[e].pending + Grants(cmd[e]) + slave'[e].cap,
             slave'[e].credit \in Nat, Data(slave'[e].sendQ) \in Nat,
             Size(slave'[e].recvQ) \in Nat, slave'[e].pending \in Nat, Grants(cmd'[e]) \in Nat
      PROVE  Balanced(e)
  <2>1. IsFiniteSet(BytesOf(Blocked(e)')) /\ Cardinality(BytesOf(Blocked(e)')) \in Nat
    BY <1>1, <1>3, <1>4
  <2> HIDE DEF p
  <2>2. Out(e)' + Data(wire'[e]) + Grants(wire'[Peer(e)]) = Out(e) + Data(wire[e]) + Grants(wire[Peer(e)])
    BY <1>1, <1>3, <1>4, <2>1 DEF p
  <2>3. In(e)' + Grants(wire'[e]) + Data(wire'[Peer(e)]) + slave[e].cap
          = In(e) + Grants(wire[e]) + Data(wire[Peer(e)]) + slave'[e].cap
    BY <1>1, <1>3, <1>4 DEF p
  <2> QED
    BY <2>1, <2>2, <2>3 DEF Balanced
<1> HIDE DEF p
<1>5. slave'[e].credit \in Nat /\ slave'[e].pending \in Nat
  <2>1. slave'[e] \in SlaveType
    BY DEF TypeOK
  <2> QED
    BY <2>1 DEF SlaveType
<1>6. /\ TypeOK /\ Claimed(e) = Cardinality(BytesOf(Blocked(e)))
  BY DEF Inv, Claimed
<1>7. CASE Quiet(e)
  <2>1. Blocked(e)' = Blocked(e)
    BY <1>6, <1>7, BlockedKept
  <2>2. /\ tx'[e] = tx[e] /\ wire' = wire /\ cmd'[e] = cmd[e] /\ slave'[e].credit = slave[e].credit
        /\ slave'[e].sendQ = slave[e].sendQ /\ slave'[e].recvQ = slave[e].recvQ
        /\ slave'[e].pending = slave[e].pending /\ slave'[e].cap = slave[e].cap
    BY <1>7 DEF Quiet, Holds, Core
  <2> QED
    BY <1>1, <1>4, <1>6, <2>1, <2>2
<1>8. CASE Bars(e)
  <2>1. Blocked(e)' = Blocked(e)
    BY <1>6, <1>8, BlockedKept DEF Bars
  <2>2. /\ tx'[e] = tx[e] /\ wire' = wire /\ cmd'[e] = cmd[e] /\ slave'[e].credit = slave[e].credit
        /\ slave'[e].sendQ = Append(slave[e].sendQ, Barrier) /\ slave'[e].recvQ = slave[e].recvQ
        /\ slave'[e].pending = slave[e].pending /\ slave'[e].cap = slave[e].cap
    BY <1>8 DEF Bars, Holds, Queues
  <2>3. Data(Append(slave[e].sendQ, Barrier)) = Data(slave[e].sendQ)
    <3>1. Barrier \in Frames /\ DataOf(Barrier) = 0
      BY FrameTypes, ValuesOfFrames
    <3>2. Data(Append(slave[e].sendQ, Barrier)) = Data(slave[e].sendQ) + DataOf(Barrier)
      BY <1>0, <3>1, SumsAppend
    <3> QED
      BY <1>1, <3>1, <3>2
  <2> QED
    BY <1>1, <1>4, <1>6, <2>1, <2>2, <2>3
<1>9. CASE Resizes(e)
  <2>1. Blocked(e)' = Blocked(e)
    BY <1>6, <1>9, BlockedKept DEF Resizes
  <2>2. /\ tx'[e] = tx[e] /\ wire' = wire /\ slave'[e].credit = slave[e].credit
        /\ slave'[e].sendQ = slave[e].sendQ /\ slave'[e].recvQ = slave[e].recvQ
        /\ slave'[e].pending = slave[e].pending
    BY <1>9 DEF Resizes
  <2>3. Grants(cmd'[e]) + slave[e].cap = Grants(cmd[e]) + slave'[e].cap /\ Grants(cmd'[e]) \in Nat
    <3>1. CASE slave'[e].cap > slave[e].cap
      <4>1. cmd'[e] = Append(cmd[e], Command("WINDOW", slave'[e].cap - slave[e].cap))
        BY <1>9, <3>1 DEF Resizes
      <4> DEFINE n == slave'[e].cap - slave[e].cap
      <4>2. n \in Nat
        BY <1>1, <3>1
      <4>3. Command("WINDOW", n) \in Frames /\ GrantOf(Command("WINDOW", n)) = n
        <5> HIDE DEF n
        <5> QED
          BY <4>2, ValuesOfFrames
      <4>4. Grants(cmd'[e]) = Grants(cmd[e]) + n
        <5> HIDE DEF n
        <5>1. Grants(Append(cmd[e], Command("WINDOW", n))) = Grants(cmd[e]) + GrantOf(Command("WINDOW", n))
          BY <1>0, <4>3, SumsAppend
        <5> QED
          BY <4>1, <4>3, <5>1 DEF n
      <4> QED
        BY <1>1, <4>2, <4>4
    <3>2. CASE slave'[e].cap = slave[e].cap
      <4>1. ~(slave'[e].cap > slave[e].cap)
        BY <1>1, <3>2
      <4> QED
        BY <1>1, <1>9, <3>2, <4>1 DEF Resizes
    <3> QED
      BY <1>1, <3>1, <3>2
  <2> QED
    BY <1>1, <1>4, <1>6, <2>1, <2>2, <2>3
<1>10. ASSUME NEW f \in Packed(Peer(e)) \cup {Pill}, Gets(e, f) PROVE Balanced(e)
  <2>1. Blocked(e)' = Blocked(e)
    BY <1>6, <1>10, BlockedKept DEF Gets
  <2>2. /\ tx'[e] = tx[e] /\ wire' = wire /\ slave'[e].credit = slave[e].credit
        /\ slave'[e].sendQ = slave[e].sendQ /\ slave'[e].recvQ = Tail(slave[e].recvQ)
        /\ slave'[e].cap = slave[e].cap /\ slave[e].recvQ # <<>> /\ f = Head(slave[e].recvQ)
    BY <1>10 DEF Gets
  <2>3. f \in Frames /\ f.arg \in Nat /\ SizeOf(f) = f.arg
    <3>1. f \in Frames /\ f.arg \in Nat
      BY FrameTypes DEF Packed, Frames
    <3>2. CASE f.type = "DATA"
      BY <3>1, <3>2, ValuesOfFrames
    <3>3. CASE f = Pill
      BY <3>1, <3>3, ValuesOfFrames
    <3> QED
      BY <3>1, <3>2, <3>3 DEF Packed
  <2>4. Size(slave[e].recvQ) = f.arg + Size(slave'[e].recvQ) /\ Size(slave'[e].recvQ) \in Nat
    BY <1>0, <2>2, <2>3, SumsTail
  <2>5. slave'[e].pending + Grants(cmd'[e]) = slave[e].pending + f.arg + Grants(cmd[e]) /\ Grants(cmd'[e]) \in Nat
    <3> DEFINE n == slave[e].pending + f.arg
    <3>1. n \in Nat
      BY <1>1, <2>3
    <3>2. \/ slave'[e].pending = 0 /\ cmd'[e] = Append(cmd[e], Command("WINDOW", n))
          \/ slave'[e].pending = n /\ cmd'[e] = cmd[e]
      BY <1>10 DEF Gets
    <3> HIDE DEF n
    <3>3. Command("WINDOW", n) \in Frames /\ GrantOf(Command("WINDOW", n)) = n
      BY <3>1, ValuesOfFrames
    <3>4. Grants(Append(cmd[e], Command("WINDOW", n))) = Grants(cmd[e]) + n
      BY <1>0, <3>3, SumsAppend
    <3>5. slave'[e].pending + Grants(cmd'[e]) = n + Grants(cmd[e]) /\ Grants(cmd'[e]) \in Nat
      <4>1. CASE slave'[e].pending = 0 /\ cmd'[e] = Append(cmd[e], Command("WINDOW", n))
        <5>1. Grants(cmd'[e]) = Grants(cmd[e]) + n
          BY <3>4, <4>1
        <5>2. slave'[e].pending = 0 /\ Grants(cmd[e]) \in Nat
          BY <1>1, <4>1
        <5> QED
          BY <3>1, <5>1, <5>2
      <4>2. CASE slave'[e].pending = n /\ cmd'[e] = cmd[e]
        BY <1>1, <3>1, <4>2
      <4> QED
        BY <3>2, <4>1, <4>2
    <3> QED
      BY <3>5 DEF n
  <2>6. slave'[e].credit + Cardinality(BytesOf(Blocked(e)')) + Data(slave'[e].sendQ)
          = slave[e].credit + Claimed(e) + Data(slave[e].sendQ)
    BY <1>6, <2>1, <2>2
  <2>7. Size(slave'[e].recvQ) + slave'[e].pending + Grants(cmd'[e]) + slave[e].cap
          = Size(slave[e].recvQ) + slave[e].pending + Grants(cmd[e]) + slave'[e].cap
    <3> DEFINE r == Size(slave'[e].recvQ)
               n == slave'[e].pending
               g == Grants(cmd'[e])
    <3>1. r \in Nat /\ n \in Nat /\ g \in Nat /\ slave'[e].cap = slave[e].cap
      BY <1>5, <2>2, <2>4, <2>5
    <3>2. Size(slave[e].recvQ) = f.arg + r /\ n + g = slave[e].pending + f.arg + Grants(cmd[e])
      BY <2>4, <2>5
    <3> HIDE DEF r, n, g
    <3>3. r + n + g + slave[e].cap = Size(slave[e].recvQ) + slave[e].pending + Grants(cmd[e]) + slave[e].cap
      BY <1>1, <2>3, <3>1, <3>2
    <3> QED
      BY <3>1, <3>3 DEF r, n, g
  <2>8. Data(slave'[e].sendQ) \in Nat
    BY <1>1, <2>2
  <2> QED
    BY <1>4, <1>5, <2>1, <2>2, <2>4, <2>5, <2>6, <2>7, <2>8
<1>11. ASSUME NEW w \in Writers, Uses(e, w) PROVE Balanced(e)
  <2>1. PICK size \in Nat \ {0} :
           /\ slave[e].credit >= size /\ slave'[e].credit = slave[e].credit - size
           /\ \/ /\ writer'[w].at # "put"
                 /\ \E f \in Packed(e) : f.arg = size /\ Queues(e, f)
              \/ /\ writer'[w].at = "put" /\ writer'[w].size = size
                 /\ slave'[e].sendQ = slave[e].sendQ /\ queued'[e] = queued[e]
    BY <1>11 DEF Uses
  <2>2. /\ tx'[e] = tx[e] /\ wire' = wire /\ cmd'[e] = cmd[e] /\ slave'[e].recvQ = slave[e].recvQ
        /\ slave'[e].pending = slave[e].pending /\ slave'[e].cap = slave[e].cap
        /\ EndOf[w] = e /\ writer[w].at \in {"idle", "credit"} /\ \A v \in Writers \ {w} : writer'[v] = writer[v]
    BY <1>11 DEF Uses, Holds
  <2>3. /\ IsFiniteSet(BytesOf(Blocked(e)')) /\ Cardinality(BytesOf(Blocked(e)')) \in Nat
        /\ Cardinality(BytesOf(Blocked(e)')) = Claimed(e) + IF writer'[w].at = "put" THEN size ELSE 0
    <3> DEFINE F == Blocked(e)
               H == Blocked(e)'
    <3>1. F \in [Writers -> Nat] /\ H \in [Writers -> Nat]
      BY <1>6, BlockedIs
    <3>2. \A v \in Writers : v # w => H[v] = F[v]
      BY <1>6, <2>2, BlockedIs
    <3>3. F[w] = 0 /\ H[w] = IF writer'[w].at = "put" THEN size ELSE 0
      BY <1>6, <2>1, <2>2, BlockedIs
    <3>4. IsFiniteSet(BytesOf(F)) /\ Claimed(e) = Cardinality(BytesOf(F))
      BY <1>6
    <3> HIDE DEF F, H
    <3>5. /\ IsFiniteSet(BytesOf(H)) /\ Cardinality(BytesOf(F)) \in Nat /\ Cardinality(BytesOf(H)) \in Nat
          /\ Cardinality(BytesOf(H)) + F[w] = Cardinality(BytesOf(F)) + H[w]
      BY <3>1, <3>2, <3>4, BytesOfChange
    <3>6. Cardinality(BytesOf(H)) = Claimed(e) + IF writer'[w].at = "put" THEN size ELSE 0
      BY <3>3, <3>4, <3>5
    <3> QED
      BY <3>5, <3>6 DEF H
  <2>4. /\ Data(slave'[e].sendQ) = Data(slave[e].sendQ) + IF writer'[w].at = "put" THEN 0 ELSE size
    <3>1. CASE writer'[w].at # "put"
      <4>1. PICK f \in Packed(e) : f.arg = size /\ Queues(e, f)
        BY <2>1, <3>1
      <4>2. f \in Frames /\ DataOf(f) = size
        BY <4>1, ValuesOfFrames DEF Packed
      <4>3. slave'[e].sendQ = Append(slave[e].sendQ, f)
        BY <4>1 DEF Queues
      <4> QED
        BY <1>0, <3>1, <4>2, <4>3, SumsAppend
    <3>2. CASE writer'[w].at = "put"
      BY <1>1, <2>1, <3>2
    <3> QED
      BY <3>1, <3>2
  <2>5. Data(slave'[e].sendQ) \in Nat /\ size \in Nat
    BY <1>1, <2>4
  <2>6. slave'[e].credit + Cardinality(BytesOf(Blocked(e)')) + Data(slave'[e].sendQ)
                = slave[e].credit + Claimed(e) + Data(slave[e].sendQ)
    <3>1. CASE writer'[w].at = "put"
      BY <1>1, <2>1, <2>3, <2>4, <2>5, <3>1
    <3>2. CASE writer'[w].at # "put"
      BY <1>1, <2>1, <2>3, <2>4, <2>5, <3>2
    <3> QED
      BY <3>1, <3>2
  <2> QED
    BY <1>1, <1>4, <1>5, <2>2, <2>3, <2>5, <2>6
<1>12. ASSUME NEW w \in Writers, Puts(e, w) PROVE Balanced(e)
  <2>1. /\ tx'[e] = tx[e] /\ wire' = wire /\ cmd'[e] = cmd[e] /\ slave'[e].recvQ = slave[e].recvQ
        /\ slave'[e].pending = slave[e].pending /\ slave'[e].cap = slave[e].cap
        /\ slave'[e].credit = slave[e].credit
        /\ EndOf[w] = e /\ writer[w].at = "put" /\ writer'[w].at # "put" /\ \A v \in Writers \ {w} : writer'[v] = writer[v]
    BY <1>12 DEF Puts, Holds
  <2>2. PICK f \in Packed(e) : f.arg = writer[w].size /\ slave'[e].sendQ = Append(slave[e].sendQ, f)
    BY <1>12 DEF Puts, Queues
  <2>3. f \in Frames /\ DataOf(f) = f.arg /\ f.arg \in Nat
    BY <2>2, ValuesOfFrames DEF Packed
  <2>4. Data(slave'[e].sendQ) = Data(slave[e].sendQ) + f.arg
    BY <1>0, <2>2, <2>3, SumsAppend
  <2>5. /\ IsFiniteSet(BytesOf(Blocked(e)')) /\ Cardinality(BytesOf(Blocked(e)')) \in Nat
        /\ Cardinality(BytesOf(Blocked(e)')) + f.arg = Claimed(e)
    <3> DEFINE F == Blocked(e)
               H == Blocked(e)'
    <3>1. F \in [Writers -> Nat] /\ H \in [Writers -> Nat]
      BY <1>6, BlockedIs
    <3>2. \A v \in Writers : v # w => H[v] = F[v]
      BY <1>6, <2>1, BlockedIs
    <3>3. F[w] = f.arg /\ H[w] = 0
      BY <1>6, <2>1, <2>2, BlockedIs
    <3>4. IsFiniteSet(BytesOf(F)) /\ Claimed(e) = Cardinality(BytesOf(F))
      BY <1>6
    <3> HIDE DEF F, H
    <3>5. /\ IsFiniteSet(BytesOf(H)) /\ Cardinality(BytesOf(F)) \in Nat /\ Cardinality(BytesOf(H)) \in Nat
          /\ Cardinality(BytesOf(H)) + F[w] = Cardinality(BytesOf(F)) + H[w]
      BY <3>1, <3>2, <3>4, BytesOfChange
    <3>6. Cardinality(BytesOf(H)) + f.arg = Claimed(e)
      BY <2>3, <3>3, <3>4, <3>5
    <3> QED
      BY <3>5, <3>6 DEF H
  <2> QED
    BY <1>1, <1>4, <1>5, <2>1, <2>3, <2>4, <2>5
<1>13. ASSUME NEW w \in Writers, Refunds(e, w) PROVE Balanced(e)
  BY <1>2, <1>13 DEF Refunds, Ended
<1>14. ASSUME AbortsSlave(e) \/ Makes(e) PROVE Balanced(e)
  BY <1>2, <1>14 DEF AbortsSlave, Finishes, Makes
<1> QED
  BY <1>7, <1>8, <1>9, <1>10, <1>11, <1>12, <1>13, <1>14 DEF ApplicationStep

\* doSend() takes packets into the batch.
LEMMA FillSums ==
    ASSUME Inv, NEW e \in Ends, NEW h \in Seq(Frames), NEW q \in Seq(Frames), NEW x \in Seq(Frames),
           NEW y \in Seq(Frames), Fills(e, h, q, x, y)
    PROVE  /\ Data(tx[e].todo) = 0 /\ Grants(tx[e].todo) = 0
           /\ Data(tx'[e].todo) = Data(x) /\ Grants(tx'[e].todo) = Grants(h)
           /\ Data(slave[e].sendQ) = Data(x) + Data(y) /\ Grants(cmd[e]) = Grants(h) + Grants(q)
           /\ Data(x) \in Nat /\ Data(y) \in Nat /\ Grants(h) \in Nat /\ Grants(q) \in Nat
           /\ ~Open(slave[e]) => Data(x) = 0
<1>1. /\ tx[e] = Idle /\ tx'[e] = [todo |-> h \o x, all |-> h \o x] /\ cmd[e] = h \o q
      /\ slave[e].sendQ = x \o y /\ (x # <<>> => Open(slave[e]))
  BY DEF Fills
<1>2. tx[e].todo = <<>> /\ tx'[e].todo = h \o x
  <2>1. tx[e].todo = <<>>
    BY <1>1 DEF Idle
  <2> QED
    BY <1>1, <2>1
<1>3. ~Has(h, "DATA")
  BY <1>1, NoDataInCommands
<1>4. ~Has(x, "MAKE") /\ ~Has(x, "MADE") /\ ~Has(x, "WINDOW")
  <2>1. slave[e].sendQ \in Seq(Packed(e) \cup {Barrier})
    BY DEF Inv, FramesTell
  <2>2. x \in Seq(Packed(e) \cup {Barrier})
    BY <1>1, <2>1, SeqParts
  <2>3. \A f \in Packed(e) \cup {Barrier} : f.type # "MAKE" /\ f.type # "MADE" /\ f.type # "WINDOW"
    BY DEF Packed, Barrier, Frame
  <2>4. \A i \in DOMAIN x : x[i] \in Packed(e) \cup {Barrier}
    BY <2>2
  <2> QED
    BY <2>3, <2>4 DEF Has
<1>5. Data(h) = 0 /\ Grants(x) = 0
  BY <1>3, <1>4, SumsZero
<1>6. /\ Data(h) \in Nat /\ Data(x) \in Nat /\ Data(y) \in Nat /\ Grants(h) \in Nat /\ Grants(q) \in Nat
      /\ Grants(x) \in Nat
  BY SumsAre
<1>7. /\ Data(h \o x) = Data(h) + Data(x) /\ Grants(h \o x) = Grants(h) + Grants(x)
      /\ Data(x \o y) = Data(x) + Data(y) /\ Grants(h \o q) = Grants(h) + Grants(q)
  BY SumsConcat
<1>8. Data(tx'[e].todo) = Data(x) /\ Grants(tx'[e].todo) = Grants(h)
  BY <1>2, <1>5, <1>6, <1>7
<1>9. Data(slave[e].sendQ) = Data(x) + Data(y) /\ Grants(cmd[e]) = Grants(h) + Grants(q)
  BY <1>1, <1>7
<1>10. Data(tx[e].todo) = 0 /\ Grants(tx[e].todo) = 0
  BY <1>2, SumsOfNone
<1>11. ~Open(slave[e]) => Data(x) = 0
  BY <1>1, SumsOfNone
<1> QED
  BY <1>6, <1>8, <1>9, <1>10, <1>11

\* sendall() writes a frame.
LEMMA WriteSums ==
    ASSUME Inv, NEW e \in Ends, NEW f \in Frames, NEW g \in Frames, Writes(e, f, g)
    PROVE  /\ Data(tx[e].todo) = DataOf(f) + Data(tx'[e].todo) /\ Data(wire'[e]) = Data(wire[e]) + DataOf(f)
           /\ Grants(tx[e].todo) = GrantOf(f) + Grants(tx'[e].todo) /\ Grants(wire'[e]) = Grants(wire[e]) + GrantOf(f)
           /\ DataOf(f) \in Nat /\ GrantOf(f) \in Nat
           /\ Data(tx'[e].todo) \in Nat /\ Grants(tx'[e].todo) \in Nat
<1>1. /\ tx[e].todo # <<>> /\ f = Head(tx[e].todo) /\ tx'[e].todo = Tail(tx[e].todo)
      /\ g = (IF f.type = "BARRIER" THEN RESET(0) ELSE f) /\ wire'[e] = Append(wire[e], g)
  BY DEF Writes
<1>2. DataOf(g) = DataOf(f) /\ GrantOf(g) = GrantOf(f)
  <2>1. CASE f.type = "BARRIER"
    <3>1. g.type = "RESET"
      BY <1>1, <2>1, ValuesOfFrames
    <3> QED
      BY <2>1, <3>1, ValuesOfFrames
  <2>2. CASE f.type # "BARRIER"
    BY <1>1, <2>2
  <2> QED
    BY <2>1, <2>2
<1>3. tx[e].todo \in Seq(Frames) /\ wire[e] \in Seq(Frames)
  BY QueueTypes
<1>4. /\ Data(Append(wire[e], g)) = Data(wire[e]) + DataOf(g) /\ Grants(Append(wire[e], g)) = Grants(wire[e]) + GrantOf(g)
  BY <1>3, SumsAppend
<1>5. /\ Data(tx[e].todo) = DataOf(f) + Data(tx'[e].todo) /\ Grants(tx[e].todo) = GrantOf(f) + Grants(tx'[e].todo)
      /\ DataOf(f) \in Nat /\ GrantOf(f) \in Nat
      /\ Data(tx'[e].todo) \in Nat /\ Grants(tx'[e].todo) \in Nat
  BY <1>1, <1>3, SumsTail
<1> QED
  BY <1>1, <1>2, <1>4, <1>5

\* doReceive() reads a frame.
LEMMA TakeSums ==
    ASSUME Inv, NEW e \in Ends, NEW f \in Frames, Takes(e, f)
    PROVE  /\ Data(wire[Peer(e)]) = DataOf(f) + Data(wire'[Peer(e)])
           /\ Grants(wire[Peer(e)]) = GrantOf(f) + Grants(wire'[Peer(e)])
           /\ DataOf(f) \in Nat /\ GrantOf(f) \in Nat
           /\ Data(wire'[Peer(e)]) \in Nat /\ Grants(wire'[Peer(e)]) \in Nat
<1>1. wire[Peer(e)] \in Seq(Frames)
  BY EndFacts, QueueTypes
<1> QED
  BY <1>1, SumsTail DEF Takes

LEMMA BalancedMaster ==
    ASSUME Inv, TypeOK', NEW e \in Ends, MasterStep(e), Open(slave[e]), Open(slave'[e]),
           IsFiniteSet(BytesOf(Blocked(e)))
    PROVE  Balanced(e)
<1> DEFINE p == Peer(e)
<1>1. /\ Claimed(e) \in Nat /\ Data(slave[e].sendQ) \in Nat /\ Data(tx[e].todo) \in Nat /\ Data(wire[e]) \in Nat
      /\ Size(slave[e].recvQ) \in Nat /\ Grants(cmd[e]) \in Nat /\ Grants(tx[e].todo) \in Nat
      /\ Grants(wire[e]) \in Nat /\ Data(wire[p]) \in Nat /\ Grants(wire[p]) \in Nat
      /\ slave[e].credit \in Nat /\ slave[e].pending \in Nat /\ slave[e].cap \in Nat /\ slave'[e].cap \in Nat
  <2>1. slave'[e] \in SlaveType
    BY DEF TypeOK
  <2>2. wire[p] \in Seq(Frames)
    BY QueueTypes, EndFacts
  <2> QED
    BY <2>1, <2>2, SumsAre, OutInTypes DEF SlaveType
<1>2. slave[e].is = "open" /\ slave'[e].is = "open" /\ slave[e] \in SlaveType /\ slave[e].recvQ \in Seq(Frames)
  BY QueueTypes DEF Open
<1>3. /\ Out(e)' = slave'[e].credit + Cardinality(BytesOf(Blocked(e)')) + Data(slave'[e].sendQ) + Data(tx'[e].todo)
      /\ In(e)' = Size(slave'[e].recvQ) + slave'[e].pending + Grants(cmd'[e]) + Grants(tx'[e].todo)
      /\ Out(e) = slave[e].credit + Claimed(e) + Data(slave[e].sendQ) + Data(tx[e].todo)
      /\ In(e) = Size(slave[e].recvQ) + slave[e].pending + Grants(cmd[e]) + Grants(tx[e].todo)
      /\ Claimed(e) = Cardinality(BytesOf(Blocked(e)))
  BY DEF Out, In, Claimed, Data, Size, Grants, Bytes, BytesOf
<1>4. TypeOK
  BY DEF Inv
<1> HIDE DEF p
<1>5. ASSUME Blocked(e)' = Blocked(e),
             slave'[e].credit + Data(slave'[e].sendQ) + Data(tx'[e].todo) + Data(wire'[e]) + Grants(wire'[p])
                = slave[e].credit + Data(slave[e].sendQ) + Data(tx[e].todo) + Data(wire[e]) + Grants(wire[p]),
             Size(slave'[e].recvQ) + slave'[e].pending + Grants(cmd'[e]) + Grants(tx'[e].todo) + Grants(wire'[e])
                + Data(wire'[p])
                = Size(slave[e].recvQ) + slave[e].pending + Grants(cmd[e]) + Grants(tx[e].todo) + Grants(wire[e])
                + Data(wire[p]),
             slave'[e].cap = slave[e].cap,
             slave'[e].credit \in Nat, Data(slave'[e].sendQ) \in Nat, Data(tx'[e].todo) \in Nat,
             Data(wire'[e]) \in Nat, Grants(wire'[p]) \in Nat,
             Size(slave'[e].recvQ) \in Nat, slave'[e].pending \in Nat, Grants(cmd'[e]) \in Nat,
             Grants(tx'[e].todo) \in Nat, Grants(wire'[e]) \in Nat, Data(wire'[p]) \in Nat
      PROVE  Balanced(e)
  <2>1. IsFiniteSet(BytesOf(Blocked(e)')) /\ Cardinality(BytesOf(Blocked(e)')) = Claimed(e)
    BY <1>3, <1>5
  <2>2. Out(e)' + Data(wire'[e]) + Grants(wire'[Peer(e)]) = Out(e) + Data(wire[e]) + Grants(wire[Peer(e)])
    BY <1>1, <1>3, <1>5, <2>1 DEF p
  <2>3. In(e)' + Grants(wire'[e]) + Data(wire'[Peer(e)]) + slave[e].cap
          = In(e) + Grants(wire[e]) + Data(wire[Peer(e)]) + slave'[e].cap
    BY <1>1, <1>3, <1>5 DEF p
  <2> QED
    BY <2>1, <2>2, <2>3 DEF Balanced
<1>6. CASE Breaks(e)
  BY <1>2, <1>6 DEF Breaks, Finishes, Open
<1>7. ASSUME NEW h \in Seq(Frames), NEW q \in Seq(Frames), NEW x \in Seq(Frames), NEW y \in Seq(Frames),
             Fills(e, h, q, x, y)
      PROVE  /\ Blocked(e)' = Blocked(e) /\ wire' = wire /\ slave'[e].credit = slave[e].credit
             /\ slave'[e].recvQ = slave[e].recvQ
             /\ slave'[e].pending = slave[e].pending /\ slave'[e].cap = slave[e].cap
             /\ Data(slave'[e].sendQ) + Data(tx'[e].todo) = Data(slave[e].sendQ) + Data(tx[e].todo)
             /\ Grants(cmd'[e]) + Grants(tx'[e].todo) = Grants(cmd[e]) + Grants(tx[e].todo)
             /\ Data(slave'[e].sendQ) \in Nat /\ Data(tx'[e].todo) \in Nat
             /\ Grants(cmd'[e]) \in Nat /\ Grants(tx'[e].todo) \in Nat
  <2>1. Blocked(e)' = Blocked(e)
    BY <1>4, <1>7, BlockedKept DEF Fills
  <2>2. /\ wire' = wire /\ cmd'[e] = q /\ slave'[e].credit = slave[e].credit
        /\ slave'[e].sendQ = y /\ slave'[e].recvQ = slave[e].recvQ
        /\ slave'[e].pending = slave[e].pending /\ slave'[e].cap = slave[e].cap
    BY <1>2, <1>7 DEF Fills
  <2>3. /\ Data(tx[e].todo) = 0 /\ Grants(tx[e].todo) = 0
        /\ Data(tx'[e].todo) = Data(x) /\ Grants(tx'[e].todo) = Grants(h)
        /\ Data(slave[e].sendQ) = Data(x) + Data(y) /\ Grants(cmd[e]) = Grants(h) + Grants(q)
        /\ Data(x) \in Nat /\ Data(y) \in Nat /\ Grants(h) \in Nat /\ Grants(q) \in Nat
    BY <1>7, FillSums
  <2>4. Data(slave'[e].sendQ) = Data(y) /\ Grants(cmd'[e]) = Grants(q)
    BY <2>2
  <2>5. /\ Data(slave[e].sendQ) + Data(tx[e].todo) = Data(y) + Data(tx'[e].todo)
        /\ Grants(q) + Grants(tx'[e].todo) = Grants(cmd[e]) + Grants(tx[e].todo)
    BY <2>3
  <2>6. /\ Data(slave'[e].sendQ) + Data(tx'[e].todo) = Data(slave[e].sendQ) + Data(tx[e].todo)
        /\ Grants(cmd'[e]) + Grants(tx'[e].todo) = Grants(cmd[e]) + Grants(tx[e].todo)
    BY <2>4, <2>5
  <2>7. /\ Data(slave'[e].sendQ) \in Nat /\ Data(tx'[e].todo) \in Nat
        /\ Grants(cmd'[e]) \in Nat /\ Grants(tx'[e].todo) \in Nat
    BY <2>3, <2>4
  <2> QED
    BY <2>1, <2>2, <2>6, <2>7
<1>7a. ASSUME \E h, q, x, y \in Seq(Frames) : Fills(e, h, q, x, y) PROVE Balanced(e)
  <2>1. /\ Blocked(e)' = Blocked(e) /\ wire' = wire /\ slave'[e].credit = slave[e].credit
        /\ slave'[e].recvQ = slave[e].recvQ
        /\ slave'[e].pending = slave[e].pending /\ slave'[e].cap = slave[e].cap
        /\ Data(slave'[e].sendQ) + Data(tx'[e].todo) = Data(slave[e].sendQ) + Data(tx[e].todo)
        /\ Grants(cmd'[e]) + Grants(tx'[e].todo) = Grants(cmd[e]) + Grants(tx[e].todo)
        /\ Data(slave'[e].sendQ) \in Nat /\ Data(tx'[e].todo) \in Nat
        /\ Grants(cmd'[e]) \in Nat /\ Grants(tx'[e].todo) \in Nat
    BY <1>7, <1>7a
  <2>2. slave'[e].credit + Data(slave'[e].sendQ) + Data(tx'[e].todo) + Data(wire'[e]) + Grants(wire'[p])
          = slave[e].credit + Data(slave[e].sendQ) + Data(tx[e].todo) + Data(wire[e]) + Grants(wire[p])
    BY <1>1, <2>1
  <2>3. Size(slave'[e].recvQ) + slave'[e].pending + Grants(cmd'[e]) + Grants(tx'[e].todo) + Grants(wire'[e])
          + Data(wire'[p])
          = Size(slave[e].recvQ) + slave[e].pending + Grants(cmd[e]) + Grants(tx[e].todo) + Grants(wire[e])
          + Data(wire[p])
    BY <1>1, <2>1
  <2> QED
    BY <1>1, <1>5, <2>1, <2>2, <2>3
<1>8. ASSUME NEW f \in Frames, NEW g \in Frames, Writes(e, f, g) PROVE Balanced(e)
  <2>1. Blocked(e)' = Blocked(e)
    BY <1>4, <1>8, BlockedKept DEF Writes
  <2>2. slave'[e] = slave[e] /\ cmd'[e] = cmd[e] /\ wire'[p] = wire[p]
    BY <1>8 DEF Writes, p
  <2>3. /\ Data(tx[e].todo) = DataOf(f) + Data(tx'[e].todo) /\ Data(wire'[e]) = Data(wire[e]) + DataOf(f)
        /\ Grants(tx[e].todo) = GrantOf(f) + Grants(tx'[e].todo) /\ Grants(wire'[e]) = Grants(wire[e]) + GrantOf(f)
        /\ DataOf(f) \in Nat /\ GrantOf(f) \in Nat
        /\ Data(tx'[e].todo) \in Nat /\ Grants(tx'[e].todo) \in Nat
    BY <1>8, WriteSums
  <2>4. slave'[e].credit + Data(slave'[e].sendQ) + Data(tx'[e].todo) + Data(wire'[e]) + Grants(wire'[p])
          = slave[e].credit + Data(slave[e].sendQ) + Data(tx[e].todo) + Data(wire[e]) + Grants(wire[p])
    BY <1>1, <2>2, <2>3
  <2>5. Size(slave'[e].recvQ) + slave'[e].pending + Grants(cmd'[e]) + Grants(tx'[e].todo) + Grants(wire'[e])
          + Data(wire'[p])
          = Size(slave[e].recvQ) + slave[e].pending + Grants(cmd[e]) + Grants(tx[e].todo) + Grants(wire[e])
          + Data(wire[p])
    BY <1>1, <2>2, <2>3
  <2> QED
    BY <1>1, <1>5, <2>1, <2>2, <2>3, <2>4, <2>5
<1>9. ASSUME NEW f \in Frames, Takes(e, f)
      PROVE  /\ Blocked(e)' = Blocked(e) /\ wire'[e] = wire[e] /\ tx'[e] = tx[e]
             /\ Data(wire[p]) = DataOf(f) + Data(wire'[p]) /\ Grants(wire[p]) = GrantOf(f) + Grants(wire'[p])
             /\ DataOf(f) \in Nat /\ GrantOf(f) \in Nat /\ Data(wire'[p]) \in Nat /\ Grants(wire'[p]) \in Nat
  <2>1. Blocked(e)' = Blocked(e)
    BY <1>4, <1>9, BlockedKept DEF Takes
  <2> QED
    BY <1>9, <2>1, TakeSums DEF Takes, p
<1>10. ASSUME NEW f \in Frames, TakesData(e, f) PROVE Balanced(e)
  <2>1. /\ slave'[e].recvQ = Append(slave[e].recvQ, f) /\ slave'[e].credit = slave[e].credit
        /\ slave'[e].pending = slave[e].pending /\ slave'[e].cap = slave[e].cap /\ slave'[e].sendQ = slave[e].sendQ
        /\ cmd'[e] = cmd[e] /\ f.type = "DATA" /\ Takes(e, f)
    BY <1>10 DEF TakesData
  <2>2. DataOf(f) = SizeOf(f) /\ GrantOf(f) = 0
    BY <2>1, ValuesOfFrames
  <2>3. Size(slave'[e].recvQ) = Size(slave[e].recvQ) + DataOf(f)
    BY <1>2, <2>1, <2>2, SumsAppend
  <2>6. /\ Blocked(e)' = Blocked(e) /\ wire'[e] = wire[e] /\ tx'[e] = tx[e]
        /\ Data(wire[p]) = DataOf(f) + Data(wire'[p]) /\ Grants(wire[p]) = GrantOf(f) + Grants(wire'[p])
        /\ DataOf(f) \in Nat /\ GrantOf(f) \in Nat /\ Data(wire'[p]) \in Nat /\ Grants(wire'[p]) \in Nat
    BY <1>9, <2>1
  <2>4. slave'[e].credit + Data(slave'[e].sendQ) + Data(tx'[e].todo) + Data(wire'[e]) + Grants(wire'[p])
          = slave[e].credit + Data(slave[e].sendQ) + Data(tx[e].todo) + Data(wire[e]) + Grants(wire[p])
    <3>1. slave'[e].credit = slave[e].credit /\ slave'[e].sendQ = slave[e].sendQ
      BY <2>1
    <3> QED
      BY <1>1, <2>2, <2>6, <3>1
  <2>5. Size(slave'[e].recvQ) + slave'[e].pending + Grants(cmd'[e]) + Grants(tx'[e].todo) + Grants(wire'[e])
          + Data(wire'[p])
          = Size(slave[e].recvQ) + slave[e].pending + Grants(cmd[e]) + Grants(tx[e].todo) + Grants(wire[e])
          + Data(wire[p])
    <3>1. slave'[e].pending = slave[e].pending /\ cmd'[e] = cmd[e]
      BY <2>1
    <3> QED
      BY <1>1, <2>2, <2>3, <2>6, <3>1
  <2> QED
    <3>1. /\ slave'[e].credit = slave[e].credit /\ slave'[e].sendQ = slave[e].sendQ
          /\ slave'[e].pending = slave[e].pending /\ cmd'[e] = cmd[e] /\ slave'[e].cap = slave[e].cap
      BY <2>1
    <3>2. Size(slave'[e].recvQ) \in Nat
      BY <1>1, <2>3, <2>6
    <3> QED
      BY <1>1, <1>5, <2>4, <2>5, <2>6, <3>1, <3>2
<1>11. ASSUME NEW f \in Frames, Takes(e, f), cmd'[e] = cmd[e],
              slave'[e].credit = slave[e].credit + f.arg, f.type \in {"WINDOW", "MADE"},
              slave'[e].recvQ = slave[e].recvQ, slave'[e].sendQ = slave[e].sendQ,
              slave'[e].pending = slave[e].pending, slave'[e].cap = slave[e].cap
       PROVE  Balanced(e)
  <2>1. DataOf(f) = 0 /\ GrantOf(f) = f.arg
    BY <1>11, ValuesOfFrames
  <2>2. slave'[e].credit + Data(slave'[e].sendQ) + Data(tx'[e].todo) + Data(wire'[e]) + Grants(wire'[p])
          = slave[e].credit + Data(slave[e].sendQ) + Data(tx[e].todo) + Data(wire[e]) + Grants(wire[p])
    BY <1>1, <1>9, <1>11, <2>1
  <2>3. Size(slave'[e].recvQ) + slave'[e].pending + Grants(cmd'[e]) + Grants(tx'[e].todo) + Grants(wire'[e])
          + Data(wire'[p])
          = Size(slave[e].recvQ) + slave[e].pending + Grants(cmd[e]) + Grants(tx[e].todo) + Grants(wire[e])
          + Data(wire[p])
    BY <1>1, <1>9, <1>11, <2>1
  <2>4. slave'[e].credit \in Nat
    BY <1>1, <1>9, <1>11, <2>1
  <2> QED
    BY <1>1, <1>5, <1>9, <1>11, <2>2, <2>3, <2>4
<1>12. ASSUME NEW f \in Frames, TakesWindow(e, f) PROVE Balanced(e)
  <2>1. /\ slave'[e].credit = slave[e].credit + f.arg
        /\ slave'[e].recvQ = slave[e].recvQ /\ slave'[e].sendQ = slave[e].sendQ
        /\ slave'[e].pending = slave[e].pending /\ slave'[e].cap = slave[e].cap
    BY <1>2, <1>12 DEF TakesWindow, Core, SlaveType
  <2> QED
    BY <1>11, <1>12, <2>1 DEF TakesWindow
<1>13. ASSUME NEW f \in Frames, TakesMade(e, f) PROVE Balanced(e)
  <2>1. /\ slave'[e].credit = f.arg
        /\ slave'[e].recvQ = slave[e].recvQ /\ slave'[e].sendQ = slave[e].sendQ
        /\ slave'[e].pending = slave[e].pending /\ slave'[e].cap = slave[e].cap /\ cmd'[e] = cmd[e]
    BY <1>2, <1>13 DEF TakesMade, Core, SlaveType
  <2>2. slave[e].credit = 0
    <3>1. e = "a" /\ Peer(e) = "b" /\ Takes(e, f) /\ f.type = "MADE"
      BY <1>13 DEF TakesMade, Peer
    <3>2. wire["b"] \in Seq(Frames) /\ wire["b"] # <<>> /\ f = Head(wire["b"])
      BY <3>1, QueueTypes DEF Takes, Ends
    <3>3. Has(wire["b"], "MADE")
      BY <3>1, <3>2, HasTail
    <3> QED
      BY <3>1, <3>3 DEF Inv, NothingBeforeMade, Comes
  <2>3. slave'[e].credit = slave[e].credit + f.arg
    BY <2>1, <2>2, ValuesOfFrames
  <2> QED
    BY <1>11, <1>13, <2>1, <2>3 DEF TakesMade
<1>14. ASSUME NEW f \in Frames, TakesReset(e, f) \/ TakesMake(e, f) PROVE Balanced(e)
  <2>1. CASE TakesReset(e, f)
    BY <1>2, <2>1 DEF TakesReset, Finishes, Open
  <2>2. CASE TakesMake(e, f)
    BY <1>2, <2>2 DEF TakesMake
  <2> QED
    BY <1>14, <2>1, <2>2
<1> QED
  BY <1>6, <1>7a, <1>8, <1>10, <1>12, <1>13, <1>14 DEF MasterStep

LEMMA FiniteKept ==
    ASSUME TypeOK, TypeOK', NEW e \in Ends, StepOf(e), IsFiniteSet(BytesOf(Blocked(e)))
    PROVE  IsFiniteSet(BytesOf(Blocked(e)'))
<1>1. ASSUME KeepsWriters(e) \/ Quiet(e) \/ Rests(e) \/ writer' = writer
      PROVE  IsFiniteSet(BytesOf(Blocked(e)'))
  <2>1. Blocked(e)' = Blocked(e)
    BY <1>1, BlockedKept
  <2> QED
    BY <2>1
<1>2. ASSUME NEW w \in Writers, \A v \in Writers \ {w} : writer'[v] = writer[v]
      PROVE  IsFiniteSet(BytesOf(Blocked(e)'))
  <2> DEFINE F == Blocked(e)
             H == Blocked(e)'
  <2>1. F \in [Writers -> Nat] /\ H \in [Writers -> Nat] /\ \A v \in Writers : v # w => H[v] = F[v]
    BY <1>2, BlockedIs
  <2>2. IsFiniteSet(BytesOf(F))
    OBVIOUS
  <2> HIDE DEF F, H
  <2>3. IsFiniteSet(BytesOf(H))
    BY <2>1, <2>2, BytesOfChange
  <2> QED
    BY <2>3 DEF H
<1>3. CASE ApplicationStep(e)
  <2>1. CASE Bars(e) \/ AbortsSlave(e) \/ Resizes(e) \/ Makes(e)
    BY <1>1, <2>1 DEF Bars, AbortsSlave, Finishes, Resizes, Makes
  <2>2. ASSUME NEW w \in Writers, Refunds(e, w) \/ Uses(e, w) \/ Puts(e, w)
        PROVE  \A v \in Writers \ {w} : writer'[v] = writer[v]
    BY <2>2 DEF Refunds, Uses, Puts
  <2>3. ASSUME NEW f, Gets(e, f) PROVE writer' = writer
    BY <2>3 DEF Gets
  <2> QED
    BY <1>1, <1>2, <1>3, <2>1, <2>2, <2>3 DEF ApplicationStep
<1>4. CASE MasterStep(e)
  <2>1. Breaks(e) => KeepsWriters(e)
    BY DEF Breaks, Finishes
  <2>2. ASSUME NEW h, NEW q, NEW x, NEW y, Fills(e, h, q, x, y) PROVE writer' = writer
    BY <2>2 DEF Fills
  <2>3. ASSUME NEW f, NEW g, Writes(e, f, g) PROVE KeepsWriters(e)
    BY <2>3 DEF Writes
  <2>4. ASSUME NEW f, Reading(e, f) PROVE KeepsWriters(e)
    BY <2>4, ReadingTakes DEF Takes
  <2> QED
    BY <1>1, <1>4, <2>1, <2>2, <2>3, <2>4 DEF MasterStep, Reading
<1> QED
  BY <1>3, <1>4 DEF StepOf

\* No step of e sends more than was queued, or makes up credit that the other end sent.
LEMMA SendsNoMore ==
    ASSUME Inv, Inv', NEW e \in Ends, StepOf(e)
    PROVE  /\ Data(tx'[e].todo) + Data(wire'[e]) <= Data(slave[e].sendQ) + Data(tx[e].todo) + Data(wire[e])
           /\ ~Open(slave[e]) => Data(tx'[e].todo) + Data(wire'[e]) <= Data(tx[e].todo) + Data(wire[e])
           /\ Grants(wire'[Peer(e)]) <= Grants(wire[Peer(e)])
           /\ Data(tx'[e].todo) \in Nat /\ Data(wire'[e]) \in Nat /\ Grants(wire'[Peer(e)]) \in Nat
<1> DEFINE p == Peer(e)
<1>1. /\ Data(slave[e].sendQ) \in Nat /\ Data(tx[e].todo) \in Nat /\ Data(wire[e]) \in Nat
      /\ Data(tx'[e].todo) \in Nat /\ Data(wire'[e]) \in Nat
      /\ Grants(wire[p]) \in Nat /\ Grants(wire'[p]) \in Nat
  <2>1. /\ slave[e].sendQ \in Seq(Frames) /\ tx[e].todo \in Seq(Frames) /\ wire[e] \in Seq(Frames)
        /\ wire[p] \in Seq(Frames)
    BY QueueTypes, EndFacts
  <2>2. p \in Ends
    BY EndFacts
  <2>3. tx'[e] \in [todo : Seq(Frames), all : Seq(Frames)] /\ wire'[e] \in Seq(Frames) /\ wire'[p] \in Seq(Frames)
    BY <2>2 DEF Inv, TypeOK
  <2>4. tx'[e].todo \in Seq(Frames)
    BY <2>3
  <2> QED
    BY <2>1, <2>3, <2>4, SumsAre
<1>2. Grants(wire'[p]) <= Grants(wire[p])
  <2>1. CASE wire'[p] = wire[p]
    BY <1>1, <2>1
  <2>2. ASSUME NEW f \in Frames, Reading(e, f) PROVE Grants(wire'[p]) <= Grants(wire[p])
    <3>1. Grants(wire[Peer(e)]) = GrantOf(f) + Grants(wire'[Peer(e)]) /\ GrantOf(f) \in Nat
      BY <2>2, ReadingTakes, TakeSums
    <3> QED
      BY <1>1, <3>1
  <2> QED
    BY <2>1, <2>2, WireOfPeer
<1> HIDE DEF p
<1>3. ASSUME tx'[e] = tx[e], wire'[e] = wire[e]
      PROVE  /\ Data(tx'[e].todo) + Data(wire'[e]) <= Data(slave[e].sendQ) + Data(tx[e].todo) + Data(wire[e])
             /\ Data(tx'[e].todo) + Data(wire'[e]) <= Data(tx[e].todo) + Data(wire[e])
  BY <1>1, <1>3
<1>4. CASE ApplicationStep(e)
  <2>2. ASSUME NEW w \in Writers, Refunds(e, w) \/ Uses(e, w) \/ Puts(e, w)
        PROVE  tx'[e] = tx[e] /\ wire'[e] = wire[e]
    BY <2>2 DEF Refunds, Uses, Puts, Holds
  <2>3. ASSUME NEW f, Gets(e, f) PROVE tx'[e] = tx[e] /\ wire'[e] = wire[e]
    BY <2>3 DEF Gets
  <2>4. tx'[e] = tx[e] /\ wire'[e] = wire[e]
    <3>1. Quiet(e) \/ Bars(e) \/ AbortsSlave(e) \/ Resizes(e) \/ Makes(e) => tx'[e] = tx[e] /\ wire' = wire
      BY DEF Quiet, Bars, Holds, AbortsSlave, Resizes, Makes
    <3> QED
      BY <1>4, <2>2, <2>3, <3>1 DEF ApplicationStep
  <2> QED
    BY <1>1, <1>2, <1>3, <2>4 DEF p
<1>5. CASE Breaks(e)
  <2>1. wire' = wire /\ tx'[e] = Idle
    BY <1>5 DEF Breaks
  <2>2. Data(tx'[e].todo) = 0 /\ wire'[e] = wire[e]
    BY <2>1, EmptyHasNone, SumsOfNone
  <2> QED
    BY <1>1, <1>2, <2>2 DEF p
<1>6. ASSUME NEW h \in Seq(Frames), NEW q \in Seq(Frames), NEW x \in Seq(Frames), NEW y \in Seq(Frames),
             Fills(e, h, q, x, y)
      PROVE  /\ wire' = wire /\ Data(tx'[e].todo) <= Data(slave[e].sendQ)
             /\ ~Open(slave[e]) => Data(tx'[e].todo) = 0
  <2>1. /\ Data(tx'[e].todo) = Data(x) /\ Data(slave[e].sendQ) = Data(x) + Data(y)
        /\ Data(x) \in Nat /\ Data(y) \in Nat /\ (~Open(slave[e]) => Data(x) = 0)
    BY <1>6, FillSums
  <2> QED
    BY <1>6, <2>1 DEF Fills
<1>7. ASSUME NEW f \in Frames, NEW g \in Frames, Writes(e, f, g)
      PROVE  Data(tx'[e].todo) + Data(wire'[e]) = Data(tx[e].todo) + Data(wire[e])
  <2>1. /\ Data(tx[e].todo) = DataOf(f) + Data(tx'[e].todo) /\ Data(wire'[e]) = Data(wire[e]) + DataOf(f)
        /\ DataOf(f) \in Nat
    BY <1>7, WriteSums
  <2> QED
    BY <1>1, <2>1
<1>8. ASSUME NEW f \in Frames, Reading(e, f) PROVE tx'[e] = tx[e] /\ wire'[e] = wire[e]
  BY <1>8, ReadingTakes DEF Takes
<1>9. CASE MasterStep(e)
  <2>1. CASE \E h, q, x, y \in Seq(Frames) : Fills(e, h, q, x, y)
    <3>1. /\ wire' = wire /\ Data(tx'[e].todo) <= Data(slave[e].sendQ)
          /\ ~Open(slave[e]) => Data(tx'[e].todo) = 0
      BY <1>6, <2>1
    <3> QED
      BY <1>1, <1>2, <3>1 DEF p
  <2>2. CASE \E f \in Frames : \E g \in Frames : Writes(e, f, g)
    <3>1. Data(tx'[e].todo) + Data(wire'[e]) = Data(tx[e].todo) + Data(wire[e])
      BY <1>7, <2>2
    <3> QED
      BY <1>1, <1>2, <3>1 DEF p
  <2>3. CASE \E f \in Frames : Reading(e, f)
    <3>1. tx'[e] = tx[e] /\ wire'[e] = wire[e]
      BY <1>8, <2>3
    <3> QED
      BY <1>1, <1>2, <1>3, <3>1 DEF p
  <2> QED
    BY <1>5, <1>9, <2>1, <2>2, <2>3 DEF MasterStep, Reading
<1> QED
  BY <1>4, <1>9 DEF StepOf

\* CreditConserved adds up what each end has.
LEMMA ConservedIs ==
    ASSUME Inv, FinitelyBlocked, Conserved
    PROVE  CreditConserved
<1>1. ASSUME NEW e \in Ends
      PROVE  LET p == Peer(e)
                 s == slave[e]
                 t == slave[p]
             IN  s.credit + Cardinality(BytesOf(Blocked(e))) + Data(s.sendQ) + Data(tx[e].todo) + Data(wire[e])
                    + Size(t.recvQ) + t.pending + Grants(cmd[p]) + Grants(tx[p].todo) + Grants(wire[p])
                    = Out(e) + Data(wire[e]) + In(p) + Grants(wire[p])
  <2>1. Peer(e) \in Ends
    BY EndFacts
  <2>2. /\ Claimed(e) \in Nat /\ Data(slave[e].sendQ) \in Nat /\ Data(tx[e].todo) \in Nat /\ Data(wire[e]) \in Nat
        /\ slave[e].credit \in Nat
    BY OutInTypes DEF FinitelyBlocked
  <2>3. /\ Size(slave[Peer(e)].recvQ) \in Nat /\ slave[Peer(e)].pending \in Nat
        /\ Grants(cmd[Peer(e)]) \in Nat /\ Grants(tx[Peer(e)].todo) \in Nat /\ Grants(wire[Peer(e)]) \in Nat
    BY <2>1, OutInTypes DEF FinitelyBlocked
  <2> QED
    BY <2>2, <2>3 DEF Out, In, Claimed
<1> QED
  BY <1>1 DEF CreditConserved, Conserved

BooksTyped ==
    \A e \in Ends : /\ Out(e) \in Nat /\ In(e) \in Nat /\ Data(wire[e]) \in Nat /\ Grants(wire[e]) \in Nat
                    /\ Data(tx[e].todo) \in Nat /\ slave[e].cap \in Nat /\ Grants(cmd[e]) \in Nat
                    /\ Grants(tx[e].todo) \in Nat

LEMMA BooksAreTyped == Inv /\ FinitelyBlocked => BooksTyped
  BY OutInTypes DEF FinitelyBlocked, BooksTyped

\* A slave that opens at this step: nothing was sent to it or by it before.
LEMMA CreditOfMake ==
    ASSUME Inv, CreditInv, NEW e \in Ends, StepOf(e), TypeOK', ~Open(slave[e]), Open(slave'[e])
    PROVE  /\ In(e)' + Grants(wire'[e]) = slave'[e].cap
           /\ Data(tx[Peer(e)].todo) + Data(wire'[Peer(e)]) = 0
           /\ Open(slave[Peer(e)]) => /\ e = "b" /\ Out(Peer(e)) + Data(wire'[Peer(e)]) = 0
                                      /\ Out(e)' + Data(wire'[e]) + In(Peer(e)) + Grants(wire'[Peer(e)])
                                            = slave[Peer(e)].cap
           /\ e = "a" => /\ slave["b"].is = "none"
                         /\ Grants(cmd'["a"]) + Grants(tx'["a"].todo) + Grants(wire'["a"]) = slave'["a"].cap
<1> DEFINE p == Peer(e)
<1>0. p \in Ends /\ p # e /\ Ends = {e, p} /\ Peer(p) = e /\ TypeOK /\ "a" \in Ends /\ "b" \in Ends
  BY EndFacts DEF Inv, Ends
<1>1. Makes(e) \/ \E f \in Frames : TakesMake(e, f)
  BY SlaveChanges
<1>2. slave[e].is = "none"
  BY <1>1 DEF Makes, TakesMake
<1>3. /\ cmd[e] = <<>> /\ tx[e] = Idle /\ wire[e] = <<>> /\ tx[e].todo = <<>>
      /\ \A w \in Writers : EndOf[w] = e => writer[w].at = "idle"
  <2>1. /\ cmd[e] = <<>> /\ tx[e] = Idle /\ wire[e] = <<>>
        /\ \A w \in Writers : EndOf[w] = e => writer[w].at = "idle"
    BY <1>2 DEF Inv, SilentBefore
  <2> QED
    BY <2>1, EmptyHasNone
<1>4. /\ Out(e)' = slave'[e].credit + Cardinality(BytesOf(Blocked(e)')) + Data(slave'[e].sendQ) + Data(tx'[e].todo)
      /\ In(e)' = Size(slave'[e].recvQ) + slave'[e].pending + Grants(cmd'[e]) + Grants(tx'[e].todo)
  BY DEF Out, In, Claimed, Data, Size, Grants, Bytes, BytesOf
<1>5. ASSUME NEW x \in Ends, \A w \in Writers : EndOf[w] = x => writer[w].at # "put"
      PROVE  Claimed(x) = 0
  <2>1. \A w \in Writers : Blocked(x)[w] = 0
    BY <1>5 DEF Blocked
  <2>2. \A w \in Writers : 1..Blocked(x)[w] = {}
    BY <2>1
  <2>3. BytesOf(Blocked(x)) = {}
    BY <2>2 DEF BytesOf
  <2> QED
    BY <2>3, FS_EmptySet DEF Claimed
<1>6. /\ slave'[e].cap = RecvCap /\ slave'[e].recvQ = <<>> /\ slave'[e].sendQ = <<>> /\ slave'[e].pending = 0
      /\ tx'[e] = tx[e] /\ wire'[e] = wire[e] /\ KeepsWriters(e)
  <2>1. CASE Makes(e)
    BY <2>1 DEF Makes, Core, KeepsWriters
  <2>2. ASSUME NEW f, TakesMake(e, f)
        PROVE  /\ slave'[e].cap = RecvCap /\ slave'[e].recvQ = <<>> /\ slave'[e].sendQ = <<>> /\ slave'[e].pending = 0
               /\ tx'[e] = tx[e] /\ wire'[e] = wire[e] /\ KeepsWriters(e)
    BY <2>2 DEF TakesMake, Takes, Core
  <2> QED
    BY <1>1, <2>1, <2>2
<1>7. RecvCap \in Nat
  BY MultiStreamAssumption
<1>8. Grants(cmd'[e]) = RecvCap
  <2>1. PICK t \in {"MAKE", "MADE"} : cmd'[e] = Append(cmd[e], Command(t, RecvCap))
    BY <1>1 DEF Makes, TakesMake
  <2>2. Command(t, RecvCap) \in Frames /\ GrantOf(Command(t, RecvCap)) = RecvCap
    BY <1>7, ValuesOfFrames
  <2>3. cmd[e] \in Seq(Frames) /\ Grants(cmd[e]) = 0
    BY <1>3, QueueTypes, SumsOfNone
  <2>4. Grants(Append(cmd[e], Command(t, RecvCap))) = Grants(cmd[e]) + GrantOf(Command(t, RecvCap))
    BY <2>2, <2>3, SumsAppend
  <2> QED
    BY <1>7, <2>1, <2>2, <2>3, <2>4
<1>9. /\ Grants(tx'[e].todo) = 0 /\ Grants(wire'[e]) = 0 /\ Size(slave'[e].recvQ) = 0
      /\ Data(slave'[e].sendQ) = 0 /\ Data(tx'[e].todo) = 0 /\ Data(wire'[e]) = 0
  BY <1>3, <1>6, SumsOfNone
<1>10. In(e)' + Grants(wire'[e]) = slave'[e].cap /\ In(e)' = RecvCap
  BY <1>4, <1>6, <1>7, <1>8, <1>9
<1>11. Out(e)' = slave'[e].credit
  <2>1. Blocked(e)' = Blocked(e)
    BY <1>0, <1>6, BlockedKept
  <2>2. Claimed(e) = 0
    BY <1>3, <1>5
  <2>3. Cardinality(BytesOf(Blocked(e)')) = 0
    BY <2>1, <2>2 DEF Claimed
  <2>4. slave'[e].credit \in Nat
    <3>1. slave'[e] \in SlaveType
      BY DEF TypeOK
    <3> QED
      BY <3>1 DEF SlaveType
  <2> QED
    BY <1>4, <1>9, <2>3, <2>4
<1>12. CASE Makes(e)
  <2>1. e = "a" /\ p = "b" /\ wire' = wire
    BY <1>12 DEF Makes, Peer
  <2>2. slave["b"].is = "none"
    BY <1>2, <2>1 DEF Inv, SilentBefore
  <2>3. tx["b"] = Idle /\ wire["b"] = <<>>
    BY <1>0, <2>2 DEF Inv, SilentBefore
  <2>4. Data(tx["b"].todo) = 0 /\ Data(wire'["b"]) = 0
    BY <2>1, <2>3, EmptyHasNone, SumsOfNone
  <2>5. ~Open(slave["b"])
    BY <2>2 DEF Open
  <2>6. Grants(cmd'["a"]) + Grants(tx'["a"].todo) + Grants(wire'["a"]) = slave'["a"].cap
    BY <1>6, <1>7, <1>8, <1>9, <2>1
  <2> QED
    BY <1>10, <2>1, <2>2, <2>4, <2>5, <2>6
<1>13. ASSUME NEW f \in Frames, TakesMake(e, f)
       PROVE  /\ Data(tx[p].todo) + Data(wire'[p]) = 0 /\ e = "b"
              /\ Open(slave[p]) => /\ Out(p) + Data(wire'[p]) = 0
                                   /\ Out(e)' + Data(wire'[e]) + In(p) + Grants(wire'[p]) = slave[p].cap
  <2>1. e = "b" /\ p = "a" /\ Takes(e, f) /\ f.type = "MAKE" /\ slave["b"].is = "none"
    BY <1>2, <1>13 DEF TakesMake, Peer
  <2>2. /\ slave["a"].credit = 0 /\ ~Has(slave["a"].sendQ, "DATA") /\ ~Has(tx["a"].todo, "DATA")
        /\ ~Has(wire["a"], "DATA") /\ \A w \in Writers : EndOf[w] = "a" => writer[w].at \in {"idle", "credit"}
    BY <2>1 DEF Inv, NothingBeforeMade
  <2>3. /\ slave["a"].sendQ \in Seq(Frames) /\ tx["a"].todo \in Seq(Frames) /\ wire["a"] \in Seq(Frames)
        /\ cmd["a"] \in Seq(Frames)
    BY <1>0, QueueTypes
  <2>4. Data(slave["a"].sendQ) = 0 /\ Data(tx["a"].todo) = 0 /\ Data(wire["a"]) = 0
    BY <2>2, <2>3, SumsZero
  <2>5. /\ Data(wire["a"]) = DataOf(f) + Data(wire'["a"]) /\ Grants(wire["a"]) = GrantOf(f) + Grants(wire'["a"])
        /\ DataOf(f) = 0 /\ GrantOf(f) = f.arg /\ f.arg \in Nat
        /\ Data(wire'["a"]) \in Nat /\ Grants(wire'["a"]) \in Nat
    BY <1>0, <2>1, TakeSums, ValuesOfFrames
  <2>6. Data(wire'["a"]) = 0
    BY <2>4, <2>5
  <2>7. Claimed("a") = 0
    BY <1>0, <1>5, <2>2
  <2>8. Out("a") = 0
    BY <2>2, <2>4, <2>7 DEF Out
  <2>9. ASSUME Open(slave["a"])
        PROVE  Out(e)' + Data(wire'[e]) + In("a") + Grants(wire'["a"]) = slave["a"].cap
    <3>1. Grants(cmd["a"]) + Grants(tx["a"].todo) + Grants(wire["a"]) = slave["a"].cap
      BY <2>1, <2>9 DEF CreditInv, CreditBeforeMake
    <3>2. slave["a"].recvQ = <<>> /\ slave["a"].pending = 0
      BY <2>1, <2>9 DEF Inv, NothingBeforeMake
    <3>3. Grants(cmd["a"]) \in Nat /\ Grants(tx["a"].todo) \in Nat
      BY <2>3, SumsAre
    <3>4. In("a") = Grants(cmd["a"]) + Grants(tx["a"].todo)
      BY <3>2, <3>3, SumsOfNone DEF In
    <3>5. slave'[e].credit = f.arg
      BY <1>13 DEF TakesMake, Core
    <3> QED
      BY <1>9, <1>11, <2>5, <3>1, <3>3, <3>4, <3>5
  <2> QED
    BY <2>1, <2>4, <2>6, <2>8, <2>9
<1>14. CASE \E f \in Frames : TakesMake(e, f)
  BY <1>10, <1>13, <1>14
<1> QED
  BY <1>1, <1>12, <1>14

\* No step of e breaks the books, unless it shrinks the capacity.
LEMMA CreditNext ==
    ASSUME Inv, Inv', CreditInv, NEW e \in Ends, StepOf(e), slave'[e].cap >= slave[e].cap
    PROVE  CreditInv'
<1> DEFINE p == Peer(e)
<1>0. p \in Ends /\ p # e /\ Ends = {e, p} /\ Peer(p) = e /\ TypeOK /\ TypeOK'
  BY EndFacts DEF Inv
<1>1. Rests(p)
  BY DEF StepOf
<1>2. FinitelyBlocked /\ FinitelyBlocked'
  <2>1. ASSUME NEW x \in Ends PROVE IsFiniteSet(BytesOf(Blocked(x)'))
    <3>1. IsFiniteSet(BytesOf(Blocked(x)))
      BY DEF CreditInv, FinitelyBlocked
    <3>2. CASE x = e
      BY <1>0, <3>1, <3>2, FiniteKept
    <3>3. CASE x = p
      <4>1. Blocked(x)' = Blocked(x)
        BY <1>0, <1>1, <3>3, BlockedKept
      <4> QED
        BY <3>1, <4>1
    <3> QED
      BY <1>0, <3>2, <3>3
  <2> QED
    BY <2>1 DEF CreditInv, FinitelyBlocked, BytesOf
<1>3. BooksTyped /\ BooksTyped'
  BY <1>2, BooksAreTyped, PTL
<1>4. /\ Out(e) \in Nat /\ In(e) \in Nat /\ Data(wire[e]) \in Nat /\ Grants(wire[e]) \in Nat
      /\ Out(p) \in Nat /\ In(p) \in Nat /\ Data(wire[p]) \in Nat /\ Grants(wire[p]) \in Nat
      /\ Data(tx[e].todo) \in Nat /\ Data(tx[p].todo) \in Nat /\ slave[e].cap \in Nat /\ slave[p].cap \in Nat
  BY <1>0, <1>3 DEF BooksTyped
<1>5. /\ Out(e)' \in Nat /\ In(e)' \in Nat /\ Data(wire'[e]) \in Nat /\ Grants(wire'[e]) \in Nat
      /\ Data(wire'[p]) \in Nat /\ Grants(wire'[p]) \in Nat /\ Data(tx'[e].todo) \in Nat /\ slave'[e].cap \in Nat
  <2>1. Out(e)' \in Nat /\ In(e)' \in Nat
    BY <1>3 DEF BooksTyped
  <2>2. /\ wire'[e] \in Seq(Frames) /\ wire'[p] \in Seq(Frames)
        /\ tx'[e] \in [todo : Seq(Frames), all : Seq(Frames)] /\ slave'[e] \in SlaveType
    BY <1>0 DEF TypeOK
  <2>3. tx'[e].todo \in Seq(Frames) /\ slave'[e].cap \in Nat
    BY <2>2 DEF SlaveType
  <2> QED
    BY <2>1, <2>2, <2>3, SumsAre
<1>6. /\ slave'[p] = slave[p] /\ tx'[p] = tx[p] /\ cmd'[p] = cmd[p]
      /\ Out(p)' = Out(p) /\ In(p)' = In(p) /\ Data(tx'[p].todo) = Data(tx[p].todo)
  <2>1. Blocked(p)' = Blocked(p)
    BY <1>0, <1>1, BlockedKept
  <2>2. slave'[p] = slave[p] /\ tx'[p] = tx[p] /\ cmd'[p] = cmd[p]
    BY <1>1 DEF Rests
  <2>3. Out(p)' = slave'[p].credit + Cardinality(BytesOf(Blocked(p)')) + Data(slave'[p].sendQ) + Data(tx'[p].todo)
    BY DEF Out, Claimed, Data, Bytes, BytesOf
  <2>4. In(p)' = Size(slave'[p].recvQ) + slave'[p].pending + Grants(cmd'[p]) + Grants(tx'[p].todo)
    BY DEF In, Size, Grants, Bytes
  <2> HIDE DEF p
  <2>5. Out(p)' = Out(p)
    BY <2>1, <2>2, <2>3 DEF Out, Claimed
  <2>6. In(p)' = In(p)
    BY <2>2, <2>4 DEF In
  <2> QED
    BY <2>2, <2>5, <2>6
<1>7. ASSUME Open(slave[e]), Open(slave'[e]) PROVE Balanced(e)
  <2>1. IsFiniteSet(BytesOf(Blocked(e)))
    BY <1>2 DEF FinitelyBlocked
  <2>2. CASE ApplicationStep(e)
    BY <1>0, <1>7, <2>1, <2>2, BalancedApplication
  <2>3. CASE MasterStep(e)
    BY <1>0, <1>7, <2>1, <2>3, BalancedMaster
  <2> QED
    BY <2>2, <2>3 DEF StepOf
<1>8. ASSUME Open(slave[e]), Open(slave'[e])
      PROVE  /\ Out(e)' + Data(wire'[e]) + Grants(wire'[p]) = Out(e) + Data(wire[e]) + Grants(wire[p])
             /\ In(e)' + Grants(wire'[e]) + Data(wire'[p]) + slave[e].cap
                  = In(e) + Grants(wire[e]) + Data(wire[p]) + slave'[e].cap
  BY <1>7, <1>8 DEF Balanced
<1>9. ASSUME ~Open(slave[e]), Open(slave'[e])
      PROVE  /\ In(e)' + Grants(wire'[e]) = slave'[e].cap
             /\ Data(tx[p].todo) + Data(wire'[p]) = 0
             /\ Open(slave[p]) => /\ e = "b" /\ Out(p) + Data(wire'[p]) = 0
                                  /\ Out(e)' + Data(wire'[e]) + In(p) + Grants(wire'[p]) = slave[p].cap
             /\ e = "a" => /\ slave["b"].is = "none"
                           /\ Grants(cmd'["a"]) + Grants(tx'["a"].todo) + Grants(wire'["a"]) = slave'["a"].cap
  BY <1>0, <1>9, CreditOfMake
<1>10. /\ Open(slave[e]) /\ Open(slave[p]) =>
             /\ Out(e) + Data(wire[e]) + In(p) + Grants(wire[p]) = slave[p].cap
             /\ Out(p) + Data(wire[p]) + In(e) + Grants(wire[e]) = slave[e].cap
       /\ Open(slave[p]) => Data(tx[e].todo) + Data(wire[e]) + In(p) + Grants(wire[p]) <= slave[p].cap
       /\ Open(slave[e]) => Data(tx[p].todo) + Data(wire[p]) + In(e) + Grants(wire[e]) <= slave[e].cap
  BY <1>0 DEF CreditInv, Conserved, RoomForAll
<1> HIDE DEF p
<1>11. ASSUME Open(slave'[e]), Open(slave'[p])
       PROVE  /\ Out(e)' + Data(wire'[e]) + In(p) + Grants(wire'[p]) = slave[p].cap
              /\ Out(p) + Data(wire'[p]) + In(e)' + Grants(wire'[e]) = slave'[e].cap
  <2>1. Open(slave[p])
    BY <1>6, <1>11
  <2>2. CASE Open(slave[e])
    <3>1. /\ Out(e)' + Data(wire'[e]) + Grants(wire'[p]) = Out(e) + Data(wire[e]) + Grants(wire[p])
          /\ In(e)' + Grants(wire'[e]) + Data(wire'[p]) + slave[e].cap
               = In(e) + Grants(wire[e]) + Data(wire[p]) + slave'[e].cap
      BY <1>8, <1>11, <2>2
    <3>2. /\ Out(e) + Data(wire[e]) + In(p) + Grants(wire[p]) = slave[p].cap
          /\ Out(p) + Data(wire[p]) + In(e) + Grants(wire[e]) = slave[e].cap
      BY <1>10, <2>1, <2>2
    <3>3. Out(e)' + Data(wire'[e]) + In(p) + Grants(wire'[p]) = slave[p].cap
      BY <1>4, <1>5, <3>1, <3>2
    <3>4. Out(p) + Data(wire'[p]) + In(e)' + Grants(wire'[e]) = slave'[e].cap
      <4> DEFINE i == In(e)
                 g == Grants(wire[e])
                 d == Data(wire[p])
                 c == slave[e].cap
                 o == Out(p)
                 i2 == In(e)'
                 g2 == Grants(wire'[e])
                 d2 == Data(wire'[p])
                 c2 == slave'[e].cap
      <4>1. i \in Nat /\ g \in Nat /\ d \in Nat /\ c \in Nat /\ o \in Nat
        BY <1>4
      <4>2. i2 \in Nat /\ g2 \in Nat /\ d2 \in Nat /\ c2 \in Nat
        BY <1>5
      <4>3. i2 + g2 + d2 + c = i + g + d + c2
        BY <3>1
      <4>4. o + d + i + g = c
        BY <3>2
      <4> HIDE DEF i, g, d, c, o, i2, g2, d2, c2
      <4>5. o + d2 + i2 + g2 = c2
        BY <4>1, <4>2, <4>3, <4>4
      <4> QED
        BY <4>5 DEF i2, g2, d2, c2, o
    <3> QED
      BY <3>3, <3>4
  <2>3. CASE ~Open(slave[e])
    BY <1>4, <1>5, <1>9, <1>11, <2>1, <2>3
  <2> QED
    BY <2>2, <2>3
<1>12. Conserved'
  <2>1. ASSUME NEW x \in Ends, Open(slave'[x]), Open(slave'[Peer(x)])
        PROVE  Out(x)' + Data(wire'[x]) + In(Peer(x))' + Grants(wire'[Peer(x)]) = slave'[Peer(x)].cap
    <3>1. CASE x = e
      BY <1>6, <1>11, <2>1, <3>1 DEF p
    <3>2. CASE x = p
      BY <1>0, <1>6, <1>11, <2>1, <3>2
    <3> QED
      BY <1>0, <3>1, <3>2
  <2> QED
    BY <2>1 DEF Conserved, Data, Grants, Bytes
<1>13. ASSUME Open(slave'[p]) PROVE Data(tx'[e].todo) + Data(wire'[e]) + In(p) + Grants(wire'[p]) <= slave[p].cap
  <2>1. Open(slave[p])
    BY <1>6, <1>13
  <2>2. /\ Data(tx'[e].todo) + Data(wire'[e]) <= Data(slave[e].sendQ) + Data(tx[e].todo) + Data(wire[e])
        /\ ~Open(slave[e]) => Data(tx'[e].todo) + Data(wire'[e]) <= Data(tx[e].todo) + Data(wire[e])
        /\ Grants(wire'[p]) <= Grants(wire[p])
    BY SendsNoMore DEF p
  <2>3. CASE Open(slave[e])
    <3>1. Data(slave[e].sendQ) + Data(tx[e].todo) <= Out(e) /\ Data(slave[e].sendQ) \in Nat
      <4>1. /\ Claimed(e) \in Nat /\ Data(slave[e].sendQ) \in Nat /\ Data(tx[e].todo) \in Nat /\ slave[e].credit \in Nat
        BY <1>2, OutInTypes DEF FinitelyBlocked
      <4> QED
        BY <4>1 DEF Out
    <3> QED
      BY <1>4, <1>5, <1>10, <2>1, <2>2, <2>3, <3>1
  <2>4. CASE ~Open(slave[e])
    BY <1>4, <1>5, <1>10, <2>1, <2>2, <2>4
  <2> QED
    BY <2>3, <2>4
<1>14. ASSUME Open(slave'[e]) PROVE Data(tx[p].todo) + Data(wire'[p]) + In(e)' + Grants(wire'[e]) <= slave'[e].cap
  <2>1. CASE Open(slave[e])
    BY <1>4, <1>5, <1>8, <1>10, <1>14, <2>1
  <2>2. CASE ~Open(slave[e])
    BY <1>4, <1>5, <1>9, <1>14, <2>2
  <2> QED
    BY <2>1, <2>2
<1>15. RoomForAll'
  <2>1. ASSUME NEW x \in Ends, Open(slave'[Peer(x)])
        PROVE  Data(tx'[x].todo) + Data(wire'[x]) + In(Peer(x))' + Grants(wire'[Peer(x)]) <= slave'[Peer(x)].cap
    <3>1. CASE x = e
      BY <1>6, <1>13, <2>1, <3>1 DEF p
    <3>2. CASE x = p
      BY <1>0, <1>6, <1>14, <2>1, <3>2
    <3> QED
      BY <1>0, <3>1, <3>2
  <2> QED
    BY <2>1 DEF RoomForAll, Data, Grants, Bytes
<1>16. CreditBeforeMake'
  <2> SUFFICES ASSUME slave'["b"].is = "none", Open(slave'["a"])
               PROVE  Grants(cmd'["a"]) + Grants(tx'["a"].todo) + Grants(wire'["a"]) = slave'["a"].cap
    BY DEF CreditBeforeMake, Grants, Bytes
  <2>1. "a" \in Ends /\ "b" \in Ends /\ Peer("a") = "b" /\ Peer("b") = "a" /\ (e = "a" \/ e = "b")
    BY DEF Ends, Peer
  <2>2. slave["b"].is = "none"
    <3>1. CASE e = "a"
      BY <1>6, <2>1, <3>1 DEF p
    <3>2. CASE e = "b"
      BY <3>2 DEF StepOf, Rests
    <3> QED
      BY <2>1, <3>1, <3>2
  <2>3. wire["b"] = <<>>
    BY <2>1, <2>2 DEF Inv, SilentBefore
  <2>4. CASE e = "a" /\ ~Open(slave["a"])
    BY <1>9, <2>4
  <2>5. CASE Open(slave["a"]) /\ e = "a"
    <3>1. Grants(cmd["a"]) + Grants(tx["a"].todo) + Grants(wire["a"]) = slave["a"].cap
      BY <2>2, <2>5 DEF CreditInv, CreditBeforeMake
    <3>2. slave["a"].recvQ = <<>> /\ slave["a"].pending = 0
      BY <2>2, <2>5 DEF Inv, NothingBeforeMake
    <3>3. slave'["a"].recvQ = <<>> /\ slave'["a"].pending = 0
      BY DEF Inv, NothingBeforeMake
    <3>4. wire'["b"] = <<>>
      <4>1. SilentBefore'
        BY DEF Inv
      <4> QED
        BY <2>1, <4>1 DEF SilentBefore
    <3>5. /\ Grants(cmd["a"]) \in Nat /\ Grants(tx["a"].todo) \in Nat
          /\ Grants(cmd'["a"]) \in Nat /\ Grants(tx'["a"].todo) \in Nat
      BY <1>3, <2>1 DEF BooksTyped, Grants, Bytes
    <3>6. In("a") = Grants(cmd["a"]) + Grants(tx["a"].todo)
      BY <3>2, <3>5, SumsOfNone DEF In
    <3>7. In("a")' = Grants(cmd'["a"]) + Grants(tx'["a"].todo)
      <4>1. In("a")' = Size(slave'["a"].recvQ) + slave'["a"].pending + Grants(cmd'["a"]) + Grants(tx'["a"].todo)
        BY DEF In, Size, Grants, Bytes
      <4> QED
        BY <3>3, <3>5, <4>1, SumsOfNone
    <3>8. Data(wire["b"]) = 0 /\ Data(wire'["b"]) = 0
      BY <2>3, <3>4, SumsOfNone
    <3>9. In(e)' + Grants(wire'[e]) + Data(wire'[p]) + slave[e].cap
            = In(e) + Grants(wire[e]) + Data(wire[p]) + slave'[e].cap
      BY <1>8, <2>5
    <3>10. e = "a" /\ p = "b"
      BY <2>1, <2>5 DEF p
    <3> QED
      BY <1>4, <1>5, <3>1, <3>5, <3>6, <3>7, <3>8, <3>9, <3>10
  <2>6. CASE e = "b"
    <3>1. p = "a" /\ slave'["a"] = slave["a"] /\ tx'["a"] = tx["a"] /\ cmd'["a"] = cmd["a"]
      BY <1>6, <2>1, <2>6 DEF p
    <3>2. wire'["a"] = wire["a"]
      <4> SUFFICES ASSUME wire'["a"] # wire["a"] PROVE FALSE
        OBVIOUS
      <4>1. PICK f \in Frames : Reading("b", f)
        BY <2>1, <2>6, WireOfPeer
      <4>2. Comes("a", "MAKE") /\ IsFirst("a", "MAKE")
        BY <2>2, <3>1 DEF Inv, GreetingsFirst
      <4>3. f.type = "MAKE"
        BY <2>1, <2>6, <4>1, <4>2, TakenKept
      <4>4. TakesMake("b", f)
        BY <4>1, <4>3 DEF Reading, TakesData, TakesWindow, TakesReset, TakesMade
      <4> QED
        BY <4>4 DEF TakesMake, Core
    <3>3. Grants(cmd["a"]) + Grants(tx["a"].todo) + Grants(wire["a"]) = slave["a"].cap
      BY <2>2, <3>1 DEF CreditInv, CreditBeforeMake
    <3> QED
      BY <3>1, <3>2, <3>3
  <2> QED
    BY <2>1, <2>4, <2>5, <2>6
<1> QED
  BY <1>2, <1>12, <1>15, <1>16 DEF CreditInv

LEMMA CreditInit == Init => CreditInv
<1> SUFFICES ASSUME Init PROVE CreditInv
  OBVIOUS
<1>1. \A e \in Ends : ~Open(slave[e]) /\ Peer(e) \in Ends
  BY DEF Init, NoSlave, Open, Ends, Peer
<1>2. ASSUME NEW e \in Ends PROVE IsFiniteSet(BytesOf(Blocked(e)))
  <2>1. \A w \in Writers : Blocked(e)[w] = 0
    BY DEF Init, Blocked
  <2>2. \A w \in Writers : 1..Blocked(e)[w] = {}
    BY <2>1
  <2>3. BytesOf(Blocked(e)) = {}
    BY <2>2 DEF BytesOf
  <2> QED
    BY <2>3, FS_EmptySet
<1>3. CreditBeforeMake
  BY <1>1 DEF CreditBeforeMake, Ends
<1> QED
  BY <1>1, <1>2, <1>3 DEF CreditInv, FinitelyBlocked, Conserved, RoomForAll

\* setReceivingCapacity() never makes a capacity smaller.
NeverShrinks == \A e \in Ends : slave'[e].cap >= slave[e].cap

LEMMA InvStutter ==
    ASSUME Inv, UNCHANGED vars
    PROVE  Inv'
<1>1. /\ slave' = slave /\ cmd' = cmd /\ tx' = tx /\ wire' = wire /\ down' = down /\ writer' = writer
      /\ reader' = reader /\ closer' = closer /\ got' = got /\ queued' = queued
  BY DEF vars, calls
<1>2. TypeOK'
  BY <1>1 DEF Inv, TypeOK
<1>3. FramesTell'
  BY <1>1 DEF Inv, FramesTell
<1>4. WritersTell'
  BY <1>1 DEF Inv, WritersTell, Ended
<1>5. SilentBefore'
  BY <1>1 DEF Inv, SilentBefore
<1>6. GreetingsFirst'
  BY <1>1 DEF Inv, GreetingsFirst, IsFirst, Comes, Open
<1>7. NothingBeforeMade'
  BY <1>1 DEF Inv, NothingBeforeMade, Comes
<1>8. NothingBeforeMake'
  BY <1>1 DEF Inv, NothingBeforeMake, Open
<1> QED
  BY <1>2, <1>3, <1>4, <1>5, <1>6, <1>7, <1>8 DEF Inv

LEMMA CreditStep == Inv /\ CreditInv /\ [Next]_vars /\ [NeverShrinks]_vars => Inv' /\ CreditInv'
<1> SUFFICES ASSUME Inv, CreditInv, [Next]_vars, [NeverShrinks]_vars PROVE Inv' /\ CreditInv'
  OBVIOUS
<1>1. CASE UNCHANGED vars
  <2>1. Inv'
    BY <1>1, InvStutter
  <2>2. CreditInv'
    BY <1>1 DEF vars, calls, CreditInv, FinitelyBlocked, CreditBeforeMake, Conserved, RoomForAll, Out, In, Claimed,
                Blocked, Open
  <2> QED
    BY <2>1, <2>2
<1>2. CASE Next /\ ~UNCHANGED vars
  <2>1. Inv' /\ \E e \in Ends : StepOf(e)
    BY <1>2, InvNext
  <2>2. PICK e \in Ends : StepOf(e)
    BY <2>1
  <2>3. slave'[e].cap >= slave[e].cap
    BY <1>2 DEF NeverShrinks
  <2> QED
    BY <2>1, <2>2, <2>3, CreditNext
<1> QED
  BY <1>1, <1>2

\* doReceive() has room for the packet it reads.
LEMMA RoomForNext ==
    ASSUME Inv, CreditInv
    PROVE  ReceiveNeverBlocks
<1> SUFFICES ASSUME NEW e \in Ends, Reads(e, "DATA"), Open(slave[e])
             PROVE  Size(slave[e].recvQ) < slave[e].cap
  BY DEF ReceiveNeverBlocks
<1> DEFINE p == Peer(e)
           f == Head(wire[p])
<1>1. p \in Ends /\ Peer(p) = e /\ wire[p] # <<>> /\ f.type = "DATA"
  BY EndFacts DEF Reads
<1>2. wire[p] \in Seq(Frames) /\ wire[p] \in Seq(Commands(p) \cup Packed(p) \cup {RESET(0)})
  BY <1>1, QueueTypes DEF Inv, FramesTell
<1>3. f \in Commands(p) \cup Packed(p) \cup {RESET(0)} /\ f \in Frames
  BY <1>1, <1>2
<1>4. f.arg # 0
  BY <1>1, <1>3 DEF Commands, Packed, RESET, Command, Frame
<1>5. Data(wire[p]) = f.arg + Data(Tail(wire[p])) /\ f.arg \in Nat /\ Data(Tail(wire[p])) \in Nat
  <2>1. DataOf(f) = f.arg /\ f.arg \in Nat
    BY <1>1, <1>3, ValuesOfFrames
  <2> QED
    BY <1>1, <1>2, <2>1, SumsTail
<1> HIDE DEF f, p
<1>6. Data(tx[p].todo) + Data(wire[p]) + In(e) + Grants(wire[e]) <= slave[e].cap
  BY <1>1 DEF CreditInv, RoomForAll
<1>7. /\ Data(tx[p].todo) \in Nat /\ Data(wire[p]) \in Nat
  BY <1>1, OutInTypes DEF CreditInv, FinitelyBlocked
<1>8. /\ Size(slave[e].recvQ) \in Nat /\ slave[e].pending \in Nat /\ Grants(cmd[e]) \in Nat
      /\ Grants(tx[e].todo) \in Nat /\ Grants(wire[e]) \in Nat /\ slave[e].cap \in Nat
  BY OutInTypes DEF CreditInv, FinitelyBlocked
<1>9. Size(slave[e].recvQ) <= In(e) /\ In(e) \in Nat
  BY <1>8 DEF In
<1> QED
  BY <1>4, <1>5, <1>6, <1>7, <1>8, <1>9

LEMMA CreditInvariant == Spec /\ [][NeverShrinks]_vars => [](Inv /\ CreditInv)
<1>1. Init => Inv /\ CreditInv
  BY InvInit, CreditInit
<1> QED
  BY <1>1, CreditStep, PTL DEF Spec

\* While both slaves are open no byte of credit is lost or made up: sendPacket(), doSend(),
\* doReceive(), recvPacket(), maybeSendWindowUpdate() and setReceivingCapacity() conserve it,
\* in both directions, as long as no capacity is made smaller.
THEOREM CreditIsConserved == Spec /\ [][NeverShrinks]_vars => []CreditConserved
<1>1. Inv /\ CreditInv => CreditConserved
  BY ConservedIs DEF CreditInv
<1> QED
  BY <1>1, CreditInvariant, PTL

\* receivingQueue.put() in doReceive() always has room: one slave that nobody reads does not
\* hold up the connection.
THEOREM ReceivingGoesOn == Spec /\ [][NeverShrinks]_vars => []ReceiveNeverBlocks
<1>1. Inv /\ CreditInv => ReceiveNeverBlocks
  BY RoomForNext
<1> QED
  BY <1>1, CreditInvariant, PTL

--------------------------------------------------------------------------------
(* Closing: every packet in front of the barrier arrives. *)

\* What the operations on queues do to marks.
LEMMA MarkAppend ==
    ASSUME NEW q \in Seq(Frames), NEW f \in Frames
    PROVE  /\ Marked(Append(q, f)) <=> Marked(q) \/ IsMark(f)
           /\ NoDataBehindMark(q) /\ (Marked(q) => f.type # "DATA") => NoDataBehindMark(Append(q, f))
<1> DEFINE r == Append(q, f)
<1>1. /\ DOMAIN r = 1..(Len(q) + 1) /\ DOMAIN q = 1..Len(q) /\ Len(q) \in Nat
      /\ \A i \in 1..Len(q) : r[i] = q[i]
      /\ r[Len(q) + 1] = f
  OBVIOUS
<1> HIDE DEF r
<1>2. \A i \in 1..(Len(q) + 1) : i \in 1..Len(q) \/ i = Len(q) + 1
  BY <1>1
<1>3. Marked(r) <=> Marked(q) \/ IsMark(f)
  BY <1>1, <1>2 DEF Marked
<1>4. ASSUME NoDataBehindMark(q), Marked(q) => f.type # "DATA",
             NEW i \in DOMAIN r, NEW j \in DOMAIN r, i < j, IsMark(r[i])
      PROVE  r[j].type # "DATA"
  <2>1. i \in DOMAIN q /\ r[i] = q[i]
    BY <1>1, <1>4
  <2>2. CASE j \in DOMAIN q
    BY <1>1, <1>4, <2>1, <2>2 DEF NoDataBehindMark
  <2>3. CASE j = Len(q) + 1
    BY <1>1, <1>4, <2>1, <2>3 DEF Marked
  <2> QED
    BY <1>1, <1>2, <2>2, <2>3
<1> QED
  BY <1>3, <1>4 DEF NoDataBehindMark, r

LEMMA MarkTail ==
    ASSUME NEW q \in Seq(Frames), q # <<>>
    PROVE  /\ Marked(q) <=> IsMark(Head(q)) \/ Marked(Tail(q))
           /\ NoDataBehindMark(q) => /\ NoDataBehindMark(Tail(q))
                                     /\ IsMark(Head(q)) => ~Has(Tail(q), "DATA")
<1> DEFINE r == Tail(q)
<1>1. /\ DOMAIN r = 1..(Len(q) - 1) /\ DOMAIN q = 1..Len(q) /\ Len(q) \in Nat
      /\ \A i \in 1..(Len(q) - 1) : r[i] = q[i + 1]
      /\ Head(q) = q[1] /\ Len(q) # 0
  OBVIOUS
<1> HIDE DEF r
<1>2. \A i \in DOMAIN r : i + 1 \in DOMAIN q /\ r[i] = q[i + 1] /\ i \in Nat /\ 1 < i + 1
  BY <1>1
<1>3. \A i \in DOMAIN q : i = 1 \/ (i - 1 \in DOMAIN r /\ r[i - 1] = q[i])
  <2> SUFFICES ASSUME NEW i \in DOMAIN q, i # 1 PROVE i - 1 \in DOMAIN r /\ r[i - 1] = q[i]
    OBVIOUS
  <2>1. i - 1 \in 1..(Len(q) - 1) /\ (i - 1) + 1 = i
    BY <1>1
  <2> QED
    BY <1>1, <2>1
<1>4. 1 \in DOMAIN q
  BY <1>1
<1>5. Marked(q) <=> IsMark(Head(q)) \/ Marked(r)
  BY <1>1, <1>2, <1>3, <1>4 DEF Marked
<1>6. ASSUME NoDataBehindMark(q) PROVE NoDataBehindMark(r)
  <2> SUFFICES ASSUME NEW i \in DOMAIN r, NEW j \in DOMAIN r, i < j, IsMark(r[i]) PROVE r[j].type # "DATA"
    BY DEF NoDataBehindMark
  <2>1. i + 1 < j + 1
    BY <1>2
  <2> QED
    BY <1>2, <1>6, <2>1 DEF NoDataBehindMark
<1>7. ASSUME NoDataBehindMark(q), IsMark(Head(q)) PROVE ~Has(r, "DATA")
  BY <1>1, <1>2, <1>4, <1>7 DEF NoDataBehindMark, Has
<1> QED
  BY <1>5, <1>6, <1>7 DEF r

LEMMA EmptyIsComplete == ~Marked(<<>>) /\ NoDataBehindMark(<<>>) /\ ~Has(<<>>, "DATA") /\ ~Has(<<>>, "BARRIER")
  BY DEF Marked, NoDataBehindMark, Has

LEMMA SplitFrames ==
    ASSUME NEW h \in Seq(Frames), NEW n \in 0..Len(h)
    PROVE  \E u, m \in Seq(Frames) :
              /\ h = u \o m /\ Len(u) = n /\ Len(m) = Len(h) - n
              /\ \A i \in 1..n : u[i] = h[i]
              /\ \A i \in 1..(Len(h) - n) : m[i] = h[n + i]
<1> DEFINE u == SubSeq(h, 1, n)
           m == SubSeq(h, n + 1, Len(h))
<1>1. u \in Seq(Frames) /\ m \in Seq(Frames) /\ h = u \o m
  BY SplitAt
<1>2. Len(u) = n /\ \A i \in 1..n : u[i] = h[i]
  BY SplitAt
<1>3. Len(m) = Len(h) - n
  BY SplitAt
<1>4. \A i \in 1..(Len(h) - n) : m[i] = h[n + i]
  BY SplitAt
<1> HIDE DEF u, m
<1> QED
  BY <1>1, <1>2, <1>3, <1>4, Zenon

\* Two ways to cut a queue.
Cuts(x, y, h, r) == x \o y = h \o r /\ Len(x) <= Len(h)
Overlaps(x, y, h, r) == \E m \in Seq(Frames) : h = x \o m /\ y = m \o r
LEMMA CutAt ==
    ASSUME NEW x \in Seq(Frames), NEW y \in Seq(Frames), NEW h \in Seq(Frames), NEW r \in Seq(Frames),
           Cuts(x, y, h, r)
    PROVE  Overlaps(x, y, h, r)
<1> DEFINE n == Len(x)
<1>0. x \o y = h \o r /\ Len(x) <= Len(h)
  BY DEF Cuts
<1>1. n \in 0..Len(h)
  BY <1>0
<1> HIDE DEF n
<1>2. PICK u \in Seq(Frames), m \in Seq(Frames) :
              /\ h = u \o m /\ Len(u) = n /\ Len(m) = Len(h) - n
              /\ \A i \in 1..n : u[i] = h[i]
              /\ \A i \in 1..(Len(h) - n) : m[i] = h[n + i]
  BY <1>1, SplitFrames, Zenon
<1>3. /\ Len(x \o y) = n + Len(y) /\ Len(h \o r) = Len(h) + Len(r)
      /\ \A i \in 1..(n + Len(y)) : (x \o y)[i] = IF i <= n THEN x[i] ELSE y[i - n]
      /\ \A i \in 1..(Len(h) + Len(r)) : (h \o r)[i] = IF i <= Len(h) THEN h[i] ELSE r[i - Len(h)]
      /\ n \in Nat /\ Len(y) \in Nat /\ Len(h) \in Nat /\ Len(r) \in Nat
  BY ConcatProperties, LenProperties DEF n
<1>4. /\ m \o r \in Seq(Frames) /\ Len(m \o r) = Len(m) + Len(r)
      /\ \A i \in 1..(Len(m) + Len(r)) : (m \o r)[i] = IF i <= Len(m) THEN m[i] ELSE r[i - Len(m)]
  BY ConcatProperties, LenProperties
<1> DEFINE z == x \o y
           v == m \o r
<1>5. z = h \o r
  BY <1>0
<1> HIDE DEF z, v
<1>6. /\ n + Len(y) = Len(h) + Len(r)
      /\ \A i \in 1..(n + Len(y)) : z[i] = IF i <= n THEN x[i] ELSE y[i - n]
      /\ \A i \in 1..(n + Len(y)) : z[i] = IF i <= Len(h) THEN h[i] ELSE r[i - Len(h)]
  BY <1>3, <1>5 DEF z
<1>7. u = x
  <2>1. \A i \in 1..n : u[i] = x[i]
    <3> SUFFICES ASSUME NEW i \in 1..n PROVE u[i] = x[i]
      OBVIOUS
    <3>1. i \in 1..(n + Len(y)) /\ i <= n /\ i <= Len(h)
      <4>1. n \in Nat /\ n <= Len(h) /\ Len(h) \in Nat /\ Len(y) \in Nat
        BY <1>1, <1>3
      <4> QED
        BY <4>1
    <3> QED
      BY <1>2, <1>6, <3>1
  <2>2. Len(u) = Len(x) /\ \A i \in 1..Len(u) : u[i] = x[i]
    BY <1>2, <2>1 DEF n
  <2> QED
    BY <1>2, <2>2, SeqEqual
<1>8. y = v
  <2>1. v \in Seq(Frames) /\ Len(v) = Len(y)
    BY <1>2, <1>3, <1>4, <1>6 DEF v
  <2>2. \A i \in 1..Len(y) : y[i] = v[i]
    <3> SUFFICES ASSUME NEW i \in 1..Len(y) PROVE y[i] = v[i]
      OBVIOUS
    <3>1. /\ n + i \in 1..(n + Len(y)) /\ ~(n + i <= n) /\ (n + i) - n = i
          /\ i \in 1..(Len(m) + Len(r))
      BY <1>2, <1>3, <1>6
    <3>2. z[n + i] = y[i] /\ z[n + i] = (IF n + i <= Len(h) THEN h[n + i] ELSE r[(n + i) - Len(h)])
      BY <1>6, <3>1
    <3>3. v[i] = IF i <= Len(m) THEN m[i] ELSE r[i - Len(m)]
      BY <1>4, <3>1 DEF v
    <3>4. CASE i <= Len(m)
      <4>1. n + i <= Len(h) /\ i \in 1..(Len(h) - n)
        BY <1>2, <1>3, <3>4
      <4> QED
        BY <1>2, <3>2, <3>3, <3>4, <4>1
    <3>5. CASE ~(i <= Len(m))
      <4>1. ~(n + i <= Len(h)) /\ (n + i) - Len(h) = i - Len(m)
        BY <1>1, <1>2, <1>3, <3>5
      <4> QED
        BY <3>2, <3>3, <3>5, <4>1
    <3> QED
      BY <3>4, <3>5
  <2> QED
    BY <2>1, <2>2, SeqEqual
<1> QED
  BY <1>2, <1>7, <1>8 DEF v, Overlaps


\* What the steps of the two ends do to a direction.
LEMMA CompleteTake ==
    ASSUME NEW is, NEW a \in Seq(Names), NEW w \in Seq(Frames), NEW t \in Seq(Frames), NEW s, NEW k,
           Complete(is, a, w, t, s, k), w # <<>>
    PROVE  /\ Complete(is, a \o NameOf(Head(w)), Tail(w), t, s, k)
           /\ IsMark(Head(w)) => is # "open" /\ a = k
<1> DEFINE N == NameOf(Head(w))
           R == Packets(Tail(w))
           W == Packets(w)
           T == Packets(t)
<1>1. N \in Seq(Names) /\ R \in Seq(Names) /\ T \in Seq(Names) /\ W = N \o R /\ Tail(w) \in Seq(Frames)
  <2>1. N \in Seq(Names) /\ R \in Seq(Names) /\ W = N \o R
    BY PacketsTail
  <2>2. T \in Seq(Names)
    BY PacketsConcat
  <2> QED
    BY <2>1, <2>2
<1>2. /\ Marked(w) <=> IsMark(Head(w)) \/ Marked(Tail(w))
      /\ NoDataBehindMark(w) => /\ NoDataBehindMark(Tail(w))
                                /\ IsMark(Head(w)) => ~Has(Tail(w), "DATA")
  BY MarkTail
<1>3. IsMark(Head(w)) => N = <<>>
  BY DEF IsMark, NameOf
<1>4. ~Has(Tail(w), "DATA") => R = <<>>
  BY <1>1, PacketsZero
<1>5. ~Has(t, "DATA") => T = <<>>
  BY PacketsZero
<1> DEFINE P == Tail(w)
           b == a \o N
<1> HIDE DEF N, R, W, T
<1>6. (a \o N) \o R = a \o W
  BY <1>1, Regroup
<1>7. Complete(is, b, P, t, s, k)
  <2>1. b \o R = a \o W
    BY <1>6
  <2>2. Packets(P) = R /\ Packets(w) = W /\ Packets(t) = T
    BY DEF R, W, T
  <2> HIDE DEF b, P
  <2>3. b \o Packets(P) \o Packets(t) = a \o Packets(w) \o Packets(t)
    BY <2>1, <2>2, Zenon
  <2>4. (Marked(P) => Marked(w)) /\ NoDataBehindMark(P)
    BY <1>2 DEF P, Complete
  <2> QED
    BY <2>3, <2>4, Zenon DEF Complete
<1>8. ASSUME IsMark(Head(w)) PROVE is # "open" /\ a = k
  <2>1. R = <<>> /\ N = <<>> /\ T = <<>>
    BY <1>2, <1>3, <1>4, <1>5, <1>8 DEF Complete
  <2>2. is # "open" /\ a \o W \o T = k
    BY <1>2, <1>8 DEF Complete, W, T
  <2>3. W = <<>>
    BY <1>1, <2>1
  <2> QED
    BY <2>1, <2>2, <2>3
<1> QED
  BY <1>7, <1>8 DEF N

LEMMA AppendToParts ==
    ASSUME NEW h \in Seq(Frames), NEW r \in Seq(Frames), NEW f \in Frames
    PROVE  /\ Append(h \o r, f) = h \o Append(r, f) /\ Append(r, f) \in Seq(Frames)
           /\ r # <<>> => Head(Append(r, f)) = Head(r)
<1> DEFINE one == <<f>>
           hr == h \o r
<1>1. one \in Seq(Frames) /\ Append(r, f) = r \o one /\ Append(r, f) \in Seq(Frames) /\ hr \in Seq(Frames)
  OBVIOUS
<1>2. r # <<>> => Head(Append(r, f)) = Head(r)
  BY HeadTailAppend
<1>3. Append(hr, f) = hr \o one
  BY <1>1, AppendIsConcat
<1> HIDE DEF one
<1>4. (h \o r) \o one = h \o (r \o one)
  BY <1>1, ConcatAssociative
<1> QED
  BY <1>1, <1>2, <1>3, <1>4

LEMMA CompleteQueue ==
    ASSUME NEW is, NEW a \in Seq(Names), NEW w \in Seq(Frames), NEW t \in Seq(Frames),
           NEW s \in Seq(Frames), NEW k \in Seq(Names), NEW f \in Frames,
           Complete(is, a, w, t, s, k)
    PROVE  Complete(is, a, w, t, Append(s, f),
                    IF is = "open" /\ ~Has(s, "BARRIER") /\ f.type = "DATA" THEN Append(k, f.n) ELSE k)
<1> DEFINE S == (a \o Packets(w)) \o Packets(t)
           new == IF is = "open" /\ ~Has(s, "BARRIER") /\ f.type = "DATA" THEN Append(k, f.n) ELSE k
           sf == Append(s, f)
<1>1. S \in Seq(Names)
  <2>1. Packets(w) \in Seq(Names) /\ Packets(t) \in Seq(Names)
    BY PacketsConcat
  <2> QED
    BY <2>1
<1>2. CASE is # "open"
  BY <1>2 DEF Complete
<1>3. CASE is = "open"
  <2>1. PICK h \in Seq(Frames), r \in Seq(Frames) : Ahead(s, h, r) /\ S \o Packets(h) = k
    BY <1>3 DEF Complete
  <2>2. s = h \o r /\ ~Has(h, "BARRIER") /\ (r # <<>> => Head(r).type = "BARRIER")
    BY <2>1 DEF Ahead
  <2>3. Packets(h) \in Seq(Names) /\ Packets(Append(h, f)) = Packets(h) \o NameOf(f)
    BY PacketsAppend
  <2>4. \E g, q \in Seq(Frames) : Ahead(sf, g, q) /\ S \o Packets(g) = new
    <3>1. CASE r # <<>>
      <4>1. Has(r, "BARRIER")
        BY <2>2, <3>1, HasTail
      <4>2. Has(s, "BARRIER")
        BY <2>2, <4>1, HasConcat
      <4>3. sf = h \o Append(r, f) /\ Append(r, f) \in Seq(Frames) /\ Head(Append(r, f)) = Head(r)
        BY <2>2, <3>1, AppendToParts
      <4>4. Ahead(sf, h, Append(r, f))
        BY <2>2, <3>1, <4>3 DEF Ahead
      <4> QED
        BY <2>1, <4>2, <4>3, <4>4
    <3>2. CASE r = <<>> /\ f.type = "BARRIER"
      <4>1. s = h /\ sf = h \o <<f>> /\ <<f>> \in Seq(Frames) /\ Head(<<f>>) = f
        BY <2>2, <3>2
      <4>2. Ahead(sf, h, <<f>>)
        BY <2>2, <3>2, <4>1 DEF Ahead
      <4> QED
        BY <2>1, <3>2, <4>1, <4>2
    <3>3. CASE r = <<>> /\ f.type # "BARRIER"
      <4>1. s = h /\ Append(h, f) \in Seq(Frames) /\ sf = Append(h, f) \o <<>> /\ <<>> \in Seq(Frames)
        BY <2>2, <3>3
      <4>2. ~Has(Append(h, f), "BARRIER")
        BY <2>2, <3>3, HasAppend
      <4>3. Ahead(sf, Append(h, f), <<>>)
        BY <4>1, <4>2 DEF Ahead
      <4>4. S \o Packets(Append(h, f)) = k \o NameOf(f)
        <5>1. NameOf(f) \in Seq(Names)
          BY NameIsSeq
        <5> HIDE DEF S
        <5>2. (S \o Packets(h)) \o NameOf(f) = S \o (Packets(h) \o NameOf(f))
          BY <1>1, <2>3, <5>1, Regroup
        <5> QED
          BY <2>1, <2>3, <5>2
      <4>5. k \o NameOf(f) = new
        <5>1. ~Has(s, "BARRIER")
          BY <2>2, <4>1
        <5>2. CASE f.type = "DATA"
          BY <1>3, <5>1, <5>2 DEF NameOf
        <5>3. CASE f.type # "DATA"
          BY <5>3 DEF NameOf
        <5> QED
          BY <5>2, <5>3
      <4> HIDE DEF S, new, sf
      <4> QED
        BY <4>1, <4>3, <4>4, <4>5
    <3> QED
      BY <3>1, <3>2, <3>3
  <2>5. ~Marked(w) /\ ~Marked(t) /\ NoDataBehindMark(w) /\ NoDataBehindMark(t)
    BY <1>3 DEF Complete
  <2> HIDE DEF new, sf
  <2>6. Complete(is, a, w, t, sf, new)
    BY <1>3, <2>4, <2>5, Zenon DEF Complete
  <2> QED
    BY <2>6 DEF new, sf
<1> QED
  BY <1>2, <1>3

LEMMA CompleteEnds ==
    ASSUME NEW is, NEW js, NEW a \in Seq(Names), NEW w \in Seq(Frames), NEW t \in Seq(Frames), NEW s, NEW q, NEW k,
           Complete(is, a, w, t, s, k), js # "open"
    PROVE  Complete(js, a, w, t, q, k) /\ Complete(js, a, w, <<>>, q, k)
<1>1. Complete(js, a, w, t, q, k)
  BY DEF Complete
<1>2. ~Marked(<<>>) /\ NoDataBehindMark(<<>>) /\ ~Has(<<>>, "DATA")
  BY EmptyIsComplete
<1>3. Packets(<<>>) = <<>> /\ (~Has(t, "DATA") => Packets(t) = <<>>)
  <2>1. <<>> \in Seq(Frames)
    OBVIOUS
  <2> QED
    BY <1>2, <2>1, PacketsZero
<1>4. Marked(w) => a \o Packets(w) \o Packets(<<>>) = k
  BY <1>3 DEF Complete
<1>5. NoDataBehindMark(w)
  BY DEF Complete
<1> QED
  BY <1>1, <1>2, <1>4, <1>5 DEF Complete

LEMMA CompleteWrite ==
    ASSUME NEW is, NEW a \in Seq(Names), NEW w \in Seq(Frames), NEW t \in Seq(Frames), NEW s, NEW k, NEW g \in Frames,
           Complete(is, a, w, t, s, k), t # <<>>,
           g = (IF Head(t).type = "BARRIER" THEN RESET(0) ELSE Head(t))
    PROVE  Complete(is, a, Append(w, g), Tail(t), s, k)
<1> DEFINE f == Head(t)
           N == NameOf(f)
           R == Packets(Tail(t))
           W == Packets(w)
           T == Packets(t)
<1>1. N \in Seq(Names) /\ R \in Seq(Names) /\ T = N \o R
  BY PacketsTail
<1>2. W \in Seq(Names) /\ Packets(Append(w, g)) = W \o NameOf(g)
  BY PacketsAppend
<1>3. NameOf(g) = N /\ (IsMark(g) <=> IsMark(f)) /\ (g.type = "DATA" <=> f.type = "DATA")
  BY DEF NameOf, IsMark, RESET, Command, Frame
<1>4. /\ Marked(t) <=> IsMark(f) \/ Marked(Tail(t))
      /\ NoDataBehindMark(t) => NoDataBehindMark(Tail(t)) /\ (IsMark(f) => ~Has(Tail(t), "DATA"))
  BY MarkTail
<1>5. Has(t, "DATA") <=> f.type = "DATA" \/ Has(Tail(t), "DATA")
  BY HasTail
<1>6. /\ Marked(Append(w, g)) <=> Marked(w) \/ IsMark(g)
      /\ NoDataBehindMark(w) /\ (Marked(w) => g.type # "DATA") => NoDataBehindMark(Append(w, g))
  BY MarkAppend
<1>7. (a \o Packets(Append(w, g))) \o Packets(Tail(t)) = a \o Packets(w) \o Packets(t)
  <2> HIDE DEF N, R, W, T
  <2>1. (a \o (W \o N)) \o R = ((a \o W) \o N) \o R
    BY <1>1, <1>2, Regroup
  <2>2. a \o W \in Seq(Names)
    BY <1>2
  <2>3. ((a \o W) \o N) \o R = (a \o W) \o (N \o R)
    BY <1>1, <2>2, Regroup
  <2>4. Packets(Append(w, g)) = W \o N
    BY <1>2, <1>3
  <2>5. (a \o (W \o N)) \o R = a \o W \o T
    BY <1>1, <2>1, <2>3, Zenon
  <2> QED
    BY <2>4, <2>5, Zenon DEF R, W, T
<1> DEFINE x == Append(w, g)
           y == Tail(t)
<1> HIDE DEF x, y, N, R, W, T, f
<1>8. a \o Packets(x) \o Packets(y) = a \o Packets(w) \o Packets(t)
  BY <1>7 DEF x, y
<1>9. (Marked(x) \/ Marked(y)) => (Marked(w) \/ Marked(t))
  BY <1>3, <1>4, <1>6 DEF x, y
<1>10. NoDataBehindMark(x) /\ NoDataBehindMark(y)
  BY <1>3, <1>4, <1>5, <1>6 DEF x, y, Complete
<1>11. Marked(x) => ~Has(y, "DATA")
  BY <1>3, <1>4, <1>5, <1>6 DEF x, y, Complete
<1>12. Complete(is, a, x, y, s, k)
  BY <1>8, <1>9, <1>10, <1>11, Zenon DEF Complete
<1> QED
  BY <1>12 DEF x, y

LEMMA MarkConcat ==
    ASSUME NEW p \in Seq(Frames), NEW x \in Seq(Frames), ~Marked(p)
    PROVE  /\ Marked(p \o x) <=> Marked(x)
           /\ NoDataBehindMark(x) => NoDataBehindMark(p \o x)
<1> DEFINE z == p \o x
           m == Len(p)
           n == Len(x)
<1>1. /\ DOMAIN z = 1..(m + n) /\ DOMAIN p = 1..m /\ DOMAIN x = 1..n
      /\ \A i \in 1..(m + n) : z[i] = IF i <= m THEN p[i] ELSE x[i - m]
      /\ m \in Nat /\ n \in Nat
  OBVIOUS
<1> HIDE DEF z, m, n
<1>2. \A i \in DOMAIN z : IsMark(z[i]) => i - m \in DOMAIN x /\ z[i] = x[i - m] /\ m < i
  <2> SUFFICES ASSUME NEW i \in DOMAIN z, IsMark(z[i]) PROVE i - m \in DOMAIN x /\ z[i] = x[i - m] /\ m < i
    OBVIOUS
  <2>1. CASE i <= m
    <3>1. i \in DOMAIN p /\ z[i] = p[i]
      BY <1>1, <2>1
    <3> QED
      BY <3>1 DEF Marked
  <2>2. CASE ~(i <= m)
    BY <1>1, <2>2
  <2> QED
    BY <2>1, <2>2
<1>3. \A i \in DOMAIN x : m + i \in DOMAIN z /\ z[m + i] = x[i]
  <2> SUFFICES ASSUME NEW i \in DOMAIN x PROVE m + i \in DOMAIN z /\ z[m + i] = x[i]
    OBVIOUS
  <2>1. m + i \in 1..(m + n) /\ ~(m + i <= m) /\ (m + i) - m = i
    BY <1>1
  <2> QED
    BY <1>1, <2>1
<1>4. Marked(z) <=> Marked(x)
  BY <1>2, <1>3 DEF Marked
<1>5. ASSUME NoDataBehindMark(x), NEW i \in DOMAIN z, NEW j \in DOMAIN z, i < j, IsMark(z[i])
      PROVE  z[j].type # "DATA"
  <2>1. i - m \in DOMAIN x /\ z[i] = x[i - m] /\ m < i
    BY <1>2, <1>5
  <2>2. j - m \in DOMAIN x /\ z[j] = x[j - m] /\ i - m < j - m
    BY <1>1, <1>5, <2>1
  <2> QED
    BY <1>5, <2>1, <2>2 DEF NoDataBehindMark
<1> QED
  BY <1>4, <1>5 DEF NoDataBehindMark, z

\* The packets that doSend() takes are the ones in front of the barrier.
IsFilled(x, y, h, r) ==
    IF Has(x, "BARRIER") THEN Packets(h) = Packets(x)
    ELSE \E m \in Seq(Frames) : Ahead(y, m, r) /\ h = x \o m
LastOnly(x) == \A i \in DOMAIN x : x[i].type = "BARRIER" => i = Len(x)
LEMMA AheadOfFill ==
    ASSUME NEW x \in Seq(Frames), NEW y \in Seq(Frames), NEW h \in Seq(Frames), NEW r \in Seq(Frames),
           Ahead(x \o y, h, r), LastOnly(x)
    PROVE  IsFilled(x, y, h, r)
<1>1. x \o y = h \o r /\ ~Has(h, "BARRIER") /\ (r # <<>> => Head(r).type = "BARRIER")
  BY DEF Ahead
<1>2. Len(x) \in Nat /\ Len(h) \in Nat
  OBVIOUS
<1>3. CASE Len(x) <= Len(h)
  <2>1. PICK m \in Seq(Frames) : h = x \o m /\ y = m \o r
    <3>1. Cuts(x, y, h, r)
      BY <1>1, <1>3 DEF Cuts
    <3>2. Overlaps(x, y, h, r)
      BY <3>1, CutAt
    <3> QED
      BY <3>2 DEF Overlaps
  <2>2. ~Has(x, "BARRIER") /\ ~Has(m, "BARRIER")
    BY <1>1, <2>1, HasConcat
  <2>3. Ahead(y, m, r)
    BY <1>1, <2>1, <2>2 DEF Ahead
  <2> QED
    BY <2>1, <2>2, <2>3 DEF IsFilled
<1>4. CASE ~(Len(x) <= Len(h))
  <2>0. Cuts(h, r, x, y)
    BY <1>1, <1>2, <1>4 DEF Cuts
  <2>1. PICK m \in Seq(Frames) : x = h \o m /\ r = m \o y
    <3>1. Overlaps(h, r, x, y)
      BY <2>0, CutAt
    <3> QED
      BY <3>1 DEF Overlaps
  <2>2. /\ Len(x) = Len(h) + Len(m) /\ Len(m) \in Nat /\ Len(m) # 0
        /\ \A i \in 1..Len(m) : Len(h) + i \in DOMAIN x /\ x[Len(h) + i] = m[i]
    <3>1. /\ Len(h \o m) = Len(h) + Len(m) /\ Len(m) \in Nat
          /\ \A i \in 1..(Len(h) + Len(m)) : (h \o m)[i] = IF i <= Len(h) THEN h[i] ELSE m[i - Len(h)]
          /\ DOMAIN x = 1..Len(x)
      BY ConcatProperties, LenProperties
    <3>2. /\ Len(x) = Len(h) + Len(m)
          /\ \A i \in 1..(Len(h) + Len(m)) : x[i] = IF i <= Len(h) THEN h[i] ELSE m[i - Len(h)]
      BY <2>1, <3>1
    <3>3. ASSUME NEW i \in 1..Len(m) PROVE Len(h) + i \in DOMAIN x /\ x[Len(h) + i] = m[i]
      <4>1. Len(h) + i \in 1..(Len(h) + Len(m)) /\ ~(Len(h) + i <= Len(h)) /\ (Len(h) + i) - Len(h) = i
        BY <1>2, <3>1
      <4> QED
        BY <3>1, <3>2, <4>1
    <3>4. Len(m) # 0
      BY <1>2, <1>4, <3>1, <3>2
    <3> QED
      BY <3>1, <3>2, <3>3, <3>4
  <2>3. m # <<>> /\ m[1] = Head(m) /\ 1 \in 1..Len(m)
    BY <2>2
  <2>4. r # <<>> /\ Head(r) = Head(m)
    BY <2>1, <2>3
  <2>5. m[1].type = "BARRIER"
    BY <1>1, <2>3, <2>4
  <2>6. Len(h) + 1 \in DOMAIN x /\ x[Len(h) + 1].type = "BARRIER"
    BY <2>2, <2>3, <2>5
  <2>7. Len(h) + 1 = Len(x)
    BY <2>6 DEF LastOnly
  <2>8. Len(m) = 1
    <3> HIDE <2>0, <2>1
    <3> DEFINE u == Len(h)
               v == Len(m)
    <3>1. u \in Nat /\ v \in Nat /\ u + 1 = u + v
      BY <1>2, <2>2, <2>7
    <3> HIDE DEF u, v
    <3>2. v = 1
      BY <3>1
    <3> QED
      BY <3>2 DEF v
  <2>9. ~Has(m, "DATA")
    <3>1. \A i \in DOMAIN m : i = 1
      BY <2>8
    <3> QED
      BY <2>5, <3>1 DEF Has
  <2>10. Packets(h) \in Seq(Names) /\ Packets(x) = Packets(h) \o Packets(m)
    BY <2>1, PacketsConcat
  <2>11. Packets(m) = <<>>
    BY <2>9, PacketsZero
  <2>12. Packets(h) = Packets(x)
    BY <2>10, <2>11
  <2>13. Has(x, "BARRIER")
    BY <2>6 DEF Has
  <2> QED
    BY <2>12, <2>13 DEF IsFilled
<1> QED
  BY <1>3, <1>4

LEMMA CompleteFill ==
    ASSUME NEW is, NEW js, NEW a \in Seq(Names), NEW w \in Seq(Frames), NEW p \in Seq(Frames),
           NEW x \in Seq(Frames), NEW y \in Seq(Frames), NEW k,
           Complete(is, a, w, <<>>, x \o y, k),
           ~Has(p, "DATA"), ~Marked(p), x # <<>> => is = "open",
           LastOnly(x),
           \A i \in DOMAIN x : IsMark(x[i]) => x[i].type = "BARRIER",
           js = IF Has(x, "BARRIER") THEN "closed" ELSE is
    PROVE  Complete(js, a, w, p \o x, y, k)
<1> DEFINE W == Packets(w)
           X == Packets(x)
           aW == a \o W
           t == p \o x
<1>1. /\ W \in Seq(Names) /\ X \in Seq(Names) /\ aW \in Seq(Names) /\ Packets(<<>>) = <<>>
      /\ <<>> \in Seq(Frames)
  <2>1. W \in Seq(Names) /\ X \in Seq(Names)
    BY PacketsConcat
  <2>2. <<>> \in Seq(Frames) /\ Packets(<<>>) = <<>>
    <3>1. <<>> \in Seq(Frames)
      OBVIOUS
    <3> QED
      BY <3>1, EmptyIsComplete, PacketsZero
  <2> QED
    BY <2>1, <2>2
<1>2. Packets(t) = X
  <2>1. Packets(p) = <<>>
    BY PacketsZero
  <2>2. Packets(p \o x) = Packets(p) \o Packets(x)
    BY PacketsConcat
  <2> QED
    BY <1>1, <2>1, <2>2
<1>3. NoDataBehindMark(x)
  <2> SUFFICES ASSUME NEW i \in DOMAIN x, NEW j \in DOMAIN x, i < j, IsMark(x[i]) PROVE FALSE
    BY DEF NoDataBehindMark
  <2>1. i = Len(x) /\ j \in 1..Len(x) /\ Len(x) \in Nat
    BY DEF LastOnly
  <2> QED
    BY <2>1
<1>4. (Marked(t) <=> Marked(x)) /\ NoDataBehindMark(t)
  BY <1>3, MarkConcat
<1>5. Marked(x) <=> Has(x, "BARRIER")
  BY DEF Marked, Has, IsMark
<1>6. Has(t, "DATA") <=> Has(x, "DATA")
  BY HasConcat
<1>7. NoDataBehindMark(w) /\ (is = "open" => ~Marked(w))
  BY DEF Complete
<1> HIDE DEF t, W, X
<1>8. CASE x = <<>>
  <2>1. ~Has(x, "BARRIER") /\ ~Has(x, "DATA") /\ js = is /\ ~Marked(t) /\ ~Has(t, "DATA")
    BY <1>4, <1>5, <1>6, <1>8, EmptyIsComplete
  <2>2. Packets(t) = Packets(<<>>) /\ x \o y = y
    BY <1>1, <1>2, <1>8 DEF X
  <2>3. Complete(is, a, w, <<>>, y, k)
    BY <2>2
  <2>4. Complete(is, a, w, t, y, k)
    BY <1>4, <2>1, <2>2, <2>3, EmptyIsComplete, Zenon DEF Complete
  <2> QED
    BY <2>1, <2>4 DEF t
<1>9. CASE x # <<>>
  <2>1. is = "open" /\ ~Marked(w)
    BY <1>7, <1>9
  <2>2. PICK h \in Seq(Frames), r \in Seq(Frames) :
            Ahead(x \o y, h, r) /\ (a \o Packets(w) \o Packets(<<>>)) \o Packets(h) = k
    BY <2>1 DEF Complete
  <2>3. aW \o Packets(h) = k
    <3>1. aW \o <<>> = aW
      BY <1>1
    <3>2. a \o Packets(w) \o Packets(<<>>) = aW
      BY <1>1, <3>1, Zenon DEF W
    <3> QED
      BY <2>2, <3>2
  <2>4. IF Has(x, "BARRIER") THEN Packets(h) = Packets(x)
        ELSE \E m \in Seq(Frames) : Ahead(y, m, r) /\ h = x \o m
    <3>1. IsFilled(x, y, h, r)
      BY <2>2, AheadOfFill
    <3> QED
      BY <3>1 DEF IsFilled
  <2>5. a \o Packets(w) \o Packets(t) = aW \o X
    BY <1>2 DEF W
  <2>6. CASE Has(x, "BARRIER")
    <3>1. js = "closed" /\ aW \o X = k
      BY <2>3, <2>4, <2>6 DEF X
    <3>2. a \o Packets(w) \o Packets(t) = k
      BY <2>5, <3>1
    <3>3. Complete(js, a, w, t, y, k)
      BY <1>4, <1>7, <2>1, <3>1, <3>2 DEF Complete
    <3> QED
      BY <3>3 DEF t
  <2>7. CASE ~Has(x, "BARRIER")
    <3>1. PICK m \in Seq(Frames) : Ahead(y, m, r) /\ h = x \o m
      BY <2>4, <2>7
    <3>2. Packets(m) \in Seq(Names) /\ Packets(h) = X \o Packets(m)
      BY <3>1, PacketsConcat DEF X
    <3>3. (aW \o X) \o Packets(m) = aW \o (X \o Packets(m))
      BY <1>1, <3>2, Regroup
    <3>4. (a \o Packets(w) \o Packets(t)) \o Packets(m) = k
      BY <2>3, <2>5, <3>2, <3>3, Zenon
    <3>5. js = is /\ ~Marked(t)
      BY <1>4, <1>5, <2>7
    <3>6. Complete(is, a, w, t, y, k)
      BY <1>4, <1>7, <2>1, <3>1, <3>4, <3>5, Zenon DEF Complete
    <3> QED
      BY <3>5, <3>6 DEF t
  <2> QED
    BY <2>6, <2>7
<1> QED
  BY <1>8, <1>9

\* What has reached an application stays, and grows by the packets that doReceive() reads.
Reached(s, g) == g \o Packets(s.recvQ)

LEMMA ReachedOf ==
    ASSUME Inv, NEW e \in Ends
    PROVE  /\ Packets(slave[e].recvQ) \in Seq(Names) /\ Reached(slave[e], got[e]) \in Seq(Names)
           /\ Arrived(e) = Reached(slave[e], got[e])
<1>1. slave[e].recvQ \in Seq(Frames) /\ got[e] \in Seq(Names)
  BY QueueTypes
<1>2. Packets(slave[e].recvQ) \in Seq(Names)
  BY <1>1, PacketsConcat
<1> QED
  BY <1>1, <1>2 DEF Reached, Arrived

LEMMA ReachedKept ==
    ASSUME Inv, NEW e \in Ends, StepOf(e), ~\E f \in Frames : TakesData(e, f) /\ Open(slave[e])
    PROVE  Reached(slave'[e], got'[e]) = Reached(slave[e], got[e])
<1> DEFINE Good == Reached(slave'[e], got'[e]) = Reached(slave[e], got[e])
           P == Packets(slave[e].recvQ)
<1>0. slave[e] \in SlaveType /\ slave[e].recvQ \in Seq(Frames) /\ got[e] \in Seq(Names)
  BY QueueTypes
<1>1. P \in Seq(Names)
  BY ReachedOf
<1>2. ASSUME slave'[e].recvQ = slave[e].recvQ, got'[e] = got[e] PROVE Good
  BY <1>2 DEF Reached
<1>3. ASSUME NEW pills \in Seq({Pill}), slave'[e].recvQ = slave[e].recvQ \o pills, got'[e] = got[e] PROVE Good
  <2>1. pills \in Seq(Frames) /\ ~Has(pills, "DATA")
    BY NoneInPills
  <2>2. Packets(pills) = <<>>
    BY <2>1, PacketsZero
  <2>3. Packets(slave[e].recvQ \o pills) = P \o Packets(pills)
    BY <1>0, <2>1, PacketsConcat
  <2>4. P \o <<>> = P
    BY <1>1
  <2>5. Packets(slave'[e].recvQ) = P
    BY <1>3, <2>2, <2>3, <2>4, Zenon
  <2> QED
    BY <1>3, <2>5 DEF Reached
<1>4. ASSUME slave[e].is = "none", slave'[e].recvQ = <<>>, got'[e] = got[e] PROVE Good
  <2>1. slave[e].recvQ = <<>>
    BY <1>4 DEF Inv, SilentBefore, NoSlave
  <2> QED
    BY <1>2, <1>4, <2>1
<1>5. ASSUME Quiet(e) PROVE Good
  BY <1>2, <1>5 DEF Quiet, Holds, Core
<1>6. ASSUME Bars(e) PROVE Good
  BY <1>2, <1>6 DEF Bars, Holds
<1>7. ASSUME NEW w \in Writers, Refunds(e, w) \/ Uses(e, w) \/ Puts(e, w)
      PROVE  Good
  <2>1. CASE Refunds(e, w)
    <3>1. PICK n \in Nat : Core(slave'[e]) = Core([slave[e] EXCEPT !.credit = @ + n])
      BY <2>1 DEF Refunds
    <3>2. slave'[e].recvQ = slave[e].recvQ
      BY <1>0, <3>1 DEF Core, SlaveType
    <3> QED
      BY <1>2, <2>1, <3>2 DEF Refunds, Holds
  <2>2. CASE Uses(e, w)
    BY <1>2, <2>2 DEF Uses, Holds
  <2>3. CASE Puts(e, w)
    BY <1>2, <2>3 DEF Puts, Holds
  <2> QED
    BY <1>7, <2>1, <2>2, <2>3
<1>8. ASSUME NEW reason, Finishes(e, reason), got'[e] = got[e] PROVE Good
  <2>1. PICK pills \in Seq({Pill}) : slave'[e].recvQ = slave[e].recvQ \o pills
    BY <1>8 DEF Finishes
  <2> QED
    BY <1>3, <1>8, <2>1
<1>9. ASSUME AbortsSlave(e) PROVE Good
  BY <1>8, <1>9 DEF AbortsSlave
<1>10. ASSUME Resizes(e) PROVE Good
  BY <1>2, <1>10 DEF Resizes
<1>11. ASSUME Makes(e) PROVE Good
  BY <1>4, <1>11 DEF Makes, Core
<1>12. ASSUME NEW f \in Packed(Peer(e)) \cup {Pill}, Gets(e, f) PROVE Good
  <2> DEFINE q == slave[e].recvQ
             R == Packets(Tail(q))
  <2>1. q # <<>> /\ f = Head(q) /\ slave'[e].recvQ = Tail(q)
        /\ got'[e] = got[e] \o (IF f.type = "PILL" THEN <<>> ELSE <<f.n>>)
    BY <1>12 DEF Gets
  <2>2. NameOf(f) = IF f.type = "PILL" THEN <<>> ELSE <<f.n>>
    BY DEF NameOf, Packed, Pill, Frame
  <2>3. R \in Seq(Names) /\ NameOf(f) \in Seq(Names) /\ P = NameOf(f) \o R
    BY <1>0, <2>1, PacketsTail
  <2>4. got'[e] = got[e] \o NameOf(f)
    BY <2>1, <2>2
  <2>5. Packets(slave'[e].recvQ) = R
    BY <2>1
  <2> HIDE DEF P, R, q
  <2>6. (got[e] \o NameOf(f)) \o R = got[e] \o (NameOf(f) \o R)
    BY <1>0, <2>3, Regroup
  <2> QED
    BY <2>3, <2>4, <2>5, <2>6, Zenon DEF Reached, P
<1>13. ASSUME Breaks(e) PROVE Good
  BY <1>2, <1>8, <1>13 DEF Breaks
<1>14. ASSUME NEW h \in Seq(Frames), NEW q \in Seq(Frames), NEW x \in Seq(Frames), NEW y \in Seq(Frames),
              Fills(e, h, q, x, y)
       PROVE  Good
  <2>1. got'[e] = got[e]
    BY <1>14 DEF Fills
  <2>2. CASE Has(x, "BARRIER")
    <3>1. PICK pills \in Seq({Pill}) : slave'[e].recvQ = slave[e].recvQ \o pills
      BY <1>14, <2>2 DEF Fills
    <3> HIDE DEF Good
    <3> QED
      BY <1>3, <2>1, <3>1
  <2>3. CASE ~Has(x, "BARRIER")
    <3>1. slave'[e].recvQ = slave[e].recvQ
      BY <1>14, <2>3 DEF Fills
    <3> QED
      BY <1>2, <2>1, <3>1
  <2> QED
    BY <2>2, <2>3
<1>15. ASSUME NEW f \in Frames, NEW g \in Frames, Writes(e, f, g) PROVE Good
  BY <1>2, <1>15 DEF Writes
<1>16. ASSUME NEW f \in Frames, TakesData(e, f) PROVE Good
  <2>1. ~Open(slave[e])
    BY <1>16
  <2>2. slave'[e] = slave[e] /\ got'[e] = got[e]
    BY <1>16, <2>1 DEF TakesData, Takes
  <2> QED
    BY <1>2, <2>2
<1>17. ASSUME NEW f \in Frames, \/ TakesWindow(e, f) \/ TakesReset(e, f) \/ TakesMake(e, f) \/ TakesMade(e, f)
       PROVE  Good
  <2>0. got'[e] = got[e]
    BY <1>17 DEF TakesWindow, TakesReset, TakesMake, TakesMade, Takes
  <2>1. CASE TakesWindow(e, f)
    <3>1. slave'[e].recvQ = slave[e].recvQ
      BY <1>0, <2>1 DEF TakesWindow, Core, SlaveType
    <3> QED
      BY <1>2, <2>0, <3>1
  <2>2. CASE TakesReset(e, f)
    BY <1>2, <1>8, <2>0, <2>2 DEF TakesReset
  <2>3. CASE TakesMake(e, f)
    BY <1>4, <2>0, <2>3 DEF TakesMake, Core
  <2>4. CASE TakesMade(e, f)
    <3>1. slave'[e].recvQ = slave[e].recvQ
      BY <1>0, <2>4 DEF TakesMade, Core, SlaveType
    <3> QED
      BY <1>2, <2>0, <3>1
  <2> QED
    BY <1>17, <2>1, <2>2, <2>3, <2>4
<1> HIDE DEF Good
<1>18. ASSUME ApplicationStep(e) PROVE Good
  BY <1>5, <1>6, <1>7, <1>9, <1>10, <1>11, <1>12, <1>18 DEF ApplicationStep
<1>19. ASSUME MasterStep(e) PROVE Good
  BY <1>13, <1>14, <1>15, <1>16, <1>17, <1>19 DEF MasterStep
<1>20. Good
  BY <1>18, <1>19 DEF StepOf
<1> QED
  BY <1>20 DEF Good

LEMMA ReachedGrows ==
    ASSUME Inv, NEW e \in Ends, NEW f \in Frames, TakesData(e, f), Open(slave[e])
    PROVE  Reached(slave'[e], got'[e]) = Reached(slave[e], got[e]) \o NameOf(f)
<1> DEFINE P == Packets(slave[e].recvQ)
           N == NameOf(f)
<1>1. slave[e].recvQ \in Seq(Frames) /\ got[e] \in Seq(Names) /\ P \in Seq(Names) /\ N \in Seq(Names)
  BY QueueTypes, ReachedOf, NameIsSeq
<1>2. slave'[e].recvQ = Append(slave[e].recvQ, f) /\ got'[e] = got[e]
  BY DEF TakesData, Takes
<1>3. Packets(Append(slave[e].recvQ, f)) = P \o N
  BY <1>1, PacketsAppend
<1>4. Packets(slave'[e].recvQ) = P \o N
  BY <1>2, <1>3
<1> HIDE DEF P, N
<1>5. (got[e] \o P) \o N = got[e] \o (P \o N)
  BY <1>1, Regroup
<1> QED
  BY <1>2, <1>4, <1>5, Zenon DEF Reached, P, N

\* Nothing has come from an end whose slave is not there yet.
LEMMA NothingReached ==
    ASSUME Inv, NEW e \in Ends, slave[e].is = "none"
    PROVE  /\ Arrived(Peer(e)) = <<>> /\ wire[e] = <<>> /\ tx[e].todo = <<>>
           /\ queued[e] = <<>> /\ slave[e].sendQ = <<>>
<1> DEFINE p == Peer(e)
<1>1. p \in Ends /\ got[p] \in Seq(Names) /\ slave[p].recvQ \in Seq(Frames)
  BY EndFacts, QueueTypes
<1>2. wire[e] = <<>> /\ tx[e].todo = <<>> /\ queued[e] = <<>> /\ slave[e].sendQ = <<>>
  <2>1. wire[e] = <<>> /\ tx[e] = Idle /\ queued[e] = <<>> /\ slave[e] = NoSlave
    BY DEF Inv, SilentBefore
  <2>2. tx[e].todo = <<>>
    BY <2>1, EmptyHasNone
  <2>3. slave[e].sendQ = <<>>
    BY <2>1 DEF NoSlave
  <2> QED
    BY <2>1, <2>2, <2>3
<1>3. got[p] = <<>> /\ ~Has(slave[p].recvQ, "DATA")
  <2>1. CASE e = "a"
    <3>1. p = "b" /\ slave["b"].is = "none" /\ "b" \in Ends
      BY <2>1 DEF Inv, SilentBefore, Peer, Ends
    <3>2. got["b"] = <<>> /\ slave["b"] = NoSlave
      BY <3>1 DEF Inv, SilentBefore
    <3>3. slave["b"].recvQ = <<>>
      BY <3>2 DEF NoSlave
    <3> QED
      BY <3>1, <3>2, <3>3, EmptyHasNone
  <2>2. CASE e = "b"
    BY <2>2 DEF Inv, NothingBeforeMake, Peer
  <2> QED
    BY <2>1, <2>2 DEF Ends
<1>4. Packets(slave[p].recvQ) = <<>>
  BY <1>1, <1>3, PacketsZero
<1>5. Arrived(p) = <<>>
  BY <1>3, <1>4 DEF Arrived
<1> QED
  BY <1>2, <1>5

LEMMA CompleteNew == Complete("open", <<>>, <<>>, <<>>, <<>>, <<>>)
<1>1. <<>> \in Seq(Frames) /\ Packets(<<>>) = <<>> /\ <<>> \o <<>> = <<>>
  <2>1. <<>> \in Seq(Frames) /\ <<>> \o <<>> = <<>>
    OBVIOUS
  <2>2. Packets(<<>>) = <<>>
    BY <2>1, EmptyIsComplete, PacketsZero
  <2> QED
    BY <2>1, <2>2
<1>2. Ahead(<<>>, <<>>, <<>>)
  BY <1>1, EmptyIsComplete DEF Ahead
<1>3. (<<>> \o Packets(<<>>) \o Packets(<<>>)) \o Packets(<<>>) = <<>>
  BY <1>1
<1> QED
  BY <1>1, <1>2, <1>3, EmptyIsComplete, Zenon DEF Complete

\* A step of the sender.
LEMMA LineKept ==
    ASSUME Inv, NEW e \in Ends, StepOf(e), Line(e)
    PROVE  Complete(slave'[e].is, Arrived(Peer(e)), wire'[e], tx'[e].todo, slave'[e].sendQ, queued'[e])
<1> DEFINE A == Arrived(Peer(e))
           Good == Complete(slave'[e].is, A, wire'[e], tx'[e].todo, slave'[e].sendQ, queued'[e])
<1>0. /\ slave[e] \in SlaveType /\ slave[e].sendQ \in Seq(Frames) /\ wire[e] \in Seq(Frames)
      /\ tx[e].todo \in Seq(Frames) /\ queued[e] \in Seq(Names) /\ A \in Seq(Names)
  BY QueueTypes, EndFacts, ReachedOf
<1>1. Complete(slave[e].is, A, wire[e], tx[e].todo, slave[e].sendQ, queued[e])
  BY DEF Line
<1>2. Idle.todo = <<>>
  BY EmptyHasNone
<1> HIDE DEF A
<1>3. ASSUME slave'[e].is = slave[e].is, slave'[e].sendQ = slave[e].sendQ, wire'[e] = wire[e],
             tx'[e].todo = tx[e].todo, queued'[e] = queued[e]
      PROVE  Good
  BY <1>1, <1>3
<1>4. ASSUME slave'[e].is # "open", wire'[e] = wire[e], tx'[e].todo = tx[e].todo \/ tx'[e].todo = <<>>,
             queued'[e] = queued[e]
      PROVE  Good
  <2>1. /\ Complete(slave'[e].is, A, wire[e], tx[e].todo, slave'[e].sendQ, queued[e])
        /\ Complete(slave'[e].is, A, wire[e], <<>>, slave'[e].sendQ, queued[e])
    <3> DEFINE is == slave[e].is
               js == slave'[e].is
               w == wire[e]
               t == tx[e].todo
               s == slave[e].sendQ
               r == slave'[e].sendQ
               k == queued[e]
    <3>1. js # "open" /\ w \in Seq(Frames) /\ t \in Seq(Frames) /\ A \in Seq(Names) /\ Complete(is, A, w, t, s, k)
      BY <1>0, <1>1, <1>4
    <3> HIDE DEF is, js, w, t, s, r, k
    <3>2. Complete(js, A, w, t, r, k) /\ Complete(js, A, w, <<>>, r, k)
      BY <3>1, CompleteEnds
    <3> QED
      BY <3>2 DEF js, w, t, r, k
  <2> QED
    BY <1>4, <2>1
<1>5. ASSUME NEW f \in Frames, Queues(e, f), slave'[e].is = slave[e].is, Holds(e) PROVE Good
  <2> DEFINE new == IF slave[e].is = "open" /\ ~Has(slave[e].sendQ, "BARRIER") /\ f.type = "DATA"
                    THEN Append(queued[e], f.n) ELSE queued[e]
  <2>1. Complete(slave[e].is, A, wire[e], tx[e].todo, Append(slave[e].sendQ, f), new)
    BY <1>0, <1>1, CompleteQueue
  <2>2. slave'[e].sendQ = Append(slave[e].sendQ, f) /\ queued'[e] = new
    BY <1>5 DEF Queues, Open
  <2>3. wire'[e] = wire[e] /\ tx'[e].todo = tx[e].todo
    BY <1>5 DEF Holds
  <2> HIDE DEF new
  <2> QED
    BY <1>5, <2>1, <2>2, <2>3
<1>6. ASSUME slave[e].is = "none", slave'[e].is = "open", wire'[e] = wire[e], tx'[e].todo = tx[e].todo,
             slave'[e].sendQ = <<>>, queued'[e] = queued[e]
      PROVE  Good
  BY <1>6, NothingReached, CompleteNew DEF A
<1>7. ASSUME Quiet(e) PROVE Good
  BY <1>3, <1>7 DEF Quiet, Holds, Core
<1>8. ASSUME Bars(e) PROVE Good
  <2>1. Barrier \in Frames
    BY FrameTypes
  <2> QED
    BY <1>5, <1>8, <2>1 DEF Bars
<1>9. ASSUME NEW w \in Writers, Refunds(e, w) \/ Uses(e, w) \/ Puts(e, w)
      PROVE  Good
  <2>1. CASE Refunds(e, w)
    <3>1. PICK n \in Nat : Core(slave'[e]) = Core([slave[e] EXCEPT !.credit = @ + n])
      BY <2>1 DEF Refunds
    <3>2. slave'[e].is = slave[e].is /\ slave'[e].sendQ = slave[e].sendQ
      BY <1>0, <3>1 DEF Core, SlaveType
    <3> QED
      BY <1>3, <2>1, <3>2 DEF Refunds, Holds
  <2>2. CASE Uses(e, w)
    <3>1. slave'[e].is = slave[e].is /\ Holds(e)
      BY <2>2 DEF Uses
    <3>2. \/ \E f \in Frames : Queues(e, f)
          \/ slave'[e].sendQ = slave[e].sendQ /\ queued'[e] = queued[e]
      BY <2>2 DEF Uses, Packed
    <3> HIDE DEF Good
    <3>3. CASE \E f \in Frames : Queues(e, f)
      BY <1>5, <3>1, <3>3
    <3>4. CASE slave'[e].sendQ = slave[e].sendQ /\ queued'[e] = queued[e]
      BY <1>3, <3>1, <3>4 DEF Holds
    <3> QED
      BY <3>2, <3>3, <3>4
  <2>3. CASE Puts(e, w)
    <3>1. slave'[e].is = slave[e].is /\ Holds(e)
      BY <2>3 DEF Puts
    <3>2. \E f \in Frames : Queues(e, f)
      BY <2>3 DEF Puts, Packed
    <3> HIDE DEF Good
    <3> QED
      BY <1>5, <3>1, <3>2
  <2> QED
    BY <1>9, <2>1, <2>2, <2>3
<1>10. ASSUME NEW reason, reason # "open", Finishes(e, reason), wire'[e] = wire[e],
              tx'[e].todo = tx[e].todo \/ tx'[e].todo = <<>>, queued'[e] = queued[e]
       PROVE  Good
  BY <1>4, <1>10 DEF Finishes
<1>11. ASSUME AbortsSlave(e) PROVE Good
  BY <1>10, <1>11 DEF AbortsSlave
<1>12. ASSUME Resizes(e) PROVE Good
  BY <1>3, <1>12 DEF Resizes
<1>13. ASSUME Makes(e) PROVE Good
  BY <1>6, <1>13 DEF Makes, Core
<1>14. ASSUME NEW f, Gets(e, f) PROVE Good
  BY <1>3, <1>14 DEF Gets
<1>15. ASSUME Breaks(e) PROVE Good
  <2>1. wire'[e] = wire[e] /\ tx'[e].todo = <<>> /\ queued'[e] = queued[e]
    BY <1>2, <1>15 DEF Breaks
  <2>2. slave'[e].is # "open"
    BY <1>15 DEF Breaks, Finishes, Open
  <2> QED
    BY <1>4, <2>1, <2>2
<1>16. ASSUME NEW p \in Seq(Frames), NEW q \in Seq(Frames), NEW x \in Seq(Frames), NEW y \in Seq(Frames),
              Fills(e, p, q, x, y)
       PROVE  Good
  <2>1. /\ cmd[e] = p \o q /\ slave[e].sendQ = x \o y
        /\ x # <<>> => slave[e].is = "open"
        /\ LastOnly(x) /\ tx[e] = Idle
    BY <1>16 DEF Fills, Open, LastOnly
  <2>2. /\ tx'[e].todo = p \o x /\ slave'[e].sendQ = y /\ queued'[e] = queued[e] /\ wire'[e] = wire[e]
        /\ slave'[e].is = IF Has(x, "BARRIER") THEN "closed" ELSE slave[e].is
    <3>1. slave'[e].is = IF Has(x, "BARRIER") THEN "closed" ELSE slave[e].is
      BY <1>16 DEF Fills
    <3>2. slave'[e].sendQ = y /\ queued'[e] = queued[e] /\ wire'[e] = wire[e]
      BY <1>16 DEF Fills
    <3>3. tx'[e] = [todo |-> p \o x, all |-> p \o x]
      BY <1>16 DEF Fills
    <3> QED
      BY <3>1, <3>2, <3>3
  <2>3. ~Has(p, "DATA") /\ ~Marked(p)
    <3>1. cmd[e] \in Seq(Commands(e))
      BY DEF Inv, FramesTell
    <3>2. p \in Seq(Commands(e))
      BY <2>1, <3>1, SeqParts
    <3>3. \A f \in Commands(e) : f.type # "DATA" /\ ~IsMark(f)
      BY DEF Commands, IsMark
    <3>4. \A i \in DOMAIN p : p[i] \in Commands(e)
      BY <3>2
    <3> QED
      BY <3>3, <3>4 DEF Has, Marked
  <2>4. \A i \in DOMAIN x : IsMark(x[i]) => x[i].type = "BARRIER"
    <3>1. slave[e].sendQ \in Seq(Packed(e) \cup {Barrier})
      BY DEF Inv, FramesTell
    <3>2. x \in Seq(Packed(e) \cup {Barrier})
      BY <2>1, <3>1, SeqParts
    <3>3. \A f \in Packed(e) \cup {Barrier} : IsMark(f) => f.type = "BARRIER"
      BY DEF Packed, IsMark, Barrier, Frame
    <3>4. \A i \in DOMAIN x : x[i] \in Packed(e) \cup {Barrier}
      BY <3>2
    <3> QED
      BY <3>3, <3>4
  <2>5. Complete(slave[e].is, A, wire[e], <<>>, x \o y, queued[e])
    BY <1>1, <1>2, <2>1
  <2>6. Complete(slave'[e].is, A, wire[e], p \o x, y, queued[e])
    BY <1>0, <2>1, <2>2, <2>3, <2>4, <2>5, CompleteFill
  <2> QED
    BY <2>2, <2>6
<1>17. ASSUME NEW f \in Frames, NEW g \in Frames, Writes(e, f, g) PROVE Good
  <2>1. /\ tx[e].todo # <<>> /\ f = Head(tx[e].todo) /\ tx'[e].todo = Tail(tx[e].todo)
        /\ g = (IF f.type = "BARRIER" THEN RESET(0) ELSE f)
        /\ wire'[e] = Append(wire[e], g) /\ slave'[e] = slave[e] /\ queued'[e] = queued[e]
    BY <1>17 DEF Writes
  <2>2. Complete(slave[e].is, A, Append(wire[e], g), Tail(tx[e].todo), slave[e].sendQ, queued[e])
    BY <1>0, <1>1, <2>1, CompleteWrite
  <2> QED
    BY <2>1, <2>2
<1>18. ASSUME NEW f \in Frames, Takes(e, f)
       PROVE  wire'[e] = wire[e] /\ tx'[e].todo = tx[e].todo /\ queued'[e] = queued[e]
  BY <1>18 DEF Takes
<1>19. ASSUME NEW f \in Frames, Reading(e, f) PROVE Good
  <2>0. wire'[e] = wire[e] /\ tx'[e].todo = tx[e].todo /\ queued'[e] = queued[e]
    BY <1>18, <1>19, ReadingTakes
  <2>1. ASSUME TakesData(e, f) PROVE Good
    <3>1. slave'[e].is = slave[e].is /\ slave'[e].sendQ = slave[e].sendQ
      BY <2>1 DEF TakesData
    <3> QED
      BY <1>3, <2>0, <3>1
  <2>2. ASSUME TakesWindow(e, f) PROVE Good
    <3>1. slave'[e].is = slave[e].is /\ slave'[e].sendQ = slave[e].sendQ
      BY <1>0, <2>2 DEF TakesWindow, Core, SlaveType
    <3> QED
      BY <1>3, <2>0, <3>1
  <2>3. ASSUME TakesReset(e, f) PROVE Good
    BY <1>3, <1>4, <2>0, <2>3 DEF TakesReset, Finishes
  <2>4. ASSUME TakesMake(e, f) PROVE Good
    BY <1>6, <2>0, <2>4 DEF TakesMake, Core
  <2>5. ASSUME TakesMade(e, f) PROVE Good
    <3>1. slave'[e].is = slave[e].is /\ slave'[e].sendQ = slave[e].sendQ
      BY <1>0, <2>5 DEF TakesMade, Core, SlaveType
    <3> QED
      BY <1>3, <2>0, <3>1
  <2> HIDE DEF Good
  <2> QED
    BY <1>19, <2>1, <2>2, <2>3, <2>4, <2>5 DEF Reading
<1> HIDE DEF Good
<1>20. ASSUME ApplicationStep(e) PROVE Good
  BY <1>7, <1>8, <1>9, <1>11, <1>12, <1>13, <1>14, <1>20 DEF ApplicationStep
<1>21. ASSUME MasterStep(e) PROVE Good
  BY <1>15, <1>16, <1>17, <1>19, <1>21 DEF MasterStep, Reading
<1>22. Good
  BY <1>20, <1>21 DEF StepOf
<1> QED
  BY <1>22 DEF Good, A

\* A slave that has ended stays as it is, and only the RESET of close() ends one normally.
LEMMA StatusKept ==
    ASSUME Inv, NEW e \in Ends, StepOf(e)
    PROVE  /\ Ended(slave[e]) => slave'[e].is = slave[e].is /\ queued'[e] = queued[e]
           /\ slave'[e].is = "normal" =>
                 \/ slave[e].is = "normal"
                 \/ \E f \in Frames : TakesReset(e, f) /\ Open(slave[e]) /\ f.arg = 0
<1> DEFINE Good == /\ Ended(slave[e]) => slave'[e].is = slave[e].is /\ queued'[e] = queued[e]
                   /\ slave'[e].is = "normal" =>
                         \/ slave[e].is = "normal"
                         \/ \E f \in Frames : TakesReset(e, f) /\ Open(slave[e]) /\ f.arg = 0
<1>0. slave[e] \in SlaveType
  BY QueueTypes
<1>1. ASSUME slave'[e].is = slave[e].is, queued'[e] = queued[e] PROVE Good
  BY <1>1
<1>2. ASSUME ~Ended(slave[e]), slave'[e].is # "normal" PROVE Good
  BY <1>2
<1>3. ASSUME NEW f, Queues(e, f), slave'[e].is = slave[e].is PROVE Good
  BY <1>3 DEF Queues, Ended, Open
<1>4. ASSUME NEW reason, reason # "normal", Finishes(e, reason) PROVE Good
  BY <1>2, <1>4 DEF Finishes, Open, Ended
<1>5. ASSUME Quiet(e) PROVE Good
  BY <1>1, <1>5 DEF Quiet, Core
<1>6. ASSUME Bars(e) PROVE Good
  BY <1>3, <1>6 DEF Bars
<1>7. ASSUME NEW w \in Writers, Refunds(e, w) \/ Uses(e, w) \/ Puts(e, w) PROVE Good
  <2>1. ASSUME Refunds(e, w) PROVE Good
    <3>1. PICK n \in Nat : Core(slave'[e]) = Core([slave[e] EXCEPT !.credit = @ + n])
      BY <2>1 DEF Refunds
    <3>2. slave'[e].is = slave[e].is
      BY <1>0, <3>1 DEF Core, SlaveType
    <3> QED
      BY <1>1, <2>1, <3>2 DEF Refunds
  <2>2. ASSUME Uses(e, w) PROVE Good
    <3>1. slave'[e].is = slave[e].is
      BY <2>2 DEF Uses
    <3>2. (\E f \in Frames : Queues(e, f)) \/ queued'[e] = queued[e]
      BY <2>2 DEF Uses, Packed
    <3> HIDE DEF Good
    <3> QED
      BY <1>1, <1>3, <3>1, <3>2
  <2>3. ASSUME Puts(e, w) PROVE Good
    <3>1. slave'[e].is = slave[e].is
      BY <2>3 DEF Puts
    <3>2. \E f \in Frames : Queues(e, f)
      BY <2>3 DEF Puts, Packed
    <3> HIDE DEF Good
    <3> QED
      BY <1>3, <3>1, <3>2
  <2> HIDE DEF Good
  <2> QED
    BY <1>7, <2>1, <2>2, <2>3
<1>8. ASSUME AbortsSlave(e) PROVE Good
  BY <1>4, <1>8 DEF AbortsSlave
<1>9. ASSUME Resizes(e) PROVE Good
  BY <1>1, <1>9 DEF Resizes
<1>10. ASSUME Makes(e) PROVE Good
  BY <1>2, <1>10 DEF Makes, Core, Ended
<1>11. ASSUME NEW f, Gets(e, f) PROVE Good
  BY <1>1, <1>11 DEF Gets
<1>12. ASSUME Breaks(e) PROVE Good
  BY <1>1, <1>4, <1>12 DEF Breaks
<1>13. ASSUME NEW p, NEW q, NEW x, NEW y, Fills(e, p, q, x, y) PROVE Good
  <2>1. CASE Has(x, "BARRIER")
    <3>1. x # <<>>
      BY <2>1, EmptyHasNone
    <3>2. Open(slave[e]) /\ slave'[e].is = "closed"
      BY <1>13, <2>1, <3>1 DEF Fills
    <3> QED
      BY <1>2, <3>2 DEF Open, Ended
  <2>2. CASE ~Has(x, "BARRIER")
    BY <1>1, <1>13, <2>2 DEF Fills
  <2> QED
    BY <2>1, <2>2
<1>14. ASSUME NEW f, NEW g, Writes(e, f, g) PROVE Good
  BY <1>1, <1>14 DEF Writes
<1>15. ASSUME NEW f \in Frames, Reading(e, f) PROVE Good
  <2>0. queued'[e] = queued[e]
    BY <1>15, ReadingTakes DEF Takes
  <2>1. ASSUME TakesData(e, f) PROVE Good
    BY <1>1, <2>0, <2>1 DEF TakesData
  <2>2. ASSUME TakesWindow(e, f) PROVE Good
    <3>1. slave'[e].is = slave[e].is
      BY <1>0, <2>2 DEF TakesWindow, Core, SlaveType
    <3> QED
      BY <1>1, <2>0, <3>1
  <2>3. ASSUME TakesReset(e, f) PROVE Good
    <3>1. CASE Open(slave[e])
      BY <2>3, <3>1 DEF TakesReset, Finishes, Open, Ended
    <3>2. CASE ~Open(slave[e])
      BY <1>1, <2>0, <2>3, <3>2 DEF TakesReset
    <3> QED
      BY <3>1, <3>2
  <2>4. ASSUME TakesMake(e, f) PROVE Good
    BY <1>2, <2>4 DEF TakesMake, Core, Ended
  <2>5. ASSUME TakesMade(e, f) PROVE Good
    <3>1. slave'[e].is = slave[e].is
      BY <1>0, <2>5 DEF TakesMade, Core, SlaveType
    <3> QED
      BY <1>1, <2>0, <3>1
  <2> HIDE DEF Good
  <2> QED
    BY <1>15, <2>1, <2>2, <2>3, <2>4, <2>5 DEF Reading
<1> HIDE DEF Good
<1>16. ASSUME ApplicationStep(e) PROVE Good
  BY <1>5, <1>6, <1>7, <1>8, <1>9, <1>10, <1>11, <1>16 DEF ApplicationStep
<1>17. ASSUME MasterStep(e) PROVE Good
  BY <1>12, <1>13, <1>14, <1>15, <1>17 DEF MasterStep, Reading
<1>18. Good
  BY <1>16, <1>17 DEF StepOf
<1> QED
  BY <1>18 DEF Good

\* What one direction and the slave that it ends at are after a step.
LEMMA LineIs ==
    ASSUME NEW e \in Ends
    PROVE  /\ Line(e)' <=> Complete(slave'[e].is, Reached(slave'[Peer(e)], got'[Peer(e)]), wire'[e],
                                    tx'[e].todo, slave'[e].sendQ, queued'[e])
           /\ Arrived(e)' = Reached(slave'[e], got'[e])
  BY DEF Line, Arrived, Reached, Complete, Ahead, Has, Marked, NoDataBehindMark, IsMark, Packets

\* doReceive() of e takes what comes over its line.
LEMMA LineTaken ==
    ASSUME Inv, NEW e \in Ends, StepOf(e), Awaits(slave[e]), Line(Peer(e))
    PROVE  Complete(slave[Peer(e)].is, Reached(slave'[e], got'[e]), wire'[Peer(e)],
                    tx[Peer(e)].todo, slave[Peer(e)].sendQ, queued[Peer(e)])
<1> DEFINE p == Peer(e)
           A == Reached(slave[e], got[e])
           B == Reached(slave'[e], got'[e])
           w == wire[p]
<1>0. /\ p \in Ends /\ Peer(p) = e /\ w \in Seq(Frames) /\ tx[p].todo \in Seq(Frames) /\ A \in Seq(Names)
      /\ Arrived(e) = A
  BY EndFacts, QueueTypes, ReachedOf
<1>1. Complete(slave[p].is, A, w, tx[p].todo, slave[p].sendQ, queued[p])
  BY <1>0 DEF Line
<1>2. wire'[p] = w \/ \E f \in Frames : Reading(e, f)
  BY WireOfPeer
<1>3. ASSUME ~\E f \in Frames : Reading(e, f)
      PROVE  Complete(slave[p].is, B, wire'[p], tx[p].todo, slave[p].sendQ, queued[p])
  <2>1. ~\E f \in Frames : TakesData(e, f) /\ Open(slave[e])
    BY <1>3 DEF Reading
  <2>2. B = A
    BY <2>1, ReachedKept
  <2>3. wire'[p] = w
    BY <1>2, <1>3
  <2> HIDE DEF A, B, w, p
  <2> QED
    BY <1>1, <2>2, <2>3
<1>4. ASSUME NEW f \in Frames, Reading(e, f)
      PROVE  Complete(slave[p].is, B, wire'[p], tx[p].todo, slave[p].sendQ, queued[p])
  <2>1. w # <<>> /\ f = Head(w) /\ wire'[p] = Tail(w)
    BY <1>4, ReadingTakes DEF Takes
  <2>2. Complete(slave[p].is, A \o NameOf(f), Tail(w), tx[p].todo, slave[p].sendQ, queued[p])
    <3> HIDE DEF A, B, w
    <3> QED
      BY <1>0, <1>1, <2>1, CompleteTake
  <2>3. B = A \o NameOf(f)
    <3>1. CASE f.type = "DATA"
      <4>1. TakesData(e, f)
        BY <1>4, <3>1 DEF Reading, TakesWindow, TakesReset, TakesMake, TakesMade
      <4>2. Open(slave[e])
        <5> SUFFICES ASSUME slave[e].is = "none" PROVE FALSE
          BY DEF Awaits, Open
        <5>1. Has(w, "DATA")
          BY <1>0, <2>1, <3>1, HasTail
        <5>2. CASE e = "a"
          <6>1. p = "b" /\ slave["b"].is = "none"
            BY <5>2 DEF Inv, SilentBefore, Peer
          <6>2. w = <<>>
            BY <1>0, <6>1 DEF Inv, SilentBefore
          <6> QED
            BY <2>1, <6>2
        <5>3. CASE e = "b"
          BY <5>1, <5>3 DEF Inv, NothingBeforeMade, Peer
        <5> QED
          BY <5>2, <5>3 DEF Ends
      <4> QED
        BY <4>1, <4>2, ReachedGrows
    <3>2. CASE f.type # "DATA"
      <4>1. NameOf(f) = <<>>
        BY <3>2 DEF NameOf
      <4>2. ~\E g \in Frames : TakesData(e, g) /\ Open(slave[e])
        BY <2>1, <3>2 DEF TakesData, Takes
      <4>3. B = A
        BY <4>2, ReachedKept
      <4> HIDE DEF A, B
      <4> QED
        BY <1>0, <4>1, <4>3
    <3> QED
      BY <3>1, <3>2
  <2> HIDE DEF A, B, w, p
  <2> QED
    BY <2>1, <2>2, <2>3
<1> QED
  BY <1>3, <1>4 DEF p, B

LEMMA CloseNext ==
    ASSUME Inv, CloseInv, NEW e \in Ends, StepOf(e)
    PROVE  CloseInv'
<1> DEFINE p == Peer(e)
           A == Reached(slave'[e], got'[e])
           B == Reached(slave'[p], got'[p])
<1>0. p \in Ends /\ Peer(p) = e /\ p # e /\ Ends = {e, p} /\ slave[e] \in SlaveType /\ slave[p] \in SlaveType
  BY EndFacts, QueueTypes
<1>1. slave'[p] = slave[p] /\ tx'[p] = tx[p] /\ got'[p] = got[p] /\ queued'[p] = queued[p]
  BY DEF StepOf, Rests
<1>2. /\ Ended(slave[e]) => slave'[e].is = slave[e].is /\ queued'[e] = queued[e]
      /\ slave'[e].is = "normal" =>
            \/ slave[e].is = "normal"
            \/ \E f \in Frames : TakesReset(e, f) /\ Open(slave[e]) /\ f.arg = 0
  BY StatusKept
<1>3. Arrived(e)' = A /\ Arrived(p)' = B
  BY <1>0, LineIs
<1>4. B = Arrived(p) /\ Arrived(e) = Reached(slave[e], got[e])
  BY <1>0, <1>1, ReachedOf
<1>5. (Awaits(slave[p]) => Line(e)) /\ (Awaits(slave[e]) => Line(p))
  BY <1>0 DEF CloseInv, NothingSkipped
<1>6. /\ slave[e].is = "normal" => Ended(slave[p]) /\ Arrived(e) = queued[p]
      /\ slave[p].is = "normal" => Ended(slave[e]) /\ Arrived(p) = queued[e]
  BY <1>0 DEF CloseInv, ClosedForGood
<1>7. Awaits(slave'[e]) => Awaits(slave[e])
  BY <1>2 DEF Awaits, Ended
<1>8. ASSUME Awaits(slave'[p]) PROVE Line(e)'
  <2>1. Line(e)
    BY <1>1, <1>5, <1>8
  <2>2. Complete(slave'[e].is, Arrived(p), wire'[e], tx'[e].todo, slave'[e].sendQ, queued'[e])
    BY <2>1, LineKept
  <2>3. Complete(slave'[e].is, B, wire'[e], tx'[e].todo, slave'[e].sendQ, queued'[e])
    BY <1>4, <2>2
  <2> QED
    BY <2>3, LineIs
<1>9. ASSUME Awaits(slave'[e]) PROVE Line(p)'
  <2>1. Awaits(slave[e]) /\ Line(p)
    BY <1>5, <1>7, <1>9
  <2>2. Complete(slave[p].is, A, wire'[p], tx[p].todo, slave[p].sendQ, queued[p])
    BY <2>1, LineTaken
  <2> HIDE DEF A
  <2>3. Complete(slave'[p].is, A, wire'[p], tx'[p].todo, slave'[p].sendQ, queued'[p])
    BY <1>1, <2>2
  <2> QED
    BY <1>0, <2>3, LineIs DEF A
<1>10. ASSUME slave'[p].is = "normal" PROVE Ended(slave'[e]) /\ Arrived(p)' = queued'[e]
  <2>1. Ended(slave[e]) /\ Arrived(p) = queued[e]
    BY <1>1, <1>6, <1>10
  <2> QED
    BY <1>2, <1>3, <1>4, <2>1 DEF Ended
<1>11. ASSUME slave'[e].is = "normal" PROVE Ended(slave'[p]) /\ Arrived(e)' = queued'[p]
  <2>1. CASE slave[e].is = "normal"
    <3>1. ~Open(slave[e])
      BY <2>1 DEF Open
    <3>2. A = Arrived(e)
      BY <1>4, <3>1, ReachedKept
    <3> QED
      BY <1>1, <1>3, <1>6, <2>1, <3>2
  <2>2. CASE \E f \in Frames : TakesReset(e, f) /\ Open(slave[e]) /\ f.arg = 0
    <3>1. PICK f \in Frames : TakesReset(e, f) /\ Open(slave[e]) /\ f.arg = 0
      BY <2>2
    <3>2. wire[p] # <<>> /\ f = Head(wire[p]) /\ f.type = "RESET" /\ IsMark(f)
      BY <3>1 DEF TakesReset, Takes, IsMark
    <3>3. ~\E g \in Frames : TakesData(e, g) /\ Open(slave[e])
      BY <3>2 DEF TakesData, Takes
    <3>4. A = Arrived(e)
      BY <1>4, <3>3, ReachedKept
    <3>5. Complete(slave[p].is, Arrived(e), wire[p], tx[p].todo, slave[p].sendQ, queued[p])
      BY <1>0, <1>5, <3>1 DEF Line, Awaits, Open
    <3>6. Arrived(e) \in Seq(Names) /\ wire[p] \in Seq(Frames) /\ tx[p].todo \in Seq(Frames)
      BY <1>0, <1>4, ReachedOf, QueueTypes
    <3>7. slave[p].is # "open" /\ Arrived(e) = queued[p]
      BY <3>2, <3>5, <3>6, CompleteTake
    <3>8. slave[p].is # "none"
      BY <1>0, <3>2 DEF Inv, SilentBefore
    <3> QED
      BY <1>1, <1>3, <3>4, <3>7, <3>8 DEF Ended
  <2> QED
    BY <1>2, <1>11, <2>1, <2>2
<1>12. NothingSkipped'
  <2> SUFFICES ASSUME NEW d \in Ends, Awaits(slave'[Peer(d)]) PROVE Line(d)'
    BY DEF NothingSkipped, Awaits
  <2>1. d = e \/ d = p
    BY <1>0
  <2>2. CASE d = e
    BY <1>8, <2>2
  <2>3. CASE d = p
    BY <1>0, <1>9, <2>3
  <2> QED
    BY <2>1, <2>2, <2>3
<1>13. ClosedForGood'
  <2> SUFFICES ASSUME NEW d \in Ends, slave'[d].is = "normal"
               PROVE  Ended(slave'[Peer(d)]) /\ Arrived(d)' = queued'[Peer(d)]
    BY DEF ClosedForGood, Ended
  <2>1. d = e \/ d = p
    BY <1>0
  <2>2. CASE d = e
    BY <1>11, <2>2
  <2>3. CASE d = p
    BY <1>0, <1>10, <2>3
  <2> QED
    BY <2>1, <2>2, <2>3
<1> QED
  BY <1>12, <1>13 DEF CloseInv

LEMMA CloseInit == Init => CloseInv
<1> SUFFICES ASSUME Init PROVE CloseInv
  OBVIOUS
<1>0. Inv
  BY InvInit
<1>1. \A e \in Ends : slave[e].is = "none" /\ Peer(e) \in Ends
  BY DEF Init, NoSlave, Ends, Peer
<1>2. ASSUME NEW e \in Ends PROVE Line(e)
  <2>1. /\ Arrived(Peer(e)) = <<>> /\ wire[e] = <<>> /\ tx[e].todo = <<>>
        /\ queued[e] = <<>> /\ slave[e].sendQ = <<>>
    BY <1>0, <1>1, NothingReached
  <2>2. <<>> \in Seq(Names) /\ <<>> \in Seq(Frames)
    OBVIOUS
  <2>3. Complete("none", <<>>, <<>>, <<>>, <<>>, <<>>)
    BY <2>2, CompleteNew, CompleteEnds
  <2> QED
    BY <1>1, <2>1, <2>3 DEF Line
<1>3. ClosedForGood
  BY <1>1 DEF ClosedForGood
<1> QED
  BY <1>2, <1>3 DEF CloseInv, NothingSkipped

LEMMA CloseInvKept == Inv /\ CloseInv /\ [Next]_vars => Inv' /\ CloseInv'
<1> SUFFICES ASSUME Inv, CloseInv, [Next]_vars PROVE Inv' /\ CloseInv'
  OBVIOUS
<1>1. CASE UNCHANGED vars
  <2>1. Inv'
    BY <1>1, InvStutter
  <2>2. slave' = slave /\ tx' = tx /\ wire' = wire /\ got' = got /\ queued' = queued
    BY <1>1 DEF vars, calls
  <2>3. CloseInv'
    <3>1. ASSUME NEW e \in Ends PROVE (Line(e)' <=> Line(e)) /\ Arrived(e)' = Arrived(e)
      <4>1. Arrived(Peer(e)) = Reached(slave[Peer(e)], got[Peer(e)]) /\ Arrived(e) = Reached(slave[e], got[e])
        BY DEF Arrived, Reached
      <4> QED
        BY <2>2, <4>1, LineIs DEF Line
    <3>2. NothingSkipped'
      <4> SUFFICES ASSUME NEW d \in Ends, Awaits(slave'[Peer(d)]) PROVE Line(d)'
        BY DEF NothingSkipped, Awaits
      <4> QED
        BY <2>2, <3>1 DEF CloseInv, NothingSkipped
    <3>3. ClosedForGood'
      <4> SUFFICES ASSUME NEW d \in Ends, slave'[d].is = "normal"
                   PROVE  Ended(slave'[Peer(d)]) /\ Arrived(d)' = queued'[Peer(d)]
        BY DEF ClosedForGood, Ended
      <4> QED
        BY <2>2, <3>1 DEF CloseInv, ClosedForGood
    <3> QED
      BY <3>2, <3>3 DEF CloseInv
  <2> QED
    BY <2>1, <2>3
<1>2. CASE Next
  <2>1. Inv' /\ \E e \in Ends : StepOf(e)
    BY <1>2, InvNext
  <2> QED
    BY <2>1, CloseNext
<1> QED
  BY <1>1, <1>2

\* When the RESET of close() has ended a slave its application has read, or finds in
\* receivingQueue, every packet that was queued before the barrier, in order: however
\* doSend() cuts its batches, whoever else closes or aborts, whatever the capacities.
THEOREM ClosingLosesNothing == Spec => []CloseDeliversAll
<1>1. Init => Inv /\ CloseInv
  BY InvInit, CloseInit
<1>2. Inv /\ CloseInv => CloseDeliversAll
  BY DEF CloseInv, ClosedForGood, CloseDeliversAll, Arrived
<1> QED
  BY <1>1, <1>2, CloseInvKept, PTL DEF Spec

\* The frames, the records of the coroutines and the queues are what their types say.
THEOREM TypeCorrect == Spec => []TypeOK
<1>1. Init => Inv
  BY InvInit
<1>2. Inv /\ [Next]_vars => Inv'
  BY InvNext, InvStutter
<1>3. Inv => TypeOK
  BY DEF Inv
<1> QED
  BY <1>1, <1>2, <1>3, PTL DEF Spec

--------------------------------------------------------------------------------
(* A receiver that sleeps when its slave ends. *)

\* No two coroutines receive from one slave.
OneReader == \A r, q \in Readers : EndOf[r] = EndOf[q] => r = q

Wakes(d) == \E q \in Seq(Frames) : slave'[d].recvQ = WakeReceivers(d, q)
Keeps(d) == slave'[d].is = slave[d].is /\ slave'[d].recvQ = slave[d].recvQ
Tells(d) == Keeps(d) \/ ~Ended(slave'[d]) \/ Wakes(d)

\* A step that sends no reader to sleep or back.
LEMMA ToldKept ==
    ASSUME TypeOK, ReceiversAreTold, reader' = reader, \A d \in Ends : Tells(d)
    PROVE  ReceiversAreTold'
<1> SUFFICES ASSUME NEW d \in Ends, Ended(slave'[d]), ReadersIn(d)' # {} PROVE slave'[d].recvQ # <<>>
  BY DEF ReceiversAreTold, Ended
<1>1. ReadersIn(d) # {}
  BY DEF ReadersIn
<1>2. CASE Keeps(d)
  BY <1>1, <1>2 DEF Keeps, ReceiversAreTold, Ended
<1>3. CASE Wakes(d)
  <2>1. PICK q \in Seq(Frames) : slave'[d].recvQ = WakeReceivers(d, q)
    BY <1>3 DEF Wakes
  <2>2. PICK pills \in Seq({Pill}) : WakeReceivers(d, q) = q \o pills /\ (ReadersIn(d) # {} => pills # <<>>)
    BY ReceiversWoken
  <2>3. pills # <<>> /\ pills \in Seq(Frames)
    BY <1>1, <2>2, NoneInPills
  <2>4. q \o pills # <<>>
    BY <2>3, ConcatEqualIffEmpty
  <2> QED
    BY <2>1, <2>2, <2>4
<1> QED
  BY <1>2, <1>3 DEF Tells

\* finish() wakes.
LEMMA FinishWakes ==
    ASSUME NEW e \in Ends, NEW s \in SlaveType, NEW reason, NEW discard \in BOOLEAN,
           slave' = [slave EXCEPT ![e] = Finish(e, s, reason, discard)], TypeOK
    PROVE  \A d \in Ends : Tells(d)
<1>1. Finish(e, s, reason, discard).recvQ = WakeReceivers(e, s.recvQ) /\ s.recvQ \in Seq(Frames)
  BY DEF Finish, SlaveType
<1>2. slave'[e] = Finish(e, s, reason, discard) /\ \A d \in Ends : d # e => slave'[d] = slave[d]
  BY DEF TypeOK
<1>3. Wakes(e)
  BY <1>1, <1>2 DEF Wakes
<1> QED
  BY <1>2, <1>3 DEF Tells, Keeps

\* The slave of one end changes, but not its state and what it received.
LEMMA OthersKeep ==
    ASSUME TypeOK, NEW e \in Ends, NEW s, s.is = slave[e].is, s.recvQ = slave[e].recvQ,
           slave' = [slave EXCEPT ![e] = s]
    PROVE  \A d \in Ends : Tells(d)
<1>1. slave'[e] = s /\ \A d \in Ends : d # e => slave'[d] = slave[d]
  BY DEF TypeOK
<1> QED
  BY <1>1 DEF Tells, Keeps

LEMMA OneOpens ==
    ASSUME TypeOK, NEW e \in Ends, NEW s, s.is = "open", slave' = [slave EXCEPT ![e] = s]
    PROVE  \A d \in Ends : Tells(d)
<1>1. slave'[e] = s /\ \A d \in Ends : d # e => slave'[d] = slave[d]
  BY DEF TypeOK
<1> QED
  BY <1>1 DEF Tells, Keeps, Ended

LEMMA PushTells ==
    ASSUME TypeOK, NEW e \in Ends, NEW s \in SlaveType, NEW f, s.is = slave[e].is, s.recvQ = slave[e].recvQ,
           Push(e, s, f)
    PROVE  \A d \in Ends : Tells(d)
<1> DEFINE t == [s EXCEPT !.sendQ = Append(@, f)]
<1>1. t.is = slave[e].is /\ t.recvQ = slave[e].recvQ /\ slave' = [slave EXCEPT ![e] = t]
  BY DEF Push, SlaveType
<1> HIDE DEF t
<1> QED
  BY <1>1, OthersKeep

LEMMA EnqueueTells ==
    ASSUME TypeOK, NEW w \in Writers, NEW s \in SlaveType, NEW c, s.is = slave[EndOf[w]].is,
           s.recvQ = slave[EndOf[w]].recvQ, Enqueue(w, s, c)
    PROVE  \A d \in Ends : Tells(d)
<1> DEFINE e == EndOf[w]
<1>1. e \in Ends
  BY MultiStreamAssumption DEF Ends
<1>2. (\E f : Push(e, s, f)) \/ slave' = [slave EXCEPT ![e] = s]
  BY DEF Enqueue
<1> HIDE DEF e
<1> QED
  BY <1>1, <1>2, PushTells, OthersKeep DEF e

LEMMA ApplicationTells ==
    ASSUME Inv,
           \/ MakeSlave \/ TakeSlave
           \/ \E w \in Writers : WriterStep(w) \/ \E size \in Sizes, mode \in Modes : SendPacket(w, size, mode)
           \/ \E e \in Ends : \/ Close(e) \/ CloserStep(e) \/ AbortSlave(e)
                              \/ \E bytes \in NewCaps : SetReceivingCapacity(e, bytes)
    PROVE  reader' = reader /\ \A d \in Ends : Tells(d)
<1> DEFINE Good == reader' = reader /\ \A d \in Ends : Tells(d)
<1>0. TypeOK /\ \A e \in Ends : slave[e] \in SlaveType
  BY DEF Inv, TypeOK
<1>1. ASSUME slave' = slave, reader' = reader PROVE Good
  BY <1>1 DEF Tells, Keeps
<1>2. ASSUME MakeSlave PROVE Good
  <2> DEFINE s == [NoSlave EXCEPT !.is = "open", !.taken = TRUE]
  <2>1. s.is = "open" /\ "a" \in Ends
    BY DEF NoSlave, Ends
  <2>2. slave' = [slave EXCEPT !["a"] = s] /\ reader' = reader
    BY <1>2 DEF MakeSlave, calls
  <2> HIDE DEF s
  <2> QED
    BY <1>0, <2>1, <2>2, OneOpens
<1>3. ASSUME TakeSlave PROVE Good
  <2> DEFINE s == [slave["b"] EXCEPT !.taken = TRUE]
  <2>1. "b" \in Ends
    BY DEF Ends
  <2>2. s.is = slave["b"].is /\ s.recvQ = slave["b"].recvQ
    BY <1>0, <2>1 DEF SlaveType
  <2>3. slave' = [slave EXCEPT !["b"] = s] /\ reader' = reader
    BY <1>3 DEF TakeSlave, calls
  <2> HIDE DEF s
  <2> QED
    BY <1>0, <2>1, <2>2, <2>3, OthersKeep
<1>4. ASSUME NEW w \in Writers PROVE EndOf[w] \in Ends
  BY MultiStreamAssumption DEF Ends
<1>5. ASSUME NEW e \in Ends, NEW n
      PROVE  /\ [slave[e] EXCEPT !.event = n].is = slave[e].is
             /\ [slave[e] EXCEPT !.event = n].recvQ = slave[e].recvQ
             /\ UseCredit(slave[e], n).is = slave[e].is /\ UseCredit(slave[e], n).recvQ = slave[e].recvQ
  BY <1>0 DEF SlaveType, UseCredit
<1>6. ASSUME NEW w \in Writers, NEW n \in Nat, NEW c, slave[EndOf[w]].credit >= n,
             Enqueue(w, UseCredit(slave[EndOf[w]], n), c), reader' = reader
      PROVE  Good
  <2> DEFINE e == EndOf[w]
             s == UseCredit(slave[e], n)
  <2>1. e \in Ends /\ slave[e] \in SlaveType
    BY <1>0, <1>4
  <2>2. slave[e].credit - n \in Nat
    BY <1>6, <2>1 DEF SlaveType
  <2>3. s \in SlaveType /\ s.is = slave[e].is /\ s.recvQ = slave[e].recvQ
    BY <2>1, <2>2 DEF SlaveType, UseCredit
  <2>4. Enqueue(w, s, c)
    BY <1>6
  <2> HIDE DEF s
  <2> QED
    BY <1>0, <1>6, <2>3, <2>4, EnqueueTells
<1>7. ASSUME NEW w \in Writers, slave' = [slave EXCEPT ![EndOf[w]].event = FALSE], reader' = reader PROVE Good
  <2> DEFINE s == [slave[EndOf[w]] EXCEPT !.event = FALSE]
  <2>1. s.is = slave[EndOf[w]].is /\ s.recvQ = slave[EndOf[w]].recvQ /\ EndOf[w] \in Ends
    BY <1>4, <1>5
  <2>2. slave' = [slave EXCEPT ![EndOf[w]] = s]
    BY <1>7
  <2> HIDE DEF s
  <2> QED
    BY <1>0, <1>7, <2>1, <2>2, OthersKeep
<1>8. ASSUME NEW w \in Writers, NEW size \in Sizes, NEW mode \in Modes, SendPacket(w, size, mode) PROVE Good
  <2> DEFINE c == [at |-> "credit", n |-> writer[w].n + 1, size |-> size, mode |-> mode, done |-> "unset"]
  <2>1. size \in Nat /\ reader' = reader
    BY <1>8, MultiStreamAssumption DEF SendPacket
  <2>2. \/ slave[EndOf[w]].credit >= size /\ Enqueue(w, UseCredit(slave[EndOf[w]], size), c)
        \/ slave' = [slave EXCEPT ![EndOf[w]].event = FALSE]
    BY <1>8 DEF SendPacket
  <2> HIDE DEF c, Good
  <2> QED
    BY <1>6, <1>7, <2>1, <2>2
<1>9. ASSUME NEW w \in Writers, CreditWake(w) PROVE Good
  <2>1. writer[w].size \in Nat /\ reader' = reader
    BY <1>0, <1>9 DEF CreditWake, TypeOK, WriterType
  <2>2. \/ slave[EndOf[w]].credit >= writer[w].size /\ Enqueue(w, UseCredit(slave[EndOf[w]], writer[w].size), writer[w])
        \/ slave' = slave
        \/ slave' = [slave EXCEPT ![EndOf[w]].event = FALSE]
    BY <1>9 DEF CreditWake
  <2> HIDE DEF Good
  <2> QED
    BY <1>1, <1>6, <1>7, <2>1, <2>2
<1>10. ASSUME NEW w \in Writers, PutGoesOn(w) PROVE Good
  <2>1. Enqueue(w, slave[EndOf[w]], writer[w]) /\ reader' = reader
    BY <1>10 DEF PutGoesOn
  <2> QED
    BY <1>0, <1>4, <2>1, EnqueueTells
<1>11. ASSUME NEW w \in Writers, SendReturns(w) PROVE Good
  <2> DEFINE e == EndOf[w]
             s == [slave[e] EXCEPT !.credit = @ + writer[w].size, !.event = TRUE]
  <2>1. e \in Ends /\ slave[e] \in SlaveType /\ reader' = reader
    BY <1>0, <1>4, <1>11 DEF SendReturns
  <2>2. s.is = slave[e].is /\ s.recvQ = slave[e].recvQ
    BY <2>1 DEF SlaveType
  <2>3. slave' = slave \/ slave' = [slave EXCEPT ![e] = s]
    BY <1>11, <2>1 DEF SendReturns
  <2> HIDE DEF s, e
  <2>4. CASE slave' = slave
    BY <1>1, <2>1, <2>4
  <2>5. CASE slave' = [slave EXCEPT ![e] = s]
    BY <1>0, <2>1, <2>2, <2>5, OthersKeep
  <2> QED
    BY <2>3, <2>4, <2>5
<1>12. ASSUME NEW e \in Ends, Close(e) PROVE Good
  <2> DEFINE s == [slave[e] EXCEPT !.closing = TRUE]
  <2>1. s \in SlaveType /\ s.is = slave[e].is /\ s.recvQ = slave[e].recvQ
    BY <1>0 DEF SlaveType
  <2>2. Push(e, s, Barrier) \/ slave' = [slave EXCEPT ![e] = s]
    BY <1>12 DEF Close
  <2>3. reader' = reader
    BY <1>12 DEF Close
  <2> HIDE DEF s
  <2> QED
    BY <1>0, <2>1, <2>2, <2>3, PushTells, OthersKeep
<1>13. ASSUME NEW e \in Ends, CloserStep(e) PROVE Good
  <2>1. CASE ClosePuts(e)
    <3>1. Push(e, slave[e], Barrier) /\ reader' = reader
      BY <2>1 DEF ClosePuts
    <3> QED
      BY <1>0, <3>1, PushTells
  <2>2. CASE CloseReturns(e)
    BY <1>1, <2>2 DEF CloseReturns
  <2> QED
    BY <1>13, <2>1, <2>2 DEF CloserStep
<1>14. ASSUME NEW e \in Ends, AbortSlave(e) PROVE Good
  <2>1. slave' = [slave EXCEPT ![e] = Finish(e, slave[e], "aborted", TRUE)] /\ reader' = reader
    BY <1>14 DEF AbortSlave, Discard
  <2> QED
    BY <1>0, <2>1, FinishWakes
<1>15. ASSUME NEW e \in Ends, NEW bytes \in NewCaps, SetReceivingCapacity(e, bytes) PROVE Good
  <2> DEFINE s == [slave[e] EXCEPT !.cap = bytes]
  <2>1. s.is = slave[e].is /\ s.recvQ = slave[e].recvQ
    BY <1>0 DEF SlaveType
  <2>2. slave' = [slave EXCEPT ![e] = s] /\ reader' = reader
    BY <1>15 DEF SetReceivingCapacity, calls
  <2> HIDE DEF s
  <2> QED
    BY <1>0, <2>1, <2>2, OthersKeep
<1> HIDE DEF Good
<1>16. Good
  BY <1>2, <1>3, <1>8, <1>9, <1>10, <1>11, <1>12, <1>13, <1>14, <1>15 DEF WriterStep
<1> QED
  BY <1>16 DEF Good

LEMMA MasterTells ==
    ASSUME Inv, NEW e \in Ends,
           FillBatch(e) \/ WriteFrame(e) \/ Receive(e) \/ MasterAborts(e) \/ PeerGone(e)
    PROVE  reader' = reader /\ \A d \in Ends : Tells(d)
<1> DEFINE Good == reader' = reader /\ \A d \in Ends : Tells(d)
<1>0. TypeOK /\ slave[e] \in SlaveType
  BY DEF Inv, TypeOK
<1>1. ASSUME slave' = slave, reader' = reader PROVE Good
  BY <1>1 DEF Tells, Keeps
<1>2. ASSUME NEW s, s.is = slave[e].is, s.recvQ = slave[e].recvQ, slave' = [slave EXCEPT ![e] = s], reader' = reader
      PROVE  Good
  BY <1>0, <1>2, OthersKeep
<1>3. ASSUME NEW s, s.is = "open", slave' = [slave EXCEPT ![e] = s], reader' = reader
      PROVE  Good
  BY <1>0, <1>3, OneOpens
<1>4. ASSUME NEW s \in SlaveType, NEW reason, NEW discard \in BOOLEAN,
             slave' = [slave EXCEPT ![e] = Finish(e, s, reason, discard)], reader' = reader
      PROVE  Good
  BY <1>0, <1>4, FinishWakes
<1>5. ASSUME FillBatch(e) PROVE Good
  <2> DEFINE n == IF Len(Pending(e)) < Batch THEN Len(Pending(e)) ELSE Batch
             c == IF n < Len(cmd[e]) THEN n ELSE Len(cmd[e])
             y == SubSeq(slave[e].sendQ, n - c + 1, Len(slave[e].sendQ))
             s == [slave[e] EXCEPT !.sendQ = y]
  <2>1. /\ slave' = [slave EXCEPT ![e] = Finish(e, s, "closed", FALSE)] \/ slave' = [slave EXCEPT ![e] = s]
        /\ reader' = reader
    BY <1>5 DEF FillBatch, calls
  <2>2. s.is = slave[e].is /\ s.recvQ = slave[e].recvQ
    BY <1>0 DEF SlaveType
  <2>3. Finish(e, s, "closed", FALSE).recvQ = WakeReceivers(e, slave[e].recvQ) /\ slave[e].recvQ \in Seq(Frames)
    BY <1>0, <2>2 DEF Finish, SlaveType
  <2> HIDE DEF s, y, c, n
  <2>4. CASE slave' = [slave EXCEPT ![e] = s]
    BY <1>2, <2>1, <2>2, <2>4
  <2>5. CASE slave' = [slave EXCEPT ![e] = Finish(e, s, "closed", FALSE)]
    <3>1. slave'[e] = Finish(e, s, "closed", FALSE) /\ \A d \in Ends : d # e => slave'[d] = slave[d]
      BY <1>0, <2>5 DEF TypeOK
    <3>2. Wakes(e)
      BY <2>3, <3>1 DEF Wakes
    <3> QED
      BY <2>1, <3>1, <3>2 DEF Tells, Keeps
  <2> QED
    BY <2>1, <2>4, <2>5
<1>6. ASSUME WriteFrame(e) PROVE Good
  BY <1>1, <1>6 DEF WriteFrame
<1>7. ASSUME OnData(e) PROVE Good
  <2>1. CASE Open(slave[e])
    <3> DEFINE s == [slave[e] EXCEPT !.recvQ = Append(@, Incoming(e))]
    <3>1. s.is = "open"
      BY <1>0, <2>1 DEF SlaveType, Open
    <3>2. slave' = [slave EXCEPT ![e] = s] /\ reader' = reader
      BY <1>7, <2>1 DEF OnData, calls
    <3> HIDE DEF s
    <3> QED
      BY <1>3, <3>1, <3>2
  <2>2. CASE ~Open(slave[e])
    BY <1>1, <1>7, <2>2 DEF OnData, calls
  <2> QED
    BY <2>1, <2>2
<1>8. ASSUME OnMake(e) PROVE Good
  <2> DEFINE s == [NoSlave EXCEPT !.is = "open", !.credit = Incoming(e).arg, !.event = TRUE]
  <2>1. s.is = "open"
    BY DEF NoSlave
  <2>2. slave' = [slave EXCEPT ![e] = s] /\ reader' = reader
    BY <1>8 DEF OnMake, calls
  <2> HIDE DEF s
  <2> QED
    BY <1>3, <2>1, <2>2
<1>9. ASSUME OnMade(e) PROVE Good
  <2>1. CASE Open(slave[e])
    <3> DEFINE s == [slave[e] EXCEPT !.credit = Incoming(e).arg, !.event = TRUE]
    <3>1. s.is = "open"
      BY <1>0, <2>1 DEF SlaveType, Open
    <3>2. slave' = [slave EXCEPT ![e] = s] /\ reader' = reader
      BY <1>0, <1>9, <2>1 DEF OnMade, calls, TypeOK
    <3> HIDE DEF s
    <3> QED
      BY <1>3, <3>1, <3>2
  <2>2. CASE ~Open(slave[e])
    BY <1>1, <1>9, <2>2 DEF OnMade, calls
  <2> QED
    BY <2>1, <2>2
<1>10. ASSUME OnReset(e) PROVE Good
  <2>1. CASE Open(slave[e])
    <3>1. PICK reason : slave' = [slave EXCEPT ![e] = Finish(e, slave[e], reason, TRUE)]
      BY <1>10, <2>1 DEF OnReset, Discard
    <3>2. reader' = reader
      BY <1>10 DEF OnReset
    <3> QED
      BY <1>0, <1>4, <3>1, <3>2
  <2>2. CASE ~Open(slave[e])
    BY <1>1, <1>10, <2>2 DEF OnReset
  <2> QED
    BY <2>1, <2>2
<1>11. ASSUME OnWindow(e) PROVE Good
  <2>1. CASE Open(slave[e])
    <3> DEFINE s == AddSendCredit(slave[e], Incoming(e).arg)
    <3>1. s.is = "open"
      BY <1>0, <2>1 DEF SlaveType, Open, AddSendCredit
    <3>2. slave' = [slave EXCEPT ![e] = s] /\ reader' = reader
      BY <1>11, <2>1 DEF OnWindow, calls
    <3> HIDE DEF s
    <3> QED
      BY <1>3, <3>1, <3>2
  <2>2. CASE ~Open(slave[e])
    BY <1>1, <1>11, <2>2 DEF OnWindow, calls
  <2> QED
    BY <2>1, <2>2
<1>12. ASSUME Abort(e) PROVE Good
  <2>1. reader' = reader
    BY <1>12 DEF Abort
  <2>2. CASE Open(slave[e])
    <3>1. slave' = [slave EXCEPT ![e] = Finish(e, slave[e], "broken", TRUE)]
      BY <1>12, <2>2 DEF Abort
    <3> QED
      BY <1>0, <1>4, <2>1, <3>1
  <2>3. CASE ~Open(slave[e])
    BY <1>1, <1>12, <2>1, <2>3 DEF Abort
  <2> QED
    BY <2>2, <2>3
<1> HIDE DEF Good
<1>13. Good
  BY <1>5, <1>6, <1>7, <1>8, <1>9, <1>10, <1>11, <1>12 DEF Receive, MasterAborts, PeerGone
<1> QED
  BY <1>13 DEF Good

LEMMA ToldInductive ==
    ASSUME OneReader, Inv, ReceiversAreTold, Next
    PROVE  ReceiversAreTold'
<1>0. TypeOK
  BY DEF Inv
<1>1. ASSUME NEW r \in Readers, RecvBlocks(r) PROVE ReceiversAreTold'
  <2>1. slave' = slave /\ reader' = [reader EXCEPT ![r] = "get"] /\ Open(slave[EndOf[r]])
    BY <1>1 DEF RecvBlocks
  <2> SUFFICES ASSUME NEW d \in Ends, Ended(slave'[d]), ReadersIn(d)' # {} PROVE slave'[d].recvQ # <<>>
    BY DEF ReceiversAreTold, Ended
  <2>2. d # EndOf[r]
    BY <2>1 DEF Ended, Open
  <2>3. ReadersIn(d)' \subseteq ReadersIn(d)
    BY <1>0, <2>1, <2>2 DEF ReadersIn, TypeOK
  <2> QED
    BY <2>1, <2>3 DEF ReceiversAreTold
<1>2. ASSUME NEW r \in Readers, RecvPacket(r) PROVE ReceiversAreTold'
  <2> DEFINE e == EndOf[r]
  <2>1. e \in Ends
    BY MultiStreamAssumption DEF Ends
  <2>2. reader' = [reader EXCEPT ![r] = "idle"] /\ \E s : slave' = [slave EXCEPT ![e] = s]
    BY <1>2 DEF RecvPacket
  <2>3. \A d \in Ends : d # e => slave'[d] = slave[d]
    BY <1>0, <2>2 DEF TypeOK
  <2> SUFFICES ASSUME NEW d \in Ends, Ended(slave'[d]), ReadersIn(d)' # {} PROVE slave'[d].recvQ # <<>>
    BY DEF ReceiversAreTold, Ended
  <2>4. PICK q \in Readers : EndOf[q] = d /\ reader'[q] = "get"
    BY DEF ReadersIn
  <2>5. q # r /\ reader[q] = "get"
    BY <1>0, <2>2, <2>4 DEF TypeOK
  <2>6. d # e
    BY <2>4, <2>5 DEF OneReader
  <2>7. q \in ReadersIn(d)
    BY <2>4, <2>5 DEF ReadersIn
  <2> QED
    BY <2>3, <2>6, <2>7 DEF ReceiversAreTold
<1>3. ASSUME \/ MakeSlave \/ TakeSlave
             \/ \E w \in Writers : WriterStep(w) \/ \E size \in Sizes, mode \in Modes : SendPacket(w, size, mode)
             \/ \E e \in Ends : \/ Close(e) \/ CloserStep(e) \/ AbortSlave(e)
                                \/ \E bytes \in NewCaps : SetReceivingCapacity(e, bytes)
      PROVE  ReceiversAreTold'
  BY <1>0, <1>3, ApplicationTells, ToldKept
<1>4. ASSUME NEW e \in Ends, FillBatch(e) \/ WriteFrame(e) \/ Receive(e) \/ MasterAborts(e) \/ PeerGone(e)
      PROVE  ReceiversAreTold'
  BY <1>0, <1>4, MasterTells, ToldKept
<1> QED
  BY <1>1, <1>2, <1>3, <1>4 DEF Next, ReaderStep

\* With one receiver at each slave: when close(), abort(), a RESET or the loss of the
\* connection ends a slave, a receiver that sleeps in receivingQueue.get() has something to
\* wake up for, until it has taken it.
THEOREM SleepingReceiversAreTold ==
    ASSUME OneReader
    PROVE  Spec => []ReceiversAreTold
<1>1. Init => Inv /\ ReceiversAreTold
  <2>1. Init => ReceiversAreTold
    BY DEF Init, ReceiversAreTold, Ended, NoSlave, Ends
  <2> QED
    BY <2>1, InvInit
<1>2. Inv /\ ReceiversAreTold /\ [Next]_vars => Inv' /\ ReceiversAreTold'
  <2> SUFFICES ASSUME Inv, ReceiversAreTold, [Next]_vars PROVE Inv' /\ ReceiversAreTold'
    OBVIOUS
  <2>1. CASE Next
    BY <2>1, InvNext, ToldInductive
  <2>2. CASE UNCHANGED vars
    <3>1. slave' = slave /\ reader' = reader
      BY <2>2 DEF vars, calls
    <3>2. ReceiversAreTold'
      BY <3>1 DEF ReceiversAreTold, ReadersIn, Ended
    <3> QED
      BY <2>2, <3>2, InvStutter
  <2> QED
    BY <2>1, <2>2
<1> QED
  BY <1>1, <1>2, PTL DEF Spec
================================================================================
