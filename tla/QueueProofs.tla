------------------------------ MODULE QueueProofs ------------------------------
(***************************************************************************)
(* Proofs about Queue, for any coroutines, elements, sizes and capacities, *)
(* and about Condition, whose list is kept by the same kind of loop.       *)
(***************************************************************************)
EXTENDS Queue, Condition, SequenceTheorems, WellFoundedInduction, TLAPS

\* Every set of numbers has a smallest one: induction, as a fact about sets.
LEMMA LeastNumber ==
    ASSUME NEW T \in SUBSET Nat, T # {}
    PROVE  \E m \in T : \A n \in T : m <= n
<1> DEFINE R == {ss \in Nat \X Nat : ss[1] < ss[2]}
<1>1. R = OpToRel(<, Nat)
  BY DEF OpToRel
<1>2. IsWellFoundedOn(R, Nat)
  BY <1>1, NatLessThanWellFounded
<1>3. PICK m \in T : \A n \in T : ~(<<n, m>> \in R)
  <2> HIDE DEF R
  <2> QED
    BY <1>2, WFMin
<1>4. \A n \in T : n < m => <<n, m>> \in R
  BY SMT
<1>5. \A n \in T : ~(n < m)
  <2> HIDE DEF R
  <2> QED
    BY <1>3, <1>4, Zenon
<1> QED
  BY <1>5

\* What one turn of the loop of remove() makes of the results so far.
Turn(q, e, g, i) == IF i = 0 THEN <<>>
                    ELSE IF q[i] = e THEN g[i - 1] ELSE Append(g[i - 1], q[i])

\* The loop of remove() is well defined: it gives a result for every prefix.
LEMMA LoopExists ==
    ASSUME NEW S, NEW q \in Seq(S), NEW e
    PROVE  \E g : g = [i \in 0..Len(q) |-> Turn(q, e, g, i)]
<1> DEFINE Good(n) == \E g : g = [i \in 0..n |-> Turn(q, e, g, i)]
           Bad == {n \in 0..Len(q) : ~Good(n)}
<1>1. SUFFICES Bad = {}
  <2>1. Len(q) \in 0..Len(q)
    OBVIOUS
  <2> QED
    BY <1>1, <2>1, Zenon
<1>2. SUFFICES ASSUME Bad # {} PROVE FALSE
  OBVIOUS
<1>3. PICK m \in Bad : \A n \in Bad : m <= n
  <2>1. Bad \in SUBSET Nat
    OBVIOUS
  <2> QED
    BY <1>2, <2>1, LeastNumber
<1>4. m \in 0..Len(q) /\ ~Good(m)
  OBVIOUS
<1>5. m # 0
  <2>1. Good(0)
    <3> DEFINE g == [i \in 0..0 |-> <<>>]
    <3>1. g = [i \in 0..0 |-> Turn(q, e, g, i)]
      BY DEF Turn
    <3> QED
      BY <3>1
  <2> QED
    BY <2>1, <1>4
<1>6. m - 1 \in 0..Len(q) /\ m - 1 \notin Bad
  BY <1>3, <1>4, <1>5
<1>7. PICK h : h = [i \in 0..(m - 1) |-> Turn(q, e, h, i)]
  BY <1>6
<1> DEFINE g == [i \in 0..m |-> Turn(q, e, h, i)]
<1>8. \A i \in 0..(m - 1) : g[i] = h[i]
  BY <1>7, <1>4
<1>9. \A i \in 0..m : Turn(q, e, g, i) = Turn(q, e, h, i)
  <2> SUFFICES ASSUME NEW i \in 0..m PROVE Turn(q, e, g, i) = Turn(q, e, h, i)
    OBVIOUS
  <2>1. i = 0 \/ g[i - 1] = h[i - 1]
    BY <1>8, <1>4
  <2> QED
    BY <2>1 DEF Turn
<1>10. g = [i \in 0..m |-> Turn(q, e, g, i)]
  BY <1>9, Zenon
<1>11. Good(m)
  BY <1>10, Zenon
<1> QED
  BY <1>11, <1>4

\* f places t in the first n elements of q: every element of t where it was,
\* in order, and no element but e left out.
Places(f, t, q, e, n) ==
    /\ f \in [1..Len(t) -> 1..n]
    /\ \A i, j \in 1..Len(t) : i < j => f[i] < f[j]
    /\ \A k \in 1..n : q[k] # e => \E i \in 1..Len(t) : f[i] = k
    /\ \A i \in 1..Len(t) : t[i] = q[f[i]] /\ q[f[i]] # e

\* remove() keeps every element that is not equal to its argument, in order,
\* and no other.
LEMMA ErasedIsLeft ==
    ASSUME NEW S, NEW q \in Seq(S), NEW e
    PROVE  Erased(q, e) \in Seq(S) /\ Abstract!LeftOf(Erased(q, e), q, e)
<1> DEFINE kept[i \in 0..Len(q)] == Turn(q, e, kept, i)
<1>1. kept = [i \in 0..Len(q) |-> Turn(q, e, kept, i)]
  BY LoopExists, Zenon
<1>2. Erased(q, e) = kept[Len(q)]
  BY DEF Erased, Turn
<1> HIDE DEF kept
<1> DEFINE Good(n) == kept[n] \in Seq(S) /\ \E f : Places(f, kept[n], q, e, n)
           Bad == {n \in 0..Len(q) : ~Good(n)}
<1>3. Bad = {}
  <2> SUFFICES ASSUME Bad # {} PROVE FALSE
    OBVIOUS
  <2>1. PICK m \in Bad : \A n \in Bad : m <= n
    <3>1. Bad \in SUBSET Nat
      OBVIOUS
    <3> QED
      BY <3>1, LeastNumber
  <2>2. m \in 0..Len(q) /\ ~Good(m) /\ Len(q) \in Nat
    OBVIOUS
  <2>3. m # 0
    <3>1. kept[0] = <<>>
      BY <1>1 DEF Turn
    <3>2. <<>> \in Seq(S) /\ Len(<<>>) = 0
      OBVIOUS
    <3>3. Places([i \in 1..0 |-> 0], <<>>, q, e, 0)
      BY <3>2 DEF Places
    <3>4. Good(0)
      BY <3>1, <3>2, <3>3, Zenon
    <3> QED
      BY <3>4, <2>2
  <2>4. m - 1 \in 0..Len(q) /\ m - 1 \notin Bad
    BY <2>1, <2>2, <2>3
  <2> DEFINE t == kept[m - 1]
  <2>5. PICK f : t \in Seq(S) /\ Places(f, t, q, e, m - 1)
    BY <2>4
  <2>6. kept[m] = IF q[m] = e THEN t ELSE Append(t, q[m])
    BY <1>1, <2>2, <2>3 DEF Turn
  <2>7. q[m] \in S /\ m \in 1..Len(q)
    BY <2>2, <2>3
  <2> HIDE DEF t
  <2>8. CASE q[m] = e
    <3>1. Places(f, t, q, e, m)
      BY <2>5, <2>7, <2>8 DEF Places
    <3> QED
      BY <3>1, <2>5, <2>6, <2>8, <2>2, Zenon
  <2>9. CASE q[m] # e
    <3> DEFINE u == Append(t, q[m])
               g == [i \in 1..Len(u) |-> IF i = Len(u) THEN m ELSE f[i]]
    <3>1. /\ u \in Seq(S) /\ Len(u) = Len(t) + 1 /\ Len(t) \in Nat
          /\ u[Len(u)] = q[m]
          /\ \A i \in 1..Len(t) : u[i] = t[i]
      BY <2>5, <2>7
    <3> HIDE DEF u
    <3>2. g \in [1..Len(u) -> 1..m]
      BY <3>1, <2>5, <2>7 DEF Places
    <3>3. ASSUME NEW i \in 1..Len(u), NEW j \in 1..Len(u), i < j
          PROVE  g[i] < g[j]
      <4> f \in [1..Len(t) -> 1..(m - 1)]
        BY <2>5 DEF Places
      <4>1. i \in 1..Len(t) /\ g[i] = f[i] /\ f[i] \in 1..(m - 1)
        BY <3>1, <3>3, <2>7
      <4>2. CASE j = Len(u)
        BY <4>1, <4>2, <2>7
      <4>3. CASE j # Len(u)
        <5>1. j \in 1..Len(t) /\ g[j] = f[j]
          BY <3>1, <4>3
        <5>2. f[i] < f[j]
          BY <4>1, <5>1, <3>3, <2>5, Zenon DEF Places
        <5> QED
          BY <4>1, <5>1, <5>2
      <4> QED
        BY <4>2, <4>3
    <3>4. \A k \in 1..m : q[k] # e => \E i \in 1..Len(u) : g[i] = k
      <4> SUFFICES ASSUME NEW k \in 1..m, q[k] # e
                   PROVE  \E i \in 1..Len(u) : g[i] = k
        OBVIOUS
      <4>1. CASE k = m
        <5>1. Len(u) \in 1..Len(u) /\ g[Len(u)] = m
          BY <3>1
        <5> QED
          BY <4>1, <5>1, Zenon
      <4>2. CASE k # m
        <5>1. k \in 1..(m - 1)
          BY <4>2, <2>7
        <5>2. PICK i \in 1..Len(t) : f[i] = k
          BY <5>1, <2>5 DEF Places
        <5>3. i \in 1..Len(u) /\ g[i] = k
          BY <5>2, <3>1
        <5> QED
          BY <5>3, Zenon
      <4> QED
        BY <4>1, <4>2
    <3>5. \A i \in 1..Len(u) : u[i] = q[g[i]] /\ q[g[i]] # e
      BY <3>1, <2>5, <2>7, <2>9 DEF Places
    <3>6. Places(g, u, q, e, m)
      BY <3>2, <3>3, <3>4, <3>5, Zenon DEF Places
    <3>7. kept[m] = u
      BY <2>6, <2>9 DEF u
    <3> QED
      BY <3>1, <3>6, <3>7, <2>2, Zenon
  <2> QED
    BY <2>8, <2>9
<1>4. Len(q) \in 0..Len(q)
  OBVIOUS
<1>5. Good(Len(q))
  BY <1>3, <1>4, Zenon
<1> DEFINE r == kept[Len(q)]
<1>6. PICK f : Places(f, r, q, e, Len(q))
  BY <1>5
<1>7. r \in Seq(S) /\ r = [i \in 1..Len(r) |-> r[i]]
  BY <1>5
<1> HIDE DEF r
<1>8. f \in [1..Len(r) -> {i \in 1..Len(q) : q[i] # e}]
  BY <1>6 DEF Places
<1>9. r = [i \in 1..Len(r) |-> q[f[i]]]
  BY <1>6, <1>7 DEF Places
<1>10. Abstract!LeftOf(r, q, e)
  BY <1>6, <1>8, <1>9, Zenon DEF Abstract!LeftOf, Places
<1> QED
  BY <1>2, <1>7, <1>10 DEF r
--------------------------------------------------------------------------------
\* close() leaves both latches set, and they stay set: nobody parks on an event
\* of a closed queue that nobody will set again.
ClosedKeepsLatches == m_closed => ev["notEmpty"].flag /\ ev["notFull"].flag

\* The arguments of a call that is blocked are those it was made with.
CallIsWellFormed(w) ==
    /\ w.op \in {"put", "returns"} => w.e \in Element
    /\ w.op \in {"get", "waitNotEmpty"} => w.e = Default
    /\ w.op \in {"get", "returns"} => w.msecs = "forever"
    /\ w.op = "idle" <=> w.msecs = "zero"
CallsAreWellFormed == \A c \in Coroutine : CallIsWellFormed(call[c])

IndInv ==
    /\ TypeOK
    /\ LatchesTell
    /\ ClosedKeepsLatches
    /\ CallsAreWellFormed

\* What the operations on one event do to both.
LEMMA EventOpsKeep ==
    ASSUME NEW s \in [Latches -> EventType], NEW e \in Latches
    PROVE  /\ set(s, e) \in [Latches -> EventType]
           /\ set(s, e)[e].flag
           /\ \A x \in Latches \ {e} : set(s, e)[x] = s[x]
           /\ clear(s, e) \in [Latches -> EventType]
           /\ ~clear(s, e)[e].flag
           /\ \A x \in Latches \ {e} : clear(s, e)[x] = s[x]
           /\ \A c \in Coroutine : /\ park(s, e, c) \in [Latches -> EventType]
                                   /\ leave(s, e, c) \in [Latches -> EventType]
           /\ \A c \in Coroutine, x \in Latches :
                 /\ park(s, e, c)[x].flag = s[x].flag
                 /\ leave(s, e, c)[x].flag = s[x].flag
<1>1. s[e] \in EventType
  OBVIOUS
<1>2. /\ set(s, e) \in [Latches -> EventType] /\ set(s, e)[e].flag
      /\ \A x \in Latches \ {e} : set(s, e)[x] = s[x]
  BY <1>1 DEF set, EventType
<1>3. /\ clear(s, e) \in [Latches -> EventType] /\ ~clear(s, e)[e].flag
      /\ \A x \in Latches \ {e} : clear(s, e)[x] = s[x]
  BY <1>1 DEF clear, EventType
<1>4. \A c \in Coroutine : park(s, e, c) \in [Latches -> EventType]
  BY <1>1 DEF park, EventType
<1>5. \A c \in Coroutine : leave(s, e, c) \in [Latches -> EventType]
  BY <1>1 DEF leave, EventType
<1>6. \A c \in Coroutine, x \in Latches :
         /\ park(s, e, c)[x].flag = s[x].flag
         /\ leave(s, e, c)[x].flag = s[x].flag
  BY <1>1 DEF park, leave, EventType
<1> QED
  BY <1>2, <1>3, <1>4, <1>5, <1>6

\* The invariant holds in a new queue.
LEMMA InitIndInv == Init => IndInv
<1> SUFFICES ASSUME Init PROVE IndInv
  OBVIOUS
<1>1. TypeOK
  <2>1. queue \in Seq(Element) /\ currentSize \in Int /\ mCapacity \in Capacities
    BY DEF Init
  <2>2. m_closed \in BOOLEAN
    BY DEF Init
  <2>3. \A b \in BOOLEAN : NewEvent(b) \in EventType
    BY DEF NewEvent, EventType
  <2>4. ev \in [Latches -> EventType]
    BY <2>3 DEF Init
  <2>5. call \in [Coroutine -> CallType]
    BY DEF Init, CallType, Returned, Blocking, Results, Limits
  <2> QED
    BY <2>1, <2>2, <2>4, <2>5 DEF TypeOK
<1>2. LatchesTell
  BY QueueAssumption DEF Init, LatchesTell, NewEvent, Latches
<1>3. ClosedKeepsLatches
  BY DEF Init, ClosedKeepsLatches
<1>4. CallsAreWellFormed
  BY DEF Init, CallsAreWellFormed, CallIsWellFormed, Returned
<1> QED
  BY <1>1, <1>2, <1>3, <1>4 DEF IndInv

\* What a call that returns or blocks leaves in `call'.
LEMMA CallChanges ==
    ASSUME call \in [Coroutine -> CallType], CallsAreWellFormed, NEW c \in Coroutine,
           NEW w \in CallType, CallIsWellFormed(w), call' = [call EXCEPT ![c] = w]
    PROVE  call' \in [Coroutine -> CallType] /\ CallsAreWellFormed'
  BY DEF CallsAreWellFormed

\* A call that has returned is well formed.
LEMMA ReturnedIsCall ==
    ASSUME NEW r \in Results
    PROVE  Returned(r) \in CallType /\ CallIsWellFormed(Returned(r))
  BY DEF Returned, CallType, Limits, CallIsWellFormed, Blocking

\* Adding an element keeps the invariant.
LEMMA InsertKeeps ==
    ASSUME IndInv, NEW c \in Coroutine, NEW e \in Element,
           NEW q \in Seq(Element), q # <<>>,
           NEW s \in [Latches -> EventType], \A x \in Latches : s[x].flag = ev[x].flag,
           Insert(c, e, q, s)
    PROVE  IndInv'
<1> USE QueueAssumption DEF Latches
<1>0. "true" \in Results /\ "false" \in Results
  BY DEF Results
<1>1. TypeOK
  BY DEF IndInv
<1>2. call' \in [Coroutine -> CallType] /\ CallsAreWellFormed'
  BY <1>0, <1>1, CallChanges, ReturnedIsCall DEF TypeOK, IndInv, Insert, Return
<1>3. CASE m_closed
  <2>1. ev' = s /\ UNCHANGED <<queue, currentSize, mCapacity, m_closed>>
    BY <1>3 DEF Insert
  <2>2. TypeOK'
    BY <2>1, <1>1, <1>2 DEF TypeOK
  <2> QED
    BY <2>1, <2>2, <1>2 DEF IndInv, LatchesTell, ClosedKeepsLatches
<1>4. CASE ~m_closed
  <2> DEFINE s1 == set(s, "notEmpty")
  <2>1. /\ queue' = q /\ currentSize' = currentSize + Size[e]
        /\ ev' = IF currentSize' >= mCapacity THEN clear(s1, "notFull") ELSE s1
        /\ UNCHANGED <<mCapacity, m_closed>>
    BY <1>4 DEF Insert
  <2>2. /\ s1 \in [Latches -> EventType] /\ s1["notEmpty"].flag
        /\ s1["notFull"].flag = ev["notFull"].flag
    BY EventOpsKeep
  <2> HIDE DEF s1
  <2>3. /\ clear(s1, "notFull") \in [Latches -> EventType]
        /\ clear(s1, "notFull")["notEmpty"].flag
        /\ ~clear(s1, "notFull")["notFull"].flag
    BY <2>2, EventOpsKeep
  <2>4. currentSize' \in Int /\ Size[e] \in Nat /\ mCapacity \in Nat /\ currentSize \in Int
    BY <2>1, <1>1 DEF TypeOK
  <2>5. ev' \in [Latches -> EventType] /\ ev'["notEmpty"].flag
    BY <2>1, <2>2, <2>3
  <2>6. mCapacity > 0 => (ev'["notFull"].flag <=> currentSize' < mCapacity)
    BY <2>1, <2>2, <2>3, <2>4, <1>4 DEF IndInv, LatchesTell
  <2>7. TypeOK'
    BY <2>1, <2>4, <2>5, <1>1, <1>2 DEF TypeOK
  <2> QED
    BY <2>1, <2>5, <2>6, <2>7, <1>2, <1>4 DEF IndInv, LatchesTell, ClosedKeepsLatches
<1> QED
  BY <1>3, <1>4

\* Taking the head, and finding none, keep the invariant.
LEMMA TakeKeeps ==
    ASSUME IndInv, NEW c \in Coroutine,
           NEW s \in [Latches -> EventType], \A x \in Latches : s[x].flag = ev[x].flag,
           Take(c, s)
    PROVE  IndInv'
<1> USE QueueAssumption DEF Latches
<1>1. TypeOK /\ mCapacity \in Nat
  BY DEF IndInv, TypeOK
<1>2. CASE TakeHead(c, s)
  <2> DEFINE s1 == IF queue' = <<>> /\ ~m_closed THEN clear(s, "notEmpty") ELSE s
  <2>1. /\ queue # <<>> /\ queue' = Tail(queue)
        /\ currentSize' = currentSize - Size[Head(queue)]
        /\ ev' = IF currentSize' < mCapacity THEN set(s1, "notFull") ELSE s1
        /\ call' = [call EXCEPT ![c] = Returned(Head(queue))]
        /\ UNCHANGED <<mCapacity, m_closed>>
    BY <1>2 DEF TakeHead, Return
  <2>2. /\ Head(queue) \in Element /\ Tail(queue) \in Seq(Element)
        /\ Size[Head(queue)] \in Nat /\ currentSize \in Int
    BY <2>1, <1>1 DEF TypeOK
  <2>3. Head(queue) \in Results
    BY <2>2 DEF Results
  <2>4. call' \in [Coroutine -> CallType] /\ CallsAreWellFormed'
    BY <2>1, <2>3, <1>1, CallChanges, ReturnedIsCall DEF TypeOK, IndInv
  <2>5. /\ s1 \in [Latches -> EventType]
        /\ queue' # <<>> => s1["notEmpty"].flag
        /\ m_closed => s1["notEmpty"].flag /\ s1["notFull"].flag
        /\ s1["notFull"].flag = ev["notFull"].flag
    BY <2>1, EventOpsKeep DEF IndInv, LatchesTell, ClosedKeepsLatches
  <2> HIDE DEF s1
  <2>6. /\ set(s1, "notFull") \in [Latches -> EventType]
        /\ set(s1, "notFull")["notFull"].flag
        /\ set(s1, "notFull")["notEmpty"] = s1["notEmpty"]
    BY <2>5, EventOpsKeep
  <2>7. ev' \in [Latches -> EventType] /\ (queue' # <<>> => ev'["notEmpty"].flag)
    BY <2>1, <2>5, <2>6
  <2>8. m_closed => ev'["notEmpty"].flag /\ ev'["notFull"].flag
    BY <2>1, <2>5, <2>6
  <2>9. ~m_closed /\ mCapacity > 0 => (ev'["notFull"].flag <=> currentSize' < mCapacity)
    BY <2>1, <2>2, <2>5, <2>6, <1>1 DEF IndInv, LatchesTell
  <2>10. TypeOK'
    BY <2>1, <2>2, <2>4, <2>7, <1>1 DEF TypeOK
  <2> QED
    BY <2>1, <2>4, <2>7, <2>8, <2>9, <2>10 DEF IndInv, LatchesTell, ClosedKeepsLatches
<1>3. CASE /\ queue = <<>> /\ m_closed /\ ev' = s /\ Return(c, Default)
           /\ UNCHANGED <<queue, currentSize, mCapacity, m_closed>>
  <2>1. Default \in Results
    BY DEF Results
  <2>2. call' \in [Coroutine -> CallType] /\ CallsAreWellFormed'
    BY <2>1, <1>1, <1>3, CallChanges, ReturnedIsCall DEF TypeOK, IndInv, Return
  <2>3. TypeOK'
    BY <2>2, <1>1, <1>3 DEF TypeOK
  <2> QED
    BY <2>2, <2>3, <1>3 DEF IndInv, LatchesTell, ClosedKeepsLatches
<1>4. CASE /\ queue = <<>> /\ ~m_closed
           /\ ev' = park(clear(s, "notEmpty"), "notEmpty", c)
           /\ call' = [call EXCEPT ![c] = BlockedIn("get", Default, "forever")]
           /\ UNCHANGED <<queue, currentSize, mCapacity, m_closed>>
  <2> DEFINE w == BlockedIn("get", Default, "forever")
  <2>1. w \in CallType /\ CallIsWellFormed(w)
    BY DEF CallType, BlockedIn, CallIsWellFormed, Results, Limits, Blocking
  <2>2. call' \in [Coroutine -> CallType] /\ CallsAreWellFormed'
    <3> HIDE DEF w
    <3>1. call' = [call EXCEPT ![c] = w]
      BY <1>4 DEF w
    <3> QED
      BY <3>1, <2>1, <1>1, CallChanges DEF TypeOK, IndInv
  <2> DEFINE s1 == clear(s, "notEmpty")
  <2>3. /\ s1 \in [Latches -> EventType] /\ s1["notFull"].flag = ev["notFull"].flag
        /\ ev' = park(s1, "notEmpty", c)
    BY <1>4, EventOpsKeep
  <2> HIDE DEF s1
  <2>4. ev' \in [Latches -> EventType] /\ ev'["notFull"].flag = ev["notFull"].flag
    BY <2>3, EventOpsKeep
  <2>5. TypeOK'
    BY <2>2, <2>4, <1>1, <1>4 DEF TypeOK
  <2> QED
    BY <2>2, <2>4, <2>5, <1>4 DEF IndInv, LatchesTell, ClosedKeepsLatches
<1> QED
  BY <1>2, <1>3, <1>4 DEF Take

\* So does whatever a call does behind tryWait().
LEMMA ProceedKeeps ==
    ASSUME IndInv, NEW c \in Coroutine, NEW op, NEW e,
           op \in {"put", "returns"} => e \in Element,
           NEW s \in [Latches -> EventType], \A x \in Latches : s[x].flag = ev[x].flag,
           Proceed(c, op, e, s)
    PROVE  IndInv'
<1>1. queue \in Seq(Element)
  BY DEF IndInv, TypeOK
<1>2. CASE op = "put" /\ Insert(c, e, Append(queue, e), s)
  <2>1. e \in Element /\ Append(queue, e) \in Seq(Element)
    BY <1>1, <1>2
  <2>2. Append(queue, e) # <<>>
    BY <2>1, <1>1, AppendProperties
  <2> QED
    BY <2>1, <2>2, <1>2, InsertKeeps
<1>3. CASE op = "returns" /\ Insert(c, e, <<e>> \o queue, s)
  <2>1. e \in Element /\ <<e>> \o queue \in Seq(Element) /\ <<e>> \o queue # <<>>
    BY <1>1, <1>3
  <2> QED
    BY <2>1, <1>3, InsertKeeps
<1>4. CASE op = "get" /\ Take(c, s)
  BY <1>4, TakeKeeps
<1>5. CASE /\ op = "waitNotEmpty" /\ ev' = s /\ Return(c, "true")
           /\ UNCHANGED <<queue, currentSize, mCapacity, m_closed>>
  <2>1. "true" \in Results
    BY DEF Results
  <2>2. call' \in [Coroutine -> CallType] /\ CallsAreWellFormed'
    BY <2>1, <1>5, CallChanges, ReturnedIsCall DEF TypeOK, IndInv, Return
  <2>3. TypeOK'
    BY <2>2, <1>5 DEF IndInv, TypeOK
  <2> QED
    BY <2>2, <2>3, <1>5 DEF IndInv, LatchesTell, ClosedKeepsLatches, Latches
<1> QED
  BY <1>2, <1>3, <1>4, <1>5 DEF Proceed

\* A step that moves c in the lists of the events, and nothing else but its
\* call, keeps the invariant.
LEMMA FlagsUnchanged ==
    ASSUME IndInv, UNCHANGED <<queue, currentSize, mCapacity, m_closed>>,
           ev' \in [Latches -> EventType], \A x \in Latches : ev'[x].flag = ev[x].flag,
           call' \in [Coroutine -> CallType], CallsAreWellFormed'
    PROVE  IndInv'
<1>1. TypeOK'
  BY DEF IndInv, TypeOK
<1> QED
  BY <1>1 DEF IndInv, LatchesTell, ClosedKeepsLatches, Latches

\* A call made now keeps the invariant.
LEMMA CallKeeps ==
    ASSUME IndInv, NEW c \in Coroutine, NEW op \in Blocking, NEW e \in Results,
           NEW msecs \in Limits,
           CallIsWellFormed(BlockedIn(op, e, msecs)) \/ msecs = "zero",
           op \in {"put", "returns"} => e \in Element,
           CallNow(c, op, e, msecs) \/ CallBlock(c, op, e, msecs)
    PROVE  IndInv'
<1>1. TypeOK /\ CallsAreWellFormed
  BY DEF IndInv
<1>2. CASE CallNow(c, op, e, msecs)
  <2>1. CASE ev[WaitsFor(op)].flag
    BY <2>1, <1>1, <1>2, ProceedKeeps DEF CallNow, TypeOK
  <2>2. CASE ~ev[WaitsFor(op)].flag
    <3>1. /\ Return(c, "false")
          /\ UNCHANGED <<queue, currentSize, mCapacity, m_closed, ev>>
      BY <2>2, <1>2 DEF CallNow
    <3>2. "false" \in Results
      BY DEF Results
    <3>3. call' \in [Coroutine -> CallType] /\ CallsAreWellFormed'
      BY <3>1, <3>2, <1>1, CallChanges, ReturnedIsCall DEF TypeOK, Return
    <3> QED
      BY <3>1, <3>3, <1>1, FlagsUnchanged DEF TypeOK
  <2> QED
    BY <2>1, <2>2
<1>3. CASE CallBlock(c, op, e, msecs)
  <2>1. /\ ev' = park(ev, WaitsFor(op), c) /\ msecs # "zero"
        /\ call' = [call EXCEPT ![c] = BlockedIn(op, e, msecs)]
        /\ UNCHANGED <<queue, currentSize, mCapacity, m_closed>>
    BY <1>3 DEF CallBlock
  <2>2. WaitsFor(op) \in Latches
    BY DEF WaitsFor, Latches
  <2>3. BlockedIn(op, e, msecs) \in CallType
    BY DEF BlockedIn, CallType
  <2>4. call' \in [Coroutine -> CallType] /\ CallsAreWellFormed'
    BY <2>1, <2>3, <1>1, CallChanges DEF TypeOK
  <2>5. ev' \in [Latches -> EventType] /\ \A x \in Latches : ev'[x].flag = ev[x].flag
    BY <2>1, <2>2, <1>1, EventOpsKeep DEF TypeOK
  <2> QED
    BY <2>1, <2>4, <2>5, FlagsUnchanged
<1> QED
  BY <1>2, <1>3

\* The end of a wait keeps it.
LEMMA WakeKeeps ==
    ASSUME IndInv, NEW c \in Coroutine, Wake(c) \/ Timeout(c) \/ Kill(c)
    PROVE  IndInv'
<1> DEFINE w == call[c]
           e == WaitsFor(w.op)
           s == leave(ev, e, c)
<1>1. TypeOK /\ CallsAreWellFormed /\ "false" \in Results /\ "killed" \in Results
  BY DEF IndInv, Results
<1>2. w \in CallType /\ CallIsWellFormed(w) /\ e \in Latches
  BY <1>1 DEF TypeOK, CallsAreWellFormed, WaitsFor, Latches
<1>3. s \in [Latches -> EventType] /\ \A x \in Latches : s[x].flag = ev[x].flag
  BY <1>1, <1>2, EventOpsKeep DEF TypeOK
<1>4. ASSUME NEW r \in Results, ev' = s, Return(c, r),
             UNCHANGED <<queue, currentSize, mCapacity, m_closed>>
      PROVE  IndInv'
  <2>1. call' \in [Coroutine -> CallType] /\ CallsAreWellFormed'
    BY <1>1, <1>4, CallChanges, ReturnedIsCall DEF TypeOK, Return
  <2> QED
    BY <2>1, <1>3, <1>4, FlagsUnchanged
<1>5. CASE Wake(c)
  <2>1. CASE Proceed(c, w.op, w.e, s)
    <3>1. w.op \in {"put", "returns"} => w.e \in Element
      BY <1>2 DEF CallIsWellFormed
    <3> HIDE DEF w, s
    <3> QED
      BY <2>1, <3>1, <1>3, ProceedKeeps
  <2>2. CASE ev' = park(s, e, c) /\ UNCHANGED <<queue, currentSize, mCapacity, m_closed, call>>
    <3>1. ev' \in [Latches -> EventType] /\ \A x \in Latches : ev'[x].flag = ev[x].flag
      <4> HIDE DEF s, e
      <4> QED
        BY <2>2, <1>2, <1>3, EventOpsKeep
    <3>2. call' \in [Coroutine -> CallType] /\ CallsAreWellFormed'
      BY <2>2, <1>1 DEF TypeOK, CallsAreWellFormed
    <3> QED
      BY <2>2, <3>1, <3>2, FlagsUnchanged
  <2>3. CASE /\ ev' = s /\ Return(c, "false")
             /\ UNCHANGED <<queue, currentSize, mCapacity, m_closed>>
    BY <2>3, <1>1, <1>4
  <2> QED
    BY <1>5, <2>1, <2>2, <2>3 DEF Wake
<1>6. CASE Timeout(c)
  BY <1>1, <1>4, <1>6 DEF Timeout
<1>7. CASE Kill(c)
  BY <1>1, <1>4, <1>7 DEF Kill
<1> QED
  BY <1>5, <1>6, <1>7

\* Every step keeps the invariant.
LEMMA NextIndInv == IndInv /\ [Next]_vars => IndInv'
<1> SUFFICES ASSUME IndInv, [Next]_vars PROVE IndInv'
  OBVIOUS
<1> USE QueueAssumption
<1>1. /\ TypeOK /\ CallsAreWellFormed /\ mCapacity \in Nat
      /\ ev \in [Latches -> EventType]
      /\ "notEmpty" \in Latches /\ "notFull" \in Latches
  BY DEF IndInv, TypeOK, Latches
<1>2. ASSUME NEW c \in Coroutine, NEW e \in Element, NEW msecs \in Limits, Put(c, e, msecs)
      PROVE  IndInv'
  <2>1. CallIsWellFormed(BlockedIn("put", e, msecs)) \/ msecs = "zero"
    BY DEF CallIsWellFormed, BlockedIn
  <2>2. "put" \in Blocking /\ e \in Results
    BY DEF Blocking, Results
  <2> QED
    BY <1>2, <2>1, <2>2, CallKeeps DEF Put
<1>3. ASSUME NEW c \in Coroutine, NEW e \in Element, Returns(c, e)
      PROVE  IndInv'
  <2>1. CallIsWellFormed(BlockedIn("returns", e, "forever"))
    BY DEF CallIsWellFormed, BlockedIn
  <2>2. "returns" \in Blocking /\ e \in Results /\ "forever" \in Limits
    BY DEF Blocking, Results, Limits
  <2> QED
    BY <1>3, <2>1, <2>2, CallKeeps DEF Returns
<1>4. ASSUME NEW c \in Coroutine, NEW e \in Element,
             PutForcedly(c, e) \/ ReturnsForcely(c, e)
      PROVE  IndInv'
  <2>1. \/ Insert(c, e, Append(queue, e), ev)
        \/ Insert(c, e, <<e>> \o queue, ev)
    BY <1>4 DEF PutForcedly, ReturnsForcely
  <2>2. Proceed(c, "put", e, ev) \/ Proceed(c, "returns", e, ev)
    BY <2>1 DEF Proceed
  <2> QED
    BY <2>2, <1>1, ProceedKeeps
<1>5. ASSUME NEW c \in Coroutine, Get(c)
      PROVE  IndInv'
  <2>1. CallIsWellFormed(BlockedIn("get", Default, "forever"))
    BY DEF CallIsWellFormed, BlockedIn
  <2>2. "get" \in Blocking /\ Default \in Results /\ "forever" \in Limits
    BY DEF Blocking, Results, Limits
  <2> QED
    BY <1>5, <2>1, <2>2, CallKeeps DEF Get
<1>6. ASSUME NEW c \in Coroutine, NEW msecs \in Limits, WaitNotEmpty(c, msecs)
      PROVE  IndInv'
  <2>1. CallIsWellFormed(BlockedIn("waitNotEmpty", Default, msecs)) \/ msecs = "zero"
    BY DEF CallIsWellFormed, BlockedIn
  <2>2. "waitNotEmpty" \in Blocking /\ Default \in Results
    BY DEF Blocking, Results
  <2> QED
    BY <1>6, <2>1, <2>2, CallKeeps DEF WaitNotEmpty
<1>7. ASSUME NEW n \in Capacities, setCapacity(n)
      PROVE  IndInv'
  <2>1. /\ mCapacity' = n
        /\ ev' = IF ~(currentSize >= n /\ ~m_closed) THEN set(ev, "notFull")
                 ELSE clear(ev, "notFull")
        /\ UNCHANGED <<queue, currentSize, m_closed, call>>
    BY <1>7 DEF setCapacity, latch
  <2>2. /\ ev' \in [Latches -> EventType] /\ ev'["notEmpty"] = ev["notEmpty"]
        /\ ev'["notFull"].flag <=> ~(currentSize >= n /\ ~m_closed)
    BY <2>1, <1>1, EventOpsKeep DEF Latches
  <2>3. n \in Nat /\ currentSize \in Int
    BY <1>1 DEF TypeOK
  <2>4. TypeOK' /\ CallsAreWellFormed'
    BY <2>1, <2>2, <1>1 DEF TypeOK, CallsAreWellFormed
  <2>5. LatchesTell'
    BY <2>1, <2>2, <2>3 DEF IndInv, LatchesTell
  <2> QED
    BY <2>1, <2>2, <2>4, <2>5 DEF IndInv, ClosedKeepsLatches
<1>8. ASSUME close PROVE IndInv'
  <2> DEFINE s1 == set(ev, "notEmpty")
  <2>1. s1 \in [Latches -> EventType] /\ s1["notEmpty"].flag
    BY <1>1, EventOpsKeep
  <2>2. /\ ev' = set(s1, "notFull") /\ m_closed' = TRUE
        /\ UNCHANGED <<queue, currentSize, mCapacity, call>>
    BY <1>8 DEF close
  <2> HIDE DEF s1
  <2>3. ev' \in [Latches -> EventType] /\ ev'["notEmpty"].flag /\ ev'["notFull"].flag
    BY <2>1, <2>2, EventOpsKeep DEF Latches
  <2>4. TypeOK' /\ CallsAreWellFormed'
    BY <2>2, <2>3, <1>1 DEF TypeOK, CallsAreWellFormed
  <2> QED
    BY <2>2, <2>3, <2>4 DEF IndInv, ClosedKeepsLatches, LatchesTell
<1>9. ASSUME clearQueue PROVE IndInv'
  <2> DEFINE s1 == set(ev, "notFull")
  <2>1. /\ s1 \in [Latches -> EventType] /\ s1["notFull"].flag
        /\ s1["notEmpty"] = ev["notEmpty"]
    BY <1>1, EventOpsKeep DEF Latches
  <2>2. /\ ev' = IF m_closed THEN s1 ELSE clear(s1, "notEmpty")
        /\ queue' = <<>> /\ currentSize' = 0
        /\ UNCHANGED <<mCapacity, m_closed, call>>
    BY <1>9 DEF clearQueue
  <2> HIDE DEF s1
  <2>3. /\ ev' \in [Latches -> EventType] /\ ev'["notFull"].flag
        /\ m_closed => ev'["notEmpty"].flag
    BY <2>1, <2>2, EventOpsKeep DEF Latches, IndInv, ClosedKeepsLatches
  <2>4. TypeOK' /\ CallsAreWellFormed'
    BY <2>2, <2>3, <1>1 DEF TypeOK, CallsAreWellFormed
  <2> QED
    BY <2>2, <2>3, <2>4, <1>1 DEF IndInv, ClosedKeepsLatches, LatchesTell
<1>10. ASSUME NEW e \in Element, remove(e) PROVE IndInv'
  <2> DEFINE n == Size[e] * (Len(queue) - Len(queue'))
             s1 == IF queue' # <<>> THEN set(ev, "notEmpty")
                   ELSE IF m_closed THEN ev ELSE clear(ev, "notEmpty")
  <2>1. queue' \in Seq(Element) /\ currentSize' = currentSize - n
        /\ UNCHANGED <<mCapacity, m_closed, call>>
    BY <1>1, <1>10, ErasedIsLeft DEF remove, TypeOK
  <2>2. ev' = IF ~(currentSize' >= mCapacity /\ ~m_closed) THEN set(s1, "notFull")
              ELSE clear(s1, "notFull")
    BY <1>10 DEF remove, latch
  <2>3. n \in Int
    <3>1. Size[e] \in Int /\ Len(queue) - Len(queue') \in Int
      BY <2>1, <1>1 DEF TypeOK
    <3> QED
      BY <3>1
  <2>4. /\ s1 \in [Latches -> EventType]
        /\ queue' # <<>> \/ m_closed => s1["notEmpty"].flag
    BY <1>1, EventOpsKeep DEF IndInv, ClosedKeepsLatches
  <2> HIDE DEF s1, n
  <2>5. /\ ev' \in [Latches -> EventType]
        /\ queue' # <<>> \/ m_closed => ev'["notEmpty"].flag
        /\ ev'["notFull"].flag <=> ~(currentSize' >= mCapacity /\ ~m_closed)
    BY <2>2, <2>4, EventOpsKeep DEF Latches
  <2>6. currentSize' \in Int
    BY <2>1, <2>3, <1>1 DEF TypeOK
  <2>7. TypeOK' /\ CallsAreWellFormed'
    BY <2>1, <2>5, <2>6, <1>1 DEF TypeOK, CallsAreWellFormed
  <2>8. LatchesTell'
    BY <2>1, <2>5, <2>6, <1>1 DEF LatchesTell
  <2> QED
    BY <2>1, <2>5, <2>7, <2>8 DEF IndInv, ClosedKeepsLatches
<1>11. ASSUME notifyNotEmpty PROVE IndInv'
  <2>1. /\ ev' \in [Latches -> EventType] /\ ev'["notEmpty"].flag
        /\ ev'["notFull"] = ev["notFull"]
    BY <1>1, <1>11, EventOpsKeep DEF notifyNotEmpty, Latches
  <2>2. UNCHANGED <<queue, currentSize, mCapacity, m_closed, call>>
    BY <1>11 DEF notifyNotEmpty
  <2>3. TypeOK' /\ CallsAreWellFormed'
    BY <2>1, <2>2, <1>1 DEF TypeOK, CallsAreWellFormed
  <2> QED
    BY <2>1, <2>2, <2>3 DEF IndInv, ClosedKeepsLatches, LatchesTell
<1>12. ASSUME UNCHANGED vars PROVE IndInv'
  BY <1>12 DEF IndInv, TypeOK, LatchesTell, ClosedKeepsLatches, CallsAreWellFormed, vars
<1> QED
  BY <1>2, <1>3, <1>4, <1>5, <1>6, <1>7, <1>8, <1>9, <1>10, <1>11, <1>12, WakeKeeps
     DEF Next, Limits

\* The latches of the queue tell what is in it, whatever calls were made, ended
\* or interrupted, and whatever their order (put(), returns(), get(), close(),
\* clear(), remove(), setCapacity() of SizedQueueType).
THEOREM LatchesAlwaysTell == Spec => [](TypeOK /\ LatchesTell)
<1>1. IndInv => TypeOK /\ LatchesTell
  BY DEF IndInv
<1> QED
  BY InitIndInv, NextIndInv, <1>1, PTL DEF Spec

\* Both latches of a closed queue stay set.
THEOREM ClosedQueueBlocksNobody == Spec => []ClosedKeepsLatches
<1>1. IndInv => ClosedKeepsLatches
  BY DEF IndInv
<1> QED
  BY InitIndInv, NextIndInv, <1>1, PTL DEF Spec
--------------------------------------------------------------------------------
\* Behind tryWait() a call does what QueueSpec lets a call do: c makes it now
\* (idle) or made it earlier, and the latch it waited for is set.
LEMMA ProceedRefines ==
    ASSUME IndInv, 0 \notin Capacities,
           NEW c \in Coroutine, NEW op \in Blocking, NEW e, NEW msecs \in Limits, NEW s,
           op \in {"put", "returns"} => e \in Element,
           op \in {"get", "waitNotEmpty"} => e = Default,
           op \in {"get", "returns"} => msecs = "forever",
           Idle(c) \/ call[c] = BlockedIn(op, e, msecs),
           ev[WaitsFor(op)].flag, Proceed(c, op, e, s)
    PROVE  Abstract!Next \/ UNCHANGED Abstract!vars
<1> USE QueueAssumption
<1>1. Abstract!Asks(c, op, e, msecs)
  BY DEF Abstract!Asks, Abstract!Pending, Idle, BlockedIn
<1>2. /\ mCapacity \in Nat \ {0} /\ currentSize \in Int
      /\ call \in [Coroutine -> CallType] /\ m_closed \in BOOLEAN
  BY DEF IndInv, TypeOK
<1>3. CASE op \in {"put", "returns"}
  <2>1. ~m_closed => currentSize < mCapacity
    BY <1>2, <1>3 DEF IndInv, LatchesTell, WaitsFor
  <2>2. /\ op = "put" => Insert(c, e, Append(queue, e), s)
        /\ op = "returns" => Insert(c, e, <<e>> \o queue, s)
    BY <1>3 DEF Proceed
  <2>3. CASE m_closed
    <3>1. Abstract!Refuse(c, op, e, msecs)
      BY <1>1, <1>3, <2>2, <2>3
      DEF Insert, Return, Returned, Abstract!Refuse, Abstract!Return, Abstract!Returned
    <3>2. Abstract!AddCall(c)
      BY <3>1, <1>3 DEF Abstract!AddCall, Limits
    <3> QED
      BY <3>2 DEF Abstract!Next
  <2>4. CASE ~m_closed
    <3>1. queue' = Abstract!Added(op, e)
      BY <1>3, <2>2, <2>4 DEF Insert, Abstract!Added
    <3>2. Abstract!Add(c, op, e, msecs)
      BY <1>1, <1>3, <2>1, <2>2, <2>4, <3>1
      DEF Insert, Return, Returned, Abstract!Add, Abstract!Return, Abstract!Returned
    <3>3. Abstract!AddCall(c)
      BY <3>2, <1>3 DEF Abstract!AddCall, Limits
    <3> QED
      BY <3>3 DEF Abstract!Next
  <2> QED
    BY <2>3, <2>4, <1>2
<1>4. CASE op = "get"
  <2>1. Take(c, s) /\ Abstract!Asks(c, "get", Default, "forever")
    BY <1>1, <1>4 DEF Proceed
  <2>2. CASE TakeHead(c, s)
    <3>1. Abstract!Get(c)
      BY <2>1, <2>2
      DEF TakeHead, Return, Returned, Abstract!Get, Abstract!Return, Abstract!Returned
    <3> QED
      BY <3>1 DEF Abstract!Next, Abstract!TakeCall
  <2>3. CASE /\ queue = <<>> /\ m_closed /\ Return(c, Default)
             /\ UNCHANGED <<queue, currentSize, mCapacity, m_closed>>
    <3>1. Abstract!EndOfStream(c)
      BY <2>1, <2>3
      DEF Return, Returned, Abstract!EndOfStream, Abstract!Return, Abstract!Returned
    <3> QED
      BY <3>1 DEF Abstract!Next, Abstract!TakeCall
  <2>4. CASE /\ queue = <<>> /\ ~m_closed
             /\ call' = [call EXCEPT ![c] = BlockedIn("get", Default, "forever")]
             /\ UNCHANGED <<queue, currentSize, mCapacity, m_closed>>
    <3>1. CASE Idle(c)
      <4>1. Abstract!Start(c, "get", Default, "forever")
        BY <2>4, <3>1 DEF Idle, BlockedIn, Abstract!Start, Abstract!Pending
      <4> QED
        BY <4>1 DEF Abstract!Next, Abstract!TakeCall
    <3>2. CASE call[c] = BlockedIn("get", Default, "forever")
      BY <2>4, <3>2, <1>2 DEF Abstract!vars
    <3> QED
      BY <3>1, <3>2, <1>4
  <2> QED
    BY <2>1, <2>2, <2>3, <2>4 DEF Take
<1>5. CASE op = "waitNotEmpty"
  <2>1. Abstract!SeenNotEmpty(c, msecs)
    BY <1>1, <1>5
    DEF Proceed, Return, Returned, Abstract!SeenNotEmpty, Abstract!Return, Abstract!Returned
  <2>2. Abstract!TakeCall(c)
    BY <2>1 DEF Abstract!TakeCall, Limits
  <2> QED
    BY <2>2 DEF Abstract!Next
<1> QED
  BY <1>3, <1>4, <1>5 DEF Blocking

\* A call with a limit may give up, made now or earlier.
LEMMA GiveUpRefines ==
    ASSUME NEW c \in Coroutine, NEW op, NEW e, NEW msecs \in Limits,
           (op = "put" /\ e \in Element) \/ (op = "waitNotEmpty" /\ e = Default),
           msecs # "forever", Idle(c) \/ call[c] = BlockedIn(op, e, msecs),
           Return(c, "false"), UNCHANGED <<queue, currentSize, mCapacity, m_closed>>
    PROVE  Abstract!Next
<1>1. Abstract!GiveUp(c, op, e, msecs)
  BY DEF Abstract!GiveUp, Abstract!Asks, Abstract!Pending, Abstract!Return,
         Abstract!Returned, Idle, BlockedIn, Return, Returned
<1>2. Abstract!AddCall(c) \/ Abstract!TakeCall(c)
  BY <1>1 DEF Abstract!AddCall, Abstract!TakeCall, Limits
<1> QED
  BY <1>2 DEF Abstract!Next

\* A call made now completes or is pending, as QueueSpec allows.
LEMMA CallRefines ==
    ASSUME IndInv, 0 \notin Capacities, NEW c \in Coroutine, NEW op \in Blocking,
           NEW e, NEW msecs \in Limits,
           op \in {"put", "returns"} => e \in Element,
           op \in {"get", "waitNotEmpty"} => e = Default,
           op \in {"get", "returns"} => msecs = "forever",
           CallNow(c, op, e, msecs) \/ CallBlock(c, op, e, msecs)
    PROVE  Abstract!Next \/ UNCHANGED Abstract!vars
<1> USE QueueAssumption
<1>1. Idle(c)
  BY DEF CallNow, CallBlock
<1>2. CASE CallNow(c, op, e, msecs) /\ ev[WaitsFor(op)].flag
  <2>1. Proceed(c, op, e, ev)
    BY <1>2 DEF CallNow
  <2> QED
    BY <2>1, <1>1, <1>2, ProceedRefines
<1>3. CASE CallNow(c, op, e, msecs) /\ ~ev[WaitsFor(op)].flag
  <2>1. /\ msecs = "zero" /\ Return(c, "false")
        /\ UNCHANGED <<queue, currentSize, mCapacity, m_closed>>
    BY <1>3 DEF CallNow
  <2>2. (op = "put" /\ e \in Element) \/ (op = "waitNotEmpty" /\ e = Default)
    BY <2>1 DEF Blocking
  <2> QED
    BY <2>1, <2>2, <1>1, GiveUpRefines
<1>4. CASE CallBlock(c, op, e, msecs)
  <2>1. /\ ~ev[WaitsFor(op)].flag /\ msecs # "zero"
        /\ call' = [call EXCEPT ![c] = BlockedIn(op, e, msecs)]
        /\ UNCHANGED <<queue, currentSize, mCapacity, m_closed>>
    BY <1>4 DEF CallBlock
  <2>2. mCapacity \in Nat \ {0} /\ currentSize \in Int
    BY DEF IndInv, TypeOK
  <2>3. ~m_closed
    BY <2>1, Zenon DEF IndInv, ClosedKeepsLatches, WaitsFor
  <2>4. op \in {"put", "returns"} => currentSize >= mCapacity
    BY <2>1, <2>2, <2>3 DEF IndInv, LatchesTell, WaitsFor
  <2>5. op \in {"get", "waitNotEmpty"} => queue = <<>>
    BY <2>1 DEF IndInv, LatchesTell, WaitsFor
  <2>6. Abstract!Start(c, op, e, msecs)
    BY <2>1, <2>3, <2>4, <2>5, <1>1
    DEF Abstract!Start, Abstract!Pending, Idle, BlockedIn, Blocking
  <2>7. Abstract!AddCall(c) \/ Abstract!TakeCall(c)
    BY <2>6 DEF Abstract!AddCall, Abstract!TakeCall, Blocking, Limits
  <2> QED
    BY <2>7 DEF Abstract!Next
<1> QED
  BY <1>2, <1>3, <1>4

\* So does the end of a wait, whatever ended it.
LEMMA WakeRefines ==
    ASSUME IndInv, 0 \notin Capacities, NEW c \in Coroutine,
           Wake(c) \/ Timeout(c) \/ Kill(c)
    PROVE  Abstract!Next \/ UNCHANGED Abstract!vars
<1> DEFINE w == call[c]
           s == leave(ev, WaitsFor(w.op), c)
<1>1. w \in CallType /\ CallIsWellFormed(w)
  BY DEF IndInv, TypeOK, CallsAreWellFormed
<1>2. w = BlockedIn(w.op, w.e, w.msecs) /\ w.msecs \in Limits
  BY <1>1 DEF CallType, BlockedIn
<1>3. ASSUME w.msecs = "finite", Return(c, "false"),
             UNCHANGED <<queue, currentSize, mCapacity, m_closed>>
      PROVE  Abstract!Next
  <2>1. (w.op = "put" /\ w.e \in Element) \/ (w.op = "waitNotEmpty" /\ w.e = Default)
    BY <1>1, <1>3 DEF CallIsWellFormed, CallType, Blocking
  <2> QED
    BY <2>1, <1>2, <1>3, GiveUpRefines
<1>4. CASE Wake(c)
  <2>1. CASE ev[WaitsFor(w.op)].flag /\ Proceed(c, w.op, w.e, s)
    <3>1. w.op \in Blocking
      BY <1>1, <1>4 DEF Wake, Idle, CallType
    <3>2. /\ w.op \in {"put", "returns"} => w.e \in Element
          /\ w.op \in {"get", "waitNotEmpty"} => w.e = Default
          /\ w.op \in {"get", "returns"} => w.msecs = "forever"
      BY <1>1 DEF CallIsWellFormed
    <3> HIDE DEF s
    <3> QED
      BY <2>1, <3>1, <3>2, <1>2, ProceedRefines
  <2>2. CASE UNCHANGED <<queue, currentSize, mCapacity, m_closed, call>>
    BY <2>2 DEF Abstract!vars
  <2>3. CASE /\ w.msecs = "finite" /\ Return(c, "false")
             /\ UNCHANGED <<queue, currentSize, mCapacity, m_closed>>
    BY <2>3, <1>3
  <2> QED
    BY <1>4, <2>1, <2>2, <2>3 DEF Wake
<1>5. CASE Timeout(c)
  BY <1>3, <1>5 DEF Timeout
<1>6. CASE Kill(c)
  <2>1. Abstract!Abort(c)
    BY <1>6 DEF Kill, Idle, Return, Returned, Abstract!Abort, Abstract!Return, Abstract!Returned
  <2> QED
    BY <2>1 DEF Abstract!Next
<1> QED
  BY <1>4, <1>5, <1>6

\* A step of the queue is a step of QueueSpec, or one that it does not see.
LEMMA NextRefines ==
    IndInv /\ 0 \notin Capacities /\ [Next]_vars => [Abstract!Next]_Abstract!vars
<1> SUFFICES ASSUME IndInv, 0 \notin Capacities, [Next]_vars
             PROVE  Abstract!Next \/ UNCHANGED Abstract!vars
  OBVIOUS
<1>0. /\ "put" \in Blocking /\ "returns" \in Blocking /\ "get" \in Blocking
      /\ "waitNotEmpty" \in Blocking /\ "forever" \in Limits
  BY DEF Blocking, Limits
<1>1. ASSUME NEW c \in Coroutine, NEW e \in Element, NEW msecs \in Limits, Put(c, e, msecs)
      PROVE  Abstract!Next \/ UNCHANGED Abstract!vars
  BY <1>0, <1>1, CallRefines DEF Put
<1>2. ASSUME NEW c \in Coroutine, NEW e \in Element, Returns(c, e)
      PROVE  Abstract!Next \/ UNCHANGED Abstract!vars
  BY <1>0, <1>2, CallRefines DEF Returns
<1>3. ASSUME NEW c \in Coroutine, Get(c)
      PROVE  Abstract!Next \/ UNCHANGED Abstract!vars
  BY <1>0, <1>3, CallRefines DEF Get
<1>4. ASSUME NEW c \in Coroutine, NEW msecs \in Limits, WaitNotEmpty(c, msecs)
      PROVE  Abstract!Next \/ UNCHANGED Abstract!vars
  BY <1>0, <1>4, CallRefines DEF WaitNotEmpty
<1>5. ASSUME NEW c \in Coroutine, NEW e \in Element,
             PutForcedly(c, e) \/ ReturnsForcely(c, e)
      PROVE  Abstract!Next
  <2> DEFINE op == IF PutForcedly(c, e) THEN "putForcedly" ELSE "returnsForcely"
             q == IF PutForcedly(c, e) THEN Append(queue, e) ELSE <<e>> \o queue
  <2>1. Insert(c, e, q, ev) /\ Idle(c)
    BY <1>5 DEF PutForcedly, ReturnsForcely
  <2>2. q = Abstract!Added(op, e) /\ op \in {"putForcedly", "returnsForcely"}
    BY DEF Abstract!Added
  <2> HIDE DEF op, q
  <2>3. Abstract!Add(c, op, e, "forever") \/ Abstract!Refuse(c, op, e, "forever")
    BY <2>1, <2>2
    DEF Insert, Idle, Return, Returned, Abstract!Add, Abstract!Refuse, Abstract!Asks,
        Abstract!Return, Abstract!Returned
  <2>4. Abstract!AddCall(c)
    BY <2>2, <2>3 DEF Abstract!AddCall
  <2> QED
    BY <2>4 DEF Abstract!Next
<1>6. ASSUME NEW n \in Capacities, setCapacity(n) PROVE Abstract!Next
  BY <1>6 DEF setCapacity, Abstract!SetCapacity, Abstract!Next
<1>7. ASSUME close PROVE Abstract!Next
  BY <1>7 DEF close, Abstract!Close, Abstract!Next
<1>8. ASSUME clearQueue PROVE Abstract!Next
  BY <1>8 DEF clearQueue, Abstract!Clear, Abstract!Next
<1>9. ASSUME NEW e \in Element, remove(e) PROVE Abstract!Next
  <2>1. queue' \in Seq(Element) /\ Abstract!LeftOf(queue', queue, e)
    BY <1>9, ErasedIsLeft DEF remove, IndInv, TypeOK
  <2>2. Abstract!Remove(e)
    BY <1>9, <2>1 DEF remove, Abstract!Remove
  <2> QED
    BY <2>2 DEF Abstract!Next
<1>10. ASSUME notifyNotEmpty \/ UNCHANGED vars PROVE UNCHANGED Abstract!vars
  BY <1>10 DEF notifyNotEmpty, vars, Abstract!vars
<1> QED
  BY <1>1, <1>2, <1>3, <1>4, <1>5, <1>6, <1>7, <1>8, <1>9, <1>10, WakeRefines
     DEF Next, Limits

\* Queue and SizedQueue implement a FIFO that can be closed: whatever the events
\* and the event loop do, a caller sees only what QueueSpec allows.  (A queue
\* of capacity 0 does not: a blocked put() that clear() wakes up is let in.)
THEOREM QueueImplementsSpec ==
    ASSUME 0 \notin Capacities
    PROVE  Spec => RefinesQueueSpec
<1>1. Init => Abstract!Init
  BY DEF Init, Returned, Abstract!Init, Abstract!Returned
<1>2. IndInv /\ [Next]_vars => [Abstract!Next]_Abstract!vars
  BY NextRefines
<1> QED
  BY InitIndInv, NextIndInv, <1>1, <1>2, PTL DEF Spec, RefinesQueueSpec, Abstract!Spec
--------------------------------------------------------------------------------
(* Condition, whose list is erased from by a loop like that of remove(). *)

ConditionType ==
    /\ waiters \in Seq(Waiter) /\ released \subseteq Waiter /\ timer \subseteq Waiter
    /\ state \in [Waiter -> {"none", "blocked", "true", "false", "killed"}]
ConditionInv == ConditionType /\ ListIsExact

Listed(ws, c) == \E i \in DOMAIN ws : ws[i] = c
NoneTwice(ws) == \A i, j \in DOMAIN ws : ws[i] = ws[j] => i = j

\* What ListIsExact says, in terms of Listed.
LEMMA ExactIs ==
    ListIsExact <=> /\ \A c \in Waiter : Blocked(c) <=> c \in released \/ Listed(waiters, c)
                    /\ NoneTwice(waiters)
                    /\ \A c \in released : ~Listed(waiters, c)
BY DEF ListIsExact, Listed, NoneTwice

\* Erasing a Lock leaves the others, in order.
LEMMA EraseLeaves ==
    ASSUME NEW ws \in Seq(Waiter), NEW c
    PROVE  /\ Erase(ws, c) \in Seq(Waiter)
           /\ \A d : Listed(Erase(ws, c), d) <=> Listed(ws, d) /\ d # c
           /\ NoneTwice(ws) => NoneTwice(Erase(ws, c))
<1>1. Erase(ws, c) = Erased(ws, c)
  BY DEF Erase, Erased
<1> DEFINE r == Erased(ws, c)
<1>2. r \in Seq(Waiter) /\ Abstract!LeftOf(r, ws, c)
  BY ErasedIsLeft
<1> HIDE DEF r
<1>3. PICK f \in [1..Len(r) -> {i \in 1..Len(ws) : ws[i] # c}] :
         /\ \A i, j \in 1..Len(r) : i < j => f[i] < f[j]
         /\ \A k \in 1..Len(ws) : ws[k] # c => \E i \in 1..Len(r) : f[i] = k
         /\ r = [i \in 1..Len(r) |-> ws[f[i]]]
  BY <1>2 DEF Abstract!LeftOf
<1>4. DOMAIN r = 1..Len(r) /\ DOMAIN ws = 1..Len(ws) /\ Len(r) \in Nat
  BY <1>2
<1>5. \A i \in 1..Len(r) : r[i] = ws[f[i]] /\ f[i] \in 1..Len(ws) /\ ws[f[i]] # c
  BY <1>3
<1>6. \A d : Listed(r, d) <=> Listed(ws, d) /\ d # c
  <2> SUFFICES ASSUME NEW d PROVE Listed(r, d) <=> Listed(ws, d) /\ d # c
    OBVIOUS
  <2>1. ASSUME Listed(r, d) PROVE Listed(ws, d) /\ d # c
    <3>1. PICK i \in 1..Len(r) : r[i] = d
      BY <2>1, <1>4 DEF Listed
    <3> QED
      BY <3>1, <1>4, <1>5 DEF Listed
  <2>2. ASSUME Listed(ws, d), d # c PROVE Listed(r, d)
    <3>1. PICK k \in 1..Len(ws) : ws[k] = d
      BY <2>2, <1>4 DEF Listed
    <3>2. PICK i \in 1..Len(r) : f[i] = k
      BY <1>3, <2>2, <3>1
    <3> QED
      BY <3>1, <3>2, <1>4, <1>5 DEF Listed
  <2> QED
    BY <2>1, <2>2
<1>7. NoneTwice(ws) => NoneTwice(r)
  <2> SUFFICES ASSUME NoneTwice(ws), NEW i \in 1..Len(r), NEW j \in 1..Len(r), r[i] = r[j]
               PROVE  i = j
    BY <1>4 DEF NoneTwice
  <2>1. f[i] = f[j]
    BY <1>4, <1>5 DEF NoneTwice
  <2>2. f[i] \in Nat /\ f[j] \in Nat
    BY <1>5
  <2>3. ~(i < j) /\ ~(j < i)
    BY <1>3, <2>1, <2>2
  <2> QED
    BY <2>3, <1>4
<1> QED
  BY <1>1, <1>2, <1>6, <1>7 DEF r

\* However a wait() ends, it leaves nothing behind.
LEMMA EndsExactly ==
    ASSUME ConditionInv, NEW c \in Waiter, Blocked(c),
           NEW result \in {"true", "false", "killed"}, Ends(c, result)
    PROVE  ConditionInv'
<1>1. /\ waiters' \in Seq(Waiter)
      /\ \A d : Listed(waiters', d) <=> Listed(waiters, d) /\ d # c
      /\ NoneTwice(waiters')
  BY EraseLeaves, ExactIs DEF ConditionInv, ConditionType, Ends
<1>2. ConditionType'
  BY <1>1 DEF ConditionInv, ConditionType, Ends
<1>3. \A d \in Waiter : Blocked(d)' <=> Blocked(d) /\ d # c
  BY DEF ConditionInv, ConditionType, Ends, Blocked
<1>4. ListIsExact'
  <2>1. \A d \in Waiter : Blocked(d)' <=> d \in released' \/ Listed(waiters', d)
    BY <1>1, <1>3, ExactIs DEF ConditionInv, Ends
  <2>2. \A d \in released' : ~Listed(waiters', d)
    BY <1>1, ExactIs DEF ConditionInv, Ends
  <2> QED
    BY <1>1, <2>1, <2>2 DEF ListIsExact, Listed, NoneTwice
<1> QED
  BY <1>2, <1>4 DEF ConditionInv

\* notify(n) hands the first n of the list over.
LEMMA NotifyExactly ==
    ASSUME ConditionInv, NEW n \in Nat, Notify(n)
    PROVE  ConditionInv'
<1> DEFINE k == IF n <= Len(waiters) THEN n ELSE Len(waiters)
<1>1. waiters \in Seq(Waiter) /\ k \in 0..Len(waiters) /\ Len(waiters) \in Nat
  BY DEF ConditionInv, ConditionType
<1>2. /\ waiters' = SubSeq(waiters, k + 1, Len(waiters))
      /\ released' = released \cup {waiters[i] : i \in 1..k}
      /\ UNCHANGED <<timer, state>>
  BY DEF Notify
<1> HIDE DEF k
<1>3. /\ waiters' \in Seq(Waiter) /\ Len(waiters') = Len(waiters) - k
      /\ \A i \in 1..(Len(waiters) - k) : waiters'[i] = waiters[k + i]
  BY <1>1, <1>2
<1>5. /\ \A c : Listed(waiters, c) <=> c \in {waiters[i] : i \in 1..k} \/ Listed(waiters', c)
      /\ \A c \in {waiters[i] : i \in 1..k} : NoneTwice(waiters) => ~Listed(waiters', c)
  <2>1. DOMAIN waiters = 1..Len(waiters) /\ DOMAIN waiters' = 1..(Len(waiters) - k)
    BY <1>1, <1>3
  <2>2. \A i \in 1..Len(waiters) : i \in 1..k \/ (i - k \in 1..(Len(waiters) - k) /\ k + (i - k) = i)
    BY <1>1
  <2>3. \A i \in 1..(Len(waiters) - k) : k + i \in 1..Len(waiters) /\ k + i \notin 1..k
    BY <1>1
  <2>4. \A i \in 1..k : i \in 1..Len(waiters)
    BY <1>1
  <2>5. \A i \in 1..Len(waiters) : i \in 1..k \/ waiters[i] = waiters'[i - k]
    BY <2>2, <1>3
  <2> QED
    BY <2>1, <2>2, <2>3, <2>4, <2>5, <1>3 DEF Listed, NoneTwice
<1>6. NoneTwice(waiters) => NoneTwice(waiters')
  <2> SUFFICES ASSUME NoneTwice(waiters), NEW i \in DOMAIN waiters', NEW j \in DOMAIN waiters',
                      waiters'[i] = waiters'[j]
               PROVE  i = j
    BY DEF NoneTwice
  <2>1. i \in 1..(Len(waiters) - k) /\ j \in 1..(Len(waiters) - k)
    BY <1>1, <1>3
  <2>a. k + i \in 1..Len(waiters) /\ k + j \in 1..Len(waiters) /\ DOMAIN waiters = 1..Len(waiters)
    BY <2>1, <1>1
  <2>b. waiters'[i] = waiters[k + i] /\ waiters'[j] = waiters[k + j]
    BY <2>1, <1>3
  <2>2. k + i \in DOMAIN waiters /\ k + j \in DOMAIN waiters /\ waiters[k + i] = waiters[k + j]
    BY <2>a, <2>b
  <2>3. k + i = k + j
    BY <2>2 DEF NoneTwice
  <2> QED
    BY <2>3, <2>1, <1>1
<1>7. ConditionType'
  <2>1. {waiters[i] : i \in 1..k} \subseteq Waiter
    BY <1>1
  <2> QED
    BY <2>1, <1>2, <1>3 DEF ConditionInv, ConditionType
<1>8. ListIsExact'
  <2>1. \A c \in Waiter : Blocked(c)' <=> c \in released' \/ Listed(waiters', c)
    BY <1>2, <1>5, ExactIs DEF ConditionInv, Blocked
  <2>2. \A c \in released' : ~Listed(waiters', c)
    BY <1>2, <1>5, ExactIs DEF ConditionInv
  <2>3. NoneTwice(waiters')
    BY <1>6, ExactIs DEF ConditionInv
  <2> QED
    BY <2>1, <2>2, <2>3 DEF ListIsExact, Listed, NoneTwice
<1> QED
  BY <1>7, <1>8 DEF ConditionInv

\* Every step keeps the list exact.
LEMMA NextConditionInv ==
    ConditionInv /\ [ConditionNext]_conditionVars => ConditionInv'
<1> SUFFICES ASSUME ConditionInv, [ConditionNext]_conditionVars PROVE ConditionInv'
  OBVIOUS
<1>1. CASE UNCHANGED conditionVars
  BY <1>1 DEF conditionVars, ConditionInv, ConditionType, ListIsExact, Blocked
<1>2. ASSUME NEW c \in Waiter, WaitNow(c) PROVE ConditionInv'
  BY <1>2 DEF WaitNow, ConditionInv, ConditionType, ListIsExact, Blocked
<1>3. ASSUME NEW c \in Waiter, NEW msecs, WaitBlock(c, msecs) PROVE ConditionInv'
  <2>1. /\ waiters' = Append(waiters, c) /\ released' = released /\ ~Blocked(c)
        /\ state' = [state EXCEPT ![c] = "blocked"] /\ waiters \in Seq(Waiter)
    BY <1>3 DEF WaitBlock, ConditionInv, ConditionType
  <2>2. /\ waiters' \in Seq(Waiter) /\ DOMAIN waiters' = 1..(Len(waiters) + 1)
        /\ waiters'[Len(waiters) + 1] = c /\ Len(waiters) \in Nat
        /\ \A i \in 1..Len(waiters) : waiters'[i] = waiters[i]
        /\ DOMAIN waiters = 1..Len(waiters)
    BY <2>1
  <2>3. \A d : Listed(waiters', d) <=> Listed(waiters, d) \/ d = c
    BY <2>2 DEF Listed
  <2>4. ~Listed(waiters, c) /\ c \notin released
    BY <2>1, ExactIs DEF ConditionInv
  <2>5. NoneTwice(waiters')
    BY <2>2, <2>4, ExactIs DEF ConditionInv, Listed, NoneTwice
  <2>6. \A d \in Waiter : Blocked(d)' <=> Blocked(d) \/ d = c
    BY <2>1 DEF ConditionInv, ConditionType, Blocked
  <2>7. ConditionType'
    BY <1>3, <2>2 DEF ConditionInv, ConditionType, WaitBlock
  <2>8. \A d \in Waiter : Blocked(d)' <=> d \in released' \/ Listed(waiters', d)
    BY <2>1, <2>3, <2>6, ExactIs DEF ConditionInv
  <2>9. \A d \in released' : ~Listed(waiters', d)
    BY <2>1, <2>3, <2>4, ExactIs DEF ConditionInv
  <2> QED
    BY <2>5, <2>7, <2>8, <2>9 DEF ConditionInv, ListIsExact, Listed, NoneTwice
<1>4. ASSUME NEW c \in Waiter, WaitSucceeds(c) \/ WaitTimesOut(c) \/ WaitThrows(c) PROVE ConditionInv'
  <2>1. Blocked(c)
    BY <1>4, ExactIs DEF ConditionInv, WaitSucceeds, WaitTimesOut, WaitThrows
  <2> QED
    BY <1>4, <2>1, EndsExactly DEF WaitSucceeds, WaitTimesOut, WaitThrows
<1>5. ASSUME NEW n \in 1..MaxNotify, Notify(n) PROVE ConditionInv'
  <2>1. n \in Nat
    BY <1>5, ConditionAssumption
  <2> QED
    BY <1>5, <2>1, NotifyExactly
<1>6. ASSUME notifyAll PROVE ConditionInv'
  <2>1. Len(waiters) \in Nat
    BY DEF ConditionInv, ConditionType
  <2> QED
    BY <1>6, <2>1, NotifyExactly DEF notifyAll
<1> QED
  BY <1>1, <1>2, <1>3, <1>4, <1>5, <1>6 DEF ConditionNext

\* For any coroutines, whoever is blocked in Condition::wait() is on the list once
\* or has been notified, and nobody else is: neither a timeout nor an exception
\* leaves a Lock behind on which a later notify() would be spent.
THEOREM ConditionListIsExact ==
    ConditionSpec => []ListIsExact
<1>1. ConditionInit => ConditionInv
  BY DEF ConditionInit, ConditionInv, ConditionType, ListIsExact, Blocked
<1>2. ConditionInv /\ [ConditionNext]_conditionVars => ConditionInv'
  BY NextConditionInv
<1>3. ConditionInv => ListIsExact
  BY DEF ConditionInv
<1> QED
  BY <1>1, <1>2, <1>3, PTL DEF ConditionSpec
================================================================================
