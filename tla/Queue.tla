--------------------------------- MODULE Queue ---------------------------------
(***************************************************************************)
(* SizedQueueType with Event and DummyReadWriteLock, that is Queue and     *)
(* SizedQueue (include/qtng/locks.h): a deque, its size, and two Events    *)
(* used as latches, notEmpty and notFull.  Coroutines of one thread: a     *)
(* call runs without interruption until it blocks in one of the events, so *)
(* each call and each wake-up is one step.                                 *)
(***************************************************************************)
EXTENDS Integers, Sequences, EventOps

CONSTANTS Coroutine,
          Element,
          Size,        \* SizeGetter::sizeOf(); 1 for every element of a Queue
          Capacities,  \* arguments of the constructor and of setCapacity()
          Default,     \* T()
          MaxLength    \* bound: no element is added to a longer queue

ASSUME QueueAssumption ==
    /\ Size \in [Element -> Nat]
    /\ Capacities \subseteq Nat
    /\ Default \notin Element
    /\ MaxLength \in Nat

VARIABLES queue,
          currentSize,
          mCapacity,
          m_closed,
          ev,     \* the events notEmpty and notFull, see EventOps
          call    \* the call a coroutine is blocked in, or its last result

vars == <<queue, currentSize, mCapacity, m_closed, ev, call>>

Latches == {"notEmpty", "notFull"}
Blocking == {"put", "returns", "get", "waitNotEmpty"}

\* A call that is blocked, with the element it adds (none: Default) and msecs.
BlockedIn(op, e, msecs) == [op |-> op, e |-> e, msecs |-> msecs]
\* No call is blocked; the last one returned r.
Returned(r) == [op |-> "idle", e |-> r, msecs |-> "zero"]
Return(c, r) == call' = [call EXCEPT ![c] = Returned(r)]
Idle(c) == call[c].op = "idle"

\* The event whose tryWait() a blocked call is in.
WaitsFor(op) == IF op \in {"put", "returns"} THEN "notFull" ELSE "notEmpty"

\* notFull.clear() or notFull.set(), as room says.
latch(s, e, on) == IF on THEN set(s, e) ELSE clear(s, e)

\* The bound counts the elements that blocked calls are going to add.
Room == Len(queue) + Cardinality({c \in Coroutine : call[c].op \in {"put", "returns"}}) < MaxLength
--------------------------------------------------------------------------------
Init ==
    /\ queue = <<>>
    /\ currentSize = 0
    /\ mCapacity \in Capacities
    /\ m_closed = FALSE
    /\ ev = [e \in Latches |-> NewEvent(e = "notFull")]
    /\ call = [c \in Coroutine |-> Returned("none")]

\* Mutant: the element is added without notEmpty.set().
InsertSilently(c, e, q, s) ==
    IF m_closed
    THEN /\ ev' = s
         /\ Return(c, "false")
         /\ UNCHANGED <<queue, currentSize, mCapacity, m_closed>>
    ELSE /\ queue' = q
         /\ currentSize' = currentSize + Size[e]
         /\ ev' = IF currentSize' >= mCapacity THEN clear(s, "notFull") ELSE s
         /\ Return(c, "true")
         /\ UNCHANGED <<mCapacity, m_closed>>

\* The part of put(), returns(), putForcedly() and returnsForcely() that holds
\* the lock; s are the events at that time.
Insert(c, e, q, s) ==
    IF m_closed
    THEN /\ ev' = s
         /\ Return(c, "false")
         /\ UNCHANGED <<queue, currentSize, mCapacity, m_closed>>
    ELSE /\ queue' = q
         /\ currentSize' = currentSize + Size[e]
         /\ ev' = IF currentSize' >= mCapacity
                  THEN clear(set(s, "notEmpty"), "notFull")
                  ELSE set(s, "notEmpty")
         /\ Return(c, "true")
         /\ UNCHANGED <<mCapacity, m_closed>>

\* Mutant: a full queue stays "full" when an element is taken.
TakeHeadKeepsFull(c, s) ==
    /\ queue # <<>>
    /\ queue' = Tail(queue)
    /\ currentSize' = currentSize - Size[Head(queue)]
    /\ ev' = IF queue' = <<>> /\ ~m_closed THEN clear(s, "notEmpty") ELSE s
    /\ Return(c, Head(queue))
    /\ UNCHANGED <<mCapacity, m_closed>>

\* The first case of get(): there is an element.
TakeHead(c, s) ==
    /\ queue # <<>>
    /\ queue' = Tail(queue)
    /\ currentSize' = currentSize - Size[Head(queue)]
    /\ LET s1 == IF queue' = <<>> /\ ~m_closed THEN clear(s, "notEmpty") ELSE s
       IN  ev' = IF currentSize' < mCapacity THEN set(s1, "notFull") ELSE s1
    /\ Return(c, Head(queue))
    /\ UNCHANGED <<mCapacity, m_closed>>

\* Mutant: get() returns T() whenever it wakes up and finds nothing.
TakeSpurious(c, s) ==
    \/ TakeHead(c, s)
    \/ /\ queue = <<>>
       /\ ev' = s
       /\ Return(c, Default)
       /\ UNCHANGED <<queue, currentSize, mCapacity, m_closed>>

\* The part of get() behind notEmpty.tryWait(): a wake-up that finds an open
\* and empty queue clears the latch and waits again.
Take(c, s) ==
    \/ TakeHead(c, s)
    \/ /\ queue = <<>>
       /\ m_closed
       /\ ev' = s
       /\ Return(c, Default)
       /\ UNCHANGED <<queue, currentSize, mCapacity, m_closed>>
    \/ /\ queue = <<>>
       /\ ~m_closed
       /\ ev' = park(clear(s, "notEmpty"), "notEmpty", c)
       /\ call' = [call EXCEPT ![c] = BlockedIn("get", Default, "forever")]
       /\ UNCHANGED <<queue, currentSize, mCapacity, m_closed>>

\* Behind tryWait(): put() and returns() add, get() takes, waitNotEmpty() is done.
Proceed(c, op, e, s) ==
    \/ op = "put" /\ Insert(c, e, Append(queue, e), s)
    \/ op = "returns" /\ Insert(c, e, <<e>> \o queue, s)
    \/ op = "get" /\ Take(c, s)
    \/ /\ op = "waitNotEmpty"
       /\ ev' = s
       /\ Return(c, "true")
       /\ UNCHANGED <<queue, currentSize, mCapacity, m_closed>>
--------------------------------------------------------------------------------
\* A call that finds its event set, or may not wait for it.
CallNow(c, op, e, msecs) ==
    /\ Idle(c)
    /\ op \in {"put", "returns"} => Room
    /\ IF ev[WaitsFor(op)].flag
       THEN Proceed(c, op, e, ev)
       ELSE /\ msecs = "zero"
            /\ Return(c, "false")
            /\ UNCHANGED <<queue, currentSize, mCapacity, m_closed, ev>>

\* A call that blocks.
CallBlock(c, op, e, msecs) ==
    /\ Idle(c)
    /\ op \in {"put", "returns"} => Room
    /\ ~ev[WaitsFor(op)].flag
    /\ msecs # "zero"
    /\ ev' = park(ev, WaitsFor(op), c)
    /\ call' = [call EXCEPT ![c] = BlockedIn(op, e, msecs)]
    /\ UNCHANGED <<queue, currentSize, mCapacity, m_closed>>

Put(c, e, msecs) == CallNow(c, "put", e, msecs) \/ CallBlock(c, "put", e, msecs)
Returns(c, e) == CallNow(c, "returns", e, "forever") \/ CallBlock(c, "returns", e, "forever")
Get(c) == CallNow(c, "get", Default, "forever") \/ CallBlock(c, "get", Default, "forever")
WaitNotEmpty(c, msecs) ==
    CallNow(c, "waitNotEmpty", Default, msecs) \/ CallBlock(c, "waitNotEmpty", Default, msecs)

PutForcedly(c, e) ==
    /\ Idle(c)
    /\ Room
    /\ Insert(c, e, Append(queue, e), ev)

ReturnsForcely(c, e) ==
    /\ Idle(c)
    /\ Room
    /\ Insert(c, e, <<e>> \o queue, ev)

\* The event loop resumes a notified coroutine inside Event::wait(), which
\* looks at the flag again: the call goes on, waits again, or its time is up.
Wake(c) ==
    LET w == call[c]
        e == WaitsFor(w.op)
        s == leave(ev, e, c) IN
    /\ ~Idle(c)
    /\ c \in ev[e].released
    /\ \/ /\ ev[e].flag
          /\ Proceed(c, w.op, w.e, s)
       \/ /\ ~ev[e].flag
          /\ ev' = park(s, e, c)
          /\ UNCHANGED <<queue, currentSize, mCapacity, m_closed, call>>
       \/ /\ ~ev[e].flag
          /\ w.msecs = "finite"
          /\ ev' = s
          /\ Return(c, "false")
          /\ UNCHANGED <<queue, currentSize, mCapacity, m_closed>>

\* The timer of a put() or waitNotEmpty() with a limit fires.
Timeout(c) ==
    /\ call[c].msecs = "finite"
    /\ ev' = leave(ev, WaitsFor(call[c].op), c)
    /\ Return(c, "false")
    /\ UNCHANGED <<queue, currentSize, mCapacity, m_closed>>

\* An exception is raised in the blocked coroutine.
Kill(c) ==
    /\ ~Idle(c)
    /\ ev' = leave(ev, WaitsFor(call[c].op), c)
    /\ Return(c, "killed")
    /\ UNCHANGED <<queue, currentSize, mCapacity, m_closed>>
--------------------------------------------------------------------------------
setCapacity(n) ==
    /\ mCapacity' = n
    /\ ev' = latch(ev, "notFull", ~(currentSize >= n /\ ~m_closed))
    /\ UNCHANGED <<queue, currentSize, m_closed, call>>

\* Mutant: close() forgets the producers.
closeForGet ==
    /\ m_closed' = TRUE
    /\ ev' = set(ev, "notEmpty")
    /\ UNCHANGED <<queue, currentSize, mCapacity, call>>

close ==
    /\ m_closed' = TRUE
    /\ ev' = set(set(ev, "notEmpty"), "notFull")
    /\ UNCHANGED <<queue, currentSize, mCapacity, call>>

clearQueue ==
    /\ queue' = <<>>
    /\ currentSize' = 0
    /\ ev' = LET s == set(ev, "notFull")
             IN  IF m_closed THEN s ELSE clear(s, "notEmpty")
    /\ UNCHANGED <<mCapacity, m_closed, call>>

\* The loop of remove(): q without the elements equal to e.
Erased(q, e) ==
    LET kept[i \in 0..Len(q)] ==
            IF i = 0 THEN <<>>
            ELSE IF q[i] = e THEN kept[i - 1] ELSE Append(kept[i - 1], q[i])
    IN  kept[Len(q)]

remove(e) ==
    /\ \E i \in DOMAIN queue : queue[i] = e
    /\ queue' = Erased(queue, e)
    /\ currentSize' = currentSize - Size[e] * (Len(queue) - Len(queue'))
    /\ ev' = LET s == IF queue' # <<>> THEN set(ev, "notEmpty")
                      ELSE IF m_closed THEN ev ELSE clear(ev, "notEmpty")
             IN  latch(s, "notFull", ~(currentSize' >= mCapacity /\ ~m_closed))
    /\ UNCHANGED <<mCapacity, m_closed, call>>

notifyNotEmpty ==
    /\ ev' = set(ev, "notEmpty")
    /\ UNCHANGED <<queue, currentSize, mCapacity, m_closed, call>>
--------------------------------------------------------------------------------
Next ==
    \/ \E c \in Coroutine :
          \/ \E e \in Element :
                \/ \E msecs \in {"zero", "finite", "forever"} : Put(c, e, msecs)
                \/ Returns(c, e)
                \/ PutForcedly(c, e)
                \/ ReturnsForcely(c, e)
          \/ Get(c)
          \/ \E msecs \in {"zero", "finite", "forever"} : WaitNotEmpty(c, msecs)
          \/ Wake(c)
          \/ Timeout(c)
          \/ Kill(c)
    \/ \E n \in Capacities : setCapacity(n)
    \/ close
    \/ clearQueue
    \/ \E e \in Element : remove(e)
    \/ notifyNotEmpty

Spec == Init /\ [][Next]_vars
--------------------------------------------------------------------------------
EventType == [flag : BOOLEAN, waiters : SUBSET Coroutine, released : SUBSET Coroutine]
Results == Element \cup {Default, "none", "true", "false", "killed"}
Limits == {"zero", "finite", "forever"}
CallType == [op : Blocking \cup {"idle"}, e : Results, msecs : Limits]

TypeOK ==
    /\ queue \in Seq(Element)
    /\ currentSize \in Int
    /\ mCapacity \in Capacities
    /\ m_closed \in BOOLEAN
    /\ ev \in [Latches -> EventType]
    /\ call \in [Coroutine -> CallType]

\* The latches mean what their names say: an element in the queue keeps
\* notEmpty set, and a queue that is open has notFull set iff there is room.
LatchesTell ==
    /\ queue # <<>> => ev["notEmpty"].flag
    /\ ~m_closed /\ mCapacity > 0 => (ev["notFull"].flag <=> currentSize < mCapacity)

\* The abstract queue: a FIFO with no events.
Abstract == INSTANCE QueueSpec WITH items <- queue, size <- currentSize,
                                    capacity <- mCapacity, closed <- m_closed
RefinesQueueSpec == Abstract!Spec

\* The loop runs the functor of every Lock that was released.
Fairness == \A c \in Coroutine : SF_vars(Wake(c))
FairSpec == Spec /\ Fairness

\* close() ends every call that is blocked, whatever it waits for.
CloseEndsCalls == \A c \in Coroutine : m_closed /\ ~Idle(c) ~> Idle(c)

\* An element and a blocked get() do not stay side by side.
ElementIsTaken ==
    \A c \in Coroutine :
        queue # <<>> /\ call[c].op = "get" ~> queue = <<>> \/ call[c].op # "get"
================================================================================
