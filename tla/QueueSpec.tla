------------------------------- MODULE QueueSpec -------------------------------
(***************************************************************************)
(* What Queue and SizedQueue promise, without events, timers or wake-ups   *)
(* (the comments on SizedQueueType in include/qtng/locks.h): a bounded     *)
(* FIFO that can be closed.  A call completes at once or is pending, and   *)
(* completes at any time at which the state of the queue allows it.        *)
(***************************************************************************)
EXTENDS Integers, Sequences

CONSTANTS Coroutine, Element, Size, Capacities, Default

VARIABLES items,     \* elements, the head first
          size,      \* the sum of their sizes
          capacity,
          closed,
          call       \* the pending call of each coroutine, or its last result

vars == <<items, size, capacity, closed, call>>

\* A pending call: get() and waitNotEmpty() have no argument, Default stands
\* for it.  msecs tells whether the call may give up by itself.
Pending(op, e, msecs) == [op |-> op, e |-> e, msecs |-> msecs]
\* No call is pending; the last one returned r.
Returned(r) == [op |-> "idle", e |-> r, msecs |-> "zero"]

\* c makes this call now, or made it earlier and it is still pending.
Asks(c, op, e, msecs) == call[c].op = "idle" \/ call[c] = Pending(op, e, msecs)
Return(c, r) == call' = [call EXCEPT ![c] = Returned(r)]

Init ==
    /\ items = <<>>
    /\ size = 0
    /\ capacity \in Capacities
    /\ closed = FALSE
    /\ call = [c \in Coroutine |-> Returned("none")]

\* The call cannot complete yet.
Start(c, op, e, msecs) ==
    /\ call[c].op = "idle"
    /\ \/ op \in {"put", "returns"} /\ ~closed /\ size >= capacity
       \/ op \in {"get", "waitNotEmpty"} /\ ~closed /\ items = <<>>
    /\ msecs # "zero"
    /\ call' = [call EXCEPT ![c] = Pending(op, e, msecs)]
    /\ UNCHANGED <<items, size, capacity, closed>>

\* put() appends, returns() prepends.
Added(op, e) == IF op \in {"put", "putForcedly"} THEN Append(items, e) ELSE <<e>> \o items

Add(c, op, e, msecs) ==
    /\ Asks(c, op, e, msecs)
    /\ ~closed
    /\ size < capacity \/ op \in {"putForcedly", "returnsForcely"}
    /\ items' = Added(op, e)
    /\ size' = size + Size[e]
    /\ Return(c, "true")
    /\ UNCHANGED <<capacity, closed>>

\* An element is refused when the queue is closed, and only then...
Refuse(c, op, e, msecs) ==
    /\ Asks(c, op, e, msecs)
    /\ closed
    /\ Return(c, "false")
    /\ UNCHANGED <<items, size, capacity, closed>>

\* ... unless the caller set a limit to its wait.
GiveUp(c, op, e, msecs) ==
    /\ Asks(c, op, e, msecs)
    /\ msecs # "forever"
    /\ Return(c, "false")
    /\ UNCHANGED <<items, size, capacity, closed>>

Get(c) ==
    /\ Asks(c, "get", Default, "forever")
    /\ items # <<>>
    /\ items' = Tail(items)
    /\ size' = size - Size[Head(items)]
    /\ Return(c, Head(items))
    /\ UNCHANGED <<capacity, closed>>

\* T() says that the queue is closed and drained.
EndOfStream(c) ==
    /\ Asks(c, "get", Default, "forever")
    /\ closed
    /\ items = <<>>
    /\ Return(c, Default)
    /\ UNCHANGED <<items, size, capacity, closed>>

\* waitNotEmpty() may also return because of notifyNotEmpty().
SeenNotEmpty(c, msecs) ==
    /\ Asks(c, "waitNotEmpty", Default, msecs)
    /\ Return(c, "true")
    /\ UNCHANGED <<items, size, capacity, closed>>

\* An exception is raised in a pending call.
Abort(c) ==
    /\ call[c].op # "idle"
    /\ Return(c, "killed")
    /\ UNCHANGED <<items, size, capacity, closed>>

Close ==
    /\ closed' = TRUE
    /\ UNCHANGED <<items, size, capacity, call>>

SetCapacity(n) ==
    /\ capacity' = n
    /\ UNCHANGED <<items, size, closed, call>>

Clear ==
    /\ items' = <<>>
    /\ size' = 0
    /\ UNCHANGED <<capacity, closed, call>>

\* t is what is left of s without e, in the order of s: f tells where each
\* element was.
LeftOf(t, s, e) ==
    \E f \in [1..Len(t) -> {i \in 1..Len(s) : s[i] # e}] :
        /\ \A i, j \in 1..Len(t) : i < j => f[i] < f[j]
        /\ \A k \in 1..Len(s) : s[k] # e => \E i \in 1..Len(t) : f[i] = k
        /\ t = [i \in 1..Len(t) |-> s[f[i]]]

Remove(e) ==
    /\ items' \in Seq(Element)
    /\ LeftOf(items', items, e)
    /\ size' = size - Size[e] * (Len(items) - Len(items'))
    /\ UNCHANGED <<capacity, closed, call>>

AddCall(c) ==
    \E e \in Element :
        \/ \E msecs \in {"zero", "finite", "forever"} :
              \/ Start(c, "put", e, msecs)
              \/ Add(c, "put", e, msecs)
              \/ Refuse(c, "put", e, msecs)
              \/ GiveUp(c, "put", e, msecs)
        \/ Start(c, "returns", e, "forever")
        \/ \E op \in {"returns", "putForcedly", "returnsForcely"} :
              Add(c, op, e, "forever") \/ Refuse(c, op, e, "forever")

TakeCall(c) ==
    \/ Start(c, "get", Default, "forever")
    \/ Get(c)
    \/ EndOfStream(c)
    \/ \E msecs \in {"zero", "finite", "forever"} :
          \/ Start(c, "waitNotEmpty", Default, msecs)
          \/ GiveUp(c, "waitNotEmpty", Default, msecs)
          \/ SeenNotEmpty(c, msecs)

Next ==
    \/ \E c \in Coroutine : AddCall(c) \/ TakeCall(c) \/ Abort(c)
    \/ Close
    \/ \E n \in Capacities : SetCapacity(n)
    \/ Clear
    \/ \E e \in Element : Remove(e)

Spec == Init /\ [][Next]_vars
================================================================================
