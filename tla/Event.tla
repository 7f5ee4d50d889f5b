--------------------------------- MODULE Event ---------------------------------
(***************************************************************************)
(* Event, with the Condition it waits on and the links that make several   *)
(* events one (src/locks.cpp, waitAnyEvent() in include/qtng/locks.h).     *)
(*                                                                         *)
(* Coroutines of one thread: a call runs without interruption until it     *)
(* blocks, so each call and each wake-up is one step.  The exception is    *)
(* set(), which calls itself for the events it is linked to: each of these *)
(* calls is a step, the frames of the calls are kept in stack, and nothing *)
(* else runs before the outermost of them has returned.                    *)
(***************************************************************************)
EXTENDS Sequences, Naturals, EventOps

CONSTANTS Coroutine,  \* the coroutines that wait
          Events      \* the events the program keeps

\* A coroutine stands for the event on its stack in waitAnyEvent() too.
ASSUME EventAssumption == Coroutine \cap Events = {}

VARIABLES ev,       \* the events' fields, see EventOps
          links,    \* pairs <<e, o>>: o is in e's linkTo and e in o's linkFrom
          call,     \* the tryWait() a coroutine is blocked in
          timer,    \* coroutines whose wait has a timer on the event loop
          stack,    \* the calls of EventPrivate::set(), the innermost last
          reached   \* the events that the outermost of them has turned on so far

vars == <<ev, links, call, timer, stack, reached>>

AnyEvent == Events \cup Coroutine

\* A coroutine that is not blocked: the last tryWait() returned this value.
Returned(value) == [on |-> {}, value |-> value]
\* A coroutine that is blocked on e.
BlockedOn(e) == [on |-> {e}, value |-> FALSE]
Blocked(c, e) == e \in call[c].on

Init ==
    /\ ev = [e \in AnyEvent |-> NewEvent(FALSE)]
    /\ links = {}
    /\ call = [c \in Coroutine |-> Returned(FALSE)]
    /\ timer = {}
    /\ stack = <<>>
    /\ reached = {}

\* No set() is running.
Idle == stack = <<>> /\ UNCHANGED <<stack, reached>>

\* EventPrivate::wait() returns the flag at once...
WaitNow(c, e, msecs) ==
    /\ Idle
    /\ call[c].on = {}
    /\ msecs = "zero" \/ ev[e].flag
    /\ call' = [call EXCEPT ![c] = Returned(ev[e].flag)]
    /\ UNCHANGED <<ev, links, timer>>

\* ... or waits on the condition.
WaitBlock(c, e, msecs) ==
    /\ Idle
    /\ call[c].on = {}
    /\ msecs # "zero"
    /\ ~ev[e].flag
    /\ ev' = park(ev, e, c)
    /\ call' = [call EXCEPT ![c] = BlockedOn(e)]
    /\ timer' = IF msecs = "finite" THEN timer \cup {c} ELSE timer
    /\ UNCHANGED links

\* waitAnyEvent(): a fresh event on the caller's stack is linked from one event
\* after another.  One that is set already ends the call, and the destructor of
\* the fresh event takes its links away again.
WaitAny(c, events) ==
    /\ Idle
    /\ call[c].on = {}
    /\ IF \E e \in events : ev[e].flag
       THEN /\ call' = [call EXCEPT ![c] = Returned(TRUE)]
            /\ UNCHANGED <<ev, links>>
       ELSE /\ links' = links \cup {<<e, c>> : e \in events}
            /\ ev' = park(ev, c, c)
            /\ call' = [call EXCEPT ![c] = BlockedOn(c)]
    /\ UNCHANGED timer

\* The end of waitAnyEvent() destroys its event: ~EventPrivate takes it out of
\* the linkTo of every event that is linked to it.
LinksLeft(c, e) == IF e = c THEN {l \in links : l[2] # c} ELSE links

\* The wait of c at e ends.  The event of waitAnyEvent() ends with it.
Return(c, e, value) ==
    /\ ev' = IF e = c THEN clear(leave(ev, e, c), e) ELSE leave(ev, e, c)
    /\ links' = LinksLeft(c, e)
    /\ call' = [call EXCEPT ![c] = Returned(value)]
    /\ timer' = timer \ {c}

\* Mutant: the flag is not looked at again.
WakeTrusting(c, e) ==
    /\ Idle
    /\ c \in ev[e].released
    /\ Return(c, e, TRUE)

\* The functor of the Lock runs: condition.wait() returns true, wait() checks
\* the flag and returns, or waits again, or finds its time used up.
Wake(c, e) ==
    /\ Idle
    /\ c \in ev[e].released
    /\ \/ /\ ev[e].flag
          /\ Return(c, e, TRUE)
       \/ /\ ~ev[e].flag
          /\ ev' = park(leave(ev, e, c), e, c)
          /\ UNCHANGED <<links, call, timer>>
       \/ /\ ~ev[e].flag
          /\ c \in timer
          /\ Return(c, e, FALSE)

\* The timer of the Lock's acquire() fires first: wait() returns false, also
\* when the condition has been notified in between.
Timeout(c, e) ==
    /\ Idle
    /\ c \in timer
    /\ Blocked(c, e)
    /\ Return(c, e, FALSE)

\* An exception is raised in the blocked coroutine.
Kill(c, e) ==
    /\ Idle
    /\ Blocked(c, e)
    /\ Return(c, e, FALSE)

\* The events in e's linkTo.
LinkTo(e) == {o \in AnyEvent : <<e, o>> \in links}

\* Mutant: an event that is set already ends the loop of its caller.
EnterStops(e, frames) ==
    IF ev[e].flag
    THEN /\ stack' = SubSeq(frames, 1, Len(frames) - 1)
         /\ reached' = IF stack' = <<>> THEN {} ELSE reached
         /\ UNCHANGED ev
    ELSE /\ ev' = set(ev, e)
         /\ stack' = Append(frames, [event |-> e, rest |-> LinkTo(e)])
         /\ reached' = reached \cup {e}

\* Mutant: the flag is left to the end of the loop.
EnterFlagLast(e, frames) ==
    IF ev[e].flag
    THEN /\ stack' = frames
         /\ UNCHANGED <<ev, reached>>
    ELSE /\ stack' = Append(frames, [event |-> e, rest |-> LinkTo(e)])
         /\ reached' = reached \cup {e}
         /\ UNCHANGED ev

\* Mutant: set() does not notify.
EnterSilently(e, frames) ==
    IF ev[e].flag
    THEN /\ stack' = frames
         /\ UNCHANGED <<ev, reached>>
    ELSE /\ ev' = [ev EXCEPT ![e].flag = TRUE]
         /\ stack' = Append(frames, [event |-> e, rest |-> LinkTo(e)])
         /\ reached' = reached \cup {e}

\* EventPrivate::set() of e is called: it returns at once when e is set, and
\* sets the flag, notifies and comes to its loop when not.
Enter(e, frames) ==
    IF ev[e].flag
    THEN /\ stack' = frames
         /\ UNCHANGED <<ev, reached>>
    ELSE /\ ev' = set(ev, e)
         /\ stack' = Append(frames, [event |-> e, rest |-> LinkTo(e)])
         /\ reached' = reached \cup {e}

Set(e) ==
    /\ stack = <<>>
    /\ Enter(e, stack)
    /\ UNCHANGED <<links, call, timer>>

\* The loop of the innermost call comes to the linked event o.
SetNext(o) ==
    /\ stack # <<>>
    /\ o \in stack[Len(stack)].rest
    /\ Enter(o, [stack EXCEPT ![Len(stack)].rest = @ \ {o}])
    /\ UNCHANGED <<links, call, timer>>

\* ... or to its end, and the call returns.
SetReturn ==
    /\ stack # <<>>
    /\ stack[Len(stack)].rest = {}
    /\ stack' = SubSeq(stack, 1, Len(stack) - 1)
    /\ reached' = IF Len(stack) = 1 THEN {} ELSE reached
    /\ UNCHANGED <<ev, links, call, timer>>

Clear(e) ==
    /\ Idle
    /\ ev' = clear(ev, e)
    /\ UNCHANGED <<links, call, timer>>

Link(e, other) ==
    /\ Idle
    /\ links' = links \cup {<<e, other>>}
    /\ UNCHANGED <<ev, call, timer>>

Unlink(e, other) ==
    /\ Idle
    /\ links' = links \ {<<e, other>>}
    /\ UNCHANGED <<ev, call, timer>>

Next ==
    \/ \E c \in Coroutine :
          \/ \E e \in Events, msecs \in {"zero", "finite", "forever"} :
                WaitNow(c, e, msecs) \/ WaitBlock(c, e, msecs)
          \/ \E events \in SUBSET Events : WaitAny(c, events)
          \/ \E e \in AnyEvent : Wake(c, e) \/ Timeout(c, e) \/ Kill(c, e)
    \/ \E e \in Events :
          \/ Set(e)
          \/ Clear(e)
          \/ \E other \in Events : Link(e, other) \/ Unlink(e, other)
    \/ \E o \in AnyEvent : SetNext(o)
    \/ SetReturn

Spec == Init /\ [][Next]_vars
--------------------------------------------------------------------------------
TypeOK ==
    /\ ev \in [AnyEvent -> [flag : BOOLEAN, waiters : SUBSET Coroutine,
                            released : SUBSET Coroutine]]
    /\ links \subseteq Events \X AnyEvent
    /\ call \in [Coroutine -> [on : {{}} \cup {{e} : e \in AnyEvent}, value : BOOLEAN]]
    /\ timer \subseteq Coroutine
    /\ stack \in Seq([event : AnyEvent, rest : SUBSET AnyEvent])
    /\ reached \subseteq AnyEvent

\* Nobody sleeps through a set event: set() notifies only when it turns the
\* flag on, so a coroutine that were on the list of a set event would stay.
NobodySleepsOnASetEvent == \A e \in AnyEvent : ev[e].flag => ev[e].waiters = {}

\* The recursion of set() ends in every graph of links: a call that comes back
\* to an event whose loop is still running, round a cycle, finds it set and
\* starts no second loop, so there are never more frames than events.
SetsAnEventOnce ==
    \A i, j \in 1..Len(stack) : stack[i].event = stack[j].event => i = j

\* When set() returns, every event it turned on has passed it on to each event
\* it is linked to, also where two chains of links meet or one runs in a circle
\* and the recursion came upon an event that was set already.
SetReachesLinks ==
    [][stack # <<>> /\ stack' = <<>> =>
          \A l \in links : l[1] \in reached => ev'[l[2]].flag]_vars

\* waitAnyEvent() does not miss an event: between two calls, an event that it
\* waits for is set only if its own event is set too, whatever was linked,
\* cleared and set again, by way of which links, since it began to wait.
WaitAnyIsTold ==
    stack = <<>> => \A l \in links : l[2] \in Coroutine /\ ev[l[1]].flag => ev[l[2]].flag

\* No event is linked to the event of a waitAnyEvent() that has ended, by a
\* set(), an exception or an event that was set before it waited: set() would
\* go on in a destroyed object.
NoLinkOutlivesItsEvent == \A l \in links : l[2] \in Coroutine => Blocked(l[2], l[2])

\* A wait that slept returns true only while its event is set: one that was
\* notified and then overtaken by clear() must look again.
TrueMeansSet ==
    [][\A c \in Coroutine, e \in AnyEvent :
          Blocked(c, e) /\ call'[c] = Returned(TRUE) => ev[e].flag]_vars

\* The loop runs the functor of every Lock that was released, and a set() that
\* has begun runs to its end.
Fairness ==
    /\ \A c \in Coroutine : SF_vars(\E e \in AnyEvent : Wake(c, e))
    /\ WF_vars((\E o \in AnyEvent : SetNext(o)) \/ SetReturn)
FairSpec == Spec /\ Fairness

\* A coroutine that waits for an event that stays set gets on.
WaitEnds ==
    \A c \in Coroutine :
        LET Asleep == \E e \in AnyEvent : Blocked(c, e) /\ ev[e].flag
        IN  Asleep ~> ~Asleep
================================================================================
