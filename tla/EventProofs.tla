------------------------------ MODULE EventProofs ------------------------------
(***************************************************************************)
(* Proofs about Event, for any coroutines and any events, linked in any    *)
(* way.                                                                    *)
(***************************************************************************)
EXTENDS Event, SequenceTheorems, TLAPS

EventType == [flag : BOOLEAN, waiters : SUBSET Coroutine, released : SUBSET Coroutine]
CallType == [on : {{}} \cup {{e} : e \in AnyEvent}, value : BOOLEAN]
Frame == [event : AnyEvent, rest : SUBSET AnyEvent]

\* A coroutine is on a list of an event, or its Lock was released, exactly when
\* it is blocked there, and never both.
ListsTell ==
    \A c \in Coroutine, e \in AnyEvent :
        /\ Blocked(c, e) <=> c \in ev[e].waiters \cup ev[e].released
        /\ c \notin ev[e].waiters \cap ev[e].released

\* A loop of set() has still to come to o.
Listed(o) == \E i \in 1..Len(stack) : o \in stack[i].rest

\* The calls of set() in progress: each event has its flag on before its loop
\* starts, and what the loop has left are links of this event.
FramesAreSet ==
    \A i \in 1..Len(stack) :
        /\ ev[stack[i].event].flag
        /\ \A o \in stack[i].rest : <<stack[i].event, o>> \in links

\* What the outermost set() turned on has passed it on, or has a loop that will.
ReachedPassesOn ==
    /\ stack = <<>> => reached = {}
    /\ \A l \in links : l[1] \in reached => ev[l[2]].flag \/ Listed(l[2])

\* The same for what waitAnyEvent() waits for.
AnyIsToldOrListed ==
    \A l \in links : l[2] \in Coroutine /\ ev[l[1]].flag => ev[l[2]].flag \/ Listed(l[2])

\* The event of a waitAnyEvent() is new when the call begins.
FreshIsClear == \A c \in Coroutine : ev[c].flag => Blocked(c, c)

IndInv ==
    /\ TypeOK
    /\ ListsTell
    /\ NobodySleepsOnASetEvent
    /\ FramesAreSet
    /\ SetsAnEventOnce
    /\ ReachedPassesOn
    /\ AnyIsToldOrListed
    /\ FreshIsClear
    /\ NoLinkOutlivesItsEvent

\* A coroutine that is blocked on an event that is set has its wake-up on the
\* event loop.
SleeperIsReleased ==
    \A c \in Coroutine, e \in AnyEvent :
        ev[e].flag /\ Blocked(c, e) => c \in ev[e].released
--------------------------------------------------------------------------------
\* The fields of the events after wait() went to sleep, and after it ended.
Only(x, e, c) == IF x = e THEN {c} ELSE {}

LEMMA ParkFields ==
    ASSUME NEW s \in [AnyEvent -> EventType], NEW e \in AnyEvent, NEW c \in Coroutine
    PROVE  /\ park(s, e, c) \in [AnyEvent -> EventType]
           /\ \A x \in AnyEvent :
                 /\ park(s, e, c)[x].flag = s[x].flag
                 /\ park(s, e, c)[x].waiters = s[x].waiters \cup Only(x, e, c)
                 /\ park(s, e, c)[x].released = s[x].released
<1>1. s[e] \in EventType
  OBVIOUS
<1>2. [s[e] EXCEPT !.waiters = @ \cup {c}] \in EventType
  BY <1>1 DEF EventType
<1> QED
  BY <1>1, <1>2 DEF park, EventType, Only

LEMMA LeaveFields ==
    ASSUME NEW s \in [AnyEvent -> EventType], NEW e \in AnyEvent, NEW c \in Coroutine
    PROVE  /\ leave(s, e, c) \in [AnyEvent -> EventType]
           /\ \A x \in AnyEvent :
                 /\ leave(s, e, c)[x].flag = s[x].flag
                 /\ leave(s, e, c)[x].waiters = s[x].waiters \ Only(x, e, c)
                 /\ leave(s, e, c)[x].released = s[x].released \ Only(x, e, c)
<1>1. s[e] \in EventType
  OBVIOUS
<1>2. leave(s, e, c) \in [AnyEvent -> EventType]
  BY <1>1 DEF leave, EventType
<1> QED
  BY <1>1, <1>2 DEF leave, EventType, Only

LEMMA ClearFields ==
    ASSUME NEW s \in [AnyEvent -> EventType], NEW e \in AnyEvent
    PROVE  /\ clear(s, e) \in [AnyEvent -> EventType]
           /\ \A x \in AnyEvent :
                 /\ clear(s, e)[x].flag = (x # e /\ s[x].flag)
                 /\ clear(s, e)[x].waiters = s[x].waiters
                 /\ clear(s, e)[x].released = s[x].released
<1>1. \A x \in AnyEvent : s[x] \in EventType
  OBVIOUS
<1>2. clear(s, e) \in [AnyEvent -> EventType]
  BY <1>1 DEF clear, EventType
<1> QED
  BY <1>1, <1>2 DEF clear, EventType

LEMMA SetFields ==
    ASSUME NEW s \in [AnyEvent -> EventType], NEW e \in AnyEvent, ~s[e].flag
    PROVE  /\ set(s, e) \in [AnyEvent -> EventType]
           /\ set(s, e)[e].flag
           /\ set(s, e)[e].waiters = {}
           /\ set(s, e)[e].released = s[e].released \cup s[e].waiters
           /\ \A x \in AnyEvent : x # e => set(s, e)[x] = s[x]
<1> DEFINE on == [flag |-> TRUE, waiters |-> {}, released |-> s[e].released \cup s[e].waiters]
<1>1. s[e] \in EventType
  OBVIOUS
<1>2. on \in EventType
  BY <1>1 DEF EventType
<1>3. set(s, e) = [s EXCEPT ![e] = on]
  BY DEF set
<1> QED
  BY <1>2, <1>3

\* What TypeOK says, in one place.
LEMMA Types ==
    TypeOK <=> /\ ev \in [AnyEvent -> EventType]
               /\ links \subseteq Events \X AnyEvent
               /\ call \in [Coroutine -> CallType]
               /\ timer \subseteq Coroutine
               /\ stack \in Seq(Frame)
               /\ reached \subseteq AnyEvent
BY DEF TypeOK, EventType, CallType, Frame

\* The invariant holds when every event is new.
LEMMA InitIndInv == Init => IndInv
<1> SUFFICES ASSUME Init PROVE IndInv
  OBVIOUS
<1>1. NewEvent(FALSE) \in EventType /\ Returned(FALSE) \in CallType
  BY DEF NewEvent, EventType, Returned, CallType
<1>2. ev \in [AnyEvent -> EventType] /\ call \in [Coroutine -> CallType]
  BY <1>1 DEF Init
<1>3. stack \in Seq(Frame) /\ Len(stack) = 0
  BY DEF Init
<1>4. TypeOK
  BY <1>2, <1>3, Types DEF Init
<1>5. \A e \in AnyEvent : ~ev[e].flag /\ ev[e].waiters = {} /\ ev[e].released = {}
  BY DEF Init, NewEvent
<1>6. \A c \in Coroutine : call[c].on = {}
  BY DEF Init, Returned
<1>7. ListsTell /\ NobodySleepsOnASetEvent /\ FreshIsClear
  BY <1>5, <1>6 DEF ListsTell, NobodySleepsOnASetEvent, Blocked, FreshIsClear, AnyEvent
<1>8. FramesAreSet /\ SetsAnEventOnce
  BY <1>3 DEF FramesAreSet, SetsAnEventOnce
<1>9. ReachedPassesOn /\ AnyIsToldOrListed /\ NoLinkOutlivesItsEvent
  BY DEF Init, ReachedPassesOn, AnyIsToldOrListed, NoLinkOutlivesItsEvent
<1> QED
  BY <1>4, <1>7, <1>8, <1>9 DEF IndInv

\* While no set() runs, nothing has to be said of its frames.
LEMMA IdleKeeps ==
    ASSUME IndInv, Idle,
           TypeOK', ListsTell', NobodySleepsOnASetEvent', FreshIsClear',
           NoLinkOutlivesItsEvent',
           \A l \in links' : l[2] \in Coroutine /\ ev'[l[1]].flag => ev'[l[2]].flag
    PROVE  IndInv'
<1>1. stack = <<>> /\ stack' = <<>> /\ Len(stack') = 0
  BY DEF Idle
<1>2. reached' = {}
  BY <1>1 DEF Idle, IndInv, ReachedPassesOn
<1>3. FramesAreSet' /\ SetsAnEventOnce'
  BY <1>1 DEF FramesAreSet, SetsAnEventOnce
<1>4. ReachedPassesOn' /\ AnyIsToldOrListed'
  BY <1>2 DEF ReachedPassesOn, AnyIsToldOrListed
<1> QED
  BY <1>3, <1>4 DEF IndInv

\* Between two calls the links tell waitAnyEvent() what it waits for.
LEMMA IdleTold ==
    ASSUME IndInv, stack = <<>>, NEW l \in links, l[2] \in Coroutine, ev[l[1]].flag
    PROVE  ev[l[2]].flag
<1>1. Len(stack) = 0
  OBVIOUS
<1>2. ~Listed(l[2])
  BY <1>1 DEF Listed
<1> QED
  BY <1>2 DEF IndInv, AnyIsToldOrListed

\* A coroutine whose wait ends is on no list any more, and the event of its
\* waitAnyEvent() is in no linkTo.
LEMMA ReturnKeeps ==
    ASSUME IndInv, Idle, NEW c \in Coroutine, NEW e \in AnyEvent, Blocked(c, e),
           NEW b \in BOOLEAN, Return(c, e, b)
    PROVE  IndInv'
<1>1. /\ ev \in [AnyEvent -> EventType] /\ call \in [Coroutine -> CallType]
      /\ links \subseteq Events \X AnyEvent /\ timer \subseteq Coroutine
      /\ stack \in Seq(Frame) /\ reached \subseteq AnyEvent
  BY Types DEF IndInv
<1>2. /\ leave(ev, e, c) \in [AnyEvent -> EventType]
      /\ \A x \in AnyEvent : /\ leave(ev, e, c)[x].flag = ev[x].flag
                             /\ leave(ev, e, c)[x].waiters = ev[x].waiters \ Only(x, e, c)
                             /\ leave(ev, e, c)[x].released = ev[x].released \ Only(x, e, c)
  BY <1>1, LeaveFields
<1>3. /\ ev' \in [AnyEvent -> EventType]
      /\ \A x \in AnyEvent : /\ ev'[x].flag = (~(e = c /\ x = e) /\ ev[x].flag)
                             /\ ev'[x].waiters = ev[x].waiters \ Only(x, e, c)
                             /\ ev'[x].released = ev[x].released \ Only(x, e, c)
  <2>1. \A x \in AnyEvent : ev[x].flag \in BOOLEAN
    BY <1>1 DEF EventType
  <2>2. CASE e = c
    <3>1. ev' = clear(leave(ev, e, c), e)
      BY <2>2 DEF Return
    <3> DEFINE s == leave(ev, e, c)
    <3>2. s \in [AnyEvent -> EventType] /\ ev' = clear(s, e)
      BY <1>2, <3>1
    <3> HIDE DEF s
    <3>3. /\ ev' \in [AnyEvent -> EventType]
          /\ \A x \in AnyEvent : /\ ev'[x].flag = (x # e /\ s[x].flag)
                                 /\ ev'[x].waiters = s[x].waiters
                                 /\ ev'[x].released = s[x].released
      BY <3>2, ClearFields
    <3> QED
      BY <3>3, <2>1, <2>2, <1>2 DEF s
  <2>3. CASE e # c
    BY <2>1, <2>3, <1>2 DEF Return
  <2> QED
    BY <2>2, <2>3
<1>4. Returned(b) \in CallType /\ Returned(b).on = {}
  BY DEF Returned, CallType
<1>5. /\ call' \in [Coroutine -> CallType] /\ call'[c].on = {}
      /\ \A d \in Coroutine : d # c => call'[d] = call[d]
  BY <1>1, <1>4 DEF Return
<1>6. links' \subseteq links /\ \A l \in links' : l[2] = c => e # c
  BY DEF Return, LinksLeft
<1>7. TypeOK'
  <2>1. timer' \subseteq Coroutine /\ UNCHANGED <<stack, reached>>
    BY <1>1 DEF Return, Idle
  <2> QED
    BY <1>1, <1>3, <1>5, <1>6, <2>1, Types DEF TypeOK, EventType, CallType, Frame
<1>8. call[c].on = {e}
  BY <1>1 DEF CallType, Blocked
<1>9. NobodySleepsOnASetEvent'
  BY <1>3 DEF IndInv, NobodySleepsOnASetEvent
<1>10. \A x \in AnyEvent : x # e => c \notin ev[x].waiters \cup ev[x].released
  BY <1>8 DEF IndInv, ListsTell, Blocked
<1>11. ListsTell'
  <2> SUFFICES ASSUME NEW d \in Coroutine, NEW x \in AnyEvent
               PROVE  /\ x \in call'[d].on <=> d \in ev'[x].waiters \cup ev'[x].released
                      /\ d \notin ev'[x].waiters \cap ev'[x].released
    BY DEF ListsTell, Blocked
  <2>1. /\ x \in call[d].on <=> d \in ev[x].waiters \cup ev[x].released
        /\ d \notin ev[x].waiters \cap ev[x].released
    BY DEF IndInv, ListsTell, Blocked
  <2>2. CASE d = c
    BY <2>1, <2>2, <1>3, <1>5, <1>10 DEF Only
  <2>3. CASE d # c
    BY <2>1, <2>3, <1>5, <1>3 DEF Only
  <2> QED
    BY <2>2, <2>3
<1>12. FreshIsClear'
  <2> SUFFICES ASSUME NEW d \in Coroutine, ev'[d].flag PROVE d \in call'[d].on
    BY DEF FreshIsClear, Blocked
  <2>1. d \in AnyEvent
    BY DEF AnyEvent
  <2>2. ev[d].flag /\ ~(e = c /\ d = e)
    BY <1>3, <2>1
  <2>3. d \in call[d].on
    BY <2>2 DEF IndInv, FreshIsClear, Blocked
  <2>4. d # c
    BY <2>2, <2>3, <1>8
  <2> QED
    BY <2>3, <2>4, <1>5
<1>13. NoLinkOutlivesItsEvent'
  <2> SUFFICES ASSUME NEW l \in links', l[2] \in Coroutine PROVE l[2] \in call'[l[2]].on
    BY DEF NoLinkOutlivesItsEvent, Blocked
  <2>1. l[2] \in call[l[2]].on
    BY <1>6 DEF IndInv, NoLinkOutlivesItsEvent, Blocked
  <2>2. l[2] # c
    BY <2>1, <1>6, <1>8
  <2> QED
    BY <2>1, <2>2, <1>5
<1>14. ASSUME NEW l \in links', l[2] \in Coroutine, ev'[l[1]].flag
       PROVE  ev'[l[2]].flag
  <2>1. l \in links /\ l[1] \in AnyEvent /\ l[2] \in AnyEvent
    BY <1>1, <1>6 DEF AnyEvent
  <2>2. ev[l[1]].flag
    BY <1>3, <1>14, <2>1
  <2>3. ev[l[2]].flag
    BY <1>14, <2>1, <2>2, IdleTold DEF Idle
  <2> QED
    BY <1>3, <1>6, <1>14, <2>1, <2>3
<1> QED
  BY <1>7, <1>9, <1>11, <1>12, <1>13, <1>14, IdleKeeps

\* A coroutine that was on no list parks at an event that is not set.  The
\* links it adds come from events that are not set, and lead to its own event.
LEMMA ParkKeeps ==
    ASSUME IndInv, Idle, NEW c \in Coroutine, NEW e \in AnyEvent, call[c].on = {}, ~ev[e].flag,
           ev' = park(ev, e, c), call' = [call EXCEPT ![c] = BlockedOn(e)],
           timer' \subseteq Coroutine, links' \subseteq Events \X AnyEvent,
           \A l \in links' \ links : ~ev[l[1]].flag /\ l[2] = c /\ e = c
    PROVE  IndInv'
<1>1. /\ ev \in [AnyEvent -> EventType] /\ call \in [Coroutine -> CallType]
      /\ stack \in Seq(Frame) /\ reached \subseteq AnyEvent
  BY Types DEF IndInv
<1>2. /\ ev' \in [AnyEvent -> EventType]
      /\ \A x \in AnyEvent : /\ ev'[x].flag = ev[x].flag
                             /\ ev'[x].waiters = ev[x].waiters \cup Only(x, e, c)
                             /\ ev'[x].released = ev[x].released
  BY <1>1, ParkFields
<1>3. BlockedOn(e) \in CallType /\ BlockedOn(e).on = {e}
  BY DEF BlockedOn, CallType
<1>4. /\ call' \in [Coroutine -> CallType] /\ call'[c].on = {e}
      /\ \A d \in Coroutine : d # c => call'[d] = call[d]
  BY <1>1, <1>3
<1>5. TypeOK'
  <2>1. UNCHANGED <<stack, reached>>
    BY DEF Idle
  <2> QED
    BY <1>1, <1>2, <1>4, <2>1 DEF TypeOK, EventType, CallType, Frame
<1>6. NobodySleepsOnASetEvent'
  BY <1>2 DEF IndInv, NobodySleepsOnASetEvent, Only
<1>7. ListsTell'
  <2> SUFFICES ASSUME NEW d \in Coroutine, NEW x \in AnyEvent
               PROVE  /\ x \in call'[d].on <=> d \in ev'[x].waiters \cup ev'[x].released
                      /\ d \notin ev'[x].waiters \cap ev'[x].released
    BY DEF ListsTell, Blocked
  <2>1. /\ x \in call[d].on <=> d \in ev[x].waiters \cup ev[x].released
        /\ d \notin ev[x].waiters \cap ev[x].released
    BY DEF IndInv, ListsTell, Blocked
  <2>2. CASE d = c
    BY <2>1, <2>2, <1>2, <1>4 DEF Only
  <2>3. CASE d # c
    BY <2>1, <2>3, <1>4, <1>2 DEF Only
  <2> QED
    BY <2>2, <2>3
<1>8. \A d \in Coroutine : d \in call[d].on => d \in call'[d].on
  BY <1>4
<1>9. FreshIsClear'
  BY <1>2, <1>8 DEF IndInv, FreshIsClear, Blocked, AnyEvent
<1>10. NoLinkOutlivesItsEvent'
  <2> SUFFICES ASSUME NEW l \in links', l[2] \in Coroutine PROVE l[2] \in call'[l[2]].on
    BY DEF NoLinkOutlivesItsEvent, Blocked
  <2>1. CASE l \in links
    BY <2>1, <1>8 DEF IndInv, NoLinkOutlivesItsEvent, Blocked
  <2>2. CASE l \notin links
    BY <2>2, <1>4
  <2> QED
    BY <2>1, <2>2
<1>11. ASSUME NEW l \in links', l[2] \in Coroutine, ev'[l[1]].flag
       PROVE  ev'[l[2]].flag
  <2>1. l[1] \in AnyEvent /\ l[2] \in AnyEvent
    BY DEF AnyEvent
  <2>2. ev[l[1]].flag /\ l \in links
    BY <1>2, <1>11, <2>1
  <2>3. ev[l[2]].flag
    BY <1>11, <2>2, IdleTold DEF Idle
  <2> QED
    BY <2>1, <2>3, <1>2
<1> QED
  BY <1>5, <1>6, <1>7, <1>9, <1>10, <1>11, IdleKeeps

\* A woken coroutine that finds the flag cleared goes back to the list.
LEMMA ReparkKeeps ==
    ASSUME IndInv, Idle, NEW c \in Coroutine, NEW e \in AnyEvent, c \in ev[e].released,
           ~ev[e].flag, ev' = park(leave(ev, e, c), e, c), UNCHANGED <<call, timer, links>>
    PROVE  IndInv'
<1>1. /\ ev \in [AnyEvent -> EventType] /\ call \in [Coroutine -> CallType]
      /\ links \subseteq Events \X AnyEvent
  BY Types DEF IndInv
<1> DEFINE s == leave(ev, e, c)
<1>2. /\ s \in [AnyEvent -> EventType]
      /\ \A x \in AnyEvent : /\ s[x].flag = ev[x].flag
                             /\ s[x].waiters = ev[x].waiters \ Only(x, e, c)
                             /\ s[x].released = ev[x].released \ Only(x, e, c)
      /\ ev' = park(s, e, c)
  BY <1>1, LeaveFields
<1> HIDE DEF s
<1>3. /\ ev' \in [AnyEvent -> EventType]
      /\ \A x \in AnyEvent : /\ ev'[x].flag = ev[x].flag
                             /\ ev'[x].waiters = s[x].waiters \cup Only(x, e, c)
                             /\ ev'[x].released = s[x].released
  BY <1>2, ParkFields
<1>4. TypeOK'
  BY <1>3 DEF IndInv, TypeOK, EventType, Idle
<1>5. NobodySleepsOnASetEvent'
  BY <1>2, <1>3 DEF IndInv, NobodySleepsOnASetEvent, Only
<1>6. ListsTell'
  <2> SUFFICES ASSUME NEW d \in Coroutine, NEW x \in AnyEvent
               PROVE  /\ x \in call[d].on <=> d \in ev'[x].waiters \cup ev'[x].released
                      /\ d \notin ev'[x].waiters \cap ev'[x].released
    BY DEF ListsTell, Blocked
  <2>1. /\ x \in call[d].on <=> d \in ev[x].waiters \cup ev[x].released
        /\ d \notin ev[x].waiters \cap ev[x].released
    BY DEF IndInv, ListsTell, Blocked
  <2> QED
    BY <2>1, <1>2, <1>3 DEF Only
<1>7. FreshIsClear' /\ NoLinkOutlivesItsEvent'
  BY <1>3 DEF IndInv, FreshIsClear, NoLinkOutlivesItsEvent, Blocked, AnyEvent
<1>8. ASSUME NEW l \in links', l[2] \in Coroutine, ev'[l[1]].flag
      PROVE  ev'[l[2]].flag
  <2>1. l \in links /\ l[1] \in AnyEvent /\ l[2] \in AnyEvent
    BY <1>1 DEF AnyEvent
  <2>2. ev[l[2]].flag
    BY <1>3, <1>8, <2>1, IdleTold DEF Idle
  <2> QED
    BY <2>1, <2>2, <1>3
<1> QED
  BY <1>4, <1>5, <1>6, <1>7, <1>8, IdleKeeps

\* A call of set() for e, out of frames that differ from the stack only in that
\* the innermost loop has gone past e.
LEMMA EnterKeeps ==
    ASSUME IndInv, NEW e \in AnyEvent, NEW frames \in Seq(Frame),
           e \in Coroutine => Blocked(e, e),
           Len(frames) = Len(stack),
           stack = <<>> => frames = <<>>,
           \A i \in 1..Len(stack) : /\ frames[i].event = stack[i].event
                                    /\ frames[i].rest \subseteq stack[i].rest
                                    /\ stack[i].rest \subseteq frames[i].rest \cup {e},
           Enter(e, frames), UNCHANGED <<links, call, timer>>
    PROVE  IndInv'
<1>1. /\ ev \in [AnyEvent -> EventType] /\ call \in [Coroutine -> CallType]
      /\ links \subseteq Events \X AnyEvent /\ timer \subseteq Coroutine
      /\ stack \in Seq(Frame) /\ reached \subseteq AnyEvent
  BY Types DEF IndInv
<1>2. /\ Len(stack) \in Nat
      /\ \A i \in 1..Len(stack) : stack[i] \in Frame /\ frames[i] \in Frame
  BY <1>1
<1>3. \A l \in links : l[1] \in Events /\ l[1] \in AnyEvent /\ l[2] \in AnyEvent
                       /\ l = <<l[1], l[2]>>
  BY <1>1 DEF AnyEvent
<1>4. CASE ev[e].flag
  <2>1. stack' = frames /\ UNCHANGED <<ev, reached>>
    BY <1>4 DEF Enter
  <2>2. TypeOK'
    BY <2>1, <1>1 DEF TypeOK, EventType, CallType, Frame
  <2>3. ListsTell' /\ NobodySleepsOnASetEvent' /\ FreshIsClear' /\ NoLinkOutlivesItsEvent'
    BY <2>1 DEF IndInv, ListsTell, NobodySleepsOnASetEvent, FreshIsClear,
                NoLinkOutlivesItsEvent, Blocked
  <2>4. FramesAreSet' /\ SetsAnEventOnce'
    BY <2>1 DEF IndInv, FramesAreSet, SetsAnEventOnce
  <2>5. ASSUME NEW o, Listed(o) PROVE o = e \/ Listed(o)'
    BY <2>1, <2>5 DEF Listed
  <2>6. ReachedPassesOn' /\ AnyIsToldOrListed'
    <3>1. stack' = <<>> => stack = <<>>
      BY <2>1, <1>1
    <3>2. stack' = <<>> => reached' = {}
      BY <3>1, <2>1 DEF IndInv, ReachedPassesOn
    <3>3. \A l \in links : l[1] \in reached => ev[l[2]].flag \/ Listed(l[2])'
      BY <2>5, <1>4 DEF IndInv, ReachedPassesOn
    <3>4. \A l \in links : l[2] \in Coroutine /\ ev[l[1]].flag => ev[l[2]].flag \/ Listed(l[2])'
      BY <2>5, <1>4 DEF IndInv, AnyIsToldOrListed
    <3> QED
      BY <2>1, <3>2, <3>3, <3>4 DEF ReachedPassesOn, AnyIsToldOrListed
  <2> QED
    BY <2>2, <2>3, <2>4, <2>6 DEF IndInv
<1>5. CASE ~ev[e].flag
  <2> DEFINE top == [event |-> e, rest |-> LinkTo(e)]
  <2>1. stack' = Append(frames, top) /\ reached' = reached \cup {e} /\ ev' = set(ev, e)
    BY <1>5 DEF Enter
  <2>2. top \in Frame /\ top.event = e /\ top.rest = LinkTo(e)
    BY DEF Frame, LinkTo
  <2> HIDE DEF top
  <2>3. /\ ev' \in [AnyEvent -> EventType]
        /\ ev'[e].flag
        /\ ev'[e].waiters = {}
        /\ ev'[e].released = ev[e].released \cup ev[e].waiters
        /\ \A x \in AnyEvent : x # e => ev'[x] = ev[x]
    BY <1>1, <1>5, <2>1, SetFields
  <2>4. /\ stack' \in Seq(Frame)
        /\ Len(stack') = Len(stack) + 1
        /\ stack'[Len(stack) + 1] = top
        /\ \A i \in 1..Len(stack) : stack'[i] = frames[i]
    BY <1>1, <2>1, <2>2
  <2>5. TypeOK'
    BY <2>1, <2>3, <2>4, <1>1 DEF TypeOK, EventType, CallType, Frame
  <2>6. NobodySleepsOnASetEvent'
    BY <2>3 DEF IndInv, NobodySleepsOnASetEvent
  <2>7. ListsTell'
    <3> SUFFICES ASSUME NEW d \in Coroutine, NEW x \in AnyEvent
                 PROVE  /\ x \in call[d].on <=> d \in ev'[x].waiters \cup ev'[x].released
                        /\ d \notin ev'[x].waiters \cap ev'[x].released
      BY DEF ListsTell, Blocked
    <3>1. /\ x \in call[d].on <=> d \in ev[x].waiters \cup ev[x].released
          /\ d \notin ev[x].waiters \cap ev[x].released
      BY DEF IndInv, ListsTell, Blocked
    <3> QED
      BY <2>3, <3>1
  <2>8. FreshIsClear'
    BY <2>3 DEF IndInv, FreshIsClear, Blocked, AnyEvent
  <2>9. NoLinkOutlivesItsEvent'
    BY DEF IndInv, NoLinkOutlivesItsEvent, Blocked
  <2>10. \A i \in 1..Len(stack) : ev[stack[i].event].flag /\ stack[i].event # e
    BY <1>5 DEF IndInv, FramesAreSet
  <2>11. FramesAreSet'
    <3> SUFFICES ASSUME NEW i \in 1..Len(stack')
                 PROVE  /\ ev'[stack'[i].event].flag
                        /\ \A o \in stack'[i].rest : <<stack'[i].event, o>> \in links
      BY DEF FramesAreSet
    <3>1. CASE i \in 1..Len(stack)
      <4>1. stack'[i].event = stack[i].event /\ stack'[i].rest \subseteq stack[i].rest
        BY <2>4, <3>1
      <4>2. ev'[stack[i].event].flag
        BY <2>3, <2>10, <3>1, <1>2 DEF Frame
      <4> QED
        BY <3>1, <4>1, <4>2 DEF IndInv, FramesAreSet
    <3>2. CASE i = Len(stack) + 1
      BY <2>2, <2>3, <2>4, <3>2 DEF LinkTo
    <3> QED
      BY <3>1, <3>2, <2>4, <1>2
  <2>12. SetsAnEventOnce'
    <3> SUFFICES ASSUME NEW i \in 1..Len(stack'), NEW j \in 1..Len(stack'),
                        stack'[i].event = stack'[j].event
                 PROVE  i = j
      BY DEF SetsAnEventOnce
    <3>1. \A k \in 1..Len(stack) : stack'[k].event = stack[k].event
      BY <2>4
    <3>2. \A k \in 1..Len(stack) : stack'[k].event # e
      BY <3>1, <2>10
    <3>3. \A k \in 1..Len(stack') : k \in 1..Len(stack) \/ k = Len(stack) + 1
      BY <2>4, <1>2
    <3>4. stack'[Len(stack) + 1].event = e
      BY <2>2, <2>4
    <3>5. CASE i \in 1..Len(stack) /\ j \in 1..Len(stack)
      BY <3>1, <3>5 DEF IndInv, SetsAnEventOnce
    <3> QED
      BY <3>2, <3>3, <3>4, <3>5
  <2>13. ASSUME NEW o, Listed(o) PROVE o = e \/ Listed(o)'
    <3>1. PICK i \in 1..Len(stack) : o \in stack[i].rest
      BY <2>13 DEF Listed
    <3>2. o = e \/ o \in stack'[i].rest
      BY <2>4, <3>1
    <3>3. i \in 1..Len(stack')
      BY <2>4, <1>2
    <3> QED
      BY <3>2, <3>3 DEF Listed
  <2>14. ASSUME NEW l \in links, l[1] = e PROVE Listed(l[2])'
    <3>1. l[2] \in LinkTo(e)
      BY <2>14, <1>3 DEF LinkTo
    <3>2. Len(stack) + 1 \in 1..Len(stack')
      BY <2>4, <1>2
    <3> QED
      BY <3>1, <3>2, <2>2, <2>4 DEF Listed
  <2>15. ASSUME NEW l \in links, ev[l[2]].flag \/ Listed(l[2])
         PROVE  ev'[l[2]].flag \/ Listed(l[2])'
    <3>1. CASE ev[l[2]].flag
      BY <3>1, <1>3, <1>5, <2>3
    <3>2. CASE Listed(l[2])
      BY <3>2, <2>13, <2>3
    <3> QED
      BY <2>15, <3>1, <3>2
  <2>16. ReachedPassesOn'
    <3>1. stack' # <<>>
      BY <2>4, <1>2
    <3>2. ASSUME NEW l \in links, l[1] \in reached' PROVE ev'[l[2]].flag \/ Listed(l[2])'
      BY <3>2, <2>1, <2>14, <2>15 DEF IndInv, ReachedPassesOn
    <3> QED
      BY <3>1, <3>2 DEF ReachedPassesOn
  <2>17. AnyIsToldOrListed'
    <3> SUFFICES ASSUME NEW l \in links, l[2] \in Coroutine, ev'[l[1]].flag
                 PROVE  ev'[l[2]].flag \/ Listed(l[2])'
      BY DEF AnyIsToldOrListed
    <3>1. CASE l[1] = e
      BY <3>1, <2>14
    <3>2. CASE l[1] # e
      <4>1. ev[l[1]].flag
        BY <3>2, <1>3, <2>3
      <4> QED
        BY <4>1, <2>15 DEF IndInv, AnyIsToldOrListed
    <3> QED
      BY <3>1, <3>2
  <2> QED
    BY <2>5, <2>6, <2>7, <2>8, <2>9, <2>11, <2>12, <2>16, <2>17 DEF IndInv
<1>6. ev[e].flag \in BOOLEAN
  BY <1>1 DEF EventType
<1> QED
  BY <1>4, <1>5, <1>6

\* The stack without its innermost call.
LEMMA PopFields ==
    ASSUME NEW s \in Seq(Frame), s # <<>>
    PROVE  /\ Len(s) \in Nat \ {0}
           /\ SubSeq(s, 1, Len(s) - 1) \in Seq(Frame)
           /\ Len(SubSeq(s, 1, Len(s) - 1)) = Len(s) - 1
           /\ \A i \in 1..(Len(s) - 1) : SubSeq(s, 1, Len(s) - 1)[i] = s[i]
<1>1. Len(s) \in Nat \ {0}
  OBVIOUS
<1>2. \A i \in 1..(Len(s) - 1) : s[i] \in Frame
  BY <1>1
<1> DEFINE m == Len(s) - 1
<1>3. m \in Int /\ 1 \in Int /\ \A i \in 1..m : s[i] \in Frame
  BY <1>1, <1>2
<1> HIDE DEF m
<1> DEFINE t == SubSeq(s, 1, m)
<1>4. /\ t \in Seq(Frame)
      /\ Len(t) = IF 1 <= m THEN m - 1 + 1 ELSE 0
      /\ \A i \in 1..(m - 1 + 1) : t[i] = s[1 + i - 1]
  BY <1>3, SubSeqProperties
<1> HIDE DEF t
<1>5. m >= 0
  BY <1>1 DEF m
<1>6. Len(t) = m
  BY <1>3, <1>4, <1>5
<1>7. \A i \in 1..m : t[i] = s[i]
  BY <1>3, <1>4
<1> QED
  BY <1>1, <1>4, <1>6, <1>7 DEF m, t

\* A call of set() has gone through its loop and returns.
LEMMA SetReturnKeeps ==
    ASSUME IndInv, SetReturn
    PROVE  IndInv'
<1>1. /\ stack \in Seq(Frame) /\ TypeOK
  BY Types DEF IndInv
<1> DEFINE n == Len(stack)
<1>2. n \in Nat \ {0} /\ stack[n].rest = {} /\ stack' = SubSeq(stack, 1, n - 1)
  BY <1>1 DEF SetReturn
<1>3. /\ stack' \in Seq(Frame)
      /\ Len(stack') = n - 1
      /\ \A i \in 1..(n - 1) : stack'[i] = stack[i]
  BY <1>1, <1>2, PopFields DEF SetReturn
<1>4. UNCHANGED <<ev, links, call, timer>> /\ reached' \subseteq reached
  BY DEF SetReturn
<1>5. TypeOK'
  BY <1>1, <1>3, <1>4 DEF TypeOK, Frame
<1>6. ListsTell' /\ NobodySleepsOnASetEvent' /\ FreshIsClear' /\ NoLinkOutlivesItsEvent'
  BY <1>4 DEF IndInv, ListsTell, NobodySleepsOnASetEvent, FreshIsClear,
              NoLinkOutlivesItsEvent, Blocked
<1>7. FramesAreSet' /\ SetsAnEventOnce'
  BY <1>2, <1>3, <1>4 DEF IndInv, FramesAreSet, SetsAnEventOnce
<1>8. ASSUME NEW o, Listed(o) PROVE Listed(o)'
  <2>1. PICK i \in 1..n : o \in stack[i].rest
    BY <1>8 DEF Listed
  <2>2. i \in 1..(n - 1)
    BY <2>1, <1>2
  <2> QED
    BY <2>1, <2>2, <1>3 DEF Listed
<1>9. stack' = <<>> => reached' = {}
  <2>1. stack' = <<>> => Len(stack') = 0
    OBVIOUS
  <2> QED
    BY <1>2, <1>3, <2>1 DEF SetReturn
<1>10. ReachedPassesOn'
  BY <1>4, <1>8, <1>9 DEF IndInv, ReachedPassesOn
<1>11. AnyIsToldOrListed'
  BY <1>4, <1>8 DEF IndInv, AnyIsToldOrListed
<1> QED
  BY <1>5, <1>6, <1>7, <1>10, <1>11 DEF IndInv

\* Every step keeps the invariant.
LEMMA NextIndInv == IndInv /\ [Next]_vars => IndInv'
<1> SUFFICES ASSUME IndInv, [Next]_vars PROVE IndInv'
  OBVIOUS
<1>1. /\ ev \in [AnyEvent -> EventType] /\ call \in [Coroutine -> CallType]
      /\ links \subseteq Events \X AnyEvent /\ timer \subseteq Coroutine
      /\ stack \in Seq(Frame) /\ reached \subseteq AnyEvent
  BY Types DEF IndInv
<1>2. Events \subseteq AnyEvent /\ Coroutine \subseteq AnyEvent
  BY DEF AnyEvent
<1>3. ASSUME Idle, UNCHANGED <<ev, links, timer>>, call' \in [Coroutine -> CallType],
             \A d \in Coroutine : call'[d].on = call[d].on
      PROVE  IndInv'
  <2>1. TypeOK'
    BY <1>1, <1>3 DEF TypeOK, EventType, CallType, Frame, Idle
  <2>2. ListsTell' /\ NobodySleepsOnASetEvent' /\ FreshIsClear' /\ NoLinkOutlivesItsEvent'
    BY <1>3 DEF IndInv, ListsTell, NobodySleepsOnASetEvent, FreshIsClear,
                NoLinkOutlivesItsEvent, Blocked
  <2>3. \A l \in links' : l[2] \in Coroutine /\ ev'[l[1]].flag => ev'[l[2]].flag
    BY <1>3, IdleTold DEF Idle
  <2> QED
    BY <1>3, <2>1, <2>2, <2>3, IdleKeeps
<1>4. ASSUME NEW c \in Coroutine, NEW e \in Events, NEW msecs, WaitNow(c, e, msecs)
      PROVE  IndInv'
  <2>1. ev[e].flag \in BOOLEAN
    BY <1>1, <1>2 DEF EventType
  <2>2. Returned(ev[e].flag) \in CallType /\ Returned(ev[e].flag).on = {}
    BY <2>1 DEF Returned, CallType
  <2>3. call' \in [Coroutine -> CallType] /\ \A d \in Coroutine : call'[d].on = call[d].on
    BY <1>1, <1>4, <2>2 DEF WaitNow
  <2> QED
    BY <1>3, <1>4, <2>3 DEF WaitNow
<1>5. ASSUME NEW c \in Coroutine, NEW e \in Events, NEW msecs, WaitBlock(c, e, msecs)
      PROVE  IndInv'
  <2>1. timer' \subseteq Coroutine /\ links' = links
    BY <1>1, <1>5 DEF WaitBlock
  <2> QED
    BY <1>1, <1>2, <1>5, <2>1, ParkKeeps DEF WaitBlock
<1>6. ASSUME NEW c \in Coroutine, NEW events \in SUBSET Events, WaitAny(c, events)
      PROVE  IndInv'
  <2>1. CASE \E e \in events : ev[e].flag
    <3>1. /\ Idle /\ call' = [call EXCEPT ![c] = Returned(TRUE)]
          /\ UNCHANGED <<ev, links, timer>> /\ call[c].on = {}
      BY <1>6, <2>1 DEF WaitAny
    <3>2. Returned(TRUE) \in CallType /\ Returned(TRUE).on = {}
      BY DEF Returned, CallType
    <3>3. call' \in [Coroutine -> CallType] /\ \A d \in Coroutine : call'[d].on = call[d].on
      BY <1>1, <3>1, <3>2
    <3> QED
      BY <1>3, <3>1, <3>3
  <2>2. CASE ~\E e \in events : ev[e].flag
    <3>1. /\ Idle /\ call[c].on = {}
          /\ links' = links \cup {<<e, c>> : e \in events}
          /\ ev' = park(ev, c, c)
          /\ call' = [call EXCEPT ![c] = BlockedOn(c)]
          /\ timer' = timer
      BY <1>6, <2>2 DEF WaitAny
    <3>2. links' \subseteq Events \X AnyEvent
      BY <1>1, <1>2, <3>1
    <3>3. \A l \in links' \ links : ~ev[l[1]].flag /\ l[2] = c
      BY <2>2, <3>1
    <3>4. c \in AnyEvent /\ ~ev[c].flag
      BY <1>2, <3>1 DEF IndInv, FreshIsClear, Blocked
    <3> QED
      BY <1>1, <3>1, <3>2, <3>3, <3>4, ParkKeeps
  <2> QED
    BY <2>1, <2>2
<1>7. ASSUME NEW c \in Coroutine, NEW e \in AnyEvent, Wake(c, e)
      PROVE  IndInv'
  <2>1. Blocked(c, e)
    BY <1>7 DEF Wake, IndInv, ListsTell
  <2> QED
    BY <1>7, <2>1, ReturnKeeps, ReparkKeeps DEF Wake
<1>8. ASSUME NEW c \in Coroutine, NEW e \in AnyEvent, Timeout(c, e) \/ Kill(c, e)
      PROVE  IndInv'
  BY <1>8, ReturnKeeps DEF Timeout, Kill
<1>9. ASSUME NEW e \in Events, Set(e)
      PROVE  IndInv'
  <2>1. stack = <<>> /\ Enter(e, stack) /\ UNCHANGED <<links, call, timer>>
    BY <1>9 DEF Set
  <2>2. e \in AnyEvent /\ e \notin Coroutine
    BY <1>2, EventAssumption
  <2>3. \A i \in 1..Len(stack) : /\ stack[i].event = stack[i].event
                                 /\ stack[i].rest \subseteq stack[i].rest
                                 /\ stack[i].rest \subseteq stack[i].rest \cup {e}
    OBVIOUS
  <2> QED
    BY <1>1, <2>1, <2>2, <2>3, EnterKeeps
<1>10. ASSUME NEW o \in AnyEvent, SetNext(o)
       PROVE  IndInv'
  <2> DEFINE n == Len(stack)
             frames == [stack EXCEPT ![n].rest = @ \ {o}]
  <2>1. /\ stack # <<>> /\ o \in stack[n].rest /\ Enter(o, frames)
        /\ UNCHANGED <<links, call, timer>>
    BY <1>10 DEF SetNext
  <2>2. n \in Nat /\ n \in 1..n
    BY <1>1, <2>1
  <2>3. \A i \in 1..n : stack[i] \in Frame
    BY <1>1
  <2>4. [stack[n] EXCEPT !.rest = @ \ {o}] \in Frame
    BY <2>2, <2>3 DEF Frame
  <2>5. /\ frames \in Seq(Frame) /\ Len(frames) = n
        /\ \A i \in 1..n : frames[i] = IF i = n THEN [stack[n] EXCEPT !.rest = @ \ {o}]
                                       ELSE stack[i]
    BY <1>1, <2>2, <2>4
  <2> HIDE DEF frames
  <2>6. \A i \in 1..n : /\ frames[i].event = stack[i].event
                        /\ frames[i].rest \subseteq stack[i].rest
                        /\ stack[i].rest \subseteq frames[i].rest \cup {o}
    BY <2>2, <2>3, <2>5 DEF Frame
  <2>7. o \in Coroutine => Blocked(o, o)
    <3>1. <<stack[n].event, o>> \in links
      BY <2>1, <2>2 DEF IndInv, FramesAreSet
    <3> QED
      BY <3>1 DEF IndInv, NoLinkOutlivesItsEvent
  <2> QED
    BY <2>1, <2>5, <2>6, <2>7, EnterKeeps
<1>11. ASSUME NEW e \in Events, Clear(e)
       PROVE  IndInv'
  <2>1. Idle /\ ev' = clear(ev, e) /\ UNCHANGED <<links, call, timer>>
    BY <1>11 DEF Clear
  <2>2. /\ ev' \in [AnyEvent -> EventType]
        /\ \A x \in AnyEvent : /\ ev'[x].flag = (x # e /\ ev[x].flag)
                               /\ ev'[x].waiters = ev[x].waiters
                               /\ ev'[x].released = ev[x].released
    BY <1>1, <1>2, <2>1, ClearFields
  <2>3. TypeOK'
    BY <1>1, <2>1, <2>2 DEF TypeOK, EventType, CallType, Frame, Idle
  <2>4. ListsTell' /\ NobodySleepsOnASetEvent' /\ NoLinkOutlivesItsEvent'
    BY <2>1, <2>2 DEF IndInv, ListsTell, NobodySleepsOnASetEvent,
                      NoLinkOutlivesItsEvent, Blocked
  <2>5. FreshIsClear'
    BY <1>2, <2>1, <2>2 DEF IndInv, FreshIsClear, Blocked
  <2>6. ASSUME NEW l \in links', l[2] \in Coroutine, ev'[l[1]].flag
        PROVE  ev'[l[2]].flag
    <3>1. l \in links /\ l[1] \in AnyEvent /\ l[2] \in AnyEvent /\ l[2] # e
      BY <1>1, <1>2, <2>1, <2>6, EventAssumption
    <3>2. ev[l[2]].flag
      BY <2>1, <2>2, <2>6, <3>1, IdleTold DEF Idle
    <3> QED
      BY <2>2, <3>1, <3>2
  <2> QED
    BY <2>1, <2>3, <2>4, <2>5, <2>6, IdleKeeps
<1>12. ASSUME NEW e \in Events, NEW other \in Events, Link(e, other) \/ Unlink(e, other)
       PROVE  IndInv'
  <2>1. Idle /\ UNCHANGED <<ev, call, timer>> /\ links' \subseteq links \cup {<<e, other>>}
    BY <1>12 DEF Link, Unlink
  <2>2. other \notin Coroutine
    BY EventAssumption
  <2>3. TypeOK'
    BY <1>1, <1>2, <2>1 DEF TypeOK, EventType, CallType, Frame, Idle
  <2>4. ListsTell' /\ NobodySleepsOnASetEvent' /\ FreshIsClear'
    BY <2>1 DEF IndInv, ListsTell, NobodySleepsOnASetEvent, FreshIsClear, Blocked
  <2>5. NoLinkOutlivesItsEvent'
    BY <2>1, <2>2 DEF IndInv, NoLinkOutlivesItsEvent, Blocked
  <2>6. \A l \in links' : l[2] \in Coroutine /\ ev'[l[1]].flag => ev'[l[2]].flag
    BY <2>1, <2>2, IdleTold DEF Idle
  <2> QED
    BY <2>1, <2>3, <2>4, <2>5, <2>6, IdleKeeps
<1>13. ASSUME UNCHANGED vars PROVE IndInv'
  BY <1>13 DEF IndInv, TypeOK, ListsTell, NobodySleepsOnASetEvent, FramesAreSet, SetsAnEventOnce,
               ReachedPassesOn, AnyIsToldOrListed, FreshIsClear, NoLinkOutlivesItsEvent,
               Listed, Blocked, vars
<1> QED
  BY <1>4, <1>5, <1>6, <1>7, <1>8, <1>9, <1>10, <1>11, <1>12, <1>13, SetReturnKeeps DEF Next

\* The fields have their types.
THEOREM TypeCorrect == Spec => []TypeOK
<1>1. IndInv => TypeOK
  BY DEF IndInv
<1> QED
  BY InitIndInv, NextIndInv, <1>1, PTL DEF Spec

\* set() leaves nobody on the list of a set event, however the events are linked
\* and whoever waits, times out or is killed meanwhile (EventPrivate::set(),
\* EventPrivate::wait()).
THEOREM NobodySleepsOnASet == Spec => []NobodySleepsOnASetEvent
<1>1. IndInv => NobodySleepsOnASetEvent
  BY DEF IndInv
<1> QED
  BY InitIndInv, NextIndInv, <1>1, PTL DEF Spec

\* Whoever is blocked on a set event has a released Lock, that is a functor on
\* the event loop that ends its wait.
THEOREM SleeperHasAWakeup == Spec => []SleeperIsReleased
<1>1. IndInv => SleeperIsReleased
  BY DEF IndInv, ListsTell, NobodySleepsOnASetEvent, SleeperIsReleased
<1> QED
  BY InitIndInv, NextIndInv, <1>1, PTL DEF Spec

\* The recursion of EventPrivate::set() never runs two loops over one event, in
\* any graph of links: it sets the flag before it follows them.
THEOREM RecursionIsBounded == Spec => []SetsAnEventOnce
<1>1. IndInv => SetsAnEventOnce
  BY DEF IndInv
<1> QED
  BY InitIndInv, NextIndInv, <1>1, PTL DEF Spec

\* The step of SetReachesLinks.
LinksFollow ==
    stack # <<>> /\ stack' = <<>> => \A l \in links : l[1] \in reached => ev'[l[2]].flag

\* When EventPrivate::set() returns, the events it turned on have passed it on
\* to every event they are linked to, through chains and cycles of links.
THEOREM SetReachesAllLinks == Spec => SetReachesLinks
<1>1. IndInv /\ [Next]_vars => [LinksFollow]_vars
  <2> SUFFICES ASSUME IndInv, Next, stack # <<>>, stack' = <<>>,
                      NEW l \in links, l[1] \in reached
               PROVE  ev'[l[2]].flag
    BY DEF LinksFollow
  <2>1. stack \in Seq(Frame)
    BY Types DEF IndInv
  <2>2. ASSUME NEW o \in AnyEvent, SetNext(o) PROVE FALSE
    <3> DEFINE frames == [stack EXCEPT ![Len(stack)].rest = @ \ {o}]
    <3>1. Enter(o, frames)
      BY <2>2 DEF SetNext
    <3>2. DOMAIN frames = 1..Len(stack) /\ Len(stack) \in Nat \ {0}
      BY <2>1
    <3>3. frames \in Seq([event : AnyEvent, rest : SUBSET AnyEvent])
      <4>1. \A i \in 1..Len(stack) : stack[i] \in Frame
        BY <2>1
      <4>2. [stack[Len(stack)] EXCEPT !.rest = @ \ {o}] \in Frame
        BY <4>1, <3>2 DEF Frame
      <4> QED
        BY <2>1, <4>2, <3>2 DEF Frame
    <3>4. frames # <<>>
      BY <3>2, <3>3
    <3> HIDE DEF frames
    <3>5. Append(frames, [event |-> o, rest |-> LinkTo(o)]) # <<>>
      BY <3>3, AppendProperties DEF LinkTo
    <3> QED
      BY <3>1, <3>4, <3>5 DEF Enter
  <2>3. SetReturn
    BY <2>2 DEF Next, WaitNow, WaitBlock, WaitAny, Wake, Timeout, Kill, Set, Clear, Link, Unlink, Idle
  <2>4. Len(stack) = 1 /\ stack[1].rest = {} /\ ev' = ev
    <3>1. Len(stack) \in Nat \ {0} /\ Len(stack') = Len(stack) - 1
      BY <2>1, <2>3, PopFields DEF SetReturn
    <3>2. Len(stack') = 0
      BY EmptySeq
    <3>3. Len(stack) = 1
      BY <3>1, <3>2
    <3> QED
      BY <2>3, <3>3 DEF SetReturn
  <2>5. ~Listed(l[2])
    BY <2>4 DEF Listed
  <2> QED
    BY <2>4, <2>5 DEF IndInv, ReachedPassesOn
<1> QED
  BY InitIndInv, NextIndInv, <1>1, PTL DEF Spec, SetReachesLinks, LinksFollow

\* waitAnyEvent() is told of every event it waits for.
THEOREM WaitAnyMissesNothing == Spec => []WaitAnyIsTold
<1>1. IndInv => WaitAnyIsTold
  BY IdleTold DEF WaitAnyIsTold
<1> QED
  BY InitIndInv, NextIndInv, <1>1, PTL DEF Spec

\* No event keeps a link to the event of a waitAnyEvent() that has ended.
THEOREM LinksEndWithTheirEvent == Spec => []NoLinkOutlivesItsEvent
<1>1. IndInv => NoLinkOutlivesItsEvent
  BY DEF IndInv
<1> QED
  BY InitIndInv, NextIndInv, <1>1, PTL DEF Spec

\* The step of TrueMeansSet.
TrueIsSet ==
    \A c \in Coroutine, e \in AnyEvent :
        Blocked(c, e) /\ call'[c] = Returned(TRUE) => ev[e].flag

\* A wait that slept returns true only while its event is set, and
\* waitAnyEvent() only when its own event was set.
THEOREM TrueIsTheTruth == Spec => TrueMeansSet
<1>1. IndInv /\ [Next]_vars => [TrueIsSet]_vars
  <2> SUFFICES ASSUME IndInv, Next, NEW c \in Coroutine, NEW e \in AnyEvent,
                      Blocked(c, e), call'[c] = Returned(TRUE)
               PROVE  ev[e].flag
    BY DEF TrueIsSet
  <2>1. call \in [Coroutine -> CallType] /\ call[c].on = {e} /\ call[c] # Returned(TRUE)
    BY Types DEF IndInv, CallType, Blocked, Returned
  <2>2. Returned(TRUE) # Returned(FALSE)
    BY DEF Returned
  <2>3. ASSUME NEW d \in Coroutine, NEW value, call[d].on = {},
               call' = [call EXCEPT ![d] = value]
        PROVE  FALSE
    BY <2>1, <2>3
  <2>4. ASSUME NEW d \in Coroutine, call' = [call EXCEPT ![d] = Returned(FALSE)]
        PROVE  FALSE
    BY <2>1, <2>2, <2>4
  <2>5. ASSUME call' = call PROVE FALSE
    BY <2>1, <2>5
  <2>6. ASSUME NEW d \in Coroutine, NEW x \in AnyEvent, Wake(d, x) PROVE ev[e].flag
    <3>1. ev[x].flag /\ Return(d, x, TRUE)
      BY <2>4, <2>5, <2>6 DEF Wake, Return
    <3>2. d = c
      BY <2>1, <3>1 DEF Return
    <3>3. x \in call[c].on
      BY <2>6, <3>2 DEF Wake, IndInv, ListsTell, Blocked
    <3> QED
      BY <2>1, <3>1, <3>3
  <2>7. ASSUME NEW d \in Coroutine, NEW x \in AnyEvent, Timeout(d, x) \/ Kill(d, x) PROVE FALSE
    BY <2>4, <2>7 DEF Timeout, Kill, Return
  <2>8. ASSUME NEW d \in Coroutine, NEW x, NEW m, WaitNow(d, x, m) \/ WaitBlock(d, x, m)
        PROVE  FALSE
    BY <2>3, <2>8 DEF WaitNow, WaitBlock
  <2>9. ASSUME NEW d \in Coroutine, NEW x, WaitAny(d, x) PROVE FALSE
    BY <2>3, <2>9 DEF WaitAny
  <2> QED
    BY <2>5, <2>6, <2>7, <2>8, <2>9 DEF Next, Set, SetNext, SetReturn, Clear, Link, Unlink
<1> QED
  BY InitIndInv, NextIndInv, <1>1, PTL DEF Spec, TrueMeansSet, TrueIsSet
================================================================================
