--------------------------- MODULE ThreadLocksProofs ---------------------------
(***************************************************************************)
(* Proofs about the locks that threads share.                              *)
(*                                                                         *)
(* ThreadEvent: no wake-up is lost, for any number of threads, with and    *)
(* without an event loop, and any number of coroutines in them.            *)
(*                                                                         *)
(* ThreadQueue, whose latches are ThreadEvents: they tell the truth for any*)
(* number of threads and any capacity.  For an open queue that is          *)
(* inductive as it stands.  For a closed one it takes what the threads     *)
(* inside close() have still to do: they set notEmpty first and notFull    *)
(* after it.  The bound on the length is inductive given what the latches  *)
(* tell: a thread joins those that are about to insert only below the      *)
(* capacity.                                                               *)
(***************************************************************************)
EXTENDS ThreadEvent, ThreadQueue, FiniteSetTheorems, TLAPS

\* The plain threads that wait() counts.
Inside == {p \in Process : ~InLoop(p) /\ pc[p] \in {"check", "sleep", "asleep", "relock"}}
CountIsExact == IsFiniteSet(Inside) /\ count = Cardinality(Inside)

\* Where plain threads and coroutines can be; the lists of the loops' Conditions
\* hold coroutines that are parked.
PlacesTell ==
    \A p \in Process :
        /\ pc[p] \in {"sleep", "asleep", "relock"} => ~InLoop(p)
        /\ pc[p] \in {"park", "parked"} => InLoop(p)
        /\ p \in parked \cup notified => pc[p] = "parked"
        /\ p \notin parked \cap notified

\* A plain thread holds the mutex from its test of the flag until it sleeps.
MutexTells ==
    \A p \in Process : mutex = p <=> ~InLoop(p) /\ pc[p] \in {"check", "sleep"}

\* The loop of a coroutine that is going to park is in holds.
LoopIsHeld ==
    \A p \in Process :
        InLoop(p) /\ pc[p] \in {"check", "park", "parked"} => ThreadOf[p] \in holds

\* A thread is in the middle of one call only.
OneCallPerThread ==
    \A p, q \in Process :
        ThreadOf[p] = ThreadOf[q] /\ pc[p] \notin Suspended /\ pc[q] \notin Suspended => p = q

\* Whoever tested the flag before it was set is not asleep yet when the
\* notifier comes, or the notifier still has to come.
NotifierIsBehind ==
    flag => \A p \in Process :
        /\ pc[p] = "sleep" => \E q \in Process : pc[q] = "notify"
        /\ pc[p] = "park" => \/ \E q \in Process : pc[q] = "notify"
                             \/ ThreadOf[p] \in functors

IndInv ==
    /\ TypeOK
    /\ CountIsExact
    /\ PlacesTell
    /\ MutexTells
    /\ LoopIsHeld
    /\ OneCallPerThread
    /\ NotifierIsBehind
    /\ NoLostWakeup
--------------------------------------------------------------------------------
\* The invariant holds when the event is new.
LEMMA InitIndInv == Init => IndInv
<1> SUFFICES ASSUME Init PROVE IndInv
  OBVIOUS
<1>1. flag \in BOOLEAN
  BY DEF Init
<1>2. TypeOK
  BY <1>1 DEF Init, TypeOK, Labels
<1>3. CountIsExact
  <2>1. Inside = {}
    BY DEF Init, Inside
  <2> QED
    BY <2>1, FS_EmptySet DEF Init, CountIsExact
<1>4. PlacesTell /\ LoopIsHeld /\ OneCallPerThread /\ NotifierIsBehind /\ NoLostWakeup
  BY DEF Init, PlacesTell, LoopIsHeld, OneCallPerThread, NotifierIsBehind,
         NoLostWakeup, Suspended
<1>5. MutexTells
  BY ThreadEventAssumption DEF Init, MutexTells
<1> QED
  BY <1>2, <1>3, <1>4, <1>5 DEF IndInv

\* A step of one process that enters or leaves the counted part of wait(), or
\* does neither, keeps the count exact.
LEMMA CountKeeps ==
    ASSUME CountIsExact, NEW p,
           \/ Inside' = Inside /\ count' = count
           \/ p \notin Inside /\ Inside' = Inside \cup {p} /\ count' = count + 1
           \/ p \in Inside /\ Inside' = Inside \ {p} /\ count' = count - 1
    PROVE  CountIsExact' /\ count' \in Nat
<1>1. IsFiniteSet(Inside) /\ count = Cardinality(Inside) /\ count \in Nat
  BY FS_CardinalityType DEF CountIsExact
<1>2. CASE Inside' = Inside /\ count' = count
  BY <1>1, <1>2 DEF CountIsExact
<1>3. CASE p \notin Inside /\ Inside' = Inside \cup {p} /\ count' = count + 1
  <2>1. IsFiniteSet(Inside \cup {p}) /\ Cardinality(Inside \cup {p}) = count + 1
    BY <1>1, <1>3, FS_AddElement
  <2> QED
    BY <1>1, <1>3, <2>1 DEF CountIsExact
<1>4. CASE p \in Inside /\ Inside' = Inside \ {p} /\ count' = count - 1
  <2>1. IsFiniteSet(Inside \ {p}) /\ Cardinality(Inside \ {p}) = count - 1
    BY <1>1, <1>4, FS_RemoveElement
  <2>2. Cardinality(Inside \ {p}) \in Nat
    BY <2>1, FS_CardinalityType
  <2> QED
    BY <1>4, <2>1, <2>2 DEF CountIsExact
<1> QED
  BY <1>2, <1>3, <1>4

\* wait() found the flag clear and goes for the mutex.
LEMMA WaitCallKeeps ==
    ASSUME IndInv, NEW p \in Process, NEW msecs, WaitCall(p, msecs)
    PROVE  IndInv'
<1> USE ThreadEventAssumption DEF IndInv, TypeOK, PlacesTell, InLoop, Suspended, WaitCall, Goto
<1>1. Inside' = Inside /\ count' = count
  BY DEF CountIsExact, MutexTells, Inside, Labels
<1>2. CountIsExact' /\ count' \in Nat
  BY <1>1, CountKeeps
<1>3. TypeOK'
  BY <1>2 DEF Labels
<1>4. PlacesTell'
  OBVIOUS
<1>5. MutexTells' /\ LoopIsHeld'
  BY DEF MutexTells, LoopIsHeld
<1>6. OneCallPerThread'
  BY DEF OneCallPerThread, Free
<1>7. NotifierIsBehind' /\ NoLostWakeup'
  BY DEF NotifierIsBehind, NoLostWakeup, OneCallPerThread, MutexTells, LoopIsHeld, Free
<1> QED
  BY <1>2, <1>3, <1>4, <1>5, <1>6, <1>7

\* A plain thread takes the mutex and is counted.
LEMMA LockPlainKeeps ==
    ASSUME IndInv, NEW p \in Process, LockPlain(p)
    PROVE  IndInv'
<1> USE ThreadEventAssumption DEF IndInv, TypeOK, PlacesTell, InLoop, Suspended, LockPlain, Goto
<1>1. p \notin Inside /\ Inside' = Inside \cup {p} /\ count' = count + 1
  BY DEF CountIsExact, MutexTells, Inside, Labels
<1>2. CountIsExact' /\ count' \in Nat
  BY <1>1, CountKeeps
<1>3. TypeOK'
  BY <1>2 DEF Labels
<1>4. PlacesTell'
  OBVIOUS
<1>5. MutexTells' /\ LoopIsHeld'
  BY DEF MutexTells, LoopIsHeld
<1>6. OneCallPerThread'
  BY DEF OneCallPerThread, Free
<1>7. NotifierIsBehind' /\ NoLostWakeup'
  BY DEF NotifierIsBehind, NoLostWakeup, OneCallPerThread, MutexTells, LoopIsHeld, Free
<1> QED
  BY <1>2, <1>3, <1>4, <1>5, <1>6, <1>7

\* It finds the flag set and is counted no more, or is about to sleep.
LEMMA CheckPlainKeeps ==
    ASSUME IndInv, NEW p \in Process, CheckPlain(p)
    PROVE  IndInv'
<1> USE ThreadEventAssumption DEF IndInv, TypeOK, PlacesTell, InLoop, Suspended, CheckPlain, Goto
<1>1. (Inside' = Inside /\ count' = count) \/ (p \in Inside /\ Inside' = Inside \ {p} /\ count' = count - 1)
  BY DEF CountIsExact, MutexTells, Inside, Labels
<1>2. CountIsExact' /\ count' \in Nat
  BY <1>1, CountKeeps
<1>3. TypeOK'
  BY <1>2 DEF Labels
<1>4. PlacesTell'
  OBVIOUS
<1>5. MutexTells' /\ LoopIsHeld'
  BY DEF MutexTells, LoopIsHeld
<1>6. OneCallPerThread'
  BY DEF OneCallPerThread, Free
<1>7. NotifierIsBehind' /\ NoLostWakeup'
  BY DEF NotifierIsBehind, NoLostWakeup, OneCallPerThread, MutexTells, LoopIsHeld, Free
<1> QED
  BY <1>2, <1>3, <1>4, <1>5, <1>6, <1>7

\* It gives the mutex up: a setter that came after its test is still at notify().
LEMMA SleepKeeps ==
    ASSUME IndInv, NEW p \in Process, Sleep(p)
    PROVE  IndInv'
<1> USE ThreadEventAssumption DEF IndInv, TypeOK, PlacesTell, InLoop, Suspended, Sleep, Goto
<1>1. Inside' = Inside /\ count' = count
  BY DEF CountIsExact, MutexTells, Inside, Labels
<1>2. CountIsExact' /\ count' \in Nat
  BY <1>1, CountKeeps
<1>3. TypeOK'
  BY <1>2 DEF Labels
<1>4. PlacesTell'
  OBVIOUS
<1>5. MutexTells' /\ LoopIsHeld'
  BY DEF MutexTells, LoopIsHeld
<1>6. OneCallPerThread'
  BY DEF OneCallPerThread, Free
<1>7. NotifierIsBehind' /\ NoLostWakeup'
  BY DEF NotifierIsBehind, NoLostWakeup, OneCallPerThread, MutexTells, LoopIsHeld, Free
<1> QED
  BY <1>2, <1>3, <1>4, <1>5, <1>6, <1>7

\* It wakes up for no reason...
LEMMA WakeSpuriouslyKeeps ==
    ASSUME IndInv, NEW p \in Process, WakeSpuriously(p)
    PROVE  IndInv'
<1> USE ThreadEventAssumption DEF IndInv, TypeOK, PlacesTell, InLoop, Suspended, WakeSpuriously, Goto
<1>1. Inside' = Inside /\ count' = count
  BY DEF CountIsExact, MutexTells, Inside, Labels
<1>2. CountIsExact' /\ count' \in Nat
  BY <1>1, CountKeeps
<1>3. TypeOK'
  BY <1>2 DEF Labels
<1>4. PlacesTell'
  OBVIOUS
<1>5. MutexTells' /\ LoopIsHeld'
  BY DEF MutexTells, LoopIsHeld
<1>6. OneCallPerThread'
  BY DEF OneCallPerThread, Free
<1>7. NotifierIsBehind' /\ NoLostWakeup'
  BY DEF NotifierIsBehind, NoLostWakeup, OneCallPerThread, MutexTells, LoopIsHeld, Free
<1> QED
  BY <1>2, <1>3, <1>4, <1>5, <1>6, <1>7

\* ... or because it was notified, and tests the flag again.
LEMMA RelockKeeps ==
    ASSUME IndInv, NEW p \in Process, Relock(p)
    PROVE  IndInv'
<1> USE ThreadEventAssumption DEF IndInv, TypeOK, PlacesTell, InLoop, Suspended, Relock, Goto
<1>1. Inside' = Inside /\ count' = count
  BY DEF CountIsExact, MutexTells, Inside, Labels
<1>2. CountIsExact' /\ count' \in Nat
  BY <1>1, CountKeeps
<1>3. TypeOK'
  BY <1>2 DEF Labels
<1>4. PlacesTell'
  OBVIOUS
<1>5. MutexTells' /\ LoopIsHeld'
  BY DEF MutexTells, LoopIsHeld
<1>6. OneCallPerThread'
  BY DEF OneCallPerThread, Free
<1>7. NotifierIsBehind' /\ NoLostWakeup'
  BY DEF NotifierIsBehind, NoLostWakeup, OneCallPerThread, MutexTells, LoopIsHeld, Free
<1> QED
  BY <1>2, <1>3, <1>4, <1>5, <1>6, <1>7

\* A coroutine registers its loop.
LEMMA LockLoopedKeeps ==
    ASSUME IndInv, NEW p \in Process, LockLooped(p)
    PROVE  IndInv'
<1> USE ThreadEventAssumption DEF IndInv, TypeOK, PlacesTell, InLoop, Suspended, LockLooped, Goto
<1>1. Inside' = Inside /\ count' = count
  BY DEF CountIsExact, MutexTells, Inside, Labels
<1>2. CountIsExact' /\ count' \in Nat
  BY <1>1, CountKeeps
<1>3. TypeOK'
  BY <1>2 DEF Labels
<1>4. PlacesTell'
  OBVIOUS
<1>5. MutexTells' /\ LoopIsHeld'
  BY DEF MutexTells, LoopIsHeld
<1>6. OneCallPerThread'
  BY DEF OneCallPerThread, Free
<1>7. NotifierIsBehind' /\ NoLostWakeup'
  BY DEF NotifierIsBehind, NoLostWakeup, OneCallPerThread, MutexTells, LoopIsHeld, Free
<1> QED
  BY <1>2, <1>3, <1>4, <1>5, <1>6, <1>7

\* It tests the flag without the mutex.
LEMMA CheckLoopedKeeps ==
    ASSUME IndInv, NEW p \in Process, CheckLooped(p)
    PROVE  IndInv'
<1> USE ThreadEventAssumption DEF IndInv, TypeOK, PlacesTell, InLoop, Suspended, CheckLooped, Goto
<1>1. Inside' = Inside /\ count' = count
  BY DEF CountIsExact, MutexTells, Inside, Labels
<1>2. CountIsExact' /\ count' \in Nat
  BY <1>1, CountKeeps
<1>3. TypeOK'
  BY <1>2 DEF Labels
<1>4. PlacesTell'
  OBVIOUS
<1>5. MutexTells' /\ LoopIsHeld'
  BY DEF MutexTells, LoopIsHeld
<1>6. OneCallPerThread'
  BY DEF OneCallPerThread, Free
<1>7. NotifierIsBehind' /\ NoLostWakeup'
  BY DEF NotifierIsBehind, NoLostWakeup, OneCallPerThread, MutexTells, LoopIsHeld, Free
<1> QED
  BY <1>2, <1>3, <1>4, <1>5, <1>6, <1>7

\* It parks: a setter that came after its test finds its loop in holds.
LEMMA ParkKeeps ==
    ASSUME IndInv, NEW p \in Process, Park(p)
    PROVE  IndInv'
<1> USE ThreadEventAssumption DEF IndInv, TypeOK, PlacesTell, InLoop, Suspended, Park, Goto
<1>1. Inside' = Inside /\ count' = count
  BY DEF CountIsExact, MutexTells, Inside, Labels
<1>2. CountIsExact' /\ count' \in Nat
  BY <1>1, CountKeeps
<1>3. TypeOK'
  BY <1>2 DEF Labels
<1>4. PlacesTell'
  OBVIOUS
<1>5. MutexTells' /\ LoopIsHeld'
  BY DEF MutexTells, LoopIsHeld
<1>6. OneCallPerThread'
  BY DEF OneCallPerThread, Free
<1>7. NotifierIsBehind' /\ NoLostWakeup'
  BY DEF NotifierIsBehind, NoLostWakeup, OneCallPerThread, MutexTells, LoopIsHeld, Free
<1> QED
  BY <1>2, <1>3, <1>4, <1>5, <1>6, <1>7

\* It is woken up and tests the flag again.
LEMMA WakeLoopedKeeps ==
    ASSUME IndInv, NEW p \in Process, WakeLooped(p)
    PROVE  IndInv'
<1> USE ThreadEventAssumption DEF IndInv, TypeOK, PlacesTell, InLoop, Suspended, WakeLooped, Goto
<1>1. Inside' = Inside /\ count' = count
  BY DEF CountIsExact, MutexTells, Inside, Labels
<1>2. CountIsExact' /\ count' \in Nat
  BY <1>1, CountKeeps
<1>3. TypeOK'
  BY <1>2 DEF Labels
<1>4. PlacesTell'
  OBVIOUS
<1>5. MutexTells' /\ LoopIsHeld'
  BY DEF MutexTells, LoopIsHeld
<1>6. OneCallPerThread'
  BY DEF OneCallPerThread, Free
<1>7. NotifierIsBehind' /\ NoLostWakeup'
  BY DEF NotifierIsBehind, NoLostWakeup, OneCallPerThread, MutexTells, LoopIsHeld, Free
<1> QED
  BY <1>2, <1>3, <1>4, <1>5, <1>6, <1>7

\* Its timer fires, or an exception is raised.
LEMMA LeaveLoopedKeeps ==
    ASSUME IndInv, NEW p \in Process, LeaveLooped(p)
    PROVE  IndInv'
<1> USE ThreadEventAssumption DEF IndInv, TypeOK, PlacesTell, InLoop, Suspended, LeaveLooped, Goto
<1>1. Inside' = Inside /\ count' = count
  BY DEF CountIsExact, MutexTells, Inside, Labels
<1>2. CountIsExact' /\ count' \in Nat
  BY <1>1, CountKeeps
<1>3. TypeOK'
  BY <1>2 DEF Labels
<1>4. PlacesTell'
  OBVIOUS
<1>5. MutexTells' /\ LoopIsHeld'
  BY DEF MutexTells, LoopIsHeld
<1>6. OneCallPerThread'
  BY DEF OneCallPerThread, Free
<1>7. NotifierIsBehind' /\ NoLostWakeup'
  BY DEF NotifierIsBehind, NoLostWakeup, OneCallPerThread, MutexTells, LoopIsHeld, Free
<1> QED
  BY <1>2, <1>3, <1>4, <1>5, <1>6, <1>7

\* set() turns the flag on: the notifier that everybody asleep waits for.
LEMMA SetCallKeeps ==
    ASSUME IndInv, NEW p \in Process, SetCall(p)
    PROVE  IndInv'
<1> USE ThreadEventAssumption DEF IndInv, TypeOK, PlacesTell, InLoop, Suspended, SetCall, Goto
<1>1. Inside' = Inside /\ count' = count
  BY DEF CountIsExact, MutexTells, Inside, Labels
<1>2. CountIsExact' /\ count' \in Nat
  BY <1>1, CountKeeps
<1>3. TypeOK'
  BY <1>2 DEF Labels
<1>4. PlacesTell'
  OBVIOUS
<1>5. MutexTells' /\ LoopIsHeld'
  BY DEF MutexTells, LoopIsHeld
<1>6. OneCallPerThread'
  BY DEF OneCallPerThread, Free
<1>7. NotifierIsBehind' /\ NoLostWakeup'
  BY DEF NotifierIsBehind, NoLostWakeup, OneCallPerThread, MutexTells, LoopIsHeld, Free
<1> QED
  BY <1>2, <1>3, <1>4, <1>5, <1>6, <1>7

\* notify() tells the loops; a coroutine about to park is in another thread.
LEMMA NotifyHoldsKeeps ==
    ASSUME IndInv, NEW p \in Process, NotifyHolds(p)
    PROVE  IndInv'
<1> USE ThreadEventAssumption DEF IndInv, TypeOK, PlacesTell, InLoop, Suspended, NotifyHolds, Goto, NotifyAll
<1>1. Inside' = Inside /\ count' = count
  BY DEF CountIsExact, MutexTells, Inside, Labels
<1>2. CountIsExact' /\ count' \in Nat
  BY <1>1, CountKeeps
<1>3. TypeOK'
  BY <1>2 DEF Labels
<1>4. PlacesTell'
  OBVIOUS
<1>5. MutexTells' /\ LoopIsHeld'
  BY DEF MutexTells, LoopIsHeld
<1>6. OneCallPerThread'
  BY DEF OneCallPerThread, Free
<1>7. NotifierIsBehind' /\ NoLostWakeup'
  BY DEF NotifierIsBehind, NoLostWakeup, OneCallPerThread, MutexTells, LoopIsHeld, Free
<1> QED
  BY <1>2, <1>3, <1>4, <1>5, <1>6, <1>7

\* notify() wakes the plain threads: whoever is asleep was counted.
LEMMA NotifyThreadsKeeps ==
    ASSUME IndInv, NEW p \in Process, NotifyThreads(p)
    PROVE  IndInv'
<1> USE ThreadEventAssumption DEF IndInv, TypeOK, PlacesTell, InLoop, Suspended, NotifyThreads, Goto
<1>1. Inside' = Inside /\ count' = count
  BY DEF CountIsExact, MutexTells, Inside, Labels
<1>2. CountIsExact' /\ count' \in Nat
  BY <1>1, CountKeeps
<1>3. TypeOK'
  BY <1>2 DEF Labels
<1>4. PlacesTell'
  OBVIOUS
<1>5. MutexTells' /\ LoopIsHeld'
  BY DEF MutexTells, LoopIsHeld
<1>6. OneCallPerThread'
  BY DEF OneCallPerThread, Free
<1>7. NotifierIsBehind' /\ NoLostWakeup'
  <2>1. ASSUME NEW q \in Process, pc[q] = "asleep" PROVE count > 0
    <3>1. q \in Inside
      BY <2>1 DEF Inside
    <3> QED
      BY <3>1, FS_EmptySet, FS_CardinalityType DEF CountIsExact
  <2> QED
    BY <2>1 DEF NotifierIsBehind, NoLostWakeup
<1> QED
  BY <1>2, <1>3, <1>4, <1>5, <1>6, <1>7

\* clear() turns the flag off.
LEMMA ClearKeeps ==
    ASSUME IndInv, NEW p \in Process, Clear(p)
    PROVE  IndInv'
<1> USE ThreadEventAssumption DEF IndInv, TypeOK, PlacesTell, InLoop, Suspended, Clear, Goto
<1>1. Inside' = Inside /\ count' = count
  BY DEF CountIsExact, MutexTells, Inside, Labels
<1>2. CountIsExact' /\ count' \in Nat
  BY <1>1, CountKeeps
<1>3. TypeOK'
  BY <1>2 DEF Labels
<1>4. PlacesTell'
  OBVIOUS
<1>5. MutexTells' /\ LoopIsHeld'
  BY DEF MutexTells, LoopIsHeld
<1>6. OneCallPerThread'
  BY DEF OneCallPerThread, Free
<1>7. NotifierIsBehind' /\ NoLostWakeup'
  BY DEF NotifierIsBehind, NoLostWakeup, OneCallPerThread, MutexTells, LoopIsHeld, Free
<1> QED
  BY <1>2, <1>3, <1>4, <1>5, <1>6, <1>7

\* The functor of a setter in another thread wakes the coroutines of its loop.
LEMMA RunFunctorKeeps ==
    ASSUME IndInv, NEW t \in Looped, RunFunctor(t)
    PROVE  IndInv'
<1> USE ThreadEventAssumption DEF IndInv, TypeOK, PlacesTell, InLoop, Suspended, RunFunctor, NotifyAll
<1>1. Inside' = Inside /\ count' = count
  BY DEF CountIsExact, MutexTells, Inside, Labels
<1>2. CountIsExact' /\ count' \in Nat
  BY <1>1, CountKeeps
<1>3. TypeOK'
  BY <1>2 DEF Labels
<1>4. PlacesTell'
  OBVIOUS
<1>5. MutexTells' /\ LoopIsHeld'
  BY DEF MutexTells, LoopIsHeld
<1>6. OneCallPerThread'
  BY DEF OneCallPerThread, Free
<1>7. NotifierIsBehind' /\ NoLostWakeup'
  BY DEF NotifierIsBehind, NoLostWakeup, OneCallPerThread, MutexTells, LoopIsHeld, Free
<1> QED
  BY <1>2, <1>3, <1>4, <1>5, <1>6, <1>7

\* Every step keeps the invariant.
LEMMA NextIndInv == IndInv /\ [Next]_vars => IndInv'
<1> SUFFICES ASSUME IndInv, [Next]_vars PROVE IndInv'
  OBVIOUS
<1>1. CASE UNCHANGED vars
  BY <1>1 DEF vars, IndInv, TypeOK, CountIsExact, Inside, PlacesTell, MutexTells, LoopIsHeld,
              OneCallPerThread, NotifierIsBehind, NoLostWakeup, InLoop, Suspended
<1>2. ASSUME NEW p \in Process, Continue(p) PROVE IndInv'
  BY <1>2, LockPlainKeeps, CheckPlainKeeps, SleepKeeps, RelockKeeps, LockLoopedKeeps,
     CheckLoopedKeeps, ParkKeeps, WakeLoopedKeeps, NotifyHoldsKeeps, NotifyThreadsKeeps
     DEF Continue
<1> QED
  BY <1>1, <1>2, WaitCallKeeps, SetCallKeeps, ClearKeeps, WakeSpuriouslyKeeps,
     LeaveLoopedKeeps, RunFunctorKeeps DEF Next

\* No wake-up is lost between the threads that set the event and those that
\* wait for it (ThreadEventPrivate::set(), wait() and notify()), though the flag
\* is changed, and by coroutines tested, without the mutex.
THEOREM NoWakeupIsLost == Spec => [](TypeOK /\ NoLostWakeup)
<1>1. IndInv => TypeOK /\ NoLostWakeup
  BY DEF IndInv
<1> QED
  BY InitIndInv, NextIndInv, <1>1, PTL DEF Spec

\* `count' is the number of plain threads in wait(), so that notify() leaves out
\* condition.notify_all() only when nobody sleeps.
THEOREM CountNeverLies == Spec => []CountIsExact
<1>1. IndInv => CountIsExact
  BY DEF IndInv
<1> QED
  BY InitIndInv, NextIndInv, <1>1, PTL DEF Spec
--------------------------------------------------------------------------------
(* ThreadQueue, whose notEmpty and notFull are ThreadEvents. *)

Closing(t) == at[t] \in {"closeNotEmpty", "closeNotFull"}

\* What a closed queue lacks, a thread inside close() is going to provide.
CloseUnderWay ==
    /\ \A t \in Caller : Closing(t) => m_closed
    /\ m_closed => notEmpty \/ \E t \in Caller : at[t] = "closeNotEmpty"
    /\ m_closed => notFull \/ \E t \in Caller : Closing(t)

QueueInv == ThreadQueueTypeOK /\ LatchesTell /\ CloseUnderWay

\* The constructor sets notFull and clears notEmpty: the inductive invariant holds.
LEMMA QueueInit ==
    ThreadQueueInit => QueueInv
<1> SUFFICES ASSUME ThreadQueueInit PROVE QueueInv
  OBVIOUS
<1>1. ThreadQueueTypeOK
  BY DEF ThreadQueueInit, ThreadQueueTypeOK
<1>2. ~(0 > 0) /\ 0 < Capacity
  BY ThreadQueueAssumption
<1>3. LatchesTell
  BY <1>2, Zenon DEF ThreadQueueInit, LatchesTell
<1>4. CloseUnderWay
  BY DEF ThreadQueueInit, CloseUnderWay, Closing
<1> QED BY <1>1, <1>3, <1>4 DEF QueueInv

\* The arithmetic of an added element.
LEMMA Sizes ==
    ASSUME NEW n \in Nat
    PROVE  /\ n + 1 < Capacity => n < Capacity
           /\ n + 1 >= Capacity <=> ~(n + 1 < Capacity)
BY ThreadQueueAssumption

\* Every step of every thread of a ThreadQueue keeps the inductive invariant: one
\* step of the proof for each group of actions that touch the same state.
LEMMA QueueNext ==
    QueueInv /\ [ThreadQueueNext]_threadQueueVars => QueueInv'
<1> SUFFICES ASSUME QueueInv, [ThreadQueueNext]_threadQueueVars PROVE QueueInv'
  OBVIOUS
<1> USE ThreadQueueAssumption DEF QueueInv, ThreadQueueTypeOK
<1>1. ASSUME NEW t \in Caller, PutCall(t) \/ PutGivesUp(t) \/ GetCall(t) \/ SeesNotFull(t) \/ SeesNotEmpty(t)
      PROVE  QueueInv'
  <2>1. ThreadQueueTypeOK' /\ LatchesTell' /\ UNCHANGED <<currentSize, m_closed, notEmpty, notFull>>
    BY <1>1 DEF LatchesTell, PutCall, PutGivesUp, GetCall, SeesNotFull, SeesNotEmpty, Idle, StepTo
  <2>2. \A u \in Caller : at'[u] = at[u] \/ (~Closing(u) /\ ~Closing(u)')
    BY <1>1 DEF Closing, PutCall, PutGivesUp, GetCall, SeesNotFull, SeesNotEmpty, Idle, StepTo
  <2>3. CloseUnderWay'
    BY <2>1, <2>2 DEF CloseUnderWay, Closing
  <2> QED BY <2>1, <2>3
<1>2. ASSUME NEW t \in Caller, Insert(t) \/ PutForcedly(t)
      PROVE  QueueInv'
  <2>1. Add(t) /\ ~Closing(t)
    BY <1>2 DEF Insert, PutForcedly, Closing, Idle
  <2>2. CASE m_closed
    BY <2>1, <2>2 DEF Add, LatchesTell, CloseUnderWay, Closing, StepTo
  <2>3. CASE ~m_closed
    <3>1. /\ currentSize' = currentSize + 1 /\ m_closed' = FALSE /\ notEmpty' = TRUE
          /\ at' = [at EXCEPT ![t] = "idle"]
      BY <2>1, <2>3 DEF Add, StepTo
    <3>2. notFull' \in BOOLEAN /\ (notFull' <=> currentSize' < Capacity)
      <4>1. CASE currentSize + 1 >= Capacity
        BY <2>1, <2>3, <3>1, <4>1, Sizes, Zenon DEF Add
      <4>2. CASE ~(currentSize + 1 >= Capacity)
        BY <2>1, <2>3, <3>1, <4>2, Sizes, Zenon DEF Add, LatchesTell
      <4> QED BY <4>1, <4>2
    <3>3. ThreadQueueTypeOK'
      <4>1. currentSize' \in Nat /\ at' \in [Caller -> {"idle", "waitNotFull", "insert",
                "waitNotEmpty", "take", "closeNotEmpty", "closeNotFull"}]
        BY <3>1
      <4> QED BY <3>1, <3>2, <4>1, Zenon
    <3>4. LatchesTell'
      BY <3>1, <3>2, Zenon DEF LatchesTell
    <3>5. CloseUnderWay'
      BY <2>3, <3>1 DEF CloseUnderWay, Closing
    <3> QED BY <3>3, <3>4, <3>5
  <2> QED BY <2>2, <2>3
<1>3. ASSUME NEW t \in Caller, Take(t) \/ TakeNothing(t)
      PROVE  QueueInv'
  <2>1. ~Closing(t) /\ m_closed' = m_closed
    BY <1>3 DEF Take, TakeNothing, Closing
  <2>2. at' \in [Caller -> {"idle", "waitNotFull", "insert", "waitNotEmpty", "take",
                            "closeNotEmpty", "closeNotFull"}]
        /\ \A u \in Caller : at'[u] = at[u] \/ (~Closing(u) /\ ~Closing(u)')
    BY <1>3, <2>1 DEF Take, TakeNothing, Closing, StepTo
  <2>3. CASE Take(t)
    <3>1. currentSize > 0 /\ currentSize' = currentSize - 1 /\ currentSize' \in Nat
      BY <2>3 DEF Take
    <3>2. notEmpty
      BY <3>1, Zenon DEF LatchesTell
    <3>3. /\ notEmpty' \in BOOLEAN
          /\ currentSize' > 0 => notEmpty'
          /\ m_closed => notEmpty'
      <4>1. ~(0 > 0)
        OBVIOUS
      <4>2. currentSize' > 0 => currentSize' # 0
        BY <4>1, Zenon
      <4> QED BY <2>3, <3>2, <4>2, Zenon DEF Take
    <3>4. /\ notFull' \in BOOLEAN
          /\ ~m_closed => (notFull' <=> currentSize' < Capacity)
          /\ notFull => notFull'
      <4>1. currentSize < Capacity => currentSize' < Capacity
        BY <3>1, ThreadQueueAssumption
      <4> QED BY <2>3, <4>1, Zenon DEF Take, LatchesTell
    <3>5. ThreadQueueTypeOK'
      BY <2>1, <2>2, <3>1, <3>3, <3>4, Zenon
    <3>6. LatchesTell'
      BY <2>1, <3>3, <3>4, Zenon DEF LatchesTell
    <3>7. CloseUnderWay'
      BY <2>1, <2>2, <3>3, <3>4 DEF CloseUnderWay, Closing
    <3> QED BY <3>5, <3>6, <3>7
  <2>4. CASE TakeNothing(t)
    <3>1. /\ currentSize = 0 /\ currentSize' = 0 /\ notFull' = notFull
          /\ notEmpty' \in BOOLEAN
          /\ m_closed => notEmpty' = notEmpty
      BY <2>4, Zenon DEF TakeNothing
    <3>a. ~(0 > 0) /\ 0 \in Nat
      OBVIOUS
    <3>2. ThreadQueueTypeOK'
      BY <2>1, <2>2, <3>1, <3>a, Zenon
    <3>3. LatchesTell'
      BY <2>1, <3>1, <3>a, Zenon DEF LatchesTell
    <3>4. CloseUnderWay'
      BY <2>1, <2>2, <3>1 DEF CloseUnderWay, Closing
    <3> QED BY <3>2, <3>3, <3>4
  <2> QED BY <1>3, <2>3, <2>4
<1>4. ASSUME NEW t \in Caller, clear(t) \/ notifyNotEmpty(t) \/ \E n \in 1..currentSize : remove(t, n)
      PROVE  QueueInv'
  <2>1. /\ at' = at /\ m_closed' = m_closed
        /\ currentSize' \in Nat
    <3>1. at' = at /\ m_closed' = m_closed
      BY <1>4, Zenon DEF clear, notifyNotEmpty, remove
    <3>2. \/ currentSize' = 0
          \/ currentSize' = currentSize
          \/ \E n \in 1..currentSize : currentSize' = currentSize - n
      BY <1>4, Zenon DEF clear, notifyNotEmpty, remove
    <3>3. currentSize' \in Nat
      BY <3>2
    <3> QED BY <3>1, <3>3
  <2>2. /\ notEmpty' \in BOOLEAN
        /\ currentSize' > 0 => notEmpty'
        /\ m_closed /\ notEmpty => notEmpty'
    <3>1. ~(0 > 0)
      OBVIOUS
    <3> QED BY <1>4, <3>1, Zenon DEF clear, notifyNotEmpty, remove
  <2>3. /\ notFull' \in BOOLEAN
        /\ ~m_closed => (notFull' <=> currentSize' < Capacity)
        /\ m_closed /\ notFull => notFull'
    <3>1. 0 < Capacity
      BY ThreadQueueAssumption
    <3>2. CASE clear(t)
      BY <3>1, <3>2, Zenon DEF clear
    <3>3. CASE notifyNotEmpty(t)
      BY <3>3, Zenon DEF notifyNotEmpty, LatchesTell
    <3>4. CASE \E n \in 1..currentSize : remove(t, n)
      <4>1. notFull' = (currentSize' < Capacity \/ m_closed)
        BY <3>4, Zenon DEF remove
      <4>2. (currentSize' < Capacity \/ m_closed) \in BOOLEAN
        BY Zenon
      <4> QED BY <4>1, <4>2, Zenon
    <3> QED BY <1>4, <3>2, <3>3, <3>4
  <2>4. ThreadQueueTypeOK'
    BY <2>1, <2>2, <2>3, Zenon
  <2>5. LatchesTell'
    BY <2>1, <2>2, <2>3, Zenon DEF LatchesTell
  <2>6. CloseUnderWay'
    BY <2>1, <2>2, <2>3, Zenon DEF CloseUnderWay, Closing
  <2> QED BY <2>4, <2>5, <2>6
<1>5. ASSUME NEW t \in Caller, CloseCall(t)
      PROVE  QueueInv'
  BY <1>5 DEF CloseCall, LatchesTell, CloseUnderWay, Closing, StepTo
<1>6. ASSUME NEW t \in Caller, CloseNotEmpty(t)
      PROVE  QueueInv'
  BY <1>6 DEF CloseNotEmpty, LatchesTell, CloseUnderWay, Closing, StepTo
<1>7. ASSUME NEW t \in Caller, CloseNotFull(t)
      PROVE  QueueInv'
  <2>1. m_closed
    BY <1>7 DEF CloseNotFull, CloseUnderWay, Closing
  <2> QED BY <1>7, <2>1 DEF CloseNotFull, LatchesTell, CloseUnderWay, Closing, StepTo
<1>8. CASE UNCHANGED threadQueueVars
  BY <1>8 DEF threadQueueVars, LatchesTell, CloseUnderWay, Closing
<1> QED
  BY <1>1, <1>2, <1>3, <1>4, <1>5, <1>6, <1>7, <1>8 DEF ThreadQueueNext, CallGoesOn

\* The inductive invariant holds in every state of a ThreadQueue.
LEMMA QueueAlways ==
    ThreadQueueSpec => []QueueInv
<1>1. ThreadQueueInit => QueueInv
  BY QueueInit
<1>2. QueueInv /\ [ThreadQueueNext]_threadQueueVars => QueueInv'
  BY QueueNext
<1> QED
  BY <1>1, <1>2, PTL DEF ThreadQueueSpec

\* Between critical sections the latches of a ThreadQueue tell the truth, however
\* many threads saw them before they took the lock (get(), put(), clear(),
\* remove() in include/qtng/locks.h).
THEOREM LatchesAreTrue ==
    ThreadQueueSpec => []LatchesTell
<1>1. ThreadQueueSpec => []QueueInv
  BY QueueAlways
<1>2. QueueInv => LatchesTell
  BY DEF QueueInv
<1> QED
  BY <1>1, <1>2, PTL

\* Once the close() of some thread is over, both latches of a ThreadQueue stay
\* set: no later put() or get() blocks (close() in include/qtng/locks.h).
THEOREM ClosedStaysOpen ==
    ThreadQueueSpec => []ClosedKeepsLatches
<1>1. QueueInv => ClosedKeepsLatches
  BY DEF QueueInv, CloseUnderWay, Closing, ClosedKeepsLatches
<1>2. ThreadQueueSpec => []QueueInv
  BY QueueAlways
<1> QED
  BY <1>1, <1>2, PTL
--------------------------------------------------------------------------------
\* How the threads that have seen room and not yet inserted are counted.
LEMMA CountInserting ==
    ASSUME IsFiniteSet(Caller)
    PROVE  /\ Cardinality(Caller) \in Nat
           /\ \A S \in SUBSET Caller :
                 /\ IsFiniteSet(S) /\ Cardinality(S) \in Nat
                 /\ Cardinality(S) <= Cardinality(Caller)
                 /\ \A t \in S : Cardinality(S \ {t}) = Cardinality(S) - 1
                 /\ \A t \in Caller \ S : Cardinality(S) <= Cardinality(Caller) - 1
                 /\ \A R \in SUBSET S : Cardinality(R) \in Nat /\ Cardinality(R) <= Cardinality(S)
<1>1. Cardinality(Caller) \in Nat
  BY FS_CardinalityType
<1>2. ASSUME NEW S \in SUBSET Caller
      PROVE  /\ IsFiniteSet(S) /\ Cardinality(S) \in Nat
             /\ Cardinality(S) <= Cardinality(Caller)
  BY FS_Subset, FS_CardinalityType
<1>3. ASSUME NEW S \in SUBSET Caller, NEW t \in S
      PROVE  Cardinality(S \ {t}) = Cardinality(S) - 1
  BY <1>2, FS_RemoveElement
<1>4. ASSUME NEW S \in SUBSET Caller, NEW t \in Caller \ S
      PROVE  Cardinality(S) <= Cardinality(Caller) - 1
  <2>1. Cardinality(Caller \ {t}) = Cardinality(Caller) - 1 /\ IsFiniteSet(Caller \ {t})
    BY FS_RemoveElement
  <2>2. S \subseteq Caller \ {t}
    OBVIOUS
  <2> QED
    BY <2>1, <2>2, FS_Subset
<1>5. ASSUME NEW S \in SUBSET Caller, NEW R \in SUBSET S
      PROVE  Cardinality(R) \in Nat /\ Cardinality(R) <= Cardinality(S)
  BY <1>2, FS_Subset, FS_CardinalityType
<1> QED
  BY <1>1, <1>2, <1>3, <1>4, <1>5

\* No step of a thread passes the bound.
LEMMA QueueBounded ==
    ASSUME IsFiniteSet(Caller), QueueInv, OvershootIsBounded, [ThreadQueueNext]_threadQueueVars
    PROVE  OvershootIsBounded'
<1> DEFINE N == Cardinality(Caller)
           I == Inserting
           J == Inserting'
<1>1. currentSize \in Nat /\ N \in Nat /\ Capacity \in Nat \ {0} /\ MaxForced \in Nat
  BY CountInserting, ThreadQueueAssumption DEF QueueInv, ThreadQueueTypeOK
<1>2. I \in SUBSET Caller /\ J \in SUBSET Caller
  BY DEF Inserting
<1>3. /\ Overshoot \in Int
      /\ MaxForced + N - 1 <= Overshoot
      /\ Capacity + N - 1 <= Overshoot
  BY <1>1 DEF Overshoot
<1>4. Overshoot' = Overshoot
  BY DEF Overshoot
<1>5. /\ currentSize <= Overshoot
      /\ ~m_closed => currentSize + Cardinality(I) <= Overshoot
  BY DEF OvershootIsBounded
<1>6. Cardinality(I) \in Nat /\ Cardinality(J) \in Nat /\ Cardinality(J) <= N
  BY <1>2, CountInserting
<1>7. SUFFICES /\ currentSize' <= Overshoot
               /\ ~m_closed' => currentSize' + Cardinality(J) <= Overshoot
  BY <1>4 DEF OvershootIsBounded
<1> HIDE DEF N, I, J
<1>a. ASSUME NEW t \in Caller, Insert(t), ~m_closed
      PROVE  /\ currentSize' <= Overshoot
             /\ ~m_closed' => currentSize' + Cardinality(J) <= Overshoot
  <2>1. currentSize' = currentSize + 1 /\ t \in I /\ J = I \ {t}
    BY <1>a DEF Insert, Add, StepTo, Inserting, I, J, QueueInv, ThreadQueueTypeOK
  <2>2. Cardinality(J) = Cardinality(I) - 1
    BY <1>2, <2>1, CountInserting
  <2> QED
    BY <1>1, <1>3, <1>5, <1>6, <1>a, <2>1, <2>2
<1>b. ASSUME NEW t \in Caller, PutForcedly(t), ~m_closed
      PROVE  /\ currentSize' <= Overshoot
             /\ ~m_closed' => currentSize' + Cardinality(J) <= Overshoot
  <2>1. currentSize' = currentSize + 1 /\ currentSize < MaxForced /\ t \in Caller \ J
    BY <1>b DEF PutForcedly, Add, StepTo, Inserting, J, QueueInv, ThreadQueueTypeOK
  <2>2. Cardinality(J) <= N - 1
    BY <1>2, <2>1, CountInserting DEF N
  <2> QED
    BY <1>1, <1>3, <1>6, <2>1, <2>2
<1>c. ASSUME NEW t \in Caller, SeesNotFull(t), ~m_closed
      PROVE  /\ currentSize' <= Overshoot
             /\ ~m_closed' => currentSize' + Cardinality(J) <= Overshoot
  <2>1. currentSize' = currentSize /\ notFull
    BY <1>c DEF SeesNotFull
  <2>2. currentSize < Capacity
    BY <1>c, <2>1, Zenon DEF QueueInv, LatchesTell
  <2> QED
    BY <1>1, <1>3, <1>6, <2>1, <2>2
<1>d. ASSUME currentSize' \in Nat, currentSize' <= currentSize, m_closed' \/ (~m_closed /\ J \subseteq I)
      PROVE  /\ currentSize' <= Overshoot
             /\ ~m_closed' => currentSize' + Cardinality(J) <= Overshoot
  <2>1. J \subseteq I => Cardinality(J) <= Cardinality(I)
    BY <1>2, CountInserting
  <2> QED
    BY <1>1, <1>3, <1>5, <1>6, <1>d, <2>1
<1>e. ASSUME NEW t \in Caller, m_closed, Insert(t) \/ PutForcedly(t) \/ SeesNotFull(t)
      PROVE  currentSize' = currentSize /\ m_closed' = m_closed
  BY <1>e DEF Insert, PutForcedly, SeesNotFull, Add
<1>f. ASSUME NEW t \in Caller,
             \/ PutCall(t) \/ PutGivesUp(t) \/ GetCall(t) \/ SeesNotEmpty(t)
             \/ clear(t) \/ notifyNotEmpty(t) \/ CloseCall(t) \/ CloseNotEmpty(t)
             \/ CloseNotFull(t)
      PROVE  /\ currentSize' \in {0, currentSize} /\ (m_closed' = m_closed \/ m_closed')
             /\ J \subseteq I
  BY <1>f DEF PutCall, PutGivesUp, GetCall, SeesNotEmpty, clear, notifyNotEmpty, CloseCall,
              CloseNotEmpty, CloseNotFull, StepTo, Idle, Inserting, I, J, QueueInv, ThreadQueueTypeOK
<1>g. ASSUME NEW t \in Caller, Take(t) \/ TakeNothing(t) \/ \E n \in 1..currentSize : remove(t, n)
      PROVE  /\ currentSize' \in Nat /\ currentSize' <= currentSize /\ m_closed' = m_closed
             /\ J \subseteq I
  <2>1. /\ \/ currentSize' = currentSize
           \/ currentSize > 0 /\ currentSize' = currentSize - 1
           \/ \E n \in 1..currentSize : currentSize' = currentSize - n
        /\ m_closed' = m_closed
        /\ at' = at \/ at' = [at EXCEPT ![t] = "idle"] \/ at' = [at EXCEPT ![t] = "waitNotEmpty"]
    BY <1>g, Zenon DEF Take, TakeNothing, remove, StepTo
  <2>2. J \subseteq I
    BY <2>1 DEF Inserting, I, J, QueueInv, ThreadQueueTypeOK
  <2> QED
    BY <1>1, <2>1, <2>2
<1>h. CASE UNCHANGED threadQueueVars
  <2>1. currentSize' = currentSize /\ m_closed' = m_closed /\ J = I
    BY <1>h DEF threadQueueVars, Inserting, I, J
  <2> QED
    BY <1>1, <1>d, <2>1
<1> QED
  BY <1>1, <1>a, <1>b, <1>c, <1>d, <1>e, <1>f, <1>g, <1>h DEF ThreadQueueNext, CallGoesOn

\* put() does not look at the capacity again under the lock, so several threads
\* may pass it; however they are scheduled, and whatever putForcedly() added, a
\* ThreadQueue that finitely many threads use is never longer than that by one
\* element for each of them.
THEOREM OvershootStaysBounded ==
    ASSUME IsFiniteSet(Caller)
    PROVE  ThreadQueueSpec => []OvershootIsBounded
<1>1. ThreadQueueInit => OvershootIsBounded
  <2> SUFFICES ASSUME ThreadQueueInit PROVE OvershootIsBounded
    OBVIOUS
  <2>1. Inserting = {}
    BY DEF ThreadQueueInit, Inserting
  <2>2. Cardinality(Inserting) = 0
    BY <2>1, FS_EmptySet
  <2>3. Cardinality(Caller) \in Nat
    BY CountInserting
  <2> QED
    BY <2>2, <2>3, ThreadQueueAssumption DEF ThreadQueueInit, OvershootIsBounded, Overshoot
<1>2. IsFiniteSet(Caller) /\ QueueInv /\ OvershootIsBounded /\ [ThreadQueueNext]_threadQueueVars => OvershootIsBounded'
  BY QueueBounded
<1>3. ThreadQueueSpec => []QueueInv
  BY QueueAlways
<1> QED
  BY <1>1, <1>2, <1>3, PTL DEF ThreadQueueSpec
================================================================================
