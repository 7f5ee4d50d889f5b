------------------------------ MODULE ThreadEvent ------------------------------
(***************************************************************************)
(* ThreadEvent (src/locks.cpp): an event that several threads wait for.  A *)
(* thread without an event loop sleeps on a std::condition_variable; the   *)
(* coroutines of a thread with one sleep on a Condition of that loop, and  *)
(* a setter in another thread reaches it with callLaterThreadSafe().       *)
(*                                                                         *)
(* Threads run concurrently: a step is one atomic access to flag or one    *)
(* critical section of the mutex.  The coroutines of one thread give the   *)
(* processor to each other only where they park.                           *)
(***************************************************************************)
EXTENDS Naturals, FiniteSets

CONSTANTS Process,   \* coroutines of the threads in Looped, and plain threads
          Thread,
          Looped,    \* threads that have an event loop
          ThreadOf,  \* the thread each process runs in
          None       \* nobody owns the mutex

ASSUME ThreadEventAssumption ==
    /\ ThreadOf \in [Process -> Thread]
    /\ Looped \subseteq Thread
    /\ None \notin Process
    /\ \A p, q \in Process : ThreadOf[p] = ThreadOf[q] /\ ThreadOf[p] \notin Looped => p = q

VARIABLES flag,
          mutex,     \* its owner
          count,     \* plain threads in wait()
          holds,     \* threads whose loop is in holds
          parked,    \* coroutines on the list of their loop's Condition
          notified,  \* coroutines whose Lock was released by notifyAll()
          functors,  \* loops with a NotifiyCondition functor
          pc,        \* where each process is
          timed      \* processes whose wait() has a limit

vars == <<flag, mutex, count, holds, parked, notified, functors, pc, timed>>

InLoop(p) == ThreadOf[p] \in Looped
Suspended == {"idle", "parked"}
\* No process of t is in the middle of a call.
Free(t) == \A p \in Process : ThreadOf[p] = t => pc[p] \in Suspended
Goto(p, label) == pc' = [pc EXCEPT ![p] = label]

Init ==
    /\ flag = FALSE
    /\ mutex = None
    /\ count = 0
    /\ holds = {}
    /\ parked = {}
    /\ notified = {}
    /\ functors = {}
    /\ pc = [p \in Process |-> "idle"]
    /\ timed = {}
--------------------------------------------------------------------------------
\* wait() looks at the flag and returns, or goes on to the mutex.  Plain
\* threads ignore msecs.
WaitCall(p, msecs) ==
    /\ pc[p] = "idle"
    /\ Free(ThreadOf[p])
    /\ ~flag
    /\ msecs # "zero"
    /\ timed' = IF msecs = "finite" /\ InLoop(p) THEN timed \cup {p} ELSE timed
    /\ Goto(p, "lock")
    /\ UNCHANGED <<flag, mutex, count, holds, parked, notified, functors>>

\* A plain thread takes the mutex...
LockPlain(p) ==
    /\ pc[p] = "lock"
    /\ ~InLoop(p)
    /\ mutex = None
    /\ mutex' = p
    /\ count' = count + 1
    /\ Goto(p, "check")
    /\ UNCHANGED <<flag, holds, parked, notified, functors, timed>>

\* ... and tests the flag with the mutex in its hands.
CheckPlain(p) ==
    /\ pc[p] = "check"
    /\ ~InLoop(p)
    /\ \/ /\ flag
          /\ count' = count - 1
          /\ mutex' = None
          /\ Goto(p, "idle")
       \/ /\ ~flag
          /\ Goto(p, "sleep")
          /\ UNCHANGED <<count, mutex>>
    /\ UNCHANGED <<flag, holds, parked, notified, functors, timed>>

\* condition.wait() gives the mutex up and sleeps.
Sleep(p) ==
    /\ pc[p] = "sleep"
    /\ mutex' = None
    /\ Goto(p, "asleep")
    /\ UNCHANGED <<flag, count, holds, parked, notified, functors, timed>>

\* condition.wait() may return for no reason.
WakeSpuriously(p) ==
    /\ pc[p] = "asleep"
    /\ Goto(p, "relock")
    /\ UNCHANGED <<flag, mutex, count, holds, parked, notified, functors, timed>>

Relock(p) ==
    /\ pc[p] = "relock"
    /\ mutex = None
    /\ mutex' = p
    /\ Goto(p, "check")
    /\ UNCHANGED <<flag, count, holds, parked, notified, functors, timed>>

\* Mutant: the loop is not registered in holds.
LockLoopedUnknown(p) ==
    /\ pc[p] = "lock"
    /\ InLoop(p)
    /\ mutex = None
    /\ Goto(p, "check")
    /\ UNCHANGED <<flag, mutex, count, holds, parked, notified, functors, timed>>

\* A coroutine registers its loop under the mutex...
LockLooped(p) ==
    /\ pc[p] = "lock"
    /\ InLoop(p)
    /\ mutex = None
    /\ holds' = holds \cup {ThreadOf[p]}
    /\ Goto(p, "check")
    /\ UNCHANGED <<flag, mutex, count, parked, notified, functors, timed>>

\* ... tests the flag without it, and may find its time used up...
CheckLooped(p) ==
    /\ pc[p] = "check"
    /\ InLoop(p)
    /\ \/ /\ flag \/ p \in timed
          /\ Goto(p, "idle")
          /\ timed' = timed \ {p}
       \/ /\ ~flag
          /\ Goto(p, "park")
          /\ UNCHANGED timed
    /\ UNCHANGED <<flag, mutex, count, holds, parked, notified, functors>>

\* ... and waits at the loop's Condition.
Park(p) ==
    /\ pc[p] = "park"
    /\ parked' = parked \cup {p}
    /\ Goto(p, "parked")
    /\ UNCHANGED <<flag, mutex, count, holds, notified, functors, timed>>

\* The functor of the coroutine's Lock runs.
WakeLooped(p) ==
    /\ p \in notified
    /\ Free(ThreadOf[p])
    /\ notified' = notified \ {p}
    /\ Goto(p, "check")
    /\ UNCHANGED <<flag, mutex, count, holds, parked, functors, timed>>

\* The timer of condition->wait() fires, or an exception is raised.
LeaveLooped(p) ==
    /\ pc[p] = "parked"
    /\ Free(ThreadOf[p])
    /\ parked' = parked \ {p}
    /\ notified' = notified \ {p}
    /\ timed' = timed \ {p}
    /\ Goto(p, "idle")
    /\ UNCHANGED <<flag, mutex, count, holds, functors>>

\* Condition::notifyAll() in thread t.
NotifyAll(t) ==
    LET woken == {p \in parked : ThreadOf[p] = t}
    IN  /\ parked' = parked \ woken
        /\ notified' = notified \cup woken

\* Mutant: the functor is dropped.
RunFunctorDrops(t) ==
    /\ t \in functors
    /\ Free(t)
    /\ functors' = functors \ {t}
    /\ UNCHANGED <<flag, mutex, count, holds, parked, notified, pc, timed>>

\* NotifiyCondition runs in the loop of t.
RunFunctor(t) ==
    /\ t \in functors
    /\ Free(t)
    /\ functors' = functors \ {t}
    /\ NotifyAll(t)
    /\ UNCHANGED <<flag, mutex, count, holds, pc, timed>>
--------------------------------------------------------------------------------
\* set() exchanges the flag.
SetCall(p) ==
    /\ pc[p] = "idle"
    /\ Free(ThreadOf[p])
    /\ ~flag
    /\ flag' = TRUE
    /\ Goto(p, "notify")
    /\ UNCHANGED <<mutex, count, holds, parked, notified, functors, timed>>

\* notify(): every loop in holds is told, its own at once...
NotifyHolds(p) ==
    /\ pc[p] = "notify"
    /\ mutex = None
    /\ functors' = functors \cup (holds \ {ThreadOf[p]})
    /\ IF ThreadOf[p] \in holds
       THEN NotifyAll(ThreadOf[p])
       ELSE UNCHANGED <<parked, notified>>
    /\ Goto(p, "notifyThreads")
    /\ UNCHANGED <<flag, mutex, count, holds, timed>>

\* ... and then the plain threads.
NotifyThreads(p) ==
    /\ pc[p] = "notifyThreads"
    /\ pc' = [q \in Process |->
                IF q = p THEN "idle"
                ELSE IF count > 0 /\ pc[q] = "asleep" THEN "relock"
                ELSE pc[q]]
    /\ UNCHANGED <<flag, mutex, count, holds, parked, notified, functors, timed>>

Clear(p) ==
    /\ pc[p] = "idle"
    /\ Free(ThreadOf[p])
    /\ flag' = FALSE
    /\ UNCHANGED <<mutex, count, holds, parked, notified, functors, pc, timed>>
--------------------------------------------------------------------------------
\* What a process does once it is in a call.
Continue(p) ==
    \/ LockPlain(p)
    \/ CheckPlain(p)
    \/ Sleep(p)
    \/ Relock(p)
    \/ LockLooped(p)
    \/ CheckLooped(p)
    \/ Park(p)
    \/ WakeLooped(p)
    \/ NotifyHolds(p)
    \/ NotifyThreads(p)

Next ==
    \/ \E p \in Process :
          \/ \E msecs \in {"zero", "finite", "forever"} : WaitCall(p, msecs)
          \/ SetCall(p)
          \/ Clear(p)
          \/ Continue(p)
          \/ WakeSpuriously(p)
          \/ LeaveLooped(p)
    \/ \E t \in Looped : RunFunctor(t)

Spec == Init /\ [][Next]_vars
--------------------------------------------------------------------------------
Labels == {"idle", "lock", "check", "sleep", "asleep", "relock", "park", "parked",
           "notify", "notifyThreads"}

TypeOK ==
    /\ flag \in BOOLEAN
    /\ mutex \in Process \cup {None}
    /\ count \in Nat
    /\ holds \subseteq Looped
    /\ parked \subseteq Process
    /\ notified \subseteq Process
    /\ functors \subseteq Looped
    /\ pc \in [Process -> Labels]
    /\ timed \subseteq Process

\* No lost wake-up, though set() changes the flag without the mutex and a
\* coroutine tests it without the mutex: whoever sleeps while the flag is set
\* has a notifier or a functor coming.
NoLostWakeup ==
    flag => \A p \in Process :
        /\ pc[p] = "asleep" => \E q \in Process : pc[q] \in {"notify", "notifyThreads"}
        /\ p \in parked => \/ \E q \in Process : pc[q] = "notify"
                           \/ ThreadOf[p] \in functors

\* Threads are scheduled, and the loop of a thread runs what is due.
Fairness ==
    /\ \A p \in Process : WF_vars(Continue(p))
    /\ \A t \in Looped : WF_vars(RunFunctor(t))
FairSpec == Spec /\ Fairness

\* A wait at an event that stays set ends.
WaitEnds ==
    \A p \in Process : pc[p] # "idle" /\ flag ~> pc[p] = "idle" \/ ~flag
================================================================================
