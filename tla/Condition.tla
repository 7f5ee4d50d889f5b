------------------------------- MODULE Condition -------------------------------
(***************************************************************************)
(* Condition (src/locks.cpp).  Every wait() makes a Lock of its own, takes *)
(* it, lists it and tries to take it once more; notify() takes Locks off   *)
(* the list and releases them.  What a Lock does is in module Semaphore:   *)
(* here a released Lock has a notify functor on the event loop, and its    *)
(* coroutine sleeps until that functor, its timer or an exception comes    *)
(* first.                                                                  *)
(***************************************************************************)
EXTENDS Naturals, Sequences

CONSTANTS Waiter, MaxNotify   \* notify(n) is called with n <= MaxNotify

ASSUME ConditionAssumption == MaxNotify \in Nat

VARIABLES waiters,   \* coroutines whose Lock is listed, oldest first
          released,  \* coroutines whose Lock was released by notify()
          timer,     \* coroutines whose tryAcquire() has a timer
          state      \* of each coroutine: blocked, or how its wait() ended

conditionVars == <<waiters, released, timer, state>>

Blocked(c) == state[c] = "blocked"
\* std::remove() and erase(): the list without the Lock of c.
Erase(ws, c) ==
    LET kept[i \in 0..Len(ws)] ==
            IF i = 0 THEN <<>>
            ELSE IF ws[i] = c THEN kept[i - 1] ELSE Append(kept[i - 1], ws[i])
    IN  kept[Len(ws)]

ConditionInit ==
    /\ waiters = <<>>
    /\ released = {}
    /\ timer = {}
    /\ state = [c \in Waiter |-> "none"]

\* wait(0) cannot take the Lock twice.
WaitNow(c) ==
    /\ ~Blocked(c)
    /\ state' = [state EXCEPT ![c] = "false"]
    /\ UNCHANGED <<waiters, released, timer>>

WaitBlock(c, msecs) ==
    /\ ~Blocked(c)
    /\ waiters' = Append(waiters, c)
    /\ timer' = IF msecs = "finite" THEN timer \cup {c} ELSE timer
    /\ state' = [state EXCEPT ![c] = "blocked"]
    /\ UNCHANGED released

\* wait() goes on, however tryAcquire() ended.
Ends(c, result) ==
    /\ waiters' = Erase(waiters, c)
    /\ released' = released \ {c}
    /\ timer' = timer \ {c}
    /\ state' = [state EXCEPT ![c] = result]

\* The functor of the released Lock runs.
WaitSucceeds(c) == c \in released /\ Ends(c, "true")

\* Mutant: wait() that timed out leaves its Lock on the list.
TimeoutStaysListed(c) ==
    /\ Blocked(c)
    /\ c \in timer
    /\ timer' = timer \ {c}
    /\ released' = released \ {c}
    /\ state' = [state EXCEPT ![c] = "false"]
    /\ UNCHANGED waiters

\* The timer fires, before the notification or between it and its functor.
WaitTimesOut(c) == Blocked(c) /\ c \in timer /\ Ends(c, "false")

\* An exception is raised in the blocked coroutine.
WaitThrows(c) == Blocked(c) /\ Ends(c, "killed")

\* notify(n); notifyAll() is notify() of everybody, as is ~Condition.
Notify(n) ==
    LET k == IF n <= Len(waiters) THEN n ELSE Len(waiters) IN
    /\ waiters # <<>>
    /\ waiters' = SubSeq(waiters, k + 1, Len(waiters))
    /\ released' = released \cup {waiters[i] : i \in 1..k}
    /\ UNCHANGED <<timer, state>>

notifyAll == Notify(Len(waiters))

ConditionNext ==
    \/ \E c \in Waiter :
          \/ WaitNow(c)
          \/ \E msecs \in {"finite", "forever"} : WaitBlock(c, msecs)
          \/ WaitSucceeds(c)
          \/ WaitTimesOut(c)
          \/ WaitThrows(c)
    \/ \E n \in 1..MaxNotify : Notify(n)
    \/ notifyAll

ConditionSpec == ConditionInit /\ [][ConditionNext]_conditionVars
--------------------------------------------------------------------------------
\* Whoever is blocked in wait() is on the list once or has been notified, and
\* nobody else is: notify() never spends a wake-up on a coroutine that left.
ListIsExact ==
    /\ \A c \in Waiter :
          Blocked(c) <=> c \in released \/ \E i \in DOMAIN waiters : waiters[i] = c
    /\ \A i, j \in DOMAIN waiters : waiters[i] = waiters[j] => i = j
    /\ \A i \in DOMAIN waiters : waiters[i] \notin released
================================================================================
