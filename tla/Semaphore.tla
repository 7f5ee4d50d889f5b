------------------------------- MODULE Semaphore -------------------------------
(***************************************************************************)
(* Semaphore, Lock (src/locks.cpp): a counter, a list of waiting           *)
(* coroutines and one functor on the event loop that hands units over.     *)
(*                                                                         *)
(* The coroutines of one thread never run at the same time: `current' is   *)
(* the one that runs, Loop the event loop coroutine.  A step is what runs  *)
(* between two switches.  The loop may only pick its next callback when    *)
(* it is not inside SemaphoreNotifyWaitersFunctor, whose own loop gives    *)
(* the processor to one waiter after another.                              *)
(***************************************************************************)
EXTENDS Integers, FiniteSets, SequencesExt

CONSTANTS Coroutine,    \* the coroutines that use the semaphore
          Loop,         \* the event loop coroutine
          Value,        \* argument of the constructor
          MaxAcquire,   \* acquireMany() asks for 1..MaxAcquire units
          MayDestroy    \* may ~Semaphore run while coroutines wait?

ASSUME SemaphoreAssumption ==
    /\ Loop \notin Coroutine
    /\ Value \in Nat
    /\ MaxAcquire \in Nat \ {0}
    /\ MayDestroy \in BOOLEAN

VARIABLES counter,    \* units that are free
          notified,   \* is the id of a notify functor stored?
          waiters,    \* coroutines blocked in acquire(), oldest first
          deleted,    \* has ~Semaphore run?
          calls,      \* functors scheduled with callLater()
          notifying,  \* the notify functor the loop is inside of, if any
          current,    \* the coroutine that runs
          pc,         \* where each coroutine is
          want,       \* units each coroutine asked for in acquire()
          got,        \* gotNum: units a blocked coroutine has taken
          held        \* units each coroutine owns: what its client may give back

semaphore == <<counter, notified, waiters, deleted>>
vars == <<counter, notified, waiters, deleted, calls, notifying, current, pc,
          want, got, held>>

InitValue == IF Value < 1 THEN 1 ELSE Value  \* init_value(max(1, value))

\* Functors on the event loop: the functor of release(), the one of
\* ~Semaphore, acquire()'s YieldCurrentFunctor, and kill()'s.
NotifyCall     == <<"notify", Loop>>
DeleteCall     == <<"delete", Loop>>
TimeoutCall(c) == <<"timeout", c>>
KillCall(c)    == <<"kill", c>>
Calls == {NotifyCall, DeleteCall}
           \cup {TimeoutCall(c) : c \in Coroutine}
           \cup {KillCall(c) : c \in Coroutine}

Timeouts == {"zero", "finite", "forever"}  \* msecs = 0, n, UINT_MAX

remain(c) == want[c] - got[c]
LoopIdle == current = Loop /\ notifying = "none"

\* waiters.erase(remove(begin, end, c)): a waiter is on the list at most once.
Erase(ws, c) == RemoveAt(ws, CHOOSE i \in DOMAIN ws : ws[i] = c)
Listed(c) == \E i \in DOMAIN waiters : waiters[i] = c
--------------------------------------------------------------------------------
Init ==
    /\ counter = Value
    /\ notified = FALSE
    /\ waiters = <<>>
    /\ deleted = FALSE
    /\ calls = {}
    /\ notifying = "none"
    /\ current = Loop
    /\ pc = [c \in Coroutine |-> "ready"]
    /\ want = [c \in Coroutine |-> 0]
    /\ got = [c \in Coroutine |-> 0]
    /\ held = [c \in Coroutine |-> 0]

\* SemaphorePrivate::release(value) when ws are the waiters and cs the
\* scheduled functors the caller leaves behind.
release(value, ws, cs) ==
    /\ waiters' = ws
    /\ counter' = IF counter + value <= InitValue THEN counter + value ELSE InitValue
    /\ IF value > 0 /\ ~notified /\ ws # <<>>
       THEN notified' = TRUE /\ calls' = cs \cup {NotifyCall}
       ELSE notified' = notified /\ calls' = cs

\* A callback of the loop resumes a coroutine that is blocked elsewhere.
Resume(c) ==
    /\ LoopIdle
    /\ pc[c] = "ready"
    /\ current' = c
    /\ UNCHANGED <<semaphore, calls, notifying, pc, want, got, held>>

\* The running coroutine blocks elsewhere (msleep(), a socket...).
Block(c) ==
    /\ current = c
    /\ current' = Loop
    /\ UNCHANGED <<semaphore, calls, notifying, pc, want, got, held>>

\* run() returns.  A scoped lock has given every unit back by then.
Finish(c) ==
    /\ current = c
    /\ held[c] = 0 \/ deleted
    /\ current' = Loop
    /\ pc' = [pc EXCEPT ![c] = "done"]
    /\ UNCHANGED <<semaphore, calls, notifying, want, got, held>>

\* acquire() finds enough units.
AcquireNow(c, value) ==
    /\ current = c
    /\ ~deleted
    /\ value <= InitValue
    /\ counter >= value
    /\ counter' = counter - value
    /\ held' = [held EXCEPT ![c] = @ + value]
    /\ UNCHANGED <<notified, waiters, deleted, calls, notifying, current, pc,
                   want, got>>

\* acquire() takes what there is, arms its timer and waits for the rest.
AcquireWait(c, value, msecs) ==
    /\ current = c
    /\ ~deleted
    /\ value <= InitValue
    /\ counter < value
    /\ msecs # "zero"
    /\ calls' = IF msecs = "finite" THEN calls \cup {TimeoutCall(c)} ELSE calls
    /\ want' = [want EXCEPT ![c] = value]
    /\ got' = [got EXCEPT ![c] = counter]
    /\ counter' = 0
    /\ waiters' = Append(waiters, c)
    /\ pc' = [pc EXCEPT ![c] = "waiting"]
    /\ current' = Loop
    /\ UNCHANGED <<notified, deleted, notifying, held>>

\* Semaphore::release(): c gives back units that d took.  Mostly c is d;
\* Condition::notify() releases the Lock that another coroutine holds and waits
\* to take once more.
Release(c, d, value) ==
    /\ current = c
    /\ ~deleted
    /\ value <= held[d]
    /\ held' = [held EXCEPT ![d] = @ - value]
    /\ release(value, waiters, calls)
    /\ UNCHANGED <<deleted, notifying, current, pc, want, got>>

\* ~Semaphore: scheduleDelete().
Destroy(c) ==
    /\ MayDestroy
    /\ current = c
    /\ ~deleted
    /\ deleted' = TRUE
    /\ counter' = InitValue
    /\ notified' = TRUE
    /\ calls' = (calls \ {NotifyCall}) \cup {DeleteCall}
    /\ UNCHANGED <<waiters, notifying, current, pc, want, got, held>>

\* Some coroutine calls Coroutine::kill() on c, or a Timeout of c is armed.
Kill(c) ==
    /\ pc[c] # "done"
    /\ KillCall(c) \notin calls
    /\ calls' = calls \cup {KillCall(c)}
    /\ UNCHANGED <<semaphore, notifying, current, pc, want, got, held>>
--------------------------------------------------------------------------------
\* Callbacks of the event loop.

\* Mutant: `notified = 0' is moved above the functor's loop.
NotifyStartResets(call) ==
    /\ LoopIdle
    /\ call \in calls
    /\ calls' = calls \ {call}
    /\ notified' = FALSE
    /\ notifying' = IF call = DeleteCall THEN "delete" ELSE "notify"
    /\ UNCHANGED <<counter, waiters, deleted, current, pc, want, got, held>>

\* SemaphoreNotifyWaitersFunctor starts.
NotifyStart(call) ==
    /\ LoopIdle
    /\ call \in calls
    /\ calls' = calls \ {call}
    /\ notifying' = IF call = DeleteCall THEN "delete" ELSE "notify"
    /\ UNCHANGED <<semaphore, current, pc, want, got, held>>

\* The condition of the functor's loop.
MoreToNotify ==
    /\ notifying = "delete" \/ (notified /\ counter > 0)
    /\ waiters # <<>>

\* waiter->yield(), and acquire() goes on: it has all it wanted...
WakeAll ==
    LET c == Head(waiters) IN
    /\ current = Loop
    /\ notifying # "none"
    /\ MoreToNotify
    /\ counter >= remain(c)
    /\ counter' = counter - remain(c)
    /\ waiters' = Tail(waiters)
    /\ calls' = calls \ {TimeoutCall(c)}
    /\ held' = [held EXCEPT ![c] = @ + want[c]]
    /\ got' = [got EXCEPT ![c] = 0]
    /\ want' = [want EXCEPT ![c] = 0]
    /\ pc' = [pc EXCEPT ![c] = "ready"]
    /\ current' = c
    /\ UNCHANGED <<notified, deleted, notifying>>

\* ... or takes what there is and lines up again.
WakePartly ==
    LET c == Head(waiters) IN
    /\ current = Loop
    /\ notifying # "none"
    /\ MoreToNotify
    /\ counter < remain(c)
    /\ got' = [got EXCEPT ![c] = @ + counter]
    /\ counter' = 0
    /\ waiters' = Append(Tail(waiters), c)
    /\ UNCHANGED <<notified, deleted, calls, notifying, current, pc, want, held>>

\* Mutant: the functor does not reset `notified'.
NotifyEndKeepsId ==
    /\ current = Loop
    /\ notifying # "none"
    /\ ~MoreToNotify
    /\ notifying' = "none"
    /\ UNCHANGED <<semaphore, calls, current, pc, want, got, held>>

NotifyEnd ==
    /\ current = Loop
    /\ notifying # "none"
    /\ ~MoreToNotify
    /\ notified' = FALSE
    /\ notifying' = "none"
    /\ UNCHANGED <<counter, waiters, deleted, calls, current, pc, want, got, held>>

\* Mutant: acquire() takes `erase() # end()' for membership and never erases.
TimeoutFiresStaysListed(c) ==
    /\ LoopIdle
    /\ TimeoutCall(c) \in calls
    /\ release(got[c], waiters, calls \ {TimeoutCall(c)})
    /\ got' = [got EXCEPT ![c] = 0]
    /\ want' = [want EXCEPT ![c] = 0]
    /\ pc' = [pc EXCEPT ![c] = "ready"]
    /\ current' = c
    /\ UNCHANGED <<deleted, notifying, held>>

\* Mutant: a timed-out acquire() keeps the units it had taken.
TimeoutFiresLeaks(c) ==
    /\ LoopIdle
    /\ TimeoutCall(c) \in calls
    /\ Listed(c)
    /\ release(0, Erase(waiters, c), calls \ {TimeoutCall(c)})
    /\ got' = [got EXCEPT ![c] = 0]
    /\ want' = [want EXCEPT ![c] = 0]
    /\ pc' = [pc EXCEPT ![c] = "ready"]
    /\ current' = c
    /\ UNCHANGED <<deleted, notifying, held>>

\* acquire()'s timer fires: the coroutine is still listed, gives back what
\* it took and returns false.
TimeoutFires(c) ==
    /\ LoopIdle
    /\ TimeoutCall(c) \in calls
    /\ Listed(c)
    /\ release(got[c], Erase(waiters, c), calls \ {TimeoutCall(c)})
    /\ got' = [got EXCEPT ![c] = 0]
    /\ want' = [want EXCEPT ![c] = 0]
    /\ pc' = [pc EXCEPT ![c] = "ready"]
    /\ current' = c
    /\ UNCHANGED <<deleted, notifying, held>>

\* KillCoroutineFunctor raises in c: in acquire() the handler takes c off the
\* list, cancels the timer, gives back and rethrows.
KillFires(c) ==
    /\ LoopIdle
    /\ KillCall(c) \in calls
    /\ \/ /\ pc[c] = "waiting"
          /\ Listed(c)
          /\ release(got[c], Erase(waiters, c), calls \ {KillCall(c), TimeoutCall(c)})
          /\ got' = [got EXCEPT ![c] = 0]
          /\ want' = [want EXCEPT ![c] = 0]
          /\ pc' = [pc EXCEPT ![c] = "ready"]
          /\ current' = c
          /\ UNCHANGED <<deleted, notifying, held>>
       \/ /\ pc[c] = "ready"
          /\ calls' = calls \ {KillCall(c)}
          /\ current' = c
          /\ UNCHANGED <<semaphore, notifying, pc, want, got, held>>
       \/ /\ pc[c] = "done"
          /\ calls' = calls \ {KillCall(c)}
          /\ UNCHANGED <<semaphore, notifying, current, pc, want, got, held>>
--------------------------------------------------------------------------------
Client(c) ==
    \/ Resume(c)
    \/ Block(c)
    \/ Finish(c)
    \/ \E value \in 1..MaxAcquire :
          \/ AcquireNow(c, value)
          \/ \E msecs \in Timeouts : AcquireWait(c, value, msecs)
          \/ \E d \in Coroutine : Release(c, d, value)
    \/ Destroy(c)
    \/ Kill(c)

Callback ==
    \/ \E call \in {NotifyCall, DeleteCall} : NotifyStart(call)
    \/ WakeAll
    \/ WakePartly
    \/ NotifyEnd
    \/ \E c \in Coroutine : TimeoutFires(c) \/ KillFires(c)

Next == Callback \/ \E c \in Coroutine : Client(c)
Spec == Init /\ [][Next]_vars
--------------------------------------------------------------------------------
TypeOK ==
    /\ counter \in 0..InitValue
    /\ notified \in BOOLEAN
    /\ waiters \in Seq(Coroutine)
    /\ deleted \in BOOLEAN
    /\ calls \subseteq Calls
    /\ notifying \in {"none", "notify", "delete"}
    /\ current \in Coroutine \cup {Loop}
    /\ pc \in [Coroutine -> {"ready", "waiting", "done"}]
    /\ want \in [Coroutine -> Nat]
    /\ got \in [Coroutine -> Nat]
    /\ held \in [Coroutine -> Nat]
\* The assertion `found' of acquire(): a coroutine that is blocked in
\* acquire() is on the list of waiters exactly once, and nobody else is.
WaitersListedOnce ==
    /\ \A c \in Coroutine : Listed(c) <=> pc[c] = "waiting"
    /\ \A i, j \in DOMAIN waiters : waiters[i] = waiters[j] => i = j

\* No lost wake-up: while a unit is free and a coroutine waits, the notify
\* functor is scheduled or running.  release() only schedules it when
\* `notified' is 0, and the functor resets that after its loop.
NoLostWakeup ==
    counter > 0 /\ waiters # <<>> =>
        \/ NotifyCall \in calls
        \/ DeleteCall \in calls
        \/ notifying # "none"

\* Units are neither lost nor made up by waits that end by a timeout, by an
\* exception or after several partial wake-ups.
InHand == [c \in Coroutine |-> held[c] + got[c]]
Units(f) == UNION {{c} \X (1..f[c]) : c \in Coroutine}
AllUnits == counter + Cardinality(Units(InHand))
UnitsConserved == ~deleted => AllUnits = Value

\* A Lock is a Semaphore of one unit: no two coroutines hold it, whatever
\* mixture of wake-ups, timeouts and exceptions ended their waits.
MutualExclusion ==
    InitValue = 1 /\ ~deleted =>
        \A c, d \in Coroutine : held[c] > 0 /\ held[d] > 0 => c = d

\* No stale timer: acquire()'s YieldCurrentFunctor is scheduled only while
\* the coroutine is blocked in that acquire(); fired later it would resume
\* the coroutine out of an unrelated wait.
NoStaleTimer ==
    \A c \in Coroutine : TimeoutCall(c) \in calls => pc[c] = "waiting"

\* Every round of the loop runs all the timers that are due, so a scheduled
\* functor runs in the end however often the loop is busy elsewhere; a functor
\* goes on once it has the processor; a running coroutine blocks at some time.
Fairness ==
    /\ \A call \in {NotifyCall, DeleteCall} : SF_vars(NotifyStart(call))
    /\ WF_vars(WakeAll \/ WakePartly \/ NotifyEnd)
    /\ \A c \in Coroutine : WF_vars(Block(c))
FairSpec == Spec /\ Fairness

\* A free unit that somebody waits for does not stay free.
FreeUnitIsTaken == counter > 0 /\ waiters # <<>> ~> counter = 0 \/ waiters = <<>>

================================================================================
