------------------------------- MODULE Coroutine -------------------------------
(***************************************************************************)
(* The life of a Coroutine: start(), kill(), join(), msleep() and the kill *)
(* of CoroutineGroup that joins (src/eventloop.cpp, src/coroutine_fcontext *)
(* .cpp, src/coroutine_utils.cpp).  `current' runs; a step is what it does *)
(* up to the next switch.  A switch goes to a coroutine by yield() or, with*)
(* an exception, by raise(); a finished coroutine switches to its          *)
(* `previous', or else to the event loop.                                  *)
(***************************************************************************)
EXTENDS Naturals

CONSTANTS Coroutine,
          EventLoop,    \* the event loop coroutine; also: no previous
          KillIds       \* tells apart the functors of several kill()s of one coroutine

ASSUME CoroutineAssumption ==
    /\ EventLoop \notin Coroutine
    /\ "lost" \notin Coroutine \cup {EventLoop}

VARIABLES state,     \* BaseCoroutine::State
          starts,    \* coroutines with callbackId > 0: StartCoroutineFunctor is scheduled
          kills,     \* scheduled KillCoroutineFunctors: coroutine, exception, id
          timers,    \* coroutines whose msleep() has its YieldCurrentFunctor scheduled
          wakes,     \* joiners whose finishedEvent has been set: their wake-up is scheduled
          where,     \* what a coroutine is suspended in
          target,    \* the coroutine that a join() or a raise() is about
          previous,
          current,   \* who runs; "lost" after a switch that went wrong
          crossed    \* have two kills met, one of which joins? (history)

coroutineVars == <<state, starts, kills, timers, wakes, where, target, previous, current, crossed>>

Exceptions == {"exit", "other"}  \* CoroutineExitException, any other one
isFinished(c) == state[c] \in {"Stopped", "Joined"}
isRunning(c) == state[c] = "Started"

\* d is in the middle of a kill that joins, or is the victim of one.
InKill(d) == \E c \in Coroutine : where[c] = "raise" /\ d \in {c, target[c]}
\* An exception for d is on its way.
KillPending(d) == \E e \in Exceptions, n \in KillIds : <<d, e, n>> \in kills

CoroutineInit ==
    /\ state = [c \in Coroutine |-> "Initialized"]
    /\ starts \in {{c} : c \in Coroutine}
    /\ kills = {}
    /\ timers = {}
    /\ wakes = {}
    /\ where = [c \in Coroutine |-> "run"]
    /\ target = [c \in Coroutine |-> EventLoop]
    /\ previous = [c \in Coroutine |-> EventLoop]
    /\ current = EventLoop
    /\ crossed = FALSE
--------------------------------------------------------------------------------
\* Suspend the running coroutine c and give the processor to the loop.
Suspend(c, place, d) ==
    /\ current = c
    /\ where' = [where EXCEPT ![c] = place]
    /\ target' = [target EXCEPT ![c] = d]
    /\ current' = EventLoop

\* Resume c, which leaves whatever call it was suspended in.
Resume(c) ==
    /\ where' = [where EXCEPT ![c] = "run"]
    /\ target' = [target EXCEPT ![c] = EventLoop]
    /\ timers' = timers \ {c}
    /\ wakes' = wakes \ {c}
    /\ current' = c

\* finished.callback(): finishedEvent.set() wakes whoever joins c.
Joiners(c) == {d \in Coroutine : where[d] = "join" /\ target[d] = c}

start(c, d) ==
    /\ current = c
    /\ d \notin starts /\ ~isRunning(d) /\ ~isFinished(d)
    /\ starts' = starts \cup {d}
    /\ UNCHANGED <<state, kills, timers, wakes, where, target, previous, current, crossed>>

\* callLater() of a KillCoroutineFunctor, one more for each kill().
ScheduleKill(d, e) ==
    \E n \in KillIds :
        /\ <<d, e, n>> \notin kills
        /\ kills' = kills \cup {<<d, e, n>>}

\* Mutant: kill() does not call the finished callbacks.
killInitialSilently(d, e) ==
    /\ state[d] = "Initialized"
    /\ \/ /\ e = "exit"
          /\ starts' = starts \ {d}
          /\ state' = [state EXCEPT ![d] = "Stopped"]
          /\ UNCHANGED <<kills, wakes>>
       \/ /\ e = "other"
          /\ starts' = starts \cup {d}
          /\ ScheduleKill(d, e)
          /\ UNCHANGED <<state, wakes>>

\* kill() of a coroutine that has not started: it will not, or it is started
\* for the exception.
killInitial(d, e) ==
    /\ state[d] = "Initialized"
    /\ \/ /\ e = "exit"
          /\ starts' = starts \ {d}
          /\ state' = [state EXCEPT ![d] = "Stopped"]
          /\ wakes' = wakes \cup Joiners(d)
          /\ UNCHANGED kills
       \/ /\ e = "other"
          /\ starts' = starts \cup {d}
          /\ ScheduleKill(d, e)
          /\ UNCHANGED <<state, wakes>>

\* Coroutine::kill(e).
kill(c, d, e) ==
    /\ current = c
    /\ crossed' = (crossed \/ InKill(d))
    /\ \/ killInitial(d, e)
       \/ /\ isRunning(d)
          /\ ScheduleKill(d, e)
          /\ UNCHANGED <<state, starts, wakes>>
    /\ UNCHANGED <<timers, where, target, previous, current>>

\* Coroutine::msleep().
msleep(c) ==
    /\ Suspend(c, "sleep", EventLoop)
    /\ timers' = timers \cup {c}
    /\ UNCHANGED <<state, starts, kills, wakes, previous, crossed>>

\* Coroutine::join() of a coroutine that has not finished.
join(c, d) ==
    /\ d # c
    /\ ~isFinished(d)
    /\ Suspend(c, "join", d)
    /\ UNCHANGED <<state, starts, kills, timers, wakes, previous, crossed>>

\* Mutant: setPrevious() also for a coroutine that does not run yet.
killJoinLoosely(c, d) ==
    /\ current = c
    /\ d # c
    /\ crossed' = (crossed \/ InKill(d) \/ KillPending(c) \/ KillPending(d))
    /\ previous' = [previous EXCEPT ![d] = c]
    /\ IF isRunning(d)
       THEN /\ where' = [where EXCEPT ![c] = "raise", ![d] = "run"]
            /\ target' = [target EXCEPT ![c] = d, ![d] = EventLoop]
            /\ timers' = timers \ {d}
            /\ wakes' = wakes \ {d}
            /\ current' = d
       ELSE UNCHANGED <<where, target, timers, wakes, current>>
    /\ UNCHANGED <<state, starts, kills>>

\* CoroutineGroup::kill() and killall() with join of a running coroutine: it
\* gets the exception at once, and gives the processor back when it finishes.
killJoin(c, d) ==
    /\ current = c
    /\ d # c
    /\ crossed' = (crossed \/ InKill(d) \/ KillPending(c) \/ KillPending(d))
    /\ isRunning(d)
    /\ previous' = [previous EXCEPT ![d] = c]
    /\ where' = [where EXCEPT ![c] = "raise", ![d] = "run"]
    /\ target' = [target EXCEPT ![c] = d, ![d] = EventLoop]
    /\ timers' = timers \ {d}
    /\ wakes' = wakes \ {d}
    /\ current' = d
    /\ UNCHANGED <<state, starts, kills>>

\* run() returns or throws: run_stub() sets the state, calls back and switches
\* to previous in cleanup().  A previous that is suspended in something else is
\* misled; one that has finished is refused by yield(), and run_stub() falls off
\* its end.  Nothing is said of what happens after that.
finish(c) ==
    LET p == previous[c] IN
    /\ current = c
    /\ state' = [state EXCEPT ![c] = "Stopped"]
    /\ \/ /\ p = EventLoop
          /\ current' = EventLoop
          /\ wakes' = wakes \cup Joiners(c)
          /\ UNCHANGED <<where, target, timers>>
       \/ /\ p # EventLoop
          /\ isRunning(p)
          /\ current' = IF where[p] = "raise" /\ target[p] = c THEN p ELSE "lost"
          /\ where' = [where EXCEPT ![p] = "run"]
          /\ target' = [target EXCEPT ![p] = EventLoop]
          /\ timers' = timers \ {p}
          /\ wakes' = (wakes \cup Joiners(c)) \ {p}
       \/ /\ p # EventLoop
          /\ ~isRunning(p)
          /\ current' = "lost"
          /\ wakes' = wakes \cup Joiners(c)
          /\ UNCHANGED <<where, target, timers>>
    /\ UNCHANGED <<starts, kills, previous, crossed>>
--------------------------------------------------------------------------------
\* Callbacks of the event loop.

startFires(d) ==
    /\ current = EventLoop
    /\ d \in starts
    /\ starts' = starts \ {d}
    /\ IF state[d] = "Initialized"
       THEN state' = [state EXCEPT ![d] = "Started"] /\ current' = d
       ELSE UNCHANGED <<state, current>>
    /\ UNCHANGED <<kills, timers, wakes, where, target, previous, crossed>>

\* Mutant: the functor does not look at the state it finds.
killFiresBlindly(d, e) ==
    /\ current = EventLoop
    /\ \E n \in KillIds : <<d, e, n>> \in kills /\ kills' = kills \ {<<d, e, n>>}
    /\ Resume(d)
    /\ UNCHANGED <<state, starts, previous, crossed>>

\* The exception is raised in the coroutine, unless it is not running.
killFires(d, e) ==
    /\ current = EventLoop
    /\ \E n \in KillIds : <<d, e, n>> \in kills /\ kills' = kills \ {<<d, e, n>>}
    /\ IF isRunning(d)
       THEN Resume(d)
       ELSE UNCHANGED <<timers, wakes, where, target, current>>
    /\ UNCHANGED <<state, starts, previous, crossed>>

timerFires(d) ==
    /\ current = EventLoop
    /\ d \in timers
    /\ Resume(d)
    /\ UNCHANGED <<state, starts, kills, previous, crossed>>

\* finishedEvent.tryWait() returns true and join() says so.
joinReturns(c) ==
    /\ current = EventLoop
    /\ c \in wakes
    /\ state' = [state EXCEPT ![target[c]] = "Joined"]
    /\ Resume(c)
    /\ UNCHANGED <<starts, kills, previous, crossed>>
--------------------------------------------------------------------------------
Run(c) ==
    \/ msleep(c)
    \/ finish(c)
    \/ \E d \in Coroutine :
          \/ start(c, d)
          \/ \E e \in Exceptions : kill(c, d, e)
          \/ join(c, d)
          \/ killJoin(c, d)

Callback(d) ==
    \/ startFires(d)
    \/ \E e \in Exceptions : killFires(d, e)
    \/ timerFires(d)
    \/ joinReturns(d)

CoroutineNext == \E c \in Coroutine : Run(c) \/ Callback(c)
CoroutineSpec == CoroutineInit /\ [][CoroutineNext]_coroutineVars
--------------------------------------------------------------------------------
CoroutineTypeOK ==
    /\ state \in [Coroutine -> {"Initialized", "Started", "Stopped", "Joined"}]
    /\ starts \subseteq Coroutine
    /\ kills \subseteq Coroutine \X Exceptions \X KillIds
    /\ timers \subseteq Coroutine
    /\ wakes \subseteq Coroutine
    /\ where \in [Coroutine -> {"run", "sleep", "join", "raise"}]
    /\ target \in [Coroutine -> Coroutine \cup {EventLoop}]
    /\ previous \in [Coroutine -> Coroutine \cup {EventLoop}]
    /\ current \in Coroutine \cup {EventLoop, "lost"}
    /\ crossed \in BOOLEAN

\* A coroutine that joins one that has finished is going to be woken up.
NoJoinerLeftBehind ==
    \A c \in Coroutine :
        where[c] = "join" /\ isFinished(target[c]) => c \in wakes

\* Nothing runs that was not started or has ended: whatever functors of start(),
\* kill(), msleep() and join() are still scheduled when a coroutine is killed
\* before its start or finishes, none of them resumes it, and nobody that has
\* ended counts as suspended in a call.
OnlyStartedRun ==
    /\ current \in Coroutine => isRunning(current)
    /\ \A c \in Coroutine : where[c] # "run" => isRunning(c)

\* A coroutine that ends switches to one that waits for that: msleep() or join()
\* are not ended by somebody else's end, and nobody who has finished is resumed.
PreviousIsWaiting == current # "lost"

\* As long as no two kills met, the end of a coroutine resumes only the
\* kill() with join that waits for it.
SwitchesAreSound == ~crossed => PreviousIsWaiting

\* docs/references.rst:334 on kill() with join: "the coroutine is joined".  A
\* coroutine that is suspended in raise() waits for one that has not finished;
\* nobody else would give it the processor back.
KilledIsJoined ==
    \A c \in Coroutine : where[c] = "raise" => ~isFinished(target[c])
================================================================================
