------------------------------ MODULE ThreadPool -------------------------------
(***************************************************************************)
(* ThreadPool (src/coroutine_utils.cpp): coroutines hand tasks to worker   *)
(* threads.  A Semaphore bounds the tasks under way; a worker tells the    *)
(* loop that submitted its task, by callLaterThreadSafe(), to recycle the  *)
(* worker and to set the task's event.  The pool that spawnInThread() and  *)
(* callInThread() use is never destroyed, so ~ThreadPool is left out.      *)
(*                                                                         *)
(* Semaphore is module Semaphore's, with its notify functor: it runs in    *)
(* the loop of the thread that released.                                   *)
(***************************************************************************)
EXTENDS Naturals, Sequences, FiniteSets

CONSTANTS Task,
          Loop,        \* event loops, one for each thread that uses the pool
          LoopOf,      \* the loop each task is submitted from
          Threads,     \* units of the semaphore
          Worker,      \* names for the worker threads
          None,
          MayEnd       \* may a loop end while its tasks are under way?

ASSUME ThreadPoolAssumption ==
    /\ LoopOf \in [Task -> Loop]
    /\ Threads \in Nat \ {0}
    /\ None \notin Task \cup Loop \cup Worker
    /\ MayEnd \in BOOLEAN

VARIABLES counter,   \* of the semaphore
          waiters,   \* tasks whose submit() waits for a unit
          notify,    \* the loop that has the semaphore's notify functor
          workers,   \* WorkThreads that were started
          idle,      \* vector of those without a task
          queue,     \* what each worker has been given
          running,   \* the task whose makeResult() a worker runs
          exited,    \* workers whose run() has returned
          functors,  \* posted to the loops: pairs of "recycle" or "done" and a task
          alive,     \* loops that exist
          by,        \* the worker each task was given to
          stage      \* of each task

vars == <<counter, waiters, notify, workers, idle, queue, running, exited,
          functors, alive, by, stage>>

Init ==
    /\ counter = Threads
    /\ waiters = <<>>
    /\ notify = None
    /\ workers = {}
    /\ idle = <<>>
    /\ queue = [w \in Worker |-> <<>>]
    /\ running = [w \in Worker |-> None]
    /\ exited = {}
    /\ functors = {}
    /\ alive = Loop
    /\ by = [t \in Task |-> None]
    /\ stage = [t \in Task |-> "new"]
--------------------------------------------------------------------------------
\* submit() has a unit: it takes an idle worker, or else starts one, and
\* enqueue() gives it the task.
Enqueue(t) ==
    \E w \in Worker :
        /\ \/ /\ idle # <<>>
              /\ w = Head(idle)
              /\ idle' = Tail(idle)
              /\ UNCHANGED workers
           \/ /\ idle = <<>>
              /\ w \notin workers
              /\ workers' = workers \cup {w}
              /\ UNCHANGED idle
        /\ queue' = [queue EXCEPT ![w] = Append(@, t)]
        /\ by' = [by EXCEPT ![t] = w]
        /\ stage' = [stage EXCEPT ![t] = "queued"]

\* submit() finds a free unit...
Submit(t) ==
    /\ stage[t] = "new"
    /\ LoopOf[t] \in alive
    /\ counter > 0
    /\ counter' = counter - 1
    /\ Enqueue(t)
    /\ UNCHANGED <<waiters, notify, running, exited, functors, alive>>

\* ... or waits.
SubmitWaits(t) ==
    /\ stage[t] = "new"
    /\ LoopOf[t] \in alive
    /\ counter = 0
    /\ waiters' = Append(waiters, t)
    /\ stage' = [stage EXCEPT ![t] = "waiting"]
    /\ UNCHANGED <<counter, notify, workers, idle, queue, running, exited, functors, alive, by>>

\* An exception is raised in a coroutine whose submit() waits: tryAcquire()
\* takes it off the semaphore's list, and nothing is submitted.
SubmitThrows(t) ==
    \E i \in DOMAIN waiters :
        /\ waiters[i] = t
        /\ LoopOf[t] \in alive
        /\ waiters' = [j \in 1..(Len(waiters) - 1) |-> waiters[IF j < i THEN j ELSE j + 1]]
        /\ stage' = [stage EXCEPT ![t] = "killed"]
        /\ UNCHANGED <<counter, notify, workers, idle, queue, running, exited, functors, alive, by>>

\* The notify functor wakes the first waiter, whose submit() goes on in the
\* thread of the functor.
Wake ==
    /\ notify \in alive
    /\ counter > 0
    /\ waiters # <<>>
    /\ counter' = counter - 1
    /\ waiters' = Tail(waiters)
    /\ Enqueue(Head(waiters))
    /\ UNCHANGED <<notify, running, exited, functors, alive>>

NotifyEnds ==
    /\ notify \in alive
    /\ counter = 0 \/ waiters = <<>>
    /\ notify' = None
    /\ UNCHANGED <<counter, waiters, workers, idle, queue, running, exited, functors, alive, by, stage>>
--------------------------------------------------------------------------------
\* weak_ptr::lock() of a task's loop: a worker that runs a task of the loop
\* keeps the object, if not the thread, alive.
LoopIsThere(t) ==
    \/ LoopOf[t] \in alive
    \/ \E w \in Worker : running[w] # None /\ LoopOf[running[w]] = LoopOf[t]

\* Mutant: the worker recycles itself before the task is run.
TakeItemRecyclesEarly(w) ==
    /\ queue[w] # <<>>
    /\ running[w] = None
    /\ w \notin exited
    /\ LET t == Head(queue[w])
       IN  /\ queue' = [queue EXCEPT ![w] = Tail(@)]
           /\ running' = [running EXCEPT ![w] = t]
           /\ stage' = [stage EXCEPT ![t] = "running"]
           /\ functors' = functors \cup {<<"recycle", t>>}
    /\ UNCHANGED <<counter, waiters, notify, workers, idle, exited, alive, by>>

\* WorkThread::run() takes the next item and looks for the loop...
TakeItem(w) ==
    /\ queue[w] # <<>>
    /\ running[w] = None
    /\ w \notin exited
    /\ LET t == Head(queue[w])
       IN  /\ queue' = [queue EXCEPT ![w] = Tail(@)]
           /\ IF LoopIsThere(t)
              THEN /\ running' = [running EXCEPT ![w] = t]
                   /\ stage' = [stage EXCEPT ![t] = "running"]
                   /\ UNCHANGED exited
              ELSE /\ exited' = exited \cup {w}
                   /\ stage' = [stage EXCEPT ![t] = "dropped"]
                   /\ UNCHANGED running
    /\ UNCHANGED <<counter, waiters, notify, workers, idle, functors, alive, by>>

\* Mutant: a task that throws is not reported.
FinishItemThrows(w) ==
    /\ running[w] # None
    /\ running' = [running EXCEPT ![w] = None]
    /\ \/ functors' = functors \cup {<<"recycle", running[w]>>, <<"done", running[w]>>}
       \/ functors' = functors \cup {<<"recycle", running[w]>>}
    /\ UNCHANGED <<counter, waiters, notify, workers, idle, queue, exited, alive, by, stage>>

\* ... runs makeResult(), which may throw, and posts both functors.
FinishItem(w) ==
    /\ running[w] # None
    /\ running' = [running EXCEPT ![w] = None]
    /\ functors' = functors \cup {<<"recycle", running[w]>>, <<"done", running[w]>>}
    /\ UNCHANGED <<counter, waiters, notify, workers, idle, queue, exited, alive, by, stage>>

\* Mutant: onLoopFinished() forgets the unit.
RecycleKeepsUnit(t) ==
    /\ <<"recycle", t>> \in functors
    /\ LoopOf[t] \in alive
    /\ functors' = functors \ {<<"recycle", t>>}
    /\ idle' = Append(idle, by[t])
    /\ UNCHANGED <<counter, waiters, notify, workers, queue, running, exited, alive, by, stage>>

\* onLoopFinished() in the loop of the task: sem->release(), and the worker is
\* idle again.
Recycle(t) ==
    /\ <<"recycle", t>> \in functors
    /\ LoopOf[t] \in alive
    /\ functors' = functors \ {<<"recycle", t>>}
    /\ counter' = IF counter < Threads THEN counter + 1 ELSE Threads
    /\ notify' = IF notify = None /\ waiters # <<>> THEN LoopOf[t] ELSE notify
    /\ idle' = Append(idle, by[t])
    /\ UNCHANGED <<waiters, workers, queue, running, exited, alive, by, stage>>

\* MarkDoneFunctor: the event that spawn() returned and call() waits for.
MarkDone(t) ==
    /\ <<"done", t>> \in functors
    /\ LoopOf[t] \in alive
    /\ functors' = functors \ {<<"done", t>>}
    /\ stage' = [stage EXCEPT ![t] = "done"]
    /\ UNCHANGED <<counter, waiters, notify, workers, idle, queue, running, exited, alive, by>>

\* The thread of a loop ends, with its coroutines and its functors.
LoopEnds(l) ==
    /\ MayEnd
    /\ l \in alive
    /\ alive' = alive \ {l}
    /\ UNCHANGED <<counter, waiters, notify, workers, idle, queue, running, exited, functors, by, stage>>

Next ==
    \/ \E t \in Task : Submit(t) \/ SubmitWaits(t) \/ SubmitThrows(t) \/ Recycle(t) \/ MarkDone(t)
    \/ Wake
    \/ NotifyEnds
    \/ \E w \in Worker : TakeItem(w) \/ FinishItem(w)
    \/ \E l \in Loop : LoopEnds(l)

Spec == Init /\ [][Next]_vars
--------------------------------------------------------------------------------
Stages == {"new", "waiting", "killed", "queued", "running", "dropped", "done"}

TypeOK ==
    /\ counter \in 0..Threads
    /\ waiters \in Seq(Task)
    /\ notify \in Loop \cup {None}
    /\ workers \subseteq Worker
    /\ idle \in Seq(Worker)
    /\ queue \in [Worker -> Seq(Task)]
    /\ running \in [Worker -> Task \cup {None}]
    /\ exited \subseteq Worker
    /\ functors \subseteq {"recycle", "done"} \X Task
    /\ alive \subseteq Loop
    /\ by \in [Task -> Worker \cup {None}]
    /\ stage \in [Task -> Stages]

InIdle(w) == \E i \in DOMAIN idle : idle[i] = w

\* A worker is offered for a new task only when it is done with the last one,
\* exists, and is offered once: no task waits behind another's.
IdleIsFree ==
    /\ \A w \in Worker : InIdle(w) =>
          w \in workers \ exited /\ queue[w] = <<>> /\ running[w] = None
    /\ \A i, j \in DOMAIN idle : idle[i] = idle[j] => i = j
    /\ \A w \in Worker : Len(queue[w]) + (IF running[w] = None THEN 0 ELSE 1) <= 1

\* Tasks that are with a worker or whose recycle functor has yet to run.
UnderWay ==
    {t \in Task : \/ stage[t] = "queued"
                  \/ \E w \in Worker : running[w] = t
                  \/ <<"recycle", t>> \in functors /\ LoopOf[t] \in alive}

\* "Dropping onLoopFinished is safe because workers still owns *this." (src/
\* coroutine_utils.cpp:512): every unit that no task has is free.
UnitsComeBack == counter + Cardinality(UnderWay) = Threads

\* That is so as long as the loops that submitted the tasks are there.
UnitsConserved == alive = Loop => UnitsComeBack

\* Threads are scheduled and the loops run what is posted.
Fairness ==
    /\ \A w \in Worker : WF_vars(TakeItem(w)) /\ WF_vars(FinishItem(w))
    /\ \A t \in Task : WF_vars(Recycle(t)) /\ WF_vars(MarkDone(t))
    /\ WF_vars(Wake) /\ WF_vars(NotifyEnds)
FairSpec == Spec /\ Fairness

\* Every task that was submitted is run and reported, one that throws too,
\* unless its submit() was killed before it had a unit or the loop it is to be
\* reported to has gone.
TasksAreDone ==
    \A t \in Task :
        stage[t] # "new" ~> stage[t] \in {"done", "killed"} \/ LoopOf[t] \notin alive
================================================================================
