------------------------------ MODULE ThreadQueue ------------------------------
(***************************************************************************)
(* SizedQueueType with ThreadEvent and SharedReadWriteLock, that is        *)
(* ThreadQueue (include/qtng/locks.h).  Threads run concurrently: a call   *)
(* waits for its latch in one step and takes the write lock in another.  A *)
(* critical section is one step; what runs outside the lock is a step of   *)
(* its own.  A wait for a latch ends when the latch is set at a time the   *)
(* thread looks at it: module ThreadEvent shows that it will look.         *)
(***************************************************************************)
EXTENDS Integers, FiniteSets

CONSTANTS Caller,
          Capacity,   \* of the constructor; every element has size 1
          MaxForced   \* bound: putForcedly() is called on queues shorter than this

ASSUME ThreadQueueAssumption == Capacity \in Nat \ {0} /\ MaxForced \in Nat

VARIABLES currentSize,  \* the length of the queue; the elements do not matter
          m_closed,
          notEmpty,     \* the latches
          notFull,
          at            \* where each thread is

threadQueueVars == <<currentSize, m_closed, notEmpty, notFull, at>>

StepTo(t, label) == at' = [at EXCEPT ![t] = label]
Idle(t) == at[t] = "idle"

ThreadQueueInit ==
    /\ currentSize = 0
    /\ m_closed = FALSE
    /\ notEmpty = FALSE
    /\ notFull = TRUE
    /\ at = [t \in Caller |-> "idle"]

\* put(), returns() and get() wait for their latch.  A put() with a limit may
\* give up.
PutCall(t) ==
    /\ Idle(t)
    /\ StepTo(t, "waitNotFull")
    /\ UNCHANGED <<currentSize, m_closed, notEmpty, notFull>>

PutGivesUp(t) ==
    /\ at[t] = "waitNotFull"
    /\ StepTo(t, "idle")
    /\ UNCHANGED <<currentSize, m_closed, notEmpty, notFull>>

\* Mutant: put() does not wait.
SeesNotFullAlways(t) ==
    /\ at[t] = "waitNotFull"
    /\ StepTo(t, "insert")
    /\ UNCHANGED <<currentSize, m_closed, notEmpty, notFull>>

SeesNotFull(t) ==
    /\ at[t] = "waitNotFull"
    /\ notFull
    /\ StepTo(t, "insert")
    /\ UNCHANGED <<currentSize, m_closed, notEmpty, notFull>>

\* The critical section of put(), putForcedly(), returns() and returnsForcely():
\* it does not look at the capacity again before it adds.
Add(t) ==
    /\ StepTo(t, "idle")
    /\ IF m_closed
       THEN UNCHANGED <<currentSize, m_closed, notEmpty, notFull>>
       ELSE /\ currentSize' = currentSize + 1
            /\ notEmpty' = TRUE
            /\ notFull' = IF currentSize' >= Capacity THEN FALSE ELSE notFull
            /\ UNCHANGED m_closed

Insert(t) == at[t] = "insert" /\ Add(t)

PutForcedly(t) ==
    /\ Idle(t)
    /\ currentSize < MaxForced
    /\ Add(t)

GetCall(t) ==
    /\ Idle(t)
    /\ StepTo(t, "waitNotEmpty")
    /\ UNCHANGED <<currentSize, m_closed, notEmpty, notFull>>

SeesNotEmpty(t) ==
    /\ at[t] = "waitNotEmpty"
    /\ notEmpty
    /\ StepTo(t, "take")
    /\ UNCHANGED <<currentSize, m_closed, notEmpty, notFull>>

\* Mutant: get() clears the latch of a closed queue when it takes the last one.
TakeClears(t) ==
    /\ at[t] = "take"
    /\ currentSize > 0
    /\ currentSize' = currentSize - 1
    /\ notEmpty' = (currentSize' > 0)
    /\ notFull' = IF currentSize' < Capacity THEN TRUE ELSE notFull
    /\ StepTo(t, "idle")
    /\ UNCHANGED m_closed

\* Mutant: get() makes room and does not tell.
TakeSilently(t) ==
    /\ at[t] = "take"
    /\ currentSize > 0
    /\ currentSize' = currentSize - 1
    /\ notEmpty' = (currentSize' > 0 \/ m_closed)
    /\ StepTo(t, "idle")
    /\ UNCHANGED <<notFull, m_closed>>

\* The critical section of get(): another consumer may have been faster.
Take(t) ==
    /\ at[t] = "take"
    /\ currentSize > 0
    /\ currentSize' = currentSize - 1
    /\ notEmpty' = IF currentSize' = 0 /\ ~m_closed THEN FALSE ELSE notEmpty
    /\ notFull' = IF currentSize' < Capacity THEN TRUE ELSE notFull
    /\ StepTo(t, "idle")
    /\ UNCHANGED m_closed

\* A get() that lost the race clears the latch and waits again, unless the
\* queue is closed: then it returns T().
TakeNothing(t) ==
    /\ at[t] = "take"
    /\ currentSize = 0
    /\ IF m_closed
       THEN StepTo(t, "idle") /\ UNCHANGED notEmpty
       ELSE StepTo(t, "waitNotEmpty") /\ notEmpty' = FALSE
    /\ UNCHANGED <<currentSize, m_closed, notFull>>

clear(t) ==
    /\ Idle(t)
    /\ currentSize' = 0
    /\ notFull' = TRUE
    /\ notEmpty' = IF m_closed THEN notEmpty ELSE FALSE
    /\ UNCHANGED <<m_closed, at>>

\* remove() of the n elements that are equal to its argument.
remove(t, n) ==
    /\ Idle(t)
    /\ n <= currentSize
    /\ currentSize' = currentSize - n
    /\ notEmpty' = IF currentSize' > 0 THEN TRUE ELSE m_closed /\ notEmpty
    /\ notFull' = (currentSize' < Capacity \/ m_closed)
    /\ UNCHANGED <<m_closed, at>>

notifyNotEmpty(t) ==
    /\ Idle(t)
    /\ notEmpty' = TRUE
    /\ UNCHANGED <<currentSize, m_closed, notFull, at>>

\* close(): m_closed under the lock, the two latches after it.
CloseCall(t) ==
    /\ Idle(t)
    /\ m_closed' = TRUE
    /\ StepTo(t, "closeNotEmpty")
    /\ UNCHANGED <<currentSize, notEmpty, notFull>>

CloseNotEmpty(t) ==
    /\ at[t] = "closeNotEmpty"
    /\ notEmpty' = TRUE
    /\ StepTo(t, "closeNotFull")
    /\ UNCHANGED <<currentSize, m_closed, notFull>>

\* Mutant: close() leaves the producers blocked.
CloseNotFullForgets(t) ==
    /\ at[t] = "closeNotFull"
    /\ StepTo(t, "idle")
    /\ UNCHANGED <<currentSize, m_closed, notEmpty, notFull>>

CloseNotFull(t) ==
    /\ at[t] = "closeNotFull"
    /\ notFull' = TRUE
    /\ StepTo(t, "idle")
    /\ UNCHANGED <<currentSize, m_closed, notEmpty>>

\* What a thread does once it is in a call.
CallGoesOn(t) ==
    \/ SeesNotFull(t)
    \/ Insert(t)
    \/ SeesNotEmpty(t)
    \/ Take(t)
    \/ TakeNothing(t)
    \/ CloseNotEmpty(t)
    \/ CloseNotFull(t)

ThreadQueueNext ==
    \E t \in Caller :
        \/ PutCall(t)
        \/ PutGivesUp(t)
        \/ PutForcedly(t)
        \/ GetCall(t)
        \/ clear(t)
        \/ \E n \in 1..currentSize : remove(t, n)
        \/ notifyNotEmpty(t)
        \/ CloseCall(t)
        \/ CallGoesOn(t)

ThreadQueueSpec == ThreadQueueInit /\ [][ThreadQueueNext]_threadQueueVars
--------------------------------------------------------------------------------
ThreadQueueTypeOK ==
    /\ currentSize \in Nat
    /\ m_closed \in BOOLEAN
    /\ notEmpty \in BOOLEAN
    /\ notFull \in BOOLEAN
    /\ at \in [Caller -> {"idle", "waitNotFull", "insert", "waitNotEmpty", "take",
                          "closeNotEmpty", "closeNotFull"}]

\* "Only ever cleared while the write lock is held and the queue is really
\* empty" (include/qtng/locks.h:410): between critical sections the latches of
\* an open queue tell the truth, whatever the threads saw before they locked.
LatchesTell ==
    /\ currentSize > 0 => notEmpty
    /\ ~m_closed => (notFull <=> currentSize < Capacity)

\* "While closed both latches stay set" (include/qtng/locks.h), from the moment
\* close() has set them.
ClosedKeepsLatches ==
    m_closed => \/ \E t \in Caller : at[t] \in {"closeNotEmpty", "closeNotFull"}
                \/ notEmpty /\ notFull

\* Threads that saw room before one of them took it may all add: the capacity,
\* and what putForcedly() added beyond it, is passed by less than one element
\* for each thread.
Overshoot == IF MaxForced >= Capacity THEN MaxForced + Cardinality(Caller) - 1
                                      ELSE Capacity + Cardinality(Caller) - 1
Inserting == {t \in Caller : at[t] = "insert"}
OvershootIsBounded ==
    /\ currentSize <= Overshoot
    /\ ~m_closed => currentSize + Cardinality(Inserting) <= Overshoot

\* Threads are scheduled.
ThreadQueueFairness == \A t \in Caller : WF_threadQueueVars(CallGoesOn(t))
ThreadQueueFairSpec == ThreadQueueSpec /\ ThreadQueueFairness

\* close() ends every call of every thread.
CloseEndsCalls == \A t \in Caller : m_closed /\ ~Idle(t) ~> Idle(t)
================================================================================
