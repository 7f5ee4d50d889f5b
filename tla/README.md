# qtng: TLA+ models, checks and proofs

qtng is a network toolkit built on stackful coroutines.  Everything in it (sockets, HTTP, KCP, MQTT,
SSH, the rpc layer) blocks in one of a few primitives: `Semaphore`/`Lock`, `Condition`, `Event`,
`Queue`, their variants for threads, `Coroutine::join()`/`kill()` and `ThreadPool`.  This project models
those primitives from their source, and on top of them three of the protocols: the MQTT client, the streams
of `MultiStream` and uTP.  It model-checks them on small instances with TLC and proves all their safety properties for
any number of coroutines, threads, calls and packets with TLAPS.  Paths below are relative to the
repository (`src/locks.cpp`, `include/qtng/locks.h`, ...).

`PROJECT.json` lists the components, the runs, the source lines behind every definition, the hazards the
properties are for, the mutants that show that each property can fail, and the theorems.

To check it:

    tlc -config MCQueue.cfg MCQueue         # one run
    tlapm SemaphoreProofs.tla               # one module of proofs

## 1. Inventory

### How the parts interact

All coroutines of a thread share one `EventLoopCoroutine` (`src/eventloop.cpp`, `src/eventloop_ev.cpp`).
Coroutines are cooperative: a coroutine runs until it calls `yield()`, almost always back to the loop.
Whatever is to happen later is a *functor* scheduled on the loop with `callLater()`; it runs in the
loop coroutine and may switch to another coroutine (`YieldCurrentFunctor`, `StartCoroutineFunctor`,
`KillCoroutineFunctor`, `SemaphoreNotifyWaitersFunctor`).  Other threads reach a loop with
`callLaterThreadSafe()`.  An exception is delivered with `raise()`: the coroutine is resumed and
throws from wherever it was suspended.  So three things may end any wait — the wake-up it waits
for, its timer, and an exception — and they may be scheduled at the same time in any order.  That is
what makes this code hard to test, and what most of the properties are about.

The primitives are layers: `Lock` is a `Semaphore` of one unit; `Condition::wait()` makes a `Lock`,
takes it and tries to take it again; `Event` is a flag and a `Condition`; `Queue` is a deque and two
`Event`s used as latches; `Coroutine::join()` waits for an `Event`; `ThreadPool` bounds its tasks with a
`Semaphore` and reports them with an `Event`.  `ThreadEvent` replaces `Event` between threads and makes
`Queue` a `ThreadQueue`.

The protocols are built alike.  A client or master has one coroutine that reads the connection, one that
writes it and one that watches the time; application coroutines hand packets to the writer through a bounded
`Queue` and wait for a `ValueEvent` that the reader, the writer or the abort of the connection completes.
What is hard is the abort: it may come while any of them is blocked in any of these places, and each of them
has to be told.

### Components, their state and what makes them correct

| component | state | operations | hard part | correct when |
|---|---|---|---|---|
| Semaphore, Lock (`locks.cpp`) | `counter`, `init_value`, `waiters`, `notified` (id of the functor) | constructor, `acquire` of several units with a limit, `release`, notify functor, destructor | a wait is satisfied in parts; timer, functor and exception race | no wake-up, unit or timer is lost; a Lock excludes |
| Condition (`locks.cpp`) | `waiters` (Locks) | `wait`, `notify(n)`, `notifyAll` | the Lock is released before its owner runs | the list is exactly the blocked waits; a notification wakes somebody |
| Event (`locks.cpp`), `waitAnyEvent` (`locks.h`) | `flag`, `condition`, `linkTo`, `linkFrom` | `set`, `clear`, `wait`, `link`, `unlink` | `clear` between `set` and the wake-up; cyclic links | nobody sleeps through a set event; true means set; `set` reaches every link and ends |
| Queue, SizedQueue (`locks.h`) | `queue`, `currentSize`, `mCapacity`, `m_closed`, latches `notEmpty`, `notFull` | `put`, `returns`, `get`, forced variants, `waitNotEmpty`, `clear`, `remove`, `setCapacity`, `close`, `notifyNotEmpty` | a latch that is wrong for one moment is a sleeper for ever; sizes of 0 | a bounded FIFO; close ends every call |
| ThreadEvent (`locks.cpp`) | `flag`, `count`, `holds`, `mutex`, `ref` | `wait`, `set`, `clear`, `notify` | the flag is not under the mutex | no wake-up is lost |
| ThreadQueue (`locks.h`) | as Queue, with a read-write lock | as Queue | a latch is seen before the lock is taken | latches are true between critical sections |
| Coroutine (`eventloop.cpp`, `coroutine_fcontext.cpp`) | `state`, `callbackId`, `previous`, `finishedEvent` | `start`, `kill`, `join`, `msleep`, end of `run` | functors that find another state than the one they were made in | only what was started runs, joiners are woken, the end switches to who waits |
| CoroutineGroup (`coroutine_utils.cpp`) | set of coroutines | `kill`, `killall`, `joinall`, `spawn` | killing with `raise()` and `setPrevious()` | the killer gets the processor back |
| ThreadPool (`coroutine_utils.cpp`) | `idle`, `workers`, `semaphore`, `alive`; a worker's queue | `call`, `spawn`, `submit`, worker `run` | recycling runs in another thread than the task | an idle worker is free, tasks are reported, units return |
| RLock, Gate, ValueEvent | owner and depth; a Lock; a value and an Event | | state saved over a wait | planned |
| event loop | functors, watchers | `callLater`, `cancelCall`, `callLaterThreadSafe` | cancelling a functor that runs | planned |
| MQTT client (`mqtt.cpp`) | packet ids, maps of waiters by answer, `incomingQos2`, `sendingQueue`, `receivingQueue`, `awaitingPingResp` | `publish`, `subscribe`, `unsubscribe`, `recv`, `disconnect`, `abort`; `doSend`, `doReceive`, `doKeepalive` | repeated packets, silence or failure of the broker while calls wait | acknowledged messages are delivered, QoS 2 once; every call gets its answer |
| MultiStream (`multi_stream.cpp`) | a slave's `sendCredit`, `windowUpdatePending`, queues, `closing`, `error`; the master's `commandQueue` | `sendPacket`, `recvPacket`, `close`, `abort`, `setReceivingCapacity`; `doSend`, `doReceive` | credit, close barriers and resets cross | credit is conserved, close loses nothing, everybody is told |
| uTP (`utp.cpp`) | `seqNr`, `ackNr`, `sendQueue`, `outOfOrder`, `state` | `connect`, `send`, `close`, `handleDatagram`, `doUpdate` | loss, duplication, reordering, wrap-around | a reliable byte stream |
| protocols: DataChannel, KCP, QUIC, WebSocket, HTTP pool, rpc | windows, sequence numbers, sessions | | lost and reordered packets, reconnects | planned |

The rest (sockets, TLS and ciphers, encoders, LMDB, the Qt binding, the Windows loop, vendored libraries)
is listed in `PROJECT.json` with the reason why it is not modelled.

## 2. Modules

A *step* is what the code does between two points where somebody else may run.  For coroutines of
one thread these points are the switches, so a call that does not block is one action, and a call that
blocks is one action up to the switch and one for each way the wait can end.  For threads a step is one
critical section or one access to an atomic.  Names of variables and operators follow the source; a
variable marked *(history)* does not exist in the code and no guard reads it.

**Semaphore** (`SemaphorePrivate`).  `AcquireNow`, `AcquireWait`, `Release` are the client's calls;
`NotifyStart`, `WakeAll`, `WakePartly`, `NotifyEnd` are the notify functor, which stays inside its own loop
(`notifying`) while it gives the processor to one waiter after another; the waiter that is woken runs on
until it blocks, so it may release or acquire again before the functor goes on.  `TimeoutFires` and
`KillFires` are the other two ways out.  `Destroy` is `~Semaphore` with `scheduleDelete()`.  `Resume`,
`Block` and `Finish` stand for everything else a coroutine does.  `held` is the clients' discipline, not the
code's: what is released was acquired before, though perhaps by another coroutine, as `Condition::notify()` does
with the Lock of the coroutine it wakes, and a coroutine holds nothing when it finishes.

**Condition**.  One action for `notify(n)`, `WaitBlock`, and `WaitSucceeds`, `WaitTimesOut`, `WaitThrows` for the ends.  The
`Lock` of a wait is reduced to what module Semaphore shows of it: released, its functor is due.

**EventOps**, **Event**.  `EventOps` holds what `set`, `clear`, and the two ends of a wait do to an event's
fields, as operators, so that `Event` and `Queue` share them.  `Event` adds links, `waitAnyEvent` and the loop of
`EventPrivate::wait()`.  `EventPrivate::set()` calls itself for every event in `linkTo`.  Each of these calls is a step:
`Set` is the outermost one, `SetNext` the loop of the innermost coming to the next event, `SetReturn` its end, and
`Enter` what they have in common, the test of the flag, the flag, `notifyAll()`.  `stack` holds the frames of the calls,
`reached` *(history)* the events the outermost call has turned on.  Nothing else runs while a `set()` is under way (`Idle`).
The event that `waitAnyEvent` keeps on its stack bears the name of its coroutine; `LinksLeft` is its destructor.

**QueueSpec**, **Queue**.  `QueueSpec` is what the comments of `SizedQueueType` promise: a FIFO in which a
call completes at once or is pending and completes when the contents allow it.  It has no events, timers
or functors.  `Queue` is `SizedQueueType` with `Event`.  `Wake` is the rest of a blocked call once its
event's Condition was notified: the flag is tested again, then the body of `put`, `returns`, `get` or
`waitNotEmpty` runs.  `RefinesQueueSpec` says that `Queue` implements `QueueSpec`.

**ThreadEvent**.  Plain threads sleep on the `std::condition_variable` (`LockPlain`, `CheckPlain`, `Sleep`,
`Relock`, with spurious wake-ups); coroutines register their loop in `holds` and park on a Condition of that
loop (`LockLooped`, `CheckLooped`, `Park`).  `set()` is three steps: the exchange of the flag, the loop over
`holds` under the mutex, and `notify_all()` after it.

**ThreadQueue**.  Every call waits for its latch in one step and takes the write lock in another.  Elements
have size 1 and are only counted.  `close()` is three steps: `m_closed` under the lock, then each latch.

**Coroutine**.  `current` runs.  `start`, `kill`, `join`, `msleep`, `killJoin` (the kill of `CoroutineGroup`
with `join`) and `finish` are its calls; `startFires`, `killFires`, `timerFires`, `joinReturns` the loop's
functors.  `finish` is `run_stub()` with `cleanup()`: the switch to `previous`.  After a switch to a
coroutine that does not wait for it `current` is `"lost"` and nothing more is said.  `crossed` is history:
two kills met.  Each `kill()` schedules a functor of its own; `KillIds` tells those for the same coroutine apart and bounds them.

**ThreadPool**.  `Submit`, `SubmitWaits`, `SubmitThrows` (killed while it waits for a unit) and `Wake` are `submit()`; `TakeItem`, `FinishItem` a worker's `run()`;
`Recycle` (`onLoopFinished`) and `MarkDone` the functors it posts to the loop of the task; `LoopEnds` the end
of a submitting thread.

**Mqtt**.  A coroutine blocks in `sendingQueue.put()` (`putting`), `sendall()` (`tx`), `receivingQueue.put()`
(`rx`), `done->tryWait()` or `recv()`; each has one action up to the block and one after it.  A packet is its
type, its id and the call it belongs to.  `waiters` is the union of the maps `waitPubAck`, `waitPubRec`,
`waitPubComp`, `waitSubAck`, `waitUnsubAck`, each entry marked with the answer it waits for.  The ids wrap at
`MaxId`.  The broker (external) takes packets and answers, publishes messages of any quality of service, sends
again what is not acknowledged, and may fall silent, send nonsense or hang up.  `quiet` counts ticks since the last packet
that was sent, so that `doKeepalive()` pings and gives up; with `KeepAlive = 0` there is no `doKeepalive()`.

**MultiStream**.  One stream, with a slave at each end.  Application coroutines block for credit, for room in
`sendingQueue`, for `done`, or in `receivingQueue.get()`.  `FillBatch` and `WriteFrame` are `doSend()`: commands
first, then the stream's packets, the barrier of `close()` turned into a RESET at the end of the batch; what is in
`tx` is in `sendall()`.  A frame that arrives is one action for each type (`OnData`, `OnMake`, `OnMade`, `OnReset`,
`OnWindow`).  The connection is reliable and ordered and holds `WireCap` frames in each direction.  `got` and
`queued` are history.

**ByteStream**, **Utp**.  `ByteStream` is one direction of a reliable stream: `received` is a prefix of `sent`
and grows.  `Utp` is a client, the slave that a listening master makes for it, and a set of datagrams.  A
datagram may be handled in any order, never (that is loss), or again when its type is in `Dups`.  Sequence
numbers are modulo `SeqMod` and compared by `SeqDiff`, the signed distance.  `OnSyn`, `OnSynAck`, `OnState`,
`OnData` are `handleDatagram()`, `OnSyn` with `pumpDatagram()`, which makes the slave (`NewSlave`) or gives a SYN that comes again to
it (`SynAtSlave`); `Retransmit` is `flushOutgoing()` with the limit on `transmitCount`.  `sent`,
`received` and `heard` are history.

**MC...** modules extend these and add what TLC needs: symmetry sets, the functions a cfg names and, in `MCMqtt`, the
constraint `Bound`.

## 3. Runs

Liveness and safety of a module are checked in one run where its state space allows it; such a run uses
`FairSpec` and no symmetry, which is not sound for liveness.

| run | instance | distinct states | what it shows |
|---|---|---|---|
| `semaphore` | 3 coroutines, 2 units, 1 or 2 asked for, destructor allowed | 324,296 | `WaitersListedOnce` (the assertion `found`), `NoLostWakeup`, `UnitsConserved`, `FreeUnitIsTaken` |
| `condition` | 3 coroutines, `notify(1)`, `notify(2)`, `notifyAll` | 624 | `ListIsExact` |
| `event` | 2 coroutines, 2 events, any links | 90,022 | `SetsAnEventOnce`, `SetReachesLinks`, `WaitAnyIsTold`, `TrueMeansSet`, `WaitEnds` |
| `queue` | 3 coroutines, sizes 0 and 2, capacities 1 and 3 | 35,494 | `LatchesTell`, `RefinesQueueSpec`, `CloseEndsCalls`, `ElementIsTaken` |
| `thread_event` | 2 plain threads, 1 loop with 2 coroutines | 19,307 | `NoLostWakeup`, `WaitEnds` |
| `thread_queue` | 3 threads, capacity 2 | 3,747 | `LatchesTell`, `ClosedKeepsLatches`, `OvershootIsBounded`, `CloseEndsCalls` |
| `coroutine` | 3 coroutines, 2 pending kills of each kind | 2,624,649 (up to symmetry) | `NoJoinerLeftBehind`, `SwitchesAreSound`, `OnlyStartedRun` |
| `thread_pool` | 4 tasks of one loop, 2 units, 3 names for workers | 234,062 | `IdleIsFree`, `UnitsConserved`, `TasksAreDone` |
| `mqtt` | 1 to 3 calls, 1 receiver, 1 inbound message of any QoS; queues and connection of one packet | 255,102 | `Delivery`, `TrueMeansTaken`, `NobodyWaitsUnseen`, `ReceiverIsTold`, `AcknowledgedCallsEnd` |
| `multi_stream` | 1 writer and 1 reader, packets of 1 and 2, capacity 2 that may grow to 3 | 236,270 | `CreditConserved`, `ReceiveNeverBlocks`, `CloseDeliversAll`, `ReceiversAreTold`, `SendersGetOn`, `CloseEnds` |
| `utp` | both ends send 2 packets, 8 sequence numbers, 3 initial ones | 307,669 | `OnlyReceivedLeave`, `ReliableStream`, `TransfersEnd` |
| `utp_ack` | the client sends, one initial number | violation | `AckedPacketsLeave`: section 5 |

What the properties of the protocols say:

* `mqtt`: a message the client acknowledges has been put into `receivingQueue` before, a QoS 2 message at most
  once however often the broker repeats it (`Delivery`).  A call is told true only when its packet was written
  (QoS 0) or taken by the broker (`TrueMeansTaken`).  Whoever waits for an acknowledgement is in one of the maps
  until it is told, and a closed client has none left (`NobodyWaitsUnseen`); so such a call ends even when the
  broker falls silent (`AcknowledgedCallsEnd`), if there is a keepalive and unless a full `sendingQueue` holds `doKeepalive()` itself
  or a `disconnect()` that has already changed the state, after which `doKeepalive()` returns (section 5).
  A receiver that sleeps when the client closes finds the empty message (`ReceiverIsTold`).
* `multi_stream`: the sender's credit, the data under way and in the receiver's queue, the credit owed and the
  credit on its way back always add up to the receiver's capacity (`CreditConserved`), so `doReceive()` never
  blocks in a stream whose application does not read (`ReceiveNeverBlocks`).  When the RESET of a `close()` ends
  the peer's slave, everything queued before the close can be read, in order (`CloseDeliversAll`).
  Readers, senders that wait for credit, and `close()` get an answer (`ReceiversAreTold`, `SendersGetOn`, `CloseEnds`).
* `utp`: under `Prompt` and `~ServerFirst` each direction implements `ByteStream` (`ReliableStream`); a packet leaves `sendQueue` only when the peer
  has it (`OnlyReceivedLeave`); nothing is sent again for ever (`TransfersEnd`).

**Bounds.**  Three coroutines are one that holds, one that waits and one that interferes; with two units
and requests of two a wait can be satisfied in two parts with a third coroutine between them.  Two events
besides the local one of each `waitAnyEvent` give chains and cycles of links.  The invariants and action properties were also checked once with
three events, which adds diamonds, and one coroutine (356,618 states up to symmetry) or two (7.9 million).  `KillIds` allows two pending kills of one coroutine with the same exception, one more than a set would tell apart.  A size of 2 at capacities
1 and 3 passes the capacity by one element, reaches it exactly never, and leaves room for one; a size of 0
makes a queue non-empty and not fuller.  `MaxLength` (Queue), `MaxForced` (ThreadQueue), `MaxNotify`
(Condition) and `MaxAcquire` (Semaphore) bound the inputs.  In the pool there is one task more than the units
can hold twice, so that a worker is used again, and one name of a worker more than may be used.

`mqtt`: with queues and connection of one packet every `put()` and every `sendall()` can block; `MaxInputs` bounds what comes from
outside (calls, messages, repetitions, failures) at four in one behaviour.  All combinations of four are too many for liveness, so
the constraint `Bound` of `MCMqtt` keeps four families: one call of any kind (QoS 0, QoS 2, subscribe, refused,
disconnect, abort) with any failure; one message of any QoS with two of a call, repetitions and a failure; two calls of QoS 2 or
`disconnect()` before a broker that may fall silent; and a `publish()`, a `publishAsync()` and a `disconnect()`, which fill `sendall()`,
`sendingQueue` and `put()` behind a PINGREQ that is not answered.  The last one is the case of the second exception in
`AcknowledgedCallsEnd`: without that exception TLC finds the property violated in this run.  `Bound` cuts a behaviour off only at an input, of which
no fairness is assumed, so every behaviour that stays within it is judged with all its fair steps.  It also looks only at behaviours that
make the calls in one order: they differ in nothing but their names, so the others are renamings (a `SYMMETRY` would not be
sound for liveness).  Larger instances were checked once: the invariants for two calls of any kind beside a message, three inputs in all
(2,894,072 states); `AcknowledgedCallsEnd` for three calls of QoS 1 with four inputs (301,323) and for a call of QoS 2
beside a message with four inputs (511,688).  `multi_stream`: a packet as large as the capacity and one of half of
it make the sender wait with some credit left; a threshold above the capacity makes the credit come back
only through the rule for an empty queue; two of close, abort, failure and growth meet.  The invariants were
also checked with three packets and a sending queue of 1 (1.5 million states).  `utp`: with 8 sequence numbers and at most 3 packets under way
in each direction the numbers wrap for the initial number 7, and `MaxData < SeqMod / 2` keeps the signed distance
meaningful: no datagram is so late that its number means another packet; 2, 4 and 7 are below, at and above the middle.
All of 1..7 were checked once (709,025 states).  `Prompt` and `ServerFirst` state under which use the stream is
reliable: see section 5.

**Deadlock.**  It is checked for `condition`, `event`, `queue` and `thread_event`.  The other runs switch it
off since the system may stop: all coroutines finished, all tasks done, all loops ended, all threads
waiting for a queue that nobody uses, or a connection closed and its inputs used up.

**Fairness.**
The event loop runs every functor that is due in each round, however busy the others are: the notify functors
of a Semaphore and of released Locks have strong fairness (a coroutine that keeps being resumed disables
them again and again but cannot overtake for ever what is due already).  A `set()` that has begun goes on to its end (weak fairness
for its steps).  Threads are scheduled by the
system: weak fairness for the steps inside a call.  Nothing is assumed of the client except that a running
coroutine blocks at some time: no call, no timeout, no kill and no spurious wake-up has to happen.  A
task's function returns or throws.  For the protocols: a coroutine that can go on does; the two ends of a MultiStream
connection run, and the peer's application keeps reading as long as it has something to read, without which no credit comes back; `doUpdate()` of a
uTP stream runs every 50 ms.  The application of the MQTT client keeps
calling `recv()`; the broker reads what it is sent until it falls silent, which it may do at any time and for ever.  Nothing
is assumed of the network under uTP, which may lose everything.

**Mutants.**  Each property has a mutated operation (an operator named after the operation, marked `Mutant`)
under which TLC finds it violated: a dropped test, a missing reset, a notification that is not sent.  They
are not part of any specification.

## 4. Proofs

Each proof module extends the module of its component and proves its theorems for every value of the
constants.  Three of them extend a second component and prove its theorems too: `QueueProofs` those of Condition,
`ThreadLocksProofs` those of ThreadQueue beside ThreadEvent, `SpawnProofs` those of Coroutine beside ThreadPool.  That is
why these three name their specification after the module (`ConditionSpec`, `ThreadQueueSpec`, `CoroutineSpec`, and so
for `Init`, `Next`, `vars`): the two components share no name, no constant and no variable.

The pattern is the same throughout: an inductive invariant `IndInv` (several for MultiStream and Mqtt), a conjunction of named parts;
`InitIndInv`; a lemma for each action or group of actions, collected in `NextIndInv`; and theorems that read a part
of `IndInv` off.  `IndInv` was checked by TLC before it was proved.  The assumptions are those of the component's
module (`...Assumption`); where a theorem needs more it says so in its statement.

**`SemaphoreProofs`**: `TypeCorrect` (`counter` stays in `0..init_value`), `WakeupsAreNotLost` (`NoLostWakeup`),
`WaitersAreListed` (`WaitersListedOnce`, the assertion `found` in `acquire()`), `TimersAreCancelled`
(`NoStaleTimer`), `LockIsExclusive` (with one unit, no two coroutines hold it) and `UnitsAreConserved`
(`UnitsConserved`).  `NoLostWakeup` is not inductive.  A release schedules the functor only when `notified` is not set, so the
argument needs that `notified` means that the functor is really scheduled or running (`NotifiedMeansPending`),
and after `~Semaphore`, which cancels it, that the deleting functor takes its place (`DeleteIsPending`).  A
wait that gives up returns what it took and may have to wake somebody: `StillMissing` bounds what it took, and
`WaitersListedOnce` says that erasing it leaves the others.  `RunningIsReady` says that whoever runs is not
listed.  Exclusion of a Lock adds `UnitOfLock`.  Units are counted as the cardinality of a set of pairs (who has it,
which of his units), so that the theorems on finite sets apply and no sum is needed; `UnitsChange` says what a
change of one coroutine's units does to it.  The count shows that the bound in `release()` (`counter` never above `init_value`)
never cuts a unit off.

**`EventProofs`**: `NobodySleepsOnASet` (`NobodySleepsOnASetEvent`), `SleeperHasAWakeup` (whoever is blocked on a
set event has a released Lock), `RecursionIsBounded` (`SetsAnEventOnce`), `SetReachesAllLinks` (`SetReachesLinks`, an action property),
`WaitAnyMissesNothing` (`WaitAnyIsTold`), `LinksEndWithTheirEvent` (`NoLinkOutlivesItsEvent`) and `TrueIsTheTruth` (`TrueMeansSet`, an
action property), for any events, links and coroutines.  `ListsTell`: a coroutine is on the list of an event or released there
exactly when it is blocked there.  The recursion of `set()` needs two invariants of its frames: `FramesAreSet` (every frame is of an
event that is set and was reached, each of another one) and `ReachedPassesOn` (what was reached has a frame that has yet to
come to the linked event, or that event is set).  At the end there are no frames, so the second one is what was to be shown.  For
`waitAnyEvent`, `AnyIsToldOrListed` says the same of an event that was set before, and `FreshIsClear` that the local event starts clear.

**`QueueProofs`**: `LatchesAlwaysTell` (`LatchesTell`), `ClosedQueueBlocksNobody` (a closed queue keeps both latches
set) and `QueueImplementsSpec`: `Queue` implements `QueueSpec`, proved step by step (`...Refines`).  The last assumes
that no capacity is 0, which is also where the code does not keep the promise (section 5).  `CallsAreWellFormed` says
which calls wait for which latch.  `ErasedIsLeft` shows that the loop of `remove()`, which runs backwards over
the deque, leaves exactly the other elements in their order; it is proved by induction in the form of
a least counterexample (`LeastNumber`).

The same module proves `ConditionListIsExact` (`ListIsExact`).  It is inductive with the types; what takes work is the
erasing of a Lock, a loop over the list: `EraseLeaves` shows, by a least counterexample again, that exactly this
Lock goes, and a notified coroutine, which is no longer listed, erases nothing.

**`ThreadLocksProofs`**, ThreadEvent: `NoWakeupIsLost` (`NoLostWakeup`) and `CountNeverLies` (`count` is the number of plain threads
in `wait()`).  A coroutine tests the flag without the mutex, so the invariant has to say what covers the moment
between test and sleep: for a thread the mutex (`MutexTells`), for a coroutine that its loop is in `holds` already
(`LoopIsHeld`); `NotifierIsBehind` says that for whoever is in that moment while the flag is set, the notifier has
still to come; `OneCallPerThread` that a thread in the middle of `set()` is in no other call.

**`ThreadLocksProofs`**, ThreadQueue: `LatchesAreTrue` (`LatchesTell`), `ClosedStaysOpen` (`ClosedKeepsLatches`) and, for finitely many
threads, `OvershootStaysBounded` (`OvershootIsBounded`).  For an open queue the truth of the latches is inductive by
itself.  For a closed one `CloseUnderWay` says what the threads inside `close()` have still to do, latch by latch.  The
bound is inductive given the latches: a thread joins those that are about to insert only below the capacity.

**`SpawnProofs`**, Coroutine: `JoinersAreWoken` (`NoJoinerLeftBehind`), `SwitchesStaySound` (`SwitchesAreSound`), `NothingElseRuns`
(`OnlyStartedRun`) and `KillReturns` (`KilledIsJoined`, as long as no two kills met; section 5 has the case in which they do).  `RunningRuns` and `TargetsTell` say who can be in which call,
`CallbacksTell` what a scheduled functor is for.  While no two kills met, `NoKillMeets` says that no exception is on its
way to a killer or its victim, `KillerIsRemembered` that the victim's `previous` is its killer, and `PreviousWaits` that `previous` names a killer that waits for this very coroutine.

**`SpawnProofs`**, ThreadPool: `WorkersAreFree` (`IdleIsFree`) and `NoUnitIsLost` (`UnitsConserved`).  `TasksTell` says where a
task is at each stage, `WaitersTell` that it waits once, `WorkersTell` that a worker is idle, has an item, runs, is about to
be recycled or has exited, and never two of these.

**`MultiStreamProofs`**: `CreditIsConserved` (`CreditConserved`), `ReceivingGoesOn` (`ReceiveNeverBlocks`),
`ClosingLosesNothing` (`CloseDeliversAll`), `SleepingReceiversAreTold` (`ReceiversAreTold`) and `TypeCorrect`, for any writers,
readers, sizes, capacities, thresholds and batches.  The first two assume that `setReceivingCapacity()` never makes a capacity
smaller (`[][NeverShrinks]_vars`), since the code takes no credit back then (section 5); `SleepingReceiversAreTold` assumes one
reader at each end (`OneReader`), since one of two may take the other's empty packet (section 5).  The other two assume nothing.

* *Steps.*  Every action changes one end, as its application or as its master, and leaves the other alone (`StepOf`, `Rests`).
  `EveryStep` shows this once, so that what follows is proved for one end and its peer instead of action by action.
* *What is where.*  `Inv` says which frames each queue can hold (`FramesTell`), what a writer in a call has (`WritersTell`), that
  an end is silent before its slave exists (`SilentBefore`), that MAKE and MADE come first in their direction
  (`GreetingsFirst`), and that nothing arrives before them (`NothingBeforeMade`, `NothingBeforeMake`).
* *Credit.*  Conservation alone is not inductive: it speaks of two open slaves only, but a packet may arrive when its sender has
  ended.  `CreditInv` adds `RoomForAll`, the inequality that survives the sender's end, `CreditBeforeMake` for the time when one
  slave does not exist yet, and `FinitelyBlocked`, which lets the bytes of blocked writers be counted as a finite set.
* *Closing.*  `NothingSkipped` follows the packets of one direction along `Line`: what has arrived, is on the wire, in `doSend()`
  and in front of the barrier is together what was queued, in order, and behind the mark that ends the stream there is no packet
  of it.  `ClosedForGood` keeps the result once the slave has ended.
* *Sums and lists.*  `Bytes` and `Packets` are loops over a queue.  What they give for `Append`, `Tail` and `\o` is proved by the
  least index at which a law would fail (`UpTo`, `LoopExists`).

**`UtpProofs`**: `OnlyReceivedPacketsLeave` (`OnlyReceivedLeave`) and `StreamIsReliable` (`ReliableStream`, the refinement of
`ByteStream` in both directions), for any even modulus, any initial numbers and any network.  `UtpAssumption` says that each end
sends fewer packets than half the sequence space has numbers: a datagram as old as that would be taken for another, here
as in the code.  Both theorems assume an `Orderly` use: the SYN is not sent again or duplicated while it or its answer is under way,
and the server speaks second.  Without it the statements are false (section 5).

* *Numbers.*  `Seq16Law`, `NthDiffer`, `NthNext` and `NthOrder` say that within half the space the numbers of different packets
  differ, that counting on leads to the next packet across the wrap, and that the sign of `SeqDiff()` is the order of the packets.
* *What a datagram tells.*  `Tells`: a DATA packet bears the number of its place (`Sound`) and its `ackNr` is that of a packet the sender
  of the acknowledgement had when it sent it (`Acks`).  Nothing an end does takes this back (`Advance`, `SoundStays`,
  `AcksStay`, `TellsStays`), so whatever the network keeps, delays or repeats stays true.  That is why loss, reordering and duplication
  need no case of their own.
* *Ends.*  `QueueSound`: `sendQueue` holds the last packets, one for each number up to `seqNr`, and those before were received.  It is
  what makes an acknowledgement drop a prefix that the peer has (`AckedDrops`).  `AckSound`: `ackNr` is that of the last packet
  received in order, or of the FIN after it.  `EarlySound`: what waits in `outOfOrder` was sent.  `Handshakes` and `OneSyn` hold only in an
  orderly use: no SYN arrives at a slave that has received data, and the SYN-ACK arrives before data of the server.
* *A run of packets.*  `RunIs` shows that the loop in `handleDatagram()`, which takes packets out of `outOfOrder` as long as the next
  one is there, appends exactly the next packets of the sender.

**`MqttProofs`**: `MessagesAreDelivered` (`Delivery`), `NobodyIsForgotten` (`NobodyWaitsUnseen`), `TrueIsTaken` (`TrueMeansTaken`),
`IdsAreFresh`, `FewCallsAreSeen` and `OneReceiverIsTold` (`ReceiverIsTold`), for any calls, receivers, messages, sizes of the queues and number
of failures.

* *Ids.*  `IdsApart`: what the client has to send in answer to a message bears the id of a message, everything else one of its own ids, and
  likewise on the way back.  So messages and calls can be followed apart although they share queues and connection.
* *Messages.*  `Delivery` speaks of acknowledgements only; it takes the whole way of a message (`MessageInv`).  `Stored`: after the
  PUBREC it is in `incomingQos2` or was delivered.  `Released`: a PUBREL is behind every PUBLISH of its message on the connection.
  `Once`: a QoS 2 message that was delivered, or is held in a blocked `receivingQueue.put()`, is not sent any more and is
  stored no longer.  `Answered`: what is acknowledged was delivered.  `HeldAnswer` says which answer waits for the `put()`.  Most steps
  touch none of this (`Calm`, `Plain`); the others are proved one by one.
* *Calls.*  `NobodyWaitsUnseen` and `TrueMeansTaken` rest on `ExchangeInv`: one id stands for one exchange, its entry in a map, its packets and
  its answers (`OneExchange`), each token belongs to the call that made it (`Tokened`), and who waits is in a map (`Seen`).  Two exchanges with one id
  would overwrite each other's entry, and `nextPacketId()` does not look which ids are in use (section 5).  The two theorems therefore
  assume `[][FreshIds]_vars`: the id that a call takes is not in use.  `IdsAreFresh` shows that this is so for at most `MaxId` calls
  (`FewCalls`; 65535 in the code): after k calls that took an id (`CountInv`) all ids in use are among the k first ones.  `FewCallsAreSeen` combines the
  two.  The run `mqtt` has three calls and three ids, so the case in which every id is used is in it.
* *Receivers.*  `OneReceiverIsTold` assumes at most one receiver (`OneReceiver`), since `abort()` leaves one empty message (section 5).

**Only model-checked**: the liveness properties (`FreeUnitIsTaken`, `WaitEnds`, `CloseEndsCalls`, `ElementIsTaken`, `TasksAreDone`,
`AcknowledgedCallsEnd`, `SendersGetOn`, `CloseEnds`, `TransfersEnd`), which rest on fairness and on `ENABLED`, out of the prover's reach.
Every invariant and every action property that a passing run checks is proved.  Of what is proved, `NoStaleTimer`, `NobodySleepsOnASetEvent`, `NoLinkOutlivesItsEvent`
and `KilledIsJoined` have no run: TLC checked them with the others of their module before they were proved.

## 5. Findings

**uTP compares acknowledgements with the wrong number** (`src/utp.cpp:513`, run `utp_ack`).  `handleDatagram()`
takes `hdr.ackNr` only when it is not behind `ackNr`; the first counts what this end sent, the second what it
received.  The client's numbers start at a random `synSeq`, the server's at 1.  For a `synSeq` in the upper half of
the sequence space the client ignores the acknowledgements it gets, for one in the lower half the server does, until the
other direction has caught up.  The packets are sent again, acknowledged again (the comment at
`src/utp.cpp:543`: "re-ack it. Without this the sender would retransmit the packet forever and eventually hit the
retransmit limit."), ignored again, and the retransmit limit closes the stream.

Differences between code and documentation that were met and have no run of their own, in the primitives:

* **A notification may be spent on a timeout** (`src/locks.cpp:399`).  `notify()` takes a Lock off
  the list and releases it; when the timer of that `wait()` fires before the Lock's functor, `wait()` reports a timeout
  and nobody else is woken: `notify(1)` with two waiting coroutines then wakes neither, against "Wake up coroutines. The
  number of coroutines is indicated by ``value``." (`docs/references.rst:741`).  In `Condition` this is `WaitTimesOut` of a coroutine
  that is in `released`.
* **`previous` outlives the kill that set it** (`src/coroutine_utils.cpp:308`).  A coroutine that is itself
  killed inside `CoroutineGroup::kill(name, true)` stays `previous` of its victim, which later switches to a
  coroutine that has finished or waits for something else (`docs/references.rst:251`).  `SwitchesAreSound` shows that this takes
  two kills that meet; without `~crossed` TLC finds it violated.
* **The second kill with join takes the place of the first** (`src/coroutine_utils.cpp:333`).  Its
  `setPrevious()` overwrites the first one's, the victim's end resumes the second, and the first never returns, although
  "the coroutine is joined and removed" (`docs/references.rst:334`).  TLC finds `KilledIsJoined` violated in the instance of the run
  `coroutine`; `KillReturns` shows that it, too, takes two kills that meet.
* **~Semaphore with several waiters** (`src/locks.cpp:131`).  The deleting functor wakes everybody but only
  `init_value` units are there: `assert(counter > 0)` in `acquire()` (`src/locks.cpp:102`) fails for the second waiter of a Lock.
  Without assertions, as in the model, the waiter lists itself again and the functor does not end.
* **Producers of several threads pass the capacity** (`include/qtng/locks.h:607`).  `put()` does not look
  at the capacity again under the lock.  `OvershootIsBounded` shows by how much: less than one element for each
  thread.
* **A pool's unit is lost with the submitting loop** (`src/coroutine_utils.cpp:513`).  The worker returns
  without `onLoopFinished`, which holds the release.  `UnitsConserved` shows that this takes the end of a loop.
* `acquire()` (`src/locks.cpp:53`) takes a free unit without regard to waiters, so the waiter that
  `docs/references.rst:665` says "will resume" may find none left and waits on.
* `Semaphore(0)` (`src/locks.cpp:37`) raises `init_value` to 1 but not the counter: it is a semaphore whose
  first `acquire()` waits for a `release()`.
* A Queue of capacity 0 has `notFull` set after the constructor and `clear()` (`include/qtng/locks.h:494`, `:549`):
  one `put()` succeeds.  `LatchesTell` leaves capacity 0 out.
* `kill()` with an exception other than the exit exception, of a coroutine whose start is delayed more than
  the kill: `KillCoroutineFunctor` finds it not started and drops the exception (`src/eventloop.cpp:402`,
  against `docs/references.rst:189`).
* The process-wide ThreadPool (`include/qtng/coroutine_utils.h:366`) uses one Semaphore, which belongs to one
  thread's loop, and two vectors from several threads without a lock (`src/coroutine_utils.cpp:560`).
* `~Event` with waiters frees the Condition they return into; `~ThreadEvent` with more than one waiter does
  not wake them (`ref` stays above 1); `ThreadEventPrivate::wait()` returns without `decref()` when its time is over
  (`src/locks.cpp:703`); `ThreadEvent::set()` ignores links.

In the protocols:

* **MQTT: `disconnect()` may hang and keep the connection open** (`src/mqtt.cpp:1087`).  It sets the state to
  Disconnecting and puts its packet into `sendingQueue` without a limit.  When that queue is full because `sendall()` is blocked at
  a silent broker, `doKeepalive()`, which would give the connection up at the next missing PINGRESP, finds the state changed
  (`src/mqtt.cpp:1036`) and returns.  Nobody aborts; `disconnect()` and the calls that wait for an acknowledgement hang
  (`docs/references.rst:4159`: "Send ``DISCONNECT`` then close the connection.").  It is the second exception in `AcknowledgedCallsEnd`.
* **MQTT: only one of several receivers is told** (`src/mqtt.cpp:1069`).  `abort()` leaves one empty message, so of
  two coroutines in `recv()` one sleeps on, although `recv()` "Returns an empty message when the connection is closed."
  (`docs/references.rst:4154`).  With two `Receivers` TLC finds `ReceiverIsTold` violated.
* **uTP: a repeated SYN makes data arrive twice** (`src/utp.cpp:488`).  `connect()` repeats the SYN on a timer; one that
  arrives behind data sets `ackNr` of the established slave back, and packets it has received are taken again, against
  "one reliable byte stream per session" (`docs/references.rst:4654`).  With `Prompt = FALSE` TLC finds `ReliableStream` violated.
* MQTT: a QoS 0 `publish()` or a `disconnect()` whose packet is queued or in `sendall()` when `abort()` runs is
  never told (`src/mqtt.cpp:1058`): its `ValueEvent` is in no map.  Calls blocked in `sendingQueue.put()` stay blocked too.
* MQTT: packet ids are not checked against those in use (`src/mqtt.cpp:655`); `doKeepalive()` may block in a full
  `sendingQueue` (`src/mqtt.cpp:1050`) and then ends nothing, which is the first exception in `AcknowledgedCallsEnd`.
  With `keepAlive` 0 nobody notices a silent broker at all (`src/mqtt.cpp:1033`): that property is about clients with one.
* MultiStream: "Wake senders waiting for credit; they will observe closing/error/master." (`src/multi_stream.cpp:435`).
  They do not when they have enough credit by then (`src/multi_stream.cpp:397`): the packet goes behind the barrier or into a dead stream and a
  `sendPacket()` that waits hangs.  Likewise a sender that `cleanSendingQueue()` lets out of `put()`: it may even fill the
  dead queue so that a `close()` stays in `put()`, the exception in `CloseEnds`.
* MultiStream: of two senders that wait for credit, the one that needs more clears `creditEvent`
  (`src/multi_stream.cpp:404`) before the other has run, and `Event::wait()` looks at the flag again, so the other sleeps on with enough
  credit.  Of two receivers one may take the empty packet of the other.  A packet larger than the peer's capacity waits for ever.
* MultiStream: `setReceivingCapacity()` grants credit when the capacity grows and takes none back when it shrinks
  (`src/multi_stream.cpp:1534`).
* uTP: the SYN-ACK sets the client's `ackNr` without regard to data that overtook it (`src/utp.cpp:497`).  Data is then received
  twice, or skipped when the SYN-ACK is a repeated one.  With `ServerFirst = TRUE` TLC shows this as another violation of
  `ReliableStream`; the run `utp` excludes it.
* uTP: a FIN that overtakes data sets `finReceived` (`src/utp.cpp:549`), so the reader sees the end early; `close()`
  gives up what is not acknowledged and its FIN is not sent again (`src/utp.cpp:878`).
* uTP: `sendingQueueNotFull` is set at the start and never cleared (`src/utp.cpp:289`, `:585`), so `send()` respects
  no window, although `src/utp.cpp:202` says "so the sender respects the peer's application-level backpressure".

## 6. What the models leave out

Times are not modelled: a timer that is scheduled may fire at any moment.  Functors that are due are run in any
order, which contains the order of their times.  Memory is not modelled: use of destroyed objects is outside,
except `~Semaphore`, which keeps its private part.  ThreadEvent's reference count and links, `setCapacity()` of a
ThreadQueue, `~ThreadPool`, `join()` from the main coroutine and the names of a CoroutineGroup are not there.  In `thread_pool` one
thread uses the pool, as the Semaphore requires.

Mqtt leaves out topics, payloads and encodings, MultiStream the choice among several streams, the keepalive
frames (a keepalive timeout is one of the aborts), waiting in `takeSlave()`, the stream numbers, a second `close()` of the same slave
while the first waits and a `close()` after the master is gone (`src/multi_stream.cpp:1422`-`1431`); a packet for a slave that ends while
`doReceive()` is blocked in its queue, which takes a capacity that was made smaller, is dropped where the code stays blocked
(`src/multi_stream.cpp:459`).  Utp leaves out the windows and delays, which block nothing, RESET
datagrams, `recv()` and the socket class around the stream.

Not modelled at all: KCP, QUIC, DataChannel, HTTP, WebSocket, SSH, STUN and TURN, mDNS, Kademlia, BitTorrent and rpc,
each a protocol of a thousand lines or more that deserves a module like the three above; the TLS, cipher, certificate and
Noise code, encoders and parsers, whose difficulty is in the data; system calls (sockets, files, processes),
the Windows variants and machine-level context switches; the Qt binding; and the vendored libraries.

## 7. Plan

The order is by how much of the program rests on a part.

1. *Core, done*: Semaphore, Condition, Event, Queue, ThreadEvent, ThreadQueue, Coroutine, ThreadPool.
2. *Protocols, done*: the MQTT client; MultiStream; uTP against the abstract `ByteStream`.
3. *Proofs, done*: every safety property of every module, and the refinements of `QueueSpec` and `ByteStream`.
4. *Rest of the core*: RLock with the state Condition saves; reference count and links of ThreadEvent;
   the event loop's `callLater`, `cancelCall` and `callLaterThreadSafe`; CoroutineGroup's bookkeeping.
5. *More protocols*: KCP against `ByteStream`; several MultiStream streams over one connection; DataChannel; the
   HTTP connection pool; WebSocket's close; SocketServer's shutdown; rpc peers.
