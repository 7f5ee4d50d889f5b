---------------------------- MODULE SpawnProofs ---------------------------
(***************************************************************************)
(* Proofs about what runs a task: the workers of ThreadPool, for any       *)
(* number of tasks, loops, workers and units, loops that end included; and *)
(* coroutines, for any number of them.                                     *)
(***************************************************************************)
EXTENDS ThreadPool, Coroutine, FiniteSetTheorems, TLAPS

\* The stage of a task says where it is.
TasksTell ==
    /\ \A w \in Worker : \A i \in DOMAIN queue[w] :
          stage[queue[w][i]] = "queued" /\ by[queue[w][i]] = w
    /\ \A w \in Worker : running[w] # None =>
          stage[running[w]] = "running" /\ by[running[w]] = w
    /\ \A k \in {"recycle", "done"}, t \in Task : <<k, t>> \in functors =>
          stage[t] \in {"running", "done"} /\ \A w \in Worker : running[w] # t

\* A task waits for a unit once.
WaitersTell ==
    /\ \A i \in DOMAIN waiters : stage[waiters[i]] = "waiting"
    /\ \A i, j \in DOMAIN waiters : waiters[i] = waiters[j] => i = j

\* A worker is idle, has an item, runs one, is about to be recycled, or has
\* exited, and never two of these.
WorkersTell ==
    /\ exited \subseteq workers
    /\ \A w \in Worker :
          /\ Len(queue[w]) <= 1
          /\ queue[w] # <<>> => running[w] = None /\ w \in workers \ exited
          /\ running[w] # None => w \in workers \ exited
    /\ \A t \in Task : <<"recycle", t>> \in functors =>
          /\ by[t] \in workers \ exited
          /\ queue[by[t]] = <<>> /\ running[by[t]] = None /\ ~InIdle(by[t])
    /\ \A t, u \in Task :
          <<"recycle", t>> \in functors /\ <<"recycle", u>> \in functors /\ by[t] = by[u] => t = u

\* The units, with what Cardinality needs.
UnitsCounted ==
    alive = Loop => IsFiniteSet(UnderWay) /\ counter + Cardinality(UnderWay) = Threads

IndInv ==
    /\ TypeOK
    /\ TasksTell
    /\ WaitersTell
    /\ WorkersTell
    /\ IdleIsFree
    /\ UnitsCounted
--------------------------------------------------------------------------------
\* The first, the rest, and one more: what the steps do to the pool's vectors.
LEMMA FirstAndRest ==
    ASSUME NEW S, NEW s \in Seq(S), s # <<>>
    PROVE  /\ Head(s) \in S /\ Head(s) = s[1] /\ 1 \in DOMAIN s
           /\ Tail(s) \in Seq(S) /\ Len(Tail(s)) = Len(s) - 1
           /\ \A i \in DOMAIN Tail(s) : i + 1 \in DOMAIN s /\ Tail(s)[i] = s[i + 1]
  OBVIOUS

\* What submit() makes of a list when it appends to it.
LEMMA OneMore ==
    ASSUME NEW S, NEW s \in Seq(S), NEW e \in S
    PROVE  /\ Append(s, e) \in Seq(S) /\ Len(Append(s, e)) = Len(s) + 1
           /\ \A i \in DOMAIN Append(s, e) :
                 \/ i \in DOMAIN s /\ Append(s, e)[i] = s[i]
                 \/ i = Len(s) + 1 /\ Append(s, e)[i] = e
  OBVIOUS

\* A task that is no longer under way has given its unit back.
LEMMA UnitReturned ==
    ASSUME NEW U, NEW V, NEW t, NEW c \in 0..Threads,
           IsFiniteSet(U), c + Cardinality(U) = Threads, t \in U, V = U \ {t}
    PROVE  IsFiniteSet(V) /\ c + 1 + Cardinality(V) = Threads /\ c < Threads
<1>1. IsFiniteSet(V) /\ Cardinality(V) = Cardinality(U) - 1
  BY FS_RemoveElement
<1>2. Cardinality(U) \in Nat /\ Cardinality(V) \in Nat
  BY <1>1, FS_CardinalityType
<1> QED
  BY <1>1, <1>2, ThreadPoolAssumption
--------------------------------------------------------------------------------
\* The invariant holds of a pool that nobody has used.
LEMMA InitIndInv == Init => IndInv
<1> SUFFICES ASSUME Init PROVE IndInv
  OBVIOUS
<1> USE ThreadPoolAssumption DEF Init
<1>1. TypeOK
  BY DEF TypeOK, Stages
<1>2. TasksTell /\ WaitersTell /\ WorkersTell
  BY DEF TasksTell, WaitersTell, WorkersTell, InIdle
<1>3. IdleIsFree
  BY DEF IdleIsFree, InIdle
<1>4. UnitsCounted
  <2>1. UnderWay = {}
    BY DEF UnderWay
  <2> QED
    BY <2>1, FS_EmptySet DEF UnitsCounted
<1> QED
  BY <1>1, <1>2, <1>3, <1>4 DEF IndInv

\* A task that has a unit is given to a worker that has nothing.
LEMMA EnqueueKeeps ==
    ASSUME IndInv, NEW t \in Task, stage[t] \in {"new", "waiting"}, Enqueue(t),
           counter > 0, counter' = counter - 1,
           waiters' \in Seq(Task), WaitersTell',
           UNCHANGED <<notify, running, exited, functors, alive>>
    PROVE  IndInv'
<1> USE ThreadPoolAssumption
<1>0. PICK w \in Worker :
        /\ \/ idle # <<>> /\ w = Head(idle) /\ idle' = Tail(idle) /\ workers' = workers
           \/ idle = <<>> /\ w \notin workers /\ workers' = workers \cup {w} /\ idle' = idle
        /\ queue' = [queue EXCEPT ![w] = Append(@, t)]
        /\ by' = [by EXCEPT ![t] = w]
        /\ stage' = [stage EXCEPT ![t] = "queued"]
  BY DEF Enqueue
<1>a. /\ idle' \in Seq(Worker)
      /\ \A i \in DOMAIN idle' : \E j \in DOMAIN idle : j >= i /\ idle'[i] = idle[j]
      /\ \A i, j \in DOMAIN idle' : idle'[i] = idle'[j] => i = j
      /\ \A i \in DOMAIN idle' : idle'[i] # w
  <2>1. CASE idle = <<>>
    BY <2>1, <1>0
  <2>2. CASE idle # <<>>
    <3>1. idle \in Seq(Worker) /\ \A i, j \in DOMAIN idle : idle[i] = idle[j] => i = j
      BY DEF IndInv, TypeOK, IdleIsFree
    <3>2. idle' = Tail(idle) /\ w = idle[1] /\ 1 \in DOMAIN idle
      BY <1>0, <2>2, <3>1, FirstAndRest
    <3>3. idle' \in Seq(Worker) /\ Len(idle') = Len(idle) - 1
      BY <2>2, <3>1, <3>2, FirstAndRest
    <3>4. \A i \in DOMAIN idle' : i + 1 \in DOMAIN idle /\ idle'[i] = idle[i + 1] /\ i \in Nat \ {0}
      BY <2>2, <3>1, <3>2, <3>3, FirstAndRest
    <3> QED
      BY <3>1, <3>2, <3>3, <3>4
  <2> QED
    BY <2>1, <2>2
<1>b. queue[w] = <<>> /\ running[w] = None /\ w \notin exited /\ w \in workers'
  <2>1. CASE idle = <<>>
    BY <2>1, <1>0 DEF IndInv, WorkersTell, TypeOK
  <2>2. CASE idle # <<>>
    <3>1. InIdle(w)
      BY <1>0, <2>2, FirstAndRest DEF IndInv, TypeOK, InIdle
    <3> QED
      BY <1>0, <2>2, <3>1 DEF IndInv, IdleIsFree
  <2> QED
    BY <2>1, <2>2
<1>c. /\ queue' \in [Worker -> Seq(Task)]
      /\ queue'[w] = <<t>> /\ Len(queue'[w]) = 1
      /\ \A v \in Worker : v # w => queue'[v] = queue[v]
  BY <1>0, <1>b DEF IndInv, TypeOK
<1>d. workers \subseteq workers' /\ workers' \subseteq Worker
  BY <1>0 DEF IndInv, TypeOK
<1>e. /\ by' \in [Task -> Worker \cup {None}] /\ by'[t] = w
      /\ \A u \in Task : u # t => by'[u] = by[u] /\ stage'[u] = stage[u]
      /\ stage' \in [Task -> Stages] /\ stage'[t] = "queued"
  BY <1>0 DEF IndInv, TypeOK, Stages
<1>f. \A v \in Worker : InIdle(v)' => InIdle(v) /\ v # w
  BY <1>a DEF InIdle
<1>g. /\ \A v \in Worker : running[v] # t
      /\ \A k \in {"recycle", "done"} : <<k, t>> \notin functors
      /\ \A v \in Worker : \A i \in DOMAIN queue[v] : queue[v][i] # t
  <2>1. \A v \in Worker : running[v] # t
    BY DEF IndInv, TasksTell
  <2>2. \A k \in {"recycle", "done"} : <<k, t>> \notin functors
    BY DEF IndInv, TasksTell
  <2>3. \A v \in Worker : \A i \in DOMAIN queue[v] : queue[v][i] # t
    BY DEF IndInv, TasksTell
  <2> QED
    BY <2>1, <2>2, <2>3
<1>h. \A u \in Task : <<"recycle", u>> \in functors => u # t /\ by[u] # w
  <2>1. CASE idle = <<>>
    BY <2>1, <1>0, <1>g DEF IndInv, WorkersTell
  <2>2. CASE idle # <<>>
    <3>1. InIdle(w)
      BY <1>0, <2>2, FirstAndRest DEF IndInv, TypeOK, InIdle
    <3> QED
      BY <1>g, <3>1 DEF IndInv, WorkersTell
  <2> QED
    BY <2>1, <2>2
<1>1. TypeOK'
  BY <1>a, <1>c, <1>d, <1>e DEF IndInv, TypeOK
<1>2. TasksTell'
  <2>1. \A v \in Worker : \A i \in DOMAIN queue'[v] :
          stage'[queue'[v][i]] = "queued" /\ by'[queue'[v][i]] = v
    <3> SUFFICES ASSUME NEW v \in Worker, NEW i \in DOMAIN queue'[v]
                 PROVE  stage'[queue'[v][i]] = "queued" /\ by'[queue'[v][i]] = v
      OBVIOUS
    <3>1. CASE v = w
      BY <1>c, <1>e, <3>1
    <3>2. CASE v # w
      <4>1. i \in DOMAIN queue[v] /\ queue'[v][i] = queue[v][i]
        BY <1>c, <3>2
      <4>2. queue[v][i] \in Task
        BY <4>1 DEF IndInv, TypeOK
      <4> QED
        BY <1>e, <1>g, <4>1, <4>2 DEF IndInv, TasksTell
    <3> QED
      BY <3>1, <3>2
  <2>2. \A v \in Worker : running'[v] # None =>
          stage'[running'[v]] = "running" /\ by'[running'[v]] = v
    BY <1>e, <1>g DEF IndInv, TasksTell, TypeOK
  <2>3. \A k \in {"recycle", "done"}, u \in Task : <<k, u>> \in functors' =>
          stage'[u] \in {"running", "done"} /\ \A v \in Worker : running'[v] # u
    BY <1>e, <1>g DEF IndInv, TasksTell
  <2> QED
    BY <2>1, <2>2, <2>3 DEF TasksTell
<1>3. WorkersTell'
  <2>1. \A v \in Worker :
          /\ Len(queue'[v]) <= 1
          /\ queue'[v] # <<>> => running'[v] = None /\ v \in workers' \ exited'
          /\ running'[v] # None => v \in workers' \ exited'
    <3> SUFFICES ASSUME NEW v \in Worker
                 PROVE  /\ Len(queue'[v]) <= 1
                        /\ queue'[v] # <<>> => running'[v] = None /\ v \in workers' \ exited'
                        /\ running'[v] # None => v \in workers' \ exited'
      OBVIOUS
    <3>1. CASE v = w
      <4>1. Len(queue'[v]) = 1
        BY <1>c, <3>1
      <4>2. running'[v] = None /\ v \in workers' \ exited'
        BY <1>b, <3>1
      <4> QED
        BY <4>1, <4>2
    <3>2. CASE v # w
      BY <1>c, <1>d, <3>2 DEF IndInv, WorkersTell
    <3> QED
      BY <3>1, <3>2
  <2>2. \A u \in Task : <<"recycle", u>> \in functors' =>
          /\ by'[u] \in workers' \ exited'
          /\ queue'[by'[u]] = <<>> /\ running'[by'[u]] = None /\ \A i \in DOMAIN idle' : idle'[i] # by'[u]
    <3> SUFFICES ASSUME NEW u \in Task, <<"recycle", u>> \in functors
                 PROVE  /\ by'[u] \in workers' \ exited'
                        /\ queue'[by'[u]] = <<>> /\ running'[by'[u]] = None /\ \A i \in DOMAIN idle' : idle'[i] # by'[u]
      OBVIOUS
    <3>1. by'[u] = by[u] /\ by[u] # w /\ by[u] \in workers \ exited
      BY <1>e, <1>h DEF IndInv, WorkersTell
    <3>2. by[u] \in Worker /\ queue'[by[u]] = queue[by[u]]
      BY <1>c, <3>1 DEF IndInv, TypeOK
    <3>3. queue[by[u]] = <<>> /\ running[by[u]] = None /\ ~InIdle(by[u])
      BY DEF IndInv, WorkersTell
    <3>4. \A i \in DOMAIN idle' : idle'[i] # by[u]
      BY <1>a, <3>1, <3>3 DEF InIdle
    <3> QED
      BY <1>d, <3>1, <3>2, <3>3, <3>4 DEF InIdle
  <2>3. \A x, u \in Task :
          <<"recycle", x>> \in functors' /\ <<"recycle", u>> \in functors' /\ by'[x] = by'[u] => x = u
    BY <1>e, <1>h DEF IndInv, WorkersTell
  <2>4. exited' \subseteq workers'
    BY <1>d DEF IndInv, WorkersTell
  <2> QED
    BY <2>1, <2>2, <2>3, <2>4 DEF WorkersTell, InIdle
<1>4. IdleIsFree'
  <2>1. \A v \in Worker : InIdle(v)' =>
          v \in workers' \ exited' /\ queue'[v] = <<>> /\ running'[v] = None
    BY <1>c, <1>d, <1>f DEF IndInv, IdleIsFree
  <2>2. \A v \in Worker : Len(queue'[v]) + (IF running'[v] = None THEN 0 ELSE 1) <= 1
    <3> SUFFICES ASSUME NEW v \in Worker
                 PROVE  Len(queue'[v]) + (IF running'[v] = None THEN 0 ELSE 1) <= 1
      OBVIOUS
    <3>1. CASE v = w
      <4>1. Len(queue'[v]) = 1
        BY <1>c, <3>1
      <4>2. running'[v] = None
        BY <1>b, <3>1
      <4> QED
        BY <4>1, <4>2
    <3>2. CASE v # w
      BY <1>c, <3>2 DEF IndInv, IdleIsFree
    <3> QED
      BY <3>1, <3>2
  <2> QED
    BY <1>a, <2>1, <2>2 DEF IdleIsFree
<1>5. UnitsCounted'
  <2>1. t \notin UnderWay
    BY <1>g DEF UnderWay
  <2>2. UnderWay' = UnderWay \cup {t}
    BY <1>e DEF UnderWay
  <2>3. counter \in 1..Threads
    BY DEF IndInv, TypeOK
  <2>4. ASSUME alive = Loop
        PROVE  IsFiniteSet(UnderWay') /\ counter - 1 + Cardinality(UnderWay') = Threads
    <3>1. IsFiniteSet(UnderWay) /\ counter + Cardinality(UnderWay) = Threads
      BY <2>4 DEF IndInv, UnitsCounted
    <3>2. /\ IsFiniteSet(UnderWay \cup {t})
          /\ Cardinality(UnderWay \cup {t}) = Cardinality(UnderWay) + 1
      BY <2>1, <3>1, FS_AddElement
    <3>3. Cardinality(UnderWay) \in Nat
      BY <3>1, FS_CardinalityType
    <3>4. counter \in Nat /\ Threads \in Nat
      BY <2>3
    <3>5. counter - 1 + (Cardinality(UnderWay) + 1) = Threads
      BY <3>1, <3>3, <3>4
    <3> QED
      BY <2>2, <3>2, <3>5
  <2> QED
    BY <2>4 DEF UnitsCounted
<1> QED
  BY <1>1, <1>2, <1>3, <1>4, <1>5 DEF IndInv

\* What a step that neither waits nor takes a unit leaves alone.
LEMMA SameUnits ==
    ASSUME UnitsCounted, alive' = alive, counter' = counter, UnderWay' = UnderWay
    PROVE  UnitsCounted'
  BY DEF UnitsCounted

\* submit() with a free unit...
LEMMA SubmitKeeps ==
    ASSUME IndInv, NEW t \in Task, Submit(t)
    PROVE  IndInv'
<1>1. waiters' \in Seq(Task) /\ counter > 0 /\ counter' = counter - 1
  BY DEF Submit, IndInv, TypeOK
<1>2. WaitersTell'
  BY DEF Submit, Enqueue, IndInv, TypeOK, WaitersTell
<1> QED
  BY <1>1, <1>2, EnqueueKeeps DEF Submit

\* ... and of the task that the functor wakes.
LEMMA WakeKeeps ==
    ASSUME IndInv, Wake
    PROVE  IndInv'
<1>1. waiters \in Seq(Task) /\ waiters # <<>>
  BY DEF Wake, IndInv, TypeOK
<1>2. /\ Head(waiters) \in Task /\ Head(waiters) = waiters[1] /\ 1 \in DOMAIN waiters
      /\ Tail(waiters) \in Seq(Task) /\ Len(Tail(waiters)) = Len(waiters) - 1
      /\ \A i \in DOMAIN Tail(waiters) :
            i + 1 \in DOMAIN waiters /\ Tail(waiters)[i] = waiters[i + 1]
  BY <1>1, FirstAndRest
<1> DEFINE t == Head(waiters)
           rest == Tail(waiters)
<1>3. /\ t \in Task /\ stage[t] = "waiting" /\ Enqueue(t) /\ waiters' = rest
      /\ \A i \in DOMAIN rest : rest[i] \in Task /\ rest[i] # t /\ stage[rest[i]] = "waiting"
      /\ \A i, j \in DOMAIN rest : rest[i] = rest[j] => i = j
  <2>1. t \in Task /\ stage[t] = "waiting" /\ Enqueue(t) /\ waiters' = rest
    BY <1>2 DEF Wake, IndInv, WaitersTell
  <2>2. \A i \in DOMAIN rest : i \in Nat /\ i > 0
    BY <1>2
  <2>3. \A i \in DOMAIN rest : rest[i] \in Task /\ rest[i] # t /\ stage[rest[i]] = "waiting"
    BY <1>1, <1>2, <2>2 DEF IndInv, WaitersTell
  <2>4. \A i, j \in DOMAIN rest : rest[i] = rest[j] => i = j
    BY <1>2, <2>2 DEF IndInv, WaitersTell
  <2> QED
    BY <2>1, <2>3, <2>4
<1>4. rest \in Seq(Task)
  BY <1>2
<1> HIDE DEF t, rest
<1>5. stage' = [stage EXCEPT ![t] = "queued"]
  BY <1>3 DEF Enqueue
<1>6. WaitersTell'
  BY <1>3, <1>5 DEF WaitersTell, IndInv, TypeOK
<1> QED
  BY <1>3, <1>4, <1>6, EnqueueKeeps DEF Wake

\* submit() without one.
LEMMA SubmitWaitsKeeps ==
    ASSUME IndInv, NEW t \in Task, SubmitWaits(t)
    PROVE  IndInv'
<1> USE ThreadPoolAssumption DEF SubmitWaits
<1>a. /\ waiters' \in Seq(Task)
      /\ \A i \in DOMAIN waiters' : \/ i \in DOMAIN waiters /\ waiters'[i] = waiters[i]
                                    \/ i = Len(waiters) + 1 /\ waiters'[i] = t
  BY OneMore DEF IndInv, TypeOK
<1>b. /\ stage' \in [Task -> Stages] /\ stage'[t] = "waiting"
      /\ \A u \in Task : u # t => stage'[u] = stage[u]
  BY DEF IndInv, TypeOK, Stages
<1>c. \A i \in DOMAIN waiters : waiters[i] \in Task /\ waiters[i] # t
  BY DEF IndInv, TypeOK, WaitersTell
<1>1. TypeOK'
  BY <1>a, <1>b DEF IndInv, TypeOK
<1>2. TasksTell'
  <2>1. \A v \in Worker : \A i \in DOMAIN queue[v] : queue[v][i] \in Task /\ queue[v][i] # t
    BY DEF IndInv, TypeOK, TasksTell
  <2>2. \A v \in Worker : running[v] # t
    BY DEF IndInv, TasksTell
  <2>3. \A k \in {"recycle", "done"} : <<k, t>> \notin functors
    BY DEF IndInv, TasksTell
  <2> QED
    BY <1>b, <2>1, <2>2, <2>3 DEF IndInv, TypeOK, TasksTell
<1>3. WaitersTell'
  <2>1. \A i \in DOMAIN waiters' : stage'[waiters'[i]] = "waiting"
    BY <1>a, <1>b, <1>c DEF IndInv, WaitersTell
  <2>2. \A i, j \in DOMAIN waiters' : waiters'[i] = waiters'[j] => i = j
    BY <1>a, <1>c DEF IndInv, WaitersTell
  <2> QED
    BY <2>1, <2>2 DEF WaitersTell
<1>4. WorkersTell'
  BY DEF IndInv, WorkersTell, InIdle
<1>5. IdleIsFree'
  BY DEF IndInv, IdleIsFree, InIdle
<1>6. UnitsCounted'
  <2>1. UnderWay' = UnderWay
    BY <1>b DEF UnderWay
  <2> QED
    BY <2>1, SameUnits DEF IndInv
<1> QED
  BY <1>1, <1>2, <1>3, <1>4, <1>5, <1>6 DEF IndInv

\* submit() that waits and is killed.
LEMMA SubmitThrowsKeeps ==
    ASSUME IndInv, NEW t \in Task, SubmitThrows(t)
    PROVE  IndInv'
<1> USE ThreadPoolAssumption
<1>0. PICK k \in DOMAIN waiters :
        /\ waiters[k] = t
        /\ waiters' = [j \in 1..(Len(waiters) - 1) |-> waiters[IF j < k THEN j ELSE j + 1]]
  BY DEF SubmitThrows
<1>s. /\ stage' = [stage EXCEPT ![t] = "killed"]
      /\ UNCHANGED <<counter, notify, workers, idle, queue, running, exited, functors, alive, by>>
  BY DEF SubmitThrows
<1>w. waiters \in Seq(Task) /\ stage[t] = "waiting"
  BY <1>0 DEF IndInv, TypeOK, WaitersTell
<1> DEFINE from(j) == IF j < k THEN j ELSE j + 1
<1>a. /\ waiters' \in Seq(Task)
      /\ \A i \in DOMAIN waiters' :
            from(i) \in DOMAIN waiters /\ from(i) # k /\ waiters'[i] = waiters[from(i)]
      /\ \A i, j \in DOMAIN waiters' : from(i) = from(j) => i = j
  <2>1. Len(waiters) \in Nat /\ DOMAIN waiters = 1..Len(waiters) /\ k \in 1..Len(waiters)
    BY <1>w
  <2>2. DOMAIN waiters' = 1..(Len(waiters) - 1)
    BY <1>0
  <2>3. \A i \in 1..(Len(waiters) - 1) :
          from(i) \in 1..Len(waiters) /\ from(i) # k /\ waiters'[i] = waiters[from(i)]
    BY <1>0, <2>1
  <2>4. \A i \in 1..(Len(waiters) - 1) : waiters'[i] \in Task
    BY <1>w, <2>1, <2>3
  <2>5. waiters' \in Seq(Task)
    BY <1>0, <2>1, <2>2, <2>4, Len(waiters) - 1 \in Nat
  <2>6. \A i, j \in 1..(Len(waiters) - 1) : from(i) = from(j) => i = j
    BY <2>1
  <2> QED
    BY <2>1, <2>2, <2>3, <2>5, <2>6
<1>b. /\ stage' \in [Task -> Stages] /\ stage'[t] = "killed"
      /\ \A u \in Task : u # t => stage'[u] = stage[u]
  BY <1>s DEF IndInv, TypeOK, Stages
<1>c. \A i \in DOMAIN waiters : waiters[i] \in Task
  BY <1>w
<1> HIDE DEF from
<1>1. TypeOK'
  BY <1>a, <1>b, <1>s DEF IndInv, TypeOK
<1>2. TasksTell'
  <2>1. \A v \in Worker : \A i \in DOMAIN queue[v] : queue[v][i] \in Task /\ queue[v][i] # t
    BY <1>w DEF IndInv, TypeOK, TasksTell
  <2>2. \A v \in Worker : running[v] # t
    BY <1>w DEF IndInv, TypeOK, TasksTell
  <2>3. \A h \in {"recycle", "done"} : <<h, t>> \notin functors
    BY <1>w DEF IndInv, TasksTell
  <2>4. \A v \in Worker : \A i \in DOMAIN queue'[v] :
          stage'[queue'[v][i]] = "queued" /\ by'[queue'[v][i]] = v
    BY <1>b, <1>s, <2>1 DEF IndInv, TasksTell
  <2>5. \A v \in Worker : running'[v] # None =>
          stage'[running'[v]] = "running" /\ by'[running'[v]] = v
    BY <1>b, <1>s, <2>2 DEF IndInv, TypeOK, TasksTell
  <2>6. \A h \in {"recycle", "done"}, u \in Task : <<h, u>> \in functors' =>
          stage'[u] \in {"running", "done"} /\ \A v \in Worker : running'[v] # u
    BY <1>b, <1>s, <2>3 DEF IndInv, TasksTell
  <2> QED
    BY <2>4, <2>5, <2>6 DEF TasksTell
<1>3. WaitersTell'
  <2>1. \A i \in DOMAIN waiters' : waiters'[i] # t /\ waiters'[i] \in Task
    BY <1>0, <1>a, <1>c DEF IndInv, WaitersTell
  <2>2. \A i \in DOMAIN waiters' : stage'[waiters'[i]] = "waiting"
    BY <1>a, <1>b, <2>1 DEF IndInv, WaitersTell
  <2>3. \A i, j \in DOMAIN waiters' : waiters'[i] = waiters'[j] => i = j
    BY <1>a DEF IndInv, WaitersTell
  <2> QED
    BY <2>2, <2>3 DEF WaitersTell
<1>4. WorkersTell'
  BY <1>s DEF IndInv, WorkersTell, InIdle
<1>5. IdleIsFree'
  BY <1>s DEF IndInv, IdleIsFree, InIdle
<1>6. UnitsCounted'
  <2>1. UnderWay' = UnderWay
    BY <1>b, <1>s, <1>w DEF UnderWay
  <2> QED
    BY <1>s, <2>1, SameUnits DEF IndInv
<1> QED
  BY <1>1, <1>2, <1>3, <1>4, <1>5, <1>6 DEF IndInv

\* The functor of the semaphore has nobody to wake.
LEMMA NotifyEndsKeeps ==
    ASSUME IndInv, NotifyEnds
    PROVE  IndInv'
<1> USE ThreadPoolAssumption DEF NotifyEnds
<1>1. TypeOK'
  BY DEF IndInv, TypeOK
<1>2. TasksTell' /\ WaitersTell' /\ WorkersTell' /\ IdleIsFree'
  <2>1. TasksTell' /\ WaitersTell'
    BY DEF IndInv, TasksTell, WaitersTell
  <2>2. WorkersTell' /\ IdleIsFree'
    BY DEF IndInv, WorkersTell, IdleIsFree, InIdle
  <2> QED
    BY <2>1, <2>2
<1>3. UnitsCounted'
  BY SameUnits DEF IndInv, UnderWay
<1> QED
  BY <1>1, <1>2, <1>3 DEF IndInv

\* A loop that ends takes its functors with it: nothing is counted from then on.
LEMMA LoopEndsKeeps ==
    ASSUME IndInv, NEW l \in Loop, LoopEnds(l)
    PROVE  IndInv'
<1> USE ThreadPoolAssumption DEF LoopEnds
<1>1. TypeOK'
  BY DEF IndInv, TypeOK
<1>2. TasksTell' /\ WaitersTell' /\ WorkersTell' /\ IdleIsFree'
  <2>1. TasksTell' /\ WaitersTell'
    BY DEF IndInv, TasksTell, WaitersTell
  <2>2. WorkersTell' /\ IdleIsFree'
    BY DEF IndInv, WorkersTell, IdleIsFree, InIdle
  <2> QED
    BY <2>1, <2>2
<1>3. UnitsCounted'
  BY DEF UnitsCounted
<1> QED
  BY <1>1, <1>2, <1>3 DEF IndInv

\* The event of a task is set.
LEMMA MarkDoneKeeps ==
    ASSUME IndInv, NEW t \in Task, MarkDone(t)
    PROVE  IndInv'
<1> USE ThreadPoolAssumption DEF MarkDone
<1>a. /\ stage' \in [Task -> Stages] /\ stage'[t] = "done"
      /\ \A u \in Task : u # t => stage'[u] = stage[u]
  BY DEF IndInv, TypeOK, Stages
<1>b. stage[t] \in {"running", "done"} /\ \A v \in Worker : running[v] # t
  BY DEF IndInv, TasksTell
<1>c. \A v \in Worker : \A i \in DOMAIN queue[v] : queue[v][i] \in Task /\ queue[v][i] # t
  BY <1>b DEF IndInv, TypeOK, TasksTell
<1>d. functors' \subseteq functors /\ \A u \in Task : <<"recycle", u>> \in functors' <=> <<"recycle", u>> \in functors
  OBVIOUS
<1>1. TypeOK'
  BY <1>a DEF IndInv, TypeOK
<1>2. TasksTell'
  <2>1. \A v \in Worker : \A i \in DOMAIN queue'[v] :
          stage'[queue'[v][i]] = "queued" /\ by'[queue'[v][i]] = v
    BY <1>a, <1>c DEF IndInv, TasksTell
  <2>2. \A v \in Worker : running'[v] # None =>
          stage'[running'[v]] = "running" /\ by'[running'[v]] = v
    BY <1>a, <1>b DEF IndInv, TypeOK, TasksTell
  <2>3. \A k \in {"recycle", "done"}, u \in Task : <<k, u>> \in functors' =>
          stage'[u] \in {"running", "done"} /\ \A v \in Worker : running'[v] # u
    BY <1>a, <1>b, <1>d DEF IndInv, TasksTell
  <2> QED
    BY <2>1, <2>2, <2>3 DEF TasksTell
<1>3. WaitersTell'
  BY <1>a, <1>b DEF IndInv, TypeOK, WaitersTell
<1>4. WorkersTell'
  BY <1>d DEF IndInv, WorkersTell, InIdle
<1>5. IdleIsFree'
  BY DEF IndInv, IdleIsFree, InIdle
<1>6. UnitsCounted'
  <2>1. UnderWay' = UnderWay
    BY <1>a, <1>b, <1>d DEF UnderWay
  <2> QED
    BY <2>1, SameUnits DEF IndInv
<1> QED
  BY <1>1, <1>2, <1>3, <1>4, <1>5, <1>6 DEF IndInv

\* A worker takes its only item and runs it, or exits if the loop has gone.
LEMMA TakeItemKeeps ==
    ASSUME IndInv, NEW w \in Worker, TakeItem(w)
    PROVE  IndInv'
<1> USE ThreadPoolAssumption
<1> DEFINE t == Head(queue[w])
<1>a. /\ queue[w] \in Seq(Task) /\ queue[w] # <<>> /\ Len(queue[w]) <= 1
      /\ running[w] = None /\ w \in workers \ exited
  BY DEF TakeItem, IndInv, TypeOK, WorkersTell
<1>b. t \in Task /\ t = queue[w][1] /\ 1 \in DOMAIN queue[w] /\ Tail(queue[w]) = <<>>
  <2>1. /\ t \in Task /\ t = queue[w][1] /\ 1 \in DOMAIN queue[w]
        /\ Tail(queue[w]) \in Seq(Task) /\ Len(Tail(queue[w])) = Len(queue[w]) - 1
    BY <1>a, FirstAndRest
  <2> QED
    BY <1>a, <2>1
<1>c. stage[t] = "queued" /\ by[t] = w
  BY <1>b DEF IndInv, TasksTell
<1>d. /\ queue' = [queue EXCEPT ![w] = <<>>]
      /\ UNCHANGED <<counter, waiters, notify, workers, idle, functors, alive, by>>
      /\ \/ /\ running' = [running EXCEPT ![w] = t]
            /\ stage' = [stage EXCEPT ![t] = "running"]
            /\ exited' = exited
         \/ /\ LoopOf[t] \notin alive
            /\ exited' = exited \cup {w}
            /\ stage' = [stage EXCEPT ![t] = "dropped"]
            /\ running' = running
  BY <1>b DEF TakeItem, LoopIsThere
<1>e. /\ queue' \in [Worker -> Seq(Task)] /\ queue'[w] = <<>> /\ Len(queue'[w]) = 0
      /\ \A v \in Worker : v # w => queue'[v] = queue[v]
  BY <1>d DEF IndInv, TypeOK
<1>f. /\ stage' \in [Task -> Stages] /\ stage'[t] \in {"running", "dropped"}
      /\ \A u \in Task : u # t => stage'[u] = stage[u]
  BY <1>b, <1>d DEF IndInv, TypeOK, Stages
<1>g. /\ running' \in [Worker -> Task \cup {None}]
      /\ \/ running'[w] = t /\ stage'[t] = "running" /\ exited' = exited
         \/ running'[w] = None /\ LoopOf[t] \notin alive /\ exited' = exited \cup {w}
      /\ \A v \in Worker : v # w => running'[v] = running[v]
  <2>1. running \in [Worker -> Task \cup {None}] /\ stage \in [Task -> Stages]
    BY DEF IndInv, TypeOK
  <2> HIDE DEF t
  <2>2. CASE /\ running' = [running EXCEPT ![w] = t]
             /\ stage' = [stage EXCEPT ![t] = "running"]
             /\ exited' = exited
    BY <1>b, <2>1, <2>2
  <2>3. CASE LoopOf[t] \notin alive /\ exited' = exited \cup {w} /\ running' = running
    BY <1>a, <2>1, <2>3
  <2> QED
    BY <1>d, <2>2, <2>3
<1>h. /\ \A k \in {"recycle", "done"} : <<k, t>> \notin functors
      /\ \A v \in Worker : running[v] # t
      /\ \A v \in Worker : v # w => \A i \in DOMAIN queue[v] : queue[v][i] \in Task /\ queue[v][i] # t
  <2>1. \A k \in {"recycle", "done"} : <<k, t>> \notin functors
    BY <1>b, <1>c DEF IndInv, TasksTell
  <2>2. \A v \in Worker : running[v] # t
    BY <1>b, <1>c DEF IndInv, TasksTell
  <2>3. \A v \in Worker : v # w => \A i \in DOMAIN queue[v] : queue[v][i] \in Task /\ queue[v][i] # t
    BY <1>c DEF IndInv, TypeOK, TasksTell
  <2> QED
    BY <2>1, <2>2, <2>3
<1>i. UNCHANGED <<counter, waiters, notify, workers, idle, functors, alive, by>>
  BY <1>d
<1>j. exited \subseteq exited' /\ exited' \subseteq exited \cup {w}
  BY <1>g
<1>k. \A u \in Task : <<"recycle", u>> \in functors => by[u] # w
  BY <1>a DEF IndInv, WorkersTell
<1>l. ~InIdle(w)
  BY <1>a DEF IndInv, IdleIsFree
<1> HIDE DEF t
<1>1. TypeOK'
  BY <1>e, <1>f, <1>g, <1>i, <1>j DEF IndInv, TypeOK
<1>2. TasksTell'
  <2>1. \A v \in Worker : \A i \in DOMAIN queue'[v] :
          stage'[queue'[v][i]] = "queued" /\ by'[queue'[v][i]] = v
    <3> SUFFICES ASSUME NEW v \in Worker, NEW i \in DOMAIN queue'[v]
                 PROVE  stage'[queue'[v][i]] = "queued" /\ by'[queue'[v][i]] = v
      OBVIOUS
    <3>1. v # w
      BY <1>e
    <3>2. i \in DOMAIN queue[v] /\ queue'[v][i] = queue[v][i]
      BY <1>e, <3>1
    <3> QED
      BY <1>f, <1>h, <1>i, <3>1, <3>2 DEF IndInv, TasksTell
  <2>2. \A v \in Worker : running'[v] # None =>
          stage'[running'[v]] = "running" /\ by'[running'[v]] = v
    <3> SUFFICES ASSUME NEW v \in Worker, running'[v] # None
                 PROVE  stage'[running'[v]] = "running" /\ by'[running'[v]] = v
      OBVIOUS
    <3>1. CASE v = w
      BY <1>c, <1>g, <1>i, <3>1
    <3>2. CASE v # w
      <4>1. running'[v] = running[v] /\ running[v] \in Task /\ running[v] # t
        BY <1>g, <1>h, <3>2 DEF IndInv, TypeOK
      <4> QED
        BY <1>f, <1>i, <4>1 DEF IndInv, TasksTell
    <3> QED
      BY <3>1, <3>2
  <2>3. \A k \in {"recycle", "done"}, u \in Task : <<k, u>> \in functors' =>
          stage'[u] \in {"running", "done"} /\ \A v \in Worker : running'[v] # u
    <3> SUFFICES ASSUME NEW k \in {"recycle", "done"}, NEW u \in Task, <<k, u>> \in functors
                 PROVE  stage'[u] \in {"running", "done"} /\ \A v \in Worker : running'[v] # u
      BY <1>i
    <3>1. u # t /\ stage[u] \in {"running", "done"} /\ \A v \in Worker : running[v] # u
      BY <1>h DEF IndInv, TasksTell
    <3> QED
      BY <1>f, <1>g, <3>1
  <2> QED
    BY <2>1, <2>2, <2>3 DEF TasksTell
<1>3. WaitersTell'
  <2>1. \A i \in DOMAIN waiters : waiters[i] \in Task /\ waiters[i] # t /\ stage[waiters[i]] = "waiting"
    BY <1>c DEF IndInv, TypeOK, WaitersTell
  <2> QED
    BY <1>f, <1>i, <2>1 DEF IndInv, WaitersTell
<1>4. WorkersTell'
  <2>1. exited' \subseteq workers'
    BY <1>a, <1>i, <1>j DEF IndInv, WorkersTell
  <2>2. \A v \in Worker :
          /\ Len(queue'[v]) <= 1
          /\ queue'[v] # <<>> => running'[v] = None /\ v \in workers' \ exited'
          /\ running'[v] # None => v \in workers' \ exited'
    <3> SUFFICES ASSUME NEW v \in Worker
                 PROVE  /\ Len(queue'[v]) <= 1
                        /\ queue'[v] # <<>> => running'[v] = None /\ v \in workers' \ exited'
                        /\ running'[v] # None => v \in workers' \ exited'
      OBVIOUS
    <3>1. CASE v = w
      <4>1. Len(queue'[v]) = 0 /\ queue'[v] = <<>>
        BY <1>e, <3>1
      <4>2. running'[v] # None => v \in workers' \ exited'
        BY <1>a, <1>g, <1>i, <3>1
      <4> QED
        BY <4>1, <4>2
    <3>2. CASE v # w
      BY <1>e, <1>g, <1>i, <1>j, <3>2 DEF IndInv, WorkersTell
    <3> QED
      BY <3>1, <3>2
  <2>3. \A u \in Task : <<"recycle", u>> \in functors' =>
          /\ by'[u] \in workers' \ exited'
          /\ queue'[by'[u]] = <<>> /\ running'[by'[u]] = None /\ \A i \in DOMAIN idle' : idle'[i] # by'[u]
    <3> SUFFICES ASSUME NEW u \in Task, <<"recycle", u>> \in functors
                 PROVE  /\ by[u] \in workers \ exited'
                        /\ queue'[by[u]] = <<>> /\ running'[by[u]] = None /\ \A i \in DOMAIN idle : idle[i] # by[u]
      BY <1>i
    <3>1. /\ by[u] \in workers \ exited /\ by[u] # w
          /\ queue[by[u]] = <<>> /\ running[by[u]] = None /\ ~InIdle(by[u])
      BY <1>k DEF IndInv, WorkersTell
    <3>2. by[u] \in Worker
      BY <3>1 DEF IndInv, TypeOK
    <3> QED
      BY <1>e, <1>g, <1>j, <3>1, <3>2 DEF InIdle
  <2> QED
    BY <1>i, <2>1, <2>2, <2>3 DEF IndInv, WorkersTell, InIdle
<1>5. IdleIsFree'
  <2>1. \A v \in Worker : InIdle(v)' => InIdle(v) /\ v # w
    BY <1>i, <1>l DEF InIdle
  <2>2. \A v \in Worker : InIdle(v)' =>
          v \in workers' \ exited' /\ queue'[v] = <<>> /\ running'[v] = None
    BY <1>e, <1>g, <1>i, <1>j, <2>1 DEF IndInv, IdleIsFree
  <2>3. \A v \in Worker : Len(queue'[v]) + (IF running'[v] = None THEN 0 ELSE 1) <= 1
    <3> SUFFICES ASSUME NEW v \in Worker
                 PROVE  Len(queue'[v]) + (IF running'[v] = None THEN 0 ELSE 1) <= 1
      OBVIOUS
    <3>1. CASE v = w
      <4>1. Len(queue'[v]) = 0
        BY <1>e, <3>1
      <4> QED
        BY <4>1
    <3>2. CASE v # w
      BY <1>e, <1>g, <3>2 DEF IndInv, IdleIsFree
    <3> QED
      BY <3>1, <3>2
  <2> QED
    BY <1>i, <2>2, <2>3 DEF IndInv, IdleIsFree
<1>6. UnitsCounted'
  <2>1. CASE alive = Loop
    <3>1. running'[w] = t /\ t \in UnderWay
      BY <1>b, <1>c, <1>g, <2>1 DEF UnderWay
    <3>2. \A u \in Task : (\E v \in Worker : running'[v] = u) <=> (u = t \/ \E v \in Worker : running[v] = u)
      BY <1>a, <1>b, <1>g, <3>1
    <3>3. UnderWay' = UnderWay
      BY <1>b, <1>c, <1>f, <1>i, <3>2 DEF UnderWay
    <3> QED
      BY <1>i, <3>3, SameUnits DEF IndInv
  <2>2. CASE alive # Loop
    BY <1>i, <2>2 DEF UnitsCounted
  <2> QED
    BY <2>1, <2>2
<1> QED
  BY <1>1, <1>2, <1>3, <1>4, <1>5, <1>6 DEF IndInv

\* A worker posts the functors of the task it has run, to be recycled by one.
LEMMA FinishItemKeeps ==
    ASSUME IndInv, NEW w \in Worker, FinishItem(w)
    PROVE  IndInv'
<1> USE ThreadPoolAssumption
<1> DEFINE t == running[w]
<1>a. /\ t \in Task /\ stage[t] = "running" /\ by[t] = w
      /\ queue[w] = <<>> /\ w \in workers \ exited
  BY DEF FinishItem, IndInv, TypeOK, TasksTell, WorkersTell
<1>b. /\ running' = [running EXCEPT ![w] = None]
      /\ functors' = functors \cup {<<"recycle", t>>, <<"done", t>>}
      /\ UNCHANGED <<counter, waiters, notify, workers, idle, queue, exited, alive, by, stage>>
  BY DEF FinishItem
<1>c. /\ running' \in [Worker -> Task \cup {None}] /\ running'[w] = None
      /\ \A v \in Worker : v # w => running'[v] = running[v] /\ running[v] # t
  BY <1>a, <1>b DEF IndInv, TypeOK, TasksTell
<1>d. ~InIdle(w) /\ \A u \in Task : <<"recycle", u>> \in functors => by[u] # w
  BY <1>a DEF IndInv, IdleIsFree, WorkersTell
<1>e. running[w] = t
  OBVIOUS
<1> HIDE DEF t
<1>1. TypeOK'
  BY <1>a, <1>b, <1>c DEF IndInv, TypeOK
<1>2. TasksTell'
  <2>1. \A v \in Worker : running'[v] # None =>
          stage'[running'[v]] = "running" /\ by'[running'[v]] = v
    BY <1>b, <1>c DEF IndInv, TasksTell
  <2>2. \A k \in {"recycle", "done"}, u \in Task : <<k, u>> \in functors' =>
          stage'[u] \in {"running", "done"} /\ \A v \in Worker : running'[v] # u
    <3> SUFFICES ASSUME NEW k \in {"recycle", "done"}, NEW u \in Task, <<k, u>> \in functors'
                 PROVE  stage[u] \in {"running", "done"} /\ \A v \in Worker : running'[v] # u
      BY <1>b
    <3>1. CASE u = t
      BY <1>a, <1>c, <3>1
    <3>2. CASE u # t
      <4>1. <<k, u>> \in functors
        BY <1>b, <3>2
      <4> QED
        BY <1>c, <4>1 DEF IndInv, TasksTell
    <3> QED
      BY <3>1, <3>2
  <2> QED
    BY <1>b, <2>1, <2>2 DEF IndInv, TasksTell
<1>3. WaitersTell'
  BY <1>b DEF IndInv, WaitersTell
<1>4. WorkersTell'
  <2>1. \A v \in Worker :
          /\ Len(queue'[v]) <= 1
          /\ queue'[v] # <<>> => running'[v] = None /\ v \in workers' \ exited'
          /\ running'[v] # None => v \in workers' \ exited'
    BY <1>b, <1>c DEF IndInv, WorkersTell
  <2>2. \A u \in Task : <<"recycle", u>> \in functors' =>
          /\ by'[u] \in workers' \ exited'
          /\ queue'[by'[u]] = <<>> /\ running'[by'[u]] = None /\ \A i \in DOMAIN idle' : idle'[i] # by'[u]
    <3> SUFFICES ASSUME NEW u \in Task, <<"recycle", u>> \in functors'
                 PROVE  /\ by[u] \in workers \ exited
                        /\ queue[by[u]] = <<>> /\ running'[by[u]] = None /\ ~InIdle(by[u])
      BY <1>b DEF InIdle
    <3>1. CASE u = t
      BY <1>a, <1>c, <1>d, <3>1
    <3>2. CASE u # t
      <4>1. <<"recycle", u>> \in functors
        BY <1>b, <3>2
      <4>2. /\ by[u] \in workers \ exited /\ by[u] # w
            /\ queue[by[u]] = <<>> /\ running[by[u]] = None /\ ~InIdle(by[u])
        BY <1>d, <4>1 DEF IndInv, WorkersTell
      <4>3. by[u] \in Worker
        BY <4>2 DEF IndInv, TypeOK
      <4> QED
        BY <1>c, <4>2, <4>3
    <3> QED
      BY <3>1, <3>2
  <2>3. \A x, u \in Task :
          <<"recycle", x>> \in functors' /\ <<"recycle", u>> \in functors' /\ by'[x] = by'[u] => x = u
    <3>1. \A u \in Task : <<"recycle", u>> \in functors' => u = t \/ <<"recycle", u>> \in functors
      BY <1>b
    <3> QED
      BY <1>a, <1>b, <1>d, <3>1 DEF IndInv, WorkersTell
  <2> QED
    BY <1>b, <2>1, <2>2, <2>3 DEF IndInv, WorkersTell, InIdle
<1>5. IdleIsFree'
  <2>1. \A v \in Worker : InIdle(v)' => InIdle(v) /\ v # w
    BY <1>b, <1>d DEF InIdle
  <2>2. \A v \in Worker : InIdle(v)' =>
          v \in workers' \ exited' /\ queue'[v] = <<>> /\ running'[v] = None
    BY <1>b, <1>c, <2>1 DEF IndInv, IdleIsFree
  <2>3. \A v \in Worker : Len(queue'[v]) + (IF running'[v] = None THEN 0 ELSE 1) <= 1
    <3> SUFFICES ASSUME NEW v \in Worker
                 PROVE  Len(queue[v]) + (IF running'[v] = None THEN 0 ELSE 1) <= 1
      BY <1>b
    <3>1. CASE v = w
      BY <1>c, <3>1 DEF IndInv, TypeOK, WorkersTell
    <3>2. CASE v # w
      BY <1>c, <3>2 DEF IndInv, IdleIsFree
    <3> QED
      BY <3>1, <3>2
  <2> QED
    BY <1>b, <2>2, <2>3 DEF IndInv, IdleIsFree
<1>6. UnitsCounted'
  <2>1. CASE alive = Loop
    <3>1. \A u \in Task : u # t => (\E v \in Worker : running'[v] = u) <=> (\E v \in Worker : running[v] = u)
      BY <1>c, <1>e
    <3>2. \A u \in Task : u # t => (<<"recycle", u>> \in functors' <=> <<"recycle", u>> \in functors)
      BY <1>b
    <3>3. t \in UnderWay /\ t \in UnderWay'
      BY <1>a, <1>b, <1>e, <2>1 DEF UnderWay
    <3>4. \A u \in Task : u # t => (u \in UnderWay' <=> u \in UnderWay)
      BY <1>b, <3>1, <3>2 DEF UnderWay
    <3>5. UnderWay \subseteq Task /\ UnderWay' \subseteq Task
      BY DEF UnderWay
    <3>6. UnderWay' = UnderWay
      BY <3>3, <3>4, <3>5
    <3> QED
      BY <1>b, <3>6, SameUnits DEF IndInv
  <2>2. CASE alive # Loop
    BY <1>b, <2>2 DEF UnitsCounted
  <2> QED
    BY <2>1, <2>2
<1> QED
  BY <1>1, <1>2, <1>3, <1>4, <1>5, <1>6 DEF IndInv

\* A recycled worker is idle, and there is room for the unit.
LEMMA RecycleKeeps ==
    ASSUME IndInv, NEW t \in Task, Recycle(t)
    PROVE  IndInv'
<1> USE ThreadPoolAssumption
<1> DEFINE w == by[t]
<1>a. /\ w \in workers \ exited /\ w \in Worker
      /\ queue[w] = <<>> /\ running[w] = None /\ ~InIdle(w)
  BY DEF Recycle, IndInv, TypeOK, WorkersTell
<1>b. /\ functors' = functors \ {<<"recycle", t>>} /\ <<"recycle", t>> \in functors
      /\ counter' = IF counter < Threads THEN counter + 1 ELSE Threads
      /\ LoopOf[t] \in alive
      /\ UNCHANGED <<waiters, workers, queue, running, exited, alive, by, stage>>
  BY DEF Recycle
<1>c. /\ idle' \in Seq(Worker)
      /\ \A i \in DOMAIN idle' : \/ i \in DOMAIN idle /\ idle'[i] = idle[i]
                                 \/ i = Len(idle) + 1 /\ idle'[i] = w
  BY <1>a, OneMore DEF Recycle, IndInv, TypeOK
<1>d. \A v \in Worker : InIdle(v)' => InIdle(v) \/ v = w
  BY <1>c DEF InIdle
<1>e. \A u \in Task : <<"recycle", u>> \in functors' => <<"recycle", u>> \in functors /\ u # t /\ by[u] # w
  BY <1>b DEF IndInv, WorkersTell
<1>f. notify' \in Loop \cup {None}
  BY DEF Recycle, IndInv, TypeOK
<1>g. counter \in Nat /\ Threads \in Nat /\ counter <= Threads
  BY DEF IndInv, TypeOK
<1> HIDE DEF w
<1>1. TypeOK'
  <2>1. counter' \in 0..Threads
    BY <1>b, <1>g
  <2>2. functors' \subseteq {"recycle", "done"} \X Task
    BY <1>b DEF IndInv, TypeOK
  <2> QED
    BY <1>b, <1>c, <1>f, <2>1, <2>2 DEF IndInv, TypeOK
<1>2. TasksTell'
  BY <1>b DEF IndInv, TasksTell
<1>3. WaitersTell'
  BY <1>b DEF IndInv, WaitersTell
<1>4. WorkersTell'
  <2>1. \A u \in Task : <<"recycle", u>> \in functors' =>
          /\ by'[u] \in workers' \ exited'
          /\ queue'[by'[u]] = <<>> /\ running'[by'[u]] = None /\ \A i \in DOMAIN idle' : idle'[i] # by'[u]
    <3> SUFFICES ASSUME NEW u \in Task, <<"recycle", u>> \in functors'
                 PROVE  /\ by[u] \in workers \ exited
                        /\ queue[by[u]] = <<>> /\ running[by[u]] = None /\ \A i \in DOMAIN idle' : idle'[i] # by[u]
      BY <1>b
    <3>1. /\ by[u] \in workers \ exited /\ by[u] # w
          /\ queue[by[u]] = <<>> /\ running[by[u]] = None /\ ~InIdle(by[u])
      BY <1>e DEF IndInv, WorkersTell
    <3> QED
      BY <1>c, <3>1 DEF InIdle
  <2> QED
    BY <1>b, <1>e, <2>1 DEF IndInv, WorkersTell, InIdle
<1>5. IdleIsFree'
  <2>1. \A v \in Worker : InIdle(v)' =>
          v \in workers' \ exited' /\ queue'[v] = <<>> /\ running'[v] = None
    BY <1>a, <1>b, <1>d DEF IndInv, IdleIsFree
  <2>2. \A i, j \in DOMAIN idle' : idle'[i] = idle'[j] => i = j
    <3>1. \A i \in DOMAIN idle : idle[i] # w
      BY <1>a DEF InIdle
    <3> QED
      BY <1>c, <3>1 DEF IndInv, IdleIsFree
  <2> QED
    BY <1>b, <2>1, <2>2 DEF IndInv, IdleIsFree
<1>6. UnitsCounted'
  <2>1. stage[t] # "queued" /\ \A v \in Worker : running[v] # t
    BY <1>b DEF IndInv, TasksTell
  <2>2. t \in UnderWay /\ t \notin UnderWay'
    BY <1>b, <2>1 DEF UnderWay
  <2>3. \A u \in Task : u # t => (<<"recycle", u>> \in functors' <=> <<"recycle", u>> \in functors)
    BY <1>b
  <2>4. UnderWay' = UnderWay \ {t}
    BY <1>b, <2>1, <2>3 DEF UnderWay
  <2>5. ASSUME alive = Loop
        PROVE  IsFiniteSet(UnderWay') /\ counter' + Cardinality(UnderWay') = Threads
    <3>1. IsFiniteSet(UnderWay) /\ counter + Cardinality(UnderWay) = Threads
      BY <2>5 DEF IndInv, UnitsCounted
    <3>2. counter \in 0..Threads
      BY <1>g
    <3>3. IsFiniteSet(UnderWay') /\ counter + 1 + Cardinality(UnderWay') = Threads /\ counter < Threads
      BY <2>2, <2>4, <3>1, <3>2, UnitReturned
    <3>4. counter' = counter + 1
      BY <1>b, <3>3
    <3> QED
      BY <3>3, <3>4
  <2> QED
    BY <1>b, <2>5 DEF UnitsCounted
<1> QED
  BY <1>1, <1>2, <1>3, <1>4, <1>5, <1>6 DEF IndInv
--------------------------------------------------------------------------------
\* Every step keeps the invariant.
LEMMA NextIndInv ==
    ASSUME IndInv, [Next]_vars
    PROVE  IndInv'
<1>1. CASE Next
  <2>1. ASSUME NEW t \in Task,
               Submit(t) \/ SubmitWaits(t) \/ SubmitThrows(t) \/ Recycle(t) \/ MarkDone(t)
        PROVE  IndInv'
    BY <2>1, SubmitKeeps, SubmitWaitsKeeps, SubmitThrowsKeeps, RecycleKeeps, MarkDoneKeeps
  <2>2. ASSUME Wake \/ NotifyEnds
        PROVE  IndInv'
    BY <2>2, WakeKeeps, NotifyEndsKeeps
  <2>3. ASSUME NEW w \in Worker, TakeItem(w) \/ FinishItem(w)
        PROVE  IndInv'
    BY <2>3, TakeItemKeeps, FinishItemKeeps
  <2>4. ASSUME NEW l \in Loop, LoopEnds(l)
        PROVE  IndInv'
    BY <2>4, LoopEndsKeeps
  <2> QED
    BY <1>1, <2>1, <2>2, <2>3, <2>4 DEF Next
<1>2. CASE UNCHANGED vars
  <2>1. TypeOK' /\ TasksTell' /\ WaitersTell'
    BY <1>2 DEF vars, IndInv, TypeOK, TasksTell, WaitersTell
  <2>2. WorkersTell' /\ IdleIsFree'
    BY <1>2 DEF vars, IndInv, WorkersTell, IdleIsFree, InIdle
  <2>3. UnitsCounted'
    BY <1>2, SameUnits DEF vars, IndInv, UnderWay
  <2> QED
    BY <2>1, <2>2, <2>3 DEF IndInv
<1> QED
  BY <1>1, <1>2

\* A worker that submit() takes from the idle vector has nothing to do, is in
\* it once and has not exited, so no task waits behind another's, however many
\* threads use the pool and whichever of them end.
THEOREM WorkersAreFree == Spec => [](TypeOK /\ IdleIsFree)
<1>1. IndInv => TypeOK /\ IdleIsFree
  BY DEF IndInv
<1> QED
  BY InitIndInv, NextIndInv, <1>1, PTL DEF Spec

\* As long as no loop has ended, the units of the semaphore are those of the
\* tasks under way and the free ones: release() in onLoopFinished() never finds
\* the counter at its limit.
THEOREM NoUnitIsLost == Spec => []UnitsConserved
<1>1. IndInv => UnitsConserved
  BY DEF IndInv, UnitsCounted, UnitsConserved, UnitsComeBack
<1> QED
  BY InitIndInv, NextIndInv, <1>1, PTL DEF Spec
--------------------------------------------------------------------------------
(* Coroutine: start, kill, join and the switch at the end. *)

\* Who runs is in no call; who is in a call has started.
RunningRuns ==
    /\ current \in Coroutine => isRunning(current) /\ where[current] = "run"
    /\ \A c \in Coroutine : where[c] # "run" => isRunning(c)

\* A call of join(), or a kill that joins, is about another coroutine.
TargetsTell ==
    \A c \in Coroutine :
        /\ where[c] \in {"join", "raise"} => target[c] \in Coroutine
        /\ previous[c] # c

\* A timer is that of an msleep(), and a scheduled wake-up that of the join() of
\* a coroutine that has finished.
CallbacksTell ==
    /\ \A c \in timers : where[c] = "sleep"
    /\ \A c \in wakes : where[c] = "join" /\ isFinished(target[c])

\* As long as no two kills met: no exception is on its way to those in a kill
\* that joins...
NoKillMeets ==
    ~crossed => \A c \in Coroutine, e \in Exceptions, n \in KillIds :
        where[c] = "raise" => <<c, e, n>> \notin kills /\ <<target[c], e, n>> \notin kills

\* ... the victim of such a kill knows whom to give the processor back to...
KillerIsRemembered ==
    ~crossed => \A c \in Coroutine : where[c] = "raise" => previous[target[c]] = c

\* ... and the coroutine to switch to waits in such a kill for this end.
PreviousWaits ==
    ~crossed => \A c \in Coroutine :
        previous[c] # EventLoop /\ ~isFinished(c) =>
            /\ where[previous[c]] = "raise"
            /\ target[previous[c]] = c

\* A kill that joins waits for a coroutine that has not finished.
VictimRuns ==
    ~crossed => \A c \in Coroutine : where[c] = "raise" => isRunning(target[c])

CoroutineInv ==
    /\ CoroutineTypeOK
    /\ RunningRuns
    /\ TargetsTell
    /\ CallbacksTell
    /\ NoJoinerLeftBehind
    /\ NoKillMeets
    /\ KillerIsRemembered
    /\ PreviousWaits
    /\ VictimRuns
    /\ SwitchesAreSound
--------------------------------------------------------------------------------
\* The invariant holds when the first coroutine is to start.
LEMMA InitCoroutineInv ==
    CoroutineInit => CoroutineInv
<1> SUFFICES ASSUME CoroutineInit PROVE CoroutineInv
  OBVIOUS
<1> USE CoroutineAssumption DEF CoroutineInit
<1>1. crossed \in BOOLEAN
  OBVIOUS
<1>2. CoroutineTypeOK
  BY <1>1 DEF CoroutineTypeOK
<1>3. RunningRuns /\ TargetsTell /\ CallbacksTell
  BY DEF RunningRuns, TargetsTell, CallbacksTell
<1>4. NoJoinerLeftBehind /\ NoKillMeets /\ KillerIsRemembered /\ PreviousWaits /\ VictimRuns
  BY DEF NoJoinerLeftBehind, NoKillMeets, KillerIsRemembered, PreviousWaits, VictimRuns, InKill
<1>5. SwitchesAreSound
  BY DEF SwitchesAreSound, PreviousIsWaiting
<1> QED
  BY <1>2, <1>3, <1>4, <1>5 DEF CoroutineInv

\* start() schedules the functor.
LEMMA startKeeps ==
    ASSUME CoroutineInv, NEW c \in Coroutine, NEW d \in Coroutine, start(c, d)
    PROVE  CoroutineInv'
<1> USE CoroutineAssumption DEF CoroutineInv, CoroutineTypeOK, RunningRuns, TargetsTell, CallbacksTell,
                                isRunning, isFinished, start
<1>0. crossed' \in BOOLEAN
  BY Zenon
<1>1. CoroutineTypeOK'
  BY <1>0
<1>2. RunningRuns' /\ TargetsTell' /\ CallbacksTell'
  BY DEF Joiners
<1>3. NoJoinerLeftBehind'
  BY DEF NoJoinerLeftBehind, Joiners
<1>4. NoKillMeets'
  BY DEF NoKillMeets, InKill, KillPending
<1>5. KillerIsRemembered' /\ PreviousWaits' /\ VictimRuns'
  BY DEF KillerIsRemembered, PreviousWaits, VictimRuns, NoKillMeets, InKill, KillPending
<1>6. SwitchesAreSound'
  BY DEF SwitchesAreSound, PreviousIsWaiting, PreviousWaits
<1> QED
  BY <1>1, <1>2, <1>3, <1>4, <1>5, <1>6

\* kill() of a coroutine in a kill that joins is a meeting of two kills.
LEMMA killKeeps ==
    ASSUME CoroutineInv, NEW c \in Coroutine, NEW d \in Coroutine, NEW e \in Exceptions, kill(c, d, e)
    PROVE  CoroutineInv'
<1> USE CoroutineAssumption DEF CoroutineInv, CoroutineTypeOK, RunningRuns, TargetsTell, CallbacksTell,
                                isRunning, isFinished, kill, killInitial
<1>0. crossed' \in BOOLEAN
  BY Zenon
<1>k. UNCHANGED kills \/ \E n \in KillIds : kills' = kills \cup {<<d, e, n>>}
  BY Zenon DEF ScheduleKill
<1>1. CoroutineTypeOK'
  <2>1. kills' \subseteq Coroutine \X Exceptions \X KillIds
    BY <1>k
  <2>2. /\ state' \in [Coroutine -> {"Initialized", "Started", "Stopped", "Joined"}]
        /\ starts' \subseteq Coroutine /\ wakes' \subseteq Coroutine
    BY DEF Joiners
  <2> QED
    BY <1>0, <2>1, <2>2
<1>2. RunningRuns' /\ TargetsTell' /\ CallbacksTell'
  BY DEF Joiners
<1>3. NoJoinerLeftBehind'
  BY DEF NoJoinerLeftBehind, Joiners
<1>4. NoKillMeets'
  <2> SUFFICES ASSUME ~crossed', NEW x \in Coroutine, NEW y \in Exceptions, NEW m \in KillIds,
                      where[x] = "raise"
               PROVE  <<x, y, m>> \notin kills' /\ <<target[x], y, m>> \notin kills'
    BY DEF NoKillMeets
  <2>1. ~crossed /\ d # x /\ d # target[x]
    BY Zenon DEF InKill
  <2>2. <<x, y, m>> \notin kills /\ <<target[x], y, m>> \notin kills
    BY <2>1 DEF NoKillMeets
  <2>3. \A k \in kills' : k \in kills \/ \E n \in KillIds : k = <<d, e, n>>
    BY <1>k
  <2> QED
    BY <2>1, <2>2, <2>3
<1>5. KillerIsRemembered' /\ PreviousWaits' /\ VictimRuns'
  BY DEF KillerIsRemembered, PreviousWaits, VictimRuns, NoKillMeets, InKill, KillPending
<1>6. SwitchesAreSound'
  BY DEF SwitchesAreSound, PreviousIsWaiting, PreviousWaits
<1> QED
  BY <1>1, <1>2, <1>3, <1>4, <1>5, <1>6

\* msleep() has a timer.
LEMMA msleepKeeps ==
    ASSUME CoroutineInv, NEW c \in Coroutine, msleep(c)
    PROVE  CoroutineInv'
<1> USE CoroutineAssumption DEF CoroutineInv, CoroutineTypeOK, RunningRuns, TargetsTell, CallbacksTell,
                                isRunning, isFinished, msleep, Suspend
<1>0. crossed' \in BOOLEAN
  BY Zenon
<1>1. CoroutineTypeOK'
  BY <1>0
<1>2. RunningRuns' /\ TargetsTell' /\ CallbacksTell'
  BY DEF Joiners
<1>3. NoJoinerLeftBehind'
  BY DEF NoJoinerLeftBehind, Joiners
<1>4. NoKillMeets'
  BY DEF NoKillMeets, InKill, KillPending
<1>5. KillerIsRemembered' /\ PreviousWaits' /\ VictimRuns'
  BY DEF KillerIsRemembered, PreviousWaits, VictimRuns, NoKillMeets, InKill, KillPending
<1>6. SwitchesAreSound'
  BY DEF SwitchesAreSound, PreviousIsWaiting, PreviousWaits
<1> QED
  BY <1>1, <1>2, <1>3, <1>4, <1>5, <1>6

\* join() of one that has not finished.
LEMMA joinKeeps ==
    ASSUME CoroutineInv, NEW c \in Coroutine, NEW d \in Coroutine, join(c, d)
    PROVE  CoroutineInv'
<1> USE CoroutineAssumption DEF CoroutineInv, CoroutineTypeOK, RunningRuns, TargetsTell, CallbacksTell,
                                isRunning, isFinished, join, Suspend
<1>0. crossed' \in BOOLEAN
  BY Zenon
<1>1. CoroutineTypeOK'
  BY <1>0
<1>2. RunningRuns' /\ TargetsTell' /\ CallbacksTell'
  BY DEF Joiners
<1>3. NoJoinerLeftBehind'
  BY DEF NoJoinerLeftBehind, Joiners
<1>4. NoKillMeets'
  BY DEF NoKillMeets, InKill, KillPending
<1>5. KillerIsRemembered' /\ PreviousWaits' /\ VictimRuns'
  BY DEF KillerIsRemembered, PreviousWaits, VictimRuns, NoKillMeets, InKill, KillPending
<1>6. SwitchesAreSound'
  BY DEF SwitchesAreSound, PreviousIsWaiting, PreviousWaits
<1> QED
  BY <1>1, <1>2, <1>3, <1>4, <1>5, <1>6

\* A kill that joins meets another one, or is the only one about d.
LEMMA killJoinKeeps ==
    ASSUME CoroutineInv, NEW c \in Coroutine, NEW d \in Coroutine, killJoin(c, d)
    PROVE  CoroutineInv'
<1> USE CoroutineAssumption DEF CoroutineInv, CoroutineTypeOK, RunningRuns, TargetsTell, CallbacksTell,
                                isRunning, isFinished, killJoin
<1>0. crossed' \in BOOLEAN
  BY Zenon
<1>1. CoroutineTypeOK'
  BY <1>0
<1>2. RunningRuns' /\ TargetsTell' /\ CallbacksTell'
  BY DEF Joiners
<1>3. NoJoinerLeftBehind'
  BY DEF NoJoinerLeftBehind, Joiners
<1>4. ASSUME ~crossed'
      PROVE  /\ ~crossed
             /\ \A x \in Coroutine : where[x] = "raise" => d # x /\ d # target[x]
             /\ \A y \in Exceptions, n \in KillIds :
                   <<c, y, n>> \notin kills /\ <<d, y, n>> \notin kills
  <2>1. ~(crossed \/ InKill(d) \/ KillPending(c) \/ KillPending(d))
    BY <1>4
  <2> QED
    BY <2>1, Zenon DEF InKill, KillPending
<1>5. /\ \A x \in Coroutine : x # c /\ x # d => where'[x] = where[x] /\ target'[x] = target[x]
      /\ where'[c] = "raise" /\ target'[c] = d /\ where'[d] = "run"
      /\ \A x \in Coroutine : previous'[x] = IF x = d THEN c ELSE previous[x]
      /\ UNCHANGED <<state, kills>> /\ where[c] = "run" /\ isRunning(d) /\ c # d
  OBVIOUS
<1>6. NoKillMeets'
  BY <1>4, <1>5, SMTT(30) DEF NoKillMeets
<1>7. KillerIsRemembered'
  BY <1>4, <1>5 DEF KillerIsRemembered
<1>8. PreviousWaits'
  BY <1>4, <1>5 DEF PreviousWaits
<1>9. VictimRuns'
  BY <1>4, <1>5 DEF VictimRuns
<1>10. SwitchesAreSound'
  BY DEF SwitchesAreSound, PreviousIsWaiting, PreviousWaits
<1> QED
  BY <1>1, <1>2, <1>3, <1>6, <1>7, <1>8, <1>9, <1>10

\* The end of c wakes its joiners and the kill that waits for it.
LEMMA finishKeeps ==
    ASSUME CoroutineInv, NEW c \in Coroutine, finish(c)
    PROVE  CoroutineInv'
<1> USE CoroutineAssumption DEF CoroutineInv, CoroutineTypeOK, RunningRuns, TargetsTell, CallbacksTell,
                                isRunning, isFinished, finish
<1>0. crossed' \in BOOLEAN
  BY Zenon
<1>1. CoroutineTypeOK'
  <2>1. wakes' \subseteq Coroutine /\ timers' \subseteq Coroutine
    BY DEF Joiners
  <2>2. current' \in Coroutine \cup {EventLoop, "lost"}
    OBVIOUS
  <2>3. /\ where' \in [Coroutine -> {"run", "sleep", "join", "raise"}]
        /\ target' \in [Coroutine -> Coroutine \cup {EventLoop}]
    OBVIOUS
  <2>4. state' \in [Coroutine -> {"Initialized", "Started", "Stopped", "Joined"}]
    OBVIOUS
  <2> QED
    BY <1>0, <2>1, <2>2, <2>3, <2>4
<1>2. RunningRuns' /\ TargetsTell' /\ CallbacksTell'
  BY DEF Joiners
<1>3. NoJoinerLeftBehind'
  BY DEF NoJoinerLeftBehind, Joiners
<1>4. NoKillMeets'
  BY DEF NoKillMeets, InKill, KillPending
<1>5. KillerIsRemembered' /\ PreviousWaits' /\ VictimRuns'
  BY DEF KillerIsRemembered, PreviousWaits, VictimRuns, NoKillMeets, InKill, KillPending
<1>6. SwitchesAreSound'
  BY DEF SwitchesAreSound, PreviousIsWaiting, PreviousWaits
<1> QED
  BY <1>1, <1>2, <1>3, <1>4, <1>5, <1>6

\* The functor of start() runs.
LEMMA startFiresKeeps ==
    ASSUME CoroutineInv, NEW c \in Coroutine, startFires(c)
    PROVE  CoroutineInv'
<1> USE CoroutineAssumption DEF CoroutineInv, CoroutineTypeOK, RunningRuns, TargetsTell, CallbacksTell,
                                isRunning, isFinished, startFires
<1>0. crossed' \in BOOLEAN
  BY Zenon
<1>1. CoroutineTypeOK'
  BY <1>0
<1>2. RunningRuns' /\ TargetsTell' /\ CallbacksTell'
  BY DEF Joiners
<1>3. NoJoinerLeftBehind'
  BY DEF NoJoinerLeftBehind, Joiners
<1>4. NoKillMeets'
  BY DEF NoKillMeets, InKill, KillPending
<1>5. KillerIsRemembered' /\ PreviousWaits' /\ VictimRuns'
  BY DEF KillerIsRemembered, PreviousWaits, VictimRuns, NoKillMeets, InKill, KillPending
<1>6. SwitchesAreSound'
  BY DEF SwitchesAreSound, PreviousIsWaiting, PreviousWaits
<1> QED
  BY <1>1, <1>2, <1>3, <1>4, <1>5, <1>6

\* The functor of kill() runs: its victim is in no kill that joins, or two met.
LEMMA killFiresKeeps ==
    ASSUME CoroutineInv, NEW c \in Coroutine, NEW e \in Exceptions, killFires(c, e)
    PROVE  CoroutineInv'
<1> USE CoroutineAssumption DEF CoroutineInv, CoroutineTypeOK, RunningRuns, TargetsTell, CallbacksTell,
                                isRunning, isFinished, killFires, Resume
<1>0. crossed' \in BOOLEAN
  BY Zenon
<1>1. CoroutineTypeOK'
  BY <1>0
<1>2. RunningRuns' /\ TargetsTell' /\ CallbacksTell'
  BY DEF Joiners
<1>3. NoJoinerLeftBehind'
  BY DEF NoJoinerLeftBehind, Joiners
<1>4. NoKillMeets'
  BY DEF NoKillMeets, InKill, KillPending
<1>5. ~crossed => where[c] # "raise"
  BY DEF NoKillMeets
<1>6. KillerIsRemembered' /\ PreviousWaits' /\ VictimRuns'
  BY <1>5 DEF KillerIsRemembered, PreviousWaits, VictimRuns
<1>7. SwitchesAreSound'
  BY DEF SwitchesAreSound, PreviousIsWaiting, PreviousWaits
<1> QED
  BY <1>1, <1>2, <1>3, <1>4, <1>6, <1>7

\* The timer of msleep() fires.
LEMMA timerFiresKeeps ==
    ASSUME CoroutineInv, NEW c \in Coroutine, timerFires(c)
    PROVE  CoroutineInv'
<1> USE CoroutineAssumption DEF CoroutineInv, CoroutineTypeOK, RunningRuns, TargetsTell, CallbacksTell,
                                isRunning, isFinished, timerFires, Resume
<1>0. crossed' \in BOOLEAN
  BY Zenon
<1>1. CoroutineTypeOK'
  BY <1>0
<1>2. RunningRuns' /\ TargetsTell' /\ CallbacksTell'
  BY DEF Joiners
<1>3. NoJoinerLeftBehind'
  BY DEF NoJoinerLeftBehind, Joiners
<1>4. NoKillMeets'
  BY DEF NoKillMeets, InKill, KillPending
<1>5. KillerIsRemembered' /\ PreviousWaits' /\ VictimRuns'
  BY DEF KillerIsRemembered, PreviousWaits, VictimRuns, NoKillMeets, InKill, KillPending
<1>6. SwitchesAreSound'
  BY DEF SwitchesAreSound, PreviousIsWaiting, PreviousWaits
<1> QED
  BY <1>1, <1>2, <1>3, <1>4, <1>5, <1>6

\* join() returns: its target has finished.
LEMMA joinReturnsKeeps ==
    ASSUME CoroutineInv, NEW c \in Coroutine, joinReturns(c)
    PROVE  CoroutineInv'
<1> USE CoroutineAssumption DEF CoroutineInv, CoroutineTypeOK, RunningRuns, TargetsTell, CallbacksTell,
                                isRunning, isFinished, joinReturns, Resume
<1>0. crossed' \in BOOLEAN
  BY Zenon
<1>1. CoroutineTypeOK'
  BY <1>0
<1>2. RunningRuns' /\ TargetsTell' /\ CallbacksTell'
  BY DEF Joiners
<1>3. NoJoinerLeftBehind'
  BY DEF NoJoinerLeftBehind, Joiners
<1>4. NoKillMeets'
  BY DEF NoKillMeets, InKill, KillPending
<1>5. KillerIsRemembered' /\ PreviousWaits' /\ VictimRuns'
  BY DEF KillerIsRemembered, PreviousWaits, VictimRuns, NoKillMeets, InKill, KillPending
<1>6. SwitchesAreSound'
  BY DEF SwitchesAreSound, PreviousIsWaiting, PreviousWaits
<1> QED
  BY <1>1, <1>2, <1>3, <1>4, <1>5, <1>6

\* Every step keeps the invariant.
LEMMA NextCoroutineInv ==
    CoroutineInv /\ [CoroutineNext]_coroutineVars => CoroutineInv'
<1> SUFFICES ASSUME CoroutineInv, [CoroutineNext]_coroutineVars PROVE CoroutineInv'
  OBVIOUS
<1>1. CASE UNCHANGED coroutineVars
  BY <1>1 DEF coroutineVars, CoroutineInv, CoroutineTypeOK, RunningRuns, TargetsTell, CallbacksTell,
              NoJoinerLeftBehind, NoKillMeets, KillerIsRemembered, PreviousWaits,
              VictimRuns, SwitchesAreSound, PreviousIsWaiting, isRunning, isFinished
<1>2. ASSUME NEW c \in Coroutine, Run(c) PROVE CoroutineInv'
  BY <1>2, startKeeps, killKeeps, msleepKeeps, joinKeeps, killJoinKeeps, finishKeeps DEF Run
<1>3. ASSUME NEW c \in Coroutine, Callback(c) PROVE CoroutineInv'
  BY <1>3, startFiresKeeps, killFiresKeeps, timerFiresKeeps, joinReturnsKeeps DEF Callback
<1> QED
  BY <1>1, <1>2, <1>3 DEF CoroutineNext

\* The invariant holds always.
LEMMA CoroutineAlways ==
    CoroutineSpec => []CoroutineInv
<1>1. CoroutineInit => CoroutineInv
  BY InitCoroutineInv
<1>2. CoroutineInv /\ [CoroutineNext]_coroutineVars => CoroutineInv'
  BY NextCoroutineInv
<1> QED
  BY <1>1, <1>2, PTL DEF CoroutineSpec

\* Whatever ends a coroutine (its return, an exception, or a kill() before it
\* started), whoever joins it has its wake-up scheduled (finishedEvent).
THEOREM JoinersAreWoken ==
    CoroutineSpec => [](CoroutineTypeOK /\ NoJoinerLeftBehind)
<1>1. CoroutineInv => CoroutineTypeOK /\ NoJoinerLeftBehind
  BY DEF CoroutineInv
<1>2. CoroutineSpec => []CoroutineInv
  BY CoroutineAlways
<1> QED
  BY <1>1, <1>2, PTL

\* As long as no two kills met, the coroutine that previous names is there and
\* waits for this end, in cleanup() of every coroutine.
THEOREM SwitchesStaySound ==
    CoroutineSpec => []SwitchesAreSound
<1>1. CoroutineInv => SwitchesAreSound
  BY DEF CoroutineInv
<1>2. CoroutineSpec => []CoroutineInv
  BY CoroutineAlways
<1> QED
  BY <1>1, <1>2, PTL

\* Only a coroutine that was started and has not finished runs or is suspended,
\* whatever functors StartCoroutineFunctor and KillCoroutineFunctor find.
THEOREM NothingElseRuns ==
    CoroutineSpec => []OnlyStartedRun
<1>1. CoroutineInv => OnlyStartedRun
  BY DEF CoroutineInv, RunningRuns, OnlyStartedRun
<1>2. CoroutineSpec => []CoroutineInv
  BY CoroutineAlways
<1> QED
  BY <1>1, <1>2, PTL

\* As long as no two kills met, nobody is left in CoroutineGroup::kill() with
\* join, in raise(), when its victim has finished.
THEOREM KillReturns ==
    CoroutineSpec => [](~crossed => KilledIsJoined)
<1>1. CoroutineInv => (~crossed => KilledIsJoined)
  BY DEF CoroutineInv, VictimRuns, KilledIsJoined, isRunning, isFinished
<1>2. CoroutineSpec => []CoroutineInv
  BY CoroutineAlways
<1> QED
  BY <1>1, <1>2, PTL
================================================================================
