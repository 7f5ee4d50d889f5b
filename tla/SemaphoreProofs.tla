---------------------------- MODULE SemaphoreProofs ----------------------------
(***************************************************************************)
(* Proofs about Semaphore, for any number of coroutines and any initial    *)
(* value.  IndInv is the inductive invariant; its parts are named below.   *)
(***************************************************************************)
EXTENDS Semaphore, SequenceTheorems, FiniteSetTheorems, TLAPS

\* A coroutine that runs is not blocked in acquire().
RunningIsReady == \A c \in Coroutine : current = c => pc[c] = "ready"

\* A blocked coroutine still misses a unit of those it may ask for.
StillMissing ==
    \A c \in Coroutine :
        /\ got[c] <= want[c]
        /\ pc[c] = "waiting" => got[c] < want[c] /\ want[c] <= InitValue
        /\ pc[c] # "waiting" => got[c] = 0

\* Until ~Semaphore runs, `notified' says exactly that the functor of
\* release() is scheduled or running, and never both.
NotifiedMeansPending ==
    ~deleted =>
        /\ DeleteCall \notin calls
        /\ notifying # "delete"
        /\ notified <=> NotifyCall \in calls \/ notifying = "notify"
        /\ ~(NotifyCall \in calls /\ notifying = "notify")

\* After ~Semaphore the deleting functor stays ahead of every waiter.
DeleteIsPending ==
    deleted => DeleteCall \in calls \/ notifying = "delete" \/ waiters = <<>>

\* The one unit of a Lock is free or held by one coroutine.
UnitOfLock ==
    InitValue = 1 /\ ~deleted =>
        /\ \A c \in Coroutine : counter + held[c] <= 1
        /\ \A c, d \in Coroutine : held[c] > 0 /\ held[d] > 0 => c = d

\* What UnitsConserved says, with what Cardinality needs.
UnitsCounted ==
    ~deleted => IsFiniteSet(Units(InHand)) /\ counter + Cardinality(Units(InHand)) = Value

IndInv ==
    /\ TypeOK
    /\ RunningIsReady
    /\ StillMissing
    /\ NotifiedMeansPending
    /\ DeleteIsPending
    /\ WaitersListedOnce
    /\ NoLostWakeup
    /\ NoStaleTimer
--------------------------------------------------------------------------------
\* What the constructor makes of its argument.
LEMMA InitValueType ==
    /\ InitValue \in Nat \ {0} /\ Value \in 0..InitValue
    /\ Loop \notin Coroutine /\ MaxAcquire \in Nat \ {0} /\ MayDestroy \in BOOLEAN
  BY SemaphoreAssumption DEF InitValue

\* r is ws without its k-th entry.
Without(r, ws, k) ==
    /\ Len(r) = Len(ws) - 1
    /\ \A i \in 1..(Len(ws) - 1) : r[i] = IF i < k THEN ws[i] ELSE ws[i + 1]

\* Erase() takes one listed entry out of the list of waiters and keeps the
\* order of the others.
LEMMA EraseProperties ==
    ASSUME NEW S, NEW ws \in Seq(S), NEW c, NEW j \in DOMAIN ws, ws[j] = c
    PROVE  \E k \in 1..Len(ws) :
              /\ ws[k] = c
              /\ Erase(ws, c) \in Seq(S)
              /\ Without(Erase(ws, c), ws, k)
<1> DEFINE k == CHOOSE i \in DOMAIN ws : ws[i] = c
<1>1. k \in DOMAIN ws /\ ws[k] = c
  OBVIOUS
<1>2. k \in 1..Len(ws) /\ Len(ws) \in Nat
  BY <1>1
<1> HIDE DEF k
<1> DEFINE a == SubSeq(ws, 1, k - 1)
           b == SubSeq(ws, k + 1, Len(ws))
<1>3. a \in Seq(S) /\ Len(a) = k - 1 /\ \A i \in 1..(k - 1) : a[i] = ws[i]
  BY <1>2
<1>4. b \in Seq(S) /\ Len(b) = Len(ws) - k /\ \A i \in 1..(Len(ws) - k) : b[i] = ws[k + i]
  BY <1>2
<1>5. Erase(ws, c) = a \o b
  BY DEF Erase, RemoveAt, k
<1> HIDE DEF a, b
<1>6. a \o b \in Seq(S) /\ Len(a \o b) = Len(ws) - 1
      /\ \A i \in 1..(Len(ws) - 1) :
            (a \o b)[i] = IF i <= k - 1 THEN a[i] ELSE b[i - (k - 1)]
  <2>1. /\ a \o b \in Seq(S) /\ Len(a \o b) = Len(a) + Len(b)
        /\ \A i \in 1..(Len(a) + Len(b)) :
              (a \o b)[i] = IF i <= Len(a) THEN a[i] ELSE b[i - Len(a)]
    BY <1>3, <1>4, ConcatProperties, Zenon
  <2>2. Len(a) = k - 1 /\ Len(a) + Len(b) = Len(ws) - 1
    BY <1>2, <1>3, <1>4
  <2> QED
    BY <2>1, <2>2
<1>7. ASSUME NEW i \in 1..(Len(ws) - 1)
      PROVE  (a \o b)[i] = IF i < k THEN ws[i] ELSE ws[i + 1]
  <2>1. CASE i < k
    BY <2>1, <1>2, <1>3, <1>6
  <2>2. CASE ~(i < k)
    <3>1. i - (k - 1) \in 1..(Len(ws) - k)
      BY <2>2, <1>2
    <3>2. (a \o b)[i] = b[i - (k - 1)]
      BY <2>2, <1>2, <1>6
    <3>3. b[i - (k - 1)] = ws[k + (i - (k - 1))]
      BY <3>1, <1>4
    <3> QED
      BY <3>2, <3>3, <2>2, <1>2
  <2> QED
    BY <2>1, <2>2
<1> QED
  BY <1>1, <1>2, <1>5, <1>6, <1>7 DEF Without

\* Functors of different kinds or of different coroutines are different.
LEMMA CallsDiffer ==
    /\ NotifyCall # DeleteCall
    /\ \A c \in Coroutine : /\ TimeoutCall(c) \notin {NotifyCall, DeleteCall}
                            /\ KillCall(c) \notin {NotifyCall, DeleteCall}
    /\ \A c, d \in Coroutine : /\ TimeoutCall(c) # KillCall(d)
                               /\ TimeoutCall(c) = TimeoutCall(d) => c = d
    /\ \A c \in Coroutine : TimeoutCall(c) \in Calls /\ KillCall(c) \in Calls
    /\ NotifyCall \in Calls /\ DeleteCall \in Calls
  BY DEF NotifyCall, DeleteCall, TimeoutCall, KillCall, Calls

\* The invariant holds in a new semaphore.
LEMMA InitIndInv == Init => IndInv
<1> SUFFICES ASSUME Init PROVE IndInv
  OBVIOUS
<1> USE InitValueType DEF Init
<1>1. TypeOK
  <2>1. counter \in 0..InitValue /\ current \in Coroutine \cup {Loop}
    OBVIOUS
  <2>2. notified \in BOOLEAN /\ deleted \in BOOLEAN /\ calls \subseteq Calls
    BY Zenon
  <2>3. waiters \in Seq(Coroutine) /\ notifying \in {"none", "notify", "delete"}
    OBVIOUS
  <2>4. /\ pc \in [Coroutine -> {"ready", "waiting", "done"}]
        /\ want \in [Coroutine -> Nat]
        /\ got \in [Coroutine -> Nat]
        /\ held \in [Coroutine -> Nat]
    OBVIOUS
  <2> QED
    BY <2>1, <2>2, <2>3, <2>4 DEF TypeOK
<1>2. WaitersListedOnce
  BY DEF WaitersListedOnce, Listed
<1>3. RunningIsReady /\ StillMissing /\ NoStaleTimer
  BY DEF RunningIsReady, StillMissing, NoStaleTimer
<1>4. NotifiedMeansPending /\ DeleteIsPending /\ NoLostWakeup
  BY DEF NotifiedMeansPending, DeleteIsPending, NoLostWakeup
<1> QED
  BY <1>1, <1>2, <1>3, <1>4 DEF IndInv

\* release() keeps the types of what it assigns.
LEMMA ReleaseTypes ==
    ASSUME TypeOK, NEW value \in Nat, NEW ws \in Seq(Coroutine),
           NEW cs \in SUBSET Calls, release(value, ws, cs)
    PROVE  /\ counter' \in 0..InitValue
           /\ notified' \in BOOLEAN
           /\ waiters' \in Seq(Coroutine)
           /\ calls' \subseteq Calls
<1>1. counter' \in 0..InitValue
  BY InitValueType DEF TypeOK, release
<1>2. notified' \in BOOLEAN
  BY Zenon DEF TypeOK, release
<1>3. calls' \subseteq Calls /\ waiters' \in Seq(Coroutine)
  BY CallsDiffer, Zenon DEF TypeOK, release
<1> QED
  BY <1>1, <1>2, <1>3

\* The steps that leave the semaphore and its functors alone.
LEMMA SchedulingIndInv ==
    ASSUME IndInv, NEW c \in Coroutine, Resume(c) \/ Block(c) \/ Finish(c) \/ Kill(c)
    PROVE  IndInv'
<1> USE DEF IndInv
<1>1. TypeOK'
  <2>1. CASE Resume(c) \/ Block(c)
    BY <2>1 DEF TypeOK, Resume, Block, semaphore
  <2>2. CASE Finish(c)
    BY <2>2 DEF TypeOK, Finish, semaphore
  <2>3. CASE Kill(c)
    BY <2>3, CallsDiffer DEF TypeOK, Kill, semaphore
  <2> QED
    BY <2>1, <2>2, <2>3
<1>2. RunningIsReady'
  BY InitValueType DEF TypeOK, RunningIsReady, Resume, Block, Finish, Kill, semaphore
<1>3. StillMissing'
  BY DEF TypeOK, RunningIsReady, StillMissing, Resume, Block, Finish, Kill, semaphore
<1>4. NotifiedMeansPending' /\ DeleteIsPending' /\ NoLostWakeup'
  BY CallsDiffer DEF NotifiedMeansPending, DeleteIsPending, NoLostWakeup,
     Resume, Block, Finish, Kill, semaphore
<1>5. WaitersListedOnce'
  <2>1. /\ waiters' = waiters
        /\ \A d \in Coroutine : pc'[d] = "waiting" <=> pc[d] = "waiting"
    BY DEF TypeOK, RunningIsReady, Resume, Block, Finish, Kill, semaphore
  <2> QED
    BY <2>1 DEF WaitersListedOnce, Listed
<1>6. NoStaleTimer'
  BY CallsDiffer DEF TypeOK, RunningIsReady, NoStaleTimer, Resume, Block, Finish, Kill,
     semaphore
<1> QED
  BY <1>1, <1>2, <1>3, <1>4, <1>5, <1>6

\* acquire() without waiting, release() and ~Semaphore keep the invariant.
LEMMA ImmediateIndInv ==
    ASSUME IndInv, NEW c \in Coroutine, NEW value \in 1..MaxAcquire,
           AcquireNow(c, value) \/ Destroy(c) \/ \E d \in Coroutine : Release(c, d, value)
    PROVE  IndInv'
<1> USE InitValueType DEF IndInv
<1>1. CASE AcquireNow(c, value)
  <2>1. TypeOK'
    BY <1>1 DEF TypeOK, AcquireNow
  <2>2. NotifiedMeansPending' /\ DeleteIsPending' /\ NoLostWakeup'
    BY <1>1 DEF TypeOK, NotifiedMeansPending, DeleteIsPending, NoLostWakeup, AcquireNow
  <2>3. RunningIsReady' /\ StillMissing' /\ WaitersListedOnce' /\ NoStaleTimer'
    BY <1>1 DEF RunningIsReady, StillMissing, WaitersListedOnce, Listed, NoStaleTimer,
       AcquireNow
  <2> QED
    BY <2>1, <2>2, <2>3
<1>2. ASSUME NEW d \in Coroutine, Release(c, d, value) PROVE IndInv'
  <2>1. TypeOK'
    <3>1. value \in Nat /\ release(value, waiters, calls) /\ calls \in SUBSET Calls
          /\ waiters \in Seq(Coroutine)
      BY <1>2 DEF TypeOK, Release
    <3>2. held' \in [Coroutine -> Nat]
      BY <1>2 DEF TypeOK, Release
    <3> QED
      BY <1>2, <3>1, <3>2, ReleaseTypes DEF TypeOK, Release
  <2>2. NotifiedMeansPending' /\ DeleteIsPending'
    BY <1>2, CallsDiffer DEF TypeOK, NotifiedMeansPending, DeleteIsPending, Release, release
  <2>3. NoLostWakeup'
    BY <1>2 DEF TypeOK, NotifiedMeansPending, DeleteIsPending, NoLostWakeup, Release, release
  <2>4. RunningIsReady' /\ StillMissing' /\ WaitersListedOnce'
    BY <1>2 DEF RunningIsReady, StillMissing, WaitersListedOnce, Listed, Release, release
  <2>5. NoStaleTimer'
    BY <1>2, CallsDiffer DEF NoStaleTimer, Release, release
  <2> QED
    BY <2>1, <2>2, <2>3, <2>4, <2>5
<1>3. CASE Destroy(c)
  <2>1. TypeOK'
    BY <1>3, CallsDiffer DEF TypeOK, Destroy
  <2>2. NotifiedMeansPending' /\ DeleteIsPending' /\ NoLostWakeup'
    BY <1>3 DEF NotifiedMeansPending, DeleteIsPending, NoLostWakeup, Destroy
  <2>3. RunningIsReady' /\ StillMissing' /\ WaitersListedOnce'
    BY <1>3 DEF RunningIsReady, StillMissing, WaitersListedOnce, Listed, Destroy
  <2>4. NoStaleTimer'
    BY <1>3, CallsDiffer DEF NoStaleTimer, Destroy
  <2> QED
    BY <2>1, <2>2, <2>3, <2>4
<1> QED
  BY <1>1, <1>2, <1>3

\* acquire() that has to wait keeps the invariant.
LEMMA AcquireWaitIndInv ==
    ASSUME IndInv, NEW c \in Coroutine, NEW value \in 1..MaxAcquire,
           NEW msecs \in Timeouts, AcquireWait(c, value, msecs)
    PROVE  IndInv'
<1> USE InitValueType DEF IndInv
<1>1. TypeOK'
  BY CallsDiffer DEF TypeOK, AcquireWait
<1>2. RunningIsReady'
  BY DEF RunningIsReady, AcquireWait
<1>3. StillMissing'
  BY DEF TypeOK, StillMissing, AcquireWait
<1>4. NotifiedMeansPending' /\ DeleteIsPending' /\ NoLostWakeup'
  BY CallsDiffer DEF TypeOK, NotifiedMeansPending, DeleteIsPending, NoLostWakeup, AcquireWait
<1>5. WaitersListedOnce'
  <2>1. pc[c] = "ready" /\ pc' = [pc EXCEPT ![c] = "waiting"]
    BY DEF RunningIsReady, AcquireWait
  <2>2. ~Listed(c)
    BY <2>1 DEF WaitersListedOnce
  <2>3. /\ Len(waiters) \in Nat
        /\ Len(waiters') = Len(waiters) + 1 /\ waiters'[Len(waiters) + 1] = c
        /\ \A i \in 1..Len(waiters) : waiters'[i] = waiters[i]
        /\ DOMAIN waiters' = 1..(Len(waiters) + 1)
        /\ DOMAIN waiters = 1..Len(waiters)
    BY DEF TypeOK, AcquireWait
  <2>4. \A d \in Coroutine : Listed(d)' <=> pc'[d] = "waiting"
    <3>1. \A d \in Coroutine : Listed(d)' <=> Listed(d) \/ d = c
      BY <2>3 DEF Listed
    <3>2. \A d \in Coroutine : pc'[d] = "waiting" <=> pc[d] = "waiting" \/ d = c
      BY <2>1 DEF TypeOK
    <3> QED
      BY <3>1, <3>2 DEF WaitersListedOnce
  <2>5. \A i, j \in DOMAIN waiters' : waiters'[i] = waiters'[j] => i = j
    BY <2>2, <2>3 DEF WaitersListedOnce, Listed
  <2> QED
    BY <2>4, <2>5 DEF WaitersListedOnce
<1>6. NoStaleTimer'
  BY CallsDiffer DEF TypeOK, NoStaleTimer, AcquireWait
<1> QED
  BY <1>1, <1>2, <1>3, <1>4, <1>5, <1>6

\* The functor's own steps keep the invariant.
LEMMA NotifyIndInv ==
    ASSUME IndInv, NotifyEnd \/ \E call \in {NotifyCall, DeleteCall} : NotifyStart(call)
    PROVE  IndInv'
<1> USE InitValueType, CallsDiffer DEF IndInv
<1>1. CASE NotifyEnd
  <2>1. TypeOK'
    BY <1>1 DEF TypeOK, NotifyEnd
  <2>2. NotifiedMeansPending'
    BY <1>1 DEF TypeOK, NotifiedMeansPending, NotifyEnd
  <2>3. DeleteIsPending' /\ NoLostWakeup'
    BY <1>1 DEF TypeOK, NotifiedMeansPending, DeleteIsPending, NoLostWakeup, NotifyEnd,
       MoreToNotify
  <2>4. RunningIsReady' /\ StillMissing' /\ WaitersListedOnce' /\ NoStaleTimer'
    BY <1>1 DEF RunningIsReady, StillMissing, WaitersListedOnce, Listed, NoStaleTimer,
       NotifyEnd
  <2> QED
    BY <2>1, <2>2, <2>3, <2>4
<1>2. ASSUME NEW call \in {NotifyCall, DeleteCall}, NotifyStart(call)
      PROVE  IndInv'
  <2>1. TypeOK'
    BY <1>2 DEF TypeOK, NotifyStart, semaphore
  <2>2. NotifiedMeansPending' /\ DeleteIsPending' /\ NoLostWakeup'
    BY <1>2 DEF TypeOK, NotifiedMeansPending, DeleteIsPending, NoLostWakeup, NotifyStart,
       LoopIdle, semaphore
  <2>3. RunningIsReady' /\ StillMissing' /\ WaitersListedOnce' /\ NoStaleTimer'
    BY <1>2 DEF RunningIsReady, StillMissing, WaitersListedOnce, Listed, NoStaleTimer,
       NotifyStart, semaphore
  <2> QED
    BY <2>1, <2>2, <2>3
<1> QED
  BY <1>1, <1>2

\* Taking the oldest waiter off the list removes it and nobody else.
LEMMA TailWaiters ==
    ASSUME TypeOK, WaitersListedOnce, waiters # <<>>
    PROVE  /\ Head(waiters) \in Coroutine
           /\ Tail(waiters) \in Seq(Coroutine)
           /\ pc[Head(waiters)] = "waiting"
           /\ Len(waiters) \in Nat /\ Len(Tail(waiters)) = Len(waiters) - 1
           /\ \A i \in 1..(Len(waiters) - 1) : Tail(waiters)[i] = waiters[i + 1]
           /\ waiters[1] = Head(waiters)
<1>1. /\ Head(waiters) \in Coroutine /\ Tail(waiters) \in Seq(Coroutine)
      /\ Len(waiters) \in Nat /\ Len(Tail(waiters)) = Len(waiters) - 1
      /\ \A i \in 1..(Len(waiters) - 1) : Tail(waiters)[i] = waiters[i + 1]
      /\ waiters[1] = Head(waiters) /\ 1 \in DOMAIN waiters
  BY DEF TypeOK
<1> QED
  BY <1>1 DEF WaitersListedOnce, Listed

\* A waiter that the functor wakes keeps the invariant, satisfied or not.
LEMMA WakeIndInv ==
    ASSUME IndInv, WakeAll \/ WakePartly
    PROVE  IndInv'
<1> USE InitValueType DEF IndInv
<1> DEFINE c == Head(waiters)
<1>1. waiters # <<>>
  BY DEF WakeAll, WakePartly, MoreToNotify
<1>2. /\ c \in Coroutine /\ Tail(waiters) \in Seq(Coroutine)
      /\ pc[c] = "waiting"
      /\ Len(waiters) \in Nat /\ Len(Tail(waiters)) = Len(waiters) - 1
      /\ \A i \in 1..(Len(waiters) - 1) : Tail(waiters)[i] = waiters[i + 1]
      /\ waiters[1] = c
  BY <1>1, TailWaiters
<1>3. /\ got[c] \in Nat /\ want[c] \in Nat /\ remain(c) \in Nat \ {0}
      /\ counter \in Nat /\ held[c] \in Nat
  BY <1>2 DEF TypeOK, StillMissing, remain
<1>4. DOMAIN waiters = 1..Len(waiters) /\ waiters \in Seq(Coroutine)
  BY DEF TypeOK
<1> HIDE DEF c
<1>5. CASE WakeAll
  <2> USE <1>5
  <2>1. /\ counter' = counter - remain(c) /\ waiters' = Tail(waiters)
        /\ calls' = calls \ {TimeoutCall(c)} /\ counter >= remain(c)
        /\ held' = [held EXCEPT ![c] = @ + want[c]]
        /\ got' = [got EXCEPT ![c] = 0] /\ want' = [want EXCEPT ![c] = 0]
        /\ pc' = [pc EXCEPT ![c] = "ready"] /\ current' = c
        /\ notifying # "none"
        /\ UNCHANGED <<notified, deleted, notifying>>
    BY DEF WakeAll, c
  <2>2. TypeOK'
    <3>1. counter' \in 0..InitValue
      BY <1>3, <2>1 DEF TypeOK
    <3>2. got' \in [Coroutine -> Nat] /\ want' \in [Coroutine -> Nat]
      BY <1>2, <2>1 DEF TypeOK
    <3>4. held' \in [Coroutine -> Nat]
      <4>1. held \in [Coroutine -> Nat] /\ held[c] + want[c] \in Nat
        BY <1>3 DEF TypeOK
      <4> HIDE DEF IndInv
      <4> QED
        BY <2>1, <4>1
    <3>3. pc' \in [Coroutine -> {"ready", "waiting", "done"}]
      BY <2>1 DEF TypeOK
    <3> QED
      BY <1>2, <2>1, <3>1, <3>2, <3>3, <3>4 DEF TypeOK
  <2>3. RunningIsReady'
    BY <1>2, <2>1 DEF TypeOK, RunningIsReady
  <2>4. StillMissing'
    BY <1>2, <2>1 DEF TypeOK, StillMissing
  <2>5. NotifiedMeansPending' /\ NoLostWakeup'
    BY <1>2, <2>1, CallsDiffer DEF NotifiedMeansPending, NoLostWakeup
  <2>6. DeleteIsPending'
    BY <1>1, <1>2, <2>1, CallsDiffer DEF DeleteIsPending
  <2>7. WaitersListedOnce'
    <3>1. \A d \in Coroutine : Listed(d)' <=> Listed(d) /\ d # c
      <4>1. DOMAIN waiters' = 1..(Len(waiters) - 1)
        BY <1>2, <2>1
      <4>2. \A d \in Coroutine : Listed(d)' => Listed(d) /\ d # c
        <5>1. ASSUME NEW i \in 1..(Len(waiters) - 1)
              PROVE  /\ i + 1 \in 1..Len(waiters) /\ waiters'[i] = waiters[i + 1]
                     /\ waiters[i + 1] # c
          BY <1>2, <1>4, <2>1 DEF WaitersListedOnce
        <5> QED
          BY <4>1, <5>1, <1>4 DEF Listed
      <4>3. ASSUME NEW d \in Coroutine, NEW i \in 1..Len(waiters), waiters[i] = d, d # c
            PROVE  Listed(d)'
        <5>1. i # 1 /\ i - 1 \in 1..(Len(waiters) - 1) /\ (i - 1) + 1 = i
          BY <4>3, <1>2
        <5>2. Tail(waiters)[i - 1] = d
          BY <5>1, <4>3, <1>2
        <5> QED
          BY <5>1, <5>2, <4>1, <2>1 DEF Listed
      <4> QED
        BY <4>2, <4>3, <1>4 DEF Listed
    <3>2. \A d \in Coroutine : pc'[d] = "waiting" <=> pc[d] = "waiting" /\ d # c
      BY <2>1, <1>2 DEF TypeOK
    <3>3. \A i, j \in DOMAIN waiters' : waiters'[i] = waiters'[j] => i = j
      BY <1>2, <1>4, <2>1 DEF WaitersListedOnce
    <3> QED
      BY <3>1, <3>2, <3>3 DEF WaitersListedOnce
  <2>8. NoStaleTimer'
    BY <1>2, <2>1, CallsDiffer DEF TypeOK, NoStaleTimer
  <2> QED
    BY <2>2, <2>3, <2>4, <2>5, <2>6, <2>7, <2>8
<1>6. CASE WakePartly
  <2> USE <1>6
  <2>1. /\ got' = [got EXCEPT ![c] = @ + counter] /\ counter' = 0
        /\ counter < remain(c)
        /\ waiters' = Append(Tail(waiters), c) /\ notifying # "none"
        /\ UNCHANGED <<notified, deleted, calls, notifying, current, pc, want, held>>
    BY DEF WakePartly, c
  <2>2. TypeOK'
    <3>1. waiters' \in Seq(Coroutine)
      BY <1>2, <2>1, AppendProperties
    <3>2. counter' \in 0..InitValue
      BY <2>1
    <3>3. got' \in [Coroutine -> Nat]
      <4>1. got \in [Coroutine -> Nat] /\ got[c] + counter \in Nat
        BY <1>3 DEF TypeOK
      <4> HIDE DEF IndInv
      <4> QED
        BY <2>1, <4>1
    <3> QED
      BY <3>1, <3>2, <3>3, <2>1 DEF TypeOK
  <2>3. StillMissing'
    <3>1. /\ got'[c] = got[c] + counter /\ want'[c] = want[c] /\ pc'[c] = "waiting"
          /\ got[c] + counter < want[c] /\ want[c] <= InitValue
      BY <1>2, <1>3, <2>1 DEF TypeOK, StillMissing, remain
    <3>2. \A d \in Coroutine : d # c =>
             got'[d] = got[d] /\ want'[d] = want[d] /\ pc'[d] = pc[d]
      BY <2>1 DEF TypeOK
    <3>3. \A d \in Coroutine : d # c =>
             /\ got[d] <= want[d]
             /\ pc[d] = "waiting" => got[d] < want[d] /\ want[d] <= InitValue
             /\ pc[d] # "waiting" => got[d] = 0
      BY DEF StillMissing
    <3> HIDE DEF IndInv
    <3>4. got'[c] \in Nat /\ want'[c] \in Nat /\ got'[c] < want'[c] /\ want'[c] <= InitValue
      BY <3>1, <1>3, InitValueType
    <3> QED
      BY <3>1, <3>2, <3>3, <3>4 DEF StillMissing
  <2>4. RunningIsReady' /\ NotifiedMeansPending' /\ NoLostWakeup' /\ NoStaleTimer'
    BY <2>1 DEF RunningIsReady, NotifiedMeansPending, NoLostWakeup, NoStaleTimer
  <2>5. DeleteIsPending'
    BY <1>1, <2>1 DEF DeleteIsPending
  <2>6. WaitersListedOnce'
    <3>1. /\ DOMAIN waiters' = 1..Len(waiters)
          /\ \A i \in 1..(Len(waiters) - 1) : waiters'[i] = waiters[i + 1]
          /\ waiters'[Len(waiters)] = waiters[1]
          /\ Len(waiters) > 0
      BY <1>1, <1>2, <1>4, <2>1
    <3>2. \A d \in Coroutine : Listed(d)' => Listed(d)
      BY <3>1, <1>2, <1>4 DEF Listed
    <3>3. ASSUME NEW d \in Coroutine, NEW i \in 1..Len(waiters), waiters[i] = d
          PROVE  Listed(d)'
      <4>1. CASE i = 1
        BY <4>1, <3>1, <3>3, <1>2 DEF Listed
      <4>2. CASE i # 1
        <5>1. i - 1 \in 1..(Len(waiters) - 1) /\ (i - 1) + 1 = i /\ i - 1 \in 1..Len(waiters)
          BY <4>2, <1>2
        <5>2. waiters'[i - 1] = d
          BY <5>1, <3>1, <3>3
        <5> QED
          BY <5>1, <5>2, <3>1 DEF Listed
      <4> QED
        BY <4>1, <4>2
    <3>4. \A i, j \in DOMAIN waiters' : waiters'[i] = waiters'[j] => i = j
      <4> SUFFICES ASSUME NEW i \in 1..Len(waiters), NEW j \in 1..Len(waiters),
                          waiters'[i] = waiters'[j]
                   PROVE  i = j
        BY <3>1
      <4> DEFINE was(n) == IF n < Len(waiters) THEN n + 1 ELSE 1
      <4>1. /\ was(i) \in 1..Len(waiters) /\ waiters'[i] = waiters[was(i)]
            /\ was(j) \in 1..Len(waiters) /\ waiters'[j] = waiters[was(j)]
        BY <3>1, <1>2
      <4>2. was(i) = was(j)
        BY <4>1, <1>4 DEF WaitersListedOnce
      <4> QED
        BY <4>2, <1>2
    <3>5. \A d \in Coroutine : Listed(d)' <=> pc'[d] = "waiting"
      BY <3>2, <3>3, <1>4, <2>1 DEF WaitersListedOnce, Listed
    <3> QED
      BY <3>4, <3>5 DEF WaitersListedOnce
  <2> QED
    BY <2>2, <2>3, <2>4, <2>5, <2>6
<1> QED
  BY <1>5, <1>6

\* A coroutine that leaves acquire() without its units, by its timer or by an
\* exception, gives back what it took: that keeps the invariant.  cs are the
\* scheduled functors left once those of the coroutine are cancelled.
LEMMA GiveUpIndInv ==
    ASSUME IndInv, NEW c \in Coroutine, NEW cs \in SUBSET calls,
           LoopIdle, Listed(c), TimeoutCall(c) \notin cs,
           NotifyCall \in calls => NotifyCall \in cs,
           DeleteCall \in calls => DeleteCall \in cs,
           release(got[c], Erase(waiters, c), cs),
           got' = [got EXCEPT ![c] = 0],
           want' = [want EXCEPT ![c] = 0],
           pc' = [pc EXCEPT ![c] = "ready"],
           current' = c,
           UNCHANGED <<deleted, notifying, held>>
    PROVE  IndInv'
<1> USE InitValueType DEF IndInv
<1>0. PICK at \in DOMAIN waiters : waiters[at] = c
  BY DEF Listed
<1>1. PICK k \in 1..Len(waiters) :
         /\ waiters[k] = c
         /\ Erase(waiters, c) \in Seq(Coroutine)
         /\ Without(Erase(waiters, c), waiters, k)
  <2>1. waiters \in Seq(Coroutine)
    BY DEF TypeOK
  <2> QED
    BY <1>0, <2>1, EraseProperties, Zenon
<1>2. /\ Len(waiters) \in Nat /\ DOMAIN waiters = 1..Len(waiters)
      /\ waiters' = Erase(waiters, c) /\ DOMAIN waiters' = 1..(Len(waiters) - 1)
      /\ waiters # <<>>
      /\ \A i \in 1..(Len(waiters) - 1) :
            waiters'[i] = IF i < k THEN waiters[i] ELSE waiters[i + 1]
  <2>1. Len(waiters) \in Nat /\ DOMAIN waiters = 1..Len(waiters)
    BY DEF TypeOK
  <2>2. waiters' = Erase(waiters, c)
    BY DEF release
  <2>3. DOMAIN waiters' = 1..(Len(waiters) - 1)
    BY <1>1, <2>1, <2>2 DEF Without
  <2>4. waiters # <<>>
    BY <1>0
  <2> QED
    BY <1>1, <2>1, <2>2, <2>3, <2>4 DEF Without
<1>3. got[c] \in Nat
  BY DEF TypeOK
<1>4. TypeOK'
  <2>1. cs \in SUBSET Calls
    BY DEF TypeOK
  <2>2. /\ counter' \in 0..InitValue /\ notified' \in BOOLEAN
        /\ waiters' \in Seq(Coroutine) /\ calls' \subseteq Calls
    BY <1>1, <1>3, <2>1, ReleaseTypes
  <2> QED
    BY <2>2 DEF TypeOK
<1>5. RunningIsReady'
  BY DEF TypeOK, RunningIsReady
<1>6. StillMissing'
  BY DEF TypeOK, StillMissing
<1>7. NotifiedMeansPending'
  <2> SUFFICES ASSUME ~deleted PROVE NotifiedMeansPending'
    BY DEF NotifiedMeansPending
  <2>1. /\ DeleteCall \notin calls /\ notifying = "none" /\ notifying' = "none"
        /\ notified <=> NotifyCall \in calls
    BY DEF NotifiedMeansPending, LoopIdle
  <2>2. DeleteCall \notin calls'
    BY <2>1, CallsDiffer DEF release
  <2>3. notified' <=> NotifyCall \in calls'
    BY <2>1, Zenon DEF release
  <2> QED
    BY <2>1, <2>2, <2>3 DEF NotifiedMeansPending
<1>8. DeleteIsPending' /\ NoLostWakeup'
  <2>1. counter \in Nat /\ (counter' > 0 => counter > 0 \/ got[c] > 0)
    <3>1. counter \in 0..InitValue /\ InitValue \in Nat
      BY DEF TypeOK
    <3>2. counter' = IF counter + got[c] <= InitValue THEN counter + got[c] ELSE InitValue
      BY DEF release
    <3> HIDE DEF IndInv
    <3> QED
      BY <1>3, <3>1, <3>2
  <2>2. DeleteCall \in calls' \/ ~deleted
    BY <1>2 DEF DeleteIsPending, LoopIdle, release
  <2>3. ~deleted /\ counter' > 0 /\ waiters' # <<>> => NotifyCall \in calls'
    BY <1>2, <1>3, <2>1 DEF NotifiedMeansPending, NoLostWakeup, LoopIdle, release
  <2> QED
    BY <2>2, <2>3 DEF DeleteIsPending, NoLostWakeup
<1>9. WaitersListedOnce'
  <2>1. \A d \in Coroutine : Listed(d)' => Listed(d) /\ d # c
    <3>1. ASSUME NEW i \in 1..(Len(waiters) - 1)
          PROVE  \E j \in 1..Len(waiters) : j # k /\ waiters'[i] = waiters[j]
      BY <1>2
    <3>2. \A j \in 1..Len(waiters) : j # k => waiters[j] # c
      BY <1>1, <1>2 DEF WaitersListedOnce
    <3> QED
      BY <3>1, <3>2, <1>2 DEF Listed
  <2>2. ASSUME NEW d \in Coroutine, NEW i \in 1..Len(waiters), waiters[i] = d, d # c
        PROVE  Listed(d)'
    <3>1. CASE i < k
      BY <3>1, <2>2, <1>1, <1>2 DEF Listed
    <3>2. CASE i > k
      <4>1. i - 1 \in 1..(Len(waiters) - 1) /\ (i - 1) + 1 = i /\ ~(i - 1 < k)
        BY <3>2, <1>2
      <4>2. waiters'[i - 1] = d
        BY <4>1, <2>2, <1>1, <1>2
      <4> QED
        BY <4>1, <4>2, <1>2 DEF Listed
    <3> QED
      BY <3>1, <3>2, <2>2, <1>1, <1>2
  <2>3. \A d \in Coroutine : pc'[d] = "waiting" <=> pc[d] = "waiting" /\ d # c
    BY DEF TypeOK
  <2>4. \A d \in Coroutine : Listed(d)' <=> pc'[d] = "waiting"
    BY <2>1, <2>2, <2>3, <1>2 DEF WaitersListedOnce, Listed
  <2>5. \A i, j \in DOMAIN waiters' : waiters'[i] = waiters'[j] => i = j
    <3> SUFFICES ASSUME NEW i \in 1..(Len(waiters) - 1), NEW j \in 1..(Len(waiters) - 1),
                        waiters'[i] = waiters'[j]
                 PROVE  i = j
      BY <1>2
    <3> DEFINE up(n) == IF n < k THEN n ELSE n + 1
    <3>1. /\ waiters'[i] = waiters[up(i)] /\ waiters'[j] = waiters[up(j)]
          /\ up(i) \in 1..Len(waiters) /\ up(j) \in 1..Len(waiters)
      BY <1>2
    <3>2. up(i) = up(j)
      BY <3>1, <1>2 DEF WaitersListedOnce
    <3> QED
      BY <3>2, <1>2
  <2> QED
    BY <2>4, <2>5 DEF WaitersListedOnce
<1>10. NoStaleTimer'
  <2>1. \A d \in Coroutine : TimeoutCall(d) \in calls' => TimeoutCall(d) \in cs
    BY CallsDiffer, Zenon DEF release
  <2> QED
    BY <2>1 DEF TypeOK, NoStaleTimer
<1> QED
  BY <1>4, <1>5, <1>6, <1>7, <1>8, <1>9, <1>10

\* The timer of acquire() and kill()'s functor keep the invariant.
LEMMA FiresIndInv ==
    ASSUME IndInv, NEW c \in Coroutine, TimeoutFires(c) \/ KillFires(c)
    PROVE  IndInv'
<1>1. CASE TimeoutFires(c)
  <2> DEFINE cs == calls \ {TimeoutCall(c)}
  <2>1. /\ cs \in SUBSET calls /\ TimeoutCall(c) \notin cs
        /\ NotifyCall \in calls => NotifyCall \in cs
        /\ DeleteCall \in calls => DeleteCall \in cs
    BY CallsDiffer
  <2> QED
    BY <1>1, <2>1, GiveUpIndInv DEF TimeoutFires
<1>2. CASE KillFires(c) /\ pc[c] = "waiting"
  <2> DEFINE cs == calls \ {KillCall(c), TimeoutCall(c)}
  <2>1. /\ cs \in SUBSET calls /\ TimeoutCall(c) \notin cs
        /\ NotifyCall \in calls => NotifyCall \in cs
        /\ DeleteCall \in calls => DeleteCall \in cs
    BY CallsDiffer
  <2> QED
    BY <1>2, <2>1, GiveUpIndInv DEF KillFires
<1>3. CASE KillFires(c) /\ pc[c] # "waiting"
  <2>1. /\ LoopIdle /\ calls' = calls \ {KillCall(c)}
        /\ UNCHANGED <<semaphore, notifying, pc, want, got, held>>
        /\ (current' = c /\ pc[c] = "ready") \/ current' = current
    BY <1>3 DEF KillFires
  <2>2. TypeOK'
    BY <2>1 DEF IndInv, TypeOK, semaphore
  <2>3. RunningIsReady'
    BY <2>1 DEF IndInv, RunningIsReady
  <2>4. NotifiedMeansPending' /\ DeleteIsPending' /\ NoLostWakeup'
    BY <2>1, CallsDiffer DEF IndInv, NotifiedMeansPending, DeleteIsPending, NoLostWakeup,
       semaphore
  <2>5. StillMissing' /\ WaitersListedOnce' /\ NoStaleTimer'
    BY <2>1 DEF IndInv, StillMissing, WaitersListedOnce, Listed, NoStaleTimer, semaphore
  <2> QED
    BY <2>2, <2>3, <2>4, <2>5 DEF IndInv
<1> QED
  BY <1>1, <1>2, <1>3

\* Every step of the specification keeps the invariant.
LEMMA NextIndInv == IndInv /\ [Next]_vars => IndInv'
<1> SUFFICES ASSUME IndInv, [Next]_vars PROVE IndInv'
  OBVIOUS
<1>1. ASSUME NEW c \in Coroutine, Client(c) PROVE IndInv'
  BY <1>1, SchedulingIndInv, ImmediateIndInv, AcquireWaitIndInv, InitValueType
     DEF Client
<1>2. CASE Callback
  BY <1>2, NotifyIndInv, WakeIndInv, FiresIndInv DEF Callback
<1>3. CASE UNCHANGED vars
  BY <1>3 DEF vars, IndInv, TypeOK, RunningIsReady, StillMissing, NotifiedMeansPending,
     DeleteIsPending, WaitersListedOnce, Listed, NoLostWakeup, NoStaleTimer
<1> QED
  BY <1>1, <1>2, <1>3 DEF Next

\* IndInv is an invariant of the semaphore.
THEOREM SemaphoreInvariant == Spec => []IndInv
  BY InitIndInv, NextIndInv, PTL DEF Spec

\* The variables of SemaphorePrivate keep their types: in particular the
\* counter stays between 0 and the initial value.
THEOREM TypeCorrect == Spec => []TypeOK
  BY SemaphoreInvariant, PTL DEF IndInv

\* A free unit and a waiter are never left without a pending notify functor.
THEOREM WakeupsAreNotLost == Spec => []NoLostWakeup
  BY SemaphoreInvariant, PTL DEF IndInv

\* The assertion `found' of acquire() never fails.
THEOREM WaitersAreListed == Spec => []WaitersListedOnce
  BY SemaphoreInvariant, PTL DEF IndInv

\* No timer of acquire() outlives its call.
THEOREM TimersAreCancelled == Spec => []NoStaleTimer
  BY SemaphoreInvariant, PTL DEF IndInv
--------------------------------------------------------------------------------
\* With one unit, a step moves it between the counter and one coroutine.
LEMMA NextUnitOfLock == IndInv /\ UnitOfLock /\ [Next]_vars => UnitOfLock'
<1> SUFFICES ASSUME IndInv, UnitOfLock, [Next]_vars, InitValue = 1, ~deleted'
             PROVE  /\ \A c \in Coroutine : counter' + held'[c] <= 1
                    /\ \A c, d \in Coroutine : held'[c] > 0 /\ held'[d] > 0 => c = d
  BY DEF UnitOfLock
<1> USE InitValueType
<1>1. /\ counter \in 0..1 /\ held \in [Coroutine -> Nat]
      /\ \A c \in Coroutine : got[c] = 0
      /\ \A c \in Coroutine : pc[c] = "waiting" => want[c] = 1
  BY DEF IndInv, TypeOK, StillMissing
<1>2. ~deleted
  BY DEF Next, Client, Callback, vars, semaphore, Resume, Block, Finish, AcquireNow,
     AcquireWait, Release, Destroy, Kill, NotifyStart, WakeAll, WakePartly, NotifyEnd,
     TimeoutFires, KillFires
<1>3. /\ \A c \in Coroutine : counter + held[c] <= 1
      /\ \A c, d \in Coroutine : held[c] > 0 /\ held[d] > 0 => c = d
  BY <1>2 DEF UnitOfLock
<1> DEFINE Kept == UNCHANGED <<counter, held>>
           Taken(c) == /\ counter = 1 /\ counter' = 0
                       /\ held' = [held EXCEPT ![c] = @ + 1]
           Given(c) == /\ held[c] = 1 /\ counter' = 1
                       /\ held' = [held EXCEPT ![c] = @ - 1]
<1>4. ASSUME NEW c \in Coroutine, NEW value \in 1..MaxAcquire
      PROVE  /\ AcquireNow(c, value) => Taken(c)
             /\ \A d \in Coroutine : Release(c, d, value) => Given(d)
             /\ \A msecs \in Timeouts : AcquireWait(c, value, msecs) => Kept
  <2>1. AcquireNow(c, value) => Taken(c)
    <3> SUFFICES ASSUME AcquireNow(c, value) PROVE Taken(c)
      OBVIOUS
    <3>1. value = 1 /\ counter = 1
      BY <1>1 DEF AcquireNow
    <3> QED
      BY <3>1 DEF AcquireNow
  <2>2. ASSUME NEW d \in Coroutine PROVE Release(c, d, value) => Given(d)
    <3> SUFFICES ASSUME Release(c, d, value) PROVE Given(d)
      OBVIOUS
    <3>1. value = 1 /\ held[d] = 1 /\ counter = 0
      BY <1>1, <1>3 DEF Release
    <3> QED
      BY <3>1 DEF Release, release
  <2>3. \A msecs \in Timeouts : AcquireWait(c, value, msecs) => Kept
    BY <1>1 DEF AcquireWait
  <2> QED
    BY <2>1, <2>2, <2>3
<1>5. ASSUME NEW c \in Coroutine,
             \/ Resume(c) \/ Block(c) \/ Finish(c) \/ Kill(c)
             \/ TimeoutFires(c) \/ KillFires(c)
      PROVE  Kept
  <2>1. counter + got[c] <= InitValue /\ counter + got[c] = counter
    BY <1>1
  <2> QED
    BY <1>5, <2>1 DEF Resume, Block, Finish, Kill, TimeoutFires, KillFires, release,
       semaphore
<1>6. ASSUME NEW c \in Coroutine, Destroy(c) PROVE FALSE
  BY <1>6 DEF Destroy
<1>7. ASSUME NotifyEnd \/ \E call \in {NotifyCall, DeleteCall} : NotifyStart(call)
      PROVE  Kept
  BY <1>7 DEF NotifyEnd, NotifyStart, semaphore
<1>8. ASSUME WakeAll \/ WakePartly
      PROVE  Kept \/ \E c \in Coroutine : Taken(c)
  <2>1. waiters # <<>>
    BY <1>8 DEF WakeAll, WakePartly, MoreToNotify
  <2>2. PICK c \in Coroutine : c = Head(waiters) /\ want[c] = 1 /\ got[c] = 0
    BY <1>1, <2>1, TailWaiters DEF IndInv
  <2>3. CASE WakeAll
    <3>1. remain(c) = 1 /\ counter = 1
      BY <1>1, <2>2, <2>3 DEF WakeAll, remain
    <3>2. counter' = counter - remain(c) /\ held' = [held EXCEPT ![c] = @ + want[c]]
      BY <2>2, <2>3 DEF WakeAll
    <3>3. held' = [held EXCEPT ![c] = @ + 1]
      BY <2>2, <3>2
    <3>4. counter' = 0
      BY <3>1, <3>2
    <3> QED
      BY <3>1, <3>3, <3>4
  <2>4. CASE WakePartly
    BY <1>1, <2>2, <2>4 DEF WakePartly, remain
  <2> QED
    BY <1>8, <2>3, <2>4
<1>9. Kept \/ \E c \in Coroutine : Taken(c) \/ Given(c)
  <2>1. CASE UNCHANGED vars
    BY <2>1 DEF vars
  <2> QED
    BY <1>4, <1>5, <1>6, <1>7, <1>8, <2>1 DEF Next, Client, Callback
<1>10. CASE Kept
  BY <1>3, <1>10
<1>11. ASSUME NEW c \in Coroutine, Taken(c) \/ Given(c)
       PROVE  /\ \A d \in Coroutine : counter' + held'[d] <= 1
              /\ \A d, e \in Coroutine : held'[d] > 0 /\ held'[e] > 0 => d = e
  BY <1>1, <1>3, <1>11
<1> QED
  BY <1>9, <1>10, <1>11

\* A Lock is held by at most one coroutine at any time.
THEOREM LockIsExclusive == Spec => []MutualExclusion
<1>1. Init => UnitOfLock
  BY InitValueType DEF Init, UnitOfLock
<1>2. UnitOfLock => MutualExclusion
  BY DEF UnitOfLock, MutualExclusion
<1> QED
  BY <1>1, <1>2, NextUnitOfLock, SemaphoreInvariant, PTL DEF Spec
--------------------------------------------------------------------------------
\* When one coroutine comes to have n units, the number of all changes as its
\* own; and it never has more than all.
LEMMA UnitsChange ==
    ASSUME NEW f \in [Coroutine -> Nat], NEW g \in [Coroutine -> Nat], NEW c \in Coroutine,
           \A d \in Coroutine : d # c => g[d] = f[d], IsFiniteSet(Units(f))
    PROVE  /\ IsFiniteSet(Units(g))
           /\ Cardinality(Units(f)) \in Nat /\ Cardinality(Units(g)) \in Nat
           /\ Cardinality(Units(g)) = Cardinality(Units(f)) - f[c] + g[c]
           /\ f[c] <= Cardinality(Units(f))
<1> DEFINE R == UNION {{d} \X (1..f[d]) : d \in Coroutine \ {c}}
           Own(m) == {c} \X (1..m)
<1>1. Units(f) = R \cup Own(f[c]) /\ Units(g) = R \cup Own(g[c])
  BY DEF Units
<1>2. \A m \in Nat : R \cap Own(m) = {}
  OBVIOUS
<1>3. ASSUME NEW m \in Nat PROVE IsFiniteSet(Own(m)) /\ Cardinality(Own(m)) = m
  <2>1. IsFiniteSet(1..m) /\ Cardinality(1..m) = m
    <3>1. 1 \in Int /\ m \in Int
      OBVIOUS
    <3>2. IsFiniteSet(1..m) /\ Cardinality(1..m) = IF 1 > m THEN 0 ELSE m - 1 + 1
      BY <3>1, FS_Interval, Zenon
    <3> QED
      BY <3>2
  <2>2. IsFiniteSet({c}) /\ Cardinality({c}) = 1
    BY FS_Singleton
  <2> DEFINE S == {c}
             T == 1..m
  <2>3. IsFiniteSet(S) /\ IsFiniteSet(T) /\ Cardinality(S) = 1 /\ Cardinality(T) = m
    BY <2>1, <2>2
  <2>4. Own(m) = S \X T
    OBVIOUS
  <2> HIDE DEF S, T, Own
  <2>5. IsFiniteSet(S \X T) /\ Cardinality(S \X T) = Cardinality(S) * Cardinality(T)
    BY <2>3, FS_Product
  <2> QED
    BY <2>3, <2>4, <2>5
<1> HIDE DEF R, Own
<1>4. IsFiniteSet(R) /\ Cardinality(R) \in Nat
  BY <1>1, FS_Subset, FS_CardinalityType
<1>5. ASSUME NEW m \in Nat
      PROVE  IsFiniteSet(R \cup Own(m)) /\ Cardinality(R \cup Own(m)) = Cardinality(R) + m
  <2>1. /\ IsFiniteSet(R \cup Own(m))
        /\ Cardinality(R \cup Own(m)) = Cardinality(R) + Cardinality(Own(m)) - Cardinality(R \cap Own(m))
    BY <1>3, <1>4, FS_Union
  <2>2. Cardinality(R \cap Own(m)) = 0
    BY <1>2, FS_EmptySet
  <2> QED
    BY <1>3, <1>4, <2>1, <2>2
<1>6. f[c] \in Nat /\ g[c] \in Nat
  OBVIOUS
<1>7. Cardinality(Units(f)) = Cardinality(R) + f[c]
  BY <1>1, <1>5, <1>6
<1>8. IsFiniteSet(Units(g)) /\ Cardinality(Units(g)) = Cardinality(R) + g[c]
  BY <1>1, <1>5, <1>6
<1> QED
  BY <1>4, <1>6, <1>7, <1>8

\* A step moves units between the counter and one coroutine, release() not more
\* than there is room for.
LEMMA NextUnitsCounted == IndInv /\ UnitsCounted /\ [Next]_vars => UnitsCounted'
<1> SUFFICES ASSUME IndInv, UnitsCounted, [Next]_vars, ~deleted'
             PROVE  /\ IsFiniteSet(Units(InHand'))
                    /\ counter' + Cardinality(Units(InHand')) = Value
  BY DEF UnitsCounted, Units
<1> USE InitValueType
<1> DEFINE f == InHand
           g == InHand'
<1>1. /\ counter \in Nat /\ f \in [Coroutine -> Nat]
      /\ held \in [Coroutine -> Nat] /\ got \in [Coroutine -> Nat] /\ want \in [Coroutine -> Nat]
      /\ \A c \in Coroutine : f[c] = held[c] + got[c] /\ got[c] <= want[c]
      /\ \A c \in Coroutine : current = c => got[c] = 0
  BY DEF IndInv, TypeOK, InHand, StillMissing, RunningIsReady
<1>2. ~deleted
  BY DEF Next, Client, Callback, vars, semaphore, Resume, Block, Finish, AcquireNow,
     AcquireWait, Release, Destroy, Kill, NotifyStart, WakeAll, WakePartly, NotifyEnd,
     TimeoutFires, KillFires
<1>3. IsFiniteSet(Units(f)) /\ counter + Cardinality(Units(f)) = Value
  BY <1>2 DEF UnitsCounted
<1>4. g = [c \in Coroutine |-> held'[c] + got'[c]] /\ f = [c \in Coroutine |-> held[c] + got[c]]
  BY DEF InHand
<1> HIDE DEF f, g
<1>a. held' \in [Coroutine -> Nat] /\ got' \in [Coroutine -> Nat] /\ counter' \in Nat
  BY NextIndInv DEF IndInv, TypeOK
<1>b. g \in [Coroutine -> Nat] /\ \A c \in Coroutine : g[c] = held'[c] + got'[c]
  BY <1>4, <1>a
<1> DEFINE Others(c) == \A d \in Coroutine : d # c => g[d] = f[d]
           Kept == counter' = counter /\ g = f
           Acquired(c, v) == counter' = counter - v /\ g[c] = f[c] + v /\ Others(c)
           Freed(c, v) ==
             /\ v <= f[c]
             /\ counter' = IF counter + v <= InitValue THEN counter + v ELSE InitValue
             /\ g[c] = f[c] - v
             /\ Others(c)
<1>5. ASSUME NEW c \in Coroutine, NEW value \in 1..MaxAcquire
      PROVE  /\ AcquireNow(c, value) => Acquired(c, value)
             /\ \A d \in Coroutine : Release(c, d, value) => Freed(d, value)
             /\ \A msecs \in Timeouts : AcquireWait(c, value, msecs) => Acquired(c, counter)
  <2>1. AcquireNow(c, value) => Acquired(c, value)
    BY <1>1, <1>b DEF AcquireNow
  <2>2. ASSUME NEW d \in Coroutine, Release(c, d, value) PROVE Freed(d, value)
    BY <1>1, <1>b, <2>2 DEF Release, release
  <2>3. ASSUME NEW msecs \in Timeouts, AcquireWait(c, value, msecs) PROVE Acquired(c, counter)
    BY <1>1, <1>b, <2>3 DEF AcquireWait
  <2> QED
    BY <2>1, <2>2, <2>3
<1>6. ASSUME NEW c \in Coroutine, Resume(c) \/ Block(c) \/ Finish(c) \/ Kill(c)
      PROVE  Kept
  BY <1>4, <1>6 DEF Resume, Block, Finish, Kill, semaphore
<1>7. ASSUME NEW c \in Coroutine, TimeoutFires(c) \/ KillFires(c)
      PROVE  Kept \/ Freed(c, got[c])
  <2>1. CASE TimeoutFires(c)
    BY <1>1, <1>b, <2>1 DEF TimeoutFires, release
  <2>2. CASE KillFires(c) /\ pc[c] = "waiting"
    BY <1>1, <1>b, <2>2 DEF KillFires, release
  <2>3. CASE KillFires(c) /\ pc[c] # "waiting"
    BY <1>4, <2>3 DEF KillFires, semaphore
  <2> QED
    BY <1>7, <2>1, <2>2, <2>3
<1>8. ASSUME NEW c \in Coroutine, Destroy(c) PROVE FALSE
  BY <1>8 DEF Destroy
<1>9. ASSUME NotifyEnd \/ \E call \in {NotifyCall, DeleteCall} : NotifyStart(call)
      PROVE  Kept
  BY <1>4, <1>9 DEF NotifyEnd, NotifyStart, semaphore
<1>10. ASSUME WakeAll \/ WakePartly
       PROVE  \E c \in Coroutine, v \in Nat : Acquired(c, v)
  <2>1. waiters # <<>>
    BY <1>10 DEF WakeAll, WakePartly, MoreToNotify
  <2>2. PICK c \in Coroutine : c = Head(waiters)
    BY <2>1, TailWaiters DEF IndInv
  <2>3. CASE WakeAll
    <3>1. /\ counter' = counter - remain(c)
          /\ held' = [held EXCEPT ![c] = @ + want[c]] /\ got' = [got EXCEPT ![c] = 0]
      BY <2>2, <2>3 DEF WakeAll
    <3>2. remain(c) \in Nat /\ remain(c) = want[c] - got[c]
      BY <1>1 DEF remain
    <3>3. g[c] = f[c] + remain(c) /\ Others(c)
      BY <1>1, <1>b, <3>1, <3>2
    <3> QED
      BY <3>1, <3>2, <3>3
  <2>4. CASE WakePartly
    <3>1. counter' = 0 /\ held' = held /\ got' = [got EXCEPT ![c] = @ + counter]
      BY <2>2, <2>4 DEF WakePartly
    <3>2. g[c] = f[c] + counter /\ Others(c)
      BY <1>1, <1>b, <3>1
    <3>3. counter' = counter - counter
      BY <1>1, <3>1
    <3> QED
      BY <1>1, <3>2, <3>3
  <2> QED
    BY <1>10, <2>3, <2>4
<1>11. Kept \/ \E c \in Coroutine, v \in Nat : Acquired(c, v) \/ Freed(c, v)
  <2>1. CASE UNCHANGED vars
    BY <1>4, <2>1 DEF vars
  <2>2. ASSUME NEW c \in Coroutine, Client(c)
        PROVE  Kept \/ \E v \in Nat : \E d \in Coroutine : Acquired(d, v) \/ Freed(d, v)
    <3> HIDE DEF Kept, Acquired, Freed
    <3>1. 1..MaxAcquire \subseteq Nat
      OBVIOUS
    <3> QED
      BY <1>1, <1>5, <1>6, <1>8, <2>2, <3>1 DEF Client
  <2>3. CASE Callback
    <3> HIDE DEF Kept, Acquired, Freed
    <3> QED
      BY <1>1, <1>7, <1>9, <1>10, <2>3 DEF Callback
  <2> QED
    BY <2>1, <2>2, <2>3 DEF Next
<1>12. ASSUME NEW c \in Coroutine, NEW v \in Nat, Acquired(c, v)
       PROVE  IsFiniteSet(Units(g)) /\ counter' + Cardinality(Units(g)) = Value
  <2>1. f[c] + v \in Nat /\ f[c] \in Nat
    BY <1>1
  <2>2. /\ IsFiniteSet(Units(g))
        /\ Cardinality(Units(f)) \in Nat /\ Cardinality(Units(g)) \in Nat
        /\ Cardinality(Units(g)) = Cardinality(Units(f)) - f[c] + g[c]
    <3>1. /\ f \in [Coroutine -> Nat] /\ g \in [Coroutine -> Nat] /\ IsFiniteSet(Units(f))
          /\ \A d \in Coroutine : d # c => g[d] = f[d]
      BY <1>1, <1>3, <1>12, <1>b
    <3> QED
      BY <3>1, UnitsChange
  <2> QED
    BY <1>1, <1>3, <1>12, <2>1, <2>2
<1>13. ASSUME NEW c \in Coroutine, NEW v \in Nat, Freed(c, v)
       PROVE  IsFiniteSet(Units(g)) /\ counter' + Cardinality(Units(g)) = Value
  <2>1. f[c] - v \in Nat /\ f[c] \in Nat
    BY <1>1, <1>13
  <2>2. /\ IsFiniteSet(Units(g))
        /\ Cardinality(Units(f)) \in Nat /\ Cardinality(Units(g)) \in Nat
        /\ Cardinality(Units(g)) = Cardinality(Units(f)) - f[c] + g[c]
        /\ f[c] <= Cardinality(Units(f))
    BY <1>1, <1>3, <1>13, <1>b, <2>1, UnitsChange
  <2>3. counter + v <= InitValue
    BY <1>1, <1>3, <1>13, <2>1, <2>2
  <2> QED
    BY <1>1, <1>3, <1>13, <2>1, <2>2, <2>3
<1>14. ASSUME Kept
       PROVE  IsFiniteSet(Units(g)) /\ counter' + Cardinality(Units(g)) = Value
  BY <1>3, <1>14
<1> HIDE DEF Kept, Acquired, Freed
<1> QED
  BY <1>11, <1>12, <1>13, <1>14 DEF g

\* No unit of a Semaphore is lost or made up, whatever mixture of full and
\* partial wake-ups, timeouts and exceptions ends the calls of acquire(): the
\* bound in release() never cuts a unit off.
THEOREM UnitsAreConserved == Spec => []UnitsConserved
<1>1. Init => UnitsCounted
  <2> SUFFICES ASSUME Init PROVE UnitsCounted
    OBVIOUS
  <2>1. Units(InHand) = {}
    BY DEF Init, Units, InHand
  <2> QED
    BY <2>1, FS_EmptySet, InitValueType DEF Init, UnitsCounted
<1>2. UnitsCounted => UnitsConserved
  BY DEF UnitsCounted, UnitsConserved, AllUnits
<1> QED
  BY <1>1, <1>2, NextUnitsCounted, SemaphoreInvariant, PTL DEF Spec
================================================================================
