--------------------------------- MODULE MCMqtt ---------------------------------
(***************************************************************************)
(* A small instance of Mqtt for TLC.  Bound keeps to four families of      *)
(* behaviours, which differ in what comes from outside: calls, messages    *)
(* and failures of the broker.  It cuts a behaviour off only at such an    *)
(* input, never at a step of the client's coroutines or of the broker's    *)
(* answers, so no behaviour is lost that is fair after its last input.     *)
(***************************************************************************)
EXTENDS Mqtt

Made == {c \in Calls : call[c].at # "idle"}

\* The calls differ in nothing but their names, so it is enough to look at the
\* behaviours in which they are made in one order: every other one is a renaming
\* of such a behaviour.  (A SYMMETRY would not be sound for a liveness property.)
Rank == CHOOSE f \in [Calls -> 1..Cardinality(Calls)] : \A c, d \in Calls : f[c] = f[d] => c = d
CallsInOrder == \A c \in Made, d \in Calls : Rank[d] < Rank[c] => d \in Made

NoMessage == \A m \in Inbound : broker.msg[m] = "new" /\ broker.qos[m] = 0
\* The broker stops answering; it neither closes the connection nor sends nonsense.
OnlyMute == broker.failures = 0 \/ (broker.mute /\ \A i \in DOMAIN toClient : toClient[i].type # "BAD")

\* One call of any kind.
OneCall == Cardinality(Made) <= 1 /\ NoMessage

\* A message, and two of: a QoS 2 publish or a disconnect(), a failure, repetitions.
OneMessage ==
    /\ Cardinality(Made) <= 1 /\ Cardinality(Made) + broker.failures + broker.dups <= 2
    /\ \A c \in Made : call[c].op \in {"PUBLISH2", "DISCONNECT"}

\* Two QoS 2 publishes, or one and a disconnect().
TwoCalls ==
    /\ Cardinality(Made) <= 2 /\ NoMessage /\ OnlyMute
    /\ \A c \in Made : call[c].op \in {"PUBLISH2", "DISCONNECT"}

\* A publish(), a publishAsync() and a disconnect() that find sendingQueue full.
ThreeCalls ==
    /\ NoMessage /\ OnlyMute
    /\ \A c \in Made : /\ call[c].op = IF Rank[c] = 3 THEN "DISCONNECT" ELSE "PUBLISH2"
                       /\ call[c].sync = (Rank[c] # 2)

Bound == CallsInOrder /\ (OneCall \/ OneMessage \/ TwoCalls \/ ThreeCalls)
=================================================================================
