------------------------------- MODULE EventOps --------------------------------
(***************************************************************************)
(* What Event (src/locks.cpp) does to its fields, as operators on a        *)
(* function s from events to records:                                      *)
(*   flag      the event is set;                                           *)
(*   waiters   coroutines on the list of the event's Condition;            *)
(*   released  coroutines that notifyAll() took off that list: the Lock    *)
(*             they sleep on is free and its functor is on the event loop. *)
(* notifyAll() empties the list, and functors that are due together run in *)
(* any order, so the order of the list does not matter here.               *)
(***************************************************************************)
EXTENDS FiniteSets

NewEvent(set) == [flag |-> set, waiters |-> {}, released |-> {}]

\* The flag goes on and notifyAll() empties the list; a second set() does nothing.
set(s, e) ==
    IF s[e].flag THEN s
    ELSE [s EXCEPT ![e] = [flag |-> TRUE, waiters |-> {},
                           released |-> @.released \cup @.waiters]]

clear(s, e) == [s EXCEPT ![e].flag = FALSE]

\* Condition::wait() goes to sleep...
park(s, e, c) == [s EXCEPT ![e].waiters = @ \cup {c}]

\* ... and ends, whatever woke it up.
leave(s, e, c) == [s EXCEPT ![e].waiters = @ \ {c}, ![e].released = @ \ {c}]
================================================================================
