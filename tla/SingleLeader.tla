---------------------------- MODULE SingleLeader ----------------------------
(***************************************************************************)
(* What app/scheduler.py promises of the ranking loop when several web     *)
(* instances share one database (scheduler.py:7-13): one instance at a     *)
(* time leads, a leader may disappear at any moment, another may take over *)
(* only afterwards, and the runs that reach /history are appended by the   *)
(* leader, each newer than everything persisted before it.                 *)
(***************************************************************************)
EXTENDS Naturals

CONSTANTS
  Instances,
  Runs        \* the numbers of the runs, in the order they were computed

VARIABLES leaders,   \* the instances that believe they lead: none or one
          log        \* the numbers of the runs /history can return

vars == <<leaders, log>>

NewerThanLog(r) == \A q \in log : q < r

(* With leader election nobody leads yet; without it the only instance does. *)
Init == /\ leaders = {} \/ \E i \in Instances : leaders = {i}
        /\ log = {}

(* A leader is only ever elected into a vacant place. *)
Elect(i) ==
  /\ leaders = {}
  /\ leaders' = {i}
  /\ UNCHANGED log

(* The leader persists a run. *)
Persist(i, r) ==
  /\ leaders = {i}
  /\ NewerThanLog(r)
  /\ log' = log \union {r}
  /\ UNCHANGED leaders

(* The leader disappears, with or without a last run reaching the log. *)
Resign(i) ==
  /\ leaders = {i}
  /\ leaders' = {}
  /\ \/ UNCHANGED log
     \/ \E r \in Runs : NewerThanLog(r) /\ log' = log \union {r}

Next == \E i \in Instances :
          \/ Elect(i)
          \/ \E r \in Runs : Persist(i, r)
          \/ Resign(i)

Spec == Init /\ [][Next]_vars
=============================================================================
