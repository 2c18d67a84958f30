----------------------------- MODULE WorkQueue -----------------------------
(***************************************************************************)
(* What the download pipeline promises about the order of work: a bounded  *)
(* first-come first-served line in front of a fixed number of servers.     *)
(* A job is taken up once, in its turn, and is never lost on the way.      *)
(* JobQueue.tla is the code that implements it.                            *)
(***************************************************************************)
EXTENDS Integers, Sequences, FiniteSets

CONSTANTS
  Jobs,
  QueueSize,  \* how many jobs may wait
  PoolSize    \* how many may run at once

VARIABLES
  waiting,    \* the line
  running,    \* jobs being worked on
  finished    \* jobs a server is done with

vars == <<waiting, running, finished>>

Known == {waiting[i] : i \in DOMAIN waiting} \cup running \cup finished

Init ==
  /\ waiting = <<>>
  /\ running = {}
  /\ finished = {}

Accept(j) ==
  /\ j \notin Known
  /\ Len(waiting) < QueueSize
  /\ waiting' = Append(waiting, j)
  /\ UNCHANGED <<running, finished>>

Start ==
  /\ waiting # <<>>
  /\ Cardinality(running) < PoolSize
  /\ running' = running \cup {Head(waiting)}
  /\ waiting' = Tail(waiting)
  /\ UNCHANGED finished

Finish(j) ==
  /\ j \in running
  /\ running' = running \ {j}
  /\ finished' = finished \cup {j}
  /\ UNCHANGED waiting

Next ==
  \/ Start
  \/ \E j \in Jobs : Accept(j) \/ Finish(j)

Spec == Init /\ [][Next]_vars

=============================================================================
