------------------------------ MODULE JobPool -------------------------------
(***************************************************************************)
(* What a queue of worker threads promises to those who add jobs to it        *)
(* (libs/cape/src/sys/cape_queue.h), without threads, semaphores or locks:    *)
(* a job that was added is started at most once, in the order in which the    *)
(* jobs were added, and it is finished once, after it was started or - when   *)
(* the queue is taken down - without having been started.                     *)
(***************************************************************************)
EXTENDS Naturals, Sequences

CONSTANT Jobs

VARIABLES
  waiting,   \* the jobs that were added and not started, the oldest first
  running,   \* the jobs that are being worked on
  finished   \* how often a job was finished

pool == <<waiting, running, finished>>

Init == waiting = <<>> /\ running = {} /\ finished = [j \in Jobs |-> 0]

Known(j) == (\E i \in DOMAIN waiting : waiting[i] = j) \/ j \in running \/ finished[j] > 0

Add(j) ==
  /\ ~Known(j)
  /\ waiting' = Append(waiting, j)
  /\ UNCHANGED <<running, finished>>

Start ==
  /\ waiting # <<>>
  /\ waiting' = Tail(waiting)
  /\ running' = running \union {Head(waiting)}
  /\ UNCHANGED finished

Finish(j) ==
  /\ j \in running
  /\ running' = running \ {j}
  /\ finished' = [finished EXCEPT ![j] = @ + 1]
  /\ UNCHANGED waiting

\* The queue is taken down: its oldest job is given back.
Drop ==
  /\ waiting # <<>>
  /\ waiting' = Tail(waiting)
  /\ finished' = [finished EXCEPT ![Head(waiting)] = @ + 1]
  /\ UNCHANGED running

Next == Start \/ Drop \/ \E j \in Jobs : Add(j) \/ Finish(j)

Spec == Init /\ [][Next]_pool
=============================================================================
