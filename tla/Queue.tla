------------------------------- MODULE Queue --------------------------------
(***************************************************************************)
(* CapeQueue (libs/cape/src/sys/cape_queue.c): worker threads that take jobs   *)
(* out of a list, an observer thread that gives up on jobs which take too      *)
(* long, CapeSync, by which those who add jobs wait for them, and the way all  *)
(* of it is taken down.                                                        *)
(*                                                                         *)
(* The list of jobs is guarded by a mutex.  The fields `item' and `busy_cnt'   *)
(* of a thread are not: its worker writes them, the observer reads and writes  *)
(* them.  So every access to them is a step of its own.                        *)
(*                                                                         *)
(* Time: a job that is neither in Hung nor in Late returns before the observer *)
(* has counted to its limit.  A job of Hung never returns by itself; a job of  *)
(* Late may return at any time.                                                *)
(***************************************************************************)
EXTENDS Naturals, Sequences, FiniteSets

CONSTANTS Apps,          \* threads that add jobs
          Jobs,          \* the jobs
          Plan,          \* Plan[a]: the jobs a thread adds, in this order
          Synced,        \* those who add their jobs with a CapeSync, and wait for it
          NumWorkers,    \* amount_of_threads
          Limit,         \* timeout_in_ds: rounds of the observer
          Hung,          \* jobs whose on_event blocks for ever
          Late,          \* jobs that may return after the limit
          Cancellable,   \* jobs that have an on_cancel, which ends their on_event
          MayDeleteBusy, \* is the queue taken down while a worker is in a job?
          NoJob

ASSUME PlanAssumption ==
  /\ Plan \in [Apps -> Seq(Jobs)] /\ Synced \subseteq Apps
  /\ \A j \in Jobs : \E a \in Apps : \E i \in DOMAIN Plan[a] :
       /\ Plan[a][i] = j
       /\ \A b \in Apps : \A k \in DOMAIN Plan[b] : Plan[b][k] = j => b = a /\ k = i
ASSUME BoundsAssumption == NumWorkers \in Nat \ {0} /\ Limit \in Nat \ {0}
ASSUME JobAssumption ==
  NoJob \notin Jobs /\ Hung \subseteq Jobs /\ Late \subseteq Jobs /\ Cancellable \subseteq Jobs
ASSUME MayDeleteBusyAssumption == MayDeleteBusy \in BOOLEAN

Workers == 1..NumWorkers
Owner == [j \in Jobs |-> CHOOSE a \in Apps : \E i \in DOMAIN Plan[a] : Plan[a][i] = j]

VARIABLES
  queue,       \* the list of jobs
  sem,         \* the semaphore the workers wait for
  terminated,
  item,        \* CapeThreadItem.item: what the thread works on
  busy,        \* CapeThreadItem.busy_cnt
  count,       \* the semaphore of the CapeSync of an application thread
  todo,        \* the jobs an application thread has still to add
  at,          \* where an application thread is
  pc,          \* where a worker is
  job,         \* its local variable `item'
  opc,         \* where the observer is
  cursor,      \* the thread it looks at
  seen,        \* the count it has read
  mpc,         \* where cape_queue_del is
  turn,        \* the thread cape_queue_del is at
  ended,       \* the hung jobs that on_cancel has brought to their end
  done,        \* history: how often on_done was called for a job
  crashed      \* history: something that is no thread was joined, or NULL was followed

apps == <<count, todo, at>>
workers == <<item, busy, pc, job>>
observer == <<opc, cursor, seen, ended>>
owner == <<mpc, turn, terminated>>
vars == <<queue, sem, apps, workers, observer, owner, done, crashed>>

Init ==
  /\ queue = <<>> /\ sem = 0 /\ terminated = FALSE
  /\ item = [w \in Workers |-> NoJob] /\ busy = [w \in Workers |-> 0]
  /\ count = [a \in Apps |-> 0]
  /\ todo = Plan
  /\ at = [a \in Apps |-> "idle"]
  /\ pc = [w \in Workers |-> "wait"] /\ job = [w \in Workers |-> NoJob]
  /\ opc = "sleep" /\ cursor = 1 /\ seen = 0 /\ ended = {}
  /\ mpc = "run" /\ turn = 1
  /\ done = [j \in Jobs |-> 0] /\ crashed = FALSE

-----------------------------------------------------------------------------
\* cape_queue_add, and cape_sync_wait of those who use a CapeSync.

\* Mutant: the job is put in front of the others.
PushFront(a) ==
  /\ todo[a] # <<>>
  /\ at[a] = "idle" /\ at' = [at EXCEPT ![a] = "inc"]
  /\ queue' = <<Head(todo[a])>> \o queue
  /\ todo' = [todo EXCEPT ![a] = Tail(@)]
  /\ UNCHANGED <<sem, count, workers, observer, owner, done, crashed>>

Push(a) ==
  /\ todo[a] # <<>>
  /\ at[a] = "idle" /\ at' = [at EXCEPT ![a] = "inc"]
  /\ queue' = Append(queue, Head(todo[a]))
  /\ todo' = [todo EXCEPT ![a] = Tail(@)]
  /\ UNCHANGED <<sem, count, workers, observer, owner, done, crashed>>

\* Mutant: the job is not counted.
PostOnly(a) ==
  /\ at[a] = "inc" /\ at' = [at EXCEPT ![a] = "idle"]
  /\ sem' = sem + 1
  /\ UNCHANGED <<queue, count, todo, workers, observer, owner, done, crashed>>

\* The job is counted, and the semaphore posted, after the mutex was given back.
IncAndPost(a) ==
  /\ at[a] = "inc" /\ at' = [at EXCEPT ![a] = "idle"]
  /\ count' = IF a \in Synced THEN [count EXCEPT ![a] = @ + 1] ELSE count
  /\ sem' = sem + 1
  /\ UNCHANGED <<queue, todo, workers, observer, owner, done, crashed>>

SyncWait(a) ==
  /\ at[a] = "idle" /\ todo[a] = <<>>
  /\ a \in Synced => count[a] = 0
  /\ at' = [at EXCEPT ![a] = "through"]
  /\ UNCHANGED <<queue, sem, count, todo, workers, observer, owner, done, crashed>>

App(a) == Push(a) \/ IncAndPost(a) \/ SyncWait(a)

-----------------------------------------------------------------------------
\* cape_queue__item__on_del: on_done is called, then the CapeSync is released.
\* The second part waits until the one who added the job has counted it.

OnDone(j) == done' = [done EXCEPT ![j] = @ + 1]

MayDec(j) == Owner[j] \in Synced => count[Owner[j]] > 0
Dec(j) == count' = IF Owner[j] \in Synced THEN [count EXCEPT ![Owner[j]] = @ - 1] ELSE count

-----------------------------------------------------------------------------
\* A worker: cape_thread_run calls cape_queue_next for ever.

Goto(w, from, to) == pc[w] = from /\ pc' = [pc EXCEPT ![w] = to]

\* The semaphore was posted or, when it is 0, five seconds have passed; then
\* cape_queue_pull does its part under the mutex.
Awake == sem' = IF sem > 0 THEN sem - 1 ELSE sem

PullNothing(w) ==
  /\ pc[w] = "wait" /\ ~terminated /\ queue = <<>>
  /\ sem > 0 /\ Awake
  /\ UNCHANGED <<queue, apps, workers, observer, owner, done, crashed>>

PullJob(w) ==
  /\ ~terminated /\ queue # <<>>
  /\ Goto(w, "wait", "take") /\ Awake
  /\ job' = [job EXCEPT ![w] = Head(queue)]
  /\ queue' = Tail(queue)
  /\ UNCHANGED <<apps, item, busy, observer, owner, done, crashed>>

PullEnd(w) ==
  /\ terminated
  /\ Goto(w, "wait", "exit") /\ Awake
  /\ UNCHANGED <<queue, apps, item, busy, job, observer, owner, done, crashed>>

Take(w) ==
  /\ Goto(w, "take", "reset")
  /\ item' = [item EXCEPT ![w] = job[w]]
  /\ UNCHANGED <<queue, sem, apps, busy, job, observer, owner, done, crashed>>

Reset(w) ==
  /\ Goto(w, "reset", "event")
  /\ busy' = [busy EXCEPT ![w] = 0]
  /\ UNCHANGED <<queue, sem, apps, item, job, observer, owner, done, crashed>>

Returns(j) == j \notin Hung \/ j \in ended

\* on_event returns.  The thread is no longer busy.
EventReturns(w) ==
  /\ pc[w] = "event" /\ Returns(job[w])
  /\ Goto(w, "event", "release")
  /\ item' = [item EXCEPT ![w] = NoJob]
  /\ UNCHANGED <<queue, sem, apps, busy, job, observer, owner, done, crashed>>

Release(w) ==
  /\ Goto(w, "release", "dec")
  /\ OnDone(job[w])
  /\ UNCHANGED <<queue, sem, apps, item, busy, job, observer, owner, crashed>>

ReleaseSync(w) ==
  /\ Goto(w, "dec", "wait")
  /\ MayDec(job[w]) /\ Dec(job[w])
  /\ job' = [job EXCEPT ![w] = NoJob]
  /\ UNCHANGED <<queue, sem, todo, at, item, busy, observer, owner, done, crashed>>

Worker(w) ==
  \/ PullNothing(w) \/ PullJob(w) \/ PullEnd(w)
  \/ Take(w) \/ Reset(w) \/ EventReturns(w) \/ Release(w) \/ ReleaseSync(w)

-----------------------------------------------------------------------------
\* The observer: cape_queue__observer__thread.

Advance == IF cursor = NumWorkers THEN opc' = "sleep" /\ cursor' = 1
                                  ELSE opc' = "look" /\ cursor' = cursor + 1

\* Mutant: the observer does not look at the flag.
NeverEnds ==
  /\ opc = "sleep" /\ opc' = "look"
  /\ UNCHANGED <<queue, sem, apps, workers, cursor, seen, ended, owner, done, crashed>>

ObserverWakes ==
  /\ opc = "sleep"
  /\ opc' = IF terminated THEN "exit" ELSE "look"
  /\ UNCHANGED <<queue, sem, apps, workers, cursor, seen, ended, owner, done, crashed>>

\* The thread is idle, or its count is read.
LookAtIdle ==
  /\ opc = "look" /\ item[cursor] = NoJob
  /\ Advance
  /\ UNCHANGED <<queue, sem, apps, workers, seen, ended, owner, done, crashed>>

\* A job that returns in time, or was made to return by on_cancel, is never seen
\* when its count has come to the limit.
InTime(j) == j \notin Late /\ Returns(j)

LookAtBusy ==
  /\ opc = "look" /\ item[cursor] # NoJob
  /\ InTime(item[cursor]) => busy[cursor] + 1 < Limit
  /\ opc' = "count" /\ seen' = busy[cursor]
  /\ UNCHANGED <<queue, sem, apps, workers, cursor, ended, owner, done, crashed>>

\* The count is written back.
Count ==
  /\ opc = "count"
  /\ busy' = [busy EXCEPT ![cursor] = seen + 1]
  /\ IF seen + 1 > Limit THEN opc' = "over" /\ UNCHANGED cursor ELSE Advance
  /\ UNCHANGED <<queue, sem, apps, item, pc, job, seen, ended, owner, done, crashed>>

\* Mutant: the job is only given more time.
OnlyResetCount ==
  /\ opc = "over" /\ item[cursor] \in Cancellable
  /\ busy' = [busy EXCEPT ![cursor] = 0]
  /\ Advance
  /\ UNCHANGED <<ended, queue, sem, apps, item, pc, job, seen, owner, done, crashed>>

\* The callback of the user gets the job to return.
OverCancel ==
  /\ opc = "over" /\ item[cursor] \in Cancellable
  /\ ended' = ended \union {item[cursor]}
  /\ busy' = [busy EXCEPT ![cursor] = 0]
  /\ Advance
  /\ UNCHANGED <<queue, sem, apps, item, pc, job, seen, owner, done, crashed>>

\* cape_thread_cancel: the thread ends, here at once, in a cancellation point.
\* When the worker has finished since the test of ti->item, NULL is followed.
OverKill ==
  /\ opc = "over" /\ item[cursor] \notin Cancellable
  /\ IF item[cursor] = NoJob
     THEN crashed' = TRUE /\ UNCHANGED <<opc, pc>>
     ELSE opc' = "release" /\ pc' = [pc EXCEPT ![cursor] = "gone"] /\ UNCHANGED crashed
  /\ UNCHANGED <<queue, sem, apps, item, busy, job, cursor, seen, ended, owner, done>>

\* The observer calls on_done for the job of the thread.
OverRelease ==
  /\ opc = "release"
  /\ OnDone(item[cursor])
  /\ opc' = "restart"
  /\ UNCHANGED <<queue, sem, apps, workers, cursor, seen, ended, owner, crashed>>

\* The CapeSync of the job is released and the thread is started again.
OverRestart ==
  /\ opc = "restart" /\ MayDec(job[cursor]) /\ Dec(job[cursor])
  /\ busy' = [busy EXCEPT ![cursor] = 0] /\ item' = [item EXCEPT ![cursor] = NoJob]
  /\ job' = [job EXCEPT ![cursor] = NoJob]
  /\ pc' = [pc EXCEPT ![cursor] = "wait"]
  /\ Advance
  /\ UNCHANGED <<queue, sem, todo, at, seen, ended, owner, done, crashed>>

Observer ==
  \/ ObserverWakes \/ LookAtIdle \/ LookAtBusy \/ Count
  \/ OverCancel \/ OverKill \/ OverRelease \/ OverRestart

-----------------------------------------------------------------------------
\* cape_queue_del, once nobody adds any more.

Working(w) == pc[w] \in {"take", "reset", "event"} \/ item[w] # NoJob

Terminate ==
  /\ mpc = "run" /\ \A a \in Apps : at[a] = "through"
  /\ MayDeleteBusy \/ \A w \in Workers : ~Working(w)
  /\ terminated' = TRUE /\ mpc' = "wake" /\ turn' = 1
  /\ UNCHANGED <<queue, sem, apps, workers, observer, done, crashed>>

\* What is joined is not the thread but the item of the list.  Its `item' lies
\* where the status of a thread lies, its `busy_cnt' where the id lies: an idle
\* worker is not waited for, a busy one crashes the process.
WakeWorker ==
  /\ mpc = "wake"
  /\ sem' = sem + 1
  /\ crashed' = (crashed \/ item[turn] # NoJob)
  /\ IF turn < NumWorkers THEN turn' = turn + 1 /\ UNCHANGED mpc
                          ELSE turn' = 1 /\ mpc' = "observer"
  /\ UNCHANGED <<queue, terminated, apps, workers, observer, done>>

JoinObserver ==
  /\ mpc = "observer" /\ opc = "exit"
  /\ mpc' = "workers"
  /\ UNCHANGED <<queue, sem, apps, workers, observer, turn, terminated, done, crashed>>

JoinWorker ==
  /\ mpc = "workers" /\ pc[turn] = "exit"
  /\ IF turn < NumWorkers THEN turn' = turn + 1 /\ UNCHANGED mpc
                          ELSE turn' = 1 /\ mpc' = "rest"
  /\ UNCHANGED <<queue, sem, terminated, apps, workers, observer, done, crashed>>

\* Mutant: the list of jobs owns nothing.
ForgetJob ==
  /\ mpc = "rest" /\ queue # <<>>
  /\ queue' = Tail(queue)
  /\ UNCHANGED <<done, sem, apps, workers, observer, owner, crashed>>

\* The jobs that are left are given back without having been started.
DropJob ==
  /\ mpc = "rest" /\ queue # <<>>
  /\ MayDec(Head(queue)) /\ Dec(Head(queue))
  /\ OnDone(Head(queue))
  /\ queue' = Tail(queue)
  /\ UNCHANGED <<sem, todo, at, workers, observer, owner, crashed>>

Freed ==
  /\ mpc = "rest" /\ queue = <<>>
  /\ mpc' = "end"
  /\ UNCHANGED <<queue, sem, apps, workers, observer, turn, terminated, done, crashed>>

Delete == Terminate \/ WakeWorker \/ JoinObserver \/ JoinWorker \/ DropJob \/ Freed

\* All is over: the specification stutters, so that any other end is a deadlock.
Over == mpc = "end" /\ UNCHANGED vars

Next ==
  \/ \E a \in Apps : App(a)
  \/ \E w \in Workers : Worker(w)
  \/ Observer \/ Delete \/ Over

\* The operating system gives every thread its turn.
Fairness ==
  /\ \A a \in Apps : WF_vars(App(a))
  /\ \A w \in Workers : WF_vars(Worker(w))
  /\ WF_vars(Observer)
  /\ WF_vars(Delete)

Spec == Init /\ [][Next]_vars /\ Fairness

-----------------------------------------------------------------------------
\* The variables have their types; no CapeSync counts more than the jobs of its
\* thread, and the observer stops counting one round above its limit.
TypeOK ==
  /\ queue \in Seq(Jobs) /\ todo \in [Apps -> Seq(Jobs)]
  /\ sem \in Nat /\ terminated \in BOOLEAN /\ crashed \in BOOLEAN
  /\ seen \in 0..Limit /\ cursor \in Workers /\ turn \in Workers
  /\ item \in [Workers -> Jobs \union {NoJob}] /\ job \in [Workers -> Jobs \union {NoJob}]
  /\ busy \in [Workers -> 0..Limit + 1]
  /\ count \in [Apps -> Nat] /\ \A a \in Apps : count[a] <= Len(Plan[a])
  /\ done \in [Jobs -> Nat] /\ ended \subseteq Jobs
  /\ at \in [Apps -> {"idle", "inc", "through"}]
  /\ pc \in [Workers -> {"wait", "take", "reset", "event", "release", "dec", "gone", "exit"}]
  /\ opc \in {"sleep", "look", "count", "over", "release", "restart", "exit"}
  /\ mpc \in {"run", "wake", "observer", "workers", "rest", "end"}

\* "Release the item allocations and call the on_done method"
\* (cape_queue.c:631): whoever does it - the worker, the observer or the owner of
\* the queue - on_done is called once for each job, never a second time.
DoneOnce == \A j \in Jobs : done[j] <= 1 /\ (mpc = "end" => done[j] = 1)

\* Who has waited for the CapeSync finds all of its jobs done.
WaitMeansDone == \A j \in Jobs : Owner[j] \in Synced /\ at[Owner[j]] = "through" => done[j] = 1

\* "If there is a task running, it blocks until it has been finished"
\* (cape_queue.h:36): neither taking the queue down nor giving up on a job
\* crashes the process.
NeverCrashes == ~crashed

\* Every job that is added is done in the end, hung jobs included: the
\* observer ends them and starts the thread again.
EveryJobIsDone == \A j \in Jobs : (\E i \in DOMAIN queue : queue[i] = j) ~> (done[j] = 1)

\* Taking the queue down comes to its end.
DeleteEnds == terminated ~> (mpc = "end")

-----------------------------------------------------------------------------
\* The queue implements the promise of JobPool: started in the order in which
\* they were added, once, and finished once.

Pool == INSTANCE JobPool WITH
  waiting <- queue,
  running <- {j \in Jobs : done[j] = 0 /\ \E w \in Workers : job[w] = j},
  finished <- done

ImplementsPool == Pool!Spec
=============================================================================
