----------------------------- MODULE QueueProofs ------------------------------
(***************************************************************************)
(* Proofs about the queue of worker threads: every job is done once, who      *)
(* waited finds its jobs done, and the queue implements JobPool - for all      *)
(* threads, jobs, plans and limits, jobs that hang and jobs that return late    *)
(* included, and however the queue is taken down.                           *)
(*                                                                         *)
(* The argument: a job is in one place at a time - the list of its thread, the *)
(* queue, the hands of one worker - and only a job that is in none of them is  *)
(* done.  The observer takes a job out of a worker's hands only after it has    *)
(* stopped that worker.                                                      *)
(***************************************************************************)
EXTENDS Queue, SequenceTheorems, FiniteSetTheorems, TLAPS

Elems(s) == {s[i] : i \in 1 .. Len(s)}
Distinct(s) == \A i, k \in 1 .. Len(s) : s[i] = s[k] => i = k
Held(j) == \E w \in Workers : job[w] = j

\* The parts of the type invariant that are inductive by themselves.
Types ==
  /\ queue \in Seq(Jobs) /\ todo \in [Apps -> Seq(Jobs)]
  /\ sem \in Nat /\ terminated \in BOOLEAN /\ crashed \in BOOLEAN
  /\ seen \in 0..Limit /\ cursor \in Workers /\ turn \in Workers
  /\ item \in [Workers -> Jobs \union {NoJob}] /\ job \in [Workers -> Jobs \union {NoJob}]
  /\ busy \in [Workers -> 0..Limit + 1]
  /\ count \in [Apps -> Nat]
  /\ done \in [Jobs -> Nat] /\ ended \subseteq Jobs
  /\ at \in [Apps -> {"idle", "inc", "through"}]
  /\ pc \in [Workers -> {"wait", "take", "reset", "event", "release", "dec", "gone", "exit"}]
  /\ opc \in {"sleep", "look", "count", "over", "release", "restart", "exit"}
  /\ mpc \in {"run", "wake", "observer", "workers", "rest", "end"}

\* Only a thread the observer has given up is counted above the limit.
Rounds ==
  \A w \in Workers :
    busy[w] <= Limit \/ (w = cursor /\ opc \in {"over", "release", "restart"})

\* What waits to be added is in no other place.
ToAdd ==
  \A a \in Apps :
    /\ Distinct(todo[a])
    /\ \A j \in Elems(todo[a]) :
         Owner[j] = a /\ done[j] = 0 /\ j \notin Elems(queue) /\ ~Held(j)

\* What is in the queue is there once, and no worker has it.
Waiting == Distinct(queue) /\ \A j \in Elems(queue) : done[j] = 0 /\ ~Held(j)

OneWorker == \A w, v \in Workers : job[w] = job[v] /\ job[w] # NoJob => w = v

\* A job that is in no place was done.
Settled ==
  \A j \in Jobs :
    j \in Elems(todo[Owner[j]]) \/ j \in Elems(queue) \/ Held(j) \/ done[j] = 1

\* What a worker has in its hands, by the place it is at.
Phase(w) ==
  /\ pc[w] \in {"wait", "exit"} <=> job[w] = NoJob
  /\ item[w] = IF pc[w] \in {"reset", "event", "gone"} THEN job[w] ELSE NoJob
  /\ pc[w] \in {"take", "reset", "event", "release"} => done[job[w]] = 0
  /\ pc[w] = "dec" => done[job[w]] = 1
  /\ pc[w] = "gone" =>
       /\ cursor = w
       /\ opc \in {"release", "restart"}
       /\ done[job[w]] = IF opc = "release" THEN 0 ELSE 1

Phases ==
  /\ \A w \in Workers : Phase(w)
  /\ opc \in {"release", "restart"} => pc[cursor] = "gone"

\* The order in which the queue is taken down.
Ending ==
  /\ terminated <=> mpc # "run"
  /\ terminated => \A a \in Apps : at[a] = "through"
  /\ opc = "exit" => terminated
  /\ mpc \in {"workers", "rest", "end"} => opc = "exit"
  /\ mpc = "observer" => turn = 1
  /\ mpc = "workers" => \A w \in Workers : w < turn => pc[w] = "exit"
  /\ mpc \in {"rest", "end"} => \A w \in Workers : pc[w] = "exit"
  /\ mpc = "end" => queue = <<>>
  /\ \A a \in Apps : at[a] = "through" => todo[a] = <<>>

\* The jobs of a thread that it has added and that are not given back yet.
Open(a) == {j \in Jobs : Owner[j] = a /\ (j \in Elems(queue) \/ Held(j))}

\* A CapeSync counts them, except for the job that is being added.
CountedFor(a) ==
  IF a \in Synced
  THEN /\ IsFiniteSet(Open(a))
       /\ Cardinality(Open(a)) = count[a] + (IF at[a] = "inc" THEN 1 ELSE 0)
       /\ at[a] = "through" => Open(a) = {}
  ELSE count[a] = 0

Counted == \A a \in Apps : CountedFor(a)

Places == ToAdd /\ Waiting /\ OneWorker /\ Settled
IInv == Types /\ Rounds /\ Places /\ Phases /\ Ending
JInv == IInv /\ Counted

-----------------------------------------------------------------------------
\* The lists.

\* What is left of a list of different jobs when its first is taken.
LEMMA TakeFirst ==
  ASSUME NEW s, s \in Seq(Jobs), s # <<>>
  PROVE  /\ Head(s) \in Elems(s) /\ Head(s) \in Jobs /\ Tail(s) \in Seq(Jobs)
         /\ Distinct(s) => Distinct(Tail(s)) /\ Elems(Tail(s)) = Elems(s) \ {Head(s)}
  <1>1. /\ Len(s) \in Nat /\ Len(s) > 0 /\ Head(s) = s[1]
        /\ Tail(s) \in Seq(Jobs) /\ Len(Tail(s)) = Len(s) - 1
        /\ \A i \in 1 .. Len(s) - 1 : Tail(s)[i] = s[i + 1]
    OBVIOUS
  <1>2. Head(s) \in Elems(s) /\ Head(s) \in Jobs
    BY <1>1 DEF Elems
  <1>3. ASSUME Distinct(s) PROVE Distinct(Tail(s))
    BY <1>1, <1>3 DEF Distinct
  <1>4. ASSUME Distinct(s) PROVE Elems(Tail(s)) = Elems(s) \ {Head(s)}
    <2>1. ASSUME NEW j, j \in Elems(Tail(s)) PROVE j \in Elems(s) \ {Head(s)}
      <3>1. PICK i \in 1 .. Len(Tail(s)) : Tail(s)[i] = j
        BY <2>1 DEF Elems
      <3>2. i + 1 \in 1 .. Len(s) /\ s[i + 1] = j /\ 1 \in 1 .. Len(s) /\ i + 1 # 1
        BY <1>1, <3>1
      <3> QED
        BY <1>1, <1>4, <3>2 DEF Elems, Distinct
    <2>2. ASSUME NEW j, j \in Elems(s) \ {Head(s)} PROVE j \in Elems(Tail(s))
      <3>1. PICK i \in 1 .. Len(s) : s[i] = j
        BY <2>2 DEF Elems
      <3>2. i - 1 \in 1 .. Len(Tail(s)) /\ Tail(s)[i - 1] = j
        BY <1>1, <2>2, <3>1
      <3> QED
        BY <3>2 DEF Elems
    <2> QED
      BY <2>1, <2>2
  <1> QED
    BY <1>1, <1>2, <1>3, <1>4

\* A list of different jobs to which another is appended.
LEMMA PutLast ==
  ASSUME NEW s, NEW j, s \in Seq(Jobs), j \in Jobs
  PROVE  /\ Append(s, j) \in Seq(Jobs)
         /\ Elems(Append(s, j)) = Elems(s) \cup {j}
         /\ Distinct(s) /\ j \notin Elems(s) => Distinct(Append(s, j))
  <1> PICK t : t = Append(s, j)
    OBVIOUS
  <1>1. /\ Len(s) \in Nat /\ t \in Seq(Jobs) /\ Len(t) = Len(s) + 1
        /\ \A i \in 1 .. Len(s) : t[i] = s[i] /\ i \in 1 .. Len(t)
        /\ t[Len(s) + 1] = j
    OBVIOUS
  <1>2. \A i \in 1 .. Len(t) : i \in 1 .. Len(s) \/ i = Len(s) + 1
    BY <1>1
  <1>4. Len(s) + 1 \in 1 .. Len(t)
    BY <1>1
  <1>5. Elems(t) = Elems(s) \cup {j}
    <2>1. ASSUME NEW x \in Elems(t) PROVE x \in Elems(s) \cup {j}
      BY <1>1, <1>2 DEF Elems
    <2>2. ASSUME NEW x \in Elems(s) \cup {j} PROVE x \in Elems(t)
      BY <1>1, <1>4 DEF Elems
    <2> QED
      BY <2>1, <2>2
  <1>3. ASSUME Distinct(s), j \notin Elems(s) PROVE Distinct(t)
    <2>1. \A i \in 1 .. Len(s) : s[i] # j
      BY <1>1, <1>3 DEF Elems
    <2>2. \A a, b \in 1 .. Len(s) : s[a] = s[b] => a = b
      BY <1>1, <1>3 DEF Distinct
    <2>3. ASSUME NEW a \in 1 .. Len(t), NEW b \in 1 .. Len(t), t[a] = t[b] PROVE a = b
      <3>1. CASE a \in 1 .. Len(s) /\ b \in 1 .. Len(s)
        BY <1>1, <2>2, <2>3, <3>1
      <3>2. CASE a = Len(s) + 1 \/ b = Len(s) + 1
        BY <1>1, <1>2, <2>1, <2>3, <3>2
      <3> QED
        BY <1>2, <3>1, <3>2
    <2> QED
      BY <1>1, <2>3 DEF Distinct
  <1> QED
    BY <1>1, <1>3, <1>5

LEMMA EmptyList == Elems(<<>>) = {} /\ Distinct(<<>>)
  BY DEF Elems, Distinct

\* The jobs of a list are jobs.
LEMMA ElemsAreJobs ==
  ASSUME NEW s, s \in Seq(Jobs)
  PROVE  /\ Elems(s) \subseteq Jobs
         /\ IsFiniteSet(Elems(s)) /\ Cardinality(Elems(s)) <= Len(s)
  <1>1. Len(s) \in Nat /\ s \in Surjection(1 .. Len(s), Elems(s)) /\ Elems(s) \subseteq Jobs
    BY DEF Elems, Surjection
  <1>2. IsFiniteSet(1 .. Len(s)) /\ Cardinality(1 .. Len(s)) = Len(s)
    <2>1. PICK k \in Nat : k = Len(s)
      BY <1>1
    <2>2. IsFiniteSet(1 .. k) /\ Cardinality(1 .. k) = k
      BY FS_Interval
    <2> QED
      BY <2>1, <2>2
  <1> QED
    BY <1>1, <1>2, FS_Surjection

\* Every job is in the plan of one thread, its owner, and there once.
LEMMA Planned ==
  /\ \A a \in Apps : Distinct(Plan[a]) /\ \A j \in Elems(Plan[a]) : Owner[j] = a
  /\ \A j \in Jobs : Owner[j] \in Apps /\ j \in Elems(Plan[Owner[j]])
  <1>1. ASSUME NEW a \in Apps PROVE Distinct(Plan[a])
    <2>1. \A i \in 1 .. Len(Plan[a]) : Plan[a][i] \in Jobs /\ i \in DOMAIN Plan[a]
      BY PlanAssumption
    <2> QED
      BY <2>1, PlanAssumption DEF Distinct
  <1>2. ASSUME NEW a \in Apps, NEW j \in Elems(Plan[a]) PROVE Owner[j] = a
    <2>1. PICK i \in DOMAIN Plan[a] : Plan[a][i] = j
      BY PlanAssumption DEF Elems
    <2>2. j \in Jobs
      BY <2>1, PlanAssumption
    <2>3. ASSUME NEW b \in Apps, \E k \in DOMAIN Plan[b] : Plan[b][k] = j PROVE b = a
      BY <2>1, <2>2, <2>3, PlanAssumption
    <2> QED
      BY <2>1, <2>2, <2>3 DEF Owner
  <1>3. ASSUME NEW j \in Jobs PROVE Owner[j] \in Apps /\ j \in Elems(Plan[Owner[j]])
    <2>1. PICK a \in Apps : \E i \in DOMAIN Plan[a] : Plan[a][i] = j
      BY PlanAssumption
    <2>2. j \in Elems(Plan[a])
      BY <2>1, PlanAssumption DEF Elems
    <2> QED
      BY <1>2, <2>2
  <1> QED
    BY <1>1, <1>2, <1>3

-----------------------------------------------------------------------------
\* The variables have their types, and no thread is counted above the limit.

LEMMA InitTypes == Init => Types /\ Rounds
  <1> SUFFICES ASSUME Init PROVE Types /\ Rounds
    OBVIOUS
  <1>1. NumWorkers \in Nat /\ Limit \in Nat /\ 1 \in Workers
    BY BoundsAssumption DEF Workers
  <1>2. Rounds
    BY <1>1 DEF Init, Rounds
  <1>3. todo \in [Apps -> Seq(Jobs)] /\ queue \in Seq(Jobs)
    BY PlanAssumption DEF Init
  <1>4. done \in [Jobs -> Nat] /\ count \in [Apps -> Nat] /\ busy \in [Workers -> 0..Limit + 1]
    BY <1>1 DEF Init
  <1>5. /\ item \in [Workers -> Jobs \union {NoJob}] /\ job \in [Workers -> Jobs \union {NoJob}]
        /\ pc \in [Workers -> {"wait", "take", "reset", "event", "release", "dec", "gone", "exit"}]
        /\ at \in [Apps -> {"idle", "inc", "through"}]
    BY DEF Init
  <1>6. sem \in Nat /\ terminated \in BOOLEAN /\ crashed \in BOOLEAN
    BY Zenon DEF Init
  <1>7. /\ seen \in 0..Limit /\ cursor \in Workers /\ turn \in Workers /\ ended \subseteq Jobs
        /\ opc \in {"sleep", "look", "count", "over", "release", "restart", "exit"}
        /\ mpc \in {"run", "wake", "observer", "workers", "rest", "end"}
    BY <1>1 DEF Init
  <1> QED
    BY <1>2, <1>3, <1>4, <1>5, <1>6, <1>7 DEF Types

LEMMA AppTypes ==
  ASSUME NEW a, a \in Apps, Types, Rounds, App(a)
  PROVE  Types' /\ Rounds'
  <1>1. CASE Push(a)
    <2>1. /\ Head(todo[a]) \in Jobs /\ Tail(todo[a]) \in Seq(Jobs)
          /\ Append(queue, Head(todo[a])) \in Seq(Jobs)
      BY <1>1, TakeFirst, PutLast DEF Push, Types
    <2> QED
      BY <1>1, <2>1 DEF Push, Types, Rounds, workers, observer, owner
  <1>2. CASE IncAndPost(a)
    BY <1>2 DEF IncAndPost, Types, Rounds, workers, observer, owner
  <1>3. CASE SyncWait(a)
    BY <1>3 DEF SyncWait, Types, Rounds, workers, observer, owner
  <1> QED
    BY <1>1, <1>2, <1>3 DEF App

\* A CapeSync that is waited for has counted the job.
LEMMA DecTypes ==
  ASSUME NEW j, j \in Jobs, Types, MayDec(j), Dec(j)
  PROVE  count' \in [Apps -> Nat]
  BY Planned DEF Types, MayDec, Dec

LEMMA DoneTypes ==
  ASSUME NEW j, j \in Jobs, done \in [Jobs -> Nat], OnDone(j)
  PROVE  done' \in [Jobs -> Nat]
  BY DEF OnDone

LEMMA WorkerTypes ==
  ASSUME NEW w, w \in Workers, Types, Rounds, Phase(w), Worker(w)
  PROVE  Types' /\ Rounds'
  <1>1. CASE PullNothing(w)
    BY <1>1 DEF PullNothing, Awake, Types, Rounds, apps, workers, observer, owner
  <1>2. CASE PullJob(w)
    <2>1. Head(queue) \in Jobs /\ Tail(queue) \in Seq(Jobs)
      BY <1>2, TakeFirst DEF PullJob, Types
    <2> QED
      BY <1>2, <2>1 DEF PullJob, Goto, Awake, Types, Rounds, apps, observer, owner
  <1>3. CASE PullEnd(w)
    BY <1>3 DEF PullEnd, Goto, Awake, Types, Rounds, apps, observer, owner
  <1>4. CASE Take(w)
    BY <1>4 DEF Take, Goto, Types, Rounds, apps, observer, owner
  <1>5. CASE Reset(w)
    BY <1>5, BoundsAssumption DEF Reset, Goto, Types, Rounds, apps, observer, owner
  <1>6. CASE EventReturns(w)
    BY <1>6 DEF EventReturns, Goto, Types, Rounds, apps, observer, owner
  <1>7. CASE Release(w)
    <2>1. job[w] \in Jobs /\ done' \in [Jobs -> Nat]
      BY <1>7, DoneTypes DEF Release, Goto, Phase, Types
    <2> QED
      BY <1>7, <2>1 DEF Release, Goto, Types, Rounds, apps, observer, owner
  <1>8. CASE ReleaseSync(w)
    <2>1. job[w] \in Jobs
      BY <1>8 DEF ReleaseSync, Goto, Phase, Types
    <2>2. count' \in [Apps -> Nat]
      BY <1>8, <2>1, DecTypes DEF ReleaseSync
    <2> QED
      BY <1>8, <2>2 DEF ReleaseSync, Goto, Types, Rounds, apps, observer, owner
  <1> QED
    BY <1>1, <1>2, <1>3, <1>4, <1>5, <1>6, <1>7, <1>8 DEF Worker

\* The cursor goes round the workers.
LEMMA AdvanceTypes ==
  ASSUME Types, Advance
  PROVE  cursor' \in Workers /\ opc' \in {"sleep", "look"}
  BY BoundsAssumption DEF Types, Advance, Workers

LEMMA ObserverTypes ==
  ASSUME Types, Rounds, Phases, Observer
  PROVE  Types' /\ Rounds'
  <1>0. cursor \in Workers /\ Limit \in Nat /\ Limit > 0
    BY BoundsAssumption DEF Types
  <1>1. CASE ObserverWakes
    BY <1>1 DEF ObserverWakes, Types, Rounds, apps, workers, owner
  <1>2. CASE LookAtIdle
    BY <1>2, AdvanceTypes DEF LookAtIdle, Types, Rounds, apps, workers, owner
  <1>3. CASE LookAtBusy
    BY <1>0, <1>3 DEF LookAtBusy, Types, Rounds, apps, workers, owner
  <1>4. CASE Count
    <2>1. CASE seen + 1 > Limit
      BY <1>0, <1>4, <2>1 DEF Count, Types, Rounds, apps, owner
    <2>2. CASE ~(seen + 1 > Limit)
      BY <1>0, <1>4, <2>2, AdvanceTypes DEF Count, Types, Rounds, apps, owner
    <2> QED
      BY <2>1, <2>2
  <1>5. CASE OverCancel
    BY <1>0, <1>5, AdvanceTypes, JobAssumption DEF OverCancel, Types, Rounds, apps, owner
  <1>6. CASE OverKill
    <2>1. CASE item[cursor] = NoJob
      BY <1>6, <2>1 DEF OverKill, Types, Rounds, apps, owner
    <2>2. CASE item[cursor] # NoJob
      <3>1. pc' = [pc EXCEPT ![cursor] = "gone"] /\ opc' = "release" /\ UNCHANGED crashed
        BY <1>6, <2>2 DEF OverKill
      <3> QED
        BY <1>0, <1>6, <3>1 DEF OverKill, Types, Rounds, apps, owner
    <2> QED
      BY <2>1, <2>2
  <1>7. CASE OverRelease
    <2>1. item[cursor] \in Jobs
      BY <1>0, <1>7 DEF OverRelease, Phases, Phase, Types
    <2>2. done' \in [Jobs -> Nat]
      BY <1>7, <2>1, DoneTypes DEF OverRelease, Types
    <2> QED
      BY <1>0, <1>7, <2>2 DEF OverRelease, Types, Rounds, apps, workers, owner
  <1>8. CASE OverRestart
    <2>1. job[cursor] \in Jobs
      BY <1>0, <1>8 DEF OverRestart, Phases, Phase, Types
    <2>2. count' \in [Apps -> Nat]
      BY <1>8, <2>1, DecTypes DEF OverRestart
    <2> QED
      BY <1>0, <1>8, <2>2, AdvanceTypes DEF OverRestart, Types, Rounds, apps, owner
  <1> QED
    BY <1>1, <1>2, <1>3, <1>4, <1>5, <1>6, <1>7, <1>8 DEF Observer

LEMMA DeleteTypes ==
  ASSUME Types, Rounds, Delete
  PROVE  Types' /\ Rounds'
  <1>0. 1 \in Workers /\ (turn < NumWorkers => turn + 1 \in Workers)
    BY BoundsAssumption DEF Types, Workers
  <1>1. CASE Terminate
    BY <1>0, <1>1 DEF Terminate, Types, Rounds, apps, workers, observer
  <1>2. CASE WakeWorker
    BY <1>0, <1>2 DEF WakeWorker, Types, Rounds, apps, workers, observer
  <1>3. CASE JoinObserver
    BY <1>3 DEF JoinObserver, Types, Rounds, apps, workers, observer
  <1>4. CASE JoinWorker
    BY <1>0, <1>4 DEF JoinWorker, Types, Rounds, apps, workers, observer
  <1>5. CASE DropJob
    <2>1. Head(queue) \in Jobs /\ Tail(queue) \in Seq(Jobs)
      BY <1>5, TakeFirst DEF DropJob, Types
    <2>2. count' \in [Apps -> Nat]
      BY <1>5, <2>1, DecTypes DEF DropJob
    <2> QED
      BY <1>5, <2>1, <2>2 DEF DropJob, OnDone, Types, Rounds, workers, observer, owner
  <1>6. CASE Freed
    BY <1>6 DEF Freed, Types, Rounds, apps, workers, observer
  <1> QED
    BY <1>1, <1>2, <1>3, <1>4, <1>5, <1>6 DEF Delete

LEMMA StepTypes ==
  ASSUME Types, Rounds, Phases, [Next]_vars
  PROVE  Types' /\ Rounds'
  <1>1. ASSUME NEW a, a \in Apps, App(a) PROVE Types' /\ Rounds'
    BY <1>1, AppTypes
  <1>2. ASSUME NEW w, w \in Workers, Worker(w) PROVE Types' /\ Rounds'
    BY <1>2, WorkerTypes DEF Phases
  <1>3. CASE UNCHANGED vars
    BY <1>3 DEF vars, Types, Rounds, apps, workers, observer, owner
  <1> QED
    BY <1>1, <1>2, <1>3, ObserverTypes, DeleteTypes DEF Next, Over

-----------------------------------------------------------------------------
\* What the workers have in their hands.

\* An action that leaves the hands of a worker and the observer's place alone.
LEMMA PhaseKept ==
  ASSUME NEW w, Phase(w),
         pc'[w] = pc[w], job'[w] = job[w], item'[w] = item[w],
         pc[w] # "gone" \/ (opc' = opc /\ cursor' = cursor),
         job[w] # NoJob => done'[job[w]] = done[job[w]]
  PROVE  Phase(w)'
  BY DEF Phase

\* on_done of one job says nothing of another worker's job.
LEMMA DoneOfOthers ==
  ASSUME NEW w, NEW v, Types, OneWorker, w \in Workers, v \in Workers, w # v,
         job[w] # NoJob, OnDone(job[w]), job[v] # NoJob
  PROVE  done'[job[v]] = done[job[v]]
  BY DEF Types, OneWorker, OnDone

LEMMA WorkerPhases ==
  ASSUME NEW w, w \in Workers, Types, Waiting, OneWorker, Phases, Worker(w)
  PROVE  Phases'
  <1>0. /\ \A v \in Workers : Phase(v)
        /\ opc \in {"release", "restart"} => pc[cursor] = "gone"
        /\ cursor \in Workers
    BY DEF Phases, Types
  <1>1. UNCHANGED <<opc, cursor>>
    BY DEF Worker, PullNothing, PullJob, PullEnd, Take, Reset, EventReturns, Release,
           ReleaseSync, observer, workers
  <1>2. pc[w] # "gone" /\ \A v \in Workers : v # w => pc'[v] = pc[v]
    BY DEF Worker, PullNothing, PullJob, PullEnd, Take, Reset, EventReturns, Release,
           ReleaseSync, workers, Goto, Types
  <1>3. \A v \in Workers : v # w => job'[v] = job[v] /\ item'[v] = item[v]
    BY DEF Worker, PullNothing, PullJob, PullEnd, Take, Reset, EventReturns, Release,
           ReleaseSync, workers, Types
  <1>4. ASSUME NEW v, v \in Workers, v # w, job[v] # NoJob
        PROVE  done'[job[v]] = done[job[v]]
    <2>1. CASE Release(w)
      <3>1. job[w] # NoJob
        BY <1>0, <2>1 DEF Release, Goto, Phase
      <3> QED
        BY <1>4, <2>1, <3>1, DoneOfOthers DEF Release
    <2>2. CASE ~Release(w)
      BY <2>2 DEF Worker, PullNothing, PullJob, PullEnd, Take, Reset, EventReturns, ReleaseSync
    <2> QED
      BY <2>1, <2>2
  <1>5. ASSUME NEW v, v \in Workers, v # w PROVE Phase(v)'
    BY <1>0, <1>1, <1>2, <1>3, <1>4, <1>5, PhaseKept
  <1>6. opc' \in {"release", "restart"} => pc'[cursor'] = "gone"
    BY <1>0, <1>1, <1>2
  <1>7. Phase(w)'
    <2>0. Phase(w) /\ NoJob \notin Jobs
      BY <1>0, JobAssumption
    <2>1. CASE PullNothing(w)
      BY <2>0, <2>1, <1>1, <1>2, PhaseKept DEF PullNothing, workers
    <2>2. CASE PullJob(w)
      <3>1. Head(queue) \in Jobs /\ done[Head(queue)] = 0
        BY <2>2, TakeFirst DEF PullJob, Types, Waiting
      <3> QED
        BY <2>0, <2>2, <3>1 DEF PullJob, Goto, Phase, Types
    <2>3. CASE PullEnd(w)
      BY <2>0, <2>3 DEF PullEnd, Goto, Phase, Types
    <2>4. CASE Take(w)
      BY <2>0, <2>4 DEF Take, Goto, Phase, Types
    <2>5. CASE Reset(w)
      BY <2>0, <2>5 DEF Reset, Goto, Phase, Types
    <2>6. CASE EventReturns(w)
      BY <2>0, <2>6 DEF EventReturns, Goto, Phase, Types
    <2>7. CASE Release(w)
      <3>1. job[w] \in Jobs /\ done[job[w]] = 0
        BY <2>0, <2>7 DEF Release, Goto, Phase, Types
      <3>2. done'[job[w]] = 1
        BY <2>7, <3>1 DEF Release, OnDone, Types
      <3> QED
        BY <2>0, <2>7, <3>1, <3>2 DEF Release, Goto, Phase, Types
    <2>8. CASE ReleaseSync(w)
      BY <2>0, <2>8 DEF ReleaseSync, Goto, Phase, Types
    <2> QED
      BY <2>1, <2>2, <2>3, <2>4, <2>5, <2>6, <2>7, <2>8 DEF Worker
  <1> QED
    BY <1>5, <1>6, <1>7 DEF Phases

\* The observer, while no thread is given up.
LEMMA ObserverLooks ==
  ASSUME Types, Phases, opc \notin {"release", "restart"},
         opc' \notin {"release", "restart"}, UNCHANGED <<pc, job, item, done>>
  PROVE  Phases'
  <1>1. ASSUME NEW w, w \in Workers PROVE Phase(w)'
    BY <1>1, PhaseKept DEF Phases, Phase
  <1> QED
    BY <1>1 DEF Phases

LEMMA ObserverPhases ==
  ASSUME Types, OneWorker, Phases, Observer
  PROVE  Phases'
  <1>0. /\ \A v \in Workers : Phase(v)
        /\ opc \in {"release", "restart"} => pc[cursor] = "gone"
        /\ cursor \in Workers
    BY DEF Phases, Types
  <1>1. CASE ObserverWakes
    BY <1>1, ObserverLooks DEF ObserverWakes, workers
  <1>2. CASE LookAtIdle
    BY <1>2, ObserverLooks DEF LookAtIdle, Advance, workers
  <1>3. CASE LookAtBusy
    BY <1>3, ObserverLooks DEF LookAtBusy, workers
  <1>4. CASE Count
    BY <1>4, ObserverLooks DEF Count, Advance
  <1>5. CASE OverCancel
    BY <1>5, ObserverLooks DEF OverCancel, Advance
  <1>6. CASE OverKill
    <2>1. CASE item[cursor] = NoJob
      BY <1>6, <2>1, ObserverLooks DEF OverKill
    <2>2. CASE item[cursor] # NoJob
      <3>1. /\ opc = "over" /\ opc' = "release" /\ pc' = [pc EXCEPT ![cursor] = "gone"]
            /\ UNCHANGED <<job, item, done, cursor>>
        BY <1>6, <2>2 DEF OverKill
      <3>2. ASSUME NEW w, w \in Workers, w # cursor PROVE Phase(w)'
        BY <1>0, <3>1, <3>2, PhaseKept DEF Types, Phase
      <3>3. item[cursor] = job[cursor] /\ done[job[cursor]] = 0
        BY <1>0, <2>2, <3>1 DEF Phase
      <3>4. pc'[cursor] = "gone"
        BY <1>0, <3>1 DEF Types
      <3>5. Phase(cursor)'
        BY <1>0, <2>2, <3>1, <3>3, <3>4 DEF Phase
      <3> QED
        BY <3>1, <3>2, <3>4, <3>5 DEF Phases
    <2> QED
      BY <2>1, <2>2
  <1>7. CASE OverRelease
    <2>1. /\ opc = "release" /\ opc' = "restart" /\ OnDone(job[cursor])
          /\ UNCHANGED <<pc, job, item, cursor>> /\ pc[cursor] = "gone" /\ job[cursor] # NoJob
      BY <1>0, <1>7 DEF OverRelease, Phase, workers
    <2>2. ASSUME NEW w, w \in Workers, w # cursor PROVE Phase(w)'
      BY <1>0, <2>1, <2>2, PhaseKept, DoneOfOthers DEF Phase
    <2>3. done[job[cursor]] = 0 /\ job[cursor] \in Jobs
      BY <1>0, <2>1 DEF Phase, Types
    <2>4. done'[job[cursor]] = 1
      BY <2>1, <2>3 DEF OnDone, Types
    <2>5. Phase(cursor)'
      BY <1>0, <2>1, <2>4 DEF Phase
    <2> QED
      BY <2>1, <2>2, <2>5 DEF Phases
  <1>8. CASE OverRestart
    <2>1. /\ opc = "restart" /\ opc' \in {"sleep", "look"} /\ UNCHANGED done
          /\ item' = [item EXCEPT ![cursor] = NoJob]
          /\ job' = [job EXCEPT ![cursor] = NoJob]
          /\ pc' = [pc EXCEPT ![cursor] = "wait"]
      BY <1>8 DEF OverRestart, Advance
    <2>2. PICK c : c = cursor
      OBVIOUS
    <2>3. ASSUME NEW w, w \in Workers, w # c PROVE Phase(w)'
      BY <1>0, <2>1, <2>2, <2>3, PhaseKept DEF Phase, Types
    <2>4. pc'[c] = "wait" /\ job'[c] = NoJob /\ item'[c] = NoJob
      BY <1>0, <2>1, <2>2 DEF Types
    <2>5. Phase(c)'
      BY <2>4 DEF Phase
    <2> QED
      BY <2>1, <2>3, <2>5 DEF Phases
  <1> QED
    BY <1>1, <1>2, <1>3, <1>4, <1>5, <1>6, <1>7, <1>8 DEF Observer

\* The threads that add jobs and the owner of the queue leave the workers alone.
LEMMA AppPhases ==
  ASSUME NEW a, Phases, App(a)
  PROVE  Phases'
  <1>1. UNCHANGED <<workers, observer, done>>
    BY DEF App, Push, IncAndPost, SyncWait
  <1> QED
    BY <1>1 DEF Phases, Phase, workers, observer

LEMMA DeletePhases ==
  ASSUME Types, Waiting, Phases, Delete
  PROVE  Phases'
  <1>1. UNCHANGED <<workers, observer>>
    BY DEF Delete, Terminate, WakeWorker, JoinObserver, JoinWorker, DropJob, Freed
  <1>2. ASSUME NEW w, w \in Workers, job[w] # NoJob PROVE done'[job[w]] = done[job[w]]
    <2>1. CASE DropJob
      <3>1. Head(queue) \in Elems(queue) /\ OnDone(Head(queue))
        BY <2>1, TakeFirst DEF DropJob, Types
      <3>2. job[w] # Head(queue) /\ job[w] \in Jobs
        BY <1>2, <3>1 DEF Waiting, Held, Types
      <3> QED
        BY <3>1, <3>2 DEF OnDone, Types
    <2>2. CASE ~DropJob
      BY <2>2 DEF Delete, Terminate, WakeWorker, JoinObserver, JoinWorker, Freed
    <2> QED
      BY <2>1, <2>2
  <1>3. ASSUME NEW w, w \in Workers PROVE Phase(w)'
    BY <1>1, <1>2, <1>3, PhaseKept DEF Phases, workers, observer
  <1> QED
    BY <1>1, <1>3 DEF Phases, workers, observer

LEMMA StepPhases ==
  ASSUME Types, Waiting, OneWorker, Phases, [Next]_vars
  PROVE  Phases'
  <1>1. ASSUME NEW a, a \in Apps, App(a) PROVE Phases'
    BY <1>1, AppPhases
  <1>2. ASSUME NEW w, w \in Workers, Worker(w) PROVE Phases'
    BY <1>2, WorkerPhases
  <1>3. CASE UNCHANGED vars
    BY <1>3 DEF vars, Phases, Phase, workers, observer
  <1> QED
    BY <1>1, <1>2, <1>3, ObserverPhases, DeletePhases DEF Next, Over

-----------------------------------------------------------------------------
\* Where the jobs are.

\* What an action does to the places of the jobs: a step that keeps them, one
\* that moves the first job of a list, one that ends the work on a job.
Kept == UNCHANGED <<todo, queue, job, done>>

Added(a) ==
  /\ todo[a] # <<>>
  /\ queue' = Append(queue, Head(todo[a]))
  /\ todo' = [todo EXCEPT ![a] = Tail(@)]
  /\ UNCHANGED <<job, done>>

Pulled(w) ==
  /\ queue # <<>> /\ job[w] = NoJob
  /\ job' = [job EXCEPT ![w] = Head(queue)]
  /\ queue' = Tail(queue)
  /\ UNCHANGED <<todo, done>>

Done(w) ==
  /\ job[w] # NoJob /\ done[job[w]] = 0 /\ OnDone(job[w])
  /\ UNCHANGED <<todo, queue, job>>

GivenBack(w) ==
  /\ job[w] # NoJob /\ done[job[w]] = 1
  /\ job' = [job EXCEPT ![w] = NoJob]
  /\ UNCHANGED <<todo, queue, done>>

Dropped ==
  /\ queue # <<>> /\ OnDone(Head(queue))
  /\ queue' = Tail(queue)
  /\ UNCHANGED <<todo, job>>

Moves ==
  \/ Kept \/ Dropped
  \/ \E a \in Apps : Added(a)
  \/ \E w \in Workers : Pulled(w) \/ Done(w) \/ GivenBack(w)

\* Every step is one of these.
LEMMA StepMoves ==
  ASSUME Types, Phases, [Next]_vars
  PROVE  Moves
  <1>0. /\ \A v \in Workers : Phase(v)
        /\ opc \in {"release", "restart"} => pc[cursor] = "gone"
        /\ cursor \in Workers
    BY DEF Phases, Types
  <1>1. ASSUME NEW a, a \in Apps, App(a) PROVE Moves
    <2>1. CASE Push(a)
      BY <1>1, <2>1 DEF Push, Moves, Added, workers
    <2>2. CASE ~Push(a)
      BY <1>1, <2>2 DEF App, IncAndPost, SyncWait, Moves, Kept, workers
    <2> QED
      BY <2>1, <2>2
  <1>2. ASSUME NEW w, w \in Workers, Worker(w) PROVE Moves
    <2>1. CASE PullJob(w)
      <3>1. job[w] = NoJob
        BY <1>0, <1>2, <2>1 DEF PullJob, Goto, Phase
      <3> QED
        BY <1>2, <2>1, <3>1 DEF PullJob, Moves, Pulled, apps
    <2>2. CASE Release(w)
      <3>1. job[w] # NoJob /\ done[job[w]] = 0
        BY <1>0, <1>2, <2>2 DEF Release, Goto, Phase
      <3> QED
        BY <1>2, <2>2, <3>1 DEF Release, Moves, Done, apps
    <2>3. CASE ReleaseSync(w)
      <3>1. job[w] # NoJob /\ done[job[w]] = 1
        BY <1>0, <1>2, <2>3 DEF ReleaseSync, Goto, Phase
      <3> QED
        BY <1>2, <2>3, <3>1 DEF ReleaseSync, Moves, GivenBack, apps
    <2>4. CASE ~(PullJob(w) \/ Release(w) \/ ReleaseSync(w))
      BY <1>2, <2>4 DEF Worker, PullNothing, PullEnd, Take, Reset, EventReturns, Moves, Kept,
                        apps, workers
    <2> QED
      BY <2>1, <2>2, <2>3, <2>4
  <1>3. CASE Observer
    <2>1. CASE OverRelease
      <3>1. OnDone(job[cursor]) /\ done[job[cursor]] = 0 /\ job[cursor] # NoJob
        BY <1>0, <2>1 DEF OverRelease, Phase
      <3> QED
        BY <1>0, <2>1, <3>1 DEF OverRelease, Moves, Done, apps, workers
    <2>2. CASE OverRestart
      <3>1. done[job[cursor]] = 1 /\ job[cursor] # NoJob
        BY <1>0, <2>2 DEF OverRestart, Phase
      <3> QED
        BY <1>0, <2>2, <3>1 DEF OverRestart, Moves, GivenBack
    <2>3. CASE ~(OverRelease \/ OverRestart)
      BY <1>3, <2>3 DEF Observer, ObserverWakes, LookAtIdle, LookAtBusy, Count, OverCancel,
                        OverKill, Moves, Kept, apps, workers
    <2> QED
      BY <2>1, <2>2, <2>3
  <1>4. CASE Delete
    <2>1. CASE DropJob
      BY <2>1 DEF DropJob, Moves, Dropped, workers
    <2>2. CASE ~DropJob
      BY <1>4, <2>2 DEF Delete, Terminate, WakeWorker, JoinObserver, JoinWorker, Freed, Moves,
                        Kept, apps, workers
    <2> QED
      BY <2>1, <2>2
  <1>5. CASE UNCHANGED vars
    BY <1>5 DEF vars, Moves, Kept, apps, workers
  <1> QED
    BY <1>1, <1>2, <1>3, <1>4, <1>5 DEF Next, Over

\* What each of them does to the hands of the workers.
LEMMA HeldKept ==
  ASSUME NEW j, UNCHANGED job
  PROVE  Held(j)' <=> Held(j)
  BY DEF Held

LEMMA HeldPulled ==
  ASSUME NEW w, NEW j, w \in Workers, Types, Pulled(w), j # NoJob
  PROVE  Held(j)' <=> (Held(j) \/ j = Head(queue))
  BY DEF Types, Pulled, Held

LEMMA HeldGivenBack ==
  ASSUME NEW w, NEW j, w \in Workers, Types, OneWorker, GivenBack(w), j # NoJob
  PROVE  Held(j)' <=> (Held(j) /\ j # job[w])
  BY DEF Types, OneWorker, GivenBack, Held

LEMMA KeptPlaces ==
  ASSUME Places, Kept
  PROVE  Places'
  BY DEF Places, ToAdd, Waiting, OneWorker, Settled, Held, Kept

LEMMA AddedPlaces ==
  ASSUME NEW a, a \in Apps, Types, Places, Added(a)
  PROVE  Places'
  <1> USE DEF Places
  <1>1. PICK j : j = Head(todo[a])
    OBVIOUS
  <1>2. PICK s : s = todo[a]
    OBVIOUS
  <1>3. /\ s \in Seq(Jobs) /\ s # <<>> /\ Distinct(s)
        /\ j \in Elems(s) /\ j \in Jobs /\ Tail(s) \in Seq(Jobs)
        /\ Distinct(Tail(s)) /\ Elems(Tail(s)) = Elems(s) \ {j}
    BY <1>1, <1>2, TakeFirst DEF Added, Types, ToAdd
  <1>4. Owner[j] = a /\ done[j] = 0 /\ j \notin Elems(queue) /\ ~Held(j)
    BY <1>2, <1>3 DEF ToAdd
  <1>5. /\ todo'[a] = Tail(s) /\ \A b \in Apps : b # a => todo'[b] = todo[b]
        /\ queue' = Append(queue, j) /\ UNCHANGED <<job, done>>
    BY <1>1, <1>2 DEF Added, Types
  <1>6. Distinct(queue') /\ Elems(queue') = Elems(queue) \cup {j}
    BY <1>3, <1>4, <1>5, PutLast DEF Types, Waiting
  <1>7. ToAdd'
    <2>1. ASSUME NEW b, b \in Apps
          PROVE  /\ Distinct(todo'[b])
                 /\ \A i \in Elems(todo'[b]) : i \in Elems(todo[b]) /\ i # j
      <3>1. CASE b = a
        BY <1>2, <1>3, <1>5, <3>1
      <3>2. CASE b # a
        BY <1>4, <1>5, <2>1, <3>2 DEF ToAdd
      <3> QED
        BY <3>1, <3>2
    <2>2. ASSUME NEW b, b \in Apps, NEW i, i \in Elems(todo'[b])
          PROVE  Owner[i] = b /\ done'[i] = 0 /\ i \notin Elems(queue') /\ ~Held(i)'
      BY <1>5, <1>6, <2>1, <2>2, HeldKept DEF ToAdd
    <2> QED
      BY <2>1, <2>2 DEF ToAdd
  <1>8. Waiting'
    BY <1>4, <1>5, <1>6, HeldKept DEF Waiting
  <1>9. OneWorker'
    BY <1>5 DEF OneWorker
  <1>10. Settled'
    <2>1. ASSUME NEW i, i \in Jobs, i # j, i \in Elems(todo[Owner[i]])
          PROVE  i \in Elems(todo'[Owner[i]])
      <3>1. Owner[i] \in Apps
        BY <2>1, Planned
      <3> QED
        BY <1>2, <1>3, <1>5, <2>1, <3>1
    <2>2. ASSUME NEW i, i \in Jobs, i # j
          PROVE  i \in Elems(todo'[Owner[i]]) \/ i \in Elems(queue') \/ Held(i)' \/ done'[i] = 1
      BY <1>5, <1>6, <2>1, <2>2, HeldKept DEF Settled
    <2> QED
      BY <1>6, <2>2 DEF Settled
  <1> QED
    BY <1>7, <1>8, <1>9, <1>10

LEMMA PulledPlaces ==
  ASSUME NEW w, w \in Workers, Types, Places, Pulled(w)
  PROVE  Places'
  <1> USE DEF Places
  <1>1. PICK j : j = Head(queue)
    OBVIOUS
  <1>2. /\ j \in Elems(queue) /\ j \in Jobs
        /\ Distinct(queue') /\ Elems(queue') = Elems(queue) \ {j}
    BY <1>1, TakeFirst DEF Pulled, Types, Waiting
  <1>3. done[j] = 0 /\ ~Held(j) /\ j # NoJob
    BY <1>2, JobAssumption DEF Waiting
  <1>4. UNCHANGED <<todo, done>> /\ job' = [job EXCEPT ![w] = j]
    BY <1>1 DEF Pulled
  <1>5. ASSUME NEW i, i \in Jobs PROVE Held(i)' <=> (Held(i) \/ i = j)
    BY <1>1, <1>5, HeldPulled, JobAssumption
  <1>6. ASSUME NEW b, b \in Apps, NEW i, i \in Elems(todo[b]) PROVE i \in Jobs
    BY <1>6, ElemsAreJobs DEF Types
  <1>7. ToAdd'
    <2>1. ASSUME NEW b, b \in Apps, NEW i, i \in Elems(todo[b])
          PROVE  Owner[i] = b /\ done'[i] = 0 /\ i \notin Elems(queue') /\ ~Held(i)'
      BY <1>2, <1>4, <1>5, <1>6, <2>1 DEF ToAdd
    <2> QED
      BY <1>4, <2>1 DEF ToAdd
  <1>8. Waiting'
    <2>1. \A i \in Elems(queue) : i \in Jobs
      BY ElemsAreJobs DEF Types
    <2> QED
      BY <1>2, <1>4, <1>5, <2>1 DEF Waiting
  <1>9. OneWorker'
    BY <1>3, <1>4 DEF OneWorker, Types, Held
  <1>10. Settled'
    BY <1>2, <1>4, <1>5 DEF Settled
  <1> QED
    BY <1>7, <1>8, <1>9, <1>10

\* Of a job that a worker has, nothing is said of another.
LEMMA DonePlaces ==
  ASSUME NEW w, w \in Workers, Types, Places, Done(w)
  PROVE  Places'
  <1> USE DEF Places
  <1>1. PICK j : j = job[w]
    OBVIOUS
  <1>2. j \in Jobs /\ Held(j) /\ done[j] = 0
    BY <1>1 DEF Done, Types, Held
  <1>3. UNCHANGED <<todo, queue, job>> /\ done' = [done EXCEPT ![j] = @ + 1]
    BY <1>1 DEF Done, OnDone
  <1>4. ASSUME NEW i, i # j, i \in Jobs PROVE done'[i] = done[i]
    BY <1>3, <1>4 DEF Types
  <1>5. ToAdd'
    <2>1. ASSUME NEW b, b \in Apps, NEW i, i \in Elems(todo[b])
          PROVE  Owner[i] = b /\ done'[i] = 0 /\ i \notin Elems(queue') /\ ~Held(i)'
      <3>1. i \in Jobs /\ i # j
        BY <1>2, <2>1, ElemsAreJobs DEF Types, ToAdd
      <3> QED
        BY <1>3, <1>4, <2>1, <3>1, HeldKept DEF ToAdd
    <2> QED
      BY <1>3, <2>1 DEF ToAdd
  <1>6. Waiting'
    <2>1. ASSUME NEW i, i \in Elems(queue) PROVE i \in Jobs /\ i # j
      BY <1>2, <2>1, ElemsAreJobs DEF Types, Waiting
    <2> QED
      BY <1>3, <1>4, <2>1, HeldKept DEF Waiting
  <1>7. OneWorker'
    BY <1>3 DEF OneWorker
  <1>8. Settled'
    BY <1>2, <1>3, <1>4, HeldKept DEF Settled
  <1> QED
    BY <1>5, <1>6, <1>7, <1>8

LEMMA GivenBackPlaces ==
  ASSUME NEW w, w \in Workers, Types, Places, GivenBack(w)
  PROVE  Places'
  <1> USE DEF Places
  <1>1. PICK j : j = job[w]
    OBVIOUS
  <1>2. UNCHANGED <<todo, queue, done>> /\ done[j] = 1
    BY <1>1 DEF GivenBack
  <1>3. ASSUME NEW i, i \in Jobs PROVE Held(i)' <=> (Held(i) /\ i # j)
    BY <1>1, <1>3, HeldGivenBack, JobAssumption
  <1>4. ToAdd'
    <2>1. ASSUME NEW b, b \in Apps, NEW i, i \in Elems(todo[b])
          PROVE  Owner[i] = b /\ done'[i] = 0 /\ i \notin Elems(queue') /\ ~Held(i)'
      <3>1. i \in Jobs
        BY <2>1, ElemsAreJobs DEF Types
      <3> QED
        BY <1>2, <1>3, <2>1, <3>1 DEF ToAdd
    <2> QED
      BY <1>2, <2>1 DEF ToAdd
  <1>5. Waiting'
    <2>1. \A i \in Elems(queue) : i \in Jobs
      BY ElemsAreJobs DEF Types
    <2> QED
      BY <1>2, <1>3, <2>1 DEF Waiting
  <1>6. OneWorker'
    BY DEF OneWorker, Types, GivenBack
  <1>7. Settled'
    BY <1>2, <1>3 DEF Settled
  <1> QED
    BY <1>4, <1>5, <1>6, <1>7

LEMMA DroppedPlaces ==
  ASSUME Types, Places, Dropped
  PROVE  Places'
  <1> USE DEF Places
  <1>1. PICK j : j = Head(queue)
    OBVIOUS
  <1>2. /\ j \in Elems(queue) /\ j \in Jobs
        /\ Distinct(queue') /\ Elems(queue') = Elems(queue) \ {j}
    BY <1>1, TakeFirst DEF Dropped, Types, Waiting
  <1>3. UNCHANGED <<todo, job>> /\ done' = [done EXCEPT ![j] = @ + 1] /\ done[j] = 0
    BY <1>1, <1>2 DEF Dropped, OnDone, Waiting
  <1>4. ASSUME NEW i, i # j, i \in Jobs PROVE done'[i] = done[i]
    BY <1>3, <1>4 DEF Types
  <1>5. ToAdd'
    <2>1. ASSUME NEW b, b \in Apps, NEW i, i \in Elems(todo[b])
          PROVE  Owner[i] = b /\ done'[i] = 0 /\ i \notin Elems(queue') /\ ~Held(i)'
      <3>1. i \in Jobs /\ i # j
        BY <1>2, <2>1, ElemsAreJobs DEF Types, ToAdd
      <3> QED
        BY <1>2, <1>3, <1>4, <2>1, <3>1, HeldKept DEF ToAdd
    <2> QED
      BY <1>3, <2>1 DEF ToAdd
  <1>6. Waiting'
    <2>1. \A i \in Elems(queue) : i \in Jobs
      BY ElemsAreJobs DEF Types
    <2> QED
      BY <1>2, <1>3, <1>4, <2>1, HeldKept DEF Waiting
  <1>7. OneWorker'
    BY <1>3 DEF OneWorker
  <1>8. Settled'
    <2>1. done'[j] = 1
      BY <1>2, <1>3 DEF Types
    <2> QED
      BY <1>2, <1>3, <1>4, <2>1, HeldKept DEF Settled
  <1> QED
    BY <1>5, <1>6, <1>7, <1>8

LEMMA StepPlaces ==
  ASSUME Types, Places, Phases, [Next]_vars
  PROVE  Places'
  BY StepMoves, KeptPlaces, AddedPlaces, PulledPlaces, DonePlaces, GivenBackPlaces,
     DroppedPlaces DEF Moves

-----------------------------------------------------------------------------
\* The order in which the queue is taken down.

LEMMA AppEnding ==
  ASSUME NEW a, a \in Apps, Types, Ending, App(a)
  PROVE  Ending'
  <1>1. CASE Push(a)
    BY <1>1 DEF Push, Ending, Types, workers, observer, owner
  <1>2. CASE IncAndPost(a)
    BY <1>2 DEF IncAndPost, Ending, Types, workers, observer, owner
  <1>3. CASE SyncWait(a)
    BY <1>3 DEF SyncWait, Ending, Types, workers, observer, owner
  <1> QED
    BY <1>1, <1>2, <1>3 DEF App

\* A worker that has come to its end does nothing any more.
LEMMA WorkerEnding ==
  ASSUME NEW w, w \in Workers, Types, Ending, Worker(w)
  PROVE  Ending'
  <1>1. UNCHANGED <<todo, at, observer, owner>> /\ (queue' = queue \/ ~terminated)
    BY DEF Worker, PullNothing, PullJob, PullEnd, Take, Reset, EventReturns, Release,
           ReleaseSync, apps
  <1>2. pc[w] # "exit"
    BY DEF Worker, PullNothing, PullJob, PullEnd, Take, Reset, EventReturns, Release,
           ReleaseSync, Goto
  <1>3. \A v \in Workers : v # w => pc'[v] = pc[v]
    BY DEF Worker, PullNothing, PullJob, PullEnd, Take, Reset, EventReturns, Release,
           ReleaseSync, workers, Goto, Types
  <1>4. \A v \in Workers : pc[v] = "exit" => pc'[v] = "exit"
    BY <1>2, <1>3
  <1> QED
    BY <1>1, <1>4 DEF Ending, observer, owner

LEMMA ObserverEnding ==
  ASSUME Types, Phases, Ending, Observer
  PROVE  Ending'
  <1>0. /\ \A v \in Workers : Phase(v)
        /\ opc \in {"release", "restart"} => pc[cursor] = "gone"
        /\ cursor \in Workers /\ NoJob \notin Jobs
    BY JobAssumption DEF Phases, Types
  <1>1. UNCHANGED <<queue, todo, at, owner>>
    BY DEF Observer, ObserverWakes, LookAtIdle, LookAtBusy, Count, OverCancel, OverKill,
           OverRelease, OverRestart, apps
  <1>2. opc # "exit" /\ (opc' = "exit" => terminated)
    BY DEF Observer, ObserverWakes, LookAtIdle, LookAtBusy, Count, OverCancel, OverKill,
           OverRelease, OverRestart, Advance
  <1>3. mpc \notin {"workers", "rest", "end"}
    BY <1>2 DEF Ending
  <1> QED
    BY <1>1, <1>2, <1>3 DEF Ending, owner

LEMMA DeleteEnding ==
  ASSUME Types, Ending, Delete
  PROVE  Ending'
  <1>0. 1 \in Workers /\ turn \in Workers /\ Workers = 1 .. NumWorkers /\ NumWorkers \in Nat
    BY BoundsAssumption DEF Types, Workers
  <1>1. UNCHANGED <<todo, at, pc, opc>>
    BY DEF Delete, Terminate, WakeWorker, JoinObserver, JoinWorker, DropJob, Freed, apps,
           workers, observer
  <1>2. CASE Terminate
    BY <1>1, <1>2 DEF Terminate, Ending
  <1>3. CASE WakeWorker
    BY <1>1, <1>3 DEF WakeWorker, Ending
  <1>4. CASE JoinObserver
    BY <1>0, <1>1, <1>4 DEF JoinObserver, Ending
  <1>5. CASE JoinWorker
    <2>1. CASE turn < NumWorkers
      BY <1>0, <1>1, <1>5, <2>1 DEF JoinWorker, Ending
    <2>2. CASE ~(turn < NumWorkers)
      <3>1. \A w \in Workers : w < turn \/ w = turn
        BY <1>0, <2>2
      <3>2. \A w \in Workers : pc[w] = "exit"
        BY <1>5, <3>1 DEF JoinWorker, Ending
      <3> QED
        BY <1>1, <1>5, <2>2, <3>2 DEF JoinWorker, Ending
    <2> QED
      BY <2>1, <2>2
  <1>6. CASE DropJob
    BY <1>1, <1>6 DEF DropJob, Ending, owner
  <1>7. CASE Freed
    BY <1>1, <1>7 DEF Freed, Ending
  <1> QED
    BY <1>2, <1>3, <1>4, <1>5, <1>6, <1>7 DEF Delete

LEMMA StepEnding ==
  ASSUME Types, Phases, Ending, [Next]_vars
  PROVE  Ending'
  <1>1. ASSUME NEW a, a \in Apps, App(a) PROVE Ending'
    BY <1>1, AppEnding
  <1>2. ASSUME NEW w, w \in Workers, Worker(w) PROVE Ending'
    BY <1>2, WorkerEnding
  <1>3. CASE UNCHANGED vars
    BY <1>3 DEF vars, Ending, apps, workers, observer, owner
  <1> QED
    BY <1>1, <1>2, <1>3, ObserverEnding, DeleteEnding DEF Next, Over

-----------------------------------------------------------------------------
\* The invariant.

\* At the start every job waits to be added.
LEMMA InitInv == Init => JInv
  <1> SUFFICES ASSUME Init PROVE JInv
    OBVIOUS
  <1>1. Types /\ Rounds
    BY InitTypes
  <1>2. \A j \in Jobs : ~Held(j) /\ done[j] = 0
    BY JobAssumption DEF Init, Held
  <1>3. todo = Plan /\ Elems(queue) = {} /\ Distinct(queue)
    BY EmptyList DEF Init
  <1>4. ToAdd
    <2>1. ASSUME NEW a, a \in Apps, NEW j, j \in Elems(todo[a])
          PROVE  Owner[j] = a /\ j \in Jobs
      BY <1>3, <2>1, Planned, PlanAssumption, ElemsAreJobs
    <2> QED
      BY <1>2, <1>3, <2>1, Planned DEF ToAdd
  <1>5. Waiting
    BY <1>3 DEF Waiting
  <1>6. OneWorker
    BY DEF Init, OneWorker
  <1>7. Settled
    BY <1>3, Planned DEF Settled
  <1>8. Phases
    BY DEF Init, Phases, Phase
  <1>9. Ending
    BY DEF Init, Ending
  <1>10. Counted
    <2>1. ASSUME NEW a, a \in Apps PROVE Open(a) = {} /\ count[a] = 0 /\ at[a] = "idle"
      BY <1>2, <1>3, <2>1 DEF Open, Init
    <2>2. IsFiniteSet({}) /\ Cardinality({}) = 0
      BY FS_EmptySet
    <2> QED
      BY <2>1, <2>2 DEF Counted, CountedFor
  <1> QED
    BY <1>1, <1>4, <1>5, <1>6, <1>7, <1>8, <1>9, <1>10 DEF JInv, IInv, Places

LEMMA StepInv ==
  ASSUME IInv, [Next]_vars
  PROVE  IInv'
  BY StepTypes, StepPhases, StepPlaces, StepEnding DEF IInv, Places

-----------------------------------------------------------------------------
\* A CapeSync counts the jobs that are open.

\* Nothing changes for a thread.
LEMMA CountKept ==
  ASSUME NEW a, CountedFor(a), Open(a)' = Open(a), count'[a] = count[a], at'[a] = at[a]
  PROVE  CountedFor(a)'
  BY DEF CountedFor

LEMMA OpenKept ==
  ASSUME NEW a, UNCHANGED <<queue, job>>
  PROVE  Open(a)' = Open(a)
  BY DEF Open, Held

LEMMA AppCounted ==
  ASSUME NEW a, a \in Apps, Types, Places, Counted, App(a)
  PROVE  Counted'
  <1>1. CASE Push(a)
    <2>1. PICK j : j = Head(todo[a])
      OBVIOUS
    <2>2. /\ j \in Jobs /\ Owner[j] = a /\ j \notin Elems(queue) /\ ~Held(j)
          /\ Elems(queue') = Elems(queue) \cup {j}
      <3>1. j \in Elems(todo[a]) /\ j \in Jobs
        BY <1>1, <2>1, TakeFirst DEF Push, Types
      <3> QED
        BY <1>1, <2>1, <3>1, PutLast DEF Push, Types, Places, ToAdd
    <2>3. UNCHANGED <<job, count>> /\ at[a] = "idle" /\ at' = [at EXCEPT ![a] = "inc"]
      BY <1>1 DEF Push, workers
    <2>4. Open(a)' = Open(a) \cup {j} /\ j \notin Open(a)
      BY <2>2, <2>3, HeldKept DEF Open
    <2>5. ASSUME NEW b, b \in Apps, b # a PROVE CountedFor(b)'
      <3>1. Open(b)' = Open(b)
        BY <2>2, <2>3, <2>5, HeldKept DEF Open
      <3> QED
        BY <2>3, <2>5, <3>1, CountKept DEF Counted, Types
    <2>6. CountedFor(a)'
      <3>1. at'[a] = "inc" /\ CountedFor(a)
        BY <2>3 DEF Types, Counted
      <3>2. CASE a \in Synced
        <4>1. IsFiniteSet(Open(a)) /\ Cardinality(Open(a)) = count[a] /\ count[a] \in Nat
          BY <2>3, <3>1, <3>2 DEF CountedFor, Types
        <4>2. IsFiniteSet(Open(a)') /\ Cardinality(Open(a)') = count[a] + 1
          BY <2>4, <4>1, FS_AddElement
        <4> QED
          BY <2>3, <3>1, <3>2, <4>2 DEF CountedFor
      <3>3. CASE a \notin Synced
        BY <2>3, <3>1, <3>3 DEF CountedFor
      <3> QED
        BY <3>2, <3>3
    <2> QED
      BY <2>5, <2>6 DEF Counted
  <1>2. CASE IncAndPost(a) \/ SyncWait(a)
    <2>1. UNCHANGED <<queue, job>>
      BY <1>2 DEF IncAndPost, SyncWait, workers
    <2>2. ASSUME NEW b, b \in Apps PROVE Open(b)' = Open(b)
      BY <2>1, OpenKept
    <2>3. ASSUME NEW b, b \in Apps, b # a PROVE CountedFor(b)'
      <3>1. count'[b] = count[b] /\ at'[b] = at[b]
        BY <1>2, <2>3 DEF IncAndPost, SyncWait, Types
      <3> QED
        BY <2>2, <2>3, <3>1, CountKept DEF Counted
    <2>4. ASSUME IncAndPost(a) PROVE CountedFor(a)'
      <3>1. /\ at[a] = "inc" /\ at'[a] = "idle" /\ CountedFor(a)
            /\ count'[a] = (IF a \in Synced THEN count[a] + 1 ELSE count[a]) /\ count[a] \in Nat
        BY <2>4 DEF IncAndPost, Types, Counted
      <3> QED
        BY <2>2, <3>1 DEF CountedFor
    <2>5. ASSUME SyncWait(a) PROVE CountedFor(a)'
      <3>1. /\ at[a] = "idle" /\ at'[a] = "through" /\ CountedFor(a)
            /\ count'[a] = count[a] /\ (a \in Synced => count[a] = 0)
        BY <2>5 DEF SyncWait, Types, Counted
      <3>2. ASSUME a \in Synced PROVE Open(a) = {}
        BY <3>1, <3>2, FS_EmptySet DEF CountedFor
      <3> QED
        BY <2>2, <3>1, <3>2 DEF CountedFor
    <2> QED
      BY <1>2, <2>3, <2>4, <2>5 DEF Counted
  <1> QED
    BY <1>1, <1>2 DEF App

\* A job that was open is given back, and its CapeSync released.
LEMMA DecCounted ==
  ASSUME NEW j, j \in Jobs, Types, Counted, MayDec(j), Dec(j), UNCHANGED at,
         j \in Elems(queue) \/ Held(j),
         \A i \in Jobs : (i \in Elems(queue) \/ Held(i))'
                         <=> (i \in Elems(queue) \/ Held(i)) /\ i # j
  PROVE  Counted'
  <1>1. ASSUME NEW b, b \in Apps PROVE Open(b)' = Open(b) \ {j}
    BY DEF Open
  <1>2. PICK o : o = Owner[j]
    OBVIOUS
  <1>3. ASSUME NEW b, b \in Apps, b # o PROVE CountedFor(b)'
    <2>1. Open(b)' = Open(b)
      BY <1>1, <1>2, <1>3 DEF Open
    <2>2. count'[b] = count[b]
      BY <1>2, <1>3 DEF Dec, Types
    <2> QED
      BY <1>3, <2>1, <2>2, CountKept DEF Counted
  <1>4. ASSUME o \in Apps PROVE CountedFor(o)'
    <2>1. j \in Open(o) /\ CountedFor(o) /\ count[o] \in Nat
      BY <1>2, <1>4 DEF Open, Counted, Types
    <2>2. CASE o \in Synced
      <3>1. count[o] > 0 /\ count'[o] = count[o] - 1
        BY <1>2, <1>4, <2>2 DEF MayDec, Dec, Types
      <3>2. /\ IsFiniteSet(Open(o)')
            /\ Cardinality(Open(o)') = Cardinality(Open(o)) - 1
        BY <1>1, <1>4, <2>1, <2>2, FS_RemoveElement DEF CountedFor
      <3> QED
        BY <1>1, <1>4, <2>1, <2>2, <3>1, <3>2 DEF CountedFor
    <2>3. CASE o \notin Synced
      BY <1>2, <2>1, <2>3 DEF CountedFor, Dec
    <2> QED
      BY <2>2, <2>3
  <1> QED
    BY <1>3, <1>4 DEF Counted

LEMMA GivenBackCounted ==
  ASSUME NEW w, w \in Workers, Types, Places, Counted, GivenBack(w),
         MayDec(job[w]), Dec(job[w]), UNCHANGED at
  PROVE  Counted'
  <1>1. PICK j : j = job[w]
    OBVIOUS
  <1>2. j \in Jobs /\ Held(j) /\ done[j] = 1 /\ UNCHANGED queue
    BY <1>1 DEF GivenBack, Types, Held
  <1>3. j \notin Elems(queue)
    BY <1>2 DEF Places, Waiting
  <1>4. ASSUME NEW i, i \in Jobs PROVE Held(i)' <=> (Held(i) /\ i # j)
    BY <1>1, <1>4, HeldGivenBack, JobAssumption DEF Places
  <1> QED
    BY <1>1, <1>2, <1>3, <1>4, DecCounted

LEMMA WorkerCounted ==
  ASSUME NEW w, w \in Workers, Types, Phases, Places, Counted, Worker(w)
  PROVE  Counted'
  <1>0. Phase(w)
    BY DEF Phases
  <1>1. CASE PullJob(w)
    <2>1. job[w] = NoJob /\ UNCHANGED <<count, at>>
      BY <1>0, <1>1 DEF PullJob, Goto, Phase, apps
    <2>2. Pulled(w)
      BY <1>1, <2>1 DEF PullJob, Pulled, apps
    <2>3. Elems(queue') = Elems(queue) \ {Head(queue)} /\ Head(queue) \in Elems(queue)
      BY <2>2, TakeFirst DEF Pulled, Types, Places, Waiting
    <2>4. ASSUME NEW b, b \in Apps PROVE Open(b)' = Open(b)
      <3>1. ASSUME NEW i, i \in Jobs
            PROVE (i \in Elems(queue') \/ Held(i)') <=> (i \in Elems(queue) \/ Held(i))
        BY <2>2, <2>3, <3>1, HeldPulled, JobAssumption
      <3> QED
        BY <3>1 DEF Open
    <2> QED
      BY <2>1, <2>4, CountKept DEF Counted
  <1>2. CASE ReleaseSync(w)
    <2>1. GivenBack(w)
      BY <1>0, <1>2 DEF ReleaseSync, Goto, Phase, GivenBack
    <2> QED
      BY <1>2, <2>1, GivenBackCounted DEF ReleaseSync
  <1>3. CASE ~(PullJob(w) \/ ReleaseSync(w))
    <2>1. UNCHANGED <<queue, job, count, at>>
      BY <1>3 DEF Worker, PullNothing, PullEnd, Take, Reset, EventReturns, Release, apps, workers
    <2> QED
      BY <2>1, OpenKept, CountKept DEF Counted
  <1> QED
    BY <1>1, <1>2, <1>3

LEMMA ObserverCounted ==
  ASSUME Types, Phases, Places, Counted, Observer
  PROVE  Counted'
  <1>1. CASE OverRestart
    <2>1. PICK w : w = cursor
      OBVIOUS
    <2>2. w \in Workers /\ Phase(w) /\ opc = "restart" /\ pc[w] = "gone"
      BY <1>1, <2>1 DEF Phases, Types, OverRestart
    <2>3. GivenBack(w)
      BY <1>1, <2>1, <2>2 DEF OverRestart, Phase, GivenBack
    <2> QED
      BY <1>1, <2>1, <2>2, <2>3, GivenBackCounted DEF OverRestart
  <1>2. CASE ~OverRestart
    <2>1. UNCHANGED <<queue, job, count, at>>
      BY <1>2 DEF Observer, ObserverWakes, LookAtIdle, LookAtBusy, Count, OverCancel, OverKill,
                  OverRelease, apps, workers
    <2> QED
      BY <2>1, OpenKept, CountKept DEF Counted
  <1> QED
    BY <1>1, <1>2

LEMMA DeleteCounted ==
  ASSUME Types, Places, Counted, Delete
  PROVE  Counted'
  <1>1. CASE DropJob
    <2>1. PICK j : j = Head(queue)
      OBVIOUS
    <2>2. /\ j \in Jobs /\ j \in Elems(queue) /\ ~Held(j)
          /\ Elems(queue') = Elems(queue) \ {j}
      BY <1>1, <2>1, TakeFirst DEF DropJob, Types, Places, Waiting
    <2>3. MayDec(j) /\ Dec(j) /\ UNCHANGED <<at, job>>
      BY <1>1, <2>1 DEF DropJob, workers
    <2>4. \A i \in Jobs : (i \in Elems(queue) \/ Held(i))'
                          <=> (i \in Elems(queue) \/ Held(i)) /\ i # j
      BY <2>2, <2>3, HeldKept
    <2> QED
      BY <2>2, <2>3, <2>4, DecCounted
  <1>2. CASE ~DropJob
    <2>1. UNCHANGED <<queue, job, count, at>>
      BY <1>2 DEF Delete, Terminate, WakeWorker, JoinObserver, JoinWorker, Freed, apps, workers
    <2> QED
      BY <2>1, OpenKept, CountKept DEF Counted
  <1> QED
    BY <1>1, <1>2

LEMMA StepCounted ==
  ASSUME JInv, [Next]_vars
  PROVE  JInv'
  <1> USE DEF JInv
  <1>1. IInv'
    BY StepInv
  <1>2. Types /\ Phases /\ Places /\ Counted
    BY DEF IInv
  <1>3. ASSUME NEW a, a \in Apps, App(a) PROVE Counted'
    BY <1>2, <1>3, AppCounted
  <1>4. ASSUME NEW w, w \in Workers, Worker(w) PROVE Counted'
    BY <1>2, <1>4, WorkerCounted
  <1>5. ASSUME UNCHANGED vars PROVE Counted'
    <2>1. UNCHANGED <<queue, job, count, at>>
      BY <1>5 DEF vars, apps, workers
    <2>2. ASSUME NEW b, b \in Apps PROVE CountedFor(b)'
      <3>1. CountedFor(b) /\ count'[b] = count[b] /\ at'[b] = at[b]
        BY <1>2, <2>1, <2>2 DEF Counted
      <3>2. Open(b)' = Open(b)
        BY <2>1, OpenKept
      <3> QED
        BY <3>1, <3>2, CountKept
    <2> QED
      BY <2>2 DEF Counted
  <1>6. Counted'
    BY <1>2, <1>3, <1>4, <1>5, ObserverCounted, DeleteCounted DEF Next, Over
  <1> QED
    BY <1>1, <1>6

-----------------------------------------------------------------------------
\* The theorems.

\* The invariant: every job is in one place, every worker has in its hands what
\* its place says, and a CapeSync counts the open jobs of its thread.
THEOREM QueueInvariant == Spec => []JInv
  <1>1. JInv /\ [Next]_vars => JInv'
    BY StepCounted
  <1> QED
    BY InitInv, <1>1, PTL DEF Spec

\* The variables have their types; no CapeSync counts more than the jobs of its
\* thread, and the observer stops counting one round above its limit.
THEOREM TypeCorrect == Spec => []TypeOK
  <1>1. ASSUME JInv PROVE TypeOK
    <2>1. Types /\ Places /\ Counted
      BY <1>1 DEF JInv, IInv
    <2>2. ASSUME NEW a, a \in Apps PROVE count[a] <= Len(Plan[a])
      <3>1. /\ Plan[a] \in Seq(Jobs) /\ Len(Plan[a]) \in Nat /\ count[a] \in Nat /\ CountedFor(a)
        BY <2>1, <2>2, PlanAssumption DEF Types, Counted
      <3>2. CASE a \in Synced
        <4>1. /\ IsFiniteSet(Elems(Plan[a]))
              /\ Cardinality(Elems(Plan[a])) <= Len(Plan[a])
          BY <3>1, ElemsAreJobs
        <4>2. Open(a) \subseteq Elems(Plan[a])
          BY Planned DEF Open
        <4>3. /\ Cardinality(Open(a)) <= Cardinality(Elems(Plan[a]))
              /\ Cardinality(Open(a)) \in Nat /\ Cardinality(Elems(Plan[a])) \in Nat
          BY <4>1, <4>2, FS_Subset, FS_CardinalityType
        <4>4. count[a] <= Cardinality(Open(a))
          BY <3>1, <3>2, <4>3 DEF CountedFor
        <4> QED
          BY <3>1, <4>1, <4>3, <4>4
      <3>3. CASE a \notin Synced
        BY <3>1, <3>3 DEF CountedFor
      <3> QED
        BY <3>2, <3>3
    <2> QED
      BY <2>1, <2>2 DEF Types, TypeOK
  <1> QED
    BY QueueInvariant, <1>1, PTL

\* Whoever gives a job back - the worker, the observer or the owner of the queue
\* - calls on_done for it once, never a second time, and when the queue is
\* gone it was called for every job.
THEOREM DoneOnceCorrect == Spec => []DoneOnce
  <1>1. ASSUME IInv PROVE DoneOnce
    <2>0. Types /\ Places /\ Phases /\ Ending
      BY <1>1 DEF IInv
    <2>1. ASSUME NEW j, j \in Jobs PROVE done[j] \in {0, 1}
      <3>1. j \in Elems(todo[Owner[j]]) \/ j \in Elems(queue) \/ Held(j) \/ done[j] = 1
        BY <2>0, <2>1 DEF Places, Settled
      <3>2. CASE j \in Elems(todo[Owner[j]])
        BY <2>0, <2>1, <3>2, Planned DEF Places, ToAdd
      <3>3. CASE j \in Elems(queue)
        BY <2>0, <3>3 DEF Places, Waiting
      <3>4. CASE Held(j)
        <4>1. PICK w \in Workers : job[w] = j
          BY <3>4 DEF Held
        <4>2. Phase(w) /\ j # NoJob
          BY <2>0, <2>1, JobAssumption DEF Phases
        <4> QED
          BY <2>0, <4>1, <4>2 DEF Phase, Types
      <3> QED
        BY <3>1, <3>2, <3>3, <3>4
    <2>2. ASSUME NEW j, j \in Jobs, mpc = "end" PROVE done[j] = 1
      <3>1. Owner[j] \in Apps
        BY <2>2, Planned
      <3>2. todo[Owner[j]] = <<>> /\ queue = <<>>
        BY <2>0, <2>2, <3>1 DEF Ending
      <3>3. ~Held(j)
        BY <2>0, <2>2, JobAssumption DEF Ending, Phases, Phase, Held
      <3> QED
        BY <2>0, <2>2, <3>2, <3>3, EmptyList DEF Places, Settled
    <2> QED
      BY <2>1, <2>2 DEF DoneOnce
  <1>2. JInv => DoneOnce
    BY <1>1 DEF JInv
  <1> QED
    BY QueueInvariant, <1>2, PTL

\* Who has waited for its CapeSync finds all of its jobs done, whatever else
\* other threads have in the queue, and whether a job returned or was given up.
THEOREM WaitCorrect == Spec => []WaitMeansDone
  <1>1. ASSUME JInv PROVE WaitMeansDone
    <2>0. Types /\ Places /\ Ending /\ Counted
      BY <1>1 DEF JInv, IInv
    <2> SUFFICES ASSUME NEW j, j \in Jobs, Owner[j] \in Synced, at[Owner[j]] = "through"
                 PROVE  done[j] = 1
      BY DEF WaitMeansDone
    <2>1. Owner[j] \in Apps
      BY Planned
    <2>2. j \notin Elems(todo[Owner[j]])
      BY <2>0, <2>1, EmptyList DEF Ending
    <2>3. Open(Owner[j]) = {}
      BY <2>0, <2>1 DEF Counted, CountedFor
    <2>4. j \notin Elems(queue) /\ ~Held(j)
      BY <2>3 DEF Open
    <2> QED
      BY <2>0, <2>2, <2>4 DEF Places, Settled
  <1> QED
    BY QueueInvariant, <1>1, PTL

-----------------------------------------------------------------------------
\* The queue implements JobPool: adding is Add, pulling is Start, calling on_done
\* is Finish or - for a job that nobody has started - Drop, and everything else,
\* semaphores, counting, restarting, joining, is not seen.

Running == {j \in Jobs : done[j] = 0 /\ \E w \in Workers : job[w] = j}

LEMMA InitPool == Init => Pool!Init
  <1> SUFFICES ASSUME Init PROVE Pool!Init
    OBVIOUS
  <1>1. Running = {}
    BY JobAssumption DEF Init, Running
  <1> QED
    BY <1>1 DEF Init, Pool!Init, Running

LEMMA MovesPool ==
  ASSUME Types, Places, Moves
  PROVE  [Pool!Next]_(Pool!pool)
  <1>1. CASE Kept
    BY <1>1 DEF Kept, Pool!pool
  <1>2. CASE Dropped
    <2>1. Head(queue) \in Elems(queue) /\ Head(queue) \in Jobs
      BY <1>2, TakeFirst DEF Dropped, Types
    <2>2. ~Held(Head(queue))
      BY <2>1 DEF Places, Waiting
    <2>3. PICK h : h = Head(queue)
      OBVIOUS
    <2>4. done' = [done EXCEPT ![h] = @ + 1] /\ UNCHANGED job
      BY <1>2, <2>3 DEF Dropped, OnDone
    <2>5. Running' = Running
      BY <2>1, <2>2, <2>3, <2>4 DEF Running, Held, Types
    <2> QED
      BY <1>2, <2>3, <2>4, <2>5 DEF Dropped, Running, Pool!Next, Pool!Drop
  <1>3. ASSUME NEW a, a \in Apps, Added(a) PROVE Pool!Next
    <2>1. PICK j : j = Head(todo[a])
      OBVIOUS
    <2>2. j \in Elems(todo[a]) /\ j \in Jobs
      BY <1>3, <2>1, TakeFirst DEF Added, Types
    <2>3. done[j] = 0 /\ j \notin Elems(queue) /\ ~Held(j)
      BY <1>3, <2>2 DEF Places, ToAdd
    <2>4. ~Pool!Known(j)
      <3>1. ~ \E i \in DOMAIN queue : queue[i] = j
        <4>1. \A i \in 1 .. Len(queue) : queue[i] # j
          BY <2>3 DEF Elems
        <4>2. DOMAIN queue = 1 .. Len(queue)
          BY DEF Types
        <4> QED
          BY <4>1, <4>2
      <3>2. j \notin Running /\ ~(done[j] > 0)
        BY <2>3 DEF Running, Held
      <3> QED
        BY <3>1, <3>2 DEF Pool!Known, Running
    <2>5. UNCHANGED <<job, done>> /\ queue' = Append(queue, j)
      BY <1>3, <2>1 DEF Added
    <2> QED
      BY <2>2, <2>4, <2>5 DEF Pool!Next, Pool!Add
  <1>4. ASSUME NEW w, w \in Workers, Pulled(w) PROVE Pool!Next
    <2>1. PICK h : h = Head(queue)
      OBVIOUS
    <2>2. h \in Elems(queue) /\ h \in Jobs
      BY <1>4, <2>1, TakeFirst DEF Pulled, Types
    <2>3. done[h] = 0
      BY <2>2 DEF Places, Waiting
    <2>4. \A j \in Jobs : Held(j)' <=> (Held(j) \/ j = h)
      BY <1>4, <2>1, HeldPulled, JobAssumption
    <2>5. Running' = Running \cup {h}
      BY <1>4, <2>2, <2>3, <2>4 DEF Running, Held, Pulled
    <2> QED
      BY <1>4, <2>1, <2>5 DEF Pulled, Running, Pool!Next, Pool!Start
  <1>5. ASSUME NEW w, w \in Workers, Done(w) PROVE Pool!Next
    <2>1. PICK j : j = job[w]
      OBVIOUS
    <2>2. j \in Jobs /\ j \in Running
      BY <1>5, <2>1 DEF Done, Types, Running
    <2>3. done' = [done EXCEPT ![j] = @ + 1] /\ UNCHANGED <<queue, job>> /\ done[j] = 0
      BY <1>5, <2>1 DEF Done, OnDone
    <2>4. Running' = Running \ {j}
      BY <2>2, <2>3 DEF Running, Types
    <2> QED
      BY <2>2, <2>3, <2>4 DEF Running, Pool!Next, Pool!Finish
  <1>6. ASSUME NEW w, w \in Workers, GivenBack(w) PROVE UNCHANGED Pool!pool
    <2>1. \A j \in Jobs : Held(j)' <=> (Held(j) /\ j # job[w])
      BY <1>6, HeldGivenBack, JobAssumption DEF Places
    <2>2. UNCHANGED <<queue, done>> /\ done[job[w]] = 1
      BY <1>6 DEF GivenBack
    <2>3. Running' = Running
      BY <2>1, <2>2 DEF Running, Held
    <2> QED
      BY <2>2, <2>3 DEF Running, Pool!pool
  <1> QED
    BY <1>1, <1>2, <1>3, <1>4, <1>5, <1>6 DEF Moves

\* Jobs are started in the order in which they were added, once, and finished
\* once: the queue of cape_queue.c implements JobPool.
THEOREM PoolImplemented == Spec => ImplementsPool
  <1>1. IInv /\ [Next]_vars => [Pool!Next]_(Pool!pool)
    BY StepMoves, MovesPool DEF IInv
  <1>2. JInv => IInv
    BY DEF JInv
  <1> QED
    BY InitPool, QueueInvariant, <1>1, <1>2, PTL DEF Spec, ImplementsPool, Pool!Spec

=============================================================================
