-------------------------------- MODULE Flow --------------------------------
(***************************************************************************)
(* The processes of the module flow (modules/flow): a process walks along  *)
(* the worksteps of its workflow; a step runs at once, calls another       *)
(* module, waits for reports from outside, sleeps, or starts child         *)
(* processes and goes on when the counter of their sync row has reached 0. *)
(*                                                                         *)
(* Two threads carry them: the loop thread runs the handlers of requests,  *)
(* answers and timers, and one worker takes process objects (FlowRunDbw,   *)
(* here a "dbw") from the queue.  The state of a process is in the         *)
(* database; the queue, the dbws and the pending calls are in memory and   *)
(* are gone after a crash.  One action is one database transaction with    *)
(* the code around it.                                                     *)
(*                                                                         *)
(* The data is left out but for what children merge into their parent, so  *)
(* what depends on it is a choice: the size of a split list, whether an    *)
(* `if' finds its value, what a call answers.                              *)
(***************************************************************************)
EXTENDS Integers, Sequences, FiniteSets, SequencesExt

CONSTANTS Prog,         \* Prog[w][q]: the steps of workflow w in sequence q
          Roots,        \* the workflows users start, one process each
          SplitSizes,   \* sizes of the lists of split steps
          WaitItems,    \* the items of a wait list
          MaxAborts,    \* bound: abort requests
          MaxRepairs,   \* bound: repairs by an operator
          MaxMoves,     \* bound: processes an operator moves to another step
          MaxRemovals,  \* bound: processes that are removed
          MayDisturb,   \* do operators edit processes that run?
          MaxCrashes,   \* bound: crashes of the process
          MaxTroubles   \* bound: all of these together

(* A step of a workflow: its kind, and the workflow of its children.        *)
Kinds == {"plain", "call", "wait", "sleep", "split", "if"}
Sequences == {"default", "abort"}

ASSUME FlowAssumption ==
  /\ {MaxAborts, MaxRepairs, MaxMoves, MaxRemovals, MaxCrashes, MaxTroubles} \subseteq Nat
  /\ MayDisturb \in BOOLEAN
  /\ SplitSizes \subseteq Nat
  /\ Roots \subseteq DOMAIN Prog
  /\ \A w \in DOMAIN Prog, q \in Sequences :
       /\ Prog[w][q] \in Seq(ToSet(Prog[w][q]))
       /\ \A k \in DOMAIN Prog[w][q] :
            /\ Prog[w][q][k].kind \in Kinds
            /\ Prog[w][q][k].kind \in {"split", "if"} =>
                 Prog[w][q][k].wf \in DOMAIN Prog /\ Prog[Prog[w][q][k].wf][q] # <<>>
  /\ \A w \in Roots : Prog[w]["default"] # <<>>

VARIABLES
  task,      \* proc_tasks: workflow, sequence, current step and state, sync
  sync,      \* proc_task_sync: whose split, of which step, the counter
  gone,      \* the rows of both tables that were removed
  open,      \* flow_wait_items not yet reported, and pending call-backs
  timers,    \* processes with a timed job (qjobs)
  queue,     \* the dbws queued for the worker
  calls,     \* the dbws that wait for the answer of a call
  ctx,       \* what the worker and the loop thread are doing
  merged,    \* for each sync row, the children whose data the parent holds
  ran,       \* history: the steps each process has carried out
  ended,     \* history: the processes that have come to their end
  asked      \* how many roots, aborts, repairs, moves, removals, crashes there were

flowVars == <<task, sync, gone, open, timers, queue, calls, ctx, merged, ran, ended, asked>>

Steps(p) == Prog[task[p].wf][task[p].sq]
Procs == DOMAIN task
Live == Procs \ gone.procs
Children(s) == {c \in Procs : task[c].sync = s}
ParentOf(p) == IF task[p].sync = 0 THEN 0 ELSE sync[task[p].sync].taid

\* The processes from the root to p, and those at or below p.
Path == LET f[p \in Procs] == IF ParentOf(p) = 0 THEN <<p>>
                              ELSE Append(f[ParentOf(p)], p)
        IN f
Under(p) == {q \in Procs : p \in ToSet(Path[q])}

(* A dbw: its process, the step it has loaded, the state, the counter. *)
Dbw(p, k, st, cnt) == [p |-> p, k |-> k, st |-> st, cnt |-> cnt]
NoDbw == Dbw(0, 0, "none", -1)
Doing(where, d) == [at |-> where, d |-> d, todo |-> 0, seen |-> {}]
IdleCtx == Doing("idle", NoDbw)

FlowInit ==
  /\ task = <<>> /\ sync = <<>> /\ merged = <<>>
  /\ gone = [procs |-> {}, syncs |-> {}]
  /\ open = <<>> /\ ran = <<>>
  /\ timers = {} /\ calls = {} /\ ended = {}
  /\ queue = <<>>
  /\ ctx = [worker |-> IdleCtx, loop |-> IdleCtx]
  /\ asked = [roots |-> {}, aborts |-> 0, repairs |-> 0,
              moves |-> 0, removals |-> 0, crashes |-> 0]

MayAsk(what, max) ==
  /\ asked[what] < max
  /\ asked.aborts + asked.repairs + asked.moves + asked.removals + asked.crashes < MaxTroubles

(* The dbws of a process that are on their way. *)
Runners(p) ==
  {<<"queue", i>> : i \in {i \in DOMAIN queue : queue[i].p = p}}
    \union {<<"call", d.k>> : d \in {d \in calls : d.p = p}}
    \union {<<t, 0>> : t \in {t \in DOMAIN ctx : /\ ctx[t].d.p = p
                                              /\ ctx[t].at \notin {"idle", "halt", "parent"}}}

Become(t, c) == ctx' = [ctx EXCEPT ![t] = c]
SetState(p, st) == task' = IF p \in Live THEN [task EXCEPT ![p].state = st] ELSE task

(* flow_run_dbw_init and _start: the row is stored, the first step of the   *)
(* sequence begun and the dbw queued.                                       *)
Created(w, q, s) == [wf |-> w, sq |-> q, pos |-> 1, state |-> "none",
                     active |-> TRUE, sync |-> s]
Started(p) == Dbw(p, 1, "none", -1)
Create(base, rows) ==
  /\ task' = base \o rows
  /\ queue' = queue \o [i \in DOMAIN rows |-> Started(Len(task) + i)]
  /\ open' = open \o [i \in DOMAIN rows |-> {}]
  /\ ran' = ran \o [i \in DOMAIN rows |-> <<>>]

-----------------------------------------------------------------------------
(* Steps of a process, on either thread. *)

(* The worker takes a dbw from the queue. *)
Take ==
  /\ ctx.worker = IdleCtx
  /\ queue # <<>>
  /\ Become("worker", Doing("run", Head(queue)))
  /\ queue' = Tail(queue)
  /\ UNCHANGED <<gone, task, sync, open, timers, calls, merged, ran, ended, asked>>

Running(t, kinds, states) ==
  LET d == ctx[t].d
  IN /\ ctx[t].at = "run"
     /\ Steps(d.p)[d.k].kind \in kinds
     /\ d.st \in states

Ran(d) == ran' = [ran EXCEPT ![d.p] = Append(@, d.k)]

(* flow_run_dbw__run_step: the step is done, and the state saved.  On the   *)
(* loop thread this is flow_run_dbw_once, which goes no further.            *)
StepDone(t) ==
  LET d == ctx[t].d
  IN /\ SetState(d.p, "done")
     /\ Become(t, IF t = "worker" THEN Doing("next", [d EXCEPT !.st = "done"])
                  ELSE IdleCtx)

(* Variables, messages, calls without an answer; also a call whose          *)
(* precondition does not hold, or an `if' whose value is not found.         *)
RunPlain(t) ==
  /\ Running(t, {"plain", "if", "call"}, {"none"})
  /\ StepDone(t)
  /\ Ran(ctx[t].d)
  /\ UNCHANGED <<gone, sync, open, timers, queue, calls, merged, ended, asked>>

(* flow_run_step__method__syncron__call: the dbw goes with the request. *)
RunCall(t) ==
  /\ Running(t, {"call"}, {"none"})
  /\ calls' = calls \union {ctx[t].d}
  /\ Ran(ctx[t].d)
  /\ Become(t, IdleCtx)
  /\ UNCHANGED <<gone, task, sync, open, timers, queue, merged, ended, asked>>

(* flow_run_dbw_wait__init: the items of the list are stored. *)
RunWait(t) ==
  /\ Running(t, {"wait"}, {"none"})
  /\ open' = [open EXCEPT ![ctx[t].d.p] = WaitItems]
  /\ Ran(ctx[t].d)
  /\ Become(t, Doing("halt", ctx[t].d))
  /\ UNCHANGED <<gone, task, sync, timers, queue, calls, merged, ended, asked>>

(* flow_run_dbw_sleep__init: a timed job is stored. *)
RunSleep(t) ==
  /\ Running(t, {"sleep"}, {"none"})
  /\ timers' = timers \union {ctx[t].d.p}
  /\ Ran(ctx[t].d)
  /\ Become(t, Doing("halt", ctx[t].d))
  /\ UNCHANGED <<gone, task, sync, open, queue, calls, merged, ended, asked>>

\* Mutant: the counter does not know the length of the list.
SyncRowOfOne(d, n) == [taid |-> d.p, step |-> d.k, size |-> n, cnt |-> 1]

(* flow_run_dbw_sync__add; size is kept for the properties. *)
SyncRow(d, n) == [taid |-> d.p, step |-> d.k, size |-> n, cnt |-> n]

(* split_add and if__add: the sync row with the number of children, and the *)
(* state HALT, before the first child is created.                           *)
RunFork(t) ==
  LET d == ctx[t].d
  IN /\ Running(t, {"split", "if"}, {"none"})
     /\ \E n \in IF Steps(d.p)[d.k].kind = "if" THEN {1} ELSE SplitSizes :
          /\ sync' = Append(sync, SyncRow(d, n))
          /\ merged' = Append(merged, {})
          /\ Become(t, [Doing("fork", d) EXCEPT !.todo = n])
     /\ SetState(d.p, "halt")
     /\ Ran(d)
     /\ UNCHANGED <<gone, open, timers, queue, calls, ended, asked>>

(* flow_run_dbw_inherit: the next child, in the sequence of its parent. *)
MySync(d) == Max({s \in DOMAIN sync : sync[s].taid = d.p /\ sync[s].step = d.k})
Inherit(t) ==
  LET d == ctx[t].d
      wf == Steps(d.p)[d.k].wf
  IN /\ ctx[t].at = "fork"
     /\ IF ctx[t].todo > 0
        THEN /\ Create(task, <<Created(wf, task[d.p].sq, MySync(d))>>)
             /\ Become(t, [ctx[t] EXCEPT !.todo = @ - 1])
        ELSE Become(t, Doing("halt", d)) /\ UNCHANGED <<task, queue, open, ran>>
     /\ UNCHANGED <<gone, sync, timers, calls, merged, ended, asked>>

(* A step that has to wait saves HALT and lets the dbw go. *)
Halt(t) ==
  /\ ctx[t].at = "halt"
  /\ SetState(ctx[t].d.p, "halt")
  /\ Become(t, IdleCtx)
  /\ UNCHANGED <<gone, sync, open, timers, queue, calls, merged, ran, ended, asked>>

(* A parent that is run again by its last child: the split looks at the     *)
(* counter it has loaded, `if' and switch do not.                           *)
Passes(d) == Steps(d.p)[d.k].kind = "if" \/ (d.st = "halt" /\ d.cnt = 0)
RunJoin(t) ==
  /\ Running(t, {"split", "if"}, {"halt", "aborted"})
  /\ IF Passes(ctx[t].d) THEN StepDone(t)
     ELSE Become(t, Doing("halt", ctx[t].d)) /\ UNCHANGED task
  /\ UNCHANGED <<gone, sync, open, timers, queue, calls, merged, ran, ended, asked>>

(* flow_run_dbw__next: the step after the current one of the DATABASE is    *)
(* begun.  The worker runs it itself, the loop thread queues it.            *)
NextStep(t) ==
  LET d == ctx[t].d
      k == task[d.p].pos + 1
  IN /\ ctx[t].at = "next"
     /\ IF d.p \in Live /\ k <= Len(Steps(d.p))
        THEN /\ task' = [task EXCEPT ![d.p].pos = k]
             /\ IF t = "worker"
                THEN /\ Become(t, Doing("run", [d EXCEPT !.k = k, !.st = "none"]))
                     /\ UNCHANGED queue
                ELSE /\ queue' = Append(queue, [d EXCEPT !.k = k, !.st = "none"])
                     /\ Become(t, IdleCtx)
        ELSE Become(t, Doing("end", d)) /\ UNCHANGED <<task, queue>>
     /\ UNCHANGED <<gone, sync, open, timers, calls, merged, ran, ended, asked>>

-----------------------------------------------------------------------------
(* The end of a process: flow_run_dbw_done. *)

(* done__save_to_database reads the parent's data ...                       *)
HasRow(s) == s # 0 /\ s \notin gone.syncs
EndRead(t) ==
  LET s == task[ctx[t].d.p].sync
  IN /\ ctx[t].at = "end"
     /\ Become(t, [Doing("save", ctx[t].d) EXCEPT
                     !.seen = IF HasRow(s) THEN merged[s] ELSE {}])
     /\ UNCHANGED <<gone, task, sync, open, timers, queue, calls, merged, ran, ended, asked>>

(* ... writes it back with its own merged in, and commits. *)
EndWrite(t) ==
  LET p == ctx[t].d.p
      s == task[p].sync
  IN /\ ctx[t].at = "save"
     /\ IF p \in Live
        THEN task' = [task EXCEPT ![p].active = FALSE] /\ ended' = ended \union {p}
        ELSE UNCHANGED <<task, ended>>
     /\ merged' = IF HasRow(s) THEN [merged EXCEPT ![s] = ctx[t].seen \union {p}]
                  ELSE merged
     /\ Become(t, IF s = 0 THEN IdleCtx ELSE Doing("dec", ctx[t].d))
     /\ UNCHANGED <<gone, sync, open, timers, queue, calls, ran, asked>>

\* Mutant: the value before the decrement is compared with 0.
DecComparesOld(t) ==
  LET s == task[ctx[t].d.p].sync
  IN /\ ctx[t].at = "dec"
     /\ sync' = [sync EXCEPT ![s].cnt = @ - 1]
     /\ Become(t, IF sync[s].cnt = 0 THEN Doing("parent", ctx[t].d) ELSE IdleCtx)
     /\ UNCHANGED <<gone, task, open, timers, queue, calls, merged, ran, ended, asked>>

\* Mutant: every child that ends runs the parent.
DecAlwaysContinues(t) ==
  LET s == task[ctx[t].d.p].sync
  IN /\ ctx[t].at = "dec"
     /\ sync' = [sync EXCEPT ![s].cnt = @ - 1]
     /\ Become(t, Doing("parent", ctx[t].d))
     /\ UNCHANGED <<gone, task, open, timers, queue, calls, merged, ran, ended, asked>>

(* The counter goes down by an atomic statement (Adbl!EveryValueOnce).  One *)
(* whose row was removed gives 0, and no parent is found.                   *)
Dec(t) ==
  LET s == task[ctx[t].d.p].sync
  IN /\ ctx[t].at = "dec"
     /\ sync' = IF HasRow(s) THEN [sync EXCEPT ![s].cnt = @ - 1] ELSE sync
     /\ Become(t, IF HasRow(s) /\ sync[s].cnt = 1 THEN Doing("parent", ctx[t].d) ELSE IdleCtx)
     /\ UNCHANGED <<gone, task, open, timers, queue, calls, merged, ran, ended, asked>>

(* flow_run_dbw__continue_parent_process: the parent is loaded as the       *)
(* database has it, with the counter of some sync row of its own.           *)
ContinueParent(t) ==
  LET own == task[ctx[t].d.p].sync
      p == sync[own].taid
  IN /\ ctx[t].at = "parent"
     /\ IF p \in Live /\ HasRow(own)
        THEN \E s \in {s \in DOMAIN sync : sync[s].taid = p /\ HasRow(s)} :
               queue' = Append(queue, Dbw(p, task[p].pos, task[p].state, sync[s].cnt))
        ELSE UNCHANGED queue
     /\ Become(t, IdleCtx)
     /\ UNCHANGED <<gone, task, sync, open, timers, calls, merged, ran, ended, asked>>

-----------------------------------------------------------------------------
(* Handlers of the loop thread. *)

LoopIsFree == ctx.loop = IdleCtx

(* flow_process_add *)
ProcessAdd(w) ==
  /\ LoopIsFree
  /\ w \in Roots \ asked.roots
  /\ Create(task, <<Created(w, "default", 0)>>)
  /\ asked' = [asked EXCEPT !.roots = @ \union {w}]
  /\ UNCHANGED <<gone, sync, timers, calls, ctx, merged, ended>>

(* flow_run_step__method__syncron__on_call: the answer of a call.  It may   *)
(* be an error, or say that the step goes on when it is reported from       *)
(* outside.                                                                 *)
Answer(d) ==
  /\ LoopIsFree
  /\ d \in calls
  /\ calls' = calls \ {d}
  /\ \E st \in {"done", "halt", "error"} :
       /\ SetState(d.p, st)
       /\ open' = IF st = "halt" THEN [open EXCEPT ![d.p] = {"call-back"}] ELSE open
       /\ Become("loop", IF st = "done" THEN Doing("next", [d EXCEPT !.st = st]) ELSE IdleCtx)
  /\ UNCHANGED <<gone, sync, timers, queue, merged, ran, ended, asked>>

\* Mutant: the first report completes the step.
SetCompletes(p, item) ==
  /\ LoopIsFree
  /\ item \in open[p]
  /\ open' = [open EXCEPT ![p] = @ \ {item}]
  /\ SetState(p, "done")
  /\ Become("loop", Doing("next", Dbw(p, task[p].pos, "done", -1)))
  /\ UNCHANGED <<gone, sync, timers, queue, calls, merged, ran, ended, asked>>

(* flow_process_set: an item of the wait list is reported, or the call-back *)
(* comes.  The last one completes the step.                                 *)
ProcessSet(p, item) ==
  /\ LoopIsFree
  /\ p \in Live
  /\ item \in open[p]
  /\ open' = [open EXCEPT ![p] = @ \ {item}]
  /\ IF open[p] = {item}
     THEN /\ SetState(p, "done")
          /\ Become("loop", Doing("next", Dbw(p, task[p].pos, "done", -1)))
     ELSE SetState(p, "halt") /\ UNCHANGED ctx
  /\ UNCHANGED <<gone, sync, timers, queue, calls, merged, ran, ended, asked>>

(* ... or it comes with the wrong code, which is saved as an error of the   *)
(* step; the item can still be reported.                                    *)
Mismatch(p) ==
  /\ LoopIsFree
  /\ p \in Live
  /\ open[p] \intersect WaitItems # {}
  /\ task[p].state # "error"
  /\ SetState(p, "error")
  /\ UNCHANGED <<gone, sync, open, timers, queue, calls, ctx, merged, ran, ended, asked>>

(* qbus_flow__ctx__on_event: the timer of a sleep. *)
CtxOnEvent(p) ==
  /\ LoopIsFree
  /\ p \in timers
  /\ timers' = timers \ {p}
  /\ SetState(p, "done")
  /\ IF p \in Live THEN Become("loop", Doing("next", Dbw(p, task[p].pos, "done", -1)))
     ELSE UNCHANGED ctx   \* the job outlives the rows of its process
  /\ UNCHANGED <<gone, sync, open, queue, calls, merged, ran, ended, asked>>

\* Nobody runs it, and no child of it is about to.
Quiet(p) ==
  LET busy == {ctx[t].d.p : t \in {t \in DOMAIN ctx : ctx[t].at # "idle"}}
  IN Runners(p) = {} /\ p \notin busy \union {ParentOf(c) : c \in busy}

(* An operator repairs a process whose call failed, or goes on with one he  *)
(* moved: flow_process_once runs the step (again), flow_process_next leaves *)
(* it and begins the next one.                                              *)
Moved(p) == task[p].state = "none" /\ Len(ran[p]) = task[p].pos - 1
Repairable(p) ==
  /\ LoopIsFree
  /\ p \in Live
  /\ p \notin ended /\ open[p] = {} /\ p \notin timers /\ Quiet(p)
  /\ asked.crashes = 0
  /\ MayAsk("repairs", MaxRepairs)
Repair(p, where) ==
  /\ Become("loop", Doing(where, Dbw(p, task[p].pos, "none", -1)))
  /\ asked' = [asked EXCEPT !.repairs = @ + 1]
  /\ UNCHANGED <<gone, task, sync, open, timers, queue, calls, merged, ended>>

\* On the loop thread a split would race the worker that runs its children.
Once(p) ==
  /\ Repairable(p)
  /\ task[p].state = "error" \/ Moved(p)
  /\ Steps(p)[task[p].pos].kind \in {"split", "if"} => MayDisturb
  /\ Repair(p, "run")
  /\ ran' = IF Moved(p) THEN ran
            ELSE [ran EXCEPT ![p] = Front(@)]   \* what it did is to be done again

ProcessNext(p) ==
  /\ Repairable(p)
  /\ task[p].state \in {"error", "done"} \/ Moved(p)
  /\ Repair(p, "next")
  /\ ran' = IF Moved(p) THEN [ran EXCEPT ![p] = Append(@, task[p].pos)] ELSE ran

(* flow_run_dbw_sqt: an abort climbs to the root and goes down to every     *)
(* active process below it; each starts the abort sequence of its workflow  *)
(* as a process of its own.  A process between the one that was aborted and *)
(* the root is met twice, going down and coming back.                       *)
Below(r) == {p \in Live : /\ Path[p][1] = r
                          /\ \A a \in ToSet(Path[p]) \ {r} : task[a].active}
Met(p) == SetToSeq(Below(Path[p][1])) \o Tail(Path[p])
AbortSequences(ps) ==
  LET own == SetToSeq({i \in DOMAIN ps : Prog[task[ps[i]].wf]["abort"] # <<>>})
  IN [j \in DOMAIN own |-> Created(task[ps[own[j]]].wf, "abort", 0)]

\* On the way up to its root a row is missing: the abort ends there with an error.
Orphaned(p) ==
  \E q \in ToSet(Path[p]) : q \in gone.procs \/ task[q].sync \in gone.syncs
Abort(p) ==
  LET hit == ToSet(Met(p))
  IN /\ LoopIsFree
     /\ MayAsk("aborts", MaxAborts)
     /\ task[p].active /\ ~ Orphaned(p)
     /\ Create([x \in Procs |-> IF x \in hit
                               THEN [task[x] EXCEPT !.active = FALSE, !.state = "aborted"]
                               ELSE task[x]],
               AbortSequences(Met(p)))
     /\ asked' = [asked EXCEPT !.aborts = @ + 1]
     /\ UNCHANGED <<gone, sync, timers, calls, ctx, merged, ended>>

-----------------------------------------------------------------------------
(* A user removes a process, or an operator moves it to another step.       *)


(* flow_process_rm__item: the rows of the process, of its sync rows and of  *)
(* all processes below them.  Timed jobs and wait items stay.               *)
RowsGone(ps, syncs) ==
  gone' = [procs |-> gone.procs \union ps,
           syncs |-> gone.syncs \union syncs
                       \union {s \in DOMAIN sync : sync[s].taid \in ps}]

(* flow_process_rm, and flow_process_instance_rm for the root.  The removal  *)
(* of a whole workspace is one of these after the other.                    *)
ProcessRm(p) ==
  /\ LoopIsFree
  /\ p \in Live
  /\ ~ MayDisturb => \A q \in Under(p) : Quiet(q)
  /\ MayAsk("removals", MaxRemovals)
  /\ asked' = [asked EXCEPT !.removals = @ + 1]
  /\ RowsGone(Under(p), {})
  /\ UNCHANGED <<task, sync, open, timers, queue, calls, ctx, merged, ran, ended>>

(* The step is only stored; what is before it counts as carried out.        *)
MoveTo(p, k, below) ==
  /\ LoopIsFree
  /\ p \in Live \ ended /\ open[p] = {} /\ p \notin timers
  /\ ~ MayDisturb
     => /\ \A q \in below \union {p} : Quiet(q)
        /\ \A c \in Under(p) \ {p} : c \in below \union ended \union gone.procs
  /\ asked.crashes = 0 /\ MayAsk("moves", MaxMoves)
  /\ task' = [task EXCEPT ![p].pos = k, ![p].state = "none"]
  /\ ran' = [ran EXCEPT ![p] = [i \in 1 .. k - 1 |-> i]]
  /\ asked' = [asked EXCEPT !.moves = @ + 1]
  /\ UNCHANGED <<sync, open, timers, queue, calls, ctx, merged, ended>>

(* The step before, whatever children there are: the test of sync is        *)
(* commented out.                                                           *)
ProcessPrev(p) ==
  /\ task[p].pos > 1
  /\ MoveTo(p, task[p].pos - 1, {})
  /\ UNCHANGED gone

(* Any step: the children of that step and of those behind it are removed.  *)
FromStep(p, k) == {s \in DOMAIN sync : sync[s].taid = p /\ sync[s].step >= k}
ProcessStep(p, k) ==
  LET below == UNION {Under(c) : c \in UNION {Children(s) : s \in FromStep(p, k)}}
  IN /\ MoveTo(p, k, below)
     /\ RowsGone(below, FromStep(p, k))

-----------------------------------------------------------------------------
(* A crash: what is in memory is gone, and nothing takes it up again when   *)
(* the module starts.                                                       *)
Crash ==
  /\ MayAsk("crashes", MaxCrashes)
  /\ asked' = [asked EXCEPT !.crashes = @ + 1]
  /\ queue' = <<>>
  /\ calls' = {}
  /\ ctx' = [worker |-> IdleCtx, loop |-> IdleCtx]
  /\ UNCHANGED <<gone, task, sync, open, timers, merged, ran, ended>>

Work(t) ==
  \/ RunPlain(t) \/ RunCall(t) \/ RunWait(t) \/ RunSleep(t) \/ RunFork(t)
  \/ Inherit(t) \/ Halt(t) \/ RunJoin(t) \/ NextStep(t)
  \/ EndRead(t) \/ EndWrite(t) \/ Dec(t) \/ ContinueParent(t)

Worker == Take \/ Work("worker")
Loop ==
  \/ Work("loop")
  \/ \E d \in calls : Answer(d)
  \/ \E p \in Procs : \E item \in open[p] : ProcessSet(p, item)
  \/ \E p \in timers : CtxOnEvent(p)

FlowNext ==
  \/ Worker \/ Loop \/ Crash
  \/ \E w \in Roots : ProcessAdd(w)
  \/ \E p \in Procs : Mismatch(p) \/ Once(p) \/ ProcessNext(p) \/ Abort(p)
  \/ \E p \in Procs : ProcessRm(p) \/ ProcessPrev(p) \/ \E k \in DOMAIN Steps(p) : ProcessStep(p, k)

(* Both threads run on; calls are answered, timers fire (QJobs.tla) and the *)
(* waits that were announced are reported.                                  *)
FlowSpec == FlowInit /\ [][FlowNext]_flowVars /\ WF_flowVars(Worker) /\ WF_flowVars(Loop)

-----------------------------------------------------------------------------
(* Properties. *)

FlowTypeOK ==
  LET Dbws == [p : Nat, k : Nat, cnt : Int,
               st : {"none", "done", "halt", "error", "aborted"}]
  IN /\ task \in Seq([wf : DOMAIN Prog, sq : Sequences, pos : Nat \ {0},
                      state : {"none", "done", "halt", "error", "aborted"},
                      active : BOOLEAN, sync : Nat])
     /\ sync \in Seq([taid : Procs, step : Nat, size : Nat, cnt : Int])
     /\ DOMAIN open = Procs /\ DOMAIN ran = Procs
     /\ \A p \in Procs : open[p] \subseteq WaitItems \union {"call-back"}
     /\ timers \subseteq Procs /\ ended \subseteq Procs
     /\ queue \in Seq(Dbws) /\ calls \subseteq Dbws
     /\ \A t \in DOMAIN ctx : ctx[t].d \in Dbws

(* At most one dbw of a process is on its way at any time, in the queue, on *)
(* a thread or with a pending call: two would run the steps of the process  *)
(* twice and overwrite each other's state.  A parent still forking counts.  *)
OneRunner == \A p \in Procs : Cardinality(Runners(p)) <= 1

(* Every process carries out its steps in order, none twice and none left   *)
(* out, up to the current step of its row, whatever mixture of threads,     *)
(* answers, reports and timers carried it there.                            *)
StepsInOrder ==
  \A p \in Procs :
    /\ ran[p] = [i \in 1 .. Len(ran[p]) |-> i]
    /\ Len(ran[p]) \in {task[p].pos - 1, task[p].pos}
    /\ p \in ended => Len(ran[p]) = Len(Steps(p))

(* The comment "merge both TDATA's" of flow_run_dbw_sync__merge_tdata: when *)
(* the counter has reached 0, the parent holds what every child merged.     *)
NothingLost ==
  \A s \in DOMAIN sync : sync[s].cnt = 0 => merged[s] = Children(s)

(* "abort -> deactivate the task": a process that was aborted goes no step  *)
(* further.                                                                 *)
AbortedStays ==
  [][\A p \in Procs : ~ task[p].active => task'[p].pos = task[p].pos]_flowVars

(* Seen as a tree of processes, steps are completed one by one and a step   *)
(* that started children when they are complete or removed, in spite of     *)
(* aborts and crashes; only what a user moves goes another way.             *)
Tree == [p \in Procs |->
          [len |-> Len(Steps(p)),
           done |-> IF p \in ended THEN Len(Steps(p)) ELSE task[p].pos - 1,
           parent |-> ParentOf(p), removed |-> p \in gone.procs,
           by |-> IF task[p].sync = 0 THEN 0 ELSE sync[task[p].sync].step]]
TT == INSTANCE TaskTree WITH tree <- Tree, edits <- asked.moves + asked.removals
ImplementsTree == TT!TreeSpec

(* Every process comes to its end, unless it or a process below it met an   *)
(* error or was aborted, an operator took over, or the program crashed.     *)
Stuck(p) == p \notin ended /\ (task[p].state = "error" \/ ~ task[p].active)
Settled(p) == \/ p \in ended
              \/ \E c \in Procs : p \in ToSet(Path[c]) /\ (Stuck(c) \/ c \in gone.procs)
EveryProcessSettles ==
  <>[](asked.crashes + asked.repairs + asked.moves = 0 => \A p \in Procs : Settled(p))
=============================================================================
