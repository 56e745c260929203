------------------------------- MODULE QJobs -------------------------------
(***************************************************************************)
(* The scheduler of timed events (src/libs/qjobs/src/qjobs.c).             *)
(*                                                                         *)
(* The events are rows of a database table.  The process keeps a copy of   *)
(* the table (`list') and a pointer to the earliest row in it              *)
(* (`next_event', `next_list_item').  A timer of the event loop calls      *)
(* qjobs__on_event: when the earliest row is due, the callback of the      *)
(* user runs, and its result removes the row (EOF), moves it to the next   *)
(* date of its period (NONE) or leaves it (CONTINUE).  After every change  *)
(* the table is read again.  A mutex is held in the timer, in qjobs_add    *)
(* and in qjobs_set; qjobs_rm takes none.                                  *)
(*                                                                         *)
(* The clock is a number, the parameters of an event are left out.  Which  *)
(* threads make which calls is `may', one of the deployments in Uses.  A   *)
(* call of the database fails or succeeds as a whole (TrxStore); the       *)
(* process may be stopped and started at any time.                         *)
(***************************************************************************)
EXTENDS Integers, FiniteSets

CONSTANTS
  Threads,       \* the threads of the process
  Uses,          \* the deployments: functions from threads to sets of calls
  Jobs,          \* the numbers the table gives to its rows
  Dates,         \* the dates that qjobs_add and qjobs_set are called with
  Periods,       \* the periods in use, 0 for an event that happens once
  Never,         \* no row; no copy of the table; no thread
  MaxTime,       \* bound: the clock stops here
  MaxExtras,     \* bound: calls of qjobs_set and answers CONTINUE, together
  MaxFaults      \* bound: failed database calls and restarts

ASSUME QJobsAssumption ==
  /\ Jobs \subseteq Nat /\ Periods \subseteq Nat /\ Dates \subseteq 0 .. MaxTime
  /\ MaxTime \in Nat /\ MaxExtras \in Nat /\ MaxFaults \in Nat
  /\ \A use \in Uses : \A t \in Threads : use[t] \subseteq {"tick", "add", "set", "rm"}

\* qjobs_rm takes no mutex: the thread of the timer calls it, or nobody does
ASSUME RmAssumption ==
  \A use \in Uses : \A t, u \in Threads : "rm" \in use[t] /\ "tick" \in use[u] => t = u

ASSUME NeverAssumption ==
  /\ Never \notin Jobs /\ Never \notin Threads
  /\ \A js \in SUBSET Jobs : Never \notin [js -> [date : Nat, period : Periods]]

VARIABLES
  may,        \* which calls each thread makes
  now,        \* the clock
  rows,       \* the table: its rows with date and period
  list,       \* the copy of the table, Never before the first read
  next,       \* the row next_event and next_list_item point to
  mutex,      \* the thread that holds the mutex
  pc,         \* where each thread is
  op,         \* the arguments and locals of its call
  used,       \* the numbers the table has given out
  known,      \* the rows whose last qjobs_add or qjobs_set returned no error
  lastRun,    \* the clock read of the last run of a row since its date was given
  repeats,    \* runs for a date that the run before had passed already
  sets, continues, faults

vars == <<may, now, rows, list, next, mutex, pc, op, used, known, lastRun,
          repeats, sets, continues, faults>>
shared == <<rows, list, next>>
counted == <<used, known, lastRun, repeats, sets, continues>>

Idle == [kind |-> "none"]

Init ==
  /\ may \in Uses
  /\ now = 0
  /\ rows = << >>
  /\ list = Never
  /\ next = Never
  /\ mutex = Never
  /\ pc = [t \in Threads |-> "idle"]
  /\ op = [t \in Threads |-> Idle]
  /\ used = {}
  /\ known = {}
  /\ lastRun = [j \in Jobs |-> -1]
  /\ repeats = 0 /\ sets = 0 /\ continues = 0 /\ faults = 0

-----------------------------------------------------------------------------
(* The copy of the table. *)

\* qjobs__intern__next_event: a row with the smallest date (the first in the
\* order the database returns them, which is not specified)
NextEvent(table) ==
  IF DOMAIN table = {} THEN {Never}
  ELSE {j \in DOMAIN table : \A k \in DOMAIN table : table[j].date <= table[k].date}

\* qjobs__intern__fetch
Fetched == list' = rows /\ next' \in NextEvent(rows)

At(t, place) == pc[t] = place
Goto(t, place) == pc' = [pc EXCEPT ![t] = place]

\* The call returns; all but qjobs_rm release the mutex
Leave(t) ==
  /\ mutex' = IF mutex = t THEN Never ELSE mutex
  /\ pc' = [pc EXCEPT ![t] = "idle"]
  /\ op' = [op EXCEPT ![t] = Idle]

\* The database call of this step fails, or it does not
Fails == faults < MaxFaults /\ faults' = faults + 1
Works == UNCHANGED faults

-----------------------------------------------------------------------------
(* The calls. *)

Call(t, kind, record, place) ==
  /\ At(t, "idle") /\ kind \in may[t]
  /\ op' = [op EXCEPT ![t] = record]
  /\ Goto(t, place)

\* The timer of qjobs_init expires: qjobs__on_event
OnEvent(t) ==
  /\ Call(t, "tick", [kind |-> "tick", job |-> Never], "lock")
  /\ UNCHANGED <<may, now, shared, mutex, counted, faults>>

\* The table numbers its rows (AUTO_INCREMENT)
Add(t, j, date, period) ==
  /\ j \notin used /\ \A k \in Jobs \ used : j <= k
  /\ Call(t, "add", [kind |-> "add", job |-> j, date |-> date, period |-> period], "lock")
  /\ used' = used \cup {j}
  /\ UNCHANGED <<may, now, shared, mutex, known, lastRun, repeats, sets, continues, faults>>

\* qjobs_set: the period it is given is not used
Set(t, j, date) ==
  /\ j \in DOMAIN rows /\ sets + continues < MaxExtras
  /\ Call(t, "set", [kind |-> "set", job |-> j, date |-> date], "lock")
  /\ sets' = sets + 1
  /\ UNCHANGED <<may, now, shared, mutex, used, known, lastRun, repeats, continues, faults>>

\* qjobs_rm goes to the database at once
Rm(t, j) ==
  /\ j \in DOMAIN rows
  /\ Call(t, "rm", [kind |-> "rm", job |-> j], "store")
  /\ UNCHANGED <<may, now, shared, mutex, counted, faults>>

LockSkipped(t) ==
  /\ At(t, "lock") /\ (mutex = Never \/ op[t].kind = "add")
  /\ mutex' = t
  /\ Goto(t, IF op[t].kind # "tick" THEN "store" ELSE IF list = Never THEN "first" ELSE "due")
  /\ UNCHANGED <<may, now, shared, op, counted, faults>>

Lock(t) ==
  /\ At(t, "lock") /\ mutex = Never
  /\ mutex' = t
  /\ Goto(t, IF op[t].kind # "tick" THEN "store" ELSE IF list = Never THEN "first" ELSE "due")
  /\ UNCHANGED <<may, now, shared, op, counted, faults>>

-----------------------------------------------------------------------------
(* The timer. *)

FirstFetch(t) ==
  /\ At(t, "first")
  /\ \/ Works /\ Fetched /\ Goto(t, "due") /\ UNCHANGED <<mutex, op>>
     \/ Fails /\ UNCHANGED <<list, next>> /\ Leave(t)
  /\ UNCHANGED <<may, now, rows, counted>>

\* The earliest row of the copy is compared with the clock
Due(t) ==
  /\ At(t, "due")
  /\ IF next # Never /\ list[next].date <= now
       THEN /\ op' = [op EXCEPT ![t] = [kind |-> "tick", job |-> next, clock |-> now,
                                        result |-> "NONE"]]
            /\ Goto(t, "call") /\ UNCHANGED mutex
       ELSE Leave(t)
  /\ UNCHANGED <<may, now, shared, counted, faults>>

\* What the callback may answer: an event without a period cannot go on
Results(j) ==
  (IF list[j].period = 0 THEN {"EOF"} ELSE {"EOF", "NONE"})
    \cup (IF sets + continues < MaxExtras THEN {"CONTINUE"} ELSE {})

\* qjobs__intern__event_run, and the result that qjobs__intern__run looks at
EventRun(t) ==
  /\ At(t, "call")
  /\ LET j == op[t].job
     IN \E res \in Results(j) :
          /\ op' = [op EXCEPT ![t].result = res]
          /\ Goto(t, IF res = "CONTINUE" THEN "fetch" ELSE "store")
          /\ continues' = IF res = "CONTINUE" THEN continues + 1 ELSE continues
          /\ repeats' = IF list[j].date <= lastRun[j] THEN repeats + 1 ELSE repeats
          /\ lastRun' = [lastRun EXCEPT ![j] = op[t].clock]
  /\ UNCHANGED <<may, now, shared, mutex, used, known, sets, faults>>

NextDateOnly(date, period, clock) == date + period

\* qjobs__intern__event_update: the next date of the period that the clock,
\* as it was read before the callback ran, has not reached
NextDate(date, period, clock) ==
  IF date + period > clock THEN date + period
  ELSE date + ((clock - date) \div period + 1) * period

-----------------------------------------------------------------------------
(* The table. *)

Without(j) == [k \in DOMAIN rows \ {j} |-> rows[k]]

Redated(j, date) ==
  IF j \in DOMAIN rows THEN [rows EXCEPT ![j].date = date] ELSE rows

\* qjobs__intern__event_add, _set, _rm and _update, each a transaction
Written(o) ==
  CASE o.kind = "add" ->
         [k \in DOMAIN rows \cup {o.job} |->
            IF k = o.job THEN [date |-> o.date, period |-> o.period] ELSE rows[k]]
    [] o.kind = "set" -> Redated(o.job, o.date)
    [] o.kind = "rm" -> Without(o.job)
    [] o.kind = "tick" /\ o.result = "EOF" -> Without(o.job)
    [] OTHER -> Redated(o.job, NextDate(list[o.job].date, list[o.job].period, o.clock))

\* A failed call of the user returns; after a failed write of the timer the
\* table is read all the same
Store(t) ==
  /\ At(t, "store")
  /\ \/ /\ Works
        /\ rows' = Written(op[t])
        /\ known' = IF op[t].kind = "set" THEN known \ {op[t].job} ELSE known
        /\ lastRun' = IF op[t].kind = "set" THEN [lastRun EXCEPT ![op[t].job] = -1] ELSE lastRun
        /\ Goto(t, "fetch") /\ UNCHANGED <<op, mutex>>
     \/ /\ Fails
        /\ UNCHANGED <<rows, known, lastRun>>
        /\ IF op[t].kind = "tick" THEN Goto(t, "fetch") /\ UNCHANGED <<op, mutex>> ELSE Leave(t)
  /\ UNCHANGED <<may, now, list, next, used, repeats, sets, continues>>

\* The call is confirmed to its caller
Confirmed(o) == IF o.kind \in {"add", "set"} THEN known \cup {o.job} ELSE known

FetchUnlessAdded(t) ==
  /\ At(t, "fetch")
  /\ \/ /\ Works
        /\ IF op[t].kind = "add" THEN UNCHANGED <<list, next>> ELSE Fetched
        /\ known' = Confirmed(op[t])
     \/ Fails /\ UNCHANGED <<list, next, known>>
  /\ Leave(t)
  /\ UNCHANGED <<may, now, rows, used, lastRun, repeats, sets, continues>>

\* The read after the change, the last thing of every call
Fetch(t) ==
  /\ At(t, "fetch")
  /\ \/ /\ Works /\ Fetched
        /\ known' = Confirmed(op[t])
     \/ Fails /\ UNCHANGED <<list, next, known>>
  /\ Leave(t)
  /\ UNCHANGED <<may, now, rows, used, lastRun, repeats, sets, continues>>

-----------------------------------------------------------------------------
\* The process stops and is started again: qjobs_new, qjobs_init
Restart ==
  /\ Fails
  /\ list' = Never /\ next' = Never /\ mutex' = Never
  /\ pc' = [t \in Threads |-> "idle"]
  /\ op' = [t \in Threads |-> Idle]
  /\ UNCHANGED <<may, now, rows, counted>>

Pass ==
  /\ now < MaxTime
  /\ now' = now + 1
  /\ UNCHANGED <<may, shared, mutex, pc, op, counted, faults>>

Begin(t) ==
  \/ \E j \in Jobs, date \in Dates, period \in Periods : Add(t, j, date, period)
  \/ \E j \in Jobs, date \in Dates : Set(t, j, date)
  \/ \E j \in Jobs : Rm(t, j)

Proceed(t) ==
  \/ Lock(t)
  \/ FirstFetch(t)
  \/ Due(t)
  \/ EventRun(t)
  \/ Store(t)
  \/ Fetch(t)

Next ==
  \/ Pass
  \/ Restart
  \/ \E t \in Threads : OnEvent(t) \/ Begin(t) \/ Proceed(t)

\* The clock goes on, the timer expires again and again, calls of the database
\* and the callback of the user come to an end
Fairness ==
  /\ WF_vars(Pass)
  /\ WF_vars(\E t \in Threads : OnEvent(t))
  /\ \A t \in Threads : WF_vars(Proceed(t))

Spec == Init /\ [][Next]_vars /\ Fairness

-----------------------------------------------------------------------------
(* Properties. *)

IsTable(table) ==
  DOMAIN table \subseteq Jobs /\ table \in [DOMAIN table -> [date : Nat, period : Periods]]

Ops ==
  [kind : {"none"}] \cup [kind : {"tick"}, job : {Never}]
    \cup [kind : {"tick"}, job : Jobs, clock : Nat, result : {"EOF", "NONE", "CONTINUE"}]
    \cup [kind : {"add"}, job : Jobs, date : Dates, period : Periods]
    \cup [kind : {"set"}, job : Jobs, date : Dates] \cup [kind : {"rm"}, job : Jobs]

TypeOK ==
  /\ may \in Uses /\ now \in 0 .. MaxTime
  /\ IsTable(rows) /\ DOMAIN rows \subseteq used
  /\ list = Never \/ IsTable(list)
  /\ next = Never \/ (list # Never /\ next \in DOMAIN list)
  /\ mutex \in Threads \cup {Never}
  /\ pc \in [Threads -> {"idle", "lock", "first", "due", "call", "store", "fetch"}]
  /\ op \in [Threads -> Ops]
  /\ known \subseteq used /\ used \subseteq Jobs
  /\ lastRun \in [Jobs -> Int]
  /\ repeats \in Nat /\ sets \in Nat /\ continues \in Nat /\ faults \in Nat

(* An event runs once for its date, and a periodic event that missed several
   dates runs once for all of them: it runs again for a date the run before
   had passed only when the callback asked for it, a database call failed or
   the process was stopped in between, and no more often than that. *)
RepeatsHaveAReason == repeats <= continues + faults

(* Every event whose qjobs_add, or qjobs_set, succeeded runs when its date has
   come, unless it is moved or removed first, though other calls fail and the process is
   restarted, and however many events are due at once. *)
Stands(j, date) == j \in known /\ j \in DOMAIN rows /\ rows[j].date = date
EveryEventRuns ==
  \A j \in Jobs, date \in 0 .. MaxTime :
    Stands(j, date) ~> (lastRun[j] >= date \/ ~ Stands(j, date))
=============================================================================
