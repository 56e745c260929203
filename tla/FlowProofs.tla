----------------------------- MODULE FlowProofs -----------------------------
(***************************************************************************)
(* Proofs about Flow, and about QJobs, whose timers wake its processes.    *)
(*                                                                         *)
(* Flow, for any workflows: the types; that at most one dbw of a process   *)
(* is on its way; that every process carries out its steps in order; and   *)
(* that the processes, seen as a tree, are what TaskTree promises.         *)
(*                                                                         *)
(* The argument is that a process is in one place (InOnePlace): queued,    *)
(* with a pending call, on one of the threads, open, asleep, awaited by a  *)
(* thread that is about to run it for its last child, or waiting for its   *)
(* children.  The last two need the counter of the sync row: it is at      *)
(* least the number of children that have still to decrement it and of     *)
(* those that are not created yet (Counts), so it comes to 0 only when the *)
(* last one has ended, and only one row of a process has children left     *)
(* (OneRow).  What is carried out follows the place (InStep): whoever runs *)
(* a process has loaded its current step.                                  *)
(*                                                                         *)
(* All of it is for operators that leave alone the processes that run,     *)
(* ~ MayDisturb: the code does not check it, and OneRunner fails when they *)
(* do not.                                                                 *)
(*                                                                         *)
(* The proofs about QJobs are at the end.                                  *)
(***************************************************************************)
EXTENDS QJobs, Flow, SequenceTheorems, FiniteSetTheorems, TLAPS

-----------------------------------------------------------------------------
(* Types of the processes, their rows and the dbws; what an update of a field leaves. *)

(* The states of a row, and the records of the tables, the queue and the threads. *)
States == {"none", "done", "halt", "error", "aborted"}
TaskRec == [wf : DOMAIN Prog, sq : Sequences, pos : Nat \ {0}, state : States,
            active : BOOLEAN, sync : Nat]
SyncRec == [taid : Nat, step : Nat, size : Nat, cnt : Int]
DbwRec == [p : Nat, k : Nat, cnt : Int, st : States]

(* The two threads, and where a thread is with its dbw. *)
FT == {"worker", "loop"}
Places == {"idle", "run", "fork", "next", "end", "save", "dec", "parent", "halt"}
CtxRec == [at : Places, d : DbwRec, todo : Nat, seen : SUBSET Nat]

(* An update of one row keeps the table and the other rows. *)
LEMMA SeqPut ==
  ASSUME NEW S, NEW f \in Seq(S), NEW p \in DOMAIN f, NEW r \in S, NEW g, g = [f EXCEPT ![p] = r]
  PROVE  /\ g \in Seq(S)
         /\ DOMAIN g = DOMAIN f /\ Len(g) = Len(f)
         /\ g[p] = r
         /\ \A q \in DOMAIN f : q # p => g[q] = f[q]
OBVIOUS

LEMMA SeqPutAny ==
  ASSUME NEW S, NEW f \in Seq(S), NEW p, NEW r \in S
  PROVE  [f EXCEPT ![p] = r] \in Seq(S) /\ Len([f EXCEPT ![p] = r]) = Len(f)
<1>1. CASE p \in DOMAIN f
  BY <1>1, SeqPut
<1>2. CASE p \notin DOMAIN f
  <2>1. [f EXCEPT ![p] = r] = f
    BY <1>2
  <2> QED BY <2>1
<1> QED BY <1>1, <1>2

(* The update of one field of a row, as one of the row. *)
LEMMA PutState ==
  ASSUME NEW f, NEW p, NEW st
  PROVE  [f EXCEPT ![p].state = st] = [f EXCEPT ![p] = [f[p] EXCEPT !.state = st]]
BY Zenon
LEMMA PutPos ==
  ASSUME NEW f, NEW p, NEW k
  PROVE  [f EXCEPT ![p].pos = k] = [f EXCEPT ![p] = [f[p] EXCEPT !.pos = k]]
BY Zenon
LEMMA PutActive ==
  ASSUME NEW f, NEW p
  PROVE  [f EXCEPT ![p].active = FALSE] = [f EXCEPT ![p] = [f[p] EXCEPT !.active = FALSE]]
BY Zenon
LEMMA PutMove ==
  ASSUME NEW f, NEW p \in DOMAIN f, NEW k
  PROVE  [f EXCEPT ![p].pos = k, ![p].state = "none"] = [f EXCEPT ![p] = [[f[p] EXCEPT !.pos = k] EXCEPT !.state = "none"]]
BY Zenon
LEMMA PutCnt ==
  ASSUME NEW f, NEW s
  PROVE  [f EXCEPT ![s].cnt = @ - 1] = [f EXCEPT ![s] = [f[s] EXCEPT !.cnt = @ - 1]]
BY Zenon

(* A row after the update of a field. *)
LEMMA RecState ==
  ASSUME NEW r \in TaskRec, NEW st \in States
  PROVE  LET g == [r EXCEPT !.state = st]
         IN g \in TaskRec /\ g.wf = r.wf /\ g.sq = r.sq /\ g.pos = r.pos /\ g.state = st /\ g.active = r.active /\ g.sync = r.sync
BY DEF TaskRec
LEMMA RecPos ==
  ASSUME NEW r \in TaskRec, NEW k \in Nat \ {0}
  PROVE  LET g == [r EXCEPT !.pos = k]
         IN g \in TaskRec /\ g.wf = r.wf /\ g.sq = r.sq /\ g.pos = k /\ g.state = r.state /\ g.active = r.active /\ g.sync = r.sync
BY DEF TaskRec
LEMMA RecCnt ==
  ASSUME NEW r \in SyncRec
  PROVE  LET g == [r EXCEPT !.cnt = @ - 1]
         IN g \in SyncRec /\ g.taid = r.taid /\ g.step = r.step /\ g.cnt = r.cnt - 1 /\ g.size = r.size
BY DEF SyncRec

(* What a thread has in hand. *)
LEMMA DoingType ==
  ASSUME NEW a \in Places, NEW d \in DbwRec
  PROVE  Doing(a, d) \in CtxRec /\ Doing(a, d).at = a /\ Doing(a, d).d = d /\ Doing(a, d).todo = 0
BY DEF Doing, CtxRec
LEMMA IdleType == IdleCtx \in CtxRec /\ IdleCtx.at = "idle"
BY DEF IdleCtx, Doing, CtxRec, DbwRec, NoDbw, Dbw, States, Places
LEMMA TodoType ==
  ASSUME NEW a \in Places, NEW d \in DbwRec, NEW n \in Nat
  PROVE  LET c == [Doing(a, d) EXCEPT !.todo = n]
         IN c \in CtxRec /\ c.at = a /\ c.d = d /\ c.todo = n
BY DEF Doing, CtxRec
LEMMA SeenType ==
  ASSUME NEW a \in Places, NEW d \in DbwRec, NEW n \in SUBSET Nat
  PROVE  LET c == [Doing(a, d) EXCEPT !.seen = n]
         IN c \in CtxRec /\ c.at = a /\ c.d = d
BY DEF Doing, CtxRec
LEMMA DecTodo ==
  ASSUME NEW r \in CtxRec, r.todo > 0
  PROVE  LET c == [r EXCEPT !.todo = @ - 1]
         IN c \in CtxRec /\ c.at = r.at /\ c.d = r.d /\ c.todo = r.todo - 1
BY DEF CtxRec

(* A dbw, and the one of the next step or the next state. *)
LEMMA DbwType ==
  ASSUME NEW p \in Nat, NEW k \in Nat, NEW st \in States, NEW c \in Int
  PROVE  Dbw(p, k, st, c) \in DbwRec /\ Dbw(p, k, st, c).p = p /\ Dbw(p, k, st, c).k = k /\ Dbw(p, k, st, c).st = st
BY DEF Dbw, DbwRec
Renewed(d, k) == [d EXCEPT !.k = k, !.st = "none"]
LEMMA DbwStep ==
  ASSUME NEW d \in DbwRec, NEW k \in Nat
  PROVE  Renewed(d, k) \in DbwRec /\ Renewed(d, k).p = d.p /\ Renewed(d, k).k = k /\ Renewed(d, k).st = "none"
BY DEF DbwRec, States, Renewed
LEMMA DbwDone ==
  ASSUME NEW d \in DbwRec, NEW st \in States
  PROVE  LET e == [d EXCEPT !.st = st]
         IN e \in DbwRec /\ e.p = d.p /\ e.k = d.k /\ e.st = st
BY DEF DbwRec

-----------------------------------------------------------------------------
(* Paths: the recursive function Path exists, and what is on it. *)

(* A set of numbers that is not empty has a least one. *)
LEMMA LeastNat ==
  ASSUME NEW T \in SUBSET Nat, T # {}
  PROVE  \E s \in T : \A t \in T : s <= t
<1>1. PICK b \in T : TRUE
  OBVIOUS
<1>2. \A t \in T : t \in Nat
  OBVIOUS
<1> DEFINE S == 0 .. b
           Upto(x) == {y \in T : y <= x}
           F == {Upto(x) : x \in T \cap S}
<1>a. IsFiniteSet(S)
  BY <1>2, FS_Interval
<1>3. IsWellFoundedOn(StrictSubsetOrdering(S), SUBSET S)
  BY <1>a, FS_StrictSubsetOrderingWellFounded, FS_FiniteSubsetsOfFinite
<1>4. ASSUME NEW x \in T \cap S PROVE Upto(x) \in SUBSET S
  <2> SUFFICES ASSUME NEW y \in Upto(x) PROVE y \in S
    OBVIOUS
  <2>1. y \in Nat /\ x \in Nat /\ b \in Nat /\ y <= x /\ x <= b
    BY <1>2
  <2> QED BY <2>1
<1>5. b \in T \cap S
  OBVIOUS
<1> HIDE DEF S, Upto
<1>6. F \subseteq SUBSET S /\ F # {}
  BY <1>4, <1>5
<1> HIDE DEF F
<1>7. PICK X \in F : \A Y \in F : ~ (<<Y, X>> \in StrictSubsetOrdering(S))
  BY <1>3, <1>6, WFMin
<1>8. PICK x \in T \cap S : X = Upto(x)
  BY DEF F
<1>9. ASSUME NEW t \in T, ~ (x <= t) PROVE FALSE
  <2>1. t \in T \cap S
    BY <1>9, <1>8 DEF S
  <2>2. Upto(t) \in F
    BY <2>1 DEF F
  <2>3. Upto(t) \subseteq Upto(x)
    <3> SUFFICES ASSUME NEW y \in Upto(t) PROVE y \in Upto(x)
      OBVIOUS
    <3>1. y \in Nat /\ x \in Nat /\ t \in Nat /\ y <= t /\ t < x /\ y \in T
      BY <1>9, <1>2 DEF Upto
    <3> QED BY <3>1 DEF Upto
  <2>4. x \in Upto(x) /\ x \notin Upto(t)
    BY <1>9, <1>2 DEF Upto
  <2>5. Upto(t) \in SUBSET S /\ Upto(x) \in SUBSET S
    BY <1>4, <2>1
  <2>6. <<Upto(t), X>> \in StrictSubsetOrdering(S)
    BY <2>3, <2>4, <2>5, <1>8 DEF StrictSubsetOrdering
  <2> QED BY <1>7, <2>2, <2>6
<1> QED BY <1>9

(* A function on 1 .. N whose values follow from earlier ones exists. *)
(* One step of a recursion along the parents. *)
Walk(f, PO, p) == IF PO[p] = 0 THEN <<p>> ELSE Append(f[PO[p]], p)

(* A function that walks up the parents exists, as they come before their children. *)
LEMMA WalkExists ==
  ASSUME NEW N \in Nat, NEW PO \in [1 .. N -> Nat], \A p \in 1 .. N : PO[p] < p
  PROVE  \E f : f = [p \in 1 .. N |-> Walk(f, PO, p)]
<1> DEFINE Good(n) == \E f : f = [p \in 1 .. n |-> Walk(f, PO, p)]
           Bad == {n \in 0 .. N : ~ Good(n)}
<1> SUFFICES Bad = {}
  OBVIOUS
<1> SUFFICES ASSUME Bad # {} PROVE FALSE
  OBVIOUS
<1>1. PICK n \in Bad : \A m \in Bad : n <= m
  <2>1. Bad \subseteq Nat
    OBVIOUS
  <2> HIDE DEF Bad
  <2> QED BY <2>1, LeastNat
<1>2. n # 0
  <2>1. [p \in 1 .. 0 |-> <<p>>] = [p \in 1 .. 0 |-> Walk([q \in 1 .. 0 |-> <<q>>], PO, p)]
    OBVIOUS
  <2>2. Good(0)
    BY <2>1
  <2> QED BY <2>2
<1>3. n \in 1 .. N /\ n - 1 \in 0 .. N /\ n - 1 \in Nat
  BY <1>2
<1>4. Good(n - 1)
  <2>1. n \in Nat /\ ~ (n <= n - 1)
    BY <1>3
  <2>2. n - 1 \notin Bad
    <3> HIDE DEF Bad
    <3> QED BY <1>1, <2>1
  <2> HIDE DEF Good
  <2> QED BY <2>2, <1>3
<1>5. PICK f : f = [p \in 1 .. n - 1 |-> Walk(f, PO, p)]
  BY <1>4
<1> DEFINE g == [p \in 1 .. n |-> IF p = n THEN Walk(f, PO, n) ELSE f[p]]
<1>6. ASSUME NEW p \in 1 .. n PROVE g[p] = Walk(g, PO, p)
  <2>1. PO[p] \in Nat /\ PO[p] < p
    BY <1>3
  <2>2. PO[p] = 0 \/ (PO[p] \in 1 .. n - 1 /\ g[PO[p]] = f[PO[p]])
    BY <2>1, <1>3
  <2>3. Walk(g, PO, p) = Walk(f, PO, p)
    BY <2>2 DEF Walk
  <2>4. CASE p = n
    BY <2>3, <2>4
  <2>5. CASE p # n
    <3>1. p \in 1 .. n - 1
      BY <2>5, <1>3
    <3>2. f[p] = Walk(f, PO, p)
      BY <1>5, <3>1
    <3> QED BY <3>2, <2>3, <2>5
  <2> QED BY <2>4, <2>5
<1>7. g = [p \in 1 .. n |-> Walk(g, PO, p)]
  <2> DEFINE h == [p \in 1 .. n |-> Walk(g, PO, p)]
  <2>1. \A p \in 1 .. n : g[p] = h[p]
    BY <1>6
  <2>2. g = [p \in 1 .. n |-> g[p]] /\ h = [p \in 1 .. n |-> h[p]]
    OBVIOUS
  <2> HIDE DEF g, h
  <2>3. g = h
    BY <2>1, <2>2
  <2> QED BY <2>3 DEF h
<1>8. Good(n)
  <2> HIDE DEF g
  <2> QED BY <1>7
<1> QED BY <1>8

(* A parent was created before its children. *)
Rooted == \A c \in Procs : ParentOf(c) \in 0 .. c - 1

LEMMA PathStep ==
  ASSUME task \in Seq(TaskRec), Rooted
  PROVE  /\ DOMAIN Path = Procs
         /\ \A p \in Procs : Path[p] = IF ParentOf(p) = 0 THEN <<p>> ELSE Append(Path[ParentOf(p)], p)
<1> DEFINE N == Len(task)
           PO == [p \in 1 .. N |-> ParentOf(p)]
<1>1. N \in Nat /\ Procs = 1 .. N
  BY DEF Procs
<1>2. PO \in [1 .. N -> Nat] /\ \A p \in 1 .. N : PO[p] < p
  BY <1>1 DEF Rooted
<1>3. \E f : f = [p \in 1 .. N |-> Walk(f, PO, p)]
  <2> HIDE DEF PO, N
  <2> QED BY <1>1, <1>2, WalkExists
<1>4. PICK f : f = [p \in 1 .. N |-> Walk(f, PO, p)]
  BY <1>3
<1>5. ASSUME NEW g PROVE [p \in 1 .. N |-> Walk(g, PO, p)] =
        [p \in Procs |-> IF ParentOf(p) = 0 THEN <<p>> ELSE Append(g[ParentOf(p)], p)]
  BY <1>1 DEF Walk
<1>6. f = [p \in Procs |-> IF ParentOf(p) = 0 THEN <<p>> ELSE Append(f[ParentOf(p)], p)]
  BY <1>4, <1>5
<1> HIDE DEF N, PO
<1>7. Path = CHOOSE g : g = [p \in Procs |-> IF ParentOf(p) = 0 THEN <<p>> ELSE Append(g[ParentOf(p)], p)]
  BY DEF Path
<1>8. Path = [p \in Procs |-> IF ParentOf(p) = 0 THEN <<p>> ELSE Append(Path[ParentOf(p)], p)]
  BY <1>6, <1>7
<1> QED BY <1>8

(* The path of a process ends with it, after the path of its parent. *)
LEMMA PathFacts ==
  ASSUME task \in Seq(TaskRec), Rooted
  PROVE  \A p \in Procs : /\ Path[p] \in Seq(Procs) /\ Path[p] # <<>>
                          /\ p \in ToSet(Path[p])
                          /\ ParentOf(p) # 0 => ToSet(Path[p]) = ToSet(Path[ParentOf(p)]) \union {p}
<1>0. Procs = 1 .. Len(task) /\ Len(task) \in Nat
  BY DEF Procs
<1>1. ASSUME NEW p \in Procs PROVE Path[p] \in Seq(Procs)
  <2> DEFINE Bad == {q \in Procs : Path[q] \notin Seq(Procs)}
  <2> SUFFICES ASSUME Bad # {} PROVE FALSE
    OBVIOUS
  <2>1. Bad \subseteq Nat
    BY <1>0
  <2>2. PICK q \in Bad : \A r \in Bad : q <= r
    <3> HIDE DEF Bad
    <3> QED BY <2>1, LeastNat
  <2>3. ParentOf(q) \in 0 .. q - 1 /\ q \in 1 .. Len(task)
    BY <1>0 DEF Rooted
  <2>4. ParentOf(q) = 0 \/ (ParentOf(q) \in Procs /\ ParentOf(q) \notin Bad)
    BY <2>2, <2>3, <1>0
  <2>5. Path[q] = IF ParentOf(q) = 0 THEN <<q>> ELSE Append(Path[ParentOf(q)], q)
    BY PathStep
  <2>6. ParentOf(q) # 0 => Path[ParentOf(q)] \in Seq(Procs)
    BY <2>4
  <2>7. q \in Procs /\ Path[q] \notin Seq(Procs)
    OBVIOUS
  <2>8. <<q>> \in Seq(Procs)
    BY <2>7
  <2>9. ASSUME NEW u \in Seq(Procs) PROVE Append(u, q) \in Seq(Procs)
    BY <2>7
  <2> HIDE DEF Bad
  <2> QED BY <2>5, <2>6, <2>7, <2>8, <2>9
<1>2. ASSUME NEW p \in Procs PROVE ParentOf(p) = 0 \/ (ParentOf(p) \in Procs /\ Path[ParentOf(p)] \in Seq(Procs))
  BY <1>0, <1>1 DEF Rooted
<1>3. ASSUME NEW p \in Procs PROVE Path[p] = IF ParentOf(p) = 0 THEN <<p>> ELSE Append(Path[ParentOf(p)], p)
  BY PathStep
<1>4. ASSUME NEW p \in Procs, ParentOf(p) = 0 PROVE Path[p] # <<>> /\ p \in ToSet(Path[p])
  <2>1. Path[p] = <<p>>
    BY <1>3, <1>4
  <2>2. <<p>> # <<>> /\ p \in ToSet(<<p>>)
    BY DEF ToSet
  <2> QED BY <2>1, <2>2
<1>5. ASSUME NEW p \in Procs, ParentOf(p) # 0
      PROVE  Path[p] # <<>> /\ ToSet(Path[p]) = ToSet(Path[ParentOf(p)]) \union {p}
  <2>1. PICK s \in Seq(Procs) : s = Path[ParentOf(p)]
    BY <1>2, <1>5
  <2>2. Path[p] = Append(s, p)
    BY <1>3, <1>5, <2>1
  <2>3. ToSet(Append(s, p)) = ToSet(s) \union {p}
    BY DEF ToSet
  <2> QED BY <2>1, <2>2, <2>3
<1> QED BY <1>1, <1>4, <1>5

(* The last of a finite set of numbers. *)
LEMMA MaxIs ==
  ASSUME NEW S \in SUBSET Nat, NEW m \in S, \A n \in S : n <= m
  PROVE  Max(S) = m
<1>0. \A x \in S : x \in Nat
  OBVIOUS
<1>1. \E x \in S : \A y \in S : x >= y
  BY <1>0
<1>2. Max(S) \in S /\ \A y \in S : Max(S) >= y
  BY <1>1 DEF Max
<1>3. Max(S) >= m /\ Max(S) <= m /\ Max(S) \in Nat /\ m \in Nat
  BY <1>0, <1>2
<1> QED BY <1>3

LEMMA MaxExists ==
  ASSUME NEW S \in SUBSET Nat, S # {}, NEW n \in Nat, \A m \in S : m <= n
  PROVE  Max(S) \in S /\ \A m \in S : m <= Max(S)
<1> DEFINE T == {n - m : m \in S}
<1>0. \A x \in S : x \in Nat /\ n - x \in Nat
  OBVIOUS
<1>1. T \in SUBSET Nat /\ T # {}
  BY <1>0
<1>2. PICK s \in T : \A t \in T : s <= t
  <2> HIDE DEF T
  <2> QED BY <1>1, LeastNat
<1>3. PICK x \in S : s = n - x
  OBVIOUS
<1>4. \A m \in S : m <= x
  <2> SUFFICES ASSUME NEW m \in S PROVE m <= x
    OBVIOUS
  <2>1. n - m \in T
    OBVIOUS
  <2>2. s <= n - m
    BY <1>2, <2>1
  <2> QED BY <2>2, <1>0, <1>3
<1>5. Max(S) = x
  BY <1>4, MaxIs
<1> QED BY <1>4, <1>5

(* The elements of a finite set, one after the other. *)
LEMMA SetToSeqIs ==
  ASSUME NEW S, IsFiniteSet(S)
  PROVE  SetToSeq(S) \in Seq(S)
<1>1. PICK c : c = Cardinality(S)
  OBVIOUS
<1>2. c \in Nat /\ ExistsBijection(1 .. c, S)
  BY <1>1, FS_CardinalityType
<1>3. \E f \in [1 .. c -> S] : IsInjective(f)
  BY <1>2 DEF ExistsBijection, Bijection, Injection, IsInjective
<1>4. PICK f : f = SetToSeq(S)
  OBVIOUS
<1>5. f \in [1 .. c -> S]
  BY <1>1, <1>3, <1>4 DEF SetToSeq
<1>6. f \in Seq(S)
  BY <1>2, <1>5
<1> QED BY <1>4, <1>6

(* The types, with those of the dbws on the threads. *)
FlowTypes ==
  /\ task \in Seq(TaskRec) /\ sync \in Seq(SyncRec)
  /\ merged \in Seq(SUBSET Nat) /\ Len(merged) = Len(sync)
  /\ gone \in [procs : SUBSET Procs, syncs : SUBSET DOMAIN sync]
  /\ open \in Seq(SUBSET (WaitItems \union {"call-back"})) /\ Len(open) = Len(task)
  /\ ran \in Seq(Seq(Nat)) /\ Len(ran) = Len(task)
  /\ timers \subseteq Procs /\ ended \subseteq Procs
  /\ queue \in Seq(DbwRec) /\ calls \subseteq DbwRec
  /\ ctx \in [FT -> CtxRec]
  /\ asked \in [roots : SUBSET Roots, aborts : Nat, repairs : Nat,
                moves : Nat, removals : Nat, crashes : Nat]

(* Every dbw and every sync row is about a process. *)
Names ==
  /\ \A i \in DOMAIN queue : queue[i].p \in Procs
  /\ \A d \in calls : d.p \in Procs
  /\ \A t \in FT : ctx[t].at # "idle" => ctx[t].d.p \in Procs
  /\ \A s \in DOMAIN sync : sync[s].taid \in Procs

(* Where a process is: on a thread (the row of a dbw that halts is not written
      before the dbw goes), creating its children, in the queue, with a pending call. *)
OnWay(t, p) == ctx[t].d.p = p /\ ctx[t].at \in {"run", "fork", "next", "end", "save", "dec"}
Forks(p) == ctx["worker"].d.p = p /\ ctx["worker"].at = "fork"
Busy(p) == \E t \in FT : ctx[t].at # "idle" /\ ctx[t].d.p = p
Queued(p) == \E i \in DOMAIN queue : queue[i].p = p
Called(p) == \E d \in calls : d.p = p

(* A sync row of p that was not removed; the children that have still to
      decrement it; a thread that is about to run the parent for the last one. *)
Row(s, p) == s \in DOMAIN sync /\ s \notin gone.syncs /\ sync[s].taid = p
Ending(c) == \E t \in FT : ctx[t].at = "dec" /\ ctx[t].d.p = c
Awaited(s) == {c \in Procs : task[c].sync = s /\ c \notin gone.procs /\ (c \in ended => Ending(c))}
AwaitsChild(p) == \E s \in DOMAIN sync : Row(s, p) /\ Awaited(s) # {}
Coming(t, p) == ctx[t].at = "parent" /\ Row(task[ctx[t].d.p].sync, p)

(* The places a process can be in, and that it is in no other than w. *)
For(t) == IF t = "worker" THEN "for worker" ELSE "for loop"
Spots == {"queue", "call", "worker", "loop", "open", "timer", "for worker", "for loop", "children"}
Placed(w, p) ==
  /\ Queued(p) => w = "queue"
  /\ Called(p) => w = "call"
  /\ \A t \in FT : OnWay(t, p) => w = t
  /\ open[p] # {} => w = "open"
  /\ p \in timers => w = "timer"
  /\ \A t \in FT : Coming(t, p) => w = For(t)
  /\ AwaitsChild(p) => w = "children" \/ Forks(p)

(* A process is in one place, with one dbw. *)
InOnePlace(p) == \E w \in Spots : Placed(w, p)
OneDbw(p) ==
  /\ \A i, j \in DOMAIN queue : queue[i].p = p /\ queue[j].p = p => i = j
  /\ \A d, e \in calls : d.p = p /\ e.p = p => d = e

(* A process that was removed or has ended is on no thread, but for its own end. *)
GoneRests(p) == p \in gone.procs => ~ Queued(p) /\ ~ Called(p) /\ ~ Busy(p)
EndedRests(p) ==
  p \in ended => /\ ~ Queued(p) /\ ~ Called(p) /\ open[p] = {} /\ p \notin timers
                 /\ ~ AwaitsChild(p) /\ \A t \in FT : ~ Coming(t, p)
                 /\ \A t \in FT : OnWay(t, p) => ctx[t].at = "dec"

(* Only one sync row of a process has children left. *)
OneRow(p) ==
  \A s, r \in DOMAIN sync :
    Row(s, p) /\ Row(r, p) /\ Awaited(s) # {} /\ Awaited(r) # {} => s = r

L(p) == Len(ran[p])
Pos(p) == task[p].pos
Walked(p) ==
  /\ Pos(p) \in 1 .. Len(Steps(p))
  /\ ran[p] = [i \in 1 .. L(p) |-> i]
  /\ L(p) \in {Pos(p) - 1, Pos(p)}

(* Whoever runs a process has loaded its current step. *)
About(d) == d.k = Pos(d.p) /\ L(d.p) = IF d.st = "none" THEN Pos(d.p) - 1 ELSE Pos(d.p)
Loaded(p) ==
  /\ \A i \in DOMAIN queue : queue[i].p = p => About(queue[i])
  /\ \A t \in FT : ctx[t].at = "run" /\ ctx[t].d.p = p => About(ctx[t].d)

(* On the loop thread an operator runs the step of a process again, no split. *)
LoopRuns(p) ==
  ctx["loop"].at = "run" /\ ctx["loop"].d.p = p =>
    ctx["loop"].d.st = "none" /\ Steps(p)[Pos(p)].kind \notin {"split", "if"}

(* The step is carried out when the process waits or goes on after it. *)
Parental(p) == AwaitsChild(p) \/ \E t \in FT : Coming(t, p)
Late(p) ==
  \/ Called(p) \/ open[p] # {} \/ p \in timers \/ Parental(p) \/ p \in ended
  \/ \E t \in FT : ctx[t].d.p = p /\ ctx[t].at \in {"fork", "next", "end", "save", "dec"}
AtEnd(p) == p \in ended \/ \E t \in FT : ctx[t].d.p = p /\ ctx[t].at \in {"end", "save", "dec"}
Resting(p) == ~ Queued(p) /\ \A t \in FT : ~ OnWay(t, p)

(* What is carried out, by the place a process is in. *)
InStep(p) ==
  /\ Walked(p)
  /\ Loaded(p)
  /\ LoopRuns(p)
  /\ Late(p) => L(p) = Pos(p)
  /\ Parental(p) => task[p].state \in {"halt", "aborted"}
  /\ Forks(p) => ctx["worker"].d.k = Pos(p) /\ task[p].state \in {"halt", "aborted"}
  /\ AtEnd(p) => Pos(p) = Len(Steps(p))
  /\ asked.crashes = 0 /\ task[p].state \in {"done", "error"} /\ Resting(p) => L(p) = Pos(p)

(* The invariant of one process. *)
PInv(p) == /\ InOnePlace(p) /\ OneDbw(p) /\ GoneRests(p) /\ EndedRests(p)
           /\ OneRow(p) /\ InStep(p)

(* A child decrements the counter when it has ended. *)
DecEnded == \A t \in FT : ctx[t].at \in {"dec", "parent"} =>
                             ctx[t].d.p \in ended /\ task[ctx[t].d.p].sync # 0

(* While children are created: their row is the last one of the parent, and
      those there are have not begun. *)
ForkedRow(d, s) ==
  /\ Steps(d.p)[d.k].kind \in {"split", "if"}
  /\ Row(s, d.p) /\ sync[s].step = d.k
  /\ \A r \in DOMAIN sync : Row(r, d.p) /\ Awaited(r) # {} => r = s
  /\ \A c \in Awaited(s) : Queued(c)
ForkOK ==
  /\ ctx["loop"].at # "fork"
  /\ ctx["worker"].at = "fork" => ForkedRow(ctx["worker"].d, MySync(ctx["worker"].d))

(* The counter covers the children to come and those that are not through. *)
Todo(s) == IF ctx["worker"].at = "fork" /\ s = MySync(ctx["worker"].d) THEN ctx["worker"].todo ELSE 0
Counted(s) == s \notin gone.syncs => sync[s].cnt >= Cardinality(Awaited(s)) + Todo(s)
Counts == \A s \in DOMAIN sync : Counted(s)

(* Children come after their parents, and go with them. *)
Nested == \A c \in Procs : task[c].sync = 0 \/ (task[c].sync \in DOMAIN sync /\ sync[task[c].sync].taid \in 1 .. c - 1)
GoneBelow ==
  /\ \A s \in DOMAIN sync : sync[s].taid \in gone.procs => s \in gone.syncs
  /\ \A c \in Procs : task[c].sync \in gone.syncs => c \in gone.procs

(* The inductive invariant. *)
FlowInv == /\ FlowTypes /\ Names /\ Nested /\ GoneBelow /\ DecEnded /\ ForkOK /\ Counts
           /\ \A p \in Procs : PInv(p)

-----------------------------------------------------------------------------
(* Steps that concern the processes of a set A only (Local): the others keep
   their place and their rows. *)

(* Steps that concern the processes of A only. *)
SameProcess(q) ==
  /\ task'[q] = task[q] /\ ran'[q] = ran[q] /\ open'[q] = open[q]
  /\ q \in timers' <=> q \in timers
  /\ q \in ended' <=> q \in ended
Frame(A) ==
  /\ DOMAIN task' = Procs
  /\ \A c \in Procs : task'[c].wf = task[c].wf /\ task'[c].sq = task[c].sq /\ task'[c].sync = task[c].sync
  /\ DOMAIN sync' = DOMAIN sync
  /\ \A s \in DOMAIN sync : sync'[s].taid = sync[s].taid /\ sync'[s].step = sync[s].step
  /\ gone' = gone /\ asked'.crashes = asked.crashes
  /\ \A q \in Procs \ A : SameProcess(q)
  /\ ended \subseteq ended' /\ ended' \subseteq Procs
QueueOf(A) ==
  \/ queue' = queue
  \/ \E e \in DbwRec : e.p \in A /\ queue' = Append(queue, e)
  \/ queue # <<>> /\ Head(queue).p \in A /\ queue' = Tail(queue) /\ ctx'["worker"].at # "fork"
CallsOf(A) == \A d : d.p \notin A => (d \in calls' <=> d \in calls)
CtxOf(t, A) ==
  /\ ctx[t].at # "idle" => ctx[t].d.p \in A
  /\ ctx'[t].at # "idle" => ctx'[t].d.p \in A
  /\ ctx[t].at = "parent" => \A q : Row(task[ctx[t].d.p].sync, q) => q \in A
  /\ ctx'[t].at = "parent" => \A q : Row(task[ctx'[t].d.p].sync, q) => q \in A
  /\ ctx'[t].at = "dec" => ctx'[t].d.p \notin ended
  /\ ctx'[t].at \in {"dec", "parent"} => ctx'[t].d.p \in ended' /\ task[ctx'[t].d.p].sync # 0
  /\ ctx'[t].at # "fork"
Local(A) == Frame(A) /\ QueueOf(A) /\ CallsOf(A) /\ \A t \in FT : ctx'[t] = ctx[t] \/ CtxOf(t, A)

(* The rows, the queue and the children a local step leaves. *)
LEMMA LocalRow ==
  ASSUME NEW A, Frame(A)
  PROVE  \A s, q : Row(s, q)' <=> Row(s, q)
BY DEF Frame, Row

LEMMA LocalQueue ==
  ASSUME NEW A, QueueOf(A), FlowTypes
  PROVE  /\ \A q : q \notin A => (Queued(q)' <=> Queued(q))
         /\ ctx'["worker"].at = "fork" => \A q : Queued(q) => Queued(q)'
         /\ \A q : q \notin A /\ OneDbw(q) => 
              \A i, j \in DOMAIN queue' : queue'[i].p = q /\ queue'[j].p = q => i = j
         /\ \A q \in Procs : q \notin A =>
              \A j \in DOMAIN queue' : queue'[j].p = q => \E i \in DOMAIN queue : queue[i] = queue'[j]
<1>0. queue \in Seq(DbwRec)
  BY DEF FlowTypes
<1>1. CASE queue' = queue
  BY <1>1 DEF Queued, OneDbw
<1>2. CASE \E e \in DbwRec : e.p \in A /\ queue' = Append(queue, e)
  <2>1. PICK e \in DbwRec : e.p \in A /\ queue' = Append(queue, e)
    BY <1>2
  <2>2. /\ DOMAIN queue' = 1 .. Len(queue) + 1 /\ queue'[Len(queue) + 1] = e
        /\ \A i \in DOMAIN queue : queue'[i] = queue[i]
        /\ DOMAIN queue = 1 .. Len(queue) /\ Len(queue) \in Nat
    BY <1>0, <2>1
  <2>3. \A q : Queued(q) => Queued(q)'
    BY <2>2 DEF Queued
  <2>4. \A q : q \notin A => \A j \in DOMAIN queue' : queue'[j].p = q => j \in DOMAIN queue /\ queue'[j] = queue[j]
    BY <2>1, <2>2
  <2>5. \A q : q \notin A => (Queued(q)' => Queued(q))
    BY <2>4 DEF Queued
  <2> QED BY <2>3, <2>4, <2>5 DEF OneDbw
<1>3. CASE queue # <<>> /\ Head(queue).p \in A /\ queue' = Tail(queue) /\ ctx'["worker"].at # "fork"
  <2>1. /\ DOMAIN queue' = 1 .. Len(queue) - 1 /\ DOMAIN queue = 1 .. Len(queue) /\ Len(queue) \in Nat /\ Len(queue) > 0
        /\ \A i \in DOMAIN queue' : queue'[i] = queue[i + 1] /\ i + 1 \in DOMAIN queue
        /\ queue[1].p \in A
    BY <1>0, <1>3
  <2>2. \A q : q \notin A => \A i \in DOMAIN queue : queue[i].p = q => i - 1 \in DOMAIN queue' /\ queue'[i - 1] = queue[i]
    BY <2>1
  <2>3. \A q : q \notin A => (Queued(q)' <=> Queued(q))
    BY <2>1, <2>2 DEF Queued
  <2>4. ASSUME NEW q, q \notin A, OneDbw(q), NEW i \in DOMAIN queue', NEW j \in DOMAIN queue', queue'[i].p = q, queue'[j].p = q
        PROVE  i = j
    <3>1. i + 1 = j + 1
      BY <2>1, <2>4 DEF OneDbw
    <3> QED BY <3>1, <2>1
  <2> QED BY <2>1, <2>3, <2>4, <1>3
<1> QED BY <1>1, <1>2, <1>3 DEF QueueOf

LEMMA LocalAwaited ==
  ASSUME NEW A, Local(A), FlowTypes
  PROVE  /\ \A s : Awaited(s)' \subseteq Awaited(s)
         /\ \A p : AwaitsChild(p)' => AwaitsChild(p)
<1>1. ASSUME NEW s, NEW c \in Awaited(s)' PROVE c \in Awaited(s)
  <2>1. c \in Procs /\ task[c].sync = s /\ c \notin gone.procs /\ (c \in ended' => Ending(c)')
    BY <1>1 DEF Awaited, Local, Frame, Procs
  <2>2. c \in ended => c \in ended'
    BY DEF Local, Frame
  <2>3. ASSUME c \in ended, Ending(c)' PROVE Ending(c)
    <3>1. PICK t \in FT : ctx'[t].at = "dec" /\ ctx'[t].d.p = c
      BY <2>3 DEF Ending
    <3>2. ctx'[t] = ctx[t]
      BY <2>3, <3>1 DEF Local, CtxOf
    <3> QED BY <3>1, <3>2 DEF Ending
  <2> QED BY <2>1, <2>2, <2>3 DEF Awaited
<1>2. ASSUME NEW p, AwaitsChild(p)' PROVE AwaitsChild(p)
  <2>1. PICK s \in DOMAIN sync' : Row(s, p)' /\ Awaited(s)' # {}
    BY <1>2 DEF AwaitsChild
  <2>2. Row(s, p) /\ s \in DOMAIN sync /\ Awaited(s) # {}
    BY <2>1, <1>1, LocalRow DEF Local, Frame
  <2> QED BY <2>2 DEF AwaitsChild
<1> QED BY <1>1, <1>2

(* A process outside of A keeps its invariant. *)
LEMMA LocalOthers ==
  ASSUME NEW A, Local(A), FlowTypes, DecEnded, NEW q \in Procs, q \notin A
  PROVE  /\ Queued(q)' <=> Queued(q)
         /\ Called(q)' <=> Called(q)
         /\ \A t \in FT : OnWay(t, q)' <=> OnWay(t, q)
         /\ \A t \in FT : Coming(t, q)' <=> Coming(t, q)
         /\ \A t \in FT : ctx'[t].at # "idle" /\ ctx'[t].d.p = q => ctx'[t] = ctx[t]
         /\ Forks(q)' <=> Forks(q)
         /\ Busy(q)' => Busy(q)
         /\ \A d : d \in calls' /\ d.p = q => d \in calls
<1>1. Queued(q)' <=> Queued(q)
  BY LocalQueue DEF Local
<1>2. \A d : d.p = q => (d \in calls' <=> d \in calls)
  BY DEF Local, CallsOf
<1>3. Called(q)' <=> Called(q)
  BY <1>2 DEF Called
<1>4. \A t \in FT : ctx'[t].at # "idle" /\ ctx'[t].d.p = q => ctx'[t] = ctx[t]
  BY DEF Local, CtxOf
<1>5. \A t \in FT : ctx[t].at # "idle" /\ ctx[t].d.p = q => ctx'[t] = ctx[t]
  BY DEF Local, CtxOf
<1>6. ASSUME NEW t \in FT PROVE (OnWay(t, q)' <=> OnWay(t, q)) /\ (ctx'[t].at # "idle" /\ ctx'[t].d.p = q => ctx[t].at # "idle" /\ ctx[t].d.p = q)
  BY <1>4, <1>5 DEF OnWay
<1>7. ASSUME NEW t \in FT PROVE Coming(t, q)' <=> Coming(t, q)
  <2>1. CASE ctx'[t] = ctx[t]
    <3>1. ctx[t].at = "parent" => task'[ctx[t].d.p].sync = task[ctx[t].d.p].sync
      BY DEF Local, Frame, DecEnded, FlowTypes
    <3> QED BY <2>1, <3>1, LocalRow DEF Coming, Local
  <2>2. CASE CtxOf(t, A)
    <3>1. ~ Coming(t, q)
      BY <2>2 DEF CtxOf, Coming
    <3>2. ASSUME Coming(t, q)' PROVE FALSE
      <4>1. ctx'[t].at = "parent" /\ Row(task'[ctx'[t].d.p].sync, q)
        BY <3>2, LocalRow DEF Coming, Local
      <4>2. ctx'[t].d.p \in Procs
        BY <2>2, <4>1 DEF CtxOf, Local, Frame, FlowTypes
      <4>3. task'[ctx'[t].d.p].sync = task[ctx'[t].d.p].sync
        BY <4>2 DEF Local, Frame
      <4> QED BY <2>2, <4>1, <4>3 DEF CtxOf
    <3> QED BY <3>1, <3>2
  <2> QED BY <2>1, <2>2 DEF Local
<1>8. Forks(q)' <=> Forks(q)
  BY <1>4, <1>5 DEF Forks, FT
<1>9. Busy(q)' => Busy(q)
  BY <1>6 DEF Busy
<1> QED BY <1>1, <1>2, <1>3, <1>4, <1>6, <1>7, <1>8, <1>9

(* The rest of the invariant after a local step. *)
LEMMA LocalRows ==
  ASSUME NEW A, Local(A), FlowInv
  PROVE  /\ \A q \in Procs : OneRow(q)'
         /\ Nested' /\ GoneBelow' /\ DecEnded'
<1>0. FlowTypes /\ DecEnded /\ Nested /\ GoneBelow /\ (\A q \in Procs : OneRow(q))
  BY DEF FlowInv, PInv
<1>1. ASSUME NEW q \in Procs PROVE OneRow(q)'
  <2>1. \A s : Awaited(s)' # {} => Awaited(s) # {}
    BY LocalAwaited, <1>0
  <2>2. \A s \in DOMAIN sync' : s \in DOMAIN sync /\ (Row(s, q)' => Row(s, q))
    BY LocalRow DEF Local, Frame
  <2> QED BY <1>0, <2>1, <2>2 DEF OneRow
<1>2. Nested'
  BY <1>0 DEF Nested, Local, Frame, Procs
<1>3. GoneBelow'
  BY <1>0 DEF GoneBelow, Local, Frame, Procs
<1>4. ASSUME NEW t \in FT, ctx'[t].at \in {"dec", "parent"} PROVE ctx'[t].d.p \in ended' /\ task'[ctx'[t].d.p].sync # 0
  <2>1. ctx'[t].d.p \in ended' /\ task[ctx'[t].d.p].sync # 0
    BY <1>0, <1>4 DEF Local, CtxOf, DecEnded, Frame
  <2>2. ctx'[t].d.p \in Procs
    BY <2>1 DEF Local, Frame
  <2> QED BY <2>1, <2>2 DEF Local, Frame
<1> QED BY <1>1, <1>2, <1>3, <1>4 DEF DecEnded

LEMMA LocalSync ==
  ASSUME NEW A, Local(A), NEW d
  PROVE  MySync(d)' = MySync(d)
<1>1. {s \in DOMAIN sync' : sync'[s].taid = d.p /\ sync'[s].step = d.k} =
      {s \in DOMAIN sync : sync[s].taid = d.p /\ sync[s].step = d.k}
  BY DEF Local, Frame
<1>2. d' = d
  OBVIOUS
<1> QED BY <1>1 DEF MySync

LEMMA LocalFork ==
  ASSUME NEW A, Local(A), FlowInv
  PROVE  /\ ForkOK'
         /\ ctx'["worker"].at = "fork" => ctx'["worker"] = ctx["worker"]
         /\ \A s : Todo(s)' \in {0, Todo(s)}
<1>0. FlowTypes /\ DecEnded /\ ForkOK /\ Names
  BY DEF FlowInv
<1>1. \A t \in FT : ctx'[t].at = "fork" => ctx'[t] = ctx[t]
  BY DEF Local, CtxOf
<1>2. ctx'["worker"].at = "fork" => ctx'["worker"] = ctx["worker"]
  BY <1>1 DEF FT
<1>3. ctx'["loop"].at # "fork"
  BY <1>0, <1>1 DEF ForkOK, FT
<1>4. ASSUME ctx'["worker"].at = "fork" PROVE ForkedRow(ctx["worker"].d, MySync(ctx["worker"].d))'
  <2>1. PICK d : d = ctx["worker"].d
    OBVIOUS
  <2>2. PICK s : s = MySync(d)
    OBVIOUS
  <2>3. ForkedRow(d, s) /\ d.p \in Procs
    BY <1>0, <1>2, <1>4, <2>1, <2>2 DEF ForkOK, Names, FT
  <2>4. Steps(d.p)' = Steps(d.p)
    BY <2>3 DEF Steps, Local, Frame
  <2>5. Row(s, d.p)' /\ sync'[s].step = d.k /\ s \in DOMAIN sync
    BY <2>3, LocalRow DEF ForkedRow, Row, Local, Frame
  <2>6. \A r \in DOMAIN sync' : Row(r, d.p)' /\ Awaited(r)' # {} => r = s
    <3>1. \A r \in DOMAIN sync' : Row(r, d.p)' => r \in DOMAIN sync /\ Row(r, d.p)
      BY LocalRow DEF Local, Frame
    <3>2. \A r : Awaited(r)' # {} => Awaited(r) # {}
      BY LocalAwaited, <1>0
    <3> QED BY <3>1, <3>2, <2>3 DEF ForkedRow
  <2>7. \A c \in Awaited(s)' : Queued(c)'
    <3>1. \A c \in Awaited(s)' : Queued(c)
      BY <2>3, LocalAwaited, <1>0 DEF ForkedRow
    <3> QED BY <3>1, <1>4, <1>0, LocalQueue DEF Local
  <2>8. ForkedRow(d, s)'
    BY <2>3, <2>4, <2>5, <2>6, <2>7 DEF ForkedRow
  <2>9. MySync(d)' = MySync(d)
    BY LocalSync
  <2>10. d = ctx'["worker"].d
    BY <2>1, <1>2, <1>4
  <2>11. MySync(ctx["worker"].d)' = s
    BY <2>9, <2>10, <2>2
  <2> QED BY <2>8, <2>10, <2>11
<1>5. ForkOK'
  BY <1>3, <1>4 DEF ForkOK
<1>6. ASSUME NEW s PROVE Todo(s)' \in {0, Todo(s)}
  <2>1. PICK d : d = ctx["worker"].d
    OBVIOUS
  <2>2. MySync(d)' = MySync(d)
    BY LocalSync
  <2>3. CASE ctx'["worker"].at = "fork"
    <3>1. MySync(ctx["worker"].d)' = MySync(d)
      BY <2>1, <2>2, <2>3, <1>2
    <3>2. ctx'["worker"] = ctx["worker"]
      BY <2>3, <1>2
    <3> QED BY <3>1, <3>2, <2>1 DEF Todo
  <2>4. CASE ctx'["worker"].at # "fork"
    BY <2>4 DEF Todo
  <2> QED BY <2>3, <2>4
<1> QED BY <1>2, <1>5, <1>6

(* The children of a row can be counted. *)
LEMMA AwaitedIsFinite ==
  ASSUME FlowTypes, NEW s
  PROVE  IsFiniteSet(Awaited(s)) /\ Cardinality(Awaited(s)) \in Nat
<1>1. Procs = 1 .. Len(task) /\ Len(task) \in Nat
  BY DEF FlowTypes, Procs
<1>2. IsFiniteSet(Procs)
  BY <1>1, FS_Interval
<1>3. Awaited(s) \subseteq Procs
  BY DEF Awaited
<1> QED BY <1>2, <1>3, FS_Subset, FS_CardinalityType

LEMMA TodoIsNat ==
  ASSUME FlowTypes, NEW s
  PROVE  Todo(s) \in Nat
BY DEF Todo, FlowTypes, CtxRec, FT

LEMMA LocalCounts ==
  ASSUME NEW A, Local(A), FlowInv, NEW s \in DOMAIN sync, sync'[s] = sync[s]
  PROVE  Counted(s)'
<1>1. FlowTypes /\ Counted(s)
  BY DEF FlowInv, Counts
<1>2. Awaited(s)' \subseteq Awaited(s)
  BY LocalAwaited, <1>1
<1>3. IsFiniteSet(Awaited(s)) /\ Cardinality(Awaited(s)) \in Nat
  BY <1>1, AwaitedIsFinite
<1>4. Cardinality(Awaited(s)') \in Nat /\ Cardinality(Awaited(s)') <= Cardinality(Awaited(s))
  BY <1>2, <1>3, FS_Subset, FS_CardinalityType
<1>5. Todo(s)' \in {0, Todo(s)}
  BY LocalFork
<1>a. Todo(s) \in Nat
  BY TodoIsNat, <1>1
<1>6. sync[s].cnt \in Int
  <2>1. sync \in Seq(SyncRec)
    BY <1>1 DEF FlowTypes
  <2>2. sync[s] \in SyncRec
    BY <2>1
  <2> QED BY <2>2 DEF SyncRec
<1>7. Cardinality(Awaited(s)') + Todo(s)' <= Cardinality(Awaited(s)) + Todo(s)
  BY <1>3, <1>4, <1>5, <1>a
<1>8. gone' = gone
  BY DEF Local, Frame
<1>9. Cardinality(Awaited(s)') + Todo(s)' \in Int /\ Cardinality(Awaited(s)) + Todo(s) \in Int
  BY <1>3, <1>4, <1>5, <1>a
<1>10. s \notin gone.syncs => sync[s].cnt >= Cardinality(Awaited(s)) + Todo(s)
  BY <1>1 DEF Counted
<1>11. s \notin gone.syncs => sync[s].cnt >= Cardinality(Awaited(s)') + Todo(s)'
  BY <1>6, <1>7, <1>9, <1>10
<1>12. s \notin gone'.syncs => sync'[s].cnt >= Cardinality(Awaited(s)') + Todo(s)'
  BY <1>8, <1>11
<1> QED BY <1>12 DEF Counted

LEMMA LocalNames ==
  ASSUME NEW A \in SUBSET Procs, Local(A), FlowInv
  PROVE  Names'
<1>0. FlowTypes /\ Names
  BY DEF FlowInv
<1>1. ASSUME NEW j \in DOMAIN queue' PROVE queue'[j].p \in Procs
  <2>1. CASE queue' = queue
    BY <2>1, <1>0 DEF Names
  <2>2. CASE \E e \in DbwRec : e.p \in A /\ queue' = Append(queue, e)
    <3>1. PICK e \in DbwRec : e.p \in A /\ queue' = Append(queue, e)
      BY <2>2
    <3>2. queue \in Seq(DbwRec) /\ e.p \in Procs
      BY <3>1, <1>0 DEF FlowTypes
    <3>3. (j \in DOMAIN queue /\ queue'[j] = queue[j]) \/ queue'[j] = e
      BY <3>1, <3>2
    <3> QED BY <3>2, <3>3, <1>0 DEF Names
  <2>3. CASE queue # <<>> /\ queue' = Tail(queue)
    <3>1. j + 1 \in DOMAIN queue /\ queue'[j] = queue[j + 1]
      BY <2>3, <1>0 DEF FlowTypes
    <3> QED BY <3>1, <1>0 DEF Names
  <2> QED BY <2>1, <2>2, <2>3 DEF Local, QueueOf
<1>2. ASSUME NEW d \in calls' PROVE d.p \in Procs
  BY <1>0 DEF Local, CallsOf, Names
<1>3. ASSUME NEW t \in FT, ctx'[t].at # "idle" PROVE ctx'[t].d.p \in Procs
  BY <1>0, <1>3 DEF Local, CtxOf, Names
<1>4. ASSUME NEW s \in DOMAIN sync' PROVE sync'[s].taid \in Procs
  BY <1>0 DEF Local, Frame, Names
<1>5. Procs' = Procs
  BY DEF Local, Frame, Procs
<1> QED BY <1>1, <1>2, <1>3, <1>4, <1>5 DEF Names

LEMMA LocalPInv ==
  ASSUME NEW A, Local(A), FlowInv, NEW q \in Procs, q \notin A
  PROVE  PInv(q)'
<1>0. FlowTypes /\ DecEnded /\ PInv(q)
  BY DEF FlowInv
<1>1. /\ Queued(q)' <=> Queued(q)
      /\ Called(q)' <=> Called(q)
      /\ \A t \in FT : OnWay(t, q)' <=> OnWay(t, q)
      /\ \A t \in FT : Coming(t, q)' <=> Coming(t, q)
      /\ Forks(q)' <=> Forks(q)
      /\ Busy(q)' => Busy(q)
  BY <1>0, LocalOthers
<1>2. \A t \in FT : ctx'[t].at # "idle" /\ ctx'[t].d.p = q => ctx'[t] = ctx[t]
  BY <1>0, LocalOthers
<1>3. \A d : d \in calls' /\ d.p = q => d \in calls
  BY <1>0, LocalOthers
<1>4. AwaitsChild(q)' => AwaitsChild(q)
  BY <1>0, LocalAwaited
<1>5. /\ task'[q] = task[q] /\ ran'[q] = ran[q] /\ open'[q] = open[q]
      /\ q \in timers' <=> q \in timers
      /\ q \in ended' <=> q \in ended
      /\ gone' = gone /\ asked'.crashes = asked.crashes
  BY DEF Local, Frame, SameProcess
<1>6. InOnePlace(q)'
  <2>1. PICK w \in Spots : Placed(w, q)
    BY <1>0 DEF PInv, InOnePlace
  <2>2. Placed(w, q)'
    BY <2>1, <1>1, <1>4, <1>5 DEF Placed
  <2> QED BY <2>2 DEF InOnePlace
<1>7. OneDbw(q)'
  <2>1. \A i, j \in DOMAIN queue' : queue'[i].p = q /\ queue'[j].p = q => i = j
    BY <1>0, LocalQueue DEF Local, PInv
  <2> QED BY <2>1, <1>3, <1>0 DEF OneDbw, PInv
<1>8. GoneRests(q)'
  BY <1>0, <1>1, <1>5 DEF PInv, GoneRests
<1>9. EndedRests(q)'
  <2>1. \A t \in FT : OnWay(t, q)' => ctx'[t] = ctx[t]
    BY <1>2 DEF OnWay
  <2> QED BY <1>0, <1>1, <1>4, <1>5, <2>1 DEF PInv, EndedRests
<1>10. OneRow(q)'
  BY LocalRows
<1>11. InStep(q)'
  <2>0. InStep(q)
    BY <1>0 DEF PInv
  <2>1. Steps(q)' = Steps(q) /\ Pos(q)' = Pos(q) /\ L(q)' = L(q)
    BY <1>5 DEF Steps, Pos, L
  <2>2. Walked(q)'
    BY <2>0, <2>1, <1>5 DEF InStep, Walked
  <2>3. \A d : d.p = q => (About(d)' <=> About(d))
    BY <2>1 DEF About
  <2>4. ASSUME NEW j \in DOMAIN queue', queue'[j].p = q PROVE About(queue[j])'
    <3>1. PICK i \in DOMAIN queue : queue[i] = queue'[j]
      BY <2>4, <1>0, LocalQueue DEF Local
    <3>2. PICK d : d = queue'[j]
      OBVIOUS
    <3>3. About(d)
      BY <3>1, <3>2, <2>4, <2>0 DEF InStep, Loaded
    <3>4. About(d)'
      BY <3>2, <3>3, <2>3, <2>4
    <3> QED BY <3>2, <3>4 DEF About
  <2>5. ASSUME NEW t \in FT, ctx'[t].at = "run", ctx'[t].d.p = q PROVE About(ctx[t].d)'
    <3>1. ctx'[t] = ctx[t]
      BY <2>5, <1>2
    <3>2. PICK d : d = ctx[t].d
      OBVIOUS
    <3>3. About(d)
      BY <3>1, <3>2, <2>5, <2>0 DEF InStep, Loaded
    <3>4. About(d)'
      BY <3>1, <3>2, <3>3, <2>3, <2>5
    <3> QED BY <3>1, <3>2, <3>4 DEF About
  <2>6. Loaded(q)'
    BY <2>4, <2>5 DEF Loaded
  <2>7. LoopRuns(q)'
    <3>1. ctx'["loop"].at = "run" /\ ctx'["loop"].d.p = q => ctx'["loop"] = ctx["loop"]
      BY <1>2 DEF FT
    <3> QED BY <3>1, <2>0, <2>1 DEF LoopRuns, InStep
  <2>8. Parental(q)' => Parental(q)
    BY <1>1, <1>4 DEF Parental
  <2>9. \A t \in FT : ctx'[t].d.p = q /\ ctx'[t].at \in {"fork", "next", "end", "save", "dec"} => ctx'[t] = ctx[t]
    BY <1>2
  <2>10. Late(q)' => Late(q)
    BY <1>1, <1>5, <2>8, <2>9 DEF Late
  <2>11. AtEnd(q)' => AtEnd(q)
    BY <1>5, <2>9 DEF AtEnd
  <2>12. Resting(q)' => Resting(q)
    BY <1>1 DEF Resting
  <2>13. Forks(q)' => ctx'["worker"].d = ctx["worker"].d /\ Forks(q)
    BY <1>1, LocalFork DEF Forks
  <2> QED
    BY <2>0, <2>1, <2>2, <2>6, <2>7, <2>8, <2>10, <2>11, <2>12, <2>13, <1>5 DEF InStep
<1> QED BY <1>6, <1>7, <1>8, <1>9, <1>10, <1>11 DEF PInv

-----------------------------------------------------------------------------
(* A step of one process, stated by what it may write (Touch). *)

(* What a step may change of process p, in terms of the variables. *)
TaskOf(p) ==
  \E r \in TaskRec : /\ r.wf = task[p].wf /\ r.sq = task[p].sq /\ r.sync = task[p].sync
                     /\ task' = [task EXCEPT ![p] = r]
RanOf(p) == \E r \in Seq(Nat) : ran' = [ran EXCEPT ![p] = r]
OpenOf(p) == \E r \in SUBSET (WaitItems \union {"call-back"}) : open' = [open EXCEPT ![p] = r]
CallsSet(p) == calls' = calls \/ \E d \in DbwRec : d.p = p /\ calls' \in {calls \union {d}, calls \ {d}}
ThreadOf(p) ==
  ctx' = ctx \/ \E t \in FT, c \in CtxRec : ctx' = [ctx EXCEPT ![t] = c] /\ CtxOf(t, {p})
Calm ==
  /\ sync' = sync /\ gone' = gone
  /\ merged' \in Seq(SUBSET Nat) /\ Len(merged') = Len(merged)
  /\ asked' \in [roots : SUBSET Roots, aborts : Nat, repairs : Nat,
                 moves : Nat, removals : Nat, crashes : Nat]
  /\ asked'.crashes = asked.crashes
Touch(p) ==
  /\ TaskOf(p) /\ RanOf(p) /\ OpenOf(p)
  /\ timers' \in {timers, timers \union {p}, timers \ {p}}
  /\ ended' \in {ended, ended \union {p}}
  /\ QueueOf({p}) /\ CallsSet(p) /\ ThreadOf(p) /\ Calm

(* A row that is put back as it was changes nothing. *)
LEMMA SeqSame ==
  ASSUME NEW S, NEW f \in Seq(S), NEW p
  PROVE  [f EXCEPT ![p] = f[p]] = f /\ (p \in DOMAIN f => f[p] \in S)
OBVIOUS

(* The tables after a step of one process. *)
LEMMA TouchRows ==
  ASSUME FlowTypes, NEW p \in Procs
  PROVE  /\ task' = task => TaskOf(p)
         /\ ran' = ran => RanOf(p)
         /\ open' = open => OpenOf(p)
<1>1. /\ task \in Seq(TaskRec) /\ ran \in Seq(Seq(Nat)) /\ open \in Seq(SUBSET (WaitItems \union {"call-back"}))
      /\ Len(ran) = Len(task) /\ Len(open) = Len(task)
  BY DEF FlowTypes
<1>2. p \in DOMAIN task /\ p \in DOMAIN ran /\ p \in DOMAIN open
  BY <1>1 DEF Procs
<1>3. task' = task => TaskOf(p)
  <2>1. task[p] \in TaskRec /\ [task EXCEPT ![p] = task[p]] = task
    BY <1>1, <1>2, SeqSame
  <2> QED BY <2>1 DEF TaskOf
<1>4. ran' = ran => RanOf(p)
  <2>1. ran[p] \in Seq(Nat) /\ [ran EXCEPT ![p] = ran[p]] = ran
    BY <1>1, <1>2, SeqSame
  <2> QED BY <2>1 DEF RanOf
<1>5. open' = open => OpenOf(p)
  <2> DEFINE S == SUBSET (WaitItems \union {"call-back"})
  <2>0. open \in Seq(S)
    BY <1>1
  <2>1. open[p] \in S /\ [open EXCEPT ![p] = open[p]] = open
    <3> HIDE DEF S
    <3> QED BY <1>2, <2>0, SeqSame
  <2> QED BY <2>1 DEF OpenOf
<1> QED BY <1>3, <1>4, <1>5

(* A step that touches one process only keeps the types and is local to it. *)
LEMMA TouchIsLocal ==
  ASSUME FlowInv, NEW p \in Procs, Touch(p)
  PROVE  FlowTypes' /\ Local({p})
<1>0. FlowTypes /\ Names
  BY DEF FlowInv
<1>t. /\ task \in Seq(TaskRec) /\ ran \in Seq(Seq(Nat)) /\ open \in Seq(SUBSET (WaitItems \union {"call-back"}))
      /\ Len(ran) = Len(task) /\ Len(open) = Len(task)
      /\ p \in DOMAIN task /\ p \in DOMAIN ran /\ p \in DOMAIN open
  BY <1>0 DEF FlowTypes, Procs
<1>1. /\ task' \in Seq(TaskRec) /\ DOMAIN task' = DOMAIN task /\ Len(task') = Len(task)
      /\ \A q \in Procs : q # p => task'[q] = task[q]
      /\ task'[p].wf = task[p].wf /\ task'[p].sq = task[p].sq /\ task'[p].sync = task[p].sync
  <2>1. PICK r \in TaskRec : /\ r.wf = task[p].wf /\ r.sq = task[p].sq /\ r.sync = task[p].sync
                             /\ task' = [task EXCEPT ![p] = r]
    BY DEF Touch, TaskOf
  <2> QED BY <2>1, <1>t, SeqPut DEF Procs
<1>2. /\ ran' \in Seq(Seq(Nat)) /\ Len(ran') = Len(ran)
      /\ \A q \in Procs : q # p => ran'[q] = ran[q]
  <2>1. PICK r \in Seq(Nat) : ran' = [ran EXCEPT ![p] = r]
    BY DEF Touch, RanOf
  <2>2. \A q \in Procs : q \in DOMAIN ran
    BY <1>t DEF Procs
  <2> QED BY <2>1, <2>2, <1>t, SeqPut
<1>3. /\ open' \in Seq(SUBSET (WaitItems \union {"call-back"})) /\ Len(open') = Len(open)
      /\ \A q \in Procs : q # p => open'[q] = open[q]
  <2> DEFINE S == SUBSET (WaitItems \union {"call-back"})
  <2>1. PICK r \in S : open' = [open EXCEPT ![p] = r]
    BY DEF Touch, OpenOf
  <2>2. \A q \in Procs : q \in DOMAIN open
    BY <1>t DEF Procs
  <2>3. open \in Seq(S)
    BY <1>t
  <2> HIDE DEF S
  <2>4. open' \in Seq(S) /\ Len(open') = Len(open) /\ \A q \in DOMAIN open : q # p => open'[q] = open[q]
    BY <2>1, <2>3, <1>t, SeqPut
  <2> QED BY <2>2, <2>4 DEF S
<1>4. /\ timers' \in {timers, timers \union {p}, timers \ {p}}
      /\ ended' \in {ended, ended \union {p}}
      /\ sync' = sync /\ gone' = gone /\ asked'.crashes = asked.crashes
      /\ merged' \in Seq(SUBSET Nat) /\ Len(merged') = Len(merged)
  BY DEF Touch, Calm
<1>5. queue' \in Seq(DbwRec)
  <2>1. queue \in Seq(DbwRec)
    BY <1>0 DEF FlowTypes
  <2>2. CASE queue' = queue
    BY <2>1, <2>2
  <2>3. CASE \E e \in DbwRec : e.p \in {p} /\ queue' = Append(queue, e)
    BY <2>1, <2>3
  <2>4. CASE queue # <<>> /\ queue' = Tail(queue)
    BY <2>1, <2>4
  <2> QED BY <2>2, <2>3, <2>4 DEF Touch, QueueOf
<1>6. calls' \subseteq DbwRec /\ CallsOf({p})
  <2>1. calls \subseteq DbwRec
    BY <1>0 DEF FlowTypes
  <2>2. CASE calls' = calls
    BY <2>1, <2>2 DEF CallsOf
  <2>3. CASE \E d \in DbwRec : d.p = p /\ calls' \in {calls \union {d}, calls \ {d}}
    <3>1. PICK d \in DbwRec : d.p = p /\ calls' \in {calls \union {d}, calls \ {d}}
      BY <2>3
    <3>2. \A e : e \in calls' => e \in calls \/ e = d
      BY <3>1
    <3>3. \A e : e \in calls => e \in calls' \/ e = d
      BY <3>1
    <3> QED BY <2>1, <3>1, <3>2, <3>3 DEF CallsOf
  <2> QED BY <2>2, <2>3 DEF Touch, CallsSet
<1>7. ctx' \in [FT -> CtxRec] /\ \A t \in FT : ctx'[t] = ctx[t] \/ CtxOf(t, {p})
  <2>1. ctx \in [FT -> CtxRec]
    BY <1>0 DEF FlowTypes
  <2>2. CASE ctx' = ctx
    BY <2>1, <2>2
  <2>3. CASE \E t \in FT, c \in CtxRec : ctx' = [ctx EXCEPT ![t] = c] /\ CtxOf(t, {p})
    <3>1. PICK t \in FT, c \in CtxRec : ctx' = [ctx EXCEPT ![t] = c] /\ CtxOf(t, {p})
      BY <2>3
    <3>2. ctx' \in [FT -> CtxRec]
      BY <2>1, <3>1
    <3>3. \A u \in FT : u # t => ctx'[u] = ctx[u]
      BY <2>1, <3>1
    <3> QED BY <3>1, <3>2, <3>3
  <2> QED BY <2>2, <2>3 DEF Touch, ThreadOf
<1>8. timers \subseteq Procs /\ ended \subseteq Procs /\ Procs' = Procs
  BY <1>0, <1>1 DEF FlowTypes, Procs
<1>9. timers' \subseteq Procs /\ ended' \subseteq Procs /\ ended \subseteq ended'
  BY <1>4, <1>8
<1>10. \A q \in Procs \ {p} : SameProcess(q)
  BY <1>1, <1>2, <1>3, <1>4 DEF SameProcess
<1>11. Frame({p})
  BY <1>1, <1>4, <1>8, <1>9, <1>10 DEF Frame, Procs
<1>12. FlowTypes'
  <2>1. gone' \in [procs : SUBSET (Procs'), syncs : SUBSET (DOMAIN (sync'))]
    BY <1>0, <1>4, <1>8 DEF FlowTypes
  <2>2. sync' \in Seq(SyncRec) /\ Len(merged') = Len(sync')
    BY <1>0, <1>4 DEF FlowTypes
  <2>3. asked' \in [roots : SUBSET Roots, aborts : Nat, repairs : Nat,
                 moves : Nat, removals : Nat, crashes : Nat]
    BY DEF Touch, Calm
  <2> QED
    BY <1>t, <1>1, <1>2, <1>3, <1>4, <1>5, <1>6, <1>7, <1>8, <1>9, <2>1, <2>2, <2>3 DEF FlowTypes
<1>13. Local({p})
  BY <1>6, <1>7, <1>11 DEF Local, Touch
<1> QED BY <1>12, <1>13

(* What is left to show for such a step. *)
LEMMA TouchStep ==
  ASSUME FlowInv, NEW p \in Procs, Touch(p), PInv(p)'
  PROVE  FlowInv'
<1>1. FlowTypes' /\ Local({p})
  BY TouchIsLocal
<1>2. Procs' = Procs
  BY <1>1 DEF Local, Frame, Procs
<1>3. \A q \in Procs' : PInv(q)'
  BY <1>1, <1>2, LocalPInv
<1>4. Names'
  BY <1>1, LocalNames
<1>5. Nested' /\ GoneBelow' /\ DecEnded'
  BY <1>1, LocalRows
<1>6. ForkOK'
  BY <1>1, LocalFork
<1>7. Counts'
  <2>1. sync' = sync
    BY DEF Touch, Calm
  <2>2. \A s \in DOMAIN sync : Counted(s)'
    BY <1>1, <2>1, LocalCounts
  <2> QED BY <2>1, <2>2 DEF Counts
<1> QED BY <1>1, <1>3, <1>4, <1>5, <1>6, <1>7 DEF FlowInv

-----------------------------------------------------------------------------
(* Where a process is, and where a step takes it. *)

(* Where a process is not. *)
Apart(p) == /\ open[p] = {} /\ p \notin timers /\ p \notin ended /\ ~ AwaitsChild(p)
            /\ \A t \in FT : ~ Coming(t, p)
Free(p) == Apart(p) /\ ~ Queued(p) /\ ~ Called(p)
Alone(t, p) == \A u \in FT : u # t => ~ OnWay(u, p)

(* The places of the two threads are different from the others. *)
LEMMA ThreadsAre ==
  /\ FT = {"worker", "loop"}
  /\ \A t \in FT : For(t) \notin {"queue", "call", "worker", "loop", "open", "timer", "children"}
BY DEF FT, For

(* A process on a thread is nowhere else. *)
LEMMA AtWork ==
  ASSUME FlowInv, NEW t \in FT, ctx[t].at \in {"run", "next", "end", "save"},
         NEW p, p = ctx[t].d.p
  PROVE  /\ p \in Procs /\ p \notin gone.procs /\ Free(p) /\ Alone(t, p)
         /\ ctx[t] \in CtxRec /\ ctx[t].d \in DbwRec
         /\ Walked(p)
         /\ ctx[t].at = "run" => About(ctx[t].d)
         /\ ctx[t].at # "run" => L(p) = Pos(p)
         /\ ctx[t].at \in {"end", "save"} => Pos(p) = Len(Steps(p))
<1>0. p \in Procs /\ PInv(p) /\ ctx[t] \in CtxRec
  BY DEF FlowInv, Names, FlowTypes
<1>1. ctx[t].d \in DbwRec
  BY <1>0 DEF CtxRec
<1>2. OnWay(t, p) /\ Busy(p)
  BY DEF OnWay, Busy
<1>3. PICK w \in Spots : Placed(w, p)
  BY <1>0 DEF PInv, InOnePlace
<1>4. w = t /\ t \in {"worker", "loop"}
  BY <1>2, <1>3 DEF Placed, FT
<1>5. ~ Forks(p)
  <2>1. Forks(p) => OnWay("worker", p) /\ ctx["worker"].at = "fork"
    BY DEF Forks, OnWay
  <2>2. Forks(p) => t = "worker"
    BY <2>1, <1>3, <1>4 DEF Placed, FT
  <2> QED BY <2>1, <2>2
<1>6. ~ AwaitsChild(p)
  BY <1>3, <1>4, <1>5 DEF Placed
<1>7. ~ Queued(p) /\ ~ Called(p) /\ open[p] = {} /\ p \notin timers
  BY <1>3, <1>4 DEF Placed
<1>8. \A u \in FT : ~ Coming(u, p)
  BY <1>3, <1>4, ThreadsAre DEF Placed
<1>9. Alone(t, p)
  BY <1>3, <1>4 DEF Placed, Alone
<1>10. p \notin gone.procs
  BY <1>0, <1>2 DEF PInv, GoneRests
<1>11. p \notin ended
  BY <1>0, <1>2 DEF PInv, EndedRests
<1>12. Free(p)
  BY <1>6, <1>7, <1>8, <1>11 DEF Free, Apart
<1>13. InStep(p)
  BY <1>0 DEF PInv
<1>14. Walked(p)
  BY <1>13 DEF InStep
<1>15. ctx[t].at = "run" => About(ctx[t].d)
  BY <1>13 DEF InStep, Loaded
<1>16. ctx[t].at # "run" => L(p) = Pos(p)
  <2>1. ctx[t].at # "run" => Late(p)
    BY DEF Late
  <2> QED BY <2>1, <1>13 DEF InStep
<1>17. ctx[t].at \in {"end", "save"} => Pos(p) = Len(Steps(p))
  <2>1. ctx[t].at \in {"end", "save"} => AtEnd(p)
    BY DEF AtEnd
  <2> QED BY <2>1, <1>13 DEF InStep
<1> QED BY <1>0, <1>1, <1>9, <1>10, <1>12, <1>14, <1>15, <1>16, <1>17

(* A process that is queued, called, open or sleeping is nowhere else. *)
LEMMA AtPlace ==
  ASSUME FlowInv, NEW p \in Procs
  PROVE  /\ Queued(p) => Apart(p) /\ ~ Called(p) /\ \A u \in FT : ~ OnWay(u, p)
         /\ Called(p) => Apart(p) /\ ~ Queued(p) /\ \A u \in FT : ~ OnWay(u, p)
         /\ open[p] # {} \/ p \in timers =>
              /\ ~ Queued(p) /\ ~ Called(p) /\ ~ AwaitsChild(p) /\ p \notin ended
              /\ \A u \in FT : ~ OnWay(u, p) /\ ~ Coming(u, p)
              /\ p \in timers => open[p] = {}
<1>0. PInv(p)
  BY DEF FlowInv
<1>1. PICK w \in Spots : Placed(w, p)
  BY <1>0 DEF PInv, InOnePlace
<1>2. Forks(p) => w = "worker"
  BY <1>1 DEF Placed, Forks, OnWay, FT
<1>3. AwaitsChild(p) => w \in {"children", "worker"}
  BY <1>1, <1>2 DEF Placed
<1>4. ASSUME Queued(p) PROVE Apart(p) /\ ~ Called(p) /\ \A u \in FT : ~ OnWay(u, p)
  <2>1. w = "queue"
    BY <1>1, <1>4 DEF Placed
  <2>2. ~ Called(p) /\ (\A u \in FT : ~ OnWay(u, p)) /\ ~ AwaitsChild(p) /\ open[p] = {} /\ p \notin timers
    BY <1>1, <1>3, <2>1 DEF Placed, FT
  <2>3. \A u \in FT : ~ Coming(u, p)
    BY <1>1, <2>1, ThreadsAre DEF Placed
  <2>4. p \notin ended
    BY <1>0, <1>4 DEF PInv, EndedRests
  <2> QED BY <2>2, <2>3, <2>4 DEF Apart
<1>5. ASSUME Called(p) PROVE Apart(p) /\ ~ Queued(p) /\ \A u \in FT : ~ OnWay(u, p)
  <2>1. w = "call"
    BY <1>1, <1>5 DEF Placed
  <2>2. ~ Queued(p) /\ (\A u \in FT : ~ OnWay(u, p)) /\ ~ AwaitsChild(p) /\ open[p] = {} /\ p \notin timers
    BY <1>1, <1>3, <2>1 DEF Placed, FT
  <2>3. \A u \in FT : ~ Coming(u, p)
    BY <1>1, <2>1, ThreadsAre DEF Placed
  <2>4. p \notin ended
    BY <1>0, <1>5 DEF PInv, EndedRests
  <2> QED BY <2>2, <2>3, <2>4 DEF Apart
<1>6. ASSUME open[p] # {} \/ p \in timers
      PROVE  /\ ~ Queued(p) /\ ~ Called(p) /\ ~ AwaitsChild(p) /\ p \notin ended
             /\ \A u \in FT : ~ OnWay(u, p) /\ ~ Coming(u, p)
             /\ p \in timers => open[p] = {}
  <2>1. w \in {"open", "timer"} /\ (p \in timers => w = "timer")
    BY <1>1, <1>6 DEF Placed
  <2>2. /\ ~ Queued(p) /\ ~ Called(p) /\ (\A u \in FT : ~ OnWay(u, p)) /\ ~ AwaitsChild(p)
        /\ p \in timers => open[p] = {}
    BY <1>1, <1>3, <2>1 DEF Placed, FT
  <2>3. \A u \in FT : ~ Coming(u, p)
    BY <1>1, <2>1, ThreadsAre DEF Placed
  <2>4. p \notin ended
    BY <1>0, <1>6 DEF PInv, EndedRests
  <2> QED BY <2>2, <2>3, <2>4
<1> QED BY <1>4, <1>5, <1>6

(* What a step leaves as it is. *)
LEMMA ComingStays ==
  ASSUME FlowInv, NEW A, Local(A), NEW p, NEW t \in FT, ctx'[t] = ctx[t] \/ ctx'[t].at # "parent"
  PROVE  Coming(t, p)' => Coming(t, p)
<1>1. CASE ctx'[t] = ctx[t]
  <2>1. ctx[t].at = "parent" => task'[ctx[t].d.p].sync = task[ctx[t].d.p].sync
    BY DEF Local, Frame, FlowInv, Names
  <2> QED BY <1>1, <2>1, LocalRow DEF Coming, Local
<1>2. CASE ctx'[t].at # "parent"
  BY <1>2 DEF Coming
<1> QED BY <1>1, <1>2

LEMMA ApartStays ==
  ASSUME FlowInv, NEW A, Local(A), NEW p, Apart(p),
         \A t \in FT : ctx'[t] = ctx[t] \/ ctx'[t].at # "parent",
         open'[p] = {}, p \notin timers', p \notin ended'
  PROVE  Apart(p)'
<1>1. \A t \in FT : ~ Coming(t, p)'
  BY ComingStays DEF Apart
<1>2. FlowTypes
  BY DEF FlowInv
<1>3. ~ AwaitsChild(p)'
  BY <1>2, LocalAwaited DEF Apart
<1> QED BY <1>1, <1>3 DEF Apart

(* ... and where it takes a process: to a thread, *)
LEMMA ToThread ==
  ASSUME NEW p \in Procs, p \notin gone'.procs, Free(p)', NEW t \in FT, Alone(t, p)',
         ctx'[t].d.p = p, ctx'[t].at \in {"run", "next", "end", "save"},
         Walked(p)', OneRow(p)',
         ctx'[t].at = "run" => About(ctx[t].d)',
         t = "loop" /\ ctx'[t].at = "run" => LoopRuns(p)',
         ctx'[t].at # "run" => L(p)' = Pos(p)',
         ctx'[t].at \in {"end", "save"} => Pos(p)' = Len(Steps(p))'
  PROVE  PInv(p)'
<1>0. t \in {"worker", "loop"}
  BY DEF FT
<1>1. /\ ~ Queued(p)' /\ ~ Called(p)' /\ open'[p] = {} /\ p \notin timers' /\ p \notin ended' /\ ~ AwaitsChild(p)'
      /\ \A u \in FT : ~ Coming(u, p)'
  BY DEF Free, Apart
<1>2. \A u \in FT : OnWay(u, p)' => u = t
  BY DEF Alone
<1>3. \A u \in FT : ctx'[u].d.p = p /\ ctx'[u].at \in {"run", "fork", "next", "end", "save", "dec"} => u = t
  BY <1>2 DEF OnWay
<1>4. ~ Forks(p)'
  BY <1>3 DEF Forks, FT
<1>5. InOnePlace(p)'
  <2>1. Placed(t, p)'
    BY <1>1, <1>2 DEF Placed
  <2> QED BY <2>1, <1>0 DEF InOnePlace, Spots
<1>6. OneDbw(p)'
  BY <1>1 DEF OneDbw, Queued, Called
<1>7. GoneRests(p)' /\ EndedRests(p)'
  BY <1>1 DEF GoneRests, EndedRests
<1>8. Loaded(p)'
  <2>1. \A i \in DOMAIN queue' : queue'[i].p # p
    BY <1>1 DEF Queued
  <2>2. \A u \in FT : ctx'[u].at = "run" /\ ctx'[u].d.p = p => u = t
    BY <1>3
  <2>3. ASSUME NEW u \in FT, ctx'[u].at = "run" /\ ctx'[u].d.p = p PROVE About(ctx[u].d)'
    <3>1. u = t
      BY <2>2, <2>3
    <3> QED BY <3>1, <2>3
  <2> QED BY <2>1, <2>3 DEF Loaded
<1>9. LoopRuns(p)'
  <2>1. CASE t = "loop" /\ ctx'[t].at = "run"
    BY <2>1
  <2>2. CASE ~ (t = "loop" /\ ctx'[t].at = "run")
    <3>1. ~ (ctx'["loop"].at = "run" /\ ctx'["loop"].d.p = p)
      BY <2>2, <1>3 DEF FT
    <3> QED BY <3>1 DEF LoopRuns
  <2> QED BY <2>1, <2>2
<1>10. ~ Parental(p)'
  BY <1>1 DEF Parental
<1>11. Late(p)' => ctx'[t].at # "run"
  BY <1>1, <1>3, <1>10 DEF Late
<1>12. AtEnd(p)' => ctx'[t].at \in {"end", "save"}
  BY <1>1, <1>3 DEF AtEnd
<1>13. ~ Resting(p)'
  BY DEF Resting, OnWay
<1>14. InStep(p)'
  BY <1>4, <1>8, <1>9, <1>10, <1>11, <1>12, <1>13 DEF InStep
<1> QED BY <1>5, <1>6, <1>7, <1>14 DEF PInv

(* to the queue, *)
LEMMA ToQueue ==
  ASSUME NEW p \in Procs, p \notin gone'.procs, Apart(p)', ~ Called(p)', Alone("none", p)',
         NEW e \in DbwRec, e.p = p, queue \in Seq(DbwRec), ~ Queued(p), queue' = Append(queue, e),
         Walked(p)', OneRow(p)', About(e)'
  PROVE  PInv(p)'
<1>1. /\ ~ Called(p)' /\ open'[p] = {} /\ p \notin timers' /\ p \notin ended' /\ ~ AwaitsChild(p)'
      /\ \A u \in FT : ~ Coming(u, p)'
  BY DEF Apart
<1>2. \A u \in FT : ~ OnWay(u, p)'
  BY DEF Alone, FT
<1>3. \A u \in FT : ~ (ctx'[u].d.p = p /\ ctx'[u].at \in {"run", "fork", "next", "end", "save", "dec"})
  BY <1>2 DEF OnWay
<1>4. ~ Forks(p)'
  BY <1>3 DEF Forks, FT
<1>5. InOnePlace(p)'
  <2>1. Placed("queue", p)'
    BY <1>1, <1>2 DEF Placed
  <2> QED BY <2>1 DEF InOnePlace, Spots
<1>q. /\ DOMAIN queue' = 1 .. Len(queue) + 1 /\ queue'[Len(queue) + 1] = e /\ Len(queue) \in Nat
      /\ \A i \in DOMAIN queue' : queue'[i].p = p => i = Len(queue) + 1
  <2>1. \A i \in 1 .. Len(queue) : queue[i].p # p
    BY DEF Queued
  <2> QED BY <2>1
<1>6. OneDbw(p)'
  BY <1>1, <1>q DEF OneDbw, Called
<1>7. GoneRests(p)' /\ EndedRests(p)'
  BY <1>1 DEF GoneRests, EndedRests
<1>8. Loaded(p)'
  <2>1. ASSUME NEW i \in DOMAIN queue', queue'[i].p = p PROVE About(queue[i])'
    <3>1. queue'[i] = e
      BY <1>q, <2>1
    <3> QED BY <3>1 DEF About
  <2> QED BY <2>1, <1>3 DEF Loaded
<1>9. LoopRuns(p)'
  BY <1>3 DEF LoopRuns, FT
<1>10. ~ Parental(p)'
  BY <1>1 DEF Parental
<1>11. ~ Late(p)'
  BY <1>1, <1>3, <1>10 DEF Late
<1>12. ~ AtEnd(p)'
  BY <1>1, <1>3 DEF AtEnd
<1>13. Queued(p)'
  BY <1>q DEF Queued
<1>14. ~ Resting(p)'
  BY <1>13 DEF Resting
<1>15. InStep(p)'
  BY <1>4, <1>8, <1>9, <1>10, <1>11, <1>12, <1>14 DEF InStep
<1> QED BY <1>5, <1>6, <1>7, <1>15 DEF PInv

(* or to wait for something. *)
LEMMA ToRest ==
  ASSUME NEW p \in Procs, p \notin gone'.procs, NEW w \in Spots, Placed(w, p)',
         p \notin ended', ~ Queued(p)', Alone("none", p)',
         Parental(p)' => task'[p].state \in {"halt", "aborted"},
         \A d, e \in calls' : d.p = p /\ e.p = p => d = e,
         Walked(p)', OneRow(p)', L(p)' = Pos(p)'
  PROVE  PInv(p)'
<1>1. \A u \in FT : ~ OnWay(u, p)'
  BY DEF Alone, FT
<1>2. \A u \in FT : ~ (ctx'[u].d.p = p /\ ctx'[u].at \in {"run", "fork", "next", "end", "save", "dec"})
  BY <1>1 DEF OnWay
<1>3. InOnePlace(p)'
  BY DEF InOnePlace
<1>4. \A i \in DOMAIN queue' : queue'[i].p # p
  BY DEF Queued
<1>5. OneDbw(p)'
  BY <1>4 DEF OneDbw
<1>6. GoneRests(p)' /\ EndedRests(p)'
  BY DEF GoneRests, EndedRests
<1>7. Loaded(p)' /\ LoopRuns(p)' /\ ~ Forks(p)'
  BY <1>2, <1>4 DEF Loaded, LoopRuns, Forks, FT
<1>8. ~ AtEnd(p)'
  BY <1>2 DEF AtEnd
<1>9. InStep(p)'
  BY <1>7, <1>8 DEF InStep
<1> QED BY <1>3, <1>5, <1>6, <1>9 DEF PInv

-----------------------------------------------------------------------------
(* Steps on a thread.  XStep states that the action X keeps the invariant. *)

(* What a step leaves that writes the state or the step of one row. *)
LEMMA CalmStays ==
  ASSUME FlowInv, UNCHANGED <<sync, gone, merged, asked>>
  PROVE  Calm
BY DEF FlowInv, FlowTypes, Calm

LEMMA StateSet ==
  ASSUME FlowInv, NEW p \in Procs, NEW st \in States, SetState(p, st)
  PROVE  /\ TaskOf(p)
         /\ p \notin gone.procs => task'[p].state = st
         /\ p \in gone.procs => task' = task
         /\ task'[p].pos = task[p].pos /\ Steps(p)' = Steps(p)
<1>0. FlowTypes /\ task \in Seq(TaskRec) /\ p \in DOMAIN task
  BY DEF FlowInv, FlowTypes, Procs
<1>1. CASE p \in gone.procs
  <2>1. task' = task
    BY <1>1 DEF SetState, Live
  <2> QED BY <2>1, <1>0, <1>1, TouchRows DEF Steps
<1>2. CASE p \notin gone.procs
  <2>1. PICK r : r = [task[p] EXCEPT !.state = st]
    OBVIOUS
  <2>2. task' = [task EXCEPT ![p] = r]
    BY <1>2, <2>1, PutState DEF SetState, Live
  <2>3. task[p] \in TaskRec
    BY <1>0
  <2>4. r \in TaskRec /\ r.wf = task[p].wf /\ r.sq = task[p].sq /\ r.sync = task[p].sync /\ r.pos = task[p].pos /\ r.state = st
    BY <2>1, <2>3, RecState
  <2>5. task'[p] = r
    BY <1>0, <2>2, <2>4, SeqPut
  <2>6. TaskOf(p)
    BY <2>2, <2>4 DEF TaskOf
  <2> QED BY <2>4, <2>5, <2>6, <1>2 DEF Steps
<1> QED BY <1>1, <1>2

LEMMA BecomeOf ==
  ASSUME FlowInv, NEW t \in FT, NEW c \in CtxRec, Become(t, c), NEW p,
         ctx[t].at # "parent", ctx[t].at # "idle" => ctx[t].d.p = p,
         c.at # "idle" => c.d.p = p, c.at \notin {"parent", "dec", "fork"}
  PROVE  /\ ThreadOf(p) /\ ctx'[t] = c /\ \A u \in FT : u # t => ctx'[u] = ctx[u]
         /\ \A u \in FT : ctx'[u] = ctx[u] \/ ctx'[u].at # "parent"
<1>1. ctx \in [FT -> CtxRec]
  BY DEF FlowInv, FlowTypes
<1>2. ctx' = [ctx EXCEPT ![t] = c]
  BY DEF Become
<1>3. ctx'[t] = c /\ \A u \in FT : u # t => ctx'[u] = ctx[u]
  BY <1>1, <1>2
<1>4. CtxOf(t, {p})
  BY <1>3 DEF CtxOf
<1> QED BY <1>2, <1>3, <1>4 DEF ThreadOf

LEMMA RanStep ==
  ASSUME FlowInv, NEW d \in DbwRec, NEW p \in Procs, d.p = p, About(d), d.st = "none", Walked(p),
         Ran(d), task'[p].pos = task[p].pos, Steps(p)' = Steps(p)
  PROVE  RanOf(p) /\ L(p)' = Pos(p)' /\ Walked(p)'
<1>1. ran \in Seq(Seq(Nat)) /\ p \in DOMAIN ran
  BY DEF FlowInv, FlowTypes, Procs
<1>2. PICK r \in Seq(Nat) : r = ran[p]
  BY <1>1
<1>3. PICK n \in Nat : n = Pos(p) /\ n > 0
  <2>1. Pos(p) \in 1 .. Len(Steps(p))
    BY DEF Walked
  <2> QED BY <2>1
<1>4. d.k = n /\ Len(r) = n - 1
  BY <1>2, <1>3 DEF About, L
<1>5. ran' = [ran EXCEPT ![p] = Append(r, n)]
  BY <1>2, <1>4 DEF Ran
<1>6. Append(r, n) \in Seq(Nat)
  BY <1>2
<1>7. ran'[p] = Append(r, n)
  BY <1>1, <1>5, <1>6, SeqPut
<1>8. r = [i \in 1 .. n - 1 |-> i]
  BY <1>2, <1>4 DEF Walked, L
<1>9. Append(r, n) = [i \in 1 .. n |-> i] /\ Len(Append(r, n)) = n
  BY <1>3, <1>4, <1>8
<1>10. L(p)' = n /\ Pos(p)' = n
  BY <1>3, <1>7, <1>9 DEF L, Pos
<1>11. Walked(p)'
  <2>1. Pos(p)' \in 1 .. Len(Steps(p))'
    BY <1>10, <1>3 DEF Walked
  <2> QED BY <2>1, <1>7, <1>9, <1>10 DEF Walked
<1> QED BY <1>5, <1>6, <1>10, <1>11 DEF RanOf

LEMMA WalkedStays ==
  ASSUME NEW p \in Procs, Walked(p), ran'[p] = ran[p], task'[p].pos = task[p].pos, Steps(p)' = Steps(p)
  PROVE  Walked(p)' /\ L(p)' = L(p) /\ Pos(p)' = Pos(p)
BY DEF Walked, L, Pos

LEMMA FreeStays ==
  ASSUME FlowInv, NEW p \in Procs, Local({p}), Free(p), queue' = queue,
         \A t \in FT : ctx'[t] = ctx[t] \/ ctx'[t].at # "parent"
  PROVE  /\ ~ Queued(p)'
         /\ calls' = calls => ~ Called(p)'
         /\ open' = open /\ timers' = timers /\ ended' = ended => Apart(p)'
         /\ calls' = calls /\ open' = open /\ timers' = timers /\ ended' = ended => Free(p)'
         /\ ~ Parental(p)'
         /\ \A t \in FT : ~ Coming(t, p)'
         /\ ~ AwaitsChild(p)'
<1>1. ~ Queued(p)' /\ (calls' = calls => ~ Called(p)')
  BY DEF Free, Queued, Called
<1>2. open' = open /\ timers' = timers /\ ended' = ended => Apart(p)'
  <2>1. Apart(p)
    BY DEF Free
  <2> QED BY <2>1, ApartStays DEF Apart
<1>3. \A t \in FT : ~ Coming(t, p)'
  BY ComingStays DEF Free, Apart
<1>4. FlowTypes
  BY DEF FlowInv
<1>5. ~ AwaitsChild(p)'
  BY <1>4, LocalAwaited DEF Free, Apart
<1> QED BY <1>1, <1>2, <1>3, <1>5 DEF Free, Parental

LEMMA AloneStays ==
  ASSUME NEW t \in FT, NEW p, Alone(t, p), \A u \in FT : u # t => ctx'[u] = ctx[u]
  PROVE  Alone(t, p)' /\ (ctx'[t].at \in {"idle", "halt", "parent"} => Alone("none", p)')
<1>1. Alone(t, p)'
  BY DEF Alone, OnWay
<1>2. ctx'[t].at \in {"idle", "halt", "parent"} => Alone("none", p)'
  BY <1>1 DEF Alone, OnWay
<1> QED BY <1>1, <1>2

LEMMA DoneCtx ==
  ASSUME FlowInv, NEW t \in FT, NEW d \in DbwRec, d = ctx[t].d, NEW p, p = d.p, ctx[t].at = "run", StepDone(t)
  PROVE  ThreadOf(p) /\ \E c \in CtxRec : Become(t, c) /\ ((c.at = "next" /\ c.d.p = p) \/ c.at = "idle")
<1>1. PICK e : e = [d EXCEPT !.st = "done"]
  OBVIOUS
<1>2. e \in DbwRec /\ e.p = p
  BY <1>1, DbwDone DEF States
<1>3. PICK c : c = IF t = "worker" THEN Doing("next", e) ELSE IdleCtx
  OBVIOUS
<1>4. Become(t, c)
  BY <1>1, <1>3 DEF StepDone
<1>5. "next" \in Places
  BY DEF Places
<1>6. Doing("next", e) \in CtxRec /\ Doing("next", e).at = "next" /\ Doing("next", e).d = e
  BY <1>2, <1>5, DoingType
<1>7. c \in CtxRec /\ ((c.at = "next" /\ c.d.p = p) \/ c.at = "idle")
  BY <1>2, <1>3, <1>6, IdleType
<1>8. c.at \notin {"parent", "dec", "fork"} /\ (c.at # "idle" => c.d.p = p)
  BY <1>7
<1>9. ThreadOf(p)
  BY <1>4, <1>7, <1>8, BecomeOf
<1> QED BY <1>4, <1>7, <1>9

(* The step is done: the process goes on, or rests on the loop thread. *)
LEMMA DoneStep ==
  ASSUME FlowInv, NEW t \in FT, NEW d, d = ctx[t].d, NEW p, p = d.p, ctx[t].at = "run",
         StepDone(t), Touch(p), Walked(p)', L(p)' = Pos(p)',
         UNCHANGED <<open, timers, queue, calls, ended>>
  PROVE  FlowInv'
<1>1. /\ p \in Procs /\ p \notin gone.procs /\ Free(p) /\ Alone(t, p) /\ d \in DbwRec
  BY AtWork
<1>2. Local({p})
  BY <1>1, TouchIsLocal
<1>5. PICK c \in CtxRec : Become(t, c) /\ ((c.at = "next" /\ c.d.p = p) \/ c.at = "idle")
  BY <1>1, DoneCtx
<1>6. ctx'[t] = c /\ (\A u \in FT : u # t => ctx'[u] = ctx[u]) /\ \A u \in FT : ctx'[u] = ctx[u] \/ ctx'[u].at # "parent"
  BY <1>5, BecomeOf
<1>7. Free(p)' /\ ~ Parental(p)'
  BY <1>1, <1>2, <1>6, FreeStays
<1>8. OneRow(p)' /\ p \notin gone'.procs
  BY <1>1, <1>2, LocalRows DEF Touch, Calm
<1>9. CASE c.at = "next" /\ c.d.p = p
  <2>1. Alone(t, p)'
    BY <1>1, <1>6, AloneStays
  <2>2. PInv(p)'
    BY <1>1, <1>6, <1>7, <1>8, <1>9, <2>1, ToThread
  <2> QED BY <2>2, <1>1, TouchStep
<1>10. CASE c.at = "idle"
  <2>1. Alone("none", p)'
    BY <1>1, <1>6, <1>10, AloneStays
  <2>2. Placed("call", p)'
    BY <1>7, <2>1 DEF Placed, Free, Apart, Alone, FT
  <2>3. \A x, y \in calls' : x.p = p /\ y.p = p => x = y
    BY <1>7 DEF Free, Called
  <2>4. PInv(p)'
    BY <1>1, <1>7, <1>8, <2>1, <2>2, <2>3, ToRest DEF Spots, Free, Apart
  <2> QED BY <2>4, <1>1, TouchStep
<1> QED BY <1>5, <1>9, <1>10

(* The kinds of steps. *)
LEMMA RunPlainStep ==
  ASSUME FlowInv, NEW t \in FT, RunPlain(t)
  PROVE  FlowInv'
<1>1. PICK d : d = ctx[t].d
  OBVIOUS
<1>2. PICK p : p = d.p
  OBVIOUS
<1>3. ctx[t].at = "run" /\ d.st = "none"
  BY <1>1 DEF RunPlain, Running
<1>4. p \in Procs /\ Free(p) /\ d \in DbwRec /\ Walked(p) /\ About(d)
  BY <1>1, <1>2, <1>3, AtWork
<1>5. SetState(p, "done") /\ Ran(d) /\ StepDone(t)
  BY <1>1, <1>2 DEF RunPlain, StepDone
<1>6. TaskOf(p) /\ task'[p].pos = task[p].pos /\ Steps(p)' = Steps(p)
  BY <1>4, <1>5, StateSet DEF States
<1>7. RanOf(p) /\ L(p)' = Pos(p)' /\ Walked(p)'
  BY <1>2, <1>3, <1>4, <1>5, <1>6, RanStep
<1>8. Touch(p)
  <2>1. OpenOf(p)
    BY <1>4, TouchRows DEF FlowInv, RunPlain
  <2>2. Calm
    BY CalmStays DEF RunPlain
  <2>3. QueueOf({p}) /\ CallsSet(p) /\ timers' = timers /\ ended' = ended
    BY DEF RunPlain, QueueOf, CallsSet
  <2>4. ThreadOf(p)
    BY <1>1, <1>2, <1>3, <1>4, <1>5, DoneCtx
  <2> QED BY <1>6, <1>7, <2>1, <2>2, <2>3, <2>4 DEF Touch
<1> QED BY <1>1, <1>2, <1>3, <1>5, <1>7, <1>8, DoneStep DEF RunPlain

(* Only the state of the row changes. *)
LEMMA StateOnly ==
  ASSUME FlowInv, NEW p \in Procs, Touch(p),
         queue' = queue, calls' = calls, p \in timers' => p \in timers, ended' = ended,
         open'[p] = {} <=> open[p] = {}, ran'[p] = ran[p],
         task'[p].pos = task[p].pos, Steps(p)' = Steps(p),
         \A u \in FT : ctx'[u] = ctx[u] \/ (ctx[u].at = "halt" /\ ctx'[u].at = "idle"),
         Parental(p) \/ Forks(p) => task'[p].state \in {"halt", "aborted"},
         task'[p].state \in {"done", "error"} => L(p) = Pos(p)
  PROVE  FlowInv'
<1>0. PInv(p) /\ Local({p}) /\ FlowTypes
  BY TouchIsLocal DEF FlowInv
<1>1. \A q : (Queued(q)' <=> Queued(q)) /\ (Called(q)' <=> Called(q))
  BY DEF Queued, Called
<1>2. \A u \in FT : ctx'[u].at \notin {"idle", "halt"} => ctx'[u] = ctx[u]
  OBVIOUS
<1>3. \A u \in FT : ctx[u].at \notin {"idle", "halt"} => ctx'[u] = ctx[u]
  OBVIOUS
<1>4. \A u \in FT : OnWay(u, p)' <=> OnWay(u, p)
  BY <1>2, <1>3 DEF OnWay
<1>5. \A u \in FT : Coming(u, p)' => Coming(u, p)
  BY <1>0, ComingStays
<1>6. AwaitsChild(p)' => AwaitsChild(p)
  BY <1>0, LocalAwaited
<1>7. Forks(p)' <=> Forks(p)
  BY <1>2, <1>3 DEF Forks, FT
<1>8. InOnePlace(p)'
  <2>1. PICK w \in Spots : Placed(w, p)
    BY <1>0 DEF PInv, InOnePlace
  <2>2. Placed(w, p)'
    BY <2>1, <1>1, <1>4, <1>5, <1>6, <1>7 DEF Placed
  <2> QED BY <2>2 DEF InOnePlace
<1>9. OneDbw(p)'
  BY <1>0 DEF OneDbw, PInv
<1>10. GoneRests(p)'
  <2>1. Busy(p)' => Busy(p)
    BY DEF Busy
  <2> QED BY <1>0, <1>1, <2>1 DEF PInv, GoneRests, Local, Frame
<1>11. EndedRests(p)'
  <2>1. \A u \in FT : OnWay(u, p)' => ctx'[u] = ctx[u]
    BY <1>2 DEF OnWay
  <2> QED BY <1>0, <1>1, <1>4, <1>5, <1>6, <2>1 DEF PInv, EndedRests
<1>12. OneRow(p)'
  BY <1>0, LocalRows
<1>13. InStep(p)'
  <2>0. InStep(p)
    BY <1>0 DEF PInv
  <2>1. Walked(p)' /\ L(p)' = L(p) /\ Pos(p)' = Pos(p)
    BY <2>0, WalkedStays DEF InStep
  <2>2. \A d : d.p = p => (About(d)' <=> About(d))
    BY <2>1 DEF About
  <2>3. ASSUME NEW j \in DOMAIN queue', queue'[j].p = p PROVE About(queue[j])'
    <3>1. PICK d : d = queue[j]
      OBVIOUS
    <3>2. About(d) /\ d.p = p
      BY <3>1, <2>3, <2>0 DEF InStep, Loaded
    <3>3. About(d)' /\ d = queue'[j]
      BY <3>1, <3>2, <2>2
    <3> QED BY <3>3 DEF About
  <2>4. ASSUME NEW u \in FT, ctx'[u].at = "run", ctx'[u].d.p = p PROVE About(ctx[u].d)'
    <3>1. ctx'[u] = ctx[u]
      BY <2>4, <1>2
    <3>2. PICK d : d = ctx[u].d
      OBVIOUS
    <3>3. About(d)
      BY <3>1, <3>2, <2>4, <2>0 DEF InStep, Loaded
    <3>4. About(d)' /\ d = ctx'[u].d
      BY <3>1, <3>2, <3>3, <2>2, <2>4
    <3> QED BY <3>4 DEF About
  <2>5. Loaded(p)'
    BY <2>3, <2>4 DEF Loaded
  <2>6. LoopRuns(p)'
    <3>1. ctx'["loop"].at = "run" /\ ctx'["loop"].d.p = p => ctx'["loop"] = ctx["loop"]
      BY <1>2 DEF FT
    <3> QED BY <3>1, <2>0, <2>1 DEF LoopRuns, InStep
  <2>7. Parental(p)' => Parental(p)
    BY <1>5, <1>6 DEF Parental
  <2>8. \A u \in FT : ctx'[u].d.p = p /\ ctx'[u].at \in {"fork", "next", "end", "save", "dec"} => ctx'[u] = ctx[u]
    BY <1>2
  <2>9. Late(p)' => Late(p)
    BY <1>1, <2>7, <2>8 DEF Late
  <2>10. AtEnd(p)' => AtEnd(p)
    BY <2>8 DEF AtEnd
  <2>11. Forks(p)' => ctx'["worker"].d = ctx["worker"].d /\ Forks(p)
    <3>1. Forks(p)' => ctx'["worker"] = ctx["worker"]
      BY <1>2 DEF Forks, FT
    <3> QED BY <3>1, <1>7
  <2> QED
    BY <2>0, <2>1, <2>5, <2>6, <2>7, <2>9, <2>10, <2>11 DEF InStep
<1>14. PInv(p)'
  BY <1>8, <1>9, <1>10, <1>11, <1>12, <1>13 DEF PInv
<1> QED BY <1>14, TouchStep

LEMMA HaltStep ==
  ASSUME FlowInv, NEW t \in FT, Halt(t)
  PROVE  FlowInv'
<1>1. PICK p : p = ctx[t].d.p
  OBVIOUS
<1>2. p \in Procs /\ p \notin gone.procs /\ PInv(p)
  <2>1. p \in Procs
    BY <1>1 DEF Halt, FlowInv, Names
  <2>2. Busy(p)
    BY <1>1 DEF Halt, Busy
  <2> QED BY <2>1, <2>2 DEF FlowInv, PInv, GoneRests
<1>3. SetState(p, "halt") /\ Become(t, IdleCtx) /\ ctx[t].at = "halt"
  BY <1>1 DEF Halt
<1>4. TaskOf(p) /\ task'[p].pos = task[p].pos /\ Steps(p)' = Steps(p) /\ task'[p].state = "halt"
  BY <1>2, <1>3, StateSet DEF States
<1>5. ThreadOf(p) /\ ctx'[t] = IdleCtx /\ \A u \in FT : u # t => ctx'[u] = ctx[u]
  BY <1>1, <1>3, IdleType, BecomeOf
<1>6. Touch(p)
  <2>1. OpenOf(p) /\ RanOf(p)
    BY <1>2, TouchRows DEF FlowInv, Halt
  <2>2. Calm
    BY CalmStays DEF Halt
  <2>3. QueueOf({p}) /\ CallsSet(p) /\ timers' = timers /\ ended' = ended
    BY DEF Halt, QueueOf, CallsSet
  <2> QED BY <1>4, <1>5, <2>1, <2>2, <2>3 DEF Touch
<1>7. \A u \in FT : ctx'[u] = ctx[u] \/ (ctx[u].at = "halt" /\ ctx'[u].at = "idle")
  BY <1>3, <1>5, IdleType
<1> QED BY <1>2, <1>4, <1>6, <1>7, StateOnly DEF Halt

LEMMA RunCallStep ==
  ASSUME FlowInv, NEW t \in FT, RunCall(t)
  PROVE  FlowInv'
<1>1. PICK d : d = ctx[t].d
  OBVIOUS
<1>2. PICK p : p = d.p
  OBVIOUS
<1>3. ctx[t].at = "run" /\ d.st = "none"
  BY <1>1 DEF RunCall, Running
<1>4. p \in Procs /\ p \notin gone.procs /\ Free(p) /\ d \in DbwRec /\ Walked(p) /\ About(d) /\ Alone(t, p)
  BY <1>1, <1>2, <1>3, AtWork
<1>5. Ran(d) /\ Become(t, IdleCtx) /\ calls' = calls \union {d}
  BY <1>1 DEF RunCall
<1>6. task' = task /\ Steps(p)' = Steps(p)
  BY DEF RunCall, Steps
<1>7. RanOf(p) /\ L(p)' = Pos(p)' /\ Walked(p)'
  BY <1>2, <1>3, <1>4, <1>5, <1>6, RanStep
<1>8. ThreadOf(p) /\ ctx'[t] = IdleCtx /\ (\A u \in FT : u # t => ctx'[u] = ctx[u]) /\ \A u \in FT : ctx'[u] = ctx[u] \/ ctx'[u].at # "parent"
  BY <1>1, <1>2, <1>3, <1>5, IdleType, BecomeOf
<1>9. Touch(p)
  <2>1. OpenOf(p) /\ TaskOf(p)
    BY <1>4, <1>6, TouchRows DEF FlowInv, RunCall
  <2>2. Calm
    BY CalmStays DEF RunCall
  <2>3. QueueOf({p}) /\ CallsSet(p) /\ timers' = timers /\ ended' = ended
    BY <1>2, <1>4, <1>5 DEF RunCall, QueueOf, CallsSet
  <2> QED BY <1>7, <1>8, <2>1, <2>2, <2>3 DEF Touch
<1>10. Local({p})
  BY <1>4, <1>9, TouchIsLocal
<1>11. /\ ~ Queued(p)' /\ ~ Parental(p)' /\ (\A u \in FT : ~ Coming(u, p)') /\ ~ AwaitsChild(p)'
       /\ Apart(p)'
  BY <1>4, <1>8, <1>10, FreeStays DEF RunCall
<1>12. Alone("none", p)'
  BY <1>4, <1>8, AloneStays, IdleType
<1>13. Placed("call", p)'
  BY <1>11, <1>12 DEF Placed, Apart, Alone, FT
<1>14. \A x, y \in calls' : x.p = p /\ y.p = p => x = y
  BY <1>4, <1>5 DEF Free, Called
<1>15. OneRow(p)' /\ p \notin gone'.procs /\ p \notin ended'
  BY <1>4, <1>10, <1>11, LocalRows DEF RunCall, Apart
<1>16. PInv(p)'
  BY <1>4, <1>7, <1>11, <1>12, <1>13, <1>14, <1>15, ToRest DEF Spots
<1> QED BY <1>4, <1>9, <1>16, TouchStep

LEMMA OpenPut ==
  ASSUME FlowInv, NEW p \in Procs, NEW r \in SUBSET (WaitItems \union {"call-back"}), open' = [open EXCEPT ![p] = r]
  PROVE  OpenOf(p) /\ open'[p] = r
<1> DEFINE S == SUBSET (WaitItems \union {"call-back"})
<1>1. open \in Seq(S) /\ p \in DOMAIN open
  BY DEF FlowInv, FlowTypes, Procs
<1>2. open'[p] = r
  BY <1>1
<1> QED BY <1>2 DEF OpenOf

(* The step is announced, and the thread goes on to save that it halts. *)
LEMMA WaitingStep ==
  ASSUME FlowInv, NEW t \in FT, NEW d, d = ctx[t].d, NEW p, p = d.p, ctx[t].at = "run", d.st = "none",
         Ran(d), Become(t, Doing("halt", d)), UNCHANGED <<gone, task, sync, queue, calls, merged, ended, asked>>,
         \/ timers' = timers /\ open' = [open EXCEPT ![p] = WaitItems]
         \/ timers' = timers \union {p} /\ open' = open
  PROVE  FlowInv'
<1>4. p \in Procs /\ p \notin gone.procs /\ Free(p) /\ d \in DbwRec /\ Walked(p) /\ About(d) /\ Alone(t, p)
  BY AtWork
<1>6. task' = task /\ Steps(p)' = Steps(p)
  BY DEF Steps
<1>7. RanOf(p) /\ L(p)' = Pos(p)' /\ Walked(p)'
  BY <1>4, <1>6, RanStep
<1>a. "halt" \in Places
  BY DEF Places
<1>b. Doing("halt", d) \in CtxRec /\ Doing("halt", d).at = "halt" /\ Doing("halt", d).d = d
  BY <1>4, <1>a, DoingType
<1>c. Doing("halt", d).at \notin {"parent", "dec", "fork"} /\ Doing("halt", d).d.p = p
  BY <1>b
<1>8. ThreadOf(p) /\ ctx'[t] = Doing("halt", d) /\ (\A u \in FT : u # t => ctx'[u] = ctx[u]) /\ \A u \in FT : ctx'[u] = ctx[u] \/ ctx'[u].at # "parent"
  BY <1>b, <1>c, BecomeOf
<1>d. OpenOf(p) /\ (p \in timers' => open'[p] = {})
  <2>0. open[p] = {} /\ p \notin timers
    BY <1>4 DEF Free, Apart
  <2>1. CASE timers' = timers /\ open' = [open EXCEPT ![p] = WaitItems]
    BY <1>4, <2>0, <2>1, OpenPut
  <2>2. CASE timers' = timers \union {p} /\ open' = open
    BY <1>4, <2>0, <2>2, TouchRows DEF FlowInv
  <2> QED BY <2>1, <2>2
<1>9. Touch(p)
  <2>1. TaskOf(p)
    BY <1>4, <1>6, TouchRows DEF FlowInv
  <2>2. Calm
    BY CalmStays
  <2>3. QueueOf({p}) /\ CallsSet(p) /\ timers' \in {timers, timers \union {p}, timers \ {p}} /\ ended' = ended
    BY DEF QueueOf, CallsSet
  <2> QED BY <1>7, <1>8, <1>d, <2>1, <2>2, <2>3 DEF Touch
<1>10. Local({p})
  BY <1>4, <1>9, TouchIsLocal
<1>11. /\ ~ Queued(p)' /\ ~ Called(p)' /\ ~ Parental(p)' /\ (\A u \in FT : ~ Coming(u, p)') /\ ~ AwaitsChild(p)'
  BY <1>4, <1>8, <1>10, FreeStays
<1>12. Alone("none", p)'
  BY <1>4, <1>8, <1>b, AloneStays
<1>13. \E w \in Spots : Placed(w, p)'
  <2>1. CASE p \in timers'
    <3>1. Placed("timer", p)'
      BY <1>11, <1>12, <1>d, <2>1 DEF Placed, Alone, FT
    <3> QED BY <3>1 DEF Spots
  <2>2. CASE p \notin timers'
    <3>1. Placed("open", p)'
      BY <1>11, <1>12, <2>2 DEF Placed, Alone, FT
    <3> QED BY <3>1 DEF Spots
  <2> QED BY <2>1, <2>2
<1>14. \A x, y \in calls' : x.p = p /\ y.p = p => x = y
  BY <1>11 DEF Called
<1>15. OneRow(p)' /\ p \notin gone'.procs /\ p \notin ended'
  BY <1>4, <1>10, LocalRows DEF Free, Apart
<1>16. PInv(p)'
  BY <1>4, <1>7, <1>11, <1>12, <1>13, <1>14, <1>15, ToRest
<1> QED BY <1>4, <1>9, <1>16, TouchStep

LEMMA RunWaitStep ==
  ASSUME FlowInv, NEW t \in FT, RunWait(t)
  PROVE  FlowInv'
<1>1. PICK d : d = ctx[t].d
  OBVIOUS
<1>2. PICK p : p = d.p
  OBVIOUS
<1>3. ctx[t].at = "run" /\ d.st = "none" /\ Ran(d) /\ Become(t, Doing("halt", d)) /\ open' = [open EXCEPT ![p] = WaitItems]
  BY <1>1, <1>2 DEF RunWait, Running
<1> QED BY <1>1, <1>2, <1>3, WaitingStep DEF RunWait

LEMMA RunSleepStep ==
  ASSUME FlowInv, NEW t \in FT, RunSleep(t)
  PROVE  FlowInv'
<1>1. PICK d : d = ctx[t].d
  OBVIOUS
<1>2. PICK p : p = d.p
  OBVIOUS
<1>3. ctx[t].at = "run" /\ d.st = "none" /\ Ran(d) /\ Become(t, Doing("halt", d)) /\ timers' = timers \union {p}
  BY <1>1, <1>2 DEF RunSleep, Running
<1> QED BY <1>1, <1>2, <1>3, WaitingStep DEF RunSleep

(* A parent that its last child has run. *)
LEMMA RunJoinStep ==
  ASSUME FlowInv, NEW t \in FT, RunJoin(t)
  PROVE  FlowInv'
<1>1. PICK d : d = ctx[t].d
  OBVIOUS
<1>2. PICK p : p = d.p
  OBVIOUS
<1>3. ctx[t].at = "run" /\ d.st \in {"halt", "aborted"}
  BY <1>1 DEF RunJoin, Running
<1>4. p \in Procs /\ p \notin gone.procs /\ Free(p) /\ d \in DbwRec /\ Walked(p) /\ About(d) /\ Alone(t, p)
  BY <1>1, <1>2, <1>3, AtWork
<1>5. L(p) = Pos(p)
  BY <1>2, <1>3, <1>4 DEF About
<1>6. Calm /\ RanOf(p) /\ OpenOf(p)
  BY <1>4, CalmStays, TouchRows DEF RunJoin, FlowInv
<1>7. QueueOf({p}) /\ CallsSet(p) /\ timers' = timers /\ ended' = ended
  BY DEF RunJoin, QueueOf, CallsSet
<1>8. CASE StepDone(t)
  <2>1. SetState(p, "done")
    BY <1>1, <1>2, <1>8 DEF StepDone
  <2>2. TaskOf(p) /\ task'[p].pos = task[p].pos /\ Steps(p)' = Steps(p)
    BY <1>4, <2>1, StateSet DEF States
  <2>3. Walked(p)' /\ L(p)' = L(p) /\ Pos(p)' = Pos(p)
    BY <1>4, <2>2, WalkedStays DEF RunJoin
  <2>4. ThreadOf(p)
    BY <1>1, <1>2, <1>3, <1>4, <1>8, DoneCtx
  <2>5. Touch(p)
    BY <1>6, <1>7, <2>2, <2>4 DEF Touch
  <2> QED BY <1>1, <1>2, <1>3, <1>5, <1>8, <2>3, <2>5, DoneStep DEF RunJoin
<1>9. CASE Become(t, Doing("halt", d)) /\ task' = task
  <2>a. "halt" \in Places
    BY DEF Places
  <2>b. Doing("halt", d) \in CtxRec /\ Doing("halt", d).at = "halt" /\ Doing("halt", d).d = d
    BY <1>4, <2>a, DoingType
  <2>c. Doing("halt", d).at \notin {"parent", "dec", "fork"} /\ Doing("halt", d).d.p = p
    BY <1>2, <2>b
  <2>1. ThreadOf(p) /\ ctx'[t] = Doing("halt", d) /\ (\A u \in FT : u # t => ctx'[u] = ctx[u]) /\ \A u \in FT : ctx'[u] = ctx[u] \/ ctx'[u].at # "parent"
    BY <1>1, <1>2, <1>3, <1>9, <2>b, <2>c, BecomeOf
  <2>2. TaskOf(p) /\ Steps(p)' = Steps(p)
    BY <1>4, <1>9, TouchRows DEF FlowInv, Steps
  <2>3. Walked(p)' /\ L(p)' = Pos(p)'
    BY <1>4, <1>5, <1>9, <2>2, WalkedStays DEF RunJoin
  <2>5. Touch(p)
    BY <1>6, <1>7, <2>1, <2>2 DEF Touch
  <2>6. Local({p})
    BY <1>4, <2>5, TouchIsLocal
  <2>7. Free(p)' /\ ~ Parental(p)'
    BY <1>4, <2>1, <2>6, FreeStays DEF RunJoin
  <2>8. Alone("none", p)'
    BY <1>4, <2>1, <2>b, AloneStays
  <2>9. Placed("call", p)'
    BY <2>7, <2>8 DEF Placed, Free, Apart, Alone, FT
  <2>10. \A x, y \in calls' : x.p = p /\ y.p = p => x = y
    BY <2>7 DEF Free, Called
  <2>11. OneRow(p)' /\ p \notin gone'.procs
    BY <1>4, <2>6, LocalRows DEF RunJoin
  <2>12. PInv(p)'
    BY <1>4, <2>3, <2>7, <2>8, <2>9, <2>10, <2>11, ToRest DEF Spots, Free, Apart
  <2> QED BY <1>4, <2>5, <2>12, TouchStep
<1> QED BY <1>1, <1>8, <1>9 DEF RunJoin

(* The row after the next step is begun. *)
LEMMA PosSet ==
  ASSUME FlowInv, NEW p \in Procs, NEW k \in Nat \ {0}, task' = [task EXCEPT ![p].pos = k]
  PROVE  TaskOf(p) /\ task'[p].pos = k /\ task'[p].state = task[p].state /\ Steps(p)' = Steps(p)
<1>1. task \in Seq(TaskRec) /\ p \in DOMAIN task /\ task[p] \in TaskRec
  BY DEF FlowInv, FlowTypes, Procs
<1>2. PICK r : r = [task[p] EXCEPT !.pos = k]
  OBVIOUS
<1>3. task' = [task EXCEPT ![p] = r]
  BY <1>2, PutPos
<1>4. r \in TaskRec /\ r.wf = task[p].wf /\ r.sq = task[p].sq /\ r.sync = task[p].sync /\ r.pos = k /\ r.state = task[p].state
  BY <1>1, <1>2, RecPos
<1>5. task'[p] = r
  BY <1>1, <1>3, <1>4, SeqPut
<1> QED BY <1>3, <1>4, <1>5 DEF TaskOf, Steps

(* The next step begins. *)
LEMMA Ahead ==
  ASSUME NEW p \in Procs, Walked(p), L(p) = Pos(p), ran' = ran, Steps(p)' = Steps(p),
         task'[p].pos = Pos(p) + 1, Pos(p) + 1 <= Len(Steps(p)), Len(Steps(p)) \in Nat
  PROVE  Walked(p)' /\ L(p)' = Pos(p)' - 1
<1>1. Pos(p) \in Nat /\ Pos(p) > 0 /\ Len(Steps(p)) \in Nat
  BY DEF Walked
<1>2. Pos(p)' = Pos(p) + 1 /\ L(p)' = L(p)
  BY DEF Pos, L
<1>3. Pos(p)' \in 1 .. Len(Steps(p))
  BY <1>1, <1>2
<1>4. L(p)' = Pos(p)' - 1
  BY <1>1, <1>2
<1> QED BY <1>2, <1>3, <1>4 DEF Walked

(* A workflow has a number of steps. *)
LEMMA StepsType ==
  ASSUME FlowInv, NEW p \in Procs
  PROVE  /\ Len(Steps(p)) \in Nat /\ DOMAIN Steps(p) = 1 .. Len(Steps(p))
         /\ \A k \in 1 .. Len(Steps(p)) :
              /\ Steps(p)[k].kind \in Kinds
              /\ Steps(p)[k].kind \in {"split", "if"} =>
                   Steps(p)[k].wf \in DOMAIN Prog /\ Prog[Steps(p)[k].wf][task[p].sq] # <<>>
         /\ task[p] \in TaskRec /\ task[p].wf \in DOMAIN Prog /\ task[p].sq \in Sequences
<1>1. task[p] \in TaskRec
  BY DEF FlowInv, FlowTypes, Procs
<1>2. task[p].wf \in DOMAIN Prog /\ task[p].sq \in Sequences
  BY <1>1 DEF TaskRec
<1>3. PICK f : f = Steps(p)
  OBVIOUS
<1>4. f \in Seq(ToSet(f))
  BY <1>2, <1>3, FlowAssumption DEF Steps
<1>5. Len(f) \in Nat /\ DOMAIN f = 1 .. Len(f)
  BY <1>4
<1>6. \A k \in DOMAIN f :
        /\ f[k].kind \in Kinds
        /\ f[k].kind \in {"split", "if"} => f[k].wf \in DOMAIN Prog /\ Prog[f[k].wf][task[p].sq] # <<>>
  BY <1>2, <1>3, FlowAssumption DEF Steps
<1> QED BY <1>1, <1>2, <1>3, <1>5, <1>6

LEMMA NextStepStep ==
  ASSUME FlowInv, NEW t \in FT, NextStep(t)
  PROVE  FlowInv'
<1>1. PICK d : d = ctx[t].d
  OBVIOUS
<1>2. PICK p : p = d.p
  OBVIOUS
<1>3. ctx[t].at = "next"
  BY DEF NextStep
<1>4. p \in Procs /\ p \notin gone.procs /\ Free(p) /\ d \in DbwRec /\ Walked(p) /\ Alone(t, p) /\ L(p) = Pos(p)
  BY <1>1, <1>2, <1>3, AtWork
<1>5. p \in Live
  BY <1>4 DEF Live
<1>6. Calm /\ RanOf(p) /\ OpenOf(p)
  BY <1>4, CalmStays, TouchRows DEF NextStep, FlowInv
<1>7. CallsSet(p) /\ timers' = timers /\ ended' = ended /\ calls' = calls /\ open' = open /\ ran' = ran /\ gone' = gone
  BY DEF NextStep, CallsSet
<1>8. PICK k : k = Pos(p) + 1
  OBVIOUS
<1>9. PICK n : n = Len(Steps(p))
  OBVIOUS
<1>10. n \in Nat /\ Pos(p) \in 1 .. n /\ k \in Nat \ {0} /\ task[p].pos = Pos(p)
  BY <1>4, <1>8, <1>9, StepsType DEF Walked, Pos
<1>11. PICK e : e = Renewed(d, k)
  OBVIOUS
<1>12. e \in DbwRec /\ e.p = p /\ e.k = k /\ e.st = "none"
  BY <1>2, <1>4, <1>10, <1>11, DbwStep
<1>13. CASE k <= n
  <2>1. /\ task' = [task EXCEPT ![p].pos = k]
        /\ IF t = "worker" THEN Become(t, Doing("run", e)) /\ queue' = queue
           ELSE queue' = Append(queue, e) /\ Become(t, IdleCtx)
    BY <1>1, <1>2, <1>5, <1>8, <1>9, <1>10, <1>11, <1>13 DEF NextStep, Pos, Renewed
  <2>2. TaskOf(p) /\ task'[p].pos = k /\ Steps(p)' = Steps(p)
    BY <1>4, <1>10, <2>1, PosSet
  <2>3. Walked(p)' /\ L(p)' = Pos(p)' - 1 /\ Pos(p)' = k
    BY <1>4, <1>7, <1>8, <1>9, <1>10, <1>13, <2>2, Ahead DEF Pos
  <2>4. About(e)'
    BY <1>12, <2>3 DEF About
  <2>5. CASE t = "worker"
    <3>a. "run" \in Places
      BY DEF Places
    <3>b. Doing("run", e) \in CtxRec /\ Doing("run", e).at = "run" /\ Doing("run", e).d = e
      BY <1>12, <3>a, DoingType
    <3>c. Doing("run", e).at \notin {"parent", "dec", "fork"} /\ Doing("run", e).d.p = p
      BY <1>12, <3>b
    <3>1. ThreadOf(p) /\ ctx'[t] = Doing("run", e) /\ (\A u \in FT : u # t => ctx'[u] = ctx[u]) /\ \A u \in FT : ctx'[u] = ctx[u] \/ ctx'[u].at # "parent"
      BY <1>1, <1>2, <1>3, <2>1, <2>5, <3>b, <3>c, BecomeOf
    <3>2. queue' = queue
      BY <2>1, <2>5
    <3>3. Touch(p)
      BY <1>6, <1>7, <2>2, <3>1, <3>2 DEF Touch, QueueOf
    <3>4. Local({p})
      BY <1>4, <3>3, TouchIsLocal
    <3>5. Free(p)'
      BY <1>4, <1>7, <3>1, <3>2, <3>4, FreeStays
    <3>6. OneRow(p)' /\ p \notin gone'.procs
      BY <1>4, <1>7, <3>4, LocalRows
    <3>7. Alone(t, p)'
      BY <1>4, <3>1, AloneStays
    <3>8. About(ctx[t].d)'
      BY <2>4, <3>1, <3>b DEF About
    <3>9. PInv(p)'
      BY <1>4, <2>3, <2>5, <3>1, <3>b, <3>c, <3>5, <3>6, <3>7, <3>8, ToThread
    <3> QED BY <1>4, <3>3, <3>9, TouchStep
  <2>6. CASE t # "worker"
    <3>1. Become(t, IdleCtx) /\ queue' = Append(queue, e)
      BY <2>1, <2>6
    <3>2. ThreadOf(p) /\ ctx'[t] = IdleCtx /\ (\A u \in FT : u # t => ctx'[u] = ctx[u]) /\ \A u \in FT : ctx'[u] = ctx[u] \/ ctx'[u].at # "parent"
      BY <1>1, <1>2, <1>3, <3>1, IdleType, BecomeOf
    <3>3. Touch(p)
      BY <1>6, <1>7, <1>12, <2>2, <3>1, <3>2 DEF Touch, QueueOf
    <3>4. Local({p})
      BY <1>4, <3>3, TouchIsLocal
    <3>5. Apart(p)'
      BY <1>4, <1>7, <3>2, <3>4, ApartStays DEF Free, Apart
    <3>6. OneRow(p)' /\ p \notin gone'.procs
      BY <1>4, <1>7, <3>4, LocalRows
    <3>7. Alone("none", p)'
      BY <1>4, <3>2, IdleType, AloneStays
    <3>8. ~ Called(p)' /\ ~ Queued(p) /\ queue \in Seq(DbwRec)
      BY <1>4, <1>7 DEF Free, Called, FlowInv, FlowTypes
    <3>9. PInv(p)'
      BY <1>4, <1>12, <2>3, <2>4, <3>1, <3>5, <3>6, <3>7, <3>8, ToQueue
    <3> QED BY <1>4, <3>3, <3>9, TouchStep
  <2> QED BY <2>5, <2>6
<1>14. CASE ~ (k <= n)
  <2>1. Become(t, Doing("end", d)) /\ task' = task /\ queue' = queue
    BY <1>1, <1>2, <1>5, <1>8, <1>9, <1>10, <1>14 DEF NextStep, Pos
  <2>2. TaskOf(p) /\ Steps(p)' = Steps(p)
    BY <1>4, <2>1, TouchRows DEF FlowInv, Steps
  <2>3. Walked(p)' /\ L(p)' = L(p) /\ Pos(p)' = Pos(p)
    BY <1>4, <1>7, <2>1, <2>2, WalkedStays
  <2>4. Pos(p) = n
    BY <1>8, <1>10, <1>14
  <2>a. "end" \in Places
    BY DEF Places
  <2>b. Doing("end", d) \in CtxRec /\ Doing("end", d).at = "end" /\ Doing("end", d).d = d
    BY <1>4, <2>a, DoingType
  <2>c. Doing("end", d).at \notin {"parent", "dec", "fork"} /\ Doing("end", d).d.p = p
    BY <1>2, <2>b
  <2>5. ThreadOf(p) /\ ctx'[t] = Doing("end", d) /\ (\A u \in FT : u # t => ctx'[u] = ctx[u]) /\ \A u \in FT : ctx'[u] = ctx[u] \/ ctx'[u].at # "parent"
    BY <1>1, <1>2, <1>3, <2>1, <2>b, <2>c, BecomeOf
  <2>6. Touch(p)
    BY <1>6, <1>7, <2>1, <2>2, <2>5 DEF Touch, QueueOf
  <2>7. Local({p})
    BY <1>4, <2>6, TouchIsLocal
  <2>8. Free(p)'
    BY <1>4, <1>7, <2>1, <2>5, <2>7, FreeStays
  <2>9. OneRow(p)' /\ p \notin gone'.procs
    BY <1>4, <1>7, <2>7, LocalRows
  <2>10. Alone(t, p)'
    BY <1>4, <2>5, AloneStays
  <2>11. Pos(p)' = Len(Steps(p))' /\ L(p)' = Pos(p)'
    BY <1>4, <1>9, <2>2, <2>3, <2>4
  <2>12. ctx'[t].at = "end" /\ ctx'[t].d.p = p
    BY <2>5, <2>b, <2>c
  <2>13. PInv(p)'
    BY <1>4, <2>3, <2>8, <2>9, <2>10, <2>11, <2>12, ToThread
  <2> QED BY <1>4, <2>6, <2>13, TouchStep
<1> QED BY <1>13, <1>14

-----------------------------------------------------------------------------
(* The end of a process, and the queue. *)

(* The data of the parent is read, and written with the end of the process. *)
LEMMA EndReadStep ==
  ASSUME FlowInv, NEW t \in FT, EndRead(t)
  PROVE  FlowInv'
<1>1. PICK d : d = ctx[t].d
  OBVIOUS
<1>2. PICK p : p = d.p
  OBVIOUS
<1>3. ctx[t].at = "end"
  BY DEF EndRead
<1>4. /\ p \in Procs /\ p \notin gone.procs /\ Free(p) /\ d \in DbwRec /\ Walked(p) /\ Alone(t, p) /\ L(p) = Pos(p)
      /\ Pos(p) = Len(Steps(p))
  BY <1>1, <1>2, <1>3, AtWork
<1>5. PICK m : m = IF HasRow(task[p].sync) THEN merged[task[p].sync] ELSE {}
  OBVIOUS
<1>6. Become(t, [Doing("save", d) EXCEPT !.seen = m])
  BY <1>1, <1>2, <1>5 DEF EndRead
<1>7. m \in SUBSET Nat
  <2>1. CASE HasRow(task[p].sync)
    <3>1. task[p].sync \in DOMAIN sync /\ merged \in Seq(SUBSET Nat) /\ Len(merged) = Len(sync) /\ sync \in Seq(SyncRec)
      BY <1>4, <2>1 DEF FlowInv, Nested, HasRow, FlowTypes
    <3>2. task[p].sync \in DOMAIN merged
      BY <3>1
    <3> QED BY <1>5, <2>1, <3>1, <3>2
  <2>2. CASE ~ HasRow(task[p].sync)
    BY <1>5, <2>2
  <2> QED BY <2>1, <2>2
<1>8. PICK c : c = [Doing("save", d) EXCEPT !.seen = m]
  OBVIOUS
<1>a. "save" \in Places
  BY DEF Places
<1>b. c \in CtxRec /\ c.at = "save" /\ c.d = d
  BY <1>4, <1>7, <1>8, <1>a, SeenType
<1>c. c.at \notin {"parent", "dec", "fork"} /\ c.d.p = p
  BY <1>2, <1>b
<1>9. ThreadOf(p) /\ ctx'[t] = c /\ (\A u \in FT : u # t => ctx'[u] = ctx[u]) /\ \A u \in FT : ctx'[u] = ctx[u] \/ ctx'[u].at # "parent"
  BY <1>1, <1>2, <1>3, <1>6, <1>8, <1>b, <1>c, BecomeOf
<1>10. /\ task' = task /\ ran' = ran /\ calls' = calls /\ open' = open /\ timers' = timers /\ ended' = ended
       /\ queue' = queue /\ gone' = gone
  BY DEF EndRead
<1>11. Steps(p)' = Steps(p)
  BY <1>10 DEF Steps
<1>12. TaskOf(p) /\ RanOf(p) /\ OpenOf(p) /\ Calm
  BY <1>4, <1>10, CalmStays, TouchRows DEF EndRead, FlowInv
<1>13. Touch(p)
  BY <1>9, <1>10, <1>12 DEF Touch, QueueOf, CallsSet
<1>14. Local({p})
  BY <1>4, <1>13, TouchIsLocal
<1>15. Walked(p)' /\ L(p)' = L(p) /\ Pos(p)' = Pos(p)
  BY <1>4, <1>10, <1>11, WalkedStays
<1>16. Free(p)'
  BY <1>4, <1>9, <1>10, <1>14, FreeStays
<1>17. OneRow(p)' /\ p \notin gone'.procs
  BY <1>4, <1>10, <1>14, LocalRows
<1>18. Alone(t, p)'
  BY <1>4, <1>9, AloneStays
<1>19. ctx'[t].at = "save" /\ ctx'[t].d.p = p /\ Pos(p)' = Len(Steps(p))' /\ L(p)' = Pos(p)'
  BY <1>4, <1>9, <1>11, <1>15, <1>b, <1>c
<1>20. PInv(p)'
  BY <1>4, <1>15, <1>16, <1>17, <1>18, <1>19, ToThread
<1> QED BY <1>4, <1>13, <1>20, TouchStep

LEMMA ActiveSet ==
  ASSUME FlowInv, NEW p \in Procs, task' = [task EXCEPT ![p].active = FALSE]
  PROVE  TaskOf(p) /\ task'[p].pos = task[p].pos /\ task'[p].state = task[p].state /\ Steps(p)' = Steps(p)
<1>1. task \in Seq(TaskRec) /\ p \in DOMAIN task /\ task[p] \in TaskRec
  BY DEF FlowInv, FlowTypes, Procs
<1>2. PICK r : r = [task[p] EXCEPT !.active = FALSE]
  OBVIOUS
<1>3. task' = [task EXCEPT ![p] = r]
  BY <1>2, PutActive
<1>4. r \in TaskRec /\ r.wf = task[p].wf /\ r.sq = task[p].sq /\ r.sync = task[p].sync /\ r.pos = task[p].pos /\ r.state = task[p].state
  BY <1>1, <1>2 DEF TaskRec
<1>5. task'[p] = r
  BY <1>1, <1>3, <1>4, SeqPut
<1> QED BY <1>3, <1>4, <1>5 DEF TaskOf, Steps

LEMMA MergedPut ==
  ASSUME FlowInv, NEW s, NEW m \in SUBSET Nat, merged' = IF HasRow(s) THEN [merged EXCEPT ![s] = m] ELSE merged
  PROVE  merged' \in Seq(SUBSET Nat) /\ Len(merged') = Len(merged)
<1>1. merged \in Seq(SUBSET Nat)
  BY DEF FlowInv, FlowTypes
<1>2. [merged EXCEPT ![s] = m] \in Seq(SUBSET Nat) /\ Len([merged EXCEPT ![s] = m]) = Len(merged)
  BY <1>1, SeqPutAny
<1> QED BY <1>1, <1>2

LEMMA EndWriteStep ==
  ASSUME FlowInv, NEW t \in FT, EndWrite(t)
  PROVE  FlowInv'
<1>1. PICK d : d = ctx[t].d
  OBVIOUS
<1>2. PICK p : p = d.p
  OBVIOUS
<1>3. ctx[t].at = "save"
  BY DEF EndWrite
<1>4. /\ p \in Procs /\ p \notin gone.procs /\ Free(p) /\ d \in DbwRec /\ Walked(p) /\ Alone(t, p) /\ L(p) = Pos(p)
      /\ Pos(p) = Len(Steps(p)) /\ ctx[t] \in CtxRec
  BY <1>1, <1>2, <1>3, AtWork
<1>5. p \in Live
  BY <1>4 DEF Live
<1>6. task' = [task EXCEPT ![p].active = FALSE] /\ ended' = ended \union {p}
  BY <1>1, <1>2, <1>5 DEF EndWrite
<1>7. TaskOf(p) /\ task'[p].pos = task[p].pos /\ Steps(p)' = Steps(p)
  BY <1>4, <1>6, ActiveSet
<1>8. PICK c : c = IF task[p].sync = 0 THEN IdleCtx ELSE Doing("dec", d)
  OBVIOUS
<1>9. Become(t, c)
  BY <1>1, <1>2, <1>8 DEF EndWrite
<1>a. "dec" \in Places
  BY DEF Places
<1>b. Doing("dec", d) \in CtxRec /\ Doing("dec", d).at = "dec" /\ Doing("dec", d).d = d
  BY <1>4, <1>a, DoingType
<1>c. c \in CtxRec /\ (c.at = "idle" \/ (c.at = "dec" /\ c.d.p = p /\ task[p].sync # 0))
  BY <1>2, <1>8, <1>b, IdleType
<1>10. ctx'[t] = c /\ (\A u \in FT : u # t => ctx'[u] = ctx[u]) /\ ctx' = [ctx EXCEPT ![t] = c]
  BY <1>9, <1>c DEF Become, FlowInv, FlowTypes
<1>11. CtxOf(t, {p})
  <2>1. p \notin ended /\ p \in ended'
    BY <1>4, <1>6 DEF Free, Apart
  <2> QED BY <1>1, <1>2, <1>3, <1>10, <1>c, <2>1 DEF CtxOf
<1>12. ThreadOf(p)
  BY <1>10, <1>11, <1>c DEF ThreadOf
<1>13. /\ ran' = ran /\ calls' = calls /\ open' = open /\ timers' = timers
       /\ queue' = queue /\ gone' = gone /\ sync' = sync /\ asked' = asked
  BY DEF EndWrite
<1>14. Calm
  <2>1. PICK m : m = ctx[t].seen \union {p}
    OBVIOUS
  <2>2. m \in SUBSET Nat
    BY <1>2, <1>4, <2>1 DEF CtxRec, DbwRec
  <2>3. merged' = IF HasRow(task[p].sync) THEN [merged EXCEPT ![task[p].sync] = m] ELSE merged
    BY <1>1, <1>2, <2>1 DEF EndWrite
  <2>4. merged' \in Seq(SUBSET Nat) /\ Len(merged') = Len(merged)
    BY <2>2, <2>3, MergedPut
  <2> QED BY <1>13, <2>4 DEF Calm, FlowInv, FlowTypes
<1>15. RanOf(p) /\ OpenOf(p)
  BY <1>4, <1>13, TouchRows DEF FlowInv
<1>16. Touch(p)
  BY <1>6, <1>7, <1>12, <1>13, <1>14, <1>15 DEF Touch, QueueOf, CallsSet
<1>17. Local({p})
  BY <1>4, <1>16, TouchIsLocal
<1>18. Walked(p)' /\ L(p)' = L(p) /\ Pos(p)' = Pos(p)
  BY <1>4, <1>7, <1>13, WalkedStays
<1>19. /\ ~ Queued(p)' /\ ~ Called(p)' /\ ~ Parental(p)' /\ (\A u \in FT : ~ Coming(u, p)') /\ ~ AwaitsChild(p)'
  <2>1. \A u \in FT : ctx'[u] = ctx[u] \/ ctx'[u].at # "parent"
    BY <1>10, <1>c
  <2> QED BY <1>4, <1>13, <1>17, <2>1, FreeStays
<1>20. open'[p] = {} /\ p \notin timers' /\ p \in ended' /\ p \notin gone'.procs
  BY <1>4, <1>6, <1>13 DEF Free, Apart
<1>21. Alone(t, p)' /\ (OnWay(t, p)' => ctx'[t].at = "dec")
  BY <1>4, <1>10, <1>c, AloneStays DEF OnWay
<1>22. InOnePlace(p)'
  <2>1. Placed(t, p)'
    BY <1>19, <1>20, <1>21 DEF Placed, Alone
  <2> QED BY <2>1 DEF InOnePlace, Spots, FT
<1>23. EndedRests(p)' /\ GoneRests(p)'
  BY <1>19, <1>20, <1>21 DEF EndedRests, GoneRests, Alone
<1>24. OneDbw(p)'
  BY <1>19 DEF OneDbw, Queued, Called
<1>25. InStep(p)'
  <2>1. \A u \in FT : ~ (ctx'[u].d.p = p /\ ctx'[u].at \in {"run", "fork"})
    BY <1>21 DEF Alone, OnWay
  <2>2. Loaded(p)'
    BY <1>19, <2>1 DEF Loaded, Queued
  <2>3. LoopRuns(p)' /\ ~ Forks(p)'
    BY <2>1 DEF LoopRuns, Forks, FT
  <2>4. L(p)' = Pos(p)' /\ Pos(p)' = Len(Steps(p))'
    BY <1>4, <1>7, <1>18
  <2> QED BY <1>18, <1>19, <2>2, <2>3, <2>4 DEF InStep
<1>26. OneRow(p)'
  BY <1>4, <1>17, LocalRows
<1>27. PInv(p)'
  BY <1>22, <1>23, <1>24, <1>25, <1>26 DEF PInv
<1> QED BY <1>4, <1>16, <1>27, TouchStep

(* The worker takes the first dbw of the queue. *)
LEMMA TakeStep ==
  ASSUME FlowInv, Take
  PROVE  FlowInv'
<1>1. PICK d : d = Head(queue)
  OBVIOUS
<1>2. PICK p : p = d.p
  OBVIOUS
<1>3. queue \in Seq(DbwRec) /\ queue # <<>> /\ d = queue[1] /\ 1 \in DOMAIN queue /\ d \in DbwRec
  BY <1>1 DEF Take, FlowInv, FlowTypes
<1>4. p \in Procs /\ PInv(p) /\ Queued(p)
  BY <1>2, <1>3 DEF FlowInv, Names, Queued
<1>5. Apart(p) /\ ~ Called(p) /\ (\A u \in FT : ~ OnWay(u, p)) /\ p \notin gone.procs
  BY <1>4, AtPlace DEF PInv, GoneRests
<1>6. "worker" \in FT /\ ctx["worker"].at = "idle" /\ Become("worker", Doing("run", d)) /\ queue' = Tail(queue)
  BY <1>1, IdleType DEF Take, FT
<1>a. "run" \in Places
  BY DEF Places
<1>b. Doing("run", d) \in CtxRec /\ Doing("run", d).at = "run" /\ Doing("run", d).d = d
  BY <1>3, <1>a, DoingType
<1>c. Doing("run", d).at \notin {"parent", "dec", "fork"} /\ Doing("run", d).d.p = p
  BY <1>2, <1>b
<1>7. ThreadOf(p) /\ ctx'["worker"] = Doing("run", d) /\ (\A u \in FT : u # "worker" => ctx'[u] = ctx[u]) /\ \A u \in FT : ctx'[u] = ctx[u] \/ ctx'[u].at # "parent"
  <2>1. PICK c : c = Doing("run", d)
    OBVIOUS
  <2>2. c \in CtxRec /\ Become("worker", c) /\ "worker" \in FT
    BY <1>6, <1>b, <2>1
  <2>3. ctx["worker"].at # "parent" /\ (ctx["worker"].at # "idle" => ctx["worker"].d.p = p)
    BY <1>6
  <2>4. (c.at # "idle" => c.d.p = p) /\ c.at \notin {"parent", "dec", "fork"}
    BY <1>c, <2>1
  <2>5. /\ ThreadOf(p) /\ ctx'["worker"] = c /\ \A u \in FT : u # "worker" => ctx'[u] = ctx[u]
        /\ \A u \in FT : ctx'[u] = ctx[u] \/ ctx'[u].at # "parent"
    BY <2>2, <2>3, <2>4, BecomeOf
  <2> QED BY <2>1, <2>5
<1>8. /\ ran' = ran /\ calls' = calls /\ open' = open /\ timers' = timers /\ task' = task
      /\ ended' = ended /\ gone' = gone
  BY DEF Take
<1>9. Calm /\ TaskOf(p) /\ RanOf(p) /\ OpenOf(p)
  BY <1>4, <1>8, TouchRows, CalmStays DEF FlowInv, Take
<1>10. QueueOf({p})
  <2>1. ctx'["worker"].at # "fork"
    BY <1>7, <1>b
  <2> QED BY <1>1, <1>2, <1>3, <1>6, <2>1 DEF QueueOf
<1>11. Touch(p)
  BY <1>7, <1>8, <1>9, <1>10 DEF Touch, CallsSet
<1>12. Local({p})
  BY <1>4, <1>11, TouchIsLocal
<1>13. ~ Queued(p)'
  <2>1. \A i \in DOMAIN queue : queue[i].p = p => i = 1
    BY <1>2, <1>3, <1>4 DEF PInv, OneDbw
  <2>2. \A i \in DOMAIN queue' : i + 1 \in DOMAIN queue /\ queue'[i] = queue[i + 1] /\ i + 1 # 1
    BY <1>3, <1>6
  <2> QED BY <2>1, <2>2 DEF Queued
<1>14. Apart(p)'
  BY <1>5, <1>7, <1>8, <1>12, ApartStays DEF Apart
<1>15. Free(p)'
  BY <1>5, <1>8, <1>13, <1>14 DEF Free, Called
<1>16. Alone("worker", p)'
  BY <1>5, <1>7 DEF Alone, OnWay
<1>17. Steps(p)' = Steps(p)
  BY <1>8 DEF Steps
<1>18. InStep(p)
  BY <1>4 DEF PInv
<1>19. Walked(p)' /\ L(p)' = L(p) /\ Pos(p)' = Pos(p)
  BY <1>4, <1>8, <1>17, <1>18, WalkedStays DEF InStep
<1>20. About(ctx["worker"].d)'
  <2>1. About(d)
    BY <1>2, <1>3, <1>18 DEF InStep, Loaded
  <2>2. About(d)'
    BY <1>2, <1>19, <2>1 DEF About
  <2> QED BY <2>2, <1>7, <1>b DEF About
<1>21. OneRow(p)' /\ p \notin gone'.procs
  BY <1>5, <1>8, <1>12, LocalRows, <1>4
<1>22. ctx'["worker"].at = "run" /\ ctx'["worker"].d.p = p
  BY <1>7, <1>b, <1>c
<1>23. PInv(p)'
  BY <1>4, <1>6, <1>15, <1>16, <1>19, <1>20, <1>21, <1>22, ToThread
<1> QED BY <1>4, <1>11, <1>23, TouchStep

-----------------------------------------------------------------------------
(* Answers, reports and timers, on the loop thread. *)

(* A free loop thread carries no process. *)
LEMMA LoopFree ==
  ASSUME LoopIsFree
  PROVE  "loop" \in FT /\ ctx["loop"].at = "idle"
BY IdleType DEF LoopIsFree, FT

(* A process goes on, on the loop thread. *)
LEMMA LoopGoesOn ==
  ASSUME FlowInv, NEW p \in Procs, p \notin gone.procs, LoopIsFree,
         \A u \in FT : ~ OnWay(u, p), NEW d \in DbwRec, d.p = p, Become("loop", Doing("next", d)),
         TaskOf(p), RanOf(p), OpenOf(p), Calm, CallsSet(p),
         timers' \in {timers, timers \union {p}, timers \ {p}}, ended' = ended, queue' = queue,
         ~ Queued(p), ~ AwaitsChild(p), \A u \in FT : ~ Coming(u, p),
         p \notin ended, ~ Called(p)', open'[p] = {}, p \notin timers',
         Walked(p)', L(p)' = Pos(p)'
  PROVE  FlowInv'
<1>1. "loop" \in FT /\ ctx["loop"].at = "idle"
  BY LoopFree
<1>a. "next" \in Places
  BY DEF Places
<1>b. Doing("next", d) \in CtxRec /\ Doing("next", d).at = "next" /\ Doing("next", d).d = d
  BY <1>a, DoingType
<1>c. Doing("next", d).at \notin {"parent", "dec", "fork"} /\ Doing("next", d).d.p = p
  BY <1>b
<1>2. ThreadOf(p) /\ ctx'["loop"] = Doing("next", d) /\ (\A u \in FT : u # "loop" => ctx'[u] = ctx[u]) /\ \A u \in FT : ctx'[u] = ctx[u] \/ ctx'[u].at # "parent"
  BY <1>1, <1>b, <1>c, BecomeOf
<1>3. Touch(p)
  BY <1>2 DEF Touch, QueueOf
<1>4. Local({p})
  BY <1>3, TouchIsLocal
<1>5. \A u \in FT : ~ Coming(u, p)'
  BY <1>2, <1>4, ComingStays
<1>6. ~ AwaitsChild(p)'
  BY <1>4, LocalAwaited DEF FlowInv
<1>7. Free(p)'
  BY <1>5, <1>6 DEF Free, Apart, Queued
<1>8. Alone("loop", p)'
  BY <1>2 DEF Alone, OnWay
<1>9. OneRow(p)' /\ p \notin gone'.procs
  BY <1>4, LocalRows DEF Calm
<1>10. ctx'["loop"].at = "next" /\ ctx'["loop"].d.p = p
  BY <1>2, <1>b, <1>c
<1>11. PInv(p)'
  BY <1>1, <1>7, <1>8, <1>9, <1>10, ToThread
<1> QED BY <1>3, <1>11, TouchStep

(* The answer of a call: done, on hold or an error. *)
LEMMA AnswerStep ==
  ASSUME FlowInv, NEW d \in calls, Answer(d)
  PROVE  FlowInv'
<1>1. PICK p : p = d.p
  OBVIOUS
<1>2. p \in Procs /\ Called(p) /\ d \in DbwRec /\ PInv(p)
  BY <1>1 DEF FlowInv, Names, Called, FlowTypes
<1>3. Apart(p) /\ ~ Queued(p) /\ (\A u \in FT : ~ OnWay(u, p)) /\ p \notin gone.procs
  BY <1>2, AtPlace DEF PInv, GoneRests
<1>4. /\ LoopIsFree /\ calls' = calls \ {d} /\ timers' = timers /\ ended' = ended /\ queue' = queue
      /\ ran' = ran /\ gone' = gone
  BY DEF Answer
<1>5. PICK st \in {"done", "halt", "error"} :
        /\ SetState(p, st)
        /\ open' = IF st = "halt" THEN [open EXCEPT ![p] = {"call-back"}] ELSE open
        /\ Become("loop", IF st = "done" THEN Doing("next", [d EXCEPT !.st = st]) ELSE IdleCtx)
  BY <1>1 DEF Answer
<1>6. TaskOf(p) /\ task'[p].pos = task[p].pos /\ Steps(p)' = Steps(p)
  BY <1>2, <1>5, StateSet DEF States
<1>7. InStep(p)
  BY <1>2 DEF PInv
<1>8. Walked(p)' /\ L(p)' = Pos(p)'
  <2>1. L(p) = Pos(p)
    BY <1>2, <1>7 DEF InStep, Late
  <2> QED BY <1>2, <1>4, <1>6, <1>7, <2>1, WalkedStays DEF InStep
<1>9. Calm /\ RanOf(p)
  BY <1>2, CalmStays, TouchRows DEF Answer, FlowInv
<1>10. CallsSet(p) /\ ~ Called(p)'
  <2>1. CallsSet(p)
    BY <1>1, <1>2, <1>4 DEF CallsSet
  <2>2. \A e \in calls : e.p = p => e = d
    BY <1>1, <1>2 DEF PInv, OneDbw
  <2> QED BY <1>4, <2>1, <2>2 DEF Called
<1>11. OpenOf(p) /\ (st # "halt" => open'[p] = {})
  <2>1. CASE st = "halt"
    BY <1>2, <1>5, <2>1, OpenPut
  <2>2. CASE st # "halt"
    BY <1>2, <1>3, <1>5, <2>2, TouchRows DEF FlowInv, Apart
  <2> QED BY <2>1, <2>2
<1>12. CASE st = "done"
  <2>1. PICK e : e = [d EXCEPT !.st = "done"]
    OBVIOUS
  <2>2. e \in DbwRec /\ e.p = p
    BY <1>1, <1>2, <2>1, DbwDone DEF States
  <2>3. Become("loop", Doing("next", e))
    BY <1>5, <1>12, <2>1
  <2>4. ~ AwaitsChild(p) /\ (\A u \in FT : ~ Coming(u, p)) /\ p \notin ended /\ p \notin timers' /\ open'[p] = {}
    BY <1>3, <1>4, <1>11, <1>12 DEF Apart
  <2> QED BY <1>2, <1>3, <1>4, <1>6, <1>8, <1>9, <1>10, <1>11, <2>2, <2>3, <2>4, LoopGoesOn
<1>13. CASE st # "done"
  <2>1. Become("loop", IdleCtx)
    BY <1>5, <1>13
  <2>2. "loop" \in FT /\ ctx["loop"].at = "idle"
    BY <1>4, LoopFree
  <2>3. ThreadOf(p) /\ ctx'["loop"] = IdleCtx /\ (\A u \in FT : u # "loop" => ctx'[u] = ctx[u]) /\ \A u \in FT : ctx'[u] = ctx[u] \/ ctx'[u].at # "parent"
    BY <2>1, <2>2, IdleType, BecomeOf
  <2>4. Touch(p)
    BY <1>4, <1>6, <1>9, <1>10, <1>11, <2>3 DEF Touch, QueueOf
  <2>5. Local({p})
    BY <1>2, <2>4, TouchIsLocal
  <2>6. \A u \in FT : ~ Coming(u, p)'
    BY <1>3, <2>3, <2>5, ComingStays DEF Apart
  <2>7. ~ AwaitsChild(p)'
    BY <1>3, <2>5, LocalAwaited DEF FlowInv, Apart
  <2>8. \A u \in FT : ~ OnWay(u, p)'
    BY <1>3, <2>3, IdleType DEF OnWay
  <2>9. ~ Queued(p)' /\ p \notin timers' /\ p \notin ended' /\ p \notin gone'.procs
    BY <1>3, <1>4 DEF Queued, Apart
  <2>10. Placed("open", p)'
    BY <1>10, <2>6, <2>7, <2>8, <2>9 DEF Placed
  <2>11. \A x, y \in calls' : x.p = p /\ y.p = p => x = y
    BY <1>10 DEF Called
  <2>12. OneRow(p)' /\ Alone("none", p)' /\ ~ Parental(p)'
    BY <1>2, <2>5, <2>6, <2>7, <2>8, LocalRows DEF Alone, Parental
  <2>13. PInv(p)'
    BY <1>2, <1>8, <2>9, <2>10, <2>11, <2>12, ToRest DEF Spots
  <2> QED BY <1>2, <2>4, <2>13, TouchStep
<1> QED BY <1>12, <1>13

(* The current step is a number. *)
LEMMA PosType ==
  ASSUME FlowInv, NEW p \in Procs
  PROVE  p \in Nat /\ task[p].pos \in Nat \ {0} /\ Pos(p) = task[p].pos
<1>1. p \in 1 .. Len(task)
  BY DEF FlowInv, FlowTypes, Procs
<1>2. task[p] \in TaskRec
  BY StepsType
<1> QED BY <1>1, <1>2 DEF TaskRec, Pos

(* A report; a report with the wrong code; a timer. *)
LEMMA ProcessSetStep ==
  ASSUME FlowInv, NEW p \in Procs, NEW item \in open[p], ProcessSet(p, item)
  PROVE  FlowInv'
<1>0. p \in Procs
  OBVIOUS
<1>1. PInv(p) /\ InStep(p)
  BY DEF FlowInv, PInv
<1>2. /\ LoopIsFree /\ calls' = calls /\ timers' = timers /\ ended' = ended /\ queue' = queue
      /\ ran' = ran /\ gone' = gone /\ p \notin gone.procs
  BY DEF ProcessSet, Live
<1>3. open[p] # {}
  OBVIOUS
<1>4. /\ ~ Queued(p) /\ ~ Called(p) /\ ~ AwaitsChild(p) /\ p \notin ended /\ p \notin timers
      /\ \A u \in FT : ~ OnWay(u, p) /\ ~ Coming(u, p)
  BY <1>3, AtPlace
<1>5. L(p) = Pos(p)
  BY <1>1, <1>3 DEF InStep, Late
<1>6. PICK r : r = open[p] \ {item}
  OBVIOUS
<1>7. OpenOf(p) /\ open'[p] = r
  <2>1. open' = [open EXCEPT ![p] = r]
    BY <1>6 DEF ProcessSet
  <2>2. r \in SUBSET (WaitItems \union {"call-back"})
    BY <1>6 DEF FlowInv, FlowTypes, Procs
  <2> QED BY <2>1, <2>2, OpenPut
<1>8. Calm /\ RanOf(p) /\ CallsSet(p)
  BY <1>2, CalmStays, TouchRows DEF ProcessSet, FlowInv, CallsSet
<1>9. CASE open[p] = {item}
  <2>1. SetState(p, "done") /\ Become("loop", Doing("next", Dbw(p, task[p].pos, "done", -1)))
    BY <1>9 DEF ProcessSet
  <2>2. TaskOf(p) /\ task'[p].pos = task[p].pos /\ Steps(p)' = Steps(p)
    BY <2>1, StateSet DEF States
  <2>3. Walked(p)' /\ L(p)' = Pos(p)'
    BY <1>1, <1>2, <1>5, <2>2, WalkedStays DEF InStep
  <2>4. PICK e : e = Dbw(p, task[p].pos, "done", -1)
    OBVIOUS
  <2>5. e \in DbwRec /\ e.p = p
    <3>1. p \in Nat /\ task[p].pos \in Nat
      BY <1>0, PosType
    <3>2. "done" \in States /\ -1 \in Int
      BY DEF States
    <3> QED BY <2>4, <3>1, <3>2, DbwType
  <2>6. ~ Called(p)' /\ open'[p] = {} /\ p \notin timers'
    BY <1>2, <1>4, <1>6, <1>7, <1>9 DEF Called
  <2> QED BY <1>2, <1>4, <1>7, <1>8, <2>1, <2>2, <2>3, <2>4, <2>5, <2>6, LoopGoesOn
<1>10. CASE open[p] # {item}
  <2>1. SetState(p, "halt") /\ ctx' = ctx
    BY <1>10 DEF ProcessSet
  <2>2. TaskOf(p) /\ task'[p].pos = task[p].pos /\ Steps(p)' = Steps(p) /\ task'[p].state = "halt"
    BY <1>2, <2>1, StateSet DEF States
  <2>3. open'[p] # {}
    BY <1>6, <1>7, <1>10
  <2>4. Touch(p)
    BY <1>2, <1>7, <1>8, <2>1, <2>2 DEF Touch, QueueOf, ThreadOf
  <2> QED BY <1>2, <1>3, <2>1, <2>2, <2>3, <2>4, StateOnly
<1> QED BY <1>9, <1>10

LEMMA MismatchStep ==
  ASSUME FlowInv, NEW p \in Procs, Mismatch(p)
  PROVE  FlowInv'
<1>1. PInv(p) /\ InStep(p)
  BY DEF FlowInv, PInv
<1>2. /\ calls' = calls /\ timers' = timers /\ ended' = ended /\ queue' = queue /\ open' = open /\ ctx' = ctx
      /\ ran' = ran /\ gone' = gone /\ p \notin gone.procs /\ SetState(p, "error") /\ open[p] # {}
  BY DEF Mismatch, Live
<1>3. ~ AwaitsChild(p) /\ \A u \in FT : ~ Coming(u, p) /\ ~ OnWay(u, p)
  BY <1>2, AtPlace
<1>4. L(p) = Pos(p)
  BY <1>1, <1>2 DEF InStep, Late
<1>5. TaskOf(p) /\ task'[p].pos = task[p].pos /\ Steps(p)' = Steps(p)
  BY <1>2, StateSet DEF States
<1>6. Calm /\ RanOf(p) /\ OpenOf(p)
  BY <1>2, CalmStays, TouchRows DEF Mismatch, FlowInv
<1>7. Touch(p)
  BY <1>2, <1>5, <1>6 DEF Touch, QueueOf, ThreadOf, CallsSet
<1>8. ~ Parental(p) /\ ~ Forks(p)
  BY <1>3 DEF Parental, Forks, OnWay, FT
<1> QED BY <1>2, <1>4, <1>5, <1>7, <1>8, StateOnly

LEMMA CtxOnEventStep ==
  ASSUME FlowInv, NEW p \in timers, CtxOnEvent(p)
  PROVE  FlowInv'
<1>0. p \in Procs
  BY DEF FlowInv, FlowTypes
<1>1. PInv(p) /\ InStep(p)
  BY <1>0 DEF FlowInv, PInv
<1>2. /\ LoopIsFree /\ calls' = calls /\ timers' = timers \ {p} /\ ended' = ended /\ queue' = queue /\ open' = open
      /\ ran' = ran /\ gone' = gone /\ SetState(p, "done")
  BY DEF CtxOnEvent
<1>3. /\ ~ Queued(p) /\ ~ Called(p) /\ ~ AwaitsChild(p) /\ p \notin ended /\ open[p] = {}
      /\ \A u \in FT : ~ OnWay(u, p) /\ ~ Coming(u, p)
  BY <1>0, AtPlace
<1>4. L(p) = Pos(p)
  BY <1>1 DEF InStep, Late
<1>5. TaskOf(p) /\ task'[p].pos = task[p].pos /\ Steps(p)' = Steps(p)
  BY <1>0, <1>2, StateSet DEF States
<1>6. Calm /\ RanOf(p) /\ OpenOf(p) /\ CallsSet(p)
  BY <1>0, <1>2, CalmStays, TouchRows DEF CtxOnEvent, FlowInv, CallsSet
<1>7. CASE p \in Live
  <2>1. Become("loop", Doing("next", Dbw(p, task[p].pos, "done", -1))) /\ p \notin gone.procs
    BY <1>7 DEF CtxOnEvent, Live
  <2>3. Walked(p)' /\ L(p)' = Pos(p)'
    BY <1>0, <1>1, <1>2, <1>4, <1>5, WalkedStays DEF InStep
  <2>4. PICK e : e = Dbw(p, task[p].pos, "done", -1)
    OBVIOUS
  <2>5. e \in DbwRec /\ e.p = p
    <3>1. p \in Nat /\ task[p].pos \in Nat
      BY <1>0, PosType
    <3>2. "done" \in States /\ -1 \in Int
      BY DEF States
    <3> QED BY <2>4, <3>1, <3>2, DbwType
  <2>6. ~ Called(p)' /\ open'[p] = {} /\ p \notin timers'
    BY <1>2, <1>3 DEF Called
  <2> QED BY <1>0, <1>2, <1>3, <1>5, <1>6, <2>1, <2>3, <2>4, <2>5, <2>6, LoopGoesOn
<1>8. CASE p \notin Live
  <2>1. ctx' = ctx
    BY <1>8 DEF CtxOnEvent
  <2>2. Touch(p)
    BY <1>2, <1>5, <1>6, <2>1 DEF Touch, QueueOf, ThreadOf
  <2>3. ~ Parental(p) /\ ~ Forks(p)
    BY <1>3 DEF Parental, Forks, OnWay, FT
  <2> QED BY <1>0, <1>2, <1>4, <1>5, <2>1, <2>2, <2>3, StateOnly
<1> QED BY <1>7, <1>8

-----------------------------------------------------------------------------
(* The counter of the children, and the parent that the last one runs. *)

(* A local step keeps the invariant when the processes of A keep theirs. *)
LEMMA LocalStep ==
  ASSUME FlowInv, NEW A \in SUBSET Procs, Local(A), FlowTypes', Counts', \A p \in A : PInv(p)'
  PROVE  FlowInv'
<1>1. Procs' = Procs
  BY DEF Local, Frame, Procs
<1>2. \A q \in Procs' : PInv(q)'
  BY <1>1, LocalPInv
<1>3. Names'
  BY LocalNames
<1>4. Nested' /\ GoneBelow' /\ DecEnded'
  BY LocalRows
<1>5. ForkOK'
  BY LocalFork
<1> QED BY <1>2, <1>3, <1>4, <1>5 DEF FlowInv

(* A process that has ended stays as it is. *)
LEMMA EndedStays ==
  ASSUME FlowInv, NEW A, Local(A), NEW c \in Procs, c \in ended, c \notin gone.procs,
         Queued(c)' => Queued(c), UNCHANGED <<task, ran, open, timers, ended, calls>>,
         \A u \in FT : ctx'[u] = ctx[u] \/ ctx'[u].at \in {"idle", "parent"},
         \A u \in FT : ~ Coming(u, c)'
  PROVE  PInv(c)'
<1>0. PInv(c) /\ InStep(c) /\ FlowTypes
  BY DEF FlowInv, PInv
<1>1. /\ ~ Queued(c) /\ ~ Called(c) /\ open[c] = {} /\ c \notin timers /\ ~ AwaitsChild(c)
      /\ \A u \in FT : OnWay(u, c) => ctx[u].at = "dec"
  BY <1>0 DEF PInv, EndedRests
<1>2. /\ ~ Queued(c)' /\ ~ Called(c)' /\ open'[c] = {} /\ c \notin timers' /\ c \in ended'
  BY <1>1 DEF Called
<1>3. ~ AwaitsChild(c)'
  BY <1>0, <1>1, LocalAwaited
<1>4. ~ Parental(c)'
  BY <1>3 DEF Parental
<1>5. \A u \in FT : OnWay(u, c)' => OnWay(u, c) /\ ctx'[u].at = "dec"
  <2>1. \A u \in FT : OnWay(u, c)' => ctx'[u] = ctx[u] /\ OnWay(u, c)
    BY DEF OnWay
  <2> QED BY <1>1, <2>1
<1>6. InOnePlace(c)'
  <2>1. PICK w \in Spots : Placed(w, c)
    BY <1>0 DEF PInv, InOnePlace
  <2>2. Placed(w, c)'
    BY <2>1, <1>2, <1>3, <1>5 DEF Placed
  <2> QED BY <2>2 DEF InOnePlace
<1>7. OneDbw(c)' /\ GoneRests(c)' /\ EndedRests(c)'
  <2>1. OneDbw(c)'
    BY <1>2 DEF OneDbw, Queued, Called
  <2>2. GoneRests(c)'
    BY DEF GoneRests, Local, Frame
  <2>3. EndedRests(c)'
    BY <1>2, <1>3, <1>5 DEF EndedRests
  <2> QED BY <2>1, <2>2, <2>3
<1>8. Steps(c)' = Steps(c) /\ Walked(c)' /\ L(c)' = L(c) /\ Pos(c)' = Pos(c)
  <2>1. Steps(c)' = Steps(c)
    BY DEF Steps
  <2> QED BY <1>0, <2>1, WalkedStays DEF InStep
<1>9. InStep(c)'
  <2>1. \A u \in FT : ~ (ctx'[u].d.p = c /\ ctx'[u].at \in {"run", "fork"})
    BY <1>5 DEF OnWay
  <2>2. Loaded(c)'
    BY <1>2, <2>1 DEF Loaded, Queued
  <2>3. LoopRuns(c)' /\ ~ Forks(c)'
    BY <2>1 DEF LoopRuns, Forks, FT
  <2>4. L(c) = Pos(c) /\ Pos(c) = Len(Steps(c))
    BY <1>0 DEF InStep, Late, AtEnd
  <2>5. L(c)' = Pos(c)' /\ Pos(c)' = Len(Steps(c))'
    BY <1>8, <2>4
  <2> QED BY <1>4, <1>8, <2>2, <2>3, <2>5 DEF InStep
<1>10. OneRow(c)'
  BY LocalRows
<1> QED BY <1>6, <1>7, <1>9, <1>10 DEF PInv

(* A process that has ended and its sync row. *)
LEMMA ChildFacts ==
  ASSUME FlowInv, NEW t \in FT, ctx[t].at \in {"dec", "parent"}, NEW c, c = ctx[t].d.p,
         NEW s, s = task[c].sync, NEW p, p = sync[s].taid
  PROVE  /\ c \in Procs /\ c \in ended /\ c \notin gone.procs /\ s # 0 /\ s \in DOMAIN sync /\ s \notin gone.syncs
         /\ p \in Procs /\ p \notin gone.procs /\ p # c /\ Row(s, p) /\ HasRow(s)
         /\ PInv(c) /\ PInv(p) /\ ~ Queued(c)
<1>1. c \in ended /\ s # 0 /\ c \in Procs
  BY DEF FlowInv, DecEnded, Names
<1>2. PInv(c) /\ Busy(c)
  BY <1>1 DEF FlowInv, Busy
<1>3. c \notin gone.procs /\ ~ Queued(c)
  BY <1>1, <1>2 DEF PInv, GoneRests, EndedRests
<1>4. s \in DOMAIN sync /\ p \in 1 .. c - 1
  BY <1>1 DEF FlowInv, Nested
<1>5. s \notin gone.syncs
  BY <1>1, <1>3 DEF FlowInv, GoneBelow
<1>6. p \in Procs /\ p \notin gone.procs
  BY <1>4, <1>5 DEF FlowInv, Names, GoneBelow
<1>7. p # c
  <2>1. c \in 1 .. Len(task)
    BY <1>1 DEF FlowInv, FlowTypes, Procs
  <2> QED BY <2>1, <1>4
<1> QED BY <1>1, <1>2, <1>3, <1>4, <1>5, <1>6, <1>7 DEF FlowInv, Row, HasRow

(* The row after the counter goes down. *)
LEMMA CntSet ==
  ASSUME FlowInv, NEW s \in DOMAIN sync, sync' = [sync EXCEPT ![s].cnt = @ - 1]
  PROVE  /\ sync' \in Seq(SyncRec) /\ DOMAIN sync' = DOMAIN sync /\ Len(sync') = Len(sync)
         /\ sync'[s].cnt = sync[s].cnt - 1 /\ sync[s].cnt \in Int
         /\ \A r \in DOMAIN sync : sync'[r].taid = sync[r].taid /\ sync'[r].step = sync[r].step
         /\ \A r \in DOMAIN sync : r # s => sync'[r] = sync[r]
<1>1. sync \in Seq(SyncRec)
  BY DEF FlowInv, FlowTypes
<1>2. sync[s] \in SyncRec
  BY <1>1
<1>3. PICK r : r = [sync[s] EXCEPT !.cnt = @ - 1]
  OBVIOUS
<1>4. sync' = [sync EXCEPT ![s] = r]
  BY <1>3, PutCnt
<1>5. r \in SyncRec /\ r.taid = sync[s].taid /\ r.step = sync[s].step /\ r.cnt = sync[s].cnt - 1 /\ sync[s].cnt \in Int
  BY <1>2, <1>3, RecCnt DEF SyncRec
<1>6. /\ sync' \in Seq(SyncRec) /\ DOMAIN sync' = DOMAIN sync /\ Len(sync') = Len(sync)
      /\ sync'[s] = r
      /\ \A q \in DOMAIN sync : q # s => sync'[q] = sync[q]
  BY <1>1, <1>4, <1>5, SeqPut
<1> QED BY <1>5, <1>6

(* The child has ended: it is awaited no longer, and the counter is one less. *)
LEMMA DecStep ==
  ASSUME FlowInv, NEW t \in FT, Dec(t)
  PROVE  FlowInv'
<1>1. PICK d : d = ctx[t].d
  OBVIOUS
<1>2. PICK c : c = d.p
  OBVIOUS
<1>3. PICK s : s = task[c].sync
  OBVIOUS
<1>4. PICK p : p = sync[s].taid
  OBVIOUS
<1>5. ctx[t].at = "dec" /\ ctx \in [FT -> CtxRec] /\ d \in DbwRec
  BY <1>1 DEF Dec, FlowInv, FlowTypes, CtxRec
<1>6. /\ c \in Procs /\ c \in ended /\ c \notin gone.procs /\ s # 0 /\ s \in DOMAIN sync /\ s \notin gone.syncs
      /\ p \in Procs /\ p \notin gone.procs /\ p # c /\ Row(s, p) /\ HasRow(s)
      /\ PInv(c) /\ PInv(p) /\ ~ Queued(c)
  BY <1>1, <1>2, <1>3, <1>4, <1>5, ChildFacts
<1>7. /\ sync' = [sync EXCEPT ![s].cnt = @ - 1]
      /\ Become(t, IF sync[s].cnt = 1 THEN Doing("parent", d) ELSE IdleCtx)
      /\ gone' = gone /\ task' = task /\ open' = open /\ timers' = timers /\ queue' = queue /\ calls' = calls
      /\ merged' = merged /\ ran' = ran /\ ended' = ended /\ asked' = asked
  BY <1>1, <1>2, <1>3, <1>6 DEF Dec
<1>8. /\ sync' \in Seq(SyncRec) /\ DOMAIN sync' = DOMAIN sync /\ Len(sync') = Len(sync)
      /\ sync'[s].cnt = sync[s].cnt - 1 /\ sync[s].cnt \in Int
      /\ \A r \in DOMAIN sync : sync'[r].taid = sync[r].taid /\ sync'[r].step = sync[r].step
      /\ \A r \in DOMAIN sync : r # s => sync'[r] = sync[r]
  BY <1>6, <1>7, CntSet
<1>9. PICK e : e = IF sync[s].cnt = 1 THEN Doing("parent", d) ELSE IdleCtx
  OBVIOUS
<1>a. "parent" \in Places
  BY DEF Places
<1>b. Doing("parent", d) \in CtxRec /\ Doing("parent", d).at = "parent" /\ Doing("parent", d).d = d
  BY <1>5, <1>a, DoingType
<1>10. /\ e \in CtxRec
       /\ sync[s].cnt = 1 => e.at = "parent" /\ e.d.p = c
       /\ sync[s].cnt # 1 => e.at = "idle"
  BY <1>2, <1>9, <1>b, IdleType
<1>11. ctx' \in [FT -> CtxRec] /\ ctx'[t] = e /\ \A u \in FT : u # t => ctx'[u] = ctx[u]
  BY <1>5, <1>7, <1>9, <1>10 DEF Become
<1>12. FlowTypes'
  <2>1. Procs' = Procs
    BY <1>7 DEF Procs
  <2> QED BY <1>7, <1>8, <1>11, <2>1 DEF FlowTypes, FlowInv
<1>13. Local({c, p})
  <2>1. Frame({c, p})
    BY <1>7, <1>8 DEF Frame, SameProcess, Procs, FlowInv, FlowTypes
  <2>2. QueueOf({c, p}) /\ CallsOf({c, p})
    BY <1>7 DEF QueueOf, CallsOf
  <2>3. \A q : Row(task[c].sync, q) => q = p
    BY <1>3, <1>4 DEF Row
  <2>4. ctx[t].at = "dec" /\ ctx[t].d.p = c /\ c \in ended' /\ task[c].sync # 0
    BY <1>1, <1>2, <1>3, <1>5, <1>6, <1>7
  <2>5. ctx'[t].at \in {"parent", "idle"} /\ (ctx'[t].at # "idle" => ctx'[t].d.p = c)
    BY <1>10, <1>11
  <2>6. CtxOf(t, {c, p})
    BY <2>3, <2>4, <2>5 DEF CtxOf
  <2> QED BY <1>11, <2>1, <2>2, <2>6 DEF Local
<1>14. Ending(c) /\ c \in Awaited(s)
  BY <1>1, <1>2, <1>3, <1>5, <1>6 DEF Ending, Awaited
<1>15. \A u \in FT : u # t => ~ OnWay(u, c)
  <2>1. PICK w \in Spots : Placed(w, c)
    BY <1>6 DEF PInv, InOnePlace
  <2>2. OnWay(t, c)
    BY <1>1, <1>2, <1>5 DEF OnWay
  <2> QED BY <2>1, <2>2 DEF Placed
<1>16. c \notin Awaited(s)'
  <2>1. ~ Ending(c)'
    <3>1. \A u \in FT : u # t => ~ (ctx'[u].at = "dec" /\ ctx'[u].d.p = c)
      BY <1>11, <1>15 DEF OnWay
    <3>2. ctx'[t].at # "dec"
      BY <1>10, <1>11
    <3> QED BY <3>1, <3>2 DEF Ending
  <2> QED BY <1>6, <1>7, <2>1 DEF Awaited
<1>17. Awaited(s)' \subseteq Awaited(s) \ {c}
  BY <1>13, <1>16, LocalAwaited DEF FlowInv
<1>18. PICK n : n = Cardinality(Awaited(s))
  OBVIOUS
<1>19. /\ n \in Nat /\ n > 0 /\ IsFiniteSet(Awaited(s))
       /\ Cardinality(Awaited(s)') \in Nat /\ Cardinality(Awaited(s)') <= n - 1
  <2>1. IsFiniteSet(Awaited(s)) /\ n \in Nat
    BY <1>18, AwaitedIsFinite DEF FlowInv
  <2>2. IsFiniteSet(Awaited(s) \ {c}) /\ Cardinality(Awaited(s) \ {c}) = n - 1
    BY <1>14, <1>18, <2>1, FS_RemoveElement
  <2>3. Cardinality(Awaited(s) \ {c}) \in Nat
    BY <2>2, FS_CardinalityType
  <2>4. Cardinality(Awaited(s)') \in Nat /\ Cardinality(Awaited(s)') <= n - 1
    BY <1>17, <2>2, FS_Subset, FS_CardinalityType
  <2> QED BY <2>1, <2>2, <2>3, <2>4
<1>20. PICK m : m = Todo(s)
  OBVIOUS
<1>21. m \in Nat /\ Todo(s)' \in {0, m}
  <2>1. m \in Nat
    BY <1>20, TodoIsNat DEF FlowInv
  <2>2. Todo(s)' \in {0, m}
    BY <1>13, <1>20, LocalFork
  <2> QED BY <2>1, <2>2
<1>22. sync[s].cnt >= n + m
  BY <1>6, <1>18, <1>20 DEF FlowInv, Counts, Counted
<1>23. Counts'
  <2>1. Counted(s)'
    <3>1. Cardinality(Awaited(s)') + Todo(s)' <= sync[s].cnt - 1
      BY <1>8, <1>19, <1>21, <1>22
    <3>2. Cardinality(Awaited(s)') + Todo(s)' \in Int
      BY <1>19, <1>21
    <3>3. sync'[s].cnt >= Cardinality(Awaited(s)') + Todo(s)'
      BY <1>8, <3>1, <3>2
    <3> QED BY <3>3 DEF Counted
  <2>2. \A r \in DOMAIN sync : r # s => Counted(r)'
    BY <1>8, <1>13, LocalCounts
  <2> QED BY <1>8, <2>1, <2>2 DEF Counts
<1>24. PInv(c)'
  <2>1. \A u \in FT : ~ Coming(u, c)
    BY <1>6 DEF PInv, EndedRests
  <2>2. \A u \in FT : u # t => ~ Coming(u, c)'
    BY <1>11, <1>13, <2>1, ComingStays
  <2>3. ~ Coming(t, c)'
    <3>1. ~ Row(s, c)'
      <4>1. ~ Row(s, c)
        BY <1>4, <1>6 DEF Row
      <4> QED BY <4>1, <1>13, LocalRow DEF Local
    <3>2. ctx'[t].at = "parent" => task'[ctx'[t].d.p].sync = s
      BY <1>3, <1>7, <1>10, <1>11
    <3> QED BY <3>1, <3>2 DEF Coming
  <2>4. \A u \in FT : ~ Coming(u, c)'
    BY <2>2, <2>3
  <2>5. \A u \in FT : ctx'[u] = ctx[u] \/ ctx'[u].at \in {"idle", "parent"}
    BY <1>10, <1>11
  <2>6. Queued(c)' => Queued(c)
    BY <1>7 DEF Queued
  <2> QED BY <1>6, <1>7, <1>13, <2>4, <2>5, <2>6, EndedStays
<1>25. PInv(p)'
  <2>0. InStep(p) /\ Steps(p)' = Steps(p)
    BY <1>6, <1>7 DEF PInv, Steps
  <2>1. AwaitsChild(p)
    BY <1>6, <1>14 DEF AwaitsChild
  <2>2. ~ Forks(p)
    <3>1. ASSUME Forks(p) PROVE FALSE
      <4>1. PICK f : f = ctx["worker"].d
        OBVIOUS
      <4>2. PICK r : r = MySync(f)
        OBVIOUS
      <4>3. ForkedRow(f, r) /\ f.p = p
        BY <3>1, <4>1, <4>2 DEF Forks, FlowInv, ForkOK
      <4>4. r = s
        BY <1>6, <1>14, <4>3 DEF ForkedRow
      <4>5. Queued(c)
        BY <1>14, <4>3, <4>4 DEF ForkedRow
      <4> QED BY <1>6, <4>5
    <3> QED BY <3>1
  <2>3. PICK w \in Spots : Placed(w, p)
    BY <1>6 DEF PInv, InOnePlace
  <2>4. w = "children"
    BY <2>1, <2>2, <2>3 DEF Placed
  <2>5. /\ ~ Queued(p) /\ ~ Called(p) /\ open[p] = {} /\ p \notin timers
        /\ \A u \in FT : ~ OnWay(u, p)
    BY <2>3, <2>4 DEF Placed, FT
  <2>6. \A u \in FT : ~ Coming(u, p)
    BY <2>3, <2>4, ThreadsAre DEF Placed
  <2>7. p \notin ended
    BY <1>6, <2>1 DEF PInv, EndedRests
  <2>8. Parental(p) /\ L(p) = Pos(p) /\ task[p].state \in {"halt", "aborted"}
    BY <2>0, <2>1 DEF Parental, Late, InStep
  <2>9. /\ ~ Queued(p)' /\ ~ Called(p)' /\ open'[p] = {} /\ p \notin timers' /\ p \notin ended' /\ p \notin gone'.procs
    BY <1>6, <1>7, <2>5, <2>7 DEF Queued, Called
  <2>10. \A u \in FT : ~ OnWay(u, p)'
    <3>1. \A u \in FT : u # t => ~ OnWay(u, p)'
      BY <1>11, <2>5 DEF OnWay
    <3>2. ~ OnWay(t, p)'
      BY <1>10, <1>11 DEF OnWay
    <3> QED BY <3>1, <3>2
  <2>11. \A u \in FT : u # t => ~ Coming(u, p)'
    BY <1>11, <1>13, <2>6, ComingStays
  <2>12. \E v \in Spots : Placed(v, p)'
    <3>1. CASE sync[s].cnt = 1
      <4>1. n = 1
        BY <1>19, <1>21, <1>22, <3>1
      <4>2. Cardinality(Awaited(s)') = 0
        BY <1>19, <4>1
      <4>3. IsFiniteSet(Awaited(s)')
        BY <1>12, <1>17, <1>19, FS_Subset
      <4>4. Awaited(s)' = {}
        BY <4>2, <4>3, FS_EmptySet
      <4>5. ~ AwaitsChild(p)'
        <5>1. \A r \in DOMAIN sync : Row(r, p) /\ Awaited(r) # {} => r = s
          BY <1>6, <1>14 DEF PInv, OneRow
        <5>2. \A r : Awaited(r)' # {} => Awaited(r) # {}
          BY <1>13, LocalAwaited DEF FlowInv
        <5>3. \A r : Row(r, p)' => Row(r, p)
          BY <1>13, LocalRow DEF Local
        <5> QED BY <4>4, <5>1, <5>2, <5>3, <1>8 DEF AwaitsChild
      <4>6. Placed(For(t), p)'
        BY <2>9, <2>10, <2>11, <4>5 DEF Placed
      <4> QED BY <4>6 DEF For, Spots
    <3>2. CASE sync[s].cnt # 1
      <4>1. ~ Coming(t, p)'
        BY <1>10, <1>11, <3>2 DEF Coming
      <4>2. Placed("children", p)'
        BY <2>9, <2>10, <2>11, <4>1 DEF Placed
      <4> QED BY <4>2 DEF Spots
    <3> QED BY <3>1, <3>2
  <2>13. Walked(p)' /\ L(p)' = Pos(p)'
    BY <1>6, <1>7, <2>0, <2>8, WalkedStays DEF InStep
  <2>14. Parental(p)' => task'[p].state \in {"halt", "aborted"}
    BY <1>7, <2>8
  <2>15. Alone("none", p)' /\ OneRow(p)'
    BY <1>6, <1>13, <2>10, LocalRows DEF Alone
  <2>16. \A x, y \in calls' : x.p = p /\ y.p = p => x = y
    BY <2>9 DEF Called
  <2> QED BY <1>6, <2>9, <2>12, <2>13, <2>14, <2>15, <2>16, ToRest
<1> QED BY <1>6, <1>12, <1>13, <1>23, <1>24, <1>25, LocalStep

(* A process whose last child has come is nowhere else. *)
LEMMA AtComing ==
  ASSUME FlowInv, NEW t \in FT, NEW p \in Procs, Coming(t, p)
  PROVE  /\ ~ Queued(p) /\ ~ Called(p) /\ open[p] = {} /\ p \notin timers /\ p \notin ended
         /\ ~ AwaitsChild(p)
         /\ \A u \in FT : ~ OnWay(u, p)
         /\ \A u \in FT : u # t => ~ Coming(u, p)
         /\ L(p) = Pos(p) /\ task[p].state \in {"halt", "aborted"} /\ Walked(p)
<1>0. PInv(p)
  BY DEF FlowInv
<1>1. PICK w \in Spots : Placed(w, p)
  BY <1>0 DEF PInv, InOnePlace
<1>2. w = For(t)
  BY <1>1 DEF Placed
<1>3. /\ ~ Queued(p) /\ ~ Called(p) /\ open[p] = {} /\ p \notin timers
      /\ \A u \in FT : ~ OnWay(u, p)
  BY <1>1, <1>2, ThreadsAre DEF Placed
<1>4. ~ Forks(p)
  BY <1>3 DEF Forks, OnWay, FT
<1>5. ~ AwaitsChild(p)
  BY <1>1, <1>2, <1>4, ThreadsAre DEF Placed
<1>6. \A u \in FT : u # t => ~ Coming(u, p)
  <2>1. ASSUME NEW u \in FT, u # t PROVE For(u) # For(t)
    <3>1. (u = "worker" /\ t = "loop") \/ (u = "loop" /\ t = "worker")
      BY <2>1 DEF FT
    <3> QED BY <3>1 DEF For
  <2>2. \A u \in FT : Coming(u, p) => w = For(u)
    BY <1>1 DEF Placed
  <2> QED BY <1>2, <2>1, <2>2
<1>7. p \notin ended
  BY <1>0 DEF PInv, EndedRests
<1>8. Parental(p) /\ InStep(p)
  BY <1>0 DEF Parental, PInv
<1>9. L(p) = Pos(p) /\ task[p].state \in {"halt", "aborted"} /\ Walked(p)
  BY <1>8 DEF InStep, Late
<1> QED BY <1>3, <1>5, <1>6, <1>7, <1>9

(* The parent is queued: it was in no other place. *)
LEMMA ContinueParentStep ==
  ASSUME FlowInv, NEW t \in FT, ContinueParent(t)
  PROVE  FlowInv'
<1>1. PICK d : d = ctx[t].d
  OBVIOUS
<1>2. PICK c : c = d.p
  OBVIOUS
<1>3. PICK s : s = task[c].sync
  OBVIOUS
<1>4. PICK p : p = sync[s].taid
  OBVIOUS
<1>5. ctx[t].at = "parent" /\ ctx \in [FT -> CtxRec] /\ d \in DbwRec /\ queue \in Seq(DbwRec)
  BY <1>1 DEF ContinueParent, FlowInv, FlowTypes, CtxRec
<1>6. /\ c \in Procs /\ c \in ended /\ c \notin gone.procs /\ s # 0 /\ s \in DOMAIN sync /\ s \notin gone.syncs
      /\ p \in Procs /\ p \notin gone.procs /\ p # c /\ Row(s, p) /\ HasRow(s)
      /\ PInv(c) /\ PInv(p) /\ ~ Queued(c)
  BY <1>1, <1>2, <1>3, <1>4, <1>5, ChildFacts
<1>7. /\ \E r \in DOMAIN sync : queue' = Append(queue, Dbw(p, task[p].pos, task[p].state, sync[r].cnt))
      /\ Become(t, IdleCtx)
      /\ gone' = gone /\ task' = task /\ sync' = sync /\ open' = open /\ timers' = timers /\ calls' = calls
      /\ merged' = merged /\ ran' = ran /\ ended' = ended /\ asked' = asked
  BY <1>1, <1>2, <1>3, <1>4, <1>6 DEF ContinueParent, Live
<1>8. PICK r \in DOMAIN sync : queue' = Append(queue, Dbw(p, task[p].pos, task[p].state, sync[r].cnt))
  BY <1>7
<1>9. PICK e : e = Dbw(p, task[p].pos, task[p].state, sync[r].cnt)
  OBVIOUS
<1>10. e \in DbwRec /\ e.p = p /\ e.k = task[p].pos /\ e.st = task[p].state /\ queue' = Append(queue, e)
  <2>1. task \in Seq(TaskRec) /\ sync \in Seq(SyncRec)
    BY DEF FlowInv, FlowTypes
  <2>2. task[p] \in TaskRec /\ sync[r] \in SyncRec
    BY <1>6, <2>1 DEF Procs
  <2>3. task[p].pos \in Nat /\ task[p].state \in States /\ sync[r].cnt \in Int
    BY <2>2 DEF TaskRec, SyncRec
  <2>4. p \in Nat
    BY <1>6, <2>1 DEF Procs
  <2> QED BY <1>8, <1>9, <2>3, <2>4, DbwType
<1>11. ctx' \in [FT -> CtxRec] /\ ctx'[t].at = "idle" /\ \A u \in FT : u # t => ctx'[u] = ctx[u]
  BY <1>5, <1>7, IdleType DEF Become
<1>12. FlowTypes'
  <2>1. Procs' = Procs
    BY <1>7 DEF Procs
  <2>2. queue' \in Seq(DbwRec)
    BY <1>5, <1>10
  <2> QED BY <1>7, <1>11, <2>1, <2>2 DEF FlowTypes, FlowInv
<1>13. Local({c, p})
  <2>1. Frame({c, p})
    BY <1>7 DEF Frame, SameProcess, Procs, FlowInv, FlowTypes
  <2>2. QueueOf({c, p}) /\ CallsOf({c, p})
    BY <1>7, <1>10 DEF QueueOf, CallsOf
  <2>3. \A q : Row(task[c].sync, q) => q = p
    BY <1>3, <1>4 DEF Row
  <2>4. ctx[t].at = "parent" /\ ctx[t].d.p = c
    BY <1>1, <1>2, <1>5
  <2>5. CtxOf(t, {c, p})
    BY <1>11, <2>3, <2>4 DEF CtxOf
  <2> QED BY <1>11, <2>1, <2>2, <2>5 DEF Local
<1>14. Coming(t, p)
  BY <1>1, <1>2, <1>3, <1>5, <1>6 DEF Coming
<1>15. /\ ~ Queued(p) /\ ~ Called(p) /\ open[p] = {} /\ p \notin timers /\ p \notin ended
       /\ ~ AwaitsChild(p)
       /\ \A u \in FT : ~ OnWay(u, p)
       /\ \A u \in FT : u # t => ~ Coming(u, p)
       /\ L(p) = Pos(p) /\ task[p].state \in {"halt", "aborted"} /\ Walked(p)
  BY <1>6, <1>14, AtComing
<1>16. Counts'
  BY <1>7, <1>13, LocalCounts DEF Counts
<1>17. \A u \in FT : ctx'[u] = ctx[u] \/ ctx'[u].at = "idle"
  BY <1>11
<1>18. PInv(c)'
  <2>1. \A u \in FT : ~ Coming(u, c)
    BY <1>6 DEF PInv, EndedRests
  <2>2. \A u \in FT : ~ Coming(u, c)'
    BY <1>13, <1>17, <2>1, ComingStays
  <2>3. Queued(c)' => Queued(c)
    <3>1. \A i \in DOMAIN queue' : (i \in DOMAIN queue /\ queue'[i] = queue[i]) \/ queue'[i] = e
      BY <1>5, <1>10
    <3> QED BY <1>6, <1>10, <3>1 DEF Queued
  <2>4. \A u \in FT : ctx'[u] = ctx[u] \/ ctx'[u].at \in {"idle", "parent"}
    BY <1>17
  <2> QED BY <1>6, <1>7, <1>13, <2>2, <2>3, <2>4, EndedStays
<1>19. PInv(p)'
  <2>1. Steps(p)' = Steps(p)
    BY <1>7 DEF Steps
  <2>2. Walked(p)' /\ L(p)' = L(p) /\ Pos(p)' = Pos(p)
    BY <1>6, <1>7, <1>15, <2>1, WalkedStays
  <2>3. About(e)'
    <3>1. e.st # "none"
      BY <1>10, <1>15
    <3>2. e.k = Pos(e.p)' /\ L(e.p)' = Pos(e.p)'
      BY <1>7, <1>10, <1>15 DEF L, Pos
    <3> QED BY <3>1, <3>2 DEF About
  <2>4. \A u \in FT : ~ Coming(u, p)'
    <3>1. ~ Coming(t, p)'
      BY <1>11 DEF Coming
    <3>2. \A u \in FT : u # t => ~ Coming(u, p)'
      BY <1>13, <1>15, <1>17, ComingStays
    <3> QED BY <3>1, <3>2
  <2>5. ~ AwaitsChild(p)'
    BY <1>13, <1>15, LocalAwaited DEF FlowInv
  <2>6. Apart(p)'
    BY <1>7, <1>15, <2>4, <2>5 DEF Apart
  <2>7. ~ Called(p)' /\ p \notin gone'.procs
    BY <1>6, <1>7, <1>15 DEF Called
  <2>8. \A u \in FT : ~ OnWay(u, p)'
    BY <1>11, <1>15 DEF OnWay
  <2>9. Alone("none", p)' /\ OneRow(p)'
    BY <1>6, <1>13, <2>8, LocalRows DEF Alone
  <2> QED BY <1>5, <1>6, <1>10, <1>15, <2>2, <2>3, <2>6, <2>7, <2>9, ToQueue
<1> QED BY <1>6, <1>12, <1>13, <1>16, <1>18, <1>19, LocalStep

-----------------------------------------------------------------------------
(* Repairs by an operator. *)

(* A quiet process is on no thread, and no child of it is about to run it. *)
LEMMA QuietMeans ==
  ASSUME FlowInv, NEW p \in Procs, Quiet(p)
  PROVE  /\ ~ Queued(p) /\ ~ Called(p) /\ ~ Busy(p)
         /\ \A u \in FT : ~ OnWay(u, p) /\ ~ Coming(u, p)
         /\ \A u \in FT : ctx[u].at # "idle" => ParentOf(ctx[u].d.p) # p
<1>1. PICK busy : busy = {ctx[t].d.p : t \in {t \in DOMAIN ctx : ctx[t].at # "idle"}}
  OBVIOUS
<1>2. Runners(p) = {} /\ p \notin busy \union {ParentOf(c) : c \in busy}
  BY <1>1 DEF Quiet
<1>3. DOMAIN ctx = FT
  BY DEF FlowInv, FlowTypes
<1>4. ~ Queued(p)
  <2>1. ASSUME NEW i \in DOMAIN queue, queue[i].p = p PROVE FALSE
    <3>1. <<"queue", i>> \in Runners(p)
      BY <2>1 DEF Runners
    <3> QED BY <3>1, <1>2
  <2> QED BY <2>1 DEF Queued
<1>5. ~ Called(p)
  <2>1. ASSUME NEW d \in calls, d.p = p PROVE FALSE
    <3>1. <<"call", d.k>> \in Runners(p)
      BY <2>1 DEF Runners
    <3> QED BY <3>1, <1>2
  <2> QED BY <2>1 DEF Called
<1>6. \A u \in FT : ctx[u].at # "idle" => ctx[u].d.p \in busy
  BY <1>1, <1>3
<1>7. ~ Busy(p)
  BY <1>2, <1>6 DEF Busy
<1>8. \A u \in FT : ~ OnWay(u, p)
  BY <1>7 DEF OnWay, Busy
<1>9. \A u \in FT : ctx[u].at # "idle" => ParentOf(ctx[u].d.p) # p
  BY <1>2, <1>6
<1>10. ASSUME NEW u \in FT, Coming(u, p) PROVE FALSE
  <2>1. PICK c : c = ctx[u].d.p
    OBVIOUS
  <2>2. PICK s : s = task[c].sync
    OBVIOUS
  <2>3. ctx[u].at = "parent" /\ s \in DOMAIN sync /\ sync[s].taid = p
    BY <1>10, <2>1, <2>2 DEF Coming, Row
  <2>4. s # 0
    BY <2>3 DEF FlowInv, FlowTypes
  <2>5. ParentOf(c) = p
    BY <2>2, <2>3, <2>4 DEF ParentOf
  <2> QED BY <1>9, <2>1, <2>3, <2>5
<1> QED BY <1>4, <1>5, <1>7, <1>8, <1>9, <1>10

(* A process that can be repaired is nowhere. *)
LEMMA RepairableMeans ==
  ASSUME FlowInv, NEW p \in Procs, Repairable(p), task[p].state \in {"error", "done", "none"}
  PROVE  /\ LoopIsFree /\ p \notin gone.procs /\ asked.crashes = 0
         /\ Free(p) /\ \A u \in FT : ~ OnWay(u, p) /\ ~ Coming(u, p)
         /\ ~ Moved(p) /\ task[p].state # "none" => L(p) = Pos(p)
         /\ Walked(p) /\ OneRow(p)
<1>1. /\ LoopIsFree /\ p \notin gone.procs /\ asked.crashes = 0 /\ Quiet(p)
      /\ p \notin ended /\ open[p] = {} /\ p \notin timers
  BY DEF Repairable, Live
<1>2. ~ Queued(p) /\ ~ Called(p) /\ \A u \in FT : ~ OnWay(u, p) /\ ~ Coming(u, p)
  BY <1>1, QuietMeans
<1>3. InStep(p) /\ OneRow(p)
  BY DEF FlowInv, PInv
<1>4. ~ Parental(p)
  BY <1>3 DEF InStep
<1>5. ~ AwaitsChild(p)
  BY <1>4 DEF Parental
<1>6. Free(p)
  BY <1>1, <1>2, <1>5 DEF Free, Apart
<1>7. Resting(p)
  BY <1>2 DEF Resting
<1>8. task[p].state \in {"error", "done"} => L(p) = Pos(p)
  BY <1>1, <1>3, <1>7 DEF InStep
<1> QED BY <1>1, <1>2, <1>3, <1>6, <1>8 DEF InStep

(* A repair leaves the tables. *)
LEMMA RepairCalm ==
  ASSUME FlowInv, NEW p \in Procs, NEW where, Repair(p, where)
  PROVE  /\ Calm /\ TaskOf(p) /\ OpenOf(p) /\ CallsSet(p)
         /\ gone' = gone /\ task' = task /\ open' = open /\ timers' = timers /\ queue' = queue /\ calls' = calls /\ ended' = ended
         /\ Steps(p)' = Steps(p) /\ task'[p].pos = task[p].pos
<1>1. asked' = [asked EXCEPT !.repairs = @ + 1] /\ UNCHANGED <<gone, task, sync, open, timers, queue, calls, merged, ended>>
  BY DEF Repair
<1>2. asked \in [roots : SUBSET Roots, aborts : Nat, repairs : Nat,
                 moves : Nat, removals : Nat, crashes : Nat]
  BY DEF FlowInv, FlowTypes
<1>3. /\ asked' \in [roots : SUBSET Roots, aborts : Nat, repairs : Nat,
                 moves : Nat, removals : Nat, crashes : Nat]
      /\ asked'.crashes = asked.crashes
  BY <1>1, <1>2
<1>4. Calm
  BY <1>1, <1>3 DEF Calm, FlowInv, FlowTypes
<1>5. TaskOf(p) /\ OpenOf(p)
  BY <1>1, TouchRows DEF FlowInv
<1> QED BY <1>1, <1>4, <1>5 DEF CallsSet, Steps

(* The last step is taken back. *)
LEMMA RanBack ==
  ASSUME FlowInv, NEW p \in Procs, Walked(p), L(p) = Pos(p), ran' = [ran EXCEPT ![p] = Front(@)],
         task'[p].pos = task[p].pos, Steps(p)' = Steps(p)
  PROVE  RanOf(p) /\ Walked(p)' /\ L(p)' = Pos(p) - 1 /\ Pos(p)' = Pos(p)
<1>1. ran \in Seq(Seq(Nat)) /\ p \in DOMAIN ran
  BY DEF FlowInv, FlowTypes, Procs
<1>2. PICK r \in Seq(Nat) : r = ran[p]
  BY <1>1
<1>3. PICK n \in Nat : n = Pos(p) /\ n > 0
  <2>1. Pos(p) \in 1 .. Len(Steps(p))
    BY DEF Walked
  <2> QED BY <2>1
<1>4. Len(r) = n /\ r = [i \in 1 .. n |-> i]
  BY <1>2, <1>3 DEF Walked, L
<1>5. PICK f : f = [i \in 1 .. n - 1 |-> i]
  OBVIOUS
<1>6. f \in Seq(Nat) /\ Len(f) = n - 1
  BY <1>3, <1>5
<1>7. Front(r) = f
  BY <1>3, <1>4, <1>5 DEF Front
<1>8. ran' = [ran EXCEPT ![p] = f]
  BY <1>2, <1>7
<1>9. ran'[p] = f
  BY <1>1, <1>6, <1>8, SeqPut
<1>10. L(p)' = n - 1 /\ Pos(p)' = n
  BY <1>3, <1>6, <1>9 DEF L, Pos
<1>11. Walked(p)'
  <2>1. Pos(p)' \in 1 .. Len(Steps(p))'
    BY <1>3, <1>10 DEF Walked
  <2> QED BY <1>5, <1>9, <1>10, <2>1 DEF Walked
<1> QED BY <1>3, <1>6, <1>8, <1>10, <1>11 DEF RanOf

(* The dbw that takes up a process at its current step. *)
LEMMA LoopDbw ==
  ASSUME FlowInv, NEW p \in Procs, NEW st \in States, NEW d, d = Dbw(p, task[p].pos, st, -1)
  PROVE  d \in DbwRec /\ d.p = p /\ d.k = task[p].pos /\ d.st = st
<1>1. p \in Nat /\ task[p].pos \in Nat
  BY PosType
<1>2. -1 \in Int
  OBVIOUS
<1>3. PICK k \in Nat : k = task[p].pos
  BY <1>1
<1>4. d = Dbw(p, k, st, -1)
  BY <1>3
<1> QED BY <1>1, <1>2, <1>3, <1>4, DbwType

(* The step is to be done again. *)
LEMMA OnceStep ==
  ASSUME ~ MayDisturb, FlowInv, NEW p \in Procs, Once(p)
  PROVE  FlowInv'
<1>1. Repairable(p) /\ Repair(p, "run") /\ (task[p].state = "error" \/ Moved(p)) /\ Steps(p)[task[p].pos].kind \notin {"split", "if"}
  BY DEF Once
<1>2. Moved(p) => task[p].state = "none" /\ L(p) = Pos(p) - 1
  BY DEF Moved, L, Pos
<1>3. /\ LoopIsFree /\ p \notin gone.procs /\ asked.crashes = 0
      /\ Free(p) /\ \A u \in FT : ~ OnWay(u, p) /\ ~ Coming(u, p)
      /\ ~ Moved(p) /\ task[p].state # "none" => L(p) = Pos(p)
      /\ Walked(p) /\ OneRow(p)
  BY <1>1, <1>2, RepairableMeans
<1>4. /\ Calm /\ TaskOf(p) /\ OpenOf(p) /\ CallsSet(p)
      /\ gone' = gone /\ task' = task /\ open' = open /\ timers' = timers /\ queue' = queue /\ calls' = calls /\ ended' = ended
      /\ Steps(p)' = Steps(p) /\ task'[p].pos = task[p].pos
  BY <1>1, RepairCalm
<1>5. RanOf(p) /\ Walked(p)' /\ L(p)' = Pos(p) - 1 /\ Pos(p)' = Pos(p)
  <2>1. CASE Moved(p)
    <3>1. ran' = ran
      BY <2>1 DEF Once
    <3> QED BY <1>2, <1>3, <1>4, <2>1, <3>1, WalkedStays, TouchRows DEF FlowInv
  <2>2. CASE ~ Moved(p)
    <3>1. ran' = [ran EXCEPT ![p] = Front(@)] /\ L(p) = Pos(p)
      BY <1>1, <1>3, <2>2 DEF Once
    <3> QED BY <1>3, <1>4, <3>1, RanBack
  <2> QED BY <2>1, <2>2
<1>6. PICK d : d = Dbw(p, task[p].pos, "none", -1)
  OBVIOUS
<1>7. d \in DbwRec /\ d.p = p /\ d.k = task[p].pos /\ d.st = "none"
  <2>1. "none" \in States
    BY DEF States
  <2> QED BY <1>6, <2>1, LoopDbw
<1>8. "loop" \in FT /\ ctx["loop"].at = "idle"
  BY <1>3, LoopFree
<1>9. "run" \in Places
  BY DEF Places
<1>10. PICK c : c = Doing("run", d)
  OBVIOUS
<1>11. c \in CtxRec /\ c.at = "run" /\ c.d = d
  BY <1>7, <1>9, <1>10, DoingType
<1>12. c.at \notin {"parent", "dec", "fork"} /\ c.d.p = p
  BY <1>7, <1>11
<1>13. Become("loop", c)
  BY <1>1, <1>6, <1>10 DEF Repair
<1>14. ThreadOf(p) /\ ctx'["loop"] = c /\ (\A u \in FT : u # "loop" => ctx'[u] = ctx[u]) /\ \A u \in FT : ctx'[u] = ctx[u] \/ ctx'[u].at # "parent"
  BY <1>8, <1>11, <1>12, <1>13, BecomeOf
<1>15. Touch(p)
  BY <1>4, <1>5, <1>14 DEF Touch, QueueOf
<1>16. Local({p})
  BY <1>15, TouchIsLocal
<1>17. Free(p)'
  BY <1>3, <1>4, <1>14, <1>16, FreeStays
<1>18. Alone("loop", p)'
  BY <1>3, <1>14 DEF Alone, OnWay
<1>19. OneRow(p)' /\ p \notin gone'.procs
  BY <1>3, <1>4, <1>16, LocalRows
<1>20. ctx'["loop"].at = "run" /\ ctx'["loop"].d.p = p /\ ctx'["loop"].d = d
  BY <1>11, <1>12, <1>14
<1>21. d.k = Pos(d.p)' /\ L(d.p)' = Pos(d.p)' - 1
  <2>1. d.k = Pos(p)' /\ L(p)' = Pos(p)' - 1
    BY <1>4, <1>5, <1>7 DEF Pos
  <2> QED BY <1>7, <2>1 DEF Pos, L
<1>22. About(ctx["loop"].d)'
  <2>1. About(d)'
    BY <1>7, <1>21 DEF About
  <2> QED BY <1>20, <2>1 DEF About, Pos, L
<1>23. LoopRuns(p)'
  <2>1. Steps(p)'[Pos(p)'].kind \notin {"split", "if"}
    BY <1>1, <1>4 DEF Pos
  <2> QED BY <1>7, <1>20, <2>1 DEF LoopRuns
<1>24. PInv(p)'
  BY <1>5, <1>8, <1>17, <1>18, <1>19, <1>20, <1>22, <1>23, ToThread
<1> QED BY <1>15, <1>24, TouchStep

(* The step counts as carried out. *)
LEMMA ProcessNextStep ==
  ASSUME FlowInv, NEW p \in Procs, ProcessNext(p)
  PROVE  FlowInv'
<1>1. Repairable(p) /\ Repair(p, "next") /\ (task[p].state \in {"error", "done"} \/ Moved(p))
  BY DEF ProcessNext
<1>2. Moved(p) => task[p].state = "none" /\ L(p) = Pos(p) - 1
  BY DEF Moved, L, Pos
<1>3. /\ LoopIsFree /\ p \notin gone.procs /\ asked.crashes = 0
      /\ Free(p) /\ \A u \in FT : ~ OnWay(u, p) /\ ~ Coming(u, p)
      /\ ~ Moved(p) /\ task[p].state # "none" => L(p) = Pos(p)
      /\ Walked(p) /\ OneRow(p)
  BY <1>1, <1>2, RepairableMeans
<1>4. /\ Calm /\ TaskOf(p) /\ OpenOf(p) /\ CallsSet(p)
      /\ gone' = gone /\ task' = task /\ open' = open /\ timers' = timers /\ queue' = queue /\ calls' = calls /\ ended' = ended
      /\ Steps(p)' = Steps(p) /\ task'[p].pos = task[p].pos
  BY <1>1, RepairCalm
<1>6. PICK d : d = Dbw(p, task[p].pos, "none", -1)
  OBVIOUS
<1>7. d \in DbwRec /\ d.p = p /\ d.k = task[p].pos /\ d.st = "none"
  <2>1. "none" \in States
    BY DEF States
  <2> QED BY <1>6, <2>1, LoopDbw
<1>5. RanOf(p) /\ Walked(p)' /\ L(p)' = Pos(p)'
  <2>1. CASE ~ Moved(p)
    <3>1. ran' = ran
      BY <2>1 DEF ProcessNext
    <3>2. L(p) = Pos(p)
      BY <1>1, <1>3, <2>1
    <3> QED BY <1>3, <1>4, <3>1, <3>2, WalkedStays, TouchRows DEF FlowInv
  <2>2. CASE Moved(p)
    <3>3. About(d)
      BY <1>2, <1>7, <2>2 DEF About, Pos
    <3>4. Ran(d)
      BY <1>7, <2>2 DEF ProcessNext, Ran
    <3> QED BY <1>3, <1>4, <1>7, <3>3, <3>4, RanStep
  <2> QED BY <2>1, <2>2
<1>8. Become("loop", Doing("next", d))
  BY <1>1, <1>6 DEF Repair
<1>9. /\ ~ Queued(p) /\ ~ AwaitsChild(p) /\ p \notin ended
      /\ ~ Called(p)' /\ open'[p] = {} /\ p \notin timers'
  BY <1>3, <1>4 DEF Free, Apart, Called
<1> QED BY <1>3, <1>4, <1>5, <1>7, <1>8, <1>9, LoopGoesOn

-----------------------------------------------------------------------------
(* A crash: what is in memory is gone, the rows stay. *)

(* A step that leaves process q where it is; an abort may set its state. *)
(* A process whose places only become fewer keeps its invariant. *)
StaysThere(q) ==
  /\ Queued(q)' <=> Queued(q)
  /\ Called(q)' => Called(q)
  /\ \A t \in FT : OnWay(t, q)' <=> OnWay(t, q)
  /\ \A t \in FT : Coming(t, q)' => Coming(t, q)
  /\ AwaitsChild(q)' => AwaitsChild(q) \/ Forks(q)
  /\ Forks(q)' <=> Forks(q)
  /\ \A t \in FT : ctx'[t].at # "idle" /\ ctx'[t].d.p = q => ctx'[t].at = ctx[t].at /\ ctx'[t].d = ctx[t].d
  /\ \A d : d \in calls' /\ d.p = q => d \in calls
  /\ OneDbw(q)'
  /\ \A j \in DOMAIN queue' : queue'[j].p = q => \E i \in DOMAIN queue : queue[i] = queue'[j]
KeepsRow(q) ==
  /\ ran'[q] = ran[q] /\ open'[q] = open[q]
  /\ task'[q].pos = task[q].pos /\ task'[q].wf = task[q].wf /\ task'[q].sq = task[q].sq
  /\ task'[q].state \in {task[q].state, "aborted"}
  /\ q \in timers' <=> q \in timers
  /\ q \in ended' <=> q \in ended
KeepsProcess(q) ==
  /\ StaysThere(q) /\ KeepsRow(q)
  /\ GoneRests(q)' /\ OneRow(q)' /\ asked'.crashes = asked.crashes

(* The same, stated for the whole invariant of the process. *)
LEMMA KeepsPInv ==
  ASSUME NEW q \in Procs, PInv(q), KeepsProcess(q)
  PROVE  PInv(q)'
<1>1. /\ Queued(q)' <=> Queued(q)
      /\ Called(q)' => Called(q)
      /\ \A t \in FT : OnWay(t, q)' <=> OnWay(t, q)
      /\ \A t \in FT : Coming(t, q)' => Coming(t, q)
      /\ Forks(q)' <=> Forks(q)
      /\ AwaitsChild(q)' => AwaitsChild(q) \/ Forks(q)
  BY DEF KeepsProcess, StaysThere
<1>2. \A t \in FT : ctx'[t].at # "idle" /\ ctx'[t].d.p = q => ctx'[t].at = ctx[t].at /\ ctx'[t].d = ctx[t].d
  BY DEF KeepsProcess, StaysThere
<1>5. /\ ran'[q] = ran[q] /\ open'[q] = open[q]
      /\ task'[q].pos = task[q].pos /\ task'[q].wf = task[q].wf /\ task'[q].sq = task[q].sq
      /\ q \in timers' <=> q \in timers
      /\ q \in ended' <=> q \in ended
      /\ asked'.crashes = asked.crashes
      /\ task'[q].state = task[q].state \/ task'[q].state = "aborted"
  BY DEF KeepsProcess, KeepsRow
<1>6. InOnePlace(q)'
  <2>1. PICK w \in Spots : Placed(w, q)
    BY DEF PInv, InOnePlace
  <2>2. Placed(w, q)'
    BY <2>1, <1>1, <1>5 DEF Placed
  <2> QED BY <2>2 DEF InOnePlace
<1>7. OneDbw(q)' /\ GoneRests(q)' /\ OneRow(q)'
  BY DEF KeepsProcess, StaysThere
<1>9. EndedRests(q)'
  <2>1. \A t \in FT : OnWay(t, q)' => ctx'[t].at = ctx[t].at
    BY <1>2 DEF OnWay
  <2>2. Forks(q) => OnWay("worker", q) /\ ctx["worker"].at = "fork" /\ "worker" \in FT
    BY DEF Forks, OnWay, FT
  <2>3. q \in ended => ~ Forks(q)
    BY <2>2 DEF PInv, EndedRests
  <2> QED BY <1>1, <1>5, <2>1, <2>3 DEF PInv, EndedRests
<1>11. InStep(q)'
  <2>0. InStep(q)
    BY DEF PInv
  <2>1. Steps(q)' = Steps(q) /\ Pos(q)' = Pos(q) /\ L(q)' = L(q)
    BY <1>5 DEF Steps, Pos, L
  <2>2. Walked(q)'
    BY <2>0, <2>1, <1>5 DEF InStep, Walked
  <2>3. \A d : d.p = q => (About(d)' <=> About(d))
    BY <2>1 DEF About
  <2>4. ASSUME NEW j \in DOMAIN queue', queue'[j].p = q PROVE About(queue[j])'
    <3>1. PICK i \in DOMAIN queue : queue[i] = queue'[j]
      BY <2>4 DEF KeepsProcess, StaysThere
    <3>2. PICK d : d = queue'[j]
      OBVIOUS
    <3>3. About(d)
      BY <3>1, <3>2, <2>4, <2>0 DEF InStep, Loaded
    <3>4. About(d)'
      BY <3>2, <3>3, <2>3, <2>4
    <3> QED BY <3>2, <3>4 DEF About
  <2>5. ASSUME NEW t \in FT, ctx'[t].at = "run", ctx'[t].d.p = q PROVE About(ctx[t].d)'
    <3>1. ctx'[t].at = ctx[t].at /\ ctx'[t].d = ctx[t].d
      BY <2>5, <1>2
    <3>2. PICK d : d = ctx[t].d
      OBVIOUS
    <3>3. About(d)
      BY <3>1, <3>2, <2>5, <2>0 DEF InStep, Loaded
    <3>4. About(d)'
      BY <3>1, <3>2, <3>3, <2>3, <2>5
    <3> QED BY <3>1, <3>2, <3>4 DEF About
  <2>6. Loaded(q)'
    BY <2>4, <2>5 DEF Loaded
  <2>7. LoopRuns(q)'
    <3>1. ctx'["loop"].at = "run" /\ ctx'["loop"].d.p = q => ctx'["loop"].at = ctx["loop"].at /\ ctx'["loop"].d = ctx["loop"].d
      BY <1>2 DEF FT
    <3> QED BY <3>1, <2>0, <2>1 DEF LoopRuns, InStep
  <2>8. Parental(q)' => Parental(q) \/ Forks(q)
    BY <1>1 DEF Parental
  <2>9. \A t \in FT : ctx'[t].d.p = q /\ ctx'[t].at \in {"fork", "next", "end", "save", "dec"} => ctx'[t].at = ctx[t].at /\ ctx'[t].d = ctx[t].d
    BY <1>2
  <2>10. Late(q)' => Late(q)
    <3>1. Forks(q) => Late(q)
      BY DEF Forks, Late, FT
    <3> QED BY <1>1, <1>5, <2>8, <2>9, <3>1 DEF Late
  <2>11. AtEnd(q)' => AtEnd(q)
    BY <1>5, <2>9 DEF AtEnd
  <2>12. Resting(q)' => Resting(q)
    BY <1>1 DEF Resting
  <2>13. Forks(q)' => ctx'["worker"].d = ctx["worker"].d /\ Forks(q)
    <3>1. Forks(q)' => ctx'["worker"].d = ctx["worker"].d
      BY <1>2 DEF Forks, FT
    <3> QED BY <1>1, <3>1
  <2> QED
    BY <2>0, <2>1, <2>2, <2>6, <2>7, <2>8, <2>10, <2>11, <2>12, <2>13, <1>5 DEF InStep
<1> QED BY <1>6, <1>7, <1>9, <1>11 DEF PInv

(* The dbws are gone, the rows are not. *)
LEMMA CrashStep ==
  ASSUME FlowInv, Crash
  PROVE  FlowInv'
<1>0. FlowTypes /\ Names
  BY DEF FlowInv
<1>1. /\ asked' = [asked EXCEPT !.crashes = @ + 1] /\ queue' = <<>> /\ calls' = {}
      /\ ctx' = [worker |-> IdleCtx, loop |-> IdleCtx]
      /\ gone' = gone /\ task' = task /\ sync' = sync /\ open' = open /\ timers' = timers
      /\ merged' = merged /\ ran' = ran /\ ended' = ended
  BY DEF Crash
<1>2. ctx' \in [FT -> CtxRec] /\ \A t \in FT : ctx'[t].at = "idle"
  BY <1>1, IdleType DEF FT
<1>3. asked' \in [roots : SUBSET Roots, aborts : Nat, repairs : Nat,
                 moves : Nat, removals : Nat, crashes : Nat] /\ asked'.crashes # 0
  <2>1. asked \in [roots : SUBSET Roots, aborts : Nat, repairs : Nat,
                 moves : Nat, removals : Nat, crashes : Nat]
    BY <1>0 DEF FlowTypes
  <2>2. PICK n \in Nat : n = asked.crashes
    BY <2>1
  <2>3. asked' = [asked EXCEPT !.crashes = n + 1] /\ n + 1 \in Nat /\ n + 1 # 0
    BY <1>1, <2>2
  <2> QED BY <2>1, <2>3
<1>4. Procs' = Procs /\ queue' \in Seq(DbwRec) /\ calls' \subseteq DbwRec
  BY <1>1 DEF Procs
<1>5. FlowTypes'
  BY <1>0, <1>1, <1>2, <1>3, <1>4 DEF FlowTypes
<1>6. Names' /\ Nested' /\ GoneBelow' /\ DecEnded' /\ ForkOK'
  <2>1. Names'
    BY <1>0, <1>1, <1>2, <1>4 DEF Names
  <2>2. Nested'
    BY <1>1, <1>4 DEF FlowInv, Nested
  <2>3. GoneBelow'
    BY <1>1, <1>4 DEF FlowInv, GoneBelow
  <2>4. DecEnded' /\ ForkOK'
    BY <1>2 DEF DecEnded, ForkOK, FT
  <2> QED BY <2>1, <2>2, <2>3, <2>4
<1>7. \A s : Awaited(s)' \subseteq Awaited(s)
  <2>1. \A c : ~ Ending(c)'
    BY <1>2 DEF Ending
  <2> QED BY <1>1, <1>4, <2>1 DEF Awaited
<1>8. \A s, q : Row(s, q)' <=> Row(s, q)
  BY <1>1 DEF Row
<1>9. \A q : AwaitsChild(q)' => AwaitsChild(q)
  BY <1>1, <1>7, <1>8 DEF AwaitsChild
<1>10. Counts'
  <2>1. ASSUME NEW s \in DOMAIN sync PROVE Counted(s)'
    <3>1. IsFiniteSet(Awaited(s)) /\ Cardinality(Awaited(s)) \in Nat
      BY <1>0, AwaitedIsFinite
    <3>2. Cardinality(Awaited(s)') \in Nat /\ Cardinality(Awaited(s)') <= Cardinality(Awaited(s))
      BY <1>7, <3>1, FS_Subset, FS_CardinalityType
    <3>3. Todo(s)' = 0
      BY <1>2 DEF Todo, FT
    <3>4. Todo(s) \in Nat
      BY <1>0, TodoIsNat
    <3>5. s \notin gone.syncs => sync[s].cnt >= Cardinality(Awaited(s)) + Todo(s)
      BY DEF FlowInv, Counts, Counted
    <3>6. sync[s].cnt \in Int
      <4>1. sync \in Seq(SyncRec)
        BY <1>0 DEF FlowTypes
      <4>2. sync[s] \in SyncRec
        BY <4>1
      <4> QED BY <4>2 DEF SyncRec
    <3>7. s \notin gone.syncs => sync[s].cnt >= Cardinality(Awaited(s)')
      BY <3>1, <3>2, <3>4, <3>5, <3>6
    <3>8. s \notin gone'.syncs => sync'[s].cnt >= Cardinality(Awaited(s)') + Todo(s)'
      BY <1>1, <3>2, <3>3, <3>7
    <3> QED BY <3>8 DEF Counted
  <2> QED BY <1>1, <2>1 DEF Counts
<1>11. ASSUME NEW q \in Procs PROVE PInv(q)'
  <2>0. PInv(q)
    BY DEF FlowInv
  <2>1. ~ Queued(q)' /\ ~ Called(q)' /\ (\A u \in FT : ~ OnWay(u, q)' /\ ~ Coming(u, q)') /\ ~ Busy(q)' /\ ~ Forks(q)'
    BY <1>1, <1>2 DEF Queued, Called, OnWay, Coming, Busy, Forks, FT
  <2>2. InOnePlace(q)'
    <3>1. PICK w \in Spots : Placed(w, q)
      BY <2>0 DEF PInv, InOnePlace
    <3>2. CASE Forks(q)
      <4>1. w = "worker"
        BY <3>1, <3>2 DEF Placed, Forks, OnWay, FT
      <4>2. open[q] = {} /\ q \notin timers
        BY <3>1, <4>1 DEF Placed
      <4>3. Placed("children", q)'
        BY <1>1, <2>1, <4>2 DEF Placed
      <4> QED BY <4>3 DEF InOnePlace, Spots
    <3>3. CASE ~ Forks(q)
      <4>1. Placed(w, q)'
        BY <1>1, <1>9, <2>1, <3>1, <3>3 DEF Placed
      <4> QED BY <4>1 DEF InOnePlace
    <3> QED BY <3>2, <3>3
  <2>3. OneDbw(q)' /\ GoneRests(q)'
    BY <1>1, <2>1 DEF OneDbw, GoneRests
  <2>4. EndedRests(q)'
    BY <1>1, <1>9, <2>0, <2>1 DEF PInv, EndedRests
  <2>5. OneRow(q)'
    BY <1>1, <1>7, <1>8, <2>0 DEF PInv, OneRow
  <2>6. InStep(q)'
    <3>0. InStep(q)
      BY <2>0 DEF PInv
    <3>1. Steps(q)' = Steps(q)
      BY <1>1 DEF Steps
    <3>2. Walked(q)' /\ L(q)' = L(q) /\ Pos(q)' = Pos(q)
      BY <1>1, <3>0, <3>1, WalkedStays DEF InStep
    <3>3. Loaded(q)' /\ LoopRuns(q)'
      BY <1>1, <1>2 DEF Loaded, LoopRuns, FT
    <3>4. Parental(q)' => Parental(q)
      BY <1>9, <2>1 DEF Parental
    <3>5. Late(q)' => Late(q)
      BY <1>1, <1>2, <2>1, <3>4 DEF Late
    <3>6. AtEnd(q)' => AtEnd(q)
      BY <1>1, <1>2 DEF AtEnd
    <3> QED BY <1>1, <1>3, <2>1, <3>0, <3>1, <3>2, <3>3, <3>4, <3>5, <3>6 DEF InStep
  <2> QED BY <2>2, <2>3, <2>4, <2>5, <2>6 DEF PInv
<1> QED BY <1>4, <1>5, <1>6, <1>10, <1>11 DEF FlowInv

-----------------------------------------------------------------------------
(* A step that starts children: the sync row, then the children one by one. *)

(* What a step does to the rows of the processes that are not p's. *)
LEMMA TaskPut ==
  ASSUME FlowTypes, NEW p \in Procs, TaskOf(p)
  PROVE  /\ task' \in Seq(TaskRec) /\ Len(task') = Len(task) /\ Procs' = Procs
         /\ \A q \in Procs : q # p => task'[q] = task[q]
         /\ \A q \in Procs : task'[q].wf = task[q].wf /\ task'[q].sq = task[q].sq /\ task'[q].sync = task[q].sync
<1>1. task \in Seq(TaskRec) /\ p \in DOMAIN task
  BY DEF FlowTypes, Procs
<1>2. PICK r \in TaskRec : /\ r.wf = task[p].wf /\ r.sq = task[p].sq /\ r.sync = task[p].sync
                           /\ task' = [task EXCEPT ![p] = r]
  BY DEF TaskOf
<1> QED BY <1>1, <1>2, SeqPut DEF Procs

LEMMA RanPut ==
  ASSUME FlowTypes, NEW p \in Procs, RanOf(p)
  PROVE  /\ ran' \in Seq(Seq(Nat)) /\ Len(ran') = Len(ran)
         /\ \A q \in Procs : q # p => ran'[q] = ran[q]
<1>1. ran \in Seq(Seq(Nat)) /\ p \in DOMAIN ran /\ \A q \in Procs : q \in DOMAIN ran
  BY DEF FlowTypes, Procs
<1>2. PICK r \in Seq(Nat) : ran' = [ran EXCEPT ![p] = r]
  BY DEF RanOf
<1> QED BY <1>1, <1>2, SeqPut

(* The process of a child that ends, and its row. *)
LEMMA ComingRow ==
  ASSUME FlowInv, NEW t \in FT, ctx[t].at = "parent"
  PROVE  ctx[t].d.p \in Procs /\ task[ctx[t].d.p].sync \in DOMAIN sync
BY DEF FlowInv, Names, DecEnded, Nested

(* The sync row is written, with the number of children to come. *)
LEMMA RunForkStep ==
  ASSUME FlowInv, NEW t \in FT, RunFork(t)
  PROVE  FlowInv'
<1>1. PICK d : d = ctx[t].d
  OBVIOUS
<1>2. PICK p : p = d.p
  OBVIOUS
<1>3. ctx[t].at = "run" /\ d.st = "none" /\ Steps(p)[d.k].kind \in {"split", "if"}
  BY <1>1, <1>2 DEF RunFork, Running
<1>4. /\ p \in Procs /\ p \notin gone.procs /\ Free(p) /\ Alone(t, p)
      /\ d \in DbwRec /\ Walked(p) /\ About(d)
  BY <1>1, <1>2, <1>3, AtWork
<1>0. /\ FlowTypes /\ Names /\ Nested /\ GoneBelow /\ DecEnded /\ PInv(p) /\ ctx \in [FT -> CtxRec]
      /\ sync \in Seq(SyncRec) /\ merged \in Seq(SUBSET Nat) /\ Len(merged) = Len(sync)
      /\ gone.syncs \subseteq DOMAIN sync
  BY <1>4 DEF FlowInv, FlowTypes
<1>5. t = "worker"
  <2>1. d.k = Pos(p)
    BY <1>2, <1>4 DEF About
  <2>2. LoopRuns(p)
    BY <1>0 DEF PInv, InStep
  <2>3. t # "loop"
    BY <1>1, <1>2, <1>3, <2>1, <2>2 DEF LoopRuns
  <2> QED BY <2>3 DEF FT
<1>6. PICK n \in Nat : /\ sync' = Append(sync, SyncRow(d, n))
                       /\ merged' = Append(merged, {})
                       /\ Become(t, [Doing("fork", d) EXCEPT !.todo = n])
  <2>1. SplitSizes \subseteq Nat
    BY FlowAssumption
  <2>2. PICK n \in IF Steps(d.p)[d.k].kind = "if" THEN {1} ELSE SplitSizes :
               /\ sync' = Append(sync, SyncRow(d, n))
               /\ merged' = Append(merged, {})
               /\ Become(t, [Doing("fork", d) EXCEPT !.todo = n])
    BY <1>1 DEF RunFork
  <2>3. n \in Nat
    BY <2>1, <2>2
  <2> QED BY <2>2, <2>3
<1>7. /\ SetState(p, "halt") /\ Ran(d)
      /\ gone' = gone /\ open' = open /\ timers' = timers /\ queue' = queue /\ calls' = calls /\ ended' = ended /\ asked' = asked
  BY <1>1, <1>2 DEF RunFork
<1>8. TaskOf(p) /\ task'[p].pos = task[p].pos /\ task'[p].state = "halt" /\ \A q : q = p => Steps(q)' = Steps(q)
  BY <1>4, <1>7, StateSet DEF States
<1>9. RanOf(p) /\ L(p)' = Pos(p)' /\ Walked(p)'
  BY <1>2, <1>3, <1>4, <1>7, <1>8, RanStep
<1>10. /\ task' \in Seq(TaskRec) /\ Len(task') = Len(task) /\ Procs' = Procs
       /\ \A q \in Procs : q # p => task'[q] = task[q]
       /\ \A q \in Procs : task'[q].wf = task[q].wf /\ task'[q].sq = task[q].sq /\ task'[q].sync = task[q].sync
  BY <1>0, <1>4, <1>8, TaskPut
<1>11. /\ ran' \in Seq(Seq(Nat)) /\ Len(ran') = Len(ran)
       /\ \A q \in Procs : q # p => ran'[q] = ran[q]
  BY <1>0, <1>4, <1>9, RanPut
<1>12. PICK m \in Nat : m = Len(sync) + 1
  BY <1>0
<1>13. PICK row : row = SyncRow(d, n)
  OBVIOUS
<1>14. row \in SyncRec /\ row.taid = p /\ row.step = d.k /\ row.cnt = n
  <2>1. p \in Nat /\ d.k \in Nat /\ n \in Int
    BY <1>2, <1>4 DEF DbwRec
  <2> QED BY <1>2, <1>13, <2>1 DEF SyncRow, SyncRec
<1>15. /\ sync' \in Seq(SyncRec) /\ DOMAIN sync' = DOMAIN sync \union {m} /\ m \notin DOMAIN sync
       /\ sync'[m] = row /\ \A s \in DOMAIN sync : sync'[s] = sync[s]
       /\ Len(sync') = m /\ DOMAIN sync' = 1 .. m
       /\ merged' \in Seq(SUBSET Nat) /\ Len(merged') = m
  <2>1. sync' = Append(sync, row)
    BY <1>6, <1>13
  <2>2. merged' \in Seq(SUBSET Nat) /\ Len(merged') = m
    BY <1>0, <1>6, <1>12
  <2> QED BY <1>0, <1>12, <1>14, <2>1, <2>2
<1>16. PICK c : c = [Doing("fork", d) EXCEPT !.todo = n]
  OBVIOUS
<1>17. c \in CtxRec /\ c.at = "fork" /\ c.d = d /\ c.todo = n
  <2>1. "fork" \in Places
    BY DEF Places
  <2> QED BY <1>4, <1>16, <2>1, TodoType
<1>18. ctx' \in [FT -> CtxRec] /\ ctx'["worker"] = c /\ \A u \in FT : u # "worker" => ctx'[u] = ctx[u]
  BY <1>0, <1>5, <1>6, <1>16, <1>17 DEF Become
<1>19. FlowTypes'
  <2>1. gone' \in [procs : SUBSET Procs', syncs : SUBSET DOMAIN sync']
    BY <1>0, <1>7, <1>10, <1>15 DEF FlowTypes
  <2> QED BY <1>0, <1>7, <1>10, <1>11, <1>15, <1>18, <2>1 DEF FlowTypes
<1>20. m \notin gone.syncs
  BY <1>0, <1>15
<1>21. \A s, q : Row(s, q)' <=> Row(s, q) \/ (s = m /\ q = p)
  BY <1>7, <1>14, <1>15, <1>20 DEF Row
<1>22. \A q : Ending(q)' <=> Ending(q)
  <2>1. \A u \in FT : ctx'[u].at = "dec" <=> ctx[u].at = "dec"
    BY <1>3, <1>5, <1>17, <1>18
  <2>2. \A u \in FT : ctx[u].at = "dec" => ctx'[u] = ctx[u]
    BY <1>3, <1>5, <1>18
  <2> QED BY <2>1, <2>2 DEF Ending
<1>23. \A s : Awaited(s)' = Awaited(s)
  BY <1>7, <1>10, <1>22 DEF Awaited
<1>24. Awaited(m)' = {}
  <2>1. \A q \in Procs : task[q].sync # m
    BY <1>0, <1>12, <1>15 DEF Nested
  <2> QED BY <1>23, <2>1 DEF Awaited
<1>25. \A q : AwaitsChild(q)' => AwaitsChild(q)
  <2>1. ASSUME NEW q, AwaitsChild(q)' PROVE AwaitsChild(q)
    <3>1. PICK s \in DOMAIN sync' : Row(s, q)' /\ Awaited(s)' # {}
      BY <2>1 DEF AwaitsChild
    <3>2. s # m
      BY <1>24, <3>1
    <3> QED BY <1>15, <1>21, <1>23, <3>1, <3>2 DEF AwaitsChild
  <2> QED BY <2>1
<1>26. MySync(d)' = m
  <2>1. PICK S : S = {s \in DOMAIN sync' : sync'[s].taid = d.p /\ sync'[s].step = d.k}
    OBVIOUS
  <2>2. m \in S /\ S \in SUBSET Nat /\ \A s \in S : s <= m
    BY <1>2, <1>12, <1>14, <1>15, <2>1
  <2>3. Max(S) = m
    BY <2>2, MaxIs
  <2> QED BY <2>1, <2>3 DEF MySync
<1>27. MySync(ctx["worker"].d)' = m
  BY <1>17, <1>18, <1>26 DEF MySync
<1>28. ForkOK'
  <2>1. ctx'["loop"].at # "fork"
    BY <1>18 DEF FlowInv, ForkOK, FT
  <2>2. Steps(d.p)' = Steps(d.p)
    BY <1>2, <1>8
  <2>3. ~ AwaitsChild(p)
    BY <1>4 DEF Free, Apart
  <2>4. \A r \in DOMAIN sync' : Row(r, p)' => Awaited(r)' = {}
    <3>1. \A r \in DOMAIN sync' : Row(r, p)' /\ Awaited(r)' # {} => AwaitsChild(p)'
      BY DEF AwaitsChild
    <3> QED BY <1>25, <2>3, <3>1
  <2>5. ForkedRow(d, m)'
    BY <1>2, <1>3, <1>14, <1>15, <1>21, <1>24, <2>2, <2>4 DEF ForkedRow
  <2>6. ForkedRow(ctx["worker"].d, MySync(ctx["worker"].d))'
    BY <1>17, <1>18, <1>27, <2>5
  <2> QED BY <2>1, <2>6 DEF ForkOK
<1>29. Counts'
  <2>1. ASSUME NEW s \in DOMAIN sync PROVE Counted(s)'
    <3>1. Todo(s)' = 0
      BY <1>15, <1>27, <2>1 DEF Todo
    <3>2. Todo(s) = 0
      BY <1>3, <1>5 DEF Todo
    <3>3. Counted(s)
      BY DEF FlowInv, Counts
    <3> QED BY <1>7, <1>15, <1>23, <3>1, <3>2, <3>3 DEF Counted
  <2>2. Counted(m)'
    <3>1. Todo(m)' = n
      BY <1>17, <1>18, <1>27 DEF Todo
    <3>2. Cardinality(Awaited(m)') = 0
      BY <1>24, FS_EmptySet
    <3>3. sync'[m].cnt = n /\ n >= 0 + n
      BY <1>14, <1>15
    <3> QED BY <3>1, <3>2, <3>3 DEF Counted
  <2> QED BY <1>15, <2>1, <2>2 DEF Counts
<1>30. Nested' /\ GoneBelow' /\ DecEnded' /\ Names'
  <2>1. Nested'
    BY <1>0, <1>10, <1>15 DEF Nested
  <2>2. GoneBelow'
    BY <1>0, <1>4, <1>7, <1>10, <1>14, <1>15 DEF GoneBelow
  <2>3. DecEnded'
    <3>1. ASSUME NEW u \in FT, ctx'[u].at \in {"dec", "parent"} PROVE ctx'[u].d.p \in ended' /\ task'[ctx'[u].d.p].sync # 0
      <4>1. ctx'[u] = ctx[u]
        BY <1>17, <1>18, <3>1
      <4>2. ctx[u].d.p \in ended /\ task[ctx[u].d.p].sync # 0 /\ ctx[u].d.p \in Procs
        BY <1>0, <3>1, <4>1 DEF DecEnded, Names
      <4> QED BY <1>7, <1>10, <4>1, <4>2
    <3> QED BY <3>1 DEF DecEnded
  <2>4. Names'
    <3>1. \A u \in FT : ctx'[u].at # "idle" => ctx'[u].d.p \in Procs
      BY <1>0, <1>2, <1>4, <1>17, <1>18 DEF Names
    <3>2. \A s \in DOMAIN sync' : sync'[s].taid \in Procs
      BY <1>0, <1>4, <1>14, <1>15 DEF Names
    <3> QED BY <1>0, <1>7, <1>10, <3>1, <3>2 DEF Names
  <2> QED BY <2>1, <2>2, <2>3, <2>4
<1>31. ASSUME NEW q PROVE /\ \A u \in FT : Coming(u, q)' => Coming(u, q)
                          /\ Queued(q)' <=> Queued(q)
                          /\ Called(q)' <=> Called(q)
  <2>1. ASSUME NEW u \in FT, Coming(u, q)' PROVE Coming(u, q)
    <3>1. ctx'[u].at = "parent"
      BY <2>1 DEF Coming
    <3>2. ctx'[u] = ctx[u]
      BY <1>17, <1>18, <3>1
    <3>3. PICK e : e = ctx[u].d.p
      OBVIOUS
    <3>4. e \in Procs /\ task[e].sync \in DOMAIN sync
      BY <3>1, <3>2, <3>3, ComingRow
    <3>5. PICK s : s = task[e].sync
      OBVIOUS
    <3>6. s = task'[ctx'[u].d.p].sync /\ s # m
      BY <1>10, <1>15, <3>2, <3>3, <3>4, <3>5
    <3>7. Row(s, q)'
      BY <2>1, <3>6 DEF Coming, Row
    <3>8. Row(s, q)
      BY <1>21, <3>6, <3>7
    <3> QED BY <3>1, <3>2, <3>3, <3>5, <3>8 DEF Coming
  <2> QED BY <1>7, <2>1 DEF Queued, Called
<1>32. ASSUME NEW q \in Procs PROVE OneRow(q)'
  <2>1. OneRow(q)
    BY DEF FlowInv, PInv
  <2>2. \A r \in DOMAIN sync' : Row(r, q)' /\ Awaited(r)' # {} => r \in DOMAIN sync /\ Row(r, q) /\ Awaited(r) # {}
    BY <1>15, <1>21, <1>23, <1>24
  <2> QED BY <2>1, <2>2 DEF OneRow
<1>33. ASSUME NEW q \in Procs, q # p PROVE PInv(q)'
  <2>1. PInv(q)
    BY DEF FlowInv
  <2>2. \A u \in FT : (ctx'[u].at # "idle" /\ ctx'[u].d.p = q) \/ (ctx[u].at # "idle" /\ ctx[u].d.p = q) => ctx'[u] = ctx[u]
    BY <1>1, <1>2, <1>5, <1>17, <1>18, <1>33
  <2>3. \A u \in FT : OnWay(u, q)' <=> OnWay(u, q)
    BY <2>2 DEF OnWay
  <2>4. Forks(q)' <=> Forks(q)
    BY <2>2 DEF Forks, FT
  <2>5. StaysThere(q)
    BY <1>7, <1>25, <1>31, <2>1, <2>2, <2>3, <2>4 DEF StaysThere, PInv, OneDbw
  <2>6. KeepsRow(q)
    BY <1>7, <1>10, <1>11, <1>33 DEF KeepsRow
  <2>7. GoneRests(q)'
    <3>1. Busy(q)' => Busy(q)
      BY <2>2 DEF Busy
    <3> QED BY <1>7, <1>31, <2>1, <3>1 DEF GoneRests, PInv
  <2> QED BY <1>7, <1>32, <2>1, <2>5, <2>6, <2>7, KeepsPInv DEF KeepsProcess
<1>34. PInv(p)'
  <2>1. /\ ~ Queued(p)' /\ ~ Called(p)' /\ open'[p] = {} /\ p \notin timers' /\ p \notin ended' /\ ~ AwaitsChild(p)'
        /\ \A u \in FT : ~ Coming(u, p)'
    BY <1>4, <1>7, <1>25, <1>31 DEF Free, Apart
  <2>2. \A u \in FT : OnWay(u, p)' => u = "worker"
    BY <1>4, <1>5, <1>18 DEF Alone, OnWay
  <2>3. InOnePlace(p)'
    <3>1. Placed("worker", p)'
      BY <2>1, <2>2 DEF Placed
    <3> QED BY <3>1 DEF InOnePlace, Spots
  <2>4. OneDbw(p)' /\ GoneRests(p)' /\ EndedRests(p)'
    BY <1>4, <1>7, <2>1 DEF OneDbw, Queued, Called, GoneRests, EndedRests
  <2>5. \A u \in FT : ctx'[u].d.p = p /\ ctx'[u].at \in {"run", "fork", "next", "end", "save", "dec"} => ctx'[u] = c
    BY <1>18, <2>2 DEF OnWay
  <2>6. Loaded(p)' /\ LoopRuns(p)'
    BY <1>17, <2>1, <2>5 DEF Loaded, LoopRuns, Queued, FT
  <2>7. ~ Parental(p)'
    BY <2>1 DEF Parental
  <2>8. ~ AtEnd(p)'
    BY <1>17, <2>1, <2>5 DEF AtEnd
  <2>9. ctx'["worker"].d.k = Pos(p)'
    <3>1. d.k = Pos(p)
      BY <1>2, <1>4 DEF About
    <3> QED BY <1>8, <1>17, <1>18, <3>1 DEF Pos
  <2>10. InStep(p)'
    BY <1>8, <1>9, <2>6, <2>7, <2>8, <2>9 DEF InStep
  <2> QED BY <1>4, <1>32, <2>3, <2>4, <2>10 DEF PInv
<1> QED BY <1>10, <1>19, <1>28, <1>29, <1>30, <1>33, <1>34 DEF FlowInv

-----------------------------------------------------------------------------
(* New processes: each is queued, at its first step (Grows). *)

(* A step that creates m processes; those of before stay as they are, an abort apart. *)
(* The sync row of a worker that creates children. *)
ForkSync(s) == ctx["worker"].at = "fork" /\ s = MySync(ctx["worker"].d)
Newborn(q) ==
  /\ task'[q].pos = 1 /\ Prog[task'[q].wf][task'[q].sq] # <<>>
  /\ task'[q].sync = 0 \/ ForkSync(task'[q].sync)
  /\ ran'[q] = <<>> /\ open'[q] = {}
GrowsRows(m) ==
  /\ task' \in Seq(TaskRec) /\ Len(task') = Len(task) + m
  /\ open' \in Seq(SUBSET (WaitItems \union {"call-back"})) /\ Len(open') = Len(task) + m
  /\ ran' \in Seq(Seq(Nat)) /\ Len(ran') = Len(task) + m
  /\ \A q \in Procs : KeepsRow(q) /\ task'[q].sync = task[q].sync
  /\ \A q \in Procs' \ Procs : Newborn(q)
GrowsQueue(m) ==
  /\ queue' \in Seq(DbwRec) /\ Len(queue') = Len(queue) + m
  /\ \A i \in DOMAIN queue : queue'[i] = queue[i]
  /\ \A i \in 1 .. m : queue'[Len(queue) + i] = Started(Len(task) + i)
Grows(m) ==
  /\ GrowsRows(m) /\ GrowsQueue(m)
  /\ ctx' \in [FT -> CtxRec] /\ \A u \in FT : ctx'[u].at = ctx[u].at /\ ctx'[u].d = ctx[u].d
  /\ asked' \in [roots : SUBSET Roots, aborts : Nat, repairs : Nat,
                 moves : Nat, removals : Nat, crashes : Nat]
  /\ asked'.crashes = asked.crashes
  /\ UNCHANGED <<gone, sync, timers, calls, merged, ended>>

(* That row, and the children it has. *)
LEMMA ForkFacts ==
  ASSUME FlowInv, NEW s, ForkSync(s)
  PROVE  /\ s \in DOMAIN sync /\ s \notin gone.syncs /\ sync[s].taid \in Procs /\ Forks(sync[s].taid)
         /\ \A r \in DOMAIN sync : Row(r, sync[s].taid) /\ Awaited(r) # {} => r = s
         /\ ctx["worker"].d.p = sync[s].taid
         /\ ForkedRow(ctx["worker"].d, s)
<1>1. ForkedRow(ctx["worker"].d, s) /\ ctx["worker"].at = "fork"
  BY DEF FlowInv, ForkOK, ForkSync
<1>2. PICK p : p = ctx["worker"].d.p
  OBVIOUS
<1>3. Row(s, p) /\ \A r \in DOMAIN sync : Row(r, p) /\ Awaited(r) # {} => r = s
  BY <1>1, <1>2 DEF ForkedRow
<1>4. s \in DOMAIN sync /\ s \notin gone.syncs /\ sync[s].taid = p
  BY <1>3 DEF Row
<1>5. p \in Procs
  BY <1>4 DEF FlowInv, Names
<1>6. Forks(p)
  BY <1>1, <1>2 DEF Forks
<1> QED BY <1>1, <1>2, <1>3, <1>4, <1>5, <1>6

(* The tables with the new processes. *)
LEMMA GrowsFacts ==
  ASSUME FlowInv, NEW m \in Nat, Grows(m)
  PROVE  /\ Procs = 1 .. Len(task) /\ Procs' = 1 .. Len(task) + m /\ Len(task) \in Nat /\ Procs \subseteq Procs'
         /\ \A s, q : Row(s, q)' <=> Row(s, q)
         /\ \A q \in Procs : Queued(q)' <=> Queued(q)
         /\ \A q \in Procs' \ Procs : q - Len(task) \in 1 .. m
         /\ \A s : Awaited(s)' \subseteq Awaited(s) \union {c \in Procs' \ Procs : task'[c].sync = s}
         /\ \A s, c : c \in Procs' \ Procs /\ task'[c].sync = s /\ s \in DOMAIN sync => ForkSync(s)
         /\ \A s \in DOMAIN sync : Awaited(s)' # {} => Awaited(s) # {} \/ ForkSync(s)
<1>0. FlowTypes /\ Names
  BY DEF FlowInv
<1>1. Procs = 1 .. Len(task) /\ Procs' = 1 .. Len(task) + m /\ Len(task) \in Nat /\ Procs \subseteq Procs'
  BY <1>0 DEF Grows, GrowsRows, FlowTypes, Procs
<1>2. \A s, q : Row(s, q)' <=> Row(s, q)
  BY DEF Grows, Row
<1>3. /\ queue \in Seq(DbwRec) /\ DOMAIN queue = 1 .. Len(queue) /\ Len(queue) \in Nat
      /\ DOMAIN queue' = 1 .. Len(queue) + m
      /\ \A i \in DOMAIN queue : queue'[i] = queue[i]
      /\ \A i \in 1 .. m : queue'[Len(queue) + i] = Started(Len(task) + i)
  BY <1>0 DEF Grows, GrowsQueue, FlowTypes
<1>4. \A i \in DOMAIN queue' : i \in DOMAIN queue \/ queue'[i].p \notin Procs
  <2> SUFFICES ASSUME NEW i \in DOMAIN queue', i \notin DOMAIN queue PROVE queue'[i].p \notin Procs
    OBVIOUS
  <2>1. PICK x \in 1 .. m : i = Len(queue) + x
    <3>1. i - Len(queue) \in 1 .. m /\ i = Len(queue) + (i - Len(queue))
      BY <1>3
    <3> QED BY <3>1
  <2>2. queue'[i] = Started(Len(task) + x)
    BY <1>3, <2>1
  <2>3. queue'[i].p = Len(task) + x
    BY <2>2 DEF Started, Dbw
  <2> QED BY <1>1, <2>1, <2>3
<1>5. \A i \in DOMAIN queue : i \in DOMAIN queue'
  BY <1>3
<1>6. \A q \in Procs : Queued(q)' <=> Queued(q)
  BY <1>3, <1>4, <1>5 DEF Queued
<1>7. \A q \in Procs' \ Procs : q - Len(task) \in 1 .. m
  BY <1>1
<1>8. \A s : Awaited(s)' \subseteq Awaited(s) \union {c \in Procs' \ Procs : task'[c].sync = s}
  <2>1. \A c : Ending(c)' <=> Ending(c)
    BY DEF Grows, Ending
  <2>2. \A c \in Procs : task'[c].sync = task[c].sync
    BY DEF Grows, GrowsRows
  <2>3. gone' = gone /\ ended' = ended
    BY DEF Grows
  <2> QED BY <2>1, <2>2, <2>3 DEF Awaited
<1>9. \A s, c : c \in Procs' \ Procs /\ task'[c].sync = s /\ s \in DOMAIN sync => ForkSync(s)
  <2>1. \A c \in Procs' \ Procs : task'[c].sync = 0 \/ ForkSync(task'[c].sync)
    BY DEF Grows, GrowsRows, Newborn
  <2>2. 0 \notin DOMAIN sync
    BY <1>0 DEF FlowTypes
  <2> QED BY <2>1, <2>2
<1>10. \A s \in DOMAIN sync : Awaited(s)' # {} => Awaited(s) # {} \/ ForkSync(s)
  BY <1>8, <1>9
<1> QED BY <1>1, <1>2, <1>6, <1>7, <1>8, <1>9, <1>10

(* A process of before. *)
LEMMA GrowsOld ==
  ASSUME FlowInv, NEW m \in Nat, Grows(m), NEW q \in Procs
  PROVE  PInv(q)'
<1>0. FlowTypes /\ Names /\ PInv(q)
  BY DEF FlowInv
<1>1. /\ Procs = 1 .. Len(task) /\ Procs' = 1 .. Len(task) + m /\ Len(task) \in Nat /\ Procs \subseteq Procs'
      /\ \A s, r : Row(s, r)' <=> Row(s, r)
      /\ Queued(q)' <=> Queued(q)
      /\ \A s \in DOMAIN sync : Awaited(s)' # {} => Awaited(s) # {} \/ ForkSync(s)
  BY GrowsFacts
<1>2. /\ calls' = calls /\ gone' = gone /\ sync' = sync /\ timers' = timers /\ ended' = ended
      /\ asked'.crashes = asked.crashes
      /\ \A u \in FT : ctx'[u].at = ctx[u].at /\ ctx'[u].d = ctx[u].d
      /\ KeepsRow(q) /\ \A c \in Procs : task'[c].sync = task[c].sync
  BY DEF Grows, GrowsRows
<1>3. /\ \A u \in FT : OnWay(u, q)' <=> OnWay(u, q)
      /\ Forks(q)' <=> Forks(q)
      /\ Busy(q)' <=> Busy(q)
      /\ Called(q)' <=> Called(q)
  BY <1>2 DEF OnWay, Forks, Busy, Called, FT
<1>4. ASSUME NEW u \in FT, Coming(u, q)' PROVE Coming(u, q)
  <2>1. ctx[u].at = "parent" /\ ctx'[u].d = ctx[u].d
    BY <1>2, <1>4 DEF Coming
  <2>2. PICK e : e = ctx[u].d.p
    OBVIOUS
  <2>3. PICK s : s = task[e].sync
    OBVIOUS
  <2>4. e \in Procs
    BY <2>1, <2>2, ComingRow
  <2>5. task'[ctx'[u].d.p].sync = s
    BY <1>2, <2>1, <2>2, <2>3, <2>4
  <2>6. Row(s, q)'
    BY <1>4, <2>5 DEF Coming, Row
  <2>7. Row(s, q)
    BY <1>1, <2>6
  <2> QED BY <2>1, <2>2, <2>3, <2>7 DEF Coming
<1>5. AwaitsChild(q)' => AwaitsChild(q) \/ Forks(q)
  <2> SUFFICES ASSUME AwaitsChild(q)' PROVE AwaitsChild(q) \/ Forks(q)
    OBVIOUS
  <2>1. PICK s \in DOMAIN sync' : Row(s, q)' /\ Awaited(s)' # {}
    BY DEF AwaitsChild
  <2>2. s \in DOMAIN sync /\ Row(s, q) /\ (Awaited(s) # {} \/ ForkSync(s))
    BY <1>1, <1>2, <2>1
  <2>3. ForkSync(s) => Forks(q)
    <3>1. sync[s].taid = q
      BY <2>2 DEF Row
    <3> QED BY <3>1, ForkFacts
  <2> QED BY <2>2, <2>3 DEF AwaitsChild
<1>6. OneRow(q)'
  <2>1. OneRow(q)
    BY <1>0 DEF PInv
  <2> SUFFICES ASSUME NEW s \in DOMAIN sync, NEW r \in DOMAIN sync, Row(s, q), Row(r, q), Awaited(s)' # {}, Awaited(r)' # {}
               PROVE  s = r
    BY <1>1, <1>2 DEF OneRow
  <2>2. (Awaited(s) # {} \/ ForkSync(s)) /\ (Awaited(r) # {} \/ ForkSync(r))
    BY <1>1
  <2>3. sync[s].taid = q /\ sync[r].taid = q
    BY DEF Row
  <2>4. ForkSync(s) => s = r
    <3>1. ForkSync(s) /\ Awaited(r) # {} => r = s
      BY <2>3, ForkFacts
    <3>2. ForkSync(s) /\ ForkSync(r) => r = s
      BY DEF ForkSync
    <3> QED BY <2>2, <3>1, <3>2
  <2>5. ForkSync(r) => s = r
    <3>1. ForkSync(r) /\ Awaited(s) # {} => r = s
      BY <2>3, ForkFacts
    <3>2. ForkSync(s) /\ ForkSync(r) => r = s
      BY DEF ForkSync
    <3> QED BY <2>2, <3>1, <3>2
  <2> QED BY <2>1, <2>2, <2>4, <2>5 DEF OneRow
<1>7. \A j \in DOMAIN queue' : queue'[j].p = q => j \in DOMAIN queue /\ queue[j] = queue'[j]
  <2>1. /\ queue \in Seq(DbwRec) /\ DOMAIN queue = 1 .. Len(queue) /\ Len(queue) \in Nat
        /\ DOMAIN queue' = 1 .. Len(queue) + m
        /\ \A i \in DOMAIN queue : queue'[i] = queue[i]
        /\ \A i \in 1 .. m : queue'[Len(queue) + i] = Started(Len(task) + i)
    BY <1>0 DEF Grows, GrowsQueue, FlowTypes
  <2> SUFFICES ASSUME NEW j \in DOMAIN queue', queue'[j].p = q PROVE j \in DOMAIN queue
    BY <2>1
  <2> SUFFICES ASSUME j \notin DOMAIN queue PROVE FALSE
    OBVIOUS
  <2>2. PICK x \in 1 .. m : j = Len(queue) + x
    <3>1. j - Len(queue) \in 1 .. m /\ j = Len(queue) + (j - Len(queue))
      BY <2>1
    <3> QED BY <3>1
  <2>3. queue'[j] = Started(Len(task) + x)
    BY <2>1, <2>2
  <2>4. queue'[j].p = Len(task) + x
    BY <2>3 DEF Started, Dbw
  <2> QED BY <1>1, <2>2, <2>4
<1>8. OneDbw(q)'
  BY <1>0, <1>2, <1>7 DEF OneDbw, PInv
<1>9. StaysThere(q)
  BY <1>1, <1>2, <1>3, <1>4, <1>5, <1>7, <1>8 DEF StaysThere
<1>10. GoneRests(q)'
  BY <1>0, <1>1, <1>2, <1>3 DEF GoneRests, PInv
<1> QED BY <1>0, <1>2, <1>6, <1>9, <1>10, KeepsPInv DEF KeepsProcess

(* A new process is in the queue, before its first step. *)
LEMMA GrowsNew ==
  ASSUME FlowInv, NEW m \in Nat, Grows(m), NEW q \in Procs' \ Procs
  PROVE  PInv(q)' /\ Queued(q)' /\ \A i \in DOMAIN queue' : i \notin DOMAIN queue => queue'[i].p \in Procs'
<1>0. FlowTypes /\ Names
  BY DEF FlowInv
<1>1. /\ Procs = 1 .. Len(task) /\ Procs' = 1 .. Len(task) + m /\ Len(task) \in Nat
      /\ \A s, r : Row(s, r)' <=> Row(s, r)
      /\ q - Len(task) \in 1 .. m
  BY GrowsFacts
<1>2. /\ calls' = calls /\ gone' = gone /\ sync' = sync /\ timers' = timers /\ ended' = ended
      /\ \A u \in FT : ctx'[u].at = ctx[u].at /\ ctx'[u].d = ctx[u].d
      /\ Newborn(q) /\ task' \in Seq(TaskRec)
  BY DEF Grows, GrowsRows
<1>3. /\ queue \in Seq(DbwRec) /\ DOMAIN queue = 1 .. Len(queue) /\ Len(queue) \in Nat
      /\ DOMAIN queue' = 1 .. Len(queue) + m
      /\ \A i \in DOMAIN queue : queue'[i] = queue[i]
      /\ \A i \in 1 .. m : queue'[Len(queue) + i] = Started(Len(task) + i)
  BY <1>0 DEF Grows, GrowsQueue, FlowTypes
<1>4. PICK n \in 1 .. m : n = q - Len(task) /\ q = Len(task) + n
  BY <1>1
<1>5. PICK k \in DOMAIN queue' : k = Len(queue) + n
  BY <1>3
<1>6. \A i \in DOMAIN queue' : i \in DOMAIN queue \/ (queue'[i] = Started(Len(task) + (i - Len(queue))) /\ i - Len(queue) \in 1 .. m)
  <2> SUFFICES ASSUME NEW i \in DOMAIN queue', i \notin DOMAIN queue
               PROVE  queue'[i] = Started(Len(task) + (i - Len(queue))) /\ i - Len(queue) \in 1 .. m
    OBVIOUS
  <2>1. i - Len(queue) \in 1 .. m /\ i = Len(queue) + (i - Len(queue))
    BY <1>3
  <2> QED BY <1>3, <2>1
<1>7. queue'[k] = Started(q) /\ Started(q).p = q /\ Started(q).k = 1 /\ Started(q).st = "none"
  BY <1>3, <1>4, <1>5 DEF Started, Dbw
<1>8. \A i \in DOMAIN queue' : queue'[i].p = q => i = k
  <2> SUFFICES ASSUME NEW i \in DOMAIN queue', queue'[i].p = q PROVE i = k
    OBVIOUS
  <2>1. i \notin DOMAIN queue
    BY <1>0, <1>3 DEF Names
  <2>2. queue'[i].p = Len(task) + (i - Len(queue))
    BY <1>6, <2>1 DEF Started, Dbw
  <2>3. i - Len(queue) = n
    BY <1>1, <1>3, <1>4, <2>2
  <2> QED BY <1>3, <1>5, <2>3
<1>9. Queued(q)'
  BY <1>7 DEF Queued
<1>10. \A i \in DOMAIN queue' : i \notin DOMAIN queue => queue'[i].p \in Procs'
  <2> SUFFICES ASSUME NEW i \in DOMAIN queue', i \notin DOMAIN queue PROVE queue'[i].p \in Procs'
    OBVIOUS
  <2>1. queue'[i].p = Len(task) + (i - Len(queue)) /\ i - Len(queue) \in 1 .. m
    BY <1>6 DEF Started, Dbw
  <2> QED BY <1>1, <2>1
<1>11. \A u \in FT : ctx'[u].at # "idle" => ctx'[u].d.p # q
  BY <1>0, <1>2 DEF Names
<1>12. /\ \A u \in FT : ~ OnWay(u, q)' /\ ~ (ctx'[u].d.p = q /\ ctx'[u].at \in {"run", "fork", "next", "end", "save", "dec"})
       /\ ~ Called(q)' /\ q \notin timers' /\ q \notin ended' /\ open'[q] = {} /\ q \notin gone'.procs
  <2>1. \A u \in FT : ~ OnWay(u, q)' /\ ~ (ctx'[u].d.p = q /\ ctx'[u].at \in {"run", "fork", "next", "end", "save", "dec"})
    BY <1>11 DEF OnWay
  <2>2. ~ Called(q)'
    BY <1>0, <1>2 DEF Called, Names
  <2>3. q \notin timers' /\ q \notin ended' /\ open'[q] = {} /\ q \notin gone'.procs
    BY <1>0, <1>2 DEF FlowTypes, Newborn
  <2> QED BY <2>1, <2>2, <2>3
<1>13. \A s : ~ Row(s, q)'
  <2>1. \A s : ~ Row(s, q)
    BY <1>0 DEF Row, Names
  <2> QED BY <1>1, <2>1
<1>14. ~ AwaitsChild(q)' /\ \A u \in FT : ~ Coming(u, q)'
  <2>1. ~ AwaitsChild(q)'
    BY <1>13 DEF AwaitsChild
  <2>2. ASSUME NEW u \in FT, Coming(u, q)' PROVE FALSE
    <3>1. PICK s : s = task'[ctx'[u].d.p].sync
      OBVIOUS
    <3>2. Row(s, q)'
      BY <2>2, <3>1 DEF Coming, Row
    <3> QED BY <1>13, <3>2
  <2> QED BY <2>1, <2>2
<1>15. Pos(q)' = 1 /\ L(q)' = 0 /\ Walked(q)'
  <2>1. Pos(q)' = 1 /\ L(q)' = 0 /\ ran'[q] = <<>>
    BY <1>2 DEF Newborn, Pos, L
  <2>2. task'[q] \in TaskRec
    BY <1>2 DEF Procs
  <2>3. Len(Steps(q))' \in Nat /\ Len(Steps(q))' > 0
    <3>1. PICK w : w = task'[q].wf
      OBVIOUS
    <3>2. PICK x : x = task'[q].sq
      OBVIOUS
    <3>3. w \in DOMAIN Prog /\ x \in Sequences /\ Prog[w][x] # <<>>
      BY <1>2, <2>2, <3>1, <3>2 DEF TaskRec, Newborn
    <3>4. Prog[w][x] \in Seq(ToSet(Prog[w][x]))
      BY <3>3, FlowAssumption
    <3>5. (Prog[w][x])' = Prog[w][x] /\ Steps(q)' = Prog[w][x]
      BY <3>1, <3>2 DEF Steps
    <3>6. Len(Prog[w][x]) \in Nat /\ Len(Prog[w][x]) > 0
      BY <3>3, <3>4
    <3> QED BY <3>5, <3>6
  <2>4. ran'[q] = [i \in 1 .. 0 |-> i]
    BY <2>1
  <2> QED BY <2>1, <2>3, <2>4 DEF Walked
<1>16. InOnePlace(q)'
  <2>1. Placed("queue", q)'
    BY <1>12, <1>14 DEF Placed
  <2> QED BY <2>1 DEF InOnePlace, Spots
<1>17. OneDbw(q)' /\ GoneRests(q)' /\ EndedRests(q)' /\ OneRow(q)'
  BY <1>8, <1>12, <1>13 DEF OneDbw, Called, GoneRests, EndedRests, OneRow
<1>18. Loaded(q)' /\ LoopRuns(q)'
  <2>1. ASSUME NEW i \in DOMAIN queue', queue'[i].p = q PROVE About(queue[i])'
    <3>1. queue'[i] = Started(q)
      BY <1>7, <1>8, <2>1
    <3>2. PICK e : e = queue'[i]
      OBVIOUS
    <3>3. e.k = 1 /\ e.st = "none" /\ e.p = q
      BY <1>7, <3>1, <3>2
    <3>4. Pos(e.p)' = 1 /\ L(e.p)' = 0
      BY <1>15, <3>3 DEF Pos, L
    <3>5. About(e)'
      BY <3>3, <3>4 DEF About
    <3> QED BY <3>2, <3>5 DEF About
  <2> QED BY <1>12, <2>1 DEF Loaded, LoopRuns, FT
<1>19. ~ Parental(q)' /\ ~ Late(q)' /\ ~ AtEnd(q)' /\ ~ Resting(q)' /\ ~ Forks(q)'
  <2>1. ~ Parental(q)'
    BY <1>14 DEF Parental
  <2> QED BY <1>9, <1>12, <2>1 DEF Late, AtEnd, Resting, Forks, FT
<1>20. InStep(q)'
  BY <1>15, <1>18, <1>19 DEF InStep
<1> QED BY <1>9, <1>10, <1>16, <1>17, <1>20 DEF PInv

(* New processes keep the invariant of the old ones and have it themselves. *)
LEMMA GrowsStep ==
  ASSUME FlowInv, NEW m \in Nat, Grows(m), Counts'
  PROVE  FlowInv'
<1>0. FlowTypes /\ Names /\ Nested /\ GoneBelow /\ DecEnded /\ ForkOK
  BY DEF FlowInv
<1>1. /\ Procs = 1 .. Len(task) /\ Procs' = 1 .. Len(task) + m /\ Len(task) \in Nat /\ Procs \subseteq Procs'
      /\ \A s, r : Row(s, r)' <=> Row(s, r)
      /\ \A s \in DOMAIN sync : Awaited(s)' # {} => Awaited(s) # {} \/ ForkSync(s)
      /\ \A s : Awaited(s)' \subseteq Awaited(s) \union {c \in Procs' \ Procs : task'[c].sync = s}
      /\ \A q \in Procs : Queued(q)' <=> Queued(q)
  BY GrowsFacts
<1>2. /\ calls' = calls /\ gone' = gone /\ sync' = sync /\ timers' = timers /\ ended' = ended /\ merged' = merged
      /\ \A u \in FT : ctx'[u].at = ctx[u].at /\ ctx'[u].d = ctx[u].d
      /\ \A q \in Procs : task'[q].sync = task[q].sync /\ KeepsRow(q)
  BY DEF Grows, GrowsRows
<1>3. FlowTypes'
  <2>1. gone' \in [procs : SUBSET Procs', syncs : SUBSET DOMAIN sync'] /\ timers' \subseteq Procs' /\ ended' \subseteq Procs'
    BY <1>0, <1>1, <1>2 DEF FlowTypes
  <2> QED BY <1>0, <1>2, <2>1 DEF FlowTypes, Grows, GrowsRows, GrowsQueue
<1>4. \A q \in Procs' : PInv(q)'
  BY GrowsOld, GrowsNew
<1>5. Names'
  <2>1. ASSUME NEW i \in DOMAIN queue' PROVE queue'[i].p \in Procs'
    <3>1. CASE i \in DOMAIN queue
      BY <1>0, <1>1, <3>1 DEF Names, Grows, GrowsQueue
    <3>2. CASE i \notin DOMAIN queue
      <4>1. \E q \in Procs' : q \notin Procs
        <5>1. m > 0
          <6>1. Len(queue') = Len(queue) + m /\ queue' \in Seq(DbwRec) /\ queue \in Seq(DbwRec)
            BY <1>0 DEF Grows, GrowsQueue, FlowTypes
          <6> QED BY <3>2, <6>1
        <5> QED BY <1>1, <5>1
      <4> QED BY <3>2, <4>1, GrowsNew
    <3> QED BY <3>1, <3>2
  <2>2. \A s \in DOMAIN sync' : sync'[s].taid \in Procs'
    BY <1>0, <1>1, <1>2 DEF Names
  <2>3. \A u \in FT : ctx'[u].at # "idle" => ctx'[u].d.p \in Procs'
    BY <1>0, <1>1, <1>2 DEF Names
  <2>4. \A d \in calls' : d.p \in Procs'
    BY <1>0, <1>1, <1>2 DEF Names
  <2> QED BY <2>1, <2>2, <2>3, <2>4 DEF Names
<1>6. \A c \in Procs' \ Procs : task'[c].sync = 0 \/ (task'[c].sync \in DOMAIN sync /\ task'[c].sync \notin gone.syncs /\ sync[task'[c].sync].taid \in Procs)
  <2>1. \A c \in Procs' \ Procs : task'[c].sync = 0 \/ ForkSync(task'[c].sync)
    BY DEF Grows, GrowsRows, Newborn
  <2> QED BY <2>1, ForkFacts
<1>7. Nested'
  <2>1. ASSUME NEW c \in Procs', c \notin Procs PROVE task'[c].sync = 0 \/ (task'[c].sync \in DOMAIN sync' /\ sync'[task'[c].sync].taid \in 1 .. c - 1)
    <3>1. c \in Nat /\ c > Len(task)
      BY <1>1, <2>1
    <3>2. \A p \in Procs : p \in 1 .. c - 1
      BY <1>1, <3>1
    <3> QED BY <1>2, <1>6, <2>1, <3>2
  <2> QED BY <1>0, <1>2, <2>1 DEF Nested
<1>8. GoneBelow'
  <2>1. 0 \notin gone.syncs
    BY <1>0 DEF FlowTypes
  <2> QED BY <1>0, <1>2, <1>6, <2>1 DEF GoneBelow
<1>9. DecEnded'
  <2>1. ASSUME NEW u \in FT, ctx'[u].at \in {"dec", "parent"} PROVE ctx'[u].d.p \in ended' /\ task'[ctx'[u].d.p].sync # 0
    <3>1. ctx[u].d.p \in ended /\ task[ctx[u].d.p].sync # 0 /\ ctx[u].d.p \in Procs /\ ctx'[u].d = ctx[u].d
      BY <1>0, <1>2, <2>1 DEF DecEnded, Names
    <3> QED BY <1>2, <3>1
  <2> QED BY <2>1 DEF DecEnded
<1>10. ForkOK'
  <2>1. ctx'["loop"].at # "fork"
    BY <1>0, <1>2 DEF ForkOK, FT
  <2>2. ASSUME ctx'["worker"].at = "fork" PROVE ForkedRow(ctx["worker"].d, MySync(ctx["worker"].d))'
    <3>1. PICK d : d = ctx["worker"].d
      OBVIOUS
    <3>2. PICK s : s = MySync(d)
      OBVIOUS
    <3>3. ctx["worker"].at = "fork" /\ ctx'["worker"].d = d
      BY <1>2, <2>2, <3>1 DEF FT
    <3>4. ForkSync(s)
      BY <3>1, <3>2, <3>3 DEF ForkSync
    <3>5. ForkedRow(d, s) /\ d.p = sync[s].taid /\ d.p \in Procs /\ s \in DOMAIN sync
      BY <3>1, <3>4, ForkFacts
    <3>6. Steps(d.p)' = Steps(d.p)
      <4>1. KeepsRow(d.p)
        BY <1>2, <3>5
      <4> QED BY <4>1 DEF Steps, KeepsRow
    <3>7. Row(s, d.p)' /\ sync'[s].step = d.k
      BY <1>1, <1>2, <3>5 DEF ForkedRow
    <3>8. \A r \in DOMAIN sync' : Row(r, d.p)' /\ Awaited(r)' # {} => r = s
      <4>1. \A r : ForkSync(r) => r = s
        BY <3>1, <3>2 DEF ForkSync
      <4> QED BY <1>1, <1>2, <3>5, <4>1 DEF ForkedRow
    <3>9. \A c \in Awaited(s)' : Queued(c)'
      <4>1. ASSUME NEW c \in Awaited(s)' PROVE Queued(c)'
        <5>1. CASE c \in Awaited(s)
          <6>1. Queued(c) /\ c \in Procs
            BY <3>5, <5>1 DEF ForkedRow, Awaited
          <6> QED BY <1>1, <6>1
        <5>2. CASE c \in Procs' \ Procs
          BY <5>2, GrowsNew
        <5> QED BY <1>1, <4>1, <5>1, <5>2
      <4> QED BY <4>1
    <3>10. ForkedRow(d, s)'
      BY <3>5, <3>6, <3>7, <3>8, <3>9 DEF ForkedRow
    <3>11. MySync(ctx["worker"].d)' = s
      BY <1>2, <3>2, <3>3 DEF MySync
    <3> QED BY <3>3, <3>10, <3>11
  <2> QED BY <2>1, <2>2 DEF ForkOK
<1> QED BY <1>3, <1>4, <1>5, <1>7, <1>8, <1>9, <1>10 DEF FlowInv

(* The rows of new processes. *)
(* The rows Create adds, and those it keeps. *)
RowsOf(added) ==
  /\ added \in Seq(TaskRec)
  /\ \A i \in DOMAIN added :
       /\ added[i].pos = 1 /\ Prog[added[i].wf][added[i].sq] # <<>>
       /\ added[i].sync = 0 \/ ForkSync(added[i].sync)
SameBase(base) ==
  /\ base \in Seq(TaskRec) /\ Len(base) = Len(task)
  /\ \A q \in Procs : /\ base[q].pos = task[q].pos /\ base[q].wf = task[q].wf /\ base[q].sq = task[q].sq
                      /\ base[q].sync = task[q].sync /\ base[q].state \in {task[q].state, "aborted"}

Joined(S, c, a, n, b, m) ==
  /\ c \in Seq(S) /\ Len(c) = n + m
  /\ \A i \in 1 .. n : c[i] = a[i]
  /\ \A i \in 1 .. m : c[n + i] = b[i]

(* Concatenation, element by element. *)
LEMMA ConcatIs ==
  ASSUME NEW S, NEW a \in Seq(S), NEW b \in Seq(S), NEW c, c = a \o b,
         NEW n \in Nat, NEW m \in Nat, n = Len(a), m = Len(b)
  PROVE  Joined(S, c, a, n, b, m)
<1>1. c \in Seq(S) /\ Len(c) = n + m
  OBVIOUS
<1>2. \A i \in 1 .. n + m : c[i] = IF i <= n THEN a[i] ELSE b[i - n]
  OBVIOUS
<1>3. ASSUME NEW i \in 1 .. m PROVE c[n + i] = b[i]
  <2>1. n + i \in 1 .. n + m /\ ~ (n + i <= n) /\ (n + i) - n = i
    OBVIOUS
  <2> QED BY <1>2, <2>1
<1>4. ASSUME NEW i \in 1 .. n PROVE c[i] = a[i]
  BY <1>2
<1> QED BY <1>1, <1>3, <1>4 DEF Joined

(* What Create does is such a step. *)
LEMMA CreateGrows ==
  ASSUME FlowInv, NEW base, NEW added, SameBase(base), RowsOf(added), Create(base, added),
         timers' = timers, ended' = ended
  PROVE  /\ Len(added) \in Nat /\ GrowsRows(Len(added)) /\ GrowsQueue(Len(added))
         /\ \A i \in DOMAIN added : task'[Len(task) + i] = added[i]
<1>1. PICK m \in Nat : m = Len(added) /\ DOMAIN added = 1 .. m
  BY DEF RowsOf
<1>2. PICK N \in Nat : N = Len(task) /\ Procs = 1 .. N
  BY DEF FlowInv, FlowTypes, Procs
<1>3. /\ task' \in Seq(TaskRec) /\ Len(task') = N + m /\ Procs' = 1 .. N + m
      /\ \A q \in 1 .. N : task'[q] = base[q]
      /\ \A i \in 1 .. m : task'[N + i] = added[i]
  <2>1. task' = base \o added /\ base \in Seq(TaskRec) /\ added \in Seq(TaskRec) /\ Len(base) = N
    BY <1>2 DEF Create, SameBase, RowsOf
  <2>2. /\ task' \in Seq(TaskRec) /\ Len(task') = N + m
        /\ \A q \in 1 .. N : task'[q] = base[q]
        /\ \A i \in 1 .. m : task'[N + i] = added[i]
    <3>1. Joined(TaskRec, task', base, N, added, m)
      BY <1>1, <2>1, ConcatIs
    <3> QED BY <3>1 DEF Joined
  <2> QED BY <2>2 DEF Procs
<1>4. PICK news : news = [i \in 1 .. m |-> Started(N + i)]
  OBVIOUS
<1>5. news \in Seq(DbwRec) /\ Len(news) = m
  <2>1. ASSUME NEW i \in 1 .. m PROVE Started(N + i) \in DbwRec
    <3>1. N + i \in Nat /\ 1 \in Nat /\ "none" \in States /\ -1 \in Int
      BY DEF States
    <3> QED BY <3>1, DbwType DEF Started
  <2> QED BY <1>4, <2>1
<1>6. GrowsQueue(m)
  <2>1. queue' = queue \o news /\ queue \in Seq(DbwRec)
    BY <1>1, <1>2, <1>4 DEF Create, FlowInv, FlowTypes
  <2>2. DOMAIN queue = 1 .. Len(queue) /\ Len(queue) \in Nat
    BY <2>1
  <2>3. /\ queue' \in Seq(DbwRec) /\ Len(queue') = Len(queue) + m
        /\ \A i \in 1 .. Len(queue) : queue'[i] = queue[i]
        /\ \A i \in 1 .. m : queue'[Len(queue) + i] = news[i]
    <3>1. Joined(DbwRec, queue', queue, Len(queue), news, m)
      BY <1>5, <2>1, <2>2, ConcatIs
    <3> QED BY <3>1 DEF Joined
  <2>5. \A i \in 1 .. m : queue'[Len(queue) + i] = Started(N + i)
    BY <1>4, <2>3
  <2> QED BY <1>2, <2>2, <2>3, <2>5 DEF GrowsQueue
<1>7. /\ open' \in Seq(SUBSET (WaitItems \union {"call-back"})) /\ Len(open') = N + m
      /\ \A q \in 1 .. N : open'[q] = open[q]
      /\ \A i \in 1 .. m : open'[N + i] = {}
  <2>0. PICK S : S = SUBSET (WaitItems \union {"call-back"})
    OBVIOUS
  <2>1. PICK e : e = [i \in 1 .. m |-> {}]
    OBVIOUS
  <2>2. {} \in S
    BY <2>0
  <2>3. e \in Seq(S) /\ Len(e) = m
    BY <2>1, <2>2
  <2>4. open \in Seq(S) /\ Len(open) = N /\ open' = open \o e
    BY <1>1, <1>2, <2>0, <2>1 DEF Create, FlowInv, FlowTypes
  <2>5. /\ open' \in Seq(S) /\ Len(open') = N + m
        /\ \A q \in 1 .. N : open'[q] = open[q]
        /\ \A i \in 1 .. m : open'[N + i] = e[i]
    <3>1. Joined(S, open', open, N, e, m)
      BY <2>3, <2>4, ConcatIs
    <3> QED BY <3>1 DEF Joined
  <2> QED BY <2>0, <2>1, <2>5
<1>8. /\ ran' \in Seq(Seq(Nat)) /\ Len(ran') = N + m
      /\ \A q \in 1 .. N : ran'[q] = ran[q]
      /\ \A i \in 1 .. m : ran'[N + i] = <<>>
  <2>0. PICK S : S = Seq(Nat)
    OBVIOUS
  <2>1. PICK e : e = [i \in 1 .. m |-> <<>>]
    OBVIOUS
  <2>2. <<>> \in S
    BY <2>0
  <2>3. e \in Seq(S) /\ Len(e) = m
    BY <2>1, <2>2
  <2>4. ran \in Seq(S) /\ Len(ran) = N /\ ran' = ran \o e
    BY <1>1, <1>2, <2>0, <2>1 DEF Create, FlowInv, FlowTypes
  <2>5. /\ ran' \in Seq(S) /\ Len(ran') = N + m
        /\ \A q \in 1 .. N : ran'[q] = ran[q]
        /\ \A i \in 1 .. m : ran'[N + i] = e[i]
    <3>1. Joined(S, ran', ran, N, e, m)
      BY <2>3, <2>4, ConcatIs
    <3> QED BY <3>1 DEF Joined
  <2> QED BY <2>0, <2>1, <2>5
<1>9. ASSUME NEW q \in Procs PROVE KeepsRow(q) /\ task'[q].sync = task[q].sync
  <2>1. task'[q] = base[q] /\ open'[q] = open[q] /\ ran'[q] = ran[q]
    BY <1>2, <1>3, <1>7, <1>8
  <2> QED BY <2>1 DEF KeepsRow, SameBase
<1>10. ASSUME NEW q \in Procs' \ Procs PROVE Newborn(q)
  <2>1. PICK i \in 1 .. m : q = N + i
    <3>1. q - N \in 1 .. m /\ q = N + (q - N)
      BY <1>2, <1>3
    <3> QED BY <3>1
  <2>2. task'[q] = added[i] /\ open'[q] = {} /\ ran'[q] = <<>>
    BY <1>3, <1>7, <1>8, <2>1
  <2> QED BY <1>1, <2>2 DEF RowsOf, Newborn
<1>11. GrowsRows(m)
  BY <1>2, <1>3, <1>7, <1>8, <1>9, <1>10 DEF GrowsRows
<1> QED BY <1>1, <1>2, <1>3, <1>6, <1>11

(* The counter covers fewer children as well. *)
LEMMA FewerAwaited ==
  ASSUME FlowInv, NEW s \in DOMAIN sync, Awaited(s)' \subseteq Awaited(s), Todo(s)' = Todo(s),
         sync'[s] = sync[s], gone.syncs \subseteq gone'.syncs
  PROVE  Counted(s)'
<1>1. IsFiniteSet(Awaited(s)) /\ Cardinality(Awaited(s)) \in Nat
  BY AwaitedIsFinite DEF FlowInv
<1>2. Cardinality(Awaited(s)') \in Nat /\ Cardinality(Awaited(s)') <= Cardinality(Awaited(s))
  BY <1>1, FS_Subset, FS_CardinalityType
<1>3. Todo(s) \in Nat
  BY TodoIsNat DEF FlowInv
<1>4. sync[s].cnt \in Int
  <2>1. sync \in Seq(SyncRec)
    BY DEF FlowInv, FlowTypes
  <2>2. sync[s] \in SyncRec
    BY <2>1
  <2> QED BY <2>2 DEF SyncRec
<1>5. s \notin gone.syncs => sync[s].cnt >= Cardinality(Awaited(s)) + Todo(s)
  BY DEF FlowInv, Counts, Counted
<1>6. s \notin gone'.syncs => sync'[s].cnt >= Cardinality(Awaited(s)') + Todo(s)'
  BY <1>1, <1>2, <1>3, <1>4, <1>5
<1> QED BY <1>6 DEF Counted

(* When no child is added, as many are awaited as before. *)
LEMMA GrowsCounts ==
  ASSUME FlowInv, NEW m \in Nat, Grows(m), ctx' = ctx, \A q \in Procs' \ Procs : task'[q].sync = 0
  PROVE  Counts'
<1>1. sync' = sync /\ gone' = gone
  BY DEF Grows
<1>2. ASSUME NEW s \in DOMAIN sync PROVE Counted(s)'
  <2>1. s # 0
    BY DEF FlowInv, FlowTypes
  <2>2. Awaited(s)' \subseteq Awaited(s)
    BY <2>1, GrowsFacts
  <2>3. Todo(s)' = Todo(s)
    BY <1>1 DEF Todo, MySync
  <2> QED BY <1>1, <2>2, <2>3, FewerAwaited
<1> QED BY <1>1, <1>2 DEF Counts

(* A user starts a process. *)
LEMMA BaseIsTask ==
  ASSUME FlowInv
  PROVE  SameBase(task)
BY DEF FlowInv, FlowTypes, SameBase

LEMMA CreatedRow ==
  ASSUME NEW w \in DOMAIN Prog, NEW q \in Sequences, NEW s \in Nat, Prog[w][q] # <<>>, s = 0 \/ ForkSync(s)
  PROVE  /\ Created(w, q, s) \in TaskRec /\ Created(w, q, s).sync = s
         /\ Created(w, q, s).pos = 1 /\ Prog[Created(w, q, s).wf][Created(w, q, s).sq] # <<>>
BY DEF Created, TaskRec, States

LEMMA ProcessAddStep ==
  ASSUME FlowInv, NEW w \in Roots, ProcessAdd(w)
  PROVE  FlowInv' /\ Grows(1) /\ \A q \in Procs' \ Procs : task'[q].sync = 0
<1>1. PICK r : r = Created(w, "default", 0)
  OBVIOUS
<1>2. r \in TaskRec /\ r.sync = 0 /\ r.pos = 1 /\ Prog[r.wf][r.sq] # <<>>
  <2>1. w \in DOMAIN Prog /\ "default" \in Sequences /\ Prog[w]["default"] # <<>>
    BY FlowAssumption DEF Sequences
  <2> QED BY <1>1, <2>1, CreatedRow
<1>3. PICK added : added = <<r>>
  OBVIOUS
<1>4. RowsOf(added) /\ Len(added) = 1 /\ DOMAIN added = {1} /\ added[1] = r
  BY <1>2, <1>3 DEF RowsOf
<1>5. /\ Create(task, added) /\ asked' = [asked EXCEPT !.roots = @ \union {w}] /\ ctx' = ctx
      /\ UNCHANGED <<gone, sync, timers, calls, merged, ended>>
  BY <1>1, <1>3 DEF ProcessAdd
<1>6. /\ GrowsRows(1) /\ GrowsQueue(1) /\ task'[Len(task) + 1] = r
  BY <1>4, <1>5, BaseIsTask, CreateGrows
<1>7. /\ asked' \in [roots : SUBSET Roots, aborts : Nat, repairs : Nat,
                 moves : Nat, removals : Nat, crashes : Nat]
      /\ asked'.crashes = asked.crashes
  BY <1>5 DEF FlowInv, FlowTypes
<1>8. Grows(1)
  BY <1>5, <1>6, <1>7 DEF Grows, FlowInv, FlowTypes
<1>9. \A q \in Procs' \ Procs : task'[q].sync = 0
  <2>1. \A q \in Procs' \ Procs : q = Len(task) + 1
    <3>1. \A q \in Procs' \ Procs : q - Len(task) \in 1 .. 1 /\ q \in Nat /\ Len(task) \in Nat
      BY <1>8, GrowsFacts
    <3> QED BY <3>1
  <2> QED BY <1>2, <1>6, <2>1
<1>10. Counts'
  BY <1>5, <1>8, <1>9, GrowsCounts
<1> QED BY <1>8, <1>9, <1>10, GrowsStep

(* The worker that creates children. *)
LEMMA AtFork ==
  ASSUME FlowInv, NEW t \in FT, ctx[t].at = "fork", NEW d, d = ctx[t].d, NEW p, p = d.p
  PROVE  /\ t = "worker" /\ p \in Procs /\ p \notin gone.procs /\ p \notin ended
         /\ ctx[t] \in CtxRec /\ d \in DbwRec
         /\ ~ Queued(p) /\ ~ Called(p) /\ open[p] = {} /\ p \notin timers
         /\ \A u \in FT : ~ Coming(u, p) /\ (OnWay(u, p) => u = t)
         /\ d.k = Pos(p) /\ L(p) = Pos(p) /\ task[p].state \in {"halt", "aborted"}
         /\ Walked(p) /\ OneRow(p)
         /\ ForkSync(MySync(d))
<1>1. t = "worker"
  BY DEF FlowInv, ForkOK, FT
<1>2. p \in Procs /\ PInv(p) /\ ctx[t] \in CtxRec
  BY DEF FlowInv, Names, FlowTypes
<1>3. d \in DbwRec
  BY <1>2 DEF CtxRec
<1>4. OnWay("worker", p) /\ Busy(p) /\ Forks(p)
  BY <1>1 DEF OnWay, Busy, Forks
<1>5. p \notin gone.procs
  BY <1>2, <1>4 DEF PInv, GoneRests
<1>6. p \notin ended
  BY <1>1, <1>2, <1>4 DEF PInv, EndedRests
<1>7. PICK w \in Spots : Placed(w, p)
  BY <1>2 DEF PInv, InOnePlace
<1>8. w = "worker"
  BY <1>1, <1>4, <1>7 DEF Placed
<1>9. ~ Queued(p) /\ ~ Called(p) /\ open[p] = {} /\ p \notin timers
  BY <1>7, <1>8 DEF Placed
<1>10. \A u \in FT : ~ Coming(u, p) /\ (OnWay(u, p) => u = t)
  BY <1>1, <1>7, <1>8, ThreadsAre DEF Placed
<1>11. InStep(p) /\ OneRow(p)
  BY <1>2 DEF PInv
<1>12. Late(p)
  BY <1>4 DEF Late, Forks, FT
<1>13. L(p) = Pos(p) /\ Walked(p) /\ task[p].state \in {"halt", "aborted"}
  BY <1>4, <1>11, <1>12 DEF InStep
<1>14. d.k = Pos(p)
  BY <1>1, <1>4, <1>11 DEF InStep
<1>15. ForkSync(MySync(d))
  BY <1>1 DEF ForkSync
<1> QED BY <1>1, <1>2, <1>3, <1>5, <1>6, <1>9, <1>10, <1>11, <1>13, <1>14, <1>15

(* All children are created: the dbw goes. *)
LEMMA InheritLast ==
  ASSUME FlowInv, NEW t \in FT, Inherit(t), ~ (ctx[t].todo > 0)
  PROVE  FlowInv'
<1>1. PICK d : d = ctx[t].d
  OBVIOUS
<1>2. PICK p : p = d.p
  OBVIOUS
<1>3. /\ ctx[t].at = "fork" /\ Become(t, Doing("halt", d))
      /\ UNCHANGED <<task, queue, open, ran, gone, sync, timers, calls, merged, ended, asked>>
  BY <1>1 DEF Inherit
<1>4. /\ t = "worker" /\ p \in Procs /\ p \notin gone.procs /\ p \notin ended
      /\ d \in DbwRec
      /\ ~ Queued(p) /\ ~ Called(p) /\ open[p] = {} /\ p \notin timers
      /\ \A u \in FT : ~ Coming(u, p) /\ (OnWay(u, p) => u = t)
      /\ L(p) = Pos(p) /\ task[p].state \in {"halt", "aborted"}
      /\ Walked(p) /\ OneRow(p)
  BY <1>1, <1>2, <1>3, AtFork
<1>5. PICK c : c = Doing("halt", d)
  OBVIOUS
<1>6. c \in CtxRec /\ c.at = "halt" /\ c.d = d
  <2>1. "halt" \in Places
    BY DEF Places
  <2> QED BY <1>4, <1>5, <2>1, DoingType
<1>7. Become(t, c)
  BY <1>3, <1>5
<1>8. c.at \notin {"parent", "dec", "fork"} /\ c.d.p = p
  BY <1>2, <1>6
<1>9. /\ ThreadOf(p) /\ ctx'[t] = c /\ \A u \in FT : u # t => ctx'[u] = ctx[u]
      /\ \A u \in FT : ctx'[u] = ctx[u] \/ ctx'[u].at # "parent"
  BY <1>1, <1>2, <1>3, <1>6, <1>7, <1>8, BecomeOf
<1>10. Touch(p)
  <2>1. OpenOf(p) /\ RanOf(p) /\ TaskOf(p)
    BY <1>3, <1>4, TouchRows DEF FlowInv
  <2>2. Calm
    BY <1>3, CalmStays
  <2>3. QueueOf({p}) /\ CallsSet(p)
    BY <1>3 DEF QueueOf, CallsSet
  <2> QED BY <1>3, <1>9, <2>1, <2>2, <2>3 DEF Touch
<1>11. Local({p})
  BY <1>4, <1>10, TouchIsLocal
<1>12. OneRow(p)'
  BY <1>4, <1>11, LocalRows
<1>13. Alone("none", p)'
  <2>1. Alone(t, p)
    BY <1>4 DEF Alone
  <2> QED BY <1>6, <1>9, <2>1, AloneStays
<1>14. ~ Queued(p)' /\ ~ Called(p)' /\ open'[p] = {} /\ p \notin timers' /\ p \notin ended' /\ p \notin gone'.procs
  BY <1>3, <1>4 DEF Queued, Called
<1>15. \A u \in FT : ~ Coming(u, p)'
  BY <1>4, <1>9, <1>11, ComingStays
<1>16. Placed("children", p)'
  BY <1>13, <1>14, <1>15 DEF Placed, Alone, FT
<1>17. Walked(p)' /\ L(p)' = Pos(p)'
  BY <1>3, <1>4, WalkedStays DEF Steps
<1>18. \A e, f \in calls' : e.p = p /\ f.p = p => e = f
  BY <1>14 DEF Called
<1>19. "children" \in Spots
  BY DEF Spots
<1>20. PInv(p)'
  BY <1>3, <1>4, <1>12, <1>13, <1>14, <1>16, <1>17, <1>18, <1>19, ToRest
<1> QED BY <1>4, <1>10, <1>20, TouchStep

(* The next child. *)
LEMMA InheritNext ==
  ASSUME FlowInv, NEW t \in FT, Inherit(t), ctx[t].todo > 0
  PROVE  FlowInv' /\ Grows(1) /\ \A q \in Procs' \ Procs : task'[q].sync = MySync(ctx[t].d)
<1>1. PICK d : d = ctx[t].d
  OBVIOUS
<1>2. PICK p : p = d.p
  OBVIOUS
<1>3. PICK s : s = MySync(d)
  OBVIOUS
<1>4. PICK r : r = Created(Steps(p)[d.k].wf, task[p].sq, s)
  OBVIOUS
<1>5. PICK added : added = <<r>>
  OBVIOUS
<1>6. /\ ctx[t].at = "fork" /\ Create(task, added) /\ Become(t, [ctx[t] EXCEPT !.todo = @ - 1])
      /\ UNCHANGED <<gone, sync, timers, calls, merged, ended, asked>>
  BY <1>1, <1>2, <1>3, <1>4, <1>5 DEF Inherit
<1>7. /\ t = "worker" /\ p \in Procs /\ d \in DbwRec /\ ctx[t] \in CtxRec
      /\ d.k = Pos(p) /\ Walked(p) /\ ForkSync(s)
  BY <1>1, <1>2, <1>3, <1>6, AtFork
<1>8. s \in DOMAIN sync /\ ForkedRow(d, s) /\ sync \in Seq(SyncRec) /\ s \notin gone.syncs
  <2>1. sync \in Seq(SyncRec)
    BY DEF FlowInv, FlowTypes
  <2>2. s \in DOMAIN sync /\ ForkedRow(ctx["worker"].d, s) /\ s \notin gone.syncs
    BY <1>7, ForkFacts
  <2> QED BY <1>1, <1>7, <2>1, <2>2
<1>9. r \in TaskRec /\ r.sync = s /\ r.pos = 1 /\ Prog[r.wf][r.sq] # <<>>
  <2>1. d.k \in 1 .. Len(Steps(p))
    BY <1>7 DEF Walked
  <2>2. Steps(p)[d.k].kind \in {"split", "if"}
    BY <1>2, <1>8 DEF ForkedRow
  <2>3. PICK w : w = Steps(p)[d.k].wf
    OBVIOUS
  <2>4. PICK x : x = task[p].sq
    OBVIOUS
  <2>5. w \in DOMAIN Prog /\ Prog[w][x] # <<>> /\ x \in Sequences
    BY <1>7, <2>1, <2>2, <2>3, <2>4, StepsType
  <2>6. s \in Nat
    BY <1>8
  <2>7. r = Created(w, x, s)
    BY <1>4, <2>3, <2>4
  <2> QED BY <1>7, <2>5, <2>6, <2>7, CreatedRow
<1>10. RowsOf(added) /\ Len(added) = 1 /\ DOMAIN added = {1} /\ added[1] = r
  BY <1>5, <1>7, <1>9 DEF RowsOf
<1>11. GrowsRows(1) /\ GrowsQueue(1) /\ task'[Len(task) + 1] = r
  BY <1>6, <1>10, BaseIsTask, CreateGrows
<1>12. PICK n \in Nat : n = ctx[t].todo
  BY <1>7 DEF CtxRec
<1>13. PICK c : c = [ctx[t] EXCEPT !.todo = @ - 1]
  OBVIOUS
<1>14. c \in CtxRec /\ c.at = "fork" /\ c.d = d /\ c.todo = n - 1
  BY <1>1, <1>6, <1>7, <1>12, <1>13, DecTodo
<1>15. /\ ctx' \in [FT -> CtxRec] /\ ctx'["worker"] = c
       /\ \A u \in FT : ctx'[u].at = ctx[u].at /\ ctx'[u].d = ctx[u].d
  <2>1. ctx \in [FT -> CtxRec]
    BY DEF FlowInv, FlowTypes
  <2>2. ctx' = [ctx EXCEPT !["worker"] = c]
    BY <1>6, <1>7, <1>13 DEF Become
  <2>3. ctx' \in [FT -> CtxRec] /\ ctx'["worker"] = c /\ \A u \in FT : u # "worker" => ctx'[u] = ctx[u]
    BY <1>7, <1>14, <2>1, <2>2
  <2>4. ctx["worker"].at = "fork" /\ ctx["worker"].d = d
    BY <1>1, <1>6, <1>7
  <2> QED BY <1>14, <2>3, <2>4
<1>16. Grows(1)
  BY <1>6, <1>11, <1>15 DEF Grows, FlowInv, FlowTypes
<1>17. \A q \in Procs' \ Procs : q = Len(task) + 1
  <2>1. \A q \in Procs' \ Procs : q - Len(task) \in 1 .. 1 /\ q \in Nat /\ Len(task) \in Nat
    BY <1>16, GrowsFacts
  <2> QED BY <2>1
<1>18. PICK q : q = Len(task) + 1
  OBVIOUS
<1>19. Awaited(s)' \subseteq Awaited(s) \union {q}
  BY <1>16, <1>17, <1>18, GrowsFacts
<1>20. \A z \in DOMAIN sync : z # s => Awaited(z)' \subseteq Awaited(z)
  <2>1. \A z : Awaited(z)' \subseteq Awaited(z) \union {x \in Procs' \ Procs : task'[x].sync = z}
    BY <1>16, GrowsFacts
  <2>2. \A x \in Procs' \ Procs : task'[x].sync = s
    BY <1>9, <1>11, <1>17
  <2> QED BY <2>1, <2>2
<1>21. Todo(s) = n /\ Todo(s)' = n - 1 /\ \A z : z # s => Todo(z) = 0 /\ Todo(z)' = 0
  <2>1. ctx["worker"].at = "fork" /\ ctx'["worker"].at = "fork" /\ ctx["worker"].d = d /\ ctx'["worker"].d = d
    BY <1>1, <1>6, <1>7, <1>14, <1>15
  <2>2. MySync(ctx["worker"].d) = s /\ MySync(ctx["worker"].d)' = s
    BY <1>3, <1>6, <2>1 DEF MySync
  <2> QED BY <1>7, <1>12, <1>14, <1>15, <2>1, <2>2 DEF Todo
<1>22. Counts'
  <2>1. ASSUME NEW z \in DOMAIN sync PROVE Counted(z)'
    <3>1. PICK a \in Nat : a = Cardinality(Awaited(z))
      BY AwaitedIsFinite DEF FlowInv
    <3>2. IsFiniteSet(Awaited(z))
      BY AwaitedIsFinite DEF FlowInv
    <3>3. sync[z].cnt \in Int
      <4>1. sync[z] \in SyncRec
        BY <1>8
      <4> QED BY <4>1 DEF SyncRec
    <3>4. z \notin gone.syncs => sync[z].cnt >= a + Todo(z)
      BY <3>1 DEF FlowInv, Counts, Counted
    <3>5. CASE z = s
      <4>1. PICK B : B = Awaited(s) \union {q}
        OBVIOUS
      <4>2. IsFiniteSet(B) /\ Cardinality(B) \in Nat /\ Cardinality(B) <= a + 1
        <5>1. IsFiniteSet(Awaited(s)) /\ Cardinality(Awaited(s)) = a
          BY <3>1, <3>2, <3>5
        <5>2. PICK A : A = Awaited(s)
          OBVIOUS
        <5>3. IsFiniteSet(A)
          BY <5>1, <5>2
        <5>4. IsFiniteSet(A \union {q}) /\ (Cardinality(A \union {q}) = Cardinality(A) \/ Cardinality(A \union {q}) = Cardinality(A) + 1)
          BY <5>3, FS_AddElement
        <5>5. IsFiniteSet(B) /\ (Cardinality(B) = a \/ Cardinality(B) = a + 1)
          BY <4>1, <5>1, <5>2, <5>4
        <5> QED BY <3>1, <5>5
      <4>3. Cardinality(Awaited(s)') \in Nat /\ Cardinality(Awaited(s)') <= Cardinality(B)
        BY <1>19, <4>1, <4>2, FS_Subset, FS_CardinalityType
      <4>4. Cardinality(Awaited(s)') + (n - 1) <= a + n
        BY <3>1, <4>2, <4>3, <1>12
      <4>5. z \notin gone.syncs => sync[z].cnt >= a + n
        BY <1>21, <3>4, <3>5
      <4>6. z \notin gone.syncs => sync[z].cnt >= Cardinality(Awaited(s)') + (n - 1)
        BY <3>1, <3>3, <4>3, <4>4, <4>5, <1>12
      <4>7. z \notin gone'.syncs => sync'[z].cnt >= Cardinality(Awaited(z)') + Todo(z)'
        BY <1>6, <1>21, <3>5, <4>6
      <4> QED BY <4>7 DEF Counted
    <3>6. CASE z # s
      <4>1. Cardinality(Awaited(z)') \in Nat /\ Cardinality(Awaited(z)') <= a
        BY <1>20, <3>1, <3>2, <3>6, FS_Subset, FS_CardinalityType
      <4>2. Todo(z) = 0 /\ Todo(z)' = 0
        BY <1>21, <3>6
      <4>3. z \notin gone.syncs => sync[z].cnt >= Cardinality(Awaited(z)') + 0
        BY <3>1, <3>3, <3>4, <4>1, <4>2
      <4>4. z \notin gone'.syncs => sync'[z].cnt >= Cardinality(Awaited(z)') + Todo(z)'
        BY <1>6, <4>2, <4>3
      <4> QED BY <4>4 DEF Counted
    <3> QED BY <3>5, <3>6
  <2> QED BY <1>6, <2>1 DEF Counts
<1>23. \A x \in Procs' \ Procs : task'[x].sync = s
  BY <1>9, <1>11, <1>17
<1> QED BY <1>1, <1>3, <1>16, <1>22, <1>23, GrowsStep

(* The worker creates the next child, or is through. *)
LEMMA InheritStep ==
  ASSUME FlowInv, NEW t \in FT, Inherit(t)
  PROVE  FlowInv'
BY InheritLast, InheritNext

-----------------------------------------------------------------------------
(* Aborts. *)

(* The invariant gives what the lemmas on paths need. *)
LEMMA IsRooted ==
  ASSUME FlowInv
  PROVE  Rooted /\ task \in Seq(TaskRec) /\ IsFiniteSet(Procs)
<1>1. task \in Seq(TaskRec) /\ sync \in Seq(SyncRec) /\ Nested /\ Procs = 1 .. Len(task) /\ Len(task) \in Nat
  BY DEF FlowInv, FlowTypes, Procs
<1>2. ASSUME NEW c \in Procs PROVE ParentOf(c) \in 0 .. c - 1
  <2>1. c \in 1 .. Len(task)
    BY <1>1
  <2>2. CASE task[c].sync = 0
    BY <2>1, <2>2 DEF ParentOf
  <2>3. CASE task[c].sync # 0
    <3>1. sync[task[c].sync].taid \in 1 .. c - 1
      BY <1>1, <2>3 DEF Nested
    <3>2. ParentOf(c) = sync[task[c].sync].taid
      BY <2>3 DEF ParentOf
    <3> QED BY <2>1, <3>1, <3>2
  <2> QED BY <2>2, <2>3
<1> QED BY <1>1, <1>2, FS_Interval DEF Rooted

(* The row of a process that is aborted. *)
Aborted(r) == [r EXCEPT !.active = FALSE, !.state = "aborted"]
LEMMA RecAborted ==
  ASSUME NEW r \in TaskRec
  PROVE  /\ Aborted(r) \in TaskRec /\ Aborted(r).pos = r.pos /\ Aborted(r).wf = r.wf /\ Aborted(r).sq = r.sq
         /\ Aborted(r).sync = r.sync /\ Aborted(r).state = "aborted"
BY DEF Aborted, TaskRec, States

(* The processes an abort meets, and the abort sequences it starts. *)
LEMMA MetType ==
  ASSUME FlowInv, NEW p \in Procs
  PROVE  Met(p) \in Seq(Procs)
<1>1. Path[p] \in Seq(Procs) /\ Path[p] # <<>>
  BY IsRooted, PathFacts
<1>2. PICK r : r = Path[p][1]
  OBVIOUS
<1>3. Below(r) \subseteq Procs
  BY DEF Below, Live
<1>4. IsFiniteSet(Below(r))
  BY <1>3, IsRooted, FS_Subset
<1>5. SetToSeq(Below(r)) \in Seq(Below(r))
  BY <1>4, SetToSeqIs
<1>6. PICK u : u = SetToSeq(Below(r))
  OBVIOUS
<1>7. u \in Seq(Procs)
  BY <1>3, <1>5, <1>6
<1>8. Tail(Path[p]) \in Seq(Procs)
  BY <1>1
<1>9. Met(p) = u \o Tail(Path[p])
  BY <1>2, <1>6 DEF Met
<1> QED BY <1>7, <1>8, <1>9

LEMMA AbortRows ==
  ASSUME FlowInv, NEW ps \in Seq(Procs), NEW added, added = AbortSequences(ps)
  PROVE  RowsOf(added) /\ \A i \in DOMAIN added : added[i].sync = 0
<1>1. PICK S : S = {i \in DOMAIN ps : Prog[task[ps[i]].wf]["abort"] # <<>>}
  OBVIOUS
<1>2. IsFiniteSet(S)
  <2>1. S \subseteq 1 .. Len(ps) /\ Len(ps) \in Nat
    BY <1>1
  <2>2. IsFiniteSet(1 .. Len(ps))
    BY <2>1, FS_Interval
  <2> QED BY <2>1, <2>2, FS_Subset
<1>3. PICK own \in Seq(S) : own = SetToSeq(S)
  BY <1>2, SetToSeqIs
<1>4. added = [j \in DOMAIN own |-> Created(task[ps[own[j]]].wf, "abort", 0)]
  BY <1>1, <1>3 DEF AbortSequences
<1>5. ASSUME NEW j \in DOMAIN own
      PROVE  LET r == Created(task[ps[own[j]]].wf, "abort", 0)
             IN r \in TaskRec /\ r.sync = 0 /\ r.pos = 1 /\ Prog[r.wf][r.sq] # <<>>
  <2>1. PICK i : i = own[j]
    OBVIOUS
  <2>2. i \in S
    BY <1>3, <1>5, <2>1
  <2>3. PICK w : w = task[ps[i]].wf
    OBVIOUS
  <2>4. ps[i] \in Procs /\ Prog[w]["abort"] # <<>>
    BY <1>1, <2>2, <2>3
  <2>5. w \in DOMAIN Prog
    BY <2>3, <2>4, StepsType
  <2>6. "abort" \in Sequences /\ 0 \in Nat
    BY DEF Sequences
  <2>7. LET r == Created(w, "abort", 0)
        IN r \in TaskRec /\ r.sync = 0 /\ r.pos = 1 /\ Prog[r.wf][r.sq] # <<>>
    BY <2>4, <2>5, <2>6, CreatedRow
  <2> QED BY <2>1, <2>3, <2>7
<1>6. DOMAIN added = DOMAIN own /\ \A j \in DOMAIN added : added[j] \in TaskRec /\ added[j].sync = 0 /\ added[j].pos = 1 /\ Prog[added[j].wf][added[j].sq] # <<>>
  BY <1>4, <1>5
<1>7. PICK n \in Nat : DOMAIN own = 1 .. n
  BY <1>3
<1>8. added \in Seq(TaskRec)
  <2>1. added = [j \in 1 .. n |-> added[j]]
    BY <1>4, <1>6, <1>7
  <2> QED BY <1>6, <1>7, <2>1
<1> QED BY <1>6, <1>8 DEF RowsOf

(* An abort: states, flags and new processes. *)
LEMMA AbortStep ==
  ASSUME FlowInv, NEW p \in Procs, Abort(p)
  PROVE  FlowInv' /\ \E m \in Nat : Grows(m) /\ \A q \in Procs' \ Procs : task'[q].sync = 0
<1>1. PICK hit : hit = ToSet(Met(p))
  OBVIOUS
<1>2. PICK base : base = [x \in Procs |-> IF x \in hit THEN Aborted(task[x]) ELSE task[x]]
  OBVIOUS
<1>3. PICK added : added = AbortSequences(Met(p))
  OBVIOUS
<1>4. /\ Create(base, added) /\ asked' = [asked EXCEPT !.aborts = @ + 1] /\ ctx' = ctx
      /\ UNCHANGED <<gone, sync, timers, calls, merged, ended>>
  BY <1>1, <1>2, <1>3 DEF Abort, Aborted
<1>5. RowsOf(added) /\ \A i \in DOMAIN added : added[i].sync = 0
  BY <1>3, MetType, AbortRows
<1>6. SameBase(base)
  <2>1. task \in Seq(TaskRec) /\ Procs = 1 .. Len(task) /\ Len(task) \in Nat
    BY DEF FlowInv, FlowTypes, Procs
  <2>2. ASSUME NEW q \in Procs
        PROVE  /\ base[q] \in TaskRec /\ base[q].pos = task[q].pos /\ base[q].wf = task[q].wf /\ base[q].sq = task[q].sq
               /\ base[q].sync = task[q].sync /\ base[q].state \in {task[q].state, "aborted"}
    <3>1. task[q] \in TaskRec
      BY <2>1
    <3>2. base[q] \in {task[q], Aborted(task[q])}
      BY <1>2
    <3> QED BY <3>1, <3>2, RecAborted
  <2>3. base \in Seq(TaskRec) /\ Len(base) = Len(task)
    <3>1. base = [x \in 1 .. Len(task) |-> base[x]]
      BY <1>2, <2>1
    <3> QED BY <2>1, <2>2, <3>1
  <2> QED BY <2>2, <2>3 DEF SameBase
<1>7. PICK m \in Nat : m = Len(added) /\ DOMAIN added = 1 .. m
  BY <1>5 DEF RowsOf
<1>8. GrowsRows(m) /\ GrowsQueue(m) /\ \A i \in 1 .. m : task'[Len(task) + i] = added[i]
  BY <1>4, <1>5, <1>6, <1>7, CreateGrows
<1>9. /\ asked' \in [roots : SUBSET Roots, aborts : Nat, repairs : Nat,
                 moves : Nat, removals : Nat, crashes : Nat]
      /\ asked'.crashes = asked.crashes
  <2>1. asked \in [roots : SUBSET Roots, aborts : Nat, repairs : Nat,
                 moves : Nat, removals : Nat, crashes : Nat]
    BY DEF FlowInv, FlowTypes
  <2>2. PICK n \in Nat : n = asked.aborts
    BY <2>1
  <2>3. asked' = [asked EXCEPT !.aborts = n + 1] /\ n + 1 \in Nat
    BY <1>4, <2>2
  <2> QED BY <2>1, <2>3
<1>10. Grows(m)
  BY <1>4, <1>8, <1>9 DEF Grows, FlowInv, FlowTypes
<1>11. \A q \in Procs' \ Procs : task'[q].sync = 0
  <2>1. ASSUME NEW q \in Procs' \ Procs PROVE task'[q].sync = 0
    <3>1. q - Len(task) \in 1 .. m /\ q \in Nat /\ Len(task) \in Nat
      BY <1>10, GrowsFacts
    <3>2. PICK i \in 1 .. m : q = Len(task) + i
      BY <3>1
    <3> QED BY <1>5, <1>7, <1>8, <3>2
  <2> QED BY <2>1
<1>12. Counts'
  BY <1>4, <1>10, <1>11, GrowsCounts
<1> QED BY <1>10, <1>11, <1>12, GrowsStep

-----------------------------------------------------------------------------
(* Removals and moves: quiet processes lose their rows (Cut). *)

(* A step that removes the processes of G and the sync rows of Y, and moves those of M. *)
Cut(G, Y, M) ==
  /\ G \subseteq Procs /\ Y \subseteq DOMAIN sync
  /\ gone' = [procs |-> gone.procs \union G, syncs |-> gone.syncs \union Y]
  /\ \A q \in G : Quiet(q)
  /\ \A s \in DOMAIN sync : sync[s].taid \in G => s \in Y
  /\ \A s \in Y : Quiet(sync[s].taid)
  /\ \A c \in Procs : task[c].sync \in Y => c \in G \union gone.procs
  /\ task' \in Seq(TaskRec) /\ Len(task') = Len(task)
  /\ ran' \in Seq(Seq(Nat)) /\ Len(ran') = Len(ran)
  /\ \A q \in Procs : task'[q].wf = task[q].wf /\ task'[q].sq = task[q].sq /\ task'[q].sync = task[q].sync
  /\ \A q \in Procs : q \notin M => task'[q] = task[q] /\ ran'[q] = ran[q]
  /\ asked' \in [roots : SUBSET Roots, aborts : Nat, repairs : Nat,
                 moves : Nat, removals : Nat, crashes : Nat]
  /\ asked'.crashes = asked.crashes
  /\ UNCHANGED <<queue, calls, ctx, sync, merged, open, timers, ended>>

(* Fewer rows, and nobody else in another place. *)
LEMMA CutFacts ==
  ASSUME FlowInv, NEW G, NEW Y, NEW M, Cut(G, Y, M)
  PROVE  /\ Procs' = Procs
         /\ \A s, q : Row(s, q)' <=> Row(s, q) /\ s \notin Y
         /\ \A s : Awaited(s)' \subseteq Awaited(s)
         /\ \A q : AwaitsChild(q)' => AwaitsChild(q)
         /\ \A q : (Queued(q)' <=> Queued(q)) /\ (Called(q)' <=> Called(q)) /\ (Busy(q)' <=> Busy(q)) /\ (Forks(q)' <=> Forks(q))
         /\ \A t \in FT : \A q : (OnWay(t, q)' <=> OnWay(t, q)) /\ (Coming(t, q)' => Coming(t, q))
<1>1. Procs' = Procs
  BY DEF Cut, FlowInv, FlowTypes, Procs
<1>2. /\ sync' = sync /\ ended' = ended /\ ctx' = ctx /\ queue' = queue /\ calls' = calls
      /\ gone'.procs = gone.procs \union G /\ gone'.syncs = gone.syncs \union Y
      /\ \A q \in Procs : task'[q].sync = task[q].sync
  BY DEF Cut
<1>3. \A s, q : Row(s, q)' <=> Row(s, q) /\ s \notin Y
  BY <1>2 DEF Row
<1>4. \A s : Awaited(s)' \subseteq Awaited(s)
  <2>1. \A c : Ending(c)' <=> Ending(c)
    BY <1>2 DEF Ending
  <2> QED BY <1>1, <1>2, <2>1 DEF Awaited
<1>5. \A q : AwaitsChild(q)' => AwaitsChild(q)
  BY <1>2, <1>3, <1>4 DEF AwaitsChild
<1>6. \A q : (Queued(q)' <=> Queued(q)) /\ (Called(q)' <=> Called(q)) /\ (Busy(q)' <=> Busy(q)) /\ (Forks(q)' <=> Forks(q))
  BY <1>2 DEF Queued, Called, Busy, Forks
<1>7. \A t \in FT : \A q : OnWay(t, q)' <=> OnWay(t, q)
  BY <1>2 DEF OnWay
<1>8. ASSUME NEW t \in FT, NEW q, Coming(t, q)' PROVE Coming(t, q)
  <2>1. ctx[t].at = "parent"
    BY <1>2, <1>8 DEF Coming
  <2>2. PICK e : e = ctx[t].d.p
    OBVIOUS
  <2>3. PICK s : s = task[e].sync
    OBVIOUS
  <2>4. e \in Procs
    BY <2>1, <2>2, ComingRow
  <2>5. task'[ctx'[t].d.p].sync = s
    BY <1>2, <2>2, <2>3, <2>4
  <2>6. Row(s, q)'
    BY <1>8, <2>5 DEF Coming, Row
  <2>7. Row(s, q)
    BY <1>3, <2>6
  <2> QED BY <2>1, <2>2, <2>3, <2>7 DEF Coming
<1> QED BY <1>1, <1>3, <1>4, <1>5, <1>6, <1>7, <1>8

(* A process that is not moved keeps its invariant. *)
LEMMA CutOthers ==
  ASSUME FlowInv, NEW G, NEW Y, NEW M, Cut(G, Y, M), NEW q \in Procs, q \notin M
  PROVE  PInv(q)'
<1>0. PInv(q)
  BY DEF FlowInv
<1>1. /\ \A s, r : Row(s, r)' <=> Row(s, r) /\ s \notin Y
      /\ \A s : Awaited(s)' \subseteq Awaited(s)
      /\ AwaitsChild(q)' => AwaitsChild(q)
      /\ (Queued(q)' <=> Queued(q)) /\ (Called(q)' <=> Called(q)) /\ (Busy(q)' <=> Busy(q)) /\ (Forks(q)' <=> Forks(q))
      /\ \A t \in FT : (OnWay(t, q)' <=> OnWay(t, q)) /\ (Coming(t, q)' => Coming(t, q))
  BY CutFacts
<1>2. /\ sync' = sync /\ ended' = ended /\ ctx' = ctx /\ queue' = queue /\ calls' = calls /\ open' = open /\ timers' = timers
      /\ gone'.procs = gone.procs \union G
      /\ task'[q] = task[q] /\ ran'[q] = ran[q] /\ asked'.crashes = asked.crashes
  BY DEF Cut
<1>3. OneDbw(q)'
  BY <1>0, <1>2 DEF OneDbw, PInv
<1>4. StaysThere(q)
  BY <1>1, <1>2, <1>3 DEF StaysThere
<1>5. KeepsRow(q)
  BY <1>2 DEF KeepsRow
<1>6. GoneRests(q)'
  <2>1. q \in G => ~ Queued(q) /\ ~ Called(q) /\ ~ Busy(q)
    <3>1. q \in G => Quiet(q)
      BY DEF Cut
    <3> QED BY <3>1, QuietMeans
  <2> QED BY <1>0, <1>1, <1>2, <2>1 DEF PInv, GoneRests
<1>7. OneRow(q)'
  <2>1. OneRow(q)
    BY <1>0 DEF PInv
  <2> QED BY <1>1, <1>2, <2>1 DEF OneRow
<1> QED BY <1>0, <1>2, <1>4, <1>5, <1>6, <1>7, KeepsPInv DEF KeepsProcess

(* Such a step keeps the invariant. *)
LEMMA CutStep ==
  ASSUME FlowInv, NEW G, NEW Y, NEW M, Cut(G, Y, M), \A q \in M : PInv(q)'
  PROVE  FlowInv'
<1>0. FlowTypes /\ Names /\ Nested /\ GoneBelow /\ DecEnded /\ ForkOK
  BY DEF FlowInv
<1>1. /\ Procs' = Procs
      /\ \A s, q : Row(s, q)' <=> Row(s, q) /\ s \notin Y
      /\ \A s : Awaited(s)' \subseteq Awaited(s)
      /\ \A q : Queued(q)' <=> Queued(q)
  BY CutFacts
<1>2. /\ sync' = sync /\ ended' = ended /\ ctx' = ctx /\ queue' = queue /\ calls' = calls /\ open' = open /\ timers' = timers /\ merged' = merged
      /\ gone'.procs = gone.procs \union G /\ gone'.syncs = gone.syncs \union Y
      /\ gone' = [procs |-> gone.procs \union G, syncs |-> gone.syncs \union Y]
      /\ G \subseteq Procs /\ Y \subseteq DOMAIN sync
      /\ \A q \in Procs : task'[q].wf = task[q].wf /\ task'[q].sq = task[q].sq /\ task'[q].sync = task[q].sync
  BY DEF Cut
<1>3. FlowTypes'
  <2>1. gone' \in [procs : SUBSET Procs, syncs : SUBSET DOMAIN sync]
    BY <1>0, <1>2 DEF FlowTypes
  <2>2. /\ task' \in Seq(TaskRec) /\ Len(task') = Len(task) /\ ran' \in Seq(Seq(Nat)) /\ Len(ran') = Len(ran)
        /\ asked' \in [roots : SUBSET Roots, aborts : Nat, repairs : Nat,
                       moves : Nat, removals : Nat, crashes : Nat]
    BY DEF Cut
  <2> QED BY <1>0, <1>1, <1>2, <2>1, <2>2 DEF FlowTypes
<1>4. \A q \in Procs' : PInv(q)'
  BY <1>1, CutOthers
<1>5. Names' /\ Nested'
  <2>1. Names'
    BY <1>0, <1>1, <1>2 DEF Names
  <2>2. Nested'
    BY <1>0, <1>1, <1>2 DEF Nested
  <2> QED BY <2>1, <2>2
<1>6. GoneBelow'
  <2>1. \A s \in DOMAIN sync : sync[s].taid \in G => s \in Y
    BY DEF Cut
  <2>2. \A c \in Procs : task[c].sync \in Y => c \in G \union gone.procs
    BY DEF Cut
  <2> QED BY <1>0, <1>1, <1>2, <2>1, <2>2 DEF GoneBelow
<1>7. DecEnded'
  <2>1. \A t \in FT : ctx[t].at \in {"dec", "parent"} => ctx[t].d.p \in Procs
    BY <1>0 DEF Names
  <2> QED BY <1>0, <1>2, <2>1 DEF DecEnded
<1>8. ForkOK'
  <2>1. ctx'["loop"].at # "fork"
    BY <1>0, <1>2 DEF ForkOK
  <2>2. ASSUME ctx'["worker"].at = "fork" PROVE ForkedRow(ctx["worker"].d, MySync(ctx["worker"].d))'
    <3>1. PICK d : d = ctx["worker"].d
      OBVIOUS
    <3>2. PICK s : s = MySync(d)
      OBVIOUS
    <3>3. ctx["worker"].at = "fork" /\ ctx'["worker"].d = d /\ "worker" \in FT
      BY <1>2, <2>2, <3>1 DEF FT
    <3>4. ForkSync(s)
      BY <3>1, <3>2, <3>3 DEF ForkSync
    <3>5. ForkedRow(d, s) /\ d.p = sync[s].taid /\ d.p \in Procs /\ s \in DOMAIN sync
      BY <3>1, <3>4, ForkFacts
    <3>6. Steps(d.p)' = Steps(d.p)
      BY <1>2, <3>5 DEF Steps
    <3>7. s \notin Y
      <4>1. Busy(d.p)
        BY <3>1, <3>3 DEF Busy
      <4>2. s \in Y => Quiet(d.p)
        BY <3>5 DEF Cut
      <4> QED BY <3>5, <4>1, <4>2, QuietMeans
    <3>8. Row(s, d.p)' /\ sync'[s].step = d.k
      BY <1>1, <1>2, <3>5, <3>7 DEF ForkedRow
    <3>9. \A r \in DOMAIN sync' : Row(r, d.p)' /\ Awaited(r)' # {} => r = s
      BY <1>1, <1>2, <3>5 DEF ForkedRow
    <3>10. \A c \in Awaited(s)' : Queued(c)'
      BY <1>1, <3>5 DEF ForkedRow
    <3>11. ForkedRow(d, s)'
      BY <3>5, <3>6, <3>8, <3>9, <3>10 DEF ForkedRow
    <3>12. MySync(ctx["worker"].d)' = s
      BY <1>2, <3>2, <3>3 DEF MySync
    <3> QED BY <3>3, <3>11, <3>12
  <2> QED BY <2>1, <2>2 DEF ForkOK
<1>9. Counts'
  <2>1. ASSUME NEW s \in DOMAIN sync PROVE Counted(s)'
    <3>1. Todo(s)' = Todo(s)
      BY <1>2 DEF Todo, MySync
    <3> QED BY <1>1, <1>2, <3>1, FewerAwaited
  <2> QED BY <1>2, <2>1 DEF Counts
<1> QED BY <1>3, <1>4, <1>5, <1>6, <1>7, <1>8, <1>9 DEF FlowInv

(* A child of a process at or below p is below p too. *)
LEMMA UnderFacts ==
  ASSUME FlowInv, NEW p \in Procs
  PROVE  /\ p \in Under(p) /\ Under(p) \subseteq Procs
         /\ \A c \in Procs : ParentOf(c) \in Under(p) => c \in Under(p)
<1>1. \A c \in Procs : /\ c \in ToSet(Path[c])
                       /\ ParentOf(c) # 0 => ToSet(Path[c]) = ToSet(Path[ParentOf(c)]) \union {c}
  BY IsRooted, PathFacts
<1>2. 0 \notin Procs
  BY DEF FlowInv, FlowTypes, Procs
<1> QED BY <1>1, <1>2 DEF Under

(* The processes on the way from the root were created before. *)
LEMMA PathBelow ==
  ASSUME FlowInv, NEW q \in Procs, NEW a \in ToSet(Path[q])
  PROVE  a <= q
<1> DEFINE Bad == {r \in Procs : \E b \in ToSet(Path[r]) : ~ b <= r}
<1>0. Rooted /\ task \in Seq(TaskRec) /\ Procs \subseteq Nat /\ 0 \notin Procs
  BY IsRooted DEF FlowInv, FlowTypes, Procs
<1>1. \A r \in Procs : /\ Path[r] \in Seq(Procs) /\ r \in ToSet(Path[r])
                       /\ Path[r] = IF ParentOf(r) = 0 THEN <<r>> ELSE Append(Path[ParentOf(r)], r)
                       /\ ParentOf(r) # 0 => ToSet(Path[r]) = ToSet(Path[ParentOf(r)]) \union {r}
  BY <1>0, PathFacts, PathStep
<1>2. Bad = {}
  <2> SUFFICES ASSUME Bad # {} PROVE FALSE
    OBVIOUS
  <2>1. Bad \subseteq Nat
    BY <1>0
  <2>2. PICK r \in Bad : \A x \in Bad : r <= x
    <3> HIDE DEF Bad
    <3> QED BY <2>1, LeastNat
  <2>3. r \in Procs
    OBVIOUS
  <2>4. PICK b \in ToSet(Path[r]) : ~ b <= r
    OBVIOUS
  <2>5. CASE ParentOf(r) = 0
    <3>1. Path[r] = <<r>>
      BY <1>1, <2>3, <2>5
    <3>2. b = r
      BY <2>4, <3>1 DEF ToSet
    <3> QED BY <1>0, <2>3, <2>4, <3>2
  <2>6. CASE ParentOf(r) # 0
    <3>1. PICK x : x = ParentOf(r)
      OBVIOUS
    <3>2. x \in 1 .. r - 1 /\ r \in Nat
      BY <1>0, <2>3, <2>6, <3>1 DEF Rooted
    <3>3. x \in Procs
      <4>1. r \in 1 .. Len(task) /\ Len(task) \in Nat
        BY <1>0, <2>3 DEF Procs
      <4> QED BY <3>2, <4>1 DEF Procs
    <3>4. x \notin Bad
      <4>1. ~ r <= x
        BY <3>2
      <4> HIDE DEF Bad
      <4> QED BY <2>2, <4>1
    <3>5. b \in ToSet(Path[x]) \union {r}
      BY <1>1, <2>3, <2>4, <2>6, <3>1
    <3>6. b \in ToSet(Path[x]) => b <= x /\ b \in Procs
      <4>1. Path[x] \in Seq(Procs)
        BY <1>1, <3>3
      <4>2. ToSet(Path[x]) \subseteq Procs
        BY <4>1 DEF ToSet
      <4>3. b \in ToSet(Path[x]) => b <= x
        BY <3>3, <3>4
      <4> HIDE DEF Bad
      <4> QED BY <4>2, <4>3
    <3>7. b \in Nat
      BY <1>0, <2>3, <3>5, <3>6
    <3> QED BY <2>4, <3>2, <3>5, <3>6, <3>7
  <2> QED BY <2>5, <2>6
<1> QED BY <1>2

(* The parent of a child of a sync row. *)
LEMMA ParentIs ==
  ASSUME FlowInv, NEW c \in Procs, NEW s \in DOMAIN sync, task[c].sync = s
  PROVE  ParentOf(c) = sync[s].taid /\ ParentOf(c) # c
<1>1. s # 0
  BY DEF FlowInv, FlowTypes
<1>2. ParentOf(c) = sync[s].taid
  BY <1>1 DEF ParentOf
<1>3. ParentOf(c) \in 0 .. c - 1 /\ c \in Nat
  BY IsRooted DEF Rooted, Procs
<1> QED BY <1>2, <1>3

(* A process is removed with all below it. *)
LEMMA ProcessRmStep ==
  ASSUME ~ MayDisturb, FlowInv, NEW p \in Procs, ProcessRm(p)
  PROVE  FlowInv' /\ \E Y : Cut(Under(p), Y, {})
<1>1. PICK G : G = Under(p)
  OBVIOUS
<1>2. PICK Y : Y = {s \in DOMAIN sync : sync[s].taid \in G}
  OBVIOUS
<1>3. \A q \in G : Quiet(q)
  BY <1>1 DEF ProcessRm
<1>4. /\ asked' = [asked EXCEPT !.removals = @ + 1]
      /\ gone' = [procs |-> gone.procs \union G, syncs |-> gone.syncs \union {} \union Y]
      /\ UNCHANGED <<task, sync, open, timers, queue, calls, ctx, merged, ran, ended>>
  BY <1>1, <1>2 DEF ProcessRm, RowsGone
<1>5. gone' = [procs |-> gone.procs \union G, syncs |-> gone.syncs \union Y]
  <2>1. gone.syncs \union {} \union Y = gone.syncs \union Y
    OBVIOUS
  <2> QED BY <1>4, <2>1
<1>6. G \subseteq Procs /\ \A c \in Procs : ParentOf(c) \in G => c \in G
  BY <1>1, UnderFacts
<1>7. /\ Y \subseteq DOMAIN sync
      /\ \A s \in DOMAIN sync : sync[s].taid \in G => s \in Y
      /\ \A s \in Y : Quiet(sync[s].taid)
      /\ \A c \in Procs : task[c].sync \in Y => c \in G \union gone.procs
  <2>1. \A c \in Procs : task[c].sync \in Y => c \in G
    BY <1>2, <1>6, ParentIs
  <2> QED BY <1>2, <1>3, <2>1
<1>8. /\ asked' \in [roots : SUBSET Roots, aborts : Nat, repairs : Nat,
                 moves : Nat, removals : Nat, crashes : Nat]
      /\ asked'.crashes = asked.crashes
  <2>1. asked \in [roots : SUBSET Roots, aborts : Nat, repairs : Nat,
                 moves : Nat, removals : Nat, crashes : Nat]
    BY DEF FlowInv, FlowTypes
  <2>2. PICK n \in Nat : n = asked.removals
    BY <2>1
  <2>3. asked' = [asked EXCEPT !.removals = n + 1] /\ n + 1 \in Nat
    BY <1>4, <2>2
  <2> QED BY <2>1, <2>3
<1>9. Cut(G, Y, {})
  BY <1>3, <1>4, <1>5, <1>6, <1>7, <1>8 DEF Cut, FlowInv, FlowTypes
<1>10. FlowInv'
  BY <1>9, CutStep
<1> QED BY <1>1, <1>9, <1>10

(* A process that is moved rests before the step it was moved to. *)
LEMMA MovedPInv ==
  ASSUME FlowInv, NEW G, NEW Y, NEW p \in Procs, Cut(G, Y, {p}),
         p \notin ended, open[p] = {}, p \notin timers, Quiet(p),
         \A c \in Under(p) \ {p} : c \in G \union ended \union gone.procs,
         NEW k \in 1 .. Len(Steps(p)), task'[p].pos = k, task'[p].state = "none",
         ran'[p] = [i \in 1 .. k - 1 |-> i]
  PROVE  PInv(p)'
<1>1. /\ ~ Queued(p) /\ ~ Called(p) /\ ~ Busy(p)
      /\ \A u \in FT : ~ OnWay(u, p) /\ ~ Coming(u, p)
      /\ \A u \in FT : ctx[u].at # "idle" => ParentOf(ctx[u].d.p) # p
  BY QuietMeans
<1>2. /\ Procs' = Procs
      /\ \A s, q : Row(s, q)' <=> Row(s, q) /\ s \notin Y
      /\ ~ Queued(p)' /\ ~ Called(p)' /\ ~ Busy(p)' /\ \A u \in FT : ~ OnWay(u, p)' /\ ~ Coming(u, p)'
  BY <1>1, CutFacts
<1>3. /\ sync' = sync /\ ended' = ended /\ ctx' = ctx /\ open' = open /\ timers' = timers
      /\ gone'.procs = gone.procs \union G
      /\ \A q \in Procs : task'[q].wf = task[q].wf /\ task'[q].sq = task[q].sq /\ task'[q].sync = task[q].sync
  BY DEF Cut
<1>4. ~ AwaitsChild(p)'
  <2>1. ASSUME NEW s \in DOMAIN sync', Row(s, p)', NEW c \in Awaited(s)' PROVE FALSE
    <3>1. s \in DOMAIN sync /\ sync[s].taid = p
      BY <1>2, <1>3, <2>1 DEF Row
    <3>2. c \in Procs /\ task[c].sync = s /\ c \notin G /\ c \notin gone.procs /\ (c \in ended => Ending(c)')
      BY <1>2, <1>3, <2>1 DEF Awaited
    <3>3. ParentOf(c) = p /\ p # c
      BY <3>1, <3>2, ParentIs
    <3>4. c \in Under(p)
      BY <3>2, <3>3, UnderFacts
    <3>5. c \in ended
      BY <3>2, <3>3, <3>4
    <3>6. PICK t \in FT : ctx[t].at = "dec" /\ ctx[t].d.p = c
      BY <1>3, <3>2, <3>5 DEF Ending
    <3> QED BY <1>1, <3>3, <3>6
  <2> QED BY <2>1 DEF AwaitsChild
<1>5. InOnePlace(p)'
  <2>1. Placed("children", p)'
    BY <1>2, <1>3, <1>4 DEF Placed
  <2> QED BY <2>1 DEF InOnePlace, Spots
<1>6. OneDbw(p)' /\ GoneRests(p)' /\ EndedRests(p)'
  BY <1>2, <1>3 DEF OneDbw, GoneRests, EndedRests, Queued, Called
<1>7. OneRow(p)'
  BY <1>4 DEF OneRow, AwaitsChild
<1>8. Steps(p)' = Steps(p) /\ Len(Steps(p)) \in Nat
  BY <1>3, StepsType DEF Steps
<1>9. Pos(p)' = k /\ L(p)' = k - 1 /\ Walked(p)'
  <2>1. Pos(p)' = k
    BY DEF Pos
  <2>2. Len(ran'[p]) = k - 1
    BY <1>8
  <2>3. L(p)' = k - 1
    BY <2>2 DEF L
  <2> QED BY <1>8, <2>1, <2>3 DEF Walked
<1>10. Loaded(p)' /\ LoopRuns(p)' /\ ~ Forks(p)'
  BY <1>2 DEF Loaded, LoopRuns, Forks, Queued, Busy, FT
<1>11. ~ Parental(p)'
  BY <1>2, <1>4 DEF Parental
<1>12. \A u \in FT : ~ (ctx'[u].d.p = p /\ ctx'[u].at \in {"run", "fork", "next", "end", "save", "dec"})
  BY <1>2 DEF OnWay
<1>13. ~ Late(p)' /\ ~ AtEnd(p)'
  BY <1>2, <1>3, <1>11, <1>12 DEF Late, AtEnd
<1>14. InStep(p)'
  BY <1>9, <1>10, <1>11, <1>13 DEF InStep
<1> QED BY <1>5, <1>6, <1>7, <1>14 DEF PInv

(* What a move does to the rows. *)
LEMMA MoveFacts ==
  ASSUME ~ MayDisturb, FlowInv, NEW p, NEW k \in 1 .. Len(Steps(p)), NEW G, p \in Procs, MoveTo(p, k, G)
  PROVE  /\ p \notin ended /\ open[p] = {} /\ p \notin timers /\ Quiet(p) /\ \A q \in G : Quiet(q)
         /\ \A c \in Under(p) \ {p} : c \in G \union ended \union gone.procs
         /\ task'[p].pos = k /\ task'[p].state = "none" /\ ran'[p] = [i \in 1 .. k - 1 |-> i]
         /\ task' \in Seq(TaskRec) /\ Len(task') = Len(task)
         /\ ran' \in Seq(Seq(Nat)) /\ Len(ran') = Len(ran)
         /\ \A q \in Procs : task'[q].wf = task[q].wf /\ task'[q].sq = task[q].sq /\ task'[q].sync = task[q].sync
         /\ \A q \in Procs : q \notin {p} => task'[q] = task[q] /\ ran'[q] = ran[q]
         /\ asked' \in [roots : SUBSET Roots, aborts : Nat, repairs : Nat,
                        moves : Nat, removals : Nat, crashes : Nat]
         /\ asked'.crashes = asked.crashes
         /\ UNCHANGED <<queue, calls, ctx, sync, merged, open, timers, ended>>
<1>1. /\ p \notin ended /\ open[p] = {} /\ p \notin timers /\ Quiet(p) /\ \A q \in G : Quiet(q)
      /\ \A c \in Under(p) \ {p} : c \in G \union ended \union gone.procs
      /\ task' = [task EXCEPT ![p].pos = k, ![p].state = "none"]
      /\ ran' = [ran EXCEPT ![p] = [i \in 1 .. k - 1 |-> i]]
      /\ asked' = [asked EXCEPT !.moves = @ + 1]
      /\ UNCHANGED <<queue, calls, ctx, sync, merged, open, timers, ended>>
  BY DEF MoveTo
<1>2. FlowTypes /\ p \in DOMAIN task /\ task \in Seq(TaskRec) /\ ran \in Seq(Seq(Nat)) /\ p \in DOMAIN ran
  <2>1. FlowTypes /\ p \in DOMAIN task
    BY DEF FlowInv, Procs
  <2>2. task \in Seq(TaskRec) /\ ran \in Seq(Seq(Nat)) /\ Len(ran) = Len(task)
    BY <2>1 DEF FlowTypes
  <2> QED BY <2>1, <2>2
<1>3. k \in Nat \ {0}
  <2>1. Len(Steps(p)) \in Nat
    BY StepsType
  <2> QED BY <2>1
<1>4. PICK a : a = [task[p] EXCEPT !.pos = k]
  OBVIOUS
<1>5. PICK b : b = [a EXCEPT !.state = "none"]
  OBVIOUS
<1>6. task[p] \in TaskRec
  BY <1>2
<1>7. a \in TaskRec /\ a.wf = task[p].wf /\ a.sq = task[p].sq /\ a.sync = task[p].sync /\ a.pos = k
  BY <1>3, <1>4, <1>6, RecPos
<1>8. b \in TaskRec /\ b.wf = a.wf /\ b.sq = a.sq /\ b.sync = a.sync /\ b.pos = a.pos /\ b.state = "none"
  <2>1. "none" \in States
    BY DEF States
  <2> QED BY <1>5, <1>7, <2>1, RecState
<1>9. task' = [task EXCEPT ![p] = b]
  BY <1>1, <1>2, <1>4, <1>5, PutMove
<1>10. task'[p] = b
  BY <1>2, <1>8, <1>9, SeqPut
<1>11. TaskOf(p)
  BY <1>7, <1>8, <1>9 DEF TaskOf
<1>12. PICK f : f = [i \in 1 .. k - 1 |-> i]
  OBVIOUS
<1>13. f \in Seq(Nat)
  BY <1>3, <1>12
<1>14. ran' = [ran EXCEPT ![p] = f] /\ ran'[p] = f
  BY <1>1, <1>2, <1>12, <1>13, SeqPut
<1>15. RanOf(p)
  BY <1>13, <1>14 DEF RanOf
<1>16. /\ task' \in Seq(TaskRec) /\ Len(task') = Len(task)
       /\ \A q \in Procs : q # p => task'[q] = task[q]
       /\ \A q \in Procs : task'[q].wf = task[q].wf /\ task'[q].sq = task[q].sq /\ task'[q].sync = task[q].sync
  BY <1>2, <1>11, TaskPut
<1>17. /\ ran' \in Seq(Seq(Nat)) /\ Len(ran') = Len(ran)
       /\ \A q \in Procs : q # p => ran'[q] = ran[q]
  BY <1>2, <1>15, RanPut
<1>18. /\ asked' \in [roots : SUBSET Roots, aborts : Nat, repairs : Nat,
                 moves : Nat, removals : Nat, crashes : Nat]
      /\ asked'.crashes = asked.crashes
  <2>1. asked \in [roots : SUBSET Roots, aborts : Nat, repairs : Nat,
                 moves : Nat, removals : Nat, crashes : Nat]
    BY DEF FlowInv, FlowTypes
  <2>2. PICK n \in Nat : n = asked.moves
    BY <2>1
  <2>3. asked' = [asked EXCEPT !.moves = n + 1] /\ n + 1 \in Nat
    BY <1>1, <2>2
  <2> QED BY <2>1, <2>3
<1>19. task'[p].pos = k /\ task'[p].state = "none" /\ ran'[p] = [i \in 1 .. k - 1 |-> i]
  BY <1>7, <1>8, <1>10, <1>12, <1>14
<1> QED BY <1>1, <1>16, <1>17, <1>18, <1>19

(* What it does to the tables. *)
MovedTo(p, k) == \E G, Y : MoveTo(p, k, G) /\ Cut(G, Y, {p}) /\ p \notin G

(* A process is moved, and the children of later steps are removed. *)
LEMMA MoveStep ==
  ASSUME ~ MayDisturb, FlowInv, NEW p \in Procs, NEW k \in 1 .. Len(Steps(p)), NEW G, NEW Y, MoveTo(p, k, G),
         G \subseteq Procs, Y \subseteq DOMAIN sync,
         gone' = [procs |-> gone.procs \union G, syncs |-> gone.syncs \union Y],
         \A s \in DOMAIN sync : sync[s].taid \in G => s \in Y,
         \A s \in Y : sync[s].taid \in G \union {p},
         \A c \in Procs : task[c].sync \in Y => c \in G, p \notin G
  PROVE  FlowInv' /\ MovedTo(p, k)
<1>1. /\ p \notin ended /\ open[p] = {} /\ p \notin timers /\ Quiet(p) /\ \A q \in G : Quiet(q)
      /\ \A c \in Under(p) \ {p} : c \in G \union ended \union gone.procs
      /\ task'[p].pos = k /\ task'[p].state = "none" /\ ran'[p] = [i \in 1 .. k - 1 |-> i]
      /\ task' \in Seq(TaskRec) /\ Len(task') = Len(task)
      /\ ran' \in Seq(Seq(Nat)) /\ Len(ran') = Len(ran)
      /\ \A q \in Procs : task'[q].wf = task[q].wf /\ task'[q].sq = task[q].sq /\ task'[q].sync = task[q].sync
      /\ \A q \in Procs : q \notin {p} => task'[q] = task[q] /\ ran'[q] = ran[q]
      /\ asked' \in [roots : SUBSET Roots, aborts : Nat, repairs : Nat,
                     moves : Nat, removals : Nat, crashes : Nat]
      /\ asked'.crashes = asked.crashes
      /\ UNCHANGED <<queue, calls, ctx, sync, merged, open, timers, ended>>
  BY MoveFacts
<1>2. \A s \in Y : Quiet(sync[s].taid)
  BY <1>1
<1>3. Cut(G, Y, {p})
  BY <1>1, <1>2 DEF Cut
<1>4. PInv(p)'
  BY <1>1, <1>3, MovedPInv
<1>5. FlowInv'
  BY <1>3, <1>4, CutStep
<1> QED BY <1>3, <1>5 DEF MovedTo

(* One step back; then to any step. *)
LEMMA ProcessPrevStep ==
  ASSUME ~ MayDisturb, FlowInv, NEW p \in Procs, ProcessPrev(p)
  PROVE  FlowInv' /\ \E k \in 1 .. Len(Steps(p)) : MovedTo(p, k)
<1>1. PICK k : k = task[p].pos - 1
  OBVIOUS
<1>2. MoveTo(p, k, {}) /\ gone' = gone /\ task[p].pos > 1
  BY <1>1 DEF ProcessPrev
<1>3. k \in 1 .. Len(Steps(p))
  <2>1. task[p].pos \in 1 .. Len(Steps(p))
    BY DEF FlowInv, PInv, InStep, Walked, Pos
  <2>2. Len(Steps(p)) \in Nat
    BY StepsType
  <2> QED BY <1>1, <1>2, <2>1, <2>2
<1>4. gone' = [procs |-> gone.procs \union {}, syncs |-> gone.syncs \union {}]
  <2>1. gone \in [procs : SUBSET Procs, syncs : SUBSET DOMAIN sync]
    BY DEF FlowInv, FlowTypes
  <2>2. gone = [procs |-> gone.procs, syncs |-> gone.syncs]
    BY <2>1
  <2>3. gone.procs \union {} = gone.procs /\ gone.syncs \union {} = gone.syncs
    OBVIOUS
  <2> QED BY <1>2, <2>2, <2>3
<1>5. PICK E : E = {}
  OBVIOUS
<1>6. MoveTo(p, k, E) /\ gone' = [procs |-> gone.procs \union E, syncs |-> gone.syncs \union E]
  BY <1>2, <1>4, <1>5
<1>7. /\ E \subseteq Procs /\ E \subseteq DOMAIN sync
      /\ \A s \in DOMAIN sync : sync[s].taid \in E => s \in E
      /\ \A s \in E : sync[s].taid \in E \union {p}
      /\ \A c \in Procs : task[c].sync \in E => c \in E
  BY <1>5
<1>8. p \notin E
  BY <1>5
<1>9. FlowInv' /\ MovedTo(p, k)
  BY <1>3, <1>6, <1>7, <1>8, MoveStep
<1> QED BY <1>3, <1>9

LEMMA ProcessStepStep ==
  ASSUME ~ MayDisturb, FlowInv, NEW p \in Procs, NEW k \in DOMAIN Steps(p), ProcessStep(p, k)
  PROVE  FlowInv' /\ k \in 1 .. Len(Steps(p)) /\ MovedTo(p, k)
<1>1. PICK C : C = UNION {Children(s) : s \in FromStep(p, k)}
  OBVIOUS
<1>2. PICK G : G = UNION {Under(c) : c \in C}
  OBVIOUS
<1>3. PICK Y : Y = FromStep(p, k) \union {s \in DOMAIN sync : sync[s].taid \in G}
  OBVIOUS
<1>4. MoveTo(p, k, G) /\ RowsGone(G, FromStep(p, k))
  BY <1>1, <1>2 DEF ProcessStep
<1>5. gone' = [procs |-> gone.procs \union G, syncs |-> gone.syncs \union Y]
  <2>1. gone.syncs \union FromStep(p, k) \union {s \in DOMAIN sync : sync[s].taid \in G} = gone.syncs \union Y
    BY <1>3
  <2> QED BY <1>4, <2>1 DEF RowsGone
<1>6. C \subseteq Procs /\ \A c \in Procs : task[c].sync \in FromStep(p, k) => c \in C
  BY <1>1 DEF Children
<1>7. /\ G \subseteq Procs /\ C \subseteq G
      /\ \A c \in Procs : ParentOf(c) \in G => c \in G
  BY <1>2, <1>6, UnderFacts
<1>8. Y \subseteq DOMAIN sync /\ \A s \in Y : sync[s].taid \in G \union {p}
  BY <1>3 DEF FromStep
<1>9. \A s \in DOMAIN sync : sync[s].taid \in G => s \in Y
  BY <1>3
<1>10. \A c \in Procs : task[c].sync \in Y => c \in G
  <2>1. \A c \in Procs : task[c].sync \in {s \in DOMAIN sync : sync[s].taid \in G} => c \in G
    BY <1>7, ParentIs
  <2> QED BY <1>3, <1>6, <1>7, <2>1
<1>11. k \in 1 .. Len(Steps(p))
  BY StepsType
<1>12. p \notin G
  <2>1. ASSUME NEW c \in C PROVE p \notin Under(c)
    <3>1. PICK s \in FromStep(p, k) : c \in Procs /\ task[c].sync = s
      BY <1>1, <2>1 DEF Children
    <3>2. s \in DOMAIN sync /\ sync[s].taid = p
      BY <3>1 DEF FromStep
    <3>3. p \in 1 .. c - 1 /\ c \in Nat
      <4>1. s # 0 /\ c \in Nat
        BY <3>1, <3>2 DEF FlowInv, FlowTypes, Procs
      <4>2. Nested
        BY DEF FlowInv
      <4> QED BY <3>1, <3>2, <4>1, <4>2 DEF Nested
    <3>4. ASSUME c \in ToSet(Path[p]) PROVE FALSE
      <4>1. c <= p
        BY <3>4, PathBelow
      <4> QED BY <3>3, <4>1
    <3> QED BY <3>4 DEF Under
  <2> QED BY <1>2, <2>1
<1>13. FlowInv' /\ MovedTo(p, k)
  BY <1>4, <1>5, <1>7, <1>8, <1>9, <1>10, <1>11, <1>12, MoveStep
<1> QED BY <1>11, <1>13

-----------------------------------------------------------------------------
(* The invariant, and what follows from it. *)

(* A step of something else. *)
LEMMA FlowStutters ==
  ASSUME FlowInv, UNCHANGED flowVars
  PROVE  FlowInv'
<1>1. UNCHANGED <<task, sync, gone, open, timers, queue, calls, ctx, merged, ran, ended, asked>>
  BY DEF flowVars
<1>2. FlowTypes
  BY DEF FlowInv
<1>3. PICK E : E = {}
  OBVIOUS
<1>4. gone' = [procs |-> gone.procs \union E, syncs |-> gone.syncs \union E]
  <2>1. gone = [procs |-> gone.procs, syncs |-> gone.syncs]
    BY <1>2 DEF FlowTypes
  <2>2. gone.procs \union E = gone.procs /\ gone.syncs \union E = gone.syncs
    BY <1>3
  <2> QED BY <1>1, <2>1, <2>2
<1>5. Cut(E, E, E)
  BY <1>1, <1>2, <1>3, <1>4 DEF Cut, FlowTypes
<1>6. \A q \in E : PInv(q)'
  BY <1>3
<1> QED BY <1>5, <1>6, CutStep

(* The empty tables. *)
LEMMA FlowStarts ==
  ASSUME FlowInit
  PROVE  FlowInv
<1>1. /\ task = <<>> /\ sync = <<>> /\ merged = <<>>
      /\ gone = [procs |-> {}, syncs |-> {}]
      /\ open = <<>> /\ ran = <<>>
      /\ timers = {} /\ calls = {} /\ ended = {}
      /\ queue = <<>>
      /\ ctx = [worker |-> IdleCtx, loop |-> IdleCtx]
      /\ asked = [roots |-> {}, aborts |-> 0, repairs |-> 0,
                  moves |-> 0, removals |-> 0, crashes |-> 0]
  BY DEF FlowInit
<1>2. Procs = {} /\ DOMAIN sync = {} /\ DOMAIN queue = {}
  BY <1>1 DEF Procs
<1>3. ctx \in [FT -> CtxRec] /\ \A t \in FT : ctx[t].at = "idle"
  BY <1>1, IdleType DEF FT
<1>4. FlowTypes
  <2>1. /\ task \in Seq(TaskRec) /\ sync \in Seq(SyncRec) /\ merged \in Seq(SUBSET Nat) /\ Len(merged) = Len(sync)
        /\ open \in Seq(SUBSET (WaitItems \union {"call-back"})) /\ Len(open) = Len(task)
        /\ ran \in Seq(Seq(Nat)) /\ Len(ran) = Len(task) /\ queue \in Seq(DbwRec)
    BY <1>1
  <2> QED BY <1>1, <1>2, <1>3, <2>1 DEF FlowTypes
<1>5. Names /\ Nested /\ GoneBelow /\ DecEnded /\ ForkOK /\ Counts
  BY <1>1, <1>2, <1>3 DEF Names, Nested, GoneBelow, DecEnded, ForkOK, Counts, FT
<1> QED BY <1>2, <1>4, <1>5 DEF FlowInv

(* A step of a thread, and any step. *)
LEMMA FlowWork ==
  ASSUME FlowInv, NEW t \in FT, Work(t)
  PROVE  FlowInv'
BY RunPlainStep, RunCallStep, RunWaitStep, RunSleepStep, RunForkStep, InheritStep, HaltStep, RunJoinStep,
   NextStepStep, EndReadStep, EndWriteStep, DecStep, ContinueParentStep DEF Work

LEMMA FlowStep ==
  ASSUME ~ MayDisturb, FlowInv, FlowNext
  PROVE  FlowInv'
<1>1. FlowTypes
  BY DEF FlowInv
<1>2. CASE Worker
  BY <1>2, TakeStep, FlowWork DEF Worker, FT
<1>3. CASE Loop
  <2>1. CASE Work("loop")
    BY <2>1, FlowWork DEF FT
  <2>2. CASE \E d \in calls : Answer(d)
    BY <2>2, AnswerStep
  <2>3. CASE \E p \in Procs : \E item \in open[p] : ProcessSet(p, item)
    BY <2>3, ProcessSetStep
  <2>4. CASE \E p \in timers : CtxOnEvent(p)
    BY <2>4, CtxOnEventStep
  <2> QED BY <1>3, <2>1, <2>2, <2>3, <2>4 DEF Loop
<1>4. CASE Crash
  BY <1>4, CrashStep
<1>5. CASE \E w \in Roots : ProcessAdd(w)
  BY <1>5, ProcessAddStep
<1>6. CASE \E p \in Procs : Mismatch(p) \/ Once(p) \/ ProcessNext(p) \/ Abort(p)
  BY <1>6, MismatchStep, OnceStep, ProcessNextStep, AbortStep
<1>7. CASE \E p \in Procs : ProcessRm(p) \/ ProcessPrev(p) \/ \E k \in DOMAIN Steps(p) : ProcessStep(p, k)
  BY <1>7, ProcessRmStep, ProcessPrevStep, ProcessStepStep
<1> QED BY <1>2, <1>3, <1>4, <1>5, <1>6, <1>7 DEF FlowNext

(* The places, the counters and the steps of all processes fit at every time. *)
THEOREM FlowInvariant == ~ MayDisturb => (FlowSpec => []FlowInv)
<1> SUFFICES ASSUME ~ MayDisturb PROVE FlowSpec => []FlowInv
  OBVIOUS
<1>1. FlowInit => FlowInv
  BY FlowStarts
<1>2. FlowInv /\ [FlowNext]_flowVars => FlowInv'
  BY FlowStep, FlowStutters
<1> QED BY <1>1, <1>2, PTL DEF FlowSpec

(* What the invariant says of the types, the dbws and the steps. *)
LEMMA InvTypes ==
  ASSUME FlowInv
  PROVE  FlowTypeOK
<1>1. FlowTypes /\ Names
  BY DEF FlowInv
<1>2. /\ task \in Seq([wf : DOMAIN Prog, sq : Sequences, pos : Nat \ {0},
                      state : {"none", "done", "halt", "error", "aborted"},
                      active : BOOLEAN, sync : Nat])
  BY <1>1 DEF FlowTypes, TaskRec, States
<1>3. sync \in Seq([taid : Procs, step : Nat, size : Nat, cnt : Int])
  <2>1. sync \in Seq(SyncRec)
    BY <1>1 DEF FlowTypes
  <2>2. PICK S : S = [taid : Procs, step : Nat, size : Nat, cnt : Int]
    OBVIOUS
  <2>3. ASSUME NEW s \in DOMAIN sync PROVE sync[s] \in S
    <3>1. sync[s] \in SyncRec /\ sync[s].taid \in Procs
      BY <1>1, <2>1, <2>3 DEF Names
    <3> QED BY <2>2, <3>1 DEF SyncRec
  <2>4. sync \in Seq(S)
    BY <2>1, <2>3
  <2> QED BY <2>2, <2>4
<1>4. DOMAIN open = Procs /\ DOMAIN ran = Procs /\ \A p \in Procs : open[p] \subseteq WaitItems \union {"call-back"}
  BY <1>1 DEF FlowTypes, Procs
<1>5. timers \subseteq Procs /\ ended \subseteq Procs
  BY <1>1 DEF FlowTypes
<1>6. DbwRec = [p : Nat, k : Nat, cnt : Int, st : {"none", "done", "halt", "error", "aborted"}]
  BY DEF DbwRec, States
<1>7. queue \in Seq(DbwRec) /\ calls \subseteq DbwRec /\ \A t \in DOMAIN ctx : ctx[t].d \in DbwRec
  <2>1. queue \in Seq(DbwRec) /\ calls \subseteq DbwRec /\ ctx \in [FT -> CtxRec]
    BY <1>1 DEF FlowTypes
  <2>2. \A t \in DOMAIN ctx : ctx[t].d \in DbwRec
    BY <2>1 DEF CtxRec
  <2> QED BY <2>1, <2>2
<1> QED BY <1>2, <1>3, <1>4, <1>5, <1>6, <1>7 DEF FlowTypeOK

LEMMA InvRunner ==
  ASSUME FlowInv
  PROVE  OneRunner
<1> SUFFICES ASSUME NEW p \in Procs PROVE Cardinality(Runners(p)) <= 1
  BY DEF OneRunner
<1>1. PInv(p) /\ ctx \in [FT -> CtxRec]
  BY DEF FlowInv, FlowTypes
<1>2. PICK w \in Spots : Placed(w, p)
  BY <1>1 DEF PInv, InOnePlace
<1>3. \A x \in Runners(p) : \/ w = "queue" /\ \E i \in DOMAIN queue : queue[i].p = p /\ x = <<"queue", i>>
                            \/ w = "call" /\ \E d \in calls : d.p = p /\ x = <<"call", d.k>>
                            \/ w \in FT /\ x = <<w, 0>>
  <2> SUFFICES ASSUME NEW x \in Runners(p)
               PROVE  \/ w = "queue" /\ \E i \in DOMAIN queue : queue[i].p = p /\ x = <<"queue", i>>
                      \/ w = "call" /\ \E d \in calls : d.p = p /\ x = <<"call", d.k>>
                      \/ w \in FT /\ x = <<w, 0>>
    OBVIOUS
  <2>1. CASE \E i \in DOMAIN queue : queue[i].p = p /\ x = <<"queue", i>>
    <3>1. w = "queue"
      BY <1>2, <2>1 DEF Placed, Queued
    <3> QED BY <2>1, <3>1
  <2>2. CASE \E d \in calls : d.p = p /\ x = <<"call", d.k>>
    <3>1. w = "call"
      BY <1>2, <2>2 DEF Placed, Called
    <3> QED BY <2>2, <3>1
  <2>3. CASE \E t \in DOMAIN ctx : ctx[t].d.p = p /\ ctx[t].at \notin {"idle", "halt", "parent"} /\ x = <<t, 0>>
    <3>1. PICK t \in DOMAIN ctx : ctx[t].d.p = p /\ ctx[t].at \notin {"idle", "halt", "parent"} /\ x = <<t, 0>>
      BY <2>3
    <3>2. t \in FT /\ ctx[t] \in CtxRec
      BY <1>1, <3>1
    <3>3. ctx[t].at \in Places
      BY <3>2 DEF CtxRec
    <3>4. OnWay(t, p)
      BY <3>1, <3>3 DEF OnWay, Places
    <3>5. w = t
      BY <1>2, <3>2, <3>4 DEF Placed
    <3> QED BY <3>1, <3>2, <3>5
  <2> QED BY <2>1, <2>2, <2>3 DEF Runners
<1>4. \A x, y \in Runners(p) : x = y
  <2> SUFFICES ASSUME NEW x \in Runners(p), NEW y \in Runners(p) PROVE x = y
    OBVIOUS
  <2>1. OneDbw(p)
    BY <1>1 DEF PInv
  <2>2. CASE w = "queue"
    BY <1>3, <2>1, <2>2 DEF OneDbw, FT
  <2>3. CASE w = "call"
    BY <1>3, <2>1, <2>3 DEF OneDbw, FT
  <2>4. CASE w \in FT
    BY <1>3, <2>4 DEF FT
  <2> QED BY <1>3, <2>2, <2>3, <2>4
<1>5. CASE Runners(p) = {}
  BY <1>5, FS_EmptySet
<1>6. CASE Runners(p) # {}
  <2>1. PICK x \in Runners(p) : TRUE
    BY <1>6
  <2>2. Runners(p) = {x}
    BY <1>4, <2>1
  <2>3. Cardinality({x}) = 1
    BY FS_Singleton
  <2> QED BY <2>2, <2>3
<1> QED BY <1>5, <1>6

LEMMA InvInOrder ==
  ASSUME FlowInv
  PROVE  StepsInOrder
<1> SUFFICES ASSUME NEW p \in Procs
             PROVE  /\ ran[p] = [i \in 1 .. Len(ran[p]) |-> i]
                    /\ Len(ran[p]) \in {task[p].pos - 1, task[p].pos}
                    /\ p \in ended => Len(ran[p]) = Len(Steps(p))
  BY DEF StepsInOrder
<1>1. InStep(p)
  BY DEF FlowInv, PInv
<1>2. Walked(p)
  BY <1>1 DEF InStep
<1>3. p \in ended => L(p) = Pos(p) /\ Pos(p) = Len(Steps(p))
  BY <1>1 DEF InStep, Late, AtEnd
<1> QED BY <1>2, <1>3 DEF Walked, L, Pos

(* The types of the tables, the queue and the threads (FlowTypeOK). *)
THEOREM FlowTypeCorrect == ~ MayDisturb => (FlowSpec => []FlowTypeOK)
<1>1. FlowInv => FlowTypeOK
  BY InvTypes
<1> QED BY <1>1, FlowInvariant, PTL

(* At most one dbw of a process is on its way at any time, in the queue, on a
      thread or with a pending call, for any workflows and any number of
      processes, aborts and crashes (OneRunner): no step is run twice. *)
THEOREM RunnerCorrect == ~ MayDisturb => (FlowSpec => []OneRunner)
<1>1. FlowInv => OneRunner
  BY InvRunner
<1> QED BY <1>1, FlowInvariant, PTL

(* Every process carries out its steps in order, none twice and none left out,
      up to the current step of its row (StepsInOrder). *)
THEOREM OrderCorrect == ~ MayDisturb => (FlowSpec => []StepsInOrder)
<1>1. FlowInv => StepsInOrder
  BY InvInOrder
<1> QED BY <1>1, FlowInvariant, PTL

-----------------------------------------------------------------------------
(* The tree of processes: each step of Flow is one of TaskTree or leaves the tree. *)

(* A process as a node of the tree. *)
Done(p) == IF p \in ended THEN Len(Steps(p)) ELSE task[p].pos - 1
By(p) == IF task[p].sync = 0 THEN 0 ELSE sync[task[p].sync].step
Node(p) == [len |-> Len(Steps(p)), done |-> Done(p), parent |-> ParentOf(p),
            removed |-> p \in gone.procs, by |-> By(p)]
NodeRec == [len : Nat, done : Int, parent : Nat, removed : BOOLEAN, by : Nat]
Edits == asked.moves + asked.removals
Simulated == [TT!TreeNext]_<<Tree, Edits>>

(* The fields of a node, and the tree as a sequence of them. *)
LEMMA NodeIs ==
  ASSUME NEW p
  PROVE  /\ Node(p).len = Len(Steps(p)) /\ Node(p).done = Done(p)
         /\ Node(p).parent = ParentOf(p) /\ Node(p).by = By(p)
         /\ Node(p).removed = (p \in gone.procs)
         /\ p \in gone.procs => Node(p).removed
         /\ p \notin gone.procs => ~ Node(p).removed
<1>1. /\ Node(p).len = Len(Steps(p)) /\ Node(p).done = Done(p)
      /\ Node(p).parent = ParentOf(p) /\ Node(p).by = By(p)
  BY DEF Node
<1>2. Node(p).removed = (p \in gone.procs)
  BY DEF Node
<1>3. p \in gone.procs => Node(p).removed
  BY <1>2, Zenon
<1>4. p \notin gone.procs => ~ Node(p).removed
  BY <1>2, Zenon
<1> QED BY <1>1, <1>2, <1>3, <1>4, Zenon

LEMMA TreeIs ==
  ASSUME FlowInv
  PROVE  /\ Tree \in Seq(NodeRec) /\ DOMAIN Tree = Procs /\ Len(Tree) = Len(task)
         /\ \A p \in Procs : Tree[p] = Node(p)
<1>1. Tree = [p \in Procs |-> Node(p)]
  BY DEF Tree, Node, Done, By
<1>2. Procs = 1 .. Len(task) /\ Len(task) \in Nat
  BY DEF FlowInv, FlowTypes, Procs
<1>3. ASSUME NEW p \in Procs PROVE Node(p) \in NodeRec
  <2>1. Len(Steps(p)) \in Nat
    BY StepsType
  <2>2. task[p].pos \in Nat
    BY PosType
  <2>3. Done(p) \in Int
    BY <2>1, <2>2 DEF Done
  <2>4. ParentOf(p) \in Nat
    BY IsRooted DEF Rooted
  <2>5. By(p) \in Nat
    <3>1. sync \in Seq(SyncRec)
      BY DEF FlowInv, FlowTypes
    <3>2. CASE task[p].sync = 0
      BY <3>2 DEF By
    <3>3. CASE task[p].sync # 0
      <4>1. task[p].sync \in DOMAIN sync
        BY <3>3 DEF FlowInv, Nested
      <4>2. sync[task[p].sync] \in SyncRec
        BY <3>1, <4>1
      <4> QED BY <3>3, <4>2 DEF By, SyncRec
    <3> QED BY <3>2, <3>3
  <2>6. (p \in gone.procs) \in BOOLEAN
    OBVIOUS
  <2> HIDE DEF Done, By
  <2> QED BY <2>1, <2>3, <2>4, <2>5, <2>6 DEF Node, NodeRec
<1> QED BY <1>1, <1>2, <1>3

(* What a step leaves of it. *)
(* What a step leaves of it. *)
SyncsStay ==
  /\ DOMAIN sync \subseteq DOMAIN sync'
  /\ \A s \in DOMAIN sync : sync'[s].taid = sync[s].taid /\ sync'[s].step = sync[s].step
SameOrigin(q) == task'[q].wf = task[q].wf /\ task'[q].sq = task[q].sq /\ task'[q].sync = task[q].sync

(* A process keeps its length, parent and starting step. *)
LEMMA OriginStays ==
  ASSUME FlowInv, NEW q \in Procs, SyncsStay, SameOrigin(q)
  PROVE  /\ Len(Steps(q))' = Len(Steps(q)) /\ ParentOf(q)' = ParentOf(q) /\ By(q)' = By(q)
         /\ task'[q].pos = task[q].pos /\ (q \in ended' <=> q \in ended) => Done(q)' = Done(q)
<1>1. Steps(q)' = Steps(q)
  BY DEF Steps, SameOrigin
<1>2. task[q].sync = 0 \/ task[q].sync \in DOMAIN sync
  BY DEF FlowInv, Nested
<1>3. ParentOf(q)' = ParentOf(q) /\ By(q)' = By(q)
  BY <1>2 DEF ParentOf, By, SyncsStay, SameOrigin
<1> QED BY <1>1, <1>3 DEF Done

(* A step that leaves the tree as it is. *)
RowsStay ==
  /\ Procs' = Procs
  /\ \A q \in Procs : SameOrigin(q) /\ task'[q].pos = task[q].pos
Still ==
  /\ SyncsStay /\ gone' = gone /\ ended' = ended
  /\ asked'.moves = asked.moves /\ asked'.removals = asked.removals

LEMMA StillTree ==
  ASSUME FlowInv, RowsStay, Still
  PROVE  Simulated
<1>1. \A q \in Procs : Node(q)' = Node(q)
  BY OriginStays DEF RowsStay, Still, Node
<1>2. Tree = [p \in Procs |-> Node(p)] /\ Tree' = [p \in Procs |-> Node(p)']
  BY DEF Tree, Node, Done, By, RowsStay
<1>3. Tree' = Tree
  BY <1>1, <1>2
<1>4. Edits' = Edits
  BY DEF Edits, Still
<1> QED BY <1>3, <1>4 DEF Simulated

(* The state of a row is not part of the tree. *)
LEMMA StateRows ==
  ASSUME FlowInv, NEW p \in Procs, NEW st \in States, SetState(p, st)
  PROVE  RowsStay
<1>1. TaskOf(p) /\ task'[p].pos = task[p].pos
  BY StateSet
<1>2. /\ Procs' = Procs
      /\ \A q \in Procs : q # p => task'[q] = task[q]
      /\ \A q \in Procs : task'[q].wf = task[q].wf /\ task'[q].sq = task[q].sq /\ task'[q].sync = task[q].sync
  BY <1>1, TaskPut DEF FlowInv
<1> QED BY <1>1, <1>2 DEF RowsStay, SameOrigin

LEMMA SameRows ==
  ASSUME task' = task
  PROVE  RowsStay
BY DEF RowsStay, SameOrigin, Procs

LEMMA SameStill ==
  ASSUME sync' = sync, gone' = gone, ended' = ended, asked'.moves = asked.moves, asked'.removals = asked.removals
  PROVE  Still
BY DEF Still, SyncsStay

(* A process goes one step further, and no child of the step is left. *)
LEMMA CompleteTree ==
  ASSUME FlowInv, NEW p \in Procs, p \notin ended, p \notin gone.procs, ~ AwaitsChild(p),
         Procs' = Procs, SyncsStay, gone' = gone, asked' = asked,
         \A q \in Procs : SameOrigin(q),
         \A q \in Procs : q # p => task'[q].pos = task[q].pos /\ (q \in ended' <=> q \in ended),
         Done(p)' = Done(p) + 1
  PROVE  Simulated
<1>1. Tree \in Seq(NodeRec) /\ DOMAIN Tree = Procs /\ \A q \in Procs : Tree[q] = Node(q)
  BY TreeIs
<1>2. Tree = [q \in Procs |-> Node(q)] /\ Tree' = [q \in Procs |-> Node(q)']
  BY DEF Tree, Node, Done, By
<1>3. \A q \in Procs : q # p => Node(q)' = Node(q)
  BY OriginStays DEF Node
<1>4. Node(p)' = [Node(p) EXCEPT !.done = @ + 1]
  BY OriginStays DEF Node
<1>5. Tree' = [Tree EXCEPT ![p] = [Tree[p] EXCEPT !.done = @ + 1]]
  BY <1>1, <1>2, <1>3, <1>4
<1>6. Tree' = [Tree EXCEPT ![p].done = @ + 1]
  BY <1>5, Zenon
<1>7. ~ TT!Whole(p) /\ ~ Tree[p].removed
  <2>1. Tree[p].done = task[p].pos - 1 /\ Tree[p].len = Len(Steps(p))
    BY <1>1, NodeIs DEF Done
  <2>2. task[p].pos \in 1 .. Len(Steps(p)) /\ Len(Steps(p)) \in Nat
    BY StepsType DEF FlowInv, PInv, InStep, Walked, Pos
  <2>3. ~ TT!Whole(p)
    BY <2>1, <2>2 DEF TT!Whole
  <2>4. ~ Tree[p].removed
    BY <1>1, NodeIs, Zenon
  <2> QED BY <2>3, <2>4
<1>8. ASSUME NEW c \in DOMAIN Tree, Tree[c].parent = p PROVE TT!Whole(c) \/ Tree[c].removed
  <2>1. c \in Procs /\ Tree[c] = Node(c)
    BY <1>1
  <2>2. ParentOf(c) = p /\ p # 0
    BY <1>8, <2>1 DEF Node, FlowInv, FlowTypes, Procs
  <2>3. PICK s \in DOMAIN sync : task[c].sync = s /\ sync[s].taid = p
    BY <2>1, <2>2 DEF ParentOf, FlowInv, Nested
  <2>4. c \in ended \/ c \in gone.procs
    <3>1. CASE s \in gone.syncs
      BY <2>1, <2>3, <3>1 DEF FlowInv, GoneBelow
    <3>2. CASE s \notin gone.syncs
      <4>1. Row(s, p)
        BY <2>3, <3>2 DEF Row
      <4>2. Awaited(s) = {}
        BY <2>3, <4>1 DEF AwaitsChild
      <4> QED BY <2>1, <2>3, <4>2 DEF Awaited
    <3> QED BY <3>1, <3>2
  <2>5. c \in ended => TT!Whole(c)
    BY <2>1 DEF TT!Whole, Node, Done
  <2>6. c \in gone.procs => Tree[c].removed
    BY <2>1, NodeIs, Zenon
  <2> QED BY <2>4, <2>5, <2>6
<1>9. TT!Complete(p)
  BY <1>6, <1>7, <1>8 DEF TT!Complete
<1>10. UNCHANGED Edits
  BY DEF Edits
<1>11. TT!TreeNext
  BY <1>1, <1>9, <1>10 DEF TT!TreeNext, Edits
<1> QED BY <1>11 DEF Simulated

(* XTree states that the action X is a step of the tree or leaves it. *)
LEMMA StepDoneTree ==
  ASSUME FlowInv, NEW t \in FT, ctx[t].at = "run", StepDone(t)
  PROVE  RowsStay
<1>1. ctx[t].d.p \in Procs
  BY DEF FlowInv, Names
<1>2. SetState(ctx[t].d.p, "done")
  BY DEF StepDone
<1> QED BY <1>1, <1>2, StateRows DEF States

LEMMA RunTree ==
  ASSUME FlowInv, NEW t \in FT, RunPlain(t) \/ RunCall(t) \/ RunWait(t) \/ RunSleep(t) \/ RunJoin(t)
  PROVE  Simulated
<1>1. sync' = sync /\ gone' = gone /\ ended' = ended /\ asked' = asked /\ ctx[t].at = "run"
  BY DEF RunPlain, RunCall, RunWait, RunSleep, RunJoin, Running
<1>2. StepDone(t) \/ task' = task
  BY DEF RunPlain, RunCall, RunWait, RunSleep, RunJoin
<1> QED BY <1>1, <1>2, StepDoneTree, SameRows, SameStill, StillTree

LEMMA RunForkTree ==
  ASSUME FlowInv, NEW t \in FT, RunFork(t)
  PROVE  Simulated
<1>1. /\ gone' = gone /\ ended' = ended /\ asked' = asked /\ ctx[t].at = "run"
      /\ SetState(ctx[t].d.p, "halt")
      /\ \E r : sync' = Append(sync, r)
  BY DEF RunFork, Running
<1>2. ctx[t].d.p \in Procs /\ sync \in Seq(SyncRec)
  BY <1>1 DEF FlowInv, Names, FlowTypes
<1>3. RowsStay
  BY <1>1, <1>2, StateRows DEF States
<1>4. SyncsStay
  BY <1>1, <1>2 DEF SyncsStay
<1> QED BY <1>1, <1>3, <1>4, StillTree DEF Still

LEMMA HaltTree ==
  ASSUME FlowInv, NEW t \in FT, Halt(t)
  PROVE  Simulated
<1>1. /\ sync' = sync /\ gone' = gone /\ ended' = ended /\ asked' = asked /\ ctx[t].at = "halt"
      /\ SetState(ctx[t].d.p, "halt")
  BY DEF Halt
<1>2. ctx[t].d.p \in Procs
  BY <1>1 DEF FlowInv, Names
<1>3. RowsStay
  BY <1>1, <1>2, StateRows DEF States
<1> QED BY <1>1, <1>3, SameStill, StillTree

LEMMA NextStepTree ==
  ASSUME FlowInv, NEW t \in FT, NextStep(t)
  PROVE  Simulated
<1>1. PICK p : p = ctx[t].d.p
  OBVIOUS
<1>2. PICK k : k = task[p].pos + 1
  OBVIOUS
<1>3. sync' = sync /\ gone' = gone /\ ended' = ended /\ asked' = asked /\ ctx[t].at = "next"
  BY DEF NextStep
<1>4. p \in Procs /\ p \notin gone.procs /\ Free(p)
  BY <1>1, <1>3, AtWork
<1>5. task' = task \/ (k <= Len(Steps(p)) /\ task' = [task EXCEPT ![p].pos = k])
  BY <1>1, <1>2 DEF NextStep
<1>6. CASE task' = task
  BY <1>3, <1>6, SameRows, SameStill, StillTree
<1>7. CASE task' = [task EXCEPT ![p].pos = k]
  <2>1. task \in Seq(TaskRec) /\ p \in DOMAIN task /\ FlowTypes
    BY <1>4 DEF FlowInv, FlowTypes, Procs
  <2>2. task[p] \in TaskRec /\ task[p].pos \in Nat /\ k \in Nat \ {0}
    BY <1>2, <1>4, <2>1, PosType
  <2>3. PICK r : r = [task[p] EXCEPT !.pos = k]
    OBVIOUS
  <2>4. r \in TaskRec /\ r.wf = task[p].wf /\ r.sq = task[p].sq /\ r.sync = task[p].sync /\ r.pos = k
    BY <2>2, <2>3, RecPos
  <2>5. task' = [task EXCEPT ![p] = r]
    BY <1>7, <2>3, PutPos
  <2>6. TaskOf(p) /\ task'[p] = r
    BY <2>1, <2>4, <2>5, SeqPut DEF TaskOf
  <2>7. /\ Procs' = Procs
        /\ \A q \in Procs : q # p => task'[q] = task[q]
        /\ \A q \in Procs : SameOrigin(q)
    BY <1>4, <2>1, <2>6, TaskPut DEF SameOrigin
  <2>8. p \notin ended /\ ~ AwaitsChild(p)
    BY <1>4 DEF Free, Apart
  <2>9. Done(p)' = Done(p) + 1
    BY <1>2, <1>3, <2>2, <2>4, <2>6, <2>8 DEF Done
  <2>10. SyncsStay
    BY <1>3 DEF SyncsStay
  <2> QED BY <1>3, <1>4, <2>7, <2>8, <2>9, <2>10, CompleteTree
<1> QED BY <1>5, <1>6, <1>7

LEMMA EndReadTree ==
  ASSUME FlowInv, NEW t \in FT, EndRead(t) \/ ContinueParent(t)
  PROVE  Simulated
<1>1. sync' = sync /\ gone' = gone /\ ended' = ended /\ asked' = asked /\ task' = task
  BY DEF EndRead, ContinueParent
<1> QED BY <1>1, SameRows, SameStill, StillTree

LEMMA EndWriteTree ==
  ASSUME FlowInv, NEW t \in FT, EndWrite(t)
  PROVE  Simulated
<1>1. PICK p : p = ctx[t].d.p
  OBVIOUS
<1>3. sync' = sync /\ gone' = gone /\ asked' = asked /\ ctx[t].at = "save"
  BY DEF EndWrite
<1>4. p \in Procs /\ p \notin gone.procs /\ Free(p) /\ Walked(p) /\ Pos(p) = Len(Steps(p))
  BY <1>1, <1>3, AtWork
<1>5. task' = [task EXCEPT ![p].active = FALSE] /\ ended' = ended \union {p}
  BY <1>1, <1>4 DEF EndWrite, Live
<1>6. TaskOf(p) /\ task'[p].pos = task[p].pos
  BY <1>4, <1>5, ActiveSet
<1>7. /\ Procs' = Procs
      /\ \A q \in Procs : q # p => task'[q] = task[q]
      /\ \A q \in Procs : SameOrigin(q)
  BY <1>4, <1>6, TaskPut DEF SameOrigin, FlowInv
<1>8. p \notin ended /\ ~ AwaitsChild(p)
  BY <1>4 DEF Free, Apart
<1>9. SyncsStay
  BY <1>3 DEF SyncsStay
<1>10. Done(p)' = Done(p) + 1
  <2>1. Len(Steps(p))' = Len(Steps(p)) /\ Len(Steps(p)) \in Nat
    BY <1>4, <1>7, <1>9, OriginStays, StepsType
  <2>2. Done(p)' = Len(Steps(p))
    BY <1>5, <2>1 DEF Done
  <2>3. Done(p) = Len(Steps(p)) - 1
    BY <1>4, <1>8 DEF Done, Pos
  <2> QED BY <2>1, <2>2, <2>3
<1> QED BY <1>3, <1>4, <1>5, <1>7, <1>8, <1>9, <1>10, CompleteTree

LEMMA DecTree ==
  ASSUME FlowInv, NEW t \in FT, Dec(t)
  PROVE  Simulated
<1>1. PICK s : s = task[ctx[t].d.p].sync
  OBVIOUS
<1>2. gone' = gone /\ ended' = ended /\ asked' = asked /\ task' = task
  BY DEF Dec
<1>3. sync' = sync \/ sync' = [sync EXCEPT ![s].cnt = @ - 1]
  BY <1>1 DEF Dec
<1>4. SyncsStay
  <2>1. CASE sync' = sync
    BY <2>1 DEF SyncsStay
  <2>2. CASE sync' = [sync EXCEPT ![s].cnt = @ - 1]
    <3>1. PICK r : r = [sync[s] EXCEPT !.cnt = @ - 1]
      OBVIOUS
    <3>2. sync' = [sync EXCEPT ![s] = r]
      BY <2>2, <3>1, PutCnt
    <3>3. s \in DOMAIN sync => r.taid = sync[s].taid /\ r.step = sync[s].step
      <4>1. sync \in Seq(SyncRec)
        BY DEF FlowInv, FlowTypes
      <4>2. s \in DOMAIN sync => sync[s] \in SyncRec
        BY <4>1
      <4> QED BY <3>1, <4>2, RecCnt
    <3> QED BY <3>2, <3>3 DEF SyncsStay
  <2> QED BY <1>3, <2>1, <2>2
<1> QED BY <1>2, <1>4, SameRows, StillTree DEF Still

LEMMA TakeTree ==
  ASSUME FlowInv, Take
  PROVE  Simulated
<1>1. sync' = sync /\ gone' = gone /\ ended' = ended /\ asked' = asked /\ task' = task
  BY DEF Take
<1> QED BY <1>1, SameRows, SameStill, StillTree

LEMMA LoopTree ==
  ASSUME FlowInv, NEW p \in Procs,
         (\E d \in calls : d.p = p /\ Answer(d)) \/ (\E item \in open[p] : ProcessSet(p, item)) \/ CtxOnEvent(p) \/ Mismatch(p)
  PROVE  Simulated
<1>1. sync' = sync /\ gone' = gone /\ ended' = ended /\ asked' = asked
  BY DEF Answer, ProcessSet, CtxOnEvent, Mismatch
<1>2. \E st \in {"done", "halt", "error"} : SetState(p, st)
  BY DEF Answer, ProcessSet, CtxOnEvent, Mismatch
<1>3. RowsStay
  BY <1>2, StateRows DEF States
<1> QED BY <1>1, <1>3, SameStill, StillTree

LEMMA RepairTree ==
  ASSUME FlowInv, NEW p \in Procs, Once(p) \/ ProcessNext(p)
  PROVE  Simulated
<1>1. sync' = sync /\ gone' = gone /\ ended' = ended /\ task' = task /\ asked' = [asked EXCEPT !.repairs = @ + 1]
  BY DEF Once, ProcessNext, Repair
<1>2. asked'.moves = asked.moves /\ asked'.removals = asked.removals
  BY <1>1 DEF FlowInv, FlowTypes
<1> QED BY <1>1, <1>2, SameRows, SameStill, StillTree

LEMMA CrashTree ==
  ASSUME FlowInv, Crash
  PROVE  Simulated
<1>1. sync' = sync /\ gone' = gone /\ ended' = ended /\ task' = task /\ asked' = [asked EXCEPT !.crashes = @ + 1]
  BY DEF Crash
<1>2. asked'.moves = asked.moves /\ asked'.removals = asked.removals
  BY <1>1 DEF FlowInv, FlowTypes
<1> QED BY <1>1, <1>2, SameRows, SameStill, StillTree

(* A sequence that has grown at its end. *)
LEMMA SeqGrew ==
  ASSUME NEW S, NEW a \in Seq(S), NEW b \in Seq(S), Len(b) = Len(a) + 1, \A i \in 1 .. Len(a) : b[i] = a[i]
  PROVE  b = Append(a, b[Len(b)])
OBVIOUS

LEMMA SeqPrefix ==
  ASSUME NEW S, NEW a \in Seq(S), NEW b \in Seq(S), NEW m \in Nat, Len(b) = Len(a) + m, \A i \in 1 .. Len(a) : b[i] = a[i]
  PROVE  SubSeq(b, 1, Len(a)) = a
<1>1. SubSeq(b, 1, Len(a)) \in Seq(S) /\ Len(SubSeq(b, 1, Len(a))) = Len(a)
  OBVIOUS
<1>2. \A i \in 1 .. Len(a) : SubSeq(b, 1, Len(a))[i] = a[i]
  OBVIOUS
<1> QED BY <1>1, <1>2

(* The tree as a sequence of nodes, before and after a step. *)
TreeTyped == /\ Tree \in Seq(NodeRec) /\ DOMAIN Tree = Procs /\ Len(Tree) = Len(task)
             /\ \A p \in Procs : Tree[p] = Node(p)
LEMMA TreeNow == FlowInv => TreeTyped
BY TreeIs DEF TreeTyped
LEMMA TreeThen == FlowInv' => TreeTyped'
BY TreeNow, PTL

(* New processes are new nodes. *)
LEMMA GrowTree ==
  ASSUME FlowInv, FlowInv', NEW m \in Nat, Grows(m)
  PROVE  /\ Tree \in Seq(NodeRec) /\ Tree' \in Seq(NodeRec) /\ Len(Tree') = Len(Tree) + m
         /\ Procs = 1 .. Len(Tree) /\ Procs' = 1 .. Len(Tree')
         /\ \A q \in 1 .. Len(Tree) : Tree'[q] = Tree[q]
         /\ \A q \in Procs' \ Procs :
              Tree'[q] = [len |-> Tree'[q].len, done |-> 0, parent |-> ParentOf(q)', removed |-> FALSE, by |-> By(q)']
<1>1. TreeTyped /\ TreeTyped'
  BY TreeNow, TreeThen
<1>2. Tree \in Seq(NodeRec) /\ DOMAIN Tree = Procs /\ Len(Tree) = Len(task) /\ \A p \in Procs : Tree[p] = Node(p)
  BY <1>1 DEF TreeTyped
<1>3. Tree' \in Seq(NodeRec) /\ DOMAIN Tree' = Procs' /\ Len(Tree') = Len(task') /\ \A p \in Procs' : Tree'[p] = Node(p)'
  BY <1>1 DEF TreeTyped
<1>4. Procs = 1 .. Len(task) /\ Procs' = 1 .. Len(task) + m /\ Len(task) \in Nat /\ Len(task') = Len(task) + m
  BY GrowsFacts DEF Grows, GrowsRows
<1>5. sync' = sync /\ gone' = gone /\ ended' = ended
  BY DEF Grows
<1>6. ASSUME NEW q \in Procs PROVE Tree'[q] = Tree[q]
  <2>1. KeepsRow(q) /\ task'[q].sync = task[q].sync
    BY DEF Grows, GrowsRows
  <2>2. SameOrigin(q) /\ SyncsStay /\ task'[q].pos = task[q].pos
    BY <1>5, <2>1 DEF SameOrigin, SyncsStay, KeepsRow
  <2>3. Node(q)' = Node(q)
    BY <1>5, <2>2, OriginStays DEF Node
  <2>4. q \in Procs'
    BY <1>4
  <2> QED BY <1>2, <1>3, <2>3, <2>4
<1>7. ASSUME NEW q \in Procs' \ Procs
      PROVE  Tree'[q] = [len |-> Tree'[q].len, done |-> 0, parent |-> ParentOf(q)', removed |-> FALSE, by |-> By(q)']
  <2>1. task'[q].pos = 1
    BY DEF Grows, GrowsRows, Newborn
  <2>2. q \notin ended /\ q \notin gone.procs
    BY DEF FlowInv, FlowTypes
  <2>3. Done(q)' = 0
    BY <1>5, <2>1, <2>2 DEF Done
  <2>4. (q \in gone'.procs) = FALSE
    BY <1>5, <2>2
  <2>5. Tree'[q] = [len |-> Len(Steps(q))', done |-> 0, parent |-> ParentOf(q)', removed |-> FALSE, by |-> By(q)']
    BY <1>3, <2>3, <2>4 DEF Node
  <2> QED BY <2>5
<1> QED BY <1>2, <1>3, <1>4, <1>6, <1>7

(* One process begins. *)
LEMMA BeginTree ==
  ASSUME FlowInv, FlowInv', Grows(1), NEW p \in Procs \union {0}, asked'.moves = asked.moves, asked'.removals = asked.removals,
         NEW q \in Procs' \ Procs, ParentOf(q)' = p,
         p = 0 => By(q)' = 0,
         p # 0 => p \notin ended /\ p \notin gone.procs /\ By(q)' = task[p].pos
  PROVE  Simulated
<1>1. /\ Tree \in Seq(NodeRec) /\ Tree' \in Seq(NodeRec) /\ Len(Tree') = Len(Tree) + 1
      /\ Procs = 1 .. Len(Tree) /\ Procs' = 1 .. Len(Tree')
      /\ \A x \in 1 .. Len(Tree) : Tree'[x] = Tree[x]
      /\ Tree'[q] = [len |-> Tree'[q].len, done |-> 0, parent |-> ParentOf(q)', removed |-> FALSE, by |-> By(q)']
  BY GrowTree
<1>2. q = Len(Tree')
  <2>1. Len(Tree) \in Nat
    BY <1>1
  <2> QED BY <1>1, <2>1
<1>3. Tree' = Append(Tree, Tree'[q])
  BY <1>1, <1>2, SeqGrew
<1>4. p # 0 => Tree[p].done = task[p].pos - 1 /\ Tree[p].len = Len(Steps(p)) /\ ~ Tree[p].removed
  <2> SUFFICES ASSUME p # 0 PROVE Tree[p].done = task[p].pos - 1 /\ Tree[p].len = Len(Steps(p)) /\ ~ Tree[p].removed
    OBVIOUS
  <2>1. Tree[p] = Node(p) /\ p \notin ended /\ p \notin gone.procs
    BY TreeIs
  <2>2. Tree[p].done = task[p].pos - 1 /\ Tree[p].len = Len(Steps(p))
    BY <2>1, NodeIs DEF Done
  <2>3. ~ Tree[p].removed
    BY <2>1, NodeIs, Zenon
  <2> QED BY <2>2, <2>3
<1>5. p # 0 => task[p].pos \in 1 .. Len(Steps(p)) /\ Len(Steps(p)) \in Nat
  BY StepsType DEF FlowInv, PInv, InStep, Walked, Pos
<1>6. By(q)' = IF p = 0 THEN 0 ELSE Tree[p].done + 1
  BY <1>4, <1>5
<1>7. p # 0 => ~ TT!Whole(p) /\ ~ Tree[p].removed
  BY <1>4, <1>5 DEF TT!Whole
<1>8. Tree' = Append(Tree, [len |-> Tree'[q].len, done |-> 0, parent |-> p, removed |-> FALSE,
                            by |-> IF p = 0 THEN 0 ELSE Tree[p].done + 1])
  BY <1>1, <1>3, <1>6
<1>9. TT!Begin(Tree'[Len(Tree')].len, p)
  BY <1>2, <1>7, <1>8 DEF TT!Begin
<1>10. p \in DOMAIN Tree \union {0}
  BY <1>1
<1>11. UNCHANGED Edits
  BY DEF Edits
<1>12. TT!TreeNext
  BY <1>1, <1>9, <1>10, <1>11 DEF TT!TreeNext, Edits
<1> QED BY <1>12 DEF Simulated

(* A user starts one; a worker creates a child; an abort starts several. *)
LEMMA ProcessAddTree ==
  ASSUME FlowInv, NEW w \in Roots, ProcessAdd(w)
  PROVE  Simulated
<1>1. FlowInv' /\ Grows(1) /\ \A q \in Procs' \ Procs : task'[q].sync = 0
  BY ProcessAddStep
<1>2. PICK q \in Procs' \ Procs : TRUE
  <2>1. Procs = 1 .. Len(task) /\ Procs' = 1 .. Len(task) + 1 /\ Len(task) \in Nat
    BY <1>1, GrowsFacts
  <2>2. Len(task) + 1 \in Procs' \ Procs
    BY <2>1
  <2> QED BY <2>2
<1>3. ParentOf(q)' = 0 /\ By(q)' = 0
  BY <1>1 DEF ParentOf, By
<1>4. asked'.moves = asked.moves /\ asked'.removals = asked.removals
  BY DEF ProcessAdd, FlowInv, FlowTypes
<1> QED BY <1>1, <1>3, <1>4, BeginTree

LEMMA InheritTree ==
  ASSUME FlowInv, NEW t \in FT, Inherit(t)
  PROVE  Simulated
<1>1. /\ sync' = sync /\ gone' = gone /\ ended' = ended /\ asked' = asked /\ ctx[t].at = "fork"
      /\ ~ (ctx[t].todo > 0) => task' = task
  BY DEF Inherit
<1>2. CASE ~ (ctx[t].todo > 0)
  BY <1>1, <1>2, SameRows, SameStill, StillTree
<1>3. CASE ctx[t].todo > 0
  <2>1. PICK d : d = ctx[t].d
    OBVIOUS
  <2>2. PICK p : p = d.p
    OBVIOUS
  <2>3. PICK s : s = MySync(d)
    OBVIOUS
  <2>4. FlowInv' /\ Grows(1) /\ \A q \in Procs' \ Procs : task'[q].sync = s
    BY <1>3, <2>1, <2>3, InheritNext
  <2>5. PICK q \in Procs' \ Procs : TRUE
    <3>1. Procs = 1 .. Len(task) /\ Procs' = 1 .. Len(task) + 1 /\ Len(task) \in Nat
      BY <2>4, GrowsFacts
    <3>2. Len(task) + 1 \in Procs' \ Procs
      BY <3>1
    <3> QED BY <3>2
  <2>6. t = "worker" /\ p \in Procs /\ p \notin gone.procs /\ p \notin ended /\ d.k = Pos(p) /\ ForkSync(s)
    BY <1>1, <2>1, <2>2, <2>3, AtFork
  <2>7. s \in DOMAIN sync /\ sync[s].taid = p /\ sync[s].step = d.k
    <3>1. s \in DOMAIN sync /\ ctx["worker"].d.p = sync[s].taid /\ ForkedRow(ctx["worker"].d, s)
      BY <2>6, ForkFacts
    <3> QED BY <2>1, <2>2, <2>6, <3>1 DEF ForkedRow
  <2>8. ParentOf(q)' = p /\ By(q)' = task[p].pos /\ p # 0
    <3>1. s # 0 /\ p # 0
      BY <2>6, <2>7 DEF FlowInv, FlowTypes, Procs
    <3> QED BY <1>1, <2>4, <2>6, <2>7, <3>1 DEF ParentOf, By, Pos
  <2> QED BY <1>1, <2>4, <2>6, <2>8, BeginTree
<1> QED BY <1>2, <1>3

LEMMA AbortTree ==
  ASSUME FlowInv, NEW p \in Procs, Abort(p)
  PROVE  Simulated
<1>1. PICK m \in Nat : FlowInv' /\ Grows(m) /\ \A q \in Procs' \ Procs : task'[q].sync = 0
  BY AbortStep
<1>2. /\ Tree \in Seq(NodeRec) /\ Tree' \in Seq(NodeRec) /\ Len(Tree') = Len(Tree) + m
      /\ Procs = 1 .. Len(Tree) /\ Procs' = 1 .. Len(Tree')
      /\ \A q \in 1 .. Len(Tree) : Tree'[q] = Tree[q]
      /\ \A q \in Procs' \ Procs :
           Tree'[q] = [len |-> Tree'[q].len, done |-> 0, parent |-> ParentOf(q)', removed |-> FALSE, by |-> By(q)']
  BY <1>1, GrowTree
<1>3. asked'.moves = asked.moves /\ asked'.removals = asked.removals
  BY DEF Abort, FlowInv, FlowTypes
<1>4. UNCHANGED Edits
  BY <1>3 DEF Edits
<1>5. CASE m = 0
  <2>1. Tree' = Tree
    BY <1>2, <1>5
  <2> QED BY <1>4, <2>1 DEF Simulated
<1>6. CASE m # 0
  <2>1. Len(Tree) \in Nat /\ Len(Tree') > Len(Tree)
    BY <1>2, <1>6
  <2>2. SubSeq(Tree', 1, Len(Tree)) = Tree
    BY <1>2, SeqPrefix
  <2>3. \A c \in Len(Tree) + 1 .. Len(Tree') : Tree'[c].done = 0 /\ Tree'[c].parent = 0
    <3>1. \A c \in Len(Tree) + 1 .. Len(Tree') : c \in Procs' \ Procs
      BY <1>2, <2>1
    <3>2. \A c \in Procs' \ Procs : ParentOf(c)' = 0
      BY <1>1 DEF ParentOf
    <3>3. \A c \in Procs' \ Procs : Tree'[c].done = 0 /\ Tree'[c].parent = 0
      BY <1>2, <3>2
    <3> QED BY <3>1, <3>3
  <2>4. TT!BeginMany
    BY <2>1, <2>2, <2>3 DEF TT!BeginMany
  <2>5. TT!TreeNext
    BY <1>4, <2>4 DEF TT!TreeNext, Edits
  <2> QED BY <2>5 DEF Simulated
<1> QED BY <1>5, <1>6

(* What users and operators edit. *)
LEMMA PutEdit ==
  ASSUME NEW r, NEW d, NEW e, NEW c, NEW G, NEW p, NEW q,
         d = IF q = p THEN e ELSE r.done, c = (r.removed \/ q \in G)
  PROVE  [r EXCEPT !.done = IF q = p THEN e ELSE @, !.removed = @ \/ q \in G] = [r EXCEPT !.done = d, !.removed = c]
BY Zenon

(* The node of a process that is moved or removed. *)
NodeEdited(q, p, done, G) ==
  Node(q)' = [Node(q) EXCEPT !.done = IF q = p THEN done ELSE @, !.removed = @ \/ q \in G]
LEMMA NodeCut ==
  ASSUME FlowInv, NEW G, NEW Y, NEW M, Cut(G, Y, M), NEW p, NEW done, M \subseteq {p}, NEW q \in Procs,
         q = p => Done(p)' = done
  PROVE  NodeEdited(q, p, done, G)
<1>1. /\ sync' = sync /\ ended' = ended /\ gone'.procs = gone.procs \union G
      /\ SameOrigin(q) /\ (q # p => task'[q] = task[q])
  BY DEF Cut, SameOrigin
<1>2. SyncsStay
  BY <1>1 DEF SyncsStay
<1>3. Len(Steps(q))' = Len(Steps(q)) /\ ParentOf(q)' = ParentOf(q) /\ By(q)' = By(q) /\ (q # p => Done(q)' = Done(q))
  BY <1>1, <1>2, OriginStays
<1>4. PICK n : n = IF q = p THEN done ELSE Done(q)
  OBVIOUS
<1>5. Done(q)' = n
  BY <1>3, <1>4
<1>6. PICK b : b = (q \in gone.procs)
  OBVIOUS
<1>7. PICK c : c = (q \in gone'.procs)
  OBVIOUS
<1>8. Node(q) = [len |-> Len(Steps(q)), done |-> Done(q), parent |-> ParentOf(q), removed |-> b, by |-> By(q)]
  BY <1>6 DEF Node
<1>9. Node(q)' = [len |-> Len(Steps(q)), done |-> n, parent |-> ParentOf(q), removed |-> c, by |-> By(q)]
  BY <1>3, <1>5, <1>7 DEF Node
<1>10. Node(q)' = [Node(q) EXCEPT !.done = n, !.removed = c]
  <2>1. [Node(q) EXCEPT !.done = n, !.removed = c]
          = [len |-> Len(Steps(q)), done |-> n, parent |-> ParentOf(q), removed |-> c, by |-> By(q)]
    <3>1. PICK l, d, a, y, r : l = Len(Steps(q)) /\ d = Done(q) /\ a = ParentOf(q) /\ y = By(q) /\ r = Node(q)
      OBVIOUS
    <3>2. r = [len |-> l, done |-> d, parent |-> a, removed |-> b, by |-> y]
      BY <1>8, <3>1, Zenon
    <3>3. [r EXCEPT !.done = n, !.removed = c] = [len |-> l, done |-> n, parent |-> a, removed |-> c, by |-> y]
      <4>1. PICK u : u = [r EXCEPT !.done = n]
        OBVIOUS
      <4>2. u = [len |-> l, done |-> n, parent |-> a, removed |-> b, by |-> y]
        BY <3>2, <4>1
      <4>3. [u EXCEPT !.removed = c] = [len |-> l, done |-> n, parent |-> a, removed |-> c, by |-> y]
        BY <4>2
      <4>4. [r EXCEPT !.done = n, !.removed = c] = [u EXCEPT !.removed = c]
        BY <4>1, Zenon
      <4> QED BY <4>3, <4>4
    <3> QED BY <3>1, <3>3, Zenon
  <2> QED BY <1>9, <2>1, Zenon
<1>11. n = IF q = p THEN done ELSE Node(q).done
  BY <1>4, <1>8
<1>12. c = (Node(q).removed \/ q \in G)
  <2>1. Node(q).removed = (q \in gone.procs)
    BY NodeIs
  <2>2. (q \in gone'.procs) = (q \in gone.procs \/ q \in G)
    BY <1>1
  <2> QED BY <1>7, <2>1, <2>2, Zenon
<1>13. [Node(q) EXCEPT !.done = IF q = p THEN done ELSE @, !.removed = @ \/ q \in G] = [Node(q) EXCEPT !.done = n, !.removed = c]
  BY <1>11, <1>12, PutEdit
<1> QED BY <1>10, <1>13 DEF NodeEdited

(* A removal or a move is an edit of the tree, and nobody stays below. *)
LEMMA EditTree ==
  ASSUME FlowInv, FlowInv', NEW G, NEW Y, NEW M, Cut(G, Y, M), NEW p \in Procs, NEW done, M \subseteq {p},
         Done(p)' = done
  PROVE  /\ TT!Edited(p, done, G)
         /\ \A c \in Procs : c \in G => Tree'[c].removed
<1>1. TreeTyped /\ TreeTyped' /\ Procs' = Procs
  BY TreeNow, TreeThen, CutFacts
<1>2. /\ DOMAIN Tree = Procs /\ \A c \in Procs : Tree[c] = Node(c)
      /\ Tree \in Seq(NodeRec) /\ Tree' \in Seq(NodeRec)
      /\ DOMAIN Tree' = Procs /\ \A c \in Procs : Tree'[c] = Node(c)'
  BY <1>1 DEF TreeTyped
<1>3. \A c \in Procs : NodeEdited(c, p, done, G)
  BY NodeCut
<1>4. \A c \in Procs : Tree'[c] = [Tree[c] EXCEPT !.done = IF c = p THEN done ELSE @, !.removed = @ \/ c \in G]
  BY <1>2, <1>3, Zenon DEF NodeEdited
<1>5. Tree' = [c \in DOMAIN Tree |-> [Tree[c] EXCEPT !.done = IF c = p THEN done ELSE @, !.removed = @ \/ c \in G]]
  <2>1. PICK g : g = [c \in Procs |-> [Tree[c] EXCEPT !.done = IF c = p THEN done ELSE @, !.removed = @ \/ c \in G]]
    OBVIOUS
  <2>2. \A c \in Procs : g[c] = Tree'[c]
    BY <1>4, <2>1
  <2>3. Tree' = [c \in Procs |-> Tree'[c]] /\ g = [c \in Procs |-> g[c]]
    <3>1. Tree' = [c \in Procs |-> Tree'[c]]
      <4>1. Tree' = [c \in DOMAIN Tree' |-> Tree'[c]]
        BY <1>2
      <4> QED BY <1>2, <4>1
    <3> QED BY <2>1, <3>1
  <2>4. Tree' = g
    BY <2>2, <2>3
  <2> QED BY <1>2, <2>1, <2>4
<1>6. \A c \in Procs : (c \in gone'.procs => Tree'[c].removed) /\ (c \notin gone'.procs => ~ Tree'[c].removed)
  <2> SUFFICES ASSUME NEW c \in Procs
               PROVE  (c \in gone'.procs => Tree'[c].removed) /\ (c \notin gone'.procs => ~ Tree'[c].removed)
    OBVIOUS
  <2>1. Tree'[c] = Node(c)'
    BY <1>2
  <2>2. Tree'[c].removed = (c \in gone'.procs)
    BY <2>1 DEF Node
  <2> QED BY <2>2, Zenon
<1>7. gone'.procs = gone.procs \union G
  BY DEF Cut
<1>8. ASSUME NEW c \in DOMAIN Tree, Tree[c].parent # 0, Tree'[Tree[c].parent].removed PROVE Tree'[c].removed
  <2>1. c \in Procs /\ Tree[c].parent = ParentOf(c)
    BY <1>2, NodeIs
  <2>2. PICK s \in DOMAIN sync : task[c].sync = s
    BY <1>8, <2>1 DEF ParentOf, FlowInv, Nested
  <2>3. ParentOf(c) = sync[s].taid /\ sync[s].taid \in Procs
    BY <2>1, <2>2, ParentIs DEF FlowInv, Names
  <2>4. sync[s].taid \in gone'.procs
    BY <1>6, <1>8, <2>1, <2>3
  <2>5. GoneBelow' /\ sync' = sync /\ task'[c].sync = s
    BY <2>1, <2>2 DEF FlowInv, Cut
  <2>6. c \in gone'.procs
    BY <1>1, <2>1, <2>2, <2>4, <2>5 DEF GoneBelow
  <2> QED BY <1>6, <2>1, <2>6
<1>9. TT!Edited(p, done, G)
  BY <1>5, <1>8 DEF TT!Edited
<1> QED BY <1>6, <1>7, <1>9

(* A removal, and a move to another step. *)
LEMMA ProcessRmTree ==
  ASSUME ~ MayDisturb, FlowInv, NEW p \in Procs, ProcessRm(p)
  PROVE  Simulated
<1>1. FlowInv' /\ \E Y : Cut(Under(p), Y, {})
  BY ProcessRmStep
<1>2. PICK G, Y : G = Under(p) /\ Cut(G, Y, {})
  BY <1>1
<1>3. DOMAIN Tree = Procs /\ Tree[p] = Node(p)
  BY TreeIs
<1>4. Done(p)' = Done(p)
  <2>1. SyncsStay /\ SameOrigin(p) /\ task'[p] = task[p] /\ ended' = ended
    BY <1>2 DEF Cut, SyncsStay, SameOrigin
  <2> QED BY <2>1, OriginStays
<1>5. Done(p)' = Tree[p].done
  BY <1>3, <1>4, NodeIs
<1>6. PICK M : M = {}
  OBVIOUS
<1>7. Cut(G, Y, M) /\ M \subseteq {p}
  BY <1>2, <1>6
<1>8. TT!Edited(p, Tree[p].done, G)
  BY <1>1, <1>5, <1>7, EditTree
<1>9. p \in G /\ G \subseteq Procs
  BY <1>2, UnderFacts
<1>10. TT!Remove(p)
  BY <1>3, <1>8, <1>9 DEF TT!Remove
<1>11. Edits' = Edits + 1
  <2>1. asked \in [roots : SUBSET Roots, aborts : Nat, repairs : Nat,
                 moves : Nat, removals : Nat, crashes : Nat]
    BY DEF FlowInv, FlowTypes
  <2>2. PICK n \in Nat : n = asked.removals
    BY <2>1
  <2>3. asked' = [asked EXCEPT !.removals = n + 1]
    BY <2>2 DEF ProcessRm
  <2>4. asked'.removals = n + 1 /\ asked'.moves = asked.moves /\ asked.moves \in Nat
    BY <2>1, <2>3
  <2> QED BY <2>2, <2>4 DEF Edits
<1>12. TT!TreeNext
  BY <1>3, <1>10, <1>11 DEF TT!TreeNext, Edits
<1> QED BY <1>12 DEF Simulated

LEMMA MovedTree ==
  ASSUME ~ MayDisturb, FlowInv, FlowInv', NEW p \in Procs, NEW k \in 1 .. Len(Steps(p)), MovedTo(p, k)
  PROVE  Simulated
<1>1. PICK G, Y : MoveTo(p, k, G) /\ Cut(G, Y, {p}) /\ p \notin G
  BY DEF MovedTo
<1>2. /\ p \notin ended /\ task'[p].pos = k
      /\ \A c \in Under(p) \ {p} : c \in G \union ended \union gone.procs
      /\ ended' = ended
  BY <1>1, MoveFacts
<1>3. Len(Steps(p)) \in Nat /\ k - 1 \in 0 .. Len(Steps(p)) - 1
  BY StepsType
<1>4. /\ DOMAIN Tree = Procs /\ \A c \in Procs : Tree[c] = Node(c)
  BY TreeIs
<1>5. Done(p)' = k - 1
  BY <1>2 DEF Done
<1>6. PICK done : done = k - 1
  OBVIOUS
<1>7. PICK M : M = {p}
  OBVIOUS
<1>8. Cut(G, Y, M) /\ M \subseteq {p} /\ Done(p)' = done
  BY <1>1, <1>5, <1>6, <1>7
<1>9. TT!Edited(p, done, G) /\ \A c \in Procs : c \in G => Tree'[c].removed
  BY <1>8, EditTree
<1>10. G \subseteq Procs
  BY <1>1 DEF Cut
<1>11. ASSUME NEW c \in DOMAIN Tree, Tree[c].parent = p PROVE TT!Whole(c) \/ Tree'[c].removed
  <2>1. c \in Procs /\ Tree[c] = Node(c) /\ ParentOf(c) = p
    BY <1>4, <1>11, NodeIs
  <2>2. c # p
    <3>1. ParentOf(c) \in 0 .. c - 1 /\ c \in Nat
      BY <2>1, IsRooted DEF Rooted, Procs
    <3> QED BY <2>1, <3>1
  <2>3. c \in Under(p)
    BY <2>1, UnderFacts
  <2>4. c \in G \/ c \in ended \/ c \in gone.procs
    BY <1>2, <2>2, <2>3
  <2>5. c \in ended => TT!Whole(c)
    BY <2>1 DEF TT!Whole, Node, Done
  <2>6. c \in gone.procs => Tree'[c].removed
    <3>1. c \in gone.procs => c \in gone'.procs
      BY <1>1 DEF Cut
    <3>2. Procs' = Procs /\ TreeTyped'
      BY <1>1, CutFacts, TreeThen
    <3>3. Tree'[c] = Node(c)'
      BY <2>1, <3>2 DEF TreeTyped
    <3>4. Tree'[c].removed = (c \in gone'.procs)
      BY <3>3 DEF Node
    <3> QED BY <3>1, <3>4, Zenon
  <2> QED BY <1>9, <2>1, <2>4, <2>5, <2>6
<1>12. G \in SUBSET (DOMAIN Tree \ {p})
  BY <1>1, <1>4, <1>10
<1>13. TT!MoveTo(p, done)
  BY <1>9, <1>11, <1>12 DEF TT!MoveTo
<1>14. done \in 0 .. Tree[p].len - 1
  BY <1>3, <1>4, <1>6, NodeIs
<1>15. Edits' = Edits + 1
  <2>1. asked \in [roots : SUBSET Roots, aborts : Nat, repairs : Nat,
                 moves : Nat, removals : Nat, crashes : Nat]
    BY DEF FlowInv, FlowTypes
  <2>2. PICK n \in Nat : n = asked.moves
    BY <2>1
  <2>3. asked' = [asked EXCEPT !.moves = n + 1]
    BY <1>1, <2>2 DEF MoveTo
  <2>4. asked'.moves = n + 1 /\ asked'.removals = asked.removals /\ asked.removals \in Nat
    BY <2>1, <2>3
  <2> QED BY <2>2, <2>4 DEF Edits
<1>16. TT!TreeNext
  BY <1>4, <1>13, <1>14, <1>15 DEF TT!TreeNext, Edits
<1> QED BY <1>16 DEF Simulated

LEMMA EditedTree ==
  ASSUME ~ MayDisturb, FlowInv, NEW p \in Procs, ProcessPrev(p) \/ \E k \in DOMAIN Steps(p) : ProcessStep(p, k)
  PROVE  Simulated
<1>1. FlowInv' /\ \E k \in 1 .. Len(Steps(p)) : MovedTo(p, k)
  BY ProcessPrevStep, ProcessStepStep
<1> QED BY <1>1, MovedTree

(* Every step is one of the tree or leaves it as it is. *)
LEMMA WorkTree ==
  ASSUME FlowInv, NEW t \in FT, Work(t)
  PROVE  Simulated
BY RunTree, RunForkTree, InheritTree, HaltTree, NextStepTree, EndReadTree, EndWriteTree, DecTree DEF Work

(* Any step of Flow. *)
LEMMA TreeStep ==
  ASSUME ~ MayDisturb, FlowInv, [FlowNext]_flowVars
  PROVE  Simulated
<1>1. CASE UNCHANGED flowVars
  <2>1. sync' = sync /\ gone' = gone /\ ended' = ended /\ task' = task /\ asked' = asked
    BY <1>1 DEF flowVars
  <2> QED BY <2>1, SameRows, SameStill, StillTree
<1>2. CASE Worker
  BY <1>2, TakeTree, WorkTree DEF Worker, FT
<1>3. CASE Loop
  <2>1. CASE Work("loop")
    BY <2>1, WorkTree DEF FT
  <2>2. CASE \E d \in calls : Answer(d)
    <3>1. PICK d \in calls : Answer(d)
      BY <2>2
    <3>2. d.p \in Procs
      BY <3>1 DEF FlowInv, Names
    <3> QED BY <3>1, <3>2, LoopTree
  <2>3. CASE \E p \in Procs : \E item \in open[p] : ProcessSet(p, item)
    BY <2>3, LoopTree
  <2>4. CASE \E p \in timers : CtxOnEvent(p)
    <3>1. timers \subseteq Procs
      BY DEF FlowInv, FlowTypes
    <3> QED BY <2>4, <3>1, LoopTree
  <2> QED BY <1>3, <2>1, <2>2, <2>3, <2>4 DEF Loop
<1>4. CASE Crash
  BY <1>4, CrashTree
<1>5. CASE \E w \in Roots : ProcessAdd(w)
  BY <1>5, ProcessAddTree
<1>6. CASE \E p \in Procs : Mismatch(p) \/ Once(p) \/ ProcessNext(p) \/ Abort(p)
  BY <1>6, LoopTree, RepairTree, AbortTree
<1>7. CASE \E p \in Procs : ProcessRm(p) \/ ProcessPrev(p) \/ \E k \in DOMAIN Steps(p) : ProcessStep(p, k)
  BY <1>7, ProcessRmTree, EditedTree
<1> QED BY <1>1, <1>2, <1>3, <1>4, <1>5, <1>6, <1>7 DEF FlowNext

(* No processes, no tree. *)
LEMMA TreeStarts ==
  ASSUME FlowInit
  PROVE  TT!TreeInit
<1>1. Procs = {}
  BY DEF FlowInit, Procs
<1>2. Tree = <<>>
  BY <1>1 DEF Tree
<1>3. asked.moves + asked.removals = 0
  BY DEF FlowInit
<1> QED BY <1>2, <1>3 DEF TT!TreeInit

(* Flow implements TaskTree (ImplementsTree): a step that started children is
      completed only when each has completed all of its own steps or was
      removed, whatever the threads, aborts and crashes. *)
THEOREM TreeImplemented == ~ MayDisturb => (FlowSpec => ImplementsTree)
<1> SUFFICES ASSUME ~ MayDisturb PROVE FlowSpec => ImplementsTree
  OBVIOUS
<1>1. FlowInit => TT!TreeInit
  BY TreeStarts
<1>2. FlowInv /\ [FlowNext]_flowVars => [TT!TreeNext]_<<Tree, asked.moves + asked.removals>>
  BY TreeStep DEF Simulated, Edits
<1>3. FlowSpec => []FlowInv
  BY FlowInvariant
<1> QED BY <1>1, <1>2, <1>3, PTL DEF FlowSpec, ImplementsTree, TT!TreeSpec

-----------------------------------------------------------------------------
(***************************************************************************)
(* QJobs, for any number of threads and events: the types, and that no     *)
(* event runs again without a reason.                                      *)
(*                                                                         *)
(* The argument is one of bookkeeping.  An event is owed a run when its    *)
(* row, or its copy in the list, still bears a date that a run has passed: *)
(* it will run again.  The call of the timer that has just run it is about *)
(* to put that right and does not count.  Every event that is owed a run   *)
(* stands for an answer CONTINUE, a failed call or a restart that was not  *)
(* used up yet (Owing).  It needs that nothing comes between the run, the  *)
(* write and the read: the mutex (Exclusion), and, as qjobs_rm takes none, *)
(* that nobody but the thread of the timer removes rows (RmAssumption).    *)
(***************************************************************************)

Inside(t) == pc[t] \notin {"idle", "lock"} /\ op[t].kind # "rm"
Carries(t) == op[t].kind = "tick" /\ pc[t] \in {"call", "store", "fetch"}
Adding(t) == op[t].kind = "add" /\ pc[t] \in {"lock", "store"}

InList(j) == list # Never /\ j \in DOMAIN list

(* What a thread does is one of the calls it makes, and the mutex is its own
   between the lock and the return, if the call takes it. *)
Exclusion ==
  \A t \in Threads : (pc[t] # "idle" => op[t].kind \in may[t]) /\ (Inside(t) => mutex = t)

(* Where a call may be, and what its arguments and locals are there. *)
Shape ==
  \A t \in Threads :
    /\ op[t].kind \in {"add", "set", "rm"} => op[t].job \in used /\ pc[t] \in {"lock", "store", "fetch"}
    /\ op[t].kind = "tick" /\ pc[t] = "due" => list # Never
    /\ Carries(t) => op[t].job \in Jobs
    /\ Carries(t) /\ pc[t] \in {"call", "store"} => InList(op[t].job)
    /\ Carries(t) /\ pc[t] # "call" => lastRun[op[t].job] = op[t].clock
    /\ Carries(t) /\ pc[t] = "store" =>
         op[t].result # "CONTINUE" /\ (op[t].result = "NONE" => list[op[t].job].period # 0)

(* The number of a row that is not written yet is nobody else's, and nothing
   is known of it or of one that is not given out. *)
Blank(j) == j \notin DOMAIN rows /\ ~ InList(j) /\ lastRun[j] = -1
Unknown ==
  /\ \A j \in Jobs \ used : Blank(j)
  /\ \A t \in Threads : Adding(t) => Blank(op[t].job)
  /\ \A t, u \in Threads : Adding(t) /\ Adding(u) /\ op[t].job = op[u].job => t = u

Corrects(t, j) == Carries(t) /\ pc[t] # "call" /\ op[t].job = j /\ op[t].result # "CONTINUE"
RowAhead(j) == \E t \in Threads : Corrects(t, j) /\ pc[t] = "store"
ReadAhead(j) == \E t \in Threads : Corrects(t, j)

OwedByRow(j) == j \in DOMAIN rows /\ rows[j].date <= lastRun[j] /\ ~ RowAhead(j)
OwedByList(j) == InList(j) /\ list[j].date <= lastRun[j] /\ ~ ReadAhead(j)
Owed == {j \in Jobs : OwedByRow(j) \/ OwedByList(j)}

Owing == IsFiniteSet(Owed) /\ repeats + Cardinality(Owed) <= continues + faults

IInv == TypeOK /\ Exclusion /\ Shape /\ Unknown /\ Owing

-----------------------------------------------------------------------------
(* Dates and tables. *)

(* The next date of a period is one the clock has not reached. *)
LEMMA NextDateIsLater ==
  ASSUME NEW date \in Nat, NEW period \in Nat, period # 0, NEW clock \in Nat
  PROVE  NextDate(date, period, clock) \in Nat /\ NextDate(date, period, clock) > clock
<1>1. CASE date + period > clock
  BY <1>1 DEF NextDate
<1>2. CASE ~ (date + period > clock)
  <2> DEFINE d == clock - date  q == d \div period  r == d % period
  <2>1. d \in Nat /\ period \in Nat \ {0}
    BY <1>2
  <2>2. q \in Nat /\ r \in 0 .. period - 1 /\ d = period * q + r
    BY <2>1
  <2> HIDE DEF q, r
  <2>3. (q + 1) * period = period * q + period
    BY <2>1, <2>2
  <2>4. period * q \in Nat
    BY <2>1, <2>2
  <2>5. NextDate(date, period, clock) = date + (q + 1) * period
    BY <1>2 DEF NextDate, q
  <2> QED
    BY <2>1, <2>2, <2>3, <2>4, <2>5
<1> QED
  BY <1>1, <1>2

(* After a read the copy is the table, and the pointer stands in it. *)
LEMMA FetchedIsTable ==
  ASSUME TypeOK, Fetched
  PROVE  /\ list' = rows /\ IsTable(list)' /\ list' # Never
         /\ next' = Never \/ next' \in DOMAIN rows
<1>1. list' = rows /\ next' \in NextEvent(rows)
  BY DEF Fetched
<1>2. IsTable(rows)
  BY DEF TypeOK
<1>3. rows # Never
  BY <1>2, NeverAssumption DEF IsTable
<1>4. next' = Never \/ next' \in DOMAIN rows
  BY <1>1 DEF NextEvent
<1> QED
  BY <1>1, <1>2, <1>3, <1>4 DEF IsTable

(* What a row that is in the table and in the copy looks like. *)
LEMMA RowTypes ==
  ASSUME TypeOK, NEW j
  PROVE  /\ j \in DOMAIN rows => j \in Jobs /\ j \in used /\ rows[j].date \in Nat /\ rows[j].period \in Periods
         /\ InList(j) => j \in Jobs /\ list[j].date \in Nat /\ list[j].period \in Periods
  BY DEF TypeOK, IsTable, InList

(* The table a write leaves behind. *)
LEMMA WrittenAdd ==
  ASSUME TypeOK, NEW t \in Threads, op[t].kind = "add"
  PROVE  /\ op[t].job \in Jobs /\ op[t].date \in Nat /\ op[t].period \in Periods
         /\ IsTable(Written(op[t]))
         /\ DOMAIN Written(op[t]) = DOMAIN rows \cup {op[t].job}
         /\ \A j \in DOMAIN rows : j # op[t].job => Written(op[t])[j] = rows[j]
<1>1. op[t].job \in Jobs /\ op[t].date \in Nat /\ op[t].period \in Periods
  BY QJobsAssumption DEF TypeOK, Ops
<1> DEFINE o == op[t]
           W == [k \in DOMAIN rows \cup {o.job} |->
                   IF k = o.job THEN [date |-> o.date, period |-> o.period] ELSE rows[k]]
<1>2. Written(op[t]) = W
  BY DEF Written
<1>3. W \in [DOMAIN rows \cup {o.job} -> [date : Nat, period : Periods]]
  BY <1>1 DEF TypeOK, IsTable
<1> QED
  BY <1>1, <1>2, <1>3 DEF TypeOK, IsTable

LEMMA WithoutIsTable ==
  ASSUME TypeOK, NEW j
  PROVE  /\ IsTable(Without(j)) /\ DOMAIN Without(j) \subseteq DOMAIN rows /\ j \notin DOMAIN Without(j)
         /\ \A k \in DOMAIN Without(j) : k # j => Without(j)[k] = rows[k]
  BY DEF TypeOK, IsTable, Without

LEMMA RedatedIsTable ==
  ASSUME TypeOK, NEW j, NEW date \in Nat
  PROVE  /\ IsTable(Redated(j, date)) /\ DOMAIN Redated(j, date) = DOMAIN rows
         /\ \A k \in DOMAIN rows : k # j => Redated(j, date)[k] = rows[k]
         /\ j \in DOMAIN rows => Redated(j, date)[j].date = date
<1>1. CASE j \in DOMAIN rows
  <2>1. Redated(j, date) = [rows EXCEPT ![j].date = date]
    BY <1>1 DEF Redated
  <2>2. rows \in [DOMAIN rows -> [date : Nat, period : Periods]]
    BY DEF TypeOK, IsTable
  <2>3. [rows EXCEPT ![j].date = date] \in [DOMAIN rows -> [date : Nat, period : Periods]]
    BY <1>1, <2>2
  <2> QED
    BY <1>1, <2>1, <2>2, <2>3 DEF TypeOK, IsTable
<1>2. CASE j \notin DOMAIN rows
  BY <1>2 DEF Redated, TypeOK
<1> QED
  BY <1>1, <1>2

(* A thread that is not idle carries out one of the four calls. *)
LEMMA CallKinds ==
  ASSUME TypeOK, Exclusion, NEW t \in Threads, pc[t] # "idle"
  PROVE  op[t].kind \in {"tick", "add", "set", "rm"} /\ op[t].kind \in may[t]
<1>1. may \in Uses /\ op[t].kind \in may[t]
  BY DEF TypeOK, Exclusion
<1>2. may[t] \subseteq {"tick", "add", "set", "rm"}
  BY <1>1, QJobsAssumption
<1> QED
  BY <1>1, <1>2

(* The arguments and locals of a call, by its kind. *)
LEMMA OpTypes ==
  ASSUME TypeOK, NEW t \in Threads
  PROVE  /\ op[t].kind \in {"add", "set", "rm"} => op[t].job \in Jobs
         /\ op[t].kind = "set" => op[t].date \in Nat
         /\ op[t].kind = "tick" /\ op[t].job \in Jobs =>
              /\ op[t].clock \in Nat /\ op[t].result \in {"EOF", "NONE", "CONTINUE"}
              /\ op[t] \in [kind : {"tick"}, job : Jobs, clock : Nat, result : {"EOF", "NONE", "CONTINUE"}]
<1>1. op[t] \in Ops
  BY DEF TypeOK
<1>2. \A d \in Dates : d \in Nat
  BY QJobsAssumption
<1> QED
  BY <1>1, <1>2, NeverAssumption DEF Ops

(* A write changes the row of its call only, and the timer's moves the date of
   that row past the clock its run has read. *)
LEMMA WriteOfOne ==
  ASSUME TypeOK, Exclusion, Shape, NEW t \in Threads, pc[t] = "store"
  PROVE  /\ op[t].job \in Jobs /\ IsTable(Written(op[t]))
         /\ DOMAIN Written(op[t]) \subseteq DOMAIN rows \cup {op[t].job}
         /\ op[t].kind # "add" => DOMAIN Written(op[t]) \subseteq DOMAIN rows
         /\ \A k \in DOMAIN Written(op[t]) : k # op[t].job => Written(op[t])[k] = rows[k]
         /\ op[t].kind = "tick" /\ op[t].job \in DOMAIN Written(op[t]) =>
              Written(op[t])[op[t].job].date > op[t].clock
<1> DEFINE j == op[t].job
<1>1. op[t].kind \in {"tick", "add", "set", "rm"}
  BY CallKinds
<1>2. CASE op[t].kind = "add"
  BY <1>2, WrittenAdd
<1>3. CASE op[t].kind = "set"
  <2>1. Written(op[t]) = Redated(j, op[t].date) /\ j \in Jobs /\ op[t].date \in Nat
    BY <1>3, OpTypes DEF Written
  <2> QED
    BY <1>3, <2>1, RedatedIsTable
<1>4. CASE op[t].kind = "rm"
  <2>1. Written(op[t]) = Without(j) /\ j \in Jobs
    BY <1>4, OpTypes DEF Written
  <2> QED
    BY <1>4, <2>1, WithoutIsTable
<1>5. CASE op[t].kind = "tick"
  <2>1. /\ j \in Jobs /\ InList(j) /\ op[t].result # "CONTINUE"
        /\ op[t].result = "NONE" => list[j].period # 0
    BY <1>5 DEF Shape, Carries
  <2>2. op[t].clock \in Nat /\ op[t].result \in {"EOF", "NONE", "CONTINUE"}
    BY <1>5, <2>1, OpTypes
  <2>3. CASE op[t].result = "EOF"
    <3>1. Written(op[t]) = Without(j)
      BY <1>5, <2>3 DEF Written
    <3> QED
      BY <1>5, <2>1, <3>1, WithoutIsTable
  <2>4. CASE op[t].result = "NONE"
    <3> DEFINE d == NextDate(list[j].date, list[j].period, op[t].clock)
    <3>1. Written(op[t]) = Redated(j, d)
      BY <1>5, <2>4 DEF Written
    <3>2. list[j].date \in Nat /\ list[j].period \in Nat /\ list[j].period # 0
      BY <2>1, <2>4, RowTypes, QJobsAssumption
    <3>3. d \in Nat /\ d > op[t].clock
      BY <2>2, <3>2, NextDateIsLater
    <3> HIDE DEF d
    <3> QED
      BY <1>5, <2>1, <3>1, <3>3, RedatedIsTable
  <2> QED
    BY <2>1, <2>2, <2>3, <2>4
<1> QED
  BY <1>1, <1>2, <1>3, <1>4, <1>5

-----------------------------------------------------------------------------
(* The steps. *)

Stations == {"idle", "lock", "first", "due", "call", "store", "fetch"}

Others(t) == \A u \in Threads \ {t} : pc'[u] = pc[u] /\ op'[u] = op[u]

(* A thread that goes on, begins a call, or returns, leaves the others alone. *)
LEMMA GoneTo ==
  ASSUME TypeOK, NEW t \in Threads, NEW place \in Stations, Goto(t, place), UNCHANGED op
  PROVE  /\ pc' \in [Threads -> Stations] /\ op' \in [Threads -> Ops] /\ pc'[t] = place /\ op'[t] = op[t]
         /\ Others(t)
  BY DEF TypeOK, Goto, Others, Stations

LEMMA CallMade ==
  ASSUME TypeOK, NEW t \in Threads, NEW place \in Stations, NEW kind, NEW record \in Ops, Call(t, kind, record, place)
  PROVE  /\ pc' \in [Threads -> Stations] /\ op' \in [Threads -> Ops] /\ pc'[t] = place /\ op'[t] = record
         /\ pc[t] = "idle" /\ kind \in may[t] /\ Others(t)
  BY DEF TypeOK, Call, At, Goto, Others, Stations

LEMMA Left ==
  ASSUME TypeOK, NEW t \in Threads, Leave(t)
  PROVE  /\ pc' \in [Threads -> Stations] /\ op' \in [Threads -> Ops] /\ pc'[t] = "idle" /\ op'[t] = Idle
         /\ mutex' \in Threads \cup {Never} /\ (mutex' = mutex \/ (mutex = t /\ mutex' = Never))
         /\ Others(t)
<1>1. Idle \in Ops
  BY DEF Idle, Ops
<1> QED
  BY <1>1 DEF TypeOK, Leave, Others, Stations

LEMMA TypesKept ==
  ASSUME TypeOK, Exclusion, Shape, [Next]_vars
  PROVE  TypeOK'
<1> USE DEF Stations
<1>1. ASSUME UNCHANGED vars PROVE TypeOK'
  BY <1>1 DEF vars, TypeOK, IsTable
<1>2. ASSUME Pass PROVE TypeOK'
  BY <1>2, QJobsAssumption DEF Pass, shared, counted, TypeOK, IsTable
<1>3. ASSUME Restart PROVE TypeOK'
  <2>1. Idle \in Ops
    BY DEF Idle, Ops
  <2> QED
    BY <1>3, <2>1 DEF Restart, Fails, counted, TypeOK, IsTable
<1>4. ASSUME NEW t \in Threads, OnEvent(t) PROVE TypeOK'
  <2>1. [kind |-> "tick", job |-> Never] \in Ops
    BY DEF Ops
  <2>2. pc' \in [Threads -> Stations] /\ op' \in [Threads -> Ops]
    BY <1>4, <2>1, CallMade DEF OnEvent
  <2> QED
    BY <1>4, <2>2 DEF OnEvent, shared, counted, TypeOK, IsTable
<1>5. ASSUME NEW t \in Threads, NEW j \in Jobs, NEW date \in Dates, NEW period \in Periods, Add(t, j, date, period)
      PROVE  TypeOK'
  <2>1. [kind |-> "add", job |-> j, date |-> date, period |-> period] \in Ops
    BY DEF Ops
  <2>2. pc' \in [Threads -> Stations] /\ op' \in [Threads -> Ops]
    BY <1>5, <2>1, CallMade DEF Add
  <2> QED
    BY <1>5, <2>2 DEF Add, shared, TypeOK, IsTable
<1>6. ASSUME NEW t \in Threads, NEW j \in Jobs, NEW date \in Dates, Set(t, j, date) PROVE TypeOK'
  <2>1. [kind |-> "set", job |-> j, date |-> date] \in Ops
    BY DEF Ops
  <2>2. pc' \in [Threads -> Stations] /\ op' \in [Threads -> Ops]
    BY <1>6, <2>1, CallMade DEF Set
  <2> QED
    BY <1>6, <2>2 DEF Set, shared, TypeOK, IsTable
<1>7. ASSUME NEW t \in Threads, NEW j \in Jobs, Rm(t, j) PROVE TypeOK'
  <2>1. [kind |-> "rm", job |-> j] \in Ops
    BY DEF Ops
  <2>2. pc' \in [Threads -> Stations] /\ op' \in [Threads -> Ops]
    BY <1>7, <2>1, CallMade DEF Rm
  <2> QED
    BY <1>7, <2>2 DEF Rm, shared, counted, TypeOK, IsTable
<1>8. ASSUME NEW t \in Threads, Lock(t) PROVE TypeOK'
  <2>1. pc' \in [Threads -> Stations]
    BY <1>8 DEF Lock, Goto, TypeOK
  <2> QED
    BY <1>8, <2>1 DEF Lock, shared, counted, TypeOK, IsTable
<1>9. ASSUME NEW t \in Threads, FirstFetch(t) PROVE TypeOK'
  <2>1. CASE Works /\ Fetched /\ Goto(t, "due") /\ UNCHANGED <<mutex, op>>
    <3>1. pc' \in [Threads -> Stations] /\ op' \in [Threads -> Ops]
      BY <2>1, GoneTo
    <3> QED
      BY <1>9, <2>1, <3>1, FetchedIsTable DEF FirstFetch, Works, counted, TypeOK, IsTable
  <2>2. CASE Fails /\ UNCHANGED <<list, next>> /\ Leave(t)
    <3>1. pc' \in [Threads -> Stations] /\ op' \in [Threads -> Ops] /\ mutex' \in Threads \cup {Never}
      BY <2>2, Left
    <3> QED
      BY <1>9, <2>2, <3>1 DEF FirstFetch, Fails, counted, TypeOK, IsTable
  <2> QED
    BY <1>9, <2>1, <2>2 DEF FirstFetch
<1>10. ASSUME NEW t \in Threads, Due(t) PROVE TypeOK'
  <2>1. pc' \in [Threads -> Stations] /\ op' \in [Threads -> Ops] /\ mutex' \in Threads \cup {Never}
    <3>1. CASE next # Never /\ list[next].date <= now
      <4>1. next \in Jobs /\ now \in Nat
        BY <3>1, QJobsAssumption DEF TypeOK, IsTable
      <4>2. [kind |-> "tick", job |-> next, clock |-> now, result |-> "NONE"] \in Ops
        BY <4>1 DEF Ops
      <4> QED
        BY <1>10, <3>1, <4>2 DEF Due, Goto, TypeOK
    <3>2. CASE ~ (next # Never /\ list[next].date <= now)
      BY <1>10, <3>2, Left DEF Due
    <3> QED
      BY <3>1, <3>2
  <2> QED
    BY <1>10, <2>1 DEF Due, shared, counted, TypeOK, IsTable
<1>11. ASSUME NEW t \in Threads, EventRun(t) PROVE TypeOK'
  <2>1. PICK res \in Results(op[t].job) :
          /\ op' = [op EXCEPT ![t].result = res]
          /\ Goto(t, IF res = "CONTINUE" THEN "fetch" ELSE "store")
          /\ continues' = IF res = "CONTINUE" THEN continues + 1 ELSE continues
          /\ repeats' = IF list[op[t].job].date <= lastRun[op[t].job] THEN repeats + 1 ELSE repeats
          /\ lastRun' = [lastRun EXCEPT ![op[t].job] = op[t].clock]
    BY <1>11 DEF EventRun
  <2>2. op[t].job \in Jobs /\ op[t].kind = "tick" /\ pc[t] = "call"
    <3>1. pc[t] = "call" /\ op[t].kind \in {"tick", "add", "set", "rm"}
      BY <1>11, CallKinds DEF EventRun, At
    <3> QED
      BY <3>1 DEF Shape, Carries
  <2>3. res \in {"EOF", "NONE", "CONTINUE"}
    BY <2>1 DEF Results
  <2>4. [op[t] EXCEPT !.result = res] \in Ops /\ op[t].clock \in Nat
    BY <2>2, <2>3, OpTypes DEF Ops
  <2>5. op' \in [Threads -> Ops] /\ pc' \in [Threads -> Stations]
    BY <2>1, <2>4 DEF TypeOK, Goto
  <2>6. lastRun' \in [Jobs -> Int] /\ repeats' \in Nat /\ continues' \in Nat
    BY <2>1, <2>2, <2>4 DEF TypeOK
  <2> QED
    BY <1>11, <2>5, <2>6 DEF EventRun, shared, TypeOK, IsTable
<1>12. ASSUME NEW t \in Threads, Store(t) PROVE TypeOK'
  <2>0. pc[t] = "store" /\ op[t].kind \in {"tick", "add", "set", "rm"}
    BY <1>12, CallKinds DEF Store, At
  <2>1. ASSUME Works, rows' = Written(op[t]), Goto(t, "fetch"), UNCHANGED <<op, mutex>>,
               known' = IF op[t].kind = "set" THEN known \ {op[t].job} ELSE known,
               lastRun' = IF op[t].kind = "set" THEN [lastRun EXCEPT ![op[t].job] = -1] ELSE lastRun
        PROVE  TypeOK'
    <3>1. pc' \in [Threads -> Stations] /\ op' \in [Threads -> Ops]
      BY <2>1, GoneTo
    <3>2. /\ IsTable(rows') /\ DOMAIN rows' \subseteq DOMAIN rows \cup {op[t].job}
          /\ op[t].kind # "add" => DOMAIN rows' \subseteq DOMAIN rows
      BY <2>0, <2>1, WriteOfOne
    <3>3. op[t].kind = "add" => op[t].job \in used
      BY DEF Shape
    <3>4. DOMAIN rows' \subseteq used
      BY <3>2, <3>3 DEF TypeOK
    <3>5. lastRun' \in [Jobs -> Int]
      <4>1. lastRun \in [Jobs -> Int] /\ -1 \in Int
        BY DEF TypeOK
      <4>2. [lastRun EXCEPT ![op[t].job] = -1] \in [Jobs -> Int]
        BY <4>1
      <4> QED
        BY <2>1, <4>1, <4>2
    <3>6. known' \subseteq used
      BY <2>1 DEF TypeOK
    <3> QED
      BY <1>12, <2>1, <3>1, <3>2, <3>4, <3>5, <3>6 DEF Store, Works, TypeOK, IsTable
  <2>2. ASSUME Fails, UNCHANGED <<rows, known, lastRun>>,
               IF op[t].kind = "tick" THEN Goto(t, "fetch") /\ UNCHANGED <<op, mutex>> ELSE Leave(t)
        PROVE  TypeOK'
    <3>1. pc' \in [Threads -> Stations] /\ op' \in [Threads -> Ops] /\ mutex' \in Threads \cup {Never}
      <4>1. CASE op[t].kind = "tick"
        BY <2>2, <4>1, GoneTo DEF TypeOK
      <4>2. CASE op[t].kind # "tick"
        BY <2>2, <4>2, Left
      <4> QED
        BY <4>1, <4>2
    <3> QED
      BY <1>12, <2>2, <3>1 DEF Store, Fails, TypeOK, IsTable
  <2> QED
    BY <1>12, <2>1, <2>2 DEF Store
<1>13. ASSUME NEW t \in Threads, Fetch(t) PROVE TypeOK'
  <2>0. pc[t] = "fetch" /\ op[t].kind \in {"tick", "add", "set", "rm"}
    BY <1>13, CallKinds DEF Fetch, At
  <2>1. pc' \in [Threads -> Stations] /\ op' \in [Threads -> Ops] /\ mutex' \in Threads \cup {Never}
    BY <1>13, Left DEF Fetch
  <2>2. CASE Works /\ Fetched /\ known' = Confirmed(op[t])
    <3>1. known' \subseteq used
      BY <2>0, <2>2 DEF Confirmed, Shape, TypeOK
    <3> QED
      BY <1>13, <2>1, <2>2, <3>1, FetchedIsTable DEF Fetch, Works, TypeOK, IsTable
  <2>3. CASE Fails /\ UNCHANGED <<list, next, known>>
    BY <1>13, <2>1, <2>3 DEF Fetch, Fails, TypeOK, IsTable
  <2> QED
    BY <1>13, <2>2, <2>3 DEF Fetch
<1> QED
  BY <1>1, <1>2, <1>3, <1>4, <1>5, <1>6, <1>7, <1>8, <1>9, <1>10, <1>11, <1>12, <1>13 DEF Next, Begin, Proceed

(* Who has read a row in the timer is alone between the lock and the return:
   the mutex keeps the others out, and who removes a row is the same thread. *)
LEMMA NobodyElse ==
  ASSUME TypeOK, Exclusion, NEW t \in Threads, NEW u \in Threads,
         pc[t] \notin {"idle", "lock"}, pc[u] \notin {"idle", "lock"}, op[u].kind = "tick"
  PROVE  t = u
<1>1. mutex = u /\ op[u].kind \in may[u] /\ op[t].kind \in may[t]
  BY DEF Exclusion, Inside
<1>2. CASE op[t].kind = "rm"
  BY <1>1, <1>2, RmAssumption DEF TypeOK
<1>3. CASE op[t].kind # "rm"
  BY <1>1, <1>3 DEF Exclusion, Inside
<1> QED
  BY <1>2, <1>3

(* What a step does with the mutex. *)
Begins(t) ==
  /\ pc[t] = "idle" /\ pc'[t] \in {"lock", "store"} /\ op'[t].kind \in may[t]
  /\ pc'[t] = "store" => op'[t].kind = "rm"
  /\ UNCHANGED mutex
Locks(t) == pc[t] = "lock" /\ UNCHANGED op /\ mutex = Never /\ mutex' = t
GoesOn(t) == pc[t] \notin {"idle", "lock"} /\ op'[t].kind = op[t].kind /\ UNCHANGED mutex
Returns(t) == pc'[t] = "idle" /\ (mutex' = mutex \/ (mutex = t /\ mutex' = Never))
Stopped == (\A t \in Threads : pc'[t] = "idle" /\ op'[t] = Idle) /\ mutex' = Never

LEMMA StepMoves ==
  ASSUME TypeOK, Exclusion, Shape, [Next]_vars
  PROVE  /\ UNCHANGED may
         /\ \/ UNCHANGED <<pc, op, mutex>>
            \/ Stopped
            \/ \E t \in Threads : Others(t) /\ (Begins(t) \/ Locks(t) \/ GoesOn(t) \/ Returns(t))
<1> DEFINE Goal == /\ UNCHANGED may
                   /\ \/ UNCHANGED <<pc, op, mutex>>
                      \/ Stopped
                      \/ \E t \in Threads : Others(t) /\ (Begins(t) \/ Locks(t) \/ GoesOn(t) \/ Returns(t))
<1> USE DEF Stations
<1>1. ASSUME UNCHANGED vars \/ Pass PROVE Goal
  BY <1>1 DEF vars, Pass
<1>2. ASSUME Restart PROVE Goal
  BY <1>2 DEF Restart, Stopped
<1>3. ASSUME NEW t \in Threads, OnEvent(t) PROVE Goal
  <2>1. [kind |-> "tick", job |-> Never] \in Ops
    BY DEF Ops
  <2>2. pc[t] = "idle" /\ pc'[t] = "lock" /\ op'[t].kind \in may[t] /\ Others(t)
    BY <1>3, <2>1, CallMade DEF OnEvent
  <2> QED
    BY <1>3, <2>2 DEF OnEvent, Begins
<1>4. ASSUME NEW t \in Threads, NEW j \in Jobs, NEW date \in Dates, NEW period \in Periods, Add(t, j, date, period)
      PROVE  Goal
  <2>1. [kind |-> "add", job |-> j, date |-> date, period |-> period] \in Ops
    BY DEF Ops
  <2>2. pc[t] = "idle" /\ pc'[t] = "lock" /\ op'[t].kind \in may[t] /\ Others(t)
    BY <1>4, <2>1, CallMade DEF Add
  <2> QED
    BY <1>4, <2>2 DEF Add, Begins
<1>5. ASSUME NEW t \in Threads, NEW j \in Jobs, NEW date \in Dates, Set(t, j, date) PROVE Goal
  <2>1. [kind |-> "set", job |-> j, date |-> date] \in Ops
    BY DEF Ops
  <2>2. pc[t] = "idle" /\ pc'[t] = "lock" /\ op'[t].kind \in may[t] /\ Others(t)
    BY <1>5, <2>1, CallMade DEF Set
  <2> QED
    BY <1>5, <2>2 DEF Set, Begins
<1>6. ASSUME NEW t \in Threads, NEW j \in Jobs, Rm(t, j) PROVE Goal
  <2>1. [kind |-> "rm", job |-> j] \in Ops
    BY DEF Ops
  <2>2. pc[t] = "idle" /\ pc'[t] = "store" /\ op'[t].kind = "rm" /\ "rm" \in may[t] /\ Others(t)
    BY <1>6, <2>1, CallMade DEF Rm
  <2> QED
    BY <1>6, <2>2 DEF Rm, Begins
<1>7. ASSUME NEW t \in Threads, Lock(t) PROVE Goal
  <2>1. pc[t] = "lock" /\ Others(t)
    BY <1>7 DEF Lock, At, Goto, Others, TypeOK
  <2> QED
    BY <1>7, <2>1 DEF Lock, Locks
<1>8. ASSUME NEW t \in Threads, Leave(t), UNCHANGED may PROVE Goal
  BY <1>8, Left DEF Returns
<1>9. ASSUME NEW t \in Threads, NEW place \in Stations, Goto(t, place), UNCHANGED <<may, op, mutex>>,
             pc[t] \notin {"idle", "lock"}
      PROVE  Goal
  BY <1>9, GoneTo DEF GoesOn
<1>10. ASSUME NEW t \in Threads, FirstFetch(t) PROVE Goal
  BY <1>8, <1>9, <1>10 DEF FirstFetch, At
<1>11. ASSUME NEW t \in Threads, Due(t) PROVE Goal
  <2>1. CASE next # Never /\ list[next].date <= now
    <3>1. Others(t) /\ op'[t].kind = "tick"
      BY <1>11, <2>1 DEF Due, Goto, Others, TypeOK
    <3>2. op[t].kind = "tick"
      BY <1>11, CallKinds DEF Due, At, Shape
    <3> QED
      BY <1>11, <2>1, <3>1, <3>2 DEF Due, At, GoesOn
  <2> QED
    BY <1>8, <1>11, <2>1 DEF Due
<1>12. ASSUME NEW t \in Threads, EventRun(t) PROVE Goal
  <2>1. Others(t) /\ op'[t].kind = op[t].kind
    BY <1>12 DEF EventRun, Goto, Others, TypeOK, Ops
  <2> QED
    BY <1>12, <2>1 DEF EventRun, At, GoesOn
<1>13. ASSUME NEW t \in Threads, Store(t) PROVE Goal
  BY <1>8, <1>9, <1>13 DEF Store, At
<1>14. ASSUME NEW t \in Threads, Fetch(t) PROVE Goal
  BY <1>8, <1>14 DEF Fetch
<1> QED
  BY <1>1, <1>2, <1>3, <1>4, <1>5, <1>6, <1>7, <1>10, <1>11, <1>12, <1>13, <1>14 DEF Next, Begin, Proceed

LEMMA ExclusionKept ==
  ASSUME TypeOK, Exclusion, Shape, [Next]_vars
  PROVE  Exclusion'
<1>1. UNCHANGED may /\ Never \notin Threads
  BY StepMoves, NeverAssumption
<1>2. ASSUME UNCHANGED <<pc, op, mutex>> PROVE Exclusion'
  BY <1>1, <1>2 DEF Exclusion, Inside
<1>3. ASSUME Stopped PROVE Exclusion'
  BY <1>3 DEF Stopped, Exclusion, Inside
<1>4. ASSUME NEW t \in Threads, Others(t), Begins(t) PROVE Exclusion'
  BY <1>1, <1>4 DEF Others, Begins, Exclusion, Inside
<1>5. ASSUME NEW t \in Threads, Others(t), Locks(t) PROVE Exclusion'
  BY <1>1, <1>5 DEF Others, Locks, Exclusion, Inside
<1>6. ASSUME NEW t \in Threads, Others(t), GoesOn(t) PROVE Exclusion'
  BY <1>1, <1>6 DEF Others, GoesOn, Exclusion, Inside
<1>7. ASSUME NEW t \in Threads, Others(t), Returns(t) PROVE Exclusion'
  BY <1>1, <1>7 DEF Others, Returns, Exclusion, Inside
<1> QED
  BY <1>2, <1>3, <1>4, <1>5, <1>6, <1>7, StepMoves

-----------------------------------------------------------------------------
(* Where a call may be: per thread. *)

ShapeOf(t) ==
  /\ op[t].kind \in {"add", "set", "rm"} => op[t].job \in used /\ pc[t] \in {"lock", "store", "fetch"}
  /\ op[t].kind = "tick" /\ pc[t] = "due" => list # Never
  /\ Carries(t) => op[t].job \in Jobs
  /\ Carries(t) /\ pc[t] \in {"call", "store"} => InList(op[t].job)
  /\ Carries(t) /\ pc[t] # "call" => lastRun[op[t].job] = op[t].clock
  /\ Carries(t) /\ pc[t] = "store" =>
       op[t].result # "CONTINUE" /\ (op[t].result = "NONE" => list[op[t].job].period # 0)

(* A thread that does not move keeps its shape when the copy and the clock
   reads stay, and also when another thread goes on inside the lock. *)
LEMMA ShapeOfOther ==
  ASSUME TypeOK, Exclusion, Shape, NEW t \in Threads, NEW u \in Threads \ {t}, Others(t), used \subseteq used',
         pc[t] \notin {"idle", "lock"} \/ UNCHANGED <<list, lastRun>>
  PROVE  ShapeOf(u)'
<1>1. pc'[u] = pc[u] /\ op'[u] = op[u]
  BY DEF Others
<1>2. CASE UNCHANGED <<list, lastRun>>
  BY <1>1, <1>2 DEF Shape, ShapeOf, Carries, InList
<1>3. CASE pc[t] \notin {"idle", "lock"}
  <2>1. op[u].kind # "tick" \/ pc[u] \in {"idle", "lock"}
    BY <1>3, NobodyElse
  <2> QED
    BY <1>1, <2>1 DEF Shape, ShapeOf, Carries
<1> QED
  BY <1>2, <1>3

LEMMA ShapeOfIdle ==
  ASSUME NEW t \in Threads, op[t] = Idle
  PROVE  ShapeOf(t)
  BY DEF ShapeOf, Carries, Idle

LEMMA ShapeKept ==
  ASSUME TypeOK, Exclusion, Shape, [Next]_vars
  PROVE  Shape'
<1> USE DEF Stations
<1>0. TypeOK'
  BY TypesKept
<1>a. ASSUME \A u \in Threads : ShapeOf(u)' PROVE Shape'
  BY <1>a DEF Shape, ShapeOf
<1>b. ASSUME NEW t \in Threads, Others(t), ShapeOf(t)', used \subseteq used',
             pc[t] \notin {"idle", "lock"} \/ UNCHANGED <<list, lastRun>>
      PROVE  Shape'
  BY <1>a, <1>b, ShapeOfOther
<1>c. ASSUME NEW t \in Threads, Leave(t), UNCHANGED used, pc[t] \notin {"idle", "lock"} PROVE Shape'
  <2>1. Others(t) /\ op'[t] = Idle
    BY <1>c, Left
  <2>2. ShapeOf(t)'
    BY <2>1, ShapeOfIdle DEF ShapeOf, Carries, Idle
  <2> QED
    BY <1>b, <1>c, <2>1, <2>2
<1>1. ASSUME UNCHANGED vars \/ Pass PROVE Shape'
  BY <1>1 DEF vars, Pass, shared, counted, Shape, Carries, InList
<1>2. ASSUME Restart PROVE Shape'
  BY <1>2 DEF Restart, Shape, Carries, Idle
<1>3. ASSUME NEW t \in Threads, OnEvent(t) PROVE Shape'
  <2>1. [kind |-> "tick", job |-> Never] \in Ops
    BY DEF Ops
  <2>2. pc'[t] = "lock" /\ op'[t].kind = "tick" /\ Others(t)
    BY <1>3, <2>1, CallMade DEF OnEvent
  <2>3. ShapeOf(t)'
    BY <2>2 DEF ShapeOf, Carries
  <2> QED
    BY <1>b, <1>3, <2>2, <2>3 DEF OnEvent, shared, counted
<1>4. ASSUME NEW t \in Threads, NEW j \in Jobs, NEW date \in Dates, NEW period \in Periods, Add(t, j, date, period)
      PROVE  Shape'
  <2>1. [kind |-> "add", job |-> j, date |-> date, period |-> period] \in Ops
    BY DEF Ops
  <2>2. pc'[t] = "lock" /\ op'[t].kind = "add" /\ op'[t].job = j /\ Others(t)
    BY <1>4, <2>1, CallMade DEF Add
  <2>3. ShapeOf(t)'
    BY <1>4, <2>2 DEF Add, ShapeOf, Carries
  <2> QED
    BY <1>b, <1>4, <2>2, <2>3 DEF Add, shared
<1>5. ASSUME NEW t \in Threads, NEW j \in Jobs, NEW date \in Dates, Set(t, j, date) PROVE Shape'
  <2>1. [kind |-> "set", job |-> j, date |-> date] \in Ops
    BY DEF Ops
  <2>2. pc'[t] = "lock" /\ op'[t].kind = "set" /\ op'[t].job = j /\ Others(t)
    BY <1>5, <2>1, CallMade DEF Set
  <2>3. j \in used
    BY <1>5 DEF Set, TypeOK
  <2>4. ShapeOf(t)'
    BY <1>5, <2>2, <2>3 DEF Set, ShapeOf, Carries
  <2> QED
    BY <1>b, <1>5, <2>2, <2>4 DEF Set, shared
<1>6. ASSUME NEW t \in Threads, NEW j \in Jobs, Rm(t, j) PROVE Shape'
  <2>1. [kind |-> "rm", job |-> j] \in Ops
    BY DEF Ops
  <2>2. pc'[t] = "store" /\ op'[t].kind = "rm" /\ op'[t].job = j /\ Others(t)
    BY <1>6, <2>1, CallMade DEF Rm
  <2>3. j \in used
    BY <1>6 DEF Rm, TypeOK
  <2>4. ShapeOf(t)'
    BY <1>6, <2>2, <2>3 DEF Rm, counted, ShapeOf, Carries
  <2> QED
    BY <1>b, <1>6, <2>2, <2>4 DEF Rm, shared, counted
<1>7. ASSUME NEW t \in Threads, Lock(t) PROVE Shape'
  <2>0. pc[t] = "lock" /\ op[t].kind \in {"tick", "add", "set", "rm"}
    BY <1>7, CallKinds DEF Lock, At
  <2>1. PICK place : place = IF op[t].kind # "tick" THEN "store" ELSE IF list = Never THEN "first" ELSE "due"
    OBVIOUS
  <2>2. pc'[t] = place /\ op'[t] = op[t] /\ Others(t)
    BY <1>7, <2>1, GoneTo DEF Lock
  <2>3. ShapeOf(t)'
    BY <1>7, <2>0, <2>1, <2>2 DEF Lock, shared, counted, Shape, ShapeOf, Carries
  <2> QED
    BY <1>b, <1>7, <2>2, <2>3 DEF Lock, shared, counted
<1>8. ASSUME NEW t \in Threads, FirstFetch(t) PROVE Shape'
  <2>0. pc[t] = "first" /\ op[t].kind \in {"tick", "add", "set", "rm"} /\ UNCHANGED used
    BY <1>8, CallKinds DEF FirstFetch, At, counted
  <2>1. CASE Works /\ Fetched /\ Goto(t, "due") /\ UNCHANGED <<mutex, op>>
    <3>1. pc'[t] = "due" /\ op'[t] = op[t] /\ Others(t) /\ list' # Never
      BY <2>1, GoneTo, FetchedIsTable
    <3>2. ShapeOf(t)'
      BY <2>0, <3>1 DEF Shape, ShapeOf, Carries
    <3> QED
      BY <1>b, <2>0, <3>1, <3>2
  <2> QED
    BY <1>c, <1>8, <2>0, <2>1 DEF FirstFetch
<1>9. ASSUME NEW t \in Threads, Due(t) PROVE Shape'
  <2>0. pc[t] = "due" /\ op[t].kind \in {"tick", "add", "set", "rm"} /\ UNCHANGED <<used, list, lastRun>>
    BY <1>9, CallKinds DEF Due, At, shared, counted
  <2>1. CASE next # Never /\ list[next].date <= now
    <3>1. pc'[t] = "call" /\ op'[t] = [kind |-> "tick", job |-> next, clock |-> now, result |-> "NONE"] /\ Others(t)
      BY <1>9, <2>1 DEF Due, Goto, Others, TypeOK
    <3>2. next \in Jobs /\ InList(next)
      BY <2>1 DEF TypeOK, IsTable, InList
    <3>3. ShapeOf(t)'
      BY <2>0, <3>1, <3>2 DEF ShapeOf, Carries, InList
    <3> QED
      BY <1>b, <2>0, <3>1, <3>3
  <2> QED
    BY <1>c, <1>9, <2>0, <2>1 DEF Due
<1>10. ASSUME NEW t \in Threads, EventRun(t) PROVE Shape'
  <2>0. pc[t] = "call" /\ op[t].kind \in {"tick", "add", "set", "rm"} /\ UNCHANGED <<used, list>>
    BY <1>10, CallKinds DEF EventRun, At, shared
  <2>1. op[t].kind = "tick" /\ op[t].job \in Jobs /\ InList(op[t].job)
    BY <2>0 DEF Shape, Carries
  <2>2. PICK res \in Results(op[t].job) :
          /\ op' = [op EXCEPT ![t].result = res]
          /\ Goto(t, IF res = "CONTINUE" THEN "fetch" ELSE "store")
          /\ lastRun' = [lastRun EXCEPT ![op[t].job] = op[t].clock]
    BY <1>10 DEF EventRun
  <2>3. res \in {"EOF", "NONE", "CONTINUE"} /\ (res = "NONE" => list[op[t].job].period # 0)
    BY <2>2 DEF Results
  <2>4. op[t] \in [kind : {"tick"}, job : Jobs, clock : Nat, result : {"EOF", "NONE", "CONTINUE"}]
    BY <2>1, OpTypes
  <2>5. /\ op'[t].kind = "tick" /\ op'[t].job = op[t].job /\ op'[t].clock = op[t].clock /\ op'[t].result = res
        /\ pc'[t] = (IF res = "CONTINUE" THEN "fetch" ELSE "store") /\ Others(t)
    BY <2>2, <2>4 DEF Goto, Others, TypeOK
  <2>6. lastRun'[op[t].job] = op[t].clock
    BY <2>1, <2>2 DEF TypeOK
  <2>7. ShapeOf(t)'
    BY <2>0, <2>1, <2>3, <2>5, <2>6 DEF ShapeOf, Carries, InList
  <2> QED
    BY <1>b, <2>0, <2>5, <2>7
<1>11. ASSUME NEW t \in Threads, Store(t) PROVE Shape'
  <2>0. pc[t] = "store" /\ op[t].kind \in {"tick", "add", "set", "rm"} /\ UNCHANGED <<used, list>>
    BY <1>11, CallKinds DEF Store, At
  <2>1. ASSUME Goto(t, "fetch"), UNCHANGED op, op[t].kind = "tick" => UNCHANGED lastRun PROVE Shape'
    <3>1. pc'[t] = "fetch" /\ op'[t] = op[t] /\ Others(t)
      BY <2>1, GoneTo
    <3>2. ShapeOf(t)'
      BY <2>0, <2>1, <3>1 DEF Shape, ShapeOf, Carries
    <3> QED
      BY <1>b, <2>0, <3>1, <3>2
  <2> QED
    BY <1>c, <1>11, <2>0, <2>1 DEF Store
<1>12. ASSUME NEW t \in Threads, Fetch(t) PROVE Shape'
  BY <1>c, <1>12 DEF Fetch, At
<1> QED
  BY <1>1, <1>2, <1>3, <1>4, <1>5, <1>6, <1>7, <1>8, <1>9, <1>10, <1>11, <1>12 DEF Next, Begin, Proceed

-----------------------------------------------------------------------------
(* Rows that are not written yet. *)

LEMMA FreshKept ==
  ASSUME TypeOK, Exclusion, Shape, Unknown, [Next]_vars
  PROVE  Unknown'
<1> USE DEF Stations
<1>a. ASSUME NEW t \in Threads, Others(t), UNCHANGED used, Adding(t)' => Adding(t) /\ op'[t] = op[t],
             \A j \in Jobs : Blank(j) => Blank(j)' \/ (Adding(t) /\ ~ Adding(t)' /\ j = op[t].job)
      PROVE  Unknown'
  <2>1. \A u \in Threads : Adding(u)' => Adding(u) /\ op'[u] = op[u]
    BY <1>a DEF Others, Adding
  <2>2. \A u \in Threads : Adding(u) => op[u].job \in used /\ op[u].job \in Jobs
    BY DEF Adding, Shape, TypeOK
  <2>3. \A j \in Jobs \ used' : Blank(j)'
    BY <1>a, <2>2 DEF Unknown
  <2>4. \A u \in Threads : Adding(u)' => Blank(op[u].job)'
    BY <1>a, <2>1, <2>2 DEF Unknown
  <2> QED
    BY <2>1, <2>3, <2>4 DEF Unknown
<1>b. ASSUME UNCHANGED <<rows, list, lastRun>> PROVE \A j \in Jobs : Blank(j) => Blank(j)'
  BY <1>b DEF Blank, InList
<1>c. ASSUME NEW t \in Threads, Leave(t), UNCHANGED <<used, rows, lastRun>>, UNCHANGED list \/ list' = rows
      PROVE  Unknown'
  <2>1. Others(t) /\ pc'[t] = "idle"
    BY <1>c, Left
  <2>2. \A j \in Jobs : Blank(j) => Blank(j)'
    BY <1>c DEF Blank, InList
  <2> QED
    BY <1>a, <1>c, <2>1, <2>2 DEF Adding
<1>1. ASSUME UNCHANGED vars \/ Pass PROVE Unknown'
  BY <1>1 DEF vars, Pass, shared, counted, Unknown, Adding, Blank, InList
<1>2. ASSUME Restart PROVE Unknown'
  <2>1. \A t \in Threads : ~ Adding(t)'
    BY <1>2 DEF Restart, Adding
  <2>2. \A j \in Jobs \ used : Blank(j)'
    BY <1>2 DEF Restart, counted, Unknown, Blank, InList
  <2> QED
    BY <1>2, <2>1, <2>2 DEF Restart, counted, Unknown
<1>3. ASSUME NEW t \in Threads, OnEvent(t) PROVE Unknown'
  <2>1. [kind |-> "tick", job |-> Never] \in Ops
    BY DEF Ops
  <2>2. op'[t].kind = "tick" /\ Others(t)
    BY <1>3, <2>1, CallMade DEF OnEvent
  <2> QED
    BY <1>a, <1>b, <1>3, <2>2 DEF OnEvent, shared, counted, Adding
<1>4. ASSUME NEW t \in Threads, NEW j \in Jobs, NEW date \in Dates, NEW period \in Periods, Add(t, j, date, period)
      PROVE  Unknown'
  <2>1. [kind |-> "add", job |-> j, date |-> date, period |-> period] \in Ops
    BY DEF Ops
  <2>2. op'[t].job = j /\ Others(t) /\ j \notin used /\ used' = used \cup {j} /\ UNCHANGED <<rows, list, lastRun>>
    BY <1>4, <2>1, CallMade DEF Add, shared
  <2>3. \A u \in Threads \ {t} : Adding(u)' => Adding(u) /\ op'[u] = op[u]
    BY <2>2 DEF Others, Adding
  <2>4. \A u \in Threads : Adding(u) => op[u].job \in used
    BY DEF Adding, Shape
  <2>5. Blank(j)' /\ \A i \in Jobs : Blank(i) => Blank(i)'
    BY <1>b, <2>2 DEF Unknown, Blank, InList
  <2>6. \A i \in Jobs \ used' : Blank(i)'
    BY <2>2, <2>5 DEF Unknown
  <2>7. \A u \in Threads : Adding(u)' => Blank(op[u].job)'
    BY <2>2, <2>3, <2>4, <2>5 DEF Unknown, TypeOK
  <2>8. \A u, v \in Threads : Adding(u)' /\ Adding(v)' /\ op'[u].job = op'[v].job => u = v
    BY <2>2, <2>3, <2>4 DEF Unknown
  <2> QED
    BY <2>6, <2>7, <2>8 DEF Unknown
<1>5. ASSUME NEW t \in Threads, NEW j \in Jobs, NEW date \in Dates, Set(t, j, date) PROVE Unknown'
  <2>1. [kind |-> "set", job |-> j, date |-> date] \in Ops
    BY DEF Ops
  <2>2. op'[t].kind = "set" /\ Others(t)
    BY <1>5, <2>1, CallMade DEF Set
  <2> QED
    BY <1>a, <1>b, <1>5, <2>2 DEF Set, shared, Adding
<1>6. ASSUME NEW t \in Threads, NEW j \in Jobs, Rm(t, j) PROVE Unknown'
  <2>1. [kind |-> "rm", job |-> j] \in Ops
    BY DEF Ops
  <2>2. op'[t].kind = "rm" /\ Others(t)
    BY <1>6, <2>1, CallMade DEF Rm
  <2> QED
    BY <1>a, <1>b, <1>6, <2>2 DEF Rm, shared, counted, Adding
<1>7. ASSUME NEW t \in Threads, Lock(t) PROVE Unknown'
  <2>1. op'[t] = op[t] /\ Others(t) /\ pc[t] = "lock"
    BY <1>7 DEF Lock, At, Goto, Others, TypeOK
  <2> QED
    BY <1>a, <1>b, <1>7, <2>1 DEF Lock, shared, counted, Adding
<1>8. ASSUME NEW t \in Threads, FirstFetch(t) PROVE Unknown'
  <2>1. CASE Works /\ Fetched /\ Goto(t, "due") /\ UNCHANGED <<mutex, op>>
    <3>1. pc'[t] = "due" /\ Others(t) /\ list' = rows
      BY <2>1, GoneTo, FetchedIsTable
    <3>2. \A j \in Jobs : Blank(j) => Blank(j)'
      BY <1>8, <3>1 DEF FirstFetch, counted, Blank, InList
    <3> QED
      BY <1>a, <1>8, <3>1, <3>2 DEF FirstFetch, counted, Adding
  <2> QED
    BY <1>c, <1>8, <2>1 DEF FirstFetch, counted
<1>9. ASSUME NEW t \in Threads, Due(t) PROVE Unknown'
  <2>1. CASE next # Never /\ list[next].date <= now
    <3>1. op'[t].kind = "tick" /\ pc'[t] = "call" /\ Others(t)
      BY <1>9, <2>1 DEF Due, Goto, Others, TypeOK
    <3> QED
      BY <1>a, <1>b, <1>9, <3>1 DEF Due, shared, counted, Adding
  <2> QED
    BY <1>c, <1>9, <2>1 DEF Due, shared, counted
<1>10. ASSUME NEW t \in Threads, EventRun(t) PROVE Unknown'
  <2>1. pc[t] = "call" /\ op[t].kind = "tick" /\ InList(op[t].job)
    BY <1>10, CallKinds DEF EventRun, At, Shape, Carries
  <2>2. \A j \in Jobs : Blank(j) => Blank(j)'
    BY <1>10, <2>1 DEF EventRun, shared, Blank, InList, TypeOK
  <2>3. Others(t) /\ op'[t].kind = "tick"
    BY <1>10, <2>1 DEF EventRun, Goto, Others, TypeOK, Ops
  <2> QED
    BY <1>a, <1>10, <2>2, <2>3 DEF EventRun, Adding
<1>11. ASSUME NEW t \in Threads, Store(t) PROVE Unknown'
  <2>0. pc[t] = "store"
    BY <1>11 DEF Store, At
  <2>1. ASSUME Works, rows' = Written(op[t]), Goto(t, "fetch"), UNCHANGED <<op, mutex>>,
               lastRun' = IF op[t].kind = "set" THEN [lastRun EXCEPT ![op[t].job] = -1] ELSE lastRun
        PROVE  Unknown'
    <3>1. pc'[t] = "fetch" /\ op'[t] = op[t] /\ Others(t)
      BY <2>1, GoneTo
    <3>2. /\ DOMAIN rows' \subseteq DOMAIN rows \cup {op[t].job}
          /\ op[t].kind # "add" => DOMAIN rows' \subseteq DOMAIN rows
      BY <2>0, <2>1, WriteOfOne
    <3>3. \A j \in Jobs : lastRun[j] = -1 => lastRun'[j] = -1
      BY <2>1 DEF TypeOK
    <3>4. \A j \in Jobs : Blank(j) => Blank(j)' \/ (Adding(t) /\ j = op[t].job)
      BY <1>11, <2>0, <3>2, <3>3 DEF Store, Blank, InList, Adding
    <3> QED
      BY <1>a, <1>11, <3>1, <3>4 DEF Store, Adding
  <2>2. CASE Fails /\ UNCHANGED <<rows, known, lastRun>> /\ Goto(t, "fetch") /\ UNCHANGED <<op, mutex>>
    <3>1. pc'[t] = "fetch" /\ op'[t] = op[t] /\ Others(t)
      BY <2>2, GoneTo
    <3> QED
      BY <1>a, <1>b, <1>11, <2>2, <3>1 DEF Store, Adding
  <2> QED
    BY <1>c, <1>11, <2>1, <2>2 DEF Store
<1>12. ASSUME NEW t \in Threads, Fetch(t) PROVE Unknown'
  BY <1>c, <1>12 DEF Fetch, Fetched
<1> QED
  BY <1>1, <1>2, <1>3, <1>4, <1>5, <1>6, <1>7, <1>8, <1>9, <1>10, <1>11, <1>12 DEF Next, Begin, Proceed

-----------------------------------------------------------------------------
(* The books. *)

(* One more is owed and one more reason is there, or one less is owed and one
   run was repeated, or neither. *)
LEMMA Balance ==
  ASSUME NEW S, NEW R, NEW j, IsFiniteSet(R),
         NEW r \in Nat, NEW r2 \in Nat, NEW n \in Nat, NEW n2 \in Nat, r + Cardinality(R) <= n,
         \/ S \subseteq R /\ r2 = r /\ n <= n2
         \/ S \subseteq R \cup {j} /\ r2 = r /\ n + 1 <= n2
         \/ S \subseteq R \ {j} /\ j \in R /\ r2 = r + 1 /\ n <= n2
         \/ S \subseteq R /\ r2 = r + 1 /\ n + 1 <= n2
  PROVE  IsFiniteSet(S) /\ r2 + Cardinality(S) <= n2
<1>1. Cardinality(R) \in Nat
  BY FS_CardinalityType
<1>2. ASSUME S \subseteq R PROVE IsFiniteSet(S) /\ Cardinality(S) \in Nat /\ Cardinality(S) <= Cardinality(R)
  BY <1>2, FS_Subset, FS_CardinalityType
<1>3. ASSUME S \subseteq R \cup {j}
      PROVE  IsFiniteSet(S) /\ Cardinality(S) \in Nat /\ Cardinality(S) <= Cardinality(R) + 1
  <2>1. /\ IsFiniteSet(R \cup {j})
        /\ Cardinality(R \cup {j}) = IF j \in R THEN Cardinality(R) ELSE Cardinality(R) + 1
    BY FS_AddElement
  <2>2. IsFiniteSet(S) /\ Cardinality(S) <= Cardinality(R \cup {j}) /\ Cardinality(S) \in Nat
    BY <1>3, <2>1, FS_Subset, FS_CardinalityType
  <2> QED
    BY <1>1, <2>1, <2>2
<1>4. ASSUME S \subseteq R \ {j}, j \in R
      PROVE  IsFiniteSet(S) /\ Cardinality(S) \in Nat /\ Cardinality(S) <= Cardinality(R) - 1
  <2>1. IsFiniteSet(R \ {j}) /\ Cardinality(R \ {j}) = Cardinality(R) - 1
    BY <1>4, FS_RemoveElement
  <2>2. IsFiniteSet(S) /\ Cardinality(S) <= Cardinality(R \ {j}) /\ Cardinality(S) \in Nat
    BY <1>4, <2>1, FS_Subset, FS_CardinalityType
  <2> QED
    BY <2>1, <2>2
<1> QED
  BY <1>1, <1>2, <1>3, <1>4

LEMMA Balanced ==
  ASSUME TypeOK, TypeOK', Owing, NEW j,
         \/ Owed' \subseteq Owed /\ repeats' = repeats /\ continues + faults <= continues' + faults'
         \/ Owed' \subseteq Owed \cup {j} /\ repeats' = repeats /\ continues + faults + 1 <= continues' + faults'
         \/ Owed' \subseteq Owed \ {j} /\ j \in Owed /\ repeats' = repeats + 1 /\ continues + faults <= continues' + faults'
         \/ Owed' \subseteq Owed /\ repeats' = repeats + 1 /\ continues + faults + 1 <= continues' + faults'
  PROVE  Owing'
<1>1. repeats \in Nat /\ repeats' \in Nat /\ continues + faults \in Nat /\ continues' + faults' \in Nat
  BY DEF TypeOK
<1> QED
  BY <1>1, Balance DEF Owing

(* What a thread corrects stays so while the thread does not move. *)
LEMMA CorrectsOfOther ==
  ASSUME NEW t \in Threads, Others(t), NEW u \in Threads \ {t}, NEW j
  PROVE  (Corrects(u, j)' <=> Corrects(u, j)) /\ pc'[u] = pc[u]
  BY DEF Others, Corrects, Carries

(* A step that leaves the table, the copy and the runs alone: nothing is owed
   but what the thread stops correcting. *)
LEMMA OwedUnchanged ==
  ASSUME NEW t \in Threads, Others(t), UNCHANGED <<rows, list, lastRun>>
  PROVE  /\ Owed' \subseteq Owed \cup {op[t].job}
         /\ op[t].kind # "tick" \/ pc[t] \notin {"store", "fetch"} => Owed' \subseteq Owed
<1>1. ASSUME NEW j \in Jobs, j \in Owed', j \notin Owed PROVE Corrects(t, j)
  <2>1. \A u \in Threads \ {t} : (Corrects(u, j)' <=> Corrects(u, j)) /\ pc'[u] = pc[u]
    BY CorrectsOfOther
  <2>2. RowAhead(j) => RowAhead(j)' \/ Corrects(t, j)
    BY <2>1 DEF RowAhead
  <2>3. ReadAhead(j) => ReadAhead(j)' \/ Corrects(t, j)
    BY <2>1 DEF ReadAhead
  <2> QED
    BY <1>1, <2>2, <2>3 DEF Owed, OwedByRow, OwedByList, InList
<1>2. \A j : Corrects(t, j) => j = op[t].job /\ op[t].kind = "tick" /\ pc[t] \in {"store", "fetch"}
  BY DEF Corrects, Carries
<1>3. Owed \subseteq Jobs /\ Owed' \subseteq Jobs
  BY DEF Owed
<1> QED
  BY <1>1, <1>2, <1>3

(* A read pays the copy off: what it owes then is what the table owed. *)
LEMMA OwedAfterRead ==
  ASSUME TypeOK, Exclusion, NEW t \in Threads, pc[t] \in {"first", "fetch"}, Others(t),
         list' = rows, UNCHANGED <<rows, lastRun>>
  PROVE  Owed' \subseteq Owed
<1>1. ASSUME NEW j \in Jobs PROVE ~ RowAhead(j)
  BY NobodyElse DEF RowAhead, Corrects, Carries
<1> QED
  BY <1>1 DEF Owed, OwedByRow, OwedByList, InList

LEMMA OwedAfterWrite ==
  ASSUME TypeOK, TypeOK', Exclusion, Shape, Unknown, NEW t \in Threads, pc[t] = "store", pc'[t] = "fetch", Others(t),
         rows' = Written(op[t]), UNCHANGED <<list, op>>,
         lastRun' = IF op[t].kind = "set" THEN [lastRun EXCEPT ![op[t].job] = -1] ELSE lastRun
  PROVE  Owed' \subseteq Owed
<1> DEFINE j == op[t].job
<1>1. /\ j \in Jobs
      /\ op[t].kind # "add" => DOMAIN rows' \subseteq DOMAIN rows
      /\ DOMAIN rows' \subseteq DOMAIN rows \cup {j}
      /\ \A k \in DOMAIN rows' : k # j => rows'[k] = rows[k]
      /\ op[t].kind = "tick" /\ j \in DOMAIN rows' => rows'[j].date > op[t].clock
  BY WriteOfOne
<1>2. \A k \in Jobs : k # j => lastRun'[k] = lastRun[k]
  BY DEF TypeOK
<1>3. \A k \in Jobs : Corrects(t, k)' <=> Corrects(t, k)
  BY DEF Corrects, Carries
<1>4. \A u \in Threads \ {t} : \A k \in Jobs : (Corrects(u, k)' <=> Corrects(u, k)) /\ pc'[u] = pc[u]
  BY CorrectsOfOther
<1>5. \A k \in Jobs : (ReadAhead(k)' <=> ReadAhead(k))
  BY <1>3, <1>4 DEF ReadAhead
<1>6. \A k \in Jobs : RowAhead(k) => RowAhead(k)' \/ (k = j /\ op[t].kind = "tick")
  BY <1>4 DEF RowAhead, Corrects, Carries
<1>7. ASSUME NEW k \in Jobs, k # j, k \in Owed' PROVE k \in Owed
  BY <1>1, <1>2, <1>5, <1>6, <1>7 DEF Owed, OwedByRow, OwedByList, InList
<1>8. ASSUME j \in Owed' PROVE j \in Owed
  <2>1. j \in DOMAIN rows' => rows'[j].date \in Nat
    BY RowTypes DEF TypeOK, IsTable
  <2>2. InList(j)' => list'[j].date \in Nat
    BY DEF TypeOK, IsTable, InList
  <2>3. ASSUME lastRun'[j] = -1 PROVE FALSE
    BY <1>8, <2>1, <2>2, <2>3 DEF Owed, OwedByRow, OwedByList
  <2>4. CASE op[t].kind = "set"
    BY <1>1, <2>3, <2>4 DEF TypeOK
  <2>5. CASE op[t].kind = "add"
    <3>1. lastRun[j] = -1
      BY <2>5 DEF Unknown, Adding, Blank
    <3> QED
      BY <2>3, <2>5, <3>1
  <2>6. CASE op[t].kind = "rm"
    <3>1. Written(op[t]) = Without(j)
      BY <2>6 DEF Written
    <3>2. j \notin DOMAIN rows'
      BY <3>1, WithoutIsTable
    <3> QED
      BY <1>5, <1>8, <2>6, <3>2 DEF Owed, OwedByRow, OwedByList, InList
  <2>7. CASE op[t].kind = "tick"
    <3>1. ReadAhead(j)
      BY <2>7 DEF ReadAhead, Corrects, Carries, Shape
    <3>2. lastRun'[j] = op[t].clock /\ op[t].clock \in Nat
      BY <1>1, <2>7, OpTypes DEF Shape, Carries
    <3>3. ~ OwedByRow(j)'
      BY <1>1, <2>1, <2>7, <3>2 DEF OwedByRow
    <3> QED
      BY <1>5, <1>8, <3>1, <3>3 DEF Owed, OwedByList
  <2> QED
    BY <2>4, <2>5, <2>6, <2>7, CallKinds
<1> QED
  BY <1>7, <1>8 DEF Owed

LEMMA OwingKept ==
  ASSUME TypeOK, Exclusion, Shape, Unknown, Owing, [Next]_vars
  PROVE  Owing'
<1> USE DEF Stations
<1>0. TypeOK'
  BY TypesKept
<1>n. continues \in Nat /\ faults \in Nat
  BY DEF TypeOK
<1>a. ASSUME NEW t \in Threads, Others(t), UNCHANGED <<rows, list, lastRun, repeats, continues>>,
             \/ faults' = faults /\ (op[t].kind # "tick" \/ pc[t] \notin {"store", "fetch"})
             \/ faults' = faults + 1
      PROVE  Owing'
  <2>1. \/ Owed' \subseteq Owed /\ faults' = faults
        \/ Owed' \subseteq Owed \cup {op[t].job} /\ faults' = faults + 1
    BY <1>a, OwedUnchanged
  <2> QED
    BY <1>0, <1>n, <1>a, <2>1, Balanced
<1>b. ASSUME Owed' \subseteq Owed, UNCHANGED <<repeats, continues, faults>> PROVE Owing'
  BY <1>0, <1>n, <1>b, Balanced
<1>1. ASSUME UNCHANGED vars \/ Pass PROVE Owing'
  <2>1. Owed' \subseteq Owed
    BY <1>1 DEF vars, Pass, shared, counted, Owed, OwedByRow, OwedByList, RowAhead, ReadAhead, Corrects,
       Carries, InList
  <2> QED
    BY <1>1, <1>b, <2>1 DEF vars, Pass, counted
<1>2. ASSUME Restart PROVE Owing'
  <2>1. UNCHANGED <<rows, lastRun, repeats, continues>> /\ faults' = faults + 1 /\ list' = Never
    BY <1>2 DEF Restart, Fails, counted
  <2>2. ASSUME NEW k \in Jobs, k \in Owed' PROVE k \in Owed \/ RowAhead(k)
    BY <2>1, <2>2 DEF Owed, OwedByRow, OwedByList, InList
  <2>3. ASSUME NEW k \in Jobs, NEW i \in Jobs, RowAhead(k), RowAhead(i) PROVE k = i
    BY <2>3, NobodyElse DEF RowAhead, Corrects, Carries
  <2>4. Owed' \subseteq Jobs
    BY DEF Owed
  <2>5. \E j : Owed' \subseteq Owed \cup {j}
    BY <2>2, <2>3, <2>4
  <2> QED
    BY <1>0, <1>n, <2>1, <2>5, Balanced
<1>3. ASSUME NEW t \in Threads, OnEvent(t) PROVE Owing'
  <2>1. [kind |-> "tick", job |-> Never] \in Ops
    BY DEF Ops
  <2>2. pc[t] = "idle" /\ Others(t)
    BY <1>3, <2>1, CallMade DEF OnEvent
  <2> QED
    BY <1>3, <1>a, <2>2 DEF OnEvent, shared, counted
<1>4. ASSUME NEW t \in Threads, NEW j \in Jobs, NEW date \in Dates, NEW period \in Periods, Add(t, j, date, period)
      PROVE  Owing'
  <2>1. [kind |-> "add", job |-> j, date |-> date, period |-> period] \in Ops
    BY DEF Ops
  <2>2. pc[t] = "idle" /\ Others(t)
    BY <1>4, <2>1, CallMade DEF Add
  <2> QED
    BY <1>4, <1>a, <2>2 DEF Add, shared
<1>5. ASSUME NEW t \in Threads, NEW j \in Jobs, NEW date \in Dates, Set(t, j, date) PROVE Owing'
  <2>1. [kind |-> "set", job |-> j, date |-> date] \in Ops
    BY DEF Ops
  <2>2. pc[t] = "idle" /\ Others(t)
    BY <1>5, <2>1, CallMade DEF Set
  <2> QED
    BY <1>5, <1>a, <2>2 DEF Set, shared
<1>6. ASSUME NEW t \in Threads, NEW j \in Jobs, Rm(t, j) PROVE Owing'
  <2>1. [kind |-> "rm", job |-> j] \in Ops
    BY DEF Ops
  <2>2. pc[t] = "idle" /\ Others(t)
    BY <1>6, <2>1, CallMade DEF Rm
  <2> QED
    BY <1>6, <1>a, <2>2 DEF Rm, shared, counted
<1>7. ASSUME NEW t \in Threads, Lock(t) PROVE Owing'
  <2>1. Others(t) /\ pc[t] = "lock"
    BY <1>7 DEF Lock, At, Goto, Others, TypeOK
  <2> QED
    BY <1>7, <1>a, <2>1 DEF Lock, shared, counted
<1>8. ASSUME NEW t \in Threads, FirstFetch(t) PROVE Owing'
  <2>0. pc[t] = "first" /\ UNCHANGED <<rows, lastRun, repeats, continues>>
    BY <1>8 DEF FirstFetch, At, counted
  <2>1. CASE Works /\ Fetched /\ Goto(t, "due") /\ UNCHANGED <<mutex, op>>
    <3>1. Others(t) /\ list' = rows
      BY <2>1, GoneTo, FetchedIsTable
    <3> QED
      BY <1>b, <2>0, <2>1, <3>1, OwedAfterRead DEF Works
  <2>2. CASE Fails /\ UNCHANGED <<list, next>> /\ Leave(t)
    BY <1>a, <2>0, <2>2, Left DEF Fails
  <2> QED
    BY <1>8, <2>1, <2>2 DEF FirstFetch
<1>9. ASSUME NEW t \in Threads, Due(t) PROVE Owing'
  <2>1. Others(t)
    <3>1. CASE next # Never /\ list[next].date <= now
      BY <1>9, <3>1 DEF Due, Goto, Others, TypeOK
    <3> QED
      BY <1>9, <3>1, Left DEF Due
  <2> QED
    BY <1>9, <1>a, <2>1 DEF Due, At, shared, counted
<1>10. ASSUME NEW t \in Threads, EventRun(t) PROVE Owing'
  <2> PICK j : j = op[t].job
    OBVIOUS
  <2>1. pc[t] = "call" /\ op[t].kind = "tick" /\ j \in Jobs /\ InList(j)
    BY <1>10, CallKinds DEF EventRun, At, Shape, Carries
  <2>2. PICK res \in Results(j) :
          /\ op' = [op EXCEPT ![t].result = res]
          /\ Goto(t, IF res = "CONTINUE" THEN "fetch" ELSE "store")
          /\ continues' = IF res = "CONTINUE" THEN continues + 1 ELSE continues
          /\ repeats' = IF list[j].date <= lastRun[j] THEN repeats + 1 ELSE repeats
          /\ lastRun' = [lastRun EXCEPT ![j] = op[t].clock]
    BY <1>10 DEF EventRun
  <2>3. op[t] \in [kind : {"tick"}, job : Jobs, clock : Nat, result : {"EOF", "NONE", "CONTINUE"}]
    BY <2>1, OpTypes
  <2>4. /\ op'[t].kind = "tick" /\ op'[t].job = j /\ op'[t].result = res
        /\ pc'[t] = IF res = "CONTINUE" THEN "fetch" ELSE "store"
    BY <2>2, <2>3 DEF Goto, TypeOK
  <2>5. UNCHANGED <<rows, list, faults>>
    BY <1>10 DEF EventRun, shared
  <2>6. ASSUME NEW k \in Jobs PROVE ~ RowAhead(k) /\ ~ ReadAhead(k)
    BY <2>1, NobodyElse DEF RowAhead, ReadAhead, Corrects, Carries
  <2>7. ASSUME NEW k \in Jobs, k # j, k \in Owed' PROVE k \in Owed
    BY <2>2, <2>5, <2>6, <2>7 DEF Owed, OwedByRow, OwedByList, InList, TypeOK
  <2>8. Owed' \subseteq Owed \cup {j}
    BY <2>7 DEF Owed
  <2>9. list[j].date <= lastRun[j] => j \in Owed
    BY <2>1, <2>6 DEF Owed, OwedByList
  <2>10. ASSUME res # "CONTINUE" PROVE j \notin Owed'
    <3>1. Corrects(t, j)' /\ pc'[t] = "store"
      BY <2>4, <2>10 DEF Corrects, Carries
    <3>2. RowAhead(j)' /\ ReadAhead(j)'
      BY <3>1 DEF RowAhead, ReadAhead
    <3> QED
      BY <3>2 DEF Owed, OwedByRow, OwedByList
  <2>11. CASE res = "CONTINUE"
    <3>1. continues' + faults' = continues + faults + 1
      BY <1>n, <2>2, <2>5, <2>11
    <3>2. CASE list[j].date <= lastRun[j]
      <4>1. Owed' \subseteq Owed /\ repeats' = repeats + 1
        BY <2>2, <2>8, <2>9, <3>2
      <4>2. continues + faults + 1 <= continues' + faults'
        BY <1>n, <3>1
      <4> QED
        BY <1>0, <4>1, <4>2, Balanced
    <3>3. CASE ~ (list[j].date <= lastRun[j])
      BY <1>0, <1>n, <2>2, <2>8, <3>1, <3>3, Balanced DEF TypeOK
    <3> QED
      BY <3>2, <3>3
  <2>12. CASE res # "CONTINUE"
    <3>1. continues' + faults' = continues + faults
      BY <2>2, <2>5, <2>12
    <3>2. Owed' \subseteq Owed \ {j}
      BY <2>8, <2>10, <2>12
    <3>3. CASE list[j].date <= lastRun[j]
      <4>1. j \in Owed /\ repeats' = repeats + 1
        BY <2>2, <2>9, <3>3
      <4> QED
        BY <1>0, <1>n, <3>1, <3>2, <4>1, Balanced
    <3>4. CASE ~ (list[j].date <= lastRun[j])
      <4>1. Owed' \subseteq Owed /\ repeats' = repeats
        BY <2>2, <3>2, <3>4
      <4>2. continues + faults <= continues' + faults'
        BY <1>n, <3>1
      <4> QED
        BY <1>0, <4>1, <4>2, Balanced
    <3> QED
      BY <3>3, <3>4
  <2> QED
    BY <2>11, <2>12
<1>11. ASSUME NEW t \in Threads, Store(t) PROVE Owing'
  <2>0. pc[t] = "store" /\ UNCHANGED <<list, repeats, continues>>
    BY <1>11 DEF Store, At
  <2>1. ASSUME Works, rows' = Written(op[t]), Goto(t, "fetch"), UNCHANGED <<op, mutex>>,
               lastRun' = IF op[t].kind = "set" THEN [lastRun EXCEPT ![op[t].job] = -1] ELSE lastRun
        PROVE  Owing'
    <3>1. pc'[t] = "fetch" /\ Others(t)
      BY <2>1, GoneTo
    <3>2. Owed' \subseteq Owed
      BY <1>0, <2>0, <2>1, <3>1, OwedAfterWrite
    <3> QED
      BY <1>b, <2>0, <2>1, <3>2 DEF Works
  <2>2. ASSUME Fails, UNCHANGED <<rows, known, lastRun>>,
               IF op[t].kind = "tick" THEN Goto(t, "fetch") /\ UNCHANGED <<op, mutex>> ELSE Leave(t)
        PROVE  Owing'
    <3>1. Others(t)
      BY <2>2, GoneTo, Left
    <3> QED
      BY <1>a, <2>0, <2>2, <3>1 DEF Fails
  <2> QED
    BY <1>11, <2>1, <2>2 DEF Store
<1>12. ASSUME NEW t \in Threads, Fetch(t) PROVE Owing'
  <2>0. pc[t] = "fetch" /\ Others(t) /\ UNCHANGED <<rows, lastRun, repeats, continues>>
    BY <1>12, Left DEF Fetch, At
  <2>1. CASE Works /\ Fetched
    BY <1>b, <2>0, <2>1, FetchedIsTable, OwedAfterRead DEF Works
  <2>2. CASE Fails /\ UNCHANGED <<list, next, known>>
    BY <1>a, <2>0, <2>2 DEF Fails
  <2> QED
    BY <1>12, <2>1, <2>2 DEF Fetch
<1> QED
  BY <1>1, <1>2, <1>3, <1>4, <1>5, <1>6, <1>7, <1>8, <1>9, <1>10, <1>11, <1>12 DEF Next, Begin, Proceed

-----------------------------------------------------------------------------
(* The theorems. *)

LEMMA InitInv ==
  ASSUME Init
  PROVE  IInv
<1>1. DOMAIN rows = {} /\ list = Never
  BY DEF Init
<1>2. IsTable(rows) /\ DOMAIN rows \subseteq used
  BY <1>1 DEF Init, IsTable
<1>3. Idle \in Ops
  BY DEF Idle, Ops
<1>4. TypeOK
  BY <1>2, <1>3, QJobsAssumption DEF Init, TypeOK
<1>5. Exclusion /\ Shape /\ Unknown
  BY <1>1 DEF Init, Exclusion, Shape, Unknown, Inside, Carries, Adding, Blank, InList, Idle
<1>6. Owing
  <2>1. Owed = {}
    BY <1>1 DEF Owed, OwedByRow, OwedByList, InList
  <2>2. IsFiniteSet(Owed) /\ Cardinality(Owed) = 0
    BY <2>1, FS_EmptySet
  <2> QED
    BY <2>2 DEF Init, Owing
<1> QED
  BY <1>4, <1>5, <1>6 DEF IInv

(* The bookkeeping of runs, the mutex and the rows holds at every time. *)
THEOREM SchedulerInvariant == Spec => []IInv
<1>1. Init => IInv
  BY InitInv
<1>2. IInv /\ [Next]_vars => IInv'
  BY TypesKept, ExclusionKept, ShapeKept, FreshKept, OwingKept DEF IInv
<1> QED
  BY <1>1, <1>2, PTL DEF Spec

(* The types of the scheduler: the pointer to the next event stands in the
   copy of the table, and the copy holds rows with dates and periods. *)
THEOREM TypeCorrect == Spec => []TypeOK
<1>1. IInv => TypeOK
  BY DEF IInv
<1> QED
  BY <1>1, SchedulerInvariant, PTL

(* An event runs again for a date that a run has passed no more often than
   callbacks ask for it, calls of the database fail and the process stops:
   for any number of events and threads, whatever the order of the calls. *)
THEOREM RepeatsCorrect == Spec => []RepeatsHaveAReason
<1>1. IInv => RepeatsHaveAReason
  <2> SUFFICES ASSUME IInv PROVE RepeatsHaveAReason
    OBVIOUS
  <2>1. /\ Cardinality(Owed) \in Nat /\ repeats + Cardinality(Owed) <= continues + faults
        /\ repeats \in Nat /\ continues \in Nat /\ faults \in Nat
    BY FS_CardinalityType DEF IInv, Owing, TypeOK
  <2> QED
    BY <2>1 DEF RepeatsHaveAReason
<1> QED
  BY <1>1, SchedulerInvariant, PTL

=============================================================================
