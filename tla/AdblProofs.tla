------------------------------ MODULE AdblProofs ------------------------------
(***************************************************************************)
(* Proofs about Adbl, for every number of threads, transactions,           *)
(* statements, decrements, retries and faults.                             *)
(***************************************************************************)
EXTENDS Adbl, FiniteSetTheorems, SequenceTheorems, TLAPS

Places == {"idle", "clone", "open", "begin", "statement", "failed", "dec",
           "read", "broken"}
InTransaction == {"open", "begin", "statement", "failed"}
Cloning == {u \in Users : pc[u] = "clone"}
Nodes == DOMAIN pool

-----------------------------------------------------------------------------
(* The invariant. *)

\* What each thread's place says of its transaction.
UserInv(u) ==
  /\ pc[u] \notin InTransaction => trx[u] = NoTrx
  /\ pc[u] \in InTransaction => trx[u].node \in Nodes
  /\ pc[u] \in InTransaction \union {"clone"} => count[u].trx >= 1
  /\ pc[u] \in {"begin", "statement"} => trx[u].next \in Statements
  /\ pc[u] \in {"dec", "read", "broken"} => count[u].dec >= 1

\* The marks of the pool.  The threads that found no free connection and have
\* not added theirs yet are counted with those that are in the pool.
PoolInv ==
  /\ \A u, v \in Users : trx[u].node = trx[v].node /\ trx[u].node # 0 => u = v
  /\ \A i \in Nodes : pool[i].used <=> \E u \in Users : trx[u].node = i
  /\ Len(pool) + Cardinality(Cloning) <= Cardinality(Users)

IInv == TypeOK /\ (\A u \in Users : UserInv(u)) /\ PoolInv

-----------------------------------------------------------------------------
(* Lemmas about the data. *)

\* The constants are numbers, and there are finitely many threads.
LEMMA ConstantsOK ==
  /\ MaxTrx \in Nat /\ MaxDecs \in Nat /\ MaxLosses \in Nat /\ MaxStops \in Nat
  /\ Writes \in Nat /\ Writes > 0 /\ MaxRetries \in Nat /\ MaxRetries > 0
  /\ Cardinality(Users) \in Nat /\ Start \in Nat
<1>1. /\ MaxTrx \in Nat /\ MaxDecs \in Nat /\ MaxLosses \in Nat /\ MaxStops \in Nat
      /\ Writes \in Nat \ {0} /\ MaxRetries \in Nat \ {0}
  BY AdblAssumption
<1>2. Cardinality(Users) \in Nat
  BY AdblAssumption, FS_CardinalityType
<1> QED BY <1>1, <1>2 DEF Start

\* A connection that is opened again or dropped is a connection.
LEMMA ConnTypes ==
  ASSUME TypeOK
  PROVE  /\ Fresh \in Conns
         /\ Connected \in Conns
         /\ \A c \in Conns : Dropped(c) \in Conns
<1>1. Fresh \in Conns
  BY DEF Fresh, Conns
<1>2. Connected \in Conns
  BY <1>1 DEF Connected, Conns
<1>3. ASSUME NEW c \in Conns PROVE Dropped(c) \in Conns
  BY DEF Dropped, Conns
<1> QED BY <1>1, <1>2, <1>3

PoolItem == [used : BOOLEAN, conn : Conns]

\* The pool is a sequence of connections and stays one when a connection in
\* it is exchanged.
LEMMA PoolTypes ==
  ASSUME pool \in Seq(PoolItem)
  PROVE  /\ Len(pool) \in Nat
         /\ Nodes = 1 .. Len(pool)
         /\ \A i \in Nodes : pool[i] \in PoolItem /\ pool[i].conn \in Conns
         /\ \A i \in Nodes, x \in PoolItem :
              /\ [pool EXCEPT ![i] = x] \in Seq(PoolItem)
              /\ Len([pool EXCEPT ![i] = x]) = Len(pool)
<1>1. /\ Len(pool) \in Nat
      /\ Nodes = 1 .. Len(pool)
      /\ \A i \in Nodes : pool[i] \in PoolItem
  BY LenProperties, ElementOfSeq DEF Nodes
<1>2. \A i \in Nodes : pool[i].conn \in Conns
  BY <1>1 DEF PoolItem
<1>3. ASSUME NEW i \in Nodes, NEW x \in PoolItem
      PROVE  /\ [pool EXCEPT ![i] = x] \in Seq(PoolItem)
             /\ Len([pool EXCEPT ![i] = x]) = Len(pool)
  BY <1>1, ExceptSeq
<1> QED BY <1>1, <1>2, <1>3

\* A thread without a transaction has no connection of the pool.
LEMMA NoTrxType ==
  /\ NoTrx \in [node : Nat, inTrx : BOOLEAN, next : 1 .. Writes + 1]
  /\ NoTrx.node = 0
BY ConstantsOK DEF NoTrx

\* A connection of the pool is marked; a new transaction is put on it.
LEMMA MarkedItem ==
  ASSUME NEW x \in PoolItem, NEW b \in BOOLEAN, NEW i \in Nat
  PROVE  /\ [x EXCEPT !.used = b] = [used |-> b, conn |-> x.conn]
         /\ [NoTrx EXCEPT !.node = i] \in [node : Nat, inTrx : BOOLEAN, next : 1 .. Writes + 1]
         /\ [NoTrx EXCEPT !.node = i].node = i
<1>1. [x EXCEPT !.used = b] = [used |-> b, conn |-> x.conn]
  BY DEF PoolItem
<1> QED BY <1>1, NoTrxType

\* ... and has done nothing yet.
LEMMA NewTrx ==
  ASSUME NEW i \in Nat
  PROVE  ~ [NoTrx EXCEPT !.node = i].inTrx /\ [NoTrx EXCEPT !.node = i].next = 1
BY DEF NoTrx

\* One connection of the pool is marked and its handle exchanged.
LEMMA ItemExcept ==
  ASSUME pool \in Seq(PoolItem), NEW i \in Nodes, NEW c \in Conns, NEW b \in BOOLEAN,
         pool' = [pool EXCEPT ![i] = [used |-> b, conn |-> c]]
  PROVE  /\ pool' \in Seq(PoolItem)
         /\ Len(pool') = Len(pool)
         /\ Nodes' = Nodes
         /\ pool'[i] = [used |-> b, conn |-> c]
         /\ \A j \in Nodes \ {i} : pool'[j] = pool[j]
<1>1. [used |-> b, conn |-> c] \in PoolItem
  BY DEF PoolItem
<1>2. pool' \in Seq(PoolItem) /\ Len(pool') = Len(pool)
  BY <1>1, PoolTypes
<1> QED BY <1>2 DEF Nodes

LEMMA ItemMark ==
  ASSUME pool \in Seq(PoolItem), NEW i \in Nodes, NEW c \in Conns, NEW b \in BOOLEAN,
         pool' = [pool EXCEPT ![i] = [used |-> b, conn |-> c]]
  PROVE  (pool'[i].used <=> b) /\ pool'[i].conn = c
<1>1. pool'[i] = [used |-> b, conn |-> c]
  BY ItemExcept
<1> QED BY <1>1

\* Only the handle of one connection of the pool is changed.
LEMMA ConnExcept ==
  ASSUME pool \in Seq(PoolItem), NEW i \in Nodes, NEW c \in Conns,
         pool' = [pool EXCEPT ![i].conn = c]
  PROVE  /\ pool' \in Seq(PoolItem)
         /\ Len(pool') = Len(pool)
         /\ Nodes' = Nodes
         /\ pool'[i].conn = c
         /\ \A j \in Nodes \ {i} : pool'[j] = pool[j]
         /\ \A j \in Nodes : pool'[j].used = pool[j].used
<1>1. Nodes = 1 .. Len(pool) /\ pool[i] \in PoolItem
  BY PoolTypes
<1>2. [pool[i] EXCEPT !.conn = c] = [used |-> pool[i].used, conn |-> c]
      /\ pool[i].used \in BOOLEAN
  BY <1>1 DEF PoolItem
<1>3. pool' = [pool EXCEPT ![i] = [used |-> pool[i].used, conn |-> c]]
  <2>1. pool' = [pool EXCEPT ![i] = [pool[i] EXCEPT !.conn = c]]
    OBVIOUS
  <2> QED BY <1>2, <2>1
<1>4. /\ pool' \in Seq(PoolItem) /\ Len(pool') = Len(pool) /\ Nodes' = Nodes
      /\ pool'[i] = [used |-> pool[i].used, conn |-> c]
      /\ \A j \in Nodes \ {i} : pool'[j] = pool[j]
  <2>1. PICK b : b = pool[i].used
    OBVIOUS
  <2>2. b \in BOOLEAN /\ pool' = [pool EXCEPT ![i] = [used |-> b, conn |-> c]]
    BY <1>2, <1>3, <2>1
  <2>3. /\ pool' \in Seq(PoolItem) /\ Len(pool') = Len(pool) /\ Nodes' = Nodes
        /\ pool'[i] = [used |-> b, conn |-> c]
        /\ \A j \in Nodes \ {i} : pool'[j] = pool[j]
    BY <2>2, ItemExcept
  <2> QED BY <2>1, <2>3
<1>5. pool'[i].conn = c /\ pool'[i].used = pool[i].used
  BY <1>4
<1> QED BY <1>4, <1>5

\* A set of numbers that is not empty has a least element.
LEMMA LeastExists ==
  ASSUME NEW T \in SUBSET Nat, T # {}
  PROVE  \E s \in T : \A t \in T : s <= t
<1>1. PICK s \in T : \A t \in T : ~ (<<t, s>> \in OpToRel(<, Nat))
  BY WFMin, NatLessThanWellFounded
<1>2. ASSUME NEW t \in T PROVE s <= t
  <2>1. s \in Nat /\ t \in Nat /\ ~ (t < s)
    BY <1>1 DEF OpToRel
  <2> QED BY <2>1
<1> QED BY <1>2

\* adbl_pool_get finds nothing only when every connection is in use.
LEMMA NothingFree ==
  ASSUME pool \in Seq(PoolItem), FirstFree = {}
  PROVE  \A i \in Nodes : pool[i].used
<1> DEFINE Free == {i \in Nodes : ~ pool[i].used}
<1>1. Nodes = 1 .. Len(pool) /\ Len(pool) \in Nat
  BY PoolTypes
<1>2. SUFFICES ASSUME Free # {} PROVE FALSE
  OBVIOUS
<1>3. Free \in SUBSET Nat
  BY <1>1
<1>4. PICK i \in Free : \A j \in Free : i <= j
  BY <1>2, <1>3, LeastExists
<1>5. \A j \in 1 .. i - 1 : pool[j].used
  BY <1>1, <1>4
<1>6. i \in FirstFree
  BY <1>5 DEF FirstFree, Nodes
<1> QED BY <1>6

\* The parts of the state that are records, one by one.
LEMMA PartTypes ==
  ASSUME TypeOK, NEW u \in Users
  PROVE  /\ count[u].trx \in 0 .. MaxTrx /\ count[u].trx \in Nat
         /\ count[u].dec \in 0 .. MaxDecs /\ count[u].dec \in Nat
         /\ trx[u].node \in Nat /\ trx[u].next \in 1 .. Writes + 1
         /\ tries[u] \in Nat
         /\ server.cnt \in Int /\ server.up \in BOOLEAN
         /\ ses \in Conns /\ ses.id \in Int
<1>1. count[u] \in [trx : 0 .. MaxTrx, dec : 0 .. MaxDecs]
  BY DEF TypeOK
<1>2. trx[u] \in [node : Nat, inTrx : BOOLEAN, next : 1 .. Writes + 1]
  BY DEF TypeOK
<1>3. server \in [up : BOOLEAN, cnt : Int] /\ ses \in Conns
  BY DEF TypeOK
<1>4. ses.id \in Int
  BY <1>3 DEF Conns
<1>5. tries[u] \in Nat
  <2>1. tries[u] \in 0 .. MaxRetries - 1
    BY DEF TypeOK
  <2> QED BY <2>1
<1>6. /\ count[u].trx \in 0 .. MaxTrx /\ count[u].trx \in Nat
      /\ count[u].dec \in 0 .. MaxDecs /\ count[u].dec \in Nat
  BY <1>1
<1>7. server.cnt \in Int /\ server.up \in BOOLEAN
  BY <1>3
<1> QED BY <1>2, <1>3, <1>4, <1>5, <1>6, <1>7

-----------------------------------------------------------------------------
(* Lemmas about the parts of the actions. *)

\* A thread in a transaction has a connection of the pool.
LEMMA UserFacts ==
  ASSUME IInv, NEW u \in Users, pc[u] \in InTransaction
  PROVE  /\ trx[u].node \in Nodes
         /\ trx[u].node \in Nat \ {0}
         /\ pool[trx[u].node].used
         /\ ConnOf(u) \in Conns
         /\ TrxOf(u) \in Trxs
<1>1. pool \in Seq(PoolItem)
  BY DEF IInv, TypeOK, PoolItem
<1>2. trx[u].node \in Nodes
  BY DEF IInv, UserInv
<1>3. /\ trx[u].node \in Nat \ {0}
      /\ ConnOf(u) \in Conns
  BY <1>1, <1>2, PoolTypes DEF ConnOf
<1>4. pool[trx[u].node].used
  BY <1>2 DEF IInv, PoolInv
<1>5. /\ count[u].trx \in 0 .. MaxTrx
      /\ count[u].trx >= 1
  BY DEF IInv, TypeOK, UserInv
<1>6. TrxOf(u) \in Trxs
  BY <1>5, ConstantsOK DEF TrxOf, Trxs
<1> QED BY <1>2, <1>3, <1>4, <1>6

\* 0 stands for no connection.
LEMMA NodesArePositive ==
  ASSUME IInv
  PROVE  0 \notin Nodes
<1>1. pool \in Seq(PoolItem)
  BY DEF IInv, TypeOK, PoolItem
<1>2. Nodes = 1 .. Len(pool) /\ Len(pool) \in Nat
  BY <1>1, PoolTypes
<1> QED BY <1>2

\* A break of the connection is counted within the bound.
LEMMA BreakTypes ==
  ASSUME TypeOK, NEW c, NEW b \in Breaks(c), CountBreak(b)
  PROVE  /\ faults' \in [losses : 0 .. MaxLosses, stops : 0 .. MaxStops]
         /\ b \in BOOLEAN
<1>1. faults.losses \in 0 .. MaxLosses /\ faults.stops \in 0 .. MaxStops
  BY DEF TypeOK
<1>2. b \in BOOLEAN /\ (b => faults.losses < MaxLosses)
  BY DEF Breaks
<1>3. faults' = [losses |-> faults.losses + (IF b THEN 1 ELSE 0), stops |-> faults.stops]
  BY DEF CountBreak, TypeOK
<1> QED BY <1>1, <1>2, <1>3, ConstantsOK

\* After a lost connection the thread tries again or ends as it was told.
LEMMA CheckErrorTypes ==
  ASSUME TypeOK, NEW u \in Users, NEW exhausted \in Places, NEW failed \in Places,
         CheckError(u, exhausted, failed)
  PROVE  /\ tries' \in [Users -> 0 .. MaxRetries - 1]
         /\ pc' \in [Users -> Places]
         /\ \A v \in Users \ {u} : pc'[v] = pc[v]
         /\ pc'[u] = (IF server.up THEN IF Exhausted(u) THEN exhausted ELSE pc[u]
                      ELSE failed)
<1>1. tries \in [Users -> 0 .. MaxRetries - 1] /\ pc \in [Users -> Places]
  BY DEF TypeOK, Places
<1>2. tries[u] + 1 <= MaxRetries /\ tries[u] \in Nat
  BY <1>1, ConstantsOK
<1>3. server.up /\ ~ Exhausted(u) => tries[u] + 1 \in 0 .. MaxRetries - 1
  BY <1>2, ConstantsOK DEF Exhausted
<1>4. tries' \in [Users -> 0 .. MaxRetries - 1]
  BY <1>1, <1>3, ConstantsOK DEF CheckError
<1>5. pc' \in [Users -> Places]
  BY <1>1 DEF CheckError, Goto
<1> QED BY <1>1, <1>4, <1>5 DEF CheckError, Goto, Exhausted

\* A step that leaves the marks, the nodes and the cloning threads alone keeps
\* what is said of the pool.
LEMMA PoolKept ==
  ASSUME PoolInv, Nodes' = Nodes, Len(pool') = Len(pool),
         \A i \in Nodes : pool'[i].used = pool[i].used,
         \A v \in Users : trx'[v].node = trx[v].node,
         Cloning' = Cloning
  PROVE  PoolInv'
BY DEF PoolInv

\* ... and so does one that changes connections only, as the server does.
LEMMA ConnsChanged ==
  ASSUME IInv, pool' \in Seq(PoolItem), Len(pool') = Len(pool), Nodes' = Nodes,
         \A i \in Nodes : pool'[i].used = pool[i].used,
         ses' \in Conns,
         faults' \in [losses : 0 .. MaxLosses, stops : 0 .. MaxStops],
         server' \in [up : BOOLEAN, cnt : Int],
         UNCHANGED <<holder, pc, tries, trx, count, store, told, results>>
  PROVE  IInv'
<1>1. TypeOK'
  BY DEF IInv, TypeOK, PoolItem
<1>2. ASSUME NEW v \in Users PROVE UserInv(v)'
  BY DEF IInv, UserInv
<1>3. PoolInv'
  BY PoolKept DEF IInv, Cloning
<1> QED BY <1>1, <1>2, <1>3 DEF IInv

-----------------------------------------------------------------------------
(* One lemma per action: each keeps the invariant. *)

\* A step of one thread that leaves everybody's use of the pool alone.
LEMMA ThreadStep ==
  ASSUME IInv, NEW u \in Users,
         pool' \in Seq(PoolItem), Len(pool') = Len(pool), Nodes' = Nodes,
         \A i \in Nodes : pool'[i].used = pool[i].used,
         \A v \in Users : trx'[v].node = trx[v].node,
         \A v \in Users \ {u} : /\ trx'[v] = trx[v]
                                /\ count'[v] = count[v]
                                /\ pc'[v] = pc[v],
         pc[u] # "clone", pc'[u] # "clone",
         TypeOK', UserInv(u)'
  PROVE  IInv'
<1>1. ASSUME NEW v \in Users PROVE UserInv(v)'
  <2>1. CASE v = u
    BY <2>1
  <2>2. CASE v # u
    BY <2>2 DEF IInv, UserInv
  <2> QED BY <2>1, <2>2
<1>2. Cloning' = Cloning
  <2>1. \A v \in Users : pc'[v] = "clone" <=> pc[v] = "clone"
    OBVIOUS
  <2> QED BY <2>1 DEF Cloning
<1>3. PoolInv'
  BY <1>2, PoolKept DEF IInv
<1> QED BY <1>1, <1>3 DEF IInv

LEMMA NextStatementStep ==
  ASSUME IInv, NEW u \in Users, NextStatement(u)
  PROVE  IInv'
<1>1. /\ pool' = pool /\ trx' = trx /\ count' = count
      /\ pc' = [pc EXCEPT ![u] = IF trx[u].inTrx THEN "statement" ELSE "begin"]
      /\ pc[u] = "open" /\ trx[u].next \in Statements
  BY DEF NextStatement, poolVars, Goto
<1>2. TypeOK'
  BY <1>1 DEF IInv, TypeOK, NextStatement, poolVars, sesVars
<1>3. UserInv(u)'
  BY <1>1 DEF IInv, TypeOK, UserInv, InTransaction, Nodes
<1> QED BY <1>1, <1>2, <1>3, ThreadStep DEF IInv, TypeOK, PoolItem, Nodes

LEMMA BeginTryStep ==
  ASSUME IInv, NEW u \in Users, BeginTry(u)
  PROVE  IInv'
<1> DEFINE node == trx[u].node
           c == ConnOf(u)
<1>1. /\ pc[u] = "begin" /\ pc[u] \in InTransaction /\ pc[u] \in Places
      /\ pool \in Seq(PoolItem) /\ trx \in [Users -> [node : Nat, inTrx : BOOLEAN, next : 1 .. Writes + 1]]
      /\ trx[u].next \in Statements /\ count[u].trx >= 1
      /\ UNCHANGED <<holder, ses, results, count, server, store, told>>
  BY DEF BeginTry, sesVars, InTransaction, Places, IInv, TypeOK, PoolItem, UserInv
<1>2. node \in Nodes /\ c \in Conns
  BY <1>1, UserFacts
<1>3. PICK break \in Breaks(c) :
        /\ CountBreak(break)
        /\ IF c.link = "up" /\ ~ break
           THEN /\ pool' = [pool EXCEPT ![trx[u].node].conn.open = TRUE]
                /\ InTrx(u)
                /\ tries' = [tries EXCEPT ![u] = 0]
                /\ Goto(u, "statement")
           ELSE /\ pool' = [pool EXCEPT ![trx[u].node].conn = Connected]
                /\ CheckError(u, "statement", "failed")
                /\ IF Exhausted(u) THEN InTrx(u) ELSE UNCHANGED trx
  BY DEF BeginTry
<1>4. faults' \in [losses : 0 .. MaxLosses, stops : 0 .. MaxStops]
  BY <1>3, BreakTypes DEF IInv
<1>5. /\ trx' \in [Users -> [node : Nat, inTrx : BOOLEAN, next : 1 .. Writes + 1]]
      /\ trx'[u].node = trx[u].node /\ trx'[u].next = trx[u].next
      /\ \A v \in Users \ {u} : trx'[v] = trx[v]
  BY <1>1, <1>3 DEF InTrx
<1>6. /\ tries' \in [Users -> 0 .. MaxRetries - 1]
      /\ pc' \in [Users -> Places]
      /\ \A v \in Users \ {u} : pc'[v] = pc[v]
      /\ pc'[u] \in {"begin", "statement", "failed"}
  <2>1. CASE c.link = "up" /\ ~ break
    <3>1. tries' = [tries EXCEPT ![u] = 0] /\ Goto(u, "statement")
      BY <1>3, <2>1
    <3>2. 0 \in 0 .. MaxRetries - 1
      BY ConstantsOK
    <3> QED BY <3>1, <3>2 DEF Goto, IInv, TypeOK, Places
  <2>2. CASE ~ (c.link = "up" /\ ~ break)
    <3>1. CheckError(u, "statement", "failed")
      BY <1>3, <2>2
    <3> QED BY <1>1, <3>1, CheckErrorTypes DEF IInv, Places
  <2> QED BY <2>1, <2>2
<1>7. /\ pool' \in Seq(PoolItem) /\ Len(pool') = Len(pool) /\ Nodes' = Nodes
      /\ \A i \in Nodes : pool'[i].used = pool[i].used
  <2>1. PICK d \in Conns : pool' = [pool EXCEPT ![node].conn = d]
    <3>1. CASE c.link = "up" /\ ~ break
      <4>1. [c EXCEPT !.open = TRUE] \in Conns
        BY <1>2 DEF Conns
      <4>2. pool' = [pool EXCEPT ![node].conn = [c EXCEPT !.open = TRUE]]
        BY <1>3, <3>1 DEF ConnOf
      <4> QED BY <4>1, <4>2
    <3>2. CASE ~ (c.link = "up" /\ ~ break)
      BY <1>3, <3>2, ConnTypes DEF IInv
    <3> QED BY <3>1, <3>2
  <2> QED BY <1>1, <1>2, <2>1, ConnExcept
<1>8. TypeOK'
  BY <1>1, <1>4, <1>5, <1>6, <1>7 DEF IInv, TypeOK, PoolItem, Places
<1>9. UserInv(u)'
  BY <1>1, <1>2, <1>5, <1>6, <1>7 DEF UserInv, InTransaction
<1> QED BY <1>1, <1>5, <1>6, <1>7, <1>8, <1>9, ThreadStep

LEMMA TryStep ==
  ASSUME IInv, NEW u \in Users, pc[u] = "statement",
         NEW unsent \in {"open", "failed"}, Try(u, unsent),
         UNCHANGED <<sesVars, count, server, told>>
  PROVE  IInv'
<1> DEFINE node == trx[u].node
           c == ConnOf(u)
           w == <<TrxOf(u), trx[u].next>>
<1>1. /\ pc[u] \in InTransaction /\ pc[u] \in Places
      /\ pool \in Seq(PoolItem) /\ trx \in [Users -> [node : Nat, inTrx : BOOLEAN, next : 1 .. Writes + 1]]
      /\ trx[u].next \in Statements /\ count[u].trx >= 1 /\ store \subseteq Trxs \X Statements
      /\ UNCHANGED <<holder, ses, results, count, server, told>>
  BY DEF sesVars, InTransaction, Places, IInv, TypeOK, PoolItem, UserInv
<1>2. node \in Nodes /\ c \in Conns /\ w \in Trxs \X Statements
  BY <1>1, UserFacts
<1>3. PICK break \in Breaks(c), done \in BOOLEAN :
        /\ CountBreak(break)
        /\ store' = IF done THEN Autocommitted(c, w) ELSE store
        /\ IF done /\ ~ break
           THEN /\ pool' = [pool EXCEPT ![node].conn = Executed(c, w)]
                /\ StatementDone(u)
                /\ Goto(u, "open")
                /\ tries' = [tries EXCEPT ![u] = 0]
           ELSE /\ pool' = [pool EXCEPT ![node].conn = Connected]
                /\ CheckError(u, unsent, "failed")
                /\ IF Exhausted(u) /\ unsent = "open" THEN StatementDone(u) ELSE UNCHANGED trx
  BY DEF Try
<1>4. faults' \in [losses : 0 .. MaxLosses, stops : 0 .. MaxStops]
  BY <1>3, BreakTypes DEF IInv
<1>5. store' \subseteq Trxs \X Statements
  BY <1>1, <1>2, <1>3 DEF Autocommitted
<1>6. trx[u].next + 1 \in 1 .. Writes + 1
  BY <1>1, ConstantsOK DEF Statements
<1>7. /\ trx' \in [Users -> [node : Nat, inTrx : BOOLEAN, next : 1 .. Writes + 1]]
      /\ trx'[u].node = trx[u].node
      /\ \A v \in Users \ {u} : trx'[v] = trx[v]
  <2>1. CASE UNCHANGED trx
    BY <1>1, <2>1
  <2>2. CASE StatementDone(u)
    BY <1>1, <1>6, <2>2 DEF StatementDone
  <2> QED BY <1>3, <2>1, <2>2
<1>8. /\ tries' \in [Users -> 0 .. MaxRetries - 1]
      /\ pc' \in [Users -> Places]
      /\ \A v \in Users \ {u} : pc'[v] = pc[v]
      /\ \/ pc'[u] \in {"open", "failed"}
         \/ pc'[u] = "statement" /\ trx' = trx
  <2>1. CASE done /\ ~ break
    <3>1. tries' = [tries EXCEPT ![u] = 0] /\ Goto(u, "open")
      BY <1>3, <2>1
    <3>2. 0 \in 0 .. MaxRetries - 1
      BY ConstantsOK
    <3> QED BY <3>1, <3>2 DEF Goto, IInv, TypeOK, Places
  <2>2. CASE ~ (done /\ ~ break)
    <3>1. CheckError(u, unsent, "failed")
      BY <1>3, <2>2
    <3>2. unsent \in Places /\ "failed" \in Places
      BY DEF Places
    <3>3. /\ tries' \in [Users -> 0 .. MaxRetries - 1]
          /\ pc' \in [Users -> Places]
          /\ \A v \in Users \ {u} : pc'[v] = pc[v]
          /\ pc'[u] = (IF server.up THEN IF Exhausted(u) THEN unsent ELSE pc[u]
                       ELSE "failed")
      BY <3>1, <3>2, CheckErrorTypes DEF IInv
    <3>4. ~ Exhausted(u) => UNCHANGED trx
      BY <1>3, <2>2
    <3> QED BY <3>3, <3>4
  <2> QED BY <2>1, <2>2
<1>9. /\ pool' \in Seq(PoolItem) /\ Len(pool') = Len(pool) /\ Nodes' = Nodes
      /\ \A i \in Nodes : pool'[i].used = pool[i].used
  <2>1. PICK d \in Conns : pool' = [pool EXCEPT ![node].conn = d]
    <3>1. Executed(c, w) \in Conns
      BY <1>2 DEF Executed, Conns
    <3> QED BY <1>3, <3>1, ConnTypes DEF IInv
  <2> QED BY <1>1, <1>2, <2>1, ConnExcept
<1>10. TypeOK'
  BY <1>1, <1>4, <1>5, <1>7, <1>8, <1>9 DEF IInv, TypeOK, PoolItem, Places
<1>11. UserInv(u)'
  BY <1>1, <1>2, <1>7, <1>8, <1>9 DEF UserInv, InTransaction
<1>12. pc'[u] # "clone"
  BY <1>8
<1> QED BY <1>1, <1>7, <1>8, <1>9, <1>10, <1>11, <1>12, ThreadStep

LEMMA SessionCallStep ==
  ASSUME IInv, NEW u \in Users, SessionCall(u)
  PROVE  IInv'
<1>1. /\ pool' = pool /\ trx' = trx /\ tries' = tries /\ holder' = u
      /\ UNCHANGED <<ses, results, server, store, told, faults>>
      /\ pc[u] = "idle" /\ count[u].dec < MaxDecs
      /\ count' = [count EXCEPT ![u].dec = @ + 1]
      /\ pc' = [pc EXCEPT ![u] = "dec"]
  BY DEF SessionCall, poolVars, Goto
<1>2. count' \in [Users -> [trx : 0 .. MaxTrx, dec : 0 .. MaxDecs]]
  <2>1. count \in [Users -> [trx : 0 .. MaxTrx, dec : 0 .. MaxDecs]]
    BY DEF IInv, TypeOK
  <2>2. count[u].dec + 1 \in 0 .. MaxDecs
    BY <1>1, <2>1, ConstantsOK
  <2> QED BY <1>1, <2>1, <2>2
<1>3. TypeOK'
  BY <1>1, <1>2 DEF IInv, TypeOK
<1>4. UserInv(u)'
  <2>1. pc'[u] = "dec" /\ trx[u] = NoTrx
    BY <1>1 DEF IInv, TypeOK, UserInv, InTransaction
  <2>2. count'[u].dec >= 1
    <3>1. count \in [Users -> [trx : 0 .. MaxTrx, dec : 0 .. MaxDecs]]
      BY DEF IInv, TypeOK
    <3>2. count[u].dec \in Nat
      BY PartTypes DEF IInv
    <3>3. count'[u].dec = count[u].dec + 1
      BY <1>1, <3>1
    <3> QED BY <3>2, <3>3
  <2> QED BY <1>1, <2>1, <2>2 DEF UserInv, InTransaction, NoTrx
<1> QED BY <1>1, <1>2, <1>3, <1>4, ThreadStep DEF IInv, TypeOK, PoolItem, Nodes

LEMMA DecTryStep ==
  ASSUME IInv, NEW u \in Users, DecTry(u)
  PROVE  IInv'
<1>1. /\ pc[u] = "dec" /\ pc[u] \in Places
      /\ UNCHANGED <<pool, trx, store, told, holder, results, count>>
  BY DEF DecTry, poolVars, Places
<1>2. PICK break \in Breaks(ses), done \in BOOLEAN :
        /\ CountBreak(break)
        /\ server' = IF done THEN [server EXCEPT !.cnt = @ - 1] ELSE server
        /\ IF done /\ ~ break
           THEN /\ ses' = [ses EXCEPT !.id = server.cnt - 1]
                /\ Goto(u, "read")
                /\ tries' = [tries EXCEPT ![u] = 0]
           ELSE ses' = Connected /\ CheckError(u, "read", "broken")
  BY DEF DecTry
<1>3. faults' \in [losses : 0 .. MaxLosses, stops : 0 .. MaxStops]
  BY <1>2, BreakTypes DEF IInv
<1>4. server' \in [up : BOOLEAN, cnt : Int]
  <2>1. server \in [up : BOOLEAN, cnt : Int]
    BY DEF IInv, TypeOK
  <2>2. [server EXCEPT !.cnt = @ - 1] \in [up : BOOLEAN, cnt : Int]
    BY <2>1
  <2> QED BY <1>2, <2>1, <2>2
<1>5. ses' \in Conns
  <2>1. ses \in Conns /\ server.cnt - 1 \in Int
    BY PartTypes DEF IInv
  <2>2. [ses EXCEPT !.id = server.cnt - 1] \in Conns
    BY <2>1 DEF Conns
  <2> QED BY <1>2, <2>2, ConnTypes DEF IInv
<1>6. /\ tries' \in [Users -> 0 .. MaxRetries - 1]
      /\ pc' \in [Users -> Places]
      /\ \A v \in Users \ {u} : pc'[v] = pc[v]
      /\ pc'[u] \in {"dec", "read", "broken"}
  <2>1. CASE done /\ ~ break
    <3>1. tries' = [tries EXCEPT ![u] = 0] /\ Goto(u, "read")
      BY <1>2, <2>1
    <3>2. 0 \in 0 .. MaxRetries - 1
      BY ConstantsOK
    <3> QED BY <3>1, <3>2 DEF Goto, IInv, TypeOK, Places
  <2>2. CASE ~ (done /\ ~ break)
    <3>1. CheckError(u, "read", "broken")
      BY <1>2, <2>2
    <3> QED BY <1>1, <3>1, CheckErrorTypes DEF IInv, Places
  <2> QED BY <2>1, <2>2
<1>7. TypeOK'
  BY <1>1, <1>3, <1>4, <1>5, <1>6 DEF IInv, TypeOK, Places
<1>8. UserInv(u)'
  BY <1>1, <1>6 DEF IInv, TypeOK, UserInv, InTransaction, Nodes
<1> QED BY <1>1, <1>6, <1>7, <1>8, ThreadStep DEF IInv, TypeOK, PoolItem, Nodes

LEMMA DecReadStep ==
  ASSUME IInv, NEW u \in Users, DecRead(u)
  PROVE  IInv'
<1>1. /\ pc[u] \in {"read", "broken"}
      /\ holder' = "nobody"
      /\ pc' = [pc EXCEPT ![u] = "idle"]
      /\ UNCHANGED <<pool, trx, store, told, ses, tries, count, server, faults>>
  BY DEF DecRead, poolVars, Goto
<1>2. results' \subseteq Users \X (1 .. MaxDecs) \X Int
  <2>1. PICK x \in Int : results' = results \union {<<u, count[u].dec, x>>}
    <3>1. ses.id \in Int /\ -1 \in Int
      BY PartTypes DEF IInv
    <3> QED BY <3>1 DEF DecRead
  <2>2. count[u].dec \in 0 .. MaxDecs /\ count[u].dec >= 1
    BY <1>1 DEF IInv, TypeOK, UserInv
  <2>3. <<u, count[u].dec, x>> \in Users \X (1 .. MaxDecs) \X Int
    BY <2>2, ConstantsOK
  <2>4. results \subseteq Users \X (1 .. MaxDecs) \X Int
    BY DEF IInv, TypeOK
  <2> QED BY <2>1, <2>3, <2>4
<1>3. TypeOK'
  BY <1>1, <1>2 DEF IInv, TypeOK
<1>4. UserInv(u)'
  BY <1>1 DEF IInv, TypeOK, UserInv, InTransaction, Nodes
<1> QED BY <1>1, <1>3, <1>4, ThreadStep DEF IInv, TypeOK, PoolItem, Nodes

\* The threads with a node and the connections in use are equally many, and
\* nobody else is among them: so while a thread looks for a connection and
\* none is free, there is room for one more.
LEMMA RoomForOne ==
  ASSUME IInv, NEW u \in Users, pc[u] = "idle", FirstFree = {}
  PROVE  Len(pool) + Cardinality(Cloning \union {u}) <= Cardinality(Users)
<1> DEFINE Holders == {v \in Users : trx[v].node # 0}
           node == [v \in Holders |-> trx[v].node]
           Busy == Cloning \union {u}
<1>1. pool \in Seq(PoolItem) /\ Len(pool) \in Nat /\ Nodes = 1 .. Len(pool)
  BY PoolTypes DEF IInv, TypeOK, PoolItem
<1>2. \A i \in Nodes : \E v \in Users : trx[v].node = i
  BY <1>1, NothingFree DEF IInv, PoolInv
<1>3. \A v \in Holders : trx[v].node \in Nodes
  <2> SUFFICES ASSUME NEW v \in Users, trx[v].node # 0 PROVE trx[v].node \in Nodes
    OBVIOUS
  <2> QED BY DEF IInv, UserInv, NoTrx
<1>4. ExistsBijection(Holders, Nodes)
  <2>1. node \in [Holders -> Nodes]
    BY <1>3
  <2>2. \A a, b \in Holders : node[a] = node[b] => a = b
    BY DEF IInv, PoolInv
  <2>3. \A i \in Nodes : \E a \in Holders : node[a] = i
    <3> SUFFICES ASSUME NEW i \in Nodes PROVE \E a \in Holders : trx[a].node = i
      OBVIOUS
    <3>1. i # 0
      BY <1>1
    <3> QED BY <1>2, <3>1
  <2> HIDE DEF node, Holders
  <2>4. node \in Bijection(Holders, Nodes)
    BY <2>1, <2>2, <2>3 DEF Bijection, Injection, Surjection, IsInjective
  <2> QED BY <2>4 DEF ExistsBijection
<1>5. IsFiniteSet(Users) /\ Holders \subseteq Users /\ Busy \subseteq Users
  BY AdblAssumption DEF Cloning
<1>6. IsFiniteSet(Holders) /\ IsFiniteSet(Busy) /\ IsFiniteSet(Holders \union Busy)
      /\ Cardinality(Holders \union Busy) <= Cardinality(Users)
  BY <1>5, FS_Subset, FS_Union
<1>7. Cardinality(Holders) = Len(pool)
  <2>1. Cardinality(Nodes) = Cardinality(Holders)
    BY <1>4, <1>6, FS_Bijection
  <2>2. Cardinality(Nodes) = Len(pool)
    BY <1>1, FS_Interval
  <2> QED BY <2>1, <2>2
<1>8. Holders \intersect Busy = {}
  <2> SUFFICES ASSUME NEW v \in Busy PROVE trx[v].node = 0
    OBVIOUS
  <2>1. v \in Users /\ pc[v] \notin InTransaction
    BY DEF Cloning, InTransaction
  <2> QED BY <2>1 DEF IInv, UserInv, NoTrx
<1>9. Cardinality(Holders \union Busy) = Cardinality(Holders) + Cardinality(Busy)
  <2>1. Cardinality(Holders \union Busy) =
          Cardinality(Holders) + Cardinality(Busy) - Cardinality(Holders \intersect Busy)
    BY <1>6, FS_Union
  <2>2. Cardinality(Holders \intersect Busy) = 0
    BY <1>8, FS_EmptySet
  <2>3. Cardinality(Holders) \in Nat /\ Cardinality(Busy) \in Nat
    BY <1>6, FS_CardinalityType
  <2> HIDE DEF Holders, Busy
  <2> QED BY <2>1, <2>2, <2>3
<1> HIDE DEF Holders
<1> QED BY <1>6, <1>7, <1>9

LEMMA TrxNewStep ==
  ASSUME IInv, NEW u \in Users, TrxNew(u)
  PROVE  IInv'
<1>1. /\ pc[u] = "idle" /\ pc[u] \notin InTransaction
      /\ count[u].trx < MaxTrx
      /\ count' = [count EXCEPT ![u].trx = @ + 1]
      /\ UNCHANGED <<holder, ses, results, tries, server, store, told, faults>>
  BY DEF TrxNew, sesVars, InTransaction
<1>2. /\ pool \in Seq(PoolItem) /\ Len(pool) \in Nat /\ Nodes = 1 .. Len(pool)
      /\ trx[u] = NoTrx
  BY <1>1, PoolTypes DEF IInv, TypeOK, PoolItem, UserInv
<1>3. /\ count' \in [Users -> [trx : 0 .. MaxTrx, dec : 0 .. MaxDecs]]
      /\ count'[u].trx >= 1
      /\ \A v \in Users \ {u} : count'[v] = count[v]
  <2>1. count \in [Users -> [trx : 0 .. MaxTrx, dec : 0 .. MaxDecs]]
    BY DEF IInv, TypeOK
  <2>2. count[u].trx + 1 \in 0 .. MaxTrx /\ count[u].trx \in Nat
    BY <1>1, PartTypes, ConstantsOK DEF IInv
  <2>3. [count[u] EXCEPT !.trx = @ + 1] \in [trx : 0 .. MaxTrx, dec : 0 .. MaxDecs]
    BY <2>1, <2>2
  <2>4. count' = [count EXCEPT ![u] = [count[u] EXCEPT !.trx = @ + 1]]
    BY <1>1
  <2>5. count'[u].trx = count[u].trx + 1
    BY <1>1, <2>1
  <2> QED BY <2>1, <2>2, <2>3, <2>4, <2>5
<1>4. CASE FirstFree = {}
  <2>1. pc' = [pc EXCEPT ![u] = "clone"] /\ pool' = pool /\ trx' = trx
    BY <1>4 DEF TrxNew, Goto
  <2>2. TypeOK'
    BY <1>1, <1>3, <2>1 DEF IInv, TypeOK
  <2>3. ASSUME NEW v \in Users PROVE UserInv(v)'
    <3>1. CASE v = u
      BY <1>2, <1>3, <2>1, <3>1 DEF IInv, TypeOK, UserInv, InTransaction
    <3>2. CASE v # u
      BY <1>3, <2>1, <3>2 DEF IInv, TypeOK, UserInv, InTransaction, Nodes
    <3> QED BY <3>1, <3>2
  <2>4. Cloning' = Cloning \union {u}
    BY <2>1 DEF Cloning, IInv, TypeOK
  <2>5. PoolInv'
    BY <1>1, <1>4, <2>1, <2>4, RoomForOne DEF IInv, PoolInv, Nodes
  <2> QED BY <2>2, <2>3, <2>5 DEF IInv
<1>5. CASE FirstFree # {}
  <2>1. PICK i \in FirstFree :
          /\ pool' = [pool EXCEPT ![i].used = TRUE]
          /\ trx' = [trx EXCEPT ![u] = [NoTrx EXCEPT !.node = i]]
          /\ pc' = [pc EXCEPT ![u] = "open"]
    BY <1>5 DEF TrxNew, Goto, Taken
  <2>2. i \in Nodes /\ ~ pool[i].used /\ i \in Nat \ {0}
    BY <1>2 DEF FirstFree, Nodes
  <2>3. /\ pool' \in Seq(PoolItem) /\ Len(pool') = Len(pool) /\ Nodes' = Nodes
        /\ pool'[i].used
        /\ \A j \in Nodes \ {i} : pool'[j] = pool[j]
    <3>1. pool[i] \in PoolItem /\ pool[i].conn \in Conns
      BY <1>2, <2>2, PoolTypes
    <3>2. [pool[i] EXCEPT !.used = TRUE] = [used |-> TRUE, conn |-> pool[i].conn]
      BY <2>2, <3>1, MarkedItem
    <3>3. pool' = [pool EXCEPT ![i] = [used |-> TRUE, conn |-> pool[i].conn]]
      BY <2>1, <3>2
    <3>4. /\ pool' \in Seq(PoolItem) /\ Len(pool') = Len(pool) /\ Nodes' = Nodes
          /\ pool'[i] = [used |-> TRUE, conn |-> pool[i].conn]
          /\ \A j \in Nodes \ {i} : pool'[j] = pool[j]
      BY <1>2, <2>2, <3>1, <3>3, ItemExcept
    <3> QED BY <3>4
  <2>4. /\ trx'[u].node = i
        /\ \A v \in Users \ {u} : trx'[v] = trx[v]
        /\ trx' \in [Users -> [node : Nat, inTrx : BOOLEAN, next : 1 .. Writes + 1]]
    <3>1. pool[i] \in PoolItem
      BY <1>2, <2>2, PoolTypes
    <3>2. /\ [NoTrx EXCEPT !.node = i] \in [node : Nat, inTrx : BOOLEAN, next : 1 .. Writes + 1]
          /\ [NoTrx EXCEPT !.node = i].node = i
      BY <2>2, <3>1, MarkedItem
    <3> QED BY <2>1, <3>2 DEF IInv, TypeOK
  <2>5. TypeOK'
    BY <1>1, <1>3, <2>1, <2>3, <2>4 DEF IInv, TypeOK, PoolItem
  <2>6. ASSUME NEW v \in Users PROVE UserInv(v)'
    <3>1. CASE v = u
      <4>1. pc'[u] = "open"
        BY <2>1 DEF IInv, TypeOK
      <4> QED BY <1>3, <2>2, <2>3, <2>4, <3>1, <4>1 DEF UserInv, InTransaction
    <3>2. CASE v # u
      BY <1>3, <2>1, <2>3, <2>4, <3>2 DEF IInv, TypeOK, UserInv, InTransaction
    <3> QED BY <3>1, <3>2
  <2>7. Cloning' = Cloning
    BY <1>1, <2>1 DEF Cloning, IInv, TypeOK
  <2>8. \A v \in Users : trx[v].node # i
    BY <2>2 DEF IInv, PoolInv
  <2>9. PoolInv'
    <3>1. ASSUME NEW v \in Users, NEW w \in Users,
                 trx'[v].node = trx'[w].node, trx'[v].node # 0
          PROVE  v = w
      BY <2>4, <2>8, <3>1 DEF IInv, PoolInv
    <3>2. ASSUME NEW j \in Nodes
          PROVE  pool'[j].used <=> \E v \in Users : trx'[v].node = j
      <4>1. CASE j = i
        BY <2>3, <2>4, <4>1
      <4>2. CASE j # i
        <5>1. pool'[j].used = pool[j].used
          BY <2>3, <4>2
        <5>2. trx'[u].node # j /\ trx[u].node # j
          BY <1>2, <2>4, <4>2 DEF NoTrx
        <5> QED BY <5>1, <5>2, <2>4 DEF IInv, PoolInv
      <4> QED BY <4>1, <4>2
    <3> QED BY <2>3, <2>7, <3>1, <3>2 DEF IInv, PoolInv
  <2> QED BY <2>5, <2>6, <2>9 DEF IInv
<1> QED BY <1>4, <1>5

LEMMA CloneStep ==
  ASSUME IInv, NEW u \in Users, Clone(u)
  PROVE  IInv'
<1>1. /\ pc[u] = "clone" /\ pc[u] \notin InTransaction
      /\ UNCHANGED <<holder, ses, results, tries, count, server, store, faults>>
  BY DEF Clone, sesVars, InTransaction
<1>2. /\ pool \in Seq(PoolItem) /\ Len(pool) \in Nat /\ Nodes = 1 .. Len(pool)
      /\ trx[u] = NoTrx /\ count[u].trx >= 1
  BY <1>1, PoolTypes DEF IInv, TypeOK, PoolItem, UserInv
<1>3. Cloning' = Cloning \ {u} /\ Cardinality(Cloning') + 1 = Cardinality(Cloning)
      /\ Cardinality(Cloning) \in Nat /\ Cardinality(Cloning') \in Nat
  <2>1. IsFiniteSet(Cloning) /\ u \in Cloning
    BY <1>1, AdblAssumption, FS_Subset DEF Cloning
  <2>2. Cloning' = Cloning \ {u}
    <3>1. PICK p \in {"open", "idle"} : pc' = [pc EXCEPT ![u] = p]
      BY DEF Clone, Goto
    <3> QED BY <3>1 DEF Cloning, IInv, TypeOK
  <2>3. IsFiniteSet(Cloning')
    BY <2>1, <2>2, FS_RemoveElement
  <2>4. Cardinality(Cloning) \in Nat /\ Cardinality(Cloning') \in Nat
    BY <2>1, <2>3, FS_CardinalityType
  <2>5. Cardinality(Cloning') = Cardinality(Cloning) - 1
    BY <2>1, <2>2, FS_RemoveElement
  <2> QED BY <2>2, <2>4, <2>5
<1>4. CASE ~ server.up
  <2>1. /\ pc' = [pc EXCEPT ![u] = "idle"] /\ pool' = pool /\ trx' = trx
        /\ told' = [told EXCEPT ![TrxOf(u)] = "error"]
    BY <1>4 DEF Clone, Goto
  <2>2. TypeOK'
    BY <1>1, <2>1 DEF IInv, TypeOK
  <2>3. ASSUME NEW v \in Users PROVE UserInv(v)'
    <3>1. CASE v = u
      BY <1>1, <1>2, <2>1, <3>1 DEF IInv, TypeOK, UserInv, InTransaction
    <3>2. CASE v # u
      BY <1>1, <2>1, <3>2 DEF IInv, TypeOK, UserInv, InTransaction, Nodes
    <3> QED BY <3>1, <3>2
  <2>4. Len(pool') + Cardinality(Cloning') <= Cardinality(Users)
    BY <1>2, <1>3, <2>1, ConstantsOK DEF IInv, PoolInv
  <2>5. PoolInv'
    BY <2>1, <2>4 DEF IInv, PoolInv, Nodes
  <2> QED BY <2>2, <2>3, <2>5 DEF IInv
<1>5. CASE server.up
  <2> DEFINE n == Len(pool) + 1
  <2>1. /\ pool' = Append(pool, [used |-> TRUE, conn |-> Connected])
        /\ trx' = [trx EXCEPT ![u] = [NoTrx EXCEPT !.node = n]]
        /\ pc' = [pc EXCEPT ![u] = "open"]
        /\ told' = told
    BY <1>5 DEF Clone, Goto
  <2>2. [used |-> TRUE, conn |-> Connected] \in PoolItem /\ n \in Nat \ {0}
    BY <1>2, ConnTypes DEF IInv, PoolItem
  <2>3. /\ pool' \in Seq(PoolItem) /\ Len(pool') = n /\ Nodes' = 1 .. n
        /\ pool'[n].used
        /\ \A j \in Nodes : pool'[j] = pool[j]
    <3>1. /\ pool' \in Seq(PoolItem) /\ Len(pool') = n
          /\ pool'[n] = [used |-> TRUE, conn |-> Connected]
          /\ \A j \in 1 .. Len(pool) : pool'[j] = pool[j]
      BY <1>2, <2>1, <2>2, AppendProperties
    <3>2. Nodes' = 1 .. n
      BY <3>1, LenProperties DEF Nodes
    <3> QED BY <1>2, <3>1, <3>2
  <2>4. /\ trx'[u].node = n
        /\ \A v \in Users \ {u} : trx'[v] = trx[v]
        /\ trx' \in [Users -> [node : Nat, inTrx : BOOLEAN, next : 1 .. Writes + 1]]
    <3>1. /\ [NoTrx EXCEPT !.node = n] \in [node : Nat, inTrx : BOOLEAN, next : 1 .. Writes + 1]
          /\ [NoTrx EXCEPT !.node = n].node = n
      BY <2>2, MarkedItem
    <3> QED BY <2>1, <3>1 DEF IInv, TypeOK
  <2>5. TypeOK'
    BY <1>1, <2>1, <2>3, <2>4 DEF IInv, TypeOK, PoolItem
  <2>6. ASSUME NEW v \in Users PROVE UserInv(v)'
    <3>1. CASE v = u
      <4>1. pc'[u] = "open"
        BY <2>1 DEF IInv, TypeOK
      <4>2. n \in Nodes'
        BY <2>2, <2>3
      <4> QED BY <1>1, <1>2, <2>4, <3>1, <4>1, <4>2 DEF UserInv, InTransaction
    <3>2. CASE v # u
      <4>1. \A i \in Nodes : i \in Nodes'
        BY <1>2, <2>3
      <4> QED BY <1>1, <2>1, <2>4, <3>2, <4>1 DEF IInv, TypeOK, UserInv, InTransaction
    <3> QED BY <3>1, <3>2
  <2>7. \A v \in Users : trx[v].node \in Nodes \union {0}
    BY DEF IInv, UserInv, NoTrx
  <2>8. PoolInv'
    <3>0. n \notin Nodes
      BY <1>2
    <3>1. ASSUME NEW v \in Users, NEW w \in Users,
                 trx'[v].node = trx'[w].node, trx'[v].node # 0
          PROVE  v = w
      BY <2>2, <2>4, <2>7, <3>0, <3>1 DEF IInv, PoolInv
    <3>2. ASSUME NEW j \in Nodes'
          PROVE  pool'[j].used <=> \E v \in Users : trx'[v].node = j
      <4>1. CASE j = n
        BY <2>3, <2>4, <4>1
      <4>2. CASE j # n
        <5>1. j \in Nodes /\ pool'[j].used = pool[j].used
          BY <1>2, <2>3, <4>2
        <5>2. trx'[u].node # j /\ trx[u].node # j
          BY <1>2, <2>4, <4>2, <5>1 DEF NoTrx
        <5> QED BY <5>1, <5>2, <2>4 DEF IInv, PoolInv
      <4> QED BY <4>1, <4>2
    <3>3. Len(pool') + Cardinality(Cloning') <= Cardinality(Users)
      BY <1>2, <1>3, <2>3, ConstantsOK DEF IInv, PoolInv
    <3> QED BY <3>1, <3>2, <3>3 DEF PoolInv
  <2> QED BY <2>5, <2>6, <2>8 DEF IInv
<1> QED BY <1>4, <1>5

\* The end of a transaction: its connection goes back to the pool.
LEMMA ReleaseStep ==
  ASSUME IInv, NEW u \in Users, pc[u] \in InTransaction,
         NEW conn \in Conns, NEW answer \in {"stored", "error", "rolled back"},
         Release(u, conn, answer),
         store' \subseteq Trxs \X Statements,
         faults' \in [losses : 0 .. MaxLosses, stops : 0 .. MaxStops],
         UNCHANGED <<sesVars, tries, count, server>>
  PROVE  IInv'
<1> DEFINE n == trx[u].node
<1>1. /\ UNCHANGED <<holder, ses, results, tries, count, server>>
      /\ pool' = [pool EXCEPT ![n] = [used |-> FALSE, conn |-> conn]]
      /\ trx' = [trx EXCEPT ![u] = NoTrx]
      /\ told' = [told EXCEPT ![TrxOf(u)] = answer]
      /\ pc' = [pc EXCEPT ![u] = "idle"]
  BY DEF Release, sesVars, Goto
<1>0. 0 \notin Nodes
  BY NodesArePositive
<1>2. /\ pool \in Seq(PoolItem) /\ Len(pool) \in Nat /\ Nodes = 1 .. Len(pool)
      /\ n \in Nodes /\ n \in Nat \ {0}
  BY PoolTypes, UserFacts DEF IInv, TypeOK, PoolItem
<1>3. /\ pool' \in Seq(PoolItem) /\ Len(pool') = Len(pool) /\ Nodes' = Nodes
      /\ ~ pool'[n].used
      /\ \A j \in Nodes \ {n} : pool'[j] = pool[j]
  <2>1. /\ pool' \in Seq(PoolItem) /\ Len(pool') = Len(pool) /\ Nodes' = Nodes
        /\ \A j \in Nodes \ {n} : pool'[j] = pool[j]
    BY <1>1, <1>2, ItemExcept
  <2>2. pool'[n].used <=> FALSE
    BY <1>1, <1>2, ItemMark
  <2> QED BY <2>1, <2>2
<1>4. /\ trx'[u] = NoTrx /\ NoTrx.node = 0
      /\ \A v \in Users \ {u} : trx'[v] = trx[v]
      /\ trx' \in [Users -> [node : Nat, inTrx : BOOLEAN, next : 1 .. Writes + 1]]
  BY <1>1, NoTrxType DEF IInv, TypeOK
<1>5. TypeOK'
  BY <1>1, <1>3, <1>4 DEF IInv, TypeOK, PoolItem
<1>6. ASSUME NEW v \in Users PROVE UserInv(v)'
  <2>1. CASE v = u
    BY <1>1, <1>4, <2>1 DEF IInv, TypeOK, UserInv, InTransaction
  <2>2. CASE v # u
    BY <1>1, <1>3, <1>4, <2>2 DEF IInv, TypeOK, UserInv, InTransaction
  <2> QED BY <2>1, <2>2
<1>7. Cloning' = Cloning
  BY <1>1 DEF Cloning, IInv, TypeOK, InTransaction
<1>8. PoolInv'
  <2>1. ASSUME NEW v \in Users, NEW w \in Users,
               trx'[v].node = trx'[w].node, trx'[v].node # 0
        PROVE  v = w
    <3>1. v # u
      BY <1>4, <2>1
    <3>2. w # u
      BY <1>4, <2>1
    <3>3. trx[v].node = trx[w].node /\ trx[v].node # 0
      BY <1>4, <2>1, <3>1, <3>2
    <3> QED BY <3>3 DEF IInv, PoolInv
  <2>2. ASSUME NEW j \in Nodes
        PROVE  pool'[j].used <=> \E v \in Users : trx'[v].node = j
    <3>1. CASE j = n
      <4>1. \A v \in Users \ {u} : trx[v].node # n
        BY <1>2 DEF IInv, PoolInv
      <4>2. trx'[u].node # n
        BY <1>2, <1>4
      <4> QED BY <1>3, <1>4, <3>1, <4>1, <4>2
    <3>2. CASE j # n
      <4>1. pool'[j].used = pool[j].used
        BY <1>3, <3>2
      <4>2. trx'[u].node # j /\ trx[u].node # j
        <5>1. j # 0
          BY <1>0
        <5> QED BY <1>4, <3>2, <5>1
      <4>3. pool[j].used <=> \E v \in Users : trx[v].node = j
        BY DEF IInv, PoolInv
      <4> QED BY <4>1, <4>2, <4>3, <1>4
    <3> QED BY <3>1, <3>2
  <2> QED BY <1>3, <1>7, <2>1, <2>2 DEF IInv, PoolInv
<1> QED BY <1>5, <1>6, <1>8 DEF IInv

LEMMA CommitStep ==
  ASSUME IInv, NEW u \in Users, Commit(u)
  PROVE  IInv'
<1> DEFINE c == ConnOf(u)
           after == [c EXCEPT !.open = FALSE, !.pending = {}]
<1>1. pc[u] \in InTransaction
  BY DEF Commit, InTransaction
<1>2. c \in Conns /\ after \in Conns /\ Dropped(after) \in Conns
  <2>1. c \in Conns
    BY <1>1, UserFacts
  <2>2. after \in Conns
    BY <2>1 DEF Conns
  <2> QED BY <2>1, <2>2, ConnTypes DEF IInv
<1>3. PICK break \in Breaks(c), done \in BOOLEAN :
        /\ store' = IF done THEN store \union c.pending ELSE store
        /\ Release(u, IF break THEN Dropped(after) ELSE after,
                   IF done /\ ~ break THEN "stored" ELSE "error")
        /\ CountBreak(break)
  BY DEF Commit
<1>4. faults' \in [losses : 0 .. MaxLosses, stops : 0 .. MaxStops]
  BY <1>3, BreakTypes DEF IInv
<1>5. store' \subseteq Trxs \X Statements
  BY <1>2, <1>3 DEF IInv, TypeOK, Conns
<1>6. UNCHANGED <<sesVars, tries, count, server>>
  BY DEF Commit
<1> QED BY <1>1, <1>2, <1>3, <1>4, <1>5, <1>6, ReleaseStep

LEMMA RollbackStep ==
  ASSUME IInv, NEW u \in Users, Rollback(u)
  PROVE  IInv'
<1> DEFINE c == ConnOf(u)
           after == [c EXCEPT !.open = FALSE, !.pending = {}]
<1>1. pc[u] \in InTransaction
  BY DEF Rollback, InTransaction
<1>2. c \in Conns /\ after \in Conns
  <2>1. c \in Conns
    BY <1>1, UserFacts
  <2> QED BY <2>1 DEF Conns
<1>3. Release(u, IF trx[u].inTrx THEN after ELSE c, "rolled back")
  BY DEF Rollback
<1>4. /\ UNCHANGED <<sesVars, tries, count, server>>
      /\ store' \subseteq Trxs \X Statements
      /\ faults' \in [losses : 0 .. MaxLosses, stops : 0 .. MaxStops]
  BY DEF Rollback, IInv, TypeOK
<1> QED BY <1>1, <1>2, <1>3, <1>4, ReleaseStep

LEMMA ServerStep ==
  ASSUME IInv, DropConnection \/ Stop \/ Restart
  PROVE  IInv'
<1>1. /\ pool \in Seq(PoolItem) /\ Len(pool) \in Nat /\ Nodes = 1 .. Len(pool)
      /\ faults \in [losses : 0 .. MaxLosses, stops : 0 .. MaxStops]
      /\ server \in [up : BOOLEAN, cnt : Int]
      /\ ses \in Conns /\ Dropped(ses) \in Conns
  BY PoolTypes, ConnTypes DEF IInv, TypeOK, PoolItem
<1>2. CASE DropConnection
  <2>1. faults' \in [losses : 0 .. MaxLosses, stops : 0 .. MaxStops]
    <3>1. faults.losses + 1 \in 0 .. MaxLosses
      BY <1>1, <1>2, ConstantsOK DEF DropConnection
    <3> QED BY <1>1, <1>2, <3>1 DEF DropConnection
  <2>2. ses' \in Conns
    BY <1>1, <1>2 DEF DropConnection
  <2>3. /\ pool' \in Seq(PoolItem) /\ Len(pool') = Len(pool) /\ Nodes' = Nodes
        /\ \A j \in Nodes : pool'[j].used = pool[j].used
    <3>1. CASE pool' = pool
      BY <1>1, <3>1 DEF Nodes
    <3>2. CASE \E i \in Nodes : pool' = [pool EXCEPT ![i].conn = Dropped(@)]
      <4>1. PICK i \in Nodes : pool' = [pool EXCEPT ![i].conn = Dropped(@)]
        BY <3>2
      <4>2. Dropped(pool[i].conn) \in Conns
        BY <1>1, PoolTypes, ConnTypes DEF IInv
      <4>3. pool' = [pool EXCEPT ![i].conn = Dropped(pool[i].conn)]
        BY <4>1
      <4> QED BY <1>1, <4>2, <4>3, ConnExcept
    <3> QED BY <1>2, <3>1, <3>2 DEF DropConnection, Nodes
  <2>4. server' \in [up : BOOLEAN, cnt : Int]
    BY <1>1, <1>2 DEF DropConnection
  <2>5. UNCHANGED <<holder, pc, tries, trx, count, store, told, results>>
    BY <1>2 DEF DropConnection
  <2> QED BY <2>1, <2>2, <2>3, <2>4, <2>5, ConnsChanged
<1>3. CASE Stop
  <2>1. faults' \in [losses : 0 .. MaxLosses, stops : 0 .. MaxStops]
    <3>1. faults.stops + 1 \in 0 .. MaxStops
      BY <1>1, <1>3, ConstantsOK DEF Stop
    <3> QED BY <1>1, <1>3, <3>1 DEF Stop
  <2>2. ses' \in Conns
    BY <1>1, <1>3 DEF Stop
  <2>3. pool' = [i \in 1 .. Len(pool) |-> [pool[i] EXCEPT !.conn = Dropped(@)]]
    BY <1>1, <1>3 DEF Stop, Nodes
  <2>4. \A i \in Nodes : /\ [pool[i] EXCEPT !.conn = Dropped(@)] \in PoolItem
                         /\ [pool[i] EXCEPT !.conn = Dropped(@)].used = pool[i].used
    <3> SUFFICES ASSUME NEW i \in Nodes
                 PROVE  /\ [pool[i] EXCEPT !.conn = Dropped(@)] \in PoolItem
                        /\ [pool[i] EXCEPT !.conn = Dropped(@)].used = pool[i].used
      OBVIOUS
    <3>1. pool[i] \in PoolItem /\ Dropped(pool[i].conn) \in Conns
      BY <1>1, PoolTypes, ConnTypes DEF IInv
    <3> QED BY <3>1 DEF PoolItem
  <2>5. /\ pool' \in Seq(PoolItem) /\ Len(pool') = Len(pool)
    BY <1>1, <2>3, <2>4, LenProperties
  <2>6. Nodes' = Nodes
    BY <1>1, <2>3 DEF Nodes
  <2>7. \A j \in Nodes : pool'[j].used = pool[j].used
    BY <1>1, <2>3, <2>4
  <2>8. server' \in [up : BOOLEAN, cnt : Int]
    BY <1>1, <1>3 DEF Stop
  <2>9. UNCHANGED <<holder, pc, tries, trx, count, store, told, results>>
    BY <1>3 DEF Stop
  <2> QED BY <2>1, <2>2, <2>5, <2>6, <2>7, <2>8, <2>9, ConnsChanged
<1>4. CASE Restart
  <2>1. /\ server' \in [up : BOOLEAN, cnt : Int]
        /\ pool' = pool /\ ses' = ses /\ faults' = faults
        /\ UNCHANGED <<holder, pc, tries, trx, count, store, told, results>>
    BY <1>1, <1>4 DEF Restart, poolVars, sesVars
  <2> QED BY <1>1, <2>1, ConnsChanged DEF Nodes
<1> QED BY <1>2, <1>3, <1>4

-----------------------------------------------------------------------------
(* The invariant holds in every state. *)

LEMMA InitIInv ==
  ASSUME Init
  PROVE  IInv
<1>1. TypeOK
  <2>1. Fresh \in Conns
    BY DEF Fresh, Conns
  <2>2. NoTrx \in [node : Nat, inTrx : BOOLEAN, next : 1 .. Writes + 1]
    BY ConstantsOK DEF NoTrx
  <2>3. pool \in Seq([used : BOOLEAN, conn : Conns])
    BY EmptySeq DEF Init
  <2> QED BY <2>1, <2>2, <2>3, ConstantsOK DEF Init, TypeOK
<1>2. \A u \in Users : UserInv(u)
  BY DEF Init, UserInv, InTransaction
<1>3. Cloning = {} /\ Nodes = {} /\ Len(pool) = 0
  BY DEF Init, Cloning, Nodes
<1>4. PoolInv
  BY <1>3, FS_EmptySet, ConstantsOK DEF PoolInv, Init, NoTrx
<1> QED BY <1>1, <1>2, <1>4 DEF IInv

LEMMA StepIInv ==
  ASSUME IInv, [Next]_vars
  PROVE  IInv'
<1>1. ASSUME NEW u \in Users, UserStep(u) PROVE IInv'
  <2>1. CASE Ins(u) \/ InsOrSet(u) \/ Set(u) \/ Del(u)
    <3>1. PICK unsent \in {"open", "failed"} : Try(u, unsent)
      BY <2>1 DEF Ins, InsOrSet, Set, Del
    <3>2. /\ pc[u] = "statement"
          /\ UNCHANGED <<sesVars, count, server, told>>
      BY <2>1 DEF Ins, InsOrSet, Set, Del, Statement
    <3> QED BY <3>1, <3>2, TryStep
  <2> QED BY <1>1, <2>1, CloneStep, NextStatementStep, BeginTryStep, CommitStep,
             RollbackStep, DecTryStep, DecReadStep DEF UserStep
<1>2. ASSUME NEW u \in Users, TrxNew(u) \/ SessionCall(u) PROVE IInv'
  BY <1>2, TrxNewStep, SessionCallStep
<1>3. CASE DropConnection \/ Stop \/ Restart
  BY <1>3, ServerStep
<1>4. CASE UNCHANGED vars
  BY <1>4 DEF vars, IInv, TypeOK, UserInv, PoolInv, Nodes, Cloning, TrxOf
<1> QED BY <1>1, <1>2, <1>3, <1>4 DEF Next

\* The variables keep their types, whatever fails (the whole module Adbl).
THEOREM TypeCorrect == Spec => []TypeOK
<1>1. Init => IInv
  BY InitIInv
<1>2. IInv /\ [Next]_vars => IInv'
  BY StepIInv
<1>3. IInv => TypeOK
  BY DEF IInv
<1> QED BY <1>1, <1>2, <1>3, PTL DEF Spec

\* A connection of the pool serves one transaction at a time, the marks are
\* right, and there are never more connections than threads (adbl_pool.c with
\* adbl_trx_new, adbl_trx_commit and adbl_trx_rollback), for every number of
\* threads, also when connections break under a transaction.
THEOREM PoolCorrect == Spec => []PoolIsExact
<1>1. Init => IInv
  BY InitIInv
<1>2. IInv /\ [Next]_vars => IInv'
  BY StepIInv
<1>3. IInv => PoolIsExact
  <2> SUFFICES ASSUME IInv PROVE PoolIsExact
    OBVIOUS
  <2>1. \A u, v \in Users : trx[u].node = trx[v].node /\ trx[u].node # 0 => u = v
    BY DEF IInv, PoolInv
  <2>2. {i \in DOMAIN pool : pool[i].used} = {trx[u].node : u \in Users} \ {0}
    <3>1. \A u \in Users : trx[u].node \in Nodes \union {0}
      BY DEF IInv, UserInv, NoTrx
    <3>2. 0 \notin Nodes
      BY NodesArePositive
    <3>3. \A i \in Nodes : pool[i].used <=> \E u \in Users : trx[u].node = i
      BY DEF IInv, PoolInv
    <3> QED BY <3>1, <3>2, <3>3 DEF Nodes
  <2>3. Len(pool) <= Cardinality(Users)
    <3>1. IsFiniteSet(Cloning)
      BY AdblAssumption, FS_Subset DEF Cloning
    <3>2. Cardinality(Cloning) \in Nat /\ Len(pool) \in Nat
      BY <3>1, FS_CardinalityType, PoolTypes DEF IInv, TypeOK, PoolItem
    <3> QED BY <3>2, ConstantsOK DEF IInv, PoolInv
  <2> QED BY <2>1, <2>2, <2>3 DEF PoolIsExact
<1> QED BY <1>1, <1>2, <1>3, PTL DEF Spec

-----------------------------------------------------------------------------
(* What the retries achieve.                                               *)
(*                                                                         *)
(* From here on connections are lost only while no transaction is open on  *)
(* them, and fewer faults happen than a statement has tries: a connection  *)
(* that breaks with an answer on its way can swallow a decrement or a      *)
(* COMMIT (AdblLostDec), and a decrement whose tries are used up returns   *)
(* a value nobody counted.                                                 *)

FewFaults == LoseBusy = FALSE /\ MaxLosses + MaxStops < MaxRetries

Faults == faults.losses + faults.stops
Miss(c) == IF c.link = "up" THEN 0 ELSE 1

\* Every failed try has a fault of its own.
FaultInv ==
  /\ Miss(ses) <= Faults
  /\ \A i \in Nodes : Miss(pool[i].conn) <= Faults
  /\ ~ server.up => 1 <= Faults
  /\ \A u \in Users :
       /\ pc[u] \notin {"begin", "statement", "dec"} => tries[u] = 0
       /\ pc[u] = "dec" => tries[u] + Miss(ses) <= Faults
       /\ pc[u] \in {"begin", "statement"} => tries[u] + Miss(ConnOf(u)) <= Faults

Good == {r \in results : r[3] # -1}
Reading == \E u \in Users : pc[u] = "read"

\* The value that was counted down to and not returned yet is the server's.
DecInv ==
  /\ \A u \in Users : pc[u] \in {"dec", "read", "broken"} <=> holder = u
  /\ \A u \in Users : pc[u] = "read" => ses.id = server.cnt /\ server.cnt < Start
  /\ server.cnt \in 0 .. Start
  /\ \A r \in results :
       /\ r[2] <= count[r[1]].dec
       /\ pc[r[1]] \in {"dec", "read", "broken"} => r[2] # count[r[1]].dec
  /\ \A r, s \in results : r[1] = s[1] /\ r[2] = s[2] => r = s
  /\ \A r, s \in Good : r[3] = s[3] => r = s
  /\ {r[3] : r \in Good} = (IF Reading THEN server.cnt + 1 ELSE server.cnt) .. Start - 1

\* A connection is in a transaction exactly while its user is, and what it
\* has not stored yet are the statements the transaction has done.
StoreInv ==
  /\ \A i \in Nodes : LET c == pool[i].conn IN
       /\ c.open => c.link = "up" /\ pool[i].used
       /\ ~ c.open => c.pending = {}
  /\ \A u \in Users : pc[u] \in InTransaction =>
       /\ ConnOf(u).open <=> trx[u].inTrx
       /\ trx[u].inTrx => ConnOf(u).pending = {TrxOf(u)} \X (1 .. trx[u].next - 1)
       /\ ~ trx[u].inTrx => trx[u].next = 1
       /\ pc[u] = "statement" => trx[u].inTrx
       /\ pc[u] = "begin" => ~ trx[u].inTrx
  /\ \A u \in Users : \A k \in 1 .. MaxTrx :
       \/ k > count[u].trx
       \/ k = count[u].trx /\ pc[u] \in InTransaction \union {"clone"}
       => told[<<u, k>>] = "nothing"

JInv == IInv /\ FaultInv /\ DecInv /\ StoreInv

LEMMA FaultsType ==
  ASSUME TypeOK
  PROVE  /\ faults.losses \in 0 .. MaxLosses /\ faults.stops \in 0 .. MaxStops
         /\ faults = [losses |-> faults.losses, stops |-> faults.stops]
         /\ Faults \in Nat
         /\ FewFaults => Faults < MaxRetries
<1>1. faults \in [losses : 0 .. MaxLosses, stops : 0 .. MaxStops]
  BY DEF TypeOK
<1>2. faults.losses \in 0 .. MaxLosses /\ faults.stops \in 0 .. MaxStops
  BY <1>1
<1> QED BY <1>1, <1>2, ConstantsOK DEF Faults, FewFaults

\* No connection breaks under a statement.
LEMMA NoBreak ==
  ASSUME TypeOK, FewFaults, NEW c, NEW b \in Breaks(c), CountBreak(b)
  PROVE  b = FALSE /\ faults' = faults
<1>1. b = FALSE
  BY DEF Breaks, FewFaults
<1>2. faults' = [faults EXCEPT !.losses = @ + 0]
  BY <1>1 DEF CountBreak
<1>3. faults' = faults
  BY <1>2, FaultsType
<1> QED BY <1>1, <1>3

\* A statement with a fault for each of its tries has a try left.
LEMMA NotExhausted ==
  ASSUME TypeOK, FewFaults, NEW u \in Users, tries[u] + 1 <= Faults
  PROVE  ~ Exhausted(u)
<1>1. tries[u] \in Nat
  BY PartTypes
<1> QED BY <1>1, FaultsType, ConstantsOK DEF Exhausted

\* One turn of adbl_pvd_begin: it begins, or connects anew, or gives up
\* because nobody answers.
LEMMA BeginTryFacts ==
  ASSUME IInv, FaultInv, FewFaults, NEW u \in Users, BeginTry(u)
  PROVE  /\ faults' = faults
         /\ \/ /\ ConnOf(u).link = "up"
               /\ pool' = [pool EXCEPT ![trx[u].node].conn = [ConnOf(u) EXCEPT !.open = TRUE]]
               /\ trx' = [trx EXCEPT ![u].inTrx = TRUE]
               /\ tries' = [tries EXCEPT ![u] = 0]
               /\ pc' = [pc EXCEPT ![u] = "statement"]
            \/ /\ ConnOf(u).link # "up"
               /\ pool' = [pool EXCEPT ![trx[u].node].conn = Connected]
               /\ trx' = trx
               /\ \/ /\ server.up
                     /\ tries' = [tries EXCEPT ![u] = @ + 1]
                     /\ pc' = pc
                  \/ /\ ~ server.up
                     /\ tries' = [tries EXCEPT ![u] = 0]
                     /\ pc' = [pc EXCEPT ![u] = "failed"]
<1>1. PICK break \in Breaks(ConnOf(u)) :
        /\ CountBreak(break)
        /\ IF ConnOf(u).link = "up" /\ ~ break
           THEN /\ pool' = [pool EXCEPT ![trx[u].node].conn.open = TRUE]
                /\ InTrx(u)
                /\ tries' = [tries EXCEPT ![u] = 0]
                /\ Goto(u, "statement")
           ELSE /\ pool' = [pool EXCEPT ![trx[u].node].conn = Connected]
                /\ CheckError(u, "statement", "failed")
                /\ IF Exhausted(u) THEN InTrx(u) ELSE UNCHANGED trx
  BY DEF BeginTry
<1>2. break = FALSE /\ faults' = faults
  BY <1>1, NoBreak DEF IInv
<1>3. CASE ConnOf(u).link = "up"
  BY <1>1, <1>2, <1>3 DEF InTrx, Goto, ConnOf
<1>4. CASE ConnOf(u).link # "up"
  <2>1. /\ pool' = [pool EXCEPT ![trx[u].node].conn = Connected]
        /\ CheckError(u, "statement", "failed")
        /\ IF Exhausted(u) THEN InTrx(u) ELSE UNCHANGED trx
    BY <1>1, <1>4
  <2>2. tries[u] + 1 <= Faults
    <3>1. tries[u] + Miss(ConnOf(u)) <= Faults
      BY DEF BeginTry, FaultInv
    <3> QED BY <1>4, <3>1 DEF Miss
  <2>3. ~ Exhausted(u)
    BY <2>2, NotExhausted DEF IInv
  <2> QED BY <1>2, <1>4, <2>1, <2>3 DEF CheckError, Goto
<1> QED BY <1>3, <1>4

\* One turn of a statement in a transaction: the connection is there.
LEMMA TryFacts ==
  ASSUME IInv, StoreInv, FewFaults, NEW u \in Users, pc[u] = "statement",
         NEW unsent, Try(u, unsent)
  PROVE  LET w == <<TrxOf(u), trx[u].next>> IN
         /\ ConnOf(u).link = "up" /\ ConnOf(u).open /\ trx[u].inTrx
         /\ faults' = faults
         /\ store' = store
         /\ pool' = [pool EXCEPT ![trx[u].node].conn =
                       [ConnOf(u) EXCEPT !.pending = @ \union {w}]]
         /\ trx' = [trx EXCEPT ![u].next = @ + 1]
         /\ tries' = [tries EXCEPT ![u] = 0]
         /\ pc' = [pc EXCEPT ![u] = "open"]
<1> DEFINE w == <<TrxOf(u), trx[u].next>>
           c == ConnOf(u)
<1>1. pc[u] \in InTransaction /\ trx[u].node \in Nodes
  BY UserFacts DEF InTransaction
<1>2. c.link = "up" /\ c.open /\ trx[u].inTrx
  BY <1>1 DEF StoreInv, ConnOf
<1>3. PICK break \in Breaks(c), done \in BOOLEAN :
        /\ break \/ done = (c.link = "up")
        /\ CountBreak(break)
        /\ store' = IF done THEN Autocommitted(c, w) ELSE store
        /\ IF done /\ ~ break
           THEN /\ pool' = [pool EXCEPT ![trx[u].node].conn = Executed(c, w)]
                /\ StatementDone(u)
                /\ Goto(u, "open")
                /\ tries' = [tries EXCEPT ![u] = 0]
           ELSE /\ pool' = [pool EXCEPT ![trx[u].node].conn = Connected]
                /\ CheckError(u, unsent, "failed")
                /\ IF Exhausted(u) /\ unsent = "open" THEN StatementDone(u) ELSE UNCHANGED trx
  BY DEF Try
<1>4. break = FALSE /\ faults' = faults
  BY <1>3, NoBreak DEF IInv
<1>5. done
  BY <1>2, <1>3, <1>4
<1>6. store' = store
  BY <1>2, <1>3, <1>5 DEF Autocommitted
<1>7. /\ pool' = [pool EXCEPT ![trx[u].node].conn = [c EXCEPT !.pending = @ \union {w}]]
      /\ StatementDone(u) /\ Goto(u, "open")
      /\ tries' = [tries EXCEPT ![u] = 0]
  BY <1>2, <1>3, <1>4, <1>5 DEF Executed
<1> QED BY <1>2, <1>4, <1>6, <1>7 DEF StatementDone, Goto

\* One turn of adbl_pvd_atomic_dec.
LEMMA DecTryFacts ==
  ASSUME IInv, FaultInv, FewFaults, NEW u \in Users, DecTry(u)
  PROVE  /\ faults' = faults
         /\ \/ /\ ses.link = "up"
               /\ server' = [server EXCEPT !.cnt = @ - 1]
               /\ ses' = [ses EXCEPT !.id = server.cnt - 1]
               /\ tries' = [tries EXCEPT ![u] = 0]
               /\ pc' = [pc EXCEPT ![u] = "read"]
            \/ /\ ses.link # "up"
               /\ server' = server
               /\ ses' = Connected
               /\ \/ /\ server.up
                     /\ tries' = [tries EXCEPT ![u] = @ + 1]
                     /\ pc' = pc
                  \/ /\ ~ server.up
                     /\ tries' = [tries EXCEPT ![u] = 0]
                     /\ pc' = [pc EXCEPT ![u] = "broken"]
<1>1. PICK break \in Breaks(ses), done \in BOOLEAN :
        /\ break \/ done = (ses.link = "up")
        /\ CountBreak(break)
        /\ server' = IF done THEN [server EXCEPT !.cnt = @ - 1] ELSE server
        /\ IF done /\ ~ break
           THEN /\ ses' = [ses EXCEPT !.id = server.cnt - 1]
                /\ Goto(u, "read")
                /\ tries' = [tries EXCEPT ![u] = 0]
           ELSE ses' = Connected /\ CheckError(u, "read", "broken")
  BY DEF DecTry
<1>2. break = FALSE /\ faults' = faults
  BY <1>1, NoBreak DEF IInv
<1>3. CASE ses.link = "up"
  <2>1. done
    BY <1>1, <1>2, <1>3
  <2> QED BY <1>1, <1>2, <1>3, <2>1 DEF Goto
<1>4. CASE ses.link # "up"
  <2>1. ~ done
    BY <1>1, <1>2, <1>4
  <2>2. ses' = Connected /\ CheckError(u, "read", "broken") /\ server' = server
    BY <1>1, <2>1
  <2>3. tries[u] + 1 <= Faults
    <3>1. tries[u] + Miss(ses) <= Faults
      BY DEF DecTry, FaultInv
    <3> QED BY <1>4, <3>1 DEF Miss
  <2>4. ~ Exhausted(u)
    BY <2>3, NotExhausted DEF IInv
  <2> QED BY <1>2, <1>4, <2>2, <2>4 DEF CheckError, Goto
<1> QED BY <1>3, <1>4

-----------------------------------------------------------------------------
(* FaultInv is kept. *)

FaultOf(u) ==
  /\ pc[u] \notin {"begin", "statement", "dec"} => tries[u] = 0
  /\ pc[u] = "dec" => tries[u] + Miss(ses) <= Faults
  /\ pc[u] \in {"begin", "statement"} => tries[u] + Miss(ConnOf(u)) <= Faults

\* A step of one thread without a fault.
LEMMA FaultThread ==
  ASSUME FaultInv, NEW u \in Users, faults' = faults, server'.up = server.up,
         Miss(ses') <= Faults,
         \A i \in Nodes' : Miss(pool'[i].conn) <= Faults,
         \A v \in Users \ {u} : /\ pc'[v] = pc[v]
                                /\ tries'[v] = tries[v]
                                /\ pc[v] = "dec" => ses' = ses
                                /\ pc[v] \in InTransaction => ConnOf(v)' = ConnOf(v),
         FaultOf(u)'
  PROVE  FaultInv'
<1>1. Faults' = Faults
  BY DEF Faults
<1>2. ASSUME NEW v \in Users PROVE FaultOf(v)'
  <2>1. CASE v # u
    <3>1. FaultOf(v)
      BY DEF FaultInv, FaultOf
    <3> QED BY <1>1, <2>1, <3>1 DEF FaultOf, InTransaction
  <2> QED BY <2>1
<1>3. /\ Miss(ses)' <= Faults' /\ (~ server'.up => 1 <= Faults')
      /\ \A i \in Nodes' : Miss(pool'[i].conn) <= Faults'
  BY <1>1 DEF FaultInv, Miss
<1>4. \A v \in Users :
       /\ pc'[v] \notin {"begin", "statement", "dec"} => tries'[v] = 0
       /\ pc'[v] = "dec" => tries'[v] + Miss(ses)' <= Faults'
       /\ pc'[v] \in {"begin", "statement"} => tries'[v] + Miss(ConnOf(v)') <= Faults'
  BY <1>2 DEF FaultOf, Miss
<1> QED BY <1>3, <1>4 DEF FaultInv, Miss

\* What is said of the connections when only one of them is changed.
LEMMA OneConn ==
  ASSUME IInv, NEW u \in Users, pc[u] \in InTransaction,
         NEW c \in Conns, NEW b \in BOOLEAN,
         \/ pool' = [pool EXCEPT ![trx[u].node].conn = c]
         \/ pool' = [pool EXCEPT ![trx[u].node] = [used |-> b, conn |-> c]],
         \A v \in Users \ {u} : trx'[v] = trx[v]
  PROVE  /\ Nodes' = Nodes
         /\ pool'[trx[u].node].conn = c
         /\ \A i \in Nodes \ {trx[u].node} : pool'[i] = pool[i]
         /\ \A v \in Users \ {u} : pc[v] \in InTransaction =>
              trx[v].node # trx[u].node /\ ConnOf(v)' = ConnOf(v)
<1>1. pool \in Seq(PoolItem) /\ trx[u].node \in Nodes /\ trx[u].node # 0
  BY UserFacts DEF IInv, TypeOK, PoolItem
<1>2. /\ Nodes' = Nodes
      /\ pool'[trx[u].node].conn = c
      /\ \A i \in Nodes \ {trx[u].node} : pool'[i] = pool[i]
  <2>1. CASE pool' = [pool EXCEPT ![trx[u].node].conn = c]
    BY <1>1, <2>1, ConnExcept
  <2>2. CASE pool' = [pool EXCEPT ![trx[u].node] = [used |-> b, conn |-> c]]
    <3>1. /\ Nodes' = Nodes
          /\ \A i \in Nodes \ {trx[u].node} : pool'[i] = pool[i]
      BY <1>1, <2>2, ItemExcept
    <3>2. pool'[trx[u].node].conn = c
      BY <1>1, <2>2, ItemMark
    <3> QED BY <3>1, <3>2
  <2> QED BY <2>1, <2>2
<1>3. ASSUME NEW v \in Users \ {u}, pc[v] \in InTransaction
      PROVE  trx[v].node # trx[u].node /\ ConnOf(v)' = ConnOf(v)
  <2>1. trx[v].node \in Nodes /\ trx[v].node # trx[u].node
    BY <1>1, <1>3, UserFacts DEF IInv, PoolInv
  <2> QED BY <1>2, <2>1 DEF ConnOf
<1> QED BY <1>2, <1>3

LEMMA BeginTryFault ==
  ASSUME IInv, FaultInv, FewFaults, NEW u \in Users, BeginTry(u)
  PROVE  FaultInv'
<1>1. pc[u] = "begin" /\ pc[u] \in InTransaction /\ pc \in [Users -> Places]
      /\ trx[u].node \in Nodes /\ tries[u] \in Nat /\ tries \in [Users -> 0 .. MaxRetries - 1]
      /\ trx \in [Users -> [node : Nat, inTrx : BOOLEAN, next : 1 .. Writes + 1]]
  BY UserFacts, PartTypes DEF BeginTry, InTransaction, IInv, TypeOK, Places
<1>2. ConnOf(u) \in Conns /\ Connected \in Conns /\ [ConnOf(u) EXCEPT !.open = TRUE] \in Conns
  <2>1. ConnOf(u) \in Conns
    BY <1>1, UserFacts
  <2> QED BY <2>1, ConnTypes DEF IInv, Conns
<1>3. Miss(ConnOf(u)) <= Faults /\ tries[u] + Miss(ConnOf(u)) <= Faults /\ Faults \in Nat
  BY <1>1, FaultsType DEF FaultInv, ConnOf, IInv
<1>4. server' = server /\ ses' = ses
  BY DEF BeginTry, sesVars
<1>5. PICK c \in Conns :
        /\ pool' = [pool EXCEPT ![trx[u].node].conn = c]
        /\ \A v \in Users \ {u} : trx'[v] = trx[v]
        /\ trx'[u].node = trx[u].node
        /\ Miss(c) <= Faults
        /\ \/ pc'[u] = "statement" /\ tries'[u] = 0
           \/ pc'[u] = "begin" /\ tries'[u] = tries[u] + 1 /\ tries[u] + 1 <= Faults /\ Miss(c) = 0
           \/ pc'[u] = "failed" /\ tries'[u] = 0
        /\ faults' = faults
        /\ \A v \in Users \ {u} : pc'[v] = pc[v] /\ tries'[v] = tries[v]
  <2>1. CASE ConnOf(u).link = "up"
    <3> DEFINE d == [ConnOf(u) EXCEPT !.open = TRUE]
    <3>1. d.link = ConnOf(u).link
      BY <1>2 DEF Conns
    <3>2. Miss(d) <= Faults
      BY <1>3, <3>1 DEF Miss
    <3>3. /\ faults' = faults
          /\ pool' = [pool EXCEPT ![trx[u].node].conn = d]
          /\ trx' = [trx EXCEPT ![u].inTrx = TRUE]
          /\ tries' = [tries EXCEPT ![u] = 0]
          /\ pc' = [pc EXCEPT ![u] = "statement"]
      BY <2>1, BeginTryFacts
    <3> HIDE DEF d
    <3> QED BY <1>1, <1>2, <3>2, <3>3 DEF d
  <2>2. CASE ConnOf(u).link # "up"
    <3>1. /\ faults' = faults
          /\ pool' = [pool EXCEPT ![trx[u].node].conn = Connected]
          /\ trx' = trx
          /\ \/ /\ server.up
                /\ tries' = [tries EXCEPT ![u] = @ + 1]
                /\ pc' = pc
             \/ /\ ~ server.up
                /\ tries' = [tries EXCEPT ![u] = 0]
                /\ pc' = [pc EXCEPT ![u] = "failed"]
      BY <2>2, BeginTryFacts
    <3>2. tries[u] + 1 <= Faults
      BY <1>3, <2>2 DEF Miss
    <3>3. Miss(Connected) <= Faults /\ (server.up => Miss(Connected) = 0)
      BY <1>1, <3>2, <1>3 DEF Miss, Connected, Fresh
    <3> QED BY <1>1, <1>2, <3>1, <3>2, <3>3
  <2> QED BY <2>1, <2>2
<1>6. /\ Nodes' = Nodes
      /\ pool'[trx[u].node].conn = c
      /\ \A i \in Nodes \ {trx[u].node} : pool'[i] = pool[i]
      /\ \A v \in Users \ {u} : pc[v] \in InTransaction => ConnOf(v)' = ConnOf(v)
  BY <1>1, <1>5, OneConn
<1>7. \A i \in Nodes' : Miss(pool'[i].conn) <= Faults
  BY <1>5, <1>6 DEF FaultInv
<1>8. FaultOf(u)'
  <2>1. ConnOf(u)' = c /\ Faults' = Faults
    BY <1>5, <1>6 DEF ConnOf, Faults
  <2>2. Miss(ConnOf(u)') = Miss(c) /\ Miss(c) \in Nat
    BY <2>1 DEF Miss
  <2>3. tries'[u] + Miss(c) <= Faults \/ pc'[u] = "failed"
    BY <1>1, <1>3, <1>5, <2>2
  <2>4. pc'[u] \in {"begin", "statement", "failed"} /\ (pc'[u] = "failed" => tries'[u] = 0)
    BY <1>5
  <2> QED BY <2>1, <2>2, <2>3, <2>4 DEF FaultOf
<1>9. Miss(ses') <= Faults
  BY <1>4 DEF FaultInv
<1> QED BY <1>4, <1>5, <1>6, <1>7, <1>8, <1>9, FaultThread

LEMMA TryFault ==
  ASSUME IInv, FaultInv, StoreInv, FewFaults, NEW u \in Users, pc[u] = "statement",
         NEW unsent, Try(u, unsent), UNCHANGED <<sesVars, count, server, told>>
  PROVE  FaultInv'
<1> DEFINE w == <<TrxOf(u), trx[u].next>>
           d == [ConnOf(u) EXCEPT !.pending = @ \union {w}]
<1>1. pc[u] \in InTransaction /\ pc \in [Users -> Places]
      /\ tries \in [Users -> 0 .. MaxRetries - 1]
      /\ trx \in [Users -> [node : Nat, inTrx : BOOLEAN, next : 1 .. Writes + 1]]
  BY DEF InTransaction, IInv, TypeOK, Places
<1>2. /\ ConnOf(u).link = "up"
      /\ faults' = faults
      /\ pool' = [pool EXCEPT ![trx[u].node].conn = d]
      /\ trx' = [trx EXCEPT ![u].next = @ + 1]
      /\ tries' = [tries EXCEPT ![u] = 0]
      /\ pc' = [pc EXCEPT ![u] = "open"]
  BY TryFacts
<1>3. d \in Conns /\ d.link = "up"
  <2>1. ConnOf(u) \in Conns /\ w \in Trxs \X Statements
    BY <1>1, UserFacts DEF IInv, UserInv
  <2> QED BY <1>2, <2>1 DEF Conns
<1> HIDE DEF d
<1>4. /\ Nodes' = Nodes
      /\ pool'[trx[u].node].conn = d
      /\ \A i \in Nodes \ {trx[u].node} : pool'[i] = pool[i]
      /\ \A v \in Users \ {u} : pc[v] \in InTransaction => ConnOf(v)' = ConnOf(v)
  <2>1. \A v \in Users \ {u} : trx'[v] = trx[v]
    BY <1>1, <1>2
  <2> QED BY <1>1, <1>2, <1>3, <2>1, OneConn
<1>5. Miss(d) <= Faults
  BY <1>3, FaultsType DEF Miss, IInv
<1>6. \A i \in Nodes' : Miss(pool'[i].conn) <= Faults
  BY <1>4, <1>5 DEF FaultInv
<1>7. FaultOf(u)'
  <2>1. pc'[u] = "open" /\ tries'[u] = 0
    BY <1>1, <1>2
  <2> QED BY <2>1 DEF FaultOf
<1>8. Miss(ses') <= Faults /\ ses' = ses /\ server' = server
  BY DEF FaultInv, sesVars
<1>9. \A v \in Users \ {u} : pc'[v] = pc[v] /\ tries'[v] = tries[v]
  BY <1>1, <1>2
<1> QED BY <1>2, <1>4, <1>6, <1>7, <1>8, <1>9, FaultThread

LEMMA DecTryFault ==
  ASSUME IInv, FaultInv, DecInv, FewFaults, NEW u \in Users, DecTry(u)
  PROVE  FaultInv'
<1>1. pc[u] = "dec" /\ pc \in [Users -> Places] /\ tries \in [Users -> 0 .. MaxRetries - 1]
      /\ pool' = pool /\ trx' = trx /\ tries[u] \in Nat /\ ses \in Conns
      /\ server \in [up : BOOLEAN, cnt : Int]
  BY PartTypes DEF DecTry, poolVars, IInv, TypeOK, Places
<1>2. \A v \in Users \ {u} : pc[v] # "dec"
  BY <1>1 DEF DecInv
<1>3. tries[u] + Miss(ses) <= Faults /\ Miss(ses) <= Faults /\ Faults \in Nat
  BY <1>1, FaultsType DEF FaultInv, IInv
<1>4. /\ faults' = faults /\ server'.up = server.up
      /\ Miss(ses') <= Faults
      /\ \A v \in Users \ {u} : pc'[v] = pc[v] /\ tries'[v] = tries[v]
      /\ FaultOf(u)'
  <2>1. CASE ses.link = "up"
    <3>1. /\ faults' = faults
          /\ server' = [server EXCEPT !.cnt = @ - 1]
          /\ ses' = [ses EXCEPT !.id = server.cnt - 1]
          /\ tries' = [tries EXCEPT ![u] = 0]
          /\ pc' = [pc EXCEPT ![u] = "read"]
      BY <2>1, DecTryFacts
    <3>2. ses'.link = ses.link
      BY <1>1, <3>1 DEF Conns
    <3>3. pc'[u] = "read" /\ tries'[u] = 0
      BY <1>1, <3>1
    <3>4. server'.up = server.up
      BY <1>1, <3>1
    <3> QED BY <1>1, <1>3, <3>1, <3>2, <3>3, <3>4 DEF FaultOf, Miss
  <2>2. CASE ses.link # "up"
    <3>1. /\ faults' = faults /\ server' = server /\ ses' = Connected
          /\ \/ /\ server.up
                /\ tries' = [tries EXCEPT ![u] = @ + 1]
                /\ pc' = pc
             \/ /\ ~ server.up
                /\ tries' = [tries EXCEPT ![u] = 0]
                /\ pc' = [pc EXCEPT ![u] = "broken"]
      BY <2>2, DecTryFacts
    <3>2. tries[u] + 1 <= Faults
      BY <1>3, <2>2 DEF Miss
    <3>3. Miss(Connected) <= Faults /\ (server.up => Miss(Connected) = 0)
      BY <1>1, <1>3, <3>2 DEF Miss, Connected, Fresh
    <3>4. Faults' = Faults /\ Miss(ses)' = Miss(Connected)
      BY <3>1 DEF Faults, Miss
    <3>5. CASE server.up
      <4>1. pc'[u] = "dec" /\ tries'[u] = tries[u] + 1 /\ Miss(Connected) = 0
        BY <1>1, <3>1, <3>3, <3>5
      <4> QED BY <1>1, <3>1, <3>2, <3>3, <3>4, <3>5, <4>1 DEF FaultOf
    <3>6. CASE ~ server.up
      <4>1. pc'[u] = "broken" /\ tries'[u] = 0
        BY <1>1, <3>1, <3>6
      <4> QED BY <1>1, <3>1, <3>3, <3>6, <4>1 DEF FaultOf
    <3> QED BY <3>5, <3>6
  <2> QED BY <2>1, <2>2
<1>5. /\ \A i \in Nodes' : Miss(pool'[i].conn) <= Faults
      /\ \A v \in Users : ConnOf(v)' = ConnOf(v)
  BY <1>1 DEF FaultInv, Nodes, ConnOf
<1> QED BY <1>2, <1>4, <1>5, FaultThread

\* Steps that leave the connections and the number of tries alone.
LEMMA QuietFault ==
  ASSUME IInv, FaultInv, FewFaults, NEW u \in Users,
         NextStatement(u) \/ SessionCall(u) \/ DecRead(u)
  PROVE  FaultInv'
<1>1. /\ pool' = pool /\ trx' = trx /\ ses' = ses /\ tries' = tries
      /\ server' = server /\ faults' = faults
      /\ pc \in [Users -> Places] /\ pc[u] \notin {"begin", "statement", "dec"}
  BY DEF NextStatement, SessionCall, DecRead, poolVars, sesVars, IInv, TypeOK, Places
<1>2. /\ pc'[u] \in {"statement", "begin", "dec", "idle"}
      /\ \A v \in Users \ {u} : pc'[v] = pc[v]
      /\ pc[u] = "open" \/ pc'[u] \in {"dec", "idle"}
  BY <1>1 DEF NextStatement, SessionCall, DecRead, Goto
<1>3. tries[u] = 0 /\ Miss(ses) <= Faults
  BY <1>1 DEF FaultInv
<1>4. pc[u] = "open" => Miss(ConnOf(u)) <= Faults
  <2>1. pc[u] = "open" => trx[u].node \in Nodes
    BY UserFacts DEF InTransaction
  <2> QED BY <2>1 DEF FaultInv, ConnOf
<1>5. /\ \A i \in Nodes' : Miss(pool'[i].conn) <= Faults
      /\ \A v \in Users : ConnOf(v)' = ConnOf(v)
      /\ Faults' = Faults
  BY <1>1 DEF FaultInv, Nodes, ConnOf, Faults
<1>6. FaultOf(u)'
  <2>1. /\ Miss(ses)' = Miss(ses) /\ Miss(ConnOf(u))' = Miss(ConnOf(u))
        /\ Miss(ses) \in Nat /\ Miss(ConnOf(u)) \in Nat
    BY <1>1, <1>5 DEF Miss
  <2>2. tries'[u] = 0
    BY <1>1, <1>3
  <2> QED BY <1>2, <1>3, <1>4, <1>5, <2>1, <2>2 DEF FaultOf
<1>7. Miss(ses') <= Faults
  BY <1>1, <1>3
<1> QED BY <1>1, <1>2, <1>5, <1>6, <1>7, FaultThread

LEMMA TrxNewFault ==
  ASSUME IInv, FaultInv, FewFaults, NEW u \in Users, TrxNew(u)
  PROVE  FaultInv'
<1>1. /\ ses' = ses /\ tries' = tries /\ server' = server /\ faults' = faults
      /\ pc[u] = "idle" /\ pc \in [Users -> Places]
      /\ pool \in Seq(PoolItem) /\ pool' \in Seq(PoolItem)
      /\ trx \in [Users -> [node : Nat, inTrx : BOOLEAN, next : 1 .. Writes + 1]]
  BY TrxNewStep DEF TrxNew, sesVars, IInv, TypeOK, PoolItem, Places
<1>2. /\ pc'[u] \in {"clone", "open"}
      /\ \A v \in Users \ {u} : pc'[v] = pc[v] /\ trx'[v] = trx[v]
  BY <1>1 DEF TrxNew, Goto
<1>3. /\ Nodes' = Nodes
      /\ \A i \in Nodes : pool'[i].conn = pool[i].conn
  <2>1. CASE pool' = pool
    BY <2>1 DEF Nodes
  <2>2. CASE \E i \in FirstFree : pool' = Taken(i)
    <3>1. PICK i \in FirstFree : pool' = [pool EXCEPT ![i].used = TRUE]
      BY <2>2 DEF Taken
    <3>2. i \in Nodes /\ pool[i] \in PoolItem /\ pool[i].conn \in Conns
      BY <1>1, PoolTypes DEF FirstFree, Nodes
    <3>3. [pool[i] EXCEPT !.used = TRUE] = [used |-> TRUE, conn |-> pool[i].conn]
      <4>1. 0 \in Nat
        OBVIOUS
      <4> QED BY <3>2, <4>1, MarkedItem
    <3>4. pool' = [pool EXCEPT ![i] = [used |-> TRUE, conn |-> pool[i].conn]]
      BY <3>1, <3>3
    <3>5. Nodes' = Nodes /\ \A j \in Nodes \ {i} : pool'[j] = pool[j]
      BY <1>1, <3>2, <3>4, ItemExcept
    <3>6. pool'[i].conn = pool[i].conn
      BY <1>1, <3>2, <3>4, ItemMark
    <3> QED BY <3>5, <3>6
  <2> QED BY <2>1, <2>2 DEF TrxNew
<1>4. \A v \in Users \ {u} : pc[v] \in InTransaction => ConnOf(v)' = ConnOf(v)
  BY <1>2, <1>3, UserFacts DEF ConnOf
<1>5. tries[u] = 0 /\ Miss(ses) <= Faults
  BY <1>1 DEF FaultInv
<1>6. FaultOf(u)'
  BY <1>1, <1>2, <1>5 DEF FaultOf
<1>7. \A i \in Nodes' : Miss(pool'[i].conn) <= Faults
  BY <1>3 DEF FaultInv
<1>8. Miss(ses') <= Faults
  BY <1>1, <1>5
<1> QED BY <1>1, <1>2, <1>4, <1>6, <1>7, <1>8, FaultThread

LEMMA CloneFault ==
  ASSUME IInv, FaultInv, FewFaults, NEW u \in Users, Clone(u)
  PROVE  FaultInv'
<1>1. /\ ses' = ses /\ tries' = tries /\ server' = server /\ faults' = faults
      /\ pc[u] = "clone" /\ pc \in [Users -> Places]
      /\ pool \in Seq(PoolItem) /\ Connected \in Conns
      /\ trx \in [Users -> [node : Nat, inTrx : BOOLEAN, next : 1 .. Writes + 1]]
  BY ConnTypes DEF Clone, sesVars, IInv, TypeOK, PoolItem, Places
<1>2. /\ pc'[u] \in {"idle", "open"}
      /\ \A v \in Users \ {u} : pc'[v] = pc[v] /\ trx'[v] = trx[v]
  BY <1>1 DEF Clone, Goto
<1>3. /\ \A i \in Nodes' : i \in Nodes \/ (pool'[i].conn = Connected /\ server.up)
      /\ \A i \in Nodes : i \in Nodes' /\ pool'[i] = pool[i]
  <2>1. CASE ~ server.up
    <3>1. pool' = pool
      BY <2>1 DEF Clone
    <3>2. Nodes' = Nodes
      BY <3>1 DEF Nodes
    <3>3. \A i \in Nodes' : i \in Nodes
      BY <3>2
    <3>4. \A i \in Nodes : i \in Nodes' /\ pool'[i] = pool[i]
      BY <3>1, <3>2
    <3> QED BY <3>3, <3>4
  <2>2. CASE server.up
    <3> DEFINE x == [used |-> TRUE, conn |-> Connected]
    <3>1. pool' = Append(pool, x)
      BY <2>2 DEF Clone
    <3>2. x \in PoolItem /\ x.conn = Connected
      BY <1>1 DEF PoolItem
    <3> HIDE DEF x
    <3>3. /\ Len(pool') = Len(pool) + 1 /\ pool' \in Seq(PoolItem)
          /\ pool'[Len(pool) + 1] = x
          /\ \A j \in 1 .. Len(pool) : pool'[j] = pool[j]
      BY <1>1, <3>1, <3>2, AppendProperties
    <3>4. Nodes' = 1 .. Len(pool) + 1 /\ Nodes = 1 .. Len(pool) /\ Len(pool) \in Nat
      BY <1>1, <3>3, LenProperties DEF Nodes
    <3>5. \A i \in Nodes' : i \in Nodes \/ i = Len(pool) + 1
      BY <3>4
    <3>6. \A i \in Nodes : i \in Nodes'
      BY <3>4
    <3> QED BY <2>2, <3>2, <3>3, <3>4, <3>5, <3>6
  <2> QED BY <2>1, <2>2
<1>4. \A v \in Users \ {u} : pc[v] \in InTransaction => ConnOf(v)' = ConnOf(v)
  BY <1>2, <1>3, UserFacts DEF ConnOf
<1>5. tries[u] = 0 /\ Miss(ses) <= Faults /\ Faults \in Nat
  BY <1>1, FaultsType DEF FaultInv, IInv
<1>6. FaultOf(u)'
  BY <1>1, <1>2, <1>5 DEF FaultOf
<1>7. ASSUME NEW i \in Nodes' PROVE Miss(pool'[i].conn) <= Faults
  <2>1. CASE i \in Nodes
    BY <1>3, <2>1 DEF FaultInv
  <2>2. CASE pool'[i].conn = Connected /\ server.up
    BY <1>5, <2>2 DEF Miss, Connected, Fresh
  <2> QED BY <1>3, <2>1, <2>2
<1>8. Miss(ses') <= Faults
  BY <1>1, <1>5
<1> QED BY <1>1, <1>2, <1>4, <1>6, <1>7, <1>8, FaultThread

\* The end of a transaction.  COMMIT is only sent when all statements were
\* done, so the transaction was begun and its connection is still there.
LEMMA EndFacts ==
  ASSUME IInv, StoreInv, FewFaults, NEW u \in Users, Commit(u) \/ Rollback(u)
  PROVE  /\ pc[u] \in InTransaction
         /\ faults' = faults
         /\ UNCHANGED <<sesVars, tries, count, server>>
         /\ \E conn \in Conns, answer \in {"stored", "rolled back"} :
              /\ Release(u, conn, answer)
              /\ conn.link = ConnOf(u).link /\ ~ conn.open /\ conn.pending = {}
              /\ store' = IF answer = "stored" THEN store \union ({TrxOf(u)} \X Statements)
                          ELSE store
<1> DEFINE c == ConnOf(u)
           after == [c EXCEPT !.open = FALSE, !.pending = {}]
<1>1. /\ pc[u] \in InTransaction
      /\ UNCHANGED <<sesVars, tries, count, server>>
  BY DEF Commit, Rollback, InTransaction
<1>2. c \in Conns /\ trx[u].node \in Nodes
  BY <1>1, UserFacts
<1>3. after \in Conns /\ after.link = c.link /\ ~ after.open /\ after.pending = {}
  BY <1>2 DEF Conns
<1>4. CASE Commit(u)
  <2>1. PICK break \in Breaks(c), done \in BOOLEAN :
          /\ break \/ done = (c.link = "up")
          /\ store' = IF done THEN store \union c.pending ELSE store
          /\ Release(u, IF break THEN Dropped(after) ELSE after,
                     IF done /\ ~ break THEN "stored" ELSE "error")
          /\ CountBreak(break)
    BY <1>4 DEF Commit
  <2>2. break = FALSE /\ faults' = faults
    BY <2>1, NoBreak DEF IInv
  <2>3. trx[u].next \in 1 .. Writes + 1 /\ trx[u].next > Writes
    BY <1>4, PartTypes DEF Commit, IInv
  <2>4. trx[u].inTrx /\ trx[u].next - 1 = Writes
    BY <1>1, <2>3, ConstantsOK DEF StoreInv
  <2>5. c.open /\ c.link = "up" /\ c.pending = {TrxOf(u)} \X Statements
    <3>1. c.open /\ c.pending = {TrxOf(u)} \X (1 .. trx[u].next - 1)
      BY <1>1, <2>4 DEF StoreInv
    <3> QED BY <1>2, <2>4, <3>1 DEF StoreInv, ConnOf, Statements
  <2>6. done
    BY <2>1, <2>2, <2>5
  <2>7. Release(u, after, "stored") /\ store' = store \union ({TrxOf(u)} \X Statements)
    BY <2>1, <2>2, <2>5, <2>6
  <2> HIDE DEF after, c
  <2>8. \E conn \in Conns, answer \in {"stored", "rolled back"} :
          /\ Release(u, conn, answer)
          /\ conn.link = c.link /\ ~ conn.open /\ conn.pending = {}
          /\ store' = IF answer = "stored" THEN store \union ({TrxOf(u)} \X Statements)
                      ELSE store
    <3>1. after \in Conns
      BY <1>3
    <3> WITNESS after \in Conns
    <3> WITNESS "stored" \in {"stored", "rolled back"}
    <3> QED BY <1>3, <2>7
  <2> QED BY <1>1, <2>2, <2>8 DEF c
<1>5. CASE Rollback(u)
  <2>1. /\ Release(u, IF trx[u].inTrx THEN after ELSE c, "rolled back")
        /\ faults' = faults /\ store' = store
    BY <1>5 DEF Rollback
  <2>2. ~ trx[u].inTrx => ~ c.open /\ c.pending = {}
    BY <1>1, <1>2 DEF StoreInv, ConnOf
  <2> HIDE DEF after, c
  <2>3. \E conn \in Conns, answer \in {"stored", "rolled back"} :
          /\ Release(u, conn, answer)
          /\ conn.link = c.link /\ ~ conn.open /\ conn.pending = {}
          /\ store' = IF answer = "stored" THEN store \union ({TrxOf(u)} \X Statements)
                      ELSE store
    <3> DEFINE d == IF trx[u].inTrx THEN after ELSE c
    <3>1. d \in Conns
      BY <1>2, <1>3
    <3> WITNESS d \in Conns
    <3> WITNESS "rolled back" \in {"stored", "rolled back"}
    <3> QED BY <1>3, <2>1, <2>2
  <2> QED BY <1>1, <2>1, <2>3 DEF c
<1> QED BY <1>4, <1>5

LEMMA EndFault ==
  ASSUME IInv, FaultInv, StoreInv, FewFaults, NEW u \in Users, Commit(u) \/ Rollback(u)
  PROVE  FaultInv'
<1>1. /\ pc[u] \in InTransaction /\ pc \in [Users -> Places]
      /\ faults' = faults
      /\ ses' = ses /\ tries' = tries /\ server' = server
      /\ trx[u].node \in Nodes
      /\ trx \in [Users -> [node : Nat, inTrx : BOOLEAN, next : 1 .. Writes + 1]]
  BY EndFacts, UserFacts DEF sesVars, IInv, TypeOK, Places
<1>2. PICK conn \in Conns, answer \in {"stored", "rolled back"} :
        /\ Release(u, conn, answer)
        /\ conn.link = ConnOf(u).link
  BY EndFacts
<1>3. /\ pool' = [pool EXCEPT ![trx[u].node] = [used |-> FALSE, conn |-> conn]]
      /\ trx' = [trx EXCEPT ![u] = NoTrx]
      /\ pc' = [pc EXCEPT ![u] = "idle"]
  BY <1>2 DEF Release, Goto
<1>4. /\ Nodes' = Nodes
      /\ pool'[trx[u].node].conn = conn
      /\ \A i \in Nodes \ {trx[u].node} : pool'[i] = pool[i]
      /\ \A v \in Users \ {u} : pc[v] \in InTransaction => ConnOf(v)' = ConnOf(v)
  <2>1. \A v \in Users \ {u} : trx'[v] = trx[v]
    BY <1>1, <1>3
  <2> QED BY <1>1, <1>3, <2>1, OneConn
<1>5. \A i \in Nodes' : Miss(pool'[i].conn) <= Faults
  <2>1. Miss(conn) <= Faults
    BY <1>1, <1>2 DEF Miss, FaultInv, ConnOf
  <2> QED BY <1>4, <2>1 DEF FaultInv
<1>6. pc[u] # "dec" /\ (pc[u] \in {"begin", "statement"} \/ tries[u] = 0)
  BY <1>1 DEF FaultInv, InTransaction
<1>7. pc[u] \in {"open", "failed"}
  BY DEF Commit, Rollback
<1>8. FaultOf(u)'
  <2>1. pc'[u] = "idle" /\ tries'[u] = 0
    BY <1>1, <1>3, <1>6, <1>7
  <2> QED BY <2>1 DEF FaultOf
<1>9. Miss(ses') <= Faults /\ \A v \in Users \ {u} : pc'[v] = pc[v]
  BY <1>1, <1>3 DEF FaultInv
<1> QED BY <1>1, <1>4, <1>5, <1>8, <1>9, FaultThread

\* A connection the server drops is one fault more.
LEMMA ServerFault ==
  ASSUME IInv, FaultInv, DropConnection \/ Stop \/ Restart
  PROVE  FaultInv'
<1>1. /\ pc' = pc /\ tries' = tries /\ trx' = trx
      /\ pool \in Seq(PoolItem) /\ Faults \in Nat
      /\ faults \in [losses : 0 .. MaxLosses, stops : 0 .. MaxStops]
      /\ server \in [up : BOOLEAN, cnt : Int]
  BY FaultsType DEF DropConnection, Stop, Restart, poolVars, IInv, TypeOK, PoolItem
<1>2. CASE Restart
  <2>1. /\ pool' = pool /\ ses' = ses /\ faults' = faults /\ server'.up
    BY <1>1, <1>2 DEF Restart, poolVars, sesVars
  <2>2. \A u \in Users : ConnOf(u)' = ConnOf(u)
    BY <1>1, <2>1 DEF ConnOf
  <2> QED BY <1>1, <2>1, <2>2 DEF FaultInv, Faults, Nodes, Miss
<1>3. CASE DropConnection \/ Stop
  <2>1. Faults' = Faults + 1
    <3>1. CASE DropConnection
      <4>1. faults' = [faults EXCEPT !.losses = @ + 1]
        BY <3>1 DEF DropConnection
      <4>2. faults'.losses = faults.losses + 1 /\ faults'.stops = faults.stops
        BY <1>1, <4>1
      <4>3. faults.losses \in Nat /\ faults.stops \in Nat
        BY <1>1
      <4> QED BY <4>2, <4>3 DEF Faults
    <3>2. CASE Stop
      <4>1. faults' = [faults EXCEPT !.stops = @ + 1]
        BY <3>2 DEF Stop
      <4>2. faults'.losses = faults.losses /\ faults'.stops = faults.stops + 1
        BY <1>1, <4>1
      <4>3. faults.losses \in Nat /\ faults.stops \in Nat
        BY <1>1
      <4> QED BY <4>2, <4>3 DEF Faults
    <3> QED BY <1>3, <3>1, <3>2
  <2>2. \A c : Miss(c) \in {0, 1}
    BY DEF Miss
  <2>3. /\ Miss(ses') <= Faults' /\ (~ server'.up => 1 <= Faults')
        /\ \A i \in Nodes' : Miss(pool'[i].conn) <= Faults'
    BY <1>1, <2>1, <2>2
  <2>4. ASSUME NEW u \in Users
        PROVE  /\ pc[u] = "dec" => tries[u] + Miss(ses') <= Faults'
               /\ pc[u] \in {"begin", "statement"} => tries[u] + Miss(ConnOf(u)') <= Faults'
    <3>1. tries[u] \in Nat
      BY PartTypes DEF IInv
    <3>2. pc[u] \in {"dec", "begin", "statement"} => tries[u] <= Faults
      BY <1>1, <2>2, <3>1 DEF FaultInv
    <3>3. Miss(ses') <= 1 /\ Miss(ConnOf(u)') <= 1 /\ Miss(ses') \in Nat /\ Miss(ConnOf(u)') \in Nat
      BY <2>2
    <3> QED BY <1>1, <2>1, <3>1, <3>2, <3>3
  <2> QED BY <1>1, <2>3, <2>4 DEF FaultInv, Miss
<1> QED BY <1>2, <1>3

LEMMA StepFault ==
  ASSUME IInv, FaultInv, DecInv, StoreInv, FewFaults, [Next]_vars
  PROVE  FaultInv'
<1>1. ASSUME NEW u \in Users, UserStep(u) PROVE FaultInv'
  <2>1. CASE Ins(u) \/ InsOrSet(u) \/ Set(u) \/ Del(u)
    <3>1. PICK unsent \in {"open", "failed"} : Try(u, unsent)
      BY <2>1 DEF Ins, InsOrSet, Set, Del
    <3>2. /\ pc[u] = "statement"
          /\ UNCHANGED <<sesVars, count, server, told>>
      BY <2>1 DEF Ins, InsOrSet, Set, Del, Statement
    <3> QED BY <3>1, <3>2, TryFault
  <2> QED BY <1>1, <2>1, CloneFault, QuietFault, BeginTryFault, EndFault, DecTryFault
          DEF UserStep
<1>2. ASSUME NEW u \in Users, TrxNew(u) \/ SessionCall(u) PROVE FaultInv'
  BY <1>2, TrxNewFault, QuietFault
<1>3. CASE DropConnection \/ Stop \/ Restart
  BY <1>3, ServerFault
<1>4. CASE UNCHANGED vars
  BY <1>4 DEF vars, FaultInv, Faults, Miss, Nodes, ConnOf
<1> QED BY <1>1, <1>2, <1>3, <1>4 DEF Next

-----------------------------------------------------------------------------
(* DecInv is kept. *)

\* Steps that have nothing to do with the counter.
LEMMA DecKept ==
  ASSUME TypeOK, DecInv, holder' = holder, results' = results,
         server'.cnt = server.cnt, ses'.id = ses.id \/ ~ Reading,
         \A v \in Users : /\ count'[v].dec = count[v].dec
                          /\ pc'[v] \in {"dec", "read", "broken"}
                               <=> pc[v] \in {"dec", "read", "broken"}
                          /\ pc'[v] = "read" <=> pc[v] = "read"
  PROVE  DecInv'
<1>1. Good' = Good /\ (Reading' <=> Reading)
  BY DEF Good, Reading
<1>2. \A v \in Users : pc'[v] \in {"dec", "read", "broken"} <=> holder' = v
  BY DEF DecInv
<1>3. \A v \in Users : pc'[v] = "read" => ses'.id = server'.cnt /\ server'.cnt < Start
  BY DEF DecInv, Reading
<1>4. \A r \in results' :
        /\ r[2] <= count'[r[1]].dec
        /\ pc'[r[1]] \in {"dec", "read", "broken"} => r[2] # count'[r[1]].dec
  <2> SUFFICES ASSUME NEW r \in results
               PROVE  /\ r[2] <= count'[r[1]].dec
                      /\ pc'[r[1]] \in {"dec", "read", "broken"} => r[2] # count'[r[1]].dec
    OBVIOUS
  <2>1. r[1] \in Users
    BY DEF TypeOK
  <2> QED BY <2>1 DEF DecInv
<1>5. /\ server'.cnt \in 0 .. Start
      /\ \A r, s \in results' : r[1] = s[1] /\ r[2] = s[2] => r = s
      /\ \A r, s \in Good' : r[3] = s[3] => r = s
      /\ {r[3] : r \in Good'} = (IF Reading' THEN server'.cnt + 1 ELSE server'.cnt) .. Start - 1
  BY <1>1 DEF DecInv
<1> QED BY <1>2, <1>3, <1>4, <1>5 DEF DecInv, Start

\* A thread about to decrement finds a value that is not used up: the values
\* given out so far went to distinct calls, and this call is one more.
LEMMA NotUsedUp ==
  ASSUME TypeOK, DecInv, NEW u \in Users, pc[u] = "dec", UserInv(u)
  PROVE  server.cnt \in 1 .. Start
<1> DEFINE V == server.cnt .. Start - 1
           Calls == Users \X (1 .. MaxDecs)
           this == <<u, count[u].dec>>
           f == [x \in V |-> LET r == CHOOSE r \in Good : r[3] = x IN <<r[1], r[2]>>]
<1>1. server.cnt \in 0 .. Start /\ server.cnt \in Nat /\ Start \in Nat
  BY ConstantsOK DEF DecInv
<1>2. ~ Reading
  BY DEF Reading, DecInv
<1>3. V = {r[3] : r \in Good}
  BY <1>2 DEF DecInv
<1>4. /\ IsFiniteSet(Calls) /\ Cardinality(Calls) = Start
  <2>1. IsFiniteSet(1 .. MaxDecs) /\ Cardinality(1 .. MaxDecs) = MaxDecs
    BY ConstantsOK, FS_Interval
  <2> QED BY <2>1, AdblAssumption, FS_Product DEF Start
<1>5. this \in Calls
  <2>1. count[u].dec \in 0 .. MaxDecs /\ count[u].dec >= 1
    BY PartTypes DEF UserInv
  <2> QED BY <2>1, ConstantsOK
<1>6. IsFiniteSet(Calls \ {this}) /\ Cardinality(Calls \ {this}) = Start - 1
  BY <1>4, <1>5, FS_RemoveElement
<1>7. ASSUME NEW x \in V
      PROVE  \E r \in Good : r[3] = x /\ f[x] = <<r[1], r[2]>>
  <2>1. \E r \in Good : r[3] = x
    BY <1>3
  <2> DEFINE q == CHOOSE r \in Good : r[3] = x
  <2>2. q \in Good /\ q[3] = x
    BY <2>1
  <2> QED BY <2>2
<1> HIDE DEF f
<1>8. \A r \in Good : <<r[1], r[2]>> \in Calls \ {this}
  <2> SUFFICES ASSUME NEW r \in Good PROVE <<r[1], r[2]>> \in Calls \ {this}
    OBVIOUS
  <2>1. r \in results /\ r[1] \in Users /\ r[2] \in 1 .. MaxDecs
    BY DEF Good, TypeOK
  <2>2. r[1] # u \/ r[2] # count[u].dec
    BY <2>1 DEF DecInv
  <2> QED BY <2>1, <2>2
<1>9. DOMAIN f = V /\ f \in [V -> Calls \ {this}]
  <2>1. \A x \in V : f[x] \in Calls \ {this}
    BY <1>7, <1>8
  <2> QED BY <2>1 DEF f
<1>10. ASSUME NEW x \in V, NEW y \in V, f[x] = f[y] PROVE x = y
  <2>1. PICK r \in Good : r[3] = x /\ f[x] = <<r[1], r[2]>>
    BY <1>7
  <2>2. PICK s \in Good : s[3] = y /\ f[y] = <<s[1], s[2]>>
    BY <1>7
  <2>3. r[1] = s[1] /\ r[2] = s[2] /\ r \in results /\ s \in results
    <3>1. <<r[1], r[2]>> = <<s[1], s[2]>>
      BY <1>10, <2>1, <2>2
    <3> QED BY <3>1 DEF Good
  <2>4. r = s
    BY <2>3 DEF DecInv
  <2> QED BY <2>1, <2>2, <2>4
<1> HIDE DEF Calls, this
<1>11. f \in Injection(V, Calls \ {this})
  BY <1>9, <1>10 DEF Injection, IsInjective
<1>12. Cardinality(V) <= Start - 1
  BY <1>6, <1>11, FS_Injection
<1>13. server.cnt <= Start - 1 => Cardinality(V) = Start - server.cnt
  <2>1. server.cnt \in Int /\ Start - 1 \in Int
    BY <1>1
  <2>2. Cardinality(V) = IF server.cnt > Start - 1 THEN 0 ELSE (Start - 1) - server.cnt + 1
    BY <2>1, FS_Interval
  <2> QED BY <1>1, <2>2
<1>14. Start >= 1
  <2>1. Cardinality(V) \in Nat
    BY <1>6, <1>11, FS_Injection, FS_CardinalityType
  <2> QED BY <1>1, <1>12, <2>1
<1> QED BY <1>1, <1>12, <1>13, <1>14

LEMMA SessionCallDec ==
  ASSUME IInv, DecInv, NEW u \in Users, SessionCall(u)
  PROVE  DecInv'
<1>1. /\ pc[u] = "idle" /\ holder = "nobody" /\ holder' = u
      /\ ses' = ses /\ results' = results /\ server' = server
      /\ count' = [count EXCEPT ![u].dec = @ + 1]
      /\ pc' = [pc EXCEPT ![u] = "dec"]
      /\ pc \in [Users -> Places]
      /\ count \in [Users -> [trx : 0 .. MaxTrx, dec : 0 .. MaxDecs]]
      /\ count[u].dec \in Nat
  BY PartTypes DEF SessionCall, Goto, IInv, TypeOK, Places
<1>2. /\ pc'[u] = "dec" /\ count'[u].dec = count[u].dec + 1
      /\ \A v \in Users \ {u} : pc'[v] = pc[v] /\ count'[v] = count[v]
  BY <1>1
<1>3. \A v \in Users : pc[v] \notin {"dec", "read", "broken"}
  <2>1. \A v \in Users : holder # v
    BY <1>1, AdblAssumption
  <2> QED BY <2>1 DEF DecInv
<1>4. Good' = Good /\ ~ Reading /\ ~ Reading'
  BY <1>1, <1>2, <1>3 DEF Good, Reading
<1>5. \A v \in Users : /\ pc'[v] \in {"dec", "read", "broken"} <=> holder' = v
                       /\ pc'[v] # "read"
  BY <1>1, <1>2, <1>3
<1>6. \A r \in results' :
        /\ r[2] <= count'[r[1]].dec
        /\ pc'[r[1]] \in {"dec", "read", "broken"} => r[2] # count'[r[1]].dec
  <2> SUFFICES ASSUME NEW r \in results
               PROVE  /\ r[2] <= count'[r[1]].dec
                      /\ pc'[r[1]] \in {"dec", "read", "broken"} => r[2] # count'[r[1]].dec
    BY <1>1
  <2>1. r[1] \in Users /\ r[2] \in 1 .. MaxDecs /\ r[2] <= count[r[1]].dec
    BY DEF IInv, TypeOK, DecInv
  <2>2. CASE r[1] = u
    <3>1. r[2] \in Nat /\ r[2] <= count[u].dec
      BY <2>1, <2>2, ConstantsOK
    <3> QED BY <1>1, <1>2, <2>2, <3>1
  <2>3. CASE r[1] # u
    BY <1>2, <1>3, <2>1, <2>3
  <2> QED BY <2>2, <2>3
<1>7. /\ server'.cnt \in 0 .. Start
      /\ \A r, s \in results' : r[1] = s[1] /\ r[2] = s[2] => r = s
      /\ \A r, s \in Good' : r[3] = s[3] => r = s
      /\ {r[3] : r \in Good'} = (IF Reading' THEN server'.cnt + 1 ELSE server'.cnt) .. Start - 1
  BY <1>1, <1>4 DEF DecInv
<1> QED BY <1>5, <1>6, <1>7 DEF DecInv, Start

LEMMA DecTryDec ==
  ASSUME IInv, FaultInv, DecInv, FewFaults, NEW u \in Users, DecTry(u)
  PROVE  DecInv'
<1>1. /\ pc[u] = "dec" /\ pc \in [Users -> Places]
      /\ holder' = holder /\ results' = results /\ count' = count
      /\ ses \in Conns /\ server \in [up : BOOLEAN, cnt : Int] /\ server.cnt \in Int
  BY PartTypes DEF DecTry, IInv, TypeOK, Places
<1>2. \A v \in Users \ {u} : pc[v] \notin {"dec", "read", "broken"}
  BY <1>1 DEF DecInv
<1>3. ~ Reading
  BY <1>1, <1>2 DEF Reading
<1>4. CASE ses.link # "up"
  <2>1. /\ server' = server
        /\ \/ pc' = pc
           \/ pc' = [pc EXCEPT ![u] = "broken"]
    BY <1>4, DecTryFacts
  <2>2. \A v \in Users : /\ pc'[v] \in {"dec", "read", "broken"}
                              <=> pc[v] \in {"dec", "read", "broken"}
                         /\ pc'[v] = "read" <=> pc[v] = "read"
    BY <1>1, <2>1
  <2> QED BY <1>1, <1>3, <2>1, <2>2, DecKept DEF IInv
<1>5. CASE ses.link = "up"
  <2>1. /\ server' = [server EXCEPT !.cnt = @ - 1]
        /\ ses' = [ses EXCEPT !.id = server.cnt - 1]
        /\ pc' = [pc EXCEPT ![u] = "read"]
    BY <1>5, DecTryFacts
  <2>2. server.cnt \in 1 .. Start
    BY <1>1, NotUsedUp DEF IInv
  <2>3. server'.cnt = server.cnt - 1 /\ ses'.id = server.cnt - 1 /\ pc'[u] = "read"
        /\ \A v \in Users \ {u} : pc'[v] = pc[v]
    BY <1>1, <2>1 DEF Conns
  <2>4. Good' = Good /\ Reading'
    BY <1>1, <2>3 DEF Good, Reading
  <2>5. \A v \in Users : /\ pc'[v] \in {"dec", "read", "broken"} <=> holder' = v
                         /\ pc'[v] = "read" => ses'.id = server'.cnt /\ server'.cnt < Start
    <3>1. server'.cnt < Start
      BY <2>2, <2>3, ConstantsOK
    <3> QED BY <1>1, <1>2, <2>3, <3>1 DEF DecInv
  <2>6. \A r \in results' :
          /\ r[2] <= count'[r[1]].dec
          /\ pc'[r[1]] \in {"dec", "read", "broken"} => r[2] # count'[r[1]].dec
    <3> SUFFICES ASSUME NEW r \in results
                 PROVE  /\ r[2] <= count[r[1]].dec
                        /\ pc'[r[1]] \in {"dec", "read", "broken"} => r[2] # count[r[1]].dec
      BY <1>1
    <3>1. r[1] \in Users
      BY DEF IInv, TypeOK
    <3> QED BY <1>1, <2>3, <3>1 DEF DecInv
  <2>7. server'.cnt \in 0 .. Start /\ server'.cnt + 1 = server.cnt
    BY <2>2, <2>3, ConstantsOK
  <2>8. {r[3] : r \in Good'} = (IF Reading' THEN server'.cnt + 1 ELSE server'.cnt) .. Start - 1
    BY <1>3, <2>4, <2>7 DEF DecInv
  <2>9. /\ \A r, s \in results' : r[1] = s[1] /\ r[2] = s[2] => r = s
        /\ \A r, s \in Good' : r[3] = s[3] => r = s
    BY <1>1, <2>4 DEF DecInv
  <2> QED BY <2>5, <2>6, <2>7, <2>8, <2>9 DEF DecInv, Start
<1> QED BY <1>4, <1>5

LEMMA DecReadDec ==
  ASSUME IInv, DecInv, NEW u \in Users, DecRead(u)
  PROVE  DecInv'
<1> DEFINE x == IF pc[u] = "read" THEN ses.id ELSE -1
           new == <<u, count[u].dec, x>>
<1>1. /\ pc[u] \in {"read", "broken"} /\ pc \in [Users -> Places]
      /\ holder' = "nobody" /\ results' = results \union {new}
      /\ pc' = [pc EXCEPT ![u] = "idle"]
      /\ ses' = ses /\ count' = count /\ server' = server
      /\ count[u].dec \in Nat
      /\ server.cnt \in 0 .. Start /\ server.cnt \in Nat /\ Start \in Nat
  <2>1. count[u].dec \in Nat
    BY PartTypes DEF IInv
  <2>2. server.cnt \in 0 .. Start /\ server.cnt \in Nat /\ Start \in Nat
    BY ConstantsOK DEF DecInv
  <2>3. pc \in [Users -> Places]
    BY DEF IInv, TypeOK, Places
  <2> QED BY <2>1, <2>2, <2>3 DEF DecRead, Goto
<1>2. /\ pc'[u] = "idle"
      /\ \A v \in Users \ {u} : pc'[v] = pc[v] /\ pc[v] \notin {"dec", "read", "broken"}
  BY <1>1 DEF DecInv
<1>3. \A v \in Users : pc'[v] \notin {"dec", "read", "broken"} /\ holder' # v
  BY <1>1, <1>2, AdblAssumption
<1>4. ~ Reading'
  BY <1>3 DEF Reading
<1>5. /\ new[1] = u /\ new[2] = count[u].dec /\ new[3] = x
      /\ pc[u] = "read" => x = server.cnt
      /\ pc[u] # "read" => x = -1
  BY DEF DecInv
<1> HIDE DEF new, x
<1>6. \A r \in results : r[1] \in Users /\ (r[1] # u \/ r[2] # count[u].dec)
  <2>1. \A r \in results : r[1] \in Users
    BY DEF IInv, TypeOK
  <2>2. \A r \in results : pc[r[1]] \in {"dec", "read", "broken"} => r[2] # count[r[1]].dec
    BY DEF DecInv
  <2> QED BY <1>1, <2>1, <2>2
<1>7. \A r \in results' :
        /\ r[2] <= count'[r[1]].dec
        /\ pc'[r[1]] \in {"dec", "read", "broken"} => r[2] # count'[r[1]].dec
  <2> SUFFICES ASSUME NEW r \in results'
               PROVE  /\ r[2] <= count[r[1]].dec
                      /\ pc'[r[1]] \notin {"dec", "read", "broken"}
    BY <1>1
  <2>1. CASE r \in results
    BY <1>3, <1>6, <2>1 DEF DecInv
  <2>2. CASE r = new
    BY <1>1, <1>3, <1>5, <2>2
  <2> QED BY <1>1, <2>1, <2>2
<1>8. \A r, s \in results' : r[1] = s[1] /\ r[2] = s[2] => r = s
  <2> SUFFICES ASSUME NEW r \in results', NEW s \in results', r[1] = s[1], r[2] = s[2]
               PROVE  r = s
    OBVIOUS
  <2>1. CASE r \in results /\ s \in results
    BY <2>1 DEF DecInv
  <2>2. CASE r = new \/ s = new
    BY <1>1, <1>5, <1>6, <2>2
  <2> QED BY <1>1, <2>1, <2>2
<1>9. CASE pc[u] # "read"
  <2>1. x = -1
    BY <1>5, <1>9
  <2>2. Good' = Good /\ ~ Reading
    <3>1. Good' = Good
      BY <1>1, <1>5, <2>1 DEF Good
    <3> QED BY <1>2, <1>9, <3>1 DEF Reading
  <2>3. /\ \A r, s \in Good' : r[3] = s[3] => r = s
        /\ {r[3] : r \in Good'} = (IF Reading' THEN server'.cnt + 1 ELSE server'.cnt) .. Start - 1
    BY <1>1, <1>4, <2>2 DEF DecInv
  <2> QED BY <1>1, <1>3, <1>7, <1>8, <2>3 DEF DecInv, Start
<1>10. CASE pc[u] = "read"
  <2>1. x = server.cnt /\ x # -1
    BY <1>1, <1>5, <1>10
  <2>2. Good' = Good \union {new} /\ Reading
    <3>1. Good' = Good \union {new}
      BY <1>1, <1>5, <2>1 DEF Good
    <3> QED BY <1>10, <3>1 DEF Reading
  <2>3. {r[3] : r \in Good} = server.cnt + 1 .. Start - 1
    BY <2>2 DEF DecInv
  <2>4. \A r \in Good : r[3] # x
    <3>1. \A r \in Good : r[3] \in server.cnt + 1 .. Start - 1
      BY <2>3
    <3> QED BY <1>1, <2>1, <3>1
  <2>5. \A r, s \in Good' : r[3] = s[3] => r = s
    <3>1. \A r, s \in Good : r[3] = s[3] => r = s
      BY DEF DecInv
    <3> QED BY <1>5, <2>2, <2>4, <3>1
  <2>6. {r[3] : r \in Good'} = {r[3] : r \in Good} \union {x}
    BY <1>5, <2>2
  <2>7. Start - 1 >= server.cnt
    BY <1>1, <1>10 DEF DecInv
  <2>8. (server.cnt + 1 .. Start - 1) \union {server.cnt} = server.cnt .. Start - 1
    BY <1>1, <2>7
  <2>9. {r[3] : r \in Good'} = (IF Reading' THEN server'.cnt + 1 ELSE server'.cnt) .. Start - 1
    BY <1>1, <1>4, <2>1, <2>3, <2>6, <2>8
  <2> QED BY <1>1, <1>3, <1>7, <1>8, <2>5, <2>9 DEF DecInv, Start
<1> QED BY <1>9, <1>10

LEMMA StepDec ==
  ASSUME IInv, FaultInv, DecInv, StoreInv, FewFaults, [Next]_vars
  PROVE  DecInv'
<1>0. /\ pc \in [Users -> Places] /\ TypeOK
      /\ count \in [Users -> [trx : 0 .. MaxTrx, dec : 0 .. MaxDecs]]
      /\ ses \in Conns /\ server \in [up : BOOLEAN, cnt : Int]
  BY DEF IInv, TypeOK, Places
<1>1. ASSUME NEW u \in Users, pc[u] \notin {"dec", "read", "broken"},
             pc'[u] \notin {"dec", "read", "broken"},
             \A v \in Users \ {u} : pc'[v] = pc[v],
             \A v \in Users : count'[v].dec = count[v].dec,
             UNCHANGED <<holder, results, server, ses>>
      PROVE  DecInv'
  BY <1>0, <1>1, DecKept
<1>2. ASSUME NEW u \in Users,
             \/ NextStatement(u) \/ BeginTry(u) \/ Commit(u) \/ Rollback(u) \/ Clone(u)
             \/ Ins(u) \/ InsOrSet(u) \/ Set(u) \/ Del(u)
      PROVE  DecInv'
  <2>1. UNCHANGED <<holder, results, server, ses, count>>
    BY <1>2 DEF NextStatement, BeginTry, Commit, Rollback, Clone, Ins, InsOrSet,
                Set, Del, Statement, sesVars
  <2>2. pc[u] \notin {"dec", "read", "broken"}
    BY <1>2 DEF NextStatement, BeginTry, Commit, Rollback, Clone, Ins, InsOrSet,
                Set, Del, Statement
  <2>3. \E p \in Places \ {"dec", "read", "broken"} :
          pc' = pc \/ pc' = [pc EXCEPT ![u] = p]
    <3>1. CASE NextStatement(u) \/ Clone(u)
      BY <3>1 DEF NextStatement, Clone, Goto, Places
    <3>2. CASE Commit(u) \/ Rollback(u)
      <4>1. pc' = [pc EXCEPT ![u] = "idle"]
        BY <3>2 DEF Commit, Rollback, Release, Goto
      <4> QED BY <4>1 DEF Places
    <3>3. CASE BeginTry(u)
      <4>1. \/ pc' = pc \/ pc' = [pc EXCEPT ![u] = "statement"]
            \/ pc' = [pc EXCEPT ![u] = "failed"]
        BY <3>3, BeginTryFacts
      <4> QED BY <4>1 DEF Places
    <3>4. CASE Ins(u) \/ InsOrSet(u) \/ Set(u) \/ Del(u)
      <4>1. PICK unsent \in {"open", "failed"} : Try(u, unsent)
        BY <3>4 DEF Ins, InsOrSet, Set, Del
      <4>2. pc[u] = "statement"
        BY <3>4 DEF Ins, InsOrSet, Set, Del, Statement
      <4>3. pc' = [pc EXCEPT ![u] = "open"]
        BY <4>1, <4>2, TryFacts
      <4> QED BY <4>3 DEF Places
    <3> QED BY <1>2, <3>1, <3>2, <3>3, <3>4
  <2>4. pc'[u] \notin {"dec", "read", "broken"} /\ \A v \in Users \ {u} : pc'[v] = pc[v]
    BY <1>0, <2>2, <2>3
  <2> QED BY <1>1, <2>1, <2>2, <2>4
<1>3. ASSUME NEW u \in Users, TrxNew(u) PROVE DecInv'
  <2>1. UNCHANGED <<holder, results, server, ses>> /\ pc[u] = "idle"
    BY <1>3 DEF TrxNew, sesVars
  <2>2. \A v \in Users : count'[v].dec = count[v].dec
    BY <1>0, <1>3 DEF TrxNew
  <2>3. pc'[u] \in {"clone", "open"} /\ \A v \in Users \ {u} : pc'[v] = pc[v]
    BY <1>0, <1>3 DEF TrxNew, Goto
  <2> QED BY <1>1, <2>1, <2>2, <2>3
<1>4. CASE DropConnection \/ Stop \/ Restart
  <2>1. UNCHANGED <<holder, pc, count, results>>
    BY <1>4 DEF DropConnection, Stop, Restart, sesVars
  <2>2. server'.cnt = server.cnt
    BY <1>0, <1>4 DEF DropConnection, Stop, Restart
  <2>3. ses'.id = ses.id
    <3>1. Dropped(ses).id = ses.id
      BY <1>0 DEF Dropped, Conns
    <3> QED BY <1>4, <3>1 DEF DropConnection, Stop, Restart, sesVars
  <2> QED BY <1>0, <2>1, <2>2, <2>3, DecKept
<1>5. CASE UNCHANGED vars
  BY <1>0, <1>5, DecKept DEF vars
<1> QED BY <1>2, <1>3, <1>4, <1>5, SessionCallDec, DecTryDec, DecReadDec
        DEF Next, UserStep

-----------------------------------------------------------------------------
(* StoreInv is kept, and every step is one of TrxStore. *)

StoreOfConn(c, used) ==
  /\ c.open => c.link = "up" /\ used
  /\ ~ c.open => c.pending = {}

StoreOf(u) ==
  /\ ConnOf(u).open <=> trx[u].inTrx
  /\ trx[u].inTrx => ConnOf(u).pending = {TrxOf(u)} \X (1 .. trx[u].next - 1)
  /\ ~ trx[u].inTrx => trx[u].next = 1
  /\ pc[u] = "statement" => trx[u].inTrx
  /\ pc[u] = "begin" => ~ trx[u].inTrx

ToldOf(u) ==
  \A k \in 1 .. MaxTrx :
    \/ k > count[u].trx
    \/ k = count[u].trx /\ pc[u] \in InTransaction \union {"clone"}
    => told[<<u, k>>] = "nothing"

LEMMA StoreParts ==
  StoreInv <=> /\ \A i \in Nodes : StoreOfConn(pool[i].conn, pool[i].used)
               /\ \A u \in Users : pc[u] \in InTransaction => StoreOf(u)
               /\ \A u \in Users : ToldOf(u)
BY DEF StoreInv, StoreOfConn, StoreOf, ToldOf

\* A step of one thread: what must be shown of it.
LEMMA StoreThread ==
  ASSUME StoreInv, NEW u \in Users,
         \A i \in Nodes' : StoreOfConn(pool'[i].conn, pool'[i].used),
         \A v \in Users \ {u} :
           /\ pc'[v] = pc[v] /\ trx'[v] = trx[v] /\ count'[v] = count[v]
           /\ pc[v] \in InTransaction => ConnOf(v)' = ConnOf(v)
           /\ \A k \in 1 .. MaxTrx : told'[<<v, k>>] = told[<<v, k>>],
         pc'[u] \in InTransaction => StoreOf(u)',
         ToldOf(u)'
  PROVE  StoreInv'
<1>1. ASSUME NEW v \in Users
      PROVE  (pc'[v] \in InTransaction => StoreOf(v)') /\ ToldOf(v)'
  <2>1. CASE v # u
    <3>1. (pc[v] \in InTransaction => StoreOf(v)) /\ ToldOf(v)
      BY StoreParts
    <3>2. /\ pc'[v] = pc[v] /\ trx'[v] = trx[v] /\ count'[v] = count[v]
          /\ TrxOf(v)' = TrxOf(v)
          /\ pc[v] \in InTransaction => ConnOf(v)' = ConnOf(v)
          /\ \A k \in 1 .. MaxTrx : told'[<<v, k>>] = told[<<v, k>>]
      BY <2>1 DEF TrxOf
    <3>3. pc'[v] \in InTransaction => StoreOf(v)'
      BY <3>1, <3>2 DEF StoreOf
    <3>4. ToldOf(v)'
      BY <3>1, <3>2 DEF ToldOf
    <3> QED BY <3>3, <3>4
  <2> QED BY <2>1
<1>2. StoreInv' <=> /\ \A i \in Nodes' : StoreOfConn(pool'[i].conn, pool'[i].used)
                    /\ \A v \in Users : pc'[v] \in InTransaction => StoreOf(v)'
                    /\ \A v \in Users : ToldOf(v)'
  BY DEF StoreInv, StoreOfConn, StoreOf, ToldOf
<1> QED BY <1>1, <1>2

\* The connections after one of them has changed.
LEMMA StoreOneConn ==
  ASSUME IInv, StoreInv, NEW u \in Users, pc[u] \in InTransaction,
         NEW c \in Conns,
         \/ pool' = [pool EXCEPT ![trx[u].node].conn = c] /\ StoreOfConn(c, TRUE)
         \/ /\ pool' = [pool EXCEPT ![trx[u].node] = [used |-> FALSE, conn |-> c]]
            /\ StoreOfConn(c, FALSE),
         \A v \in Users \ {u} : trx'[v] = trx[v]
  PROVE  /\ \A i \in Nodes' : StoreOfConn(pool'[i].conn, pool'[i].used)
         /\ \A v \in Users \ {u} : pc[v] \in InTransaction => ConnOf(v)' = ConnOf(v)
         /\ trx'[u].node = trx[u].node => ConnOf(u)' = c
<1>1. pool \in Seq(PoolItem) /\ trx[u].node \in Nodes /\ pool[trx[u].node].used
  BY UserFacts DEF IInv, TypeOK, PoolItem
<1>2. /\ Nodes' = Nodes
      /\ pool'[trx[u].node].conn = c
      /\ \A i \in Nodes \ {trx[u].node} : pool'[i] = pool[i]
      /\ \A v \in Users \ {u} : pc[v] \in InTransaction => ConnOf(v)' = ConnOf(v)
  <2>1. FALSE \in BOOLEAN
    OBVIOUS
  <2> QED BY <2>1, OneConn
<1>3. StoreOfConn(pool'[trx[u].node].conn, pool'[trx[u].node].used)
  <2>1. CASE pool' = [pool EXCEPT ![trx[u].node].conn = c] /\ StoreOfConn(c, TRUE)
    <3>1. pool'[trx[u].node].used = pool[trx[u].node].used
      BY <1>1, <2>1, ConnExcept
    <3> QED BY <1>1, <1>2, <2>1, <3>1 DEF StoreOfConn
  <2>2. CASE /\ pool' = [pool EXCEPT ![trx[u].node] = [used |-> FALSE, conn |-> c]]
             /\ StoreOfConn(c, FALSE)
    BY <1>1, <1>2, <2>2 DEF StoreOfConn
  <2> QED BY <2>1, <2>2
<1>4. \A i \in Nodes \ {trx[u].node} : StoreOfConn(pool'[i].conn, pool'[i].used)
  <2>1. \A i \in Nodes : StoreOfConn(pool[i].conn, pool[i].used)
    BY StoreParts
  <2> QED BY <1>2, <2>1
<1>5. \A i \in Nodes' : StoreOfConn(pool'[i].conn, pool'[i].used)
  BY <1>2, <1>3, <1>4
<1>6. trx'[u].node = trx[u].node => ConnOf(u)' = c
  BY <1>2 DEF ConnOf
<1> QED BY <1>2, <1>5, <1>6

LEMMA BeginTryStore ==
  ASSUME IInv, FaultInv, StoreInv, FewFaults, NEW u \in Users, BeginTry(u)
  PROVE  StoreInv' /\ UNCHANGED <<store, told>>
<1>1. /\ pc[u] = "begin" /\ pc[u] \in InTransaction /\ pc \in [Users -> Places]
      /\ trx \in [Users -> [node : Nat, inTrx : BOOLEAN, next : 1 .. Writes + 1]]
      /\ count' = count /\ told' = told /\ store' = store
  BY DEF BeginTry, InTransaction, IInv, TypeOK, Places
<1>2. ConnOf(u) \in Conns /\ Connected \in Conns /\ trx[u].node \in Nodes
  BY <1>1, UserFacts, ConnTypes DEF IInv
<1>3. ~ trx[u].inTrx /\ trx[u].next = 1 /\ ~ ConnOf(u).open /\ ConnOf(u).pending = {}
  BY <1>1, <1>2 DEF StoreInv, ConnOf
<1>4. /\ TrxOf(u)' = TrxOf(u)
      /\ \A k \in 1 .. MaxTrx :
           \/ k > count[u].trx
           \/ k = count[u].trx
           => told[<<u, k>>] = "nothing"
  BY <1>1 DEF StoreInv, TrxOf
<1>5. ToldOf(u)'
  BY <1>1, <1>4 DEF ToldOf
<1>6. CASE ConnOf(u).link = "up"
  <2> DEFINE c == [ConnOf(u) EXCEPT !.open = TRUE]
  <2>1. c \in Conns /\ c.open /\ c.link = "up" /\ c.pending = {}
    BY <1>2, <1>3, <1>6 DEF Conns
  <2>2. /\ pool' = [pool EXCEPT ![trx[u].node].conn = c]
        /\ trx' = [trx EXCEPT ![u].inTrx = TRUE]
        /\ pc' = [pc EXCEPT ![u] = "statement"]
    BY <1>6, BeginTryFacts
  <2> HIDE DEF c
  <2>3. /\ trx'[u].inTrx /\ trx'[u].next = 1 /\ trx'[u].node = trx[u].node
        /\ pc'[u] = "statement"
        /\ \A v \in Users \ {u} : trx'[v] = trx[v] /\ pc'[v] = pc[v]
    BY <1>1, <1>3, <2>2
  <2>4. /\ \A i \in Nodes' : StoreOfConn(pool'[i].conn, pool'[i].used)
        /\ \A v \in Users \ {u} : pc[v] \in InTransaction => ConnOf(v)' = ConnOf(v)
        /\ ConnOf(u)' = c
    BY <1>1, <2>1, <2>2, <2>3, StoreOneConn DEF StoreOfConn
  <2>5. {TrxOf(u)} \X (1 .. 1 - 1) = {}
    OBVIOUS
  <2>6. StoreOf(u)'
    BY <1>4, <2>1, <2>3, <2>4, <2>5 DEF StoreOf
  <2> QED BY <1>1, <1>5, <2>3, <2>4, <2>6, StoreThread
<1>7. CASE ConnOf(u).link # "up"
  <2>1. /\ pool' = [pool EXCEPT ![trx[u].node].conn = Connected]
        /\ trx' = trx
        /\ pc' = pc \/ pc' = [pc EXCEPT ![u] = "failed"]
    BY <1>7, BeginTryFacts
  <2>2. ~ Connected.open /\ Connected.pending = {}
    BY DEF Connected, Fresh
  <2>3. /\ pc'[u] \in {"begin", "failed"}
        /\ \A v \in Users \ {u} : pc'[v] = pc[v]
    BY <1>1, <2>1
  <2>4. /\ \A i \in Nodes' : StoreOfConn(pool'[i].conn, pool'[i].used)
        /\ \A v \in Users \ {u} : pc[v] \in InTransaction => ConnOf(v)' = ConnOf(v)
        /\ ConnOf(u)' = Connected
    BY <1>1, <1>2, <2>1, <2>2, StoreOneConn DEF StoreOfConn
  <2>5. StoreOf(u)'
    BY <1>3, <2>1, <2>2, <2>3, <2>4 DEF StoreOf
  <2> QED BY <1>1, <1>5, <2>1, <2>3, <2>4, <2>5, StoreThread
<1> QED BY <1>6, <1>7

LEMMA TryStore ==
  ASSUME IInv, StoreInv, FewFaults, NEW u \in Users, pc[u] = "statement",
         NEW unsent, Try(u, unsent), UNCHANGED <<sesVars, count, server, told>>
  PROVE  StoreInv' /\ UNCHANGED <<store, told>>
<1> DEFINE w == <<TrxOf(u), trx[u].next>>
           c == [ConnOf(u) EXCEPT !.pending = @ \union {w}]
<1>1. /\ pc[u] \in InTransaction /\ pc \in [Users -> Places]
      /\ trx \in [Users -> [node : Nat, inTrx : BOOLEAN, next : 1 .. Writes + 1]]
      /\ count' = count /\ told' = told
  BY DEF InTransaction, IInv, TypeOK, Places
<1>2. /\ ConnOf(u).link = "up" /\ ConnOf(u).open /\ trx[u].inTrx
      /\ store' = store
      /\ pool' = [pool EXCEPT ![trx[u].node].conn = c]
      /\ trx' = [trx EXCEPT ![u].next = @ + 1]
      /\ pc' = [pc EXCEPT ![u] = "open"]
  BY TryFacts
<1>3. ConnOf(u) \in Conns /\ w \in Trxs \X Statements /\ trx[u].next \in Nat \ {0}
  <2>1. trx[u].next \in 1 .. Writes /\ Writes \in Nat
    BY ConstantsOK DEF IInv, UserInv, Statements
  <2> QED BY <1>1, <2>1, UserFacts DEF Statements
<1>4. ConnOf(u).pending = {TrxOf(u)} \X (1 .. trx[u].next - 1)
  BY <1>1, <1>2 DEF StoreInv
<1>5. /\ c \in Conns /\ c.open /\ c.link = "up"
      /\ c.pending = ConnOf(u).pending \union {w}
  BY <1>2, <1>3 DEF Conns
<1>6. c.pending = {TrxOf(u)} \X (1 .. trx[u].next)
  <2>1. 1 .. trx[u].next = (1 .. trx[u].next - 1) \union {trx[u].next}
    BY <1>3
  <2>2. {TrxOf(u)} \X (1 .. trx[u].next) =
          ({TrxOf(u)} \X (1 .. trx[u].next - 1)) \union {w}
    BY <2>1
  <2> QED BY <1>4, <1>5, <2>2
<1> HIDE DEF c
<1>7. /\ trx'[u].inTrx /\ trx'[u].next = trx[u].next + 1 /\ trx'[u].node = trx[u].node
      /\ pc'[u] = "open"
      /\ \A v \in Users \ {u} : trx'[v] = trx[v] /\ pc'[v] = pc[v]
  BY <1>1, <1>2
<1>8. /\ \A i \in Nodes' : StoreOfConn(pool'[i].conn, pool'[i].used)
      /\ \A v \in Users \ {u} : pc[v] \in InTransaction => ConnOf(v)' = ConnOf(v)
      /\ ConnOf(u)' = c
  BY <1>1, <1>2, <1>5, <1>7, StoreOneConn DEF StoreOfConn
<1>9. TrxOf(u)' = TrxOf(u) /\ trx[u].next + 1 - 1 = trx[u].next
  BY <1>1, <1>3 DEF TrxOf
<1>10. StoreOf(u)'
  <2>1. ConnOf(u)'.open /\ trx'[u].inTrx
    BY <1>5, <1>7, <1>8
  <2>2. trx'[u].next - 1 = trx[u].next
    BY <1>3, <1>7
  <2>3. ConnOf(u)'.pending = {TrxOf(u)'} \X (1 .. trx'[u].next - 1)
    BY <1>6, <1>8, <1>9, <2>2
  <2>4. pc'[u] # "begin"
    BY <1>7
  <2> QED BY <2>1, <2>3, <2>4 DEF StoreOf
<1>11. ToldOf(u)'
  <2>1. ToldOf(u)
    BY StoreParts
  <2> QED BY <1>1, <1>7, <2>1 DEF ToldOf
<1> QED BY <1>1, <1>2, <1>7, <1>8, <1>10, <1>11, StoreThread

\* Steps that leave the transactions and their connections alone.
LEMMA StoreKept ==
  ASSUME StoreInv, UNCHANGED <<pool, trx, told>>,
         \A v \in Users :
           /\ count'[v].trx = count[v].trx
           /\ pc'[v] = pc[v] \/ {pc[v], pc'[v]} \subseteq {"idle", "dec", "read", "broken"}
  PROVE  StoreInv'
<1>1. Nodes' = Nodes /\ \A v \in Users : ConnOf(v)' = ConnOf(v) /\ TrxOf(v)' = TrxOf(v)
  BY DEF Nodes, ConnOf, TrxOf
<1>2. \A v \in Users : /\ pc'[v] \in InTransaction <=> pc[v] \in InTransaction
                       /\ pc'[v] = "clone" <=> pc[v] = "clone"
                       /\ pc'[v] = "statement" <=> pc[v] = "statement"
                       /\ pc'[v] = "begin" <=> pc[v] = "begin"
  BY DEF InTransaction
<1>3. \A v \in Users : (pc[v] \in InTransaction => StoreOf(v)) /\ ToldOf(v)
  BY StoreParts
<1>4. \A v \in Users : pc'[v] \in InTransaction => StoreOf(v)'
  BY <1>1, <1>2, <1>3 DEF StoreOf
<1>5. \A v \in Users : ToldOf(v)'
  BY <1>2, <1>3 DEF ToldOf
<1>6. \A i \in Nodes' : StoreOfConn(pool'[i].conn, pool'[i].used)
  BY <1>1, StoreParts
<1> QED BY <1>4, <1>5, <1>6 DEF StoreInv, StoreOfConn, StoreOf, ToldOf

LEMMA SessionStore ==
  ASSUME IInv, FaultInv, StoreInv, FewFaults, NEW u \in Users,
         SessionCall(u) \/ DecTry(u) \/ DecRead(u)
  PROVE  StoreInv' /\ UNCHANGED <<store, told>>
<1>1. /\ UNCHANGED <<pool, trx, told, store>>
      /\ pc \in [Users -> Places]
      /\ count \in [Users -> [trx : 0 .. MaxTrx, dec : 0 .. MaxDecs]]
  BY DEF SessionCall, DecTry, DecRead, poolVars, IInv, TypeOK, Places
<1>2. \A v \in Users : count'[v].trx = count[v].trx
  BY <1>1 DEF SessionCall, DecTry, DecRead
<1>3. \A v \in Users :
        pc'[v] = pc[v] \/ {pc[v], pc'[v]} \subseteq {"idle", "dec", "read", "broken"}
  <2>1. CASE SessionCall(u) \/ DecRead(u)
    BY <1>1, <2>1 DEF SessionCall, DecRead, Goto
  <2>2. CASE DecTry(u)
    <3>1. pc[u] = "dec"
      BY <2>2 DEF DecTry
    <3>2. \/ pc' = pc \/ pc' = [pc EXCEPT ![u] = "read"]
          \/ pc' = [pc EXCEPT ![u] = "broken"]
      BY <2>2, DecTryFacts
    <3> QED BY <1>1, <3>1, <3>2
  <2> QED BY <2>1, <2>2
<1> QED BY <1>1, <1>2, <1>3, StoreKept

LEMMA NextStatementStore ==
  ASSUME IInv, StoreInv, NEW u \in Users, NextStatement(u)
  PROVE  StoreInv' /\ UNCHANGED <<store, told>>
<1>1. /\ UNCHANGED <<pool, trx, told, store, count>>
      /\ pc[u] = "open" /\ pc \in [Users -> Places]
      /\ pc' = [pc EXCEPT ![u] = IF trx[u].inTrx THEN "statement" ELSE "begin"]
  BY DEF NextStatement, poolVars, Goto, IInv, TypeOK, Places
<1>2. /\ pc'[u] = IF trx[u].inTrx THEN "statement" ELSE "begin"
      /\ \A v \in Users \ {u} : pc'[v] = pc[v]
      /\ pc[u] \in InTransaction
  BY <1>1 DEF InTransaction
<1>3. Nodes' = Nodes /\ \A v \in Users : ConnOf(v)' = ConnOf(v) /\ TrxOf(v)' = TrxOf(v)
  BY <1>1 DEF Nodes, ConnOf, TrxOf
<1>4. StoreOf(u) /\ ToldOf(u)
  BY <1>2, StoreParts
<1>5. StoreOf(u)'
  <2>1. /\ ConnOf(u)' = ConnOf(u) /\ TrxOf(u)' = TrxOf(u) /\ trx' = trx
        /\ pc'[u] = "statement" => trx[u].inTrx
        /\ pc'[u] = "begin" => ~ trx[u].inTrx
    BY <1>1, <1>2, <1>3
  <2> QED BY <1>4, <2>1 DEF StoreOf
<1>6. ToldOf(u)'
  BY <1>1, <1>2, <1>4 DEF ToldOf
<1>7. \A i \in Nodes' : StoreOfConn(pool'[i].conn, pool'[i].used)
  BY <1>1, <1>3, StoreParts
<1> QED BY <1>1, <1>2, <1>3, <1>5, <1>6, <1>7, StoreThread

LEMMA TrxNewStore ==
  ASSUME IInv, StoreInv, NEW u \in Users, TrxNew(u)
  PROVE  StoreInv' /\ UNCHANGED <<store, told>>
<1>1. /\ told' = told /\ store' = store
      /\ pc[u] = "idle" /\ pc \in [Users -> Places]
      /\ count' = [count EXCEPT ![u].trx = @ + 1]
      /\ count \in [Users -> [trx : 0 .. MaxTrx, dec : 0 .. MaxDecs]]
      /\ pool \in Seq(PoolItem)
      /\ trx \in [Users -> [node : Nat, inTrx : BOOLEAN, next : 1 .. Writes + 1]]
  BY DEF TrxNew, IInv, TypeOK, PoolItem, Places
<1>2. /\ pc'[u] \in {"clone", "open"}
      /\ \A v \in Users \ {u} : pc'[v] = pc[v] /\ trx'[v] = trx[v] /\ count'[v] = count[v]
      /\ count'[u].trx = count[u].trx + 1
  BY <1>1 DEF TrxNew, Goto
<1>3. \A i \in Nodes : StoreOfConn(pool[i].conn, pool[i].used)
  BY StoreParts
<1>4. /\ Nodes' = Nodes
      /\ \A i \in Nodes : pool'[i].conn = pool[i].conn
      /\ \A i \in Nodes : StoreOfConn(pool'[i].conn, pool'[i].used)
      /\ pc'[u] = "open" => StoreOf(u)'
  <2>1. CASE FirstFree = {}
    <3>1. pool' = pool /\ pc'[u] = "clone"
      BY <1>1, <2>1 DEF TrxNew, Goto
    <3>2. Nodes' = Nodes
      BY <3>1 DEF Nodes
    <3> QED BY <1>3, <3>1, <3>2
  <2>2. CASE FirstFree # {}
    <3>1. PICK i \in FirstFree :
            /\ pool' = [pool EXCEPT ![i].used = TRUE]
            /\ trx' = [trx EXCEPT ![u] = [NoTrx EXCEPT !.node = i]]
            /\ pc' = [pc EXCEPT ![u] = "open"]
      BY <2>2 DEF TrxNew, Taken, Goto
    <3>2. i \in Nodes /\ ~ pool[i].used /\ pool[i] \in PoolItem /\ pool[i].conn \in Conns
      BY <1>1, PoolTypes DEF FirstFree, Nodes
    <3>3. i \in Nat /\ TRUE \in BOOLEAN
      BY <1>1, <3>2, PoolTypes
    <3>4. pool' = [pool EXCEPT ![i] = [used |-> TRUE, conn |-> pool[i].conn]]
      <4>1. [pool[i] EXCEPT !.used = TRUE] = [used |-> TRUE, conn |-> pool[i].conn]
        BY <3>2, <3>3, MarkedItem
      <4> QED BY <3>1, <4>1
    <3>5. Nodes' = Nodes /\ \A j \in Nodes \ {i} : pool'[j] = pool[j]
      BY <1>1, <3>2, <3>4, ItemExcept
    <3>6. (pool'[i].used <=> TRUE) /\ pool'[i].conn = pool[i].conn
      BY <1>1, <3>2, <3>3, <3>4, ItemMark
    <3>7. ~ pool[i].conn.open /\ pool[i].conn.pending = {}
      BY <1>3, <3>2 DEF StoreOfConn
    <3>8. \A j \in Nodes : StoreOfConn(pool'[j].conn, pool'[j].used)
      BY <1>3, <3>5, <3>6, <3>7 DEF StoreOfConn
    <3>9. StoreOf(u)'
      <4>1. [NoTrx EXCEPT !.node = i].node = i
        BY <3>2, <3>3, MarkedItem
      <4>2. ~ [NoTrx EXCEPT !.node = i].inTrx /\ [NoTrx EXCEPT !.node = i].next = 1
        BY NewTrx, <3>3
      <4>3. /\ trx'[u].node = i /\ ~ trx'[u].inTrx /\ trx'[u].next = 1
            /\ pc'[u] = "open"
        BY <1>1, <3>1, <4>1, <4>2
      <4>4. ConnOf(u)' = pool[i].conn
        BY <3>6, <4>3 DEF ConnOf
      <4> QED BY <3>7, <4>3, <4>4 DEF StoreOf
    <3> QED BY <3>5, <3>6, <3>8, <3>9
  <2> QED BY <2>1, <2>2
<1>5. \A v \in Users \ {u} : pc[v] \in InTransaction => ConnOf(v)' = ConnOf(v)
  BY <1>2, <1>4, UserFacts DEF ConnOf
<1>6. ToldOf(u)'
  <2>1. ToldOf(u) /\ count[u].trx \in Nat
    BY StoreParts, PartTypes DEF IInv
  <2> QED BY <1>1, <1>2, <2>1 DEF ToldOf
<1>7. pc'[u] \in InTransaction => StoreOf(u)'
  BY <1>2, <1>4 DEF InTransaction
<1> QED BY <1>1, <1>2, <1>4, <1>5, <1>6, <1>7, StoreThread

\* The owner of a transaction that goes on was not told anything yet, and
\* what it is told does not touch what others were told.
LEMMA TellOne ==
  ASSUME IInv, StoreInv, NEW u \in Users,
         pc[u] \in InTransaction \union {"clone"}, NEW answer,
         told' = [told EXCEPT ![TrxOf(u)] = answer],
         count' = count, pc'[u] = "idle"
  PROVE  /\ TrxOf(u) \in Trxs /\ told[TrxOf(u)] = "nothing"
         /\ ToldOf(u)'
         /\ \A v \in Users \ {u} : \A k \in 1 .. MaxTrx : told'[<<v, k>>] = told[<<v, k>>]
<1>1. count[u].trx \in 0 .. MaxTrx /\ count[u].trx >= 1 /\ count[u].trx \in Nat
  BY PartTypes DEF IInv, UserInv
<1>2. count[u].trx \in 1 .. MaxTrx
  BY <1>1, ConstantsOK
<1>3. TrxOf(u) \in Trxs /\ TrxOf(u) = <<u, count[u].trx>>
  BY <1>2 DEF TrxOf, Trxs
<1>4. ToldOf(u)
  BY StoreParts
<1>5. told[TrxOf(u)] = "nothing"
  BY <1>2, <1>3, <1>4 DEF ToldOf
<1>6. told \in [Trxs -> {"nothing", "stored", "error", "rolled back"}]
  BY DEF IInv, TypeOK
<1>7. \A k \in 1 .. MaxTrx : k # count[u].trx => told'[<<u, k>>] = told[<<u, k>>]
  <2> SUFFICES ASSUME NEW k \in 1 .. MaxTrx, k # count[u].trx
               PROVE  told'[<<u, k>>] = told[<<u, k>>]
    OBVIOUS
  <2>1. <<u, k>> \in Trxs /\ <<u, k>> # TrxOf(u)
    BY <1>3 DEF Trxs
  <2> QED BY <1>6, <2>1
<1>8. ToldOf(u)'
  BY <1>1, <1>4, <1>7 DEF ToldOf, InTransaction
<1>9. ASSUME NEW v \in Users \ {u}, NEW k \in 1 .. MaxTrx
      PROVE  told'[<<v, k>>] = told[<<v, k>>]
  <2>1. <<v, k>> \in Trxs /\ <<v, k>> # TrxOf(u)
    BY <1>3 DEF Trxs
  <2> QED BY <1>6, <2>1
<1> QED BY <1>3, <1>5, <1>8, <1>9

LEMMA CloneStore ==
  ASSUME IInv, StoreInv, NEW u \in Users, Clone(u)
  PROVE  StoreInv' /\ (TS!GiveUp(TrxOf(u)) \/ UNCHANGED <<store, told>>)
         /\ TrxOf(u) \in Trxs
<1>1. /\ store' = store /\ count' = count
      /\ pc[u] = "clone" /\ pc \in [Users -> Places]
      /\ pool \in Seq(PoolItem) /\ Connected \in Conns
      /\ trx \in [Users -> [node : Nat, inTrx : BOOLEAN, next : 1 .. Writes + 1]]
  BY ConnTypes DEF Clone, IInv, TypeOK, PoolItem, Places
<1>2. \A i \in Nodes : StoreOfConn(pool[i].conn, pool[i].used)
  BY StoreParts
<1>3. TrxOf(u) \in Trxs
  <2>1. count[u].trx \in 0 .. MaxTrx /\ count[u].trx >= 1
    BY <1>1, PartTypes DEF IInv, UserInv
  <2> QED BY <2>1, ConstantsOK DEF TrxOf, Trxs
<1>4. CASE ~ server.up
  <2>1. /\ pool' = pool /\ trx' = trx
        /\ told' = [told EXCEPT ![TrxOf(u)] = "error"]
        /\ pc' = [pc EXCEPT ![u] = "idle"]
    BY <1>4 DEF Clone, Goto
  <2>2. pc'[u] = "idle" /\ \A v \in Users \ {u} : pc'[v] = pc[v]
    BY <1>1, <2>1
  <2>3. /\ told[TrxOf(u)] = "nothing" /\ ToldOf(u)'
        /\ \A v \in Users \ {u} : \A k \in 1 .. MaxTrx : told'[<<v, k>>] = told[<<v, k>>]
    BY <1>1, <2>1, <2>2, TellOne
  <2>4. Nodes' = Nodes /\ \A v \in Users : ConnOf(v)' = ConnOf(v)
    BY <2>1 DEF Nodes, ConnOf
  <2>5. \A i \in Nodes' : StoreOfConn(pool'[i].conn, pool'[i].used)
    BY <1>2, <2>1, <2>4
  <2>6. pc'[u] \notin InTransaction
    BY <2>2 DEF InTransaction
  <2>7. StoreInv'
    BY <1>1, <2>1, <2>2, <2>3, <2>4, <2>5, <2>6, StoreThread
  <2>8. TS!GiveUp(TrxOf(u))
    BY <1>1, <2>1, <2>3 DEF TS!GiveUp
  <2> QED BY <1>3, <2>7, <2>8
<1>5. CASE server.up
  <2> DEFINE n == Len(pool) + 1
             x == [used |-> TRUE, conn |-> Connected]
  <2>1. /\ pool' = Append(pool, x)
        /\ trx' = [trx EXCEPT ![u] = [NoTrx EXCEPT !.node = n]]
        /\ pc' = [pc EXCEPT ![u] = "open"]
        /\ told' = told
    BY <1>5 DEF Clone, Goto
  <2>2. x \in PoolItem /\ x.conn = Connected /\ n \in Nat
    BY <1>1, PoolTypes DEF PoolItem
  <2> HIDE DEF x
  <2>3. /\ pool'[n] = x
        /\ \A j \in Nodes : pool'[j] = pool[j]
        /\ \A i \in Nodes' : i \in Nodes \/ i = n
    <3>1. /\ pool' \in Seq(PoolItem) /\ Len(pool') = n
          /\ pool'[n] = x
          /\ \A j \in 1 .. Len(pool) : pool'[j] = pool[j]
      BY <1>1, <2>1, <2>2, AppendProperties
    <3>2. Nodes' = 1 .. n /\ Nodes = 1 .. Len(pool) /\ Len(pool) \in Nat
      BY <1>1, <3>1, LenProperties DEF Nodes
    <3> QED BY <3>1, <3>2
  <2>4. ~ Connected.open /\ Connected.pending = {}
    BY DEF Connected, Fresh
  <2>5. \A i \in Nodes' : StoreOfConn(pool'[i].conn, pool'[i].used)
    <3>1. StoreOfConn(pool'[n].conn, pool'[n].used)
      BY <2>2, <2>3, <2>4 DEF StoreOfConn
    <3> QED BY <1>2, <2>3, <3>1
  <2>6. /\ trx'[u].node = n /\ ~ trx'[u].inTrx /\ trx'[u].next = 1
        /\ \A v \in Users \ {u} : trx'[v] = trx[v] /\ pc'[v] = pc[v]
        /\ pc'[u] = "open"
    <3>1. [NoTrx EXCEPT !.node = n].node = n
      BY <2>2, MarkedItem
    <3>2. ~ [NoTrx EXCEPT !.node = n].inTrx /\ [NoTrx EXCEPT !.node = n].next = 1
      BY <2>2, NewTrx
    <3> QED BY <1>1, <2>1, <3>1, <3>2
  <2>7. ConnOf(u)' = Connected
    BY <2>2, <2>3, <2>6 DEF ConnOf
  <2>8. StoreOf(u)'
    BY <2>4, <2>6, <2>7 DEF StoreOf
  <2>9. \A v \in Users \ {u} : pc[v] \in InTransaction => ConnOf(v)' = ConnOf(v)
    BY <2>3, <2>6, UserFacts DEF ConnOf
  <2>10. ToldOf(u)'
    <3>1. ToldOf(u)
      BY StoreParts
    <3> QED BY <1>1, <2>1, <2>6, <3>1 DEF ToldOf
  <2>11. StoreInv'
    BY <1>1, <2>1, <2>5, <2>6, <2>8, <2>9, <2>10, StoreThread
  <2> QED BY <1>1, <1>3, <2>1, <2>11
<1> QED BY <1>4, <1>5

LEMMA EndStore ==
  ASSUME IInv, StoreInv, FewFaults, NEW u \in Users, Commit(u) \/ Rollback(u)
  PROVE  StoreInv' /\ TrxOf(u) \in Trxs /\ (TS!Commit(TrxOf(u)) \/ TS!GiveUp(TrxOf(u)))
<1>1. /\ pc[u] \in InTransaction /\ pc \in [Users -> Places]
      /\ count' = count
      /\ trx \in [Users -> [node : Nat, inTrx : BOOLEAN, next : 1 .. Writes + 1]]
  BY EndFacts DEF IInv, TypeOK, Places
<1>2. PICK conn \in Conns, answer \in {"stored", "rolled back"} :
        /\ Release(u, conn, answer)
        /\ ~ conn.open /\ conn.pending = {}
        /\ store' = IF answer = "stored" THEN store \union ({TrxOf(u)} \X Statements)
                    ELSE store
  BY EndFacts
<1>3. /\ pool' = [pool EXCEPT ![trx[u].node] = [used |-> FALSE, conn |-> conn]]
      /\ trx' = [trx EXCEPT ![u] = NoTrx]
      /\ told' = [told EXCEPT ![TrxOf(u)] = answer]
      /\ pc' = [pc EXCEPT ![u] = "idle"]
  BY <1>2 DEF Release, Goto
<1>4. /\ pc'[u] = "idle"
      /\ \A v \in Users \ {u} : pc'[v] = pc[v] /\ trx'[v] = trx[v]
  BY <1>1, <1>3
<1>5. /\ TrxOf(u) \in Trxs /\ told[TrxOf(u)] = "nothing" /\ ToldOf(u)'
      /\ \A v \in Users \ {u} : \A k \in 1 .. MaxTrx : told'[<<v, k>>] = told[<<v, k>>]
  BY <1>1, <1>3, <1>4, TellOne
<1>6. /\ \A i \in Nodes' : StoreOfConn(pool'[i].conn, pool'[i].used)
      /\ \A v \in Users \ {u} : pc[v] \in InTransaction => ConnOf(v)' = ConnOf(v)
  <2>1. StoreOfConn(conn, FALSE)
    BY <1>2 DEF StoreOfConn
  <2> QED BY <1>1, <1>3, <1>4, <2>1, StoreOneConn
<1>7. pc'[u] \notin InTransaction
  BY <1>4 DEF InTransaction
<1>8. StoreInv'
  BY <1>1, <1>4, <1>5, <1>6, <1>7, StoreThread
<1>9. CASE answer = "stored"
  <2>1. TS!Commit(TrxOf(u))
    BY <1>2, <1>3, <1>5, <1>9 DEF TS!Commit
  <2> QED BY <1>5, <1>8, <2>1
<1>10. CASE answer = "rolled back"
  <2>1. TS!GiveUp(TrxOf(u))
    BY <1>2, <1>3, <1>5, <1>10 DEF TS!GiveUp
  <2> QED BY <1>5, <1>8, <2>1
<1> QED BY <1>9, <1>10

\* The server drops connections only while no transaction is open on them.
LEMMA ServerStore ==
  ASSUME IInv, StoreInv, FewFaults, DropConnection \/ Stop \/ Restart
  PROVE  StoreInv' /\ UNCHANGED <<store, told>>
<1>1. /\ UNCHANGED <<pc, trx, count, store, told>>
      /\ pool \in Seq(PoolItem)
      /\ \A i \in Nodes : pool[i] \in PoolItem /\ pool[i].conn \in Conns
  <2>1. UNCHANGED <<pc, trx, count, store, told>>
    BY DEF DropConnection, Stop, Restart, poolVars
  <2>2. pool \in Seq(PoolItem)
    BY DEF IInv, TypeOK, PoolItem
  <2>3. \A i \in Nodes : pool[i] \in PoolItem
    BY <2>2, PoolTypes
  <2> QED BY <2>1, <2>2, <2>3 DEF PoolItem
<1>2. /\ Nodes' = Nodes
      /\ \A i \in Nodes :
           /\ pool'[i].used = pool[i].used
           /\ \/ pool'[i].conn = pool[i].conn
              \/ ~ pool[i].conn.open /\ ~ pool'[i].conn.open /\ pool'[i].conn.pending = {}
  <2>1. ASSUME NEW c \in Conns
        PROVE  ~ Dropped(c).open /\ Dropped(c).pending = {} /\ Dropped(c) \in Conns
    <3>1. ~ Dropped(c).open /\ Dropped(c).pending = {}
      BY DEF Dropped, Conns
    <3>2. Dropped(c) \in Conns
      BY ConnTypes DEF Dropped, Conns
    <3> QED BY <3>1, <3>2
  <2>2. ASSUME NEW c, Idle(c) PROVE ~ c.open
    BY <2>2 DEF Idle, FewFaults
  <2>3. CASE pool' = pool
    <3>1. Nodes' = Nodes
      BY <2>3 DEF Nodes
    <3> QED BY <2>3, <3>1
  <2>4. CASE DropConnection /\ pool' # pool
    <3>1. PICK i \in Nodes :
            /\ Idle(pool[i].conn)
            /\ pool' = [pool EXCEPT ![i].conn = Dropped(@)]
      BY <2>4 DEF DropConnection, Nodes
    <3>2. pool' = [pool EXCEPT ![i].conn = Dropped(pool[i].conn)]
      BY <3>1
    <3>3. /\ Nodes' = Nodes /\ pool'[i].conn = Dropped(pool[i].conn)
          /\ \A j \in Nodes \ {i} : pool'[j] = pool[j]
          /\ \A j \in Nodes : pool'[j].used = pool[j].used
      BY <1>1, <2>1, <3>2, ConnExcept
    <3>4. ~ pool[i].conn.open /\ ~ pool'[i].conn.open /\ pool'[i].conn.pending = {}
      BY <1>1, <2>1, <2>2, <3>1, <3>3
    <3> QED BY <3>3, <3>4
  <2>5. CASE Stop
    <3>1. /\ pool' = [i \in Nodes |-> [pool[i] EXCEPT !.conn = Dropped(@)]]
          /\ \A i \in Nodes : Idle(pool[i].conn)
      BY <2>5 DEF Stop, Nodes
    <3>2. Nodes' = Nodes
      BY <3>1 DEF Nodes
    <3>3. ASSUME NEW i \in Nodes
          PROVE  /\ pool'[i].used = pool[i].used
                 /\ ~ pool[i].conn.open /\ ~ pool'[i].conn.open /\ pool'[i].conn.pending = {}
      <4>1. pool'[i] = [pool[i] EXCEPT !.conn = Dropped(pool[i].conn)]
        BY <3>1
      <4>2. pool'[i].used = pool[i].used /\ pool'[i].conn = Dropped(pool[i].conn)
        BY <1>1, <4>1 DEF PoolItem
      <4> QED BY <1>1, <2>1, <2>2, <3>1, <4>2
    <3> QED BY <3>2, <3>3
  <2>6. CASE Restart
    BY <2>3, <2>6 DEF Restart, poolVars
  <2> QED BY <2>3, <2>4, <2>5, <2>6
<1>3. ASSUME NEW i \in Nodes' PROVE StoreOfConn(pool'[i].conn, pool'[i].used)
  <2>1. i \in Nodes /\ StoreOfConn(pool[i].conn, pool[i].used)
    BY <1>2, StoreParts
  <2> QED BY <1>2, <2>1 DEF StoreOfConn
<1>4. ASSUME NEW u \in Users, pc[u] \in InTransaction PROVE StoreOf(u)'
  <2>1. StoreOf(u) /\ trx[u].node \in Nodes
    BY <1>4, StoreParts, UserFacts
  <2>2. TrxOf(u)' = TrxOf(u)
    BY <1>1 DEF TrxOf
  <2>3. CASE ConnOf(u)' = ConnOf(u)
    BY <1>1, <2>1, <2>2, <2>3 DEF StoreOf
  <2>4. CASE ~ ConnOf(u).open /\ ~ ConnOf(u)'.open
    <3>1. ~ trx[u].inTrx /\ trx[u].next = 1 /\ pc[u] # "statement"
      BY <2>1, <2>4 DEF StoreOf
    <3> QED BY <1>1, <2>4, <3>1 DEF StoreOf
  <2> QED BY <1>1, <1>2, <2>1, <2>3, <2>4 DEF ConnOf
<1>5. ASSUME NEW u \in Users PROVE ToldOf(u)'
  <2>1. ToldOf(u)
    BY StoreParts
  <2> QED BY <1>1, <2>1 DEF ToldOf
<1> QED BY <1>1, <1>3, <1>4, <1>5 DEF StoreInv, StoreOfConn, StoreOf, ToldOf

LEMMA StepStore ==
  ASSUME IInv, FaultInv, StoreInv, FewFaults, [Next]_vars
  PROVE  StoreInv' /\ [TS!StoreNext]_(TS!vars)
<1>1. ASSUME NEW u \in Users, UserStep(u)
      PROVE  StoreInv' /\ [TS!StoreNext]_(TS!vars)
  <2>1. CASE Ins(u) \/ InsOrSet(u) \/ Set(u) \/ Del(u)
    <3>1. PICK unsent \in {"open", "failed"} : Try(u, unsent)
      BY <2>1 DEF Ins, InsOrSet, Set, Del
    <3>2. /\ pc[u] = "statement"
          /\ UNCHANGED <<sesVars, count, server, told>>
      BY <2>1 DEF Ins, InsOrSet, Set, Del, Statement
    <3> QED BY <3>1, <3>2, TryStore DEF TS!vars
  <2>2. CASE Clone(u)
    BY <2>2, CloneStore DEF TS!StoreNext, TS!vars
  <2>3. CASE Commit(u) \/ Rollback(u)
    BY <2>3, EndStore DEF TS!StoreNext
  <2>4. CASE NextStatement(u)
    BY <2>4, NextStatementStore DEF TS!vars
  <2>5. CASE BeginTry(u)
    BY <2>5, BeginTryStore DEF TS!vars
  <2>6. CASE DecTry(u) \/ DecRead(u)
    BY <2>6, SessionStore DEF TS!vars
  <2> QED BY <1>1, <2>1, <2>2, <2>3, <2>4, <2>5, <2>6 DEF UserStep
<1>2. ASSUME NEW u \in Users, TrxNew(u) \/ SessionCall(u)
      PROVE  StoreInv' /\ [TS!StoreNext]_(TS!vars)
  BY <1>2, TrxNewStore, SessionStore DEF TS!vars
<1>3. CASE DropConnection \/ Stop \/ Restart
  BY <1>3, ServerStore DEF TS!vars
<1>4. CASE UNCHANGED vars
  <2>1. UNCHANGED <<pool, trx, told, store, count, pc>>
    BY <1>4 DEF vars
  <2> QED BY <2>1, StoreKept DEF TS!vars
<1> QED BY <1>1, <1>2, <1>3, <1>4 DEF Next

-----------------------------------------------------------------------------
LEMMA InitJInv ==
  ASSUME Init
  PROVE  JInv
<1>1. FaultInv
  BY DEF Init, FaultInv, Faults, Miss, Fresh, Nodes
<1>2. DecInv
  <2>1. Good = {} /\ ~ Reading
    BY DEF Init, Good, Reading
  <2>2. Start .. Start - 1 = {}
    BY ConstantsOK
  <2>3. {r[3] : r \in Good} = (IF Reading THEN server.cnt + 1 ELSE server.cnt) .. Start - 1
    BY <2>1, <2>2 DEF Init
  <2> QED BY <2>1, <2>3, ConstantsOK, AdblAssumption DEF Init, DecInv
<1>3. StoreInv
  BY DEF Init, StoreInv, Nodes, InTransaction, Trxs
<1> QED BY <1>1, <1>2, <1>3, InitIInv DEF JInv

LEMMA StepJInv ==
  ASSUME JInv, FewFaults, [Next]_vars
  PROVE  JInv'
BY StepIInv, StepFault, StepDec, StepStore DEF JInv

\* Connections that are lost between transactions, and restarts of the server,
\* cost no decrement: the callers are told every value the counter went
\* through, once each (adbl_pvd_atomic_dec), as long as the retries outlast
\* the faults.
THEOREM DecrementsCorrect == FewFaults /\ Spec => []EveryValueOnce
<1> SUFFICES ASSUME FewFaults PROVE Spec => []EveryValueOnce
  OBVIOUS
<1>1. Init => JInv
  BY InitJInv
<1>2. JInv /\ [Next]_vars => JInv'
  BY StepJInv
<1>3. JInv => EveryValueOnce
  <2> SUFFICES ASSUME JInv PROVE EveryValueOnce
    OBVIOUS
  <2>1. (\A u \in Users : pc[u] # "read") => ~ Reading
    BY DEF Reading
  <2>2. /\ \A r, s \in Good : r[3] = s[3] => r = s
        /\ {r[3] : r \in Good} = (IF Reading THEN server.cnt + 1 ELSE server.cnt) .. Start - 1
    BY DEF JInv, DecInv
  <2> QED BY <2>1, <2>2 DEF EveryValueOnce, Good
<1> QED BY <1>1, <1>2, <1>3, PTL DEF Spec

\* Seen from its users, adbl with its pool, its retries and a server that
\* restarts is a store of whole transactions (TrxStore).
THEOREM StoreImplemented == FewFaults /\ Spec => ImplementsStore
<1> SUFFICES ASSUME FewFaults PROVE Spec => TS!StoreSpec
  BY DEF ImplementsStore
<1>1. Init => JInv /\ TS!StoreInit
  BY InitJInv DEF Init, TS!StoreInit
<1>2. JInv /\ [Next]_vars => JInv' /\ [TS!StoreNext]_(TS!vars)
  BY StepJInv, StepStore DEF JInv
<1> QED BY <1>1, <1>2, PTL DEF Spec, TS!StoreSpec

=============================================================================
