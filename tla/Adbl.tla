-------------------------------- MODULE Adbl --------------------------------
(***************************************************************************)
(* The database layer adbl (libs/adbl) on a MySQL server.                  *)
(*                                                                         *)
(* A session owns one connection for plain queries and atomic counters,    *)
(* shared by all threads under a mutex, and a pool of further connections. *)
(* adbl_trx_new takes an unused connection of the pool or opens a new one, *)
(* the first statement begins the transaction on the server, and commit or *)
(* rollback gives the connection back.  Every statement is tried again     *)
(* when the server had gone away, on a new connection under the same       *)
(* handle.                                                                 *)
(*                                                                         *)
(* The data is abstract: statement k of transaction t is the pair <<t, k>> *)
(* and the database is the set of the pairs stored.  The kinds of the      *)
(* statements matter for what they return when all tries are used up.      *)
(***************************************************************************)
EXTENDS Integers, Sequences, FiniteSets

CONSTANTS Users,        \* the threads that use the session
          MaxTrx,       \* bound: transactions of each user
          Writes,       \* statements of each transaction
          Plan,         \* their kinds, for each user
          MaxDecs,      \* bound: decrements by each user
          MaxRetries,   \* max_retries, 5 in the code
          MaxLosses,    \* bound: connections the server drops
          MaxStops,     \* bound: restarts of the server
          LoseBusy      \* whether it drops connections that are in use

ASSUME AdblAssumption ==
  /\ {MaxTrx, MaxDecs, MaxLosses, MaxStops} \subseteq Nat
  /\ {Writes, MaxRetries} \subseteq Nat \ {0}
  /\ LoseBusy \in BOOLEAN
  /\ Plan \in [Users -> [1 .. Writes -> {"ins", "set", "del", "ins_or_set"}]]
  /\ IsFiniteSet(Users) /\ "nobody" \notin Users

Trxs == Users \X (1 .. MaxTrx)
Statements == 1 .. Writes

VARIABLES
  pool,     \* the connections of the pool, AdblPoolItem
  ses,      \* the connection of the session itself
  holder,   \* the user that holds the mutex of the session's connection
  pc,       \* where each user is
  tries,    \* the tries of the current statement that failed
  trx,      \* AdblTrx of each user: its connection, in_trx, its statements
  count,    \* how many transactions and decrements each user has begun
  server,   \* whether the server runs, and the value of the counter row
  store,    \* the stored statements
  told,     \* what each transaction's owner was told
  results,  \* the values the decrements returned, as <<user, number, value>>
  faults    \* how many connections were dropped and restarts happened

vars == <<pool, ses, holder, pc, tries, trx, count, server, store, told,
          results, faults>>
poolVars == <<pool, trx, store, told>>
sesVars == <<ses, holder, results>>

(* A fresh connection: autocommit, no transaction (adbl_pvd_connect).  When *)
(* the server is down the handle stays without a connection.  id is what    *)
(* mysql_insert_id tells: the value of the last decrement on this handle.   *)
Conns == [link : {"up", "gone", "closed"}, open : BOOLEAN,
          pending : SUBSET (Trxs \X Statements), id : Int]
Fresh == [link |-> "up", open |-> FALSE, pending |-> {}, id |-> 0]
Connected == [Fresh EXCEPT !.link = IF server.up THEN "up" ELSE "closed"]

(* What the server does to a connection it drops: the open transaction is   *)
(* rolled back; the client does not know yet.                               *)
Dropped(c) == [c EXCEPT !.link = IF @ = "up" THEN "gone" ELSE @,
                        !.open = FALSE, !.pending = {}]

NoTrx == [node |-> 0, inTrx |-> FALSE, next |-> 1]
TrxOf(u) == <<u, count[u].trx>>
ConnOf(u) == pool[trx[u].node].conn

(* The counter starts at the number of decrements to come, as flow does it. *)
Start == Cardinality(Users) * MaxDecs

Init ==
  /\ pool = <<>>
  /\ server = [up |-> TRUE, cnt |-> Start]
  /\ ses = Fresh
  /\ holder = "nobody"
  /\ pc = [u \in Users |-> "idle"]
  /\ tries = [u \in Users |-> 0]
  /\ trx = [u \in Users |-> NoTrx]
  /\ count = [u \in Users |-> [trx |-> 0, dec |-> 0]]
  /\ store = {}
  /\ told = [t \in Trxs |-> "nothing"]
  /\ results = {}
  /\ faults = [losses |-> 0, stops |-> 0]

Goto(u, where) == pc' = [pc EXCEPT ![u] = where]

(* Whether the connection breaks while a statement is on its way. *)
Breaks(c) == IF LoseBusy /\ c.link = "up" /\ faults.losses < MaxLosses
             THEN BOOLEAN ELSE {FALSE}
CountBreak(b) == faults' = [faults EXCEPT !.losses = @ + IF b THEN 1 ELSE 0]

-----------------------------------------------------------------------------
(* The pool: adbl_pool.c, and adbl_trx_new, commit and rollback of adbl.c.  *)

(* adbl_pool_get: the first connection nobody uses. *)
FirstFree == {i \in DOMAIN pool : /\ ~ pool[i].used
                                  /\ \A j \in 1 .. i - 1 : pool[j].used}

\* Mutant: the connection is handed out without being marked.
TakenUnmarked(i) == pool

Taken(i) == [pool EXCEPT ![i].used = TRUE]

(* adbl_trx_new with a connection of the pool. *)
TrxNew(u) ==
  /\ pc[u] = "idle"
  /\ count[u].trx < MaxTrx
  /\ count' = [count EXCEPT ![u].trx = @ + 1]
  /\ IF FirstFree = {}
     THEN Goto(u, "clone") /\ UNCHANGED <<pool, trx>>
     ELSE \E i \in FirstFree :
            /\ pool' = Taken(i)
            /\ trx' = [trx EXCEPT ![u] = [NoTrx EXCEPT !.node = i]]
            /\ Goto(u, "open")
  /\ UNCHANGED <<sesVars, tries, server, store, told, faults>>

(* ... and with a new one: pvd_clone and adbl_pool_add.  Without a server   *)
(* the caller gets no transaction.                                          *)
Clone(u) ==
  /\ pc[u] = "clone"
  /\ IF server.up
     THEN /\ pool' = Append(pool, [used |-> TRUE, conn |-> Connected])
          /\ trx' = [trx EXCEPT ![u] = [NoTrx EXCEPT !.node = Len(pool) + 1]]
          /\ Goto(u, "open")
          /\ UNCHANGED told
     ELSE /\ told' = [told EXCEPT ![TrxOf(u)] = "error"]
          /\ Goto(u, "idle")
          /\ UNCHANGED <<pool, trx>>
  /\ UNCHANGED <<sesVars, tries, count, server, store, faults>>

(* adbl_pool_rel, and the transaction object is freed. *)
Release(u, conn, answer) ==
  /\ pool' = [pool EXCEPT ![trx[u].node] = [used |-> FALSE, conn |-> conn]]
  /\ trx' = [trx EXCEPT ![u] = NoTrx]
  /\ told' = [told EXCEPT ![TrxOf(u)] = answer]
  /\ Goto(u, "idle")

(* adbl_trx_commit: COMMIT is sent once, without any retry; a break may     *)
(* come before or after the server has done it.                             *)
Commit(u) ==
  LET c == ConnOf(u)
      after == [c EXCEPT !.open = FALSE, !.pending = {}]
  IN /\ pc[u] = "open"
     /\ trx[u].next > Writes
     /\ \E break \in Breaks(c), done \in BOOLEAN :
          /\ break \/ done = (c.link = "up")
          /\ store' = IF done THEN store \union c.pending ELSE store
          /\ Release(u, IF break THEN Dropped(after) ELSE after,
                     IF done /\ ~ break THEN "stored" ELSE "error")
          /\ CountBreak(break)
     /\ UNCHANGED <<sesVars, tries, count, server>>

\* Mutant: the handle goes back to the pool without a ROLLBACK.
RollbackForgotten(u) ==
  /\ pc[u] = "failed" \/ (pc[u] = "open" /\ trx[u].next \in Statements)
  /\ Release(u, ConnOf(u), "rolled back")
  /\ UNCHANGED <<sesVars, tries, count, server, store, faults>>

(* adbl_trx_rollback: after a statement that failed, or because the caller  *)
(* met an error of its own.                                                 *)
Rollback(u) ==
  LET c == ConnOf(u)
  IN /\ pc[u] = "failed" \/ (pc[u] = "open" /\ trx[u].next \in Statements)
     /\ Release(u, IF trx[u].inTrx THEN [c EXCEPT !.open = FALSE, !.pending = {}]
                   ELSE c, "rolled back")
     /\ UNCHANGED <<sesVars, tries, count, server, store, faults>>

-----------------------------------------------------------------------------
(* Statements and their retries: adbl_mysql.c.                              *)

(* adbl_check_error after a statement met a lost connection: the handle is  *)
(* connected anew.  Without a server the statement fails; otherwise it is   *)
(* tried again, or, when the tries are used up, the loop ends like that.    *)
Exhausted(u) == server.up /\ tries[u] + 1 = MaxRetries
\* Mutant: no limit, and also while nobody answers.
RetryForEver(u, exhausted, failed) == UNCHANGED <<tries, pc>>

CheckError(u, exhausted, failed) ==
  /\ tries' = [tries EXCEPT ![u] = IF server.up /\ ~ Exhausted(u)
                                   THEN @ + 1 ELSE 0]
  /\ IF server.up /\ ~ Exhausted(u) THEN UNCHANGED pc
     ELSE Goto(u, IF server.up THEN exhausted ELSE failed)

(* The next statement of the transaction: adbl_trx_start first. *)
NextStatement(u) ==
  /\ pc[u] = "open"
  /\ trx[u].next \in Statements
  /\ Goto(u, IF trx[u].inTrx THEN "statement" ELSE "begin")
  /\ UNCHANGED <<poolVars, sesVars, tries, count, server, faults>>

InTrx(u) == trx' = [trx EXCEPT ![u].inTrx = TRUE]

(* One turn of adbl_pvd_begin.  It returns no error when all its turns met  *)
(* a lost connection.                                                       *)
BeginTry(u) ==
  LET c == ConnOf(u)
  IN /\ pc[u] = "begin"
     /\ \E break \in Breaks(c) :
          /\ CountBreak(break)
          /\ IF c.link = "up" /\ ~ break
             THEN /\ pool' = [pool EXCEPT ![trx[u].node].conn.open = TRUE]
                  /\ InTrx(u)
                  /\ tries' = [tries EXCEPT ![u] = 0]
                  /\ Goto(u, "statement")
             ELSE /\ pool' = [pool EXCEPT ![trx[u].node].conn = Connected]
                  /\ CheckError(u, "statement", "failed")
                  /\ IF Exhausted(u) THEN InTrx(u) ELSE UNCHANGED trx
     /\ UNCHANGED <<sesVars, count, server, store, told>>

(* What a statement that reached the server leaves there. *)
Executed(c, w) == IF c.open THEN [c EXCEPT !.pending = @ \union {w}] ELSE c
Autocommitted(c, w) == IF c.open THEN store ELSE store \union {w}

StatementDone(u) == trx' = [trx EXCEPT ![u].next = @ + 1]

(* One turn of a statement: prepare, bind and execute.  When all turns met  *)
(* a lost connection the statement ends as unsent says.                     *)
Try(u, unsent) ==
  LET c == ConnOf(u)
      w == <<TrxOf(u), trx[u].next>>
      node == trx[u].node
  IN \E break \in Breaks(c), done \in BOOLEAN :
       /\ break \/ done = (c.link = "up")
       /\ CountBreak(break)
       /\ store' = IF done THEN Autocommitted(c, w) ELSE store
       /\ IF done /\ ~ break
          THEN /\ pool' = [pool EXCEPT ![node].conn = Executed(c, w)]
               /\ StatementDone(u)
               /\ Goto(u, "open")
               /\ tries' = [tries EXCEPT ![u] = 0]
          ELSE /\ pool' = [pool EXCEPT ![node].conn = Connected]
               /\ CheckError(u, unsent, "failed")
               /\ IF Exhausted(u) /\ unsent = "open" THEN StatementDone(u) ELSE UNCHANGED trx

Statement(u, kind) ==
  /\ pc[u] = "statement" /\ Plan[u][trx[u].next] = kind
  /\ UNCHANGED <<sesVars, count, server, told>>

(* An insert that never ran has no id, which is an error; an update or a    *)
(* delete that never ran is reported as done.                               *)
Ins(u) == Statement(u, "ins") /\ Try(u, "failed")
InsOrSet(u) == Statement(u, "ins_or_set") /\ Try(u, "failed")
Set(u) == Statement(u, "set") /\ Try(u, "open")
Del(u) == Statement(u, "del") /\ Try(u, "open")

-----------------------------------------------------------------------------
(* The connection of the session: queries and adbl_session_atomic_dec, from *)
(* any thread, one at a time.                                               *)

\* Mutant: the mutex of the connection is not taken.
SessionCallUnlocked(u) ==
  /\ pc[u] = "idle"
  /\ count[u].dec < MaxDecs
  /\ holder' = u
  /\ count' = [count EXCEPT ![u].dec = @ + 1]
  /\ Goto(u, "dec")
  /\ UNCHANGED <<poolVars, ses, results, tries, server, faults>>

SessionCall(u) ==
  /\ pc[u] = "idle"
  /\ count[u].dec < MaxDecs
  /\ holder = "nobody"
  /\ holder' = u
  /\ count' = [count EXCEPT ![u].dec = @ + 1]
  /\ Goto(u, "dec")
  /\ UNCHANGED <<poolVars, ses, results, tries, server, faults>>

(* One turn of adbl_pvd_atomic_dec: UPDATE .. SET cnt = LAST_INSERT_ID(cnt - 1). *)
DecTry(u) ==
  /\ pc[u] = "dec"
  /\ \E break \in Breaks(ses), done \in BOOLEAN :
       /\ break \/ done = (ses.link = "up")
       /\ CountBreak(break)
       /\ server' = IF done THEN [server EXCEPT !.cnt = @ - 1] ELSE server
       /\ IF done /\ ~ break
          THEN /\ ses' = [ses EXCEPT !.id = server.cnt - 1]
               /\ Goto(u, "read")
               /\ tries' = [tries EXCEPT ![u] = 0]
          ELSE ses' = Connected /\ CheckError(u, "read", "broken")
  /\ UNCHANGED <<poolVars, holder, results, count>>

(* mysql_insert_id, still under the mutex; it clears the error, too.  A     *)
(* decrement that failed returns -1.                                        *)
DecRead(u) ==
  /\ pc[u] \in {"read", "broken"}
  /\ results' = results \union
                  {<<u, count[u].dec, IF pc[u] = "read" THEN ses.id ELSE -1>>}
  /\ holder' = "nobody"
  /\ Goto(u, "idle")
  /\ UNCHANGED <<poolVars, ses, tries, count, server, faults>>

-----------------------------------------------------------------------------
(* The server. *)

(* It drops a connection: wait_timeout on an idle one; with LoseBusy also   *)
(* in the middle of a transaction.                                          *)
Idle(c) == LoseBusy \/ ~ c.open
DropConnection ==
  /\ faults.losses < MaxLosses
  /\ \/ \E i \in DOMAIN pool :
          /\ pool[i].conn.link = "up" /\ Idle(pool[i].conn)
          /\ pool' = [pool EXCEPT ![i].conn = Dropped(@)]
          /\ UNCHANGED ses
     \/ /\ ses.link = "up"
        /\ ses' = Dropped(ses)
        /\ UNCHANGED pool
  /\ faults' = [faults EXCEPT !.losses = @ + 1]
  /\ UNCHANGED <<holder, results, pc, tries, trx, count, server, store, told>>

(* It stops, which drops every connection, and starts again. *)
Stop ==
  /\ server.up
  /\ faults.stops < MaxStops
  /\ \A i \in DOMAIN pool : Idle(pool[i].conn)
  /\ server' = [server EXCEPT !.up = FALSE]
  /\ pool' = [i \in DOMAIN pool |-> [pool[i] EXCEPT !.conn = Dropped(@)]]
  /\ ses' = Dropped(ses)
  /\ faults' = [faults EXCEPT !.stops = @ + 1]
  /\ UNCHANGED <<holder, results, pc, tries, trx, count, store, told>>

Restart ==
  /\ ~ server.up
  /\ server' = [server EXCEPT !.up = TRUE]
  /\ UNCHANGED <<poolVars, sesVars, pc, tries, count, faults>>

-----------------------------------------------------------------------------
UserStep(u) ==
  \/ Clone(u) \/ NextStatement(u) \/ BeginTry(u)
  \/ Ins(u) \/ InsOrSet(u) \/ Set(u) \/ Del(u) \/ Commit(u) \/ Rollback(u)
  \/ DecTry(u) \/ DecRead(u)

Next ==
  \/ \E u \in Users : UserStep(u) \/ TrxNew(u) \/ SessionCall(u)
  \/ DropConnection \/ Stop \/ Restart

(* A thread inside a call of adbl runs on; nothing makes anyone begin. *)
Spec == Init /\ [][Next]_vars /\ \A u \in Users : WF_vars(UserStep(u))

-----------------------------------------------------------------------------
(* Properties. *)

TypeOK ==
  /\ pool \in Seq([used : BOOLEAN, conn : Conns])
  /\ ses \in Conns
  /\ holder \in Users \union {"nobody"}
  /\ pc \in [Users -> {"idle", "clone", "open", "begin", "statement",
                       "failed", "dec", "read", "broken"}]
  /\ tries \in [Users -> 0 .. MaxRetries - 1]
  /\ trx \in [Users -> [node : Nat, inTrx : BOOLEAN, next : 1 .. Writes + 1]]
  /\ count \in [Users -> [trx : 0 .. MaxTrx, dec : 0 .. MaxDecs]]
  /\ server \in [up : BOOLEAN, cnt : Int]
  /\ store \subseteq Trxs \X Statements
  /\ told \in [Trxs -> {"nothing", "stored", "error", "rolled back"}]
  /\ results \subseteq Users \X (1 .. MaxDecs) \X Int
  /\ faults \in [losses : 0 .. MaxLosses, stops : 0 .. MaxStops]

(* A connection of the pool serves at most one transaction at a time, every *)
(* connection marked as used serves one, and the pool opens no more         *)
(* connections than there are threads, although looking for a free one and  *)
(* adding a new one are two critical sections (adbl_trx_new).               *)
PoolIsExact ==
  /\ \A u, v \in Users : trx[u].node = trx[v].node /\ trx[u].node # 0 => u = v
  /\ {i \in DOMAIN pool : pool[i].used} = {trx[u].node : u \in Users} \ {0}
  /\ Len(pool) <= Cardinality(Users)

(* The decrements that succeeded returned, between them, every value the    *)
(* counter went through and no value twice: exactly one caller is the one   *)
(* that sees the counter reach 0 and goes on (flow_run_dbw_done).           *)
EveryValueOnce ==
  LET good == {r \in results : r[3] # -1}
  IN /\ \A r, s \in good : r[3] = s[3] => r = s
     /\ (\A u \in Users : pc[u] # "read")
          => {r[3] : r \in good} = server.cnt .. (Start - 1)

(* adbl.h says of the decrement that "the result will be returned or an     *)
(* error if not possible": who is told 0 sees a counter that is used up.    *)
ZeroMeansUsedUp == \A r \in results : r[3] = 0 => server.cnt <= 0

(* Seen from outside, a transaction is stored as a whole or not at all, and *)
(* what was reported as committed is stored, whatever connections are       *)
(* dropped between transactions and however often the server restarts.      *)
TS == INSTANCE TrxStore
ImplementsStore == TS!StoreSpec

(* Every call of adbl comes back: no thread keeps trying for ever, and the  *)
(* thread that holds the session's connection gives it back.                *)
EveryCallEnds == \A u \in Users : (pc[u] # "idle") ~> (pc[u] = "idle")
=============================================================================
