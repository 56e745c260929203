-------------------------- MODULE RouteItemsProofs --------------------------
(***************************************************************************)
(* Theorems about RouteItems, for every set of connections, names, uuids    *)
(* and remote processes: first what the operators of RouteTable preserve,   *)
(* then the turns of a pool, then the agreement of the table with the       *)
(* connections.                                                             *)
(***************************************************************************)
EXTENDS RouteItems, WellFoundedInduction, FiniteSetTheorems, TLAPS

\* A nonempty set of numbers has a smallest element.  The sets of the elements
\* below an element form a family of finite sets, and one of them is minimal.
LEMMA MinExists ==
  ASSUME NEW T \in SUBSET Nat, T # {}
  PROVE  \E s \in T : \A t \in T : s <= t
<1>1. PICK b \in T : TRUE
  OBVIOUS
<1>2. \A t \in T : t \in Nat
  OBVIOUS
<1> DEFINE S == 0 .. b
           Below(x) == {y \in T : y <= x}
           F == {Below(x) : x \in T \cap S}
<1>a. IsFiniteSet(S)
  BY <1>2, FS_Interval
<1>3. IsWellFoundedOn(StrictSubsetOrdering(S), SUBSET S)
  BY <1>a, FS_StrictSubsetOrderingWellFounded, FS_FiniteSubsetsOfFinite
<1>4. ASSUME NEW x \in T \cap S PROVE Below(x) \in SUBSET S
  <2> SUFFICES ASSUME NEW y \in Below(x) PROVE y \in S
    OBVIOUS
  <2>1. y \in Nat /\ x \in Nat /\ b \in Nat /\ y <= x /\ x <= b
    BY <1>2
  <2> QED BY <2>1
<1>5. b \in T \cap S
  OBVIOUS
<1> HIDE DEF S, Below
<1>6. F \subseteq SUBSET S /\ F # {}
  BY <1>4, <1>5
<1> HIDE DEF F
<1>7. PICK X \in F : \A Y \in F : ~ (<<Y, X>> \in StrictSubsetOrdering(S))
  BY <1>3, <1>6, WFMin
<1>8. PICK x \in T \cap S : X = Below(x)
  BY DEF F
<1>9. ASSUME NEW t \in T, ~ (x <= t) PROVE FALSE
  <2>1. t \in T \cap S
    BY <1>9, <1>8 DEF S
  <2>2. Below(t) \in F
    BY <2>1 DEF F
  <2>3. Below(t) \subseteq Below(x)
    <3> SUFFICES ASSUME NEW y \in Below(t) PROVE y \in Below(x)
      OBVIOUS
    <3>1. y \in Nat /\ x \in Nat /\ t \in Nat /\ y <= t /\ t < x /\ y \in T
      BY <1>9, <1>2 DEF Below
    <3> QED BY <3>1 DEF Below
  <2>4. x \in Below(x) /\ x \notin Below(t)
    BY <1>9 DEF Below
  <2>5. <<Below(t), X>> \in StrictSubsetOrdering(S)
    BY <1>6, <1>8, <2>2, <2>3, <2>4 DEF StrictSubsetOrdering
  <2> QED BY <2>2, <2>5, <1>7
<1> QED BY <1>8, <1>9

\* Slots are compared as numbers: NoUuid, the member `rdn', comes first.
LEMMA SlotsAreNumbers == Slots \subseteq Nat /\ NoUuid \in Slots /\ Uuids \subseteq Slots
BY UuidsAssumption DEF Slots, NoUuid

\* The turn goes to a member that was not served in the round, the first one.
LEMMA NextIsDue ==
  ASSUME NEW ctx \in Context, NEW r \in Nat, Due(ctx, r) # {}
  PROVE  /\ RoundRobinNext(ctx, r) \in Due(ctx, r)
         /\ RoundRobinNext(ctx, r) \in Members(ctx)
         /\ RoundRobinNext(ctx, r) \in Slots
         /\ ctx.rr[RoundRobinNext(ctx, r)] < r
<1>1. Due(ctx, r) \in SUBSET Nat
  BY SlotsAreNumbers DEF Due, Members
<1>2. \E s \in Due(ctx, r) : IsFirst(s, Due(ctx, r))
  BY <1>1, MinExists DEF IsFirst
<1>3. RoundRobinNext(ctx, r) \in Due(ctx, r)
  BY <1>2 DEF RoundRobinNext
<1> QED BY <1>3 DEF Due, Members

-----------------------------------------------------------------------------
\* A pool in the states the code builds: the mark of a member is at most one
\* round behind, and the count of the map is not below its number of keys.
ContextOK(ctx) ==
  /\ ctx \in Context
  /\ \A s \in Members(ctx) : ctx.rr[s] = ctx.round \/ ctx.rr[s] + 1 = ctx.round
  /\ Cardinality(Pooled(ctx)) <= ctx.size

\* ... and exactly its number of keys, as long as no key is inserted twice.
CountOK(ctx) == ctx.size = Cardinality(Pooled(ctx))

\* The keys of the pool map are finitely many, so their number is defined.
LEMMA PooledIsFinite ==
  ASSUME NEW ctx \in Context
  PROVE  /\ IsFiniteSet(Pooled(ctx))
         /\ Pooled(ctx) \subseteq Uuids
         /\ Cardinality(Pooled(ctx)) \in Nat
         /\ (Cardinality(Pooled(ctx)) = 0) <=> (Pooled(ctx) = {})
<1>1. Pooled(ctx) \subseteq Uuids
  BY DEF Pooled, Members, Slots
<1>2. IsFiniteSet(Pooled(ctx))
  BY <1>1, UuidsAssumption, FS_Subset
<1> QED BY <1>1, <1>2, FS_CardinalityType, FS_EmptySet

\* A new pool (qbus_route_direct_context_new) has nobody, and its count is right.
LEMMA NewContextOK ==
  /\ ContextOK(NewContext)
  /\ CountOK(NewContext)
  /\ Members(NewContext) = {}
<1>1. NewContext \in Context
  BY DEF NewContext, Context
<1>2. Members(NewContext) = {} /\ Pooled(NewContext) = {}
  BY DEF NewContext, Members, Pooled
<1> QED BY <1>1, <1>2, FS_EmptySet DEF ContextOK, CountOK, NewContext

\* Adding a member: the pool has it, unless the slot was taken.
LEMMA ContextAddMembers ==
  ASSUME NEW ctx \in Context, NEW u \in Slots, NEW c \in Conns
  PROVE  /\ ContextAdd(ctx, u, c) \in Context
         /\ Members(ContextAdd(ctx, u, c)) = Members(ctx) \cup {u}
<1>1. ContextAdd(ctx, u, c) \in Context
  BY DEF ContextAdd, Context
<1>2. ASSUME NEW s \in Slots
      PROVE  s \in Members(ContextAdd(ctx, u, c)) <=> s \in Members(ctx) \cup {u}
  BY NoConnAssumption DEF ContextAdd, Context, Members
<1> QED BY <1>1, <1>2 DEF Members

\* Adding a member keeps the count positive while there is a key, and exact as
\* long as the key was not in the map: cape_map_insert counts a refused insertion.
LEMMA ContextAddOK ==
  ASSUME NEW ctx, ContextOK(ctx), NEW u \in Slots, NEW c \in Conns
  PROVE  /\ ContextOK(ContextAdd(ctx, u, c))
         /\ CountOK(ctx) /\ ctx.conn[u] = NoConn => CountOK(ContextAdd(ctx, u, c))
<1> DEFINE new == ContextAdd(ctx, u, c)
<1>1. ctx \in Context /\ new \in Context /\ Members(new) = Members(ctx) \cup {u}
  BY ContextAddMembers DEF ContextOK
<1>2. \A s \in Members(new) : new.rr[s] = new.round \/ new.rr[s] + 1 = new.round
  BY <1>1 DEF ContextAdd, ContextOK, Context, Members
<1>3. CASE u = NoUuid
  <2>1. Pooled(new) = Pooled(ctx)
    BY <1>1, <1>3 DEF Pooled
  <2>2. new.size = ctx.size
    BY <1>3 DEF ContextAdd
  <2> QED BY <1>1, <1>2, <2>1, <2>2 DEF ContextOK, CountOK
<1>4. CASE u # NoUuid
  <2>1. Pooled(new) = Pooled(ctx) \cup {u}
    BY <1>1, <1>4 DEF Pooled
  <2>2. Cardinality(Pooled(new)) =
          IF u \in Pooled(ctx) THEN Cardinality(Pooled(ctx))
          ELSE Cardinality(Pooled(ctx)) + 1
    BY <1>1, <2>1, PooledIsFinite, FS_AddElement
  <2>3. new.size = IF Pooled(ctx) = {} THEN 1 ELSE ctx.size + 1
    BY <1>4 DEF ContextAdd
  <2>4. Cardinality(Pooled(ctx)) \in Nat /\ ctx.size \in Nat
        /\ ((Cardinality(Pooled(ctx)) = 0) <=> (Pooled(ctx) = {}))
    BY <1>1, PooledIsFinite DEF Context
  <2>5. Cardinality(Pooled(ctx)) <= ctx.size
    BY DEF ContextOK
  <2>6. Cardinality(Pooled(new)) <= new.size
    BY <2>2, <2>3, <2>4, <2>5
  <2>7. ctx.conn[u] = NoConn => u \notin Pooled(ctx)
    BY DEF Pooled, Members
  <2>8. CountOK(ctx) /\ ctx.conn[u] = NoConn => CountOK(new)
    BY <2>2, <2>3, <2>4, <2>7 DEF CountOK
  <2> QED BY <1>1, <1>2, <2>6, <2>8 DEF ContextOK
<1> QED BY <1>3, <1>4

\* Removing a member: the slot is free, and the count is right again.
LEMMA ContextRmOK ==
  ASSUME NEW ctx, ContextOK(ctx), NEW u \in Slots
  PROVE  /\ ContextOK(ContextRm(ctx, u))
         /\ CountOK(ctx) => CountOK(ContextRm(ctx, u))
         /\ Members(ContextRm(ctx, u)) = Members(ctx) \ {u}
         /\ ContextIsEmpty(ContextRm(ctx, u)) => Members(ctx) \subseteq {u}
<1> DEFINE new == ContextRm(ctx, u)
<1>1. ctx \in Context
  BY DEF ContextOK
<1>2. Members(new) = Members(ctx) \ {u}
  BY <1>1 DEF ContextRm, Context, Members
<1>3. Pooled(new) = Pooled(ctx) \ {u}
  BY <1>2 DEF Pooled
<1>4. Cardinality(Pooled(new)) =
        IF u \in Pooled(ctx) THEN Cardinality(Pooled(ctx)) - 1
        ELSE Cardinality(Pooled(ctx))
  BY <1>1, <1>3, PooledIsFinite, FS_RemoveElement
<1>5. new.size = IF u \in Pooled(ctx) THEN ctx.size - 1 ELSE ctx.size
  BY DEF ContextRm
<1>6. /\ Cardinality(Pooled(ctx)) \in Nat /\ ctx.size \in Nat
      /\ Cardinality(Pooled(ctx)) <= ctx.size
      /\ u \in Pooled(ctx) => Cardinality(Pooled(ctx)) # 0
  BY <1>1, PooledIsFinite DEF ContextOK, Context
<1>7. new.size \in Nat /\ Cardinality(Pooled(new)) <= new.size
      /\ (CountOK(ctx) => CountOK(new))
  BY <1>4, <1>5, <1>6 DEF CountOK
<1>8. new \in Context
  BY <1>1, <1>7 DEF ContextRm, Context
<1>9. \A s \in Members(new) : new.rr[s] = new.round \/ new.rr[s] + 1 = new.round
  BY <1>2 DEF ContextOK, ContextRm
<1>10. ASSUME ContextIsEmpty(new) PROVE Members(ctx) \subseteq {u}
  <2>1. Pooled(new) = {}
    BY <1>7, <1>8, <1>10, PooledIsFinite DEF ContextIsEmpty
  <2>2. NoUuid \notin Members(new)
    BY <1>10 DEF ContextIsEmpty, Members
  <2>3. Members(new) = {}
    BY <2>1, <2>2 DEF Pooled
  <2> QED BY <1>2, <2>3
<1> QED BY <1>2, <1>7, <1>8, <1>9, <1>10 DEF ContextOK

\* The round of a pool only moves to the next one.
LEMMA TurnType ==
  ASSUME NEW ctx \in Context
  PROVE  Turn(ctx) \in Nat /\ (Turn(ctx) = ctx.round \/ Turn(ctx) = ctx.round + 1)
BY DEF Turn, Context

\* One turn: it goes to a member whenever there is one.
LEMMA RoundRobinOK ==
  ASSUME NEW ctx, ContextOK(ctx)
  PROVE  /\ ContextOK(RoundRobin(ctx))
         /\ CountOK(ctx) => CountOK(RoundRobin(ctx))
         /\ Members(RoundRobin(ctx)) = Members(ctx)
         /\ HasTurn(ctx) <=> Members(ctx) # {}
         /\ HasTurn(ctx) => /\ Picked(ctx) \in Members(ctx)
                            /\ ctx.rr[Picked(ctx)] < Turn(ctx)
<1> DEFINE new == RoundRobin(ctx)
<1>1. ctx \in Context /\ Turn(ctx) \in Nat
      /\ (Turn(ctx) = ctx.round \/ Turn(ctx) = ctx.round + 1)
  BY TurnType DEF ContextOK
<1>2. HasTurn(ctx) => Picked(ctx) \in Members(ctx) /\ Picked(ctx) \in Slots
                      /\ ctx.rr[Picked(ctx)] < Turn(ctx)
  BY <1>1, NextIsDue DEF HasTurn, Picked
<1>3. HasTurn(ctx) <=> Members(ctx) # {}
  <2>1. HasTurn(ctx) => Members(ctx) # {}
    BY <1>2
  <2>2. ASSUME NEW s \in Members(ctx), Due(ctx, ctx.round) = {} PROVE HasTurn(ctx)
    <3>1. ctx.rr[s] < ctx.round + 1
      BY <1>1, <2>2 DEF ContextOK, Context, Members
    <3>2. Turn(ctx) = ctx.round + 1
      BY <2>2 DEF Turn
    <3> QED BY <3>1, <3>2 DEF HasTurn, Due
  <2>3. Due(ctx, ctx.round) # {} => HasTurn(ctx)
    BY DEF Turn, HasTurn
  <2> QED BY <2>1, <2>2, <2>3
<1>4. new \in Context
  BY <1>1, <1>2 DEF RoundRobin, Context
<1>5. Members(new) = Members(ctx) /\ Pooled(new) = Pooled(ctx)
  BY DEF RoundRobin, Members, Pooled
<1>6. ASSUME NEW s \in Members(new)
      PROVE  new.rr[s] = new.round \/ new.rr[s] + 1 = new.round
  <2>1. s \in Slots /\ s \in Members(ctx) /\ HasTurn(ctx)
    BY <1>3, <1>5, <1>6 DEF Members
  <2>2. new.round = Turn(ctx)
        /\ new.rr[s] = IF s = Picked(ctx) THEN Turn(ctx) ELSE ctx.rr[s]
    BY <1>1, <2>1 DEF RoundRobin, Context
  <2>3. CASE Turn(ctx) = ctx.round
    BY <2>1, <2>2, <2>3 DEF ContextOK
  <2>4. CASE Turn(ctx) # ctx.round
    <3>1. Turn(ctx) = ctx.round + 1 /\ Due(ctx, ctx.round) = {}
      BY <1>1, <2>4 DEF Turn
    <3>2. ~ (ctx.rr[s] < ctx.round)
      BY <2>1, <3>1 DEF Due
    <3>3. ctx.rr[s] = ctx.round
      BY <1>1, <2>1, <3>2 DEF ContextOK, Context
    <3> QED BY <2>2, <3>1, <3>3
  <2> QED BY <2>3, <2>4
<1>7. new.size = ctx.size
  BY DEF RoundRobin
<1> QED BY <1>2, <1>3, <1>4, <1>5, <1>6, <1>7 DEF ContextOK, CountOK

-----------------------------------------------------------------------------
(***************************************************************************)
(* Fairness of one pool.  A member that still waits in this round may have   *)
(* seen every other one once in the last round and once in this one; a       *)
(* member that had its turn in this round has seen others at most once.      *)
(***************************************************************************)
Waits(ctx, s) == s \in Due(ctx, ctx.round)
Bound(ctx, z, y) == (IF Waits(ctx, z) THEN 1 ELSE 0) + (IF Waits(ctx, y) THEN 0 ELSE 1)
Fair(ctx, seen) ==
  \A z, y \in Slots : /\ z \notin Members(ctx) => seen[z][y] = 0
                      /\ seen[z][y] <= Bound(ctx, z, y)

SeenType == [Slots -> [Slots -> Nat]]
NothingSeen == [y \in Slots |-> 0]

\* Nobody has been overtaken in a new pool.
LEMMA FairNew == Fair(NewContext, [z \in Slots |-> NothingSeen])
BY DEF Fair, Bound, NothingSeen

\* A member that joins has seen nothing; it is marked as served in the round.
LEMMA FairAdd ==
  ASSUME NEW ctx, ContextOK(ctx), NEW u \in Slots, NEW c \in Conns,
         NEW seen \in SeenType, Fair(ctx, seen)
  PROVE  Fair(ContextAdd(ctx, u, c), seen)
<1> DEFINE new == ContextAdd(ctx, u, c)
<1>1. ctx \in Context /\ Members(new) = Members(ctx) \cup {u}
  BY ContextAddMembers DEF ContextOK
<1>2. ASSUME NEW s \in Slots PROVE Waits(new, s) <=> Waits(ctx, s)
  BY <1>1 DEF Waits, Due, ContextAdd, Context, Members
<1> QED BY <1>1, <1>2 DEF Fair, Bound

\* A member that leaves takes its account with it, and that of the others stays.
LEMMA FairRm ==
  ASSUME NEW ctx, ContextOK(ctx), NEW u \in Slots,
         NEW seen \in SeenType, Fair(ctx, seen)
  PROVE  Fair(ContextRm(ctx, u), [seen EXCEPT ![u] = NothingSeen])
<1> DEFINE new == ContextRm(ctx, u)
           now == [seen EXCEPT ![u] = NothingSeen]
<1>1. Members(new) = Members(ctx) \ {u}
  BY ContextRmOK
<1>2. ASSUME NEW s \in Slots PROVE Waits(new, s) <=> (Waits(ctx, s) /\ s # u)
  BY <1>1 DEF Waits, Due, ContextRm
<1>3. ASSUME NEW z \in Slots, NEW y \in Slots
      PROVE  now[z][y] = IF z = u THEN 0 ELSE seen[z][y]
  BY DEF SeenType, NothingSeen
<1>4. ASSUME NEW z \in Slots, NEW y \in Slots
      PROVE  /\ z \notin Members(new) => now[z][y] = 0
             /\ now[z][y] <= Bound(new, z, y)
  <2>1. seen[z][y] \in Nat /\ seen[z][y] <= Bound(ctx, z, y)
        /\ (z \notin Members(ctx) => seen[z][y] = 0)
    BY DEF SeenType, Fair
  <2>2. z # u => Bound(ctx, z, y) <= Bound(new, z, y)
    BY <1>2 DEF Bound
  <2>3. 0 <= Bound(new, z, y)
    BY DEF Bound
  <2>4. Bound(ctx, z, y) \in Int /\ Bound(new, z, y) \in Int
    BY DEF Bound
  <2>5. CASE z = u
    BY <1>3, <2>3, <2>5
  <2>6. CASE z # u
    <3>1. now[z][y] = seen[z][y]
      BY <1>3, <2>6
    <3> QED BY <1>1, <2>1, <2>2, <2>4, <2>6, <3>1
  <2> QED BY <2>5, <2>6
<1> QED BY <1>4 DEF Fair

\* A turn goes to a member that was not yet served in the round, so in the round
\* of an open turn each of the others can pass a waiting member once.
LEMMA FairTurn ==
  ASSUME NEW ctx, ContextOK(ctx), HasTurn(ctx),
         NEW seen \in SeenType, Fair(ctx, seen)
  PROVE  Fair(RoundRobin(ctx), AfterTurnOf(Picked(ctx), ctx, seen))
<1> DEFINE new == RoundRobin(ctx)
           p == Picked(ctx)
           now == AfterTurnOf(p, ctx, seen)
<1>1. /\ ctx \in Context /\ Members(new) = Members(ctx)
      /\ p \in Members(ctx) /\ p \in Slots /\ ctx.rr[p] < Turn(ctx)
  BY RoundRobinOK DEF ContextOK, Members
<1>2. new.round = Turn(ctx)
      /\ \A s \in Slots : new.rr[s] = IF s = p THEN Turn(ctx) ELSE ctx.rr[s]
  BY <1>1 DEF RoundRobin, Context
<1>3. Turn(ctx) \in Nat /\ ctx.round \in Nat /\ \A s \in Slots : ctx.rr[s] \in Nat
  BY <1>1, TurnType DEF Context
<1>4. ASSUME NEW z \in Slots, NEW y \in Slots
      PROVE  now[z][y] = IF z = p \/ z \notin Members(ctx) THEN 0
                         ELSE IF y = p THEN seen[z][y] + 1 ELSE seen[z][y]
  BY DEF AfterTurnOf
<1>5. ASSUME NEW z \in Slots, NEW y \in Slots
      PROVE  seen[z][y] \in Nat /\ seen[z][y] <= Bound(ctx, z, y)
  BY DEF SeenType, Fair
<1>6. ~ Waits(new, p)
  BY <1>1, <1>2, <1>3 DEF Waits, Due
<1>7. CASE Turn(ctx) = ctx.round
  \* the round goes on: only the picked member stops waiting
  <2>1. ASSUME NEW s \in Slots PROVE Waits(new, s) <=> (Waits(ctx, s) /\ s # p)
    BY <1>1, <1>2, <1>3, <1>7 DEF Waits, Due
  <2>2. Waits(ctx, p)
    BY <1>1, <1>7 DEF Waits, Due
  <2>3. ASSUME NEW z \in Slots, NEW y \in Slots
        PROVE  now[z][y] <= Bound(new, z, y)
    BY <1>4, <1>5, <2>1, <2>2, <2>3 DEF Bound
  <2> QED BY <1>1, <1>4, <2>3 DEF Fair
<1>8. CASE Turn(ctx) # ctx.round
  \* a new round: nobody waited before, everybody but the picked one does now
  <2>1. Turn(ctx) = ctx.round + 1 /\ Due(ctx, ctx.round) = {}
    BY <1>8 DEF Turn
  <2>2. ASSUME NEW s \in Slots PROVE ~ Waits(ctx, s)
    BY <2>1 DEF Waits
  <2>3. ASSUME NEW s \in Members(ctx), s # p PROVE Waits(new, s)
    <3>1. s \in Slots /\ (ctx.rr[s] = ctx.round \/ ctx.rr[s] + 1 = ctx.round)
      BY <2>3 DEF ContextOK, Members
    <3>2. new.rr[s] < new.round
      BY <1>2, <1>3, <2>1, <2>3, <3>1
    <3> QED BY <1>1, <3>2 DEF Waits, Due
  <2>4. ASSUME NEW z \in Slots, NEW y \in Slots
        PROVE  now[z][y] <= Bound(new, z, y)
    <3>1. seen[z][y] <= 1 /\ seen[z][y] \in Nat
      BY <1>5, <2>2 DEF Bound
    <3>2. CASE z = p \/ z \notin Members(ctx)
      BY <1>4, <3>2 DEF Bound
    <3>3. CASE z # p /\ z \in Members(ctx) /\ y = p
      <4>1. Bound(new, z, y) = 2
        BY <1>6, <2>3, <3>3 DEF Bound
      <4> QED BY <1>4, <3>1, <3>3, <4>1
    <3>4. CASE z # p /\ z \in Members(ctx) /\ y # p
      <4>1. Bound(new, z, y) >= 1 /\ Bound(new, z, y) \in Int
        BY <2>3, <3>4 DEF Bound
      <4> QED BY <1>4, <3>1, <3>4, <4>1
    <3> QED BY <3>2, <3>3, <3>4
  <2> QED BY <1>1, <1>4, <2>4 DEF Fair
<1> QED BY <1>7, <1>8

\* The account of turns stays a table of numbers.
LEMMA AfterTurnType ==
  ASSUME NEW ctx, NEW s, NEW seen \in SeenType
  PROVE  AfterTurnOf(s, ctx, seen) \in SeenType
BY DEF AfterTurnOf, SeenType

-----------------------------------------------------------------------------
(***************************************************************************)
(* Types and turns.                                                         *)
(***************************************************************************)
TableOK ==
  /\ table \in Table
  /\ \A n \in Names : ContextOK(table.direct[n])
  /\ \A n \in Names \ table.keys : table.direct[n] = NewContext

IdentOK ==
  /\ ident \in [Conns -> Peers \cup {NoPeer}]
  /\ remote \in [Conns -> Peers \cup {NoPeer}]
  /\ \A c \in Named : c \in Live /\ ident[c] = Registration(remote[c])

HistoryOK ==
  /\ said \in [Conns -> SUBSET Names]
  /\ overtaken \in [Names -> SeenType]
  /\ \A n \in Names : Fair(table.direct[n], overtaken[n])

Inv == TableOK /\ IdentOK /\ HistoryOK

\* The name and uuid a connection is registered under are those of a process.
LEMMA RegistrationType ==
  ASSUME NEW p \in Peers
  PROVE  Registration(p) \in Peers /\ Registration(p) # NoPeer /\ p # NoPeer
BY SelfAssumption, UuidNameAssumption DEF Registration, Peers, NoPeer, Slots, NoUuid

\* Learning and forgetting indirect routes gives a map to connections again.
LEMMA NodesAddType ==
  ASSUME NEW nodes \in [Names -> Conns \cup {NoConn}], NEW c \in Conns, NEW list
  PROVE  /\ NodesAdd(nodes, c, list) \in [Names -> Conns \cup {NoConn}]
         /\ NodesRemoveAll(nodes, c) \in [Names -> Conns \cup {NoConn}]
BY DEF NodesAdd, NodesRemoveAll

\* The invariant holds for a node without connections.
LEMMA InitInv == Init => Inv
<1> SUFFICES ASSUME Init PROVE Inv
  OBVIOUS
<1>1. TableOK
  BY NewContextOK DEF Init, TableOK, NewTable, Table, ContextOK
<1>2. IdentOK
  BY DEF Init, IdentOK, Named
<1>3. \A n \in Names : overtaken[n] = [z \in Slots |-> NothingSeen]
                       /\ table.direct[n] = NewContext
  BY DEF Init, NewTable, NothingSeen
<1>4. HistoryOK
  <2>1. overtaken \in [Names -> SeenType]
    BY DEF Init, SeenType
  <2>2. said \in [Conns -> SUBSET Names]
    BY DEF Init
  <2> QED BY <1>3, <2>1, <2>2, FairNew DEF HistoryOK
<1> QED BY <1>1, <1>2, <1>4 DEF Inv

\* A table operation that touches one pool keeps what holds of all pools.
LEMMA OnePool ==
  ASSUME TableOK, NEW n \in Names, NEW ctx, ContextOK(ctx), NEW keys \in SUBSET Names,
         NEW nodes \in [Names -> Conns \cup {NoConn}],
         table' = [keys |-> keys, direct |-> [table.direct EXCEPT ![n] = ctx],
                   nodes |-> nodes],
         keys \cup {n} = table.keys \cup {n},
         n \notin keys => ctx = NewContext
  PROVE  /\ TableOK'
         /\ table'.keys = keys /\ table'.nodes = nodes
         /\ table'.direct[n] = ctx
         /\ \A m \in Names \ {n} : table'.direct[m] = table.direct[m]
<1>1. ctx \in Context /\ table.direct \in [Names -> Context]
  BY DEF ContextOK, TableOK, Table
<1>2. table' \in Table
  BY <1>1 DEF Table
<1>3. /\ table'.keys = keys /\ table'.nodes = nodes
      /\ table'.direct[n] = ctx
      /\ \A m \in Names \ {n} : table'.direct[m] = table.direct[m]
  BY <1>1
<1> QED BY <1>2, <1>3 DEF TableOK

\* Every action keeps the invariant of types and turns.
LEMMA NextInv == Inv /\ [Next]_vars => Inv'
<1> SUFFICES ASSUME Inv, [Next]_vars PROVE Inv'
  OBVIOUS
<1> USE DEF Inv
<1>1. ASSUME NEW c \in Conns, NEW p \in RemoteEnds, ConnReg(c, p) PROVE Inv'
  <2>1. p \in Peers /\ p # NoPeer
    BY RemoteEndsAssumption, RegistrationType
  <2>2. TableOK' /\ HistoryOK'
    BY <1>1 DEF ConnReg, TableOK, HistoryOK
  <2>3. IdentOK'
    BY <1>1, <2>1 DEF ConnReg, IdentOK, Named, Live
  <2> QED BY <2>2, <2>3
<1>2. ASSUME NEW c \in Conns, NEW list \in Lists, OnRouteResponse(c, list) PROVE Inv'
  <2> DEFINE p == Registration(remote[c])
             ctx == ContextAdd(table.direct[p.name], p.uuid, c)
  <2>1. p \in Peers /\ p # NoPeer /\ p.name \in Names /\ p.uuid \in Slots
    BY <1>2, RegistrationType DEF OnRouteResponse, Live, IdentOK, Peers
  <2>2. list \in SUBSET Names
    BY ListsAssumption
  <2>3. table' = [keys |-> table.keys \cup {p.name},
                  direct |-> [table.direct EXCEPT ![p.name] = ctx],
                  nodes |-> NodesAdd(table.nodes, c, list)]
    BY <1>2, <2>1 DEF OnRouteResponse, ItemsAdd, TableOK, Table
  <2>4. ContextOK(ctx)
    BY <2>1, ContextAddOK DEF TableOK
  <2>5. NodesAdd(table.nodes, c, list) \in [Names -> Conns \cup {NoConn}]
    BY NodesAddType DEF TableOK, Table
  <2>6. /\ TableOK' /\ table'.direct[p.name] = ctx
        /\ \A m \in Names \ {p.name} : table'.direct[m] = table.direct[m]
    BY <2>1, <2>3, <2>4, <2>5, OnePool DEF TableOK, Table
  <2>7. IdentOK'
    BY <1>2, <2>1 DEF OnRouteResponse, IdentOK, Named, Live
  <2>8. Fair(ctx, overtaken[p.name])
    BY <2>1, FairAdd DEF TableOK, HistoryOK
  <2>9. HistoryOK'
    BY <1>2, <2>2, <2>6, <2>8 DEF OnRouteResponse, HistoryOK
  <2> QED BY <2>6, <2>7, <2>9
<1>3. ASSUME NEW c \in Conns, NEW list \in Lists, OnRouteUpdate(c, list) PROVE Inv'
  <2>1. list \in SUBSET Names
    BY ListsAssumption
  <2>2. NodesAdd(NodesRemoveAll(table.nodes, c), c, list)
          \in [Names -> Conns \cup {NoConn}]
    BY NodesAddType DEF TableOK, Table
  <2>3. TableOK' /\ table'.direct = table.direct
    BY <1>3, <2>2 DEF OnRouteUpdate, ItemsUpdate, TableOK, Table
  <2>4. IdentOK' /\ HistoryOK'
    BY <1>3, <2>1, <2>3 DEF OnRouteUpdate, IdentOK, HistoryOK, Named, Live
  <2> QED BY <2>3, <2>4
<1>4. ASSUME NEW n \in Names, ModuleFind(n) PROVE Inv'
  <2> DEFINE ctx == RoundRobin(table.direct[n])
  <2>1. IdentOK' /\ said' = said
    BY <1>4 DEF ModuleFind, IdentOK, Named, Live
  <2>2. CASE n \notin table.keys
    <3>1. table' = table
      BY <1>4, <2>2 DEF ModuleFind, ItemsAfterGet, TableOK, Table
    <3>2. overtaken' = overtaken
      BY <1>4, <2>2 DEF ModuleFind, HasPick
    <3> QED BY <2>1, <3>1, <3>2 DEF TableOK, HistoryOK
  <2>3. CASE n \in table.keys
    <3>1. table' = [keys |-> table.keys,
                    direct |-> [table.direct EXCEPT ![n] = ctx],
                    nodes |-> table.nodes]
      BY <1>4, <2>3 DEF ModuleFind, ItemsAfterGet, TableOK, Table
    <3>2. ContextOK(table.direct[n]) /\ ContextOK(ctx)
      BY RoundRobinOK DEF TableOK
    <3>3. /\ TableOK' /\ table'.direct[n] = ctx
          /\ \A m \in Names \ {n} : table'.direct[m] = table.direct[m]
      BY <2>3, <3>1, <3>2, OnePool DEF TableOK, Table
    <3>4. overtaken[n] \in SeenType /\ Fair(table.direct[n], overtaken[n])
      BY DEF HistoryOK
    <3>5. CASE HasTurn(table.direct[n])
      <4> DEFINE seen == AfterTurnOf(Picked(table.direct[n]), table.direct[n], overtaken[n])
      <4>1. overtaken' = [overtaken EXCEPT ![n] = seen]
        BY <1>4, <2>3, <3>5 DEF ModuleFind, HasPick
      <4>2. Fair(ctx, seen) /\ seen \in SeenType
        BY <3>2, <3>4, <3>5, FairTurn, AfterTurnType
      <4> HIDE DEF seen, ctx
      <4>3. HistoryOK'
        BY <2>1, <3>3, <4>1, <4>2 DEF HistoryOK
      <4> QED BY <2>1, <3>3, <4>3
    <3>6. CASE ~ HasTurn(table.direct[n])
      <4>1. overtaken' = overtaken
        BY <1>4, <3>6 DEF ModuleFind, HasPick
      <4>2. Members(table.direct[n]) = {} /\ Members(ctx) = {}
        BY <3>2, <3>6, RoundRobinOK
      <4>3. Fair(ctx, overtaken[n])
        <5>1. \A z, y \in Slots : overtaken[n][z][y] = 0
          BY <3>4, <4>2 DEF Fair
        <5> QED BY <5>1 DEF Fair, Bound
      <4> HIDE DEF ctx
      <4>4. HistoryOK'
        BY <2>1, <3>3, <4>1, <4>3 DEF HistoryOK
      <4> QED BY <2>1, <3>3, <4>4
    <3> QED BY <3>5, <3>6
  <2> QED BY <2>2, <2>3
<1>5. ASSUME NEW c \in Conns, ConnRm(c) PROVE Inv'
  <2>1. IdentOK' /\ said' \in [Conns -> SUBSET Names]
    BY <1>5 DEF ConnRm, IdentOK, HistoryOK, Named, Live
  <2>2. CASE c \notin Named
    BY <1>5, <2>1, <2>2 DEF ConnRm, TableOK, HistoryOK
  <2>3. CASE c \in Named
    <3> DEFINE p == ident[c]
               old == table.direct[p.name]
               rest == ContextRm(old, p.uuid)
               ctx == IF ContextIsEmpty(rest) THEN NewContext ELSE rest
               seen == [overtaken[p.name] EXCEPT ![p.uuid] = NothingSeen]
    <3>1. p \in Peers /\ p.name \in Names /\ p.uuid \in Slots
      BY <2>3 DEF IdentOK, Named, Peers
    <3>2. overtaken' = [overtaken EXCEPT ![p.name] = seen]
      BY <1>5, <2>3, <3>1 DEF ConnRm, NothingSeen, HistoryOK
    <3>3. ContextOK(old) /\ overtaken[p.name] \in SeenType /\ Fair(old, overtaken[p.name])
      BY <3>1 DEF TableOK, HistoryOK
    <3>4. seen \in SeenType
      BY <3>1, <3>3 DEF SeenType, NothingSeen
    <3>5. ContextOK(rest) /\ Fair(rest, seen)
          /\ (ContextIsEmpty(rest) => Members(rest) = {})
      BY <3>1, <3>3, ContextRmOK, FairRm
    <3>6. ContextOK(ctx) /\ Fair(ctx, seen)
      <4>1. CASE ContextIsEmpty(rest)
        <5>1. \A z, y \in Slots : seen[z][y] = 0
          BY <3>5, <4>1 DEF Fair
        <5>2. Fair(NewContext, seen)
          BY <5>1 DEF Fair, Bound
        <5> QED BY <4>1, <5>2, NewContextOK
      <4>2. CASE ~ ContextIsEmpty(rest)
        BY <3>5, <4>2
      <4> QED BY <4>1, <4>2
    <3>7. CASE p.name \notin table.keys
      <4>1. table' = table
        BY <1>5, <2>3, <3>7 DEF ConnRm, ItemsRm
      <4>2. old = NewContext
        BY <3>1, <3>7 DEF TableOK
      <4>3. Fair(old, seen)
        <5>1. Members(old) = {} /\ \A z, y \in Slots : overtaken[p.name][z][y] = 0
          BY <3>3, <4>2, NewContextOK DEF Fair
        <5>2. \A z, y \in Slots : seen[z][y] = 0
          BY <3>1, <3>3, <5>1 DEF SeenType, NothingSeen
        <5> QED BY <5>1, <5>2 DEF Fair, Bound
      <4> HIDE DEF seen
      <4>4. HistoryOK'
        BY <2>1, <3>1, <3>2, <3>4, <4>1, <4>3 DEF HistoryOK
      <4>5. TableOK'
        BY <4>1 DEF TableOK
      <4> QED BY <2>1, <4>4, <4>5
    <3>8. CASE p.name \in table.keys
      <4> DEFINE keys == IF ContextIsEmpty(rest) THEN table.keys \ {p.name} ELSE table.keys
                 nodes == IF old.conn[p.uuid] = NoConn THEN table.nodes
                          ELSE NodesRemoveAll(table.nodes, old.conn[p.uuid])
      <4>1. table' = [keys |-> keys,
                      direct |-> [table.direct EXCEPT ![p.name] = ctx],
                      nodes |-> nodes]
        BY <1>5, <2>3, <3>8 DEF ConnRm, ItemsRm
      <4>2. nodes \in [Names -> Conns \cup {NoConn}]
        BY <3>1, <3>3, NodesAddType DEF TableOK, Table, ContextOK, Context
      <4>3. keys \in SUBSET Names /\ keys \cup {p.name} = table.keys \cup {p.name}
            /\ (p.name \notin keys => ctx = NewContext)
        BY <3>8 DEF TableOK, Table
      <4> HIDE DEF keys, nodes, ctx, seen
      <4>4. /\ TableOK' /\ table'.direct[p.name] = ctx
            /\ \A m \in Names \ {p.name} : table'.direct[m] = table.direct[m]
        BY <3>1, <3>6, <4>1, <4>2, <4>3, OnePool
      <4>5. HistoryOK'
        BY <2>1, <3>1, <3>2, <3>4, <3>6, <4>4 DEF HistoryOK
      <4> QED BY <2>1, <4>4, <4>5
    <3> QED BY <3>7, <3>8
  <2> QED BY <2>2, <2>3
<1>6. CASE UNCHANGED vars
  BY <1>6 DEF vars, TableOK, IdentOK, HistoryOK, Named, Live
<1> QED BY <1>1, <1>2, <1>3, <1>4, <1>5, <1>6 DEF Next

\* Types, turn marks and the account of turns are right in every reachable state.
THEOREM InvAlways == Spec => []Inv
BY InitInv, NextInv, PTL DEF Spec

\* The state has its types: in particular the count of a pool never goes
\* below zero when the connections of any processes come and go.
THEOREM TypeCorrect == Spec => []TypeOK
<1>1. Inv => TypeOK
  BY DEF Inv, TableOK, IdentOK, HistoryOK, TypeOK, SeenType
<1> QED BY <1>1, InvAlways, PTL

\* However members join and leave a pool, none is overtaken three times by
\* the same other member before its turn.
THEOREM Fairness == Spec => []RoundRobinIsFair
<1>1. Inv => RoundRobinIsFair
  <2> SUFFICES ASSUME Inv, NEW n \in Names, NEW z \in Slots, NEW y \in Slots
               PROVE  overtaken[n][z][y] <= 2
    BY DEF RoundRobinIsFair
  <2>1. overtaken[n][z][y] \in Nat
    BY DEF Inv, HistoryOK, SeenType
  <2>2. overtaken[n][z][y] <= Bound(table.direct[n], z, y)
    BY DEF Inv, HistoryOK, Fair
  <2> QED BY <2>1, <2>2 DEF Bound
<1> QED BY <1>1, InvAlways, PTL

-----------------------------------------------------------------------------
(***************************************************************************)
(* The table against the connections, when a process has one link at a time. *)
(***************************************************************************)
OneLink == \A c, d \in Live : Registration(remote[c]) = Registration(remote[d]) => c = d
CountsOK == \A n \in Names : CountOK(table.direct[n])
KeysUsed == \A n \in table.keys : Members(table.direct[n]) # {}

Safe == OneLink /\ CountsOK /\ KeysUsed /\ RemovalFindsTheConnection /\ RoutesWereAnnounced

\* The slot of a process is free when it registers.
LEMMA SlotIsFree ==
  ASSUME Inv, Safe, NEW c \in Live \ Named,
         NEW p \in Peers, p = Registration(remote[c])
  PROVE  table.direct[p.name].conn[p.uuid] = NoConn
<1>1. p.name \in Names /\ p.uuid \in Slots /\ p = [name |-> p.name, uuid |-> p.uuid]
  BY DEF Peers
<1> SUFFICES ASSUME table.direct[p.name].conn[p.uuid] # NoConn PROVE FALSE
  OBVIOUS
<1> DEFINE d == table.direct[p.name].conn[p.uuid]
<1>2. d \in Conns
  BY <1>1 DEF Inv, TableOK, Table, Context
<1>3. p.name \in table.keys
  BY <1>1 DEF Inv, TableOK, NewContext
<1>4. d \in Named /\ ident[d] = p
  BY <1>1, <1>2, <1>3 DEF Safe, RemovalFindsTheConnection
<1>5. d \in Live /\ Registration(remote[d]) = p
  BY <1>4 DEF Inv, IdentOK
<1> QED BY <1>4, <1>5 DEF Safe, OneLink

\* A node without connections has an empty table.
LEMMA InitSafe == Init => Safe
<1> SUFFICES ASSUME Init PROVE Safe
  OBVIOUS
<1>1. OneLink /\ RemovalFindsTheConnection
  BY DEF Init, OneLink, Live, Named, RemovalFindsTheConnection, NewTable
<1>2. CountsOK /\ KeysUsed
  BY NewContextOK DEF Init, NewTable, CountsOK, KeysUsed
<1>3. RoutesWereAnnounced
  BY DEF Init, NewTable, RoutesWereAnnounced
<1> QED BY <1>1, <1>2, <1>3 DEF Safe

\* Every action keeps the table in agreement with the connections, when no
\* process has a second link.
LEMMA NextSafe == SecondLinks = FALSE /\ Inv /\ Inv' /\ Safe /\ [Next]_vars => Safe'
<1> SUFFICES ASSUME SecondLinks = FALSE, Inv, Inv', Safe, [Next]_vars PROVE Safe'
  OBVIOUS
<1>1. ASSUME NEW c \in Conns, NEW p \in RemoteEnds, ConnReg(c, p) PROVE Safe'
  <2>1. p \in Peers /\ p # NoPeer
    BY RemoteEndsAssumption, RegistrationType
  <2>2. \A d \in Live : Registration(remote[d]) # Registration(p)
    BY <1>1 DEF ConnReg
  <2>3. OneLink'
    BY <1>1, <2>1, <2>2 DEF ConnReg, Safe, OneLink, Live, Inv, IdentOK
  <2> QED BY <1>1, <2>3 DEF ConnReg, Safe, CountsOK, KeysUsed,
                            RemovalFindsTheConnection, RoutesWereAnnounced, Named
<1>2. ASSUME NEW c \in Conns, NEW list \in Lists, OnRouteResponse(c, list) PROVE Safe'
  <2> DEFINE p == Registration(remote[c])
             ctx == ContextAdd(table.direct[p.name], p.uuid, c)
  <2>1. p \in Peers /\ p # NoPeer /\ p.name \in Names /\ p.uuid \in Slots
        /\ p = [name |-> p.name, uuid |-> p.uuid]
    BY <1>2, RegistrationType DEF OnRouteResponse, Live, Inv, IdentOK, Peers
  <2>2. table.direct[p.name].conn[p.uuid] = NoConn
    BY <1>2, <2>1, SlotIsFree DEF OnRouteResponse
  <2>3. ContextOK(table.direct[p.name]) /\ table.direct[p.name] \in Context
    BY <2>1 DEF Inv, TableOK, ContextOK
  <2>4. /\ table'.keys = table.keys \cup {p.name}
        /\ table'.direct = [table.direct EXCEPT ![p.name] = ctx]
        /\ table'.nodes = NodesAdd(table.nodes, c, list)
    BY <1>2, <2>1 DEF OnRouteResponse, ItemsAdd, Inv, TableOK, Table
  <2>5. /\ table'.direct[p.name] = ctx
        /\ \A m \in Names \ {p.name} : table'.direct[m] = table.direct[m]
    BY <2>1, <2>4 DEF Inv, TableOK, Table
  <2>6. CountOK(ctx) /\ Members(ctx) = Members(table.direct[p.name]) \cup {p.uuid}
    BY <2>1, <2>2, <2>3, ContextAddOK, ContextAddMembers DEF Safe, CountsOK
  <2>7. ctx.conn = [table.direct[p.name].conn EXCEPT ![p.uuid] = c]
    BY <2>2 DEF ContextAdd
  <2>8. \A s \in Slots : ctx.conn[s] =
                           IF s = p.uuid THEN c ELSE table.direct[p.name].conn[s]
    BY <2>1, <2>3, <2>7 DEF Context
  <2> HIDE DEF ctx
  <2>9. CountsOK' /\ KeysUsed'
    BY <2>1, <2>4, <2>5, <2>6 DEF Safe, CountsOK, KeysUsed, Inv, TableOK, Table
  <2>10. OneLink'
    BY <1>2 DEF OnRouteResponse, Safe, OneLink, Live
  <2>11. /\ Named' = Named \cup {c} /\ c \notin Named
         /\ \A d \in Conns : ident'[d] = IF d = c THEN p ELSE ident[d]
    BY <1>2, <2>1 DEF OnRouteResponse, Named, Inv, IdentOK
  <2>12. RemovalFindsTheConnection'
    <3> SUFFICES ASSUME NEW n \in Names, NEW s \in Slots, NEW d \in Conns
                 PROVE  (n \in table'.keys /\ table'.direct[n].conn[s] = d)
                          <=> (d \in Named' /\ ident'[d] = [name |-> n, uuid |-> s])
      BY DEF RemovalFindsTheConnection
    <3>1. (n \in table.keys /\ table.direct[n].conn[s] = d)
            <=> (d \in Named /\ ident[d] = [name |-> n, uuid |-> s])
      BY DEF Safe, RemovalFindsTheConnection
    <3>2. CASE n = p.name /\ s = p.uuid
      <4>1. n \in table'.keys /\ table'.direct[n].conn[s] = c
        BY <2>4, <2>5, <2>8, <3>2
      <4>2. ~ (d \in Named /\ ident[d] = [name |-> n, uuid |-> s])
        BY <2>2, <3>1, <3>2, NoConnAssumption
      <4>3. (d \in Named' /\ ident'[d] = [name |-> n, uuid |-> s]) <=> d = c
        BY <2>1, <2>11, <3>2, <4>2
      <4> QED BY <4>1, <4>3
    <3>3. CASE n = p.name /\ s # p.uuid
      <4>1. table'.direct[n].conn[s] = table.direct[n].conn[s] /\ n \in table'.keys
        BY <2>4, <2>5, <2>8, <3>3
      <4>2. n \notin table.keys => table.direct[n].conn[s] = NoConn
        BY DEF Inv, TableOK, NewContext
      <4>3. d = c => ~ (ident'[d] = [name |-> n, uuid |-> s])
        BY <2>1, <2>11, <3>3
      <4>4. d = c => ~ (table.direct[n].conn[s] = d)
        BY <2>11, <3>1, <4>2, NoConnAssumption
      <4> QED BY <2>11, <3>1, <4>1, <4>2, <4>3, <4>4, NoConnAssumption
    <3>4. CASE n # p.name
      <4>1. table'.direct[n] = table.direct[n] /\ (n \in table'.keys <=> n \in table.keys)
        BY <2>4, <2>5, <3>4
      <4>2. d = c => ~ (ident'[d] = [name |-> n, uuid |-> s])
        BY <2>1, <2>11, <3>4
      <4> QED BY <2>11, <3>1, <4>1, <4>2
    <3> QED BY <3>2, <3>3, <3>4
  <2>13. RoutesWereAnnounced'
    <3> SUFFICES ASSUME NEW n \in Names, table'.nodes[n] # NoConn
                 PROVE  table'.nodes[n] \in Named' /\ n \in said'[table'.nodes[n]]
      BY DEF RoutesWereAnnounced
    <3>1. table'.nodes[n] = IF n \in list /\ table.nodes[n] = NoConn THEN c
                            ELSE table.nodes[n]
      BY <2>4 DEF NodesAdd
    <3>2. \A d \in Conns : said'[d] = IF d = c THEN list ELSE said[d]
      BY <1>2 DEF OnRouteResponse, Inv, HistoryOK
    <3>3. table.nodes[n] # NoConn =>
            table.nodes[n] \in Named /\ n \in said[table.nodes[n]]
      BY DEF Safe, RoutesWereAnnounced
    <3> QED BY <2>11, <3>1, <3>2, <3>3 DEF Named
  <2> QED BY <2>9, <2>10, <2>12, <2>13 DEF Safe
<1>3. ASSUME NEW c \in Conns, NEW list \in Lists, OnRouteUpdate(c, list) PROVE Safe'
  <2>1. /\ table'.keys = table.keys /\ table'.direct = table.direct
        /\ table'.nodes = NodesAdd(NodesRemoveAll(table.nodes, c), c, list)
        /\ ident' = ident /\ remote' = remote
        /\ c \in Named
    BY <1>3 DEF OnRouteUpdate, ItemsUpdate
  <2>2. RoutesWereAnnounced'
    <3> SUFFICES ASSUME NEW n \in Names, table'.nodes[n] # NoConn
                 PROVE  table'.nodes[n] \in Named' /\ n \in said'[table'.nodes[n]]
      BY DEF RoutesWereAnnounced
    <3>1. \/ table'.nodes[n] = c /\ n \in list
          \/ table'.nodes[n] = table.nodes[n] /\ table.nodes[n] # c
      BY <2>1 DEF NodesAdd, NodesRemoveAll
    <3>2. \A d \in Conns : said'[d] = IF d = c THEN list ELSE said[d]
      BY <1>3 DEF OnRouteUpdate, Inv, HistoryOK
    <3>3. table.nodes[n] # NoConn =>
            table.nodes[n] \in Named /\ n \in said[table.nodes[n]]
      BY DEF Safe, RoutesWereAnnounced
    <3> QED BY <2>1, <3>1, <3>2, <3>3 DEF Named
  <2>3. OneLink' /\ CountsOK' /\ KeysUsed' /\ RemovalFindsTheConnection'
    BY <2>1 DEF Safe, OneLink, CountsOK, KeysUsed, RemovalFindsTheConnection, Live, Named
  <2> QED BY <2>2, <2>3 DEF Safe
<1>4. ASSUME NEW n \in Names, ModuleFind(n) PROVE Safe'
  <2>1. /\ table'.keys = table.keys /\ table'.nodes = table.nodes
        /\ ident' = ident /\ remote' = remote /\ said' = said
    BY <1>4 DEF ModuleFind, ItemsAfterGet
  <2>2. ASSUME NEW m \in Names
        PROVE  /\ table'.direct[m].conn = table.direct[m].conn
               /\ CountOK(table.direct[m]) => CountOK(table'.direct[m])
               /\ Members(table'.direct[m]) = Members(table.direct[m])
    <3>1. ContextOK(table.direct[m])
      BY DEF Inv, TableOK
    <3>2. table'.direct[m] = table.direct[m] \/ table'.direct[m] = RoundRobin(table.direct[m])
      BY <1>4 DEF ModuleFind, ItemsAfterGet, Inv, TableOK, Table
    <3>3. RoundRobin(table.direct[m]).conn = table.direct[m].conn
      BY DEF RoundRobin
    <3> QED BY <3>1, <3>2, <3>3, RoundRobinOK
  <2>3. CountsOK' /\ KeysUsed'
    BY <2>1, <2>2 DEF Safe, CountsOK, KeysUsed, Inv, TableOK, Table
  <2>4. OneLink' /\ RemovalFindsTheConnection' /\ RoutesWereAnnounced'
    BY <2>1, <2>2 DEF Safe, OneLink, RemovalFindsTheConnection, RoutesWereAnnounced,
                      Live, Named
  <2> QED BY <2>3, <2>4 DEF Safe
<1>5. ASSUME NEW c \in Conns, ConnRm(c) PROVE Safe'
  <2>1. OneLink'
    BY <1>5 DEF ConnRm, Safe, OneLink, Live, Inv, IdentOK
  <2>2. /\ Named' = Named \ {c}
        /\ \A d \in Conns \ {c} : ident'[d] = ident[d] /\ said'[d] = said[d]
    BY <1>5 DEF ConnRm, Named, Inv, IdentOK, HistoryOK
  <2>3. CASE c \notin Named
    <3>1. table' = table /\ Named' = Named
      BY <1>5, <2>2, <2>3 DEF ConnRm
    <3>2. RoutesWereAnnounced'
      BY <2>2, <2>3, <3>1 DEF Safe, RoutesWereAnnounced, Named
    <3>3. CountsOK' /\ KeysUsed'
      BY <3>1 DEF Safe, CountsOK, KeysUsed
    <3>4. RemovalFindsTheConnection'
      <4> SUFFICES ASSUME NEW n \in Names, NEW s \in Slots, NEW d \in Conns
                   PROVE  (n \in table'.keys /\ table'.direct[n].conn[s] = d)
                            <=> (d \in Named' /\ ident'[d] = [name |-> n, uuid |-> s])
        BY DEF RemovalFindsTheConnection
      <4>1. (n \in table.keys /\ table.direct[n].conn[s] = d)
              <=> (d \in Named /\ ident[d] = [name |-> n, uuid |-> s])
        BY DEF Safe, RemovalFindsTheConnection
      <4>2. d \in Named => ident'[d] = ident[d]
        BY <2>2, <2>3
      <4> QED BY <3>1, <4>1, <4>2
    <3> QED BY <2>1, <3>2, <3>3, <3>4 DEF Safe
  <2>4. CASE c \in Named
    <3> DEFINE p == ident[c]
               old == table.direct[p.name]
               rest == ContextRm(old, p.uuid)
               ctx == IF ContextIsEmpty(rest) THEN NewContext ELSE rest
    <3>1. p \in Peers /\ p.name \in Names /\ p.uuid \in Slots
          /\ p = [name |-> p.name, uuid |-> p.uuid]
      BY <2>4 DEF Inv, IdentOK, Named, Peers
    <3>2. p.name \in table.keys /\ old.conn[p.uuid] = c
      BY <2>4, <3>1 DEF Safe, RemovalFindsTheConnection
    <3>3. /\ table'.keys = IF ContextIsEmpty(rest) THEN table.keys \ {p.name} ELSE table.keys
          /\ table'.direct = [table.direct EXCEPT ![p.name] = ctx]
          /\ table'.nodes = NodesRemoveAll(table.nodes, c)
      BY <1>5, <2>4, <3>2, NoConnAssumption DEF ConnRm, ItemsRm
    <3>4. /\ table'.direct[p.name] = ctx
          /\ \A m \in Names \ {p.name} : table'.direct[m] = table.direct[m]
      BY <3>1, <3>3 DEF Inv, TableOK, Table
    <3>5. ContextOK(old) /\ old \in Context /\ CountOK(old)
      BY <3>1 DEF Inv, TableOK, ContextOK, Safe, CountsOK
    <3>6. /\ ContextOK(rest) /\ CountOK(rest)
          /\ Members(rest) = Members(old) \ {p.uuid}
          /\ ContextIsEmpty(rest) => Members(rest) = {}
      BY <3>1, <3>5, ContextRmOK
    <3>7. ~ ContextIsEmpty(rest) => Members(rest) # {}
      <4>1. rest \in Context
        BY <3>6 DEF ContextOK
      <4>2. rest.size # 0 => Pooled(rest) # {}
        BY <3>6, <4>1, PooledIsFinite DEF CountOK
      <4>3. rest.conn[NoUuid] # NoConn => NoUuid \in Members(rest)
        BY SlotsAreNumbers DEF Members
      <4> QED BY <4>2, <4>3 DEF ContextIsEmpty, Pooled
    <3>8. \A s \in Slots : rest.conn[s] = IF s = p.uuid THEN NoConn ELSE old.conn[s]
      BY <3>1, <3>5 DEF ContextRm, Context
    <3>9. \A s \in Slots : ctx.conn[s] = IF s = p.uuid THEN NoConn ELSE old.conn[s]
      <4>1. CASE ~ ContextIsEmpty(rest)
        BY <3>8, <4>1
      <4>2. CASE ContextIsEmpty(rest)
        <5>1. \A s \in Slots : rest.conn[s] = NoConn
          BY <3>6, <4>2 DEF Members
        <5>2. \A s \in Slots : NewContext.conn[s] = NoConn
          BY DEF NewContext
        <5> QED BY <3>8, <4>2, <5>1, <5>2
      <4> QED BY <4>1, <4>2
    <3>10. CountOK(ctx) /\ (p.name \in table'.keys => Members(ctx) # {})
      BY <3>3, <3>6, <3>7, NewContextOK
    <3>11. p.name \notin table'.keys => \A s \in Slots : ctx.conn[s] = NoConn
      BY <3>2, <3>3 DEF NewContext
    <3> HIDE DEF ctx, rest
    <3>12. CountsOK' /\ KeysUsed'
      BY <3>1, <3>3, <3>4, <3>10 DEF Safe, CountsOK, KeysUsed, Inv, TableOK, Table
    <3>13. RemovalFindsTheConnection'
      <4> SUFFICES ASSUME NEW n \in Names, NEW s \in Slots, NEW d \in Conns
                   PROVE  (n \in table'.keys /\ table'.direct[n].conn[s] = d)
                            <=> (d \in Named' /\ ident'[d] = [name |-> n, uuid |-> s])
        BY DEF RemovalFindsTheConnection
      <4>1. (n \in table.keys /\ table.direct[n].conn[s] = d)
              <=> (d \in Named /\ ident[d] = [name |-> n, uuid |-> s])
        BY DEF Safe, RemovalFindsTheConnection
      <4>2. (n \in table.keys /\ table.direct[n].conn[s] = c)
              <=> (p = [name |-> n, uuid |-> s])
        BY <2>4 DEF Safe, RemovalFindsTheConnection
      <4>3. CASE n = p.name /\ s = p.uuid
        <5>1. table'.direct[n].conn[s] = NoConn
          BY <3>4, <3>9, <4>3
        <5>2. d # c => ~ (d \in Named /\ ident[d] = [name |-> n, uuid |-> s])
          BY <3>1, <4>1, <4>2, <4>3
        <5> QED BY <2>2, <5>1, <5>2, NoConnAssumption
      <4>4. CASE n = p.name /\ s # p.uuid
        <5>1. table'.direct[n].conn[s] = table.direct[n].conn[s] /\ n \in table.keys
          BY <3>2, <3>4, <3>9, <4>4
        <5>2. table.direct[n].conn[s] # c
          BY <3>1, <4>2, <4>4, <5>1
        <5>3. n \notin table'.keys => table.direct[n].conn[s] = NoConn
          BY <3>9, <3>11, <4>4
        <5> QED BY <2>2, <4>1, <5>1, <5>2, <5>3, NoConnAssumption
      <4>5. CASE n # p.name
        <5>1. table'.direct[n] = table.direct[n] /\ (n \in table'.keys <=> n \in table.keys)
          BY <3>3, <3>4, <4>5
        <5>2. ~ (n \in table.keys /\ table.direct[n].conn[s] = c)
          BY <3>1, <4>2, <4>5
        <5> QED BY <2>2, <4>1, <5>1, <5>2
      <4> QED BY <4>3, <4>4, <4>5
    <3>14. RoutesWereAnnounced'
      BY <2>2, <3>3 DEF Safe, RoutesWereAnnounced, NodesRemoveAll, Named
    <3> QED BY <2>1, <3>12, <3>13, <3>14 DEF Safe
  <2> QED BY <2>3, <2>4
<1>6. CASE UNCHANGED vars
  BY <1>6 DEF vars, Safe, OneLink, CountsOK, KeysUsed, RemovalFindsTheConnection,
              RoutesWereAnnounced, Live, Named
<1> QED BY <1>1, <1>2, <1>3, <1>4, <1>5, <1>6 DEF Next

\* The table agrees with the connections in every reachable state.
THEOREM SafeAlways == SecondLinks = FALSE => (Spec => []Safe)
<1> SUFFICES ASSUME SecondLinks = FALSE PROVE Spec => []Safe
  OBVIOUS
<1>1. Inv /\ Inv' /\ Safe /\ [Next]_vars => Safe'
  BY NextSafe
<1> QED BY <1>1, InvAlways, InitSafe, PTL DEF Spec

\* The removal of a connection finds exactly the entry that was made for it.
THEOREM RemovalFinds == SecondLinks = FALSE => (Spec => []RemovalFindsTheConnection)
<1>1. Safe => RemovalFindsTheConnection
  BY DEF Safe
<1> QED BY <1>1, SafeAlways, PTL

\* An indirect route is one that its connection announced in its last list,
\* when no process has two links at a time.
THEOREM RoutesAnnounced == SecondLinks = FALSE => (Spec => []RoutesWereAnnounced)
<1>1. Safe => RoutesWereAnnounced
  BY DEF Safe
<1> QED BY <1>1, SafeAlways, PTL

\* No pool member and no indirect route ever refers to a freed connection,
\* when no process has two links at a time.
THEOREM NoDanglingReference == SecondLinks = FALSE => (Spec => []NoDangling)
<1>1. Inv /\ Safe => NoDangling
  <2> SUFFICES ASSUME Inv, Safe PROVE NoDangling
    OBVIOUS
  <2>1. Named \subseteq Live
    BY DEF Inv, IdentOK
  <2>2. ASSUME NEW n \in table.keys, NEW s \in Slots, table.direct[n].conn[s] # NoConn
        PROVE  table.direct[n].conn[s] \in Live
    <3>1. n \in Names /\ table.direct[n].conn[s] \in Conns
      BY <2>2 DEF Inv, TableOK, Table, Context
    <3>2. PICK d \in Conns : d = table.direct[n].conn[s]
      BY <3>1
    <3>3. (n \in table.keys /\ table.direct[n].conn[s] = d)
            <=> (d \in Named /\ ident[d] = [name |-> n, uuid |-> s])
      BY <3>1 DEF Safe, RemovalFindsTheConnection
    <3> QED BY <2>1, <3>2, <3>3
  <2>3. DirectConns(table) \subseteq Live
    BY <2>2 DEF DirectConns
  <2>4. \A n \in Names : table.nodes[n] \in Live \cup {NoConn}
    BY <2>1 DEF Safe, RoutesWereAnnounced
  <2> QED BY <2>3, <2>4 DEF NoDangling
<1> QED BY <1>1, InvAlways, SafeAlways, PTL

\* A module stands among the announced direct ones only while it is connected.
THEOREM NoGhost == SecondLinks = FALSE => (Spec => []NoGhostModule)
<1>1. Inv /\ Safe => NoGhostModule
  <2> SUFFICES ASSUME Inv, Safe, NEW n \in table.keys
               PROVE  \E c \in Named : ident[c].name = n
    BY DEF NoGhostModule
  <2>1. n \in Names
    BY DEF Inv, TableOK, Table
  <2>2. PICK s \in Slots : table.direct[n].conn[s] # NoConn
    BY DEF Safe, KeysUsed, Members
  <2>3. table.direct[n].conn[s] \in Conns
    BY <2>1, <2>2 DEF Inv, TableOK, Table, Context
  <2>4. table.direct[n].conn[s] \in Named
        /\ ident[table.direct[n].conn[s]] = [name |-> n, uuid |-> s]
    BY <2>1, <2>3 DEF Safe, RemovalFindsTheConnection
  <2> QED BY <2>4
<1> QED BY <1>1, InvAlways, SafeAlways, PTL

\* A lookup of a connected module gives a connection to that module.
THEOREM LookupFinds == SecondLinks = FALSE => (Spec => []LookupReachesTheModule)
<1>1. Inv /\ Safe => LookupReachesTheModule
  <2> SUFFICES ASSUME Inv, Safe, NEW n \in Names, NEW d \in Named, ident[d].name = n
               PROVE  ItemsGet(table, n) \in Named /\ ident[ItemsGet(table, n)].name = n
    BY DEF LookupReachesTheModule
  <2> DEFINE ctx == table.direct[n]
  <2>1. d \in Conns /\ ident[d] \in Peers
    BY DEF Named, Inv, IdentOK
  <2>2. ident[d].uuid \in Slots /\ ident[d] = [name |-> n, uuid |-> ident[d].uuid]
    BY <2>1 DEF Peers
  <2>3. n \in table.keys /\ ctx.conn[ident[d].uuid] = d
    BY <2>1, <2>2 DEF Safe, RemovalFindsTheConnection
  <2>4. ContextOK(ctx) /\ ctx \in Context
    BY DEF Inv, TableOK, ContextOK
  <2>5. HasTurn(ctx) /\ Picked(ctx) \in Slots /\ ctx.conn[Picked(ctx)] # NoConn
    BY <2>1, <2>2, <2>3, <2>4, NoConnAssumption, RoundRobinOK DEF Members
  <2>6. ItemsGet(table, n) = ctx.conn[Picked(ctx)]
    BY <2>3, <2>5 DEF ItemsGet, HasPick
  <2>7. ctx.conn[Picked(ctx)] \in Conns
    BY <2>4, <2>5 DEF Context
  <2>8. ctx.conn[Picked(ctx)] \in Named
        /\ ident[ctx.conn[Picked(ctx)]] = [name |-> n, uuid |-> Picked(ctx)]
    BY <2>3, <2>5, <2>7 DEF Safe, RemovalFindsTheConnection
  <2> QED BY <2>6, <2>8
<1> QED BY <1>1, InvAlways, SafeAlways, PTL

=============================================================================
