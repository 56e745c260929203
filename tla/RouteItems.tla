----------------------------- MODULE RouteItems -----------------------------
(***************************************************************************)
(* One QBUS node and its routing table, driven by what its connections do:  *)
(* a connection is accepted or dialled, the remote end answers our          *)
(* ROUTE_REQ, sends updates, and goes away again; in between the            *)
(* application looks routes up.  The handlers are those of                  *)
(* libs/qbus/src/core/qbus_route.c; each runs its table operation under     *)
(* the mutex of the table, so each is one action.                           *)
(*                                                                         *)
(* A connection object is freed when its connection is dropped, and its     *)
(* address may be used again: Conns are addresses, `remote' says which are  *)
(* allocated and who is at the other end.                                   *)
(***************************************************************************)
EXTENDS RouteTable

CONSTANTS Self,         \* our own module name
          UuidName,     \* a uuid in the place of a module name
          RemoteEnds,   \* the processes that may connect
          Lists,        \* the module lists they may announce
          SecondLinks,  \* may a process connect before its old link is gone?
          MaxRound      \* bound: rounds of one pool

ASSUME SelfAssumption == Self \in Names /\ NoConn \notin Names
ASSUME UuidNameAssumption == UuidName \in [Uuids -> Names]
ASSUME RemoteEndsAssumption == RemoteEnds \subseteq Peers
ASSUME ListsAssumption == Lists \subseteq SUBSET Names
ASSUME SecondLinksAssumption == SecondLinks \in BOOLEAN
ASSUME MaxRoundAssumption == MaxRound \in Nat

NoPeer == [name |-> NoConn, uuid |-> NoUuid]

VARIABLES
  table,      \* QBusRouteItems
  ident,      \* module name and uuid set on the connection (NoPeer: none yet)
  remote,     \* the process at the other end (NoPeer: not allocated)
  said,       \* history: the list last taken from the connection
  overtaken   \* history: [n][z][y], turns of y in pool n since z had its turn

vars == <<table, ident, remote, said, overtaken>>

Live == {c \in Conns : remote[c] # NoPeer}
Named == {c \in Conns : ident[c] # NoPeer}

\* qbus_route_on_route_response: when the frame names our own module it is
\* taken for an answer of the old version, and the sender for the name.
Registration(p) ==
  IF p.name = Self /\ p.uuid # NoUuid
  THEN [name |-> UuidName[p.uuid], uuid |-> NoUuid]
  ELSE p

Init ==
  /\ table = NewTable
  /\ ident = [c \in Conns |-> NoPeer]
  /\ remote = [c \in Conns |-> NoPeer]
  /\ said = [c \in Conns |-> {}]
  /\ overtaken = [n \in Names |-> [z \in Slots |-> [y \in Slots |-> 0]]]

\* The engine has a new connection; qbus_route_conn_reg sends the ROUTE_REQ.
ConnReg(c, p) ==
  /\ c \notin Live
  /\ SecondLinks \/ \A d \in Live : Registration(remote[d]) # Registration(p)
  /\ remote' = [remote EXCEPT ![c] = p]
  /\ UNCHANGED <<table, ident, said, overtaken>>

\* The answer to that ROUTE_REQ: there is one for each connection.
OnRouteResponse(c, list) ==
  LET p == Registration(remote[c])
  IN /\ c \in Live \ Named
     /\ ident' = [ident EXCEPT ![c] = p]
     /\ table' = ItemsAdd(table, c, p, list)
     /\ said' = [said EXCEPT ![c] = list]
     /\ UNCHANGED <<remote, overtaken>>

\* An update on a connection that has no name yet is ignored.
OnRouteUpdate(c, list) ==
  /\ c \in Named
  /\ table' = ItemsUpdate(table, c, list)
  /\ said' = [said EXCEPT ![c] = list]
  /\ UNCHANGED <<ident, remote, overtaken>>

\* The turns of others that a member of the pool has seen, after s had its own.
AfterTurnOf(s, ctx, seen) ==
  [z \in Slots |-> [y \in Slots |->
     IF z = s \/ z \notin Members(ctx) THEN 0
     ELSE IF y = s THEN seen[z][y] + 1 ELSE seen[z][y]]]

\* qbus_route_module_find, and the lookups of requests and responses.
ModuleFind(n) ==
  /\ table.direct[n].round < MaxRound
  /\ table' = ItemsAfterGet(table, n)
  /\ overtaken' =
       IF HasPick(table, n)
       THEN [overtaken EXCEPT ![n] =
               AfterTurnOf(Picked(table.direct[n]), table.direct[n], @)]
       ELSE overtaken
  /\ UNCHANGED <<ident, remote, said>>

\* qbus_connection_del: qbus_route_conn_rm, then the object is freed.
ConnRm(c) ==
  /\ c \in Live
  /\ table' = IF c \in Named THEN ItemsRm(table, ident[c]) ELSE table
  /\ overtaken' =
       IF c \in Named
       THEN [overtaken EXCEPT ![ident[c].name][ident[c].uuid] = [y \in Slots |-> 0]]
       ELSE overtaken
  /\ ident' = [ident EXCEPT ![c] = NoPeer]
  /\ remote' = [remote EXCEPT ![c] = NoPeer]
  /\ said' = [said EXCEPT ![c] = {}]

Next ==
  \/ \E c \in Conns, p \in RemoteEnds : ConnReg(c, p)
  \/ \E c \in Conns, list \in Lists : OnRouteResponse(c, list)
  \/ \E c \in Conns, list \in Lists : OnRouteUpdate(c, list)
  \/ \E n \in Names : ModuleFind(n)
  \/ \E c \in Conns : ConnRm(c)

Spec == Init /\ [][Next]_vars

-----------------------------------------------------------------------------
\* The table, the identities and the histories have their types, and the turn
\* marks stay in the table the code builds.
TypeOK ==
  /\ table \in Table
  /\ ident \in [Conns -> Peers \cup {NoPeer}]
  /\ remote \in [Conns -> Peers \cup {NoPeer}]
  /\ said \in [Conns -> SUBSET Names]
  /\ overtaken \in [Names -> [Slots -> [Slots -> Nat]]]

\* The table never holds a connection that was freed: qbus_route_items_rm
\* takes out every reference (pool member and indirect routes) to the
\* connection qbus_connection_del is about to free.
NoDangling ==
  /\ DirectConns(table) \subseteq Live
  /\ \A n \in Names : table.nodes[n] \in Live \cup {NoConn}

\* A registered connection stands in the pool under exactly the name and uuid
\* that its removal will look up, and nowhere else.
RemovalFindsTheConnection ==
  \A n \in Names, s \in Slots, c \in Conns :
    (n \in table.keys /\ table.direct[n].conn[s] = c)
      <=> (c \in Named /\ ident[c] = [name |-> n, uuid |-> s])

\* A module is announced to the others as a direct one only while a process
\* of that name is connected: the counter of the pool map, which decides when
\* the entry goes, agrees with the members.
NoGhostModule ==
  \A n \in table.keys : \E c \in Named : ident[c].name = n

\* An indirect route goes through a registered connection whose last list
\* named the module: an update replaces all that an earlier one said.
RoutesWereAnnounced ==
  \A n \in Names : table.nodes[n] # NoConn =>
    table.nodes[n] \in Named /\ n \in said[table.nodes[n]]

\* While a process of the name is connected, a lookup gives the connection of
\* such a process, whatever indirect routes or pool changes there were.
LookupReachesTheModule ==
  \A n \in Names : (\E c \in Named : ident[c].name = n) =>
    LET c == ItemsGet(table, n) IN c \in Named /\ ident[c].name = n

\* The turns are fair although members join and leave between them: no member
\* sees another one served three times before its own turn.
RoundRobinIsFair ==
  \A n \in Names : \A z, y \in Slots : overtaken[n][z][y] <= 2

=============================================================================
