----------------------------- MODULE RouteTable -----------------------------
(***************************************************************************)
(* The routing table of one QBUS node, QBusRouteItems                      *)
(* (libs/qbus/src/core/qbus_route_items.c), as pure operators: every        *)
(* function of the file that runs under the mutex of the table is an       *)
(* operator from tables to tables.                                         *)
(*                                                                         *)
(* A table has two maps.  routes_direct maps a module name to the POOL of  *)
(* the connections whose remote end announced itself under that name; the  *)
(* members of a pool are told apart by the uuid of the remote process and  *)
(* are served in turn.  routes_node maps a module name to the one          *)
(* connection through which the module is said to be reachable.            *)
(*                                                                         *)
(* A uuid is a positive number: the pool is a CapeMap, walked in key       *)
(* order.  Slot 0 is the member `rdn', the remote end of the old protocol  *)
(* version, which has no uuid.                                             *)
(***************************************************************************)
EXTENDS Integers, FiniteSets

CONSTANTS Conns,    \* the connection objects (QBusConnection)
          Names,    \* module names; all lookups compare them in upper case
          Uuids,    \* uuids of remote processes
          NoConn    \* the NULL connection

ASSUME NoConnAssumption == NoConn \notin Conns
ASSUME UuidsAssumption == Uuids \subseteq Nat \ {0} /\ IsFiniteSet(Uuids)

NoUuid == 0
Slots == Uuids \cup {NoUuid}
Peers == [name : Names, uuid : Slots]

(***************************************************************************)
(* QBusRouteDirectContext: the pool of one module name.                    *)
(***************************************************************************)
Context == [conn  : [Slots -> Conns \cup {NoConn}],
            rr    : [Slots -> Nat],      \* rr_current of the member
            round : Nat,                 \* rr_context
            size  : Nat]                 \* cape_map_size (connections)

NewContext == [conn  |-> [s \in Slots |-> NoConn],
               rr    |-> [s \in Slots |-> 0],
               round |-> 0,
               size  |-> 0]

Members(ctx) == {s \in Slots : ctx.conn[s] # NoConn}
Pooled(ctx) == Members(ctx) \ {NoUuid}   \* the keys of the CapeMap

\* Mutant: the member without a uuid is counted with the others.
ContextAddCountingRdn(ctx, uuid, conn) ==
  [conn  |-> [ctx.conn EXCEPT ![uuid] = conn],
   rr    |-> [ctx.rr EXCEPT ![uuid] = ctx.round],
   round |-> ctx.round,
   size  |-> ctx.size + 1]

\* cape_map_insert does not replace the value of a key that exists, but it
\* counts the insertion; an insertion into an empty map sets the count to 1.
ContextAdd(ctx, uuid, conn) ==
  LET free == ctx.conn[uuid] = NoConn
  IN [conn  |-> IF free THEN [ctx.conn EXCEPT ![uuid] = conn] ELSE ctx.conn,
      rr    |-> IF free THEN [ctx.rr EXCEPT ![uuid] = ctx.round] ELSE ctx.rr,
      round |-> ctx.round,
      size  |-> IF uuid = NoUuid THEN ctx.size
                ELSE IF Pooled(ctx) = {} THEN 1 ELSE ctx.size + 1]

\* Mutant: a member is due again in the round that served it.
DueAgain(ctx, r) == {s \in Members(ctx) : ctx.rr[s] <= r}

\* The members that were not yet served in round r, and the first of them.
Due(ctx, r) == {s \in Members(ctx) : ctx.rr[s] < r}
IsFirst(s, due) == s \in due /\ \A t \in due : s <= t
RoundRobinNext(ctx, r) == CHOOSE s \in Due(ctx, r) : IsFirst(s, Due(ctx, r))

\* One turn: the pool with its marks moved on, and the slot that was picked.
\* When everybody was served, the next round starts.
Turn(ctx) == IF Due(ctx, ctx.round) # {} THEN ctx.round ELSE ctx.round + 1
HasTurn(ctx) == Due(ctx, Turn(ctx)) # {}
Picked(ctx) == RoundRobinNext(ctx, Turn(ctx))
RoundRobin(ctx) ==
  [conn  |-> ctx.conn,
   rr    |-> IF HasTurn(ctx)
             THEN [ctx.rr EXCEPT ![Picked(ctx)] = Turn(ctx)] ELSE ctx.rr,
   round |-> Turn(ctx),
   size  |-> ctx.size]

ContextRm(ctx, uuid) ==
  [conn  |-> [ctx.conn EXCEPT ![uuid] = NoConn],
   rr    |-> ctx.rr,
   round |-> ctx.round,
   size  |-> IF uuid \in Pooled(ctx) THEN ctx.size - 1 ELSE ctx.size]

\* Mutant: the member without a uuid is forgotten.
ContextIsEmptyOfUuids(ctx) == ctx.size = 0

ContextIsEmpty(ctx) == ctx.size = 0 /\ ctx.conn[NoUuid] = NoConn

(***************************************************************************)
(* QBusRouteItems: the two maps.  A name outside `keys' has no context;    *)
(* its entry is then NewContext.                                           *)
(***************************************************************************)
Table == [keys   : SUBSET Names,
          direct : [Names -> Context],
          nodes  : [Names -> Conns \cup {NoConn}]]

NewTable == [keys   |-> {},
             direct |-> [n \in Names |-> NewContext],
             nodes  |-> [n \in Names |-> NoConn]]

\* The first connection that announces a name keeps it.
NodesAdd(nodes, conn, list) ==
  [n \in Names |-> IF n \in list /\ nodes[n] = NoConn THEN conn ELSE nodes[n]]

NodesRemoveAll(nodes, conn) ==
  [n \in Names |-> IF nodes[n] = conn THEN NoConn ELSE nodes[n]]

ItemsAdd(t, conn, peer, list) ==
  [keys   |-> t.keys \cup {peer.name},
   direct |-> [t.direct EXCEPT ![peer.name] = ContextAdd(@, peer.uuid, conn)],
   nodes  |-> NodesAdd(t.nodes, conn, list)]

\* Mutant: an update only adds.
ItemsUpdateAddsOnly(t, conn, list) == [t EXCEPT !.nodes = NodesAdd(@, conn, list)]

ItemsUpdate(t, conn, list) ==
  [keys   |-> t.keys,
   direct |-> t.direct,
   nodes  |-> NodesAdd(NodesRemoveAll(t.nodes, conn), conn, list)]

\* The connection to use for a name: the pool first, then the indirect route.
HasPick(t, name) == name \in t.keys /\ HasTurn(t.direct[name])
ItemsGet(t, name) ==
  IF HasPick(t, name) THEN t.direct[name].conn[Picked(t.direct[name])]
  ELSE t.nodes[name]
ItemsAfterGet(t, name) ==
  [keys   |-> t.keys,
   direct |-> IF name \in t.keys
              THEN [t.direct EXCEPT ![name] = RoundRobin(@)]
              ELSE t.direct,
   nodes  |-> t.nodes]

\* Mutant: the indirect routes of the connection stay.
ItemsRmDirectOnly(t, peer) ==
  IF peer.name \notin t.keys THEN t
  ELSE LET ctx == ContextRm(t.direct[peer.name], peer.uuid)
       IN IF ContextIsEmpty(ctx)
          THEN [t EXCEPT !.keys = @ \ {peer.name}, !.direct[peer.name] = NewContext]
          ELSE [t EXCEPT !.direct[peer.name] = ctx]

\* The entry is found by name and uuid; the indirect routes that go are those
\* of the connection FOUND there.
ItemsRm(t, peer) ==
  IF peer.name \notin t.keys THEN t
  ELSE LET found == t.direct[peer.name].conn[peer.uuid]
           ctx   == ContextRm(t.direct[peer.name], peer.uuid)
       IN [keys   |-> IF ContextIsEmpty(ctx) THEN t.keys \ {peer.name} ELSE t.keys,
           direct |-> [t.direct EXCEPT ![peer.name] =
                         IF ContextIsEmpty(ctx) THEN NewContext ELSE ctx],
           nodes  |-> IF found = NoConn THEN t.nodes
                      ELSE NodesRemoveAll(t.nodes, found)]

\* The payload of ROUTE_RES and ROUTE_UPD, and the connections an update goes to.
ItemsNodes(t) == t.keys \cup {n \in Names : t.nodes[n] # NoConn}
DirectConns(t) == {t.direct[n].conn[s] : n \in t.keys, s \in Slots} \ {NoConn}
ItemsConns(t, exception) == DirectConns(t) \ {exception}

=============================================================================
