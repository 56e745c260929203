------------------------------ MODULE Routing -------------------------------
(***************************************************************************)
(* Several QBUS nodes that tell each other what they can reach.             *)
(*                                                                         *)
(* When a connection comes up both ends send ROUTE_REQ; the answer,         *)
(* ROUTE_RES, carries the module list of the answering node.  A node that    *)
(* takes in an answer, or loses a connection, sends ROUTE_UPD with its list  *)
(* to all its other direct connections.  An update that comes in changes     *)
(* the table and is not passed on.                                          *)
(*                                                                         *)
(* There is one process per module name and at most one link between two     *)
(* processes, so a node names a connection by the node at its other end.     *)
(* Every node runs all its handlers on the one thread of its event loop;     *)
(* a link carries frames in order (TCP).                                    *)
(***************************************************************************)
EXTENDS Integers, FiniteSets, Sequences

CONSTANTS Nodes,      \* the processes; also their module names
          NoNode,     \* no connection
          Links,      \* the pairs {n, m} that may connect
          MaxLinkUps  \* bound: how often links come up

ASSUME NoNodeAssumption == NoNode \notin Nodes
ASSUME LinksAssumption == \A l \in Links : l \subseteq Nodes /\ Cardinality(l) = 2
ASSUME MaxLinkUpsAssumption == MaxLinkUps \in Nat

INSTANCE RouteTable WITH Conns <- Nodes, Names <- Nodes, Uuids <- {1}, NoConn <- NoNode

VARIABLES
  table,    \* the routing table of each node
  open,     \* [n][m]: n has a connection object to m
  named,    \* [n][m]: ... and the answer of m has set its name
  chan,     \* [n][m]: frames on the way from n to m
  linkUps,  \* how often a link has come up
  spaced    \* history: links only ever changed when no frame was on its way

vars == <<table, open, named, chan, linkUps, spaced>>

\* A frame carries the module list of its sender (empty in a request).
Frames == [type : {"ROUTE_REQ", "ROUTE_RES", "ROUTE_UPD", "CLOSE"}, nodes : SUBSET Nodes]
RouteReq == [type |-> "ROUTE_REQ", nodes |-> {}]
RouteRes(list) == [type |-> "ROUTE_RES", nodes |-> list]
RouteUpd(list) == [type |-> "ROUTE_UPD", nodes |-> list]
Close == [type |-> "CLOSE", nodes |-> {}]   \* the end of the TCP stream

Peer(m) == [name |-> m, uuid |-> 1]

Init ==
  /\ table = [n \in Nodes |-> NewTable]
  /\ open = [n \in Nodes |-> [m \in Nodes |-> FALSE]]
  /\ named = [n \in Nodes |-> [m \in Nodes |-> FALSE]]
  /\ chan = [n \in Nodes |-> [m \in Nodes |-> <<>>]]
  /\ linkUps = 0
  /\ spaced = TRUE

\* No frame is on its way anywhere.
Quiet == \A n, m \in Nodes : chan[n][m] = <<>>

\* What n sends reaches the channel only while the other end is open.
Sent(out, n, m, frame) == IF open[m][n] THEN [out EXCEPT ![m] = Append(@, frame)] ELSE out

\* qbus_route_send_updates: the new list to all direct connections but one.
Updated(out, n, t, origin) ==
  [m \in Nodes |-> IF m \in ItemsConns(t, origin) /\ open[m][n]
                   THEN Append(out[m], RouteUpd(ItemsNodes(t))) ELSE out[m]]

Received(n, m, type) == chan[m][n] # <<>> /\ Head(chan[m][n]).type = type
WithoutHead(n, m) == [chan EXCEPT ![m][n] = Tail(@)]

\* Mutant: only the end that dialled asks for the routes of the other.
LinkUpAsksOnce(n, m) ==
  /\ {n, m} \in Links
  /\ ~ open[n][m] /\ ~ open[m][n]
  /\ linkUps < MaxLinkUps
  /\ linkUps' = linkUps + 1
  /\ spaced' = (spaced /\ Quiet)
  /\ open' = [open EXCEPT ![n][m] = TRUE, ![m][n] = TRUE]
  /\ chan' = [chan EXCEPT ![n][m] = <<RouteReq>>]
  /\ UNCHANGED <<table, named>>

\* Both ends of a link have their connection and register it.
LinkUp(n, m) ==
  /\ {n, m} \in Links
  /\ ~ open[n][m] /\ ~ open[m][n]
  /\ linkUps < MaxLinkUps
  /\ linkUps' = linkUps + 1
  /\ spaced' = (spaced /\ Quiet)
  /\ open' = [open EXCEPT ![n][m] = TRUE, ![m][n] = TRUE]
  /\ chan' = [chan EXCEPT ![n][m] = <<RouteReq>>, ![m][n] = <<RouteReq>>]
  /\ UNCHANGED <<table, named>>

OnRouteRequest(n, m) ==
  /\ Received(n, m, "ROUTE_REQ")
  /\ chan' = [WithoutHead(n, m) EXCEPT
                ![n] = Sent(@, n, m, RouteRes(ItemsNodes(table[n])))]
  /\ UNCHANGED <<table, open, named, linkUps, spaced>>

\* Mutant: the new routes are not passed on.
OnRouteResponseKept(n, m) ==
  /\ Received(n, m, "ROUTE_RES")
  /\ named' = [named EXCEPT ![n][m] = TRUE]
  /\ table' = [table EXCEPT ![n] = ItemsAdd(@, m, Peer(m), Head(chan[m][n]).nodes)]
  /\ chan' = WithoutHead(n, m)
  /\ UNCHANGED <<open, linkUps, spaced>>

OnRouteResponse(n, m) ==
  LET t == ItemsAdd(table[n], m, Peer(m), Head(chan[m][n]).nodes)
  IN /\ Received(n, m, "ROUTE_RES")
     /\ named' = [named EXCEPT ![n][m] = TRUE]
     /\ table' = [table EXCEPT ![n] = t]
     /\ chan' = [WithoutHead(n, m) EXCEPT ![n] = Updated(@, n, t, m)]
     /\ UNCHANGED <<open, linkUps, spaced>>

\* Mutant: every update is answered with one.
OnRouteUpdateAnswered(n, m) ==
  LET t == ItemsUpdate(table[n], m, Head(chan[m][n]).nodes)
  IN /\ Received(n, m, "ROUTE_UPD")
     /\ table' = [table EXCEPT ![n] = t]
     /\ chan' = [WithoutHead(n, m) EXCEPT ![n] = Sent(@, n, m, RouteUpd(ItemsNodes(t)))]
     /\ UNCHANGED <<open, named, linkUps, spaced>>

\* An update on a connection without a name is thrown away.
OnRouteUpdate(n, m) ==
  /\ Received(n, m, "ROUTE_UPD")
  /\ table' = [table EXCEPT ![n] = IF named[n][m]
                                   THEN ItemsUpdate(@, m, Head(chan[m][n]).nodes) ELSE @]
  /\ chan' = WithoutHead(n, m)
  /\ UNCHANGED <<open, named, linkUps, spaced>>

\* qbus_connection_del at n, because the connection failed here or because the
\* other end closed it: unread frames are lost, the other end will notice.
ConnRm(n, m) ==
  LET t == IF named[n][m] THEN ItemsRm(table[n], Peer(m)) ELSE table[n]
  IN /\ table' = [table EXCEPT ![n] = t]
     /\ open' = [open EXCEPT ![n][m] = FALSE]
     /\ named' = [named EXCEPT ![n][m] = FALSE]
     /\ chan' = [chan EXCEPT ![m][n] = <<>>,
                             ![n] = Updated(Sent(@, n, m, Close), n, t, m)]
     /\ UNCHANGED linkUps

LinkFails(n, m) == open[n][m] /\ ConnRm(n, m) /\ spaced' = (spaced /\ Quiet)
OnClose(n, m) == Received(n, m, "CLOSE") /\ ConnRm(n, m) /\ UNCHANGED spaced

Handle(n, m) ==
  \/ OnRouteRequest(n, m)
  \/ OnRouteResponse(n, m)
  \/ OnRouteUpdate(n, m)
  \/ OnClose(n, m)

Next ==
  \/ \E n, m \in Nodes : LinkUp(n, m)
  \/ \E n, m \in Nodes : LinkFails(n, m)
  \/ \E n, m \in Nodes : OnRouteRequest(n, m)
  \/ \E n, m \in Nodes : OnRouteResponse(n, m)
  \/ \E n, m \in Nodes : OnRouteUpdate(n, m)
  \/ \E n, m \in Nodes : OnClose(n, m)

\* The event loops serve readable connections (epoll reports a descriptor until
\* it was read): while frames are on their way, some handler runs.
Fairness == WF_vars(\E n, m \in Nodes : Handle(n, m))

Spec == Init /\ [][Next]_vars /\ Fairness

-----------------------------------------------------------------------------
\* Tables, connections and channels have their types: only the four kinds of
\* frames are on their way, and the list of a frame is a set of module names.
TypeOK ==
  /\ table \in [Nodes -> Table]
  /\ open \in [Nodes -> [Nodes -> BOOLEAN]]
  /\ named \in [Nodes -> [Nodes -> BOOLEAN]]
  /\ chan \in [Nodes -> [Nodes -> Seq(Frames)]]
  /\ linkUps \in 0 .. MaxLinkUps

\* A connection that was deleted is in no table, whatever frames of it and of
\* other connections were handled before and after.
NoDangling ==
  \A n \in Nodes :
    /\ DirectConns(table[n]) \subseteq {m \in Nodes : open[n][m]}
    /\ \A x \in Nodes : table[n].nodes[x] # NoNode => open[n][table[n].nodes[x]]

\* When nothing is on its way, the two ends of every link agree: both have the
\* connection and know the other as a direct module, or neither does.
EndsAgree ==
  Quiet => \A n, m \in Nodes : /\ open[n][m] <=> open[m][n]
                               /\ open[n][m] <=> m \in table[n].keys

\* Links that change one at a time, each after the frames of the last change
\* were handled, on a path of three nodes: every node can reach the modules next
\* to its neighbour, and the neighbour has an entry for every module that would
\* be sent through it.
SpacedChangesAreKnown ==
  spaced /\ Quiet => \A n, m, x \in Nodes :
    /\ m \in table[n].keys /\ x \in table[m].keys =>
         x = n \/ ItemsGet(table[n], x) # NoNode
    /\ table[n].nodes[x] = m => x \in ItemsNodes(table[m])

\* Every exchange ends: handshakes complete and updates do not breed updates.
\* With EndsAgree, a connection that came up is registered or goes away again.
EventuallyQuiet == []<>Quiet

-----------------------------------------------------------------------------
\* "no route to %s" (qbus_route.c, on_msg_request): a node that would answer so
\* has no neighbour that is connected to the module, even if links only change
\* when nothing is on its way.
NoRouteIsTrue ==
  spaced /\ Quiet => \A n, x \in Nodes :
    n # x /\ ItemsGet(table[n], x) = NoNode =>
      ~ \E m \in table[n].keys : x \in table[m].keys

\* "try to find a connection which might reach the destination module"
\* (qbus_route.c, on_msg_request): when nothing is on its way, the connection a
\* node has chosen for a module leads to it over links that are up.
Reach(n, x) ==
  \/ x = n \/ open[n][x]
  \/ \E m \in Nodes : open[n][m] /\ open[m][x]

RouteMightReach ==
  Quiet => \A n, x \in Nodes :
    table[n].nodes[x] # NoNode => Reach(table[n].nodes[x], x)

=============================================================================
