------------------------------ MODULE Provider ------------------------------
(***************************************************************************)
(* The life of a process on the bus: qbus_init opens its ports, the event     *)
(* loop runs, SIGTERM ends it and qbus_del takes everything down              *)
(* (libs/qbus/src/qbus.c, core/qbus_engine.c, pvd_tcp/qbus_tcp.c,             *)
(* libs/cape/src/aio/cape_aio_ctx.c, cape_aio_timer.c, and the acceptor of    *)
(* cape_aio_sock.c).                                                           *)
(*                                                                         *)
(* A process listens, or dials the processes of Remotes.  Both ends of a link  *)
(* are modelled: a link that breaks is noticed by each end on its own, so one  *)
(* end may be gone and dialled again while the other still stands.  Processes  *)
(* stop in order, are killed, and start again.                                 *)
(*                                                                         *)
(* There is one thread in each process here: the handling of one event is one  *)
(* step.  What is sent over a link is the matter of AioSocket and Routing.      *)
(***************************************************************************)
EXTENDS Naturals, Sequences, FiniteSets, SequencesExt

CONSTANTS Nodes,        \* the processes
          Remotes,      \* pairs <<n, m>>: process n is configured to dial process m
          MaxLinks,     \* bound: links that exist at a time
          NoLink,
          MaxBreaks,    \* bound: links that break by themselves
          MaxStarts,    \* bound: starts of a process
          MayFail       \* may a socket or a timer fail to be created in the event loop?

ASSUME NodesAssumption ==
  /\ Remotes \subseteq {r \in Nodes \X Nodes : r[1] # r[2]} /\ IsFiniteSet(Remotes)
  /\ NoLink \notin Nodes \X Nodes
ASSUME BoundsAssumption == MaxLinks \in Nat /\ MaxBreaks \in Nat /\ MaxStarts \in Nat /\ MayFail \in BOOLEAN

Links == 1..MaxLinks

Listeners == {r[2] : r \in Remotes}

\* The ports of a process: first its binds, then its remotes (qbus_init).
Ports(n) == (IF n \in Listeners THEN <<n>> ELSE <<>>)
            \o SetToSeq({m \in Nodes : <<n, m>> \in Remotes})

\* What is registered with epoll.
Acceptor == <<"accept", NoLink>>
Signals == <<"signal", NoLink>>
Socket(l) == <<"socket", l>>
Timer(m) == <<"timer", m>>

VARIABLES
  phase,    \* where a process is
  todo,     \* the ports it has still to open
  efd,      \* is its epoll descriptor open?
  locked,   \* is the mutex of the AIO context held?
  events,   \* the list of AIO handles
  listed,   \* the links in the lists phy_connections of its entities
  routed,   \* the links whose QBusConnection the route knows
  lost,     \* the remotes for which nothing is left that would dial again
  ends,     \* who dials whom on a link
  wire,     \* the state of a link
  starts, breaks,
  misused   \* history: something was used after it was freed

node == <<phase, todo, efd, locked>>
net == <<ends, wire>>
bounds == <<starts, breaks>>
vars == <<node, events, listed, routed, lost, net, bounds, misused>>

Init ==
  /\ phase = [n \in Nodes |-> "down"]
  /\ todo = [n \in Nodes |-> <<>>]
  /\ efd = [n \in Nodes |-> FALSE] /\ locked = [n \in Nodes |-> FALSE]
  /\ events = [n \in Nodes |-> <<>>]
  /\ listed = [n \in Nodes |-> {}] /\ routed = [n \in Nodes |-> {}] /\ lost = [n \in Nodes |-> {}]
  /\ ends = [l \in Links |-> NoLink] /\ wire = [l \in Links |-> "none"]
  /\ starts = [n \in Nodes |-> 0] /\ breaks = 0
  /\ misused = FALSE

Has(n, h) == Contains(events[n], h)
Without(s, h) == RemoveAt(s, CHOOSE i \in DOMAIN s : s[i] = h)

-----------------------------------------------------------------------------
\* The lists of a process.

\* cape_aio_context_add takes the mutex, unless the context is being closed:
\* then the handle is dropped at once.
Added(n, s, h) == IF efd[n] THEN ~locked[n] /\ events' = [events EXCEPT ![n] = Append(s, h)]
                            ELSE events' = [events EXCEPT ![n] = s]

\* A link that no process holds is free again; with one end gone it is broken.
Dropped(n, l) ==
  IF \E m \in Nodes \ {n} : l \in listed[m]
  THEN wire' = [wire EXCEPT ![l] = "broken"] /\ UNCHANGED ends
  ELSE wire' = [wire EXCEPT ![l] = "none"] /\ ends' = [ends EXCEPT ![l] = NoLink]

\* The connection object of the upper layer is made, the socket is registered,
\* and the route starts its handshake.
Opened(n, l, s) ==
  /\ Added(n, s, Socket(l))
  /\ listed' = [listed EXCEPT ![n] = @ \union {l}]
  /\ routed' = [routed EXCEPT ![n] = @ \union {l}]

\* The socket is deleted: its onDone takes the connection out of the list, which
\* deletes the QBusConnection, which takes it out of the route.
Released(n, l) ==
  /\ listed' = [listed EXCEPT ![n] = @ \ {l}]
  /\ routed' = [routed EXCEPT ![n] = @ \ {l}]
  /\ misused' = (misused \/ phase[n] \in {"route", "engines"})
  /\ Dropped(n, l)

\* Mutant: the timer is not set.
OnDoneNoTimer(n, l, s) ==
  /\ Released(n, l)
  /\ events' = [events EXCEPT ![n] = s] /\ UNCHANGED lost

\* The onDone of a socket.  The one that dialled sets its timer first.
OnDone(n, l, s) ==
  /\ Released(n, l)
  /\ IF ends[l][1] = n
     THEN \/ Added(n, s, Timer(ends[l][2])) /\ UNCHANGED lost
          \/ /\ MayFail /\ phase[n] = "loop"
             /\ events' = [events EXCEPT ![n] = s]
             /\ lost' = [lost EXCEPT ![n] = @ \union {ends[l][2]}]
     ELSE events' = [events EXCEPT ![n] = s] /\ UNCHANGED lost

Free == {l \in Links : wire[l] = "none"}

\* qbus_pvd_reconnect.  The socket does not block: whether the remote answers
\* shows later.
Reconnect(n, m, s) ==
  \E l \in Free :
    /\ \A k \in Free : l <= k
    /\ Opened(n, l, s)
    /\ ends' = [ends EXCEPT ![l] = <<n, m>>]
    /\ wire' = [wire EXCEPT ![l] = "calling"]

-----------------------------------------------------------------------------
\* qbus_init.

Start(n) ==
  /\ phase[n] = "down" /\ starts[n] < MaxStarts
  /\ starts' = [starts EXCEPT ![n] = @ + 1]
  /\ phase' = [phase EXCEPT ![n] = "init"]
  /\ todo' = [todo EXCEPT ![n] = Ports(n)]
  /\ efd' = [efd EXCEPT ![n] = TRUE]
  /\ UNCHANGED <<locked, events, listed, routed, lost, net, breaks, misused>>

Opening(n) == phase[n] = "init" /\ todo[n] # <<>>
PortOpened(n) == todo' = [todo EXCEPT ![n] = Tail(@)] /\ UNCHANGED <<phase, efd, locked>>

Listen(n) ==
  /\ Opening(n) /\ Head(todo[n]) = n
  /\ Added(n, events[n], Acceptor)
  /\ PortOpened(n)
  /\ UNCHANGED <<listed, routed, lost, net, bounds, misused>>

Dial(n) ==
  /\ Opening(n) /\ Head(todo[n]) # n
  /\ Reconnect(n, Head(todo[n]), events[n])
  /\ PortOpened(n)
  /\ UNCHANGED <<lost, bounds, misused>>

\* Mutant: epoll is closed last.
CloseAllLate(n) ==
  /\ phase' = [phase EXCEPT ![n] = "closing"]
  /\ locked' = [locked EXCEPT ![n] = TRUE]
  /\ UNCHANGED <<efd, todo, events, listed, routed, lost, net, bounds, misused>>

\* cape_aio_context_closeAll closes epoll and takes the mutex.
CloseAll(n) ==
  /\ phase' = [phase EXCEPT ![n] = "closing"]
  /\ efd' = [efd EXCEPT ![n] = FALSE]
  /\ locked' = [locked EXCEPT ![n] = TRUE]
  /\ UNCHANGED <<todo, events, listed, routed, lost, net, bounds, misused>>

\* A port that cannot be opened ends the process; what was opened before stays
\* until qbus_del.
InitFails(n) == Opening(n) /\ CloseAll(n)

\* qbus_wait: signals are handled by the event loop.
Wait(n) ==
  /\ phase[n] = "init" /\ todo[n] = <<>>
  /\ Added(n, events[n], Signals)
  /\ phase' = [phase EXCEPT ![n] = "loop"]
  /\ UNCHANGED <<todo, efd, locked, listed, routed, lost, net, bounds, misused>>

-----------------------------------------------------------------------------
\* The event loop.

\* A broken link is reported: the socket says it is done, its handle is removed.
Report(n) ==
  \E l \in listed[n] :
    /\ phase[n] = "loop" /\ wire[l] = "broken" /\ Has(n, Socket(l))
    /\ OnDone(n, l, Without(events[n], Socket(l)))
    /\ UNCHANGED <<node, bounds>>

Accept(m) ==
  \E l \in Links :
    /\ phase[m] = "loop" /\ Has(m, Acceptor)
    /\ wire[l] = "calling" /\ ends[l][2] = m
    /\ Opened(m, l, events[m])
    /\ wire' = [wire EXCEPT ![l] = "up"]
    /\ UNCHANGED <<node, lost, ends, bounds, misused>>

\* Mutant: the timer stays.
TimerStays(n) ==
  \E m \in Nodes :
    /\ phase[n] = "loop" /\ Has(n, Timer(m))
    /\ Reconnect(n, m, events[n])
    /\ UNCHANGED <<node, lost, bounds, misused>>

\* The timer runs once: its handle is removed whatever came of it.
TimerExpires(n) ==
  \E m \in Nodes :
    /\ phase[n] = "loop" /\ Has(n, Timer(m))
    /\ Reconnect(n, m, Without(events[n], Timer(m)))
    /\ UNCHANGED <<node, lost, bounds, misused>>

TimerFails(n) ==
  \E m \in Nodes :
    /\ MayFail
    /\ phase[n] = "loop" /\ Has(n, Timer(m))
    /\ events' = [events EXCEPT ![n] = Without(@, Timer(m))]
    /\ lost' = [lost EXCEPT ![n] = @ \union {m}]
    /\ UNCHANGED <<node, listed, routed, net, bounds, misused>>

Terminate(n) == phase[n] = "loop" /\ CloseAll(n)

-----------------------------------------------------------------------------
\* qbus_del: the AIO context, the route, the engines.

\* Mutant: the timers and sockets of the list are only forgotten.
ForgetHandle(n) ==
  /\ phase[n] = "closing" /\ events[n] # <<>>
  /\ events' = [events EXCEPT ![n] = Tail(@)]
  /\ UNCHANGED <<listed, routed, lost, net, misused, node, bounds>>

\* The next handle of the list is dropped, while the mutex is held.
CloseHandle(n) ==
  /\ phase[n] = "closing" /\ events[n] # <<>>
  /\ LET h == Head(events[n]) IN
       IF h[1] = "socket"
       THEN OnDone(n, h[2], Tail(events[n]))
       ELSE events' = [events EXCEPT ![n] = Tail(@)] /\ UNCHANGED <<listed, routed, lost, net, misused>>
  /\ UNCHANGED <<node, bounds>>

Closed(n) ==
  /\ phase[n] = "closing" /\ events[n] = <<>>
  /\ phase' = [phase EXCEPT ![n] = "route"]
  /\ locked' = [locked EXCEPT ![n] = FALSE]
  /\ UNCHANGED <<todo, efd, events, listed, routed, lost, net, bounds, misused>>

RouteDel(n) ==
  /\ phase[n] = "route"
  /\ phase' = [phase EXCEPT ![n] = "engines"]
  /\ UNCHANGED <<todo, efd, locked, events, listed, routed, lost, net, bounds, misused>>

\* An entity closes the sockets that are still in its list, with an AIO context
\* and a route that are gone.
EnginesDel(n) ==
  /\ phase[n] = "engines"
  /\ phase' = [phase EXCEPT ![n] = "down"]
  /\ misused' = (misused \/ listed[n] # {})
  /\ todo' = [todo EXCEPT ![n] = <<>>]
  /\ lost' = [lost EXCEPT ![n] = {}]
  /\ UNCHANGED <<efd, locked, events, listed, routed, net, bounds>>

-----------------------------------------------------------------------------
\* What happens to processes and links.

\* The process is killed: the operating system closes its sockets.
Crash(n) ==
  /\ phase[n] \in {"init", "loop"} /\ breaks < MaxBreaks
  /\ breaks' = breaks + 1
  /\ phase' = [phase EXCEPT ![n] = "down"]
  /\ todo' = [todo EXCEPT ![n] = <<>>] /\ efd' = [efd EXCEPT ![n] = FALSE]
  /\ events' = [events EXCEPT ![n] = <<>>] /\ lost' = [lost EXCEPT ![n] = {}]
  /\ listed' = [listed EXCEPT ![n] = {}] /\ routed' = [routed EXCEPT ![n] = {}]
  /\ LET held(l) == \E m \in Nodes \ {n} : l \in listed[m] IN
       /\ wire' = [l \in Links |-> IF l \notin listed[n] THEN wire[l]
                                   ELSE IF held(l) THEN "broken" ELSE "none"]
       /\ ends' = [l \in Links |-> IF l \in listed[n] /\ ~held(l) THEN NoLink ELSE ends[l]]
  /\ UNCHANGED <<locked, starts, misused>>

\* Nobody listens.
Refuse(l) ==
  /\ wire[l] = "calling" /\ ~Has(ends[l][2], Acceptor)
  /\ wire' = [wire EXCEPT ![l] = "broken"]
  /\ UNCHANGED <<node, events, listed, routed, lost, ends, bounds, misused>>

Break(l) ==
  /\ wire[l] = "up" /\ breaks < MaxBreaks
  /\ breaks' = breaks + 1
  /\ wire' = [wire EXCEPT ![l] = "broken"]
  /\ UNCHANGED <<node, events, listed, routed, lost, ends, starts, misused>>

Opens(n) == Listen(n) \/ Dial(n) \/ Wait(n)
Turn(n) == Report(n) \/ TimerExpires(n) \/ TimerFails(n)
Delete(n) == CloseHandle(n) \/ Closed(n) \/ RouteDel(n) \/ EnginesDel(n)

Next ==
  \/ \E n \in Nodes : \/ Start(n) \/ Opens(n) \/ InitFails(n) \/ Turn(n) \/ Accept(n)
                      \/ Terminate(n) \/ Delete(n) \/ Crash(n)
  \/ \E l \in Links : Refuse(l) \/ Break(l)

\* The event loop of a process runs; the kernel reports every broken link and
\* every expired timer, and refuses a call nobody listens to.
Fairness ==
  /\ \A n \in Nodes : /\ WF_vars(Opens(n)) /\ WF_vars(Report(n)) /\ SF_vars(Accept(n))
                      /\ WF_vars(TimerExpires(n) \/ TimerFails(n)) /\ WF_vars(Delete(n))
  /\ \A l \in Links : WF_vars(Refuse(l))

Spec == Init /\ [][Next]_vars /\ Fairness

-----------------------------------------------------------------------------
\* The variables have their types.
Handles == {Acceptor, Signals} \union {Socket(l) : l \in Links} \union {Timer(m) : m \in Nodes}
TypeOK ==
  /\ phase \in [Nodes -> {"down", "init", "loop", "closing", "route", "engines"}]
  /\ todo \in [Nodes -> Seq(Nodes)]
  /\ efd \in [Nodes -> BOOLEAN] /\ locked \in [Nodes -> BOOLEAN] /\ misused \in BOOLEAN
  /\ events \in [Nodes -> Seq(Handles)]
  /\ listed \in [Nodes -> SUBSET Links] /\ routed \in [Nodes -> SUBSET Links]
  /\ lost \in [Nodes -> SUBSET Nodes]
  /\ ends \in [Links -> Remotes \union {NoLink}]
  /\ wire \in [Links -> {"none", "calling", "up", "broken"}]
  /\ starts \in [Nodes -> 0..MaxStarts] /\ breaks \in 0..MaxBreaks

\* A running process has one way to a remote: a connection, or a timer that
\* will dial again - never both, never two (qbus_pvd_phy_connection__on_done,
\* qbus_tcp.c:452).  Two would give the route two links to one module.
Ways(n, m) ==
  Cardinality({l \in listed[n] : ends[l] = <<n, m>>})
  + Cardinality({i \in DOMAIN events[n] : events[n][i] = Timer(m)})
OneWayToTheRemote ==
  \A r \in Remotes : phase[r[1]] = "loop" =>
    Ways(r[1], r[2]) = IF r[2] \in lost[r[1]] THEN 0 ELSE 1

\* The route of a process knows the connections whose socket is registered, and
\* no other: a connection that is gone is never used, not in qbus_del either.
RouteKnowsItsConnections ==
  /\ ~misused
  /\ \A n \in Nodes : /\ routed[n] = {l \in Links : Has(n, Socket(l))}
                      /\ phase[n] \in {"down", "route", "engines"} => routed[n] = {}

\* qbus_del comes to its end: no callback that is called while the mutex of the
\* AIO context is held waits for that mutex ("otherwise a deadlock can apear",
\* cape_aio_ctx.c:326).
DeleteEnds == \A n \in Nodes : phase[n] = "closing" ~> phase[n] = "down"

\* When both processes stay up they are linked in the end, whatever was broken,
\* killed or restarted before - unless a socket or a timer could not be created.
BothUp(r) == phase[r[1]] = "loop" /\ phase[r[2]] = "loop"
Linked(r) == \E l \in Links : ends[l] = r /\ wire[l] = "up"
LinkedInTheEnd ==
  \A r \in Remotes : <>[](BothUp(r) /\ r[2] \notin lost[r[1]]) => <>[]Linked(r)

\* "Add timer for reconnection" (qbus_tcp.c:456): a remote that was lost is
\* dialled again for as long as both processes are up.
RemoteIsTriedAgain ==
  \A r \in Remotes : <>[]BothUp(r) => <>[]Linked(r)
=============================================================================
