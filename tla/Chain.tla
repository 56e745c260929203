------------------------------- MODULE Chain --------------------------------
(***************************************************************************)
(* Requests and their answers: how a callback that is given to qbus_send or  *)
(* qbus_continue finds its answer again (libs/qbus/src/core/qbus_route.c     *)
(* and qbus_route_method.c).                                                *)
(*                                                                         *)
(* A node that sends a request keeps an entry under a fresh chain key; the   *)
(* answer that carries the key takes the entry out and calls back.  A node   *)
(* on the way keeps an entry of its own and puts the old key back into the   *)
(* answer.  A method, or a callback, that itself asks another module (it     *)
(* CONTINUES) leaves the answer to the callback of that request.            *)
(*                                                                         *)
(* There is one process per module name.  Every node runs on the thread of   *)
(* its event loop: while it is inside a method or a callback of the          *)
(* application (`running') it handles nothing else.  The routing table is    *)
(* the constant Hops, cut down to the connections that are up; a module that *)
(* is connected itself is reached over its own connection.                  *)
(***************************************************************************)
EXTENDS Integers, FiniteSets, Sequences

CONSTANTS Nodes,        \* the processes; also their module names
          NoNode,
          Links,        \* the pairs {n, m} that are connected at first
          Hops,         \* [n][x]: the neighbours that announced x to n
          Clients,      \* the processes whose application starts requests
          MaxRequests,  \* bound: requests of applications
          MaxFailures   \* bound: links that fail

ASSUME NoNodeAssumption == NoNode \notin Nodes
ASSUME LinksAssumption == \A l \in Links : l \subseteq Nodes /\ Cardinality(l) = 2
ASSUME HopsAssumption == Hops \in [Nodes -> [Nodes -> SUBSET Nodes]]
ASSUME ClientsAssumption == Clients \subseteq Nodes
ASSUME BoundsAssumption == MaxRequests \in Nat /\ MaxFailures \in Nat

VARIABLES
  requests,  \* history: who asked, on behalf of which request, calls back
  chains,    \* the entries of each node (chains)
  keys,      \* how many chain keys each node has made (cape_str_uuid)
  running,   \* the application function each node is inside
  open,      \* [n][m]: n has a connection object to m
  chan,      \* [n][m]: frames on the way from n to m
  failures   \* history: how many links have failed

vars == <<requests, chains, keys, running, open, chan, failures>>

Ids == 1 .. MaxRequests
NoRequest == 0
Keys == [at : Nodes, nr : Nat \ {0}]
NoKey == [at |-> NoNode, nr |-> 0]
Senders == Nodes \cup {NoNode}

\* `about' is a history field: the request that a frame, an entry or a
\* function is about.
Frames == [type : {"MSG_REQ", "MSG_RES", "METHODS", "CLOSE"}, key : Keys \cup {NoKey},
           module : Nodes, sender : Nodes, about : Ids \cup {NoRequest}]
Frame(type, key, module, sender, about) ==
  [type |-> type, key |-> key, module |-> module, sender |-> sender, about |-> about]
Close(n) == Frame("CLOSE", NoKey, n, n, NoRequest)

\* QBusMethod in chains: the chain key and sender to go back to, NoKey at the
\* start of a chain.
Entries == [type : {"RESPONSE", "FORWARD", "METHODS"}, id : Keys, about : Ids,
            key : Keys \cup {NoKey}, sender : Senders]
Entry(type, id, about, key, sender) ==
  [type |-> type, id |-> id, about |-> about, key |-> key, sender |-> sender]

\* Inside a method called by a frame (the answer goes back on `conn'), a method
\* called in the same process (the answer goes to the callback of `about'), or a
\* callback (the answer of the chain goes to `sender' by name).
Runs == [in : {"remote", "local", "callback"}, about : Ids,
         key : Keys \cup {NoKey}, sender : Senders,
         lastKey : Keys \cup {NoKey}, lastSender : Senders, conn : Senders]
Idle == [in |-> "idle"]
Remote(about, key, sender, conn) ==
  [in |-> "remote", about |-> about, key |-> key, sender |-> sender,
   lastKey |-> NoKey, lastSender |-> NoNode, conn |-> conn]
Local(about, key, sender, lastKey, lastSender) ==
  [in |-> "local", about |-> about, key |-> key, sender |-> sender,
   lastKey |-> lastKey, lastSender |-> lastSender, conn |-> NoNode]
Callback(about, key, sender) ==
  [in |-> "callback", about |-> about, key |-> key, sender |-> sender,
   lastKey |-> NoKey, lastSender |-> NoNode, conn |-> NoNode]

Init ==
  /\ requests = <<>>
  /\ chains = [n \in Nodes |-> {}]
  /\ keys = [n \in Nodes |-> 0]
  /\ running = [n \in Nodes |-> Idle]
  /\ open = [n \in Nodes |-> [m \in Nodes |-> {n, m} \in Links]]
  /\ chan = [n \in Nodes |-> [m \in Nodes |-> <<>>]]
  /\ failures = 0

\* Mutant: the keys of a node repeat.
SameKey(n) == [at |-> n, nr |-> 1]

NextKey(n) == [at |-> n, nr |-> keys[n] + 1]

\* The way to a module: over its own connection, else over one that it was
\* announced on.
Route(n, x) == IF open[n][x] THEN {x} ELSE {m \in Hops[n][x] : open[n][m]}

\* The channels after n has sent on its connection to m; the frame is lost when
\* the other end is gone.
Sent(ch, n, m, frame) ==
  IF open[m][n] THEN [ch EXCEPT ![n][m] = Append(@, frame)] ELSE ch

\* The request that waits for what the function returns.
Subject(run) == IF run.in = "callback" THEN requests[run.about].parent ELSE run.about

Called(reqs, r) == [reqs EXCEPT ![r].calls = @ + 1]
NewRequest(n, parent, calls) ==
  [from |-> n, parent |-> parent, calls |-> calls, dropped |-> FALSE]

-----------------------------------------------------------------------------
\* What follows when the function a node is inside returns a result or an error.

\* qbus_method_handle_request: the answer goes back on the connection.
ReplyOnConnection(n, run, reqs) ==
  /\ chan' = Sent(chan, n, run.conn, Frame("MSG_RES", run.key, n, n, run.about))
  /\ running' = [running EXCEPT ![n] = Idle]
  /\ requests' = reqs
  /\ UNCHANGED chains

\* qbus_route_request__local_request: the callback runs with the chain that the
\* caller had; the entry made for this request stays.
CallBackLocally(n, run, reqs) ==
  /\ running' = [running EXCEPT ![n] = Callback(run.about, run.lastKey, run.lastSender)]
  /\ requests' = Called(reqs, run.about)
  /\ UNCHANGED <<chains, chan>>

\* qbus_route_response__local
RespondHere(n, run, reqs) ==
  \/ \E e \in chains[n] :
       /\ e.id = run.key
       /\ chains' = [chains EXCEPT ![n] = @ \ {e}]
       /\ running' = [running EXCEPT ![n] = Callback(e.about, e.key, e.sender)]
       /\ requests' = Called(reqs, e.about)
       /\ UNCHANGED chan
  \/ /\ \A e \in chains[n] : e.id # run.key
     /\ running' = [running EXCEPT ![n] = Idle]
     /\ requests' = reqs
     /\ UNCHANGED <<chains, chan>>

\* qbus_route_response: the sender is looked up by its name.
RespondByName(n, run, reqs) ==
  /\ IF Route(n, run.sender) = {} THEN UNCHANGED chan
     ELSE \E m \in Route(n, run.sender) :
       chan' = Sent(chan, n, m, Frame("MSG_RES", run.key, run.sender, n, Subject(run)))
  /\ running' = [running EXCEPT ![n] = Idle]
  /\ requests' = reqs
  /\ UNCHANGED chains

Finished(n, reqs) ==
  LET run == running[n]
  IN \/ run.in = "remote" /\ ReplyOnConnection(n, run, reqs)
     \/ run.in = "local" /\ CallBackLocally(n, run, reqs)
     \/ /\ run.in = "callback" /\ run.key = NoKey
        /\ running' = [running EXCEPT ![n] = Idle]
        /\ requests' = reqs
        /\ UNCHANGED <<chains, chan>>
     \/ /\ run.in = "callback" /\ run.key # NoKey /\ run.sender = n
        /\ RespondHere(n, run, reqs)
     \/ /\ run.in = "callback" /\ run.key # NoKey /\ run.sender # n
        /\ RespondByName(n, run, reqs)

\* The function returns a result or an error.
Return(n) ==
  /\ running[n] # Idle
  /\ Finished(n, requests)
  /\ UNCHANGED <<keys, open, failures>>

-----------------------------------------------------------------------------
\* qbus_route_request, in the name of a request that waits (NoRequest at the
\* start of a chain): in this process, ...
RequestLocally(n, parent, key, sender) ==
  LET r == Len(requests) + 1
  IN /\ requests' = Append(requests, NewRequest(n, parent, 0))
     /\ keys' = [keys EXCEPT ![n] = @ + 1]
     /\ chains' = [chains EXCEPT ![n] = @ \cup {Entry("RESPONSE", NextKey(n), r, key, sender)}]
     /\ running' = [running EXCEPT ![n] = Local(r, NextKey(n), n, key, sender)]
     /\ UNCHANGED <<open, chan, failures>>

\* ... which may not have the method: then nobody is told, ...
RequestUnknown(n, parent) ==
  /\ requests' = Append(requests, [NewRequest(n, parent, 0) EXCEPT !.dropped = TRUE])
  /\ keys' = [keys EXCEPT ![n] = @ + 1]
  /\ running' = [running EXCEPT ![n] = Idle]
  /\ UNCHANGED <<chains, open, chan, failures>>

\* ... or over a connection.  `ask' is the type of frame and entry.
RequestRemotely(n, m, x, ask, parent, key, sender) ==
  LET r == Len(requests) + 1
  IN /\ requests' = Append(requests, NewRequest(n, parent, 0))
     /\ keys' = [keys EXCEPT ![n] = @ + 1]
     /\ chains' = [chains EXCEPT ![n] = @ \cup {Entry(ask.entry, NextKey(n), r, key, sender)}]
     /\ chan' = Sent(chan, n, m, Frame(ask.frame, NextKey(n), x, n, r))
     /\ running' = [running EXCEPT ![n] = Idle]
     /\ UNCHANGED <<open, failures>>

Message == [frame |-> "MSG_REQ", entry |-> "RESPONSE"]
Methods == [frame |-> "METHODS", entry |-> "METHODS"]

\* qbus_send and qbus_methods: with no route, the callback is told so at once.
Start(n, x, ask) ==
  /\ running[n] = Idle
  /\ Len(requests) < MaxRequests
  /\ \/ /\ x = n /\ ask = Message
        /\ RequestLocally(n, NoRequest, NoKey, NoNode) \/ RequestUnknown(n, NoRequest)
     \/ \E m \in Route(n, x) : RequestRemotely(n, m, x, ask, NoRequest, NoKey, NoNode)
     \/ /\ Route(n, x) = {} /\ (x # n \/ ask = Methods)
        /\ requests' = Append(requests, NewRequest(n, NoRequest, 1))
        /\ UNCHANGED <<chains, keys, running, open, chan, failures>>

\* Mutant: a method of the same process that continued is taken for one that
\* returned a result.
ContinueAndReturn(n, x) ==
  LET run == running[n]
      local == run.in = "local"
  IN /\ run # Idle
     /\ run.key # NoKey
     /\ Len(requests) < MaxRequests
     /\ requests' = Append(IF local THEN Called(requests, run.about) ELSE requests,
                          NewRequest(n, Subject(run), 0))
     /\ keys' = [keys EXCEPT ![n] = @ + 1]
     /\ chains' = [chains EXCEPT ![n] = @ \cup
          {Entry("RESPONSE", NextKey(n), Len(requests) + 1, run.key, run.sender)}]
     /\ \E m \in Route(n, x) :
          chan' = Sent(chan, n, m, Frame("MSG_REQ", NextKey(n), x, n, Len(requests) + 1))
     /\ running' = [running EXCEPT ![n] =
          IF local THEN Callback(run.about, run.lastKey, run.lastSender) ELSE Idle]
     /\ UNCHANGED <<open, failures>>

\* The function returns qbus_continue.  With no route, the callback is told so
\* (it then gives up), and the function returns the error.
Continue(n, x) ==
  LET run == running[n]
  IN /\ run # Idle
     /\ run.key # NoKey
     /\ Len(requests) < MaxRequests
     /\ \/ /\ x = n
           /\ \/ RequestLocally(n, Subject(run), run.key, run.sender)
              \/ RequestUnknown(n, Subject(run))
        \/ /\ x # n
           /\ \E m \in Route(n, x) :
                RequestRemotely(n, m, x, Message, Subject(run), run.key, run.sender)
        \/ /\ x # n /\ Route(n, x) = {}
           /\ Finished(n, Append(requests, NewRequest(n, Subject(run), 1)))
           /\ UNCHANGED <<keys, open, failures>>

-----------------------------------------------------------------------------
\* A frame is handled when the thread is free.
Received(n, m, type) ==
  running[n] = Idle /\ chan[m][n] # <<>> /\ Head(chan[m][n]).type = type
WithoutHead(n, m) == [chan EXCEPT ![m][n] = Tail(@)]

Answer(frame, n) == [frame EXCEPT !.type = "MSG_RES", !.sender = n]

\* qbus_route_on_msg_foward: a fresh key, and our own name as the sender.
Forward(n, m, frame, to) ==
  /\ chains' = [chains EXCEPT ![n] = @ \cup
       {Entry("FORWARD", NextKey(n), frame.about, frame.key, frame.sender)}]
  /\ keys' = [keys EXCEPT ![n] = @ + 1]
  /\ chan' = Sent(WithoutHead(n, m), n, to,
                  [frame EXCEPT !.key = NextKey(n), !.sender = n])

\* A frame for another module: it is forwarded, or the error goes back.
ForwardOrRefuse(n, m, frame) ==
  /\ frame.module # n
  /\ \/ \E to \in Route(n, frame.module) : Forward(n, m, frame, to)
     \/ /\ Route(n, frame.module) = {}
        /\ chan' = Sent(WithoutHead(n, m), n, m, Answer(frame, n))
        /\ UNCHANGED <<chains, keys>>
  /\ UNCHANGED running

\* A method that we have is called; for one that we do not have the error goes back.
OnMsgRequest(n, m) ==
  LET frame == Head(chan[m][n])
  IN /\ Received(n, m, "MSG_REQ")
     /\ \/ ForwardOrRefuse(n, m, frame)
        \/ /\ frame.module = n
           /\ running' = [running EXCEPT ![n] = Remote(frame.about, frame.key, frame.sender, m)]
           /\ chan' = WithoutHead(n, m)
           /\ UNCHANGED <<chains, keys>>
        \/ /\ frame.module = n
           /\ chan' = Sent(WithoutHead(n, m), n, m, Answer(frame, n))
           /\ UNCHANGED <<chains, keys, running>>
     /\ UNCHANGED <<requests, open, failures>>

\* The list of methods is answered by the library.
OnMethodsRequest(n, m) ==
  LET frame == Head(chan[m][n])
  IN /\ Received(n, m, "METHODS")
     /\ \/ ForwardOrRefuse(n, m, frame)
        \/ /\ frame.module = n
           /\ chan' = Sent(WithoutHead(n, m), n, m, Answer(frame, n))
           /\ UNCHANGED <<chains, keys, running>>
     /\ UNCHANGED <<requests, open, failures>>

\* Mutant: the answer to a request for the list of methods is thrown away.
OnAnswerOfMethod(n, m, e) ==
  /\ e.type \in {"RESPONSE", "METHODS"}
  /\ running' = [running EXCEPT ![n] =
                   IF e.type = "RESPONSE" THEN Callback(e.about, e.key, e.sender) ELSE @]
  /\ requests' = IF e.type = "RESPONSE" THEN Called(requests, e.about) ELSE requests
  /\ chan' = WithoutHead(n, m)

\* The answer of a request of ours: the entry goes and the callback runs.
OnAnswer(n, m, e) ==
  /\ e.type \in {"RESPONSE", "METHODS"}
  /\ running' = [running EXCEPT ![n] =
                   IF e.type = "RESPONSE" THEN Callback(e.about, e.key, e.sender) ELSE @]
  /\ requests' = Called(requests, e.about)
  /\ chan' = WithoutHead(n, m)

\* Mutant: the answer goes back under the key of the forwarding node.
OnForwardedAnswerOwnKey(n, m, e) ==
  /\ e.type = "FORWARD"
  /\ \E to \in Route(n, e.sender) :
       chan' = Sent(WithoutHead(n, m), n, to, [Head(chan[m][n]) EXCEPT !.sender = e.sender])
  /\ UNCHANGED <<running, requests>>

\* qbus_route_on_msg_forward: the answer goes back by the name of the sender.
OnForwardedAnswer(n, m, e) ==
  LET frame == [Head(chan[m][n]) EXCEPT !.key = e.key, !.sender = e.sender]
  IN /\ e.type = "FORWARD"
     /\ \/ \E to \in Route(n, e.sender) : chan' = Sent(WithoutHead(n, m), n, to, frame)
        \/ Route(n, e.sender) = {} /\ chan' = WithoutHead(n, m)
     /\ UNCHANGED <<running, requests>>

OnMsgResponse(n, m) ==
  LET key == Head(chan[m][n]).key
  IN /\ Received(n, m, "MSG_RES")
     /\ \/ \E e \in chains[n] :
             /\ e.id = key
             /\ chains' = [chains EXCEPT ![n] = @ \ {e}]
             /\ OnAnswer(n, m, e) \/ OnForwardedAnswer(n, m, e)
        \/ /\ \A e \in chains[n] : e.id # key
           /\ chan' = WithoutHead(n, m)
           /\ UNCHANGED <<chains, running, requests>>
     /\ UNCHANGED <<keys, open, failures>>

\* qbus_connection_del: entries whose answer was to come over the connection stay.
ConnRm(n, m) ==
  /\ open' = [open EXCEPT ![n][m] = FALSE]
  /\ chan' = Sent([chan EXCEPT ![m][n] = <<>>], n, m, Close(n))
  /\ UNCHANGED <<requests, chains, keys, running>>

LinkFails(n, m) ==
  /\ open[n][m]
  /\ running[n] = Idle
  /\ failures < MaxFailures
  /\ failures' = failures + 1
  /\ ConnRm(n, m)

OnClose(n, m) == Received(n, m, "CLOSE") /\ ConnRm(n, m) /\ UNCHANGED failures

Handle(n, m) ==
  \/ OnMsgRequest(n, m)
  \/ OnMethodsRequest(n, m)
  \/ OnMsgResponse(n, m)
  \/ OnClose(n, m)

Next ==
  \/ \E n \in Clients, x \in Nodes : Start(n, x, Message)
  \/ \E n \in Clients, x \in Nodes : Start(n, x, Methods)
  \/ \E n, x \in Nodes : Continue(n, x)
  \/ \E n \in Nodes : Return(n)
  \/ \E n, m \in Nodes : OnMsgRequest(n, m)
  \/ \E n, m \in Nodes : OnMethodsRequest(n, m)
  \/ \E n, m \in Nodes : OnMsgResponse(n, m)
  \/ \E n, m \in Nodes : OnClose(n, m)
  \/ \E n, m \in Nodes : LinkFails(n, m)

\* The functions of the application return, and the event loop of a node serves
\* every connection that has something to read.
Fairness ==
  /\ \A n \in Nodes : WF_vars(Return(n) \/ \E x \in Nodes : Continue(n, x))
  /\ \A n \in Nodes : WF_vars(\E m \in Nodes : Handle(n, m))

Spec == Init /\ [][Next]_vars /\ Fairness

-----------------------------------------------------------------------------
\* Entries, functions and frames have their types: in particular an entry is made
\* under a real chain key, and a function knows a key and sender to go back to.
TypeOK ==
  /\ requests \in Seq([from : Nodes, parent : Ids \cup {NoRequest}, calls : Nat,
                       dropped : BOOLEAN])
  /\ Len(requests) <= MaxRequests
  /\ chains \in [Nodes -> SUBSET Entries]
  /\ keys \in [Nodes -> Nat]
  /\ running \in [Nodes -> Runs \cup {Idle}]
  /\ open \in [Nodes -> [Nodes -> BOOLEAN]]
  /\ chan \in [Nodes -> [Nodes -> Seq(Frames)]]
  /\ failures \in 0 .. MaxFailures

Waiting == {r \in 1 .. Len(requests) : requests[r].calls = 0}
Dropped == {r \in 1 .. Len(requests) : requests[r].dropped}

\* No callback is called twice, whatever is forwarded, continued or refused, and
\* although the entry of a local request stays when it is over.
CalledAtMostOnce == \A r \in 1 .. Len(requests) : requests[r].calls <= 1

\* An answer that will find an entry under its key is the answer to the request
\* the entry was made for: no callback is given the answer of another one.
AnswersMatch ==
  \A n, m \in Nodes : \A i \in 1 .. Len(chan[m][n]) : \A e \in chains[n] :
    chan[m][n][i].type = "MSG_RES" /\ chan[m][n][i].key = e.id
      => chan[m][n][i].about = e.about

\* What will bring the answer of a request: a frame on its way, a function that
\* is running, another request made on its behalf.
FramesAt(n, m, r) == {i \in 1 .. Len(chan[n][m]) : chan[n][m][i].about = r}
FramesAbout(r) == UNION {{n} \X {m} \X FramesAt(n, m, r) : n, m \in Nodes}
RunsAbout(r) == {n \in Nodes : running[n] # Idle /\ Subject(running[n]) = r}
Children(r) == {q \in Waiting : requests[q].parent = r}

\* As long as no link fails, exactly one thing will bring the answer of a request
\* that waits, and the answer of a request that is over is on its way nowhere.  The
\* exception is a request to our own module for a method that it does not have.
OneAnswerToCome ==
  failures = 0 => \A r \in 1 .. Len(requests) :
    Cardinality(FramesAbout(r)) + Cardinality(RunsAbout(r)) + Cardinality(Children(r))
      = IF r \in Waiting \ Dropped THEN 1 ELSE 0

\* When everything is over and no link has failed, no node on the way keeps an
\* entry; those that stay are of requests that were served in the same process.
ForwardsAreGone ==
  failures = 0 /\ Waiting = {} =>
    \A n \in Nodes : \A e \in chains[n] : e.type = "RESPONSE" /\ requests[e.about].from = n

\* Every request is answered, unless a link fails or a module asks itself for a
\* method that it does not have.
EveryRequestIsAnswered ==
  \A r \in Ids : r \in Waiting ~> (r \notin Waiting \/ failures > 0 \/ Dropped # {})

-----------------------------------------------------------------------------
\* "method [%s] not found" (qbus_route.c, find_method): a request for a method
\* that does not exist is answered with this error.  When no link has failed,
\* nothing runs and no frame is on its way, nobody waits for an answer.
NobodyWaitsForNothing ==
  /\ failures = 0
  /\ \A n \in Nodes : running[n] = Idle
  /\ \A n, m \in Nodes : chan[n][m] = <<>>
  => Waiting = {}

=============================================================================
