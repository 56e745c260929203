--------------------------- MODULE RoutingProofs ----------------------------
(***************************************************************************)
(* Theorems about Routing, for any nodes, links and number of link-ups: a   *)
(* node has a direct module for every connection that has a name, and when  *)
(* nothing is on its way the two ends of every link agree.                  *)
(*                                                                         *)
(* The argument looks at the two ends of one link and at what is on its way *)
(* between them.  A handshake is in exactly one of three places: the        *)
(* request is on its way, or the answer is, or the connection has its name. *)
(* A close is the last frame of a channel, and it is there exactly while    *)
(* the other end has not noticed.                                           *)
(***************************************************************************)
EXTENDS Routing, SequenceTheorems, FiniteSetTheorems, TLAPS

-----------------------------------------------------------------------------
(* Channels. *)

Has(c, type) == \E i \in 1 .. Len(c) : c[i].type = type
ReqFirst(c) == \A i \in 1 .. Len(c) : c[i].type = "ROUTE_REQ" => i = 1
OneRes(c) == \A i, j \in 1 .. Len(c) : c[i].type = "ROUTE_RES" /\ c[j].type = "ROUTE_RES" => i = j
CloseLast(c) == \A i \in 1 .. Len(c) : c[i].type = "CLOSE" => i = Len(c)
Closes(c) == c # <<>> /\ c[Len(c)].type = "CLOSE"
Channel(c) == c \in Seq(Frames) /\ ReqFirst(c) /\ OneRes(c) /\ CloseLast(c)

LEMMA EmptyChannel == Channel(<<>>) /\ \A type : ~ Has(<<>>, type)
BY DEF Channel, Has, ReqFirst, OneRes, CloseLast

LEMMA FrameTypes ==
  /\ RouteReq \in Frames /\ RouteReq.type = "ROUTE_REQ"
  /\ Close \in Frames /\ Close.type = "CLOSE"
  /\ \A list \in SUBSET Nodes : /\ RouteRes(list) \in Frames /\ RouteRes(list).type = "ROUTE_RES"
                                /\ RouteUpd(list) \in Frames /\ RouteUpd(list).type = "ROUTE_UPD"
BY DEF RouteReq, Close, RouteRes, RouteUpd, Frames

\* A connection that comes up starts with a request.
LEMMA FirstFrame ==
  /\ Channel(<<RouteReq>>)
  /\ \A type : Has(<<RouteReq>>, type) <=> type = "ROUTE_REQ"
<1> PICK f \in Frames : f = RouteReq /\ f.type = "ROUTE_REQ"
  BY FrameTypes
<1> HIDE DEF Frames
<1>1. <<f>> \in Seq(Frames) /\ Len(<<f>>) = 1 /\ <<f>>[1] = f
  OBVIOUS
<1> PICK c \in Seq(Frames) : c = <<f>> /\ Len(c) = 1 /\ c[1] = f
  BY <1>1
<1> QED
  BY DEF Channel, Has, ReqFirst, OneRes, CloseLast

LEMMA AppendChannel ==
  ASSUME NEW c, Channel(c), NEW f \in Frames, f.type # "ROUTE_REQ",
         ~ Has(c, "CLOSE"), f.type = "ROUTE_RES" => ~ Has(c, "ROUTE_RES")
  PROVE  /\ Channel(Append(c, f))
         /\ \A type : Has(Append(c, f), type) <=> Has(c, type) \/ f.type = type
         /\ f.type = "CLOSE" => Closes(Append(c, f))
<1>0. c \in Seq(Frames) /\ Len(c) \in Nat
  BY LenProperties DEF Channel
<1> PICK d : d = Append(c, f)
  OBVIOUS
<1>1. /\ d \in Seq(Frames) /\ Len(d) = Len(c) + 1 /\ d[Len(c) + 1] = f
      /\ \A i \in 1 .. Len(c) : d[i] = c[i]
  BY <1>0, AppendProperties
<1>2. \A i \in 1 .. Len(d) : i = Len(c) + 1 \/ i \in 1 .. Len(c)
  BY <1>0, <1>1
<1>3. ASSUME NEW type PROVE Has(d, type) <=> Has(c, type) \/ f.type = type
  BY <1>0, <1>1, <1>2 DEF Has
<1>4. ReqFirst(d)
  BY <1>1, <1>2 DEF ReqFirst, Channel
<1>5. OneRes(d)
  BY <1>1, <1>2 DEF OneRes, Channel, Has
<1>6. CloseLast(d)
  BY <1>1, <1>2 DEF CloseLast, Channel, Has
<1>7. f.type = "CLOSE" => Closes(d)
  BY <1>0, <1>1 DEF Closes
<1> QED
  BY <1>1, <1>3, <1>4, <1>5, <1>6, <1>7 DEF Channel

LEMMA TailChannel ==
  ASSUME NEW c, Channel(c), c # <<>>
  PROVE  /\ Channel(Tail(c)) /\ Head(c) \in Frames
         /\ \A type : Has(c, type) <=> Head(c).type = type \/ Has(Tail(c), type)
         /\ ~ Has(Tail(c), "ROUTE_REQ")
         /\ Head(c).type = "ROUTE_RES" => ~ Has(Tail(c), "ROUTE_RES")
         /\ Closes(c) /\ Head(c).type # "CLOSE" => Closes(Tail(c))
<1>0. c \in Seq(Frames) /\ Len(c) \in Nat /\ Len(c) > 0
  BY LenProperties, EmptySeq DEF Channel
<1> PICK h : h = Head(c)
  OBVIOUS
<1> PICK d : d = Tail(c)
  OBVIOUS
<1>1. /\ d \in Seq(Frames) /\ h \in Frames /\ h = c[1] /\ Len(d) = Len(c) - 1
      /\ \A i \in 1 .. Len(d) : d[i] = c[i + 1] /\ i + 1 \in 1 .. Len(c)
  BY <1>0, HeadTailProperties
<1>2. \A i \in 1 .. Len(c) : i = 1 \/ (i - 1 \in 1 .. Len(d) /\ d[i - 1] = c[i])
  BY <1>0, <1>1
<1>3. ASSUME NEW type PROVE Has(c, type) <=> h.type = type \/ Has(d, type)
  BY <1>0, <1>1, <1>2 DEF Has
<1>4. ~ Has(d, "ROUTE_REQ")
  BY <1>0, <1>1 DEF Has, ReqFirst, Channel
<1>5. ReqFirst(d)
  BY <1>4 DEF ReqFirst, Has
<1>6. OneRes(d)
  BY <1>1 DEF OneRes, Channel
<1>7. CloseLast(d)
  <2> SUFFICES ASSUME NEW i \in 1 .. Len(d), d[i].type = "CLOSE" PROVE i = Len(d)
    BY DEF CloseLast
  <2>1. i + 1 \in 1 .. Len(c) /\ c[i + 1].type = "CLOSE"
    BY <1>1
  <2>2. i + 1 = Len(c)
    BY <2>1 DEF CloseLast, Channel
  <2>3. i \in Int /\ Len(d) = Len(c) - 1
    BY <1>1
  <2> QED
    BY <1>0, <2>2, <2>3
<1>8. h.type = "ROUTE_RES" => ~ Has(d, "ROUTE_RES")
  BY <1>0, <1>1 DEF OneRes, Channel, Has
<1>9. Closes(c) /\ h.type # "CLOSE" => Closes(d)
  <2> SUFFICES ASSUME Closes(c), h.type # "CLOSE" PROVE Closes(d)
    OBVIOUS
  <2>1. Len(c) # 1
    BY <1>1 DEF Closes
  <2>2. Len(d) \in 1 .. Len(d)
    BY <1>0, <1>1, <2>1
  <2>3. d[Len(d)] = c[Len(c)]
    BY <1>0, <1>1, <2>2
  <2>4. Len(d) # 0 /\ d \in Seq(Frames)
    BY <1>1, <2>2, LenProperties
  <2>5. d # <<>>
    BY <2>4, EmptySeq
  <2> QED
    BY <2>3, <2>5 DEF Closes
<1> QED
  BY <1>1, <1>3, <1>4, <1>5, <1>6, <1>7, <1>8, <1>9 DEF Channel

-----------------------------------------------------------------------------
(* The two ends of one link.  o, p: this end and the other are open; a: this
   end knows the name of the other; c, d: what is on its way to the other end
   and from it. *)
OneEnd(o, p, a, c, d) ==
  /\ o \in BOOLEAN /\ a \in BOOLEAN /\ Channel(c)
  /\ ~ p => c = <<>>
  /\ o => ~ Has(c, "CLOSE")
  /\ p /\ ~ o => Closes(c)
  /\ a => o /\ ~ Has(c, "ROUTE_REQ") /\ ~ Has(d, "ROUTE_RES")
  /\ ~ (Has(c, "ROUTE_REQ") /\ Has(d, "ROUTE_RES"))
  /\ o /\ p => a \/ Has(c, "ROUTE_REQ") \/ Has(d, "ROUTE_RES")

BothEnds(o, p, a, b, c, d) == OneEnd(o, p, a, c, d) /\ OneEnd(p, o, b, d, c)

LEMMA EndsStart == BothEnds(FALSE, FALSE, FALSE, FALSE, <<>>, <<>>)
BY EmptyChannel DEF BothEnds, OneEnd

LEMMA EndsUp ==
  ASSUME NEW a, NEW b, NEW c, NEW d, BothEnds(FALSE, FALSE, a, b, c, d)
  PROVE  BothEnds(TRUE, TRUE, a, b, <<RouteReq>>, <<RouteReq>>)
<1>1. a = FALSE /\ b = FALSE
  BY DEF BothEnds, OneEnd
<1>2. <<RouteReq>> # <<>>
  OBVIOUS
<1> QED
  BY <1>1, <1>2, FirstFrame DEF BothEnds, OneEnd

\* A request was taken in and answered, if the other end is still there.
LEMMA EndsRequest ==
  ASSUME NEW o, NEW p, NEW a, NEW b, NEW c, NEW d, BothEnds(o, p, a, b, c, d),
         d # <<>>, Head(d).type = "ROUTE_REQ", NEW list \in SUBSET Nodes
  PROVE  BothEnds(o, p, a, b, IF p THEN Append(c, RouteRes(list)) ELSE c, Tail(d))
<1> PICK f \in Frames : f = RouteRes(list) /\ f.type = "ROUTE_RES"
  BY FrameTypes
<1>1. o /\ ~ b /\ ~ Has(c, "ROUTE_RES") /\ ~ Has(c, "CLOSE") /\ Channel(c) /\ Channel(d)
  BY TailChannel DEF BothEnds, OneEnd
<1>2. /\ Channel(Append(c, f))
      /\ \A type : Has(Append(c, f), type) <=> Has(c, type) \/ f.type = type
  BY <1>1, AppendChannel
<1>3. /\ Channel(Tail(d)) /\ ~ Has(Tail(d), "ROUTE_REQ")
      /\ \A type : Has(d, type) <=> "ROUTE_REQ" = type \/ Has(Tail(d), type)
      /\ Closes(d) => Closes(Tail(d))
  BY <1>1, TailChannel
<1> PICK e : e = Append(c, f)
  OBVIOUS
<1> PICK r : r = Tail(d)
  OBVIOUS
<1>4. CASE p
  <2>1. OneEnd(o, p, a, e, r)
    BY <1>1, <1>2, <1>3, <1>4 DEF BothEnds, OneEnd
  <2>2. OneEnd(p, o, b, r, e)
    BY <1>1, <1>2, <1>3, <1>4 DEF BothEnds, OneEnd
  <2> QED
    BY <1>4, <2>1, <2>2 DEF BothEnds
<1>5. CASE ~ p
  <2>1. OneEnd(o, p, a, c, r)
    BY <1>1, <1>3, <1>5 DEF BothEnds, OneEnd
  <2>2. OneEnd(p, o, b, r, c)
    BY <1>1, <1>3, <1>5 DEF BothEnds, OneEnd
  <2> QED
    BY <1>5, <2>1, <2>2 DEF BothEnds
<1> QED
  BY <1>4, <1>5

\* The answer was taken in: the connection has its name, for the first time.
LEMMA EndsResponse ==
  ASSUME NEW o, NEW p, NEW a, NEW b, NEW c, NEW d, BothEnds(o, p, a, b, c, d),
         d # <<>>, Head(d).type = "ROUTE_RES"
  PROVE  BothEnds(o, p, TRUE, b, c, Tail(d)) /\ o /\ ~ a
<1>1. o /\ ~ a /\ ~ Has(c, "ROUTE_REQ") /\ Channel(c) /\ Channel(d)
  BY TailChannel DEF BothEnds, OneEnd
<1>2. /\ Channel(Tail(d)) /\ ~ Has(Tail(d), "ROUTE_REQ") /\ ~ Has(Tail(d), "ROUTE_RES")
      /\ \A type : Has(d, type) <=> "ROUTE_RES" = type \/ Has(Tail(d), type)
      /\ Closes(d) => Closes(Tail(d))
  BY <1>1, TailChannel
<1> PICK r : r = Tail(d)
  OBVIOUS
<1>3. OneEnd(o, p, TRUE, c, r)
  BY <1>1, <1>2 DEF BothEnds, OneEnd
<1>4. OneEnd(p, o, b, r, c)
  BY <1>1, <1>2 DEF BothEnds, OneEnd
<1> QED
  BY <1>1, <1>3, <1>4 DEF BothEnds

LEMMA EndsUpdate ==
  ASSUME NEW o, NEW p, NEW a, NEW b, NEW c, NEW d, BothEnds(o, p, a, b, c, d),
         d # <<>>, Head(d).type = "ROUTE_UPD"
  PROVE  BothEnds(o, p, a, b, c, Tail(d)) /\ o
<1>1. o /\ Channel(c) /\ Channel(d)
  BY DEF BothEnds, OneEnd
<1>2. /\ Channel(Tail(d)) /\ ~ Has(Tail(d), "ROUTE_REQ")
      /\ \A type : Has(d, type) <=> "ROUTE_UPD" = type \/ Has(Tail(d), type)
      /\ Closes(d) => Closes(Tail(d))
  BY <1>1, TailChannel
<1> PICK r : r = Tail(d)
  OBVIOUS
<1>3. OneEnd(o, p, a, c, r)
  BY <1>1, <1>2 DEF BothEnds, OneEnd
<1>4. OneEnd(p, o, b, r, c)
  BY <1>1, <1>2 DEF BothEnds, OneEnd
<1> QED
  BY <1>1, <1>3, <1>4 DEF BothEnds

\* This end is gone: what it has not read is lost, and the other end, if it is
\* still there, will read the close last.
LEMMA EndsRm ==
  ASSUME NEW o, NEW p, NEW a, NEW b, NEW c, NEW d, BothEnds(o, p, a, b, c, d), o
  PROVE  BothEnds(FALSE, p, FALSE, b, IF p THEN Append(c, Close) ELSE c, <<>>)
<1> PICK f \in Frames : f = Close /\ f.type = "CLOSE"
  BY FrameTypes
<1>1. ~ Has(c, "CLOSE") /\ Channel(c)
  BY DEF BothEnds, OneEnd
<1>2. /\ Channel(Append(c, f)) /\ Closes(Append(c, f))
      /\ \A type : Has(Append(c, f), type) <=> Has(c, type) \/ f.type = type
  BY <1>1, AppendChannel
<1> PICK e : e = Append(c, f)
  OBVIOUS
<1> PICK r : r = <<>> /\ Channel(r) /\ \A type : ~ Has(r, type)
  BY EmptyChannel
<1>3. CASE p
  <2>1. OneEnd(FALSE, p, FALSE, e, r)
    BY <1>1, <1>2, <1>3 DEF BothEnds, OneEnd
  <2>2. OneEnd(p, FALSE, b, r, e)
    BY <1>1, <1>2, <1>3 DEF BothEnds, OneEnd
  <2> QED
    BY <1>3, <2>1, <2>2 DEF BothEnds
<1>4. CASE ~ p
  <2>1. OneEnd(FALSE, p, FALSE, c, r)
    BY <1>1, <1>4 DEF BothEnds, OneEnd
  <2>2. OneEnd(p, FALSE, b, r, c)
    BY <1>1, <1>4 DEF BothEnds, OneEnd
  <2> QED
    BY <1>4, <2>1, <2>2 DEF BothEnds
<1> QED
  BY <1>3, <1>4

\* An update left for a neighbour that is known.
LEMMA EndsAnnounce ==
  ASSUME NEW o, NEW p, NEW a, NEW b, NEW c, NEW d, BothEnds(o, p, a, b, c, d), o, p,
         NEW list \in SUBSET Nodes
  PROVE  BothEnds(o, p, a, b, Append(c, RouteUpd(list)), d)
<1> PICK f \in Frames : f = RouteUpd(list) /\ f.type = "ROUTE_UPD"
  BY FrameTypes
<1>1. ~ Has(c, "CLOSE") /\ Channel(c)
  BY DEF BothEnds, OneEnd
<1>2. /\ Channel(Append(c, f))
      /\ \A type : Has(Append(c, f), type) <=> Has(c, type) \/ f.type = type
  BY <1>1, AppendChannel
<1> PICK e : e = Append(c, f)
  OBVIOUS
<1>3. OneEnd(o, p, a, e, d)
  BY <1>1, <1>2 DEF BothEnds, OneEnd
<1>4. OneEnd(p, o, b, d, e)
  BY <1>1, <1>2 DEF BothEnds, OneEnd
<1> QED
  BY <1>3, <1>4 DEF BothEnds

-----------------------------------------------------------------------------
(* The table of one node.  N: the connections that have a name.  There is one
   process per name, so a pool has its only member in slot 1 or is new. *)
One(m) == [conn  |-> [s \in Slots |-> IF s = 1 THEN m ELSE NoNode],
           rr    |-> [s \in Slots |-> 0],
           round |-> 0,
           size  |-> 1]

TableOf(t, N) ==
  /\ t \in Table /\ t.keys = N
  /\ \A m \in Nodes : t.direct[m] = IF m \in N THEN One(m) ELSE NewContext
  /\ \A x \in Nodes : t.nodes[x] # NoNode => t.nodes[x] \in N

LEMMA ContextTypes ==
  /\ NewContext \in Context /\ \A m \in Nodes : One(m) \in Context
  /\ Slots = {0, 1}
BY DEF NewContext, One, Context, Slots, NoUuid

LEMMA FirstMember == ASSUME NEW m \in Nodes PROVE ContextAdd(NewContext, 1, m) = One(m)
<1>1. Slots = {0, 1} /\ Pooled(NewContext) = {}
  BY ContextTypes DEF Pooled, Members, NewContext
<1>2. NewContext.conn[1] = NoNode /\ 1 # NoUuid
  BY <1>1 DEF NewContext, NoUuid
<1>3. [NewContext.conn EXCEPT ![1] = m] = [s \in Slots |-> IF s = 1 THEN m ELSE NoNode]
  BY DEF NewContext
<1>4. [NewContext.rr EXCEPT ![1] = NewContext.round] = [s \in Slots |-> 0]
  BY DEF NewContext
<1>5. NewContext.round = 0
  BY DEF NewContext
<1> QED
  BY <1>1, <1>2, <1>3, <1>4, <1>5 DEF ContextAdd, One

LEMMA LastMember ==
  ASSUME NEW m \in Nodes
  PROVE  One(m).conn[1] = m /\ ContextIsEmpty(ContextRm(One(m), 1))
<1>1. Slots = {0, 1} /\ m # NoNode
  BY ContextTypes, NoNodeAssumption
<1>2. One(m).conn[1] = m /\ One(m).conn[0] = NoNode /\ One(m).size = 1
  BY <1>1 DEF One
<1>3. 1 \in Pooled(One(m))
  BY <1>1, <1>2 DEF Pooled, Members, NoUuid
<1>4. ContextRm(One(m), 1).size = 0
  BY <1>2, <1>3 DEF ContextRm
<1>5. ContextRm(One(m), 1).conn[0] = NoNode
  BY <1>1, <1>2 DEF ContextRm, One
<1> QED
  BY <1>2, <1>4, <1>5 DEF ContextIsEmpty, NoUuid

LEMMA TableNew == TableOf(NewTable, {})
BY ContextTypes DEF TableOf, NewTable, Table

LEMMA TableAdd ==
  ASSUME NEW t, NEW N, TableOf(t, N), NEW m \in Nodes, m \notin N, NEW list \in SUBSET Nodes
  PROVE  TableOf(ItemsAdd(t, m, Peer(m), list), N \cup {m})
<1> PICK u : u = ItemsAdd(t, m, Peer(m), list)
  OBVIOUS
<1>1. t \in Table /\ t.keys = N /\ t.direct[m] = NewContext
  BY DEF TableOf
<1>2. /\ u.keys = N \cup {m} /\ u.direct = [t.direct EXCEPT ![m] = One(m)]
      /\ u.nodes = NodesAdd(t.nodes, m, list)
  BY <1>1, FirstMember DEF ItemsAdd, Peer
<1>3. u.nodes \in [Nodes -> Nodes \cup {NoNode}]
  BY <1>1, <1>2 DEF NodesAdd, Table
<1>4. u = [keys |-> u.keys, direct |-> u.direct, nodes |-> u.nodes]
  BY DEF ItemsAdd
<1>5. u.direct \in [Nodes -> Context]
  BY <1>1, <1>2, ContextTypes DEF Table
<1>6. u.keys \in SUBSET Nodes
  BY <1>1, <1>2 DEF Table
<1>7. u \in Table
  BY <1>3, <1>4, <1>5, <1>6 DEF Table
<1>8. ASSUME NEW x \in Nodes, u.nodes[x] # NoNode PROVE u.nodes[x] \in N \cup {m}
  BY <1>2, <1>8 DEF NodesAdd, TableOf
<1>9. ASSUME NEW x \in Nodes PROVE u.direct[x] = IF x \in N \cup {m} THEN One(x) ELSE NewContext
  BY <1>1, <1>2 DEF TableOf, Table
<1> QED
  BY <1>2, <1>7, <1>8, <1>9 DEF TableOf

LEMMA TableUpdate ==
  ASSUME NEW t, NEW N, TableOf(t, N), NEW m \in N, NEW list \in SUBSET Nodes
  PROVE  TableOf(ItemsUpdate(t, m, list), N)
<1> PICK u : u = ItemsUpdate(t, m, list)
  OBVIOUS
<1>1. t \in Table /\ t.keys = N /\ m \in Nodes
  BY DEF TableOf, Table
<1>2. u = [keys |-> t.keys, direct |-> t.direct, nodes |-> NodesAdd(NodesRemoveAll(t.nodes, m), m, list)]
  BY DEF ItemsUpdate
<1>3. u.nodes \in [Nodes -> Nodes \cup {NoNode}]
  BY <1>1, <1>2 DEF NodesAdd, NodesRemoveAll, Table
<1>4. u \in Table
  BY <1>1, <1>2, <1>3 DEF Table
<1>5. ASSUME NEW x \in Nodes, u.nodes[x] # NoNode PROVE u.nodes[x] \in N
  BY <1>2, <1>5 DEF NodesAdd, NodesRemoveAll, TableOf
<1> QED
  BY <1>1, <1>2, <1>4, <1>5 DEF TableOf

\* The connection that goes is the only member of its pool and is found there:
\* its module and all that was reachable through it leave the table.
LEMMA TableRm ==
  ASSUME NEW t, NEW N, TableOf(t, N), NEW m \in N
  PROVE  TableOf(ItemsRm(t, Peer(m)), N \ {m})
<1> PICK u : u = ItemsRm(t, Peer(m))
  OBVIOUS
<1>1. t \in Table /\ t.keys = N /\ m \in Nodes /\ t.direct[m] = One(m) /\ m # NoNode
  BY NoNodeAssumption DEF TableOf, Table
<1>2. u = [keys |-> N \ {m}, direct |-> [t.direct EXCEPT ![m] = NewContext],
           nodes |-> NodesRemoveAll(t.nodes, m)]
  BY <1>1, LastMember DEF ItemsRm, Peer
<1>3. u.nodes \in [Nodes -> Nodes \cup {NoNode}]
  BY <1>1, <1>2 DEF NodesRemoveAll, Table
<1>4. u.direct \in [Nodes -> Context] /\ u.keys \in SUBSET Nodes
  BY <1>1, <1>2, ContextTypes DEF Table
<1>5. u \in Table
  BY <1>2, <1>3, <1>4 DEF Table
<1>6. ASSUME NEW x \in Nodes, u.nodes[x] # NoNode PROVE u.nodes[x] \in N \ {m}
  BY <1>1, <1>2, <1>6 DEF NodesRemoveAll, TableOf, Table
<1>7. ASSUME NEW x \in Nodes PROVE u.direct[x] = IF x \in N \ {m} THEN One(x) ELSE NewContext
  BY <1>1, <1>2 DEF TableOf, Table
<1> QED
  BY <1>2, <1>5, <1>6, <1>7 DEF TableOf

\* An update goes to the connections that have a name, with a list of modules.
LEMMA TableConns ==
  ASSUME NEW t, NEW N, TableOf(t, N)
  PROVE  DirectConns(t) = N /\ ItemsNodes(t) \in SUBSET Nodes
<1>1. t \in Table /\ t.keys = N /\ N \subseteq Nodes
  BY DEF TableOf, Table
<1>2. ASSUME NEW m \in N PROVE t.direct[m].conn[1] = m /\ t.direct[m].conn[0] = NoNode /\ m # NoNode
  <2>1. t.direct[m] = One(m) /\ m \in Nodes /\ 0 \in Slots /\ 1 \in Slots
    BY <1>1, ContextTypes DEF TableOf
  <2>2. One(m).conn[1] = m /\ One(m).conn[0] = NoNode
    BY <2>1 DEF One
  <2> QED
    BY <2>1, <2>2, NoNodeAssumption
<1>3. DirectConns(t) = N
  BY <1>1, <1>2, ContextTypes DEF DirectConns
<1>4. ItemsNodes(t) \in SUBSET Nodes
  BY <1>1 DEF ItemsNodes
<1> QED
  BY <1>3, <1>4

-----------------------------------------------------------------------------
(* The inductive invariant: the two ends of every link with what is on its
   way between them, and the table of every node with its named connections. *)
Types ==
  /\ open \in [Nodes -> [Nodes -> BOOLEAN]]
  /\ named \in [Nodes -> [Nodes -> BOOLEAN]]
  /\ chan \in [Nodes -> [Nodes -> Seq(Frames)]]
  /\ linkUps \in 0 .. MaxLinkUps

Named(n) == {m \in Nodes : named[n][m]}
LinkState(n, m) ==
  BothEnds(open[n][m], open[m][n], named[n][m], named[m][n], chan[n][m], chan[m][n])
TableState(n) == TableOf(table[n], Named(n))

IInv ==
  /\ Types /\ table \in [Nodes -> Table]
  /\ \A n \in Nodes : ~ open[n][n] /\ TableState(n)
  /\ \A n, m \in Nodes : LinkState(n, m)

LEMMA InitInv == Init => IInv
<1> SUFFICES ASSUME Init PROVE IInv
  OBVIOUS
<1>1. Types
  <2>1. linkUps \in 0 .. MaxLinkUps
    BY MaxLinkUpsAssumption DEF Init
  <2>2. chan \in [Nodes -> [Nodes -> Seq(Frames)]]
    BY EmptySeq DEF Init
  <2> QED
    BY <2>1, <2>2 DEF Init, Types
<1>2. \A n, m \in Nodes : LinkState(n, m)
  BY EndsStart DEF Init, LinkState
<1>3. ASSUME NEW n \in Nodes PROVE TableState(n) /\ ~ open[n][n] /\ table[n] \in Table
  <2>1. table[n] = NewTable /\ Named(n) = {} /\ ~ open[n][n]
    BY DEF Init, Named
  <2> QED
    BY <2>1, TableNew DEF TableState, TableOf
<1>4. table \in [Nodes -> Table]
  BY <1>3 DEF Init
<1> QED
  BY <1>1, <1>2, <1>3, <1>4 DEF IInv

\* A step of n about its link to m: what it does to the other links of n is at
\* most to leave an update for neighbours that are known.
Elsewhere(n, m, list) ==
  /\ \A x, y \in Nodes : {x, y} # {n, m} => open'[x][y] = open[x][y] /\ named'[x][y] = named[x][y]
  /\ \A x, y \in Nodes : x # n /\ {x, y} # {n, m} => chan'[x][y] = chan[x][y]
  /\ \A k \in Nodes \ {m} :
       \/ chan'[n][k] = chan[n][k]
       \/ named[n][k] /\ open[k][n] /\ chan'[n][k] = Append(chan[n][k], RouteUpd(list))

LEMMA EndsAreTwo ==
  ASSUME NEW n \in Nodes, NEW m \in Nodes PROVE LinkState(n, m) <=> LinkState(m, n)
BY DEF LinkState, BothEnds

LEMMA OtherLinks ==
  ASSUME IInv, NEW n \in Nodes, NEW m \in Nodes, n # m, NEW list \in SUBSET Nodes,
         Elsewhere(n, m, list), LinkState(n, m)'
  PROVE  \A x, y \in Nodes : LinkState(x, y)'
<1>1. ASSUME NEW k \in Nodes \ {m} PROVE LinkState(n, k)'
  <2>1. /\ open'[n][k] = open[n][k] /\ open'[k][n] = open[k][n]
        /\ named'[n][k] = named[n][k] /\ named'[k][n] = named[k][n]
        /\ k # n => chan'[k][n] = chan[k][n]
    <3>1. {n, k} # {n, m} /\ {k, n} # {n, m}
      OBVIOUS
    <3> QED
      BY <3>1 DEF Elsewhere
  <2>2. LinkState(n, k) /\ (k = n => ~ named[n][k]) /\ (named[n][k] => open[n][k])
    <3>1. LinkState(n, k) /\ (k = n => ~ open[n][k])
      BY DEF IInv
    <3>2. named[n][k] => open[n][k]
      BY <3>1 DEF LinkState, BothEnds, OneEnd
    <3> QED
      BY <3>1, <3>2
  <2>3. CASE chan'[n][k] = chan[n][k]
    BY <2>1, <2>2, <2>3 DEF LinkState
  <2>4. CASE named[n][k] /\ open[k][n] /\ chan'[n][k] = Append(chan[n][k], RouteUpd(list))
    <3>1. k # n /\ open[n][k] /\ open[k][n]
      BY <2>2, <2>4
    <3>2. BothEnds(open[n][k], open[k][n], named[n][k], named[k][n],
                   Append(chan[n][k], RouteUpd(list)), chan[k][n])
      BY <2>2, <3>1, EndsAnnounce DEF LinkState
    <3> QED
      BY <2>1, <2>4, <3>1, <3>2 DEF LinkState
  <2> QED
    BY <2>3, <2>4 DEF Elsewhere
<1>2. ASSUME NEW x \in Nodes, NEW y \in Nodes, x # n, y # n PROVE LinkState(x, y)'
  <2>1. /\ open'[x][y] = open[x][y] /\ open'[y][x] = open[y][x]
        /\ named'[x][y] = named[x][y] /\ named'[y][x] = named[y][x]
        /\ chan'[x][y] = chan[x][y] /\ chan'[y][x] = chan[y][x]
    <3>1. {x, y} # {n, m} /\ {y, x} # {n, m}
      BY <1>2
    <3> QED
      BY <1>2, <3>1 DEF Elsewhere
  <2> QED
    BY <2>1 DEF IInv, LinkState
<1>3. ASSUME NEW k \in Nodes PROVE LinkState(n, k)' /\ LinkState(k, n)'
  <2>1. LinkState(n, k)'
    BY <1>1
  <2> QED
    BY <2>1 DEF LinkState, BothEnds
<1> QED
  BY <1>2, <1>3

\* What a frame that is on its way to n says of the link.
LEMMA OnItsWay ==
  ASSUME IInv, NEW n \in Nodes, NEW m \in Nodes, chan[m][n] # <<>>
  PROVE  /\ n # m /\ open[n][m] /\ Head(chan[m][n]) \in Frames
         /\ Head(chan[m][n]).nodes \in SUBSET Nodes
<1>1. OneEnd(open[m][n], open[n][m], named[m][n], chan[m][n], chan[n][m]) /\ open[n][m] \in BOOLEAN
  BY DEF IInv, LinkState, BothEnds, OneEnd
<1>2. open[n][m] /\ Channel(chan[m][n])
  BY <1>1 DEF OneEnd
<1>3. n # m
  BY <1>2 DEF IInv
<1>4. Head(chan[m][n]) \in Frames
  BY <1>2, TailChannel
<1> QED
  BY <1>2, <1>3, <1>4 DEF Frames

\* The channels after a step of n about its link to m that tells the others.
OthersTold(new, out, n, t, m, N) ==
  /\ new \in [Nodes -> Seq(Frames)] /\ new[m] = out[m]
  /\ \A k \in Nodes \ {m} :
       new[k] = IF k \in N /\ open[k][n] THEN Append(out[k], RouteUpd(ItemsNodes(t))) ELSE out[k]

LEMMA UpdatedChannels ==
  ASSUME NEW n \in Nodes, NEW m \in Nodes,
         NEW out \in [Nodes -> Seq(Frames)], NEW t, NEW N \in SUBSET Nodes, TableOf(t, N)
  PROVE  OthersTold(Updated(out, n, t, m), out, n, t, m, N)
<1>1. DirectConns(t) = N /\ RouteUpd(ItemsNodes(t)) \in Frames
  BY TableConns, FrameTypes
<1> PICK f \in Frames : f = RouteUpd(ItemsNodes(t))
  BY <1>1
<1>2. Updated(out, n, t, m) = [k \in Nodes |-> IF k \in N \ {m} /\ open[k][n] THEN Append(out[k], f) ELSE out[k]]
  BY <1>1 DEF Updated, ItemsConns
<1>3. \A k \in Nodes : Append(out[k], f) \in Seq(Frames)
  BY AppendProperties
<1> QED
  BY <1>2, <1>3 DEF OthersTold

LEMMA LinkUpInv == ASSUME IInv, NEW n \in Nodes, NEW m \in Nodes, LinkUp(n, m) PROVE IInv'
<1>1. {n, m} \subseteq Nodes /\ Cardinality({n, m}) = 2 /\ n # m
  <2>1. Cardinality({n, m}) = 2
    BY LinksAssumption DEF LinkUp
  <2>2. n # m
    BY <2>1, FS_Singleton
  <2> QED
    BY <2>1, <2>2
<1>2. /\ open' = [open EXCEPT ![n][m] = TRUE, ![m][n] = TRUE] /\ named' = named /\ table' = table
      /\ chan' = [chan EXCEPT ![n][m] = <<RouteReq>>, ![m][n] = <<RouteReq>>]
      /\ linkUps' = linkUps + 1 /\ linkUps < MaxLinkUps /\ ~ open[n][m] /\ ~ open[m][n]
  BY DEF LinkUp
<1>3. Types /\ table \in [Nodes -> Table]
  BY DEF IInv
<1>4. Types'
  <2>1. <<RouteReq>> \in Seq(Frames)
    BY FirstFrame DEF Channel
  <2>2. linkUps' \in 0 .. MaxLinkUps
    BY <1>2, <1>3, MaxLinkUpsAssumption DEF Types
  <2>3. chan' \in [Nodes -> [Nodes -> Seq(Frames)]]
    BY <1>2, <1>3, <2>1 DEF Types
  <2> QED
    BY <1>2, <1>3, <2>2, <2>3 DEF Types
<1>5. LinkState(n, m)'
  <2>1. open'[n][m] = TRUE /\ open'[m][n] = TRUE /\ chan'[n][m] = <<RouteReq>> /\ chan'[m][n] = <<RouteReq>>
    BY <1>1, <1>2, <1>3 DEF Types
  <2>2. BothEnds(FALSE, FALSE, named[n][m], named[m][n], chan[n][m], chan[m][n])
    <3>1. open[n][m] = FALSE /\ open[m][n] = FALSE
      BY <1>2, <1>3 DEF Types
    <3> QED
      BY <3>1 DEF IInv, LinkState
  <2>3. BothEnds(TRUE, TRUE, named[n][m], named[m][n], <<RouteReq>>, <<RouteReq>>)
    BY <2>2, EndsUp
  <2> QED
    BY <1>2, <2>1, <2>3 DEF LinkState
<1>6. Elsewhere(n, m, {})
  BY <1>1, <1>2, <1>3 DEF Elsewhere, Types
<1>7. \A x, y \in Nodes : LinkState(x, y)'
  BY <1>1, <1>5, <1>6, OtherLinks
<1>8. ASSUME NEW k \in Nodes PROVE ~ open'[k][k] /\ TableState(k)'
  BY <1>1, <1>2, <1>3 DEF IInv, TableState, Named, Types
<1> QED
  BY <1>2, <1>3, <1>4, <1>7, <1>8 DEF IInv

LEMMA RequestInv == ASSUME IInv, NEW n \in Nodes, NEW m \in Nodes, OnRouteRequest(n, m) PROVE IInv'
<1> PICK list : list = ItemsNodes(table[n])
  OBVIOUS
<1>1. chan[m][n] # <<>> /\ Head(chan[m][n]).type = "ROUTE_REQ" /\ UNCHANGED <<table, open, named, linkUps>>
  BY DEF OnRouteRequest, Received
<1>2. n # m /\ Types
  BY <1>1, OnItsWay DEF IInv
<1>3. list \in SUBSET Nodes /\ RouteRes(list) \in Frames
  BY TableConns, FrameTypes DEF IInv, TableState
<1>4. /\ chan'[m][n] = Tail(chan[m][n])
      /\ chan'[n][m] = IF open[m][n] THEN Append(chan[n][m], RouteRes(list)) ELSE chan[n][m]
      /\ \A x, y \in Nodes : <<x, y>> # <<n, m>> /\ <<x, y>> # <<m, n>> => chan'[x][y] = chan[x][y]
  BY <1>2 DEF OnRouteRequest, WithoutHead, Sent, Types
<1>5. LinkState(n, m)'
  <2>1. BothEnds(open[n][m], open[m][n], named[n][m], named[m][n],
                 IF open[m][n] THEN Append(chan[n][m], RouteRes(list)) ELSE chan[n][m], Tail(chan[m][n]))
    BY <1>1, <1>3, EndsRequest DEF IInv, LinkState
  <2> QED
    BY <1>1, <1>4, <2>1 DEF LinkState
<1>6. Elsewhere(n, m, {})
  BY <1>1, <1>2, <1>4 DEF Elsewhere
<1>7. \A x, y \in Nodes : LinkState(x, y)'
  BY <1>2, <1>5, <1>6, OtherLinks
<1>8. Types'
  <2>1. Tail(chan[m][n]) \in Seq(Frames)
    BY <1>1, <1>2, HeadTailProperties DEF Types
  <2>2. Append(chan[n][m], RouteRes(list)) \in Seq(Frames)
    BY <1>2, <1>3, AppendProperties DEF Types
  <2>3. chan' \in [Nodes -> [Nodes -> Seq(Frames)]]
    BY <1>2, <2>1, <2>2 DEF Types, OnRouteRequest, WithoutHead, Sent
  <2> QED
    BY <1>1, <1>2, <2>3 DEF Types
<1> QED
  BY <1>1, <1>7, <1>8 DEF IInv, TableState, Named

LEMMA ResponseInv == ASSUME IInv, NEW n \in Nodes, NEW m \in Nodes, OnRouteResponse(n, m) PROVE IInv'
<1> PICK list : list = Head(chan[m][n]).nodes
  OBVIOUS
<1> PICK t : t = ItemsAdd(table[n], m, Peer(m), list)
  OBVIOUS
<1> PICK N : N = Named(n) \cup {m}
  OBVIOUS
<1> PICK out : out = chan[n]
  OBVIOUS
<1>1. /\ chan[m][n] # <<>> /\ Head(chan[m][n]).type = "ROUTE_RES" /\ UNCHANGED <<open, linkUps>>
      /\ named' = [named EXCEPT ![n][m] = TRUE] /\ table' = [table EXCEPT ![n] = t]
      /\ chan' = [WithoutHead(n, m) EXCEPT ![n] = Updated(@, n, t, m)]
  BY DEF OnRouteResponse, Received
<1>2. n # m /\ Types /\ table \in [Nodes -> Table] /\ list \in SUBSET Nodes
  BY <1>1, OnItsWay DEF IInv
<1>3. BothEnds(open[n][m], open[m][n], TRUE, named[m][n], chan[n][m], Tail(chan[m][n])) /\ ~ named[n][m]
  BY <1>1, EndsResponse DEF IInv, LinkState
<1>4. TableOf(t, N) /\ t \in Table /\ N \in SUBSET Nodes
  <2>1. TableOf(table[n], Named(n)) /\ m \notin Named(n)
    BY <1>3 DEF IInv, TableState, Named
  <2>2. TableOf(t, N)
    BY <1>2, <2>1, TableAdd
  <2>3. N \in SUBSET Nodes
    BY DEF Named
  <2> QED
    BY <2>2, <2>3 DEF TableOf
<1>5. out \in [Nodes -> Seq(Frames)] /\ Tail(chan[m][n]) \in Seq(Frames)
  BY <1>1, <1>2, HeadTailProperties DEF Types
<1>6. /\ chan'[n] = Updated(out, n, t, m) /\ chan'[m][n] = Tail(chan[m][n])
      /\ \A x, y \in Nodes : x # n /\ <<x, y>> # <<m, n>> => chan'[x][y] = chan[x][y]
  BY <1>1, <1>2 DEF WithoutHead, Types
<1>u. OthersTold(Updated(out, n, t, m), out, n, t, m, N)
  BY <1>4, <1>5, UpdatedChannels
<1>7. LinkState(n, m)'
  <2>1. chan'[n][m] = chan[n][m]
    BY <1>6, <1>u DEF OthersTold
  <2>2. named'[n][m] = TRUE /\ named'[m][n] = named[m][n]
    BY <1>1, <1>2 DEF Types
  <2> QED
    BY <1>1, <1>3, <1>6, <2>1, <2>2 DEF LinkState
<1>8. Elsewhere(n, m, ItemsNodes(t))
  <2>1. \A x, y \in Nodes : {x, y} # {n, m} => open'[x][y] = open[x][y] /\ named'[x][y] = named[x][y]
    BY <1>1, <1>2 DEF Types
  <2>2. \A x, y \in Nodes : x # n /\ {x, y} # {n, m} => chan'[x][y] = chan[x][y]
    BY <1>6
  <2>3. ASSUME NEW k \in Nodes \ {m}
        PROVE  \/ chan'[n][k] = chan[n][k]
               \/ named[n][k] /\ open[k][n] /\ chan'[n][k] = Append(chan[n][k], RouteUpd(ItemsNodes(t)))
    <3>1. chan'[n][k] = IF k \in N /\ open[k][n] THEN Append(out[k], RouteUpd(ItemsNodes(t))) ELSE out[k]
      BY <1>6, <1>u DEF OthersTold
    <3> QED
      BY <3>1 DEF Named
  <2> QED
    BY <2>1, <2>2, <2>3 DEF Elsewhere
<1>9. \A x, y \in Nodes : LinkState(x, y)'
  <2>1. ItemsNodes(t) \in SUBSET Nodes
    BY <1>4, TableConns
  <2> QED
    BY <1>2, <1>7, <1>8, <2>1, OtherLinks
<1>10. Types' /\ table' \in [Nodes -> Table]
  <2>1. chan'[n] \in [Nodes -> Seq(Frames)]
    BY <1>6, <1>u DEF OthersTold
  <2>2. WithoutHead(n, m) \in [Nodes -> [Nodes -> Seq(Frames)]]
    BY <1>2, <1>5 DEF WithoutHead, Types
  <2>3. chan' = [WithoutHead(n, m) EXCEPT ![n] = chan'[n]]
    BY <1>1, <1>6, <2>2
  <2> HIDE DEF Frames
  <2>4. chan' \in [Nodes -> [Nodes -> Seq(Frames)]]
    BY <2>1, <2>2, <2>3
  <2> QED
    BY <1>1, <1>2, <1>4, <2>4 DEF Types
<1>11. ASSUME NEW k \in Nodes PROVE ~ open'[k][k] /\ TableState(k)'
  <2>1. CASE k = n
    <3>1. Named(n)' = N /\ table'[n] = t
      BY <1>1, <1>2 DEF Named, Types
    <3> QED
      BY <1>1, <1>4, <2>1, <3>1 DEF TableState, IInv
  <2>2. CASE k # n
    <3>1. Named(k)' = Named(k) /\ table'[k] = table[k]
      BY <1>1, <1>2, <2>2 DEF Named, Types
    <3> QED
      BY <1>1, <3>1 DEF TableState, IInv
  <2> QED
    BY <2>1, <2>2
<1> QED
  BY <1>9, <1>10, <1>11 DEF IInv

LEMMA UpdateInv == ASSUME IInv, NEW n \in Nodes, NEW m \in Nodes, OnRouteUpdate(n, m) PROVE IInv'
<1> PICK list : list = Head(chan[m][n]).nodes
  OBVIOUS
<1> PICK t : t = IF named[n][m] THEN ItemsUpdate(table[n], m, list) ELSE table[n]
  OBVIOUS
<1>1. /\ chan[m][n] # <<>> /\ Head(chan[m][n]).type = "ROUTE_UPD" /\ UNCHANGED <<open, named, linkUps>>
      /\ table' = [table EXCEPT ![n] = t] /\ chan' = WithoutHead(n, m)
  BY DEF OnRouteUpdate, Received
<1>2. n # m /\ Types /\ table \in [Nodes -> Table] /\ list \in SUBSET Nodes
  BY <1>1, OnItsWay DEF IInv
<1>3. TableOf(t, Named(n)) /\ t \in Table
  <2>1. TableOf(table[n], Named(n)) /\ (named[n][m] => m \in Named(n))
    BY DEF IInv, TableState, Named
  <2>2. CASE named[n][m]
    <3>1. TableOf(ItemsUpdate(table[n], m, list), Named(n))
      BY <1>2, <2>1, <2>2, TableUpdate
    <3> QED
      BY <2>2, <3>1 DEF TableOf
  <2>3. CASE ~ named[n][m]
    BY <2>1, <2>3 DEF TableOf
  <2> QED
    BY <2>2, <2>3
<1>4. /\ chan'[m][n] = Tail(chan[m][n])
      /\ \A x, y \in Nodes : <<x, y>> # <<m, n>> => chan'[x][y] = chan[x][y]
  BY <1>1, <1>2 DEF WithoutHead, Types
<1>5. LinkState(n, m)'
  <2>1. BothEnds(open[n][m], open[m][n], named[n][m], named[m][n], chan[n][m], Tail(chan[m][n]))
    BY <1>1, EndsUpdate DEF IInv, LinkState
  <2>2. chan'[n][m] = chan[n][m]
    BY <1>2, <1>4
  <2> QED
    BY <1>1, <1>4, <2>1, <2>2 DEF LinkState
<1>6. Elsewhere(n, m, {})
  BY <1>1, <1>2, <1>4 DEF Elsewhere
<1>7. \A x, y \in Nodes : LinkState(x, y)'
  BY <1>2, <1>5, <1>6, OtherLinks
<1>8. Types' /\ table' \in [Nodes -> Table]
  <2>1. Tail(chan[m][n]) \in Seq(Frames)
    BY <1>1, <1>2, HeadTailProperties DEF Types
  <2>2. chan' \in [Nodes -> [Nodes -> Seq(Frames)]]
    BY <1>1, <1>2, <2>1 DEF Types, WithoutHead
  <2> QED
    BY <1>1, <1>2, <1>3, <2>2 DEF Types
<1>9. ASSUME NEW k \in Nodes PROVE ~ open'[k][k] /\ TableState(k)'
  <2>1. Named(k)' = Named(k) /\ table'[k] = IF k = n THEN t ELSE table[k]
    BY <1>1, <1>2 DEF Named
  <2> QED
    BY <1>1, <1>3, <2>1 DEF TableState, IInv
<1> QED
  BY <1>7, <1>8, <1>9 DEF IInv

LEMMA RmInv ==
  ASSUME IInv, NEW n \in Nodes, NEW m \in Nodes, n # m, open[n][m], ConnRm(n, m)
  PROVE  IInv'
<1> PICK t : t = IF named[n][m] THEN ItemsRm(table[n], Peer(m)) ELSE table[n]
  OBVIOUS
<1> PICK N : N = Named(n) \ {m}
  OBVIOUS
<1> PICK out : out = Sent(chan[n], n, m, Close)
  OBVIOUS
<1>1. /\ open' = [open EXCEPT ![n][m] = FALSE] /\ UNCHANGED linkUps
      /\ named' = [named EXCEPT ![n][m] = FALSE] /\ table' = [table EXCEPT ![n] = t]
      /\ chan' = [chan EXCEPT ![m][n] = <<>>, ![n] = Updated(Sent(@, n, m, Close), n, t, m)]
  BY DEF ConnRm
<1>2. Types /\ table \in [Nodes -> Table]
  BY DEF IInv
<1>3. TableOf(t, N) /\ t \in Table /\ N \in SUBSET Nodes
  <2>1. TableOf(table[n], Named(n))
    BY DEF IInv, TableState
  <2>2. CASE named[n][m]
    BY <2>1, <2>2, TableRm DEF TableOf, Named
  <2>3. CASE ~ named[n][m]
    <3>1. N = Named(n)
      BY <2>3 DEF Named
    <3> QED
      BY <2>1, <2>3, <3>1 DEF TableOf, Named
  <2> QED
    BY <2>2, <2>3
<1>4. /\ out \in [Nodes -> Seq(Frames)]
      /\ out[m] = IF open[m][n] THEN Append(chan[n][m], Close) ELSE chan[n][m]
      /\ \A k \in Nodes \ {m} : out[k] = chan[n][k]
  <2>1. chan[n] \in [Nodes -> Seq(Frames)] /\ Append(chan[n][m], Close) \in Seq(Frames)
    BY <1>2, FrameTypes, AppendProperties DEF Types
  <2> QED
    BY <2>1 DEF Sent
<1>u. OthersTold(Updated(out, n, t, m), out, n, t, m, N)
  BY <1>3, <1>4, UpdatedChannels
<1>5. /\ chan'[n] = Updated(out, n, t, m) /\ chan'[m][n] = <<>>
      /\ \A x, y \in Nodes : x # n /\ <<x, y>> # <<m, n>> => chan'[x][y] = chan[x][y]
  BY <1>1, <1>2 DEF Types
<1>6. LinkState(n, m)'
  <2>1. chan'[n][m] = IF open[m][n] THEN Append(chan[n][m], Close) ELSE chan[n][m]
    BY <1>4, <1>5, <1>u DEF OthersTold
  <2>2. /\ open'[n][m] = FALSE /\ open'[m][n] = open[m][n]
        /\ named'[n][m] = FALSE /\ named'[m][n] = named[m][n]
    BY <1>1, <1>2 DEF Types
  <2>3. BothEnds(FALSE, open[m][n], FALSE, named[m][n],
                 IF open[m][n] THEN Append(chan[n][m], Close) ELSE chan[n][m], <<>>)
    BY EndsRm DEF IInv, LinkState
  <2> QED
    BY <1>5, <2>1, <2>2, <2>3 DEF LinkState
<1>7. Elsewhere(n, m, ItemsNodes(t))
  <2>1. \A x, y \in Nodes : {x, y} # {n, m} => open'[x][y] = open[x][y] /\ named'[x][y] = named[x][y]
    BY <1>1, <1>2 DEF Types
  <2>2. \A x, y \in Nodes : x # n /\ {x, y} # {n, m} => chan'[x][y] = chan[x][y]
    BY <1>5
  <2>3. ASSUME NEW k \in Nodes \ {m}
        PROVE  \/ chan'[n][k] = chan[n][k]
               \/ named[n][k] /\ open[k][n] /\ chan'[n][k] = Append(chan[n][k], RouteUpd(ItemsNodes(t)))
    <3>1. chan'[n][k] = IF k \in N /\ open[k][n] THEN Append(out[k], RouteUpd(ItemsNodes(t))) ELSE out[k]
      BY <1>5, <1>u DEF OthersTold
    <3>2. out[k] = chan[n][k]
      BY <1>4
    <3>3. k \in N <=> named[n][k]
      BY DEF Named
    <3> QED
      BY <3>1, <3>2, <3>3
  <2> QED
    BY <2>1, <2>2, <2>3 DEF Elsewhere
<1>8. \A x, y \in Nodes : LinkState(x, y)'
  <2>1. ItemsNodes(t) \in SUBSET Nodes
    BY <1>3, TableConns
  <2> QED
    BY <1>6, <1>7, <2>1, OtherLinks
<1>9. Types' /\ table' \in [Nodes -> Table]
  <2>1. chan'[n] \in [Nodes -> Seq(Frames)]
    BY <1>5, <1>u DEF OthersTold
  <2>2. PICK lost \in [Nodes -> [Nodes -> Seq(Frames)]] : lost = [chan EXCEPT ![m][n] = <<>>]
    BY <1>2, EmptySeq DEF Types
  <2>3. chan' = [lost EXCEPT ![n] = chan'[n]]
    BY <1>1, <1>2, <1>5, <2>2 DEF Types
  <2>4. chan' \in [Nodes -> [Nodes -> Seq(Frames)]]
    BY <2>1, <2>3
  <2> QED
    BY <1>1, <1>2, <1>3, <2>4 DEF Types
<1>10. ASSUME NEW k \in Nodes PROVE ~ open'[k][k] /\ TableState(k)'
  <2>0. ~ open'[k][k]
    BY <1>1, <1>2 DEF IInv, Types
  <2>1. CASE k = n
    <3>1. Named(n)' = N /\ table'[n] = t
      BY <1>1, <1>2 DEF Named, Types
    <3> QED
      BY <1>3, <2>0, <2>1, <3>1 DEF TableState
  <2>2. CASE k # n
    <3>1. Named(k)' = Named(k) /\ table'[k] = table[k]
      BY <1>1, <1>2, <2>2 DEF Named, Types
    <3> QED
      BY <2>0, <3>1 DEF TableState, IInv
  <2> QED
    BY <2>1, <2>2
<1> QED
  BY <1>8, <1>9, <1>10 DEF IInv

LEMMA NextInv == IInv /\ [Next]_vars => IInv'
<1> SUFFICES ASSUME IInv, [Next]_vars PROVE IInv'
  OBVIOUS
<1>1. ASSUME NEW n \in Nodes, NEW m \in Nodes, LinkFails(n, m) PROVE IInv'
  <2>1. open[n][m] /\ ConnRm(n, m) /\ n # m
    BY <1>1 DEF LinkFails, IInv
  <2> QED
    BY <2>1, RmInv
<1>2. ASSUME NEW n \in Nodes, NEW m \in Nodes, OnClose(n, m) PROVE IInv'
  <2>1. open[n][m] /\ ConnRm(n, m) /\ n # m
    BY <1>2, OnItsWay DEF OnClose, Received
  <2> QED
    BY <2>1, RmInv
<1>3. CASE UNCHANGED vars
  BY <1>3 DEF vars, IInv, Types, TableState, Named, LinkState
<1> QED
  BY <1>1, <1>2, <1>3, LinkUpInv, RequestInv, ResponseInv, UpdateInv DEF Next

-----------------------------------------------------------------------------
\* Every link is in a state of its handshake and its close, and every table is
\* the one of the named connections.
THEOREM RoutingInvariant == Spec => []IInv
BY InitInv, NextInv, PTL DEF Spec

\* Tables, connections and channels have their types, however many nodes there
\* are: no other frame than the four kinds is ever on its way.
THEOREM TypeCorrect == Spec => []TypeOK
<1>1. IInv => TypeOK
  BY DEF IInv, Types, TypeOK
<1> QED
  BY <1>1, RoutingInvariant, PTL

\* A connection that was deleted is in no table, neither as a direct module nor
\* as the way to another one.
THEOREM ConnectionsCorrect == Spec => []NoDangling
<1>1. ASSUME IInv, NEW n \in Nodes, NEW m \in Named(n) PROVE open[n][m] /\ m \in Nodes
  <2>1. LinkState(n, m) /\ named[n][m] /\ m \in Nodes
    BY <1>1 DEF IInv, Named
  <2> QED
    BY <2>1 DEF LinkState, BothEnds, OneEnd
<1>2. ASSUME IInv, NEW n \in Nodes
      PROVE  /\ DirectConns(table[n]) \subseteq {m \in Nodes : open[n][m]}
             /\ \A x \in Nodes : table[n].nodes[x] # NoNode => open[n][table[n].nodes[x]]
  <2>1. TableOf(table[n], Named(n))
    BY <1>2 DEF IInv, TableState
  <2>2. DirectConns(table[n]) = Named(n)
    BY <2>1, TableConns
  <2>3. \A x \in Nodes : table[n].nodes[x] # NoNode => table[n].nodes[x] \in Named(n)
    BY <2>1 DEF TableOf
  <2> QED
    BY <1>1, <1>2, <2>2, <2>3
<1>3. IInv => NoDangling
  BY <1>2 DEF NoDangling
<1> QED
  BY <1>3, RoutingInvariant, PTL

\* When nothing is on its way, the two ends of every link agree: both have the
\* connection and know each other as a direct module, or neither does.
THEOREM EndsCorrect == Spec => []EndsAgree
<1>1. ASSUME IInv, Quiet, NEW n \in Nodes, NEW m \in Nodes
      PROVE  (open[n][m] <=> open[m][n]) /\ (open[n][m] <=> m \in table[n].keys)
  <2>1. /\ OneEnd(open[n][m], open[m][n], named[n][m], <<>>, <<>>)
        /\ OneEnd(open[m][n], open[n][m], named[m][n], <<>>, <<>>)
    BY <1>1 DEF IInv, LinkState, BothEnds, Quiet
  <2>2. ~ Closes(<<>>) /\ ~ Has(<<>>, "ROUTE_REQ") /\ ~ Has(<<>>, "ROUTE_RES")
    BY EmptyChannel DEF Closes
  <2>3. (open[n][m] <=> open[m][n]) /\ (open[n][m] <=> named[n][m])
    BY <2>1, <2>2 DEF OneEnd
  <2>4. m \in table[n].keys <=> named[n][m]
    BY <1>1 DEF IInv, TableState, TableOf, Named
  <2> QED
    BY <2>3, <2>4
<1>2. IInv => EndsAgree
  BY <1>1 DEF EndsAgree
<1> QED
  BY <1>2, RoutingInvariant, PTL

=============================================================================
