----------------------------- MODULE ChainProofs ------------------------------
(***************************************************************************)
(* Proofs about the chains of requests: an answer finds the entry of the      *)
(* request it is about, and no callback is called twice, for all nodes,       *)
(* links, routes and bounds.                                                *)
(*                                                                         *)
(* The argument is about the chain keys.  Every key is made once and for one  *)
(* request: its owner.  And every key is in one place at a time - a frame, a   *)
(* function that runs or an entry that waits -, which is what makes an answer *)
(* find an entry once.  The owners and the places are functions that the      *)
(* invariant asserts to exist.                                              *)
(*                                                                         *)
(* That an answer is never lost while no link fails is a third function: every *)
(* request that waits has a bearer - the frame, the function or the request   *)
(* made on its behalf that will bring its answer -, and no other has one.  It  *)
(* is kept because the chain to go back to is held by an entry at its other    *)
(* end, and that end is connected still.                                    *)
(***************************************************************************)
EXTENDS Chain, SequenceTheorems, FiniteSetTheorems, TLAPS

Request == [from : Nodes, parent : Ids \cup {NoRequest}, calls : Nat, dropped : BOOLEAN]
L == 1 .. Len(requests)
Elems(s) == {s[i] : i \in 1 .. Len(s)}
Channels == [Nodes -> [Nodes -> Seq(Frames)]]

Made(k) == k \in Keys /\ k.nr <= keys[k.at]

\* A chain to go back to, at node n on behalf of request r: the node that made
\* the key is the sender; a key of n itself is not one under which it forwards.
GoodBack(n, key, sender, r, owner, passed) ==
  key # NoKey =>
    /\ Made(key)
    /\ sender = key.at
    /\ r \in L
    /\ owner[key] = r
    /\ key.at = n => key \notin passed

GoodFrame(n, f, owner) ==
  f.type # "CLOSE" =>
    /\ Made(f.key)
    /\ f.about \in L
    /\ owner[f.key] = f.about
    /\ f.type # "MSG_RES" => f.sender = n /\ f.key.at = n

Asker(e) == IF e.type = "FORWARD" THEN e.about ELSE requests[e.about].parent

GoodEntry(n, e, owner, passed) ==
  /\ Made(e.id)
  /\ e.id.at = n
  /\ e.about \in L
  /\ owner[e.id] = e.about
  /\ e.type = "FORWARD" => e.id \in passed /\ e.key # NoKey
  /\ GoodBack(n, e.key, e.sender, Asker(e), owner, passed)

GoodRun(n, run, owner, passed) ==
  /\ run.about \in L
  /\ run.in # "callback" => run.key # NoKey
  /\ GoodBack(n, run.key, run.sender, Subject(run), owner, passed)
  /\ run.in = "local" =>
       /\ run.sender = n
       /\ GoodBack(n, run.lastKey, run.lastSender, requests[run.about].parent, owner, passed)
  /\ run.in = "remote" => run.conn \in Nodes

\* Every frame, entry and function is about the owner of its key.
Owned(owner, passed) ==
  /\ \A k \in passed : Made(k)
  /\ \A n, m \in Nodes : \A f \in Elems(chan[n][m]) : GoodFrame(n, f, owner)
  /\ \A n \in Nodes : \A e \in chains[n] : GoodEntry(n, e, owner, passed)
  /\ \A n \in Nodes : running[n] # Idle => GoodRun(n, running[n], owner, passed)

\* No node is connected to itself.
Apart == \A n \in Nodes : ~open[n][n] /\ chan[n][n] = <<>>

Owners == [Keys -> Nat]

IInv ==
  /\ TypeOK
  /\ Apart
  /\ \E owner \in Owners, passed \in SUBSET Keys : Owned(owner, passed)

-----------------------------------------------------------------------------
\* The places in which a key can be.
Places == [kind : {"chan", "run", "entry", "nowhere"}, at : Senders, to : Senders,
           id : Keys \cup {NoKey}]
OnChan(n, m) == [kind |-> "chan", at |-> n, to |-> m, id |-> NoKey]
InRun(n) == [kind |-> "run", at |-> n, to |-> NoNode, id |-> NoKey]
InEntry(k) == [kind |-> "entry", at |-> NoNode, to |-> NoNode, id |-> k]
Nowhere == [kind |-> "nowhere", at |-> NoNode, to |-> NoNode, id |-> NoKey]

\* The entry still waits: that of a request in the own process stays when it is over.
Live(e) == e.type = "FORWARD" \/ requests[e.about].calls = 0

Placings == [Keys -> Places]

Distinct(s) ==
  \A i, j \in 1 .. Len(s) :
    s[i].type # "CLOSE" /\ s[j].type # "CLOSE" /\ s[i].key = s[j].key => i = j

FramesPlaced(ch, place) ==
  \A n, m \in Nodes :
    /\ Distinct(ch[n][m])
    /\ \A f \in Elems(ch[n][m]) : f.type # "CLOSE" => place[f.key] = OnChan(n, m)

RunsPlaced(place) ==
  \A n \in Nodes :
    running[n] # Idle /\ running[n].key # NoKey => place[running[n].key] = InRun(n)

EntryPlaced(e, place) ==
  IF Live(e) THEN e.key # NoKey => place[e.key] = InEntry(e.id)
  ELSE place[e.id] = Nowhere

EntriesPlaced(place) == \A n \in Nodes : \A e \in chains[n] : EntryPlaced(e, place)

\* A key has one entry, and a request has one entry at the node that asked.
OneEntry ==
  \A n, m \in Nodes : \A e \in chains[n], d \in chains[m] :
    \/ e.id = d.id
    \/ e.type # "FORWARD" /\ d.type # "FORWARD" /\ e.about = d.about
    => e = d

\* The method that was called in the own process has an entry that waits.
LocalWaits ==
  \A n \in Nodes : running[n] # Idle /\ running[n].in = "local" =>
    \E e \in chains[n] :
      /\ e.type # "FORWARD" /\ Live(e)
      /\ e.id = running[n].key /\ e.about = running[n].about
      /\ e.key = running[n].lastKey

Placed(place) == FramesPlaced(chan, place) /\ RunsPlaced(place) /\ EntriesPlaced(place)

JInv ==
  /\ IInv
  /\ CalledAtMostOnce
  /\ OneEntry
  /\ LocalWaits
  /\ \E place \in Placings : Placed(place)

-----------------------------------------------------------------------------
\* What the helpers on sequences, frames, entries and functions return.

\* The elements of a sequence that grows or shrinks: a frame that is sent, read.
LEMMA ElemsAppend ==
  ASSUME NEW S, NEW s, NEW x,
         s \in Seq(S), x \in S
  PROVE  Append(s, x) \in Seq(S) /\ Elems(Append(s, x)) = Elems(s) \cup {x}
<1>1. Append(s, x) \in Seq(S) /\ Len(Append(s, x)) = Len(s) + 1 /\ Len(s) \in Nat
  OBVIOUS
<1>2. \A i \in 1 .. Len(s) : Append(s, x)[i] = s[i]
  OBVIOUS
<1>3. Append(s, x)[Len(s) + 1] = x
  OBVIOUS
<1>4. 1 .. Len(s) + 1 = (1 .. Len(s)) \cup {Len(s) + 1}
  BY <1>1
<1> QED
  BY <1>1, <1>2, <1>3, <1>4 DEF Elems

\* Reading the first frame of a channel.
LEMMA ElemsTail ==
  ASSUME NEW S, NEW s,
         s \in Seq(S), s # <<>>
  PROVE  /\ Tail(s) \in Seq(S) /\ Elems(Tail(s)) \subseteq Elems(s)
         /\ Head(s) \in Elems(s) /\ Head(s) \in S
<1>1. /\ Tail(s) \in Seq(S) /\ Len(Tail(s)) = Len(s) - 1 /\ Len(s) \in Nat /\ Len(s) > 0
      /\ Head(s) = s[1] /\ Head(s) \in S
  OBVIOUS
<1>2. \A i \in 1 .. Len(Tail(s)) : Tail(s)[i] = s[i + 1]
  OBVIOUS
<1>3. \A i \in 1 .. Len(Tail(s)) : i + 1 \in 1 .. Len(s)
  BY <1>1
<1>4. 1 \in 1 .. Len(s)
  BY <1>1
<1> QED
  BY <1>1, <1>2, <1>3, <1>4 DEF Elems

\* Frames with keys of their own: one that is sent under a key that is not there.
LEMMA DistinctAppend ==
  ASSUME NEW S, NEW s, NEW x,
         s \in Seq(S), x \in S, Distinct(s),
         \A y \in Elems(s) : y.type # "CLOSE" /\ x.type # "CLOSE" => y.key # x.key
  PROVE  Distinct(Append(s, x))
<1>1. Len(Append(s, x)) = Len(s) + 1 /\ Len(s) \in Nat
  OBVIOUS
<1>2. \A i \in 1 .. Len(s) : Append(s, x)[i] = s[i] /\ s[i] \in Elems(s)
  BY DEF Elems
<1>3. Append(s, x)[Len(s) + 1] = x
  OBVIOUS
<1>4. \A i \in 1 .. Len(s) + 1 : i \in 1 .. Len(s) \/ i = Len(s) + 1
  BY <1>1
<1> QED
  BY <1>1, <1>2, <1>3, <1>4 DEF Distinct

\* Once the first frame is read, its key is not in the channel.
LEMMA DistinctTail ==
  ASSUME NEW S, NEW s,
         s \in Seq(S), s # <<>>, Distinct(s)
  PROVE  /\ Distinct(Tail(s))
         /\ \A y \in Elems(Tail(s)) :
              y.type # "CLOSE" /\ Head(s).type # "CLOSE" => y.key # Head(s).key
<1>1. Len(Tail(s)) = Len(s) - 1 /\ Len(s) \in Nat /\ Len(s) > 0 /\ Head(s) = s[1]
  OBVIOUS
<1>2. \A i \in 1 .. Len(Tail(s)) : Tail(s)[i] = s[i + 1]
  OBVIOUS
<1>3. \A i \in 1 .. Len(Tail(s)) : i \in Nat /\ i + 1 \in 1 .. Len(s) /\ i + 1 # 1
  BY <1>1
<1>4. 1 \in 1 .. Len(s)
  BY <1>1
<1>5. Distinct(Tail(s))
  BY <1>1, <1>2, <1>3 DEF Distinct
<1>6. ASSUME NEW y \in Elems(Tail(s)), y.type # "CLOSE", Head(s).type # "CLOSE"
      PROVE  y.key # Head(s).key
  <2>1. PICK i \in 1 .. Len(Tail(s)) : y = Tail(s)[i]
    BY <1>6 DEF Elems
  <2> QED
    BY <2>1, <1>1, <1>2, <1>3, <1>4, <1>6 DEF Distinct
<1> QED
  BY <1>5, <1>6

\* The channels c2 are ch with a frame more, are without a frame, hold no loops, and
\* hold nothing but what was there, and frames that n sends.
IsSent(c2, ch, n, m, f) ==
  \A p, q \in Nodes :
    c2[p][q] = IF p = n /\ q = m /\ open[m][n] THEN Append(ch[n][m], f) ELSE ch[p][q]
IsRead(c2, n, m) ==
  \A p, q \in Nodes :
    c2[p][q] = IF p = m /\ q = n THEN Tail(chan[m][n]) ELSE chan[p][q]
NoLoops(c2) == \A p \in Nodes : c2[p][p] = <<>>
OnlyOld(c2) == \A p, q \in Nodes : Elems(c2[p][q]) \subseteq Elems(chan[p][q])
OnlyAdds(c2, n, f) ==
  \A p, q \in Nodes : \A g \in Elems(c2[p][q]) :
    g \in Elems(chan[p][q]) \/ (p = n /\ g = f)

\* The channels after a frame was sent.
LEMMA SentAt ==
  ASSUME NEW ch, NEW n, NEW m, NEW f, NEW c2,
         ch \in Channels, n \in Nodes, m \in Nodes, f \in Frames, c2 = Sent(ch, n, m, f)
  PROVE  c2 \in Channels /\ IsSent(c2, ch, n, m, f)
<1>1. ch[n][m] \in Seq(Frames)
  BY DEF Channels
<1>2. Append(ch[n][m], f) \in Seq(Frames)
  BY <1>1
<1> QED
  BY <1>2 DEF Sent, Channels, IsSent

\* The channels after a frame was read.
LEMMA ReadAt ==
  ASSUME NEW n, NEW m,
         TypeOK, n \in Nodes, m \in Nodes, chan[m][n] # <<>>
  PROVE  /\ WithoutHead(n, m) \in Channels /\ IsRead(WithoutHead(n, m), n, m)
         /\ Head(chan[m][n]) \in Elems(chan[m][n]) /\ Head(chan[m][n]) \in Frames
<1>1. chan \in Channels /\ chan[m][n] \in Seq(Frames)
  BY DEF TypeOK, Channels
<1>2. Tail(chan[m][n]) \in Seq(Frames)
  BY <1>1
<1>3. Head(chan[m][n]) \in Elems(chan[m][n]) /\ Head(chan[m][n]) \in Frames
  BY <1>1, ElemsTail
<1>4. WithoutHead(n, m) \in Channels
  BY <1>1, <1>2 DEF WithoutHead, Channels
<1>5. IsRead(WithoutHead(n, m), n, m)
  BY <1>1, <1>2 DEF WithoutHead, Channels, IsRead
<1> QED
  BY <1>3, <1>4, <1>5

\* A frame has its type and its fields.
LEMMA FrameType ==
  ASSUME NEW type, NEW key, NEW module, NEW sender, NEW about,
         type \in {"MSG_REQ", "MSG_RES", "METHODS", "CLOSE"}, key \in Keys \cup {NoKey},
         module \in Nodes, sender \in Nodes, about \in Ids \cup {NoRequest}
  PROVE  /\ Frame(type, key, module, sender, about) \in Frames
         /\ Frame(type, key, module, sender, about).type = type
         /\ Frame(type, key, module, sender, about).key = key
         /\ Frame(type, key, module, sender, about).sender = sender
         /\ Frame(type, key, module, sender, about).about = about
  BY DEF Frame, Frames

\* A frame that is passed on or sent back under another key.
Rekeyed(f, key, sender) == [f EXCEPT !.key = key, !.sender = sender]

\* It keeps its type and what it is about.
LEMMA FrameRekeyed ==
  ASSUME NEW f, NEW key, NEW sender,
         f \in Frames, key \in Keys \cup {NoKey}, sender \in Nodes
  PROVE  /\ Rekeyed(f, key, sender) \in Frames
         /\ Rekeyed(f, key, sender).type = f.type
         /\ Rekeyed(f, key, sender).key = key
         /\ Rekeyed(f, key, sender).sender = sender
         /\ Rekeyed(f, key, sender).about = f.about
  BY DEF Frames, Rekeyed

\* A frame that is answered: the answer has its key and is about the same request.
LEMMA FrameAnswered ==
  ASSUME NEW f, NEW n,
         f \in Frames, n \in Nodes
  PROVE  /\ Answer(f, n) \in Frames
         /\ Answer(f, n).type = "MSG_RES"
         /\ Answer(f, n).key = f.key
         /\ Answer(f, n).about = f.about
  BY DEF Frames, Answer

\* An entry has its type and its fields.
LEMMA EntryType ==
  ASSUME NEW type, NEW id, NEW about, NEW key, NEW sender,
         type \in {"RESPONSE", "FORWARD", "METHODS"}, id \in Keys, about \in Ids,
         key \in Keys \cup {NoKey}, sender \in Senders
  PROVE  /\ Entry(type, id, about, key, sender) \in Entries
         /\ Entry(type, id, about, key, sender).type = type
         /\ Entry(type, id, about, key, sender).id = id
         /\ Entry(type, id, about, key, sender).about = about
         /\ Entry(type, id, about, key, sender).key = key
         /\ Entry(type, id, about, key, sender).sender = sender
  BY DEF Entry, Entries

\* A method called by a frame has its type and its fields.
LEMMA RemoteType ==
  ASSUME NEW about, NEW key, NEW sender, NEW conn,
         about \in Ids, key \in Keys \cup {NoKey}, sender \in Senders, conn \in Senders
  PROVE  /\ Remote(about, key, sender, conn) \in Runs
         /\ Remote(about, key, sender, conn).in = "remote"
         /\ Remote(about, key, sender, conn).about = about
         /\ Remote(about, key, sender, conn).key = key
         /\ Remote(about, key, sender, conn).sender = sender
         /\ Remote(about, key, sender, conn).conn = conn
<1>1. NoKey \in Keys \cup {NoKey} /\ NoNode \in Senders
  BY DEF Senders
<1> HIDE DEF NoKey
<1> QED
  BY <1>1 DEF Remote, Runs

\* A method called in the same process has its type and its fields.
LEMMA LocalType ==
  ASSUME NEW about, NEW key, NEW sender, NEW lastKey, NEW lastSender,
         about \in Ids, key \in Keys \cup {NoKey}, sender \in Senders,
         lastKey \in Keys \cup {NoKey}, lastSender \in Senders
  PROVE  /\ Local(about, key, sender, lastKey, lastSender) \in Runs
         /\ Local(about, key, sender, lastKey, lastSender).in = "local"
         /\ Local(about, key, sender, lastKey, lastSender).about = about
         /\ Local(about, key, sender, lastKey, lastSender).key = key
         /\ Local(about, key, sender, lastKey, lastSender).sender = sender
         /\ Local(about, key, sender, lastKey, lastSender).lastKey = lastKey
         /\ Local(about, key, sender, lastKey, lastSender).lastSender = lastSender
<1>1. NoNode \in Senders
  BY DEF Senders
<1> QED
  BY <1>1 DEF Local, Runs

\* A callback has its type and its fields.
LEMMA CallbackType ==
  ASSUME NEW about, NEW key, NEW sender,
         about \in Ids, key \in Keys \cup {NoKey}, sender \in Senders
  PROVE  /\ Callback(about, key, sender) \in Runs
         /\ Callback(about, key, sender).in = "callback"
         /\ Callback(about, key, sender).about = about
         /\ Callback(about, key, sender).key = key
         /\ Callback(about, key, sender).sender = sender
<1>1. NoKey \in Keys \cup {NoKey} /\ NoNode \in Senders
  BY DEF Senders
<1> QED
  BY <1>1 DEF Callback, Runs

\* Whatever runs is not idle.
LEMMA RunsAreNotIdle ==
  ASSUME NEW run,
         run \in Runs
  PROVE  run # Idle /\ run.in # "idle"
  BY DEF Runs, Idle

\* The next key of a node is a key that is not made yet.
LEMMA NextKeyIsNew ==
  ASSUME NEW n,
         keys \in [Nodes -> Nat], n \in Nodes
  PROVE  NextKey(n) \in Keys /\ NextKey(n).at = n /\ ~Made(NextKey(n))
         /\ NextKey(n).nr = keys[n] + 1
<1>1. keys[n] \in Nat /\ keys[n] + 1 \in Nat \ {0}
  OBVIOUS
<1>2. NextKey(n) \in Keys /\ NextKey(n).at = n /\ NextKey(n).nr = keys[n] + 1
  BY <1>1 DEF NextKey, Keys
<1> QED
  BY <1>1, <1>2 DEF Made

\* The key that stands for none is not one.
LEMMA NoKeyIsNone == NoKey \notin Keys
  BY DEF NoKey, Keys

-----------------------------------------------------------------------------
\* Every frame, entry and function is about the owner of its key.

\* What a step may do to the keys and requests that are known.
Grows(owner, passed, owner2, passed2) ==
  /\ \A n \in Nodes : keys[n] <= keys'[n]
  /\ Len(requests) <= Len(requests')
  /\ \A r \in L : requests'[r].parent = requests[r].parent
  /\ \A k \in Keys : Made(k) => owner2[k] = owner[k] /\ (k \in passed2 <=> k \in passed)

\* A step that does nothing to the keys and the parents of requests.
LEMMA GrowsSame ==
  ASSUME NEW owner, NEW passed,
         TypeOK, keys' = keys, Len(requests) <= Len(requests'),
         \A r \in L : requests'[r].parent = requests[r].parent
  PROVE  Grows(owner, passed, owner, passed)
<1>1. \A n \in Nodes : keys[n] \in Nat
  BY DEF TypeOK
<1> QED
  BY <1>1 DEF Grows

\* The owners once the key k is made for request r.
GivenTo(owner, k, r) == [owner EXCEPT ![k] = r]

\* A step that makes the next key of a node.
LEMMA KeyMade ==
  ASSUME NEW n, NEW k,
         keys \in [Nodes -> Nat], n \in Nodes, keys' = [keys EXCEPT ![n] = @ + 1], k = NextKey(n)
  PROVE  k \in Keys /\ k.at = n /\ ~Made(k) /\ Made(k)' /\ \A p \in Nodes : keys[p] <= keys'[p]
<1>1. \A p \in Nodes : keys[p] \in Nat
  OBVIOUS
<1>2. k \in Keys /\ k.at = n /\ ~Made(k) /\ k.nr = keys[n] + 1
  BY NextKeyIsNew
<1>3. \A p \in Nodes : keys[p] <= keys'[p]
  BY <1>1
<1>4. keys'[n] = keys[n] + 1
  BY <1>1
<1>5. Made(k)'
  BY <1>1, <1>2, <1>4 DEF Made
<1> QED
  BY <1>2, <1>3, <1>5

\* A function of owners that knows one key more.
LEMMA GivenType ==
  ASSUME NEW owner, NEW k, NEW r,
         owner \in Owners, k \in Keys, r \in Nat
  PROVE  GivenTo(owner, k, r) \in Owners /\ GivenTo(owner, k, r)[k] = r
  BY DEF GivenTo, Owners

\* A step that gives the next key of a node to a request.
LEMMA GrowsByKey ==
  ASSUME NEW n, NEW k, NEW r, NEW owner, NEW passed, NEW passed2,
         keys \in [Nodes -> Nat], n \in Nodes, keys' = [keys EXCEPT ![n] = @ + 1],
         k = NextKey(n), owner \in Owners, Len(requests) <= Len(requests'),
         \A q \in L : requests'[q].parent = requests[q].parent,
         \A j : j # k => (j \in passed2 <=> j \in passed)
  PROVE  Grows(owner, passed, GivenTo(owner, k, r), passed2)
<1>1. k \in Keys /\ k.at = n /\ ~Made(k) /\ Made(k)' /\ \A p \in Nodes : keys[p] <= keys'[p]
  BY KeyMade
<1> QED
  BY <1>1 DEF Grows, GivenTo, Owners

\* A key to go back to stays one.
LEMMA BackStays ==
  ASSUME NEW owner, NEW passed, NEW owner2, NEW passed2, NEW n, NEW key, NEW sender, NEW r,
         TypeOK, TypeOK', Grows(owner, passed, owner2, passed2), n \in Nodes,
         GoodBack(n, key, sender, r, owner, passed)
  PROVE  GoodBack(n, key, sender, r, owner2, passed2)'
<1>1. SUFFICES ASSUME key # NoKey PROVE GoodBack(n, key, sender, r, owner2, passed2)'
  BY DEF GoodBack
<1>2. Made(key) /\ sender = key.at /\ r \in L /\ owner[key] = r /\ (key.at = n => key \notin passed)
  BY <1>1 DEF GoodBack
<1>3. key \in Keys /\ key.at \in Nodes /\ key.nr \in Nat
  BY <1>2 DEF Made, Keys
<1>4. keys[key.at] \in Nat /\ keys'[key.at] \in Nat /\ keys[key.at] <= keys'[key.at]
  BY <1>3 DEF TypeOK, Grows
<1>5. Made(key)'
  BY <1>2, <1>3, <1>4 DEF Made
<1>6. r \in L'
  BY <1>2 DEF L, Grows, TypeOK
<1>7. owner2[key] = r /\ (key.at = n => key \notin passed2)
  BY <1>2, <1>3 DEF Grows
<1> QED
  BY <1>2, <1>5, <1>6, <1>7 DEF GoodBack

\* A key that is made stays made, and keeps its owner.
LEMMA MadeStays ==
  ASSUME NEW owner, NEW passed, NEW owner2, NEW passed2, NEW k,
         TypeOK, TypeOK', Grows(owner, passed, owner2, passed2), Made(k)
  PROVE  Made(k)' /\ owner2[k] = owner[k] /\ (k \in passed2 <=> k \in passed)
<1>1. k \in Keys /\ k.at \in Nodes /\ k.nr \in Nat /\ k.nr <= keys[k.at]
  BY DEF Made, Keys
<1>2. keys[k.at] \in Nat /\ keys'[k.at] \in Nat /\ keys[k.at] <= keys'[k.at]
  BY <1>1 DEF TypeOK, Grows
<1> QED
  BY <1>1, <1>2 DEF Made, Grows

\* The requests that are known stay known.
LEMMA RequestsStay ==
  ASSUME NEW owner, NEW passed, NEW owner2, NEW passed2, NEW r,
         TypeOK, TypeOK', Grows(owner, passed, owner2, passed2), r \in L
  PROVE  r \in L' /\ requests'[r].parent = requests[r].parent
  BY DEF L, Grows, TypeOK

\* A frame that is on its way stays right.
LEMMA FrameStays ==
  ASSUME NEW owner, NEW passed, NEW owner2, NEW passed2, NEW n, NEW f,
         TypeOK, TypeOK', Grows(owner, passed, owner2, passed2), GoodFrame(n, f, owner)
  PROVE  GoodFrame(n, f, owner2)'
<1>1. SUFFICES ASSUME f.type # "CLOSE" PROVE GoodFrame(n, f, owner2)'
  BY DEF GoodFrame
<1>2. Made(f.key) /\ f.about \in L /\ owner[f.key] = f.about
      /\ (f.type # "MSG_RES" => f.sender = n /\ f.key.at = n)
  BY <1>1 DEF GoodFrame
<1>3. Made(f.key)' /\ owner2[f.key] = owner[f.key]
  BY <1>2, MadeStays
<1>4. f.about \in L'
  BY <1>2, RequestsStay
<1> QED
  BY <1>2, <1>3, <1>4 DEF GoodFrame

\* An entry stays right.
LEMMA EntryStays ==
  ASSUME NEW owner, NEW passed, NEW owner2, NEW passed2, NEW n \in Nodes, NEW e,
         TypeOK, TypeOK', Grows(owner, passed, owner2, passed2), GoodEntry(n, e, owner, passed)
  PROVE  GoodEntry(n, e, owner2, passed2)'
<1>1. Made(e.id)' /\ owner2[e.id] = owner[e.id] /\ (e.id \in passed2 <=> e.id \in passed)
  BY MadeStays DEF GoodEntry
<1>2. e.about \in L' /\ requests'[e.about].parent = requests[e.about].parent
  BY RequestsStay DEF GoodEntry
<1>3. Asker(e)' = Asker(e)
  BY <1>2 DEF Asker
<1>4. PICK r : r = Asker(e)
  OBVIOUS
<1>5. GoodBack(n, e.key, e.sender, r, owner2, passed2)'
  BY <1>4, BackStays DEF GoodEntry
<1>6. GoodBack(n, e.key, e.sender, Asker(e), owner2, passed2)'
  BY <1>5, <1>3, <1>4 DEF GoodBack
<1> QED
  BY <1>1, <1>2, <1>6 DEF GoodEntry

\* A function stays right.
LEMMA RunStays ==
  ASSUME NEW owner, NEW passed, NEW owner2, NEW passed2, NEW n \in Nodes, NEW run,
         TypeOK, TypeOK', Grows(owner, passed, owner2, passed2), GoodRun(n, run, owner, passed)
  PROVE  GoodRun(n, run, owner2, passed2)'
<1>1. run.about \in L' /\ requests'[run.about].parent = requests[run.about].parent
  BY RequestsStay DEF GoodRun
<1>2. PICK r : r = Subject(run)
  OBVIOUS
<1>3. PICK q : q = requests[run.about].parent
  OBVIOUS
<1>4. r = Subject(run)' /\ q = requests'[run.about].parent
  BY <1>1, <1>2, <1>3 DEF Subject
<1>5. GoodBack(n, run.key, run.sender, r, owner2, passed2)'
  BY <1>2, BackStays DEF GoodRun
<1>6. GoodBack(n, run.key, run.sender, Subject(run), owner2, passed2)'
  BY <1>4, <1>5 DEF GoodBack
<1>7. ASSUME run.in = "local"
      PROVE  GoodBack(n, run.lastKey, run.lastSender, requests[run.about].parent, owner2, passed2)'
  <2>1. GoodBack(n, run.lastKey, run.lastSender, q, owner, passed)
    BY <1>3, <1>7 DEF GoodRun
  <2>2. GoodBack(n, run.lastKey, run.lastSender, q, owner2, passed2)'
    BY <2>1, BackStays
  <2> QED
    BY <2>2, <1>4 DEF GoodBack
<1> QED
  BY <1>1, <1>6, <1>7 DEF GoodRun

\* A step keeps the frames, entries and functions right that stay, and adds right ones.
LEMMA OwnedStays ==
  ASSUME NEW owner, NEW passed, NEW owner2, NEW passed2,
         TypeOK, TypeOK', Owned(owner, passed), Grows(owner, passed, owner2, passed2),
         \A k \in passed2 : k \in passed \/ Made(k)',
         \A n, m \in Nodes : \A f \in Elems(chan'[n][m]) :
           f \in Elems(chan[n][m]) \/ GoodFrame(n, f, owner2)',
         \A n \in Nodes : \A e \in chains'[n] :
           e \in chains[n] \/ GoodEntry(n, e, owner2, passed2)',
         \A n \in Nodes : \A run : run = running'[n] =>
           run = running[n] \/ run = Idle \/ GoodRun(n, run, owner2, passed2)'
  PROVE  Owned(owner2, passed2)'
<1>1. ASSUME NEW k \in passed2 PROVE Made(k)'
  BY MadeStays DEF Owned
<1>2. ASSUME NEW n \in Nodes, NEW m \in Nodes, NEW f \in Elems(chan'[n][m])
      PROVE  GoodFrame(n, f, owner2)'
  <2>1. CASE f \in Elems(chan[n][m])
    <3>1. GoodFrame(n, f, owner)
      BY <2>1 DEF Owned
    <3> QED
      BY <3>1, FrameStays
  <2> QED
    BY <2>1
<1>3. ASSUME NEW n \in Nodes, NEW e \in chains'[n]
      PROVE  GoodEntry(n, e, owner2, passed2)'
  <2>1. SUFFICES ASSUME e \in chains[n] PROVE GoodEntry(n, e, owner2, passed2)'
    OBVIOUS
  <2>2. GoodEntry(n, e, owner, passed)
    BY <2>1 DEF Owned
  <2> QED
    BY <2>2, EntryStays
<1>4. ASSUME NEW n \in Nodes, NEW run, run = running'[n], run # Idle
      PROVE  GoodRun(n, run, owner2, passed2)'
  <2>1. SUFFICES ASSUME run = running[n] PROVE GoodRun(n, run, owner2, passed2)'
    BY <1>4
  <2>2. GoodRun(n, run, owner, passed)
    BY <2>1, <1>4 DEF Owned
  <2> QED
    BY <2>2, RunStays
<1>5. \A n \in Nodes : running'[n] # Idle => GoodRun(n, running[n], owner2, passed2)'
  BY <1>4
<1> QED
  BY <1>1, <1>2, <1>3, <1>5 DEF Owned

\* The channels after a frame was sent hold what they held, and the frame.
LEMMA ChanSent ==
  ASSUME NEW ch, NEW n, NEW m, NEW f, NEW c2,
         TypeOK, Apart, ch \in Channels, NoLoops(ch), OnlyOld(ch), n \in Nodes,
         m \in Nodes, f \in Frames, c2 = Sent(ch, n, m, f)
  PROVE  c2 \in Channels /\ NoLoops(c2) /\ OnlyAdds(c2, n, f)
<1>1. c2 \in Channels /\ IsSent(c2, ch, n, m, f)
  BY SentAt
<1>2. ch[n][m] \in Seq(Frames)
  BY DEF Channels
<1>3. Elems(Append(ch[n][m], f)) = Elems(ch[n][m]) \cup {f}
  BY <1>2, ElemsAppend
<1>4. OnlyAdds(c2, n, f)
  BY <1>1, <1>3 DEF OnlyAdds, IsSent, OnlyOld
<1>5. NoLoops(c2)
  BY <1>1 DEF Apart, NoLoops, IsSent
<1> QED
  BY <1>1, <1>4, <1>5

\* The channels after a frame was read hold nothing that they did not hold.
LEMMA ChanRead ==
  ASSUME NEW n, NEW m,
         TypeOK, Apart, n \in Nodes, m \in Nodes, chan[m][n] # <<>>
  PROVE  /\ WithoutHead(n, m) \in Channels
         /\ NoLoops(WithoutHead(n, m)) /\ OnlyOld(WithoutHead(n, m))
<1>1. WithoutHead(n, m) \in Channels /\ IsRead(WithoutHead(n, m), n, m)
  BY ReadAt
<1>2. chan[m][n] \in Seq(Frames)
  BY DEF TypeOK
<1>3. Elems(Tail(chan[m][n])) \subseteq Elems(chan[m][n])
  BY <1>2, ElemsTail
<1>4. m # n
  BY DEF Apart
<1> QED
  BY <1>1, <1>3, <1>4 DEF Apart, IsRead, NoLoops, OnlyOld

\* The facts about the requests after one was made: the new one is the last.
LEMMA RequestMade ==
  ASSUME NEW x,
         TypeOK, Len(requests) < MaxRequests, x \in Request
  PROVE  /\ Append(requests, x) \in Seq(Request)
         /\ Len(Append(requests, x)) = Len(requests) + 1 /\ Len(requests) + 1 <= MaxRequests
         /\ Len(requests) + 1 \in Ids /\ Len(requests) \in Nat
         /\ \A q \in L : Append(requests, x)[q] = requests[q]
         /\ Append(requests, x)[Len(requests) + 1] = x
<1>1. requests \in Seq(Request) /\ Len(requests) \in Nat /\ MaxRequests \in Nat
  BY BoundsAssumption DEF TypeOK, Request
<1> QED
  BY <1>1 DEF L, Ids

\* A new request has its type and its fields.
LEMMA NewRequestType ==
  ASSUME NEW n, NEW parent, NEW calls,
         n \in Nodes, parent \in Ids \cup {NoRequest}, calls \in Nat
  PROVE  /\ NewRequest(n, parent, calls) \in Request
         /\ NewRequest(n, parent, calls).parent = parent
         /\ NewRequest(n, parent, calls).calls = calls
         /\ [NewRequest(n, parent, calls) EXCEPT !.dropped = TRUE] \in Request
         /\ [NewRequest(n, parent, calls) EXCEPT !.dropped = TRUE].parent = parent
         /\ [NewRequest(n, parent, calls) EXCEPT !.dropped = TRUE].calls = calls
<1>1. \A d \in BOOLEAN :
        [from |-> n, parent |-> parent, calls |-> calls, dropped |-> d] \in Request
  BY DEF Request
<1>2. \A d \in BOOLEAN :
        LET x == [from |-> n, parent |-> parent, calls |-> calls, dropped |-> d]
        IN  x.parent = parent /\ x.calls = calls
  OBVIOUS
<1>3. NewRequest(n, parent, calls) =
        [from |-> n, parent |-> parent, calls |-> calls, dropped |-> FALSE]
  BY Zenon DEF NewRequest
<1>4. ASSUME NEW d \in BOOLEAN, NEW b \in BOOLEAN
      PROVE  [[from |-> n, parent |-> parent, calls |-> calls, dropped |-> d] EXCEPT !.dropped = b]
               = [from |-> n, parent |-> parent, calls |-> calls, dropped |-> b]
  OBVIOUS
<1>5. [NewRequest(n, parent, calls) EXCEPT !.dropped = TRUE]
        = [from |-> n, parent |-> parent, calls |-> calls, dropped |-> TRUE]
  BY <1>3, <1>4, Zenon
<1> HIDE DEF Request
<1> QED
  BY <1>1, <1>2, <1>3, <1>5, Zenon

\* The callbacks that were called for a new request.
LEMMA NewRequestCalls ==
  ASSUME NEW n, NEW parent, NEW calls
  PROVE  NewRequest(n, parent, calls).calls = calls
<1>1. ASSUME NEW d
      PROVE  [from |-> n, parent |-> parent, calls |-> calls, dropped |-> d].calls = calls
  OBVIOUS
<1>2. NewRequest(n, parent, calls) =
        [from |-> n, parent |-> parent, calls |-> calls, dropped |-> FALSE]
  BY Zenon DEF NewRequest
<1> QED
  BY <1>1, <1>2, Zenon

\* A callback is called: the request counts it.
LEMMA CalledType ==
  ASSUME NEW reqs, NEW r,
         reqs \in Seq(Request), r \in 1 .. Len(reqs)
  PROVE  /\ Called(reqs, r) \in Seq(Request) /\ Len(Called(reqs, r)) = Len(reqs)
         /\ \A q \in 1 .. Len(reqs) :
              /\ Called(reqs, r)[q].parent = reqs[q].parent
              /\ Called(reqs, r)[q].calls = IF q = r THEN reqs[q].calls + 1 ELSE reqs[q].calls
<1>1. reqs[r] \in Request
  OBVIOUS
<1>2. reqs[r] \in Request /\ reqs[r].calls \in Nat
  BY <1>1 DEF Request
<1>3. ASSUME NEW x \in Request, NEW c \in Nat
      PROVE  /\ [x EXCEPT !.calls = c] \in Request
             /\ [x EXCEPT !.calls = c].parent = x.parent /\ [x EXCEPT !.calls = c].calls = c
  BY DEF Request
<1> DEFINE y == [reqs[r] EXCEPT !.calls = reqs[r].calls + 1]
<1>4. y \in Request /\ y.parent = reqs[r].parent /\ y.calls = reqs[r].calls + 1
  <2>1. PICK c \in Nat : c = reqs[r].calls + 1
    BY <1>2
  <2>2. PICK x \in Request : x = reqs[r]
    BY <1>2
  <2> QED
    BY <1>3, <2>1, <2>2
<1>5. Called(reqs, r) = [reqs EXCEPT ![r] = y]
  BY DEF Called
<1> HIDE DEF y, Request
<1>6. Called(reqs, r) \in Seq(Request) /\ Len(Called(reqs, r)) = Len(reqs)
  BY <1>4, <1>5
<1>7. \A q \in 1 .. Len(reqs) : Called(reqs, r)[q] = IF q = r THEN y ELSE reqs[q]
  BY <1>5
<1> QED
  BY <1>4, <1>6, <1>7

\* Every step: what is to be shown of the new frames, entries and functions.
LEMMA StepKeeps ==
  ASSUME NEW owner, NEW passed, NEW owner2, NEW passed2,
         IInv, TypeOK', open' = open, NoLoops(chan'), owner2 \in Owners,
         passed2 \in SUBSET Keys, Owned(owner, passed),
         Grows(owner, passed, owner2, passed2),
         \A k \in passed2 : k \in passed \/ Made(k)',
         \A n, m \in Nodes : \A f \in Elems(chan'[n][m]) :
           f \in Elems(chan[n][m]) \/ GoodFrame(n, f, owner2)',
         \A n \in Nodes : \A e \in chains'[n] :
           e \in chains[n] \/ GoodEntry(n, e, owner2, passed2)',
         \A n \in Nodes : \A run : run = running'[n] =>
           run = running[n] \/ run = Idle \/ GoodRun(n, run, owner2, passed2)'
  PROVE  IInv'
<1>1. TypeOK
  BY DEF IInv
<1>2. Owned(owner2, passed2)'
  BY <1>1, OwnedStays
<1>3. Apart'
  BY DEF IInv, Apart, NoLoops
<1> QED
  BY <1>2, <1>3 DEF IInv

\* What is known of a function that runs.
LEMMA RunFacts ==
  ASSUME NEW owner, NEW passed, NEW n,
         TypeOK, Owned(owner, passed), n \in Nodes, running[n] # Idle
  PROVE  /\ running[n] \in Runs /\ running[n].in \in {"remote", "local", "callback"}
         /\ GoodRun(n, running[n], owner, passed)
         /\ running[n].about \in L /\ running[n].about \in Ids
         /\ running[n].key \in Keys \cup {NoKey} /\ running[n].sender \in Senders
         /\ running[n].lastKey \in Keys \cup {NoKey} /\ running[n].lastSender \in Senders
         /\ Subject(running[n]) \in Ids \cup {NoRequest}
<1>1. running[n] \in Runs
  BY DEF TypeOK
<1>2. GoodRun(n, running[n], owner, passed) /\ running[n].about \in L
  BY DEF Owned, GoodRun
<1>3. /\ running[n].in \in {"remote", "local", "callback"} /\ running[n].about \in Ids
      /\ running[n].key \in Keys \cup {NoKey} /\ running[n].sender \in Senders
      /\ running[n].lastKey \in Keys \cup {NoKey} /\ running[n].lastSender \in Senders
  BY <1>1 DEF Runs
<1>4. requests[running[n].about].parent \in Ids \cup {NoRequest}
  <2>1. requests \in Seq(Request)
    BY DEF TypeOK, Request
  <2>2. requests[running[n].about] \in Request
    BY <2>1, <1>2 DEF L
  <2> QED
    BY <2>2 DEF Request
<1> QED
  BY <1>1, <1>2, <1>3, <1>4 DEF Subject

\* What is known of an entry.
LEMMA EntryFacts ==
  ASSUME NEW owner, NEW passed, NEW n, NEW e,
         TypeOK, Owned(owner, passed), n \in Nodes, e \in chains[n]
  PROVE  /\ e \in Entries /\ GoodEntry(n, e, owner, passed)
         /\ e.type \in {"RESPONSE", "FORWARD", "METHODS"}
         /\ e.id \in Keys /\ e.about \in L /\ e.about \in Ids
         /\ e.key \in Keys \cup {NoKey} /\ e.sender \in Senders
<1>1. e \in Entries
  BY DEF TypeOK
<1>2. GoodEntry(n, e, owner, passed) /\ e.about \in L
  BY DEF Owned, GoodEntry
<1> QED
  BY <1>1, <1>2 DEF Entries

\* What is known of the frame that a node reads.
LEMMA HeadFacts ==
  ASSUME NEW owner, NEW passed, NEW n, NEW m,
         TypeOK, Owned(owner, passed), n \in Nodes, m \in Nodes, chan[m][n] # <<>>
  PROVE  /\ Head(chan[m][n]) \in Frames /\ Head(chan[m][n]) \in Elems(chan[m][n])
         /\ GoodFrame(m, Head(chan[m][n]), owner)
         /\ Head(chan[m][n]).key \in Keys \cup {NoKey}
         /\ Head(chan[m][n]).module \in Nodes /\ Head(chan[m][n]).sender \in Nodes
         /\ Head(chan[m][n]).about \in Ids \cup {NoRequest}
         /\ Head(chan[m][n]).type # "CLOSE" =>
              /\ Made(Head(chan[m][n]).key) /\ Head(chan[m][n]).key \in Keys
              /\ Head(chan[m][n]).about \in L /\ Head(chan[m][n]).about \in Ids
<1>1. Head(chan[m][n]) \in Elems(chan[m][n]) /\ Head(chan[m][n]) \in Frames
  BY ReadAt
<1>2. GoodFrame(m, Head(chan[m][n]), owner)
  BY <1>1 DEF Owned
<1>3. L \subseteq Ids
  BY BoundsAssumption DEF TypeOK, L, Ids
<1> QED
  BY <1>1, <1>2, <1>3 DEF Frames, GoodFrame, Made

\* The chain to go back to: the node at its end is a node.
LEMMA BackFacts ==
  ASSUME NEW n, NEW key, NEW sender, NEW r, NEW owner, NEW passed,
         GoodBack(n, key, sender, r, owner, passed), key # NoKey
  PROVE  /\ key \in Keys /\ Made(key) /\ sender \in Nodes /\ sender = key.at
         /\ r \in L /\ owner[key] = r
  BY DEF GoodBack, Made, Keys

\* The callback of a request goes back to the chain of the request.
LEMMA CallbackGood ==
  ASSUME NEW n, NEW about, NEW key, NEW sender, NEW owner, NEW passed,
         TypeOK, TypeOK', Grows(owner, passed, owner, passed), n \in Nodes, about \in L,
         key \in Keys \cup {NoKey}, sender \in Senders,
         GoodBack(n, key, sender, requests[about].parent, owner, passed)
  PROVE  GoodRun(n, Callback(about, key, sender), owner, passed)'
<1> DEFINE r2 == Callback(about, key, sender)
<1>1. about \in Ids
  BY BoundsAssumption DEF TypeOK, L, Ids
<1>2. r2 \in Runs /\ r2.in = "callback" /\ r2.about = about /\ r2.key = key /\ r2.sender = sender
  BY <1>1, CallbackType
<1>3. about \in L' /\ requests'[about].parent = requests[about].parent
  BY RequestsStay
<1>4. PICK q : q = requests[about].parent
  OBVIOUS
<1>5. GoodBack(n, key, sender, q, owner, passed)'
  BY <1>4, BackStays
<1> HIDE DEF r2
<1>6. Subject(r2)' = q
  BY <1>2, <1>3, <1>4 DEF Subject
<1>7. GoodBack(n, r2.key, r2.sender, Subject(r2), owner, passed)'
  BY <1>2, <1>5, <1>6 DEF GoodBack
<1>8. GoodRun(n, r2, owner, passed)'
  BY <1>2, <1>3, <1>7 DEF GoodRun
<1> QED
  BY <1>8 DEF r2

\* The function a node is inside returns, or it asks a module it has no route to:
\* `reqs' are the requests with the one that fails at once.
LEMMA OwnersFinished ==
  ASSUME NEW n, NEW reqs,
         IInv, n \in Nodes, running[n] # Idle, reqs \in Seq(Request),
         Len(requests) <= Len(reqs), Len(reqs) <= MaxRequests,
         \A q \in L : reqs[q] = requests[q], Finished(n, reqs),
         UNCHANGED <<keys, open, failures>>
  PROVE  IInv'
<1>1. TypeOK /\ Apart
  BY DEF IInv
<1>2. PICK owner \in Owners, passed \in SUBSET Keys : Owned(owner, passed)
  BY DEF IInv
<1>0. PICK run : run = running[n]
  OBVIOUS
<1>3. /\ run \in Runs /\ run.in \in {"remote", "local", "callback"}
      /\ GoodRun(n, run, owner, passed) /\ run.about \in L /\ run.about \in Ids
      /\ run.key \in Keys \cup {NoKey} /\ run.sender \in Senders
      /\ run.lastKey \in Keys \cup {NoKey} /\ run.lastSender \in Senders
      /\ Subject(run) \in Ids \cup {NoRequest}
  BY <1>0, <1>1, <1>2, RunFacts, Zenon
<1>4. /\ Len(requests) \in Nat /\ Len(reqs) \in Nat /\ L \subseteq 1 .. Len(reqs)
      /\ NoNode \in Senders /\ NoKey \in Keys \cup {NoKey}
      /\ NoLoops(chan) /\ OnlyOld(chan)
      /\ chan \in Channels /\ chains \in [Nodes -> SUBSET Entries]
      /\ running \in [Nodes -> Runs \cup {Idle}]
      /\ requests \in Seq(Request) /\ Len(requests) <= MaxRequests
  BY <1>1 DEF TypeOK, Apart, L, Senders, Channels, Request, NoLoops, OnlyOld
<1>5. ASSUME NEW rs \in Seq(Request), Len(rs) = Len(reqs), requests' = rs,
             chains' \in [Nodes -> SUBSET Entries], chan' \in Channels,
             running' \in [Nodes -> Runs \cup {Idle}]
      PROVE  TypeOK'
  BY <1>1, <1>5 DEF TypeOK, Channels, Request
<1>6. ASSUME NEW r \in L, NEW rs, rs \in {reqs, Called(reqs, r)}, requests' = rs
      PROVE  /\ rs \in Seq(Request) /\ Len(rs) = Len(reqs)
             /\ Grows(owner, passed, owner, passed)
  <2>1. /\ Called(reqs, r) \in Seq(Request) /\ Len(Called(reqs, r)) = Len(reqs)
        /\ \A q \in 1 .. Len(reqs) : Called(reqs, r)[q].parent = reqs[q].parent
    BY <1>3, <1>4, CalledType
  <2>2. Len(requests) <= Len(requests') /\ \A q \in L : requests'[q].parent = requests[q].parent
    BY <1>6, <2>1, <1>4
  <2>3. Grows(owner, passed, owner, passed)
    BY <2>2, <1>1, GrowsSame
  <2> QED
    BY <1>6, <2>1, <2>3
<1>7. ASSUME NEW f \in Frames, f.type # "CLOSE", f.type = "MSG_RES", Made(f.key), f.about \in L,
             owner[f.key] = f.about, TypeOK', Grows(owner, passed, owner, passed)
      PROVE  GoodFrame(n, f, owner)'
  BY <1>1, <1>7, MadeStays, RequestsStay DEF GoodFrame
<1>8. ASSUME NEW about \in L, NEW key \in Keys \cup {NoKey}, NEW sender \in Senders,
             GoodBack(n, key, sender, requests[about].parent, owner, passed),
             TypeOK', Grows(owner, passed, owner, passed)
      PROVE  GoodRun(n, Callback(about, key, sender), owner, passed)'
  BY <1>1, <1>8, CallbackGood
<1>9. CASE run.in = "remote" /\ ReplyOnConnection(n, run, reqs)
  <2>0. PICK f : f = Frame("MSG_RES", run.key, n, n, run.about)
    OBVIOUS
  <2>1. run.conn \in Nodes /\ run.key # NoKey /\ Subject(run) = run.about
    BY <1>3, <1>9 DEF GoodRun, Subject
  <2>2. run.key \in Keys /\ Made(run.key) /\ owner[run.key] = run.about
    BY <1>3, <2>1, BackFacts DEF GoodRun
  <2>3. f \in Frames /\ f.type = "MSG_RES" /\ f.key = run.key /\ f.about = run.about
    BY <1>3, <2>0, <2>2, FrameType
  <2>4. /\ chan' = Sent(chan, n, run.conn, f)
        /\ running' = [running EXCEPT ![n] = Idle] /\ requests' = reqs /\ UNCHANGED chains
    BY <1>9, <2>0 DEF ReplyOnConnection
  <2>5. chan' \in Channels /\ NoLoops(chan') /\ OnlyAdds(chan', n, f)
    BY <1>1, <1>4, <2>1, <2>3, <2>4, ChanSent
  <2>6. Grows(owner, passed, owner, passed)
    BY <1>3, <1>6, <2>4
  <2>7. TypeOK'
    BY <1>4, <1>5, <2>4, <2>5
  <2>8. GoodFrame(n, f, owner)'
    BY <1>3, <1>7, <2>2, <2>3, <2>6, <2>7
  <2>9. \A p \in Nodes : running'[p] = running[p] \/ running'[p] = Idle
    BY <1>4, <2>4
  <2>20. \A p, q \in Nodes : \A g \in Elems(chan'[p][q]) :
           g \in Elems(chan[p][q]) \/ GoodFrame(p, g, owner)'
    BY <2>5, <2>8 DEF OnlyAdds
  <2>21. \A p \in Nodes : \A d \in chains'[p] :
           d \in chains[p] \/ GoodEntry(p, d, owner, passed)'
    BY <2>4
  <2>22. \A p \in Nodes : \A x : x = running'[p] =>
           x = running[p] \/ x = Idle \/ GoodRun(p, x, owner, passed)'
    BY <2>9
  <2> QED
    BY <1>2, <2>5, <2>6, <2>7, <2>20, <2>21, <2>22, StepKeeps
<1>10. CASE run.in = "local" /\ CallBackLocally(n, run, reqs)
  <2>0. PICK r2 : r2 = Callback(run.about, run.lastKey, run.lastSender)
    OBVIOUS
  <2>1. GoodBack(n, run.lastKey, run.lastSender, requests[run.about].parent, owner, passed)
    BY <1>3, <1>10 DEF GoodRun
  <2>2. r2 \in Runs
    BY <1>3, <2>0, CallbackType
  <2>3. /\ running' = [running EXCEPT ![n] = r2]
        /\ requests' = Called(reqs, run.about) /\ UNCHANGED <<chains, chan>>
    BY <1>10, <2>0 DEF CallBackLocally
  <2>4. Called(reqs, run.about) \in Seq(Request) /\ Len(Called(reqs, run.about)) = Len(reqs)
        /\ Grows(owner, passed, owner, passed)
    BY <1>3, <1>6, <2>3
  <2>5. TypeOK'
    <3>1. running' \in [Nodes -> Runs \cup {Idle}]
      BY <1>4, <2>2, <2>3
    <3> QED
      BY <1>4, <1>5, <2>3, <2>4, <3>1
  <2>6. GoodRun(n, r2, owner, passed)'
    BY <1>3, <1>8, <2>0, <2>1, <2>4, <2>5
  <2>7. \A p \in Nodes : running'[p] = running[p] \/ (p = n /\ running'[p] = r2)
    BY <1>4, <2>3
  <2>20. \A p, q \in Nodes : \A g \in Elems(chan'[p][q]) :
           g \in Elems(chan[p][q]) \/ GoodFrame(p, g, owner)'
    BY <2>3
  <2>21. \A p \in Nodes : \A d \in chains'[p] :
           d \in chains[p] \/ GoodEntry(p, d, owner, passed)'
    BY <2>3
  <2>22. \A p \in Nodes : \A x : x = running'[p] =>
           x = running[p] \/ x = Idle \/ GoodRun(p, x, owner, passed)'
    BY <2>6, <2>7
  <2> QED
    BY <1>2, <1>4, <2>3, <2>4, <2>5, <2>20, <2>21, <2>22, StepKeeps
<1>11. CASE /\ run.in = "callback" /\ running' = [running EXCEPT ![n] = Idle]
            /\ requests' = reqs /\ UNCHANGED <<chains, chan>>
  <2>1. Grows(owner, passed, owner, passed)
    BY <1>3, <1>6, <1>11
  <2>2. TypeOK'
    BY <1>4, <1>5, <1>11
  <2>3. \A p \in Nodes : running'[p] = running[p] \/ running'[p] = Idle
    BY <1>4, <1>11
  <2> QED
    BY <1>2, <1>4, <1>11, <2>1, <2>2, <2>3, StepKeeps
<1>12. ASSUME run.in = "callback", run.key # NoKey, run.sender = n, NEW e \in chains[n],
              e.id = run.key, chains' = [chains EXCEPT ![n] = @ \ {e}],
              running' = [running EXCEPT ![n] = Callback(e.about, e.key, e.sender)],
              requests' = Called(reqs, e.about), UNCHANGED chan
       PROVE  IInv'
  <2>0. PICK r2 : r2 = Callback(e.about, e.key, e.sender)
    OBVIOUS
  <2>1. /\ GoodEntry(n, e, owner, passed) /\ e.about \in L /\ e.about \in Ids
        /\ e.key \in Keys \cup {NoKey} /\ e.sender \in Senders
    BY <1>1, <1>2, <1>12, EntryFacts
  <2>2. GoodBack(n, run.key, run.sender, Subject(run), owner, passed)
    BY <1>3 DEF GoodRun
  <2>3. e.type # "FORWARD"
    BY <1>12, <2>1, <2>2 DEF GoodEntry, GoodBack
  <2>4. GoodBack(n, e.key, e.sender, requests[e.about].parent, owner, passed)
    BY <2>1, <2>3 DEF GoodEntry, Asker
  <2>5. r2 \in Runs
    BY <2>0, <2>1, CallbackType
  <2>6. Called(reqs, e.about) \in Seq(Request) /\ Len(Called(reqs, e.about)) = Len(reqs)
        /\ Grows(owner, passed, owner, passed)
    BY <1>6, <1>12, <2>1
  <2>7. TypeOK'
    <3>1. running' \in [Nodes -> Runs \cup {Idle}]
      BY <1>4, <1>12, <2>0, <2>5
    <3>2. chains' \in [Nodes -> SUBSET Entries]
      BY <1>4, <1>12
    <3> QED
      BY <1>4, <1>5, <1>12, <2>6, <3>1, <3>2
  <2>8. GoodRun(n, r2, owner, passed)'
    BY <1>8, <2>0, <2>1, <2>4, <2>6, <2>7
  <2>9. \A p \in Nodes : running'[p] = running[p] \/ (p = n /\ running'[p] = r2)
    BY <1>4, <1>12, <2>0
  <2>10. \A p \in Nodes : chains'[p] \subseteq chains[p]
    BY <1>4, <1>12
  <2>20. \A p, q \in Nodes : \A g \in Elems(chan'[p][q]) :
           g \in Elems(chan[p][q]) \/ GoodFrame(p, g, owner)'
    BY <1>12
  <2>21. \A p \in Nodes : \A d \in chains'[p] :
           d \in chains[p] \/ GoodEntry(p, d, owner, passed)'
    BY <2>10
  <2>22. \A p \in Nodes : \A x : x = running'[p] =>
           x = running[p] \/ x = Idle \/ GoodRun(p, x, owner, passed)'
    BY <2>8, <2>9
  <2> QED
    BY <1>2, <1>4, <1>12, <2>6, <2>7, <2>20, <2>21, <2>22, StepKeeps
<1>13. CASE run.in = "callback" /\ run.key # NoKey /\ RespondByName(n, run, reqs)
  <2>0. PICK f : f = Frame("MSG_RES", run.key, run.sender, n, Subject(run))
    OBVIOUS
  <2>1. /\ run.key \in Keys /\ Made(run.key) /\ run.sender \in Nodes /\ Subject(run) \in L
        /\ owner[run.key] = Subject(run)
    BY <1>3, <1>13, BackFacts DEF GoodRun
  <2>2. f \in Frames /\ f.type = "MSG_RES" /\ f.key = run.key /\ f.about = Subject(run)
    BY <1>3, <2>0, <2>1, FrameType
  <2>3. /\ running' = [running EXCEPT ![n] = Idle] /\ requests' = reqs /\ UNCHANGED chains
    BY <1>13 DEF RespondByName
  <2>4. chan' = chan \/ \E m \in Nodes : chan' = Sent(chan, n, m, f)
    BY <1>13, <2>0, <2>1, HopsAssumption DEF RespondByName, Route
  <2>5. chan' \in Channels /\ NoLoops(chan') /\ OnlyAdds(chan', n, f)
    <3>1. CASE chan' = chan
      BY <1>4, <3>1 DEF OnlyOld, OnlyAdds
    <3>2. ASSUME NEW m \in Nodes, chan' = Sent(chan, n, m, f)
          PROVE  chan' \in Channels /\ NoLoops(chan') /\ OnlyAdds(chan', n, f)
      BY <1>1, <1>4, <2>2, <3>2, ChanSent
    <3> QED
      BY <2>4, <3>1, <3>2
  <2>6. Grows(owner, passed, owner, passed)
    BY <1>3, <1>6, <2>3
  <2>7. TypeOK'
    BY <1>4, <1>5, <2>3, <2>5
  <2>8. GoodFrame(n, f, owner)'
    BY <1>7, <2>1, <2>2, <2>6, <2>7
  <2>9. \A p \in Nodes : running'[p] = running[p] \/ running'[p] = Idle
    BY <1>4, <2>3
  <2>20. \A p, q \in Nodes : \A g \in Elems(chan'[p][q]) :
           g \in Elems(chan[p][q]) \/ GoodFrame(p, g, owner)'
    BY <2>5, <2>8 DEF OnlyAdds
  <2>21. \A p \in Nodes : \A d \in chains'[p] :
           d \in chains[p] \/ GoodEntry(p, d, owner, passed)'
    BY <2>3
  <2>22. \A p \in Nodes : \A x : x = running'[p] =>
           x = running[p] \/ x = Idle \/ GoodRun(p, x, owner, passed)'
    BY <2>9
  <2> QED
    BY <1>2, <2>3, <2>5, <2>6, <2>7, <2>20, <2>21, <2>22, StepKeeps
<1> QED
  BY <1>0, <1>9, <1>10, <1>11, <1>12, <1>13 DEF Finished, RespondHere

\* A node asks a module: in its own process, for a method that it does not have, or
\* over a connection.
Asks(n, parent, key, sender) ==
  \/ RequestLocally(n, parent, key, sender)
  \/ RequestUnknown(n, parent)
  \/ \E m, x \in Nodes, ask \in {Message, Methods} :
       RequestRemotely(n, m, x, ask, parent, key, sender)

\* A node that asks makes a key for the request that it adds.
LEMMA OwnersAsked ==
  ASSUME NEW n, NEW owner, NEW passed, NEW parent, NEW key, NEW sender,
         IInv, n \in Nodes, owner \in Owners, passed \in SUBSET Keys, Owned(owner, passed),
         Len(requests) < MaxRequests, parent \in Ids \cup {NoRequest},
         key \in Keys \cup {NoKey}, sender \in Senders,
         GoodBack(n, key, sender, parent, owner, passed), Asks(n, parent, key, sender)
  PROVE  IInv'
<1>1. TypeOK /\ Apart
  BY DEF IInv
<1>2. /\ NoLoops(chan) /\ OnlyOld(chan) /\ n \in Senders
      /\ chan \in Channels /\ chains \in [Nodes -> SUBSET Entries]
      /\ running \in [Nodes -> Runs \cup {Idle}] /\ keys \in [Nodes -> Nat]
      /\ requests \in Seq(Request) /\ Len(requests) <= MaxRequests
  BY <1>1 DEF TypeOK, Apart, Senders, Channels, Request, NoLoops, OnlyOld
<1>3. PICK r : r = Len(requests) + 1
  OBVIOUS
<1>4. PICK k : k = NextKey(n)
  OBVIOUS
<1>5. PICK x \in Request : requests' = Append(requests, x) /\ x.parent = parent
  <2> DEFINE x == NewRequest(n, parent, 0)
             y == [NewRequest(n, parent, 0) EXCEPT !.dropped = TRUE]
  <2>1. x \in Request /\ y \in Request /\ x.parent = parent /\ y.parent = parent
    BY NewRequestType
  <2>2. requests' = Append(requests, x) \/ requests' = Append(requests, y)
    BY Zenon DEF Asks, RequestLocally, RequestUnknown, RequestRemotely
  <2> HIDE DEF x, y
  <2> QED
    BY <2>1, <2>2
<1>6. /\ requests' \in Seq(Request) /\ Len(requests') = r /\ r <= MaxRequests
      /\ r \in Ids /\ r \in Nat /\ r \in L' /\ Len(requests) <= Len(requests')
      /\ \A q \in L : requests'[q].parent = requests[q].parent
      /\ requests'[r].parent = parent
  <2>1. /\ requests' \in Seq(Request) /\ Len(requests') = r /\ r <= MaxRequests
        /\ r \in Ids /\ Len(requests) \in Nat
        /\ \A q \in L : requests'[q] = requests[q]
        /\ requests'[r] = x
    BY <1>1, <1>3, <1>5, RequestMade
  <2> QED
    BY <2>1, <1>3, <1>5 DEF L
<1>7. keys' = [keys EXCEPT ![n] = @ + 1] /\ keys' \in [Nodes -> Nat]
      /\ open' = open /\ failures' = failures
  <2>1. keys' = [keys EXCEPT ![n] = @ + 1] /\ open' = open /\ failures' = failures
    BY Zenon DEF Asks, RequestLocally, RequestUnknown, RequestRemotely
  <2>2. keys' \in [Nodes -> Nat]
    BY <1>2, <2>1
  <2> QED
    BY <2>1, <2>2
<1>8. PICK owner2 : owner2 = GivenTo(owner, k, r)
  OBVIOUS
<1>9. /\ Grows(owner, passed, owner2, passed)
      /\ owner2 \in Owners /\ owner2[k] = r
      /\ k \in Keys /\ k.at = n /\ ~Made(k) /\ Made(k)'
  <2>1. k \in Keys /\ k.at = n /\ ~Made(k) /\ Made(k)'
    BY <1>2, <1>4, <1>7, KeyMade
  <2>2. owner2 \in Owners /\ owner2[k] = r
    BY <1>6, <1>8, <2>1, GivenType
  <2>3. Grows(owner, passed, owner2, passed)
    BY <1>2, <1>4, <1>6, <1>7, <1>8, GrowsByKey
  <2> QED
    BY <2>1, <2>2, <2>3
<1>10. k \notin passed /\ k # NoKey
  BY <1>9, NoKeyIsNone DEF Owned
<1>11. ASSUME chains' \in [Nodes -> SUBSET Entries], chan' \in Channels,
              running' \in [Nodes -> Runs \cup {Idle}]
       PROVE  TypeOK'
  BY <1>1, <1>6, <1>7, <1>11 DEF TypeOK, Channels, Request
<1>12. ASSUME TypeOK' PROVE GoodBack(n, key, sender, parent, owner2, passed)'
  BY <1>1, <1>9, <1>12, BackStays
<1>13. ASSUME TypeOK', NEW e, NEW type \in {"RESPONSE", "METHODS"}, e = Entry(type, k, r, key, sender)
       PROVE  e \in Entries /\ GoodEntry(n, e, owner2, passed)'
  <2>1. /\ e \in Entries /\ e.type = type /\ e.id = k /\ e.about = r /\ e.key = key
        /\ e.sender = sender
    <3>1. type \in {"RESPONSE", "FORWARD", "METHODS"}
      BY <1>13
    <3>2. k \in Keys /\ r \in Ids
      BY <1>6, <1>9
    <3> QED
      BY <1>13, <3>1, <3>2, EntryType
  <2>2. Asker(e)' = parent
    BY <1>6, <2>1 DEF Asker
  <2>3. GoodBack(n, e.key, e.sender, Asker(e), owner2, passed)'
    BY <1>12, <1>13, <2>1, <2>2 DEF GoodBack
  <2> QED
    BY <1>6, <1>9, <2>1, <2>3 DEF GoodEntry
<1>14. CASE RequestLocally(n, parent, key, sender)
  <2>1. PICK e : e = Entry("RESPONSE", k, r, key, sender)
    OBVIOUS
  <2>2. PICK run : run = Local(r, k, n, key, sender)
    OBVIOUS
  <2>3. /\ chains' = [chains EXCEPT ![n] = @ \cup {e}] /\ chan' = chan
        /\ running' = [running EXCEPT ![n] = run]
    BY <1>3, <1>4, <1>14, <2>1, <2>2 DEF RequestLocally
  <2>4. /\ run \in Runs /\ run.in = "local" /\ run.about = r /\ run.key = k /\ run.sender = n
        /\ run.lastKey = key /\ run.lastSender = sender
    BY <1>2, <1>6, <1>9, <2>2, LocalType
  <2>5. e \in Entries
    BY <1>6, <1>9, <2>1, EntryType
  <2>6. TypeOK'
    <3>1. chains' \in [Nodes -> SUBSET Entries]
      BY <1>2, <2>3, <2>5
    <3>2. running' \in [Nodes -> Runs \cup {Idle}]
      BY <1>2, <2>3, <2>4
    <3> QED
      BY <1>2, <1>11, <2>3, <3>1, <3>2
  <2>7. GoodEntry(n, e, owner2, passed)'
    BY <1>13, <2>1, <2>6
  <2>8. GoodRun(n, run, owner2, passed)'
    <3>1. Subject(run)' = r
      BY <2>4 DEF Subject
    <3>2. GoodBack(n, run.key, run.sender, Subject(run), owner2, passed)'
      BY <1>6, <1>9, <1>10, <2>4, <3>1 DEF GoodBack
    <3>3. GoodBack(n, run.lastKey, run.lastSender, requests[run.about].parent, owner2, passed)'
      BY <1>6, <1>12, <2>4, <2>6 DEF GoodBack
    <3> QED
      BY <1>6, <1>10, <2>4, <3>2, <3>3 DEF GoodRun
  <2>20. \A p, q \in Nodes : \A g \in Elems(chan'[p][q]) :
           g \in Elems(chan[p][q]) \/ GoodFrame(p, g, owner2)'
    BY <2>3
  <2>21. \A p \in Nodes : \A d \in chains'[p] :
           d \in chains[p] \/ GoodEntry(p, d, owner2, passed)'
    BY <1>2, <2>3, <2>7
  <2>22. \A p \in Nodes : \A y : y = running'[p] =>
           y = running[p] \/ y = Idle \/ GoodRun(p, y, owner2, passed)'
    BY <1>2, <2>3, <2>8
  <2> QED
    BY <1>2, <1>7, <1>9, <2>3, <2>6, <2>20, <2>21, <2>22, StepKeeps
<1>15. CASE RequestUnknown(n, parent)
  <2>1. chains' = chains /\ chan' = chan /\ running' = [running EXCEPT ![n] = Idle]
    BY <1>15 DEF RequestUnknown
  <2>2. TypeOK'
    BY <1>2, <1>11, <2>1
  <2>20. \A p, q \in Nodes : \A g \in Elems(chan'[p][q]) :
           g \in Elems(chan[p][q]) \/ GoodFrame(p, g, owner2)'
    BY <2>1
  <2>21. \A p \in Nodes : \A d \in chains'[p] :
           d \in chains[p] \/ GoodEntry(p, d, owner2, passed)'
    BY <2>1
  <2>22. \A p \in Nodes : \A y : y = running'[p] =>
           y = running[p] \/ y = Idle \/ GoodRun(p, y, owner2, passed)'
    BY <1>2, <2>1
  <2> QED
    BY <1>2, <1>7, <1>9, <2>1, <2>2, <2>20, <2>21, <2>22, StepKeeps
<1>16. ASSUME NEW m \in Nodes, NEW to \in Nodes, NEW ask \in {Message, Methods},
              RequestRemotely(n, m, to, ask, parent, key, sender)
       PROVE  IInv'
  <2>0. ask.frame \in {"MSG_REQ", "METHODS"} /\ ask.entry \in {"RESPONSE", "METHODS"}
    BY <1>16 DEF Message, Methods
  <2>1. PICK e : e = Entry(ask.entry, k, r, key, sender)
    OBVIOUS
  <2>2. PICK f : f = Frame(ask.frame, k, to, n, r)
    OBVIOUS
  <2>3. /\ chains' = [chains EXCEPT ![n] = @ \cup {e}] /\ chan' = Sent(chan, n, m, f)
        /\ running' = [running EXCEPT ![n] = Idle]
    BY <1>3, <1>4, <1>16, <2>1, <2>2 DEF RequestRemotely
  <2>4. /\ f \in Frames /\ f.type = ask.frame /\ f.about = r /\ f.key = k /\ f.sender = n
    BY <1>2, <1>6, <1>9, <2>0, <2>2, FrameType
  <2>5. e \in Entries
    BY <1>6, <1>9, <2>0, <2>1, EntryType
  <2>6. chan' \in Channels /\ NoLoops(chan') /\ OnlyAdds(chan', n, f)
    BY <1>1, <1>2, <2>3, <2>4, ChanSent
  <2>7. TypeOK'
    <3>1. chains' \in [Nodes -> SUBSET Entries]
      BY <1>2, <2>3, <2>5
    <3>2. running' \in [Nodes -> Runs \cup {Idle}]
      BY <1>2, <2>3
    <3> QED
      BY <1>11, <2>6, <3>1, <3>2
  <2>8. GoodEntry(n, e, owner2, passed)'
    BY <1>13, <2>0, <2>1, <2>7
  <2>9. GoodFrame(n, f, owner2)'
    BY <1>6, <1>9, <2>4 DEF GoodFrame
  <2>20. \A p, q \in Nodes : \A g \in Elems(chan'[p][q]) :
           g \in Elems(chan[p][q]) \/ GoodFrame(p, g, owner2)'
    BY <2>6, <2>9 DEF OnlyAdds
  <2>21. \A p \in Nodes : \A d \in chains'[p] :
           d \in chains[p] \/ GoodEntry(p, d, owner2, passed)'
    BY <1>2, <2>3, <2>8
  <2>22. \A p \in Nodes : \A y : y = running'[p] =>
           y = running[p] \/ y = Idle \/ GoodRun(p, y, owner2, passed)'
    BY <1>2, <2>3
  <2> QED
    BY <1>2, <1>7, <1>9, <2>6, <2>7, <2>20, <2>21, <2>22, StepKeeps
<1> QED
  BY <1>14, <1>15, <1>16 DEF Asks

\* A frame for another module is passed on under a key of our own.
LEMMA OwnersForwarded ==
  ASSUME NEW n, NEW m, NEW to, NEW frame,
         IInv, n \in Nodes, m \in Nodes, to \in Nodes, chan[m][n] # <<>>,
         frame = Head(chan[m][n]), frame.type \in {"MSG_REQ", "METHODS"},
         Forward(n, m, frame, to), UNCHANGED <<running, requests, open, failures>>
  PROVE  IInv'
<1>1. TypeOK /\ Apart
  BY DEF IInv
<1>2. /\ NoLoops(chan) /\ OnlyOld(chan) /\ n \in Senders
      /\ chan \in Channels /\ chains \in [Nodes -> SUBSET Entries]
      /\ running \in [Nodes -> Runs \cup {Idle}] /\ keys \in [Nodes -> Nat]
      /\ requests \in Seq(Request) /\ Len(requests) <= MaxRequests
  BY <1>1 DEF TypeOK, Apart, Senders, Channels, Request, NoLoops, OnlyOld
<1>3. PICK owner \in Owners, passed \in SUBSET Keys : Owned(owner, passed)
  BY DEF IInv
<1>4. /\ frame \in Frames /\ GoodFrame(m, frame, owner) /\ frame.sender \in Nodes
      /\ Made(frame.key) /\ frame.key \in Keys /\ frame.about \in L /\ frame.about \in Ids
  BY <1>1, <1>3, HeadFacts
<1>5. frame.sender = m /\ frame.key.at = m /\ m # n /\ frame.about \in Nat
      /\ owner[frame.key] = frame.about /\ frame.sender \in Senders
  BY <1>1, <1>4 DEF GoodFrame, Apart, L, Senders
<1>6. PICK k : k = NextKey(n)
  OBVIOUS
<1>7. PICK e : e = Entry("FORWARD", k, frame.about, frame.key, frame.sender)
  OBVIOUS
<1>8. PICK f : f = Rekeyed(frame, k, n)
  OBVIOUS
<1>9. /\ chains' = [chains EXCEPT ![n] = @ \cup {e}] /\ keys' = [keys EXCEPT ![n] = @ + 1]
      /\ chan' = Sent(WithoutHead(n, m), n, to, f)
  BY <1>6, <1>7, <1>8 DEF Forward, Rekeyed
<1>10. PICK owner2 : owner2 = GivenTo(owner, k, frame.about)
  OBVIOUS
<1>11. PICK passed2 : passed2 = passed \cup {k}
  OBVIOUS
<1>12. k \in Keys /\ k.at = n /\ ~Made(k) /\ Made(k)'
  BY <1>2, <1>6, <1>9, KeyMade
<1>13. owner2 \in Owners /\ owner2[k] = frame.about
  BY <1>3, <1>5, <1>10, <1>12, GivenType
<1>14. /\ requests' = requests /\ running' = running /\ open' = open /\ failures' = failures
       /\ Len(requests) <= Len(requests')
       /\ \A q \in L : requests'[q].parent = requests[q].parent
  BY <1>2
<1>15. \A j : j # k => (j \in passed2 <=> j \in passed)
  BY <1>11
<1>16. Grows(owner, passed, owner2, passed2)
  BY <1>2, <1>3, <1>6, <1>9, <1>10, <1>14, <1>15, GrowsByKey
<1>17. /\ e \in Entries /\ e.type = "FORWARD" /\ e.id = k /\ e.about = frame.about
       /\ e.key = frame.key /\ e.sender = frame.sender
  <2>1. frame.key \in Keys \cup {NoKey} /\ "FORWARD" \in {"RESPONSE", "FORWARD", "METHODS"}
    BY <1>4
  <2>2. frame.about \in Ids /\ frame.sender \in Senders /\ k \in Keys
    BY <1>4, <1>5, <1>12
  <2> QED
    BY <1>7, <2>1, <2>2, EntryType
<1>18. f \in Frames /\ f.type = frame.type /\ f.key = k /\ f.about = frame.about /\ f.sender = n
  <2>1. k \in Keys \cup {NoKey}
    BY <1>12
  <2> QED
    BY <1>4, <1>8, <2>1, FrameRekeyed
<1>19. chan' \in Channels /\ NoLoops(chan') /\ OnlyAdds(chan', n, f)
  <2>1. PICK ch : ch = WithoutHead(n, m)
    OBVIOUS
  <2>2. ch \in Channels /\ NoLoops(ch) /\ OnlyOld(ch)
    BY <1>1, <2>1, ChanRead
  <2> QED
    BY <1>1, <1>9, <1>18, <2>1, <2>2, ChanSent
<1>20. TypeOK'
  <2>1. chains' \in [Nodes -> SUBSET Entries] /\ keys' \in [Nodes -> Nat]
    BY <1>2, <1>9, <1>17
  <2> QED
    BY <1>1, <1>14, <1>19, <2>1 DEF TypeOK, Channels
<1>21. GoodFrame(n, f, owner2)'
  BY <1>4, <1>12, <1>13, <1>14, <1>18 DEF GoodFrame, L
<1>22. GoodEntry(n, e, owner2, passed2)'
  <2>1. Made(frame.key)' /\ owner2[frame.key] = owner[frame.key]
    <3>1. PICK key : key = frame.key
      OBVIOUS
    <3>2. Made(key) /\ key \in Keys
      BY <1>4, <3>1
    <3>3. Made(key)' /\ owner2[key] = owner[key]
      BY <1>1, <1>16, <1>20, <3>2, MadeStays
    <3> QED
      BY <3>1, <3>3
  <2>2. frame.about \in L'
    BY <1>4, <1>14 DEF L
  <2>3. Asker(e)' = frame.about
    BY <1>17 DEF Asker
  <2>4. GoodBack(n, e.key, e.sender, Asker(e), owner2, passed2)'
    BY <1>5, <1>17, <2>1, <2>2, <2>3 DEF GoodBack
  <2>5. e.key # NoKey /\ k \in passed2
    BY <1>4, <1>11, <1>17, NoKeyIsNone
  <2> QED
    BY <1>12, <1>13, <1>17, <2>2, <2>4, <2>5 DEF GoodEntry
<1>23. \A p, q \in Nodes : \A g \in Elems(chan'[p][q]) :
         g \in Elems(chan[p][q]) \/ GoodFrame(p, g, owner2)'
  BY <1>19, <1>21 DEF OnlyAdds
<1>24. \A p \in Nodes : \A d \in chains'[p] :
         d \in chains[p] \/ GoodEntry(p, d, owner2, passed2)'
  BY <1>2, <1>9, <1>22
<1>25. \A p \in Nodes : \A y : y = running'[p] =>
         y = running[p] \/ y = Idle \/ GoodRun(p, y, owner2, passed2)'
  BY <1>14
<1>26. passed2 \in SUBSET Keys /\ \A j \in passed2 : j \in passed \/ Made(j)'
  BY <1>3, <1>11, <1>12
<1> QED
  BY <1>3, <1>13, <1>14, <1>16, <1>19, <1>20, <1>23, <1>24, <1>25, <1>26, StepKeeps

\* A frame is read; `f' is what is sent for it, if anything.
ReadAndSent(n, m, to, f) ==
  chan' = WithoutHead(n, m) \/ chan' = Sent(WithoutHead(n, m), n, to, f)

\* The channels then.
LEMMA ChanReadAndSent ==
  ASSUME NEW n, NEW m, NEW to, NEW f,
         TypeOK, Apart, n \in Nodes, m \in Nodes, chan[m][n] # <<>>, to \in Nodes, f \in Frames,
         ReadAndSent(n, m, to, f)
  PROVE  chan' \in Channels /\ NoLoops(chan') /\ OnlyAdds(chan', n, f)
<1>1. PICK ch : ch = WithoutHead(n, m)
  OBVIOUS
<1>2. ch \in Channels /\ NoLoops(ch) /\ OnlyOld(ch)
  BY <1>1, ChanRead
<1>3. CASE chan' = ch
  BY <1>2, <1>3 DEF OnlyOld, OnlyAdds
<1>4. CASE chan' = Sent(ch, n, to, f)
  BY <1>2, <1>4, ChanSent
<1> QED
  BY <1>1, <1>3, <1>4 DEF ReadAndSent

\* A frame is answered by the library, or its function is called.
LEMMA OwnersReceived ==
  ASSUME NEW n, NEW m, NEW frame,
         IInv, n \in Nodes, m \in Nodes, chan[m][n] # <<>>,
         frame = Head(chan[m][n]), frame.type \in {"MSG_REQ", "METHODS"},
         \/ ReadAndSent(n, m, m, Answer(frame, n)) /\ UNCHANGED running
         \/ /\ chan' = WithoutHead(n, m)
            /\ running' = [running EXCEPT ![n] =
                             Remote(frame.about, frame.key, frame.sender, m)],
         UNCHANGED <<chains, keys, requests, open, failures>>
  PROVE  IInv'
<1>1. TypeOK /\ Apart
  BY DEF IInv
<1>2. /\ n \in Senders /\ m \in Senders
      /\ chan \in Channels /\ chains \in [Nodes -> SUBSET Entries]
      /\ running \in [Nodes -> Runs \cup {Idle}]
      /\ requests \in Seq(Request)
  BY <1>1 DEF TypeOK, Apart, Senders, Channels, Request
<1>3. PICK owner \in Owners, passed \in SUBSET Keys : Owned(owner, passed)
  BY DEF IInv
<1>4. /\ frame \in Frames /\ GoodFrame(m, frame, owner) /\ frame.sender \in Nodes
      /\ Made(frame.key) /\ frame.key \in Keys /\ frame.about \in L /\ frame.about \in Ids
      /\ frame.key \in Keys \cup {NoKey}
  BY <1>1, <1>3, HeadFacts
<1>5. frame.sender = m /\ frame.key.at = m /\ m # n
      /\ owner[frame.key] = frame.about /\ frame.sender \in Senders
  BY <1>1, <1>4 DEF GoodFrame, Apart, Senders
<1>6. PICK f : f = Answer(frame, n)
  OBVIOUS
<1>7. PICK run : run = Remote(frame.about, frame.key, frame.sender, m)
  OBVIOUS
<1>8. f \in Frames /\ f.type = "MSG_RES" /\ f.key = frame.key /\ f.about = frame.about
  BY <1>4, <1>6, FrameAnswered
<1>9. /\ run \in Runs /\ run.in = "remote" /\ run.about = frame.about /\ run.key = frame.key
      /\ run.sender = m /\ run.conn = m
  <2>1. frame.about \in Ids /\ frame.key \in Keys \cup {NoKey} /\ m \in Senders
    BY <1>2, <1>4
  <2>2. frame.sender = m
    BY <1>5
  <2>3. run = Remote(frame.about, frame.key, m, m)
    BY <1>7, <2>2
  <2> QED
    BY <2>1, <2>3, RemoteType
<1>10. ReadAndSent(n, m, m, f) /\ (running' = running \/ running' = [running EXCEPT ![n] = run])
  BY <1>6, <1>7 DEF ReadAndSent
<1>11. chan' \in Channels /\ NoLoops(chan') /\ OnlyAdds(chan', n, f)
  BY <1>1, <1>8, <1>10, ChanReadAndSent
<1>12. /\ requests' = requests /\ open' = open /\ failures' = failures /\ keys' = keys
       /\ chains' = chains /\ Len(requests) <= Len(requests')
       /\ \A q \in L : requests'[q].parent = requests[q].parent
  BY <1>2
<1>13. TypeOK'
  <2>1. running' \in [Nodes -> Runs \cup {Idle}]
    BY <1>2, <1>9, <1>10
  <2> QED
    BY <1>1, <1>11, <1>12, <2>1 DEF TypeOK, Channels
<1>14. Grows(owner, passed, owner, passed)
  BY <1>1, <1>12, GrowsSame
<1>15. Made(frame.key)' /\ frame.about \in L'
  BY <1>4, <1>12 DEF Made, L
<1>16. GoodFrame(n, f, owner)'
  BY <1>5, <1>8, <1>15 DEF GoodFrame
<1>17. GoodRun(n, run, owner, passed)'
  <2>1. Subject(run)' = run.about
    BY <1>9 DEF Subject
  <2>2. GoodBack(n, run.key, run.sender, Subject(run), owner, passed)'
    BY <1>5, <1>9, <1>15, <2>1 DEF GoodBack
  <2> QED
    BY <1>4, <1>9, <1>15, <2>2, NoKeyIsNone DEF GoodRun
<1>18. \A p, q \in Nodes : \A g \in Elems(chan'[p][q]) :
         g \in Elems(chan[p][q]) \/ GoodFrame(p, g, owner)'
  BY <1>11, <1>16 DEF OnlyAdds
<1>19. \A p \in Nodes : \A d \in chains'[p] :
         d \in chains[p] \/ GoodEntry(p, d, owner, passed)'
  BY <1>12
<1>20. \A p \in Nodes : \A y : y = running'[p] =>
         y = running[p] \/ y = Idle \/ GoodRun(p, y, owner, passed)'
  BY <1>2, <1>10, <1>17
<1> QED
  BY <1>3, <1>11, <1>12, <1>13, <1>14, <1>18, <1>19, <1>20, StepKeeps

\* The answer of a request of our own, or of one that was passed on, or one that
\* nobody waits for.
LEMMA OwnersAnswered ==
  ASSUME NEW n, NEW m,
         IInv, n \in Nodes, m \in Nodes, OnMsgResponse(n, m)
  PROVE  IInv'
<1>1. TypeOK /\ Apart
  BY DEF IInv
<1>2. PICK owner \in Owners, passed \in SUBSET Keys : Owned(owner, passed)
  BY DEF IInv
<1>3. PICK frame : frame = Head(chan[m][n])
  OBVIOUS
<1>4. /\ chan[m][n] # <<>> /\ frame.type = "MSG_RES" /\ running[n] = Idle
      /\ keys' = keys /\ open' = open /\ failures' = failures
  BY <1>3 DEF OnMsgResponse, Received
<1>5. /\ frame \in Frames /\ GoodFrame(m, frame, owner) /\ frame \in Elems(chan[m][n])
      /\ Made(frame.key) /\ frame.key \in Keys /\ frame.about \in L /\ frame.about \in Ids
      /\ owner[frame.key] = frame.about
  <2>1. /\ frame \in Frames /\ GoodFrame(m, frame, owner) /\ frame \in Elems(chan[m][n])
        /\ Made(frame.key) /\ frame.key \in Keys /\ frame.about \in L /\ frame.about \in Ids
    BY <1>1, <1>2, <1>3, <1>4, HeadFacts
  <2> QED
    BY <1>4, <2>1 DEF GoodFrame
<1>6. /\ NoLoops(chan) /\ OnlyOld(chan)
      /\ chan \in Channels /\ chains \in [Nodes -> SUBSET Entries]
      /\ running \in [Nodes -> Runs \cup {Idle}]
      /\ requests \in Seq(Request) /\ L = 1 .. Len(requests) /\ Len(requests) \in Nat
  BY <1>1 DEF TypeOK, Apart, Channels, Request, NoLoops, OnlyOld, L
<1>7. ASSUME NEW f, f \in Frames, ReadAndSent(n, m, m, f) \/ \E to \in Nodes : ReadAndSent(n, m, to, f)
      PROVE  chan' \in Channels /\ NoLoops(chan') /\ OnlyAdds(chan', n, f)
  BY <1>1, <1>4, <1>7, ChanReadAndSent
<1>8. ASSUME requests' \in Seq(Request), Len(requests') = Len(requests),
             chains' \in [Nodes -> SUBSET Entries], chan' \in Channels,
             running' \in [Nodes -> Runs \cup {Idle}]
      PROVE  TypeOK'
  BY <1>1, <1>4, <1>8 DEF TypeOK, Channels, Request
<1>9. ASSUME NEW e, e \in chains[n], e.id = frame.key,
             chains' = [chains EXCEPT ![n] = @ \ {e}], OnAnswer(n, m, e)
      PROVE  IInv'
  <2>1. PICK r2 : r2 = Callback(e.about, e.key, e.sender)
    OBVIOUS
  <2>2. /\ e.type # "FORWARD"
        /\ running' = [running EXCEPT ![n] = IF e.type = "RESPONSE" THEN r2 ELSE @]
        /\ requests' = Called(requests, e.about) /\ chan' = WithoutHead(n, m)
    BY <1>9, <2>1 DEF OnAnswer
  <2>3. /\ GoodEntry(n, e, owner, passed) /\ e.about \in L /\ e.about \in Ids
        /\ e.key \in Keys \cup {NoKey} /\ e.sender \in Senders
    BY <1>1, <1>2, <1>9, EntryFacts
  <2>4. GoodBack(n, e.key, e.sender, requests[e.about].parent, owner, passed)
    BY <2>2, <2>3 DEF GoodEntry, Asker
  <2>5. r2 \in Runs
    BY <2>1, <2>3, CallbackType
  <2>6. /\ requests' \in Seq(Request) /\ Len(requests') = Len(requests)
        /\ \A q \in L : requests'[q].parent = requests[q].parent
    BY <1>6, <2>2, <2>3, CalledType
  <2>7. Grows(owner, passed, owner, passed)
    BY <1>1, <1>4, <1>6, <2>6, GrowsSame
  <2>8. chan' \in Channels /\ NoLoops(chan') /\ OnlyAdds(chan', n, frame)
    BY <1>5, <1>7, <2>2 DEF ReadAndSent
  <2>9. \A p \in Nodes : running'[p] = running[p] \/ (p = n /\ running'[p] = r2)
    BY <1>6, <2>2
  <2>10. TypeOK'
    <3>1. running' \in [Nodes -> Runs \cup {Idle}]
      BY <1>6, <2>2, <2>5
    <3>2. chains' \in [Nodes -> SUBSET Entries]
      BY <1>6, <1>9
    <3> QED
      BY <1>8, <2>6, <2>8, <3>1, <3>2
  <2>11. GoodRun(n, r2, owner, passed)'
    BY <1>1, <2>1, <2>3, <2>4, <2>7, <2>10, CallbackGood
  <2>12. OnlyOld(chan')
    BY <1>1, <1>4, <2>2, ChanRead
  <2>20. \A p, q \in Nodes : \A g \in Elems(chan'[p][q]) :
           g \in Elems(chan[p][q]) \/ GoodFrame(p, g, owner)'
    BY <2>12 DEF OnlyOld
  <2>21. \A p \in Nodes : \A d \in chains'[p] :
           d \in chains[p] \/ GoodEntry(p, d, owner, passed)'
    BY <1>6, <1>9
  <2>22. \A p \in Nodes : \A x : x = running'[p] =>
           x = running[p] \/ x = Idle \/ GoodRun(p, x, owner, passed)'
    BY <2>9, <2>11
  <2> QED
    BY <1>2, <1>4, <2>7, <2>8, <2>10, <2>20, <2>21, <2>22, StepKeeps
<1>10. ASSUME NEW e, e \in chains[n], e.id = frame.key,
              chains' = [chains EXCEPT ![n] = @ \ {e}], OnForwardedAnswer(n, m, e)
       PROVE  IInv'
  <2>1. PICK f : f = Rekeyed(frame, e.key, e.sender)
    OBVIOUS
  <2>2. e.type = "FORWARD" /\ running' = running /\ requests' = requests
    BY <1>10 DEF OnForwardedAnswer
  <2>3. GoodEntry(n, e, owner, passed) /\ e.key \in Keys \cup {NoKey}
    BY <1>1, <1>2, <1>10, EntryFacts
  <2>4. /\ GoodBack(n, e.key, e.sender, e.about, owner, passed)
        /\ e.key # NoKey /\ owner[e.id] = e.about
    BY <2>2, <2>3 DEF GoodEntry, Asker
  <2>5. /\ e.key \in Keys /\ Made(e.key) /\ e.sender \in Nodes /\ owner[e.key] = frame.about
    BY <1>5, <1>10, <2>4, BackFacts
  <2>12. ReadAndSent(n, m, m, f) \/ \E to \in Nodes : ReadAndSent(n, m, to, f)
    <3>1. f = [Head(chan[m][n]) EXCEPT !.key = e.key, !.sender = e.sender]
      BY <1>3, <2>1 DEF Rekeyed
    <3>2. \A to : to \in Route(n, e.sender) => to \in Nodes
      BY <2>5, HopsAssumption DEF Route
    <3>3. \/ \E to \in Route(n, e.sender) : chan' = Sent(WithoutHead(n, m), n, to, f)
          \/ Route(n, e.sender) = {} /\ chan' = WithoutHead(n, m)
      BY <1>10, <3>1, Zenon DEF OnForwardedAnswer
    <3>4. CASE chan' = WithoutHead(n, m)
      BY <3>4 DEF ReadAndSent
    <3>5. CASE \E to \in Route(n, e.sender) : chan' = Sent(WithoutHead(n, m), n, to, f)
      BY <3>2, <3>5 DEF ReadAndSent
    <3> QED
      BY <3>3, <3>4, <3>5
  <2>6. f \in Frames /\ f.type = "MSG_RES" /\ f.key = e.key /\ f.about = frame.about
    BY <1>4, <1>5, <2>1, <2>3, <2>5, FrameRekeyed
  <2>7. chan' \in Channels /\ NoLoops(chan') /\ OnlyAdds(chan', n, f)
    BY <1>7, <2>6, <2>12
  <2>8. Grows(owner, passed, owner, passed)
    BY <1>1, <1>4, <1>6, <2>2, GrowsSame
  <2>9. chains' \in [Nodes -> SUBSET Entries]
    BY <1>6, <1>10
  <2>10. TypeOK'
    BY <1>6, <1>8, <2>2, <2>7, <2>9
  <2>11. GoodFrame(n, f, owner)'
    BY <1>4, <1>5, <2>2, <2>5, <2>6 DEF GoodFrame, Made, L
  <2>20. \A p, q \in Nodes : \A g \in Elems(chan'[p][q]) :
           g \in Elems(chan[p][q]) \/ GoodFrame(p, g, owner)'
    BY <2>7, <2>11 DEF OnlyAdds
  <2>21. \A p \in Nodes : \A d \in chains'[p] :
           d \in chains[p] \/ GoodEntry(p, d, owner, passed)'
    BY <1>6, <1>10
  <2>22. \A p \in Nodes : \A x : x = running'[p] =>
           x = running[p] \/ x = Idle \/ GoodRun(p, x, owner, passed)'
    BY <2>2
  <2> QED
    BY <1>2, <1>4, <2>7, <2>8, <2>10, <2>20, <2>21, <2>22, StepKeeps
<1>11. CASE chan' = WithoutHead(n, m) /\ UNCHANGED <<chains, running, requests>>
  <2>1. chan' \in Channels /\ NoLoops(chan') /\ OnlyOld(chan')
    BY <1>1, <1>4, <1>11, ChanRead
  <2>2. Grows(owner, passed, owner, passed)
    BY <1>1, <1>4, <1>6, <1>11, GrowsSame
  <2>3. TypeOK'
    BY <1>6, <1>8, <1>11, <2>1
  <2>20. \A p, q \in Nodes : \A g \in Elems(chan'[p][q]) :
           g \in Elems(chan[p][q]) \/ GoodFrame(p, g, owner)'
    BY <2>1 DEF OnlyOld
  <2>21. \A p \in Nodes : \A d \in chains'[p] :
           d \in chains[p] \/ GoodEntry(p, d, owner, passed)'
    BY <1>11
  <2>22. \A p \in Nodes : \A x : x = running'[p] =>
           x = running[p] \/ x = Idle \/ GoodRun(p, x, owner, passed)'
    BY <1>11
  <2> QED
    BY <1>2, <1>4, <2>1, <2>2, <2>3, <2>20, <2>21, <2>22, StepKeeps
<1> QED
  BY <1>3, <1>9, <1>10, <1>11 DEF OnMsgResponse

\* A connection is removed, because it failed or because the other end closed it.
LEMMA OwnersRemoved ==
  ASSUME NEW n, NEW m,
         IInv, n \in Nodes, m \in Nodes, ConnRm(n, m), failures' \in 0 .. MaxFailures
  PROVE  IInv'
<1>1. TypeOK /\ Apart
  BY DEF IInv
<1>2. PICK owner \in Owners, passed \in SUBSET Keys : Owned(owner, passed)
  BY DEF IInv
<1>3. PICK f : f = Close(n)
  OBVIOUS
<1>4. f \in Frames /\ f.type = "CLOSE"
  <2>1. "CLOSE" \in {"MSG_REQ", "MSG_RES", "METHODS", "CLOSE"}
        /\ NoKey \in Keys \cup {NoKey} /\ NoRequest \in Ids \cup {NoRequest}
    OBVIOUS
  <2> QED
    BY <1>3, <2>1, FrameType DEF Close
<1>5. PICK ch : ch = [chan EXCEPT ![m][n] = <<>>]
  OBVIOUS
<1>6. chan' = Sent(ch, n, m, f) /\ open' = [open EXCEPT ![n][m] = FALSE]
      /\ UNCHANGED <<requests, chains, keys, running>>
  BY <1>3, <1>5 DEF ConnRm
<1>7. chan \in Channels /\ open \in [Nodes -> [Nodes -> BOOLEAN]] /\ NoLoops(chan)
  BY <1>1 DEF TypeOK, Channels, Apart, NoLoops
<1>8. ch \in Channels
  BY <1>5, <1>7 DEF Channels
<1>9. NoLoops(ch) /\ OnlyOld(ch)
  <2>1. \A p, q \in Nodes : ch[p][q] = IF p = m /\ q = n THEN <<>> ELSE chan[p][q]
    BY <1>5, <1>7 DEF Channels
  <2>2. Elems(<<>>) = {}
    BY DEF Elems
  <2> QED
    BY <1>7, <2>1, <2>2 DEF NoLoops, OnlyOld
<1>10. chan' \in Channels /\ NoLoops(chan') /\ OnlyAdds(chan', n, f)
  BY <1>1, <1>4, <1>6, <1>8, <1>9, ChanSent
<1>11. open' \in [Nodes -> [Nodes -> BOOLEAN]] /\ \A p \in Nodes : ~open'[p][p]
  <2>1. \A b \in BOOLEAN : [open EXCEPT ![n][m] = b] \in [Nodes -> [Nodes -> BOOLEAN]]
    BY <1>7
  <2>2. \A p, q \in Nodes : open'[p][q] = IF p = n /\ q = m THEN FALSE ELSE open[p][q]
    BY <1>6, <1>7
  <2>3. \A p \in Nodes : ~open'[p][p]
    BY <1>1, <2>2 DEF Apart
  <2> QED
    BY <1>6, <2>1, <2>3
<1>12. TypeOK'
  BY <1>1, <1>6, <1>10, <1>11 DEF TypeOK, Channels
<1>13. Grows(owner, passed, owner, passed)
  <2>1. keys' = keys /\ Len(requests) <= Len(requests')
        /\ \A q \in L : requests'[q].parent = requests[q].parent
    BY <1>1, <1>6 DEF TypeOK
  <2> QED
    BY <1>1, <2>1, GrowsSame
<1>14. \A p, q \in Nodes : \A g \in Elems(chan'[p][q]) :
         g \in Elems(chan[p][q]) \/ GoodFrame(p, g, owner)'
  BY <1>4, <1>10 DEF OnlyAdds, GoodFrame
<1>15. \A p \in Nodes : \A d \in chains'[p] :
         d \in chains[p] \/ GoodEntry(p, d, owner, passed)'
  BY <1>6
<1>16. \A p \in Nodes : \A x : x = running'[p] =>
         x = running[p] \/ x = Idle \/ GoodRun(p, x, owner, passed)'
  BY <1>6
<1>17. Owned(owner, passed)'
  BY <1>1, <1>2, <1>12, <1>13, <1>14, <1>15, <1>16, OwnedStays
<1>18. Apart'
  BY <1>10, <1>11 DEF Apart, NoLoops
<1> QED
  BY <1>2, <1>12, <1>17, <1>18 DEF IInv

\* An application asks a module that it has no route to: its callback is told so.
LEMMA OwnersRefused ==
  ASSUME NEW n,
         IInv, n \in Nodes, Len(requests) < MaxRequests,
         requests' = Append(requests, NewRequest(n, NoRequest, 1)),
         UNCHANGED <<chains, keys, running, open, chan, failures>>
  PROVE  IInv'
<1>1. TypeOK /\ Apart
  BY DEF IInv
<1>2. PICK owner \in Owners, passed \in SUBSET Keys : Owned(owner, passed)
  BY DEF IInv
<1>3. PICK x : x = NewRequest(n, NoRequest, 1)
  OBVIOUS
<1>4. x \in Request
  <2>1. 1 \in Nat /\ NoRequest \in Ids \cup {NoRequest}
    OBVIOUS
  <2> QED
    BY <1>3, <2>1, NewRequestType
<1>5. /\ requests' \in Seq(Request) /\ Len(requests') = Len(requests) + 1
      /\ Len(requests) + 1 <= MaxRequests /\ Len(requests) \in Nat
      /\ \A q \in L : requests'[q] = requests[q]
  BY <1>1, <1>3, <1>4, RequestMade
<1>6. TypeOK'
  BY <1>1, <1>5 DEF TypeOK, Request
<1>7. Grows(owner, passed, owner, passed)
  <2>1. Len(requests) <= Len(requests')
    BY <1>5
  <2>2. \A q \in L : requests'[q].parent = requests[q].parent
    BY <1>5
  <2> QED
    BY <1>1, <2>1, <2>2, GrowsSame
<1>8. NoLoops(chan')
  BY <1>1 DEF Apart, NoLoops
<1>9. \A p, q \in Nodes : \A g \in Elems(chan'[p][q]) :
         g \in Elems(chan[p][q]) \/ GoodFrame(p, g, owner)'
  OBVIOUS
<1>10. \A p \in Nodes : \A d \in chains'[p] :
         d \in chains[p] \/ GoodEntry(p, d, owner, passed)'
  OBVIOUS
<1>11. \A p \in Nodes : \A y : y = running'[p] =>
         y = running[p] \/ y = Idle \/ GoodRun(p, y, owner, passed)'
  OBVIOUS
<1>12. open' = open
  OBVIOUS
<1> QED
  BY <1>2, <1>6, <1>7, <1>8, <1>9, <1>10, <1>11, <1>12, StepKeeps

\* At first nothing is asked and nothing is on its way.
LEMMA OwnersInit == Init => IInv
<1> SUFFICES ASSUME Init PROVE IInv
  OBVIOUS
<1>1. chan = [n \in Nodes |-> [m \in Nodes |-> <<>>]] /\ \A n, m \in Nodes : chan[n][m] = <<>>
  BY DEF Init
<1>2. chan \in Channels
  BY <1>1 DEF Channels
<1>3. \A n \in Nodes : {n, n} \notin Links
  <2>1. ASSUME NEW n \in Nodes, {n, n} \in Links PROVE FALSE
    <3>1. Cardinality({n}) = 1
      BY FS_Singleton
    <3>2. {n, n} = {n}
      OBVIOUS
    <3> QED
      BY <2>1, <3>1, <3>2, LinksAssumption
  <2> QED
    BY <2>1
<1>4. Apart
  BY <1>1, <1>3 DEF Init, Apart
<1>5. open \in [Nodes -> [Nodes -> BOOLEAN]]
  <2>1. \A n, m \in Nodes : ({n, m} \in Links) \in BOOLEAN
    OBVIOUS
  <2> QED
    BY <2>1, Zenon DEF Init
<1>6. TypeOK
  <2>1. requests \in Seq(Request) /\ Len(requests) <= MaxRequests /\ failures \in 0 .. MaxFailures
    BY BoundsAssumption DEF Init
  <2>2. chains \in [Nodes -> SUBSET Entries] /\ keys \in [Nodes -> Nat]
        /\ running \in [Nodes -> Runs \cup {Idle}]
    BY DEF Init
  <2> QED
    BY <1>2, <1>5, <2>1, <2>2 DEF TypeOK, Request, Channels
<1>7. PICK owner : owner = [k \in Keys |-> 0]
  OBVIOUS
<1>8. owner \in Owners /\ {} \in SUBSET Keys
  BY <1>7 DEF Owners
<1>9. Owned(owner, {})
  <2>1. Elems(<<>>) = {}
    BY DEF Elems
  <2>2. \A n, m \in Nodes : Elems(chan[n][m]) = {}
    BY <1>1, <2>1
  <2>3. \A n \in Nodes : chains[n] = {} /\ running[n] = Idle
    BY DEF Init
  <2> QED
    BY <2>2, <2>3 DEF Owned
<1> QED
  BY <1>4, <1>6, <1>8, <1>9 DEF IInv

\* A request of an application keeps the keys right.
LEMMA OwnersStart ==
  ASSUME NEW n, NEW x, NEW ask,
         IInv, n \in Nodes, x \in Nodes, ask \in {Message, Methods}, Start(n, x, ask)
  PROVE  IInv'
<1>1. PICK owner \in Owners, passed \in SUBSET Keys : Owned(owner, passed)
  BY DEF IInv
<1>2. Len(requests) < MaxRequests
  BY DEF Start
<1>3. GoodBack(n, NoKey, NoNode, NoRequest, owner, passed)
  BY DEF GoodBack
<1>4. NoRequest \in Ids \cup {NoRequest} /\ NoKey \in Keys \cup {NoKey} /\ NoNode \in Senders
  BY DEF Senders
<1>5. \A m : m \in Route(n, x) => m \in Nodes
  BY HopsAssumption DEF Route
<1>6. CASE Asks(n, NoRequest, NoKey, NoNode)
  BY <1>1, <1>2, <1>3, <1>4, <1>6, OwnersAsked
<1>7. CASE /\ requests' = Append(requests, NewRequest(n, NoRequest, 1))
           /\ UNCHANGED <<chains, keys, running, open, chan, failures>>
  BY <1>2, <1>7, OwnersRefused
<1> QED
  BY <1>5, <1>6, <1>7 DEF Start, Asks

\* A function that returns qbus_continue keeps the keys right.
LEMMA OwnersContinue ==
  ASSUME NEW n, NEW x,
         IInv, n \in Nodes, x \in Nodes, Continue(n, x)
  PROVE  IInv'
<1>1. PICK owner \in Owners, passed \in SUBSET Keys : Owned(owner, passed)
  BY DEF IInv
<1>2. TypeOK
  BY DEF IInv
<1>3. PICK run : run = running[n]
  OBVIOUS
<1>4. running[n] # Idle /\ run.key # NoKey /\ Len(requests) < MaxRequests
  BY <1>3 DEF Continue
<1>5. /\ GoodRun(n, run, owner, passed) /\ run.key \in Keys \cup {NoKey}
      /\ run.sender \in Senders /\ Subject(run) \in Ids \cup {NoRequest}
  BY <1>1, <1>2, <1>3, <1>4, RunFacts
<1>6. PICK parent : parent = Subject(run)
  OBVIOUS
<1>7. GoodBack(n, run.key, run.sender, parent, owner, passed)
  BY <1>5, <1>6 DEF GoodRun
<1>8. \A m : m \in Route(n, x) => m \in Nodes
  BY HopsAssumption DEF Route
<1>9. CASE Asks(n, parent, run.key, run.sender)
  BY <1>1, <1>4, <1>5, <1>6, <1>7, <1>9, OwnersAsked
<1>10. CASE /\ Finished(n, Append(requests, NewRequest(n, parent, 1)))
            /\ UNCHANGED <<keys, open, failures>>
  <2>1. PICK r : r = NewRequest(n, parent, 1)
    OBVIOUS
  <2>2. PICK reqs : reqs = Append(requests, r)
    OBVIOUS
  <2>3. r \in Request
    <3>1. 1 \in Nat
      OBVIOUS
    <3> QED
      BY <1>5, <1>6, <2>1, <3>1, NewRequestType
  <2>4. /\ reqs \in Seq(Request) /\ Len(reqs) = Len(requests) + 1
        /\ Len(requests) + 1 <= MaxRequests /\ Len(requests) \in Nat
        /\ \A q \in L : reqs[q] = requests[q]
    BY <1>2, <1>4, <2>2, <2>3, RequestMade
  <2>5. Len(requests) <= Len(reqs) /\ Len(reqs) <= MaxRequests
    BY <2>4
  <2>6. Finished(n, reqs)
    BY <1>10, <2>1, <2>2
  <2> QED
    BY <1>4, <1>10, <2>4, <2>5, <2>6, OwnersFinished
<1>11. \/ Asks(n, parent, run.key, run.sender)
       \/ /\ Finished(n, Append(requests, NewRequest(n, parent, 1)))
          /\ UNCHANGED <<keys, open, failures>>
  <2> USE DEF Message, Methods
  <2> QED
    BY <1>3, <1>6, <1>8 DEF Continue, Asks
<1> QED
  BY <1>9, <1>10, <1>11

\* A request that is received keeps the keys right.
LEMMA OwnersRequested ==
  ASSUME NEW n, NEW m,
         IInv, n \in Nodes, m \in Nodes, OnMsgRequest(n, m) \/ OnMethodsRequest(n, m)
  PROVE  IInv'
<1>1. PICK frame : frame = Head(chan[m][n])
  OBVIOUS
<1>2. /\ chan[m][n] # <<>> /\ frame.type \in {"MSG_REQ", "METHODS"}
      /\ UNCHANGED <<requests, open, failures>>
  BY <1>1 DEF OnMsgRequest, OnMethodsRequest, Received
<1>3. PICK owner \in Owners, passed \in SUBSET Keys : Owned(owner, passed)
  BY DEF IInv
<1>4. frame.module \in Nodes
  BY <1>1, <1>2, <1>3, HeadFacts DEF IInv
<1>5. \A to : to \in Route(n, frame.module) => to \in Nodes
  BY <1>4, HopsAssumption DEF Route
<1>6. CASE ForwardOrRefuse(n, m, frame)
  <2>1. CASE \E to \in Route(n, frame.module) : Forward(n, m, frame, to)
    BY <1>1, <1>2, <1>5, <1>6, <2>1, OwnersForwarded DEF ForwardOrRefuse
  <2>2. CASE /\ chan' = Sent(WithoutHead(n, m), n, m, Answer(frame, n))
             /\ UNCHANGED <<chains, keys>>
    <3>1. ReadAndSent(n, m, m, Answer(frame, n)) /\ UNCHANGED running
      BY <1>6, <2>2 DEF ForwardOrRefuse, ReadAndSent
    <3> QED
      BY <1>1, <1>2, <2>2, <3>1, OwnersReceived
  <2> QED
    BY <1>6, <2>1, <2>2 DEF ForwardOrRefuse
<1>7. CASE /\ running' = [running EXCEPT ![n] = Remote(frame.about, frame.key, frame.sender, m)]
           /\ chan' = WithoutHead(n, m)
           /\ UNCHANGED <<chains, keys>>
  BY <1>1, <1>2, <1>7, OwnersReceived
<1>8. CASE /\ chan' = Sent(WithoutHead(n, m), n, m, Answer(frame, n))
           /\ UNCHANGED <<chains, keys, running>>
  <2>1. ReadAndSent(n, m, m, Answer(frame, n)) /\ UNCHANGED running
    BY <1>8 DEF ReadAndSent
  <2> QED
    BY <1>1, <1>2, <1>8, <2>1, OwnersReceived
<1> QED
  BY <1>1, <1>6, <1>7, <1>8 DEF OnMsgRequest, OnMethodsRequest

\* Every step keeps the keys right.
LEMMA OwnersNext == IInv /\ [Next]_vars => IInv'
<1> SUFFICES ASSUME IInv, [Next]_vars PROVE IInv'
  OBVIOUS
<1>1. ASSUME NEW n \in Clients, NEW x \in Nodes, Start(n, x, Message) \/ Start(n, x, Methods)
      PROVE  IInv'
  <2>1. n \in Nodes /\ Message \in {Message, Methods} /\ Methods \in {Message, Methods}
    BY ClientsAssumption
  <2> QED
    BY <1>1, <2>1, OwnersStart
<1>2. ASSUME NEW n \in Nodes, NEW x \in Nodes, Continue(n, x) PROVE IInv'
  BY <1>2, OwnersContinue
<1>3. ASSUME NEW n \in Nodes, Return(n) PROVE IInv'
  <2>1. /\ running[n] # Idle /\ Finished(n, requests) /\ UNCHANGED <<keys, open, failures>>
    BY <1>3 DEF Return
  <2>2. /\ requests \in Seq(Request) /\ Len(requests) <= Len(requests)
        /\ Len(requests) <= MaxRequests /\ \A q \in L : requests[q] = requests[q]
    BY DEF IInv, TypeOK, Request
  <2> QED
    BY <2>1, <2>2, OwnersFinished
<1>4. ASSUME NEW n \in Nodes, NEW m \in Nodes, OnMsgRequest(n, m) \/ OnMethodsRequest(n, m)
      PROVE  IInv'
  BY <1>4, OwnersRequested
<1>5. ASSUME NEW n \in Nodes, NEW m \in Nodes, OnMsgResponse(n, m) PROVE IInv'
  BY <1>5, OwnersAnswered
<1>6. ASSUME NEW n \in Nodes, NEW m \in Nodes, OnClose(n, m) PROVE IInv'
  <2>1. ConnRm(n, m) /\ failures' \in 0 .. MaxFailures
    BY <1>6 DEF OnClose, IInv, TypeOK
  <2> QED
    BY <2>1, OwnersRemoved
<1>7. ASSUME NEW n \in Nodes, NEW m \in Nodes, LinkFails(n, m) PROVE IInv'
  <2>1. ConnRm(n, m)
    BY <1>7 DEF LinkFails
  <2>2. failures' \in 0 .. MaxFailures
    BY <1>7, BoundsAssumption DEF LinkFails, IInv, TypeOK
  <2> QED
    BY <2>1, <2>2, OwnersRemoved
<1>8. CASE UNCHANGED vars
  <2>1. TypeOK' /\ Apart'
    BY <1>8 DEF vars, IInv, TypeOK, Apart
  <2>2. PICK owner \in Owners, passed \in SUBSET Keys : Owned(owner, passed)
    BY DEF IInv
  <2>3. Owned(owner, passed)'
    BY <1>8, <2>2 DEF vars, Owned, GoodFrame, GoodEntry, GoodRun, GoodBack, Made, L, Asker, Subject
  <2> QED
    BY <2>1, <2>2, <2>3 DEF IInv
<1> QED
  BY <1>1, <1>2, <1>3, <1>4, <1>5, <1>6, <1>7, <1>8 DEF Next

\* The keys and what they are about are right in every state.
THEOREM OwnersCorrect == Spec => []IInv
<1>1. Init => IInv
  BY OwnersInit
<1>2. IInv /\ [Next]_vars => IInv'
  BY OwnersNext
<1> QED
  BY <1>1, <1>2, PTL DEF Spec

\* Every variable has its type: an entry is made under a real chain key, and a
\* function knows a key and a sender to go back to.
THEOREM TypeCorrect == Spec => []TypeOK
<1>1. IInv => TypeOK
  BY DEF IInv
<1> QED
  BY <1>1, OwnersCorrect, PTL

\* An answer that will find an entry under its key is the answer to the request the
\* entry was made for (qbus_route_on_msg_response takes the entry out by the key).
THEOREM AnswersCorrect == Spec => []AnswersMatch
<1>1. IInv => AnswersMatch
  <2> SUFFICES ASSUME IInv, NEW n \in Nodes, NEW m \in Nodes, NEW i \in 1 .. Len(chan[m][n]),
                      NEW e \in chains[n], chan[m][n][i].type = "MSG_RES",
                      chan[m][n][i].key = e.id
               PROVE  chan[m][n][i].about = e.about
    BY DEF AnswersMatch
  <2>1. PICK owner \in Owners, passed \in SUBSET Keys : Owned(owner, passed)
    BY DEF IInv
  <2>2. GoodFrame(m, chan[m][n][i], owner) /\ GoodEntry(n, e, owner, passed)
    BY <2>1 DEF Owned, Elems
  <2> QED
    BY <2>2 DEF GoodFrame, GoodEntry
<1> QED
  BY <1>1, OwnersCorrect, PTL

-----------------------------------------------------------------------------
\* Every key is in one place at a time.

\* The places differ.
LEMMA PlacesDiffer ==
  /\ \A n, m, p, q : OnChan(n, m) = OnChan(p, q) => n = p /\ m = q
  /\ \A n, p : InRun(n) = InRun(p) => n = p
  /\ \A k, j : InEntry(k) = InEntry(j) => k = j
  /\ \A n, m, p : OnChan(n, m) # InRun(p)
  /\ \A n, m, k : OnChan(n, m) # InEntry(k)
  /\ \A n, k : InRun(n) # InEntry(k)
  /\ \A n, m : OnChan(n, m) # Nowhere
  /\ \A n : InRun(n) # Nowhere
  /\ \A k : InEntry(k) # Nowhere
<1>1. \A n, m, p, q : OnChan(n, m) = OnChan(p, q) => n = p /\ m = q
  BY DEF OnChan
<1>2. \A n, p : InRun(n) = InRun(p) => n = p
  BY DEF InRun
<1>3. \A k, j : InEntry(k) = InEntry(j) => k = j
  BY DEF InEntry
<1>4. \A n, m, p : OnChan(n, m) # InRun(p)
  BY DEF OnChan, InRun
<1>5. \A n, m, k : OnChan(n, m) # InEntry(k)
  BY DEF OnChan, InEntry
<1>6. \A n, k : InRun(n) # InEntry(k)
  BY DEF InRun, InEntry
<1>7. \A n, m : OnChan(n, m) # Nowhere
  BY DEF OnChan, Nowhere
<1>8. \A n : InRun(n) # Nowhere
  BY DEF InRun, Nowhere
<1>9. \A k : InEntry(k) # Nowhere
  BY DEF InEntry, Nowhere
<1> QED
  BY <1>1, <1>2, <1>3, <1>4, <1>5, <1>6, <1>7, <1>8, <1>9

\* They are places.
LEMMA PlacesType ==
  /\ \A n, m \in Nodes : OnChan(n, m) \in Places
  /\ \A n \in Nodes : InRun(n) \in Places
  /\ \A k \in Keys : InEntry(k) \in Places
  /\ Nowhere \in Places
<1>1. NoKey \in Keys \cup {NoKey} /\ NoNode \in Senders /\ Nodes \subseteq Senders
      /\ Keys \subseteq Keys \cup {NoKey}
  BY DEF Senders
<1> HIDE DEF NoKey
<1>2. \A n, m \in Nodes : OnChan(n, m) \in Places
  BY <1>1 DEF OnChan, Places
<1>3. \A n \in Nodes : InRun(n) \in Places
  BY <1>1 DEF InRun, Places
<1>4. \A k \in Keys : InEntry(k) \in Places
  BY <1>1 DEF InEntry, Places
<1>5. Nowhere \in Places
  BY <1>1 DEF Nowhere, Places
<1> QED
  BY <1>2, <1>3, <1>4, <1>5

\* A step moves the keys k1 and k2 (NoKey: none).
Moves(place, k1, p1, k2, p2) ==
  [k \in Keys |-> IF k = k1 THEN p1 ELSE IF k = k2 THEN p2 ELSE place[k]]

\* The places then.
LEMMA MovesAt ==
  ASSUME NEW place, NEW k1, NEW p1, NEW k2, NEW p2,
         place \in Placings, p1 \in Places, p2 \in Places
  PROVE  /\ Moves(place, k1, p1, k2, p2) \in Placings
         /\ \A k \in Keys : Moves(place, k1, p1, k2, p2)[k] =
              IF k = k1 THEN p1 ELSE IF k = k2 THEN p2 ELSE place[k]
  BY DEF Moves, Placings

\* The keys that node n may move, with the entry `gone' that it takes out or ends.
Mine(place, n, gone, k) ==
  k \in Keys =>
    \/ ~Made(k)
    \/ place[k] = InRun(n)
    \/ place[k] = InEntry(gone)
    \/ \E p, q \in Nodes : place[k] = OnChan(p, q)

\* No frame has the key k.
Away(ch, k) ==
  \A p, q \in Nodes : \A f \in Elems(ch[p][q]) : f.type # "CLOSE" => f.key # k

\* The frames keep their places when the keys of others move.
LEMMA FramesMove ==
  ASSUME NEW ch, NEW place, NEW k1, NEW p1, NEW k2, NEW p2,
         FramesPlaced(ch, place), OnlyOld(ch), IInv, Away(ch, k1), Away(ch, k2)
  PROVE  FramesPlaced(ch, Moves(place, k1, p1, k2, p2))
<1>1. PICK owner \in Owners, passed \in SUBSET Keys : Owned(owner, passed)
  BY DEF IInv
<1>2. ASSUME NEW p \in Nodes, NEW q \in Nodes, NEW f \in Elems(ch[p][q]), f.type # "CLOSE"
      PROVE  Moves(place, k1, p1, k2, p2)[f.key] = OnChan(p, q)
  <2>1. f.key \in Keys
    BY <1>1, <1>2 DEF OnlyOld, Owned, GoodFrame, Made
  <2>2. f.key # k1 /\ f.key # k2 /\ place[f.key] = OnChan(p, q)
    BY <1>2 DEF Away, FramesPlaced
  <2> QED
    BY <2>1, <2>2 DEF Moves
<1> QED
  BY <1>2 DEF FramesPlaced

\* A frame that is sent is in its channel.
LEMMA FramesSent ==
  ASSUME NEW ch, NEW place, NEW n, NEW m, NEW f, NEW c2,
         FramesPlaced(ch, place), ch \in Channels, n \in Nodes, m \in Nodes, f \in Frames,
         c2 = Sent(ch, n, m, f),
         f.type # "CLOSE" =>
           Away(ch, f.key) /\ (open[m][n] => place[f.key] = OnChan(n, m))
  PROVE  FramesPlaced(c2, place)
<1>1. IsSent(c2, ch, n, m, f)
  BY SentAt
<1>2. ch[n][m] \in Seq(Frames)
  BY DEF Channels
<1>3. Elems(Append(ch[n][m], f)) = Elems(ch[n][m]) \cup {f}
  BY <1>2, ElemsAppend
<1>4. Distinct(Append(ch[n][m], f))
  <2>1. Distinct(ch[n][m])
    BY DEF FramesPlaced
  <2>2. \A y \in Elems(ch[n][m]) : y.type # "CLOSE" /\ f.type # "CLOSE" => y.key # f.key
    BY DEF Away
  <2> QED
    BY <1>2, <2>1, <2>2, DistinctAppend
<1>5. ASSUME NEW p \in Nodes, NEW q \in Nodes
      PROVE  /\ Distinct(c2[p][q])
             /\ \A g \in Elems(c2[p][q]) : g.type # "CLOSE" => place[g.key] = OnChan(p, q)
  <2>1. CASE p = n /\ q = m /\ open[m][n]
    <3>1. c2[p][q] = Append(ch[n][m], f)
      BY <1>1, <2>1 DEF IsSent
    <3>2. \A g \in Elems(ch[n][m]) : g.type # "CLOSE" => place[g.key] = OnChan(n, m)
      BY DEF FramesPlaced
    <3> QED
      BY <1>3, <1>4, <2>1, <3>1, <3>2
  <2>2. CASE ~(p = n /\ q = m /\ open[m][n])
    <3>1. c2[p][q] = ch[p][q]
      BY <1>1, <2>2 DEF IsSent
    <3> QED
      BY <3>1 DEF FramesPlaced
  <2> QED
    BY <2>1, <2>2
<1> QED
  BY <1>5 DEF FramesPlaced

\* A frame that is read is nowhere else.
LEMMA FramesRead ==
  ASSUME NEW n, NEW m, NEW place, NEW ch, NEW frame,
         TypeOK, n \in Nodes, m \in Nodes, chan[m][n] # <<>>, FramesPlaced(chan, place),
         ch = WithoutHead(n, m), frame = Head(chan[m][n])
  PROVE  /\ FramesPlaced(ch, place)
         /\ frame.type # "CLOSE" => Away(ch, frame.key) /\ place[frame.key] = OnChan(m, n)
<1>1. IsRead(ch, n, m) /\ frame \in Elems(chan[m][n])
  BY ReadAt
<1>2. chan[m][n] \in Seq(Frames)
  BY DEF TypeOK
<1>3. Elems(Tail(chan[m][n])) \subseteq Elems(chan[m][n])
  BY <1>2, ElemsTail
<1>4. Distinct(chan[m][n])
  BY DEF FramesPlaced
<1>5. /\ Distinct(Tail(chan[m][n]))
      /\ \A y \in Elems(Tail(chan[m][n])) :
           y.type # "CLOSE" /\ frame.type # "CLOSE" => y.key # frame.key
  BY <1>2, <1>4, DistinctTail
<1>6. frame.type # "CLOSE" => place[frame.key] = OnChan(m, n)
  BY <1>1 DEF FramesPlaced
<1>7. ASSUME NEW p \in Nodes, NEW q \in Nodes
      PROVE  /\ Distinct(ch[p][q])
             /\ \A g \in Elems(ch[p][q]) : g.type # "CLOSE" =>
                  place[g.key] = OnChan(p, q) /\ (frame.type # "CLOSE" => g.key # frame.key)
  <2>1. CASE p = m /\ q = n
    <3>1. ch[p][q] = Tail(chan[m][n])
      BY <1>1, <2>1 DEF IsRead
    <3>2. \A g \in Elems(chan[m][n]) : g.type # "CLOSE" => place[g.key] = OnChan(m, n)
      BY DEF FramesPlaced
    <3> QED
      BY <1>3, <1>5, <2>1, <3>1, <3>2
  <2>2. CASE ~(p = m /\ q = n)
    <3>1. ch[p][q] = chan[p][q]
      BY <1>1, <2>2 DEF IsRead
    <3>2. Distinct(chan[p][q])
          /\ \A g \in Elems(chan[p][q]) : g.type # "CLOSE" => place[g.key] = OnChan(p, q)
      BY DEF FramesPlaced
    <3>3. OnChan(p, q) # OnChan(m, n)
      BY <2>2, PlacesDiffer
    <3> QED
      BY <1>6, <3>1, <3>2, <3>3
  <2> QED
    BY <2>1, <2>2
<1>8. FramesPlaced(ch, place)
  BY <1>7 DEF FramesPlaced
<1>9. frame.type # "CLOSE" => Away(ch, frame.key)
  BY <1>7 DEF Away
<1> QED
  BY <1>6, <1>8, <1>9

\* No frame has a key that is elsewhere, or a key that is not made.
LEMMA AwayFrom ==
  ASSUME NEW ch, NEW place, NEW k,
         IInv, FramesPlaced(ch, place), OnlyOld(ch),
         Made(k) => \A p, q \in Nodes : place[k] # OnChan(p, q)
  PROVE  Away(ch, k)
<1>1. PICK owner \in Owners, passed \in SUBSET Keys : Owned(owner, passed)
  BY DEF IInv
<1>2. ASSUME NEW p \in Nodes, NEW q \in Nodes, NEW f \in Elems(ch[p][q]), f.type # "CLOSE",
             f.key = k
      PROVE  FALSE
  <2>1. Made(k)
    BY <1>1, <1>2 DEF OnlyOld, Owned, GoodFrame
  <2>2. place[k] = OnChan(p, q)
    BY <1>2 DEF FramesPlaced
  <2> QED
    BY <2>1, <2>2
<1> QED
  BY <1>2 DEF Away

\* The functions of the other nodes keep their places.
LEMMA RunsMove ==
  ASSUME NEW n, NEW gone, NEW place, NEW place2, NEW k1, NEW p1, NEW k2, NEW p2,
         IInv, n \in Nodes, RunsPlaced(place), place2 = Moves(place, k1, p1, k2, p2),
         Mine(place, n, gone, k1), Mine(place, n, gone, k2),
         \A p \in Nodes : p # n => running'[p] = running[p],
         \A run : run = running'[n] /\ run # Idle /\ run.key # NoKey => place2[run.key] = InRun(n)
  PROVE  RunsPlaced(place2)'
<1>1. PICK owner \in Owners, passed \in SUBSET Keys : Owned(owner, passed)
  BY DEF IInv
<1>2. ASSUME NEW p \in Nodes, running'[p] # Idle, running'[p].key # NoKey
      PROVE  place2[running'[p].key] = InRun(p)
  <2>1. CASE p = n
    BY <1>2, <2>1
  <2>2. CASE p # n
    <3>1. PICK k : k = running[p].key
      OBVIOUS
    <3>2. running'[p] = running[p] /\ place[k] = InRun(p)
      BY <1>2, <2>2, <3>1 DEF RunsPlaced
    <3>3. Made(k) /\ k \in Keys
      BY <1>1, <1>2, <3>1, <3>2 DEF Owned, GoodRun, GoodBack, Made
    <3>4. k # k1 /\ k # k2
      BY <2>2, <3>2, <3>3, PlacesDiffer DEF Mine
    <3> QED
      BY <3>1, <3>2, <3>3, <3>4 DEF Moves
  <2> QED
    BY <2>1, <2>2
<1> QED
  BY <1>2 DEF RunsPlaced

\* The entries that a step leaves alone keep their places.
LEMMA EntriesMove ==
  ASSUME NEW n, NEW gone, NEW place, NEW place2, NEW k1, NEW p1, NEW k2, NEW p2,
         IInv, n \in Nodes, EntriesPlaced(place), place2 = Moves(place, k1, p1, k2, p2),
         Mine(place, n, gone, k1), Mine(place, n, gone, k2),
         \A p \in Nodes : \A d \in chains'[p] :
           \/ d \in chains[p] /\ d.id # gone /\ (Live(d)' <=> Live(d))
           \/ EntryPlaced(d, place2)'
  PROVE  EntriesPlaced(place2)'
<1>1. PICK owner \in Owners, passed \in SUBSET Keys : Owned(owner, passed)
  BY DEF IInv
<1>2. ASSUME NEW p \in Nodes, NEW d \in chains'[p]
      PROVE  EntryPlaced(d, place2)'
  <2>1. SUFFICES ASSUME d \in chains[p], d.id # gone, Live(d)' <=> Live(d)
                 PROVE  EntryPlaced(d, place2)'
    OBVIOUS
  <2>2. EntryPlaced(d, place) /\ GoodEntry(p, d, owner, passed)
    BY <1>1, <2>1 DEF EntriesPlaced, Owned
  <2>3. CASE Live(d) /\ d.key # NoKey
    <3>1. place[d.key] = InEntry(d.id) /\ Made(d.key) /\ d.key \in Keys
      BY <2>2, <2>3 DEF EntryPlaced, GoodEntry, GoodBack, Made
    <3>2. d.key # k1 /\ d.key # k2
      BY <2>1, <3>1, PlacesDiffer DEF Mine
    <3>3. place2[d.key] = InEntry(d.id)
      BY <3>1, <3>2 DEF Moves
    <3> QED
      BY <2>1, <2>3, <3>3 DEF EntryPlaced
  <2>4. CASE ~Live(d)
    <3>1. place[d.id] = Nowhere /\ Made(d.id) /\ d.id \in Keys
      BY <2>2, <2>4 DEF EntryPlaced, GoodEntry, Made
    <3>2. d.id # k1 /\ d.id # k2
      BY <3>1, PlacesDiffer DEF Mine
    <3>3. place2[d.id] = Nowhere
      BY <3>1, <3>2 DEF Moves
    <3> QED
      BY <2>1, <2>4, <3>3 DEF EntryPlaced
  <2> QED
    BY <2>1, <2>3, <2>4 DEF EntryPlaced
<1> QED
  BY <1>2 DEF EntriesPlaced

\* A key has one entry, also when entries go.
LEMMA OneEntryStays ==
  ASSUME OneEntry, \A p \in Nodes : chains'[p] \subseteq chains[p]
  PROVE  OneEntry'
  BY DEF OneEntry

\* The entry that is added has a key that is not made yet, and is of a new request
\* unless it passes a frame on.
LEMMA OneEntryAdds ==
  ASSUME NEW n, NEW e,
         IInv, OneEntry, n \in Nodes, ~Made(e.id), e.type = "FORWARD" \/ e.about \notin L,
         \A p \in Nodes : \A d \in chains'[p] : d \in chains[p] \/ (p = n /\ d = e)
  PROVE  OneEntry'
<1>1. PICK owner \in Owners, passed \in SUBSET Keys : Owned(owner, passed)
  BY DEF IInv
<1>2. \A p \in Nodes : \A d \in chains[p] : Made(d.id) /\ d.about \in L
  BY <1>1 DEF Owned, GoodEntry
<1>3. ASSUME NEW p \in Nodes, NEW d \in chains[p]
      PROVE  d.id # e.id /\ ~(e.type # "FORWARD" /\ d.type # "FORWARD" /\ e.about = d.about)
  BY <1>2
<1>4. ASSUME NEW p \in Nodes, NEW q \in Nodes, NEW c \in chains'[p], NEW d \in chains'[q],
             \/ c.id = d.id
             \/ c.type # "FORWARD" /\ d.type # "FORWARD" /\ c.about = d.about
      PROVE  c = d
  <2>1. CASE c \in chains[p] /\ d \in chains[q]
    BY <1>4, <2>1 DEF OneEntry
  <2>2. CASE c = e /\ d \in chains[q]
    BY <1>3, <1>4, <2>2
  <2>3. CASE c \in chains[p] /\ d = e
    BY <1>3, <1>4, <2>3
  <2>4. CASE c = e /\ d = e
    BY <2>4
  <2> QED
    BY <1>4, <2>1, <2>2, <2>3, <2>4
<1> QED
  BY <1>4 DEF OneEntry

\* A step calls the callback of request r, which nobody has called yet (NoRequest:
\* of none).
CallsOne(r) ==
  /\ r \in L => requests[r].calls = 0
  /\ \A q \in L : q \in L' /\ requests'[q].calls = IF q = r THEN 1 ELSE requests[q].calls
  /\ \A q \in L' : q \notin L => requests'[q].calls <= 1

\* A step that calls nobody.
LEMMA CallsNobody ==
  ASSUME NEW reqs,
         TypeOK, reqs \in Seq(Request), Len(requests) <= Len(reqs), requests' = reqs,
         \A q \in L : reqs[q] = requests[q],
         \A q \in 1 .. Len(reqs) : q \notin L => reqs[q].calls <= 1
  PROVE  CallsOne(NoRequest)
<1>1. NoRequest \notin L /\ L \subseteq L'
  BY DEF L, NoRequest, TypeOK
<1>2. \A q \in L : q # NoRequest
  BY <1>1
<1> QED
  BY <1>1, <1>2 DEF CallsOne, L

\* A step that calls the callback of r.
LEMMA CallsSomebody ==
  ASSUME NEW reqs, NEW r,
         TypeOK, reqs \in Seq(Request), Len(requests) <= Len(reqs),
         requests' = Called(reqs, r), r \in L, requests[r].calls = 0,
         \A q \in L : reqs[q] = requests[q],
         \A q \in 1 .. Len(reqs) : q \notin L => reqs[q].calls <= 1
  PROVE  CallsOne(r)
<1>1. L \subseteq 1 .. Len(reqs)
  BY DEF L, TypeOK
<1>2. /\ Len(Called(reqs, r)) = Len(reqs)
      /\ \A q \in 1 .. Len(reqs) :
           Called(reqs, r)[q].calls = IF q = r THEN reqs[q].calls + 1 ELSE reqs[q].calls
  BY <1>1, CalledType
<1>3. L' = 1 .. Len(reqs)
  BY <1>2 DEF L
<1> QED
  BY <1>1, <1>2, <1>3 DEF CallsOne

\* No callback is called twice by such a step.
LEMMA CallsCounted ==
  ASSUME NEW r,
         CalledAtMostOnce, CallsOne(r)
  PROVE  CalledAtMostOnce'
<1>1. ASSUME NEW q \in L' PROVE requests'[q].calls <= 1
  <2>1. CASE q \in L
    BY <2>1 DEF CallsOne, CalledAtMostOnce, L
  <2>2. CASE q \notin L
    BY <2>2 DEF CallsOne
  <2> QED
    BY <2>1, <2>2
<1> QED
  BY <1>1 DEF CalledAtMostOnce, L

\* The entry under the key `gone' of node n is the only one that the callback of r ends.
Ends(n, r, gone) ==
  \A p \in Nodes : \A d \in chains[p] :
    /\ p # n => d.id # gone
    /\ d.type # "FORWARD" /\ d.about = r => p = n /\ d.id = gone

\* No callback is called.
LEMMA EndsNone ==
  ASSUME NEW n,
         IInv
  PROVE  Ends(n, NoRequest, NoKey)
<1>1. PICK owner \in Owners, passed \in SUBSET Keys : Owned(owner, passed)
  BY DEF IInv
<1>2. \A p \in Nodes : \A d \in chains[p] : d.id \in Keys /\ d.about \in L
  BY <1>1 DEF Owned, GoodEntry, Made
<1>3. NoRequest \notin L
  BY DEF L, NoRequest
<1> QED
  BY <1>2, <1>3, NoKeyIsNone DEF Ends

\* The callback of the request that an entry is about, or none for an entry of a
\* frame that was passed on.
LEMMA EndsEntry ==
  ASSUME NEW n, NEW e, NEW r,
         IInv, OneEntry, n \in Nodes, e \in chains[n],
         IF e.type = "FORWARD" THEN r = NoRequest ELSE r = e.about
  PROVE  Ends(n, r, e.id)
<1>1. PICK owner \in Owners, passed \in SUBSET Keys : Owned(owner, passed)
  BY DEF IInv
<1>2. \A p \in Nodes : \A d \in chains[p] : d.id.at = p /\ d.about \in L
  BY <1>1 DEF Owned, GoodEntry
<1>3. NoRequest \notin L
  BY DEF L, NoRequest
<1>4. ASSUME NEW p \in Nodes, NEW d \in chains[p], d.type # "FORWARD", d.about = r
      PROVE  p = n /\ d.id = e.id
  <2>1. e.type # "FORWARD" /\ d.about = e.about
    BY <1>2, <1>3, <1>4
  <2>2. d = e
    BY <1>4, <2>1 DEF OneEntry
  <2> QED
    BY <1>2, <2>2
<1>5. ASSUME NEW p \in Nodes, NEW d \in chains[p], p # n
      PROVE  d.id # e.id
  BY <1>2, <1>5
<1> QED
  BY <1>4, <1>5 DEF Ends

\* The function run of node n, if it is a method called in the own process, has an
\* entry that waits.
LocalAt(n, run) ==
  run # Idle /\ run.in = "local" =>
    \E e \in chains[n] :
      /\ e.type # "FORWARD" /\ Live(e)
      /\ e.id = run.key /\ e.about = run.about /\ e.key = run.lastKey

\* It is still so after a step of node n that calls the callback of r.
LEMMA LocalStays ==
  ASSUME NEW n, NEW r, NEW gone,
         IInv, LocalWaits, n \in Nodes, CallsOne(r), Ends(n, r, gone),
         \A p \in Nodes : p # n => running'[p] = running[p] /\ chains'[p] = chains[p],
         \A run : run = running'[n] => LocalAt(n, run)'
  PROVE  LocalWaits'
<1>1. PICK owner \in Owners, passed \in SUBSET Keys : Owned(owner, passed)
  BY DEF IInv
<1>2. ASSUME NEW p \in Nodes, NEW run, run = running'[p], run # Idle, run.in = "local"
      PROVE  \E e \in chains'[p] :
               /\ e.type # "FORWARD" /\ Live(e)'
               /\ e.id = run.key /\ e.about = run.about /\ e.key = run.lastKey
  <2>1. CASE p = n
    BY <1>2, <2>1 DEF LocalAt
  <2>2. CASE p # n
    <3>1. run = running[p] /\ chains'[p] = chains[p]
      BY <1>2, <2>2
    <3>2. PICK e \in chains[p] :
            /\ e.type # "FORWARD" /\ Live(e)
            /\ e.id = run.key /\ e.about = run.about /\ e.key = run.lastKey
      BY <1>2, <3>1 DEF LocalWaits
    <3>3. e.about \in L /\ e.about # r
      BY <1>1, <2>2, <3>2 DEF Ends, Owned, GoodEntry
    <3>4. Live(e)'
      BY <3>2, <3>3 DEF Live, CallsOne
    <3> QED
      BY <3>1, <3>2, <3>4
  <2> QED
    BY <2>1, <2>2
<1> QED
  BY <1>2 DEF LocalWaits

\* Every step of node n but the end of a connection: what is to be shown of the keys
\* that it moves.
LEMMA PlacesStep ==
  ASSUME NEW n, NEW r, NEW gone, NEW place, NEW place2, NEW k1, NEW p1, NEW k2, NEW p2,
         JInv, IInv', n \in Nodes, place \in Placings, Placed(place),
         p1 \in Places, p2 \in Places, place2 = Moves(place, k1, p1, k2, p2),
         Mine(place, n, gone, k1), Mine(place, n, gone, k2),
         CallsOne(r), Ends(n, r, gone),
         \A p \in Nodes : p # n => running'[p] = running[p] /\ chains'[p] = chains[p],
         FramesPlaced(chan', place2),
         \A run : run = running'[n] => LocalAt(n, run)',
         \A run : run = running'[n] /\ run # Idle /\ run.key # NoKey => place2[run.key] = InRun(n),
         \A d \in chains'[n] : (d \in chains[n] /\ d.id # gone) \/ EntryPlaced(d, place2)',
         OneEntry'
  PROVE  JInv'
<1>1. IInv /\ CalledAtMostOnce /\ OneEntry /\ LocalWaits
  BY DEF JInv
<1>2. place2 \in Placings
  BY MovesAt
<1>3. CalledAtMostOnce'
  BY <1>1, CallsCounted
<1>4. LocalWaits'
  BY <1>1, LocalStays
<1>5. RunsPlaced(place2)'
  BY <1>1, RunsMove DEF Placed
<1>6. EntriesPlaced(place2)'
  <2>1. PICK owner \in Owners, passed \in SUBSET Keys : Owned(owner, passed)
    BY <1>1 DEF IInv
  <2>2. ASSUME NEW p \in Nodes, NEW d \in chains'[p]
        PROVE  \/ d \in chains[p] /\ d.id # gone /\ (Live(d)' <=> Live(d))
               \/ EntryPlaced(d, place2)'
    <3>1. SUFFICES ASSUME d \in chains[p], d.id # gone PROVE Live(d)' <=> Live(d)
      BY <2>2 DEF Ends
    <3>2. d.about \in L /\ (d.type # "FORWARD" => d.about # r)
      BY <2>1, <3>1 DEF Owned, GoodEntry, Ends
    <3> QED
      BY <3>2 DEF Live, CallsOne
  <2> QED
    BY <1>1, <2>2, EntriesMove DEF Placed
<1>7. Placed(place2)'
  BY <1>5, <1>6 DEF Placed
<1> QED
  BY <1>2, <1>3, <1>4, <1>7 DEF JInv

\* Where the key of a frame is that n sends on its connection to m.
Target(n, m) == IF open[m][n] THEN OnChan(n, m) ELSE Nowhere

\* The frame f is sent by n, its key is then in p; or it is sent nowhere.
Delivered(ch, n, f, c2, p) ==
  \/ c2 = ch /\ p = Nowhere
  \/ \E m \in Nodes : c2 = Sent(ch, n, m, f) /\ p = Target(n, m)

\* The place of the key of a frame that was delivered is a place.
LEMMA DeliveredType ==
  ASSUME NEW ch, NEW n, NEW f, NEW c2, NEW p,
         n \in Nodes, Delivered(ch, n, f, c2, p)
  PROVE  p \in Places
  BY PlacesType DEF Delivered, Target

\* The frames keep their places when the keys of others move and one is sent.
LEMMA FramesStep ==
  ASSUME NEW ch, NEW c2, NEW n, NEW f, NEW p,
         NEW place, NEW place2, NEW k1, NEW p1, NEW k2, NEW p2,
         IInv, ch \in Channels, OnlyOld(ch), FramesPlaced(ch, place), n \in Nodes,
         Away(ch, k1), Away(ch, k2), place2 = Moves(place, k1, p1, k2, p2),
         f \in Frames, f.key \in {k1, k2}, place2[f.key] = p, Delivered(ch, n, f, c2, p)
  PROVE  FramesPlaced(c2, place2)
<1>1. FramesPlaced(ch, place2)
  BY FramesMove
<1>2. ASSUME NEW m \in Nodes, c2 = Sent(ch, n, m, f), p = Target(n, m)
      PROVE  FramesPlaced(c2, place2)
  <2>1. Away(ch, f.key) /\ (open[m][n] => place2[f.key] = OnChan(n, m))
    BY <1>2 DEF Target
  <2> QED
    BY <1>1, <1>2, <2>1, FramesSent
<1> QED
  BY <1>1, <1>2 DEF Delivered

\* A key that is in none of the channels is the key of none of the frames ch.
Elsewhere(ch, place) ==
  \A k : (Made(k) => \A p, q \in Nodes : place[k] # OnChan(p, q)) => Away(ch, k)

\* Such a key: none, one that is not made yet, that of a function, that of an entry.
LEMMA AwayElsewhere ==
  ASSUME NEW ch, NEW place, NEW k,
         Elsewhere(ch, place),
         \/ k = NoKey
         \/ ~Made(k)
         \/ \E n : place[k] = InRun(n)
         \/ \E j : place[k] = InEntry(j)
  PROVE  Away(ch, k)
<1>1. k = NoKey => ~Made(k)
  BY NoKeyIsNone DEF Made
<1>2. Made(k) => \A p, q \in Nodes : place[k] # OnChan(p, q)
  BY <1>1, PlacesDiffer
<1> QED
  BY <1>2 DEF Elsewhere

\* What is known of a placing, of a function that runs and of an entry that waits.
LEMMA PlacedFacts ==
  ASSUME NEW place, NEW n,
         IInv, n \in Nodes, place \in Placings, Placed(place)
  PROVE  /\ FramesPlaced(chan, place)
         /\ running[n] # Idle /\ running[n].key # NoKey =>
              place[running[n].key] = InRun(n) /\ running[n].key \in Keys /\ Made(running[n].key)
         /\ \A e \in chains[n] : EntryPlaced(e, place)
         /\ chan \in Channels /\ OnlyOld(chan)
         /\ Elsewhere(chan, place)
<1>1. PICK owner \in Owners, passed \in SUBSET Keys : Owned(owner, passed)
  BY DEF IInv
<1>2. FramesPlaced(chan, place) /\ RunsPlaced(place) /\ EntriesPlaced(place)
  BY DEF Placed
<1>3. ASSUME running[n] # Idle, running[n].key # NoKey
      PROVE  place[running[n].key] = InRun(n) /\ running[n].key \in Keys /\ Made(running[n].key)
  BY <1>1, <1>2, <1>3 DEF Owned, GoodRun, GoodBack, RunsPlaced, Made
<1>4. chan \in Channels /\ OnlyOld(chan)
  BY DEF IInv, TypeOK, Channels, OnlyOld
<1>5. Elsewhere(chan, place)
  BY <1>2, <1>4, AwayFrom DEF Elsewhere
<1> QED
  BY <1>2, <1>3, <1>4, <1>5 DEF EntriesPlaced

\* What follows when no frame is sent and the function of node n ends: its key is
\* in no place, and that of the entry which is taken out is in the callback.
LEMMA PlacesTaken ==
  ASSUME NEW n, NEW reqs, NEW e, NEW run,
         JInv, IInv', n \in Nodes, run = running[n], run # Idle, run.key # NoKey,
         reqs \in Seq(Request), Len(requests) <= Len(reqs), \A q \in L : reqs[q] = requests[q],
         \A q \in 1 .. Len(reqs) : q \notin L => reqs[q].calls <= 1,
         e \in chains[n], e.id = run.key, e.type # "FORWARD",
         chains' = [chains EXCEPT ![n] = @ \ {e}],
         running' = [running EXCEPT ![n] = Callback(e.about, e.key, e.sender)],
         requests' = Called(reqs, e.about), UNCHANGED chan
  PROVE  JInv'
<1>1. IInv /\ OneEntry /\ TypeOK
  BY DEF JInv, IInv
<1>2. PICK owner \in Owners, passed \in SUBSET Keys : Owned(owner, passed)
  BY <1>1 DEF IInv
<1>3. PICK place \in Placings : Placed(place)
  BY DEF JInv
<1>4. /\ FramesPlaced(chan, place) /\ place[run.key] = InRun(n) /\ run.key \in Keys
      /\ EntryPlaced(e, place)
      /\ Elsewhere(chan, place)
  BY <1>1, <1>3, PlacedFacts
<1>5. /\ GoodEntry(n, e, owner, passed) /\ e.about \in L /\ e.about \in Ids
      /\ e.key \in Keys \cup {NoKey} /\ e.sender \in Senders
  BY <1>1, <1>2, EntryFacts
<1>6. Live(e) /\ requests[e.about].calls = 0 /\ (e.key # NoKey => place[e.key] = InEntry(e.id))
  BY <1>4, PlacesDiffer DEF EntryPlaced, Live
<1>7. PICK place2 : place2 = Moves(place, run.key, Nowhere, e.key, InRun(n))
  OBVIOUS
<1>8. PICK r2 : r2 = Callback(e.about, e.key, e.sender)
  OBVIOUS
<1>9. r2 \in Runs /\ r2.in = "callback" /\ r2.key = e.key
  BY <1>5, <1>8, CallbackType
<1>10. Mine(place, n, e.id, run.key) /\ Mine(place, n, e.id, e.key)
  BY <1>4, <1>6, NoKeyIsNone DEF Mine
<1>11. CallsOne(e.about)
  BY <1>1, <1>5, <1>6, CallsSomebody
<1>12. Ends(n, e.about, e.id)
  BY <1>1, EndsEntry
<1>13. /\ \A p \in Nodes : p # n => running'[p] = running[p] /\ chains'[p] = chains[p]
       /\ running'[n] = r2 /\ chains'[n] = chains[n] \ {e}
  BY <1>1, <1>8 DEF TypeOK
<1>14. FramesPlaced(chan', place2)
  <2>1. Away(chan, run.key)
    BY <1>4, AwayElsewhere
  <2>2. Away(chan, e.key)
    BY <1>4, <1>6, AwayElsewhere
  <2>3. OnlyOld(chan)
    BY DEF OnlyOld
  <2> QED
    BY <1>1, <1>4, <1>7, <2>1, <2>2, <2>3, FramesMove
<1>15. \A x : x = running'[n] => LocalAt(n, x)'
  BY <1>9, <1>13 DEF LocalAt
<1>16. \A x : x = running'[n] /\ x # Idle /\ x.key # NoKey => place2[x.key] = InRun(n)
  <2>1. r2.key # NoKey => place2[e.key] = InRun(n)
    BY <1>4, <1>5, <1>6, <1>7, <1>9, PlacesDiffer DEF Moves
  <2> QED
    BY <1>9, <1>13, <2>1
<1>17. \A d \in chains'[n] : (d \in chains[n] /\ d.id # e.id) \/ EntryPlaced(d, place2)'
  <2>1. \A d \in chains[n] : d.id = e.id => d = e
    BY <1>1 DEF OneEntry
  <2> QED
    BY <1>13, <2>1
<1>18. OneEntry'
  <2>1. \A p \in Nodes : chains'[p] \subseteq chains[p]
    BY <1>13
  <2> QED
    BY <1>1, <2>1, OneEntryStays
<1>19. Nowhere \in Places /\ InRun(n) \in Places
  BY PlacesType
<1> QED
  BY <1>3, <1>7, <1>10, <1>11, <1>12, <1>13, <1>14, <1>15, <1>16, <1>17, <1>18, <1>19, PlacesStep

\* The method that was called in the own process returns: its entry waits no more.
LEMMA PlacesCalledBack ==
  ASSUME NEW n, NEW reqs, NEW run,
         JInv, IInv', n \in Nodes, run = running[n], run # Idle, run.in = "local",
         reqs \in Seq(Request), Len(requests) <= Len(reqs), \A q \in L : reqs[q] = requests[q],
         \A q \in 1 .. Len(reqs) : q \notin L => reqs[q].calls <= 1,
         CallBackLocally(n, run, reqs)
  PROVE  JInv'
<1>1. IInv /\ OneEntry /\ TypeOK /\ LocalWaits
  BY DEF JInv, IInv
<1>2. PICK owner \in Owners, passed \in SUBSET Keys : Owned(owner, passed)
  BY <1>1 DEF IInv
<1>3. PICK place \in Placings : Placed(place)
  BY DEF JInv
<1>4. PICK e \in chains[n] : /\ e.type # "FORWARD" /\ Live(e)
                             /\ e.id = run.key /\ e.about = run.about /\ e.key = run.lastKey
  BY <1>1 DEF LocalWaits
<1>5. /\ GoodEntry(n, e, owner, passed) /\ e.about \in L /\ e.about \in Ids
      /\ e.key \in Keys \cup {NoKey} /\ e.id \in Keys
  BY <1>1, <1>2, EntryFacts
<1>6. /\ FramesPlaced(chan, place) /\ place[run.key] = InRun(n) /\ run.key \in Keys
      /\ EntryPlaced(e, place)
      /\ Elsewhere(chan, place)
  <2>1. run.key # NoKey
    BY <1>4, <1>5, NoKeyIsNone
  <2> QED
    BY <1>1, <1>3, <2>1, PlacedFacts
<1>7. requests[e.about].calls = 0 /\ (e.key # NoKey => place[e.key] = InEntry(e.id))
  BY <1>4, <1>6 DEF EntryPlaced, Live
<1>8. PICK place2 : place2 = Moves(place, run.key, Nowhere, e.key, InRun(n))
  OBVIOUS
<1>9. PICK r2 : r2 = Callback(run.about, run.lastKey, run.lastSender)
  OBVIOUS
<1>10. r2 \in Runs /\ r2.in = "callback" /\ r2.key = e.key
  <2>1. run.lastSender \in Senders /\ run.about \in Ids
    BY <1>1, <1>2, RunFacts
  <2> QED
    BY <1>4, <1>5, <1>9, <2>1, CallbackType
<1>11. Mine(place, n, e.id, run.key) /\ Mine(place, n, e.id, e.key)
  BY <1>6, <1>7, NoKeyIsNone DEF Mine
<1>12. /\ running' = [running EXCEPT ![n] = r2] /\ requests' = Called(reqs, e.about)
       /\ UNCHANGED <<chains, chan>>
  BY <1>4, <1>9 DEF CallBackLocally
<1>13. CallsOne(e.about)
  BY <1>1, <1>5, <1>7, <1>12, CallsSomebody
<1>14. Ends(n, e.about, e.id)
  BY <1>1, <1>4, EndsEntry
<1>15. /\ \A p \in Nodes : p # n => running'[p] = running[p] /\ chains'[p] = chains[p]
       /\ running'[n] = r2
  BY <1>1, <1>12 DEF TypeOK
<1>16. FramesPlaced(chan', place2)
  <2>1. Away(chan, run.key)
    BY <1>6, AwayElsewhere
  <2>2. Away(chan, e.key)
    BY <1>6, <1>7, AwayElsewhere
  <2>3. OnlyOld(chan)
    BY DEF OnlyOld
  <2> QED
    BY <1>1, <1>6, <1>8, <1>12, <2>1, <2>2, <2>3, FramesMove
<1>17. \A x : x = running'[n] => LocalAt(n, x)'
  BY <1>10, <1>15 DEF LocalAt
<1>18. \A x : x = running'[n] /\ x # Idle /\ x.key # NoKey => place2[x.key] = InRun(n)
  <2>1. r2.key # NoKey => place2[e.key] = InRun(n)
    BY <1>5, <1>6, <1>7, <1>8, <1>10, PlacesDiffer DEF Moves
  <2> QED
    BY <1>10, <1>15, <2>1
<1>19. \A d \in chains'[n] : (d \in chains[n] /\ d.id # e.id) \/ EntryPlaced(d, place2)'
  <2>1. \A d \in chains[n] : d.id = e.id => d = e
    BY <1>1 DEF OneEntry
  <2>2. ~Live(e)'
    BY <1>4, <1>5, <1>13 DEF Live, CallsOne
  <2>3. place2[e.id] = Nowhere
    BY <1>4, <1>5, <1>8 DEF Moves
  <2>4. EntryPlaced(e, place2)'
    BY <2>2, <2>3 DEF EntryPlaced
  <2> QED
    BY <1>12, <2>1, <2>4
<1>20. OneEntry'
  BY <1>1, <1>12, OneEntryStays
<1>21. Nowhere \in Places /\ InRun(n) \in Places
  BY PlacesType
<1> QED
  BY <1>3, <1>8, <1>11, <1>13, <1>14, <1>15, <1>16, <1>17, <1>18, <1>19, <1>20, <1>21, PlacesStep

\* The answer of a function is sent (f), its key is then in p; or there is none.
AnswerSent(n, run, f, p) ==
  \/ chan' = chan /\ p = Nowhere
  \/ /\ run.key # NoKey /\ f \in Frames /\ f.key = run.key
     /\ Delivered(chan, n, f, chan', p)

\* The function of node n ends.
LEMMA PlacesEnded ==
  ASSUME NEW n, NEW reqs, NEW run, NEW f, NEW p,
         JInv, IInv', n \in Nodes, run = running[n], run # Idle,
         reqs \in Seq(Request), Len(requests) <= Len(reqs), \A q \in L : reqs[q] = requests[q],
         \A q \in 1 .. Len(reqs) : q \notin L => reqs[q].calls <= 1,
         AnswerSent(n, run, f, p),
         running' = [running EXCEPT ![n] = Idle], requests' = reqs, UNCHANGED chains
  PROVE  JInv'
<1>1. IInv /\ OneEntry /\ TypeOK
  BY DEF JInv, IInv
<1>2. PICK place \in Placings : Placed(place)
  BY DEF JInv
<1>3. /\ FramesPlaced(chan, place) /\ chan \in Channels /\ OnlyOld(chan)
      /\ run.key # NoKey => place[run.key] = InRun(n) /\ run.key \in Keys
      /\ Elsewhere(chan, place)
  BY <1>1, <1>2, PlacedFacts
<1>4. PICK place2 : place2 = Moves(place, run.key, p, NoKey, Nowhere)
  OBVIOUS
<1>5. p \in Places /\ Nowhere \in Places
  BY DeliveredType, PlacesType DEF AnswerSent
<1>6. Mine(place, n, NoKey, run.key) /\ Mine(place, n, NoKey, NoKey)
  BY <1>3, NoKeyIsNone DEF Mine
<1>7. CallsOne(NoRequest)
  BY <1>1, CallsNobody
<1>8. Ends(n, NoRequest, NoKey)
  BY <1>1, EndsNone
<1>9. /\ \A i \in Nodes : i # n => running'[i] = running[i] /\ chains'[i] = chains[i]
      /\ running'[n] = Idle
  BY <1>1 DEF TypeOK
<1>10. Away(chan, run.key) /\ Away(chan, NoKey)
  BY <1>3, AwayElsewhere
<1>11. FramesPlaced(chan', place2)
  <2>1. CASE chan' = chan
    BY <1>1, <1>3, <1>4, <1>10, <2>1, FramesMove
  <2>2. CASE /\ run.key # NoKey /\ f \in Frames /\ f.key = run.key
             /\ Delivered(chan, n, f, chan', p)
    <3>1. place2[f.key] = p /\ f.key \in {run.key, NoKey}
      BY <1>3, <1>4, <2>2 DEF Moves
    <3> QED
      BY <1>1, <1>3, <1>4, <1>10, <2>2, <3>1, FramesStep
  <2> QED
    BY <2>1, <2>2 DEF AnswerSent
<1>12. \A x : x = running'[n] => LocalAt(n, x)'
  BY <1>9 DEF LocalAt
<1>13. \A x : x = running'[n] /\ x # Idle /\ x.key # NoKey => place2[x.key] = InRun(n)
  BY <1>9
<1>14. \A d \in chains'[n] : (d \in chains[n] /\ d.id # NoKey) \/ EntryPlaced(d, place2)'
  <2>1. PICK owner \in Owners, passed \in SUBSET Keys : Owned(owner, passed)
    BY <1>1 DEF IInv
  <2>2. \A d \in chains[n] : d.id \in Keys
    BY <1>1, <2>1, EntryFacts
  <2> QED
    BY <2>2, NoKeyIsNone
<1>15. OneEntry'
  BY <1>1, OneEntryStays
<1> QED
  BY <1>2, <1>4, <1>5, <1>6, <1>7, <1>8, <1>9, <1>11, <1>12, <1>13, <1>14, <1>15, PlacesStep

\* The function a node is inside returns, or it asks a module it has no route to.
LEMMA PlacesFinished ==
  ASSUME NEW n, NEW reqs,
         JInv, IInv', n \in Nodes, running[n] # Idle, reqs \in Seq(Request),
         Len(requests) <= Len(reqs), \A q \in L : reqs[q] = requests[q],
         \A q \in 1 .. Len(reqs) : q \notin L => reqs[q].calls <= 1,
         Finished(n, reqs)
  PROVE  JInv'
<1>1. TypeOK /\ IInv
  BY DEF JInv, IInv
<1>2. PICK owner \in Owners, passed \in SUBSET Keys : Owned(owner, passed)
  BY <1>1 DEF IInv
<1>3. PICK run : run = running[n]
  OBVIOUS
<1>4. /\ GoodRun(n, run, owner, passed) /\ run.about \in L /\ run.about \in Ids
      /\ run.key \in Keys \cup {NoKey} /\ run.sender \in Senders
      /\ Subject(run) \in Ids \cup {NoRequest}
  BY <1>1, <1>2, <1>3, RunFacts, Zenon
<1>5. CASE run.in = "remote" /\ ReplyOnConnection(n, run, reqs)
  <2>1. PICK f : f = Frame("MSG_RES", run.key, n, n, run.about)
    OBVIOUS
  <2>2. run.conn \in Nodes /\ run.key # NoKey
    BY <1>4, <1>5 DEF GoodRun
  <2>3. f \in Frames /\ f.key = run.key
    BY <1>4, <2>1, FrameType
  <2>4. /\ chan' = Sent(chan, n, run.conn, f) /\ running' = [running EXCEPT ![n] = Idle]
        /\ requests' = reqs /\ UNCHANGED chains
    BY <1>5, <2>1 DEF ReplyOnConnection
  <2>5. PICK p : p = Target(n, run.conn)
    OBVIOUS
  <2>6. AnswerSent(n, run, f, p)
    BY <2>2, <2>3, <2>4, <2>5 DEF AnswerSent, Delivered
  <2> QED
    BY <1>3, <2>4, <2>6, PlacesEnded
<1>6. CASE run.in = "local" /\ CallBackLocally(n, run, reqs)
  BY <1>3, <1>6, PlacesCalledBack
<1>7. CASE /\ running' = [running EXCEPT ![n] = Idle] /\ requests' = reqs
           /\ UNCHANGED <<chains, chan>>
  <2>1. PICK f : f = Close(n)
    OBVIOUS
  <2>2. PICK p : p = Nowhere
    OBVIOUS
  <2>3. AnswerSent(n, run, f, p)
    BY <1>7, <2>2 DEF AnswerSent
  <2>4. /\ chan' = chan /\ running' = [running EXCEPT ![n] = Idle]
        /\ requests' = reqs /\ UNCHANGED chains
    BY <1>7
  <2> QED
    BY <1>3, <2>3, <2>4, PlacesEnded
<1>8. ASSUME run.in = "callback", run.key # NoKey, run.sender = n, NEW e \in chains[n],
             e.id = run.key, chains' = [chains EXCEPT ![n] = @ \ {e}],
             running' = [running EXCEPT ![n] = Callback(e.about, e.key, e.sender)],
             requests' = Called(reqs, e.about), UNCHANGED chan
      PROVE  JInv'
  <2>1. GoodEntry(n, e, owner, passed)
    BY <1>1, <1>2, EntryFacts
  <2>2. GoodBack(n, run.key, run.sender, Subject(run), owner, passed)
    BY <1>4 DEF GoodRun
  <2>3. e.type # "FORWARD"
    BY <1>8, <2>1, <2>2 DEF GoodEntry, GoodBack
  <2> QED
    BY <1>3, <1>8, <2>3, PlacesTaken
<1>9. CASE run.in = "callback" /\ run.key # NoKey /\ RespondByName(n, run, reqs)
  <2>1. PICK f : f = Frame("MSG_RES", run.key, run.sender, n, Subject(run))
    OBVIOUS
  <2>2. run.sender \in Nodes
    BY <1>4, <1>9, BackFacts DEF GoodRun
  <2>3. f \in Frames /\ f.key = run.key
    BY <1>4, <2>1, <2>2, FrameType
  <2>4. /\ running' = [running EXCEPT ![n] = Idle] /\ requests' = reqs /\ UNCHANGED chains
    BY <1>9 DEF RespondByName
  <2>5. chan' = chan \/ \E m \in Nodes : chan' = Sent(chan, n, m, f)
    BY <1>9, <2>1, <2>2, HopsAssumption DEF RespondByName, Route
  <2>6. \E p : AnswerSent(n, run, f, p)
    <3>1. CASE chan' = chan
      BY <3>1 DEF AnswerSent
    <3>2. ASSUME NEW m \in Nodes, chan' = Sent(chan, n, m, f)
          PROVE  AnswerSent(n, run, f, Target(n, m))
      BY <1>9, <2>3, <3>2 DEF AnswerSent, Delivered
    <3> QED
      BY <2>5, <3>1, <3>2
  <2> QED
    BY <1>3, <2>4, <2>6, PlacesEnded
<1> QED
  BY <1>3, <1>5, <1>6, <1>7, <1>8, <1>9 DEF Finished, RespondHere

\* A node that asks puts the key of its function into the entry, and the new key into
\* the frame or the method that is called.
LEMMA PlacesAsked ==
  ASSUME NEW n, NEW parent, NEW key, NEW sender,
         JInv, IInv', n \in Nodes, Len(requests) < MaxRequests,
         parent \in Ids \cup {NoRequest}, key \in Keys \cup {NoKey}, sender \in Senders,
         key # NoKey => running[n] # Idle /\ running[n].key = key,
         Asks(n, parent, key, sender)
  PROVE  JInv'
<1>1. IInv /\ OneEntry /\ TypeOK
  BY DEF JInv, IInv
<1>2. PICK place \in Placings : Placed(place)
  BY DEF JInv
<1>3. /\ FramesPlaced(chan, place) /\ chan \in Channels /\ OnlyOld(chan)
      /\ key # NoKey => place[key] = InRun(n) /\ key \in Keys /\ Made(key)
      /\ Elsewhere(chan, place)
  BY <1>1, <1>2, PlacedFacts
<1>4. PICK r : r = Len(requests) + 1
  OBVIOUS
<1>5. PICK k : k = NextKey(n)
  OBVIOUS
<1>6. PICK x \in Request : requests' = Append(requests, x) /\ x.calls = 0
  <2> DEFINE x == NewRequest(n, parent, 0)
             y == [NewRequest(n, parent, 0) EXCEPT !.dropped = TRUE]
  <2>1. x \in Request /\ y \in Request /\ x.calls = 0 /\ y.calls = 0
    BY NewRequestType
  <2>2. requests' = Append(requests, x) \/ requests' = Append(requests, y)
    BY Zenon DEF Asks, RequestLocally, RequestUnknown, RequestRemotely
  <2> HIDE DEF x, y
  <2> QED
    BY <2>1, <2>2
<1>7. /\ requests' \in Seq(Request) /\ Len(requests') = r /\ r \in Ids
      /\ Len(requests) <= Len(requests') /\ \A q \in L : requests'[q] = requests[q]
      /\ requests'[r].calls = 0 /\ r \notin L /\ \A q \in 1 .. Len(requests') : q \notin L => q = r
  <2>1. /\ requests' \in Seq(Request) /\ Len(requests') = r /\ Len(requests) \in Nat
        /\ r \in Ids /\ \A q \in L : requests'[q] = requests[q]
        /\ requests'[r] = x
    BY <1>1, <1>4, <1>6, RequestMade
  <2> QED
    BY <2>1, <1>4, <1>6 DEF L
<1>8. CallsOne(NoRequest)
  BY <1>1, <1>7, CallsNobody
<1>9. k \in Keys /\ k.at = n /\ ~Made(k) /\ k # NoKey
  BY <1>1, <1>5, NextKeyIsNew, NoKeyIsNone DEF TypeOK
<1>10. key # k
  BY <1>3, <1>9
<1>11. Ends(n, NoRequest, NoKey)
  BY <1>1, EndsNone
<1>12. Mine(place, n, NoKey, key) /\ Mine(place, n, NoKey, k)
  BY <1>3, <1>9, NoKeyIsNone DEF Mine
<1>13. Away(chan, key) /\ Away(chan, k)
  BY <1>3, <1>9, AwayElsewhere
<1>14. \A d \in chains[n] : d.id # NoKey
  <2>1. PICK owner \in Owners, passed \in SUBSET Keys : Owned(owner, passed)
    BY <1>1 DEF IInv
  <2>2. \A d \in chains[n] : d.id \in Keys
    BY <1>1, <2>1, EntryFacts
  <2> QED
    BY <2>2, NoKeyIsNone
<1>15. ASSUME NEW e, NEW type \in {"RESPONSE", "METHODS"}, e = Entry(type, k, r, key, sender),
              chains' = [chains EXCEPT ![n] = @ \cup {e}]
       PROVE  /\ e.id = k /\ e.about = r /\ e.key = key /\ e.type = type
              /\ \A i \in Nodes : i # n => chains'[i] = chains[i]
              /\ chains'[n] = chains[n] \cup {e}
              /\ OneEntry' /\ Live(e)'
  <2>1. e.id = k /\ e.about = r /\ e.key = key /\ e.type = type
    <3>1. type \in {"RESPONSE", "FORWARD", "METHODS"}
      BY <1>15
    <3> QED
      BY <1>7, <1>9, <1>15, <3>1, EntryType
  <2>2. /\ \A i \in Nodes : i # n => chains'[i] = chains[i]
        /\ chains'[n] = chains[n] \cup {e}
    BY <1>1, <1>15 DEF TypeOK
  <2>3. \A i \in Nodes : \A d \in chains'[i] : d \in chains[i] \/ (i = n /\ d = e)
    BY <2>2
  <2>4. OneEntry'
    BY <1>1, <1>7, <1>9, <2>1, <2>3, OneEntryAdds
  <2>5. Live(e)'
    BY <1>7, <2>1 DEF Live
  <2> QED
    BY <2>1, <2>2, <2>4, <2>5
<1>16. CASE RequestLocally(n, parent, key, sender)
  <2>1. PICK e : e = Entry("RESPONSE", k, r, key, sender)
    OBVIOUS
  <2>2. PICK run : run = Local(r, k, n, key, sender)
    OBVIOUS
  <2>3. /\ chains' = [chains EXCEPT ![n] = @ \cup {e}] /\ chan' = chan
        /\ running' = [running EXCEPT ![n] = run]
    BY <1>4, <1>5, <1>16, <2>1, <2>2 DEF RequestLocally
  <2>4. run.in = "local" /\ run.about = r /\ run.key = k /\ run.lastKey = key
    <3>1. n \in Senders /\ k \in Keys \cup {NoKey}
      BY <1>9 DEF Senders
    <3> QED
      BY <1>7, <2>2, <3>1, LocalType
  <2>5. /\ e.id = k /\ e.about = r /\ e.key = key /\ e.type = "RESPONSE"
        /\ \A i \in Nodes : i # n => chains'[i] = chains[i]
        /\ chains'[n] = chains[n] \cup {e}
        /\ OneEntry' /\ Live(e)'
    BY <1>15, <2>1, <2>3
  <2>6. /\ \A i \in Nodes : i # n => running'[i] = running[i]
        /\ running'[n] = run
    BY <1>1, <2>3 DEF TypeOK
  <2>7. PICK place2 : place2 = Moves(place, key, InEntry(k), k, InRun(n))
    OBVIOUS
  <2>8. InEntry(k) \in Places /\ InRun(n) \in Places
    BY <1>9, PlacesType
  <2>9. (key # NoKey => place2[key] = InEntry(k)) /\ place2[k] = InRun(n)
    BY <1>3, <1>9, <1>10, <2>7 DEF Moves
  <2>10. FramesPlaced(chan', place2)
    BY <1>1, <1>3, <1>13, <2>3, <2>7, FramesMove
  <2>11. \A y : y = running'[n] => LocalAt(n, y)'
    BY <2>4, <2>5, <2>6 DEF LocalAt
  <2>12. \A y : y = running'[n] /\ y # Idle /\ y.key # NoKey => place2[y.key] = InRun(n)
    BY <2>4, <2>6, <2>9
  <2>13. EntryPlaced(e, place2)'
    BY <2>5, <2>9 DEF EntryPlaced
  <2>14. \A d \in chains'[n] : (d \in chains[n] /\ d.id # NoKey) \/ EntryPlaced(d, place2)'
    BY <1>14, <2>5, <2>13
  <2> QED
    BY <1>2, <1>8, <1>11, <1>12, <2>5, <2>6, <2>7, <2>8, <2>10, <2>11, <2>12, <2>14, PlacesStep
<1>17. CASE RequestUnknown(n, parent)
  <2>1. chains' = chains /\ chan' = chan /\ running' = [running EXCEPT ![n] = Idle]
    BY <1>17 DEF RequestUnknown
  <2>2. /\ \A i \in Nodes : i # n => running'[i] = running[i]
        /\ running'[n] = Idle
    BY <1>1, <2>1 DEF TypeOK
  <2>3. PICK place2 : place2 = Moves(place, key, Nowhere, NoKey, Nowhere)
    OBVIOUS
  <2>4. Nowhere \in Places
    BY PlacesType
  <2>5. FramesPlaced(chan', place2)
    <3>1. Away(chan, NoKey)
      BY <1>3, AwayElsewhere
    <3> QED
      BY <1>1, <1>3, <1>13, <2>1, <2>3, <3>1, FramesMove
  <2>6. Mine(place, n, NoKey, NoKey)
    BY NoKeyIsNone DEF Mine
  <2>7. \A y : y = running'[n] => LocalAt(n, y)'
    BY <2>2 DEF LocalAt
  <2>8. \A y : y = running'[n] /\ y # Idle /\ y.key # NoKey => place2[y.key] = InRun(n)
    BY <2>2
  <2>9. OneEntry'
    BY <1>1, <2>1, OneEntryStays
  <2> QED
    BY <1>2, <1>8, <1>11, <1>12, <1>14, <2>1, <2>2, <2>3, <2>4, <2>5, <2>6, <2>7, <2>8, <2>9,
       PlacesStep
<1>18. ASSUME NEW m \in Nodes, NEW to \in Nodes, NEW ask \in {Message, Methods},
              RequestRemotely(n, m, to, ask, parent, key, sender)
       PROVE  JInv'
  <2>1. ask.frame \in {"MSG_REQ", "METHODS"} /\ ask.entry \in {"RESPONSE", "METHODS"}
    BY <1>18 DEF Message, Methods
  <2>2. PICK e : e = Entry(ask.entry, k, r, key, sender)
    OBVIOUS
  <2>3. PICK f : f = Frame(ask.frame, k, to, n, r)
    OBVIOUS
  <2>4. /\ chains' = [chains EXCEPT ![n] = @ \cup {e}] /\ chan' = Sent(chan, n, m, f)
        /\ running' = [running EXCEPT ![n] = Idle]
    BY <1>4, <1>5, <1>18, <2>2, <2>3 DEF RequestRemotely
  <2>5. f \in Frames /\ f.key = k
    BY <1>7, <1>9, <2>1, <2>3, FrameType
  <2>6. /\ e.id = k /\ e.about = r /\ e.key = key /\ e.type = ask.entry
        /\ \A i \in Nodes : i # n => chains'[i] = chains[i]
        /\ chains'[n] = chains[n] \cup {e}
        /\ OneEntry' /\ Live(e)'
    BY <1>15, <2>1, <2>2, <2>4
  <2>7. /\ \A i \in Nodes : i # n => running'[i] = running[i]
        /\ running'[n] = Idle
    BY <1>1, <2>4 DEF TypeOK
  <2>8. PICK p : p = Target(n, m)
    OBVIOUS
  <2>9. Delivered(chan, n, f, chan', p)
    BY <2>4, <2>8 DEF Delivered
  <2>10. PICK place2 : place2 = Moves(place, key, InEntry(k), k, p)
    OBVIOUS
  <2>11. InEntry(k) \in Places /\ p \in Places
    BY <1>9, <2>9, DeliveredType, PlacesType
  <2>12. (key # NoKey => place2[key] = InEntry(k)) /\ place2[k] = p
    BY <1>3, <1>9, <1>10, <2>10 DEF Moves
  <2>13. FramesPlaced(chan', place2)
    BY <1>1, <1>3, <1>13, <2>5, <2>9, <2>10, <2>12, FramesStep
  <2>14. \A y : y = running'[n] => LocalAt(n, y)'
    BY <2>7 DEF LocalAt
  <2>15. \A y : y = running'[n] /\ y # Idle /\ y.key # NoKey => place2[y.key] = InRun(n)
    BY <2>7
  <2>16. EntryPlaced(e, place2)'
    BY <2>6, <2>12 DEF EntryPlaced
  <2>17. \A d \in chains'[n] : (d \in chains[n] /\ d.id # NoKey) \/ EntryPlaced(d, place2)'
    BY <1>14, <2>6, <2>16
  <2> QED
    BY <1>2, <1>8, <1>11, <1>12, <2>6, <2>7, <2>10, <2>11, <2>13, <2>14, <2>15, <2>17, PlacesStep
<1> QED
  BY <1>16, <1>17, <1>18 DEF Asks

\* A node that reads a frame: what is known of the channels then.
LEMMA PlacesRead ==
  ASSUME NEW n, NEW m, NEW place, NEW ch, NEW frame,
         IInv, n \in Nodes, m \in Nodes, chan[m][n] # <<>>, place \in Placings, Placed(place),
         ch = WithoutHead(n, m), frame = Head(chan[m][n]), frame.type # "CLOSE"
  PROVE  /\ FramesPlaced(ch, place) /\ ch \in Channels /\ OnlyOld(ch)
         /\ Away(ch, frame.key) /\ place[frame.key] = OnChan(m, n)
         /\ frame \in Frames /\ frame.key \in Keys /\ Made(frame.key) /\ frame.about \in L
         /\ frame.about \in Ids
         /\ Elsewhere(ch, place)
<1>1. PICK owner \in Owners, passed \in SUBSET Keys : Owned(owner, passed)
  BY DEF IInv
<1>2. TypeOK /\ Apart /\ FramesPlaced(chan, place)
  BY DEF IInv, Placed
<1>3. /\ FramesPlaced(ch, place) /\ Away(ch, frame.key) /\ place[frame.key] = OnChan(m, n)
  BY <1>2, FramesRead
<1>4. ch \in Channels /\ OnlyOld(ch)
  BY <1>2, ChanRead
<1>5. /\ frame \in Frames /\ frame.key \in Keys /\ Made(frame.key) /\ frame.about \in L
      /\ frame.about \in Ids
  BY <1>1, <1>2, HeadFacts
<1>6. Elsewhere(ch, place)
  BY <1>3, <1>4, AwayFrom DEF Elsewhere
<1> QED
  BY <1>3, <1>4, <1>5, <1>6

\* A frame is passed on: its key is in the entry, and the new key in the frame.
LEMMA PlacesForwarded ==
  ASSUME NEW n, NEW m, NEW to, NEW frame,
         JInv, IInv', n \in Nodes, m \in Nodes, to \in Nodes, chan[m][n] # <<>>,
         running[n] = Idle, frame = Head(chan[m][n]), frame.type \in {"MSG_REQ", "METHODS"},
         Forward(n, m, frame, to), UNCHANGED <<running, requests, open, failures>>
  PROVE  JInv'
<1>1. IInv /\ OneEntry /\ TypeOK
  BY DEF JInv, IInv
<1>2. PICK place \in Placings : Placed(place)
  BY DEF JInv
<1>3. PICK ch : ch = WithoutHead(n, m)
  OBVIOUS
<1>4. /\ FramesPlaced(ch, place) /\ ch \in Channels /\ OnlyOld(ch)
      /\ Away(ch, frame.key) /\ place[frame.key] = OnChan(m, n)
      /\ frame \in Frames /\ frame.key \in Keys /\ Made(frame.key) /\ frame.about \in L
      /\ frame.about \in Ids
      /\ Elsewhere(ch, place)
  <2>1. frame.type # "CLOSE"
    OBVIOUS
  <2> QED
    BY <1>1, <1>2, <1>3, <2>1, PlacesRead
<1>5. PICK k : k = NextKey(n)
  OBVIOUS
<1>6. k \in Keys /\ ~Made(k) /\ k # NoKey /\ k # frame.key
  <2>1. k \in Keys /\ ~Made(k)
    BY <1>1, <1>5, NextKeyIsNew DEF TypeOK
  <2>2. k # frame.key
    BY <1>4, <2>1
  <2> QED
    BY <2>1, <2>2, NoKeyIsNone
<1>7. PICK e : e = Entry("FORWARD", k, frame.about, frame.key, frame.sender)
  OBVIOUS
<1>8. e.type = "FORWARD" /\ e.id = k /\ e.about = frame.about /\ e.key = frame.key
  <2>1. frame.key \in Keys \cup {NoKey} /\ frame.sender \in Senders
        /\ "FORWARD" \in {"RESPONSE", "FORWARD", "METHODS"}
    BY <1>4 DEF Frames, Senders
  <2>2. frame.about \in Ids /\ k \in Keys
    BY <1>4, <1>6
  <2> QED
    BY <1>7, <2>1, <2>2, EntryType
<1>9. PICK f : f = Rekeyed(frame, k, n)
  OBVIOUS
<1>10. f \in Frames /\ f.key = k
  <2>1. k \in Keys \cup {NoKey}
    BY <1>6
  <2> QED
    BY <1>4, <1>9, <2>1, FrameRekeyed
<1>11. chains' = [chains EXCEPT ![n] = @ \cup {e}] /\ chan' = Sent(ch, n, to, f)
  BY <1>3, <1>5, <1>7, <1>9 DEF Forward, Rekeyed
<1>12. /\ \A i \in Nodes : i # n => chains'[i] = chains[i]
       /\ chains'[n] = chains[n] \cup {e} /\ running' = running
  BY <1>1, <1>11 DEF TypeOK
<1>13. PICK p : p = Target(n, to)
  OBVIOUS
<1>14. Delivered(ch, n, f, chan', p)
  BY <1>11, <1>13 DEF Delivered
<1>15. PICK place2 : place2 = Moves(place, frame.key, InEntry(k), k, p)
  OBVIOUS
<1>16. InEntry(k) \in Places /\ p \in Places
  BY <1>6, <1>14, DeliveredType, PlacesType
<1>17. place2[frame.key] = InEntry(k) /\ place2[k] = p
  BY <1>4, <1>6, <1>15 DEF Moves
<1>18. Mine(place, n, NoKey, frame.key) /\ Mine(place, n, NoKey, k)
  BY <1>4, <1>6 DEF Mine
<1>19. FramesPlaced(chan', place2)
  <2>1. Away(ch, k)
    BY <1>4, <1>6, AwayElsewhere
  <2> QED
    BY <1>1, <1>4, <1>10, <1>14, <1>15, <1>17, <2>1, FramesStep
<1>20. CallsOne(NoRequest)
  <2>1. requests \in Seq(Request) /\ Len(requests) <= Len(requests) /\ requests' = requests
        /\ \A q \in 1 .. Len(requests) : q \notin L => requests[q].calls <= 1
    BY <1>1 DEF TypeOK, Request, L
  <2> QED
    BY <1>1, <2>1, CallsNobody
<1>21. Ends(n, NoRequest, NoKey)
  BY <1>1, EndsNone
<1>22. \A x : x = running'[n] => LocalAt(n, x)'
  BY <1>12 DEF LocalAt
<1>23. \A x : x = running'[n] /\ x # Idle /\ x.key # NoKey => place2[x.key] = InRun(n)
  BY <1>12
<1>24. \A d \in chains'[n] : (d \in chains[n] /\ d.id # NoKey) \/ EntryPlaced(d, place2)'
  <2>1. PICK owner \in Owners, passed \in SUBSET Keys : Owned(owner, passed)
    BY <1>1 DEF IInv
  <2>2. \A d \in chains[n] : d.id \in Keys
    BY <1>1, <2>1, EntryFacts
  <2>3. EntryPlaced(e, place2)'
    BY <1>8, <1>17 DEF EntryPlaced, Live
  <2> QED
    BY <1>12, <2>2, <2>3, NoKeyIsNone
<1>25. OneEntry'
  <2>1. \A i \in Nodes : \A d \in chains'[i] : d \in chains[i] \/ (i = n /\ d = e)
    BY <1>12
  <2> QED
    BY <1>1, <1>6, <1>8, <2>1, OneEntryAdds
<1> QED
  BY <1>2, <1>12, <1>15, <1>16, <1>18, <1>19, <1>20, <1>21, <1>22, <1>23, <1>24, <1>25, PlacesStep

\* The frame that n reads is answered by the library, or its method is called.
Served(n, m, frame) ==
  \/ chan' = Sent(WithoutHead(n, m), n, m, Answer(frame, n)) /\ UNCHANGED running
  \/ /\ chan' = WithoutHead(n, m)
     /\ running' = [running EXCEPT ![n] = Remote(frame.about, frame.key, frame.sender, m)]

\* Its key is in the answer, or in the function.
LEMMA PlacesReceived ==
  ASSUME NEW n, NEW m, NEW frame,
         JInv, IInv', n \in Nodes, m \in Nodes, chan[m][n] # <<>>, running[n] = Idle,
         frame = Head(chan[m][n]), frame.type \in {"MSG_REQ", "METHODS"},
         Served(n, m, frame),
         UNCHANGED <<chains, keys, requests, open, failures>>
  PROVE  JInv'
<1>1. IInv /\ OneEntry /\ TypeOK
  BY DEF JInv, IInv
<1>2. PICK place \in Placings : Placed(place)
  BY DEF JInv
<1>3. PICK ch : ch = WithoutHead(n, m)
  OBVIOUS
<1>4. /\ FramesPlaced(ch, place) /\ ch \in Channels /\ OnlyOld(ch)
      /\ Away(ch, frame.key) /\ place[frame.key] = OnChan(m, n)
      /\ frame \in Frames /\ frame.key \in Keys /\ Made(frame.key) /\ frame.about \in L
      /\ frame.about \in Ids
      /\ Elsewhere(ch, place)
  <2>1. frame.type # "CLOSE"
    OBVIOUS
  <2> QED
    BY <1>1, <1>2, <1>3, <2>1, PlacesRead
<1>5. PICK f : f = Answer(frame, n)
  OBVIOUS
<1>6. f \in Frames /\ f.key = frame.key
  BY <1>4, <1>5, FrameAnswered
<1>7. PICK run : run = Remote(frame.about, frame.key, frame.sender, m)
  OBVIOUS
<1>8. run.in = "remote" /\ run.key = frame.key
  <2>1. frame.key \in Keys \cup {NoKey} /\ frame.sender \in Senders /\ m \in Senders
    BY <1>4 DEF Frames, Senders
  <2> QED
    BY <1>4, <1>7, <2>1, RemoteType
<1>9. Mine(place, n, NoKey, frame.key) /\ Mine(place, n, NoKey, NoKey)
  BY <1>4, NoKeyIsNone DEF Mine
<1>10. CallsOne(NoRequest)
  <2>1. requests \in Seq(Request) /\ Len(requests) <= Len(requests) /\ requests' = requests
        /\ \A q \in 1 .. Len(requests) : q \notin L => requests[q].calls <= 1
    BY <1>1 DEF TypeOK, Request, L
  <2> QED
    BY <1>1, <2>1, CallsNobody
<1>11. Ends(n, NoRequest, NoKey)
  BY <1>1, EndsNone
<1>12. \A d \in chains'[n] : d \in chains[n] /\ d.id # NoKey
  <2>1. PICK owner \in Owners, passed \in SUBSET Keys : Owned(owner, passed)
    BY <1>1 DEF IInv
  <2>2. \A d \in chains[n] : d.id \in Keys
    BY <1>1, <2>1, EntryFacts
  <2> QED
    BY <2>2, NoKeyIsNone
<1>13. OneEntry'
  BY <1>1, OneEntryStays
<1>14. Away(ch, NoKey)
  BY <1>4, AwayElsewhere
<1>15. CASE chan' = Sent(ch, n, m, f) /\ UNCHANGED running
  <2>1. PICK p : p = Target(n, m)
    OBVIOUS
  <2>2. Delivered(ch, n, f, chan', p)
    BY <1>15, <2>1 DEF Delivered
  <2>3. PICK place2 : place2 = Moves(place, frame.key, p, NoKey, Nowhere)
    OBVIOUS
  <2>4. p \in Places /\ Nowhere \in Places
    BY <2>2, DeliveredType, PlacesType
  <2>5. place2[f.key] = p /\ f.key \in {frame.key, NoKey}
    BY <1>4, <1>6, <2>3 DEF Moves
  <2>6. FramesPlaced(chan', place2)
    BY <1>1, <1>4, <1>6, <1>14, <2>2, <2>3, <2>5, FramesStep
  <2>7. \A x : x = running'[n] => LocalAt(n, x)'
    BY <1>15 DEF LocalAt
  <2>8. \A x : x = running'[n] /\ x # Idle /\ x.key # NoKey => place2[x.key] = InRun(n)
    BY <1>15
  <2>9. \A i \in Nodes : i # n => running'[i] = running[i] /\ chains'[i] = chains[i]
    BY <1>15
  <2> QED
    BY <1>2, <1>9, <1>10, <1>11, <1>12, <1>13, <2>3, <2>4, <2>6, <2>7, <2>8, <2>9, PlacesStep
<1>16. CASE chan' = ch /\ running' = [running EXCEPT ![n] = run]
  <2>1. PICK place2 : place2 = Moves(place, frame.key, InRun(n), NoKey, Nowhere)
    OBVIOUS
  <2>2. InRun(n) \in Places /\ Nowhere \in Places
    BY PlacesType
  <2>3. place2[frame.key] = InRun(n)
    BY <1>4, <2>1 DEF Moves
  <2>4. FramesPlaced(chan', place2)
    BY <1>1, <1>4, <1>14, <1>16, <2>1, FramesMove
  <2>5. /\ \A i \in Nodes : i # n => running'[i] = running[i] /\ chains'[i] = chains[i]
        /\ running'[n] = run
    BY <1>1, <1>16 DEF TypeOK
  <2>6. \A x : x = running'[n] => LocalAt(n, x)'
    BY <1>8, <2>5 DEF LocalAt
  <2>7. \A x : x = running'[n] /\ x # Idle /\ x.key # NoKey => place2[x.key] = InRun(n)
    BY <1>8, <2>3, <2>5
  <2> QED
    BY <1>2, <1>9, <1>10, <1>11, <1>12, <1>13, <2>1, <2>2, <2>4, <2>5, <2>6, <2>7, PlacesStep
<1> QED
  BY <1>3, <1>5, <1>7, <1>15, <1>16 DEF Served

\* A request that arrives.
LEMMA PlacesRequested ==
  ASSUME NEW n, NEW m,
         JInv, IInv', n \in Nodes, m \in Nodes, OnMsgRequest(n, m) \/ OnMethodsRequest(n, m)
  PROVE  JInv'
<1>1. PICK frame : frame = Head(chan[m][n])
  OBVIOUS
<1>2. /\ chan[m][n] # <<>> /\ frame.type \in {"MSG_REQ", "METHODS"} /\ running[n] = Idle
      /\ UNCHANGED <<requests, open, failures>>
  BY <1>1 DEF OnMsgRequest, OnMethodsRequest, Received
<1>3. frame.module \in Nodes
  <2>1. TypeOK /\ \E owner \in Owners, passed \in SUBSET Keys : Owned(owner, passed)
    BY DEF JInv, IInv
  <2> QED
    BY <1>1, <1>2, <2>1, HeadFacts
<1>4. \A to : to \in Route(n, frame.module) => to \in Nodes
  BY <1>3, HopsAssumption DEF Route
<1>5. CASE ForwardOrRefuse(n, m, frame)
  <2>1. CASE \E to \in Route(n, frame.module) : Forward(n, m, frame, to)
    BY <1>1, <1>2, <1>4, <1>5, <2>1, PlacesForwarded DEF ForwardOrRefuse
  <2>2. CASE /\ chan' = Sent(WithoutHead(n, m), n, m, Answer(frame, n))
             /\ UNCHANGED <<chains, keys>>
    <3>1. UNCHANGED running
      BY <1>5 DEF ForwardOrRefuse
    <3> QED
      BY <1>1, <1>2, <2>2, <3>1, PlacesReceived DEF Served
  <2> QED
    BY <1>5, <2>1, <2>2 DEF ForwardOrRefuse
<1>6. CASE /\ running' = [running EXCEPT ![n] = Remote(frame.about, frame.key, frame.sender, m)]
           /\ chan' = WithoutHead(n, m)
           /\ UNCHANGED <<chains, keys>>
  BY <1>1, <1>2, <1>6, PlacesReceived DEF Served
<1>7. CASE /\ chan' = Sent(WithoutHead(n, m), n, m, Answer(frame, n))
           /\ UNCHANGED <<chains, keys, running>>
  BY <1>1, <1>2, <1>7, PlacesReceived DEF Served
<1> QED
  BY <1>1, <1>5, <1>6, <1>7 DEF OnMsgRequest, OnMethodsRequest

\* The answer of a request of our own, or of one that was passed on, or one that
\* nobody waits for: the entry goes, and its key is in the callback or the answer.
LEMMA PlacesAnswered ==
  ASSUME NEW n, NEW m,
         JInv, IInv', n \in Nodes, m \in Nodes, OnMsgResponse(n, m)
  PROVE  JInv'
<1>1. IInv /\ OneEntry /\ TypeOK
  BY DEF JInv, IInv
<1>2. PICK place \in Placings : Placed(place)
  BY DEF JInv
<1>3. PICK owner \in Owners, passed \in SUBSET Keys : Owned(owner, passed)
  BY <1>1 DEF IInv
<1>4. PICK frame : frame = Head(chan[m][n])
  OBVIOUS
<1>5. PICK ch : ch = WithoutHead(n, m)
  OBVIOUS
<1>6. /\ chan[m][n] # <<>> /\ frame.type = "MSG_RES" /\ running[n] = Idle
  BY <1>4 DEF OnMsgResponse, Received
<1>7. /\ FramesPlaced(ch, place) /\ ch \in Channels /\ OnlyOld(ch)
      /\ Away(ch, frame.key) /\ place[frame.key] = OnChan(m, n)
      /\ frame \in Frames /\ frame.key \in Keys /\ Made(frame.key) /\ frame.about \in L
      /\ frame.about \in Ids
      /\ Elsewhere(ch, place)
  <2>1. frame.type # "CLOSE"
    BY <1>6
  <2> QED
    BY <1>1, <1>2, <1>4, <1>5, <1>6, <2>1, PlacesRead
<1>8. Nowhere \in Places /\ InRun(n) \in Places
  BY PlacesType
<1>9. Away(ch, NoKey) /\ Mine(place, n, NoKey, NoKey)
  BY <1>7, AwayElsewhere, NoKeyIsNone DEF Mine
<1>10. ASSUME requests' = requests PROVE CallsOne(NoRequest)
  <2>1. requests \in Seq(Request) /\ Len(requests) <= Len(requests)
        /\ \A q \in 1 .. Len(requests) : q \notin L => requests[q].calls <= 1
    BY <1>1 DEF TypeOK, Request, L
  <2> QED
    BY <1>1, <1>10, <2>1, CallsNobody
<1>11. ASSUME NEW e, e \in chains[n], e.id = frame.key, chains' = [chains EXCEPT ![n] = @ \ {e}]
       PROVE  /\ e.key \in Keys \cup {NoKey} /\ e.sender \in Senders /\ e.about \in Ids
              /\ e.about \in L /\ Live(e) /\ GoodEntry(n, e, owner, passed)
              /\ e.key # NoKey => e.key \in Keys /\ place[e.key] = InEntry(e.id)
              /\ Mine(place, n, e.id, frame.key) /\ Mine(place, n, e.id, e.key)
              /\ Away(ch, e.key) /\ e.key # frame.key /\ OneEntry'
              /\ \A i \in Nodes : i # n => chains'[i] = chains[i]
              /\ \A d \in chains'[n] : d \in chains[n] /\ d.id # e.id
  <2>1. /\ GoodEntry(n, e, owner, passed) /\ e.about \in L /\ e.about \in Ids
        /\ e.key \in Keys \cup {NoKey} /\ e.sender \in Senders
    BY <1>1, <1>3, <1>11, EntryFacts
  <2>2. EntryPlaced(e, place)
    BY <1>1, <1>2, <1>11, PlacedFacts
  <2>3. Live(e) /\ (e.key # NoKey => e.key \in Keys /\ place[e.key] = InEntry(e.id))
    BY <1>7, <1>11, <2>1, <2>2, PlacesDiffer DEF EntryPlaced
  <2>4. Mine(place, n, e.id, frame.key) /\ Mine(place, n, e.id, e.key)
    BY <1>7, <2>3, NoKeyIsNone DEF Mine
  <2>5. Away(ch, e.key)
    BY <1>7, <2>3, AwayElsewhere
  <2>6. e.key # frame.key
    BY <1>7, <2>3, NoKeyIsNone, PlacesDiffer
  <2>7. (\A i \in Nodes : i # n => chains'[i] = chains[i]) /\ chains'[n] = chains[n] \ {e}
    BY <1>1, <1>11 DEF TypeOK
  <2>8. \A d \in chains[n] : d.id = e.id => d = e
    BY <1>1, <1>11 DEF OneEntry
  <2>9. OneEntry'
    <3>1. \A i \in Nodes : chains'[i] \subseteq chains[i]
      BY <2>7
    <3> QED
      BY <1>1, <3>1, OneEntryStays
  <2> QED
    BY <2>1, <2>3, <2>4, <2>5, <2>6, <2>7, <2>8, <2>9
<1>12. ASSUME NEW e, e \in chains[n], e.id = frame.key,
              chains' = [chains EXCEPT ![n] = @ \ {e}], OnAnswer(n, m, e)
       PROVE  JInv'
  <2>1. /\ e.key \in Keys \cup {NoKey} /\ e.sender \in Senders /\ e.about \in Ids
        /\ e.about \in L /\ Live(e)
        /\ e.key # NoKey => e.key \in Keys /\ place[e.key] = InEntry(e.id)
        /\ Mine(place, n, e.id, frame.key) /\ Mine(place, n, e.id, e.key)
        /\ Away(ch, e.key) /\ e.key # frame.key /\ OneEntry'
        /\ \A i \in Nodes : i # n => chains'[i] = chains[i]
        /\ \A d \in chains'[n] : d \in chains[n] /\ d.id # e.id
    BY <1>11, <1>12
  <2>2. PICK r2 : r2 = Callback(e.about, e.key, e.sender)
    OBVIOUS
  <2>3. r2.in = "callback" /\ r2.key = e.key
    BY <2>1, <2>2, CallbackType
  <2>4. /\ e.type # "FORWARD" /\ requests' = Called(requests, e.about) /\ chan' = ch
        /\ running' = [running EXCEPT ![n] = IF e.type = "RESPONSE" THEN r2 ELSE @]
    BY <1>5, <1>12, <2>2 DEF OnAnswer
  <2>5. /\ \A i \in Nodes : i # n => running'[i] = running[i]
        /\ running'[n] = IF e.type = "RESPONSE" THEN r2 ELSE Idle
    BY <1>1, <1>6, <2>4 DEF TypeOK
  <2>6. PICK p2 : p2 = IF e.type = "RESPONSE" THEN InRun(n) ELSE Nowhere
    OBVIOUS
  <2>7. PICK place2 : place2 = Moves(place, frame.key, Nowhere, e.key, p2)
    OBVIOUS
  <2>8. requests[e.about].calls = 0
    BY <2>1, <2>4 DEF Live
  <2>9. CallsOne(e.about)
    <3>1. requests \in Seq(Request) /\ Len(requests) <= Len(requests)
          /\ \A q \in 1 .. Len(requests) : q \notin L => requests[q].calls <= 1
      BY <1>1 DEF TypeOK, Request, L
    <3> QED
      BY <1>1, <2>1, <2>4, <2>8, <3>1, CallsSomebody
  <2>10. Ends(n, e.about, e.id)
    BY <1>1, <1>12, <2>4, EndsEntry
  <2>11. FramesPlaced(chan', place2)
    BY <1>1, <1>7, <2>1, <2>4, <2>7, FramesMove
  <2>12. \A x : x = running'[n] => LocalAt(n, x)'
    BY <2>3, <2>5 DEF LocalAt
  <2>13. \A x : x = running'[n] /\ x # Idle /\ x.key # NoKey => place2[x.key] = InRun(n)
    <3>1. e.key # NoKey => place2[e.key] = p2
      BY <2>1, <2>7 DEF Moves
    <3> QED
      BY <2>3, <2>5, <2>6, <3>1
  <2>14. p2 \in Places
    BY <1>8, <2>6
  <2> QED
    BY <1>2, <1>8, <2>1, <2>5, <2>7, <2>9, <2>10, <2>11, <2>12, <2>13, <2>14, PlacesStep
<1>13. ASSUME NEW e, e \in chains[n], e.id = frame.key,
              chains' = [chains EXCEPT ![n] = @ \ {e}], OnForwardedAnswer(n, m, e)
       PROVE  JInv'
  <2>1. /\ e.key \in Keys \cup {NoKey} /\ e.sender \in Senders /\ e.about \in Ids
        /\ e.about \in L /\ Live(e) /\ GoodEntry(n, e, owner, passed)
        /\ e.key # NoKey => e.key \in Keys /\ place[e.key] = InEntry(e.id)
        /\ Mine(place, n, e.id, frame.key) /\ Mine(place, n, e.id, e.key)
        /\ Away(ch, e.key) /\ e.key # frame.key /\ OneEntry'
        /\ \A i \in Nodes : i # n => chains'[i] = chains[i]
        /\ \A d \in chains'[n] : d \in chains[n] /\ d.id # e.id
    BY <1>11, <1>13
  <2>2. e.type = "FORWARD" /\ running' = running /\ requests' = requests
    BY <1>13 DEF OnForwardedAnswer
  <2>3. e.key # NoKey /\ e.sender \in Nodes
    BY <2>1, <2>2, BackFacts DEF GoodEntry
  <2>4. PICK f : f = Rekeyed(frame, e.key, e.sender)
    OBVIOUS
  <2>5. f \in Frames /\ f.key = e.key
    BY <1>7, <2>1, <2>3, <2>4, FrameRekeyed
  <2>6. \E p : Delivered(ch, n, f, chan', p)
    <3>1. f = [Head(chan[m][n]) EXCEPT !.key = e.key, !.sender = e.sender]
      BY <1>4, <2>4 DEF Rekeyed
    <3>2. \A to : to \in Route(n, e.sender) => to \in Nodes
      BY <2>3, HopsAssumption DEF Route
    <3>3. \/ \E to \in Route(n, e.sender) : chan' = Sent(ch, n, to, f)
          \/ Route(n, e.sender) = {} /\ chan' = ch
      BY <1>5, <1>13, <3>1, Zenon DEF OnForwardedAnswer
    <3>4. CASE chan' = ch
      BY <3>4 DEF Delivered
    <3>5. ASSUME NEW to \in Route(n, e.sender), chan' = Sent(ch, n, to, f)
          PROVE  Delivered(ch, n, f, chan', Target(n, to))
      BY <3>2, <3>5 DEF Delivered
    <3> QED
      BY <3>3, <3>4, <3>5
  <2>7. PICK p : Delivered(ch, n, f, chan', p)
    BY <2>6
  <2>8. PICK place2 : place2 = Moves(place, frame.key, Nowhere, e.key, p)
    OBVIOUS
  <2>9. p \in Places
    BY <2>7, DeliveredType
  <2>10. place2[f.key] = p /\ f.key \in {frame.key, e.key}
    BY <2>1, <2>3, <2>5, <2>8 DEF Moves
  <2>11. FramesPlaced(chan', place2)
    BY <1>1, <1>7, <2>1, <2>5, <2>7, <2>8, <2>10, FramesStep
  <2>12. CallsOne(NoRequest)
    BY <1>10, <2>2
  <2>13. Ends(n, NoRequest, e.id)
    BY <1>1, <1>13, <2>2, EndsEntry
  <2>14. \A x : x = running'[n] => LocalAt(n, x)'
    BY <1>6, <2>2 DEF LocalAt
  <2>15. \A x : x = running'[n] /\ x # Idle /\ x.key # NoKey => place2[x.key] = InRun(n)
    BY <1>6, <2>2
  <2> QED
    BY <1>2, <1>8, <2>1, <2>2, <2>8, <2>9, <2>11, <2>12, <2>13, <2>14, <2>15, PlacesStep
<1>14. CASE chan' = WithoutHead(n, m) /\ UNCHANGED <<chains, running, requests>>
  <2>1. PICK place2 : place2 = Moves(place, frame.key, Nowhere, NoKey, Nowhere)
    OBVIOUS
  <2>2. FramesPlaced(chan', place2)
    BY <1>1, <1>5, <1>7, <1>9, <1>14, <2>1, FramesMove
  <2>3. CallsOne(NoRequest) /\ Ends(n, NoRequest, NoKey)
    BY <1>1, <1>10, <1>14, EndsNone
  <2>4. Mine(place, n, NoKey, frame.key)
    BY <1>7 DEF Mine
  <2>5. \A x : x = running'[n] => LocalAt(n, x)'
    BY <1>6, <1>14 DEF LocalAt
  <2>6. \A x : x = running'[n] /\ x # Idle /\ x.key # NoKey => place2[x.key] = InRun(n)
    BY <1>6, <1>14
  <2>7. \A d \in chains'[n] : d \in chains[n] /\ d.id # NoKey
    <3>1. \A d \in chains[n] : d.id \in Keys
      BY <1>1, <1>3, EntryFacts
    <3> QED
      BY <1>14, <3>1, NoKeyIsNone
  <2>8. OneEntry'
    BY <1>1, <1>14, OneEntryStays
  <2>9. \A i \in Nodes : i # n => running'[i] = running[i] /\ chains'[i] = chains[i]
    BY <1>14
  <2> QED
    BY <1>2, <1>8, <1>9, <2>1, <2>2, <2>3, <2>4, <2>5, <2>6, <2>7, <2>8, <2>9, PlacesStep
<1> QED
  BY <1>4, <1>12, <1>13, <1>14 DEF OnMsgResponse

\* A connection is removed: the keys of the frames that are lost are in no place.
LEMMA PlacesRemoved ==
  ASSUME NEW n, NEW m,
         JInv, IInv', n \in Nodes, m \in Nodes, ConnRm(n, m)
  PROVE  JInv'
<1>1. IInv /\ OneEntry /\ TypeOK
  BY DEF JInv, IInv
<1>2. PICK place \in Placings : Placed(place)
  BY DEF JInv
<1>3. PICK owner \in Owners, passed \in SUBSET Keys : Owned(owner, passed)
  BY <1>1 DEF IInv
<1>4. PICK ch : ch = [chan EXCEPT ![m][n] = <<>>]
  OBVIOUS
<1>5. PICK f : f = Close(n)
  OBVIOUS
<1>6. chan' = Sent(ch, n, m, f) /\ UNCHANGED <<requests, chains, keys, running>>
  BY <1>4, <1>5 DEF ConnRm
<1>7. f \in Frames /\ f.type = "CLOSE"
  <2>1. "CLOSE" \in {"MSG_REQ", "MSG_RES", "METHODS", "CLOSE"}
        /\ NoKey \in Keys \cup {NoKey} /\ NoRequest \in Ids \cup {NoRequest}
    OBVIOUS
  <2> QED
    BY <1>5, <2>1, FrameType DEF Close
<1>8. PICK place2 :
        place2 = [k \in Keys |-> IF place[k] = OnChan(m, n) THEN Nowhere ELSE place[k]]
  OBVIOUS
<1>9. place2 \in Placings
  BY <1>8, PlacesType DEF Placings
<1>10. \A k \in Keys : place[k] # OnChan(m, n) => place2[k] = place[k]
  BY <1>8
<1>11. chan \in Channels /\ ch \in Channels
  BY <1>1, <1>4 DEF TypeOK, Channels
<1>12. FramesPlaced(ch, place2)
  <2>1. ASSUME NEW p \in Nodes, NEW q \in Nodes
        PROVE  /\ Distinct(ch[p][q])
               /\ \A g \in Elems(ch[p][q]) : g.type # "CLOSE" => place2[g.key] = OnChan(p, q)
    <3>1. CASE p = m /\ q = n
      <4>1. ch[p][q] = <<>>
        BY <1>4, <1>11, <3>1 DEF Channels
      <4> QED
        BY <4>1 DEF Distinct, Elems
    <3>2. CASE ~(p = m /\ q = n)
      <4>1. ch[p][q] = chan[p][q]
        BY <1>4, <1>11, <3>2 DEF Channels
      <4>2. Distinct(chan[p][q])
            /\ \A g \in Elems(chan[p][q]) : g.type # "CLOSE" => place[g.key] = OnChan(p, q)
        BY <1>2 DEF Placed, FramesPlaced
      <4>3. \A g \in Elems(chan[p][q]) : g.type # "CLOSE" => g.key \in Keys
        BY <1>3 DEF Owned, GoodFrame, Made
      <4>4. OnChan(p, q) # OnChan(m, n)
        BY <3>2, PlacesDiffer
      <4> QED
        BY <1>10, <4>1, <4>2, <4>3, <4>4
    <3> QED
      BY <3>1, <3>2
  <2> QED
    BY <2>1 DEF FramesPlaced
<1>13. FramesPlaced(chan', place2)
  BY <1>6, <1>7, <1>11, <1>12, FramesSent
<1>14. RunsPlaced(place2)'
  <2>1. ASSUME NEW p \in Nodes, running[p] # Idle, running[p].key # NoKey
        PROVE  place2[running[p].key] = InRun(p)
    BY <1>1, <1>2, <1>10, <2>1, PlacedFacts, PlacesDiffer
  <2> QED
    BY <1>6, <2>1 DEF RunsPlaced
<1>15. EntriesPlaced(place2)'
  <2>1. ASSUME NEW p \in Nodes, NEW e \in chains[p]
        PROVE  EntryPlaced(e, place2)'
    <3>1. EntryPlaced(e, place) /\ e.id \in Keys /\ e.key \in Keys \cup {NoKey}
      BY <1>1, <1>2, <1>3, EntryFacts, PlacedFacts
    <3>2. Live(e)' <=> Live(e)
      BY <1>6 DEF Live
    <3>3. CASE Live(e)
      BY <1>10, <3>1, <3>2, <3>3, PlacesDiffer DEF EntryPlaced
    <3>4. CASE ~Live(e)
      BY <1>10, <3>1, <3>2, <3>4, PlacesDiffer DEF EntryPlaced
    <3> QED
      BY <3>3, <3>4
  <2> QED
    BY <1>6, <2>1 DEF EntriesPlaced
<1>16. Placed(place2)'
  BY <1>13, <1>14, <1>15 DEF Placed
<1>17. OneEntry'
  BY <1>1, <1>6, OneEntryStays
<1>18. CalledAtMostOnce' /\ LocalWaits'
  BY <1>6 DEF JInv, CalledAtMostOnce, LocalWaits, Live
<1> QED
  BY <1>9, <1>16, <1>17, <1>18 DEF JInv

\* An application asks a module that it has no route to: nothing moves.
LEMMA PlacesRefused ==
  ASSUME NEW n,
         JInv, IInv', n \in Nodes, Len(requests) < MaxRequests, running[n] = Idle,
         requests' = Append(requests, NewRequest(n, NoRequest, 1)),
         UNCHANGED <<chains, keys, running, open, chan, failures>>
  PROVE  JInv'
<1>1. IInv /\ OneEntry /\ TypeOK
  BY DEF JInv, IInv
<1>2. PICK reqs : reqs = requests'
  OBVIOUS
<1>3. /\ reqs \in Seq(Request) /\ Len(requests) <= Len(reqs) /\ \A q \in L : reqs[q] = requests[q]
      /\ \A q \in 1 .. Len(reqs) : q \notin L => reqs[q].calls <= 1
  <2>1. PICK x : x = NewRequest(n, NoRequest, 1)
    OBVIOUS
  <2>2. x \in Request /\ x.calls = 1
    <3>1. 1 \in Nat /\ NoRequest \in Ids \cup {NoRequest}
      OBVIOUS
    <3>2. x \in Request
      BY <2>1, <3>1, NewRequestType
    <3> QED
      BY <2>1, <3>2, NewRequestCalls
  <2>3. /\ reqs \in Seq(Request) /\ Len(reqs) = Len(requests) + 1 /\ Len(requests) \in Nat
        /\ \A q \in L : reqs[q] = requests[q]
        /\ reqs[Len(requests) + 1] = x
    BY <1>1, <1>2, <2>1, <2>2, RequestMade
  <2> QED
    BY <2>2, <2>3 DEF L
<1>4. PICK f : f = Close(n)
  OBVIOUS
<1>5. PICK place \in Placings : Placed(place)
  BY DEF JInv
<1>6. PICK place2 : place2 = Moves(place, NoKey, Nowhere, NoKey, Nowhere)
  OBVIOUS
<1>7. CallsOne(NoRequest) /\ Ends(n, NoRequest, NoKey)
  BY <1>1, <1>2, <1>3, CallsNobody, EndsNone
<1>8. Mine(place, n, NoKey, NoKey) /\ Nowhere \in Places
  BY NoKeyIsNone, PlacesType DEF Mine
<1>9. FramesPlaced(chan', place2)
  <2>1. FramesPlaced(chan, place) /\ OnlyOld(chan) /\ Away(chan, NoKey)
    BY <1>1, <1>5, AwayElsewhere, PlacedFacts
  <2> QED
    BY <1>1, <1>6, <2>1, FramesMove
<1>10. \A x : x = running'[n] => LocalAt(n, x)'
  BY DEF LocalAt
<1>11. \A d \in chains'[n] : d \in chains[n] /\ d.id # NoKey
  <2>1. PICK owner \in Owners, passed \in SUBSET Keys : Owned(owner, passed)
    BY <1>1 DEF IInv
  <2>2. \A d \in chains[n] : d.id \in Keys
    BY <1>1, <2>1, EntryFacts
  <2> QED
    BY <2>2, NoKeyIsNone
<1>12. OneEntry'
  BY <1>1, OneEntryStays
<1>13. /\ \A i \in Nodes : i # n => running'[i] = running[i] /\ chains'[i] = chains[i]
       /\ \A x : x = running'[n] /\ x # Idle /\ x.key # NoKey => place2[x.key] = InRun(n)
  OBVIOUS
<1> QED
  BY <1>5, <1>6, <1>7, <1>8, <1>9, <1>10, <1>11, <1>12, <1>13, PlacesStep

\* At first every key is in no place.
LEMMA PlacesInit == Init => JInv
<1> SUFFICES ASSUME Init PROVE JInv
  OBVIOUS
<1>1. IInv
  BY OwnersInit
<1>2. /\ requests = <<>> /\ \A n, m \in Nodes : chan[n][m] = <<>>
      /\ \A n \in Nodes : chains[n] = {} /\ running[n] = Idle
  BY DEF Init
<1>3. PICK place : place = [k \in Keys |-> Nowhere]
  OBVIOUS
<1>4. place \in Placings
  BY <1>3, PlacesType DEF Placings
<1>5. Elems(<<>>) = {} /\ Distinct(<<>>)
  BY DEF Elems, Distinct
<1>6. FramesPlaced(chan, place)
  BY <1>2, <1>5 DEF FramesPlaced
<1>7. RunsPlaced(place) /\ EntriesPlaced(place) /\ OneEntry /\ LocalWaits
  BY <1>2 DEF RunsPlaced, EntriesPlaced, OneEntry, LocalWaits
<1>8. CalledAtMostOnce
  BY <1>2 DEF CalledAtMostOnce
<1> QED
  BY <1>1, <1>4, <1>6, <1>7, <1>8 DEF JInv, Placed

\* A request of an application keeps every key in one place.
LEMMA PlacesStart ==
  ASSUME NEW n, NEW x, NEW ask,
         JInv, IInv', n \in Nodes, x \in Nodes, ask \in {Message, Methods}, Start(n, x, ask)
  PROVE  JInv'
<1>1. Len(requests) < MaxRequests /\ running[n] = Idle
  BY DEF Start
<1>2. NoRequest \in Ids \cup {NoRequest} /\ NoKey \in Keys \cup {NoKey} /\ NoNode \in Senders
  BY DEF Senders
<1>3. \A m : m \in Route(n, x) => m \in Nodes
  BY HopsAssumption DEF Route
<1>4. CASE Asks(n, NoRequest, NoKey, NoNode)
  BY <1>1, <1>2, <1>4, PlacesAsked
<1>5. CASE /\ requests' = Append(requests, NewRequest(n, NoRequest, 1))
           /\ UNCHANGED <<chains, keys, running, open, chan, failures>>
  BY <1>1, <1>5, PlacesRefused
<1> QED
  BY <1>3, <1>4, <1>5 DEF Start, Asks

\* A function that returns qbus_continue keeps every key in one place.
LEMMA PlacesContinue ==
  ASSUME NEW n, NEW x,
         JInv, IInv', n \in Nodes, x \in Nodes, Continue(n, x)
  PROVE  JInv'
<1>1. IInv /\ TypeOK
  BY DEF JInv, IInv
<1>2. PICK owner \in Owners, passed \in SUBSET Keys : Owned(owner, passed)
  BY <1>1 DEF IInv
<1>3. PICK run : run = running[n]
  OBVIOUS
<1>4. running[n] # Idle /\ run.key # NoKey /\ Len(requests) < MaxRequests
  BY <1>3 DEF Continue
<1>5. /\ run.key \in Keys \cup {NoKey} /\ run.sender \in Senders
      /\ Subject(run) \in Ids \cup {NoRequest}
  BY <1>1, <1>2, <1>3, <1>4, RunFacts
<1>6. PICK parent : parent = Subject(run)
  OBVIOUS
<1>7. \A m : m \in Route(n, x) => m \in Nodes
  BY HopsAssumption DEF Route
<1>8. CASE Asks(n, parent, run.key, run.sender)
  <2>1. PICK key : key = run.key
    OBVIOUS
  <2>2. key # NoKey => running[n] # Idle /\ running[n].key = key
    BY <1>3, <1>4, <2>1
  <2> QED
    BY <1>4, <1>5, <1>6, <1>8, <2>1, <2>2, PlacesAsked
<1>9. CASE Finished(n, Append(requests, NewRequest(n, parent, 1)))
  <2>1. PICK r : r = NewRequest(n, parent, 1)
    OBVIOUS
  <2>2. PICK reqs : reqs = Append(requests, r)
    OBVIOUS
  <2>3. r \in Request /\ r.calls = 1
    <3>1. 1 \in Nat
      OBVIOUS
    <3>2. r \in Request
      BY <1>5, <1>6, <2>1, <3>1, NewRequestType
    <3> QED
      BY <2>1, <3>2, NewRequestCalls
  <2>4. /\ reqs \in Seq(Request) /\ Len(reqs) = Len(requests) + 1 /\ Len(requests) \in Nat
        /\ \A q \in L : reqs[q] = requests[q]
        /\ reqs[Len(requests) + 1] = r
    BY <1>1, <1>4, <2>2, <2>3, RequestMade
  <2>5. Len(requests) <= Len(reqs)
    BY <2>4
  <2>6. \A q \in 1 .. Len(reqs) : q \notin L => reqs[q].calls <= 1
    BY <2>3, <2>4 DEF L
  <2>7. Finished(n, reqs)
    BY <1>9, <2>1, <2>2
  <2> QED
    BY <1>4, <2>4, <2>5, <2>6, <2>7, PlacesFinished
<1>10. \/ Asks(n, parent, run.key, run.sender)
       \/ Finished(n, Append(requests, NewRequest(n, parent, 1)))
  <2> USE DEF Message, Methods
  <2> QED
    BY <1>3, <1>6, <1>7 DEF Continue, Asks
<1> QED
  BY <1>8, <1>9, <1>10

\* Every step keeps every key in one place.
LEMMA PlacesNext == JInv /\ [Next]_vars => JInv'
<1> SUFFICES ASSUME JInv, [Next]_vars PROVE JInv'
  OBVIOUS
<1>1. IInv' /\ IInv
  BY OwnersNext DEF JInv
<1>2. ASSUME NEW n \in Clients, NEW x \in Nodes, Start(n, x, Message) \/ Start(n, x, Methods)
      PROVE  JInv'
  <2>1. n \in Nodes /\ Message \in {Message, Methods} /\ Methods \in {Message, Methods}
    BY ClientsAssumption
  <2> QED
    BY <1>1, <1>2, <2>1, PlacesStart
<1>3. ASSUME NEW n \in Nodes, NEW x \in Nodes, Continue(n, x) PROVE JInv'
  BY <1>1, <1>3, PlacesContinue
<1>4. ASSUME NEW n \in Nodes, Return(n) PROVE JInv'
  <2>1. running[n] # Idle /\ Finished(n, requests)
    BY <1>4 DEF Return
  <2>2. /\ requests \in Seq(Request) /\ Len(requests) <= Len(requests)
        /\ \A q \in L : requests[q] = requests[q]
        /\ \A q \in 1 .. Len(requests) : q \notin L => requests[q].calls <= 1
    BY <1>1 DEF IInv, TypeOK, Request, L
  <2> QED
    BY <1>1, <2>1, <2>2, PlacesFinished
<1>5. ASSUME NEW n \in Nodes, NEW m \in Nodes, OnMsgRequest(n, m) \/ OnMethodsRequest(n, m)
      PROVE  JInv'
  BY <1>1, <1>5, PlacesRequested
<1>6. ASSUME NEW n \in Nodes, NEW m \in Nodes, OnMsgResponse(n, m) PROVE JInv'
  BY <1>1, <1>6, PlacesAnswered
<1>7. ASSUME NEW n \in Nodes, NEW m \in Nodes, OnClose(n, m) \/ LinkFails(n, m) PROVE JInv'
  BY <1>1, <1>7, PlacesRemoved DEF OnClose, LinkFails
<1>8. CASE UNCHANGED vars
  <2>1. CalledAtMostOnce' /\ OneEntry' /\ LocalWaits'
    BY <1>8 DEF vars, JInv, CalledAtMostOnce, OneEntry, LocalWaits, Live
  <2>2. PICK place \in Placings : Placed(place)
    BY DEF JInv
  <2>3. Placed(place)'
    BY <1>8, <2>2 DEF vars, Placed, FramesPlaced, RunsPlaced, EntriesPlaced, EntryPlaced, Live
  <2> QED
    BY <1>1, <2>1, <2>2, <2>3 DEF JInv
<1> QED
  BY <1>2, <1>3, <1>4, <1>5, <1>6, <1>7, <1>8 DEF Next

\* No callback is called twice, whatever is forwarded, continued, refused or lost: an
\* answer carries a key, and a key is in one place (qbus_route_on_msg_response and
\* qbus_route_response take the entry out before they call back).
THEOREM CallsCorrect == Spec => []CalledAtMostOnce
<1>1. Init => JInv
  BY PlacesInit
<1>2. JInv /\ [Next]_vars => JInv'
  BY PlacesNext
<1>3. JInv => CalledAtMostOnce
  BY DEF JInv
<1> QED
  BY <1>1, <1>2, <1>3, PTL DEF Spec

-----------------------------------------------------------------------------
\* An answer is never lost while no link fails: the chain to go back to is held by
\* the entry of a node that is there.
Held(k) == \E e \in chains[k.at] : e.id = k

\* A chain to go back to, at node n.
Kept(n, key, sender) == key # NoKey => Held(key) /\ (sender = n \/ {n, sender} \in Links)

KeptFrame(n, m, f) ==
  /\ f.type # "CLOSE"
  /\ {n, m} \in Links
  /\ Held(f.key)
  /\ f.type = "MSG_RES" => f.key.at = m

KeptEntry(n, e) ==
  Live(e) =>
    /\ Kept(n, e.key, e.sender)
    /\ e.type = "FORWARD" => e.sender # n
    /\ e.type = "METHODS" => e.key = NoKey
    /\ e.type # "FORWARD" /\ e.key = NoKey => requests[e.about].parent = NoRequest

KeptRun(n, run) ==
  /\ Kept(n, run.key, run.sender)
  /\ run.in = "remote" => run.conn = run.sender /\ run.sender # n
  /\ run.key = NoKey => Subject(run) = NoRequest

AllKept ==
  /\ \A n, m \in Nodes : open[n][m] <=> {n, m} \in Links
  /\ \A n, m \in Nodes : \A f \in Elems(chan[n][m]) : KeptFrame(n, m, f)
  /\ \A n \in Nodes : \A e \in chains[n] : KeptEntry(n, e)
  /\ \A n \in Nodes : running[n] # Idle => KeptRun(n, running[n])

-----------------------------------------------------------------------------
\* Who brings the answer of a request: a frame, a function, a request made on its
\* behalf, or nobody.
ForChild(q) == [kind |-> "child", at |-> q, to |-> NoNode, id |-> NoKey]

\* A channel has one frame about a request.
Single(s) == \A i, j \in 1 .. Len(s) : s[i].about = s[j].about => i = j

FramesBorne(ch, bearer) ==
  \A n, m \in Nodes :
    Single(ch[n][m]) /\ \A f \in Elems(ch[n][m]) : bearer[f.about] = OnChan(n, m)

RunsBorne(bearer) ==
  \A n \in Nodes : running[n] # Idle /\ Subject(running[n]) # NoRequest =>
    bearer[Subject(running[n])] = InRun(n)

ChildrenBorne(bearer) ==
  \A q \in Waiting : requests[q].parent # NoRequest => bearer[requests[q].parent] = ForChild(q)

InFrame(ch, b, r) ==
  \E n, m \in Nodes : b = OnChan(n, m) /\ \E f \in Elems(ch[n][m]) : f.about = r
InFunction(b, r) ==
  \E n \in Nodes : b = InRun(n) /\ running[n] # Idle /\ Subject(running[n]) = r
InChild(b, r) == \E q \in Waiting : b = ForChild(q) /\ requests[q].parent = r
Found(b, r) == InFrame(chan, b, r) \/ InFunction(b, r) \/ InChild(b, r)

\* A request that waits has a bearer, which is there; no other has one.
Sought == Waiting \ Dropped
BearerOf(b, r) == IF r \in Sought THEN Found(b, r) ELSE b = Nowhere

Borne(bearer) ==
  /\ FramesBorne(chan, bearer)
  /\ RunsBorne(bearer)
  /\ ChildrenBorne(bearer)
  /\ \A r \in Nat : BearerOf(bearer[r], r)

Answerable == AllKept /\ \E bearer : Borne(bearer)

KInv == JInv /\ (failures = 0 => Answerable)

\* The bearers differ.
LEMMA BearersDiffer ==
  /\ \A p, q : ForChild(p) = ForChild(q) => p = q
  /\ \A n, m, q : OnChan(n, m) # ForChild(q)
  /\ \A n, q : InRun(n) # ForChild(q)
  /\ \A q : ForChild(q) # Nowhere
<1>1. \A p, q : ForChild(p) = ForChild(q) => p = q
  BY DEF ForChild
<1>2. \A n, m, q : OnChan(n, m) # ForChild(q)
  BY DEF ForChild, OnChan
<1>3. \A n, q : InRun(n) # ForChild(q)
  BY DEF ForChild, InRun
<1>4. \A q : ForChild(q) # Nowhere
  BY DEF ForChild, Nowhere
<1> QED
  BY <1>1, <1>2, <1>3, <1>4

\* The bearers when those of the requests a and p change.
Passes(bearer, a, x, p, y) ==
  [r \in Nat |-> IF r = a THEN x ELSE IF r = p THEN y ELSE bearer[r]]

\* No frame is about r; the frames about other requests are where they were.
Lacks(ch, r) == \A n, m \in Nodes : \A f \in Elems(ch[n][m]) : f.about # r
Keeps(ch, a) ==
  \A n, m \in Nodes : \A f \in Elems(chan[n][m]) : f.about = a \/ f \in Elems(ch[n][m])

\* The channels ch without the frame about a.
Without(ch, a, bearer) ==
  /\ ch \in Channels
  /\ FramesBorne(ch, bearer)
  /\ Lacks(ch, a)
  /\ Keeps(ch, a)

\* All frames are about requests.
LEMMA FramesAboutRequests ==
  ASSUME IInv, AllKept, NEW n \in Nodes, NEW m \in Nodes, NEW f \in Elems(chan[n][m])
  PROVE  f.about \in L /\ f.about \in Nat
<1>1. PICK owner \in Owners, passed \in SUBSET Keys : Owned(owner, passed)
  BY DEF IInv
<1>2. f.type # "CLOSE" /\ GoodFrame(n, f, owner)
  BY <1>1 DEF AllKept, KeptFrame, Owned
<1>3. f.about \in L
  BY <1>2 DEF GoodFrame
<1> QED
  BY <1>3 DEF L

\* No frame is about a request whose bearer is not a channel.
LEMMA WithoutAny ==
  ASSUME NEW a, NEW bearer,
         IInv, AllKept, FramesBorne(chan, bearer),
         \A n, m \in Nodes : bearer[a] # OnChan(n, m)
  PROVE  Without(chan, a, bearer)
<1>1. chan \in Channels
  BY DEF IInv, TypeOK, Channels
<1>2. Lacks(chan, a)
  BY DEF FramesBorne, Lacks
<1>3. Keeps(chan, a)
  BY DEF Keeps
<1> QED
  BY <1>1, <1>2, <1>3 DEF Without

\* The sequence without its first element.
LEMMA SingleTail ==
  ASSUME NEW S, NEW s,
         s \in Seq(S), s # <<>>, Single(s)
  PROVE  /\ Single(Tail(s))
         /\ \A y \in Elems(Tail(s)) : y.about # Head(s).about
         /\ \A y \in Elems(s) : y.about = Head(s).about \/ y \in Elems(Tail(s))
<1>1. Len(Tail(s)) = Len(s) - 1 /\ Len(s) \in Nat /\ Len(s) > 0 /\ Head(s) = s[1]
  OBVIOUS
<1>2. \A i \in 1 .. Len(Tail(s)) : Tail(s)[i] = s[i + 1]
  OBVIOUS
<1>3. \A i \in 1 .. Len(Tail(s)) : i \in Nat /\ i + 1 \in 1 .. Len(s) /\ i + 1 # 1
  BY <1>1
<1>4. 1 \in 1 .. Len(s)
  BY <1>1
<1>5. Single(Tail(s))
  BY <1>1, <1>2, <1>3 DEF Single
<1>6. ASSUME NEW y \in Elems(Tail(s))
      PROVE  y.about # Head(s).about
  <2>1. PICK i \in 1 .. Len(Tail(s)) : y = Tail(s)[i]
    BY <1>6 DEF Elems
  <2> QED
    BY <2>1, <1>1, <1>2, <1>3, <1>4 DEF Single
<1>7. ASSUME NEW y \in Elems(s), y # Head(s)
      PROVE  y \in Elems(Tail(s))
  <2>1. PICK i \in 1 .. Len(s) : y = s[i]
    BY DEF Elems
  <2>2. i # 1
    BY <2>1, <1>1, <1>7
  <2>3. i - 1 \in 1 .. Len(Tail(s)) /\ (i - 1) + 1 = i
    BY <2>2, <1>1
  <2>4. Tail(s)[i - 1] = y
    BY <1>2, <2>1, <2>3
  <2> QED
    BY <2>3, <2>4 DEF Elems
<1> QED
  BY <1>5, <1>6, <1>7

\* The frame that is read was the only one about its request.
LEMMA WithoutRead ==
  ASSUME NEW n, NEW m, NEW bearer, NEW ch, NEW frame,
         TypeOK, n \in Nodes, m \in Nodes, chan[m][n] # <<>>, FramesBorne(chan, bearer),
         ch = WithoutHead(n, m), frame = Head(chan[m][n])
  PROVE  Without(ch, frame.about, bearer) /\ bearer[frame.about] = OnChan(m, n)
<1>1. ch \in Channels /\ IsRead(ch, n, m) /\ frame \in Elems(chan[m][n])
  BY ReadAt
<1>2. chan[m][n] \in Seq(Frames)
  BY DEF TypeOK
<1>3. Elems(Tail(chan[m][n])) \subseteq Elems(chan[m][n])
  BY <1>2, ElemsTail
<1>4. Single(chan[m][n])
  BY DEF FramesBorne
<1>5. /\ Single(Tail(chan[m][n]))
      /\ \A y \in Elems(Tail(chan[m][n])) : y.about # frame.about
      /\ \A y \in Elems(chan[m][n]) : y.about = frame.about \/ y \in Elems(Tail(chan[m][n]))
  BY <1>2, <1>4, SingleTail
<1>6. bearer[frame.about] = OnChan(m, n)
  BY <1>1 DEF FramesBorne
<1>7. ASSUME NEW p \in Nodes, NEW q \in Nodes
      PROVE  /\ Single(ch[p][q])
             /\ \A g \in Elems(ch[p][q]) : bearer[g.about] = OnChan(p, q) /\ g.about # frame.about
             /\ \A g \in Elems(chan[p][q]) : g.about = frame.about \/ g \in Elems(ch[p][q])
  <2>1. CASE p = m /\ q = n
    <3>1. ch[p][q] = Tail(chan[m][n])
      BY <1>1, <2>1 DEF IsRead
    <3>2. \A g \in Elems(chan[m][n]) : bearer[g.about] = OnChan(m, n)
      BY DEF FramesBorne
    <3> QED
      BY <1>3, <1>5, <2>1, <3>1, <3>2
  <2>2. CASE ~(p = m /\ q = n)
    <3>1. ch[p][q] = chan[p][q]
      BY <1>1, <2>2 DEF IsRead
    <3>2. Single(chan[p][q]) /\ \A g \in Elems(chan[p][q]) : bearer[g.about] = OnChan(p, q)
      BY DEF FramesBorne
    <3>3. OnChan(p, q) # OnChan(m, n)
      BY <2>2, PlacesDiffer
    <3> QED
      BY <1>6, <3>1, <3>2, <3>3
  <2> QED
    BY <2>1, <2>2
<1>8. FramesBorne(ch, bearer)
  BY <1>7 DEF FramesBorne
<1>9. Lacks(ch, frame.about) /\ Keeps(ch, frame.about)
  BY <1>7 DEF Lacks, Keeps
<1> QED
  BY <1>1, <1>6, <1>8, <1>9 DEF Without

\* The frames are borne when others change their bearers.
LEMMA BorneStill ==
  ASSUME NEW ch, NEW a, NEW x, NEW p, NEW y, NEW bearer,
         FramesBorne(ch, bearer), Lacks(ch, a), Lacks(ch, p),
         \A i, j \in Nodes : \A f \in Elems(ch[i][j]) : f.about \in Nat
  PROVE  FramesBorne(ch, Passes(bearer, a, x, p, y))
  BY DEF FramesBorne, Lacks, Passes

\* The channels c2 are ch and the frame f from n to m.
Adds(c2, ch, n, m, f) ==
  \A i, j \in Nodes :
    /\ Elems(ch[i][j]) \subseteq Elems(c2[i][j])
    /\ \A g \in Elems(c2[i][j]) : g \in Elems(ch[i][j]) \/ (i = n /\ j = m /\ g = f)

\* A frame that is sent bears its request.
LEMMA BorneSent ==
  ASSUME NEW ch, NEW bearer, NEW n, NEW m, NEW f, NEW c2,
         ch \in Channels, FramesBorne(ch, bearer), n \in Nodes, m \in Nodes, f \in Frames,
         c2 = Sent(ch, n, m, f), open[m][n], Lacks(ch, f.about),
         bearer[f.about] = OnChan(n, m)
  PROVE  /\ FramesBorne(c2, bearer) /\ f \in Elems(c2[n][m])
         /\ Adds(c2, ch, n, m, f)
<1>1. IsSent(c2, ch, n, m, f)
  BY SentAt
<1>2. ch[n][m] \in Seq(Frames)
  BY DEF Channels
<1>3. Elems(Append(ch[n][m], f)) = Elems(ch[n][m]) \cup {f}
  BY <1>2, ElemsAppend
<1>4. Single(Append(ch[n][m], f))
  <2> DEFINE s == ch[n][m]
  <2>1. Single(s) /\ \A y \in Elems(s) : y.about # f.about
    BY DEF FramesBorne, Lacks
  <2>2. Len(Append(s, f)) = Len(s) + 1 /\ Len(s) \in Nat
    BY <1>2
  <2>3. \A i \in 1 .. Len(s) : Append(s, f)[i] = s[i] /\ s[i] \in Elems(s)
    BY <1>2 DEF Elems
  <2>4. Append(s, f)[Len(s) + 1] = f
    BY <1>2
  <2>5. \A i \in 1 .. Len(s) + 1 : i \in 1 .. Len(s) \/ i = Len(s) + 1
    BY <2>2
  <2> HIDE DEF s
  <2>6. Single(Append(s, f))
    BY <2>1, <2>2, <2>3, <2>4, <2>5 DEF Single
  <2> QED
    BY <2>6 DEF s
<1>5. ASSUME NEW p \in Nodes, NEW q \in Nodes
      PROVE  /\ Single(c2[p][q])
             /\ \A g \in Elems(c2[p][q]) : bearer[g.about] = OnChan(p, q)
             /\ Elems(ch[p][q]) \subseteq Elems(c2[p][q])
             /\ \A g \in Elems(c2[p][q]) :
                  g \in Elems(ch[p][q]) \/ (p = n /\ q = m /\ g = f)
  <2>1. CASE p = n /\ q = m
    <3>1. c2[p][q] = Append(ch[n][m], f)
      BY <1>1, <2>1 DEF IsSent
    <3>2. \A g \in Elems(ch[n][m]) : bearer[g.about] = OnChan(n, m)
      BY DEF FramesBorne
    <3> QED
      BY <1>3, <1>4, <2>1, <3>1, <3>2
  <2>2. CASE ~(p = n /\ q = m)
    <3>1. c2[p][q] = ch[p][q]
      BY <1>1, <2>2 DEF IsSent
    <3> QED
      BY <3>1 DEF FramesBorne
  <2> QED
    BY <2>1, <2>2
<1>6. f \in Elems(c2[n][m])
  BY <1>1, <1>3 DEF IsSent
<1> QED
  BY <1>5, <1>6 DEF FramesBorne, Adds

\* The requests after a step: those that were there, and one that was told at once
\* that there is no route.
Extended(reqs) ==
  /\ reqs \in Seq(Request)
  /\ Len(requests) <= Len(reqs)
  /\ \A q \in L : reqs[q] = requests[q]
  /\ \A q \in 1 .. Len(reqs) : q \notin L => reqs[q].calls = 1

\* Requests are not forgotten, nor on whose behalf they were made.
Remembered == \A q \in L : q \in L' /\ requests'[q].parent = requests[q].parent

\* A request that waits is one that was made.
LEMMA SoughtFacts ==
  ASSUME TypeOK
  PROVE  /\ Waiting \subseteq L /\ Sought \subseteq L /\ L \subseteq Nat /\ NoRequest \notin L
         /\ Sought \subseteq Waiting /\ NoRequest \in Nat
         /\ Len(requests) + 1 \notin L /\ Len(requests) + 1 \in Nat
         /\ Len(requests) + 1 # NoRequest /\ Len(requests) \in Nat
<1>1. Len(requests) \in Nat
  BY DEF TypeOK
<1> QED
  BY <1>1 DEF Waiting, Sought, L, NoRequest

\* What is known of a request.
LEMMA RequestFacts ==
  ASSUME TypeOK, NEW q \in L
  PROVE  /\ requests[q] \in Request /\ requests[q].dropped \in BOOLEAN
         /\ requests[q].parent \in Ids \cup {NoRequest} /\ requests[q].parent \in Nat
         /\ requests[q].calls \in Nat
<1>1. requests \in Seq(Request)
  BY DEF TypeOK, Request
<1>2. requests[q] \in Request
  BY <1>1 DEF L
<1>3. \A x \in Request : /\ x.dropped \in BOOLEAN /\ x.calls \in Nat
                       /\ x.parent \in Ids \cup {NoRequest} /\ x.parent \in Nat
  BY DEF Request, Ids, NoRequest
<1> HIDE DEF Request
<1> QED
  BY <1>2, <1>3

\* No callback is called.
LEMMA SoughtSame ==
  ASSUME NEW reqs,
         TypeOK, Extended(reqs), requests' = reqs
  PROVE  Waiting' = Waiting /\ Sought' = Sought /\ Remembered
<1>1. L \subseteq 1 .. Len(reqs) /\ L' = 1 .. Len(reqs)
  BY DEF TypeOK, Extended, L
<1>2. \A q \in L' : (q \in L /\ requests'[q] = requests[q]) \/ requests'[q].calls # 0
  BY <1>1 DEF Extended
<1>3. \A q \in L : q \in L' /\ requests'[q] = requests[q]
  BY <1>1 DEF Extended
<1>4. Waiting' = Waiting
  BY <1>2, <1>3 DEF Waiting, L
<1>5. \A q \in Waiting : q \in Dropped' <=> q \in Dropped
  BY <1>3 DEF Waiting, Dropped, L
<1> QED
  BY <1>3, <1>4, <1>5 DEF Sought, Remembered

\* Calling back does not drop a request.
LEMMA CalledDropped ==
  ASSUME NEW reqs, NEW r,
         reqs \in Seq(Request), r \in 1 .. Len(reqs)
  PROVE  \A q \in 1 .. Len(reqs) : Called(reqs, r)[q].dropped = reqs[q].dropped
<1>1. ASSUME NEW x \in Request, NEW c
      PROVE  [x EXCEPT !.calls = c].dropped = x.dropped
  BY DEF Request
<1>2. reqs[r] \in Request
  OBVIOUS
<1> DEFINE y == [reqs[r] EXCEPT !.calls = reqs[r].calls + 1]
<1>3. y.dropped = reqs[r].dropped
  BY <1>1, <1>2
<1>4. Called(reqs, r) = [reqs EXCEPT ![r] = y]
  BY DEF Called
<1> HIDE DEF y, Request
<1> QED
  BY <1>3, <1>4

\* The callback of request a is called.
LEMMA SoughtCalled ==
  ASSUME NEW reqs, NEW a,
         TypeOK, Extended(reqs), a \in L, requests[a].calls = 0, requests' = Called(reqs, a)
  PROVE  /\ a \in Waiting /\ Waiting' = Waiting \ {a} /\ Sought' = Sought \ {a} /\ Remembered
<1>1. L \subseteq 1 .. Len(reqs) /\ reqs \in Seq(Request) /\ a \in 1 .. Len(reqs)
  <2>1. reqs \in Seq(Request) /\ Len(requests) <= Len(reqs)
    BY DEF Extended
  <2>2. Len(requests) \in Nat /\ Len(reqs) \in Nat
    <3>1. requests \in Seq(Request)
      BY DEF TypeOK, Request
    <3> QED
      BY <2>1, <3>1
  <2>3. L \subseteq 1 .. Len(reqs)
    BY <2>1, <2>2 DEF L
  <2> QED
    BY <2>1, <2>3
<1>2. /\ Len(Called(reqs, a)) = Len(reqs)
      /\ \A q \in 1 .. Len(reqs) :
           /\ Called(reqs, a)[q].parent = reqs[q].parent
           /\ Called(reqs, a)[q].calls = IF q = a THEN reqs[q].calls + 1 ELSE reqs[q].calls
           /\ Called(reqs, a)[q].dropped = reqs[q].dropped
  <2>1. /\ Len(Called(reqs, a)) = Len(reqs)
        /\ \A q \in 1 .. Len(reqs) :
             /\ Called(reqs, a)[q].parent = reqs[q].parent
             /\ Called(reqs, a)[q].calls = IF q = a THEN reqs[q].calls + 1 ELSE reqs[q].calls
    BY <1>1, CalledType
  <2>2. \A q \in 1 .. Len(reqs) : Called(reqs, a)[q].dropped = reqs[q].dropped
    BY <1>1, CalledDropped
  <2> QED
    BY <2>1, <2>2
<1>3. L' = 1 .. Len(reqs)
  BY <1>2 DEF L
<1>4. \A q \in L : q \in L' /\ requests'[q].parent = requests[q].parent
                   /\ requests'[q].dropped = requests[q].dropped
                   /\ (q # a => requests'[q].calls = requests[q].calls)
  BY <1>1, <1>2, <1>3 DEF Extended
<1>5. requests'[a].calls = 1
  BY <1>1, <1>2 DEF Extended
<1>6. \A q \in L' : q \notin L => requests'[q].calls = 1
  BY <1>1, <1>2, <1>3 DEF Extended
<1>7. Waiting' = Waiting \ {a}
  BY <1>4, <1>5, <1>6 DEF Waiting, L
<1>8. \A q \in Waiting : q \in Dropped' <=> q \in Dropped
  BY <1>4 DEF Waiting, Dropped, L
<1> QED
  BY <1>4, <1>7, <1>8 DEF Sought, Remembered, Waiting, L

\* A request is made.
LEMMA SoughtMade ==
  ASSUME NEW x, NEW r,
         TypeOK, x \in Request, Len(requests) < MaxRequests, requests' = Append(requests, x),
         x.calls = 0, r = Len(requests) + 1
  PROVE  /\ Waiting' = Waiting \cup {r} /\ Remembered
         /\ Sought' = IF x.dropped THEN Sought ELSE Sought \cup {r}
         /\ requests'[r] = x
<1>1. /\ Len(requests') = Len(requests) + 1 /\ Len(requests) \in Nat
      /\ \A q \in L : requests'[q] = requests[q]
      /\ requests'[r] = x
  BY RequestMade
<1>2. L' = L \cup {r} /\ r \notin L
  BY <1>1 DEF L
<1>3. Waiting' = Waiting \cup {r}
  BY <1>1, <1>2 DEF Waiting, L
<1>4. Dropped' = Dropped \cup (IF x.dropped THEN {r} ELSE {})
  <2>1. x.dropped \in BOOLEAN /\ \A q \in L : requests[q].dropped \in BOOLEAN
    <3>1. x.dropped \in BOOLEAN
      BY DEF Request
    <3> QED
      BY <3>1, RequestFacts
  <2> QED
    BY <1>1, <1>2, <2>1 DEF Dropped, L
<1>5. r \notin Dropped /\ r \notin Waiting
  BY <1>2 DEF Dropped, Waiting, L
<1> QED
  BY <1>1, <1>2, <1>3, <1>4, <1>5 DEF Sought, Remembered

\* Every step of node n: what is to be shown of the requests a and p that change
\* their bearers.
LEMMA BorneStep ==
  ASSUME NEW n \in Nodes, NEW a, NEW x, NEW p, NEW y, NEW bearer, NEW b2,
         IInv, TypeOK', Borne(bearer), b2 = Passes(bearer, a, x, p, y), Remembered,
         FramesBorne(chan', b2), Keeps(chan', a),
         \A i \in Nodes : i # n =>
           running'[i] = running[i] /\ bearer[a] # InRun(i) /\ bearer[p] # InRun(i),
         running[n] # Idle => Subject(running[n]) \in {a, NoRequest},
         \A run, s : run = running'[n] /\ run # Idle /\ s = Subject(run)' /\ s # NoRequest =>
           b2[s] = InRun(n),
         \A q : bearer[a] # ForChild(q),
         \A q : bearer[p] = ForChild(q) => q \notin Waiting',
         \A q \in Waiting' :
           q \in Waiting \/ requests'[q].parent = NoRequest \/ b2[requests'[q].parent] = ForChild(q),
         \A q \in Waiting : q \in Waiting' \/ requests[q].parent \in {p, NoRequest},
         \A r \in Nat : r \notin {a, p} => (r \in Sought' <=> r \in Sought),
         \A r \in Nat : r \in {a, p} => BearerOf(b2[r], r)'
  PROVE  Borne(b2)'
<1>1. TypeOK
  BY DEF IInv
<1>2. PICK owner \in Owners, passed \in SUBSET Keys : Owned(owner, passed)
  BY DEF IInv
<1>3. /\ Waiting \subseteq L /\ Sought \subseteq L /\ L \subseteq Nat /\ NoRequest \notin L
  BY <1>1, SoughtFacts
<1>4. ASSUME NEW i \in Nodes, running[i] # Idle
      PROVE  /\ Subject(running[i]) \in Nat
             /\ Subject(running[i])' \in Nat \/ running'[i] # running[i]
             /\ running'[i] = running[i] => Subject(running[i])' = Subject(running[i])
  <2>1. running[i].about \in L /\ Subject(running[i]) \in Ids \cup {NoRequest}
    BY <1>1, <1>2, <1>4, RunFacts
  <2>2. requests'[running[i].about].parent = requests[running[i].about].parent
    BY <2>1 DEF Remembered
  <2>3. running'[i] = running[i] => Subject(running[i])' = Subject(running[i])
    BY <2>2 DEF Subject
  <2>4. Subject(running[i]) \in Nat
    BY <2>1 DEF Ids, NoRequest
  <2> QED
    BY <2>3, <2>4
<1>5. \A r \in Nat : r \notin {a, p} => b2[r] = bearer[r]
  BY DEF Passes
<1>6. RunsBorne(b2)'
  <2> SUFFICES ASSUME NEW i \in Nodes, running'[i] # Idle, Subject(running[i])' # NoRequest
               PROVE  b2[Subject(running[i])'] = InRun(i)
    BY DEF RunsBorne
  <2>1. CASE i = n
    <3>1. PICK s : s = Subject(running[n])'
      OBVIOUS
    <3>2. PICK run : run = running'[n]
      OBVIOUS
    <3>3. s = Subject(run)'
      BY <3>1, <3>2 DEF Subject
    <3> QED
      BY <2>1, <3>1, <3>2, <3>3
  <2>2. CASE i # n
    <3>1. running'[i] = running[i] /\ bearer[a] # InRun(i) /\ bearer[p] # InRun(i)
      BY <2>2
    <3>2. PICK s : s = Subject(running[i])
      OBVIOUS
    <3>3. s \in Nat /\ s = Subject(running[i])'
      BY <1>4, <3>1, <3>2
    <3>4. bearer[s] = InRun(i)
      BY <3>1, <3>2, <3>3 DEF Borne, RunsBorne
    <3>5. s \notin {a, p}
      BY <3>1, <3>4
    <3> QED
      BY <1>5, <3>3, <3>4, <3>5
  <2> QED
    BY <2>1, <2>2
<1>7. ChildrenBorne(b2)'
  <2> SUFFICES ASSUME NEW q \in Waiting', requests'[q].parent # NoRequest, q \in Waiting
               PROVE  b2[requests'[q].parent] = ForChild(q)
    BY DEF ChildrenBorne
  <2>1. PICK r : r = requests[q].parent
    OBVIOUS
  <2>2. r = requests'[q].parent /\ r # NoRequest
    BY <1>3, <2>1 DEF Remembered
  <2>3. bearer[r] = ForChild(q)
    BY <2>1, <2>2 DEF Borne, ChildrenBorne
  <2>4. r \in Nat
    BY <1>1, <1>3, <2>1, RequestFacts
  <2> QED
    BY <1>5, <2>2, <2>3, <2>4
<1>8. ASSUME NEW r \in Nat, r \notin {a, p}
      PROVE  BearerOf(b2[r], r)'
  <2>1. b2[r] = bearer[r] /\ BearerOf(bearer[r], r)
    BY <1>5, <1>8 DEF Borne
  <2>2. CASE r \notin Sought
    BY <1>8, <2>1, <2>2 DEF BearerOf
  <2>3. CASE r \in Sought
    <3>1. r # NoRequest /\ Found(bearer[r], r)
      BY <1>3, <2>1, <2>3 DEF BearerOf
    <3>2. PICK b : b = bearer[r]
      OBVIOUS
    <3>3. CASE InFrame(chan, b, r)
      <4>1. InFrame(chan', b, r)
        BY <1>8, <3>3 DEF InFrame, Keeps
      <4> QED
        BY <1>8, <2>1, <2>3, <3>2, <4>1 DEF BearerOf, Found
    <3>4. CASE InFunction(b, r)
      <4>1. PICK i \in Nodes : b = InRun(i) /\ running[i] # Idle /\ Subject(running[i]) = r
        BY <3>4 DEF InFunction
      <4>2. i # n
        BY <1>8, <3>1, <4>1
      <4>3. running'[i] = running[i] /\ Subject(running[i])' = r
        BY <1>4, <4>1, <4>2
      <4>4. InFunction(b, r)'
        BY <4>1, <4>3 DEF InFunction
      <4> QED
        BY <1>8, <2>1, <2>3, <3>2, <4>4 DEF BearerOf, Found
    <3>5. CASE InChild(b, r)
      <4>1. PICK q \in Waiting : b = ForChild(q) /\ requests[q].parent = r
        BY <3>5 DEF InChild
      <4>2. q \in Waiting' /\ requests'[q].parent = r
        BY <1>3, <1>8, <3>1, <4>1 DEF Remembered
      <4>3. InChild(b, r)'
        BY <4>1, <4>2 DEF InChild
      <4> QED
        BY <1>8, <2>1, <2>3, <3>2, <4>3 DEF BearerOf, Found
    <3> QED
      BY <3>1, <3>2, <3>3, <3>4, <3>5 DEF Found
  <2> QED
    BY <2>2, <2>3
<1>9. \A r \in Nat : BearerOf(b2[r], r)'
  BY <1>8
<1> QED
  BY <1>6, <1>7, <1>9 DEF Borne

\* The key g is the one whose entry a step of node n takes out: it is in the frame
\* that is read or in the function that ends (NoKey: no entry is taken out).
Taken(place, n, g) ==
  \/ g = NoKey
  \/ place[g] = InRun(n)
  \/ \E i, j \in Nodes : place[g] = OnChan(i, j)

\* Only the entry of g goes.
Spared(g) == \A i \in Nodes : \A e \in chains[i] : e.id = g \/ e \in chains'[i]

\* The other keys are held as before.
LEMMA HeldStays ==
  ASSUME NEW k, NEW g,
         Held(k), Spared(g), k \in Keys, k # g
  PROVE  Held(k)'
<1>1. k.at \in Nodes
  BY DEF Keys
<1> QED
  BY <1>1 DEF Held, Spared

\* A chain to go back to stays one.
LEMMA KeptStays ==
  ASSUME NEW n, NEW key, NEW sender, NEW g,
         Kept(n, key, sender), Spared(g), key \in Keys \cup {NoKey}, key = NoKey \/ key # g
  PROVE  Kept(n, key, sender)'
  BY HeldStays DEF Kept

\* The chain of an entry that waits is not taken.
LEMMA EntryChain ==
  ASSUME NEW n \in Nodes, NEW e \in chains[n], NEW place, NEW p, NEW g,
         IInv, place \in Placings, Placed(place), AllKept, Taken(place, p, g), Spared(g), Live(e)
  PROVE  Kept(n, e.key, e.sender)' /\ (e.key = NoKey \/ e.key # g)
<1>1. PICK owner \in Owners, passed \in SUBSET Keys : Owned(owner, passed)
  BY DEF IInv
<1>2. e.key \in Keys \cup {NoKey}
  BY <1>1, EntryFacts DEF IInv
<1>3. e.key # NoKey => place[e.key] = InEntry(e.id)
  BY DEF Placed, EntriesPlaced, EntryPlaced
<1>4. e.key = NoKey \/ e.key # g
  BY <1>3, PlacesDiffer DEF Taken
<1>5. Kept(n, e.key, e.sender)
  BY DEF AllKept, KeptEntry
<1> QED
  BY <1>2, <1>4, <1>5, KeptStays

\* Every step of node n: what is to be shown of the frames, entries and functions
\* that it makes.
LEMMA KeptStep ==
  ASSUME NEW n \in Nodes, NEW g, NEW place,
         IInv, TypeOK', place \in Placings, Placed(place), AllKept, open' = open, Remembered,
         \A q \in L : q \in Waiting' => q \in Waiting,
         Taken(place, n, g), Spared(g),
         \A i, j \in Nodes : \A f \in Elems(chan'[i][j]) :
           (f \in Elems(chan[i][j]) /\ f.key # g) \/ KeptFrame(i, j, f)',
         \A i \in Nodes : \A e \in chains'[i] : e \in chains[i] \/ KeptEntry(i, e)',
         \A i \in Nodes : i # n => running'[i] = running[i],
         \A run : run = running'[n] /\ run # Idle => KeptRun(n, run)'
  PROVE  AllKept'
<1>1. TypeOK
  BY DEF IInv
<1>2. PICK owner \in Owners, passed \in SUBSET Keys : Owned(owner, passed)
  BY DEF IInv
<1>3. ASSUME NEW i \in Nodes, NEW j \in Nodes, NEW f \in Elems(chan'[i][j])
      PROVE  KeptFrame(i, j, f)'
  <2>1. SUFFICES ASSUME f \in Elems(chan[i][j]), f.key # g PROVE KeptFrame(i, j, f)'
    BY <1>3
  <2>2. KeptFrame(i, j, f) /\ GoodFrame(i, f, owner)
    BY <1>2, <2>1 DEF AllKept, Owned
  <2>3. f.key \in Keys /\ Held(f.key)
    BY <2>2 DEF KeptFrame, GoodFrame, Made
  <2>4. Held(f.key)'
    BY <2>1, <2>3, HeldStays
  <2> QED
    BY <2>2, <2>4 DEF KeptFrame
<1>4. ASSUME NEW i \in Nodes, NEW e \in chains'[i]
      PROVE  KeptEntry(i, e)'
  <2>1. SUFFICES ASSUME e \in chains[i], Live(e)' PROVE KeptEntry(i, e)'
    BY <1>4 DEF KeptEntry
  <2>2. e.about \in L
    BY <1>1, <1>2, <2>1, EntryFacts
  <2>3. Live(e)
    <3>1. SUFFICES ASSUME e.type # "FORWARD" PROVE requests[e.about].calls = 0
      BY DEF Live
    <3>2. e.about \in L' /\ requests'[e.about].calls = 0
      BY <2>1, <2>2, <3>1 DEF Live, Remembered
    <3>3. e.about \in Waiting'
      BY <3>2 DEF Waiting, L
    <3> QED
      BY <2>2, <3>3 DEF Waiting
  <2>4. Kept(i, e.key, e.sender)'
    BY <2>1, <2>3, EntryChain
  <2>5. requests'[e.about].parent = requests[e.about].parent
    BY <2>2 DEF Remembered
  <2>6. KeptEntry(i, e)
    BY <2>1 DEF AllKept
  <2> QED
    BY <2>3, <2>4, <2>5, <2>6 DEF KeptEntry
<1>5. ASSUME NEW i \in Nodes, running'[i] # Idle
      PROVE  KeptRun(i, running[i])'
  <2>1. CASE i = n
    <3>1. PICK run : run = running'[n]
      OBVIOUS
    <3>2. KeptRun(n, run)'
      BY <1>5, <2>1, <3>1
    <3> QED
      BY <2>1, <3>1, <3>2 DEF KeptRun, Subject, Kept, Held
  <2>2. CASE i # n
    <3>1. PICK run : run = running[i]
      OBVIOUS
    <3>2. running'[i] = run /\ running[i] # Idle
      BY <1>5, <2>2, <3>1
    <3>3. KeptRun(i, run)
      BY <3>1, <3>2 DEF AllKept
    <3>4. run.key \in Keys \cup {NoKey} /\ run.about \in L
      BY <1>1, <1>2, <3>1, <3>2, RunFacts
    <3>5. run.key # NoKey => place[run.key] = InRun(i)
      BY <3>1, <3>2 DEF Placed, RunsPlaced
    <3>6. run.key = NoKey \/ run.key # g
      BY <2>2, <3>5, PlacesDiffer DEF Taken
    <3>7. Kept(i, run.key, run.sender)'
      BY <3>3, <3>4, <3>6, KeptStays DEF KeptRun
    <3>8. Subject(run)' = Subject(run)
      BY <3>4 DEF Subject, Remembered
    <3>9. KeptRun(i, run)'
      BY <3>3, <3>7, <3>8 DEF KeptRun
    <3> QED
      BY <3>2, <3>9 DEF KeptRun, Subject, Kept, Held
  <2> QED
    BY <2>1, <2>2
<1>6. \A i, j \in Nodes : open'[i][j] <=> {i, j} \in Links
  BY DEF AllKept
<1> QED
  BY <1>3, <1>4, <1>5, <1>6 DEF AllKept

\* No frame bears the request p.
Quiet(bearer, p) == \A i, j \in Nodes : bearer[p] # OnChan(i, j)

\* The frames when no frame is sent.
LEMMA FramesWithout ==
  ASSUME NEW ch, NEW a, NEW x, NEW p, NEW y, NEW bearer,
         IInv, AllKept, Without(ch, a, bearer), OnlyOld(ch), Quiet(bearer, p)
  PROVE  FramesBorne(ch, Passes(bearer, a, x, p, y)) /\ Keeps(ch, a) /\ Lacks(ch, p)
<1>1. \A i, j \in Nodes : \A f \in Elems(ch[i][j]) : f.about \in Nat
  BY FramesAboutRequests DEF OnlyOld
<1>2. Lacks(ch, p)
  BY DEF Without, FramesBorne, Quiet, Lacks
<1> QED
  BY <1>1, <1>2, BorneStill DEF Without

\* The frames when one is sent.
LEMMA FramesPassed ==
  ASSUME NEW ch, NEW a, NEW x, NEW p, NEW y, NEW bearer, NEW b2, NEW n \in Nodes,
         NEW m \in Nodes, NEW f \in Frames, NEW c2,
         IInv, AllKept, Without(ch, a, bearer), OnlyOld(ch), Quiet(bearer, p),
         b2 = Passes(bearer, a, x, p, y), f.about \in {a, p}, b2[f.about] = OnChan(n, m),
         open[m][n], c2 = Sent(ch, n, m, f)
  PROVE  /\ FramesBorne(c2, b2) /\ Keeps(c2, a) /\ InFrame(c2, OnChan(n, m), f.about)
         /\ Adds(c2, ch, n, m, f)
<1>1. FramesBorne(ch, b2) /\ Keeps(ch, a) /\ Lacks(ch, p)
  BY FramesWithout
<1>2. Lacks(ch, f.about)
  BY <1>1 DEF Without
<1>3. ch \in Channels
  BY DEF Without
<1>4. /\ FramesBorne(c2, b2) /\ f \in Elems(c2[n][m])
      /\ Adds(c2, ch, n, m, f)
  BY <1>1, <1>2, <1>3, BorneSent
<1>5. Keeps(c2, a)
  BY <1>1, <1>4 DEF Keeps, Adds
<1>6. InFrame(c2, OnChan(n, m), f.about)
  BY <1>4 DEF InFrame
<1> QED
  BY <1>4, <1>5, <1>6

\* What is known of the request on whose behalf a function runs.
LEMMA RunBears ==
  ASSUME NEW n \in Nodes, NEW bearer, NEW run, NEW a,
         IInv, AllKept, Borne(bearer), run = running[n], run # Idle, run.key # NoKey,
         a = Subject(run)
  PROVE  /\ a \in L /\ a \in Nat /\ a # NoRequest /\ a \in Sought
         /\ bearer[a] = InRun(n) /\ bearer[NoRequest] = Nowhere
         /\ Without(chan, a, bearer)
<1>1. PICK owner \in Owners, passed \in SUBSET Keys : Owned(owner, passed)
  BY DEF IInv
<1>2. TypeOK
  BY DEF IInv
<1>3. GoodRun(n, run, owner, passed)
  BY <1>1 DEF Owned
<1>4. a \in L
  BY <1>3, BackFacts DEF GoodRun
<1>5. a \in Nat /\ a # NoRequest /\ NoRequest \in Nat /\ NoRequest \notin Sought
  BY <1>2, <1>4, SoughtFacts
<1>6. bearer[a] = InRun(n)
  BY <1>5 DEF Borne, RunsBorne
<1>7. a \in Sought /\ bearer[NoRequest] = Nowhere
  BY <1>5, <1>6, PlacesDiffer DEF Borne, BearerOf
<1>8. Without(chan, a, bearer)
  <2>1. \A i, j \in Nodes : bearer[a] # OnChan(i, j)
    BY <1>6, PlacesDiffer
  <2> QED
    BY <2>1, WithoutAny DEF Borne
<1> QED
  BY <1>4, <1>5, <1>6, <1>7, <1>8

\* No entry goes, and no key is taken.
LEMMA NoneTaken ==
  ASSUME NEW place, NEW n, \A i \in Nodes : chains[i] \subseteq chains'[i]
  PROVE  Taken(place, n, NoKey) /\ Spared(NoKey)
  BY DEF Taken, Spared

\* The frames that are not touched have keys.
LEMMA FramesHaveKeys ==
  ASSUME NEW i \in Nodes, NEW j \in Nodes, NEW f \in Elems(chan[i][j]),
         IInv, AllKept
  PROVE  f.key \in Keys /\ f.key # NoKey
<1>1. PICK owner \in Owners, passed \in SUBSET Keys : Owned(owner, passed)
  BY DEF IInv
<1>2. GoodFrame(i, f, owner) /\ f.type # "CLOSE"
  BY <1>1 DEF Owned, AllKept, KeptFrame
<1> QED
  BY <1>2, NoKeyIsNone DEF GoodFrame, Made

\* The function of node n ends, and its answer is sent to the node it goes back to.
LEMMA AnswerableReplied ==
  ASSUME NEW n \in Nodes, NEW reqs, NEW run, NEW f \in Frames, NEW m \in Nodes,
         JInv, IInv', Answerable, run = running[n], run # Idle, run.key # NoKey, Extended(reqs),
         f.type = "MSG_RES", f.key = run.key, f.about = Subject(run),
         run.sender = m, m # n, chan' = Sent(chan, n, m, f),
         running' = [running EXCEPT ![n] = Idle], requests' = reqs,
         chains' = chains, open' = open
  PROVE  Answerable'
<1>1. IInv /\ TypeOK /\ TypeOK'
  BY DEF JInv, IInv
<1>2. PICK owner \in Owners, passed \in SUBSET Keys : Owned(owner, passed)
  BY <1>1 DEF IInv
<1>3. PICK place \in Placings : Placed(place)
  BY DEF JInv
<1>4. AllKept /\ OnlyOld(chan)
  BY DEF Answerable, OnlyOld
<1>5. PICK bearer : Borne(bearer)
  BY DEF Answerable
<1>6. PICK a : a = Subject(run)
  OBVIOUS
<1>7. /\ a \in L /\ a \in Nat /\ a # NoRequest /\ a \in Sought
      /\ bearer[a] = InRun(n) /\ bearer[NoRequest] = Nowhere
      /\ Without(chan, a, bearer)
  BY <1>1, <1>4, <1>5, <1>6, RunBears
<1>8. PICK b2 : b2 = Passes(bearer, a, OnChan(n, m), NoRequest, Nowhere)
  OBVIOUS
<1>9. b2[a] = OnChan(n, m) /\ b2[NoRequest] = Nowhere /\ NoRequest \in Nat
  BY <1>7, <1>8 DEF Passes, NoRequest
<1>10. Waiting' = Waiting /\ Sought' = Sought /\ Remembered
  BY <1>1, SoughtSame
<1>11. /\ KeptRun(n, run) /\ {n, m} \in Links
       /\ run.key \in Keys /\ Held(run.key) /\ run.key.at = m
  <2>1. KeptRun(n, run) /\ GoodRun(n, run, owner, passed)
    BY <1>2, <1>4 DEF AllKept, Owned
  <2> QED
    BY <2>1 DEF KeptRun, Kept, GoodRun, GoodBack, Made
<1>12. open[m][n]
  <2>1. {m, n} = {n, m}
    OBVIOUS
  <2> QED
    BY <1>4, <1>11, <2>1 DEF AllKept
<1>13. Quiet(bearer, NoRequest)
  BY <1>7, PlacesDiffer DEF Quiet
<1>14. /\ FramesBorne(chan', b2) /\ Keeps(chan', a) /\ InFrame(chan', OnChan(n, m), a)
       /\ Adds(chan', chan, n, m, f)
  BY <1>1, <1>4, <1>6, <1>7, <1>8, <1>9, <1>12, <1>13, FramesPassed
<1>15. /\ \A i \in Nodes : i # n => running'[i] = running[i]
       /\ running'[n] = Idle
  BY <1>1 DEF TypeOK
<1>16. Borne(b2)'
  <2>1. \A i \in Nodes : i # n =>
          running'[i] = running[i] /\ bearer[a] # InRun(i) /\ bearer[NoRequest] # InRun(i)
    BY <1>7, <1>15, PlacesDiffer
  <2>2. running[n] # Idle => Subject(running[n]) \in {a, NoRequest}
    BY <1>6
  <2>3. \A r2, s : r2 = running'[n] /\ r2 # Idle /\ s = Subject(r2)' /\ s # NoRequest =>
          b2[s] = InRun(n)
    BY <1>15
  <2>4. \A q : bearer[a] # ForChild(q) /\ bearer[NoRequest] # ForChild(q)
    BY <1>7, BearersDiffer
  <2>5. BearerOf(b2[a], a)'
    <3>1. Found(b2[a], a)'
      BY <1>9, <1>14 DEF Found
    <3> QED
      BY <1>7, <1>10, <3>1 DEF BearerOf
  <2>6. BearerOf(b2[NoRequest], NoRequest)'
    BY <1>1, <1>9, <1>10, SoughtFacts DEF BearerOf
  <2>7. \A r \in Nat : r \in {a, NoRequest} => BearerOf(b2[r], r)'
    BY <2>5, <2>6
  <2> QED
    BY <1>1, <1>5, <1>8, <1>10, <1>14, <2>1, <2>2, <2>3, <2>4, <2>7, BorneStep
<1>17. AllKept'
  <2>1. Taken(place, n, NoKey) /\ Spared(NoKey)
    BY NoneTaken
  <2>2. Held(f.key)'
    BY <1>11 DEF Held
  <2>3. KeptFrame(n, m, f)'
    BY <1>11, <2>2 DEF KeptFrame
  <2>4. \A i, j \in Nodes : \A g \in Elems(chan'[i][j]) :
          (g \in Elems(chan[i][j]) /\ g.key # NoKey) \/ KeptFrame(i, j, g)'
    BY <1>1, <1>4, <1>14, <2>3, FramesHaveKeys DEF Adds
  <2> QED
    BY <1>1, <1>3, <1>4, <1>10, <1>15, <2>1, <2>4, KeptStep
<1> QED
  BY <1>16, <1>17 DEF Answerable

\* What is known of the request on whose behalf another one was made.
LEMMA ParentBears ==
  ASSUME NEW bearer, NEW a, NEW p,
         TypeOK, Borne(bearer), a \in Waiting, p = requests[a].parent
  PROVE  /\ p \in Nat /\ (p = NoRequest => bearer[p] = Nowhere)
         /\ p # NoRequest => bearer[p] = ForChild(a) /\ p \in Sought
<1>1. a \in L
  BY SoughtFacts
<1>2. p \in Nat /\ NoRequest \notin Sought /\ NoRequest \in Nat
  BY <1>1, RequestFacts, SoughtFacts
<1>3. p = NoRequest => bearer[p] = Nowhere
  BY <1>2 DEF Borne, BearerOf
<1>4. ASSUME p # NoRequest
      PROVE  bearer[p] = ForChild(a) /\ p \in Sought
  <2>1. bearer[p] = ForChild(a)
    BY <1>4 DEF Borne, ChildrenBorne
  <2>2. BearerOf(bearer[p], p)
    BY <1>2 DEF Borne
  <2> QED
    BY <2>1, <2>2, BearersDiffer DEF BearerOf
<1> QED
  BY <1>2, <1>3, <1>4

\* Node n is inside the callback, or in none: that of the list of methods is one of
\* the library.
CalledBack(n, e, a, key, sender) ==
  \/ running'[n] = Callback(a, key, sender)
  \/ running'[n] = Idle /\ e.type = "METHODS"

\* The callback of request a is called at node n, with the chain of the entry e.
LEMMA AnswerableCalled ==
  ASSUME NEW n \in Nodes, NEW reqs, NEW a, NEW e \in chains[n], NEW g, NEW key, NEW sender,
         NEW place \in Placings, NEW bearer,
         IInv, TypeOK', Placed(place), AllKept, Borne(bearer), Extended(reqs),
         e.type # "FORWARD", e.about = a, requests[a].calls = 0, a \in Sought,
         key = e.key, key # NoKey => sender = e.sender, key \in Keys \cup {NoKey},
         sender \in Senders,
         Without(chan', a, bearer), OnlyOld(chan'),
         \A i, j \in Nodes : \A f \in Elems(chan'[i][j]) : f.key # g,
         running[n] # Idle => Subject(running[n]) \in {a, NoRequest},
         \A i \in Nodes : i # n => running'[i] = running[i] /\ bearer[a] # InRun(i),
         \A q : bearer[a] # ForChild(q),
         Taken(place, n, g), Spared(g),
         \A i \in Nodes : chains'[i] \subseteq chains[i], open' = open,
         CalledBack(n, e, a, key, sender),
         requests' = Called(reqs, a)
  PROVE  Answerable'
<1>1. TypeOK
  BY DEF IInv
<1>2. a \in L /\ a \in Waiting /\ L \subseteq Nat
  BY <1>1, SoughtFacts
<1>3. Waiting' = Waiting \ {a} /\ Sought' = Sought \ {a} /\ Remembered
  BY <1>1, <1>2, SoughtCalled
<1>4. PICK p : p = requests[a].parent
  OBVIOUS
<1>5. /\ p \in Nat /\ (p = NoRequest => bearer[p] = Nowhere)
      /\ p # NoRequest => bearer[p] = ForChild(a) /\ p \in Sought
  BY <1>1, <1>2, <1>4, ParentBears
<1>6. a # p
  <2>1. NoRequest \notin L
    BY <1>1, SoughtFacts
  <2> QED
    BY <1>2, <1>5, <2>1
<1>7. PICK y : y = IF p = NoRequest THEN Nowhere ELSE InRun(n)
  OBVIOUS
<1>8. PICK b2 : b2 = Passes(bearer, a, Nowhere, p, y)
  OBVIOUS
<1>9. b2[a] = Nowhere /\ b2[p] = y
  BY <1>2, <1>5, <1>6, <1>8 DEF Passes
<1>10. Quiet(bearer, p)
  BY <1>5, PlacesDiffer, BearersDiffer DEF Quiet
<1>11. FramesBorne(chan', b2) /\ Keeps(chan', a)
  BY <1>8, <1>10, FramesWithout
<1>12. PICK r2 : r2 = Callback(a, key, sender)
  OBVIOUS
<1>13. r2.in = "callback" /\ r2.about = a /\ r2.key = key /\ r2.sender = sender /\ r2 # Idle
  <2>1. a \in Ids
    BY <1>1, <1>2, BoundsAssumption DEF TypeOK, L, Ids
  <2>2. r2 \in Runs /\ r2.in = "callback" /\ r2.about = a /\ r2.key = key /\ r2.sender = sender
    BY <1>12, <2>1, CallbackType
  <2> QED
    BY <2>2, RunsAreNotIdle
<1>14. Subject(r2)' = p
  BY <1>2, <1>3, <1>4, <1>13 DEF Subject, Remembered
<1>15. Live(e)
  BY DEF Live
<1>16. Kept(n, e.key, e.sender)'
  BY <1>15, EntryChain
<1>17. KeptEntry(n, e)
  BY DEF AllKept
<1>18. key = NoKey => p = NoRequest
  BY <1>4, <1>15, <1>17 DEF KeptEntry
<1>19. running'[n] = Idle => p = NoRequest
  BY <1>12, <1>13, <1>15, <1>17, <1>18 DEF KeptEntry, CalledBack
<1>20. KeptRun(n, r2)'
  BY <1>13, <1>14, <1>16, <1>18 DEF KeptRun, Kept
<1>21. running'[n] \in {r2, Idle}
  BY <1>12 DEF CalledBack
<1>22. Borne(b2)'
  <2>1. \A i \in Nodes : i # n =>
          running'[i] = running[i] /\ bearer[a] # InRun(i) /\ bearer[p] # InRun(i)
    BY <1>5, PlacesDiffer, BearersDiffer
  <2>2. \A run, s : run = running'[n] /\ run # Idle /\ s = Subject(run)' /\ s # NoRequest =>
          b2[s] = InRun(n)
    BY <1>7, <1>9, <1>14, <1>21
  <2>3. \A q : bearer[p] = ForChild(q) => q \notin Waiting'
    BY <1>3, <1>5, BearersDiffer
  <2>4. BearerOf(b2[a], a)'
    BY <1>3, <1>9 DEF BearerOf
  <2>5. BearerOf(b2[p], p)'
    <3>1. CASE p = NoRequest
      BY <1>1, <1>3, <1>7, <1>9, <3>1, SoughtFacts DEF BearerOf
    <3>2. CASE p # NoRequest
      <4>1. p \in Sought'
        BY <1>3, <1>5, <1>6, <3>2
      <4>2. running'[n] = r2
        BY <1>19, <1>21, <3>2
      <4>3. Subject(running[n])' = p
        BY <1>14, <4>2 DEF Subject
      <4>4. InFunction(InRun(n), p)'
        BY <1>13, <4>2, <4>3 DEF InFunction
      <4>5. b2[p] = InRun(n)
        BY <1>7, <1>9, <3>2
      <4> QED
        BY <4>1, <4>4, <4>5 DEF BearerOf, Found
    <3> QED
      BY <3>1, <3>2
  <2>6. \A q \in Waiting' :
          q \in Waiting \/ requests'[q].parent = NoRequest \/ b2[requests'[q].parent] = ForChild(q)
    BY <1>3
  <2>7. \A q \in Waiting : q \in Waiting' \/ requests[q].parent \in {p, NoRequest}
    BY <1>3, <1>4
  <2>8. \A r \in Nat : r \notin {a, p} => (r \in Sought' <=> r \in Sought)
    BY <1>3
  <2>9. \A r \in Nat : r \in {a, p} => BearerOf(b2[r], r)'
    BY <2>4, <2>5
  <2> QED
    BY <1>3, <1>8, <1>11, <2>1, <2>2, <2>3, <2>6, <2>7, <2>8, <2>9, BorneStep
<1>23. AllKept'
  <2>1. \A i, j \in Nodes : \A f \in Elems(chan'[i][j]) :
          (f \in Elems(chan[i][j]) /\ f.key # g) \/ KeptFrame(i, j, f)'
    BY DEF OnlyOld
  <2>2. \A run : run = running'[n] /\ run # Idle => KeptRun(n, run)'
    BY <1>20, <1>21
  <2>3. \A q \in L : q \in Waiting' => q \in Waiting
    BY <1>3
  <2>4. \A i \in Nodes : \A d \in chains'[i] : d \in chains[i] \/ KeptEntry(i, d)'
    OBVIOUS
  <2> QED
    BY <1>3, <2>1, <2>2, <2>3, <2>4, KeptStep
<1> QED
  BY <1>22, <1>23 DEF Answerable

\* The callback at the start of a chain ends.
LEMMA AnswerableStopped ==
  ASSUME NEW n \in Nodes, NEW reqs,
         JInv, IInv', Answerable, Extended(reqs),
         running[n] # Idle => Subject(running[n]) = NoRequest,
         running' = [running EXCEPT ![n] = Idle], requests' = reqs,
         chains' = chains, chan' = chan, open' = open
  PROVE  Answerable'
<1>1. IInv /\ TypeOK /\ TypeOK'
  BY DEF JInv, IInv
<1>2. PICK place \in Placings : Placed(place)
  BY DEF JInv
<1>3. AllKept /\ OnlyOld(chan)
  BY DEF Answerable, OnlyOld
<1>4. PICK bearer : Borne(bearer)
  BY DEF Answerable
<1>5. bearer[NoRequest] = Nowhere /\ NoRequest \in Nat
  BY <1>1, <1>4, SoughtFacts DEF Borne, BearerOf
<1>6. Without(chan, NoRequest, bearer)
  BY <1>1, <1>3, <1>4, <1>5, PlacesDiffer, WithoutAny DEF Borne
<1>7. PICK b2 : b2 = Passes(bearer, NoRequest, Nowhere, NoRequest, Nowhere)
  OBVIOUS
<1>8. Waiting' = Waiting /\ Sought' = Sought /\ Remembered
  BY <1>1, SoughtSame
<1>9. FramesBorne(chan', b2) /\ Keeps(chan', NoRequest)
  <2>1. Quiet(bearer, NoRequest)
    BY <1>5, PlacesDiffer DEF Quiet
  <2> QED
    BY <1>1, <1>3, <1>6, <1>7, <2>1, FramesWithout
<1>10. /\ \A i \in Nodes : i # n => running'[i] = running[i]
       /\ running'[n] = Idle
  BY <1>1 DEF TypeOK
<1>11. Borne(b2)'
  <2>1. \A i \in Nodes : i # n => running'[i] = running[i] /\ bearer[NoRequest] # InRun(i)
    BY <1>5, <1>10, PlacesDiffer
  <2>2. running[n] # Idle => Subject(running[n]) \in {NoRequest}
    OBVIOUS
  <2>3. \A r2, s : r2 = running'[n] /\ r2 # Idle /\ s = Subject(r2)' /\ s # NoRequest =>
          b2[s] = InRun(n)
    BY <1>10
  <2>4. \A q : bearer[NoRequest] # ForChild(q)
    BY <1>5, BearersDiffer
  <2>5. BearerOf(b2[NoRequest], NoRequest)'
    <3>1. b2[NoRequest] = Nowhere
      BY <1>5, <1>7 DEF Passes
    <3> QED
      BY <1>1, <1>8, <3>1, SoughtFacts DEF BearerOf
  <2>6. \A r \in Nat : r \in {NoRequest, NoRequest} => BearerOf(b2[r], r)'
    BY <2>5
  <2> QED
    BY <1>1, <1>4, <1>7, <1>8, <1>9, <2>1, <2>2, <2>3, <2>4, <2>6, BorneStep
<1>12. AllKept'
  <2>1. Taken(place, n, NoKey) /\ Spared(NoKey)
    BY NoneTaken
  <2>2. \A i, j \in Nodes : \A g \in Elems(chan'[i][j]) :
          (g \in Elems(chan[i][j]) /\ g.key # NoKey) \/ KeptFrame(i, j, g)'
    BY <1>1, <1>3, FramesHaveKeys
  <2> QED
    BY <1>1, <1>2, <1>3, <1>8, <1>10, <2>1, <2>2, KeptStep
<1> QED
  BY <1>11, <1>12 DEF Answerable

\* No frame has a key that is in a function.
LEMMA FramesWithoutKey ==
  ASSUME NEW ch, NEW k,
         IInv, AllKept, OnlyOld(ch), Away(ch, k)
  PROVE  \A i, j \in Nodes : \A f \in Elems(ch[i][j]) : f.key # k
<1> SUFFICES ASSUME NEW i \in Nodes, NEW j \in Nodes, NEW f \in Elems(ch[i][j])
             PROVE  f.key # k
  OBVIOUS
<1>1. f \in Elems(chan[i][j])
  BY DEF OnlyOld
<1>2. f.type # "CLOSE"
  BY <1>1 DEF AllKept, KeptFrame
<1> QED
  BY <1>2 DEF Away

\* The function a node is inside returns, or it asks a module it has no route to.
LEMMA AnswerableFinished ==
  ASSUME NEW n \in Nodes, NEW reqs,
         JInv, IInv', Answerable, running[n] # Idle, Extended(reqs), Finished(n, reqs),
         open' = open
  PROVE  Answerable'
<1>1. IInv /\ TypeOK /\ TypeOK' /\ LocalWaits
  BY DEF JInv, IInv
<1>2. PICK owner \in Owners, passed \in SUBSET Keys : Owned(owner, passed)
  BY <1>1 DEF IInv
<1>3. PICK place \in Placings : Placed(place)
  BY DEF JInv
<1>4. AllKept /\ OnlyOld(chan)
  BY DEF Answerable, OnlyOld
<1>5. PICK bearer : Borne(bearer)
  BY DEF Answerable
<1>6. PICK run : run = running[n]
  OBVIOUS
<1>7. /\ GoodRun(n, run, owner, passed) /\ run.about \in L /\ run.about \in Ids
      /\ run.key \in Keys \cup {NoKey} /\ run.sender \in Senders
      /\ run.lastKey \in Keys \cup {NoKey} /\ run.lastSender \in Senders
      /\ Subject(run) \in Ids \cup {NoRequest}
  BY <1>1, <1>2, <1>6, RunFacts, Zenon
<1>8. KeptRun(n, run)
  BY <1>4, <1>6 DEF AllKept
<1>9. PICK a : a = Subject(run)
  OBVIOUS
<1>10. ASSUME run.key # NoKey
       PROVE  /\ a \in L /\ a \in Nat /\ a # NoRequest /\ a \in Sought
              /\ bearer[a] = InRun(n) /\ Without(chan, a, bearer)
              /\ run.key \in Keys /\ Held(run.key) /\ run.sender = run.key.at
              /\ run.sender \in Nodes /\ owner[run.key] = a
  <2>1. /\ a \in L /\ a \in Nat /\ a # NoRequest /\ a \in Sought
        /\ bearer[a] = InRun(n) /\ Without(chan, a, bearer)
    BY <1>1, <1>4, <1>5, <1>6, <1>9, <1>10, RunBears
  <2>2. /\ run.key \in Keys /\ run.sender \in Nodes /\ run.sender = run.key.at
        /\ owner[run.key] = Subject(run)
    BY <1>7, <1>10, BackFacts DEF GoodRun
  <2>3. Held(run.key)
    BY <1>8, <1>10 DEF KeptRun, Kept
  <2> QED
    BY <1>9, <2>1, <2>2, <2>3
<1>11. CASE run.in = "remote" /\ ReplyOnConnection(n, run, reqs)
  <2>1. run.conn = run.sender /\ run.sender # n /\ run.key # NoKey /\ Subject(run) = run.about
    BY <1>7, <1>8, <1>11 DEF KeptRun, GoodRun, Subject
  <2>2. PICK f : f = Frame("MSG_RES", run.key, n, n, run.about)
    OBVIOUS
  <2>3. f \in Frames /\ f.type = "MSG_RES" /\ f.key = run.key /\ f.about = run.about
    BY <1>7, <2>2, FrameType
  <2>4. /\ chan' = Sent(chan, n, run.sender, f) /\ running' = [running EXCEPT ![n] = Idle]
        /\ requests' = reqs /\ chains' = chains
    BY <1>11, <2>1, <2>2 DEF ReplyOnConnection
  <2>5. run.sender \in Nodes
    BY <1>10, <2>1
  <2>6. f.about = Subject(run)
    BY <2>1, <2>3
  <2> QED
    BY <1>6, <2>1, <2>3, <2>4, <2>5, <2>6, AnswerableReplied
<1>12. ASSUME run.in = "callback", run.key # NoKey, run.sender # n, RespondByName(n, run, reqs)
       PROVE  Answerable'
  <2>1. PICK f : f = Frame("MSG_RES", run.key, run.sender, n, Subject(run))
    OBVIOUS
  <2>2. f \in Frames /\ f.type = "MSG_RES" /\ f.key = run.key /\ f.about = Subject(run)
    BY <1>7, <1>10, <1>12, <2>1, FrameType
  <2>3. open[n][run.sender]
    BY <1>4, <1>8, <1>10, <1>12 DEF KeptRun, Kept, AllKept
  <2>4. Route(n, run.sender) = {run.sender}
    BY <2>3 DEF Route
  <2>5. /\ chan' = Sent(chan, n, run.sender, f) /\ running' = [running EXCEPT ![n] = Idle]
        /\ requests' = reqs /\ chains' = chains
    BY <1>12, <2>1, <2>4 DEF RespondByName
  <2> QED
    BY <1>6, <1>10, <1>12, <2>2, <2>5, AnswerableReplied
<1>13. CASE /\ run.in = "callback" /\ run.key = NoKey
            /\ running' = [running EXCEPT ![n] = Idle]
            /\ requests' = reqs /\ UNCHANGED <<chains, chan>>
  <2>1. Subject(running[n]) = NoRequest
    BY <1>6, <1>8, <1>13 DEF KeptRun
  <2> QED
    BY <1>13, <2>1, AnswerableStopped
<1>14. CASE run.in = "local" /\ CallBackLocally(n, run, reqs)
  <2>1. PICK e \in chains[n] : /\ e.type # "FORWARD" /\ Live(e)
                               /\ e.id = run.key /\ e.about = run.about /\ e.key = run.lastKey
    BY <1>1, <1>6, <1>14 DEF LocalWaits
  <2>2. run.key # NoKey /\ a = run.about
    BY <1>7, <1>9, <1>14 DEF GoodRun, Subject
  <2>3. GoodEntry(n, e, owner, passed)
    BY <1>2 DEF Owned
  <2>4. run.lastKey # NoKey => run.lastSender = e.sender
    BY <1>7, <1>14, <2>1, <2>3 DEF GoodRun, GoodEntry, GoodBack
  <2>5. /\ running' = [running EXCEPT ![n] = Callback(a, run.lastKey, run.lastSender)]
        /\ requests' = Called(reqs, a) /\ chains' = chains /\ chan' = chan
    BY <1>14, <2>2 DEF CallBackLocally
  <2>6. Taken(place, n, NoKey) /\ Spared(NoKey)
    BY <2>5, NoneTaken
  <2>7. \A i, j \in Nodes : \A f \in Elems(chan'[i][j]) : f.key # NoKey
    BY <1>1, <1>4, <2>5, FramesHaveKeys
  <2>8. requests[a].calls = 0
    BY <2>1, <2>2 DEF Live
  <2>9. /\ \A i \in Nodes : i # n => running'[i] = running[i] /\ bearer[a] # InRun(i)
        /\ running'[n] = Callback(a, run.lastKey, run.lastSender)
    BY <1>1, <1>10, <2>2, <2>5, PlacesDiffer DEF TypeOK
  <2>10. \A q : bearer[a] # ForChild(q)
    BY <1>10, <2>2, BearersDiffer
  <2>11. Without(chan', a, bearer) /\ OnlyOld(chan') /\ a \in Sought
    BY <1>4, <1>10, <2>2, <2>5
  <2>12. running[n] # Idle => Subject(running[n]) \in {a, NoRequest}
    BY <1>6, <1>9
  <2>13. PICK key, sender : key = run.lastKey /\ sender = run.lastSender
    OBVIOUS
  <2>14. e.about = a /\ key = e.key /\ (key # NoKey => sender = e.sender)
         /\ key \in Keys \cup {NoKey} /\ sender \in Senders
         /\ CalledBack(n, e, a, key, sender)
    BY <1>7, <2>1, <2>2, <2>4, <2>9, <2>13 DEF CalledBack
  <2>15. \A i \in Nodes : chains'[i] \subseteq chains[i]
    BY <2>5
  <2> QED
    BY <1>1, <1>3, <1>4, <1>5, <2>1, <2>5, <2>6, <2>7, <2>8, <2>9, <2>10, <2>11, <2>12, <2>14,
       <2>15, AnswerableCalled
<1>15. ASSUME run.in = "callback", run.key # NoKey, run.sender = n, RespondHere(n, run, reqs)
       PROVE  Answerable'
  <2>1. \E e \in chains[n] : e.id = run.key
    BY <1>10, <1>15 DEF Held
  <2>2. PICK e \in chains[n] :
          /\ e.id = run.key /\ chains' = [chains EXCEPT ![n] = @ \ {e}]
          /\ running' = [running EXCEPT ![n] = Callback(e.about, e.key, e.sender)]
          /\ requests' = Called(reqs, e.about) /\ UNCHANGED chan
    BY <1>15, <2>1 DEF RespondHere
  <2>3. /\ GoodEntry(n, e, owner, passed) /\ e.key \in Keys \cup {NoKey} /\ e.sender \in Senders
    BY <1>1, <1>2, EntryFacts
  <2>4. GoodBack(n, run.key, run.sender, Subject(run), owner, passed)
    BY <1>7 DEF GoodRun
  <2>5. e.type # "FORWARD"
    BY <1>15, <2>2, <2>3, <2>4 DEF GoodEntry, GoodBack
  <2>6. e.about = a
    BY <1>10, <1>15, <2>2, <2>3 DEF GoodEntry
  <2>7. /\ place[run.key] = InRun(n) /\ EntryPlaced(e, place) /\ Elsewhere(chan, place)
    BY <1>1, <1>3, <1>6, <1>15, PlacedFacts
  <2>8. requests[a].calls = 0
    BY <2>2, <2>5, <2>6, <2>7, PlacesDiffer DEF EntryPlaced, Live
  <2>9. Taken(place, n, run.key)
    BY <2>7 DEF Taken
  <2>10. /\ \A i \in Nodes : i # n => chains'[i] = chains[i]
         /\ chains'[n] = chains[n] \ {e}
    BY <1>1, <2>2 DEF TypeOK
  <2>11. Spared(run.key)
    BY <2>2, <2>10 DEF Spared
  <2>12. \A i \in Nodes : chains'[i] \subseteq chains[i]
    BY <2>10
  <2>13. Away(chan, run.key)
    BY <2>7, AwayElsewhere
  <2>14. \A i, j \in Nodes : \A f \in Elems(chan'[i][j]) : f.key # run.key
    BY <1>1, <1>4, <2>2, <2>13, FramesWithoutKey
  <2>15. /\ \A i \in Nodes : i # n => running'[i] = running[i] /\ bearer[a] # InRun(i)
         /\ running'[n] = Callback(a, e.key, e.sender)
    BY <1>1, <1>10, <1>15, <2>2, <2>6, PlacesDiffer DEF TypeOK
  <2>16. \A q : bearer[a] # ForChild(q)
    BY <1>10, <1>15, BearersDiffer
  <2>17. Without(chan', a, bearer) /\ OnlyOld(chan') /\ a \in Sought
         /\ requests' = Called(reqs, a)
    BY <1>4, <1>10, <1>15, <2>2, <2>6
  <2>18. running[n] # Idle => Subject(running[n]) \in {a, NoRequest}
    BY <1>6, <1>9
  <2>19. PICK key, sender : key = e.key /\ sender = e.sender
    OBVIOUS
  <2>20. e.about = a /\ key = e.key /\ (key # NoKey => sender = e.sender)
         /\ key \in Keys \cup {NoKey} /\ sender \in Senders
         /\ CalledBack(n, e, a, key, sender)
    BY <2>3, <2>6, <2>15, <2>19 DEF CalledBack
  <2> QED
    BY <1>1, <1>3, <1>4, <1>5, <2>5, <2>8, <2>9, <2>11, <2>12, <2>14, <2>15, <2>16, <2>17,
       <2>18, <2>20, AnswerableCalled
<1> QED
  BY <1>6, <1>11, <1>12, <1>13, <1>14, <1>15 DEF Finished

\* The request a on whose behalf node n asks: that of its function, or none.
AskedFor(n, a, key, sender) ==
  \/ running[n] = Idle /\ a = NoRequest /\ key = NoKey
  \/ /\ running[n] # Idle /\ key # NoKey
     /\ running[n].key = key /\ running[n].sender = sender /\ Subject(running[n]) = a

\* What is known of it.
LEMMA AskedBears ==
  ASSUME NEW n \in Nodes, NEW a, NEW key, NEW sender, NEW bearer,
         IInv, AllKept, Borne(bearer), AskedFor(n, a, key, sender)
  PROVE  /\ a \in Nat /\ (a # NoRequest => a \in Sought) /\ (key = NoKey => a = NoRequest)
         /\ bearer[a] = InRun(n) \/ bearer[a] = Nowhere
         /\ Without(chan, a, bearer) /\ Kept(n, key, sender)
<1>1. TypeOK
  BY DEF IInv
<1>2. NoRequest \in Nat /\ NoRequest \notin Sought
  BY <1>1, SoughtFacts
<1>3. bearer[NoRequest] = Nowhere
  BY <1>2 DEF Borne, BearerOf
<1>4. CASE running[n] = Idle /\ a = NoRequest /\ key = NoKey
  <2>1. Without(chan, a, bearer)
    BY <1>3, <1>4, PlacesDiffer, WithoutAny DEF Borne
  <2> QED
    BY <1>2, <1>3, <1>4, <2>1 DEF Kept
<1>5. CASE /\ running[n] # Idle /\ key # NoKey
           /\ running[n].key = key /\ running[n].sender = sender /\ Subject(running[n]) = a
  <2>1. /\ a \in L /\ a \in Nat /\ a # NoRequest /\ a \in Sought
        /\ bearer[a] = InRun(n) /\ Without(chan, a, bearer)
    BY <1>5, RunBears
  <2>2. Kept(n, key, sender)
    BY <1>5 DEF AllKept, KeptRun
  <2> QED
    BY <1>5, <2>1, <2>2
<1> QED
  BY <1>4, <1>5 DEF AskedFor

\* A request that is not made yet has no bearer.
LEMMA NewBears ==
  ASSUME NEW bearer, NEW r,
         TypeOK, Borne(bearer), r = Len(requests) + 1
  PROVE  r \in Nat /\ r \notin L /\ r # NoRequest /\ bearer[r] = Nowhere /\ Quiet(bearer, r)
<1>1. r \in Nat /\ r \notin L /\ r # NoRequest /\ Sought \subseteq L
  BY SoughtFacts
<1>2. bearer[r] = Nowhere
  BY <1>1 DEF Borne, BearerOf
<1> QED
  BY <1>1, <1>2, PlacesDiffer DEF Quiet

\* Who brings the answer of a once r is made on its behalf.
ChildOf(a, r) == IF a = NoRequest THEN Nowhere ELSE ForChild(r)

\* The new request waits for the sake of a.
WaitsFor(x, a) == x.calls = 0 /\ x.parent = a

\* What brings the answer of the new request r: nothing if it is dropped.
BornAs(x, y, r) == IF x.dropped THEN y = Nowhere ELSE Found(y, r)

\* The function that node n is inside after the step brings its answer.
RunComes(n, b2) ==
  \A run, s : run = running'[n] /\ run # Idle /\ s = Subject(run)' /\ s # NoRequest =>
    b2[s] = InRun(n)

\* The new request r brings the answer of the one on whose behalf it is made, and
\* something (y) brings its own.
LEMMA AskedBorne ==
  ASSUME NEW n \in Nodes, NEW a, NEW key, NEW sender, NEW bearer, NEW r, NEW b2, NEW x \in Request,
         NEW y,
         IInv, TypeOK', AllKept, Borne(bearer), AskedFor(n, a, key, sender),
         r = Len(requests) + 1, Len(requests) < MaxRequests,
         b2 = Passes(bearer, a, ChildOf(a, r), r, y),
         requests' = Append(requests, x), WaitsFor(x, a),
         FramesBorne(chan', b2), Keeps(chan', a),
         \A i \in Nodes : i # n => running'[i] = running[i],
         RunComes(n, b2),
         BornAs(x, y, r)'
  PROVE  Borne(b2)'
<1>1. TypeOK
  BY DEF IInv
<1>2. /\ a \in Nat /\ r \in Nat /\ a # r /\ r # NoRequest
      /\ a # NoRequest => a \in Sought
      /\ (bearer[a] = InRun(n) \/ bearer[a] = Nowhere) /\ bearer[r] = Nowhere
  <2>1. a \in Nat /\ (a # NoRequest => a \in Sought)
        /\ (bearer[a] = InRun(n) \/ bearer[a] = Nowhere)
    BY AskedBears
  <2>2. r \in Nat /\ r \notin L /\ r # NoRequest /\ bearer[r] = Nowhere
    BY <1>1, NewBears
  <2>3. Sought \subseteq L
    BY <1>1, SoughtFacts
  <2> QED
    BY <2>1, <2>2, <2>3
<1>3. /\ Waiting' = Waiting \cup {r} /\ Remembered
      /\ Sought' = IF x.dropped THEN Sought ELSE Sought \cup {r}
      /\ requests'[r] = x
  BY <1>1, SoughtMade DEF WaitsFor
<1>4. b2[a] = (IF a = NoRequest THEN Nowhere ELSE ForChild(r)) /\ b2[r] = y
  BY <1>2 DEF Passes, ChildOf
<1>5. r \notin L /\ Waiting \subseteq L /\ Sought \subseteq L /\ NoRequest \notin Sought
  BY <1>1, SoughtFacts
<1>6. \A i \in Nodes : i # n =>
        running'[i] = running[i] /\ bearer[a] # InRun(i) /\ bearer[r] # InRun(i)
  BY <1>2, PlacesDiffer
<1>7. running[n] # Idle => Subject(running[n]) \in {a, NoRequest}
  BY DEF AskedFor
<1>8. \A q : bearer[a] # ForChild(q)
  BY <1>2, BearersDiffer
<1>9. \A q : bearer[r] = ForChild(q) => q \notin Waiting'
  BY <1>2, BearersDiffer
<1>10. \A q \in Waiting' :
         q \in Waiting \/ requests'[q].parent = NoRequest \/ b2[requests'[q].parent] = ForChild(q)
  BY <1>3, <1>4 DEF WaitsFor, ChildOf
<1>11. \A q \in Waiting : q \in Waiting' \/ requests[q].parent \in {r, NoRequest}
  BY <1>3
<1>12. \A q \in Nat : q \notin {a, r} => (q \in Sought' <=> q \in Sought)
  BY <1>3
<1>13. BearerOf(b2[a], a)'
  <2>1. CASE a = NoRequest
    BY <1>2, <1>3, <1>4, <1>5, <2>1 DEF BearerOf, ChildOf
  <2>2. CASE a # NoRequest
    <3>1. a \in Sought'
      BY <1>2, <1>3, <2>2
    <3>2. InChild(ForChild(r), a)'
      BY <1>3 DEF InChild, WaitsFor
    <3>3. b2[a] = ForChild(r)
      BY <1>4, <2>2 DEF ChildOf
    <3> QED
      BY <3>1, <3>2, <3>3 DEF BearerOf, Found
  <2> QED
    BY <2>1, <2>2
<1>14. BearerOf(b2[r], r)'
  <2>1. CASE x.dropped
    BY <1>3, <1>4, <1>5, <2>1 DEF BearerOf, BornAs
  <2>2. CASE ~x.dropped
    BY <1>3, <1>4, <2>2 DEF BearerOf, BornAs
  <2> QED
    BY <2>1, <2>2
<1>15. \A q \in Nat : q \in {a, r} => BearerOf(b2[q], q)'
  BY <1>13, <1>14
<1> QED
  BY <1>3, <1>6, <1>7, <1>8, <1>9, <1>10, <1>11, <1>12, <1>15, BorneStep DEF RunComes

\* The entry that is made for the new request keeps the chain to go back to.
LEMMA AskedKept ==
  ASSUME NEW n \in Nodes, NEW a, NEW key, NEW sender, NEW r, NEW x \in Request, NEW e, NEW bearer,
         JInv, TypeOK', AllKept, Borne(bearer), AskedFor(n, a, key, sender),
         r = Len(requests) + 1, Len(requests) < MaxRequests,
         requests' = Append(requests, x), WaitsFor(x, a), open' = open,
         e.type = "METHODS" => key = NoKey, e.type # "FORWARD",
         e.about = r, e.key = key, e.sender = sender,
         chains' = [chains EXCEPT ![n] = @ \cup {e}] \/ chains' = chains,
         \A i, j \in Nodes : \A f \in Elems(chan'[i][j]) :
           f \in Elems(chan[i][j]) \/ KeptFrame(i, j, f)',
         \A i \in Nodes : i # n => running'[i] = running[i],
         \A run : run = running'[n] /\ run # Idle => KeptRun(n, run)'
  PROVE  AllKept'
<1>1. IInv /\ TypeOK
  BY DEF JInv, IInv
<1>2. PICK place \in Placings : Placed(place)
  BY DEF JInv
<1>3. PICK owner \in Owners, passed \in SUBSET Keys : Owned(owner, passed)
  BY <1>1 DEF IInv
<1>4. Kept(n, key, sender) /\ (key = NoKey => a = NoRequest)
  BY <1>1, AskedBears
<1>5. /\ Waiting' = Waiting \cup {r} /\ Remembered /\ requests'[r] = x
  BY <1>1, SoughtMade DEF WaitsFor
<1>6. \A i \in Nodes : chains[i] \subseteq chains'[i]
  BY <1>1 DEF TypeOK
<1>7. \A i \in Nodes : \A d \in chains'[i] : d \in chains[i] \/ (i = n /\ d = e)
  <2>1. \A i \in Nodes : chains'[i] = chains[i] \/ (i = n /\ chains'[i] = chains[i] \cup {e})
    BY <1>1 DEF TypeOK
  <2> QED
    BY <2>1
<1>8. Taken(place, n, NoKey) /\ Spared(NoKey)
  BY <1>6, NoneTaken
<1>9. key \in Keys \cup {NoKey}
  BY <1>1, <1>3, RunFacts DEF AskedFor
<1>10. Kept(n, key, sender)'
  BY <1>4, <1>8, <1>9, KeptStays
<1>11. KeptEntry(n, e)'
  BY <1>4, <1>5, <1>10 DEF KeptEntry, WaitsFor
<1>12. \A i \in Nodes : \A d \in chains'[i] : d \in chains[i] \/ KeptEntry(i, d)'
  BY <1>7, <1>11
<1>13. \A i, j \in Nodes : \A f \in Elems(chan'[i][j]) :
         (f \in Elems(chan[i][j]) /\ f.key # NoKey) \/ KeptFrame(i, j, f)'
  BY <1>1, FramesHaveKeys
<1>14. r \notin L
  BY <1>1, SoughtFacts
<1>15. \A q \in L : q \in Waiting' => q \in Waiting
  BY <1>5, <1>14
<1> QED
  BY <1>1, <1>2, <1>5, <1>8, <1>12, <1>13, <1>15, KeptStep

\* Whether a new request is dropped.
LEMMA NewRequestDropped ==
  ASSUME NEW n, NEW parent, NEW calls
  PROVE  /\ NewRequest(n, parent, calls).dropped = FALSE
         /\ [NewRequest(n, parent, calls) EXCEPT !.dropped = TRUE].dropped = TRUE
<1>1. ASSUME NEW d
      PROVE  /\ [from |-> n, parent |-> parent, calls |-> calls, dropped |-> d].dropped = d
             /\ [[from |-> n, parent |-> parent, calls |-> calls, dropped |-> d]
                  EXCEPT !.dropped = TRUE].dropped = TRUE
  OBVIOUS
<1>2. NewRequest(n, parent, calls) =
        [from |-> n, parent |-> parent, calls |-> calls, dropped |-> FALSE]
  BY Zenon DEF NewRequest
<1> QED
  BY <1>1, <1>2, Zenon

\* A node asks a module over a connection that is up.
AsksOver(n, m, a, key, sender) ==
  \E x \in Nodes, ask \in {Message, Methods} :
    /\ ask = Methods => key = NoKey
    /\ RequestRemotely(n, m, x, ask, a, key, sender)

\* The new request when it is known what brings its answer.
LEMMA AnswerableAsked ==
  ASSUME NEW n \in Nodes, NEW a, NEW key, NEW sender,
         JInv, IInv', Answerable, Len(requests) < MaxRequests, AskedFor(n, a, key, sender),
         a \in Ids \cup {NoRequest}, key \in Keys \cup {NoKey}, sender \in Senders,
         open' = open,
         \/ RequestLocally(n, a, key, sender)
         \/ RequestUnknown(n, a)
         \/ \E m \in Nodes : open[n][m] /\ AsksOver(n, m, a, key, sender)
  PROVE  Answerable'
<1>1. IInv /\ TypeOK /\ TypeOK'
  BY DEF JInv, IInv
<1>2. AllKept /\ OnlyOld(chan)
  BY DEF Answerable, OnlyOld
<1>3. PICK bearer : Borne(bearer)
  BY DEF Answerable
<1>4. PICK r : r = Len(requests) + 1
  OBVIOUS
<1>5. r \in Ids /\ r \in Nat /\ r # NoRequest /\ bearer[r] = Nowhere /\ Quiet(bearer, r)
  <2>1. r \in Nat /\ r # NoRequest /\ bearer[r] = Nowhere /\ Quiet(bearer, r)
    BY <1>1, <1>3, <1>4, NewBears
  <2>2. r \in Ids
    <3>1. Len(requests) < MaxRequests /\ Len(requests) \in Nat /\ MaxRequests \in Nat
      BY <1>1, BoundsAssumption DEF TypeOK
    <3> QED
      BY <1>4, <3>1 DEF Ids
  <2> QED
    BY <2>1, <2>2
<1>6. a \in Nat /\ Without(chan, a, bearer)
  BY <1>1, <1>2, <1>3, AskedBears
<1>7. PICK k : k = NextKey(n)
  OBVIOUS
<1>8. k \in Keys /\ k.at = n /\ k # NoKey
  BY <1>1, <1>7, NextKeyIsNew, NoKeyIsNone DEF TypeOK
<1>9. PICK x : x = NewRequest(n, a, 0)
  OBVIOUS
<1>10. PICK z : z = [NewRequest(n, a, 0) EXCEPT !.dropped = TRUE]
  OBVIOUS
<1>11. /\ x \in Request /\ WaitsFor(x, a) /\ x.dropped = FALSE
       /\ z \in Request /\ WaitsFor(z, a) /\ z.dropped = TRUE
  <2>1. 0 \in Nat
    OBVIOUS
  <2>2. /\ x \in Request /\ x.parent = a /\ x.calls = 0
        /\ z \in Request /\ z.parent = a /\ z.calls = 0
    BY <1>9, <1>10, <2>1, NewRequestType
  <2>3. x.dropped = FALSE /\ z.dropped = TRUE
    BY <1>9, <1>10, NewRequestDropped
  <2> QED
    BY <2>2, <2>3 DEF WaitsFor
<1>12. ASSUME NEW e, chains' = [chains EXCEPT ![n] = @ \cup {e}], e.id = k
       PROVE  Held(k)'
  <2>1. e \in chains'[n]
    BY <1>1, <1>12 DEF TypeOK
  <2> QED
    BY <1>8, <1>12, <2>1 DEF Held
<1>13. CASE RequestLocally(n, a, key, sender)
  <2>1. PICK e : e = Entry("RESPONSE", k, r, key, sender)
    OBVIOUS
  <2>2. e.type = "RESPONSE" /\ e.id = k /\ e.about = r /\ e.key = key /\ e.sender = sender
    BY <1>5, <1>8, <2>1, EntryType
  <2>3. PICK r2 : r2 = Local(r, k, n, key, sender)
    OBVIOUS
  <2>4. r2 \in Runs /\ r2.in = "local" /\ r2.about = r /\ r2.key = k /\ r2.sender = n
    BY <1>5, <1>8, <2>3, LocalType DEF Senders
  <2>5. /\ requests' = Append(requests, x) /\ chan' = chan
        /\ chains' = [chains EXCEPT ![n] = @ \cup {e}]
        /\ running' = [running EXCEPT ![n] = r2]
    BY <1>4, <1>7, <1>9, <1>13, <2>1, <2>3 DEF RequestLocally
  <2>6. /\ \A i \in Nodes : i # n => running'[i] = running[i]
        /\ running'[n] = r2 /\ r2 # Idle
    BY <1>1, <2>4, <2>5, RunsAreNotIdle DEF TypeOK
  <2>7. Subject(r2)' = r
    BY <2>4 DEF Subject
  <2>8. PICK b2 : b2 = Passes(bearer, a, ChildOf(a, r), r, InRun(n))
    OBVIOUS
  <2>9. b2[r] = InRun(n)
    <3>1. a # r
      <4>1. a = NoRequest \/ a \in Sought
        BY <1>1, <1>2, <1>3, AskedBears
      <4>2. Sought \subseteq L /\ r \notin L
        BY <1>1, <1>4, SoughtFacts
      <4> QED
        BY <1>5, <4>1, <4>2
    <3> QED
      BY <1>5, <2>8, <3>1 DEF Passes
  <2>10. FramesBorne(chan', b2) /\ Keeps(chan', a)
    BY <1>1, <1>2, <1>5, <1>6, <2>5, <2>8, FramesWithout
  <2>11. RunComes(n, b2)
    BY <2>6, <2>7, <2>9 DEF RunComes
  <2>12. BornAs(x, InRun(n), r)'
    <3>1. running'[n] = r2 /\ Subject(running[n])' = r
      BY <2>6, <2>7 DEF Subject
    <3>2. InFunction(InRun(n), r)'
      BY <2>6, <3>1 DEF InFunction
    <3> QED
      BY <1>11, <3>2 DEF BornAs, Found
  <2>13. Borne(b2)'
    BY <1>1, <1>2, <1>3, <1>4, <1>11, <2>5, <2>6, <2>8, <2>10, <2>11, <2>12, AskedBorne
  <2>14. KeptRun(n, r2)'
    BY <1>8, <1>12, <2>2, <2>4, <2>5 DEF KeptRun, Kept
  <2>15. \A i, j \in Nodes : \A f \in Elems(chan'[i][j]) :
           f \in Elems(chan[i][j]) \/ KeptFrame(i, j, f)'
    BY <2>5
  <2>16. \A run : run = running'[n] /\ run # Idle => KeptRun(n, run)'
    BY <2>6, <2>14
  <2>17. AllKept'
    BY <1>1, <1>2, <1>3, <1>4, <1>11, <2>2, <2>5, <2>6, <2>15, <2>16, AskedKept
  <2> QED
    BY <2>13, <2>17 DEF Answerable
<1>14. CASE RequestUnknown(n, a)
  <2>1. PICK e : e = Entry("RESPONSE", k, r, key, sender)
    OBVIOUS
  <2>2. e.type = "RESPONSE" /\ e.id = k /\ e.about = r /\ e.key = key /\ e.sender = sender
    BY <1>5, <1>8, <2>1, EntryType
  <2>3. /\ requests' = Append(requests, z) /\ chan' = chan /\ chains' = chains
        /\ running' = [running EXCEPT ![n] = Idle]
    BY <1>10, <1>14 DEF RequestUnknown
  <2>4. /\ \A i \in Nodes : i # n => running'[i] = running[i]
        /\ running'[n] = Idle
    BY <1>1, <2>3 DEF TypeOK
  <2>5. PICK b2 : b2 = Passes(bearer, a, ChildOf(a, r), r, Nowhere)
    OBVIOUS
  <2>6. FramesBorne(chan', b2) /\ Keeps(chan', a)
    BY <1>1, <1>2, <1>5, <1>6, <2>3, <2>5, FramesWithout
  <2>7. RunComes(n, b2)
    BY <2>4 DEF RunComes
  <2>8. BornAs(z, Nowhere, r)'
    BY <1>11 DEF BornAs
  <2>9. Borne(b2)'
    BY <1>1, <1>2, <1>3, <1>4, <1>11, <2>3, <2>4, <2>5, <2>6, <2>7, <2>8, AskedBorne
  <2>10. \A i, j \in Nodes : \A f \in Elems(chan'[i][j]) :
           f \in Elems(chan[i][j]) \/ KeptFrame(i, j, f)'
    BY <2>3
  <2>11. \A run : run = running'[n] /\ run # Idle => KeptRun(n, run)'
    BY <2>4
  <2>12. AllKept'
    BY <1>1, <1>2, <1>3, <1>4, <1>11, <2>2, <2>3, <2>4, <2>10, <2>11, AskedKept
  <2> QED
    BY <2>9, <2>12 DEF Answerable
<1>15. ASSUME NEW m \in Nodes, open[n][m], NEW to \in Nodes, NEW ask \in {Message, Methods},
              ask = Methods => key = NoKey, RequestRemotely(n, m, to, ask, a, key, sender)
       PROVE  Answerable'
  <2>1. PICK e : e = Entry(ask.entry, k, r, key, sender)
    OBVIOUS
  <2>2. /\ ask.entry \in {"RESPONSE", "METHODS"} /\ ask.frame \in {"MSG_REQ", "METHODS"}
        /\ ask.entry = "METHODS" => key = NoKey
    BY <1>15 DEF Message, Methods
  <2>3. e.type = ask.entry /\ e.id = k /\ e.about = r /\ e.key = key /\ e.sender = sender
    BY <1>5, <1>8, <2>1, <2>2, EntryType
  <2>4. PICK f : f = Frame(ask.frame, k, to, n, r)
    OBVIOUS
  <2>5. f \in Frames /\ f.type = ask.frame /\ f.key = k /\ f.about = r
    BY <1>5, <1>8, <2>2, <2>4, FrameType
  <2>6. /\ requests' = Append(requests, x) /\ chan' = Sent(chan, n, m, f)
        /\ chains' = [chains EXCEPT ![n] = @ \cup {e}]
        /\ running' = [running EXCEPT ![n] = Idle]
    BY <1>4, <1>7, <1>9, <1>15, <2>1, <2>4 DEF RequestRemotely
  <2>7. /\ \A i \in Nodes : i # n => running'[i] = running[i]
        /\ running'[n] = Idle
    BY <1>1, <2>6 DEF TypeOK
  <2>8. PICK b2 : b2 = Passes(bearer, a, ChildOf(a, r), r, OnChan(n, m))
    OBVIOUS
  <2>9. b2[r] = OnChan(n, m)
    <3>1. a # r
      <4>1. a = NoRequest \/ a \in Sought
        BY <1>1, <1>2, <1>3, AskedBears
      <4>2. Sought \subseteq L /\ r \notin L
        BY <1>1, <1>4, SoughtFacts
      <4> QED
        BY <1>5, <4>1, <4>2
    <3> QED
      BY <1>5, <2>8, <3>1 DEF Passes
  <2>10. open[m][n] /\ {n, m} \in Links
    <3>1. {m, n} = {n, m}
      OBVIOUS
    <3> QED
      BY <1>2, <1>15, <3>1 DEF AllKept
  <2>11. /\ FramesBorne(chan', b2) /\ Keeps(chan', a) /\ InFrame(chan', OnChan(n, m), f.about)
         /\ Adds(chan', chan, n, m, f)
    BY <1>1, <1>2, <1>5, <1>6, <2>5, <2>6, <2>8, <2>9, <2>10, FramesPassed
  <2>12. RunComes(n, b2)
    BY <2>7 DEF RunComes
  <2>13. BornAs(x, OnChan(n, m), r)'
    BY <1>11, <2>5, <2>11 DEF BornAs, Found
  <2>14. Borne(b2)'
    BY <1>1, <1>2, <1>3, <1>4, <1>11, <2>6, <2>7, <2>8, <2>11, <2>12, <2>13, AskedBorne
  <2>15. KeptFrame(n, m, f)'
    BY <1>12, <2>2, <2>3, <2>5, <2>6, <2>10 DEF KeptFrame
  <2>16. \A i, j \in Nodes : \A g \in Elems(chan'[i][j]) :
           g \in Elems(chan[i][j]) \/ KeptFrame(i, j, g)'
    BY <2>11, <2>15 DEF Adds
  <2>17. \A run : run = running'[n] /\ run # Idle => KeptRun(n, run)'
    BY <2>7
  <2>18. AllKept'
    <3>1. (e.type = "METHODS" => key = NoKey) /\ e.type # "FORWARD"
      BY <2>2, <2>3
    <3>2. /\ JInv /\ TypeOK' /\ AllKept /\ Borne(bearer) /\ AskedFor(n, a, key, sender)
          /\ r = Len(requests) + 1 /\ Len(requests) < MaxRequests
          /\ requests' = Append(requests, x) /\ WaitsFor(x, a) /\ x \in Request /\ open' = open
      BY <1>1, <1>2, <1>3, <1>4, <1>11, <2>6
    <3>3. /\ e.about = r /\ e.key = key /\ e.sender = sender
          /\ chains' = [chains EXCEPT ![n] = @ \cup {e}] \/ chains' = chains
          /\ \A i \in Nodes : i # n => running'[i] = running[i]
      BY <2>3, <2>6, <2>7
    <3> QED
      BY <2>16, <2>17, <3>1, <3>2, <3>3, AskedKept
  <2> QED
    BY <2>14, <2>18 DEF Answerable
<1> QED
  BY <1>13, <1>14, <1>15 DEF AsksOver

\* A module is reached over a connection that is up.
LEMMA RouteFacts ==
  ASSUME NEW n \in Nodes, NEW x \in Nodes, NEW m \in Route(n, x)
  PROVE  m \in Nodes /\ open[n][m]
  BY HopsAssumption DEF Route

\* A request that is told at once that there is no route.
LEMMA ExtendedBy ==
  ASSUME NEW x \in Request,
         TypeOK, Len(requests) < MaxRequests, x.calls = 1
  PROVE  Extended(Append(requests, x))
<1>1. PICK reqs : reqs = Append(requests, x)
  OBVIOUS
<1>2. /\ reqs \in Seq(Request) /\ Len(reqs) = Len(requests) + 1 /\ Len(requests) \in Nat
      /\ \A q \in L : reqs[q] = requests[q]
      /\ reqs[Len(requests) + 1] = x
  BY <1>1, RequestMade
<1>3. \A q \in 1 .. Len(reqs) : q \notin L => q = Len(requests) + 1
  BY <1>2 DEF L
<1>4. Len(requests) <= Len(reqs)
  BY <1>2
<1>5. \A q \in 1 .. Len(reqs) : q \notin L => reqs[q].calls = 1
  BY <1>2, <1>3
<1>6. Extended(reqs)
  BY <1>2, <1>4, <1>5 DEF Extended
<1> QED
  BY <1>1, <1>6

\* It is made by the library.
LEMMA ExtendedByOne ==
  ASSUME NEW n \in Nodes, NEW a \in Ids \cup {NoRequest}, NEW reqs,
         TypeOK, Len(requests) < MaxRequests, reqs = Append(requests, NewRequest(n, a, 1))
  PROVE  Extended(reqs)
<1>1. 1 \in Nat
  OBVIOUS
<1>2. NewRequest(n, a, 1) \in Request
  BY <1>1, NewRequestType
<1>3. NewRequest(n, a, 1).calls = 1
  BY NewRequestCalls
<1>4. PICK x : x = NewRequest(n, a, 1)
  OBVIOUS
<1>5. x \in Request /\ x.calls = 1
  BY <1>2, <1>3, <1>4
<1>6. Extended(Append(requests, x))
  BY <1>5, ExtendedBy
<1> QED
  BY <1>4, <1>6

\* A request of an application.
LEMMA AnswerableStart ==
  ASSUME NEW n \in Nodes, NEW x \in Nodes, NEW ask \in {Message, Methods},
         JInv, IInv', Answerable, Start(n, x, ask)
  PROVE  Answerable'
<1>1. IInv /\ TypeOK
  BY DEF JInv, IInv
<1>2. Len(requests) < MaxRequests /\ running[n] = Idle /\ open' = open
  BY DEF Start, RequestLocally, RequestUnknown, RequestRemotely
<1>3. AskedFor(n, NoRequest, NoKey, NoNode)
  BY <1>2 DEF AskedFor
<1>4. NoRequest \in Ids \cup {NoRequest} /\ NoKey \in Keys \cup {NoKey} /\ NoNode \in Senders
  BY DEF Senders
<1>5. CASE RequestLocally(n, NoRequest, NoKey, NoNode) \/ RequestUnknown(n, NoRequest)
  BY <1>2, <1>3, <1>4, <1>5, AnswerableAsked
<1>6. ASSUME NEW m \in Route(n, x), RequestRemotely(n, m, x, ask, NoRequest, NoKey, NoNode)
      PROVE  Answerable'
  <2>1. m \in Nodes /\ open[n][m]
    BY RouteFacts
  <2>2. AsksOver(n, m, NoRequest, NoKey, NoNode)
    BY <1>6 DEF AsksOver
  <2> QED
    BY <1>2, <1>3, <1>4, <2>1, <2>2, AnswerableAsked
<1>7. CASE /\ requests' = Append(requests, NewRequest(n, NoRequest, 1))
           /\ UNCHANGED <<chains, keys, running, open, chan, failures>>
  <2>1. PICK reqs : reqs = Append(requests, NewRequest(n, NoRequest, 1))
    OBVIOUS
  <2>2. Extended(reqs)
    BY <1>1, <1>2, <1>4, <2>1, ExtendedByOne
  <2>3. running' = [running EXCEPT ![n] = Idle]
    BY <1>1, <1>2, <1>7 DEF TypeOK
  <2> QED
    BY <1>2, <1>7, <2>1, <2>2, <2>3, AnswerableStopped
<1> QED
  BY <1>5, <1>6, <1>7 DEF Start

\* A function that returns qbus_continue.
LEMMA AnswerableContinue ==
  ASSUME NEW n \in Nodes, NEW x \in Nodes,
         JInv, IInv', Answerable, Continue(n, x)
  PROVE  Answerable'
<1>1. IInv /\ TypeOK
  BY DEF JInv, IInv
<1>2. PICK run : run = running[n]
  OBVIOUS
<1>3. running[n] # Idle /\ run.key # NoKey /\ Len(requests) < MaxRequests
  BY <1>2 DEF Continue
<1>4. PICK owner \in Owners, passed \in SUBSET Keys : Owned(owner, passed)
  BY <1>1 DEF IInv
<1>5. /\ run.key \in Keys \cup {NoKey} /\ run.sender \in Senders
      /\ Subject(run) \in Ids \cup {NoRequest}
  BY <1>1, <1>2, <1>3, <1>4, RunFacts
<1>6. PICK a : a = Subject(run)
  OBVIOUS
<1>7. AskedFor(n, a, run.key, run.sender)
  BY <1>2, <1>3, <1>6 DEF AskedFor
<1>8. CASE /\ RequestLocally(n, a, run.key, run.sender) \/ RequestUnknown(n, a)
           /\ open' = open
  BY <1>3, <1>5, <1>6, <1>7, <1>8, AnswerableAsked
<1>9. ASSUME NEW m \in Route(n, x), RequestRemotely(n, m, x, Message, a, run.key, run.sender)
      PROVE  Answerable'
  <2>1. m \in Nodes /\ open[n][m]
    BY RouteFacts
  <2>2. Message # Methods
    BY DEF Message, Methods
  <2>3. AsksOver(n, m, a, run.key, run.sender) /\ open' = open
    BY <1>9, <2>2 DEF AsksOver, RequestRemotely
  <2> QED
    BY <1>3, <1>5, <1>6, <1>7, <2>1, <2>3, AnswerableAsked
<1>10. CASE /\ Finished(n, Append(requests, NewRequest(n, a, 1)))
            /\ open' = open
  <2>1. PICK reqs : reqs = Append(requests, NewRequest(n, a, 1))
    OBVIOUS
  <2>2. Extended(reqs)
    BY <1>1, <1>3, <1>5, <1>6, <2>1, ExtendedByOne
  <2> QED
    BY <1>3, <1>10, <2>1, <2>2, AnswerableFinished
<1>11. RequestLocally(n, a, run.key, run.sender) \/ RequestUnknown(n, a) => open' = open
  BY DEF RequestLocally, RequestUnknown
<1> QED
  BY <1>2, <1>6, <1>8, <1>9, <1>10, <1>11 DEF Continue

\* Node n is free and reads a frame that m sent.
Reads(n, m, frame) == running[n] = Idle /\ chan[m][n] # <<>> /\ frame = Head(chan[m][n])

\* What is known of the frame that is read, and of the request that it is about.
ReadBy(n, m, frame, ch, bearer, place) ==
  /\ frame.about \in Sought /\ frame.about \in L /\ frame.about \in Ids
  /\ bearer[frame.about] = OnChan(m, n) /\ Without(ch, frame.about, bearer) /\ OnlyOld(ch)
  /\ KeptFrame(m, n, frame) /\ m # n
  /\ frame \in Frames /\ frame.key \in Keys /\ place[frame.key] = OnChan(m, n)
  /\ frame.module \in Nodes /\ frame.sender \in Nodes
  /\ frame.type # "MSG_RES" => frame.sender = m /\ frame.key.at = m
  /\ \A i, j \in Nodes : \A f \in Elems(ch[i][j]) : f.key # frame.key

\* The frame that is read bears its request.
LEMMA ReadBears ==
  ASSUME NEW n \in Nodes, NEW m \in Nodes, NEW bearer, NEW frame, NEW ch, NEW place \in Placings,
         JInv, Answerable, Borne(bearer), Reads(n, m, frame), ch = WithoutHead(n, m),
         Placed(place)
  PROVE  ReadBy(n, m, frame, ch, bearer, place)
<1>1. IInv /\ TypeOK /\ AllKept
  BY DEF JInv, IInv, Answerable
<1>2. PICK owner \in Owners, passed \in SUBSET Keys : Owned(owner, passed)
  BY <1>1 DEF IInv
<1>3. /\ frame \in Frames /\ frame \in Elems(chan[m][n]) /\ GoodFrame(m, frame, owner)
      /\ frame.module \in Nodes /\ frame.sender \in Nodes
      /\ frame.type # "CLOSE" => frame.key \in Keys /\ frame.about \in L /\ frame.about \in Ids
  BY <1>1, <1>2, HeadFacts DEF Reads
<1>4. KeptFrame(m, n, frame)
  BY <1>1, <1>3 DEF AllKept
<1>5. frame.type # "CLOSE"
  BY <1>4 DEF KeptFrame
<1>6. Without(ch, frame.about, bearer) /\ bearer[frame.about] = OnChan(m, n)
  BY <1>1, WithoutRead DEF Borne, Reads
<1>7. frame.about \in Nat
  BY <1>3, <1>5 DEF Ids
<1>8. frame.about \in Sought
  BY <1>6, <1>7, PlacesDiffer DEF Borne, BearerOf
<1>9. m # n
  BY <1>1 DEF IInv, Apart, Reads
<1>10. OnlyOld(ch)
  BY <1>1, ChanRead DEF IInv, Reads
<1>11. Away(ch, frame.key) /\ place[frame.key] = OnChan(m, n)
  BY <1>1, <1>5, FramesRead DEF Placed, Reads
<1>12. \A i, j \in Nodes : \A f \in Elems(ch[i][j]) : f.key # frame.key
  BY <1>1, <1>10, <1>11, FramesWithoutKey
<1> QED
  BY <1>3, <1>4, <1>5, <1>6, <1>8, <1>9, <1>10, <1>11, <1>12 DEF GoodFrame, ReadBy

\* Node n sends the frame f about r to a node that is there and knows its chain.
SentOn(ch, n, to, f, r) ==
  f.about = r /\ chan' = Sent(ch, n, to, f) /\ open[to][n] /\ KeptFrame(n, to, f)'

IsOrNone(g, k) == g = NoKey \/ g = k

\* An entry that is made keeps the chain to go back to.
EntriesKept == \A i \in Nodes : \A e \in chains'[i] : e \in chains[i] \/ KeptEntry(i, e)'

\* A frame that was read is passed on or sent back: another frame bears its request.
LEMMA AnswerableMoved ==
  ASSUME NEW n \in Nodes, NEW m \in Nodes, NEW to \in Nodes, NEW frame, NEW ch,
         NEW f \in Frames, NEW g,
         JInv, IInv', Answerable, Reads(n, m, frame), ch = WithoutHead(n, m),
         SentOn(ch, n, to, f, frame.about), IsOrNone(g, frame.key), Spared(g),
         EntriesKept,
         running' = running, requests' = requests, open' = open
  PROVE  Answerable'
<1>1. IInv /\ TypeOK /\ TypeOK'
  BY DEF JInv, IInv
<1>2. PICK place \in Placings : Placed(place)
  BY DEF JInv
<1>3. AllKept
  BY DEF Answerable
<1>4. PICK bearer : Borne(bearer)
  BY DEF Answerable
<1>5. PICK a : a = frame.about
  OBVIOUS
<1>6. /\ a \in Sought /\ a \in L /\ a \in Ids
      /\ bearer[a] = OnChan(m, n) /\ Without(ch, a, bearer) /\ OnlyOld(ch)
      /\ place[frame.key] = OnChan(m, n)
      /\ \A i, j \in Nodes : \A h \in Elems(ch[i][j]) : h.key # frame.key
  <2>1. ReadBy(n, m, frame, ch, bearer, place)
    BY <1>2, <1>4, ReadBears
  <2> QED
    BY <1>5, <2>1 DEF ReadBy
<1>7. f.about = a
  BY <1>5 DEF SentOn
<1>8. a \in Nat /\ a # NoRequest /\ NoRequest \in Nat /\ NoRequest \notin Sought
  BY <1>1, <1>6, SoughtFacts
<1>9. bearer[NoRequest] = Nowhere
  BY <1>4, <1>8 DEF Borne, BearerOf
<1>10. PICK b2 : b2 = Passes(bearer, a, OnChan(n, to), NoRequest, Nowhere)
  OBVIOUS
<1>11. b2[a] = OnChan(n, to) /\ b2[NoRequest] = Nowhere
  BY <1>8, <1>10 DEF Passes
<1>12. Waiting' = Waiting /\ Sought' = Sought /\ Remembered
  <2>1. Extended(requests)
    BY <1>1 DEF Extended, TypeOK, Request, L
  <2> QED
    BY <1>1, <2>1, SoughtSame
<1>13. Quiet(bearer, NoRequest)
  BY <1>9, PlacesDiffer DEF Quiet
<1>14. /\ FramesBorne(chan', b2) /\ Keeps(chan', a) /\ InFrame(chan', OnChan(n, to), a)
       /\ Adds(chan', ch, n, to, f)
  BY <1>1, <1>3, <1>6, <1>10, <1>11, <1>13, <1>7, FramesPassed DEF SentOn
<1>15. Borne(b2)'
  <2>1. \A i \in Nodes : i # n =>
          running'[i] = running[i] /\ bearer[a] # InRun(i) /\ bearer[NoRequest] # InRun(i)
    BY <1>6, <1>9, PlacesDiffer
  <2>2. running[n] # Idle => Subject(running[n]) \in {a, NoRequest}
    BY DEF Reads
  <2>3. \A run, s : run = running'[n] /\ run # Idle /\ s = Subject(run)' /\ s # NoRequest =>
          b2[s] = InRun(n)
    BY DEF Reads
  <2>4. \A q : bearer[a] # ForChild(q) /\ bearer[NoRequest] # ForChild(q)
    BY <1>6, <1>9, BearersDiffer
  <2>5. BearerOf(b2[a], a)'
    BY <1>6, <1>11, <1>12, <1>14 DEF BearerOf, Found
  <2>6. BearerOf(b2[NoRequest], NoRequest)'
    BY <1>8, <1>11, <1>12 DEF BearerOf
  <2>7. \A r \in Nat : r \in {a, NoRequest} => BearerOf(b2[r], r)'
    BY <2>5, <2>6
  <2> QED
    BY <1>1, <1>4, <1>10, <1>12, <1>14, <2>1, <2>2, <2>3, <2>4, <2>7, BorneStep
<1>16. AllKept'
  <2>1. Taken(place, n, g)
    BY <1>6 DEF Taken, IsOrNone
  <2>2. \A i, j \in Nodes : \A h \in Elems(chan'[i][j]) :
          (h \in Elems(chan[i][j]) /\ h.key # g) \/ KeptFrame(i, j, h)'
    <3>1. \A i, j \in Nodes : \A h \in Elems(ch[i][j]) : h \in Elems(chan[i][j])
      BY <1>6 DEF OnlyOld
    <3>2. \A i, j \in Nodes : \A h \in Elems(ch[i][j]) : h.key # g
      <4>1. CASE g = frame.key
        BY <1>6, <4>1
      <4>2. CASE g = NoKey
        BY <1>1, <1>3, <3>1, <4>2, FramesHaveKeys
      <4> QED
        BY <4>1, <4>2 DEF IsOrNone
    <3>3. KeptFrame(n, to, f)'
      BY DEF SentOn
    <3>4. \A i, j \in Nodes : \A h \in Elems(chan'[i][j]) :
            h \in Elems(ch[i][j]) \/ (i = n /\ j = to /\ h = f)
      BY <1>14 DEF Adds
    <3> QED
      BY <3>1, <3>2, <3>3, <3>4
  <2>3. \A i \in Nodes : \A e \in chains'[i] : e \in chains[i] \/ KeptEntry(i, e)'
    BY DEF EntriesKept
  <2>4. \A run : run = running'[n] /\ run # Idle => KeptRun(n, run)'
    BY DEF Reads
  <2>5. \A i \in Nodes : i # n => running'[i] = running[i]
    OBVIOUS
  <2>6. \A q \in L : q \in Waiting' => q \in Waiting
    BY <1>12
  <2> QED
    BY <1>1, <1>2, <1>3, <1>12, <2>1, <2>2, <2>3, <2>4, <2>5, <2>6, KeptStep
<1> QED
  BY <1>15, <1>16 DEF Answerable

\* A frame that was read calls a method, which brings the answer.
LEMMA AnswerableServed ==
  ASSUME NEW n \in Nodes, NEW m \in Nodes, NEW frame,
         JInv, IInv', Answerable, Reads(n, m, frame), frame.type # "MSG_RES",
         chan' = WithoutHead(n, m),
         running' = [running EXCEPT ![n] = Remote(frame.about, frame.key, frame.sender, m)],
         chains' = chains, requests' = requests, open' = open
  PROVE  Answerable'
<1>1. IInv /\ TypeOK /\ TypeOK'
  BY DEF JInv, IInv
<1>2. PICK place \in Placings : Placed(place)
  BY DEF JInv
<1>3. AllKept
  BY DEF Answerable
<1>4. PICK bearer : Borne(bearer)
  BY DEF Answerable
<1>5. PICK a : a = frame.about
  OBVIOUS
<1>6. PICK ch : ch = WithoutHead(n, m)
  OBVIOUS
<1>7. /\ a \in Sought /\ a \in L /\ a \in Ids
      /\ bearer[a] = OnChan(m, n) /\ Without(ch, a, bearer) /\ OnlyOld(ch)
      /\ KeptFrame(m, n, frame) /\ m # n
      /\ frame.key \in Keys /\ frame.sender = m /\ frame.key.at = m
  <2>1. ReadBy(n, m, frame, ch, bearer, place)
    BY <1>2, <1>4, <1>6, ReadBears
  <2> QED
    BY <1>5, <2>1 DEF ReadBy
<1>8. a \in Nat /\ a # NoRequest /\ NoRequest \in Nat /\ NoRequest \notin Sought
  BY <1>1, <1>7, SoughtFacts
<1>9. bearer[NoRequest] = Nowhere
  BY <1>4, <1>8 DEF Borne, BearerOf
<1>10. PICK b2 : b2 = Passes(bearer, a, InRun(n), NoRequest, Nowhere)
  OBVIOUS
<1>11. b2[a] = InRun(n) /\ b2[NoRequest] = Nowhere
  BY <1>8, <1>10 DEF Passes
<1>12. Waiting' = Waiting /\ Sought' = Sought /\ Remembered
  <2>1. Extended(requests)
    BY <1>1 DEF Extended, TypeOK, Request, L
  <2> QED
    BY <1>1, <2>1, SoughtSame
<1>13. Quiet(bearer, NoRequest)
  BY <1>9, PlacesDiffer DEF Quiet
<1>14. FramesBorne(chan', b2) /\ Keeps(chan', a)
  BY <1>1, <1>3, <1>6, <1>7, <1>10, <1>13, FramesWithout
<1>15. PICK run : run = Remote(a, frame.key, m, m)
  OBVIOUS
<1>16. /\ run \in Runs /\ run.in = "remote" /\ run.about = a /\ run.key = frame.key
       /\ run.sender = m /\ run.conn = m
  BY <1>7, <1>15, RemoteType DEF Senders
<1>17. /\ \A i \in Nodes : i # n => running'[i] = running[i]
       /\ running'[n] = run /\ run # Idle
  <2>1. running'[n] = run
    BY <1>1, <1>5, <1>7, <1>15 DEF TypeOK
  <2>2. \A i \in Nodes : i # n => running'[i] = running[i]
    BY <1>1 DEF TypeOK
  <2> QED
    BY <1>16, <2>1, <2>2, RunsAreNotIdle
<1>18. Subject(run)' = a
  BY <1>16 DEF Subject
<1>19. Borne(b2)'
  <2>1. \A i \in Nodes : i # n =>
          running'[i] = running[i] /\ bearer[a] # InRun(i) /\ bearer[NoRequest] # InRun(i)
    BY <1>7, <1>9, <1>17, PlacesDiffer
  <2>2. running[n] # Idle => Subject(running[n]) \in {a, NoRequest}
    BY DEF Reads
  <2>3. \A r2, s : r2 = running'[n] /\ r2 # Idle /\ s = Subject(r2)' /\ s # NoRequest =>
          b2[s] = InRun(n)
    BY <1>11, <1>17, <1>18
  <2>4. \A q : bearer[a] # ForChild(q) /\ bearer[NoRequest] # ForChild(q)
    BY <1>7, <1>9, BearersDiffer
  <2>5. BearerOf(b2[a], a)'
    <3>1. Subject(running[n])' = a
      BY <1>17, <1>18 DEF Subject
    <3>2. InFunction(InRun(n), a)'
      BY <1>17, <3>1 DEF InFunction
    <3> QED
      BY <1>7, <1>11, <1>12, <3>2 DEF BearerOf, Found
  <2>6. BearerOf(b2[NoRequest], NoRequest)'
    BY <1>8, <1>11, <1>12 DEF BearerOf
  <2>7. \A r \in Nat : r \in {a, NoRequest} => BearerOf(b2[r], r)'
    BY <2>5, <2>6
  <2> QED
    BY <1>1, <1>4, <1>10, <1>12, <1>14, <2>1, <2>2, <2>3, <2>4, <2>7, BorneStep
<1>20. AllKept'
  <2>1. Taken(place, n, NoKey) /\ Spared(NoKey)
    BY NoneTaken
  <2>2. \A i, j \in Nodes : \A h \in Elems(chan'[i][j]) :
          (h \in Elems(chan[i][j]) /\ h.key # NoKey) \/ KeptFrame(i, j, h)'
    BY <1>1, <1>3, <1>6, <1>7, FramesHaveKeys DEF OnlyOld
  <2>3. KeptRun(n, run)'
    <3>1. {n, m} = {m, n}
      OBVIOUS
    <3>2. Held(frame.key)' /\ {n, m} \in Links
      BY <1>7, <3>1 DEF KeptFrame, Held
    <3>3. run.key # NoKey
      BY <1>7, <1>16, NoKeyIsNone
    <3> QED
      BY <1>7, <1>16, <3>2, <3>3 DEF KeptRun, Kept
  <2>4. \A r2 : r2 = running'[n] /\ r2 # Idle => KeptRun(n, r2)'
    BY <1>17, <2>3
  <2> QED
    BY <1>1, <1>2, <1>3, <1>12, <1>17, <2>1, <2>2, <2>4, KeptStep
<1> QED
  BY <1>19, <1>20 DEF Answerable

\* A connection that is up is up at both ends.
LEMMA BothEnds ==
  ASSUME NEW n \in Nodes, NEW m \in Nodes, AllKept
  PROVE  /\ open[n][m] => open[m][n] /\ {n, m} \in Links
         /\ {m, n} \in Links => open[n][m] /\ open[m][n] /\ {n, m} \in Links
<1>1. {n, m} = {m, n}
  OBVIOUS
<1> QED
  BY <1>1 DEF AllKept

\* A request that is passed on: the node keeps the chain of the one who asked.
LEMMA AnswerableForwarded ==
  ASSUME NEW n \in Nodes, NEW m \in Nodes, NEW to \in Nodes, NEW frame,
         JInv, IInv', Answerable, Reads(n, m, frame), frame.type \in {"MSG_REQ", "METHODS"},
         open[n][to], Forward(n, m, frame, to), UNCHANGED <<running, requests, open, failures>>
  PROVE  Answerable'
<1>1. IInv /\ TypeOK /\ AllKept
  BY DEF JInv, IInv, Answerable
<1>2. PICK place \in Placings : Placed(place)
  BY DEF JInv
<1>3. PICK bearer : Borne(bearer)
  BY DEF Answerable
<1>4. PICK ch : ch = WithoutHead(n, m)
  OBVIOUS
<1>5. ReadBy(n, m, frame, ch, bearer, place)
  BY <1>2, <1>3, <1>4, ReadBears
<1>6. /\ frame \in Frames /\ frame.key \in Keys /\ frame.about \in Ids
      /\ frame.sender = m /\ frame.key.at = m /\ m # n
      /\ Held(frame.key) /\ {m, n} \in Links
  BY <1>5 DEF ReadBy, KeptFrame
<1>7. PICK k : k = NextKey(n)
  OBVIOUS
<1>8. k \in Keys /\ k.at = n
  BY <1>1, <1>7, NextKeyIsNew DEF TypeOK
<1>9. PICK f : f = Rekeyed(frame, k, n)
  OBVIOUS
<1>10. f \in Frames /\ f.type = frame.type /\ f.key = k /\ f.about = frame.about
  BY <1>6, <1>8, <1>9, FrameRekeyed
<1>11. PICK e : e = Entry("FORWARD", k, frame.about, frame.key, m)
  OBVIOUS
<1>12. e.type = "FORWARD" /\ e.id = k /\ e.key = frame.key /\ e.sender = m
  BY <1>6, <1>8, <1>11, EntryType DEF Senders
<1>13. chains' = [chains EXCEPT ![n] = @ \cup {e}]
  BY <1>6, <1>7, <1>11 DEF Forward
<1>14. chan' = Sent(ch, n, to, f)
  <2>1. f = [frame EXCEPT !.key = k, !.sender = n]
    BY <1>9 DEF Rekeyed
  <2> QED
    BY <1>4, <1>7, <2>1, Zenon DEF Forward
<1>15. \A i \in Nodes : chains'[i] = chains[i] \/ (i = n /\ chains'[i] = chains[i] \cup {e})
  BY <1>1, <1>13 DEF TypeOK
<1>16. e \in chains'[n]
  BY <1>1, <1>13 DEF TypeOK
<1>17. Spared(NoKey)
  BY <1>15 DEF Spared
<1>18. EntriesKept
  <2>1. Held(frame.key)'
    BY <1>6, <1>17, HeldStays, NoKeyIsNone
  <2>2. {n, m} \in Links
    BY <1>1, <1>6, BothEnds
  <2>3. KeptEntry(n, e)'
    BY <1>6, <1>12, <2>1, <2>2 DEF KeptEntry, Kept
  <2>4. ASSUME NEW i \in Nodes, NEW d \in chains'[i], d \notin chains[i]
        PROVE  KeptEntry(i, d)'
    <3>1. i = n /\ d = e
      BY <1>15, <2>4
    <3> QED
      BY <2>3, <3>1
  <2> QED
    BY <2>4 DEF EntriesKept
<1>19. SentOn(ch, n, to, f, frame.about)
  <2>1. open[to][n] /\ {n, to} \in Links
    BY <1>1, BothEnds
  <2>2. Held(k)'
    BY <1>8, <1>12, <1>16 DEF Held
  <2>3. f.type # "CLOSE" /\ f.type # "MSG_RES"
    BY <1>10
  <2>4. KeptFrame(n, to, f)'
    BY <1>10, <2>1, <2>2, <2>3 DEF KeptFrame
  <2> QED
    BY <1>10, <1>14, <2>1, <2>4 DEF SentOn
<1>20. IsOrNone(NoKey, frame.key)
  BY DEF IsOrNone
<1>21. running' = running /\ requests' = requests /\ open' = open
  OBVIOUS
<1> QED
  BY <1>4, <1>10, <1>17, <1>18, <1>19, <1>20, <1>21, AnswerableMoved

\* A request that is answered at once: the error, or the list of methods.
LEMMA AnswerableReturned ==
  ASSUME NEW n \in Nodes, NEW m \in Nodes, NEW frame,
         JInv, IInv', Answerable, Reads(n, m, frame), frame.type \in {"MSG_REQ", "METHODS"},
         chan' = Sent(WithoutHead(n, m), n, m, Answer(frame, n)),
         UNCHANGED <<chains, keys, running, requests, open, failures>>
  PROVE  Answerable'
<1>1. IInv /\ TypeOK /\ AllKept
  BY DEF JInv, IInv, Answerable
<1>2. PICK place \in Placings : Placed(place)
  BY DEF JInv
<1>3. PICK bearer : Borne(bearer)
  BY DEF Answerable
<1>4. PICK ch : ch = WithoutHead(n, m)
  OBVIOUS
<1>5. ReadBy(n, m, frame, ch, bearer, place)
  BY <1>2, <1>3, <1>4, ReadBears
<1>6. /\ frame \in Frames /\ frame.key.at = m /\ Held(frame.key) /\ {m, n} \in Links
  BY <1>5 DEF ReadBy, KeptFrame
<1>7. PICK f : f = Answer(frame, n)
  OBVIOUS
<1>8. f \in Frames /\ f.type = "MSG_RES" /\ f.key = frame.key /\ f.about = frame.about
  BY <1>6, <1>7, FrameAnswered
<1>9. Spared(NoKey)
  BY DEF Spared
<1>10. EntriesKept
  BY DEF EntriesKept
<1>11. SentOn(ch, n, m, f, frame.about)
  <2>1. open[m][n] /\ {n, m} \in Links
    BY <1>1, <1>6, BothEnds
  <2>2. Held(frame.key)'
    BY <1>6 DEF Held
  <2>3. KeptFrame(n, m, f)'
    BY <1>6, <1>8, <2>1, <2>2 DEF KeptFrame
  <2>4. chan' = Sent(ch, n, m, f)
    BY <1>4, <1>7
  <2> QED
    BY <1>8, <2>1, <2>3, <2>4 DEF SentOn
<1>12. IsOrNone(NoKey, frame.key)
  BY DEF IsOrNone
<1>13. running' = running /\ requests' = requests /\ open' = open
  OBVIOUS
<1> QED
  BY <1>4, <1>8, <1>9, <1>10, <1>11, <1>12, <1>13, AnswerableMoved

\* A request that is read.
LEMMA AnswerableRequested ==
  ASSUME NEW n \in Nodes, NEW m \in Nodes,
         JInv, IInv', Answerable, OnMsgRequest(n, m) \/ OnMethodsRequest(n, m)
  PROVE  Answerable'
<1>1. PICK frame : frame = Head(chan[m][n])
  OBVIOUS
<1>2. /\ Reads(n, m, frame) /\ frame.type \in {"MSG_REQ", "METHODS"}
      /\ UNCHANGED <<requests, open, failures>>
  BY <1>1 DEF OnMsgRequest, OnMethodsRequest, Received, Reads
<1>3. frame.module \in Nodes
  <2>1. TypeOK /\ \E owner \in Owners, passed \in SUBSET Keys : Owned(owner, passed)
    BY DEF JInv, IInv
  <2> QED
    BY <1>1, <1>2, <2>1, HeadFacts DEF Reads
<1>4. ASSUME ForwardOrRefuse(n, m, frame) PROVE Answerable'
  <2>1. ASSUME NEW to \in Route(n, frame.module), Forward(n, m, frame, to), UNCHANGED running
        PROVE  Answerable'
    <3>1. to \in Nodes /\ open[n][to]
      BY <1>3, RouteFacts
    <3> QED
      BY <1>2, <2>1, <3>1, AnswerableForwarded
  <2>2. CASE /\ chan' = Sent(WithoutHead(n, m), n, m, Answer(frame, n))
             /\ UNCHANGED <<chains, keys, running>>
    BY <1>2, <2>2, AnswerableReturned
  <2> QED
    BY <1>4, <2>1, <2>2 DEF ForwardOrRefuse
<1>5. CASE /\ running' = [running EXCEPT ![n] = Remote(frame.about, frame.key, frame.sender, m)]
           /\ chan' = WithoutHead(n, m)
           /\ UNCHANGED <<chains, keys>>
  <2>1. frame.type # "MSG_RES"
    BY <1>2
  <2> QED
    BY <1>2, <1>5, <2>1, AnswerableServed
<1>6. CASE /\ chan' = Sent(WithoutHead(n, m), n, m, Answer(frame, n))
           /\ UNCHANGED <<chains, keys, running>>
  BY <1>2, <1>6, AnswerableReturned
<1> QED
  BY <1>1, <1>4, <1>5, <1>6 DEF OnMsgRequest, OnMethodsRequest

\* Node n takes out the entry e that waits for the answer.
TakesOut(n, e, frame) ==
  /\ e \in chains[n] /\ e.id = frame.key /\ frame.type = "MSG_RES"
  /\ chains' = [chains EXCEPT ![n] = @ \ {e}]

\* What is known of it.
TakenOut(n, e, frame, place) ==
  /\ e.about = frame.about /\ Live(e) /\ KeptEntry(n, e)
  /\ e.key \in Keys \cup {NoKey} /\ e.sender \in Senders
  /\ e.type = "FORWARD" => e.key \in Keys /\ e.sender \in Nodes /\ e.sender = e.key.at
  /\ Kept(n, e.key, e.sender)'
  /\ Taken(place, n, frame.key) /\ Spared(frame.key)
  /\ \A i \in Nodes : chains'[i] \subseteq chains[i]

\* The entry is that of the request that the answer is about.
LEMMA EntryTakenOut ==
  ASSUME NEW n \in Nodes, NEW m \in Nodes, NEW frame, NEW e, NEW place \in Placings, NEW ch,
         NEW bearer,
         JInv, Answerable, Borne(bearer), Reads(n, m, frame), ch = WithoutHead(n, m),
         Placed(place), TakesOut(n, e, frame)
  PROVE  TakenOut(n, e, frame, place)
<1>1. IInv /\ TypeOK /\ AllKept
  BY DEF JInv, IInv, Answerable
<1>2. PICK owner \in Owners, passed \in SUBSET Keys : Owned(owner, passed)
  BY <1>1 DEF IInv
<1>3. ReadBy(n, m, frame, ch, bearer, place)
  BY ReadBears
<1>4. frame.key \in Keys /\ place[frame.key] = OnChan(m, n)
  BY <1>3 DEF ReadBy
<1>5. e \in chains[n] /\ e.id = frame.key /\ chains' = [chains EXCEPT ![n] = @ \ {e}]
  BY DEF TakesOut
<1>6. /\ GoodEntry(n, e, owner, passed) /\ e.key \in Keys \cup {NoKey} /\ e.sender \in Senders
  BY <1>1, <1>2, <1>5, EntryFacts
<1>7. e.about = frame.about
  <2>1. GoodFrame(m, frame, owner)
    BY <1>1, <1>2, HeadFacts DEF Reads
  <2>2. frame.type # "CLOSE"
    BY DEF TakesOut
  <2>3. owner[frame.key] = frame.about
    BY <2>1, <2>2 DEF GoodFrame
  <2>4. owner[e.id] = e.about
    BY <1>6 DEF GoodEntry
  <2> QED
    BY <1>5, <2>3, <2>4
<1>8. Live(e)
  <2>1. EntryPlaced(e, place)
    BY <1>1, <1>5, PlacedFacts
  <2> QED
    BY <1>4, <1>5, <2>1, PlacesDiffer DEF EntryPlaced
<1>9. KeptEntry(n, e)
  BY <1>1, <1>5 DEF AllKept
<1>10. Taken(place, n, frame.key)
  BY <1>4 DEF Taken
<1>11. \A i \in Nodes : chains'[i] = chains[i] \/ (i = n /\ chains'[i] = chains[i] \ {e})
  BY <1>1, <1>5 DEF TypeOK
<1>12. Spared(frame.key) /\ \A i \in Nodes : chains'[i] \subseteq chains[i]
  BY <1>5, <1>11 DEF Spared
<1>13. Kept(n, e.key, e.sender)'
  BY <1>1, <1>5, <1>8, <1>10, <1>12, EntryChain
<1>14. e.type = "FORWARD" => e.key \in Keys /\ e.sender \in Nodes /\ e.sender = e.key.at
  BY <1>6, BackFacts DEF GoodEntry
<1> QED
  BY <1>6, <1>7, <1>8, <1>9, <1>10, <1>12, <1>13, <1>14 DEF TakenOut

\* An answer that is passed on to the node that asked, which is connected still.
LEMMA AnswerablePassedBack ==
  ASSUME NEW n \in Nodes, NEW m \in Nodes, NEW frame, NEW e,
         JInv, IInv', Answerable, Reads(n, m, frame), TakesOut(n, e, frame),
         OnForwardedAnswer(n, m, e), open' = open
  PROVE  Answerable'
<1>1. IInv /\ TypeOK /\ AllKept
  BY DEF JInv, IInv, Answerable
<1>2. PICK place \in Placings : Placed(place)
  BY DEF JInv
<1>3. PICK bearer : Borne(bearer)
  BY DEF Answerable
<1>4. PICK ch : ch = WithoutHead(n, m)
  OBVIOUS
<1>5. ReadBy(n, m, frame, ch, bearer, place)
  BY <1>2, <1>3, <1>4, ReadBears
<1>6. TakenOut(n, e, frame, place)
  BY <1>2, <1>3, <1>4, EntryTakenOut
<1>7. e.type = "FORWARD" /\ running' = running /\ requests' = requests
  BY DEF OnForwardedAnswer
<1>8. PICK to : to = e.sender
  OBVIOUS
<1>9. /\ e.key \in Keys /\ to \in Nodes /\ e.key.at = to /\ Live(e) /\ to # n
      /\ Kept(n, e.key, to) /\ Kept(n, e.key, to)'
  BY <1>6, <1>7, <1>8 DEF TakenOut, KeptEntry
<1>10. {n, to} \in Links /\ open[n][to] /\ open[to][n] /\ Held(e.key)'
  <2>1. e.key # NoKey
    BY <1>9, NoKeyIsNone
  <2>2. {n, to} \in Links /\ Held(e.key)'
    BY <1>9, <2>1 DEF Kept
  <2>3. {to, n} = {n, to}
    OBVIOUS
  <2> QED
    BY <1>1, <1>9, <2>2, <2>3 DEF AllKept
<1>11. Route(n, to) = {to}
  BY <1>10 DEF Route
<1>12. PICK f : f = Rekeyed(frame, e.key, to)
  OBVIOUS
<1>13. f \in Frames /\ f.type = "MSG_RES" /\ f.key = e.key /\ f.about = frame.about
  <2>1. frame \in Frames
    BY <1>5 DEF ReadBy
  <2>2. frame.type = "MSG_RES"
    BY DEF TakesOut
  <2> QED
    BY <1>9, <1>12, <2>1, <2>2, FrameRekeyed
<1>14. chan' = Sent(ch, n, to, f)
  <2>1. f = [Head(chan[m][n]) EXCEPT !.key = e.key, !.sender = e.sender]
    BY <1>8, <1>12 DEF Rekeyed, Reads
  <2>2. Route(n, e.sender) = {to}
    BY <1>8, <1>11
  <2>3. \/ \E x \in Route(n, e.sender) : chan' = Sent(ch, n, x, f)
        \/ Route(n, e.sender) = {} /\ chan' = ch
    BY <1>4, <2>1, Zenon DEF OnForwardedAnswer
  <2> QED
    BY <2>2, <2>3
<1>15. SentOn(ch, n, to, f, frame.about)
  <2>1. KeptFrame(n, to, f)'
    BY <1>9, <1>10, <1>13 DEF KeptFrame
  <2> QED
    BY <1>10, <1>13, <1>14, <2>1 DEF SentOn
<1>16. Spared(frame.key) /\ EntriesKept
  BY <1>6 DEF TakenOut, EntriesKept
<1>17. IsOrNone(frame.key, frame.key)
  BY DEF IsOrNone
<1> QED
  BY <1>4, <1>7, <1>9, <1>13, <1>15, <1>16, <1>17, AnswerableMoved

\* The answer of a request of our own.
LEMMA AnswerableReceived ==
  ASSUME NEW n \in Nodes, NEW m \in Nodes, NEW frame, NEW e,
         JInv, IInv', Answerable, Reads(n, m, frame), TakesOut(n, e, frame),
         OnAnswer(n, m, e), open' = open
  PROVE  Answerable'
<1>1. IInv /\ TypeOK /\ TypeOK' /\ AllKept
  BY DEF JInv, IInv, Answerable
<1>2. PICK place \in Placings : Placed(place)
  BY DEF JInv
<1>3. PICK bearer : Borne(bearer)
  BY DEF Answerable
<1>4. PICK ch : ch = WithoutHead(n, m)
  OBVIOUS
<1>5. PICK a : a = frame.about
  OBVIOUS
<1>6. PICK g : g = frame.key
  OBVIOUS
<1>7. ReadBy(n, m, frame, ch, bearer, place)
  BY <1>2, <1>3, <1>4, ReadBears
<1>8. TakenOut(n, e, frame, place)
  BY <1>2, <1>3, <1>4, EntryTakenOut
<1>9. /\ e.type # "FORWARD" /\ e.type \in {"RESPONSE", "METHODS"} /\ chan' = ch
      /\ requests' = Called(requests, e.about)
      /\ running' = [running EXCEPT ![n] =
                       IF e.type = "RESPONSE" THEN Callback(e.about, e.key, e.sender) ELSE @]
  BY <1>4 DEF OnAnswer
<1>10. PICK key, sender : key = e.key /\ sender = e.sender
  OBVIOUS
<1>11. /\ e.about = a /\ key \in Keys \cup {NoKey} /\ sender \in Senders
       /\ Taken(place, n, g) /\ Spared(g)
       /\ \A i \in Nodes : chains'[i] \subseteq chains[i]
  BY <1>5, <1>6, <1>8, <1>10 DEF TakenOut
<1>12. requests[a].calls = 0
  BY <1>8, <1>9, <1>11 DEF TakenOut, Live
<1>13. /\ a \in Sought /\ bearer[a] = OnChan(m, n)
       /\ Without(chan', a, bearer) /\ OnlyOld(chan')
       /\ \A i, j \in Nodes : \A f \in Elems(chan'[i][j]) : f.key # g
  BY <1>5, <1>6, <1>7, <1>9 DEF ReadBy
<1>14. running[n] = Idle
  BY DEF Reads
<1>15. \A i \in Nodes : i # n => running'[i] = running[i] /\ bearer[a] # InRun(i)
  BY <1>1, <1>9, <1>13, PlacesDiffer DEF TypeOK
<1>16. CalledBack(n, e, a, key, sender)
  <2>1. running'[n] = IF e.type = "RESPONSE" THEN Callback(e.about, e.key, e.sender) ELSE Idle
    BY <1>1, <1>9, <1>14 DEF TypeOK
  <2> QED
    BY <1>9, <1>10, <1>11, <2>1 DEF CalledBack
<1>17. \A q : bearer[a] # ForChild(q)
  BY <1>13, BearersDiffer
<1>18. Extended(requests)
  BY <1>1 DEF Extended, TypeOK, Request, L
<1>19. PICK reqs : reqs = requests
  OBVIOUS
<1>20. e \in chains[n] /\ Extended(reqs) /\ requests' = Called(reqs, a)
  BY <1>9, <1>11, <1>18, <1>19 DEF TakesOut
<1>21. running[n] # Idle => Subject(running[n]) \in {a, NoRequest}
  BY <1>14
<1>22. /\ place \in Placings /\ e \in chains[n] /\ IInv /\ TypeOK' /\ Placed(place) /\ AllKept
       /\ Borne(bearer) /\ Extended(reqs)
       /\ e.type # "FORWARD" /\ e.about = a /\ requests[a].calls = 0 /\ a \in Sought
       /\ key = e.key /\ (key # NoKey => sender = e.sender) /\ key \in Keys \cup {NoKey}
       /\ sender \in Senders
  BY <1>1, <1>2, <1>3, <1>9, <1>10, <1>11, <1>12, <1>13, <1>20
<1>23. /\ Without(chan', a, bearer) /\ OnlyOld(chan')
       /\ \A i, j \in Nodes : \A f \in Elems(chan'[i][j]) : f.key # g
       /\ running[n] # Idle => Subject(running[n]) \in {a, NoRequest}
       /\ \A i \in Nodes : i # n => running'[i] = running[i] /\ bearer[a] # InRun(i)
       /\ \A q : bearer[a] # ForChild(q)
       /\ Taken(place, n, g) /\ Spared(g)
       /\ \A i \in Nodes : chains'[i] \subseteq chains[i]
  BY <1>11, <1>13, <1>15, <1>17, <1>21
<1>24. open' = open /\ requests' = Called(reqs, a)
  BY <1>20
<1> QED
  BY <1>16, <1>22, <1>23, <1>24, AnswerableCalled

\* An answer finds the entry that waits for it.
LEMMA AnswerableAnswered ==
  ASSUME NEW n \in Nodes, NEW m \in Nodes,
         JInv, IInv', Answerable, OnMsgResponse(n, m)
  PROVE  Answerable'
<1>1. PICK frame : frame = Head(chan[m][n])
  OBVIOUS
<1>2. Reads(n, m, frame) /\ frame.type = "MSG_RES" /\ open' = open
  BY <1>1 DEF OnMsgResponse, Received, Reads
<1>3. \E e \in chains[n] : e.id = frame.key
  <2>1. frame \in Elems(chan[m][n])
    BY <1>2, ReadAt DEF JInv, IInv, Reads
  <2>2. KeptFrame(m, n, frame)
    BY <2>1 DEF Answerable, AllKept
  <2> QED
    BY <1>2, <2>2 DEF KeptFrame, Held
<1>4. PICK e \in chains[n] :
        /\ e.id = frame.key
        /\ chains' = [chains EXCEPT ![n] = @ \ {e}]
        /\ OnAnswer(n, m, e) \/ OnForwardedAnswer(n, m, e)
  BY <1>1, <1>3 DEF OnMsgResponse
<1>5. TakesOut(n, e, frame)
  BY <1>2, <1>4 DEF TakesOut
<1>6. CASE OnAnswer(n, m, e)
  BY <1>2, <1>5, <1>6, AnswerableReceived
<1>7. CASE OnForwardedAnswer(n, m, e)
  BY <1>2, <1>5, <1>7, AnswerablePassedBack
<1> QED
  BY <1>4, <1>6, <1>7

\* At first nobody waits.
LEMMA AnswerableInit == Init => KInv
<1> SUFFICES ASSUME Init PROVE KInv
  OBVIOUS
<1>1. JInv
  BY PlacesInit
<1>2. /\ requests = <<>> /\ \A n, m \in Nodes : chan[n][m] = <<>>
      /\ \A n \in Nodes : chains[n] = {} /\ running[n] = Idle
      /\ \A n, m \in Nodes : open[n][m] <=> {n, m} \in Links
  BY DEF Init
<1>3. Elems(<<>>) = {} /\ Single(<<>>)
  BY DEF Elems, Single
<1>4. AllKept
  BY <1>2, <1>3 DEF AllKept
<1>5. Waiting = {} /\ Sought = {}
  <2>1. Len(requests) = 0
    BY <1>2
  <2> QED
    BY <2>1 DEF Waiting, Sought
<1>6. PICK bearer : bearer = [r \in Nat |-> Nowhere]
  OBVIOUS
<1>7. Borne(bearer)
  BY <1>2, <1>3, <1>5, <1>6 DEF Borne, FramesBorne, RunsBorne, ChildrenBorne, BearerOf
<1> QED
  BY <1>1, <1>4, <1>7 DEF KInv, Answerable

\* Every step that is not the failure of a link keeps one bearer for every request
\* that waits.
LEMMA AnswerableNext == KInv /\ [Next]_vars => KInv'
<1> SUFFICES ASSUME KInv, [Next]_vars PROVE KInv'
  OBVIOUS
<1>1. JInv /\ JInv' /\ IInv'
  BY PlacesNext DEF KInv, JInv
<1> SUFFICES ASSUME failures' = 0 PROVE Answerable'
  BY <1>1 DEF KInv
<1>2. failures \in Nat
  BY <1>1, BoundsAssumption DEF JInv, IInv, TypeOK
<1>3. ASSUME failures' = failures PROVE Answerable
  BY <1>3 DEF KInv
<1>4. ASSUME NEW n \in Clients, NEW x \in Nodes, NEW ask \in {Message, Methods}, Start(n, x, ask)
      PROVE  Answerable'
  <2>1. n \in Nodes
    BY ClientsAssumption
  <2>2. failures' = failures
    BY <1>4 DEF Start, RequestLocally, RequestUnknown, RequestRemotely
  <2> QED
    BY <1>1, <1>3, <1>4, <2>1, <2>2, AnswerableStart
<1>5. ASSUME NEW n \in Nodes, NEW x \in Nodes, Continue(n, x) PROVE Answerable'
  <2>1. failures' = failures
    BY <1>5 DEF Continue, RequestLocally, RequestUnknown, RequestRemotely
  <2> QED
    BY <1>1, <1>3, <1>5, <2>1, AnswerableContinue
<1>6. ASSUME NEW n \in Nodes, Return(n) PROVE Answerable'
  <2>1. /\ running[n] # Idle /\ Finished(n, requests) /\ failures' = failures /\ open' = open
    BY <1>6 DEF Return
  <2>2. Extended(requests)
    BY <1>1 DEF JInv, IInv, Extended, TypeOK, Request, L
  <2>3. PICK reqs : reqs = requests
    OBVIOUS
  <2>4. Extended(reqs) /\ Finished(n, reqs)
    BY <2>1, <2>2, <2>3
  <2> QED
    BY <1>1, <1>3, <2>1, <2>4, AnswerableFinished
<1>7. ASSUME NEW n \in Nodes, NEW m \in Nodes, OnMsgRequest(n, m) \/ OnMethodsRequest(n, m)
      PROVE  Answerable'
  <2>1. failures' = failures
    BY <1>7 DEF OnMsgRequest, OnMethodsRequest
  <2> QED
    BY <1>1, <1>3, <1>7, <2>1, AnswerableRequested
<1>8. ASSUME NEW n \in Nodes, NEW m \in Nodes, OnMsgResponse(n, m) PROVE Answerable'
  <2>1. failures' = failures
    BY <1>8 DEF OnMsgResponse
  <2> QED
    BY <1>1, <1>3, <1>8, <2>1, AnswerableAnswered
<1>9. ASSUME NEW n \in Nodes, NEW m \in Nodes PROVE ~OnClose(n, m)
  <2> SUFFICES ASSUME OnClose(n, m) PROVE FALSE
    OBVIOUS
  <2>1. Answerable /\ TypeOK /\ chan[m][n] # <<>> /\ Head(chan[m][n]).type = "CLOSE"
    BY <1>1, <1>3 DEF OnClose, Received, JInv, IInv
  <2>2. Head(chan[m][n]) \in Elems(chan[m][n])
    BY <2>1, ReadAt
  <2> QED
    BY <2>1, <2>2 DEF Answerable, AllKept, KeptFrame
<1>10. ASSUME NEW n \in Nodes, NEW m \in Nodes PROVE ~LinkFails(n, m)
  BY <1>2 DEF LinkFails
<1>11. CASE UNCHANGED vars
  <2>1. Answerable
    BY <1>3, <1>11 DEF vars
  <2>2. PICK bearer : Borne(bearer)
    BY <2>1 DEF Answerable
  <2>3. Waiting' = Waiting /\ Sought' = Sought
    BY <1>11 DEF vars, Waiting, Sought, Dropped
  <2>4. FramesBorne(chan', bearer) /\ RunsBorne(bearer)' /\ ChildrenBorne(bearer)'
    BY <1>11, <2>2, <2>3 DEF vars, Borne, FramesBorne, RunsBorne, ChildrenBorne, Subject
  <2>5. ASSUME NEW r \in Nat PROVE BearerOf(bearer[r], r)'
    BY <1>11, <2>2, <2>3
       DEF vars, Borne, BearerOf, Found, InFrame, InFunction, InChild, Subject
  <2>6. Borne(bearer)'
    BY <2>4, <2>5 DEF Borne
  <2>7. AllKept'
    <3>1. AllKept
      BY <2>1 DEF Answerable
    <3>2. \A n, m \in Nodes : open'[n][m] <=> {n, m} \in Links
      BY <1>11, <3>1 DEF vars, AllKept
    <3>3. \A n, m \in Nodes : \A f \in Elems(chan'[n][m]) : KeptFrame(n, m, f)'
      BY <1>11, <3>1 DEF vars, AllKept, KeptFrame, Held
    <3>4. \A n \in Nodes : \A e \in chains'[n] : KeptEntry(n, e)'
      BY <1>11, <3>1 DEF vars, AllKept, KeptEntry, Kept, Held, Live
    <3>5. \A n \in Nodes : running'[n] # Idle => KeptRun(n, running[n])'
      BY <1>11, <3>1 DEF vars, AllKept, KeptRun, Kept, Held, Subject
    <3> QED
      BY <3>2, <3>3, <3>4, <3>5 DEF AllKept
  <2> QED
    BY <2>6, <2>7 DEF Answerable
<1> QED
  BY <1>4, <1>5, <1>6, <1>7, <1>8, <1>9, <1>10, <1>11 DEF Next

\* The frames about r are those of the channel that bears it.
LEMMA FramesOfBearer ==
  ASSUME NEW r, NEW bearer, FramesBorne(chan, bearer)
  PROVE  /\ \A x \in FramesAbout(r) : \E n, m \in Nodes : \E i \in FramesAt(n, m, r) :
              x = <<n, m, i>> /\ bearer[r] = OnChan(n, m)
         /\ \A n, m \in Nodes : \A i \in FramesAt(n, m, r) : <<n, m, i>> \in FramesAbout(r)
         /\ \A n, m \in Nodes : \A i, j \in FramesAt(n, m, r) : i = j
<1>1. ASSUME NEW x \in FramesAbout(r)
      PROVE  \E n, m \in Nodes : \E i \in FramesAt(n, m, r) :
               x = <<n, m, i>> /\ bearer[r] = OnChan(n, m)
  <2>1. PICK n \in Nodes, m \in Nodes : x \in {n} \X {m} \X FramesAt(n, m, r)
    BY DEF FramesAbout
  <2>2. PICK i \in FramesAt(n, m, r) : x = <<n, m, i>>
    BY <2>1
  <2>3. chan[n][m][i] \in Elems(chan[n][m]) /\ chan[n][m][i].about = r
    BY <2>2 DEF FramesAt, Elems
  <2>4. bearer[r] = OnChan(n, m)
    BY <2>3 DEF FramesBorne
  <2> QED
    BY <2>2, <2>4
<1>2. ASSUME NEW n \in Nodes, NEW m \in Nodes, NEW i \in FramesAt(n, m, r)
      PROVE  <<n, m, i>> \in FramesAbout(r)
  <2>1. PICK S : S = {n} \X {m} \X FramesAt(n, m, r)
    OBVIOUS
  <2>2. S \in {{p} \X {q} \X FramesAt(p, q, r) : p, q \in Nodes}
    BY <2>1
  <2>3. <<n, m, i>> \in S
    BY <2>1
  <2> QED
    BY <2>2, <2>3 DEF FramesAbout
<1>3. ASSUME NEW n \in Nodes, NEW m \in Nodes, NEW i \in FramesAt(n, m, r),
             NEW j \in FramesAt(n, m, r)
      PROVE  i = j
  BY DEF FramesBorne, Single, FramesAt
<1> QED
  BY <1>1, <1>2, <1>3

\* What has a bearer has one thing that brings its answer.
LEMMA OneBearer ==
  ASSUME NEW r \in L, NEW bearer,
         TypeOK, Borne(bearer)
  PROVE  Cardinality(FramesAbout(r)) + Cardinality(RunsAbout(r)) + Cardinality(Children(r))
           = IF r \in Sought THEN 1 ELSE 0
<1>1. r \in Nat /\ r # NoRequest
  BY SoughtFacts
<1>2. BearerOf(bearer[r], r)
  BY <1>1 DEF Borne
<1>3. /\ \A x \in FramesAbout(r) : \E n, m \in Nodes : \E i \in FramesAt(n, m, r) :
              x = <<n, m, i>> /\ bearer[r] = OnChan(n, m)
      /\ \A n, m \in Nodes : \A i \in FramesAt(n, m, r) : <<n, m, i>> \in FramesAbout(r)
      /\ \A n, m \in Nodes : \A i, j \in FramesAt(n, m, r) : i = j
  BY FramesOfBearer DEF Borne
<1>4. \A n \in RunsAbout(r) : n \in Nodes /\ bearer[r] = InRun(n)
  BY <1>1 DEF RunsAbout, Borne, RunsBorne
<1>5. \A q \in Children(r) : bearer[r] = ForChild(q)
  BY <1>1 DEF Children, Borne, ChildrenBorne
<1>6. ASSUME \A n, m \in Nodes : bearer[r] # OnChan(n, m)
      PROVE  Cardinality(FramesAbout(r)) = 0
  <2>1. FramesAbout(r) = {}
    BY <1>3, <1>6
  <2> QED
    BY <2>1, FS_EmptySet
<1>7. ASSUME \A n \in Nodes : bearer[r] # InRun(n)
      PROVE  Cardinality(RunsAbout(r)) = 0
  <2>1. RunsAbout(r) = {}
    BY <1>4, <1>7
  <2> QED
    BY <2>1, FS_EmptySet
<1>8. ASSUME \A q : bearer[r] # ForChild(q)
      PROVE  Cardinality(Children(r)) = 0
  <2>1. Children(r) = {}
    BY <1>5, <1>8
  <2> QED
    BY <2>1, FS_EmptySet
<1>9. CASE r \notin Sought
  <2>1. bearer[r] = Nowhere
    BY <1>2, <1>9 DEF BearerOf
  <2>2. /\ Cardinality(FramesAbout(r)) = 0 /\ Cardinality(RunsAbout(r)) = 0
        /\ Cardinality(Children(r)) = 0
    BY <1>6, <1>7, <1>8, <2>1, PlacesDiffer, BearersDiffer
  <2> QED
    BY <1>9, <2>2
<1>10. CASE r \in Sought
  <2>1. Found(bearer[r], r)
    BY <1>2, <1>10 DEF BearerOf
  <2>2. CASE InFrame(chan, bearer[r], r)
    <3>1. PICK n \in Nodes, m \in Nodes :
            bearer[r] = OnChan(n, m) /\ \E f \in Elems(chan[n][m]) : f.about = r
      BY <2>2 DEF InFrame
    <3>2. PICK i \in 1 .. Len(chan[n][m]) : chan[n][m][i].about = r
      BY <3>1 DEF Elems
    <3>3. i \in FramesAt(n, m, r)
      BY <3>2 DEF FramesAt
    <3>4. FramesAbout(r) \subseteq {<<n, m, i>>}
      <4> SUFFICES ASSUME NEW x \in FramesAbout(r) PROVE x = <<n, m, i>>
        OBVIOUS
      <4>1. PICK p \in Nodes, q \in Nodes : \E j \in FramesAt(p, q, r) :
              x = <<p, q, j>> /\ bearer[r] = OnChan(p, q)
        BY <1>3
      <4>2. PICK j \in FramesAt(p, q, r) : x = <<p, q, j>> /\ bearer[r] = OnChan(p, q)
        BY <4>1
      <4>3. OnChan(p, q) = OnChan(n, m)
        BY <3>1, <4>2
      <4>4. p = n /\ q = m
        BY <4>3 DEF OnChan
      <4>5. j = i
        BY <1>3, <3>3, <4>2, <4>4
      <4> QED
        BY <4>2, <4>4, <4>5
    <3>5. FramesAbout(r) = {<<n, m, i>>}
      BY <1>3, <3>3, <3>4
    <3>6. Cardinality(FramesAbout(r)) = 1
      BY <3>5, FS_Singleton
    <3>7. Cardinality(RunsAbout(r)) = 0 /\ Cardinality(Children(r)) = 0
      BY <1>7, <1>8, <3>1, PlacesDiffer, BearersDiffer
    <3> QED
      BY <1>10, <3>6, <3>7
  <2>3. CASE InFunction(bearer[r], r)
    <3>1. PICK n \in Nodes : bearer[r] = InRun(n) /\ running[n] # Idle /\ Subject(running[n]) = r
      BY <2>3 DEF InFunction
    <3>2. n \in RunsAbout(r)
      BY <3>1 DEF RunsAbout
    <3>3. \A p \in RunsAbout(r) : p = n
      BY <1>4, <3>1, PlacesDiffer
    <3>4. RunsAbout(r) = {n}
      BY <3>2, <3>3
    <3>5. Cardinality(RunsAbout(r)) = 1
      BY <3>4, FS_Singleton
    <3>6. Cardinality(FramesAbout(r)) = 0 /\ Cardinality(Children(r)) = 0
      BY <1>6, <1>8, <3>1, PlacesDiffer, BearersDiffer
    <3> QED
      BY <1>10, <3>5, <3>6
  <2>4. CASE InChild(bearer[r], r)
    <3>1. PICK q \in Waiting : bearer[r] = ForChild(q) /\ requests[q].parent = r
      BY <2>4 DEF InChild
    <3>2. q \in Children(r)
      BY <3>1 DEF Children
    <3>3. \A p \in Children(r) : p = q
      BY <1>5, <3>1, BearersDiffer
    <3>4. Children(r) = {q}
      BY <3>2, <3>3
    <3>5. Cardinality(Children(r)) = 1
      BY <3>4, FS_Singleton
    <3>6. Cardinality(FramesAbout(r)) = 0 /\ Cardinality(RunsAbout(r)) = 0
      BY <1>6, <1>7, <3>1, PlacesDiffer, BearersDiffer
    <3> QED
      BY <1>10, <3>5, <3>6
  <2> QED
    BY <2>1, <2>2, <2>3, <2>4 DEF Found
<1> QED
  BY <1>9, <1>10

\* As long as no link fails, exactly one frame, function or request will bring the
\* answer of a request that waits, and none that of one that is over: whatever is
\* forwarded, refused, continued or answered (qbus_route_on_msg_request,
\* qbus_route_on_msg_forward and qbus_route_on_msg_response).
THEOREM AnswerCorrect == Spec => []OneAnswerToCome
<1>1. Init => KInv
  BY AnswerableInit
<1>2. KInv /\ [Next]_vars => KInv'
  BY AnswerableNext
<1>3. KInv => OneAnswerToCome
  <2> SUFFICES ASSUME KInv, failures = 0, NEW r \in L
               PROVE  Cardinality(FramesAbout(r)) + Cardinality(RunsAbout(r))
                        + Cardinality(Children(r)) = IF r \in Waiting \ Dropped THEN 1 ELSE 0
    BY DEF OneAnswerToCome, L
  <2>1. TypeOK /\ \E bearer : Borne(bearer)
    BY DEF KInv, JInv, IInv, Answerable
  <2>2. PICK bearer : Borne(bearer)
    BY <2>1
  <2> QED
    BY <2>1, <2>2, OneBearer DEF Sought
<1> QED
  BY <1>1, <1>2, <1>3, PTL DEF Spec

=============================================================================
