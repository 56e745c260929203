---------------------------- MODULE ProviderProofs ----------------------------
(***************************************************************************)
(* Proofs about the life of a process on the bus: a running process has one    *)
(* way to each of its remotes, and its route knows the connections whose       *)
(* socket is registered - for all processes, remotes and numbers of links,     *)
(* restarts and breaks.                                                      *)
(*                                                                         *)
(* The argument: what is in the list of handles says where the process is with *)
(* a remote - a socket whose link it has dialled, a timer, or nothing -, and   *)
(* the two ends of a link agree on who dials whom for as long as one of them   *)
(* holds it.                                                                 *)
(***************************************************************************)
EXTENDS Provider, SequenceTheorems, FiniteSetTheorems, TLAPS

Elems(s) == {s[i] : i \in 1 .. Len(s)}
Distinct(s) == \A i, k \in 1 .. Len(s) : s[i] = s[k] => i = k

Lists == [Nodes -> Seq(Handles)]
Phases == {"down", "init", "loop", "closing", "route", "engines"}

Calls(n, m) == {l \in listed[n] : ends[l] = <<n, m>>}
HasTimer(n, m) == Timer(m) \in Elems(events[n])

\* The handles of a process are different, its sockets are those of its links.
HandlesInv(n) ==
  /\ Distinct(events[n])
  /\ \A l \in Links : l \in listed[n] <=> Socket(l) \in Elems(events[n])
  /\ routed[n] = listed[n]

\* What the place of a process says of its lists.
PhaseInv(n) ==
  /\ phase[n] \in {"down", "route", "engines"} => events[n] = <<>>
  /\ phase[n] \in {"down", "init"} => lost[n] = {}
  /\ efd[n] <=> phase[n] \in {"init", "loop"}
  /\ locked[n] <=> phase[n] = "closing"
  /\ phase[n] = "loop" => todo[n] = <<>>
  /\ Signals \in Elems(events[n]) => phase[n] \in {"loop", "closing"}
  /\ phase[n] = "init" /\ Acceptor \in Elems(events[n]) => n \notin Elems(todo[n])
  /\ phase[n] = "init" => \A m \in Elems(todo[n]) : m = n \/ <<n, m>> \in Remotes

\* There is one way to a remote that was dialled and is not lost, none to others.
OneWay(n, m) ==
  /\ \A l, k \in Calls(n, m) : l = k
  /\ HasTimer(n, m) => <<n, m>> \in Remotes /\ Calls(n, m) = {}
  /\ phase[n] \in {"init", "loop"} /\ <<n, m>> \in Remotes =>
       (HasTimer(n, m) \/ Calls(n, m) # {} <=> m \notin Elems(todo[n]) /\ m \notin lost[n])

WaysInv(n) == Distinct(todo[n]) /\ \A m \in Nodes : OneWay(n, m)

\* A link is held by one of its ends at least, and by the one that dials while
\* it is not accepted.
LinkInv(l) ==
  /\ ends[l] = NoLink <=> wire[l] = "none"
  /\ wire[l] = "none" <=> \A n \in Nodes : l \notin listed[n]
  /\ wire[l] = "calling" => l \notin listed[ends[l][2]]
  /\ \A n \in Nodes : l \in listed[n] => n \in {ends[l][1], ends[l][2]}

NodeInv(n) == HandlesInv(n) /\ PhaseInv(n) /\ WaysInv(n)

IInv ==
  /\ TypeOK /\ ~misused
  /\ \A n \in Nodes : NodeInv(n)
  /\ \A l \in Links : LinkInv(l)

-----------------------------------------------------------------------------
\* Lists.

LEMMA EmptyList == Elems(<<>>) = {} /\ Distinct(<<>>)
  BY DEF Elems, Distinct

\* What is left of a list of different things when its first is taken.
LEMMA TakeFirst ==
  ASSUME NEW S, NEW s, s \in Seq(S), s # <<>>, Distinct(s)
  PROVE  /\ Head(s) \in Elems(s) /\ Head(s) \in S /\ Tail(s) \in Seq(S)
         /\ Distinct(Tail(s)) /\ Elems(Tail(s)) = Elems(s) \ {Head(s)}
  <1>1. /\ Len(s) \in Nat /\ Len(s) > 0 /\ Head(s) = s[1]
        /\ Tail(s) \in Seq(S) /\ Len(Tail(s)) = Len(s) - 1
        /\ \A i \in 1 .. Len(s) - 1 : Tail(s)[i] = s[i + 1]
    OBVIOUS
  <1>2. Head(s) \in Elems(s) /\ Head(s) \in S
    BY <1>1 DEF Elems
  <1>3. Distinct(Tail(s))
    BY <1>1 DEF Distinct
  <1>4. Elems(Tail(s)) = Elems(s) \ {Head(s)}
    <2>1. ASSUME NEW j, j \in Elems(Tail(s)) PROVE j \in Elems(s) \ {Head(s)}
      <3>1. PICK i \in 1 .. Len(Tail(s)) : Tail(s)[i] = j
        BY <2>1 DEF Elems
      <3>2. i + 1 \in 1 .. Len(s) /\ s[i + 1] = j /\ 1 \in 1 .. Len(s) /\ i + 1 # 1
        BY <1>1, <3>1
      <3> QED
        BY <1>1, <3>2 DEF Elems, Distinct
    <2>2. ASSUME NEW j, j \in Elems(s) \ {Head(s)} PROVE j \in Elems(Tail(s))
      <3>1. PICK i \in 1 .. Len(s) : s[i] = j
        BY <2>2 DEF Elems
      <3>2. i - 1 \in 1 .. Len(Tail(s)) /\ Tail(s)[i - 1] = j
        BY <1>1, <2>2, <3>1
      <3> QED
        BY <3>2 DEF Elems
    <2> QED
      BY <2>1, <2>2
  <1> QED
    BY <1>1, <1>2, <1>3, <1>4

\* What is left of it when something is taken out.
LEMMA TakeOut ==
  ASSUME NEW S, NEW s, NEW h, s \in Seq(S), Distinct(s), h \in Elems(s)
  PROVE  /\ Without(s, h) \in Seq(S) /\ Distinct(Without(s, h))
         /\ Elems(Without(s, h)) = Elems(s) \ {h}
  <1>1. PICK i : i = CHOOSE k \in DOMAIN s : s[k] = h
    OBVIOUS
  <1>2. i \in 1 .. Len(s) /\ s[i] = h /\ Len(s) \in Nat
    BY <1>1 DEF Elems
  <1>3. PICK t : t = Without(s, h)
    OBVIOUS
  <1>4. PICK a, b : a = SubSeq(s, 1, i - 1) /\ b = SubSeq(s, i + 1, Len(s))
    OBVIOUS
  <1>5. t = a \o b
    BY <1>1, <1>3, <1>4 DEF Without, RemoveAt
  <1>6. /\ a \in Seq(S) /\ Len(a) = i - 1 /\ \A k \in 1 .. i - 1 : a[k] = s[k]
        /\ b \in Seq(S) /\ Len(b) = Len(s) - i /\ \A k \in 1 .. Len(s) - i : b[k] = s[i + k]
    BY <1>2, <1>4
  <1>7. /\ t \in Seq(S) /\ Len(t) = Len(s) - 1
        /\ \A k \in 1 .. Len(t) : t[k] = IF k < i THEN s[k] ELSE s[k + 1]
    <2>1. /\ t \in Seq(S) /\ Len(t) = Len(a) + Len(b)
          /\ \A k \in 1 .. Len(t) : t[k] = IF k <= Len(a) THEN a[k] ELSE b[k - Len(a)]
      <3>1. a \in Seq(S) /\ b \in Seq(S)
        BY <1>6
      <3>2. a \o b \in Seq(S) /\ Len(a \o b) = Len(a) + Len(b) /\ Len(a) \in Nat /\ Len(b) \in Nat
        BY <3>1
      <3>3. \A k \in 1 .. Len(a) + Len(b) : (a \o b)[k] = IF k <= Len(a) THEN a[k] ELSE b[k - Len(a)]
        BY <3>1, <3>2
      <3> QED
        BY <1>5, <3>2, <3>3
    <2>2. ASSUME NEW k, k \in 1 .. Len(t) PROVE t[k] = IF k < i THEN s[k] ELSE s[k + 1]
      <3>1. CASE k < i
        BY <1>2, <1>6, <2>1, <2>2, <3>1
      <3>2. CASE ~(k < i)
        <4>1. k - (i - 1) \in 1 .. Len(s) - i /\ i + (k - (i - 1)) = k + 1
          BY <1>2, <1>6, <2>1, <2>2, <3>2
        <4> QED
          BY <1>2, <1>6, <2>1, <2>2, <3>2, <4>1
      <3> QED
        BY <3>1, <3>2
    <2>3. Len(t) = Len(s) - 1
      BY <1>2, <1>6, <2>1
    <2> QED
      BY <2>1, <2>2, <2>3
  <1>8. Distinct(t)
    BY <1>2, <1>7 DEF Distinct
  <1>9. Elems(t) = Elems(s) \ {h}
    <2>1. ASSUME NEW j, j \in Elems(t) PROVE j \in Elems(s) \ {h}
      <3>1. PICK k \in 1 .. Len(t) : t[k] = j
        BY <2>1 DEF Elems
      <3>2. PICK k2 \in 1 .. Len(s) : s[k2] = j /\ k2 # i
        BY <1>2, <1>7, <3>1
      <3> QED
        BY <1>2, <3>2 DEF Elems, Distinct
    <2>2. ASSUME NEW j, j \in Elems(s) \ {h} PROVE j \in Elems(t)
      <3>1. PICK k \in 1 .. Len(s) : s[k] = j /\ k # i
        BY <1>2, <2>2 DEF Elems
      <3>2. CASE k < i
        BY <1>2, <1>7, <3>1, <3>2 DEF Elems
      <3>3. CASE k > i
        <4>1. k - 1 \in 1 .. Len(t) /\ t[k - 1] = j
          BY <1>2, <1>7, <3>1, <3>3
        <4> QED
          BY <4>1 DEF Elems
      <3> QED
        BY <1>2, <3>1, <3>2, <3>3
    <2> QED
      BY <2>1, <2>2
  <1> QED
    BY <1>3, <1>7, <1>8, <1>9

\* A list of different things to which another is appended.
LEMMA PutLast ==
  ASSUME NEW S, NEW s, NEW h, s \in Seq(S), h \in S, Distinct(s), h \notin Elems(s)
  PROVE  /\ Append(s, h) \in Seq(S) /\ Distinct(Append(s, h))
         /\ Elems(Append(s, h)) = Elems(s) \cup {h}
  <1>1. /\ Len(s) \in Nat /\ Append(s, h) \in Seq(S) /\ Len(Append(s, h)) = Len(s) + 1
        /\ \A i \in 1 .. Len(s) : Append(s, h)[i] = s[i]
        /\ Append(s, h)[Len(s) + 1] = h
    OBVIOUS
  <1>2. Elems(Append(s, h)) = Elems(s) \cup {h}
    BY <1>1 DEF Elems
  <1>3. Distinct(Append(s, h))
    BY <1>1 DEF Distinct, Elems
  <1> QED
    BY <1>1, <1>2, <1>3

\* The handles of a process can be told apart.
LEMMA HandleKinds ==
  /\ Acceptor # Signals
  /\ \A l : Socket(l) # Acceptor /\ Socket(l) # Signals
  /\ \A m : Timer(m) # Acceptor /\ Timer(m) # Signals
  /\ \A l, m : Socket(l) # Timer(m)
  /\ \A l, k : Socket(l) = Socket(k) => l = k
  /\ \A m, k : Timer(m) = Timer(k) => m = k
  BY DEF Acceptor, Signals, Socket, Timer

LEMMA HandleTypes ==
  /\ Acceptor \in Handles /\ Signals \in Handles
  /\ \A l \in Links : Socket(l) \in Handles
  /\ \A m \in Nodes : Timer(m) \in Handles
  BY DEF Handles

\* A process has a handle when it is in its list.
LEMMA HasIsElem ==
  ASSUME NEW n, NEW h
  PROVE  Has(n, h) <=> h \in Elems(events[n])
  BY DEF Has, Contains, Elems

\* A remote is a pair of two processes.
LEMMA RemotePairs ==
  ASSUME NEW r, r \in Remotes
  PROVE  r = <<r[1], r[2]>> /\ r[1] \in Nodes /\ r[2] \in Nodes /\ r[1] # r[2] /\ r # NoLink
  BY NodesAssumption

-----------------------------------------------------------------------------
\* The ports of a process: itself, when others dial it, and each of its remotes,
\* once.

\* A finite set in some order.
LEMMA InOrder ==
  ASSUME NEW S, IsFiniteSet(S)
  PROVE  SetToSeq(S) \in Seq(S) /\ Distinct(SetToSeq(S)) /\ Elems(SetToSeq(S)) = S
  <1>1. PICK c : c = Cardinality(S)
    OBVIOUS
  <1>2. c \in Nat /\ ExistsBijection(1 .. c, S)
    BY <1>1, FS_CardinalityType
  <1>3. \E f \in [1 .. c -> S] : IsInjective(f)
    BY <1>2 DEF ExistsBijection, Bijection, Injection, IsInjective
  <1>4. PICK f : f = SetToSeq(S)
    OBVIOUS
  <1>5. f \in [1 .. c -> S] /\ IsInjective(f)
    BY <1>1, <1>3, <1>4 DEF SetToSeq
  <1>6. f \in Seq(S) /\ Len(f) = c
    BY <1>2, <1>5
  <1>7. f \in Injection(1 .. c, S)
    BY <1>5 DEF IsInjective, Injection
  <1>8. Cardinality(1 .. c) = Cardinality(S)
    BY <1>1, <1>2, FS_Interval
  <1>9. f \in Surjection(1 .. c, S)
    BY <1>7, <1>8, FS_Injection
  <1>10. Elems(f) = S
    BY <1>5, <1>6, <1>9 DEF Elems, Surjection
  <1>11. Distinct(f)
    BY <1>5, <1>6 DEF Distinct, IsInjective
  <1> QED
    BY <1>4, <1>6, <1>10, <1>11

LEMMA PortsOnce ==
  ASSUME NEW n, n \in Nodes
  PROVE  /\ Ports(n) \in Seq(Nodes) /\ Distinct(Ports(n))
         /\ \A m \in Elems(Ports(n)) : m = n \/ <<n, m>> \in Remotes
         /\ \A m \in Nodes : <<n, m>> \in Remotes => m \in Elems(Ports(n))
  <1>1. PICK R : R = {m \in Nodes : <<n, m>> \in Remotes}
    OBVIOUS
  <1>2. PICK A : A = {r \in Remotes : r[1] = n}
    OBVIOUS
  <1>3. IsFiniteSet(A)
    BY <1>2, NodesAssumption, FS_Subset
  <1>4. IsFiniteSet(R)
    <2>1. PICK f : f = [r \in A |-> r[2]]
      OBVIOUS
    <2>2. f \in Surjection(A, R)
      <3>1. ASSUME NEW r, r \in A PROVE r[2] \in R
        BY <1>1, <1>2, <3>1, RemotePairs
      <3>2. ASSUME NEW m, m \in R PROVE \E r \in A : f[r] = m
        <4>1. <<n, m>> \in A /\ <<n, m>>[2] = m
          BY <1>1, <1>2, <3>2
        <4> QED
          BY <2>1, <4>1
      <3> QED
        BY <2>1, <3>1, <3>2 DEF Surjection
    <2> QED
      BY <1>3, <2>2, FS_Surjection
  <1>5. PICK q : q = SetToSeq(R)
    OBVIOUS
  <1>6. q \in Seq(R) /\ Distinct(q) /\ Elems(q) = R /\ R \subseteq Nodes /\ n \notin R
    BY <1>1, <1>4, <1>5, InOrder, RemotePairs
  <1>7. q \in Seq(Nodes)
    BY <1>6
  <1>8. CASE n \notin Listeners
    <2>1. Ports(n) = q
      BY <1>1, <1>5, <1>7, <1>8 DEF Ports
    <2> QED
      BY <1>1, <1>6, <1>7, <2>1
  <1>9. CASE n \in Listeners
    <2>1. Ports(n) = <<n>> \o q
      BY <1>1, <1>5, <1>9 DEF Ports
    <2>2. PICK p : p = Ports(n)
      OBVIOUS
    <2>3. /\ p \in Seq(Nodes) /\ Len(p) = Len(q) + 1 /\ Len(q) \in Nat /\ p[1] = n
          /\ \A i \in 1 .. Len(q) : p[i + 1] = q[i]
      BY <1>7, <2>1, <2>2
    <2>4. ASSUME NEW i \in 2 .. Len(p) PROVE p[i] = q[i - 1] /\ i - 1 \in 1 .. Len(q)
      <3>1. i - 1 \in 1 .. Len(q) /\ (i - 1) + 1 = i
        BY <2>3
      <3> QED
        BY <2>3, <3>1
    <2>5. \A i \in 1 .. Len(p) : i = 1 \/ i \in 2 .. Len(p)
      BY <2>3
    <2>6. \A i \in 1 .. Len(q) : q[i] \in R
      BY <1>6
    <2>7. Distinct(p)
      <3>1. \A a, b \in 1 .. Len(q) : q[a] = q[b] => a = b
        BY <1>6 DEF Distinct
      <3>2. \A i \in 2 .. Len(p) : p[i] # n
        BY <1>6, <2>4, <2>6
      <3>3. ASSUME NEW i \in 1 .. Len(p), NEW j \in 1 .. Len(p), p[i] = p[j] PROVE i = j
        <4>1. CASE i = 1 \/ j = 1
          BY <2>3, <2>5, <3>2, <3>3, <4>1
        <4>2. CASE i \in 2 .. Len(p) /\ j \in 2 .. Len(p)
          <5>1. i - 1 = j - 1
            BY <2>4, <3>1, <3>3, <4>2
          <5> QED
            BY <4>2, <5>1
        <4> QED
          BY <2>5, <4>1, <4>2
      <3> QED
        BY <3>3 DEF Distinct
    <2>8. Elems(p) = {n} \cup R
      <3>1. ASSUME NEW m, m \in R PROVE m \in Elems(p)
        <4>1. PICK i \in 1 .. Len(q) : q[i] = m
          BY <1>6, <3>1 DEF Elems
        <4>2. i + 1 \in 1 .. Len(p) /\ p[i + 1] = m
          BY <2>3, <4>1
        <4> QED
          BY <4>2 DEF Elems
      <3>2. n \in Elems(p)
        BY <2>3 DEF Elems
      <3>3. \A i \in 1 .. Len(p) : p[i] = n \/ p[i] \in R
        BY <2>3, <2>4, <2>5, <2>6
      <3>4. ASSUME NEW m, m \in Elems(p) PROVE m = n \/ m \in R
        BY <3>3, <3>4 DEF Elems
      <3> QED
        BY <3>1, <3>2, <3>4
    <2> QED
      BY <1>1, <2>2, <2>3, <2>7, <2>8
  <1> QED
    BY <1>8, <1>9

-----------------------------------------------------------------------------
\* What an action leaves alone.

Same(b) ==
  /\ phase'[b] = phase[b] /\ todo'[b] = todo[b] /\ efd'[b] = efd[b] /\ locked'[b] = locked[b]
  /\ events'[b] = events[b] /\ listed'[b] = listed[b] /\ routed'[b] = routed[b]
  /\ lost'[b] = lost[b]

LEMMA NodeKept ==
  ASSUME NEW b, NodeInv(b), Same(b), \A l \in listed[b] : ends'[l] = ends[l]
  PROVE  NodeInv(b)'
  <1>1. \A m : Calls(b, m)' = Calls(b, m)
    BY DEF Calls, Same
  <1>2. \A m : HasTimer(b, m)' <=> HasTimer(b, m)
    BY DEF HasTimer, Same
  <1>3. HandlesInv(b)'
    BY DEF NodeInv, HandlesInv, Same
  <1>4. PhaseInv(b)'
    BY DEF NodeInv, PhaseInv, Same
  <1>5. ASSUME NEW m, OneWay(b, m) PROVE OneWay(b, m)'
    BY <1>1, <1>2, <1>5 DEF OneWay, Same
  <1>6. WaysInv(b)'
    BY <1>5 DEF NodeInv, WaysInv, Same
  <1> QED
    BY <1>3, <1>4, <1>6 DEF NodeInv

LEMMA LinkKept ==
  ASSUME NEW l, l \in Links, TypeOK, LinkInv(l), wire'[l] = wire[l], ends'[l] = ends[l],
         \A n \in Nodes : l \in listed'[n] <=> l \in listed[n]
  PROVE  LinkInv(l)'
  <1>1. wire[l] = "calling" => ends[l][2] \in Nodes
    BY RemotePairs DEF LinkInv, TypeOK
  <1> QED
    BY <1>1 DEF LinkInv

\* What is added to the list of a process whose context is open, and to one
\* whose context is being closed.
LEMMA AddedOpen ==
  ASSUME NEW n, NEW s, NEW h, n \in Nodes, TypeOK, efd[n] = TRUE,
         s \in Seq(Handles), h \in Handles, Distinct(s), h \notin Elems(s), Added(n, s, h)
  PROVE  /\ events' \in [Nodes -> Seq(Handles)]
         /\ Distinct(events'[n]) /\ Elems(events'[n]) = Elems(s) \cup {h}
         /\ \A b \in Nodes : b # n => events'[b] = events[b]
  <1>1. PICK t : t = Append(s, h)
    OBVIOUS
  <1>2. t \in Seq(Handles) /\ Distinct(t) /\ Elems(t) = Elems(s) \cup {h}
    BY <1>1, PutLast
  <1>3. events' = [events EXCEPT ![n] = t] /\ events \in [Nodes -> Seq(Handles)]
    BY <1>1 DEF Added, TypeOK
  <1> QED
    BY <1>2, <1>3

LEMMA SetEvents ==
  ASSUME NEW n, NEW s, n \in Nodes, TypeOK, s \in Seq(Handles),
         events' = [events EXCEPT ![n] = s]
  PROVE  /\ events' \in [Nodes -> Seq(Handles)] /\ events'[n] = s
         /\ \A b \in Nodes : b # n => events'[b] = events[b]
  BY DEF TypeOK

\* Signals and acceptors are no way to a remote.
LEMMA OtherHandle ==
  ASSUME NEW n, NEW h, HandlesInv(n), WaysInv(n), h \in {Acceptor, Signals},
         Distinct(events'[n]), Elems(events'[n]) = Elems(events[n]) \cup {h}
                              \/ Elems(events'[n]) = Elems(events[n]) \ {h},
         listed'[n] = listed[n], routed'[n] = routed[n]
  PROVE  /\ HandlesInv(n)'
         /\ \A m : HasTimer(n, m)' <=> HasTimer(n, m)
  <1>1. \A m : Timer(m) # h
    BY HandleKinds
  <1>2. \A l : Socket(l) # h
    BY HandleKinds
  <1>3. \A m : Timer(m) \in Elems(events'[n]) <=> Timer(m) \in Elems(events[n])
    BY <1>1
  <1>4. \A l : Socket(l) \in Elems(events'[n]) <=> Socket(l) \in Elems(events[n])
    BY <1>2
  <1> QED
    BY <1>3, <1>4 DEF HandlesInv, HasTimer

\* An action that changes the lists of links of no process, and no link.
LEMMA LinksKept ==
  ASSUME \A l \in Links : LinkInv(l), UNCHANGED <<listed, ends, wire>>
  PROVE  \A l \in Links : LinkInv(l)'
  BY DEF LinkInv

-----------------------------------------------------------------------------
\* qbus_init.

LEMMA InitInv == Init => IInv
  <1> SUFFICES ASSUME Init PROVE IInv
    OBVIOUS
  <1>1. TypeOK
    <2>1. todo \in [Nodes -> Seq(Nodes)] /\ events \in [Nodes -> Seq(Handles)]
      BY DEF Init
    <2>2. /\ listed \in [Nodes -> SUBSET Links] /\ routed \in [Nodes -> SUBSET Links]
          /\ lost \in [Nodes -> SUBSET Nodes]
      BY DEF Init
    <2>3. efd \in [Nodes -> BOOLEAN] /\ locked \in [Nodes -> BOOLEAN] /\ misused \in BOOLEAN
      BY Zenon DEF Init
    <2>4. /\ phase \in [Nodes -> {"down", "init", "loop", "closing", "route", "engines"}]
          /\ ends \in [Links -> Remotes \union {NoLink}]
          /\ wire \in [Links -> {"none", "calling", "up", "broken"}]
      BY DEF Init
    <2>5. starts \in [Nodes -> 0..MaxStarts] /\ breaks \in 0..MaxBreaks
      BY BoundsAssumption DEF Init
    <2> QED
      BY <2>1, <2>2, <2>3, <2>4, <2>5 DEF TypeOK
  <1>2. ASSUME NEW n, n \in Nodes PROVE NodeInv(n)
    <2>1. /\ events[n] = <<>> /\ listed[n] = {} /\ routed[n] = {} /\ lost[n] = {}
          /\ phase[n] = "down" /\ todo[n] = <<>> /\ efd[n] = FALSE /\ locked[n] = FALSE
      BY <1>2 DEF Init
    <2>2. HandlesInv(n)
      BY <2>1, EmptyList DEF HandlesInv
    <2>3. PhaseInv(n)
      BY <2>1, EmptyList DEF PhaseInv
    <2>4. WaysInv(n)
      BY <2>1, EmptyList DEF WaysInv, OneWay, HasTimer, Calls
    <2> QED
      BY <2>2, <2>3, <2>4 DEF NodeInv
  <1>3. ASSUME NEW l, l \in Links PROVE LinkInv(l)
    BY <1>3 DEF LinkInv, Init
  <1> QED
    BY <1>1, <1>2, <1>3 DEF IInv, Init

LEMMA StartInv ==
  ASSUME NEW n, n \in Nodes, IInv, Start(n)
  PROVE  IInv'
  <1> USE DEF IInv
  <1>1. PICK p : p = Ports(n)
    OBVIOUS
  <1>2. /\ p \in Seq(Nodes) /\ Distinct(p)
        /\ \A m \in Elems(p) : m = n \/ <<n, m>> \in Remotes
        /\ \A m \in Nodes : <<n, m>> \in Remotes => m \in Elems(p)
    BY <1>1, PortsOnce
  <1>3. /\ phase[n] = "down" /\ phase' = [phase EXCEPT ![n] = "init"]
        /\ todo' = [todo EXCEPT ![n] = p] /\ efd' = [efd EXCEPT ![n] = TRUE]
        /\ UNCHANGED <<locked, events, listed, routed, lost, ends, wire, breaks, misused>>
    BY <1>1 DEF Start, net
  <1>4. TypeOK'
    <2>1. starts' \in [Nodes -> 0..MaxStarts]
      BY BoundsAssumption DEF Start, TypeOK
    <2>2. efd' \in [Nodes -> BOOLEAN]
      BY <1>3 DEF TypeOK
    <2>3. phase' \in [Nodes -> Phases] /\ todo' \in [Nodes -> Seq(Nodes)]
      BY <1>2, <1>3 DEF TypeOK, Phases
    <2> QED
      BY <1>3, <2>1, <2>2, <2>3 DEF TypeOK, Phases
  <1>5. ASSUME NEW b, b \in Nodes, b # n PROVE NodeInv(b)'
    <2>1. Same(b)
      BY <1>3, <1>5 DEF Same, TypeOK
    <2> QED
      BY <1>3, <1>5, <2>1, NodeKept
  <1>6. NodeInv(n)'
    <2>1. /\ phase'[n] = "init" /\ todo'[n] = p /\ efd'[n] = TRUE /\ locked'[n] = locked[n]
          /\ events'[n] = <<>> /\ Elems(<<>>) = {} /\ lost'[n] = {}
      BY <1>3, EmptyList DEF TypeOK, NodeInv, PhaseInv
    <2>2. listed'[n] = {}
      BY <1>3, <2>1 DEF NodeInv, HandlesInv, TypeOK
    <2>3. HandlesInv(n)'
      BY <1>3 DEF NodeInv, HandlesInv
    <2>4. PhaseInv(n)'
      BY <1>2, <1>3, <2>1 DEF NodeInv, PhaseInv
    <2>5. ASSUME NEW m, m \in Nodes PROVE OneWay(n, m)'
      <3>1. Calls(n, m)' = {} /\ ~HasTimer(n, m)'
        BY <2>1, <2>2 DEF Calls, HasTimer
      <3> QED
        BY <1>2, <2>1, <2>5, <3>1 DEF OneWay
    <2> QED
      BY <1>2, <2>1, <2>3, <2>4, <2>5 DEF NodeInv, WaysInv
  <1> QED
    BY <1>3, <1>4, <1>5, <1>6, LinksKept

LEMMA ListenInv ==
  ASSUME NEW n, n \in Nodes, IInv, Listen(n)
  PROVE  IInv'
  <1> USE DEF IInv
  <1>1. /\ phase[n] = "init" /\ todo[n] # <<>> /\ Head(todo[n]) = n /\ todo[n] \in Seq(Nodes)
        /\ todo' = [todo EXCEPT ![n] = Tail(todo[n])]
        /\ UNCHANGED <<phase, efd, locked, listed, routed, lost, ends, wire, starts, breaks, misused>>
    BY DEF Listen, Opening, PortOpened, net, bounds, TypeOK
  <1>2. PICK t : t = Tail(todo[n])
    OBVIOUS
  <1>3. /\ n \in Elems(todo[n]) /\ t \in Seq(Nodes) /\ Distinct(t)
        /\ Elems(t) = Elems(todo[n]) \ {n}
    BY <1>1, <1>2, TakeFirst DEF NodeInv, WaysInv
  <1>4. efd[n] = TRUE /\ Acceptor \notin Elems(events[n]) /\ Distinct(events[n])
    BY <1>1, <1>3 DEF NodeInv, PhaseInv, HandlesInv, TypeOK
  <1>5. /\ events' \in [Nodes -> Seq(Handles)]
        /\ Distinct(events'[n]) /\ Elems(events'[n]) = Elems(events[n]) \cup {Acceptor}
        /\ \A b \in Nodes : b # n => events'[b] = events[b]
    <2>1. events[n] \in Seq(Handles)
      BY DEF TypeOK
    <2> QED
      BY <1>4, <2>1, AddedOpen, HandleTypes DEF Listen
  <1>6. TypeOK'
    BY <1>1, <1>2, <1>3, <1>5 DEF TypeOK
  <1>7. ASSUME NEW b, b \in Nodes, b # n PROVE NodeInv(b)'
    <2>1. Same(b)
      BY <1>1, <1>5, <1>7 DEF Same, TypeOK
    <2> QED
      BY <1>1, <1>7, <2>1, NodeKept
  <1>8. NodeInv(n)'
    <2>1. HandlesInv(n)' /\ \A m : HasTimer(n, m)' <=> HasTimer(n, m)
      BY <1>1, <1>5, OtherHandle DEF NodeInv
    <2>2. todo'[n] = t
      BY <1>1, <1>2 DEF TypeOK
    <2>3. PhaseInv(n)'
      <3>1. Signals \in Elems(events'[n]) <=> Signals \in Elems(events[n])
        BY <1>5, HandleKinds
      <3> QED
        BY <1>1, <1>3, <2>2, <3>1 DEF NodeInv, PhaseInv
    <2>4. ASSUME NEW m, m \in Nodes PROVE OneWay(n, m)'
      <3>1. <<n, m>> \in Remotes => m # n
        BY <2>4, RemotePairs
      <3>2. Calls(n, m)' = Calls(n, m)
        BY <1>1 DEF Calls
      <3>3. OneWay(n, m)
        BY <2>4 DEF NodeInv, WaysInv
      <3> QED
        BY <1>1, <1>3, <2>1, <2>2, <3>1, <3>2, <3>3 DEF OneWay
    <2> QED
      BY <1>3, <2>1, <2>2, <2>3, <2>4 DEF NodeInv, WaysInv
  <1> QED
    BY <1>1, <1>6, <1>7, <1>8, LinksKept

LEMMA WaitInv ==
  ASSUME NEW n, n \in Nodes, IInv, Wait(n)
  PROVE  IInv'
  <1> USE DEF IInv
  <1>1. /\ phase[n] = "init" /\ todo[n] = <<>> /\ phase' = [phase EXCEPT ![n] = "loop"]
        /\ UNCHANGED <<todo, efd, locked, listed, routed, lost, ends, wire, starts, breaks, misused>>
    BY DEF Wait, net, bounds
  <1>2. efd[n] = TRUE /\ Signals \notin Elems(events[n]) /\ Distinct(events[n])
    BY <1>1 DEF NodeInv, PhaseInv, HandlesInv, TypeOK
  <1>3. /\ events' \in [Nodes -> Seq(Handles)]
        /\ Distinct(events'[n]) /\ Elems(events'[n]) = Elems(events[n]) \cup {Signals}
        /\ \A b \in Nodes : b # n => events'[b] = events[b]
    <2>1. events[n] \in Seq(Handles)
      BY DEF TypeOK
    <2> QED
      BY <1>2, <2>1, AddedOpen, HandleTypes DEF Wait
  <1>4. TypeOK'
    BY <1>1, <1>3 DEF TypeOK
  <1>5. ASSUME NEW b, b \in Nodes, b # n PROVE NodeInv(b)'
    <2>1. Same(b)
      BY <1>1, <1>3, <1>5 DEF Same, TypeOK
    <2> QED
      BY <1>1, <1>5, <2>1, NodeKept
  <1>6. NodeInv(n)'
    <2>1. HandlesInv(n)' /\ \A m : HasTimer(n, m)' <=> HasTimer(n, m)
      BY <1>1, <1>3, OtherHandle DEF NodeInv
    <2>2. phase'[n] = "loop"
      BY <1>1 DEF TypeOK
    <2>3. PhaseInv(n)'
      BY <1>1, <2>2 DEF NodeInv, PhaseInv
    <2>4. ASSUME NEW m, m \in Nodes PROVE OneWay(n, m)'
      <3>1. Calls(n, m)' = Calls(n, m)
        BY <1>1 DEF Calls
      <3>2. OneWay(n, m)
        BY <2>4 DEF NodeInv, WaysInv
      <3> QED
        BY <1>1, <2>1, <2>2, <3>1, <3>2 DEF OneWay
    <2> QED
      BY <1>1, <2>1, <2>3, <2>4 DEF NodeInv, WaysInv
  <1> QED
    BY <1>1, <1>4, <1>5, <1>6, LinksKept

-----------------------------------------------------------------------------
\* The way down: the place of a process changes, its lists do not.

LEMMA PlaceInv ==
  ASSUME NEW n, n \in Nodes, IInv, TypeOK', ~misused',
         UNCHANGED <<events, listed, routed, ends, wire>>,
         \A b \in Nodes : b # n => Same(b), PhaseInv(n)', Distinct(todo'[n]),
         phase'[n] \notin {"init", "loop"}
  PROVE  IInv'
  <1> USE DEF IInv
  <1>1. ASSUME NEW b, b \in Nodes, b # n PROVE NodeInv(b)'
    BY <1>1, NodeKept
  <1>2. NodeInv(n)'
    <2>1. HandlesInv(n)'
      BY DEF NodeInv, HandlesInv
    <2>2. ASSUME NEW m, m \in Nodes PROVE OneWay(n, m)'
      <3>1. OneWay(n, m)
        BY <2>2 DEF NodeInv, WaysInv
      <3> QED
        BY <3>1 DEF OneWay, Calls, HasTimer
    <2> QED
      BY <2>1, <2>2 DEF NodeInv, WaysInv
  <1> QED
    BY <1>1, <1>2, LinksKept

LEMMA CloseAllInv ==
  ASSUME NEW n, n \in Nodes, IInv, phase[n] \in {"init", "loop"}, CloseAll(n)
  PROVE  IInv'
  <1> USE DEF IInv
  <1>1. /\ phase' = [phase EXCEPT ![n] = "closing"]
        /\ efd' = [efd EXCEPT ![n] = FALSE] /\ locked' = [locked EXCEPT ![n] = TRUE]
        /\ UNCHANGED <<todo, events, listed, routed, lost, ends, wire, starts, breaks, misused>>
    BY DEF CloseAll, net, bounds
  <1>2. TypeOK'
    <2>1. efd' \in [Nodes -> BOOLEAN] /\ locked' \in [Nodes -> BOOLEAN]
      BY <1>1 DEF TypeOK
    <2>2. phase' \in [Nodes -> Phases]
      BY <1>1 DEF TypeOK, Phases
    <2> QED
      BY <1>1, <2>1, <2>2 DEF TypeOK, Phases
  <1>3. \A b \in Nodes : b # n => Same(b)
    BY <1>1 DEF Same, TypeOK
  <1>4. phase'[n] = "closing" /\ efd'[n] = FALSE /\ locked'[n] = TRUE
    BY <1>1 DEF TypeOK
  <1>5. PhaseInv(n)'
    BY <1>1, <1>4 DEF NodeInv, PhaseInv
  <1>6. Distinct(todo'[n])
    BY <1>1 DEF NodeInv, WaysInv
  <1> QED
    BY <1>1, <1>2, <1>3, <1>4, <1>5, <1>6, PlaceInv

LEMMA ClosedInv ==
  ASSUME NEW n, n \in Nodes, IInv, Closed(n)
  PROVE  IInv'
  <1> USE DEF IInv
  <1>1. /\ phase[n] = "closing" /\ events[n] = <<>> /\ phase' = [phase EXCEPT ![n] = "route"]
        /\ locked' = [locked EXCEPT ![n] = FALSE]
        /\ UNCHANGED <<todo, efd, events, listed, routed, lost, ends, wire, starts, breaks, misused>>
    BY DEF Closed, net, bounds
  <1>2. TypeOK'
    <2>1. locked' \in [Nodes -> BOOLEAN]
      BY <1>1 DEF TypeOK
    <2>2. phase' \in [Nodes -> Phases]
      BY <1>1 DEF TypeOK, Phases
    <2> QED
      BY <1>1, <2>1, <2>2 DEF TypeOK, Phases
  <1>3. \A b \in Nodes : b # n => Same(b)
    BY <1>1 DEF Same, TypeOK
  <1>4. phase'[n] = "route" /\ locked'[n] = FALSE /\ events'[n] = <<>>
    BY <1>1 DEF TypeOK
  <1>5. PhaseInv(n)'
    BY <1>1, <1>4, EmptyList DEF NodeInv, PhaseInv
  <1>6. Distinct(todo'[n])
    BY <1>1 DEF NodeInv, WaysInv
  <1> QED
    BY <1>1, <1>2, <1>3, <1>4, <1>5, <1>6, PlaceInv

LEMMA RouteDelInv ==
  ASSUME NEW n, n \in Nodes, IInv, RouteDel(n)
  PROVE  IInv'
  <1> USE DEF IInv
  <1>1. /\ phase[n] = "route" /\ phase' = [phase EXCEPT ![n] = "engines"]
        /\ UNCHANGED <<todo, efd, locked, events, listed, routed, lost, ends, wire, starts, breaks,
                       misused>>
    BY DEF RouteDel, net, bounds
  <1>2. TypeOK'
    BY <1>1 DEF TypeOK
  <1>3. \A b \in Nodes : b # n => Same(b)
    BY <1>1 DEF Same, TypeOK
  <1>4. phase'[n] = "engines"
    BY <1>1 DEF TypeOK
  <1>5. PhaseInv(n)'
    BY <1>1, <1>4, EmptyList DEF NodeInv, PhaseInv
  <1>6. Distinct(todo'[n])
    BY <1>1 DEF NodeInv, WaysInv
  <1> QED
    BY <1>1, <1>2, <1>3, <1>4, <1>5, <1>6, PlaceInv

\* When the entities are taken down, no socket is in their lists any more.
LEMMA EnginesDelInv ==
  ASSUME NEW n, n \in Nodes, IInv, EnginesDel(n)
  PROVE  IInv'
  <1> USE DEF IInv
  <1>1. /\ phase[n] = "engines" /\ phase' = [phase EXCEPT ![n] = "down"]
        /\ todo' = [todo EXCEPT ![n] = <<>>] /\ lost' = [lost EXCEPT ![n] = {}]
        /\ misused' = (misused \/ listed[n] # {})
        /\ UNCHANGED <<efd, locked, events, listed, routed, ends, wire, starts, breaks>>
    BY DEF EnginesDel, net, bounds
  <1>2. events[n] = <<>> /\ listed[n] = {}
    <2>1. events[n] = <<>>
      BY <1>1 DEF NodeInv, PhaseInv
    <2> QED
      BY <2>1, EmptyList DEF NodeInv, HandlesInv, TypeOK
  <1>3. misused' = FALSE
    BY <1>1, <1>2
  <1>4. TypeOK'
    BY <1>1, <1>3 DEF TypeOK
  <1>5. \A b \in Nodes : b # n => Same(b)
    BY <1>1 DEF Same, TypeOK
  <1>6. phase'[n] = "down" /\ todo'[n] = <<>> /\ lost'[n] = {} /\ events'[n] = <<>>
    BY <1>1, <1>2 DEF TypeOK
  <1>7. PhaseInv(n)'
    BY <1>1, <1>6, EmptyList DEF NodeInv, PhaseInv
  <1> QED
    BY <1>1, <1>3, <1>4, <1>5, <1>6, <1>7, EmptyList, PlaceInv

-----------------------------------------------------------------------------
\* A remote is dialled: there was no way to it, now there is a link.

\* The list of handles without the timer of the remote, and what is to be opened
\* without the remote.
TimerOff(n, m, s) ==
  s \in Seq(Handles) /\ Distinct(s) /\ Elems(s) = Elems(events[n]) \ {Timer(m)}

PortOff(n, m) ==
  /\ todo' \in [Nodes -> Seq(Nodes)] /\ Distinct(todo'[n])
  /\ Elems(todo'[n]) = Elems(todo[n]) \ {m}
  /\ phase[n] = "loop" => todo'[n] = <<>>
  /\ \A b \in Nodes : b # n => todo'[b] = todo[b]

LEMMA ReconnectInv ==
  ASSUME NEW n, NEW m, NEW s, n \in Nodes, <<n, m>> \in Remotes, IInv,
         phase[n] \in {"init", "loop"}, TimerOff(n, m, s), Reconnect(n, m, s),
         UNCHANGED <<phase, efd, locked, lost, starts, breaks, misused>>,
         PortOff(n, m), Calls(n, m) = {}, m \notin lost[n]
  PROVE  IInv'
  <1> USE DEF IInv, TimerOff, PortOff
  <1>1. PICK l : /\ l \in Links /\ wire[l] = "none" /\ Opened(n, l, s)
                 /\ ends' = [ends EXCEPT ![l] = <<n, m>>]
                 /\ wire' = [wire EXCEPT ![l] = "calling"]
    BY DEF Reconnect, Free
  <1>2. \A b \in Nodes : l \notin listed[b]
    BY <1>1 DEF LinkInv
  <1>3. Socket(l) \notin Elems(s) /\ efd[n] = TRUE
    BY <1>1, <1>2 DEF NodeInv, HandlesInv, PhaseInv, TypeOK
  <1>4. /\ events' \in [Nodes -> Seq(Handles)]
        /\ Distinct(events'[n]) /\ Elems(events'[n]) = Elems(s) \cup {Socket(l)}
        /\ \A b \in Nodes : b # n => events'[b] = events[b]
    BY <1>1, <1>3, AddedOpen, HandleTypes DEF Opened
  <1>5. /\ listed' \in [Nodes -> SUBSET Links] /\ routed' \in [Nodes -> SUBSET Links]
        /\ listed'[n] = listed[n] \cup {l} /\ routed'[n] = routed[n] \cup {l}
        /\ \A b \in Nodes : b # n => listed'[b] = listed[b] /\ routed'[b] = routed[b]
    BY <1>1 DEF Opened, TypeOK
  <1>6. /\ ends' \in [Links -> Remotes \union {NoLink}]
        /\ wire' \in [Links -> {"none", "calling", "up", "broken"}]
        /\ ends'[l] = <<n, m>> /\ wire'[l] = "calling"
        /\ \A k \in Links : k # l => ends'[k] = ends[k] /\ wire'[k] = wire[k]
    BY <1>1 DEF TypeOK
  <1>7. TypeOK'
    BY <1>4, <1>5, <1>6 DEF TypeOK
  <1>8. ASSUME NEW b, b \in Nodes, b # n PROVE NodeInv(b)'
    <2>1. Same(b)
      BY <1>4, <1>5, <1>8 DEF Same
    <2>2. \A k \in listed[b] : ends'[k] = ends[k]
      BY <1>2, <1>6, <1>8 DEF TypeOK
    <2> QED
      BY <1>8, <2>1, <2>2, NodeKept
  <1>9. HandlesInv(n)'
    <2>1. HandlesInv(n)
      BY DEF NodeInv
    <2>2. ASSUME NEW k, k \in Links PROVE k \in listed'[n] <=> Socket(k) \in Elems(events'[n])
      BY <1>4, <1>5, <2>1, <2>2, HandleKinds DEF HandlesInv
    <2> QED
      BY <1>4, <1>5, <2>1, <2>2 DEF HandlesInv
  <1>10. PhaseInv(n)'
    <2>1. /\ Signals \in Elems(events'[n]) <=> Signals \in Elems(events[n])
          /\ Acceptor \in Elems(events'[n]) <=> Acceptor \in Elems(events[n])
      BY <1>4, HandleKinds
    <2> QED
      BY <2>1 DEF NodeInv, PhaseInv
  <1>11. ASSUME NEW x, x \in Nodes PROVE OneWay(n, x)'
    <2>1. OneWay(n, x) /\ listed[n] \subseteq Links
      BY <1>11 DEF NodeInv, WaysInv, TypeOK
    <2>2. CASE x = m
      <3>1. Calls(n, x)' = {l}
        <4>1. \A k \in listed[n] : ends'[k] = ends[k] /\ ends[k] # <<n, m>>
          BY <1>2, <1>6, <2>1 DEF Calls
        <4> QED
          BY <1>5, <1>6, <2>2, <4>1 DEF Calls
      <3>2. ~HasTimer(n, x)'
        BY <1>4, <2>2, HandleKinds DEF HasTimer
      <3> QED
        BY <2>2, <3>1, <3>2 DEF OneWay
    <2>3. CASE x # m
      <3>1. Calls(n, x)' = Calls(n, x)
        <4>1. \A k \in listed[n] : ends'[k] = ends[k]
          BY <1>2, <1>6, <2>1
        <4>2. ends'[l] # <<n, x>>
          BY <1>6, <2>3
        <4> QED
          BY <1>5, <4>1, <4>2 DEF Calls
      <3>2. HasTimer(n, x)' <=> HasTimer(n, x)
        BY <1>4, <2>3, HandleKinds DEF HasTimer
      <3> QED
        BY <2>1, <2>3, <3>1, <3>2 DEF OneWay
    <2> QED
      BY <2>2, <2>3
  <1>12. ASSUME NEW k, k \in Links PROVE LinkInv(k)'
    <2>1. CASE k = l
      <3>1. <<n, m>> # NoLink /\ m \in Nodes /\ m # n /\ <<n, m>>[1] = n /\ <<n, m>>[2] = m
        <4>1. PICK r : r = <<n, m>>
          OBVIOUS
        <4>2. r[1] = n /\ r[2] = m
          BY <4>1
        <4>3. r \in Remotes
          BY <4>1
        <4> QED
          BY <4>1, <4>2, <4>3, RemotePairs
      <3>2. l \notin listed'[m] /\ l \in listed'[n] /\ \A b \in Nodes : l \in listed'[b] => b = n
        BY <1>2, <1>5, <3>1
      <3> QED
        BY <1>6, <2>1, <3>1, <3>2 DEF LinkInv
    <2>2. CASE k # l
      <3>1. \A b \in Nodes : k \in listed'[b] <=> k \in listed[b]
        BY <1>5, <2>2
      <3> QED
        BY <1>6, <1>12, <2>2, <3>1, LinkKept
    <2> QED
      BY <2>1, <2>2
  <1> QED
    BY <1>7, <1>8, <1>9, <1>10, <1>11, <1>12 DEF NodeInv, WaysInv

LEMMA DialInv ==
  ASSUME NEW n, n \in Nodes, IInv, Dial(n)
  PROVE  IInv'
  <1> USE DEF IInv
  <1>1. PICK m : m = Head(todo[n])
    OBVIOUS
  <1>2. PICK t : t = Tail(todo[n])
    OBVIOUS
  <1>3. /\ phase[n] = "init" /\ todo[n] # <<>> /\ m # n /\ todo[n] \in Seq(Nodes)
        /\ Reconnect(n, m, events[n]) /\ todo' = [todo EXCEPT ![n] = t]
        /\ UNCHANGED <<phase, efd, locked, lost, starts, breaks, misused>>
    BY <1>1, <1>2 DEF Dial, Opening, PortOpened, bounds, TypeOK
  <1>4. /\ m \in Elems(todo[n]) /\ m \in Nodes /\ t \in Seq(Nodes) /\ Distinct(t)
        /\ Elems(t) = Elems(todo[n]) \ {m}
    BY <1>1, <1>2, <1>3, TakeFirst DEF NodeInv, WaysInv
  <1>5. <<n, m>> \in Remotes /\ lost[n] = {}
    BY <1>3, <1>4 DEF NodeInv, PhaseInv
  <1>6. Calls(n, m) = {} /\ ~HasTimer(n, m)
    <2>1. OneWay(n, m)
      BY <1>4 DEF NodeInv, WaysInv
    <2> QED
      BY <1>3, <1>4, <1>5, <2>1 DEF OneWay
  <1>7. Elems(events[n]) = Elems(events[n]) \ {Timer(m)} /\ events[n] \in Seq(Handles)
    BY <1>6 DEF HasTimer, TypeOK
  <1>8. /\ todo' \in [Nodes -> Seq(Nodes)] /\ todo'[n] = t
        /\ \A b \in Nodes : b # n => todo'[b] = todo[b]
    BY <1>3, <1>4 DEF TypeOK
  <1>9. Distinct(events[n])
    BY DEF NodeInv, HandlesInv
  <1>10. PortOff(n, m)
    BY <1>3, <1>4, <1>8 DEF PortOff
  <1>11. PICK s : s = events[n]
    OBVIOUS
  <1>12. TimerOff(n, m, s) /\ Reconnect(n, m, s)
    BY <1>3, <1>7, <1>9, <1>11 DEF TimerOff
  <1>13. /\ Calls(n, m) = {} /\ UNCHANGED <<phase, efd, locked, lost, starts, breaks, misused>>
         /\ m \notin lost[n] /\ phase[n] \in {"init", "loop"}
    BY <1>3, <1>5, <1>6
  <1> QED
    BY <1>5, <1>10, <1>12, <1>13, ReconnectInv

LEMMA TimerExpiresInv ==
  ASSUME NEW n, n \in Nodes, IInv, TimerExpires(n)
  PROVE  IInv'
  <1> USE DEF IInv
  <1>1. PICK m \in Nodes : /\ phase[n] = "loop" /\ Has(n, Timer(m))
                           /\ Reconnect(n, m, Without(events[n], Timer(m)))
                           /\ UNCHANGED <<node, lost, bounds, misused>>
    BY DEF TimerExpires
  <1>2. HasTimer(n, m) /\ OneWay(n, m) /\ todo[n] = <<>> /\ Distinct(events[n])
    BY <1>1, HasIsElem DEF HasTimer, NodeInv, WaysInv, PhaseInv, HandlesInv
  <1>3. <<n, m>> \in Remotes /\ Calls(n, m) = {} /\ m \notin lost[n]
    BY <1>1, <1>2 DEF OneWay
  <1>4. PICK s : s = Without(events[n], Timer(m))
    OBVIOUS
  <1>5. s \in Seq(Handles) /\ Distinct(s) /\ Elems(s) = Elems(events[n]) \ {Timer(m)}
    <2>1. events[n] \in Seq(Handles) /\ Timer(m) \in Elems(events[n])
      BY <1>2 DEF TypeOK, HasTimer
    <2> QED
      BY <1>2, <1>4, <2>1, TakeOut
  <1>6. UNCHANGED <<phase, todo, efd, locked, lost, starts, breaks, misused>>
    BY <1>1 DEF node, bounds
  <1>7. Distinct(todo[n]) /\ Elems(todo[n]) = Elems(todo[n]) \ {m} /\ todo \in [Nodes -> Seq(Nodes)]
    BY <1>2, EmptyList DEF TypeOK
  <1>8. TimerOff(n, m, s) /\ PortOff(n, m) /\ Reconnect(n, m, s)
    BY <1>1, <1>2, <1>4, <1>5, <1>6, <1>7 DEF TimerOff, PortOff
  <1> QED
    BY <1>1, <1>3, <1>6, <1>8, ReconnectInv

-----------------------------------------------------------------------------
\* A socket is done: the one that dialled sets its timer, or the remote is lost.

\* What OnDone makes of the list of handles and of the lost remotes.
Redialled(n, l, s) ==
  /\ ends[l][1] = n /\ phase[n] = "loop"
  /\ Elems(events'[n]) = Elems(s) \cup {Timer(ends[l][2])} /\ lost'[n] = lost[n]

GivenUp(n, l, s) ==
  /\ ends[l][1] = n /\ phase[n] = "loop"
  /\ Elems(events'[n]) = Elems(s) /\ lost'[n] = lost[n] \cup {ends[l][2]}

LetGo(n, l, s) ==
  /\ ends[l][1] # n \/ phase[n] = "closing"
  /\ Elems(events'[n]) = Elems(s) /\ lost'[n] = lost[n]

LEMMA OnDoneLists ==
  ASSUME NEW n, NEW l, NEW s, n \in Nodes, l \in listed[n], IInv,
         phase[n] \in {"loop", "closing"},
         s \in Seq(Handles), Distinct(s), Elems(s) = Elems(events[n]) \ {Socket(l)},
         OnDone(n, l, s)
  PROVE  /\ events' \in [Nodes -> Seq(Handles)] /\ lost' \in [Nodes -> SUBSET Nodes]
         /\ \A b \in Nodes : b # n => events'[b] = events[b] /\ lost'[b] = lost[b]
         /\ Distinct(events'[n])
         /\ Redialled(n, l, s) \/ GivenUp(n, l, s) \/ LetGo(n, l, s)
  <1> USE DEF IInv
  <1>1. ends[l] \in Remotes /\ l \in Links
    BY DEF LinkInv, TypeOK
  <1>2. PICK r : r = ends[l]
    OBVIOUS
  <1>3. r \in Remotes /\ r = <<r[1], r[2]>> /\ r[1] \in Nodes /\ r[2] \in Nodes
    BY <1>1, <1>2, RemotePairs
  <1>4. /\ efd[n] <=> phase[n] = "loop"
        /\ phase[n] = "loop" => efd[n] = TRUE
    BY DEF NodeInv, PhaseInv, TypeOK
  <1>5. ASSUME events' = [events EXCEPT ![n] = s]
        PROVE  /\ events' \in [Nodes -> Seq(Handles)] /\ events'[n] = s
               /\ \A b \in Nodes : b # n => events'[b] = events[b]
    BY <1>5, SetEvents
  <1>6. CASE r[1] = n /\ Added(n, s, Timer(r[2])) /\ UNCHANGED lost
    <2>1. CASE phase[n] = "loop"
      <3>1. l \in Calls(n, r[2]) /\ OneWay(n, r[2])
        BY <1>2, <1>3, <1>6 DEF Calls, NodeInv, WaysInv
      <3>2. PICK h : h = Timer(r[2])
        OBVIOUS
      <3>3. h \notin Elems(s) /\ h \in Handles /\ TypeOK
        BY <1>3, <3>1, <3>2, HandleTypes DEF OneWay, HasTimer
      <3>4. Added(n, s, h) /\ efd[n] = TRUE
        BY <1>4, <1>6, <2>1, <3>2
      <3> HIDE DEF IInv
      <3>5. /\ events' \in [Nodes -> Seq(Handles)]
            /\ Distinct(events'[n]) /\ Elems(events'[n]) = Elems(s) \cup {h}
            /\ \A b \in Nodes : b # n => events'[b] = events[b]
        BY <3>3, <3>4, AddedOpen
      <3> QED
        BY <1>2, <1>6, <2>1, <3>2, <3>3, <3>5 DEF Redialled, TypeOK
    <2>2. CASE phase[n] = "closing"
      <3>1. events' = [events EXCEPT ![n] = s]
        BY <1>4, <1>6, <2>2 DEF Added
      <3> QED
        BY <1>2, <1>5, <1>6, <2>2, <3>1 DEF LetGo, TypeOK
    <2> QED
      BY <2>1, <2>2
  <1>7. CASE /\ r[1] = n /\ phase[n] = "loop" /\ events' = [events EXCEPT ![n] = s]
             /\ lost' = [lost EXCEPT ![n] = @ \union {r[2]}]
    BY <1>2, <1>3, <1>5, <1>7 DEF GivenUp, TypeOK
  <1>8. CASE r[1] # n /\ events' = [events EXCEPT ![n] = s] /\ UNCHANGED lost
    BY <1>2, <1>5, <1>8 DEF LetGo, TypeOK
  <1> QED
    BY <1>2, <1>6, <1>7, <1>8 DEF OnDone

\* What it makes of the links.
LEMMA OnDoneLinks ==
  ASSUME NEW n, NEW l, NEW s, n \in Nodes, l \in listed[n], IInv,
         phase[n] \in {"loop", "closing"}, OnDone(n, l, s)
  PROVE  /\ listed' \in [Nodes -> SUBSET Links] /\ routed' \in [Nodes -> SUBSET Links]
         /\ listed'[n] = listed[n] \ {l} /\ routed'[n] = routed[n] \ {l}
         /\ \A b \in Nodes : b # n => listed'[b] = listed[b] /\ routed'[b] = routed[b]
         /\ ends' \in [Links -> Remotes \union {NoLink}]
         /\ wire' \in [Links -> {"none", "calling", "up", "broken"}]
         /\ \A k \in Links : k # l => ends'[k] = ends[k] /\ wire'[k] = wire[k]
         /\ IF \E b \in Nodes : b # n /\ l \in listed[b]
            THEN ends'[l] = ends[l] /\ wire'[l] = "broken"
            ELSE ends'[l] = NoLink /\ wire'[l] = "none"
         /\ misused' = FALSE
  <1>1. l \in Links /\ ~misused
    BY DEF IInv, TypeOK
  <1>2. /\ listed' = [listed EXCEPT ![n] = @ \ {l}] /\ routed' = [routed EXCEPT ![n] = @ \ {l}]
        /\ misused' = FALSE /\ Dropped(n, l)
    BY <1>1 DEF OnDone, Released
  <1>3. /\ listed' \in [Nodes -> SUBSET Links] /\ routed' \in [Nodes -> SUBSET Links]
        /\ listed'[n] = listed[n] \ {l} /\ routed'[n] = routed[n] \ {l}
        /\ \A b \in Nodes : b # n => listed'[b] = listed[b] /\ routed'[b] = routed[b]
    BY <1>2 DEF IInv, TypeOK
  <1>4. CASE \E b \in Nodes : b # n /\ l \in listed[b]
    <2>1. wire' = [wire EXCEPT ![l] = "broken"] /\ UNCHANGED ends
      BY <1>2, <1>4 DEF Dropped
    <2> QED
      BY <1>1, <1>2, <1>3, <1>4, <2>1 DEF IInv, TypeOK
  <1>5. CASE ~ \E b \in Nodes : b # n /\ l \in listed[b]
    <2>1. wire' = [wire EXCEPT ![l] = "none"] /\ ends' = [ends EXCEPT ![l] = NoLink]
      BY <1>2, <1>5 DEF Dropped
    <2> QED
      BY <1>1, <1>2, <1>3, <1>5, <2>1 DEF IInv, TypeOK
  <1> QED
    BY <1>4, <1>5

LEMMA OnDoneInv ==
  ASSUME NEW n, NEW l, NEW s, n \in Nodes, l \in listed[n], IInv,
         phase[n] \in {"loop", "closing"},
         s \in Seq(Handles), Distinct(s), Elems(s) = Elems(events[n]) \ {Socket(l)},
         OnDone(n, l, s), UNCHANGED <<node, bounds>>
  PROVE  IInv'
  <1>1. /\ events' \in [Nodes -> Seq(Handles)] /\ lost' \in [Nodes -> SUBSET Nodes]
        /\ \A b \in Nodes : b # n => events'[b] = events[b] /\ lost'[b] = lost[b]
        /\ Distinct(events'[n])
        /\ Redialled(n, l, s) \/ GivenUp(n, l, s) \/ LetGo(n, l, s)
    BY OnDoneLists
  <1>2. /\ listed' \in [Nodes -> SUBSET Links] /\ routed' \in [Nodes -> SUBSET Links]
        /\ listed'[n] = listed[n] \ {l} /\ routed'[n] = routed[n] \ {l}
        /\ \A b \in Nodes : b # n => listed'[b] = listed[b] /\ routed'[b] = routed[b]
        /\ ends' \in [Links -> Remotes \union {NoLink}]
        /\ wire' \in [Links -> {"none", "calling", "up", "broken"}]
        /\ \A k \in Links : k # l => ends'[k] = ends[k] /\ wire'[k] = wire[k]
        /\ misused' = FALSE
    BY OnDoneLinks
  <1>3. IF \E b \in Nodes : b # n /\ l \in listed[b]
        THEN ends'[l] = ends[l] /\ wire'[l] = "broken"
        ELSE ends'[l] = NoLink /\ wire'[l] = "none"
    BY OnDoneLinks
  <1> USE DEF IInv
  <1>4. UNCHANGED <<phase, todo, efd, locked, starts, breaks>>
    BY DEF node, bounds
  <1>5. TypeOK'
    BY <1>1, <1>2, <1>4 DEF TypeOK
  <1>6. ASSUME NEW b, b \in Nodes, b # n PROVE NodeInv(b)'
    <2>1. Same(b)
      BY <1>1, <1>2, <1>4, <1>6 DEF Same
    <2>2. \A k \in listed[b] : ends'[k] = ends[k]
      BY <1>2, <1>3, <1>6 DEF TypeOK
    <2> QED
      BY <1>6, <2>1, <2>2, NodeKept
  <1>7. HandlesInv(n)'
    <2>1. HandlesInv(n)
      BY DEF NodeInv
    <2>2. ASSUME NEW k, k \in Links PROVE k \in listed'[n] <=> Socket(k) \in Elems(events'[n])
      BY <1>1, <1>2, <2>1, <2>2, HandleKinds DEF HandlesInv, Redialled, GivenUp, LetGo
    <2> QED
      BY <1>1, <1>2, <2>1, <2>2 DEF HandlesInv
  <1>8. PhaseInv(n)'
    <2>1. /\ Signals \in Elems(events'[n]) <=> Signals \in Elems(events[n])
          /\ Acceptor \in Elems(events'[n]) <=> Acceptor \in Elems(events[n])
      BY <1>1, HandleKinds DEF Redialled, GivenUp, LetGo
    <2> QED
      BY <1>4, <2>1 DEF NodeInv, PhaseInv
  <1>9. ASSUME NEW x, x \in Nodes PROVE OneWay(n, x)'
    <2>1. OneWay(n, x) /\ l \in Links /\ listed[n] \subseteq Links
      <3>1. OneWay(n, x)
        BY <1>9 DEF NodeInv, WaysInv
      <3>2. l \in Links /\ listed[n] \subseteq Links
        BY DEF TypeOK
      <3> QED
        BY <3>1, <3>2
    <2>2. Calls(n, x)' = Calls(n, x) \ {l}
      <3>1. \A k \in listed'[n] : ends'[k] = ends[k]
        BY <1>2, <2>1
      <3> QED
        BY <1>2, <3>1 DEF Calls
    <2>3. PICK r : r = ends[l]
      OBVIOUS
    <2>4. r \in Remotes /\ r = <<r[1], r[2]>>
      BY <2>1, <2>3, RemotePairs DEF LinkInv, TypeOK
    <2>5. CASE r = <<n, x>>
      <3>1. r[1] = n /\ r[2] = x
        BY <2>5
      <3>2. l \in Calls(n, x) /\ Calls(n, x)' = {}
        BY <2>1, <2>2, <2>3, <2>5 DEF Calls, OneWay
      <3>3. ~HasTimer(n, x) /\ Timer(x) \notin Elems(s)
        BY <2>1, <3>2 DEF OneWay, HasTimer
      <3>4. CASE Redialled(n, l, s)
        <4>1. HasTimer(n, x)' /\ lost'[n] = lost[n] /\ phase[n] = "loop"
          BY <2>3, <3>1, <3>4 DEF Redialled, HasTimer
        <4>2. x \notin Elems(todo[n]) /\ x \notin lost[n]
          BY <2>1, <2>4, <2>5, <3>2, <4>1 DEF OneWay
        <4> QED
          BY <1>4, <2>4, <2>5, <3>2, <4>1, <4>2 DEF OneWay
      <3>5. CASE GivenUp(n, l, s)
        <4>1. ~HasTimer(n, x)' /\ x \in lost'[n]
          BY <2>3, <3>1, <3>3, <3>5 DEF GivenUp, HasTimer
        <4> QED
          BY <3>2, <4>1 DEF OneWay
      <3>6. CASE LetGo(n, l, s)
        <4>1. ~HasTimer(n, x)' /\ phase'[n] = "closing"
          BY <1>4, <2>3, <3>1, <3>3, <3>6 DEF LetGo, HasTimer
        <4> QED
          BY <3>2, <4>1 DEF OneWay
      <3> QED
        BY <1>1, <3>4, <3>5, <3>6
    <2>6. CASE r # <<n, x>>
      <3>1. Calls(n, x)' = Calls(n, x)
        BY <2>2, <2>3, <2>6 DEF Calls
      <3>2. /\ HasTimer(n, x)' <=> HasTimer(n, x)
            /\ x \in lost'[n] <=> x \in lost[n]
        BY <1>1, <2>3, <2>4, <2>6, HandleKinds DEF Redialled, GivenUp, LetGo, HasTimer
      <3> QED
        BY <1>4, <2>1, <3>1, <3>2 DEF OneWay
    <2> QED
      BY <2>5, <2>6
  <1>10. ASSUME NEW k, k \in Links PROVE LinkInv(k)'
    <2>1. CASE k = l
      <3>1. LinkInv(l) /\ ends[l] # NoLink
        BY <1>10, <2>1 DEF LinkInv
      <3>2. \A b \in Nodes : l \in listed'[b] <=> l \in listed[b] /\ b # n
        BY <1>2
      <3> QED
        BY <1>3, <2>1, <3>1, <3>2 DEF LinkInv
    <2>2. CASE k # l
      <3>1. \A b \in Nodes : k \in listed'[b] <=> k \in listed[b]
        BY <1>2, <2>2
      <3> QED
        BY <1>2, <1>10, <2>2, <3>1, LinkKept
    <2> QED
      BY <2>1, <2>2
  <1>11. WaysInv(n)'
    BY <1>4, <1>9 DEF NodeInv, WaysInv
  <1> QED
    BY <1>2, <1>5, <1>6, <1>7, <1>8, <1>10, <1>11 DEF NodeInv

LEMMA ReportInv ==
  ASSUME NEW n, n \in Nodes, IInv, Report(n)
  PROVE  IInv'
  <1>1. PICK l \in listed[n] : /\ phase[n] = "loop" /\ Has(n, Socket(l))
                               /\ OnDone(n, l, Without(events[n], Socket(l)))
                               /\ UNCHANGED <<node, bounds>>
    BY DEF Report
  <1>2. PICK s : s = Without(events[n], Socket(l))
    OBVIOUS
  <1>3. s \in Seq(Handles) /\ Distinct(s) /\ Elems(s) = Elems(events[n]) \ {Socket(l)}
    <2>1. /\ events[n] \in Seq(Handles) /\ Distinct(events[n])
          /\ Socket(l) \in Elems(events[n])
      BY <1>1, HasIsElem DEF IInv, TypeOK, NodeInv, HandlesInv
    <2> QED
      BY <1>2, <2>1, TakeOut
  <1>4. OnDone(n, l, s) /\ phase[n] \in {"loop", "closing"}
    BY <1>1, <1>2
  <1> QED
    BY <1>1, <1>3, <1>4, OnDoneInv

\* The next handle of the list is dropped: a socket says it is done.
LEMMA CloseHandleInv ==
  ASSUME NEW n, n \in Nodes, IInv, CloseHandle(n)
  PROVE  IInv'
  <1>1. PICK h : h = Head(events[n])
    OBVIOUS
  <1>2. PICK s : s = Tail(events[n])
    OBVIOUS
  <1>3. /\ phase[n] = "closing" /\ events[n] # <<>> /\ UNCHANGED <<node, bounds>>
        /\ IF h[1] = "socket"
           THEN OnDone(n, h[2], s)
           ELSE /\ events' = [events EXCEPT ![n] = s]
                /\ UNCHANGED <<listed, routed, lost, ends, wire, misused>>
    BY <1>1, <1>2 DEF CloseHandle, net
  <1>4. events[n] \in Seq(Handles) /\ Distinct(events[n])
    BY DEF IInv, TypeOK, NodeInv, HandlesInv
  <1>5. /\ h \in Elems(events[n]) /\ h \in Handles /\ s \in Seq(Handles)
        /\ Distinct(s) /\ Elems(s) = Elems(events[n]) \ {h}
    BY <1>1, <1>2, <1>3, <1>4, TakeFirst
  <1>6. CASE h[1] = "socket"
    <2>1. PICK l \in Links : h = Socket(l)
      BY <1>5, <1>6 DEF Handles, Socket, Timer, Acceptor, Signals
    <2>2. h[2] = l
      BY <2>1 DEF Socket
    <2>3. l \in listed[n]
      BY <1>5, <2>1 DEF IInv, NodeInv, HandlesInv
    <2>4. OnDone(n, l, s) /\ phase[n] \in {"loop", "closing"}
      BY <1>3, <1>6, <2>2
    <2>5. Elems(s) = Elems(events[n]) \ {Socket(l)}
      BY <1>5, <2>1
    <2> QED
      BY <1>3, <1>5, <2>3, <2>4, <2>5, OnDoneInv
  <1>7. CASE h[1] # "socket"
    <2>1. \A l : h # Socket(l)
      BY <1>7 DEF Socket
    <2>2. /\ UNCHANGED <<phase, todo, efd, locked, listed, routed, lost, ends, wire, starts, breaks,
                         misused>>
          /\ events' = [events EXCEPT ![n] = s]
      BY <1>3, <1>7 DEF node, bounds
    <2>3. /\ events' \in [Nodes -> Seq(Handles)] /\ events'[n] = s
          /\ \A b \in Nodes : b # n => events'[b] = events[b]
      BY <1>5, <2>2, SetEvents DEF IInv
    <2> USE DEF IInv
    <2>4. TypeOK'
      BY <2>2, <2>3 DEF TypeOK
    <2>5. ASSUME NEW b, b \in Nodes, b # n PROVE NodeInv(b)'
      <3>1. Same(b)
        BY <2>2, <2>3, <2>5 DEF Same
      <3> QED
        BY <2>2, <2>5, <3>1, NodeKept
    <2>6. HandlesInv(n)'
      <3>1. HandlesInv(n)
        BY DEF NodeInv
      <3>2. ASSUME NEW l, l \in Links PROVE l \in listed'[n] <=> Socket(l) \in Elems(events'[n])
        BY <1>5, <2>1, <2>2, <2>3, <3>1, <3>2 DEF HandlesInv
      <3> QED
        BY <1>5, <2>2, <2>3, <3>1, <3>2 DEF HandlesInv
    <2>7. PhaseInv(n)'
      BY <1>3, <2>2 DEF NodeInv, PhaseInv
    <2>8. ASSUME NEW m, m \in Nodes PROVE OneWay(n, m)'
      <3>1. OneWay(n, m) /\ Calls(n, m)' = Calls(n, m) /\ (HasTimer(n, m)' => HasTimer(n, m))
        BY <1>5, <2>2, <2>3, <2>8 DEF NodeInv, WaysInv, Calls, HasTimer
      <3> QED
        BY <1>3, <2>2, <3>1 DEF OneWay
    <2>9. WaysInv(n)'
      BY <2>2, <2>8 DEF NodeInv, WaysInv
    <2> QED
      BY <2>2, <2>4, <2>5, <2>6, <2>7, <2>9, LinksKept DEF NodeInv
  <1> QED
    BY <1>6, <1>7

\* A timer has run in vain: the remote is lost.
LEMMA TimerFailsInv ==
  ASSUME NEW n, n \in Nodes, IInv, TimerFails(n)
  PROVE  IInv'
  <1> USE DEF IInv
  <1>1. PICK m \in Nodes : /\ phase[n] = "loop" /\ Has(n, Timer(m))
                           /\ events' = [events EXCEPT ![n] = Without(@, Timer(m))]
                           /\ lost' = [lost EXCEPT ![n] = @ \union {m}]
                           /\ UNCHANGED <<node, listed, routed, net, bounds, misused>>
    BY DEF TimerFails
  <1>2. UNCHANGED <<phase, todo, efd, locked, listed, routed, ends, wire, starts, breaks, misused>>
    BY <1>1 DEF node, net, bounds
  <1>3. PICK s : s = Without(events[n], Timer(m))
    OBVIOUS
  <1>4. events[n] \in Seq(Handles) /\ Distinct(events[n]) /\ HasTimer(n, m)
    BY <1>1, HasIsElem DEF TypeOK, NodeInv, HandlesInv, HasTimer
  <1>5. s \in Seq(Handles) /\ Distinct(s) /\ Elems(s) = Elems(events[n]) \ {Timer(m)}
    BY <1>3, <1>4, TakeOut DEF HasTimer
  <1>6. events' = [events EXCEPT ![n] = s]
    BY <1>1, <1>3 DEF TypeOK
  <1>7. /\ events' \in [Nodes -> Seq(Handles)] /\ events'[n] = s
        /\ \A b \in Nodes : b # n => events'[b] = events[b]
    BY <1>5, <1>6, SetEvents
  <1>8. /\ lost' \in [Nodes -> SUBSET Nodes] /\ lost'[n] = lost[n] \cup {m}
        /\ \A b \in Nodes : b # n => lost'[b] = lost[b]
    BY <1>1 DEF TypeOK
  <1>9. TypeOK'
    BY <1>2, <1>7, <1>8 DEF TypeOK
  <1>10. ASSUME NEW b, b \in Nodes, b # n PROVE NodeInv(b)'
    <2>1. Same(b)
      BY <1>2, <1>7, <1>8, <1>10 DEF Same
    <2> QED
      BY <1>2, <1>10, <2>1, NodeKept
  <1>11. HandlesInv(n)'
    <2>1. HandlesInv(n)
      BY DEF NodeInv
    <2>2. ASSUME NEW l, l \in Links PROVE l \in listed'[n] <=> Socket(l) \in Elems(events'[n])
      BY <1>2, <1>5, <1>7, <2>1, <2>2, HandleKinds DEF HandlesInv
    <2> QED
      BY <1>2, <1>5, <1>7, <2>1, <2>2 DEF HandlesInv
  <1>12. PhaseInv(n)'
    BY <1>1, <1>2 DEF NodeInv, PhaseInv
  <1>13. ASSUME NEW x, x \in Nodes PROVE OneWay(n, x)'
    <2>1. OneWay(n, x) /\ Calls(n, x)' = Calls(n, x)
      BY <1>2, <1>13 DEF NodeInv, WaysInv, Calls
    <2>2. CASE x = m
      <3>1. ~HasTimer(n, x)' /\ x \in lost'[n]
        BY <1>5, <1>7, <1>8, <2>2 DEF HasTimer
      <3>2. Calls(n, x) = {}
        BY <1>4, <2>1, <2>2 DEF OneWay
      <3> QED
        BY <2>1, <3>1, <3>2 DEF OneWay
    <2>3. CASE x # m
      <3>1. HasTimer(n, x)' <=> HasTimer(n, x)
        BY <1>5, <1>7, <2>3, HandleKinds DEF HasTimer
      <3> QED
        BY <1>2, <1>8, <2>1, <2>3, <3>1 DEF OneWay
    <2> QED
      BY <2>2, <2>3
  <1>14. WaysInv(n)'
    BY <1>2, <1>13 DEF NodeInv, WaysInv
  <1> QED
    BY <1>2, <1>9, <1>10, <1>11, <1>12, <1>14, LinksKept DEF NodeInv

\* A link is accepted by the process it calls.
LEMMA AcceptInv ==
  ASSUME NEW m, m \in Nodes, IInv, Accept(m)
  PROVE  IInv'
  <1> USE DEF IInv
  <1>1. PICK l \in Links : /\ phase[m] = "loop" /\ wire[l] = "calling" /\ ends[l][2] = m
                           /\ Opened(m, l, events[m])
                           /\ wire' = [wire EXCEPT ![l] = "up"]
                           /\ UNCHANGED <<node, lost, ends, bounds, misused>>
    BY DEF Accept
  <1>2. UNCHANGED <<phase, todo, efd, locked, lost, ends, starts, breaks, misused>>
    BY <1>1 DEF node, bounds
  <1>3. l \notin listed[m] /\ Socket(l) \notin Elems(events[m]) /\ Distinct(events[m])
    BY <1>1 DEF LinkInv, NodeInv, HandlesInv
  <1>4. efd[m] = TRUE /\ events[m] \in Seq(Handles)
    BY <1>1 DEF NodeInv, PhaseInv, TypeOK
  <1>5. /\ events' \in [Nodes -> Seq(Handles)]
        /\ Distinct(events'[m]) /\ Elems(events'[m]) = Elems(events[m]) \cup {Socket(l)}
        /\ \A b \in Nodes : b # m => events'[b] = events[b]
    <2>1. PICK h : h = Socket(l)
      OBVIOUS
    <2>2. h \in Handles /\ h \notin Elems(events[m]) /\ Added(m, events[m], h) /\ TypeOK
      BY <1>1, <1>3, <2>1, HandleTypes DEF Opened
    <2> HIDE DEF IInv
    <2>3. /\ events' \in [Nodes -> Seq(Handles)]
          /\ Distinct(events'[m]) /\ Elems(events'[m]) = Elems(events[m]) \cup {h}
          /\ \A b \in Nodes : b # m => events'[b] = events[b]
      BY <1>3, <1>4, <2>2, AddedOpen
    <2> QED
      BY <2>1, <2>3
  <1>6. /\ listed' \in [Nodes -> SUBSET Links] /\ routed' \in [Nodes -> SUBSET Links]
        /\ listed'[m] = listed[m] \cup {l} /\ routed'[m] = routed[m] \cup {l}
        /\ \A b \in Nodes : b # m => listed'[b] = listed[b] /\ routed'[b] = routed[b]
    BY <1>1 DEF Opened, TypeOK
  <1>7. /\ wire' \in [Links -> {"none", "calling", "up", "broken"}]
        /\ wire'[l] = "up" /\ \A k \in Links : k # l => wire'[k] = wire[k]
    BY <1>1 DEF TypeOK
  <1>8. TypeOK'
    BY <1>2, <1>5, <1>6, <1>7 DEF TypeOK
  <1>9. ASSUME NEW b, b \in Nodes, b # m PROVE NodeInv(b)'
    <2>1. Same(b)
      BY <1>2, <1>5, <1>6, <1>9 DEF Same
    <2> QED
      BY <1>2, <1>9, <2>1, NodeKept
  <1>10. HandlesInv(m)'
    <2>1. HandlesInv(m)
      BY DEF NodeInv
    <2>2. ASSUME NEW k, k \in Links PROVE k \in listed'[m] <=> Socket(k) \in Elems(events'[m])
      BY <1>5, <1>6, <2>1, <2>2, HandleKinds DEF HandlesInv
    <2> QED
      BY <1>5, <1>6, <2>1, <2>2 DEF HandlesInv
  <1>11. PhaseInv(m)'
    <2>1. /\ Signals \in Elems(events'[m]) <=> Signals \in Elems(events[m])
          /\ Acceptor \in Elems(events'[m]) <=> Acceptor \in Elems(events[m])
      BY <1>5, HandleKinds
    <2> QED
      BY <1>1, <1>2, <2>1 DEF NodeInv, PhaseInv
  <1>12. PICK r : r = ends[l]
    OBVIOUS
  <1>13. r \in Remotes /\ r = <<r[1], r[2]>> /\ r[1] # m /\ r[1] \in Nodes /\ r # NoLink
    <2>1. r \in Remotes /\ r[2] = m
      BY <1>1, <1>12 DEF LinkInv, TypeOK
    <2> QED
      BY <2>1, RemotePairs
  <1>14. ASSUME NEW x, x \in Nodes PROVE OneWay(m, x)'
    <2>1. OneWay(m, x)
      BY <1>14 DEF NodeInv, WaysInv
    <2>2. ends[l] # <<m, x>>
      <3>1. <<m, x>>[1] = m
        OBVIOUS
      <3> QED
        BY <1>12, <1>13, <3>1
    <2>3. Calls(m, x)' = Calls(m, x)
      BY <1>2, <1>6, <2>2 DEF Calls
    <2>4. HasTimer(m, x)' <=> HasTimer(m, x)
      BY <1>5, HandleKinds DEF HasTimer
    <2> QED
      BY <1>2, <2>1, <2>3, <2>4 DEF OneWay
  <1>15. ASSUME NEW k, k \in Links PROVE LinkInv(k)'
    <2>1. CASE k = l
      <3>1. LinkInv(l)
        BY <1>15, <2>1
      <3>2. l \in listed'[m] /\ \A b \in Nodes : l \in listed'[b] <=> l \in listed[b] \/ b = m
        BY <1>6
      <3> QED
        BY <1>1, <1>2, <1>7, <1>12, <1>13, <2>1, <3>1, <3>2 DEF LinkInv
    <2>2. CASE k # l
      <3>1. \A b \in Nodes : k \in listed'[b] <=> k \in listed[b]
        BY <1>6, <2>2
      <3> QED
        BY <1>2, <1>7, <1>15, <2>2, <3>1, LinkKept
    <2> QED
      BY <2>1, <2>2
  <1>16. WaysInv(m)'
    BY <1>2, <1>14 DEF NodeInv, WaysInv
  <1> QED
    BY <1>2, <1>8, <1>9, <1>10, <1>11, <1>15, <1>16 DEF NodeInv

-----------------------------------------------------------------------------
\* What happens to processes and links.

\* A process is killed: each of its links is free, or broken for its other end.
LEMMA CrashInv ==
  ASSUME NEW n, n \in Nodes, IInv, Crash(n)
  PROVE  IInv'
  <1> USE DEF IInv
  <1> DEFINE Shared(l) == \E m \in Nodes \ {n} : l \in listed[m]
  <1>1. /\ phase[n] \in {"init", "loop"} /\ phase' = [phase EXCEPT ![n] = "down"]
        /\ todo' = [todo EXCEPT ![n] = <<>>] /\ efd' = [efd EXCEPT ![n] = FALSE]
        /\ events' = [events EXCEPT ![n] = <<>>] /\ lost' = [lost EXCEPT ![n] = {}]
        /\ listed' = [listed EXCEPT ![n] = {}] /\ routed' = [routed EXCEPT ![n] = {}]
        /\ breaks' = breaks + 1 /\ breaks < MaxBreaks /\ UNCHANGED <<locked, starts, misused>>
    BY DEF Crash
  <1>2. /\ wire' = [l \in Links |-> IF l \notin listed[n] THEN wire[l]
                                    ELSE IF Shared(l) THEN "broken" ELSE "none"]
        /\ ends' = [l \in Links |-> IF l \in listed[n] /\ ~Shared(l) THEN NoLink ELSE ends[l]]
    BY DEF Crash
  <1>3. ASSUME NEW l, l \in Links
        PROVE  /\ l \notin listed[n] => wire'[l] = wire[l] /\ ends'[l] = ends[l]
               /\ l \in listed[n] /\ Shared(l) => wire'[l] = "broken" /\ ends'[l] = ends[l]
               /\ l \in listed[n] /\ ~Shared(l) => wire'[l] = "none" /\ ends'[l] = NoLink
    BY <1>2, <1>3
  <1>4. TypeOK'
    <2>1. /\ phase' \in [Nodes -> {"down", "init", "loop", "closing", "route", "engines"}]
          /\ todo' \in [Nodes -> Seq(Nodes)] /\ events' \in [Nodes -> Seq(Handles)]
      BY <1>1 DEF TypeOK
    <2>2. /\ efd' \in [Nodes -> BOOLEAN] /\ breaks' \in 0..MaxBreaks
      BY <1>1, BoundsAssumption DEF TypeOK
    <2>3. /\ listed' \in [Nodes -> SUBSET Links] /\ routed' \in [Nodes -> SUBSET Links]
          /\ lost' \in [Nodes -> SUBSET Nodes]
      BY <1>1 DEF TypeOK
    <2>4. /\ ends' \in [Links -> Remotes \union {NoLink}]
          /\ wire' \in [Links -> {"none", "calling", "up", "broken"}]
      BY <1>2, Zenon DEF TypeOK
    <2> QED
      BY <1>1, <2>1, <2>2, <2>3, <2>4 DEF TypeOK
  <1>5. ASSUME NEW b, b \in Nodes, b # n PROVE NodeInv(b)'
    <2>1. Same(b)
      BY <1>1, <1>5 DEF Same, TypeOK
    <2>2. \A l \in listed[b] : ends'[l] = ends[l]
      BY <1>3, <1>5 DEF TypeOK
    <2> QED
      BY <1>5, <2>1, <2>2, NodeKept
  <1>6. NodeInv(n)'
    <2>1. /\ phase'[n] = "down" /\ todo'[n] = <<>> /\ events'[n] = <<>> /\ lost'[n] = {}
          /\ listed'[n] = {} /\ routed'[n] = {} /\ efd'[n] = FALSE
      BY <1>1 DEF TypeOK
    <2>2. ~locked'[n]
      BY <1>1 DEF NodeInv, PhaseInv
    <2>3. HandlesInv(n)'
      BY <2>1, EmptyList DEF HandlesInv
    <2>4. PhaseInv(n)'
      BY <2>1, <2>2, EmptyList DEF PhaseInv
    <2>5. WaysInv(n)'
      BY <2>1, EmptyList DEF WaysInv, OneWay, HasTimer, Calls
    <2> QED
      BY <2>3, <2>4, <2>5 DEF NodeInv
  <1>7. \A b \in Nodes : b # n => listed'[b] = listed[b]
    BY <1>1 DEF TypeOK
  <1>8. listed'[n] = {}
    BY <1>1 DEF TypeOK
  <1>9. ASSUME NEW l, l \in Links PROVE LinkInv(l)'
    <2>1. CASE l \notin listed[n]
      BY <1>3, <1>7, <1>8, <1>9, <2>1, LinkKept
    <2>2. CASE l \in listed[n]
      <3>1. LinkInv(l) /\ ends[l] # NoLink
        BY <1>9, <2>2 DEF LinkInv
      <3>2. \A b \in Nodes : l \in listed'[b] <=> l \in listed[b] /\ b # n
        BY <1>7, <1>8
      <3> QED
        BY <1>3, <1>9, <2>2, <3>1, <3>2 DEF LinkInv
    <2> QED
      BY <2>1, <2>2
  <1> QED
    BY <1>1, <1>4, <1>5, <1>6, <1>9

\* A call that is refused, or a link that breaks, concerns the link alone.
LEMMA BrokenInv ==
  ASSUME NEW l, l \in Links, IInv, wire[l] # "none", wire' = [wire EXCEPT ![l] = "broken"],
         breaks' \in 0..MaxBreaks,
         UNCHANGED <<node, events, listed, routed, lost, ends, starts, misused>>
  PROVE  IInv'
  <1> USE DEF IInv
  <1>1. UNCHANGED <<phase, todo, efd, locked>>
    BY DEF node
  <1>2. TypeOK'
    BY <1>1 DEF TypeOK
  <1>3. ASSUME NEW b, b \in Nodes PROVE NodeInv(b)'
    BY <1>1, <1>3, NodeKept DEF Same
  <1>4. ASSUME NEW k, k \in Links PROVE LinkInv(k)'
    <2>1. CASE k = l
      <3>1. wire'[l] = "broken" /\ LinkInv(l)
        BY DEF TypeOK
      <3> QED
        BY <2>1, <3>1 DEF LinkInv
    <2>2. CASE k # l
      <3>1. wire'[k] = wire[k]
        BY <1>4, <2>2 DEF TypeOK
      <3> QED
        BY <1>4, <3>1, LinkKept
    <2> QED
      BY <2>1, <2>2
  <1> QED
    BY <1>2, <1>3, <1>4

LEMMA StepInv ==
  ASSUME IInv, [Next]_vars
  PROVE  IInv'
  <1>1. ASSUME NEW n, n \in Nodes, Start(n) \/ Listen(n) \/ Dial(n) \/ Wait(n) PROVE IInv'
    BY <1>1, StartInv, ListenInv, DialInv, WaitInv
  <1>2. ASSUME NEW n, n \in Nodes, InitFails(n) \/ Terminate(n) PROVE IInv'
    BY <1>2, CloseAllInv DEF InitFails, Opening, Terminate
  <1>3. ASSUME NEW n, n \in Nodes, Turn(n) \/ Accept(n) PROVE IInv'
    BY <1>3, ReportInv, TimerExpiresInv, TimerFailsInv, AcceptInv DEF Turn
  <1>4. ASSUME NEW n, n \in Nodes, Delete(n) PROVE IInv'
    BY <1>4, CloseHandleInv, ClosedInv, RouteDelInv, EnginesDelInv DEF Delete
  <1>5. ASSUME NEW n, n \in Nodes, Crash(n) PROVE IInv'
    BY <1>5, CrashInv
  <1>6. ASSUME NEW l, l \in Links, Refuse(l) PROVE IInv'
    BY <1>6, BrokenInv DEF Refuse, bounds, IInv, TypeOK
  <1>7. ASSUME NEW l, l \in Links, Break(l) PROVE IInv'
    <2>1. breaks' \in 0..MaxBreaks
      BY <1>7, BoundsAssumption DEF Break, IInv, TypeOK
    <2> QED
      BY <1>7, <2>1, BrokenInv DEF Break
  <1>8. CASE UNCHANGED vars
    <2>1. UNCHANGED <<phase, todo, efd, locked, events, listed, routed, lost, ends, wire, starts,
                      breaks, misused>>
      BY <1>8 DEF vars, node, net, bounds
    <2>2. ASSUME NEW b, b \in Nodes PROVE NodeInv(b)'
      BY <2>1, <2>2, NodeKept DEF Same, IInv
    <2> QED
      BY <2>1, <2>2, LinksKept DEF IInv, TypeOK
  <1> QED
    BY <1>1, <1>2, <1>3, <1>4, <1>5, <1>6, <1>7, <1>8 DEF Next, Opens

-----------------------------------------------------------------------------
\* The theorems.

\* The invariant: the list of handles, the links and the remotes of every process
\* agree, and the two ends of every link.
THEOREM ProviderInvariant == Spec => []IInv
  <1>1. IInv /\ [Next]_vars => IInv'
    BY StepInv
  <1> QED
    BY InitInv, <1>1, PTL DEF Spec

\* The variables have their types.
THEOREM TypeCorrect == Spec => []TypeOK
  <1>1. IInv => TypeOK
    BY DEF IInv
  <1> QED
    BY ProviderInvariant, <1>1, PTL

\* The route of a process knows the connections whose socket is registered and no
\* other, and nothing that is gone is used: not when a socket is done, not in
\* qbus_del, where the route and the engines are freed after the AIO context.
THEOREM RouteCorrect == Spec => []RouteKnowsItsConnections
  <1>1. ASSUME IInv PROVE RouteKnowsItsConnections
    <2>1. ASSUME NEW n, n \in Nodes
          PROVE  /\ routed[n] = {l \in Links : Has(n, Socket(l))}
                 /\ phase[n] \in {"down", "route", "engines"} => routed[n] = {}
      <3>1. HandlesInv(n) /\ PhaseInv(n) /\ listed[n] \subseteq Links
        BY <1>1, <2>1 DEF IInv, NodeInv, TypeOK
      <3>2. routed[n] = {l \in Links : Has(n, Socket(l))}
        BY <3>1, HasIsElem DEF HandlesInv
      <3>3. ASSUME phase[n] \in {"down", "route", "engines"} PROVE routed[n] = {}
        BY <3>1, <3>3, EmptyList DEF HandlesInv, PhaseInv
      <3> QED
        BY <3>2, <3>3
    <2> QED
      BY <1>1, <2>1 DEF IInv, RouteKnowsItsConnections
  <1> QED
    BY ProviderInvariant, <1>1, PTL

\* A running process has one way to each of its remotes - a link it has dialled,
\* or a timer that will dial again, never both and never two -, unless a socket
\* or a timer could not be created: then it has none.
THEOREM WayCorrect == Spec => []OneWayToTheRemote
  <1>1. ASSUME IInv PROVE OneWayToTheRemote
    <2> SUFFICES ASSUME NEW r, r \in Remotes, phase[r[1]] = "loop"
                 PROVE  Ways(r[1], r[2]) = IF r[2] \in lost[r[1]] THEN 0 ELSE 1
      BY DEF OneWayToTheRemote
    <2>1. PICK n, m : n = r[1] /\ m = r[2]
      OBVIOUS
    <2>2. <<n, m>> \in Remotes /\ n \in Nodes /\ m \in Nodes /\ phase[n] = "loop"
      BY <2>1, RemotePairs
    <2>3. PICK T : T = {i \in DOMAIN events[n] : events[n][i] = Timer(m)}
      OBVIOUS
    <2>4. Ways(n, m) = Cardinality(Calls(n, m)) + Cardinality(T)
      BY <2>3 DEF Ways, Calls
    <2>5. OneWay(n, m) /\ Distinct(events[n]) /\ events[n] \in Seq(Handles) /\ todo[n] = <<>>
      BY <1>1, <2>2 DEF IInv, TypeOK, NodeInv, WaysInv, HandlesInv, PhaseInv
    <2>6. IF HasTimer(n, m) THEN \E i : T = {i} ELSE T = {}
      <3>1. CASE HasTimer(n, m)
        <4>1. PICK i \in 1 .. Len(events[n]) : events[n][i] = Timer(m)
          BY <3>1 DEF HasTimer, Elems
        <4>2. T = {i}
          BY <2>3, <2>5, <4>1 DEF Distinct
        <4> QED
          BY <3>1, <4>2
      <3>2. CASE ~HasTimer(n, m)
        BY <2>3, <2>5, <3>2 DEF HasTimer, Elems
      <3> QED
        BY <3>1, <3>2
    <2>7. Cardinality(T) = IF HasTimer(n, m) THEN 1 ELSE 0
      BY <2>6, FS_EmptySet, FS_Singleton
    <2>8. Cardinality(Calls(n, m)) = IF Calls(n, m) = {} THEN 0 ELSE 1
      <3>1. CASE Calls(n, m) = {}
        BY <3>1, FS_EmptySet
      <3>2. CASE Calls(n, m) # {}
        <4>1. PICK l : l \in Calls(n, m)
          BY <3>2
        <4>2. Calls(n, m) = {l}
          BY <2>5, <4>1 DEF OneWay
        <4> QED
          BY <4>2, FS_Singleton
      <3> QED
        BY <3>1, <3>2
    <2>9. HasTimer(n, m) => Calls(n, m) = {}
      BY <2>5 DEF OneWay
    <2>10. HasTimer(n, m) \/ Calls(n, m) # {} <=> m \notin lost[n]
      BY <2>2, <2>5, EmptyList DEF OneWay
    <2>11. Ways(n, m) = IF m \in lost[n] THEN 0 ELSE 1
      BY <2>4, <2>7, <2>8, <2>9, <2>10
    <2> QED
      BY <2>1, <2>11
  <1> QED
    BY ProviderInvariant, <1>1, PTL

=============================================================================
