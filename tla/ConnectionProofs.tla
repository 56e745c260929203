-------------------------- MODULE ConnectionProofs --------------------------
(***************************************************************************)
(* Theorems about one connection: that of the web server (QWebs), and that  *)
(* of QBUS with its socket and its threads (AioSocket), for any number of    *)
(* requests, threads and frames.                                            *)
(*                                                                         *)
(* QWebs: a request is in one place - its parts on the wire, an application, *)
(* the cache, the buffer of the socket, the client -, and goes on from one    *)
(* to the next.  The wire is in the order of the requests, and a client that  *)
(* waits has one request on its way, so its last one is what the server has   *)
(* when it closes the connection.  The counter of references is the number   *)
(* of holders, so an answer never releases a connection that is served.      *)
(*                                                                         *)
(* AioSocket: the counter is one for the handle and one for the buffer, and   *)
(* what was sent, the buffer and the queue are the frames in their order.    *)
(***************************************************************************)
EXTENDS QWebs, AioSocket, SequenceTheorems, FiniteSetTheorems, WellFoundedInduction, TLAPS

\* What has been asked for: nothing after a request that closes, frames only
\* after the one for the websocket.
AskedWell ==
  /\ Len(asked) <= MaxAsked
  /\ \A p, q \in 1 .. Len(asked) :
       p < q => ~ asked[p].close /\ (asked[p].how = "up" => asked[q].how = "frame")

\* The parts arrive in the order of the requests; the last one ends its request.
WireWell ==
  \A i \in 1 .. Len(wire) :
    /\ wire[i].req <= Len(asked)
    /\ \A j \in 1 .. Len(wire) :
         i < j => wire[i].req <= wire[j].req /\ (wire[i].last => wire[i].req < wire[j].req)

Distinct(s) == \A i, j \in 1 .. Len(s) : i < j /\ s[i] # Unasked => s[i] # s[j]
Rising(s) == \A i, j \in 1 .. Len(s) : i < j /\ Unasked \notin {s[i], s[j]} => s[i] < s[j]

Behind(r) == \A i \in 1 .. Len(wire) : r < wire[i].req
Handled(r) == r \in ToSet(answers) \/ r = buf \/ r \in ToSet(cache)
Taken(r) == Handled(r) \/ r \in open

OnePlace ==
  /\ Distinct(answers) /\ Distinct(cache) /\ None \notin ToSet(cache)
  /\ \A r \in 1 .. MaxAsked :
       /\ r \in ToSet(answers) => r # buf /\ r \notin ToSet(cache)
       /\ r = buf => r \notin ToSet(cache)
       /\ Handled(r) => r \notin open
       /\ Taken(r) => r <= Len(asked) /\ Behind(r)

Patience ==
  patient => /\ \A q \in 1 .. Len(asked) - 1 : q \in ToSet(answers)
             /\ Rising(answers)

One(b) == IF b THEN 1 ELSE 0
Counted ==
  refcnt = One(status = "served") + One(buf # None) + One(here # None) + Cardinality(open)

Changed ==
  /\ upgraded => \E p \in 1 .. Len(asked) : asked[p].how = "up"
  /\ ~ upgraded => Unasked \notin ToSet(cache)

Ending == closing => wire = << >> /\ Len(asked) > 0 /\ asked[Len(asked)].close

\* The last request is with the server: in its last part, with an application, or
\* answered.
OnItsWay(c) == (\E i \in 1 .. Len(wire) : wire[i].req = c /\ wire[i].last) \/ Taken(c)

Calm ==
  patient /\ ~ left /\ status = "served" =>
    /\ open # {} => active /\ here = None
    /\ here # None => active
    /\ Len(asked) > 0 /\ asked[Len(asked)].close => OnItsWay(Len(asked))

Closed ==
  status # "served" /\ ~ left /\ patient =>
    /\ Len(asked) > 0 /\ asked[Len(asked)].close
    /\ Len(asked) \in ToSet(answers)

WebInv == TypeOK /\ AskedWell /\ WireWell /\ OnePlace /\ Patience /\ Counted /\ Changed
        /\ Ending /\ Calm /\ Closed

-----------------------------------------------------------------------------
(* Sequences. *)

Slots == -1 .. MaxAsked

\* The members of a sequence.
LEMMA ToSetOf ==
  ASSUME NEW S, NEW s \in Seq(S)
  PROVE  \A x : x \in ToSet(s) <=> \E i \in 1 .. Len(s) : s[i] = x
BY DEF ToSet

\* Two sequences, one behind the other.
LEMMA ToSetAppended ==
  ASSUME NEW S, NEW s \in Seq(S), NEW t \in Seq(S)
  PROVE  /\ s \o t \in Seq(S) /\ Len(s \o t) = Len(s) + Len(t)
         /\ ToSet(s \o t) = ToSet(s) \union ToSet(t)
         /\ \A i \in 1 .. Len(s) : (s \o t)[i] = s[i]
         /\ \A i \in 1 .. Len(t) : (s \o t)[Len(s) + i] = t[i]
         /\ \A i \in 1 .. Len(s \o t) : i \in 1 .. Len(s) \/ i - Len(s) \in 1 .. Len(t)
<1>1. s \o t \in Seq(S) /\ Len(s \o t) = Len(s) + Len(t) /\ Len(s) \in Nat /\ Len(t) \in Nat
  OBVIOUS
<1>2. \A i \in 1 .. Len(s) : (s \o t)[i] = s[i]
  OBVIOUS
<1>3. \A i \in 1 .. Len(t) : (s \o t)[Len(s) + i] = t[i]
  OBVIOUS
<1>4. \A i \in 1 .. Len(s \o t) : i \in 1 .. Len(s) \/ i - Len(s) \in 1 .. Len(t)
  BY <1>1
<1>5. ASSUME NEW x
      PROVE  x \in ToSet(s \o t) <=> x \in ToSet(s) \/ x \in ToSet(t)
  <2>1. ASSUME NEW i \in 1 .. Len(s \o t), (s \o t)[i] = x
        PROVE  x \in ToSet(s) \/ x \in ToSet(t)
    <3>1. CASE i \in 1 .. Len(s)
      BY <2>1, <3>1, <1>2, ToSetOf
    <3>2. CASE i - Len(s) \in 1 .. Len(t)
      <4>1. (s \o t)[Len(s) + (i - Len(s))] = t[i - Len(s)]
        BY <3>2, <1>3
      <4>2. Len(s) + (i - Len(s)) = i
        BY <1>1
      <4> QED
        BY <2>1, <3>2, <4>1, <4>2, ToSetOf
    <3> QED
      BY <3>1, <3>2, <1>4
  <2>2. ASSUME NEW i \in 1 .. Len(s), s[i] = x
        PROVE  x \in ToSet(s \o t)
    <3>1. i \in 1 .. Len(s \o t) /\ (s \o t)[i] = x
      BY <2>2, <1>1, <1>2
    <3> QED
      BY <3>1, <1>1, ToSetOf
  <2>3. ASSUME NEW i \in 1 .. Len(t), t[i] = x
        PROVE  x \in ToSet(s \o t)
    <3>1. Len(s) + i \in 1 .. Len(s \o t) /\ (s \o t)[Len(s) + i] = x
      BY <2>3, <1>1, <1>3
    <3> QED
      BY <3>1, <1>1, ToSetOf
  <2> QED
    BY <2>1, <2>2, <2>3, <1>1, ToSetOf
<1> QED
  BY <1>1, <1>2, <1>3, <1>4, <1>5

\* They have no answer twice when neither has, and none is in both.
LEMMA DistinctAppended ==
  ASSUME NEW S, NEW s \in Seq(S), NEW t \in Seq(S), Distinct(s), Distinct(t),
         \A x \in ToSet(t) : x = Unasked \/ x \notin ToSet(s)
  PROVE  Distinct(s \o t)
<1> SUFFICES ASSUME NEW i \in 1 .. Len(s \o t), NEW j \in 1 .. Len(s \o t), i < j,
                    (s \o t)[i] # Unasked
             PROVE  (s \o t)[i] # (s \o t)[j]
  BY DEF Distinct
<1>1. Len(s) \in Nat /\ Len(t) \in Nat /\ Len(s \o t) = Len(s) + Len(t)
  OBVIOUS
<1>2. CASE j \in 1 .. Len(s)
  <2>1. i \in 1 .. Len(s)
    BY <1>1, <1>2
  <2> QED
    BY <1>2, <2>1, ToSetAppended DEF Distinct
<1>3. CASE j - Len(s) \in 1 .. Len(t) /\ i \in 1 .. Len(s)
  <2>1. (s \o t)[i] = s[i] /\ (s \o t)[Len(s) + (j - Len(s))] = t[j - Len(s)]
    BY <1>3, ToSetAppended
  <2>2. Len(s) + (j - Len(s)) = j
    BY <1>1
  <2>3. s[i] \in ToSet(s) /\ t[j - Len(s)] \in ToSet(t)
    BY <1>3, ToSetOf
  <2> QED
    BY <2>1, <2>2, <2>3
<1>4. CASE j - Len(s) \in 1 .. Len(t) /\ i - Len(s) \in 1 .. Len(t)
  <2>1. /\ (s \o t)[Len(s) + (i - Len(s))] = t[i - Len(s)]
        /\ (s \o t)[Len(s) + (j - Len(s))] = t[j - Len(s)]
    BY <1>4, ToSetAppended
  <2>2. Len(s) + (j - Len(s)) = j /\ Len(s) + (i - Len(s)) = i
    BY <1>1
  <2>3. i - Len(s) < j - Len(s)
    BY <1>1
  <2> QED
    BY <1>4, <2>1, <2>2, <2>3 DEF Distinct
<1> QED
  BY <1>2, <1>3, <1>4, ToSetAppended

\* What is kept of a line of answers.
LEMMA KeptOf ==
  ASSUME NEW S, NEW s \in Seq(S)
  PROVE  /\ Kept(s) \in Seq(S) /\ Len(Kept(s)) <= Limit
         /\ ToSet(Kept(s)) \subseteq ToSet(s)
         /\ Distinct(s) => Distinct(Kept(s))
         /\ Len(s) <= Limit => Kept(s) = s
<1>1. Limit \in Nat /\ Len(s) \in Nat
  BY WebsAssumption
<1>2. CASE Len(s) <= Limit
  BY <1>2 DEF Kept
<1>3. CASE ~ Len(s) <= Limit
  <2>1. Kept(s) = SubSeq(s, 1, Limit)
    BY <1>3 DEF Kept
  <2>2. /\ Kept(s) \in Seq(S) /\ Len(Kept(s)) = Limit
        /\ \A i \in 1 .. Limit : Kept(s)[i] = s[i] /\ i \in 1 .. Len(s)
    <3>1. \A i \in 1 .. Limit : i \in 1 .. Len(s) /\ s[i] \in S
      BY <1>1, <1>3
    <3> QED
      BY <1>1, <2>1, <3>1
  <2>3. ToSet(Kept(s)) \subseteq ToSet(s)
    BY <2>2, ToSetOf
  <2>4. Distinct(s) => Distinct(Kept(s))
    BY <2>2 DEF Distinct
  <2> QED
    BY <1>1, <1>3, <2>2, <2>3, <2>4
<1> QED
  BY <1>2, <1>3

\* The first of a line of answers and the others.
LEMMA HeadAndTail ==
  ASSUME NEW S, NEW s \in Seq(S), s # << >>
  PROVE  /\ Head(s) \in S /\ Tail(s) \in Seq(S) /\ Len(Tail(s)) = Len(s) - 1
         /\ ToSet(s) = {Head(s)} \union ToSet(Tail(s))
         /\ Distinct(s) => Distinct(Tail(s))
         /\ Distinct(s) /\ Head(s) # Unasked => Head(s) \notin ToSet(Tail(s))
<1>1. /\ Len(s) \in Nat \ {0} /\ Head(s) = s[1] /\ Head(s) \in S
      /\ Tail(s) \in Seq(S) /\ Len(Tail(s)) = Len(s) - 1
      /\ \A i \in 1 .. Len(s) - 1 : Tail(s)[i] = s[i + 1]
  OBVIOUS
<1>2. ASSUME NEW x
      PROVE  x \in ToSet(s) <=> x = Head(s) \/ x \in ToSet(Tail(s))
  <2>1. ASSUME NEW i \in 1 .. Len(s), s[i] = x
        PROVE  x = Head(s) \/ x \in ToSet(Tail(s))
    <3>1. CASE i = 1
      BY <2>1, <3>1, <1>1
    <3>2. CASE i # 1
      <4>1. i - 1 \in 1 .. Len(Tail(s)) /\ Tail(s)[i - 1] = s[(i - 1) + 1] /\ (i - 1) + 1 = i
        BY <3>2, <1>1
      <4> QED
        BY <2>1, <4>1, <1>1, ToSetOf
    <3> QED
      BY <3>1, <3>2
  <2>2. ASSUME NEW i \in 1 .. Len(Tail(s)), Tail(s)[i] = x
        PROVE  x \in ToSet(s)
    <3>1. i + 1 \in 1 .. Len(s) /\ s[i + 1] = x
      BY <2>2, <1>1
    <3> QED
      BY <3>1, ToSetOf
  <2>3. Head(s) \in ToSet(s)
    <3>1. 1 \in 1 .. Len(s) /\ s[1] = Head(s)
      BY <1>1
    <3> QED
      BY <3>1, ToSetOf
  <2>4. x \in ToSet(s) <=> \E i \in 1 .. Len(s) : s[i] = x
    BY ToSetOf
  <2>5. x \in ToSet(Tail(s)) <=> \E i \in 1 .. Len(Tail(s)) : Tail(s)[i] = x
    BY <1>1, ToSetOf
  <2> QED
    BY <2>1, <2>2, <2>3, <2>4, <2>5
<1>3. Distinct(s) => Distinct(Tail(s))
  <2> SUFFICES ASSUME Distinct(s), NEW i \in 1 .. Len(Tail(s)), NEW j \in 1 .. Len(Tail(s)), i < j,
                      Tail(s)[i] # Unasked
               PROVE  Tail(s)[i] # Tail(s)[j]
    BY DEF Distinct
  <2>1. i + 1 \in 1 .. Len(s) /\ j + 1 \in 1 .. Len(s) /\ i + 1 < j + 1
        /\ Tail(s)[i] = s[i + 1] /\ Tail(s)[j] = s[j + 1]
    BY <1>1
  <2> QED
    BY <2>1 DEF Distinct
<1>4. ASSUME Distinct(s), Head(s) # Unasked, Head(s) \in ToSet(Tail(s))
      PROVE  FALSE
  <2>1. PICK i \in 1 .. Len(Tail(s)) : Tail(s)[i] = Head(s)
    <3>1. \E i \in 1 .. Len(Tail(s)) : Tail(s)[i] = Head(s)
      <4>1. Tail(s) \in Seq(S)
        BY <1>1
      <4> QED
        BY <1>4, <4>1, ToSetOf
    <3> QED
      BY <3>1
  <2>2. i + 1 \in 1 .. Len(s) /\ 1 \in 1 .. Len(s) /\ 1 < i + 1 /\ s[i + 1] = s[1] /\ s[1] # Unasked
    BY <1>1, <1>4, <2>1
  <2> QED
    BY <1>4, <2>2 DEF Distinct
<1> QED
  BY <1>1, <1>2, <1>3, <1>4

\* The kernel takes one more answer.
LEMMA OneMoreAnswer ==
  ASSUME NEW S, NEW s \in Seq(S), NEW x \in S, S \subseteq Int
  PROVE  /\ Append(s, x) \in Seq(S) /\ ToSet(Append(s, x)) = ToSet(s) \union {x}
         /\ Distinct(s) /\ (x = Unasked \/ x \notin ToSet(s)) => Distinct(Append(s, x))
         /\ Rising(s) /\ (x = Unasked \/ \A y \in ToSet(s) : y < x) => Rising(Append(s, x))
<1>1. /\ Len(s) \in Nat /\ Append(s, x) \in Seq(S) /\ Len(Append(s, x)) = Len(s) + 1
      /\ \A i \in 1 .. Len(s) : Append(s, x)[i] = s[i]
      /\ Append(s, x)[Len(s) + 1] = x
  OBVIOUS
<1>2. \A i \in 1 .. Len(Append(s, x)) : i \in 1 .. Len(s) \/ i = Len(s) + 1
  BY <1>1
<1>3. ToSet(Append(s, x)) = ToSet(s) \union {x}
  <2>1. Len(s) + 1 \in 1 .. Len(Append(s, x)) /\ 1 .. Len(s) \subseteq 1 .. Len(Append(s, x))
    BY <1>1
  <2>2. ASSUME NEW y
        PROVE  y \in ToSet(Append(s, x)) <=> y \in ToSet(s) \/ y = x
    <3>1. y \in ToSet(s) <=> \E i \in 1 .. Len(s) : s[i] = y
      BY ToSetOf
    <3>2. y \in ToSet(Append(s, x)) <=> \E i \in 1 .. Len(Append(s, x)) : Append(s, x)[i] = y
      BY <1>1, ToSetOf
    <3> QED
      BY <1>1, <1>2, <2>1, <3>1, <3>2
  <2> QED
    BY <2>2
<1>4. \A i \in 1 .. Len(s) : s[i] \in ToSet(s)
  BY ToSetOf
<1>5. \A i, j \in 1 .. Len(Append(s, x)) : i < j => i \in 1 .. Len(s)
  BY <1>1
<1>6. Distinct(s) /\ (x = Unasked \/ x \notin ToSet(s)) => Distinct(Append(s, x))
  BY <1>1, <1>2, <1>4, <1>5 DEF Distinct
<1>7. Rising(s) /\ (x = Unasked \/ \A y \in ToSet(s) : y < x) => Rising(Append(s, x))
  BY <1>1, <1>2, <1>4, <1>5 DEF Rising
<1> QED
  BY <1>1, <1>3, <1>6, <1>7

\* A sequence in the order of its numbers.
LEMMA InOrderOf ==
  ASSUME NEW S, S \subseteq 1 .. MaxAsked, NEW list \in InOrder(S)
  PROVE  /\ list \in Seq(Slots) /\ ToSet(list) \subseteq S /\ Distinct(list)
<1>1. IsFiniteSet(S)
  <2>1. MaxAsked \in Nat
    BY WebsAssumption
  <2>2. IsFiniteSet(1 .. MaxAsked)
    BY <2>1, FS_Interval
  <2> QED
    BY <2>2, FS_Subset
<1>2. Cardinality(S) \in Nat
  BY <1>1, FS_CardinalityType
<1>3. /\ list \in [1 .. Cardinality(S) -> S]
      /\ \A i, j \in DOMAIN list : i < j => list[i] < list[j]
  BY DEF InOrder
<1>4. list \in Seq(S) /\ Len(list) = Cardinality(S) /\ DOMAIN list = 1 .. Len(list)
  BY <1>2, <1>3
<1>a. \A i \in 1 .. Len(list) : list[i] \in S
  BY <1>4, ElementOfSeq
<1>5. S \subseteq Slots
  BY WebsAssumption DEF Slots
<1>6. list \in Seq(Slots)
  <2>1. \A i \in 1 .. Len(list) : list[i] \in Slots
    BY <1>a, <1>5
  <2> QED
    BY <1>2, <1>3, <1>4, <2>1
<1>7. ToSet(list) \subseteq S
  BY <1>4, ToSetOf
<1>8. Distinct(list)
  <2> SUFFICES ASSUME NEW i \in 1 .. Len(list), NEW j \in 1 .. Len(list), i < j
               PROVE  list[i] # list[j]
    BY DEF Distinct
  <2>1. list[i] < list[j]
    BY <1>3, <1>4
  <2>2. list[i] \in 1 .. MaxAsked
    BY <1>a
  <2> QED
    BY <2>1, <2>2
<1> QED
  BY <1>6, <1>7, <1>8
-----------------------------------------------------------------------------
(* Parts and the client. *)

Part == [req : 1 .. MaxAsked, last : BOOLEAN]

\* What the type invariant says, with the names of this module.
LEMMA Types ==
  ASSUME TypeOK
  PROVE  /\ wire \in Seq(Part) /\ here \in 0 .. MaxAsked /\ open \subseteq 1 .. MaxAsked
         /\ cache \in Seq(Slots) /\ Len(cache) <= Limit /\ buf \in Slots
         /\ armed \in BOOLEAN /\ active \in BOOLEAN /\ closing \in BOOLEAN
         /\ upgraded \in BOOLEAN /\ left \in BOOLEAN /\ patient \in BOOLEAN
         /\ dropped \in BOOLEAN /\ misused \in BOOLEAN
         /\ refcnt \in Nat /\ status \in {"served", "removed", "freed"}
         /\ asked \in Seq(Requests \union {Frame}) /\ pushed \in 0 .. MaxPushed
         /\ answers \in Seq(Slots)
BY DEF TypeOK, Part, Slots

\* Only requests that are answered now or later may close the connection.
LEMMA WhoCloses ==
  ASSUME TypeOK, NEW p \in 1 .. Len(asked), asked[p].close
  PROVE  asked[p].how \in {"now", "later"}
<1>1. asked[p] \in Requests \union {Frame}
  BY Types
<1>2. CASE asked[p] \in [how : {"now", "later"}, close : BOOLEAN]
  BY <1>2
<1>3. CASE asked[p] \in [how : {"up", "odd"}, close : {FALSE}]
  BY <1>3
<1>4. CASE asked[p] = Frame
  BY <1>4 DEF Frame
<1> QED
  BY <1>1, <1>2, <1>3, <1>4 DEF Requests

\* A request closes the connection or does not.
LEMMA ClosesOrNot ==
  ASSUME TypeOK, NEW p \in 1 .. Len(asked)
  PROVE  asked[p].close \in BOOLEAN
<1>1. asked[p] \in Requests \union {Frame}
  BY Types
<1>2. CASE asked[p] \in [how : {"now", "later"}, close : BOOLEAN]
  BY <1>2
<1>3. CASE asked[p] \in [how : {"up", "odd"}, close : {FALSE}]
  BY <1>3
<1>4. CASE asked[p] = Frame
  BY <1>4 DEF Frame
<1> QED
  BY <1>1, <1>2, <1>3, <1>4 DEF Requests

\* Once the connection was switched nothing that was asked for closes it.
LEMMA SwitchedStays ==
  ASSUME TypeOK, AskedWell, NEW u \in 1 .. Len(asked), asked[u].how = "up",
         NEW p \in 1 .. Len(asked)
  PROVE  ~ asked[p].close
<1>1. Len(asked) \in Nat
  BY Types
<1>2. CASE p < u
  BY <1>2 DEF AskedWell
<1>3. CASE p = u
  BY <1>3, WhoCloses
<1>4. CASE u < p
  <2>1. asked[p].how = "frame"
    BY <1>4 DEF AskedWell
  <2> QED
    BY <2>1, WhoCloses
<1> QED
  BY <1>1, <1>2, <1>3, <1>4

\* A read stops behind a request for another protocol, or takes all.
LEMMA ReadsUpTo ==
  ASSUME TypeOK, NEW n \in 1 .. Len(wire)
  PROVE  \E k \in 1 .. n : /\ ReadUpTo(SubSeq(wire, 1, n)) = wire[k]
                           /\ k = n \/ wire[k].last
<1> DEFINE parts == SubSeq(wire, 1, n)
           stops == {i \in DOMAIN parts : parts[i].last /\ Upgrades(parts[i].req)}
<1>1. wire \in Seq(Part) /\ Len(wire) \in Nat
  BY Types
<1>2. /\ parts \in Seq(Part) /\ Len(parts) = n /\ DOMAIN parts = 1 .. n
      /\ \A i \in 1 .. n : parts[i] = wire[i]
  BY <1>1
<1> HIDE DEF parts
<1>3. CASE stops = {}
  <2>1. ReadUpTo(parts) = parts[n]
    BY <1>2, <1>3 DEF ReadUpTo, Last
  <2> QED
    BY <1>1, <1>2, <2>1 DEF parts
<1>4. CASE stops # {}
  <2>1. stops \subseteq Nat
    BY <1>1, <1>2
  <2>2. \E i \in stops : \A j \in stops : i <= j
    <3> HIDE DEF stops
    <3> DEFINE R == {x \in Nat \X Nat : x[1] < x[2]}
    <3>1. IsWellFoundedOn(R, Nat)
      BY NatLessThanWellFounded DEF OpToRel
    <3>2. PICK i \in stops : \A j \in stops : ~ (<<j, i>> \in R)
      BY <1>4, <2>1, <3>1, WFMin
    <3>3. ASSUME NEW j \in stops
          PROVE  i <= j
      <4>1. i \in Nat /\ j \in Nat
        BY <2>1
      <4>2. j < i => <<j, i>> \in R
        BY <4>1
      <4> QED
        BY <3>2, <4>1, <4>2
    <3> QED
      BY <3>3
  <2> DEFINE first == CHOOSE i \in stops : \A j \in stops : i <= j
  <2>3. first \in stops
    BY <2>2
  <2>4. ReadUpTo(parts) = parts[first]
    BY <1>4 DEF ReadUpTo
  <2>5. first \in 1 .. n /\ parts[first].last
    BY <1>2, <2>3
  <2> HIDE DEF first
  <2> QED
    BY <1>2, <2>4, <2>5 DEF parts
<1> QED
  BY <1>3, <1>4

\* What is left of the parts after a read.
LEMMA Rest ==
  ASSUME TypeOK, WireWell, NEW n \in 1 .. Len(wire),
         wire' = SubSeq(wire, n + 1, Len(wire)), asked' = asked
  PROVE  /\ wire' \in Seq(Part) /\ WireWell'
         /\ \A r \in Nat : Behind(r) => Behind(r)'
         /\ \A r \in Nat : (\E k \in 1 .. n : wire[k].last /\ wire[k].req = r) => Behind(r)'
         /\ \A i \in n + 1 .. Len(wire) : i - n \in 1 .. Len(wire') /\ wire'[i - n] = wire[i]
<1>1. wire \in Seq(Part) /\ Len(wire) \in Nat
  BY Types
<1>2. /\ wire' \in Seq(Part) /\ Len(wire') = Len(wire) - n
      /\ \A i \in 1 .. Len(wire') : n + i \in 1 .. Len(wire) /\ wire'[i] = wire[n + i]
  BY <1>1
<1>3. WireWell'
  <2> SUFFICES ASSUME NEW i \in 1 .. Len(wire')
               PROVE  /\ wire'[i].req <= Len(asked)
                      /\ \A j \in 1 .. Len(wire') :
                           i < j => /\ wire'[i].req <= wire'[j].req
                                    /\ wire'[i].last => wire'[i].req < wire'[j].req
    BY DEF WireWell
  <2>1. n + i \in 1 .. Len(wire) /\ wire'[i] = wire[n + i]
    BY <1>2
  <2>2. \A j \in 1 .. Len(wire') : i < j => n + i < n + j
    BY <1>1, <1>2
  <2> QED
    BY <1>2, <2>1, <2>2 DEF WireWell
<1>4. \A r \in Nat : Behind(r) => Behind(r)'
  BY <1>2 DEF Behind
<1>5. ASSUME NEW k \in 1 .. n, wire[k].last, NEW i \in 1 .. Len(wire')
      PROVE  wire[k].req < wire'[i].req
  <2>1. n + i \in 1 .. Len(wire) /\ wire'[i] = wire[n + i] /\ k \in 1 .. Len(wire) /\ k < n + i
    BY <1>1, <1>2
  <2> QED
    BY <1>5, <2>1 DEF WireWell
<1>6. \A i \in n + 1 .. Len(wire) : i - n \in 1 .. Len(wire') /\ wire'[i - n] = wire[i]
  <2> SUFFICES ASSUME NEW i \in n + 1 .. Len(wire)
               PROVE  i - n \in 1 .. Len(wire') /\ wire'[i - n] = wire[i]
    OBVIOUS
  <2>1. i - n \in 1 .. Len(wire') /\ n + (i - n) = i
    BY <1>1, <1>2
  <2> QED
    BY <1>2, <2>1
<1>7. \A r \in Nat : (\E k \in 1 .. n : wire[k].last /\ wire[k].req = r) => Behind(r)'
  BY <1>5 DEF Behind
<1> QED
  BY <1>2, <1>3, <1>4, <1>6, <1>7

\* A request that is still being read is in no other place.
LEMMA NotTaken ==
  ASSUME TypeOK, OnePlace, NEW i \in 1 .. Len(wire)
  PROVE  wire[i].req \in 1 .. MaxAsked /\ ~ Taken(wire[i].req)
<1>1. wire[i].req \in 1 .. MaxAsked
  <2>1. wire[i] \in Part
    BY Types
  <2> QED
    BY <2>1 DEF Part
<1>2. ~ wire[i].req < wire[i].req
  BY <1>1
<1> QED
  BY <1>1, <1>2 DEF OnePlace, Behind

\* The client that waits has one request on its way, and nothing else is open.
LEMMA OneAtATime ==
  ASSUME TypeOK, WireWell, OnePlace, Patience, patient, NEW i \in 1 .. Len(wire)
  PROVE  /\ wire[i].req = Len(asked)
         /\ \A r \in 1 .. MaxAsked : Taken(r) => r \in ToSet(answers)
         /\ open = {}
<1>1. wire[i].req \in 1 .. MaxAsked /\ ~ Taken(wire[i].req) /\ Len(asked) \in Nat
  BY NotTaken, Types
<1>2. wire[i].req <= Len(asked)
  BY DEF WireWell
<1>3. wire[i].req = Len(asked)
  <2> SUFFICES ASSUME wire[i].req # Len(asked)
               PROVE  FALSE
    OBVIOUS
  <2>1. wire[i].req \in 1 .. Len(asked) - 1
    BY <1>1, <1>2
  <2> QED
    BY <1>1, <2>1 DEF Patience, Taken, Handled
<1>4. ASSUME NEW r \in 1 .. MaxAsked, Taken(r)
      PROVE  r \in ToSet(answers)
  <2>1. r < wire[i].req
    BY <1>4 DEF OnePlace, Behind
  <2>2. r \in 1 .. Len(asked) - 1
    BY <1>1, <1>3, <2>1
  <2> QED
    BY <2>2 DEF Patience
<1>5. open = {}
  <2> SUFFICES ASSUME NEW r \in open
               PROVE  FALSE
    OBVIOUS
  <2>1. r \in 1 .. MaxAsked /\ Taken(r)
    BY Types DEF Taken
  <2>2. Handled(r)
    BY <1>4, <2>1 DEF Handled
  <2> QED
    BY <2>1, <2>2 DEF OnePlace
<1> QED
  BY <1>3, <1>4, <1>5
-----------------------------------------------------------------------------
(* Answers on their way. *)

\* A line without an answer.
LEMMA NoneIn == ToSet(<< >>) = {} /\ Distinct(<< >>) /\ << >> \in Seq(Slots)
BY DEF ToSet, Distinct

\* A line of one answer.
LEMMA OneIn ==
  ASSUME NEW x \in Slots
  PROVE  ToSet(<<x>>) = {x} /\ Distinct(<<x>>) /\ <<x>> \in Seq(Slots) /\ Len(<<x>>) = 1
BY DEF ToSet, Distinct

\* What the cache holds after a send.
LEMMA Sent ==
  ASSUME TypeOK, NEW list \in Seq(Slots), Send(list)
  PROVE  /\ cache' \in Seq(Slots) /\ Len(cache') <= Limit
         /\ armed' \in BOOLEAN /\ dropped' \in BOOLEAN
         /\ ToSet(cache') \subseteq ToSet(cache) \union ToSet(list)
         /\ /\ Distinct(cache) /\ Distinct(list)
            /\ \A x \in ToSet(list) : x = Unasked \/ x \notin ToSet(cache)
            => Distinct(cache')
         /\ cache = << >> /\ Len(list) = 1 => cache' = list
<1>1. cache \in Seq(Slots) /\ cache \o list \in Seq(Slots)
  BY Types
<1>2. cache' = Kept(cache \o list)
  BY DEF Send
<1>3. cache' \in Seq(Slots) /\ Len(cache') <= Limit /\ ToSet(cache') \subseteq ToSet(cache \o list)
  BY <1>1, <1>2, KeptOf
<1>4. ToSet(cache \o list) = ToSet(cache) \union ToSet(list)
  BY <1>1, ToSetAppended
<1>5. ASSUME Distinct(cache), Distinct(list),
             \A x \in ToSet(list) : x = Unasked \/ x \notin ToSet(cache)
      PROVE  Distinct(cache')
  <2>1. Distinct(cache \o list)
    BY <1>1, <1>5, DistinctAppended
  <2> QED
    BY <1>1, <1>2, <2>1, KeptOf
<1>6. ASSUME cache = << >>, Len(list) = 1
      PROVE  cache' = list
  <2>1. cache \o list = list
    BY <1>6
  <2>2. Len(list) <= Limit
    BY <1>6, WebsAssumption
  <2> QED
    BY <1>2, <2>1, <2>2, KeptOf
<1>7. armed' \in BOOLEAN /\ dropped' \in BOOLEAN
  BY Types DEF Send
<1> QED
  BY <1>3, <1>4, <1>5, <1>6, <1>7

\* The new answers were in no place before, and the requests that are open were
\* open or in no place.
LEMMA SentOnePlace ==
  ASSUME TypeOK, OnePlace, NEW list,
         ToSet(cache') \subseteq ToSet(cache) \union ToSet(list), Distinct(cache'),
         None \notin ToSet(list),
         answers' = answers, buf' = buf, asked' = asked,
         \A r \in 1 .. MaxAsked : Behind(r) => Behind(r)',
         \A r \in 1 .. MaxAsked :
           r \in ToSet(list) =>
             ~ Handled(r) /\ r \notin open' /\ r <= Len(asked) /\ Behind(r)',
         \A r \in 1 .. MaxAsked :
           r \in open' => r \in open \/ (~ Handled(r) /\ r <= Len(asked) /\ Behind(r)')
  PROVE  OnePlace'
<1>1. Distinct(answers)' /\ Distinct(cache)' /\ None \notin ToSet(cache')
  BY DEF OnePlace, Distinct
<1>2. ASSUME NEW r \in 1 .. MaxAsked
      PROVE  /\ r \in ToSet(answers) => r # buf /\ r \notin ToSet(cache')
             /\ r = buf => r \notin ToSet(cache')
             /\ r \in ToSet(answers) \/ r = buf \/ r \in ToSet(cache') => r \notin open'
             /\ r \in ToSet(answers) \/ r = buf \/ r \in ToSet(cache') \/ r \in open' =>
                  r <= Len(asked) /\ Behind(r)'
  BY DEF OnePlace, Handled, Taken
<1> QED
  BY <1>1, <1>2 DEF OnePlace, Handled, Taken

\* A client that waits, and is not switched, has nothing in the cache that it
\* has no answer to.
LEMMA CacheIsEmpty ==
  ASSUME TypeOK, OnePlace, Changed, ~ upgraded,
         \A r \in 1 .. MaxAsked : r \notin ToSet(cache)
  PROVE  cache = << >>
<1>1. cache \in Seq(Slots)
  BY Types
<1>2. \A i \in 1 .. Len(cache) : cache[i] \in ToSet(cache) /\ cache[i] \in Slots
  BY <1>1, ToSetOf
<1>3. \A x \in Slots : x = None \/ x = Unasked \/ x \in 1 .. MaxAsked
  BY WebsAssumption DEF Slots, None, Unasked
<1>4. \A i \in 1 .. Len(cache) : FALSE
  BY <1>2, <1>3 DEF OnePlace, Changed
<1>5. Len(cache) \in Nat
  BY <1>1
<1>6. Len(cache) = 0
  BY <1>4, <1>5
<1> QED
  BY <1>1, <1>6

\* The number of requests that are open.
LEMMA OpenCount ==
  ASSUME open \subseteq 1 .. MaxAsked
  PROVE  /\ IsFiniteSet(open) /\ Cardinality(open) \in Nat
         /\ \A r : r \notin open => Cardinality(open \union {r}) = Cardinality(open) + 1
         /\ \A r \in open : /\ Cardinality(open \ {r}) = Cardinality(open) - 1
                            /\ Cardinality(open) >= 1
<1>1. IsFiniteSet(1 .. MaxAsked)
  BY WebsAssumption, FS_Interval
<1>2. IsFiniteSet(open)
  BY <1>1, FS_Subset
<1>3. Cardinality(open) \in Nat
  BY <1>2, FS_CardinalityType
<1>4. \A r : r \notin open => Cardinality(open \union {r}) = Cardinality(open) + 1
  BY <1>2, FS_AddElement
<1>5. \A r \in open : Cardinality(open \ {r}) = Cardinality(open) - 1
  BY <1>2, FS_RemoveElement
<1>6. ASSUME NEW r \in open
      PROVE  Cardinality(open) >= 1
  <2>1. IsFiniteSet(open \ {r})
    BY <1>2, FS_RemoveElement
  <2>2. Cardinality(open \ {r}) \in Nat
    BY <2>1, FS_CardinalityType
  <2> QED
    BY <1>3, <1>5, <2>2
<1> QED
  BY <1>2, <1>3, <1>4, <1>5, <1>6
-----------------------------------------------------------------------------
(* The steps of the client. *)

\* A connection starts with nothing asked and one reference.
LEMMA WebInvInit == Init => WebInv
<1> SUFFICES ASSUME Init PROVE WebInv
  OBVIOUS
<1>1. MaxAsked \in Nat /\ MaxPushed \in Nat /\ Limit \in Nat \ {0}
  BY WebsAssumption
<1>2. TypeOK
  <2>1. wire \in Seq(Part) /\ cache \in Seq(Slots) /\ answers \in Seq(Slots)
        /\ asked \in Seq(Requests \union {Frame}) /\ Len(cache) = 0
    BY DEF Init
  <2>2. here \in 0 .. MaxAsked /\ buf \in Slots /\ open \subseteq 1 .. MaxAsked
        /\ pushed \in 0 .. MaxPushed /\ Len(cache) <= Limit
    BY <1>1, <2>1 DEF Init, None, Slots
  <2>3. /\ {armed, active, closing, upgraded, left, patient, dropped, misused} \subseteq BOOLEAN
        /\ refcnt \in Nat /\ status \in {"served", "removed", "freed"}
    BY DEF Init
  <2> QED
    BY <2>1, <2>2, <2>3 DEF TypeOK, Part, Slots
<1>3. Len(asked) = 0 /\ Len(wire) = 0 /\ Len(answers) = 0 /\ Len(cache) = 0
  BY DEF Init
<1>4. ToSet(cache) = {} /\ ToSet(answers) = {}
  BY NoneIn DEF Init
<1>5. AskedWell /\ WireWell /\ Ending
  BY <1>1, <1>3 DEF AskedWell, WireWell, Ending, Init
<1>6. OnePlace
  BY <1>3, <1>4 DEF OnePlace, Distinct, Taken, Handled, Init, None
<1>7. Patience /\ Changed /\ Calm /\ Closed
  BY <1>3, <1>4 DEF Patience, Rising, Changed, Calm, Closed, Init
<1>8. Counted
  BY FS_EmptySet DEF Counted, One, Init
<1> QED
  BY <1>2, <1>5, <1>6, <1>7, <1>8 DEF WebInv

\* One more request, after none that closes.
LEMMA AskKeeps ==
  ASSUME WebInv, NEW item \in Requests \union {Frame}, NEW split \in BOOLEAN, Ask(item, split),
         \A p \in 1 .. Len(asked) : /\ ~ asked[p].close
                                    /\ asked[p].how = "up" => item.how = "frame"
  PROVE  WebInv'
<1>a. PICK r : r = Len(asked) + 1
  OBVIOUS
<1> DEFINE new == IF split THEN <<[req |-> r, last |-> FALSE], [req |-> r, last |-> TRUE]>>
                  ELSE <<[req |-> r, last |-> TRUE]>>
<1>1. TypeOK /\ AskedWell /\ WireWell /\ OnePlace /\ Patience /\ Counted /\ Changed
      /\ Ending /\ Calm /\ Closed
  BY DEF WebInv
<1>2. /\ ~ left /\ r <= MaxAsked /\ asked' = Append(asked, item) /\ wire' = wire \o new
      /\ patient' = (patient /\ \A q \in DOMAIN asked : IsAnswered(q))
      /\ UNCHANGED <<here, open, cache, buf, armed, active, closing, upgraded, refcnt, status,
                     left, pushed, answers, dropped, misused>>
  BY <1>a DEF Ask
<1>3. Len(asked) \in Nat /\ r \in 1 .. MaxAsked /\ Len(wire) \in Nat /\ wire \in Seq(Part)
      /\ asked \in Seq(Requests \union {Frame})
  BY <1>a, <1>1, <1>2, Types, WebsAssumption
<1>4. /\ asked' \in Seq(Requests \union {Frame}) /\ Len(asked') = r
      /\ \A p \in 1 .. Len(asked) : asked'[p] = asked[p]
      /\ asked'[r] = item
  BY <1>a, <1>2, <1>3
<1>5. /\ new \in Seq(Part) /\ Len(new) \in 1 .. 2
      /\ \A i \in 1 .. Len(new) : new[i].req = r /\ (new[i].last <=> i = Len(new))
  <2> DEFINE x == [req |-> r, last |-> FALSE]
             y == [req |-> r, last |-> TRUE]
  <2>1. x \in Part /\ y \in Part /\ x.req = r /\ y.req = r /\ ~ x.last /\ y.last
    BY <1>3 DEF Part
  <2> HIDE DEF x, y
  <2>2. new = IF split THEN <<x, y>> ELSE <<y>>
    BY DEF x, y
  <2>3. CASE split
    <3>1. new = <<x, y>> /\ Len(new) = 2 /\ new[1] = x /\ new[2] = y
      BY <2>2, <2>3
    <3> HIDE DEF new
    <3>2. \A i \in 1 .. Len(new) : i = 1 \/ i = 2
      BY <3>1
    <3>3. new \in Seq(Part)
      BY <2>1, <2>2, <2>3
    <3> QED
      BY <2>1, <3>1, <3>2, <3>3
  <2>4. CASE ~ split
    <3>1. new = <<y>> /\ Len(new) = 1 /\ new[1] = y
      BY <2>2, <2>4
    <3> HIDE DEF new
    <3>2. \A i \in 1 .. Len(new) : i = 1
      BY <3>1
    <3>3. new \in Seq(Part)
      BY <2>1, <2>2, <2>4
    <3> QED
      BY <2>1, <3>1, <3>2, <3>3
  <2> QED
    BY <2>3, <2>4
<1> HIDE DEF new
<1>6. /\ wire' \in Seq(Part) /\ Len(wire') = Len(wire) + Len(new)
      /\ \A i \in 1 .. Len(wire) : wire'[i] = wire[i]
      /\ \A i \in 1 .. Len(new) : wire'[Len(wire) + i] = new[i]
  BY <1>2, <1>3, <1>5
<1>7. ASSUME NEW i \in 1 .. Len(wire')
      PROVE  \/ i \in 1 .. Len(wire) /\ wire'[i] = wire[i]
             \/ /\ i \notin 1 .. Len(wire)
                /\ wire'[i].req = r
                /\ wire'[i].last => i = Len(wire')
  <2>1. CASE i \in 1 .. Len(wire)
    BY <2>1, <1>6
  <2>2. CASE i \notin 1 .. Len(wire)
    <3>1. i - Len(wire) \in 1 .. Len(new) /\ Len(wire) + (i - Len(wire)) = i
      BY <1>3, <1>5, <1>6, <2>2
    <3>2. wire'[i] = new[i - Len(wire)]
      BY <3>1, <1>6
    <3>3. new[i - Len(wire)].last => i - Len(wire) = Len(new)
      BY <3>1, <1>5
    <3> QED
      BY <1>3, <1>5, <1>6, <2>2, <3>1, <3>2, <3>3
  <2> QED
    BY <2>1, <2>2
<1>8. AskedWell'
  <2> SUFFICES ASSUME NEW p \in 1 .. Len(asked'), NEW q \in 1 .. Len(asked'), p < q
               PROVE  ~ asked'[p].close /\ (asked'[p].how = "up" => asked'[q].how = "frame")
    BY <1>2, <1>4 DEF AskedWell
  <2>1. p \in 1 .. Len(asked) /\ asked'[p] = asked[p] /\ ~ asked[p].close
    BY <1>a, <1>3, <1>4
  <2>2. CASE q \in 1 .. Len(asked)
    BY <1>1, <1>4, <2>1, <2>2 DEF AskedWell
  <2>3. CASE q = r
    BY <1>4, <2>1, <2>3
  <2>4. q \in 1 .. Len(asked) \/ q = r
    BY <1>a, <1>3, <1>4
  <2> QED
    BY <2>1, <2>2, <2>3, <2>4, Zenon
<1>9. WireWell'
  <2> SUFFICES ASSUME NEW i \in 1 .. Len(wire')
               PROVE  /\ wire'[i].req <= Len(asked')
                      /\ \A j \in 1 .. Len(wire') :
                           i < j => /\ wire'[i].req <= wire'[j].req
                                    /\ wire'[i].last => wire'[i].req < wire'[j].req
    BY DEF WireWell
  <2>1. CASE i \in 1 .. Len(wire)
    <3>1. wire'[i] = wire[i] /\ wire[i].req <= Len(asked) /\ wire[i].req \in Nat
      <4>1. wire[i] \in Part
        BY <1>3, <2>1
      <4> QED
        BY <1>1, <1>6, <2>1, <4>1, WebsAssumption DEF WireWell, Part
    <3>2. wire'[i].req < r
      BY <1>a, <1>3, <3>1
    <3>3. ASSUME NEW j \in 1 .. Len(wire'), i < j
          PROVE  /\ wire'[i].req <= wire'[j].req
                 /\ wire'[i].last => wire'[i].req < wire'[j].req
      <4>1. CASE j \in 1 .. Len(wire) /\ wire'[j] = wire[j]
        BY <1>1, <2>1, <3>1, <3>3, <4>1 DEF WireWell
      <4>2. CASE wire'[j].req = r
        BY <1>3, <3>1, <3>2, <4>2
      <4> QED
        BY <1>7, <4>1, <4>2
    <3> QED
      BY <1>a, <1>3, <1>4, <3>2, <3>1, <3>3
  <2>2. CASE i \notin 1 .. Len(wire)
    <3>1. wire'[i].req = r /\ (wire'[i].last => i = Len(wire'))
      BY <1>7, <2>2
    <3>2. ASSUME NEW j \in 1 .. Len(wire'), i < j
          PROVE  wire'[j].req = r /\ i # Len(wire')
      <4>1. j \notin 1 .. Len(wire)
        BY <1>3, <2>2, <3>2
      <4>2. i # Len(wire')
        BY <1>3, <1>5, <1>6, <3>2
      <4> QED
        BY <1>7, <4>1, <4>2
    <3> QED
      BY <1>3, <1>4, <3>1, <3>2
  <2> QED
    BY <2>1, <2>2
<1>10. \A x \in 1 .. MaxAsked : x <= Len(asked) /\ Behind(x) => x <= Len(asked') /\ Behind(x)'
  <2> SUFFICES ASSUME NEW x \in 1 .. MaxAsked, x <= Len(asked), Behind(x)
               PROVE  x <= Len(asked') /\ Behind(x)'
    OBVIOUS
  <2>1. x < r /\ x <= Len(asked')
    BY <1>a, <1>3, <1>4
  <2>2. \A i \in 1 .. Len(wire') : x < wire'[i].req
    BY <1>7, <2>1 DEF Behind
  <2> QED
    BY <2>1, <2>2 DEF Behind
<1>11. OnePlace'
  BY <1>1, <1>2, <1>10 DEF OnePlace, Distinct, Handled, Taken
<1>12. patient' => patient /\ \A q \in 1 .. Len(asked) : q \in ToSet(answers)
  BY <1>1, <1>2, <1>3, Types DEF IsAnswered
<1>13. Patience'
  <2>1. Len(asked') - 1 = Len(asked)
    BY <1>a, <1>3, <1>4
  <2> QED
    BY <1>1, <1>2, <1>12, <2>1 DEF Patience, Rising
<1>14. Counted'
  BY <1>1, <1>2 DEF Counted
<1>15. Changed'
  <2>1. 1 .. Len(asked) \subseteq 1 .. Len(asked')
    BY <1>a, <1>3, <1>4
  <2> QED
    BY <1>1, <1>2, <1>4, <2>1 DEF Changed
<1>16. Len(asked) > 0 => ~ asked[Len(asked)].close
  BY <1>3
<1>17. Ending'
  BY <1>1, <1>2, <1>16 DEF Ending
<1>18. Calm'
  <2>1. Len(wire') \in 1 .. Len(wire') /\ wire'[Len(wire')].req = r /\ wire'[Len(wire')].last
    <3>a. Len(new) \in 1 .. 2
      BY <1>5, Zenon
    <3>0. Len(new) \in Nat /\ Len(new) >= 1
      BY <3>a
    <3>1. Len(wire') \in 1 .. Len(wire')
      BY <1>3, <1>6, <3>0
    <3>2. Len(new) \in 1 .. Len(new)
      BY <3>0
    <3>3. wire'[Len(wire')] = new[Len(new)]
      BY <1>6, <3>2
    <3> QED
      BY <1>5, <3>1, <3>2, <3>3
  <2>2. OnItsWay(r)'
    BY <1>4, <2>1 DEF OnItsWay
  <2> QED
    BY <1>1, <1>2, <1>4, <1>12, <2>2 DEF Calm
<1>19. Closed'
  BY <1>1, <1>2, <1>12, <1>16 DEF Closed
<1>20. TypeOK'
  <2>1. patient' \in BOOLEAN
    BY <1>1, <1>2, Types
  <2> QED
    BY <1>1, <1>2, <1>4, <1>6, <2>1, Types DEF TypeOK, Part
<1> QED
  BY <1>8, <1>9, <1>11, <1>13, <1>14, <1>15, <1>17, <1>18, <1>19, <1>20 DEF WebInv

\* The client asks for what it may ask for.
LEMMA AskNextKeeps ==
  ASSUME WebInv, AskNext
  PROVE  WebInv'
<1> DEFINE ups == {q \in DOMAIN asked : asked[q].how = "up"}
<1>1. asked \in Seq(Requests \union {Frame}) /\ DOMAIN asked = 1 .. Len(asked)
  BY Types DEF WebInv
<1>2. PICK split \in BOOLEAN :
        \/ /\ ups # {} /\ \A q \in ups : IsAnswered(q)
           /\ Ask(Frame, split)
        \/ /\ ups = {} /\ \A q \in DOMAIN asked : ~ asked[q].close
           /\ \E item \in Requests : Ask(item, split)
  BY DEF AskNext
<1>3. CASE ups # {} /\ Ask(Frame, split)
  <2>1. PICK u \in 1 .. Len(asked) : asked[u].how = "up"
    BY <1>1, <1>3
  <2>2. \A p \in 1 .. Len(asked) : ~ asked[p].close
    BY <2>1, SwitchedStays DEF WebInv
  <2>3. Frame.how = "frame"
    BY DEF Frame
  <2> QED
    BY <1>3, <2>2, <2>3, AskKeeps
<1>4. CASE ups = {} /\ (\A q \in DOMAIN asked : ~ asked[q].close)
           /\ \E item \in Requests : Ask(item, split)
  <2>1. PICK item \in Requests : Ask(item, split)
    BY <1>4
  <2>2. \A p \in 1 .. Len(asked) : ~ asked[p].close /\ asked[p].how # "up"
    BY <1>1, <1>4
  <2> QED
    BY <2>1, <2>2, AskKeeps
<1> QED
  BY <1>2, <1>3, <1>4

\* What was on its way may be lost, from its end.
LEMMA LeaveKeeps ==
  ASSUME WebInv, Leave
  PROVE  WebInv'
<1>1. TypeOK /\ AskedWell /\ WireWell /\ OnePlace /\ Patience /\ Counted /\ Changed
      /\ Ending /\ Calm /\ Closed
  BY DEF WebInv
<1>2. PICK n \in 0 .. Len(wire) : wire' = SubSeq(wire, 1, n)
  BY DEF Leave
<1>3. /\ left' = TRUE
      /\ UNCHANGED <<here, open, cache, buf, armed, active, closing, upgraded, refcnt, status,
                     asked, patient, pushed, answers, dropped, misused>>
  BY DEF Leave
<1>4. wire \in Seq(Part) /\ Len(wire) \in Nat
  BY <1>1, Types
<1>5. /\ wire' \in Seq(Part) /\ Len(wire') = n
      /\ \A i \in 1 .. Len(wire') : i \in 1 .. Len(wire) /\ wire'[i] = wire[i]
  BY <1>2, <1>4
<1>6. WireWell'
  BY <1>1, <1>3, <1>5 DEF WireWell
<1>7. \A r \in 1 .. MaxAsked : Behind(r) => Behind(r)'
  BY <1>5 DEF Behind
<1>8. OnePlace'
  BY <1>1, <1>3, <1>7 DEF OnePlace, Distinct, Handled, Taken
<1>9. Ending'
  BY <1>1, <1>3, <1>4, <1>5 DEF Ending
<1>10. AskedWell' /\ Patience' /\ Counted' /\ Changed'
  BY <1>1, <1>3 DEF AskedWell, Patience, Rising, Counted, Changed
<1>11. Calm' /\ Closed'
  BY <1>3 DEF Calm, Closed
<1>12. TypeOK'
  BY <1>1, <1>3, <1>5 DEF TypeOK, Part
<1> QED
  BY <1>6, <1>8, <1>9, <1>10, <1>11, <1>12 DEF WebInv
-----------------------------------------------------------------------------
(* Reading. *)

\* A read takes the first n parts.
Takes(n) ==
  /\ n \in 1 .. Len(wire) /\ wire' = SubSeq(wire, n + 1, Len(wire))
  /\ status = "served"
  /\ UNCHANGED <<buf, status, left, asked, patient, pushed, answers, misused>>

\* What every read keeps.
LEMMA ReadKeeps ==
  ASSUME WebInv, NEW n, Takes(n)
  PROVE  /\ AskedWell' /\ WireWell' /\ Patience' /\ Closed' /\ wire' \in Seq(Part)
         /\ \A r \in 1 .. MaxAsked : Behind(r) => Behind(r)'
         /\ \A r \in 1 .. MaxAsked : (\E k \in 1 .. n : wire[k].last /\ wire[k].req = r) => Behind(r)'
         /\ \A i \in n + 1 .. Len(wire) : i - n \in 1 .. Len(wire') /\ wire'[i - n] = wire[i]
         /\ ~ closing
<1>1. TypeOK /\ AskedWell /\ WireWell /\ Patience /\ Ending
  BY DEF WebInv
<1>2. /\ n \in 1 .. Len(wire) /\ wire' = SubSeq(wire, n + 1, Len(wire))
      /\ status' = "served" /\ asked' = asked /\ patient' = patient /\ answers' = answers
  BY DEF Takes
<1>3. 1 .. MaxAsked \subseteq Nat
  OBVIOUS
<1>4. WireWell' /\ wire' \in Seq(Part)
  BY <1>1, <1>2, Rest
<1>5. \A r \in 1 .. MaxAsked : Behind(r) => Behind(r)'
  BY <1>1, <1>2, <1>3, Rest
<1>6. \A r \in 1 .. MaxAsked : (\E k \in 1 .. n : wire[k].last /\ wire[k].req = r) => Behind(r)'
  BY <1>1, <1>2, <1>3, Rest
<1>7. \A i \in n + 1 .. Len(wire) : i - n \in 1 .. Len(wire') /\ wire'[i - n] = wire[i]
  BY <1>1, <1>2, Rest
<1>8. ~ closing
  <2>1. wire # << >>
    BY <1>2
  <2> QED
    BY <1>1, <2>1 DEF Ending
<1>9. AskedWell' /\ Patience' /\ Closed'
  BY <1>1, <1>2 DEF AskedWell, Patience, Rising, Closed
<1> QED
  BY <1>4, <1>5, <1>6, <1>7, <1>8, <1>9

\* Frames of the websocket: each that is complete is answered.
LEMMA FramesKeep ==
  ASSUME WebInv, NEW n, Takes(n), upgraded, OnFrames(SubSeq(wire, 1, n))
  PROVE  WebInv'
<1>1. TypeOK /\ AskedWell /\ WireWell /\ OnePlace /\ Patience /\ Counted /\ Changed
      /\ Ending /\ Calm /\ Closed
  BY DEF WebInv
<1>2. /\ n \in 1 .. Len(wire) /\ status = "served"
      /\ UNCHANGED <<buf, status, left, asked, patient, pushed, answers, misused>>
      /\ UNCHANGED <<here, open, active, closing, upgraded, refcnt>>
  BY DEF Takes, OnFrames
<1>3. /\ AskedWell' /\ WireWell' /\ Patience' /\ Closed' /\ wire' \in Seq(Part)
      /\ \A r \in 1 .. MaxAsked : Behind(r) => Behind(r)'
      /\ \A r \in 1 .. MaxAsked : (\E k \in 1 .. n : wire[k].last /\ wire[k].req = r) => Behind(r)'
      /\ ~ closing
  BY ReadKeeps
<1> DEFINE parts == SubSeq(wire, 1, n)
           S == {p.req : p \in {q \in ToSet(parts) : q.last}}
<1>4. wire \in Seq(Part) /\ Len(wire) \in Nat
  BY <1>1, Types
<1>5. /\ parts \in Seq(Part) /\ Len(parts) = n
      /\ \A i \in 1 .. n : parts[i] = wire[i] /\ i \in 1 .. Len(wire)
  BY <1>2, <1>4
<1>6. PICK list \in InOrder(S) : Send(list)
  BY DEF OnFrames
<1> HIDE DEF parts
<1>7. ASSUME NEW r \in S
      PROVE  \E k \in 1 .. n : wire[k].last /\ wire[k].req = r /\ k \in 1 .. Len(wire)
  <2>1. PICK p \in ToSet(parts) : p.last /\ p.req = r
    OBVIOUS
  <2>2. PICK k \in 1 .. n : parts[k] = p
    BY <1>5, ToSetOf
  <2> QED
    BY <1>5, <2>1, <2>2
<1> HIDE DEF S
<1>8. ASSUME NEW r \in S
      PROVE  r \in 1 .. MaxAsked /\ ~ Taken(r) /\ r <= Len(asked) /\ Behind(r)'
  <2>1. PICK k \in 1 .. n : wire[k].last /\ wire[k].req = r /\ k \in 1 .. Len(wire)
    BY <1>7
  <2>2. r \in 1 .. MaxAsked /\ ~ Taken(r)
    BY <1>1, <2>1, NotTaken
  <2>3. r <= Len(asked)
    BY <1>1, <2>1 DEF WireWell
  <2> QED
    BY <1>3, <2>1, <2>2, <2>3
<1>9. list \in Seq(Slots) /\ ToSet(list) \subseteq S /\ Distinct(list)
  <2>1. S \subseteq 1 .. MaxAsked
    BY <1>8
  <2> QED
    BY <1>6, <2>1, InOrderOf
<1>10. \A x \in ToSet(list) : x = Unasked \/ x \notin ToSet(cache)
  BY <1>8, <1>9 DEF Taken, Handled
<1>11. /\ cache' \in Seq(Slots) /\ Len(cache') <= Limit
       /\ armed' \in BOOLEAN /\ dropped' \in BOOLEAN
       /\ ToSet(cache') \subseteq ToSet(cache) \union ToSet(list)
  BY <1>1, <1>6, <1>9, Sent
<1>12. Distinct(cache')
  <2>1. Distinct(cache)
    BY <1>1 DEF OnePlace
  <2> QED
    BY <1>1, <1>6, <1>9, <1>10, <2>1, Sent
<1>13. OnePlace'
  <2>1. None \notin ToSet(list)
    BY <1>8, <1>9 DEF None
  <2>2. \A r \in 1 .. MaxAsked :
          r \in ToSet(list) => ~ Handled(r) /\ r \notin open' /\ r <= Len(asked) /\ Behind(r)'
    BY <1>2, <1>8, <1>9 DEF Taken
  <2>3. \A r \in 1 .. MaxAsked :
          r \in open' => r \in open \/ (~ Handled(r) /\ r <= Len(asked) /\ Behind(r)')
    BY <1>2
  <2>4. answers' = answers /\ buf' = buf /\ asked' = asked
    BY <1>2
  <2>5. \A r \in 1 .. MaxAsked : Behind(r) => Behind(r)'
    BY <1>3
  <2> QED
    BY <1>1, <1>11, <1>12, <2>1, <2>2, <2>3, <2>4, <2>5, SentOnePlace
<1>14. Counted' /\ Changed' /\ Ending'
  BY <1>1, <1>2, <1>3 DEF Counted, Changed, Ending
<1>15. Calm'
  <2>1. PICK u \in 1 .. Len(asked) : asked[u].how = "up"
    BY <1>1 DEF Changed
  <2>2. Len(asked) > 0 => ~ asked[Len(asked)].close
    <3>1. Len(asked) \in Nat
      BY <1>1, Types
    <3> QED
      BY <1>1, <2>1, <3>1, SwitchedStays
  <2> QED
    BY <1>1, <1>2, <2>2 DEF Calm
<1>16. TypeOK'
  BY <1>1, <1>2, <1>3, <1>11, Types DEF TypeOK, Part, Slots
<1> QED
  BY <1>3, <1>13, <1>14, <1>15, <1>16 DEF WebInv

\* A part of a request that is not the last one.
LEMMA PartKeeps ==
  ASSUME WebInv, NEW n, Takes(n), ~ upgraded,
         here' \in 1 .. MaxAsked, active' = (active \/ here = None), refcnt' = refcnt + Made,
         UNCHANGED <<cache, dropped, armed, open, closing, upgraded>>,
         ~ wire[n].last
  PROVE  WebInv'
<1>1. TypeOK /\ AskedWell /\ WireWell /\ OnePlace /\ Patience /\ Counted /\ Changed
      /\ Ending /\ Calm /\ Closed
  BY DEF WebInv
<1>2. /\ n \in 1 .. Len(wire) /\ status = "served"
      /\ UNCHANGED <<buf, status, left, asked, patient, pushed, answers, misused>>
  BY DEF Takes
<1>3. /\ AskedWell' /\ WireWell' /\ Patience' /\ Closed' /\ wire' \in Seq(Part)
      /\ \A r \in 1 .. MaxAsked : Behind(r) => Behind(r)'
      /\ \A i \in n + 1 .. Len(wire) : i - n \in 1 .. Len(wire') /\ wire'[i - n] = wire[i]
      /\ ~ closing
  BY ReadKeeps
<1>4. OnePlace'
  BY <1>1, <1>2, <1>3 DEF OnePlace, Distinct, Handled, Taken
<1>5. here' # None
  BY DEF None
<1>6. Counted'
  <2>1. refcnt' = refcnt + One(here = None) /\ One(here # None) + One(here = None) = 1
    BY DEF Made, One
  <2>2. Cardinality(open) \in Nat
    BY <1>1, OpenCount, Types
  <2>3. One(status = "served") \in Nat /\ One(buf # None) \in Nat /\ One(here # None) \in Nat
        /\ One(here = None) \in Nat
    BY DEF One
  <2>4. refcnt' = One(status = "served") + One(buf # None) + 1 + Cardinality(open)
    BY <1>1, <2>1, <2>2, <2>3 DEF Counted
  <2>5. One(here' # None) = 1
    BY <1>5 DEF One
  <2> QED
    BY <1>2, <2>4, <2>5 DEF Counted
<1>7. Changed' /\ Ending'
  BY <1>1, <1>2, <1>3 DEF Changed, Ending
<1>8. Calm'
  <2> SUFFICES ASSUME patient, ~ left
               PROVE  /\ open = {} /\ active'
                      /\ Len(asked) > 0 /\ asked[Len(asked)].close => OnItsWay(Len(asked))'
    BY <1>2 DEF Calm
  <2>1. wire[n].req = Len(asked) /\ open = {}
    BY <1>1, <1>2, OneAtATime
  <2>2. active'
    BY <1>1, <1>2 DEF Calm
  <2>3. PICK c : c = Len(asked)
    OBVIOUS
  <2>4. ASSUME Len(asked) > 0, asked[Len(asked)].close
        PROVE  \E i \in 1 .. Len(wire') : wire'[i].req = c /\ wire'[i].last
    <3>1. OnItsWay(c)
      BY <1>1, <1>2, <2>3, <2>4 DEF Calm
    <3>2. ~ Taken(c)
      BY <1>1, <1>2, <2>1, <2>3, NotTaken
    <3>3. PICK i \in 1 .. Len(wire) : wire[i].req = c /\ wire[i].last
      BY <3>1, <3>2 DEF OnItsWay
    <3>4. Len(wire) \in Nat /\ c \in Nat
      BY <1>1, <2>3, Types
    <3>5. ~ i < n
      BY <1>1, <1>2, <2>1, <2>3, <3>3, <3>4 DEF WireWell
    <3>6. i # n
      BY <3>3
    <3>7. i \in n + 1 .. Len(wire)
      BY <1>2, <3>4, <3>5, <3>6
    <3> QED
      BY <1>3, <3>3, <3>7
  <2> QED
    BY <1>2, <2>1, <2>2, <2>3, <2>4 DEF OnItsWay
<1>9. TypeOK'
  <2>1. refcnt' \in Nat /\ active' \in BOOLEAN /\ here' \in 0 .. MaxAsked
    BY <1>1, Types DEF Made
  <2> QED
    BY <1>1, <1>2, <1>3, <2>1, Types DEF TypeOK, Part, Slots
<1> QED
  BY <1>3, <1>4, <1>6, <1>7, <1>8, <1>9 DEF WebInv
\* The request that a read completes.
LEMMA Completed ==
  ASSUME WebInv, NEW n, Takes(n), ~ upgraded, NEW k \in 1 .. n, wire[k].last, NEW r, r = wire[k].req
  PROVE  /\ r \in 1 .. MaxAsked /\ ~ Taken(r) /\ r <= Len(asked) /\ Behind(r)'
         /\ patient => r = Len(asked) /\ open = {} /\ cache = << >>
         /\ asked[r].close => r = Len(asked) /\ wire' = << >>
<1>1. TypeOK /\ AskedWell /\ WireWell /\ OnePlace /\ Patience /\ Changed
  BY DEF WebInv
<1>2. n \in 1 .. Len(wire) /\ asked' = asked
  BY DEF Takes
<1>3. wire \in Seq(Part) /\ Len(wire) \in Nat /\ Len(asked) \in Nat
  BY <1>1, Types
<1>4. k \in 1 .. Len(wire)
  BY <1>2, <1>3
<1>5. r \in 1 .. MaxAsked /\ ~ Taken(r)
  BY <1>1, <1>4, NotTaken
<1>6. r <= Len(asked)
  BY <1>1, <1>4 DEF WireWell
<1>7. Behind(r)'
  BY <1>5, ReadKeeps
<1>8. ASSUME patient
      PROVE  r = Len(asked) /\ open = {} /\ cache = << >>
  <2>1. r = Len(asked) /\ open = {} /\ \A x \in 1 .. MaxAsked : Taken(x) => x \in ToSet(answers)
    BY <1>1, <1>4, <1>8, OneAtATime
  <2>2. \A x \in 1 .. MaxAsked : x \notin ToSet(cache)
    BY <1>1, <2>1 DEF OnePlace, Taken, Handled
  <2> QED
    BY <1>1, <2>1, <2>2, CacheIsEmpty
<1>9. ASSUME asked[r].close
      PROVE  r = Len(asked) /\ wire' = << >>
  <2>1. r = Len(asked)
    BY <1>1, <1>3, <1>5, <1>6, <1>9 DEF AskedWell
  <2>2. WireWell' /\ wire' \in Seq(Part)
    BY ReadKeeps
  <2>3. \A i \in 1 .. Len(wire') : wire'[i].req <= Len(asked) /\ r < wire'[i].req
                                    /\ wire'[i].req \in Int
    <3>1. \A i \in 1 .. Len(wire') : wire'[i] \in Part
      BY <2>2
    <3> QED
      BY <1>2, <1>7, <2>2, <3>1 DEF WireWell, Behind, Part
  <2>4. \A i \in 1 .. Len(wire') : FALSE
    BY <1>3, <2>1, <2>3
  <2>5. Len(wire') \in Nat
    BY <2>2
  <2>6. Len(wire') = 0
    BY <2>4, <2>5
  <2> QED
    BY <2>1, <2>2, <2>6
<1> QED
  BY <1>5, <1>6, <1>7, <1>8, <1>9

\* The request r was completed: it is answered, handed over to an application or
\* forgotten.
LEMMA CompletedKeeps ==
  ASSUME WebInv, NEW n, Takes(n), ~ upgraded, NEW k \in 1 .. n, wire[k].last, NEW r, r = wire[k].req,
         \/ Send(<<r>>) /\ EndsHere
         \/ HandOver(r)
         \/ SendNothing /\ EndsHere /\ ~ asked[r].close,
         closing' \in BOOLEAN, closing' => asked[r].close,
         upgraded' \in BOOLEAN, upgraded' => asked[r].how = "up" /\ ~ asked[r].close
  PROVE  WebInv'
<1>1. TypeOK /\ AskedWell /\ WireWell /\ OnePlace /\ Patience /\ Counted /\ Changed
      /\ Ending /\ Calm /\ Closed
  BY DEF WebInv
<1>2. /\ n \in 1 .. Len(wire) /\ status = "served"
      /\ UNCHANGED <<buf, status, left, asked, patient, pushed, answers, misused>>
  BY DEF Takes
<1>3. /\ AskedWell' /\ WireWell' /\ Patience' /\ Closed' /\ wire' \in Seq(Part)
      /\ \A x \in 1 .. MaxAsked : Behind(x) => Behind(x)'
  BY ReadKeeps
<1>4. /\ r \in 1 .. MaxAsked /\ ~ Taken(r) /\ r <= Len(asked) /\ Behind(r)'
      /\ patient => r = Len(asked) /\ open = {} /\ cache = << >>
      /\ asked[r].close => r = Len(asked) /\ wire' = << >>
  BY Completed
<1>5. r \in Slots /\ r # None /\ r # Unasked /\ r \notin open
  BY <1>4, WebsAssumption DEF Slots, None, Unasked, Taken
<1> DEFINE Goal == /\ cache' \in Seq(Slots) /\ Len(cache') <= Limit
                   /\ armed' \in BOOLEAN /\ dropped' \in BOOLEAN
                   /\ Distinct(cache')
                   /\ OnePlace'
                   /\ Unasked \notin ToSet(cache')
                   /\ patient /\ asked[r].close => r \in ToSet(cache') \/ r \in open'
<1>6. Goal
  <2>1. Unasked \notin ToSet(cache) /\ Distinct(cache)
    BY <1>1 DEF Changed, OnePlace
  <2>2. answers' = answers /\ buf' = buf /\ asked' = asked
    BY <1>2
  <2>3. CASE Send(<<r>>) /\ EndsHere
    <3>1. ToSet(<<r>>) = {r} /\ Distinct(<<r>>) /\ <<r>> \in Seq(Slots) /\ Len(<<r>>) = 1
      BY <1>5, OneIn
    <3>2. PICK list : list = <<r>>
      OBVIOUS
    <3>3. /\ cache' \in Seq(Slots) /\ Len(cache') <= Limit
          /\ armed' \in BOOLEAN /\ dropped' \in BOOLEAN
          /\ ToSet(cache') \subseteq ToSet(cache) \union ToSet(list)
          /\ cache = << >> /\ Len(list) = 1 => cache' = list
      BY <1>1, <2>3, <3>1, <3>2, Sent
    <3>4. Distinct(cache')
      <4>1. \A x \in ToSet(list) : x = Unasked \/ x \notin ToSet(cache)
        BY <1>4, <3>1, <3>2 DEF Taken, Handled
      <4> QED
        BY <1>1, <2>1, <2>3, <3>1, <3>2, <4>1, Sent
    <3>5. open' = open
      BY <2>3 DEF EndsHere
    <3>6. \A x \in 1 .. MaxAsked :
            x \in ToSet(list) => ~ Handled(x) /\ x \notin open' /\ x <= Len(asked) /\ Behind(x)'
      BY <1>4, <3>1, <3>2, <3>5 DEF Taken
    <3>7. \A x \in 1 .. MaxAsked :
            x \in open' => x \in open \/ (~ Handled(x) /\ x <= Len(asked) /\ Behind(x)')
      BY <3>5
    <3>8. None \notin ToSet(list)
      BY <1>5, <3>1, <3>2
    <3>9. OnePlace'
      BY <1>1, <1>3, <2>2, <3>3, <3>4, <3>6, <3>7, <3>8, SentOnePlace
    <3>10. Unasked \notin ToSet(cache')
      BY <1>5, <2>1, <3>1, <3>2, <3>3
    <3>11. patient => r \in ToSet(cache')
      BY <1>4, <3>1, <3>2, <3>3
    <3> QED
      BY <3>3, <3>4, <3>9, <3>10, <3>11
  <2>4. ASSUME SendNothing, open' = open \/ open' = open \union {r},
               asked[r].close => r \in open'
        PROVE  Goal
    <3>1. cache' = cache /\ armed' = armed /\ dropped' = dropped
      BY <2>4 DEF SendNothing
    <3>2. /\ cache' \in Seq(Slots) /\ Len(cache') <= Limit
          /\ armed' \in BOOLEAN /\ dropped' \in BOOLEAN
      BY <1>1, <3>1, Types
    <3>3. PICK list : list = << >>
      OBVIOUS
    <3>4. ToSet(list) = {}
      BY <3>3, NoneIn
    <3>5. \A x \in 1 .. MaxAsked :
            x \in open' => x \in open \/ (~ Handled(x) /\ x <= Len(asked) /\ Behind(x)')
      BY <1>4, <2>4 DEF Taken
    <3>6. ToSet(cache') \subseteq ToSet(cache) \union ToSet(list) /\ Distinct(cache')
      BY <2>1, <3>1
    <3>7. OnePlace'
      BY <1>1, <1>3, <2>2, <3>4, <3>5, <3>6, SentOnePlace
    <3> QED
      BY <2>1, <2>4, <3>1, <3>2, <3>6, <3>7
  <2>5. CASE HandOver(r)
    BY <2>4, <2>5 DEF HandOver
  <2>6. CASE SendNothing /\ EndsHere /\ ~ asked[r].close
    BY <2>4, <2>6 DEF EndsHere
  <2> QED
    BY <2>3, <2>5, <2>6
<1>7. \/ here' = None /\ active' = FALSE /\ refcnt' = refcnt + Made - 1 /\ open' = open
      \/ /\ here' = None /\ active' = (active \/ here = None) /\ refcnt' = refcnt + Made
         /\ open' = open \union {r}
  BY DEF EndsHere, HandOver
<1>8. /\ Cardinality(open) \in Nat
      /\ Cardinality(open \union {r}) = Cardinality(open) + 1
  BY <1>1, <1>5, OpenCount, Types
<1>9. Counted'
  <2>1. Made = 1 - One(here # None) /\ One(here # None) \in 0 .. 1
    BY DEF Made, One
  <2>2. One(status = "served") \in Nat /\ One(buf # None) \in Nat /\ One(None # None) = 0
    BY DEF One
  <2>3. refcnt = One(status = "served") + One(buf # None) + One(here # None) + Cardinality(open)
    BY <1>1 DEF Counted
  <2>4. refcnt' = One(status = "served") + One(buf # None) + 0 + Cardinality(open')
    <3> DEFINE a == One(status = "served")
               b == One(buf # None)
               h == One(here # None)
    <3>1. a \in Nat /\ b \in Nat /\ h \in 0 .. 1 /\ Made = 1 - h
          /\ refcnt = a + b + h + Cardinality(open)
      BY <2>1, <2>2, <2>3
    <3> HIDE DEF a, b, h
    <3>2. ASSUME refcnt' = refcnt + Made - 1, open' = open
          PROVE  refcnt' = a + b + 0 + Cardinality(open')
      BY <1>8, <3>1, <3>2
    <3>3. ASSUME refcnt' = refcnt + Made, open' = open \union {r}
          PROVE  refcnt' = a + b + 0 + Cardinality(open')
      <4>1. Cardinality(open') = Cardinality(open) + 1
        BY <1>8, <3>3
      <4> QED
        BY <1>8, <3>1, <3>3, <4>1
    <3>4. refcnt' = a + b + 0 + Cardinality(open')
      BY <1>7, <3>2, <3>3
    <3> QED
      BY <3>4 DEF a, b
  <2> QED
    BY <1>2, <1>7, <2>2, <2>4 DEF Counted
<1>10. Changed'
  <2>1. r \in 1 .. Len(asked)
    BY <1>1, <1>4, Types
  <2> QED
    BY <1>2, <1>6, <2>1 DEF Changed
<1>11. Ending'
  <2>1. r \in 1 .. Len(asked)
    BY <1>1, <1>4, Types
  <2> QED
    BY <1>2, <1>4, <2>1 DEF Ending
<1>12. Calm'
  <2> SUFFICES ASSUME patient, ~ left
               PROVE  /\ open' # {} => active' /\ here' = None
                      /\ here' # None => active'
                      /\ Len(asked) > 0 /\ asked[Len(asked)].close => OnItsWay(Len(asked))'
    BY <1>2 DEF Calm
  <2>1. open' # {} => active'
    BY <1>1, <1>2, <1>4, <1>7 DEF Calm
  <2>2. asked[Len(asked)].close => OnItsWay(Len(asked))'
    <3>1. asked[Len(asked)].close => r \in ToSet(cache') \/ r \in open'
      BY <1>4, <1>6
    <3>2. r = Len(asked)'
      BY <1>2, <1>4
    <3> QED
      BY <3>1, <3>2 DEF OnItsWay, Taken, Handled
  <2> QED
    BY <1>7, <2>1, <2>2
<1>13. TypeOK'
  <2>1. refcnt' \in Nat
    <3>1. refcnt \in Nat /\ Made \in 0 .. 1
      BY <1>1, Types DEF Made
    <3>2. refcnt >= 1
      <4>1. One(status = "served") = 1 /\ One(buf # None) \in Nat /\ One(here # None) \in Nat
        BY <1>2 DEF One
      <4> QED
        BY <1>1, <1>8, <4>1 DEF Counted
    <3> QED
      BY <1>7, <3>1, <3>2
  <2>2. active' \in BOOLEAN
    BY <1>1, <1>7, Types
  <2>3. here' \in 0 .. MaxAsked
    BY <1>7, WebsAssumption DEF None
  <2>4. open' \subseteq 1 .. MaxAsked
    BY <1>1, <1>4, <1>7, Types
  <2> QED
    BY <1>1, <1>2, <1>3, <1>6, <2>1, <2>2, <2>3, <2>4, Types DEF TypeOK, Part, Slots
<1> QED
  BY <1>3, <1>6, <1>9, <1>10, <1>11, <1>12, <1>13 DEF WebInv

\* The connection reads.
LEMMA RecvKeeps ==
  ASSUME WebInv, Recv
  PROVE  WebInv'
<1>1. TypeOK /\ AskedWell
  BY DEF WebInv
<1>2. PICK n \in 1 .. Len(wire) :
        /\ wire' = SubSeq(wire, n + 1, Len(wire))
        /\ IF upgraded THEN OnFrames(SubSeq(wire, 1, n)) ELSE OnHttp(ReadUpTo(SubSeq(wire, 1, n)))
  BY DEF Recv
<1>3. Takes(n)
  BY <1>2 DEF Recv, Takes, client
<1>4. CASE upgraded
  BY <1>2, <1>3, <1>4, FramesKeep
<1>5. CASE ~ upgraded
  <2>1. PICK k \in 1 .. n : /\ ReadUpTo(SubSeq(wire, 1, n)) = wire[k]
                            /\ k = n \/ wire[k].last
    BY <1>1, ReadsUpTo
  <2>2. OnHttp(wire[k])
    BY <1>2, <1>5, <2>1
  <2>3. k \in 1 .. Len(wire) /\ wire[k] \in Part
    BY <1>1, Types
  <2>4. PICK r : r = wire[k].req
    OBVIOUS
  <2>5. r \in 1 .. MaxAsked
    BY <2>3, <2>4 DEF Part
  <2>6. CASE ~ wire[k].last
    <3>1. k = n
      BY <2>1, <2>6
    <3>2. here' = r /\ active' = (active \/ here = None) /\ refcnt' = refcnt + Made
          /\ SendNothing /\ UNCHANGED <<open, closing, upgraded>>
      BY <2>2, <2>4, <2>6 DEF OnHttp
    <3>3. UNCHANGED <<cache, dropped, armed, open, closing, upgraded>>
      BY <3>2 DEF SendNothing
    <3> QED
      BY <1>3, <1>5, <2>5, <2>6, <3>1, <3>2, <3>3, PartKeeps
  <2>7. CASE wire[k].last
    <3>1. Complete(r)
      BY <2>2, <2>4, <2>7 DEF OnHttp
    <3>2. r \in 1 .. Len(asked)
      <4>1. r <= Len(asked) /\ Len(asked) \in Nat
        BY <1>1, <1>3, <1>5, <2>4, <2>7, Completed, Types
      <4> QED
        BY <2>5, <4>1
    <3>3. asked[r].close => asked[r].how \in {"now", "later"}
      BY <1>1, <3>2, WhoCloses
    <3>4. asked[r].close \in BOOLEAN
      BY <1>1, <3>2, ClosesOrNot
    <3>5. ~ closing /\ closing \in BOOLEAN /\ upgraded \in BOOLEAN
      BY <1>1, <1>3, ReadKeeps, Types
    <3>6. CASE asked[r].how = "up" /\ SwitchProtocols(r)
      <4>1. Send(<<r>>) /\ EndsHere /\ upgraded' = TRUE /\ closing' = closing /\ ~ asked[r].close
        BY <3>3, <3>6 DEF SwitchProtocols
      <4> QED
        BY <1>3, <1>5, <2>4, <2>7, <3>5, <3>6, <4>1, CompletedKeeps
    <3>7. CASE asked[r].how = "odd" /\ SendNothing /\ EndsHere /\ UNCHANGED <<closing, upgraded>>
      <4>1. ~ asked[r].close
        BY <3>3, <3>7
      <4>2. SendNothing /\ EndsHere /\ ~ asked[r].close
        BY <3>7, <4>1
      <4>3. closing' \in BOOLEAN /\ ~ closing' /\ upgraded' \in BOOLEAN /\ ~ upgraded'
        BY <1>5, <3>5, <3>7
      <4> QED
        BY <1>3, <1>5, <2>4, <2>7, <4>2, <4>3, CompletedKeeps
    <3>8. CASE /\ closing' = asked[r].close
               /\ \/ asked[r].how = "now" /\ Send(<<r>>) /\ EndsHere
                  \/ asked[r].how = "later" /\ HandOver(r)
               /\ UNCHANGED upgraded
      <4>1. (Send(<<r>>) /\ EndsHere) \/ HandOver(r)
        BY <3>8
      <4>2. closing' \in BOOLEAN /\ (closing' => asked[r].close) /\ upgraded' = upgraded
        BY <3>4, <3>8
      <4> QED
        BY <1>3, <1>5, <2>4, <2>7, <3>5, <4>1, <4>2, CompletedKeeps
    <3> QED
      BY <3>1, <3>6, <3>7, <3>8 DEF Complete
  <2> QED
    BY <2>6, <2>7
<1> QED
  BY <1>4, <1>5
-----------------------------------------------------------------------------
(* Writing, and the end of the connection. *)

\* The client has left: the handle is removed.
LEMMA RecvEndKeeps ==
  ASSUME WebInv, RecvEnd
  PROVE  WebInv'
<1>1. TypeOK /\ AskedWell /\ WireWell /\ OnePlace /\ Patience /\ Counted /\ Changed
      /\ Ending /\ Calm /\ Closed
  BY DEF WebInv
<1>2. /\ status = "served" /\ left /\ buf' = None
      /\ refcnt' = refcnt - IF buf = None THEN 1 ELSE 2
      /\ status' \in {"freed", "removed"} /\ armed' = FALSE
      /\ UNCHANGED <<wire, here, open, cache, active, closing, upgraded, left, asked, patient,
                     pushed, answers, dropped, misused>>
  BY DEF RecvEnd, OnUnref, Removed, client
<1>3. Cardinality(open) \in Nat
  BY <1>1, OpenCount, Types
<1>4. refcnt' = One(here # None) + Cardinality(open)
  <2>1. refcnt = 1 + One(buf # None) + One(here # None) + Cardinality(open)
    BY <1>1, <1>2 DEF Counted, One
  <2>2. One(buf # None) = IF buf = None THEN 0 ELSE 1
    BY DEF One
  <2>3. One(here # None) \in Nat
    BY DEF One
  <2> QED
    BY <1>2, <1>3, <2>1, <2>2, <2>3
<1>5. Counted'
  <2>1. One(status' = "served") = 0 /\ One(buf' # None) = 0 /\ One(here # None) \in Nat
    BY <1>2 DEF One
  <2> QED
    BY <1>2, <1>3, <1>4, <2>1 DEF Counted
<1>6. OnePlace'
  <2>1. \A r \in 1 .. MaxAsked : r # None
    BY DEF None
  <2> QED
    BY <1>1, <1>2, <2>1 DEF OnePlace, Distinct, Handled, Taken, Behind
<1>7. AskedWell' /\ WireWell' /\ Patience' /\ Changed' /\ Ending' /\ Calm' /\ Closed'
  BY <1>1, <1>2 DEF AskedWell, WireWell, Patience, Rising, Changed, Ending, Calm, Closed
<1>8. TypeOK'
  <2>1. refcnt' \in Nat
    BY <1>3, <1>4 DEF One
  <2>2. buf' \in Slots
    BY <1>2, WebsAssumption DEF Slots, None
  <2> QED
    BY <1>1, <1>2, <2>1, <2>2, Types DEF TypeOK, Part, Slots
<1> QED
  BY <1>5, <1>6, <1>7, <1>8 DEF WebInv

\* The answer that the socket was writing is with the client.
LEMMA Taking ==
  ASSUME WebInv, answers' = IF buf = None THEN answers ELSE Append(answers, buf)
  PROVE  /\ answers' \in Seq(Slots) /\ Distinct(answers')
         /\ \A r \in 1 .. MaxAsked : r \in ToSet(answers') <=> r \in ToSet(answers) \/ r = buf
         /\ patient => Rising(answers')
<1>1. TypeOK /\ OnePlace /\ Patience
  BY DEF WebInv
<1>2. answers \in Seq(Slots) /\ buf \in Slots /\ Len(asked) \in Nat
  BY <1>1, Types
<1>3. Distinct(answers) /\ (patient => Rising(answers))
  BY <1>1 DEF OnePlace, Patience
<1>4. \A r \in 1 .. MaxAsked : r # None
  BY DEF None
<1>5. CASE buf = None
  BY <1>2, <1>3, <1>4, <1>5
<1>6. CASE buf # None
  <2>1. Slots \subseteq Int /\ (buf = Unasked \/ buf \in 1 .. MaxAsked)
    BY <1>2, <1>6, WebsAssumption DEF Slots, Unasked, None
  <2>2. answers' = Append(answers, buf)
    BY <1>6
  <2>a. Slots \subseteq Int
    BY <2>1
  <2>b. LET more == Append(answers, buf)
        IN  /\ more \in Seq(Slots) /\ ToSet(more) = ToSet(answers) \union {buf}
            /\ Distinct(answers) /\ (buf = Unasked \/ buf \notin ToSet(answers)) => Distinct(more)
            /\ Rising(answers) /\ (buf = Unasked \/ \A y \in ToSet(answers) : y < buf)
                 => Rising(more)
    BY <1>2, <2>a, OneMoreAnswer
  <2>3. answers' \in Seq(Slots) /\ ToSet(answers') = ToSet(answers) \union {buf}
    BY <2>2, <2>b
  <2>4. buf = Unasked \/ buf \notin ToSet(answers)
    BY <1>1, <2>1 DEF OnePlace
  <2>5. Distinct(answers')
    BY <1>3, <2>2, <2>4, <2>b
  <2>6. ASSUME patient, buf # Unasked, NEW y \in ToSet(answers)
        PROVE  y < buf
    <3>1. buf \in 1 .. MaxAsked /\ buf <= Len(asked) /\ buf \notin ToSet(answers)
      BY <1>1, <2>1, <2>4, <2>6 DEF OnePlace, Taken, Handled
    <3>2. ~ buf <= Len(asked) - 1
      <4>1. buf \in 1 .. Len(asked) - 1 => buf \in ToSet(answers)
        BY <1>1, <2>6 DEF Patience
      <4> QED
        BY <1>2, <3>1, <4>1
    <3>3. y \in Slots
      BY <1>2, ToSetOf
    <3>4. CASE y \in 1 .. MaxAsked
      <4>1. y <= Len(asked) /\ y # buf
        BY <1>1, <2>6, <3>1, <3>4 DEF OnePlace, Taken, Handled
      <4> QED
        BY <1>2, <3>1, <3>2, <3>4, <4>1
    <3>5. CASE y \notin 1 .. MaxAsked
      BY <3>1, <3>3, <3>5, WebsAssumption DEF Slots
    <3> QED
      BY <3>4, <3>5
  <2>7. patient => Rising(answers')
    BY <1>3, <2>2, <2>6, <2>b
  <2> QED
    BY <2>3, <2>5, <2>7
<1> QED
  BY <1>5, <1>6

\* The socket may be written: the next answer, none, or the end.
LEMMA WriteReadyKeeps ==
  ASSUME WebInv, WriteReady
  PROVE  WebInv'
<1>1. TypeOK /\ AskedWell /\ WireWell /\ OnePlace /\ Patience /\ Counted /\ Changed
      /\ Ending /\ Calm /\ Closed
  BY DEF WebInv
<1>2. PICK held : held = IF buf = None THEN 0 ELSE 1
  OBVIOUS
<1>3. /\ status = "served"
      /\ answers' = IF buf = None THEN answers ELSE Append(answers, buf)
      /\ NextOrClose(held)
      /\ UNCHANGED <<wire, here, open, active, closing, upgraded, left, asked, patient, pushed,
                     dropped>>
  BY <1>2 DEF WriteReady, OnSendReady, client
<1>4. /\ answers' \in Seq(Slots) /\ Distinct(answers')
      /\ \A r \in 1 .. MaxAsked : r \in ToSet(answers') <=> r \in ToSet(answers) \/ r = buf
      /\ patient => Rising(answers')
  BY <1>3, Taking
<1>5. Len(asked) \in Nat /\ cache \in Seq(Slots) /\ buf \in Slots /\ refcnt \in Nat
      /\ Cardinality(open) \in Nat /\ Len(cache) <= Limit
  BY <1>1, OpenCount, Types
<1>6. \A r \in 1 .. Len(asked) : r \in 1 .. MaxAsked
  BY <1>1, <1>5, WebsAssumption DEF AskedWell
<1>7. AskedWell' /\ WireWell' /\ Ending'
  BY <1>1, <1>3 DEF AskedWell, WireWell, Ending
<1>8. Patience'
  <2>1. patient => \A q \in 1 .. Len(asked) - 1 : q \in ToSet(answers')
    <3>1. \A q \in 1 .. Len(asked) - 1 : q \in 1 .. MaxAsked
      BY <1>5, <1>6
    <3> QED
      BY <1>1, <1>4, <3>1 DEF Patience
  <2> QED
    BY <1>3, <1>4, <2>1 DEF Patience
<1>9. held = One(buf # None) /\ held \in 0 .. 1 /\ One(here # None) \in Nat
      /\ refcnt = 1 + held + One(here # None) + Cardinality(open)
  <2>1. held = One(buf # None) /\ held \in 0 .. 1 /\ One(here # None) \in Nat
        /\ One(status = "served") = 1
    BY <1>2, <1>3 DEF One
  <2> QED
    BY <1>1, <2>1 DEF Counted
<1>10. \A r \in 1 .. MaxAsked : Behind(r)' <=> Behind(r)
  BY <1>3 DEF Behind
<1>11. CASE /\ cache # << >>
            /\ buf' = Head(cache) /\ cache' = Tail(cache)
            /\ refcnt' = refcnt + 1 - held
            /\ UNCHANGED <<armed, status, misused>>
  <2>1. /\ Head(cache) \in Slots /\ Tail(cache) \in Seq(Slots) /\ Len(Tail(cache)) = Len(cache) - 1
        /\ ToSet(cache) = {Head(cache)} \union ToSet(Tail(cache))
        /\ Distinct(cache) => Distinct(Tail(cache))
        /\ Distinct(cache) /\ Head(cache) # Unasked => Head(cache) \notin ToSet(Tail(cache))
    BY <1>5, <1>11, HeadAndTail
  <2>2. /\ buf' \in Slots /\ cache' \in Seq(Slots) /\ Len(cache') = Len(cache) - 1
        /\ ToSet(cache) = {buf'} \union ToSet(cache')
        /\ Distinct(cache')
        /\ buf' # Unasked => buf' \notin ToSet(cache')
    BY <1>1, <1>11, <2>1 DEF OnePlace
  <2>3. buf' # None
    BY <1>1, <2>2 DEF OnePlace
  <2>4. OnePlace'
    <3>1. \A r \in 1 .. MaxAsked : r # Unasked
      BY DEF Unasked
    <3>2. None \notin ToSet(cache')
      BY <1>1, <2>2 DEF OnePlace
    <3>3. ASSUME NEW r \in 1 .. MaxAsked
          PROVE  /\ r \in ToSet(answers') => r # buf' /\ r \notin ToSet(cache')
                 /\ r = buf' => r \notin ToSet(cache')
                 /\ r \in ToSet(answers') \/ r = buf' \/ r \in ToSet(cache') => Handled(r)
      BY <1>1, <1>4, <2>2, <3>1 DEF OnePlace, Handled
    <3> QED
      BY <1>1, <1>3, <1>4, <1>10, <2>2, <3>2, <3>3 DEF OnePlace, Handled, Taken
  <2>5. Counted'
    <3>1. One(buf' # None) = 1 /\ One(status' = "served") = 1
      BY <1>3, <1>11, <2>3 DEF One
    <3> QED
      BY <1>3, <1>5, <1>9, <1>11, <3>1 DEF Counted
  <2>6. Changed'
    BY <1>1, <1>3, <2>2 DEF Changed
  <2>7. Calm'
    <3>1. \A r \in 1 .. MaxAsked : Taken(r) => Taken(r)'
      BY <1>3, <1>4, <2>2 DEF Taken, Handled
    <3>2. PICK c : c = Len(asked)
      OBVIOUS
    <3>3. OnItsWay(c) /\ c > 0 => OnItsWay(c)'
      BY <1>3, <1>5, <1>6, <3>1, <3>2 DEF OnItsWay
    <3> QED
      BY <1>1, <1>3, <3>2, <3>3 DEF Calm
  <2>8. Closed'
    BY <1>3, <1>11 DEF Closed
  <2>9. TypeOK'
    <3>a. refcnt' \in Nat
      <4>1. refcnt' = refcnt + 1 - held /\ refcnt \in Nat /\ held \in 0 .. 1
        BY <1>5, <1>9, <1>11
      <4> QED
        BY <4>1
    <3>b. Len(cache') <= Limit
      <4>1. Len(cache) \in Nat /\ Limit \in Nat
        BY <1>5, WebsAssumption
      <4> QED
        BY <1>5, <2>2, <4>1
    <3>1. refcnt' \in Nat /\ Len(cache') <= Limit
      BY <3>a, <3>b
    <3> QED
      BY <1>1, <1>3, <1>4, <1>11, <2>2, <3>1, Types DEF TypeOK, Part, Slots
  <2> QED
    BY <1>7, <1>8, <2>4, <2>5, <2>6, <2>7, <2>8, <2>9 DEF WebInv
<1>12. CASE cache = << >> /\ buf' = None /\ cache' = cache /\ status' = status
            /\ refcnt' = refcnt - held /\ armed' = FALSE /\ misused' = misused
  <2>1. OnePlace'
    <3>1. \A r \in 1 .. MaxAsked : r # None
      BY DEF None
    <3>2. ASSUME NEW r \in 1 .. MaxAsked
          PROVE  /\ r \in ToSet(answers') => r # buf' /\ r \notin ToSet(cache')
                 /\ r # buf'
                 /\ r \in ToSet(answers') \/ r = buf' \/ r \in ToSet(cache') => Handled(r)
      BY <1>1, <1>4, <1>12, <3>1 DEF OnePlace, Handled
    <3> QED
      BY <1>1, <1>3, <1>4, <1>10, <1>12, <3>2 DEF OnePlace, Handled, Taken
  <2>2. Counted'
    <3>1. One(buf' # None) = 0 /\ One(status' = "served") = 1
      BY <1>3, <1>12 DEF One
    <3> QED
      BY <1>3, <1>5, <1>9, <1>12, <3>1 DEF Counted
  <2>3. Changed'
    BY <1>1, <1>3, <1>12 DEF Changed
  <2>4. Calm'
    <3>1. \A r \in 1 .. MaxAsked : Taken(r) => Taken(r)'
      BY <1>3, <1>4, <1>12 DEF Taken, Handled
    <3>2. PICK c : c = Len(asked)
      OBVIOUS
    <3>3. OnItsWay(c) /\ c > 0 => OnItsWay(c)'
      BY <1>3, <1>5, <1>6, <3>1, <3>2 DEF OnItsWay
    <3> QED
      BY <1>1, <1>3, <1>12, <3>2, <3>3 DEF Calm
  <2>5. Closed'
    BY <1>3, <1>12 DEF Closed
  <2>6. TypeOK'
    <3>1. refcnt' \in Nat
      <4>1. refcnt' = refcnt - held /\ refcnt \in Nat /\ held \in 0 .. 1
        BY <1>5, <1>9, <1>12
      <4>2. refcnt >= 1
        BY <1>5, <1>9
      <4> QED
        BY <4>1, <4>2
    <3>2. buf' \in Slots
      BY <1>12, WebsAssumption DEF Slots, None
    <3> QED
      BY <1>1, <1>3, <1>4, <1>12, <3>1, <3>2, Types DEF TypeOK, Part, Slots
  <2> QED
    BY <1>7, <1>8, <2>1, <2>2, <2>3, <2>4, <2>5, <2>6 DEF WebInv
<1>13. CASE /\ cache = << >> /\ ~ active /\ closing
            /\ buf' = None /\ Removed(1 + held)
            /\ misused' = (misused \/ refcnt = 1 + held) /\ cache' = cache
  <2>1. refcnt' = refcnt - (1 + held) /\ status' \in {"freed", "removed"} /\ armed' = FALSE
    BY <1>13 DEF Removed
  <2>2. OnePlace'
    <3>1. \A r \in 1 .. MaxAsked : r # None
      BY DEF None
    <3>2. ASSUME NEW r \in 1 .. MaxAsked
          PROVE  /\ r \in ToSet(answers') => r # buf' /\ r \notin ToSet(cache')
                 /\ r # buf'
                 /\ r \in ToSet(answers') \/ r = buf' \/ r \in ToSet(cache') => Handled(r)
      BY <1>1, <1>4, <1>13, <3>1 DEF OnePlace, Handled
    <3> QED
      BY <1>1, <1>3, <1>4, <1>10, <1>13, <3>2 DEF OnePlace, Handled, Taken
  <2>3. Counted'
    <3>1. One(buf' # None) = 0 /\ One(status' = "served") = 0
      BY <1>13, <2>1 DEF One
    <3> QED
      BY <1>3, <1>5, <1>9, <2>1, <3>1 DEF Counted
  <2>4. Changed' /\ Calm'
    BY <1>1, <1>3, <1>13, <2>1 DEF Changed, Calm
  <2>5. Closed'
    <3> SUFFICES ASSUME ~ left, patient
                 PROVE  /\ Len(asked) > 0 /\ asked[Len(asked)].close
                        /\ Len(asked) \in ToSet(answers')
      BY <1>3 DEF Closed
    <3>1. wire = << >> /\ Len(asked) > 0 /\ asked[Len(asked)].close
      BY <1>1, <1>13 DEF Ending
    <3>2. Taken(Len(asked))
      BY <1>1, <1>3, <3>1 DEF Calm, OnItsWay
    <3>3. open = {}
      BY <1>1, <1>3, <1>13 DEF Calm
    <3>4. ToSet(cache) = {}
      BY <1>13, NoneIn
    <3>5. Len(asked) \in 1 .. MaxAsked
      BY <1>5, <1>6, <3>1
    <3> QED
      BY <1>4, <3>1, <3>2, <3>3, <3>4, <3>5 DEF Taken, Handled
  <2>6. TypeOK'
    <3>1. refcnt' \in Nat
      <4>1. refcnt' = One(here # None) + Cardinality(open)
        BY <1>5, <1>9, <2>1
      <4> QED
        BY <1>5, <1>9, <4>1
    <3>2. buf' \in Slots
      BY <1>13, WebsAssumption DEF Slots, None
    <3>3. misused' \in BOOLEAN
      BY <1>1, <1>13, Types
    <3> QED
      BY <1>1, <1>3, <1>4, <1>13, <2>1, <3>1, <3>2, <3>3, Types DEF TypeOK, Part, Slots
  <2> QED
    BY <1>7, <1>8, <2>2, <2>3, <2>4, <2>5, <2>6 DEF WebInv
<1> QED
  BY <1>3, <1>11, <1>12, <1>13 DEF NextOrClose
-----------------------------------------------------------------------------
(* The applications. *)

\* An application answers a request that is open.
LEMMA AnswerKeeps ==
  ASSUME WebInv, NEW r, Answer(r)
  PROVE  WebInv'
<1>1. TypeOK /\ AskedWell /\ WireWell /\ OnePlace /\ Patience /\ Counted /\ Changed
      /\ Ending /\ Calm /\ Closed
  BY DEF WebInv
<1>2. /\ r \in open /\ open' = open \ {r} /\ Send(<<r>>)
      /\ refcnt' = refcnt - 1 /\ status' = (IF refcnt = 1 THEN "freed" ELSE status)
      /\ active' = FALSE /\ misused' = (misused \/ refcnt = 1)
      /\ UNCHANGED <<wire, here, buf, closing, upgraded, left, asked, patient, pushed, answers>>
  BY DEF Answer, Unref, client
<1>3. r \in 1 .. MaxAsked /\ Taken(r) /\ ~ Handled(r) /\ r <= Len(asked) /\ Behind(r)
  BY <1>1, <1>2, Types DEF OnePlace, Taken
<1>4. /\ Cardinality(open) \in Nat /\ Cardinality(open) >= 1
      /\ Cardinality(open') = Cardinality(open) - 1
  BY <1>1, <1>2, OpenCount, Types
<1>5. r \in Slots /\ r # None /\ r # Unasked
  BY <1>3, WebsAssumption DEF Slots, None, Unasked
<1>6. ToSet(<<r>>) = {r} /\ Distinct(<<r>>) /\ <<r>> \in Seq(Slots) /\ Len(<<r>>) = 1
  BY <1>5, OneIn
<1>7. PICK list : list = <<r>>
  OBVIOUS
<1>8. /\ cache' \in Seq(Slots) /\ Len(cache') <= Limit
      /\ armed' \in BOOLEAN /\ dropped' \in BOOLEAN
      /\ ToSet(cache') \subseteq ToSet(cache) \union ToSet(list)
      /\ cache = << >> /\ Len(list) = 1 => cache' = list
  BY <1>1, <1>2, <1>6, <1>7, Sent
<1>9. Distinct(cache')
  <2>1. \A x \in ToSet(list) : x = Unasked \/ x \notin ToSet(cache)
    BY <1>3, <1>6, <1>7 DEF Handled
  <2>2. Distinct(cache)
    BY <1>1 DEF OnePlace
  <2> QED
    BY <1>1, <1>2, <1>6, <1>7, <2>1, <2>2, Sent
<1>10. OnePlace'
  <2>1. answers' = answers /\ buf' = buf /\ asked' = asked
    BY <1>2
  <2>2. \A x \in 1 .. MaxAsked : Behind(x) => Behind(x)'
    BY <1>2 DEF Behind
  <2>3. \A x \in 1 .. MaxAsked :
          x \in ToSet(list) => ~ Handled(x) /\ x \notin open' /\ x <= Len(asked) /\ Behind(x)'
    BY <1>2, <1>3, <1>6, <1>7, <2>2
  <2>4. \A x \in 1 .. MaxAsked :
          x \in open' => x \in open \/ (~ Handled(x) /\ x <= Len(asked) /\ Behind(x)')
    BY <1>2
  <2>5. None \notin ToSet(list)
    BY <1>5, <1>6, <1>7
  <2> QED
    BY <1>1, <1>8, <1>9, <2>1, <2>2, <2>3, <2>4, <2>5, SentOnePlace
<1>11. One(status = "served") \in 0 .. 1 /\ One(buf # None) \in Nat /\ One(here # None) \in Nat
       /\ (status = "served" => One(status = "served") = 1)
  BY DEF One
<1>12. refcnt = One(status = "served") + One(buf # None) + One(here # None) + Cardinality(open)
  BY <1>1 DEF Counted
<1>13. status = "served" => status' = "served" /\ refcnt > 1
  BY <1>2, <1>4, <1>11, <1>12
<1>14. status # "served" => status' # "served"
  BY <1>2
<1>15. Counted'
  <2>1. One(status' = "served") = One(status = "served")
    BY <1>13, <1>14 DEF One
  <2>2. refcnt' = One(status = "served") + One(buf # None) + One(here # None) + Cardinality(open')
    BY <1>2, <1>4, <1>11, <1>12
  <2> QED
    BY <1>2, <2>1, <2>2 DEF Counted
<1>16. AskedWell' /\ WireWell' /\ Patience' /\ Ending' /\ Closed'
  BY <1>1, <1>2, <1>13 DEF AskedWell, WireWell, Patience, Rising, Ending, Closed
<1>17. Changed'
  BY <1>1, <1>2, <1>5, <1>6, <1>7, <1>8 DEF Changed
<1>18. Calm'
  <2> SUFFICES ASSUME patient, ~ left, status = "served"
               PROVE  /\ open' = {} /\ here = None
                      /\ Len(asked) > 0 /\ asked[Len(asked)].close => OnItsWay(Len(asked))'
    BY <1>2, <1>14 DEF Calm
  <2>1. Len(asked) \in Nat
    BY <1>1, Types
  <2>2. ASSUME NEW x \in open
        PROVE  x = Len(asked)
    <3>1. x \in 1 .. MaxAsked /\ x <= Len(asked) /\ x \notin ToSet(answers)
      BY <1>1, Types DEF OnePlace, Taken, Handled
    <3>2. x \notin 1 .. Len(asked) - 1
      BY <1>1, <3>1 DEF Patience
    <3> QED
      BY <2>1, <3>1, <3>2
  <2>3. open' = {} /\ r = Len(asked)
    BY <1>2, <2>2
  <2>4. here = None
    BY <1>1, <1>2 DEF Calm
  <2>5. ASSUME Len(asked) > 0, asked[Len(asked)].close
        PROVE  r \in ToSet(cache')
    <3>1. ~ upgraded
      <4>1. \A u \in 1 .. Len(asked) : asked[u].how # "up"
        BY <1>1, <2>1, <2>5, SwitchedStays
      <4> QED
        BY <1>1, <4>1 DEF Changed
    <3>2. \A x \in 1 .. MaxAsked : x \notin ToSet(cache)
      <4> SUFFICES ASSUME NEW x \in 1 .. MaxAsked, x \in ToSet(cache)
                   PROVE  FALSE
        OBVIOUS
      <4>1. x <= Len(asked) /\ x \notin ToSet(answers) /\ x # r
        BY <1>1, <1>3 DEF OnePlace, Taken, Handled
      <4>2. x \in 1 .. Len(asked) - 1
        BY <2>1, <2>3, <4>1
      <4> QED
        BY <1>1, <4>1, <4>2 DEF Patience
    <3>3. cache = << >>
      BY <1>1, <3>1, <3>2, CacheIsEmpty
    <3> QED
      BY <1>6, <1>7, <1>8, <3>3
  <2>6. r = Len(asked)'
    BY <1>2, <2>3
  <2> QED
    BY <2>3, <2>4, <2>5, <2>6 DEF OnItsWay, Taken, Handled
<1>19. TypeOK'
  <2>1. refcnt' \in Nat
    <3>1. refcnt' = refcnt - 1 /\ refcnt \in Nat
      BY <1>1, <1>2, Types
    <3>2. refcnt >= 1
      BY <1>4, <1>11, <1>12
    <3> QED
      BY <3>1, <3>2
  <2>2. misused' \in BOOLEAN /\ active' \in BOOLEAN
    BY <1>1, <1>2, Types
  <2>3. status' \in {"served", "removed", "freed"} /\ open' \subseteq 1 .. MaxAsked
    BY <1>1, <1>2, Types
  <2> QED
    BY <1>1, <1>2, <1>8, <2>1, <2>2, <2>3, Types DEF TypeOK, Part, Slots
<1> QED
  BY <1>10, <1>15, <1>16, <1>17, <1>18, <1>19 DEF WebInv

\* The application sends a frame of its own.
LEMMA PushKeeps ==
  ASSUME WebInv, Push
  PROVE  WebInv'
<1>1. TypeOK /\ AskedWell /\ WireWell /\ OnePlace /\ Patience /\ Counted /\ Changed
      /\ Ending /\ Calm /\ Closed
  BY DEF WebInv
<1>2. /\ upgraded /\ pushed < MaxPushed /\ pushed' = pushed + 1 /\ Send(<<Unasked>>)
      /\ UNCHANGED <<wire, here, open, buf, active, closing, upgraded, refcnt, status, left,
                     asked, patient, answers, misused>>
  BY DEF Push, client
<1>3. Unasked \in Slots /\ Unasked # None /\ \A x \in 1 .. MaxAsked : x # Unasked
  BY WebsAssumption DEF Slots, None, Unasked
<1>4. PICK list : list = <<Unasked>>
  OBVIOUS
<1>5. ToSet(list) = {Unasked} /\ Distinct(list) /\ list \in Seq(Slots)
  BY <1>3, <1>4, OneIn
<1>6. Send(list)
  BY <1>2, <1>4
<1>7. /\ cache' \in Seq(Slots) /\ Len(cache') <= Limit
      /\ armed' \in BOOLEAN /\ dropped' \in BOOLEAN
      /\ ToSet(cache') \subseteq ToSet(cache) \union ToSet(list)
  BY <1>1, <1>5, <1>6, Sent
<1>8. Distinct(cache')
  <2>1. Distinct(cache)
    BY <1>1 DEF OnePlace
  <2> QED
    BY <1>1, <1>5, <1>6, <2>1, Sent
<1>9. OnePlace'
  <2>1. answers' = answers /\ buf' = buf /\ asked' = asked /\ open' = open
    BY <1>2
  <2>2. \A x \in 1 .. MaxAsked : Behind(x) => Behind(x)'
    BY <1>2 DEF Behind
  <2> QED
    BY <1>1, <1>3, <1>5, <1>7, <1>8, <2>1, <2>2, SentOnePlace
<1>10. AskedWell' /\ WireWell' /\ Patience' /\ Counted' /\ Changed' /\ Ending' /\ Closed'
  BY <1>1, <1>2 DEF AskedWell, WireWell, Patience, Rising, Counted, Changed, Ending, Closed
<1>11. Calm'
  <2>1. Len(asked) > 0 => ~ asked[Len(asked)].close
    <3>1. Len(asked) \in Nat
      BY <1>1, Types
    <3>2. PICK u \in 1 .. Len(asked) : asked[u].how = "up"
      BY <1>1, <1>2 DEF Changed
    <3> QED
      BY <1>1, <3>1, <3>2, SwitchedStays
  <2> QED
    BY <1>1, <1>2, <2>1 DEF Calm
<1>12. TypeOK'
  <2>1. pushed' \in 0 .. MaxPushed
    BY <1>1, <1>2, Types, WebsAssumption
  <2> QED
    BY <1>1, <1>2, <1>7, <2>1, Types DEF TypeOK, Part, Slots
<1> QED
  BY <1>9, <1>10, <1>11, <1>12 DEF WebInv

-----------------------------------------------------------------------------
(* The theorems. *)

\* Every step keeps the invariant.
LEMMA WebInvNext == WebInv /\ [Next]_vars => WebInv'
<1> SUFFICES ASSUME WebInv, [Next]_vars PROVE WebInv'
  OBVIOUS
<1>1. CASE AskNext
  BY <1>1, AskNextKeeps
<1>2. CASE Leave
  BY <1>2, LeaveKeeps
<1>3. CASE Recv
  BY <1>3, RecvKeeps
<1>4. CASE RecvEnd
  BY <1>4, RecvEndKeeps
<1>5. CASE WriteReady
  BY <1>5, WriteReadyKeeps
<1>6. ASSUME NEW r \in 1 .. MaxAsked, Answer(r)
      PROVE  WebInv'
  BY <1>6, AnswerKeeps
<1>7. CASE Push
  BY <1>7, PushKeeps
<1>8. CASE UNCHANGED vars
  <2>1. UNCHANGED <<wire, here, open, cache, buf, armed, active, closing, upgraded, refcnt, status,
                    left, asked, patient, pushed, answers, dropped, misused>>
    BY <1>8 DEF vars, client
  <2>2. (TypeOK <=> TypeOK') /\ (AskedWell <=> AskedWell') /\ (WireWell <=> WireWell')
    BY <2>1 DEF TypeOK, AskedWell, WireWell
  <2>3. (OnePlace <=> OnePlace') /\ (Patience <=> Patience')
    BY <2>1 DEF OnePlace, Patience, Distinct, Rising, Handled, Taken, Behind
  <2>4. (Counted <=> Counted') /\ (Changed <=> Changed') /\ (Closed <=> Closed')
    BY <2>1 DEF Counted, Changed, Closed, Handled, Taken, Behind, OnItsWay
  <2>5. (Ending <=> Ending') /\ (Calm <=> Calm')
    BY <2>1 DEF Ending, Calm, Handled, Taken, Behind, OnItsWay
  <2> QED
    BY <2>2, <2>3, <2>4, <2>5 DEF WebInv
<1> QED
  BY <1>1, <1>2, <1>3, <1>4, <1>5, <1>6, <1>7, <1>8 DEF Next

\* The invariant says that the answers are right.
LEMMA WebInvAnswers == WebInv => AnswersAreRight
<1> SUFFICES ASSUME WebInv PROVE AnswersAreRight
  OBVIOUS
<1>1. TypeOK /\ OnePlace /\ Patience /\ Closed
  BY DEF WebInv
<1>2. answers \in Seq(Slots) /\ asked \in Seq(Requests \union {Frame}) /\ Len(asked) \in Nat
  BY <1>1, Types
<1>3. DOMAIN answers = 1 .. Len(answers) /\ DOMAIN asked = 1 .. Len(asked)
  BY <1>2
<1>4. OnceInOrder
  BY <1>1, <1>3 DEF OnceInOrder, OnePlace, Patience, Distinct, Rising
<1>5. ClosedWhenAnswered
  <2> SUFFICES ASSUME status # "served", ~ left, patient
               PROVE  /\ Last(asked).close
                      /\ \A r \in DOMAIN asked : asked[r].how # "odd" => IsAnswered(r)
    BY DEF ClosedWhenAnswered
  <2>1. asked[Len(asked)].close /\ Len(asked) \in ToSet(answers)
    BY <1>1 DEF Closed
  <2>2. \A r \in 1 .. Len(asked) : r = Len(asked) \/ r \in 1 .. Len(asked) - 1
    BY <1>2
  <2>3. \A r \in 1 .. Len(asked) : r \in ToSet(answers)
    BY <1>1, <2>1, <2>2 DEF Patience
  <2> QED
    BY <1>3, <2>1, <2>3 DEF Last, IsAnswered
<1> QED
  BY <1>4, <1>5 DEF AnswersAreRight

\* The connection has its types: in particular its counter of references never
\* falls below zero.
THEOREM WebTypeCorrect == Spec => []TypeOK
<1>1. WebInv => TypeOK
  BY DEF WebInv
<1> QED
  BY <1>1, WebInvInit, WebInvNext, PTL DEF Spec

\* No request is answered twice, a client that waits gets its answers in its
\* order, and its connection is closed only behind the answer to a request that
\* asked for it.
THEOREM WebAnswersCorrect == Spec => []AnswersAreRight
<1> QED
  BY WebInvAnswers, WebInvInit, WebInvNext, PTL DEF Spec

-----------------------------------------------------------------------------
(* The connection of QBUS: its counter of references. *)

\* What the reference counter depends on: the queue holds frames (a frame is
\* never taken for the empty buffer), and no buffer outlives the socket.
SocketCounted ==
  /\ queue \in Seq(Nat \ {0})
  /\ sockPushed \in Nat
  /\ sockBuf \in Nat
  /\ sockRefcnt \in Int
  /\ freed \in BOOLEAN
  /\ freed => pc = "wait"
  /\ RefcountIsRight

\* The counter after the next frame, if there is one, became the buffer.
LEMMA SendNextCounted ==
  ASSUME SocketCounted, NEW m, NEW refs \in Int, SendNext(m, refs)
  PROVE  /\ queue' \in Seq(Nat \ {0})
         /\ sockBuf' \in Nat
         /\ sockRefcnt' = IF sockBuf' = NoFrame THEN refs ELSE refs + 1
<1>1. CASE queue = <<>>
  BY <1>1 DEF SendNext, SocketCounted, NoFrame
<1>2. CASE queue # <<>>
  <2>1. Head(queue) \in Nat \ {0} /\ Tail(queue) \in Seq(Nat \ {0})
    BY <1>2 DEF SocketCounted
  <2> QED BY <1>2, <2>1 DEF SendNext, NoFrame
<1> QED BY <1>1, <1>2

\* A frame that is put into the queue is not the empty buffer.
LEMMA PushCounted ==
  ASSUME SocketCounted, PushFrame
  PROVE  queue' \in Seq(Nat \ {0}) /\ sockPushed' \in Nat
BY DEF PushFrame, SocketCounted

\* A connection is started with an empty queue and the reference of the handle.
LEMMA CountedInit == SocketInit => SocketCounted
<1> SUFFICES ASSUME SocketInit PROVE SocketCounted
  OBVIOUS
<1>1. queue = <<>> /\ queue \in Seq(Nat \ {0})
  BY DEF SocketInit
<1>2. sockPushed \in Nat /\ sockBuf \in Nat /\ sockRefcnt \in Int /\ freed = FALSE
  BY DEF SocketInit, NoFrame
<1>3. RefcountIsRight
  BY DEF SocketInit, RefcountIsRight, NoFrame
<1> QED BY <1>1, <1>2, <1>3 DEF SocketCounted

\* Removing the handle gives up one reference for the handle and one for a buffer.
LEMMA RemoveCounted ==
  ASSUME SocketCounted, RemoveHandle
  PROVE  SocketCounted'
<1> DEFINE held == IF sockBuf # NoFrame THEN 2 ELSE 1
<1>1. held \in Int /\ sockRefcnt \in Int
  BY DEF SocketCounted
<1>2. sockRefcnt' = sockRefcnt - held /\ freed' = (sockRefcnt <= held)
  BY DEF RemoveHandle, OnSocketUnref
<1>3. ~ freed /\ (net # "reset" => sockRefcnt = held)
  BY DEF RemoveHandle, SocketCounted, RefcountIsRight
<1>4. sockRefcnt' \in Int /\ freed' \in BOOLEAN
  BY <1>1, <1>2
<1>5. net' # "reset" => freed'
  <2>1. net' = net
    BY DEF RemoveHandle
  <2> HIDE DEF held
  <2>2. net # "reset" => sockRefcnt <= held
    BY <1>1, <1>3
  <2> QED BY <1>2, <2>1, <2>2, Zenon
<1>6. RefcountIsRight'
  BY <1>5 DEF RefcountIsRight
<1>7. queue' = queue /\ sockPushed' = sockPushed /\ sockBuf' \in Nat /\ pc' = "wait"
  BY DEF RemoveHandle, NoFrame
<1> QED BY <1>4, <1>6, <1>7 DEF SocketCounted

\* Every step keeps the counter right.
LEMMA CountedNext == SocketCounted /\ [SocketNext]_socketVars => SocketCounted'
<1> SUFFICES ASSUME SocketCounted, [SocketNext]_socketVars PROVE SocketCounted'
  OBVIOUS
<1> USE DEF SocketCounted, RefcountIsRight
<1>1. CASE SendFromLoop
  BY <1>1, PushCounted DEF SendFromLoop, sockVars
<1>2. ASSUME NEW t \in Threads, SendPush(t) PROVE SocketCounted'
  BY <1>2, PushCounted DEF SendPush
<1>3. ASSUME NEW t \in Threads,
             \/ SendTest(t) \/ SendMark(t)
             \/ SendModify(t) \/ SendFlags(t)
      PROVE  SocketCounted'
  BY <1>3 DEF SendTest, SendMark, SendModify, SendFlags, Touched
<1>4. CASE Wake \/ ReadEnd \/ ReturnMask
          \/ ClearMask \/ StoreFlags \/ Arm
  BY <1>4
    DEF Wake, ReadEnd, ReturnMask, ClearMask, StoreFlags,
        Arm, sockVars
<1>5. CASE Enter
  BY <1>5 DEF Enter
<1>6. CASE ReadFrame
  BY <1>6, PushCounted DEF ReadFrame, sockVars
<1>7. CASE WriteNothing
  BY <1>7, SendNextCounted DEF WriteNothing, NoFrame
<1>8. CASE WriteFrame
  <2>1. sockRefcnt - 1 \in Int /\ sockRefcnt = 2 /\ ~ freed
    BY <1>8 DEF WriteFrame
  <2> QED BY <1>8, <2>1, SendNextCounted DEF WriteFrame
<1>9. CASE WriteFails
  BY <1>9 DEF WriteFails
<1>10. CASE RemoveHandle
  BY <1>10, RemoveCounted
<1>11. CASE PeerCloses \/ PeerResets
  BY <1>11 DEF PeerCloses, PeerResets, sockVars
<1>12. CASE UNCHANGED socketVars
  BY <1>12 DEF socketVars
<1> QED
  BY <1>1, <1>2, <1>3, <1>4, <1>5, <1>6, <1>7, <1>8, <1>9, <1>10, <1>11, <1>12
  DEF SocketNext, Loop, SendBy

\* A socket that is alive, and whose peer has not reset the connection, has one
\* reference for its AIO handle and one for the buffer in the hands of
\* cape_aio_socket_write: however many threads send and mark.
THEOREM Refcount == SocketSpec => []RefcountIsRight
<1>1. SocketCounted => RefcountIsRight
  BY DEF SocketCounted
<1> QED
  BY <1>1, CountedInit, CountedNext, PTL DEF SocketSpec

-----------------------------------------------------------------------------
(* The types of the connection. *)

\* An error was met, and the event loop is on its way to removing the handle.
Doomed ==
  \/ pc = "return" /\ "DONE" \in mask
  \/ pc = "clear" /\ "DONE" \in ret
  \/ pc = "remove"

(* The counter is right but for the one reference that an error gives up early;
   then nothing is counted any more until the handle is removed. *)
SocketTyped ==
  /\ SocketTypeOK
  /\ freed => pc = "wait"
  /\ ~ freed => \/ sockRefcnt = IF sockBuf = NoFrame THEN 1 ELSE 2
                \/ sockRefcnt = 1 /\ sockBuf # NoFrame /\ Doomed

\* What is put into the queue is the number of a frame.
LEMMA PushTyped ==
  ASSUME SocketTypeOK, PushFrame
  PROVE  queue' \in Seq(1 .. MaxFrames) /\ sockPushed' \in 0 .. MaxFrames
<1>1. sockPushed' \in 0 .. MaxFrames /\ sockPushed + 1 \in 1 .. MaxFrames
  BY BoundsAssumption DEF SocketTypeOK, PushFrame
<1>2. queue \in Seq(1 .. MaxFrames)
  BY DEF SocketTypeOK
<1> QED
  BY <1>1, <1>2, AppendProperties DEF PushFrame

\* The flags after the next frame, if there is one, became the buffer.
LEMMA SendNextTyped ==
  ASSUME SocketTypeOK, NEW m \in SUBSET Flags, NEW refs \in Int, SendNext(m, refs)
  PROVE  /\ queue' \in Seq(1 .. MaxFrames)
         /\ sockBuf' \in 0 .. MaxFrames
         /\ sockRefcnt' = IF sockBuf' = NoFrame THEN refs ELSE refs + 1
         /\ mask' \subseteq Flags /\ hflags' \subseteq Flags /\ sockArmed' \subseteq Flags
<1>0. /\ queue \in Seq(1 .. MaxFrames) /\ hflags \subseteq Flags /\ sockArmed \subseteq Flags
      /\ MaxFrames \in Nat
  BY BoundsAssumption DEF SocketTypeOK
<1>1. CASE queue = <<>>
  BY <1>0, <1>1 DEF SendNext, NoFrame
<1>2. CASE queue # <<>>
  <2>1. Head(queue) \in 1 .. MaxFrames /\ Tail(queue) \in Seq(1 .. MaxFrames)
    BY <1>0, <1>2
  <2>2. /\ sockBuf' = Head(queue) /\ queue' = Tail(queue) /\ sockRefcnt' = refs + 1
        /\ mask' \subseteq Flags /\ hflags' \subseteq Flags /\ sockArmed' \subseteq Flags
    BY <1>0, <1>2 DEF SendNext, Flags
  <2>3. Head(queue) \in 0 .. MaxFrames /\ Head(queue) # 0
    BY <1>0, <2>1
  <2> QED
    BY <2>1, <2>2, <2>3 DEF NoFrame
<1> QED
  BY <1>1, <1>2

\* A connection is started with its types.
LEMMA SocketTypedInit == SocketInit => SocketTyped
<1> SUFFICES ASSUME SocketInit PROVE SocketTyped
  OBVIOUS
<1>1. queue \in Seq(1 .. MaxFrames) /\ sent \in Seq(1 .. MaxFrames)
  BY EmptySeq DEF SocketInit
<1>2. /\ sockBuf \in 0 .. MaxFrames /\ sockPushed \in 0 .. MaxFrames /\ data \in 0 .. MaxData
      /\ sockRefcnt \in -1 .. 2 /\ sockRefcnt = 1 /\ sockBuf = NoFrame
  BY BoundsAssumption DEF SocketInit, NoFrame
<1>3. /\ mask \subseteq Flags /\ hflags \subseteq Flags /\ sockArmed \subseteq Flags
      /\ events \subseteq Flags /\ ret \subseteq Flags
  BY DEF SocketInit, Flags
<1>4. /\ freed \in BOOLEAN /\ foreign \in BOOLEAN /\ sockMisused \in BOOLEAN /\ ~ freed
      /\ net = "up" /\ pc = "wait"
      /\ at \in [Threads -> {"idle", "test", "mark", "modify", "flags"}]
  BY DEF SocketInit
<1> QED
  BY <1>1, <1>2, <1>3, <1>4 DEF SocketTyped, SocketTypeOK

\* Every step keeps the types.
LEMMA SocketTypedNext == SocketTyped /\ [SocketNext]_socketVars => SocketTyped'
<1> SUFFICES ASSUME SocketTyped, [SocketNext]_socketVars PROVE SocketTyped'
  OBVIOUS
<1>0. /\ SocketTypeOK
      /\ mask \subseteq Flags /\ hflags \subseteq Flags /\ sockArmed \subseteq Flags
      /\ events \subseteq Flags /\ ret \subseteq Flags /\ freed \in BOOLEAN
      /\ sockBuf \in 0 .. MaxFrames /\ sockRefcnt \in -1 .. 2 /\ data \in 0 .. MaxData
      /\ (freed => pc = "wait")
      /\ MaxFrames \in Nat /\ MaxData \in Nat
  BY BoundsAssumption DEF SocketTyped, SocketTypeOK
<1>a. ~ freed => \/ sockRefcnt = IF sockBuf = NoFrame THEN 1 ELSE 2
                 \/ sockRefcnt = 1 /\ sockBuf # NoFrame /\ Doomed
  BY DEF SocketTyped
<1>b. {"READ", "WRITE"} \subseteq Flags /\ "WRITE" \in Flags /\ "DONE" \in Flags
  BY DEF Flags
<1>c. pc \in {"wait", "enter", "read", "write"} => ~ Doomed
  BY DEF Doomed
<1>1. CASE SendFromLoop
  <2>1. queue' \in Seq(1 .. MaxFrames) /\ sockPushed' \in 0 .. MaxFrames
    BY <1>0, <1>1, PushTyped DEF SendFromLoop
  <2>2. mask' \subseteq Flags /\ hflags' \subseteq Flags /\ sockArmed' \subseteq Flags
    BY <1>0, <1>1, <1>b DEF SendFromLoop, MarkAtOnce
  <2>3. /\ pc = "wait" /\ pc' = pc
        /\ UNCHANGED <<sockBuf, sockRefcnt, freed, sent, sockMisused, foreign, net, data, events, ret, at>>
    BY <1>1 DEF SendFromLoop, sockVars
  <2> QED
    BY <1>0, <1>a, <1>c, <2>1, <2>2, <2>3 DEF SocketTyped, SocketTypeOK
<1>2. ASSUME NEW t \in Threads, SendPush(t) PROVE SocketTyped'
  <2>1. queue' \in Seq(1 .. MaxFrames) /\ sockPushed' \in 0 .. MaxFrames
    BY <1>0, <1>2, PushTyped DEF SendPush
  <2>2. Doomed' <=> Doomed
    BY <1>2 DEF SendPush, Doomed
  <2>3. at' \in [Threads -> {"idle", "test", "mark", "modify", "flags"}] /\ foreign' \in BOOLEAN
    BY <1>0, <1>2 DEF SendPush, SocketTypeOK
  <2>4. UNCHANGED <<sockBuf, sockRefcnt, freed, sent, sockMisused, mask, hflags, sockArmed, net,
                    data, pc, events, ret>>
    BY <1>2 DEF SendPush
  <2> QED
    BY <1>0, <1>a, <2>1, <2>2, <2>3, <2>4 DEF SocketTyped, SocketTypeOK
<1>3. ASSUME NEW t \in Threads, SendTest(t) \/ SendMark(t) \/ SendModify(t) \/ SendFlags(t)
      PROVE  SocketTyped'
  <2>1. /\ UNCHANGED <<queue, sockBuf, sockRefcnt, freed, sent, foreign, net, data, pc, events, ret,
                       sockPushed>>
        /\ mask' = mask \/ mask' = mask \cup {"WRITE"}
        /\ hflags' = hflags \/ hflags' = {"READ", "WRITE"}
        /\ sockArmed' = sockArmed \/ sockArmed' = {"READ", "WRITE"}
        /\ sockMisused' = (sockMisused \/ freed)
    BY <1>3 DEF SendTest, SendMark, SendModify, SendFlags, Touched
  <2>2. at' \in [Threads -> {"idle", "test", "mark", "modify", "flags"}]
    BY <1>0, <1>3 DEF SendTest, SendMark, SendModify, SendFlags, SocketTypeOK
  <2>3. mask' \subseteq Flags /\ hflags' \subseteq Flags /\ sockArmed' \subseteq Flags
    BY <1>0, <1>b, <2>1
  <2>4. Doomed => Doomed'
    BY <2>1 DEF Doomed
  <2>5. sockMisused' \in BOOLEAN
    BY <2>1
  <2> QED
    BY <1>0, <1>a, <2>1, <2>2, <2>3, <2>4, <2>5 DEF SocketTyped, SocketTypeOK
<1>4. CASE Wake
  <2>1. events' \subseteq Flags /\ sockArmed' \subseteq Flags /\ pc' = "enter"
    BY <1>0, <1>4 DEF Wake, Reported
  <2> QED
    BY <1>0, <1>4, <1>a, <1>c, <2>1 DEF Wake, sockVars, SocketTyped, SocketTypeOK
<1>5. CASE Enter
  <2>1. /\ pc = "enter" /\ ~ freed /\ sockRefcnt = IF sockBuf = NoFrame THEN 1 ELSE 2
    BY <1>0, <1>5, <1>a, <1>c DEF Enter
  <2>2. /\ mask' \subseteq Flags
        /\ UNCHANGED <<queue, sockBuf, hflags, sockArmed, freed, net, data, events, ret, at,
                       sockPushed, sent, foreign, sockMisused>>
    BY <1>0, <1>5, <1>b DEF Enter
  <2>3. CASE net = "reset"
    <3>1. /\ pc' = "return" /\ "DONE" \in mask'
          /\ sockRefcnt' = IF sockBuf # NoFrame THEN sockRefcnt - 1 ELSE sockRefcnt
      BY <1>5, <2>3 DEF Enter
    <3>2. sockRefcnt' = 1 /\ Doomed'
      BY <2>1, <3>1 DEF Doomed
    <3> QED
      BY <1>0, <2>1, <2>2, <3>1, <3>2 DEF SocketTyped, SocketTypeOK
  <2>4. CASE net # "reset"
    <3>1. pc' \in {"read", "write", "return"} /\ sockRefcnt' = sockRefcnt
      BY <1>5, <2>4 DEF Enter, AfterRead
    <3> QED
      BY <1>0, <2>1, <2>2, <3>1 DEF SocketTyped, SocketTypeOK
  <2> QED
    BY <2>3, <2>4
<1>6. CASE ReadFrame
  <2>1. queue' \in Seq(1 .. MaxFrames) /\ sockPushed' \in 0 .. MaxFrames
    <3>1. CASE PushFrame
      BY <1>0, <3>1, PushTyped
    <3>2. CASE UNCHANGED <<queue, sockPushed>>
      BY <1>0, <3>2 DEF SocketTypeOK
    <3> QED
      BY <1>6, <3>1, <3>2 DEF ReadFrame
  <2>2. mask' \subseteq Flags /\ hflags' \subseteq Flags /\ sockArmed' \subseteq Flags
    BY <1>0, <1>6, <1>b DEF ReadFrame, MarkAtOnce
  <2>3. /\ pc = "read" /\ data' \in 0 .. MaxData
        /\ UNCHANGED <<sockBuf, sockRefcnt, freed, sent, sockMisused, foreign, net, pc, events, ret, at>>
    BY <1>0, <1>6 DEF ReadFrame, sockVars
  <2> QED
    BY <1>0, <1>a, <1>c, <2>1, <2>2, <2>3 DEF SocketTyped, SocketTypeOK
<1>7. CASE ReadEnd
  <2>1. mask' \subseteq Flags /\ pc = "read" /\ pc' \in {"write", "return"}
    BY <1>0, <1>7, <1>b DEF ReadEnd, AfterRead
  <2> QED
    BY <1>0, <1>7, <1>a, <1>c, <2>1 DEF ReadEnd, sockVars, SocketTyped, SocketTypeOK
<1>8. ASSUME NEW refs \in Int, refs = 1, SendNext(mask \ {"WRITE"}, refs), ~ freed, pc' = "return",
             UNCHANGED <<freed, net, data, events, ret, at, sockPushed, foreign, sockMisused>>,
             sent' \in Seq(1 .. MaxFrames)
      PROVE  SocketTyped'
  <2>1. mask \ {"WRITE"} \in SUBSET Flags
    BY <1>0
  <2>2. /\ queue' \in Seq(1 .. MaxFrames)
        /\ sockBuf' \in 0 .. MaxFrames
        /\ sockRefcnt' = IF sockBuf' = NoFrame THEN refs ELSE refs + 1
        /\ mask' \subseteq Flags /\ hflags' \subseteq Flags /\ sockArmed' \subseteq Flags
    BY <1>0, <1>8, <2>1, SendNextTyped
  <2>3. sockRefcnt' = (IF sockBuf' = NoFrame THEN 1 ELSE 2) /\ sockRefcnt' \in -1 .. 2
    BY <1>8, <2>2
  <2> QED
    BY <1>0, <1>8, <2>2, <2>3 DEF SocketTyped, SocketTypeOK
<1>9. CASE WriteNothing
  <2>1. sockRefcnt = 1 /\ ~ freed
    BY <1>0, <1>9, <1>a, <1>c DEF WriteNothing
  <2>2. sent' \in Seq(1 .. MaxFrames)
    BY <1>0, <1>9 DEF WriteNothing, SocketTypeOK
  <2> QED
    BY <1>8, <1>9, <2>1, <2>2 DEF WriteNothing
<1>10. CASE WriteFrame
  <2>1. sockRefcnt - 1 = 1 /\ ~ freed /\ sockBuf \in 1 .. MaxFrames
    BY <1>0, <1>10, <1>a, <1>c DEF WriteFrame, NoFrame
  <2>2. sent' \in Seq(1 .. MaxFrames)
    BY <1>0, <1>10, <2>1, AppendProperties DEF WriteFrame, SocketTypeOK
  <2> QED
    BY <1>8, <1>10, <2>1, <2>2 DEF WriteFrame
<1>11. CASE WriteFails
  <2>1. sockRefcnt = 2 /\ ~ freed
    BY <1>0, <1>11, <1>a, <1>c DEF WriteFails
  <2>2. mask' \subseteq Flags /\ Doomed' /\ sockRefcnt' = 1 /\ pc' = "return"
    BY <1>0, <1>11, <1>b, <2>1 DEF WriteFails, Doomed
  <2> QED
    BY <1>0, <1>11, <2>1, <2>2 DEF WriteFails, SocketTyped, SocketTypeOK
<1>12. CASE ReturnMask
  <2>1. ret' \subseteq Flags /\ pc' = "clear" /\ (Doomed => Doomed')
    BY <1>0, <1>12 DEF ReturnMask, Doomed
  <2> QED
    BY <1>0, <1>12, <1>a, <2>1 DEF ReturnMask, sockVars, SocketTyped, SocketTypeOK
<1>13. CASE ClearMask
  <2>1. mask' \subseteq Flags /\ pc' \in {"remove", "flags"} /\ (Doomed => Doomed')
    BY <1>0, <1>13 DEF ClearMask, Doomed
  <2> QED
    BY <1>0, <1>13, <1>a, <2>1 DEF ClearMask, sockVars, SocketTyped, SocketTypeOK
<1>14. CASE StoreFlags \/ Arm
  <2>1. /\ hflags' \subseteq Flags /\ sockArmed' \subseteq Flags /\ pc' \in {"arm", "wait"} /\ ~ freed /\ ~ Doomed
        /\ UNCHANGED <<queue, sockBuf, sockRefcnt, freed, sent, sockMisused, foreign, mask, net, data,
                       events, ret, at, sockPushed>>
    BY <1>0, <1>14 DEF StoreFlags, Arm, sockVars, Doomed
  <2> QED
    BY <1>0, <1>a, <2>1 DEF SocketTyped, SocketTypeOK
<1>15. CASE RemoveHandle
  <2>1. ~ freed /\ sockBuf' = NoFrame /\ sockArmed' = {} /\ pc' = "wait"
    BY <1>0, <1>15 DEF RemoveHandle
  <2> PICK held \in {1, 2} : held = IF sockBuf # NoFrame THEN 2 ELSE 1
    OBVIOUS
  <2>2. /\ sockRefcnt' = sockRefcnt - held /\ freed' = (sockRefcnt <= held)
        /\ sockMisused' = (sockMisused \/ sockRefcnt < held)
    BY <1>15 DEF RemoveHandle, OnSocketUnref
  <2>3. sockRefcnt = held \/ (sockRefcnt = 1 /\ held = 2)
    BY <1>a, <2>1
  <2>4. sockRefcnt <= held /\ sockRefcnt' \in -1 .. 2
    BY <2>2, <2>3
  <2>5. freed' /\ freed' \in BOOLEAN /\ sockMisused' \in BOOLEAN
    BY <2>2, <2>4
  <2> QED
    BY <1>0, <1>15, <2>1, <2>4, <2>5 DEF RemoveHandle, NoFrame, SocketTyped, SocketTypeOK
<1>16. CASE PeerCloses \/ PeerResets
  <2>1. /\ net' \in {"closed", "reset"}
        /\ UNCHANGED <<sockVars, queue, mask, hflags, sockArmed, data, pc, events, ret, at, sockPushed>>
    BY <1>16 DEF PeerCloses, PeerResets
  <2>2. Doomed' <=> Doomed
    BY <2>1 DEF Doomed
  <2> QED
    BY <1>0, <1>a, <2>1, <2>2 DEF sockVars, SocketTyped, SocketTypeOK
<1>17. CASE UNCHANGED socketVars
  <2>1. Doomed' <=> Doomed
    BY <1>17 DEF socketVars, Doomed
  <2> QED
    BY <1>0, <1>17, <1>a, <2>1 DEF socketVars, SocketTyped, SocketTypeOK
<1> QED
  BY <1>1, <1>2, <1>3, <1>4, <1>5, <1>6, <1>7, <1>9, <1>10, <1>11, <1>12, <1>13, <1>14, <1>15, <1>16,
     <1>17
  DEF SocketNext, Loop, SendBy

(* A connection of QBUS has its types: in particular its counter of references
   never goes above the handle and one buffer, whichever threads send. *)
THEOREM SocketTypeCorrect == SocketSpec => []SocketTypeOK
<1>1. SocketTyped => SocketTypeOK
  BY DEF SocketTyped
<1> QED
  BY <1>1, SocketTypedInit, SocketTypedNext, PTL DEF SocketSpec

-----------------------------------------------------------------------------
(* The order of frames. *)

FrameNr == Nat \ {0}
Held(b) == IF b = NoFrame THEN <<>> ELSE <<b>>
Whole(s, h, q, n) == s \o h \o q = [i \in 1 .. n |-> i]
AllInOrder == Whole(sent, Held(sockBuf), queue, sockPushed)

(* What the order needs besides: removing the handle gives up enough
   references to free the socket, also after a reset has given one up early. *)
Ordered ==
  /\ queue \in Seq(FrameNr) /\ sent \in Seq(FrameNr) /\ sockPushed \in Nat
  /\ sockBuf \in Nat /\ sockRefcnt \in Int /\ freed \in BOOLEAN
  /\ freed => pc = "wait"
  /\ ~ freed => sockRefcnt <= (IF sockBuf = NoFrame THEN 1 ELSE 2)
  /\ ~ freed => AllInOrder

\* The buffer as a sequence.
LEMMA HeldType == ASSUME NEW b \in Nat PROVE Held(b) \in Seq(FrameNr)
<1>1. CASE b = NoFrame
  BY <1>1 DEF Held
<1>2. CASE b # NoFrame
  <2>1. b \in FrameNr
    BY <1>2 DEF FrameNr, NoFrame
  <2> QED
    BY <1>2, <2>1 DEF Held
<1> QED
  BY <1>1, <1>2

(* A frame that joins the queue joins the whole. *)
LEMMA PushOrder ==
  ASSUME NEW s \in Seq(FrameNr), NEW h \in Seq(FrameNr), NEW q \in Seq(FrameNr), NEW n \in Nat,
         Whole(s, h, q, n)
  PROVE  Whole(s, h, Append(q, n + 1), n + 1)
<1>1. n + 1 \in FrameNr
  BY DEF FrameNr
<1> DEFINE w == s \o h \o q
<1>2. w \in Seq(FrameNr)
  BY ConcatProperties
<1>3. s \o h \o Append(q, n + 1) = Append(w, n + 1)
  <2>1. Append(q, n + 1) = q \o <<n + 1>> /\ <<n + 1>> \in Seq(FrameNr) /\ s \o h \in Seq(FrameNr)
    BY <1>1, AppendIsConcat, ConcatProperties
  <2> PICK a \in Seq(FrameNr) : a = s \o h
    BY <2>1
  <2> PICK e \in Seq(FrameNr) : e = <<n + 1>>
    BY <2>1
  <2>2. a \o (q \o e) = (a \o q) \o e
    BY ConcatAssociative
  <2>3. Append(w, n + 1) = w \o <<n + 1>>
    BY <1>1, <1>2, AppendIsConcat
  <2> QED
    BY <2>1, <2>2, <2>3
<1> DEFINE v == Append(w, n + 1)
           r == [i \in 1 .. n + 1 |-> i]
<1>4. Len(w) = n /\ \A i \in 1 .. n : w[i] = i
  BY <1>2, LenProperties DEF Whole
<1>5. v \in Seq(FrameNr) /\ Len(v) = n + 1 /\ \A i \in 1 .. n + 1 : v[i] = i
  <2>1. /\ v \in Seq(FrameNr) /\ Len(v) = Len(w) + 1 /\ v[Len(w) + 1] = n + 1
        /\ \A i \in 1 .. Len(w) : v[i] = w[i]
    BY <1>1, <1>2, AppendProperties
  <2> QED
    BY <1>4, <2>1
<1>6. v \in [1 .. n + 1 -> FrameNr]
  BY <1>5, LenProperties
<1> HIDE DEF v, w
<1>7. v = r
  BY <1>5, <1>6
<1> QED
  BY <1>3, <1>7 DEF v, w, Whole

(* The frame that becomes the buffer was the first of the queue. *)
LEMMA NextOrder ==
  ASSUME NEW s \in Seq(FrameNr), NEW q \in Seq(FrameNr), q # <<>>
  PROVE  /\ Head(q) \in FrameNr /\ Tail(q) \in Seq(FrameNr)
         /\ s \o Held(Head(q)) \o Tail(q) = s \o q
<1> PICK h \in FrameNr : h = Head(q)
  BY HeadTailProperties
<1> PICK r \in Seq(FrameNr) : r = Tail(q)
  BY HeadTailProperties
<1>0. <<h>> \in Seq(FrameNr) /\ Len(<<h>>) = 1 /\ <<h>>[1] = h
  OBVIOUS
<1> PICK e \in Seq(FrameNr) : e = <<h>>
  BY <1>0
<1>1. e \o r = q
  <2>1. /\ e \o r \in Seq(FrameNr) /\ Len(e \o r) = Len(q)
        /\ \A i \in 1 .. Len(q) : (e \o r)[i] = q[i]
    <3>1. Len(e) = 1 /\ e[1] = h
      BY <1>0
    <3>2. Len(r) = Len(q) - 1 /\ \A i \in 1 .. Len(r) : r[i] = q[i + 1]
      BY HeadTailProperties
    <3>3. Len(q) \in Nat \ {0} /\ h = q[1]
      BY EmptySeq
    <3>4. /\ e \o r \in Seq(FrameNr) /\ Len(e \o r) = Len(e) + Len(r)
          /\ \A i \in 1 .. Len(e) + Len(r) : (e \o r)[i] = IF i <= Len(e) THEN e[i] ELSE r[i - Len(e)]
      BY ConcatProperties
    <3> QED
      BY <3>1, <3>2, <3>3, <3>4
  <2> QED
    BY <2>1, SeqEqual
<1>2. Held(h) = e
  BY DEF Held, FrameNr, NoFrame
<1>3. (s \o e) \o r = s \o (e \o r)
  BY ConcatAssociative
<1> QED
  BY <1>1, <1>2, <1>3

(* The next frame, if there is one, became the buffer: what was before it and
   what is behind it keep their order. *)
LEMMA SendNextOrder ==
  ASSUME queue \in Seq(FrameNr), NEW s \in Seq(FrameNr), NEW m, NEW refs \in Int, SendNext(m, refs)
  PROVE  /\ queue' \in Seq(FrameNr) /\ sockBuf' \in Nat
         /\ sockRefcnt' = IF sockBuf' = NoFrame THEN refs ELSE refs + 1
         /\ s \o Held(sockBuf') \o queue' = s \o queue
<1>1. CASE queue = <<>>
  <2>1. sockBuf' = NoFrame /\ queue' = queue /\ sockRefcnt' = refs
    BY <1>1 DEF SendNext
  <2>2. Held(sockBuf') = <<>> /\ s \o <<>> = s
    BY <2>1, ConcatEmptySeq DEF Held
  <2> QED
    BY <2>1, <2>2 DEF NoFrame
<1>2. CASE queue # <<>>
  <2>1. Head(queue) \in FrameNr /\ Tail(queue) \in Seq(FrameNr) /\ s \o Held(Head(queue)) \o Tail(queue) = s \o queue
    BY <1>2, NextOrder
  <2>2. sockBuf' = Head(queue) /\ queue' = Tail(queue) /\ sockRefcnt' = refs + 1
    BY <1>2 DEF SendNext
  <2> QED
    BY <2>1, <2>2 DEF FrameNr, NoFrame
<1> QED
  BY <1>1, <1>2

\* A connection starts with nothing sent.
LEMMA OrderedInit == SocketInit => Ordered
<1> SUFFICES ASSUME SocketInit PROVE Ordered
  OBVIOUS
<1>1. queue = <<>> /\ sent = <<>> /\ sockBuf = NoFrame /\ sockPushed = 0 /\ sockRefcnt = 1 /\ freed = FALSE
  BY DEF SocketInit
<1>2. <<>> \o Held(NoFrame) \o <<>> = <<>>
  BY DEF Held
<1>3. [i \in 1 .. 0 |-> i] = <<>>
  OBVIOUS
<1>4. AllInOrder
  BY <1>1, <1>2, <1>3 DEF AllInOrder, Whole
<1>5. queue \in Seq(FrameNr) /\ sent \in Seq(FrameNr)
  BY <1>1, EmptySeq
<1>6. sockPushed \in Nat /\ sockBuf \in Nat /\ sockRefcnt \in Int /\ sockRefcnt <= (IF sockBuf = NoFrame THEN 1 ELSE 2)
  BY <1>1 DEF NoFrame
<1>7. freed \in BOOLEAN /\ ~ freed
  BY <1>1, Zenon
<1> QED
  BY <1>4, <1>5, <1>6, <1>7 DEF Ordered

\* Every step keeps the order.
LEMMA OrderedNext == Ordered /\ [SocketNext]_socketVars => Ordered'
<1> SUFFICES ASSUME Ordered, [SocketNext]_socketVars PROVE Ordered'
  OBVIOUS
<1>0. /\ queue \in Seq(FrameNr) /\ sent \in Seq(FrameNr) /\ sockPushed \in Nat /\ sockBuf \in Nat /\ sockRefcnt \in Int
      /\ Held(sockBuf) \in Seq(FrameNr) /\ (freed => pc = "wait")
  BY HeldType DEF Ordered
<1>a. ASSUME UNCHANGED <<queue, sockBuf, sockPushed, sent, freed>>, sockRefcnt' \in Int, sockRefcnt' <= sockRefcnt, freed => pc' = "wait"
      PROVE  Ordered'
  BY <1>a DEF Ordered, AllInOrder
<1>b. ASSUME PushFrame, UNCHANGED <<sockBuf, sent, sockRefcnt, freed>>, freed => pc' = "wait" PROVE Ordered'
  <2>1. queue' = Append(queue, sockPushed + 1) /\ sockPushed' = sockPushed + 1 /\ sockPushed + 1 \in FrameNr
    BY <1>0, <1>b DEF PushFrame, FrameNr
  <2>2. queue' \in Seq(FrameNr) /\ sockPushed' \in Nat
    BY <1>0, <2>1, AppendProperties
  <2>3. ASSUME AllInOrder PROVE AllInOrder'
    <3> PICK h \in Seq(FrameNr) : h = Held(sockBuf)
      BY <1>0
    <3>1. Whole(sent, h, queue, sockPushed)
      BY <2>3 DEF AllInOrder
    <3>2. Whole(sent, h, Append(queue, sockPushed + 1), sockPushed + 1)
      BY <1>0, <3>1, PushOrder
    <3>3. Held(sockBuf') = h
      BY <1>b
    <3> QED
      BY <1>b, <2>1, <3>2, <3>3 DEF AllInOrder
  <2> QED
    BY <1>b, <2>2, <2>3 DEF Ordered
<1>1. CASE SendFromLoop
  BY <1>0, <1>1, <1>b DEF SendFromLoop, sockVars
<1>2. ASSUME NEW t \in Threads, SendPush(t) PROVE Ordered'
  BY <1>0, <1>2, <1>b DEF SendPush
<1>3. ASSUME NEW t \in Threads,
             \/ SendTest(t) \/ SendMark(t)
             \/ SendModify(t) \/ SendFlags(t)
      PROVE  Ordered'
  BY <1>0, <1>3, <1>a
    DEF SendTest, SendMark, SendModify, SendFlags, Touched
<1>4. CASE Wake \/ ReadEnd \/ ReturnMask
          \/ ClearMask \/ StoreFlags \/ Arm
  BY <1>0, <1>4, <1>a
    DEF Wake, ReadEnd, ReturnMask, ClearMask, StoreFlags,
        Arm, sockVars
<1>5. CASE Enter
  BY <1>0, <1>5, <1>a DEF Enter
<1>6. CASE ReadFrame
  <2>1. CASE PushFrame
    BY <1>0, <1>6, <1>b, <2>1 DEF ReadFrame, sockVars
  <2>2. CASE UNCHANGED <<queue, sockPushed, mask, sockArmed, hflags>>
    BY <1>0, <1>6, <1>a, <2>2 DEF ReadFrame, sockVars
  <2> QED
    BY <1>6, <2>1, <2>2 DEF ReadFrame
<1>7. CASE WriteNothing
  <2>0. SendNext(mask \ {"WRITE"}, sockRefcnt) /\ sockBuf = NoFrame /\ ~ freed /\ UNCHANGED <<freed, sockPushed, sent>>
    BY <1>0, <1>7 DEF WriteNothing
  <2>1. /\ queue' \in Seq(FrameNr) /\ sockBuf' \in Nat
        /\ sockRefcnt' = (IF sockBuf' = NoFrame THEN sockRefcnt ELSE sockRefcnt + 1)
        /\ sent \o Held(sockBuf') \o queue' = sent \o queue
    BY <1>0, <2>0, SendNextOrder
  <2>2. sent \o Held(sockBuf) = sent
    BY <1>0, <2>0, ConcatEmptySeq DEF Held
  <2>3. AllInOrder'
    BY <2>0, <2>1, <2>2 DEF Ordered, AllInOrder, Whole
  <2> QED
    BY <1>0, <2>0, <2>1, <2>3 DEF Ordered
<1>8. CASE WriteFrame
  <2>0. /\ SendNext(mask \ {"WRITE"}, sockRefcnt - 1) /\ sockBuf # NoFrame /\ ~ freed
        /\ UNCHANGED <<freed, sockPushed>> /\ sent' = Append(sent, sockBuf)
    BY <1>0, <1>8 DEF WriteFrame
  <2>1. sockBuf \in FrameNr /\ sent' \in Seq(FrameNr) /\ sent' = sent \o Held(sockBuf)
    BY <1>0, <2>0, AppendIsConcat, AppendProperties DEF FrameNr, NoFrame, Held
  <2>2. /\ queue' \in Seq(FrameNr) /\ sockBuf' \in Nat
        /\ sockRefcnt' = (IF sockBuf' = NoFrame THEN sockRefcnt - 1 ELSE sockRefcnt - 1 + 1)
        /\ sent' \o Held(sockBuf') \o queue' = sent' \o queue
    <3> PICK s \in Seq(FrameNr) : s = sent'
      BY <2>1
    <3>1. sockRefcnt - 1 \in Int
      BY <1>0
    <3> QED
      BY <1>0, <2>0, <3>1, SendNextOrder
  <2>3. AllInOrder'
    BY <2>0, <2>1, <2>2 DEF Ordered, AllInOrder, Whole
  <2> QED
    BY <1>0, <2>0, <2>1, <2>2, <2>3 DEF Ordered
<1>9. CASE WriteFails
  BY <1>0, <1>9, <1>a DEF WriteFails
<1>10. CASE RemoveHandle
  <2>1. freed' /\ sockRefcnt' \in Int /\ pc' = "wait" /\ sockBuf' = NoFrame /\ UNCHANGED <<queue, sockPushed, sent>>
    <3> PICK held \in Int : held = IF sockBuf # NoFrame THEN 2 ELSE 1
      OBVIOUS
    <3>1. ~ freed /\ sockRefcnt <= held
      BY <1>10 DEF RemoveHandle, Ordered
    <3>2. sockRefcnt' = sockRefcnt - held /\ freed' = (sockRefcnt <= held)
      BY <1>10 DEF RemoveHandle, OnSocketUnref
    <3>3. freed'
      BY <3>1, <3>2, Zenon
    <3> QED
      BY <1>0, <1>10, <3>2, <3>3 DEF RemoveHandle
  <2>2. freed' \in BOOLEAN
    BY <1>10 DEF RemoveHandle, OnSocketUnref
  <2> QED
    BY <1>0, <2>1, <2>2 DEF Ordered, NoFrame
<1>11. CASE PeerCloses \/ PeerResets
  BY <1>0, <1>11, <1>a DEF PeerCloses, PeerResets, sockVars
<1>12. CASE UNCHANGED socketVars
  BY <1>0, <1>12, <1>a DEF socketVars
<1> QED
  BY <1>1, <1>2, <1>3, <1>4, <1>5, <1>6, <1>7, <1>8, <1>9, <1>10, <1>11, <1>12
    DEF SocketNext, Loop, SendBy

(* Frames leave in the order they were put into the queue, none lost and none
   twice, while the connection is there: for any number of threads and frames,
   and whether or not the peer resets the connection. *)
THEOREM FramesCorrect == SocketSpec => []FramesInOrder
<1>1. Ordered => FramesInOrder
  BY DEF Ordered, AllInOrder, Whole, Held, FramesInOrder
<1> QED
  BY <1>1, OrderedInit, OrderedNext, PTL DEF SocketSpec
=============================================================================
