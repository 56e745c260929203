------------------------------- MODULE QWebs --------------------------------
(***************************************************************************)
(* One connection of the web server: QWebsConnection with its requests     *)
(* (libs/qwebs/src/qwebs_connection.c), the upgrade to a websocket         *)
(* (qwebs.c, qwebs_prot_ws.c) and the socket below (cape_aio_sock.c).      *)
(*                                                                         *)
(* Everything runs on the thread of the event loop: the applications of    *)
(* the repository answer from callbacks of qbus, which run there, too.     *)
(* What the client sends arrives in parts, and one read takes any number   *)
(* of them: half a request, one, or several.  The third-party parser calls *)
(* back for every part; of a request only what decides its way is kept.    *)
(* The kernel takes an answer as a whole.  Resets are left to AioSocket.   *)
(***************************************************************************)
EXTENDS Integers, FiniteSets, Sequences, SequencesExt

CONSTANTS MaxAsked,   \* bound: what a client sends, requests and then frames
          MaxPushed,  \* bound: frames the application sends of its own
          Limit       \* answers the queue of a connection holds (30)

ASSUME WebsAssumption == {MaxAsked, MaxPushed} \subseteq Nat /\ Limit \in Nat \ {0}

None == 0        \* no request, no answer
Unasked == -1    \* a frame the application sends of its own

VARIABLES
  wire,      \* parts that have not been read
  here,      \* the request of the parser (parser.data): the last one begun in it
  open,      \* requests the applications have still to answer
  cache,     \* send_cache
  buf,       \* the answer the socket is writing
  armed,     \* write events are asked for
  active, closing,   \* active, close_connection
  upgraded,  \* the callbacks are those of the websocket
  refcnt,    \* references of the socket
  status,    \* of the socket: "served", "removed" from the event loop, "freed"
  left,      \* the client has closed the connection
  asked,     \* history: what the client has sent
  pushed,    \* history: how many frames the application sent of its own
  answers,   \* history: what the kernel has taken
  patient,   \* history: the client has always waited for its answer
  dropped,   \* history: the queue was full
  misused    \* history: the connection was touched after it was freed

client == <<left, asked, patient>>
vars == <<wire, here, open, cache, buf, armed, active, closing, upgraded, refcnt, status,
          client, pushed, answers, dropped, misused>>

Init ==
  /\ wire = << >> /\ here = None /\ open = {}
  /\ cache = << >> /\ buf = None /\ armed = FALSE
  /\ active = FALSE /\ closing = FALSE /\ upgraded = FALSE
  /\ refcnt = 1 /\ status = "served"
  /\ left = FALSE /\ asked = << >> /\ pushed = 0 /\ answers = << >>
  /\ patient = TRUE /\ dropped = FALSE /\ misused = FALSE

-----------------------------------------------------------------------------
(* The client. *)

\* "now": answered by a file or in the call; "later": by an application that
\* goes on; "up": asks for the websocket; "odd": asks for another protocol.
Requests == [how : {"now", "later"}, close : BOOLEAN]
            \union [how : {"up", "odd"}, close : {FALSE}]
Frame == [how |-> "frame", close |-> FALSE]

IsAnswered(r) == r \in ToSet(answers)

Ask(item, split) ==
  LET r == Len(asked) + 1
  IN /\ ~ left /\ r <= MaxAsked
     /\ asked' = Append(asked, item)
     /\ wire' = wire \o IF split
                        THEN <<[req |-> r, last |-> FALSE], [req |-> r, last |-> TRUE]>>
                        ELSE <<[req |-> r, last |-> TRUE]>>
     /\ patient' = (patient /\ \A q \in DOMAIN asked : IsAnswered(q))
     /\ UNCHANGED <<here, open, cache, buf, armed, active, closing, upgraded, refcnt, status,
                    left, pushed, answers, dropped, misused>>

(* After the request that closes the connection the client sends nothing,   *)
(* after the one for the websocket, when it was answered, frames only.      *)
AskNext ==
  \E split \in BOOLEAN :
    LET ups == {q \in DOMAIN asked : asked[q].how = "up"}
    IN \/ /\ ups # {} /\ \A q \in ups : IsAnswered(q)
          /\ Ask(Frame, split)
       \/ /\ ups = {} /\ \A q \in DOMAIN asked : ~ asked[q].close
          /\ \E item \in Requests : Ask(item, split)

(* What is still on its way may be lost with the connection.                *)
Leave ==
  /\ ~ left
  /\ left' = TRUE
  /\ \E n \in 0 .. Len(wire) : wire' = SubSeq(wire, 1, n)
  /\ UNCHANGED <<here, open, cache, buf, armed, active, closing, upgraded, refcnt, status,
                 asked, patient, pushed, answers, dropped, misused>>

-----------------------------------------------------------------------------
(* qwebs_connection_send: beyond the limit an answer is thrown away.        *)

Kept(list) == IF Len(list) <= Limit THEN list ELSE SubSeq(list, 1, Limit)

\* Mutant: the socket is not marked.
SendUnmarked(list) ==
  /\ cache' = Kept(cache \o list)
  /\ dropped' = (dropped \/ Len(cache \o list) > Limit)
  /\ UNCHANGED armed

Send(list) ==
  /\ cache' = Kept(cache \o list)
  /\ dropped' = (dropped \/ Len(cache \o list) > Limit)
  /\ armed' = (armed \/ (status = "served" /\ list # << >>))

SendNothing == UNCHANGED <<cache, dropped, armed>>

-----------------------------------------------------------------------------
(* Reading. *)

(* A read that finds no request makes one, which holds a reference.         *)
Made == IF here = None THEN 1 ELSE 0

Upgrades(r) == asked[r].how \in {"up", "odd"}

(* The parser stops behind a request that asks for another protocol: the    *)
(* rest of the read is lost.                                                *)
ReadUpTo(parts) ==
  LET stops == {i \in DOMAIN parts : parts[i].last /\ Upgrades(parts[i].req)}
  IN IF stops = {} THEN Last(parts) ELSE parts[CHOOSE i \in stops : \A j \in stops : i <= j]

(* The request ends where it began to be handled: qwebs_request_del.        *)
EndsHere ==
  /\ here' = None /\ active' = FALSE
  /\ refcnt' = refcnt + Made - 1
  /\ UNCHANGED open

(* The answer, then the request is deleted, then the callbacks change.      *)
SwitchProtocols(r) ==
  /\ Send(<<r>>) /\ EndsHere
  /\ upgraded' = TRUE
  /\ UNCHANGED closing

(* The application keeps the request: the parser forgets it.                *)
HandOver(r) ==
  /\ open' = open \union {r}
  /\ here' = None
  /\ active' = (active \/ here = None)
  /\ refcnt' = refcnt + Made
  /\ SendNothing

(* A request for an unknown protocol is deleted, and that is all.           *)
Complete(r) ==
  \/ asked[r].how = "up" /\ SwitchProtocols(r)
  \/ /\ asked[r].how = "odd"
     /\ SendNothing /\ EndsHere
     /\ UNCHANGED <<closing, upgraded>>
  \/ /\ closing' = asked[r].close
     /\ \/ asked[r].how = "now" /\ Send(<<r>>) /\ EndsHere
        \/ asked[r].how = "later" /\ HandOver(r)
     /\ UNCHANGED upgraded

(* qwebs_prot_http__on_recv: whatever was read belongs to one request.      *)
OnHttp(part) ==
  IF part.last
  THEN Complete(part.req)
  ELSE /\ here' = part.req
       /\ active' = (active \/ here = None)
       /\ refcnt' = refcnt + Made
       /\ SendNothing
       /\ UNCHANGED <<open, closing, upgraded>>

(* The frames of a read are answered one after the other, as they came.     *)
InOrder(S) == {s \in [1 .. Cardinality(S) -> S] : \A i, j \in DOMAIN s : i < j => s[i] < s[j]}

(* qwebs_prot_websocket_connection__on_recv: every frame that is complete   *)
(* is answered, and the rest kept in a buffer.                              *)
OnFrames(parts) ==
  /\ \E list \in InOrder({p.req : p \in {q \in ToSet(parts) : q.last}}) : Send(list)
  /\ UNCHANGED <<here, open, active, closing, upgraded, refcnt>>

Recv ==
  /\ status = "served"
  /\ \E n \in 1 .. Len(wire) :
       /\ wire' = SubSeq(wire, n + 1, Len(wire))
       /\ IF upgraded THEN OnFrames(SubSeq(wire, 1, n)) ELSE OnHttp(ReadUpTo(SubSeq(wire, 1, n)))
  /\ UNCHANGED <<buf, status, client, pushed, answers, misused>>

-----------------------------------------------------------------------------
(* References. *)

(* The counter goes down; at zero the socket deletes itself and, in onDone, *)
(* the connection.                                                          *)
Unref(n) ==
  /\ refcnt' = refcnt - n
  /\ status' = IF refcnt = n THEN "freed" ELSE status

(* The handle leaves the event loop and gives its reference up, and that of *)
(* the answer that is being written.                                        *)
Removed(n) ==
  /\ refcnt' = refcnt - n
  /\ status' = IF refcnt = n THEN "freed" ELSE "removed"
  /\ armed' = FALSE

\* Mutant: the reference of the answer is forgotten.
OnUnrefHandleOnly == buf' = None /\ Removed(1)
OnUnref == buf' = None /\ Removed(IF buf = None THEN 1 ELSE 2)

(* The read finds the end of the stream. *)
RecvEnd ==
  /\ status = "served" /\ left /\ wire = << >>
  /\ OnUnref
  /\ UNCHANGED <<wire, here, open, cache, active, closing, upgraded, client, pushed, answers,
                 dropped, misused>>

-----------------------------------------------------------------------------
(* Writing. *)

(* qwebs_connection__internal__on_send_ready.  held is the reference of the *)
(* answer that was written, which is given up after it.  When the callback  *)
(* closes the connection, onEvent goes on with a socket that may be freed.  *)
NextOrClose(held) ==
  \/ /\ cache # << >>
     /\ buf' = Head(cache) /\ cache' = Tail(cache)
     /\ refcnt' = refcnt + 1 - held
     /\ UNCHANGED <<armed, status, misused>>
  \/ /\ cache = << >> /\ (active \/ ~ closing)
     /\ buf' = None /\ armed' = FALSE
     /\ refcnt' = refcnt - held
     /\ UNCHANGED <<cache, status, misused>>
  \/ /\ cache = << >> /\ ~ active /\ closing
     /\ buf' = None
     /\ Removed(1 + held)
     /\ misused' = (misused \/ refcnt = 1 + held)
     /\ UNCHANGED cache

\* Mutant: it is closed although answers wait.
CloseFirst(held) ==
  IF closing /\ ~ active
  THEN buf' = None /\ Removed(1 + held) /\ UNCHANGED <<cache, misused>>
  ELSE NextOrClose(held)

OnSendReady(held) == NextOrClose(held)

WriteReady ==
  /\ status = "served" /\ armed
  /\ answers' = IF buf = None THEN answers ELSE Append(answers, buf)
  /\ OnSendReady(IF buf = None THEN 0 ELSE 1)
  /\ UNCHANGED <<wire, here, open, active, closing, upgraded, client, pushed, dropped>>

-----------------------------------------------------------------------------
(* The applications. *)

(* qwebs_request_send_json and its like: the answer, then the request is    *)
(* deleted, which clears `active' behind the reference it gave up.          *)
Answer(r) ==
  /\ r \in open
  /\ open' = open \ {r}
  /\ Send(<<r>>)
  /\ Unref(1)
  /\ active' = FALSE
  /\ misused' = (misused \/ refcnt = 1)
  /\ UNCHANGED <<wire, here, buf, closing, upgraded, client, pushed, answers>>

(* qwebs_prot_websocket_send_s, until on_done says that the connection is   *)
(* gone.                                                                    *)
Push ==
  /\ upgraded /\ status # "freed" /\ pushed < MaxPushed
  /\ pushed' = pushed + 1
  /\ Send(<<Unasked>>)
  /\ UNCHANGED <<wire, here, open, buf, active, closing, upgraded, refcnt, status, client,
                 answers, misused>>

-----------------------------------------------------------------------------
Next ==
  \/ AskNext \/ Leave
  \/ Recv \/ RecvEnd \/ WriteReady
  \/ \E r \in 1 .. MaxAsked : Answer(r)
  \/ Push

(* The event loop serves the socket, and the applications answer.           *)
Fairness ==
  /\ WF_vars(Recv) /\ WF_vars(RecvEnd) /\ WF_vars(WriteReady)
  /\ \A r \in 1 .. MaxAsked : WF_vars(Answer(r))

Spec == Init /\ [][Next]_vars /\ Fairness

-----------------------------------------------------------------------------
(* Properties. *)

(* The variables have their types. *)
TypeOK ==
  /\ wire \in Seq([req : 1 .. MaxAsked, last : BOOLEAN])
  /\ here \in 0 .. MaxAsked /\ open \subseteq 1 .. MaxAsked
  /\ cache \in Seq(-1 .. MaxAsked) /\ Len(cache) <= Limit /\ buf \in -1 .. MaxAsked
  /\ {armed, active, closing, upgraded, left, patient, dropped, misused} \subseteq BOOLEAN
  /\ refcnt \in Nat /\ status \in {"served", "removed", "freed"}
  /\ asked \in Seq(Requests \union {Frame}) /\ pushed \in 0 .. MaxPushed
  /\ answers \in Seq(-1 .. MaxAsked)

(* No request is answered twice, and a client that waits for its answers    *)
(* gets them in the order in which it asked.                                *)
OnceInOrder ==
  \A i, j \in DOMAIN answers :
    i < j /\ Unasked \notin {answers[i], answers[j]} =>
      /\ answers[i] # answers[j]
      /\ patient => answers[i] < answers[j]

(* The server closes the connection of a client that waits for its answers  *)
(* only when it was asked to and has written every answer                   *)
(* (qwebs_connection__internal__on_send_ready).                             *)
ClosedWhenAnswered ==
  status # "served" /\ ~ left /\ patient =>
    /\ Last(asked).close
    /\ \A r \in DOMAIN asked : asked[r].how # "odd" => IsAnswered(r)

AnswersAreRight == OnceInOrder /\ ClosedWhenAnswered

(* "If you use only the callback functions, it is safe to access the object *)
(* everytime" (cape_aio_sock.h:25): nobody touches a freed connection.      *)
NotUsedAfterFree == ~ misused

(* A client that waits and stays gets its answer, and its connection is     *)
(* closed if it asked for it.                                               *)
EveryRequestIsAnswered ==
  \A r \in 1 .. MaxAsked :
    r \in DOMAIN asked /\ asked[r].how # "odd" /\ patient
      ~> \/ IsAnswered(r) /\ (asked[r].close => status # "served")
         \/ left \/ ~ patient \/ dropped

(* When the client has left, the connection is released as soon as the      *)
(* applications have answered.  One that left in the middle of a request is *)
(* not: the request of the parser keeps its reference for ever.             *)
ReleasedInTheEnd == left ~> status = "freed" \/ here # None

(* "send error back and close connection" (qwebs_connection.c:848): a       *)
(* request for an unknown protocol ends, too.                               *)
NobodyIsIgnored ==
  \A r \in 1 .. MaxAsked :
    r \in DOMAIN asked /\ patient
      ~> IsAnswered(r) \/ left \/ ~ patient \/ dropped \/ status # "served"

(* Every answer is kept until it can be written, and in the order of the    *)
(* requests, also for a client that does not wait.                          *)
PipelinedInOrder ==
  \A i, j \in DOMAIN answers :
    i < j /\ Unasked \notin {answers[i], answers[j]} => answers[i] < answers[j]
=============================================================================
