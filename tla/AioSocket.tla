----------------------------- MODULE AioSocket ------------------------------
(***************************************************************************)
(* One connection from the queue of encoded frames down to epoll:           *)
(* QBusConnection (libs/qbus/src/core/qbus_connection.c), CapeAioSocket      *)
(* (libs/cape/src/aio/cape_aio_sock.c) and the turn of the event loop        *)
(* (cape_aio_context_next in cape_aio_ctx.c).                               *)
(*                                                                         *)
(* A frame is put into the queue under a mutex, then the socket is MARKED:   *)
(* epoll is asked to report when it may be written.  The event loop takes    *)
(* one frame at a time out of the queue and writes it.  Marking reads and    *)
(* writes the fields `mask' and `hflags' and the epoll registration with no  *)
(* lock, on the thread of the caller.  Between two steps of the model some   *)
(* other thread may run; what one thread does to data that no other thread    *)
(* touches is one step with its neighbours.                                  *)
(*                                                                         *)
(* The kernel takes a frame as a whole, and the peer keeps reading.         *)
(***************************************************************************)
EXTENDS Integers, Sequences

CONSTANTS Threads,    \* threads of the application other than the event loop
          MaxFrames,  \* bound: frames that are put into the queue
          MaxData,    \* bound: frames the peer sends
          MayReset    \* may the peer reset the connection?

ASSUME BoundsAssumption == MaxFrames \in Nat /\ MaxData \in Nat
ASSUME MayResetAssumption == MayReset \in BOOLEAN

NoFrame == 0
Flags == {"READ", "WRITE", "DONE"}

VARIABLES
  queue,    \* cache_qeue of the connection
  sockBuf,  \* the frame the socket is writing (send_bufdat, send_buflen)
  mask,     \* flags of the socket while its event is handled
  hflags,   \* flags of the AIO handle
  sockArmed,  \* what epoll will report, once (EPOLLONESHOT)
  sockRefcnt,
  freed,    \* cape_aio_socket_del and qbus_connection_del have run
  net,      \* the peer: "up", has "closed", or has "reset" the connection
  data,     \* frames of the peer that are not read yet
  pc,       \* where the event loop is with this socket
  events,   \* what epoll has reported
  ret,      \* what onEvent returns
  at,       \* where a thread is in qbus_connection_send
  sockPushed,   \* history: how many frames were put into the queue
  sent,     \* history: the frames the kernel has taken
  foreign,  \* history: a thread other than the event loop has sent
  sockMisused   \* history: the socket was touched after it was freed

sockVars == <<sockBuf, sockRefcnt, freed, sent, sockMisused, foreign>>
socketVars == <<queue, sockBuf, mask, hflags, sockArmed, sockRefcnt, freed, net, data, pc,
                events, ret, at, sockPushed, sent, foreign, sockMisused>>

SocketInit ==
  /\ queue = <<>>
  /\ sockBuf = NoFrame
  /\ mask = {}
  /\ hflags = {"READ"} /\ sockArmed = {"READ"}   \* cape_aio_socket_listen
  /\ sockRefcnt = 1
  /\ freed = FALSE
  /\ net = "up"
  /\ data = MaxData
  /\ pc = "wait"
  /\ events = {} /\ ret = {}
  /\ at = [t \in Threads |-> "idle"]
  /\ sockPushed = 0
  /\ sent = <<>>
  /\ foreign = FALSE
  /\ sockMisused = FALSE

-----------------------------------------------------------------------------
\* Putting a frame into the queue and marking the socket.

\* Mutant: at the wrong end of the queue.
PushFront ==
  /\ sockPushed < MaxFrames
  /\ sockPushed' = sockPushed + 1
  /\ queue' = <<sockPushed + 1>> \o queue

PushFrame ==
  /\ sockPushed < MaxFrames
  /\ sockPushed' = sockPushed + 1
  /\ queue' = Append(queue, sockPushed + 1)

\* cape_aio_socket_markSent on the event loop, when no other thread comes between.
MarkAtOnce ==
  IF mask = {}
  THEN sockArmed' = {"READ", "WRITE"} /\ hflags' = {"READ", "WRITE"} /\ UNCHANGED mask
  ELSE mask' = mask \cup {"WRITE"} /\ UNCHANGED <<sockArmed, hflags>>

\* The event loop is in a handler of another descriptor or of a timer.
SendFromLoop ==
  /\ pc = "wait" /\ ~ freed
  /\ PushFrame
  /\ MarkAtOnce
  /\ UNCHANGED <<sockVars, net, data, pc, events, ret, at>>

\* Another thread: it has the frame in the queue, tests the mask, and changes
\* the mask or the registration and the flags of the handle.
SendPush(t) ==
  /\ at[t] = "idle" /\ ~ freed
  /\ PushFrame
  /\ at' = [at EXCEPT ![t] = "test"]
  /\ foreign' = TRUE
  /\ UNCHANGED <<sockBuf, sockRefcnt, freed, sent, sockMisused, mask, hflags, sockArmed, net,
                 data, pc, events, ret>>

Touched == sockMisused' = (sockMisused \/ freed) /\ UNCHANGED <<sockBuf, sockRefcnt, freed,
                                                                sent, foreign>>

SendTest(t) ==
  /\ at[t] = "test"
  /\ at' = [at EXCEPT ![t] = IF mask = {} THEN "modify" ELSE "mark"]
  /\ Touched
  /\ UNCHANGED <<queue, mask, hflags, sockArmed, net, data, pc, events, ret, sockPushed>>

SendMark(t) ==
  /\ at[t] = "mark"
  /\ mask' = mask \cup {"WRITE"}
  /\ at' = [at EXCEPT ![t] = "idle"]
  /\ Touched
  /\ UNCHANGED <<queue, hflags, sockArmed, net, data, pc, events, ret, sockPushed>>

SendModify(t) ==
  /\ at[t] = "modify"
  /\ sockArmed' = {"READ", "WRITE"}
  /\ at' = [at EXCEPT ![t] = "flags"]
  /\ Touched
  /\ UNCHANGED <<queue, mask, hflags, net, data, pc, events, ret, sockPushed>>

SendFlags(t) ==
  /\ at[t] = "flags"
  /\ hflags' = {"READ", "WRITE"}
  /\ at' = [at EXCEPT ![t] = "idle"]
  /\ Touched
  /\ UNCHANGED <<queue, mask, sockArmed, net, data, pc, events, ret, sockPushed>>

-----------------------------------------------------------------------------
\* The event loop.

\* epoll_pwait: an error is reported whatever was asked for; then the
\* registration is off until it is made again.
Reported == {f \in sockArmed : f = "WRITE" \/ data > 0 \/ net # "up"}
Wake ==
  /\ pc = "wait" /\ ~ freed
  /\ sockArmed # {}
  /\ Reported # {} \/ net = "reset"
  /\ events' = Reported
  /\ sockArmed' = {}
  /\ pc' = "enter"
  /\ UNCHANGED <<sockVars, queue, mask, hflags, net, data, ret, at, sockPushed>>

AfterRead == IF "WRITE" \in events THEN "write" ELSE "return"

\* cape_aio_socket_onEvent: an error of the socket ends the connection.
Enter ==
  /\ pc = "enter"
  /\ IF net = "reset"
     THEN /\ mask' = hflags \cup {"DONE"}
          /\ sockRefcnt' = IF sockBuf # NoFrame THEN sockRefcnt - 1 ELSE sockRefcnt
          /\ pc' = "return"
     ELSE /\ mask' = hflags
          /\ pc' = IF "READ" \in events THEN "read" ELSE AfterRead
          /\ UNCHANGED sockRefcnt
  /\ UNCHANGED <<queue, sockBuf, hflags, sockArmed, freed, net, data, events, ret, at,
                 sockPushed, sent, foreign, sockMisused>>

\* One recv that returns data: the frame is handled, and may be answered on this
\* connection.
ReadFrame ==
  /\ pc = "read" /\ data > 0 /\ net # "reset"
  /\ data' = data - 1
  /\ \/ PushFrame /\ MarkAtOnce
     \/ UNCHANGED <<queue, sockPushed, mask, sockArmed, hflags>>
  /\ UNCHANGED <<sockVars, net, pc, events, ret, at>>

\* Mutant: the end of the stream is taken for `nothing more'.
ReadEndOnError ==
  /\ pc = "read" /\ (data = 0 \/ net = "reset")
  /\ mask' = IF net = "reset" THEN mask \cup {"DONE"} ELSE mask
  /\ pc' = AfterRead
  /\ UNCHANGED <<sockVars, queue, hflags, sockArmed, net, data, events, ret, at, sockPushed>>

\* The recv that ends the loop: end of stream, an error, or nothing more.
ReadEnd ==
  /\ pc = "read" /\ (data = 0 \/ net = "reset")
  /\ mask' = CASE net = "closed" -> {"DONE"}
               [] net = "reset"  -> mask \cup {"DONE"}
               [] OTHER          -> mask
  /\ pc' = AfterRead
  /\ UNCHANGED <<sockVars, queue, hflags, sockArmed, net, data, events, ret, at, sockPushed>>

\* Mutant: no reference is taken for the buffer.
SendNextUncounted(m, refs) ==
  /\ sockRefcnt' = refs
  /\ IF queue = <<>>
     THEN sockBuf' = NoFrame /\ mask' = m /\ UNCHANGED queue
     ELSE sockBuf' = Head(queue) /\ queue' = Tail(queue) /\ mask' = m \cup {"WRITE"}
  /\ UNCHANGED <<hflags, sockArmed>>

\* Mutant: the mask does not ask for the next write.
SendNextUnmarked(m, refs) ==
  /\ mask' = m
  /\ IF queue = <<>>
     THEN sockBuf' = NoFrame /\ sockRefcnt' = refs /\ UNCHANGED queue
     ELSE sockBuf' = Head(queue) /\ queue' = Tail(queue) /\ sockRefcnt' = refs + 1
  /\ UNCHANGED <<hflags, sockArmed>>

\* qbus_connection_onSent and cape_aio_socket_send: the next frame, if there is
\* one, becomes the buffer; `m' is the mask and `refs' the counter before.
SendNext(m, refs) ==
  IF queue = <<>>
  THEN /\ sockBuf' = NoFrame /\ mask' = m /\ sockRefcnt' = refs
       /\ UNCHANGED <<queue, hflags, sockArmed>>
  ELSE /\ sockBuf' = Head(queue)
       /\ queue' = Tail(queue)
       /\ sockRefcnt' = refs + 1
       /\ IF m = {}
          THEN sockArmed' = {"READ", "WRITE"} /\ hflags' = {"READ", "WRITE"} /\ mask' = m
          ELSE mask' = m \cup {"WRITE"} /\ UNCHANGED <<sockArmed, hflags>>

\* cape_aio_socket_write with nothing to write: ask for the next frame.
WriteNothing ==
  /\ pc = "write" /\ sockBuf = NoFrame
  /\ SendNext(mask \ {"WRITE"}, sockRefcnt)
  /\ pc' = "return"
  /\ UNCHANGED <<freed, net, data, events, ret, at, sockPushed, sent, foreign, sockMisused>>

\* The frame was taken; the reference held for it goes after the next is set.
WriteFrame ==
  /\ pc = "write" /\ sockBuf # NoFrame /\ net # "reset"
  /\ sent' = Append(sent, sockBuf)
  /\ SendNext(mask \ {"WRITE"}, sockRefcnt - 1)
  /\ pc' = "return"
  /\ UNCHANGED <<freed, net, data, events, ret, at, sockPushed, foreign, sockMisused>>

\* The write fails: the reference goes, the buffer stays.
WriteFails ==
  /\ pc = "write" /\ sockBuf # NoFrame /\ net = "reset"
  /\ mask' = mask \cup {"DONE"}
  /\ sockRefcnt' = sockRefcnt - 1
  /\ pc' = "return"
  /\ UNCHANGED <<queue, sockBuf, hflags, sockArmed, freed, net, data, events, ret, at,
                 sockPushed, sent, foreign, sockMisused>>

\* The end of onEvent: the mask is read, then cleared.
ReturnMask ==
  /\ pc = "return"
  /\ ret' = mask
  /\ pc' = "clear"
  /\ UNCHANGED <<sockVars, queue, mask, hflags, sockArmed, net, data, events, at, sockPushed>>

ClearMask ==
  /\ pc = "clear"
  /\ mask' = {}
  /\ pc' = IF "DONE" \in ret THEN "remove" ELSE "flags"
  /\ UNCHANGED <<sockVars, queue, hflags, sockArmed, net, data, events, ret, at, sockPushed>>

\* cape_aio_context_next: the flags are stored and the descriptor is armed again.
StoreFlags ==
  /\ pc = "flags"
  /\ hflags' = ret
  /\ pc' = "arm"
  /\ UNCHANGED <<sockVars, queue, mask, sockArmed, net, data, events, ret, at, sockPushed>>

Arm ==
  /\ pc = "arm"
  /\ sockArmed' = ret
  /\ pc' = "wait"
  /\ UNCHANGED <<sockVars, queue, mask, hflags, net, data, events, ret, at, sockPushed>>

\* The handle is removed and cape_aio_socket_onUnref gives up the references: of
\* the buffer, if there is one, and of the handle.  At zero the socket is freed,
\* and with it the connection and its queue.
OnSocketUnref ==
  LET held == IF sockBuf # NoFrame THEN 2 ELSE 1
  IN /\ sockRefcnt' = sockRefcnt - held
     /\ freed' = (sockRefcnt <= held)
     /\ sockMisused' = (sockMisused \/ sockRefcnt < held)
RemoveHandle ==
  /\ pc = "remove"
  /\ sockArmed' = {}
  /\ OnSocketUnref
  /\ sockBuf' = NoFrame
  /\ pc' = "wait"
  /\ UNCHANGED <<queue, mask, hflags, net, data, events, ret, at, sockPushed, sent, foreign>>

\* The peer.
PeerCloses ==
  /\ net = "up" /\ net' = "closed"
  /\ UNCHANGED <<sockVars, queue, mask, hflags, sockArmed, data, pc, events, ret, at, sockPushed>>
PeerResets ==
  /\ MayReset /\ net # "reset" /\ net' = "reset"
  /\ UNCHANGED <<sockVars, queue, mask, hflags, sockArmed, data, pc, events, ret, at, sockPushed>>

Loop ==
  \/ Wake \/ Enter \/ ReadFrame \/ ReadEnd \/ WriteNothing \/ WriteFrame \/ WriteFails
  \/ ReturnMask \/ ClearMask \/ StoreFlags \/ Arm \/ RemoveHandle
SendBy(t) == SendPush(t) \/ SendTest(t) \/ SendMark(t) \/ SendModify(t) \/ SendFlags(t)

SocketNext == Loop \/ SendFromLoop \/ (\E t \in Threads : SendBy(t)) \/ PeerCloses \/ PeerResets

\* The event loop runs: epoll reports what is ready, and handlers return.
SocketSpec == SocketInit /\ [][SocketNext]_socketVars /\ WF_socketVars(Loop)

-----------------------------------------------------------------------------
\* Types and ranges: in particular the reference counter never goes above the
\* handle and one buffer.
SocketTypeOK ==
  /\ queue \in Seq(1 .. MaxFrames)
  /\ sockBuf \in 0 .. MaxFrames
  /\ mask \subseteq Flags /\ hflags \subseteq Flags /\ sockArmed \subseteq Flags
  /\ events \subseteq Flags /\ ret \subseteq Flags
  /\ sockRefcnt \in -1 .. 2
  /\ freed \in BOOLEAN /\ foreign \in BOOLEAN /\ sockMisused \in BOOLEAN
  /\ net \in {"up", "closed", "reset"}
  /\ data \in 0 .. MaxData
  /\ pc \in {"wait", "enter", "read", "write", "return", "clear", "flags", "arm", "remove"}
  /\ at \in [Threads -> {"idle", "test", "mark", "modify", "flags"}]
  /\ sockPushed \in 0 .. MaxFrames
  /\ sent \in Seq(1 .. MaxFrames)

\* Whatever the order of callbacks, a socket that is alive has one reference for
\* the AIO handle and one for the buffer that is being written, unless the peer
\* resets the connection.
RefcountIsRight ==
  ~ freed /\ net # "reset" => sockRefcnt = IF sockBuf = NoFrame THEN 1 ELSE 2

\* No frame is lost, written twice or overtaken on its way through the queue and
\* the buffer while the connection is there, whichever threads send.
FramesInOrder ==
  ~ freed =>
    sent \o (IF sockBuf = NoFrame THEN <<>> ELSE <<sockBuf>>) \o queue = [i \in 1 .. sockPushed |-> i]

\* The event loop waits, nobody is in the middle of a send, and for a socket with
\* frames left epoll is not asked to report that it may be written.
Unserved ==
  /\ pc = "wait" /\ ~ freed
  /\ \A t \in Threads : at[t] = "idle"
  /\ queue # <<>> \/ sockBuf # NoFrame
  /\ "WRITE" \notin sockArmed

\* What the event loop itself sends is written, or the peer goes away.
EveryFrameIsSent ==
  \A i \in 1 .. MaxFrames :
    (sockPushed >= i) ~> ((\E k \in 1 .. Len(sent) : sent[k] = i) \/ net # "up" \/ foreign)

\* A connection whose peer went away is released with its socket, whatever was
\* still to be written and whoever was about to send.
ReleasedAfterClose == (net # "up") ~> freed

-----------------------------------------------------------------------------
\* "This must be turned on with cape_aio_socket_markSent again"
\* (cape_aio_sock.h): after a frame was queued and the socket marked, by whatever
\* thread, epoll is asked to report that it may be written.
MarkedIsArmed == ~ Unserved

\* "The object will be released there. If you use only the callback functions,
\* it is safe to access the object everytime" (cape_aio_sock.h).
NotTouchedAfterFree == ~ sockMisused

=============================================================================
