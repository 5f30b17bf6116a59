----------------------------- MODULE FrameRelay -----------------------------
(***************************************************************************)
(* The frame path of LGProxy, one session of it: the source's streaming    *)
(* loop (lpHandleClientReq), the sink's streaming loop (main of lp_sink.c  *)
(* with lpRequestFrame, lpSignalFrameDone, lpKeepLGMPSessionAlive and      *)
(* lpPollMsg), the LGMP frame queue the Looking Glass host fills on the    *)
(* source's machine, the LGMP frame queue the Looking Glass client empties *)
(* on the sink's machine, and the libtrf connection between the two.       *)
(*                                                                         *)
(* libtrf, LGMP and both Looking Glass programs are external: they are     *)
(* modelled by what the code relies on.  A frame is its serial number; the *)
(* pixels of a buffer are the number of the frame last written into it.    *)
(* The host's buffers are known by what is in them: the one lpGetFrame     *)
(* returned last, the one that is sent, and the others.  A send or a       *)
(* receive that fails ends its loop as a broken connection does, and is    *)
(* that here; the two whose failure is only logged are outcomes of their   *)
(* own (Acknowledge, SnkPollKeepAlive).                                    *)
(***************************************************************************)
EXTENDS Integers, Sequences

CONSTANTS
    QLen,           \* LGMP_Q_FRAME_LEN, slots of either frame queue
    SerialMod,      \* 2^32 in the code: serials are uint32_t and wrap
    KeepAlivePeriod,\* rounds without a subscriber per keep-alive (10 in the code)
    Sync,           \* the sink runs with a negative poll interval (opts.poll_int < 0)
    MaxFrame,       \* bound: frames the Looking Glass host produces
    MaxNet,         \* bound: keep-alives are sent only into a shorter channel
    LinkMayFail,    \* may the connection fail on its own?
    CallMayFail,    \* may a send or a receive fail while the connection lasts?
    ClientMayDie,   \* may the Looking Glass client stop without unsubscribing?
    MayZero         \* may the shared memory be zeroed under the sink?

ASSUME QLenAssumption      == QLen \in Nat \ {0}
ASSUME SerialModAssumption == SerialMod \in Nat \ {0}
ASSUME PeriodAssumption    == KeepAlivePeriod \in Nat \ {0}
ASSUME BoundsAssumption    == MaxFrame \in Nat /\ MaxNet \in Nat
ASSUME SwitchAssumption    == {Sync, LinkMayFail, CallMayFail, ClientMayDie, MayZero} \subseteq BOOLEAN

VARIABLES
    (* Looking Glass host and the source's subscription to its queue *)
    produced,     \* number of frames produced so far
    lgq,          \* frames posted to the source and not given back
    lgsub,        \* "on", "timedout" (host dropped the source) or "invalid"
    (* source *)
    spc,          \* where lpHandleClientReq is: "poll", "get", "progress", "end"
    req,          \* the request being served: its slot and frame_cntr
    fetched,      \* the frame lpGetFrame returned last
    fb,           \* the frame now in the buffer it was returned in
    fb_offset,    \* the frame now in the buffer that is sent next
    (* the main channel of the connection *)
    link, toSource, toSink,
    (* sink *)
    kpc,          \* where main is: "loop", "request", "await", "poll", "end"
    frame_cntr,   \* displays->frame_cntr
    frame_index,  \* lp_client.frame_index
    repeatframe, ctr,
    posted,       \* main's receive buffer is posted
    state,        \* ctx->state
    flag,         \* SIGINT was received
    subBye,       \* the cursor thread received the source's disconnect
    (* the sink's shared memory and the Looking Glass client *)
    hostQ,        \* slots posted to the client and not given back
    wp,           \* per slot, is the frame buffer's write pointer at the end?
    content,      \* per slot, the frame in the buffer (0: none)
    zeroed,       \* the LGMP header has been zeroed
    client,       \* "none", "live", "dead", or "expired" (dead past its timeout)
    shown,        \* the frame the client displayed last
    (* history *)
    landed,       \* the frame for the request in progress is in its buffer
    unacked,      \* and the acknowledgement that should say so failed
    latest,       \* the frame written into the sink's memory last
    known,        \* the newest frame the source had fetched by then
    overran       \* a buffer was filled again before it was sent

srcVars  == <<spc, req, fetched, fb, fb_offset>>
lgVars   == <<produced, lgq, lgsub>>
netVars  == <<link, toSource, toSink>>
snkVars  == <<kpc, frame_cntr, frame_index, repeatframe, ctr, posted>>
signals  == <<flag, subBye>>
shmVars  == <<hostQ, wp, content, zeroed>>
histVars == <<landed, unacked, latest, known, overran>>
vars == <<lgVars, srcVars, netVars, snkVars, state, signals, shmVars, client, shown, histVars>>

Slots   == 0 .. QLen - 1
Serials == 0 .. SerialMod - 1
Request == [type : {"freq"}, slot : Slots, cntr : Serials]
Plain(t) == [type |-> t]
SourceMsg == Request \cup {Plain("ka"), Plain("bye")}
SinkMsg   == {Plain("ka"), Plain("ack"), Plain("bye")}

Awaiting == kpc \in {"await", "poll"}
Has(q, t)  == \E i \in 1 .. Len(q) : q[i].type = t
Once(q, t) == \A i, j \in 1 .. Len(q) : q[i].type = t /\ q[j].type = t => i = j

(* lgmpClientMessageDone: gives the oldest message back; on an empty queue *)
(* it fails with a status that is at most logged.                          *)
MessageDone(q) == IF q = <<>> THEN q ELSE Tail(q)

PostUnbounded(q, c, s) == IF c = "none" THEN q ELSE Append(q, s)

(* lgmpHostQueuePost: nothing is queued when nobody subscribes or the      *)
(* queue is full.                                                          *)
Post(q, c, s) == IF c = "none" \/ Len(q) >= QLen THEN q ELSE Append(q, s)

(* What lgmpHostProcess does to the queue and to the subscription: a       *)
(* client that exceeded its timeout is dropped together with its messages. *)
PurgedQ == IF client = "expired" THEN <<>> ELSE hostQ
PurgedC == IF client = "expired" THEN "none" ELSE client
HostProcess == hostQ' = PurgedQ /\ client' = PurgedC

(* A message reaches the peer while the connection and both ends last.     *)
Connected == link = "up" /\ spc # "end" /\ kpc # "end"
Send(chan, m) == IF Connected THEN Append(chan, m) ELSE chan

(* The set-up has fetched a first frame, and registered its buffer.        *)
Init ==
    /\ produced = 1 /\ lgq = <<>> /\ lgsub = "on"
    /\ spc = "poll" /\ fetched = 1 /\ fb = 1 /\ fb_offset = 1
    /\ req = [type |-> "freq", slot |-> 0, cntr |-> 0]
    /\ link = "up" /\ toSource = <<>> /\ toSink = <<>>
    /\ kpc = "loop" /\ frame_cntr = 0 /\ frame_index = 0
    /\ repeatframe = FALSE /\ ctr = 0 /\ posted = TRUE
    /\ state = "RUNNING" /\ flag = FALSE /\ subBye = FALSE
    /\ hostQ = <<>> /\ zeroed = FALSE
    /\ wp = [s \in Slots |-> FALSE] /\ content = [s \in Slots |-> 0]
    /\ client = "none" /\ shown = 0
    /\ landed = FALSE /\ unacked = FALSE /\ latest = 0 /\ known = 1 /\ overran = FALSE

-----------------------------------------------------------------------------
Filled(buffer, before) == IF buffer = before THEN produced + 1 ELSE buffer

Pending == {lgq[i] : i \in 1 .. Len(lgq)}

(* The Looking Glass host, external: it posts a frame when the queue has   *)
(* room, in a buffer whose message it has back, whatever is done with that *)
(* buffer on the other side; it drops a subscriber that leaves a frame     *)
(* unread for too long, and its session may go away.                       *)
HostPost ==
    /\ produced < MaxFrame
    /\ lgsub = "on" => Len(lgq) < QLen
    /\ produced' = produced + 1
    /\ lgq' = IF lgsub = "on" THEN Append(lgq, produced + 1) ELSE lgq
    /\ \E before \in {0, fb, fb_offset} \ Pending :
         fb' = Filled(fb, before) /\ fb_offset' = Filled(fb_offset, before)
    /\ UNCHANGED <<lgsub, spc, req, fetched, netVars, snkVars, state, signals, shmVars, client, shown,
                   histVars>>

HostDropsSource ==
    /\ lgsub = "on"
    /\ \/ lgq # <<>> /\ lgsub' = "timedout"
       \/ lgsub' = "invalid"
    /\ lgq' = <<>>
    /\ UNCHANGED <<produced, srcVars, netVars, snkVars, state, signals, shmVars, client, shown,
                   histVars>>

-----------------------------------------------------------------------------
(* The source: lpHandleClientReq's loop.                                   *)

(* destroy_ctx: the context of the client is destroyed, which tells the    *)
(* sink so while the connection lasts; what it had not read is gone.       *)
SrcDestroy == /\ spc' = "end" /\ toSource' = <<>>
              /\ toSink' = Send(toSink, Plain("bye"))

buffers == <<fetched, fb, fb_offset>>
srcRest == <<lgVars, req, buffers, link, snkVars, state, signals, shmVars, client, shown, histVars>>

(* SIGINT or a failed cursor thread, seen at the top of either loop.       *)
SrcQuit ==
    /\ spc \in {"poll", "get"}
    /\ SrcDestroy
    /\ UNCHANGED srcRest

SrcPollError ==
    /\ spc = "poll" /\ link = "down"
    /\ SrcDestroy
    /\ UNCHANGED srcRest

SrcRecvKeepAlive ==
    /\ spc = "poll" /\ toSource # <<>> /\ Head(toSource).type = "ka"
    /\ toSource' = Tail(toSource)
    /\ UNCHANGED <<srcRest, spc, toSink>>

SrcRecvDisconnect ==
    /\ spc = "poll" /\ toSource # <<>> /\ Head(toSource).type = "bye"
    /\ SrcDestroy
    /\ UNCHANGED srcRest

SrcRecvFrameReqKeepsOffset ==
    /\ spc = "poll" /\ toSource # <<>> /\ Head(toSource).type = "freq"
    /\ req' = Head(toSource)
    /\ toSource' = Tail(toSource)
    /\ spc' = "get"
    /\ UNCHANGED <<lgVars, buffers, link, toSink, snkVars, state, signals, shmVars, client, shown,
                   histVars>>

(* The buffer to be sent is set before the frame is fetched: it is that of *)
(* the frame fetched before.                                               *)
SrcRecvFrameReq ==
    /\ spc = "poll" /\ toSource # <<>> /\ Head(toSource).type = "freq"
    /\ req' = Head(toSource)
    /\ fb_offset' = fb
    /\ toSource' = Tail(toSource)
    /\ spc' = "get"
    /\ UNCHANGED <<lgVars, fetched, fb, link, toSink, snkVars, state, signals, shmVars, client, shown,
                   histVars>>

SrcGetKeepAliveUnchecked ==
    /\ spc = "get" /\ lgsub = "on" /\ lgq = <<>> /\ Len(toSink) < MaxNet
    /\ toSink' = Send(toSink, Plain("ka"))
    /\ UNCHANGED <<srcRest, spc, toSource>>

(* No frame for a second: a keep-alive; when it cannot be sent, the        *)
(* function returns without destroying the client's context.               *)
SrcGetKeepAlive ==
    /\ spc = "get" /\ lgsub = "on" /\ lgq = <<>>
    /\ \/ /\ link = "up" /\ Len(toSink) < MaxNet
          /\ toSink' = Send(toSink, Plain("ka"))
          /\ UNCHANGED <<spc, toSource>>
       \/ link = "down" /\ spc' = "end" /\ UNCHANGED <<toSource, toSink>>
    /\ UNCHANGED srcRest

SrcResubscribe ==
    /\ spc = "get" /\ lgsub = "timedout"
    /\ lgsub' = "on"
    /\ UNCHANGED <<produced, lgq, srcVars, netVars, snkVars, state, signals, shmVars, client, shown,
                   histVars>>

SrcGetError ==
    /\ spc = "get" /\ lgsub = "invalid"
    /\ SrcDestroy
    /\ UNCHANGED srcRest

RepeatedInverted(f) == f % SerialMod # req.cntr

Repeated(f) == f % SerialMod = req.cntr

SrcGetFrameRepeatEndsLoop ==
    /\ spc = "get" /\ lgsub = "on" /\ lgq # <<>>
    /\ fetched' = Head(lgq) /\ fb' = Head(lgq)
    /\ IF Repeated(Head(lgq))
         THEN /\ lgq' = MessageDone(MessageDone(lgq))
              /\ spc' = "poll" /\ UNCHANGED <<toSource, toSink>>
         ELSE /\ lgq' = MessageDone(lgq)
              /\ IF link = "up" THEN spc' = "progress" /\ UNCHANGED <<toSource, toSink>>
                                ELSE SrcDestroy
    /\ UNCHANGED <<produced, lgsub, req, fb_offset, link, snkVars, state, signals, shmVars, client,
                   shown, histVars>>

(* lpGetFrame gives the message back before it returns the frame.  A frame *)
(* whose serial equals the request's counter is taken for a repetition:    *)
(* the message "is given back" once more and the loop goes on.             *)
SrcGetFrame ==
    /\ spc = "get" /\ lgsub = "on" /\ lgq # <<>>
    /\ fetched' = Head(lgq) /\ fb' = Head(lgq)
    /\ IF Repeated(Head(lgq))
         THEN /\ lgq' = MessageDone(MessageDone(lgq))
              /\ UNCHANGED <<spc, toSource, toSink>>
         ELSE /\ lgq' = MessageDone(lgq)
              /\ IF link = "up" THEN spc' = "progress" /\ UNCHANGED <<toSource, toSink>>
                                ELSE SrcDestroy
    /\ UNCHANGED <<produced, lgsub, req, fb_offset, link, snkVars, state, signals, shmVars, client,
                   shown, histVars>>

RdmaWriteFirstSlot(s, f) ==
    /\ content' = [content EXCEPT ![0] = f]
    /\ landed' = (landed \/ (Awaiting /\ 0 = frame_index))
    /\ latest' = f

(* The RDMA write completes: the frame is in the buffer the request named. *)
RdmaWrite(s, f) ==
    /\ content' = [content EXCEPT ![s] = f]
    /\ landed' = (landed \/ (Awaiting /\ s = frame_index))
    /\ latest' = f

(* The buffer at fb_offset is sent, whatever the host has put there since. *)
(* The source calls lgmpClientMessageDone again and acknowledges; when     *)
(* that fails, it is logged and the request counts as served.              *)
Acknowledge ==
    \/ toSink' = Append(toSink, Plain("ack")) /\ unacked' = unacked
    \/ CallMayFail /\ toSink' = toSink /\ unacked' = TRUE

SrcSendDone ==
    /\ spc = "progress" /\ link = "up" /\ kpc # "end"
    /\ RdmaWrite(req.slot, fb_offset)
    /\ known' = fetched
    /\ overran' = (overran \/ fb_offset # known)
    /\ lgq' = MessageDone(lgq)
    /\ Acknowledge
    /\ spc' = "poll"
    /\ UNCHANGED <<produced, lgsub, req, buffers, link, toSource, snkVars, state, signals, hostQ, wp,
                   zeroed, client, shown>>

SrcSendFail ==
    /\ spc = "progress" /\ (link = "down" \/ kpc = "end")
    /\ SrcDestroy
    /\ UNCHANGED srcRest

SourceRun ==
          \/ SrcPollError \/ SrcRecvKeepAlive \/ SrcRecvDisconnect
          \/ SrcRecvFrameReq \/ SrcGetKeepAlive \/ SrcResubscribe \/ SrcGetError
          \/ SrcGetFrame \/ SrcSendDone \/ SrcSendFail
Source == SrcQuit \/ SourceRun

-----------------------------------------------------------------------------
(* The sink: main's loop.                                                  *)

(* goto destroy_ctx: the other threads are told to stop and the connection *)
(* is closed.                                                              *)
SnkDestroy ==
    /\ kpc' = "end" /\ state' = "STOP"
    /\ toSource' = Send(toSource, Plain("bye")) /\ toSink' = <<>>
    /\ link' = link

(* return -1: the process ends and takes the connection with it.           *)
SnkReturn ==
    /\ kpc' = "end" /\ state' = state
    /\ link' = "down" /\ toSource' = <<>> /\ toSink' = <<>>

srcSide == <<lgVars, srcVars>>
loopVars == <<frame_cntr, frame_index, repeatframe, ctr, posted>>
memVars == <<wp, content, zeroed>>

AwaitUnflagged == FALSE

(* The inner loop tests the flag at the head of each of its rounds.        *)
AwaitFlagged == flag

SnkQuit ==
    /\ \/ kpc = "loop" /\ (flag \/ state = "STOP")
       \/ kpc = "await" /\ AwaitFlagged
    /\ SnkDestroy
    /\ UNCHANGED <<srcSide, loopVars, signals, shmVars, client, shown, histVars>>

Looping == kpc = "loop" /\ ~flag /\ state # "STOP"

(* lgmpHostProcess fails at the top of the loop.                           *)
SnkCorrupted ==
    /\ Looping /\ zeroed
    /\ SnkReturn
    /\ UNCHANGED <<srcSide, loopVars, signals, shmVars, client, shown, histVars>>

(* Nobody subscribes: every KeepAlivePeriod rounds a keep-alive.           *)
SnkIdle ==
    /\ Looping /\ ~zeroed /\ PurgedC = "none"
    /\ HostProcess
    /\ ctr' = (ctr + 1) % KeepAlivePeriod
    /\ IF ctr' # 0
         THEN UNCHANGED <<kpc, state, netVars>>
         ELSE \/ /\ link = "up" /\ Len(toSource) < MaxNet
                 /\ toSource' = Send(toSource, Plain("ka"))
                 /\ UNCHANGED <<kpc, state, link, toSink>>
              \/ link = "down" /\ SnkDestroy
    /\ UNCHANGED <<srcSide, frame_cntr, frame_index, repeatframe, posted, signals, memVars, shown,
                   histVars>>

SnkServe ==
    /\ Looping /\ ~zeroed /\ PurgedC # "none"
    /\ HostProcess
    /\ kpc' = "request"
    /\ UNCHANGED <<srcSide, netVars, loopVars, state, signals, memVars, shown, histVars>>

SnkRequestRefusedFull ==
    /\ kpc = "request"
    /\ \/ state # "RUNNING"
       \/ Len(hostQ) = QLen \/ zeroed
    /\ SnkDestroy
    /\ UNCHANGED <<srcSide, loopVars, signals, shmVars, client, shown, histVars>>

(* lpRequestFrame, whose first loop waits for room in the queue while the  *)
(* state is RUNNING.  It refuses unless the state is RUNNING afterwards.   *)
SnkRequestRefused ==
    /\ kpc = "request"
    /\ \/ state # "RUNNING"
       \/ Len(hostQ) # QLen /\ zeroed
    /\ SnkDestroy
    /\ UNCHANGED <<srcSide, loopVars, signals, shmVars, client, shown, histVars>>

NextIndexRing == IF frame_index + 1 = QLen THEN 0 ELSE frame_index + 1

(* frame_index starts from 0 in every call.                                *)
NextIndex == IF 0 + 1 = QLen THEN 0 ELSE 0 + 1

PrepareForgotten(w, s) == w

(* framebuffer_prepare: the write pointer is rewound. *)
Prepare(w, s) == [w EXCEPT ![s] = FALSE]

(* The rest of lpRequestFrame, and trfRecvFrame: the buffer is prepared    *)
(* (its write pointer rewound), posted, and asked for.                     *)
SnkRequest ==
    /\ kpc = "request" /\ state = "RUNNING" /\ Len(hostQ) # QLen /\ ~zeroed
    /\ frame_index' = NextIndex
    /\ wp' = Prepare(wp, NextIndex)
    /\ client' = PurgedC
    /\ hostQ' = Post(PurgedQ, PurgedC, NextIndex)
    /\ landed' = FALSE /\ unacked' = FALSE
    /\ repeatframe' = FALSE /\ posted' = TRUE
    /\ IF link = "up"
         THEN /\ toSource' = Send(toSource,
                     [type |-> "freq", slot |-> NextIndex, cntr |-> frame_cntr])
              /\ kpc' = "await"
              /\ UNCHANGED <<link, toSink, state>>
         ELSE SnkReturn
    /\ UNCHANGED <<srcSide, frame_cntr, ctr, signals, content, zeroed, shown, latest, known, overran>>

(* lpSignalFrameDone: the write pointer is set to the end of the frame.    *)
SignalFrameDone(w) == [w EXCEPT ![frame_index] = TRUE]

(* One round of the inner loop up to the poll: a repeated frame is posted  *)
(* again and signalled, then the session is kept alive.                    *)
RepeatPost(q, c) == IF repeatframe THEN Post(q, c, frame_index) ELSE q
SnkAwait ==
    /\ kpc = "await" /\ ~AwaitFlagged /\ ~zeroed
    /\ wp' = IF repeatframe THEN SignalFrameDone(wp) ELSE wp
    /\ hostQ' = IF client = "expired" THEN <<>> ELSE RepeatPost(hostQ, client)
    /\ client' = PurgedC
    /\ kpc' = "poll"
    /\ UNCHANGED <<srcSide, netVars, loopVars, state, signals, content, zeroed, shown, histVars>>

(* The same round on zeroed memory: lpKeepLGMPSessionAlive shuts the LGMP  *)
(* host down, which leaves the state at RESTART, and starts a new one.     *)
(* lpInitHost may fail.  A disconnect the cursor thread receives between   *)
(* RESTART and the join leaves the state at STOP.                          *)
SnkReinit ==
    /\ kpc = "await" /\ ~AwaitFlagged /\ zeroed
    /\ hostQ' = <<>> /\ client' = "none"
    /\ wp' = IF repeatframe THEN SignalFrameDone(wp) ELSE wp
    /\ \/ state' = "RESTART" /\ subBye' = subBye
       \/ state = "RUNNING" /\ state' = "STOP" /\ subBye' = TRUE
    /\ \/ /\ kpc' = "poll" /\ zeroed' = FALSE
          /\ UNCHANGED netVars
       \/ /\ kpc' = "end" /\ zeroed' = zeroed
          /\ link' = "down" /\ toSource' = <<>> /\ toSink' = <<>>
    /\ UNCHANGED <<srcSide, loopVars, flag, content, shown, histVars>>

pollRest == <<srcSide, frame_index, ctr, signals, shmVars, client, shown, histVars>>

(* lpPollMsg finds nothing, or has no buffer to find anything in.          *)
(* Asynchronous polling gives -EAGAIN, and the frame in the buffer is      *)
(* repeated; synchronous polling gives -ETIMEDOUT after 100 ms, which main *)
(* takes for an error.                                                     *)
SnkPollEmpty ==
    /\ kpc = "poll" /\ ((link = "up" /\ toSink = <<>>) \/ ~posted)
    /\ IF Sync THEN SnkReturn /\ repeatframe' = repeatframe
               ELSE /\ kpc' = "await" /\ repeatframe' = TRUE
                    /\ UNCHANGED <<netVars, state>>
    /\ UNCHANGED <<pollRest, frame_cntr, posted>>

SnkPollError ==
    /\ kpc = "poll" /\ link = "down" /\ posted
    /\ SnkReturn
    /\ UNCHANGED <<pollRest, frame_cntr, repeatframe, posted>>

Received(t) == /\ kpc = "poll" /\ posted /\ toSink # <<>> /\ Head(toSink).type = t
               /\ toSink' = Tail(toSink)

SnkPollKeepAliveEndsWait ==
    /\ Received("ka")
    /\ posted' = TRUE
    /\ kpc' = "loop"
    /\ UNCHANGED <<pollRest, frame_cntr, repeatframe, state, link, toSource>>

(* The receive is posted again; a failure is logged, and the wait goes on  *)
(* with no buffer an answer could arrive in.                               *)
SnkPollKeepAlive ==
    /\ Received("ka")
    /\ posted' \in {TRUE, ~CallMayFail}
    /\ kpc' = "await"
    /\ UNCHANGED <<pollRest, frame_cntr, repeatframe, state, link, toSource>>

SnkPollAck ==
    /\ Received("ack")
    /\ wp' = SignalFrameDone(wp)
    /\ repeatframe' = FALSE
    /\ frame_cntr' = (frame_cntr + 1) % SerialMod
    /\ kpc' = "loop"
    /\ UNCHANGED <<srcSide, frame_index, ctr, posted, signals, hostQ, content, zeroed, client, shown, histVars,
                   state, link, toSource>>

(* Any other message ends the wait without a frame.                        *)
SnkPollOther ==
    /\ Received("bye")
    /\ frame_cntr' = (frame_cntr + 1) % SerialMod
    /\ kpc' = "loop"
    /\ UNCHANGED <<pollRest, repeatframe, posted, state, link, toSource>>

(* The sink's cursor thread, which runs in state RUNNING, is told of a     *)
(* disconnect by the source's cursor thread: at the end of the source, or  *)
(* on an error of that thread's own, while the source's main still runs.   *)
SnkCursorStop ==
    /\ state = "RUNNING" /\ kpc # "end"
    /\ state' = "STOP" /\ subBye' = TRUE
    /\ UNCHANGED <<srcSide, netVars, snkVars, flag, shmVars, client, shown, histVars>>

SinkStep == \/ SnkQuit \/ SnkCorrupted \/ SnkIdle \/ SnkServe
            \/ SnkRequestRefused \/ SnkRequest \/ SnkAwait \/ SnkReinit
            \/ SnkPollEmpty \/ SnkPollError \/ SnkPollKeepAlive \/ SnkPollAck
            \/ SnkPollOther

(* exitHandler of the sink.                                                *)
Interrupt ==
    /\ ~flag /\ flag' = TRUE
    /\ UNCHANGED <<srcSide, netVars, snkVars, state, subBye, shmVars, client, shown, histVars>>

-----------------------------------------------------------------------------
(* The Looking Glass client, external.                                     *)
clientRest == <<srcSide, netVars, snkVars, state, signals, memVars, histVars>>

ClientSubscribe ==
    /\ client = "none" /\ kpc # "end" /\ ~zeroed
    /\ client' = "live"
    /\ UNCHANGED <<clientRest, hostQ, shown>>

(* It displays a frame once the write pointer says it is complete, and     *)
(* gives the message back; it gives up on one that stays incomplete.       *)
ClientRead ==
    /\ client = "live" /\ hostQ # <<>>
    /\ \/ wp[Head(hostQ)] /\ shown' = content[Head(hostQ)]
       \/ ~wp[Head(hostQ)] /\ shown' = shown
    /\ hostQ' = Tail(hostQ)
    /\ UNCHANGED <<clientRest, client>>

ClientDie ==
    /\ ClientMayDie /\ client = "live"
    /\ client' = "dead"
    /\ UNCHANGED <<clientRest, hostQ, shown>>

ClientTimeout ==
    /\ client = "dead"
    /\ client' = "expired"
    /\ UNCHANGED <<clientRest, hostQ, shown>>

MemoryZeroed ==
    /\ MayZero /\ ~zeroed /\ kpc # "end"
    /\ zeroed' = TRUE
    /\ wp' = [s \in Slots |-> FALSE] /\ content' = [s \in Slots |-> 0]
    /\ UNCHANGED <<srcSide, netVars, snkVars, state, signals, hostQ, client, shown, histVars>>

-----------------------------------------------------------------------------
(* The connection, external: it breaks on its own, or once one end is gone *)
(* and the fabric notices; what was on its way is lost.                    *)
LinkDown ==
    /\ link = "up"
    /\ link' = "down" /\ toSource' = <<>> /\ toSink' = <<>>
    /\ UNCHANGED <<srcSide, snkVars, state, signals, shmVars, client, shown, histVars>>

LinkFail   == LinkMayFail /\ LinkDown
PeerClosed == (spc = "end" \/ kpc = "end") /\ LinkDown

(* Both programs have ended.                                               *)
Ended == spc = "end" /\ kpc = "end" /\ UNCHANGED vars

Next == \/ HostPost \/ HostDropsSource
        \/ Source
        \/ SinkStep \/ SnkCursorStop \/ Interrupt
        \/ ClientSubscribe \/ ClientRead \/ ClientDie \/ ClientTimeout
        \/ MemoryZeroed
        \/ LinkFail \/ PeerClosed \/ Ended

Spec == Init /\ [][Next]_vars

(* Each process keeps running, the client reads what it is given, time     *)
(* passes for a dead one, and the fabric notices a peer that is gone.      *)
(* Nothing makes the host produce, the user act, or anything fail.         *)
Fairness ==
    /\ WF_vars(SourceRun)
    /\ WF_vars(SinkStep)
    /\ WF_vars(ClientRead) /\ WF_vars(ClientTimeout)
    /\ WF_vars(PeerClosed)

FairSpec == Spec /\ Fairness

-----------------------------------------------------------------------------
(* Properties.                                                             *)

(* Every variable keeps its type; neither queue outgrows its slots         *)
(* (lgmpHostQueuePost and the wait at the head of lpRequestFrame).         *)
LgTyped == /\ produced \in Nat /\ lgq \in Seq(Nat) /\ Len(lgq) <= QLen
           /\ lgsub \in {"on", "timedout", "invalid"}
SrcTyped == /\ spc \in {"poll", "get", "progress", "end"}
            /\ req \in Request /\ fetched \in Nat /\ fb \in Nat /\ fb_offset \in Nat
NetTyped == /\ link \in {"up", "down"}
            /\ toSource \in Seq(SourceMsg) /\ toSink \in Seq(SinkMsg)
SnkTyped == /\ kpc \in {"loop", "request", "await", "poll", "end"}
            /\ frame_cntr \in Serials /\ frame_index \in Slots
            /\ repeatframe \in BOOLEAN /\ posted \in BOOLEAN
            /\ ctr \in 0 .. KeepAlivePeriod - 1
            /\ state \in {"RUNNING", "STOP", "RESTART"}
            /\ flag \in BOOLEAN /\ subBye \in BOOLEAN
ShmTyped == /\ hostQ \in Seq(Slots) /\ Len(hostQ) <= QLen
            /\ wp \in [Slots -> BOOLEAN] /\ content \in [Slots -> Nat]
            /\ zeroed \in BOOLEAN /\ shown \in Nat
            /\ client \in {"none", "live", "dead", "expired"}
HistTyped == /\ landed \in BOOLEAN /\ unacked \in BOOLEAN /\ overran \in BOOLEAN
             /\ latest \in Nat /\ known \in Nat
TypeOK == LgTyped /\ SrcTyped /\ NetTyped /\ SnkTyped /\ ShmTyped /\ HistTyped

(* A request is in one place at a time: on its way, being served by the    *)
(* source, or answered and on its way back.  While the sink runs and does  *)
(* not wait there is none, so that a late answer can never be taken for    *)
(* the answer to the next request (acknowledgements carry no number).      *)
Serving == spc \in {"get", "progress"}
OneRequest ==
    /\ Once(toSource, "freq") /\ Once(toSink, "ack")
    /\ ~(Has(toSource, "freq") /\ (Serving \/ Has(toSink, "ack")))
    /\ ~(Serving /\ Has(toSink, "ack"))
    /\ Has(toSource, "freq") \/ Serving \/ Has(toSink, "ack")
         => Awaiting \/ kpc = "end" \/ spc = "end" \/ link = "down"

(* No request is lost on the way: while the connection and the source      *)
(* last, what the sink waits for is on its way or being served until its   *)
(* frame has been written, and then its acknowledgement is on its way,     *)
(* through repeated frames, keep-alives, resubscriptions and dropped       *)
(* messages.  The one exception is an acknowledgement that could not be    *)
(* sent (trfAckFrameReq, which lpHandleClientReq only logs): a request     *)
(* nobody will answer has at least been served.                            *)
NoRequestLost ==
    Awaiting /\ link = "up" /\ spc # "end" =>
        IF landed THEN Has(toSink, "ack") \/ unacked
                  ELSE Has(toSource, "freq") \/ Serving

(* The acknowledgement the sink turns into lpSignalFrameDone means that    *)
(* the frame is in the buffer the sink asked for, whatever was sent or     *)
(* lost before it.                                                         *)
AckMeansWritten == Has(toSink, "ack") /\ kpc # "end" => Awaiting /\ landed

(* The source is about to write only into the buffer the sink waits on,    *)
(* and a frame no older than the newest it had fetched at the write        *)
(* before.                                                                 *)
WriteIsWanted ==
    spc = "progress" /\ link = "up" /\ kpc # "end" =>
        Awaiting /\ ~landed /\ req.slot = frame_index /\ fb_offset >= known

(* The screen never goes back to an earlier frame: what the client shows   *)
(* next is never older than what it shows now, through keep-alives,        *)
(* repeated posts, resubscriptions of either side and dropped messages, as *)
(* long as the host has not filled a buffer that was still to be sent.     *)
FramesNeverGoBack == [][shown' >= shown \/ overran]_vars

(* What is written into the sink's memory is the frame that was fetched    *)
(* for the request (lp_source.c:440 "Get new frame from Looking Glass").   *)
SendsWhatItGot == [][spc = "progress" /\ spc' = "poll" => latest' = fetched]_vars

(* The sink ends for a reason: a signal, a broken connection, a disconnect *)
(* its cursor thread received, or memory that was zeroed.  Waiting         *)
(* long for a frame, a full queue, a keep-alive, or the end of the         *)
(* source's main alone is none (lp_sink.c:391 "We cannot use an infinite   *)
(* timeout, since we need to keep the LGMP session alive").                *)
Cause == flag \/ link = "down" \/ subBye \/ zeroed
QuitsForCause == [][kpc' = "end" /\ kpc # "end" => Cause]_vars

(* With synchronous polling, the buffer the sink waits on is not marked    *)
(* complete before the acknowledgement has come: from the request to       *)
(* lpSignalFrameDone its write pointer stays where framebuffer_prepare put *)
(* it, whatever was in the slot before, and whether or not clients die,    *)
(* the connection fails or the memory is zeroed and set up again.  (With   *)
(* busy polling main repeats, and marks, a frame that has not come.)       *)
RewoundWhileAwaited == Awaiting => ~wp[frame_index]

(* The frame path implements FrameDelivery.                                *)
Phase == IF kpc = "end" THEN "closed"
         ELSE IF ~Awaiting THEN "idle"
         ELSE IF landed THEN "written" ELSE "asked"

Delivery == INSTANCE FrameDelivery
            WITH phase <- Phase, frame <- latest, base <- known, gone <- (spc = "end")
ImplementsDelivery == Delivery!DSpec

(* A frame that waits at the head of the host's queue while a request is   *)
(* being served answers that request, unless it is mistaken for a          *)
(* repetition, or the host drops the source first.  The answer is lost     *)
(* only if the call that sends it, or the call that posts the buffer for   *)
(* it, fails and is merely logged.                                         *)
FrameAtHand == spc = "get" /\ lgq # <<>> /\ Head(lgq) % SerialMod # req.cntr
RequestAnswered == FrameAtHand ~> (lgsub # "on" \/ ~Awaiting \/ unacked \/ ~posted)

(* Once the connection is broken, both programs end: neither waits for     *)
(* ever for a peer that is gone, as long as the sink's receive is posted,  *)
(* which is how it learns of the break.                                    *)
PeerGone == link = "down" ~> (spc = "end" /\ (kpc = "end" \/ ~posted))

(* SIGINT ends the sink, whatever it is waiting for.                       *)
FlagHeeded == flag ~> kpc = "end"

(* The wait for room in the queue ends.                                    *)
WaitEnds == kpc = "request" ~> kpc # "request"

(* A message the source gives back to the host was the frame it has just   *)
(* taken: none is given back unseen.                                       *)
GivesBackWhatItTook ==
    [][(spc \in {"get", "progress"} /\ lgsub' = "on" /\ Len(lgq') < Len(lgq))
          => lgq' = Tail(lgq) /\ fetched' = Head(lgq)]_vars

-----------------------------------------------------------------------------
(* The inductive invariant behind OneRequest, AckMeansWritten,             *)
(* WriteIsWanted and ImplementsDelivery.                                   *)

(* A channel without a reader, or without a connection, is empty.          *)
ChannelsDrained ==
    /\ link = "down" => toSource = <<>> /\ toSink = <<>>
    /\ kpc = "end" => toSink = <<>>
    /\ spc = "end" => toSource = <<>>

(* The source's disconnect is the last message it sends.                   *)
NothingAfterBye(q) == \A i, j \in 1 .. Len(q) : i < j => q[i].type # "bye"
ByeIsLast == NothingAfterBye(toSink) /\ (Has(toSink, "bye") => spc = "end")

(* A request that exists anywhere is the one the sink waits on.            *)
FreqFor(q, s) == \A i \in 1 .. Len(q) : q[i].type = "freq" => q[i].slot = s
RequestCurrent ==
    kpc # "end" =>
      /\ Has(toSource, "freq") =>
            Awaiting /\ ~landed /\ FreqFor(toSource, frame_index)
      /\ Serving /\ link = "up" => Awaiting /\ ~landed /\ req.slot = frame_index
      /\ Has(toSink, "ack") => Awaiting /\ landed

(* Frames move along the queue in the order they were produced, and a      *)
(* buffer never goes back to an earlier frame.                             *)
FramesOrdered ==
    /\ \A i \in 1 .. Len(lgq) : fetched < lgq[i] /\ lgq[i] <= produced
    /\ \A i, j \in 1 .. Len(lgq) : i < j => lgq[i] < lgq[j]
    /\ fetched <= fb /\ fb <= produced
    /\ known <= fetched /\ (Serving => known <= fb_offset)
    /\ spc = "progress" => known < fetched
    /\ ~overran => latest < known

(* Every part of the frame path agrees on which request is the current one *)
(* and which frames are still to come: the invariant the proofs use.       *)
IInv == /\ TypeOK /\ OneRequest /\ ChannelsDrained /\ ByeIsLast
        /\ RequestCurrent /\ FramesOrdered
=============================================================================
