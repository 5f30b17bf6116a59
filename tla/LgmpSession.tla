------------------------------ MODULE LgmpSession ------------------------------
(***************************************************************************)
(* The source as a client of the Looking Glass host's LGMP session: how a  *)
(* session with a sink maps the shared memory, waits for the host,         *)
(* subscribes to both queues and fetches a first frame (lpInitLgmpClient,  *)
(* lpClientInitSession and the set-up of lpHandleClientReq), how main and  *)
(* the cursor thread then read the two queues (lpGetFrame, lpgetCursor),   *)
(* and what becomes of both when the host drops them, stops or restarts.   *)
(*                                                                         *)
(* The host is external: it may start, publish its queues one by one, drop *)
(* a slow subscriber, post a frame, and stop at any time.  Each start is a *)
(* new LGMP session with a number of its own.  Which buffer of the host is *)
(* sent, and when the host fills it again, is in FrameRelay.               *)
(*                                                                         *)
(* The cursor thread sets T_RUNNING as it is created: how that step can    *)
(* come late is in SourceThreads.  An early return can leave the thread    *)
(* behind (pc = "left"): it is followed further, while the sessions that   *)
(* main then serves are reduced to what they may do to the variables the   *)
(* thread reads (NextSession).                                             *)
(***************************************************************************)
EXTENDS Integers

CONSTANTS
    MaxRetry,       \* attempts of lpClientInitSession (20)
    MaxHost         \* bound: how often the host starts

ASSUME BoundAssumption == MaxRetry \in Nat \ {0} /\ MaxHost \in Nat

VARIABLES
    session, sessions,  \* the host's LGMP session, 0: it is down; the last one
    compatible,         \* does the host speak this LGMP version?
    queues,             \* the queues it has published
    queued,             \* a frame waits to be read
    pc,                 \* where main is
    state, thread_flags, flag,
    ram,                \* ctx->ram: "null", "mapped", "unmapped" or MAP_FAILED
    lgmp_client,        \* "null" or "made"
    bound,              \* the session lgmp_client was initialised for, 0: none
    sub,                \* the session each queue handle belongs to, 0: none
    dropped,            \* queues whose subscription timed out
    retry, waitCount,   \* waitCount only as: was there a wait?
    metadata,           \* the frame in hand: "null" or "frame"
    tpc,                \* the cursor thread
    link                \* the connection with the sink: "up" or "down"

hostVars == <<session, sessions, compatible, queues, queued>>
lgmpVars == <<ram, lgmp_client, bound, sub, dropped>>
loopVars == <<retry, waitCount, metadata>>
threadVars == <<thread_flags, tpc>>
vars == <<hostVars, pc, state, flag, lgmpVars, loopVars, threadVars, link>>

Queues == {"FRAME", "POINTER"}

(* The session lgmp_client was initialised for is the one that runs.       *)
Valid == bound # 0 /\ bound = session

(* lpAllocContext clears the context: LP_STATE_RUNNING and T_RUNNING are 0. *)
Init == /\ session = 0 /\ sessions = 0 /\ compatible = TRUE /\ queues = {}
        /\ queued = FALSE
        /\ pc = "accept" /\ state = "RUNNING" /\ thread_flags = "T_RUNNING" /\ flag = FALSE
        /\ ram = "null" /\ lgmp_client = "null" /\ bound = 0
        /\ sub = [q \in Queues |-> 0] /\ dropped = {}
        /\ retry = 0 /\ waitCount = FALSE /\ metadata = "null"
        /\ tpc = "none" /\ link = "down"

-----------------------------------------------------------------------------
(* The Looking Glass host. *)
sourceVars == <<pc, state, flag, ram, lgmp_client, bound, sub, loopVars, threadVars, link>>

HostStart ==
    /\ session = 0 /\ sessions < MaxHost
    /\ session' = sessions + 1 /\ sessions' = sessions + 1
    /\ compatible' \in BOOLEAN
    /\ queues' = {} /\ queued' = FALSE
    /\ UNCHANGED <<sourceVars, dropped>>

HostStop ==
    /\ session # 0
    /\ session' = 0 /\ queued' = FALSE
    /\ UNCHANGED <<sessions, compatible, queues, sourceVars, dropped>>

HostPublish(q) ==
    /\ session # 0 /\ q \notin queues
    /\ queues' = queues \cup {q}
    /\ UNCHANGED <<session, sessions, compatible, queued, sourceVars, dropped>>

HostDrop(q) ==
    /\ Valid /\ sub[q] = session /\ q \notin dropped
    /\ dropped' = dropped \cup {q}
    /\ queued' = (queued /\ q # "FRAME")
    /\ UNCHANGED <<session, sessions, compatible, queues, sourceVars>>

HostPost ==
    /\ Valid /\ sub["FRAME"] = session /\ "FRAME" \notin dropped /\ ~queued
    /\ queued' = TRUE
    /\ UNCHANGED <<session, sessions, compatible, queues, sourceVars, dropped>>

Host == \/ HostStart \/ HostStop \/ HostPost
        \/ \E q \in Queues : HostPublish(q) \/ HostDrop(q)

LinkFails ==
    /\ link = "up"
    /\ link' = "down"
    /\ UNCHANGED <<hostVars, pc, state, flag, lgmpVars, loopVars, threadVars>>

(* What LGMP answers to a subscription: other errors are lack of room.     *)
SubscribeStatus(q) ==
    IF ~Valid THEN {"INVALID_SESSION"}
    ELSE IF q \notin queues THEN {"NO_SUCH_QUEUE"}
    ELSE {"OK", "QUEUE_FULL"}

Subscribed(q) == /\ sub' = [sub EXCEPT ![q] = bound]
                 /\ dropped' = dropped \ {q}

(* What it answers to a read; "OK" needs a message.                        *)
ProcessStatus(q) ==
    IF ~Valid THEN {"INVALID_SESSION"}
    ELSE IF q \in dropped THEN {"QUEUE_TIMEOUT"}
    ELSE {"OK", "QUEUE_EMPTY"}

-----------------------------------------------------------------------------
(* main: a session with a sink is set up. *)
GoOn(next) == pc' = next /\ UNCHANGED <<hostVars, flag, threadVars, link>>

(* Back in main's loop, which tests the flag before it accepts again.      *)
Again == IF flag THEN "end" ELSE "accept"

Accept ==
    /\ pc = "accept"
    /\ pc' = "open" /\ link' = "up"
    /\ metadata' = "null"
    /\ UNCHANGED <<hostVars, state, flag, lgmpVars, retry, waitCount, threadVars>>

AcceptFails ==
    /\ pc = "accept"
    /\ GoOn("end")
    /\ UNCHANGED <<state, lgmpVars, loopVars>>

(* The version message, the file's size, open: what fails ends the session. *)
OpenFails ==
    /\ pc = "open"
    /\ GoOn("stop")
    /\ UNCHANGED <<state, lgmpVars, loopVars>>

(* The rest of lpInitLgmpClient.  mmap's failure is not recognised, since  *)
(* it is not NULL; lgmpClientInit's is, but 0 is returned for it.          *)
InitLgmpClient ==
    /\ pc = "open"
    /\ \/ ram' = "mapped" /\ lgmp_client' = "made" /\ GoOn("session")
       \/ ram' = "unmapped" /\ lgmp_client' = "null" /\ GoOn("session")
       \/ ram' = "MAP_FAILED" /\ lgmp_client' = lgmp_client /\ GoOn("crash")
    /\ bound' = 0 /\ retry' = 0 /\ waitCount' = FALSE
    /\ UNCHANGED <<state, sub, dropped, metadata>>

InitSessionCrash ==
    /\ pc = "session" /\ lgmp_client = "null"
    /\ GoOn("crash")
    /\ UNCHANGED <<state, lgmpVars, loopVars>>

(* lgmpClientSessionInit succeeds: the session is bound. *)
InitSessionOk ==
    /\ pc = "session" /\ lgmp_client = "made"
    /\ session # 0 /\ compatible
    /\ bound' = session /\ state' = "RUNNING"
    /\ GoOn("frameq")
    /\ UNCHANGED <<ram, lgmp_client, sub, dropped, loopVars>>

(* LGMP_ERR_INVALID_VERSION: the last attempt gives up. *)
InitSessionVersion ==
    /\ pc = "session" /\ lgmp_client = "made"
    /\ session # 0 /\ ~compatible
    /\ IF retry = MaxRetry - 1
       THEN state' = "STOP" /\ retry' = retry /\ GoOn("stop")
       ELSE state' = state /\ retry' = retry + 1 /\ GoOn("session")
    /\ UNCHANGED <<lgmpVars, waitCount, metadata>>

InitSessionWaitUncounted ==
    /\ pc = "session" /\ lgmp_client = "made" /\ retry <= MaxRetry
    /\ state' = IF waitCount THEN state ELSE "STOP"
    /\ waitCount' = TRUE /\ retry' = retry + 1
    /\ GoOn("session")
    /\ UNCHANGED <<lgmpVars, metadata>>

InitSessionWaitForever ==
    /\ pc = "session" /\ lgmp_client = "made"
    /\ state' = IF waitCount THEN state ELSE "STOP"
    /\ waitCount' = TRUE
    /\ GoOn("session")
    /\ UNCHANGED <<lgmpVars, retry, metadata>>

(* LGMP_ERR_INVALID_SESSION or INVALID_MAGIC, also from a host that is     *)
(* only starting: after the last attempt the loop is simply over.          *)
InitSessionWait ==
    /\ pc = "session" /\ lgmp_client = "made"
    /\ state' = IF waitCount THEN state ELSE "STOP"
    /\ waitCount' = TRUE /\ retry' = retry + 1
    /\ GoOn(IF retry = MaxRetry - 1 THEN "frameq" ELSE "session")
    /\ UNCHANGED <<lgmpVars, metadata>>

InitSessionFails ==
    /\ pc = "session" /\ lgmp_client = "made"
    /\ state' = "STOP" /\ GoOn("stop")
    /\ UNCHANGED <<lgmpVars, loopVars>>

SubscribeUnchecked(q, here, next) ==
    /\ pc = here
    /\ \/ state # "RUNNING" /\ GoOn(next) /\ UNCHANGED <<state, sub, dropped>>
       \/ /\ state = "RUNNING"
          /\ \E status \in SubscribeStatus(q) \ {"NO_SUCH_QUEUE"} :
                IF status = "OK" THEN Subscribed(q) ELSE UNCHANGED <<sub, dropped>>
          /\ GoOn(next)
    /\ UNCHANGED <<state, ram, lgmp_client, bound, loopVars>>

(* One of the two subscription loops; NO_SUCH_QUEUE waits for the host.    *)
Subscribe(q, here, next) ==
    /\ pc = here
    /\ \/ state # "RUNNING" /\ GoOn(next) /\ UNCHANGED <<state, sub, dropped>>
       \/ /\ state = "RUNNING"
          /\ \E status \in SubscribeStatus(q) \ {"NO_SUCH_QUEUE"} :
                IF status = "OK" THEN Subscribed(q) /\ UNCHANGED state
                ELSE state' = "STOP" /\ UNCHANGED <<sub, dropped>>
          /\ GoOn(next)
    /\ UNCHANGED <<ram, lgmp_client, bound, loopVars>>

SubscribeFrames == Subscribe("FRAME", "frameq", "pointerq")
SubscribePointer == Subscribe("POINTER", "pointerq", "first")

-----------------------------------------------------------------------------
(* lpGetFrame, from the wait for a first frame and from the streaming loop. *)

(* A frame: its message is given back at once. *)
GetFrame ==
    /\ pc \in {"first", "get"} /\ ~flag /\ state = "RUNNING"
    /\ "OK" \in ProcessStatus("FRAME") /\ queued
    /\ metadata' = "frame"
    /\ queued' = FALSE
    /\ pc' = IF pc = "first" THEN "bind" ELSE "send"
    /\ UNCHANGED <<session, sessions, compatible, queues, state, flag, lgmpVars,
                   retry, waitCount, threadVars, link>>

(* Without a running session it returns 0 and no frame: the first caller   *)
(* reads a null pointer, a later one the frame it already had.             *)
GetFrameNotRunning ==
    /\ pc \in {"first", "get"} /\ ~flag /\ state # "RUNNING"
    /\ GoOn(IF metadata = "null" THEN "crash" ELSE "send")
    /\ UNCHANGED <<state, lgmpVars, loopVars>>

GetFrameRestart ==
    /\ pc \in {"first", "get"} /\ ~flag /\ state = "RUNNING"
    /\ "INVALID_SESSION" \in ProcessStatus("FRAME")
    /\ state' = "RESTART" /\ GoOn(pc)
    /\ UNCHANGED <<lgmpVars, loopVars>>

(* The session is gone, which RESTART is set for and STOP overwrites.      *)
GetFrameInvalid ==
    /\ pc \in {"first", "get"} /\ ~flag /\ state = "RUNNING"
    /\ "INVALID_SESSION" \in ProcessStatus("FRAME")
    /\ state' = "STOP" /\ GoOn("stop")
    /\ UNCHANGED <<lgmpVars, loopVars>>

(* The subscription timed out: subscribe again, or end the session.        *)
GetFrameResubscribe ==
    /\ pc \in {"first", "get"} /\ ~flag /\ state = "RUNNING"
    /\ "QUEUE_TIMEOUT" \in ProcessStatus("FRAME")
    /\ \E status \in SubscribeStatus("FRAME") :
          IF status = "OK"
          THEN Subscribed("FRAME") /\ state' = state /\ GoOn(pc)
          ELSE state' = "RESTART" /\ GoOn("stop") /\ UNCHANGED <<sub, dropped>>
    /\ UNCHANGED <<ram, lgmp_client, bound, loopVars>>

(* No frame for a second: a keep-alive.  If it cannot be sent the function *)
(* returns at once, past the tear-down, and leaves behind a thread that    *)
(* has not ended by itself.                                                *)
GetFrameKeepAliveFails ==
    /\ pc = "get" /\ ~flag /\ state = "RUNNING"
    /\ "QUEUE_EMPTY" \in ProcessStatus("FRAME") /\ ~queued
    /\ \/ tpc \in {"none", "done"} /\ tpc' = "none" /\ pc' = Again
       \/ tpc \notin {"none", "done"} /\ tpc' = tpc /\ pc' = "left"
    /\ UNCHANGED <<hostVars, flag, thread_flags, link, state, lgmpVars, loopVars>>

(* main goes on to other sessions beside the thread that was left behind,  *)
(* on the same context: each may set the state and the flag, and have the  *)
(* LGMP client that it makes bound to a session and subscribed, or not.    *)
(* What is main's own is not followed.                                     *)
NextSession ==
    /\ pc = "left"
    /\ state' \in {"RUNNING", "STOP", "RESTART"}
    /\ thread_flags' \in {"T_RUNNING", "T_ERR", "T_STOP"}
    /\ bound' \in {0, bound, session}
    /\ sub' = [q \in Queues |-> bound'] /\ dropped' \in {dropped, {}}
    /\ retry' = 0 /\ waitCount' = FALSE /\ metadata' = "null" /\ link' = "down"
    /\ UNCHANGED <<hostVars, pc, flag, ram, lgmp_client, tpc>>

(* The rest of the set-up: the display list, the sink's two requests, the  *)
(* registration and the acknowledgement.                                   *)
Bind ==
    /\ pc = "bind"
    /\ \/ GoOn("wait")
       \/ GoOn("stop")
       \/ GoOn(Again)
    /\ UNCHANGED <<state, lgmpVars, loopVars>>

(* framebuffer_wait for the first frame: it is written, or it took too     *)
(* long and the session is left.                                           *)
FirstFrameWait ==
    /\ pc = "wait"
    /\ GoOn("stream") \/ GoOn(Again)
    /\ UNCHANGED <<state, lgmpVars, loopVars>>

-----------------------------------------------------------------------------
(* main: the streaming loop. *)
Quit ==
    /\ pc \in {"first", "stream", "get"}
    /\ flag \/ (pc # "first" /\ thread_flags = "T_ERR")
    /\ GoOn("stop")
    /\ UNCHANGED <<state, lgmpVars, loopVars>>

Streaming == pc = "stream" /\ ~flag /\ thread_flags # "T_ERR"

FrameRequest ==
    /\ Streaming
    /\ GoOn("get")
    /\ UNCHANGED <<state, lgmpVars, loopVars>>

(* A disconnect, or the connection's error. *)
PollEnds ==
    /\ Streaming
    /\ GoOn("stop")
    /\ UNCHANGED <<state, lgmpVars, loopVars>>

(* TRFM_CH_OPEN, and the thread that serves the channel. *)
OpenChannel ==
    /\ Streaming /\ link = "up" /\ tpc = "none"
    /\ \/ tpc' = "run" /\ thread_flags' = "T_RUNNING" /\ pc' = "stream"
       \/ pc' = "stop" /\ UNCHANGED threadVars
    /\ UNCHANGED <<hostVars, state, flag, lgmpVars, loopVars, link>>

(* framebuffer_wait, whose result is not looked at, then the comparison    *)
(* with the counter of the request, then the write over the network, which *)
(* may fail.                                                               *)
SendFrame ==
    /\ pc = "send"
    /\ \/ link = "up" /\ GoOn("stream")
       \/ GoOn("get")
       \/ GoOn("stop")
    /\ UNCHANGED <<state, lgmpVars, loopVars>>

StopThread ==
    /\ pc = "stop"
    /\ thread_flags' = "T_STOP" /\ pc' = "join"
    /\ UNCHANGED <<hostVars, state, flag, lgmpVars, loopVars, tpc, link>>

Join ==
    /\ pc = "join" /\ tpc \in {"none", "done"}
    /\ tpc' = "none" /\ pc' = Again /\ link' = "down"
    /\ UNCHANGED <<hostVars, state, flag, lgmpVars, loopVars, thread_flags>>

(* exitHandler: the first SIGINT sets the flag, the second ends the process. *)
Interrupt ==
    /\ pc \notin {"end", "crash"}
    /\ IF flag THEN pc' = "end" ELSE pc' = pc
    /\ flag' = TRUE
    /\ UNCHANGED <<hostVars, state, lgmpVars, loopVars, threadVars, link>>

-----------------------------------------------------------------------------
(* The cursor thread: one call of lpgetCursor and what follows from it.    *)
Runs(where) == pc \notin {"end", "crash"} /\ tpc = where
CursorRest == <<hostVars, state, flag, ram, lgmp_client, bound, loopVars, link>>

CursorStop ==
    /\ Runs("run") /\ thread_flags = "T_STOP"
    /\ tpc' = "bye"
    /\ UNCHANGED <<CursorRest, pc, sub, dropped, thread_flags>>

(* The loop is left because of the state, with a message nobody has read.  *)
CursorNotRunning ==
    /\ Runs("run") /\ thread_flags # "T_STOP" /\ state # "RUNNING"
    /\ tpc' = "unread"
    /\ UNCHANGED <<CursorRest, pc, sub, dropped, thread_flags>>

(* What is found there decides: a crash, a failure, something that is sent. *)
CursorUnread ==
    /\ Runs("unread")
    /\ \/ pc' = "crash" /\ UNCHANGED threadVars
       \/ pc' = pc /\ tpc' = "bye" /\ thread_flags' = "T_ERR"
       \/ pc' = pc /\ tpc' = "run" /\ thread_flags' = thread_flags
    /\ UNCHANGED <<CursorRest, sub, dropped>>

CursorReading == Runs("run") /\ thread_flags # "T_STOP" /\ state = "RUNNING"

(* A cursor that cannot be sent is an error; a keep-alive that cannot be   *)
(* sent ends the thread without a word.  The subchannel can fail by itself. *)
CursorSendFails ==
    /\ CursorReading /\ "OK" \in ProcessStatus("POINTER")
    /\ tpc' = "bye" /\ thread_flags' = "T_ERR"
    /\ UNCHANGED <<CursorRest, pc, sub, dropped>>

CursorKeepAliveFails ==
    /\ CursorReading /\ "QUEUE_EMPTY" \in ProcessStatus("POINTER")
    /\ tpc' = "done"
    /\ UNCHANGED <<CursorRest, pc, sub, dropped, thread_flags>>

CursorInvalidSilent ==
    /\ CursorReading /\ "INVALID_SESSION" \in ProcessStatus("POINTER")
    /\ tpc' = "bye"
    /\ UNCHANGED <<CursorRest, pc, sub, dropped, thread_flags>>

CursorInvalid ==
    /\ CursorReading /\ "INVALID_SESSION" \in ProcessStatus("POINTER")
    /\ tpc' = "bye" /\ thread_flags' = "T_ERR"
    /\ UNCHANGED <<CursorRest, pc, sub, dropped>>

CursorResubscribe ==
    /\ CursorReading /\ "QUEUE_TIMEOUT" \in ProcessStatus("POINTER")
    /\ \E status \in SubscribeStatus("POINTER") :
          IF status = "OK" THEN Subscribed("POINTER") /\ UNCHANGED threadVars
          ELSE /\ tpc' = "bye" /\ thread_flags' = "T_ERR"
               /\ UNCHANGED <<sub, dropped>>
    /\ UNCHANGED <<CursorRest, pc>>

CursorBye ==
    /\ Runs("bye")
    /\ tpc' = "done"
    /\ thread_flags' = IF thread_flags = "T_ERR" THEN "T_ERR" ELSE "T_STOP"
    /\ UNCHANGED <<CursorRest, pc, sub, dropped>>

CursorWork == \/ CursorStop \/ CursorNotRunning \/ CursorUnread
              \/ CursorInvalid \/ CursorResubscribe \/ CursorBye

CursorThread == CursorWork \/ CursorSendFails \/ CursorKeepAliveFails

-----------------------------------------------------------------------------
SetUp == \/ InitLgmpClient \/ InitSessionCrash \/ InitSessionOk \/ InitSessionVersion
         \/ InitSessionWait \/ SubscribeFrames \/ SubscribePointer \/ Bind
         \/ FirstFrameWait

Stream == \/ GetFrame \/ GetFrameNotRunning \/ GetFrameInvalid \/ GetFrameResubscribe
          \/ Quit \/ SendFrame \/ StopThread \/ Join

(* What depends on a peer or on chance and need not happen. *)
MayHappen == \/ Accept \/ AcceptFails \/ OpenFails \/ InitSessionFails
             \/ FrameRequest \/ PollEnds \/ OpenChannel \/ GetFrameKeepAliveFails
             \/ NextSession \/ Interrupt \/ LinkFails

Ended == pc \in {"end", "crash"} /\ UNCHANGED vars

Next == SetUp \/ Stream \/ CursorThread \/ MayHappen \/ Host \/ Ended

Spec == Init /\ [][Next]_vars

(* Both threads keep running.  A host that runs publishes its queues.  A   *)
(* sink opens its channel right after its request (lp_sink.c:222), and a   *)
(* connection that broke is reported by the poll.  No sink need come or    *)
(* ask for a frame, no host need start or draw, no call need fail.         *)
Fairness == /\ WF_vars(SetUp) /\ WF_vars(Stream) /\ WF_vars(CursorWork)
            /\ \A q \in Queues : WF_vars(HostPublish(q))
            /\ SF_vars(OpenChannel)
            /\ SF_vars(link = "down" /\ PollEnds)

FairSpec == Spec /\ Fairness

-----------------------------------------------------------------------------
(* Every variable keeps its type. *)
TypeOK ==
    /\ session \in 0 .. MaxHost /\ sessions \in 0 .. MaxHost /\ compatible \in BOOLEAN
    /\ queues \subseteq Queues /\ queued \in BOOLEAN
    /\ pc \in {"accept", "open", "session", "frameq", "pointerq", "first", "bind", "wait",
               "stream", "get", "send", "stop", "join", "end", "crash", "left"}
    /\ state \in {"RUNNING", "STOP", "RESTART"}
    /\ thread_flags \in {"T_RUNNING", "T_ERR", "T_STOP"} /\ flag \in BOOLEAN
    /\ ram \in {"null", "mapped", "unmapped", "MAP_FAILED"}
    /\ lgmp_client \in {"null", "made"} /\ bound \in 0 .. MaxHost
    /\ sub \in [Queues -> 0 .. MaxHost] /\ dropped \subseteq Queues
    /\ retry \in 0 .. MaxRetry /\ waitCount \in BOOLEAN
    /\ metadata \in {"null", "frame"}
    /\ tpc \in {"none", "run", "unread", "bye", "done"} /\ link \in {"up", "down"}

(* A session that leaves its set-up with the state RUNNING is one the host *)
(* acknowledged, seen through mapped memory and with both queues           *)
(* subscribed in it, whatever failed or was restarted on the way and       *)
(* whatever calloc or an earlier session left in the state                 *)
(* (lp_retrieve.c:82-184).                                                 *)
RunningMeansSubscribed ==
    pc \in {"first", "bind", "wait", "stream", "get", "send"} /\ state = "RUNNING" =>
        /\ ram = "mapped" /\ lgmp_client = "made"
        /\ bound # 0
        /\ \A q \in Queues : sub[q] = bound

(* Beside a session that main serves or sets up with its own thread, the   *)
(* cursor thread never uses a message it did not receive: it does so only  *)
(* while main takes the session down, or once an early return              *)
(* (lp_source.c:466) has left it behind to the next session, whose host    *)
(* may be missing (lp_retrieve.c:109, 294, 329).                           *)
UnreadOnlyInTearDown ==
    tpc = "unread" => pc \in {"stop", "join", "end", "crash", "left"}

(* The attempts to find a host end, whatever the host does, and so do the  *)
(* waits for its queues (lp_retrieve.c:82-183).                            *)
SetupEnds == pc \in {"open", "session", "frameq", "pointerq"}
                ~> pc \notin {"open", "session", "frameq", "pointerq"}

(* When the host stops or restarts under a session, the session ends, also *)
(* when the sink asks for no frame: the cursor thread finds out and its    *)
(* T_ERR is seen (lp_retrieve.c:226-248, 317, lp_source.c:375, 446).  The  *)
(* one exception is a thread that is gone, over a connection that is not:  *)
(* it could not send a keep-alive on its subchannel and ended with         *)
(* T_RUNNING set and without a word (lp_source.c:628-633).                 *)
EndedSilently == tpc = "done" /\ thread_flags = "T_RUNNING" /\ link = "up"
HostGoneEndsSession ==
    (pc \in {"stream", "get", "send"} /\ ~Valid)
        ~> (pc \in {"accept", "end", "crash", "left"} \/ EndedSilently)

(* lpInitLgmpClient and lpClientInitSession return 0 on success and a      *)
(* negative error code on error (lp_retrieve.h:45, 53).                    *)
ZeroMeansSuccess ==
    /\ pc = "session" => ram = "mapped" /\ lgmp_client = "made"
    /\ pc = "first" => state = "RUNNING"

-----------------------------------------------------------------------------
(* The inductive invariant behind the safety properties.                   *)
Serving == {"bind", "wait", "stream", "get", "send"}

(* Who waited for a host has set STOP, so the loop of attempts never runs  *)
(* out with the state it started from.                                     *)
WaitedMeansStop == pc = "session" /\ waitCount => state = "STOP"

AttemptsLeft == pc = "session" => retry < MaxRetry

BoundOnTheWay ==
    pc \in {"frameq", "pointerq"} /\ state = "RUNNING" =>
        /\ ram = "mapped" /\ lgmp_client = "made" /\ bound # 0
        /\ pc = "pointerq" => sub["FRAME"] = bound

(* While a sink is served the state is RUNNING: whoever changes it leaves. *)
ServedMeansRunning == pc \in Serving => state = "RUNNING"

MappedClient == pc = "session" /\ lgmp_client = "made" => ram = "mapped"

(* A thread has ended before the next session begins. *)
ThreadInSession ==
    tpc \in {"run", "unread", "bye"} =>
        pc \in {"stream", "get", "send", "stop", "join", "end", "crash", "left"}

(* A first frame is what ends the set-up. *)
NoFrameYet ==
    pc \in {"open", "session", "frameq", "pointerq", "first"} => metadata = "null"

(* Numbers of sessions are not used again. *)
SessionsGrow == session <= sessions /\ bound <= sessions

IInv == /\ TypeOK
        /\ RunningMeansSubscribed /\ UnreadOnlyInTearDown
        /\ WaitedMeansStop /\ AttemptsLeft /\ BoundOnTheWay /\ ServedMeansRunning
        /\ MappedClient /\ ThreadInSession /\ NoFrameYet /\ SessionsGrow
=============================================================================
