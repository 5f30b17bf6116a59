---------------------------- MODULE SourceThreads ----------------------------
(***************************************************************************)
(* The threads of the source, over many sessions: main's accept loop, the  *)
(* session it runs for one client after another (lpHandleClientReq), and   *)
(* the cursor thread of each session (lpHandleCursorPos).  They share      *)
(* thread_flags, sub_channel and ctx->state without a lock, and none of    *)
(* the three is reset between sessions.                                    *)
(*                                                                         *)
(* What a session relays is in FrameRelay and CursorQueue; here a message, *)
(* a frame or a cursor update is only an outcome of a call.                *)
(***************************************************************************)
CONSTANTS
    Threads,        \* identities of cursor threads, given again after use
    NoThread,       \* a session without a cursor thread
    SlowStart,      \* may main stop a session before its thread's first step?
    EarlyReturn     \* may a call fail whose error path skips destroy_ctx?

ASSUME NoThreadAssumption == NoThread \notin Threads
ASSUME SwitchAssumption == {SlowStart, EarlyReturn} \subseteq BOOLEAN

VARIABLES
    spc,            \* where main is, lpHandleClientReq included
    tpc,            \* where each cursor thread is; "free": none, or joined
    thread,         \* the local handle sub_channel, NoThread: sub_started is 0
    thread_flags, state,
    sub_channel,    \* ctx->lp_host.sub_channel: "null" or "open"
    client_ctx,     \* ctx->lp_host.client_ctx: "null" or "open"
    flag            \* SIGINT was received

mainVars == <<spc, thread, client_ctx, flag>>
vars == <<mainVars, tpc, thread_flags, state, sub_channel>>

Alive(t) == tpc[t] \notin {"free", "done"}

(* lpAllocContext clears the context: T_RUNNING and LP_STATE_RUNNING are 0. *)
Init == /\ spc = "accept" /\ thread = NoThread
        /\ tpc = [t \in Threads |-> "free"]
        /\ thread_flags = "T_RUNNING" /\ state = "RUNNING"
        /\ sub_channel = "null" /\ client_ctx = "null" /\ flag = FALSE

-----------------------------------------------------------------------------
(* main. *)
mainRest == <<thread, tpc, thread_flags, sub_channel, flag>>

(* Back in main's loop, which tests the flag before it accepts again.      *)
Again == IF flag THEN "end" ELSE "accept"

(* trfNCAccept gives a client, also when SIGINT came during the wait, or   *)
(* fails and ends the program.                                             *)
Accept ==
    /\ spc = "accept"
    /\ spc' = "setup" /\ client_ctx' = "open" /\ thread' = NoThread
    /\ UNCHANGED <<tpc, thread_flags, sub_channel, flag, state>>

AcceptFails ==
    /\ spc = "accept"
    /\ spc' = "end"
    /\ UNCHANGED <<mainRest, client_ctx, state>>

(* Everything up to the streaming loop: version, LGMP session, first       *)
(* frame, display list, the client's two requests, memory registration.    *)
(* Four of its failures return without destroying the client's context.    *)
(* It crashes on the LGMP client that a failed lpInitLgmpClient did not    *)
(* make and on the metadata that a session which stopped did not fetch:    *)
(* both calls return 0.                                                    *)
Setup ==
    /\ spc = "setup"
    /\ \/ spc' = "loop" /\ state' = "RUNNING"
       \/ spc' = "stop" /\ state' \in {state, "RUNNING", "STOP"}
       \/ EarlyReturn /\ spc' = Again /\ state' = "RUNNING"
       \/ spc' = "end" /\ state' \in {state, "STOP"}
    /\ UNCHANGED <<mainRest, client_ctx>>

(* SIGINT, or a cursor thread that reported an error, at the top of the    *)
(* streaming loop and of the wait for a frame.                             *)
Quit ==
    /\ spc \in {"loop", "get"} /\ (flag \/ thread_flags = "T_ERR")
    /\ spc' = "stop"
    /\ UNCHANGED <<mainRest, client_ctx, state>>

Continue ==
    /\ spc \in {"loop", "get"} /\ ~flag /\ thread_flags # "T_ERR"
    /\ spc' = IF spc = "loop" THEN "poll" ELSE "frame"
    /\ UNCHANGED <<mainRest, client_ctx, state>>

(* A keep-alive, a frame request, a disconnect, or an error.               *)
Poll ==
    /\ spc = "poll"
    /\ spc' \in {"loop", "get", "stop"}
    /\ UNCHANGED <<mainRest, client_ctx, state>>

(* TRFM_CH_OPEN.  The handler does not ask whether there is a thread       *)
(* already; the sink opens one subchannel in a session (lp_sink.c:222).    *)
OpenChannel ==
    /\ spc = "poll" /\ thread = NoThread
    /\ sub_channel' = "null" /\ spc' = "open"
    /\ UNCHANGED <<thread, tpc, thread_flags, flag, client_ctx, state>>

ProcessChannel ==
    /\ spc = "open"
    /\ \/ sub_channel' = "open" /\ spc' = "create"
       \/ sub_channel' = sub_channel /\ spc' = "stop"
    /\ UNCHANGED <<thread, tpc, thread_flags, flag, client_ctx, state>>

CreateThread ==
    /\ spc = "create"
    /\ \/ /\ \E t \in Threads :
               /\ tpc[t] \in {"free", "done"}
               /\ thread' = t
               /\ tpc' = [tpc EXCEPT ![t] = "start"]
          /\ spc' = "opened"
       \/ spc' = "stop" /\ UNCHANGED <<thread, tpc>>
    /\ UNCHANGED <<thread_flags, flag, client_ctx, state, sub_channel>>

(* The new subchannel's poll rate is set after its thread was started: if  *)
(* that thread failed and is through with it, the program crashes.         *)
SetPollRate ==
    /\ spc = "opened"
    /\ spc' = IF sub_channel = "open" THEN "loop" ELSE "end"
    /\ UNCHANGED <<mainRest, client_ctx, state>>

(* lpGetFrame and what follows: no frame yet (and once a second a          *)
(* keep-alive), a frame that is sent, a frame that cannot be sent, or an   *)
(* LGMP failure, which sets the state.  When the keep-alive cannot be sent *)
(* the function returns without destroy_ctx.                               *)
Frame ==
    /\ spc = "frame"
    /\ \/ spc' \in {"get", "loop", "stop"} /\ state' = state
       \/ spc' = "stop" /\ state' \in {"STOP", "RESTART"}
       \/ EarlyReturn /\ spc' = Again /\ state' = state
    /\ UNCHANGED <<mainRest, client_ctx>>

StopThreadWrongEnum ==
    /\ spc = "stop" /\ (SlowStart \/ \A t \in Threads : tpc[t] # "start")
    /\ thread_flags' = "STOP"
    /\ spc' = "join"
    /\ UNCHANGED <<thread, tpc, sub_channel, flag, client_ctx, state>>

StopThread ==
    /\ spc = "stop" /\ (SlowStart \/ \A t \in Threads : tpc[t] # "start")
    /\ thread_flags' = "T_STOP"
    /\ spc' = "join"
    /\ UNCHANGED <<thread, tpc, sub_channel, flag, client_ctx, state>>

JoinAtOnce ==
    /\ spc = "join"
    /\ spc' = "clean"
    /\ UNCHANGED <<mainRest, client_ctx, state>>

Join ==
    /\ spc = "join"
    /\ IF thread = NoThread THEN UNCHANGED tpc
       ELSE tpc[thread] = "done" /\ tpc' = [tpc EXCEPT ![thread] = "free"]
    /\ spc' = "clean"
    /\ UNCHANGED <<thread, thread_flags, sub_channel, flag, client_ctx, state>>

DestroyClient ==
    /\ spc = "clean"
    /\ client_ctx' = "null"
    /\ spc' = Again
    /\ UNCHANGED <<mainRest, state>>

(* exitHandler: the first SIGINT sets the flag, the second ends the process. *)
Interrupt ==
    /\ spc # "end"
    /\ IF flag THEN spc' = "end" ELSE spc' = spc
    /\ flag' = TRUE
    /\ UNCHANGED <<thread, tpc, thread_flags, sub_channel, client_ctx, state>>

-----------------------------------------------------------------------------
(* A cursor thread.  It reads ctx->lp_host.sub_channel afresh at each use. *)
At(t, pc) == spc # "end" /\ tpc[t] = pc
GoTo(t, pc) == tpc' = [tpc EXCEPT ![t] = pc]
Fail(t) == thread_flags' = "T_ERR" /\ GoTo(t, "bye")

CursorStart(t) ==
    /\ At(t, "start")
    /\ thread_flags' = "T_RUNNING"
    /\ GoTo(t, "setup")
    /\ UNCHANGED <<mainVars, state, sub_channel>>

CursorSetup(t) ==
    /\ At(t, "setup")
    /\ \/ GoTo(t, "check") /\ UNCHANGED thread_flags
       \/ Fail(t)
    /\ UNCHANGED <<mainVars, state, sub_channel>>

CursorCheckErrorOnly(t) ==
    /\ At(t, "check")
    /\ GoTo(t, IF thread_flags = "T_ERR" THEN "bye" ELSE "get")
    /\ UNCHANGED <<mainVars, thread_flags, state, sub_channel>>

CursorCheck(t) ==
    /\ At(t, "check")
    /\ GoTo(t, IF thread_flags = "T_STOP" THEN "bye" ELSE "get")
    /\ UNCHANGED <<mainVars, thread_flags, state, sub_channel>>

(* lpgetCursor gives a cursor, nothing, or an error.  Unless the state is  *)
(* RUNNING it goes on with a message it never read, and then whatever      *)
(* was in it decides, a crash included.                                    *)
CursorGet(t) ==
    /\ At(t, "get")
    /\ \/ GoTo(t, "send") /\ UNCHANGED <<spc, thread_flags>>
       \/ state = "RUNNING" /\ tpc' \in {[tpc EXCEPT ![t] = pc] : pc \in {"check", "keepalive"}}
                            /\ UNCHANGED <<spc, thread_flags>>
       \/ Fail(t) /\ UNCHANGED spc
       \/ state # "RUNNING" /\ spc' = "end" /\ UNCHANGED <<tpc, thread_flags>>
    /\ UNCHANGED <<thread, client_ctx, flag, state, sub_channel>>

(* A keep-alive that cannot be sent ends the thread without a word.        *)
CursorKeepAlive(t) ==
    /\ At(t, "keepalive")
    /\ GoTo(t, "check") \/ GoTo(t, "done")
    /\ UNCHANGED <<mainVars, thread_flags, state, sub_channel>>

CursorSend(t) ==
    /\ At(t, "send")
    /\ \/ GoTo(t, "check") /\ UNCHANGED thread_flags
       \/ Fail(t)
    /\ UNCHANGED <<mainVars, state, sub_channel>>

CursorDropEarly(t) ==
    /\ At(t, "bye")
    /\ sub_channel' = "null"
    /\ GoTo(t, "drop")
    /\ UNCHANGED <<mainVars, thread_flags, state>>

(* lpSendDisconnect. *)
CursorBye(t) ==
    /\ At(t, "bye")
    /\ GoTo(t, "drop")
    /\ UNCHANGED <<mainVars, thread_flags, state, sub_channel>>

CursorDrop(t) ==
    /\ At(t, "drop")
    /\ sub_channel' = "null"
    /\ GoTo(t, "clean")
    /\ UNCHANGED <<mainVars, thread_flags, state>>

CursorCleanAlways(t) ==
    /\ At(t, "clean")
    /\ thread_flags' = "T_STOP"
    /\ GoTo(t, "done")
    /\ UNCHANGED <<mainVars, state, sub_channel>>

CursorClean(t) ==
    /\ At(t, "clean")
    /\ thread_flags' = IF thread_flags = "T_ERR" THEN "T_ERR" ELSE "T_STOP"
    /\ GoTo(t, "done")
    /\ UNCHANGED <<mainVars, state, sub_channel>>

CursorStep(t) == \/ CursorStart(t) \/ CursorSetup(t) \/ CursorCheck(t) \/ CursorGet(t)
                 \/ CursorKeepAlive(t) \/ CursorSend(t) \/ CursorBye(t)
                 \/ CursorDrop(t) \/ CursorClean(t)

-----------------------------------------------------------------------------
Session == \/ Setup \/ Quit \/ Continue \/ Poll \/ ProcessChannel \/ CreateThread
           \/ SetPollRate \/ Frame \/ StopThread \/ Join \/ DestroyClient

Ended == spc = "end" /\ UNCHANGED vars

Next == \/ Session \/ Accept \/ AcceptFails \/ OpenChannel \/ Interrupt
        \/ (\E t \in Threads : CursorStep(t)) \/ Ended

Spec == Init /\ [][Next]_vars

(* A session and every thread keep running.  The wait for a message ends,  *)
(* since a sink that waits for no frame sends requests or keep-alives and  *)
(* one that is gone is an error.  No client need ever come.                *)
Fairness == WF_vars(Session) /\ \A t \in Threads : WF_vars(CursorStep(t))

FairSpec == Spec /\ Fairness

-----------------------------------------------------------------------------
(* Every variable keeps its type. *)
TypeOK ==
    /\ spc \in {"accept", "setup", "loop", "poll", "open", "create", "opened", "get",
                "frame", "stop", "join", "clean", "end"}
    /\ tpc \in [Threads -> {"free", "start", "setup", "check", "get", "keepalive",
                            "send", "bye", "drop", "clean", "done"}]
    /\ thread \in Threads \cup {NoThread}
    /\ thread_flags \in {"T_RUNNING", "T_ERR", "T_STOP"}
    /\ state \in {"RUNNING", "STOP", "RESTART"}
    /\ sub_channel \in {"null", "open"} /\ client_ctx \in {"null", "open"}
    /\ flag \in BOOLEAN

(* Between two sessions nothing of the last one is left: its cursor thread *)
(* has ended and the client's context is destroyed (lp_source.c:549-562).  *)
SessionCleaned ==
    spc = "accept" => client_ctx = "null" /\ \A t \in Threads : ~Alive(t)

(* Whenever the cursor thread uses ctx->lp_host.sub_channel, it is there:  *)
(* neither main's reset of it for a new session (lp_source.c:391) nor an   *)
(* earlier thread's (lp_source.c:696) takes it from under the thread.      *)
ChannelInUse ==
    \A t \in Threads :
        tpc[t] \in {"setup", "keepalive", "send", "bye", "drop"} => sub_channel = "open"

(* The threads implement SoleWorker: one cursor thread at a time works for *)
(* a client, whose context is opened and destroyed only between two.       *)
Working == {t \in Threads : Alive(t) /\ spc # "end"}
Hand == INSTANCE SoleWorker
        WITH Workers <- Threads, working <- Working, held <- (client_ctx = "open")
ImplementsSoleWorker == Hand!WSpec

(* main never waits for ever for the cursor thread (lp_source.c:554).      *)
JoinEnds == spc = "join" ~> spc # "join"

(* An error the cursor thread reports ends the session, also while main    *)
(* waits for a frame (lp_source.c:375, 446, 457).                          *)
ErrorEndsSession ==
    (thread_flags = "T_ERR" /\ thread # NoThread) ~> (spc \in {"accept", "end"})

(* Once a session has begun, the program ends only after a SIGINT or by a  *)
(* crash of which three are known: a set-up without an LGMP client or a    *)
(* first frame (lp_retrieve.c:54, 184), a poll rate set on a subchannel    *)
(* its thread has already dropped (lp_source.c:411), and a message that    *)
(* was not read, used once the state is not RUNNING, in the tear-down.  No *)
(* interleaving of main and its thread adds a fourth.                      *)
CrashForCause ==
    [][spc' = "end" /\ spc \notin {"accept", "end"} =>
          \/ flag
          \/ spc = "setup"
          \/ spc = "opened" /\ tpc[thread] \in {"clean", "done"}
          \/ spc \in {"stop", "join"} /\ state # "RUNNING"]_vars

(* The error a session sees is one of its own cursor thread, not one its   *)
(* predecessor left in thread_flags (lp_types.h:175 "Subchannel flags for  *)
(* thread monitoring").                                                    *)
ErrorIsOurs ==
    spc \in {"loop", "poll", "get", "frame"} /\ thread_flags = "T_ERR" => thread # NoThread

-----------------------------------------------------------------------------
(* The inductive invariant behind SessionCleaned and ChannelInUse.         *)

(* A thread that runs is the one of this session, and main is where it can *)
(* have one.                                                               *)
ThreadIsOurs ==
    \A t \in Threads : Alive(t) =>
        /\ t = thread
        /\ spc \notin {"accept", "setup", "open", "create", "clean"}

(* From its creation until it drops the subchannel itself, a thread has it. *)
ThreadHasChannel ==
    \A t \in Threads : Alive(t) /\ tpc[t] # "clean" => sub_channel = "open"

IInv == /\ TypeOK /\ ThreadIsOurs /\ ThreadHasChannel
        /\ spc = "create" => sub_channel = "open"
        /\ spc = "accept" => client_ctx = "null"

(* Conditions under which the theorems hold: no failure leaves a session   *)
(* without destroy_ctx, and main does not stop a thread that has yet to    *)
(* take its first step, which would set thread_flags back.                 *)
NothingSkipped == spc \in {"setup", "frame"} => spc' # "accept"
PromptStart == spc = "stop" /\ spc' = "join" => \A t \in Threads : tpc[t] # "start"
=============================================================================
