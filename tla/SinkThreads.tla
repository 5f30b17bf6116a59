----------------------------- MODULE SinkThreads -----------------------------
(***************************************************************************)
(* The threads of the sink: main (lp_sink.c) and the cursor threads it     *)
(* starts (lpCursorThread), which share ctx->state, thread_flags, the      *)
(* subchannel and the LGMP memory without a lock.  A cursor thread that    *)
(* dies is replaced at the top of main's loop; zeroed memory makes main    *)
(* stop the thread, free the memory and start over (lpShutdown, lpInitHost,*)
(* lpReinitCursorThread); a disconnect on the subchannel stops both.       *)
(*                                                                         *)
(* What main and the thread relay is in FrameRelay and CursorQueue; here a *)
(* round of either is what it means to the other.                          *)
(***************************************************************************)
CONSTANTS
    Threads,        \* identities of cursor threads, given again after use
    NoThread,       \* a handle that names no thread
    SlowStart,      \* may main come round before a new thread's first step?
    CreateMayFail,  \* may pthread_create fail?
    MayZero         \* may the shared memory be zeroed?

ASSUME NoThreadAssumption == NoThread \notin Threads
ASSUME SwitchAssumption == {SlowStart, CreateMayFail, MayZero} \subseteq BOOLEAN

VARIABLES
    mpc,            \* where main is
    tpc,            \* where each thread is; "free": not started, or joined
    tret,           \* what each thread returns: 0, 1 or "error"
    state,          \* ctx->state
    thread_flags, sub_started,
    cursor_thread,  \* the handle main keeps
    sub_channel,    \* "open" or "destroyed"
    mem,            \* the LGMP memory: "alive" or "freed"
    disconnected,   \* client_ctx->disconnected
    flag            \* SIGINT was received

mainVars == <<mpc, sub_started, cursor_thread, disconnected>>
vars == <<mainVars, tpc, tret, state, thread_flags, sub_channel, mem, flag>>

Alive(t) == tpc[t] \notin {"free", "done"}

(* main has started the first cursor thread (lp_sink.c:231). *)
Init == /\ mpc = "top" /\ sub_started = TRUE /\ disconnected = FALSE
        /\ cursor_thread \in Threads
        /\ tpc = [t \in Threads |-> IF t = cursor_thread THEN "start" ELSE "free"]
        /\ tret = [t \in Threads |-> "0"]
        /\ state = "RUNNING" /\ thread_flags = "T_RUNNING"
        /\ sub_channel = "open" /\ mem = "alive" /\ flag = FALSE

-----------------------------------------------------------------------------
(* main. *)

(* goto destroy_ctx: every thread is told to stop. *)
Destroy == mpc' = "join" /\ state' = "STOP"

(* pthread_create for the handle main keeps.  Its failure is a positive    *)
(* number, which lpReinitCursorThread takes for success; the handle is     *)
(* then what it was, or names no thread.                                   *)
CreateThread ==
    /\ sub_started' = TRUE
    /\ \/ \E t \in Threads :
            /\ tpc[t] = "free" \/ (tpc[t] = "done" /\ t # cursor_thread)
            /\ cursor_thread' = t
            /\ tpc' = [tpc EXCEPT ![t] = "start"]
            /\ tret' = [tret EXCEPT ![t] = "0"]
       \/ /\ CreateMayFail
          /\ cursor_thread' \in {cursor_thread, NoThread}
          /\ UNCHANGED <<tpc, tret>>

mainRest == <<sub_started, cursor_thread, disconnected, tpc, tret, thread_flags, sub_channel, mem, flag>>

MainQuit ==
    /\ \/ mpc = "top" /\ (flag \/ state = "STOP")
       \/ mpc = "await" /\ flag
    /\ Destroy
    /\ UNCHANGED mainRest

MainTop ==
    /\ mpc = "top" /\ ~flag /\ state # "STOP"
    /\ mpc' = "check"
    /\ UNCHANGED <<mainRest, state>>

Started == SlowStart \/ \A t \in Threads : tpc[t] # "start"

(* The state was tested one step ago, the thread's flag is tested now.     *)
MainRestart ==
    /\ mpc = "check" /\ Started /\ thread_flags = "T_STOP"
    /\ CreateThread
    /\ mpc' = "serve"
    /\ UNCHANGED <<disconnected, state, thread_flags, sub_channel, mem, flag>>

MainKeep ==
    /\ mpc = "check" /\ Started /\ thread_flags # "T_STOP"
    /\ mpc' = "serve"
    /\ UNCHANGED <<mainRest, state>>

(* The rest of a round: the queue has no subscriber, or a frame is asked   *)
(* for; lgmpHostProcess fails on zeroed memory and ends the process.       *)
MainServe ==
    /\ mpc = "serve"
    /\ \/ mpc' \in {"top", "request"}
       \/ MayZero /\ mpc' = "end"
    /\ UNCHANGED <<mainRest, state>>

(* The keep-alive sent while nobody subscribes fails.                      *)
MainConnectionError ==
    /\ mpc = "serve"
    /\ Destroy
    /\ disconnected' \in {disconnected, TRUE}
    /\ UNCHANGED <<sub_started, cursor_thread, tpc, tret, thread_flags, sub_channel, mem, flag>>

(* lpRequestFrame, which may have to wait for room, and trfRecvFrame, whose *)
(* failure ends the process.                                               *)
MainRequest ==
    /\ mpc = "request" /\ state = "RUNNING"
    /\ mpc' \in {"await", "end"}
    /\ UNCHANGED <<mainRest, state>>

MainRequestRefused ==
    /\ mpc = "request"
    /\ state # "RUNNING" \/ MayZero
    /\ Destroy
    /\ UNCHANGED mainRest

(* The acknowledgement, or any other message but a keep-alive. *)
MainAnswer ==
    /\ mpc = "await"
    /\ mpc' = "top"
    /\ UNCHANGED <<mainRest, state>>

MainPollError ==
    /\ mpc = "await"
    /\ mpc' = "end"
    /\ UNCHANGED <<mainRest, state>>

(* lpShutdown, up to the join. *)
MainZeroed ==
    /\ MayZero /\ mpc = "await"
    /\ state' = "RESTART"
    /\ mpc' = "shutdown"
    /\ UNCHANGED mainRest

(* pthread_join on the handle; a handle that names no thread to join is    *)
(* undefined, and then the call is taken to return.                        *)
Joinable == cursor_thread \in Threads /\ tpc[cursor_thread] # "free"
JoinedAtOnce == tpc' = tpc
Joined == IF sub_started /\ Joinable
            THEN /\ tpc[cursor_thread] = "done"
                 /\ tpc' = [tpc EXCEPT ![cursor_thread] = "free"]
            ELSE tpc' = tpc

(* lpShutdown, the join and what is freed after it. *)
MainShutdown ==
    /\ mpc = "shutdown"
    /\ Joined
    /\ sub_started' = FALSE
    /\ mem' = "freed"
    /\ mpc' = "init"
    /\ UNCHANGED <<cursor_thread, disconnected, tret, state, thread_flags, sub_channel, flag>>

(* lpInitHost, which may fail; the cursor thread is started either way.    *)
MainInitHost ==
    /\ mpc = "init"
    /\ \/ mem' = "alive" /\ mpc' = "reinit"
       \/ mem' = mem /\ mpc' = "reinit_failed"
    /\ UNCHANGED <<sub_started, cursor_thread, disconnected, tpc, tret, state, thread_flags, sub_channel, flag>>

AfterReinit == IF mpc = "reinit" THEN "await" ELSE "fail"

MainReinitCursorThreadSkipped ==
    /\ mpc \in {"reinit", "reinit_failed"}
    /\ sub_started' = TRUE
    /\ mpc' = AfterReinit
    /\ UNCHANGED <<tpc, tret, cursor_thread, disconnected, state, thread_flags, sub_channel, mem, flag>>

MainReinitCursorThread ==
    /\ mpc \in {"reinit", "reinit_failed"}
    /\ CreateThread
    /\ mpc' = AfterReinit
    /\ UNCHANGED <<disconnected, state, thread_flags, sub_channel, mem, flag>>

(* lpInitHost failed: main returns, with the new thread running and no     *)
(* LGMP memory.                                                            *)
MainReturn ==
    /\ mpc = "fail"
    /\ mpc' = "end"
    /\ UNCHANGED <<mainRest, state>>

(* destroy_ctx: the join, and what the thread returned. *)
MainJoin ==
    /\ mpc = "join"
    /\ Joined
    /\ disconnected' = (disconnected \/ (sub_started /\ Joinable /\ tret[cursor_thread] = "1"))
    /\ mpc' = "destroy"
    /\ UNCHANGED <<sub_started, cursor_thread, tret, state, thread_flags, sub_channel, mem, flag>>

(* lpDestroyContext. *)
MainDestroyContext ==
    /\ mpc = "destroy"
    /\ mem' = "freed" /\ mpc' = "exit"
    /\ UNCHANGED <<sub_started, cursor_thread, disconnected, tpc, tret, state, thread_flags, sub_channel, flag>>

MainExit ==
    /\ mpc = "exit"
    /\ mpc' = "end"
    /\ UNCHANGED <<mainRest, state>>

(* exitHandler: the first SIGINT sets the flag, the second ends the process. *)
Interrupt ==
    /\ mpc # "end"
    /\ IF flag THEN mpc' = "end" ELSE mpc' = mpc
    /\ flag' = TRUE
    /\ UNCHANGED <<sub_started, cursor_thread, disconnected, tpc, tret, state, thread_flags, sub_channel, mem>>

-----------------------------------------------------------------------------
(* A cursor thread.  It runs until the process ends. *)
At(t, pc) == mpc # "end" /\ tpc[t] = pc
GoTo(t, pc) == tpc' = [tpc EXCEPT ![t] = pc]
Ret(t, r) == tret' = [tret EXCEPT ![t] = r]

CursorStartSilent(t) ==
    /\ At(t, "start")
    /\ GoTo(t, "setup")
    /\ UNCHANGED <<mainVars, thread_flags, tret, state, sub_channel, mem, flag>>

CursorStart(t) ==
    /\ At(t, "start")
    /\ thread_flags' = "T_RUNNING"
    /\ GoTo(t, "setup")
    /\ UNCHANGED <<mainVars, tret, state, sub_channel, mem, flag>>

(* Two buffers are allocated and one is registered on the subchannel. The  *)
(* failure of the first leaves the return value 0.                         *)
CursorSetup(t) ==
    /\ At(t, "setup")
    /\ \/ GoTo(t, "check") /\ tret' = tret
       \/ GoTo(t, "clean") /\ (tret' = tret \/ Ret(t, "error"))
    /\ UNCHANGED <<mainVars, state, thread_flags, sub_channel, mem, flag>>

CursorCheckStopOnly(t) ==
    /\ At(t, "check")
    /\ GoTo(t, IF state = "STOP" THEN "clean" ELSE "poll")
    /\ UNCHANGED <<mainVars, tret, state, thread_flags, sub_channel, mem, flag>>

CursorCheckRestartOnly(t) ==
    /\ At(t, "check")
    /\ GoTo(t, IF state = "RESTART" THEN "clean" ELSE "poll")
    /\ UNCHANGED <<mainVars, tret, state, thread_flags, sub_channel, mem, flag>>

CursorCheck(t) ==
    /\ At(t, "check")
    /\ GoTo(t, IF state \in {"RESTART", "STOP"} THEN "clean" ELSE "poll")
    /\ UNCHANGED <<mainVars, tret, state, thread_flags, sub_channel, mem, flag>>

(* trfFabricPollRecv returns within 100 ms: nothing or a keep-alive sends  *)
(* the thread round again, a timeout or cursor data to the update, a       *)
(* failure, a message that cannot be decoded or garbage to its end.        *)
CursorPoll(t) ==
    /\ At(t, "poll")
    /\ \/ GoTo(t, "check") /\ tret' = tret
       \/ GoTo(t, "update") /\ tret' = tret
       \/ GoTo(t, "clean") /\ (tret' = tret \/ Ret(t, "error"))
    /\ UNCHANGED <<mainVars, state, thread_flags, sub_channel, mem, flag>>

(* The source disconnects: the state is set first, the subchannel is       *)
(* destroyed next.                                                         *)
CursorDisconnect(t) ==
    /\ At(t, "poll") /\ sub_channel = "open"
    /\ state' = "STOP"
    /\ GoTo(t, "leave")
    /\ UNCHANGED <<mainVars, tret, thread_flags, sub_channel, mem, flag>>

CursorLeave(t) ==
    /\ At(t, "leave")
    /\ sub_channel' = "destroyed"
    /\ Ret(t, "1")
    /\ GoTo(t, "clean")
    /\ UNCHANGED <<mainVars, state, thread_flags, mem, flag>>

(* lpUpdateCursorPos writes to the LGMP memory and posts to its queue. *)
CursorUpdate(t) ==
    /\ At(t, "update")
    /\ GoTo(t, "check")
    /\ UNCHANGED <<mainVars, tret, state, thread_flags, sub_channel, mem, flag>>

CursorCleanError(t) ==
    /\ At(t, "clean")
    /\ thread_flags' = "T_ERR"
    /\ GoTo(t, "done")
    /\ UNCHANGED <<mainVars, tret, state, sub_channel, mem, flag>>

(* Whatever ended the thread, the flag says stopped: never T_ERR. *)
CursorClean(t) ==
    /\ At(t, "clean")
    /\ thread_flags' = "T_STOP"
    /\ GoTo(t, "done")
    /\ UNCHANGED <<mainVars, tret, state, sub_channel, mem, flag>>

CursorStep(t) == \/ CursorStart(t) \/ CursorSetup(t) \/ CursorCheck(t)
                 \/ CursorPoll(t) \/ CursorDisconnect(t) \/ CursorLeave(t)
                 \/ CursorUpdate(t) \/ CursorClean(t)

(* A thread started after a disconnect, or beside the thread that received *)
(* it, registers its buffer on, or polls, a subchannel that was destroyed: *)
(* undefined, and may crash the process.                                   *)
CursorCrash(t) ==
    /\ sub_channel = "destroyed" /\ \E pc \in {"setup", "poll"} : At(t, pc)
    /\ mpc' = "end"
    /\ UNCHANGED <<mainRest, state>>

-----------------------------------------------------------------------------
(* What main does without waiting for anybody but its thread. *)
MainRun == \/ MainQuit \/ MainTop \/ MainRestart \/ MainKeep \/ MainServe
           \/ MainRequestRefused \/ MainShutdown \/ MainInitHost
           \/ MainReinitCursorThread \/ MainReturn \/ MainJoin \/ MainDestroyContext \/ MainExit

MainWait == MainConnectionError \/ MainRequest \/ MainAnswer \/ MainPollError \/ MainZeroed

Ended == mpc = "end" /\ UNCHANGED vars

Next == \/ MainRun \/ MainWait \/ Interrupt
        \/ \E t \in Threads : CursorStep(t) \/ CursorCrash(t)
        \/ Ended

Spec == Init /\ [][Next]_vars

(* main and every thread keep running.  Once the source is gone, main's    *)
(* poll fails too, and so does one of the keep-alives it sends every tenth *)
(* idle round; nothing makes an answer, a signal or a fault come.          *)
SourceGone == sub_channel = "destroyed"
Fairness == /\ WF_vars(MainRun)
            /\ \A t \in Threads : WF_vars(CursorStep(t))
            /\ SF_vars(SourceGone /\ MainPollError)
            /\ SF_vars(SourceGone /\ MainConnectionError)

FairSpec == Spec /\ Fairness

-----------------------------------------------------------------------------
(* Every variable keeps its type. *)
TypeOK ==
    /\ mpc \in {"top", "check", "serve", "request", "await", "shutdown", "init",
                "reinit", "reinit_failed", "fail", "join", "destroy", "exit", "end"}
    /\ tpc \in [Threads -> {"free", "start", "setup", "check", "poll", "leave",
                            "update", "clean", "done"}]
    /\ tret \in [Threads -> {"0", "1", "error"}]
    /\ state \in {"RUNNING", "STOP", "RESTART"}
    /\ thread_flags \in {"T_RUNNING", "T_STOP"}
    /\ cursor_thread \in Threads \cup {NoThread}
    /\ {sub_started, disconnected, flag} \subseteq BOOLEAN
    /\ sub_channel \in {"open", "destroyed"} /\ mem \in {"alive", "freed"}

(* When main is about to join, the handle it keeps is a thread that was    *)
(* started and that nobody joined (lp_sink.c:464, lp_write.c:484), through *)
(* restarts, reinitialisations and a disconnect in between.                *)
StartedMeansJoinable ==
    mpc \in {"join", "shutdown"} /\ sub_started => Joinable

(* When main has joined "the" cursor thread, in lpShutdown or at           *)
(* destroy_ctx, no cursor thread runs any more (lp_sink.c:461 "Shutdown    *)
(* all threads"): a restart never leaves one behind.                       *)
AllThreadsShutdown ==
    mpc \in {"init", "reinit", "reinit_failed", "destroy", "exit"} =>
        \A t \in Threads : ~Alive(t)

(* No cursor thread touches the LGMP memory once it is freed.              *)
NoUseAfterFree == \A t \in Threads : At(t, "update") => mem = "alive"

(* Two cursor threads never share the subchannel and the pointer slots.    *)
OneCursorThread == \A t, u \in Threads : Alive(t) /\ Alive(u) => t = u

(* The threads implement SoleWorker.  A cursor thread is at work from the  *)
(* test of ctx->state that lets it pass to the next such test, on which    *)
(* way it polls the subchannel and writes to the LGMP memory.  One at a    *)
(* time is at work, and only on memory that is there; the memory is freed  *)
(* and allocated only while none is, though a thread may have been created *)
(* that has yet to test the state (lp_write.c:257-271).                    *)
AtWork == {"poll", "update"}
Working == {t \in Threads : tpc[t] \in AtWork /\ mpc # "end"}
Hand == INSTANCE SoleWorker
        WITH Workers <- Threads, working <- Working, held <- (mem = "alive")
ImplementsSoleWorker == Hand!WSpec

(* main never waits for ever in pthread_join. *)
JoinEnds == mpc \in {"join", "shutdown"} ~> mpc \notin {"join", "shutdown"}

(* Once the source has disconnected, the sink ends, even when zeroed       *)
(* memory makes main overwrite LP_STATE_STOP in between.                   *)
DisconnectHeeded == SourceGone ~> mpc = "end"

-----------------------------------------------------------------------------
(* The inductive invariant behind the three hand-over properties.          *)

(* A thread that runs is the one whose handle main keeps.                  *)
HandleIsCurrent ==
    \A t \in Threads : Alive(t) => t = cursor_thread /\ sub_started

(* The flag says stopped only while no thread has taken its first step.    *)
FlagTruthful ==
    thread_flags = "T_STOP" =>
        \A t \in Threads : tpc[t] \in {"free", "start", "done"}

(* Once main stops its thread, for a new start or for good, the state      *)
(* never is RUNNING again, so that a thread started later turns back at    *)
(* its first test.                                                         *)
StoppedForGood ==
    mem = "freed" \/ mpc \in {"shutdown", "init", "reinit", "reinit_failed", "fail",
                              "join", "destroy", "exit"}
        => state # "RUNNING"

(* No thread is at work on memory that was freed.                          *)
UntouchedOnceFreed == mem = "freed" => \A t \in Threads : tpc[t] \notin AtWork

IInv == /\ TypeOK /\ AllThreadsShutdown /\ HandleIsCurrent /\ FlagTruthful
        /\ StoppedForGood /\ UntouchedOnceFreed

(* Conditions on what the scheduler and pthread_create do, under which the *)
(* theorems hold.  main does not replace a thread because of a flag that   *)
(* the thread's replacement has yet to clear with its first step.          *)
PromptStart ==
    mpc = "check" /\ mpc' = "serve" /\ thread_flags = "T_STOP" =>
        \A t \in Threads : tpc[t] # "start"

(* pthread_create succeeds.                                                *)
CreateSucceeds ==
    MainRestart \/ MainReinitCursorThread =>
        cursor_thread' \in Threads /\ tpc'[cursor_thread'] = "start"

(* Until the last join, a handle that counts can be joined.                *)
HandleKept == mpc \notin {"destroy", "exit", "end"} /\ sub_started => Joinable
=============================================================================
