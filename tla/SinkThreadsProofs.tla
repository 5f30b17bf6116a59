-------------------------- MODULE SinkThreadsProofs --------------------------
(***************************************************************************)
(* Proofs about SinkThreads, for any set of threads.                       *)
(***************************************************************************)
EXTENDS SinkThreads, Integers, TLAPS

(* Every step keeps the types. *)
LEMMA Typing == TypeOK /\ [Next]_vars => TypeOK'
<1> SUFFICES ASSUME TypeOK, [Next]_vars PROVE TypeOK'
  OBVIOUS
<1> USE NoThreadAssumption DEF TypeOK
<1>1. CASE MainRun
  <2>1. CASE MainQuit \/ MainTop \/ MainKeep \/ MainServe \/ MainRequestRefused
    BY <2>1 DEF MainQuit, MainTop, MainKeep, MainServe, MainRequestRefused, Destroy, mainRest
  <2>2. CASE MainRestart \/ MainReinitCursorThread
    BY <2>2 DEF MainRestart, MainReinitCursorThread, CreateThread, AfterReinit
  <2>3. CASE MainShutdown \/ MainJoin
    BY <2>3 DEF MainShutdown, MainJoin, Joined, Joinable
  <2>4. CASE MainInitHost \/ MainReturn \/ MainDestroyContext \/ MainExit
    BY <2>4 DEF MainInitHost, MainReturn, MainDestroyContext, MainExit, mainRest
  <2> QED
    BY <1>1, <2>1, <2>2, <2>3, <2>4 DEF MainRun
<1>2. CASE MainWait
  BY <1>2 DEF MainWait, MainConnectionError, MainRequest, MainAnswer, MainPollError,
              MainZeroed, Destroy, mainRest
<1>3. CASE Interrupt
  BY <1>3 DEF Interrupt
<1>4. CASE \E t \in Threads : CursorStep(t)
  <2> PICK t \in Threads : CursorStep(t)
    BY <1>4
  <2>1. CASE CursorStart(t) \/ CursorCheck(t) \/ CursorUpdate(t) \/ CursorClean(t)
    BY <2>1 DEF CursorStart, CursorCheck, CursorUpdate, CursorClean, GoTo, mainVars
  <2>2. CASE CursorSetup(t) \/ CursorPoll(t)
    BY <2>2 DEF CursorSetup, CursorPoll, GoTo, Ret, mainVars
  <2>3. CASE CursorDisconnect(t) \/ CursorLeave(t)
    BY <2>3 DEF CursorDisconnect, CursorLeave, GoTo, Ret, mainVars
  <2> QED
    BY <2>1, <2>2, <2>3 DEF CursorStep
<1>5. CASE \E t \in Threads : CursorCrash(t)
  BY <1>5 DEF CursorCrash, mainRest
<1>6. CASE Ended \/ UNCHANGED vars
  BY <1>6 DEF Ended, vars, mainVars
<1> QED
  BY <1>1, <1>2, <1>3, <1>4, <1>5, <1>6 DEF Next

(* What a step of a cursor thread leaves to the others. *)
LEMMA CursorFrame ==
  ASSUME TypeOK, NEW t \in Threads, CursorStep(t)
  PROVE  /\ UNCHANGED <<mainVars, mem, flag>>
         /\ mpc # "end" /\ Alive(t)
         /\ \E pc \in {"setup", "check", "poll", "leave", "update", "clean", "done"} :
              /\ tpc' = [tpc EXCEPT ![t] = pc]
              /\ pc = "done" <=> thread_flags' = "T_STOP" /\ tpc[t] = "clean"
              /\ pc # "done" => thread_flags' \in {thread_flags, "T_RUNNING"}
              /\ tpc[t] = "start" => thread_flags' = "T_RUNNING"
              /\ pc \in AtWork => tpc[t] \in AtWork \/ state = "RUNNING"
              /\ state' \in {state, "STOP"}
<1> USE DEF At, GoTo, Ret, Alive, AtWork, TypeOK
<1>1. CASE CursorStart(t) \/ CursorSetup(t)
  BY <1>1 DEF CursorStart, CursorSetup
<1>2. CASE CursorCheck(t) \/ CursorPoll(t)
  BY <1>2 DEF CursorCheck, CursorPoll
<1>3. CASE CursorDisconnect(t) \/ CursorLeave(t)
  BY <1>3 DEF CursorDisconnect, CursorLeave
<1>4. CASE CursorUpdate(t) \/ CursorClean(t)
  BY <1>4 DEF CursorUpdate, CursorClean
<1> QED
  BY <1>1, <1>2, <1>3, <1>4 DEF CursorStep

(* Where no thread is slow to start, every step is one of PromptStart. *)
LEMMA PromptWithoutSlowStart ==
  ASSUME ~SlowStart, [Next]_vars
  PROVE  [PromptStart]_vars
<1>1. CASE MainRestart \/ MainKeep
  BY <1>1 DEF MainRestart, MainKeep, Started, PromptStart
<1>2. CASE ~(MainRestart \/ MainKeep) /\ (MainRun \/ MainWait)
  BY <1>2 DEF MainRun, MainWait, MainQuit, MainTop, MainServe, MainRequestRefused, MainShutdown,
     MainInitHost, MainReinitCursorThread, AfterReinit, MainReturn, MainJoin,
     MainDestroyContext, MainExit, MainConnectionError, MainRequest, MainAnswer, MainPollError,
     MainZeroed, PromptStart
<1>3. CASE Interrupt
  BY <1>3 DEF Interrupt, PromptStart
<1>4. ASSUME NEW t \in Threads, CursorStep(t) PROVE mpc' = mpc
  BY <1>4 DEF CursorStep, CursorStart, CursorSetup, CursorCheck, CursorPoll, CursorDisconnect,
     CursorLeave, CursorUpdate, CursorClean, mainVars
<1>5. CASE \E t \in Threads : CursorCrash(t)
  BY <1>5 DEF CursorCrash, PromptStart
<1> QED
  BY <1>1, <1>2, <1>3, <1>4, <1>5 DEF Next, Ended, PromptStart

(* With threads that start before main comes round, every step keeps the   *)
(* hand-over between main and its thread.                                  *)
LEMMA HandoverStep ==
  ASSUME [PromptStart]_vars, IInv, [Next]_vars
  PROVE  IInv'
<1> DEFINE Mine == /\ AllThreadsShutdown /\ HandleIsCurrent /\ FlagTruthful
                   /\ StoppedForGood /\ UntouchedOnceFreed
<1>1. TypeOK'
  BY Typing DEF IInv
<1>2. Mine'
  <2> USE DEF IInv, AllThreadsShutdown, HandleIsCurrent, FlagTruthful, StoppedForGood,
              UntouchedOnceFreed, AtWork, Alive
  <2>1. CASE MainQuit \/ MainTop \/ MainKeep \/ MainServe \/ MainRequestRefused \/ MainReturn
             \/ MainExit
    BY <2>1 DEF MainQuit, MainTop, MainKeep, MainServe, MainRequestRefused, MainReturn, MainExit,
                Destroy, mainRest
  <2>2. CASE MainRestart
    <3>1. \A t \in Threads : ~Alive(t)
      BY <2>2 DEF MainRestart, PromptStart, vars, mainVars
    <3> QED
      BY <2>2, <3>1 DEF MainRestart, CreateThread, TypeOK
  <2>3. CASE MainReinitCursorThread
    <3>1. \A t \in Threads : ~Alive(t)
      BY <2>3 DEF MainReinitCursorThread
    <3> QED
      BY <2>3, <3>1 DEF MainReinitCursorThread, AfterReinit, CreateThread, TypeOK
  <2>4. CASE MainShutdown \/ MainJoin
    <3>1. \A t \in Threads : tpc'[t] \in {"free", "done"}
      BY <2>4 DEF MainShutdown, MainJoin, Joined, Joinable, TypeOK
    <3> QED
      BY <2>4, <3>1 DEF MainShutdown, MainJoin
  <2>5. CASE MainInitHost \/ MainDestroyContext
    BY <2>5 DEF MainInitHost, MainDestroyContext
  <2>6. CASE MainWait
    <3>1. UNCHANGED <<tpc, thread_flags, mem, sub_started, cursor_thread>>
      BY <2>6 DEF MainWait, MainConnectionError, MainRequest, MainAnswer, MainPollError,
                  MainZeroed, mainRest
    <3>2. /\ mpc \in {"serve", "request", "await"}
          /\ mpc' \in {"join", "await", "end", "top", "shutdown"}
          /\ state' # "RUNNING" \/ (state' = state /\ mpc' \notin {"join", "shutdown"})
      BY <2>6 DEF MainWait, MainConnectionError, MainRequest, MainAnswer, MainPollError,
                  MainZeroed, mainRest, Destroy
    <3> QED
      BY <3>1, <3>2
  <2>7. CASE Interrupt
    BY <2>7 DEF Interrupt
  <2>8. ASSUME NEW t \in Threads, CursorStep(t) PROVE Mine'
    <3>1. AllThreadsShutdown' /\ HandleIsCurrent' /\ FlagTruthful'
      BY <2>8, CursorFrame DEF mainVars, TypeOK
    <3>2. StoppedForGood'
      BY <2>8, CursorFrame DEF mainVars
    <3>3. UntouchedOnceFreed'
      BY <2>8, CursorFrame DEF mainVars, TypeOK
    <3> QED
      BY <3>1, <3>2, <3>3
  <2>9. CASE \E t \in Threads : CursorCrash(t)
    BY <2>9 DEF CursorCrash, mainRest
  <2>10. CASE Ended \/ UNCHANGED vars
    BY <2>10 DEF Ended, vars, mainVars
  <2> QED
    BY <2>1, <2>2, <2>3, <2>4, <2>5, <2>6, <2>7, <2>8, <2>9, <2>10 DEF Next, MainRun
<1> QED
  BY <1>1, <1>2 DEF IInv

(* The first thread is the one main has the handle of. *)
LEMMA Initially == Init => IInv /\ HandleKept
BY NoThreadAssumption
   DEF Init, IInv, TypeOK, AllThreadsShutdown, HandleIsCurrent, FlagTruthful, StoppedForGood,
       UntouchedOnceFreed, HandleKept, Joinable, Alive

(* Every variable of the sink's threads keeps its type. *)
THEOREM TypeCorrect == Spec => []TypeOK
<1>1. Init => TypeOK
  BY Initially DEF IInv
<1> QED
  BY <1>1, Typing, PTL DEF Spec

(* As long as main never replaces a thread that has yet to take its first  *)
(* step, no restart, reinitialisation, disconnect or failure leaves a      *)
(* thread behind: when main has joined, none runs.                         *)
THEOREM NoneLeftBehind ==
  Spec /\ [][PromptStart]_vars => []AllThreadsShutdown
<1>1. IInv => AllThreadsShutdown
  BY DEF IInv
<1> QED
  BY <1>1, Initially, HandoverStep, PTL DEF Spec

(* Under the same assumption cursor threads never overlap.                 *)
THEOREM NeverTwoThreads ==
  Spec /\ [][PromptStart]_vars => []OneCursorThread
<1>1. IInv => OneCursorThread
  BY DEF IInv, HandleIsCurrent, OneCursorThread
<1> QED
  BY <1>1, Initially, HandoverStep, PTL DEF Spec

(* Under the same assumption no thread touches the LGMP memory lpShutdown  *)
(* or lpDestroyContext has freed, not even the thread that is created when *)
(* lpInitHost has failed to allocate it again.                             *)
THEOREM MemoryOutlivesThreads ==
  Spec /\ [][PromptStart]_vars => []NoUseAfterFree
<1>1. IInv => NoUseAfterFree
  BY DEF IInv, TypeOK, UntouchedOnceFreed, AtWork, NoUseAfterFree, At
<1> QED
  BY <1>1, Initially, HandoverStep, PTL DEF Spec

(* Threads of any speed: as long as pthread_create succeeds, every step    *)
(* keeps the handle joinable.                                              *)
LEMMA HandleStep ==
  ASSUME [CreateSucceeds]_vars, TypeOK, HandleKept, [Next]_vars
  PROVE  HandleKept'
<1> USE DEF HandleKept, Joinable
<1>1. CASE MainQuit \/ MainTop \/ MainKeep \/ MainServe \/ MainRequestRefused \/ MainReturn
           \/ MainExit
  BY <1>1 DEF MainQuit, MainTop, MainKeep, MainServe, MainRequestRefused, MainReturn, MainExit,
              Destroy, mainRest
<1>2. CASE MainRestart \/ MainReinitCursorThread
  BY <1>2 DEF MainRestart, MainReinitCursorThread, CreateSucceeds, vars, mainVars
<1>3. CASE MainShutdown \/ MainJoin \/ MainInitHost \/ MainDestroyContext
  BY <1>3 DEF MainShutdown, MainJoin, MainInitHost, MainDestroyContext
<1>4. CASE MainWait
  BY <1>4 DEF MainWait, MainConnectionError, MainRequest, MainAnswer, MainPollError,
              MainZeroed, Destroy, mainRest
<1>5. CASE Interrupt
  BY <1>5 DEF Interrupt
<1>6. ASSUME NEW t \in Threads, CursorStep(t) PROVE HandleKept'
  <2>1. /\ UNCHANGED mainVars
        /\ tpc[t] # "free"
        /\ \E pc \in {"setup", "check", "poll", "leave", "update", "clean", "done"} :
              tpc' = [tpc EXCEPT ![t] = pc]
    BY <1>6, CursorFrame DEF Alive
  <2>2. cursor_thread \in Threads /\ tpc[cursor_thread] # "free" => tpc'[cursor_thread] # "free"
    BY <2>1 DEF TypeOK
  <2> QED
    BY <2>1, <2>2 DEF mainVars
<1>7. CASE \E t \in Threads : CursorCrash(t)
  BY <1>7 DEF CursorCrash
<1>8. CASE Ended \/ UNCHANGED vars
  BY <1>8 DEF Ended, vars, mainVars
<1> QED
  BY <1>1, <1>2, <1>3, <1>4, <1>5, <1>6, <1>7, <1>8 DEF Next, MainRun

(* As long as pthread_create succeeds, both joins, in lpShutdown and at    *)
(* destroy_ctx, join a thread that was started and that nobody joined.     *)
THEOREM JoinsAreLegal ==
  Spec /\ [][CreateSucceeds]_vars => []StartedMeansJoinable
<1>1. Init => TypeOK /\ HandleKept
  BY Initially DEF IInv
<1>2. TypeOK /\ HandleKept /\ [Next]_vars /\ [CreateSucceeds]_vars => TypeOK' /\ HandleKept'
  BY Typing, HandleStep
<1>3. HandleKept => StartedMeansJoinable
  BY DEF HandleKept, StartedMeansJoinable
<1> QED
  BY <1>1, <1>2, <1>3, PTL DEF Spec

(* Where pthread_create cannot fail, every step is one of CreateSucceeds. *)
LEMMA CreateWithoutFailure ==
  ASSUME ~CreateMayFail, TypeOK
  PROVE  CreateSucceeds
BY DEF CreateSucceeds, MainRestart, MainReinitCursorThread, CreateThread, TypeOK

-----------------------------------------------------------------------------
(* Refinement of SoleWorker. *)

(* Steps that send no thread to work and leave the memory as it is. *)
LEMMA WorkerQuiet ==
  ASSUME mem' = mem, mpc' = "end" \/ mpc # "end",
         \A t \in Threads : tpc[t] \in AtWork <=> tpc'[t] \in AtWork
  PROVE  [Hand!WNext]_(Hand!wvars)
<1>1. CASE mpc' = "end"
  <2>1. Working' = {}
    BY <1>1 DEF Working
  <2> QED
    BY <2>1 DEF Hand!WNext, Hand!Finish
<1>2. CASE mpc' # "end"
  <2>1. Working' = Working
    BY <1>2 DEF Working
  <2> QED
    BY <2>1 DEF Hand!wvars
<1> QED
  BY <1>1, <1>2

(* A new thread is not at work before its first test of the state. *)
LEMMA WorkerStarts ==
  ASSUME TypeOK, CreateThread
  PROVE  \A t \in Threads : tpc[t] \in AtWork <=> tpc'[t] \in AtWork
BY DEF CreateThread, AtWork, TypeOK

(* Freeing or allocating the memory while no thread runs. *)
LEMMA ResourceMoves ==
  ASSUME TypeOK, TypeOK', \A t \in Threads : ~Alive(t) /\ ~Alive(t)'
  PROVE  [Hand!WNext]_(Hand!wvars)
<1>1. Working = {} /\ Working' = {}
  BY DEF Working, AtWork, Alive
<1>2. mem \in {"alive", "freed"} /\ mem' \in {"alive", "freed"}
  BY DEF TypeOK
<1> QED
  BY <1>1, <1>2 DEF Hand!WNext, Hand!Acquire, Hand!Release, Hand!Idle, Hand!wvars

(* Every step is a step of SoleWorker or a stutter. *)
LEMMA WorkerStep ==
  ASSUME [PromptStart]_vars, IInv, TypeOK', [Next]_vars
  PROVE  [Hand!WNext]_(Hand!wvars)
<1> USE DEF IInv
<1>1. CASE \/ MainQuit \/ MainTop \/ MainKeep \/ MainServe \/ MainRequestRefused \/ MainReturn
           \/ MainExit \/ MainWait \/ Interrupt \/ (\E t \in Threads : CursorCrash(t))
           \/ Ended \/ UNCHANGED vars
  <2>1. UNCHANGED <<tpc, mem>> /\ (mpc = "end" => mpc' = "end")
    BY <1>1 DEF MainQuit, MainTop, MainKeep, MainServe, MainRequestRefused, MainReturn, MainExit,
       MainWait, MainConnectionError, MainRequest, MainAnswer, MainPollError, MainZeroed,
       Interrupt, CursorCrash, Ended, mainRest, mainVars, vars
  <2> QED
    BY <2>1, WorkerQuiet
<1>2. CASE MainRestart \/ MainReinitCursorThread
  <2>1. mem' = mem /\ mpc # "end" /\ CreateThread
    BY <1>2 DEF MainRestart, MainReinitCursorThread
  <2> QED
    BY <2>1, WorkerStarts, WorkerQuiet
<1>3. CASE MainShutdown \/ MainJoin
  <2>1. /\ \A t \in Threads : tpc[t] \in {"free", "done"}
        /\ \A t \in Threads : tpc'[t] \in {"free", "done"}
    BY <1>3 DEF MainShutdown, MainJoin, Joined, Joinable, HandleIsCurrent, Alive, TypeOK
  <2> QED
    BY <2>1, ResourceMoves DEF Alive
<1>4. CASE MainInitHost \/ MainDestroyContext
  <2>1. (\A t \in Threads : ~Alive(t)) /\ tpc' = tpc
    BY <1>4 DEF MainInitHost, MainDestroyContext, AllThreadsShutdown
  <2> QED
    BY <2>1, ResourceMoves DEF Alive
<1>5. ASSUME NEW t \in Threads, CursorStep(t) PROVE [Hand!WNext]_(Hand!wvars)
  <2>1. PICK pc : /\ tpc' = [tpc EXCEPT ![t] = pc]
                  /\ pc \in AtWork => tpc[t] \in AtWork \/ state = "RUNNING"
    BY <1>5, CursorFrame
  <2>2. UNCHANGED <<mpc, mem>> /\ mpc # "end" /\ Alive(t)
    BY <1>5, CursorFrame DEF mainVars
  <2>3. \A u \in Threads : u # t => ~Alive(u) /\ tpc'[u] = tpc[u]
    BY <2>1, <2>2 DEF HandleIsCurrent, TypeOK
  <2>4. Working \subseteq {t} /\ Working' \subseteq {t}
    BY <2>2, <2>3 DEF Working, AtWork, Alive
  <2>5. CASE Working' = Working \/ Working' = {}
    BY <2>2, <2>5 DEF Hand!WNext, Hand!Finish, Hand!wvars
  <2>6. CASE Working = {} /\ Working' = {t}
    <3>1. tpc'[t] = pc /\ pc \in AtWork /\ tpc[t] \notin AtWork
      BY <2>1, <2>2, <2>6 DEF Working, TypeOK
    <3>2. state = "RUNNING"
      BY <2>1, <3>1
    <3>3. mem = "alive" /\ mem' = mem
      BY <2>2, <3>2 DEF StoppedForGood, TypeOK
    <3> QED
      BY <2>6, <3>3 DEF Hand!WNext, Hand!Start, Hand!Idle
  <2> QED
    BY <2>4, <2>5, <2>6
<1> QED
  BY <1>1, <1>2, <1>3, <1>4, <1>5 DEF Next, MainRun

(* The threads of the sink implement SoleWorker: restarts, a disconnect    *)
(* and a failed lpInitHost, after which a thread is created without LGMP   *)
(* memory, never put two threads to work or one on memory that is freed.   *)
THEOREM Refinement == Spec /\ [][PromptStart]_vars => ImplementsSoleWorker
<1>1. Init => Hand!WInit
  <2> SUFFICES ASSUME Init PROVE Hand!WInit
    OBVIOUS
  <2>1. Working = {} /\ mem = "alive"
    BY DEF Init, Working, AtWork
  <2> QED
    BY <2>1 DEF Hand!WInit, Hand!Idle
<1>2. IInv /\ [Next]_vars /\ [PromptStart]_vars => IInv'
  BY HandoverStep
<1>3. IInv /\ IInv' /\ [Next]_vars /\ [PromptStart]_vars => [Hand!WNext]_(Hand!wvars)
  BY WorkerStep DEF IInv
<1> QED
  BY <1>1, <1>2, <1>3, Initially, PTL DEF Spec, ImplementsSoleWorker, Hand!WSpec

-----------------------------------------------------------------------------
(* After a disconnect.                                                     *)

(* A disconnect was seen: the subchannel is destroyed, or about to be.     *)
Disconnected == sub_channel = "destroyed" \/ \E t \in Threads : tpc[t] = "leave"

(* Once a disconnect was seen, the state is not RUNNING, though main may   *)
(* overwrite it (lpShutdown's LP_STATE_RESTART).                           *)
StopRemembered == Disconnected => state # "RUNNING"

(* No step forgets a disconnect. *)
LEMMA StopStep ==
  ASSUME TypeOK, StopRemembered, [Next]_vars
  PROVE  StopRemembered'
<1> USE DEF StopRemembered, Disconnected
<1>1. CASE MainQuit \/ MainRequestRefused \/ MainConnectionError \/ MainZeroed
  BY <1>1 DEF MainQuit, MainRequestRefused, MainConnectionError, MainZeroed, Destroy
<1>2. CASE MainRestart \/ MainReinitCursorThread
  <2>1. UNCHANGED <<state, sub_channel>> /\ (\A t \in Threads : tpc'[t] = "leave" => tpc[t] = "leave")
    BY <1>2 DEF MainRestart, MainReinitCursorThread, CreateThread, TypeOK
  <2> QED
    BY <2>1
<1>3. CASE MainShutdown \/ MainJoin
  <2>1. UNCHANGED <<state, sub_channel>> /\ (\A t \in Threads : tpc'[t] = "leave" => tpc[t] = "leave")
    BY <1>3 DEF MainShutdown, MainJoin, Joined, TypeOK
  <2> QED
    BY <2>1
<1>4. CASE \/ MainTop \/ MainKeep \/ MainServe \/ MainInitHost \/ MainReturn
           \/ MainDestroyContext \/ MainExit \/ MainRequest \/ MainAnswer \/ MainPollError
           \/ Interrupt \/ (\E t \in Threads : CursorCrash(t)) \/ Ended \/ UNCHANGED vars
  <2>1. UNCHANGED <<state, sub_channel, tpc>>
    BY <1>4 DEF MainTop, MainKeep, MainServe, MainInitHost, MainReturn, MainDestroyContext,
       MainExit, MainRequest, MainAnswer, MainPollError, Interrupt, CursorCrash, Ended, mainRest,
       vars
  <2> QED
    BY <2>1
<1>5. ASSUME NEW t \in Threads, CursorStep(t) PROVE StopRemembered'
  <2>1. CASE CursorDisconnect(t)
    BY <2>1 DEF CursorDisconnect
  <2>2. CASE CursorLeave(t)
    <3>1. state # "RUNNING" /\ state' = state
      BY <2>2 DEF CursorLeave, At
    <3> QED
      BY <3>1
  <2>3. CASE ~CursorDisconnect(t) /\ ~CursorLeave(t)
    <3>1. /\ UNCHANGED <<state, sub_channel>>
          /\ \E pc \in {"setup", "check", "poll", "update", "clean", "done"} : tpc' = [tpc EXCEPT ![t] = pc]
      BY <1>5, <2>3 DEF CursorStep, CursorStart, CursorSetup, CursorCheck, CursorPoll,
         CursorUpdate, CursorClean, GoTo
    <3>2. \A u \in Threads : tpc'[u] = "leave" => tpc[u] = "leave"
      BY <3>1 DEF TypeOK
    <3> QED
      BY <3>1, <3>2
  <2> QED
    BY <2>1, <2>2, <2>3
<1> QED
  BY <1>1, <1>2, <1>3, <1>4, <1>5 DEF Next, MainRun, MainWait

(* Nothing is asked of a source that has disconnected: a request that main *)
(* sends was decided on before (lp_write.c:681, lpRequestFrame).           *)
NothingAskedAfterDisconnect ==
    [][mpc = "request" /\ mpc' = "await" => ~Disconnected]_vars

(* For threads of any speed, with zeroed memory and failing pthread_create *)
(* in between: the safety half of DisconnectHeeded.                        *)
THEOREM DisconnectRemembered == Spec => NothingAskedAfterDisconnect
<1>1. Init => TypeOK /\ StopRemembered
  BY Initially DEF IInv, Init, StopRemembered, Disconnected
<1>2. TypeOK /\ StopRemembered /\ [Next]_vars => TypeOK' /\ StopRemembered'
  BY Typing, StopStep
<1>3. TypeOK /\ StopRemembered /\ [Next]_vars =>
        [mpc = "request" /\ mpc' = "await" => ~Disconnected]_vars
  <2> SUFFICES ASSUME TypeOK, StopRemembered, Next, mpc = "request", mpc' = "await"
               PROVE  ~Disconnected
    OBVIOUS
  <2>1. MainRequest
    <3>1. ASSUME NEW t \in Threads, CursorStep(t) PROVE FALSE
      BY <3>1, CursorFrame DEF mainVars
    <3> QED
      BY <3>1 DEF Next, MainRun, MainWait, MainQuit, MainTop, MainRestart, MainKeep, MainServe,
         MainRequestRefused, MainShutdown, MainInitHost, MainReinitCursorThread, MainReturn,
         MainJoin, MainDestroyContext, MainExit, MainConnectionError, MainAnswer, MainPollError,
         MainZeroed, Interrupt, CursorCrash, Ended, Destroy
  <2> QED
    BY <2>1 DEF MainRequest, StopRemembered
<1> QED
  BY <1>1, <1>2, <1>3, PTL DEF Spec, NothingAskedAfterDisconnect

-----------------------------------------------------------------------------
(* The join ends. *)

(* How many steps a cursor thread has left once the state is not RUNNING.  *)
LeftAt(pc) ==
    CASE pc \in {"free", "done"}   -> 0
      [] pc = "clean"              -> 1
      [] pc \in {"check", "leave"} -> 2
      [] pc = "update"             -> 3
      [] pc = "poll"               -> 4
      [] pc = "setup"              -> 5
      [] pc = "start"              -> 6
StepsLeft == [t \in Threads |-> LeftAt(tpc[t])]

(* A stop is for good, and from then on every thread only winds down: with *)
(* the state tested at the head of its loop, a thread takes at most six    *)
(* more steps, also when a disconnect or a second stop comes in between.   *)
WindDown ==
    /\ state' # "RUNNING"
    /\ \A t \in Threads : Alive(t) =>
         /\ StepsLeft'[t] <= StepsLeft[t]
         /\ CursorStep(t) => StepsLeft'[t] < StepsLeft[t]

(* Main joins a thread only after it told all of them to stop.             *)
JoinAfterStop == mpc \in {"join", "shutdown"} => state # "RUNNING"

ThreadsWindDown == []JoinAfterStop /\ [][state # "RUNNING" => WindDown]_vars

(* The state never returns to RUNNING, and main joins only after a stop. *)
LEMMA StateStep ==
  ASSUME TypeOK, JoinAfterStop, [Next]_vars
  PROVE  JoinAfterStop' /\ (state # "RUNNING" => state' # "RUNNING")
<1> USE DEF JoinAfterStop
<1>1. CASE MainRun
  BY <1>1 DEF MainRun, MainQuit, MainTop, MainRestart, MainKeep, MainServe, MainRequestRefused,
     MainShutdown, MainInitHost, MainReinitCursorThread, AfterReinit, MainReturn, MainJoin,
     MainDestroyContext, MainExit, Destroy, mainRest
<1>2. CASE MainWait \/ Interrupt \/ (\E t \in Threads : CursorCrash(t)) \/ Ended \/ UNCHANGED vars
  BY <1>2 DEF MainWait, MainConnectionError, MainRequest, MainAnswer, MainPollError, MainZeroed,
     Interrupt, CursorCrash, Ended, Destroy, mainRest, vars, mainVars
<1>3. ASSUME NEW t \in Threads, CursorStep(t)
      PROVE  UNCHANGED mpc /\ state' \in {state, "STOP"}
  BY <1>3 DEF CursorStep, CursorStart, CursorSetup, CursorCheck, CursorPoll, CursorDisconnect,
     CursorLeave, CursorUpdate, CursorClean, mainVars
<1> QED
  BY <1>1, <1>2, <1>3 DEF Next

(* Main leaves a running thread where it is. *)
LEMMA MainLeavesThreads ==
  ASSUME TypeOK, [Next]_vars, \A t \in Threads : ~CursorStep(t),
         NEW t \in Threads, Alive(t)
  PROVE  tpc'[t] = tpc[t]
<1>1. CASE MainRestart \/ MainReinitCursorThread
  BY <1>1 DEF MainRestart, MainReinitCursorThread, CreateThread, Alive, TypeOK
<1>2. CASE MainShutdown \/ MainJoin
  BY <1>2 DEF MainShutdown, MainJoin, Joined, Alive, TypeOK
<1>3. CASE ~(MainRestart \/ MainReinitCursorThread \/ MainShutdown \/ MainJoin)
  BY <1>3 DEF Next, MainRun, MainWait, MainQuit, MainTop, MainKeep, MainServe, MainRequestRefused,
     MainInitHost, MainReturn, MainDestroyContext, MainExit, MainConnectionError, MainRequest,
     MainAnswer, MainPollError, MainZeroed, Interrupt, CursorCrash, Ended, mainRest, vars
<1> QED
  BY <1>1, <1>2, <1>3

(* A step of a thread, with the state not RUNNING, lowers what it has left. *)
LEMMA ThreadLowers ==
  ASSUME TypeOK, state # "RUNNING", NEW t \in Threads, CursorStep(t)
  PROVE  /\ StepsLeft'[t] < StepsLeft[t]
         /\ \A u \in Threads : u # t => StepsLeft'[u] = StepsLeft[u]
<1>1. PICK pc : tpc' = [tpc EXCEPT ![t] = pc]
  BY CursorFrame
<1>2. \A u \in Threads : u # t => tpc'[u] = tpc[u]
  BY <1>1 DEF TypeOK
<1>3. tpc'[t] = pc
  BY <1>1 DEF TypeOK
<1>4. StepsLeft'[t] < StepsLeft[t]
  <2> USE DEF StepsLeft, LeftAt, At, GoTo, TypeOK
  <2>1. CASE CursorStart(t) \/ CursorSetup(t) \/ CursorCheck(t)
    BY <2>1 DEF CursorStart, CursorSetup, CursorCheck
  <2>2. CASE CursorPoll(t)
    BY <2>2 DEF CursorPoll
  <2>3. CASE CursorDisconnect(t) \/ CursorLeave(t)
    BY <2>3 DEF CursorDisconnect, CursorLeave
  <2>4. CASE CursorUpdate(t) \/ CursorClean(t)
    BY <2>4 DEF CursorUpdate, CursorClean
  <2> QED
    BY <2>1, <2>2, <2>3, <2>4 DEF CursorStep
<1> QED
  BY <1>2, <1>4 DEF StepsLeft

(* Every step after a stop only winds down. *)
LEMMA WindDownStep ==
  ASSUME TypeOK, TypeOK', JoinAfterStop, [Next]_vars, state # "RUNNING"
  PROVE  WindDown
<1>1. state' # "RUNNING"
  BY StateStep
<1>2. ASSUME NEW t \in Threads, Alive(t)
      PROVE  /\ StepsLeft'[t] <= StepsLeft[t]
             /\ CursorStep(t) => StepsLeft'[t] < StepsLeft[t]
  <2>a. StepsLeft[t] \in 0 .. 6
    BY DEF StepsLeft, LeftAt, TypeOK
  <2>b. StepsLeft'[t] \in 0 .. 6
    BY DEF StepsLeft, LeftAt, TypeOK
  <2>1. CASE CursorStep(t)
    <3>1. StepsLeft'[t] < StepsLeft[t]
      BY <2>1, ThreadLowers
    <3> QED
      BY <2>a, <2>b, <3>1
  <2>2. CASE ~CursorStep(t) /\ \E u \in Threads : CursorStep(u)
    <3>1. StepsLeft'[t] = StepsLeft[t]
      BY <2>2, ThreadLowers
    <3> QED
      BY <2>2, <2>a, <3>1
  <2>3. CASE \A u \in Threads : ~CursorStep(u)
    <3>1. tpc'[t] = tpc[t]
      BY <1>2, <2>3, MainLeavesThreads
    <3>2. StepsLeft'[t] = StepsLeft[t]
      BY <3>1 DEF StepsLeft
    <3> QED
      BY <2>3, <2>a, <3>2
  <2> QED
    BY <2>1, <2>2, <2>3
<1> QED
  BY <1>1, <1>2 DEF WindDown

(* For any number of threads of any speed: the safety half of JoinEnds.    *)
THEOREM StoppedThreadsWindDown == Spec => ThreadsWindDown
<1>1. Init => TypeOK /\ JoinAfterStop
  BY Initially DEF IInv, Init, JoinAfterStop
<1>2. TypeOK /\ JoinAfterStop /\ [Next]_vars => TypeOK' /\ JoinAfterStop'
  BY Typing, StateStep
<1>3. TypeOK /\ TypeOK' /\ JoinAfterStop /\ [Next]_vars => [state # "RUNNING" => WindDown]_vars
  BY WindDownStep
<1> QED
  BY <1>1, <1>2, <1>3, PTL DEF Spec, ThreadsWindDown
=============================================================================
