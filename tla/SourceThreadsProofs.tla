------------------------- MODULE SourceThreadsProofs -------------------------
(***************************************************************************)
(* Proofs about SourceThreads, for any set of threads.                     *)
(***************************************************************************)
EXTENDS SourceThreads, Integers, TLAPS

(* What a step of a cursor thread leaves to the others. *)
LEMMA CursorFrame ==
  ASSUME TypeOK, NEW t \in Threads, CursorStep(t)
  PROVE  /\ UNCHANGED <<thread, client_ctx, flag, state>>
         /\ spc # "end" /\ Alive(t)
         /\ spc' \in {spc, "end"}
         /\ thread_flags' \in {"T_RUNNING", "T_ERR", "T_STOP"}
         /\ \/ tpc' = tpc /\ sub_channel' = sub_channel
            \/ \E pc \in {"setup", "check", "get", "keepalive", "send", "bye", "drop", "done"} :
                 /\ tpc' = [tpc EXCEPT ![t] = pc] /\ sub_channel' = sub_channel
                 /\ tpc[t] = "clean" => pc = "done"
            \/ tpc' = [tpc EXCEPT ![t] = "clean"] /\ sub_channel' = "null"
<1> USE DEF At, GoTo, Fail, Alive, TypeOK, mainVars
<1>1. CASE CursorStart(t) \/ CursorSetup(t) \/ CursorCheck(t)
  BY <1>1 DEF CursorStart, CursorSetup, CursorCheck
<1>2. CASE CursorGet(t)
  BY <1>2 DEF CursorGet
<1>3. CASE CursorKeepAlive(t) \/ CursorSend(t)
  BY <1>3 DEF CursorKeepAlive, CursorSend
<1>4. CASE CursorBye(t) \/ CursorDrop(t) \/ CursorClean(t)
  BY <1>4 DEF CursorBye, CursorDrop, CursorClean
<1> QED
  BY <1>1, <1>2, <1>3, <1>4 DEF CursorStep

(* Every step keeps the types. *)
LEMMA Typing == TypeOK /\ [Next]_vars => TypeOK'
<1> SUFFICES ASSUME TypeOK, [Next]_vars PROVE TypeOK'
  OBVIOUS
<1> USE NoThreadAssumption DEF TypeOK
<1>1. CASE Accept \/ AcceptFails \/ OpenChannel \/ Interrupt
  BY <1>1 DEF Accept, AcceptFails, OpenChannel, Interrupt, mainRest, Again
<1>2. CASE Setup \/ Quit \/ Continue \/ Poll \/ ProcessChannel
  BY <1>2 DEF Setup, Quit, Continue, Poll, ProcessChannel, mainRest, Again
<1>3. CASE CreateThread
  BY <1>3 DEF CreateThread
<1>4. CASE SetPollRate \/ Frame \/ StopThread \/ DestroyClient
  BY <1>4 DEF SetPollRate, Frame, StopThread, DestroyClient, mainRest, Again
<1>5. CASE Join
  BY <1>5 DEF Join
<1>6. ASSUME NEW t \in Threads, CursorStep(t) PROVE TypeOK'
  BY <1>6, CursorFrame
<1>7. CASE Ended \/ UNCHANGED vars
  BY <1>7 DEF Ended, vars, mainVars
<1> QED
  BY <1>1, <1>2, <1>3, <1>4, <1>5, <1>6, <1>7 DEF Next, Session

(* When every failure goes through destroy_ctx, every step keeps a session *)
(* to its own thread and a thread to its subchannel.                       *)
LEMMA SessionStep ==
  ASSUME [NothingSkipped]_vars, IInv, [Next]_vars
  PROVE  IInv'
<1> DEFINE Rest == /\ ThreadIsOurs /\ ThreadHasChannel
                   /\ spc = "create" => sub_channel = "open"
                   /\ spc = "accept" => client_ctx = "null"
<1>1. TypeOK'
  BY Typing DEF IInv
<1>2. Rest'
  <2> USE NoThreadAssumption DEF IInv, ThreadIsOurs, ThreadHasChannel, Alive
  <2>1. CASE Accept \/ AcceptFails \/ Interrupt
    BY <2>1 DEF Accept, AcceptFails, Interrupt, mainRest, Again
  <2>2. CASE OpenChannel \/ ProcessChannel
    BY <2>2 DEF OpenChannel, ProcessChannel
  <2>3. CASE Setup \/ Quit \/ Continue \/ Poll
    BY <2>3 DEF Setup, Quit, Continue, Poll, mainRest, Again, NothingSkipped, vars, mainVars
  <2>4. CASE CreateThread
    BY <2>4 DEF CreateThread, TypeOK
  <2>5. CASE SetPollRate \/ Frame \/ StopThread
    BY <2>5 DEF SetPollRate, Frame, StopThread, mainRest, Again, NothingSkipped, vars, mainVars
  <2>6. CASE Join
    BY <2>6 DEF Join, TypeOK
  <2>7. CASE DestroyClient
    BY <2>7 DEF DestroyClient, mainRest, Again
  <2>8. ASSUME NEW t \in Threads, CursorStep(t) PROVE Rest'
    BY <2>8, CursorFrame DEF TypeOK
  <2>9. CASE Ended \/ UNCHANGED vars
    BY <2>9 DEF Ended, vars, mainVars
  <2> QED
    BY <2>1, <2>2, <2>3, <2>4, <2>5, <2>6, <2>7, <2>8, <2>9 DEF Next, Session
<1> QED
  BY <1>1, <1>2 DEF IInv

(* No thread and no client at first. *)
LEMMA Initially == Init => IInv
BY NoThreadAssumption DEF Init, IInv, TypeOK, ThreadIsOurs, ThreadHasChannel, Alive

(* Every variable of the source's threads keeps its type. *)
THEOREM TypeCorrect == Spec => []TypeOK
<1>1. Init => TypeOK
  BY Initially DEF IInv
<1> QED
  BY <1>1, Typing, PTL DEF Spec

(* As long as every failure of a session goes through destroy_ctx, nothing *)
(* of a session is left when the next client is accepted.                  *)
THEOREM NothingLeftOver ==
  Spec /\ [][NothingSkipped]_vars => []SessionCleaned
<1>1. IInv => SessionCleaned
  BY DEF IInv, ThreadIsOurs, SessionCleaned
<1> QED
  BY <1>1, Initially, SessionStep, PTL DEF Spec

(* Under the same assumption, a cursor thread never uses a subchannel that *)
(* was taken from under it, whatever the order of its steps and main's.    *)
THEOREM ChannelNeverTaken ==
  Spec /\ [][NothingSkipped]_vars => []ChannelInUse
<1>1. IInv => ChannelInUse
  BY DEF IInv, ThreadHasChannel, ChannelInUse, Alive
<1> QED
  BY <1>1, Initially, SessionStep, PTL DEF Spec

(* Where no call fails on an early return, every step is one of            *)
(* NothingSkipped. *)
LEMMA NothingSkippedWithoutEarlyReturn ==
  ASSUME ~EarlyReturn, [Next]_vars
  PROVE  [NothingSkipped]_vars
<1>1. CASE Session \/ Accept \/ AcceptFails \/ OpenChannel \/ Interrupt \/ Ended
  BY <1>1 DEF Session, Setup, Quit, Continue, Poll, ProcessChannel, CreateThread, SetPollRate,
     Frame, StopThread, Join, DestroyClient, Accept, AcceptFails, OpenChannel, Interrupt, Ended,
     NothingSkipped
<1>2. ASSUME NEW t \in Threads, CursorStep(t) PROVE spc' \in {spc, "end"}
  BY <1>2 DEF CursorStep, CursorStart, CursorSetup, CursorCheck, CursorGet, CursorKeepAlive,
     CursorSend, CursorBye, CursorDrop, CursorClean, mainVars
<1> QED
  BY <1>1, <1>2 DEF Next, NothingSkipped

-----------------------------------------------------------------------------
(* Refinement of SoleWorker.                                               *)

(* The client's context is there for the whole of a session. *)
ContextKept == spc \notin {"accept", "end"} => client_ctx = "open"

(* Every step keeps the client's context through the session. *)
LEMMA ContextStep ==
  ASSUME TypeOK, ContextKept, [Next]_vars
  PROVE  ContextKept'
<1> USE DEF ContextKept
<1>1. CASE Session
  BY <1>1 DEF Session, Setup, Quit, Continue, Poll, ProcessChannel, CreateThread, SetPollRate,
     Frame, StopThread, Join, DestroyClient, Again
<1>2. CASE Accept \/ AcceptFails \/ OpenChannel \/ Interrupt \/ Ended \/ UNCHANGED vars
  BY <1>2 DEF Accept, AcceptFails, OpenChannel, Interrupt, Ended, vars, mainVars
<1>3. ASSUME NEW t \in Threads, CursorStep(t) PROVE ContextKept'
  BY <1>3, CursorFrame
<1> QED
  BY <1>1, <1>2, <1>3 DEF Next

(* Every step is a step of SoleWorker or a stutter. *)
LEMMA WorkerStep ==
  ASSUME IInv, TypeOK', ContextKept, [Next]_vars
  PROVE  [Hand!WNext]_(Hand!wvars)
<1> USE DEF IInv
<1>1. CASE \/ Setup \/ Quit \/ Continue \/ Poll \/ OpenChannel \/ ProcessChannel \/ SetPollRate
           \/ Frame \/ StopThread \/ AcceptFails \/ Interrupt \/ Ended \/ UNCHANGED vars
  <2>1. UNCHANGED <<tpc, client_ctx>> /\ (spc = "end" => spc' = "end")
    BY <1>1 DEF Setup, Quit, Continue, Poll, OpenChannel, ProcessChannel, SetPollRate, Frame,
       StopThread, AcceptFails, Interrupt, Ended, mainRest, Again, vars, mainVars
  <2>2. Working' = {} \/ Working' = Working
    BY <2>1 DEF Working, Alive
  <2> QED
    BY <2>1, <2>2 DEF Hand!WNext, Hand!Finish, Hand!wvars
<1>2. CASE Accept \/ DestroyClient
  <2>1. (\A t \in Threads : ~Alive(t)) /\ tpc' = tpc
    BY <1>2 DEF Accept, DestroyClient, ThreadIsOurs, mainRest, Again
  <2>2. Working = {} /\ Working' = {}
    BY <2>1 DEF Working, Alive
  <2>3. client_ctx \in {"null", "open"} /\ client_ctx' \in {"null", "open"}
    BY DEF TypeOK
  <2> QED
    BY <2>2, <2>3 DEF Hand!WNext, Hand!Acquire, Hand!Release, Hand!Idle, Hand!wvars
<1>3. CASE CreateThread
  <2>1. (\A t \in Threads : ~Alive(t)) /\ spc' # "end" /\ client_ctx = "open" /\ client_ctx' = "open"
    BY <1>3 DEF CreateThread, ThreadIsOurs, ContextKept
  <2>2. Working = {}
    BY <2>1 DEF Working
  <2>3. CASE tpc' = tpc
    BY <2>1, <2>2, <2>3 DEF Working, Alive, Hand!wvars
  <2>4. CASE tpc' # tpc
    <3>1. PICK t \in Threads : tpc' = [tpc EXCEPT ![t] = "start"]
      BY <1>3, <2>4 DEF CreateThread
    <3>2. Working' = {t}
      BY <2>1, <3>1 DEF Working, Alive, TypeOK
    <3> QED
      BY <2>1, <2>2, <3>2 DEF Hand!WNext, Hand!Start, Hand!Idle
  <2> QED
    BY <2>3, <2>4
<1>4. CASE Join
  <2>1. UNCHANGED client_ctx /\ spc = "join" /\ spc' = "clean"
    BY <1>4 DEF Join
  <2>2. \A t \in Threads : ~Alive(t) /\ ~Alive(t)'
    BY <1>4, NoThreadAssumption DEF Join, ThreadIsOurs, Alive, TypeOK
  <2>3. Working = {} /\ Working' = {}
    BY <2>2 DEF Working
  <2> QED
    BY <2>1, <2>3 DEF Hand!wvars
<1>5. ASSUME NEW t \in Threads, CursorStep(t) PROVE [Hand!WNext]_(Hand!wvars)
  <2>1. /\ UNCHANGED client_ctx /\ spc # "end" /\ Alive(t)
        /\ \A u \in Threads : u # t => tpc'[u] = tpc[u]
    BY <1>5, CursorFrame DEF TypeOK
  <2>2. Working = {t}
    BY <2>1 DEF Working, ThreadIsOurs
  <2>3. Working' = {} \/ Working' = {t}
    BY <2>1, <2>2 DEF Working, Alive
  <2> QED
    BY <2>1, <2>2, <2>3 DEF Hand!WNext, Hand!Finish, Hand!wvars
<1> QED
  BY <1>1, <1>2, <1>3, <1>4, <1>5 DEF Next, Session

(* As long as no failure skips destroy_ctx, the threads of the source      *)
(* implement SoleWorker, session after session.                            *)
THEOREM Refinement == Spec /\ [][NothingSkipped]_vars => ImplementsSoleWorker
<1>1. Init => Hand!WInit /\ ContextKept
  <2> SUFFICES ASSUME Init PROVE Hand!WInit /\ ContextKept
    OBVIOUS
  <2>1. Working = {} /\ client_ctx = "null"
    BY DEF Init, Working, Alive
  <2> QED
    BY <2>1 DEF Hand!WInit, Hand!Idle, Init, ContextKept
<1>2. IInv /\ [Next]_vars /\ [NothingSkipped]_vars => IInv'
  BY SessionStep
<1>3. IInv /\ ContextKept /\ [Next]_vars => ContextKept'
  BY ContextStep DEF IInv
<1>4. IInv /\ IInv' /\ ContextKept /\ [Next]_vars => [Hand!WNext]_(Hand!wvars)
  BY WorkerStep DEF IInv
<1> QED
  BY <1>1, <1>2, <1>3, <1>4, Initially, PTL DEF Spec, ImplementsSoleWorker, Hand!WSpec

-----------------------------------------------------------------------------
(* An error ends the session.                                              *)

(* An error in thread_flags while a session has a cursor thread was        *)
(* reported by that thread, which is on its way out; and a session that    *)
(* finds one before it has a thread does not come to open the subchannel.  *)
ErrorTruthful ==
    /\ thread_flags = "T_ERR" =>
         /\ \A t \in Threads : Alive(t) => tpc[t] \in {"bye", "drop", "clean"}
         /\ spc \in {"poll", "open", "create", "get", "frame"} => thread # NoThread
    /\ spc \in {"open", "create"} => thread = NoThread

(* What a cursor thread does to thread_flags. *)
LEMMA CursorFlags ==
  ASSUME TypeOK, NEW t \in Threads, CursorStep(t)
  PROVE  /\ thread_flags' = "T_ERR" =>
              \/ tpc' = [tpc EXCEPT ![t] = "bye"]
              \/ thread_flags = "T_ERR" /\ tpc[t] # "start"
         /\ thread_flags = "T_ERR" /\ tpc[t] # "start" => thread_flags' = "T_ERR"
         /\ tpc[t] \in {"bye", "drop", "clean"} =>
              \E pc \in {"drop", "clean", "done"} : tpc' = [tpc EXCEPT ![t] = pc]
<1> USE DEF At, GoTo, Fail, TypeOK, mainVars
<1>1. CASE CursorStart(t) \/ CursorSetup(t) \/ CursorCheck(t)
  BY <1>1 DEF CursorStart, CursorSetup, CursorCheck
<1>2. CASE CursorGet(t)
  BY <1>2 DEF CursorGet
<1>3. CASE CursorKeepAlive(t) \/ CursorSend(t)
  BY <1>3 DEF CursorKeepAlive, CursorSend
<1>4. CASE CursorBye(t) \/ CursorDrop(t) \/ CursorClean(t)
  BY <1>4 DEF CursorBye, CursorDrop, CursorClean
<1> QED
  BY <1>1, <1>2, <1>3, <1>4 DEF CursorStep

(* Every step keeps ErrorTruthful. *)
LEMMA ErrorStep ==
  ASSUME IInv, IInv', ErrorTruthful, [Next]_vars
  PROVE  ErrorTruthful'
<1> USE NoThreadAssumption DEF ErrorTruthful, IInv
<1>1. CASE Accept \/ AcceptFails \/ Interrupt \/ Ended \/ UNCHANGED vars
  <2>1. UNCHANGED <<tpc, thread_flags>> /\ \A t \in Threads : Alive(t)' = Alive(t)
    BY <1>1 DEF Accept, AcceptFails, Interrupt, Ended, mainRest, Again, vars, mainVars, Alive
  <2>2. CASE Accept
    BY <2>1, <2>2 DEF Accept
  <2>3. CASE ~Accept
    <3>1. UNCHANGED thread /\ spc' \in {spc, "end"}
      BY <1>1, <2>3 DEF AcceptFails, Interrupt, Ended, mainRest, Again, vars, mainVars
    <3> QED
      BY <2>1, <3>1
  <2> QED
    BY <2>2, <2>3
<1>2. CASE Setup \/ Quit \/ Continue \/ Poll
  BY <1>2 DEF Setup, Quit, Continue, Poll, mainRest, Again, Alive
<1>3. CASE OpenChannel \/ ProcessChannel \/ SetPollRate \/ Frame
  BY <1>3 DEF OpenChannel, ProcessChannel, SetPollRate, Frame, mainRest, Again, Alive
<1>4. CASE CreateThread
  <2>1. thread_flags' # "T_ERR" /\ spc' \in {"opened", "stop"}
    BY <1>4 DEF CreateThread
  <2> QED
    BY <2>1
<1>5. CASE StopThread \/ Join \/ DestroyClient
  BY <1>5 DEF StopThread, Join, DestroyClient, mainRest, Again, Alive, TypeOK
<1>6. ASSUME NEW t \in Threads, CursorStep(t) PROVE ErrorTruthful'
  <2>1. /\ UNCHANGED thread /\ Alive(t) /\ spc' \in {spc, "end"}
        /\ \A u \in Threads : u # t => tpc'[u] = tpc[u]
    BY <1>6, CursorFrame DEF TypeOK
  <2>2. t = thread /\ \A u \in Threads : Alive(u) => u = t
    BY <2>1 DEF ThreadIsOurs
  <2>3. \A u \in Threads : Alive(u)' => u = t
    BY <2>1, <2>2 DEF Alive
  <2>4. ASSUME thread_flags' = "T_ERR", Alive(t)'
        PROVE  tpc'[t] \in {"bye", "drop", "clean"}
    <3>1. CASE tpc' = [tpc EXCEPT ![t] = "bye"]
      BY <3>1 DEF TypeOK
    <3>2. CASE thread_flags = "T_ERR"
      <4>1. PICK pc \in {"drop", "clean", "done"} : tpc' = [tpc EXCEPT ![t] = pc]
        BY <1>6, <2>1, <3>2, CursorFlags
      <4> QED
        BY <2>4, <4>1 DEF Alive, TypeOK
    <3> QED
      BY <1>6, <2>4, <3>1, <3>2, CursorFlags
  <2>5. thread' # NoThread
    BY <2>1, <2>2
  <2>6. spc' \notin {"open", "create"}
    BY <2>1, <2>2 DEF ThreadIsOurs
  <2> QED
    BY <2>3, <2>4, <2>5, <2>6
<1> QED
  BY <1>1, <1>2, <1>3, <1>4, <1>5, <1>6 DEF Next, Session

(* The session has seen the error of its thread, or is being torn down.    *)
Ending ==
    \/ thread_flags = "T_ERR" /\ thread # NoThread /\ spc \in {"opened", "poll", "frame", "loop", "get"}
    \/ spc \in {"stop", "join", "clean"}

(* How many of its own steps main still takes before it accepts again.     *)
EndRank == CASE spc \in {"accept", "end"}   -> 0
             [] spc = "clean"               -> 1
             [] spc = "join"                -> 2
             [] spc = "stop"                -> 3
             [] spc \in {"loop", "get"}     -> 4
             [] spc \in {"poll", "frame"}   -> 5
             [] spc = "opened"              -> 6
             [] OTHER                       -> 7

ErrorEndsStep ==
    /\ Ending' \/ spc' \in {"accept", "end"}
    /\ EndRank' <= EndRank
    /\ Session => EndRank' < EndRank
ErrorLeadsToEnd == [][Ending => ErrorEndsStep]_vars

(* Every step after an error brings the session nearer to its end. *)
LEMMA EndingStep ==
  ASSUME IInv, ErrorTruthful, [Next]_vars, Ending
  PROVE  ErrorEndsStep
<1> USE DEF ErrorEndsStep, Ending
<1>a. EndRank \in 1 .. 6
  BY DEF EndRank, Ending
<1>1. CASE Accept \/ Setup \/ OpenChannel \/ ProcessChannel \/ CreateThread \/ Continue
  BY <1>1 DEF Accept, Setup, OpenChannel, ProcessChannel, CreateThread, Continue
<1>2. CASE AcceptFails \/ Ended
  BY <1>2 DEF AcceptFails, Ended
<1>3. CASE Quit \/ Poll \/ SetPollRate \/ Frame
  <2>1. UNCHANGED <<thread, thread_flags>>
    BY <1>3 DEF Quit, Poll, SetPollRate, Frame, mainRest, Again
  <2>2. \/ spc \in {"loop", "get"} /\ spc' = "stop"
        \/ spc = "poll" /\ spc' \in {"loop", "get", "stop"}
        \/ spc = "opened" /\ spc' \in {"loop", "end"}
        \/ spc = "frame" /\ spc' \in {"get", "loop", "stop", "accept", "end"}
    BY <1>3 DEF Quit, Poll, SetPollRate, Frame, Again
  <2> QED
    BY <2>1, <2>2 DEF EndRank
<1>4. CASE StopThread \/ Join \/ DestroyClient
  <2>1. \/ spc = "stop" /\ spc' = "join"
        \/ spc = "join" /\ spc' = "clean"
        \/ spc = "clean" /\ spc' \in {"accept", "end"}
    BY <1>4 DEF StopThread, Join, DestroyClient, Again
  <2> QED
    BY <2>1 DEF EndRank
<1>5. CASE Interrupt
  <2>1. UNCHANGED <<thread, thread_flags>> /\ spc' \in {spc, "end"}
    BY <1>5 DEF Interrupt
  <2>2. EndRank' <= EndRank
    BY <1>a, <2>1 DEF EndRank
  <2>3. Session => EndRank' < EndRank
    BY <1>1, <1>3, <1>4 DEF Session
  <2> QED
    BY <2>1, <2>2, <2>3
<1>6. ASSUME NEW t \in Threads, CursorStep(t) PROVE ErrorEndsStep
  <2>1. UNCHANGED thread /\ Alive(t) /\ spc' \in {spc, "end"} /\ spc # "end"
    BY <1>6, CursorFrame DEF IInv
  <2>2. thread_flags = "T_ERR" => tpc[t] # "start"
    BY <2>1 DEF ErrorTruthful
  <2>3. thread_flags = "T_ERR" => thread_flags' = "T_ERR"
    BY <1>6, <2>2, CursorFlags DEF IInv
  <2>4. EndRank' <= EndRank
    BY <1>a, <2>1 DEF EndRank
  <2>5. Session => EndRank' < EndRank
    BY <1>3, <1>4, <1>1 DEF Session
  <2> QED
    BY <2>1, <2>3, <2>4, <2>5
<1>7. CASE UNCHANGED vars
  <2>1. UNCHANGED <<thread, thread_flags, spc>>
    BY <1>7 DEF vars, mainVars
  <2>2. ~Session
    BY <2>1 DEF Session, Setup, Quit, Continue, Poll, ProcessChannel, CreateThread,
       SetPollRate, Frame, StopThread, Join, DestroyClient, Again
  <2> QED
    BY <1>a, <2>1, <2>2 DEF EndRank
<1> QED
  BY <1>1, <1>2, <1>3, <1>4, <1>5, <1>6, <1>7 DEF Next, Session

(* Once its cursor thread has reported an error, a session goes straight   *)
(* to its end, through any step of the thread: at most six more steps of   *)
(* main.  This is the safety half of ErrorEndsSession.                     *)
THEOREM ErrorHeeded == Spec /\ [][NothingSkipped]_vars => ErrorLeadsToEnd
<1>1. Init => ErrorTruthful
  BY DEF Init, ErrorTruthful
<1>2. IInv /\ [Next]_vars /\ [NothingSkipped]_vars => IInv'
  BY SessionStep
<1>3. IInv /\ IInv' /\ ErrorTruthful /\ [Next]_vars => ErrorTruthful'
  BY ErrorStep
<1>4. IInv /\ ErrorTruthful /\ [Next]_vars => [Ending => ErrorEndsStep]_vars
  BY EndingStep
<1> QED
  BY <1>1, <1>2, <1>3, <1>4, Initially, PTL DEF Spec, ErrorLeadsToEnd

-----------------------------------------------------------------------------
(* The join ends.                                                          *)

(* When main waits in pthread_join, every thread has begun, and will see   *)
(* the stop or has already failed.                                         *)
StopSeen ==
    spc = "join" => \A t \in Threads : Alive(t) =>
        /\ tpc[t] # "start"
        /\ thread_flags = "T_STOP" \/ tpc[t] \in {"bye", "drop", "clean"}

(* How many steps a cursor thread has left once it has been told to stop.  *)
LeftAt(pc) ==
    CASE pc \in {"free", "done"}      -> 0
      [] pc = "clean"                 -> 1
      [] pc = "drop"                  -> 2
      [] pc = "bye"                   -> 3
      [] pc = "check"                 -> 4
      [] pc \in {"send", "keepalive"} -> 5
      [] pc = "get"                   -> 6
      [] pc = "setup"                 -> 7
      [] pc = "start"                 -> 8
StepsLeft == [t \in Threads |-> LeftAt(tpc[t])]

(* While main waits, every step of the thread brings it nearer to its end, *)
(* and nobody takes it back.                                               *)
WindDown ==
    \A t \in Threads : Alive(t) =>
        /\ StepsLeft'[t] <= StepsLeft[t]
        /\ CursorStep(t) => StepsLeft'[t] < StepsLeft[t] \/ spc' = "end"
JoinWindsDown == []StopSeen /\ [][spc = "join" => WindDown]_vars

(* A step of a thread that was told to stop. *)
LEMMA ThreadLowers ==
  ASSUME TypeOK, NEW t \in Threads, CursorStep(t), tpc[t] # "start",
         thread_flags = "T_STOP" \/ tpc[t] \in {"bye", "drop", "clean"}
  PROVE  /\ StepsLeft'[t] < StepsLeft[t] \/ (spc' = "end" /\ tpc' = tpc)
         /\ thread_flags' = "T_STOP" \/ tpc'[t] \in {"bye", "drop", "clean", "done"}
         /\ tpc'[t] # "start"
<1> USE DEF StepsLeft, LeftAt, At, GoTo, Fail, TypeOK, mainVars
<1>1. CASE CursorStart(t) \/ CursorSetup(t) \/ CursorCheck(t)
  BY <1>1 DEF CursorStart, CursorSetup, CursorCheck
<1>2. CASE CursorGet(t)
  <2>1. CASE tpc' = tpc
    BY <1>2, <2>1 DEF CursorGet
  <2>2. CASE tpc' # tpc
    <3>1. PICK pc \in {"send", "check", "keepalive", "bye"} :
             /\ tpc[t] = "get" /\ tpc' = [tpc EXCEPT ![t] = pc]
             /\ pc # "bye" => UNCHANGED thread_flags
      BY <1>2, <2>2 DEF CursorGet
    <3> QED
      BY <3>1
  <2> QED
    BY <2>1, <2>2
<1>3. CASE CursorKeepAlive(t) \/ CursorSend(t)
  BY <1>3 DEF CursorKeepAlive, CursorSend
<1>4. CASE CursorBye(t) \/ CursorDrop(t) \/ CursorClean(t)
  BY <1>4 DEF CursorBye, CursorDrop, CursorClean
<1> QED
  BY <1>1, <1>2, <1>3, <1>4 DEF CursorStep

(* Every step keeps StopSeen. *)
LEMMA StopStep ==
  ASSUME [PromptStart]_vars, IInv, StopSeen, [Next]_vars
  PROVE  StopSeen'
<1> USE DEF IInv, StopSeen
<1>1. CASE StopThread
  <2>1. thread_flags' = "T_STOP" /\ tpc' = tpc /\ \A t \in Threads : tpc[t] # "start"
    BY <1>1 DEF StopThread, PromptStart, vars, mainVars
  <2> QED
    BY <2>1
<1>2. CASE \/ Accept \/ AcceptFails \/ OpenChannel \/ Setup \/ Quit \/ Continue \/ Poll
           \/ ProcessChannel \/ CreateThread \/ SetPollRate \/ Frame \/ Join \/ DestroyClient
  BY <1>2 DEF Accept, AcceptFails, OpenChannel, Setup, Quit, Continue, Poll, ProcessChannel,
     CreateThread, SetPollRate, Frame, Join, DestroyClient, Again
<1>3. CASE Interrupt \/ Ended \/ UNCHANGED vars
  <2>1. UNCHANGED <<tpc, thread_flags>> /\ spc' \in {spc, "end"}
    BY <1>3 DEF Interrupt, Ended, vars, mainVars
  <2> QED
    BY <2>1 DEF Alive
<1>4. ASSUME NEW t \in Threads, CursorStep(t), spc' = "join" PROVE StopSeen'
  <2>1. /\ Alive(t) /\ spc = "join"
        /\ \A u \in Threads : u # t => tpc'[u] = tpc[u]
    BY <1>4, CursorFrame DEF TypeOK
  <2>2. \A u \in Threads : Alive(u) => u = t
    BY <2>1 DEF ThreadIsOurs
  <2>3. /\ thread_flags' = "T_STOP" \/ tpc'[t] \in {"bye", "drop", "clean", "done"}
        /\ tpc'[t] # "start"
    BY <1>4, <2>1, ThreadLowers
  <2>4. \A u \in Threads : Alive(u)' => u = t
    BY <2>1, <2>2 DEF Alive
  <2> QED
    BY <2>3, <2>4 DEF Alive
<1> QED
  BY <1>1, <1>2, <1>3, <1>4 DEF Next, Session

(* Main leaves a running thread where it is. *)
LEMMA MainLeavesThreads ==
  ASSUME TypeOK, [Next]_vars, \A t \in Threads : ~CursorStep(t),
         NEW t \in Threads, Alive(t)
  PROVE  tpc'[t] = tpc[t]
<1>1. CASE CreateThread \/ Join
  BY <1>1 DEF CreateThread, Join, Alive, TypeOK
<1>2. CASE ~(CreateThread \/ Join)
  BY <1>2 DEF Next, Session, Accept, AcceptFails, OpenChannel, Setup, Quit, Continue, Poll,
     ProcessChannel, SetPollRate, Frame, StopThread, DestroyClient, Interrupt, Ended, mainRest, Again,
     vars
<1> QED
  BY <1>1, <1>2

(* Every step during the join only winds down. *)
LEMMA WindDownStep ==
  ASSUME IInv, TypeOK', StopSeen, [Next]_vars, spc = "join"
  PROVE  WindDown
<1> SUFFICES ASSUME NEW t \in Threads, Alive(t)
             PROVE  /\ StepsLeft'[t] <= StepsLeft[t]
                    /\ CursorStep(t) => StepsLeft'[t] < StepsLeft[t] \/ spc' = "end"
  BY DEF WindDown
<1>a. StepsLeft[t] \in 0 .. 8
  BY DEF StepsLeft, LeftAt, IInv, TypeOK
<1>b. StepsLeft'[t] \in 0 .. 8
  BY DEF StepsLeft, LeftAt, TypeOK
<1>c. tpc'[t] = tpc[t] => StepsLeft'[t] = StepsLeft[t]
  BY DEF StepsLeft
<1>1. CASE CursorStep(t)
  <2>1. StepsLeft'[t] < StepsLeft[t] \/ (spc' = "end" /\ tpc' = tpc)
    BY <1>1, ThreadLowers DEF StopSeen, IInv
  <2> QED
    BY <1>a, <1>b, <1>c, <2>1
<1>2. CASE ~CursorStep(t) /\ \E u \in Threads : CursorStep(u)
  <2>1. FALSE
    BY <1>2, CursorFrame DEF IInv, ThreadIsOurs
  <2> QED
    BY <2>1
<1>3. CASE \A u \in Threads : ~CursorStep(u)
  <2>1. tpc'[t] = tpc[t]
    BY <1>3, MainLeavesThreads DEF IInv
  <2> QED
    BY <1>3, <1>a, <1>c, <2>1
<1> QED
  BY <1>1, <1>2, <1>3

(* As long as main does not stop a thread that has yet to take its first   *)
(* step, the thread it joins takes at most seven more steps: the safety    *)
(* half of JoinEnds.                                                       *)
THEOREM JoinedThreadWindsDown ==
  Spec /\ [][NothingSkipped]_vars /\ [][PromptStart]_vars => JoinWindsDown
<1>1. Init => StopSeen
  BY DEF Init, StopSeen
<1>2. IInv /\ [Next]_vars /\ [NothingSkipped]_vars => IInv'
  BY SessionStep
<1>3. IInv /\ StopSeen /\ [Next]_vars /\ [PromptStart]_vars => StopSeen'
  BY StopStep
<1>4. IInv /\ IInv' /\ StopSeen /\ [Next]_vars => [spc = "join" => WindDown]_vars
  BY WindDownStep DEF IInv
<1> QED
  BY <1>1, <1>2, <1>3, <1>4, Initially, PTL DEF Spec, JoinWindsDown

(* Where main waits for a thread's first step, every step is a prompt one. *)
LEMMA PromptWithoutSlowStart ==
  ASSUME ~SlowStart, [Next]_vars
  PROVE  [PromptStart]_vars
<1>1. CASE Session \/ Accept \/ AcceptFails \/ OpenChannel \/ Interrupt \/ Ended
  BY <1>1 DEF Session, Setup, Quit, Continue, Poll, ProcessChannel, CreateThread, SetPollRate,
     Frame, StopThread, Join, DestroyClient, Accept, AcceptFails, OpenChannel, Interrupt, Ended,
     PromptStart
<1>2. ASSUME NEW t \in Threads, CursorStep(t) PROVE spc' \in {spc, "end"}
  BY <1>2 DEF CursorStep, CursorStart, CursorSetup, CursorCheck, CursorGet, CursorKeepAlive,
     CursorSend, CursorBye, CursorDrop, CursorClean, mainVars
<1> QED
  BY <1>1, <1>2 DEF Next, PromptStart

-----------------------------------------------------------------------------
(* The ways a session can end the program.                                 *)

(* A session is set up and streams only while the state is RUNNING, and it *)
(* has a thread when it sets its poll rate.                                *)
StreamingRuns ==
    /\ spc \in {"loop", "poll", "open", "create", "opened", "get", "frame"} => state = "RUNNING"
    /\ spc = "opened" => thread \in Threads /\ tpc[thread] # "free"

(* Every step keeps StreamingRuns. *)
LEMMA StreamingStep ==
  ASSUME TypeOK, StreamingRuns, [Next]_vars
  PROVE  StreamingRuns'
<1> USE DEF StreamingRuns
<1>1. CASE Session /\ ~CreateThread
  BY <1>1 DEF Session, Setup, Quit, Continue, Poll, ProcessChannel, SetPollRate,
     Frame, StopThread, Join, DestroyClient, mainRest, Again
<1>2. CASE CreateThread
  BY <1>2 DEF CreateThread, TypeOK
<1>3. CASE Accept \/ AcceptFails \/ OpenChannel \/ Interrupt \/ Ended \/ UNCHANGED vars
  BY <1>3 DEF Accept, AcceptFails, OpenChannel, Interrupt, Ended, mainRest, Again, vars, mainVars
<1>4. ASSUME NEW t \in Threads, CursorStep(t) PROVE StreamingRuns'
  BY <1>4, CursorFrame DEF TypeOK
<1> QED
  BY <1>1, <1>2, <1>3, <1>4 DEF Next

(* A step that ends the program in a session has one of the causes. *)
LEMMA CrashStep ==
  ASSUME IInv, StreamingRuns, [Next]_vars, spc' = "end", spc \notin {"accept", "end"}
  PROVE  \/ flag
         \/ spc = "setup"
         \/ spc = "opened" /\ tpc[thread] \in {"clean", "done"}
         \/ spc \in {"stop", "join"} /\ state # "RUNNING"
<1>1. CASE SetPollRate
  <2>1. spc = "opened" /\ sub_channel # "open" /\ thread \in Threads
    BY <1>1 DEF SetPollRate, StreamingRuns
  <2>2. tpc[thread] # "free" /\ (Alive(thread) => tpc[thread] = "clean")
    BY <2>1 DEF StreamingRuns, IInv, ThreadHasChannel
  <2> QED
    BY <2>1, <2>2 DEF Alive
<1>2. CASE Session /\ ~SetPollRate
  BY <1>2 DEF Session, Setup, Quit, Continue, Poll, ProcessChannel, CreateThread,
     Frame, StopThread, Join, DestroyClient, Again
<1>3. CASE Accept \/ AcceptFails \/ OpenChannel \/ Interrupt \/ Ended \/ UNCHANGED vars
  BY <1>3 DEF Accept, AcceptFails, OpenChannel, Interrupt, Ended, vars, mainVars
<1>4. ASSUME NEW t \in Threads, CursorStep(t)
      PROVE  spc \in {"stop", "join"} /\ state # "RUNNING"
  <2>1. state # "RUNNING" /\ Alive(t)
    BY <1>4 DEF CursorStep, CursorStart, CursorSetup, CursorCheck, CursorGet, CursorKeepAlive,
       CursorSend, CursorBye, CursorDrop, CursorClean, mainVars, At, Alive
  <2> QED
    BY <2>1 DEF StreamingRuns, IInv, TypeOK, ThreadIsOurs
<1> QED
  BY <1>1, <1>2, <1>3, <1>4 DEF Next

(* As long as no failure skips destroy_ctx, there are no other ways.       *)
THEOREM CrashForCauseHolds == Spec /\ [][NothingSkipped]_vars => CrashForCause
<1>1. Init => StreamingRuns
  BY DEF Init, StreamingRuns
<1>2. IInv /\ [Next]_vars /\ [NothingSkipped]_vars => IInv'
  BY SessionStep
<1>3. IInv /\ StreamingRuns /\ [Next]_vars => StreamingRuns'
  BY StreamingStep DEF IInv
<1>4. IInv /\ StreamingRuns /\ [Next]_vars =>
        [spc' = "end" /\ spc \notin {"accept", "end"} =>
            \/ flag
            \/ spc = "setup"
            \/ spc = "opened" /\ tpc[thread] \in {"clean", "done"}
            \/ spc \in {"stop", "join"} /\ state # "RUNNING"]_vars
  BY CrashStep
<1> QED
  BY <1>1, <1>2, <1>3, <1>4, Initially, PTL DEF Spec, CrashForCause
=============================================================================
