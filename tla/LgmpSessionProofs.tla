--------------------------- MODULE LgmpSessionProofs ---------------------------
(***************************************************************************)
(* Proofs about LgmpSession, for any number of attempts and of starts of   *)
(* the host.                                                               *)
(***************************************************************************)
EXTENDS LgmpSession, TLAPS

(* What main has and the cursor thread and the host leave alone. *)
mainOnly == <<state, ram, lgmp_client, bound, retry, waitCount>>

(* The Boolean variables keep their type. *)
Flags == /\ compatible \in BOOLEAN /\ queued \in BOOLEAN
         /\ flag \in BOOLEAN /\ waitCount \in BOOLEAN

(* Every step keeps the Boolean variables Boolean.                         *)
LEMMA FlagStep ==
  ASSUME Flags, [Next]_vars
  PROVE  Flags'
<1> USE DEF Flags, hostVars, loopVars
<1>1. CASE SetUp
  BY <1>1, Zenon DEF SetUp, InitLgmpClient, InitSessionCrash, InitSessionOk, InitSessionVersion,
     InitSessionWait, SubscribeFrames, SubscribePointer, Subscribe, Bind, FirstFrameWait, GoOn,
     lgmpVars
<1>2. CASE Stream
  BY <1>2, Zenon DEF Stream, GetFrame, GetFrameNotRunning, GetFrameInvalid, GetFrameResubscribe,
     Quit, SendFrame, StopThread, Join, GoOn, lgmpVars
<1>3. CASE MayHappen
  BY <1>3, Zenon DEF MayHappen, Accept, AcceptFails, OpenFails, InitSessionFails, FrameRequest,
     PollEnds, OpenChannel, GetFrameKeepAliveFails, NextSession, Interrupt, LinkFails, GoOn, lgmpVars
<1>4. CASE CursorThread
  BY <1>4, Zenon DEF CursorThread, CursorWork, CursorStop, CursorNotRunning, CursorUnread, CursorSendFails,
     CursorKeepAliveFails, CursorInvalid, CursorResubscribe, CursorBye, CursorRest
<1>5. CASE Host
  BY <1>5, Zenon DEF Host, HostStart, HostStop, HostPost, HostPublish, HostDrop,
     sourceVars, lgmpVars
<1>6. CASE Ended \/ UNCHANGED vars
  BY <1>6, Zenon DEF Ended, vars
<1> QED
  BY <1>1, <1>2, <1>3, <1>4, <1>5, <1>6 DEF Next

(* What a step of the cursor thread leaves to the others. *)
LEMMA CursorFrame ==
  ASSUME TypeOK, CursorThread
  PROVE  /\ UNCHANGED <<mainOnly, session, sessions, compatible, queues, queued, flag,
                        metadata, link>>
         /\ pc \notin {"end", "crash"} /\ pc' \in {pc, "crash"}
         /\ tpc \in {"run", "unread", "bye"}
         /\ tpc' \in {"run", "unread", "bye", "done"}
         /\ tpc' = "unread" =>
              \/ state # "RUNNING" /\ pc' = pc
              \/ tpc = "unread" /\ pc' = "crash"
         /\ thread_flags' \in {"T_RUNNING", "T_ERR", "T_STOP"}
         /\ sub' \in [Queues -> 0 .. MaxHost] /\ dropped' \subseteq Queues
         /\ \A q \in Queues : sub[q] = bound => sub'[q] = bound
<1> USE DEF TypeOK, Runs, CursorRest, CursorReading, mainOnly, hostVars, loopVars, threadVars
<1>1. CASE CursorStop \/ CursorNotRunning \/ CursorBye
  BY <1>1 DEF CursorStop, CursorNotRunning, CursorBye
<1>2. CASE CursorUnread
  BY <1>2 DEF CursorUnread
<1>3. CASE CursorSendFails \/ CursorKeepAliveFails \/ CursorInvalid
  BY <1>3 DEF CursorSendFails, CursorKeepAliveFails, CursorInvalid
<1>4. CASE CursorResubscribe
  <2>1. PICK status \in SubscribeStatus("POINTER") :
          IF status = "OK" THEN Subscribed("POINTER") /\ UNCHANGED threadVars
          ELSE /\ tpc' = "bye" /\ thread_flags' = "T_ERR"
               /\ UNCHANGED <<sub, dropped>>
    BY <1>4 DEF CursorResubscribe
  <2> QED
    BY <1>4, <2>1 DEF CursorResubscribe, Subscribed, Queues
<1> QED
  BY <1>1, <1>2, <1>3, <1>4 DEF CursorThread, CursorWork

(* What a step of the host leaves to the others. *)
LEMMA HostFrame ==
  ASSUME TypeOK, SessionsGrow, Host
  PROVE  /\ UNCHANGED <<mainOnly, pc, thread_flags, flag, sub, tpc, link, metadata>>
         /\ session' \in 0 .. MaxHost /\ sessions' \in 0 .. MaxHost
         /\ queues' \subseteq Queues /\ dropped' \subseteq Queues
         /\ session' <= sessions' /\ bound <= sessions'
         /\ Valid' => Valid
<1> USE BoundAssumption DEF TypeOK, SessionsGrow, Valid, mainOnly, hostVars, sourceVars, lgmpVars,
                             loopVars, threadVars
<1>1. CASE HostStart
  BY <1>1 DEF HostStart
<1>2. CASE HostStop
  BY <1>2 DEF HostStop
<1>3. CASE HostPost
  BY <1>3 DEF HostPost
<1>4. ASSUME NEW q \in Queues, HostPublish(q) \/ HostDrop(q)
      PROVE  /\ UNCHANGED <<mainOnly, pc, thread_flags, flag, sub, tpc, link, metadata>>
             /\ UNCHANGED <<session, sessions, compatible>>
             /\ queues' \subseteq Queues /\ dropped' \subseteq Queues
  BY <1>4 DEF HostPublish, HostDrop
<1> QED
  BY <1>1, <1>2, <1>3, <1>4 DEF Host

(* A subscription goes on with the handle in the session, or with STOP. *)
SubscribeResult(q, here, next) ==
  /\ pc = here /\ pc' = next
  /\ UNCHANGED <<hostVars, flag, threadVars, link, ram, lgmp_client, bound, loopVars>>
  /\ \/ state # "RUNNING" /\ UNCHANGED <<state, sub, dropped>>
     \/ /\ state = "RUNNING" /\ state' = state /\ Valid
        /\ sub' = [sub EXCEPT ![q] = bound] /\ dropped' = dropped \ {q}
     \/ state' = "STOP" /\ UNCHANGED <<sub, dropped>>

LEMMA SubscribeFrame ==
  ASSUME NEW q \in Queues, NEW here, NEW next, Subscribe(q, here, next)
  PROVE  SubscribeResult(q, here, next)
<1> USE DEF SubscribeResult
<1>1. CASE state # "RUNNING"
  BY <1>1 DEF Subscribe, GoOn
<1>2. CASE state = "RUNNING"
  <2>1. PICK status \in SubscribeStatus(q) \ {"NO_SUCH_QUEUE"} :
          IF status = "OK" THEN Subscribed(q) /\ UNCHANGED state
          ELSE state' = "STOP" /\ UNCHANGED <<sub, dropped>>
    BY <1>2 DEF Subscribe
  <2> QED
    BY <1>2, <2>1 DEF Subscribe, GoOn, Subscribed, SubscribeStatus
<1> QED
  BY <1>1, <1>2

(* Resubscription in lpGetFrame stays where it is, or leaves. *)
LEMMA ResubscribeFrame ==
  ASSUME TypeOK, GetFrameResubscribe
  PROVE  /\ pc \in {"first", "get"}
         /\ UNCHANGED <<hostVars, flag, threadVars, link, ram, lgmp_client, bound, loopVars>>
         /\ \/ /\ pc' = pc /\ state' = state /\ dropped' = dropped \ {"FRAME"}
               /\ sub' = [sub EXCEPT !["FRAME"] = bound]
            \/ pc' = "stop" /\ state' = "RESTART" /\ UNCHANGED <<sub, dropped>>
<1>1. PICK status \in SubscribeStatus("FRAME") :
          IF status = "OK"
          THEN Subscribed("FRAME") /\ state' = state /\ GoOn(pc)
          ELSE state' = "RESTART" /\ GoOn("stop") /\ UNCHANGED <<sub, dropped>>
  BY DEF GetFrameResubscribe
<1> QED
  BY <1>1 DEF GetFrameResubscribe, Subscribed, GoOn

-----------------------------------------------------------------------------
(* Every step keeps the types, as long as attempts are left and the numbers *)
(* of sessions grow.                                                       *)
LEMMA Typing ==
  ASSUME TypeOK, AttemptsLeft, SessionsGrow, [Next]_vars
  PROVE  TypeOK'
<1> USE BoundAssumption
<1>0. Flags'
  BY FlagStep DEF TypeOK, Flags
<1>1. CASE OpenFails \/ InitLgmpClient \/ InitSessionCrash
  BY <1>0, <1>1 DEF TypeOK, Flags, OpenFails, InitLgmpClient, InitSessionCrash, GoOn, hostVars,
              lgmpVars, loopVars, threadVars
<1>2. CASE InitSessionOk \/ InitSessionFails
  BY <1>0, <1>2 DEF TypeOK, Flags, InitSessionOk, InitSessionFails, GoOn, hostVars,
              lgmpVars, loopVars, threadVars
<1>3. CASE InitSessionVersion \/ InitSessionWait
  BY <1>0, <1>3 DEF TypeOK, Flags, AttemptsLeft, InitSessionVersion, InitSessionWait, GoOn,
              hostVars, lgmpVars, loopVars, threadVars
<1>4. CASE SubscribeFrames
  <2>1. SubscribeResult("FRAME", "frameq", "pointerq")
    BY <1>4, SubscribeFrame DEF SubscribeFrames, Queues
  <2>2. sub' \in [Queues -> 0 .. MaxHost] /\ dropped' \subseteq Queues
    BY <2>1 DEF SubscribeResult, TypeOK
  <2> QED
    BY <1>0, <2>1, <2>2 DEF SubscribeResult, TypeOK, Flags, hostVars, loopVars, threadVars
<1>5. CASE SubscribePointer
  <2>1. SubscribeResult("POINTER", "pointerq", "first")
    BY <1>5, SubscribeFrame DEF SubscribePointer, Queues
  <2>2. sub' \in [Queues -> 0 .. MaxHost] /\ dropped' \subseteq Queues
    BY <2>1 DEF SubscribeResult, TypeOK
  <2> QED
    BY <1>0, <2>1, <2>2 DEF SubscribeResult, TypeOK, Flags, hostVars, loopVars, threadVars
<1>6. CASE Bind \/ FirstFrameWait \/ Quit \/ FrameRequest \/ PollEnds
  BY <1>0, <1>6 DEF TypeOK, Flags, Bind, FirstFrameWait, Quit, FrameRequest, PollEnds, GoOn, Again,
              hostVars, lgmpVars, loopVars, threadVars
<1>7. CASE GetFrame \/ GetFrameNotRunning \/ GetFrameInvalid \/ GetFrameKeepAliveFails
  BY <1>0, <1>7 DEF TypeOK, Flags, GetFrame, GetFrameNotRunning, GetFrameInvalid,
              GetFrameKeepAliveFails, GoOn, Again, hostVars, lgmpVars, loopVars, threadVars
<1>8. CASE GetFrameResubscribe
  <2>1. sub' \in [Queues -> 0 .. MaxHost] /\ dropped' \subseteq Queues
    BY <1>8, ResubscribeFrame DEF TypeOK
  <2> QED
    BY <1>0, <1>8, <2>1, ResubscribeFrame DEF TypeOK, Flags, hostVars, loopVars, threadVars
<1>9. CASE SendFrame
  BY <1>0, <1>9 DEF TypeOK, Flags, SendFrame, GoOn, hostVars, lgmpVars, loopVars, threadVars
<1>10. CASE Accept \/ AcceptFails \/ OpenChannel \/ StopThread \/ Join
  BY <1>0, <1>10 DEF TypeOK, Flags, Accept, AcceptFails, OpenChannel, StopThread, Join, GoOn, Again,
               hostVars, lgmpVars, loopVars, threadVars
<1>11. CASE Interrupt \/ LinkFails
  BY <1>0, <1>11 DEF TypeOK, Flags, Interrupt, LinkFails, hostVars, lgmpVars, loopVars, threadVars
<1>12. CASE CursorThread
  BY <1>0, <1>12, CursorFrame DEF TypeOK, Flags, mainOnly
<1>13. CASE Host
  BY <1>0, <1>13, HostFrame DEF TypeOK, Flags, mainOnly
<1>14. CASE Ended \/ UNCHANGED vars
  BY <1>0, <1>14 DEF TypeOK, Flags, Ended, vars, hostVars, lgmpVars, loopVars, threadVars
<1>15. CASE NextSession
  BY <1>0, <1>15 DEF TypeOK, Flags, NextSession, hostVars
<1> QED
  BY <1>1, <1>2, <1>3, <1>4, <1>5, <1>6, <1>7, <1>8, <1>9, <1>10, <1>11, <1>12, <1>13, <1>14, <1>15
  DEF Next, SetUp, Stream, MayHappen

(* The parts of the invariant beyond the types. *)
Bindings == /\ RunningMeansSubscribed /\ UnreadOnlyInTearDown
            /\ WaitedMeansStop /\ AttemptsLeft /\ BoundOnTheWay /\ ServedMeansRunning
            /\ MappedClient /\ ThreadInSession /\ NoFrameYet /\ SessionsGrow

(* Every step keeps what a session with the host is bound to. *)
LEMMA BindingStep ==
  ASSUME TypeOK, Bindings, [Next]_vars
  PROVE  Bindings'
<1> USE BoundAssumption
<1> USE DEF Bindings, RunningMeansSubscribed, UnreadOnlyInTearDown, WaitedMeansStop, AttemptsLeft,
            BoundOnTheWay, ServedMeansRunning, Serving, MappedClient, ThreadInSession,
            NoFrameYet, SessionsGrow
<1>1. CASE OpenFails \/ InitLgmpClient \/ InitSessionCrash
  BY <1>1 DEF TypeOK, OpenFails, InitLgmpClient, InitSessionCrash, GoOn, hostVars,
              lgmpVars, loopVars, threadVars
<1>2. CASE InitSessionOk \/ InitSessionFails
  BY <1>2 DEF TypeOK, InitSessionOk, InitSessionFails, GoOn, hostVars,
              lgmpVars, loopVars, threadVars
<1>3. CASE InitSessionVersion \/ InitSessionWait
  BY <1>3 DEF TypeOK, InitSessionVersion, InitSessionWait, GoOn, hostVars, lgmpVars,
              loopVars, threadVars
<1>4. CASE SubscribeFrames
  <2>1. SubscribeResult("FRAME", "frameq", "pointerq")
    BY <1>4, SubscribeFrame DEF SubscribeFrames, Queues
  <2> QED
    BY <2>1 DEF SubscribeResult, TypeOK, hostVars, loopVars, threadVars, Queues
<1>5. CASE SubscribePointer
  <2>1. SubscribeResult("POINTER", "pointerq", "first")
    BY <1>5, SubscribeFrame DEF SubscribePointer, Queues
  <2> QED
    BY <2>1 DEF SubscribeResult, TypeOK, hostVars, loopVars, threadVars, Queues
<1>6. CASE Bind \/ FirstFrameWait \/ Quit \/ FrameRequest \/ PollEnds
  BY <1>6 DEF TypeOK, Bind, FirstFrameWait, Quit, FrameRequest, PollEnds, Streaming, GoOn, Again, hostVars,
              lgmpVars, loopVars, threadVars
<1>7. CASE GetFrame \/ GetFrameNotRunning \/ GetFrameInvalid \/ GetFrameKeepAliveFails
  <2>1. CASE GetFrame
    BY <2>1 DEF GetFrame, lgmpVars, threadVars
  <2>2. CASE GetFrameNotRunning
    BY <2>2 DEF GetFrameNotRunning, GoOn, hostVars, lgmpVars, loopVars, threadVars
  <2>3. CASE GetFrameInvalid \/ GetFrameKeepAliveFails
    BY <2>3 DEF TypeOK, GetFrameInvalid, GetFrameKeepAliveFails, GoOn, Again, hostVars, lgmpVars,
                loopVars, threadVars
  <2> QED
    BY <1>7, <2>1, <2>2, <2>3
<1>8. CASE GetFrameResubscribe
  BY <1>8, ResubscribeFrame DEF TypeOK, hostVars, loopVars, threadVars, Queues
<1>9. CASE SendFrame
  BY <1>9 DEF TypeOK, SendFrame, GoOn, hostVars, lgmpVars, loopVars, threadVars
<1>10. CASE Accept \/ AcceptFails \/ OpenChannel \/ StopThread \/ Join
  BY <1>10 DEF TypeOK, Accept, AcceptFails, OpenChannel, Streaming, StopThread, Join, GoOn, Again,
               hostVars, lgmpVars, loopVars, threadVars
<1>11. CASE Interrupt \/ LinkFails
  BY <1>11 DEF TypeOK, Interrupt, LinkFails, hostVars, lgmpVars, loopVars, threadVars
<1>12. CASE CursorThread
  <2>1. /\ UNCHANGED <<state, ram, lgmp_client, bound, retry, waitCount, session, sessions,
                        metadata>>
        /\ pc \notin {"end", "crash"} /\ pc' \in {pc, "crash"}
        /\ tpc \in {"run", "unread", "bye"}
        /\ tpc' = "unread" =>
              \/ state # "RUNNING" /\ pc' = pc
              \/ tpc = "unread" /\ pc' = "crash"
        /\ \A q \in Queues : sub[q] = bound => sub'[q] = bound
    BY <1>12, CursorFrame DEF mainOnly
  <2>2. RunningMeansSubscribed' /\ BoundOnTheWay' /\ MappedClient'
    BY <2>1
  <2>3. UnreadOnlyInTearDown' /\ ServedMeansRunning' /\ ThreadInSession'
    BY <2>1 DEF TypeOK
  <2>4. WaitedMeansStop' /\ AttemptsLeft' /\ NoFrameYet' /\ SessionsGrow'
    BY <2>1
  <2> QED
    BY <2>2, <2>3, <2>4
<1>13. CASE Host
  BY <1>13, HostFrame DEF TypeOK, mainOnly
<1>14. CASE Ended \/ UNCHANGED vars
  BY <1>14 DEF Ended, vars, hostVars, lgmpVars, loopVars, threadVars
<1>15. CASE NextSession
  BY <1>15 DEF TypeOK, NextSession, hostVars
<1> QED
  BY <1>1, <1>2, <1>3, <1>4, <1>5, <1>6, <1>7, <1>8, <1>9, <1>10, <1>11, <1>12, <1>13, <1>14, <1>15
  DEF Next, SetUp, Stream, MayHappen

(* The invariant holds at first. *)
LEMMA Initially == Init => IInv
<1> SUFFICES ASSUME Init PROVE IInv
  OBVIOUS
<1>1. Flags
  BY Zenon DEF Init, Flags
<1> QED
  BY <1>1, BoundAssumption
  DEF Flags, Init, IInv, TypeOK, Queues, RunningMeansSubscribed, UnreadOnlyInTearDown,
      WaitedMeansStop, AttemptsLeft, BoundOnTheWay, ServedMeansRunning, Serving, MappedClient,
      ThreadInSession, NoFrameYet, SessionsGrow

(* Every step keeps the invariant. *)
LEMMA Inductive == IInv /\ [Next]_vars => IInv'
<1> SUFFICES ASSUME IInv, [Next]_vars PROVE IInv'
  OBVIOUS
<1>1. TypeOK /\ Bindings
  BY DEF IInv, Bindings
<1>2. TypeOK'
  BY <1>1, Typing DEF Bindings
<1>3. Bindings'
  BY <1>1, BindingStep
<1> QED
  BY <1>2, <1>3 DEF IInv, Bindings

(* The invariant holds throughout. *)
LEMMA Invariant == Spec => []IInv
BY Initially, Inductive, PTL DEF Spec

(* Every variable of the source's session with its host keeps its type,    *)
(* the count of attempts among them.                                       *)
THEOREM TypeCorrect == Spec => []TypeOK
<1>1. IInv => TypeOK
  BY DEF IInv
<1> QED
  BY <1>1, Invariant, PTL

(* Whatever host starts or stops on the way, a session that leaves its     *)
(* set-up RUNNING is bound to a host and subscribed to both queues.        *)
THEOREM SubscriptionsHold == Spec => []RunningMeansSubscribed
<1>1. IInv => RunningMeansSubscribed
  BY DEF IInv
<1> QED
  BY <1>1, Invariant, PTL

(* In every order of their steps, the cursor thread uses a message it never *)
(* received only when main is taking the session down, or has returned     *)
(* past the tear-down and left the thread behind.                          *)
THEOREM UnreadIsLast == Spec => []UnreadOnlyInTearDown
<1>1. IInv => UnreadOnlyInTearDown
  BY DEF IInv
<1> QED
  BY <1>1, Invariant, PTL

-----------------------------------------------------------------------------
(* A session that is served has its frame: none of its readers meets the   *)
(* null pointer that the wait for a first frame may (lp_source.c:242, 447). *)
FrameInHand == pc \in Serving => metadata = "frame"

(* Every step keeps a frame in hand. *)
LEMMA FrameStep ==
  ASSUME TypeOK, Bindings, FrameInHand, [Next]_vars
  PROVE  FrameInHand'
<1> USE DEF FrameInHand, Serving
<1>1. CASE SetUp
  <2>1. CASE SubscribeFrames \/ SubscribePointer
    <3>1. pc' \in {"pointerq", "first"}
      BY <2>1 DEF SubscribeFrames, SubscribePointer, Subscribe, GoOn
    <3> QED
      BY <3>1
  <2>2. CASE ~(SubscribeFrames \/ SubscribePointer)
    BY <1>1, <2>2 DEF SetUp, InitLgmpClient, InitSessionCrash, InitSessionOk, InitSessionVersion,
       InitSessionWait, Bind, FirstFrameWait, GoOn, Again, loopVars
  <2> QED
    BY <2>1, <2>2
<1>2. CASE Stream
  <2>1. CASE GetFrameResubscribe
    BY <2>1, ResubscribeFrame DEF loopVars
  <2>2. CASE GetFrameNotRunning
    BY <2>2 DEF GetFrameNotRunning, GoOn, loopVars, TypeOK, Bindings,
       ServedMeansRunning
  <2>3. CASE ~(GetFrameResubscribe \/ GetFrameNotRunning)
    BY <1>2, <2>3 DEF Stream, GetFrame, GetFrameInvalid, Quit,
       SendFrame, StopThread, Join, GoOn, Again, loopVars
  <2> QED
    BY <2>1, <2>2, <2>3
<1>3. CASE MayHappen
  BY <1>3 DEF MayHappen, Accept, AcceptFails, OpenFails, InitSessionFails, FrameRequest,
     PollEnds, OpenChannel, Streaming, GetFrameKeepAliveFails, NextSession, Interrupt, LinkFails,
     GoOn, Again, loopVars
<1>4. CASE CursorThread
  BY <1>4, CursorFrame
<1>5. CASE Host
  BY <1>5, HostFrame DEF Bindings
<1>6. CASE Ended \/ UNCHANGED vars
  BY <1>6 DEF Ended, vars, loopVars
<1> QED
  BY <1>1, <1>2, <1>3, <1>4, <1>5, <1>6 DEF Next

(* Whatever the host does, no frame is bound, waited for or sent without   *)
(* its metadata: lpGetFrame's 0 without a frame is met only before.        *)
THEOREM FrameInHandHolds == Spec => []FrameInHand
<1>1. Init => FrameInHand
  BY DEF Init, FrameInHand, Serving
<1>2. IInv /\ FrameInHand /\ [Next]_vars => FrameInHand'
  BY FrameStep DEF IInv, Bindings
<1> QED
  BY <1>1, <1>2, Invariant, PTL DEF Spec

-----------------------------------------------------------------------------
(* How many steps the set-up has left, when the host's queues are there.   *)
SettingUp == {"open", "session", "frameq", "pointerq"}
SetupRank == CASE pc = "open"     -> MaxRetry + 3
               [] pc = "session"  -> MaxRetry + 2 - retry
               [] pc = "frameq"   -> 2
               [] pc = "pointerq" -> 1
               [] OTHER           -> 0
SetupStep == SetUp \/ OpenFails \/ InitSessionFails

(* Each step of main in the set-up lowers SetupRank, and nobody raises it. *)
SetupLowers ==
    [][/\ pc \in SettingUp => SetupRank' <= SetupRank
       /\ pc \in SettingUp /\ SetupStep => SetupRank' < SetupRank]_vars

(* In the set-up, each step of main is one fewer to come. *)
LEMMA SetupLower ==
  ASSUME TypeOK, Bindings, [Next]_vars, pc \in SettingUp
  PROVE  SetupRank' <= SetupRank /\ (SetupStep => SetupRank' < SetupRank)
<1> USE BoundAssumption DEF SettingUp
<1>a. MaxRetry \in Nat /\ retry \in 0 .. MaxRetry /\ (pc = "session" => retry < MaxRetry)
  BY DEF TypeOK, Bindings, AttemptsLeft
<1>b. /\ SetupRank \in Nat /\ SetupRank > 0
      /\ (pc \in {"open", "session", "frameq"} => SetupRank > 1)
      /\ (pc \in {"open", "session"} => SetupRank > 2)
  BY <1>a DEF SetupRank
<1>c. ASSUME pc' \notin SettingUp PROVE SetupRank' = 0
  BY <1>c DEF SetupRank
<1>1. CASE SetupStep
  <2>1. CASE InitSessionCrash \/ Bind \/ FirstFrameWait \/ OpenFails \/ InitSessionFails
    BY <2>1, <1>b, <1>c DEF InitSessionCrash, Bind, FirstFrameWait, OpenFails, InitSessionFails, GoOn, Again
  <2>2. CASE InitLgmpClient
    <3>1. pc = "open" /\ retry' = 0 /\ pc' \in {"session", "crash"}
      BY <2>2 DEF InitLgmpClient, GoOn
    <3> QED
      BY <1>a, <1>b, <1>c, <3>1 DEF SetupRank
  <2>3. CASE InitSessionOk
    <3>1. pc = "session" /\ pc' = "frameq"
      BY <2>3 DEF InitSessionOk, GoOn
    <3>2. SetupRank' = 2
      BY <3>1 DEF SetupRank
    <3> QED
      BY <1>b, <3>1, <3>2
  <2>4. CASE InitSessionVersion \/ InitSessionWait
    <3>1. /\ pc = "session" /\ pc' \in {"session", "frameq", "stop"}
          /\ pc' = "session" => retry' = retry + 1
      BY <2>4 DEF InitSessionVersion, InitSessionWait, GoOn
    <3>2. pc' = "session" => SetupRank' = SetupRank - 1
      BY <1>a, <3>1 DEF SetupRank
    <3>3. pc' = "frameq" => SetupRank' = 2
      BY DEF SetupRank
    <3> QED
      BY <1>b, <1>c, <3>1, <3>2, <3>3
  <2>5. CASE SubscribeFrames \/ SubscribePointer
    <3>1. \/ pc = "frameq" /\ pc' = "pointerq"
          \/ pc = "pointerq" /\ pc' = "first"
      BY <2>5 DEF SubscribeFrames, SubscribePointer, Subscribe, GoOn
    <3>2. pc' = "pointerq" => SetupRank' = 1
      BY DEF SetupRank
    <3> QED
      BY <1>b, <1>c, <3>1, <3>2
  <2> QED
    BY <1>1, <2>1, <2>2, <2>3, <2>4, <2>5 DEF SetupStep, SetUp
<1>2. CASE ~SetupStep
  <2>1. \/ pc' = pc /\ retry' = retry
        \/ pc' \notin SettingUp
    <3>1. CASE Stream
      <4>1. CASE GetFrameResubscribe
        BY <4>1, ResubscribeFrame
      <4>2. CASE ~GetFrameResubscribe
        BY <3>1, <4>2 DEF Stream, GetFrame, GetFrameNotRunning, GetFrameInvalid,
           Quit, SendFrame, StopThread, Join
      <4> QED
        BY <4>1, <4>2
    <3>2. CASE MayHappen
      BY <1>2, <3>2 DEF MayHappen, SetupStep, Accept, AcceptFails, FrameRequest,
         PollEnds, OpenChannel, Streaming, GetFrameKeepAliveFails, NextSession, Interrupt,
         LinkFails, GoOn, Again, loopVars
    <3>3. CASE CursorThread
      BY <3>3, CursorFrame DEF mainOnly
    <3>4. CASE Host
      BY <3>4, HostFrame DEF Bindings, mainOnly
    <3>5. CASE Ended \/ UNCHANGED vars
      BY <3>5 DEF Ended, vars, loopVars
    <3> QED
      BY <1>2, <3>1, <3>2, <3>3, <3>4, <3>5 DEF Next, SetupStep
  <2>2. pc' = pc /\ retry' = retry => SetupRank' = SetupRank
    BY DEF SetupRank
  <2> QED
    BY <1>2, <1>b, <1>c, <2>1, <2>2
<1> QED
  BY <1>1, <1>2

(* A session is set up or given up within MaxRetry + 3 steps of main,      *)
(* whatever host comes, goes or speaks another version: the safety half of *)
(* SetupEnds (lpClientInitSession's loops).                                *)
THEOREM SetupLowersHolds == Spec => SetupLowers
<1>1. IInv /\ [Next]_vars =>
        [/\ pc \in SettingUp => SetupRank' <= SetupRank
         /\ pc \in SettingUp /\ SetupStep => SetupRank' < SetupRank]_vars
  BY SetupLower DEF IInv, Bindings
<1> QED
  BY <1>1, Invariant, PTL DEF Spec, SetupLowers

-----------------------------------------------------------------------------
(* How many steps of main a session has left once its host is lost.        *)
LossRank == CASE pc = "get"    -> 1
              [] pc = "stream" -> IF tpc = "none" THEN 3 ELSE 2
              [] pc = "send"   -> 4
              [] pc = "wait"   -> 5
              [] pc = "bind"   -> 6
              [] OTHER         -> 0
MainStep == \/ SetUp \/ Stream \/ FrameRequest \/ PollEnds \/ OpenChannel
            \/ GetFrameKeepAliveFails

(* A lost host stays lost, and the session nears its end.                  *)
Lost == pc \in Serving /\ ~Valid
LossStep == /\ pc' \in Serving => ~Valid'
            /\ LossRank' <= LossRank
            /\ MainStep => LossRank' < LossRank
LossLowers == [][Lost => LossStep]_vars

(* A session whose host is lost does not find it again, and each step of   *)
(* main is one fewer to come.                                              *)
LEMMA LossLower ==
  ASSUME TypeOK, Bindings, [Next]_vars, Lost
  PROVE  LossStep
<1> USE DEF LossStep, Lost, Serving
<1>a. /\ LossRank \in Nat /\ LossRank > 0
      /\ (pc \in {"bind", "wait", "send", "stream"} => LossRank > 1)
  BY DEF LossRank
<1>b. ASSUME pc' \notin Serving PROVE LossRank' = 0
  BY <1>b DEF LossRank
<1>c. state = "RUNNING"
  BY DEF Bindings, ServedMeansRunning
<1>1. CASE SetUp
  <2>1. Bind \/ FirstFrameWait
    BY <1>1 DEF SetUp, InitLgmpClient, InitSessionCrash, InitSessionOk, InitSessionVersion,
       InitSessionWait, SubscribeFrames, SubscribePointer, Subscribe
  <2>2. /\ pc \in {"bind", "wait"} /\ UNCHANGED <<bound, session>>
        /\ pc = "bind" => pc' \in {"wait", "stop", "accept", "end"}
        /\ pc = "wait" => pc' \in {"stream", "accept", "end"}
    BY <2>1 DEF Bind, FirstFrameWait, GoOn, Again, lgmpVars, hostVars
  <2>3. ~Valid'
    BY <2>2 DEF Valid
  <2>4. LossRank' < LossRank
    BY <1>a, <1>b, <2>2 DEF LossRank
  <2> QED
    BY <1>a, <2>3, <2>4 DEF LossRank
<1>2. CASE Stream
  <2>1. GetFrameInvalid \/ Quit \/ SendFrame
    <3>1. ~GetFrame /\ ~GetFrameResubscribe /\ ~GetFrameNotRunning /\ ~StopThread /\ ~Join
      BY <1>c DEF GetFrame, GetFrameResubscribe, GetFrameNotRunning, ProcessStatus, StopThread,
         Join
    <3> QED
      BY <1>2, <3>1 DEF Stream
  <2>2. /\ UNCHANGED <<bound, session>>
        /\ pc' \notin Serving \/ (pc = "send" /\ pc' \in {"stream", "get"})
    <3>1. CASE GetFrameInvalid
      BY <3>1 DEF GetFrameInvalid, GoOn, lgmpVars, hostVars
    <3>2. CASE Quit
      BY <3>2 DEF Quit, GoOn, lgmpVars, hostVars
    <3>3. CASE SendFrame
      BY <3>3 DEF SendFrame, GoOn, lgmpVars, hostVars
    <3> QED
      BY <2>1, <3>1, <3>2, <3>3
  <2>3. ~Valid'
    BY <2>2 DEF Valid
  <2>4. LossRank' < LossRank
    <3>1. CASE pc' \notin Serving
      BY <1>a, <1>b, <3>1
    <3>2. CASE pc = "send" /\ pc' \in {"stream", "get"}
      BY <3>2 DEF LossRank
    <3> QED
      BY <2>2, <3>1, <3>2
  <2> QED
    BY <1>a, <2>3, <2>4 DEF LossRank
<1>3. CASE FrameRequest \/ PollEnds \/ OpenChannel
  <2>1. /\ UNCHANGED <<bound, session>> /\ pc = "stream"
        /\ \/ pc' \in {"get", "stop"}
           \/ tpc = "none" /\ tpc' = "run" /\ pc' = "stream"
    BY <1>3 DEF FrameRequest, PollEnds, OpenChannel, Streaming, GoOn, lgmpVars, hostVars
  <2>2. ~Valid'
    BY <2>1 DEF Valid
  <2>3. LossRank' < LossRank
    BY <2>1 DEF LossRank
  <2> QED
    BY <1>a, <2>2, <2>3 DEF LossRank
<1>k. ~GetFrameKeepAliveFails /\ ~NextSession
  BY DEF GetFrameKeepAliveFails, ProcessStatus, NextSession
<1>4. CASE ~MainStep
  <2>1. /\ pc' = pc \/ pc' \notin Serving
        /\ pc' = "stream" => (tpc' = "none") = (tpc = "none")
        /\ Valid' => Valid
    <3>1. CASE MayHappen
      <4>1. Accept \/ AcceptFails \/ OpenFails \/ InitSessionFails \/ Interrupt \/ LinkFails
        BY <1>4, <1>k, <3>1 DEF MayHappen, MainStep
      <4>2. UNCHANGED <<bound, session, tpc>> /\ (pc' = pc \/ pc' \notin Serving)
        BY <4>1 DEF Accept, AcceptFails, OpenFails, InitSessionFails, Interrupt, LinkFails, GoOn,
           lgmpVars, hostVars, threadVars
      <4> QED
        BY <4>2 DEF Valid
    <3>2. CASE CursorThread
      BY <3>2, CursorFrame DEF Valid, mainOnly
    <3>3. CASE Host
      BY <3>3, HostFrame DEF Bindings, mainOnly
    <3>4. CASE Ended \/ UNCHANGED vars
      BY <3>4 DEF Ended, vars, Valid, lgmpVars, hostVars, threadVars
    <3> QED
      BY <1>4, <3>1, <3>2, <3>3, <3>4 DEF Next, MainStep
  <2>2. pc' = pc => LossRank' = LossRank
    BY <2>1 DEF LossRank
  <2> QED
    BY <1>a, <1>b, <1>4, <2>1, <2>2
<1> QED
  BY <1>1, <1>2, <1>3, <1>4, <1>k DEF MainStep

(* A host that is lost while a sink is served is lost to this session for  *)
(* good, also when a new one starts at once, and main leaves it within six *)
(* of its own steps: the safety half of HostGoneEndsSession.               *)
THEOREM LossLowersHolds == Spec => LossLowers
<1>1. IInv /\ [Next]_vars => [Lost => LossStep]_vars
  BY LossLower DEF IInv, Bindings
<1> QED
  BY <1>1, Invariant, PTL DEF Spec, LossLowers
=============================================================================
