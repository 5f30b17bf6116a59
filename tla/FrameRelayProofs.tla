--------------------------- MODULE FrameRelayProofs ---------------------------
(***************************************************************************)
(* Theorems about FrameRelay, for every value of its constants: types, the *)
(* inductive invariant IInv and what follows from it, the refinement of    *)
(* FrameDelivery, and two action properties.                               *)
(***************************************************************************)
EXTENDS FrameRelay, TLAPS

-----------------------------------------------------------------------------
(* Arithmetic and sequences.                                               *)

(* A counter that wraps stays below its modulus. *)
LEMMA ModRange ==
  ASSUME NEW n \in Nat \ {0}, NEW x \in Nat
  PROVE  x % n \in 0 .. n - 1
OBVIOUS

(* Taking the first message of a queue. *)
LEMMA TailFacts ==
  ASSUME NEW S, NEW q \in Seq(S), q # <<>>
  PROVE  /\ Tail(q) \in Seq(S) /\ Len(q) \in Nat \ {0} /\ Len(Tail(q)) = Len(q) - 1
         /\ Head(q) = q[1] /\ Head(q) \in S
         /\ \A i \in 1 .. Len(q) - 1 : Tail(q)[i] = q[i + 1]
OBVIOUS

(* Adding a message to a queue. *)
LEMMA AppendFacts ==
  ASSUME NEW S, NEW q \in Seq(S), NEW m \in S
  PROVE  /\ Append(q, m) \in Seq(S) /\ Len(q) \in Nat /\ Len(Append(q, m)) = Len(q) + 1
         /\ \A i \in 1 .. Len(q) : Append(q, m)[i] = q[i]
         /\ Append(q, m)[Len(q) + 1] = m
OBVIOUS

(* The messages the programs send are messages of the channels. *)
LEMMA MsgTypes ==
  /\ Plain("ka") \in SourceMsg /\ Plain("bye") \in SourceMsg
  /\ Plain("ka") \in SinkMsg /\ Plain("bye") \in SinkMsg /\ Plain("ack") \in SinkMsg
  /\ Request \subseteq SourceMsg
BY DEF SourceMsg, SinkMsg

(* A message of type freq is a frame request. *)
LEMMA ReqTyped ==
  ASSUME NEW m \in SourceMsg, m.type = "freq"
  PROVE  m \in Request
BY DEF SourceMsg, Plain

(* A cleared queue. *)
LEMMA EmptyTyped ==
  ASSUME NEW S
  PROVE  <<>> \in Seq(S) /\ Len(<<>>) = 0
OBVIOUS

(* Lengths are naturals. *)
LEMMA LenTyped ==
  ASSUME NEW S, NEW q \in Seq(S)
  PROVE  Len(q) \in Nat
OBVIOUS

(* Sending keeps a channel well typed. *)
LEMMA SendTyped ==
  ASSUME NEW S, NEW q \in Seq(S), NEW m \in S
  PROVE  Send(q, m) \in Seq(S)
BY DEF Send

(* lgmpClientMessageDone never lengthens a queue. *)
LEMMA DoneTyped ==
  ASSUME NEW S, NEW q \in Seq(S)
  PROVE  MessageDone(q) \in Seq(S) /\ Len(MessageDone(q)) <= Len(q)
BY TailFacts DEF MessageDone

(* lgmpHostQueuePost never exceeds the slots of the queue. *)
LEMMA PostTyped ==
  ASSUME NEW q \in Seq(Slots), Len(q) <= QLen, NEW c, NEW s \in Slots
  PROVE  Post(q, c, s) \in Seq(Slots) /\ Len(Post(q, c, s)) <= QLen
<1>1. CASE c = "none" \/ Len(q) >= QLen
  BY <1>1 DEF Post
<1>2. CASE ~(c = "none" \/ Len(q) >= QLen)
  BY <1>2, AppendFacts, QLenAssumption DEF Post
<1> QED
  BY <1>1, <1>2

(* lpRequestFrame picks an existing buffer. *)
LEMMA NextIndexTyped == NextIndex \in Slots
BY QLenAssumption DEF NextIndex, Slots

(* Every step keeps every variable's type. *)
LEMMA Typing == TypeOK /\ [Next]_vars => TypeOK'
<1> SUFFICES ASSUME TypeOK, [Next]_vars PROVE TypeOK'
  OBVIOUS
<1> USE QLenAssumption, SerialModAssumption, PeriodAssumption
<1> USE DEF TypeOK, srcRest, buffers, srcSide, loopVars, memVars, pollRest, clientRest,
            lgVars, srcVars, netVars, snkVars, shmVars, histVars, signals
<1>1. CASE HostPost
  <2> USE <1>1 DEF HostPost
  <2>1. LgTyped'
    BY TailFacts, AppendFacts, DoneTyped DEF LgTyped
  <2>2. SrcTyped'
    BY DEF SrcTyped, LgTyped, Filled
  <2> QED
    BY <2>1, <2>2 DEF NetTyped, SnkTyped, ShmTyped, HistTyped
<1>2. CASE HostDropsSource
  <2> USE <1>2 DEF HostDropsSource
  <2>1. LgTyped'
    BY TailFacts, AppendFacts, DoneTyped DEF LgTyped
  <2> QED
    BY <2>1 DEF SrcTyped, NetTyped, SnkTyped, ShmTyped, HistTyped
<1>3. CASE SrcQuit
  <2> USE <1>3 DEF SrcQuit, SrcDestroy
  <2>1. SrcTyped'
    BY DEF SrcTyped
  <2>2. NetTyped'
    BY MsgTypes, SendTyped, TailFacts DEF NetTyped
  <2> QED
    BY <2>1, <2>2 DEF LgTyped, SnkTyped, ShmTyped, HistTyped
<1>4. CASE SrcPollError
  <2> USE <1>4 DEF SrcPollError, SrcDestroy
  <2>1. SrcTyped'
    BY DEF SrcTyped
  <2>2. NetTyped'
    BY MsgTypes, SendTyped, TailFacts DEF NetTyped
  <2> QED
    BY <2>1, <2>2 DEF LgTyped, SnkTyped, ShmTyped, HistTyped
<1>5. CASE SrcRecvKeepAlive
  <2> USE <1>5 DEF SrcRecvKeepAlive
  <2>1. NetTyped'
    BY MsgTypes, SendTyped, TailFacts DEF NetTyped
  <2> QED
    BY <2>1 DEF LgTyped, SrcTyped, SnkTyped, ShmTyped, HistTyped
<1>6. CASE SrcRecvDisconnect
  <2> USE <1>6 DEF SrcRecvDisconnect, SrcDestroy
  <2>1. SrcTyped'
    BY DEF SrcTyped
  <2>2. NetTyped'
    BY MsgTypes, SendTyped, TailFacts DEF NetTyped
  <2> QED
    BY <2>1, <2>2 DEF LgTyped, SnkTyped, ShmTyped, HistTyped
<1>7. CASE SrcRecvFrameReq
  <2> USE <1>7 DEF SrcRecvFrameReq
  <2>1. SrcTyped'
    <3>1. Head(toSource) \in SourceMsg
      BY TailFacts DEF NetTyped
    <3> QED
      BY <3>1, ReqTyped DEF SrcTyped
  <2>2. NetTyped'
    BY MsgTypes, SendTyped, TailFacts DEF NetTyped
  <2> QED
    BY <2>1, <2>2 DEF LgTyped, SnkTyped, ShmTyped, HistTyped
<1>8. CASE SrcGetKeepAlive
  <2> USE <1>8 DEF SrcGetKeepAlive
  <2>1. SrcTyped'
    BY DEF SrcTyped
  <2>2. NetTyped'
    <3>1. CASE link = "up"
      BY <3>1, MsgTypes, SendTyped DEF NetTyped
    <3>2. CASE link = "down"
      BY <3>2 DEF NetTyped
    <3> QED
      BY <3>1, <3>2, EmptyTyped DEF NetTyped
  <2> QED
    BY <2>1, <2>2 DEF LgTyped, SnkTyped, ShmTyped, HistTyped
<1>9. CASE SrcResubscribe
  <2> USE <1>9 DEF SrcResubscribe
  <2>1. LgTyped'
    BY TailFacts, AppendFacts, DoneTyped DEF LgTyped
  <2> QED
    BY <2>1 DEF SrcTyped, NetTyped, SnkTyped, ShmTyped, HistTyped
<1>10. CASE SrcGetError
  <2> USE <1>10 DEF SrcGetError, SrcDestroy
  <2>1. SrcTyped'
    BY DEF SrcTyped
  <2>2. NetTyped'
    BY MsgTypes, SendTyped, TailFacts DEF NetTyped
  <2> QED
    BY <2>1, <2>2 DEF LgTyped, SnkTyped, ShmTyped, HistTyped
<1>11. CASE SrcGetFrame
  <2> USE <1>11 DEF SrcGetFrame, SrcDestroy, MessageDone
  <2>1. LgTyped'
    <3> DEFINE once == MessageDone(lgq)
               twice == MessageDone(once)
    <3>1. once \in Seq(Nat) /\ Len(once) <= Len(lgq)
      BY DoneTyped DEF LgTyped
    <3>2. twice \in Seq(Nat) /\ Len(twice) <= Len(once)
      BY <3>1, DoneTyped
    <3>3. lgq' = once \/ lgq' = twice
      OBVIOUS
    <3>4. lgq' \in Seq(Nat) /\ Len(lgq) \in Nat /\ Len(once) \in Nat /\ Len(twice) \in Nat
      BY <3>1, <3>2, <3>3, LenTyped DEF LgTyped
    <3> HIDE DEF once, twice
    <3>5. Len(lgq') <= Len(lgq)
      BY <3>1, <3>2, <3>3, <3>4
    <3>6. Len(lgq') <= QLen
      BY <3>3, <3>4, <3>5 DEF LgTyped
    <3> QED
      BY <3>4, <3>6 DEF LgTyped
  <2>2. SrcTyped'
    <3>1. fetched' \in Nat /\ fb' \in Nat
      BY TailFacts DEF LgTyped
    <3> QED
      BY <3>1 DEF SrcTyped
  <2>3. NetTyped'
    <3>1. Send(toSink, Plain("bye")) \in Seq(SinkMsg)
      BY MsgTypes, SendTyped DEF NetTyped
    <3>2. toSink' \in {toSink, Send(toSink, Plain("bye"))} /\ toSource' \in {toSource, <<>>} /\ link' = link
      OBVIOUS
    <3> QED
      BY <3>1, <3>2, EmptyTyped DEF NetTyped
  <2> QED
    BY <2>1, <2>2, <2>3 DEF SnkTyped, ShmTyped, HistTyped
<1>12. CASE SrcSendDone
  <2> USE <1>12 DEF SrcSendDone, RdmaWrite, MessageDone, Acknowledge
  <2>1. LgTyped'
    BY TailFacts, AppendFacts, DoneTyped DEF LgTyped
  <2>2. SrcTyped'
    BY DEF SrcTyped
  <2>3. NetTyped'
    <3>1. Append(toSink, Plain("ack")) \in Seq(SinkMsg)
      BY MsgTypes, AppendFacts DEF NetTyped
    <3>2. toSink' \in Seq(SinkMsg)
      BY <3>1 DEF NetTyped
    <3> QED
      BY <3>2 DEF NetTyped
  <2>4. ShmTyped'
    BY DEF ShmTyped, SrcTyped, Request
  <2>5. HistTyped'
    <3>1. latest' \in Nat /\ known' \in Nat
      BY DEF SrcTyped
    <3>2. landed' \in BOOLEAN /\ overran' \in BOOLEAN
      BY Zenon DEF HistTyped
    <3>3. unacked' \in BOOLEAN
      BY DEF HistTyped
    <3> QED
      BY <3>1, <3>2, <3>3 DEF HistTyped
  <2> QED
    BY <2>1, <2>2, <2>3, <2>4, <2>5 DEF SnkTyped
<1>13. CASE SrcSendFail
  <2> USE <1>13 DEF SrcSendFail, SrcDestroy
  <2>1. SrcTyped'
    BY DEF SrcTyped
  <2>2. NetTyped'
    BY MsgTypes, SendTyped, TailFacts DEF NetTyped
  <2> QED
    BY <2>1, <2>2 DEF LgTyped, SnkTyped, ShmTyped, HistTyped
<1>14. CASE SnkQuit
  <2> USE <1>14 DEF SnkQuit, SnkDestroy
  <2>1. SnkTyped'
    BY DEF SnkTyped
  <2>2. NetTyped'
    BY MsgTypes, SendTyped, TailFacts DEF NetTyped
  <2> QED
    BY <2>1, <2>2 DEF LgTyped, SrcTyped, ShmTyped, HistTyped
<1>15. CASE SnkCorrupted
  <2> USE <1>15 DEF SnkCorrupted, SnkReturn
  <2>1. SnkTyped'
    BY DEF SnkTyped
  <2>2. NetTyped'
    BY MsgTypes, SendTyped, TailFacts DEF NetTyped
  <2> QED
    BY <2>1, <2>2 DEF LgTyped, SrcTyped, ShmTyped, HistTyped
<1>16. CASE SnkIdle
  <2> USE <1>16 DEF SnkIdle, SnkDestroy, HostProcess, PurgedQ, PurgedC, Looping
  <2>1. SnkTyped'
    <3>1. ctr' \in 0 .. KeepAlivePeriod - 1
      BY ModRange DEF SnkTyped
    <3>2. kpc' \in {kpc, "end"} /\ state' \in {state, "STOP"}
      OBVIOUS
    <3> QED
      BY <3>1, <3>2 DEF SnkTyped
  <2>2. NetTyped'
    <3>1. Send(toSource, Plain("ka")) \in Seq(SourceMsg) /\ Send(toSource, Plain("bye")) \in Seq(SourceMsg)
      BY MsgTypes, SendTyped DEF NetTyped
    <3>2. /\ toSource' \in {toSource, Send(toSource, Plain("ka")), Send(toSource, Plain("bye"))}
          /\ toSink' \in {toSink, <<>>} /\ link' = link
      BY DEF netVars
    <3> QED
      BY <3>1, <3>2, EmptyTyped DEF NetTyped
  <2>3. ShmTyped'
    BY PostTyped, NextIndexTyped, TailFacts DEF ShmTyped
  <2> QED
    BY <2>1, <2>2, <2>3 DEF LgTyped, SrcTyped, HistTyped
<1>17. CASE SnkServe
  <2> USE <1>17 DEF SnkServe, HostProcess, PurgedQ, PurgedC, Looping
  <2>1. SnkTyped'
    BY DEF SnkTyped
  <2>2. ShmTyped'
    BY PostTyped, NextIndexTyped, TailFacts DEF ShmTyped
  <2> QED
    BY <2>1, <2>2 DEF LgTyped, SrcTyped, NetTyped, HistTyped
<1>18. CASE SnkRequestRefused
  <2> USE <1>18 DEF SnkRequestRefused, SnkDestroy
  <2>1. SnkTyped'
    BY DEF SnkTyped
  <2>2. NetTyped'
    BY MsgTypes, SendTyped, TailFacts DEF NetTyped
  <2> QED
    BY <2>1, <2>2 DEF LgTyped, SrcTyped, ShmTyped, HistTyped
<1>19. CASE SnkRequest
  <2> USE <1>19 DEF SnkRequest, SnkReturn, PurgedQ, PurgedC, Prepare
  <2>1. SnkTyped'
    BY NextIndexTyped DEF SnkTyped
  <2>2. NetTyped'
    <3> DEFINE m == [type |-> "freq", slot |-> NextIndex, cntr |-> frame_cntr]
    <3>1. m \in SourceMsg
      BY NextIndexTyped DEF Request, SourceMsg, SnkTyped
    <3>2. Send(toSource, m) \in Seq(SourceMsg)
      BY <3>1, SendTyped DEF NetTyped
    <3>3. /\ link' \in {link, "down"} /\ toSink' \in {toSink, <<>>}
          /\ toSource' \in {Send(toSource, m), <<>>}
      OBVIOUS
    <3> QED
      BY <3>2, <3>3, EmptyTyped DEF NetTyped
  <2>3. ShmTyped'
    <3>1. PurgedQ \in Seq(Slots) /\ Len(PurgedQ) <= QLen
      BY DEF PurgedQ, ShmTyped
    <3>2. hostQ' \in Seq(Slots) /\ Len(hostQ') <= QLen
      BY <3>1, PostTyped, NextIndexTyped
    <3>3. wp' \in [Slots -> BOOLEAN] /\ client' \in {"none", "live", "dead", "expired"}
      BY NextIndexTyped DEF ShmTyped, Prepare
    <3> QED
      BY <3>2, <3>3 DEF ShmTyped
  <2>4. HistTyped'
    BY DEF HistTyped
  <2> QED
    BY <2>1, <2>2, <2>3, <2>4 DEF LgTyped, SrcTyped
<1>20. CASE SnkAwait
  <2> USE <1>20 DEF SnkAwait, SignalFrameDone, RepeatPost, PurgedC
  <2>1. SnkTyped'
    BY DEF SnkTyped
  <2>2. ShmTyped'
    <3>1. RepeatPost(hostQ, client) \in Seq(Slots) /\ Len(RepeatPost(hostQ, client)) <= QLen
      BY PostTyped DEF RepeatPost, ShmTyped, SnkTyped
    <3>2. hostQ' \in Seq(Slots) /\ Len(hostQ') <= QLen
      BY <3>1
    <3>3. wp' \in [Slots -> BOOLEAN] /\ client' \in {"none", "live", "dead", "expired"}
      BY DEF ShmTyped, SnkTyped
    <3> QED
      BY <3>2, <3>3 DEF ShmTyped
  <2> QED
    BY <2>1, <2>2 DEF LgTyped, SrcTyped, NetTyped, HistTyped
<1>21. CASE SnkReinit
  <2> USE <1>21 DEF SnkReinit, SignalFrameDone
  <2>1. SnkTyped'
    BY DEF SnkTyped
  <2>2. NetTyped'
    <3>1. \/ link' = "down" /\ toSource' = <<>> /\ toSink' = <<>>
          \/ link' = link /\ toSource' = toSource /\ toSink' = toSink
      BY DEF netVars
    <3> QED
      BY <3>1, EmptyTyped DEF NetTyped
  <2>3. ShmTyped'
    <3>1. wp' \in [Slots -> BOOLEAN]
      BY DEF ShmTyped, SnkTyped
    <3>2. hostQ' = <<>> /\ client' = "none" /\ zeroed' \in {zeroed, FALSE} /\ UNCHANGED <<content, shown>>
      OBVIOUS
    <3>3. hostQ' \in Seq(Slots) /\ Len(hostQ') <= QLen
      BY <3>2, EmptyTyped
    <3> QED
      BY <3>1, <3>2, <3>3 DEF ShmTyped
  <2> QED
    BY <2>1, <2>2, <2>3 DEF LgTyped, SrcTyped, HistTyped
<1>22. CASE SnkPollEmpty
  <2> USE <1>22 DEF SnkPollEmpty, SnkReturn
  <2>1. SnkTyped'
    BY DEF SnkTyped
  <2>2. NetTyped'
    <3>1. \/ link' = "down" /\ toSource' = <<>> /\ toSink' = <<>>
          \/ link' = link /\ toSource' = toSource /\ toSink' = toSink
      BY DEF netVars
    <3> QED
      BY <3>1, EmptyTyped DEF NetTyped
  <2> QED
    BY <2>1, <2>2 DEF LgTyped, SrcTyped, ShmTyped, HistTyped
<1>23. CASE SnkPollError
  <2> USE <1>23 DEF SnkPollError, SnkReturn
  <2>1. SnkTyped'
    BY DEF SnkTyped
  <2>2. NetTyped'
    BY MsgTypes, SendTyped, TailFacts DEF NetTyped
  <2> QED
    BY <2>1, <2>2 DEF LgTyped, SrcTyped, ShmTyped, HistTyped
<1>24. CASE SnkPollKeepAlive
  <2> USE <1>24 DEF SnkPollKeepAlive, Received
  <2>1. SnkTyped'
    BY DEF SnkTyped
  <2>2. NetTyped'
    BY MsgTypes, SendTyped, TailFacts DEF NetTyped
  <2> QED
    BY <2>1, <2>2 DEF LgTyped, SrcTyped, ShmTyped, HistTyped
<1>25. CASE SnkPollAck
  <2> USE <1>25 DEF SnkPollAck, Received, SignalFrameDone
  <2>1. SnkTyped'
    <3>1. frame_cntr' \in Serials
      BY ModRange DEF SnkTyped, Serials
    <3> QED
      BY <3>1 DEF SnkTyped
  <2>2. NetTyped'
    BY MsgTypes, SendTyped, TailFacts DEF NetTyped
  <2>3. ShmTyped'
    BY PostTyped, NextIndexTyped, TailFacts DEF ShmTyped
  <2> QED
    BY <2>1, <2>2, <2>3 DEF LgTyped, SrcTyped, HistTyped
<1>26. CASE SnkPollOther
  <2> USE <1>26 DEF SnkPollOther, Received
  <2>1. SnkTyped'
    <3>1. frame_cntr' \in Serials
      BY ModRange DEF SnkTyped, Serials
    <3> QED
      BY <3>1 DEF SnkTyped
  <2>2. NetTyped'
    BY MsgTypes, SendTyped, TailFacts DEF NetTyped
  <2> QED
    BY <2>1, <2>2 DEF LgTyped, SrcTyped, ShmTyped, HistTyped
<1>27. CASE SnkCursorStop
  <2> USE <1>27 DEF SnkCursorStop
  <2>1. SnkTyped'
    BY DEF SnkTyped
  <2> QED
    BY <2>1 DEF LgTyped, SrcTyped, NetTyped, ShmTyped, HistTyped
<1>28. CASE Interrupt
  <2> USE <1>28 DEF Interrupt
  <2>1. SnkTyped'
    BY DEF SnkTyped
  <2> QED
    BY <2>1 DEF LgTyped, SrcTyped, NetTyped, ShmTyped, HistTyped
<1>29. CASE ClientSubscribe
  <2> USE <1>29 DEF ClientSubscribe
  <2>1. ShmTyped'
    BY PostTyped, NextIndexTyped, TailFacts DEF ShmTyped
  <2> QED
    BY <2>1 DEF LgTyped, SrcTyped, NetTyped, SnkTyped, HistTyped
<1>30. CASE ClientRead
  <2> USE <1>30 DEF ClientRead
  <2>1. ShmTyped'
    BY PostTyped, NextIndexTyped, TailFacts DEF ShmTyped
  <2> QED
    BY <2>1 DEF LgTyped, SrcTyped, NetTyped, SnkTyped, HistTyped
<1>31. CASE ClientDie
  <2> USE <1>31 DEF ClientDie
  <2>1. ShmTyped'
    BY PostTyped, NextIndexTyped, TailFacts DEF ShmTyped
  <2> QED
    BY <2>1 DEF LgTyped, SrcTyped, NetTyped, SnkTyped, HistTyped
<1>32. CASE ClientTimeout
  <2> USE <1>32 DEF ClientTimeout
  <2>1. ShmTyped'
    BY PostTyped, NextIndexTyped, TailFacts DEF ShmTyped
  <2> QED
    BY <2>1 DEF LgTyped, SrcTyped, NetTyped, SnkTyped, HistTyped
<1>33. CASE MemoryZeroed
  <2> USE <1>33 DEF MemoryZeroed
  <2>1. ShmTyped'
    BY PostTyped, NextIndexTyped, TailFacts DEF ShmTyped
  <2> QED
    BY <2>1 DEF LgTyped, SrcTyped, NetTyped, SnkTyped, HistTyped
<1>34. CASE LinkFail
  <2> USE <1>34 DEF LinkFail, LinkDown
  <2>1. NetTyped'
    BY MsgTypes, SendTyped, TailFacts DEF NetTyped
  <2> QED
    BY <2>1 DEF LgTyped, SrcTyped, SnkTyped, ShmTyped, HistTyped
<1>35. CASE PeerClosed
  <2> USE <1>35 DEF PeerClosed, LinkDown
  <2>1. NetTyped'
    BY MsgTypes, SendTyped, TailFacts DEF NetTyped
  <2> QED
    BY <2>1 DEF LgTyped, SrcTyped, SnkTyped, ShmTyped, HistTyped
<1>36. CASE UNCHANGED vars
  BY <1>36 DEF vars, LgTyped, SrcTyped, NetTyped, SnkTyped, ShmTyped, HistTyped
<1> QED
  BY <1>1, <1>2, <1>3, <1>4, <1>5, <1>6, <1>7, <1>8, <1>9, <1>10, <1>11, <1>12, <1>13,
     <1>14, <1>15, <1>16, <1>17, <1>18, <1>19, <1>20, <1>21, <1>22, <1>23, <1>24, <1>25,
     <1>26, <1>27, <1>28, <1>29, <1>30, <1>31, <1>32, <1>33, <1>34, <1>35, <1>36
     DEF Next, Source, SourceRun, SinkStep, Ended

-----------------------------------------------------------------------------
(* What taking, adding and clearing does to the predicates on channels. *)
LEMMA Emptied ==
  ASSUME NEW t, NEW s
  PROVE  ~Has(<<>>, t) /\ Once(<<>>, t) /\ NothingAfterBye(<<>>) /\ FreqFor(<<>>, s)
BY DEF Has, Once, NothingAfterBye, FreqFor

(* Taking the first message of a channel. *)
LEMMA Taken ==
  ASSUME NEW S, NEW q \in Seq(S), q # <<>>, NEW t, NEW s
  PROVE  /\ Has(Tail(q), t) => Has(q, t)
         /\ Once(q, t) => Once(Tail(q), t)
         /\ Once(q, t) /\ Head(q).type = t => ~Has(Tail(q), t)
         /\ Head(q).type = t => Has(q, t)
         /\ NothingAfterBye(q) => NothingAfterBye(Tail(q))
         /\ NothingAfterBye(q) /\ Head(q).type = "bye" => Tail(q) = <<>>
         /\ FreqFor(q, s) => FreqFor(Tail(q), s)
         /\ FreqFor(q, s) /\ Head(q).type = "freq" => Head(q).slot = s
BY TailFacts DEF Has, Once, NothingAfterBye, FreqFor

(* Adding a message to a channel. *)
LEMMA Added ==
  ASSUME NEW S, NEW q \in Seq(S), NEW m \in S, NEW t, NEW s
  PROVE  /\ Has(Append(q, m), t) <=> Has(q, t) \/ m.type = t
         /\ Once(q, t) /\ (m.type # t \/ ~Has(q, t)) => Once(Append(q, m), t)
         /\ NothingAfterBye(q) /\ ~Has(q, "bye") => NothingAfterBye(Append(q, m))
         /\ FreqFor(q, s) /\ (m.type = "freq" => m.slot = s) => FreqFor(Append(q, m), s)
BY AppendFacts DEF Has, Once, NothingAfterBye, FreqFor

(* The part of IInv about the request; FramesOrdered is the other. *)
RequestInv == OneRequest /\ ChannelsDrained /\ ByeIsLast /\ RequestCurrent

(* Steps that neither send nor receive, nor start or end a wait of the
   sink, keep the request's invariant. *)
LEMMA Quiet ==
  ASSUME RequestInv, UNCHANGED <<spc, req, link, toSource, toSink, frame_index, landed>>,
         kpc' = kpc \/ (kpc \in {"loop", "request"} /\ kpc' \in {"loop", "request"})
                    \/ (Awaiting /\ Awaiting')
  PROVE  RequestInv'
BY DEF RequestInv, OneRequest, ChannelsDrained, ByeIsLast, RequestCurrent, Serving,
   Awaiting, Has, Once, NothingAfterBye, FreqFor

(* The source's destroy_ctx keeps the request's invariant. *)
LEMMA SourceEnds ==
  ASSUME TypeOK, RequestInv, SrcDestroy, spc # "end",
         UNCHANGED <<link, req, kpc, frame_index, landed>>
  PROVE  RequestInv'
<1> DEFINE bye == Plain("bye")
<1> USE DEF RequestInv
<1>1. /\ ~Has(toSource', "freq") /\ Once(toSource', "freq") /\ FreqFor(toSource', frame_index')
      /\ toSource' = <<>> /\ spc' = "end"
  BY Emptied DEF SrcDestroy
<1>2. bye \in SinkMsg /\ bye.type = "bye" /\ toSink \in Seq(SinkMsg)
  BY MsgTypes DEF TypeOK, NetTyped, Plain
<1>3. /\ Has(toSink', "ack") <=> Has(toSink, "ack")
      /\ Once(toSink', "ack") /\ NothingAfterBye(toSink')
      /\ Connected \/ toSink' = toSink
  <2>1. CASE Connected
    <3>1. toSink' = Append(toSink, bye)
      BY <2>1 DEF SrcDestroy, Send
    <3>2. ~Has(toSink, "bye") /\ NothingAfterBye(toSink) /\ Once(toSink, "ack")
      BY DEF ByeIsLast, OneRequest
    <3> HIDE DEF bye
    <3> QED
      BY <1>2, <2>1, <3>1, <3>2, Added
  <2>2. CASE ~Connected
    BY <2>2 DEF SrcDestroy, Send, OneRequest, ByeIsLast
  <2> QED
    BY <2>1, <2>2
<1>4. OneRequest'
  BY <1>1, <1>3 DEF OneRequest, Serving, Awaiting
<1>5. ChannelsDrained'
  BY <1>1, <1>3 DEF ChannelsDrained, Connected
<1>6. ByeIsLast'
  BY <1>1, <1>3 DEF ByeIsLast
<1>7. RequestCurrent'
  BY <1>1, <1>3 DEF RequestCurrent, Serving, Awaiting
<1> QED
  BY <1>4, <1>5, <1>6, <1>7

(* Either end of the sink keeps the request's invariant. *)
LEMMA SinkEnds ==
  ASSUME TypeOK, RequestInv, SnkDestroy \/ SnkReturn,
         UNCHANGED <<spc, req>>
  PROVE  RequestInv'
<1> DEFINE bye == Plain("bye")
<1> USE DEF RequestInv
<1>1. /\ ~Has(toSink', "ack") /\ Once(toSink', "ack")
      /\ NothingAfterBye(toSink') /\ ~Has(toSink', "bye")
      /\ toSink' = <<>> /\ kpc' = "end"
  BY Emptied DEF SnkDestroy, SnkReturn
<1>2. bye \in SourceMsg /\ bye.type = "bye" /\ toSource \in Seq(SourceMsg)
  BY MsgTypes DEF TypeOK, NetTyped, Plain
<1>3. /\ Has(toSource', "freq") => Has(toSource, "freq")
      /\ Once(toSource', "freq")
      /\ Connected \/ toSource' \in {toSource, <<>>}
      /\ link' = "down" => toSource' = <<>>
  <2>1. CASE SnkDestroy /\ Connected
    <3>1. toSource' = Append(toSource, bye) /\ link' = "up"
      BY <2>1 DEF SnkDestroy, Send, Connected
    <3>2. Once(toSource, "freq")
      BY DEF OneRequest
    <3> HIDE DEF bye
    <3> QED
      BY <1>2, <2>1, <3>1, <3>2, Added
  <2>2. CASE SnkDestroy /\ ~Connected
    BY <2>2 DEF SnkDestroy, Send, OneRequest, ChannelsDrained
  <2>3. CASE SnkReturn
    BY <2>3, Emptied DEF SnkReturn
  <2> QED
    BY <2>1, <2>2, <2>3
<1>4. OneRequest'
  BY <1>1, <1>3 DEF OneRequest, Serving, Awaiting
<1>5. ChannelsDrained'
  BY <1>1, <1>3 DEF ChannelsDrained, Connected
<1>6. ByeIsLast'
  BY <1>1 DEF ByeIsLast
<1>7. RequestCurrent'
  BY <1>1 DEF RequestCurrent
<1> QED
  BY <1>4, <1>5, <1>6, <1>7

(* A broken connection keeps the request's invariant. *)
LEMMA ConnectionEnds ==
  ASSUME RequestInv, LinkDown
  PROVE  RequestInv'
<1> USE DEF RequestInv
<1>1. /\ toSource' = <<>> /\ toSink' = <<>> /\ link' = "down"
      /\ UNCHANGED <<spc, kpc, req, frame_index, landed>>
  BY DEF LinkDown, srcSide, srcVars, snkVars, histVars
<1>2. /\ ~Has(toSource', "freq") /\ ~Has(toSink', "ack") /\ ~Has(toSink', "bye")
      /\ Once(toSource', "freq") /\ Once(toSink', "ack") /\ NothingAfterBye(toSink')
  BY <1>1, Emptied
<1> QED
  BY <1>1, <1>2 DEF OneRequest, ChannelsDrained, ByeIsLast, RequestCurrent, Serving,
     Awaiting

(* Every step keeps the request's invariant. *)
LEMMA RequestStep == TypeOK /\ RequestInv /\ [Next]_vars => RequestInv'
<1> SUFFICES ASSUME TypeOK, RequestInv, [Next]_vars PROVE RequestInv'
  OBVIOUS
<1> USE DEF srcRest, buffers, srcSide, loopVars, memVars, pollRest, clientRest,
            lgVars, srcVars, netVars, snkVars, shmVars, histVars, signals
<1>1. CASE HostPost
  BY <1>1, Quiet DEF HostPost, Awaiting
<1>2. CASE HostDropsSource
  BY <1>2, Quiet DEF HostDropsSource, Awaiting
<1>3. CASE SrcQuit
  BY <1>3, SourceEnds DEF SrcQuit
<1>4. CASE SrcPollError
  BY <1>4, SourceEnds DEF SrcPollError
<1>5. CASE SrcRecvKeepAlive
  <2>1. /\ toSource' = Tail(toSource) /\ toSource # <<>> /\ Head(toSource).type = "ka"
        /\ UNCHANGED <<spc, req, link, toSink, kpc, frame_index, landed>>
    BY <1>5 DEF SrcRecvKeepAlive
  <2>2. toSource \in Seq(SourceMsg)
    BY DEF TypeOK, NetTyped
  <2>3. /\ Has(toSource', "freq") => Has(toSource, "freq")
        /\ Once(toSource, "freq") => Once(toSource', "freq")
        /\ FreqFor(toSource, frame_index) => FreqFor(toSource', frame_index)
    BY <2>1, <2>2, Taken
  <2>4. toSource = <<>> => toSource' = <<>>
    BY <2>1
  <2> QED
    BY <2>1, <2>2, <2>3, <2>4 DEF RequestInv, OneRequest, ChannelsDrained, ByeIsLast,
       RequestCurrent, Serving, Awaiting
<1>6. CASE SrcRecvDisconnect
  BY <1>6, SourceEnds DEF SrcRecvDisconnect
<1>7. CASE SrcRecvFrameReq
  <2>1. /\ toSource' = Tail(toSource) /\ toSource # <<>> /\ Head(toSource).type = "freq"
        /\ req' = Head(toSource) /\ spc = "poll" /\ spc' = "get"
        /\ UNCHANGED <<link, toSink, kpc, frame_index, landed>>
    BY <1>7 DEF SrcRecvFrameReq
  <2>2. toSource \in Seq(SourceMsg)
    BY DEF TypeOK, NetTyped
  <2>3. /\ Has(toSource, "freq")
        /\ Once(toSource, "freq") => ~Has(toSource', "freq") /\ Once(toSource', "freq")
        /\ FreqFor(toSource, frame_index) => req'.slot = frame_index
    BY <2>1, <2>2, Taken
  <2>4. toSource # <<>> /\ (link = "down" => toSource = <<>>) => link # "down"
    BY <2>1
  <2> QED
    BY <2>1, <2>2, <2>3, <2>4 DEF RequestInv, OneRequest, ChannelsDrained, ByeIsLast,
       RequestCurrent, Serving, Awaiting
<1>8. CASE SrcGetKeepAlive
  <2>1. CASE spc' = "end"
    <3>1. /\ link = "down" /\ spc = "get"
          /\ UNCHANGED <<link, toSource, toSink, req, kpc, frame_index, landed>>
      BY <1>8, <2>1 DEF SrcGetKeepAlive
    <3>2. toSource = <<>> /\ toSink = <<>>
      BY <3>1 DEF RequestInv, ChannelsDrained
    <3>3. ~Has(toSource, "freq") /\ ~Has(toSink, "ack") /\ ~Has(toSink, "bye")
      BY <3>2, Emptied
    <3> QED
      BY <2>1, <3>1, <3>2, <3>3 DEF RequestInv, OneRequest, ChannelsDrained, ByeIsLast,
         RequestCurrent, Serving, Awaiting
  <2>2. CASE spc' # "end"
    <3> DEFINE ka == Plain("ka")
    <3>1. /\ link = "up" /\ spc = "get" /\ toSink' = Send(toSink, ka)
          /\ UNCHANGED <<spc, link, toSource, req, kpc, frame_index, landed>>
      BY <1>8, <2>2 DEF SrcGetKeepAlive
    <3>2. ka \in SinkMsg /\ ka.type = "ka" /\ toSink \in Seq(SinkMsg)
      BY MsgTypes DEF TypeOK, NetTyped, Plain
    <3>3. CASE ~Connected
      BY <3>1, <3>3, Quiet DEF Send
    <3>4. CASE Connected
      <4>1. toSink' = Append(toSink, ka)
        BY <3>1, <3>4 DEF Send
      <4>2. ~Has(toSink, "bye") /\ NothingAfterBye(toSink) /\ Once(toSink, "ack")
        BY <3>4 DEF RequestInv, ByeIsLast, OneRequest, Connected
      <4> HIDE DEF ka
      <4>3. /\ Has(toSink', "ack") <=> Has(toSink, "ack")
            /\ ~Has(toSink', "bye") /\ NothingAfterBye(toSink') /\ Once(toSink', "ack")
        BY <3>2, <4>1, <4>2, Added
      <4> QED
        BY <3>1, <3>4, <4>3 DEF RequestInv, OneRequest, ChannelsDrained, ByeIsLast,
           RequestCurrent, Serving, Awaiting, Connected
    <3> QED
      BY <3>3, <3>4
  <2> QED
    BY <2>1, <2>2
<1>9. CASE SrcResubscribe
  BY <1>9, Quiet DEF SrcResubscribe, Awaiting
<1>10. CASE SrcGetError
  BY <1>10, SourceEnds DEF SrcGetError
<1>11. CASE SrcGetFrame
  <2>1. CASE SrcDestroy
    BY <1>11, <2>1, SourceEnds DEF SrcGetFrame
  <2>2. CASE ~SrcDestroy
    <3>1. /\ spc = "get" /\ spc' \in {"get", "progress"}
          /\ UNCHANGED <<req, link, toSource, toSink, kpc, frame_index, landed>>
      BY <1>11, <2>2 DEF SrcGetFrame
    <3> QED
      BY <3>1 DEF RequestInv, OneRequest, ChannelsDrained, ByeIsLast, RequestCurrent,
         Serving, Awaiting
  <2> QED
    BY <2>1, <2>2
<1>12. CASE SrcSendDone
  <2> DEFINE ack == Plain("ack")
  <2>1. /\ spc = "progress" /\ spc' = "poll" /\ link = "up" /\ kpc # "end"
        /\ toSink' = Append(toSink, ack) \/ toSink' = toSink
        /\ landed' = (landed \/ (Awaiting /\ req.slot = frame_index))
        /\ UNCHANGED <<req, link, toSource, kpc, frame_index>>
    BY <1>12 DEF SrcSendDone, RdmaWrite, Acknowledge
  <2>2. ack \in SinkMsg /\ ack.type = "ack" /\ toSink \in Seq(SinkMsg)
    BY MsgTypes DEF TypeOK, NetTyped, Plain
  <2>3. /\ ~Has(toSource, "freq") /\ ~Has(toSink, "ack") /\ ~Has(toSink, "bye")
        /\ NothingAfterBye(toSink) /\ Once(toSink, "ack")
    BY <2>1 DEF RequestInv, OneRequest, ByeIsLast, Serving
  <2> HIDE DEF ack
  <2>4. ~Has(toSink', "bye") /\ NothingAfterBye(toSink') /\ Once(toSink', "ack")
    BY <2>1, <2>2, <2>3, Added
  <2>5. landed' /\ Awaiting
    BY <2>1 DEF RequestInv, RequestCurrent, Serving
  <2> QED
    BY <2>1, <2>3, <2>4, <2>5 DEF RequestInv, OneRequest, ChannelsDrained, ByeIsLast,
       RequestCurrent, Serving, Awaiting
<1>13. CASE SrcSendFail
  BY <1>13, SourceEnds DEF SrcSendFail
<1>14. CASE SnkQuit
  BY <1>14, SinkEnds DEF SnkQuit
<1>15. CASE SnkCorrupted
  BY <1>15, SinkEnds DEF SnkCorrupted
<1>16. CASE SnkIdle
  <2>1. CASE SnkDestroy
    BY <1>16, <2>1, SinkEnds DEF SnkIdle
  <2>2. CASE ~SnkDestroy
    <3> DEFINE ka == Plain("ka")
    <3>1. /\ kpc = "loop" /\ toSource' \in {toSource, Send(toSource, ka)}
          /\ UNCHANGED <<spc, req, link, toSink, kpc, frame_index, landed>>
      BY <1>16, <2>2 DEF SnkIdle, Looping
    <3>2. ka \in SourceMsg /\ ka.type = "ka" /\ toSource \in Seq(SourceMsg)
      BY MsgTypes DEF TypeOK, NetTyped, Plain
    <3>3. CASE toSource' = toSource
      BY <3>1, <3>3, Quiet
    <3>4. CASE toSource' = Send(toSource, ka) /\ Connected
      <4>1. toSource' = Append(toSource, ka)
        BY <3>4 DEF Send
      <4>2. Once(toSource, "freq")
        BY DEF RequestInv, OneRequest
      <4> HIDE DEF ka
      <4>3. (Has(toSource', "freq") <=> Has(toSource, "freq")) /\ Once(toSource', "freq")
        BY <3>2, <4>1, <4>2, Added
      <4> QED
        BY <3>1, <3>4, <4>3 DEF RequestInv, OneRequest, ChannelsDrained, ByeIsLast,
           RequestCurrent, Serving, Awaiting, Connected
    <3>5. CASE toSource' = Send(toSource, ka) /\ ~Connected
      BY <3>1, <3>3, <3>5 DEF Send
    <3> QED
      BY <3>1, <3>3, <3>4, <3>5
  <2> QED
    BY <2>1, <2>2
<1>17. CASE SnkServe
  BY <1>17, Quiet DEF SnkServe, Awaiting, Looping
<1>18. CASE SnkRequestRefused
  BY <1>18, SinkEnds DEF SnkRequestRefused
<1>19. CASE SnkRequest
  <2>1. CASE SnkReturn
    BY <1>19, <2>1, SinkEnds DEF SnkRequest
  <2>2. CASE ~SnkReturn
    <3> DEFINE m == [type |-> "freq", slot |-> NextIndex, cntr |-> frame_cntr]
    <3>1. /\ kpc = "request" /\ kpc' = "await" /\ link = "up"
          /\ toSource' = Send(toSource, m) /\ frame_index' = NextIndex /\ landed' = FALSE
          /\ UNCHANGED <<spc, req, link, toSink>>
      BY <1>19, <2>2 DEF SnkRequest
    <3>2. m \in SourceMsg /\ m.type = "freq" /\ m.slot = NextIndex /\ toSource \in Seq(SourceMsg)
      BY NextIndexTyped DEF TypeOK, NetTyped, SnkTyped, SourceMsg, Request
    <3>3. ~Has(toSink, "ack") /\ (Has(toSource, "freq") \/ Serving => spc = "end")
      BY <3>1 DEF RequestInv, OneRequest, RequestCurrent, Awaiting
    <3>4. ~Has(toSource, "freq") /\ ~Serving
      <4>1. spc = "end" => ~Has(toSource, "freq")
        BY Emptied DEF RequestInv, ChannelsDrained
      <4> QED
        BY <3>3, <4>1 DEF Serving
    <3>5. CASE Connected
      <4>1. toSource' = Append(toSource, m)
        BY <3>1, <3>5 DEF Send
      <4>2. Once(toSource, "freq") /\ FreqFor(toSource, NextIndex)
        BY <3>4 DEF RequestInv, OneRequest, Has, FreqFor
      <4> HIDE DEF m
      <4>3. Once(toSource', "freq") /\ FreqFor(toSource', NextIndex)
        BY <3>2, <3>4, <4>1, <4>2, Added
      <4> QED
        BY <3>1, <3>3, <3>4, <3>5, <4>3 DEF RequestInv, OneRequest, ChannelsDrained,
           ByeIsLast, RequestCurrent, Serving, Awaiting, Connected
    <3>6. CASE ~Connected
      <4>1. toSource' = toSource
        BY <3>1, <3>6 DEF Send
      <4> QED
        BY <3>1, <3>3, <3>4, <4>1 DEF RequestInv, OneRequest, ChannelsDrained, ByeIsLast,
           RequestCurrent, Serving, Awaiting
    <3> QED
      BY <3>5, <3>6
  <2> QED
    BY <2>1, <2>2
<1>20. CASE SnkAwait
  BY <1>20, Quiet DEF SnkAwait, Awaiting
<1>21. CASE SnkReinit
  <2>1. CASE kpc' = "end"
    <3>1. /\ toSource' = <<>> /\ toSink' = <<>> /\ link' = "down"
          /\ UNCHANGED <<spc, req, frame_index, landed>>
      BY <1>21, <2>1 DEF SnkReinit
    <3>2. /\ ~Has(toSource', "freq") /\ ~Has(toSink', "ack") /\ ~Has(toSink', "bye")
          /\ Once(toSource', "freq") /\ Once(toSink', "ack") /\ NothingAfterBye(toSink')
      BY <3>1, Emptied
    <3> QED
      BY <2>1, <3>1, <3>2 DEF RequestInv, OneRequest, ChannelsDrained, ByeIsLast,
         RequestCurrent, Serving, Awaiting
  <2>2. CASE kpc' # "end"
    BY <1>21, <2>2, Quiet DEF SnkReinit, Awaiting
  <2> QED
    BY <2>1, <2>2
<1>22. CASE SnkPollEmpty
  <2>1. CASE SnkReturn
    BY <1>22, <2>1, SinkEnds DEF SnkPollEmpty
  <2>2. CASE ~SnkReturn
    BY <1>22, <2>2, Quiet DEF SnkPollEmpty, Awaiting
  <2> QED
    BY <2>1, <2>2
<1>23. CASE SnkPollError
  BY <1>23, SinkEnds DEF SnkPollError
<1>24. CASE SnkPollKeepAlive
  <2>1. /\ kpc = "poll" /\ kpc' = "await" /\ toSink' = Tail(toSink) /\ toSink # <<>> /\ Head(toSink).type = "ka"
        /\ UNCHANGED <<spc, req, link, toSource, frame_index, landed>>
    BY <1>24 DEF SnkPollKeepAlive, Received
  <2>2. toSink \in Seq(SinkMsg)
    BY DEF TypeOK, NetTyped
  <2>3. /\ Has(toSink', "ack") => Has(toSink, "ack")
        /\ Has(toSink', "bye") => Has(toSink, "bye")
        /\ Has(toSink, "ka")
        /\ Once(toSink, "ack") => Once(toSink', "ack")
        /\ NothingAfterBye(toSink) => NothingAfterBye(toSink')
    BY <2>1, <2>2, Taken
  <2>4. toSink # <<>>
    BY <2>1
  <2> QED
    BY <2>1, <2>2, <2>3, <2>4 DEF RequestInv, OneRequest, ChannelsDrained, ByeIsLast,
       RequestCurrent, Serving, Awaiting
<1>25. CASE SnkPollAck
  <2>1. /\ kpc = "poll" /\ kpc' = "loop" /\ toSink' = Tail(toSink) /\ toSink # <<>> /\ Head(toSink).type = "ack"
        /\ UNCHANGED <<spc, req, link, toSource, frame_index, landed>>
    BY <1>25 DEF SnkPollAck, Received
  <2>2. toSink \in Seq(SinkMsg)
    BY DEF TypeOK, NetTyped
  <2>3. /\ Has(toSink', "ack") => Has(toSink, "ack")
        /\ Has(toSink', "bye") => Has(toSink, "bye")
        /\ Has(toSink, "ack")
        /\ Once(toSink, "ack") => Once(toSink', "ack")
        /\ NothingAfterBye(toSink) => NothingAfterBye(toSink')
    BY <2>1, <2>2, Taken
  <2>4. Once(toSink, "ack") => ~Has(toSink', "ack")
    BY <2>1, <2>2, Taken
  <2> QED
    BY <2>1, <2>2, <2>3, <2>4 DEF RequestInv, OneRequest, ChannelsDrained, ByeIsLast,
       RequestCurrent, Serving, Awaiting
<1>26. CASE SnkPollOther
  <2>1. /\ kpc = "poll" /\ kpc' = "loop" /\ toSink' = Tail(toSink) /\ toSink # <<>> /\ Head(toSink).type = "bye"
        /\ UNCHANGED <<spc, req, link, toSource, frame_index, landed>>
    BY <1>26 DEF SnkPollOther, Received
  <2>2. toSink \in Seq(SinkMsg)
    BY DEF TypeOK, NetTyped
  <2>3. /\ Has(toSink', "ack") => Has(toSink, "ack")
        /\ Has(toSink', "bye") => Has(toSink, "bye")
        /\ Has(toSink, "bye")
        /\ Once(toSink, "ack") => Once(toSink', "ack")
        /\ NothingAfterBye(toSink) => NothingAfterBye(toSink')
    BY <2>1, <2>2, Taken
  <2>4. NothingAfterBye(toSink) => ~Has(toSink', "ack")
    BY <2>1, <2>2, Taken, Emptied
  <2>5. spc = "end" /\ toSource = <<>>
    BY <2>3 DEF RequestInv, ByeIsLast, ChannelsDrained
  <2>6. ~Has(toSource, "freq")
    BY <2>5, Emptied
  <2> QED
    BY <2>1, <2>2, <2>3, <2>4, <2>5, <2>6 DEF RequestInv, OneRequest, ChannelsDrained,
       ByeIsLast, RequestCurrent, Serving, Awaiting
<1>27. CASE SnkCursorStop
  BY <1>27, Quiet DEF SnkCursorStop, Awaiting
<1>28. CASE Interrupt
  BY <1>28, Quiet DEF Interrupt, Awaiting
<1>29. CASE ClientSubscribe
  BY <1>29, Quiet DEF ClientSubscribe, Awaiting
<1>30. CASE ClientRead
  BY <1>30, Quiet DEF ClientRead, Awaiting
<1>31. CASE ClientDie
  BY <1>31, Quiet DEF ClientDie, Awaiting
<1>32. CASE ClientTimeout
  BY <1>32, Quiet DEF ClientTimeout, Awaiting
<1>33. CASE MemoryZeroed
  BY <1>33, Quiet DEF MemoryZeroed, Awaiting
<1>34. CASE LinkFail
  BY <1>34, ConnectionEnds DEF LinkFail
<1>35. CASE PeerClosed
  BY <1>35, ConnectionEnds DEF PeerClosed
<1>36. CASE UNCHANGED vars
  BY <1>36, Quiet DEF vars
<1> QED
  BY <1>1, <1>2, <1>3, <1>4, <1>5, <1>6, <1>7, <1>8, <1>9, <1>10, <1>11, <1>12, <1>13,
     <1>14, <1>15, <1>16, <1>17, <1>18, <1>19, <1>20, <1>21, <1>22, <1>23, <1>24, <1>25,
     <1>26, <1>27, <1>28, <1>29, <1>30, <1>31, <1>32, <1>33, <1>34, <1>35, <1>36
     DEF Next, Source, SourceRun, SinkStep, Ended

(* FramesOrdered: five actions touch the frames, the others leave them. *)
LEMMA FramesQuiet ==
  ASSUME FramesOrdered, UNCHANGED <<produced, lgq, fetched, fb, fb_offset, known, overran, latest>>,
         spc' = spc \/ spc' \notin {"get", "progress"}
  PROVE  FramesOrdered'
BY DEF FramesOrdered, Serving

(* lgmpClientMessageDone keeps a queue of frames ordered and above what
   was taken. *)
LEMMA DoneOrdered ==
  ASSUME NEW q \in Seq(Nat), NEW lo, NEW hi,
         \A i \in 1 .. Len(q) : lo < q[i] /\ q[i] <= hi,
         \A i, j \in 1 .. Len(q) : i < j => q[i] < q[j]
  PROVE  /\ \A i \in 1 .. Len(MessageDone(q)) : lo < MessageDone(q)[i] /\ MessageDone(q)[i] <= hi
         /\ \A i,
            j \in 1 .. Len(MessageDone(q)) : i < j => MessageDone(q)[i] < MessageDone(q)[j]
         /\ q # <<>> => \A i \in 1 .. Len(MessageDone(q)) : Head(q) < MessageDone(q)[i]
<1>1. CASE q = <<>>
  BY <1>1 DEF MessageDone
<1>2. CASE q # <<>>
  <2>1. MessageDone(q) = Tail(q)
    BY <1>2 DEF MessageDone
  <2>2. /\ Len(q) \in Nat \ {0} /\ Len(Tail(q)) = Len(q) - 1 /\ Head(q) = q[1]
        /\ \A i \in 1 .. Len(q) - 1 : Tail(q)[i] = q[i + 1]
    BY <1>2, TailFacts
  <2> QED
    BY <2>1, <2>2
<1> QED
  BY <1>1, <1>2

(* Every step keeps the frames in order. *)
LEMMA FramesStep == TypeOK /\ FramesOrdered /\ [Next]_vars => FramesOrdered'
<1> SUFFICES ASSUME TypeOK, FramesOrdered, [Next]_vars PROVE FramesOrdered'
  OBVIOUS
<1>1. CASE HostPost
  <2>1. /\ produced' = produced + 1 /\ lgq' \in {lgq, Append(lgq, produced + 1)}
        /\ UNCHANGED <<spc, fetched, latest, known, overran>>
        /\ fb' \in {fb, produced + 1} /\ fb_offset' \in {fb_offset, produced + 1}
    BY <1>1 DEF HostPost, Filled, histVars
  <2>2. lgq \in Seq(Nat) /\ produced \in Nat /\ produced + 1 \in Nat /\ fetched \in Nat /\ latest \in Nat
        /\ fb \in Nat /\ fb_offset \in Nat /\ known \in Nat
    BY DEF TypeOK, LgTyped, SrcTyped, HistTyped
  <2>3. \A i \in 1 .. Len(lgq) : lgq[i] \in Nat
    BY <2>2
  <2>6. /\ fetched' <= fb' /\ fb' <= produced'
        /\ known' <= fetched' /\ (Serving' => known' <= fb_offset')
        /\ (spc' = "progress" => known' < fetched')
    BY <2>1, <2>2 DEF FramesOrdered, Serving
  <2>7. ~overran' => latest' < known'
    BY <2>1 DEF FramesOrdered
  <2>4. CASE lgq' = lgq
    BY <2>1, <2>2, <2>3, <2>4, <2>6, <2>7 DEF FramesOrdered
  <2>5. CASE lgq' = Append(lgq, produced + 1)
    <3>1. /\ Len(lgq) \in Nat /\ Len(lgq') = Len(lgq) + 1
          /\ \A i \in 1 .. Len(lgq) : lgq'[i] = lgq[i]
          /\ lgq'[Len(lgq) + 1] = produced + 1
      BY <2>2, <2>5, AppendFacts
    <3>2. \A i \in 1 .. Len(lgq') : i \in 1 .. Len(lgq) \/ i = Len(lgq) + 1
      BY <3>1
    <3>3. \A i \in 1 .. Len(lgq) : lgq'[i] <= produced /\ fetched < lgq'[i] /\ lgq'[i] \in Nat
      BY <2>2, <2>3, <3>1 DEF FramesOrdered
    <3>4. fetched <= produced
      BY <2>2 DEF FramesOrdered
    <3>5. \A i \in 1 .. Len(lgq') : fetched < lgq'[i] /\ lgq'[i] <= produced + 1
      BY <2>2, <3>1, <3>2, <3>3, <3>4
    <3>6. ASSUME NEW i \in 1 .. Len(lgq'), NEW j \in 1 .. Len(lgq'), i < j
          PROVE  lgq'[i] < lgq'[j]
      <4>1. i \in 1 .. Len(lgq)
        BY <3>1, <3>6
      <4>2. CASE j \in 1 .. Len(lgq)
        BY <3>1, <3>6, <4>1, <4>2 DEF FramesOrdered
      <4>3. CASE j = Len(lgq) + 1
        BY <2>2, <3>1, <3>3, <4>1, <4>3
      <4> QED
        BY <3>2, <3>6, <4>2, <4>3
    <3> QED
      BY <2>1, <2>6, <2>7, <3>5, <3>6 DEF FramesOrdered
  <2> QED
    BY <2>1, <2>4, <2>5
<1>2. CASE HostDropsSource
  BY <1>2 DEF HostDropsSource, FramesOrdered, Serving, srcVars, histVars
<1>3. CASE SrcGetFrame
  <2> DEFINE once == MessageDone(lgq)
             twice == MessageDone(once)
             above(q) == \A i \in 1 .. Len(q) : Head(lgq) < q[i] /\ q[i] <= produced
             sorted(q) == \A i, j \in 1 .. Len(q) : i < j => q[i] < q[j]
  <2>1. /\ lgq # <<>> /\ fetched' = Head(lgq) /\ fb' = Head(lgq) /\ lgq' \in {once, twice}
        /\ spc = "get"
        /\ UNCHANGED <<produced, fb_offset, latest, known, overran>>
    BY <1>3 DEF SrcGetFrame, histVars
  <2>2. lgq \in Seq(Nat) /\ once \in Seq(Nat) /\ Head(lgq) \in Nat
    BY <2>1, DoneTyped, TailFacts DEF TypeOK, LgTyped
  <2>3. above(once) /\ sorted(once)
    BY <2>1, <2>2, DoneOrdered DEF FramesOrdered
  <2>4. above(twice) /\ sorted(twice)
    <3> HIDE DEF once
    <3> QED
      BY <2>2, <2>3, DoneOrdered
  <2>5. fetched < Head(lgq) /\ Head(lgq) <= produced
    BY <2>1, <2>2, TailFacts DEF FramesOrdered
  <2>6. above(lgq') /\ sorted(lgq')
    BY <2>1, <2>3, <2>4
  <2>7. fetched \in Nat /\ known \in Nat /\ known <= fetched /\ known <= fb_offset
    BY <2>1 DEF TypeOK, SrcTyped, HistTyped, FramesOrdered, Serving
  <2>8. known' < fetched' /\ known' <= fetched' /\ known' <= fb_offset' /\ fetched' <= fb'
    BY <2>1, <2>2, <2>5, <2>7
  <2>9. ~overran' => latest' < known'
    BY <2>1 DEF FramesOrdered
  <2> QED
    BY <2>1, <2>2, <2>5, <2>6, <2>8, <2>9 DEF FramesOrdered
<1>4. CASE SrcSendDone
  <2>1. /\ lgq' = MessageDone(lgq) /\ latest' = fb_offset /\ known' = fetched
        /\ spc = "progress" /\ spc' = "poll"
        /\ UNCHANGED <<produced, fetched, fb, fb_offset>>
    BY <1>4 DEF SrcSendDone, RdmaWrite, buffers
  <2>2. lgq \in Seq(Nat) /\ fetched \in Nat
    BY DEF TypeOK, LgTyped, SrcTyped
  <2>3. /\ \A i \in 1 .. Len(lgq') : fetched < lgq'[i] /\ lgq'[i] <= produced
        /\ \A i, j \in 1 .. Len(lgq') : i < j => lgq'[i] < lgq'[j]
    BY <2>1, <2>2, DoneOrdered DEF FramesOrdered
  <2>4. ~overran' => fb_offset = known
    BY <1>4, Zenon DEF SrcSendDone
  <2>5. fetched <= fb /\ fb <= produced /\ known < fetched
    BY <2>1 DEF FramesOrdered
  <2>6. ~overran' => latest' < known'
    BY <2>1, <2>4, <2>5
  <2> QED
    BY <2>1, <2>2, <2>3, <2>5, <2>6 DEF FramesOrdered, Serving
<1>9. CASE SrcRecvFrameReq
  <2>1. /\ fb_offset' = fb /\ spc' = "get"
        /\ UNCHANGED <<produced, lgq, fetched, fb, known, overran, latest>>
    BY <1>9 DEF SrcRecvFrameReq, lgVars, histVars
  <2>2. fetched \in Nat /\ fb \in Nat /\ known \in Nat
    BY DEF TypeOK, SrcTyped, HistTyped
  <2>3. known <= fetched /\ fetched <= fb
    BY DEF FramesOrdered
  <2>4. known <= fb
    BY <2>2, <2>3
  <2> QED
    BY <2>1, <2>4 DEF FramesOrdered
<1>5. CASE \/ SrcQuit \/ SrcPollError \/ SrcRecvKeepAlive \/ SrcRecvDisconnect
           \/ SrcGetKeepAlive \/ SrcResubscribe \/ SrcGetError \/ SrcSendFail
  BY <1>5, FramesQuiet DEF SrcQuit, SrcPollError, SrcRecvKeepAlive, SrcRecvDisconnect,
     SrcGetKeepAlive, SrcResubscribe, SrcGetError, SrcSendFail,
     SrcDestroy, srcRest, buffers, lgVars, srcVars, histVars
<1>6. CASE SinkStep \/ SnkCursorStop \/ Interrupt
  BY <1>6, FramesQuiet DEF SinkStep, SnkQuit, SnkCorrupted, SnkIdle, SnkServe,
     SnkRequestRefused,
     SnkRequest, SnkAwait, SnkReinit, SnkPollEmpty, SnkPollError, SnkPollKeepAlive,
        SnkPollAck,
     SnkPollOther, SnkCursorStop, Interrupt, srcSide, pollRest, lgVars, srcVars, histVars
<1>7. CASE \/ ClientSubscribe \/ ClientRead \/ ClientDie \/ ClientTimeout \/ MemoryZeroed
           \/ LinkFail \/ PeerClosed
  BY <1>7, FramesQuiet DEF ClientSubscribe, ClientRead, ClientDie, ClientTimeout,
     MemoryZeroed,
     LinkFail, PeerClosed, LinkDown, clientRest, srcSide, lgVars, srcVars, histVars
<1>8. CASE UNCHANGED vars
  BY <1>8, FramesQuiet DEF vars, lgVars, srcVars, histVars
<1> QED
  BY <1>1, <1>2, <1>3, <1>4, <1>5, <1>6, <1>7, <1>8, <1>9 DEF Next, Source, SourceRun, Ended

(* The invariant holds when both programs enter their loops. *)
LEMMA Initially == Init => IInv
<1> SUFFICES ASSUME Init PROVE IInv
  OBVIOUS
<1>1. TypeOK
  BY QLenAssumption, SerialModAssumption, PeriodAssumption
     DEF Init, TypeOK, LgTyped, SrcTyped, NetTyped, SnkTyped, ShmTyped, HistTyped, Slots,
        Serials, Request
<1>2. toSource = <<>> /\ toSink = <<>> /\ lgq = <<>> /\ spc = "poll" /\ kpc = "loop" /\ fetched = 1
      /\ latest = 0 /\ produced = 1 /\ fb = 1 /\ fb_offset = 1 /\ known = 1 /\ overran = FALSE
  BY DEF Init
<1>3. OneRequest /\ ChannelsDrained /\ ByeIsLast /\ RequestCurrent
  BY <1>2, Emptied DEF OneRequest, ChannelsDrained, ByeIsLast, RequestCurrent, Serving
<1>4. FramesOrdered
  BY <1>2 DEF FramesOrdered, Serving
<1> QED
  BY <1>1, <1>3, <1>4 DEF IInv

(* The invariant is inductive. *)
LEMMA Inductive == IInv /\ [Next]_vars => IInv'
BY Typing, RequestStep, FramesStep DEF IInv, RequestInv

-----------------------------------------------------------------------------
(* Each variable of the frame path keeps its type, for queues of any       *)
(* length, serials of any width and any number of frames.                  *)
THEOREM TypeCorrect == Spec => []TypeOK
<1>1. Init => TypeOK
  BY Initially DEF IInv
<1> QED
  BY <1>1, Typing, PTL DEF Spec

(* The parts of the frame path always agree on the current request. *)
THEOREM Invariant == Spec => []IInv
BY Initially, Inductive, PTL DEF Spec

(* A request is in one place at a time, so an acknowledgement, which       *)
(* carries no number, always belongs to the request the sink waits on.     *)
THEOREM OneRequestHolds == Spec => []OneRequest
<1>1. IInv => OneRequest
  BY DEF IInv
<1> QED
  BY <1>1, Invariant, PTL

(* An acknowledgement is never ahead of its frame.                         *)
THEOREM AckMeansWrittenHolds == Spec => []AckMeansWritten
<1>1. IInv => AckMeansWritten
  BY DEF IInv, RequestCurrent, AckMeansWritten
<1> QED
  BY <1>1, Invariant, PTL

(* The source never writes into memory the sink is not waiting on, and     *)
(* never a frame older than those it knew of at the write before.          *)
THEOREM WriteIsWantedHolds == Spec => []WriteIsWanted
<1>1. IInv => WriteIsWanted
  BY DEF IInv, TypeOK, SrcTyped, HistTyped, RequestCurrent, FramesOrdered, Serving,
     WriteIsWanted
<1> QED
  BY <1>1, Invariant, PTL

(* Dropping a message that is not a request or an answer loses neither. *)
LEMMA KeptByTake ==
  ASSUME NEW S, NEW q \in Seq(S), q # <<>>, NEW t, Has(q, t), Head(q).type # t
  PROVE  Has(Tail(q), t)
<1>1. PICK i \in 1 .. Len(q) : q[i].type = t
  BY DEF Has
<1>2. i # 1 /\ i - 1 \in 1 .. Len(q) - 1
  BY <1>1, TailFacts
<1>3. Tail(q)[i - 1] = q[i] /\ i - 1 \in 1 .. Len(Tail(q))
  BY <1>2, TailFacts
<1> QED
  BY <1>1, <1>3 DEF Has

(* Every step keeps NoRequestLost. *)
LEMMA UnderwayStep ==
  ASSUME IInv, NoRequestLost, [Next]_vars
  PROVE  NoRequestLost'
<1> USE DEF NoRequestLost
<1>a. toSource \in Seq(SourceMsg) /\ toSink \in Seq(SinkMsg)
  BY DEF IInv, TypeOK, NetTyped
<1>1. CASE \/ HostPost \/ HostDropsSource \/ SrcResubscribe \/ SnkCursorStop \/ Interrupt
           \/ ClientSubscribe \/ ClientRead \/ ClientDie \/ ClientTimeout \/ MemoryZeroed
           \/ UNCHANGED vars
  <2>1. UNCHANGED <<spc, link, toSource, toSink, kpc, landed, unacked>>
    BY <1>1 DEF HostPost, HostDropsSource, SrcResubscribe, SnkCursorStop, Interrupt,
       ClientSubscribe, ClientRead, ClientDie, ClientTimeout, MemoryZeroed, clientRest,
       srcSide, srcVars, netVars, snkVars, histVars, vars
  <2> QED
    BY <2>1 DEF Serving, Awaiting
<1>2. CASE LinkFail \/ PeerClosed
  BY <1>2 DEF LinkFail, PeerClosed, LinkDown
<1>3. CASE SrcQuit \/ SrcPollError \/ SrcRecvDisconnect \/ SrcGetError \/ SrcSendFail
  BY <1>3 DEF SrcQuit, SrcPollError, SrcRecvDisconnect, SrcGetError, SrcSendFail, SrcDestroy
<1>4. CASE SrcRecvKeepAlive
  <2>1. /\ toSource # <<>> /\ Head(toSource).type = "ka" /\ toSource' = Tail(toSource)
        /\ UNCHANGED <<spc, link, toSink, kpc, landed, unacked>>
    BY <1>4 DEF SrcRecvKeepAlive, srcRest, snkVars, histVars
  <2>2. Has(toSource, "freq") => Has(toSource', "freq")
    BY <1>a, <2>1, KeptByTake
  <2> QED
    BY <2>1, <2>2 DEF Serving, Awaiting
<1>5. CASE SrcRecvFrameReq
  <2>1. /\ spc = "poll" /\ spc' = "get"
        /\ UNCHANGED <<link, toSink, kpc, landed, unacked>>
    BY <1>5 DEF SrcRecvFrameReq, snkVars, histVars
  <2> QED
    BY <2>1 DEF Serving, Awaiting
<1>6. CASE SrcGetKeepAlive \/ SrcGetFrame
  <2>1. /\ spc = "get" /\ UNCHANGED <<link, kpc, landed>>
        /\ spc' \in {"get", "progress", "end"}
    BY <1>6 DEF SrcGetKeepAlive, SrcGetFrame, SrcDestroy, srcRest, snkVars, histVars
  <2>2. Awaiting /\ link = "up" => ~landed
    BY <2>1 DEF IInv, RequestCurrent, Serving, Awaiting
  <2> QED
    BY <2>1, <2>2 DEF Serving, Awaiting
<1>7. CASE SrcSendDone
  <2>1. /\ spc = "progress" /\ link = "up" /\ kpc # "end" /\ UNCHANGED <<kpc, frame_index>>
        /\ landed' = (landed \/ (Awaiting /\ req.slot = frame_index))
        /\ Acknowledge
    BY <1>7 DEF SrcSendDone, RdmaWrite, snkVars
  <2>2. landed'
    BY <2>1 DEF IInv, RequestCurrent, Serving
  <2>3. Plain("ack").type = "ack" /\ Plain("ack") \in SinkMsg
    BY MsgTypes DEF Plain
  <2>4. CASE toSink' = Append(toSink, Plain("ack"))
    <3>1. Has(toSink', "ack")
      BY <1>a, <2>3, <2>4, Added
    <3> QED
      BY <2>2, <3>1
  <2>5. CASE unacked'
    BY <2>2, <2>5
  <2> QED
    BY <2>1, <2>4, <2>5 DEF Acknowledge
<1>8. CASE SnkQuit \/ SnkCorrupted \/ SnkIdle \/ SnkServe \/ SnkRequestRefused
           \/ SnkPollError \/ SnkPollAck \/ SnkPollOther
  <2>1. kpc' \in {"loop", "request", "end"}
    BY <1>8 DEF SnkQuit, SnkCorrupted, SnkIdle, SnkServe, SnkRequestRefused, SnkPollError,
       SnkPollAck, SnkPollOther, SnkDestroy, SnkReturn, Looping
  <2> QED
    BY <2>1 DEF Awaiting
<1>9. CASE SnkRequest
  <2> DEFINE m == [type |-> "freq", slot |-> NextIndex, cntr |-> frame_cntr]
  <2>1. CASE SnkReturn
    BY <2>1 DEF SnkReturn
  <2>2. CASE ~SnkReturn
    <3>1. /\ kpc = "request" /\ kpc' = "await" /\ toSource' = Send(toSource, m)
          /\ UNCHANGED <<spc, link>> /\ landed' = FALSE
      BY <1>9, <2>2 DEF SnkRequest, srcSide, srcVars
    <3>2. m \in SourceMsg /\ m.type = "freq"
      BY NextIndexTyped DEF IInv, TypeOK, SnkTyped, SourceMsg, Request
    <3> HIDE DEF m
    <3>3. Connected => Has(toSource', "freq")
      BY <1>a, <3>1, <3>2, Added DEF Send
    <3> QED
      BY <3>1, <3>3 DEF Connected
  <2> QED
    BY <2>1, <2>2
<1>10. CASE SnkAwait \/ SnkReinit \/ SnkPollEmpty
  <2>1. \/ kpc' = "end"
        \/ Awaiting /\ UNCHANGED <<spc, link, toSource, toSink, landed, unacked>>
    BY <1>10 DEF SnkAwait, SnkReinit, SnkPollEmpty, SnkReturn, Awaiting, pollRest, srcSide,
       srcVars, netVars, histVars
  <2> QED
    BY <2>1 DEF Serving, Awaiting
<1>11. CASE SnkPollKeepAlive
  <2>1. /\ kpc = "poll" /\ toSink # <<>> /\ Head(toSink).type = "ka" /\ toSink' = Tail(toSink)
        /\ UNCHANGED <<spc, link, toSource, landed, unacked>>
    BY <1>11 DEF SnkPollKeepAlive, Received, pollRest, srcSide, srcVars, histVars
  <2>2. Has(toSink, "ack") => Has(toSink', "ack")
    BY <1>a, <2>1, KeptByTake
  <2> QED
    BY <2>1, <2>2 DEF Serving, Awaiting
<1> QED
  BY <1>1, <1>2, <1>3, <1>4, <1>5, <1>6, <1>7, <1>8, <1>9, <1>10, <1>11
     DEF Next, Source, SourceRun, SinkStep, Ended

(* While the connection and the source last, what the sink waits for is on *)
(* its way, being served, or served and acknowledged, unless the call that *)
(* acknowledges it failed (lpRequestFrame, lpHandleClientReq).             *)
THEOREM NoRequestLostHolds == Spec => []NoRequestLost
<1>1. Init => NoRequestLost
  BY DEF Init, NoRequestLost, Awaiting
<1>2. IInv /\ NoRequestLost /\ [Next]_vars => NoRequestLost'
  BY UnderwayStep
<1> QED
  BY <1>1, <1>2, Invariant, PTL DEF Spec

(* The frame path implements FrameDelivery: each request is answered by    *)
(* one write of a newer frame and not given up while the source is there.  *)
(* Every step of the frame path is a step of FrameDelivery or a stutter. *)
LEMMA DeliveryStep ==
  IInv /\ [Next]_vars => [Delivery!DNext]_<<Phase, latest, known, spc = "end">>
<1> SUFFICES ASSUME IInv, [Next]_vars
             PROVE  [Delivery!DNext]_<<Phase, latest, known, spc = "end">>
  OBVIOUS
<1> USE DEF Delivery!DNext, Phase, Awaiting
<1>1. CASE HostPost \/ HostDropsSource \/ SrcRecvKeepAlive \/ SrcRecvFrameReq \/ SrcResubscribe
  BY <1>1 DEF HostPost, HostDropsSource, SrcRecvKeepAlive, SrcRecvFrameReq, SrcResubscribe,
     srcRest, srcVars, snkVars, histVars
<1>2. CASE SrcQuit \/ SrcPollError \/ SrcRecvDisconnect \/ SrcGetKeepAlive \/ SrcGetError \/ SrcSendFail
  <2>1. spc # "end" /\ UNCHANGED <<kpc, landed, latest, known>> /\ (spc' = spc \/ spc' = "end")
    BY <1>2 DEF SrcQuit, SrcPollError, SrcRecvDisconnect, SrcGetKeepAlive, SrcGetError,
       SrcSendFail, SrcDestroy, srcRest, buffers, snkVars, histVars
  <2> QED
    BY <2>1 DEF Delivery!ServerGone
<1>3. CASE SrcGetFrame
  <2>1. spc # "end" /\ UNCHANGED <<kpc, landed, latest, known>>
    BY <1>3 DEF SrcGetFrame, snkVars, histVars
  <2> QED
    BY <2>1 DEF Delivery!ServerGone
<1>4. CASE SrcSendDone
  <2>1. spc = "progress" /\ spc' = "poll" /\ link = "up" /\ kpc # "end" /\ kpc' = kpc
        /\ latest' = fb_offset /\ known' = fetched
        /\ landed' = (landed \/ (Awaiting /\ req.slot = frame_index))
    BY <1>4 DEF SrcSendDone, RdmaWrite, snkVars
  <2>2. Awaiting /\ ~landed /\ req.slot = frame_index
    BY <2>1 DEF IInv, RequestCurrent, Serving
  <2>3. fetched \in Nat /\ fb_offset \in Nat /\ known < fetched /\ known <= fb_offset
    BY <2>1 DEF IInv, TypeOK, SrcTyped, HistTyped, FramesOrdered, Serving
  <2>4. Phase = "asked" /\ Phase' = "written"
    BY <2>1, <2>2
  <2>5. Delivery!Write
    BY <2>1, <2>3, <2>4 DEF Delivery!Write
  <2> QED
    BY <2>5
<1>5. CASE SnkQuit \/ SnkCorrupted \/ SnkRequestRefused \/ SnkPollError
  <2>1. kpc # "end" /\ kpc' = "end" /\ UNCHANGED <<spc, latest, known>>
    BY <1>5 DEF SnkQuit, SnkCorrupted, Looping, SnkRequestRefused, SnkPollError, SnkDestroy,
       SnkReturn, srcSide, srcVars, histVars, pollRest
  <2> QED
    BY <2>1 DEF Delivery!Close
<1>6. CASE SnkIdle \/ SnkServe
  <2>1. kpc = "loop" /\ kpc' \in {"loop", "request", "end"} /\ UNCHANGED <<spc, latest, known>>
    BY <1>6 DEF SnkIdle, SnkServe, Looping, SnkDestroy, srcSide, srcVars, histVars
  <2> QED
    BY <2>1 DEF Delivery!Close
<1>7. CASE SnkRequest
  <2>1. kpc = "request" /\ kpc' \in {"await", "end"} /\ landed' = FALSE /\ UNCHANGED <<spc, latest, known>>
    BY <1>7 DEF SnkRequest, SnkReturn, srcSide, srcVars
  <2> QED
    BY <2>1 DEF Delivery!Close, Delivery!Ask
<1>8. CASE SnkAwait \/ SnkReinit \/ SnkPollEmpty \/ SnkPollKeepAlive
  <2>1. Awaiting /\ kpc' \in {"await", "poll", "end"} /\ UNCHANGED <<spc, latest, known, landed>>
    BY <1>8 DEF SnkAwait, SnkReinit, SnkPollEmpty, SnkPollKeepAlive, Received, SnkReturn, srcSide,
       srcVars, histVars, pollRest
  <2> QED
    BY <2>1 DEF Delivery!Close
<1>9. CASE SnkPollAck
  <2>1. /\ kpc = "poll" /\ kpc' = "loop" /\ toSink # <<>> /\ Head(toSink).type = "ack"
        /\ UNCHANGED <<spc, latest, known, landed>>
    BY <1>9 DEF SnkPollAck, Received, srcSide, srcVars, histVars
  <2>2. Has(toSink, "ack")
    BY <2>1, Taken DEF IInv, TypeOK, NetTyped
  <2>3. landed
    BY <2>1, <2>2 DEF IInv, RequestCurrent
  <2> QED
    BY <2>1, <2>3 DEF Delivery!Finish
<1>10. CASE SnkPollOther
  <2>1. /\ kpc = "poll" /\ kpc' = "loop" /\ toSink # <<>> /\ Head(toSink).type = "bye"
        /\ UNCHANGED <<spc, latest, known, landed>>
    BY <1>10 DEF SnkPollOther, Received, pollRest, srcSide, srcVars, histVars
  <2>2. Has(toSink, "bye")
    BY <2>1, Taken DEF IInv, TypeOK, NetTyped
  <2>3. spc = "end"
    BY <2>2 DEF IInv, ByeIsLast
  <2> QED
    BY <2>1, <2>3 DEF Delivery!Finish, Delivery!GiveUp
<1>11. CASE \/ SnkCursorStop \/ Interrupt \/ ClientSubscribe \/ ClientRead \/ ClientDie
            \/ ClientTimeout \/ MemoryZeroed \/ LinkFail \/ PeerClosed
  BY <1>11 DEF SnkCursorStop, Interrupt, ClientSubscribe, ClientRead, ClientDie,
     ClientTimeout,
     MemoryZeroed, LinkFail, PeerClosed, LinkDown, clientRest, srcSide, srcVars, snkVars,
        histVars
<1>12. CASE UNCHANGED vars
  BY <1>12 DEF vars, srcVars, snkVars, histVars
<1> QED
  BY <1>1, <1>2, <1>3, <1>4, <1>5, <1>6, <1>7, <1>8, <1>9, <1>10, <1>11, <1>12
     DEF Next, Source, SourceRun, SinkStep, Ended

THEOREM Refinement == Spec => ImplementsDelivery
<1>1. Init => Delivery!DInit
  BY DEF Init, Delivery!DInit, Phase, Awaiting
<1>2. IInv /\ [Next]_vars => [Delivery!DNext]_(Delivery!dvars)
  BY DeliveryStep, Inductive DEF Delivery!dvars
<1> QED
  BY <1>1, <1>2, Invariant, PTL DEF Spec, ImplementsDelivery, Delivery!DSpec

(* While the memory stays intact, every message of the sink's queue names  *)
(* the one buffer lpRequestFrame ever uses; and as long as the host has    *)
(* not overrun the source, the client shows nothing newer than what is in  *)
(* that buffer.                                                            *)
ScreenInv ==
  /\ ~zeroed
  /\ \A i \in 1 .. Len(hostQ) : hostQ[i] = NextIndex
  /\ Awaiting => frame_index = NextIndex
  /\ ~overran => content[NextIndex] <= latest /\ shown <= content[NextIndex]

(* Posting the buffer of lpRequestFrame leaves no other in the queue. *)
LEMMA PostedSlot ==
  ASSUME NEW q \in Seq(Slots), NEW c, \A i \in 1 .. Len(q) : q[i] = NextIndex
  PROVE  \A i \in 1 .. Len(Post(q, c, NextIndex)) : Post(q, c, NextIndex)[i] = NextIndex
<1>1. CASE c = "none" \/ Len(q) >= QLen
  BY <1>1 DEF Post
<1>2. CASE ~(c = "none" \/ Len(q) >= QLen)
  BY <1>2, AppendFacts, NextIndexTyped DEF Post
<1> QED
  BY <1>1, <1>2

(* Every step keeps ScreenInv, and the screen does not go back. *)
LEMMA ScreenStep ==
  ASSUME IInv, ScreenInv, [Next]_vars, ~zeroed'
  PROVE  ScreenInv' /\ (shown' >= shown \/ overran)
<1> DEFINE n == NextIndex
<1> USE DEF ScreenInv, Awaiting, NextIndex
<1>0. /\ hostQ \in Seq(Slots) /\ n \in Slots /\ content \in [Slots -> Nat] /\ content[n] \in Nat
      /\ shown \in Nat /\ latest \in Nat /\ known \in Nat
  BY NextIndexTyped DEF IInv, TypeOK, ShmTyped, SrcTyped, HistTyped
<1>1. CASE HostPost \/ HostDropsSource \/ (Source /\ ~SrcSendDone)
  <2>1. UNCHANGED <<hostQ, content, zeroed, shown, kpc, frame_index, latest, overran>>
    BY <1>1 DEF HostPost, HostDropsSource, Source, SourceRun, SrcQuit, SrcPollError,
       SrcRecvKeepAlive,
       SrcRecvDisconnect, SrcRecvFrameReq, SrcGetKeepAlive, SrcResubscribe, SrcGetError,
          SrcGetFrame,
       SrcSendFail, srcRest, buffers, snkVars, shmVars, histVars
  <2> QED
    BY <1>0, <2>1
<1>2. CASE SrcSendDone
  <2>1. /\ spc = "progress" /\ link = "up" /\ kpc # "end"
        /\ content' = [content EXCEPT ![req.slot] = fb_offset] /\ latest' = fb_offset
        /\ UNCHANGED <<hostQ, zeroed, shown, kpc, frame_index>>
    BY <1>2 DEF SrcSendDone, RdmaWrite, snkVars
  <2>2. req.slot = n /\ (~overran => latest < known)
    BY <2>1 DEF IInv, RequestCurrent, FramesOrdered, Serving
  <2>3. content'[n] = fb_offset
    BY <1>0, <2>1, <2>2
  <2>4. ~overran' => ~overran /\ fb_offset = known
    BY <1>2, Zenon DEF SrcSendDone
  <2> QED
    BY <1>0, <2>1, <2>2, <2>3, <2>4
<1>3. CASE SnkQuit \/ SnkCorrupted \/ SnkRequestRefused
  <2>1. UNCHANGED <<hostQ, content, zeroed, shown, frame_index, latest, overran>> /\ kpc' = "end"
    BY <1>3 DEF SnkQuit, SnkCorrupted, SnkRequestRefused, SnkDestroy, SnkReturn,
       loopVars, shmVars, histVars
  <2> QED
    BY <1>0, <2>1
<1>4. CASE SnkIdle \/ SnkServe
  <2>1. /\ UNCHANGED <<content, zeroed, shown, frame_index, latest, overran>> /\ kpc' \in {"loop", "request", "end"}
        /\ hostQ' \in {hostQ, <<>>}
    BY <1>4 DEF SnkIdle, SnkServe, SnkDestroy, Looping, HostProcess, PurgedQ, loopVars,
       memVars, histVars
  <2> QED
    BY <1>0, <2>1
<1>5. CASE SnkRequest
  <2>1. /\ UNCHANGED <<content, zeroed, shown, latest, overran>> /\ frame_index' = n
        /\ hostQ' = Post(PurgedQ, PurgedC, n)
    BY <1>5 DEF SnkRequest
  <2>2. PurgedQ \in Seq(Slots) /\ \A i \in 1 .. Len(PurgedQ) : PurgedQ[i] = n
    BY <1>0 DEF PurgedQ
  <2>3. \A i \in 1 .. Len(hostQ') : hostQ'[i] = n
    BY <2>1, <2>2, PostedSlot
  <2> QED
    BY <1>0, <2>1, <2>3
<1>6. CASE SnkAwait
  <2>1. /\ UNCHANGED <<content, zeroed, shown, latest, overran, frame_index>> /\ kpc = "await"
        /\ hostQ' \in {<<>>, hostQ, Post(hostQ, client, n)}
    BY <1>6 DEF SnkAwait, RepeatPost, loopVars, histVars
  <2>2. \A i \in 1 .. Len(hostQ') : hostQ'[i] = n
    BY <1>0, <2>1, PostedSlot
  <2> QED
    BY <1>0, <2>1, <2>2
<1>7. CASE SnkReinit
  BY <1>7 DEF SnkReinit
<1>8. CASE SnkPollEmpty \/ SnkPollError \/ SnkPollKeepAlive \/ SnkPollAck \/ SnkPollOther
  <2>1. UNCHANGED <<hostQ, content, zeroed, shown, frame_index, latest, overran>> /\ kpc = "poll"
    BY <1>8 DEF SnkPollEmpty, SnkPollError, SnkPollKeepAlive, SnkPollAck, SnkPollOther, Received,
       pollRest, shmVars, histVars
  <2> QED
    BY <1>0, <2>1
<1>9. CASE SnkCursorStop \/ Interrupt \/ LinkFail \/ PeerClosed
  <2>1. UNCHANGED <<hostQ, content, zeroed, shown, kpc, frame_index, latest, overran>>
    BY <1>9 DEF SnkCursorStop, Interrupt, LinkFail, PeerClosed, LinkDown, snkVars,
       shmVars, histVars
  <2> QED
    BY <1>0, <2>1
<1>10. CASE ClientSubscribe \/ ClientDie \/ ClientTimeout
  <2>1. UNCHANGED <<hostQ, content, zeroed, shown, kpc, frame_index, latest, overran>>
    BY <1>10 DEF ClientSubscribe, ClientDie, ClientTimeout, clientRest, snkVars, memVars,
       histVars
  <2> QED
    BY <1>0, <2>1
<1>11. CASE ClientRead
  <2>1. /\ hostQ # <<>> /\ hostQ' = Tail(hostQ) /\ shown' \in {shown, content[Head(hostQ)]}
        /\ UNCHANGED <<content, zeroed, kpc, frame_index, latest, overran>>
    BY <1>11 DEF ClientRead, clientRest, snkVars, memVars, histVars
  <2>2. Head(hostQ) = n /\ \A i \in 1 .. Len(hostQ') : hostQ'[i] = n
    BY <1>0, <2>1, TailFacts
  <2> QED
    BY <1>0, <2>1, <2>2
<1>12. CASE MemoryZeroed
  BY <1>12 DEF MemoryZeroed
<1>13. CASE UNCHANGED vars
  <2>1. UNCHANGED <<hostQ, content, zeroed, shown, kpc, frame_index, latest, overran>>
    BY <1>13 DEF vars, snkVars, shmVars, histVars
  <2> QED
    BY <1>0, <2>1
<1> QED
  BY <1>1, <1>2, <1>3, <1>4, <1>5, <1>6, <1>7, <1>8, <1>9, <1>10, <1>11, <1>12, <1>13
     DEF Next, Source, SourceRun, SinkStep, Ended

(* The screen never goes back to an earlier frame while nobody zeroes the  *)
(* shared memory and the host does not overrun the source.                 *)
THEOREM ScreenMonotone == Spec /\ []~zeroed => FramesNeverGoBack
<1>1. Init => ScreenInv
  BY NextIndexTyped DEF Init, ScreenInv, Awaiting
<1>2. IInv /\ ScreenInv /\ [Next]_vars /\ ~zeroed' => ScreenInv'
  BY ScreenStep
<1>3. IInv /\ ScreenInv /\ [Next]_vars /\ ~zeroed' => [shown' >= shown \/ overran]_vars
  BY ScreenStep
<1> QED
  BY <1>1, <1>2, <1>3, Invariant, PTL DEF Spec, FramesNeverGoBack

(* With busy polling and intact memory, the sink's state leaves RUNNING    *)
(* only because its cursor thread received a disconnect.                   *)
StateInv == ~zeroed /\ state # "RESTART" /\ (state = "STOP" /\ kpc # "end" => subBye)

(* Every step keeps StateInv, and the sink ends only for a cause. *)
LEMMA StateStep ==
  ASSUME ~Sync, TypeOK, StateInv, [Next]_vars, ~zeroed'
  PROVE  StateInv' /\ (kpc' = "end" /\ kpc # "end" => Cause)
<1> USE DEF StateInv, Cause
<1>1. CASE HostPost \/ HostDropsSource
  BY <1>1 DEF HostPost, HostDropsSource, netVars, snkVars, shmVars, signals
<1>2. CASE Source
  <2>1. UNCHANGED <<zeroed, state, kpc, subBye>>
    BY <1>2 DEF Source, SourceRun, SrcQuit, SrcPollError, SrcRecvKeepAlive,
       SrcRecvDisconnect,
       SrcRecvFrameReq, SrcGetKeepAlive, SrcResubscribe, SrcGetError, SrcGetFrame,
          SrcSendDone,
       SrcSendFail, SrcDestroy, srcRest, snkVars, shmVars, signals
  <2> QED
    BY <2>1
<1>3. CASE SnkQuit \/ SnkRequestRefused
  <2>1. /\ UNCHANGED zeroed /\ kpc' = "end" /\ state' = "STOP" /\ kpc # "end"
        /\ flag \/ state # "RUNNING"
    BY <1>3 DEF SnkQuit, SnkRequestRefused, SnkDestroy, AwaitFlagged, shmVars
  <2> QED
    BY <2>1 DEF TypeOK, SnkTyped
<1>4. CASE SnkCorrupted
  BY <1>4 DEF SnkCorrupted
<1>5. CASE SnkIdle
  <2>1. /\ UNCHANGED <<zeroed, subBye>>
        /\ \/ UNCHANGED <<kpc, state>>
           \/ link = "down" /\ kpc' = "end" /\ state' = "STOP"
    BY <1>5 DEF SnkIdle, SnkDestroy, memVars, signals
  <2> QED
    BY <2>1
<1>6. CASE SnkServe \/ SnkAwait
  <2>1. UNCHANGED <<zeroed, state, subBye>> /\ kpc # "end" /\ kpc' # "end"
    BY <1>6 DEF SnkServe, SnkAwait, Looping, memVars, signals
  <2> QED
    BY <2>1
<1>7. CASE SnkRequest
  <2>1. /\ UNCHANGED zeroed /\ state = "RUNNING" /\ state' = state
        /\ link = "up" => kpc' = "await"
    BY <1>7 DEF SnkRequest, SnkReturn
  <2> QED
    BY <2>1 DEF TypeOK, NetTyped
<1>8. CASE SnkReinit
  BY <1>8 DEF SnkReinit
<1>9. CASE SnkPollEmpty \/ SnkPollKeepAlive \/ SnkPollAck \/ SnkPollOther
  <2>1. UNCHANGED <<zeroed, state, subBye>> /\ kpc = "poll" /\ kpc' # "end"
    BY <1>9 DEF SnkPollEmpty, SnkPollKeepAlive, SnkPollAck, SnkPollOther, Received, pollRest,
       signals, shmVars
  <2> QED
    BY <2>1
<1>10. CASE SnkPollError
  BY <1>10 DEF SnkPollError, SnkReturn, pollRest, shmVars
<1>11. CASE SnkCursorStop
  BY <1>11 DEF SnkCursorStop, snkVars, shmVars
<1>12. CASE \/ Interrupt \/ ClientSubscribe \/ ClientRead \/ ClientDie \/ ClientTimeout
            \/ LinkFail \/ PeerClosed \/ UNCHANGED vars
  <2>1. UNCHANGED <<zeroed, state, kpc, subBye>>
    BY <1>12 DEF Interrupt, ClientSubscribe, ClientRead, ClientDie, ClientTimeout, LinkFail,
       PeerClosed, LinkDown, clientRest, snkVars, shmVars, memVars, signals, vars
  <2> QED
    BY <2>1
<1>13. CASE MemoryZeroed
  BY <1>13 DEF MemoryZeroed
<1> QED
  BY <1>1, <1>2, <1>3, <1>4, <1>5, <1>6, <1>7, <1>8, <1>9, <1>10, <1>11, <1>12, <1>13
     DEF Next, SinkStep, Ended

(* With busy polling and intact memory, the sink ends only on a signal, a  *)
(* broken connection or a disconnect its cursor thread received: not when  *)
(* the source's main ends, nor after a lost acknowledgement.               *)
THEOREM EndsForCause ==
  ASSUME ~Sync
  PROVE  Spec /\ []~zeroed => QuitsForCause
<1>1. Init => StateInv
  BY DEF Init, StateInv
<1>2. TypeOK /\ StateInv /\ [Next]_vars /\ ~zeroed' => StateInv'
  BY StateStep
<1>3. TypeOK /\ StateInv /\ [Next]_vars /\ ~zeroed' => [kpc' = "end" /\ kpc # "end" => Cause]_vars
  BY StateStep
<1> QED
  BY <1>1, <1>2, <1>3, TypeCorrect, PTL DEF Spec, QuitsForCause

(* With synchronous polling no frame is repeated before it has come.       *)
RewoundInv == ~repeatframe /\ RewoundWhileAwaited

(* Every step keeps RewoundInv. *)
LEMMA RewoundStep ==
  ASSUME Sync, TypeOK, RewoundInv, [Next]_vars
  PROVE  RewoundInv'
<1> USE DEF RewoundInv, RewoundWhileAwaited, Awaiting
<1>1. CASE SnkRequest
  <2>1. /\ repeatframe' = FALSE /\ frame_index' = NextIndex
        /\ wp' = [wp EXCEPT ![NextIndex] = FALSE]
    BY <1>1 DEF SnkRequest, Prepare
  <2>2. wp'[frame_index'] = FALSE
    BY <2>1, NextIndexTyped DEF TypeOK, ShmTyped
  <2> QED
    BY <2>1, <2>2
<1>2. CASE SnkAwait \/ SnkReinit
  <2>1. UNCHANGED <<repeatframe, wp, frame_index>> /\ kpc = "await"
    BY <1>2 DEF SnkAwait, SnkReinit, loopVars
  <2> QED
    BY <2>1
<1>3. CASE SrcSendDone
  <2>1. UNCHANGED <<repeatframe, wp, frame_index, kpc>>
    BY <1>3 DEF SrcSendDone, snkVars
  <2> QED
    BY <2>1
<1>4. CASE MemoryZeroed
  <2>1. UNCHANGED <<repeatframe, frame_index>> /\ wp' = [s \in Slots |-> FALSE]
    BY <1>4 DEF MemoryZeroed, snkVars
  <2>2. wp'[frame_index'] = FALSE
    BY <2>1 DEF TypeOK, SnkTyped
  <2> QED
    BY <2>1, <2>2
<1>5. CASE SnkPollAck
  <2>1. repeatframe' = FALSE /\ kpc' = "loop"
    BY <1>5 DEF SnkPollAck, Received
  <2> QED
    BY <2>1
<1>6. CASE \/ SnkQuit \/ SnkCorrupted \/ SnkIdle \/ SnkServe \/ SnkRequestRefused
           \/ SnkPollEmpty \/ SnkPollError \/ SnkPollOther
  <2>1. UNCHANGED repeatframe /\ kpc' \in {"loop", "request", "end"}
    BY <1>6 DEF SnkQuit, SnkCorrupted, SnkIdle, SnkServe, SnkRequestRefused, SnkPollEmpty,
       SnkPollError, SnkPollOther, SnkDestroy, SnkReturn, Looping, loopVars, pollRest
  <2> QED
    BY <2>1
<1>7. CASE SnkPollKeepAlive
  <2>1. UNCHANGED <<repeatframe, wp, frame_index>> /\ kpc = "poll"
    BY <1>7 DEF SnkPollKeepAlive, Received, pollRest, shmVars
  <2> QED
    BY <2>1
<1>8. CASE \/ HostPost \/ HostDropsSource \/ SrcQuit \/ SrcPollError \/ SrcRecvKeepAlive
           \/ SrcRecvDisconnect \/ SrcRecvFrameReq \/ SrcGetKeepAlive \/ SrcResubscribe
           \/ SrcGetError \/ SrcGetFrame \/ SrcSendFail
  <2>1. UNCHANGED <<snkVars, shmVars>>
    BY <1>8 DEF HostPost, HostDropsSource, SrcQuit, SrcPollError, SrcRecvKeepAlive,
       SrcRecvDisconnect, SrcRecvFrameReq, SrcGetKeepAlive, SrcResubscribe, SrcGetError,
       SrcGetFrame, SrcSendFail, srcRest
  <2> QED
    BY <2>1 DEF snkVars, shmVars
<1>9. CASE \/ SnkCursorStop \/ Interrupt \/ ClientSubscribe \/ ClientRead \/ ClientDie
           \/ ClientTimeout \/ LinkFail \/ PeerClosed \/ UNCHANGED vars
  <2>1. UNCHANGED <<snkVars, wp>>
    BY <1>9 DEF SnkCursorStop, Interrupt, ClientSubscribe, ClientRead, ClientDie,
       ClientTimeout, LinkFail, PeerClosed, LinkDown, clientRest, memVars, shmVars, vars
  <2> QED
    BY <2>1 DEF snkVars
<1> QED
  BY <1>1, <1>2, <1>3, <1>4, <1>5, <1>6, <1>7, <1>8, <1>9
     DEF Next, Source, SourceRun, SinkStep, Ended

(* With synchronous polling, the buffer the sink waits on is not marked    *)
(* complete before the acknowledgement has come (lpSignalFrameDone),       *)
(* whatever fails, and with any number of slots.                           *)
THEOREM RewoundHolds ==
  ASSUME Sync
  PROVE  Spec => []RewoundWhileAwaited
<1>1. Init => RewoundInv
  BY DEF Init, RewoundInv, RewoundWhileAwaited, Awaiting
<1>2. TypeOK /\ RewoundInv /\ [Next]_vars => RewoundInv'
  BY RewoundStep
<1>3. RewoundInv => RewoundWhileAwaited
  BY DEF RewoundInv
<1> QED
  BY <1>1, <1>2, <1>3, TypeCorrect, PTL DEF Spec

-----------------------------------------------------------------------------
(* Progress.  That steps come is a matter of fairness, and is checked by   *)
(* TLC; that there are only so many to come is proved here.                *)

(* How many steps of the sink may still follow once SIGINT was received.   *)
FlagRank == CASE kpc = "end" -> 0
              [] kpc \in {"loop", "await"} -> 1
              [] kpc \in {"request", "poll"} -> 2

(* How many steps of the sink may still follow once the connection is      *)
(* broken: in its outer loop, the rounds to the next keep-alive.           *)
BreakRank == CASE kpc = "end" -> 0
               [] kpc \in {"request", "poll"} -> 1
               [] kpc = "await" -> 2
               [] kpc = "loop" -> 1 + KeepAlivePeriod - ctr

(* What the rest of the system leaves alone. *)
LEMMA SinkAlone ==
  ASSUME [Next]_vars, ~SinkStep
  PROVE  UNCHANGED <<kpc, ctr, posted>> /\ (flag => flag') /\ (link = "down" => link' = "down")
<1>1. CASE HostPost \/ HostDropsSource
  BY <1>1 DEF HostPost, HostDropsSource, netVars, snkVars, signals
<1>2. CASE Source
  BY <1>2 DEF Source, SourceRun, SrcQuit, SrcPollError, SrcRecvKeepAlive, SrcRecvDisconnect,
     SrcRecvFrameReq, SrcGetKeepAlive, SrcResubscribe, SrcGetError, SrcGetFrame, SrcSendDone,
     SrcSendFail, srcRest, netVars, snkVars, signals
<1>3. CASE SnkCursorStop \/ Interrupt
  BY <1>3 DEF SnkCursorStop, Interrupt, netVars, snkVars, signals
<1>4. CASE ClientSubscribe \/ ClientRead \/ ClientDie \/ ClientTimeout \/ MemoryZeroed
  BY <1>4 DEF ClientSubscribe, ClientRead, ClientDie, ClientTimeout, MemoryZeroed, clientRest,
     netVars, snkVars, signals
<1>5. CASE LinkFail \/ PeerClosed
  BY <1>5 DEF LinkFail, PeerClosed, LinkDown, snkVars, signals
<1>6. CASE UNCHANGED vars
  BY <1>6 DEF vars, netVars, snkVars, signals
<1> QED
  BY <1>1, <1>2, <1>3, <1>4, <1>5, <1>6 DEF Next, Ended

(* The flag stays set through every step of the sink. *)
LEMMA FlagStays ==
  ASSUME SinkStep
  PROVE  flag' = flag
BY DEF SinkStep, SnkQuit, SnkCorrupted, SnkIdle, SnkServe, SnkRequestRefused, SnkRequest,
   SnkAwait, SnkReinit, SnkPollEmpty, SnkPollError, SnkPollKeepAlive, SnkPollAck, SnkPollOther,
   pollRest, signals

(* SIGINT: the inner and the outer loop are left at their next round, and  *)
(* a request or a poll in progress leads to one of them (exitHandler and   *)
(* the tests of flag in main).                                             *)
FlagLowers == [][flag => /\ flag' /\ FlagRank' <= FlagRank
                         /\ SinkStep => FlagRank' < FlagRank]_vars

(* After SIGINT each step of the sink lowers FlagRank, and no step raises it. *)
LEMMA FlagStep ==
  ASSUME TypeOK, [Next]_vars, flag
  PROVE  flag' /\ FlagRank' <= FlagRank /\ (SinkStep => FlagRank' < FlagRank)
<1>1. CASE ~SinkStep
  <2>1. FlagRank' = FlagRank /\ flag'
    BY <1>1, SinkAlone DEF FlagRank
  <2>2. FlagRank \in 0 .. 2
    BY DEF FlagRank, TypeOK, SnkTyped
  <2> QED
    BY <1>1, <2>1, <2>2
<1>2. CASE SnkQuit \/ SnkCorrupted \/ SnkRequestRefused \/ SnkPollError
  <2>1. kpc # "end" /\ kpc' = "end"
    BY <1>2 DEF SnkQuit, SnkCorrupted, SnkRequestRefused, SnkPollError, SnkDestroy, SnkReturn,
       Looping
  <2>2. flag' = flag
    BY <1>2, FlagStays DEF SinkStep
  <2> QED
    BY <2>1, <2>2 DEF FlagRank, TypeOK, SnkTyped
<1>3. CASE SnkIdle \/ SnkServe \/ SnkAwait \/ SnkReinit
  BY <1>3 DEF SnkIdle, SnkServe, SnkAwait, SnkReinit, Looping, AwaitFlagged
<1>4. CASE SnkRequest \/ SnkPollEmpty \/ SnkPollKeepAlive \/ SnkPollAck \/ SnkPollOther
  <2>1. kpc \in {"request", "poll"} /\ kpc' \in {"loop", "await", "end"}
    BY <1>4 DEF SnkRequest, SnkPollEmpty, SnkPollKeepAlive, SnkPollAck, SnkPollOther, Received, SnkReturn
  <2>2. flag' = flag
    BY <1>4, FlagStays DEF SinkStep
  <2> QED
    BY <2>1, <2>2 DEF FlagRank
<1> QED
  BY <1>1, <1>2, <1>3, <1>4 DEF SinkStep

(* After SIGINT the sink takes at most two more steps before it has ended, *)
(* whatever anybody else does: the safety half of FlagHeeded.              *)
THEOREM FlagLowersHolds == Spec => FlagLowers
<1>1. TypeOK /\ [Next]_vars =>
        [flag => /\ flag' /\ FlagRank' <= FlagRank
                 /\ SinkStep => FlagRank' < FlagRank]_vars
  BY FlagStep
<1> QED
  BY <1>1, TypeCorrect, PTL DEF Spec, FlagLowers

(* A broken connection is noticed at the next poll, if a receive is        *)
(* posted, at the next request, or when the next keep-alive is due.        *)
BreakLowers ==
    [][link = "down" /\ posted => /\ link' = "down" /\ posted'
                                  /\ BreakRank' <= BreakRank
                                  /\ SinkStep => BreakRank' < BreakRank]_vars

(* On a broken connection each step of the sink lowers BreakRank. *)
LEMMA BreakStep ==
  ASSUME IInv, [Next]_vars, link = "down", posted
  PROVE  /\ link' = "down" /\ posted' /\ BreakRank' <= BreakRank
         /\ SinkStep => BreakRank' < BreakRank
<1> USE PeriodAssumption
<1>a. /\ toSink = <<>> /\ kpc \in {"loop", "request", "await", "poll", "end"}
      /\ ctr \in 0 .. KeepAlivePeriod - 1
  BY DEF IInv, ChannelsDrained, TypeOK, SnkTyped
<1>b. BreakRank \in Nat /\ (kpc # "end" => BreakRank > 0) /\ (kpc \in {"loop", "await"} => BreakRank > 1)
  BY <1>a DEF BreakRank
<1>1. CASE ~SinkStep
  <2>1. BreakRank' = BreakRank /\ link' = "down" /\ posted'
    BY <1>1, SinkAlone DEF BreakRank
  <2> QED
    BY <1>1, <1>b, <2>1
<1>2. CASE SnkQuit \/ SnkCorrupted \/ SnkRequestRefused \/ SnkPollError \/ SnkRequest
  <2>1. kpc # "end" /\ kpc' = "end" /\ link' = "down" /\ posted'
    BY <1>2 DEF SnkQuit, SnkCorrupted, SnkRequestRefused, SnkPollError, SnkRequest, SnkDestroy,
       SnkReturn, Looping, loopVars
  <2>2. BreakRank' = 0
    BY <2>1 DEF BreakRank
  <2> QED
    BY <1>2, <1>b, <2>1, <2>2 DEF SinkStep
<1>3. CASE SnkIdle
  <2>1. CASE SnkDestroy
    <3>1. kpc = "loop" /\ kpc' = "end" /\ link' = "down" /\ posted'
      BY <1>3, <2>1 DEF SnkIdle, SnkDestroy, Looping
    <3>2. BreakRank' = 0
      BY <3>1 DEF BreakRank
    <3> QED
      BY <1>b, <3>1, <3>2
  <2>2. CASE ~SnkDestroy
    <3>1. /\ kpc = "loop" /\ ctr' = (ctr + 1) % KeepAlivePeriod /\ ctr' # 0
          /\ UNCHANGED <<kpc, link, posted>>
      BY <1>3, <2>2 DEF SnkIdle, Looping, netVars
    <3>2. ctr + 1 \in 1 .. KeepAlivePeriod
      BY <1>a
    <3>3. ctr + 1 # KeepAlivePeriod
      BY <3>1
    <3>4. ctr' = ctr + 1
      BY <1>a, <3>1, <3>2, <3>3
    <3> QED
      BY <1>a, <3>1, <3>4 DEF BreakRank
  <2> QED
    BY <2>1, <2>2
<1>4. CASE SnkServe
  <2>1. kpc = "loop" /\ kpc' = "request" /\ link' = "down" /\ posted'
    BY <1>4 DEF SnkServe, Looping, netVars, loopVars
  <2> QED
    BY <1>b, <2>1 DEF BreakRank
<1>5. CASE SnkAwait \/ SnkReinit
  <2>1. kpc = "await" /\ kpc' \in {"poll", "end"} /\ link' = "down" /\ posted'
    BY <1>5 DEF SnkAwait, SnkReinit, netVars, loopVars
  <2> QED
    BY <2>1 DEF BreakRank
<1>6. CASE SnkPollEmpty \/ SnkPollKeepAlive \/ SnkPollAck \/ SnkPollOther
  BY <1>6, <1>a DEF SnkPollEmpty, SnkPollKeepAlive, SnkPollAck, SnkPollOther, Received
<1> QED
  BY <1>1, <1>2, <1>3, <1>4, <1>5, <1>6 DEF SinkStep

(* Once the connection is broken while its receive is posted, the sink     *)
(* takes at most KeepAlivePeriod + 1 more steps: the safety half of        *)
(* PeerGone for the sink.                                                  *)
THEOREM BreakLowersHolds == Spec => BreakLowers
<1>1. IInv /\ [Next]_vars =>
        [link = "down" /\ posted => /\ link' = "down" /\ posted'
                                    /\ BreakRank' <= BreakRank
                                    /\ SinkStep => BreakRank' < BreakRank]_vars
  BY BreakStep
<1> QED
  BY <1>1, Invariant, PTL DEF Spec, BreakLowers

(* The source ends at its next step once the connection is broken, except  *)
(* that it may first take its subscription up again, or pass over a frame  *)
(* it takes for a repetition (lpHandleClientReq's error paths).            *)
BreakEndsSource ==
    [][link = "down" /\ SourceRun /\ spc' # "end" =>
          /\ spc = "get" /\ spc' = "get"
          /\ \/ lgsub = "timedout" /\ lgsub' = "on"
             \/ Repeated(Head(lgq)) /\ Len(lgq') < Len(lgq)]_vars

(* A step of the source on a broken connection that does not end it. *)
LEMMA SourceBreakStep ==
  ASSUME IInv, SourceRun, link = "down", spc' # "end"
  PROVE  /\ spc = "get" /\ spc' = "get"
         /\ \/ lgsub = "timedout" /\ lgsub' = "on"
            \/ Repeated(Head(lgq)) /\ Len(lgq') < Len(lgq)
<1>a. toSource = <<>> /\ lgq \in Seq(Nat)
  BY DEF IInv, ChannelsDrained, TypeOK, LgTyped
<1>1. CASE SrcPollError \/ SrcRecvDisconnect \/ SrcGetError \/ SrcSendFail \/ SrcSendDone
  BY <1>1 DEF SrcPollError, SrcRecvDisconnect, SrcGetError, SrcSendFail, SrcSendDone, SrcDestroy
<1>2. CASE SrcRecvKeepAlive \/ SrcRecvFrameReq \/ SrcGetKeepAlive
  BY <1>2, <1>a DEF SrcRecvKeepAlive, SrcRecvFrameReq, SrcGetKeepAlive
<1>3. CASE SrcResubscribe
  BY <1>3 DEF SrcResubscribe, srcVars
<1>4. CASE SrcGetFrame
  <2>1. /\ lgq # <<>> /\ Repeated(Head(lgq)) /\ UNCHANGED spc /\ spc = "get"
        /\ lgq' = MessageDone(Tail(lgq))
    BY <1>4 DEF SrcGetFrame, SrcDestroy, MessageDone
  <2>2. Tail(lgq) \in Seq(Nat) /\ Len(lgq) \in Nat /\ Len(Tail(lgq)) = Len(lgq) - 1
    BY <1>a, <2>1, TailFacts
  <2>3. lgq' \in Seq(Nat) /\ Len(lgq') <= Len(Tail(lgq))
    BY <2>1, <2>2, DoneTyped
  <2>4. Len(lgq') \in Nat
    BY <2>3, LenTyped
  <2> QED
    BY <2>1, <2>2, <2>3, <2>4
<1> QED
  BY <1>1, <1>2, <1>3, <1>4 DEF SourceRun

(* A broken connection ends the source: the safety half of PeerGone there. *)
THEOREM BreakEndsSourceHolds == Spec => BreakEndsSource
<1>1. IInv /\ [Next]_vars =>
        [link = "down" /\ SourceRun /\ spc' # "end" =>
            /\ spc = "get" /\ spc' = "get"
            /\ \/ lgsub = "timedout" /\ lgsub' = "on"
               \/ Repeated(Head(lgq)) /\ Len(lgq') < Len(lgq)]_vars
  BY SourceBreakStep
<1> QED
  BY <1>1, Invariant, PTL DEF Spec, BreakEndsSource
==============================================================================
