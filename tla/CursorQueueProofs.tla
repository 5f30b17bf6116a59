-------------------------- MODULE CursorQueueProofs --------------------------
(***************************************************************************)
(* Theorems about CursorQueue, for rings and queues of any size and any    *)
(* number of updates.  What is said of images holds in every behaviour in  *)
(* which lpCursorThread, where it reads the length of an image again in    *)
(* the message it has freed, finds it as it was.                           *)
(***************************************************************************)
EXTENDS CursorQueue, TLAPS

(* An image that was received goes to the ring that has room for it. *)
LengthKept == ReceiveCursor =>
                posting'.slot[1] = IF Head(wire).image THEN "shape" ELSE "pointer"

(* Taking the first member of a sequence. *)
LEMMA TailFacts ==
  ASSUME NEW S, NEW q \in Seq(S), q # <<>>
  PROVE  /\ Tail(q) \in Seq(S) /\ Len(q) \in Nat \ {0}
         /\ DOMAIN q = 1..Len(q) /\ DOMAIN Tail(q) = 1 .. Len(q) - 1
         /\ Head(q) = q[1] /\ Head(q) \in S
         /\ \A i \in 1 .. Len(q) - 1 : Tail(q)[i] = q[i + 1]
OBVIOUS

(* Adding a member to a sequence. *)
LEMMA AppendFacts ==
  ASSUME NEW S, NEW q \in Seq(S), NEW m \in S
  PROVE  /\ Append(q, m) \in Seq(S) /\ Len(q) \in Nat
         /\ DOMAIN q = 1..Len(q) /\ DOMAIN Append(q, m) = 1 .. Len(q) + 1
         /\ \A i \in 1 .. Len(q) : Append(q, m)[i] = q[i]
         /\ Append(q, m)[Len(q) + 1] = m
OBVIOUS

(* A ring's index stays in the ring. *)
LEMMA AdvanceStays ==
  ASSUME NEW n \in Nat \ {0}, NEW i \in 0 .. n - 1
  PROVE  Advance(i, n) \in 0 .. n - 1
BY DEF Advance

(* What an update does to the buffers: one is written, with the header and *)
(* in the shape ring with the image too, and an entry names it.            *)
LEMMA UpdateFacts ==
  ASSUME TypeOK, NEW cur \in Cursor, NEW sized \in BOOLEAN,
         NEW isTold \in BOOLEAN, NEW isShape \in BOOLEAN,
         UpdateCursorPos(cur, sized, isTold, isShape)
  PROVE  /\ memory' \in [Slot -> Cursor]
         /\ pointer_index' \in 0..Pointers-1 /\ cursor_shape_index' \in 0..Shapes-1
         /\ posting' \in Entry
         /\ posting'.told = isTold /\ posting'.shape = isShape /\ posting'.holds = cur
         /\ posting'.slot \in Slot
         /\ posting'.slot[1] = IF sized THEN "shape" ELSE "pointer"
         /\ memory'[posting'.slot].pos = cur.pos
         /\ sized => memory'[posting'.slot].image = cur.image
         /\ \A s \in Slot \ {posting'.slot} : memory'[s] = memory[s]
<1> DEFINE slot == IF sized THEN <<"shape", cursor_shape_index>> ELSE <<"pointer", pointer_index>>
<1>1. slot \in Slot /\ slot[1] = IF sized THEN "shape" ELSE "pointer"
  BY DEF TypeOK, Slot
<1>2. Copy(memory[slot], cur, sized) \in Cursor
      /\ Copy(memory[slot], cur, sized).pos = cur.pos
      /\ (sized => Copy(memory[slot], cur, sized).image = cur.image)
  BY DEF Copy, Cursor
<1>3. memory' = [memory EXCEPT ![slot] = Copy(memory[slot], cur, sized)]
      /\ posting' = [slot |-> slot, told |-> isTold, shape |-> isShape, holds |-> cur]
  BY DEF UpdateCursorPos
<1>4. /\ pointer_index' \in 0..Pointers-1 /\ cursor_shape_index' \in 0..Shapes-1
  BY SizesAssumption, AdvanceStays DEF UpdateCursorPos, TypeOK
<1> HIDE DEF slot
<1>5. posting' \in Entry
  BY <1>1, <1>3, Zenon DEF Entry
<1> QED
  BY <1>1, <1>2, <1>3, <1>4, <1>5 DEF TypeOK

(* The message being received. *)
LEMMA HeadFacts ==
  ASSUME TypeOK, wire # <<>>
  PROVE  /\ Head(wire) = wire[1] /\ 1 \in DOMAIN wire
         /\ wire[1].kind \in {"cursor", "keepalive", "disconnect"}
         /\ wire[1].pos \in Nat /\ wire[1].image \in BOOLEAN
         /\ Tail(wire) \in Seq(Message)
         /\ \A i \in DOMAIN Tail(wire) :
              /\ i + 1 \in DOMAIN wire /\ Tail(wire)[i] = wire[i + 1]
              /\ i \in Nat \ {0}
<1>1. wire \in Seq(Message)
  BY DEF TypeOK
<1>2. Head(wire) = wire[1] /\ wire[1] \in Message
  BY <1>1, TailFacts
<1>3. 1 \in DOMAIN wire /\ Tail(wire) \in Seq(Message)
  BY <1>1, TailFacts
<1>4. ASSUME NEW i \in DOMAIN Tail(wire)
      PROVE  i + 1 \in DOMAIN wire /\ Tail(wire)[i] = wire[i + 1] /\ i \in Nat \ {0}
  BY <1>1, <1>4, TailFacts
<1> QED
  BY <1>2, <1>3, <1>4 DEF Message

(* The buffer of the sink's thread after a message. *)
LEMMA ReceivedTypes ==
  ASSUME TypeOK, ReceiveCursor
  PROVE  /\ cursor' \in Cursor /\ cursor'.pos = wire[1].pos
         /\ cursor'.image = IF wire[1].image THEN wire[1].pos ELSE cursor.image
         /\ told' = TRUE /\ shape' = wire[1].image
         /\ \E sized \in BOOLEAN :
              /\ FreedIntact => sized = wire[1].image
              /\ UpdateCursorPos(cursor', sized, TRUE, wire[1].image)
<1>1. wire # <<>>
  BY DEF ReceiveCursor
<1> DEFINE cur == [pos |-> wire[1].pos, image |-> IF wire[1].image THEN wire[1].pos ELSE cursor.image]
<1>2. cur \in Cursor
  BY <1>1, HeadFacts DEF TypeOK, Cursor
<1>3. cursor' = cur /\ told' = TRUE /\ shape' = wire[1].image
  BY <1>1, HeadFacts DEF ReceiveCursor
<1>4. \E sized \in BOOLEAN : (FreedIntact => sized = wire[1].image)
                             /\ UpdateCursorPos(cur, sized, TRUE, wire[1].image)
  BY <1>1, HeadFacts DEF ReceiveCursor
<1> QED
  BY <1>2, <1>3, <1>4

(* Every step keeps the types. *)
LEMMA Typing == TypeOK /\ [Next]_vars => TypeOK'
<1> SUFFICES ASSUME TypeOK, [Next]_vars PROVE TypeOK'
  OBVIOUS
<1> USE DEF local, rings, client, threadRest, clientRest
<1>1. ASSUME NEW kind \in {"cursor", "keepalive", "disconnect"}, NEW pos \in Nat,
             NEW image \in BOOLEAN, Put(kind, pos, image), sent' \in Nat
      PROVE  TypeOK'
  <2>1. [kind |-> kind, pos |-> pos, image |-> image] \in Message
    BY DEF Message
  <2>2. wire' \in Seq(Message)
    BY <1>1, <2>1, AppendFacts DEF Put, TypeOK
  <2> QED
    BY <1>1, <2>2 DEF Put, TypeOK
<1>2. CASE SendCursor
  BY <1>2, <1>1 DEF SendCursor, TypeOK
<1>3. CASE SendKeepAlive
  BY <1>3, <1>1 DEF SendKeepAlive, TypeOK
<1>4. CASE SendDisconnect
  BY <1>4, <1>1 DEF SendDisconnect, TypeOK
<1>5. CASE ReceiveCursor
  <2>1. PICK sized \in BOOLEAN : UpdateCursorPos(cursor', sized, TRUE, wire[1].image)
    BY <1>5, ReceivedTypes
  <2>2. wire # <<>> /\ wire[1].image \in BOOLEAN /\ Tail(wire) \in Seq(Message)
    BY <1>5, HeadFacts DEF ReceiveCursor
  <2>3. cursor' \in Cursor /\ told' \in BOOLEAN /\ shape' \in BOOLEAN
    BY <1>5, <2>2, ReceivedTypes
  <2>4. /\ memory' \in [Slot -> Cursor] /\ posting' \in Entry
        /\ pointer_index' \in 0..Pointers-1 /\ cursor_shape_index' \in 0..Shapes-1
    BY <2>1, <2>2, <2>3, UpdateFacts
  <2>5. wire' = Tail(wire) /\ UNCHANGED <<sent, pointer_shape_valid, queue, subscribed, shown, owed, alive>>
    BY <1>5 DEF ReceiveCursor
  <2> QED
    BY <2>2, <2>3, <2>4, <2>5 DEF TypeOK
<1>6. CASE ReceiveKeepAlive \/ ReceiveDisconnect \/ ThreadEnds
  BY <1>6, HeadFacts DEF ReceiveKeepAlive, ReceiveDisconnect, ThreadEnds, TypeOK
<1>7. CASE Repeat
  <2>1. UpdateCursorPos(cursor, FALSE, told, FALSE)
        /\ UNCHANGED <<sent, wire, local, pointer_shape_valid, client>>
    BY <1>7 DEF Repeat
  <2>2. cursor \in Cursor /\ told \in BOOLEAN
    BY DEF TypeOK
  <2>3. /\ memory' \in [Slot -> Cursor] /\ posting' \in Entry
        /\ pointer_index' \in 0..Pointers-1 /\ cursor_shape_index' \in 0..Shapes-1
    BY <2>1, <2>2, UpdateFacts
  <2> QED
    BY <2>1, <2>3 DEF TypeOK
<1>8. CASE PostCursor
  <2>1. posting \in Entry
    BY <1>8 DEF PostCursor, PostDropped, PostQueued, PostRefused, TypeOK
  <2>2. CASE PostQueued
    <3>1. queue' \in Seq(Entry) /\ owed' \in Nat
      BY <2>1, <2>2, AppendFacts DEF PostQueued, TypeOK, Entry, Cursor
    <3> QED
      BY <1>8, <2>1, <2>2, <3>1 DEF PostCursor, PostQueued, TypeOK
  <2>3. CASE PostDropped \/ PostRefused
    BY <1>8, <2>1, <2>3 DEF PostCursor, PostDropped, PostRefused, TypeOK
  <2> QED
    BY <1>8, <2>2, <2>3 DEF PostCursor
<1>9. CASE ClientRead
  <2>1. queue # <<>> /\ Head(queue) \in Entry /\ queue' = Tail(queue) /\ queue' \in Seq(Entry)
    BY <1>9, TailFacts DEF ClientRead, TypeOK
  <2>2. memory[Head(queue).slot] \in Cursor
    BY <2>1 DEF TypeOK, Entry
  <2>3. shown' \in Cursor
    BY <1>9, <2>1, <2>2 DEF ClientRead, TypeOK, Cursor
  <2> QED
    BY <1>9, <2>1, <2>3 DEF ClientRead, TypeOK
<1>10. CASE Subscribe \/ Unsubscribe
  <2>1. Blank \in Cursor /\ <<>> \in Seq(Entry)
    BY DEF Blank, Cursor
  <2>2. CASE Subscribe
    BY <2>1, <2>2 DEF Subscribe, TypeOK
  <2>3. CASE Unsubscribe
    <3>1. queue' \in Seq(Entry) /\ owed' \in Nat /\ subscribed' \in BOOLEAN
      BY <2>1, <2>3 DEF Unsubscribe
    <3> QED
      BY <2>3, <3>1 DEF Unsubscribe, TypeOK
  <2> QED
    BY <1>10, <2>2, <2>3
<1>11. CASE Ended \/ UNCHANGED vars
  BY <1>11 DEF Ended, vars, TypeOK
<1> QED
  BY <1>2, <1>3, <1>4, <1>5, <1>6, <1>7, <1>8, <1>9, <1>10, <1>11
     DEF Next, Source, CursorThread, Receive, Client

(* The types are right at first. *)
LEMMA TypeCorrectInit == Init => TypeOK
<1>1. Blank \in Cursor /\ <<>> \in Seq(Entry) /\ <<>> \in Seq(Message)
  BY DEF Blank, Cursor
<1>2. 0 \in 0..Pointers-1 /\ 0 \in 0..Shapes-1
  BY SizesAssumption
<1> SUFFICES ASSUME Init PROVE TypeOK
  OBVIOUS
<1>3. memory \in [Slot -> Cursor]
  BY <1>1 DEF Init
<1>4. wire \in Seq(Message) /\ queue \in Seq(Entry) /\ cursor \in Cursor /\ shown \in Cursor
  BY <1>1 DEF Init
<1> QED
  BY <1>2, <1>3, <1>4 DEF Init, TypeOK

(* The types are right in every behaviour. *)
THEOREM TypeCorrect == Spec => []TypeOK
<1> QED
  BY TypeCorrectInit, Typing, PTL DEF Spec

-----------------------------------------------------------------------------
(* The inductive invariant. *)

(* Updates stay in order: what is sent is newer than all before it, what   *)
(* is received is the oldest under way.                                    *)
LEMMA OrderStep ==
  ASSUME TypeOK, UpdatesInOrder, [Next]_vars
  PROVE  UpdatesInOrder'
<1> USE DEF local, rings, client, threadRest, clientRest
<1>1. ASSUME NEW kind, NEW pos \in Nat, NEW image, Put(kind, pos, image), sent' \in Nat,
             sent <= sent', kind = "cursor" => sent < pos /\ pos <= sent'
      PROVE  UpdatesInOrder'
  <2> DEFINE m == [kind |-> kind, pos |-> pos, image |-> image]
  <2>1. /\ Len(wire) \in Nat /\ DOMAIN wire = 1..Len(wire)
        /\ DOMAIN wire' = 1 .. Len(wire) + 1
        /\ \A i \in 1 .. Len(wire) : wire'[i] = wire[i]
        /\ wire'[Len(wire) + 1] = m
    BY <1>1 DEF Put, TypeOK
  <2>2. m.kind = kind /\ m.pos = pos
    OBVIOUS
  <2>3. \A i \in 1 .. Len(wire) : wire[i].pos \in Nat
    <3>1. \A i \in 1 .. Len(wire) : wire[i] \in Message
      BY DEF TypeOK
    <3> QED
      BY <3>1 DEF Message
  <2>4. cursor' = cursor /\ cursor.pos \in Nat /\ cursor.image \in Nat /\ sent \in Nat
    BY <1>1 DEF Put, TypeOK, Cursor
  <2> HIDE DEF m
  <2>5. cursor'.pos <= sent' /\ cursor'.image <= cursor'.pos
    BY <1>1, <2>4 DEF UpdatesInOrder
  <2>6. ASSUME NEW i \in DOMAIN wire', wire'[i].kind = "cursor"
        PROVE  /\ cursor.pos < wire'[i].pos /\ wire'[i].pos <= sent'
               /\ \A j \in DOMAIN wire' : i < j /\ wire'[j].kind = "cursor" => wire'[i].pos < wire'[j].pos
    <3>1. CASE i = Len(wire) + 1
      BY <1>1, <2>1, <2>2, <2>4, <2>6, <3>1 DEF UpdatesInOrder
    <3>2. CASE i \in 1 .. Len(wire)
      <4>1. /\ wire[i].kind = "cursor" /\ wire'[i] = wire[i]
            /\ cursor.pos < wire[i].pos /\ wire[i].pos <= sent
        BY <2>1, <2>6, <3>2 DEF UpdatesInOrder
      <4>2. ASSUME NEW j \in DOMAIN wire', i < j, wire'[j].kind = "cursor"
            PROVE  wire'[i].pos < wire'[j].pos
        <5>1. CASE j = Len(wire) + 1
          BY <1>1, <2>1, <2>2, <2>3, <2>4, <3>2, <4>1, <4>2, <5>1
        <5>2. CASE j \in 1 .. Len(wire)
          BY <2>1, <3>2, <4>1, <4>2, <5>2 DEF UpdatesInOrder
        <5> QED
          BY <2>1, <4>2, <5>1, <5>2
      <4> QED
        BY <1>1, <2>3, <2>4, <3>2, <4>1, <4>2
    <3> QED
      BY <2>1, <2>6, <3>1, <3>2
  <2> QED
    BY <2>4, <2>5, <2>6 DEF UpdatesInOrder
<1>2. CASE SendCursor
  BY <1>2, <1>1 DEF SendCursor, TypeOK
<1>3. CASE SendKeepAlive \/ SendDisconnect
  <2>1. sent' \in Nat /\ sent <= sent' /\ "keepalive" # "cursor" /\ "disconnect" # "cursor"
    <3>1. sent' = sent /\ sent \in Nat
      BY <1>3 DEF SendKeepAlive, SendDisconnect, TypeOK
    <3> QED
      BY <3>1
  <2>2. Put("keepalive", 0, FALSE) \/ Put("disconnect", 0, FALSE)
    BY <1>3 DEF SendKeepAlive, SendDisconnect
  <2>3. 0 \in Nat
    OBVIOUS
  <2> QED
    BY <1>1, <2>1, <2>2, <2>3, Zenon
<1>4. ASSUME wire # <<>>, wire' = Tail(wire), sent' = sent,
             cursor' = cursor \/ ReceiveCursor
      PROVE  UpdatesInOrder'
  <2>1. cursor'.pos <= sent' /\ cursor'.image <= cursor'.pos
    <3>1. CASE ReceiveCursor
      <4>1. 1 \in DOMAIN wire /\ wire[1].kind = "cursor" /\ wire[1].pos \in Nat
        BY <1>4, <3>1, HeadFacts DEF ReceiveCursor
      <4>2. cursor'.pos = wire[1].pos
            /\ cursor'.image = IF wire[1].image THEN wire[1].pos ELSE cursor.image
        BY <3>1, ReceivedTypes
      <4>3. cursor.pos \in Nat /\ cursor.image \in Nat
        BY DEF TypeOK, Cursor
      <4> QED
        BY <1>4, <4>1, <4>2, <4>3 DEF UpdatesInOrder
    <3>2. CASE cursor' = cursor
      BY <1>4, <3>2 DEF UpdatesInOrder
    <3> QED
      BY <1>4, <3>1, <3>2
  <2>2. ASSUME NEW i \in DOMAIN wire', wire'[i].kind = "cursor"
        PROVE  /\ cursor'.pos < wire'[i].pos /\ wire'[i].pos <= sent
               /\ \A j \in DOMAIN wire' : i < j /\ wire'[j].kind = "cursor" => wire'[i].pos < wire'[j].pos
    <3>1. /\ i + 1 \in DOMAIN wire /\ wire'[i] = wire[i + 1] /\ i \in Nat \ {0}
          /\ 1 \in DOMAIN wire /\ Head(wire) = wire[1]
      BY <1>4, <2>2, HeadFacts
    <3>2. cursor'.pos < wire'[i].pos /\ wire'[i].pos <= sent
      <4>1. cursor.pos < wire[i + 1].pos /\ wire[i + 1].pos <= sent
        BY <2>2, <3>1 DEF UpdatesInOrder
      <4>2. CASE ReceiveCursor
        <5>1. wire[1].kind = "cursor" /\ cursor'.pos = wire[1].pos
          BY <3>1, <4>2, ReceivedTypes DEF ReceiveCursor
        <5>2. 1 < i + 1
          BY <3>1
        <5> QED
          BY <2>2, <3>1, <4>1, <5>1, <5>2 DEF UpdatesInOrder
      <4> QED
        BY <1>4, <3>1, <4>1, <4>2
    <3>3. ASSUME NEW j \in DOMAIN wire', i < j, wire'[j].kind = "cursor"
          PROVE  wire'[i].pos < wire'[j].pos
      <4>1. j + 1 \in DOMAIN wire /\ wire'[j] = wire[j + 1] /\ j \in Nat \ {0}
        BY <1>4, <3>3, HeadFacts
      <4> QED
        BY <2>2, <3>1, <3>3, <4>1 DEF UpdatesInOrder
    <3> QED
      BY <3>2, <3>3
  <2> QED
    BY <1>4, <2>1, <2>2 DEF UpdatesInOrder
<1>5. CASE Receive
  BY <1>4, <1>5 DEF Receive, ReceiveCursor, ReceiveKeepAlive, ReceiveDisconnect
<1>6. CASE UNCHANGED <<sent, wire, cursor>>
  BY <1>6 DEF UpdatesInOrder
<1>7. CASE ThreadEnds \/ Repeat \/ PostCursor \/ Client \/ Ended \/ UNCHANGED vars
  BY <1>6, <1>7 DEF ThreadEnds, Repeat, PostCursor, Client, ClientRead, Subscribe, Unsubscribe,
                    Ended, vars
<1> QED
  BY <1>2, <1>3, <1>5, <1>7 DEF Next, Source, CursorThread

(* What the thread puts in a buffer is no older than what was there, so    *)
(* what was said of an entry stays true, and is true of the new one.       *)
LEMMA UpdateKeepsFresh ==
  ASSUME TypeOK, NEW sized \in BOOLEAN, NEW isTold \in BOOLEAN, NEW isShape \in BOOLEAN,
         cursor' \in Cursor, cursor.pos <= cursor'.pos, cursor.image <= cursor'.image,
         isShape => sized /\ cursor'.image > 0,
         UpdateCursorPos(cursor', sized, isTold, isShape)
  PROVE  /\ \A e \in Entry : Fresh(e) => Fresh(e)'
         /\ Fresh(posting)'
<1>1. /\ memory' \in [Slot -> Cursor] /\ posting' \in Entry
      /\ posting'.told = isTold /\ posting'.shape = isShape /\ posting'.holds = cursor'
      /\ posting'.slot \in Slot
      /\ posting'.slot[1] = IF sized THEN "shape" ELSE "pointer"
      /\ memory'[posting'.slot].pos = cursor'.pos
      /\ sized => memory'[posting'.slot].image = cursor'.image
      /\ \A s \in Slot \ {posting'.slot} : memory'[s] = memory[s]
  BY UpdateFacts
<1>2. cursor'.pos \in Nat /\ cursor'.image \in Nat /\ cursor.pos \in Nat /\ cursor.image \in Nat
  BY DEF TypeOK, Cursor
<1>3. ASSUME NEW e \in Entry, Fresh(e) PROVE Fresh(e)'
  <2>1. e.slot \in Slot /\ e.holds.pos \in Nat /\ e.holds.image \in Nat
    BY DEF Entry, Cursor
  <2>2. e.holds.pos <= cursor'.pos /\ e.holds.image <= cursor'.image
    BY <1>2, <1>3, <2>1 DEF Fresh
  <2>3. CASE e.slot = posting'.slot
    BY <1>1, <1>2, <1>3, <2>1, <2>2, <2>3 DEF Fresh
  <2>4. CASE e.slot # posting'.slot
    BY <1>1, <1>3, <2>1, <2>2, <2>4 DEF Fresh
  <2> QED
    BY <2>3, <2>4
<1>4. Fresh(posting)'
  BY <1>1, <1>2 DEF Fresh
<1> QED
  BY <1>3, <1>4

(* What is in the thread's buffer after a message, against what was.       *)
LEMMA ReceivedIsNewer ==
  ASSUME TypeOK, UpdatesInOrder, ReceiveCursor
  PROVE  /\ cursor.pos < cursor'.pos /\ cursor.image <= cursor'.image
         /\ wire[1].image => cursor.image < cursor'.image
<1>1. wire # <<>> /\ 1 \in DOMAIN wire /\ wire[1].kind = "cursor" /\ wire[1].pos \in Nat
  BY HeadFacts DEF ReceiveCursor
<1>2. cursor.pos < wire[1].pos /\ cursor.image <= cursor.pos
  BY <1>1 DEF UpdatesInOrder
<1>3. cursor'.pos = wire[1].pos /\ cursor'.image = IF wire[1].image THEN wire[1].pos ELSE cursor.image
  BY ReceivedTypes
<1>4. cursor.pos \in Nat /\ cursor.image \in Nat
  BY DEF TypeOK, Cursor
<1> QED
  BY <1>1, <1>2, <1>3, <1>4

(* The length is kept in particular where freed memory is left alone.      *)
LEMMA IntactKeepsLength ==
  ASSUME FreedIntact, TypeOK
  PROVE  LengthKept
<1> SUFFICES ASSUME ReceiveCursor
             PROVE  posting'.slot[1] = IF Head(wire).image THEN "shape" ELSE "pointer"
  BY DEF LengthKept
<1>1. PICK sized \in BOOLEAN :
        sized = wire[1].image /\ UpdateCursorPos(cursor', sized, TRUE, wire[1].image)
  BY ReceivedTypes
<1>2. wire[1].image \in BOOLEAN /\ Head(wire) = wire[1] /\ cursor' \in Cursor
  BY HeadFacts, ReceivedTypes DEF ReceiveCursor
<1> QED
  BY <1>1, <1>2, UpdateFacts

(* An update, by a message or by the clock: the buffer, the flag and what  *)
(* lpUpdateCursorPos makes of them.                                        *)
LEMMA UpdateStep ==
  ASSUME LengthKept, TypeOK, UpdatesInOrder, ReceiveCursor \/ Repeat
  PROVE  /\ cursor' \in Cursor /\ cursor.pos <= cursor'.pos /\ cursor.image <= cursor'.image
         /\ \A e \in Entry : Fresh(e) => Fresh(e)'
         /\ Fresh(posting)'
         /\ posting'.shape => posting'.holds.image > cursor.image
         /\ posting'.holds.image <= cursor'.image
         /\ posting = None
         /\ UNCHANGED <<queue, subscribed, shown, owed>>
<1>1. CASE ReceiveCursor
  <2>1. PICK sized \in BOOLEAN :
            sized = wire[1].image /\ UpdateCursorPos(cursor', sized, TRUE, wire[1].image)
    <3>1. PICK sized \in BOOLEAN : UpdateCursorPos(cursor', sized, TRUE, wire[1].image)
      BY <1>1, ReceivedTypes
    <3>2. wire[1].image \in BOOLEAN /\ Head(wire) = wire[1] /\ cursor' \in Cursor
      BY <1>1, HeadFacts, ReceivedTypes DEF ReceiveCursor
    <3>3. posting'.slot[1] = IF sized THEN "shape" ELSE "pointer"
      BY <3>1, <3>2, UpdateFacts
    <3>4. sized = wire[1].image
      BY <1>1, <3>2, <3>3 DEF LengthKept
    <3> QED
      BY <3>1, <3>4
  <2>2. wire[1].image \in BOOLEAN
    BY <1>1, HeadFacts DEF ReceiveCursor
  <2>3. cursor' \in Cursor /\ cursor.pos \in Nat /\ cursor.image \in Nat
    BY <1>1, ReceivedTypes DEF TypeOK, Cursor
  <2>4. cursor'.pos \in Nat /\ cursor'.image \in Nat
    BY <2>3 DEF Cursor
  <2>5. posting'.shape = wire[1].image /\ posting'.holds = cursor'
    BY <2>1, <2>2, <2>3, UpdateFacts
  <2>6. cursor.pos <= cursor'.pos /\ cursor.image <= cursor'.image
        /\ (wire[1].image => cursor'.image > cursor.image /\ cursor'.image > 0)
    BY <1>1, <2>3, <2>4, ReceivedIsNewer
  <2>7. (\A e \in Entry : Fresh(e) => Fresh(e)') /\ Fresh(posting)'
    BY <2>1, <2>2, <2>3, <2>6, UpdateKeepsFresh
  <2>8. posting = None /\ UNCHANGED <<queue, subscribed, shown, owed>>
    BY <1>1 DEF ReceiveCursor, Ready, threadRest, client
  <2> QED
    BY <2>3, <2>4, <2>5, <2>6, <2>7, <2>8
<1>2. CASE Repeat
  <2>1. UpdateCursorPos(cursor, FALSE, told, FALSE) /\ cursor' = cursor
    BY <1>2 DEF Repeat, local
  <2>2. cursor \in Cursor /\ told \in BOOLEAN /\ cursor.pos \in Nat /\ cursor.image \in Nat
    BY DEF TypeOK, Cursor
  <2>3. posting'.shape = FALSE /\ posting'.holds = cursor
    BY <2>1, <2>2, UpdateFacts
  <2>4. (\A e \in Entry : Fresh(e) => Fresh(e)') /\ Fresh(posting)'
    <3>1. UpdateCursorPos(cursor', FALSE, told, FALSE)
      BY <2>1
    <3>2. cursor.pos <= cursor'.pos /\ cursor.image <= cursor'.image
      BY <2>1, <2>2
    <3> QED
      BY <2>1, <2>2, <3>1, <3>2, UpdateKeepsFresh
  <2>5. posting = None /\ UNCHANGED <<queue, subscribed, shown, owed>>
    BY <1>2 DEF Repeat, Ready, threadRest, client
  <2> QED
    BY <2>1, <2>2, <2>3, <2>4, <2>5
<1> QED
  BY <1>1, <1>2

(* What the invariant says of the entries, and of the image owed.          *)
Entries == /\ EntriesFresh /\ ImagesInOrder /\ OwedIsLast
           /\ ~subscribed => queue = <<>> /\ owed = 0

(* An update touches no entry that is queued; its own is newer than all.   *)
LEMMA EntriesUpdate ==
  ASSUME LengthKept, TypeOK, UpdatesInOrder, Entries, ReceiveCursor \/ Repeat
  PROVE  Entries'
<1>1. /\ cursor' \in Cursor /\ cursor.image <= cursor'.image
      /\ \A e \in Entry : Fresh(e) => Fresh(e)'
      /\ Fresh(posting)'
      /\ posting'.shape => posting'.holds.image > cursor.image
      /\ UNCHANGED <<queue, subscribed, shown, owed>>
  BY UpdateStep
<1>2. \A i \in DOMAIN queue : queue[i] \in Entry
  BY DEF TypeOK
<1>3. cursor.image \in Nat /\ cursor'.image \in Nat /\ owed \in Nat
  BY <1>1 DEF TypeOK, Cursor
<1>4. posting' \in Entry /\ posting'.holds.image \in Nat
  <2>1. posting' \in Entry
    <3>1. CASE ReceiveCursor
      BY <3>1, ReceivedTypes, UpdateFacts, HeadFacts DEF ReceiveCursor
    <3>2. CASE Repeat
      BY <3>2, UpdateFacts DEF Repeat, TypeOK
    <3> QED
      BY <3>1, <3>2
  <2> QED
    BY <2>1 DEF Entry, Cursor
<1>5. EntriesFresh'
  BY <1>1, <1>2 DEF Entries, EntriesFresh, Fresh
<1>6. ImagesInOrder'
  BY <1>1, <1>3, <1>4 DEF Entries, ImagesInOrder
<1>7. OwedIsLast' /\ (~subscribed => queue = <<>> /\ owed = 0)'
  BY <1>1 DEF Entries, OwedIsLast
<1> QED
  BY <1>5, <1>6, <1>7 DEF Entries

(* An entry that is queued is the newest of the queue; one that is refused *)
(* or dropped changes nothing.                                             *)
LEMMA EntriesPost ==
  ASSUME TypeOK, Entries, PostCursor
  PROVE  Entries'
<1>1. posting # None /\ posting \in Entry /\ posting' = None /\ UNCHANGED <<cursor, memory>>
  BY DEF PostCursor, PostDropped, PostQueued, PostRefused, TypeOK, local, rings
<1>2. CASE PostDropped \/ PostRefused
  <2>1. UNCHANGED <<queue, subscribed, shown, owed>>
    BY <1>2 DEF PostDropped, PostRefused, client
  <2> QED
    BY <1>1, <2>1 DEF Entries, EntriesFresh, ImagesInOrder, OwedIsLast, Fresh
<1>3. CASE PostQueued
  <2>1. /\ Len(queue) \in Nat /\ DOMAIN queue = 1..Len(queue)
        /\ DOMAIN queue' = 1 .. Len(queue) + 1
        /\ \A i \in 1 .. Len(queue) : queue'[i] = queue[i]
        /\ queue'[Len(queue) + 1] = posting
    BY <1>1, <1>3, AppendFacts DEF PostQueued, TypeOK
  <2>2. /\ subscribed /\ subscribed' /\ shown' = shown
        /\ owed' = IF posting.shape THEN posting.holds.image ELSE owed
    BY <1>3 DEF PostQueued
  <2>3. posting.holds.image \in Nat /\ owed \in Nat /\ cursor.image \in Nat
    BY <1>1 DEF Entry, Cursor, TypeOK
  <2>4. EntriesFresh'
    <3>1. ASSUME NEW i \in DOMAIN queue' PROVE Fresh(queue[i])'
      <4>1. CASE i = Len(queue) + 1
        BY <1>1, <2>1, <4>1 DEF Entries, EntriesFresh, Fresh
      <4>2. CASE i \in 1 .. Len(queue)
        BY <1>1, <2>1, <4>2 DEF Entries, EntriesFresh, Fresh
      <4> QED
        BY <2>1, <4>1, <4>2
    <3> QED
      BY <1>1, <3>1 DEF EntriesFresh
  <2>5. \A i \in 1 .. Len(queue) : queue[i].holds.image \in Nat
    <3>1. \A i \in 1 .. Len(queue) : queue[i] \in Entry
      BY <2>1 DEF TypeOK
    <3> QED
      BY <3>1 DEF Entry, Cursor
  <2>6. ImagesInOrder'
    <3>1. owed' <= cursor'.image
      BY <1>1, <2>2, <2>3 DEF Entries, ImagesInOrder, EntriesFresh, Fresh
    <3>2. ASSUME NEW i \in DOMAIN queue', queue'[i].shape
          PROVE  /\ queue'[i].holds.image <= owed'
                 /\ \A j \in DOMAIN queue' : i < j /\ queue'[j].shape
                      => queue'[i].holds.image < queue'[j].holds.image
      <4>1. CASE i = Len(queue) + 1
        BY <2>1, <2>2, <2>3, <3>2, <4>1
      <4>2. CASE i \in 1 .. Len(queue)
        <5>1. queue[i].holds.image <= owed /\ (posting.shape => owed < posting.holds.image)
          BY <1>1, <2>1, <3>2, <4>2 DEF Entries, ImagesInOrder
        <5>2. ASSUME NEW j \in DOMAIN queue', i < j, queue'[j].shape
              PROVE  queue'[i].holds.image < queue'[j].holds.image
          <6>1. CASE j = Len(queue) + 1
            BY <2>1, <2>3, <2>5, <4>2, <5>1, <5>2, <6>1
          <6>2. CASE j \in 1 .. Len(queue)
            BY <2>1, <3>2, <4>2, <5>2, <6>2 DEF Entries, ImagesInOrder
          <6> QED
            BY <2>1, <6>1, <6>2
        <5> QED
          BY <2>1, <2>2, <2>3, <2>5, <4>2, <5>1, <5>2
      <4> QED
        BY <2>1, <4>1, <4>2
    <3> QED
      BY <1>1, <3>1, <3>2 DEF ImagesInOrder
  <2>7. OwedIsLast'
    <3>1. CASE posting.shape
      BY <2>1, <2>2, <3>1 DEF OwedIsLast
    <3>2. CASE ~posting.shape
      <4>1. CASE \E i \in DOMAIN queue : queue[i].shape /\ queue[i].holds.image = owed
        BY <2>1, <2>2, <3>2, <4>1 DEF OwedIsLast
      <4>2. CASE shown.image >= owed /\ \A i \in DOMAIN queue : ~queue[i].shape
        <5>1. \A i \in DOMAIN queue' : ~queue'[i].shape
          BY <2>1, <3>2, <4>2
        <5> QED
          BY <2>2, <3>2, <4>2, <5>1 DEF OwedIsLast
      <4> QED
        BY <4>1, <4>2 DEF Entries, OwedIsLast
    <3> QED
      BY <3>1, <3>2
  <2> QED
    BY <2>2, <2>4, <2>6, <2>7 DEF Entries
<1> QED
  BY <1>2, <1>3 DEF PostCursor

(* The client reads the oldest entry: if it is the one of the image owed,  *)
(* there is no later image in the queue, and it shows that one or a newer. *)
LEMMA EntriesRead ==
  ASSUME TypeOK, Entries, ClientRead
  PROVE  Entries'
<1>1. /\ queue # <<>> /\ queue' = Tail(queue) /\ UNCHANGED <<cursor, memory, posting, subscribed, owed>>
      /\ shown'.image = IF Head(queue).shape THEN memory[Head(queue).slot].image ELSE shown.image
  BY DEF ClientRead, clientRest, local, rings
<1>2. /\ Len(queue) \in Nat \ {0} /\ DOMAIN queue = 1..Len(queue)
      /\ DOMAIN queue' = 1 .. Len(queue) - 1
      /\ Head(queue) = queue[1] /\ queue[1] \in Entry
      /\ \A i \in 1 .. Len(queue) - 1 : queue'[i] = queue[i + 1]
  BY <1>1, TailFacts DEF TypeOK
<1>3. \A i \in DOMAIN queue' : i + 1 \in DOMAIN queue /\ queue'[i] = queue[i + 1] /\ i \in Nat /\ 1 < i + 1
  BY <1>2
<1>4. \A i \in DOMAIN queue : queue[i].holds.image \in Nat
  <2>1. \A i \in DOMAIN queue : queue[i] \in Entry
    BY DEF TypeOK
  <2> QED
    BY <2>1 DEF Entry, Cursor
<1>5. EntriesFresh'
  BY <1>1, <1>3 DEF Entries, EntriesFresh, Fresh
<1>6. ImagesInOrder'
  BY <1>1, <1>3 DEF Entries, ImagesInOrder
<1>7. OwedIsLast'
  <2>1. CASE \E i \in DOMAIN queue : queue[i].shape /\ queue[i].holds.image = owed
    <3>1. PICK i \in DOMAIN queue : queue[i].shape /\ queue[i].holds.image = owed
      BY <2>1
    <3>2. CASE i = 1
      <4>1. \A j \in DOMAIN queue' : ~queue'[j].shape
        BY <1>2, <1>3, <1>4, <3>1, <3>2 DEF Entries, ImagesInOrder
      <4>2. shown'.image >= owed
        BY <1>1, <1>2, <3>1, <3>2 DEF Entries, EntriesFresh, Fresh
      <4> QED
        BY <1>1, <4>1, <4>2 DEF OwedIsLast
    <3>3. CASE i # 1
      <4>1. i - 1 \in DOMAIN queue' /\ queue'[i - 1] = queue[i]
        BY <1>2, <3>3
      <4> QED
        BY <1>1, <3>1, <4>1 DEF OwedIsLast
    <3> QED
      BY <3>2, <3>3
  <2>2. CASE shown.image >= owed /\ \A i \in DOMAIN queue : ~queue[i].shape
    BY <1>1, <1>2, <1>3, <2>2 DEF OwedIsLast
  <2> QED
    BY <2>1, <2>2 DEF Entries, OwedIsLast
<1>8. (~subscribed => queue = <<>> /\ owed = 0)'
  BY <1>1 DEF Entries
<1> QED
  BY <1>5, <1>6, <1>7, <1>8 DEF Entries

(* Every step keeps the invariant. *)
LEMMA InvStep ==
  ASSUME [LengthKept]_vars, IInv, [Next]_vars
  PROVE  IInv'
<1> USE DEF IInv
<1>1. TypeOK' /\ UpdatesInOrder'
  BY Typing, OrderStep
<1>2. Entries
  BY DEF Entries
<1> SUFFICES Entries'
  BY <1>1 DEF Entries
<1>3. CASE ReceiveCursor \/ Repeat
  <2>1. LengthKept
    <3>1. CASE ReceiveCursor
      <4>1. wire' = Tail(wire) /\ wire # <<>> /\ wire \in Seq(Message)
        BY <3>1 DEF ReceiveCursor, TypeOK
      <4>2. wire' # wire
        BY <4>1
      <4> QED
        BY <4>2 DEF vars
    <3>2. CASE ~ReceiveCursor
      BY <3>2 DEF LengthKept
    <3> QED
      BY <3>1, <3>2
  <2> QED
    BY <1>2, <1>3, <2>1, EntriesUpdate
<1>4. CASE PostCursor
  BY <1>2, <1>4, EntriesPost
<1>5. CASE ClientRead
  BY <1>2, <1>5, EntriesRead
<1>6. CASE Subscribe
  <2>1. /\ queue = <<>> /\ owed = 0 /\ subscribed' /\ shown'.image = 0
        /\ UNCHANGED <<cursor, memory, posting, queue, owed>>
    BY <1>2, <1>6 DEF Subscribe, clientRest, local, rings, Entries, Blank
  <2> QED
    BY <1>2, <2>1 DEF Entries, EntriesFresh, ImagesInOrder, OwedIsLast, Fresh
<1>7. CASE Unsubscribe
  <2>1. /\ queue' = <<>> /\ owed' = 0 /\ shown.image \in Nat /\ cursor.image \in Nat /\ posting \in Entry \cup {None}
        /\ UNCHANGED <<cursor, memory, posting, shown>>
    BY <1>7 DEF Unsubscribe, clientRest, local, rings, TypeOK, Cursor
  <2>2. OwedIsLast' /\ EntriesFresh'
    BY <1>2, <2>1 DEF Entries, OwedIsLast, EntriesFresh, Fresh
  <2>3. posting # None /\ posting.shape => posting.holds.image > 0
    BY <1>2 DEF Entries, EntriesFresh, Fresh
  <2> QED
    BY <2>1, <2>2, <2>3 DEF Entries, ImagesInOrder
<1>8. CASE UNCHANGED <<cursor, memory, posting, queue, subscribed, shown, owed>>
  BY <1>2, <1>8 DEF Entries, EntriesFresh, ImagesInOrder, OwedIsLast, Fresh
<1>9. CASE Source \/ ReceiveKeepAlive \/ ReceiveDisconnect \/ ThreadEnds \/ Ended \/ UNCHANGED vars
  BY <1>8, <1>9 DEF Source, SendCursor, SendKeepAlive, SendDisconnect, Put, ReceiveKeepAlive,
     ReceiveDisconnect, ThreadEnds, Ended, vars, local, rings, client, threadRest
<1> QED
  BY <1>3, <1>4, <1>5, <1>6, <1>7, <1>9 DEF Next, CursorThread, Receive, Client

(* The invariant holds of every behaviour that keeps the lengths. *)
THEOREM Invariant == Spec /\ [][LengthKept]_vars => []IInv
<1>1. Init => IInv
  <2> SUFFICES ASSUME Init PROVE IInv
    OBVIOUS
  <2>1. TypeOK
    BY TypeCorrectInit
  <2> QED
    BY <2>1 DEF Init, IInv, UpdatesInOrder, EntriesFresh, ImagesInOrder, OwedIsLast, Blank
<1>2. IInv /\ [Next]_vars /\ [LengthKept]_vars => IInv'
  BY InvStep
<1> QED
  BY <1>1, <1>2, PTL DEF Spec

(* An entry that announces an image always names a buffer that has it.     *)
THEOREM ImagesAreReal == Spec /\ [][LengthKept]_vars => []ImageIsReal
<1>1. IInv => ImageIsReal
  <2> SUFFICES ASSUME IInv, NEW i \in DOMAIN queue, queue[i].shape
               PROVE  /\ memory[queue[i].slot].image > 0
                      /\ memory[queue[i].slot].image >= queue[i].holds.image
    BY DEF ImageIsReal, Pending
  <2>1. queue[i] \in Entry
    BY DEF IInv, TypeOK
  <2>2. memory[queue[i].slot].image \in Nat /\ queue[i].holds.image \in Nat
    BY <2>1 DEF IInv, TypeOK, Entry, Cursor
  <2> QED
    BY <2>2 DEF IInv, EntriesFresh, Fresh
<1> QED
  BY <1>1, Invariant, PTL

(* An image that LGMP took for a client reaches it, or a newer one does.   *)
THEOREM ImagesArrive == Spec /\ [][LengthKept]_vars => []ImageArrives
<1>1. IInv => ImageArrives
  <2> SUFFICES ASSUME IInv PROVE ImageArrives
    OBVIOUS
  <2>1. CASE \E i \in DOMAIN queue : queue[i].shape /\ queue[i].holds.image = owed
    BY <2>1 DEF IInv, EntriesFresh, Fresh, ImageArrives, Pending
  <2>2. CASE shown.image >= owed
    BY <2>2 DEF ImageArrives
  <2> QED
    BY <2>1, <2>2 DEF IInv, OwedIsLast
<1> QED
  BY <1>1, Invariant, PTL

-----------------------------------------------------------------------------
(* What holds of positions, whatever a freed message is found to be.       *)
PosFresh(e) == /\ e.holds.pos <= cursor.pos
               /\ e.told => memory[e.slot].pos >= e.holds.pos

(* The entry being posted names a buffer with the thread's last position.  *)
PostingIsLast == posting # None => memory[posting.slot].pos = cursor.pos

Positions == /\ \A i \in DOMAIN queue : PosFresh(queue[i])
             /\ posting # None => PosFresh(posting)
             /\ PostingIsLast

(* An update, of whatever length, puts the thread's position in a buffer.  *)
LEMMA PositionUpdate ==
  ASSUME TypeOK, UpdatesInOrder, ReceiveCursor \/ Repeat
  PROVE  /\ cursor'.pos \in Nat /\ cursor.pos \in Nat /\ cursor.pos <= cursor'.pos
         /\ posting = None /\ posting'.holds = cursor' /\ posting'.slot \in Slot
         /\ memory'[posting'.slot].pos = cursor'.pos
         /\ \A s \in Slot \ {posting'.slot} : memory'[s] = memory[s]
         /\ UNCHANGED <<queue, subscribed, shown>>
<1>1. CASE ReceiveCursor
  <2>1. PICK sized \in BOOLEAN : UpdateCursorPos(cursor', sized, TRUE, wire[1].image)
    BY <1>1, ReceivedTypes
  <2>2. wire[1].image \in BOOLEAN /\ cursor' \in Cursor
    BY <1>1, HeadFacts, ReceivedTypes DEF ReceiveCursor
  <2>3. /\ posting'.holds = cursor' /\ posting'.slot \in Slot
        /\ memory'[posting'.slot].pos = cursor'.pos
        /\ \A s \in Slot \ {posting'.slot} : memory'[s] = memory[s]
    BY <2>1, <2>2, UpdateFacts
  <2>4. cursor.pos < cursor'.pos /\ cursor.pos \in Nat /\ cursor'.pos \in Nat
    BY <1>1, <2>2, ReceivedIsNewer DEF TypeOK, Cursor
  <2>5. posting = None /\ UNCHANGED <<queue, subscribed, shown>>
    BY <1>1 DEF ReceiveCursor, Ready, threadRest, client
  <2> QED
    BY <2>3, <2>4, <2>5
<1>2. CASE Repeat
  <2>1. UpdateCursorPos(cursor, FALSE, told, FALSE) /\ cursor' = cursor
    BY <1>2 DEF Repeat, local
  <2>2. cursor \in Cursor /\ told \in BOOLEAN /\ cursor.pos \in Nat
    BY DEF TypeOK, Cursor
  <2>3. /\ posting'.holds = cursor /\ posting'.slot \in Slot
        /\ memory'[posting'.slot].pos = cursor.pos
        /\ \A s \in Slot \ {posting'.slot} : memory'[s] = memory[s]
    BY <2>1, <2>2, UpdateFacts
  <2>4. posting = None /\ UNCHANGED <<queue, subscribed, shown>>
    BY <1>2 DEF Repeat, Ready, threadRest, client
  <2> QED
    BY <2>1, <2>2, <2>3, <2>4
<1> QED
  BY <1>1, <1>2

(* What the others leave alone. *)
LEMMA PositionRest ==
  ASSUME [Next]_vars
  PROVE  \/ ReceiveCursor \/ Repeat \/ PostCursor \/ ClientRead \/ Subscribe \/ Unsubscribe
         \/ SendCursor
         \/ UNCHANGED <<cursor, memory, posting, queue, subscribed, shown>>
BY DEF Next, Source, CursorThread, Receive, Client, SendKeepAlive, SendDisconnect, Put,
   ReceiveKeepAlive, ReceiveDisconnect, ThreadEnds, Ended, vars, local, rings, client, threadRest

(* The queue gets the entry that was being posted, or stays.               *)
LEMMA PostFacts ==
  ASSUME TypeOK, PostCursor
  PROVE  /\ posting # None /\ posting' = None
         /\ UNCHANGED <<cursor, memory, shown, sent>>
         /\ \/ queue' = queue
            \/ /\ Len(queue) \in Nat /\ DOMAIN queue = 1..Len(queue)
               /\ DOMAIN queue' = 1 .. Len(queue) + 1
               /\ \A i \in 1 .. Len(queue) : queue'[i] = queue[i]
               /\ queue'[Len(queue) + 1] = posting
<1>1. posting # None /\ posting \in Entry /\ posting' = None
      /\ UNCHANGED <<cursor, memory, shown, sent>>
  BY DEF PostCursor, PostDropped, PostQueued, PostRefused, TypeOK, local, rings, client
<1>2. CASE PostDropped \/ PostRefused
  BY <1>1, <1>2 DEF PostDropped, PostRefused, client
<1>3. CASE PostQueued
  BY <1>1, <1>3, AppendFacts DEF PostQueued, TypeOK
<1> QED
  BY <1>1, <1>2, <1>3 DEF PostCursor

(* The client takes the oldest entry from the queue. *)
LEMMA ReadFacts ==
  ASSUME TypeOK, ClientRead
  PROVE  /\ UNCHANGED <<cursor, memory, posting, sent>>
         /\ Head(queue) = queue[1] /\ 1 \in DOMAIN queue
         /\ \A i \in DOMAIN queue' :
              i \in Nat \ {0} /\ i + 1 \in DOMAIN queue /\ queue'[i] = queue[i + 1]
         /\ shown'.pos = IF Head(queue).told THEN memory[Head(queue).slot].pos ELSE shown.pos
<1>1. queue # <<>> /\ queue \in Seq(Entry) /\ queue' = Tail(queue)
  BY DEF ClientRead, TypeOK
<1>2. /\ Len(queue) \in Nat \ {0} /\ DOMAIN queue = 1..Len(queue)
      /\ DOMAIN queue' = 1 .. Len(queue) - 1
      /\ Head(queue) = queue[1]
      /\ \A i \in 1 .. Len(queue) - 1 : queue'[i] = queue[i + 1]
  BY <1>1, TailFacts
<1> QED
  BY <1>2 DEF ClientRead, clientRest, local, rings

(* Every step keeps what holds of positions. *)
LEMMA PositionStep ==
  ASSUME TypeOK, UpdatesInOrder, Positions, [Next]_vars
  PROVE  Positions'
<1> USE DEF Positions, PosFresh, PostingIsLast
<1>0. \A i \in DOMAIN queue : queue[i].slot \in Slot /\ queue[i].holds.pos \in Nat
  <2>1. \A i \in DOMAIN queue : queue[i] \in Entry
    BY DEF TypeOK
  <2> QED
    BY <2>1 DEF Entry, Cursor
<1>1. CASE ReceiveCursor \/ Repeat
  <2>1. /\ cursor'.pos \in Nat /\ cursor.pos \in Nat /\ cursor.pos <= cursor'.pos
        /\ posting'.holds = cursor' /\ posting'.slot \in Slot
        /\ memory'[posting'.slot].pos = cursor'.pos
        /\ \A s \in Slot \ {posting'.slot} : memory'[s] = memory[s]
        /\ queue' = queue
    BY <1>1, PositionUpdate
  <2>2. ASSUME NEW i \in DOMAIN queue PROVE PosFresh(queue[i])'
    <3>1. queue[i].holds.pos <= cursor'.pos
      BY <1>0, <2>1, <2>2
    <3>2. CASE queue[i].slot = posting'.slot
      BY <1>0, <2>1, <2>2, <3>1, <3>2
    <3>3. CASE queue[i].slot # posting'.slot
      BY <1>0, <2>1, <2>2, <3>1, <3>3
    <3> QED
      BY <3>2, <3>3
  <2> QED
    BY <2>1, <2>2
<1>2. CASE PostCursor
  BY <1>2, PostFacts
<1>3. CASE ClientRead
  BY <1>3, ReadFacts
<1>4. CASE Subscribe
  BY <1>4 DEF Subscribe, clientRest, local, rings
<1>5. CASE Unsubscribe
  BY <1>5 DEF Unsubscribe, clientRest, local, rings
<1>6. CASE SendCursor \/ UNCHANGED <<cursor, memory, posting, queue, subscribed, shown>>
  BY <1>6 DEF SendCursor, Put, local, rings, client
<1> QED
  BY <1>1, <1>2, <1>3, <1>4, <1>5, <1>6, PositionRest

(* What holds of positions holds throughout. *)
LEMMA PositionsHold == Spec => [](TypeOK /\ UpdatesInOrder /\ Positions)
<1>1. Init => TypeOK /\ UpdatesInOrder /\ Positions
  BY TypeCorrectInit DEF Init, UpdatesInOrder, Blank, Positions, PostingIsLast
<1>2. TypeOK /\ UpdatesInOrder /\ Positions /\ [Next]_vars =>
        (TypeOK /\ UpdatesInOrder /\ Positions)'
  BY Typing, OrderStep, PositionStep
<1> QED
  BY <1>1, <1>2, PTL DEF Spec

(* A client never finds an older position in a buffer than was posted for  *)
(* it, whatever lpUpdateCursorPos writes while entries wait, and whatever  *)
(* lpCursorThread reads in a message it has freed.                         *)
THEOREM EntriesStayFresh == Spec => []PositionIsFresh
<1>1. Positions => PositionIsFresh
  BY DEF Positions, PosFresh, PositionIsFresh, Pending
<1> QED
  BY <1>1, PositionsHold, PTL

-----------------------------------------------------------------------------
(* The sink has the guest's last position. *)
LastReceived == cursor.pos = sent

(* From the entry after the first n on, every one names a buffer with it.  *)
UpToDateAfter(n) ==
    \A i \in DOMAIN queue : i > n /\ queue[i].told => memory[queue[i].slot].pos = sent

(* Entries with an older position are not added, and are read one by one.  *)
CatchUpStep(n) ==
    UpToDateAfter(n) => UpToDateAfter(n)' /\ (n > 0 /\ ClientRead => UpToDateAfter(n - 1)')

(* When there are none, a client shows the last position once it reads an  *)
(* entry, and goes on showing it.                                          *)
ShowsLast ==
    UpToDateAfter(0) /\ ~Subscribe /\ (shown.pos = sent \/ (ClientRead /\ Head(queue).told))
      => shown'.pos = sent

CatchUp == [][LastReceived /\ sent' = sent =>
                LastReceived' /\ ShowsLast /\ \A n \in 0 .. Capacity : CatchUpStep(n)]_vars

(* While the guest's cursor rests, each step brings the client nearer.     *)
LEMMA CatchUpLemma ==
  ASSUME TypeOK, UpdatesInOrder, Positions, [Next]_vars, LastReceived, sent' = sent
  PROVE  LastReceived' /\ ShowsLast /\ \A n \in 0 .. Capacity : CatchUpStep(n)
<1> USE DEF LastReceived, UpToDateAfter, CatchUpStep, ShowsLast
<1>0. /\ \A i \in DOMAIN queue : queue[i].slot \in Slot
      /\ \A n \in 0 .. Capacity : n \in Nat /\ (n > 0 => n - 1 \in Nat)
      /\ \A i \in DOMAIN queue : i \in Nat \ {0}
      /\ sent \in Nat
  <2>1. \A i \in DOMAIN queue : queue[i] \in Entry
    BY DEF TypeOK
  <2> QED
    BY <2>1, SizesAssumption DEF Entry, TypeOK
<1>1. ~SendCursor /\ ~ReceiveCursor
  <2>1. ~SendCursor
    BY <1>0 DEF SendCursor
  <2>2. ASSUME ReceiveCursor PROVE FALSE
    <3>1. 1 \in DOMAIN wire /\ wire[1].kind = "cursor" /\ wire[1].pos \in Nat
      BY <2>2, HeadFacts DEF ReceiveCursor
    <3> QED
      BY <1>0, <3>1 DEF UpdatesInOrder
  <2> QED
    BY <2>1, <2>2
<1>2. CASE Repeat
  <2>1. /\ cursor' = cursor /\ posting'.slot \in Slot /\ posting'.holds = cursor'
        /\ memory'[posting'.slot].pos = sent
        /\ \A s \in Slot \ {posting'.slot} : memory'[s] = memory[s]
        /\ UNCHANGED <<queue, subscribed, shown>> /\ ~ClientRead
    BY <1>2, PositionUpdate DEF Repeat, local, ClientRead, TypeOK
  <2>2. \A i \in DOMAIN queue :
           memory[queue[i].slot].pos = sent => memory'[queue[i].slot].pos = sent
    BY <1>0, <2>1
  <2> QED
    BY <2>1, <2>2
<1>3. CASE PostCursor
  <2>1. /\ UNCHANGED <<cursor, memory, shown>> /\ memory[posting.slot].pos = sent
        /\ ~ClientRead
    BY <1>3, PostFacts DEF Positions, PostingIsLast, ClientRead, clientRest
  <2> QED
    BY <1>0, <1>3, <2>1, PostFacts
<1>4. CASE ClientRead
  <2>1. /\ UNCHANGED <<cursor, memory>>
        /\ Head(queue) = queue[1] /\ 1 \in DOMAIN queue
        /\ \A i \in DOMAIN queue' :
              i \in Nat \ {0} /\ i + 1 \in DOMAIN queue /\ queue'[i] = queue[i + 1]
        /\ shown'.pos = IF Head(queue).told THEN memory[Head(queue).slot].pos ELSE shown.pos
    BY <1>4, ReadFacts
  <2>2. ShowsLast
    BY <1>0, <2>1
  <2>3. ASSUME NEW n \in 0 .. Capacity, UpToDateAfter(n)
        PROVE  UpToDateAfter(n)' /\ (n > 0 => UpToDateAfter(n - 1)')
    BY <1>0, <2>1, <2>3
  <2> QED
    BY <2>1, <2>2, <2>3
<1>5. CASE Subscribe
  <2>1. UNCHANGED <<cursor, memory, queue>> /\ Subscribe /\ ~ClientRead
    BY <1>5 DEF Subscribe, clientRest, local, rings, ClientRead
  <2> QED
    BY <2>1
<1>6. CASE Unsubscribe
  <2>1. UNCHANGED <<cursor, memory, shown>> /\ queue' = <<>> /\ ~ClientRead
    BY <1>6 DEF Unsubscribe, clientRest, local, rings, ClientRead
  <2> QED
    BY <2>1
<1>7. CASE UNCHANGED <<cursor, memory, posting, queue, subscribed, shown>>
  <2>1. ~ClientRead
    <3>1. ASSUME ClientRead PROVE FALSE
      BY <1>7, <3>1, TailFacts DEF ClientRead, TypeOK
    <3> QED
      BY <3>1
  <2> QED
    BY <1>7, <2>1
<1> QED
  BY <1>1, <1>2, <1>3, <1>4, <1>5, <1>6, <1>7, PositionRest

(* Once the sink has the guest's last position, a client is behind by no   *)
(* more than the entries that wait, whatever is repeated, refused or       *)
(* overwritten meanwhile: after it has read those it shows the last        *)
(* position with the next one, and goes on showing it.  The safety half of *)
(* SettlesOnLast.                                                          *)
THEOREM CatchUpHolds == Spec => CatchUp
<1>1. TypeOK /\ UpdatesInOrder /\ Positions /\ [Next]_vars =>
        [LastReceived /\ sent' = sent =>
           LastReceived' /\ ShowsLast /\ \A n \in 0 .. Capacity : CatchUpStep(n)]_vars
  BY CatchUpLemma
<1> QED
  BY <1>1, PositionsHold, PTL DEF Spec, CatchUp
=============================================================================
