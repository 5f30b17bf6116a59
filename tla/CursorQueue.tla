---------------------------- MODULE CursorQueue ----------------------------
(***************************************************************************)
(* The guest's cursor, from the source's cursor thread to the Looking      *)
(* Glass client at the sink: messages on the subchannel, the buffers that  *)
(* the sink's cursor thread copies them to (lpUpdateCursorPos: a ring for  *)
(* positions and one for shapes) and the LGMP queue that names them.  The  *)
(* queue holds the buffer and not the data, the client reads it later, and *)
(* the thread repeats the last position every 100 ms of silence.           *)
(*                                                                         *)
(* An update is its number; its image is the number of the update the      *)
(* image came with.  Number 0 is memory nobody has filled.  A copy is one  *)
(* step.  When the threads end and restart is in SinkThreads.              *)
(***************************************************************************)
EXTENDS Integers, Sequences

CONSTANTS
    Pointers, Shapes,   \* LGMP_Q_POINTER_LEN, POINTER_SHAPE_BUFFERS
    Capacity,           \* entries the pointer queue takes before QUEUE_FULL
    MaxSent,            \* bound: updates the source sends
    WireLen,            \* bound: messages under way
    FreedIntact,        \* is a freed message still as it was when read?
    None                \* nothing is being posted

ASSUME SizesAssumption == {Pointers, Shapes, Capacity} \subseteq Nat \ {0}
ASSUME BoundsAssumption == {MaxSent, WireLen} \subseteq Nat
ASSUME SwitchAssumption == FreedIntact \in BOOLEAN

VARIABLES
    sent,       \* updates the source has sent
    wire,       \* messages under way on the subchannel
    alive,      \* the sink's cursor thread runs
    cursor,     \* the thread's buffer
    told,       \* flags: the source's (TRUE) or still zero (FALSE)
    shape,      \* flags & CURSOR_FLAG_SHAPE
    posting,    \* the entry being posted, or None
    memory,     \* what each buffer of the shared memory holds
    pointer_index, cursor_shape_index, pointer_shape_valid,
    queue,      \* the entries of pointer_q the client has yet to read
    subscribed, \* a client is subscribed to pointer_q
    shown,      \* what that client shows
    owed        \* newest image queued for that client

local == <<alive, cursor, told, shape>>
rings == <<memory, pointer_index, cursor_shape_index>>
client == <<queue, subscribed, shown, owed>>
vars == <<sent, wire, local, posting, rings, pointer_shape_valid, client>>

Slot == ({"pointer"} \X (0..Pointers-1)) \cup ({"shape"} \X (0..Shapes-1))
Blank == [pos |-> 0, image |-> 0]
Cursor == [pos : Nat, image : Nat]
Entry == [slot : Slot, told : BOOLEAN, shape : BOOLEAN, holds : Cursor]
Message == [kind : {"cursor", "keepalive", "disconnect"}, pos : Nat, image : BOOLEAN]

Init == /\ sent = 0 /\ wire = <<>>
        /\ alive = TRUE /\ cursor = Blank /\ told = FALSE /\ shape = FALSE
        /\ posting = None
        /\ memory = [s \in Slot |-> Blank]
        /\ pointer_index = 0 /\ cursor_shape_index = 0 /\ pointer_shape_valid = FALSE
        /\ queue = <<>> /\ subscribed = FALSE /\ shown = Blank /\ owed = 0

-----------------------------------------------------------------------------
(* The source's cursor thread. *)

(* A disconnect is its last message, and a subchannel whose other end is   *)
(* gone takes none.                                                        *)
Put(kind, pos, image) ==
    /\ alive /\ \A i \in DOMAIN wire : wire[i].kind # "disconnect"
    /\ Len(wire) < WireLen
    /\ wire' = Append(wire, [kind |-> kind, pos |-> pos, image |-> image])
    /\ UNCHANGED <<local, posting, rings, pointer_shape_valid, client>>

(* A position, or a position and an image, that lpgetCursor read. *)
SendCursor ==
    /\ sent < MaxSent /\ sent' = sent + 1
    /\ \E image \in BOOLEAN : Put("cursor", sent + 1, image)

(* One second without an update: what was sent before has been received. *)
SendKeepAlive == wire = <<>> /\ Put("keepalive", 0, FALSE) /\ UNCHANGED sent

SendDisconnect == Put("disconnect", 0, FALSE) /\ UNCHANGED sent

-----------------------------------------------------------------------------
(* The sink's cursor thread. *)

(* The memcpy of lpUpdateCursorPos into a buffer that held old: a position *)
(* buffer has no room for an image.                                        *)
CopyHeaderOnly(old, cur, sized) == [cur EXCEPT !.image = old.image]

CopyImageOnly(old, cur, sized) == [old EXCEPT !.image = IF sized THEN cur.image ELSE 0]

Copy(old, cur, sized) == IF sized THEN cur ELSE [cur EXCEPT !.image = 0]

(* The next index of a ring of n. *)
AdvanceLate(i, n) == (i + 1) % (n + 1)

Advance(i, n) == (i + 1) % n

(* The head of lpUpdateCursorPos: the next buffer of one of the rings,     *)
(* which moves on whatever becomes of the entry, is written before the     *)
(* entry is posted.                                                        *)
UpdateCursorPos(cur, sized, isTold, isShape) ==
    LET slot == IF sized THEN <<"shape", cursor_shape_index>> ELSE <<"pointer", pointer_index>>
    IN /\ memory' = [memory EXCEPT ![slot] = Copy(@, cur, sized)]
       /\ posting' = [slot |-> slot, told |-> isTold, shape |-> isShape, holds |-> cur]
       /\ IF sized
            THEN /\ cursor_shape_index' = Advance(cursor_shape_index, Shapes)
                 /\ UNCHANGED pointer_index
            ELSE /\ pointer_index' = Advance(pointer_index, Pointers)
                 /\ UNCHANGED cursor_shape_index

Ready == alive /\ posting = None

threadRest == <<sent, pointer_shape_valid, client>>

(* A cursor message: the fields and the image, if it has one, go to the    *)
(* thread's buffer; the length of the image is read again after the        *)
(* message was freed.                                                      *)
ReceiveCursor ==
    /\ Ready /\ wire # <<>> /\ Head(wire).kind = "cursor"
    /\ LET msg == Head(wire)
           cur == [pos |-> msg.pos, image |-> IF msg.image THEN msg.pos ELSE cursor.image]
       IN /\ cursor' = cur /\ told' = TRUE /\ shape' = msg.image
          /\ \E sized \in IF FreedIntact THEN {msg.image} ELSE BOOLEAN :
               UpdateCursorPos(cur, sized, TRUE, msg.image)
    /\ wire' = Tail(wire)
    /\ UNCHANGED <<threadRest, alive>>

ReceiveKeepAlive ==
    /\ Ready /\ wire # <<>> /\ Head(wire).kind = "keepalive"
    /\ wire' = Tail(wire)
    /\ UNCHANGED <<threadRest, local, posting, rings>>

ReceiveDisconnect ==
    /\ Ready /\ wire # <<>> /\ Head(wire).kind = "disconnect"
    /\ alive' = FALSE
    /\ wire' = Tail(wire)
    /\ UNCHANGED <<threadRest, cursor, told, shape, posting, rings>>

(* The poll or the next receive fails, or main wants the threads to stop. *)
ThreadEnds ==
    /\ Ready
    /\ alive' = FALSE
    /\ UNCHANGED <<threadRest, wire, cursor, told, shape, posting, rings>>

(* 100 ms of silence: what the buffer holds is posted again as a position, *)
(* before the first message too.                                           *)
RepeatWithShape ==
    /\ Ready /\ wire = <<>>
    /\ UpdateCursorPos(cursor, FALSE, told, shape)
    /\ UNCHANGED <<threadRest, wire, local>>

RepeatOnceShown ==
    /\ Ready /\ wire = <<>> /\ pointer_shape_valid
    /\ UpdateCursorPos(cursor, FALSE, told, FALSE)
    /\ UNCHANGED <<threadRest, wire, local>>

Repeat ==
    /\ Ready /\ wire = <<>>
    /\ UpdateCursorPos(cursor, FALSE, told, FALSE)
    /\ UNCHANGED <<threadRest, wire, local>>

(* lpPostCursor.  Without a subscriber LGMP takes the entry and drops it.  *)
(* A full queue refuses it: neither caller tries again.                    *)
PostDropped ==
    /\ posting # None /\ ~subscribed
    /\ pointer_shape_valid' = (posting.slot[1] = "shape")
    /\ UNCHANGED client

PostQueued ==
    /\ posting # None /\ subscribed /\ Len(queue) < Capacity
    /\ queue' = Append(queue, posting)
    /\ owed' = IF posting.shape THEN posting.holds.image ELSE owed
    /\ pointer_shape_valid' = (posting.slot[1] = "shape")
    /\ UNCHANGED <<subscribed, shown>>

PostRefused ==
    /\ posting # None /\ subscribed /\ Len(queue) = Capacity
    /\ UNCHANGED <<pointer_shape_valid, client>>

PostCursor ==
    /\ PostDropped \/ PostQueued \/ PostRefused
    /\ posting' = None
    /\ UNCHANGED <<sent, wire, local, rings>>

-----------------------------------------------------------------------------
(* The client, and LGMP for it. *)

clientRest == <<sent, wire, local, posting, rings, pointer_shape_valid>>

(* It reads the buffer that the oldest entry names. *)
ClientRead ==
    /\ queue # <<>>
    /\ LET e == Head(queue) IN
         shown' = [pos   |-> IF e.told THEN memory[e.slot].pos ELSE shown.pos,
                   image |-> IF e.shape THEN memory[e.slot].image ELSE shown.image]
    /\ queue' = Tail(queue)
    /\ UNCHANGED <<clientRest, subscribed, owed>>

(* A new client shows nothing and is sent what is posted from now on. *)
Subscribe ==
    /\ ~subscribed /\ subscribed' = TRUE
    /\ shown' = Blank
    /\ UNCHANGED <<clientRest, queue, owed>>

(* It leaves, or lgmpHostProcess drops it for having read nothing. *)
Unsubscribe ==
    /\ subscribed /\ subscribed' = FALSE
    /\ queue' = <<>> /\ owed' = 0
    /\ UNCHANGED <<clientRest, shown>>

-----------------------------------------------------------------------------
(* Nothing to do once the thread has ended. *)
Ended == ~alive /\ UNCHANGED vars

Source == SendCursor \/ SendKeepAlive \/ SendDisconnect

Receive == ReceiveCursor \/ ReceiveKeepAlive \/ ReceiveDisconnect

CursorThread == Receive \/ ThreadEnds \/ Repeat \/ PostCursor

Client == ClientRead \/ Subscribe \/ Unsubscribe

Next == Source \/ CursorThread \/ Client \/ Ended

Spec == Init /\ [][Next]_vars

(* The threads run and the client reads.  Keep-alives are a second apart   *)
(* and a silence is 100 ms: silences come again and again between them.    *)
FairSpec == /\ Spec
            /\ WF_vars(Receive) /\ SF_vars(Repeat)
            /\ WF_vars(PostCursor) /\ WF_vars(ClientRead)

-----------------------------------------------------------------------------
TypeOK == /\ sent \in Nat
          /\ wire \in Seq(Message)
          /\ alive \in BOOLEAN /\ cursor \in Cursor /\ told \in BOOLEAN /\ shape \in BOOLEAN
          /\ posting \in Entry \cup {None}
          /\ memory \in [Slot -> Cursor]
          /\ pointer_index \in 0..Pointers-1 /\ cursor_shape_index \in 0..Shapes-1
          /\ pointer_shape_valid \in BOOLEAN
          /\ queue \in Seq(Entry) /\ subscribed \in BOOLEAN
          /\ shown \in Cursor /\ owed \in Nat

(* The entries the client may still read. *)
Pending == {queue[i] : i \in DOMAIN queue}

(* A buffer may be written again while an entry that names it waits, by an *)
(* update that was then refused too; what the client finds there is never  *)
(* older than what was posted (lpUpdateCursorPos).                         *)
PositionIsFresh == \A e \in Pending : e.told => memory[e.slot].pos >= e.holds.pos

(* An entry that announces an image names a buffer with an image, the one  *)
(* it was posted for or a newer one: the repeat of a position never does   *)
(* (lpCursorThread's tmp_flags), and the two rings are never confused.     *)
ImageIsReal == \A e \in Pending :
    e.shape => /\ memory[e.slot].image > 0
               /\ memory[e.slot].image >= e.holds.image

(* An image LGMP took for a client reaches it, or a newer one does: it is  *)
(* shown, or waits in the queue in a buffer that still holds it, however   *)
(* often its ring went round (lpUpdateCursorPos, lpPostCursor).            *)
ImageArrives ==
    \/ shown.image >= owed
    \/ \E e \in Pending : e.shape /\ memory[e.slot].image >= owed

(* Whatever was refused, dropped, overwritten or read in the wrong order,  *)
(* a client that stays ends up with the guest's last position, by the      *)
(* repeat of lpCursorThread.                                               *)
SettlesOnLast == <>[](alive /\ subscribed) => <>[](shown.pos = sent)

-----------------------------------------------------------------------------
(* What the invariants rest on. *)

(* Updates come in order: what is under way is newer than what arrived. *)
UpdatesInOrder ==
    /\ cursor.pos <= sent /\ cursor.image <= cursor.pos
    /\ \A i \in DOMAIN wire : wire[i].kind = "cursor" =>
         /\ cursor.pos < wire[i].pos /\ wire[i].pos <= sent
         /\ \A j \in DOMAIN wire : i < j /\ wire[j].kind = "cursor" => wire[i].pos < wire[j].pos

(* An entry, queued or about to be, is no newer than the thread's buffer   *)
(* and no newer than the buffer it names; an image is in a shape buffer.   *)
Fresh(e) ==
    /\ e.holds.pos <= cursor.pos /\ e.holds.image <= cursor.image
    /\ e.told => memory[e.slot].pos >= e.holds.pos
    /\ e.shape => /\ e.slot[1] = "shape"
                  /\ e.holds.image > 0 /\ memory[e.slot].image >= e.holds.image

EntriesFresh == /\ \A i \in DOMAIN queue : Fresh(queue[i])
                /\ posting # None => Fresh(posting)

(* Images are queued in order, and the one owed is the last of them. *)
ImagesInOrder ==
    /\ owed <= cursor.image
    /\ posting # None /\ posting.shape => owed < posting.holds.image
    /\ \A i \in DOMAIN queue : queue[i].shape =>
         /\ queue[i].holds.image <= owed
         /\ \A j \in DOMAIN queue : i < j /\ queue[j].shape => queue[i].holds.image < queue[j].holds.image

(* The entry of the image owed waits, or it was the last and has been read. *)
OwedIsLast ==
    \/ \E i \in DOMAIN queue : queue[i].shape /\ queue[i].holds.image = owed
    \/ shown.image >= owed /\ \A i \in DOMAIN queue : ~queue[i].shape

IInv == /\ TypeOK /\ UpdatesInOrder /\ EntriesFresh /\ ImagesInOrder /\ OwedIsLast
        /\ ~subscribed => queue = <<>> /\ owed = 0

=============================================================================
