------------------------------- MODULE SinkMemory -------------------------------
(***************************************************************************)
(* The shared memory of the sink: how large it is made (option -s, the     *)
(* source's display), the file it is mapped from, what lpInitHost allocates *)
(* in it, where a frame is received, and what is left of this layout when  *)
(* the memory was zeroed and the LGMP host is made anew.                   *)
(*                                                                         *)
(* Sizes and offsets are in bytes.  main and the Looking Glass client are  *)
(* here; the cursor thread, which only uses what main allocated, is in     *)
(* SinkThreads, the requests and answers are in FrameRelay.                *)
(***************************************************************************)
EXTENDS Integers, Sequences

CONSTANTS
    Word,           \* ram_size counts modulo this (2^32)
    Page,           \* trf__GetPageSize()
    Own,            \* what LGMP keeps for itself and its queues, without user data
    Kvmfr, Records, \* bytes of user data: the KVMFR header, the records after it
    CursorSize,     \* sizeof(KVMFRCursor)
    PointerLen, ShapeLen, FrameLen,  \* number of buffers of each kind
    Sizes,          \* what -s may be given: a number and a unit
    Displays,       \* bytes of a frame of the source's display
    FileSizes,      \* what the file may have been before
    StatFails       \* may stat fail on the file that was just opened?

ASSUME SizeAssumption ==
    /\ Word \in Nat \ {0} /\ Page \in Nat \ {0} /\ Own \in Nat /\ Kvmfr \in Nat /\ Records \in Nat
    /\ CursorSize \in Nat
    /\ Displays \subseteq Nat /\ FileSizes \subseteq Nat
    /\ \A k \in 0 .. 30 : 2 ^ k \in Nat \ {0}
ASSUME BufferAssumption == PointerLen \in Nat /\ ShapeLen \in Nat /\ FrameLen = 2
ASSUME OptionAssumption ==
    StatFails \in BOOLEAN /\ Sizes \subseteq [b : Nat, multiplier : {"", "K", "M", "G", "other"}]

VARIABLES
    pc,             \* where main is
    ram_size,
    defaulted,      \* was ram_size computed from the display?
    dma_buf,        \* is the file /dev/kvmfr*, whose size is fixed?
    file,           \* its size, as the system has it
    display,
    ram,            \* ctx->ram: "null", "mapped" or MAP_FAILED
    initShm,        \* is this the first lpInitHost?
    used,           \* bytes of user data
    next,           \* the first byte LGMP has not given out
    mem,            \* the buffers in the order of their allocation
    frame_index,
    fb_offset,      \* where the source writes the frame
    state,
    layout          \* history: user data and buffers of the first lpInitHost

vars == <<pc, ram_size, defaulted, dma_buf, file, display, ram, initShm, used, next, mem,
          frame_index, fb_offset, state, layout>>
sizeVars == <<ram_size, defaulted, dma_buf, display>>
hostVars == <<used, next, mem>>
frameVars == <<frame_index, fb_offset>>

MaxPointerSize == CursorSize + 512 * 512 * 4

Total == PointerLen + ShapeLen + FrameLen

(* The frame buffer that frame_index names. *)
FrameBuffer(i) == PointerLen + ShapeLen + 1 + i

Init == /\ pc = "options" /\ ram_size = 0 /\ defaulted = FALSE /\ dma_buf \in BOOLEAN
        /\ file \in FileSizes /\ display = 0 /\ ram = "null" /\ initShm = TRUE
        /\ used = 0 /\ next = 0 /\ mem = <<>> /\ frame_index = 0 /\ fb_offset = 0
        /\ state = "RUNNING" /\ layout = [used |-> 0, mem |-> <<>>]

-----------------------------------------------------------------------------
(* How large the memory is. *)

(* A unit it does not know makes it 0, as if nothing had been asked for.   *)
ParseMemString(s) ==
    CASE s.multiplier = "" -> s.b
      [] s.multiplier = "K" -> s.b * 1024
      [] s.multiplier = "M" -> s.b * 1024 * 1024
      [] s.multiplier = "G" -> s.b * 1024 * 1024 * 1024
      [] OTHER -> 0

(* powf, ceilf and logf in single precision: next to a power of two the    *)
(* result may be that power or its neighbour.                              *)
Slip(size) == size \div 2 ^ 17
RoundUpFrameSize(size) ==
    {p \in {2 ^ k : k \in 0 .. 29} : p < 2 * (size + Slip(size)) /\ size - Slip(size) <= p}

CalcFrameSizeNeeded(d) == RoundUpFrameSize(d * 2 + (CursorSize + 1048576) * 2)

Options ==
    /\ pc = "options"
    /\ \E s \in Sizes : ram_size' \in {0, ParseMemString(s) % Word}
    /\ pc' = "connect"
    /\ UNCHANGED <<defaulted, dma_buf, file, display, ram, initShm, hostVars, frameVars, state,
                   layout>>

(* A bad option, no source, no version message, no display list. *)
ConnectFails ==
    /\ pc \in {"options", "connect"}
    /\ pc' = "exit"
    /\ UNCHANGED <<sizeVars, file, ram, initShm, hostVars, frameVars, state, layout>>

Connect ==
    /\ pc = "connect"
    /\ display' \in Displays
    /\ IF ram_size = 0 THEN ram_size' \in {p % Word : p \in CalcFrameSizeNeeded(display')}
                       ELSE ram_size' = ram_size
    /\ defaulted' = (ram_size = 0)
    /\ pc' = "shm"
    /\ UNCHANGED <<dma_buf, file, ram, initShm, hostVars, frameVars, state, layout>>

-----------------------------------------------------------------------------
(* lpInitShmFile. *)
ShouldTruncateNew(st_size) == ~dma_buf /\ st_size = 0

ShouldTruncate(st_size) == ~dma_buf /\ ram_size > st_size

(* open or ftruncate fails. *)
ShmFails ==
    /\ pc = "shm"
    /\ pc' = "destroy"
    /\ UNCHANGED <<sizeVars, file, ram, initShm, hostVars, frameVars, state, layout>>

(* Where stat failed, the size is whatever was on the stack.  A mapping    *)
(* that failed is not recognised, as it is not NULL.                       *)
InitShmFile ==
    /\ pc = "shm"
    /\ \E st_size \in IF StatFails THEN FileSizes \cup {file} ELSE {file} :
          file' = IF ShouldTruncate(st_size) THEN ram_size ELSE file
    /\ ram' \in {"mapped", "MAP_FAILED"}
    /\ dma_buf /\ ram_size > file => ram' = "MAP_FAILED"
    /\ pc' = "userdata"
    /\ UNCHANGED <<sizeVars, initShm, hostVars, frameVars, state, layout>>

-----------------------------------------------------------------------------
(* lpInitHost, at the start and after the memory was zeroed. *)
InHost == {"userdata", "init", "alloc"}

(* It returns to main, or to lpKeepLGMPSessionAlive and from there, with   *)
(* an error, out of main at once.                                          *)
Return(ret) ==
    /\ pc' = IF initShm THEN (IF ret < 0 THEN "destroy" ELSE "setup")
                        ELSE (IF ret < 0 THEN "exit" ELSE "await")
    /\ layout' = IF initShm THEN [used |-> used, mem |-> mem] ELSE layout

(* newKVMFRData: each appendData may find no memory, which for the header  *)
(* goes unnoticed.                                                         *)
NewKVMFRData ==
    /\ pc = "userdata"
    /\ \/ used' \in {Kvmfr + Records, Records} /\ pc' = "init" /\ UNCHANGED layout
       \/ used' = 0 /\ Return(-1)
    /\ UNCHANGED <<sizeVars, file, ram, initShm, next, mem, frameVars, state>>

(* lgmpHostInit, which writes to what it takes for memory. *)
HostInitCrash ==
    /\ pc = "init" /\ ram = "MAP_FAILED"
    /\ pc' = "crash"
    /\ UNCHANGED <<sizeVars, file, ram, initShm, hostVars, frameVars, state, layout>>

(* lgmpHostInit and both lgmpHostQueueNew. *)
HostInit ==
    /\ pc = "init" /\ ram = "mapped"
    /\ \/ Own + used <= ram_size /\ next' = Own + used /\ pc' = "alloc" /\ UNCHANGED layout
       \/ next' = next /\ Return(-1)
    /\ UNCHANGED <<sizeVars, file, ram, initShm, used, mem, frameVars, state>>

Aligned(n) == ((n + Page - 1) \div Page) * Page

(* Buffer number n, when the first e bytes are gone and a frame has d:     *)
(* pointers come first, then shapes, then frames on a page each.           *)
SizeAt(n, d) == IF n < PointerLen THEN CursorSize
                ELSE IF n < PointerLen + ShapeLen THEN MaxPointerSize
                ELSE d
AtAfter(n, e) == IF n < PointerLen + ShapeLen THEN e ELSE Aligned(e)
Place(n, e, d) == [at |-> AtAfter(n, e), size |-> SizeAt(n, d)]

(* Is there room for another buffer after m in a memory of r bytes?        *)
Room(m, e, d, r) == Place(Len(m), e, d).at + Place(Len(m), e, d).size <= r

NextPlace == Place(Len(mem), next, display)
Fits == Room(mem, next, display, ram_size)

MemAllocOneMore ==
    /\ pc = "alloc" /\ Len(mem) <= Total /\ Fits
    /\ mem' = Append(mem, NextPlace)
    /\ next' = NextPlace.at + NextPlace.size
    /\ UNCHANGED <<pc, sizeVars, file, ram, initShm, used, frameVars, state, layout>>

MemAlloc ==
    /\ pc = "alloc" /\ Len(mem) < Total /\ Fits
    /\ mem' = Append(mem, NextPlace)
    /\ next' = NextPlace.at + NextPlace.size
    /\ UNCHANGED <<pc, sizeVars, file, ram, initShm, used, frameVars, state, layout>>

(* ret is set for a frame buffer only: without the others it returns 0.    *)
MemAllocFails ==
    /\ pc = "alloc" /\ Len(mem) < Total /\ ~Fits
    /\ Return(IF Len(mem) < PointerLen + ShapeLen THEN 0 ELSE -1)
    /\ UNCHANGED <<sizeVars, file, ram, initShm, hostVars, frameVars, state>>

HostIsMade ==
    /\ pc = "alloc" /\ Len(mem) = Total
    /\ Return(0)
    /\ UNCHANGED <<sizeVars, file, ram, initShm, hostVars, frameVars, state>>

-----------------------------------------------------------------------------
(* main. *)

(* The display request, the subchannel, the thread, the registration.      *)
SetUp ==
    /\ pc = "setup"
    /\ pc' \in {"serve", "destroy", "exit"}
    /\ UNCHANGED <<sizeVars, file, ram, initShm, hostVars, frameVars, state, layout>>

NextIndexRing == (frame_index + 1) % FrameLen

(* frame_index starts from 0 at each request. *)
NextIndex == 1 % FrameLen

(* lpRequestFrame and trfRecvFrame.  The pixels come a page after the      *)
(* start of the buffer, which is no larger than they are.                  *)
RequestFrame ==
    /\ pc = "serve" /\ state = "RUNNING"
    /\ frame_index' = NextIndex
    /\ IF FrameBuffer(NextIndex) \in DOMAIN mem
       THEN fb_offset' = mem[FrameBuffer(NextIndex)].at + Page /\ pc' = "await"
       ELSE fb_offset' = fb_offset /\ pc' = "crash"
    /\ UNCHANGED <<sizeVars, file, ram, initShm, hostVars, state, layout>>

(* lpSignalFrameDone, at the address the frame was requested for. *)
SignalFrameDone ==
    /\ pc = "await"
    /\ pc' = "serve"
    /\ UNCHANGED <<sizeVars, file, ram, initShm, hostVars, frameVars, state, layout>>

ShutdownKeepsHost ==
    /\ pc = "await"
    /\ state' = "RESTART" /\ initShm' = FALSE /\ pc' = "alloc"
    /\ mem' = <<>>
    /\ UNCHANGED <<sizeVars, file, ram, used, next, frameVars, layout>>

(* The memory was zeroed: every buffer and the host are given back.        *)
Shutdown ==
    /\ pc = "await"
    /\ state' = "RESTART" /\ initShm' = FALSE /\ pc' = "userdata"
    /\ mem' = <<>>
    /\ UNCHANGED <<sizeVars, file, ram, used, next, frameVars, layout>>

(* What ends the sink: a signal, an error, a state that is not RUNNING.    *)
Leave ==
    /\ pc \in {"serve", "await"}
    /\ pc' \in {"destroy", "exit"}
    /\ UNCHANGED <<sizeVars, file, ram, initShm, hostVars, frameVars, state, layout>>

(* The file stays, whether or not -d was given. *)
DestroyContext ==
    /\ pc = "destroy"
    /\ state' = "STOP" /\ ram' = "null" /\ pc' = "exit"
    /\ used' = 0 /\ next' = 0 /\ mem' = <<>>
    /\ UNCHANGED <<sizeVars, file, initShm, frameVars, layout>>

Ended == pc \in {"exit", "crash"} /\ UNCHANGED vars

InitHost == NewKVMFRData \/ HostInit \/ HostInitCrash \/ MemAlloc \/ MemAllocFails \/ HostIsMade

Next == \/ Options \/ ConnectFails \/ Connect \/ ShmFails \/ InitShmFile \/ InitHost
        \/ SetUp \/ RequestFrame \/ SignalFrameDone \/ Shutdown \/ Leave \/ DestroyContext
        \/ Ended

Spec == Init /\ [][Next]_vars

-----------------------------------------------------------------------------
Buffer == [at : Nat, size : Nat]

(* Every variable keeps its type. *)
TypeOK ==
    /\ pc \in {"options", "connect", "shm", "userdata", "init", "alloc", "setup", "serve",
               "await", "destroy", "exit", "crash"}
    /\ ram_size \in 0 .. Word - 1 /\ defaulted \in BOOLEAN /\ dma_buf \in BOOLEAN
    /\ file \in Nat /\ display \in Nat /\ ram \in {"null", "mapped", "MAP_FAILED"}
    /\ initShm \in BOOLEAN /\ used \in Nat /\ next \in Nat
    /\ mem \in Seq(Buffer) /\ Len(mem) <= Total
    /\ frame_index \in 0 .. FrameLen - 1 /\ fb_offset \in Nat
    /\ state \in {"RUNNING", "RESTART", "STOP"}
    /\ layout \in [used : Nat, mem : Seq(Buffer)] /\ Len(layout.mem) <= Total

(* A frame is on its way to fb_offset, also while the host is made anew.   *)
Awaiting == pc = "await" \/ (pc \in InHost /\ ~initShm)

(* All memory that is mapped is in the file, whatever size the file had    *)
(* and whatever was asked for: touching it cannot fail (lp_utils.c:135).   *)
MappingIsBacked == ram = "mapped" => ram_size <= file

(* The pixels of a frame run a page past the end of their buffer, but not  *)
(* into another one, also while the buffers are given out anew:            *)
(* frame_index never names any but the last (lp_write.c:232, 292, 327,     *)
(* 364).  User data that lacks its header moves the buffers, and is left   *)
(* out here and in the next property.                                      *)
NothingOverwritten ==
    Awaiting /\ used = layout.used => \A k \in DOMAIN mem \ {FrameBuffer(frame_index)} :
        mem[k].at + mem[k].size <= fb_offset \/ fb_offset + display <= mem[k].at

(* A host made anew in the same memory with the same user data has its     *)
(* buffers where they were, so that the frame which the source was asked   *)
(* for before, and writes without knowing of this, is received in its      *)
(* buffer (lp_write.c:249-278, 364).                                       *)
StaysInPlace ==
    pc = "await" /\ used = layout.used =>
        /\ mem = layout.mem
        /\ fb_offset = mem[FrameBuffer(frame_index)].at + Page

(* What the first n buffers take at most, with a page for each alignment.  *)
Needed(n) ==
    IF n <= PointerLen THEN n * CursorSize
    ELSE IF n <= PointerLen + ShapeLen
    THEN PointerLen * CursorSize + (n - PointerLen) * MaxPointerSize
    ELSE PointerLen * CursorSize + ShapeLen * MaxPointerSize
         + (n - PointerLen - ShapeLen) * (Page + display)

(* Room for LGMP itself, the user data and all buffers. *)
Enough == Own + used + Needed(Total) <= ram_size

(* In a memory that large no buffer is refused, at the start or however    *)
(* often the host is made anew, and a sink that serves has them all        *)
(* (lp_write.c:200-240).  In a smaller one it may serve without: the       *)
(* failure of a cursor buffer is returned as success (lp_write.c:206, 219). *)
NoneRefused == Enough /\ pc = "alloc" /\ Len(mem) < Total => Fits
AllThere == Enough /\ pc \in {"setup", "serve", "await"} => Len(mem) = Total
EnoughSuffices == NoneRefused /\ AllThere

(* The size need not be specified, the system determines it automatically  *)
(* (docs/user/running.rst:43): a size it computed has room for the host.   *)
DefaultSuffices == pc = "alloc" /\ defaulted /\ Len(mem) < Total => Fits

-----------------------------------------------------------------------------
(* The inductive invariant: every layout is made by the same rule, and so  *)
(* the second is the first one again.                                      *)

(* The first byte after user data u and the buffers m. *)
EndOf(u, m) == IF m = <<>> THEN Own + u ELSE m[Len(m)].at + m[Len(m)].size

(* The buffers m were given out one after the other, in a memory of r bytes. *)
Regular(u, m, d, r) ==
    \A k \in 1 .. Len(m) :
        /\ m[k] = Place(k - 1, IF k = 1 THEN Own + u ELSE m[k - 1].at + m[k - 1].size, d)
        /\ m[k].at + m[k].size <= r

(* There is no room for another, or no need. *)
Maximal(u, m, d, r) ==
    Len(m) = Total \/ ~Room(m, EndOf(u, m), d, r)

(* No buffer reaches into a later one, or past what has been given out. *)
Ordered(u, m) ==
    /\ \A j, k \in 1 .. Len(m) : j < k => m[j].at + m[j].size <= m[k].at
    /\ \A j \in 1 .. Len(m) : m[j].at + m[j].size <= EndOf(u, m)

Prefix(m, l) == Len(m) <= Len(l) /\ \A k \in 1 .. Len(m) : m[k] = l[k]

BeforeTheHost == pc \in {"options", "connect", "shm"} => ram = "null" /\ initShm

NothingYet == pc \in {"options", "connect", "shm", "userdata", "init"} => mem = <<>>

InHostRegular == pc = "alloc" => /\ Regular(used, mem, display, ram_size)
                                 /\ Ordered(used, mem)
                                 /\ next = EndOf(used, mem)

OnlyOnce == ~initShm => state # "RUNNING"

FirstLayout == pc \in {"setup", "serve", "await"} /\ initShm =>
                   layout.used = used /\ layout.mem = mem

LayoutComplete == pc \in {"setup", "serve", "await"} \/ (pc \in InHost /\ ~initShm) =>
                      /\ Regular(layout.used, layout.mem, display, ram_size)
                      /\ Maximal(layout.used, layout.mem, display, ram_size)
                      /\ Ordered(layout.used, layout.mem)

Again == ~initShm /\ used = layout.used =>
             /\ pc = "alloc" => Prefix(mem, layout.mem)
             /\ pc = "await" => mem = layout.mem

Requested == Awaiting => /\ frame_index = 1 /\ Len(layout.mem) = Total
                         /\ fb_offset = layout.mem[Total].at + Page

IInv == /\ TypeOK /\ BeforeTheHost /\ NothingYet /\ InHostRegular /\ OnlyOnce /\ FirstLayout
        /\ LayoutComplete /\ Again /\ Requested
=============================================================================
