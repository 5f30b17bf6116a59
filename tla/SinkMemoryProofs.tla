---------------------------- MODULE SinkMemoryProofs ----------------------------
(***************************************************************************)
(* Proofs about SinkMemory, for any sizes of page, buffers, displays and   *)
(* files, and any number of cursor buffers.                                *)
(***************************************************************************)
EXTENDS SinkMemory, SequenceTheorems, TLAPS

(* The next page starts less than a page further on. *)
LEMMA AlignedUp ==
  ASSUME NEW e \in Nat
  PROVE  Aligned(e) \in Nat /\ e <= Aligned(e) /\ Aligned(e) < e + Page
<1> DEFINE q == (e + Page - 1) \div Page
<1>1. Page \in Nat /\ Page > 0
  BY SizeAssumption
<1>2. q \in Nat /\ q * Page <= e + Page - 1 /\ e + Page - 1 < q * Page + Page
  BY <1>1
<1> QED
  BY <1>1, <1>2 DEF Aligned

(* A place is a buffer that starts no earlier than where the last one ends. *)
LEMMA Placed ==
  ASSUME NEW d \in Nat, NEW n \in Nat, NEW e \in Nat
  PROVE  Place(n, e, d) \in Buffer /\ e <= Place(n, e, d).at
<1>1. AtAfter(n, e) \in Nat /\ e <= AtAfter(n, e)
  BY AlignedUp DEF AtAfter
<1>2. SizeAt(n, d) \in Nat
  BY SizeAssumption DEF SizeAt, MaxPointerSize
<1> QED
  BY <1>1, <1>2 DEF Place, Buffer

(* The end of a layout is a place. *)
LEMMA EndIsNat ==
  ASSUME NEW u \in Nat, NEW m \in Seq(Buffer)
  PROVE  EndOf(u, m) \in Nat
<1>1. CASE m = <<>>
  BY <1>1, SizeAssumption DEF EndOf
<1>2. CASE m # <<>>
  <2>1. m[Len(m)] \in Buffer
    BY <1>2
  <2> QED
    BY <1>2, <2>1 DEF EndOf, Buffer
<1> QED
  BY <1>1, <1>2

(* Of two layouts by the same rule, where the longer one has another       *)
(* buffer the shorter one has room for it, in the same place.              *)
LEMMA GoesOnAlike ==
  ASSUME NEW d \in Nat, NEW r \in Nat, NEW u \in Nat, NEW m \in Seq(Buffer), NEW l \in Seq(Buffer),
         Regular(u, l, d, r), Prefix(m, l), Len(m) < Len(l)
  PROVE  /\ l[Len(m) + 1] = Place(Len(m), EndOf(u, m), d)
         /\ Room(m, EndOf(u, m), d, r)
<1> DEFINE k == Len(m) + 1
<1>1. k \in 1 .. Len(l) /\ k - 1 = Len(m) /\ Len(m) \in Nat /\ l[k] \in Buffer
  OBVIOUS
<1>2. /\ l[k] = Place(k - 1, IF k = 1 THEN Own + u ELSE l[k - 1].at + l[k - 1].size, d)
      /\ l[k].at + l[k].size <= r
  BY <1>1 DEF Regular
<1>3. EndOf(u, m) = IF k = 1 THEN Own + u ELSE l[k - 1].at + l[k - 1].size
  <2>1. CASE m = <<>>
    BY <1>1, <2>1 DEF EndOf
  <2>2. CASE m # <<>>
    <3>1. Len(m) \in 1 .. Len(m) /\ k # 1
      BY <1>1, <2>2
    <3>2. m[Len(m)] = l[Len(m)]
      BY <3>1 DEF Prefix
    <3> QED
      BY <1>1, <2>2, <3>1, <3>2 DEF EndOf
  <2> QED
    BY <2>1, <2>2
<1>4. l[k] = Place(Len(m), EndOf(u, m), d)
  BY <1>1, <1>2, <1>3
<1> QED
  BY <1>1, <1>2, <1>4 DEF Room

(* Of two layouts by the same rule, one with no room for another buffer is *)
(* longer than one that has room.                                          *)
LEMMA StopsAlike ==
  ASSUME NEW d \in Nat, NEW r \in Nat, NEW u \in Nat, NEW m \in Seq(Buffer), NEW l \in Seq(Buffer),
         Maximal(u, l, d, r), Prefix(m, l), Len(m) < Total,
         Room(m, EndOf(u, m), d, r)
  PROVE  Len(m) < Len(l)
<1>1. Len(m) \in Nat /\ Len(l) \in Nat /\ Len(m) <= Len(l)
  BY DEF Prefix
<1> SUFFICES ASSUME Len(m) = Len(l) PROVE FALSE
  BY <1>1
<1>3. EndOf(u, l) # EndOf(u, m)
  BY DEF Maximal, Room
<1>4. CASE m = <<>>
  BY <1>3, <1>4 DEF EndOf
<1>5. CASE m # <<>>
  <2>1. Len(m) \in 1 .. Len(m) /\ l # <<>>
    BY <1>1, <1>5
  <2>2. m[Len(m)] = l[Len(l)]
    BY <2>1 DEF Prefix
  <2> QED
    BY <1>3, <1>5, <2>1, <2>2 DEF EndOf
<1> QED
  BY <1>4, <1>5

(* Another buffer that has room keeps a layout regular and in order. *)
LEMMA Extended ==
  ASSUME NEW d \in Nat, NEW r \in Nat, NEW u \in Nat, NEW m \in Seq(Buffer),
         Regular(u, m, d, r), Ordered(u, m),
         NEW b, b = Place(Len(m), EndOf(u, m), d), b.at + b.size <= r
  PROVE  LET n == Append(m, b) IN
         /\ n \in Seq(Buffer) /\ Len(n) = Len(m) + 1
         /\ Regular(u, n, d, r) /\ Ordered(u, n)
         /\ EndOf(u, n) = b.at + b.size
<1> DEFINE n == Append(m, b)
<1>1. Len(m) \in Nat /\ EndOf(u, m) \in Nat
  BY EndIsNat
<1>2. b \in Buffer /\ EndOf(u, m) <= b.at
  BY <1>1, Placed
<1>3. n \in Seq(Buffer) /\ Len(n) = Len(m) + 1 /\ n[Len(n)] = b
  BY <1>1, <1>2
<1>4. \A k \in 1 .. Len(m) : n[k] = m[k] /\ m[k] \in Buffer
  BY <1>1, <1>2
<1>5. EndOf(u, n) = b.at + b.size
  BY <1>1, <1>3 DEF EndOf
<1>6. \A j \in 1 .. Len(n) : n[j].at + n[j].size <= EndOf(u, n)
  BY <1>1, <1>2, <1>3, <1>4, <1>5 DEF Ordered, Buffer
<1>7. \A j, k \in 1 .. Len(n) : j < k => n[j].at + n[j].size <= n[k].at
  <2> SUFFICES ASSUME NEW j \in 1 .. Len(n), NEW k \in 1 .. Len(n), j < k
               PROVE  n[j].at + n[j].size <= n[k].at
    OBVIOUS
  <2>1. j \in 1 .. Len(m)
    BY <1>1, <1>3
  <2>2. CASE k \in 1 .. Len(m)
    BY <1>4, <2>1, <2>2 DEF Ordered
  <2>3. CASE k = Len(n)
    BY <1>1, <1>2, <1>3, <1>4, <2>1, <2>3 DEF Ordered, Buffer
  <2> QED
    BY <1>1, <1>3, <2>2, <2>3
<1>8. Regular(u, n, d, r)
  <2> SUFFICES ASSUME NEW k \in 1 .. Len(n)
               PROVE  /\ n[k] = Place(k - 1,
                                      IF k = 1 THEN Own + u ELSE n[k - 1].at + n[k - 1].size, d)
                      /\ n[k].at + n[k].size <= r
    BY DEF Regular
  <2>1. CASE k \in 1 .. Len(m)
    BY <1>1, <1>4, <2>1 DEF Regular
  <2>2. CASE k = Len(m) + 1
    <3>1. CASE m = <<>>
      BY <1>3, <2>2, <3>1 DEF EndOf
    <3>2. CASE m # <<>>
      BY <1>1, <1>3, <1>4, <2>2, <3>2 DEF EndOf
    <3> QED
      BY <3>1, <3>2
  <2> QED
    BY <1>1, <1>3, <2>1, <2>2
<1> QED
  BY <1>3, <1>5, <1>6, <1>7, <1>8 DEF Ordered

-----------------------------------------------------------------------------
(* One lemma for each group of steps that leave the layout alone, and one  *)
(* for each that does not.                                                 *)
(* The invariant holds at first. *)
LEMMA Initially == Init => IInv
<1> SUFFICES ASSUME Init PROVE IInv
  OBVIOUS
<1>1. defaulted \in BOOLEAN /\ dma_buf \in BOOLEAN /\ initShm \in BOOLEAN
  BY Zenon DEF Init
<1>2. <<>> \in Seq(Buffer) /\ Len(<<>>) = 0
  OBVIOUS
<1>3. TypeOK
  BY <1>1, <1>2, SizeAssumption, BufferAssumption DEF Init, TypeOK, Total
<1> QED
  BY <1>3 DEF Init, IInv, BeforeTheHost, NothingYet, InHostRegular, OnlyOnce, FirstLayout,
     LayoutComplete, Again, Requested, Awaiting, InHost

(* The size: nothing has been laid out yet. *)
LEMMA SizeStep ==
  ASSUME IInv, Options \/ ConnectFails \/ Connect \/ ShmFails \/ InitShmFile
  PROVE  IInv'
<1> USE DEF sizeVars, hostVars, frameVars
<1>1. ram_size' \in 0 .. Word - 1 /\ display' \in Nat /\ file' \in Nat
  <2>1. CASE Options
    <3>1. PICK s \in Sizes : ram_size' \in {0, ParseMemString(s) % Word}
      BY <2>1 DEF Options
    <3>2. ParseMemString(s) \in Nat
      <4>1. s.b \in Nat
        BY OptionAssumption
      <4>2. s.b * 1024 \in Nat /\ s.b * 1024 * 1024 \in Nat /\ s.b * 1024 * 1024 * 1024 \in Nat
        BY <4>1
      <4>3. ParseMemString(s) \in {s.b, s.b * 1024, s.b * 1024 * 1024, s.b * 1024 * 1024 * 1024, 0}
        BY DEF ParseMemString
      <4> QED
        BY <4>1, <4>2, <4>3
    <3> QED
      BY <2>1, <3>1, <3>2, SizeAssumption DEF Options, IInv, TypeOK
  <2>2. CASE Connect
    <3>1. \A p \in CalcFrameSizeNeeded(display') : p \in Nat
      BY SizeAssumption DEF CalcFrameSizeNeeded, RoundUpFrameSize
    <3>2. \A p \in CalcFrameSizeNeeded(display') : p % Word \in 0 .. Word - 1
      BY <3>1, SizeAssumption
    <3> QED
      BY <2>2, <3>2, SizeAssumption DEF Connect, IInv, TypeOK
  <2>3. CASE ConnectFails \/ ShmFails \/ InitShmFile
    BY <2>3, SizeAssumption DEF ConnectFails, ShmFails, InitShmFile, IInv, TypeOK
  <2> QED
    BY <2>1, <2>2, <2>3
<1>2. defaulted' \in BOOLEAN /\ dma_buf' \in BOOLEAN
  BY Zenon DEF Options, ConnectFails, Connect, ShmFails, InitShmFile, IInv, TypeOK
<1>3. /\ UNCHANGED <<initShm, used, next, mem, frame_index, fb_offset, state, layout>>
      /\ pc \in {"options", "connect", "shm"} /\ initShm /\ ram = "null"
      /\ pc' \in {"connect", "shm", "userdata", "destroy", "exit"}
      /\ pc' \in {"connect", "shm"} => ram' = ram
      /\ ram' \in {"null", "mapped", "MAP_FAILED"}
  BY DEF Options, ConnectFails, Connect, ShmFails, InitShmFile, IInv, BeforeTheHost
<1>4. TypeOK'
  BY <1>1, <1>2, <1>3 DEF IInv, TypeOK
<1> QED
  BY <1>3, <1>4 DEF IInv, BeforeTheHost, NothingYet, InHostRegular, OnlyOnce, FirstLayout,
     LayoutComplete, Again, Requested, Awaiting, InHost

(* lpInitHost up to the first buffer. *)
LEMMA HostStep ==
  ASSUME IInv, NewKVMFRData \/ HostInit \/ HostInitCrash
  PROVE  IInv'
<1> USE DEF sizeVars, frameVars
<1>1. CASE NewKVMFRData \/ HostInitCrash
  <2>1. TypeOK'
    BY <1>1, SizeAssumption DEF NewKVMFRData, HostInitCrash, Return, IInv, TypeOK, hostVars
  <2>2. /\ pc \in {"userdata", "init"} /\ pc' \in {"init", "destroy", "exit", "crash"}
        /\ UNCHANGED <<sizeVars, ram, initShm, next, mem, frameVars, state>>
        /\ pc' = "init" => layout' = layout
    BY <1>1 DEF NewKVMFRData, HostInitCrash, Return, hostVars
  <2>3. BeforeTheHost' /\ NothingYet' /\ InHostRegular' /\ OnlyOnce' /\ FirstLayout'
    BY <2>2 DEF IInv, BeforeTheHost, NothingYet, InHostRegular, OnlyOnce, FirstLayout
  <2>4. LayoutComplete'
    BY <2>2 DEF IInv, LayoutComplete, InHost, Regular, Ordered, Maximal, Room, EndOf
  <2>5. Again'
    BY <2>2 DEF Again
  <2>6. Requested'
    BY <2>2 DEF IInv, Requested, Awaiting, InHost
  <2> QED
    BY <2>1, <2>3, <2>4, <2>5, <2>6 DEF IInv
<1>2. CASE HostInit
  <2>1. TypeOK'
    BY <1>2, SizeAssumption DEF HostInit, Return, IInv, TypeOK
  <2>2. mem = <<>> /\ mem' = mem
    BY <1>2 DEF HostInit, IInv, NothingYet
  <2>3. InHostRegular'
    BY <1>2, <2>2 DEF HostInit, Return, InHostRegular, Regular, Ordered, EndOf
  <2>4. BeforeTheHost' /\ NothingYet' /\ OnlyOnce'
    BY <1>2, <2>2 DEF HostInit, Return, IInv, BeforeTheHost, NothingYet, OnlyOnce
  <2>5. /\ FirstLayout' /\ ~(pc' \in {"setup", "serve", "await"})
        /\ UNCHANGED <<used, display, ram_size, initShm, frame_index, fb_offset>>
        /\ pc' \in InHost /\ ~initShm => pc \in InHost /\ layout' = layout
    BY <1>2 DEF HostInit, Return, FirstLayout, InHost
  <2>6. LayoutComplete'
    BY <2>5 DEF IInv, LayoutComplete, Regular, Ordered, Maximal, Room, Place, AtAfter, SizeAt,
                EndOf, InHost
  <2>7. Again'
    BY <2>2, <2>5 DEF Again, Prefix, IInv, TypeOK, InHost
  <2>8. Requested'
    BY <2>5 DEF IInv, Requested, Awaiting
  <2> QED
    BY <2>1, <2>3, <2>4, <2>5, <2>6, <2>7, <2>8 DEF IInv
<1> QED
  BY <1>1, <1>2

(* The next buffer: where there was one before, it is in the same place.   *)
LEMMA AllocStep == ASSUME IInv, MemAlloc PROVE IInv'
<1> DEFINE b == NextPlace
<1> USE DEF sizeVars, frameVars
<1>1. /\ used \in Nat /\ display \in Nat /\ ram_size \in Nat /\ next \in Nat /\ mem \in Seq(Buffer)
      /\ layout.mem \in Seq(Buffer) /\ Len(mem) \in Nat /\ pc = "alloc" /\ Len(mem) < Total
      /\ PointerLen \in Nat /\ ShapeLen \in Nat /\ Total \in Nat
  BY SizeAssumption, BufferAssumption DEF MemAlloc, IInv, TypeOK, Total
<1>2. /\ Regular(used, mem, display, ram_size) /\ Ordered(used, mem)
      /\ next = EndOf(used, mem)
  BY <1>1 DEF IInv, InHostRegular
<1>3. b = Place(Len(mem), EndOf(used, mem), display) /\ b.at + b.size <= ram_size
  BY <1>2 DEF MemAlloc, Fits, Room, NextPlace
<1>4. /\ mem' = Append(mem, b) /\ next' = b.at + b.size
      /\ UNCHANGED <<pc, ram_size, defaulted, dma_buf, display, file, ram, initShm, used,
                     frame_index, fb_offset, state, layout>>
  BY DEF MemAlloc
<1>5. b \in Buffer
  BY <1>1, Placed DEF NextPlace
<1>6. /\ mem' \in Seq(Buffer) /\ Len(mem') = Len(mem) + 1
      /\ Regular(used, mem', display, ram_size) /\ Ordered(used, mem')
      /\ EndOf(used, mem') = b.at + b.size
  BY <1>1, <1>2, <1>3, <1>4, Extended
<1>7. TypeOK'
  BY <1>1, <1>4, <1>5, <1>6 DEF IInv, TypeOK, Buffer
<1>8. InHostRegular'
  BY <1>4, <1>6 DEF InHostRegular
<1>9. Again'
  <2> SUFFICES ASSUME ~initShm, used = layout.used PROVE Prefix(mem', layout.mem)
    BY <1>1, <1>4 DEF Again
  <2>1. /\ Regular(used, layout.mem, display, ram_size)
        /\ Maximal(used, layout.mem, display, ram_size)
        /\ Prefix(mem, layout.mem)
    BY <1>1 DEF IInv, LayoutComplete, Again, InHost
  <2>2. Room(mem, EndOf(used, mem), display, ram_size)
    BY <1>2 DEF MemAlloc, Fits
  <2>3. Len(mem) < Len(layout.mem)
    BY <1>1, <2>1, <2>2, StopsAlike
  <2>4. layout.mem[Len(mem) + 1] = b
    BY <1>1, <1>3, <2>1, <2>3, GoesOnAlike
  <2>5. \A k \in 1 .. Len(mem) : mem'[k] = mem[k]
    BY <1>1, <1>4, <1>5
  <2>6. mem'[Len(mem) + 1] = b
    BY <1>1, <1>4, <1>5
  <2>7. \A k \in 1 .. Len(mem) : mem[k] = layout.mem[k]
    BY <2>1 DEF Prefix
  <2>8. \A k \in 1 .. Len(mem') : k \in 1 .. Len(mem) \/ k = Len(mem) + 1
    BY <1>1, <1>6
  <2>9. Len(mem') <= Len(layout.mem)
    <3>1. Len(mem) \in Nat /\ Len(layout.mem) \in Nat
      BY <1>1, <2>1 DEF IInv, TypeOK, Regular
    <3> QED
      BY <1>6, <2>3, <3>1
  <2>10. ASSUME NEW k \in 1 .. Len(mem') PROVE mem'[k] = layout.mem[k]
    <3>1. CASE k \in 1 .. Len(mem)
      BY <3>1, <2>5, <2>7
    <3>2. CASE k = Len(mem) + 1
      BY <3>2, <2>4, <2>6
    <3> QED
      BY <2>8, <3>1, <3>2
  <2> QED
    BY <2>9, <2>10 DEF Prefix
<1> QED
  BY <1>1, <1>4, <1>7, <1>8, <1>9
  DEF IInv, BeforeTheHost, NothingYet, OnlyOnce, FirstLayout, LayoutComplete, Requested, Awaiting,
      InHost

(* lpInitHost returns: a layout that ends where the first one had another  *)
(* buffer would have had room for it.                                      *)
LEMMA MadeStep == ASSUME IInv, MemAllocFails \/ HostIsMade PROVE IInv'
<1> USE DEF sizeVars, hostVars, frameVars
<1>1. /\ used \in Nat /\ display \in Nat /\ ram_size \in Nat /\ mem \in Seq(Buffer)
      /\ layout.mem \in Seq(Buffer) /\ pc = "alloc" /\ Len(mem) \in Nat /\ Len(mem) <= Total
      /\ Len(layout.mem) \in Nat /\ Len(layout.mem) <= Total
      /\ Total \in Nat /\ PointerLen + ShapeLen < Total
  BY SizeAssumption, BufferAssumption DEF MemAllocFails, HostIsMade, IInv, TypeOK, Total
<1>2. /\ Regular(used, mem, display, ram_size) /\ Ordered(used, mem)
      /\ next = EndOf(used, mem)
  BY <1>1 DEF IInv, InHostRegular
<1>3. /\ UNCHANGED <<ram_size, defaulted, dma_buf, display, file, ram, initShm, used, next, mem,
                     frame_index, fb_offset, state>>
      /\ layout' = IF initShm THEN [used |-> used, mem |-> mem] ELSE layout
      /\ pc' \in IF initShm THEN {"destroy", "setup"} ELSE {"exit", "await"}
      /\ pc' \in {"setup", "await"} => Len(mem) = Total \/ Len(mem) < PointerLen + ShapeLen
  BY <1>1 DEF MemAllocFails, HostIsMade, Return
<1>4. Maximal(used, mem, display, ram_size)
  BY <1>2 DEF MemAllocFails, HostIsMade, Fits, Maximal
<1>5. TypeOK'
  BY <1>1, <1>3 DEF IInv, TypeOK
<1>6. CASE initShm
  BY <1>1, <1>2, <1>3, <1>4, <1>5, <1>6
  DEF IInv, BeforeTheHost, NothingYet, InHostRegular, OnlyOnce, FirstLayout, LayoutComplete, Again,
      Requested, Awaiting, InHost
<1>7. CASE ~initShm
  <2>1. Again'
    <3> SUFFICES ASSUME used = layout.used PROVE mem = layout.mem
      BY <1>3, <1>7 DEF Again
    <3>1. /\ Regular(used, layout.mem, display, ram_size)
          /\ Prefix(mem, layout.mem)
      BY <1>1, <1>7 DEF IInv, LayoutComplete, Again, InHost
    <3>2. Len(mem) = Len(layout.mem)
      <4> SUFFICES ASSUME Len(mem) < Len(layout.mem) PROVE FALSE
        BY <1>1, <3>1 DEF Prefix
      <4>1. Room(mem, EndOf(used, mem), display, ram_size)
        BY <1>1, <3>1, GoesOnAlike
      <4> QED
        BY <1>1, <1>4, <4>1 DEF Maximal
    <3> QED
      BY <1>1, <3>1, <3>2, SeqEqual DEF Prefix
  <2> QED
    BY <1>1, <1>3, <1>5, <1>7, <2>1
    DEF IInv, BeforeTheHost, NothingYet, InHostRegular, OnlyOnce, FirstLayout, LayoutComplete,
        Requested, Awaiting, InHost
<1> QED
  BY <1>6, <1>7

(* main, once the host is made. *)
LEMMA MainStep ==
  ASSUME IInv, \/ SetUp \/ RequestFrame \/ SignalFrameDone \/ Shutdown \/ Leave
               \/ DestroyContext \/ UNCHANGED vars
  PROVE  IInv'
<1> USE DEF sizeVars, hostVars, frameVars
<1> USE DEF IInv, BeforeTheHost, NothingYet, InHostRegular, OnlyOnce, FirstLayout, LayoutComplete,
            Again, Requested, Awaiting, InHost
<1>0. <<>> \in Seq(Buffer) /\ Len(<<>>) = 0 /\ Total \in Nat
  BY BufferAssumption DEF Total
<1>1. CASE SetUp \/ SignalFrameDone \/ Leave
  <2>1. TypeOK'
    BY <1>1 DEF SetUp, SignalFrameDone, Leave, TypeOK
  <2> QED
    BY <1>1, <2>1 DEF SetUp, SignalFrameDone, Leave
<1>2. CASE RequestFrame
  <2>1. NextIndex = 1 /\ FrameBuffer(NextIndex) = Total
    BY BufferAssumption DEF NextIndex, FrameBuffer, Total
  <2>2. initShm /\ layout.mem = mem /\ mem \in Seq(Buffer) /\ Len(mem) \in Nat /\ Len(mem) <= Total
    BY <1>2 DEF RequestFrame, TypeOK
  <2>3. CASE Total \in DOMAIN mem
    <3>1. mem[Total] \in Buffer /\ Len(mem) = Total
      BY <1>0, <2>2, <2>3
    <3>2. /\ fb_offset' = mem[Total].at + Page /\ frame_index' = 1 /\ pc' = "await"
          /\ UNCHANGED <<ram_size, defaulted, dma_buf, display, file, ram, initShm, used, next, mem,
                         state, layout>>
      BY <1>2, <2>1, <2>3 DEF RequestFrame
    <3>3. TypeOK'
      BY <3>1, <3>2, SizeAssumption, BufferAssumption DEF TypeOK, Buffer
    <3> QED
      BY <1>2, <2>2, <3>1, <3>2, <3>3 DEF RequestFrame
  <2>4. CASE Total \notin DOMAIN mem
    <3>1. TypeOK'
      BY <1>2, <2>1, <2>4, BufferAssumption DEF RequestFrame, TypeOK
    <3> QED
      BY <1>2, <2>1, <2>4, <3>1 DEF RequestFrame
  <2> QED
    BY <2>3, <2>4
<1>3. CASE Shutdown
  <2>1. /\ pc' = "userdata" /\ initShm' = FALSE /\ state' = "RESTART" /\ mem' = <<>>
        /\ UNCHANGED <<ram_size, defaulted, dma_buf, display, file, ram, used, next, frame_index,
                       fb_offset, layout>>
    BY <1>3 DEF Shutdown
  <2>2. defaulted' \in BOOLEAN /\ dma_buf' \in BOOLEAN /\ initShm' \in BOOLEAN
    BY <2>1, Zenon DEF TypeOK
  <2>3. TypeOK'
    BY <1>0, <2>1, <2>2 DEF TypeOK
  <2> QED
    BY <1>3, <2>1, <2>3 DEF Shutdown
<1>4. CASE DestroyContext
  <2>1. TypeOK'
    BY <1>0, <1>4 DEF DestroyContext, TypeOK
  <2> QED
    BY <1>4, <2>1 DEF DestroyContext
<1>5. CASE UNCHANGED vars
  <2>1. TypeOK'
    BY <1>5 DEF vars, TypeOK
  <2> QED
    BY <1>5, <2>1 DEF vars
<1> QED
  BY <1>1, <1>2, <1>3, <1>4, <1>5

(* Every step keeps the invariant. *)
LEMMA Inductive == IInv /\ [Next]_vars => IInv'
<1> SUFFICES ASSUME IInv, [Next]_vars PROVE IInv'
  OBVIOUS
<1> QED
  BY SizeStep, HostStep, AllocStep, MadeStep, MainStep DEF Next, InitHost, Ended

(* The invariant holds throughout. *)
LEMMA Invariant == Spec => []IInv
  BY Initially, Inductive, PTL DEF Spec

-----------------------------------------------------------------------------
(* Every variable keeps its type. *)
THEOREM TypeCorrect == Spec => []TypeOK
<1>1. IInv => TypeOK
  BY DEF IInv
<1> QED
  BY Invariant, <1>1, PTL

(* lpShouldTruncate decides by the size the file has: stat did not fail.   *)
StatTells == InitShmFile => file' = IF ShouldTruncate(file) THEN ram_size ELSE file

(* It does so in particular where stat never fails. *)
LEMMA StatWithoutFailure == ~StatFails => StatTells
BY DEF StatTells, InitShmFile

(* Whatever size was asked for and whatever size the file had, memory that *)
(* is mapped is in the file, in every behaviour in which stat does not     *)
(* fail (lpInitShmFile, lpShouldTruncate).                                 *)
THEOREM MappingBacked == Spec /\ [][StatTells]_vars => []MappingIsBacked
<1>1. Init => MappingIsBacked
  BY DEF Init, MappingIsBacked
<1>2. IInv /\ MappingIsBacked /\ [Next]_vars /\ [StatTells]_vars => MappingIsBacked'
  <2> SUFFICES ASSUME IInv, MappingIsBacked, [Next]_vars, [StatTells]_vars PROVE MappingIsBacked'
    OBVIOUS
  <2> USE DEF MappingIsBacked, sizeVars
  <2>1. CASE Options \/ ConnectFails \/ Connect \/ ShmFails
    BY <2>1 DEF Options, ConnectFails, Connect, ShmFails, IInv, BeforeTheHost
  <2>2. CASE InitShmFile
    <3>1. file' = IF ShouldTruncate(file) THEN ram_size ELSE file
      BY <2>2 DEF StatTells, InitShmFile, vars
    <3>2. file \in Nat /\ ram_size \in Nat /\ ram_size' = ram_size
      BY <2>2, SizeAssumption DEF InitShmFile, IInv, TypeOK
    <3>3. CASE dma_buf
      BY <2>2, <3>1, <3>2, <3>3 DEF InitShmFile, ShouldTruncate
    <3>4. CASE ~dma_buf
      BY <2>2, <3>1, <3>2, <3>4 DEF InitShmFile, ShouldTruncate
    <3> QED
      BY <3>3, <3>4
  <2>3. CASE InitHost
    BY <2>3 DEF InitHost, NewKVMFRData, HostInit, HostInitCrash, MemAlloc, MemAllocFails,
       HostIsMade
  <2>4. CASE \/ SetUp \/ RequestFrame \/ SignalFrameDone \/ Shutdown \/ Leave \/ DestroyContext
             \/ Ended \/ UNCHANGED vars
    BY <2>4 DEF SetUp, RequestFrame, SignalFrameDone, Shutdown, Leave, DestroyContext, Ended, vars
  <2> QED
    BY <2>1, <2>2, <2>3, <2>4 DEF Next
<1> QED
  BY Invariant, <1>1, <1>2, PTL DEF Spec

(* A frame that arrives is written over no other buffer, also while the    *)
(* buffers are given out anew after the memory was zeroed                  *)
(* (lpRequestFrame, lpShutdownLgmpHost, lpInitHost).                       *)
THEOREM NoneOverwritten == Spec => []NothingOverwritten
<1>1. IInv => NothingOverwritten
  <2> SUFFICES ASSUME IInv, Awaiting, used = layout.used,
                      NEW k \in DOMAIN mem, k # FrameBuffer(frame_index)
               PROVE  mem[k].at + mem[k].size <= fb_offset
    BY DEF NothingOverwritten
  <2>1. /\ frame_index = 1 /\ Len(layout.mem) = Total /\ fb_offset = layout.mem[Total].at + Page
        /\ mem \in Seq(Buffer) /\ layout.mem \in Seq(Buffer)
    BY DEF IInv, TypeOK, Requested
  <2>2. k # Total
    BY <2>1, BufferAssumption DEF FrameBuffer, Total
  <2>3. Prefix(mem, layout.mem)
    <3>1. CASE mem = <<>>
      BY <3>1, <2>1 DEF Prefix
    <3>2. CASE mem = layout.mem
      BY <3>2, <2>1 DEF Prefix
    <3>3. CASE pc = "alloc" /\ ~initShm
      BY <3>3 DEF IInv, Again
    <3>4. pc = "await" => mem = layout.mem
      BY DEF IInv, FirstLayout, Again
    <3>5. pc \in {"userdata", "init"} => mem = <<>>
      BY DEF IInv, NothingYet
    <3> QED
      BY <3>1, <3>2, <3>3, <3>4, <3>5 DEF Awaiting, InHost
  <2>4. k \in 1 .. Total /\ k < Total /\ mem[k] = layout.mem[k] /\ Total \in Nat
    <3>1. Total \in Nat
      BY BufferAssumption DEF Total
    <3>2. k \in 1 .. Len(mem) /\ Len(mem) \in Nat
      BY <2>1
    <3> QED
      BY <2>1, <2>2, <2>3, <3>1, <3>2 DEF Prefix
  <2>5. Ordered(layout.used, layout.mem)
    BY DEF IInv, LayoutComplete, Awaiting
  <2>6. layout.mem[k].at + layout.mem[k].size <= layout.mem[Total].at
    BY <2>1, <2>4, <2>5 DEF Ordered
  <2>7. layout.mem[k] \in Buffer /\ layout.mem[Total] \in Buffer
    <3>1. k \in 1 .. Len(layout.mem) /\ Total \in 1 .. Len(layout.mem)
      BY <2>1, <2>4
    <3> QED
      BY <2>1, <3>1
  <2>8. /\ layout.mem[Total].at \in Nat /\ layout.mem[k].at \in Nat /\ layout.mem[k].size \in Nat
        /\ Page \in Nat
    BY <2>7, SizeAssumption DEF Buffer
  <2> QED
    BY <2>1, <2>4, <2>6, <2>8
<1> QED
  BY Invariant, <1>1, PTL

(* A host made anew has every buffer where it was, so a frame that was     *)
(* asked for before arrives in its buffer (lpShutdownLgmpHost, lpInitHost). *)
THEOREM InPlace == Spec => []StaysInPlace
<1>1. IInv => StaysInPlace
  <2> SUFFICES ASSUME IInv, pc = "await", used = layout.used
               PROVE  mem = layout.mem /\ fb_offset = mem[FrameBuffer(frame_index)].at + Page
    BY DEF StaysInPlace
  <2>1. mem = layout.mem
    BY DEF IInv, FirstLayout, Again
  <2>2. FrameBuffer(1) = Total
    BY BufferAssumption DEF FrameBuffer, Total
  <2> QED
    BY <2>1, <2>2 DEF IInv, Requested, Awaiting
<1> QED
  BY Invariant, <1>1, PTL

-----------------------------------------------------------------------------
(* What has been given out is not more than what that many buffers take.   *)
NextBounded == pc = "alloc" => next <= Own + used + Needed(Len(mem))

(* Products of natural numbers grow with their factors. *)
LEMMA Products ==
  ASSUME NEW a \in Nat, NEW b \in Nat, NEW c \in Nat, a <= b
  PROVE  a * c \in Nat /\ a * c <= b * c /\ (a + 1) * c = a * c + c
<1> DEFINE k == b - a
<1>1. k \in Nat /\ b = a + k
  OBVIOUS
<1>2. b * c = a * c + k * c /\ k * c \in Nat /\ a * c \in Nat
  BY <1>1
<1>3. (a + 1) * c = a * c + c
  OBVIOUS
<1> QED
  BY <1>2, <1>3

(* A buffer is placed within the room that Needed counts for it.           *)
LEMMA NeededStep ==
  ASSUME TypeOK, NEW n \in Nat, n < Total, NEW e \in Nat
  PROVE  /\ Needed(n) \in Nat /\ Needed(n + 1) \in Nat /\ Needed(n + 1) <= Needed(Total)
         /\ Place(n, e, display).at + Place(n, e, display).size + Needed(n)
              <= e + Needed(n + 1)
<1>1. /\ Page \in Nat \ {0} /\ CursorSize \in Nat /\ MaxPointerSize \in Nat /\ display \in Nat
      /\ PointerLen \in Nat /\ ShapeLen \in Nat /\ FrameLen \in Nat
      /\ Total = PointerLen + ShapeLen + FrameLen
  BY SizeAssumption, BufferAssumption DEF TypeOK, MaxPointerSize, Total
<1> DEFINE f == Page + display
<1> DEFINE P == PointerLen * CursorSize
<1> DEFINE S == ShapeLen * MaxPointerSize
<1> DEFINE needed == P + S + FrameLen * f
<1>2. P \in Nat /\ S \in Nat /\ f \in Nat /\ FrameLen * f \in Nat
  BY <1>1
<1>3. Needed(Total) = P + S + FrameLen * f
  <2>1. ~(Total <= PointerLen) /\ ~(Total <= PointerLen + ShapeLen)
        /\ Total - PointerLen - ShapeLen = FrameLen
    BY <1>1, BufferAssumption
  <2> QED
    BY <2>1 DEF Needed
<1>4. CASE n < PointerLen
  <2> DEFINE x == n * CursorSize
  <2>1. Needed(n) = x /\ Needed(n + 1) = (n + 1) * CursorSize
    BY <1>1, <1>4 DEF Needed
  <2>2. x \in Nat /\ (n + 1) * CursorSize = x + CursorSize
    BY <1>1, Products
  <2>3. (n + 1) * CursorSize <= P
    BY <1>1, <1>4, Products
  <2>4. Place(n, e, display).at = e /\ Place(n, e, display).size = CursorSize
    BY <1>1, <1>4 DEF Place, AtAfter, SizeAt
  <2> HIDE DEF x, P, S, f
  <2> QED
    BY <1>1, <1>2, <1>3, <2>1, <2>2, <2>3, <2>4
<1>5. CASE PointerLen <= n /\ n < PointerLen + ShapeLen
  <2> DEFINE i == n - PointerLen
  <2> DEFINE x == i * MaxPointerSize
  <2>1. i \in Nat /\ i + 1 <= ShapeLen /\ n + 1 - PointerLen = i + 1
    BY <1>1, <1>5
  <2>2. x \in Nat /\ (i + 1) * MaxPointerSize = x + MaxPointerSize
    BY <1>1, <2>1, Products
  <2>3. (i + 1) * MaxPointerSize <= S
    BY <1>1, <2>1, Products
  <2>4. Needed(n) = P + x
    <3>1. CASE n = PointerLen
      BY <1>1, <3>1 DEF Needed
    <3>2. CASE n # PointerLen
      BY <1>1, <1>5, <3>2 DEF Needed
    <3> QED
      BY <3>1, <3>2
  <2>5. Needed(n + 1) = P + (i + 1) * MaxPointerSize
    BY <1>1, <1>5, <2>1 DEF Needed
  <2>6. Place(n, e, display).at = e /\ Place(n, e, display).size = MaxPointerSize
    BY <1>1, <1>5 DEF Place, AtAfter, SizeAt
  <2> HIDE DEF i, x, P, S, f
  <2> QED
    BY <1>1, <1>2, <1>3, <2>2, <2>3, <2>4, <2>5, <2>6
<1>6. CASE PointerLen + ShapeLen <= n
  <2> DEFINE i == n - PointerLen - ShapeLen
  <2> DEFINE x == i * f
  <2>1. i \in Nat /\ i + 1 <= FrameLen /\ n + 1 - PointerLen - ShapeLen = i + 1
    BY <1>1, <1>6
  <2>2. x \in Nat /\ (i + 1) * f = x + f
    BY <1>2, <2>1, Products
  <2>3. (i + 1) * f <= FrameLen * f
    BY <1>1, <1>2, <2>1, Products
  <2>4. Needed(n) = P + S + x
    <3>1. CASE n = PointerLen + ShapeLen
      <4>1. i = 0 /\ x = 0
        BY <1>1, <1>2, <3>1
      <4>2. CASE ShapeLen = 0
        BY <1>1, <1>2, <3>1, <4>1, <4>2 DEF Needed
      <4>3. CASE ShapeLen # 0
        BY <1>1, <1>2, <3>1, <4>1, <4>3 DEF Needed
      <4> QED
        BY <4>2, <4>3
    <3>2. CASE n # PointerLen + ShapeLen
      BY <1>1, <1>6, <3>2 DEF Needed
    <3> QED
      BY <3>1, <3>2
  <2>5. Needed(n + 1) = P + S + (i + 1) * f
    BY <1>1, <1>6, <2>1 DEF Needed
  <2>6. Place(n, e, display).at <= e + Page /\ Place(n, e, display).size = display
        /\ Place(n, e, display).at \in Nat
    BY <1>1, <1>6, AlignedUp DEF Place, AtAfter, SizeAt
  <2>7. f = Page + display
    OBVIOUS
  <2> HIDE DEF i, x, P, S, f
  <2> QED
    BY <1>1, <1>2, <1>3, <2>2, <2>3, <2>4, <2>5, <2>6, <2>7
<1> QED
  BY <1>1, <1>4, <1>5, <1>6

(* What is left of a memory that large has room for the next buffer.       *)
LEMMA NextHasRoom ==
  ASSUME TypeOK, NextBounded
  PROVE  NoneRefused
<1> SUFFICES ASSUME Enough, pc = "alloc", Len(mem) < Total PROVE Fits
  BY DEF NoneRefused
<1> DEFINE n == Len(mem)
<1>1. n \in Nat /\ used \in Nat /\ next \in Nat /\ ram_size \in Nat /\ Own \in Nat
  BY SizeAssumption DEF TypeOK
<1>2. /\ Needed(n) \in Nat /\ Needed(n + 1) \in Nat /\ Needed(n + 1) <= Needed(Total)
      /\ NextPlace.at + NextPlace.size + Needed(n) <= next + Needed(n + 1)
  BY <1>1, NeededStep DEF NextPlace
<1>3. NextPlace.at \in Nat /\ NextPlace.size \in Nat
  BY <1>1, Placed DEF NextPlace, Buffer, TypeOK
<1>4. Needed(Total) \in Int
  BY <1>1, <1>2, SizeAssumption, BufferAssumption DEF Needed, Total, MaxPointerSize, TypeOK
<1>5. next <= Own + used + Needed(n) /\ Own + used + Needed(Total) <= ram_size
  BY DEF NextBounded, Enough
<1> HIDE DEF n
<1>6. NextPlace.at + NextPlace.size <= ram_size
  BY <1>1, <1>2, <1>3, <1>4, <1>5
<1> QED
  BY <1>6 DEF Fits, Room, NextPlace

(* A step keeps what has been given out within that bound. *)
LEMMA BoundedStep ==
  ASSUME IInv, NextBounded, [Next]_vars
  PROVE  NextBounded'
<1> USE DEF NextBounded, sizeVars, hostVars, frameVars
<1>1. CASE HostInit
  <2>1. /\ mem = <<>> /\ mem' = mem /\ used' = used /\ used \in Nat
        /\ pc' = "alloc" => next' = Own + used
    BY <1>1 DEF HostInit, Return, IInv, NothingYet, TypeOK
  <2>2. Needed(0)' = 0
    BY SizeAssumption, BufferAssumption DEF Needed
  <2> QED
    BY <2>1, <2>2, SizeAssumption
<1>2. CASE MemAlloc
  <2> DEFINE n == Len(mem)
  <2>1. /\ n \in Nat /\ n < Total /\ next \in Nat /\ used \in Nat /\ Own \in Nat
        /\ used' = used /\ display' = display /\ Len(mem') = n + 1
        /\ next' = NextPlace.at + NextPlace.size /\ pc = "alloc"
    BY <1>2, SizeAssumption DEF MemAlloc, IInv, TypeOK
  <2>2. /\ Needed(n) \in Nat /\ Needed(n + 1) \in Nat
        /\ NextPlace.at + NextPlace.size + Needed(n) <= next + Needed(n + 1)
    BY <2>1, NeededStep DEF NextPlace, IInv
  <2>3. NextPlace.at \in Nat /\ NextPlace.size \in Nat
    BY <2>1, Placed DEF NextPlace, Buffer, IInv, TypeOK
  <2>4. Needed(Len(mem))' = Needed(n + 1)
    BY <2>1 DEF Needed
  <2>5. next <= Own + used + Needed(n)
    BY <2>1
  <2> HIDE DEF n
  <2> QED
    BY <2>1, <2>2, <2>3, <2>4, <2>5
<1>3. CASE ~HostInit /\ ~MemAlloc
  <2>1. pc' = "alloc" => pc = "alloc" /\ UNCHANGED <<next, used, mem, display>>
    BY <1>3 DEF Next, Options, ConnectFails, Connect, ShmFails, InitShmFile, InitHost, NewKVMFRData,
       HostInitCrash, MemAllocFails, HostIsMade, Return, SetUp, RequestFrame, SignalFrameDone,
       Shutdown, Leave, DestroyContext, Ended, vars
  <2> QED
    BY <2>1 DEF Needed
<1> QED
  BY <1>1, <1>2, <1>3

(* A step keeps a sink that serves in possession of its buffers.           *)
LEMMA ThereStep ==
  ASSUME IInv, NextBounded, AllThere, [Next]_vars
  PROVE  AllThere'
<1> USE DEF AllThere, sizeVars, hostVars, frameVars
<1>1. CASE MemAllocFails \/ HostIsMade
  <2>1. UNCHANGED <<ram_size, used, display, mem>> /\ pc = "alloc"
    BY <1>1 DEF MemAllocFails, HostIsMade
  <2>2. Enough' = Enough
    BY <2>1 DEF Enough, Needed
  <2>3. Enough => ~MemAllocFails
    BY NextHasRoom DEF IInv, NoneRefused, MemAllocFails
  <2> QED
    BY <1>1, <2>1, <2>2, <2>3 DEF HostIsMade
<1>2. CASE ~MemAllocFails /\ ~HostIsMade
  <2>1. pc' \in {"setup", "serve", "await"} =>
          /\ pc \in {"setup", "serve", "await"}
          /\ UNCHANGED <<ram_size, used, display, mem>>
    <3>1. CASE NewKVMFRData
      BY <3>1 DEF NewKVMFRData, Return
    <3> QED
      BY <1>2, <3>1 DEF Next, Options, ConnectFails, Connect, ShmFails, InitShmFile, InitHost,
         HostInit, HostInitCrash, MemAlloc, Return, SetUp, RequestFrame, SignalFrameDone,
         Shutdown, Leave, DestroyContext, Ended, vars
  <2> QED
    BY <2>1 DEF Enough, Needed
<1> QED
  BY <1>1, <1>2

(* What is asked for with -s suffices when it has room for LGMP, the user  *)
(* data and every buffer with a page to align it by, whatever the display: *)
(* the first host and the one made anew in the same memory get all of      *)
(* them. The default is computed otherwise (lp_utils.c:170).               *)
THEOREM EnoughIsEnough == Spec => []EnoughSuffices
<1>1. Init => NextBounded /\ AllThere
  BY DEF Init, NextBounded, AllThere
<1>2. IInv /\ NextBounded /\ AllThere /\ [Next]_vars => NextBounded' /\ AllThere'
  BY BoundedStep, ThereStep
<1>3. IInv /\ NextBounded /\ AllThere => EnoughSuffices
  BY NextHasRoom DEF IInv, EnoughSuffices
<1> QED
  BY Invariant, <1>1, <1>2, <1>3, PTL DEF Spec
=============================================================================
