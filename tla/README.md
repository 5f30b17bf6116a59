# LGProxy: a verification development

LGProxy relays the screen and the cursor of a Looking Glass host, running in a
virtual machine, to a Looking Glass client on another computer. This directory
holds TLA+ modules of its two programs, the TLC configurations that check them
and the proofs that TLAPS checks. Source lines below are of the files under
`src/lgproxy/`.

## 1. The system

```
 Looking Glass host ==LGMP==> lgproxy source ==libtrf==> lgproxy sink ==LGMP==> Looking Glass client
                              lp_source.c                 lp_sink.c
                              lp_retrieve.c               lp_write.c
```

LGMP (queues in shared memory), libtrf (RDMA or TCP through libfabric) and both
Looking Glass programs are not in the repository (`repos/` is empty). They are
modelled by what LGProxy's code relies on and their definitions are marked
external in the map.

| Component | Code | State | Operations |
|---|---|---|---|
| Source session | `source/lp_source.c` main, `lpHandleClientReq` | `client_ctx`, `sub_channel`, `thread_flags`, `state`, the frame fetched, the buffer sent, the request served | accept, set up, poll, open the subchannel, get a frame, write it, acknowledge, tear down |
| Source LGMP client | `lp_retrieve.c` | mapping, LGMP session, subscriptions, `state` | initialise, wait for a host, subscribe, `lpGetFrame`, `lpgetCursor` |
| Source cursor thread | `lpHandleCursorPos`, `lpgetCursor` | deadline, cursor | read the pointer queue, send, keep alive, say goodbye |
| Sink main | `sink/lp_sink.c` main, `lpRequestFrame`, `lpSignalFrameDone`, `lpKeepLGMPSessionAlive`, `lpShutdown`, `lpReinitCursorThread` | `frame_cntr`, `frame_index`, `repeatframe`, `state`, `sub_started`, `cursor_thread` | idle, request, await, poll, reinitialise, shut down |
| Sink cursor thread | `lpCursorThread`, `lpUpdateCursorPos`, `lpPostCursor` | buffer, flags, ring indices | receive, repeat, post, stop |
| Sink memory and LGMP host | `lpInitShmFile`, `lpInitHost`, `newKVMFRData`, sizes in `lp_utils.c`, option `-s` | file, mapping, user data, buffers, `fb_offset` | size, map, allocate, free, make anew |
| Utilities, messages, connection, options, logging, conversion | `lp_utils.c`, `lp_msg*`, `lp_trf_*.c`, `lp_log.c`, `lp_convert.h` | none that lasts | see PROJECT.json |

The programs interact in five ways:

* The sink sends a numbered frame request, the source writes the frame by RDMA
  into the sink's shared memory and sends an acknowledgement, which has no
  number. Either side sends keep-alives, the source sends a disconnect.
* On a second channel the source's cursor thread sends cursor messages, which
  nobody acknowledges.
* LGMP queues hold buffers, not data: who reads an entry reads what the buffer
  holds then. LGMP drops subscribers that stop reading, and a host that
  restarts is another LGMP session.
* In each program main and the cursor thread share `state`, `thread_flags`, the
  subchannel and the memory, without a lock or an atomic.
* A Looking Glass client that restarts may zero the memory that LGMP lives in.

What makes this hard: answers that cannot be told apart, two threads that hand
each other flags by plain assignment, a buffer that is written while an entry
names it, a frame whose buffer the host already has back, peers that vanish
without a word, functions that report failure as success, sizes rounded in
floating point, and loops that wait for something which only a call they do not
make can bring about. `hazards` in PROJECT.json has all of it, line by line.

What would make each part correct: the screen shows frames in order and whole,
a request is answered by its own frame, the programs end when and only when
there is a cause; at most one cursor thread runs, it never uses what was freed,
it is gone when its session is; the client ends up with the guest's cursor; a
source that serves is subscribed to a host that runs; a frame is written where
its buffer is and nowhere else.

## 2. Modules

| Module | Models | Checked by |
|---|---|---|
| `FrameDelivery` | the promise: one write per request, of a frame that is not older than the newest one the source knew of at the write before | refinement in `relay_async` |
| `FrameRelay` | one session of frames, both main loops and everything between host and client | `relay_*` |
| `FrameRelayProofs` | 13 theorems about it | |
| `LgmpSession` | the source as a client of the host, session after session | `lgmp_session` |
| `LgmpSessionProofs` | 6 theorems about it | |
| `SoleWorker` | what both programs promise of their cursor threads: one at a time is at work, what it works on is there, and changes hands only while none is | refinement in `sink_threads`; proved for both programs |
| `SinkThreads` | main of the sink and its cursor threads | `sink_threads`, `sink_live`, `sink_slow` |
| `SinkThreadsProofs` | 8 theorems about it | |
| `SourceThreads` | the source, session after session, and its cursor thread | `source_*` |
| `SourceThreadsProofs` | 7 theorems about it | |
| `CursorQueue` | the cursor from the source's thread to the client | `cursor_queue` |
| `CursorQueueProofs` | 5 theorems about it | |
| `SinkMemory` | the sink's memory, byte by byte, and the host made anew in it | `sink_memory` |
| `MCSinkMemory` | what `-s` is given, for TLC | `sink_memory` |
| `SinkMemoryProofs` | 5 theorems about it | |

The component modules divide the code by what its state is about. The frame
relay sees of the cursor threads only that one may stop the sink
(`SnkCursorStop`) and of the host only its frame queue; the thread modules see
a round of the relay as a step that goes one way or another; the cursor relay
sees of the threads that they end; `LgmpSession` sees of the sink that it asks
and leaves; `SinkMemory` knows where a frame goes but not which.

### FrameRelay

`spc` and `kpc` say where the loops are; every other variable has the name of
the field in the code, or is external (the queues, the connection, the client).
Actions are named `Src...` and `Snk...`, one for each way through a round of a
loop. A frame is its serial number and the content of a buffer the frame in it,
since the code never looks at a pixel. `landed`, `unacked`, `latest`, `known`
and `overran` are history.

* `SrcRecvFrameReq` sets `fb_offset` from `fb` (lp_source.c:425), which is the
  buffer of the frame fetched before; `SrcGetFrame` then sets `fb` for the new
  one and gives the message back at once (lp_retrieve.c:283). `Repeated` is the
  comparison of lp_source.c:487.
* `fetched` is the frame the source believes it has, `fb` and `fb_offset` are
  what the two buffers hold. They differ once `HostPost` has filled a buffer
  again, which the host may do with any whose message it has back. A buffer is
  filled in one step.
* `Init` is a session whose set-up has fetched its first frame
  (lp_source.c:282-329), so that `produced` and `fb` are 1.
* `SrcSendDone` and `SrcSendFail` are the write (`RdmaWrite`), its completion
  with the second give-back and the acknowledgement, and its failure.
  `Acknowledge` may fail with the connection up: the code logs that and counts
  the frame as served (lp_source.c:531-535), which `unacked` remembers.
* `posted` says whether main of the sink has a buffer to receive in. It is
  posted by each request and again after a keep-alive, where a failure is only
  logged (lp_sink.c:418-426): then no answer arrives any more.
* `SnkCursorStop` is the disconnect that the sink's cursor thread receives. It
  comes from the source's cursor thread, which sends one at the end of its
  session and on an error of its own, while the source's main still runs
  (lp_source.c:618-622, 676-691); `subBye` remembers it.
* `SnkRequest` is all of `lpRequestFrame`: the wait for room, the index, the
  buffer rewound and posted, the request sent. `RepeatPost` is what main does
  with busy polling when no answer is there yet.
* `SnkReinit` is `lpKeepLGMPSessionAlive` on zeroed memory, which starts from
  empty buffers.
* Every other send or receive that fails ends its loop, exactly as a broken
  connection does, and is modelled as one; `CallMayFail` switches the two whose
  failure ends nothing.

### LgmpSession

`pc` is main from one accept to the next, `tpc` the cursor thread. The host is
four external actions: it starts, publishes its queues one by one, drops a
subscriber, stops; each start has a number and may be of another LGMP version.
`bound` is the number `lgmp_client` was initialised for and `sub` that of each
queue handle, so that a handle of an old session can be told from one of the
running session. What LGMP answers to a subscription or a read is
`SubscribeStatus` and `ProcessStatus`; the code's branches on them are one
action each.

* `InitLgmpClient` has `lgmpClientInit` fail with 0 returned, and `mmap` fail
  unnoticed; `InitSessionWait` is the counted wait, which after the last
  attempt is simply over (lp_retrieve.c:82-130).
* `GetFrameNotRunning` is `lpGetFrame` called without a session: it returns 0
  and no frame, and main reads a null pointer or sends the frame it had.
* `CursorNotRunning` and `CursorUnread` are the loop left for the state's sake
  and the message that nobody received (lp_retrieve.c:294, 329), which may have
  any outcome.
* A keep-alive or a cursor may fail to be sent on the subchannel whatever the
  main connection does. `CursorKeepAliveFails` is the thread that then returns
  without a word (lp_source.c:628-633).
* Returns that bypass the tear-down go back to `accept` when no cursor thread
  runs. With one they lead to `left`, from where the thread is followed further
  while main serves other sessions on the same context. Of those only what they
  may do to the variables the thread reads is kept (`NextSession`).

### SinkThreads and SourceThreads

One `pc` per thread, one action per access to shared state. Thread identities
come from a finite set and are used again once a thread has ended. `SlowStart`
says whether main may go on before a new thread has set its flag; with `FALSE`
the hand-over of flags is what its author had in mind, with `TRUE` it is what
the scheduler may do. `CreateMayFail` and `EarlyReturn` switch failures the code
does not handle (section 6). A read of an uninitialised message (lp_retrieve.c:329)
may have any outcome, a crash included. So does the use of a subchannel that is
gone: in the source one that a failed thread has cleared (lp_source.c:411,
`SetPollRate`), in the sink one that was destroyed on a disconnect, on which a
later thread registers its buffer or polls (lp_write.c:526, 544,
`CursorCrash`). `Setup` of the source crashes where `LgmpSession` shows how. A
join of an invalid handle is taken to return.

After an `lpInitHost` that failed the sink creates its cursor thread all the
same (lp_write.c:257-271), with the LGMP memory freed; main returns later
(`MainReturn`, lp_sink.c:385-388), and until then the thread runs.

`OpenChannel` of the source is guarded by there being no thread yet. The code has
no such guard: it relies on the sink, which opens one subchannel in a session
(lp_sink.c:222), and so do the theorems.

Both implement `SoleWorker`. In the sink a worker is a thread between the test
of `state` that lets it pass and the next such test, on which way it polls the
subchannel and writes to the LGMP memory; its resource is that memory (`mem`).
In the source a worker is a thread that has been created and not ended; its
resource is the connection of its session's client (`client_ctx`). `Finish` is
the end of a worker's round, or of the thread, or of the program, which takes
every thread along.

### CursorQueue

An update is its number, an image the number of the update it came with, 0 is
memory nobody filled. `UpdateCursorPos` and `PostCursor` are separate steps, so
that the client can read a buffer between the copy and the post; a copy itself
is one step. `FreedIntact` says that a freed message still has its length
(lp_write.c:668); with `FALSE` the length is anything. `holds` in an entry is
history: what was posted. `pointer_shape_valid` is kept although the code only
ever writes it.

### SinkMemory

Sizes and offsets are bytes. `ram_size` comes from `-s` (`ParseMemString`, kept
in a word of the program) or from the display (`CalcFrameSizeNeeded`, where the
single-precision `powf`, `ceilf` and `logf` may give either neighbour next to a
power of two). `file` is the size the file has, `mem` the buffers in the order
`lpInitHost` allocates them, each with its place and size. `Own` stands for what
LGMP itself occupies. `Shutdown` is `lpShutdown` on zeroed memory, after which
`InitHost` runs again while `fb_offset` still says where the source will write.
`layout` is history: what the first `lpInitHost` gave out.

## 3. Runs

| Run | Question | States |
|---|---|---|
| `relay_async` | busy polling, a connection or a single call that fails: requests, answers and frames in step, a request lost only with its acknowledgement, order of the screen, refinement, causes for ending, no deadlock; do frames at hand, broken connections and SIGINT have their effect? | 286 000 |
| `relay_faults` | synchronous polling with clients that die, zeroed memory, failing connection and calls: invariant, the buffer awaited not marked complete | 2 462 000 |
| `sink_threads` | prompt threads, failing creation, zeroed memory, a host that cannot be made anew: no thread left, none at work on freed memory, never two (refinement) | 51 000 |
| `sink_live` | threads of any speed: joins end, disconnects are heeded, main joins only a thread that is there | 25 000 |
| `source_threads` | session after session: nothing left over, the subchannel never taken, joins end, errors end the session, it ends the program only for a cause | 1 000 |
| `cursor_queue` | small rings and a full queue, clients that come, stall and go | 170 000 |
| `lgmp_session` | a host that starts late, publishes slowly, drops, stops, restarts: running means subscribed, set-ups end, a host that went away ends the session, who may use a message that nobody read | 209 000 |
| `sink_memory` | every size asked for, file and failing allocation, memory zeroed under a frame: mappings backed, nothing overwritten, the new host where the old one was, what size is enough | 4 700 |
| `relay_wait`, `relay_stale`, `sink_slow`, `source_stale` | findings, section 6 | |

Bounds, and why they are enough. `QLen = 2` is the least at which a slot other
than the one in use exists, so that a wrong index shows. `MaxFrame = 3` is the
frame of the set-up and two more, so that one can be sent while another is
fetched and its buffer filled again. `SerialMod = 3` makes serials wrap and
collide with the counter within a run. `KeepAlivePeriod = 2` for 10 in the
code, so that rounds with and without a keep-alive both happen, but 1 in
`relay_async`, where the distance between two plays no role; `MaxNet = 1`
lets a keep-alive be under way with any other message. Three threads let a lost
one run beside its successor and a new one. `Pointers = Shapes = Capacity = 2`
with three updates and any number of repeats makes both rings and the queue
overflow; that the real lengths differ does not matter to the theorems, which
hold for all. `MaxRetry = 3` for 20 has a first, a middle and a last attempt;
`MaxHost = 2` is a host and its successor. `SinkMemory` has the real numbers
and sizes of buffers; TLC's integers made its word 30 bits instead of 32, so
that `-s 1G` wraps here as `-s 4G` does in the program; one of its sizes is to
the byte what the smaller of its two displays needs, so that a page or an entry
more shows.

Deadlock is checked wherever the system must go on. It is off in
`relay_faults` and in the violation runs `relay_wait` and `relay_stale`: a sink
that waits for room for a dead client and a source whose peer ended may stop
for good there.

### Fairness

Both loops, the threads and the peers' reads are weakly fair: they run on
threads of their own and every iteration ends. The connection reports a peer
that closed (weak fairness on `PeerClosed`), as libfabric does. In
`SinkThreads` a main whose source is gone cannot poll, or send the keep-alive of
every tenth idle round, for ever without an error (strong fairness of both
errors). In `SourceThreads` the wait for a message ends, because a sink without
a subscriber sends keep-alives and one that is gone is an error. In
`CursorQueue` silences of 100 ms recur between keep-alives a second apart, so
`Repeat` is strongly fair; a keep-alive is only sent when the message before it
has been received. In `LgmpSession` a host that runs publishes its queues; the
sink opens its channel right after its first request (lp_sink.c:222), which
main, who leaves its poll for other messages in between, finds in the end
(strong fairness of `OpenChannel`), and so it finds a broken connection. No
client need ever connect, no host need start, no guest need draw, and no call
need fail: the thread's two failing sends have no fairness.

## 4. What is proved

For every length of queue, ring and channel, every number of frames, updates,
threads, attempts and host starts, every size of page, display and memory:

| Theorem | In which behaviours | Argument |
|---|---|---|
| `TypeCorrect` of each component | all | one step per action |
| `FrameRelayProofs!Invariant` | all | one step per action |
| `OneRequestHolds`, `AckMeansWrittenHolds`, `WriteIsWantedHolds` | all | follow from `IInv` |
| `NoRequestLostHolds` | all | a request leaves a place only for the next one, or with an acknowledgement that failed |
| `Refinement` of `FrameDelivery` | all | with `IInv`, every step is a step of `FrameDelivery` or a stutter |
| `ScreenMonotone` | memory is not zeroed | frames are ordered along the path; one buffer is ever posted |
| `EndsForCause` | busy polling, memory is not zeroed | the state stays RUNNING until a disconnect comes on the subchannel; all other ends follow a signal or a broken connection |
| `RewoundHolds` | synchronous polling | the request rewinds, no frame is repeated, so only an acknowledgement completes a buffer |
| `FlagLowersHolds`, `BreakLowersHolds`, `BreakEndsSourceHolds` | all | ranks, below |
| `SinkThreadsProofs!NoneLeftBehind`, `NeverTwoThreads`, `MemoryOutlivesThreads`, `Refinement` of `SoleWorker` | `PromptStart` | the handle names the thread that runs, the flag says so; a thread made while main stops turns back at its first test |
| `JoinsAreLegal` | `CreateSucceeds` | the handle is set whenever `sub_started` is |
| `DisconnectRemembered` | all | whatever overwrites the state after a disconnect is not RUNNING either |
| `StoppedThreadsWindDown` | all | ranks, below |
| `SourceThreadsProofs!NothingLeftOver`, `ChannelNeverTaken`, `Refinement` of `SoleWorker` | `NothingSkipped` | a thread is its session's and has its channel until it drops it |
| `CrashForCauseHolds` | `NothingSkipped` | the thread exists before its poll rate is set; it misses its channel only in `clean` or after; the other causes are where the session is |
| `ErrorHeeded` | `NothingSkipped` | ranks, below |
| `JoinedThreadWindsDown` | `NothingSkipped`, `PromptStart` | ranks, below |
| `CursorQueueProofs!EntriesStayFresh` | all | below |
| `ImagesAreReal`, `ImagesArrive` | `LengthKept` | below |
| `CatchUpHolds` | all | below |
| `LgmpSessionProofs!SubscriptionsHold`, `UnreadIsLast`, `FrameInHandHolds` | all | below |
| `SetupLowersHolds`, `LossLowersHolds` | all | ranks, below |
| `SinkMemoryProofs!MappingBacked` | `StatTells` | what is mapped was compared with the size of the file |
| `NoneOverwritten`, `InPlace` | all | below |
| `EnoughIsEnough` | all | what is taken never exceeds the sum over the buffers, so none is refused |

The conditions are on behaviours, not on the constants that switch a fault off:
a theorem says what holds as long as the fault does not occur, also where it
may. `PromptStart`: main never comes past a thread that has yet to take its
first step. `CreateSucceeds`: no `pthread_create` fails. `NothingSkipped`: no
failure leaves a source session by a return that bypasses `destroy_ctx`.
`LengthKept`: the freed message of lp_write.c:668 still has its length.
`StatTells`: `lpShouldTruncate` decides by the size the file has. With the
constant set as in the runs each holds by itself, which the lemmas
`PromptWithoutSlowStart` (one in each program), `CreateWithoutFailure`,
`NothingSkippedWithoutEarlyReturn`, `IntactKeepsLength` and
`StatWithoutFailure` show. Section 6 says what happens without them.

`FrameRelay!IInv` is needed because an acknowledgement has no number. That it
belongs to the request being awaited is true only since there is one request at
a time anywhere (`OneRequest`), it names the buffer awaited (`RequestCurrent`),
nothing stays in a channel nobody reads (`ChannelsDrained`) and nothing follows
a disconnect (`ByeIsLast`). `FramesOrdered` adds that serials grow along the
path: what is written is no older than what was fetched before the write
before it (`known`), and so the screen goes back only when the host has put
newer pixels than that into a buffer before it was sent (`overran`), after
which the next, unspoilt, buffer may be the older one.

`LgmpSession!IInv` is needed because the functions that set a session up return
0 whether or not they did. What tells a session from a failed one is only
`state`, and only since whoever waited for a host has set STOP
(`WaitedMeansStop`) before the attempts run out (`AttemptsLeft`), so that the
loop ends with RUNNING only when it bound a session (`BoundOnTheWay`). While a
sink is served nobody changes the state without leaving (`ServedMeansRunning`),
which is why the cursor thread of a session meets an unread message in its
tear-down only. A thread that was left behind has no such assurance: the next
session sets STOP while it waits for the host (lp_retrieve.c:109).

`SinkThreads!IInv` ties the flag main tests to the thread its handle names: a
thread that runs has set T_RUNNING (`FlagTruthful`) and the handle is current
(`HandleIsCurrent`). From the shutdown on the state is never RUNNING again
(`StoppedForGood`), and that alone keeps a thread that was created on freed
memory from it (`UntouchedOnceFreed`): it turns back at its first test.


`CursorQueue!IInv` compares three ages. What is under way is newer than the
thread's buffer (`UpdatesInOrder`), which is newer than all that was ever
copied; an entry is never newer than the buffer it names (`EntriesFresh`), since
whatever overwrites that buffer is newer still. Images are queued in order and
the one owed is the last (`ImagesInOrder`), so reading it leaves none behind
(`OwedIsLast`).

`SinkMemory!IInv` says that every layout is made by the same rule (`Regular`)
until there is no room or no need (`LayoutComplete`), so the second one agrees
with the first as far as it has come (`Again`): a frame that was asked for
before the memory was zeroed still has its buffer. That it may run a page past
the end of that buffer without harm is because the buffer is the last
(`Requested`).

`EnoughSuffices` is the counterpart of a finding (`DefaultSuffices`, section 6):
the default size has room for less than it must hold, one with room for LGMP,
the user data, every buffer of the cursor and each frame with a page to align it
by is enough, for every display, at the start and whenever the host is made
anew. `sink_memory` checks it, `EnoughIsEnough` proves it.

### The two refinements of SoleWorker

They are one promise kept in different ways. The sink's main replaces a
thread in the middle of a session and needs `PromptStart` for it: the flag it
tests must be the old thread's. It also creates one whose memory is gone, which
is why a worker there is a thread at work, not one that exists: each round
begins with `Start`, at the test of the state, and ends with `Finish`, and all
that a thread does in its set-up and its end is a stutter. The source's main
joins before the session's end, on every way but those `NothingSkipped` rules
out, so threads of any speed will do; there the creation of a thread is `Start`
and only its last step `Finish`. A crash is `Finish` in both.

### The safety halves of the liveness properties

Only model-checked are the ten liveness properties (`RequestAnswered`,
`PeerGone`, `FlagHeeded`, the two `JoinEnds`, `DisconnectHeeded`,
`ErrorEndsSession`, `SettlesOnLast`, `SetupEnds`, `HostGoneEndsSession`): the
prover has no support for fairness or ENABLED, so that nothing enabled stops
being taken stays with TLC. That nothing goes round in circles or is taken back
is proved, for all constants, as an action property with a rank that steps of
those who must act lower and no step of anybody else raises:

| Liveness property | Theorem | Rank |
|---|---|---|
| `FlagHeeded` | `FlagLowersHolds` | `FlagRank`: two steps of the sink |
| `PeerGone` | `BreakLowersHolds`, `BreakEndsSourceHolds` | `BreakRank`: `KeepAlivePeriod + 1` steps of the sink, if its receive is posted; the source's next step but for its own queue |
| `JoinEnds` (sink) | `StoppedThreadsWindDown` | `StepsLeft`: six steps of each thread, for any number of them |
| `DisconnectHeeded` | `DisconnectRemembered` | no rank: the stop is never forgotten |
| `JoinEnds` (source) | `JoinedThreadWindsDown` | `StepsLeft`: seven steps of the thread |
| `ErrorEndsSession` | `ErrorHeeded` | `EndRank`: six steps of main |
| `SettlesOnLast` | `CatchUpHolds` | the number of entries older than the last position |
| `SetupEnds` | `SetupLowersHolds` | `SetupRank`: `MaxRetry + 3` steps of main |
| `HostGoneEndsSession` | `LossLowersHolds` | `LossRank`: six steps of main |

`RequestAnswered` has none: a source that resubscribes or passes over repeated
frames may do so for as long as the host goes on, and that the answer comes is
fairness alone. Its safety half is that the request is never lost, and is
nowhere twice (`NoRequestLostHolds`, `OneRequestHolds`).

## 5. Not modelled

* Logging, the conversion tables, the build: no state, no decisions.
* The encoding of messages (`lp_msg.pb-c.*`, generated by protobuf-c, and the
  calls of it): a message arrives as what was sent.
* The negotiation of addresses and the memory registration inside libtrf; the
  points where they can fail are actions.
* `lpParsePollString` beyond the sign of what it returns, which is `Sync`.
* A buffer that is half written: the host fills one in one step, so that
  `framebuffer_wait` giving up (lp_source.c:486) is not told from a frame sent
  before or after; a torn copy of a cursor.
* Threads that ended without being joined are not counted: after a
  reinitialisation one is started and ends in every idle round (lp_sink.c:294).
  `StoppedThreadsWindDown` shows for any number of them that they do end.
* The sessions a source serves beside a thread that an early return left behind,
  beyond what they may do to the variables that thread reads (`NextSession`).
* The source's half of `lpDestroyContext`, which runs when nothing else does.

## 6. Findings

With a run that shows them:

* `relay_wait`: the wait at the head of `lpRequestFrame` (lp_write.c:294) never
  ends when the client died on a full queue.
* `relay_stale`: the buffer that is sent (lp_source.c:425) is that of the frame
  before the one fetched for the request: the screen is a frame behind, and
  shows what the host has put there since.
* `sink_slow`: a cursor thread slow to set T_RUNNING (lp_write.c:527) is
  started twice; one of the two outlives main.
* `source_stale`: T_ERR of one session (lp_source.c:680) ends the next.

Seen by changing a constant or a property of a run, or as an outcome that an
action has, without a run of their own:

* `FramesNeverGoBack` without its exception, with `MaxFrame = 4` and
  `SerialMod = 5`: after a buffer was filled again before it was sent, the next
  frame sent is an older one.
* `GivesBackWhatItTook`: the second `lgmpClientMessageDone` for a frame
  (lp_source.c:524) gives back a frame nobody has read.
* `QuitsForCause` with `MayZero = TRUE`: after a reinitialisation that
  succeeded the state is still RESTART (lp_write.c:482), and the next request
  ends the sink.
* `QuitsForCause` with `Sync = TRUE`: 100 ms without a message end the sink
  (lp_sink.c:404), because `lpPollMsg` returns -ETIMEDOUT and not -EAGAIN.
* `RewoundWhileAwaited` with `Sync = FALSE`: a buffer is marked complete on
  every empty poll (lp_sink.c:377) before its frame is there.
* `NoRequestLost` and `RequestAnswered` without their exceptions, with
  `CallMayFail = TRUE`: an acknowledgement that could not be sent
  (lp_source.c:534) or a receive that could not be posted again
  (lp_sink.c:424) leaves the sink waiting with the connection up, for ever.
  With the receive missing it does not learn of a broken connection either,
  which is the exception in `PeerGone`.
* `StartedMeansJoinable` with `CreateMayFail = TRUE`: lp_write.c:509 tests a
  positive error for being negative.
* `SessionCleaned` and `ChannelInUse` with `EarlyReturn = TRUE`: the returns of
  lp_source.c:329-473 leave the cursor thread to the next session.
* `JoinEnds` of `SourceThreads` with `SlowStart = TRUE`: T_RUNNING
  (lp_source.c:570) overwrites T_STOP (lp_source.c:550).
* `ImageIsReal` with `FreedIntact = FALSE`: lp_write.c:668 reads freed memory.
* `HostGoneEndsSession` without `EndedSilently`: a cursor thread whose
  keep-alive failed is gone without T_ERR (lp_source.c:633), and a session whose
  sink asks for no frame outlives its host.
* `UnreadOnlyInTearDown` without `left`: a thread left behind by
  lp_source.c:466 reads a message nobody received (lp_retrieve.c:329) while the
  next session is set up or served.
* `CursorCrash` of `SinkThreads`: main, which tests the state before a disconnect
  and the thread's flag after it (lp_sink.c:288-294), starts a thread on the
  destroyed subchannel (lp_write.c:526, 544).
* A thread is created after a failed `lpInitHost` (lp_write.c:257-271): `Alive`
  in place of `AtWork` in `Working` violates `ImplementsSoleWorker`. It does no
  harm, since it turns back at its first test of the state.
* `ZeroMeansSuccess` of `LgmpSession`: lp_retrieve.c:54 and :184 return 0 for
  failures, lp_retrieve.h:45 says they do not; main then crashes.
* `DefaultSuffices` of `SinkMemory`: the size computed for 1680x1050 has no
  room for the second frame buffer, although the user guide leaves the size to
  the system (docs/user/running.rst:43). `EnoughIsEnough` says what would be enough.
* `MappingIsBacked` with `StatFails = TRUE`: lp_utils.c:138 goes on with what
  was on the stack.
* Correcting only the ring index of lp_write.c:292 (`NextIndexRing`) would make
  a frame's last page overwrite the buffer behind it (lp_write.c:364).

## 7. Plan

Done: the components above with their theorems, the thread life cycle both
programs implement, and the safety halves of the liveness properties. Left, in
order:

1. An abstract cursor that `CursorQueue` implements, proved.
2. Sink and source composed: one disconnect seen by both main loops and both
   cursor threads.
