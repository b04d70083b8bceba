# WedLit in TLA+

WedLit plays light animations on a set of wireless nodes (an ESP8266 and an LED
strip each) from a controller (a Raspberry Pi), in time with a song.  A phone
connects to the controller over TCP and asks for an animation by its name.  This
directory holds models of the parts that decide *what is played when*, the TLC
runs that check them, and TLAPS proofs of what matters most about them.

Paths below are relative to the repository: `src/` is the controller,
`inc/` holds its headers, `firmware/src/` is the node.  (In `PROJECT.json` they have one more `src/` in front.)

Run a model with `tlc -config X.cfg M`, a proof with `tlapm M_proofs.tla`.

## 1. The system

    phone --TCP--> Server/Connection --> Commands (worker thread)
                                            |
                                            v
                                    AnimationController ---> Player2 (audio thread)
                                      |  play thread
                    BaseAnimation <---+---> NodeController <--- discovery thread
                                              |        |            ^
                              TCP in/keys/en/ch/cl/of  |            | datagram of a
                                              |   UDP broadcast     | node that booted
                                              v        v            |
                                            node     node   ...   node

| component | state | operations | interacts with |
|---|---|---|---|
| **BaseAnimation** `src/BaseAnimation.cpp` | key lists per channel, `keyframePositions_`, `started_` | `getNKeys` (next page), `getFirstKeyout`, `reset`, `init` | read by the play thread |
| **Keyframes** `firmware/src/Keyframes.cpp` | linked list `first`/`last`/`internalSize` | `insertKeyframe`, `removeFirst`, `clearAll` | the list a node plays |
| **Node firmware** `firmware/src/main.cpp` | `currentState`, `channel_id`, `k1`, `k2`, `startTime`, `timeDrift`, the list | UDP and TCP commands, key packets, `generateFrame`, `setup` | `loop()` calls one after the other |
| **Player2** `src/audio/Player2.cpp` | `playing_`, `stop_`, `lock_`, `cond_`, `bck_`, device and decoder | `play`, `stop`, `waitForFinish`, destructor, audio thread | called by play thread and worker |
| **Drift correction** `NodeController::correctDrift`, `Node::sendSyncRequest` | pairs (offset, round trip) | four requests to one node, one correction to all | `"ss"` and `"tp"`/`"dd"` datagrams |
| **AnimationController, Commands** | `playing_`, `animation_`, `audio_`, `play_thread_`, `appContext.anim_controller` | play, stop, replace, destroy | worker, play thread, audio thread |
| **NodeController registry** | `nodeIdToNode_`, `channelMap_`, `channelToNodes_` | `setChannelMap`, `setAllToChannel`, `setChannelAuto`, `sendInitialKeys`, `removeDeadNode`, discovery | play/worker thread and discovery thread, without a lock |
| **KeyframeData** | a byte buffer | layout of a page of keys | built by NodeController, parsed by the firmware |
| **Upload and streaming** | (all of the above) | upload over TCP, pages over UDP, each early by a reserve | controller, network, several nodes |
| **Server, Connection, WedLit main** | `conn`, `socket_`, worker thread, `done`, `exitReq` | accept, refuse, run commands, shut down | gives Commands its thread |
| **TcpSocket, UdpSocket** | a descriptor and `valid_` | connect, accept, send, receive with timeouts, close, move | |
| **Animations, AnimationFactory** | none after construction | fill the key lists | |
| **Blender exporters** | a file | write the keys of a scene | read by FileAnimation |
| **Android app** | – | one connection and one command per tap | a phone of Server |
| **Player** | – | predecessor of Player2, unused | |
| **uploader, tools, tests, spdlog** | – | around the program, not in it | |

What is hard in it:

- *Threads without locks*: `playing_`, `stop_` and the three maps of
  NodeController are shared by two threads and guarded by nothing; the one lock of
  Player2 is a temporary.
- *Indices that mean two things*: `keyframePositions_` is "next to send" before
  the first page and "last sent" after it; unsigned subtraction everywhere.
- *Pointers into a list that is freed while it is played*: `k1` and `k2`.
- *Datagrams* that are lost, late or repeated, TCP messages that arrive in parts,
  nodes that reboot in the middle of anything.
- *Loops over nodes in which any call may fail* and must remove the node from two
  maps, one of which is being looped over.
- *Clocks* of two machines, 32 bits wide, corrected while a run is played.
- *Time*: every page has to reach nodes before they run out of keys, with a
  reserve that is fixed by the first page and eaten by everything that goes wrong.
- *Descriptors* that are copied when a socket moves, and a stack variable that a
  thread is given by address.
- *Layouts* that a Python script, the controller and a node must agree on, with
  counts of 8 bits and offsets of 16.

Each such place is listed in `PROJECT.json` under "hazards" at its line, with the
properties that would catch it going wrong.  What correctness means for each part:

- BaseAnimation: a reader gets every key of every channel once and in order, and is
  told that it has all when it has all.
- Keyframes: a queue ordered by time; no cell lost, none used after it is freed.
- Node: the play head is on the list while it plays, frees nothing that is still to
  be played, and the run ends.
- Player2: outlives its thread, is ready when `play()` returns, ends when stopped.
- Drift: a corrected node is in time up to half of the shortest round trip.
- Playback: one animation and one song at a time, every command returns, a stop is
  final, nodes play the keys of the current animation.
- Registry: lists hold known nodes, a node is in one list, devices are on the
  channel of their list, remaps reach every node, uploads leave nobody behind.
- KeyframeData: writes stay in the buffer; a node reads the keys of its channel.
- Upload and streaming: what was exported is what the nodes get; a show without
  faults is played whole, one with faults has gaps and nothing worse, all end.
- Server: a descriptor has one owner and none is lost, a phone cannot block the
  others, commands run or are refused, the program ends.

## 2. Modules and the code they stand for

| component | model | abstract specification | instance | proofs |
|---|---|---|---|---|
| BaseAnimation | `BaseAnimation` | `KeyCursor` | `MCBaseAnimation` | `BaseAnimation_proofs` |
| Keyframes | `Keyframes` | `KeyQueue` | `MCKeyframes` | `Keyframes_proofs` |
| Node firmware | `Firmware` (built on `KeyQueue`) | – | `MCFirmware` | `Firmware_proofs` |
| Player2 | `Player2` | `Song` | `MCPlayer2` | `Controller_proofs` |
| Drift correction | `Drift` | – | `MCDrift` | `Controller_proofs` |
| AnimationController, Commands | `Playback` | – | `MCPlayback` | `Playback_proofs` |
| Registry | `Registry` | – | `MCRegistry` | `Controller_proofs` |
| KeyframeData | `KeyframeData` (on `Bytes`) | its argument, `chKeys` | `MCDelivery` | `Delivery_proofs` |
| Animation files and the circle | `AnimFile` (on `Bytes`) | – | `MCDelivery` | `Delivery_proofs` |
| Upload and streaming: the data | `Delivery` = `BaseAnimation` + `KeyframeData` + `AnimFile` | – | `MCDelivery` | `Delivery_proofs` |
| Upload and streaming: the time | `Streaming` on `BaseAnimation` | – | `MCStreaming` | `Streaming_proofs` |
| Server, Connection, TcpSocket | `Server` | – | `MCServer` | `Server_proofs` |

Composition: `Delivery` and `Streaming` INSTANCE `BaseAnimation` and take its
`GetNKeys` as part of their own steps, and `Delivery` EXTENDS `KeyframeData`, whose
constructor it runs step by step between two pages.  `Firmware` holds a
`KeyQueue`, which `Keyframes` is shown to implement.  `Playback`, `Registry` and
`Drift` each take one side of the same threads: who may run, which nodes are
reached, how their clocks are set; `Server` gives `Playback` its one worker.

The operators whose names say what they leave out (`AssignWithoutJoin`,
`LoopIgnoringStop`, `SyncRequestLostOnceMore`, ...) are no part of a
specification: they are plausible slips of the code, defined next to what they
would replace, and for each property one of them is known to break it.

**BaseAnimation.**  `data`, `keyframePositions`, `started` are the members;
`GetNKeys(n)` and `Reset` the methods; `sent` is a history of what a caller was
given.  A key is its time.  `Minus` is subtraction of `size_t`: it wraps at
`SIZE_MAX + 1`, and a key read outside the vector is `Garbage`.  The abstract
`KeyCursor` only counts the keys delivered per channel; `Delivered` maps the
three-way encoding (index to send, index sent, END) to that number.

**Keyframes.**  The heap is a set `Cell`; `next` and `time` are what the cells
hold, and a cell handed out again is one of those that are free.
`InsertKeyframe(t)`, `RemoveFirst` and the steps of `clearAll()`, whose loop
counts `clearing` down, follow the pointer assignments; an insertion that is
dropped because its time is older is a step that changes nothing, and the one at
an equal time is accepted, as in the code.  `chain` is a history variable: the
cells in the order they were inserted.  `KeyQueue` is the queue this implements.

**Firmware.**  `keys` is the list (a `KeyQueue`), `k1` and `k2` positions in it
counted from its front: a position below 1 would be a freed key.  Every command
is a disjunct of `UdpCommand`, `TcpCommand`, `TcpSetChannel`, each with the
states in which it is accepted.  A key packet is parsed one key per step
(`ParseKey`), since its loop yields to the network stack; `pending` keeps the
other handlers out, as the single loop does.  `GenerateFrame` is a frame: it is
drawn between `k1` and `k2` (`DrawFrame`), or the do-while loop is entered
(`NextKey`), goes on from key to key and frees them (`SkipKey`), and ends at a key
(`DrawNextFrame`) or at the end of the list (`EndOfKeys`, which ends or wraps
round); `skipping` keeps the handlers out meanwhile, and `moved` remembers that the
loop has run since the first frame.  `Garbage` stands for what
`client.read` leaves in an uninitialised or stale buffer when bytes have not
arrived.  `Reboot` may happen at any time.

**Player2.**  `owner` and `bck_` are the program counters of the caller and of
the audio thread; one step per access of something shared.  `cond_.wait` is
split where it can be interrupted: test, atomically sleep and unlock, be woken
with or without a reason, lock again.  `Song` says what the rest of the program
uses of it.

**Drift.**  A node's clock is `skew + timeDrift` away from the controller's.
`SyncRequest` has any delay up, any work, any delay down; `SyncRequestLost` is
the 250 ms timeout; `CorrectDrift` chooses the pair with the smallest unsigned
round trip, the first of equals, and tells any subset of the nodes.

**Playback.**  `worker`, `play[c]` and `song[c]` are the program counters of the
worker, of `internal_start()` and of the audio thread of controller `c`.  A step
is what happens between two accesses of `playing_`, `stop_` or the nodes.  The
nodes are one node behind a perfect network, reacting as in Firmware.  `Player2`
appears as a song that sounds and ends, and its `play()` returns (see the finding
in section 5).  `NodesRunOut` may not happen while the controller has a page to
send: that the pages come in time is assumed here, and is what `Streaming` is
about.  `hasty` says of the last play command only whether it came before all was
quiet: `NodesPlayTheCurrentAnimation` promises nothing between such a play and the
next one that does not.

**Registry.**  A remap or an upload is a loop: `op` says which, `todo` holds the
nodes to visit, `removeList` those that failed.  A network call is one step, and
so are the statements from it to the next one; a call is taken, ignored by the
device, or fails.  `remakeChannelToNodes()` clears the lists in one step and then
takes one for each entry of the map (`ListNode`, with `remaking`).  Discovery is
three steps: the call (`Discover`) and the insertions into the two maps, of lines
351 (`InsertChannel`) and 352 (`InsertNode`).  So a node can appear in the middle of
a loop, which may or may not meet it (`newcomers`), and the clear of a map can fall
between its two insertions.  The properties name the nodes that lose by that:

- `late` are those of which one insertion was done when the remap cleared the map
  of channels, or came while it rebuilt the lists.  Such a node may end up known, on
  a channel or on none, and in no list: it gets no keys until the next remap.  In
  the code this is so, and `EveryKnownNodeIsListed` promises nothing of it; without
  the exception TLC finds the race in eight states.
- `raced` are those inserted anywhere in the remap: `ListedNodesAreOnTheirChannel`
  promises nothing of them, since `insert()` of one thread keeps the channel of the
  other.

`channel_id` and `receiving` are the devices' own state, and `Boot` resets it.

**Bytes, KeyframeData.**  A byte knows which value it belongs to and which part of
it it is, so a read yields the value if and only if it takes exactly its bytes;
values stay opaque.  `Count` is the pass that sizes the buffer, `WriteIndex`,
`CopyKey` and `EndList` the pass that fills it, with the index of each channel's
keys taken modulo the widths of `uint8_t` and `uint16_t`.  `ReadPage` and
`ReadSingle` are the two parsers of the firmware, with their offset arithmetic.

**AnimFile, Delivery.**  `Save` is what `ext2.py` leaves in the file, table written
last at offset 1; `Load` reads it front to back as `FileAnimation` does, and
`Positions` is where it is in the file before each channel.  An
animation of type SINGLE comes from a file, one of type CYCLE is the circle.
`Delivery` then follows the play thread: a page of the first keys per channel,
`Split` into packets of the upload, pages of all channels in one datagram after
that, until the keyout is `KEYTIME_MAX`.

**Streaming.**  `now` counts from `startTime`; a node's elapsed time is `now +
ahead`.  `Loop` takes a page and the time to sleep (half of the first keyout, then
the differences), `SendKeys` sends it when that time is over.  A datagram is in
`air`, a list for each node in the order of sending, until it arrives, within
`MaxDelay`, in any order, or is lost.  `Tick` is one
unit of time with a frame on every node; it may also pass while the thread does
not sleep (the 200 ms before the drift correction, its four round trips, late
wake-ups), which `lag` counts.  `shown` is the history of keys a node came to.

**Server.**  `main` and `worker` are the program counters of the two threads, and
each of `tmpConn`, `conn` and `socket_` is a descriptor with its `valid_` flag.
`file` is the kernel's table of descriptors.  `Receive`, `ReceiveEnd`,
`ReceiveHangup` and `ReceiveTimeout` are the outcomes of `recv()`, among them the
one where `POLLHUP` clears `valid_` without closing.  A signal may come at any
moment and may end a `poll()` of either thread.  When `exec()` returns before the
worker has taken `conn`, the worker reads destroyed memory (`raced`): it finds the
old value or a dead socket.

## 3. The runs

| run | question | bounds | distinct states | result |
|---|---|---|---|---|
| `paging` | is anything lost, repeated or made up at a page boundary; does the streaming loop end when it should | 2 channels, 1–4 keys, every non-decreasing choice of times 0–2, pages of 1–3 | 5 329 | holds |
| `keyframe_list` | are the pointers right after any sequence of calls | 4 cells, 3 times | 68 445 | holds |
| `node` | where may the play head be; does every run end | up to 4 keys, times 0–2, clock modulo 6, frames up to 2 late, corrections 0, 1, –1 | 64 236 | holds |
| `player2` | thread and player lifetime, readiness, refinement of `Song` | none: whole state space | 148 | holds |
| `player2_lost_wake_up` | does `play()` return | none | – | violated |
| `drift` | how far off is a corrected node | 2 nodes, 4 skews, delays 0, 1, 3, 3 requests | 459 208 | holds |
| `playback` | exclusion of animations and songs, stops, which keys the nodes play, termination | 4 plays, up to 2 updates each, any number of stops | 107 546 | holds |
| `playback_stop` | does a stop stop | 1 play, 1 update | – | violated |
| `registry` | lists, channels and uploads under failures and discovery | 3 nodes, 2 channels, 1 boot, nodes interchangeable | 5 458 862 | holds |
| `server` | owners and leaks of descriptors, the worker slot, the end of the program | 3 phones, 2 descriptors, a backlog of 1, any number of signals | 387 967 | holds |
| `delivery` | do a file's keys reach the nodes of their channels, at the limits of the widths | 3 channels, 1–8 keys, uploads of 5, pages of 6 in all, counts modulo 7, offsets modulo 55 | 16 415 | holds |
| `streaming` | do pages come in time; what do losses and stops leave | 2 channels, 4 pairs of rhythms, delay, error, lag and losses of up to 1 | 585 895 | holds |

Why the bounds are enough to be of interest:

- *paging*: a page may be larger than, equal to, or smaller than what is left of a
  channel; one channel may end while the other goes on; keys may have equal times.
- *keyframe_list*: four cells let the list be emptied, refilled with recycled cells
  and hold a middle cell while another is inserted.
- *node*: the clock wraps, frames skip over several keys, keys of equal times occur
  next to each other, a list of 0 or 1 key can be told to play, and a packet can
  arrive for a channel the node is not on.  `MaxKeys` only bounds how many keys are
  inserted.
- *drift*: asymmetric delays of 3 ms exceed the tolerance of 1 ms; offsets of both
  signs exercise the division that rounds towards zero.
- *playback*: a play that races with the one before it (`hasty`), one that replaces
  it, and one that comes after all is quiet again need three plays; two updates
  make the streaming loop go round.
- *registry*: three nodes over two channels are shared out unevenly; loops over an
  arbitrary part of them have been interrupted by a failure and by the newcomer,
  whose two insertions fall before, after or on both sides of any step of a remap.
- *server*: one phone is served, one is refused or takes over, one waits in the
  backlog; with two descriptors one leak exhausts them, and the lowest number is
  given out again at once.
- *delivery*: uploads of 5 are split into packets of 2 with a remainder, shorter
  channels into packets with none; pages are full, partly full, and empty for a
  channel that has ended; `MaxKeysOnUpdate` is the largest that counts modulo 7
  can hold, and the last byte of the last page is at offset 53 of 55.
- *streaming*: the channels' rhythms are even, in bursts, sparse, and late, so that
  each of the two comes to be the one that paces the pages; one unit of each fault
  is as much as the reserve of these animations bears, and more than it bears.

The reserve.  `ShowIsComplete` promises a whole show as long as

    lag + MaxDelay + ahead <= reserve,    reserve = ceil(first keyout / 2)

that is: the time the play thread was held up, the longest delay, and the lead of
the node's clock together do not exceed the half of the first keyout by which every
page is early.  The bound is sharp: with `reserve + 1` TLC finds a node that runs
dry.  In the code, with 200 ms before `correctDrift()` and up to four time-outs of
250 ms in it, this asks the uploaded keys to last for about 2.4 seconds and more.

Deadlock is not checked where the system comes to rest: in `drift` (the correction
is made), `player2` (the player is gone), `playback` (the plays are used up),
`server` (the program has ended), `delivery` and `streaming` (the show is over), nor
in `paging`, where a reader that is done stutters at END.

### Fairness

- `Firmware!FairSpec`: weak fairness of parsing, of time and of frames: `loop()`
  comes round for ever and has no blocking call that is modelled.  Nothing is
  assumed about messages.
- `Player2!FairSpec`: weak fairness of both threads where they do not wait for a
  caller's decision, strong fairness of taking the mutex.  Nobody has to destroy or
  stop a player, and a spurious wake-up may never come.
- `Song`: only a stopped song must end.
- `Playback!FairSpec`: a command that was given is run (weak fairness of the worker
  while it is not idle), play threads run, songs and keys come to an end.  No command
  has to be given.
- `Server!FairSpec`: weak fairness of each of the two threads.  Nothing is assumed
  of phones or signals: `accept()` may wait for ever, and so may `recv()` go on
  timing out.
- `Delivery!Spec`: weak fairness of `Next`, which is one thread.
- `Streaming!Spec`: the play thread runs, time passes, and what is not lost arrives.
  Losing is never forced, nor is a stop.

## 4. What is proved

For every value of the constants, from the assumptions named in each module:

| theorem | states | holds because |
|---|---|---|
| `BaseAnimation_proofs!PagingIsExact` | `NothingLostOrRepeated` | `IInv`: types, `Positions` (an open channel's index points at the last key sent and leaves at least one), and the property itself |
| `…!KeyoutIsExact`, `KeyoutsGoForward` | `KeyoutEndsWithTheLastKey`, `KeyoutNeverGoesBack` | the keyouts of open channels are times, a set of them has a least one (the natural numbers are well-founded), and a page moves each on in its sorted channel and opens none |
| `…!CursorRefinement` | `ImplementsCursor` | every page moves the mapped cursor by n or to the end |
| `Keyframes_proofs!PointersAreRight` | `ListIsSound` | `IInv`: the pointers describe the history `chain`, the cells outside it are free, and `ClearingCountsDown`: during a `clearAll()` the loop counter is the length of the list |
| `…!ListIsInOrder`, `ClearAllClears` | order, and the cleared list | the same |
| `…!QueueRefinement` | `ImplementsQueue` | the times along `chain` are the queue |
| `Firmware_proofs!PlayheadIsSafe`, `KeysStayInOrder` | play head on the list, list in order | the two support each other, with the types, in `IInv`; one lemma per handler |
| `…!DrawnKeysDiffer` | `DrawnKeysDifferOnceMoved` | `KeyLeftHasPassed`: while the loop skips, the key it has come from has passed, and the key it stops at has not; afterwards the two stay neighbours in a sorted list, whatever arrives or is corrected |
| `…!FreeingIsSafe` | `OnlyPassedKeysAreFreed` | from `IInv`: each pass of the loop frees `k1`, when `k2` has passed |
| `Controller_proofs!CorrectionIsPrecise`, `NothingIsLeftUncorrected` | `ToldNodesAreInTime`, `NoCorrectionIsNeeded` | `AnswersAreClose`: the offset of every pair is wrong by at most half its round trip and the rounding; the minimum is therefore as good as any pair that counted |
| `Playback_proofs!PlayThreadsExclude`, `SongsExclude` | `OnePlayThread`, `OneSong` | `OnlyOne`: wherever the worker is, a controller that is neither the current one nor the one being destroyed has no thread and no song, and the current one has none until the old one is joined |
| `…!StopsAreObeyed` | `OneLateUpdate` | `LateOnce`: a thread that sent a page after the stop is past its last test of `playing_`, and nothing sets that again; `Fresh`: a controller has done nothing before it is started |
| `…!QuietPlaysAreClean`, `StopsAreFinal` | `NodesPlayTheCurrentAnimation`, `StopIsFinal` | `Settled`: for each place of the play thread, what the nodes do and hold; `Stopped`: a stop that hit came after the broadcast |
| `Controller_proofs!ListsHoldKnownNodes`, `ListsAreDisjoint` | `ListedNodesAreKnown`, `OneListPerNode` | `Members`: a loop's nodes are listed or known as the loop needs it; `Rebuilt`: while the lists are rebuilt a node is in the list of its channel |
| `…!RemapsListEveryNode` | `EveryKnownNodeIsListed` | `Mapped`: in the middle of a remap a known node that is not `late` is mapped or still to be visited, and so is one of which only the channel is inserted; when the lists are rebuilt it is mapped, and listed or still to be visited |
| `…!ListedNodesAreTuned` | `ListedNodesAreOnTheirChannel` | `Told`: a node that is mapped and took its call is on that channel |
| `…!UploadsAreEnded` | `NoKnownNodeIsLeftReceiving` | `Received`: a receiving node is still to be visited, failed, or missed a call |
| `…!PlayerOutlivesThread`, `ReadyWhenPlayReturns` | `PlayerOutlivesItsThread`, `PlayReturnsAfterTheThreadIsReady` | `PlayerInv`: for every place of the caller and of the audio thread, which flags, which device and whose thread there are |
| `…!PlayerIsASafeSong` | the safety of `PlayerIsASong`, `Song!SafeSpec` | under `PlayerInv` every step of the two threads is a step of the song or none |
| `Delivery_proofs!BufferIsBigEnough`, `SentPagesFit` | `WritesStayInTheBuffer`, for any pages and for those of the program | the keys counted before each channel (`first`) are the index at which that channel's keys are written, and never decrease |
| `…!PageIsReadAsWritten`, `SentPagesAreRead` | `NodesReadTheirKeys`, likewise | what is written is not written over: indexes and keys of different channels lie in different ranges, and no width wraps for a page within the limits |
| `…!FilesRead` | `FilesAreReadAsWritten` | the place before channel c is the table and seven bytes for each key written before c, by induction over the channels |
| `…!DoneMeansDelivered` | when the play thread is done, each node has inserted what was handed out for its channel, and all of it after a SINGLE: the safety half of `EverythingArrives` | `Arrivals`: what was handed out is what was inserted and what the packets not yet sent hold (`OnItsWay`) or, between two pages, what is in the buffer; and the keyout is `KEYTIME_MAX` only if all was handed out |
| `Streaming_proofs!LossesLeaveGapsOnly` | `LossLeavesGapsOnly` | `ShowInv` (types, the pace of the thread, what kind of datagram may be where) and `GapsInv`: what a node has shown, what it holds, what each datagram on its way carries and what is not sent yet have no key in common, and the first two increase |
| `…!FlawlessShowsAreComplete` | `ShowIsComplete` | `CompleteInv`: as long as the show is flawless, the keys handed out are cut into what was shown and held and what the datagrams carry, in this order, and each datagram was sent at least the reserve that is left before its first key is due; `Pace` says how much that is |
| `Server_proofs!DescriptorsHaveOneOwner` | `OneOwner` | `HandedOver`: wherever the two threads are, which of the three sockets may be valid |
| `…!OnlyResetsLeak` | `NothingLeaks` | every way a socket becomes invalid closes it or moves it on, but for the hang-up of a reset phone |
| `…!AcceptingGoesOn` | `AcceptorNeverWaits` | `SlotIsFree`: `done` and where the worker is go together |
| `…!TheEndIsPrompt` | `ExitIsPrompt` | `Ending`: where the two threads were at the signal bounds what they still begin |

and the types of BaseAnimation, Keyframes, Firmware, Playback, Registry, Server
(`TypeCorrect`), Drift (`DriftTypeCorrect`) and Player2 (`PlayerTypeCorrect`).  Types are proved and not checked again by the runs.  None of the
invariants is inductive alone: `NothingLostOrRepeated`, for one, needs to know that
an open index lies below the last key, since otherwise a page would wrap; and
`OneOwner` that a worker that has started has taken `conn` before the next
connection is put there.

Assumptions: `AnimationAssumption` and `NonEmptyChannels` (each channel has a key:
"any animation" leaves out those with an empty channel, of which section 5 says what
happens to them; so do `Delivery` and `Streaming`), `TimeAssumption`,
`FirmwareAssumption` (packets and garbage are keys, whatever their times;
corrections are taken modulo W), `DriftAssumption` (there is a node; delays and
work are natural numbers; the results speak of the pairs that the unsigned
comparison counts), `PlaybackAssumption`, `RegistryAssumption`, `ServerAssumption`
(descriptors are positive numbers), `KeyframeDataAssumption` (there is a channel, and
the widths hold a full page), `DeliveryAssumption` (exported channels are sorted, and
those without a key are left out; fewer channels than a page has keys; an upload packet holds fewer keys
than its byte can count) and `StreamingAssumption`.  `LossesLeaveGapsOnly` has the
hypothesis `KeysApart`, that no two keys of a channel are at one time.  The exporter
writes one key per point of a curve, and a sampled curve has one point per frame; two
points closer than a millisecond would get one time, and the hypothesis excludes them.

The induction that recursive functions need (`Positions`, the folds behind
`FlattenSeq` and the insertion of a page) is made in the proofs with a least
counterexample, `LeastNumber`, which follows from the well-foundedness of the
natural numbers: the function is the `CHOOSE` of one that satisfies its equation
up to n, and a smallest n without one does not exist.

Only model-checked:

- everything that must eventually happen (`EveryRunEnds`, `EveryCommandEnds`,
  `EveryCommandRunsOrIsRefused`, `SlotComesBack`, `ProgramEnds`, `EverythingArrives`,
  `ShowEnds`, the fairness that `PlayerIsASong` asks for): liveness is out of the
  prover's reach.  Every invariant and every action property that the passing runs
  check is a theorem.

## 5. Where code and comments disagree

Two disagreements are runs whose counterexample is a behaviour of the code:

1. *A wake-up is lost* (`src/audio/Player2.cpp:21`): the lock names no variable, so
   it does not cover `playing_ = true` and `notify_one()`; `play()` may wait for ever.
2. *A stop during the upload is overtaken* (`src/AnimationController.cpp:104`): the
   play thread sets `playing_` afterwards and the animation plays to its end.

Others were met while reading or in models that were changed to exclude them, and
no run is spent on them:

- *An empty channel is never flagged END* (`src/BaseAnimation.cpp:77`): its
  `size() - 1` wraps.  The comment at line 75 says it is flagged.  The case can be
  reached: `blender/ext2.py:99` gives every channel three curves without points,
  `process_keyframed` (line 205) returns no keys if the red one is left so, line 253
  writes the count 0, and `FileAnimation.cpp:31` accepts it.  After the first page
  `getFirstKeyout()` asks the empty list for `at(0)` (`BaseAnimation.cpp:134`), which
  throws in the play thread and ends the program.  The models leave such animations
  out: the runs have channels of one key and more, the proofs assume
  `NonEmptyChannels` or `DeliveryAssumption`.
- *A frame may be drawn outside its two keys* (`firmware/src/main.cpp:595`): only the
  later key is compared, although the comment above says "between k1 and k2".  A
  first key later than 0 or a negative correction is enough.
- *The best round trips are thrown away* (`src/nodes/NodeController.cpp:502`): an
  answer within the millisecond has the round trip –1, stored unsigned, while the
  comment at line 518 says that the pair with the minor round trip is taken.
- *The worker may take a destroyed socket* (`src/Server.cpp:63`): it is given the
  address of a local of `exec()`, which a signal can end before the worker runs.
  `Server` remembers it as `raced`, and `OneOwner` promises nothing after it.
- `firmware/src/Keyframes.cpp:11` says an older key is dropped; a key at an *equal*
  time is kept, so a repeated datagram makes two keys of one time.  The model
  keeps them.  `linearInterpool` divides by the difference of two times:
  `DrawnKeysDifferOnceMoved` shows that no frame is drawn between two such keys once
  the node has moved on from the first two of a run or a cycle.  The first two
  themselves are not safe: with equal times, `firmware/src/main.cpp:595` divides by
  zero, an exception that reboots the node (`DrawFrame`, `Reboot`), and nothing in the
  firmware or the exporter rules them out.
- `src/Commands.cpp:59` says a play is ignored while one is playing; one that comes
  during the upload is not, since `playing_` is set after it.  The model accepts it
  (`hasty` remembers such plays).
- `src/tests/KeyframeDataTest.cpp` expects keys of 8 bytes; `inc/BasicTypes.h` packs
  them in 7, and so do the firmware and the exporter.
- `src/tests/discovery.cpp` sends keys to discovered nodes, which are in no list
  before the next remap and so receive nothing.
- An animation of more than `MAX_KEYS_ON_UPDATE` channels has pages of 0 keys, and
  its streaming loop never ends; a CYCLE longer than `N_KEYS_ON_INIT` keys per
  channel is cut off there, since only the upload sends it.  The bounds of
  `Delivery` keep to what the built-in animations are.
- A channel with few keys gives the nodes of the others no work to do: each page has
  the same number of keys per channel, so a sparse channel is sent long before it
  is needed, and its node has to hold all of it.
- `src/nodes/NodeController.cpp:232` leaves a TODO: a node on a channel that the
  animation does not have would read an index beyond the page.  `Registry` maps
  nodes to channels of the animation only.
- The POLLHUP branch of `TcpSocket::recv` invalidates a socket without closing it;
  `NothingLeaks` says exactly which descriptors are lost by that.

## 6. What is not modelled

- *Colours, the LED strip, WiFi set-up, OTA, serial console* of the node: no
  control depends on them.
- *Nodes that boot during a show* are in `Firmware` and `Registry`; in `Streaming` a
  node that misses the start is one that lost the datagram.
- *Repeated datagrams* are not in `Streaming`, which loses and reorders them: a page
  that comes twice would have its last key taken twice if nothing newer came between.
  The filter for older keys is checked in `Keyframes`, and `Firmware` takes any
  packet at any time, repeated ones included.
- *A `Player2::play()` that never returns* (section 5) is not in `Playback`:
  `EveryCommandEnds` is about the joins and loops, given that it returns.
- *An `accept()` that waits for one more phone after the signal* is in `Server`, and
  `ProgramEnds` makes no promise there: it shows that the worker's time-outs, its
  join and the loop of `exec()` end once the main thread gets out of `poll()`.
- *Piecewise arrival* of TCP data is in `Firmware` (garbage), not in `Delivery`.
- *`NodeController::setChannel(nodeId, channel)`*: nothing calls it.
- *Rehashing* of the unordered maps when a node is inserted during another thread's
  loop: undefined behaviour; the model has fewer nodes than a rehash takes.
- *UdpSocket, and connecting and sending of TcpSocket*: their outcomes are choices
  in Registry, Drift and Streaming.
- *The end of the globals*: controllers and players are destroyed after `main()` has
  shut the audio library down; `Server` ends where `main()` does.
- *ThreeColorBasicAnimation, NullAnimation*: constant lists.  *Player*: unused.
- *The curves* that the Blender exporter samples, its earlier versions, the rest of
  the Android app, tools, uploader: user interface, offline scripts.
- *spdlog*: vendored, and more than half of the lines of C++ in the repository; no
  behaviour of the program depends on it.  Of the program's own lines, the map of
  `PROJECT.json` names about a third.

## 7. Plan

Done: KeyQueue, Keyframes, KeyCursor, BaseAnimation, Firmware, Song, Player2,
Drift, Playback, Registry, Server, Bytes, KeyframeData, AnimFile, Delivery,
Streaming, in this order, and a theorem for each of their safety properties.

What could come next: that `Delivery` and `Streaming` implement one abstract
channel from file to node, as theorems; a `Streaming` with nodes that boot and are
found again in the middle of a show, and with uploads that fail for some nodes.
