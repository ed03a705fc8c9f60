# HevcPlayerPlugin: specifications, model checking and proofs

HevcPlayerPlugin is a local process that plays network video for a web page. The page talks to it over a WebSocket:
JSON requests one way, JSON responses, error reports and raw NV12 pictures the other way. FFmpeg reads and decodes,
SDL plays the sound. This directory holds TLA+ models of the parts that run concurrently, TLC configurations that
check them on small instances, and TLAPS proofs that hold for every value of the constants.

To repeat: `tlc -config X.cfg M` for a run of `PROJECT.json`, `tlapm M.tla` for a module whose name ends in `Proofs`.

## 1. The system

| Component | Code | State | Operations | Modelled by |
|---|---|---|---|---|
| Packet queue | `packetQueue.{h,cpp}` | fifo, counter, stop flag, mutex, condition variable | put, get, flush, stop, size | `PacketQueue`, `PacketChannel` |
| Player lifecycle | `ffmpegWrapper.cpp` 44-250, 482-594, 673-731 | stop flag, contexts, stream indices, three threads | startPlay, stopPlay, destructor, the threads' loops | `Player`, `PlayerLife` |
| Video output | `ffmpegWrapper.cpp` 252-417 | output size, scaler, picture, message buffer, frame counter | output_video_frame, retrieve_frame, scale_frame, changeVideoResolution, openDiscardFrames | `VideoOutput` |
| Audio output | `ffmpegWrapper.cpp` 419-480, 623-640 | resampler, buffer, device number | output_audio_frame, audio_open | `AudioDevice`, `AudioOutput` |
| Codec opening | `ffmpegWrapper.cpp` 271-285, 514-564, 596-621, 642-671 | codec contexts, device, static hw_pix_fmt_ | open_codec_context, hw_*, retrieve_frame | `Player` (outcomes), `Decoders` |
| Input watchdog | `ffmpegWrapper.cpp` 116-200, 566-594, 733-741 | preTime_, attempts left, transport | open_input_url, input_interrupt_cb | `Watchdog` |
| Signalling session | `signalSession.cpp` | map from connection key to player | play, stop, change, discard, version | `Server`, `Subscription`, `PlayerLife` |
| WebSocket server | `webSocketServer.cpp` | map from key to connection, the connections' buffers | onOpen, onMessage, onClose, onError, Send | `Server`, `Subscription` |
| Demo page | `htdocs/player` | user interface | requests, header decoding | header decoding in `VideoOutput` |
| Configuration, errors, log, dump, main | the rest of `src/` | a port, a level, a table | sequential, once | not modelled |
| Vendored libraries | `3rdparty` | | | the write queue of websocketpp in `Server`; of the others, what is relied on where it is used |

How they interact. One thread (`Run`, asio) executes every handler of every connection, one after the other and each
to its end. A Play handler makes a player and starts its three threads: the reader (`startPlay`'s lambda), which puts
packets on two queues, and one decode thread per media type, which gets them. The threads call back into
`WebsocketServer::Send` with pictures and errors. A Stop, a close and the destructor call `stopPlay`, in the handler
thread, which sets flags and joins the three threads. The fields of a player are shared without a lock; each queue has
a mutex, so has the map of connections, so has the map of players.

What is hard here, component by component, with what makes each correct:

* **Queue**: a put, a stop or a spurious wake-up between the evaluation of the wait's predicate and the wait; a
  counter that is kept apart from the fifo. Correct when no packet is lost, reordered or slept on.
* **Player**: a stop at any moment (while opening, retrying, blocked on a full or an empty queue), codecs that are
  missing or cannot be opened, a source that ends. Correct when stop returns, nothing is freed under a thread, the
  queues are bounded, and a session that dies says so.
* **Video output**: the output size and `sws_init_` change in the middle of a frame, the source changes its own size;
  four buffers are kept from frame to frame and are released in one branch only. Correct when a message is whole and
  no buffer is overrun.
* **Audio output**: SDL is global to the process and each destructor quits it; the device may come with other channels
  than were asked for, and nobody looks; the resampler and the buffer are made for the first frame and serve all
  others. Correct when a player keeps its device and its sound is the stream's.
* **Codec opening**: all players share the pixel format that their decoders negotiate with. Correct when a decoder
  yields frames of its own device, and each frame is taken for what it is.
* **Input watchdog**: one time stamp, of the wall clock, decides when a read has waited too long, wherever the reader
  spent the time; the handler thread waits for the reader. Correct when opening and stopping are bounded and no read
  that works is broken off.
* **Server**: keys are socket addresses and get reused; `insert` does not replace; players send while handlers run;
  the test of a buffer and the sending are apart, and the test does not see what is being written; a handler that
  joins a thread waits as long as that thread lives. Correct when the registries agree with what runs, messages reach
  their owner only, and a client observes a subscription.

`PROJECT.json` lists every hazard at its line, with the properties that cover it, or why none does.

## 2. The modules

**`PacketChannel`** is the promise: a channel with Send, Ask, Receive, Refuse, Release, Close, Clear, in order, no
loss, no invention.

**`PacketQueue`** is `packetQueue.cpp` for a family of queues. `put` is one step that needs the mutex; it is `Put`, or
`PutGrowFails` when the fifo cannot grow and the counter moves all the same. `get` is `GetCall`, `GetCheck` (the
predicate), `GetBlock` (entering the wait, which releases the mutex), `SpuriousWake`, then `GetStopped` or `GetTake`.
`stop` is `SetStop` and `NotifyStop`, because it takes no lock. The mutex is not a variable: it is held between two
steps only by a consumer at "take" or "block" (`Locked`).

**`Player`** EXTENDS `PacketQueue` with the queues "video" and "audio". A packet is the name of its stream. One action
per statement that other threads can see: the reader's (`OpenInput` ... `ReportReadError`), a decode thread's
(`DecStop` ... `DecReport`), the control thread's (`StartReader` ... `DestroyQueue`). `stream_index` starts with any
value of `Garbage`, as the variables at 118-119 do. Decoding with no context, reading a null `video_stream_`, or going
on without a packet or a frame that could not be allocated (`bare`; 676-677, 703-704) is the state "crash", after
which nothing moves. An exception leaves a decode thread through its catch block (695-697, 728-730), the end "caught",
without a report; the reader has no such block, so one that leaves it is a crash (`ReaderThrows`). Pictures, sound and
devices are left to the modules below; all that is kept of them is which queues have frames that may bring the program
down (`Fragile`). The reader's sleep while a queue is full, and every sleep in general, is no step.

**`PlayerLife`** is the promise of a player to its owner, and where `Player` and `Server` meet: its threads work in
passes (a call back to the owner is part of one), no pass begins once the player was told to stop, and when `stopPlay`
returns nobody is at work, for good. `Player` implements it with its three threads (`LifeOf`, `AtWork`), and each
player of `Server`, whose three threads are one, implements it with that one: `Server` asks nothing of a player's
safety that `Player` does not give.

**`VideoOutput`** has the video thread inside `output_video_frame`, one step per place that reads the output size, and
the control thread inside `changeVideoResolution`, one step per assignment. A picture is its size, a buffer the number
of its pixels, the header two bytes per number (`Encode`), which the page reads back (`Decode`); `Cut` is the
session's conversion of a request to 16 bits. `gpu` says that decoded frames are NV12 once downloaded; frames of a
software decoder always need the scaler. `SourceChanges` gives `native`, the size of the decoded frames, another value
between two frames; the scaler made for the old size then refuses (`ScaleRefused`), reads or writes outside
(`ScaleBreaks`) or yields fewer lines. `NoContext` is a scaler that cannot be made (303-311): nobody tests that, and
the scaling at 333 is through a null pointer. Misuse of memory is recorded in `broken` and ends the instance. `clean`
is a history variable: no frame has overlapped the last change, nor a change any frame since.

**`Subscription`** is what a client may rely on, without players, keys, threads and handlers: a connection is fed only
between a Play and the answer to a Stop, and never after its end.

**`Server`** has the handler thread (`io_pc`), both maps, the connections' buffers, and one thread per player that may
send. Its pass through a packet is `Begin` ... `Pass`; a message is `Look` (the lookup under the lock), `Overflow` or
`Test` (the test of the buffer, for small pictures), and `Write`. `StartWrite` and `Written` are websocketpp's: what
is queued leaves the queue, and the amount that the test asks for, when its writing begins, and `m_write_flag` names
the connections with a write under way. Of a queue only is kept whether anything is in it and whose small pictures are
(`Put`). `Sleep` is the thread that misses the notification of its stop, the violation that `player_stop` finds. The
three threads of a player are one here: they send in the same way, only one of them sends pictures, and `stopPlay`
waits for all. A connection's key is chosen among those of no connection that is up, so it is reused. `owner` and
`quiet` are history variables. A request to change a player is received and answered here; what it does is
`VideoOutput`'s subject. `Link`, `Asked` and `Fed` are the refinement mapping to `Subscription`.

**`AudioDevice`** has the devices of SDL, external, and each player's life from constructor to destructor. `heard` and
`shaken` are history variables: whose device the last samples reached, and whether another player was stopped since
this one opened. `stereo` says whether SDL opened a device with the two channels asked for, which it need not
(SDL_AUDIO_ALLOW_CHANNELS_CHANGE, 633).

**`AudioOutput`** EXTENDS `AudioDevice` with the audio thread of each player: a frame is a format and a number of
samples; `OutputFrame` makes the resampler and the buffer when there is none, and queues to the device, which plays
something else when it has other channels or was opened by another player (`Misplays`). `sound` says what became of
the last frame; `first`, `changed` and `grown` are history variables about the stream.

**`Decoders`** has several players with one `hw_pix_fmt`: the choice of a device (`Configure`), `SetGetFormat`,
`CreateDevice`, which may fail after it, and `OpenDecoder`; then FFmpeg, external, asks for a format, gets the answer
of `hw_get_format` (`DecideHardware`, `DecideNone`), or strikes it off and asks again; `RetrieveFrame` is the
comparison of `retrieve_frame`. `disturbed` is a history variable.

**`Watchdog`** has one reader in seconds: `Attempt` ... `TestStop` are `open_input_url`, `LoopRead` ... `ReadFails`
the loop, `Overdue` is `input_interrupt_cb`. `Tick` passes a second wherever the reader can spend one; a call of
FFmpeg cannot spend another once the callback says so. `age` is the wall clock minus `preTime_`, which `SetClock` may
change; `spent`, `since`, `dry`, `why`, `back` and `tried` are history variables. `Player` leaves out time, `Watchdog`
the queues and the other threads; the two share the reader's control flow.

`PacketQueueMC`, `VideoOutputMC`, `AudioOutputMC` and `DecodersMC` hold definitions of their instances that a
configuration cannot express. The other modules are run as they are. `X...Proofs` hold theorems. In every module an
operator marked "mutant" is a plausible bug; no specification uses it; it shows that the property it belongs to can
fail.

## 3. The runs

| Run | Instance | Shows |
|---|---|---|
| `packet_queue` | 1 queue, counter up to 4 | `TakeNonEmpty`, `NoSleepOnPackets`, `NbCoversList`; refinement `ImplementsChannel`; `Delivered` |
| `player_safety` | limits 1 and 1, 2 attempts, allocations may fail, video frames may break, any garbage | types, `FreedMeansJoined`, `BackPressure`, `OwnPacketsOnly`, `EndReported`, `CrashOnlyKnown`; its types include those of the queue |
| `player_live` | limits 1 and 1, 1 attempt, allocations succeed, no frame breaks, no garbage | `LiveStopReturns`, `FullQueueDrains`; refinement `ImplementsLife` |
| `video_output` | sources 2x2 and 1x3, 1x1 known, requests 0x0 and 5x5 (cut to 1x1), counter modulo 4, bytes of base 2 | types, `BreaksOnlyKnown`, `CleanFrames`, `OneOfTwo` |
| `server` | 2 connections, 2 keys, 2 Plays | types, `NoOrphan`, `KeysExact`, `AnsweredPlays`, `OwnClientOnly`, `QuietAfterStop`, `OnePictureQueued`; refinement `ImplementsSubscription`; `HandlersReturn`, `LostReleases` |
| `audio_output` | 2 players, 2 devices, 4 formats, frames of up to 2 samples | types, `NoLeak`, `Undisturbed`, `SoundOnlyKnown` |
| `decoders` | 3 players, 2 devices, codecs with none, one or both | types, `MisreadOnlyDisturbed`, `RefusedOnlyKnown` |
| `watchdog` | 3 seconds, 3 attempts, the clock set back by up to 1 | types, `OpeningBounded`, `StopBounded`, `BothTransports`, `AlarmsOnlyKnown` |

Bounds, and why they are enough. The queues are symmetric and independent, so one suffices; counter 4 lets it drift
from the fifo by failed puts and still wrap over several fills. A limit of 1 makes both queues reach "full" in each
behaviour, and the extra "flush" packet exceeds it; a second attempt makes the retry loop turn once. One queue with
frames that break is enough, as either thread's crash is the same state. An index may start as "video", "audio" or
neither: the index of a further stream would lead packets to a decoder only when it is not open, as the index of its
own stream does already. Of the video sizes one source is narrower and higher than the other, one size is known to the
table, the changes in three steps mix them to others that are not, and one request is too large for its field; a base
of 2 makes every number of the instance use both bytes; a counter modulo 4 wraps after two drops. Two connections and
two keys let a key be in use, be reused, and be used twice; the second Play can be on the same connection, on another
one, or on a key that was used before. Two players with two devices, each stereo or not, make one's end fall into the
other's life; that a third gets a device's number again is left to the theorems, which hold for any number of players.
Four formats are planar, mono, the one SDL plays and another packed one; a second sample lets frames grow. Three
players let one disturb two, or two one. Three seconds and three attempts let an attempt hang, fail early and succeed
late; the constants of the code, 10 and 3, are in the theorems' reach like any other. `MaxNb`, `RetryTimes`,
`MAX_PACKET_*`, `Conn`, `Player`, `Session`, `MaxSamples`, `Limit`, `Back` and `IndexLimit` are the bounds' names;
`Exhausted`, `Terminated`, `Halted` and `Over` are the ends of an instance, so that deadlock is checked in every run.
The players of `audio_output` and `decoders` are interchangeable (`MCSymmetry`): neither run has a temporal property.

Four runs look for something that the repository says and the code does not do; each is expected to end in a
violation:

| Run | Violated | What happens |
|---|---|---|
| `player_stop` | `StopReturns` | The open fails; a decode thread has evaluated its predicate but not entered the wait when `stop` notifies. It sleeps, `join` never returns. `LiveStopReturns` says when the flush packets save the day. |
| `player_failure` | `FailureReported` | The source ends without an I/O error; the reader retries for ever, nobody is told. |
| `video_header` | `HeaderMatchesPicture` | A change between scaling and header: the header announces another size. |
| `audio_own` | `PlaysItsOwn` | A destructor's `SDL_Quit` closes everybody's device. |

Other properties are as weak as the code makes them. Each "OnlyKnown" lists the conditions without which a thing that
should not happen does not happen: a crash of a player's thread (`CrashOnlyKnown`: a packet or a frame could not be
allocated, a frame that the two output modules break on, a codec that was not opened, or, for the reader, memory that
ran out), memory misused by frames (`BreaksOnlyKnown`), wrong sound (`SoundOnlyKnown`: a stream that changes or is
packed, a device that is not stereo, another player's stop), misread or refused frames of the GPU
(`MisreadOnlyDisturbed`, `RefusedOnlyKnown`), reads broken off too early (`AlarmsOnlyKnown`).

* `EndReported` allows a decode thread to end unreported by an exception, which only a failed allocation throws.
* `AnsweredPlays` allows that a second Play on a connection leaves the first one's video running, as the code does
  (signalSession.cpp:142). "Running" means not stopped: a first player whose open failed counts, though it shows
  nothing.
* `OwnPacketsOnly` allows that packets match the uninitialised index of a codec that was not opened
  (ffmpegWrapper.cpp:118) and are queued for nobody.
* `OnePictureQueued` is about pictures 256 to 511 wide, as the test of the first byte is (webSocketServer.cpp:141):
  all others are queued without a bound. `get_buffered_amount` does not count what is being written, so behind a slow
  write one more small picture is queued: at most two of a player wait, never three.
* `HandlersReturn` and `LostReleases` end in the hung join (`Hung`) where a thread has missed its notification: then
  the handler thread, which serves every client, waits for ever.
* `CleanFrames` exempts frames that a change overlaps; that such a change can be lost or half seen is what
  `HeaderMatchesPicture` shows.

### Fairness

`QFairness`: a consumer that can move inside `get` does; nobody has to put, stop or wake spuriously. `Player`: weak
fairness of each decode thread and of the control thread once `stopPlay` has begun (a thread that can run is
scheduled); strong fairness of the reader, which competes for the mutexes with decode threads that hold them for some
instructions and sleep in between; opening and reading end because `input_interrupt_cb` (733-741) ends them after ten
seconds. No fairness on `StopPlay`, on a spurious wake-up, or on the source. `Server`, as long as the process does not
crash: weak fairness of the handler thread inside a handler and of each player's thread inside `Send`, strong fairness
of `onClose`, because asio executes handlers in the order of their events, so a close is not overtaken for ever, and
of `Pass` for a player that is told to stop: a call of FFmpeg is interrupted, a packet has finitely many frames, and a
wait in `get` ends unless the notification was missed, which is the action `Sleep`. Of a player that runs nothing is
assumed: its threads may wait for ever in `get` for packets that never come. No fairness on `StartWrite` and
`Written`: a client may stop reading. That no pass begins after the stop flag is proved of both models (`PlayerLife`);
when the wait ends `player_live` checks, when it does not `player_stop` shows, and how long the reader may take
`watchdog` bounds. `Watchdog` bounds times by safety properties and needs no fairness.

## 4. The proofs

| Module | Theorems | Argument |
|---|---|---|
| `PacketQueueProofs` | `QTypeCorrect`, `QTakeNonEmpty`, `QNoSleepOnPackets`, `QNbCoversList`, `QRefinesChannel`, `QStopIsHeeded` | `QTypeOK /\ QInv` is inductive for each queue: a consumer at "take" or "block" holds the mutex, so that the predicate it evaluated stays true until it pops or sleeps. Refinement is shown step by step under the same invariant. |
| `PlayerProofs` | `PlayerTypeCorrect`, `NoUseAfterFree`, `BoundedQueues`, `OpenDecodersGetTheirOwn`, `NoSilentEnd`, `PlayerUsesChannels`, `CounterNeverDrifts`, `FullQueueIsAwake`, `CrashesAreKnown`, `StopHangsOnlyAsleep`, `LiveStopNeverStuck`, `LiveStopGetsOn`, `PlayerKeepsPromise` | `Inv` below, and what is added to it. |
| `ServerProofs` | `ServerTypeCorrect`, `MapIsExact`, `NoOrphans`, `OwnClients`, `StopIsQuiet`, `PicturesDoNotPile`, `PlaysArePlayed`, `ServerIsSubscription`, `HandlersGetOn`, `ClosedIsReleased`, `PlayersLive` | `Inv` below; `Owned` for players not started. |
| `VideoOutputProofs` | `VideoTypeCorrect`, `BreaksAreKnown`, `CleanFramesAreWhole`, `OneOfTwoIsDropped`, `HeaderSays`, `UnchangedHeadersMatch`, `SteadySoftwareIsSafe` | `VInv` below; `Parity` for the counter; `Quiet` and `Steady` for sessions without a change. |
| `AudioDeviceProofs` | `AudioTypeCorrect`, `NoDeviceLeaks`, `UndisturbedPlayersAreHeard`, `SoleStopsAreHarmless` | `NoLeak` and `Undisturbed` with `Shaking`: while one player is stopped every other counts as shaken, as that stop ends in `SDL_Quit`. `Calm`: when players are stopped only while no other runs, none counts as shaken. |
| `AudioOutputProofs` | `OutputUsesDevices`, `OutputTypeCorrect`, `OutputLeaksNoDevice`, `OutputUndisturbed`, `SoundIsKnown` | Every step of `AudioOutput` is one of `AudioDevice` or leaves it alone, so that its theorems carry over; `Kept` says which frame the resampler is for, `Silent` that nothing is played before a device was asked for. |
| `DecodersProofs` | `DecodersTypeCorrect`, `MisreadsAreDisturbed`, `RefusalsAreKnown`, `UniformIsSafe`, `SoftwareIsUntouched` | `Configured` (a player's device is the choice for its codec), `Agreed` (a decoder's format is one that the negotiation allows) and `Shared` (the shared format is that of every player nobody disturbed). `UniformIsSafe`: where all codecs lead to one device, sharing does no harm. `SoftwareIsUntouched`: nor does it ever to a player without a device. |
| `WatchdogProofs` | `WatchdogTypeCorrect`, `OpeningEnds`, `StopEnds`, `TransportsTried`, `AlarmsExplained` | `OpeningTime` and `StopTime` bound the time so far by where the reader is, how many attempts are left and how old `preTime_` is; `Fresh` and `Alternates` serve the other two. |

`PlayerProofs!Inv` adds to the types and the queues' own invariant: `Local` (which states of the threads go together:
a decode thread is inside `get` exactly when its counter says "get"), `Joined` (the control thread is past a join only
when the thread is done, and frees only past all joins), `Counted` (where the reader is bounds both counters, hence by
`NbCoversList` both fifos), `Routed` (an open decoder's index is its own, the packet the reader holds has a queue, and
what is in a queue is the decoder's) and `EndReported`. Each is needed because the property it serves is not
inductive: that nothing is freed under a thread, for one, depends on the order of the joins long before. Four more
invariants stand on it: `Exact` (the counter is the length of the fifo, while memory lasts and until the queues are
emptied), `Starved` (a context that does not exist gets no packet, unless by a garbage index; nothing is decoded while
codecs are being opened), `Flagged` and `Signalled` (where the control thread is says whether the stop flag is set,
and which of the two statements of `stop` have run for which queue).

What makes a stop return is proved but for the fairness. `StopHangsOnlyAsleep`: whatever was opened and whatever
fails, a stop in which no thread can make a step has crashed, or waits for a decode thread that sleeps on an empty
queue past its notification (`Missed`), while the reader, who could wake it, is gone. So the lost notification, the
violation that `player_stop` finds, is the only one of its kind. `LiveStopNeverStuck`: while memory lasts and no frame
brings the program down, a stop that finds the reader in its loop and both decoders open does not get there, because
the reader's two empty packets reach every consumer that is still in `get` (`Draining`). `LiveStopGetsOn`: from there
every step takes the sum `Left` down from at most 49, three for each step the reader and the control thread have to
go, one for each of a decode thread's; a put or a notification sends a sleeper back by no more than its own step
counts. A spurious wake-up is the exception, of a consumer for whom the empty packet is still to come. `QStopIsHeeded`
says who can miss a notification at all: nobody who had not yet evaluated the predicate when the flag was written.
`FullQueueIsAwake` is what is left of `FullQueueDrains` without fairness.

`PlayerKeepsPromise` and `PlayersLive` are refinements of `PlayerLife`. The first needs of the reader that it leaves
its loop, and of each decode thread that it begins a pass, only after a test of the flag, and the order of the joins;
the second that a player's thread has nothing under way when the handler that joins it goes on.

`ServerProofs!Inv` adds: `Keys` (every connection that is up has a key and is in the map under it), `IoOK` (what the
handler thread holds in its hands: the connection is up, its player is in no map, and after an erase there is no
entry), `Registered` and `Alive` (a player with threads is registered under its owner's key, or is in the hands of a
handler for its owner), `Sendings` (the connection a player found is its owner) and `Loud` (no owner of a player with
threads counts as quiet), `Tested` (no picture of a player is queued while another of it is between test and sending).
Between them they say that a key can be reused only when nothing works under it any more. `Owned` adds that who was
never started has no owner, and that a Play always finds a player to start. `HandlersGetOn`: each step of a handler
takes `IoLeft`, at most 5, down, and the one step that has to wait, the join, waits for a single pass (`Unhindered`),
which ends unless it is asleep.

`VideoOutputProofs!VInv` adds: `Fresh` (no frame before the output size was chosen), `Apart` (a change that nothing
overlaps finds no frame in work), `Downloaded` (frames of the GPU come in the size of `sw_frame_`, for which the
scaler is), `Scaled` (a scaler that could not be made goes unnoticed only until the scaling that follows), `Made` (with `sws_init_` set, scaler, picture and buffer are for the output size) and `Staged` (what the
frame in work has found or made at each place), the last two as long as no change overlaps a frame. `CleanFrames`
alone is far from inductive: that the picture is whole at the end depends on every buffer kept from frames before.
`HeaderSays` proves that the page reads from the header what was written, for any base.

`Quiet` (no change was ever asked for: the size chosen at the first frame stays, so every frame is clean) gives
`UnchangedHeadersMatch`: what `video_header` finds takes a request. `Steady` adds that the source keeps its size, and
gives `SteadySoftwareIsSafe`: with a software decoder all that is left is the scaler that could not be made.

The theorems hold for all sets of queues, connections, keys, players, devices, formats, sizes and codecs and all
limits, under the modules' assumptions only: constants that stand for nothing are outside the sets, limits are
positive, sizes fit in a header's field, the frame counter has an even width, `Player` has the two queues and the four
kinds of packets. TLC evaluates the assumptions in the runs.

Some theorems have a hypothesis that a session may or may not satisfy, stated as an assumption on a constant or as a
conjunct of the specification: `~MayRunOut` (no allocation fails) and `Fragile = {}` (no frame brings the program
down; both hold in `player_live`), `NoChange` and `NoNewSize` (no request, no new size of the source), `SoleStops` (no
player is stopped while another has threads), `Uniform` (codecs of one device). Each names a circumstance without
which the statement is false; the other theorems need none.

Model-checked only: what needs fairness, because TLAPS does not handle liveness under fairness or ENABLED. Their
safety halves are theorems:

| Property | Proved of it |
|---|---|
| `Delivered` | `QNoSleepOnPackets`: nobody sleeps on a packet |
| `LiveStopReturns` | `LiveStopNeverStuck`, `LiveStopGetsOn`: somebody can always move, and moving leads to the end |
| `FullQueueDrains` | `FullQueueIsAwake`: who could drain it is awake |
| `HandlersReturn` | `HandlersGetOn`: every step leads to the end of the handler, a join waits for one pass |
| `LostReleases` | `ClosedIsReleased`: nothing is left once the close handler is through |

That the steps are taken is what TLC checks. `PlayersLive` is proved and not part of a run: TLC cannot evaluate an
instance with a parameter as a property.

## 5. What is not modelled

* Decoding itself, pixels, samples, time stamps and pacing: no property is about them. The division by
  `avg_frame_rate` (716) and the time stamp the page puts together are listed as hazards.
* JSON parsing: a request is valid or is refused. What it says is a choice from a set, cut to its width where it is
  stored.
* What FFmpeg, SDL, asio and websocketpp do inside; `map` marks what is assumed of them as external: the scaler with
  frames of other sizes, the negotiation of a pixel format, the interrupt callback asked once a second, device numbers
  given out again, devices with other channels.
* A `Send` that throws (webSocketServer.cpp:151): a message to a connection that is gone is dropped, and no caller
  looks at the result.
* Opening codecs and devices takes no time in `Watchdog`, and a call of FFmpeg that does not ask the callback is not
  bounded by it.
* Data races beyond the interleavings of whole assignments: an `int` and a flag are written in one step on the
  program's platforms. The static buffer of the log callback is listed as a hazard.
* Configuration, error table, log, crash dumps and `main`: they run once and in sequence, or only print. The page's
  user interface: it shows what it gets.
* A process that is killed: nothing is persisted, and a restart starts from `Init`.

## 6. Plan

Done: every module and proof above. What could follow:

1. A composition of `Server` and `AudioOutput` under one handler thread: `DropPlayer` ends in `SDL_Quit` too, so that
   a refused second Play silences the first one. Its properties are those of the two modules, under the actions of
   both.
2. `VideoOutput` with the frames of `Decoders`: a frame of the GPU that is misread reaches the scaler with null
   planes.
3. A larger instance of `audio_output` with a third player, once the formats of the players are reduced to what the
   devices' properties tell apart.
