------------------------------- MODULE Player -------------------------------
(* src/src/ffmpegWrapper.cpp: one playing session.  Four threads share its  *)
(* FfmpegWrapper: the reader startPlay() creates (main_read_thread_handle_),*)
(* one decode thread per media type, and the thread that calls startPlay(), *)
(* stopPlay() and the destructor ("control"; in the program it is the one   *)
(* thread that serves every connection).  The threads talk through two      *)
(* PacketQueues and through fields they read and write without a lock.      *)
(*                                                                          *)
(* What a frame looks like once it is decoded, the change of resolution and *)
(* the audio device are left out: of what VideoOutput and AudioOutput do    *)
(* with a frame only that it may bring the program down is kept (Fragile).  *)
(* A step that reads or writes nothing another thread can see is merged     *)
(* with its neighbour.                                                      *)
EXTENDS PacketQueue

CONSTANTS
    MAX_PACKET_VIDEO,  \* ffmpegWrapper.cpp:17
    MAX_PACKET_AUDIO,  \* ffmpegWrapper.cpp:18
    RetryTimes,        \* attempts to open the url, both transports counted
    MayRunOut,         \* whether memory allocations may fail
    Fragile,           \* the queues with a frame that may bring the program down:
                       \*   VideoOutput!BreaksOnlyKnown, AudioOutput!SoundOnlyKnown
                       \*   say which frames those are
    Garbage            \* what an uninitialised stream index may hold

(* A queue is named after the media type it carries.  A packet is named     *)
(* after the stream it belongs to: the best video stream, the best audio    *)
(* stream or another one; "flush" is the empty packet put after the last.   *)
ASSUME PlayerAssumption ==
    /\ Queue = {"video", "audio"}
    /\ Packet = {"video", "audio", "other", "flush"}
    /\ MAX_PACKET_VIDEO \in Nat \ {0}
    /\ MAX_PACKET_AUDIO \in Nat \ {0}
    /\ RetryTimes \in Nat \ {0}
    /\ MayRunOut \in BOOLEAN
    /\ Fragile \subseteq Queue
    /\ Garbage \subseteq {"video", "audio", "other", NoPacket}

VARIABLES
    stop_request,  \* stop_request_ of the FfmpegWrapper
    read_pc,       \* where the reader is
    retries,       \* retryTimes: attempts to open the url that are left
    in_pkt,        \* the packet the reader holds between av_read_frame and put
    ended,         \* the source has nothing more to deliver, and its I/O context
                   \*   shows no error (RTSP has no I/O context at all)
    stream_index,  \* video_stream_index, audio_stream_index of the reader
    dec_ctx,       \* video_dec_ctx_, audio_dec_ctx_: "null", "alloc" (allocated,
                   \*   not opened: the open failed), "open", "freed"
    dec_pc,        \* where the decode threads are
    bare,          \* the decode threads that got no packet or no frame to work with
    ctl_pc,        \* where the control thread is
    pushed         \* who has called ff_exception_callback_

pvars == <<stop_request, read_pc, retries, in_pkt, ended, stream_index,
           dec_ctx, dec_pc, bare, ctl_pc, pushed>>
vars == <<qvars, pvars>>

MaxPacket(k) == IF k = "video" THEN MAX_PACKET_VIDEO ELSE MAX_PACKET_AUDIO

Stream == {"video", "audio", "other"}

ReadPC == {"unborn", "open", "probe", "codec_video", "codec_audio", "failed",
           "loop", "read", "put", "flush_video", "flush_audio", "report",
           "push", "done", "crash"}
DecPC == {"unborn", "top", "get", "decode", "exit", "push", "done", "caught", "crash"}
CtlPC == {"new", "start_audio", "start_video", "playing",
          "stop_video", "notify_video", "stop_audio", "notify_audio",
          "join_audio", "join_video", "join_read", "free",
          "stopped", "freed_video", "gone"}

PTypeOK ==
    /\ stop_request \in BOOLEAN
    /\ read_pc \in ReadPC
    /\ retries \in 0 .. RetryTimes
    /\ in_pkt \in Stream \cup {NoPacket}
    /\ ended \in BOOLEAN
    /\ stream_index \in [Queue -> Stream \cup {NoPacket}]
    /\ dec_ctx \in [Queue -> {"null", "alloc", "open", "freed"}]
    /\ dec_pc \in [Queue -> DecPC]
    /\ bare \in SUBSET Queue
    /\ ctl_pc \in CtlPC
    /\ pushed \in SUBSET {"open", "read", "video", "audio"}

TypeOK == QTypeOK /\ PTypeOK

(* The two stream indices are uninitialised variables of the reader: they   *)
(* hold anything, the number of a stream or of none (NoPacket).  Garbage    *)
(* limits that to what an instance is about.                                *)
Init ==
    /\ QInit
    /\ stop_request = FALSE
    /\ read_pc = "unborn"
    /\ retries = RetryTimes
    /\ in_pkt = NoPacket
    /\ ended = FALSE
    /\ stream_index \in [Queue -> Garbage]
    /\ dec_ctx = [k \in Queue |-> "null"]
    /\ dec_pc = [k \in Queue |-> "unborn"]
    /\ bare = {}
    /\ ctl_pc = "new"
    /\ pushed = {}

(* A dereferenced null pointer, or an exception that nobody catches, ends   *)
(* the process and every thread with it.                                    *)
Crashed == read_pc = "crash" \/ \E k \in Queue : dec_pc[k] = "crash"

(* A decode thread that has returned, or that an exception has ended.       *)
Ended(k) == dec_pc[k] \in {"done", "caught"}

----------------------------------------------------------------------------
(* The reader.                                                              *)

ReadGo(from, to) ==
    /\ read_pc = from
    /\ ~Crashed
    /\ read_pc' = to
    /\ UNCHANGED <<stop_request, dec_pc, bare, ctl_pc>>

(* open_input_url: one attempt.  stop_request_ is looked at only after a    *)
(* failed one, and then the failure is returned as well.                    *)
OpenInput ==
    /\ ReadGo("open", "probe")
    /\ UNCHANGED <<qvars, retries, in_pkt, ended, stream_index, dec_ctx, pushed>>

(* Mutant: the count of attempts is tested before it is decremented.        *)
OpenFailsLate ==
    /\ ReadGo("open", IF retries = 0 \/ stop_request THEN "failed" ELSE "open")
    /\ retries' = retries - 1
    /\ UNCHANGED <<qvars, in_pkt, ended, stream_index, dec_ctx, pushed>>

OpenFails ==
    /\ ReadGo("open", IF retries = 1 \/ stop_request THEN "failed" ELSE "open")
    /\ retries' = retries - 1
    /\ UNCHANGED <<qvars, in_pkt, ended, stream_index, dec_ctx, pushed>>

(* avformat_alloc_context fails: that attempt is the last.                  *)
NoFormatContext ==
    /\ MayRunOut
    /\ ReadGo("open", "failed")
    /\ UNCHANGED <<qvars, retries, in_pkt, ended, stream_index, dec_ctx, pushed>>

(* avformat_find_stream_info, which may fail too.                           *)
FindStreamInfo ==
    /\ \E next \in {"codec_video", "failed"} : ReadGo("probe", next)
    /\ UNCHANGED <<qvars, retries, in_pkt, ended, stream_index, dec_ctx, pushed>>

(* Mutant: the stream index is not handed back.                             *)
OpenCodecNoIndex(k, ctx) ==
    /\ dec_ctx' = [dec_ctx EXCEPT ![k] = ctx]
    /\ UNCHANGED <<qvars, retries, in_pkt, ended, stream_index, pushed>>

(* open_codec_context sets the stream index last, once the decoder is open; *)
(* a decoder that cannot be opened leaves its context allocated.            *)
OpenCodec(k, ctx) ==
    /\ dec_ctx' = [dec_ctx EXCEPT ![k] = ctx]
    /\ stream_index' = IF ctx = "open" THEN [stream_index EXCEPT ![k] = k]
                                       ELSE stream_index
    /\ UNCHANGED <<qvars, retries, in_pkt, ended, pushed>>

Outcome == {"null", "alloc", "open"}

OpenVideo ==
    /\ ReadGo("codec_video", "codec_audio")
    /\ \E ctx \in Outcome : OpenCodec("video", ctx)

(* The audio codec, the test that one stream can be played, and the two     *)
(* allocations before the loop.                                             *)
OpenAudio ==
    \E ctx \in Outcome :
        /\ \/ /\ ReadGo("codec_audio", "loop")
              /\ "open" \in {ctx, dec_ctx["video"]}
           \/ /\ ReadGo("codec_audio", "failed")
              /\ MayRunOut \/ "open" \notin {ctx, dec_ctx["video"]}
        /\ OpenCodec("audio", ctx)

(* "open url failed." is reported whether or not a stop was requested, and  *)
(* nothing wakes the decode threads.                                        *)
ReportOpenFailure ==
    /\ ReadGo("failed", "done")
    /\ pushed' = pushed \cup {"open"}
    /\ UNCHANGED <<qvars, retries, in_pkt, ended, stream_index, dec_ctx>>

(* Mutant: one packet more than the limits.                                 *)
LoopOnLate ==
    /\ ReadGo("loop", "read")
    /\ ~stop_request
    /\ \A k \in Queue : nb_packets[k] <= MaxPacket(k)
    /\ UNCHANGED <<qvars, retries, in_pkt, ended, stream_index, dec_ctx, pushed>>

(* The top of the loop.  While a queue is full the reader sleeps and looks  *)
(* again: that is no step.  The two sizes are read one after the other and  *)
(* without the mutexes; as only the reader makes them grow, both are still  *)
(* below their limits at the later of the two reads.                        *)
LoopOn ==
    /\ ReadGo("loop", "read")
    /\ ~stop_request
    /\ \A k \in Queue : nb_packets[k] < MaxPacket(k)
    /\ UNCHANGED <<qvars, retries, in_pkt, ended, stream_index, dec_ctx, pushed>>

LoopEnd ==
    /\ ReadGo("loop", "flush_video")
    /\ stop_request
    /\ UNCHANGED <<qvars, retries, in_pkt, ended, stream_index, dec_ctx, pushed>>

(* The queue a packet of stream s goes to, if any.                          *)
Route(s) ==
    IF s = stream_index["video"] THEN {"video"}
    ELSE IF s = stream_index["audio"] THEN {"audio"} ELSE {}

(* av_read_frame delivers a packet, to be put or skipped...                 *)
ReadPacket ==
    /\ ~ended
    /\ \E s \in Stream :
        IF Route(s) = {} THEN ReadGo("read", "loop") /\ UNCHANGED in_pkt
                         ELSE ReadGo("read", "put") /\ in_pkt' = s
    /\ UNCHANGED <<qvars, retries, ended, stream_index, dec_ctx, pushed>>

(* ... or fails, for now or for good, while the I/O context is fine or      *)
(* absent: the reader sleeps and tries again...                             *)
ReadRetry ==
    /\ ReadGo("read", "loop")
    /\ ended' \in {ended, TRUE}
    /\ UNCHANGED <<qvars, retries, in_pkt, stream_index, dec_ctx, pushed>>

(* ... or fails with an error of the I/O context, which ends the loop.      *)
ReadError ==
    /\ ~ended
    /\ ReadGo("read", "flush_video")
    /\ UNCHANGED <<qvars, retries, in_pkt, ended, stream_index, dec_ctx, pushed>>

(* A put by the reader, with the two ways it can run out of memory.         *)
PutOn(k, p) ==
    \/ Put(k, p)
    \/ MayRunOut /\ PutGrowFails(k)
    \/ MayRunOut /\ UNCHANGED qvars

PutPacket ==
    /\ ReadGo("put", "loop")
    /\ \E k \in Route(in_pkt) : PutOn(k, in_pkt)
    /\ in_pkt' = NoPacket
    /\ UNCHANGED <<retries, ended, stream_index, dec_ctx, pushed>>

(* Mutant: the decoder contexts are not compared with null.                 *)
FlushDecoderAlways(k) ==
    /\ PutOn(k, "flush")
    /\ UNCHANGED <<retries, in_pkt, ended, stream_index, dec_ctx, pushed>>

(* The empty packets after the loop, only to a decoder context that exists. *)
FlushDecoder(k) ==
    /\ IF dec_ctx[k] # "null" THEN PutOn(k, "flush") ELSE UNCHANGED qvars
    /\ UNCHANGED <<retries, in_pkt, ended, stream_index, dec_ctx, pushed>>

(* Mutant: nothing is put for the audio decoder.                            *)
FlushAudioNot ==
    /\ ReadGo("flush_audio", "report")
    /\ UNCHANGED <<qvars, retries, in_pkt, ended, stream_index, dec_ctx, pushed>>

FlushVideo == ReadGo("flush_video", "flush_audio") /\ FlushDecoder("video")
FlushAudio == ReadGo("flush_audio", "report") /\ FlushDecoder("audio")

(* stop_request_ is tested first, and the callback made after.              *)
TestReport ==
    /\ ReadGo("report", IF stop_request THEN "done" ELSE "push")
    /\ UNCHANGED <<qvars, retries, in_pkt, ended, stream_index, dec_ctx, pushed>>

ReportReadError ==
    /\ ReadGo("push", "done")
    /\ pushed' = pushed \cup {"read"}
    /\ UNCHANGED <<qvars, retries, in_pkt, ended, stream_index, dec_ctx>>

(* Out of memory in the reader, the callback's string included: an          *)
(* exception that no try of this thread's function catches.                 *)
ReaderThrows ==
    /\ MayRunOut
    /\ \E from \in {"failed", "push"} : ReadGo(from, "crash")
    /\ UNCHANGED <<qvars, retries, in_pkt, ended, stream_index, dec_ctx, pushed>>

Reader ==
    \/ OpenInput \/ OpenFails \/ NoFormatContext \/ FindStreamInfo
    \/ OpenVideo \/ OpenAudio
    \/ ReportOpenFailure \/ LoopOn \/ LoopEnd
    \/ ReadPacket \/ ReadRetry \/ ReadError \/ PutPacket
    \/ FlushVideo \/ FlushAudio \/ TestReport \/ ReportReadError
    \/ ReaderThrows

----------------------------------------------------------------------------
(* The decode threads: audio_decode_thread, video_decode_thread.            *)

DecGo(k, from, to) ==
    /\ dec_pc[k] = from
    /\ ~Crashed
    /\ dec_pc' = [dec_pc EXCEPT ![k] = to]
    /\ UNCHANGED <<stop_request, read_pc, retries, in_pkt, ended, stream_index,
                   dec_ctx, bare, ctl_pc>>

(* The top of the loop: leave it if a stop was requested, else call get().  *)
DecStop(k) ==
    /\ stop_request
    /\ DecGo(k, "top", "exit")
    /\ UNCHANGED <<qvars, pushed>>

DecGet(k) ==
    /\ ~stop_request
    /\ DecGo(k, "top", "get")
    /\ GetCall(k)
    /\ UNCHANGED pushed

(* Inside get(): evaluate the predicate, go to sleep, ...                   *)
DecWait(k) ==
    /\ DecGo(k, "get", "get")
    /\ GetCheck(k) \/ GetBlock(k)
    /\ UNCHANGED pushed

DecSpuriousWake(k) ==
    /\ DecGo(k, "get", "get")
    /\ SpuriousWake(k)
    /\ UNCHANGED pushed

(* ... return a packet or -1.                                               *)
DecGot(k) ==
    /\ DecGo(k, "get", "decode")
    /\ GetTake(k)
    /\ UNCHANGED pushed

DecRefused(k) ==
    /\ DecGo(k, "get", "exit")
    /\ GetStopped(k)
    /\ UNCHANGED pushed

(* decode_packet, and the unref of the packet.  An open decoder may fail on *)
(* any packet, which ends the thread; a frame of it may bring the program   *)
(* down.  A context that was never opened is refused by                     *)
(* avcodec_send_packet, which ends the audio thread; the video thread first *)
(* reads video_stream_, which is null then.  Without a context              *)
(* avcodec_send_packet itself dereferences the null pointer, and without a  *)
(* packet or a frame of its own the thread does in get() or in FFmpeg.      *)
Decoded(k) ==
    CASE dec_ctx[k] = "open"                  -> {"top", "exit"}
      [] dec_ctx[k] = "alloc" /\ k = "audio" -> {"exit"}
      [] OTHER                                -> {"crash"}

Decode(k) ==
    /\ \/ \E next \in Decoded(k) : DecGo(k, "decode", next)
       \/ /\ k \in bare \/ (k \in Fragile /\ dec_ctx[k] = "open")
          /\ DecGo(k, "decode", "crash")
    /\ Unref(k)
    /\ UNCHANGED pushed

(* Mutants: the test is inverted, there is no test.                         *)
DecTestInverted(k) ==
    /\ DecGo(k, "exit", IF stop_request THEN "push" ELSE "done")
    /\ UNCHANGED <<qvars, pushed>>
DecTestNot(k) == DecGo(k, "exit", "push") /\ UNCHANGED <<qvars, pushed>>

(* stop_request_ is tested first, and the callback made after.              *)
DecTest(k) ==
    /\ DecGo(k, "exit", IF stop_request THEN "done" ELSE "push")
    /\ UNCHANGED <<qvars, pushed>>

DecReport(k) ==
    /\ DecGo(k, "push", "done")
    /\ pushed' = pushed \cup {k}
    /\ UNCHANGED qvars

(* Out of memory after the loop, or in decode_packet (then as if it had     *)
(* failed): the exception is logged, and nobody else is told.               *)
DecThrows(k) ==
    /\ MayRunOut
    /\ \E from \in {"exit", "push"} : DecGo(k, from, "caught")
    /\ UNCHANGED <<qvars, pushed>>

Decoder(k) ==
    \/ DecStop(k) \/ DecGet(k) \/ DecWait(k) \/ DecGot(k) \/ DecRefused(k)
    \/ Decode(k) \/ DecTest(k) \/ DecReport(k) \/ DecThrows(k)

----------------------------------------------------------------------------
(* The control thread: startPlay, stopPlay, the destructor.                 *)

CtlGo(from, to) ==
    /\ ctl_pc = from
    /\ ~Crashed
    /\ ctl_pc' = to
    /\ UNCHANGED <<retries, in_pkt, ended, stream_index, pushed>>

StartReader ==
    /\ CtlGo("new", "start_audio")
    /\ read_pc' = "open"
    /\ UNCHANGED <<qvars, stop_request, dec_ctx, dec_pc, bare>>

(* A decode thread up to its loop: without memory it goes on with a null    *)
(* packet or a null frame, or the shared_ptr of one throws, which is        *)
(* logged and ends it.                                                      *)
StartDecoder(k, from, to) ==
    /\ CtlGo(from, to)
    /\ \/ dec_pc' = [dec_pc EXCEPT ![k] = "top"] /\ UNCHANGED bare
       \/ MayRunOut /\ dec_pc' = [dec_pc EXCEPT ![k] = "top"] /\ bare' = bare \cup {k}
       \/ MayRunOut /\ dec_pc' = [dec_pc EXCEPT ![k] = "caught"] /\ UNCHANGED bare
    /\ UNCHANGED <<qvars, stop_request, read_pc, dec_ctx>>

(* stopPlay() is called by a Stop message, by the end of the connection or  *)
(* by the destructor, at any time after startPlay() returned.               *)
StopPlay ==
    /\ CtlGo("playing", "stop_video")
    /\ stop_request' = TRUE
    /\ UNCHANGED <<qvars, read_pc, dec_ctx, dec_pc, bare>>

StopQueue(k, from, to) ==
    /\ CtlGo(from, to)
    /\ SetStop(k)
    /\ UNCHANGED <<stop_request, read_pc, dec_ctx, dec_pc, bare>>

NotifyQueue(k, from, to) ==
    /\ CtlGo(from, to)
    /\ NotifyStop(k)
    /\ UNCHANGED <<stop_request, read_pc, dec_ctx, dec_pc, bare>>

JoinDecoder(k, from, to) ==
    /\ CtlGo(from, to)
    /\ Ended(k)
    /\ UNCHANGED <<qvars, stop_request, read_pc, dec_ctx, dec_pc, bare>>

(* Mutant: the reader is not waited for.                                    *)
JoinReaderNot ==
    /\ CtlGo("join_read", "free")
    /\ UNCHANGED <<qvars, stop_request, read_pc, dec_ctx, dec_pc, bare>>

JoinReader ==
    /\ CtlGo("join_read", "free")
    /\ read_pc = "done"
    /\ UNCHANGED <<qvars, stop_request, read_pc, dec_ctx, dec_pc, bare>>

(* Everything the threads used is freed.                                    *)
FreeAll ==
    /\ CtlGo("free", "stopped")
    /\ dec_ctx' = [k \in Queue |-> "freed"]
    /\ UNCHANGED <<qvars, stop_request, read_pc, dec_pc, bare>>

(* ~FfmpegWrapper: the members' destructors flush both queues, the one      *)
(* declared last first.                                                     *)
DestroyQueue(k, from, to) ==
    /\ CtlGo(from, to)
    /\ Flush(k)
    /\ UNCHANGED <<stop_request, read_pc, dec_ctx, dec_pc, bare>>

(* What the control thread does without being asked to.                     *)
Control ==
    \/ StartReader
    \/ StartDecoder("audio", "start_audio", "start_video")
    \/ StartDecoder("video", "start_video", "playing")
    \/ StopQueue("video", "stop_video", "notify_video")
    \/ NotifyQueue("video", "notify_video", "stop_audio")
    \/ StopQueue("audio", "stop_audio", "notify_audio")
    \/ NotifyQueue("audio", "notify_audio", "join_audio")
    \/ JoinDecoder("audio", "join_audio", "join_video")
    \/ JoinDecoder("video", "join_video", "join_read")
    \/ JoinReader
    \/ FreeAll
    \/ DestroyQueue("video", "stopped", "freed_video")
    \/ DestroyQueue("audio", "freed_video", "gone")

----------------------------------------------------------------------------
Terminated ==
    /\ Crashed \/ ctl_pc = "gone"
    /\ UNCHANGED vars

Next ==
    \/ Reader
    \/ \E k \in Queue : Decoder(k) \/ DecSpuriousWake(k)
    \/ Control
    \/ StopPlay
    \/ Terminated

Spec == Init /\ [][Next]_vars

(* Every thread that can run does run.  The reader competes with the decode *)
(* threads for the mutexes, which they hold for a few instructions and      *)
(* between which they sleep: it gets them in the end (strong fairness).     *)
(* Reads and opens end because FFmpeg's interrupt callback ends them after  *)
(* ten seconds.  Nobody has to ask for a stop, and no spurious wake-up has  *)
(* to happen.                                                               *)
Fairness ==
    /\ SF_vars(Reader)
    /\ \A k \in Queue : WF_vars(Decoder(k))
    /\ WF_vars(Control)

FairSpec == Spec /\ Fairness

----------------------------------------------------------------------------
(* What stopPlay() frees, no thread can touch any more (235-248).           *)
FreedMeansJoined ==
    \A k \in Queue :
        dec_ctx[k] = "freed" => /\ read_pc = "done"
                                /\ Ended(k)
                                /\ get_pc[k] = "idle"

(* The back-pressure of 178-179 bounds both queues, although the sizes are  *)
(* tested long before the packet is put and without a lock: neither ever    *)
(* holds more than its limit, plus the empty packet after the last.         *)
BackPressure ==
    \A k \in Queue :
        Len(pkt_list[k]) <=
            MaxPacket(k) + (IF read_pc \in {"flush_audio", "report", "push", "done", "crash"}
                            THEN 1 ELSE 0)

(* A decoder that was opened is only ever given packets of its own stream,  *)
(* in spite of the two stream indices nobody initialised (118-119).         *)
OwnPacketsOnly ==
    \A k \in Queue : dec_ctx[k] = "open" =>
        \A i \in 1 .. Len(pkt_list[k]) : pkt_list[k][i] \in {k, "flush"}

(* No thread ends on its own without telling the client (171, 209, 691): a  *)
(* session nobody stopped runs or is reported as failed.  One way round it  *)
(* is left, a decode thread ended by an exception, which is only logged     *)
(* (695-697, 728-730), and only a failed allocation throws.                 *)
EndReported ==
    \/ stop_request
    \/ /\ \A k \in Queue : Ended(k) => k \in pushed \/ (MayRunOut /\ dec_pc[k] = "caught")
       /\ read_pc = "done" => pushed \cap {"open", "read"} # {}

(* A decode thread brings the process down only without a packet or a frame *)
(* of its own (676-677, 703-704), over a fragile frame, or over a decoder   *)
(* that never opened: a video context whose open failed, which the flush    *)
(* packet or a garbage index leads packets to (203, 716), or a context that *)
(* does not exist, to which packets come by a garbage index alone (118-119, *)
(* 195).  The reader does only when memory runs out.                        *)
CrashOnlyKnown ==
    /\ \A k \in Queue : dec_pc[k] = "crash" =>
        \/ k \in bare
        \/ k \in Fragile /\ dec_ctx[k] = "open"
        \/ k = "video" /\ dec_ctx[k] = "alloc"
        \/ dec_ctx[k] = "null" /\ stream_index[k] # NoPacket
    /\ read_pc = "crash" => MayRunOut

(* To its owner a player is a PlayerLife: a thread enters a pass of its     *)
(* loop, or makes the callback, only after a test of stop_request_ (177,    *)
(* 209, 679, 691, 707, 724), or was at it before the stop; the joins wait.  *)
LifeOf ==
    CASE ctl_pc = "new" -> "none"
      [] ctl_pc \in {"start_audio", "start_video", "playing"} -> "running"
      [] ctl_pc \in {"free", "stopped", "freed_video", "gone"} -> "joined"
      [] OTHER -> "stopping"

AtWork ==
    {k \in Queue : dec_pc[k] \in {"get", "decode", "push", "crash"}}
        \cup {t \in {"reader"} : read_pc \in {"open", "probe", "codec_video", "codec_audio",
                                             "failed", "read", "put", "push", "crash"}}

Life == INSTANCE PlayerLife WITH
    Thread <- Queue \cup {"reader"}, life <- LifeOf, busy <- AtWork

ImplementsLife == Life!LSpec

(* A stop that finds the reader in its loop, with both decoders open,       *)
(* always returns: the empty packets the reader puts on its way out wake    *)
(* the decode threads even when stop()'s notification was lost (203-207).   *)
LiveStopReturns ==
    (ctl_pc = "stop_video" /\ read_pc = "loop" /\ \A k \in Queue : dec_ctx[k] = "open")
        ~> ctl_pc = "stopped"

(* A queue that is full is drained, unless its decode thread has ended: the *)
(* reader is not held up for ever by a decoder that works.                  *)
FullQueueDrains ==
    \A k \in Queue :
        nb_packets[k] >= MaxPacket(k)
            ~> (nb_packets[k] < MaxPacket(k) \/ Ended(k) \/ Crashed)

(* docs: a request to stop playing is answered.  Fails: stop()'s            *)
(* notification may come between the predicate and the wait                 *)
(* (packetQueue.cpp:43, 68-71), and the thread that joins waits for ever.   *)
StopReturns == ctl_pc = "stop_video" ~> (ctl_pc = "stopped" \/ Crashed)

(* docs: a plugin that fails tells the page.  Fails: when the source ends   *)
(* without an error of its I/O context, the reader retries for ever.        *)
FailureReported == ended ~> (pushed # {} \/ stop_request \/ Crashed)
=============================================================================
