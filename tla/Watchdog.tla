------------------------------ MODULE Watchdog ------------------------------
(* src/src/ffmpegWrapper.cpp: the time the reader of a player may spend in  *)
(* calls that wait for the network (open_input_url, the start of the thread *)
(* and its loop), and input_interrupt_cb, which breaks them off.            *)
(*                                                                          *)
(* Time is in seconds, as time() is.  FFmpeg, external, asks the callback   *)
(* at least once a second while it waits, and before it waits.  What takes  *)
(* no second is no step of the clock; opening codecs is left out.           *)
EXTENDS Integers

CONSTANTS
    Limit,        \* seconds without a packet, 10 in the code
    RetryTimes,   \* attempts to open the url, 3 in the code
    Back          \* the clock may be set back until age is -Back

ASSUME WatchdogAssumption ==
    /\ Limit \in Nat
    /\ RetryTimes \in Nat \ {0}
    /\ Back \in Nat

VARIABLES
    pc,        \* where the reader is
    retry,     \* retryTimes
    useTCP,    \* as the client sent it: any number, not only 0 and 1
    io,        \* the input has a fmt_ctx_->pb that remembers errors (RTSP has none)
    stop,      \* stop_request_
    full,      \* a queue is at its limit
    age,       \* time(nullptr) - preTime_, as far as it matters
    spent,     \* history: seconds the opening has taken
    since,     \* history: seconds since the stop
    dry,       \* history: seconds the reader has waited since something came
    why,       \* history: why age may exceed dry since preTime_ was set: "held"
               \*   (the queue was full), "set" (the clock was), "shared" (what
               \*   came was no packet)
    back,      \* history: the clock was set back
    tried      \* history: the transports tried

call == <<retry, useTCP, io, tried>>
told == <<spent, since, back>>
vars == <<pc, call, stop, full, age, told, dry, why>>

Waiting == {"opening", "info", "reading"}          \* inside a call of FFmpeg
Opening == {"attempt", "opening", "retry", "test", "info"}
Finished == {"failed", "ended"}

OpenBound == RetryTimes * (Limit + 2) - 1
StopBound == Limit + 2

WTypeOK ==
    /\ pc \in Opening \cup Finished \cup {"loop", "reading", "pause"}
    /\ retry \in 0 .. RetryTimes
    /\ useTCP \in Nat
    /\ io \in BOOLEAN /\ stop \in BOOLEAN
    /\ full \in BOOLEAN /\ back \in BOOLEAN
    /\ age \in -Back .. Limit + 1
    /\ spent \in 0 .. OpenBound + 1
    /\ since \in 0 .. StopBound + 1
    /\ dry \in 0 .. Limit + 1
    /\ why \subseteq {"held", "set", "shared"}
    /\ tried \subseteq {"tcp", "udp"}

Init ==
    /\ pc = "attempt"
    /\ retry = RetryTimes
    /\ useTCP \in 0 .. 2
    /\ io \in BOOLEAN
    /\ stop = FALSE
    /\ full = FALSE
    /\ age = 0
    /\ spent = 0
    /\ since = 0
    /\ dry = 0
    /\ why = {}
    /\ back = FALSE
    /\ tried = {}

----------------------------------------------------------------------------
(* input_interrupt_cb.                                                      *)
OverdueNever == FALSE   \* mutant: the time is never up

Overdue == age > Limit

Go(from, to) ==
    /\ pc = from
    /\ pc' = to
    /\ UNCHANGED <<stop, told>>

(* preTime_ = time(nullptr).                                                *)
Touch == age' = 0 /\ dry' = 0 /\ why' = {}

\* Something came, but preTime_ is left as it is.
Came == dry' = 0 /\ why' = why \cup {"shared"} /\ UNCHANGED age

(* open_input_url: one attempt, over the transport useTCP says.             *)
Attempt ==
    /\ Go("attempt", "opening")
    /\ Touch
    /\ tried' = tried \cup {IF useTCP # 0 THEN "tcp" ELSE "udp"}
    /\ UNCHANGED <<retry, useTCP, io, full>>

(* avformat_alloc_context fails.                                            *)
NoContext == Go("attempt", "failed") /\ UNCHANGED <<call, full, age, dry, why>>

OpenSucceeds == Go("opening", "info") /\ Came /\ UNCHANGED <<call, full>>

FlipNot == useTCP   \* mutant: the other transport is not tried

(* useTCP ^ 1                                                               *)
Flip == IF useTCP % 2 = 0 THEN useTCP + 1 ELSE useTCP - 1

(* The attempt fails, by itself or by the callback.                         *)
AttemptFailsUncounted ==   \* mutant: a timeout is not counted
    /\ Go("opening", IF retry = 1 /\ ~Overdue THEN "failed" ELSE "retry")
    /\ retry' = IF Overdue THEN retry ELSE retry - 1
    /\ useTCP' = Flip
    /\ UNCHANGED <<io, tried, full, age, dry, why>>

AttemptFailsLate ==   \* mutant: --retryTimes < 0
    /\ Go("opening", IF retry = 0 THEN "failed" ELSE "retry")
    /\ retry' = retry - 1
    /\ useTCP' = Flip
    /\ UNCHANGED <<io, tried, full, age, dry, why>>

AttemptFails ==
    /\ Go("opening", IF retry = 1 THEN "failed" ELSE "retry")
    /\ retry' = retry - 1
    /\ useTCP' = Flip
    /\ UNCHANGED <<io, tried, full, age, dry, why>>

TestStopNot ==   \* mutant: a stop does not end the attempts
    /\ Go("test", "attempt")
    /\ UNCHANGED <<call, full, age, dry, why>>

TestStop ==
    /\ Go("test", IF stop THEN "failed" ELSE "attempt")
    /\ UNCHANGED <<call, full, age, dry, why>>

(* avformat_find_stream_info, under the same preTime_.  Its failure is      *)
(* reported as one to open.                                                 *)
InfoSucceeds == Go("info", "loop") /\ Came /\ UNCHANGED <<call, full>>
InfoFails == Go("info", "failed") /\ UNCHANGED <<call, full, age, dry, why>>

Open == \/ Attempt \/ NoContext \/ OpenSucceeds \/ AttemptFails \/ TestStop
        \/ InfoSucceeds \/ InfoFails

----------------------------------------------------------------------------
(* The loop of the thread.                                                  *)
LoopRead ==
    /\ ~stop /\ ~full
    /\ Go("loop", "reading")
    /\ UNCHANGED <<call, full, age, dry, why>>

LoopEnd == stop /\ Go("loop", "ended") /\ UNCHANGED <<call, full, age, dry, why>>

(* A packet: it can be one FFmpeg holds already, so that nothing is asked.  *)
ReadPacketUntouched ==   \* mutant: preTime_ is not set again
    /\ Go("reading", "loop")
    /\ full' \in BOOLEAN
    /\ dry' = 0 /\ why' = {}
    /\ UNCHANGED <<call, age>>

ReadPacket ==
    /\ Go("reading", "loop")
    /\ full' \in BOOLEAN
    /\ Touch
    /\ UNCHANGED call

(* av_read_frame fails: the callback breaks it off, which an input with a   *)
(* pb remembers, or the source fails.                                       *)
Interrupt ==
    /\ Overdue
    /\ Go("reading", IF io THEN "ended" ELSE "pause")
    /\ UNCHANGED <<call, full, age, dry, why>>

ReadFails ==
    /\ \/ io /\ Go("reading", "ended")
       \/ Go("reading", "pause")
    /\ UNCHANGED <<call, full, age, dry, why>>

Loop == LoopRead \/ LoopEnd \/ ReadPacket \/ Interrupt \/ ReadFails

----------------------------------------------------------------------------
(* The rest of the player and of the machine.                               *)

(* A decoder takes a packet from the full queue.                            *)
Drain ==
    /\ full
    /\ full' = FALSE
    /\ UNCHANGED <<pc, call, stop, age, told, dry, why>>

StopPlay ==
    /\ ~stop
    /\ stop' = TRUE
    /\ UNCHANGED <<pc, call, full, age, told, dry, why>>

(* The sleeps of 10 ms after a failed attempt and after a failed read.      *)
Wake ==
    /\ \/ Go("retry", "test")
       \/ Go("pause", "loop")
    /\ UNCHANGED <<call, full, age, dry, why>>

(* The clock is set, or the machine was asleep.                             *)
SetClock ==
    /\ pc \notin Finished
    /\ \E a \in -Back .. Limit + 1 :
           /\ a # age
           /\ age' = a
           /\ back' = (back \/ a < age)
           /\ why' = IF a > age THEN why \cup {"set"} ELSE why
    /\ UNCHANGED <<pc, call, stop, full, spent, since, dry>>

UpTo(n, bound) == IF n < bound THEN n + 1 ELSE n

Held == pc = "loop" /\ full /\ ~stop

(* A second passes: in a call, unless the callback ends it; in a short      *)
(* sleep, which ends then; or while a full queue holds the reader back.     *)
Tick ==
    /\ \/ pc \in Waiting /\ ~Overdue /\ UNCHANGED pc
       \/ pc = "retry" /\ pc' = "test"
       \/ pc = "pause" /\ pc' = "loop"
       \/ Held /\ UNCHANGED pc
    /\ age' = UpTo(age, Limit + 1)
    /\ spent' = IF pc \in Opening THEN UpTo(spent, OpenBound + 1) ELSE spent
    /\ since' = IF stop THEN UpTo(since, StopBound + 1) ELSE since
    /\ dry' = IF Held THEN dry ELSE UpTo(dry, Limit + 1)
    /\ why' = IF Held THEN why \cup {"held"} ELSE why
    /\ UNCHANGED <<call, stop, full, back>>

(* The reader has ended.                                                    *)
Over == pc \in Finished /\ UNCHANGED vars

Next == Open \/ Loop \/ Drain \/ StopPlay \/ Wake \/ SetClock \/ Tick \/ Over

Spec == Init /\ [][Next]_vars

----------------------------------------------------------------------------
(* 569-590: all attempts and the search for streams end within the time of  *)
(* RetryTimes attempts, unless the clock is set back meanwhile: each        *)
(* attempt has a time of its own, the search has none.                      *)
OpeningBounded == ~back => spent <= OpenBound

(* 231: stopPlay, in the thread that serves every client, waits for the     *)
(* reader; that takes the time of one call at most, wherever the stop finds *)
(* the reader, unless the clock is set back.                                *)
StopBounded == ~back => since <= StopBound

(* 735: a read is broken off only when nothing has come for Limit seconds,  *)
(* or preTime_ was stale for a known reason: the queue was full for long,   *)
(* the clock was set forward, or nothing but the opening came before.       *)
AlarmsOnlyKnown == [][Interrupt => dry > Limit \/ why # {}]_vars

(* 583: when the opening has used up its attempts, and there were at least  *)
(* two, both transports were tried, as long as use_tcp is 0 or 1.           *)
BothTransports ==
    pc = "failed" /\ retry = 0 /\ RetryTimes > 1 /\ useTCP \in {0, 1} =>
        tried = {"tcp", "udp"}
=============================================================================
