----------------------------- MODULE AudioOutput -----------------------------
(* src/src/ffmpegWrapper.cpp: output_audio_frame, the audio thread of each  *)
(* player between the decoder and the SDL devices of AudioDevice.           *)
(*                                                                          *)
(* SDL is asked for packed stereo of 16 bits (Direct).  The resampler is    *)
(* made for the first frame that needs one, and the buffer for the first    *)
(* frame; both are kept until the player stops.  A frame is its format and  *)
(* its number of samples.  The context's sample_fmt is the format of its    *)
(* frames.                                                                  *)
EXTENDS AudioDevice

CONSTANTS
    Converted,   \* formats that are planar or mono
    Direct,      \* packed stereo of 16 bits
    Packed,      \* the other packed formats
    MaxSamples   \* bound of the instance on the samples of a frame

Formats == Converted \cup Packed \cup {Direct}
None == "none"

ASSUME OutputAssumption ==
    /\ Direct \notin Converted \cup Packed
    /\ Converted \cap Packed = {}
    /\ {None, "impossible"} \cap Formats = {}
    /\ MaxSamples \in Nat \ {0}

VARIABLES
    swr,       \* [Session -> the format swr_ctx_ was made for, or None]
    buffer,    \* [Session -> the samples audio_dst_data_ has room for, 0 if null]
    over,      \* [Session -> an error has ended the audio thread]
    sound,     \* [Session -> what became of the last frame: "none", "right",
               \*   "wrong" (garbled, read from outside the frame), "overrun",
               \*   "misplayed" (right, on a device that is for something else)]
    first,     \* history: [Session -> the format of the first frame, or None]
    changed,   \* history: [Session -> a frame of another format came]
    grown      \* history: [Session -> a frame longer than the first came]

outputs == <<swr, buffer, over, sound>>
history == <<first, changed, grown>>
ovars == <<vars, outputs, history>>

OTypeOK ==
    /\ ATypeOK
    /\ swr \in [Session -> Converted \cup {None}]
    /\ buffer \in [Session -> 0 .. MaxSamples]
    /\ over \in [Session -> BOOLEAN]
    /\ sound \in [Session -> {"none", "right", "wrong", "overrun", "misplayed"}]
    /\ first \in [Session -> Formats \cup {None}]
    /\ changed \in [Session -> BOOLEAN]
    /\ grown \in [Session -> BOOLEAN]

OInit ==
    /\ Init
    /\ swr = [s \in Session |-> None]
    /\ buffer = [s \in Session |-> 0]
    /\ over = [s \in Session |-> FALSE]
    /\ sound = [s \in Session |-> "none"]
    /\ first = [s \in Session |-> None]
    /\ changed = [s \in Session |-> FALSE]
    /\ grown = [s \in Session |-> FALSE]

----------------------------------------------------------------------------
(* The audio thread has a frame of format f, of n samples.                  *)
HasFrame(s) == life[s] = "running" /\ ~over[s]

NeedsResamplerPlanarOnly(s, f) ==   \* mutant: mono is taken as it is
    swr[s] = None /\ f \in Converted /\ f # "mono"

NeedsResampler(s, f) == swr[s] = None /\ f \in Converted

Resampler(s, f) == IF NeedsResampler(s, f) THEN f ELSE swr[s]

BufferSize(s, n) == IF buffer[s] = 0 THEN n ELSE buffer[s]

(* The resampler that makes of f what SDL plays; none makes it of Packed.   *)
Needed(f) ==
    CASE f \in Converted -> f
      [] f = Direct -> None
      [] OTHER -> "impossible"

(* The device that has the number does not play what the player asked for:  *)
(* it has not two channels, or another player opened it, at its own rate.   *)
Misplays(s) ==
    audio_dev[s] >= 2 /\ \E t \in device[audio_dev[s]] : t # s \/ ~stereo[t]

(* What swr_convert, or memcpy_s of the size of n samples for SDL, leaves.  *)
Result(s, f, n) ==
    IF n > BufferSize(s, n) THEN "overrun"
    ELSE IF Resampler(s, f) # Needed(f) THEN "wrong"
    ELSE IF Misplays(s) THEN "misplayed"
    ELSE "right"

Note(s, f, n) ==
    /\ first' = [first EXCEPT ![s] = IF @ = None THEN f ELSE @]
    /\ changed' = [changed EXCEPT ![s] = @ \/ first[s] \notin {None, f}]
    /\ grown' = [grown EXCEPT ![s] = @ \/ (buffer[s] # 0 /\ n > buffer[s])]

(* The device is the one the player was given, if any.                      *)
ToDevice(s) == IF audio_dev[s] >= 2 THEN QueueAudio(s) ELSE UNCHANGED vars

OutputFrame(s, f, n) ==
    /\ HasFrame(s)
    /\ swr' = [swr EXCEPT ![s] = Resampler(s, f)]
    /\ buffer' = [buffer EXCEPT ![s] = BufferSize(s, n)]
    /\ sound' = [sound EXCEPT ![s] = Result(s, f, n)]
    /\ Note(s, f, n)
    /\ ToDevice(s)
    /\ UNCHANGED over

Fail(s) == over' = [over EXCEPT ![s] = TRUE] /\ UNCHANGED <<vars, sound, history>>

(* swr_init fails: the half-made resampler is released.                     *)
ResamplerFails(s, f) ==
    /\ HasFrame(s)
    /\ NeedsResampler(s, f)
    /\ Fail(s)
    /\ UNCHANGED <<swr, buffer>>

(* The buffer cannot be allocated; the resampler stays.                     *)
RunsOut(s, f) ==
    /\ HasFrame(s)
    /\ buffer[s] = 0
    /\ swr' = [swr EXCEPT ![s] = Resampler(s, f)]
    /\ Fail(s)
    /\ UNCHANGED buffer

(* swr_convert fails.                                                       *)
ConvertFails(s, f, n) ==
    /\ HasFrame(s)
    /\ Resampler(s, f) # None
    /\ swr' = [swr EXCEPT ![s] = Resampler(s, f)]
    /\ buffer' = [buffer EXCEPT ![s] = BufferSize(s, n)]
    /\ Fail(s)

AudioThread(s) ==
    \E f \in Formats :
        \/ ResamplerFails(s, f) \/ RunsOut(s, f)
        \/ \E n \in 1 .. MaxSamples : OutputFrame(s, f, n) \/ ConvertFails(s, f, n)

(* stopPlay releases both before it closes the device.                      *)
Release(s) ==
    /\ CloseDevice(s)
    /\ swr' = [swr EXCEPT ![s] = None]
    /\ buffer' = [buffer EXCEPT ![s] = 0]
    /\ UNCHANGED <<over, sound, history>>

Others ==
    /\ \/ \E s \in Session : Construct(s) \/ OpenSucceeds(s) \/ OpenFails(s)
                             \/ StopPlay(s) \/ Join(s) \/ Destroy(s)
       \/ Exhausted
    /\ UNCHANGED <<outputs, history>>

ONext == (\E s \in Session : AudioThread(s) \/ Release(s)) \/ Others

OSpec == OInit /\ [][ONext]_ovars

----------------------------------------------------------------------------
(* 421-463: what is kept from the first frame does no harm to a stream that *)
(* stays as it began: its sound is right, unless its format is packed and   *)
(* not the one asked of SDL, or its device has not two channels (633), or   *)
(* was shaken by the stop of another player.  Samples are written outside   *)
(* the buffer only by a stream whose frames have grown.                     *)
SoundOnlyKnown ==
    \A s \in Session :
        /\ sound[s] = "wrong" => changed[s] \/ first[s] \in Packed
        /\ sound[s] = "overrun" => grown[s]
        /\ sound[s] = "misplayed" => ~stereo[s] \/ shaken[s]
=============================================================================
