------------------------------ MODULE Decoders ------------------------------
(* src/src/ffmpegWrapper.cpp: the players of one process open hardware      *)
(* decoders (hw_get_config, hw_decoder_open, hw_decoder_init), FFmpeg asks  *)
(* hw_get_format which format to decode to, and retrieve_frame downloads    *)
(* the frames of that format.  hw_pix_fmt_ is one variable for all players. *)
(*                                                                          *)
(* A device and the pixel format of its frames have one name; "soft" is the *)
(* format of a software decoder.  A codec is the set of devices it supports.*)
(* How FFmpeg treats the answer of hw_get_format is external: a format      *)
(* whose device the context does not hold, or that the device cannot        *)
(* decode, is struck off its list, and the question put again.              *)
CONSTANTS
    Player,
    Codecs      \* the codecs of the inputs, each a set of devices

Device == {"d3d11va", "dxva2"}

ASSUME DecodersAssumption == Codecs \subseteq SUBSET Device

VARIABLES
    hw_pix_fmt,    \* hw_pix_fmt_, shared
    pc,            \* [Player -> how far the player is]
    codec,         \* [Player -> the codec of its input]
    device_type,   \* [Player -> device_type_]
    get_format,    \* [Player -> the context's get_format is hw_get_format]
    device,        \* [Player -> the context holds a device]
    rejected,      \* [Player -> formats FFmpeg has struck off]
    format,        \* [Player -> the format its decoder yields, "none" before]
    frame,         \* [Player -> what retrieve_frame made of the last frame]
    disturbed      \* history: [Player -> another device was configured since
                   \*   this player configured its own]

opening == <<codec, device_type, get_format, device>>
vars == <<hw_pix_fmt, pc, opening, rejected, format, frame, disturbed>>

PC == {"new", "format", "device", "open", "live", "refused", "ended", "freed"}

DTypeOK ==
    /\ hw_pix_fmt \in Device \cup {"none"}
    /\ pc \in [Player -> PC]
    /\ codec \in [Player -> Codecs]
    /\ device_type \in [Player -> Device \cup {"none"}]
    /\ get_format \in [Player -> BOOLEAN]
    /\ device \in [Player -> BOOLEAN]
    /\ rejected \in [Player -> SUBSET Device]
    /\ format \in [Player -> Device \cup {"none", "soft"}]
    /\ frame \in [Player -> {"none", "passed", "downloaded", "misread"}]
    /\ disturbed \in [Player -> BOOLEAN]

Init ==
    /\ hw_pix_fmt = "none"
    /\ pc = [p \in Player |-> "new"]
    /\ codec \in [Player -> Codecs]
    /\ device_type = [p \in Player |-> "none"]
    /\ get_format = [p \in Player |-> FALSE]
    /\ device = [p \in Player |-> FALSE]
    /\ rejected = [p \in Player |-> {}]
    /\ format = [p \in Player |-> "none"]
    /\ frame = [p \in Player |-> "none"]
    /\ disturbed = [p \in Player |-> FALSE]

Go(p, from, to) == pc[p] = from /\ pc' = [pc EXCEPT ![p] = to]

decoding == <<rejected, format, frame>>

----------------------------------------------------------------------------
(* The reader of a player opens the video decoder.                          *)

(* hw_decoder_open: D3D11VA is looked for first, then DXVA2.                *)
ChoiceSoft(c) ==   \* mutant: a configuration without a device is taken
    IF "d3d11va" \in c THEN "d3d11va" ELSE "soft"
Choice(c) == IF "d3d11va" \in c THEN "d3d11va" ELSE "dxva2"

(* useGPU_ is 0, or the codec supports no device: the context is opened as  *)
(* it is.                                                                   *)
OpenSoft(p) ==
    /\ Go(p, "new", "open")
    /\ UNCHANGED <<hw_pix_fmt, opening, decoding, disturbed>>

(* hw_get_config                                                            *)
ConfigureOnce(p) ==   \* mutant: hw_pix_fmt_ keeps its first value
    /\ codec[p] # {}
    /\ Go(p, "new", "format")
    /\ device_type' = [device_type EXCEPT ![p] = Choice(codec[p])]
    /\ hw_pix_fmt' = IF hw_pix_fmt = "none" THEN Choice(codec[p]) ELSE hw_pix_fmt
    /\ disturbed' = [q \in Player |->
           q # p /\ (disturbed[q] \/ device_type[q] \notin {"none", Choice(codec[p])})]
    /\ UNCHANGED <<codec, get_format, device, decoding>>

Configure(p) ==
    /\ codec[p] # {}
    /\ Go(p, "new", "format")
    /\ device_type' = [device_type EXCEPT ![p] = Choice(codec[p])]
    /\ hw_pix_fmt' = Choice(codec[p])
    /\ disturbed' = [q \in Player |->
           q # p /\ (disturbed[q] \/ device_type[q] \notin {"none", Choice(codec[p])})]
    /\ UNCHANGED <<codec, get_format, device, decoding>>

SetGetFormat(p) ==
    /\ Go(p, "format", "device")
    /\ get_format' = [get_format EXCEPT ![p] = TRUE]
    /\ UNCHANGED <<hw_pix_fmt, codec, device_type, device, decoding, disturbed>>

(* hw_decoder_init.  When it fails only a warning is logged; get_format     *)
(* stays set.                                                               *)
CreateDevice(p) ==
    /\ Go(p, "device", "open")
    /\ device' \in {device, [device EXCEPT ![p] = TRUE]}
    /\ UNCHANGED <<hw_pix_fmt, codec, device_type, get_format, decoding, disturbed>>

(* avcodec_open2                                                            *)
OpenDecoder(p) ==
    /\ \/ Go(p, "open", "live")
       \/ Go(p, "open", "ended")
    /\ UNCHANGED <<hw_pix_fmt, opening, decoding, disturbed>>

----------------------------------------------------------------------------
(* The video thread of a player.                                            *)

Deciding(p) == pc[p] = "live" /\ format[p] = "none"

(* Without get_format FFmpeg takes the software format.                     *)
DecideSoft(p) ==
    /\ Deciding(p)
    /\ ~get_format[p]
    /\ format' = [format EXCEPT ![p] = "soft"]
    /\ UNCHANGED <<hw_pix_fmt, pc, opening, rejected, frame, disturbed>>

(* hw_get_format is called: the answer is hw_pix_fmt_, if it is offered ... *)
Offered(p) == codec[p] \ rejected[p]
Usable(p) == device[p] /\ device_type[p] = hw_pix_fmt

DecideHardware(p) ==
    /\ Deciding(p)
    /\ get_format[p]
    /\ hw_pix_fmt \in Offered(p)
    /\ Usable(p)
    /\ format' = [format EXCEPT ![p] = hw_pix_fmt]
    /\ UNCHANGED <<hw_pix_fmt, pc, opening, rejected, frame, disturbed>>

StrikeOff(p) ==
    /\ Deciding(p)
    /\ get_format[p]
    /\ hw_pix_fmt \in Offered(p)
    /\ rejected' = [rejected EXCEPT ![p] = @ \cup {hw_pix_fmt}]
    /\ UNCHANGED <<hw_pix_fmt, pc, opening, format, frame, disturbed>>

(* ... or AV_PIX_FMT_NONE, and decoding fails, which ends the thread.       *)
DecideNone(p) ==
    /\ Deciding(p)
    /\ get_format[p]
    /\ hw_pix_fmt \notin Offered(p)
    /\ Go(p, "live", "refused")
    /\ UNCHANGED <<hw_pix_fmt, opening, decoding, disturbed>>

(* retrieve_frame, with a frame of the decoder's format: what is not        *)
(* hw_pix_fmt_ is taken for a frame in memory, and what comes of it is      *)
(* undefined.                                                               *)
RetrieveInverted(p) ==   \* mutant: == for !=
    IF format[p] # hw_pix_fmt THEN "downloaded" ELSE "misread"

Retrieve(p) ==
    CASE format[p] = hw_pix_fmt -> "downloaded"
      [] format[p] = "soft" -> "passed"
      [] OTHER -> "misread"

RetrieveFrame(p) ==
    /\ format[p] # "none"
    /\ \/ Go(p, "live", "live")
       \/ Retrieve(p) = "misread" /\ Go(p, "live", "ended")
    /\ frame' = [frame EXCEPT ![p] = Retrieve(p)]
    /\ UNCHANGED <<hw_pix_fmt, opening, rejected, format, disturbed>>

(* The stream changes its parameters, and FFmpeg asks again.                *)
ChangeParameters(p) ==
    /\ pc[p] = "live"
    /\ format' = [format EXCEPT ![p] = "none"]
    /\ rejected' = [rejected EXCEPT ![p] = {}]
    /\ UNCHANGED <<hw_pix_fmt, pc, opening, frame, disturbed>>

(* Any other error of the decoder.                                          *)
DecodeFails(p) ==
    /\ Go(p, "live", "ended")
    /\ UNCHANGED <<hw_pix_fmt, opening, decoding, disturbed>>

Video(p) ==
    \/ DecideSoft(p) \/ DecideHardware(p) \/ StrikeOff(p) \/ DecideNone(p)
    \/ RetrieveFrame(p) \/ ChangeParameters(p) \/ DecodeFails(p)

----------------------------------------------------------------------------
(* stopPlay, once the threads have been joined: the context and the device  *)
(* are released.                                                            *)
Free(p) ==
    /\ pc[p] \in {"live", "refused", "ended"}
    /\ pc' = [pc EXCEPT ![p] = "freed"]
    /\ device' = [device EXCEPT ![p] = FALSE]
    /\ format' = [format EXCEPT ![p] = "none"]
    /\ UNCHANGED <<hw_pix_fmt, codec, device_type, get_format, rejected, frame, disturbed>>

(* All players are used up: an end of the instance only.                    *)
Exhausted == (\A p \in Player : pc[p] = "freed") /\ UNCHANGED vars

Next ==
    \/ \E p \in Player :
        \/ OpenSoft(p) \/ Configure(p) \/ SetGetFormat(p) \/ CreateDevice(p)
        \/ OpenDecoder(p) \/ Video(p) \/ Free(p)
    \/ Exhausted

Spec == Init /\ [][Next]_vars

----------------------------------------------------------------------------
(* 273, 653: a frame of the GPU is taken for one in memory only when        *)
(* another player has configured another device since this one did.         *)
MisreadOnlyDisturbed ==
    \A p \in Player : frame[p] = "misread" => disturbed[p]

(* 616: a player that gets no format at all was disturbed likewise, or its  *)
(* device was not created or cannot decode the stream; a player that uses   *)
(* no GPU always gets one.                                                  *)
RefusedOnlyKnown ==
    \A p \in Player : pc[p] = "refused" =>
        get_format[p] /\ (disturbed[p] \/ ~device[p] \/ rejected[p] # {})
=============================================================================
