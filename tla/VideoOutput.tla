---------------------------- MODULE VideoOutput ----------------------------
(* src/src/ffmpegWrapper.cpp: how the video thread turns decoded frames into*)
(* messages (output_video_frame, retrieve_frame, scale_frame) while the     *)
(* control thread changes the resolution or the dropping of frames, and the *)
(* reader thread opens the decoder.  No lock protects what they share.      *)
(*                                                                          *)
(* The video thread reads the output size anew at each place that needs it; *)
(* each place is a step, and reads width and height together.  The control  *)
(* thread writes width, height and sws_init_ in three steps.  The source    *)
(* may change its own size between two frames.  A picture is its size, a    *)
(* buffer is the number of pixels it holds.                                 *)
EXTENDS Integers

CONSTANTS
    Sources,      \* the sizes of decoded frames, <<width, height>>
    Known,        \* the sizes of gResolution_
    Requests,     \* the sizes a client asks for; <<0, 0>> asks for the source's
    IndexLimit,   \* discard_frame_index_ counts modulo this (2^32 in the code)
    Base,         \* a header byte holds 0 .. Base - 1 (256 in the code)
    MayRunOut     \* whether memory allocations may fail

DISCARD_FRAME_FREQUENCY == 2
None == <<>>
Number == 0 .. Base * Base - 1   \* what the two bytes of a header field hold

ASSUME VideoAssumption ==
    /\ Base \in Nat \ {0}
    /\ Known \cup Sources \subseteq (Number \ {0}) \X (Number \ {0})
    /\ Requests \subseteq Nat \X Nat
    /\ IndexLimit \in Nat \ {0}
    /\ IndexLimit % DISCARD_FRAME_FREQUENCY = 0
    /\ MayRunOut \in BOOLEAN

VARIABLES
    output,      \* <<output_width_, output_height_>>
    sws_init,    \* sws_init_
    sws_ctx,     \* <<the size sws_ctx_ scales from, the size it scales to>>, or None
    frameYUV,    \* the size of the picture frameYUV_, or None
    dst,         \* the pixels video_dst_data_ has room for, 0 when it is null
    gpu,         \* frames come from the GPU, and are NV12 once downloaded
    native,      \* the size of video_dec_ctx_, and of the frame in work
    sw_frame,    \* the size of sw_frame_, None until a frame was downloaded
    discard,     \* discard_frame_enabled_
    index,       \* discard_frame_index_
    ctx_open,    \* how far the reader is: "no" (video_dec_ctx_ is null), "sized"
                 \*   (open, the output size not looked at yet), "yes"
    video_pc,    \* where the video thread is in output_video_frame
    out,         \* tmp_frame2: the size of the picture to send
    size,        \* the local size: pixels of the message
    header,      \* the size written to the message's header, as bytes
    ctl_pc,      \* where the control thread is in changeVideoResolution
    request,     \* the size it was asked for
    broken,      \* "no", "overrun" (pixels outside a picture or a buffer were
                 \*   accessed), "null" (a null pointer was dereferenced)
    clean,       \* history: no frame overlapped the last change, nor one since
    prev         \* history: the fate of the last frame, dropping being enabled

vout == <<output, sws_init>>
vbuf == <<sws_ctx, frameYUV, dst>>
vloc == <<out, size, header>>
vctl == <<ctl_pc, request>>
vdrop == <<discard, index, prev>>
vsrc == <<gpu, native, sw_frame>>
vars == <<vout, vbuf, vloc, vctl, vdrop, vsrc, ctx_open, video_pc, broken, clean>>

Pixels(s) == s[1] * s[2]
Within(s, t) == s[1] <= t[1] /\ s[2] <= t[2]

(* The two bytes of a number, big end first, and the client's reading.      *)
Encode(n) == <<(n \div Base) % Base, n % Base>>
Decode(b) == b[1] * Base + b[2]
DecodeSize(h) == <<Decode(h[1]), Decode(h[2])>>

(* The session cuts what a client asks for to uint16_t.                     *)
CutNot(s) == s   \* mutant: the numbers keep their width
Cut(s) == <<s[1] % (Base * Base), s[2] % (Base * Base)>>

(* checkVideoResolution.                                                    *)
checkVideoResolution(s) == s \in Known

VTypeOK ==
    /\ output \in Number \X Number
    /\ sws_init \in BOOLEAN
    /\ {frameYUV, out} \subseteq (Number \X Number) \cup {None}
    /\ sws_ctx \in (Sources \X (Number \X Number)) \cup {None}
    /\ native \in Sources
    /\ sw_frame \in Sources \cup {None}
    /\ dst \in Nat
    /\ size \in Nat
    /\ gpu \in BOOLEAN
    /\ discard \in BOOLEAN
    /\ index \in 0 .. IndexLimit - 1
    /\ ctx_open \in {"no", "sized", "yes"}
    /\ video_pc \in {"idle", "scale", "ctx", "yuv", "init", "sws", "size",
                     "head", "copy", "dead"}
    /\ header = None \/ DecodeSize(header) \in Number \X Number
    /\ ctl_pc \in {"idle", "width", "height", "flag"}
    /\ request \in (Number \X Number) \cup {None}
    /\ ctl_pc # "idle" => request # None
    /\ broken \in {"no", "overrun", "null"}
    /\ clean \in BOOLEAN
    /\ prev \in {"none", "kept", "dropped"}

Init ==
    /\ output \in {Cut(r) : r \in Requests}
    /\ sws_init = FALSE
    /\ sws_ctx = None
    /\ frameYUV = None
    /\ dst = 0
    /\ gpu \in BOOLEAN
    /\ native \in Sources
    /\ sw_frame = None
    /\ discard = TRUE
    /\ index = 0
    /\ ctx_open = "no"
    /\ video_pc = "idle"
    /\ out = None
    /\ size = 0
    /\ header = None
    /\ ctl_pc = "idle"
    /\ request = None
    /\ broken = "no"
    /\ clean = TRUE
    /\ prev = "none"

----------------------------------------------------------------------------
(* The reader opens the video decoder; then it keeps the size the client    *)
(* asked for if that is a known one (the test and its assignments, which a  *)
(* change can overlap, are one step here).                                  *)
OpenDecoder ==
    /\ broken = "no"
    /\ ctx_open = "no"
    /\ ctx_open' = "sized"
    /\ UNCHANGED <<vout, vbuf, vloc, vctl, vdrop, vsrc, video_pc, broken, clean>>

ChooseSize ==
    /\ broken = "no"
    /\ ctx_open = "sized"
    /\ ctx_open' = "yes"
    /\ output' = IF checkVideoResolution(output) THEN output ELSE native
    /\ clean' = (clean /\ ctl_pc = "idle")
    /\ UNCHANGED <<sws_init, vbuf, vloc, vctl, vdrop, vsrc, video_pc, broken>>

----------------------------------------------------------------------------
(* The video thread.                                                        *)

VideoGo(from, to) ==
    /\ broken = "no"
    /\ video_pc = from
    /\ video_pc' = to
    /\ clean' = (clean /\ ctl_pc = "idle")
    /\ UNCHANGED <<vctl, gpu, native, ctx_open>>

Break(how) == broken' = how

(* The locals of output_video_frame go out of scope.                        *)
Return == out' = None /\ size' = 0 /\ header' = None

(* A frame comes out of the decoder: it is dropped, or goes on.  The frame  *)
(* counter moves only while dropping is enabled.                            *)
NextIndexUnwrapped == index + 1   \* mutant: the counter has no width

NextIndex == (index + 1) % IndexLimit

DropFrame ==
    /\ ctx_open = "yes"
    /\ discard
    /\ NextIndex % DISCARD_FRAME_FREQUENCY = 0
    /\ VideoGo("idle", "idle")
    /\ index' = NextIndex
    /\ prev' = "dropped"
    /\ UNCHANGED <<vout, vbuf, vloc, discard, sw_frame, broken>>

\* Mutant: only dropped frames are counted.
KeepFrameUncounted ==
    /\ ctx_open = "yes"
    /\ discard => NextIndex % DISCARD_FRAME_FREQUENCY # 0
    /\ VideoGo("idle", "scale")
    /\ prev' = IF discard THEN "kept" ELSE "none"
    /\ UNCHANGED <<vout, vbuf, vloc, discard, index, sw_frame, broken>>

KeepFrame ==
    /\ ctx_open = "yes"
    /\ discard => NextIndex % DISCARD_FRAME_FREQUENCY # 0
    /\ VideoGo("idle", "scale")
    /\ index' = IF discard THEN NextIndex ELSE index
    /\ prev' = IF discard THEN "kept" ELSE "none"
    /\ UNCHANGED <<vout, vbuf, vloc, discard, sw_frame, broken>>

(* retrieve_frame: a download from the GPU that fails is not reported to    *)
(* its caller, which goes on with a null frame.                             *)
DownloadFails ==
    /\ gpu
    /\ VideoGo("scale", "dead")
    /\ Break("null")
    /\ UNCHANGED <<vout, vbuf, vloc, vdrop, sw_frame>>

(* A frame of the GPU is downloaded to sw_frame_, whose picture is made for *)
(* the first one and never given back: In is the size of what comes out.    *)
In == IF gpu /\ sw_frame # None THEN sw_frame ELSE native

Retrieve == sw_frame' = IF gpu THEN In ELSE sw_frame

(* scale_frame: a frame that has the wanted size and format is sent as it   *)
(* is; nothing is released then.                                            *)
ScaleNative ==
    /\ gpu
    /\ output = In
    /\ VideoGo("scale", "size")
    /\ Retrieve
    /\ out' = In
    /\ UNCHANGED <<vout, vbuf, size, header, vdrop, broken>>

\* Mutants: the picture, or the message's buffer, survives a change of size.
ScaleResetKeepsFrame ==
    /\ ~(gpu /\ output = In)
    /\ VideoGo("scale", "ctx")
    /\ Retrieve
    /\ IF sws_init THEN UNCHANGED vbuf
                   ELSE sws_ctx' = None /\ dst' = 0 /\ UNCHANGED frameYUV
    /\ UNCHANGED <<vout, vloc, vdrop, broken>>

ScaleResetKeepsBuffer ==
    /\ ~(gpu /\ output = In)
    /\ VideoGo("scale", "ctx")
    /\ Retrieve
    /\ IF sws_init THEN UNCHANGED vbuf
                   ELSE sws_ctx' = None /\ frameYUV' = None /\ UNCHANGED dst
    /\ UNCHANGED <<vout, vloc, vdrop, broken>>

(* Otherwise what a changed size made stale is released first.              *)
ScaleReset ==
    /\ ~(gpu /\ output = In)
    /\ VideoGo("scale", "ctx")
    /\ Retrieve
    /\ IF sws_init THEN UNCHANGED vbuf
                   ELSE sws_ctx' = None /\ frameYUV' = None /\ dst' = 0
    /\ UNCHANGED <<vout, vloc, vdrop, broken>>

MakeContext ==
    /\ VideoGo("ctx", "yuv")
    /\ sws_ctx' = IF sws_ctx = None THEN <<In, output>> ELSE sws_ctx
    /\ UNCHANGED <<vout, frameYUV, dst, vloc, vdrop, sw_frame, broken>>

(* sws_getContext finds no memory, or no way to scale this format: its null *)
(* pointer is not looked at (306).                                          *)
NoContext ==
    /\ MayRunOut
    /\ VideoGo("ctx", "yuv")
    /\ sws_ctx = None
    /\ UNCHANGED <<vout, vbuf, vloc, vdrop, sw_frame, broken>>

MakeFrame ==
    /\ VideoGo("yuv", IF frameYUV = None THEN "init" ELSE "sws")
    /\ frameYUV' = IF frameYUV = None THEN output ELSE frameYUV
    /\ UNCHANGED <<vout, sws_ctx, dst, vloc, vdrop, sw_frame, broken>>

SetInit ==
    /\ VideoGo("init", "sws")
    /\ sws_init' = TRUE
    /\ UNCHANGED <<output, vbuf, vloc, vdrop, sw_frame, broken>>

(* sws_scale, with a context made for frames and pictures of other sizes:   *)
(* it refuses a frame taller than those, which ends the video thread.       *)
TooTall == In[2] > sws_ctx[1][2]

ScaleRefused ==
    /\ VideoGo("sws", "dead")
    /\ sws_ctx # None /\ TooTall
    /\ Return
    /\ UNCHANGED <<vout, vbuf, vdrop, sw_frame, broken>>

(* Of a narrower frame it reads past the rows, in a smaller picture it      *)
(* writes outside of it, and a null context it dereferences.                *)
ScaleFits == sws_ctx[1][1] <= In[1] /\ Within(sws_ctx[2], frameYUV)

ScaleBreaks ==
    /\ VideoGo("sws", "dead")
    /\ \/ sws_ctx = None /\ Break("null")
       \/ sws_ctx # None /\ ~TooTall /\ ~ScaleFits /\ Break("overrun")
    /\ UNCHANGED <<vout, vbuf, vloc, vdrop, sw_frame>>

(* It returns the lines it wrote, fewer (or none) of them from a lower      *)
(* frame.  When they are not the picture's the number is returned as        *)
(* success, without a frame, and the copy dereferences the null frame.      *)
ScaleFrame ==
    /\ VideoGo("sws", "size")
    /\ sws_ctx # None /\ ~TooTall
    /\ ScaleFits
    /\ \/ out' = frameYUV /\ sws_ctx[2][2] = frameYUV[2]
       \/ out' = None /\ (sws_ctx[2][2] # frameYUV[2] \/ In[2] < sws_ctx[1][2])
    /\ UNCHANGED <<vout, vbuf, size, header, vdrop, sw_frame, broken>>

(* The message's buffer is kept from frame to frame.                        *)
MakeBuffer ==
    /\ VideoGo("size", "head")
    /\ size' = Pixels(output)
    /\ dst' = IF dst = 0 THEN Pixels(output) ELSE dst
    /\ UNCHANGED <<vout, sws_ctx, frameYUV, out, header, vdrop, sw_frame, broken>>

(* A frame from before the start of the stream (pts < 0) is not sent.       *)
EarlyFrame ==
    /\ VideoGo("head", "idle")
    /\ Return
    /\ UNCHANGED <<vout, vbuf, vdrop, sw_frame, broken>>

WriteHeader ==
    /\ VideoGo("head", "copy")
    /\ header' = <<Encode(output[1]), Encode(output[2])>>
    /\ UNCHANGED <<vout, vbuf, out, size, vdrop, sw_frame, broken>>

(* av_image_copy_to_buffer copies a picture of the output size; it refuses  *)
(* one larger than the local size, which ends the video thread.             *)
CopyRefused ==
    /\ out # None
    /\ Pixels(output) > size
    /\ VideoGo("copy", "dead")
    /\ Return
    /\ UNCHANGED <<vout, vbuf, vdrop, sw_frame, broken>>

(* The picture has all the pixels that are copied, and the buffer room.     *)
Fits == Within(output, out) /\ Pixels(output) <= dst

CopyBreaks ==
    /\ VideoGo("copy", "dead")
    /\ \/ out = None /\ Break("null")
       \/ out # None /\ Pixels(output) <= size /\ ~Fits /\ Break("overrun")
    /\ UNCHANGED <<vout, vbuf, vloc, vdrop, sw_frame>>

(* The copy, and the callback that sends the message.                       *)
Sends == video_pc = "copy" /\ out # None /\ Pixels(output) <= size /\ Fits

CopyAndSend ==
    /\ Sends
    /\ VideoGo("copy", "idle")
    /\ Return
    /\ UNCHANGED <<vout, vbuf, vdrop, sw_frame, broken>>

(* The allocation of the picture or of the buffer fails: the error ends the *)
(* video thread.                                                            *)
RunsOut ==
    /\ MayRunOut
    /\ \/ VideoGo("yuv", "dead") /\ frameYUV = None
       \/ VideoGo("size", "dead") /\ dst = 0
    /\ Return
    /\ UNCHANGED <<vout, vbuf, vdrop, sw_frame, broken>>

Video ==
    \/ DropFrame \/ KeepFrame \/ DownloadFails \/ ScaleNative \/ ScaleReset
    \/ MakeContext \/ NoContext \/ MakeFrame \/ SetInit \/ ScaleRefused \/ ScaleBreaks
    \/ ScaleFrame \/ MakeBuffer \/ EarlyFrame \/ WriteHeader \/ CopyRefused \/ CopyBreaks \/ CopyAndSend
    \/ RunsOut

----------------------------------------------------------------------------
(* The control thread.                                                      *)

CtlGo(from, to) ==
    /\ broken = "no"
    /\ ctl_pc = from
    /\ ctl_pc' = to
    /\ UNCHANGED <<vbuf, vloc, vdrop, vsrc, ctx_open, video_pc>>

(* changeVideoResolution: a width or a height of 0 stands for the size of   *)
(* the decoder, whose context may not exist yet.                            *)
Target == IF request[1] = 0 \/ request[2] = 0 THEN native ELSE request

CallChange ==
    /\ CtlGo("idle", "width")
    /\ request' \in {Cut(r) : r \in Requests}
    /\ UNCHANGED <<vout, broken, clean>>

SetWidth ==
    /\ CtlGo("width", "height")
    /\ IF ctx_open = "no" /\ (request[1] = 0 \/ request[2] = 0)
       THEN Break("null") /\ UNCHANGED <<output, clean>>
       ELSE /\ output' = <<Target[1], output[2]>>
            /\ clean' = (video_pc = "idle")
            /\ UNCHANGED broken
    /\ UNCHANGED <<sws_init, request>>

SetHeight ==
    /\ CtlGo("height", "flag")
    /\ output' = <<output[1], Target[2]>>
    /\ clean' = (clean /\ video_pc = "idle")
    /\ UNCHANGED <<sws_init, request, broken>>

ClearInit ==
    /\ CtlGo("flag", "idle")
    /\ sws_init' = FALSE
    /\ request' = None
    /\ clean' = (clean /\ video_pc = "idle")
    /\ UNCHANGED <<output, broken>>

(* openDiscardFrames.                                                       *)
OpenDiscardFrames ==
    /\ broken = "no"
    /\ ctl_pc = "idle"
    /\ discard' \in BOOLEAN
    /\ prev' = IF discard' = discard THEN prev ELSE "none"
    /\ UNCHANGED <<vout, vbuf, vloc, vctl, index, vsrc, ctx_open, video_pc, broken, clean>>

Control == CallChange \/ SetWidth \/ SetHeight \/ ClearInit \/ OpenDiscardFrames

----------------------------------------------------------------------------
(* Environment: between two frames the source goes over to another size.    *)
SourceChanges ==
    /\ broken = "no"
    /\ video_pc = "idle"
    /\ ctx_open # "no"
    /\ native' \in Sources \ {native}
    /\ UNCHANGED <<vout, vbuf, vloc, vctl, vdrop, gpu, sw_frame, ctx_open,
                   video_pc, broken, clean>>

Halted == broken # "no" /\ UNCHANGED vars

Next ==
    \/ OpenDecoder \/ ChooseSize \/ Video \/ Control \/ SourceChanges \/ Halted

Spec == Init /\ [][Next]_vars

----------------------------------------------------------------------------
(* A message sent while nothing overlapped the last change of resolution is *)
(* whole: the client reads from its header the size of the picture that     *)
(* follows, which is the size asked for.  A change that no frame overlaps   *)
(* also repairs whatever an earlier one broke (295-302).                    *)
CleanFrames ==
    Sends /\ clean => DecodeSize(header) = output /\ out = output

(* The scaler was made for another size of frames than the one at hand.     *)
Resized == sws_ctx # None /\ sws_ctx[1] # native

(* There is a picture to scale to, and no scaler.                           *)
Unscaled == sws_ctx = None /\ frameYUV # None

(* Memory is misused only when a change overlaps the work on a frame, when  *)
(* the source's size is asked for before the decoder exists, when the       *)
(* source changed its size (303: the scaler keeps the first), or by frames  *)
(* of the GPU: those that cannot be downloaded, and those sent as they are  *)
(* in a buffer made for a smaller size (289-293, 362), or when the scaler   *)
(* could not be made (306, 333).                                            *)
BreaksOnlyKnown ==
    /\ broken = "overrun" => ~clean \/ Resized \/ (gpu /\ output = In)
    /\ broken = "null" => ~clean \/ Resized \/ gpu \/ ctx_open = "no"
                            \/ (MayRunOut /\ Unscaled)

(* ffmpegWrapper.h:63: of two frames in a row one is dropped, as long as    *)
(* dropping stays enabled, and never both, also when the counter wraps.     *)
OneOfTwo ==
    [][/\ (video_pc' = "scale" /\ video_pc = "idle" /\ discard) => prev # "kept"
       /\ index' # index /\ video_pc' = "idle" => prev # "dropped"]_vars

(* docs: the header holds the width and height of the video that follows.   *)
(* Fails: a change of resolution that overlaps the work on a frame is lost  *)
(* on sws_init_, or is seen by the header but not by the picture.           *)
HeaderMatchesPicture == Sends => DecodeSize(header) = out
=============================================================================
