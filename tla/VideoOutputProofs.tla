-------------------------- MODULE VideoOutputProofs --------------------------
(* Proofs about VideoOutput, for any sizes, any header base and any width of *)
(* the frame counter.                                                       *)
EXTENDS VideoOutput, TLAPS

(* The frame in work is sent as it is (289-293).                            *)
AsItIs == gpu /\ output = In

(* Nothing overlapped the last change, and no other one is under way.       *)
Settled == clean /\ ctl_pc \in {"idle", "width"}

(* Until the output size was chosen the video thread has no frame.          *)
Fresh == ctx_open # "yes" => video_pc = "idle" /\ ~sws_init

(* While a change that nothing overlaps is under way there is no frame.     *)
Apart == clean /\ ctl_pc \in {"height", "flag"} => video_pc = "idle"

(* A downloaded frame has the size of sw_frame_, for which the scaler is.   *)
Downloaded ==
    gpu => /\ video_pc \notin {"idle", "scale", "dead"} => sw_frame # None
           /\ sws_ctx # None => sw_frame # None /\ sws_ctx[1] = sw_frame

(* A scaler that could not be made is missed as soon as there is a picture. *)
Scaled ==
    /\ Unscaled => MayRunOut /\ (video_pc \in {"init", "sws"} \/ broken = "null")
    /\ video_pc \in {"init", "sws"} => frameYUV # None
    /\ video_pc = "yuv" /\ sws_ctx = None => MayRunOut

(* sws_init_ says that scaler, picture and buffer are for the output size.  *)
Made ==
    Settled /\ sws_init =>
        /\ sws_ctx # None => sws_ctx[2] = output
        /\ frameYUV = output
        /\ dst \in {0, Pixels(output)}

(* What a frame has found or made, at each place, when nothing overlaps.    *)
Staged ==
    Settled =>
        /\ video_pc = "ctx" => sws_init \/ (sws_ctx = None /\ frameYUV = None /\ dst = 0)
        /\ video_pc = "yuv" =>
              sws_init \/ ((sws_ctx # None => sws_ctx[2] = output) /\ frameYUV = None /\ dst = 0)
        /\ video_pc = "init" =>
              (sws_ctx # None => sws_ctx[2] = output) /\ frameYUV = output /\ dst = 0
        /\ video_pc = "sws" => sws_init
        /\ video_pc \in {"size", "head", "copy"} =>
              /\ \/ AsItIs /\ out = output
                 \/ sws_init /\ out \in {output, None}
              /\ ~gpu /\ out = None => Resized
        /\ video_pc \in {"head", "copy"} =>
              size = Pixels(output) /\ (AsItIs \/ dst = Pixels(output))
        /\ video_pc = "copy" => header = <<Encode(output[1]), Encode(output[2])>>

(* The counter's parity is the fate of the last frame.                      *)
Parity ==
    /\ prev = "kept" => index % DISCARD_FRAME_FREQUENCY = 1
    /\ prev = "dropped" => index % DISCARD_FRAME_FREQUENCY = 0

VInv ==
    /\ VTypeOK /\ Fresh /\ Apart /\ Downloaded /\ Scaled /\ Made /\ Staged
    /\ BreaksOnlyKnown

----------------------------------------------------------------------------
(* Numbers, sizes and the header.                                           *)

LEMMA NumberFacts == Base * Base \in Nat \ {0} /\ Number \subseteq Nat
  <1>1. Base * Base \in Nat \ {0}  BY VideoAssumption
  <1> QED  BY <1>1 DEF Number

(* A size is no None, and has a natural number of pixels.                   *)
LEMMA SizeFacts ==
  ASSUME NEW s \in Number \X Number
  PROVE  s # None /\ Pixels(s) \in Nat /\ Within(s, s)
  <1>0. s[1] \in Number /\ s[2] \in Number /\ s = <<s[1], s[2]>>  OBVIOUS
  <1>1. s[1] \in Nat /\ s[2] \in Nat  BY <1>0, NumberFacts
  <1>2. s # None
    <2>1. \A m, n : <<m, n>> # <<>>  OBVIOUS
    <2> QED  BY <1>0, <2>1 DEF None
  <1>3. Pixels(s) \in Nat
    <2>1. \A m, n \in Nat : m * n \in Nat  OBVIOUS
    <2> QED  BY <1>1, <2>1 DEF Pixels
  <1>4. Within(s, s)  BY <1>1 DEF Within
  <1> QED  BY <1>2, <1>3, <1>4

LEMMA CutFacts ==
  ASSUME NEW r \in Requests
  PROVE  Cut(r) \in Number \X Number
  <1>1. \A m \in Nat \ {0}, n \in Nat : n % m \in 0 .. m - 1  OBVIOUS
  <1>2. r[1] \in Nat /\ r[2] \in Nat  BY VideoAssumption
  <1> QED  BY <1>1, <1>2, NumberFacts DEF Cut, Number

(* What a header says is what was put into it.                              *)
LEMMA DecodeEncode ==
  ASSUME NEW n \in Number
  PROVE  Decode(Encode(n)) = n
  <1> DEFINE q == n \div Base
  <1>1. n \in Nat /\ n < Base * Base /\ Base \in Nat \ {0}
    BY NumberFacts, VideoAssumption DEF Number
  <1>2. q \in Nat /\ n = Base * q + (n % Base) /\ n % Base \in 0 .. Base - 1
    BY <1>1
  <1>3. q < Base
    <2>1. \A a, b \in Nat : a >= b => b * a >= b * b  OBVIOUS
    <2>2. Base * q <= n  BY <1>1, <1>2
    <2> QED  BY <1>1, <1>2, <2>1, <2>2
  <1> HIDE DEF q
  <1>4. q % Base = q  BY <1>1, <1>2, <1>3
  <1>5. Decode(Encode(n)) = (q % Base) * Base + (n % Base)
    BY DEF Decode, Encode, q
  <1>6. q * Base = Base * q  BY <1>1, <1>2
  <1> QED  BY <1>2, <1>4, <1>5, <1>6

(* The client reads from the bytes of a header the size that was put into   *)
(* them, whatever the base (371-378).                                       *)
THEOREM HeaderSays ==
  ASSUME NEW s \in Number \X Number
  PROVE  DecodeSize(<<Encode(s[1]), Encode(s[2])>>) = s
  <1>1. s[1] \in Number /\ s[2] \in Number /\ s = <<s[1], s[2]>>  OBVIOUS
  <1> QED  BY <1>1, DecodeEncode DEF DecodeSize

LEMMA PairFacts == \A m, n : <<m, n>> # None
  BY DEF None

LEMMA InSize ==
  ASSUME VTypeOK
  PROVE  /\ In \in Sources /\ In \in Number \X Number
         /\ Sources \subseteq Number \X Number
  <1>1. Sources \subseteq Number \X Number  BY VideoAssumption
  <1>2. In \in Sources  BY DEF In, VTypeOK
  <1> QED  BY <1>1, <1>2

----------------------------------------------------------------------------
(* The inductive invariant holds at the start.                              *)
LEMMA InitInv == Init => VInv /\ Parity
  <1> SUFFICES ASSUME Init PROVE VInv /\ Parity  OBVIOUS
  <1> USE VideoAssumption DEF Init
  <1>1. VTypeOK
    <2>1. output \in Number \X Number  BY CutFacts
    <2>2. index \in 0 .. IndexLimit - 1  OBVIOUS
    <2> QED  BY <2>1, <2>2 DEF VTypeOK
  <1>2. Fresh /\ Apart /\ Downloaded /\ Scaled /\ Made /\ Staged /\ BreaksOnlyKnown /\ Parity
    BY DEF Scaled, Unscaled, Fresh, Apart, Downloaded, Made, Staged, BreaksOnlyKnown, Settled, Parity
  <1> QED  BY <1>1, <1>2 DEF VInv

(* Every step preserves the inductive invariant.                            *)
LEMMA Inductive == VInv /\ [Next]_vars => VInv'
  <1> SUFFICES ASSUME VInv, [Next]_vars PROVE VInv'  OBVIOUS
  <1> USE VideoAssumption DEF VInv
  <1>1. ASSUME OpenDecoder PROVE VInv'
    <2> USE <1>1 DEF OpenDecoder, vout, vbuf, vloc, vctl, vdrop, vsrc
    <2>1. VTypeOK'  BY DEF VTypeOK
    <2>2. Fresh'  BY DEF VTypeOK, Fresh
    <2>3. Apart'  BY DEF VTypeOK, Fresh, Apart
    <2>4. Downloaded'  BY DEF VTypeOK, Fresh, Downloaded, In
    <2>5. Made'  BY DEF VTypeOK, Fresh, Made, Settled, Apart
    <2>6. Staged'  BY DEF VTypeOK, Fresh, Staged, Made, Settled, Apart, AsItIs, In, Resized, Downloaded
    <2>7. BreaksOnlyKnown'  BY DEF VTypeOK, BreaksOnlyKnown, Resized, In, Unscaled
    <2>8. Scaled'  BY DEF VTypeOK, Scaled, Unscaled
    <2> QED  BY <2>1, <2>2, <2>3, <2>4, <2>5, <2>6, <2>7, <2>8
  <1>2. ASSUME ChooseSize PROVE VInv'
    <2> USE <1>2 DEF ChooseSize, checkVideoResolution, vout, vbuf, vloc, vctl, vdrop, vsrc
    <2>1. VTypeOK'  BY DEF VTypeOK
    <2>2. Fresh'  BY DEF VTypeOK, Fresh
    <2>3. Apart'  BY DEF VTypeOK, Fresh, Apart
    <2>4. Downloaded'  BY DEF VTypeOK, Fresh, Downloaded, In
    <2>5. Made'  BY DEF VTypeOK, Fresh, Made, Settled, Apart
    <2>6. Staged'  BY DEF VTypeOK, Fresh, Staged, Made, Settled, Apart, AsItIs, In, Resized, Downloaded
    <2>7. BreaksOnlyKnown'  BY DEF VTypeOK, BreaksOnlyKnown, Resized, In, Unscaled
    <2>8. Scaled'  BY DEF VTypeOK, Scaled, Unscaled
    <2> QED  BY <2>1, <2>2, <2>3, <2>4, <2>5, <2>6, <2>7, <2>8
  <1>3. ASSUME DropFrame PROVE VInv'
    <2> USE <1>3 DEF DropFrame, VideoGo, NextIndex, vout, vbuf, vloc, vctl, vdrop, vsrc
    <2>1. VTypeOK'  BY DEF VTypeOK
    <2>2. Fresh'  BY DEF VTypeOK, Fresh
    <2>3. Apart'  BY DEF VTypeOK, Fresh, Apart
    <2>4. Downloaded'  BY DEF VTypeOK, Fresh, Downloaded, In
    <2>5. Made'  BY DEF VTypeOK, Fresh, Made, Settled, Apart
    <2>6. Staged'  BY DEF VTypeOK, Fresh, Staged, Made, Settled, Apart, AsItIs, In, Resized, Downloaded
    <2>7. BreaksOnlyKnown'  BY DEF VTypeOK, BreaksOnlyKnown, Resized, In, Unscaled
    <2>8. Scaled'  BY DEF VTypeOK, Scaled, Unscaled
    <2> QED  BY <2>1, <2>2, <2>3, <2>4, <2>5, <2>6, <2>7, <2>8
  <1>4. ASSUME KeepFrame PROVE VInv'
    <2> USE <1>4 DEF KeepFrame, VideoGo, NextIndex, vout, vbuf, vloc, vctl, vdrop, vsrc
    <2>1. VTypeOK'  BY DEF VTypeOK
    <2>2. Fresh'  BY DEF VTypeOK, Fresh
    <2>3. Apart'  BY DEF VTypeOK, Fresh, Apart
    <2>4. Downloaded'  BY DEF VTypeOK, Fresh, Downloaded, In
    <2>5. Made'  BY DEF VTypeOK, Fresh, Made, Settled, Apart
    <2>6. Staged'  BY DEF VTypeOK, Fresh, Staged, Made, Settled, Apart, AsItIs, In, Resized, Downloaded
    <2>7. BreaksOnlyKnown'  BY DEF VTypeOK, BreaksOnlyKnown, Resized, In, Unscaled
    <2>8. Scaled'  BY DEF VTypeOK, Scaled, Unscaled
    <2> QED  BY <2>1, <2>2, <2>3, <2>4, <2>5, <2>6, <2>7, <2>8
  <1>5. ASSUME DownloadFails PROVE VInv'
    <2> USE <1>5 DEF DownloadFails, VideoGo, Break, vout, vbuf, vloc, vctl, vdrop, vsrc
    <2>1. VTypeOK'  BY DEF VTypeOK
    <2>2. Fresh'  BY DEF VTypeOK, Fresh
    <2>3. Apart'  BY DEF VTypeOK, Fresh, Apart
    <2>4. Downloaded'  BY DEF VTypeOK, Fresh, Downloaded, In
    <2>5. Made'  BY DEF VTypeOK, Fresh, Made, Settled, Apart
    <2>6. Staged'  BY DEF VTypeOK, Fresh, Staged, Made, Settled, Apart, AsItIs, In, Resized, Downloaded
    <2>7. BreaksOnlyKnown'  BY DEF VTypeOK, BreaksOnlyKnown, Resized, In, Unscaled
    <2>8. Scaled'  BY DEF VTypeOK, Scaled, Unscaled
    <2> QED  BY <2>1, <2>2, <2>3, <2>4, <2>5, <2>6, <2>7, <2>8
  <1>6. ASSUME ScaleNative PROVE VInv'
    <2> USE <1>6 DEF ScaleNative, VideoGo, Retrieve, vout, vbuf, vloc, vctl, vdrop, vsrc
    <2>1. VTypeOK'  BY InSize DEF VTypeOK
    <2>2. Fresh'  BY DEF VTypeOK, Fresh
    <2>3. Apart'  BY DEF VTypeOK, Fresh, Apart
    <2>4. Downloaded'  BY SizeFacts, CutFacts DEF VTypeOK, Fresh, Downloaded, In
    <2>5. Made'  BY DEF VTypeOK, Fresh, Made, Settled, Apart
    <2>6. Staged'  BY DEF VTypeOK, Fresh, Staged, Made, Settled, Apart, AsItIs, In, Resized, Downloaded
    <2>7. BreaksOnlyKnown'  BY DEF VTypeOK, BreaksOnlyKnown, Resized, In, Unscaled
    <2>8. Scaled'  BY DEF VTypeOK, Scaled, Unscaled
    <2> QED  BY <2>1, <2>2, <2>3, <2>4, <2>5, <2>6, <2>7, <2>8
  <1>7. ASSUME ScaleReset PROVE VInv'
    <2> USE <1>7 DEF ScaleReset, VideoGo, Retrieve, vout, vbuf, vloc, vctl, vdrop, vsrc
    <2>1. VTypeOK'  BY InSize DEF VTypeOK
    <2>2. Fresh'  BY DEF VTypeOK, Fresh
    <2>3. Apart'  BY DEF VTypeOK, Fresh, Apart
    <2>4. Downloaded'  BY SizeFacts, CutFacts DEF VTypeOK, Fresh, Downloaded, In
    <2>5. Made'  BY DEF VTypeOK, Fresh, Made, Settled, Apart
    <2>6. Staged'  BY DEF VTypeOK, Fresh, Staged, Made, Settled, Apart, AsItIs, In, Resized, Downloaded
    <2>7. BreaksOnlyKnown'  BY DEF VTypeOK, BreaksOnlyKnown, Resized, In, Unscaled
    <2>8. Scaled'  BY DEF VTypeOK, Scaled, Unscaled
    <2> QED  BY <2>1, <2>2, <2>3, <2>4, <2>5, <2>6, <2>7, <2>8
  <1>8. ASSUME MakeContext PROVE VInv'
    <2> USE <1>8 DEF MakeContext, VideoGo, vout, vbuf, vloc, vctl, vdrop, vsrc
    <2>1. VTypeOK'  BY InSize DEF VTypeOK
    <2>2. Fresh'  BY DEF VTypeOK, Fresh
    <2>3. Apart'  BY DEF VTypeOK, Fresh, Apart
    <2>4. Downloaded'  BY DEF VTypeOK, Fresh, Downloaded, In
    <2>5. Made'  BY DEF VTypeOK, Fresh, Made, Settled, Apart
    <2>6. Staged'  BY InSize, PairFacts, SizeFacts DEF VTypeOK, Staged, Made, Settled, AsItIs, Resized
    <2>7. BreaksOnlyKnown'  BY DEF VTypeOK, BreaksOnlyKnown, Resized, In, Unscaled
    <2>8. Scaled'  BY PairFacts DEF VTypeOK, Scaled, Unscaled
    <2> QED  BY <2>1, <2>2, <2>3, <2>4, <2>5, <2>6, <2>7, <2>8
  <1>9. ASSUME MakeFrame PROVE VInv'
    <2> USE <1>9 DEF MakeFrame, VideoGo, vout, vbuf, vloc, vctl, vdrop, vsrc
    <2>1. VTypeOK'  BY DEF VTypeOK
    <2>2. Fresh'  BY DEF VTypeOK, Fresh
    <2>3. Apart'  BY DEF VTypeOK, Fresh, Apart
    <2>4. Downloaded'  BY DEF VTypeOK, Fresh, Downloaded, In
    <2>5. Made'  BY DEF VTypeOK, Fresh, Made, Settled, Apart
    <2>6. Staged'  BY SizeFacts, CutFacts DEF VTypeOK, Fresh, Staged, Made, Settled, Apart, AsItIs, In, Resized, Downloaded
    <2>7. BreaksOnlyKnown'  BY DEF VTypeOK, BreaksOnlyKnown, Resized, In, Unscaled
    <2>8. Scaled'  BY SizeFacts DEF VTypeOK, Scaled, Unscaled
    <2> QED  BY <2>1, <2>2, <2>3, <2>4, <2>5, <2>6, <2>7, <2>8
  <1>10. ASSUME SetInit PROVE VInv'
    <2> USE <1>10 DEF SetInit, VideoGo, vout, vbuf, vloc, vctl, vdrop, vsrc
    <2>1. VTypeOK'  BY DEF VTypeOK
    <2>2. Fresh'  BY DEF VTypeOK, Fresh
    <2>3. Apart'  BY DEF VTypeOK, Fresh, Apart
    <2>4. Downloaded'  BY DEF VTypeOK, Fresh, Downloaded, In
    <2>5. Made'  BY DEF VTypeOK, Made, Staged, Settled
    <2>6. Staged'  BY DEF VTypeOK, Fresh, Staged, Made, Settled, Apart, AsItIs, In, Resized, Downloaded
    <2>7. BreaksOnlyKnown'  BY DEF VTypeOK, BreaksOnlyKnown, Resized, In, Unscaled
    <2>8. Scaled'  BY DEF VTypeOK, Scaled, Unscaled
    <2> QED  BY <2>1, <2>2, <2>3, <2>4, <2>5, <2>6, <2>7, <2>8
  <1>11. ASSUME ScaleRefused PROVE VInv'
    <2> USE <1>11 DEF ScaleRefused, VideoGo, Return, vout, vbuf, vloc, vctl, vdrop, vsrc
    <2>1. VTypeOK'  BY DEF VTypeOK
    <2>2. Fresh'  BY DEF VTypeOK, Fresh
    <2>3. Apart'  BY DEF VTypeOK, Fresh, Apart
    <2>4. Downloaded'  BY DEF VTypeOK, Fresh, Downloaded, In
    <2>5. Made'  BY DEF VTypeOK, Fresh, Made, Settled, Apart
    <2>6. Staged'  BY DEF VTypeOK, Fresh, Staged, Made, Settled, Apart, AsItIs, In, Resized, Downloaded
    <2>7. BreaksOnlyKnown'  BY DEF VTypeOK, BreaksOnlyKnown, Resized, In, Unscaled
    <2>8. Scaled'  BY DEF VTypeOK, Scaled, Unscaled
    <2> QED  BY <2>1, <2>2, <2>3, <2>4, <2>5, <2>6, <2>7, <2>8
  <1>12. ASSUME ScaleBreaks PROVE VInv'
    <2> USE <1>12 DEF ScaleBreaks, VideoGo, Break, vout, vbuf, vloc, vctl, vdrop, vsrc
    <2>1. VTypeOK'  BY DEF VTypeOK
    <2>2. Fresh'  BY DEF VTypeOK, Fresh
    <2>3. Apart'  BY DEF VTypeOK, Fresh, Apart
    <2>4. Downloaded'  BY DEF VTypeOK, Fresh, Downloaded, In
    <2>5. Made'  BY DEF VTypeOK, Fresh, Made, Settled, Apart
    <2>6. Staged'  BY DEF VTypeOK, Fresh, Staged, Made, Settled, Apart, AsItIs, In, Resized, Downloaded
    <2>7. BreaksOnlyKnown'
      <3>0. CASE sws_ctx = None
        BY <3>0 DEF BreaksOnlyKnown, Scaled, Unscaled, VTypeOK
      <3> SUFFICES ASSUME clean', ~Resized, sws_ctx # None PROVE FALSE
        BY <3>0 DEF BreaksOnlyKnown, Resized
      <3>1. Settled /\ sws_init  BY DEF VTypeOK, Staged, Settled
      <3>2. sws_ctx # None /\ sws_ctx[2] = output /\ frameYUV = output
        BY <3>1 DEF Made
      <3>3. Within(sws_ctx[2], frameYUV)  BY <3>2, SizeFacts DEF VTypeOK
      <3>4. sws_ctx[1] = In
        BY <3>2 DEF Resized, In, Downloaded
      <3>5. In[1] \in Nat  BY InSize, NumberFacts
      <3>6. sws_ctx[1][1] <= In[1]  BY <3>4, <3>5
      <3> QED  BY <3>3, <3>6 DEF ScaleFits
    <2>8. Scaled'  BY DEF VTypeOK, Scaled, Unscaled
    <2> QED  BY <2>1, <2>2, <2>3, <2>4, <2>5, <2>6, <2>7, <2>8
  <1>13. ASSUME ScaleFrame PROVE VInv'
    <2> USE <1>13 DEF ScaleFrame, VideoGo, TooTall, ScaleFits, vout, vbuf, vloc, vctl, vdrop, vsrc
    <2>1. VTypeOK'  BY DEF VTypeOK
    <2>2. Fresh'  BY DEF VTypeOK, Fresh
    <2>3. Apart'  BY DEF VTypeOK, Fresh, Apart
    <2>4. Downloaded'  BY DEF VTypeOK, Fresh, Downloaded, In
    <2>5. Made'  BY DEF VTypeOK, Fresh, Made, Settled, Apart
    <2>6. Staged'
      <3> SUFFICES ASSUME Settled' PROVE Staged'  BY DEF Staged
      <3>1. Settled /\ sws_init  BY DEF VTypeOK, Staged, Settled
      <3>2. sws_ctx # None /\ sws_ctx[2] = output /\ frameYUV = output
        BY <3>1 DEF Made
      <3>3. out' = None => In[2] < sws_ctx[1][2]  BY <3>2, SizeFacts DEF VTypeOK
      <3>4. ~gpu /\ out' = None => Resized'
        BY <3>2, <3>3, InSize, NumberFacts DEF Resized, In
      <3> QED  BY <3>1, <3>2, <3>4 DEF Staged
    <2>7. BreaksOnlyKnown'  BY DEF VTypeOK, BreaksOnlyKnown, Resized, In, Unscaled
    <2>8. Scaled'  BY DEF VTypeOK, Scaled, Unscaled
    <2> QED  BY <2>1, <2>2, <2>3, <2>4, <2>5, <2>6, <2>7, <2>8
  <1>14. ASSUME MakeBuffer PROVE VInv'
    <2> USE <1>14 DEF MakeBuffer, VideoGo, vout, vbuf, vloc, vctl, vdrop, vsrc
    <2>1. VTypeOK'  BY SizeFacts, CutFacts DEF VTypeOK
    <2>2. Fresh'  BY DEF VTypeOK, Fresh
    <2>3. Apart'  BY DEF VTypeOK, Fresh, Apart
    <2>4. Downloaded'  BY DEF VTypeOK, Fresh, Downloaded, In
    <2>5. Made'  BY DEF VTypeOK, Fresh, Made, Settled, Apart
    <2>6. Staged'  BY DEF VTypeOK, Fresh, Staged, Made, Settled, Apart, AsItIs, In, Resized, Downloaded
    <2>7. BreaksOnlyKnown'  BY DEF VTypeOK, BreaksOnlyKnown, Resized, In, Unscaled
    <2>8. Scaled'  BY DEF VTypeOK, Scaled, Unscaled
    <2> QED  BY <2>1, <2>2, <2>3, <2>4, <2>5, <2>6, <2>7, <2>8
  <1>15. ASSUME EarlyFrame PROVE VInv'
    <2> USE <1>15 DEF EarlyFrame, VideoGo, Return, vout, vbuf, vloc, vctl, vdrop, vsrc
    <2>1. VTypeOK'  BY DEF VTypeOK
    <2>2. Fresh'  BY DEF VTypeOK, Fresh
    <2>3. Apart'  BY DEF VTypeOK, Fresh, Apart
    <2>4. Downloaded'  BY DEF VTypeOK, Fresh, Downloaded, In
    <2>5. Made'  BY DEF VTypeOK, Fresh, Made, Settled, Apart
    <2>6. Staged'  BY DEF VTypeOK, Fresh, Staged, Made, Settled, Apart, AsItIs, In, Resized, Downloaded
    <2>7. BreaksOnlyKnown'  BY DEF VTypeOK, BreaksOnlyKnown, Resized, In, Unscaled
    <2>8. Scaled'  BY DEF VTypeOK, Scaled, Unscaled
    <2> QED  BY <2>1, <2>2, <2>3, <2>4, <2>5, <2>6, <2>7, <2>8
  <1>16. ASSUME WriteHeader PROVE VInv'
    <2> USE <1>16 DEF WriteHeader, VideoGo, vout, vbuf, vloc, vctl, vdrop, vsrc
    <2>1. VTypeOK'  BY HeaderSays DEF VTypeOK
    <2>2. Fresh'  BY DEF VTypeOK, Fresh
    <2>3. Apart'  BY DEF VTypeOK, Fresh, Apart
    <2>4. Downloaded'  BY DEF VTypeOK, Fresh, Downloaded, In
    <2>5. Made'  BY DEF VTypeOK, Fresh, Made, Settled, Apart
    <2>6. Staged'  BY DEF VTypeOK, Fresh, Staged, Made, Settled, Apart, AsItIs, In, Resized, Downloaded
    <2>7. BreaksOnlyKnown'  BY DEF VTypeOK, BreaksOnlyKnown, Resized, In, Unscaled
    <2>8. Scaled'  BY DEF VTypeOK, Scaled, Unscaled
    <2> QED  BY <2>1, <2>2, <2>3, <2>4, <2>5, <2>6, <2>7, <2>8
  <1>17. ASSUME CopyRefused PROVE VInv'
    <2> USE <1>17 DEF CopyRefused, VideoGo, Return, vout, vbuf, vloc, vctl, vdrop, vsrc
    <2>1. VTypeOK'  BY DEF VTypeOK
    <2>2. Fresh'  BY DEF VTypeOK, Fresh
    <2>3. Apart'  BY DEF VTypeOK, Fresh, Apart
    <2>4. Downloaded'  BY DEF VTypeOK, Fresh, Downloaded, In
    <2>5. Made'  BY DEF VTypeOK, Fresh, Made, Settled, Apart
    <2>6. Staged'  BY DEF VTypeOK, Fresh, Staged, Made, Settled, Apart, AsItIs, In, Resized, Downloaded
    <2>7. BreaksOnlyKnown'  BY DEF VTypeOK, BreaksOnlyKnown, Resized, In, Unscaled
    <2>8. Scaled'  BY DEF VTypeOK, Scaled, Unscaled
    <2> QED  BY <2>1, <2>2, <2>3, <2>4, <2>5, <2>6, <2>7, <2>8
  <1>18. ASSUME CopyBreaks PROVE VInv'
    <2> USE <1>18 DEF CopyBreaks, VideoGo, Break, vout, vbuf, vloc, vctl, vdrop, vsrc
    <2>1. VTypeOK'  BY DEF VTypeOK
    <2>2. Fresh'  BY DEF VTypeOK, Fresh
    <2>3. Apart'  BY DEF VTypeOK, Fresh, Apart
    <2>4. Downloaded'  BY DEF VTypeOK, Fresh, Downloaded, In
    <2>5. Made'  BY DEF VTypeOK, Fresh, Made, Settled, Apart
    <2>6. Staged'  BY DEF VTypeOK, Fresh, Staged, Made, Settled, Apart, AsItIs, In, Resized, Downloaded
    <2>7. BreaksOnlyKnown'
      <3> SUFFICES ASSUME clean', ~Resized, ~AsItIs
                   PROVE  (broken' = "overrun" => FALSE) /\ (broken' = "null" => gpu)
        BY DEF BreaksOnlyKnown, Resized, AsItIs, In
      <3>1. Settled  BY DEF Settled
      <3>2. out \in {output, None} /\ dst = Pixels(output)  BY <3>1 DEF Staged
      <3>3. out # None => Fits
        BY <3>2, SizeFacts DEF VTypeOK, Fits
      <3>4. ~gpu => out # None  BY <3>1 DEF Staged
      <3> QED  BY <3>3, <3>4
    <2>8. Scaled'  BY DEF VTypeOK, Scaled, Unscaled
    <2> QED  BY <2>1, <2>2, <2>3, <2>4, <2>5, <2>6, <2>7, <2>8
  <1>19. ASSUME CopyAndSend PROVE VInv'
    <2> USE <1>19 DEF CopyAndSend, VideoGo, Sends, Return, vout, vbuf, vloc, vctl, vdrop, vsrc
    <2>1. VTypeOK'  BY DEF VTypeOK
    <2>2. Fresh'  BY DEF VTypeOK, Fresh
    <2>3. Apart'  BY DEF VTypeOK, Fresh, Apart
    <2>4. Downloaded'  BY DEF VTypeOK, Fresh, Downloaded, In
    <2>5. Made'  BY DEF VTypeOK, Fresh, Made, Settled, Apart
    <2>6. Staged'  BY DEF VTypeOK, Fresh, Staged, Made, Settled, Apart, AsItIs, In, Resized, Downloaded
    <2>7. BreaksOnlyKnown'  BY DEF VTypeOK, BreaksOnlyKnown, Resized, In, Unscaled
    <2>8. Scaled'  BY DEF VTypeOK, Scaled, Unscaled
    <2> QED  BY <2>1, <2>2, <2>3, <2>4, <2>5, <2>6, <2>7, <2>8
  <1>20. ASSUME RunsOut PROVE VInv'
    <2> USE <1>20 DEF RunsOut, VideoGo, Return, vout, vbuf, vloc, vctl, vdrop, vsrc
    <2>1. VTypeOK'
      <3>1. out' = None /\ size' = 0 /\ header' = None /\ video_pc' = "dead"  OBVIOUS
      <3>2. clean' \in BOOLEAN  BY DEF VTypeOK
      <3>3. UNCHANGED <<vout, vbuf, vdrop, vctl, vsrc, ctx_open, broken>>  OBVIOUS
      <3> HIDE <1>20 DEF RunsOut, VideoGo, Return
      <3> QED  BY <3>1, <3>2, <3>3 DEF VTypeOK
    <2>2. Fresh'  BY DEF VTypeOK, Fresh
    <2>3. Apart'  BY DEF VTypeOK, Fresh, Apart
    <2>4. Downloaded'  BY DEF VTypeOK, Fresh, Downloaded, In
    <2>5. Made'  BY DEF VTypeOK, Fresh, Made, Settled, Apart
    <2>6. Staged'  BY DEF VTypeOK, Fresh, Staged, Made, Settled, Apart, AsItIs, In, Resized, Downloaded
    <2>7. BreaksOnlyKnown'  BY DEF VTypeOK, BreaksOnlyKnown, Resized, In, Unscaled
    <2>8. Scaled'  BY DEF VTypeOK, Scaled, Unscaled
    <2> QED  BY <2>1, <2>2, <2>3, <2>4, <2>5, <2>6, <2>7, <2>8
  <1>21. ASSUME CallChange PROVE VInv'
    <2> USE <1>21 DEF CallChange, CtlGo, vout, vbuf, vloc, vctl, vdrop, vsrc
    <2>1. VTypeOK'  BY SizeFacts, CutFacts DEF VTypeOK
    <2>2. Fresh'  BY DEF VTypeOK, Fresh
    <2>3. Apart'  BY DEF VTypeOK, Fresh, Apart
    <2>4. Downloaded'  BY DEF VTypeOK, Fresh, Downloaded, In
    <2>5. Made'  BY DEF VTypeOK, Fresh, Made, Settled, Apart
    <2>6. Staged'  BY DEF VTypeOK, Fresh, Staged, Made, Settled, Apart, AsItIs, In, Resized, Downloaded
    <2>7. BreaksOnlyKnown'  BY DEF VTypeOK, BreaksOnlyKnown, Resized, In, Unscaled
    <2>8. Scaled'  BY DEF VTypeOK, Scaled, Unscaled
    <2> QED  BY <2>1, <2>2, <2>3, <2>4, <2>5, <2>6, <2>7, <2>8
  <1>22. ASSUME SetWidth PROVE VInv'
    <2> USE <1>22 DEF SetWidth, CtlGo, Break, Target, vout, vbuf, vloc, vctl, vdrop, vsrc
    <2>1. VTypeOK'
      <3>1. Sources \subseteq Number \X Number  BY DEF Number
      <3>2. native[1] \in Number /\ native[2] \in Number  BY <3>1 DEF VTypeOK
      <3>3. output' \in Number \X Number
        BY <3>2 DEF VTypeOK
      <3>4. /\ sws_init' = sws_init /\ request' = request
            /\ broken' \in {"no", "overrun", "null"} /\ clean' \in BOOLEAN
            /\ ctl_pc' \in {"idle", "width", "height", "flag"}
        BY DEF VTypeOK
      <3>5. request' # None  BY DEF VTypeOK
      <3>6. UNCHANGED <<vbuf, vloc, vdrop, vsrc, ctx_open, video_pc>>  OBVIOUS
      <3> HIDE <1>22 DEF SetWidth, CtlGo, Target, Break
      <3> QED  BY <3>3, <3>4, <3>5, <3>6 DEF VTypeOK
    <2>2. Fresh'  BY DEF VTypeOK, Fresh
    <2>3. Apart'  BY DEF VTypeOK, Fresh, Apart
    <2>4. Downloaded'  BY DEF VTypeOK, Fresh, Downloaded, In
    <2>5. Made'  BY DEF VTypeOK, Fresh, Made, Settled, Apart
    <2>6. Staged'  BY DEF VTypeOK, Fresh, Staged, Made, Settled, Apart, AsItIs, In, Resized, Downloaded
    <2>7. BreaksOnlyKnown'  BY DEF VTypeOK, BreaksOnlyKnown, Resized, In, Unscaled
    <2>8. Scaled'  BY DEF VTypeOK, Scaled, Unscaled
    <2> QED  BY <2>1, <2>2, <2>3, <2>4, <2>5, <2>6, <2>7, <2>8
  <1>23. ASSUME SetHeight PROVE VInv'
    <2> USE <1>23 DEF SetHeight, CtlGo, Target, vout, vbuf, vloc, vctl, vdrop, vsrc
    <2>1. VTypeOK'
      <3>1. Sources \subseteq Number \X Number  BY DEF Number
      <3>2. native[1] \in Number /\ native[2] \in Number  BY <3>1 DEF VTypeOK
      <3>3. output' \in Number \X Number
        BY <3>2 DEF VTypeOK
      <3>4. /\ sws_init' = sws_init /\ request' = request
            /\ broken' \in {"no", "overrun", "null"} /\ clean' \in BOOLEAN
            /\ ctl_pc' \in {"idle", "width", "height", "flag"}
        BY DEF VTypeOK
      <3>5. request' # None  BY DEF VTypeOK
      <3>6. UNCHANGED <<vbuf, vloc, vdrop, vsrc, ctx_open, video_pc>>  OBVIOUS
      <3> HIDE <1>23 DEF SetHeight, CtlGo, Target
      <3> QED  BY <3>3, <3>4, <3>5, <3>6 DEF VTypeOK
    <2>2. Fresh'  BY DEF VTypeOK, Fresh
    <2>3. Apart'  BY DEF VTypeOK, Fresh, Apart
    <2>4. Downloaded'  BY DEF VTypeOK, Fresh, Downloaded, In
    <2>5. Made'  BY DEF VTypeOK, Fresh, Made, Settled, Apart
    <2>6. Staged'  BY DEF VTypeOK, Fresh, Staged, Made, Settled, Apart, AsItIs, In, Resized, Downloaded
    <2>7. BreaksOnlyKnown'  BY DEF VTypeOK, BreaksOnlyKnown, Resized, In, Unscaled
    <2>8. Scaled'  BY DEF VTypeOK, Scaled, Unscaled
    <2> QED  BY <2>1, <2>2, <2>3, <2>4, <2>5, <2>6, <2>7, <2>8
  <1>24. ASSUME ClearInit PROVE VInv'
    <2> USE <1>24 DEF ClearInit, CtlGo, vout, vbuf, vloc, vctl, vdrop, vsrc
    <2>1. VTypeOK'
      <3>1. request' = None /\ ctl_pc' = "idle" /\ sws_init' = FALSE  OBVIOUS
      <3>2. clean' \in BOOLEAN  BY DEF VTypeOK
      <3>3. UNCHANGED <<vbuf, vloc, vdrop, vsrc, ctx_open, video_pc, output, broken>>
        OBVIOUS
      <3>4. request' \in (Number \X Number) \cup {None}  BY <3>1
      <3> HIDE <1>24 DEF ClearInit, CtlGo
      <3>5. /\ sws_init' \in BOOLEAN
            /\ ctl_pc' \in {"idle", "width", "height", "flag"}
            /\ ctl_pc' # "idle" => request' # None
        BY <3>1
      <3> HIDE <3>1
      <3> QED  BY <3>2, <3>3, <3>4, <3>5 DEF VTypeOK
    <2>2. Fresh'  BY DEF VTypeOK, Fresh
    <2>3. Apart'  BY DEF VTypeOK, Fresh, Apart
    <2>4. Downloaded'  BY DEF VTypeOK, Fresh, Downloaded, In
    <2>5. Made'  BY DEF VTypeOK, Fresh, Made, Settled, Apart
    <2>6. Staged'  BY DEF VTypeOK, Fresh, Staged, Made, Settled, Apart, AsItIs, In, Resized, Downloaded
    <2>7. BreaksOnlyKnown'  BY DEF VTypeOK, BreaksOnlyKnown, Resized, In, Unscaled
    <2>8. Scaled'  BY DEF VTypeOK, Scaled, Unscaled
    <2> QED  BY <2>1, <2>2, <2>3, <2>4, <2>5, <2>6, <2>7, <2>8
  <1>25. ASSUME OpenDiscardFrames PROVE VInv'
    <2> USE <1>25 DEF OpenDiscardFrames, vout, vbuf, vloc, vctl, vdrop, vsrc
    <2>1. VTypeOK'  BY DEF VTypeOK
    <2>2. Fresh'  BY DEF VTypeOK, Fresh
    <2>3. Apart'  BY DEF VTypeOK, Fresh, Apart
    <2>4. Downloaded'  BY DEF VTypeOK, Fresh, Downloaded, In
    <2>5. Made'  BY DEF VTypeOK, Fresh, Made, Settled, Apart
    <2>6. Staged'  BY DEF VTypeOK, Fresh, Staged, Made, Settled, Apart, AsItIs, In, Resized, Downloaded
    <2>7. BreaksOnlyKnown'  BY DEF VTypeOK, BreaksOnlyKnown, Resized, In, Unscaled
    <2>8. Scaled'  BY DEF VTypeOK, Scaled, Unscaled
    <2> QED  BY <2>1, <2>2, <2>3, <2>4, <2>5, <2>6, <2>7, <2>8
  <1>26. ASSUME SourceChanges PROVE VInv'
    <2> USE <1>26 DEF SourceChanges, vout, vbuf, vloc, vctl, vdrop, vsrc
    <2>1. VTypeOK'  BY DEF VTypeOK
    <2>2. Fresh'  BY DEF VTypeOK, Fresh
    <2>3. Apart'  BY DEF VTypeOK, Fresh, Apart
    <2>4. Downloaded'  BY DEF VTypeOK, Fresh, Downloaded, In
    <2>5. Made'  BY DEF VTypeOK, Fresh, Made, Settled, Apart
    <2>6. Staged'  BY DEF VTypeOK, Fresh, Staged, Made, Settled, Apart, AsItIs, In, Resized, Downloaded
    <2>7. BreaksOnlyKnown'  BY DEF VTypeOK, BreaksOnlyKnown, Resized, In, Unscaled
    <2>8. Scaled'  BY DEF VTypeOK, Scaled, Unscaled
    <2> QED  BY <2>1, <2>2, <2>3, <2>4, <2>5, <2>6, <2>7, <2>8
  <1>28. ASSUME NoContext PROVE VInv'
    <2> USE <1>28 DEF NoContext, VideoGo, vout, vbuf, vloc, vctl, vdrop, vsrc
    <2>1. VTypeOK'  BY InSize DEF VTypeOK
    <2>2. Fresh'  BY DEF VTypeOK, Fresh
    <2>3. Apart'  BY DEF VTypeOK, Fresh, Apart
    <2>4. Downloaded'  BY DEF VTypeOK, Fresh, Downloaded, In
    <2>5. Made'  BY DEF VTypeOK, Fresh, Made, Settled, Apart
    <2>6. Staged'  BY InSize, PairFacts, SizeFacts DEF VTypeOK, Staged, Made, Settled, AsItIs, Resized
    <2>7. BreaksOnlyKnown'  BY DEF VTypeOK, BreaksOnlyKnown, Resized, In, Unscaled
    <2>8. Scaled'  BY DEF VTypeOK, Scaled, Unscaled
    <2> QED  BY <2>1, <2>2, <2>3, <2>4, <2>5, <2>6, <2>7, <2>8
  <1>27. CASE UNCHANGED vars
    BY <1>27 DEF vars, vout, vbuf, vloc, vctl, vdrop, vsrc, VTypeOK, Fresh, Apart, Downloaded,
       Scaled, Unscaled, Made, Staged, BreaksOnlyKnown, Settled, AsItIs, In, Resized
  <1> QED
    BY <1>1, <1>2, <1>3, <1>4, <1>5, <1>6, <1>7, <1>8, <1>9, <1>10, <1>11, <1>12, <1>13, <1>14, <1>15, <1>16, <1>17, <1>18, <1>19, <1>20, <1>21, <1>22, <1>23, <1>24, <1>25, <1>26, <1>27, <1>28
       DEF Next, Video, Control, Halted

----------------------------------------------------------------------------
(* The inductive invariant holds throughout.                                *)
LEMMA Invariance == Spec => []VInv
  BY InitInv, Inductive, PTL DEF Spec

(* VTypeOK: the types of the state hold, for every width of the counter and *)
(* of the header's fields.                                                  *)
THEOREM VideoTypeCorrect == Spec => []VTypeOK
  <1>1. VInv => VTypeOK  BY DEF VInv
  <1> QED  BY Invariance, <1>1, PTL

(* BreaksOnlyKnown: whatever the sizes, output_video_frame misuses memory   *)
(* only in the cases that it names.                                         *)
THEOREM BreaksAreKnown == Spec => []BreaksOnlyKnown
  <1>1. VInv => BreaksOnlyKnown  BY DEF VInv
  <1> QED  BY Invariance, <1>1, PTL

(* CleanFrames: a frame that no change of resolution overlapped is sent     *)
(* whole, in the size its header says and the client asked for.             *)
THEOREM CleanFramesAreWhole == Spec => []CleanFrames
  <1>1. VInv => CleanFrames
    <2> SUFFICES ASSUME VInv, Sends, clean
                 PROVE  DecodeSize(header) = output /\ out = output
      BY DEF CleanFrames
    <2> USE DEF VInv
    <2>1. video_pc = "copy" /\ out # None  BY DEF Sends
    <2>2. Settled  BY <2>1 DEF Settled, Apart, VTypeOK
    <2>3. /\ out = output
          /\ header = <<Encode(output[1]), Encode(output[2])>>
      BY <2>1, <2>2 DEF Staged
    <2> QED  BY <2>3, HeaderSays DEF VTypeOK
  <1> QED  BY Invariance, <1>1, PTL

(* The counter goes from even to odd and back, also where it wraps: its     *)
(* width is even.                                                           *)
LEMMA NextParity ==
  ASSUME VTypeOK
  PROVE  /\ index % DISCARD_FRAME_FREQUENCY = 1 =>
               NextIndex % DISCARD_FRAME_FREQUENCY = 0
         /\ index % DISCARD_FRAME_FREQUENCY = 0 =>
               NextIndex % DISCARD_FRAME_FREQUENCY = 1
  <1> USE DEF NextIndex, DISCARD_FRAME_FREQUENCY
  <1>0. /\ index \in Nat /\ index < IndexLimit
        /\ IndexLimit \in Nat \ {0} /\ IndexLimit % 2 = 0
    BY VideoAssumption DEF VTypeOK
  <1>1. CASE index + 1 = IndexLimit
    <2>1. NextIndex = 0  BY <1>0, <1>1
    <2>2. index % 2 = 1  BY <1>0, <1>1
    <2> QED  BY <2>1, <2>2
  <1>2. CASE index + 1 < IndexLimit
    <2>1. NextIndex = index + 1  BY <1>0, <1>2
    <2> QED  BY <1>0, <2>1
  <1> QED  BY <1>0, <1>1, <1>2

LEMMA ParityInductive == VTypeOK /\ Parity /\ [Next]_vars => Parity'
  <1> SUFFICES ASSUME VTypeOK, Parity, [Next]_vars PROVE Parity'  OBVIOUS
  <1> USE DEF vdrop
  <1>1. CASE DropFrame
    <2>1. index' % DISCARD_FRAME_FREQUENCY = 0 /\ prev' = "dropped"
      BY <1>1 DEF DropFrame
    <2> QED  BY <2>1 DEF Parity
  <1>2. CASE KeepFrame
    <2>1. CASE discard
      <3>1. index % DISCARD_FRAME_FREQUENCY \in {0, 1}
        BY DEF VTypeOK, DISCARD_FRAME_FREQUENCY
      <3>2. index' % DISCARD_FRAME_FREQUENCY = 1 /\ prev' = "kept"
        BY <1>2, <2>1, <3>1, NextParity DEF KeepFrame
      <3> QED  BY <3>2 DEF Parity
    <2>2. CASE ~discard
      <3>1. prev' = "none"  BY <1>2, <2>2 DEF KeepFrame
      <3> QED  BY <3>1 DEF Parity
    <2> QED  BY <2>1, <2>2
  <1>3. CASE OpenDiscardFrames
    BY <1>3 DEF OpenDiscardFrames, Parity
  <1>4. ASSUME UNCHANGED vdrop PROVE Parity'
    BY <1>4 DEF Parity
  <1>5. ASSUME ~DropFrame, ~KeepFrame, ~OpenDiscardFrames PROVE UNCHANGED vdrop
    BY <1>5 DEF Next, Video, Control, Halted, vars, OpenDecoder, ChooseSize,
       DownloadFails, ScaleNative, ScaleReset, MakeContext, NoContext, MakeFrame, SetInit,
       ScaleRefused, ScaleBreaks, ScaleFrame, MakeBuffer, EarlyFrame, WriteHeader,
       CopyRefused, CopyBreaks, CopyAndSend, RunsOut, CallChange, SetWidth,
       SetHeight, ClearInit, CtlGo, SourceChanges
  <1> QED  BY <1>1, <1>2, <1>3, <1>4, <1>5

(* OneOfTwo: dropping enabled, of two frames in a row exactly one is        *)
(* dropped, for every even width of the counter.                            *)
THEOREM OneOfTwoIsDropped == Spec => OneOfTwo
  <1> DEFINE A ==
        /\ (video_pc' = "scale" /\ video_pc = "idle" /\ discard) => prev # "kept"
        /\ index' # index /\ video_pc' = "idle" => prev # "dropped"
  <1>1. VTypeOK /\ Parity /\ [Next]_vars => [A]_vars
    <2> SUFFICES ASSUME VTypeOK, Parity, Next PROVE A
      BY DEF vars
    <2> USE DEF vdrop, DISCARD_FRAME_FREQUENCY
    <2>1. CASE DropFrame
      BY <2>1, NextParity DEF DropFrame, VideoGo, Parity
    <2>2. CASE KeepFrame
      BY <2>2, NextParity DEF KeepFrame, VideoGo, Parity
    <2>3. ASSUME ~DropFrame, ~KeepFrame
          PROVE  /\ UNCHANGED index
                 /\ ~(video_pc' = "scale" /\ video_pc = "idle")
      BY <2>3 DEF Next, Video, VideoGo, Control, Halted, vars, OpenDecoder,
         ChooseSize, DownloadFails, ScaleNative, ScaleReset, MakeContext, NoContext, MakeFrame,
         SetInit, ScaleRefused, ScaleBreaks, ScaleFrame, MakeBuffer, EarlyFrame,
         WriteHeader, CopyRefused, CopyBreaks, CopyAndSend, RunsOut, CallChange,
         SetWidth, SetHeight, ClearInit, OpenDiscardFrames, CtlGo, SourceChanges
    <2> QED  BY <2>1, <2>2, <2>3
  <1>2. Spec => [](VTypeOK /\ Parity)
    <2>1. Init => Parity  BY InitInv
    <2>2. Spec => []Parity
      BY <2>1, VideoTypeCorrect, ParityInductive, PTL DEF Spec
    <2> QED  BY <2>2, VideoTypeCorrect, PTL
  <1>3. Spec => [][A]_vars
    BY <1>1, <1>2, PTL DEF Spec
  <1> QED  BY <1>3 DEF OneOfTwo

----------------------------------------------------------------------------
(* Sessions in which the client never asks for another resolution, and      *)
(* those in which the source keeps its size as well.                        *)
NoChange == [][ctl_pc' = ctl_pc]_vars
NoNewSize == [][native' = native]_vars

(* Nothing ever overlaps a change, nor is the size of a decoder asked for   *)
(* that does not exist.                                                     *)
Quiet ==
    /\ clean
    /\ ctl_pc = "idle"
    /\ ctx_open = "no" => broken = "no"

(* The scaler of a software decoder is for the frames at hand.              *)
Steady == ~gpu /\ sws_ctx # None => sws_ctx[1] = native

(* Without a change, no step of the reader or the video thread ends that.   *)
LEMMA QuietStep == VInv /\ Quiet /\ [Next]_vars /\ [ctl_pc' = ctl_pc]_vars => Quiet'
  <1> SUFFICES ASSUME VInv, Quiet, [Next]_vars, ctl_pc' = ctl_pc PROVE Quiet'
    BY DEF vars, vctl
  <1> USE DEF VInv, Quiet, Fresh, Break, Return
  <1>1. CASE OpenDecoder \/ ChooseSize \/ SourceChanges \/ Halted \/ UNCHANGED vars
    BY <1>1 DEF OpenDecoder, ChooseSize, SourceChanges, Halted, vars, vctl
  <1>2. CASE Control
    BY <1>2 DEF Control, CallChange, SetWidth, SetHeight, ClearInit, CtlGo, OpenDiscardFrames, vctl
  <1>3. CASE DropFrame \/ KeepFrame
    BY <1>3 DEF DropFrame, KeepFrame, VideoGo, vctl
  <1>4. ASSUME NEW from \in {"scale", "ctx", "yuv", "init", "sws", "size", "head", "copy"},
               NEW to, VideoGo(from, to)
        PROVE  Quiet'
    BY <1>4 DEF VideoGo, vctl
  <1>5. CASE Video
    BY <1>3, <1>4, <1>5 DEF Video, DownloadFails, ScaleNative, ScaleReset, MakeContext, NoContext, MakeFrame,
       SetInit, ScaleRefused, ScaleBreaks, ScaleFrame, MakeBuffer, EarlyFrame, WriteHeader,
       CopyRefused, CopyBreaks, CopyAndSend, RunsOut
  <1> QED  BY <1>1, <1>2, <1>5 DEF Next

(* As long as the source keeps its size, so does what the scaler is for.    *)
LEMMA SteadyStep ==
  VInv /\ Steady /\ [Next]_vars /\ [native' = native]_vars => Steady'
  <1> SUFFICES ASSUME VInv, Steady, [Next]_vars, native' = native PROVE Steady'
    BY DEF vars, vsrc
  <1> USE DEF Steady
  <1>1. CASE MakeContext
    BY <1>1, PairFacts DEF MakeContext, VideoGo, In
  <1>2. CASE ScaleReset
    BY <1>2 DEF ScaleReset, VideoGo, vbuf
  <1>3. ASSUME UNCHANGED <<sws_ctx, gpu>> PROVE Steady'
    BY <1>3
  <1>4. ASSUME ~MakeContext, ~ScaleReset PROVE UNCHANGED <<sws_ctx, gpu>>
    BY <1>4 DEF Next, Video, VideoGo, Control, Halted, vars, vbuf, vsrc, OpenDecoder,
       ChooseSize, DropFrame, KeepFrame, DownloadFails, ScaleNative, NoContext, MakeFrame,
       SetInit, ScaleRefused, ScaleBreaks, ScaleFrame, MakeBuffer, EarlyFrame,
       WriteHeader, CopyRefused, CopyBreaks, CopyAndSend, RunsOut, CallChange,
       SetWidth, SetHeight, ClearInit, OpenDiscardFrames, CtlGo, SourceChanges
  <1> QED  BY <1>1, <1>2, <1>3, <1>4

(* What the documentation says of the header holds in every session in      *)
(* which the client never asks for another resolution, whatever the source  *)
(* does: it takes a change to send a header that is not the picture's.      *)
THEOREM UnchangedHeadersMatch == Spec /\ NoChange => []HeaderMatchesPicture
  <1>1. Init => Quiet  BY DEF Init, Quiet
  <1>2. Spec /\ NoChange => []Quiet
    BY <1>1, QuietStep, Invariance, PTL DEF Spec, NoChange
  <1>3. Quiet /\ CleanFrames => HeaderMatchesPicture
    BY DEF Quiet, CleanFrames, HeaderMatchesPicture
  <1> QED  BY <1>2, <1>3, CleanFramesAreWhole, PTL

(* With a software decoder, a source that keeps its size and no change of   *)
(* resolution, output_video_frame never misuses memory (252-417), except    *)
(* through a scaler that could not be made (306, 333); where memory does    *)
(* not run out, never.                                                      *)
THEOREM SteadySoftwareIsSafe ==
    Spec /\ NoChange /\ NoNewSize =>
        [](~gpu => broken = "no" \/ (broken = "null" /\ MayRunOut /\ Unscaled))
  <1>1. Init => Quiet /\ Steady  BY DEF Init, Quiet, Steady
  <1>2. Spec /\ NoChange /\ NoNewSize => [](Quiet /\ Steady)
    BY <1>1, QuietStep, SteadyStep, Invariance, PTL DEF Spec, NoChange, NoNewSize
  <1>3. VInv /\ Quiet /\ Steady =>
            (~gpu => broken = "no" \/ (broken = "null" /\ MayRunOut /\ Unscaled))
    BY DEF VInv, VTypeOK, BreaksOnlyKnown, Quiet, Steady, Resized
  <1> QED  BY <1>2, <1>3, Invariance, PTL
=============================================================================
