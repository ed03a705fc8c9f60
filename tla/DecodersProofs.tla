--------------------------- MODULE DecodersProofs ---------------------------
(* Proofs about Decoders, for any number of players and any codecs.         *)
EXTENDS Decoders, TLAPS

(* What a player has configured is the choice for its codec, and what it    *)
(* sets up later rests on it.                                               *)
Configured ==
    \A p \in Player :
        /\ device_type[p] \in Device => device_type[p] = Choice(codec[p]) /\ codec[p] # {}
        /\ pc[p] \in {"format", "device"} \/ get_format[p] => device_type[p] \in Device
        /\ device[p] => get_format[p]
        /\ pc[p] \in {"new", "format", "device"} =>
               format[p] = "none" /\ frame[p] = "none" /\ ~device[p]
        /\ pc[p] = "device" => get_format[p]
        /\ pc[p] \in {"new", "format"} => ~get_format[p]
        /\ pc[p] = "new" => device_type[p] = "none"

(* The shared format is that of every player nobody disturbed.              *)
Shared ==
    \A p \in Player :
        device_type[p] \in Device /\ ~disturbed[p] => hw_pix_fmt = device_type[p]

(* A decoder with hw_get_format yields frames of its own device only, and   *)
(* one without it only frames in memory (646-671): the guards of the model. *)
Agreed ==
    \A p \in Player :
        /\ format[p] \in Device => device[p] /\ format[p] = device_type[p]
        /\ format[p] = "soft" => ~get_format[p]

Inv ==
    /\ DTypeOK /\ Configured /\ Shared
    /\ Agreed /\ MisreadOnlyDisturbed /\ RefusedOnlyKnown

----------------------------------------------------------------------------
LEMMA ChoiceSupported ==
    ASSUME NEW c \in Codecs, c # {}
    PROVE  Choice(c) \in c /\ Choice(c) \in Device
  BY DecodersAssumption DEF Choice, Device

LEMMA InitInv == Init => Inv
  <1> SUFFICES ASSUME Init PROVE Inv
    OBVIOUS
  <1> USE DEF Init
  <1>1. DTypeOK BY DEF DTypeOK, PC, Device
  <1>2. Configured /\ Shared BY DEF Configured, Shared, Device
  <1>3. Agreed /\ MisreadOnlyDisturbed /\ RefusedOnlyKnown
    BY DEF Agreed, MisreadOnlyDisturbed, RefusedOnlyKnown, Device
  <1> QED BY <1>1, <1>2, <1>3 DEF Inv

LEMMA NextInv == Inv /\ [Next]_vars => Inv'
  <1> SUFFICES ASSUME Inv, [Next]_vars PROVE Inv'
    OBVIOUS
  <1> USE DEF Inv, PC, Device, DTypeOK
  <1>1. ASSUME NEW p \in Player, OpenSoft(p) PROVE Inv'
    <2> USE <1>1 DEF OpenSoft, Go, opening, decoding
    <2>1. DTypeOK' OBVIOUS
    <2>2. Configured' BY DEF Configured
    <2>3. Shared' BY DEF Shared
    <2>4. Agreed' BY DEF Agreed
    <2>5. MisreadOnlyDisturbed' BY DEF MisreadOnlyDisturbed
    <2>6. RefusedOnlyKnown' BY DEF RefusedOnlyKnown
    <2> QED BY <2>1, <2>2, <2>3, <2>4, <2>5, <2>6
  <1>2. ASSUME NEW p \in Player, Configure(p) PROVE Inv'
    <2> USE <1>2 DEF Configure, Go, decoding
    <2>c. Choice(codec[p]) \in Device BY ChoiceSupported
    <2>1. DTypeOK' BY <2>c
    <2>2. Configured' BY <2>c DEF Configured
    <2>3. Shared' BY <2>c DEF Shared
    <2>4. Agreed' BY DEF Agreed, Configured
    <2>5. MisreadOnlyDisturbed'
      <3> SUFFICES ASSUME NEW q \in Player, frame'[q] = "misread" PROVE disturbed'[q]
        BY DEF MisreadOnlyDisturbed
      <3>1. disturbed[q] BY DEF MisreadOnlyDisturbed
      <3>2. q # p BY DEF Configured
      <3> QED BY <3>1, <3>2
    <2>6. RefusedOnlyKnown' BY DEF RefusedOnlyKnown
    <2> QED BY <2>1, <2>2, <2>3, <2>4, <2>5, <2>6
  <1>3. ASSUME NEW p \in Player, SetGetFormat(p) PROVE Inv'
    <2> USE <1>3 DEF SetGetFormat, Go, decoding
    <2>1. DTypeOK' OBVIOUS
    <2>2. Configured' BY DEF Configured
    <2>3. Shared' BY DEF Shared
    <2>4. Agreed' BY DEF Agreed, Configured
    <2>5. MisreadOnlyDisturbed' BY DEF MisreadOnlyDisturbed
    <2>6. RefusedOnlyKnown' BY DEF RefusedOnlyKnown
    <2> QED BY <2>1, <2>2, <2>3, <2>4, <2>5, <2>6
  <1>4. ASSUME NEW p \in Player, CreateDevice(p) PROVE Inv'
    <2> USE <1>4 DEF CreateDevice, Go, decoding
    <2>1. DTypeOK' OBVIOUS
    <2>2. Configured'
      <3>1. \A q \in Player : q # p => device'[q] = device[q]
        OBVIOUS
      <3> QED BY <3>1 DEF Configured
    <2>3. Shared' BY DEF Shared
    <2>4. Agreed'
      <3>1. \A q \in Player : device[q] => device'[q]
        OBVIOUS
      <3> QED BY <3>1 DEF Agreed
    <2>5. MisreadOnlyDisturbed' BY DEF MisreadOnlyDisturbed
    <2>6. RefusedOnlyKnown'
      <3>1. \A q \in Player : pc'[q] = "refused" => pc[q] = "refused" /\ device'[q] = device[q]
        OBVIOUS
      <3> QED BY <3>1 DEF RefusedOnlyKnown
    <2> QED BY <2>1, <2>2, <2>3, <2>4, <2>5, <2>6
  <1>5. ASSUME NEW p \in Player, OpenDecoder(p) \/ DecodeFails(p) PROVE Inv'
    <2> USE <1>5 DEF OpenDecoder, DecodeFails, Go, opening, decoding
    <2>1. DTypeOK' OBVIOUS
    <2>2. Configured' BY DEF Configured
    <2>3. Shared' BY DEF Shared
    <2>4. Agreed' BY DEF Agreed
    <2>5. MisreadOnlyDisturbed' BY DEF MisreadOnlyDisturbed
    <2>6. RefusedOnlyKnown' BY DEF RefusedOnlyKnown
    <2> QED BY <2>1, <2>2, <2>3, <2>4, <2>5, <2>6
  <1>6. ASSUME NEW p \in Player, DecideSoft(p) \/ DecideHardware(p) PROVE Inv'
    <2> USE <1>6 DEF DecideSoft, DecideHardware, Deciding, opening
    <2>1. DTypeOK' OBVIOUS
    <2>2. Configured' BY DEF Configured
    <2>3. Shared' BY DEF Shared
    <2>4. Agreed' BY DEF Agreed, Usable
    <2>5. MisreadOnlyDisturbed' BY DEF MisreadOnlyDisturbed
    <2>6. RefusedOnlyKnown' BY DEF RefusedOnlyKnown
    <2> QED BY <2>1, <2>2, <2>3, <2>4, <2>5, <2>6
  <1>7. ASSUME NEW p \in Player, StrikeOff(p) PROVE Inv'
    <2> USE <1>7 DEF StrikeOff, Deciding, Offered, opening
    <2>1. DTypeOK'
      <3>1. hw_pix_fmt \in Device BY DecodersAssumption
      <3> QED BY <3>1
    <2>2. Configured' BY DEF Configured
    <2>3. Shared' BY DEF Shared
    <2>4. Agreed' BY DEF Agreed
    <2>5. MisreadOnlyDisturbed' BY DEF MisreadOnlyDisturbed
    <2>6. RefusedOnlyKnown' BY DEF RefusedOnlyKnown
    <2> QED BY <2>1, <2>2, <2>3, <2>4, <2>5, <2>6
  <1>8. ASSUME NEW p \in Player, DecideNone(p) PROVE Inv'
    <2> USE <1>8 DEF DecideNone, Deciding, Go, opening, decoding
    <2>1. DTypeOK' OBVIOUS
    <2>2. Configured' BY DEF Configured
    <2>3. Shared' BY DEF Shared
    <2>4. Agreed' BY DEF Agreed
    <2>5. MisreadOnlyDisturbed' BY DEF MisreadOnlyDisturbed
    <2>6. RefusedOnlyKnown'
      <3>1. get_format[p] => Choice(codec[p]) \in codec[p]
        BY ChoiceSupported DEF Configured
      <3>2. disturbed[p] \/ rejected[p] # {}
        BY <3>1 DEF Configured, Shared, Offered
      <3> QED BY <3>2 DEF RefusedOnlyKnown
    <2> QED BY <2>1, <2>2, <2>3, <2>4, <2>5, <2>6
  <1>9. ASSUME NEW p \in Player, RetrieveFrame(p) PROVE Inv'
    <2> USE <1>9 DEF RetrieveFrame, Go, opening
    <2>1. DTypeOK' BY DEF Retrieve
    <2>2. Configured' BY DEF Configured
    <2>3. Shared' BY DEF Shared
    <2>4. Agreed' BY DEF Agreed
    <2>5. MisreadOnlyDisturbed'
      <3>1. Retrieve(p) = "misread" => format[p] \in Device /\ format[p] # hw_pix_fmt
        BY DEF Retrieve
      <3>2. Retrieve(p) = "misread" => disturbed[p]
        BY <3>1 DEF Agreed, Shared
      <3> QED BY <3>2 DEF MisreadOnlyDisturbed
    <2>6. RefusedOnlyKnown' BY DEF RefusedOnlyKnown
    <2> QED BY <2>1, <2>2, <2>3, <2>4, <2>5, <2>6
  <1>10. ASSUME NEW p \in Player, ChangeParameters(p) PROVE Inv'
    <2> USE <1>10 DEF ChangeParameters, opening
    <2>1. DTypeOK' OBVIOUS
    <2>2. Configured' BY DEF Configured
    <2>3. Shared' BY DEF Shared
    <2>4. Agreed' BY DEF Agreed
    <2>5. MisreadOnlyDisturbed' BY DEF MisreadOnlyDisturbed
    <2>6. RefusedOnlyKnown' BY DEF RefusedOnlyKnown
    <2> QED BY <2>1, <2>2, <2>3, <2>4, <2>5, <2>6
  <1>11. ASSUME NEW p \in Player, Free(p) PROVE Inv'
    <2> USE <1>11 DEF Free
    <2>1. DTypeOK' OBVIOUS
    <2>2. Configured' BY DEF Configured
    <2>3. Shared' BY DEF Shared
    <2>4. Agreed' BY DEF Agreed
    <2>5. MisreadOnlyDisturbed' BY DEF MisreadOnlyDisturbed
    <2>6. RefusedOnlyKnown' BY DEF RefusedOnlyKnown
    <2> QED BY <2>1, <2>2, <2>3, <2>4, <2>5, <2>6
  <1>12. CASE UNCHANGED vars
    BY <1>12 DEF vars, opening, Configured, Shared, Agreed, MisreadOnlyDisturbed,
        RefusedOnlyKnown
  <1> QED BY <1>1, <1>2, <1>3, <1>4, <1>5, <1>6, <1>7, <1>8, <1>9, <1>10, <1>11, <1>12
      DEF Next, Video, Exhausted

----------------------------------------------------------------------------
(* The state of all decoders keeps its types (596-671).                     *)
THEOREM DecodersTypeCorrect == Spec => []DTypeOK
  <1>1. Inv => DTypeOK BY DEF Inv
  <1> QED BY <1>1, InitInv, NextInv, PTL DEF Spec

(* A frame of the GPU is misread only behind another player's back (273).   *)
THEOREM MisreadsAreDisturbed == Spec => []MisreadOnlyDisturbed
  <1>1. Inv => MisreadOnlyDisturbed BY DEF Inv
  <1> QED BY <1>1, InitInv, NextInv, PTL DEF Spec

(* A player that gets no format has one of three known reasons (664-671).   *)
THEOREM RefusalsAreKnown == Spec => []RefusedOnlyKnown
  <1>1. Inv => RefusedOnlyKnown BY DEF Inv
  <1> QED BY <1>1, InitInv, NextInv, PTL DEF Spec

----------------------------------------------------------------------------
(* One device is the choice for all codecs that have any.                   *)
Uniform(d) == \A c \in Codecs : c # {} => Choice(c) = d

(* When all codecs lead to the same device nobody is ever disturbed, and no *)
(* frame is misread: sharing hw_pix_fmt_ does no harm then (653).           *)
THEOREM UniformIsSafe ==
    ASSUME NEW d \in Device, Uniform(d)
    PROVE  Spec => [](\A p \in Player : ~disturbed[p] /\ frame[p] # "misread")
  <1> DEFINE Calm == \A p \in Player : ~disturbed[p]
  <1>1. Init => Calm BY DEF Init
  <1>2. Inv /\ Calm /\ [Next]_vars => Calm'
    <2> SUFFICES ASSUME Inv, Calm, [Next]_vars PROVE Calm'
      OBVIOUS
    <2>1. ASSUME NEW p \in Player, Configure(p) PROVE Calm'
      <3>1. Choice(codec[p]) = d
        BY <2>1 DEF Configure, Uniform, Inv, DTypeOK
      <3>2. \A q \in Player : device_type[q] \in {"none", d}
        BY DEF Inv, DTypeOK, Configured, Uniform, Device
      <3> QED BY <2>1, <3>1, <3>2 DEF Configure
    <2>2. CASE UNCHANGED disturbed BY <2>2
    <2> QED BY <2>1, <2>2 DEF Next, Video, Exhausted, vars, OpenSoft, SetGetFormat,
        CreateDevice, OpenDecoder, DecideSoft, DecideHardware, StrikeOff, DecideNone,
        RetrieveFrame, ChangeParameters, DecodeFails, Free
  <1>3. Inv /\ Calm => \A p \in Player : ~disturbed[p] /\ frame[p] # "misread"
    BY DEF Inv, MisreadOnlyDisturbed
  <1> QED BY <1>1, <1>2, <1>3, InitInv, NextInv, PTL DEF Spec

(* A player without a GPU is out of reach of the shared format: it always   *)
(* gets a format, and its frames are taken as they are (273, 664-671).      *)
THEOREM SoftwareIsUntouched ==
    Spec => [](\A p \in Player :
                   device_type[p] = "none" => frame[p] \in {"none", "passed"} /\ pc[p] # "refused")
  <1> DEFINE Passed == \A p \in Player : device_type[p] = "none" => frame[p] \in {"none", "passed"}
  <1>1. Init => Passed BY DEF Init
  <1>2. Inv /\ Passed /\ [Next]_vars => Passed'
    <2> SUFFICES ASSUME Inv, Passed, [Next]_vars PROVE Passed'
      OBVIOUS
    <2>1. ASSUME NEW p \in Player, Configure(p) PROVE Passed'
      <3>1. Choice(codec[p]) \in Device BY <2>1, ChoiceSupported DEF Configure, Inv, DTypeOK
      <3> QED BY <2>1, <3>1 DEF Configure, decoding, Inv, DTypeOK, Device
    <2>2. ASSUME NEW p \in Player, RetrieveFrame(p) PROVE Passed'
      <3>1. device_type[p] = "none" => format[p] = "soft"
        BY <2>2 DEF RetrieveFrame, Inv, DTypeOK, Agreed, Device
      <3>2. device_type[p] = "none" => Retrieve(p) = "passed"
        BY <3>1 DEF Retrieve, Inv, DTypeOK, Device
      <3> QED BY <2>2, <3>2 DEF RetrieveFrame, opening, Inv, DTypeOK
    <2>3. CASE UNCHANGED <<device_type, frame>> BY <2>3
    <2> QED BY <2>1, <2>2, <2>3 DEF Next, Video, Exhausted, vars, opening, decoding, OpenSoft,
        SetGetFormat, CreateDevice, OpenDecoder, DecideSoft, DecideHardware, StrikeOff, DecideNone,
        ChangeParameters, DecodeFails, Free
  <1>3. Inv /\ Passed => \A p \in Player :
            device_type[p] = "none" => frame[p] \in {"none", "passed"} /\ pc[p] # "refused"
    BY DEF Inv, RefusedOnlyKnown, Configured, DTypeOK, Device
  <1> QED BY <1>1, <1>2, <1>3, InitInv, NextInv, PTL DEF Spec
=============================================================================
