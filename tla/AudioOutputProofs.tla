------------------------- MODULE AudioOutputProofs -------------------------
(* Proofs about AudioOutput: it uses the devices as AudioDevice says, so    *)
(* that the theorems about the devices hold for it, and what it keeps from  *)
(* the first frame does harm in the known cases only.                       *)
EXTENDS AudioOutput, AudioDeviceProofs

(* The resampler, while the audio thread goes on, is that of the first      *)
(* frame, unless another format came.                                       *)
Kept ==
    \A s \in Session : HasFrame(s) \/ life[s] \in {"none", "opening"} =>
        /\ first[s] = None => swr[s] = None
        /\ first[s] \in Converted => swr[s] = first[s]
        /\ first[s] \in Packed \cup {Direct} /\ ~changed[s] => swr[s] = None
        /\ life[s] \in {"none", "opening"} => first[s] = None

(* Nothing is played before the device was opened.                          *)
Silent == \A s \in Session : life[s] \in {"none", "opening"} => sound[s] = "none"

OInv == OTypeOK /\ Kept /\ Silent /\ SoundOnlyKnown

----------------------------------------------------------------------------
LEMMA StepIsDeviceStep == [ONext]_ovars => [Next]_vars
  <1> SUFFICES ASSUME [ONext]_ovars PROVE [Next]_vars
    OBVIOUS
  <1>1. ASSUME NEW s \in Session, AudioThread(s) PROVE [Next]_vars
    BY <1>1 DEF AudioThread, ResamplerFails, RunsOut, OutputFrame, ConvertFails, Fail,
        ToDevice, Next
  <1>2. ASSUME NEW s \in Session, Release(s) PROVE [Next]_vars
    BY <1>2 DEF Release, Next
  <1>3. CASE Others
    BY <1>3 DEF Others, Next
  <1>4. CASE UNCHANGED ovars
    BY <1>4 DEF ovars
  <1> QED BY <1>1, <1>2, <1>3, <1>4 DEF ONext

LEMMA OInitInv == OInit => OInv
  <1> SUFFICES ASSUME OInit PROVE OInv
    OBVIOUS
  <1> USE OutputAssumption DEF OInit
  <1>1. OTypeOK
    <2>1. ATypeOK BY InitInv DEF Inv
    <2> QED BY <2>1 DEF OTypeOK
  <1>2. Kept BY DEF Kept, Formats
  <1>3. SoundOnlyKnown BY DEF SoundOnlyKnown
  <1>4. Silent BY DEF Silent
  <1> QED BY <1>1, <1>2, <1>3, <1>4 DEF OInv

LEMMA ONextInv == OInv /\ Undisturbed /\ ATypeOK' /\ [ONext]_ovars => OInv'
  <1> SUFFICES ASSUME OInv, Undisturbed, ATypeOK', [ONext]_ovars PROVE OInv'
    OBVIOUS
  <1> USE OutputAssumption DEF OInv
  <1>1. ASSUME NEW s \in Session, NEW f \in Formats, NEW n \in 1 .. MaxSamples,
               OutputFrame(s, f, n)
        PROVE  OInv'
    <2> USE <1>1
    <2>0. /\ HasFrame(s) /\ over' = over
          /\ swr' = [swr EXCEPT ![s] = Resampler(s, f)]
          /\ buffer' = [buffer EXCEPT ![s] = BufferSize(s, n)]
          /\ sound' = [sound EXCEPT ![s] = Result(s, f, n)]
          /\ first' = [first EXCEPT ![s] = IF @ = None THEN f ELSE @]
          /\ changed' = [changed EXCEPT ![s] = @ \/ first[s] \notin {None, f}]
          /\ grown' = [grown EXCEPT ![s] = @ \/ (buffer[s] # 0 /\ n > buffer[s])]
          /\ UNCHANGED <<life, stereo, shaken>>
      BY DEF OutputFrame, Note, ToDevice, QueueAudio, vars
    <2> HIDE <1>1
    <2>1. OTypeOK'
      <3>1. Resampler(s, f) \in Converted \cup {None}
        BY DEF Resampler, NeedsResampler, OTypeOK
      <3>2. BufferSize(s, n) \in 0 .. MaxSamples
        BY DEF BufferSize, OTypeOK
      <3>3. Result(s, f, n) \in {"none", "right", "wrong", "overrun", "misplayed"}
        BY DEF Result
      <3>4. first' \in [Session -> Formats \cup {None}]
        BY <2>0 DEF OTypeOK
      <3>5. changed' \in [Session -> BOOLEAN] /\ grown' \in [Session -> BOOLEAN]
        BY <2>0 DEF OTypeOK
      <3> QED BY <2>0, <3>1, <3>2, <3>3, <3>4, <3>5 DEF OTypeOK
    <2>2. Kept'
      <3> SUFFICES ASSUME NEW t \in Session, HasFrame(t)' \/ life'[t] \in {"none", "opening"}
                   PROVE  /\ first'[t] = None => swr'[t] = None
                          /\ first'[t] \in Converted => swr'[t] = first'[t]
                          /\ first'[t] \in Packed \cup {Direct} /\ ~changed'[t] => swr'[t] = None
                          /\ life'[t] \in {"none", "opening"} => first'[t] = None
        BY DEF Kept
      <3>1. CASE t # s
        BY <3>1, <2>0 DEF Kept, HasFrame, OTypeOK
      <3>2. CASE t = s
        <4>1. life'[s] = "running" BY <2>0 DEF HasFrame
        <4>2. first'[s] = (IF first[s] = None THEN f ELSE first[s]) /\ swr'[s] = Resampler(s, f)
          BY <2>0 DEF OTypeOK
        <4>3. first'[s] # None BY <4>2 DEF Formats
        <4>4. first'[s] \in Converted => swr'[s] = first'[s]
          BY <4>2, <2>0 DEF Kept, Resampler, NeedsResampler, Formats
        <4>5. ~changed'[s] => first[s] \in {None, f}
          BY <2>0 DEF OTypeOK
        <4>6. first'[s] \in Packed \cup {Direct} /\ ~changed'[s] => swr'[s] = None
          <5>1. ~changed'[s] => ~changed[s] BY <2>0 DEF OTypeOK
          <5> QED BY <4>2, <4>5, <5>1, <2>0 DEF Kept, Resampler, NeedsResampler
        <4> QED BY <3>2, <4>1, <4>3, <4>4, <4>6
      <3> QED BY <3>1, <3>2
    <2>3. SoundOnlyKnown'
      <3> SUFFICES ASSUME NEW t \in Session
                   PROVE  /\ sound'[t] = "wrong" => changed'[t] \/ first'[t] \in Packed
                          /\ sound'[t] = "overrun" => grown'[t]
                          /\ sound'[t] = "misplayed" => ~stereo'[t] \/ shaken'[t]
        BY DEF SoundOnlyKnown
      <3>1. CASE t # s
        BY <3>1, <2>0 DEF SoundOnlyKnown, OTypeOK
      <3>2. CASE t = s
        <4>1. sound'[s] = Result(s, f, n) BY <2>0 DEF OTypeOK
        <4>2. Result(s, f, n) = "overrun" => buffer[s] # 0 /\ n > buffer[s]
          <5>1. Result(s, f, n) = "overrun" => n > BufferSize(s, n) BY DEF Result
          <5> QED BY <5>1 DEF BufferSize, OTypeOK
        <4>3. Result(s, f, n) = "wrong" => Resampler(s, f) # Needed(f)
          BY DEF Result
        <4>4. first'[s] = (IF first[s] = None THEN f ELSE first[s])
          BY <2>0 DEF OTypeOK
        <4>5. ~changed'[s] => ~changed[s] /\ first[s] \in {None, f}
          BY <2>0 DEF OTypeOK
        <4>6. ~changed'[s] /\ f \notin Packed => Resampler(s, f) = Needed(f)
          <5>1. CASE f \in Converted
            BY <5>1, <4>5, <2>0 DEF Kept, Resampler, NeedsResampler, Needed
          <5>2. CASE f = Direct
            BY <5>2, <4>5, <2>0 DEF Kept, Resampler, NeedsResampler, Needed
          <5> QED BY <5>1, <5>2 DEF Formats
        <4>7. sound'[s] = "wrong" => changed'[s] \/ first'[s] \in Packed
          BY <4>1, <4>3, <4>4, <4>5, <4>6
        <4>8. buffer[s] # 0 /\ n > buffer[s] => grown'[s]
          BY <2>0 DEF OTypeOK
        <4>9. Result(s, f, n) = "misplayed" => ~stereo[s] \/ shaken[s]
          <5>1. Result(s, f, n) = "misplayed" => Misplays(s)
            BY DEF Result
          <5>2. Misplays(s) /\ ~shaken[s] => device[audio_dev[s]] = {s}
            BY <2>0 DEF Misplays, HasFrame, Undisturbed
          <5> QED BY <5>1, <5>2 DEF Misplays
        <4> QED BY <3>2, <4>1, <4>2, <4>7, <4>8, <4>9, <2>0
      <3> QED BY <3>1, <3>2
    <2>4. Silent'
      BY <2>0 DEF Silent, HasFrame, OTypeOK
    <2> QED BY <2>1, <2>2, <2>3, <2>4
  <1>2. ASSUME NEW s \in Session, NEW f \in Formats, NEW n \in 1 .. MaxSamples,
               ResamplerFails(s, f) \/ RunsOut(s, f) \/ ConvertFails(s, f, n)
        PROVE  OInv'
    <2> USE <1>2
    <2>0. /\ over' = [over EXCEPT ![s] = TRUE] /\ life[s] = "running"
          /\ UNCHANGED <<vars, sound, history>>
          /\ swr' \in {swr, [swr EXCEPT ![s] = Resampler(s, f)]}
          /\ buffer' \in {buffer, [buffer EXCEPT ![s] = BufferSize(s, n)]}
      BY DEF ResamplerFails, RunsOut, ConvertFails, Fail, HasFrame
    <2> HIDE <1>2
    <2>1. OTypeOK'
      <3>1. Resampler(s, f) \in Converted \cup {None}
        BY DEF Resampler, NeedsResampler, OTypeOK
      <3>2. BufferSize(s, n) \in 0 .. MaxSamples
        BY DEF BufferSize, OTypeOK
      <3> QED BY <2>0, <3>1, <3>2 DEF OTypeOK, history
    <2>2. Kept'
      <3>1. life' = life /\ first' = first /\ changed' = changed
        BY <2>0 DEF vars, history
      <3>2. \A t \in Session : t # s => swr'[t] = swr[t] /\ over'[t] = over[t]
        BY <2>0 DEF OTypeOK
      <3>3. ~HasFrame(s)' BY <2>0 DEF HasFrame, OTypeOK
      <3> QED BY <3>1, <3>2, <3>3, <2>0 DEF Kept, HasFrame
    <2>3. SoundOnlyKnown' BY <2>0 DEF SoundOnlyKnown, history, vars
    <2>4. Silent' BY <2>0 DEF Silent, vars
    <2> QED BY <2>1, <2>2, <2>3, <2>4
  <1>3. ASSUME NEW s \in Session, Release(s) PROVE OInv'
    <2> USE <1>3 DEF Release, CloseDevice, LifeGo
    <2>1. OTypeOK' BY DEF OTypeOK, history
    <2>2. Kept'
      <3>1. life'[s] = "closed" /\ \A t \in Session : t # s =>
                life'[t] = life[t] /\ swr'[t] = swr[t]
        BY DEF OTypeOK, ATypeOK
      <3> QED BY <3>1 DEF Kept, HasFrame, history
    <2>3. SoundOnlyKnown' BY DEF SoundOnlyKnown, history
    <2>4. Silent' BY DEF Silent, OTypeOK, ATypeOK
    <2> QED BY <2>1, <2>2, <2>3, <2>4
  <1>4. CASE Others
    <2> USE <1>4
    <2>0. UNCHANGED <<outputs, history>> BY DEF Others
    <2>1. OTypeOK' BY <2>0 DEF OTypeOK, outputs, history
    <2>2. Kept'
      <3>1. \A t \in Session : life'[t] \in {"none", "opening"} =>
                life[t] \in {"none", "opening"}
        BY DEF Others, Construct, OpenSucceeds, OpenFails, StopPlay, Join, Destroy, LifeGo,
            Exhausted, vars, OTypeOK, ATypeOK, Threads
      <3>2. \A t \in Session : life'[t] = "running" => life[t] \in {"running", "opening"}
        BY DEF Others, Construct, OpenSucceeds, OpenFails, StopPlay, Join, Destroy, LifeGo,
            Exhausted, vars, OTypeOK, ATypeOK, Threads
      <3> QED BY <2>0, <3>1, <3>2 DEF Kept, HasFrame, outputs, history
    <2>3. SoundOnlyKnown'
      <3> SUFFICES ASSUME NEW t \in Session, sound[t] = "misplayed"
                   PROVE  ~stereo'[t] \/ shaken'[t]
        BY <2>0 DEF SoundOnlyKnown, outputs, history
      <3>1. life[t] \notin {"none", "opening"} /\ (~stereo[t] \/ shaken[t])
        BY DEF Silent, SoundOnlyKnown
      <3>2. stereo'[t] = stereo[t] /\ (shaken[t] => shaken'[t])
        BY <3>1 DEF Others, Construct, OpenSucceeds, OpenFails, StopPlay, Join, Destroy, LifeGo,
            Exhausted, vars, OTypeOK, ATypeOK
      <3> QED BY <3>1, <3>2
    <2>4. Silent'
      <3>1. \A t \in Session : life'[t] \in {"none", "opening"} =>
                life[t] \in {"none", "opening"}
        BY DEF Others, Construct, OpenSucceeds, OpenFails, StopPlay, Join, Destroy, LifeGo,
            Exhausted, vars, OTypeOK, ATypeOK, Threads
      <3> QED BY <2>0, <3>1 DEF Silent, outputs
    <2> QED BY <2>1, <2>2, <2>3, <2>4
  <1>5. CASE UNCHANGED ovars
    BY <1>5 DEF ovars, vars, outputs, history, OTypeOK, Kept, HasFrame, Silent, SoundOnlyKnown
  <1> QED BY <1>1, <1>2, <1>3, <1>4, <1>5 DEF ONext, AudioThread

----------------------------------------------------------------------------
(* The audio threads use the devices as AudioDevice says: a frame does to   *)
(* them what QueueAudio does, or nothing (465-479).                         *)
THEOREM OutputUsesDevices == OSpec => Spec
  <1>1. OInit => Init BY DEF OInit
  <1> QED BY <1>1, StepIsDeviceStep, PTL DEF OSpec, Spec

LEMMA OInvariance == OSpec => []OInv
  <1>1. OSpec => [](ATypeOK /\ Undisturbed)
    BY OutputUsesDevices, AudioTypeCorrect, UndisturbedPlayersAreHeard, PTL
  <1> QED BY <1>1, OInitInv, ONextInv, PTL DEF OSpec

(* The state of the audio threads keeps its types.                          *)
THEOREM OutputTypeCorrect == OSpec => []OTypeOK
  BY OInvariance, PTL DEF OInv

(* A stopped player leaves no device open, its audio thread included.       *)
THEOREM OutputLeaksNoDevice == OSpec => []NoLeak
  BY OutputUsesDevices, NoDeviceLeaks

(* What a player nobody disturbs puts out is heard on its own device.       *)
THEOREM OutputUndisturbed == OSpec => []Undisturbed
  BY OutputUsesDevices, UndisturbedPlayersAreHeard

(* Sound is garbled, or memory overrun, in the known cases only: for any    *)
(* set of formats and any lengths of frames (421-463).                      *)
THEOREM SoundIsKnown == OSpec => []SoundOnlyKnown
  BY OInvariance, PTL DEF OInv
=============================================================================
