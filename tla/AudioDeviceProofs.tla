------------------------- MODULE AudioDeviceProofs -------------------------
(* Proofs about AudioDevice, for any number of players and of devices.      *)
EXTENDS AudioDevice, TLAPS

(* While a player is stopped every other one counts as shaken; and a player *)
(* that has not come to audio_open has queued nothing.                      *)
Shaking ==
    /\ \A s, t \in Session : stopping = {t} /\ s # t => shaken[s]
    /\ \A s \in Session : life[s] \in {"none", "opening"} => heard[s] = {}

Inv == ATypeOK /\ NoLeak /\ Shaking /\ Undisturbed

(* The inductive invariant holds at the start.                              *)
LEMMA InitInv == Init => Inv
  <1> SUFFICES ASSUME Init PROVE Inv  OBVIOUS
  <1>1. ATypeOK  BY DEF Init, ATypeOK, Threads
  <1>2. NoLeak  BY DEF Init, NoLeak
  <1>3. Shaking  BY DEF Init, Shaking
  <1>4. Undisturbed  BY DEF Init, Undisturbed
  <1> QED  BY <1>1, <1>2, <1>3, <1>4 DEF Inv

(* Every step preserves the inductive invariant.                            *)
LEMMA Inductive == Inv /\ [Next]_vars => Inv'
  <1> SUFFICES ASSUME Inv, [Next]_vars PROVE Inv'  OBVIOUS
  <1> USE AudioAssumption
  <1> USE DEF Id, Threads
  <1>1. ASSUME NEW s \in Session, Construct(s) PROVE Inv'
    <2> USE <1>1 DEF Construct, LifeGo
    <2>1. ATypeOK'  BY DEF Inv, ATypeOK
    <2>2. NoLeak'  BY DEF Inv, ATypeOK, NoLeak
    <2>3. Shaking'  BY DEF Inv, ATypeOK, Shaking
    <2>4. Undisturbed'  BY DEF Inv, ATypeOK, Undisturbed
    <2> QED  BY <2>1, <2>2, <2>3, <2>4 DEF Inv
  <1>2. ASSUME NEW s \in Session, OpenSucceeds(s) PROVE Inv'
    <2> USE <1>2 DEF OpenSucceeds, LifeGo
    <2>0. PICK i \in Free : device' = [device EXCEPT ![i] = {s}]
                           /\ audio_dev' = [audio_dev EXCEPT ![s] = i]
      OBVIOUS
    <2>d. stereo' \in [Session -> BOOLEAN]  BY DEF Inv, ATypeOK
    <2>a. i \in Id /\ i >= 2 /\ device[i] = {}  BY DEF Free
    <2>b. heard[s] = {}  BY DEF Inv, Shaking
    <2> HIDE <1>2
    <2>c. /\ life[s] = "opening" /\ life' = [life EXCEPT ![s] = "running"]
          /\ shaken' = [shaken EXCEPT ![s] = stopping \notin {{}, {s}}]
          /\ UNCHANGED <<subsystem, stopping, heard>>
      BY <1>2
    <2>1. ATypeOK'  BY <2>0, <2>a, <2>c, <2>d DEF Inv, ATypeOK
    <2>2. NoLeak'
      <3> SUFFICES ASSUME NEW j \in Id, NEW t \in Session, device'[j] = {t}
                   PROVE audio_dev'[t] = j /\ life'[t] \in {"running", "joined"}
        BY DEF NoLeak
      <3>1. CASE j = i
        BY <3>1, <2>0, <2>a, <2>c DEF Inv, ATypeOK
      <3>2. CASE j # i
        <4>1. device[j] = {t}  BY <3>2, <2>0, <2>a DEF Inv, ATypeOK
        <4>2. audio_dev[t] = j /\ life[t] \in {"running", "joined"}
          BY <4>1 DEF Inv, NoLeak
        <4> QED  BY <4>2, <2>0, <2>c DEF Inv, ATypeOK
      <3> QED  BY <3>1, <3>2
    <2>3. Shaking'
      <3>1. \A t, u \in Session : stopping = {t} /\ u # t => shaken'[u]
        <4> SUFFICES ASSUME NEW t \in Session, NEW u \in Session, stopping = {t}, u # t
                     PROVE shaken'[u]
          OBVIOUS
        <4>1. CASE u = s  BY <4>1, <2>c DEF Inv, ATypeOK
        <4>2. CASE u # s  BY <4>2, <2>c DEF Inv, ATypeOK, Shaking
        <4> QED  BY <4>1, <4>2
      <3>2. \A t \in Session : life'[t] \in {"none", "opening"} => heard[t] = {}
        BY <2>c DEF Inv, ATypeOK, Shaking
      <3> QED  BY <3>1, <3>2, <2>c DEF Shaking
    <2>4. Undisturbed'
      <3> SUFFICES ASSUME NEW t \in Session, ~shaken'[t]
                   PROVE /\ life'[t] = "running" /\ audio_dev'[t] >= 2
                                => device'[audio_dev'[t]] = {t}
                         /\ heard'[t] \in {{}, {t}}
        BY DEF Undisturbed
      <3>1. CASE t = s
        BY <3>1, <2>0, <2>a, <2>b, <2>c DEF Inv, ATypeOK
      <3>2. CASE t # s
        <4>1. ~shaken[t] /\ audio_dev'[t] = audio_dev[t] /\ life'[t] = life[t]
          BY <3>2, <2>0, <2>c DEF Inv, ATypeOK
        <4>2. life[t] = "running" /\ audio_dev[t] >= 2 => device[audio_dev[t]] = {t}
          BY <4>1 DEF Inv, Undisturbed
        <4>3. life[t] = "running" /\ audio_dev[t] >= 2 => audio_dev[t] # i
          BY <4>2, <2>a
        <4>4. life[t] = "running" /\ audio_dev[t] >= 2 => device'[audio_dev[t]] = {t}
          BY <4>2, <4>3, <2>0, <2>a DEF Inv, ATypeOK
        <4>5. heard'[t] \in {{}, {t}}  BY <4>1, <2>c DEF Inv, Undisturbed
        <4> QED  BY <4>1, <4>4, <4>5
      <3> QED  BY <3>1, <3>2
    <2> QED  BY <2>1, <2>2, <2>3, <2>4 DEF Inv
  <1>3. ASSUME NEW s \in Session, OpenFails(s) PROVE Inv'
    <2> USE <1>3 DEF OpenFails, LifeGo
    <2>1. ATypeOK'  BY DEF Inv, ATypeOK
    <2>2. NoLeak'  BY DEF Inv, ATypeOK, NoLeak
    <2>3. Shaking'  BY DEF Inv, ATypeOK, Shaking
    <2>4. Undisturbed'  BY DEF Inv, ATypeOK, Undisturbed
    <2> QED  BY <2>1, <2>2, <2>3, <2>4 DEF Inv
  <1>4. ASSUME NEW s \in Session, QueueAudio(s) PROVE Inv'
    <2> USE <1>4 DEF QueueAudio
    <2>1. ATypeOK'  BY DEF Inv, ATypeOK
    <2>2. NoLeak'  BY DEF Inv, ATypeOK, NoLeak
    <2>3. Shaking'  BY DEF Inv, ATypeOK, Shaking
    <2>4. Undisturbed'  BY DEF Inv, ATypeOK, Undisturbed
    <2> QED  BY <2>1, <2>2, <2>3, <2>4 DEF Inv
  <1>5. ASSUME NEW s \in Session, StopPlay(s) PROVE Inv'
    <2> USE <1>5 DEF StopPlay
    <2>1. ATypeOK'  BY DEF Inv, ATypeOK
    <2>2. NoLeak'  BY DEF Inv, ATypeOK, NoLeak
    <2>3. Shaking'  BY DEF Inv, ATypeOK, Shaking
    <2>4. Undisturbed'  BY DEF Inv, ATypeOK, Undisturbed
    <2> QED  BY <2>1, <2>2, <2>3, <2>4 DEF Inv
  <1>6. ASSUME NEW s \in Session, Join(s) PROVE Inv'
    <2> USE <1>6 DEF Join, LifeGo
    <2>1. ATypeOK'  BY DEF Inv, ATypeOK
    <2>2. NoLeak'  BY DEF Inv, ATypeOK, NoLeak
    <2>3. Shaking'  BY DEF Inv, ATypeOK, Shaking
    <2>4. Undisturbed'  BY DEF Inv, ATypeOK, Undisturbed
    <2> QED  BY <2>1, <2>2, <2>3, <2>4 DEF Inv
  <1>7. ASSUME NEW s \in Session, CloseDevice(s) PROVE Inv'
    <2> USE <1>7 DEF CloseDevice, LifeGo
    <2>0. stopping = {s}  BY DEF Inv, ATypeOK
    <2>1. ATypeOK'  BY <2>0 DEF Inv, ATypeOK
    <2>2. NoLeak'
      <3> SUFFICES ASSUME NEW i \in Id, NEW t \in Session, device'[i] = {t}
                   PROVE  audio_dev[t] = i /\ life'[t] \in {"running", "joined"}
        BY DEF NoLeak
      <3>1. device[i] = {t} /\ i # audio_dev[s]  OBVIOUS
      <3>2. audio_dev[t] = i /\ life[t] \in {"running", "joined"}
        BY <3>1 DEF Inv, NoLeak
      <3> QED  BY <3>1, <3>2 DEF Inv, ATypeOK
    <2>3. Shaking'  BY DEF Inv, ATypeOK, Shaking
    <2>4. Undisturbed'  BY <2>0 DEF Inv, ATypeOK, Undisturbed, Shaking
    <2> QED  BY <2>1, <2>2, <2>3, <2>4 DEF Inv
  <1>8. ASSUME NEW s \in Session, Destroy(s) PROVE Inv'
    <2> USE <1>8 DEF Destroy, LifeGo
    <2>0. stopping = {s}  BY DEF Inv, ATypeOK
    <2>1. ATypeOK'  BY <2>0 DEF Inv, ATypeOK
    <2>2. NoLeak'  BY DEF Inv, ATypeOK, NoLeak
    <2>3. Shaking'  BY DEF Inv, ATypeOK, Shaking
    <2>4. Undisturbed'  BY <2>0 DEF Inv, ATypeOK, Undisturbed, Shaking
    <2> QED  BY <2>1, <2>2, <2>3, <2>4 DEF Inv
  <1>9. CASE UNCHANGED vars
    BY <1>9 DEF vars, Inv, ATypeOK, NoLeak, Shaking, Undisturbed
  <1> QED
    BY <1>1, <1>2, <1>3, <1>4, <1>5, <1>6, <1>7, <1>8, <1>9 DEF Next, Exhausted

(* The inductive invariant holds in every reachable state.                  *)
LEMMA Invariance == Spec => []Inv
  BY InitInv, Inductive, PTL DEF Spec

(* The audio state keeps its types, and players are stopped one at a time.  *)
THEOREM AudioTypeCorrect == Spec => []ATypeOK
  BY Invariance, PTL DEF Inv

(* No stopped player leaves a device open (stopPlay joins the reader before *)
(* it closes the device).                                                   *)
THEOREM NoDeviceLeaks == Spec => []NoLeak
  BY Invariance, PTL DEF Inv

(* The only thing that takes a player's device away is the stop of another  *)
(* player: with none of those its samples reach its own device.             *)
THEOREM UndisturbedPlayersAreHeard == Spec => []Undisturbed
  BY Invariance, PTL DEF Inv

----------------------------------------------------------------------------
(* No player is stopped while another one has its threads.                  *)
SoleStop ==
    \A s \in Session : StopPlay(s) => \A t \in Session : t # s => life[t] \notin Threads
SoleStops == [][SoleStop]_vars

Calm ==
    \A s \in Session :
        /\ life[s] \in Threads => stopping \in {{}, {s}}
        /\ life[s] = "running" /\ audio_dev[s] >= 2 => ~shaken[s]

LEMMA CalmStep ==
  ASSUME ATypeOK, Calm, [Next]_vars, [SoleStop]_vars
  PROVE  Calm'
  <1> USE AudioAssumption DEF Threads, Calm, ATypeOK
  <1>1. CASE UNCHANGED vars  BY <1>1 DEF vars
  <1>2. ASSUME NEW s \in Session, Construct(s) PROVE Calm'
    BY <1>2 DEF Construct, LifeGo
  <1>3. ASSUME NEW s \in Session, OpenSucceeds(s) PROVE Calm'
    <2>1. stopping \in {{}, {s}} /\ life[s] = "opening"  BY <1>3 DEF OpenSucceeds, LifeGo
    <2>2. PICK i \in Id : audio_dev' = [audio_dev EXCEPT ![s] = i]
      BY <1>3 DEF OpenSucceeds, Free
    <2>3. /\ stopping' = stopping
          /\ life' = [life EXCEPT ![s] = "running"]
          /\ shaken' = [shaken EXCEPT ![s] = FALSE]
      BY <1>3, <2>1 DEF OpenSucceeds, LifeGo
    <2> QED  BY <2>1, <2>2, <2>3
  <1>4. ASSUME NEW s \in Session, OpenFails(s) PROVE Calm'
    BY <1>4 DEF OpenFails, LifeGo
  <1>5. ASSUME NEW s \in Session, StopPlay(s) PROVE Calm'
    <2>1. \A t \in Session : t # s => life[t] \notin Threads
      BY <1>1, <1>5 DEF SoleStop, StopPlay, vars
    <2>2. stopping' = {s} /\ UNCHANGED <<life, audio_dev>> /\ shaken'[s] = shaken[s]
      BY <1>5 DEF StopPlay
    <2> QED  BY <2>1, <2>2
  <1>6. ASSUME NEW s \in Session, QueueAudio(s) \/ Join(s) \/ CloseDevice(s) \/ Destroy(s)
        PROVE  Calm'
    BY <1>6 DEF QueueAudio, Join, CloseDevice, Destroy, LifeGo
  <1> QED  BY <1>1, <1>2, <1>3, <1>4, <1>5, <1>6 DEF Next, Exhausted

(* What the documentation says of the sound holds as long as no player is   *)
(* stopped while another one is played, for instance for a single client:   *)
(* it takes the SDL_Quit of one player's destructor to silence another (97).*)
THEOREM SoleStopsAreHarmless == Spec /\ SoleStops => []PlaysItsOwn
  <1>1. Init => Calm  BY DEF Init, Calm, Threads
  <1>2. Inv /\ Calm => PlaysItsOwn  BY DEF Inv, Undisturbed, Calm, PlaysItsOwn
  <1>3. Inv /\ Calm /\ [Next]_vars /\ [SoleStop]_vars => Calm'  BY CalmStep DEF Inv
  <1> QED  BY Invariance, <1>1, <1>2, <1>3, PTL DEF Spec, SoleStops
=============================================================================
