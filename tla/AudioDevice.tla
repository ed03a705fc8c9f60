---------------------------- MODULE AudioDevice ----------------------------
(* src/src/ffmpegWrapper.cpp: the SDL audio devices of the players of one   *)
(* process (constructor, audio_open, output_audio_frame, stopPlay and       *)
(* destructor).  SDL is external: its devices have numbers from 2 on, the   *)
(* least free one is given out, a number is free again once its device is   *)
(* closed, and SDL_Quit closes every device and ends the audio subsystem    *)
(* whoever else had started it.                                             *)
(*                                                                          *)
(* One thread makes, stops and destroys all players, so that a player is    *)
(* destroyed before another one is made or stopped; the reader and audio    *)
(* threads of the other players run meanwhile.                              *)
EXTENDS Naturals

CONSTANTS
    Session,      \* the players, each used once
    MaxDevices    \* how many devices SDL opens at most

ASSUME AudioAssumption == MaxDevices \in Nat \ {0}

Id == 2 .. MaxDevices + 1

VARIABLES
    subsystem,   \* the audio subsystem is initialised
    device,      \* [Id -> {s} for the player that opened the device, {} if closed]
    life,        \* [Session -> "none", "opening" (the reader has not come to
                 \*   audio_open), "running", "joined", "closed", "destroyed"]
    audio_dev,   \* [Session -> audio_dev_: 0 or a device's number]
    stereo,      \* [Session -> the device SDL opened for the player has two channels]
    stopping,    \* {s} while the handler thread stops player s
    heard,       \* history: [Session -> whose device its last samples reached]
    shaken       \* history: [Session -> another player was stopped since it opened]

vars == <<subsystem, device, life, audio_dev, stereo, stopping, heard, shaken>>

Threads == {"opening", "running"}

ATypeOK ==
    /\ subsystem \in BOOLEAN
    /\ device \in [Id -> {{}} \cup {{s} : s \in Session}]
    /\ life \in [Session -> Threads \cup {"none", "joined", "closed", "destroyed"}]
    /\ audio_dev \in [Session -> {0} \cup Id]
    /\ stereo \in [Session -> BOOLEAN]
    /\ stopping \in {{}} \cup {{s} : s \in Session}
    /\ \A s \in Session : life[s] \in {"joined", "closed"} => stopping = {s}
    /\ heard \in [Session -> {{}} \cup {{s} : s \in Session}]
    /\ shaken \in [Session -> BOOLEAN]

Init ==
    /\ subsystem = FALSE
    /\ device = [i \in Id |-> {}]
    /\ life = [s \in Session |-> "none"]
    /\ audio_dev = [s \in Session |-> 0]
    /\ stereo = [s \in Session |-> TRUE]
    /\ stopping = {}
    /\ heard = [s \in Session |-> {}]
    /\ shaken = [s \in Session |-> FALSE]

LifeGo(s, from, to) ==
    /\ life[s] \in from
    /\ life' = [life EXCEPT ![s] = to]

(* The constructor.  SDL_Init of what is initialised changes nothing.       *)
Construct(s) ==
    /\ stopping = {}
    /\ LifeGo(s, {"none"}, "opening")
    /\ subsystem' = TRUE
    /\ UNCHANGED <<device, audio_dev, stereo, stopping, heard, shaken>>

(* SDL_OpenAudioDevice, which may give a device with another number of      *)
(* channels (SDL_AUDIO_ALLOW_CHANNELS_CHANGE): nobody looks which.          *)
Free == {i \in Id : device[i] = {}}

OpenSucceeds(s) ==
    /\ subsystem
    /\ LifeGo(s, {"opening"}, "running")
    /\ \E i \in Free : /\ \A j \in Free : i <= j
                       /\ device' = [device EXCEPT ![i] = {s}]
                       /\ audio_dev' = [audio_dev EXCEPT ![s] = i]
    /\ \E two \in BOOLEAN : stereo' = [stereo EXCEPT ![s] = two]
    /\ shaken' = [shaken EXCEPT ![s] = stopping \notin {{}, {s}}]
    /\ UNCHANGED <<subsystem, stopping, heard>>

(* It fails, or there is no audio: the player goes on without a device.     *)
OpenFails(s) ==
    /\ LifeGo(s, {"opening"}, "running")
    /\ audio_dev' = [audio_dev EXCEPT ![s] = 0]
    /\ UNCHANGED <<subsystem, device, stereo, stopping, heard, shaken>>

QueueFirst(s) ==   \* mutant: the samples go to the first device
    /\ life[s] = "running"
    /\ audio_dev[s] >= 2
    /\ heard' = [heard EXCEPT ![s] = device[2]]
    /\ UNCHANGED <<subsystem, device, life, audio_dev, stereo, stopping, shaken>>

(* The audio thread: SDL_QueueAudio's result is not looked at.              *)
QueueAudio(s) ==
    /\ life[s] = "running"
    /\ audio_dev[s] >= 2
    /\ heard' = [heard EXCEPT ![s] = device[audio_dev[s]]]
    /\ UNCHANGED <<subsystem, device, life, audio_dev, stereo, stopping, shaken>>

StopPlayAnyTime(s) ==   \* mutant: handlers overlap
    /\ life[s] \in Threads
    /\ stopping' = {s}
    /\ shaken' = [t \in Session |-> shaken[t] \/ t # s]
    /\ UNCHANGED <<subsystem, device, life, audio_dev, stereo, heard>>

(* stopPlay is called; the threads go on until they are joined.             *)
StopPlay(s) ==
    /\ stopping = {}
    /\ life[s] \in Threads
    /\ stopping' = {s}
    /\ shaken' = [t \in Session |-> shaken[t] \/ t # s]
    /\ UNCHANGED <<subsystem, device, life, audio_dev, stereo, heard>>

Join(s) ==
    /\ stopping = {s}
    /\ LifeGo(s, Threads, "joined")
    /\ UNCHANGED <<subsystem, device, audio_dev, stereo, stopping, heard, shaken>>

CloseDeviceNot(s) ==   \* mutant: the device is not closed
    /\ LifeGo(s, {"joined"}, "closed")
    /\ UNCHANGED <<subsystem, device, audio_dev, stereo, stopping, heard, shaken>>

(* SDL_CloseAudioDevice closes the device that has the number now.          *)
CloseDevice(s) ==
    /\ LifeGo(s, {"joined"}, "closed")
    /\ device' = [i \in Id |-> IF i = audio_dev[s] THEN {} ELSE device[i]]
    /\ UNCHANGED <<subsystem, audio_dev, stereo, stopping, heard, shaken>>

(* The destructor calls SDL_Quit.                                           *)
Destroy(s) ==
    /\ LifeGo(s, {"closed"}, "destroyed")
    /\ stopping' = {}
    /\ subsystem' = FALSE
    /\ device' = [i \in Id |-> {}]
    /\ UNCHANGED <<audio_dev, stereo, heard, shaken>>

(* All players are used up: an end of the instance only.                    *)
Exhausted == (\A s \in Session : life[s] = "destroyed") /\ UNCHANGED vars

Next ==
    \/ \E s \in Session :
        \/ Construct(s) \/ OpenSucceeds(s) \/ OpenFails(s) \/ QueueAudio(s)
        \/ StopPlay(s) \/ Join(s) \/ CloseDevice(s) \/ Destroy(s)
    \/ Exhausted

Spec == Init /\ [][Next]_vars

----------------------------------------------------------------------------
(* A stopped player leaves no device open, also when the reader opened one  *)
(* while the stop was under way; and an open device is known to its player. *)
NoLeak ==
    \A i \in Id, s \in Session : device[i] = {s} => /\ audio_dev[s] = i
                                                    /\ life[s] \in {"running", "joined"}

(* As long as no other player is stopped, a player that got a device keeps  *)
(* it for itself, and what it queues is heard there.                        *)
Undisturbed ==
    \A s \in Session :
        /\ life[s] = "running" /\ audio_dev[s] >= 2 /\ ~shaken[s] => device[audio_dev[s]] = {s}
        /\ ~shaken[s] => heard[s] \in {{}, {s}}

(* docs: audio is played locally through SDL.  Fails: the destructor of one *)
(* player closes the devices of all of them, and the number of a device     *)
(* closed like this is given to another player.                             *)
PlaysItsOwn ==
    \A s \in Session : life[s] = "running" /\ audio_dev[s] >= 2 => device[audio_dev[s]] = {s}
=============================================================================
