---------------------------- MODULE Subscription ----------------------------
(* What the server promises to its clients, without players, keys, threads  *)
(* and handlers: a connection is fed (with pictures, or the report that     *)
(* there will be none) only while its client has asked for a video and has  *)
(* not been told that it was stopped, and never after its end.              *)
CONSTANT Conn

VARIABLES
    link,    \* [Conn -> "none" (not connected yet), "up" or "gone"]
    asked,   \* [Conn -> a Play came since the last answered Stop]
    fed      \* [Conn -> something is being sent to the client, or a picture waits]

cvars == <<link, asked, fed>>

CInit ==
    /\ link = [c \in Conn |-> "none"]
    /\ asked = [c \in Conn |-> FALSE]
    /\ fed = [c \in Conn |-> FALSE]

Connect(c) ==
    /\ link[c] = "none"
    /\ link' = [link EXCEPT ![c] = "up"]
    /\ UNCHANGED <<asked, fed>>

Refuse(c) ==
    /\ link[c] = "none"
    /\ link' = [link EXCEPT ![c] = "gone"]
    /\ UNCHANGED <<asked, fed>>

Play(c) ==
    /\ link[c] = "up"
    /\ asked' = [asked EXCEPT ![c] = TRUE]
    /\ UNCHANGED <<link, fed>>

Stopped(c) ==
    /\ link[c] = "up"
    /\ asked' = [asked EXCEPT ![c] = FALSE]
    /\ UNCHANGED <<link, fed>>

Feed(c) ==
    /\ link[c] = "up"
    /\ asked[c]
    /\ fed' = [fed EXCEPT ![c] = TRUE]
    /\ UNCHANGED <<link, asked>>

Written(c) ==
    /\ link[c] = "up"
    /\ fed' = [fed EXCEPT ![c] = FALSE]
    /\ UNCHANGED <<link, asked>>

End(c) ==
    /\ link[c] = "up"
    /\ link' = [link EXCEPT ![c] = "gone"]
    /\ fed' = [fed EXCEPT ![c] = FALSE]
    /\ UNCHANGED asked

CNext ==
    \E c \in Conn : \/ Connect(c) \/ Refuse(c) \/ Play(c) \/ Stopped(c)
                    \/ Feed(c) \/ Written(c) \/ End(c)

CSpec == CInit /\ [][CNext]_cvars
=============================================================================
