--------------------------- MODULE PacketChannel ---------------------------
(* What a PacketQueue promises to the two threads it connects, without its  *)
(* mutex, its condition variable and its counter: a first-in first-out      *)
(* channel that a third party may close for good.  A receiver that asks for *)
(* a packet gets the oldest one, or is refused once the channel is closed;  *)
(* packets are never reordered, duplicated or made up.  A send may fail     *)
(* (out of memory), which changes nothing here.                             *)
EXTENDS Sequences

CONSTANTS Queue, Packet, NoPacket

VARIABLES
    chan,    \* chan[k]: the packets sent on k and not received yet
    closed,  \* closed[k]: k has been stopped
    want,    \* want[k]: the consumer of k is inside get()
    got      \* got[k]: the packet the last successful get() on k returned

cvars == <<chan, closed, want, got>>

CTypeOK ==
    /\ chan \in [Queue -> Seq(Packet)]
    /\ closed \in [Queue -> BOOLEAN]
    /\ want \in [Queue -> BOOLEAN]
    /\ got \in [Queue -> Packet \cup {NoPacket}]

CInit ==
    /\ chan = [k \in Queue |-> <<>>]
    /\ closed = [k \in Queue |-> FALSE]
    /\ want = [k \in Queue |-> FALSE]
    /\ got = [k \in Queue |-> NoPacket]

Send(k, p) ==
    /\ chan' = [chan EXCEPT ![k] = Append(@, p)]
    /\ UNCHANGED <<closed, want, got>>

Ask(k) ==
    /\ ~want[k]
    /\ want' = [want EXCEPT ![k] = TRUE]
    /\ UNCHANGED <<chan, closed, got>>

Receive(k) ==
    /\ want[k]
    /\ ~closed[k]
    /\ chan[k] # <<>>
    /\ got' = [got EXCEPT ![k] = Head(chan[k])]
    /\ chan' = [chan EXCEPT ![k] = Tail(@)]
    /\ want' = [want EXCEPT ![k] = FALSE]
    /\ UNCHANGED closed

Refuse(k) ==
    /\ want[k]
    /\ closed[k]
    /\ want' = [want EXCEPT ![k] = FALSE]
    /\ UNCHANGED <<chan, closed, got>>

(* The consumer drops the packet it received.                               *)
Release(k) ==
    /\ ~want[k]
    /\ got' = [got EXCEPT ![k] = NoPacket]
    /\ UNCHANGED <<chan, closed, want>>

Close(k) ==
    /\ closed' = [closed EXCEPT ![k] = TRUE]
    /\ UNCHANGED <<chan, want, got>>

Clear(k) ==
    /\ chan' = [chan EXCEPT ![k] = <<>>]
    /\ UNCHANGED <<closed, want, got>>

CNext ==
    \E k \in Queue :
        \/ \E p \in Packet : Send(k, p)
        \/ Ask(k)
        \/ Receive(k)
        \/ Refuse(k)
        \/ Release(k)
        \/ Close(k)
        \/ Clear(k)

CSpec == CInit /\ [][CNext]_cvars
=============================================================================
