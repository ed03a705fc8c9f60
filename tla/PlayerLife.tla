----------------------------- MODULE PlayerLife -----------------------------
(* What a player promises to its owner, without queues and decoders: its    *)
(* threads work in passes, none of which begins once it was told to stop,   *)
(* and when stopPlay() returns nobody is at work, for good.                 *)
CONSTANT Thread

VARIABLES
    life,   \* "none" (not started), "running", "stopping", "joined"
    busy    \* the threads in a pass: all that a player sends is sent by them

lvars == <<life, busy>>

LInit == life = "none" /\ busy = {}

(* Threads may be at work before startPlay() returns.                       *)
Start ==
    /\ life = "none"
    /\ life' = "running"
    /\ busy' \in SUBSET Thread

Begin(t) ==
    /\ life = "running"
    /\ busy' = busy \cup {t}
    /\ UNCHANGED life

End(t) ==
    /\ t \in busy
    /\ busy' = busy \ {t}
    /\ UNCHANGED life

Stop ==
    /\ life = "running"
    /\ life' = "stopping"
    /\ UNCHANGED busy

Join ==
    /\ life = "stopping"
    /\ busy = {}
    /\ life' = "joined"
    /\ UNCHANGED busy

LNext ==
    \/ Start \/ Stop \/ Join
    \/ \E t \in Thread : Begin(t) \/ End(t)

LSpec == LInit /\ [][LNext]_lvars
=============================================================================
