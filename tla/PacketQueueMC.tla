--------------------------- MODULE PacketQueueMC ---------------------------
(* TLC instance of PacketQueue: put() is called only while the counter is   *)
(* below MaxNb, which bounds the fifo, the counter and so the state space.  *)
EXTENDS PacketQueue

CONSTANT MaxNb   \* the bound on nb_packets

ASSUME MaxNbAssumption == MaxNb \in Nat \ {0}

MCNext ==
    \E k \in Queue :
        \/ nb_packets[k] < MaxNb /\ \E p \in Packet : Put(k, p)
        \/ nb_packets[k] < MaxNb /\ PutGrowFails(k)
        \/ GetCall(k)
        \/ GetStep(k)
        \/ Unref(k)
        \/ SpuriousWake(k)
        \/ SetStop(k)
        \/ NotifyStop(k)
        \/ Flush(k)

MCSpec == QInit /\ [][MCNext]_qvars /\ QFairness
=============================================================================
