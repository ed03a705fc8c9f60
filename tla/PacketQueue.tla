---------------------------- MODULE PacketQueue ----------------------------
(* src/src/packetQueue.{h,cpp}: the blocking queue between the thread that  *)
(* reads a stream and the threads that decode it, for a family of queues.   *)
(*                                                                          *)
(* A queue has one consumer.  Its get() is cut where another thread can     *)
(* come between: the evaluation of the wait's predicate, the release of     *)
(* mutex_ by the wait (one step, as condition variables promise), and the   *)
(* body that runs after the wait returned.  put() and flush() hold mutex_   *)
(* from their first access to their last, so each is one step that needs    *)
(* the mutex.  stop() takes no lock, and its two statements are two steps.  *)
EXTENDS Integers, Sequences

CONSTANTS
    Queue,     \* the queues
    Packet,    \* what can be put on a queue
    NoPacket   \* the consumer's packet before the first get()

ASSUME NoPacketAssumption == NoPacket \notin Packet

VARIABLES
    pkt_list,    \* pkt_list[k]: the fifo pkt_list_
    nb_packets,  \* nb_packets[k]: the counter nb_packets_, all that size() reads
    stopping,    \* stopping[k]: how far stop() has come: "no", "set" (stop_request_
                 \*   is 1, nobody notified yet), "done"
    get_pc,      \* get_pc[k]: where the consumer is in get(): "idle" (outside),
                 \*   "call" (needs mutex_, to evaluate the predicate), "take"
                 \*   (predicate true, mutex_ held), "block" (predicate false,
                 \*   mutex_ held, wait not entered), "wait" (mutex_ released)
    pkt          \* pkt[k]: the packet the last successful get() moved out

qvars == <<pkt_list, nb_packets, stopping, get_pc, pkt>>

StopRequested(k) == stopping[k] # "no"

(* mutex_ is held between two steps only by a consumer inside get().        *)
Locked(k) == get_pc[k] \in {"take", "block"}

(* The counter is kept apart from the fifo; a size() below 0 would let the  *)
(* reader pass its limits (packetQueue.cpp:34, 53).                         *)
QTypeOK ==
    /\ pkt_list \in [Queue -> Seq(Packet)]
    /\ nb_packets \in [Queue -> Nat]
    /\ stopping \in [Queue -> {"no", "set", "done"}]
    /\ get_pc \in [Queue -> {"idle", "call", "take", "block", "wait"}]
    /\ pkt \in [Queue -> Packet \cup {NoPacket}]

QInit ==
    /\ pkt_list = [k \in Queue |-> <<>>]
    /\ nb_packets = [k \in Queue |-> 0]
    /\ stopping = [k \in Queue |-> "no"]
    /\ get_pc = [k \in Queue |-> "idle"]
    /\ pkt = [k \in Queue |-> NoPacket]

----------------------------------------------------------------------------
(* Mutant: nobody is notified.                                              *)
NotifyNobody(k) == UNCHANGED get_pc

(* notify_all: a consumer in the wait goes back to evaluate its predicate;  *)
(* one that has not entered the wait does not notice.                       *)
Notify(k) == get_pc' = [get_pc EXCEPT ![k] = IF @ = "wait" THEN "call" ELSE @]

(* Mutants: a put() that forgets the counter, one that forgets the mutex.   *)
EnqueueUncounted(k) ==
    ~Locked(k) /\ Notify(k) /\ UNCHANGED <<nb_packets, stopping, pkt>>
EnqueueUnlocked(k) ==
    /\ nb_packets' = [nb_packets EXCEPT ![k] = @ + 1]
    /\ Notify(k)
    /\ UNCHANGED <<stopping, pkt>>

(* put(): nb_packets_ is incremented whether or not put_private stored the  *)
(* packet.  A put() whose av_packet_alloc fails never gets this far and     *)
(* leaves the queue alone.                                                  *)
Enqueue(k) ==
    /\ ~Locked(k)
    /\ nb_packets' = [nb_packets EXCEPT ![k] = @ + 1]
    /\ Notify(k)
    /\ UNCHANGED <<stopping, pkt>>

(* Mutant: the packet is put ahead of the others.                           *)
PutAhead(k, p) == Enqueue(k) /\ pkt_list' = [pkt_list EXCEPT ![k] = <<p>> \o @]

Put(k, p) ==
    /\ Enqueue(k)
    /\ pkt_list' = [pkt_list EXCEPT ![k] = Append(@, p)]

(* put() when av_fifo_grow fails: the packet is freed, yet it is counted.   *)
PutGrowFails(k) ==
    /\ Enqueue(k)
    /\ UNCHANGED pkt_list

----------------------------------------------------------------------------
GoTo(k, from, to) ==
    /\ get_pc[k] = from
    /\ get_pc' = [get_pc EXCEPT ![k] = to]

GetCall(k) ==
    /\ GoTo(k, "idle", "call")
    /\ UNCHANGED <<pkt_list, nb_packets, stopping, pkt>>

(* The predicate of the wait, evaluated with mutex_ held.                   *)
GetCheck(k) ==
    /\ GoTo(k, "call", IF StopRequested(k) \/ pkt_list[k] # <<>> THEN "take" ELSE "block")
    /\ UNCHANGED <<pkt_list, nb_packets, stopping, pkt>>

GetBlock(k) ==
    /\ GoTo(k, "block", "wait")
    /\ UNCHANGED <<pkt_list, nb_packets, stopping, pkt>>

SpuriousWake(k) ==
    /\ GoTo(k, "wait", "call")
    /\ UNCHANGED <<pkt_list, nb_packets, stopping, pkt>>

(* After the wait, stop_request_ is read once more: get() returns -1...     *)
GetStopped(k) ==
    /\ GoTo(k, "take", "idle")
    /\ StopRequested(k)
    /\ UNCHANGED <<pkt_list, nb_packets, stopping, pkt>>

(* Mutant: the popped packet is not taken off the counter.                  *)
GetTakeUncounted(k) ==
    /\ GoTo(k, "take", "idle")
    /\ ~StopRequested(k)
    /\ pkt_list' = [pkt_list EXCEPT ![k] = Tail(@)]
    /\ pkt' = [pkt EXCEPT ![k] = Head(pkt_list[k])]
    /\ UNCHANGED <<nb_packets, stopping>>

(* ... or pops the oldest packet.                                           *)
GetTake(k) ==
    /\ GoTo(k, "take", "idle")
    /\ ~StopRequested(k)
    /\ pkt_list' = [pkt_list EXCEPT ![k] = Tail(@)]
    /\ pkt' = [pkt EXCEPT ![k] = Head(pkt_list[k])]
    /\ nb_packets' = [nb_packets EXCEPT ![k] = @ - 1]
    /\ UNCHANGED stopping

(* The consumer unrefs the packet when it is done with it.                  *)
Unref(k) ==
    /\ get_pc[k] = "idle"
    /\ pkt' = [pkt EXCEPT ![k] = NoPacket]
    /\ UNCHANGED <<pkt_list, nb_packets, stopping, get_pc>>

GetStep(k) == GetCheck(k) \/ GetBlock(k) \/ GetStopped(k) \/ GetTake(k)

----------------------------------------------------------------------------
(* stop(): the flag is written without mutex_, then everybody is notified.  *)
SetStop(k) ==
    /\ stopping' = [stopping EXCEPT ![k] = "set"]
    /\ UNCHANGED <<pkt_list, nb_packets, get_pc, pkt>>

NotifyStop(k) ==
    /\ stopping[k] = "set"
    /\ stopping' = [stopping EXCEPT ![k] = "done"]
    /\ Notify(k)
    /\ UNCHANGED <<pkt_list, nb_packets, pkt>>

(* Mutant: the fifo is emptied without the mutex.                           *)
FlushUnlocked(k) ==
    /\ pkt_list' = [pkt_list EXCEPT ![k] = <<>>]
    /\ UNCHANGED <<nb_packets, stopping, get_pc, pkt>>

(* flush(): empties the fifo under mutex_; nb_packets_ keeps its value.     *)
Flush(k) ==
    /\ ~Locked(k)
    /\ pkt_list' = [pkt_list EXCEPT ![k] = <<>>]
    /\ UNCHANGED <<nb_packets, stopping, get_pc, pkt>>

----------------------------------------------------------------------------
QNext ==
    \E k \in Queue :
        \/ \E p \in Packet : Put(k, p)
        \/ PutGrowFails(k)
        \/ GetCall(k)
        \/ GetStep(k)
        \/ Unref(k)
        \/ SpuriousWake(k)
        \/ SetStop(k)
        \/ NotifyStop(k)
        \/ Flush(k)

QSpec == QInit /\ [][QNext]_qvars

(* A consumer that can run does run; it is never forced into a spurious     *)
(* wake-up, and nobody is forced to put, to stop or to flush.               *)
QFairness == \A k \in Queue : WF_qvars(GetStep(k))

----------------------------------------------------------------------------
(* get() pops only from a fifo that holds a packet: nothing comes between   *)
(* the predicate and the pop, because mutex_ is held (packetQueue.cpp:42).  *)
TakeNonEmpty ==
    \A k \in Queue :
        get_pc[k] = "take" /\ ~StopRequested(k) => pkt_list[k] # <<>>

(* No consumer goes to sleep, or stays asleep, on a fifo that holds a       *)
(* packet: no put() is missed (packetQueue.cpp:27-29, 43).                  *)
NoSleepOnPackets ==
    \A k \in Queue : get_pc[k] \in {"block", "wait"} => pkt_list[k] = <<>>

(* size() never reports less than the fifo holds, so the reader's limit on  *)
(* size() (ffmpegWrapper.cpp:178-179) limits the fifo as well.              *)
NbCoversList == \A k \in Queue : nb_packets[k] >= Len(pkt_list[k])

QInv == TakeNonEmpty /\ NoSleepOnPackets /\ NbCoversList

(* The channel this queue implements.                                       *)
Channel == INSTANCE PacketChannel WITH
    chan   <- pkt_list,
    closed <- [k \in Queue |-> StopRequested(k)],
    want   <- [k \in Queue |-> get_pc[k] # "idle"],
    got    <- pkt

(* Every execution of the queue is one of a first-in first-out channel.     *)
ImplementsChannel == Channel!CSpec

(* A consumer inside get() leaves it once there is a packet: a put() wakes  *)
(* the waiting consumer whatever the interleaving (flush() apart).          *)
Delivered ==
    \A k \in Queue :
        (get_pc[k] # "idle" /\ pkt_list[k] # <<>>)
            ~> (get_pc[k] = "idle" \/ pkt_list[k] = <<>>)
=============================================================================
