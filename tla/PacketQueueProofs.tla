------------------------- MODULE PacketQueueProofs -------------------------
(* Theorems about PacketQueue, for any number of queues and any packets,    *)
(* with no bound on the number of puts.                                     *)
EXTENDS PacketQueue, TLAPS

(* Types are kept by every operation of the queue, as get() never pops from *)
(* an empty fifo and a packet in the fifo has been counted.                 *)
LEMMA QTypeStep ==
    ASSUME QTypeOK, QInv, [QNext]_qvars
    PROVE  QTypeOK'
<1>1. CASE UNCHANGED qvars
  BY <1>1 DEF QTypeOK, qvars
<1>2. CASE QNext
  <2> PICK k \in Queue :
        \/ \E p \in Packet : Put(k, p)
        \/ PutGrowFails(k)
        \/ GetCall(k)
        \/ GetStep(k)
        \/ Unref(k)
        \/ SpuriousWake(k)
        \/ SetStop(k)
        \/ NotifyStop(k)
        \/ Flush(k)
    BY <1>2 DEF QNext
  <2> USE DEF QTypeOK
  <2>1. ASSUME NEW p \in Packet, Put(k, p)
        PROVE  QTypeOK'
    BY <2>1 DEF Put, Enqueue, Notify
  <2>2. CASE PutGrowFails(k)
    BY <2>2 DEF PutGrowFails, Enqueue, Notify
  <2>3. CASE GetCall(k)
    BY <2>3 DEF GetCall, GoTo
  <2>4. CASE GetCheck(k)
    BY <2>4 DEF GetCheck, GoTo
  <2>5. CASE GetBlock(k)
    BY <2>5 DEF GetBlock, GoTo
  <2>6. CASE GetStopped(k)
    BY <2>6 DEF GetStopped, GoTo
  <2>7. CASE GetTake(k)
    <3>1. pkt_list[k] \in Seq(Packet) /\ pkt_list[k] # <<>>
      BY <2>7 DEF GetTake, GoTo, QInv, TakeNonEmpty
    <3>2. Head(pkt_list[k]) \in Packet /\ Tail(pkt_list[k]) \in Seq(Packet)
      BY <3>1
    <3>3. nb_packets[k] - 1 \in Nat
      <4>1. nb_packets[k] \in Nat /\ nb_packets[k] >= Len(pkt_list[k])
        BY DEF QInv, NbCoversList
      <4>2. Len(pkt_list[k]) \in Nat \ {0}
        BY <3>1
      <4> QED
        BY <4>1, <4>2
    <3> QED
      BY <2>7, <3>2, <3>3 DEF GetTake, GoTo
  <2>8. CASE Unref(k)
    BY <2>8 DEF Unref
  <2>9. CASE SpuriousWake(k)
    BY <2>9 DEF SpuriousWake, GoTo
  <2>10. CASE SetStop(k)
    BY <2>10 DEF SetStop
  <2>11. CASE NotifyStop(k)
    BY <2>11 DEF NotifyStop, Notify
  <2>12. CASE Flush(k)
    BY <2>12 DEF Flush
  <2> QED
    BY <2>1, <2>2, <2>3, <2>4, <2>5, <2>6, <2>7, <2>8, <2>9, <2>10, <2>11, <2>12 DEF GetStep
<1> QED
  BY <1>1, <1>2

----------------------------------------------------------------------------
(* The effect of a push and of a pop on the length of the fifo.             *)
LEMMA FifoLengths ==
    ASSUME NEW l \in Seq(Packet)
    PROVE  /\ Len(l) \in Nat
           /\ l = <<>> <=> Len(l) = 0
           /\ \A p \in Packet : Append(l, p) # <<>> /\ Len(Append(l, p)) = Len(l) + 1
           /\ l # <<>> => Len(Tail(l)) = Len(l) - 1
<1>1. Len(l) \in Nat /\ (l = <<>> <=> Len(l) = 0)
  OBVIOUS
<1>2. ASSUME NEW p \in Packet
      PROVE  Append(l, p) # <<>> /\ Len(Append(l, p)) = Len(l) + 1
  BY <1>1
<1>3. ASSUME l # <<>>
      PROVE  Len(Tail(l)) = Len(l) - 1
  BY <1>1, <1>3
<1> QED
  BY <1>1, <1>2, <1>3

(* What an operation on queue k does to the three invariants of a queue.    *)
QInvOf(k) ==
    /\ get_pc[k] = "take" /\ ~StopRequested(k) => pkt_list[k] # <<>>
    /\ get_pc[k] \in {"block", "wait"} => pkt_list[k] = <<>>
    /\ nb_packets[k] >= Len(pkt_list[k])

(* The invariant of the family is that of each queue.                      *)
LEMMA QInvByQueue == QInv <=> \A k \in Queue : QInvOf(k)
BY DEF QInv, QInvOf, TakeNonEmpty, NoSleepOnPackets, NbCoversList

(* The invariants of a queue are kept: put() and flush() change the fifo    *)
(* only while nobody holds the mutex, and put() leaves nobody asleep.       *)
LEMMA QInvStep ==
    ASSUME QTypeOK, QInv, [QNext]_qvars
    PROVE  QInv'
<1>1. CASE UNCHANGED qvars
  BY <1>1 DEF QInv, TakeNonEmpty, NoSleepOnPackets, NbCoversList, StopRequested, qvars
<1>2. CASE QNext
  <2> PICK k \in Queue :
        \/ \E p \in Packet : Put(k, p)
        \/ PutGrowFails(k)
        \/ GetCall(k)
        \/ GetStep(k)
        \/ Unref(k)
        \/ SpuriousWake(k)
        \/ SetStop(k)
        \/ NotifyStop(k)
        \/ Flush(k)
    BY <1>2 DEF QNext
  <2> SUFFICES ASSUME NEW j \in Queue
               PROVE  QInvOf(j)'
    BY QInvByQueue DEF QInv, QInvOf, TakeNonEmpty, NoSleepOnPackets, NbCoversList
  <2>0. QInvOf(j) /\ QInvOf(k)
    BY QInvByQueue
  <2>t. /\ pkt_list[j] \in Seq(Packet) /\ pkt_list[k] \in Seq(Packet)
        /\ nb_packets[j] \in Int /\ nb_packets[k] \in Int
        /\ Len(pkt_list[j]) \in Nat
    BY FifoLengths DEF QTypeOK
  <2> USE DEF QTypeOK, QInvOf, StopRequested
  <2>1. ASSUME NEW p \in Packet, Put(k, p)
        PROVE  QInvOf(j)'
    <3>1. Append(pkt_list[k], p) # <<>> /\ Len(Append(pkt_list[k], p)) = Len(pkt_list[k]) + 1
      BY <2>t, FifoLengths
    <3> QED
      BY <2>0, <2>1, <2>t, <3>1 DEF Put, Enqueue, Notify, Locked
  <2>2. CASE PutGrowFails(k)
    BY <2>0, <2>2, <2>t DEF PutGrowFails, Enqueue, Notify, Locked
  <2>3. CASE GetCall(k)
    BY <2>0, <2>3 DEF GetCall, GoTo
  <2>4. CASE GetCheck(k)
    BY <2>0, <2>4 DEF GetCheck, GoTo
  <2>5. CASE GetBlock(k)
    BY <2>0, <2>5 DEF GetBlock, GoTo
  <2>6. CASE GetStopped(k)
    BY <2>0, <2>6 DEF GetStopped, GoTo
  <2>7. CASE GetTake(k)
    <3>1. Len(Tail(pkt_list[k])) = Len(pkt_list[k]) - 1
      BY <2>0, <2>7, <2>t, FifoLengths DEF GetTake, GoTo
    <3> QED
      BY <2>0, <2>7, <2>t, <3>1 DEF GetTake, GoTo
  <2>8. CASE Unref(k)
    BY <2>0, <2>8 DEF Unref
  <2>9. CASE SpuriousWake(k)
    BY <2>0, <2>9 DEF SpuriousWake, GoTo
  <2>10. CASE SetStop(k)
    BY <2>0, <2>10 DEF SetStop
  <2>11. CASE NotifyStop(k)
    BY <2>0, <2>11 DEF NotifyStop, Notify
  <2>12. CASE Flush(k)
    BY <2>0, <2>12, <2>t, FifoLengths DEF Flush, Locked
  <2> QED
    BY <2>1, <2>2, <2>3, <2>4, <2>5, <2>6, <2>7, <2>8, <2>9, <2>10, <2>11, <2>12 DEF GetStep
<1> QED
  BY <1>1, <1>2

(* The types and the invariant hold at the start.                           *)
LEMMA QInitInv == QInit => QTypeOK /\ QInv
BY DEF QInit, QTypeOK, QInv, TakeNonEmpty, NoSleepOnPackets, NbCoversList, StopRequested

(* The types and the three invariants together are inductive.               *)
LEMMA QInductive == QSpec => [](QTypeOK /\ QInv)
<1>1. QTypeOK /\ QInv /\ [QNext]_qvars => (QTypeOK /\ QInv)'
  BY QTypeStep, QInvStep
<1> QED
  BY QInitInv, <1>1, PTL DEF QSpec

(* The types of the queue's state hold in every reachable state.            *)
THEOREM QTypeCorrect == QSpec => []QTypeOK
BY QInductive, PTL

(* get() never pops from an empty fifo (packetQueue.cpp:46-49).             *)
THEOREM QTakeNonEmpty == QSpec => []TakeNonEmpty
<1>1. QInv => TakeNonEmpty
  BY DEF QInv
<1> QED
  BY QInductive, <1>1, PTL

(* No put() is missed by a consumer that sleeps or is about to              *)
(* (packetQueue.cpp:27-29, 43).                                             *)
THEOREM QNoSleepOnPackets == QSpec => []NoSleepOnPackets
<1>1. QInv => NoSleepOnPackets
  BY DEF QInv
<1> QED
  BY QInductive, <1>1, PTL

(* size() never reports less than the fifo holds (packetQueue.cpp:34, 53).  *)
THEOREM QNbCoversList == QSpec => []NbCoversList
<1>1. QInv => NbCoversList
  BY DEF QInv
<1> QED
  BY QInductive, <1>1, PTL

----------------------------------------------------------------------------
(* Each operation of the queue is one of the channel, or changes nothing    *)
(* the channel shows: the mutex, the wake-ups and the counter are hidden.   *)
LEMMA QStepRefines ==
    ASSUME QTypeOK, TakeNonEmpty, [QNext]_qvars
    PROVE  [Channel!CNext]_(Channel!cvars)
<1> DEFINE shown == <<pkt_list, [k \in Queue |-> StopRequested(k)],
                      [k \in Queue |-> get_pc[k] # "idle"], pkt>>
<1>0. shown' = shown => [Channel!CNext]_(Channel!cvars)
  BY DEF Channel!cvars
<1> HIDE DEF shown
<1>1. CASE UNCHANGED qvars
  BY <1>1, <1>0 DEF qvars, shown, StopRequested
<1>2. CASE QNext
  <2> PICK k \in Queue :
        \/ \E p \in Packet : Put(k, p)
        \/ PutGrowFails(k)
        \/ GetCall(k)
        \/ GetStep(k)
        \/ Unref(k)
        \/ SpuriousWake(k)
        \/ SetStop(k)
        \/ NotifyStop(k)
        \/ Flush(k)
    BY <1>2 DEF QNext
  <2> USE DEF QTypeOK, StopRequested
  <2>1. ASSUME NEW p \in Packet, Put(k, p)
        PROVE  Channel!Send(k, p)
    BY <2>1 DEF Put, Enqueue, Notify, Locked, Channel!Send
  <2>2. CASE PutGrowFails(k)
    BY <2>2, <1>0 DEF PutGrowFails, Enqueue, Notify, shown
  <2>3. CASE GetCall(k)
    <3> Channel!Ask(k)
      BY <2>3 DEF GetCall, GoTo, Channel!Ask
    <3> QED
      BY DEF Channel!CNext
  <2>4. CASE GetCheck(k) \/ GetBlock(k) \/ SpuriousWake(k)
    BY <2>4, <1>0 DEF GetCheck, GetBlock, SpuriousWake, GoTo, shown
  <2>5. CASE GetStopped(k)
    <3> Channel!Refuse(k)
      BY <2>5 DEF GetStopped, GoTo, Channel!Refuse
    <3> QED
      BY DEF Channel!CNext
  <2>6. CASE GetTake(k)
    <3> Channel!Receive(k)
      BY <2>6 DEF GetTake, GoTo, TakeNonEmpty, Channel!Receive
    <3> QED
      BY DEF Channel!CNext
  <2>7. CASE Unref(k)
    <3> Channel!Release(k)
      BY <2>7 DEF Unref, Channel!Release
    <3> QED
      BY DEF Channel!CNext
  <2>8. CASE SetStop(k)
    <3> Channel!Close(k)
      BY <2>8 DEF SetStop, Channel!Close
    <3> QED
      BY DEF Channel!CNext
  <2>9. CASE NotifyStop(k)
    BY <2>9, <1>0 DEF NotifyStop, Notify, shown
  <2>10. CASE Flush(k)
    <3> Channel!Clear(k)
      BY <2>10 DEF Flush, Channel!Clear
    <3> QED
      BY DEF Channel!CNext
  <2> QED
    BY <2>1, <2>2, <2>3, <2>4, <2>5, <2>6, <2>7, <2>8, <2>9, <2>10 DEF GetStep, Channel!CNext
<1> QED
  BY <1>1, <1>2

(* Empty queues are an empty channel.                                       *)
LEMMA QInitRefines == QInit => Channel!CInit
BY DEF QInit, StopRequested, Channel!CInit

(* A PacketQueue is a first-in first-out channel that can be closed, for    *)
(* every number of queues, of packets and of puts.                          *)
THEOREM QRefinesChannel == QSpec => ImplementsChannel
<1>1. QTypeOK /\ QInv /\ [QNext]_qvars => [Channel!CNext]_(Channel!cvars)
  BY QStepRefines DEF QInv
<1> QED
  BY QInductive, QInitRefines, <1>1, PTL DEF QSpec, ImplementsChannel, Channel!CSpec

(* The consumer of queue k has not fallen asleep before the stop.           *)
Heeds(k) == StopRequested(k) /\ get_pc[k] \notin {"block", "wait"}

LEMMA HeedsStep ==
    ASSUME QTypeOK, NEW k \in Queue, Heeds(k), [QNext]_qvars
    PROVE  Heeds(k)'
<1> USE DEF Heeds, StopRequested
<1>1. CASE UNCHANGED qvars
  BY <1>1 DEF qvars
<1>2. ASSUME NEW j \in Queue,
             (\E p \in Packet : Put(j, p)) \/ PutGrowFails(j) \/ NotifyStop(j)
      PROVE  Heeds(k)'
  BY <1>2 DEF QTypeOK, Put, PutGrowFails, Enqueue, NotifyStop, Notify
<1>3. ASSUME NEW j \in Queue, GetCall(j) \/ GetStep(j) \/ SpuriousWake(j)
      PROVE  Heeds(k)'
  BY <1>3 DEF QTypeOK, GetCall, GetStep, GetCheck, GetBlock, GetStopped, GetTake, SpuriousWake, GoTo
<1>4. ASSUME NEW j \in Queue, Unref(j) \/ SetStop(j) \/ Flush(j)
      PROVE  Heeds(k)'
  BY <1>4 DEF QTypeOK, Unref, SetStop, Flush
<1> QED
  BY <1>1, <1>2, <1>3, <1>4 DEF QNext

(* A consumer that has not begun to sleep when stop() writes its flag never *)
(* sleeps on this queue again, whatever becomes of the notification: all    *)
(* that a stop can lose is a consumer between its predicate and its wait,   *)
(* or in the wait (packetQueue.cpp:43, 68-71).                              *)
THEOREM QStopIsHeeded ==
    ASSUME NEW k \in Queue
    PROVE  QSpec => [](Heeds(k) => []Heeds(k))
<1>1. QTypeOK /\ Heeds(k) /\ [QNext]_qvars => Heeds(k)'
  BY HeedsStep
<1> QED
  BY QInductive, <1>1, PTL DEF QSpec
=============================================================================
