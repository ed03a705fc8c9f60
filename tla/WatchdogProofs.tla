--------------------------- MODULE WatchdogProofs ---------------------------
(* Proofs about Watchdog: the types, the bounds on the time the opening and *)
(* a stop take, and the alarms.                                             *)
EXTENDS Watchdog, TLAPS

(* The seconds that the attempts before the r-th last one have used.        *)
Used(r) == (RetryTimes - r) * (Limit + 2)

(* Where the reader is bounds what the opening has taken so far.            *)
OpeningTime ==
    /\ pc \in Opening => retry >= 1
    /\ ~back =>
        /\ age >= 0
        /\ pc \in {"attempt", "test"} => spent <= Used(retry)
        /\ pc \in {"opening", "info"} => spent <= Used(retry) + age
        /\ pc = "retry" => spent <= Used(retry) - 1
        /\ pc \notin Opening => spent <= OpenBound

(* ... and the time since a stop: while the reader waits, the age of the    *)
(* call it waits in bounds it.                                              *)
StopTime ==
    /\ ~stop => since = 0
    /\ ~back =>
        /\ pc = "attempt" => since = 0
        /\ pc \in Waiting => since <= age
        /\ pc \in {"retry", "pause"} => since <= Limit + 1
        /\ since <= StopBound

(* Without a known reason, preTime_ is no older than the silence.           *)
Fresh == why = {} => age <= dry

Transport(u) == IF u # 0 THEN "tcp" ELSE "udp"

(* The transport of the current attempt, and of the one before, were tried. *)
Alternates ==
    useTCP \in {0, 1} =>
        /\ pc = "opening" => Transport(useTCP) \in tried
        /\ pc \in Opening \cup {"failed"} /\ retry < RetryTimes =>
               Transport(1 - useTCP) \in tried
        /\ pc \in Opening \cup {"failed"} /\ retry + 1 < RetryTimes =>
               tried = {"tcp", "udp"}

Inv == WTypeOK /\ OpeningTime /\ StopTime /\ Fresh /\ Alternates

----------------------------------------------------------------------------
LEMMA UsedStep ==
    ASSUME NEW r \in Int
    PROVE  Used(r - 1) = Used(r) + Limit + 2
  <1>1. (RetryTimes - (r - 1)) * (Limit + 2) = (RetryTimes - r) * (Limit + 2) + (Limit + 2)
    BY WatchdogAssumption
  <1> QED BY <1>1, WatchdogAssumption DEF Used

LEMMA UsedFits ==
    ASSUME NEW r \in 1 .. RetryTimes
    PROVE  Used(r) \in Nat /\ Used(r) + Limit + 1 <= OpenBound
  <1>1. (RetryTimes - r) * (Limit + 2) + r * (Limit + 2) = RetryTimes * (Limit + 2)
    BY WatchdogAssumption
  <1>2. r * (Limit + 2) >= Limit + 2
    BY WatchdogAssumption
  <1>3. (RetryTimes - r) * (Limit + 2) \in Nat
    BY WatchdogAssumption
  <1> QED BY <1>1, <1>2, <1>3, WatchdogAssumption DEF Used, OpenBound

LEMMA UsedEnds == Used(0) - 1 = OpenBound /\ Used(RetryTimes) = 0 /\ OpenBound \in Nat
  <1>1. 0 * (Limit + 2) = 0
    BY WatchdogAssumption
  <1>2. RetryTimes * (Limit + 2) \in Nat /\ RetryTimes * (Limit + 2) >= Limit + 2
    BY WatchdogAssumption
  <1> QED BY <1>1, <1>2, WatchdogAssumption DEF Used, OpenBound

LEMMA FlipTwice == \A u \in Nat : /\ (IF u % 2 = 0 THEN u + 1 ELSE u - 1) \in Nat
                                  /\ (IF u % 2 = 0 THEN u + 1 ELSE u - 1) \in {0, 1} =>
                                        /\ u \in {0, 1}
                                        /\ (IF u % 2 = 0 THEN u + 1 ELSE u - 1) = 1 - u
  <1> TAKE u \in Nat
  <1>1. CASE u % 2 = 0 BY <1>1
  <1>2. CASE u % 2 # 0 BY <1>2
  <1> QED BY <1>1, <1>2

USE DEF Waiting, Opening, Finished, StopBound

LEMMA InitInv == Init => Inv
  <1> SUFFICES ASSUME Init PROVE Inv
    OBVIOUS
  <1> USE WatchdogAssumption, UsedEnds DEF Init
  <1>1. WTypeOK
    <2>1. pc \in Opening /\ retry \in 0 .. RetryTimes /\ useTCP \in Nat BY DEF WTypeOK
    <2>2. age \in -Back .. Limit + 1 BY DEF WTypeOK
    <2>3. spent \in 0 .. OpenBound + 1 /\ since \in 0 .. StopBound + 1 /\ dry \in 0 .. Limit + 1 BY DEF WTypeOK
    <2> QED BY <2>1, <2>2, <2>3 DEF WTypeOK
  <1>2. OpeningTime BY DEF OpeningTime
  <1>3. StopTime /\ Fresh BY DEF StopTime, Fresh
  <1>4. Alternates BY DEF Alternates, Transport
  <1> QED BY <1>1, <1>2, <1>3, <1>4 DEF Inv

LEMMA NextInv == Inv /\ [Next]_vars => Inv'
  <1> SUFFICES ASSUME Inv, [Next]_vars PROVE Inv'
    OBVIOUS
  <1> USE WatchdogAssumption DEF Inv
  <1>v. pc \in Opening => Used(retry) \in Nat /\ Used(retry) + Limit + 1 <= OpenBound
    BY UsedFits DEF WTypeOK, OpeningTime
  <1>o. OpenBound \in Nat BY UsedEnds
  <1>1. CASE Attempt
    <2> USE <1>1 DEF Attempt, Go, Touch, told
    <2>1. WTypeOK' BY DEF WTypeOK
    <2>2. OpeningTime' BY <1>v, <1>o DEF WTypeOK, OpeningTime
    <2>3. StopTime' /\ Fresh' BY DEF WTypeOK, StopTime, Fresh
    <2>4. Alternates' BY DEF WTypeOK, Alternates, Transport
    <2> QED BY <2>1, <2>2, <2>3, <2>4
  <1>2. CASE AttemptFails
    <2> USE <1>2 DEF AttemptFails, Go, told
    <2>r. retry \in 1 .. RetryTimes /\ retry' = retry - 1
      BY DEF WTypeOK, OpeningTime
    <2>u. Used(retry') = Used(retry) + Limit + 2
      BY <2>r, UsedStep
    <2>1. WTypeOK' BY <2>r, FlipTwice DEF WTypeOK, Flip
    <2>2. OpeningTime'
      <3>1. CASE retry = 1
        BY <3>1, <1>v, <1>o, <2>r DEF WTypeOK, OpeningTime
      <3>2. CASE retry # 1
        <4>1. (pc' \in Opening => retry' >= 1) /\ pc' = "retry"
          BY <3>2, <2>r
        <4>2. ~back' => age' >= 0 /\ spent' <= Used(retry') - 1
          BY <2>u, <2>r, <1>v DEF WTypeOK, OpeningTime
        <4> QED BY <4>1, <4>2 DEF OpeningTime, Used
      <3> QED BY <3>1, <3>2
    <2>3. StopTime' /\ Fresh' BY DEF WTypeOK, StopTime, Fresh
    <2>4. Alternates'
      <3> SUFFICES ASSUME useTCP' \in {0, 1} PROVE Alternates'
        BY DEF Alternates
      <3>1. useTCP \in {0, 1} /\ useTCP' = 1 - useTCP
        BY FlipTwice DEF Flip, WTypeOK
      <3>2. Transport(useTCP) \in tried
        BY <3>1 DEF Alternates
      <3>3. retry' + 1 < RetryTimes => Transport(1 - useTCP) \in tried
        BY <3>1, <2>r DEF Alternates
      <3>4. useTCP = 1 - useTCP' BY <3>1
      <3>5. Transport(useTCP) \in tried' /\ (retry' + 1 < RetryTimes => tried' = {"tcp", "udp"})
        <4>1. retry' + 1 < RetryTimes => "tcp" \in tried /\ "udp" \in tried
          BY <3>1, <3>2, <3>3 DEF Transport
        <4>2. tried \subseteq {"tcp", "udp"} BY DEF WTypeOK
        <4>3. "tcp" \in tried /\ "udp" \in tried => tried = {"tcp", "udp"}
          BY <4>2
        <4> QED BY <4>1, <4>3, <3>2
      <3> QED BY <3>4, <3>5 DEF Alternates, Transport
    <2> QED BY <2>1, <2>2, <2>3, <2>4
  <1>3. CASE NoContext \/ TestStop \/ InfoFails
    <2> USE <1>3 DEF NoContext, TestStop, InfoFails, Go, told, call
    <2>1. WTypeOK' BY DEF WTypeOK
    <2>2. OpeningTime' BY <1>v, <1>o DEF WTypeOK, OpeningTime
    <2>3. StopTime' /\ Fresh' BY DEF WTypeOK, StopTime, Fresh
    <2>4. Alternates' BY DEF WTypeOK, Alternates, Transport
    <2> QED BY <2>1, <2>2, <2>3, <2>4
  <1>4. CASE OpenSucceeds \/ InfoSucceeds
    <2> USE <1>4 DEF OpenSucceeds, InfoSucceeds, Came, Go, told, call
    <2>1. WTypeOK'
      <3>0. why' = why \cup {"shared"} /\ dry' = 0
        OBVIOUS
      <3>1. why' \subseteq {"held", "set", "shared"} /\ dry' \in 0 .. Limit + 1
        BY <3>0 DEF WTypeOK
      <3>2. pc' \in {"info", "loop"} /\ age' = age /\ full' = full
        OBVIOUS
      <3> QED BY <3>1, <3>2 DEF WTypeOK
    <2>2. OpeningTime' BY <1>v, <1>o DEF WTypeOK, OpeningTime
    <2>3. StopTime' /\ Fresh' BY DEF WTypeOK, StopTime, Fresh
    <2>4. Alternates' BY DEF WTypeOK, Alternates, Transport
    <2> QED BY <2>1, <2>2, <2>3, <2>4
  <1>5. CASE LoopRead \/ LoopEnd \/ Interrupt \/ ReadFails
    <2> USE <1>5 DEF LoopRead, LoopEnd, Interrupt, ReadFails, Go, told, call
    <2>1. WTypeOK' BY DEF WTypeOK
    <2>2. OpeningTime' BY DEF WTypeOK, OpeningTime
    <2>3. StopTime'
      <3>1. pc' = "reading" => ~stop
        OBVIOUS
      <3> QED BY <3>1 DEF WTypeOK, OpeningTime, StopTime
    <2>5. Fresh' BY DEF WTypeOK, Fresh
    <2>4. Alternates' BY DEF WTypeOK, Alternates, Transport
    <2> QED BY <2>1, <2>2, <2>3, <2>4, <2>5
  <1>6. CASE ReadPacket
    <2> USE <1>6 DEF ReadPacket, Touch, Go, told, call
    <2>1. WTypeOK' BY DEF WTypeOK
    <2>2. OpeningTime' BY DEF WTypeOK, OpeningTime
    <2>3. StopTime' /\ Fresh' BY DEF WTypeOK, StopTime, Fresh
    <2>4. Alternates' BY DEF WTypeOK, Alternates, Transport
    <2> QED BY <2>1, <2>2, <2>3, <2>4
  <1>7. CASE Drain \/ StopPlay
    <2> USE <1>7 DEF Drain, StopPlay, told, call
    <2>1. WTypeOK' BY DEF WTypeOK
    <2>2. OpeningTime' BY DEF WTypeOK, OpeningTime, Used
    <2>3. StopTime' /\ Fresh' BY DEF WTypeOK, StopTime, OpeningTime, Fresh
    <2>4. Alternates' BY DEF WTypeOK, Alternates, Transport
    <2> QED BY <2>1, <2>2, <2>3, <2>4
  <1>8. CASE Wake
    <2> USE <1>8 DEF Wake, Go, told, call
    <2>1. WTypeOK' BY DEF WTypeOK
    <2>2. OpeningTime' BY <1>v, <1>o DEF WTypeOK, OpeningTime
    <2>3. StopTime' /\ Fresh' BY DEF WTypeOK, StopTime, Fresh
    <2>4. Alternates' BY DEF WTypeOK, Alternates, Transport
    <2> QED BY <2>1, <2>2, <2>3, <2>4
  <1>9. CASE SetClock
    <2> USE <1>9 DEF SetClock, told, call
    <2> PICK a \in -Back .. Limit + 1 :
              /\ age' = a
              /\ back' = (back \/ a < age)
              /\ why' = IF a > age THEN why \cup {"set"} ELSE why
      OBVIOUS
    <2>1. WTypeOK' BY DEF WTypeOK
    <2>2. ~back' => ~back /\ a >= age
      <3>1. ~back' => ~back /\ ~(a < age) BY Zenon
      <3>2. a \in Int /\ age \in Int BY DEF WTypeOK
      <3> QED BY <3>1, <3>2
    <2>3. OpeningTime'
      <3>1. CASE back' BY <3>1 DEF OpeningTime
      <3>2. CASE ~back' BY <3>2, <2>2, <1>v, <1>o DEF WTypeOK, OpeningTime
      <3> QED BY <3>1, <3>2
    <2>4. StopTime'
      <3>1. CASE back' BY <3>1 DEF StopTime
      <3>2. CASE ~back' BY <3>2, <2>2 DEF WTypeOK, StopTime
      <3> QED BY <3>1, <3>2
    <2>5. Fresh'
      <3>1. CASE a > age BY <3>1 DEF Fresh
      <3>2. CASE ~(a > age) BY <3>2 DEF WTypeOK, Fresh
      <3> QED BY <3>1, <3>2
    <2>6. Alternates' BY DEF WTypeOK, Alternates, Transport
    <2> QED BY <2>1, <2>3, <2>4, <2>5, <2>6
  <1>10. CASE Tick
    <2> USE <1>10 DEF Tick, Held, Overdue, UpTo, call
    <2>1. WTypeOK'
      <3>1. spent' \in 0 .. OpenBound + 1 /\ since' \in 0 .. StopBound + 1
        BY <1>o DEF WTypeOK
      <3>2. age' \in -Back .. Limit + 1 /\ dry' \in 0 .. Limit + 1
        BY DEF WTypeOK
      <3> QED BY <3>1, <3>2 DEF WTypeOK
    <2>2. OpeningTime'
      <3>1. retry' = retry /\ Used(retry') = Used(retry) /\ back' = back
        BY DEF Used
      <3>2. CASE pc \in Opening
        BY <3>1, <3>2, <1>v, <1>o DEF WTypeOK, OpeningTime
      <3>3. CASE pc \notin Opening
        BY <3>1, <3>3, <1>o DEF WTypeOK, OpeningTime
      <3> QED BY <3>2, <3>3
    <2>3. StopTime' BY DEF WTypeOK, StopTime
    <2>4. Fresh' BY DEF WTypeOK, Fresh
    <2>5. Alternates' BY DEF WTypeOK, Alternates, Transport
    <2> QED BY <2>1, <2>2, <2>3, <2>4, <2>5
  <1>11. CASE Over \/ UNCHANGED vars
    <2>1. UNCHANGED vars BY <1>11 DEF Over
    <2>2. UNCHANGED <<pc, retry, useTCP, io, tried, stop, full, age, spent, since, back, dry, why>>
      BY <2>1 DEF vars, call, told
    <2>3. WTypeOK' /\ OpeningTime' BY <2>2 DEF WTypeOK, OpeningTime
    <2>4. StopTime' /\ Fresh' /\ Alternates'
      BY <2>2 DEF StopTime, Fresh, Alternates, Transport
    <2> QED BY <2>3, <2>4
  <1> QED BY <1>1, <1>2, <1>3, <1>4, <1>5, <1>6, <1>7, <1>8, <1>9, <1>10, <1>11
      DEF Next, Open, Loop

----------------------------------------------------------------------------
(* The state of the reader and its clock keep their types: in particular    *)
(* the attempts are counted down and never below 0 (584).                   *)
THEOREM WatchdogTypeCorrect == Spec => []WTypeOK
  <1>1. Inv => WTypeOK BY DEF Inv
  <1> QED BY <1>1, InitInv, NextInv, PTL DEF Spec

(* The opening takes RetryTimes * (Limit + 2) - 1 seconds at most, for      *)
(* every limit and number of attempts: 35 seconds in the code (569-590).    *)
THEOREM OpeningEnds == Spec => []OpeningBounded
  <1>1. Inv => OpeningBounded
    <2> SUFFICES ASSUME Inv, ~back PROVE spent <= OpenBound
      BY DEF OpeningBounded
    <2>1. CASE pc \in Opening
      <3>1. retry \in 1 .. RetryTimes
        BY <2>1, WatchdogAssumption DEF Inv, OpeningTime, WTypeOK
      <3>2. Used(retry) \in Nat /\ Used(retry) + Limit + 1 <= OpenBound
        BY <3>1, UsedFits
      <3> QED BY <2>1, <3>2, WatchdogAssumption, UsedEnds DEF Inv, OpeningTime, WTypeOK
    <2>2. CASE pc \notin Opening
      BY <2>2 DEF Inv, OpeningTime
    <2> QED BY <2>1, <2>2
  <1> QED BY <1>1, InitInv, NextInv, PTL DEF Spec

(* A stop is seen after Limit + 2 seconds at most, 12 in the code (231).    *)
THEOREM StopEnds == Spec => []StopBounded
  <1>1. Inv => StopBounded
    BY DEF Inv, StopTime, StopBounded
  <1> QED BY <1>1, InitInv, NextInv, PTL DEF Spec

(* Both transports are tried before the client is told that it failed (583).*)
THEOREM TransportsTried == Spec => []BothTransports
  <1>1. Inv => BothTransports
    BY WatchdogAssumption DEF Inv, Alternates, BothTransports, WTypeOK
  <1> QED BY <1>1, InitInv, NextInv, PTL DEF Spec

(* A read is broken off after real silence, or for one of the three reasons.*)
THEOREM AlarmsExplained == Spec => AlarmsOnlyKnown
  <1>1. Inv /\ [Next]_vars => [Interrupt => dry > Limit \/ why # {}]_vars
    BY WatchdogAssumption DEF Inv, Fresh, WTypeOK, Interrupt, Overdue
  <1> QED BY <1>1, InitInv, NextInv, PTL DEF Spec, AlarmsOnlyKnown
=============================================================================
