---------------------------- MODULE PlayerProofs ----------------------------
(* Theorems about Player, for every value of the limits, of the number of   *)
(* attempts and of what the uninitialised indices hold, with or without     *)
(* memory failures.                                                         *)
EXTENDS Player, PacketQueueProofs

----------------------------------------------------------------------------
(* The inductive invariant, one part per line of argument.                  *)

(* The reader holds a packet when it is about to put one and has an attempt *)
(* left when it opens the url; a decode thread is inside get() exactly      *)
(* where it called it.                                                      *)
Local ==
    /\ read_pc \in {"unborn", "open"} => retries > 0
    /\ read_pc = "put" => in_pkt \in Stream
    /\ \A k \in Queue : dec_pc[k] = "get" <=> get_pc[k] # "idle"
    /\ bare # {} => MayRunOut

(* What the control thread has not started is unborn, nothing else is, and  *)
(* what it has joined is over.                                              *)
Joined ==
    /\ ctl_pc = "new" <=> read_pc = "unborn"
    /\ ctl_pc \in {"new", "start_audio"} <=> dec_pc["audio"] = "unborn"
    /\ ctl_pc \in {"new", "start_audio", "start_video"} <=> dec_pc["video"] = "unborn"
    /\ ctl_pc \in {"join_video", "join_read", "free", "stopped", "freed_video", "gone"}
           => Ended("audio")
    /\ ctl_pc \in {"join_read", "free", "stopped", "freed_video", "gone"}
           => Ended("video")
    /\ ctl_pc \in {"free", "stopped", "freed_video", "gone"} => read_pc = "done"
    /\ \A k \in Queue : dec_ctx[k] = "freed" => ctl_pc \in {"stopped", "freed_video", "gone"}

(* The counters stay below the limits where the reader relies on it.        *)
Counted ==
    /\ read_pc \in {"read", "put"} => \A k \in Queue : nb_packets[k] < MaxPacket(k)
    /\ nb_packets["video"] <=
           MAX_PACKET_VIDEO + (IF read_pc \in {"flush_audio", "report", "push", "done", "crash"}
                               THEN 1 ELSE 0)
    /\ nb_packets["audio"] <=
           MAX_PACKET_AUDIO + (IF read_pc \in {"report", "push", "done", "crash"} THEN 1 ELSE 0)

(* Nothing is put before both codecs were tried, and an opened decoder's    *)
(* index is that of its stream.                                             *)
Routed ==
    /\ read_pc \in {"unborn", "open", "probe", "codec_video", "codec_audio"}
           => \A k \in Queue : pkt_list[k] = <<>>
    /\ \A k \in Queue : dec_ctx[k] = "open" => stream_index[k] = k
    /\ OwnPacketsOnly

Inv ==
    /\ TypeOK
    /\ QInv
    /\ Local
    /\ Joined
    /\ Counted
    /\ Routed
    /\ EndReported
----------------------------------------------------------------------------
(* The threads use the queues as PacketQueue says: every step of Player is  *)
(* one of the queue, or leaves the queues alone.                            *)
LEMMA QueueStep ==
    ASSUME Local, [Next]_vars
    PROVE  [QNext]_qvars
<1> USE PlayerAssumption
<1>1. CASE UNCHANGED vars
  BY <1>1 DEF vars, pvars, qvars
<1>2. CASE OpenInput
  BY <1>2 DEF OpenInput, ReadGo
<1>3. CASE OpenFails
  BY <1>3 DEF OpenFails, ReadGo
<1>4. CASE NoFormatContext
  BY <1>4 DEF NoFormatContext, ReadGo
<1>5. CASE FindStreamInfo
  BY <1>5 DEF FindStreamInfo, ReadGo
<1>6. CASE OpenVideo
  BY <1>6 DEF OpenVideo, ReadGo, OpenCodec
<1>7. CASE OpenAudio
  BY <1>7 DEF OpenAudio, ReadGo, OpenCodec
<1>8. CASE ReportOpenFailure
  BY <1>8 DEF ReportOpenFailure, ReadGo
<1>9. CASE LoopOn
  BY <1>9 DEF LoopOn, ReadGo
<1>10. CASE LoopEnd
  BY <1>10 DEF LoopEnd, ReadGo
<1>11. CASE ReadPacket
  BY <1>11 DEF ReadPacket, ReadGo
<1>12. CASE ReadRetry
  BY <1>12 DEF ReadRetry, ReadGo
<1>13. CASE ReadError
  BY <1>13 DEF ReadError, ReadGo
<1>14. CASE PutPacket
  <2> PICK k \in Route(in_pkt) : PutOn(k, in_pkt)
    BY <1>14 DEF PutPacket
  <2>1. k \in Queue /\ in_pkt \in Packet
    BY <1>14 DEF PutPacket, ReadGo, Route, Local, Stream
  <2> QED
    BY <2>1 DEF PutOn, QNext
<1>15. CASE FlushVideo
  BY <1>15 DEF FlushVideo, ReadGo, FlushDecoder, PutOn, QNext
<1>16. CASE FlushAudio
  BY <1>16 DEF FlushAudio, ReadGo, FlushDecoder, PutOn, QNext
<1>17. CASE TestReport
  BY <1>17 DEF TestReport, ReadGo
<1>18. CASE ReportReadError
  BY <1>18 DEF ReportReadError, ReadGo
<1>19. ASSUME NEW k \in Queue, DecStop(k)
      PROVE  [QNext]_qvars
  BY <1>19 DEF DecStop, DecGo
<1>20. ASSUME NEW k \in Queue, DecGet(k)
      PROVE  [QNext]_qvars
  BY <1>20 DEF DecGet, DecGo, QNext
<1>21. ASSUME NEW k \in Queue, DecWait(k)
      PROVE  [QNext]_qvars
  BY <1>21 DEF DecWait, DecGo, GetStep, QNext
<1>22. ASSUME NEW k \in Queue, DecSpuriousWake(k)
      PROVE  [QNext]_qvars
  BY <1>22 DEF DecSpuriousWake, DecGo, QNext
<1>23. ASSUME NEW k \in Queue, DecGot(k)
      PROVE  [QNext]_qvars
  BY <1>23 DEF DecGot, DecGo, GetStep, QNext
<1>24. ASSUME NEW k \in Queue, DecRefused(k)
      PROVE  [QNext]_qvars
  BY <1>24 DEF DecRefused, DecGo, GetStep, QNext
<1>25. ASSUME NEW k \in Queue, Decode(k)
      PROVE  [QNext]_qvars
  BY <1>25 DEF Decode, Decoded, DecGo, QNext
<1>26. ASSUME NEW k \in Queue, DecTest(k)
      PROVE  [QNext]_qvars
  BY <1>26 DEF DecTest, DecGo
<1>27. ASSUME NEW k \in Queue, DecReport(k)
      PROVE  [QNext]_qvars
  BY <1>27 DEF DecReport, DecGo
<1>28. CASE StopPlay
  BY <1>28 DEF StopPlay, CtlGo
<1>29. CASE StartReader
  BY <1>29 DEF StartReader, CtlGo
<1>30. CASE StartDecoder("audio", "start_audio", "start_video")
  BY <1>30 DEF StartDecoder, CtlGo
<1>31. CASE StartDecoder("video", "start_video", "playing")
  BY <1>31 DEF StartDecoder, CtlGo
<1>32. CASE StopQueue("video", "stop_video", "notify_video")
  BY <1>32 DEF StopQueue, CtlGo, QNext
<1>33. CASE NotifyQueue("video", "notify_video", "stop_audio")
  BY <1>33 DEF NotifyQueue, CtlGo, QNext
<1>34. CASE StopQueue("audio", "stop_audio", "notify_audio")
  BY <1>34 DEF StopQueue, CtlGo, QNext
<1>35. CASE NotifyQueue("audio", "notify_audio", "join_audio")
  BY <1>35 DEF NotifyQueue, CtlGo, QNext
<1>36. CASE JoinDecoder("audio", "join_audio", "join_video")
  BY <1>36 DEF JoinDecoder, Ended, CtlGo
<1>37. CASE JoinDecoder("video", "join_video", "join_read")
  BY <1>37 DEF JoinDecoder, Ended, CtlGo
<1>38. CASE JoinReader
  BY <1>38 DEF JoinReader, CtlGo
<1>39. CASE FreeAll
  BY <1>39 DEF FreeAll, CtlGo
<1>40. CASE DestroyQueue("video", "stopped", "freed_video")
  BY <1>40 DEF DestroyQueue, CtlGo, QNext
<1>41. CASE DestroyQueue("audio", "freed_video", "gone")
  BY <1>41 DEF DestroyQueue, CtlGo, QNext
<1>42. CASE ReaderThrows
  BY <1>42 DEF ReaderThrows, ReadGo
<1>43. ASSUME NEW k \in Queue, DecThrows(k)
      PROVE  [QNext]_qvars
  BY <1>43 DEF DecThrows, DecGo
<1> QED
  BY <1>1, <1>2, <1>3, <1>4, <1>5, <1>6, <1>7, <1>8, <1>9, <1>10, <1>11,
     <1>12, <1>13, <1>14, <1>15, <1>16, <1>17, <1>18, <1>19, <1>20, <1>21,
     <1>22, <1>23, <1>24, <1>25, <1>26, <1>27, <1>28, <1>29, <1>30, <1>31,
     <1>32, <1>33, <1>34, <1>35, <1>36, <1>37, <1>38, <1>39, <1>40, <1>41,
     <1>42, <1>43
     DEF Next, Reader, Decoder, Control, Terminated

(* The fields of the player keep their types.                                *)
LEMMA TypeStep ==
    ASSUME PTypeOK, Local, [Next]_vars
    PROVE  PTypeOK'
<1> USE PlayerAssumption DEF PTypeOK, ReadPC, DecPC, CtlPC, Stream
<1>1. CASE UNCHANGED vars
  BY <1>1 DEF vars, pvars, qvars
<1>2. CASE OpenInput
  BY <1>2 DEF OpenInput, ReadGo
<1>3. CASE OpenFails
  BY <1>3 DEF OpenFails, ReadGo, Local
<1>4. CASE NoFormatContext
  BY <1>4 DEF NoFormatContext, ReadGo
<1>5. CASE FindStreamInfo
  BY <1>5 DEF FindStreamInfo, ReadGo
<1>6. CASE OpenVideo
  BY <1>6 DEF OpenVideo, ReadGo, OpenCodec, Outcome
<1>7. CASE OpenAudio
  <2>1. UNCHANGED <<stop_request, retries, in_pkt, ended, dec_pc, bare, ctl_pc, pushed>>
    BY <1>7 DEF OpenAudio, ReadGo, OpenCodec
  <2>2. PICK ctx \in Outcome : OpenCodec("audio", ctx)
    BY <1>7 DEF OpenAudio
  <2>3. read_pc' \in ReadPC
    BY <1>7 DEF OpenAudio, ReadGo
  <2>4. /\ dec_ctx' \in [Queue -> {"null", "alloc", "open", "freed"}]
        /\ stream_index' \in [Queue -> Stream \cup {NoPacket}]
    BY <2>2 DEF OpenCodec, Outcome
  <2> QED
    BY <2>1, <2>3, <2>4
<1>8. CASE ReportOpenFailure
  BY <1>8 DEF ReportOpenFailure, ReadGo
<1>9. CASE LoopOn
  BY <1>9 DEF LoopOn, ReadGo
<1>10. CASE LoopEnd
  BY <1>10 DEF LoopEnd, ReadGo
<1>11. CASE ReadPacket
  BY <1>11 DEF ReadPacket, ReadGo
<1>12. CASE ReadRetry
  BY <1>12 DEF ReadRetry, ReadGo
<1>13. CASE ReadError
  BY <1>13 DEF ReadError, ReadGo
<1>14. CASE PutPacket
  BY <1>14 DEF PutPacket, ReadGo
<1>15. CASE FlushVideo
  BY <1>15 DEF FlushVideo, ReadGo, FlushDecoder
<1>16. CASE FlushAudio
  BY <1>16 DEF FlushAudio, ReadGo, FlushDecoder
<1>17. CASE TestReport
  BY <1>17 DEF TestReport, ReadGo
<1>18. CASE ReportReadError
  BY <1>18 DEF ReportReadError, ReadGo
<1>19. ASSUME NEW k \in Queue, DecStop(k)
      PROVE  PTypeOK'
  BY <1>19 DEF DecStop, DecGo
<1>20. ASSUME NEW k \in Queue, DecGet(k)
      PROVE  PTypeOK'
  BY <1>20 DEF DecGet, DecGo
<1>21. ASSUME NEW k \in Queue, DecWait(k)
      PROVE  PTypeOK'
  BY <1>21 DEF DecWait, DecGo
<1>22. ASSUME NEW k \in Queue, DecSpuriousWake(k)
      PROVE  PTypeOK'
  BY <1>22 DEF DecSpuriousWake, DecGo
<1>23. ASSUME NEW k \in Queue, DecGot(k)
      PROVE  PTypeOK'
  BY <1>23 DEF DecGot, DecGo
<1>24. ASSUME NEW k \in Queue, DecRefused(k)
      PROVE  PTypeOK'
  BY <1>24 DEF DecRefused, DecGo
<1>25. ASSUME NEW k \in Queue, Decode(k)
      PROVE  PTypeOK'
  BY <1>25 DEF Decode, Decoded, DecGo
<1>26. ASSUME NEW k \in Queue, DecTest(k)
      PROVE  PTypeOK'
  BY <1>26 DEF DecTest, DecGo
<1>27. ASSUME NEW k \in Queue, DecReport(k)
      PROVE  PTypeOK'
  BY <1>27 DEF DecReport, DecGo
<1>28. CASE StopPlay
  BY <1>28 DEF StopPlay, CtlGo
<1>29. CASE StartReader
  BY <1>29 DEF StartReader, CtlGo
<1>30. CASE StartDecoder("audio", "start_audio", "start_video")
  BY <1>30 DEF StartDecoder, CtlGo
<1>31. CASE StartDecoder("video", "start_video", "playing")
  <2>1. UNCHANGED <<stop_request, read_pc, retries, in_pkt, ended, stream_index, dec_ctx, pushed>>
    BY <1>31 DEF StartDecoder, CtlGo
  <2>2. dec_pc' \in [Queue -> DecPC]
    BY <1>31 DEF StartDecoder
  <2>4. bare' \in SUBSET Queue
    <3>1. bare' = bare \/ bare' = bare \cup {"video"}
      BY <1>31 DEF StartDecoder
    <3> QED
      BY <3>1
  <2>3. ctl_pc' \in CtlPC
    BY <1>31 DEF StartDecoder, CtlGo
  <2> QED
    BY <2>1, <2>2, <2>4, <2>3
<1>32. CASE StopQueue("video", "stop_video", "notify_video")
  BY <1>32 DEF StopQueue, CtlGo
<1>33. CASE NotifyQueue("video", "notify_video", "stop_audio")
  BY <1>33 DEF NotifyQueue, CtlGo
<1>34. CASE StopQueue("audio", "stop_audio", "notify_audio")
  BY <1>34 DEF StopQueue, CtlGo
<1>35. CASE NotifyQueue("audio", "notify_audio", "join_audio")
  BY <1>35 DEF NotifyQueue, CtlGo
<1>36. CASE JoinDecoder("audio", "join_audio", "join_video")
  BY <1>36 DEF JoinDecoder, Ended, CtlGo
<1>37. CASE JoinDecoder("video", "join_video", "join_read")
  BY <1>37 DEF JoinDecoder, Ended, CtlGo
<1>38. CASE JoinReader
  BY <1>38 DEF JoinReader, CtlGo
<1>39. CASE FreeAll
  BY <1>39 DEF FreeAll, CtlGo
<1>40. CASE DestroyQueue("video", "stopped", "freed_video")
  BY <1>40 DEF DestroyQueue, CtlGo
<1>41. CASE DestroyQueue("audio", "freed_video", "gone")
  BY <1>41 DEF DestroyQueue, CtlGo
<1>42. CASE ReaderThrows
  BY <1>42 DEF ReaderThrows, ReadGo
<1>43. ASSUME NEW k \in Queue, DecThrows(k)
      PROVE  PTypeOK'
  BY <1>43 DEF DecThrows, DecGo
<1> QED
  BY <1>1, <1>2, <1>3, <1>4, <1>5, <1>6, <1>7, <1>8, <1>9, <1>10, <1>11,
     <1>12, <1>13, <1>14, <1>15, <1>16, <1>17, <1>18, <1>19, <1>20, <1>21,
     <1>22, <1>23, <1>24, <1>25, <1>26, <1>27, <1>28, <1>29, <1>30, <1>31,
     <1>32, <1>33, <1>34, <1>35, <1>36, <1>37, <1>38, <1>39, <1>40, <1>41,
     <1>42, <1>43
     DEF Next, Reader, Decoder, Control, Terminated

(* What a put does to the queues, seen from the reader: at most one packet  *)
(* more, at most one more counted, and nobody enters or leaves get().        *)
LEMMA PutEffect ==
    ASSUME QTypeOK, NEW k \in Queue, NEW p, PutOn(k, p)
    PROVE  /\ nb_packets' = nb_packets \/ nb_packets' = [nb_packets EXCEPT ![k] = @ + 1]
           /\ pkt_list' = pkt_list \/ pkt_list' = [pkt_list EXCEPT ![k] = Append(@, p)]
           /\ \A j \in Queue : get_pc[j] = "idle" <=> get_pc'[j] = "idle"
BY DEF PutOn, Put, PutGrowFails, Enqueue, Notify, QTypeOK, qvars

(* The local facts of each thread are kept.                                 *)
LEMMA LocalStep ==
    ASSUME QTypeOK, PTypeOK, Local, Joined, [Next]_vars
    PROVE  Local'
<1> USE PlayerAssumption DEF QTypeOK, PTypeOK, Local
<1>1. CASE UNCHANGED vars
  BY <1>1 DEF vars, pvars, qvars
<1>2. CASE OpenInput
  BY <1>2 DEF OpenInput, ReadGo, qvars
<1>3. CASE OpenFails
  BY <1>3 DEF OpenFails, ReadGo, qvars
<1>4. CASE NoFormatContext
  BY <1>4 DEF NoFormatContext, ReadGo, qvars
<1>5. CASE FindStreamInfo
  BY <1>5 DEF FindStreamInfo, ReadGo, qvars
<1>6. CASE OpenVideo
  BY <1>6 DEF OpenVideo, ReadGo, OpenCodec, qvars
<1>7. CASE OpenAudio
  BY <1>7 DEF OpenAudio, ReadGo, OpenCodec, qvars
<1>8. CASE ReportOpenFailure
  BY <1>8 DEF ReportOpenFailure, ReadGo, qvars
<1>9. CASE LoopOn
  BY <1>9 DEF LoopOn, ReadGo, qvars
<1>10. CASE LoopEnd
  BY <1>10 DEF LoopEnd, ReadGo, qvars
<1>11. CASE ReadPacket
  BY <1>11 DEF ReadPacket, ReadGo, Stream, qvars
<1>12. CASE ReadRetry
  BY <1>12 DEF ReadRetry, ReadGo, qvars
<1>13. CASE ReadError
  BY <1>13 DEF ReadError, ReadGo, qvars
<1>14. CASE PutPacket
  <2> PICK k \in Route(in_pkt) : PutOn(k, in_pkt)
    BY <1>14 DEF PutPacket
  <2>1. k \in Queue
    BY PlayerAssumption DEF Route
  <2> QED
    BY <1>14, <2>1, PutEffect DEF PutPacket, ReadGo
<1>15. CASE FlushVideo
  BY <1>15, PutEffect DEF FlushVideo, ReadGo, FlushDecoder, qvars
<1>16. CASE FlushAudio
  BY <1>16, PutEffect DEF FlushAudio, ReadGo, FlushDecoder, qvars
<1>17. CASE TestReport
  BY <1>17 DEF TestReport, ReadGo, qvars
<1>18. CASE ReportReadError
  BY <1>18 DEF ReportReadError, ReadGo, qvars
<1>19. ASSUME NEW k \in Queue, DecStop(k)
      PROVE  Local'
  BY <1>19 DEF DecStop, DecGo, qvars
<1>20. ASSUME NEW k \in Queue, DecGet(k)
      PROVE  Local'
  BY <1>20 DEF DecGet, DecGo, GetCall, GoTo
<1>21. ASSUME NEW k \in Queue, DecWait(k)
      PROVE  Local'
  BY <1>21 DEF DecWait, DecGo, GetCheck, GetBlock, GoTo
<1>22. ASSUME NEW k \in Queue, DecSpuriousWake(k)
      PROVE  Local'
  BY <1>22 DEF DecSpuriousWake, DecGo, SpuriousWake, GoTo
<1>23. ASSUME NEW k \in Queue, DecGot(k)
      PROVE  Local'
  BY <1>23 DEF DecGot, DecGo, GetTake, GoTo
<1>24. ASSUME NEW k \in Queue, DecRefused(k)
      PROVE  Local'
  BY <1>24 DEF DecRefused, DecGo, GetStopped, GoTo
<1>25. ASSUME NEW k \in Queue, Decode(k)
      PROVE  Local'
  BY <1>25 DEF Decode, Decoded, DecGo, Unref
<1>26. ASSUME NEW k \in Queue, DecTest(k)
      PROVE  Local'
  BY <1>26 DEF DecTest, DecGo, qvars
<1>27. ASSUME NEW k \in Queue, DecReport(k)
      PROVE  Local'
  BY <1>27 DEF DecReport, DecGo, qvars
<1>28. CASE StopPlay
  BY <1>28 DEF StopPlay, CtlGo, qvars
<1>29. CASE StartReader
  BY <1>29 DEF StartReader, CtlGo, Joined, qvars
<1>30. CASE StartDecoder("audio", "start_audio", "start_video")
  BY <1>30 DEF StartDecoder, CtlGo, Joined, qvars
<1>31. CASE StartDecoder("video", "start_video", "playing")
  BY <1>31 DEF StartDecoder, CtlGo, Joined, qvars
<1>32. CASE StopQueue("video", "stop_video", "notify_video")
  BY <1>32 DEF StopQueue, CtlGo, SetStop
<1>33. CASE NotifyQueue("video", "notify_video", "stop_audio")
  BY <1>33 DEF NotifyQueue, CtlGo, NotifyStop, Notify
<1>34. CASE StopQueue("audio", "stop_audio", "notify_audio")
  BY <1>34 DEF StopQueue, CtlGo, SetStop
<1>35. CASE NotifyQueue("audio", "notify_audio", "join_audio")
  BY <1>35 DEF NotifyQueue, CtlGo, NotifyStop, Notify
<1>36. CASE JoinDecoder("audio", "join_audio", "join_video")
  BY <1>36 DEF JoinDecoder, Ended, CtlGo, qvars
<1>37. CASE JoinDecoder("video", "join_video", "join_read")
  BY <1>37 DEF JoinDecoder, Ended, CtlGo, qvars
<1>38. CASE JoinReader
  BY <1>38 DEF JoinReader, CtlGo, qvars
<1>39. CASE FreeAll
  BY <1>39 DEF FreeAll, CtlGo, qvars
<1>40. CASE DestroyQueue("video", "stopped", "freed_video")
  BY <1>40 DEF DestroyQueue, CtlGo, Flush
<1>41. CASE DestroyQueue("audio", "freed_video", "gone")
  BY <1>41 DEF DestroyQueue, CtlGo, Flush
<1>42. CASE ReaderThrows
  BY <1>42 DEF ReaderThrows, ReadGo, qvars
<1>43. ASSUME NEW k \in Queue, DecThrows(k)
      PROVE  Local'
  BY <1>43 DEF DecThrows, DecGo, qvars
<1> QED
  BY <1>1, <1>2, <1>3, <1>4, <1>5, <1>6, <1>7, <1>8, <1>9, <1>10, <1>11,
     <1>12, <1>13, <1>14, <1>15, <1>16, <1>17, <1>18, <1>19, <1>20, <1>21,
     <1>22, <1>23, <1>24, <1>25, <1>26, <1>27, <1>28, <1>29, <1>30, <1>31,
     <1>32, <1>33, <1>34, <1>35, <1>36, <1>37, <1>38, <1>39, <1>40, <1>41,
     <1>42, <1>43
     DEF Next, Reader, Decoder, Control, Terminated

(* A thread that was joined never runs again.                               *)
LEMMA JoinedStep ==
    ASSUME PTypeOK, Joined, [Next]_vars
    PROVE  Joined'
<1> USE PlayerAssumption DEF PTypeOK, Joined, Ended
<1>1. CASE UNCHANGED vars
  BY <1>1 DEF vars, pvars, qvars
<1>2. CASE OpenInput
  BY <1>2 DEF OpenInput, ReadGo
<1>3. CASE OpenFails
  BY <1>3 DEF OpenFails, ReadGo
<1>4. CASE NoFormatContext
  BY <1>4 DEF NoFormatContext, ReadGo
<1>5. CASE FindStreamInfo
  BY <1>5 DEF FindStreamInfo, ReadGo
<1>6. CASE OpenVideo
  BY <1>6 DEF OpenVideo, ReadGo, OpenCodec, Outcome
<1>7. CASE OpenAudio
  BY <1>7 DEF OpenAudio, ReadGo, OpenCodec, Outcome
<1>8. CASE ReportOpenFailure
  BY <1>8 DEF ReportOpenFailure, ReadGo
<1>9. CASE LoopOn
  BY <1>9 DEF LoopOn, ReadGo
<1>10. CASE LoopEnd
  BY <1>10 DEF LoopEnd, ReadGo
<1>11. CASE ReadPacket
  BY <1>11 DEF ReadPacket, ReadGo
<1>12. CASE ReadRetry
  BY <1>12 DEF ReadRetry, ReadGo
<1>13. CASE ReadError
  BY <1>13 DEF ReadError, ReadGo
<1>14. CASE PutPacket
  BY <1>14 DEF PutPacket, ReadGo
<1>15. CASE FlushVideo
  BY <1>15 DEF FlushVideo, ReadGo, FlushDecoder
<1>16. CASE FlushAudio
  BY <1>16 DEF FlushAudio, ReadGo, FlushDecoder
<1>17. CASE TestReport
  BY <1>17 DEF TestReport, ReadGo
<1>18. CASE ReportReadError
  BY <1>18 DEF ReportReadError, ReadGo
<1>19. ASSUME NEW k \in Queue, DecStop(k)
      PROVE  Joined'
  BY <1>19 DEF DecStop, DecGo
<1>20. ASSUME NEW k \in Queue, DecGet(k)
      PROVE  Joined'
  BY <1>20 DEF DecGet, DecGo
<1>21. ASSUME NEW k \in Queue, DecWait(k)
      PROVE  Joined'
  BY <1>21 DEF DecWait, DecGo
<1>22. ASSUME NEW k \in Queue, DecSpuriousWake(k)
      PROVE  Joined'
  BY <1>22 DEF DecSpuriousWake, DecGo
<1>23. ASSUME NEW k \in Queue, DecGot(k)
      PROVE  Joined'
  BY <1>23 DEF DecGot, DecGo
<1>24. ASSUME NEW k \in Queue, DecRefused(k)
      PROVE  Joined'
  BY <1>24 DEF DecRefused, DecGo
<1>25. ASSUME NEW k \in Queue, Decode(k)
      PROVE  Joined'
  BY <1>25 DEF Decode, Decoded, DecGo
<1>26. ASSUME NEW k \in Queue, DecTest(k)
      PROVE  Joined'
  BY <1>26 DEF DecTest, DecGo
<1>27. ASSUME NEW k \in Queue, DecReport(k)
      PROVE  Joined'
  BY <1>27 DEF DecReport, DecGo
<1>28. CASE StopPlay
  BY <1>28 DEF StopPlay, CtlGo
<1>29. CASE StartReader
  BY <1>29 DEF StartReader, CtlGo
<1>30. CASE StartDecoder("audio", "start_audio", "start_video")
  BY <1>30 DEF StartDecoder, CtlGo
<1>31. CASE StartDecoder("video", "start_video", "playing")
  BY <1>31 DEF StartDecoder, CtlGo
<1>32. CASE StopQueue("video", "stop_video", "notify_video")
  BY <1>32 DEF StopQueue, CtlGo
<1>33. CASE NotifyQueue("video", "notify_video", "stop_audio")
  BY <1>33 DEF NotifyQueue, CtlGo
<1>34. CASE StopQueue("audio", "stop_audio", "notify_audio")
  BY <1>34 DEF StopQueue, CtlGo
<1>35. CASE NotifyQueue("audio", "notify_audio", "join_audio")
  BY <1>35 DEF NotifyQueue, CtlGo
<1>36. CASE JoinDecoder("audio", "join_audio", "join_video")
  BY <1>36 DEF JoinDecoder, Ended, CtlGo
<1>37. CASE JoinDecoder("video", "join_video", "join_read")
  BY <1>37 DEF JoinDecoder, Ended, CtlGo
<1>38. CASE JoinReader
  BY <1>38 DEF JoinReader, CtlGo
<1>39. CASE FreeAll
  BY <1>39 DEF FreeAll, CtlGo
<1>40. CASE DestroyQueue("video", "stopped", "freed_video")
  BY <1>40 DEF DestroyQueue, CtlGo
<1>41. CASE DestroyQueue("audio", "freed_video", "gone")
  BY <1>41 DEF DestroyQueue, CtlGo
<1>42. CASE ReaderThrows
  BY <1>42 DEF ReaderThrows, ReadGo
<1>43. ASSUME NEW k \in Queue, DecThrows(k)
      PROVE  Joined'
  BY <1>43 DEF DecThrows, DecGo
<1> QED
  BY <1>1, <1>2, <1>3, <1>4, <1>5, <1>6, <1>7, <1>8, <1>9, <1>10, <1>11,
     <1>12, <1>13, <1>14, <1>15, <1>16, <1>17, <1>18, <1>19, <1>20, <1>21,
     <1>22, <1>23, <1>24, <1>25, <1>26, <1>27, <1>28, <1>29, <1>30, <1>31,
     <1>32, <1>33, <1>34, <1>35, <1>36, <1>37, <1>38, <1>39, <1>40, <1>41,
     <1>42, <1>43
     DEF Next, Reader, Decoder, Control, Terminated

(* The counters respect the limits: the reader tested both before it read   *)
(* the packet it puts, and nobody else makes them grow.                     *)
LEMMA CountedStep ==
    ASSUME QTypeOK, Joined, Counted, [Next]_vars
    PROVE  Counted'
<1> USE PlayerAssumption DEF QTypeOK, Counted, MaxPacket
<1>1. CASE UNCHANGED vars
  BY <1>1 DEF vars, pvars, qvars
<1>2. CASE OpenInput
  BY <1>2 DEF OpenInput, ReadGo, qvars
<1>3. CASE OpenFails
  BY <1>3 DEF OpenFails, ReadGo, qvars
<1>4. CASE NoFormatContext
  BY <1>4 DEF NoFormatContext, ReadGo, qvars
<1>5. CASE FindStreamInfo
  BY <1>5 DEF FindStreamInfo, ReadGo, qvars
<1>6. CASE OpenVideo
  BY <1>6 DEF OpenVideo, ReadGo, OpenCodec, qvars
<1>7. CASE OpenAudio
  BY <1>7 DEF OpenAudio, ReadGo, OpenCodec, qvars
<1>8. CASE ReportOpenFailure
  BY <1>8 DEF ReportOpenFailure, ReadGo, qvars
<1>9. CASE LoopOn
  BY <1>9 DEF LoopOn, ReadGo, qvars
<1>10. CASE LoopEnd
  BY <1>10 DEF LoopEnd, ReadGo, qvars
<1>11. CASE ReadPacket
  BY <1>11 DEF ReadPacket, ReadGo, qvars
<1>12. CASE ReadRetry
  BY <1>12 DEF ReadRetry, ReadGo, qvars
<1>13. CASE ReadError
  BY <1>13 DEF ReadError, ReadGo, qvars
<1>14. CASE PutPacket
  <2> PICK k \in Route(in_pkt) : PutOn(k, in_pkt)
    BY <1>14 DEF PutPacket
  <2>1. k \in Queue
    BY PlayerAssumption DEF Route
  <2> QED
    BY <1>14, <2>1, PutEffect DEF PutPacket, ReadGo
<1>15. CASE FlushVideo
  BY <1>15, PutEffect DEF FlushVideo, ReadGo, FlushDecoder, qvars
<1>16. CASE FlushAudio
  BY <1>16, PutEffect DEF FlushAudio, ReadGo, FlushDecoder, qvars
<1>17. CASE TestReport
  BY <1>17 DEF TestReport, ReadGo, qvars
<1>18. CASE ReportReadError
  BY <1>18 DEF ReportReadError, ReadGo, qvars
<1>19. ASSUME NEW k \in Queue, DecStop(k)
      PROVE  Counted'
  BY <1>19 DEF DecStop, DecGo, qvars
<1>20. ASSUME NEW k \in Queue, DecGet(k)
      PROVE  Counted'
  BY <1>20 DEF DecGet, DecGo, GetCall
<1>21. ASSUME NEW k \in Queue, DecWait(k)
      PROVE  Counted'
  BY <1>21 DEF DecWait, DecGo, GetCheck, GetBlock
<1>22. ASSUME NEW k \in Queue, DecSpuriousWake(k)
      PROVE  Counted'
  BY <1>22 DEF DecSpuriousWake, DecGo, SpuriousWake
<1>23. ASSUME NEW k \in Queue, DecGot(k)
      PROVE  Counted'
  BY <1>23 DEF DecGot, DecGo, GetTake
<1>24. ASSUME NEW k \in Queue, DecRefused(k)
      PROVE  Counted'
  BY <1>24 DEF DecRefused, DecGo, GetStopped
<1>25. ASSUME NEW k \in Queue, Decode(k)
      PROVE  Counted'
  BY <1>25 DEF Decode, Decoded, DecGo, Unref
<1>26. ASSUME NEW k \in Queue, DecTest(k)
      PROVE  Counted'
  BY <1>26 DEF DecTest, DecGo, qvars
<1>27. ASSUME NEW k \in Queue, DecReport(k)
      PROVE  Counted'
  BY <1>27 DEF DecReport, DecGo, qvars
<1>28. CASE StopPlay
  BY <1>28 DEF StopPlay, CtlGo, qvars
<1>29. CASE StartReader
  BY <1>29 DEF StartReader, CtlGo, Joined, qvars
<1>30. CASE StartDecoder("audio", "start_audio", "start_video")
  BY <1>30 DEF StartDecoder, CtlGo, qvars
<1>31. CASE StartDecoder("video", "start_video", "playing")
  BY <1>31 DEF StartDecoder, CtlGo, qvars
<1>32. CASE StopQueue("video", "stop_video", "notify_video")
  BY <1>32 DEF StopQueue, CtlGo, SetStop
<1>33. CASE NotifyQueue("video", "notify_video", "stop_audio")
  BY <1>33 DEF NotifyQueue, CtlGo, NotifyStop
<1>34. CASE StopQueue("audio", "stop_audio", "notify_audio")
  BY <1>34 DEF StopQueue, CtlGo, SetStop
<1>35. CASE NotifyQueue("audio", "notify_audio", "join_audio")
  BY <1>35 DEF NotifyQueue, CtlGo, NotifyStop
<1>36. CASE JoinDecoder("audio", "join_audio", "join_video")
  BY <1>36 DEF JoinDecoder, Ended, CtlGo, qvars
<1>37. CASE JoinDecoder("video", "join_video", "join_read")
  BY <1>37 DEF JoinDecoder, Ended, CtlGo, qvars
<1>38. CASE JoinReader
  BY <1>38 DEF JoinReader, CtlGo, qvars
<1>39. CASE FreeAll
  BY <1>39 DEF FreeAll, CtlGo, qvars
<1>40. CASE DestroyQueue("video", "stopped", "freed_video")
  BY <1>40 DEF DestroyQueue, CtlGo, Flush
<1>41. CASE DestroyQueue("audio", "freed_video", "gone")
  BY <1>41 DEF DestroyQueue, CtlGo, Flush
<1>42. CASE ReaderThrows
  BY <1>42 DEF ReaderThrows, ReadGo, qvars
<1>43. ASSUME NEW k \in Queue, DecThrows(k)
      PROVE  Counted'
  BY <1>43 DEF DecThrows, DecGo, qvars
<1> QED
  BY <1>1, <1>2, <1>3, <1>4, <1>5, <1>6, <1>7, <1>8, <1>9, <1>10, <1>11,
     <1>12, <1>13, <1>14, <1>15, <1>16, <1>17, <1>18, <1>19, <1>20, <1>21,
     <1>22, <1>23, <1>24, <1>25, <1>26, <1>27, <1>28, <1>29, <1>30, <1>31,
     <1>32, <1>33, <1>34, <1>35, <1>36, <1>37, <1>38, <1>39, <1>40, <1>41,
     <1>42, <1>43
     DEF Next, Reader, Decoder, Control, Terminated

(* A fifo only loses packets, or gains the one that is put.                 *)
LEMMA OwnAppend ==
    ASSUME NEW k, NEW l \in Seq(Packet), NEW p \in {k, "flush"} \cap Packet,
           \A i \in 1 .. Len(l) : l[i] \in {k, "flush"}
    PROVE  \A i \in 1 .. Len(Append(l, p)) : Append(l, p)[i] \in {k, "flush"}
OBVIOUS

(* Taking the oldest packet leaves a fifo of its own stream one.             *)
LEMMA OwnTail ==
    ASSUME NEW k, NEW l \in Seq(Packet), l # <<>>,
           \A i \in 1 .. Len(l) : l[i] \in {k, "flush"}
    PROVE  \A i \in 1 .. Len(Tail(l)) : Tail(l)[i] \in {k, "flush"}
OBVIOUS

(* A decoder that is open is given packets of its stream only.              *)
LEMMA RoutedStep ==
    ASSUME QTypeOK, PTypeOK, QInv, Local, Joined, Routed, [Next]_vars
    PROVE  Routed'
<1> USE PlayerAssumption DEF QTypeOK, PTypeOK, Routed, OwnPacketsOnly
<1>1. CASE UNCHANGED vars
  BY <1>1 DEF vars, pvars, qvars
<1>2. CASE OpenInput
  BY <1>2 DEF OpenInput, ReadGo, qvars
<1>3. CASE OpenFails
  BY <1>3 DEF OpenFails, ReadGo, qvars
<1>4. CASE NoFormatContext
  BY <1>4 DEF NoFormatContext, ReadGo, qvars
<1>5. CASE FindStreamInfo
  BY <1>5 DEF FindStreamInfo, ReadGo, qvars
<1>6. CASE OpenVideo
  BY <1>6 DEF OpenVideo, ReadGo, OpenCodec, qvars
<1>7. CASE OpenAudio
  BY <1>7 DEF OpenAudio, ReadGo, OpenCodec, qvars
<1>8. CASE ReportOpenFailure
  BY <1>8 DEF ReportOpenFailure, ReadGo, qvars
<1>9. CASE LoopOn
  BY <1>9 DEF LoopOn, ReadGo, qvars
<1>10. CASE LoopEnd
  BY <1>10 DEF LoopEnd, ReadGo, qvars
<1>11. CASE ReadPacket
  BY <1>11 DEF ReadPacket, ReadGo, qvars
<1>12. CASE ReadRetry
  BY <1>12 DEF ReadRetry, ReadGo, qvars
<1>13. CASE ReadError
  BY <1>13 DEF ReadError, ReadGo, qvars
<1>14. CASE PutPacket
  <2> PICK k \in Route(in_pkt) : PutOn(k, in_pkt)
    BY <1>14 DEF PutPacket
  <2>1. k \in Queue /\ in_pkt \in Packet /\ (dec_ctx[k] = "open" => in_pkt = k)
    BY <1>14 DEF PutPacket, ReadGo, Route, Local, Stream
  <2>2. pkt_list' = pkt_list \/ pkt_list' = [pkt_list EXCEPT ![k] = Append(@, in_pkt)]
    BY <2>1, PutEffect
  <2>3. dec_ctx[k] = "open" =>
            \A i \in 1 .. Len(pkt_list'[k]) : pkt_list'[k][i] \in {k, "flush"}
    <3> SUFFICES ASSUME dec_ctx[k] = "open"
                 PROVE  \A i \in 1 .. Len(pkt_list'[k]) : pkt_list'[k][i] \in {k, "flush"}
      OBVIOUS
    <3>1. /\ pkt_list[k] \in Seq(Packet)
          /\ \A i \in 1 .. Len(pkt_list[k]) : pkt_list[k][i] \in {k, "flush"}
      BY <2>1
    <3>2. pkt_list'[k] \in {pkt_list[k], Append(pkt_list[k], in_pkt)}
      BY <2>2
    <3>3. in_pkt \in {k, "flush"} \cap Packet
      BY <2>1
    <3>4. \A i \in 1 .. Len(Append(pkt_list[k], in_pkt)) :
              Append(pkt_list[k], in_pkt)[i] \in {k, "flush"}
      BY <3>1, <3>3, OwnAppend
    <3> QED
      BY <3>1, <3>2, <3>4
  <2>4. \A j \in Queue : j # k => pkt_list'[j] = pkt_list[j]
    BY <2>2
  <2>5. OwnPacketsOnly'
    <3> SUFFICES ASSUME NEW j \in Queue, dec_ctx[j] = "open"
                 PROVE  \A i \in 1 .. Len(pkt_list'[j]) : pkt_list'[j][i] \in {j, "flush"}
      BY <1>14 DEF PutPacket
    <3> QED
      BY <2>3, <2>4
  <2> QED
    BY <1>14, <2>5 DEF PutPacket, ReadGo
<1>15. CASE FlushVideo
  <2>1. "video" \in Queue /\ "flush" \in Packet
    OBVIOUS
  <2>2. pkt_list' = pkt_list \/ pkt_list' = [pkt_list EXCEPT !["video"] = Append(@, "flush")]
    BY <1>15, PutEffect DEF FlushVideo, FlushDecoder, qvars
  <2>3. dec_ctx["video"] = "open" =>
            \A i \in 1 .. Len(pkt_list'["video"]) : pkt_list'["video"][i] \in {"video", "flush"}
    <3> SUFFICES ASSUME dec_ctx["video"] = "open"
                 PROVE  \A i \in 1 .. Len(pkt_list'["video"]) : pkt_list'["video"][i] \in {"video", "flush"}
      OBVIOUS
    <3>1. /\ pkt_list["video"] \in Seq(Packet)
          /\ \A i \in 1 .. Len(pkt_list["video"]) : pkt_list["video"][i] \in {"video", "flush"}
      BY <2>1
    <3>2. pkt_list'["video"] \in {pkt_list["video"], Append(pkt_list["video"], "flush")}
      BY <2>2
    <3>3. "flush" \in {"video", "flush"} \cap Packet
      BY <2>1
    <3>4. \A i \in 1 .. Len(Append(pkt_list["video"], "flush")) :
              Append(pkt_list["video"], "flush")[i] \in {"video", "flush"}
      BY <3>1, <3>3, OwnAppend
    <3> QED
      BY <3>1, <3>2, <3>4
  <2>4. \A j \in Queue : j # "video" => pkt_list'[j] = pkt_list[j]
    BY <2>2
  <2>5. OwnPacketsOnly'
    <3> SUFFICES ASSUME NEW j \in Queue, dec_ctx[j] = "open"
                 PROVE  \A i \in 1 .. Len(pkt_list'[j]) : pkt_list'[j][i] \in {j, "flush"}
      BY <1>15 DEF FlushVideo, FlushDecoder
    <3> QED
      BY <2>3, <2>4
  <2> QED
    BY <1>15, <2>5 DEF FlushVideo, FlushDecoder, ReadGo
<1>16. CASE FlushAudio
  <2>1. "audio" \in Queue /\ "flush" \in Packet
    OBVIOUS
  <2>2. pkt_list' = pkt_list \/ pkt_list' = [pkt_list EXCEPT !["audio"] = Append(@, "flush")]
    BY <1>16, PutEffect DEF FlushAudio, FlushDecoder, qvars
  <2>3. dec_ctx["audio"] = "open" =>
            \A i \in 1 .. Len(pkt_list'["audio"]) : pkt_list'["audio"][i] \in {"audio", "flush"}
    <3> SUFFICES ASSUME dec_ctx["audio"] = "open"
                 PROVE  \A i \in 1 .. Len(pkt_list'["audio"]) : pkt_list'["audio"][i] \in {"audio", "flush"}
      OBVIOUS
    <3>1. /\ pkt_list["audio"] \in Seq(Packet)
          /\ \A i \in 1 .. Len(pkt_list["audio"]) : pkt_list["audio"][i] \in {"audio", "flush"}
      BY <2>1
    <3>2. pkt_list'["audio"] \in {pkt_list["audio"], Append(pkt_list["audio"], "flush")}
      BY <2>2
    <3>3. "flush" \in {"audio", "flush"} \cap Packet
      BY <2>1
    <3>4. \A i \in 1 .. Len(Append(pkt_list["audio"], "flush")) :
              Append(pkt_list["audio"], "flush")[i] \in {"audio", "flush"}
      BY <3>1, <3>3, OwnAppend
    <3> QED
      BY <3>1, <3>2, <3>4
  <2>4. \A j \in Queue : j # "audio" => pkt_list'[j] = pkt_list[j]
    BY <2>2
  <2>5. OwnPacketsOnly'
    <3> SUFFICES ASSUME NEW j \in Queue, dec_ctx[j] = "open"
                 PROVE  \A i \in 1 .. Len(pkt_list'[j]) : pkt_list'[j][i] \in {j, "flush"}
      BY <1>16 DEF FlushAudio, FlushDecoder
    <3> QED
      BY <2>3, <2>4
  <2> QED
    BY <1>16, <2>5 DEF FlushAudio, FlushDecoder, ReadGo
<1>17. CASE TestReport
  BY <1>17 DEF TestReport, ReadGo, qvars
<1>18. CASE ReportReadError
  BY <1>18 DEF ReportReadError, ReadGo, qvars
<1>19. ASSUME NEW k \in Queue, DecStop(k)
      PROVE  Routed'
  BY <1>19 DEF DecStop, DecGo, qvars
<1>20. ASSUME NEW k \in Queue, DecGet(k)
      PROVE  Routed'
  BY <1>20 DEF DecGet, DecGo, GetCall
<1>21. ASSUME NEW k \in Queue, DecWait(k)
      PROVE  Routed'
  BY <1>21 DEF DecWait, DecGo, GetCheck, GetBlock
<1>22. ASSUME NEW k \in Queue, DecSpuriousWake(k)
      PROVE  Routed'
  BY <1>22 DEF DecSpuriousWake, DecGo, SpuriousWake
<1>23. ASSUME NEW k \in Queue, DecGot(k)
      PROVE  Routed'
  <2>1. pkt_list[k] # <<>>
    BY <1>23 DEF DecGot, GetTake, GoTo, QInv, TakeNonEmpty
  <2>2. pkt_list' = [pkt_list EXCEPT ![k] = Tail(@)] /\ dec_ctx' = dec_ctx
    BY <1>23 DEF DecGot, DecGo, GetTake
  <2>3. \A i \in 1 .. Len(pkt_list'[k]) : dec_ctx[k] = "open" => pkt_list'[k][i] \in {k, "flush"}
    BY <2>1, <2>2, OwnTail
  <2>4. \A j \in Queue : j # k => pkt_list'[j] = pkt_list[j]
    BY <2>2
  <2>5. OwnPacketsOnly'
    BY <2>2, <2>3, <2>4
  <2>6. \A j \in Queue : pkt_list[j] = <<>> => pkt_list'[j] = <<>>
    BY <2>1, <2>4
  <2> QED
    BY <1>23, <2>5, <2>6 DEF DecGot, DecGo
<1>24. ASSUME NEW k \in Queue, DecRefused(k)
      PROVE  Routed'
  BY <1>24 DEF DecRefused, DecGo, GetStopped
<1>25. ASSUME NEW k \in Queue, Decode(k)
      PROVE  Routed'
  BY <1>25 DEF Decode, Decoded, DecGo, Unref
<1>26. ASSUME NEW k \in Queue, DecTest(k)
      PROVE  Routed'
  BY <1>26 DEF DecTest, DecGo, qvars
<1>27. ASSUME NEW k \in Queue, DecReport(k)
      PROVE  Routed'
  BY <1>27 DEF DecReport, DecGo, qvars
<1>28. CASE StopPlay
  BY <1>28 DEF StopPlay, CtlGo, qvars
<1>29. CASE StartReader
  BY <1>29 DEF StartReader, CtlGo, Joined, qvars
<1>30. CASE StartDecoder("audio", "start_audio", "start_video")
  BY <1>30 DEF StartDecoder, CtlGo, qvars
<1>31. CASE StartDecoder("video", "start_video", "playing")
  BY <1>31 DEF StartDecoder, CtlGo, qvars
<1>32. CASE StopQueue("video", "stop_video", "notify_video")
  BY <1>32 DEF StopQueue, CtlGo, SetStop
<1>33. CASE NotifyQueue("video", "notify_video", "stop_audio")
  BY <1>33 DEF NotifyQueue, CtlGo, NotifyStop
<1>34. CASE StopQueue("audio", "stop_audio", "notify_audio")
  BY <1>34 DEF StopQueue, CtlGo, SetStop
<1>35. CASE NotifyQueue("audio", "notify_audio", "join_audio")
  BY <1>35 DEF NotifyQueue, CtlGo, NotifyStop
<1>36. CASE JoinDecoder("audio", "join_audio", "join_video")
  BY <1>36 DEF JoinDecoder, Ended, CtlGo, qvars
<1>37. CASE JoinDecoder("video", "join_video", "join_read")
  BY <1>37 DEF JoinDecoder, Ended, CtlGo, qvars
<1>38. CASE JoinReader
  BY <1>38 DEF JoinReader, CtlGo, qvars
<1>39. CASE FreeAll
  BY <1>39 DEF FreeAll, CtlGo, qvars
<1>40. CASE DestroyQueue("video", "stopped", "freed_video")
  BY <1>40 DEF DestroyQueue, CtlGo, Flush
<1>41. CASE DestroyQueue("audio", "freed_video", "gone")
  BY <1>41 DEF DestroyQueue, CtlGo, Flush
<1>42. CASE ReaderThrows
  BY <1>42 DEF ReaderThrows, ReadGo, qvars
<1>43. ASSUME NEW k \in Queue, DecThrows(k)
      PROVE  Routed'
  BY <1>43 DEF DecThrows, DecGo, qvars
<1> QED
  BY <1>1, <1>2, <1>3, <1>4, <1>5, <1>6, <1>7, <1>8, <1>9, <1>10, <1>11,
     <1>12, <1>13, <1>14, <1>15, <1>16, <1>17, <1>18, <1>19, <1>20, <1>21,
     <1>22, <1>23, <1>24, <1>25, <1>26, <1>27, <1>28, <1>29, <1>30, <1>31,
     <1>32, <1>33, <1>34, <1>35, <1>36, <1>37, <1>38, <1>39, <1>40, <1>41,
     <1>42, <1>43
     DEF Next, Reader, Decoder, Control, Terminated

(* A thread that ends on its own has reported.                              *)
LEMMA EndStep ==
    ASSUME PTypeOK, EndReported, [Next]_vars
    PROVE  EndReported'
<1> USE PlayerAssumption DEF PTypeOK, EndReported, Ended
<1>1. CASE UNCHANGED vars
  BY <1>1 DEF vars, pvars, qvars
<1>2. CASE OpenInput
  BY <1>2 DEF OpenInput, ReadGo
<1>3. CASE OpenFails
  BY <1>3 DEF OpenFails, ReadGo
<1>4. CASE NoFormatContext
  BY <1>4 DEF NoFormatContext, ReadGo
<1>5. CASE FindStreamInfo
  BY <1>5 DEF FindStreamInfo, ReadGo
<1>6. CASE OpenVideo
  BY <1>6 DEF OpenVideo, ReadGo, OpenCodec, Outcome
<1>7. CASE OpenAudio
  BY <1>7 DEF OpenAudio, ReadGo, OpenCodec, Outcome
<1>8. CASE ReportOpenFailure
  BY <1>8 DEF ReportOpenFailure, ReadGo
<1>9. CASE LoopOn
  BY <1>9 DEF LoopOn, ReadGo
<1>10. CASE LoopEnd
  BY <1>10 DEF LoopEnd, ReadGo
<1>11. CASE ReadPacket
  BY <1>11 DEF ReadPacket, ReadGo
<1>12. CASE ReadRetry
  BY <1>12 DEF ReadRetry, ReadGo
<1>13. CASE ReadError
  BY <1>13 DEF ReadError, ReadGo
<1>14. CASE PutPacket
  BY <1>14 DEF PutPacket, ReadGo
<1>15. CASE FlushVideo
  BY <1>15 DEF FlushVideo, ReadGo, FlushDecoder
<1>16. CASE FlushAudio
  BY <1>16 DEF FlushAudio, ReadGo, FlushDecoder
<1>17. CASE TestReport
  BY <1>17 DEF TestReport, ReadGo
<1>18. CASE ReportReadError
  BY <1>18 DEF ReportReadError, ReadGo
<1>19. ASSUME NEW k \in Queue, DecStop(k)
      PROVE  EndReported'
  BY <1>19 DEF DecStop, DecGo
<1>20. ASSUME NEW k \in Queue, DecGet(k)
      PROVE  EndReported'
  BY <1>20 DEF DecGet, DecGo
<1>21. ASSUME NEW k \in Queue, DecWait(k)
      PROVE  EndReported'
  BY <1>21 DEF DecWait, DecGo
<1>22. ASSUME NEW k \in Queue, DecSpuriousWake(k)
      PROVE  EndReported'
  BY <1>22 DEF DecSpuriousWake, DecGo
<1>23. ASSUME NEW k \in Queue, DecGot(k)
      PROVE  EndReported'
  BY <1>23 DEF DecGot, DecGo
<1>24. ASSUME NEW k \in Queue, DecRefused(k)
      PROVE  EndReported'
  BY <1>24 DEF DecRefused, DecGo
<1>25. ASSUME NEW k \in Queue, Decode(k)
      PROVE  EndReported'
  BY <1>25 DEF Decode, Decoded, DecGo
<1>26. ASSUME NEW k \in Queue, DecTest(k)
      PROVE  EndReported'
  BY <1>26 DEF DecTest, DecGo
<1>27. ASSUME NEW k \in Queue, DecReport(k)
      PROVE  EndReported'
  BY <1>27 DEF DecReport, DecGo
<1>28. CASE StopPlay
  BY <1>28 DEF StopPlay, CtlGo
<1>29. CASE StartReader
  BY <1>29 DEF StartReader, CtlGo
<1>30. CASE StartDecoder("audio", "start_audio", "start_video")
  BY <1>30 DEF StartDecoder, CtlGo
<1>31. CASE StartDecoder("video", "start_video", "playing")
  BY <1>31 DEF StartDecoder, CtlGo
<1>32. CASE StopQueue("video", "stop_video", "notify_video")
  BY <1>32 DEF StopQueue, CtlGo
<1>33. CASE NotifyQueue("video", "notify_video", "stop_audio")
  BY <1>33 DEF NotifyQueue, CtlGo
<1>34. CASE StopQueue("audio", "stop_audio", "notify_audio")
  BY <1>34 DEF StopQueue, CtlGo
<1>35. CASE NotifyQueue("audio", "notify_audio", "join_audio")
  BY <1>35 DEF NotifyQueue, CtlGo
<1>36. CASE JoinDecoder("audio", "join_audio", "join_video")
  BY <1>36 DEF JoinDecoder, Ended, CtlGo
<1>37. CASE JoinDecoder("video", "join_video", "join_read")
  BY <1>37 DEF JoinDecoder, Ended, CtlGo
<1>38. CASE JoinReader
  BY <1>38 DEF JoinReader, CtlGo
<1>39. CASE FreeAll
  BY <1>39 DEF FreeAll, CtlGo
<1>40. CASE DestroyQueue("video", "stopped", "freed_video")
  BY <1>40 DEF DestroyQueue, CtlGo
<1>41. CASE DestroyQueue("audio", "freed_video", "gone")
  BY <1>41 DEF DestroyQueue, CtlGo
<1>42. CASE ReaderThrows
  BY <1>42 DEF ReaderThrows, ReadGo
<1>43. ASSUME NEW k \in Queue, DecThrows(k)
      PROVE  EndReported'
  BY <1>43 DEF DecThrows, DecGo
<1> QED
  BY <1>1, <1>2, <1>3, <1>4, <1>5, <1>6, <1>7, <1>8, <1>9, <1>10, <1>11,
     <1>12, <1>13, <1>14, <1>15, <1>16, <1>17, <1>18, <1>19, <1>20, <1>21,
     <1>22, <1>23, <1>24, <1>25, <1>26, <1>27, <1>28, <1>29, <1>30, <1>31,
     <1>32, <1>33, <1>34, <1>35, <1>36, <1>37, <1>38, <1>39, <1>40, <1>41,
     <1>42, <1>43
     DEF Next, Reader, Decoder, Control, Terminated

----------------------------------------------------------------------------
(* The inductive invariant holds at the start.                              *)
LEMMA InitInv == Init => Inv
<1> SUFFICES ASSUME Init
             PROVE  Inv
  OBVIOUS
<1>1. QTypeOK /\ QInv
  BY QInitInv DEF Init
<1>2. PTypeOK
  <2>1. stream_index \in [Queue -> Stream \cup {NoPacket}]
    BY PlayerAssumption DEF Init, Stream
  <2>2. retries \in 0 .. RetryTimes
    BY PlayerAssumption DEF Init
  <2> QED
    BY <2>1, <2>2 DEF Init, PTypeOK, ReadPC, DecPC, CtlPC, Stream
<1>3. Local /\ Joined /\ EndReported
  BY PlayerAssumption DEF Init, QInit, Local, Joined, EndReported, Ended
<1>4. Counted /\ Routed
  BY PlayerAssumption DEF Init, QInit, Counted, Routed, OwnPacketsOnly, MaxPacket
<1> QED
  BY <1>1, <1>2, <1>3, <1>4 DEF Inv, TypeOK

(* The inductive invariant holds in every reachable state.                  *)
LEMMA Inductive == Spec => []Inv
<1>1. Inv /\ [Next]_vars => Inv'
  <2> SUFFICES ASSUME Inv, [Next]_vars
               PROVE  Inv'
    OBVIOUS
  <2>1. (QTypeOK /\ QInv)'
    BY QueueStep, QTypeStep, QInvStep DEF Inv, TypeOK
  <2>2. PTypeOK' /\ Local'
    BY TypeStep, LocalStep DEF Inv, TypeOK
  <2>3. Joined' /\ Counted'
    BY JoinedStep, CountedStep DEF Inv, TypeOK
  <2>4. Routed' /\ EndReported'
    BY RoutedStep, EndStep DEF Inv, TypeOK
  <2> QED
    BY <2>1, <2>2, <2>3, <2>4 DEF Inv, TypeOK
<1> QED
  BY InitInv, <1>1, PTL DEF Spec

(* The types of a session's state hold in every reachable state.            *)
THEOREM PlayerTypeCorrect == Spec => []TypeOK
<1>1. Inv => TypeOK
  BY DEF Inv
<1> QED
  BY Inductive, <1>1, PTL

(* stopPlay() frees nothing a thread can still use: the joins come first    *)
(* (ffmpegWrapper.cpp:225-248), and a joined thread is not in a queue.      *)
THEOREM NoUseAfterFree == Spec => []FreedMeansJoined
<1>1. Inv => FreedMeansJoined
  BY PlayerAssumption DEF Inv, Local, Joined, FreedMeansJoined, Ended
<1> QED
  BY Inductive, <1>1, PTL

(* The queues respect their limits, for every value of the limits: the size *)
(* the reader tests covers the fifo, and only the reader makes it grow      *)
(* (ffmpegWrapper.cpp:178-199).                                             *)
THEOREM BoundedQueues == Spec => []BackPressure
<1>1. Inv => BackPressure
  <2> SUFFICES ASSUME Inv, NEW k \in Queue
               PROVE  Len(pkt_list[k]) <=
                          MaxPacket(k) + (IF read_pc \in {"flush_audio", "report", "push", "done", "crash"}
                                          THEN 1 ELSE 0)
    BY DEF BackPressure
  <2>1. nb_packets[k] >= Len(pkt_list[k]) /\ nb_packets[k] \in Int /\ Len(pkt_list[k]) \in Nat
    BY FifoLengths DEF Inv, TypeOK, QTypeOK, QInv, NbCoversList
  <2> QED
    BY <2>1, PlayerAssumption DEF Inv, Counted, MaxPacket
<1> QED
  BY Inductive, <1>1, PTL

(* Whatever the two stream indices hold before they are set, an open        *)
(* decoder is given packets of its own stream only (ffmpegWrapper.cpp:195). *)
THEOREM OpenDecodersGetTheirOwn == Spec => []OwnPacketsOnly
<1>1. Inv => OwnPacketsOnly
  BY DEF Inv, Routed
<1> QED
  BY Inductive, <1>1, PTL

(* A thread of a session nobody stopped ends with a report to the client    *)
(* (ffmpegWrapper.cpp:171-174, 209-211, 691-693, 724-726), except a decode  *)
(* thread that an exception ended, which takes a failed allocation          *)
(* (695-697, 728-730); where none fails no thread ends silently.            *)
THEOREM NoSilentEnd == Spec => []EndReported
<1>1. Inv => EndReported
  BY DEF Inv
<1> QED
  BY Inductive, <1>1, PTL

(* The threads of a session use each queue as a first-in first-out channel. *)
THEOREM PlayerUsesChannels == Spec => ImplementsChannel
<1>1. Inv /\ [Next]_vars => [QNext]_qvars
  BY QueueStep DEF Inv
<1>2. Init => QInit
  BY DEF Init
<1>3. Spec => QSpec
  BY Inductive, <1>1, <1>2, PTL DEF Spec, QSpec
<1> QED
  BY <1>3, QRefinesChannel

----------------------------------------------------------------------------
(* The counter and back-pressure when no allocation fails.                  *)

(* ~FfmpegWrapper has begun to empty the queues.                            *)
Emptied == ctl_pc \in {"freed_video", "gone"}

(* What a step does to a fifo and its counter: nothing, a put() that stores,*)
(* a pop, or the end of the session, unless memory runs out.                *)
LEMMA FifoStep ==
    ASSUME Local, [Next]_vars
    PROVE  /\ \/ UNCHANGED <<pkt_list, nb_packets>>
              \/ \E k \in Queue, p \in Packet : Put(k, p)
              \/ \E k \in Queue : GetTake(k)
              \/ MayRunOut
              \/ Emptied'
           /\ Emptied => Emptied'
<1> USE PlayerAssumption DEF Emptied, qvars
<1>1. CASE \/ UNCHANGED vars \/ OpenInput \/ OpenFails \/ NoFormatContext \/ FindStreamInfo
           \/ OpenVideo \/ OpenAudio \/ ReportOpenFailure \/ LoopOn \/ LoopEnd
           \/ ReadPacket \/ ReadRetry \/ ReadError \/ TestReport \/ ReportReadError \/ ReaderThrows
  BY <1>1 DEF vars, pvars, OpenInput, OpenFails, NoFormatContext, FindStreamInfo, OpenVideo,
     OpenAudio, OpenCodec, ReportOpenFailure, LoopOn, LoopEnd, ReadPacket, ReadRetry, ReadError,
     TestReport, ReportReadError, ReaderThrows, ReadGo
<1>2. CASE PutPacket
  <2> PICK k \in Route(in_pkt) : PutOn(k, in_pkt)
    BY <1>2 DEF PutPacket
  <2>1. k \in Queue /\ in_pkt \in Packet
    BY <1>2 DEF PutPacket, ReadGo, Route, Local, Stream
  <2> QED
    BY <1>2, <2>1 DEF PutPacket, ReadGo, PutOn
<1>3. CASE FlushVideo \/ FlushAudio
  <2>1. "flush" \in Packet /\ "video" \in Queue /\ "audio" \in Queue
    OBVIOUS
  <2> QED
    BY <1>3, <2>1 DEF FlushVideo, FlushAudio, FlushDecoder, ReadGo, PutOn
<1>4. ASSUME NEW k \in Queue, Decoder(k) \/ DecSpuriousWake(k)
      PROVE  /\ UNCHANGED <<pkt_list, nb_packets>> \/ GetTake(k)
             /\ Emptied => Emptied'
  BY <1>4 DEF Decoder, DecStop, DecGet, DecWait, DecSpuriousWake, DecGot, DecRefused, Decode, Decoded,
     DecTest, DecReport, DecThrows, DecGo, GetCall, GetCheck, GetBlock, SpuriousWake, GetStopped, Unref
<1>5. CASE StopPlay \/ Control
  BY <1>5 DEF StopPlay, Control, StartReader, StartDecoder, StopQueue, SetStop, NotifyQueue,
     NotifyStop, JoinDecoder, Ended, JoinReader, FreeAll, DestroyQueue, CtlGo
<1> QED
  BY <1>1, <1>2, <1>3, <1>4, <1>5 DEF Next, Reader, Terminated

(* The counter says exactly what the fifo holds.                            *)
Exact == ~Emptied => \A k \in Queue : nb_packets[k] = Len(pkt_list[k])

LEMMA ExactStep ==
    ASSUME TypeOK, QInv, Local, ~MayRunOut, Exact, [Next]_vars
    PROVE  Exact'
<1> SUFFICES ASSUME ~Emptied', NEW j \in Queue
             PROVE  nb_packets'[j] = Len(pkt_list'[j])
  BY DEF Exact
<1>1. nb_packets[j] = Len(pkt_list[j])
  BY FifoStep DEF Exact
<1>2. /\ pkt_list \in [Queue -> Seq(Packet)]
      /\ nb_packets \in [Queue -> Nat]
  BY DEF TypeOK, QTypeOK
<1>3. ASSUME NEW k \in Queue, NEW p \in Packet, Put(k, p)
      PROVE  nb_packets'[j] = Len(pkt_list'[j])
  BY <1>1, <1>2, <1>3, FifoLengths DEF Put, Enqueue
<1>4. ASSUME NEW k \in Queue, GetTake(k)
      PROVE  nb_packets'[j] = Len(pkt_list'[j])
  <2>1. pkt_list[k] # <<>>
    BY <1>4 DEF GetTake, GoTo, QInv, TakeNonEmpty
  <2>2. Len(Tail(pkt_list[k])) = Len(pkt_list[k]) - 1
    BY <1>2, <2>1, FifoLengths
  <2> QED
    BY <1>1, <1>2, <1>4, <2>2 DEF GetTake
<1>5. CASE UNCHANGED <<pkt_list, nb_packets>>
  BY <1>1, <1>5
<1> QED
  BY <1>3, <1>4, <1>5, FifoStep

(* As long as memory does not run out, size() is the length of the fifo     *)
(* from the first put() to the destructor: the counter, which is moved      *)
(* apart from the fifo, never drifts (packetQueue.cpp:27-34, 46-53).        *)
THEOREM CounterNeverDrifts == Spec /\ ~MayRunOut => []Exact
<1>1. Init => Exact
  BY PlayerAssumption DEF Init, QInit, Exact
<1>2. Inv /\ ~MayRunOut /\ Exact /\ [Next]_vars => Exact'
  BY ExactStep DEF Inv
<1>3. CASE MayRunOut
  BY <1>3
<1>4. CASE ~MayRunOut
  <2>1. Inv /\ Exact /\ [Next]_vars => Exact'
    BY <1>2, <1>4
  <2> QED
    BY Inductive, <1>1, <2>1, PTL DEF Spec
<1> QED
  BY <1>3, <1>4

(* The reader is held back by a full queue only while there is something to *)
(* take for the queue's decode thread, which is not asleep: the wait of one *)
(* for the other cannot become mutual (ffmpegWrapper.cpp:178-181).          *)
THEOREM FullQueueIsAwake ==
    Spec /\ ~MayRunOut =>
        [](~Emptied => \A k \in Queue :
               nb_packets[k] >= MaxPacket(k) =>
                   pkt_list[k] # <<>> /\ get_pc[k] \notin {"block", "wait"})
<1>1. Inv /\ Exact => (~Emptied => \A k \in Queue :
          nb_packets[k] >= MaxPacket(k) =>
              pkt_list[k] # <<>> /\ get_pc[k] \notin {"block", "wait"})
  <2> SUFFICES ASSUME Inv, Exact, ~Emptied, NEW k \in Queue, nb_packets[k] >= MaxPacket(k)
               PROVE  pkt_list[k] # <<>> /\ get_pc[k] \notin {"block", "wait"}
    OBVIOUS
  <2>1. MaxPacket(k) > 0 /\ nb_packets[k] = Len(pkt_list[k]) /\ MaxPacket(k) \in Nat
    BY PlayerAssumption DEF Exact, MaxPacket
  <2>2. pkt_list[k] # <<>>
    BY <2>1, FifoLengths DEF Inv, TypeOK, QTypeOK
  <2> QED
    BY <2>2 DEF Inv, QInv, NoSleepOnPackets
<1> QED
  BY Inductive, CounterNeverDrifts, <1>1, PTL

----------------------------------------------------------------------------
(* How a decode thread can bring the process down.                          *)

Opening == {"unborn", "open", "probe", "codec_video", "codec_audio"}

(* No packet comes to a context that does not exist, unless its index is    *)
(* garbage; none is decoded before both codecs were tried.                  *)
Starved ==
    \A k \in Queue :
        /\ read_pc \in Opening => dec_pc[k] # "decode"
        /\ dec_ctx[k] = "null" /\ stream_index[k] = NoPacket =>
               pkt_list[k] = <<>> /\ dec_pc[k] # "decode"

LEMMA CrashStep ==
    ASSUME Inv, Starved, CrashOnlyKnown, [Next]_vars
    PROVE  Starved' /\ CrashOnlyKnown'
<1> USE PlayerAssumption DEF Starved, CrashOnlyKnown, Opening, qvars
<1>0. QTypeOK /\ PTypeOK
  BY DEF Inv, TypeOK
<1>1. CASE \/ UNCHANGED vars \/ OpenInput \/ OpenFails \/ NoFormatContext \/ FindStreamInfo
           \/ ReportOpenFailure \/ LoopOn \/ LoopEnd \/ ReadPacket \/ ReadRetry \/ ReadError
           \/ TestReport \/ ReportReadError \/ ReaderThrows
  BY <1>1 DEF vars, pvars, OpenInput, OpenFails, NoFormatContext, FindStreamInfo,
     ReportOpenFailure, LoopOn, LoopEnd, ReadPacket, ReadRetry, ReadError,
     TestReport, ReportReadError, ReaderThrows, ReadGo
<1>2. CASE OpenVideo \/ OpenAudio
  <2>1. \A k \in Queue : pkt_list[k] = <<>> /\ dec_pc[k] # "decode" /\ dec_pc[k] # "crash"
    BY <1>2 DEF Inv, Routed, OpenVideo, OpenAudio, ReadGo, Crashed
  <2>2. pkt_list' = pkt_list /\ dec_pc' = dec_pc /\ read_pc' # "crash"
    BY <1>2 DEF OpenVideo, OpenAudio, OpenCodec, ReadGo
  <2> QED
    BY <2>1, <2>2
<1>3. CASE PutPacket
  <2> PICK k \in Route(in_pkt) : PutOn(k, in_pkt)
    BY <1>3 DEF PutPacket
  <2>1. k \in Queue /\ stream_index[k] = in_pkt /\ in_pkt # NoPacket
    BY <1>3, NoPacketAssumption DEF PutPacket, ReadGo, Route, Inv, Local, Stream
  <2>2. \A j \in Queue : j # k => pkt_list'[j] = pkt_list[j]
    BY <1>0, <2>1, PutEffect DEF QTypeOK
  <2> QED
    BY <1>3, <2>1, <2>2 DEF PutPacket, ReadGo, Crashed
<1>4. CASE FlushVideo \/ FlushAudio
  <2> PICK k \in Queue : FlushDecoder(k)
    BY <1>4 DEF FlushVideo, FlushAudio
  <2>1. \A j \in Queue : pkt_list'[j] # pkt_list[j] => j = k /\ dec_ctx[k] # "null"
    BY <1>0, PutEffect DEF FlushDecoder, QTypeOK
  <2>2. UNCHANGED <<dec_ctx, dec_pc, bare, stream_index>>
    BY <1>4 DEF FlushVideo, FlushAudio, ReadGo, FlushDecoder
  <2>3. read_pc' \notin Opening /\ read_pc' # "crash"
    BY <1>4 DEF FlushVideo, FlushAudio, ReadGo
  <2> QED
    BY <2>1, <2>2, <2>3
<1>5. ASSUME NEW k \in Queue, \/ DecStop(k) \/ DecGet(k) \/ DecWait(k) \/ DecSpuriousWake(k)
                              \/ DecRefused(k) \/ DecTest(k) \/ DecReport(k) \/ DecThrows(k)
      PROVE  Starved' /\ CrashOnlyKnown'
  BY <1>0, <1>5 DEF PTypeOK, DecStop, DecGet, DecWait, DecSpuriousWake, DecRefused, DecTest,
     DecReport, DecThrows, DecGo, GetCall, GetCheck, GetBlock, SpuriousWake, GetStopped
<1>6. ASSUME NEW k \in Queue, DecGot(k)
      PROVE  Starved' /\ CrashOnlyKnown'
  <2>1. pkt_list[k] # <<>>
    BY <1>6 DEF DecGot, GetTake, GoTo, Inv, QInv, TakeNonEmpty
  <2>2. read_pc \notin Opening /\ ~(dec_ctx[k] = "null" /\ stream_index[k] = NoPacket)
    BY <2>1 DEF Inv, Routed
  <2> QED
    BY <1>0, <1>6, <2>2 DEF PTypeOK, QTypeOK, DecGot, DecGo, GetTake
<1>7. ASSUME NEW k \in Queue, Decode(k)
      PROVE  Starved' /\ CrashOnlyKnown'
  <2>1. dec_pc[k] = "decode" /\ dec_ctx[k] \in {"null", "alloc", "open"}
    BY <1>0, <1>7 DEF PTypeOK, Decode, DecGo, Inv, Joined, Ended
  <2>2. dec_ctx[k] = "null" => stream_index[k] # NoPacket
    BY <2>1
  <2>3. UNCHANGED <<read_pc, dec_ctx, stream_index, pkt_list>>
    BY <1>7 DEF Decode, Decoded, DecGo, Unref
  <2>4. PICK next \in {"top", "exit", "crash"} :
            /\ dec_pc' = [dec_pc EXCEPT ![k] = next]
            /\ next = "crash" => \/ k \in bare \/ dec_ctx[k] = "null"
                                \/ (k \in Fragile /\ dec_ctx[k] = "open")
                                \/ (k = "video" /\ dec_ctx[k] = "alloc")
    BY <1>7, <2>1 DEF Decode, Decoded, DecGo
  <2>5. UNCHANGED bare
    BY <1>7 DEF Decode, Decoded, DecGo
  <2> QED
    BY <1>0, <2>1, <2>2, <2>3, <2>4, <2>5 DEF PTypeOK
<1>8. CASE StopPlay \/ StartReader
  BY <1>8 DEF StopPlay, StartReader, CtlGo, Inv, Joined
<1>9. ASSUME NEW k \in Queue, NEW from, NEW to, StartDecoder(k, from, to)
      PROVE  Starved' /\ CrashOnlyKnown'
  BY <1>0, <1>9 DEF PTypeOK, StartDecoder, CtlGo, Crashed
<1>10. ASSUME NEW k \in Queue, NEW from, NEW to,
              \/ StopQueue(k, from, to) \/ NotifyQueue(k, from, to)
              \/ JoinDecoder(k, from, to) \/ JoinReader
       PROVE  Starved' /\ CrashOnlyKnown'
  BY <1>10 DEF StopQueue, SetStop, NotifyQueue, NotifyStop, JoinDecoder, Ended, JoinReader, CtlGo
<1>11. ASSUME NEW k \in Queue, NEW from, NEW to, FreeAll \/ DestroyQueue(k, from, to)
       PROVE  Starved' /\ CrashOnlyKnown'
  BY <1>0, <1>11 DEF QTypeOK, FreeAll, DestroyQueue, Flush, CtlGo, Crashed
<1>12. CASE Control
  BY <1>8, <1>9, <1>10, <1>11, <1>12 DEF Control
<1> QED
  BY <1>1, <1>2, <1>3, <1>4, <1>5, <1>6, <1>7, <1>8, <1>12 DEF Next, Reader, Decoder, Terminated

(* A decode thread brings the process down only where CrashOnlyKnown says:  *)
(* with memory, and with no fragile frame, both decoders being open, it     *)
(* cannot (203-207, 676, 716), and the reader never does.                   *)
THEOREM CrashesAreKnown == Spec => []CrashOnlyKnown
<1>1. Init => Starved /\ CrashOnlyKnown
  BY PlayerAssumption DEF Init, QInit, Starved, CrashOnlyKnown, Opening
<1> QED
  BY Inductive, <1>1, CrashStep, PTL DEF Spec

----------------------------------------------------------------------------
(* A stop that finds the reader in its loop, both decoders being open: what *)
(* can be said of LiveStopReturns without fairness.                         *)

Caught == ctl_pc = "stop_video" /\ read_pc = "loop" /\ \A k \in Queue : dec_ctx[k] = "open"

(* stopPlay() is on its way to its last join.                               *)
StopUnderWay == ctl_pc \in {"stop_video", "notify_video", "stop_audio", "notify_audio",
                            "join_audio", "join_video", "join_read"}

(* The control thread is past its joins.                                    *)
Over == ctl_pc \in {"free", "stopped", "freed_video", "gone"}

(* The reader has put the empty packet for the decoder of queue k.          *)
Past(k) ==
    read_pc \in IF k = "video" THEN {"flush_audio", "report", "done"} ELSE {"report", "done"}

(* From such a stop to the last join: whoever is in get() after the reader  *)
(* has put the empty packet finds it, as nobody calls get() again.          *)
Draining ==
    /\ stop_request
    /\ StopUnderWay
    /\ \A k \in Queue : dec_ctx[k] = "open"
    /\ read_pc \in {"loop", "flush_video", "flush_audio", "report", "done"}
    /\ \A k \in Queue : Past(k) /\ dec_pc[k] = "get" => pkt_list[k] # <<>>

(* stop_request_ is set by stopPlay and never reset.                        *)
Flagged == stop_request <=> ctl_pc \notin {"new", "start_audio", "start_video", "playing"}

LEMMA FlaggedStep == ASSUME Flagged, [Next]_vars PROVE Flagged'
<1> USE DEF Flagged
<1>1. CASE UNCHANGED vars \/ Reader
  BY <1>1 DEF vars, pvars, Reader, OpenInput, OpenFails, NoFormatContext, FindStreamInfo, OpenVideo,
     OpenAudio, ReportOpenFailure, LoopOn, LoopEnd, ReadPacket, ReadRetry, ReadError, PutPacket,
     FlushVideo, FlushAudio, TestReport, ReportReadError, ReaderThrows, ReadGo
<1>2. ASSUME NEW k \in Queue, Decoder(k) \/ DecSpuriousWake(k)
      PROVE  Flagged'
  BY <1>2 DEF Decoder, DecStop, DecGet, DecWait, DecSpuriousWake, DecGot, DecRefused, Decode, Decoded,
     DecTest, DecReport, DecThrows, DecGo
<1>3. CASE StopPlay \/ Control
  BY <1>3 DEF StopPlay, Control, StartReader, StartDecoder, StopQueue, NotifyQueue, JoinDecoder, Ended,
     JoinReader, FreeAll, DestroyQueue, CtlGo
<1> QED
  BY <1>1, <1>2, <1>3 DEF Next, Terminated

(* Nothing but its steps brings the control thread back from where it is.   *)
LEMMA OverStep == ASSUME Over, [Next]_vars PROVE Over'
<1> USE DEF Over
<1>1. CASE UNCHANGED vars \/ Reader
  BY <1>1 DEF vars, pvars, Reader, OpenInput, OpenFails, NoFormatContext, FindStreamInfo, OpenVideo,
     OpenAudio, ReportOpenFailure, LoopOn, LoopEnd, ReadPacket, ReadRetry, ReadError, PutPacket,
     FlushVideo, FlushAudio, TestReport, ReportReadError, ReaderThrows, ReadGo
<1>2. ASSUME NEW k \in Queue, Decoder(k) \/ DecSpuriousWake(k)
      PROVE  Over'
  BY <1>2 DEF Decoder, DecStop, DecGet, DecWait, DecSpuriousWake, DecGot, DecRefused, Decode, Decoded,
     DecTest, DecReport, DecThrows, DecGo
<1>3. CASE StopPlay \/ Control
  BY <1>3 DEF StopPlay, Control, StartReader, StartDecoder, StopQueue, NotifyQueue, JoinDecoder, Ended,
     JoinReader, FreeAll, DestroyQueue, CtlGo
<1> QED
  BY <1>1, <1>2, <1>3 DEF Next, Terminated

(* How far the session is from the end of its stop: each thread's remaining *)
(* statements.  A notification sends a consumer back by two, which weighs   *)
(* less than the step of the thread that notifies.                          *)
ReaderLeft ==
    CASE read_pc = "loop"        -> 4
      [] read_pc = "flush_video" -> 3
      [] read_pc = "flush_audio" -> 2
      [] read_pc = "report"      -> 1
      [] OTHER                   -> 0

ControlLeft ==
    CASE ctl_pc = "stop_video"   -> 7
      [] ctl_pc = "notify_video" -> 6
      [] ctl_pc = "stop_audio"   -> 5
      [] ctl_pc = "notify_audio" -> 4
      [] ctl_pc = "join_audio"   -> 3
      [] ctl_pc = "join_video"   -> 2
      [] ctl_pc = "join_read"    -> 1
      [] OTHER                   -> 0

GetLeft(k) ==
    CASE get_pc[k] = "take"  -> 5
      [] get_pc[k] = "wait"  -> 6
      [] get_pc[k] = "block" -> 7
      [] OTHER               -> 8

DecoderLeft(k) ==
    CASE dec_pc[k] = "push"   -> 1
      [] dec_pc[k] = "exit"   -> 2
      [] dec_pc[k] = "top"    -> 3
      [] dec_pc[k] = "decode" -> 4
      [] dec_pc[k] = "get"    -> GetLeft(k)
      [] OTHER                -> 0

Left == 3 * ReaderLeft + 3 * ControlLeft + DecoderLeft("video") + DecoderLeft("audio")

(* The parts are small numbers.                                             *)
LEMMA LeftFacts ==
    /\ ReaderLeft \in 0 .. 4
    /\ ControlLeft \in 0 .. 7
    /\ \A k : DecoderLeft(k) \in 0 .. 8
    /\ Left \in 0 .. 49
<1>1. ReaderLeft \in 0 .. 4  BY DEF ReaderLeft
<1>2. ControlLeft \in 0 .. 7  BY DEF ControlLeft
<1>3. \A k : DecoderLeft(k) \in 0 .. 8  BY DEF DecoderLeft, GetLeft
<1>4. Left \in 0 .. 49  BY <1>1, <1>2, <1>3 DEF Left
<1> QED  BY <1>1, <1>2, <1>3, <1>4

(* A notification costs at most two steps, of the consumer it wakes.        *)
LEMMA NotifyLeft ==
    ASSUME QTypeOK, NEW k \in Queue, Notify(k), dec_pc' = dec_pc, NEW j \in Queue
    PROVE  IF j = k THEN DecoderLeft(j)' <= DecoderLeft(j) + 2
                    ELSE DecoderLeft(j)' = DecoderLeft(j)
<1>1. get_pc'[j] = IF j = k /\ get_pc[j] = "wait" THEN "call" ELSE get_pc[j]
  BY DEF Notify, QTypeOK
<1>2. GetLeft(j)' = GetLeft(j) \/ (j = k /\ GetLeft(j)' = GetLeft(j) + 2)
  BY <1>1 DEF GetLeft
<1> QED
  BY <1>2, LeftFacts DEF DecoderLeft, GetLeft

(* The reader's steps on its way out.                                       *)
LEMMA DrainReader ==
    ASSUME Inv, ~MayRunOut, Draining, Reader
    PROVE  Draining' /\ Left' < Left
<1> USE PlayerAssumption
<1>0. QTypeOK /\ PTypeOK
  BY DEF Inv, TypeOK
<1>1. CASE LoopEnd \/ TestReport
  <2>1. UNCHANGED <<stop_request, ctl_pc, dec_ctx, dec_pc, get_pc, pkt_list>>
    BY <1>1 DEF LoopEnd, TestReport, ReadGo, qvars
  <2>2. \/ read_pc = "loop" /\ read_pc' = "flush_video"
        \/ read_pc = "report" /\ read_pc' = "done"
    BY <1>1 DEF LoopEnd, TestReport, ReadGo, Draining
  <2>3. Draining'
    BY <2>1, <2>2 DEF Draining, StopUnderWay, Past
  <2>4. ReaderLeft' = ReaderLeft - 1
    BY <2>2 DEF ReaderLeft
  <2>5. ControlLeft' = ControlLeft
    BY <2>1 DEF ControlLeft
  <2>6. \A k \in Queue : DecoderLeft(k)' = DecoderLeft(k)
    BY <2>1 DEF DecoderLeft, GetLeft
  <2> QED
    BY <2>3, <2>4, <2>5, <2>6, LeftFacts DEF Left
<1>2. CASE FlushVideo \/ FlushAudio
  <2> PICK k \in Queue : /\ FlushDecoder(k)
                         /\ \/ /\ k = "video"
                               /\ read_pc = "flush_video" /\ read_pc' = "flush_audio"
                            \/ /\ k = "audio"
                               /\ read_pc = "flush_audio" /\ read_pc' = "report"
    BY <1>2 DEF FlushVideo, FlushAudio, ReadGo
  <2>1. Put(k, "flush")
    BY DEF FlushDecoder, Draining, PutOn
  <2>2. UNCHANGED <<stop_request, ctl_pc, dec_ctx, dec_pc>>
    BY <1>2 DEF FlushVideo, FlushAudio, ReadGo, FlushDecoder
  <2>3. pkt_list'[k] # <<>> /\ \A j \in Queue : j # k => pkt_list'[j] = pkt_list[j]
    <3>1. pkt_list[k] \in Seq(Packet) /\ "flush" \in Packet
      BY <1>0 DEF QTypeOK
    <3> QED
      BY <1>0, <2>1, <3>1, FifoLengths DEF Put, QTypeOK
  <2>4. Draining'
    BY <2>2, <2>3 DEF Draining, StopUnderWay, Past
  <2>5. ReaderLeft' = ReaderLeft - 1
    BY DEF ReaderLeft
  <2>6. ControlLeft' = ControlLeft
    BY <2>2 DEF ControlLeft
  <2>7. \A j \in Queue : IF j = k THEN DecoderLeft(j)' <= DecoderLeft(j) + 2
                                  ELSE DecoderLeft(j)' = DecoderLeft(j)
    BY <1>0, <2>1, <2>2, NotifyLeft DEF Put, Enqueue
  <2>8. /\ DecoderLeft("video") \in 0 .. 8 /\ DecoderLeft("video")' \in 0 .. 8
        /\ DecoderLeft("audio") \in 0 .. 8 /\ DecoderLeft("audio")' \in 0 .. 8
    BY LeftFacts DEF DecoderLeft, GetLeft
  <2> QED
    BY <2>4, <2>5, <2>6, <2>7, <2>8, LeftFacts DEF Left
<1>3. ~ReaderThrows
  BY DEF ReaderThrows
<1> QED
  BY <1>1, <1>2, <1>3 DEF Reader, Draining, OpenInput, OpenFails, NoFormatContext, FindStreamInfo,
     OpenVideo, OpenAudio, ReportOpenFailure, LoopOn, ReadPacket, ReadRetry, ReadError, PutPacket,
     ReportReadError, ReadGo

(* The decode threads' steps on their way out.                              *)
LEMMA DrainDecoder ==
    ASSUME Inv, Draining, NEW k \in Queue, Decoder(k)
    PROVE  Draining' /\ Left' < Left
<1> USE PlayerAssumption
<1>0. QTypeOK /\ PTypeOK
  BY DEF Inv, TypeOK
<1>1. UNCHANGED <<stop_request, ctl_pc, dec_ctx, read_pc>>
  BY DEF Decoder, DecStop, DecGet, DecWait, DecGot, DecRefused, Decode, Decoded, DecTest, DecReport, DecThrows, DecGo
<1>2. \A j \in Queue : j # k =>
          dec_pc'[j] = dec_pc[j] /\ get_pc'[j] = get_pc[j] /\ pkt_list'[j] = pkt_list[j]
  BY <1>0 DEF PTypeOK, QTypeOK, Decoder, DecStop, DecGet, DecWait, DecGot, DecRefused, Decode, Decoded,
     DecTest, DecReport, DecThrows, DecGo, GetCall, GetCheck, GetBlock, GetTake, GetStopped, Unref, GoTo, qvars
<1>3. /\ DecoderLeft(k)' < DecoderLeft(k)
      /\ dec_pc'[k] = "get" => dec_pc[k] = "get" /\ pkt_list' = pkt_list
  <2>1. CASE DecStop(k) \/ DecTest(k) \/ DecReport(k) \/ DecThrows(k)
    <3>1. \/ dec_pc[k] = "top" /\ dec_pc'[k] = "exit"
          \/ dec_pc[k] = "exit" /\ Ended(k)'
          \/ dec_pc[k] = "push" /\ Ended(k)'
      BY <1>0, <2>1 DEF PTypeOK, Draining, DecStop, DecTest, DecReport, DecThrows, DecGo, Ended
    <3> QED
      BY <3>1 DEF DecoderLeft, Ended
  <2>2. CASE DecWait(k)
    BY <1>0, <2>2 DEF PTypeOK, QTypeOK, DecWait, DecGo, GetCheck, GetBlock, GoTo, DecoderLeft, GetLeft
  <2>3. CASE DecGot(k) \/ DecRefused(k)
    BY <1>0, <2>3 DEF PTypeOK, DecGot, DecRefused, DecGo, GetTake, GetStopped, GoTo,
       DecoderLeft, GetLeft
  <2>4. CASE Decode(k)
    <3>1. dec_pc[k] = "decode" /\ dec_pc'[k] \in {"top", "exit", "crash"}
      BY <1>0, <2>4 DEF PTypeOK, Decode, Decoded, DecGo
    <3> QED
      BY <3>1 DEF DecoderLeft
  <2> QED
    BY <2>1, <2>2, <2>3, <2>4 DEF Decoder, DecGet, Draining
<1>4. Draining'
  BY <1>1, <1>2, <1>3 DEF Draining, StopUnderWay, Past
<1>5. ReaderLeft' = ReaderLeft /\ ControlLeft' = ControlLeft
  BY <1>1 DEF ReaderLeft, ControlLeft
<1>6. \A j \in Queue : j # k => DecoderLeft(j)' = DecoderLeft(j)
  BY <1>2 DEF DecoderLeft, GetLeft
<1>7. /\ DecoderLeft("video") \in 0 .. 8 /\ DecoderLeft("video")' \in 0 .. 8
      /\ DecoderLeft("audio") \in 0 .. 8 /\ DecoderLeft("audio")' \in 0 .. 8
  BY LeftFacts DEF DecoderLeft, GetLeft
<1> QED
  BY <1>3, <1>4, <1>5, <1>6, <1>7, LeftFacts DEF Left

(* The control thread's steps, from the stop to the last join.              *)
LEMMA DrainControl ==
    ASSUME Inv, Draining, Control \/ StopPlay
    PROVE  (Draining' \/ Over') /\ Left' < Left
<1> USE PlayerAssumption
<1>0. QTypeOK /\ PTypeOK
  BY DEF Inv, TypeOK
<1>1. ASSUME NEW k \in Queue, NEW from, NEW to, StopQueue(k, from, to)
      PROVE  UNCHANGED <<stop_request, dec_ctx, read_pc, dec_pc, pkt_list, get_pc>>
  BY <1>1 DEF StopQueue, SetStop
<1>2. ASSUME NEW k \in Queue, NEW from, NEW to, NotifyQueue(k, from, to)
      PROVE  UNCHANGED <<stop_request, dec_ctx, read_pc, dec_pc, pkt_list>> /\ Notify(k)
  BY <1>2 DEF NotifyQueue, NotifyStop
<1>3. ASSUME NEW k \in Queue, NEW from, NEW to, JoinDecoder(k, from, to) \/ JoinReader
      PROVE  UNCHANGED <<stop_request, dec_ctx, read_pc, dec_pc, pkt_list, get_pc>>
  BY <1>3 DEF JoinDecoder, Ended, JoinReader, qvars
<1>4. /\ UNCHANGED <<stop_request, dec_ctx, read_pc, dec_pc, pkt_list>>
      /\ UNCHANGED get_pc \/ \E k \in Queue : Notify(k)
      /\ \/ ctl_pc = "stop_video" /\ ctl_pc' = "notify_video"
         \/ ctl_pc = "notify_video" /\ ctl_pc' = "stop_audio"
         \/ ctl_pc = "stop_audio" /\ ctl_pc' = "notify_audio"
         \/ ctl_pc = "notify_audio" /\ ctl_pc' = "join_audio"
         \/ ctl_pc = "join_audio" /\ ctl_pc' = "join_video"
         \/ ctl_pc = "join_video" /\ ctl_pc' = "join_read"
         \/ ctl_pc = "join_read" /\ ctl_pc' = "free"
  BY <1>1, <1>2, <1>3 DEF Draining, StopUnderWay, Control, StopPlay, StartReader, StartDecoder, StopQueue,
     NotifyQueue, JoinDecoder, Ended, JoinReader, FreeAll, DestroyQueue, CtlGo
<1>5. Draining' \/ Over'
  BY <1>4 DEF Draining, StopUnderWay, Over, Past
<1>6. ReaderLeft' = ReaderLeft /\ ControlLeft' = ControlLeft - 1
  BY <1>4 DEF ReaderLeft, ControlLeft
<1>7. \/ \A j \in Queue : DecoderLeft(j)' = DecoderLeft(j)
      \/ \E k \in Queue : \A j \in Queue :
             IF j = k THEN DecoderLeft(j)' <= DecoderLeft(j) + 2
                      ELSE DecoderLeft(j)' = DecoderLeft(j)
  <2>1. CASE UNCHANGED get_pc
    BY <1>4, <2>1 DEF DecoderLeft, GetLeft
  <2>2. ASSUME NEW k \in Queue, Notify(k)
        PROVE  \A j \in Queue : IF j = k THEN DecoderLeft(j)' <= DecoderLeft(j) + 2
                                         ELSE DecoderLeft(j)' = DecoderLeft(j)
    BY <1>0, <1>4, <2>2, NotifyLeft
  <2> QED
    BY <1>4, <2>1, <2>2
<1>8. /\ DecoderLeft("video") \in 0 .. 8 /\ DecoderLeft("video")' \in 0 .. 8
      /\ DecoderLeft("audio") \in 0 .. 8 /\ DecoderLeft("audio")' \in 0 .. 8
  BY LeftFacts DEF DecoderLeft, GetLeft
<1> QED
  BY <1>5, <1>6, <1>7, <1>8, LeftFacts DEF Left

(* Every step on the way: only a spurious wake-up, of a consumer the reader *)
(* has not yet put the empty packet for, makes the way no shorter.          *)
LEMMA DrainStep ==
    ASSUME Inv, ~MayRunOut, Draining, [Next]_vars
    PROVE  /\ Draining' \/ Over'
           /\ \/ UNCHANGED vars
              \/ Left' < Left
              \/ \E k \in Queue : ~Past(k) /\ DecSpuriousWake(k)
<1> USE PlayerAssumption
<1>0. QTypeOK /\ PTypeOK
  BY DEF Inv, TypeOK
<1>1. CASE UNCHANGED vars \/ Terminated
  <2>1. UNCHANGED vars
    BY <1>1 DEF Terminated
  <2> QED
    BY <2>1 DEF vars, qvars, pvars, Draining, StopUnderWay, Past
<1>2. ASSUME NEW k \in Queue, DecSpuriousWake(k)
      PROVE  Draining' /\ ~Past(k)
  <2>1. dec_pc[k] = "get" /\ get_pc[k] = "wait"
    BY <1>2 DEF DecSpuriousWake, DecGo, SpuriousWake, GoTo
  <2>2. pkt_list[k] = <<>>
    BY <2>1 DEF Inv, QInv, NoSleepOnPackets
  <2>3. ~Past(k)
    BY <2>1, <2>2 DEF Draining, StopUnderWay
  <2>4. UNCHANGED <<stop_request, ctl_pc, dec_ctx, read_pc, dec_pc, pkt_list>>
    BY <1>0, <1>2 DEF PTypeOK, DecSpuriousWake, DecGo, SpuriousWake
  <2> QED
    BY <2>3, <2>4 DEF Draining, StopUnderWay, Past
<1> QED
  BY <1>1, <1>2, DrainReader, DrainDecoder, DrainControl DEF Next

(* Which of stop()'s two statements have run for which queue.               *)
Signalled ==
    /\ stopping["video"] = "no" <=>
           ctl_pc \in {"new", "start_audio", "start_video", "playing", "stop_video"}
    /\ stopping["video"] = "set" <=> ctl_pc = "notify_video"
    /\ stopping["audio"] = "no" <=>
           ctl_pc \in {"new", "start_audio", "start_video", "playing", "stop_video",
                       "notify_video", "stop_audio"}
    /\ stopping["audio"] = "set" <=> ctl_pc = "notify_audio"

LEMMA SignalledStep == ASSUME QTypeOK, Signalled, [Next]_vars PROVE Signalled'
<1> USE PlayerAssumption DEF Signalled, qvars
<1>1. CASE UNCHANGED vars \/ Reader
  <2>1. UNCHANGED <<ctl_pc, stopping>>
    BY <1>1 DEF vars, pvars, Reader, OpenInput, OpenFails, NoFormatContext, FindStreamInfo, OpenVideo,
       OpenAudio, OpenCodec, ReportOpenFailure, LoopOn, LoopEnd, ReadPacket, ReadRetry, ReadError,
       PutPacket, FlushVideo, FlushAudio, FlushDecoder, TestReport, ReportReadError, ReaderThrows, ReadGo, PutOn,
       Put, PutGrowFails, Enqueue
  <2> QED
    BY <2>1
<1>2. ASSUME NEW k \in Queue, Decoder(k) \/ DecSpuriousWake(k)
      PROVE  Signalled'
  <2>1. UNCHANGED <<ctl_pc, stopping>>
    BY <1>2 DEF Decoder, DecStop, DecGet, DecWait, DecSpuriousWake, DecGot, DecRefused, Decode, Decoded,
       DecTest, DecReport, DecThrows, DecGo, GetCall, GetCheck, GetBlock, SpuriousWake, GetTake, GetStopped, Unref
  <2> QED
    BY <2>1
<1>3. CASE StopPlay \/ Control
  <2>1. CASE StopQueue("video", "stop_video", "notify_video")
    BY <2>1 DEF QTypeOK, StopQueue, SetStop, CtlGo
  <2>2. CASE StopQueue("audio", "stop_audio", "notify_audio")
    BY <2>2 DEF QTypeOK, StopQueue, SetStop, CtlGo
  <2>3. CASE NotifyQueue("video", "notify_video", "stop_audio")
    BY <2>3 DEF QTypeOK, NotifyQueue, NotifyStop, CtlGo
  <2>4. CASE NotifyQueue("audio", "notify_audio", "join_audio")
    BY <2>4 DEF QTypeOK, NotifyQueue, NotifyStop, CtlGo
  <2>5. ASSUME NEW k \in Queue, NEW from, NEW to,
               \/ StartDecoder(k, from, to) \/ JoinDecoder(k, from, to) \/ DestroyQueue(k, from, to)
        PROVE  ctl_pc = from /\ ctl_pc' = to /\ stopping' = stopping
    BY <2>5 DEF StartDecoder, JoinDecoder, Ended, DestroyQueue, Flush, CtlGo
  <2>6. CASE StopPlay \/ StartReader \/ JoinReader \/ FreeAll
    BY <2>6 DEF StopPlay, StartReader, JoinReader, FreeAll, CtlGo
  <2> QED
    BY <1>3, <2>1, <2>2, <2>3, <2>4, <2>5, <2>6 DEF Control
<1> QED
  BY <1>1, <1>2, <1>3 DEF Next, Terminated

(* The reader's packet has a queue to go to.                                *)
Putting == read_pc = "put" => Route(in_pkt) # {}

LEMMA PuttingStep == ASSUME Putting, [Next]_vars PROVE Putting'
<1> USE DEF Putting
<1>1. CASE UNCHANGED vars
  BY <1>1 DEF vars, pvars, Route
<1>2. CASE Reader
  BY <1>2 DEF Reader, OpenInput, OpenFails, NoFormatContext, FindStreamInfo, OpenVideo,
     OpenAudio, ReportOpenFailure, LoopOn, LoopEnd, ReadPacket, ReadRetry, ReadError, PutPacket,
     FlushVideo, FlushAudio, TestReport, ReportReadError, ReaderThrows, ReadGo, Route
<1>3. ASSUME NEW k \in Queue, Decoder(k) \/ DecSpuriousWake(k)
      PROVE  Putting'
  BY <1>3 DEF Decoder, DecStop, DecGet, DecWait, DecSpuriousWake, DecGot, DecRefused, Decode, Decoded,
     DecTest, DecReport, DecThrows, DecGo, Route
<1>4. CASE StopPlay \/ Control
  BY <1>4 DEF StopPlay, Control, StartReader, StartDecoder, StopQueue, NotifyQueue, JoinDecoder, Ended,
     JoinReader, FreeAll, DestroyQueue, CtlGo, Route
<1> QED
  BY <1>1, <1>2, <1>3, <1>4 DEF Next, Terminated

(* What the next steps of the three kinds of threads need, once a stop was  *)
(* requested: the reader the mutex of the queue it puts to, a decode thread *)
(* not to be asleep, the control thread the end of the thread it joins.     *)
ReaderMoves ==
    /\ read_pc \notin {"unborn", "done", "crash"}
    /\ read_pc = "loop" => stop_request
    /\ read_pc = "put" => \E k \in Route(in_pkt) : ~Locked(k)
    /\ read_pc = "flush_video" => ~Locked("video")
    /\ read_pc = "flush_audio" => ~Locked("audio")
DecoderMoves(k) ==
    \/ dec_pc[k] \in {"top", "decode", "exit", "push"}
    \/ dec_pc[k] = "get" /\ get_pc[k] \in {"call", "take", "block"}
ControlMoves ==
    \/ ctl_pc \in {"stop_video", "stop_audio"}
    \/ ctl_pc = "notify_video" /\ stopping["video"] = "set"
    \/ ctl_pc = "notify_audio" /\ stopping["audio"] = "set"
    \/ ctl_pc = "join_audio" /\ Ended("audio")
    \/ ctl_pc = "join_video" /\ Ended("video")
    \/ ctl_pc = "join_read" /\ read_pc = "done"
SomeoneMoves == ReaderMoves \/ ControlMoves \/ \E k \in Queue : DecoderMoves(k)

(* How a decode thread can sleep through a stop.                            *)
Missed(k) == get_pc[k] = "wait" /\ stopping[k] = "done" /\ pkt_list[k] = <<>>

(* The reader waits only for a mutex whose holder runs, a decode thread     *)
(* only in the wait, and the control thread only for the others.            *)
LEMMA StopMoves ==
    ASSUME Inv, Flagged, Signalled, Putting, StopUnderWay
    PROVE  Crashed \/ SomeoneMoves \/ (read_pc = "done" /\ \E k \in Queue : Missed(k))
<1> USE PlayerAssumption
<1>0. QTypeOK /\ PTypeOK
  BY DEF Inv, TypeOK
<1>1. stop_request /\ read_pc # "unborn" /\ \A k \in Queue : dec_pc[k] # "unborn"
  BY DEF Flagged, StopUnderWay, Inv, Joined
<1>2. CASE read_pc # "done"
  <2>1. ASSUME NEW k \in Queue, Locked(k)
        PROVE  DecoderMoves(k)
    BY <2>1 DEF Locked, DecoderMoves, Inv, Local
  <2>2. Route(in_pkt) \subseteq Queue
    BY DEF Route
  <2> QED
    BY <1>1, <1>2, <2>1, <2>2 DEF SomeoneMoves, ReaderMoves, Putting, Crashed
<1>3. CASE read_pc = "done"
  <2>1. CASE \A k \in Queue : Ended(k)
    <3>1. Ended("video") /\ Ended("audio")
      BY <2>1
    <3> QED
      BY <1>3, <3>1 DEF StopUnderWay, ControlMoves, Signalled, SomeoneMoves
  <2>2. ASSUME NEW k \in Queue, ~Ended(k), dec_pc[k] # "crash", ~DecoderMoves(k)
        PROVE  ControlMoves \/ Missed(k)
    <3>1. dec_pc[k] \in {"top", "get", "decode", "exit", "push"}
      BY <1>0, <1>1, <2>2 DEF PTypeOK, DecPC, Ended
    <3>2. dec_pc[k] = "get" /\ get_pc[k] = "wait"
      BY <1>0, <2>2, <3>1 DEF DecoderMoves, QTypeOK, Inv, Local
    <3>3. pkt_list[k] = <<>>
      BY <3>2 DEF Inv, QInv, NoSleepOnPackets
    <3>4. stopping[k] # "done" => ControlMoves
      BY <1>0 DEF QTypeOK, Signalled, StopUnderWay, ControlMoves
    <3> QED
      BY <3>2, <3>3, <3>4 DEF Missed
  <2> QED
    BY <1>3, <2>1, <2>2 DEF SomeoneMoves, Crashed
<1> QED
  BY <1>2, <1>3

(* On the way of a stop that finds both decoders open nobody sleeps through *)
(* it: the empty packets are there.                                         *)
LEMMA DrainMoves ==
    ASSUME Inv, ~MayRunOut, Fragile = {}, CrashOnlyKnown, Flagged, Signalled, Putting, Draining
    PROVE  ~Crashed /\ SomeoneMoves
<1>1. ~Crashed
  BY DEF CrashOnlyKnown, Draining, Crashed, Inv, Local
<1>2. read_pc = "done" => \A k \in Queue : ~Missed(k)
  BY DEF Draining, StopUnderWay, Past, Missed, Inv, Local
<1> QED
  BY <1>1, <1>2, StopMoves DEF Draining, StopUnderWay

LEMMA InitStop == Init => Flagged /\ Signalled /\ Putting
BY PlayerAssumption DEF Init, QInit, Flagged, Signalled, Putting

(* The three hold from the start on.                                        *)
LEMMA StopInvariants == Spec => [](Flagged /\ Signalled /\ Putting)
<1>1. Inv /\ Flagged /\ Signalled /\ Putting /\ [Next]_vars => (Flagged /\ Signalled /\ Putting)'
  BY FlaggedStep, SignalledStep, PuttingStep DEF Inv, TypeOK
<1> QED
  BY Inductive, InitStop, <1>1, PTL DEF Spec

(* Whatever was opened and whatever fails, a stop that can go no further    *)
(* has crashed, or waits for a decode thread that sleeps on an empty queue  *)
(* after its notification: the lost notification of StopReturns is the only *)
(* way for a stop to hang (packetQueue.cpp:43, 68-71).                      *)
THEOREM StopHangsOnlyAsleep ==
    Spec => [](StopUnderWay =>
                   Crashed \/ SomeoneMoves \/ (read_pc = "done" /\ \E k \in Queue : Missed(k)))
<1>1. Inv /\ Flagged /\ Signalled /\ Putting =>
          (StopUnderWay =>
               Crashed \/ SomeoneMoves \/ (read_pc = "done" /\ \E k \in Queue : Missed(k)))
  BY StopMoves
<1> QED
  BY Inductive, StopInvariants, <1>1, PTL

(* A stop that finds the reader in its loop, with both decoders open, is    *)
(* never stuck if no allocation fails and no frame is fragile: until        *)
(* everything is joined some thread is able to make its next step, although *)
(* stop()'s notifications may be lost and nobody holds a lock for the flag  *)
(* (ffmpegWrapper.cpp:203-207, 229-248).  What LiveStopReturns needs        *)
(* besides is that threads that can run do.                                 *)
THEOREM LiveStopNeverStuck ==
    Spec /\ ~MayRunOut /\ Fragile = {} =>
        [](Caught => [](Over \/ (Draining /\ ~Crashed /\ SomeoneMoves)))
<1>1. Inv /\ Flagged /\ Caught => Draining
  BY DEF Flagged, Caught, Draining, StopUnderWay, Past
<1>2. Inv /\ ~MayRunOut /\ (Over \/ Draining) /\ [Next]_vars => (Over \/ Draining)'
  BY DrainStep, OverStep
<1>3. Inv /\ ~MayRunOut /\ Fragile = {} /\ CrashOnlyKnown /\ Flagged /\ Signalled /\ Putting /\ (Over \/ Draining)
          => Over \/ (Draining /\ ~Crashed /\ SomeoneMoves)
  BY DrainMoves
<1>4. CASE ~(~MayRunOut /\ Fragile = {})
  BY <1>4
<1>5. CASE ~MayRunOut /\ Fragile = {}
  <2>1. Inv /\ (Over \/ Draining) /\ [Next]_vars => (Over \/ Draining)'
    BY <1>2, <1>5
  <2>2. Inv /\ CrashOnlyKnown /\ Flagged /\ Signalled /\ Putting /\ (Over \/ Draining)
            => Over \/ (Draining /\ ~Crashed /\ SomeoneMoves)
    BY <1>3, <1>5
  <2> QED
    BY Inductive, CrashesAreKnown, StopInvariants, <1>1, <2>1, <2>2, PTL DEF Spec
<1> QED
  BY <1>4, <1>5

(* Such a stop gets on: from 49 downwards every step, of whichever thread,  *)
(* leads nearer to the last join.  Only a spurious wake-up leads back, of a *)
(* consumer the reader has not yet put the empty packet for.                *)
THEOREM LiveStopGetsOn ==
    Spec /\ ~MayRunOut =>
        [](Caught => [][\/ Over
                        \/ Left \in 0 .. 49 /\ Left' \in 0 .. 49 /\ Left' < Left
                        \/ \E k \in Queue : ~Past(k) /\ DecSpuriousWake(k)]_vars)
<1> DEFINE Nearer == /\ Left \in 0 .. 49
                     /\ Left' \in 0 .. 49
                     /\ Left' < Left
           Woken == \E k \in Queue : ~Past(k) /\ DecSpuriousWake(k)
<1>1. Inv /\ Flagged /\ Caught => Draining
  BY DEF Flagged, Caught, Draining, StopUnderWay, Past
<1>2. Inv /\ ~MayRunOut /\ (Over \/ Draining) /\ [Next]_vars
          => (Over \/ Draining)' /\ [Over \/ Nearer \/ Woken]_vars
  <2>1. Left \in 0 .. 49 /\ (Left \in 0 .. 49)'
    BY LeftFacts, PTL
  <2> QED
    BY <2>1, DrainStep, OverStep
<1>3. CASE MayRunOut
  BY <1>3
<1>4. CASE ~MayRunOut
  <2>1. Inv /\ (Over \/ Draining) /\ [Next]_vars
            => (Over \/ Draining)' /\ [Over \/ Nearer \/ Woken]_vars
    BY <1>2, <1>4
  <2> QED
    BY Inductive, StopInvariants, <1>1, <2>1, PTL DEF Spec
<1> QED
  BY <1>3, <1>4

----------------------------------------------------------------------------
(* A player as its owner sees it.                                           *)

ReaderBusy == {"open", "probe", "codec_video", "codec_audio", "failed", "read", "put", "push",
               "crash"}
DecoderBusy == {"get", "decode", "push", "crash"}

(* A thread that changes between at work and not begins or ends a pass.     *)
LEMMA OnePass ==
    ASSUME NEW t \in Queue \cup {"reader"}, LifeOf' = LifeOf,
           \A u \in Queue \cup {"reader"} : u # t => (u \in AtWork' <=> u \in AtWork),
           t \in AtWork' /\ t \notin AtWork => LifeOf = "running"
    PROVE  [Life!LNext]_(Life!lvars)
<1>1. /\ \A u \in AtWork : u \in Queue \cup {"reader"}
      /\ \A u \in AtWork' : u \in Queue \cup {"reader"}
  BY DEF AtWork
<1> HIDE DEF AtWork, LifeOf
<1>2. CASE t \in AtWork' <=> t \in AtWork
  <2>1. AtWork' = AtWork
    BY <1>1, <1>2
  <2> QED
    BY <2>1 DEF Life!lvars
<1>3. CASE t \in AtWork' /\ t \notin AtWork
  <2>1. AtWork' = AtWork \cup {t}
    BY <1>1, <1>3
  <2>2. Life!Begin(t)
    BY <1>3, <2>1 DEF Life!Begin
  <2> QED
    BY <2>2 DEF Life!LNext
<1>4. CASE t \notin AtWork' /\ t \in AtWork
  <2>1. AtWork' = AtWork \ {t}
    BY <1>1, <1>4
  <2>2. Life!End(t)
    BY <1>4, <2>1 DEF Life!End
  <2> QED
    BY <2>2 DEF Life!LNext
<1> QED
  BY <1>2, <1>3, <1>4

(* Each step of a session is one of a PlayerLife, or shows nothing: stopPlay*)
(* and the last join, and passes begun only where stop_request_ was tested. *)
LEMMA LifeStep ==
    ASSUME Inv, Flagged, [Next]_vars
    PROVE  [Life!LNext]_(Life!lvars)
<1> USE PlayerAssumption
<1>0. QTypeOK /\ PTypeOK
  BY DEF Inv, TypeOK
<1>1. /\ "reader" \notin Queue
      /\ "reader" \in AtWork <=> read_pc \in ReaderBusy
      /\ "reader" \in AtWork' <=> read_pc' \in ReaderBusy
      /\ \A k \in Queue : /\ k \in AtWork <=> dec_pc[k] \in DecoderBusy
                          /\ k \in AtWork' <=> dec_pc'[k] \in DecoderBusy
  BY DEF AtWork, ReaderBusy, DecoderBusy
<1>2. LifeOf = "running" <=> ctl_pc # "new" /\ ~stop_request
  BY <1>0 DEF Flagged, LifeOf, PTypeOK, CtlPC
<1>3. CASE UNCHANGED vars \/ Terminated
  BY <1>3 DEF Terminated, vars, pvars, Life!lvars, LifeOf, AtWork
<1>4. CASE Reader
  <2>1. UNCHANGED <<ctl_pc, dec_pc>>
    BY <1>4 DEF Reader, OpenInput, OpenFails, NoFormatContext, FindStreamInfo, OpenVideo,
       OpenAudio, ReportOpenFailure, LoopOn, LoopEnd, ReadPacket, ReadRetry, ReadError, PutPacket,
       FlushVideo, FlushAudio, TestReport, ReportReadError, ReaderThrows, ReadGo
  <2>2. read_pc' \in ReaderBusy /\ read_pc \notin ReaderBusy =>
            ~stop_request /\ read_pc # "unborn"
    BY <1>4 DEF Reader, OpenInput, OpenFails, NoFormatContext, FindStreamInfo, OpenVideo,
       OpenAudio, ReportOpenFailure, LoopOn, LoopEnd, ReadPacket, ReadRetry, ReadError, PutPacket,
       FlushVideo, FlushAudio, TestReport, ReportReadError, ReaderThrows, ReadGo, ReaderBusy
  <2>3. read_pc # "unborn" => ctl_pc # "new"
    BY DEF Inv, Joined
  <2>4. LifeOf' = LifeOf
    BY <2>1 DEF LifeOf
  <2> QED
    BY <1>1, <1>2, <2>1, <2>2, <2>3, <2>4, OnePass
<1>5. ASSUME NEW k \in Queue, Decoder(k) \/ DecSpuriousWake(k)
      PROVE  [Life!LNext]_(Life!lvars)
  <2>1. UNCHANGED <<ctl_pc, read_pc>>
    BY <1>5 DEF Decoder, DecStop, DecGet, DecWait, DecSpuriousWake, DecGot, DecRefused, Decode, Decoded,
       DecTest, DecReport, DecThrows, DecGo
  <2>2. \A j \in Queue : j # k => dec_pc'[j] = dec_pc[j]
    BY <1>0, <1>5 DEF PTypeOK, Decoder, DecStop, DecGet, DecWait, DecSpuriousWake, DecGot,
       DecRefused, Decode, Decoded, DecTest, DecReport, DecThrows, DecGo
  <2>3. CASE DecGet(k) \/ DecTest(k)
    <3>1. dec_pc[k] # "unborn" /\ (dec_pc'[k] \in DecoderBusy => ~stop_request)
      BY <1>0, <2>3 DEF PTypeOK, DecGet, DecTest, DecGo, DecoderBusy
    <3> QED
      BY <1>1, <1>2, <2>1, <2>2, <3>1, OnePass DEF Inv, Joined, LifeOf
  <2>4. CASE ~(DecGet(k) \/ DecTest(k))
    <3>1. dec_pc'[k] \in DecoderBusy => dec_pc[k] \in DecoderBusy
      BY <1>0, <1>5, <2>4 DEF PTypeOK, Decoder, DecStop, DecWait, DecSpuriousWake, DecGot,
         DecRefused, Decode, Decoded, DecReport, DecThrows, DecGo, DecoderBusy
    <3> QED
      BY <1>1, <2>1, <2>2, <3>1, OnePass DEF LifeOf
  <2> QED
    BY <2>3, <2>4
<1>6. CASE StartReader
  <2>1. LifeOf = "none" /\ LifeOf' = "running"
    BY <1>6 DEF StartReader, CtlGo, LifeOf
  <2>2. AtWork' \in SUBSET (Queue \cup {"reader"})
    BY DEF AtWork
  <2>3. Life!Start
    BY <2>1, <2>2 DEF Life!Start
  <2> QED
    BY <2>3 DEF Life!LNext
<1>7. ASSUME NEW k \in Queue, NEW from, NEW to, StartDecoder(k, from, to), LifeOf' = LifeOf,
             dec_pc[k] = "unborn"
      PROVE  [Life!LNext]_(Life!lvars)
  <2>1. UNCHANGED read_pc /\ \A j \in Queue : j # k => dec_pc'[j] = dec_pc[j]
    BY <1>0, <1>7 DEF PTypeOK, StartDecoder
  <2>2. dec_pc'[k] \notin DecoderBusy
    BY <1>0, <1>7 DEF PTypeOK, StartDecoder, DecoderBusy
  <2> QED
    BY <1>1, <1>7, <2>1, <2>2, OnePass
<1>8. CASE StopPlay
  <2>1. LifeOf = "running" /\ LifeOf' = "stopping"
    BY <1>8 DEF StopPlay, CtlGo, LifeOf
  <2>2. AtWork' = AtWork
    BY <1>8 DEF StopPlay, AtWork
  <2>3. Life!Stop
    BY <2>1, <2>2 DEF Life!Stop
  <2> QED
    BY <2>3 DEF Life!LNext
<1>9. CASE JoinReader
  <2>1. LifeOf = "stopping" /\ LifeOf' = "joined"
    BY <1>9 DEF JoinReader, CtlGo, LifeOf
  <2>2. AtWork = {} /\ AtWork' = AtWork
    BY <1>9 DEF JoinReader, CtlGo, AtWork, Inv, Joined, Ended
  <2>3. Life!Join
    BY <2>1, <2>2 DEF Life!Join
  <2> QED
    BY <2>3 DEF Life!LNext
<1>10. ASSUME UNCHANGED <<read_pc, dec_pc>>, LifeOf' = LifeOf
       PROVE  [Life!LNext]_(Life!lvars)
  BY <1>10 DEF AtWork, Life!lvars
<1>11. CASE Control
  <2>1. CASE StartDecoder("audio", "start_audio", "start_video")
    BY <1>7, <2>1 DEF StartDecoder, CtlGo, LifeOf, Inv, Joined
  <2>2. CASE StartDecoder("video", "start_video", "playing")
    BY <1>7, <2>2 DEF StartDecoder, CtlGo, LifeOf, Inv, Joined
  <2>3. CASE \/ StopQueue("video", "stop_video", "notify_video")
             \/ NotifyQueue("video", "notify_video", "stop_audio")
             \/ StopQueue("audio", "stop_audio", "notify_audio")
             \/ NotifyQueue("audio", "notify_audio", "join_audio")
             \/ JoinDecoder("audio", "join_audio", "join_video")
             \/ JoinDecoder("video", "join_video", "join_read")
             \/ FreeAll
             \/ DestroyQueue("video", "stopped", "freed_video")
             \/ DestroyQueue("audio", "freed_video", "gone")
    BY <1>10, <2>3 DEF StopQueue, NotifyQueue, JoinDecoder, Ended, FreeAll, DestroyQueue, CtlGo, LifeOf
  <2> QED
    BY <1>6, <1>9, <1>11, <2>1, <2>2, <2>3 DEF Control
<1> QED
  BY <1>3, <1>4, <1>5, <1>8, <1>11 DEF Next

(* FfmpegWrapper keeps the promise the server relies on: no pass of a loop, *)
(* no callback begins after stopPlay() has set its flag, and once the       *)
(* threads are joined nobody is at work (ffmpegWrapper.cpp:220-248).        *)
THEOREM PlayerKeepsPromise == Spec => ImplementsLife
<1>1. Init => Life!LInit
  BY DEF Init, Life!LInit, LifeOf, AtWork
<1>2. Inv /\ Flagged /\ [Next]_vars => [Life!LNext]_(Life!lvars)
  BY LifeStep
<1> QED
  BY Inductive, StopInvariants, <1>1, <1>2, PTL DEF Spec, ImplementsLife, Life!LSpec
=============================================================================
