---------------------------- MODULE SnifferProofs ----------------------------
(***************************************************************************)
(* Proofs, for every number of devices, queue limit and setting, that the  *)
(* capture session of Sniffer.tla keeps its types, loses no packet in      *)
(* silence, drains its queue, and indexes its vectors within their bounds  *)
(* when the ready devices are the first ones; and about what it wrote:     *)
(* every record is in the file and the pipe of its device, the captured    *)
(* packets in them are those the queue did not evict, in order, and the    *)
(* saved key packets reach every pipe before any captured packet.          *)
(***************************************************************************)
EXTENDS Sniffer, SelectionProofs

Started == omPc # "none"
Looping == omPc \in {"simulate", "testRunning", "testEmpty", "peek", "take"}
Left == omPc \in {"close", "stopPipes", "joinPipes", "done"}

\* The main thread and the output thread: who has started and stopped whom.
ThreadsInv ==
  /\ ~Started => /\ mainPc \in {"connect", "init", "streamAll", "return"}
                 /\ \A d \in Devices : devPc[d] = "none"
                 /\ queue = <<>> /\ ~fault
  /\ Started => mainPc \in {"joinStreams", "clear", "joinOutput", "return"}
  /\ Started /\ mainPc # "joinStreams" => StreamsOver
  /\ Started /\ omPc # "spawned" /\ ~isRunning => mainPc \in {"joinOutput", "return"}
  /\ omPc = "testEmpty" => ~isRunning
  /\ mainPc \in {"connect", "init"} => ~canRun /\ pipes = <<>> /\ logFiles = <<>>

\* Only ready devices have threads that do anything, hence packets.
ReadyInv ==
  /\ \A d \in Devices : devPc[d] # "none" => d \in ready
  /\ \A i \in DOMAIN queue : queue[i].id \in ready
  /\ Started => ready # {}

\* What configure leaves, as long as the files are not opened again.
FilesInv ==
  canRun /\ ~log.reset =>
    /\ log.file = "single" => Len(logFiles) = 1
    /\ log.file = "split" => Len(logFiles) = Cardinality(ready)
PipesInv ==
  /\ ~canRun => pipes = <<>>
  /\ pipes # <<>> => log.pipe # "off"
  /\ canRun /\ log.pipe = "single" => Len(pipes) = 1
  /\ canRun /\ log.pipe = "split" => Len(pipes) = Cardinality(ready)
LoopInv == omPc \in {"peek", "take"} => canRun

ControlInv == ThreadsInv /\ TakeFindsPacket /\ LoopInv /\ Drained
OutputsInv == ReadyInv /\ FilesInv /\ PipesInv /\ IndexInBounds

IInv == TypeOK /\ Accounting /\ ControlInv /\ OutputsInv

\* Without a duration, a thread that has left its loop has seen interruption.
SignalInv ==
  ~timed /\ ~interruption =>
    \A d \in Devices :
      /\ devPc[d] \notin {"leaving", "stopping", "done"}
      /\ Streaming(d) => sigint = "handler"

----------------------------------------------------------------------------
\* Types

\* There are finitely many devices.
LEMMA DevicesFinite == IsFiniteSet(Devices) /\ Cardinality(Devices) = NumDevices
  BY NumDevicesAssumption, FS_Interval DEF Devices

\* The listing of a set of devices is a sequence of them.
LEMMA ListingType ==
  ASSUME NEW set \in SUBSET Devices, NEW s \in Listings(set)
  PROVE  /\ s \in Seq(Devices)
         /\ Len(s) = Cardinality(set)
         /\ Cardinality(set) \in Nat
<1>1. Cardinality(set) \in Nat
  BY DevicesFinite, FS_Subset, FS_CardinalityType
<1>2. s \in [1 .. Cardinality(set) -> Devices]
  BY DEF Listings
<1>. QED  BY <1>1, <1>2

\* Files and pipes opened for devices are owned by them.
LEMMA OpenedTypes ==
  ASSUME TypeOK, NEW s \in Seq(Devices), NEW when \in 0 .. MaxPeriods
  PROVE  FilesFor(s, when) \in Seq(LogFiles) /\ PipesFor(s) \in Seq(Handlers)
<1>1. Len(s) \in Nat /\ \A i \in 1 .. Len(s) : s[i] \in Devices
  OBVIOUS
<1>2. FilesFor(s, when) \in Seq(LogFiles)
  <2>1. [i \in 1 .. Len(s) |-> [owner |-> s[i], period |-> when]] \in Seq(LogFiles)
    BY <1>1 DEF LogFiles, Owners
  <2>2. [owner |-> Shared, period |-> when] \in LogFiles
    BY DEF LogFiles, Owners
  <2>3. << [owner |-> Shared, period |-> when] >> \in Seq(LogFiles)
    BY <2>2
  <2>. QED  BY <2>1, <2>3 DEF FilesFor
<1>3. ASSUME NEW owners \in Seq(Owners)
      PROVE  [i \in 1 .. Len(owners) |-> [owner |-> owners[i], thread |-> "spawned"]]
               \in Seq(Handlers)
  <2>1. Len(owners) \in Nat /\ \A i \in 1 .. Len(owners) : owners[i] \in Owners
    OBVIOUS
  <2>. QED  BY <2>1 DEF Handlers
<1>4. log.pipe \in Modes
  BY DEF TypeOK, OMTypeOK, Settings
<1>5. << >> \in Seq(Owners) /\ << Shared >> \in Seq(Owners)
  BY DEF Owners
<1>6. s \in Seq(Owners)
  BY SeqMonotonic DEF Owners
<1>7. PipesFor(s) \in Seq(Handlers)
  BY <1>3, <1>4, <1>5, <1>6 DEF PipesFor, Modes
<1>. QED  BY <1>2, <1>7

\* A prefix of a sequence is a sequence.
LEMMA PrefixType ==
  ASSUME NEW S, NEW s \in Seq(S), NEW n \in 0 .. Len(s)
  PROVE  /\ SubSeq(s, 1, n) \in Seq(S)
         /\ Len(SubSeq(s, 1, n)) = n
  OBVIOUS

\* Types hold before main connects.
LEMMA TypeInit == Init => TypeOK
<1>. SUFFICES ASSUME Init PROVE TypeOK
  OBVIOUS
<1>1. log \in Settings /\ disk \in Seq(Packets) /\ timed \in BOOLEAN
  BY SettingsAssumption, SavedAssumption, TimedAssumption DEF Init, OMInit
<1>2. \A S : << >> \in Seq(S)
  OBVIOUS
<1>3. Len(queue) <= QueueMax /\ period \in 0 .. MaxPeriods
  BY QueueMaxAssumption, BoundsAssumption DEF Init, OMInit
<1>4. OMTypeOK
  BY <1>1, <1>2, <1>3, Zenon DEF Init, OMInit, OMTypeOK
<1>. QED  BY <1>1, <1>4 DEF Init, TypeOK

\* One call of handle_packet keeps the types of what it touches.
LEMMA HandlePacketTypes ==
  ASSUME TypeOK, NEW p \in Packets, NEW transportKey \in BOOLEAN,
         HandlePacket(p, transportKey), proc = "running"
  PROVE  /\ logFiles' \in Seq(LogFiles)
         /\ period' \in 0 .. MaxPeriods
         /\ pipes' \in Seq(Handlers)
         /\ timeBase' \in Packets \cup {NoPacket}
         /\ keys' \subseteq Keys
         /\ keyPackets' \in Seq(Packets)
         /\ fileLog' \in Seq(FileRecords)
         /\ pipeLog' \in Seq(PipeRecords)
         /\ fault' \in BOOLEAN
         /\ proc' \in {"running", "crashed"}
<1>1. period' \in 0 .. MaxPeriods /\ logFiles' \in Seq(LogFiles)
  <2>1. CASE UNCHANGED <<logFiles, period>>
    BY <2>1 DEF TypeOK, OMTypeOK
  <2>2. CASE /\ period < MaxPeriods
             /\ period' = period + 1
             /\ \E n \in 0 .. Len(FilesFor(AllDevices, period + 1)) :
                  logFiles' = SubSeq(FilesFor(AllDevices, period + 1), 1, n)
    <3>1. period + 1 \in 0 .. MaxPeriods
      BY <2>2, BoundsAssumption DEF TypeOK, OMTypeOK
    <3>2. AllDevices \in Seq(Devices)
      BY NumDevicesAssumption DEF AllDevices, Devices
    <3>3. FilesFor(AllDevices, period + 1) \in Seq(LogFiles)
      BY <3>1, <3>2, OpenedTypes
    <3>. QED  BY <2>2, <3>1, <3>3, PrefixType
  <2>. QED  BY <2>1, <2>2 DEF HandlePacket, RecreateLogFiles
<1>2. PICK found \in BOOLEAN : ExtractKey(p, found) /\ HandOver(p, transportKey \/ found)
  BY DEF HandlePacket
<1>3. keys' \subseteq Keys /\ keyPackets' \in Seq(Packets)
  BY <1>2 DEF ExtractKey, TypeOK, OMTypeOK
<1>4. fileLog' \in Seq(FileRecords)
  <2>. DEFINE i == Slot(log.file, p)
              record == [to |-> logFiles'[i], packet |-> p, now |-> period']
  <2>1. CASE fileLog' = fileLog
    BY <2>1 DEF TypeOK, OMTypeOK
  <2>2. CASE i \in DOMAIN logFiles' /\ fileLog' = Append(fileLog, record)
    <3>1. logFiles'[i] \in LogFiles
      BY <1>1, <2>2
    <3>2. record \in FileRecords
      BY <1>1, <3>1 DEF FileRecords
    <3>. HIDE DEF record
    <3>. QED  BY <2>2, <3>2 DEF TypeOK, OMTypeOK
  <2>. QED  BY <2>1, <2>2 DEF HandlePacket, WriteRecord
<1>5. pipeLog' \in Seq(PipeRecords)
  <2>. DEFINE i == Slot(log.pipe, p)
              record == [to |-> pipes[i].owner, packet |-> p,
                         key |-> transportKey \/ found]
  <2>1. CASE pipeLog' = pipeLog
    BY <2>1 DEF TypeOK, OMTypeOK
  <2>2. CASE i \in DOMAIN pipes /\ pipeLog' = Append(pipeLog, record)
    <3>1. pipes[i] \in Handlers
      BY <2>2 DEF TypeOK, OMTypeOK
    <3>2. transportKey \/ found \in BOOLEAN
      OBVIOUS
    <3>3. record \in PipeRecords
      BY <3>1, <3>2 DEF PipeRecords, Handlers
    <3>. HIDE DEF record
    <3>. QED  BY <2>2, <3>3 DEF TypeOK, OMTypeOK
  <2>. QED  BY <1>2, <2>1, <2>2 DEF HandOver
<1>6. /\ pipes' \in Seq(Handlers)
      /\ timeBase' \in Packets \cup {NoPacket}
      /\ fault' \in BOOLEAN
      /\ proc' \in {"running", "crashed"}
  BY DEF HandlePacket, TypeOK, OMTypeOK
<1>. QED  BY <1>1, <1>3, <1>4, <1>5, <1>6

\* Moving the head of a sequence to the end of the one before it.
LEMMA MoveHead ==
  ASSUME NEW S, NEW s \in Seq(S), NEW t \in Seq(S), t # << >>
  PROVE  Append(s, Head(t)) \o Tail(t) = s \o t
<1>1. /\ Append(s, Head(t)) \in Seq(S) /\ Tail(t) \in Seq(S)
      /\ Len(Append(s, Head(t))) = Len(s) + 1 /\ Len(Tail(t)) = Len(t) - 1
      /\ Len(s) \in Nat /\ Len(t) \in Nat \ {0}
  BY EmptySeq
<1>2. Append(s, Head(t)) \o Tail(t) \in Seq(S) /\ s \o t \in Seq(S)
  BY <1>1, ConcatProperties
<1>3. Len(Append(s, Head(t)) \o Tail(t)) = Len(s \o t)
  BY <1>1, ConcatProperties
<1>4. ASSUME NEW i \in 1 .. Len(s) + Len(t)
      PROVE  (Append(s, Head(t)) \o Tail(t))[i] = (s \o t)[i]
  <2>. DEFINE sh == Append(s, Head(t))
  <2>0. /\ \A j \in 1 .. Len(s) : sh[j] = s[j]
        /\ sh[Len(s) + 1] = t[1]
        /\ \A j \in 1 .. Len(t) - 1 : Tail(t)[j] = t[j + 1]
    BY <1>1, HeadTailProperties
  <2>4. /\ (sh \o Tail(t))[i] = IF i <= Len(s) + 1 THEN sh[i] ELSE Tail(t)[i - (Len(s) + 1)]
        /\ (s \o t)[i] = IF i <= Len(s) THEN s[i] ELSE t[i - Len(s)]
    BY <1>1, ConcatProperties
  <2>. HIDE DEF sh
  <2>1. CASE i <= Len(s)
    BY <1>1, <2>0, <2>1, <2>4
  <2>2. CASE i = Len(s) + 1
    BY <1>1, <2>0, <2>2, <2>4
  <2>3. CASE i > Len(s) + 1
    BY <1>1, <2>0, <2>3, <2>4
  <2>. QED  BY <1>1, <2>1, <2>2, <2>3 DEF sh
<1>5. Len(s \o t) = Len(s) + Len(t)
  BY ConcatProperties
<1>. QED  BY <1>2, <1>3, <1>4, <1>5, SeqEqual

\* Appending to the second of two sequences appends to both joined.
LEMMA AppendToConcat ==
  ASSUME NEW S, NEW s \in Seq(S), NEW t \in Seq(S), NEW e \in S
  PROVE  s \o Append(t, e) = Append(s \o t, e)
<1>1. << e >> \in Seq(S) /\ s \o t \in Seq(S)
  BY ConcatProperties
<1>. QED  BY <1>1, AppendIsConcat, ConcatAssociative

\* add_packet, with and without an eviction: the queue keeps its limit, ends
\* with the new packet and holds otherwise packets it held before; the books
\* stay balanced.
LEMMA AddPacketFacts ==
  ASSUME TypeOK, NEW p \in Packets, AddPacket(p)
  PROVE  /\ queue' \in Seq(Packets) /\ Len(queue') <= QueueMax /\ queue' # << >>
         /\ accepted' \in Seq(Packets) /\ departed' \in Seq(Packets)
         /\ evicted' \subseteq Packets
         /\ \A i \in DOMAIN queue' : queue'[i] = p \/ \E j \in DOMAIN queue : queue'[i] = queue[j]
         /\ Accounting => Accounting'
<1>1. /\ queue \in Seq(Packets) /\ Len(queue) <= QueueMax
      /\ accepted \in Seq(Packets) /\ departed \in Seq(Packets)
      /\ evicted \subseteq Packets /\ QueueMax \in Nat \ {0}
  BY QueueMaxAssumption DEF TypeOK, OMTypeOK
<1>2. accepted' \in Seq(Packets)
  BY <1>1 DEF AddPacket
<1>3. CASE ~Full
  <2>1. queue' = Append(queue, p) /\ departed' = departed /\ evicted' = evicted
    BY <1>3 DEF AddPacket, Push
  <2>2. Len(queue') <= QueueMax /\ queue' # << >>
    <3>1. Len(queue) \in Nat /\ Len(queue') = Len(queue) + 1
      BY <1>1, <2>1
    <3>2. Len(queue') # 0
      BY <3>1
    <3>. QED  BY <1>1, <1>3, <3>1, <3>2, EmptySeq DEF Full
  <2>3. Accounting => Accounting'
    <3>1. departed \o Append(queue, p) = Append(departed \o queue, p)
      BY <1>1, AppendToConcat
    <3>2. accepted' = Append(accepted, p)
      BY DEF AddPacket
    <3>. QED  BY <2>1, <3>1, <3>2, Zenon DEF Accounting
  <2>. QED  BY <1>1, <1>2, <2>1, <2>2, <2>3
<1>4. CASE Full
  <2>1. /\ queue' = Append(Tail(queue), p)
        /\ departed' = Append(departed, Head(queue))
        /\ evicted' = evicted \cup {Head(queue)}
    BY <1>4 DEF AddPacket, Push
  <2>2. queue # << >>
    BY <1>1, <1>4 DEF Full
  <2>3. /\ Head(queue) \in Packets /\ Tail(queue) \in Seq(Packets)
        /\ Len(Tail(queue)) = Len(queue) - 1
        /\ \A i \in 1 .. Len(Tail(queue)) : Tail(queue)[i] = queue[i + 1]
    BY <1>1, <2>2, HeadTailProperties
  <2>4. /\ queue' \in Seq(Packets) /\ Len(queue') <= QueueMax /\ queue' # << >>
        /\ departed' \in Seq(Packets) /\ evicted' \subseteq Packets
    BY <1>1, <2>1, <2>3
  <2>5. \A i \in DOMAIN queue' : queue'[i] = p \/ \E j \in DOMAIN queue : queue'[i] = queue[j]
    BY <1>1, <2>1, <2>3
  <2>6. Accounting => Accounting'
    <3>1. departed' \o queue' = Append(departed' \o Tail(queue), p)
      BY <2>1, <2>3, <2>4, AppendToConcat
    <3>2. departed' \o Tail(queue) = departed \o queue
      BY <1>1, <2>1, <2>2, MoveHead
    <3>. QED  BY <3>1, <3>2 DEF Accounting, AddPacket
  <2>. QED  BY <1>2, <2>4, <2>5, <2>6
<1>. QED  BY <1>3, <1>4

\* The quotient and the remainder that OMSimulate takes of its step.
LEMMA Quotient ==
  ASSUME NEW a \in Nat, NEW m \in Nat, NEW n \in Nat, a < m * n
  PROVE  /\ n > 0 /\ a % n \in 0 .. n - 1
         /\ a \div n \in 0 .. m - 1
<1>1. n > 0
  BY SMT
<1>2. a % n \in 0 .. n - 1 /\ a \div n \in Int /\ a \div n >= 0
  BY <1>1, SMT
<1>3. a \div n < m
  BY <1>1, SMT
<1>. QED  BY <1>1, <1>2, <1>3, SMT

\* There are no more pipe handlers than devices, and a packet that OMSimulate
\* makes of a saved one is a packet.
LEMMA SimulatedPacket ==
  ASSUME TypeOK, PipesInv, simStep < Len(disk) * Len(pipes)
  PROVE  /\ canRun /\ log.pipe # "off"
         /\ simStep % Len(pipes) \in 0 .. Len(pipes) - 1
         /\ simStep % Len(pipes) \in Devices
         /\ [disk[simStep \div Len(pipes) + 1]
              EXCEPT !.id = simStep % Len(pipes), !.n = 0] \in Packets
<1>1. simStep \in Nat /\ Len(disk) \in Nat /\ Len(pipes) \in Nat
  BY DEF TypeOK, OMTypeOK
<1>2. /\ Len(pipes) > 0
      /\ simStep % Len(pipes) \in 0 .. Len(pipes) - 1
      /\ simStep \div Len(pipes) \in 0 .. Len(disk) - 1
  BY <1>1, Quotient
<1>3. pipes # << >>
  BY <1>1, <1>2
<1>4. canRun /\ log.pipe # "off"
  BY <1>3 DEF PipesInv
<1>5. Len(pipes) <= NumDevices
  <2>1. Cardinality(ready) <= NumDevices
    BY DevicesFinite, FS_Subset DEF TypeOK
  <2>2. log.pipe \in {"single", "split"}
    BY <1>4 DEF TypeOK, OMTypeOK, Settings, Modes
  <2>3. Len(pipes) = 1 \/ Len(pipes) = Cardinality(ready)
    BY <1>4, <2>2 DEF PipesInv
  <2>4. 1 <= NumDevices
    BY NumDevicesAssumption
  <2>. QED  BY <2>1, <2>3, <2>4
<1>6. simStep % Len(pipes) \in Devices
  BY <1>1, <1>2, <1>5, NumDevicesAssumption DEF Devices
<1>7. disk[simStep \div Len(pipes) + 1] \in Packets
  <2>1. simStep \div Len(pipes) + 1 \in 1 .. Len(disk)
    BY <1>1, <1>2
  <2>. QED  BY <2>1 DEF TypeOK, OMTypeOK
<1>8. 0 \in 0 .. MaxPackets
  BY BoundsAssumption
<1>. QED  BY <1>2, <1>4, <1>6, <1>7, <1>8 DEF Packets

\* Every step of the output thread keeps the types.
LEMMA TypeOutput ==
  ASSUME TypeOK, PipesInv, proc = "running", Output
  PROVE  TypeOK'
<1>. USE DEF sessionVars
<1>1. CASE OMBegin
  BY <1>1 DEF OMBegin, Output, TypeOK, OMTypeOK, queueVars, outputVars
<1>2. CASE OMSimulate
  <2>. DEFINE saved == disk[simStep \div Len(pipes) + 1]
              p == [saved EXCEPT !.id = simStep % Len(pipes), !.n = 0]
  <2>1. HandlePacket(p, TRUE)
    BY <1>2 DEF OMSimulate
  <2>2. p \in Packets
    BY <1>2, SimulatedPacket DEF OMSimulate
  <2>3. /\ logFiles' \in Seq(LogFiles)
        /\ period' \in 0 .. MaxPeriods
        /\ pipes' \in Seq(Handlers)
        /\ timeBase' \in Packets \cup {NoPacket}
        /\ keys' \subseteq Keys
        /\ keyPackets' \in Seq(Packets)
        /\ fileLog' \in Seq(FileRecords)
        /\ pipeLog' \in Seq(PipeRecords)
        /\ fault' \in BOOLEAN
        /\ proc' \in {"running", "crashed"}
    BY <2>1, <2>2, HandlePacketTypes
  <2>4. simStep' = simStep + 1 /\ UNCHANGED sessionVars
        /\ UNCHANGED <<log, isRunning, canRun, disk, omPc, queueVars>>
    BY <1>2 DEF OMSimulate, Output
  <2>5. simStep' \in Nat
    BY <2>4 DEF TypeOK, OMTypeOK
  <2>. HIDE DEF p
  <2>. QED  BY <2>3, <2>4, <2>5 DEF TypeOK, OMTypeOK, queueVars
<1>3. CASE OMSimulated
  BY <1>3 DEF OMSimulated, Output, TypeOK, OMTypeOK, queueVars, outputVars
<1>4. CASE OMTest
  BY <1>4 DEF OMTest, LoopCondition, Output, TypeOK, OMTypeOK, queueVars, outputVars
<1>5. CASE OMPeek
  BY <1>5 DEF OMPeek, Peek, Output, TypeOK, OMTypeOK, queueVars, outputVars
<1>6. CASE OMTake
  <2>1. queue \in Seq(Packets) /\ queue # << >>
    BY <1>6 DEF OMTake, TypeOK, OMTypeOK
  <2>2. /\ Head(queue) \in Packets /\ Tail(queue) \in Seq(Packets)
        /\ Len(Tail(queue)) <= Len(queue)
    BY <2>1
  <2>3. /\ logFiles' \in Seq(LogFiles)
        /\ period' \in 0 .. MaxPeriods
        /\ pipes' \in Seq(Handlers)
        /\ timeBase' \in Packets \cup {NoPacket}
        /\ keys' \subseteq Keys
        /\ keyPackets' \in Seq(Packets)
        /\ fileLog' \in Seq(FileRecords)
        /\ pipeLog' \in Seq(PipeRecords)
        /\ fault' \in BOOLEAN
        /\ proc' \in {"running", "crashed"}
    BY <1>6, <2>2, HandlePacketTypes DEF OMTake
  <2>4. queue' \in Seq(Packets) /\ Len(queue') <= QueueMax /\ departed' \in Seq(Packets)
    BY <1>6, <2>1, <2>2, QueueMaxAssumption DEF OMTake, TypeOK, OMTypeOK
  <2>. QED  BY <1>6, <2>3, <2>4 DEF OMTake, Output, TypeOK, OMTypeOK
<1>7. CASE OMClose
  BY <1>7 DEF OMClose, Output, TypeOK, OMTypeOK, queueVars, outputVars
<1>8. CASE OMStopPipes
  <2>1. pipes \in Seq(Handlers)
    BY DEF TypeOK, OMTypeOK
  <2>. DEFINE told(h) == IF pipes[h].thread = "running"
                         THEN [pipes[h] EXCEPT !.thread = "told"] ELSE pipes[h]
  <2>2. ASSUME NEW h \in 1 .. Len(pipes)
        PROVE  told(h) \in Handlers
    <3>1. pipes[h] \in Handlers
      BY <2>1
    <3>. QED  BY <3>1 DEF Handlers
  <2>3. pipes' = [h \in 1 .. Len(pipes) |-> told(h)]
    BY <1>8, <2>1 DEF OMStopPipes
  <2>4. pipes' \in Seq(Handlers)
    <3>. HIDE DEF told
    <3>. QED  BY <2>1, <2>2, <2>3
  <2>. QED  BY <1>8, <2>4 DEF OMStopPipes, Output, TypeOK, OMTypeOK, queueVars
<1>9. CASE OMJoinPipes
  BY <1>9 DEF OMJoinPipes, Output, TypeOK, OMTypeOK, queueVars, outputVars
<1>. QED  BY <1>1, <1>2, <1>3, <1>4, <1>5, <1>6, <1>7, <1>8, <1>9 DEF Output, OMStep

\* The pipe threads keep the types.
LEMMA TypePipes ==
  ASSUME TypeOK, PipeHandlers
  PROVE  TypeOK'
<1>1. PICK h \in DOMAIN pipes :
        PipeStep(h, "spawned", "running") \/ PipeStep(h, "told", "over")
  BY DEF PipeHandlers, PipeThread
<1>2. PICK to \in {"running", "over"} : pipes' = [pipes EXCEPT ![h].thread = to]
  BY <1>1 DEF PipeStep
<1>3. pipes \in Seq(Handlers) /\ pipes[h] \in Handlers /\ h \in 1 .. Len(pipes)
  BY <1>1 DEF TypeOK, OMTypeOK
<1>4. [pipes[h] EXCEPT !.thread = to] \in Handlers
  BY <1>3 DEF Handlers
<1>5. pipes' = [pipes EXCEPT ![h] = [pipes[h] EXCEPT !.thread = to]]
  BY <1>2
<1>6. pipes' \in Seq(Handlers)
  BY <1>3, <1>4, <1>5, ExceptSeq
<1>. QED  BY <1>1, <1>6 DEF PipeHandlers, PipeStep, TypeOK, OMTypeOK, sessionVars, queueVars

\* The main thread keeps the types.
LEMMA TypeMain ==
  ASSUME TypeOK, MainStep
  PROVE  TypeOK'
<1>1. CASE ConfigureAllDevices
  BY <1>1 DEF ConfigureAllDevices, TypeOK, OMTypeOK, omVars
<1>2. CASE InitAllDevices
  <2>1. /\ ready' \subseteq Devices /\ interruption' \in BOOLEAN
        /\ logFiles' \in Seq(LogFiles) /\ pipes' \in Seq(Handlers) /\ canRun' \in BOOLEAN
    <3>1. CASE UNCHANGED <<ready, interruption, logFiles, pipes, canRun>>
      BY <3>1 DEF TypeOK, OMTypeOK
    <3>2. ASSUME NEW ok \in SUBSET ready, ready' = ok,
                 interruption' \in {interruption, TRUE},
                 UNCHANGED <<logFiles, pipes, canRun>> \/ Configure(ok)
          PROVE  /\ ready' \subseteq Devices /\ interruption' \in BOOLEAN
                 /\ logFiles' \in Seq(LogFiles) /\ pipes' \in Seq(Handlers)
                 /\ canRun' \in BOOLEAN
      <4>1. ok \in SUBSET Devices /\ interruption' \in BOOLEAN
        BY <3>2 DEF TypeOK
      <4>2. CASE UNCHANGED <<logFiles, pipes, canRun>>
        BY <3>2, <4>1, <4>2 DEF TypeOK, OMTypeOK
      <4>3. CASE Configure(ok)
        <5>1. PICK devices \in Listings(ok) :
                ConfigureFails(devices) \/ ConfigureSucceeds(devices)
          BY <4>3 DEF Configure
        <5>2. 0 \in 0 .. MaxPeriods
          BY BoundsAssumption
        <5>3. devices \in Seq(Devices)
          BY <4>1, ListingType
        <5>4. FilesFor(devices, 0) \in Seq(LogFiles) /\ PipesFor(devices) \in Seq(Handlers)
          BY <5>2, <5>3, OpenedTypes
        <5>5. CASE ConfigureFails(devices)
          <6>1. PICK n \in 1 .. Len(FilesFor(devices, 0)) :
                  logFiles' = SubSeq(FilesFor(devices, 0), 1, n - 1)
            BY <5>5 DEF ConfigureFails
          <6>2. n - 1 \in 0 .. Len(FilesFor(devices, 0))
            BY <5>4
          <6>. QED  BY <3>2, <4>1, <5>4, <5>5, <6>1, <6>2, PrefixType
                    DEF ConfigureFails, TypeOK, OMTypeOK
        <5>6. CASE ConfigureSucceeds(devices)
          BY <3>2, <4>1, <5>4, <5>6 DEF ConfigureSucceeds
        <5>. QED  BY <5>1, <5>5, <5>6
      <4>. QED  BY <3>2, <4>2, <4>3
    <3>. QED  BY <1>2, <3>1, <3>2 DEF InitAllDevices
  <2>. QED  BY <1>2, <2>1 DEF InitAllDevices, TypeOK, OMTypeOK
<1>3. CASE StreamAll
  BY <1>3 DEF StreamAll, TypeOK, OMTypeOK
<1>4. CASE JoinStreams
  BY <1>4 DEF JoinStreams, TypeOK, OMTypeOK, omVars
<1>5. CASE StopOutput
  <2>1. isRunning' \in BOOLEAN
    BY <1>5 DEF StopOutput, Clear
  <2>. QED  BY <1>5, <2>1 DEF StopOutput, TypeOK, OMTypeOK
<1>6. CASE JoinOutput
  BY <1>6 DEF JoinOutput, TypeOK, OMTypeOK, omVars
<1>7. CASE MainReturn
  BY <1>7 DEF MainReturn, TypeOK, OMTypeOK, sessionVars
<1>. QED  BY <1>1, <1>2, <1>3, <1>4, <1>5, <1>6, <1>7 DEF MainStep

\* The packet that a device captures is a packet.
LEMMA CapturedPacket ==
  ASSUME TypeOK, NEW d \in Devices, Cardinality(Captured(d)) < MaxPackets,
         NEW k \in Keys \cup {NoKey}
  PROVE  [id |-> d, n |-> Cardinality(Captured(d)) + 1, key |-> k] \in Packets
<1>1. Captured(d) \subseteq 1 .. Len(accepted) /\ Len(accepted) \in Nat
  BY DEF Captured, TypeOK, OMTypeOK
<1>2. IsFiniteSet(1 .. Len(accepted))
  BY <1>1, FS_Interval
<1>3. Cardinality(Captured(d)) \in Nat
  BY <1>1, <1>2, FS_Subset, FS_CardinalityType
<1>. QED  BY <1>3, BoundsAssumption DEF Packets

\* The device threads, captures and lost links keep the types.
LEMMA TypeDevices ==
  ASSUME TypeOK, proc = "running",
         NEW d \in Devices, DeviceStep(d) \/ Capture(d) \/ LinkLost(d)
  PROVE  TypeOK'
<1>. USE DEF DeviceGoes
<1>1. CASE EnterStream(d)
  BY <1>1 DEF EnterStream, TypeOK, OMTypeOK, omVars
<1>2. CASE ReceiveFails(d)
  BY <1>2 DEF ReceiveFails, TypeOK, OMTypeOK, omVars
<1>3. CASE LeaveStream(d)
  BY <1>3 DEF LeaveStream, TypeOK, OMTypeOK, omVars
<1>4. CASE StopDevice(d)
  BY <1>4 DEF StopDevice, TypeOK, OMTypeOK, omVars
<1>5. CASE Capture(d)
  <2>1. PICK k \in Keys \cup {NoKey} :
          AddPacket([id |-> d, n |-> Cardinality(Captured(d)) + 1, key |-> k])
    BY <1>5 DEF Capture
  <2>2. /\ queue' \in Seq(Packets) /\ Len(queue') <= QueueMax
        /\ accepted' \in Seq(Packets) /\ departed' \in Seq(Packets)
        /\ evicted' \subseteq Packets
    BY <1>5, <2>1, CapturedPacket, AddPacketFacts DEF Capture
  <2>3. PICK to \in {"streaming", "leaving"} : devPc' = [devPc EXCEPT ![d] = to]
    BY <1>5 DEF Capture, NextAfterCapture
  <2>. QED  BY <1>5, <2>2, <2>3 DEF Capture, TypeOK, OMTypeOK, outputVars
<1>6. CASE LinkLost(d)
  BY <1>6 DEF LinkLost, TypeOK, OMTypeOK, omVars
<1>. QED  BY <1>1, <1>2, <1>3, <1>4, <1>5, <1>6 DEF DeviceStep

\* A signal keeps the types.
LEMMA TypeInterrupt ==
  ASSUME TypeOK, Interrupt
  PROVE  TypeOK'
<1>1. proc' \in {proc, "killed", "aborted"} /\ interruption' \in BOOLEAN
  BY DEF Interrupt, TypeOK
<1>. QED  BY <1>1 DEF Interrupt, TypeOK, OMTypeOK

\* Every step keeps the types.
LEMMA TypeNext ==
  ASSUME TypeOK, PipesInv, [Next]_vars
  PROVE  TypeOK'
<1>1. CASE UNCHANGED vars
  BY <1>1 DEF vars, omVars, sessionVars, TypeOK, OMTypeOK
<1>. QED  BY <1>1, TypeMain, TypeOutput, TypePipes, TypeDevices, TypeInterrupt DEF Next

----------------------------------------------------------------------------
\* The books: only add_packet and the pop of the output thread move packets.

\* Only a capture and the pop touch the queue and its history.
LEMMA QueueSteps ==
  ASSUME Next
  PROVE  \/ \E d \in Devices : proc = "running" /\ Capture(d)
         \/ proc = "running" /\ OMTake
         \/ UNCHANGED <<queue, accepted, departed>>
<1>1. CASE MainStep
  BY <1>1 DEF MainStep, ConfigureAllDevices, InitAllDevices, StreamAll, JoinStreams,
              StopOutput, JoinOutput, MainReturn, omVars
<1>2. CASE Output /\ ~OMTake
  BY <1>2 DEF Output, OMStep, OMBegin, OMSimulate, OMSimulated, OMTest, OMPeek, OMClose,
              OMStopPipes, OMJoinPipes, queueVars
<1>3. CASE PipeHandlers
  BY <1>3 DEF PipeHandlers, PipeThread, PipeStep, queueVars
<1>4. CASE \E d \in Devices : DeviceStep(d) \/ LinkLost(d)
  BY <1>4 DEF DeviceStep, EnterStream, ReceiveFails, LeaveStream, StopDevice, LinkLost,
              omVars
<1>5. CASE Interrupt
  BY <1>5 DEF Interrupt
<1>6. CASE UNCHANGED vars
  BY <1>6 DEF vars, omVars
<1>. QED  BY <1>1, <1>2, <1>3, <1>4, <1>5, <1>6 DEF Next, Output, OMStep

\* Every step keeps the account of the packets.
LEMMA BooksNext ==
  ASSUME TypeOK, Accounting, [Next]_vars
  PROVE  Accounting'
<1>1. CASE UNCHANGED <<queue, accepted, departed>>
  BY <1>1 DEF Accounting
<1>2. CASE OMTake
  <2>1. queue \in Seq(Packets) /\ departed \in Seq(Packets) /\ queue # << >>
    BY <1>2 DEF OMTake, TypeOK, OMTypeOK
  <2>2. departed' \o queue' = departed \o queue
    BY <1>2, <2>1, MoveHead DEF OMTake
  <2>. QED  BY <1>2, <2>2 DEF OMTake, Accounting
<1>3. ASSUME NEW d \in Devices, Capture(d)
      PROVE  Accounting'
  BY <1>3, CapturedPacket, AddPacketFacts DEF Capture
<1>4. CASE UNCHANGED vars
  BY <1>4 DEF vars, omVars, Accounting
<1>. QED  BY <1>1, <1>2, <1>3, <1>4, QueueSteps

----------------------------------------------------------------------------
\* Control: the threads, the loop of the output thread and the empty queue.

\* No thread has started.
LEMMA ControlInit == Init => ControlInv
  BY DEF Init, OMInit, ControlInv, ThreadsInv, TakeFindsPacket, LoopInv, Drained, Started

\* Starting, joining and stopping the threads keeps their order.
LEMMA ControlMain ==
  ASSUME TypeOK, ControlInv, MainStep
  PROVE  ControlInv'
<1>. USE DEF ControlInv, ThreadsInv, TakeFindsPacket, LoopInv, Drained, StreamsOver, Started
<1>1. CASE ConfigureAllDevices
  BY <1>1 DEF ConfigureAllDevices, omVars
<1>2. CASE InitAllDevices
  BY <1>2 DEF InitAllDevices
<1>3. CASE StreamAll
  BY <1>3 DEF StreamAll
<1>4. CASE JoinStreams
  BY <1>4 DEF JoinStreams, omVars
<1>5. CASE StopOutput
  BY <1>5 DEF StopOutput, Clear
<1>6. CASE JoinOutput
  BY <1>6 DEF JoinOutput, omVars
<1>7. CASE MainReturn
  BY <1>7 DEF MainReturn, sessionVars
<1>. QED  BY <1>1, <1>2, <1>3, <1>4, <1>5, <1>6, <1>7 DEF MainStep

\* The output thread leaves its loop for the reasons it has.
LEMMA ControlOutput ==
  ASSUME TypeOK, ControlInv, Output
  PROVE  ControlInv'
<1>. USE DEF ControlInv, ThreadsInv, TakeFindsPacket, LoopInv, Drained, StreamsOver, Started,
             Output, sessionVars
<1>1. CASE OMBegin
  BY <1>1 DEF OMBegin, queueVars, outputVars
<1>2. CASE OMSimulate
  BY <1>2 DEF OMSimulate, HandlePacket, queueVars
<1>3. CASE OMSimulated
  BY <1>3 DEF OMSimulated, queueVars, outputVars
<1>4. CASE OMTest
  BY <1>4 DEF OMTest, LoopCondition, queueVars, outputVars
<1>5. CASE OMPeek
  BY <1>5 DEF OMPeek, Peek, queueVars, outputVars
<1>6. CASE OMTake
  BY <1>6 DEF OMTake, HandlePacket
<1>7. CASE OMClose
  BY <1>7 DEF OMClose, queueVars, outputVars
<1>8. CASE OMStopPipes
  BY <1>8 DEF OMStopPipes, queueVars
<1>9. CASE OMJoinPipes
  BY <1>9 DEF OMJoinPipes, queueVars, outputVars
<1>. QED  BY <1>1, <1>2, <1>3, <1>4, <1>5, <1>6, <1>7, <1>8, <1>9 DEF OMStep

\* Device threads, pipe threads and signals keep the order of the threads.
LEMMA ControlOthers ==
  ASSUME TypeOK, ControlInv,
         \/ PipeHandlers
         \/ \E d \in Devices : DeviceStep(d) \/ LinkLost(d) \/ Capture(d)
         \/ Interrupt
         \/ UNCHANGED vars
  PROVE  ControlInv'
<1>. USE DEF ControlInv, ThreadsInv, TakeFindsPacket, LoopInv, Drained, StreamsOver, Started
<1>1. CASE PipeHandlers
  BY <1>1 DEF PipeHandlers, PipeThread, PipeStep, queueVars, sessionVars
<1>2. ASSUME NEW d \in Devices, DeviceStep(d) \/ LinkLost(d)
      PROVE  ControlInv'
  <2>1. devPc \in [Devices -> {"none", "spawned", "streaming", "leaving", "stopping", "done"}]
    BY DEF TypeOK
  <2>. QED  BY <1>2, <2>1 DEF DeviceStep, EnterStream, ReceiveFails, LeaveStream, StopDevice,
                              LinkLost, DeviceGoes, omVars
<1>3. ASSUME NEW d \in Devices, Capture(d)
      PROVE  ControlInv'
  <2>1. queue' # << >>
    BY <1>3, CapturedPacket, AddPacketFacts DEF Capture
  <2>2. devPc[d] = "streaming"
    BY <1>3 DEF Capture, DeviceGoes
  <2>3. mainPc = "joinStreams" /\ Started
    BY <2>2
  <2>. QED  BY <1>3, <2>1, <2>2, <2>3 DEF Capture, outputVars
<1>4. CASE Interrupt
  BY <1>4 DEF Interrupt
<1>5. CASE UNCHANGED vars
  BY <1>5 DEF vars, omVars, sessionVars
<1>. QED  BY <1>1, <1>2, <1>3, <1>4, <1>5

----------------------------------------------------------------------------
\* Outputs: who is ready, what is open, and the indices.

\* Nothing is ready or open.
LEMMA OutputsInit == Init => OutputsInv
<1>. SUFFICES ASSUME Init PROVE OutputsInv
  OBVIOUS
<1>1. DOMAIN queue = {} /\ omPc = "none"
  BY DEF Init, OMInit
<1>2. /\ canRun = FALSE /\ pipes = << >> /\ fault = FALSE
      /\ devPc = [d \in Devices |-> "none"]
  BY DEF Init, OMInit
<1>. QED  BY <1>1, <1>2 DEF OutputsInv, ReadyInv, FilesInv, PipesInv, IndexInBounds, Started

\* What configure opens: one file or pipe, or one per ready device.
LEMMA OpenedCounts ==
  ASSUME TypeOK, NEW set \in SUBSET Devices, NEW s \in Listings(set)
  PROVE  /\ log.file = "single" => Len(FilesFor(s, 0)) = 1
         /\ log.file = "split" => Len(FilesFor(s, 0)) = Cardinality(set)
         /\ log.pipe = "off" => PipesFor(s) = << >>
         /\ log.pipe = "single" => Len(PipesFor(s)) = 1
         /\ log.pipe = "split" => Len(PipesFor(s)) = Cardinality(set)
<1>1. Len(s) = Cardinality(set) /\ Len(s) \in Nat
  BY ListingType
<1>2. ASSUME NEW n \in Nat, NEW e(_)
      PROVE  Len([i \in 1 .. n |-> e(i)]) = n
  OBVIOUS
<1>3. /\ log.file = "single" => Len(FilesFor(s, 0)) = 1
      /\ log.file = "split" => Len(FilesFor(s, 0)) = Cardinality(set)
  BY <1>1 DEF FilesFor
<1>4. log.pipe = "off" => PipesFor(s) = << >>
  BY DEF PipesFor
<1>5. log.pipe = "single" => Len(PipesFor(s)) = 1
  BY DEF PipesFor
<1>6. log.pipe = "split" => Len(PipesFor(s)) = Cardinality(set)
  BY <1>1 DEF PipesFor
<1>. QED  BY <1>3, <1>4, <1>5, <1>6

\* Configuration opens what the ready devices need.
LEMMA OutputsMain ==
  ASSUME TypeOK, ControlInv, OutputsInv, MainStep
  PROVE  OutputsInv'
<1>. USE DEF OutputsInv, ReadyInv, FilesInv, PipesInv, IndexInBounds, ReadyIsPrefix, Started,
             ControlInv, ThreadsInv
<1>1. CASE ConfigureAllDevices
  <2>1. ~Started /\ ~fault /\ ~canRun /\ pipes = << >> /\ queue = << >>
        /\ \A d \in Devices : devPc[d] = "none"
    BY <1>1 DEF ConfigureAllDevices
  <2>. QED  BY <1>1, <2>1 DEF ConfigureAllDevices, omVars
<1>2. CASE InitAllDevices
  <2>1. /\ ~Started /\ ~fault /\ ~canRun /\ pipes = << >> /\ queue = << >>
        /\ \A d \in Devices : devPc[d] = "none"
    BY <1>2 DEF InitAllDevices
  <2>2. ReadyInv' /\ IndexInBounds'
    BY <1>2, <2>1 DEF InitAllDevices
  <2>3. CASE UNCHANGED <<pipes, canRun>>
    BY <1>2, <2>1, <2>2, <2>3 DEF InitAllDevices
  <2>4. CASE ~UNCHANGED <<pipes, canRun>>
    <3>1. PICK devices \in Listings(ready') : ConfigureSucceeds(devices)
      BY <1>2, <2>4 DEF InitAllDevices, Configure, ConfigureFails
    <3>2. ready' \in SUBSET Devices
      BY <1>2 DEF InitAllDevices, TypeOK
    <3>3. log' = log /\ log.pipe \in Modes
      BY <1>2 DEF InitAllDevices, TypeOK, OMTypeOK, Settings
    <3>4. FilesInv' /\ PipesInv'
      BY <3>1, <3>2, <3>3, OpenedCounts DEF ConfigureSucceeds
    <3>. QED  BY <2>2, <3>4
  <2>. QED  BY <2>3, <2>4
<1>3. CASE StreamAll
  BY <1>3 DEF StreamAll
<1>4. CASE JoinStreams
  BY <1>4 DEF JoinStreams, omVars
<1>5. CASE StopOutput
  BY <1>5 DEF StopOutput, Clear
<1>6. CASE JoinOutput
  BY <1>6 DEF JoinOutput, omVars
<1>7. CASE MainReturn
  BY <1>7 DEF MainReturn, sessionVars
<1>. QED  BY <1>1, <1>2, <1>3, <1>4, <1>5, <1>6, <1>7 DEF MainStep

\* The index of a packet of a ready device is within the bounds of what
\* configure left, if the ready devices are the first ones.
LEMMA PrefixSlots ==
  ASSUME TypeOK, OutputsInv, canRun, ~log.reset, ReadyIsPrefix,
         NEW p \in Packets, p.id \in ready
  PROVE  /\ log.file # "off" => Slot(log.file, p) \in DOMAIN logFiles
         /\ log.pipe # "off" => Slot(log.pipe, p) \in DOMAIN pipes
<1>1. log.file \in Modes /\ log.pipe \in Modes /\ p.id \in Nat
      /\ DOMAIN logFiles = 1 .. Len(logFiles) /\ DOMAIN pipes = 1 .. Len(pipes)
  BY DEF TypeOK, OMTypeOK, Settings, Packets, Devices
<1>2. 0 .. p.id \subseteq ready
  BY DEF ReadyIsPrefix
<1>3. p.id + 1 <= Cardinality(ready) /\ Cardinality(ready) \in Nat
  <2>1. IsFiniteSet(ready) /\ Cardinality(ready) \in Nat
    BY DevicesFinite, FS_Subset, FS_CardinalityType DEF TypeOK
  <2>2. Cardinality(0 .. p.id) = p.id + 1
    <3>1. 0 \in Int /\ p.id \in Int /\ ~ (0 > p.id) /\ p.id - 0 + 1 = p.id + 1
      BY <1>1
    <3>. QED  BY <3>1, FS_Interval
  <2>3. Cardinality(0 .. p.id) <= Cardinality(ready)
    BY <1>2, <2>1, FS_Subset
  <2>. QED  BY <2>1, <2>2, <2>3
<1>4. log.file # "off" => Slot(log.file, p) \in DOMAIN logFiles
  BY <1>1, <1>3 DEF Slot, Modes, OutputsInv, FilesInv
<1>5. log.pipe # "off" => Slot(log.pipe, p) \in DOMAIN pipes
  BY <1>1, <1>3 DEF Slot, Modes, OutputsInv, PipesInv
<1>. QED  BY <1>4, <1>5

\* So is that of a simulated packet, whose id is the index of a handler.
LEMMA SimulatedSlots ==
  ASSUME TypeOK, OutputsInv, Started, canRun, ~log.reset, log.pipe # "off",
         NEW p \in Packets, p.id \in 0 .. Len(pipes) - 1
  PROVE  /\ log.file # "off" => Slot(log.file, p) \in DOMAIN logFiles
         /\ Slot(log.pipe, p) \in DOMAIN pipes
<1>1. log.file \in Modes /\ log.pipe \in Modes /\ Len(pipes) \in Nat /\ p.id \in Nat
      /\ DOMAIN logFiles = 1 .. Len(logFiles) /\ DOMAIN pipes = 1 .. Len(pipes)
  BY DEF TypeOK, OMTypeOK, Settings, Packets, Devices
<1>2. Cardinality(ready) \in Nat /\ Cardinality(ready) >= 1
  <2>1. IsFiniteSet(ready) /\ ready # {}
    BY DevicesFinite, FS_Subset DEF TypeOK, OutputsInv, ReadyInv
  <2>. QED  BY <2>1, FS_CardinalityType, FS_EmptySet
<1>3. Slot(log.pipe, p) \in DOMAIN pipes
  BY <1>1 DEF Slot
<1>4. log.file # "off" => Slot(log.file, p) \in DOMAIN logFiles
  BY <1>1, <1>2 DEF Slot, Modes, OutputsInv, FilesInv, PipesInv
<1>. QED  BY <1>3, <1>4

\* Handling a packet whose slots exist, while the files stay as they are.
LEMMA HandleInBounds ==
  ASSUME TypeOK, NEW p \in Packets, NEW transportKey \in BOOLEAN,
         HandlePacket(p, transportKey), ~log.reset,
         log.file # "off" => Slot(log.file, p) \in DOMAIN logFiles,
         log.pipe # "off" => Slot(log.pipe, p) \in DOMAIN pipes
  PROVE  fault' = fault
<1>1. logFiles' = logFiles
  BY DEF HandlePacket, RecreateLogFiles
<1>2. ~OutOfBounds(p)
  BY <1>1 DEF OutOfBounds
<1>. QED  BY <1>2 DEF HandlePacket

\* Handling a packet of a ready device stays within the vectors.
LEMMA OutputsOutput ==
  ASSUME TypeOK, ControlInv, OutputsInv, proc = "running", Output
  PROVE  OutputsInv'
<1>. USE DEF Output, sessionVars
<1>1. ASSUME UNCHANGED <<queue, logFiles, fault, canRun, log>>,
             pipes' = pipes \/ (pipes # << >> /\ pipes' # << >> /\ Len(pipes') = Len(pipes)),
             Started
      PROVE  OutputsInv'
  BY <1>1 DEF OutputsInv, ReadyInv, FilesInv, PipesInv, IndexInBounds, ReadyIsPrefix, Started
<1>2. CASE OMBegin \/ OMSimulated \/ OMTest \/ OMPeek \/ OMClose \/ OMJoinPipes
  BY <1>1, <1>2 DEF OMBegin, OMSimulated, OMTest, OMPeek, OMClose, OMJoinPipes, LoopCondition,
                    queueVars, outputVars, Started
<1>3. CASE OMStopPipes
  <2>1. CASE pipes = << >>
    <3>1. pipes' = pipes
      BY <1>3, <2>1 DEF OMStopPipes
    <3>. QED  BY <1>1, <1>3, <3>1 DEF OMStopPipes, queueVars, Started
  <2>2. CASE pipes # << >>
    <3>1. pipes \in Seq(Handlers) /\ pipes' \in Seq(Handlers)
      <4>1. TypeOK'
        BY TypeOutput, Zenon DEF OutputsInv
      <4>. QED  BY <4>1 DEF TypeOK, OMTypeOK
    <3>2. DOMAIN pipes' = DOMAIN pipes
      BY <1>3 DEF OMStopPipes
    <3>3. Len(pipes') = Len(pipes) /\ pipes' # << >>
      BY <2>2, <3>1, <3>2
    <3>. QED  BY <1>1, <1>3, <2>2, <3>3 DEF OMStopPipes, queueVars, Started
  <2>. QED  BY <2>1, <2>2
<1>4. ASSUME NEW p \in Packets, NEW transportKey \in BOOLEAN, HandlePacket(p, transportKey),
             Started, canRun, log' = log, canRun' = canRun,
             \A i \in DOMAIN queue' : queue'[i].id \in ready,
             ReadyIsPrefix /\ ~log.reset =>
               /\ log.file # "off" => Slot(log.file, p) \in DOMAIN logFiles
               /\ log.pipe # "off" => Slot(log.pipe, p) \in DOMAIN pipes
      PROVE  OutputsInv'
  <2>1. ready' = ready /\ devPc' = devPc /\ pipes' = pipes
    BY <1>4 DEF HandlePacket
  <2>2. ~log.reset => logFiles' = logFiles
    BY <1>4 DEF HandlePacket, RecreateLogFiles
  <2>3. ReadyInv' /\ FilesInv' /\ PipesInv'
    BY <1>4, <2>1, <2>2 DEF OutputsInv, ReadyInv, FilesInv, PipesInv, Started
  <2>4. IndexInBounds'
    BY <1>4, <2>1, HandleInBounds DEF OutputsInv, IndexInBounds, ReadyIsPrefix
  <2>. QED  BY <2>3, <2>4 DEF OutputsInv
<1>5. CASE OMSimulate
  <2>. DEFINE p == [disk[simStep \div Len(pipes) + 1]
                    EXCEPT !.id = simStep % Len(pipes), !.n = 0]
  <2>1. /\ HandlePacket(p, TRUE) /\ Started
        /\ simStep < Len(disk) * Len(pipes)
        /\ UNCHANGED <<queue, log, canRun>>
    BY <1>5 DEF OMSimulate, queueVars, Started
  <2>2. /\ canRun /\ log.pipe # "off" /\ p \in Packets
        /\ p.id \in 0 .. Len(pipes) - 1
    <3>1. disk[simStep \div Len(pipes) + 1] \in Packets => p.id = simStep % Len(pipes)
      BY DEF Packets
    <3>. QED  BY <2>1, SimulatedPacket DEF OutputsInv, Packets
  <2>. HIDE DEF p
  <2>3. ~log.reset => /\ log.file # "off" => Slot(log.file, p) \in DOMAIN logFiles
                      /\ Slot(log.pipe, p) \in DOMAIN pipes
    BY <2>1, <2>2, SimulatedSlots
  <2>4. \A i \in DOMAIN queue' : queue'[i].id \in ready
    BY <2>1 DEF OutputsInv, ReadyInv
  <2>. QED  BY <1>4, <2>1, <2>2, <2>3, <2>4
<1>6. CASE OMTake
  <2>1. queue \in Seq(Packets) /\ queue # << >>
    BY <1>6 DEF OMTake, TypeOK, OMTypeOK
  <2>2. /\ Head(queue) \in Packets /\ Head(queue) = queue[1] /\ 1 \in DOMAIN queue
        /\ \A i \in DOMAIN Tail(queue) : i + 1 \in DOMAIN queue /\ Tail(queue)[i] = queue[i + 1]
    BY <2>1
  <2>3. Head(queue).id \in ready /\ \A i \in DOMAIN queue' : queue'[i].id \in ready
    BY <1>6, <2>2 DEF OMTake, OutputsInv, ReadyInv
  <2>4. canRun /\ Started
    BY <1>6 DEF OMTake, ControlInv, LoopInv, Started
  <2>5. ReadyIsPrefix /\ ~log.reset =>
          /\ log.file # "off" => Slot(log.file, Head(queue)) \in DOMAIN logFiles
          /\ log.pipe # "off" => Slot(log.pipe, Head(queue)) \in DOMAIN pipes
    BY <2>2, <2>3, <2>4, PrefixSlots
  <2>. QED  BY <1>4, <1>6, <2>2, <2>3, <2>4, <2>5 DEF OMTake
<1>. QED  BY <1>2, <1>3, <1>5, <1>6 DEF OMStep

\* What device threads, pipe threads and signals do leaves the outputs as they are.
LEMMA OutputsOthers ==
  ASSUME TypeOK, ControlInv, OutputsInv,
         \/ PipeHandlers
         \/ \E d \in Devices : DeviceStep(d) \/ LinkLost(d) \/ Capture(d)
         \/ Interrupt
         \/ UNCHANGED vars
  PROVE  OutputsInv'
<1>1. ASSUME UNCHANGED <<queue, logFiles, pipes, fault, canRun, log, ready, devPc, omPc>>
      PROVE  OutputsInv'
  BY <1>1 DEF OutputsInv, ReadyInv, FilesInv, PipesInv, IndexInBounds, ReadyIsPrefix, Started
<1>2. CASE PipeHandlers
  <2>1. PICK h \in DOMAIN pipes :
          PipeStep(h, "spawned", "running") \/ PipeStep(h, "told", "over")
    BY <1>2 DEF PipeHandlers, PipeThread
  <2>2. DOMAIN pipes' = DOMAIN pipes /\ pipes # << >>
    BY <2>1 DEF PipeStep
  <2>3. pipes \in Seq(Handlers) /\ pipes' \in Seq(Handlers)
    <3>1. TypeOK'
      BY <1>2, TypePipes
    <3>. QED  BY <3>1 DEF TypeOK, OMTypeOK
  <2>4. Len(pipes') = Len(pipes) /\ pipes' # << >>
    BY <2>2, <2>3
  <2>5. UNCHANGED <<queue, logFiles, fault, canRun, log, ready, devPc, omPc>>
    BY <1>2, <2>1 DEF PipeHandlers, PipeStep, queueVars, sessionVars
  <2>. QED  BY <2>2, <2>4, <2>5
            DEF OutputsInv, ReadyInv, FilesInv, PipesInv, IndexInBounds, ReadyIsPrefix, Started
<1>3. ASSUME NEW d \in Devices, DeviceStep(d) \/ LinkLost(d)
      PROVE  OutputsInv'
  <2>1. devPc \in [Devices -> {"none", "spawned", "streaming", "leaving", "stopping", "done"}]
    BY DEF TypeOK
  <2>2. \A e \in Devices : devPc'[e] # "none" => devPc[e] # "none"
    BY <1>3, <2>1 DEF DeviceStep, EnterStream, ReceiveFails, LeaveStream, StopDevice, LinkLost,
                      DeviceGoes
  <2>3. UNCHANGED <<queue, logFiles, pipes, fault, canRun, log, ready, omPc>>
    BY <1>3 DEF DeviceStep, EnterStream, ReceiveFails, LeaveStream, StopDevice, LinkLost, omVars
  <2>. QED  BY <2>2, <2>3
            DEF OutputsInv, ReadyInv, FilesInv, PipesInv, IndexInBounds, ReadyIsPrefix, Started
<1>4. ASSUME NEW d \in Devices, Capture(d)
      PROVE  OutputsInv'
  <2>1. PICK k \in Keys \cup {NoKey} :
          AddPacket([id |-> d, n |-> Cardinality(Captured(d)) + 1, key |-> k])
    BY <1>4 DEF Capture
  <2>. DEFINE p == [id |-> d, n |-> Cardinality(Captured(d)) + 1, key |-> k]
  <2>2. p \in Packets /\ p.id = d
    BY <1>4, CapturedPacket DEF Capture
  <2>. HIDE DEF p
  <2>3. \A i \in DOMAIN queue' : queue'[i] = p \/ \E j \in DOMAIN queue : queue'[i] = queue[j]
    BY <2>1, <2>2, AddPacketFacts DEF p
  <2>4. devPc[d] = "streaming" /\ devPc' = [devPc EXCEPT ![d] = devPc'[d]]
        /\ devPc \in [Devices -> {"none", "spawned", "streaming", "leaving", "stopping", "done"}]
    BY <1>4 DEF Capture, DeviceGoes, TypeOK
  <2>5. d \in ready
    BY <2>4 DEF OutputsInv, ReadyInv
  <2>6. UNCHANGED <<logFiles, pipes, fault, canRun, log, ready, omPc>>
    BY <1>4 DEF Capture, outputVars
  <2>7. \A i \in DOMAIN queue' : queue'[i].id \in ready
    BY <2>2, <2>3, <2>5 DEF OutputsInv, ReadyInv
  <2>8. \A e \in Devices : devPc'[e] # "none" => e \in ready
    BY <2>4, <2>5 DEF OutputsInv, ReadyInv
  <2>. QED  BY <2>6, <2>7, <2>8
            DEF OutputsInv, ReadyInv, FilesInv, PipesInv, IndexInBounds, ReadyIsPrefix, Started
<1>5. CASE Interrupt
  BY <1>1, <1>5 DEF Interrupt
<1>6. CASE UNCHANGED vars
  BY <1>1, <1>6 DEF vars, omVars, sessionVars
<1>. QED  BY <1>2, <1>3, <1>4, <1>5, <1>6

----------------------------------------------------------------------------
\* The inductive invariant

\* The invariant holds at the start.
LEMMA InvInit == Init => IInv
<1>1. Init => Accounting
  BY DEF Init, OMInit, Accounting
<1>. QED  BY <1>1, TypeInit, ControlInit, OutputsInit DEF IInv

\* Every step keeps the invariant: no part of it is inductive alone.
LEMMA InvNext ==
  ASSUME IInv, [Next]_vars
  PROVE  IInv'
<1>1. TypeOK /\ Accounting /\ ControlInv /\ OutputsInv /\ PipesInv
  BY DEF IInv, OutputsInv
<1>2. TypeOK'
  BY <1>1, TypeNext
<1>3. Accounting'
  BY <1>1, BooksNext
<1>4. ControlInv'
  BY <1>1, ControlMain, ControlOutput, ControlOthers DEF Next
<1>5. OutputsInv'
  BY <1>1, OutputsMain, OutputsOutput, OutputsOthers DEF Next
<1>. QED  BY <1>2, <1>3, <1>4, <1>5 DEF IInv

\* Types, accounting, order of the threads and bounds hold together in every state.
THEOREM Invariance == Spec => []IInv
<1>1. Init => IInv
  BY InvInit
<1>2. IInv /\ [Next]_vars => IInv'
  BY InvNext
<1>. QED  BY <1>1, <1>2, PTL DEF Spec

\* Every variable keeps its type and the packet queue its limit, for every
\* number of devices, every limit and every setting (output_manager.cpp:42).
THEOREM TypeCorrect == Spec => []TypeOK
<1>1. IInv => TypeOK
  BY DEF IInv
<1>. QED  BY <1>1, Invariance, PTL

\* The queue accounts for every packet add_packet accepted, in order: they have
\* left it, by the output thread or by eviction, or are still in it.
THEOREM AccountingHolds == Spec => []Accounting
<1>1. IInv => Accounting
  BY DEF IInv
<1>. QED  BY <1>1, Invariance, PTL

\* The output thread never calls front on an empty queue, although it checks
\* for emptiness without the lock (output_manager.cpp:176-179).
THEOREM TakeIsSafe == Spec => []TakeFindsPacket
<1>1. IInv => TakeFindsPacket
  BY DEF IInv, ControlInv
<1>. QED  BY <1>1, Invariance, PTL

\* An output thread that was allowed to run leaves its loop with the queue empty
\* and no device thread left to fill it.
THEOREM LeavesQueueEmpty == Spec => []Drained
<1>1. IInv => Drained
  BY DEF IInv, ControlInv
<1>. QED  BY <1>1, Invariance, PTL

\* With the ready devices first and files that are not opened again, the
\* vectors of files and handlers are never indexed past their end.
THEOREM IndicesInBounds == Spec => []IndexInBounds
<1>1. IInv => IndexInBounds
  BY DEF IInv, OutputsInv
<1>. QED  BY <1>1, Invariance, PTL

----------------------------------------------------------------------------
\* The disposition of SIGINT

\* No thread streams.
LEMMA SignalInit == Init => SignalInv
  BY DEF Init, SignalInv, Streaming

\* Only a thread that has seen interruption gives SIGINT its default back.
LEMMA SignalNext ==
  ASSUME TypeOK, SignalInv, [Next]_vars
  PROVE  SignalInv'
<1>1. devPc \in [Devices -> {"none", "spawned", "streaming", "leaving", "stopping", "done"}]
      /\ interruption \in BOOLEAN
  BY DEF TypeOK
<1>2. CASE UNCHANGED <<timed, devPc, interruption, sigint>>
  BY <1>2 DEF SignalInv, Streaming
<1>3. CASE InitAllDevices \/ StreamAll
  BY <1>1, <1>3 DEF InitAllDevices, StreamAll, SignalInv, Streaming
<1>4. ASSUME NEW d \in Devices, DeviceStep(d)
      PROVE  SignalInv'
  BY <1>1, <1>4 DEF DeviceStep, DeviceGoes, EnterStream, ReceiveFails, EndsOnFailure,
                    LeaveStream, StopDevice, SignalInv, Streaming
<1>5. ASSUME NEW d \in Devices, Capture(d)
      PROVE  SignalInv'
  BY <1>1, <1>5 DEF DeviceGoes, Capture, NextAfterCapture, SignalInv, Streaming
<1>6. ASSUME NEW d \in Devices, LinkLost(d)
      PROVE  SignalInv'
  BY <1>6 DEF LinkLost, SignalInv
<1>7. CASE Interrupt
  BY <1>1, <1>7 DEF Interrupt, SignalInv, Streaming
<1>8. CASE MainStep /\ ~InitAllDevices /\ ~StreamAll
  BY <1>2, <1>8 DEF MainStep, ConfigureAllDevices, JoinStreams, StopOutput, JoinOutput,
                    MainReturn, sessionVars
<1>. QED  BY <1>2, <1>3, <1>4, <1>5, <1>6, <1>7, <1>8
          DEF Next, Output, PipeHandlers, vars, sessionVars

\* In a session without a duration, while nothing was interrupted, every thread
\* that streams has installed signal_handler and none has removed it.
THEOREM SignalInvariance == Spec => []SignalInv
<1>1. TypeOK /\ SignalInv /\ [Next]_vars => SignalInv'
  BY SignalNext
<1>. QED  BY <1>1, SignalInit, TypeCorrect, PTL DEF Spec

\* In a session without a duration, a SIGINT that ends the program at once while
\* a device streams finds interruption set, by an earlier SIGINT or by a device
\* with a port that could not be closed (device.cpp:34, device.cpp:194,
\* device.cpp:343).
THEOREM UntimedForce == Spec => UntimedForceFindsInterruption
<1>1. ASSUME TypeOK, SignalInv, [Next]_vars
      PROVE  [Forced /\ ~timed /\ (\E d \in Devices : Streaming(d)) => interruption]_vars
  <2>1. SUFFICES ASSUME Forced, ~timed, ~interruption,
                        NEW d \in Devices, Streaming(d)
                 PROVE  FALSE
    OBVIOUS
  <2>2. sigint = "handler"
    BY <1>1, <2>1, Zenon DEF SignalInv
  <2>3. proc = "running" /\ proc' \in {"killed", "aborted"}
    BY <2>1 DEF Forced
  <2>4. ~Interrupt
    BY <2>1, <2>2, <2>3 DEF Interrupt
  <2>5. ~MainStep
    BY <2>3 DEF MainStep, ConfigureAllDevices, InitAllDevices, StreamAll, JoinStreams,
                StopOutput, JoinOutput, MainReturn, omVars
  <2>6. ~Output
    BY <2>3 DEF Output, OMStep, OMBegin, OMSimulate, OMSimulated, OMTest, OMPeek, OMTake,
                OMClose, OMStopPipes, OMJoinPipes, HandlePacket, outputVars
  <2>7. ~PipeHandlers
    BY <2>3 DEF PipeHandlers, PipeThread, PipeStep
  <2>8. ASSUME NEW e \in Devices, DeviceStep(e) \/ Capture(e) \/ LinkLost(e)
        PROVE  FALSE
    BY <2>3, <2>8 DEF DeviceStep, EnterStream, ReceiveFails, LeaveStream, StopDevice, Capture,
                      LinkLost, omVars, outputVars
  <2>9. ~UNCHANGED vars
    BY <2>3 DEF vars, omVars
  <2>. QED  BY <1>1, <2>3, <2>4, <2>5, <2>6, <2>7, <2>8, <2>9 DEF Next
<1>. QED  BY <1>1, TypeCorrect, SignalInvariance, PTL DEF Spec, UntimedForceFindsInterruption

----------------------------------------------------------------------------
\* Places in files and pipes

\* The owner of the i-th file or pipe, if the ready devices are the first ones.
OwnerAt(mode, i) == IF mode = "split" THEN i - 1 ELSE Shared

\* Where the files and the pipes are that handle_packet indexes.
PlaceInv ==
  /\ ~Started => period = 0 /\ fileLog = << >> /\ pipeLog = << >>
  /\ ReadyIsPrefix =>
       /\ log.file # "off" =>
            \A i \in DOMAIN logFiles :
              logFiles[i] = [owner |-> OwnerAt(log.file, i), period |-> period]
       /\ \A h \in DOMAIN pipes : pipes[h].owner = OwnerAt(log.pipe, h)

----------------------------------------------------------------------------
\* Steps

\* Only a capture and a call of handle_packet touch the histories.
LEMMA HistorySteps ==
  ASSUME [Next]_vars
  PROVE  \/ \E d \in Devices : proc = "running" /\ Capture(d)
         \/ proc = "running" /\ Output /\ (OMTake \/ OMSimulate)
         \/ UNCHANGED <<log, period, queue, accepted, departed, evicted, fileLog, pipeLog, fault>>
<1>. DEFINE Same == UNCHANGED <<log, period, queue, accepted, departed, evicted, fileLog,
                                pipeLog, fault>>
<1>1. CASE MainStep
  <2>1. CASE ConfigureAllDevices \/ JoinStreams \/ JoinOutput
    BY <2>1 DEF ConfigureAllDevices, JoinStreams, JoinOutput, omVars
  <2>2. CASE InitAllDevices
    BY <2>2 DEF InitAllDevices
  <2>3. CASE StreamAll \/ StopOutput \/ MainReturn
    BY <2>3 DEF StreamAll, StopOutput, MainReturn
  <2>. QED  BY <1>1, <2>1, <2>2, <2>3 DEF MainStep
<1>2. CASE Output /\ ~OMTake /\ ~OMSimulate
  BY <1>2 DEF Output, OMStep, OMBegin, OMSimulated, OMTest, OMPeek, OMClose, OMStopPipes,
              OMJoinPipes, queueVars, outputVars
<1>3. CASE PipeHandlers
  BY <1>3 DEF PipeHandlers, PipeThread, PipeStep, queueVars
<1>4. CASE \E d \in Devices : DeviceStep(d) \/ LinkLost(d)
  BY <1>4 DEF DeviceStep, EnterStream, ReceiveFails, LeaveStream, StopDevice, LinkLost, omVars
<1>5. CASE Interrupt
  BY <1>5 DEF Interrupt
<1>6. CASE UNCHANGED vars
  BY <1>6 DEF vars, omVars
<1>. QED  BY <1>1, <1>2, <1>3, <1>4, <1>5, <1>6, Zenon DEF Next, Output, OMStep

\* Once the main thread has configured the outputs, nobody adds or removes a
\* pipe, and only handle_packet opens files.
LEMMA PipeSteps ==
  ASSUME TypeOK, ControlInv, [Next]_vars, mainPc \notin {"connect", "init"}
  PROVE  /\ UNCHANGED <<ready, log>>
         /\ mainPc' \notin {"connect", "init"}
         /\ DOMAIN pipes' = DOMAIN pipes
         /\ \A h \in DOMAIN pipes : pipes'[h].owner = pipes[h].owner
         /\ (Output /\ (OMTake \/ OMSimulate)) \/ UNCHANGED logFiles
         /\ Started => Started'
<1>. USE DEF Started
<1>1. CASE MainStep
  BY <1>1 DEF MainStep, ConfigureAllDevices, InitAllDevices, StreamAll, JoinStreams,
              StopOutput, JoinOutput, MainReturn, omVars, sessionVars
<1>2. CASE Output
  <2>1. CASE OMStopPipes
    <3>1. \A h \in DOMAIN pipes : pipes'[h].owner = pipes[h].owner
      <4>. SUFFICES ASSUME NEW h \in DOMAIN pipes
                    PROVE  pipes'[h].owner = pipes[h].owner
        OBVIOUS
      <4>1. pipes[h] \in Handlers
        BY DEF TypeOK, OMTypeOK
      <4>2. pipes'[h] = IF pipes[h].thread = "running"
                        THEN [pipes[h] EXCEPT !.thread = "told"] ELSE pipes[h]
        BY <2>1 DEF OMStopPipes
      <4>. QED  BY <4>1, <4>2 DEF Handlers
    <3>. QED  BY <1>2, <2>1, <3>1 DEF OMStopPipes, Output, sessionVars
  <2>2. CASE ~OMStopPipes
    BY <1>2, <2>2 DEF Output, sessionVars, OMStep, OMBegin, OMSimulate, OMSimulated, OMTest,
                      OMPeek, OMTake, OMClose, OMJoinPipes, HandlePacket, LoopCondition,
                      Peek, outputVars
  <2>. QED  BY <2>1, <2>2
<1>3. CASE PipeHandlers
  <2>1. PICK h \in DOMAIN pipes :
          PipeStep(h, "spawned", "running") \/ PipeStep(h, "told", "over")
    BY <1>3 DEF PipeHandlers, PipeThread
  <2>2. PICK to : pipes' = [pipes EXCEPT ![h].thread = to]
    BY <2>1 DEF PipeStep
  <2>3. pipes[h] \in Handlers
    BY DEF TypeOK, OMTypeOK
  <2>4. DOMAIN pipes' = DOMAIN pipes /\ \A g \in DOMAIN pipes : pipes'[g].owner = pipes[g].owner
    BY <2>2, <2>3 DEF Handlers
  <2>. QED  BY <1>3, <2>1, <2>4 DEF PipeHandlers, PipeStep, sessionVars
<1>4. CASE \E d \in Devices : DeviceStep(d) \/ LinkLost(d)
  BY <1>4 DEF DeviceStep, EnterStream, ReceiveFails, LeaveStream, StopDevice, LinkLost, omVars
<1>5. CASE \E d \in Devices : Capture(d)
  BY <1>5 DEF Capture, outputVars
<1>6. CASE Interrupt
  BY <1>6 DEF Interrupt
<1>7. CASE UNCHANGED vars
  BY <1>7 DEF vars, omVars, sessionVars
<1>. QED  BY <1>1, <1>2, <1>3, <1>4, <1>5, <1>6, <1>7 DEF Next

----------------------------------------------------------------------------
\* The place of the records

\* The listing of the first devices: the i-th one is device i - 1.
LEMMA PrefixListing ==
  ASSUME NEW set \in SUBSET Devices, NEW s \in Listings(set),
         \A d \in set : 0 .. d \subseteq set
  PROVE  \A i \in 1 .. Cardinality(set) : s[i] = i - 1
<1>. DEFINE c == Cardinality(set)
<1>1. c \in Nat /\ IsFiniteSet(set)
  BY ListingType, DevicesFinite, FS_Subset
<1>2. /\ \A i \in 1 .. c : s[i] \in set /\ s[i] \in Nat
      /\ \A i, j \in 1 .. c : i < j => s[i] < s[j]
  <2>1. Devices \subseteq Nat
    BY NumDevicesAssumption DEF Devices
  <2>. QED  BY <2>1 DEF Listings
<1>3. ASSUME NEW d \in set
      PROVE  d + 1 <= c
  <2>1. d \in Nat
    BY NumDevicesAssumption DEF Devices
  <2>2. Cardinality(0 .. d) = d + 1
    <3>1. 0 \in Int /\ d \in Int /\ ~ (0 > d) /\ d - 0 + 1 = d + 1
      BY <2>1
    <3>. QED  BY <3>1, FS_Interval
  <2>3. Cardinality(0 .. d) <= c
    BY <1>1, FS_Subset
  <2>. QED  BY <2>2, <2>3
<1>. HIDE DEF c
<1>4. SUFFICES ASSUME c # 0
               PROVE  \A i \in 1 .. c : s[i] = i - 1
  BY <1>1 DEF c
\* The listing increases from 0 at least ...
<1>5. \A i \in 1 .. c : s[i] >= i - 1
  <2>. DEFINE P == { k \in 0 .. c - 1 : s[k + 1] >= k }
  <2>1. 0 \in P
    <3>1. s[1] \in Nat
      BY <1>1, <1>2, <1>4
    <3>. QED  BY <1>1, <1>4, <3>1
  <2>2. ASSUME NEW k \in 1 .. c - 1, k - 1 \in P
        PROVE  k \in P
    <3>1. s[k] < s[k + 1] /\ s[k] \in Nat /\ s[k + 1] \in Nat
      BY <1>1, <1>2
    <3>2. s[(k - 1) + 1] >= k - 1 /\ (k - 1) + 1 = k
      BY <2>2
    <3>. QED  BY <3>1, <3>2
  <2>3. c - 1 \in Nat
    BY <1>1, <1>4
  <2>. HIDE DEF P
  <2>4. \A k \in 0 .. c - 1 : k \in P
    BY <2>1, <2>2, <2>3, UpTo
  <2>5. ASSUME NEW i \in 1 .. c
        PROVE  s[i] >= i - 1
    <3>1. i - 1 \in P /\ (i - 1) + 1 = i
      BY <1>1, <2>4
    <3>. QED  BY <3>1 DEF P
  <2>. QED  BY <2>5
\* ... to c - 1 at most.
<1>6. \A i \in 1 .. c : s[i] <= i - 1
  <2>. DEFINE P == { k \in 0 .. c - 1 : s[c - k] <= c - k - 1 }
  <2>1. 0 \in P
    <3>1. s[c] \in set /\ s[c] \in Nat
      BY <1>1, <1>2, <1>4
    <3>2. s[c] + 1 <= c
      BY <1>3, <3>1
    <3>. QED  BY <1>1, <1>4, <3>1, <3>2
  <2>2. ASSUME NEW k \in 1 .. c - 1, k - 1 \in P
        PROVE  k \in P
    <3>1. c - k \in 1 .. c /\ c - (k - 1) \in 1 .. c /\ c - k < c - (k - 1)
      BY <1>1
    <3>2. s[c - k] < s[c - (k - 1)] /\ s[c - k] \in Nat /\ s[c - (k - 1)] \in Nat
      BY <1>2, <3>1
    <3>3. s[c - (k - 1)] <= c - (k - 1) - 1
      BY <2>2
    <3>. QED  BY <1>1, <3>2, <3>3
  <2>3. c - 1 \in Nat
    BY <1>1, <1>4
  <2>. HIDE DEF P
  <2>4. \A k \in 0 .. c - 1 : k \in P
    BY <2>1, <2>2, <2>3, UpTo
  <2>5. ASSUME NEW i \in 1 .. c
        PROVE  s[i] <= i - 1
    <3>1. c - i \in P /\ c - (c - i) = i
      BY <1>1, <2>4
    <3>. QED  BY <3>1 DEF P
  <2>. QED  BY <2>5
<1>. QED  BY <1>1, <1>2, <1>5, <1>6

\* What is opened for a listing of the first devices is in its place.
LEMMA OpenedPlaces ==
  ASSUME TypeOK, NEW s \in Seq(Devices), \A i \in DOMAIN s : s[i] = i - 1,
         NEW when \in 0 .. MaxPeriods
  PROVE  /\ log.file # "off" =>
              \A i \in DOMAIN FilesFor(s, when) :
                FilesFor(s, when)[i] = [owner |-> OwnerAt(log.file, i), period |-> when]
         /\ \A h \in DOMAIN PipesFor(s) : PipesFor(s)[h].owner = OwnerAt(log.pipe, h)
<1>1. Len(s) \in Nat /\ DOMAIN s = 1 .. Len(s)
  OBVIOUS
<1>2. \A i \in DOMAIN FilesFor(s, when) :
        FilesFor(s, when)[i] = [owner |-> OwnerAt(log.file, i), period |-> when]
  <2>1. CASE log.file = "split"
    BY <1>1, <2>1 DEF FilesFor, OwnerAt
  <2>2. CASE log.file # "split"
    BY <2>2 DEF FilesFor, OwnerAt
  <2>. QED  BY <2>1, <2>2
<1>3. \A h \in DOMAIN PipesFor(s) : PipesFor(s)[h].owner = OwnerAt(log.pipe, h)
  <2>1. CASE log.pipe = "split"
    BY <1>1, <2>1 DEF PipesFor, OwnerAt
  <2>2. CASE log.pipe = "single"
    BY <2>2 DEF PipesFor, OwnerAt
  <2>3. CASE log.pipe = "off"
    BY <2>3 DEF PipesFor
  <2>. QED  BY <2>1, <2>2, <2>3 DEF TypeOK, OMTypeOK, Settings, Modes
<1>. QED  BY <1>2, <1>3

\* Main opens the files and the pipes in their places.
LEMMA PlaceMain ==
  ASSUME IInv, PlaceInv, MainStep, mainPc \in {"connect", "init"}
  PROVE  PlaceInv'
<1>1. /\ ~Started /\ pipes = << >> /\ logFiles = << >> /\ TypeOK
      /\ period = 0 /\ fileLog = << >> /\ pipeLog = << >>
  BY DEF IInv, ControlInv, ThreadsInv, PlaceInv
<1>2. DOMAIN << >> = {}
  OBVIOUS
<1>3. CASE UNCHANGED <<pipes, logFiles, period, omPc, fileLog, pipeLog>>
  BY <1>1, <1>2, <1>3 DEF PlaceInv, Started
<1>4. CASE ConfigureAllDevices
  BY <1>3, <1>4 DEF ConfigureAllDevices, omVars
<1>5. CASE InitAllDevices
  <2>1. UNCHANGED <<period, omPc, fileLog, pipeLog, log>> /\ ready' \in SUBSET Devices
    BY <1>1, <1>5 DEF InitAllDevices, TypeOK
  <2>2. CASE ~UNCHANGED <<logFiles, pipes>>
    <3>1. PICK s \in Listings(ready') : ConfigureFails(s) \/ ConfigureSucceeds(s)
      BY <1>5, <2>2 DEF InitAllDevices, Configure
    <3>2. s \in Seq(Devices) /\ DOMAIN s = 1 .. Cardinality(ready')
      BY <2>1, <3>1, ListingType DEF Listings
    <3>3. SUFFICES ASSUME ReadyIsPrefix'
                   PROVE  /\ log.file # "off" =>
                               \A i \in DOMAIN logFiles' :
                                 logFiles'[i] = [owner |-> OwnerAt(log.file, i), period |-> 0]
                          /\ \A h \in DOMAIN pipes' : pipes'[h].owner = OwnerAt(log.pipe, h)
      BY <1>1, <2>1 DEF PlaceInv, Started, OwnerAt
    <3>4. \A i \in DOMAIN s : s[i] = i - 1
      BY <2>1, <3>1, <3>2, <3>3, PrefixListing DEF ReadyIsPrefix
    <3>5. 0 \in 0 .. MaxPeriods
      BY BoundsAssumption
    <3>6. FilesFor(s, 0) \in Seq(LogFiles)
      BY <1>1, <3>2, <3>5, OpenedTypes
    <3>7. /\ log.file # "off" =>
               \A i \in DOMAIN FilesFor(s, 0) :
                 FilesFor(s, 0)[i] = [owner |-> OwnerAt(log.file, i), period |-> 0]
          /\ \A h \in DOMAIN PipesFor(s) : PipesFor(s)[h].owner = OwnerAt(log.pipe, h)
      BY <1>1, <3>2, <3>4, <3>5, OpenedPlaces
    <3>8. CASE ConfigureSucceeds(s)
      BY <3>7, <3>8 DEF ConfigureSucceeds
    <3>9. CASE ConfigureFails(s)
      <4>1. pipes' = << >>
        BY <1>1, <3>9 DEF ConfigureFails
      <4>2. PICK n \in 1 .. Len(FilesFor(s, 0)) : logFiles' = SubSeq(FilesFor(s, 0), 1, n - 1)
        BY <3>9 DEF ConfigureFails
      <4>3. /\ DOMAIN logFiles' \subseteq DOMAIN FilesFor(s, 0)
            /\ \A i \in DOMAIN logFiles' : logFiles'[i] = FilesFor(s, 0)[i]
        BY <3>6, <4>2
      <4>. QED  BY <1>2, <3>7, <4>1, <4>3
    <3>. QED  BY <3>1, <3>8, <3>9
  <2>. QED  BY <1>3, <2>1, <2>2
<1>. QED  BY <1>4, <1>5 DEF MainStep, StreamAll, JoinStreams, StopOutput, JoinOutput, MainReturn

\* handle_packet finds the files in their places, whether or not it has opened
\* them again, and writes to those of the packet.
LEMMA PlaceHandle ==
  ASSUME IInv, PlaceInv, RecordsInPlace, Started,
         NEW p \in Packets, NEW transportKey \in BOOLEAN, HandlePacket(p, transportKey),
         UNCHANGED <<log, ready>>, Started'
  PROVE  PlaceInv' /\ RecordsInPlace'
<1>. SUFFICES ASSUME ReadyIsPrefix
              PROVE  PlaceInv' /\ RecordsInPlace'
  BY DEF PlaceInv, RecordsInPlace, ReadyIsPrefix
<1>1. /\ log.file # "off" =>
           \A i \in DOMAIN logFiles :
             logFiles[i] = [owner |-> OwnerAt(log.file, i), period |-> period]
      /\ \A h \in DOMAIN pipes : pipes[h].owner = OwnerAt(log.pipe, h)
  BY DEF PlaceInv
<1>2. TypeOK /\ p.id \in Nat
  BY NumDevicesAssumption DEF IInv, Packets, Devices
<1>3. log.file # "off" =>
        \A i \in DOMAIN logFiles' :
          logFiles'[i] = [owner |-> OwnerAt(log.file, i), period |-> period']
  <2>1. CASE UNCHANGED <<logFiles, period>>
    BY <1>1, <2>1
  <2>2. CASE ~UNCHANGED <<logFiles, period>>
    <3>1. period + 1 \in 0 .. MaxPeriods /\ period' = period + 1
      BY <1>2, <2>2, BoundsAssumption DEF HandlePacket, RecreateLogFiles, TypeOK, OMTypeOK
    <3>2. AllDevices \in Seq(Devices) /\ \A i \in DOMAIN AllDevices : AllDevices[i] = i - 1
      BY NumDevicesAssumption DEF AllDevices, Devices
    <3>. DEFINE wanted == FilesFor(AllDevices, period + 1)
    <3>3. PICK n \in 0 .. Len(wanted) : logFiles' = SubSeq(wanted, 1, n)
      BY <2>2 DEF HandlePacket, RecreateLogFiles
    <3>4. wanted \in Seq(LogFiles)
      BY <1>2, <3>1, <3>2, OpenedTypes
    <3>5. log.file # "off" =>
            \A i \in DOMAIN wanted :
              wanted[i] = [owner |-> OwnerAt(log.file, i), period |-> period + 1]
      BY <1>2, <3>1, <3>2, OpenedPlaces
    <3>. HIDE DEF wanted
    <3>6. /\ DOMAIN logFiles' \subseteq DOMAIN wanted
          /\ \A i \in DOMAIN logFiles' : logFiles'[i] = wanted[i]
      BY <3>3, <3>4
    <3>. QED  BY <3>1, <3>5, <3>6
  <2>. QED  BY <2>1, <2>2
<1>4. pipes' = pipes
  BY DEF HandlePacket
<1>5. PlaceInv'
  BY <1>1, <1>3, <1>4 DEF PlaceInv, ReadyIsPrefix, OwnerAt
<1>6. /\ \A i \in DOMAIN fileLog :
           fileLog[i].to = [owner |-> OwnerFor(log.file, fileLog[i].packet),
                            period |-> fileLog[i].now]
      /\ \A i \in DOMAIN pipeLog : pipeLog[i].to = OwnerFor(log.pipe, pipeLog[i].packet)
  BY DEF RecordsInPlace
<1>7. \A mode : OwnerAt(mode, Slot(mode, p)) = OwnerFor(mode, p)
  BY <1>2 DEF OwnerAt, Slot, OwnerFor
<1>8. fileLog \in Seq(FileRecords) /\ pipeLog \in Seq(PipeRecords)
  BY <1>2 DEF TypeOK, OMTypeOK
<1>9. \A i \in DOMAIN fileLog' :
        fileLog'[i].to = [owner |-> OwnerFor(log.file, fileLog'[i].packet),
                          period |-> fileLog'[i].now]
  <2>. DEFINE record == [to |-> logFiles'[Slot(log.file, p)], packet |-> p, now |-> period']
  <2>1. CASE fileLog' = fileLog
    BY <1>6, <2>1
  <2>2. CASE fileLog' # fileLog
    <3>1. /\ log.file # "off" /\ Slot(log.file, p) \in DOMAIN logFiles'
          /\ fileLog' = Append(fileLog, record)
      BY <2>2 DEF HandlePacket, WriteRecord
    <3>2. record.to = [owner |-> OwnerFor(log.file, record.packet), period |-> record.now]
      BY <1>3, <1>7, <3>1
    <3>. HIDE DEF record
    <3>3. \A i \in DOMAIN fileLog' :
            \/ i \in DOMAIN fileLog /\ fileLog'[i] = fileLog[i]
            \/ fileLog'[i] = record
      BY <1>8, <3>1
    <3>. QED  BY <1>6, <3>2, <3>3
  <2>. QED  BY <2>1, <2>2
<1>10. \A i \in DOMAIN pipeLog' : pipeLog'[i].to = OwnerFor(log.pipe, pipeLog'[i].packet)
  <2>1. PICK key \in BOOLEAN : HandOver(p, key)
    BY DEF HandlePacket
  <2>. DEFINE record == [to |-> pipes[Slot(log.pipe, p)].owner, packet |-> p, key |-> key]
  <2>2. CASE pipeLog' = pipeLog
    BY <1>6, <2>2
  <2>3. CASE pipeLog' # pipeLog
    <3>1. Slot(log.pipe, p) \in DOMAIN pipes /\ pipeLog' = Append(pipeLog, record)
      BY <2>1, <2>3 DEF HandOver
    <3>2. record.to = OwnerFor(log.pipe, record.packet)
      BY <1>1, <1>7, <3>1
    <3>. HIDE DEF record
    <3>3. \A i \in DOMAIN pipeLog' :
            \/ i \in DOMAIN pipeLog /\ pipeLog'[i] = pipeLog[i]
            \/ pipeLog'[i] = record
      BY <1>8, <3>1
    <3>. QED  BY <1>6, <3>2, <3>3
  <2>. QED  BY <2>2, <2>3
<1>. QED  BY <1>5, <1>9, <1>10 DEF RecordsInPlace, OwnerFor

\* Before the outputs are configured only the main thread and signals act.
LEMMA EarlySteps ==
  ASSUME IInv, [Next]_vars, mainPc \in {"connect", "init"}, ~MainStep
  PROVE  UNCHANGED <<log, ready, mainPc, period, queue, accepted, departed, evicted, logFiles,
                     pipes, fileLog, pipeLog, fault, omPc, simStep, disk>>
<1>1. /\ omPc = "none" /\ pipes = << >> /\ \A d \in Devices : devPc[d] = "none"
  BY DEF IInv, ControlInv, ThreadsInv, Started
<1>2. DOMAIN << >> = {}
  OBVIOUS
<1>3. ~OMStep
  BY <1>1 DEF OMStep, OMBegin, OMSimulate, OMSimulated, OMTest, LoopCondition, OMPeek, OMTake,
              OMClose, OMStopPipes, OMJoinPipes
<1>4. ~PipeThread
  BY <1>1, <1>2 DEF PipeThread
<1>5. ASSUME NEW d \in Devices
      PROVE  ~DeviceStep(d) /\ ~Capture(d) /\ ~LinkLost(d)
  BY <1>1 DEF DeviceStep, EnterStream, ReceiveFails, LeaveStream, StopDevice, LinkLost,
              Capture, DeviceGoes
<1>6. Interrupt \/ UNCHANGED vars
  BY <1>3, <1>4, <1>5 DEF Next, Output, PipeHandlers
<1>. QED  BY <1>6 DEF Interrupt, vars, omVars, sessionVars

\* The packet that the output thread handles.
LEMMA HandledPacket ==
  ASSUME IInv, Output, OMTake \/ OMSimulate
  PROVE  /\ Started /\ Started' /\ UNCHANGED <<log, ready, disk>>
         /\ mainPc \notin {"connect", "init"}
         /\ OMTake => /\ Head(queue) \in Packets /\ queue # << >>
                      /\ HandlePacket(Head(queue), FALSE)
         /\ OMSimulate =>
              \E p \in Packets : /\ HandlePacket(p, TRUE)
                                 /\ p.n = 0 /\ p.id = simStep % Len(pipes)
                                 /\ p.id \in 0 .. Len(pipes) - 1
<1>1. TypeOK /\ PipesInv /\ ControlInv
  BY DEF IInv, OutputsInv
<1>2. /\ Started /\ Started' /\ UNCHANGED <<log, ready, disk>>
  BY DEF OMTake, OMSimulate, Output, Started, sessionVars
<1>3. mainPc \notin {"connect", "init"}
  BY <1>1, <1>2 DEF ControlInv, ThreadsInv
<1>4. CASE OMTake
  <2>1. queue \in Seq(Packets) /\ queue # << >> /\ HandlePacket(Head(queue), FALSE)
    BY <1>1, <1>4 DEF OMTake, TypeOK, OMTypeOK
  <2>2. Head(queue) \in Packets
    BY <2>1
  <2>3. ~OMSimulate
    BY <1>4 DEF OMTake, OMSimulate
  <2>. QED  BY <1>2, <1>3, <2>1, <2>2, <2>3
<1>5. CASE OMSimulate
  <2>. DEFINE p == [disk[simStep \div Len(pipes) + 1]
                      EXCEPT !.id = simStep % Len(pipes), !.n = 0]
  <2>1. simStep < Len(disk) * Len(pipes) /\ HandlePacket(p, TRUE)
    BY <1>5 DEF OMSimulate
  <2>2. /\ simStep % Len(pipes) \in 0 .. Len(pipes) - 1
        /\ p \in Packets
    BY <1>1, <2>1, SimulatedPacket
  <2>3. p.n = 0 /\ p.id = simStep % Len(pipes)
    BY <2>2 DEF Packets
  <2>4. ~OMTake
    BY <1>5 DEF OMTake, OMSimulate
  <2>. HIDE DEF p
  <2>. QED  BY <1>2, <1>3, <2>1, <2>2, <2>3, <2>4
<1>. QED  BY <1>4, <1>5

\* Every step keeps the files, the pipes and the records in their places.
LEMMA PlaceNext ==
  ASSUME IInv, PlaceInv, RecordsInPlace, [Next]_vars
  PROVE  PlaceInv' /\ RecordsInPlace'
<1>1. TypeOK /\ ControlInv
  BY DEF IInv
<1>2. DOMAIN << >> = {}
  OBVIOUS
<1>3. CASE mainPc \in {"connect", "init"}
  <2>1. ~Started /\ fileLog = << >> /\ pipeLog = << >>
    BY <1>1, <1>3 DEF ControlInv, ThreadsInv, PlaceInv
  <2>2. CASE MainStep
    <3>1. PlaceInv'
      BY <1>3, <2>2, PlaceMain
    <3>2. fileLog' = << >> /\ pipeLog' = << >>
      BY <1>3, <2>1, <2>2 DEF MainStep, ConfigureAllDevices, InitAllDevices, StreamAll,
                              JoinStreams, StopOutput, JoinOutput, MainReturn, omVars
    <3>. QED  BY <1>2, <3>1, <3>2 DEF RecordsInPlace
  <2>3. CASE ~MainStep
    BY <1>2, <1>3, <2>1, <2>3, EarlySteps
       DEF PlaceInv, RecordsInPlace, ReadyIsPrefix, Started
  <2>. QED  BY <2>2, <2>3
<1>4. CASE mainPc \notin {"connect", "init"}
  <2>1. CASE Output /\ (OMTake \/ OMSimulate)
    BY <2>1, HandledPacket, PlaceHandle
  <2>2. CASE ~(Output /\ (OMTake \/ OMSimulate))
    <3>1. /\ UNCHANGED <<ready, log, logFiles>> /\ DOMAIN pipes' = DOMAIN pipes
          /\ \A h \in DOMAIN pipes : pipes'[h].owner = pipes[h].owner
          /\ Started => Started'
      BY <1>1, <1>4, <2>2, PipeSteps
    <3>2. UNCHANGED <<period, fileLog, pipeLog>>
      <4>1. CASE \E d \in Devices : Capture(d)
        BY <4>1 DEF Capture, outputVars
      <4>. QED  BY <2>2, <4>1, HistorySteps
    <3>. QED  BY <3>1, <3>2 DEF PlaceInv, RecordsInPlace, ReadyIsPrefix, OwnerAt, OwnerFor
  <2>. QED  BY <2>1, <2>2
<1>. QED  BY <1>3, <1>4

\* Across recreations of the log files, every packet is written to the file of
\* its device (or the shared one) of the current period and handed to the pipe
\* of its device, if the ready devices are the first ones: handle_packet
\* indexes the vectors by device id (output_manager.cpp:118-131).
THEOREM RecordsAreInPlace == Spec => []RecordsInPlace
<1>1. Init => IInv /\ PlaceInv /\ RecordsInPlace
  <2>1. DOMAIN << >> = {}
    OBVIOUS
  <2>. QED  BY <2>1, InvInit DEF Init, OMInit, PlaceInv, RecordsInPlace
<1>2. IInv /\ PlaceInv /\ RecordsInPlace /\ [Next]_vars => (IInv /\ PlaceInv /\ RecordsInPlace)'
  BY InvNext, PlaceNext
<1>. QED  BY <1>1, <1>2, PTL DEF Spec

----------------------------------------------------------------------------
\* The packets that were kept

\* Captured packets are numbered from 1 and all different; what was evicted
\* has left the queue.
NumberedInv ==
  /\ \A i \in DOMAIN accepted : accepted[i].n \in 1 .. Cardinality(Captured(accepted[i].id))
  /\ \A i, j \in DOMAIN accepted : i # j => accepted[i] # accepted[j]
  /\ \A p \in evicted : \E i \in DOMAIN departed : p = departed[i]

\* A device captures finitely many packets.
LEMMA CapturedFinite ==
  ASSUME TypeOK, NEW d
  PROVE  IsFiniteSet(Captured(d)) /\ Cardinality(Captured(d)) \in Nat
<1>1. Captured(d) \subseteq 1 .. Len(accepted) /\ Len(accepted) \in Nat
  BY DEF Captured, TypeOK, OMTypeOK
<1>2. IsFiniteSet(1 .. Len(accepted))
  BY <1>1, FS_Interval
<1>. QED  BY <1>1, <1>2, FS_Subset, FS_CardinalityType

\* The packet at the head of the queue is the one accepted after those that left.
LEMMA HeadIsNext ==
  ASSUME TypeOK, Accounting
  PROVE  /\ \A i \in DOMAIN departed : i \in DOMAIN accepted /\ departed[i] = accepted[i]
         /\ queue # << >> => /\ Head(queue) \in Packets
                             /\ Len(departed) + 1 \in DOMAIN accepted
                             /\ Head(queue) = accepted[Len(departed) + 1]
<1>1. queue \in Seq(Packets) /\ departed \in Seq(Packets) /\ accepted = departed \o queue
  BY DEF TypeOK, OMTypeOK, Accounting
<1>2. /\ Len(accepted) = Len(departed) + Len(queue)
      /\ Len(departed) \in Nat /\ Len(queue) \in Nat
      /\ DOMAIN departed = 1 .. Len(departed) /\ DOMAIN accepted = 1 .. Len(accepted)
      /\ \A i \in 1 .. Len(departed) + Len(queue) :
           accepted[i] = IF i <= Len(departed) THEN departed[i] ELSE queue[i - Len(departed)]
  BY <1>1, ConcatProperties
<1>3. queue # << >> => Len(queue) >= 1 /\ Head(queue) = queue[1] /\ Head(queue) \in Packets
  BY <1>1, EmptySeq
<1>. QED  BY <1>2, <1>3

\* So it is none of those that left, and it was captured.
LEMMA HeadIsNew ==
  ASSUME TypeOK, Accounting, NumberedInv, queue # << >>
  PROVE  /\ \A i \in DOMAIN departed : departed[i] # Head(queue)
         /\ Head(queue) \notin evicted
         /\ Head(queue) \in CapturedPackets
<1>1. departed \in Seq(Packets) /\ Len(departed) \in Nat /\ DOMAIN departed = 1 .. Len(departed)
  BY DEF TypeOK, OMTypeOK
<1>2. /\ \A i \in DOMAIN departed : i \in DOMAIN accepted /\ departed[i] = accepted[i]
      /\ Head(queue) \in Packets
      /\ Len(departed) + 1 \in DOMAIN accepted /\ Head(queue) = accepted[Len(departed) + 1]
  BY HeadIsNext
<1>3. \A i \in DOMAIN departed : departed[i] # Head(queue)
  <2>1. \A i \in DOMAIN departed : i # Len(departed) + 1
    BY <1>1
  <2>. QED  BY <1>2, <2>1 DEF NumberedInv
<1>4. Head(queue) \notin evicted
  BY <1>3 DEF NumberedInv
<1>5. Head(queue).n > 0
  <2>1. Cardinality(Captured(Head(queue).id)) \in Nat
    BY CapturedFinite
  <2>. QED  BY <1>2, <2>1 DEF NumberedInv
<1>. QED  BY <1>2, <1>3, <1>4, <1>5 DEF CapturedPackets

\* Nothing is numbered yet.
LEMMA NumberedInit == Init => NumberedInv
<1>1. DOMAIN << >> = {}
  OBVIOUS
<1>. QED  BY <1>1 DEF Init, OMInit, NumberedInv

\* A capture numbers its packet.
LEMMA NumberedCapture ==
  ASSUME TypeOK, Accounting, NumberedInv, NEW d \in Devices, Capture(d)
  PROVE  NumberedInv'
<1>. DEFINE c == Cardinality(Captured(d))
            After(e) == { i \in 1 .. Len(accepted') : accepted'[i].id = e }
<1>1. PICK k \in Keys \cup {NoKey} : AddPacket([id |-> d, n |-> c + 1, key |-> k])
  BY DEF Capture
<1>. DEFINE p == [id |-> d, n |-> c + 1, key |-> k]
<1>2. p \in Packets
  BY CapturedPacket DEF Capture
<1>3. /\ accepted \in Seq(Packets) /\ Len(accepted) \in Nat /\ queue \in Seq(Packets)
      /\ departed \in Seq(Packets)
  BY DEF TypeOK, OMTypeOK
<1>4. accepted' = Append(accepted, p)
  BY <1>1 DEF AddPacket
<1>5. p.id = d /\ p.n = c + 1
  OBVIOUS
<1>6. \A e : Captured(e) \subseteq 1 .. Len(accepted)
  BY DEF Captured
<1>7. \A e : IsFiniteSet(Captured(e)) /\ Cardinality(Captured(e)) \in Nat
  BY CapturedFinite
<1>. HIDE DEF p, c
<1>8. /\ DOMAIN accepted = 1 .. Len(accepted) /\ DOMAIN accepted' = 1 .. Len(accepted) + 1
      /\ Len(accepted') = Len(accepted) + 1
      /\ accepted'[Len(accepted) + 1] = p
      /\ \A i \in DOMAIN accepted : accepted'[i] = accepted[i]
  BY <1>2, <1>3, <1>4
<1>9. Cardinality(After(d)) = c + 1
  <2>1. After(d) = Captured(d) \cup {Len(accepted) + 1}
    BY <1>3, <1>5, <1>8 DEF Captured
  <2>2. Len(accepted) + 1 \notin Captured(d)
    BY <1>3, <1>6
  <2>. QED  BY <1>7, <2>1, <2>2, FS_AddElement DEF c
<1>10. \A e : e # d => After(e) = Captured(e)
  BY <1>3, <1>5, <1>8 DEF Captured
<1>11. c \in Nat
  BY <1>7 DEF c
<1>12. ASSUME NEW i \in DOMAIN accepted'
       PROVE  accepted'[i].n \in 1 .. Cardinality(After(accepted'[i].id))
  <2>1. CASE i = Len(accepted) + 1
    <3>1. accepted'[i].n = c + 1 /\ accepted'[i].id = d
      BY <1>5, <1>8, <2>1
    <3>. HIDE DEF After
    <3>2. Cardinality(After(accepted'[i].id)) = c + 1
      BY <1>9, <3>1
    <3>. QED  BY <1>11, <3>1, <3>2
  <2>2. CASE i # Len(accepted) + 1
    <3>1. i \in DOMAIN accepted /\ accepted'[i] = accepted[i]
      BY <1>3, <1>8, <2>2
    <3>2. accepted[i].n \in 1 .. Cardinality(Captured(accepted[i].id))
      BY <3>1 DEF NumberedInv
    <3>3. CASE accepted[i].id = d
      BY <1>9, <1>11, <3>1, <3>2, <3>3 DEF c
    <3>4. CASE accepted[i].id # d
      BY <1>10, <3>1, <3>2, <3>4
    <3>. QED  BY <3>3, <3>4
  <2>. QED  BY <2>1, <2>2
<1>13. ASSUME NEW i \in DOMAIN accepted
       PROVE  accepted[i] # p
  <2>1. accepted[i].n \in 1 .. Cardinality(Captured(accepted[i].id))
    BY DEF NumberedInv
  <2>. QED  BY <1>5, <1>11, <2>1 DEF c
<1>14. \A i, j \in DOMAIN accepted' : i # j => accepted'[i] # accepted'[j]
  BY <1>3, <1>8, <1>13 DEF NumberedInv
<1>15. \A q \in evicted' : \E i \in DOMAIN departed' : q = departed'[i]
  <2>1. CASE Full
    <3>1. /\ departed' = Append(departed, Head(queue))
          /\ evicted' = evicted \cup {Head(queue)}
      BY <1>1, <2>1 DEF AddPacket
    <3>2. queue # << >>
      BY <1>3, <2>1, QueueMaxAssumption DEF Full
    <3>3. Head(queue) \in Packets
      BY <1>3, <3>2
    <3>4. /\ Len(departed) + 1 \in DOMAIN departed'
          /\ departed'[Len(departed) + 1] = Head(queue)
          /\ \A i \in DOMAIN departed : i \in DOMAIN departed' /\ departed'[i] = departed[i]
      BY <1>3, <3>1, <3>3
    <3>. QED  BY <3>1, <3>4 DEF NumberedInv
  <2>2. CASE ~Full
    BY <1>1, <2>2 DEF AddPacket, NumberedInv
  <2>. QED  BY <2>1, <2>2
<1>. QED  BY <1>12, <1>14, <1>15 DEF NumberedInv, Captured

\* Every step keeps the packets numbered.
LEMMA NumberedNext ==
  ASSUME IInv, NumberedInv, [Next]_vars
  PROVE  NumberedInv'
<1>1. TypeOK /\ Accounting
  BY DEF IInv
<1>2. CASE Output /\ OMTake
  <2>1. /\ departed' = Append(departed, Head(queue)) /\ UNCHANGED <<accepted, evicted>>
        /\ queue \in Seq(Packets) /\ queue # << >> /\ departed \in Seq(Packets)
    BY <1>1, <1>2 DEF OMTake, TypeOK, OMTypeOK
  <2>2. Head(queue) \in Packets
    BY <2>1
  <2>3. \A i \in DOMAIN departed : i \in DOMAIN departed' /\ departed'[i] = departed[i]
    BY <2>1, <2>2
  <2>. QED  BY <2>1, <2>3 DEF NumberedInv, Captured
<1>3. CASE OMSimulate
  BY <1>3 DEF OMSimulate, queueVars, NumberedInv, Captured
<1>4. CASE UNCHANGED <<accepted, departed, evicted>>
  BY <1>4 DEF NumberedInv, Captured
<1>. QED  BY <1>1, <1>2, <1>3, <1>4, HistorySteps, NumberedCapture

\* Appending a record adds its packet to those written, if it was captured.
LEMMA WrittenAppend ==
  ASSUME NEW R, \A r \in R : r.packet \in Packets,
         NEW records \in Seq(R), NEW r \in R
  PROVE  Written(Append(records, r)) =
           IF r.packet \in CapturedPackets THEN Append(Written(records), r.packet)
                                           ELSE Written(records)
<1>1. Len(records) \in Nat /\ \A i \in 1 .. Len(records) : records[i] \in R
  OBVIOUS
<1>2. PacketsOf(records) \in Seq(Packets) /\ Len(PacketsOf(records)) = Len(records)
  BY <1>1 DEF PacketsOf
<1>3. PacketsOf(Append(records, r)) = Append(PacketsOf(records), r.packet)
  <2>. DEFINE longer == Append(records, r)
  <2>1. /\ longer \in Seq(R) /\ Len(longer) = Len(records) + 1
        /\ longer[Len(records) + 1] = r
        /\ \A i \in 1 .. Len(records) : longer[i] = records[i]
    BY <1>1
  <2>. HIDE DEF longer
  <2>2. PacketsOf(longer) \in Seq(Packets) /\ Len(PacketsOf(longer)) = Len(records) + 1
        /\ \A i \in 1 .. Len(records) + 1 : PacketsOf(longer)[i] = longer[i].packet
    <3>1. \A i \in 1 .. Len(longer) : longer[i] \in R
      BY <2>1
    <3>. QED  BY <2>1, <3>1 DEF PacketsOf
  <2>3. \A i \in 1 .. Len(records) : PacketsOf(records)[i] = records[i].packet
    BY <1>1 DEF PacketsOf
  <2>. DEFINE appended == Append(PacketsOf(records), r.packet)
  <2>4. /\ appended \in Seq(Packets) /\ Len(appended) = Len(records) + 1
        /\ appended[Len(records) + 1] = r.packet
        /\ \A i \in 1 .. Len(records) : appended[i] = PacketsOf(records)[i]
    BY <1>1, <1>2
  <2>. HIDE DEF appended
  <2>5. \A i \in 1 .. Len(records) + 1 : PacketsOf(longer)[i] = appended[i]
    BY <1>1, <2>1, <2>2, <2>3, <2>4
  <2>6. PacketsOf(longer) = appended
    BY <2>2, <2>4, <2>5, SeqEqual
  <2>. QED  BY <2>6 DEF longer, appended
<1>4. r.packet \in Packets
  OBVIOUS
<1>5. Selected(Append(PacketsOf(records), r.packet), CapturedPackets)
        = IF r.packet \in CapturedPackets
          THEN Append(Selected(PacketsOf(records), CapturedPackets), r.packet)
          ELSE Selected(PacketsOf(records), CapturedPackets)
  BY <1>2, <1>4, SelectedAppend
<1>. QED  BY <1>3, <1>5, Zenon DEF Written

\* An eviction keeps what was kept: the evicted packet had not left before.
LEMMA KeptCapture ==
  ASSUME TypeOK, Accounting, NumberedInv, NEW d \in Devices, Capture(d)
  PROVE  Kept' = Kept
<1>1. CASE UNCHANGED <<departed, evicted>>
  BY <1>1 DEF Kept
<1>2. CASE ~UNCHANGED <<departed, evicted>>
  <2>1. /\ Full
        /\ departed' = Append(departed, Head(queue))
        /\ evicted' = evicted \cup {Head(queue)}
    BY <1>2 DEF Capture, AddPacket
  <2>2. departed \in Seq(Packets) /\ queue # << >>
    BY <2>1, QueueMaxAssumption DEF TypeOK, OMTypeOK, Full
  <2>. DEFINE h == Head(queue)
              rest == Packets \ (evicted \cup {h})
  <2>3. h \in Packets /\ \A i \in DOMAIN departed : departed[i] # h
    BY <2>2, HeadIsNext, HeadIsNew
  <2>. HIDE DEF h
  <2>4. h \notin rest /\ \A i \in 1 .. Len(departed) :
                            departed[i] \in rest <=> departed[i] \in Packets \ evicted
    BY <2>2, <2>3
  <2>. HIDE DEF rest
  <2>5. Selected(departed, rest) = Selected(departed, Packets \ evicted)
    BY <2>2, <2>4, SelectedSame
  <2>6. Selected(Append(departed, h), rest) = Selected(departed, rest)
    BY <2>2, <2>3, <2>4, SelectedAppend
  <2>. QED  BY <2>1, <2>5, <2>6 DEF Kept, h, rest
<1>. QED  BY <1>1, <1>2

\* The packet that the output thread pops is kept.
LEMMA KeptTake ==
  ASSUME TypeOK, Accounting, NumberedInv, queue # << >>,
         departed' = Append(departed, Head(queue)), evicted' = evicted
  PROVE  Kept' = Append(Kept, Head(queue))
<1>1. departed \in Seq(Packets) /\ Head(queue) \in Packets /\ Head(queue) \in Packets \ evicted
  BY HeadIsNext, HeadIsNew DEF TypeOK, OMTypeOK
<1>. QED  BY <1>1, SelectedAppend DEF Kept

\* Without a fault, handle_packet writes its packet wherever it should.
LEMMA HandleWrites ==
  ASSUME TypeOK, NEW p \in Packets, NEW transportKey \in BOOLEAN,
         HandlePacket(p, transportKey), TypeOK', ~fault'
  PROVE  /\ ~fault
         /\ log.file # "off" => \E r \in FileRecords :
                                  r.packet = p /\ fileLog' = Append(fileLog, r)
         /\ log.pipe # "off" => \E r \in PipeRecords :
              /\ r.packet = p /\ pipeLog' = Append(pipeLog, r)
              /\ Slot(log.pipe, p) \in DOMAIN pipes
              /\ r.to = pipes[Slot(log.pipe, p)].owner
<1>1. ~OutOfBounds(p) /\ ~fault
  BY DEF HandlePacket
<1>2. /\ logFiles' \in Seq(LogFiles) /\ period' \in 0 .. MaxPeriods
      /\ pipes \in Seq(Handlers)
  BY DEF TypeOK, OMTypeOK
<1>3. log.file # "off" => \E r \in FileRecords :
                            r.packet = p /\ fileLog' = Append(fileLog, r)
  <2>. SUFFICES ASSUME log.file # "off"
                PROVE  \E r \in FileRecords : r.packet = p /\ fileLog' = Append(fileLog, r)
    OBVIOUS
  <2>. DEFINE r == [to |-> logFiles'[Slot(log.file, p)], packet |-> p, now |-> period']
  <2>1. Slot(log.file, p) \in DOMAIN logFiles' /\ fileLog' = Append(fileLog, r)
    BY <1>1 DEF OutOfBounds, HandlePacket, WriteRecord
  <2>2. r \in FileRecords
    BY <1>2, <2>1 DEF FileRecords
  <2>. QED  BY <2>1, <2>2
<1>4. log.pipe # "off" => \E r \in PipeRecords :
        /\ r.packet = p /\ pipeLog' = Append(pipeLog, r)
        /\ Slot(log.pipe, p) \in DOMAIN pipes
        /\ r.to = pipes[Slot(log.pipe, p)].owner
  <2>. SUFFICES ASSUME log.pipe # "off"
                PROVE  \E r \in PipeRecords :
                         /\ r.packet = p /\ pipeLog' = Append(pipeLog, r)
                         /\ Slot(log.pipe, p) \in DOMAIN pipes
                         /\ r.to = pipes[Slot(log.pipe, p)].owner
    OBVIOUS
  <2>1. PICK key \in BOOLEAN : HandOver(p, key)
    BY DEF HandlePacket
  <2>. DEFINE r == [to |-> pipes[Slot(log.pipe, p)].owner, packet |-> p, key |-> key]
  <2>2. Slot(log.pipe, p) \in DOMAIN pipes /\ pipeLog' = Append(pipeLog, r)
    BY <1>1, <2>1 DEF OutOfBounds, HandOver
  <2>3. pipes[Slot(log.pipe, p)] \in Handlers
    BY <1>2, <2>2
  <2>4. r \in PipeRecords
    BY <2>3 DEF PipeRecords, Handlers
  <2>. QED  BY <2>2, <2>4
<1>. QED  BY <1>1, <1>3, <1>4

\* Every step writes what it keeps and nothing else that was captured.
LEMMA KeptNext ==
  ASSUME IInv, NumberedInv, KeptIsWritten, [Next]_vars
  PROVE  KeptIsWritten'
<1>1. TypeOK /\ Accounting /\ TypeOK'
  BY InvNext DEF IInv
<1>2. fileLog \in Seq(FileRecords) /\ pipeLog \in Seq(PipeRecords)
  BY <1>1 DEF TypeOK, OMTypeOK
<1>3. /\ \A r \in FileRecords : r.packet \in Packets
      /\ \A r \in PipeRecords : r.packet \in Packets
  BY DEF FileRecords, PipeRecords
<1>4. CASE \E d \in Devices : Capture(d)
  <2>1. Kept' = Kept /\ UNCHANGED <<fileLog, pipeLog, fault, log>>
    BY <1>1, <1>4, KeptCapture DEF Capture, outputVars
  <2>. QED  BY <2>1 DEF KeptIsWritten, Written
<1>5. CASE Output /\ OMTake
  <2>. SUFFICES ASSUME ~fault' PROVE KeptIsWritten'
    BY DEF KeptIsWritten
  <2>. DEFINE p == Head(queue)
  <2>1. /\ p \in Packets /\ queue # << >> /\ HandlePacket(p, FALSE) /\ log' = log
        /\ departed' = Append(departed, p) /\ evicted' = evicted
    BY <1>5, HandledPacket DEF OMTake
  <2>2. Kept' = Append(Kept, p) /\ p \in CapturedPackets
    BY <1>1, <2>1, KeptTake, HeadIsNew
  <2>. HIDE DEF p
  <2>3. /\ ~fault
        /\ log.file # "off" => \E r \in FileRecords :
                                 r.packet = p /\ fileLog' = Append(fileLog, r)
        /\ log.pipe # "off" => \E r \in PipeRecords :
                                 r.packet = p /\ pipeLog' = Append(pipeLog, r)
    BY <1>1, <2>1, HandleWrites
  <2>4. log.file # "off" => Written(fileLog') = Append(Written(fileLog), p)
    <3>. SUFFICES ASSUME log.file # "off"
                  PROVE  Written(fileLog') = Append(Written(fileLog), p)
      OBVIOUS
    <3>1. PICK r \in FileRecords : r.packet = p /\ fileLog' = Append(fileLog, r)
      BY <2>3
    <3>. QED  BY <1>2, <1>3, <2>2, <3>1, WrittenAppend
  <2>5. log.pipe # "off" => Written(pipeLog') = Append(Written(pipeLog), p)
    <3>. SUFFICES ASSUME log.pipe # "off"
                  PROVE  Written(pipeLog') = Append(Written(pipeLog), p)
      OBVIOUS
    <3>1. PICK r \in PipeRecords : r.packet = p /\ pipeLog' = Append(pipeLog, r)
      BY <2>3
    <3>. QED  BY <1>2, <1>3, <2>2, <3>1, WrittenAppend
  <2>. QED  BY <2>1, <2>2, <2>3, <2>4, <2>5 DEF KeptIsWritten
<1>6. CASE Output /\ OMSimulate
  <2>. SUFFICES ASSUME ~fault' PROVE KeptIsWritten'
    BY DEF KeptIsWritten
  <2>1. PICK p \in Packets : HandlePacket(p, TRUE) /\ p.n = 0
    BY <1>6, HandledPacket
  <2>2. UNCHANGED <<log, departed, evicted>> /\ p \notin CapturedPackets
    BY <1>6, <2>1 DEF OMSimulate, queueVars, CapturedPackets
  <2>3. /\ ~fault
        /\ log.file # "off" => \E r \in FileRecords :
                                 r.packet = p /\ fileLog' = Append(fileLog, r)
        /\ log.pipe # "off" => \E r \in PipeRecords :
                                 r.packet = p /\ pipeLog' = Append(pipeLog, r)
    BY <1>1, <2>1, HandleWrites
  <2>4. log.file # "off" => Written(fileLog') = Written(fileLog)
    <3>. SUFFICES ASSUME log.file # "off"
                  PROVE  Written(fileLog') = Written(fileLog)
      OBVIOUS
    <3>1. PICK r \in FileRecords : r.packet = p /\ fileLog' = Append(fileLog, r)
      BY <2>3
    <3>. QED  BY <1>2, <1>3, <2>2, <3>1, WrittenAppend
  <2>5. log.pipe # "off" => Written(pipeLog') = Written(pipeLog)
    <3>. SUFFICES ASSUME log.pipe # "off"
                  PROVE  Written(pipeLog') = Written(pipeLog)
      OBVIOUS
    <3>1. PICK r \in PipeRecords : r.packet = p /\ pipeLog' = Append(pipeLog, r)
      BY <2>3
    <3>. QED  BY <1>2, <1>3, <2>2, <3>1, WrittenAppend
  <2>. QED  BY <2>2, <2>3, <2>4, <2>5 DEF KeptIsWritten, Kept
<1>7. CASE UNCHANGED <<log, departed, evicted, fileLog, pipeLog, fault>>
  BY <1>7 DEF KeptIsWritten, Kept, Written, PacketsOf
<1>. QED  BY <1>4, <1>5, <1>6, <1>7, HistorySteps

\* In a session without a fault the captured packets in the files, and those
\* handed to the pipes, are the packets that left the queue without being
\* evicted, in order and without repetition (output_manager.cpp:98-141).
THEOREM KeptPacketsAreWritten == Spec => []KeptIsWritten
<1>1. Init => IInv /\ NumberedInv /\ KeptIsWritten
  <2>1. Init => KeptIsWritten
    <3>. SUFFICES ASSUME Init PROVE KeptIsWritten
      OBVIOUS
    <3>1. departed = << >> /\ fileLog = << >> /\ pipeLog = << >>
      BY DEF Init, OMInit
    <3>2. PacketsOf(<< >>) = << >>
      BY DEF PacketsOf
    <3>3. Kept = << >> /\ Written(fileLog) = << >> /\ Written(pipeLog) = << >>
      BY <3>1, <3>2, SelectedEmpty DEF Kept, Written
    <3>. QED  BY <3>3 DEF KeptIsWritten
  <2>. QED  BY <2>1, InvInit, NumberedInit
<1>2. IInv /\ NumberedInv /\ KeptIsWritten /\ [Next]_vars
        => (IInv /\ NumberedInv /\ KeptIsWritten)'
  BY InvNext, NumberedNext, KeptNext
<1>. QED  BY <1>1, <1>2, PTL DEF Spec

----------------------------------------------------------------------------
\* The queue as a channel

Distinct(s) == \A i, j \in DOMAIN s : i # j => s[i] # s[j]
PlaceIn(s, p) == CHOOSE i \in DOMAIN s : s[i] = p
PlacesIn(s, t) == { PlaceIn(s, t[i]) : i \in DOMAIN t }

\* In a sequence of different elements an element has one place.
LEMMA OnePlace ==
  ASSUME NEW s, Distinct(s), NEW i \in DOMAIN s
  PROVE  PlaceIn(s, s[i]) = i
BY DEF Distinct, PlaceIn

\* What waits in the queue are the places behind those of the packets that left.
LEMMA WaitingPlaces ==
  ASSUME NEW a, NEW d \in Seq(Packets), NEW q \in Seq(Packets), a = d \o q, Distinct(a)
  PROVE  PlacesIn(a, q) = Len(d) + 1 .. Len(a)
<1>1. /\ Len(a) = Len(d) + Len(q) /\ Len(d) \in Nat /\ Len(q) \in Nat
      /\ DOMAIN q = 1 .. Len(q) /\ DOMAIN a = 1 .. Len(a)
      /\ \A i \in 1 .. Len(d) + Len(q) : a[i] = IF i <= Len(d) THEN d[i] ELSE q[i - Len(d)]
  BY ConcatProperties
<1>2. ASSUME NEW i \in DOMAIN q
      PROVE  Len(d) + i \in DOMAIN a /\ PlaceIn(a, q[i]) = Len(d) + i
  <2>1. Len(d) + i \in DOMAIN a /\ a[Len(d) + i] = q[i]
    BY <1>1
  <2>. QED  BY <2>1, OnePlace
<1>3. PlacesIn(a, q) \subseteq Len(d) + 1 .. Len(a)
  BY <1>1, <1>2 DEF PlacesIn
<1>4. ASSUME NEW n \in Len(d) + 1 .. Len(a)
      PROVE  n \in PlacesIn(a, q)
  <2>1. n - Len(d) \in DOMAIN q /\ Len(d) + (n - Len(d)) = n
    BY <1>1
  <2>2. PlaceIn(a, q[n - Len(d)]) = n
    BY <1>2, <2>1
  <2>. QED  BY <2>1, <2>2 DEF PlacesIn
<1>. QED  BY <1>3, <1>4

\* The packets that were kept are packets that left, hence accepted ones.
LEMMA KeptAccepted ==
  ASSUME TypeOK, Accounting
  PROVE  /\ Kept \in Seq(Packets)
         /\ \A i \in DOMAIN Kept : \E j \in DOMAIN accepted : Kept[i] = accepted[j]
<1>. DEFINE Departed == { departed[i] : i \in DOMAIN departed }
            S == Departed \cap (Packets \ evicted)
<1>1. departed \in Seq(Packets)
  BY DEF TypeOK, OMTypeOK
<1>2. departed \in Seq(Departed)
  BY <1>1
<1>3. Kept \in Seq(S)
  <2>. HIDE DEF Departed
  <2>. QED  BY <1>2, SelectedType DEF Kept
<1>4. \A e \in S : e \in Packets /\ \E j \in DOMAIN accepted : e = accepted[j]
  BY HeadIsNext
<1>. HIDE DEF S
<1>5. \A i \in DOMAIN Kept : Kept[i] \in S
  BY <1>3
<1>6. Kept \in Seq(Packets)
  BY <1>3, <1>4, <1>5
<1>. QED  BY <1>4, <1>5, <1>6

\* The last packet handled keeps its place when others are accepted.
LEMMA PlaceStays ==
  ASSUME NEW s \in Seq(Packets), NEW e \in Packets, NEW t, t = Append(s, e),
         Distinct(s), Distinct(t), NEW i \in DOMAIN s
  PROVE  PlaceIn(t, s[i]) = PlaceIn(s, s[i])
<1>1. i \in DOMAIN t /\ t[i] = s[i]
  OBVIOUS
<1>2. PlaceIn(t, t[i]) = i /\ PlaceIn(s, s[i]) = i
  BY <1>1, OnePlace
<1>. QED  BY <1>1, <1>2

LEMMA ChannelInit == Init => QueueChannel!Init
<1>. SUFFICES ASSUME Init PROVE QueueChannel!Init
  OBVIOUS
<1>1. accepted = << >> /\ queue = << >> /\ departed = << >>
  BY DEF Init, OMInit
<1>2. Len(accepted) = 0
  BY <1>1
<1>3. Waiting = {}
  <2>1. DOMAIN queue = {}
    BY <1>1
  <2>. QED  BY <2>1 DEF Waiting
<1>4. LastHandled = 0
  BY <1>1, SelectedEmpty DEF LastHandled, Kept
<1>. QED  BY <1>2, <1>3, <1>4 DEF QueueChannel!Init

\* A capture is an acceptance, in place of the oldest if the queue is full.
LEMMA ChannelCapture ==
  ASSUME IInv, NumberedInv, IInv', NumberedInv', NEW d \in Devices, Capture(d)
  PROVE  QueueChannel!Accept(PacketQueue)
<1>1. /\ TypeOK /\ Accounting /\ TypeOK' /\ Accounting'
  BY DEF IInv
<1>2. PICK p \in Packets : AddPacket(p)
  BY <1>1, CapturedPacket DEF Capture
<1>3. /\ accepted \in Seq(Packets) /\ queue \in Seq(Packets) /\ departed \in Seq(Packets)
      /\ accepted' \in Seq(Packets) /\ queue' \in Seq(Packets) /\ departed' \in Seq(Packets)
      /\ accepted = departed \o queue /\ accepted' = departed' \o queue'
  BY <1>1 DEF TypeOK, OMTypeOK, Accounting
<1>4. accepted' = Append(accepted, p) /\ Distinct(accepted) /\ Distinct(accepted')
  BY <1>2 DEF AddPacket, NumberedInv, Distinct
<1>5. Waiting = Len(departed) + 1 .. Len(accepted)
  <2>1. PlacesIn(accepted, queue) = Len(departed) + 1 .. Len(accepted)
    BY <1>3, <1>4, WaitingPlaces
  <2>. QED  BY <2>1 DEF Waiting, Place, PlacesIn, PlaceIn
<1>6. Waiting' = Len(departed') + 1 .. Len(accepted')
  <2>1. PlacesIn(accepted', queue') = Len(departed') + 1 .. Len(accepted')
    BY <1>3, <1>4, WaitingPlaces
  <2>. QED  BY <2>1 DEF Waiting, Place, PlacesIn, PlaceIn
<1>7. LastHandled' = LastHandled
  <2>1. Kept' = Kept
    BY <1>1, KeptCapture
  <2>2. CASE Kept = << >>
    BY <2>1, <2>2 DEF LastHandled
  <2>3. CASE Kept # << >>
    <3>1. Kept \in Seq(Packets) /\ Len(Kept) \in DOMAIN Kept
      BY <1>1, <2>3, KeptAccepted
    <3>2. PICK e : e = Kept[Len(Kept)]
      OBVIOUS
    <3>3. PICK i \in DOMAIN accepted : e = accepted[i]
      BY <1>1, <3>1, <3>2, KeptAccepted
    <3>4. PlaceIn(accepted', e) = PlaceIn(accepted, e)
      BY <1>3, <1>4, <3>3, PlaceStays
    <3>. QED  BY <2>1, <2>3, <3>2, <3>4 DEF LastHandled, Place, PlaceIn
  <2>. QED  BY <2>2, <2>3
<1>8. /\ Len(accepted) \in Nat /\ Len(accepted') = Len(accepted) + 1
      /\ Len(departed) \in Nat /\ Len(accepted) = Len(departed) + Len(queue) /\ Len(queue) \in Nat
  BY <1>3, <1>4, ConcatProperties
<1>9. \E lost \in SUBSET Waiting :
        /\ \A n \in lost : \A m \in Waiting : n <= m
        /\ Waiting' = (Waiting \ lost) \cup {Len(accepted) + 1}
  <2>1. CASE Full
    <3>1. Len(departed') = Len(departed) + 1
      BY <1>2, <1>3, <2>1 DEF AddPacket
    <3>2. Len(queue) >= 1
      BY <1>8, <2>1, QueueMaxAssumption DEF Full
    <3>. DEFINE lost == {Len(departed) + 1}
    <3>3. lost \in SUBSET Waiting /\ \A n \in lost : \A m \in Waiting : n <= m
      BY <1>5, <1>8, <3>2
    <3>4. Waiting' = (Waiting \ lost) \cup {Len(accepted) + 1}
      BY <1>5, <1>6, <1>8, <3>1, <3>2
    <3>. QED  BY <3>3, <3>4
  <2>2. CASE ~Full
    <3>1. Len(departed') = Len(departed)
      BY <1>2, <2>2 DEF AddPacket
    <3>2. Waiting' = (Waiting \ {}) \cup {Len(accepted) + 1}
      BY <1>5, <1>6, <1>8, <3>1
    <3>. QED  BY <3>2
  <2>. QED  BY <2>1, <2>2
<1>. QED  BY <1>7, <1>8, <1>9 DEF QueueChannel!Accept, QueueChannel!Oldest

\* The packet that the output thread pops is the oldest and is delivered.
LEMMA ChannelTake ==
  ASSUME IInv, NumberedInv, IInv', NumberedInv', OMTake
  PROVE  QueueChannel!Deliver(PacketQueue)
<1>1. /\ TypeOK /\ Accounting /\ TypeOK' /\ Accounting'
  BY DEF IInv
<1>2. /\ queue # << >> /\ departed' = Append(departed, Head(queue))
      /\ UNCHANGED <<accepted, evicted>>
  BY DEF OMTake
<1>3. /\ accepted \in Seq(Packets) /\ queue \in Seq(Packets) /\ departed \in Seq(Packets)
      /\ queue' \in Seq(Packets) /\ departed' \in Seq(Packets)
      /\ accepted = departed \o queue /\ accepted' = departed' \o queue'
  BY <1>1 DEF TypeOK, OMTypeOK, Accounting
<1>4. Distinct(accepted) /\ Distinct(accepted')
  BY DEF NumberedInv, Distinct
<1>5. Waiting = Len(departed) + 1 .. Len(accepted)
  <2>1. PlacesIn(accepted, queue) = Len(departed) + 1 .. Len(accepted)
    BY <1>3, <1>4, WaitingPlaces
  <2>. QED  BY <2>1 DEF Waiting, Place, PlacesIn, PlaceIn
<1>6. Waiting' = Len(departed') + 1 .. Len(accepted')
  <2>1. PlacesIn(accepted', queue') = Len(departed') + 1 .. Len(accepted')
    BY <1>3, <1>4, WaitingPlaces
  <2>. QED  BY <2>1 DEF Waiting, Place, PlacesIn, PlaceIn
<1>7. /\ Head(queue) \in Packets /\ Len(departed) + 1 \in DOMAIN accepted
      /\ Head(queue) = accepted[Len(departed) + 1]
  BY <1>1, <1>2, HeadIsNext
<1>8. LastHandled' = Len(departed) + 1
  <2>1. Kept' = Append(Kept, Head(queue)) /\ Kept \in Seq(Packets)
    BY <1>1, <1>2, KeptTake, KeptAccepted
  <2>2. PICK k \in Seq(Packets) : k = Kept'
    BY <1>7, <2>1
  <2>3. k # << >> /\ k[Len(k)] = Head(queue)
    BY <1>7, <2>1, <2>2
  <2>4. PlaceIn(accepted, Head(queue)) = Len(departed) + 1
    BY <1>4, <1>7, OnePlace
  <2>. QED  BY <1>2, <2>2, <2>3, <2>4 DEF LastHandled, Place, PlaceIn
<1>9. /\ Len(departed) \in Nat /\ Len(accepted) = Len(departed) + Len(queue)
      /\ Len(queue) \in Nat /\ Len(queue) >= 1 /\ Len(departed') = Len(departed) + 1
  BY <1>2, <1>3, <1>7, ConcatProperties, EmptySeq
<1>10. /\ Len(departed) + 1 \in Waiting
       /\ \A m \in Waiting : Len(departed) + 1 <= m
       /\ Waiting' = Waiting \ {Len(departed) + 1}
  BY <1>2, <1>5, <1>6, <1>9
<1>11. Len(accepted') = Len(accepted)
  BY <1>2
<1>. QED  BY <1>8, <1>10, <1>11 DEF QueueChannel!Deliver, QueueChannel!Oldest

\* Every step is a step of the channel or none.
LEMMA ChannelStep ==
  ASSUME IInv, NumberedInv, IInv', NumberedInv', [Next]_vars
  PROVE  [QueueChannel!Next]_(QueueChannel!vars)
<1>1. CASE \E d \in Devices : Capture(d)
  BY <1>1, ChannelCapture DEF QueueChannel!Next
<1>2. CASE OMTake
  BY <1>2, ChannelTake DEF QueueChannel!Next
<1>3. CASE UNCHANGED <<queue, accepted, departed, evicted>>
  <2>1. UNCHANGED <<Waiting, LastHandled>>
    BY <1>3 DEF Waiting, LastHandled, Kept, Place
  <2>. QED  BY <1>3, <2>1 DEF QueueChannel!vars
<1>4. CASE OMSimulate
  <2>1. UNCHANGED <<queue, accepted, departed, evicted>>
    BY <1>4 DEF OMSimulate, queueVars
  <2>. QED  BY <1>3, <2>1
<1>. QED  BY <1>1, <1>2, <1>3, <1>4, HistorySteps

\* For every number of devices and every limit, the packet queue is a lossy
\* channel: each packet that add_packet accepts is handled once, in order, or
\* gives way to a newer one as the oldest (output_manager.cpp:42-53, 176-182).
THEOREM QueueIsLossyChannel == Spec => QueueLosesOldest
<1>1. Init => IInv /\ NumberedInv /\ QueueChannel!Init
  BY InvInit, NumberedInit, ChannelInit
<1>2. IInv /\ NumberedInv /\ [Next]_vars => (IInv /\ NumberedInv)'
  BY InvNext, NumberedNext
<1>3. IInv /\ NumberedInv /\ IInv' /\ NumberedInv' /\ [Next]_vars
        => [QueueChannel!Next]_(QueueChannel!vars)
  BY ChannelStep
<1>. QED  BY <1>1, <1>2, <1>3, PTL DEF Spec, QueueLosesOldest, QueueChannel!Spec

----------------------------------------------------------------------------
\* The saved key packets

BeforeLoop == omPc \in {"none", "spawned"}
BeforeClose == omPc \in {"testRunning", "testEmpty", "peek", "take", "close"}

\* How many saved packets the h-th pipe has got.
Rounds(h) == simStep \div Len(pipes) + (IF h <= simStep % Len(pipes) THEN 1 ELSE 0)

\* Pipes have different owners; loadAndSimulateKeyPackets gives them the saved
\* packets in turn.
TurnInv ==
  /\ BeforeLoop => simStep = 0 /\ pipeLog = << >>
  /\ \A g, h \in DOMAIN pipes : pipes[g].owner = pipes[h].owner => g = h
  /\ omPc = "simulate" =>
       /\ log.simulation
       /\ simStep <= Len(disk) * Len(pipes)
       /\ \A h \in DOMAIN pipes : Len(RecordsOf(pipes[h].owner)) = Rounds(h)
       /\ \A h \in DOMAIN pipes :
            \A i \in DOMAIN RecordsOf(pipes[h].owner) :
              RecordsOf(pipes[h].owner)[i].packet.n = 0

\* The pipe of the h-th handler gets a record if it is for its owner.
LEMMA RecordsAppend ==
  ASSUME TypeOK, NEW r \in PipeRecords, pipeLog' = Append(pipeLog, r), NEW owner
  PROVE  /\ RecordsOf(owner) \in Seq(PipeRecords)
         /\ Selected(pipeLog', RecordsFor(owner)) =
              IF r.to = owner THEN Append(RecordsOf(owner), r) ELSE RecordsOf(owner)
<1>1. pipeLog \in Seq(PipeRecords)
  BY DEF TypeOK, OMTypeOK
<1>2. Selected(pipeLog, RecordsFor(owner)) \in Seq(PipeRecords \cap RecordsFor(owner))
  BY <1>1, SelectedType
<1>3. RecordsOf(owner) \in Seq(PipeRecords)
  BY <1>2, SeqMonotonic DEF RecordsOf
<1>4. r \in RecordsFor(owner) <=> r.to = owner
  BY DEF PipeRecords, RecordsFor
<1>5. Selected(Append(pipeLog, r), RecordsFor(owner)) =
        IF r \in RecordsFor(owner) THEN Append(Selected(pipeLog, RecordsFor(owner)), r)
                                   ELSE Selected(pipeLog, RecordsFor(owner))
  BY <1>1, SelectedAppend
<1>. QED  BY <1>3, <1>4, <1>5, Zenon DEF RecordsOf

\* One more round for the handler whose turn it is, none for the others.
LEMMA NextTurn ==
  ASSUME NEW k \in Nat, NEW n \in Nat \ {0}, NEW h \in 1 .. n
  PROVE  (k + 1) \div n + (IF h <= (k + 1) % n THEN 1 ELSE 0)
           = k \div n + (IF h <= k % n THEN 1 ELSE 0) + (IF h = (k % n) + 1 THEN 1 ELSE 0)
<1>1. PICK q \in Nat, r \in 0 .. n - 1 : k = q * n + r
  BY Divided
<1>2. k \div n = q /\ k % n = r
  BY <1>1, Division
<1>3. CASE r < n - 1
  <2>1. k + 1 = q * n + (r + 1) /\ r + 1 \in 0 .. n - 1
    BY <1>1, <1>3
  <2>2. (k + 1) \div n = q /\ (k + 1) % n = r + 1
    BY <2>1, Division
  <2>. QED  BY <1>2, <2>2
<1>4. CASE r = n - 1
  <2>1. k + 1 = (q + 1) * n + 0
    BY <1>1, <1>4
  <2>2. q + 1 \in Nat /\ 0 \in 0 .. n - 1
    OBVIOUS
  <2>3. ((q + 1) * n + 0) \div n = q + 1 /\ ((q + 1) * n + 0) % n = 0
    BY <2>2, Division
  <2>4. (k + 1) \div n = q + 1 /\ (k + 1) % n = 0
    BY <2>1, <2>3
  <2>. QED  BY <1>2, <1>4, <2>4
<1>. QED  BY <1>3, <1>4

\* The pipes opened for a listing have different owners.
LEMMA OpenedOwners ==
  ASSUME NEW set \in SUBSET Devices, NEW s \in Listings(set), TypeOK,
         NEW g \in DOMAIN PipesFor(s), NEW h \in DOMAIN PipesFor(s),
         PipesFor(s)[g].owner = PipesFor(s)[h].owner
  PROVE  g = h
<1>1. s \in Seq(Devices) /\ Len(s) \in Nat /\ Len(s) = Cardinality(set)
  BY ListingType
<1>2. CASE log.pipe = "split"
  <2>1. /\ g \in 1 .. Len(s) /\ h \in 1 .. Len(s) /\ s[g] = s[h]
        /\ s[g] \in Nat /\ s[h] \in Nat
    BY <1>1, <1>2, NumDevicesAssumption DEF PipesFor, Devices
  <2>2. (g < h => s[g] < s[h]) /\ (h < g => s[h] < s[g])
    BY <1>1, <2>1 DEF Listings
  <2>. QED  BY <2>1, <2>2
<1>3. CASE log.pipe = "single"
  BY <1>3 DEF PipesFor
<1>4. CASE log.pipe = "off"
  BY <1>4 DEF PipesFor
<1>. QED  BY <1>2, <1>3, <1>4 DEF TypeOK, OMTypeOK, Settings, Modes

\* What nobody touches stays as it is, whatever the threads of the pipes do.
LEMMA SameTurn ==
  ASSUME TypeOK, TypeOK', TurnInv, KeysReachPipesFirst,
         UNCHANGED <<log, omPc, simStep, disk, pipeLog>>,
         DOMAIN pipes' = DOMAIN pipes,
         \A h \in DOMAIN pipes : pipes'[h].owner = pipes[h].owner
  PROVE  TurnInv' /\ KeysReachPipesFirst'
<1>1. Len(pipes') = Len(pipes)
  <2>1. pipes \in Seq(Handlers) /\ pipes' \in Seq(Handlers)
    BY DEF TypeOK, OMTypeOK
  <2>. QED  BY <2>1
<1>2. \A h \in DOMAIN pipes :
        Selected(pipeLog', RecordsFor(pipes'[h].owner)) = RecordsOf(pipes[h].owner)
  BY DEF RecordsOf
<1>3. TurnInv'
  <2>1. BeforeLoop' => simStep' = 0 /\ pipeLog' = << >>
    BY DEF TurnInv, BeforeLoop
  <2>2. \A g, h \in DOMAIN pipes' : pipes'[g].owner = pipes'[h].owner => g = h
    BY DEF TurnInv
  <2>3. ASSUME omPc' = "simulate"
        PROVE  /\ log'.simulation
               /\ simStep' <= Len(disk') * Len(pipes')
               /\ \A h \in DOMAIN pipes' :
                    Len(Selected(pipeLog', RecordsFor(pipes'[h].owner)))
                      = simStep' \div Len(pipes') + (IF h <= simStep' % Len(pipes') THEN 1 ELSE 0)
               /\ \A h \in DOMAIN pipes' :
                    \A i \in DOMAIN Selected(pipeLog', RecordsFor(pipes'[h].owner)) :
                      Selected(pipeLog', RecordsFor(pipes'[h].owner))[i].packet.n = 0
    <3>1. /\ log.simulation /\ simStep <= Len(disk) * Len(pipes)
          /\ \A h \in DOMAIN pipes : Len(RecordsOf(pipes[h].owner)) = Rounds(h)
          /\ \A h \in DOMAIN pipes :
               \A i \in DOMAIN RecordsOf(pipes[h].owner) :
                 RecordsOf(pipes[h].owner)[i].packet.n = 0
      BY <2>3 DEF TurnInv
    <3>2. \A h \in DOMAIN pipes :
            Rounds(h) = simStep' \div Len(pipes') + (IF h <= simStep' % Len(pipes') THEN 1 ELSE 0)
      BY <1>1 DEF Rounds
    <3>. QED  BY <1>1, <1>2, <3>1, <3>2
  <2>. QED  BY <2>1, <2>2, <2>3 DEF TurnInv, Rounds, RecordsOf, RecordsFor
<1>4. KeysReachPipesFirst'
  <2>. SUFFICES ASSUME log'.simulation, BeforeClose',
                       NEW h \in DOMAIN pipes'
                PROVE  LET records == Selected(pipeLog', RecordsFor(pipes'[h].owner))
                       IN  /\ Len(records) >= Len(disk')
                           /\ \A i \in DOMAIN records :
                                (records[i].packet.n = 0) = (i <= Len(disk'))
    BY DEF KeysReachPipesFirst, BeforeClose, RecordsOf, RecordsFor
  <2>1. log.simulation /\ BeforeClose
    BY DEF BeforeClose
  <2>2. /\ Len(RecordsOf(pipes[h].owner)) >= Len(disk)
        /\ \A i \in DOMAIN RecordsOf(pipes[h].owner) :
             (RecordsOf(pipes[h].owner)[i].packet.n = 0) = (i <= Len(disk))
    BY <2>1, Zenon DEF KeysReachPipesFirst, BeforeClose
  <2>. QED  BY <1>2, <2>2
<1>. QED  BY <1>3, <1>4

\* One saved packet goes to the pipe whose turn it is.
LEMMA TurnSimulate ==
  ASSUME IInv, IInv', TurnInv, Output, OMSimulate
  PROVE  TurnInv' /\ KeysReachPipesFirst'
<1>1. TypeOK /\ PipesInv
  BY DEF IInv, OutputsInv
<1>2. PICK p \in Packets : /\ HandlePacket(p, TRUE)
                           /\ p.n = 0 /\ p.id = simStep % Len(pipes)
                           /\ p.id \in 0 .. Len(pipes) - 1
  BY HandledPacket
<1>3. /\ omPc = "simulate" /\ simStep < Len(disk) * Len(pipes)
      /\ simStep' = simStep + 1
      /\ UNCHANGED <<log, omPc, disk, pipes>>
  BY <1>2 DEF OMSimulate, HandlePacket
<1>4. /\ simStep \in Nat /\ Len(disk) \in Nat /\ Len(pipes) \in Nat
      /\ pipes \in Seq(Handlers) /\ DOMAIN pipes = 1 .. Len(pipes)
  BY <1>1 DEF TypeOK, OMTypeOK
<1>5. Len(pipes) \in Nat \ {0}
  BY <1>2, <1>4
<1>6. simStep' <= Len(disk) * Len(pipes)
  <2>1. Len(disk) * Len(pipes) \in Nat
    BY <1>4
  <2>. QED  BY <1>3, <1>4, <2>1
<1>. DEFINE turn == (simStep % Len(pipes)) + 1
<1>7. /\ log.pipe # "off"
      /\ Slot(log.pipe, p) = turn /\ turn \in DOMAIN pipes
  <2>1. canRun /\ log.pipe # "off"
    BY <1>1, <1>3, SimulatedPacket
  <2>2. turn \in DOMAIN pipes
    BY <1>2, <1>4
  <2>3. CASE log.pipe = "split"
    BY <1>2, <2>1, <2>2, <2>3 DEF Slot
  <2>4. CASE log.pipe = "single"
    <3>1. Len(pipes) = 1
      BY <1>1, <2>1, <2>4 DEF PipesInv
    <3>2. turn = 1
      BY <1>4, <2>2, <3>1
    <3>. QED  BY <2>1, <2>2, <2>4, <3>2 DEF Slot
  <2>. QED  BY <1>1, <2>1, <2>3, <2>4 DEF TypeOK, OMTypeOK, Settings, Modes
<1>. HIDE DEF turn
<1>8. PICK r \in PipeRecords : /\ r.packet = p /\ r.to = pipes[turn].owner
                               /\ pipeLog' = Append(pipeLog, r)
  <2>1. PICK key \in BOOLEAN : HandOver(p, key)
    BY <1>2 DEF HandlePacket
  <2>. DEFINE r == [to |-> pipes[turn].owner, packet |-> p, key |-> key]
  <2>2. pipeLog' = Append(pipeLog, r)
    BY <1>7, <2>1 DEF HandOver
  <2>3. pipes[turn] \in Handlers
    BY <1>4, <1>7
  <2>4. r \in PipeRecords
    BY <2>3 DEF PipeRecords, Handlers
  <2>. QED  BY <2>2, <2>4
<1>9. ASSUME NEW h \in DOMAIN pipes
      PROVE  LET old == RecordsOf(pipes[h].owner)
                 new == Selected(pipeLog', RecordsFor(pipes[h].owner))
             IN  /\ Len(new) = (simStep + 1) \div Len(pipes)
                                 + (IF h <= (simStep + 1) % Len(pipes) THEN 1 ELSE 0)
                 /\ \A i \in DOMAIN new : new[i].packet.n = 0
  <2>. DEFINE old == RecordsOf(pipes[h].owner)
              new == Selected(pipeLog', RecordsFor(pipes[h].owner))
  <2>1. /\ old \in Seq(PipeRecords)
        /\ new = IF r.to = pipes[h].owner THEN Append(old, r) ELSE old
    BY <1>1, <1>8, RecordsAppend
  <2>2. r.to = pipes[h].owner <=> h = turn
    BY <1>7, <1>8 DEF TurnInv
  <2>3. /\ Len(old) = Rounds(h)
        /\ \A i \in DOMAIN old : old[i].packet.n = 0
    BY <1>3 DEF TurnInv
  <2>. HIDE DEF old, new
  <2>4. \A i \in DOMAIN new : new[i].packet.n = 0
    BY <1>2, <1>8, <2>1, <2>3
  <2>5. Len(new) = Len(old) + (IF h = turn THEN 1 ELSE 0)
    BY <2>1, <2>2
  <2>6. h \in 1 .. Len(pipes)
    BY <1>4
  <2>7. (simStep + 1) \div Len(pipes) + (IF h <= (simStep + 1) % Len(pipes) THEN 1 ELSE 0)
          = Rounds(h) + (IF h = turn THEN 1 ELSE 0)
    BY <1>4, <1>5, <2>6, NextTurn DEF Rounds, turn
  <2>. QED  BY <2>3, <2>4, <2>5, <2>7 DEF new
<1>10. TurnInv'
  <2>1. ~BeforeLoop' /\ log'.simulation
    BY <1>3 DEF TurnInv, BeforeLoop
  <2>2. \A g, h \in DOMAIN pipes : pipes[g].owner = pipes[h].owner => g = h
    BY DEF TurnInv
  <2>3. simStep' <= Len(disk') * Len(pipes')
    BY <1>3, <1>6
  <2>4. \A h \in DOMAIN pipes :
          /\ Len(Selected(pipeLog', RecordsFor(pipes[h].owner)))
               = simStep' \div Len(pipes) + (IF h <= simStep' % Len(pipes) THEN 1 ELSE 0)
          /\ \A i \in DOMAIN Selected(pipeLog', RecordsFor(pipes[h].owner)) :
               Selected(pipeLog', RecordsFor(pipes[h].owner))[i].packet.n = 0
    BY <1>3, <1>9
  <2>. QED  BY <1>3, <2>1, <2>2, <2>3, <2>4 DEF TurnInv, Rounds, RecordsOf, RecordsFor
<1>11. KeysReachPipesFirst'
  BY <1>3 DEF KeysReachPipesFirst
<1>. QED  BY <1>10, <1>11

\* When all the rounds are over every pipe has got the saved packets.
LEMMA TurnSimulated ==
  ASSUME IInv, TurnInv, Output, OMSimulated
  PROVE  TurnInv' /\ KeysReachPipesFirst'
<1>1. /\ omPc = "simulate" /\ omPc' = "testRunning" /\ simStep >= Len(disk) * Len(pipes)
      /\ UNCHANGED <<log, pipes, pipeLog, disk, simStep>>
  BY DEF OMSimulated, SimulationOver, outputVars
<1>2. /\ simStep \in Nat /\ Len(disk) \in Nat /\ Len(pipes) \in Nat
      /\ DOMAIN pipes = 1 .. Len(pipes)
  BY DEF IInv, TypeOK, OMTypeOK
<1>3. simStep = Len(disk) * Len(pipes)
  <2>1. Len(disk) * Len(pipes) \in Nat
    BY <1>2
  <2>. QED  BY <1>1, <1>2, <2>1 DEF TurnInv
<1>4. ASSUME NEW h \in DOMAIN pipes
      PROVE  Rounds(h) = Len(disk)
  <2>1. Len(pipes) \in Nat \ {0} /\ h \in 1 .. Len(pipes)
    BY <1>2
  <2>2. simStep = Len(disk) * Len(pipes) + 0
    BY <1>2, <1>3
  <2>3. 0 \in 0 .. Len(pipes) - 1
    BY <2>1
  <2>4. /\ (Len(disk) * Len(pipes) + 0) \div Len(pipes) = Len(disk)
        /\ (Len(disk) * Len(pipes) + 0) % Len(pipes) = 0
    BY <1>2, <2>1, <2>3, Division
  <2>5. simStep \div Len(pipes) = Len(disk) /\ simStep % Len(pipes) = 0
    BY <2>2, <2>4
  <2>. QED  BY <1>2, <2>1, <2>5 DEF Rounds
<1>5. ASSUME NEW h \in DOMAIN pipes
      PROVE  /\ Len(RecordsOf(pipes[h].owner)) = Len(disk)
             /\ \A i \in DOMAIN RecordsOf(pipes[h].owner) :
                  /\ RecordsOf(pipes[h].owner)[i].packet.n = 0
                  /\ i <= Len(disk)
  <2>1. RecordsOf(pipes[h].owner) \in Seq(PipeRecords)
    <3>1. Selected(pipeLog, RecordsFor(pipes[h].owner))
            \in Seq(PipeRecords \cap RecordsFor(pipes[h].owner))
      BY SelectedType DEF IInv, TypeOK, OMTypeOK
    <3>. QED  BY <3>1, SeqMonotonic DEF RecordsOf
  <2>2. Len(RecordsOf(pipes[h].owner)) = Len(disk)
    BY <1>1, <1>4 DEF TurnInv
  <2>3. DOMAIN RecordsOf(pipes[h].owner) = 1 .. Len(disk)
    BY <2>1, <2>2
  <2>4. \A i \in DOMAIN RecordsOf(pipes[h].owner) : RecordsOf(pipes[h].owner)[i].packet.n = 0
    BY <1>1, Zenon DEF TurnInv
  <2>5. \A i \in 1 .. Len(disk) : i <= Len(disk)
    BY <1>2
  <2>. HIDE DEF RecordsOf
  <2>. QED  BY <2>2, <2>3, <2>4, <2>5
<1>6. TurnInv'
  BY <1>1 DEF TurnInv, BeforeLoop
<1>7. KeysReachPipesFirst'
  <2>1. \A h \in DOMAIN pipes :
          /\ Len(RecordsOf(pipes[h].owner)) >= Len(disk)
          /\ \A i \in DOMAIN RecordsOf(pipes[h].owner) :
               (RecordsOf(pipes[h].owner)[i].packet.n = 0) = (i <= Len(disk))
    BY <1>2, <1>5
  <2>. QED  BY <1>1, <2>1 DEF KeysReachPipesFirst, RecordsOf
<1>. QED  BY <1>6, <1>7

\* A captured packet comes after them.
LEMMA TurnTake ==
  ASSUME IInv, NumberedInv, TurnInv, KeysReachPipesFirst, Output, OMTake
  PROVE  TurnInv' /\ KeysReachPipesFirst'
<1>. DEFINE p == Head(queue)
<1>1. /\ p \in CapturedPackets /\ HandlePacket(p, FALSE) /\ p \in Packets
      /\ omPc = "take" /\ omPc' = "testRunning"
      /\ UNCHANGED <<log, pipes, disk, simStep>>
  BY HandledPacket, HeadIsNew DEF IInv, OMTake, HandlePacket
<1>2. TypeOK /\ pipeLog \in Seq(PipeRecords) /\ pipes \in Seq(Handlers) /\ Len(disk) \in Nat
  BY DEF IInv, TypeOK, OMTypeOK
<1>. HIDE DEF p
<1>3. p.n # 0
  BY <1>1 DEF CapturedPackets
<1>4. TurnInv'
  BY <1>1 DEF TurnInv, BeforeLoop
<1>5. KeysReachPipesFirst'
  <2>. SUFFICES ASSUME log.simulation, NEW h \in DOMAIN pipes
                PROVE  LET new == Selected(pipeLog', RecordsFor(pipes[h].owner))
                       IN  /\ Len(new) >= Len(disk)
                           /\ \A i \in DOMAIN new :
                                (new[i].packet.n = 0) = (i <= Len(disk))
    BY <1>1 DEF KeysReachPipesFirst, RecordsOf, RecordsFor
  <2>. DEFINE old == RecordsOf(pipes[h].owner)
              new == Selected(pipeLog', RecordsFor(pipes[h].owner))
  <2>1. /\ Len(old) >= Len(disk)
        /\ \A i \in DOMAIN old : (old[i].packet.n = 0) = (i <= Len(disk))
    BY <1>1, Zenon DEF KeysReachPipesFirst
  <2>2. CASE pipeLog' = pipeLog
    BY <2>1, <2>2 DEF RecordsOf
  <2>3. CASE pipeLog' # pipeLog
    <3>. SUFFICES /\ Len(new) >= Len(disk)
                  /\ \A i \in DOMAIN new : (new[i].packet.n = 0) = (i <= Len(disk))
      OBVIOUS
    <3>1. PICK r \in PipeRecords : r.packet = p /\ pipeLog' = Append(pipeLog, r)
      <4>1. PICK key \in BOOLEAN : HandOver(p, key)
        BY <1>1 DEF HandlePacket
      <4>. DEFINE slot == Slot(log.pipe, p)
                  r == [to |-> pipes[slot].owner, packet |-> p, key |-> key]
      <4>2. slot \in DOMAIN pipes /\ pipeLog' = Append(pipeLog, r)
        BY <2>3, <4>1 DEF HandOver
      <4>3. pipes[slot] \in Handlers
        BY <1>2, <4>2
      <4>4. r \in PipeRecords
        BY <1>1, <4>3 DEF PipeRecords, Handlers
      <4>. QED  BY <4>2, <4>4
    <3>2. /\ old \in Seq(PipeRecords)
          /\ new = IF r.to = pipes[h].owner THEN Append(old, r) ELSE old
      BY <1>2, <3>1, RecordsAppend
    <3>. HIDE DEF old, new
    <3>3. CASE new = old
      BY <2>1, <3>3
    <3>4. CASE new = Append(old, r)
      <4>1. /\ Len(new) = Len(old) + 1 /\ Len(old) \in Nat
            /\ DOMAIN new = 1 .. Len(old) + 1 /\ DOMAIN old = 1 .. Len(old)
            /\ new[Len(old) + 1] = r
            /\ \A i \in 1 .. Len(old) : new[i] = old[i]
        BY <3>2, <3>4
      <4>2. ASSUME NEW i \in DOMAIN new
            PROVE  (new[i].packet.n = 0) = (i <= Len(disk))
        <5>1. CASE i = Len(old) + 1
          BY <1>2, <1>3, <2>1, <3>1, <4>1, <5>1
        <5>2. CASE i # Len(old) + 1
          BY <2>1, <4>1, <5>2
        <5>. QED  BY <5>1, <5>2
      <4>. QED  BY <1>2, <2>1, <4>1, <4>2
    <3>. QED  BY <3>2, <3>3, <3>4
  <2>. QED  BY <2>2, <2>3
<1>. QED  BY <1>4, <1>5

\* Every step gives the pipes the saved packets first.
LEMMA TurnNext ==
  ASSUME IInv, NumberedInv, TurnInv, KeysReachPipesFirst, [Next]_vars
  PROVE  TurnInv' /\ KeysReachPipesFirst'
<1>1. TypeOK /\ ControlInv /\ IInv' /\ TypeOK'
  BY InvNext DEF IInv
<1>2. CASE mainPc \in {"connect", "init"}
  <2>1. ~Started /\ pipes = << >> /\ simStep = 0 /\ pipeLog = << >>
    BY <1>1, <1>2 DEF ControlInv, ThreadsInv, TurnInv, BeforeLoop, Started
  <2>2. CASE MainStep
    <3>1. omPc' = "none" /\ simStep' = 0 /\ pipeLog' = << >>
      BY <1>2, <2>1, <2>2 DEF Started, MainStep, ConfigureAllDevices, InitAllDevices, StreamAll,
                              JoinStreams, StopOutput, JoinOutput, MainReturn, omVars
    <3>2. \A g, h \in DOMAIN pipes' : pipes'[g].owner = pipes'[h].owner => g = h
      <4>1. CASE pipes' = pipes
        <5>1. DOMAIN << >> = {}
          OBVIOUS
        <5>. QED  BY <2>1, <4>1, <5>1
      <4>2. CASE pipes' # pipes
        <5>1. InitAllDevices
          BY <1>2, <2>2, <4>2 DEF MainStep, ConfigureAllDevices, StreamAll, JoinStreams,
                                  StopOutput, JoinOutput, MainReturn, omVars
        <5>2. PICK s \in Listings(ready') : pipes' = PipesFor(s)
          BY <4>2, <5>1 DEF InitAllDevices, Configure, ConfigureFails, ConfigureSucceeds
        <5>3. ready' \in SUBSET Devices
          BY <1>1 DEF TypeOK
        <5>. QED  BY <1>1, <5>2, <5>3, OpenedOwners
      <4>. QED  BY <4>1, <4>2
    <3>. QED  BY <3>1, <3>2 DEF TurnInv, KeysReachPipesFirst
  <2>3. CASE ~MainStep
    <3>1. UNCHANGED <<log, omPc, simStep, disk, pipeLog, pipes>>
      BY <1>2, <2>3, EarlySteps
    <3>. QED  BY <1>1, <3>1, SameTurn
  <2>. QED  BY <2>2, <2>3
<1>3. CASE mainPc \notin {"connect", "init"}
  <2>1. /\ UNCHANGED log /\ DOMAIN pipes' = DOMAIN pipes
        /\ \A h \in DOMAIN pipes : pipes'[h].owner = pipes[h].owner
    BY <1>1, <1>3, PipeSteps
  <2>2. CASE UNCHANGED <<omPc, simStep, disk, pipeLog>>
    BY <1>1, <2>1, <2>2, SameTurn
  <2>3. CASE Output
    <3>1. CASE OMBegin
      <4>1. /\ omPc = "spawned" /\ simStep' = 0 /\ pipeLog' = << >>
            /\ omPc' = IF log.simulation THEN "simulate" ELSE "testRunning"
            /\ UNCHANGED <<pipes, disk>>
        BY <3>1 DEF OMBegin, TurnInv, BeforeLoop, outputVars
      <4>2. /\ DOMAIN pipes = 1 .. Len(pipes) /\ Len(pipes) \in Nat /\ Len(disk) \in Nat
        BY <1>1 DEF TypeOK, OMTypeOK
      <4>3. /\ Len(<< >>) = 0 /\ DOMAIN << >> = {}
            /\ \A owner : Selected(<< >>, RecordsFor(owner)) = << >>
        BY SelectedEmpty
      <4>4. \A h \in DOMAIN pipes : 0 \div Len(pipes) = 0 /\ 0 % Len(pipes) = 0
        BY <4>2
      <4>5. 0 <= Len(disk) * Len(pipes)
        BY <4>2
      <4>6. \A h \in DOMAIN pipes :
              0 \div Len(pipes) + (IF h <= 0 % Len(pipes) THEN 1 ELSE 0) = 0
        BY <4>2, <4>4
      <4>7. TurnInv'
        <5>1. ~BeforeLoop' /\ (omPc' = "simulate" => log'.simulation)
          BY <2>1, <4>1 DEF BeforeLoop
        <5>2. \A g, h \in DOMAIN pipes' : pipes'[g].owner = pipes'[h].owner => g = h
          BY <4>1 DEF TurnInv
        <5>3. simStep' <= Len(disk') * Len(pipes')
          BY <4>1, <4>5
        <5>4. \A h \in DOMAIN pipes' :
                /\ Len(Selected(pipeLog', RecordsFor(pipes'[h].owner)))
                     = simStep' \div Len(pipes') + (IF h <= simStep' % Len(pipes') THEN 1 ELSE 0)
                /\ DOMAIN Selected(pipeLog', RecordsFor(pipes'[h].owner)) = {}
          BY <4>1, <4>3, <4>6
        <5>. QED  BY <5>1, <5>2, <5>3, <5>4 DEF TurnInv, Rounds, RecordsOf, RecordsFor
      <4>8. KeysReachPipesFirst'
        BY <2>1, <4>1 DEF KeysReachPipesFirst
      <4>. QED  BY <4>7, <4>8
    <3>2. CASE OMTest \/ OMPeek
      <4>1. /\ omPc \in {"testRunning", "testEmpty", "peek"} /\ ~BeforeLoop'
            /\ omPc' # "simulate"
            /\ UNCHANGED <<pipes, pipeLog, disk, simStep>>
        BY <3>2 DEF OMTest, OMPeek, LoopCondition, Peek, outputVars, BeforeLoop
      <4>2. TurnInv'
        BY <2>1, <4>1 DEF TurnInv
      <4>3. KeysReachPipesFirst'
        BY <2>1, <4>1 DEF KeysReachPipesFirst, RecordsOf
      <4>. QED  BY <4>2, <4>3
    <3>3. CASE OMClose \/ OMStopPipes \/ OMJoinPipes
      <4>1. omPc' \in {"stopPipes", "joinPipes", "done"}
        BY <3>3 DEF OMClose, OMStopPipes, OMJoinPipes
      <4>. QED  BY <2>1, <4>1 DEF TurnInv, BeforeLoop, KeysReachPipesFirst
    <3>. QED  BY <1>1, <2>3, <3>1, <3>2, <3>3, TurnSimulate, TurnSimulated, TurnTake
              DEF Output, OMStep
  <2>4. CASE MainStep
    <3>1. CASE StreamAll
      <4>1. /\ omPc' \in {omPc, "spawned"} /\ omPc \in {"none", omPc}
            /\ UNCHANGED <<log, simStep, pipeLog, pipes, disk>>
        BY <3>1 DEF StreamAll
      <4>2. CASE omPc' = omPc
        BY <2>2, <4>1, <4>2
      <4>3. CASE omPc' = "spawned" /\ omPc = "none"
        BY <4>1, <4>3 DEF TurnInv, BeforeLoop, KeysReachPipesFirst
      <4>4. omPc' = omPc \/ omPc = "none"
        BY <1>1, <3>1 DEF StreamAll, ControlInv, ThreadsInv, Started
      <4>. QED  BY <4>1, <4>2, <4>3, <4>4
    <3>2. CASE ~StreamAll
      <4>1. UNCHANGED <<omPc, simStep, disk, pipeLog>>
        BY <1>3, <2>4, <3>2 DEF MainStep, ConfigureAllDevices, InitAllDevices, JoinStreams,
                                StopOutput, JoinOutput, MainReturn, omVars
      <4>. QED  BY <2>2, <4>1
    <3>. QED  BY <3>1, <3>2
  <2>5. ~Output /\ ~MainStep => UNCHANGED <<omPc, simStep, disk, pipeLog>>
    <3>1. PipeHandlers => UNCHANGED <<omPc, simStep, disk, pipeLog>>
      BY DEF PipeHandlers, PipeThread, PipeStep
    <3>2. \A d \in Devices : DeviceStep(d) \/ Capture(d) \/ LinkLost(d)
                               => UNCHANGED <<omPc, simStep, disk, pipeLog>>
      BY DEF DeviceStep, EnterStream, ReceiveFails, LeaveStream, StopDevice, LinkLost, Capture,
             omVars, outputVars
    <3>3. Interrupt \/ UNCHANGED vars => UNCHANGED <<omPc, simStep, disk, pipeLog>>
      BY DEF Interrupt, vars, omVars
    <3>. QED  BY <3>1, <3>2, <3>3 DEF Next
  <2>. QED  BY <2>2, <2>3, <2>4, <2>5
<1>. QED  BY <1>2, <1>3

\* In a session with simulation every pipe gets all the saved key packets, and
\* gets them before any captured packet, whatever the devices do meanwhile
\* (output_manager.cpp:163-165, config.yaml:36-37).
THEOREM SavedKeysComeFirst == Spec => []KeysReachPipesFirst
<1>1. Init => IInv /\ NumberedInv /\ TurnInv /\ KeysReachPipesFirst
  <2>1. DOMAIN << >> = {}
    OBVIOUS
  <2>2. Init => TurnInv /\ KeysReachPipesFirst
    BY <2>1 DEF Init, OMInit, TurnInv, BeforeLoop, KeysReachPipesFirst
  <2>. QED  BY <2>2, InvInit, NumberedInit
<1>2. IInv /\ NumberedInv /\ TurnInv /\ KeysReachPipesFirst /\ [Next]_vars
        => (IInv /\ NumberedInv /\ TurnInv /\ KeysReachPipesFirst)'
  BY InvNext, NumberedNext, TurnNext
<1>. QED  BY <1>1, <1>2, PTL DEF Spec
=============================================================================
