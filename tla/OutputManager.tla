--------------------------- MODULE OutputManager ---------------------------
(***************************************************************************)
(* The output manager of a capture session (src/output_manager.cpp): a     *)
(* bounded packet queue filled by the device threads under m_mutex, and a  *)
(* thread that pops the packets, writes them to the log files and hands    *)
(* them to the pipe handlers.  This module holds the state and the         *)
(* operations; Sniffer.tla composes them with the main thread, the device  *)
(* threads and the signals.                                                *)
(*                                                                         *)
(* A packet is a record: the device that captured it, its place among the  *)
(* packets of that device (0 for a packet read from the saved key packets) *)
(* and the key or other encrypted command it carries, if any.              *)
(***************************************************************************)
EXTENDS Naturals, Sequences, FiniteSets

CONSTANTS
  NumDevices,    \* devices in the configuration
  QueueMax,      \* queue_max_size
  MaxPackets,    \* bound: packets one device captures
  MaxPeriods,    \* bound: times the log files are recreated
  Keys,          \* what encrypted commands in packets may carry
  OtherCommands, \* those of them that are no keys
  LogSettings,   \* the settings (log_s) a session may be started with
  SavedPackets   \* what the file of saved key packets may hold at the start

Devices == 0 .. NumDevices - 1
NoKey == "nokey"
Packets == [id : Devices, n : 0 .. MaxPackets, key : Keys \cup {NoKey}]
Modes == {"off", "single", "split"}
Settings == [file : Modes, pipe : Modes, reset : BOOLEAN,
             simulation : BOOLEAN, savePackets : BOOLEAN]

ASSUME NumDevicesAssumption == NumDevices \in Nat \ {0}
ASSUME QueueMaxAssumption == QueueMax \in Nat \ {0}
ASSUME BoundsAssumption == MaxPackets \in Nat /\ MaxPeriods \in Nat
ASSUME KeysAssumption == NoKey \notin Keys /\ OtherCommands \subseteq Keys
ASSUME SettingsAssumption == LogSettings \subseteq Settings
ASSUME SavedAssumption == SavedPackets \subseteq Seq(Packets)

VARIABLES
  log,         \* the settings of this session
  proc,        \* how the process stands
  queue,       \* packet_queue
  isRunning,   \* is_running
  canRun,      \* can_run
  logFiles,    \* log_files: what each open file was opened for
  period,      \* how often the log files have been recreated
  pipes,       \* log_pipes_handlers with the state of their threads
  timeBase,    \* the packet that set start_time, or none yet (is_first_packet)
  keys,        \* the keys the crypto handler knows
  keyPackets,  \* key_packets
  disk,        \* the file of saved key packets
  omPc,        \* where the output thread is
  simStep,     \* simulated packets handled so far
  accepted,    \* history: packets add_packet was called with, in order
  departed,    \* history: packets that left the queue, in order
  evicted,     \* history: packets that left it because it was full
  fileLog,     \* history: records written to log files
  pipeLog,     \* history: packets handed to pipe handlers
  fault        \* history: a vector was indexed past its end

outputVars == <<logFiles, period, pipes, timeBase, keys, keyPackets,
                fileLog, pipeLog, fault, proc>>
omVars == <<log, proc, queue, isRunning, canRun, logFiles, period, pipes,
            timeBase, keys, keyPackets, disk, omPc, simStep, accepted,
            departed, evicted, fileLog, pipeLog, fault>>

NoPacket == [id |-> 0, n |-> 0, key |-> "nopacket"]
Shared == NumDevices    \* the owner of a file or pipe that is not split

Owners == Devices \cup {Shared}
LogFiles == [owner : Owners, period : 0 .. MaxPeriods]
Handlers == [owner : Owners, thread : {"spawned", "running", "told", "over"}]
FileRecords == [to : LogFiles, packet : Packets, now : 0 .. MaxPeriods]
PipeRecords == [to : Owners, packet : Packets, key : BOOLEAN]

----------------------------------------------------------------------------
\* configure

\* configure_files and recreate_log_files open one file per listed device,
\* or the shared one.
FilesFor(devices, when) ==
  IF log.file = "split"
  THEN [i \in 1 .. Len(devices) |-> [owner |-> devices[i], period |-> when]]
  ELSE << [owner |-> Shared, period |-> when] >>

\* One handler and one thread per listed device, or one for all.
PipesFor(devices) ==
  LET owners == CASE log.pipe = "off" -> <<>>
                  [] log.pipe = "single" -> << Shared >>
                  [] log.pipe = "split" -> devices
  IN  [i \in 1 .. Len(owners) |-> [owner |-> owners[i], thread |-> "spawned"]]

\* The loops over the devices push files and handlers for the ready ones, in
\* increasing order: the one listing of a set of devices.
Listings(set) ==
  { s \in [1 .. Cardinality(set) -> set] :
      \A i, j \in 1 .. Cardinality(set) : i < j => s[i] < s[j] }

\* The n-th fopen fails: the files before it stay open and configure returns
\* false, before the pipes and before can_run is set.  The variant goes on.
ConfigureFailsQuietly(devices) ==
  /\ log.file # "off"
  /\ \E n \in 1 .. Len(FilesFor(devices, 0)) :
       logFiles' = SubSeq(FilesFor(devices, 0), 1, n - 1)
  /\ pipes' = PipesFor(devices)
  /\ canRun' = TRUE
ConfigureFails(devices) ==
  /\ log.file # "off"
  /\ \E n \in 1 .. Len(FilesFor(devices, 0)) :
       logFiles' = SubSeq(FilesFor(devices, 0), 1, n - 1)
  /\ UNCHANGED <<pipes, canRun>>

ConfigureSucceeds(devices) ==
  /\ logFiles' = IF log.file = "off" THEN <<>> ELSE FilesFor(devices, 0)
  /\ pipes' = PipesFor(devices)
  /\ canRun' = TRUE

Configure(readyDevices) ==
  \E devices \in Listings(readyDevices) :
    ConfigureFails(devices) \/ ConfigureSucceeds(devices)

----------------------------------------------------------------------------
\* add_packet, called by the device threads

\* loadAndSimulateKeyPackets holds m_mutex over all the handlers of a packet.
MutexFree == omPc = "simulate" /\ pipes # <<>> => simStep % Len(pipes) = 0

Full == Len(queue) >= QueueMax
\* Variants: no limit; the newest packet makes room instead of the oldest.
PushUnbounded(p) == Append(queue, p)
PushOverNewest(p) ==
  Append(IF Full THEN SubSeq(queue, 1, Len(queue) - 1) ELSE queue, p)
Push(p) == Append(IF Full THEN Tail(queue) ELSE queue, p)

AddPacket(p) ==
  /\ MutexFree
  /\ queue' = Push(p)
  /\ accepted' = Append(accepted, p)
  /\ departed' = IF Full THEN Append(departed, Head(queue)) ELSE departed
  /\ evicted' = IF Full THEN evicted \cup {Head(queue)} ELSE evicted

----------------------------------------------------------------------------
\* handle_packet

AllDevices == [i \in 1 .. NumDevices |-> i - 1]

\* Variant that does not clear log_files before it opens the new ones.
RecreateLogFilesWithoutClear ==
  \/ UNCHANGED <<logFiles, period>>
  \/ /\ log.reset
     /\ log.file # "off"
     /\ period < MaxPeriods
     /\ period' = period + 1
     /\ logFiles' = logFiles \o FilesFor(AllDevices, period + 1)

\* The files as recreate_log_files leaves them: as they were, or, when the
\* period is over, closed and opened again for every configured device, up to
\* the first fopen that fails.
RecreateLogFiles ==
  \/ UNCHANGED <<logFiles, period>>
  \/ /\ log.reset
     /\ log.file # "off"
     /\ period < MaxPeriods
     /\ period' = period + 1
     /\ LET wanted == FilesFor(AllDevices, period + 1)
        IN  \E n \in 0 .. Len(wanted) : logFiles' = SubSeq(wanted, 1, n)

\* extract_key answers true for a command it could decrypt, unless that is a
\* key it knows already; a command that is no key counts as a key packet too.
ExtractKey(p, found) ==
  /\ found => p.key \in Keys \ keys
  /\ keys' = IF found THEN keys \cup ({p.key} \ OtherCommands) ELSE keys
  /\ keyPackets' = IF found THEN Append(keyPackets, p) ELSE keyPackets

\* log_files[packet.id] and log_pipes_handlers[packet.id], or index 0.
Slot(mode, p) == IF mode = "split" THEN p.id + 1 ELSE 1

\* The variant returns after it has recreated the files.
WriteRecordUnlessRecreated(p) ==
  fileLog' = IF log.file # "off" /\ Slot(log.file, p) \in DOMAIN logFiles'
                  /\ period' = period
             THEN Append(fileLog, [to |-> logFiles'[Slot(log.file, p)],
                                   packet |-> p, now |-> period'])
             ELSE fileLog
WriteRecord(p) ==
  fileLog' = IF log.file # "off" /\ Slot(log.file, p) \in DOMAIN logFiles'
             THEN Append(fileLog, [to |-> logFiles'[Slot(log.file, p)],
                                   packet |-> p, now |-> period'])
             ELSE fileLog

HandOver(p, transportKey) ==
  pipeLog' = IF log.pipe # "off" /\ Slot(log.pipe, p) \in DOMAIN pipes
             THEN Append(pipeLog, [to |-> pipes[Slot(log.pipe, p)].owner,
                                   packet |-> p, key |-> transportKey])
             ELSE pipeLog

\* Indexing past the end of a vector is undefined: the process crashes, or
\* the record is written to some memory that is no open file.
OutOfBounds(p) ==
  \/ log.file # "off" /\ Slot(log.file, p) \notin DOMAIN logFiles'
  \/ log.pipe # "off" /\ Slot(log.pipe, p) \notin DOMAIN pipes

HandlePacket(p, transportKey) ==
  /\ timeBase' = IF timeBase = NoPacket THEN p ELSE timeBase
  /\ RecreateLogFiles
  /\ \E found \in BOOLEAN :
       ExtractKey(p, found) /\ HandOver(p, transportKey \/ found)
  /\ WriteRecord(p)
  /\ IF OutOfBounds(p) THEN fault' = TRUE /\ proc' \in {"running", "crashed"}
                       ELSE UNCHANGED <<fault, proc>>
  /\ UNCHANGED pipes

----------------------------------------------------------------------------
\* run, the output thread

queueVars == <<queue, accepted, departed, evicted>>

OMBegin ==
  /\ omPc = "spawned"
  /\ isRunning' = TRUE
  /\ omPc' = IF log.simulation THEN "simulate" ELSE "testRunning"
  /\ UNCHANGED <<log, canRun, disk, simStep, queueVars, outputVars>>

\* One call of handle_packet of loadAndSimulateKeyPackets: every saved packet
\* is handled once per pipe handler, as a packet of the device of that number.
OMSimulate ==
  /\ omPc = "simulate"
  /\ simStep < Len(disk) * Len(pipes)
  /\ LET saved == disk[simStep \div Len(pipes) + 1]
     IN  HandlePacket([saved EXCEPT !.id = simStep % Len(pipes), !.n = 0], TRUE)
  /\ simStep' = simStep + 1
  /\ UNCHANGED <<log, isRunning, canRun, disk, omPc, queueVars>>

\* Variant: one handler per saved packet.
SimulatedOnce == simStep >= Len(disk)
SimulationOver == simStep >= Len(disk) * Len(pipes)

OMSimulated ==
  /\ omPc = "simulate"
  /\ SimulationOver
  /\ omPc' = "testRunning"
  /\ UNCHANGED <<log, isRunning, canRun, disk, simStep, queueVars, outputVars>>

\* Variant of the loop condition that reads the queue before is_running.
LoopConditionSwapped ==
  \/ /\ omPc = "testRunning"
     /\ omPc' = CASE queue = <<>> -> "testEmpty"
               [] queue # <<>> /\ canRun -> "peek"
               [] queue # <<>> /\ ~canRun -> "close"
  \/ /\ omPc = "testEmpty"
     /\ omPc' = IF isRunning /\ canRun THEN "peek" ELSE "close"

\* while ((is_running || !packet_queue.empty()) && can_run), one read a step.
LoopCondition ==
  \/ /\ omPc = "testRunning"
     /\ omPc' = CASE ~isRunning -> "testEmpty"
               [] isRunning /\ canRun -> "peek"
               [] isRunning /\ ~canRun -> "close"
  \/ /\ omPc = "testEmpty"
     /\ omPc' = IF queue # <<>> /\ canRun THEN "peek" ELSE "close"

OMTest ==
  /\ LoopCondition
  /\ UNCHANGED <<log, isRunning, canRun, disk, simStep, queueVars, outputVars>>

\* The emptiness check of the loop body is made without the lock.
PeekSkipped == omPc' = "take"   \* variant without the check
Peek == omPc' = IF queue # <<>> THEN "take" ELSE "testRunning"

OMPeek ==
  /\ omPc = "peek"
  /\ Peek
  /\ UNCHANGED <<log, isRunning, canRun, disk, simStep, queueVars, outputVars>>

\* front, pop and handle_packet under m_mutex.
OMTake ==
  /\ omPc = "take"
  /\ queue # <<>>
  /\ queue' = Tail(queue)
  /\ departed' = Append(departed, Head(queue))
  /\ HandlePacket(Head(queue), FALSE)
  /\ omPc' = "testRunning"
  /\ UNCHANGED <<log, isRunning, canRun, disk, simStep, accepted, evicted>>

\* fclose of the log files and saveKeyPackets, whose file may fail to open.
OMClose ==
  /\ omPc = "close"
  /\ \/ log.savePackets /\ keyPackets # <<>> /\ disk' = keyPackets
     \/ UNCHANGED disk
  /\ omPc' = "stopPipes"
  /\ UNCHANGED <<log, isRunning, canRun, simStep, queueVars, outputVars>>

\* A thread told to stop before it ran its first statement forgets it there.
OMStopPipes ==
  /\ omPc = "stopPipes"
  /\ pipes' = [h \in DOMAIN pipes |->
       IF pipes[h].thread = "running" THEN [pipes[h] EXCEPT !.thread = "told"]
                                      ELSE pipes[h]]
  /\ omPc' = "joinPipes"
  /\ UNCHANGED <<log, proc, isRunning, canRun, disk, simStep, queueVars, logFiles,
                 period, timeBase, keys, keyPackets, fileLog, pipeLog, fault>>

OMJoinPipes ==
  /\ omPc = "joinPipes"
  /\ \A h \in DOMAIN pipes : pipes[h].thread = "over"
  /\ omPc' = "done"
  /\ UNCHANGED <<log, isRunning, canRun, disk, simStep, queueVars, outputVars>>

\* The thread of a pipe handler, as far as its life is concerned: it sets its
\* is_running and goes on until it finds it cleared (PipePacketHandler::run).
PipeStep(h, from, to) ==
  /\ pipes[h].thread = from
  /\ pipes' = [pipes EXCEPT ![h].thread = to]
  /\ UNCHANGED <<log, proc, isRunning, canRun, disk, omPc, simStep, queueVars, logFiles,
                 period, timeBase, keys, keyPackets, fileLog, pipeLog, fault>>

OMStep ==
  OMBegin \/ OMSimulate \/ OMSimulated \/ OMTest \/ OMPeek
    \/ OMTake \/ OMClose \/ OMStopPipes \/ OMJoinPipes
PipeThread == \E h \in DOMAIN pipes :
                PipeStep(h, "spawned", "running") \/ PipeStep(h, "told", "over")

----------------------------------------------------------------------------

OMInit ==
  /\ log \in LogSettings
  /\ disk \in SavedPackets
  /\ proc = "running"
  /\ queue = <<>> /\ accepted = <<>> /\ departed = <<>> /\ evicted = {}
  /\ isRunning = FALSE /\ canRun = FALSE
  /\ logFiles = <<>> /\ period = 0 /\ pipes = <<>>
  /\ timeBase = NoPacket
  /\ keys = {} /\ keyPackets = <<>>
  /\ omPc = "none" /\ simStep = 0
  /\ fileLog = <<>> /\ pipeLog = <<>> /\ fault = FALSE

OMTypeOK ==
  /\ log \in Settings
  /\ proc \in {"running", "exited", "killed", "aborted", "terminated", "crashed"}
  /\ queue \in Seq(Packets) /\ Len(queue) <= QueueMax
  /\ isRunning \in BOOLEAN /\ canRun \in BOOLEAN
  /\ logFiles \in Seq(LogFiles)
  /\ period \in 0 .. MaxPeriods
  /\ pipes \in Seq(Handlers)
  /\ timeBase \in Packets \cup {NoPacket}
  /\ keys \subseteq Keys
  /\ keyPackets \in Seq(Packets)
  /\ disk \in Seq(Packets)
  /\ omPc \in {"none", "spawned", "simulate", "testRunning", "testEmpty", "peek",
               "take", "close", "stopPipes", "joinPipes", "done"}
  /\ simStep \in Nat
  /\ accepted \in Seq(Packets) /\ departed \in Seq(Packets)
  /\ evicted \subseteq Packets
  /\ fileLog \in Seq(FileRecords) /\ pipeLog \in Seq(PipeRecords)
  /\ fault \in BOOLEAN
=============================================================================
