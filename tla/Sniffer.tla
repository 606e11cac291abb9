------------------------------- MODULE Sniffer -------------------------------
(***************************************************************************)
(* A capture session (src/sniffer.cpp, main.cpp): the main thread connects *)
(* and initialises the devices, configures the output manager, starts one  *)
(* thread per ready device and the output thread, joins the device         *)
(* threads, stops the output thread and joins it.  Device threads capture  *)
(* packets until they are interrupted (src/device.cpp); the user may send  *)
(* SIGINT at any time.                                                     *)
(***************************************************************************)
EXTENDS OutputManager, Selection

CONSTANT Timed       \* whether sessions have a duration: a subset of BOOLEAN

ASSUME TimedAssumption == Timed \subseteq BOOLEAN

VARIABLES
  timed,         \* whether this session has a duration
  mainPc,        \* where the main thread is
  devPc,         \* where each device's thread is
  ready,         \* the devices whose is_ready is set
  interruption,  \* the process-wide interruption flag
  sigint         \* the disposition of SIGINT (and SIGTERM)

sessionVars == <<timed, mainPc, devPc, ready, interruption, sigint>>
vars == <<omVars, sessionVars>>

Streaming(d) == devPc[d] = "streaming"
StreamsOver == \A d \in Devices : devPc[d] \in {"none", "done"}

----------------------------------------------------------------------------
\* The main thread

ConfigureAllDevices ==
  /\ mainPc = "connect"
  /\ ready' \in SUBSET Devices
  /\ mainPc' = "init"
  /\ UNCHANGED <<omVars, timed, devPc, interruption, sigint>>

\* The connected devices are initialised, by threads that only set their own
\* is_ready and are all joined here; the output manager is configured unless
\* there are as many devices that are not ready as threads were started.  A
\* connection that is lost meanwhile and cannot be closed sets interruption; its
\* device is ready all the same if that happened in the last command of init.
InitAllDevices ==
  /\ mainPc = "init"
  /\ mainPc' = "streamAll"
  /\ IF ready = {}
     THEN UNCHANGED <<ready, interruption, logFiles, pipes, canRun>>
     ELSE \E ok \in SUBSET ready :
            /\ ready' = ok
            /\ interruption' \in {interruption, TRUE}
            /\ IF Cardinality(ready) = Cardinality(Devices \ ok)
               THEN UNCHANGED <<logFiles, pipes, canRun>>
               ELSE Configure(ok)
  /\ UNCHANGED <<timed, devPc, sigint, log, proc, queue, isRunning, period,
                 timeBase, keys, keyPackets, disk, omPc, simStep, accepted,
                 departed, evicted, fileLog, pipeLog, fault>>

StreamAll ==
  /\ mainPc = "streamAll"
  /\ IF ready = {}
     THEN mainPc' = "return" /\ UNCHANGED <<omPc, devPc>>
     ELSE /\ mainPc' = "joinStreams"
          /\ omPc' = "spawned"
          /\ devPc' = [d \in Devices |-> IF d \in ready THEN "spawned" ELSE "none"]
  /\ UNCHANGED <<timed, ready, interruption, sigint, log, proc, queue, isRunning,
                 canRun, logFiles, period, pipes, timeBase, keys, keyPackets, disk,
                 simStep, accepted, departed, evicted, fileLog, pipeLog, fault>>

JoinStreams ==
  /\ mainPc = "joinStreams"
  /\ StreamsOver
  /\ mainPc' = "clear"
  /\ UNCHANGED <<omVars, timed, devPc, ready, interruption, sigint>>

ClearForgotten == UNCHANGED isRunning    \* variant that leaves is_running set
Clear == isRunning' = FALSE

StopOutput ==
  /\ mainPc = "clear"
  /\ Clear
  /\ mainPc' = "joinOutput"
  /\ UNCHANGED <<timed, devPc, ready, interruption, sigint, log, proc, queue, canRun,
                 logFiles, period, pipes, timeBase, keys, keyPackets, disk, omPc,
                 simStep, accepted, departed, evicted, fileLog, pipeLog, fault>>

JoinOutput ==
  /\ mainPc = "joinOutput"
  /\ omPc = "done"
  /\ mainPc' = "return"
  /\ UNCHANGED <<omVars, timed, devPc, ready, interruption, sigint>>

\* main returns and destroys the Sniffer: std::terminate when threads of pipe
\* handlers were never joined, as no output thread was started.
MainReturn ==
  /\ mainPc = "return"
  /\ proc' = IF pipes # <<>> /\ omPc # "done" THEN "terminated" ELSE "exited"
  /\ UNCHANGED <<sessionVars, log, queue, isRunning, canRun, logFiles, period, pipes,
                 timeBase, keys, keyPackets, disk, omPc, simStep, accepted, departed,
                 evicted, fileLog, pipeLog, fault>>

MainStep ==
  ConfigureAllDevices \/ InitAllDevices \/ StreamAll \/ JoinStreams \/ StopOutput
    \/ JoinOutput \/ MainReturn

----------------------------------------------------------------------------
\* The thread of a device: start, stream, stop

DeviceGoes(d, from, to) == devPc[d] = from /\ devPc' = [devPc EXCEPT ![d] = to]

\* start, whose result the thread ignores, and the first lines of stream.
EnterStream(d) ==
  /\ DeviceGoes(d, "spawned", "streaming")
  /\ sigint' = "handler"
  /\ UNCHANGED <<omVars, timed, mainPc, ready, interruption>>

\* After add_packet the loop goes on unless there was an interruption or, in a
\* session with a duration, the time has elapsed.
NextAfterCapture(d) ==
  IF interruption THEN {"leaving"}
  ELSE IF timed THEN {"streaming", "leaving"} ELSE {"streaming"}

Captured(d) == { i \in 1 .. Len(accepted) : accepted[i].id = d }

Capture(d) ==
  /\ Cardinality(Captured(d)) < MaxPackets
  /\ \E k \in Keys \cup {NoKey} :
       AddPacket([id |-> d, n |-> Cardinality(Captured(d)) + 1, key |-> k])
  /\ \E to \in NextAfterCapture(d) : DeviceGoes(d, "streaming", to)
  /\ UNCHANGED <<timed, mainPc, ready, interruption, sigint, log, isRunning, canRun,
                 disk, omPc, simStep, outputVars>>

\* receive_response comes back empty-handed: after ten silent seconds, or
\* because the connection could not be restored.  The variant takes silence for
\* the end.
EndsOnSilence(d) == TRUE
EndsOnFailure(d) == interruption

ReceiveFails(d) ==
  /\ EndsOnFailure(d)
  /\ DeviceGoes(d, "streaming", "leaving")
  /\ UNCHANGED <<omVars, timed, mainPc, ready, interruption, sigint>>

LeaveStream(d) ==
  /\ DeviceGoes(d, "leaving", "stopping")
  /\ sigint' = "default"
  /\ UNCHANGED <<omVars, timed, mainPc, ready, interruption>>

StopDevice(d) ==
  /\ DeviceGoes(d, "stopping", "done")
  /\ UNCHANGED <<omVars, timed, mainPc, ready, interruption, sigint>>

\* reconnect cannot close the port of a lost device: it sets interruption, and
\* the call that was waiting for a response fails.
LinkLost(d) ==
  /\ devPc[d] \in {"spawned", "streaming", "stopping"}
  /\ interruption' = TRUE
  /\ devPc' = [devPc EXCEPT ![d] = IF @ = "streaming" THEN "leaving" ELSE @]
  /\ UNCHANGED <<omVars, timed, mainPc, ready, sigint>>

DeviceStep(d) ==
  EnterStream(d) \/ ReceiveFails(d) \/ LeaveStream(d) \/ StopDevice(d)

----------------------------------------------------------------------------
\* The user

\* The default disposition kills; signal_handler calls exit(0) when it finds
\* interruption set, and sets it otherwise.
Interrupt ==
  /\ IF sigint = "default"
     THEN proc' = "killed" /\ UNCHANGED interruption
     ELSE IF interruption
          THEN proc' = "aborted" /\ UNCHANGED interruption
          ELSE interruption' = TRUE /\ UNCHANGED proc
  /\ UNCHANGED <<timed, mainPc, devPc, ready, sigint, log, queue, isRunning, canRun,
                 logFiles, period, pipes, timeBase, keys, keyPackets, disk, omPc,
                 simStep, accepted, departed, evicted, fileLog, pipeLog, fault>>

----------------------------------------------------------------------------

Init ==
  /\ OMInit
  /\ timed \in Timed
  /\ mainPc = "connect"
  /\ devPc = [d \in Devices |-> "none"]
  /\ ready = {}
  /\ interruption = FALSE
  /\ sigint = "default"

Output == OMStep /\ UNCHANGED sessionVars
PipeHandlers == PipeThread /\ UNCHANGED sessionVars

Next ==
  \/ proc = "running" /\ MainStep
  \/ proc = "running" /\ Output
  \/ proc = "running" /\ PipeHandlers
  \/ proc = "running" /\ \E d \in Devices : DeviceStep(d)
  \/ proc = "running" /\ \E d \in Devices : Capture(d)
  \/ proc = "running" /\ \E d \in Devices : LinkLost(d)
  \/ proc = "running" /\ Interrupt
  \/ proc # "running" /\ UNCHANGED vars

\* Every thread is scheduled, and receive_response returns: its timeout ends a
\* silence.  Packets, lost links and signals may or may not come.
Fairness ==
  /\ WF_vars(proc = "running" /\ MainStep)
  /\ WF_vars(proc = "running" /\ Output)
  /\ WF_vars(proc = "running" /\ PipeHandlers)
  /\ \A d \in Devices : WF_vars(proc = "running" /\ DeviceStep(d))

Spec == Init /\ [][Next]_vars /\ Fairness

----------------------------------------------------------------------------
\* Properties

\* Every variable keeps its type, and the packet queue its limit
\* (output_manager.cpp:42).
TypeOK ==
  /\ OMTypeOK
  /\ timed \in BOOLEAN
  /\ mainPc \in {"connect", "init", "streamAll", "joinStreams", "clear",
                 "joinOutput", "return"}
  /\ devPc \in [Devices -> {"none", "spawned", "streaming", "leaving",
                            "stopping", "done"}]
  /\ ready \subseteq Devices
  /\ interruption \in BOOLEAN
  /\ sigint \in {"default", "handler"}

\* No packet is lost in silence, duplicated or overtaken: the packets that left
\* the queue, followed by those still in it, are the packets add_packet
\* accepted, in that order, whatever the output thread does meanwhile.
Accounting == departed \o queue = accepted

\* The emptiness check that run makes outside the lock (output_manager.cpp:176)
\* still holds when the lock is taken and front is called: device threads that
\* overflow the queue in between never leave it empty.
TakeFindsPacket == omPc = "take" => queue # <<>>

\* Once an output thread that was allowed to run has left its loop, nothing is
\* in the queue and no device thread is left to add to it, so the message
\* "Queues empty." (output_manager.cpp:241) is true of this queue.
Drained ==
  canRun /\ omPc \in {"close", "stopPipes", "joinPipes", "done"} =>
    queue = <<>> /\ StreamsOver

\* The ready devices are the first ones of the configuration.
ReadyIsPrefix == \A d \in ready : 0 .. d \subseteq ready

\* Index of a device's own file or of the shared one.
OwnerFor(mode, p) == IF mode = "split" THEN p.id ELSE Shared

\* Across recreations of the log files, every captured packet is written to a
\* file opened for its own device (or to the shared one) in the current
\* period, and handed to the pipe of its device, provided the ready devices
\* are the first of the configuration (handle_packet indexes by device id).
RecordsInPlace ==
  ReadyIsPrefix =>
    /\ \A i \in DOMAIN fileLog :
         fileLog[i].to = [owner |-> OwnerFor(log.file, fileLog[i].packet),
                          period |-> fileLog[i].now]
    /\ \A i \in DOMAIN pipeLog :
         pipeLog[i].to = OwnerFor(log.pipe, pipeLog[i].packet)

\* With the ready devices first and no recreation of files, handle_packet never
\* indexes log_files or log_pipes_handlers past the end, even when a file could
\* not be opened: then the output thread must not handle packets at all.
IndexInBounds == ReadyIsPrefix /\ ~log.reset => ~fault

\* What a session kept is what it wrote: the captured packets in the log files
\* are, in order and without repetition, those the queue did not evict.
Kept == Selected(departed, Packets \ evicted)
PacketsOf(records) == [i \in DOMAIN records |-> records[i].packet]
CapturedPackets == { p \in Packets : p.n > 0 }
Written(records) == Selected(PacketsOf(records), CapturedPackets)
KeptIsWritten ==
  ~fault => /\ log.file # "off" => Written(fileLog) = Kept
            /\ log.pipe # "off" => Written(pipeLog) = Kept

\* The queue is a channel from the device threads to the output thread: an
\* accepted packet is handled once, or gives way to a newer one while it is the
\* oldest in the queue, and none is handled after a newer one, although the
\* queue overflows between the reads of the output thread (output_manager.cpp:42,
\* output_manager.cpp:176).  Its packets are numbered as they are accepted.
Place(p) == CHOOSE i \in DOMAIN accepted : accepted[i] = p
Waiting == { Place(queue[i]) : i \in DOMAIN queue }
LastHandled == IF Kept = <<>> THEN 0 ELSE Place(Kept[Len(Kept)])
PacketQueue == "packet_queue"
QueueChannel == INSTANCE LossyChannel WITH
                  Channels <- {PacketQueue},
                  accepted <- [q \in {PacketQueue} |-> Len(accepted)],
                  waiting <- [q \in {PacketQueue} |-> Waiting],
                  delivered <- [q \in {PacketQueue} |-> LastHandled]
QueueLosesOldest == QueueChannel!Spec

\* A session with simulation gives every pipe the saved key packets before any
\* captured packet, so that its reader can decrypt from the start
\* (config.yaml:36-37).
RecordsFor(owner) == [to : {owner}, packet : Packets, key : BOOLEAN]
RecordsOf(owner) == Selected(pipeLog, RecordsFor(owner))
KeysReachPipesFirst ==
  log.simulation /\ omPc \in {"testRunning", "testEmpty", "peek", "take", "close"} =>
    \A h \in DOMAIN pipes :
      LET records == RecordsOf(pipes[h].owner)
      IN  /\ Len(records) >= Len(disk)
          /\ \A i \in DOMAIN records :
               (records[i].packet.n = 0) = (i <= Len(disk))

\* The program ends at once, by exit in the handler or by the default action.
Forced == proc = "running" /\ proc' \in {"killed", "aborted"}

\* In a session without a duration no Ctrl-C ends the program at once while a
\* device streams, unless interruption is set: no thread gives SIGINT back its
\* default action before (device.cpp:191-198), although the action is that of the
\* process and every thread sets and resets it for itself.  What sets
\* interruption is a first Ctrl-C, as the handler announces (device.cpp:41-43),
\* or a device with a port that cannot be closed (device.cpp:343), after which
\* the first Ctrl-C does end the program.
UntimedForceFindsInterruption ==
  [][ Forced /\ ~timed /\ (\E d \in Devices : Streaming(d)) => interruption ]_vars

\* The stop reaches a thread that has not yet executed is_running = true.
StopIsLost ==
  \/ mainPc = "joinOutput" /\ omPc = "spawned"
  \/ omPc = "joinPipes" /\ \E h \in DOMAIN pipes : pipes[h].thread = "spawned"

\* After an interruption the program ends: no thread waits for another for
\* ever.  The program closes correctly (TESTING.md:57).
SessionEnds == interruption ~> proc # "running"

\* It does if no stop is lost on a thread that has not started.
StartedSessionEnds == [](~StopIsLost) => (interruption ~> proc # "running")

\* Any packet that is added to the queue will be processed
\* (output_manager.hpp:57): a session that ends in order leaves none in it.
AddedIsProcessed == proc = "exited" => queue = <<>>
=============================================================================
