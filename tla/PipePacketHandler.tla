------------------------- MODULE PipePacketHandler -------------------------
(***************************************************************************)
(* The threads that feed the named pipes (src/pipe_packet_handler.cpp,     *)
(* src/pipe.cpp, Linux).  Each has a bounded queue and a list of key       *)
(* packets; all share the flag pipe_interrupted, which the SIGPIPE handler *)
(* sets when a pipe is written that nobody reads.  The output thread adds  *)
(* packets and stops the threads in the end; readers (Wireshark) come and  *)
(* go.                                                                     *)
(***************************************************************************)
EXTENDS Naturals, Sequences, FiniteSets

CONSTANTS
  Pipes,        \* the pipe handlers
  QueueMax,     \* queue_max_size
  MaxPackets,   \* bound: packets added to one handler
  MaxReaders    \* bound: readers that open one pipe

ASSUME PipesAssumption == IsFiniteSet(Pipes)
ASSUME QueueMaxAssumption == QueueMax \in Nat \ {0}
ASSUME BoundsAssumption == MaxPackets \in Nat /\ MaxReaders \in Nat

\* A packet by its place among those added to the handler, whether it is in
\* key_packets, and whether it is a repetition for a new reader.
Packets == [n : 1 .. MaxPackets, key : BOOLEAN, again : BOOLEAN]
\* What a reader finds in the pipe: the global header, records, and the record
\* header of a packet whose data could not be written.
Header == [n |-> 0, key |-> FALSE, again |-> FALSE]
Half == [n |-> 0, key |-> TRUE, again |-> FALSE]

VARIABLES
  pc,                \* where each thread is
  queue,             \* packet_queue
  keyPackets,        \* key_packets
  isRunning,         \* is_running
  isOpen,            \* is_open
  pipeInterrupted,   \* the process-wide pipe_interrupted
  reader,            \* whether the pipe has a reader
  replay,            \* the loop over key_packets: next index and end
  omTold,            \* handlers the output thread has told to stop
  added,             \* packets the output thread added
  readers,           \* readers that have opened the pipe
  stream,            \* history: what the current reader finds
  late,              \* history: it opened the pipe after the global header
  lastSent,          \* history: the last packet written completely, repetitions apart
  evicted,           \* history: packets a full queue dropped
  broken,            \* history: the last connection ended for want of a reader
  crash              \* the process died of an iterator into a moved vector

threadVars == <<pc, queue, keyPackets, isRunning, isOpen, replay, lastSent, evicted, broken>>
pipeVars == <<pipeInterrupted, reader, readers, stream, late>>
omOnlyVars == <<omTold, added, crash>>
vars == <<threadVars, pipeVars, omOnlyVars>>

----------------------------------------------------------------------------
\* add_packet

Full(h) == Len(queue[h]) >= QueueMax
PushedUnbounded(h, p) == Append(queue[h], p)    \* variant without the limit
Pushed(h, p) == Append(IF Full(h) THEN Tail(queue[h]) ELSE queue[h], p)

AddPacket(h, p, isTransportKey) ==
  /\ queue' = [queue EXCEPT ![h] = Pushed(h, p)]
  /\ evicted' = IF Full(h) THEN [evicted EXCEPT ![h] = @ \cup {Head(queue[h])}]
                           ELSE evicted
  /\ keyPackets' = IF isTransportKey THEN [keyPackets EXCEPT ![h] = Append(@, p)]
                                     ELSE keyPackets

----------------------------------------------------------------------------
\* run

Goes(h, from, to) == pc[h] = from /\ pc' = [pc EXCEPT ![h] = to]

Begin(h) ==
  /\ Goes(h, "begin", "create")
  /\ isRunning' = [isRunning EXCEPT ![h] = TRUE]
  /\ UNCHANGED <<queue, keyPackets, isOpen, replay, lastSent, evicted, broken, pipeVars,
                 omOnlyVars>>

\* The outer loop: unlink and mkfifo leave a reader of the old pipe behind.
Create(h) ==
  /\ isRunning[h]
  /\ Goes(h, "create", "open")
  /\ isOpen' = [isOpen EXCEPT ![h] = FALSE]
  /\ reader' = [reader EXCEPT ![h] = FALSE]
  /\ stream' = [stream EXCEPT ![h] = << >>]
  /\ UNCHANGED <<queue, keyPackets, isRunning, replay, lastSent, evicted, broken,
                 pipeInterrupted, readers, late, omOnlyVars>>

Finish(h) ==
  /\ ~isRunning[h]
  /\ Goes(h, "create", "done")
  /\ UNCHANGED <<queue, keyPackets, isRunning, isOpen, replay, lastSent, evicted, broken,
                 pipeVars, omOnlyVars>>

\* while (is_running && !is_open): a non-blocking open for writing succeeds if
\* the pipe has a reader.  The variant gives up after the first try.
OpenOnce(h) ==
  \/ /\ isRunning[h] /\ ~isOpen[h] /\ reader[h]
     /\ isOpen' = [isOpen EXCEPT ![h] = TRUE]
     /\ UNCHANGED pc
  \/ /\ ~isRunning[h] \/ isOpen[h] \/ ~reader[h]
     /\ pc' = [pc EXCEPT ![h] = IF isOpen[h] THEN "header" ELSE "done"]
     /\ UNCHANGED isOpen
OpenLoop(h) ==
  \/ /\ isRunning[h] /\ ~isOpen[h]
     /\ isOpen' = [isOpen EXCEPT ![h] = reader[h]]
     /\ UNCHANGED pc
  \/ /\ ~isRunning[h] \/ isOpen[h]
     /\ pc' = [pc EXCEPT ![h] = IF isOpen[h] THEN "header" ELSE "done"]
     /\ UNCHANGED isOpen

Open(h) ==
  /\ pc[h] = "open"
  /\ OpenLoop(h)
  /\ UNCHANGED <<queue, keyPackets, isRunning, replay, lastSent, evicted, broken, pipeVars,
                 omOnlyVars>>

\* The result of writing the global header is ignored.
WriteGlobalHeader(h) ==
  /\ Goes(h, "header", "loop")
  /\ broken' = [broken EXCEPT ![h] = FALSE]
  /\ IF reader[h] THEN /\ stream' = [stream EXCEPT ![h] = Append(@, Header)]
                       /\ UNCHANGED pipeInterrupted
                  ELSE pipeInterrupted' = TRUE /\ UNCHANGED stream
  /\ UNCHANGED <<queue, keyPackets, isRunning, isOpen, replay, lastSent, evicted, reader,
                 readers, late, omOnlyVars>>

\* The inner loop.  isPipeOpen only asks whether the descriptor is valid, which
\* it is here, so the check of pipe_interrupted after a packet never leaves.
LoopForever(h) == Goes(h, "loop", "peek")    \* variant that ignores is_running
Loop(h) == Goes(h, "loop", IF isRunning[h] THEN "peek" ELSE "after")
PeekBlind(h) == Goes(h, "peek", "take")      \* variant without the check
Peek(h) == Goes(h, "peek", IF queue[h] # << >> THEN "take" ELSE "loop")

Test(h) ==
  /\ Loop(h) \/ Peek(h)
  /\ UNCHANGED <<queue, keyPackets, isRunning, isOpen, replay, lastSent, evicted, broken,
                 pipeVars, omOnlyVars>>

\* A packet is popped before it is written, under the lock.  A failed write
\* leaves the loop and the packet is gone.  Variants: it is put back at the
\* end; the loop goes on.
QueueIfRetried(h) == Append(Tail(queue[h]), Head(queue[h]))
QueueAfterFailure(h) == Tail(queue[h])
FailureIgnored(h) == Goes(h, "take", "loop")
FailureLeaves(h) == Goes(h, "take", "after")

TakeVars == <<keyPackets, isRunning, isOpen, replay, evicted, readers, late, omOnlyVars>>

TakeSent(h) ==
  /\ reader[h]
  /\ Goes(h, "take", "loop")
  /\ queue' = [queue EXCEPT ![h] = Tail(@)]
  /\ stream' = [stream EXCEPT ![h] = Append(@, Head(queue[h]))]
  /\ lastSent' = [lastSent EXCEPT ![h] = IF Head(queue[h]).again THEN @ ELSE Head(queue[h]).n]
  /\ UNCHANGED <<pipeInterrupted, reader, broken>>

\* EAGAIN: the reader has not yet read what fills the pipe.
TakeFull(h) ==
  /\ reader[h] /\ stream[h] # << >>
  /\ FailureLeaves(h)
  /\ queue' = [queue EXCEPT ![h] = QueueAfterFailure(h)]
  /\ stream' \in {stream, [stream EXCEPT ![h] = Append(@, Half)]}
  /\ UNCHANGED <<lastSent, pipeInterrupted, reader, broken>>

\* EPIPE and SIGPIPE: there is no reader, or it leaves after the record header.
TakeBroken(h) ==
  /\ FailureLeaves(h)
  /\ queue' = [queue EXCEPT ![h] = QueueAfterFailure(h)]
  /\ pipeInterrupted' = TRUE
  /\ reader' = [reader EXCEPT ![h] = FALSE]
  /\ stream' = IF reader[h] THEN [stream EXCEPT ![h] = Append(@, Half)] ELSE stream
  /\ broken' = [broken EXCEPT ![h] = TRUE]
  /\ UNCHANGED lastSent

Take(h) ==
  /\ pc[h] = "take"
  /\ queue[h] # << >>
  /\ TakeSent(h) \/ TakeFull(h) \/ TakeBroken(h)
  /\ UNCHANGED TakeVars

\* After the inner loop: the flag may be the one another thread set.
CloseQuietly(h) ==
  /\ ~pipeInterrupted
  /\ Goes(h, "after", "create")
  /\ isOpen' = [isOpen EXCEPT ![h] = FALSE]
  /\ UNCHANGED <<queue, keyPackets, isRunning, replay, lastSent, evicted, broken, pipeVars,
                 omOnlyVars>>

NoticeInterruption(h) ==
  /\ pipeInterrupted
  /\ Goes(h, "after", "clear")
  /\ UNCHANGED <<queue, keyPackets, isRunning, isOpen, replay, lastSent, evicted, broken,
                 pipeVars, omOnlyVars>>

ReplayNothing(h) == 0                        \* variant that forgets the keys
ReplayEnd(h) == Len(keyPackets[h])

ClearInterruption(h) ==
  /\ Goes(h, "clear", "replay")
  /\ pipeInterrupted' = FALSE
  /\ replay' = [replay EXCEPT ![h] = [next |-> 1, end |-> ReplayEnd(h)]]
  /\ UNCHANGED <<queue, keyPackets, isRunning, isOpen, lastSent, evicted, broken, reader,
                 readers, stream, late, omOnlyVars>>

ReplayKey(h) ==
  /\ pc[h] = "replay"
  /\ replay[h].next <= replay[h].end
  /\ AddPacket(h, [keyPackets[h][replay[h].next] EXCEPT !.again = TRUE], FALSE)
  /\ replay' = [replay EXCEPT ![h].next = @ + 1]
  /\ UNCHANGED <<pc, isRunning, isOpen, lastSent, broken, pipeVars, omOnlyVars>>

Replayed(h) ==
  /\ replay[h].next > replay[h].end
  /\ Goes(h, "replay", "create")
  /\ UNCHANGED <<queue, keyPackets, isRunning, isOpen, replay, lastSent, evicted, broken,
                 pipeVars, omOnlyVars>>

Thread(h) ==
  Begin(h) \/ Create(h) \/ Finish(h) \/ Open(h) \/ WriteGlobalHeader(h) \/ Test(h)
    \/ Take(h) \/ CloseQuietly(h) \/ NoticeInterruption(h) \/ ClearInterruption(h)
    \/ ReplayKey(h) \/ Replayed(h)

----------------------------------------------------------------------------
\* The output thread (OutputManager) and the readers

\* A key packet that is appended while key_packets is iterated, without its
\* lock, may move the vector: the iteration goes on with a dangling iterator,
\* which may crash the process.
OutputAdds(h) ==
  /\ omTold = {}
  /\ added[h] < MaxPackets
  /\ added' = [added EXCEPT ![h] = @ + 1]
  /\ \E key \in BOOLEAN :
       /\ AddPacket(h, [n |-> added[h] + 1, key |-> key, again |-> FALSE], key)
       /\ crash' \in IF key /\ pc[h] = "replay" THEN BOOLEAN ELSE {FALSE}
  /\ UNCHANGED <<pc, isRunning, isOpen, replay, lastSent, broken, pipeVars, omTold>>

OutputTells(h) ==
  /\ h \notin omTold
  /\ omTold' = omTold \cup {h}
  /\ isRunning' = [isRunning EXCEPT ![h] = FALSE]
  /\ UNCHANGED <<pc, queue, keyPackets, isOpen, replay, lastSent, evicted, broken, pipeVars,
                 added, crash>>

\* A reader may open the pipe at any time, one left by an earlier run of the
\* program too.  While the thread holds the pipe open, what the last reader
\* left in it is found by the next one.
Held(h) == pc[h] \in {"loop", "peek", "take", "after", "clear"}
ReaderOpens(h) ==
  /\ ~reader[h] /\ readers[h] < MaxReaders /\ pc[h] # "done"
  /\ reader' = [reader EXCEPT ![h] = TRUE]
  /\ readers' = [readers EXCEPT ![h] = @ + 1]
  /\ \E i \in 1 .. Len(stream[h]) + 1 :
       /\ Held(h) \/ i > Len(stream[h])
       /\ stream' = [stream EXCEPT ![h] = SubSeq(@, i, Len(@))]
  /\ late' = [late EXCEPT ![h] = pc[h] \notin {"begin", "create", "open", "header"}]
  /\ UNCHANGED <<threadVars, pipeInterrupted, omOnlyVars>>

ReaderLeaves(h) ==
  /\ reader[h]
  /\ reader' = [reader EXCEPT ![h] = FALSE]
  /\ UNCHANGED <<threadVars, pipeInterrupted, readers, stream, late, omOnlyVars>>

----------------------------------------------------------------------------

Init ==
  /\ pc = [h \in Pipes |-> "begin"]
  /\ queue = [h \in Pipes |-> << >>] /\ keyPackets = [h \in Pipes |-> << >>]
  /\ isRunning = [h \in Pipes |-> FALSE] /\ isOpen = [h \in Pipes |-> FALSE]
  /\ pipeInterrupted = FALSE
  /\ reader = [h \in Pipes |-> FALSE] /\ readers = [h \in Pipes |-> 0]
  /\ replay = [h \in Pipes |-> [next |-> 1, end |-> 0]]
  /\ omTold = {} /\ added = [h \in Pipes |-> 0]
  /\ stream = [h \in Pipes |-> << >>] /\ late = [h \in Pipes |-> FALSE]
  /\ lastSent = [h \in Pipes |-> 0] /\ evicted = [h \in Pipes |-> {}]
  /\ broken = [h \in Pipes |-> FALSE]
  /\ crash = FALSE

Ended == crash \/ \A h \in Pipes : pc[h] = "done" /\ h \in omTold

Next ==
  \/ ~crash /\ \E h \in Pipes : Thread(h)
  \/ ~crash /\ \E h \in Pipes : OutputAdds(h)
  \/ ~crash /\ \E h \in Pipes : OutputTells(h)
  \/ ~crash /\ \E h \in Pipes : ReaderOpens(h)
  \/ ~crash /\ \E h \in Pipes : ReaderLeaves(h)
  \/ Ended /\ UNCHANGED vars

\* The threads are scheduled; packets, readers and the stop may never come.
Fairness == \A h \in Pipes : WF_vars(~crash /\ Thread(h))

Spec == Init /\ [][Next]_vars /\ Fairness

----------------------------------------------------------------------------
\* Properties

\* Types, and the limit of every queue (pipe_packet_handler.cpp:50).
TypeOK ==
  /\ pc \in [Pipes -> {"begin", "create", "open", "header", "loop", "peek", "take",
                       "after", "clear", "replay", "done"}]
  /\ queue \in [Pipes -> Seq(Packets)]
  /\ \A h \in Pipes : Len(queue[h]) <= QueueMax
  /\ keyPackets \in [Pipes -> Seq(Packets)]
  /\ isRunning \in [Pipes -> BOOLEAN] /\ isOpen \in [Pipes -> BOOLEAN]
  /\ pipeInterrupted \in BOOLEAN
  /\ reader \in [Pipes -> BOOLEAN] /\ readers \in [Pipes -> 0 .. MaxReaders]
  /\ replay \in [Pipes -> [next : Nat, end : Nat]]
  /\ omTold \subseteq Pipes /\ added \in [Pipes -> 0 .. MaxPackets]
  /\ stream \in [Pipes -> Seq(Packets \cup {Header, Half})]
  /\ late \in [Pipes -> BOOLEAN]
  /\ lastSent \in [Pipes -> 0 .. MaxPackets]
  /\ evicted \in [Pipes -> SUBSET Packets]
  /\ broken \in [Pipes -> BOOLEAN] /\ crash \in BOOLEAN

\* Over all the readers of a pipe, packets are sent in order and once
\* (README.md:290), repetitions of key packets apart, although writes fail and
\* the queue overflows: the queue is a channel that loses the oldest first.
Waiting(h) == { queue[h][i].n : i \in { k \in DOMAIN queue[h] : ~queue[h][k].again } }
Channel == INSTANCE LossyChannel WITH
             Channels <- Pipes, accepted <- added, delivered <- lastSent,
             waiting <- [h \in Pipes |-> Waiting(h)]
SentInOrder == Channel!Spec

\* What a reader finds that opened the pipe in time is a pcap stream: the global
\* header once, first, and whole records, of which only the last may be cut.
StreamIsPcap ==
  \A h \in Pipes : LET s == stream[h]
                   IN  \A i \in DOMAIN s :
                         /\ ~late[h] => (s[i] = Header) = (i = 1)
                         /\ s[i] = Half => i = Len(s)

\* The unlocked emptiness check (pipe_packet_handler.cpp:105) holds when front
\* is called, although the output thread and the replay push concurrently.
TakeFindsPacket == \A h \in Pipes : pc[h] = "take" => queue[h] # << >>

\* A new reader gets the keys: when a thread has lost its reader and opens the
\* pipe for the next one, every key packet is repeated in its queue, was sent
\* to this reader or waits there for the first time (or the queue was full).
\* Holds for a thread that no other thread shares the flag with.
KeysForNextReader ==
  Cardinality(Pipes) = 1 =>
    \A h \in Pipes :
      broken[h] /\ pc[h] \in {"create", "open", "header"} =>
        \A i \in DOMAIN keyPackets[h] :
          \/ \E j \in DOMAIN queue[h] : queue[h][j].n = keyPackets[h][i].n
          \/ evicted[h] # {}

\* The life of a thread as OutputManager takes it: spawned, running, told to
\* stop, over, and nothing else, whatever readers do.
Life(h) ==
  CASE pc[h] = "begin" -> "spawned"
    [] pc[h] = "done" -> "over"
    [] pc[h] \notin {"begin", "done"} /\ isRunning[h] -> "running"
    [] pc[h] \notin {"begin", "done"} /\ ~isRunning[h] -> "told"
LifeSteps == { <<"spawned", "running">>, <<"running", "told">>, <<"told", "over">> }
LifeAsAssumed ==
  [][ \A h \in Pipes : Life(h)' # Life(h) => <<Life(h), Life(h)'>> \in LifeSteps ]_vars

\* A thread that is told to stop while it runs ends, with or without a reader.
StopEnds == \A h \in Pipes : Life(h) = "told" ~> (pc[h] = "done" \/ crash)
=============================================================================
