----------------------------- MODULE RecordDates -----------------------------
(***************************************************************************)
(* How the records of a session get their dates.  Every board has a timer  *)
(* of its own, which starts anew with the board; a frame carries its       *)
(* reading.  The first packet the output manager handles, whosever it is,  *)
(* fixes the time at which that timer was zero, and all records of all     *)
(* devices, in the files and in the pipes, are dated from there.           *)
(*                                                                         *)
(* The pcap record, with its layout and the arithmetic of the date, is     *)
(* module PcapBuilder.                                                     *)
(***************************************************************************)
EXTENDS PcapBuilder, Selection

CONSTANTS
  Devices,      \* the devices that stream; each has a pipe
  Timezone,     \* the offset of TIMEZONE, in microseconds
  StartTimes,   \* system times at which a session may begin
  Uptimes,      \* readings of the timers at that moment
  SavedStamps,  \* readings in the key packets of an earlier session
  Split,        \* there is a pipe per device, otherwise the first has all
  Simulated,    \* stands for the device of a simulated packet
  None,         \* stands for a start time while is_first_packet holds
  MaxTicks,     \* bound: microseconds a session lasts
  MaxCaptures   \* bound: packets captured

ASSUME DevicesAssumption == /\ IsFiniteSet(Devices) /\ Devices # {}
                            /\ Simulated \notin Devices
ASSUME NoneAssumption == None \notin Int
ASSUME SessionAssumption == /\ Timezone \in Int
                            /\ StartTimes \subseteq Nat /\ Uptimes \subseteq Nat
                            /\ SavedStamps \subseteq Nat /\ Split \in BOOLEAN
ASSUME BoundsAssumption == MaxTicks \in Nat /\ MaxCaptures \in Nat

VARIABLES
  now,        \* the system clock
  timer,      \* the timer of each board
  restarts,   \* history: how often each board has started anew
  saved,      \* key packets that are still to be simulated
  queue,      \* packet_queue
  startTime,  \* start_time, or None
  pipeStart,  \* start_time of each pipe handler, or None before it is told
  pipeQueue,  \* packet_queue of each pipe handler
  log,        \* the records of the log file
  sentLog,    \* the records written to the pipes
  base,       \* history: the packet that fixed startTime, and when it did
  begun       \* history: the system time at the beginning

vars == <<now, timer, restarts, saved, queue, startTime, pipeStart, pipeQueue, log, sentLog,
          base, begun>>

Pipes == IF Split THEN Devices ELSE {CHOOSE d \in Devices : TRUE}
PipeOf(packet) == IF Split THEN packet.id ELSE CHOOSE p \in Pipes : TRUE

(* A packet in a queue: the device whose board captured it, its reading,   *)
(* the index it is handled under, and, for the properties, the real time   *)
(* of the capture and the life of the board it belongs to.                 *)
Packet(d, id, stamp) ==
    [dev |-> d, id |-> id, stamp |-> stamp, at |-> now,
     life |-> IF d = Simulated THEN 0 ELSE restarts[d]]

Record(packet, start) == [packet |-> packet, date |-> Date(start, packet.stamp)]

(* A variant: the reading of the first packet is not taken off.            *)
StartAtNow(packet) == now + Timezone

StartFrom(packet) == now - packet.stamp + Timezone

Of(p, packets) == { packet \in ToSet(packets) : PipeOf(packet) = p }

Told(start) == [p \in Pipes |-> start]

(* The first packet, the record in the log file, the hand-over to a pipe;  *)
(* packets that are handled together share the lock and the moment.        *)
HandlePackets(packets) ==
    LET first == packets[1]
        start == IF startTime = None THEN StartFrom(first) ELSE startTime
    IN /\ startTime' = start
       /\ IF startTime = None
          THEN /\ pipeStart' = Told(start)
               /\ base' = [dev |-> first.dev, life |-> first.life, lag |-> now - first.at]
          ELSE UNCHANGED <<pipeStart, base>>
       /\ log' = log \o [i \in DOMAIN packets |-> Record(packets[i], start)]
       /\ pipeQueue' = [p \in Pipes |-> pipeQueue[p] \o Selected(packets, Of(p, packets))]

-----------------------------------------------------------------------------
(* A board captures a packet, which waits for the output manager.          *)
Capture(d) ==
    /\ Len(queue) + Len(log) < MaxCaptures
    /\ queue' = Append(queue, Packet(d, d, timer[d]))
    /\ UNCHANGED <<now, timer, restarts, saved, startTime, pipeStart, pipeQueue, log, sentLog, base,
                   begun>>

(* A saved key packet is handled once under the index of every pipe        *)
(* handler, before anything is taken from the queue.                       *)
Simulate ==
    /\ saved # <<>>
    /\ LET ids == SetToSeq(Pipes)
       IN HandlePackets([i \in DOMAIN ids |-> Packet(Simulated, ids[i], Head(saved))])
    /\ saved' = Tail(saved)
    /\ UNCHANGED <<now, timer, restarts, queue, sentLog, begun>>

Handle ==
    /\ saved = <<>> /\ queue # <<>>
    /\ HandlePackets(<<Head(queue)>>)
    /\ queue' = Tail(queue)
    /\ UNCHANGED <<now, timer, restarts, saved, sentLog, begun>>

(* A pipe thread writes the next record, dated with its own copy.          *)
Write(p) ==
    /\ pipeQueue[p] # <<>>
    /\ sentLog' = Append(sentLog, Record(Head(pipeQueue[p]), pipeStart[p]))
    /\ pipeQueue' = [pipeQueue EXCEPT ![p] = Tail(@)]
    /\ UNCHANGED <<now, timer, restarts, saved, queue, startTime, pipeStart, log, base, begun>>

Tick ==
    /\ now < begun + MaxTicks
    /\ now' = now + 1
    /\ timer' = [d \in Devices |-> timer[d] + 1]
    /\ UNCHANGED <<restarts, saved, queue, startTime, pipeStart, pipeQueue, log, sentLog, base, begun>>

(* A board that was reconnected may have started anew; as a bound, one     *)
(* board does so once.                                                     *)
Restart(d) ==
    /\ \A e \in Devices : restarts[e] = 0
    /\ restarts' = [restarts EXCEPT ![d] = @ + 1]
    /\ timer' = [timer EXCEPT ![d] = 0]
    /\ UNCHANGED <<now, saved, queue, startTime, pipeStart, pipeQueue, log, sentLog, base, begun>>

Init ==
    /\ begun \in StartTimes /\ now = begun
    /\ timer \in [Devices -> Uptimes]
    /\ restarts = [d \in Devices |-> 0]
    /\ saved \in {<<>>} \union { <<s>> : s \in SavedStamps }
    /\ queue = <<>> /\ log = <<>> /\ sentLog = <<>>
    /\ startTime = None
    /\ pipeStart = [p \in Pipes |-> None]
    /\ pipeQueue = [p \in Pipes |-> <<>>]
    /\ base = [dev |-> Simulated, life |-> 0, lag |-> 0]

Next ==
    \/ Tick \/ Simulate \/ Handle
    \/ \E d \in Devices : Capture(d) \/ Restart(d)
    \/ \E p \in Pipes : Write(p)

Spec == Init /\ [][Next]_vars

-----------------------------------------------------------------------------
(* Properties *)

Instant(date) == date.sec * Second + date.usec

Records == { log[i] : i \in DOMAIN log } \union { sentLog[i] : i \in DOMAIN sentLog }

(* The records whose timer the session's start time was computed from.     *)
OfBase == { r \in Records : r.packet.dev = base.dev /\ r.packet.life = base.life
                              /\ base.dev # Simulated }

(* The dates of the device that captured the first packet are less than    *)
(* two seconds from the moment of the capture, plus the time the first     *)
(* packet waited and the time zone, for as long as the board does not      *)
(* start anew (output_manager.cpp:253, pcap_builder.cpp:40).               *)
NearCapture ==
    \A r \in OfBase :
        LET error == Instant(r.date) - (r.packet.at + base.lag + Timezone)
        IN -2 * Second < error /\ error < 2 * Second

(* Packets a board captured a second or more apart are dated in the order  *)
(* of their capture, although the microseconds of a date are not carried   *)
(* to its seconds.  Closer ones may change places.                         *)
OrderAfterASecond ==
    \A r, s \in Records :
        (/\ r.packet.dev = s.packet.dev /\ r.packet.dev # Simulated
         /\ r.packet.life = s.packet.life
         /\ r.packet.at + Second <= s.packet.at)
        => Instant(r.date) < Instant(s.date)
=============================================================================
