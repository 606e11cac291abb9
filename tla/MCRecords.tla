----------------------------- MODULE MCRecords -------------------------------
(***************************************************************************)
(* Records for TLC.  The session of RecordDates runs when there is no job; *)
(* a job is an initial state of its own, an input for the operators of     *)
(* CommandAssembler and PcapBuilder.                                       *)
(***************************************************************************)
EXTENDS RecordDates

CONSTANTS d1, d2

VARIABLE job

MCDevices == {d1, d2}
MCTimezone == -3

-----------------------------------------------------------------------------
(* Inputs *)

NoJob == [kind |-> "none"]

(* A stream frame as the Framer accepts it: its length counts the reading  *)
(* of the timer, a byte, the payload, two bytes and the checksum, less one *)
(* (framer.cpp:50).                                                        *)
Payload(n) == [i \in 1 .. n |-> (7 * i + n) % 256]
StreamFrame(n, stamp) ==
    sof \o <<192>> \o LittleEndian(n + 9, 2) \o LittleEndian(stamp, 6) \o <<23>>
        \o Payload(n) \o <<201, 99>> \o eof

(* Lengths around those at which a byte of a header carries.               *)
FrameJobs ==
    [kind : {"frame"}, length : {0, 1, 127, 211, 212, 231, 232, 246},
     stamp : {0, 255, 256, 65536, 20000000}, interface : {0, 12, 300}, mode : Modes]

BoardJobs == [kind : {"board"}, firmware : Firmwares \union {1}]

MCInit ==
    /\ Init
    /\ \/ job = NoJob
       \/ job \in FrameJobs \union BoardJobs
          /\ begun = 19 /\ timer = [d \in Devices |-> 0] /\ saved = <<>>

MCNext == job = NoJob /\ Next /\ UNCHANGED job

MCSpec == MCInit /\ [][MCNext]_<<vars, job>>

-----------------------------------------------------------------------------
(* Properties of the operators *)

FirstChannel(mode) == CHOOSE c \in Channels(mode) : \A e \in Channels(mode) : c <= e

(* The lengths in the three headers of a record are those of its bytes;    *)
(* its payload is what was captured and what keys are extracted from; its  *)
(* frequency is the one the board was told, its channel the configured one *)
(* (framer.cpp:50, command_assembler.cpp:474, pcap_builder.cpp:43).        *)
RecordFits ==
    job.kind = "frame" =>
        LET frame   == StreamFrame(job.length, job.stamp)
            channel == FirstChannel(job.mode)
            bytes   == get_packet_data(frame, job.interface, job.mode, channel)
            tuned   == assemble_set_freq(job.mode, channel, 80)
        IN /\ LengthsFit(frame, job.interface, job.mode, channel)
           /\ get_payload(frame) = Payload(job.length)
           /\ SubSeq(bytes, 37, 40) = SubSeq(tuned, 6, 9)
           /\ FromLittleEndian(SubSeq(bytes, 41, 42)) = channel
           /\ FromLittleEndian(SubSeq(bytes, 33, 34)) = job.interface
           /\ convert_to_network_packet(frame).timestamp = job.stamp
           /\ get_device_timestamp(frame) = job.stamp

Configurations == UNION { { <<mode, channel>> : channel \in Channels(mode) } : mode \in Modes }

Commands(firmware, c) ==
    <<assemble_set_phy(c[1], firmware), assemble_set_freq(c[1], c[2], firmware)>>

(* No board is told the same for two configurations: modes that share a    *)
(* phy differ in all their frequencies, channels of a mode in theirs after *)
(* rounding, and a mode the firmware lacks gives neither of the commands   *)
(* (command_assembler.hpp:122, command_assembler.cpp:336).                 *)
ToldApart ==
    job.kind = "board" =>
        LET has == { c \in Configurations : Commands(job.firmware, c) # <<<<>>, <<>>>> }
        IN /\ Cardinality({ Commands(job.firmware, c) : c \in has }) = Cardinality(has)
           /\ \A c \in has : \A i \in 1 .. 2 : Commands(job.firmware, c)[i] # <<>>
           /\ has = {} <=> job.firmware \notin Firmwares
=============================================================================
