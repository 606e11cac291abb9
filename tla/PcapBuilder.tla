----------------------------- MODULE PcapBuilder -----------------------------
(***************************************************************************)
(* The record that a frame of a sniffer board becomes in a log file or a   *)
(* pipe: the fields of the frame, the pcap header with its date, and the   *)
(* mock IP and UDP headers around the radio information.                   *)
(*                                                                         *)
(* Times are in microseconds.  Second and Width stand for a million and    *)
(* 2^32: with smaller values TLC meets every wrap in few steps.            *)
(***************************************************************************)
EXTENDS CommandAssembler

CONSTANTS Second, Width

ASSUME TimeAssumption == /\ Second \in Nat \ {0, 1}
                         /\ Width \in Nat \ {0}

(* A frame is the bytes a device hands to the output manager.              *)
FromLittleEndian(bytes) ==
    FoldRight(LAMBDA byte, sum : byte + 256 * sum, bytes, 0)

(* Without the start, the info byte and the end.                           *)
Inside(frame) == SubSeq(frame, 4, Len(frame) - 2)

convert_to_network_packet(frame) ==
    LET data == Inside(frame)
    IN [length    |-> (256 * data[2] + data[1]) - 9,
        timestamp |-> FromLittleEndian(SubSeq(data, 3, 8)),
        rssi      |-> data[Len(data) - 1],
        fcs       |-> data[Len(data)],
        payload   |-> SubSeq(data, 10, Len(data) - 2)]

get_device_timestamp(frame) ==
    IF Len(frame) < 13 THEN 0 ELSE FromLittleEndian(SubSeq(frame, 6, 11))

(* What the key extraction is given.                                       *)
get_payload(frame) == SubSeq(frame, 13, Len(frame) - 4)

(* A variant: the seconds of the timer are forgotten.                      *)
DateWithoutSeconds(start, stamp) ==
    [sec |-> start \div Second, usec |-> ((start % Width) + stamp) % Second]

(* The date of a record.  The microseconds since 1970 lose their upper     *)
(* bits in a cast; the sum of the microseconds is reduced without a carry  *)
(* to the seconds.                                                         *)
Date(start, stamp) ==
    [sec  |-> start \div Second + stamp \div Second,
     usec |-> ((start % Width) + stamp) % Second]

Ipv4Size == 20
UdpSize == 8
TiSize == 4
ProtocolSize == 1
RadioSize == 2 + 1 + 4 + 2 + 1 + 1

(* A variant: the radio information is left out of the sum.                *)
LengthWithoutProtocol(packet) == Ipv4Size + UdpSize + TiSize + RadioSize + packet.length

TotalLength(packet) ==
    Ipv4Size + UdpSize + TiSize + ProtocolSize + RadioSize + packet.length

get_packet_header(frame, start) ==
    LET packet == convert_to_network_packet(frame)
    IN [date     |-> Date(start, packet.timestamp),
        incl_len |-> TotalLength(packet),
        orig_len |-> TotalLength(packet)]

BigEndian16(n) == <<(n \div 256) % 256, n % 256>>

ipv4_header(length) == <<69, 0>> \o BigEndian16(length) \o
    <<0, 0, 0, 0, 128, 17, 183, 59, 192, 168, 1, 3, 192, 168, 1, 3>>

udp_header(length) == <<69, 96, 69, 96>> \o BigEndian16(length) \o <<29, 130>>

ti_header == <<0, 60, 0, 0>>

(* The bytes of a record behind its header.  interface is the number made  *)
(* of the digits in the name of the port.                                  *)
get_packet_data(frame, interface, mode, channel) ==
    LET packet == convert_to_network_packet(frame)
    IN ipv4_header(TotalLength(packet)) \o udp_header(TotalLength(packet) - 20) \o ti_header
       \o LittleEndian(interface, 2)
       \o <<get_protocol_value(mode), get_ti_phy_value(mode)>>
       \o convertFreqToByte(calculateFinalFreq(mode, channel))
       \o LittleEndian(channel, 2) \o <<packet.rssi, packet.fcs>> \o packet.payload

-----------------------------------------------------------------------------
(* Properties of the operators *)

(* The three lengths of a record, the one that is summed up beside its     *)
(* headers and the two in them, are those of its bytes, whose payload is   *)
(* the one that keys are extracted from (pcap_builder.cpp:43,              *)
(* pcap_builder.cpp:88, command_assembler.cpp:514).                        *)
LengthsFit(frame, interface, mode, channel) ==
    LET bytes     == get_packet_data(frame, interface, mode, channel)
        Number(i) == 256 * bytes[i] + bytes[i + 1]
    IN /\ get_packet_header(frame, 0).incl_len = Len(bytes)
       /\ Number(3) = Len(bytes) /\ Number(25) = Len(bytes) - Ipv4Size
       /\ SubSeq(bytes, 45, Len(bytes)) = get_payload(frame)
=============================================================================
