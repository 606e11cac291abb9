-------------------------- MODULE PayloadHandler --------------------------
(***************************************************************************)
(* The parsers of payload_handler.cpp: from a captured frame to the layer  *)
(* with the security header.  A frame is a sequence of bytes; a parser     *)
(* that answers false gives NoLayer, one that answers true a record with   *)
(* what it writes through its references.  Offsets of the code count from  *)
(* 0, so that an offset is the length of what precedes it.                 *)
(***************************************************************************)
EXTENDS Integers, Sequences

NoLayer == [ok |-> FALSE]

\* Field b of frame control byte c: the bits from..to, counted from 0.
Bits(c, from, to) == (c \div 2^from) % 2^(to - from + 1)
IsSet(c, bit) == Bits(c, bit, bit) = 1

\* Split a frame after the first n bytes.
FirstBytes(frame, n) == SubSeq(frame, 1, n)
BytesBehind(frame, n) == SubSeq(frame, n + 1, Len(frame))

---------------------------------------------------------------------------
(* MAC layer *)

\* Length of an address of 802.15.4: none, short or extended.
AddressLength(mode) == CASE mode = 2 -> 2 [] mode = 3 -> 8 [] OTHER -> 0

\* parseAddressingInfo of a data frame: frame control, sequence number,
\* PAN identifiers and addresses.
AddressingInfo(high, low) ==
  LET dest == Bits(high, 2, 3)
      src == Bits(high, 6, 7)
  IN  3 + AddressLength(dest) + (IF dest # 0 THEN 2 ELSE 0)
        + (IF ~IsSet(low, 6) /\ src # 0 THEN 2 ELSE 0) + AddressLength(src)

IsMacData(low) == Bits(low, 0, 2) = 1

\* getNwkLayer: what follows the addresses, without the two bytes of the
\* checksum.
NwkLayer(payload) ==
  IF /\ Len(payload) >= 9
     /\ IsMacData(payload[1])
     /\ Len(payload) > AddressingInfo(payload[2], payload[1]) + 3
  THEN [ok |-> TRUE,
        nwk |-> SubSeq(payload, AddressingInfo(payload[2], payload[1]) + 1,
                       Len(payload) - 2)]
  ELSE NoLayer

---------------------------------------------------------------------------
(* Network layer *)

\* Frame control, addresses, radius and sequence number, IEEE addresses.
NwkFixedLength(high) ==
  8 + (IF IsSet(high, 3) THEN 8 ELSE 0) + (IF IsSet(high, 4) THEN 8 ELSE 0)

\* The source route, if there is one: relay count and index, relays.
SourceRouteLength(frame, start) ==
  IF IsSet(frame[2], 2) THEN 2 + 2 * frame[start + 1] ELSE 0

\* parseNwkHeader: each field is checked before the offset moves on.
NwkHeaderFits(frame) ==
  /\ Len(frame) >= 2
  /\ Bits(frame[1], 0, 1) = 0
  /\ LET fixed == NwkFixedLength(frame[2])
     IN  /\ Len(frame) >= fixed
         /\ IsSet(frame[2], 2) => Len(frame) >= fixed + 2
         /\ Len(frame) >= fixed + SourceRouteLength(frame, fixed)

NwkHeaderLength(frame) ==
  LET fixed == NwkFixedLength(frame[2])
  IN  fixed + SourceRouteLength(frame, fixed)

\* extractNwkPayload
NwkPayload(frame) ==
  IF NwkHeaderFits(frame)
  THEN [ok |-> TRUE, security |-> IsSet(frame[2], 1),
        header |-> FirstBytes(frame, NwkHeaderLength(frame)),
        payload |-> BytesBehind(frame, NwkHeaderLength(frame))]
  ELSE NoLayer

---------------------------------------------------------------------------
(* Application support layer *)

\* parseApsHeader: a command has a frame control and a counter; endpoints
\* and a group address are counted for the frames that have bit 4 set.
ApsHeaderLength(control) ==
  LET delivery == Bits(control, 2, 3)
  IN  2 + (IF IsSet(control, 4)
           THEN 1 + (IF delivery \in {0, 2} THEN 1 ELSE 0)
                  + (IF delivery = 3 THEN 2 ELSE 0)
           ELSE 0)

ApsHeaderFits(frame) ==
  /\ Len(frame) >= 1
  /\ Bits(frame[1], 0, 1) = 1
  /\ Len(frame) >= ApsHeaderLength(frame[1])
  /\ ~IsSet(frame[1], 7)

\* extractApsPayload
ApsPayload(frame) ==
  IF ApsHeaderFits(frame)
  THEN [ok |-> TRUE, security |-> IsSet(frame[1], 5),
        header |-> FirstBytes(frame, ApsHeaderLength(frame[1])),
        payload |-> BytesBehind(frame, ApsHeaderLength(frame[1]))]
  ELSE NoLayer

---------------------------------------------------------------------------
(* Security header *)

\* The kind of key a security control names: bits 3 and 4.
KeyId(control) == Bits(control, 3, 4)

\* The message hashed with a link key: the key-transport key or the
\* key-load key.
HashMessage(control) == IF KeyId(control) = 2 THEN <<0>> ELSE <<2>>

\* The security header: control, frame counter, source address, and for the
\* network layer the sequence number of the key.
AuxLength(isNwkLayer) == IF isNwkLayer THEN 14 ELSE 13

\* Source address, frame counter, security control.
Nonce(frame) == SubSeq(frame, 6, 13) \o SubSeq(frame, 2, 5) \o <<frame[1]>>

\* extractAuxPayload; header is that of the layer, which grows by the
\* security header.
AuxPayload(frame, header, isNwkLayer) ==
  IF /\ Len(frame) >= 15
     /\ KeyId(frame[1]) \in (IF isNwkLayer THEN {1} ELSE {2, 3})
  THEN [ok |-> TRUE, nonce |-> Nonce(frame),
        hashMsg |-> IF isNwkLayer THEN <<>> ELSE HashMessage(frame[1]),
        header |-> header \o FirstBytes(frame, AuxLength(isNwkLayer)),
        payload |-> BytesBehind(frame, AuxLength(isNwkLayer))]
  ELSE NoLayer
===========================================================================
