------------------------------- MODULE Framer -------------------------------
(***************************************************************************)
(* The reading side of a serial line: Device::receive_response feeds the   *)
(* bytes that arrive to a Framer (src/framer.cpp) and gives back the bytes *)
(* of the first frame the Framer accepts.  The device sends frames; bytes  *)
(* of them may be lost on the way.                                         *)
(*                                                                         *)
(* A frame is 40 53, the kind, the length (low byte first), data, a byte   *)
(* that must not be zero, and 40 45.  The length of a stream frame (C0)    *)
(* counts that byte, the length of any other frame does not.               *)
(***************************************************************************)
EXTENDS Integers, Sequences, Selection

CONSTANTS
  Frames,       \* the frames the device may send
  BufferSize,   \* the size of frame_payload
  MaxFrames,    \* bound: frames sent
  MaxDamaged    \* bound: frames that lose a byte or are cut by a silence

Byte == 0 .. 255
ASSUME FramesAssumption == Frames \subseteq Seq(Byte)
ASSUME BoundsAssumption ==
  BufferSize \in Nat \ {0} /\ MaxFrames \in Nat /\ MaxDamaged \in Nat

VARIABLES
  state,         \* state of the Framer of the current receive_response
  dataLength,    \* its data_length
  index,         \* its current_data_index
  response,      \* the bytes read since the last error
  line,          \* the bytes on their way
  returned,      \* history: the responses receive_response has given back
  sent,          \* history: the frames sent, each as it arrives
  overrun        \* history: frame_payload was indexed past its end

framer == <<state, dataLength, index>>
vars == <<framer, response, line, returned, sent, overrun>>

Uint16(n) == n % 65536

----------------------------------------------------------------------------
\* The constructor and reset; recover.  The variant of recover only goes back
\* to the first state.
Reset == state' = "BOF_1" /\ dataLength' = 0 /\ index' = 0
RecoverStateOnly == state' = "BOF_1" /\ UNCHANGED <<dataLength, index>>
Recover == Reset

----------------------------------------------------------------------------
\* process: the fields after a byte.  data_length - 1 is computed in int, so
\* that a length of 0 takes one byte of data, as 1 does.  The last byte is not
\* compared with the sum of the frame.

Expect(b, byte, next) == IF b = byte THEN next ELSE "ERROR"

DataEnds == index >= dataLength - 1

NextState(b) ==
  CASE state = "BOF_1" -> Expect(b, 64, "BOF_2")
    [] state = "BOF_2" -> Expect(b, 83, "INFO")
    [] state = "INFO" -> "LENGTH_1"
    [] state = "LENGTH_1" -> "LENGTH_2"
    [] state = "LENGTH_2" -> "DATA"
    [] state = "DATA" -> IF DataEnds THEN "FCS" ELSE "DATA"
    [] state = "FCS" -> IF b # 0 THEN "EOF_1" ELSE "ERROR"
    [] state = "EOF_1" -> Expect(b, 64, "EOF_2")
    [] state = "EOF_2" -> Expect(b, 69, "SUCCESS")

\* 16-bit arithmetic: the length of a stream frame starts at 65535.  Variants:
\* it forgets that the length counts the last byte; it uses a signed integer.
InfoLengthIgnored(b) == dataLength
InfoLengthSigned(b) == IF b = 192 THEN dataLength - 1 ELSE dataLength
InfoLength(b) == Uint16(IF b = 192 THEN dataLength - 1 ELSE dataLength)

\* (byte << 8) | data_length, for the values LENGTH_1 leaves, 0 .. 255 and 65535.
ByteUnited(b) == IF dataLength = 65535 THEN dataLength ELSE 256 * b + dataLength

NextLength(b) ==
  CASE state = "INFO" -> InfoLength(b)
    [] state = "LENGTH_1" -> Uint16(dataLength + b)
    [] state = "LENGTH_2" -> ByteUnited(b)
    [] OTHER -> dataLength

NextIndex == IF state = "DATA" THEN index + 1 ELSE index

Process(b) ==
  state' = NextState(b) /\ dataLength' = NextLength(b) /\ index' = NextIndex

----------------------------------------------------------------------------
\* receive_response

\* Variant that keeps the bytes read before an error.
KeepsResponse(read) == read
AfterError(read) == << >>

\* A byte is added to the response before it is processed.
Receive(b) ==
  LET read == Append(response, b)
  IN  \/ /\ NextState(b) = "SUCCESS"
         /\ Reset
         /\ response' = << >> /\ returned' = Append(returned, read)
      \/ /\ NextState(b) = "ERROR"
         /\ Recover
         /\ response' = AfterError(read) /\ UNCHANGED returned
      \/ /\ NextState(b) \notin {"SUCCESS", "ERROR"}
         /\ Process(b)
         /\ response' = read /\ UNCHANGED returned

ReadByte ==
  /\ line # << >> /\ ~overrun
  /\ state = "DATA" => index < BufferSize
  /\ Receive(Head(line))
  /\ line' = Tail(line)
  /\ UNCHANGED <<sent, overrun>>

\* frame_payload[current_data_index] past the end: nothing is known thereafter.
Overrun ==
  /\ line # << >> /\ ~overrun
  /\ state = "DATA" /\ index >= BufferSize
  /\ overrun' = TRUE
  /\ UNCHANGED <<framer, response, line, returned, sent>>

\* Ten seconds without a byte: the next call starts with a new Framer.  A
\* silence in the middle of a frame cuts it.
Silence == Reset /\ response' = << >>

Last(s) == s[Len(s)]
Damaged == Len(SelectSeq(sent, LAMBDA s : s.damaged))

Timeout ==
  /\ ~overrun
  /\ Silence
  /\ IF line = << >>
     THEN UNCHANGED sent
     ELSE /\ Damaged < MaxDamaged \/ Last(sent).damaged
          /\ sent' = [sent EXCEPT ![Len(sent)].damaged = TRUE]
  /\ UNCHANGED <<line, returned, overrun>>

----------------------------------------------------------------------------
\* The device and the line

Without(frame, i) == SubSeq(frame, 1, i - 1) \o SubSeq(frame, i + 1, Len(frame))

\* A frame is sent when the one before has been read: the Framer cannot tell
\* the difference.  One of its bytes may be lost.  fresh says whether the
\* receiver was between two frames.
Send ==
  /\ line = << >> /\ ~overrun
  /\ Len(sent) < MaxFrames
  /\ \E f \in Frames :
       \/ /\ line' = f
          /\ sent' = Append(sent, [frame |-> f, damaged |-> FALSE,
                                   fresh |-> response = << >>])
       \/ /\ Damaged < MaxDamaged
          /\ \E i \in 1 .. Len(f) : line' = Without(f, i)
          /\ sent' = Append(sent, [frame |-> f, damaged |-> TRUE,
                                   fresh |-> response = << >>])
  /\ UNCHANGED <<framer, response, returned, overrun>>

Init ==
  /\ state = "BOF_1" /\ dataLength = 0 /\ index = 0 /\ response = << >>
  /\ line = << >> /\ returned = << >> /\ sent = << >> /\ overrun = FALSE

Next == ReadByte \/ Overrun \/ Timeout \/ Send \/ (overrun /\ UNCHANGED vars)

Spec == Init /\ [][Next]_vars

----------------------------------------------------------------------------
\* Properties

States == {"BOF_1", "BOF_2", "INFO", "LENGTH_1", "LENGTH_2", "DATA", "FCS", "EOF_1",
           "EOF_2"}
MaxLength == 65535
Lengths == 0 .. MaxLength
FramerTypeOK == state \in States /\ dataLength \in Lengths /\ index \in 0 .. BufferSize

Sendings == [frame : Frames, damaged : BOOLEAN, fresh : BOOLEAN]
LineTypeOK ==
  /\ response \in Seq(Byte) /\ line \in Seq(Byte)
  /\ returned \in Seq(Seq(Byte))
  /\ sent \in Seq(Sendings)
  /\ overrun \in BOOLEAN

\* Every variable keeps its type; data_length its 16 bits.
TypeOK == FramerTypeOK /\ LineTypeOK

\* How many bytes of a frame have been read.
Before == [BOF_1 |-> 0, BOF_2 |-> 1, INFO |-> 2, LENGTH_1 |-> 3, LENGTH_2 |-> 4,
           DATA |-> 5, FCS |-> 5, EOF_1 |-> 6, EOF_2 |-> 7]
Position == Before[state] + index

\* The bytes receive_response keeps are those of the frame the Framer is in,
\* whatever errors, silences and losses there were (device.cpp:307-325): the
\* fields of a response are where verify_response and the packet conversions
\* index it.
ResponseInStep == Len(response) = Position

\* A frame as the Framer takes it: the length is that of the data, which are not
\* empty and fit frame_payload.  The low byte of a stream frame's length is not
\* zero, as the 65535 of INFO would stay.
Whole(f) ==
  LET stated == f[4] + 256 * f[5]
      data == Len(f) - 8
  IN  /\ Len(f) > 8 /\ data <= BufferSize
      /\ f[1] = 64 /\ f[2] = 83
      /\ f[Len(f) - 1] = 64 /\ f[Len(f)] = 69
      /\ IF f[3] = 192 THEN f[4] # 0 /\ stated = data + 1 ELSE stated = data

\* Frames with a last byte that is not zero.
Accepted(s) == s.frame[Len(s.frame) - 2] # 0

\* The answers a host can count on: the frames sent so far that are accepted.
AcceptedSendings == { s \in Sendings : Accepted(s) }
FramesOf(list) == [i \in DOMAIN list |-> list[i].frame]
Answers == FramesOf(Selected(sent, AcceptedSendings))

\* On a line that loses nothing every frame is returned, once and in order, but
\* for those whose last byte is zero (framer.cpp:69), which disturb none of the
\* others; and frame_payload, whose index and length have different origins, is
\* not indexed past its end (framer.cpp:63).
Undamaged == \A i \in DOMAIN sent : ~sent[i].damaged
NothingLost == Undamaged => ~overrun /\ (line = << >> => returned = Answers)

\* A receiver that is between two frames returns the next one that arrives
\* whole, whatever was damaged before: recover and the timeout leave nothing
\* behind (framer.hpp:63).
InStepAgain ==
  line = << >> /\ sent # << >> /\ ~overrun =>
    LET s == Last(sent)
    IN  ~s.damaged /\ s.fresh /\ Accepted(s)
          => returned # << >> /\ Last(returned) = s.frame
=============================================================================
