---------------------------- MODULE FramerProofs ----------------------------
(***************************************************************************)
(* For every set of frames, every loss and every silence: the bytes kept   *)
(* by receive_response are in step with the Framer, whose length and index *)
(* keep their ranges.  If the frames are whole, a receiver between two of  *)
(* them returns the next one, and a line that loses nothing loses none.    *)
(***************************************************************************)
EXTENDS Framer, SelectionProofs

\* The lengths a state can be reached with, and the index before the data.
FieldsInv ==
  /\ state \in {"BOF_1", "BOF_2", "INFO"} => dataLength \in {0}
  /\ state = "LENGTH_1" => dataLength \in {0, 65535}
  /\ state = "LENGTH_2" => dataLength \in Byte \cup {65535}
  /\ state \in {"BOF_1", "BOF_2", "INFO", "LENGTH_1", "LENGTH_2"} => index \in {0}

FramerInv == FramerTypeOK /\ FieldsInv /\ ResponseInStep

\* What is on the line belongs to a frame that was sent.
LineInv == LineTypeOK /\ (line # << >> => sent # << >>)

IInv == FramerInv /\ LineInv

\* The Framer goes to the next field, with a length that field allows.
Advances ==
  \/ state = "BOF_1" /\ state' = "BOF_2" /\ dataLength' \in {0} /\ index' \in {index}
  \/ state = "BOF_2" /\ state' = "INFO" /\ dataLength' \in {0} /\ index' \in {index}
  \/ state = "INFO" /\ state' = "LENGTH_1" /\ dataLength' \in {0, 65535}
     /\ index' \in {index}
  \/ state = "LENGTH_1" /\ state' = "LENGTH_2" /\ index' \in {index}
     /\ dataLength' \in Byte \cup {65535}
  \/ state = "LENGTH_2" /\ state' = "DATA" /\ dataLength' \in Lengths
     /\ index' \in {index}
  \/ state = "DATA" /\ state' \in {"DATA", "FCS"} /\ dataLength' \in {dataLength}
     /\ index' \in {index + 1}
  \/ state = "FCS" /\ state' = "EOF_1" /\ dataLength' \in {dataLength} /\ index' \in {index}
  \/ state = "EOF_1" /\ state' = "EOF_2" /\ dataLength' \in {dataLength} /\ index' \in {index}

\* What process may put together for data_length fits 16 bits (framer.cpp:49-61).
LEMMA LengthRanges ==
  /\ 0 \in Lengths /\ 65535 \in Lengths /\ Byte \subseteq Lengths
  /\ \A x, y \in Byte : 256 * x + y \in Lengths
<1>1. MaxLength \in Int /\ 65535 <= MaxLength
  BY SMT DEF MaxLength
<1>2. ASSUME NEW n \in Int, 0 <= n, n <= 65535
      PROVE  n \in Lengths
  BY SMT, <1>1, <1>2 DEF Lengths
<1>3. ASSUME NEW x \in Byte
      PROVE  x \in Int /\ 0 <= x /\ x <= 255
  BY SMT, <1>3 DEF Byte
<1>4. ASSUME NEW x \in Byte, NEW y \in Byte
      PROVE  256 * x + y \in Lengths
  <2>1. 256 * x + y \in Int /\ 0 <= 256 * x + y /\ 256 * x + y <= 65535
    BY SMT, <1>3
  <2> QED
    BY <2>1, <1>2
<1>5. Byte \subseteq Lengths
  <2> SUFFICES ASSUME NEW x \in Byte PROVE x \in Lengths
    OBVIOUS
  <2>1. x \in Int /\ 0 <= x /\ x <= 65535
    BY SMT, <1>3
  <2> QED
    BY <2>1, <1>2
<1>6. 65535 \in Lengths /\ 0 \in Lengths
  BY <1>2
<1> QED
  BY <1>4, <1>5, <1>6

\* A byte that neither ends nor spoils the frame takes the Framer to the next
\* field (framer.cpp:32-86).
LEMMA ProcessFields ==
  ASSUME FramerTypeOK, FieldsInv, NEW b \in Byte,
         Process(b), NextState(b) \notin {"ERROR", "SUCCESS"}
  PROVE  Advances
<1>1. CASE state = "BOF_1"
  <2>1. state' = "BOF_2"
    BY SMT, <1>1 DEF Process, NextState, Expect
  <2>2. dataLength' = 0 /\ index' = index
    BY SMT, <1>1 DEF Process, NextLength, NextIndex, FieldsInv
  <2> QED
    BY SMT, <1>1, <2>1, <2>2 DEF Advances
<1>2. CASE state = "BOF_2"
  <2>1. state' = "INFO"
    BY SMT, <1>2 DEF Process, NextState, Expect
  <2>2. dataLength' = 0 /\ index' = index
    BY SMT, <1>2 DEF Process, NextLength, NextIndex, FieldsInv
  <2> QED
    BY SMT, <1>2, <2>1, <2>2 DEF Advances
<1>3. CASE state = "INFO"
  <2>1. state' = "LENGTH_1" /\ index' = index
    BY SMT, <1>3 DEF Process, NextState, NextIndex
  <2>2. dataLength' = InfoLength(b) /\ dataLength = 0
    BY SMT, <1>3 DEF Process, NextLength, FieldsInv
  <2>3. dataLength' \in {0, 65535}
    BY SMT, <2>2 DEF InfoLength, Uint16
  <2> QED
    BY SMT, <1>3, <2>1, <2>3 DEF Advances
<1>4. CASE state = "LENGTH_1"
  <2>1. state' = "LENGTH_2" /\ index' = index
    BY SMT, <1>4 DEF Process, NextState, NextIndex
  <2>2. dataLength' = Uint16(dataLength + b) /\ dataLength \in {0, 65535}
    BY SMT, <1>4 DEF Process, NextLength, FieldsInv
  <2>3. dataLength' \in Byte \cup {65535}
    BY SMT, <2>2 DEF Uint16, Byte
  <2> QED
    BY SMT, <1>4, <2>1, <2>3 DEF Advances
<1>5. CASE state = "LENGTH_2"
  <2>1. state' = "DATA" /\ index' = index
    BY SMT, <1>5 DEF Process, NextState, NextIndex
  <2>2. dataLength' = ByteUnited(b)
    BY SMT, <1>5 DEF Process, NextLength
  <2>3. dataLength \in Byte \cup {65535}
    BY SMT, <1>5 DEF FieldsInv
  <2>4. dataLength' \in Lengths
    <3>1. CASE dataLength = 65535
      <4>1. dataLength' = 65535
        BY <2>2, <3>1 DEF ByteUnited
      <4> QED
        BY <4>1, LengthRanges
    <3>2. CASE dataLength # 65535
      <4>1. dataLength \in Byte /\ dataLength' = 256 * b + dataLength
        BY <2>2, <2>3, <3>2 DEF ByteUnited
      <4> QED
        BY <4>1, LengthRanges
    <3> QED
      BY <3>1, <3>2
  <2> QED
    BY SMT, <1>5, <2>1, <2>4 DEF Advances
<1>6. CASE state = "DATA"
  <2>1. state' \in {"DATA", "FCS"}
    BY SMT, <1>6 DEF Process, NextState
  <2>2. dataLength' = dataLength /\ index' = index + 1
    BY SMT, <1>6 DEF Process, NextLength, NextIndex
  <2> QED
    BY SMT, <1>6, <2>1, <2>2 DEF Advances
<1>7. CASE state = "FCS"
  <2>1. state' = "EOF_1"
    BY SMT, <1>7 DEF Process, NextState
  <2>2. dataLength' = dataLength /\ index' = index
    BY SMT, <1>7 DEF Process, NextLength, NextIndex
  <2> QED
    BY SMT, <1>7, <2>1, <2>2 DEF Advances
<1>8. CASE state = "EOF_1"
  <2>1. state' = "EOF_2"
    BY SMT, <1>8 DEF Process, NextState, Expect
  <2>2. dataLength' = dataLength /\ index' = index
    BY SMT, <1>8 DEF Process, NextLength, NextIndex
  <2> QED
    BY SMT, <1>8, <2>1, <2>2 DEF Advances
<1>9. state # "EOF_2"
  BY SMT DEF NextState, Expect
<1>10. state \in States
  BY DEF FramerTypeOK
<1> QED
  BY SMT, <1>1, <1>2, <1>3, <1>4, <1>5, <1>6, <1>7, <1>8, <1>9, <1>10 DEF States

\* Such a byte moves the Framer one position on, as long as the data fit
\* frame_payload.
LEMMA ProcessStep ==
  ASSUME FramerTypeOK, FieldsInv, NEW b \in Byte,
         state = "DATA" => index < BufferSize,
         Process(b), NextState(b) \notin {"ERROR", "SUCCESS"}
  PROVE  FramerTypeOK' /\ FieldsInv' /\ Position' = Position + 1
<1>1. Advances
  BY ProcessFields
<1>2. state \in States /\ index \in 0 .. BufferSize /\ dataLength \in Lengths
  BY SMT DEF FramerTypeOK
<1>3. state' \in States
  BY SMT, <1>1 DEF Advances, States
<1>4. index' \in {index, index + 1} /\ (index' # index => state = "DATA")
  BY SMT, <1>1 DEF Advances
<1>5. index' \in 0 .. BufferSize
  <2>1. CASE index' = index
    BY <1>2, <2>1
  <2>2. CASE index' = index + 1 /\ index < BufferSize
    BY SMT, <1>2, <2>2, BoundsAssumption
  <2> QED
    BY <1>4, <2>1, <2>2
<1>6. {0, 65535} \subseteq Lengths /\ Byte \subseteq Lengths
  BY LengthRanges
<1>7. dataLength' \in Lengths
  BY SMT, <1>1, <1>2, <1>6 DEF Advances
<1>8. FieldsInv'
  BY SMT, <1>1 DEF Advances, FieldsInv
<1>9. Before[state'] + index' = Before[state] + index + 1
  BY SMT, <1>1, <1>2 DEF Advances, Before
<1> QED
  BY SMT, <1>3, <1>5, <1>7, <1>8, <1>9 DEF FramerTypeOK, Position

\* A new Framer goes with an empty response.
LEMMA NewFramer ==
  ASSUME Reset, response' = << >>
  PROVE  FramerInv'
<1>1. state' = "BOF_1" /\ dataLength' = 0 /\ index' = 0
  BY DEF Reset
<1>2. FramerTypeOK'
  BY SMT, <1>1, BoundsAssumption, LengthRanges DEF FramerTypeOK, States
<1>3. FieldsInv'
  BY SMT, <1>1 DEF FieldsInv
<1>4. ResponseInStep'
  BY SMT, <1>1 DEF ResponseInStep, Position, Before
<1> QED
  BY <1>2, <1>3, <1>4 DEF FramerInv

\* Steps of the line alone keep what is said of the Framer.
LEMMA SameFramer ==
  ASSUME FramerInv, UNCHANGED <<framer, response>>
  PROVE  FramerInv'
  BY DEF framer, FramerInv, FramerTypeOK, FieldsInv, ResponseInStep, Position

\* A frame that lost a byte is a sequence of bytes still.
LEMMA WithoutType ==
  ASSUME NEW f \in Seq(Byte), NEW i \in 1 .. Len(f)
  PROVE  Without(f, i) \in Seq(Byte)
  BY DEF Without

\* The invariant holds when the first receive_response starts.
LEMMA InvInit == Init => IInv
<1> SUFFICES ASSUME Init PROVE IInv
  OBVIOUS
<1>1. state = "BOF_1" /\ dataLength = 0 /\ index = 0 /\ response = << >>
  BY DEF Init
<1>2. FramerTypeOK
  BY SMT, <1>1, BoundsAssumption, LengthRanges DEF FramerTypeOK, States
<1>3. FieldsInv
  BY SMT, <1>1 DEF FieldsInv
<1>4. ResponseInStep
  BY SMT, <1>1 DEF ResponseInStep, Position, Before
<1>5. << >> \in Seq(Sendings) /\ << >> \in Seq(Byte) /\ << >> \in Seq(Seq(Byte))
  BY EmptySeq
<1>6. LineInv
  BY <1>5 DEF Init, LineInv, LineTypeOK
<1> QED
  BY <1>2, <1>3, <1>4, <1>6 DEF IInv, FramerInv

\* Every step keeps the Framer and the response in step.
LEMMA FramerNext == IInv /\ [Next]_vars => FramerInv'
<1> SUFFICES ASSUME IInv, [Next]_vars PROVE FramerInv'
  OBVIOUS
<1>1. FramerInv /\ response \in Seq(Byte) /\ line \in Seq(Byte)
  BY DEF IInv, LineInv, LineTypeOK
<1>2. CASE ReadByte
  <2> DEFINE b == Head(line)
  <2>1. b \in Byte /\ Receive(b) /\ (state = "DATA" => index < BufferSize)
    BY <1>1, <1>2 DEF ReadByte
  <2>2. CASE NextState(b) \in {"SUCCESS", "ERROR"}
    <3>1. Reset /\ response' = << >>
      BY <2>1, <2>2 DEF Receive, Recover, AfterError
    <3> QED
      BY <3>1, NewFramer
  <2>3. CASE NextState(b) \notin {"SUCCESS", "ERROR"}
    <3>1. Process(b) /\ response' = Append(response, b)
      BY <2>1, <2>3 DEF Receive
    <3>2. FramerTypeOK' /\ FieldsInv' /\ Position' = Position + 1
      BY <1>1, <2>1, <2>3, <3>1, ProcessStep DEF FramerInv
    <3>3. Len(response') = Len(response) + 1
      BY <1>1, <2>1, <3>1, AppendProperties
    <3>4. Len(response) = Position
      BY <1>1 DEF FramerInv, ResponseInStep
    <3> QED
      BY <3>2, <3>3, <3>4 DEF FramerInv, ResponseInStep
  <2> QED
    BY <2>2, <2>3
<1>3. CASE Timeout
  BY <1>3, NewFramer DEF Timeout, Silence
<1>4. CASE Overrun \/ Send \/ UNCHANGED vars
  <2>1. UNCHANGED <<framer, response>>
    BY <1>4 DEF Overrun, Send, vars
  <2> QED
    BY <1>1, <2>1, SameFramer
<1> QED
  BY <1>2, <1>3, <1>4 DEF Next

\* Every step keeps the types of the line, and a sent frame behind its bytes.
LEMMA LineNext == IInv /\ [Next]_vars => LineInv'
<1> SUFFICES ASSUME IInv, [Next]_vars PROVE LineInv'
  OBVIOUS
<1>1. /\ response \in Seq(Byte) /\ line \in Seq(Byte)
      /\ returned \in Seq(Seq(Byte)) /\ sent \in Seq(Sendings) /\ overrun \in BOOLEAN
      /\ line # << >> => sent # << >>
  BY DEF IInv, LineInv, LineTypeOK
<1>2. CASE ReadByte
  <2> DEFINE b == Head(line)
             read == Append(response, b)
  <2>1. /\ b \in Byte /\ line' \in Seq(Byte) /\ Receive(b)
        /\ sent' = sent /\ overrun' = overrun /\ sent # << >>
    BY <1>1, <1>2 DEF ReadByte
  <2>2. read \in Seq(Byte)
    BY <1>1, <2>1
  <2>3. response' \in {<< >>, read} /\ returned' \in {returned, Append(returned, read)}
    BY <2>1 DEF Receive, AfterError
  <2>4. response' \in Seq(Byte) /\ returned' \in Seq(Seq(Byte))
    <3> HIDE DEF read
    <3>1. Append(returned, read) \in Seq(Seq(Byte)) /\ << >> \in Seq(Byte)
      BY <1>1, <2>2, AppendProperties, EmptySeq
    <3> QED
      BY <1>1, <2>2, <2>3, <3>1
  <2> QED
    BY <1>1, <2>1, <2>4 DEF LineInv, LineTypeOK
<1>3. CASE Overrun
  BY <1>1, <1>3 DEF Overrun, LineInv, LineTypeOK
<1>4. CASE Timeout
  <2>1. response' = << >> /\ UNCHANGED <<line, returned, overrun>>
    BY <1>4 DEF Timeout, Silence
  <2>2. CASE line = << >>
    BY <1>1, <1>4, <2>1, <2>2 DEF Timeout, LineInv, LineTypeOK
  <2>3. CASE line # << >>
    <3>1. sent' = [sent EXCEPT ![Len(sent)].damaged = TRUE]
      BY <1>4, <2>3 DEF Timeout
    <3>2. Len(sent) \in DOMAIN sent /\ sent[Len(sent)] \in Sendings
      BY <1>1, <2>3
    <3>3. [sent[Len(sent)] EXCEPT !.damaged = TRUE] \in Sendings
      BY <3>2 DEF Sendings
    <3>4. sent' \in Seq(Sendings) /\ Len(sent') = Len(sent)
      BY <1>1, <3>1, <3>2, <3>3
    <3> QED
      BY <1>1, <2>1, <2>3, <3>2, <3>4 DEF LineInv, LineTypeOK
  <2> QED
    BY <2>2, <2>3
<1>5. CASE Send
  <2>1. PICK f \in Frames, damaged \in BOOLEAN :
          /\ line' = f \/ \E i \in 1 .. Len(f) : line' = Without(f, i)
          /\ sent' = Append(sent, [frame |-> f, damaged |-> damaged,
                                   fresh |-> response = << >>])
    BY <1>5 DEF Send
  <2>2. UNCHANGED <<response, returned, overrun>>
    BY <1>5 DEF Send
  <2>3. line' \in Seq(Byte)
    BY <2>1, WithoutType, FramesAssumption
  <2>4. [frame |-> f, damaged |-> damaged, fresh |-> response = << >>] \in Sendings
    BY <2>1 DEF Sendings
  <2>5. sent' \in Seq(Sendings) /\ sent' # << >>
    BY <1>1, <2>1, <2>4, AppendProperties
  <2> QED
    BY <1>1, <2>2, <2>3, <2>5 DEF LineInv, LineTypeOK
<1>6. CASE UNCHANGED vars
  BY <1>1, <1>6 DEF vars, LineInv, LineTypeOK
<1> QED
  BY <1>2, <1>3, <1>4, <1>5, <1>6 DEF Next

\* The inductive invariant holds in every state of receive_response.
THEOREM FramerInvariance == Spec => []IInv
<1>1. IInv /\ [Next]_vars => IInv'
  BY FramerNext, LineNext DEF IInv
<1> QED
  BY <1>1, InvInit, PTL DEF Spec

\* Length and index keep their ranges, whatever arrives.
THEOREM FramerTypes == Spec => []TypeOK
<1>1. IInv => TypeOK
  BY DEF IInv, FramerInv, LineInv, TypeOK
<1> QED
  BY <1>1, FramerInvariance, PTL

\* The response is in step with the Framer, whatever is lost and however long
\* the line is silent (device.cpp:307-325).
THEOREM ResponseStaysInStep == Spec => []ResponseInStep
<1>1. IInv => ResponseInStep
  BY DEF IInv, FramerInv
<1> QED
  BY <1>1, FramerInvariance, PTL

----------------------------------------------------------------------------
\* Whole frames

\* The line and the response are the two parts of a frame.
Parted(f) ==
  /\ line # << >> /\ Len(response) + Len(line) = Len(f)
  /\ \A i \in 1 .. Len(response) : response[i] = f[i]
  /\ \A i \in 1 .. Len(line) : line[i] = f[Len(response) + i]

\* The fields are those the bytes of the frame make.
Reads(f) ==
  /\ state = "LENGTH_1" => dataLength = IF f[3] = 192 THEN 65535 ELSE 0
  /\ state = "LENGTH_2" => dataLength = IF f[3] = 192 THEN f[4] - 1 ELSE f[4]
  /\ state = "DATA" => dataLength = Len(f) - 8 /\ index < Len(f) - 8
  /\ state \in {"FCS", "EOF_1", "EOF_2"} => index = Len(f) - 8

\* A frame that came to a receiver between two frames, and lost nothing.
Promised(s) == ~s.damaged /\ s.fresh /\ Accepted(s)
Given(f) == line = << >> /\ returned # << >> /\ Last(returned) = f

\* Such a frame is being read byte by byte, or has been returned.
TrackInv ==
  sent # << >> /\ ~overrun /\ Promised(Last(sent)) =>
    \/ Given(Last(sent).frame)
    \/ Parted(Last(sent).frame) /\ Reads(Last(sent).frame)

\* The numbers of a whole frame.
LEMMA WholeFrame ==
  ASSUME NEW f \in Seq(Byte), Whole(f)
  PROVE  /\ Len(f) \in Nat /\ Len(f) > 8 /\ Len(f) - 8 <= BufferSize
         /\ \A i \in 1 .. Len(f) : f[i] \in 0 .. 255
         /\ f[1] = 64 /\ f[2] = 83 /\ f[Len(f) - 1] = 64 /\ f[Len(f)] = 69
         /\ f[3] = 192 => f[4] # 0 /\ f[4] - 1 + 256 * f[5] = Len(f) - 8
         /\ f[3] # 192 => f[4] + 256 * f[5] = Len(f) - 8
<1>1. Len(f) \in Nat /\ \A i \in 1 .. Len(f) : f[i] \in 0 .. 255
  BY LenProperties, ElementOfSeq DEF Byte
<1>2. Len(f) > 8 /\ Len(f) - 8 <= BufferSize
      /\ f[1] = 64 /\ f[2] = 83 /\ f[Len(f) - 1] = 64 /\ f[Len(f)] = 69
  BY DEF Whole
<1>3. f[4] \in 0 .. 255 /\ f[5] \in 0 .. 255
  BY <1>1, <1>2, SMT
<1>4. IF f[3] = 192 THEN f[4] # 0 /\ f[4] + 256 * f[5] = (Len(f) - 8) + 1
                    ELSE f[4] + 256 * f[5] = Len(f) - 8
  BY DEF Whole
<1>5. \A x, y, l \in Int : x + y = (l - 8) + 1 => x - 1 + y = l - 8
  BY SMT
<1>6. f[4] \in Int /\ 256 * f[5] \in Int /\ Len(f) \in Int
  <2>1. \A x \in 0 .. 255 : x \in Int /\ 256 * x \in Int
    BY SMT
  <2>2. Len(f) \in Int
    BY <1>1
  <2> QED
    BY <1>3, <2>1, <2>2, Zenon
<1>7. f[3] = 192 => f[4] # 0 /\ f[4] - 1 + 256 * f[5] = Len(f) - 8
  BY <1>4, <1>5, <1>6
<1> QED
  BY <1>1, <1>2, <1>4, <1>7

\* How far the response has got tells the state, but for the data.
LEMMA PlaceOf ==
  ASSUME IInv
  PROVE  /\ state \in States /\ index \in Nat /\ Len(response) \in Nat
         /\ state = "BOF_1" => Len(response) = 0
         /\ state = "BOF_2" => Len(response) = 1
         /\ state = "INFO" => Len(response) = 2
         /\ state = "LENGTH_1" => Len(response) = 3
         /\ state = "LENGTH_2" => Len(response) = 4 /\ index = 0
         /\ state \in {"DATA", "FCS"} => Len(response) = 5 + index
         /\ state = "EOF_1" => Len(response) = 6 + index
         /\ state = "EOF_2" => Len(response) = 7 + index
<1>1. state \in States /\ index \in Nat /\ Len(response) = Before[state] + index
  BY BoundsAssumption DEF IInv, FramerInv, FramerTypeOK, ResponseInStep, Position
<1>2. state \in {"BOF_1", "BOF_2", "INFO", "LENGTH_1", "LENGTH_2"} => index = 0
  BY DEF IInv, FramerInv, FieldsInv
<1>3. response \in Seq(Byte)
  BY DEF IInv, LineInv, LineTypeOK
<1> QED
  BY <1>1, <1>2, <1>3, SMT DEF Before

\* The next byte of a whole frame is the one its state expects.
LEMMA FrameGoesOn ==
  ASSUME IInv, NEW f \in Seq(Byte), Whole(f), state = "FCS" => f[Len(f) - 2] # 0,
         Parted(f), Reads(f), NEW b, b = f[Len(response) + 1]
  PROVE  /\ NextState(b) # "ERROR"
         /\ NextState(b) = "SUCCESS" <=> Len(response) + 1 = Len(f)
         /\ NextState(b) # "SUCCESS" /\ Process(b) => Reads(f)'
<1>1. /\ Len(f) \in Nat /\ Len(f) > 8
      /\ f[1] = 64 /\ f[2] = 83 /\ f[Len(f) - 1] = 64 /\ f[Len(f)] = 69
  BY WholeFrame
<1>2. CASE state \in {"BOF_1", "BOF_2", "INFO"}
  <2>1. CASE state = "BOF_1"
    <3>1. Len(response) = 0 /\ b = 64
      BY <1>1, <2>1, PlaceOf, SMT
    <3>2. NextState(b) = "BOF_2"
      BY <2>1, <3>1 DEF NextState, Expect
    <3> QED
      BY <1>1, <3>1, <3>2, SMT DEF Process, Reads
  <2>2. CASE state = "BOF_2"
    <3>1. Len(response) = 1 /\ b = 83
      <4>1. Len(response) = 1 /\ 1 + 1 = 2
        BY <2>2, PlaceOf
      <4> QED
        BY <1>1, <4>1
    <3>2. NextState(b) = "INFO"
      BY <2>2, <3>1 DEF NextState, Expect
    <3> QED
      BY <1>1, <3>1, <3>2, SMT DEF Process, Reads
  <2>3. CASE state = "INFO"
    <3>1. Len(response) = 2 /\ b = f[3]
      <4>1. Len(response) = 2 /\ 2 + 1 = 3
        BY <2>3, PlaceOf
      <4> QED
        BY <1>1, <4>1
    <3>2. NextState(b) = "LENGTH_1"
      BY <2>3 DEF NextState
    <3>3. dataLength = 0
      BY <2>3 DEF IInv, FramerInv, FieldsInv
    <3>4. InfoLength(b) = IF f[3] = 192 THEN 65535 ELSE 0
      BY <3>1, <3>3, SMT DEF InfoLength, Uint16
    <3>5. NextLength(b) = InfoLength(b)
      BY <2>3 DEF NextLength
    <3>6. ASSUME Process(b) PROVE Reads(f)'
      <4>1. state' = "LENGTH_1" /\ dataLength' = IF f[3] = 192 THEN 65535 ELSE 0
        BY <3>2, <3>4, <3>5, <3>6 DEF Process
      <4> QED
        BY <4>1 DEF Reads
    <3> QED
      BY <1>1, <3>1, <3>2, <3>6, SMT
  <2> QED
    BY <1>2, <2>1, <2>2, <2>3
<1>3. CASE state = "LENGTH_1"
  <2>1. Len(response) = 3 /\ b = f[4] /\ f[4] \in 0 .. 255
    <3>1. Len(response) = 3 /\ 3 + 1 = 4
      BY <1>3, PlaceOf
    <3>2. 4 \in 1 .. Len(f)
      BY <1>1, SMT
    <3> QED
      BY <3>1, <3>2, WholeFrame
  <2>2. NextState(b) = "LENGTH_2" /\ NextLength(b) = Uint16(dataLength + b)
    BY <1>3 DEF NextState, NextLength
  <2>3. dataLength = IF f[3] = 192 THEN 65535 ELSE 0
    BY <1>3 DEF Reads
  <2>4. f[3] = 192 => f[4] # 0
    BY WholeFrame
  <2>5. Uint16(dataLength + b) = IF f[3] = 192 THEN f[4] - 1 ELSE f[4]
    <3>1. PICK x \in 0 .. 255 : x = f[4]
      BY <2>1
    <3>2. CASE f[3] = 192
      <4>1. dataLength + b = 65535 + x /\ x # 0
        BY ONLY <2>1, <2>3, <2>4, <3>1, <3>2
      <4>2. Uint16(65535 + x) = x - 1
        BY ONLY <4>1, SMT DEF Uint16
      <4> QED
        BY ONLY <3>1, <3>2, <4>1, <4>2
    <3>3. CASE f[3] # 192
      <4>1. dataLength + b = 0 + x
        BY ONLY <2>1, <2>3, <3>1, <3>3
      <4>2. Uint16(0 + x) = x
        BY ONLY SMT DEF Uint16
      <4> QED
        BY ONLY <3>1, <3>3, <4>1, <4>2
    <3> QED
      BY <3>2, <3>3
  <2>6. ASSUME Process(b) PROVE Reads(f)'
    <3>1. state' = "LENGTH_2" /\ dataLength' = IF f[3] = 192 THEN f[4] - 1 ELSE f[4]
      BY <2>2, <2>5, <2>6 DEF Process
    <3> QED
      BY <3>1 DEF Reads
  <2> QED
    BY <1>1, <2>1, <2>2, <2>6, SMT
<1>4. CASE state = "LENGTH_2"
  <2>1. Len(response) = 4 /\ b = f[5] /\ index = 0
    <3>1. Len(response) = 4 /\ index = 0 /\ 4 + 1 = 5
      BY <1>4, PlaceOf
    <3> QED
      BY <3>1
  <2>2. NextState(b) = "DATA" /\ NextLength(b) = ByteUnited(b) /\ NextIndex = index
    BY <1>4 DEF NextState, NextLength, NextIndex
  <2>3. dataLength = IF f[3] = 192 THEN f[4] - 1 ELSE f[4]
    BY <1>4 DEF Reads
  <2>4. f[4] \in 0 .. 255 /\ f[5] \in 0 .. 255
    BY <1>1, WholeFrame, SMT
  <2>5. /\ f[3] = 192 => f[4] - 1 + 256 * f[5] = Len(f) - 8
        /\ f[3] # 192 => f[4] + 256 * f[5] = Len(f) - 8
    BY WholeFrame
  <2>6. dataLength # 65535 /\ 256 * b + dataLength = Len(f) - 8
    <3>1. PICK x \in 0 .. 255, y \in 0 .. 255 : x = f[4] /\ y = f[5]
      BY <2>4
    <3>2. x \in 0 .. 255 /\ y \in 0 .. 255
      OBVIOUS
    <3>3. CASE f[3] = 192
      <4>1. dataLength = x - 1 /\ b = y /\ x - 1 + 256 * y = Len(f) - 8
        BY <2>1, <2>3, <2>5, <3>1, <3>3, Zenon
      <4>2. x - 1 # 65535 /\ x - 1 + 256 * y = 256 * y + (x - 1)
        BY ONLY <3>2, SMT
      <4> QED
        BY ONLY <4>1, <4>2
    <3>4. CASE f[3] # 192
      <4>1. dataLength = x /\ b = y /\ x + 256 * y = Len(f) - 8
        BY <2>1, <2>3, <2>5, <3>1, <3>4, Zenon
      <4>2. x # 65535 /\ x + 256 * y = 256 * y + x
        BY ONLY <3>2, SMT
      <4> QED
        BY ONLY <4>1, <4>2
    <3> QED
      BY <3>3, <3>4
  <2>7. ByteUnited(b) = Len(f) - 8
    BY <2>6 DEF ByteUnited
  <2>8. ASSUME Process(b) PROVE Reads(f)'
    <3>1. state' = "DATA" /\ dataLength' = Len(f) - 8 /\ index' = 0
      BY <2>1, <2>2, <2>7, <2>8 DEF Process
    <3>2. 0 < Len(f) - 8
      BY <1>1, SMT
    <3> QED
      BY <3>1, <3>2 DEF Reads
  <2> QED
    BY <1>1, <2>1, <2>2, <2>8, SMT
<1>5. CASE state = "DATA"
  <2>1. Len(response) = 5 + index /\ index \in Nat
    BY <1>5, PlaceOf
  <2>2. dataLength = Len(f) - 8 /\ index < Len(f) - 8
    BY <1>5 DEF Reads
  <2>3. NextState(b) = (IF index >= (Len(f) - 8) - 1 THEN "FCS" ELSE "DATA")
        /\ NextLength(b) = dataLength /\ NextIndex = index + 1
    BY <1>5, <2>2 DEF NextState, NextLength, NextIndex, DataEnds
  <2>4. CASE index >= (Len(f) - 8) - 1
    <3>1. index + 1 = Len(f) - 8
      BY <1>1, <2>1, <2>2, <2>4, SMT
    <3>2. ASSUME Process(b) PROVE Reads(f)'
      <4>1. state' = "FCS" /\ index' = Len(f) - 8
        BY <2>3, <2>4, <3>1, <3>2 DEF Process
      <4> QED
        BY <4>1 DEF Reads
    <3>3. NextState(b) = "FCS"
      BY <2>3, <2>4
    <3> QED
      BY <1>1, <2>1, <2>2, <3>2, <3>3, SMT
  <2>5. CASE ~(index >= (Len(f) - 8) - 1)
    <3>1. index + 1 < Len(f) - 8
      BY <1>1, <2>1, <2>2, <2>5, SMT
    <3>2. ASSUME Process(b) PROVE Reads(f)'
      <4>1. state' = "DATA" /\ dataLength' = Len(f) - 8 /\ index' = index + 1
        BY <2>2, <2>3, <2>5, <3>2 DEF Process
      <4> QED
        BY <3>1, <4>1 DEF Reads
    <3>3. NextState(b) = "DATA"
      BY <2>3, <2>5
    <3> QED
      BY <1>1, <2>1, <2>2, <3>2, <3>3, SMT
  <2> QED
    BY <2>4, <2>5
<1>6. CASE state \in {"FCS", "EOF_1", "EOF_2"}
  <2>1. index = Len(f) - 8
    BY <1>6 DEF Reads
  <2>2. NextIndex = index
    BY <1>6 DEF NextIndex
  <2>3. CASE state = "FCS"
    <3>1. Len(response) + 1 = Len(f) - 2
      BY <1>1, <2>1, <2>3, PlaceOf, SMT
    <3>2. NextState(b) = "EOF_1"
      BY <2>3, <3>1 DEF NextState
    <3>3. ASSUME Process(b) PROVE Reads(f)'
      BY <2>1, <2>2, <3>2, <3>3 DEF Process, Reads
    <3> QED
      BY <1>1, <3>1, <3>2, <3>3, SMT
  <2>4. CASE state = "EOF_1"
    <3>1. Len(response) + 1 = Len(f) - 1
      BY <1>1, <2>1, <2>4, PlaceOf, SMT
    <3>2. NextState(b) = "EOF_2"
      BY <1>1, <2>4, <3>1 DEF NextState, Expect
    <3>3. ASSUME Process(b) PROVE Reads(f)'
      BY <2>1, <2>2, <3>2, <3>3 DEF Process, Reads
    <3> QED
      BY <1>1, <3>1, <3>2, <3>3, SMT
  <2>5. CASE state = "EOF_2"
    <3>1. Len(response) + 1 = Len(f)
      BY <1>1, <2>1, <2>5, PlaceOf, SMT
    <3>2. NextState(b) = "SUCCESS"
      BY <1>1, <2>5, <3>1 DEF NextState, Expect
    <3> QED
      BY <3>1, <3>2
  <2> QED
    BY <1>6, <2>3, <2>4, <2>5
<1>7. state \in States
  BY PlaceOf
<1> QED
  BY <1>2, <1>3, <1>4, <1>5, <1>6, <1>7 DEF States

\* A byte of such a frame is read, and the last one returns it.
LEMMA TrackRead ==
  ASSUME IInv, NEW f \in Seq(Byte), Whole(f), state = "FCS" => f[Len(f) - 2] # 0,
         Parted(f), Reads(f), ReadByte
  PROVE  \/ Given(f)' /\ returned' = Append(returned, f) /\ response' = << >>
            /\ state = "EOF_2"
         \/ Parted(f)' /\ Reads(f)' /\ returned' = returned /\ state' = NextState(Head(line))
<1> DEFINE b == Head(line)
           read == Append(response, b)
<1>1. /\ response \in Seq(Byte) /\ line \in Seq(Byte) /\ returned \in Seq(Seq(Byte))
      /\ Len(response) \in Nat /\ Len(line) \in Nat /\ Len(f) \in Nat
      /\ line # << >> /\ Len(response) + Len(line) = Len(f)
  BY LenProperties DEF IInv, LineInv, LineTypeOK, Parted
<1>2. Receive(b) /\ line' = Tail(line)
  BY DEF ReadByte
<1>3. Len(line) # 0 /\ 1 \in 1 .. Len(line) /\ Len(response) + 1 \in 1 .. Len(f)
  BY <1>1, EmptySeq, SMT
<1>4. /\ line' \in Seq(Byte) /\ Len(line') = Len(line) - 1
      /\ \A i \in 1 .. Len(line') : line'[i] = line[i + 1]
      /\ b = line[1] /\ b \in Byte
  BY <1>1, <1>2, HeadTailProperties
<1>5. b = f[Len(response) + 1]
  BY <1>3, <1>4 DEF Parted
<1> HIDE DEF b
<1>6. /\ read \in Seq(Byte) /\ Len(read) = Len(response) + 1
      /\ \A i \in 1 .. Len(response) : read[i] = response[i]
      /\ read[Len(response) + 1] = b
  BY <1>1, <1>4, AppendProperties
<1> HIDE DEF read
<1>7. ASSUME NEW i \in 1 .. Len(read)
      PROVE  read[i] = f[i]
  <2>1. i \in 1 .. Len(response) \/ i = Len(response) + 1
    <3>1. Len(response) \in Nat /\ i \in 1 .. Len(response) + 1
      BY <1>1, <1>6
    <3> QED
      BY ONLY <3>1, SMT
  <2> QED
    BY <1>5, <1>6, <2>1 DEF Parted
<1>8. /\ NextState(b) # "ERROR"
      /\ NextState(b) = "SUCCESS" <=> Len(response) + 1 = Len(f)
      /\ NextState(b) # "SUCCESS" /\ Process(b) => Reads(f)'
  BY <1>5, FrameGoesOn
<1>9. CASE NextState(b) = "SUCCESS"
  <2>1. Len(line') = 0 /\ Len(read) = Len(f)
    BY <1>1, <1>4, <1>6, <1>8, <1>9, SMT
  <2>2. line' = << >>
    BY <1>4, <2>1, EmptySeq
  <2>3. read = f
    BY <1>6, <1>7, <2>1, SeqEqual
  <2>4. returned' = Append(returned, f)
    BY <1>2, <1>9, <2>3 DEF Receive, read
  <2>5. Len(returned') = Len(returned) + 1 /\ returned' \in Seq(Seq(Byte))
        /\ returned'[Len(returned) + 1] = f /\ Len(returned) \in Nat
    BY <1>1, <2>4, AppendProperties, LenProperties
  <2>6. returned' # << >> /\ Last(returned') = f
    <3>1. Len(returned') # 0
      BY <2>5, SMT
    <3> QED
      BY <2>5, <3>1, EmptySeq DEF Last
  <2>7. response' = << >>
    BY <1>2, <1>9 DEF Receive
  <2>8. state = "EOF_2"
    <3>1. state \in States
      BY PlaceOf
    <3> QED
      BY <1>9, <3>1 DEF States, NextState, Expect
  <2> QED
    BY <2>2, <2>4, <2>6, <2>7, <2>8 DEF Given
<1>10. CASE NextState(b) # "SUCCESS"
  <2>1. Process(b) /\ response' = read /\ returned' = returned /\ state' = NextState(b)
    BY <1>2, <1>8, <1>10 DEF Receive, Process, read
  <2>2. Reads(f)'
    BY <1>8, <1>10, <2>1
  <2>3. Len(line') # 0 /\ Len(response') + Len(line') = Len(f)
    <3>1. Len(response) + 1 # Len(f) /\ Len(response') = Len(response) + 1
      BY <1>6, <1>8, <1>10, <2>1
    <3>2. /\ Len(response) \in Nat /\ Len(line) \in Nat /\ Len(f) \in Nat
          /\ Len(response) + Len(line) = Len(f) /\ Len(line') = Len(line) - 1
      BY <1>1, <1>4
    <3>3. PICK k \in Nat, l \in Nat, m \in Nat :
            k = Len(response) /\ l = Len(line) /\ m = Len(f)
      BY <3>2
    <3>4. k + l = m /\ k + 1 # m /\ Len(response') = k + 1 /\ Len(line') = l - 1
      BY <3>1, <3>2, <3>3
    <3>5. l - 1 # 0 /\ (k + 1) + (l - 1) = m
      BY <3>4, SMT
    <3> QED
      BY <3>3, <3>4, <3>5
  <2>4. ASSUME NEW i \in 1 .. Len(line')
        PROVE  line'[i] = f[Len(response') + i]
    <3>1. i + 1 \in 1 .. Len(line)
          /\ Len(response) + (i + 1) = (Len(response) + 1) + i
      BY <1>1, <1>4, SMT
    <3>2. line'[i] = line[i + 1] /\ line[i + 1] = f[Len(response) + (i + 1)]
      BY <1>4, <3>1 DEF Parted
    <3> QED
      BY <1>6, <2>1, <3>1, <3>2
  <2>5. Parted(f)'
    BY <1>4, <1>7, <2>1, <2>3, <2>4, EmptySeq DEF Parted
  <2> QED
    BY <2>1, <2>2, <2>5 DEF b
<1> QED
  BY <1>9, <1>10

\* A frame finds the Framer at its beginning.
LEMMA TrackSend ==
  ASSUME IInv, NEW f \in Seq(Byte), Whole(f), response = << >>,
         line' = f, UNCHANGED <<framer, response>>
  PROVE  Parted(f)' /\ Reads(f)'
<1>1. Len(f) \in Nat /\ Len(f) > 8
  BY WholeFrame
<1>2. Len(response) = 0
  BY EmptySeq
<1>3. state = "BOF_1"
  <2>1. state \in {"BOF_1", "BOF_2", "INFO", "LENGTH_1", "LENGTH_2", "DATA", "FCS", "EOF_1",
                   "EOF_2"}
    BY PlaceOf DEF States
  <2> QED
    BY <1>2, <2>1, PlaceOf, SMT
<1>4. Reads(f)'
  BY <1>3 DEF Reads, framer
<1>5. f # << >>
  BY <1>1, EmptySeq
<1>6. Parted(f)'
  <2>1. \A i \in 1 .. Len(f) : 0 + i = i
    BY SMT
  <2>2. 0 + Len(f) = Len(f) /\ 1 .. 0 = {}
    BY <1>1, SMT
  <2> QED
    BY <1>2, <1>5, <2>1, <2>2 DEF Parted
<1> QED
  BY <1>4, <1>6

\* What was appended is last.
LEMMA AppendAtEnd ==
  ASSUME NEW S, NEW s \in Seq(S), NEW e
  PROVE  Len(Append(s, e)) = Len(s) + 1 /\ Append(s, e)[Len(s) + 1] = e
  OBVIOUS

\* A step keeps what is known of the last frame.
LEMMA TrackNext ==
  ASSUME \A f \in Frames : Whole(f), IInv, TrackInv, [Next]_vars
  PROVE  TrackInv'
<1> SUFFICES ASSUME sent' # << >>, ~overrun', Promised(Last(sent)')
             PROVE  \/ Given(Last(sent).frame)'
                    \/ Parted(Last(sent).frame)' /\ Reads(Last(sent).frame)'
  BY DEF TrackInv
<1>1. sent \in Seq(Sendings) /\ Len(sent) \in Nat
      /\ (sent # << >> => Last(sent) \in Sendings)
  <2>1. sent \in Seq(Sendings)
    BY DEF IInv, LineInv, LineTypeOK
  <2>2. ASSUME sent # << >> PROVE Last(sent) \in Sendings
    <3>1. Len(sent) \in Nat /\ Len(sent) # 0
      BY <2>1, <2>2, EmptySeq, LenProperties
    <3>2. Len(sent) \in 1 .. Len(sent)
      BY <3>1, SMT
    <3> QED
      BY <2>1, <3>2, ElementOfSeq DEF Last
  <2> QED
    BY <2>1, <2>2, LenProperties
<1>2. \A f \in Frames : f \in Seq(Byte) /\ Whole(f)
  BY FramesAssumption
<1>3. CASE sent' = sent
  <2>1. sent # << >> /\ Last(sent) \in Sendings /\ Last(sent)' = Last(sent)
        /\ Promised(Last(sent))
    BY <1>1, <1>3 DEF Last, Promised, Accepted
  <2>2. PICK f \in Frames : f = Last(sent).frame /\ f[Len(f) - 2] # 0
    BY <2>1 DEF Sendings, Promised, Accepted
  <2>3. ~overrun
    BY DEF Next, ReadByte, Timeout, Send, Overrun, vars
  <2>4. Given(f) \/ (Parted(f) /\ Reads(f))
    BY <2>1, <2>2, <2>3 DEF TrackInv
  <2>5. Given(f)' \/ (Parted(f)' /\ Reads(f)')
    <3>1. CASE ReadByte
      <4>1. line # << >>
        BY <3>1 DEF ReadByte
      <4>2. Parted(f) /\ Reads(f)
        BY <2>4, <4>1 DEF Given
      <4> QED
        BY <1>2, <2>2, <3>1, <4>2, TrackRead
    <3>2. CASE Timeout
      <4>1. CASE line = << >>
        <5>1. Given(f)
          BY <2>4, <4>1 DEF Parted
        <5> QED
          BY <3>2, <5>1 DEF Timeout, Given
      <4>2. CASE line # << >>
        <5>1. sent' = [sent EXCEPT ![Len(sent)].damaged = TRUE]
          BY <3>2, <4>2 DEF Timeout
        <5>2. Len(sent) \in DOMAIN sent
          <6>1. Len(sent) # 0
            BY <1>1, <2>1, EmptySeq
          <6> QED
            BY <1>1, <6>1
        <5>3. sent'[Len(sent)].damaged = TRUE
          BY <1>1, <2>1, <5>1, <5>2 DEF Sendings, Last
        <5>4. Last(sent).damaged = TRUE
          BY <1>3, <5>3 DEF Last
        <5> QED
          BY <2>1, <5>4 DEF Promised
      <4> QED
        BY <4>1, <4>2
    <3>3. CASE Overrun
      BY <3>3 DEF Overrun
    <3>4. CASE Send
      <4>1. PICK r : sent' = Append(sent, r)
        BY <3>4 DEF Send
      <4>2. Len(sent') = Len(sent) + 1
        BY <1>1, <4>1, AppendProperties
      <4> QED
        BY <1>1, <1>3, <4>2, SMT
    <3>5. CASE UNCHANGED vars
      BY <2>4, <3>5 DEF vars, framer, Given, Parted, Reads
    <3> QED
      BY <3>1, <3>2, <3>3, <3>4, <3>5, <2>3 DEF Next
  <2> QED
    BY <2>1, <2>2, <2>5 DEF Last, Given, Parted, Reads
<1>4. CASE sent' # sent /\ Send
  <2>1. PICK f \in Frames, damaged \in BOOLEAN :
          /\ ~damaged => line' = f
          /\ sent' = Append(sent, [frame |-> f, damaged |-> damaged, fresh |-> response = << >>])
    BY <1>4 DEF Send
  <2>2. UNCHANGED <<framer, response>>
    BY <1>4 DEF Send
  <2> DEFINE r == [frame |-> f, damaged |-> damaged, fresh |-> response = << >>]
  <2>3. Len(sent') = Len(sent) + 1 /\ sent'[Len(sent) + 1] = r
    <3> HIDE DEF r
    <3>1. sent' = Append(sent, r)
      BY <2>1 DEF r
    <3> QED
      BY <1>1, <3>1, AppendAtEnd
  <2>4. Last(sent)' = r
    BY <2>3 DEF Last
  <2>5. ~damaged /\ response = << >> /\ Last(sent)'.frame = f
    BY <2>4 DEF Promised
  <2>6. Parted(f)' /\ Reads(f)'
    BY <1>2, <2>1, <2>2, <2>5, TrackSend
  <2> QED
    BY <2>5, <2>6 DEF Parted, Reads, Last
<1>5. CASE sent' # sent /\ Timeout
  <2>1. sent' = [sent EXCEPT ![Len(sent)].damaged = TRUE]
    BY <1>5 DEF Timeout
  <2>2. sent # << >>
    BY <2>1
  <2>3. Len(sent) \in DOMAIN sent /\ Last(sent) \in Sendings
    <3>1. Len(sent) # 0
      BY <1>1, <2>2, EmptySeq
    <3> QED
      BY <1>1, <2>2, <3>1
  <2>4. Len(sent') = Len(sent) /\ sent'[Len(sent)].damaged = TRUE
    BY <1>1, <2>1, <2>3 DEF Sendings, Last
  <2>5. Last(sent)'.damaged = TRUE
    BY <2>4 DEF Last
  <2> QED
    BY <2>5 DEF Promised
<1>6. sent' # sent => Send \/ Timeout
  BY DEF Next, ReadByte, Overrun, vars
<1> QED
  BY <1>3, <1>4, <1>5, <1>6

----------------------------------------------------------------------------
\* If the device sends whole frames, a receiver that is between two frames
\* returns the next one that arrives undamaged, whatever was lost and however
\* long the line was silent before (framer.cpp:15-86, device.cpp:307-325).
THEOREM WholeFramesReturned ==
  ASSUME \A f \in Frames : Whole(f)
  PROVE  Spec => []InStepAgain
<1>1. Init => TrackInv
  BY DEF Init, TrackInv
<1>2. IInv /\ TrackInv /\ [Next]_vars => TrackInv'
  BY TrackNext
<1>3. TrackInv => InStepAgain
  BY DEF TrackInv, InStepAgain, Promised, Given, Parted
<1> QED
  BY <1>1, <1>2, <1>3, FramerInvariance, PTL DEF Spec

----------------------------------------------------------------------------
\* A line that loses nothing

\* A frame whose last byte is zero is read up to that byte; its end is then
\* taken for the beginning of a frame that never comes.
Spoilt(f) ==
  \/ Parted(f) /\ Reads(f) /\ state \notin {"EOF_1", "EOF_2"}
  \/ line = << 64, 69 >> /\ response = << >>
  \/ line = << 69 >> /\ response = << 64 >>

\* Between two frames every answer has been given; within one, all but its own.
CleanInv ==
  Undamaged =>
    /\ ~overrun
    /\ line = << >> => response = << >> /\ returned = Answers
    /\ line # << >> /\ Accepted(Last(sent)) =>
         /\ Parted(Last(sent).frame) /\ Reads(Last(sent).frame)
         /\ Answers = Append(returned, Last(sent).frame)
    /\ line # << >> /\ ~Accepted(Last(sent)) =>
         returned = Answers /\ Spoilt(Last(sent).frame)

\* A frame that is sent adds itself to the answers, if it will be accepted.
LEMMA AnswersAppend ==
  ASSUME NEW list \in Seq(Sendings), NEW s \in Sendings
  PROVE  FramesOf(Selected(Append(list, s), AcceptedSendings))
           = IF Accepted(s) THEN Append(FramesOf(Selected(list, AcceptedSendings)), s.frame)
                            ELSE FramesOf(Selected(list, AcceptedSendings))
<1>1. Selected(Append(list, s), AcceptedSendings)
        = IF s \in AcceptedSendings THEN Append(Selected(list, AcceptedSendings), s)
                                    ELSE Selected(list, AcceptedSendings)
  BY SelectedAppend
<1>2. s \in AcceptedSendings <=> Accepted(s)
  BY DEF AcceptedSendings
<1>3. PICK t \in Seq(Sendings) : t = Selected(list, AcceptedSendings)
  <2>1. Selected(list, AcceptedSendings) \in Seq(Sendings \cap AcceptedSendings)
    BY SelectedType
  <2>2. Sendings \cap AcceptedSendings \subseteq Sendings
    OBVIOUS
  <2> QED
    BY <2>1, <2>2
<1>4. FramesOf(Append(t, s)) = Append(FramesOf(t), s.frame)
  BY DEF FramesOf
<1> QED
  BY <1>1, <1>2, <1>3, <1>4

\* Before its last bytes a frame does not come to its end.
LEMMA BeforeTheEnd ==
  ASSUME NEW b, state \in States \ {"FCS", "EOF_1", "EOF_2"}
  PROVE  NextState(b) \notin {"EOF_1", "EOF_2", "SUCCESS"}
  BY DEF States, NextState, Expect

\* Nor does such a frame index frame_payload past its end.
LEMMA FrameFits ==
  ASSUME IInv, NEW f \in Seq(Byte), Whole(f), Parted(f), Reads(f), state = "DATA"
  PROVE  index < BufferSize
<1>1. index < Len(f) - 8 /\ Len(f) - 8 <= BufferSize /\ Len(f) \in Nat
  BY WholeFrame DEF Reads
<1>2. index \in Nat /\ BufferSize \in Nat
  BY PlaceOf, BoundsAssumption
<1> QED
  BY <1>1, <1>2, SMT

\* The byte that is zero makes the Framer start anew.
LEMMA SpoiltHere ==
  ASSUME IInv, NEW f \in Seq(Byte), Whole(f), f[Len(f) - 2] = 0, Parted(f), Reads(f),
         state = "FCS", ReadByte
  PROVE  line' = << 64, 69 >> /\ response' = << >> /\ returned' = returned
<1>1. /\ Len(f) \in Nat /\ Len(f) > 8 /\ f[Len(f) - 1] = 64 /\ f[Len(f)] = 69
  BY WholeFrame
<1>2. index = Len(f) - 8 /\ Len(response) = 5 + index /\ index \in Nat /\ Len(response) \in Nat
  BY PlaceOf DEF Reads
<1>3. line \in Seq(Byte) /\ line # << >> /\ Len(line) \in Nat
  BY LenProperties DEF IInv, LineInv, LineTypeOK, Parted
<1>4. Len(response) + Len(line) = Len(f)
  BY DEF Parted
<1>5. Len(response) = Len(f) - 3 /\ Len(line) = 3
  <2>1. PICK m, n, k : m = Len(f) /\ n = Len(response) /\ k = Len(line)
    OBVIOUS
  <2>2. /\ m \in Nat /\ n \in Nat /\ k \in Nat /\ index \in Nat
        /\ index = m - 8 /\ n = 5 + index /\ n + k = m
    BY <1>1, <1>2, <1>3, <1>4, <2>1
  <2>3. n = m - 3 /\ k = 3
    BY ONLY <2>2, SMT
  <2> QED
    BY <2>1, <2>3
<1>6. line[1] = f[Len(f) - 2] /\ line[2] = f[Len(f) - 1] /\ line[3] = f[Len(f)]
  <2>1. \A i \in 1 .. 3 : line[i] = f[(Len(f) - 3) + i]
    BY <1>5 DEF Parted
  <2>2. /\ (Len(f) - 3) + 1 = Len(f) - 2 /\ (Len(f) - 3) + 2 = Len(f) - 1
        /\ (Len(f) - 3) + 3 = Len(f)
    BY <1>1, SMT
  <2> QED
    BY <2>1, <2>2
<1>7. Head(line) = 0 /\ line' = Tail(line) /\ Receive(Head(line))
  BY <1>3, <1>6 DEF ReadByte
<1>8. /\ line' \in Seq(Byte) /\ Len(line') = 2
      /\ \A i \in 1 .. 2 : line'[i] = line[i + 1]
  <2>1. /\ line' \in Seq(Byte) /\ Len(line') = Len(line) - 1
        /\ \A i \in 1 .. Len(line') : line'[i] = line[i + 1]
    BY <1>3, <1>7, HeadTailProperties
  <2>2. Len(line') = 2
    BY <1>5, <2>1
  <2> QED
    BY <2>1, <2>2
<1>9. line'[1] = 64 /\ line'[2] = 69
  BY <1>1, <1>6, <1>8
<1>10. line' = << 64, 69 >>
  BY <1>8, <1>9
<1>11. NextState(0) = "ERROR"
  BY DEF NextState
<1> QED
  BY <1>7, <1>10, <1>11 DEF Receive, AfterError

\* The two bytes behind it come to nothing.
LEMMA SpoiltEnds ==
  ASSUME IInv, ReadByte
  PROVE  /\ line = << 64, 69 >> /\ response = << >>
              => line' = << 69 >> /\ response' = << 64 >> /\ returned' = returned
         /\ line = << 69 >> /\ response = << 64 >>
              => line' = << >> /\ response' = << >> /\ returned' = returned
<1>1. /\ response = << >> => Len(response) = 0
      /\ response = << 64 >> => Len(response) = 1
  OBVIOUS
<1>2. /\ Len(response) = 0 => state = "BOF_1"
      /\ Len(response) = 1 => state = "BOF_2"
  <2>1. index \in Nat
    BY PlaceOf
  <2>2. \A n \in Nat : \A k \in {5, 6, 7} : k + n # 0 /\ k + n # 1
    BY SMT
  <2>3. 5 + index \notin {0, 1} /\ 6 + index \notin {0, 1} /\ 7 + index \notin {0, 1}
    BY <2>1, <2>2
  <2>4. CASE state = "BOF_1"
    BY <2>4, PlaceOf
  <2>5. CASE state = "BOF_2"
    BY <2>5, PlaceOf
  <2>6. CASE state \in States \ {"BOF_1", "BOF_2"}
    <3>1. Len(response) \notin {0, 1}
      <4>1. state \in {"INFO", "LENGTH_1", "LENGTH_2"} => Len(response) \in {2, 3, 4}
        BY PlaceOf
      <4>2. state \in {"DATA", "FCS", "EOF_1", "EOF_2"}
              => Len(response) \in {5 + index, 6 + index, 7 + index}
        <5>1. /\ state \in {"DATA", "FCS"} => Len(response) = 5 + index
              /\ state = "EOF_1" => Len(response) = 6 + index
              /\ state = "EOF_2" => Len(response) = 7 + index
          BY PlaceOf
        <5> QED
          BY ONLY <5>1
      <4>3. state \in {"INFO", "LENGTH_1", "LENGTH_2"}
              \/ state \in {"DATA", "FCS", "EOF_1", "EOF_2"}
        BY <2>6 DEF States
      <4>4. PICK n : n = Len(response)
        OBVIOUS
      <4>5. n \in {2, 3, 4} => n \notin {0, 1}
        BY SMT
      <4>6. n \in {5 + index, 6 + index, 7 + index} => n \notin {0, 1}
        BY <2>3
      <4> QED
        BY <4>1, <4>2, <4>3, <4>4, <4>5, <4>6
    <3> QED
      BY <3>1
  <2>7. state \in States
    BY PlaceOf
  <2> QED
    BY <2>4, <2>5, <2>6, <2>7
<1>3. Receive(Head(line)) /\ line' = Tail(line)
  BY DEF ReadByte
<1>4. ASSUME line = << 64, 69 >>, response = << >>
      PROVE  line' = << 69 >> /\ response' = << 64 >> /\ returned' = returned
  <2>1. Head(line) = 64 /\ Tail(line) = << 69 >> /\ state = "BOF_1"
    BY <1>1, <1>2, <1>4
  <2>2. NextState(64) = "BOF_2"
    BY <2>1 DEF NextState, Expect
  <2>3. Append(response, 64) = << 64 >>
    BY <1>4
  <2> QED
    BY <1>3, <2>1, <2>2, <2>3 DEF Receive
<1>5. ASSUME line = << 69 >>, response = << 64 >>
      PROVE  line' = << >> /\ response' = << >> /\ returned' = returned
  <2>1. Head(line) = 69 /\ Tail(line) = << >> /\ state = "BOF_2"
    BY <1>1, <1>2, <1>5
  <2>2. NextState(69) = "ERROR"
    BY <2>1 DEF NextState, Expect
  <2> QED
    BY <1>3, <2>1, <2>2 DEF Receive, AfterError
<1> QED
  BY <1>4, <1>5

\* A byte is read.
LEMMA CleanRead ==
  ASSUME \A f \in Frames : Whole(f), IInv, CleanInv, Undamaged, ReadByte
  PROVE  CleanInv'
<1>1. sent # << >> /\ Last(sent) \in Sendings /\ line # << >> /\ sent' = sent /\ overrun' = overrun
  <2>1. sent \in Seq(Sendings) /\ sent # << >> /\ line # << >> /\ sent' = sent
    BY DEF IInv, LineInv, LineTypeOK, ReadByte
  <2>2. Len(sent) \in 1 .. Len(sent)
    BY <2>1, EmptySeq, LenProperties, SMT
  <2> QED
    BY <2>1, <2>2, ElementOfSeq DEF Last, ReadByte
<1>2. PICK f \in Frames : f = Last(sent).frame
  BY <1>1 DEF Sendings
<1>3. f \in Seq(Byte) /\ Whole(f)
  BY FramesAssumption
<1>4. Answers' = Answers /\ Last(sent') = Last(sent) /\ ~overrun'
  BY <1>1 DEF Answers, CleanInv
<1>5. CASE Accepted(Last(sent))
  <2>1. Parted(f) /\ Reads(f) /\ f[Len(f) - 2] # 0 /\ Answers = Append(returned, f)
    BY <1>1, <1>2, <1>5 DEF CleanInv, Accepted
  <2>2. \/ Given(f)' /\ returned' = Append(returned, f) /\ response' = << >>
        \/ Parted(f)' /\ Reads(f)' /\ returned' = returned
    BY <1>3, <2>1, TrackRead
  <2>3. CASE Given(f)' /\ returned' = Append(returned, f) /\ response' = << >>
    BY <1>4, <2>1, <2>3 DEF CleanInv, Given
  <2>4. CASE Parted(f)' /\ Reads(f)' /\ returned' = returned
    <3>1. line' # << >>
      BY <2>4 DEF Parted
    <3>2. Accepted(Last(sent)') /\ Last(sent)'.frame = f
      BY <1>2, <1>4, <1>5 DEF Last
    <3> QED
      BY <1>4, <2>1, <2>4, <3>1, <3>2 DEF CleanInv, Parted, Reads
  <2> QED
    BY <2>2, <2>3, <2>4
<1>6. CASE ~Accepted(Last(sent))
  <2>1. returned = Answers /\ Spoilt(f) /\ f[Len(f) - 2] = 0
    BY <1>1, <1>2, <1>6 DEF CleanInv, Accepted
  <2>2. \/ line' = << >> /\ response' = << >> /\ returned' = returned
        \/ line' # << >> /\ returned' = returned /\ Spoilt(f)'
    <3>1. CASE Parted(f) /\ Reads(f) /\ state \in States \ {"FCS", "EOF_1", "EOF_2"}
      <4>1. Parted(f)' /\ Reads(f)' /\ returned' = returned /\ state' = NextState(Head(line))
        BY <1>3, <3>1, TrackRead
      <4>2. state' \notin {"EOF_1", "EOF_2"}
        BY <3>1, <4>1, BeforeTheEnd
      <4>3. line' # << >>
        BY <4>1 DEF Parted
      <4> QED
        BY <4>1, <4>2, <4>3 DEF Spoilt
    <3>2. CASE Parted(f) /\ Reads(f) /\ state = "FCS"
      <4>1. line' = << 64, 69 >> /\ response' = << >> /\ returned' = returned
        BY <1>3, <2>1, <3>2, SpoiltHere
      <4>2. << 64, 69 >> # << >>
        OBVIOUS
      <4> QED
        BY <4>1, <4>2 DEF Spoilt
    <3>3. CASE line = << 64, 69 >> /\ response = << >>
      <4>1. line' = << 69 >> /\ response' = << 64 >> /\ returned' = returned
        BY <3>3, SpoiltEnds
      <4>2. << 69 >> # << >>
        OBVIOUS
      <4> QED
        BY <4>1, <4>2 DEF Spoilt
    <3>4. CASE line = << 69 >> /\ response = << 64 >>
      BY <3>4, SpoiltEnds
    <3>5. state \in States
      BY PlaceOf
    <3> QED
      BY <2>1, <3>1, <3>2, <3>3, <3>4, <3>5 DEF Spoilt, States
  <2>3. ~Accepted(Last(sent)') /\ Last(sent)'.frame = f
    BY <1>2, <1>4, <1>6 DEF Last
  <2> QED
    BY <1>4, <2>1, <2>2, <2>3 DEF CleanInv, Spoilt, Parted, Reads
<1> QED
  BY <1>5, <1>6

\* A frame is sent to a receiver that is between two frames.
LEMMA CleanSend ==
  ASSUME \A f \in Frames : Whole(f), IInv, CleanInv, Undamaged', Send
  PROVE  CleanInv'
<1>1. sent \in Seq(Sendings) /\ Len(sent) \in Nat
  BY LenProperties DEF IInv, LineInv, LineTypeOK
<1>2. PICK f \in Frames, damaged \in BOOLEAN :
        /\ ~damaged => line' = f
        /\ sent' = Append(sent, [frame |-> f, damaged |-> damaged, fresh |-> response = << >>])
  BY DEF Send
<1>3. PICK s \in Sendings : s = [frame |-> f, damaged |-> damaged, fresh |-> response = << >>]
  <2>1. (response = << >>) \in BOOLEAN
    OBVIOUS
  <2>2. [frame |-> f, damaged |-> damaged, fresh |-> response = << >>] \in Sendings
    BY <2>1 DEF Sendings
  <2> QED
    BY <2>2
<1>4. /\ Len(sent') = Len(sent) + 1 /\ sent'[Len(sent) + 1] = s
      /\ \A i \in 1 .. Len(sent) : sent'[i] = sent[i]
  BY <1>1, <1>2, <1>3, AppendProperties
<1>5. DOMAIN sent = 1 .. Len(sent) /\ DOMAIN sent' = 1 .. Len(sent) + 1
  <2>1. sent' \in Seq(Sendings)
    BY <1>1, <1>2, <1>3, AppendProperties
  <2> QED
    BY <1>1, <1>4, <2>1, LenProperties
<1>6. Undamaged
  <2>1. \A i \in 1 .. Len(sent) : i \in 1 .. Len(sent) + 1
    BY <1>1, SMT
  <2> QED
    BY <1>4, <1>5, <2>1 DEF Undamaged
<1>7. ~damaged /\ line' = f
  <2>1. Len(sent) + 1 \in 1 .. Len(sent) + 1
    BY <1>1, SMT
  <2>2. ~s.damaged
    BY <1>4, <1>5, <2>1 DEF Undamaged
  <2> QED
    BY <1>2, <1>3, <2>2
<1>8. /\ line = << >> /\ response = << >> /\ returned = Answers /\ ~overrun
      /\ UNCHANGED <<framer, response, returned, overrun>>
  BY <1>6 DEF Send, CleanInv
<1>9. f \in Seq(Byte) /\ Whole(f) /\ f # << >>
  <2>1. f \in Seq(Byte) /\ Whole(f)
    BY FramesAssumption
  <2> QED
    BY <2>1, WholeFrame, EmptySeq, SMT
<1>10. Parted(f)' /\ Reads(f)' /\ state' \notin {"EOF_1", "EOF_2"}
  <2>1. Parted(f)' /\ Reads(f)'
    BY <1>7, <1>8, <1>9, TrackSend
  <2>2. Len(response) = 0
    BY <1>8
  <2>3. state \notin {"EOF_1", "EOF_2"}
    <3>1. index \in Nat /\ \A n \in Nat : 6 + n # 0 /\ 7 + n # 0
      BY PlaceOf, SMT
    <3> QED
      BY <2>2, <3>1, PlaceOf
  <2> QED
    BY <1>8, <2>1, <2>3 DEF framer
<1>11. Answers' = IF Accepted(s) THEN Append(Answers, f) ELSE Answers
  <2>1. s.frame = f
    BY <1>3
  <2>2. Answers' = FramesOf(Selected(Append(sent, s), AcceptedSendings))
    BY <1>2, <1>3 DEF Answers
  <2> QED
    BY <1>1, <2>1, <2>2, AnswersAppend DEF Answers
<1>12. Last(sent') = s /\ s.frame = f
  BY <1>3, <1>4 DEF Last
<1> QED
  BY <1>7, <1>8, <1>9, <1>10, <1>11, <1>12 DEF CleanInv, Spoilt, Parted, Reads

\* Every step keeps it: what damages a frame ends it.
LEMMA CleanNext ==
  ASSUME \A f \in Frames : Whole(f), IInv, CleanInv, [Next]_vars
  PROVE  CleanInv'
<1> SUFFICES ASSUME Undamaged' PROVE CleanInv'
  BY DEF CleanInv
<1>1. CASE ReadByte
  <2>1. Undamaged
    BY <1>1 DEF ReadByte, Undamaged
  <2> QED
    BY <1>1, <2>1, CleanRead
<1>2. CASE Send
  BY <1>2, CleanSend
<1>3. CASE Timeout
  <2>1. CASE line = << >>
    BY <1>3, <2>1 DEF Timeout, Silence, CleanInv, Undamaged, Answers
  <2>2. CASE line # << >>
    <3>1. sent \in Seq(Sendings) /\ sent # << >>
      BY <2>2 DEF IInv, LineInv, LineTypeOK
    <3>2. sent' = [sent EXCEPT ![Len(sent)].damaged = TRUE]
      BY <1>3, <2>2 DEF Timeout
    <3>3. Len(sent) \in DOMAIN sent /\ sent[Len(sent)] \in Sendings
      BY <3>1
    <3>4. Len(sent) \in DOMAIN sent' /\ sent'[Len(sent)].damaged = TRUE
      BY <3>2, <3>3 DEF Sendings
    <3> QED
      BY <3>4 DEF Undamaged
  <2> QED
    BY <2>1, <2>2
<1>4. CASE Overrun
  <2>1. /\ line # << >> /\ state = "DATA" /\ index >= BufferSize /\ Undamaged
        /\ IInv /\ index \in Nat /\ BufferSize \in Nat
    BY <1>4, PlaceOf, BoundsAssumption DEF Overrun, Undamaged
  <2>2. sent # << >> /\ Last(sent) \in Sendings
    <3>1. sent \in Seq(Sendings) /\ sent # << >>
      BY <2>1 DEF IInv, LineInv, LineTypeOK
    <3>2. Len(sent) \in 1 .. Len(sent)
      BY <3>1, EmptySeq, LenProperties, SMT
    <3> QED
      BY <3>1, <3>2, ElementOfSeq DEF Last
  <2>3. PICK f \in Frames : f = Last(sent).frame
    BY <2>2 DEF Sendings
  <2>4. f \in Seq(Byte) /\ Whole(f)
    BY FramesAssumption
  <2>5. Len(response) # 0 /\ Len(response) # 1
    <3>1. Len(response) = 5 + index
      BY <2>1, PlaceOf
    <3> QED
      BY <2>1, <3>1, SMT
  <2>6. response # << >> /\ response # << 64 >>
    BY <2>5
  <2>7. Parted(f) /\ Reads(f)
    BY <2>1, <2>3, <2>6 DEF CleanInv, Spoilt
  <2>8. index < BufferSize
    BY <2>1, <2>4, <2>7, FrameFits
  <2> QED
    BY <2>1, <2>8, SMT
<1>5. CASE UNCHANGED vars
  BY <1>5 DEF vars, framer, CleanInv, Undamaged, Answers, Spoilt, Parted, Reads
<1> QED
  BY <1>1, <1>2, <1>3, <1>4, <1>5 DEF Next

\* If the device sends whole frames and the line loses nothing, receive_response
\* returns every frame whose last byte is not zero, once and in order, whatever
\* the others are and however long the pauses, and frame_payload is never
\* indexed past its end (framer.cpp:15-86, device.cpp:307-325).
THEOREM CleanLineLosesNothing ==
  ASSUME \A f \in Frames : Whole(f)
  PROVE  Spec => []NothingLost
<1>1. Init => CleanInv
  <2> SUFFICES ASSUME Init PROVE CleanInv
    OBVIOUS
  <2>1. Selected(<< >>, AcceptedSendings) = << >> /\ FramesOf(<< >>) = << >>
    BY SelectedEmpty DEF FramesOf
  <2> QED
    BY <2>1 DEF Init, CleanInv, Answers
<1>2. IInv /\ CleanInv /\ [Next]_vars => CleanInv'
  BY CleanNext
<1>3. CleanInv => NothingLost
  BY DEF CleanInv, NothingLost
<1> QED
  BY <1>1, <1>2, <1>3, FramerInvariance, PTL DEF Spec
=============================================================================
