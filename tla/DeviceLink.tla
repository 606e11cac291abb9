----------------------------- MODULE DeviceLink -----------------------------
(***************************************************************************)
(* One device from the opening of its port to the end of its stream: the   *)
(* commands of Device (src/device.cpp), the frames on the serial line and  *)
(* the firmware of the board.  receive_response reconnects when the port   *)
(* hangs up, and reconnect calls init and start, which call                *)
(* receive_response again: stack holds the calls that wait for a response, *)
(* the innermost last.                                                     *)
(***************************************************************************)
EXTENDS Integers, Sequences

CONSTANTS
  Offered,      \* what the radio tables say to the board's firmware and the mode of
                \* the device: "right", or "unknown" if they do not go together
  MaxHangups,   \* bound: how often the port hangs up
  MaxFaults,    \* bound: lost messages, refused commands, error frames
  MaxLine       \* bound: packets the board holds back; commands it buffers

ASSUME OfferedAssumption == Offered \in {"right", "unknown"}
ASSUME BoundsAssumption ==
  MaxHangups \in Nat /\ MaxFaults \in Nat /\ MaxLine \in Nat \ {0}

VARIABLES
  pc,            \* where the device's thread is
  stack,         \* the calls that wait for a response, each with what the number of
                 \* the firmware, which init keeps, finds in the radio tables
  state,         \* Device::state
  isReady,       \* Device::is_ready
  interruption,  \* the process-wide flag
  port,          \* the descriptor: "closed", "open", or "hung" up
  down,          \* commands on their way to the board
  up,            \* frames on their way to the host
  running,       \* the firmware streams
  radio,         \* what the firmware is set to: "right", the mode and the channel of
                 \* the device; "mode", its mode alone; or "wrong"
  strayed,       \* history: add_packet got a packet of a board that is not set right,
                 \* although the commands of init had been answered, and in time,
                 \* or an answer, although the link was calm
  crossed,       \* history: "init" if a command of init took a frame that does
                 \* not answer it, else "other" if start or the last stop did
  unanswered,    \* history: no frame came for freq, and configure went on with the
                 \* answer to phy; of no interest once crossed is "init"
  calm,          \* history: the board was silent when the program started, the
                 \* port never hung up and no response was late
  hangups, faults,
  late           \* history: a response came after its ten seconds

program ==
  <<pc, stack, state, isReady, interruption, strayed, crossed, unanswered>>
board == <<running, radio>>
line == <<port, down, up>>
history == <<calm, hangups, faults, late>>
vars == <<program, board, line, history>>

----------------------------------------------------------------------------
\* The calls

\* "final" is the stop after the stream.  init is stop, ping, phy, freq.
Calls == {"stop", "ping", "phy", "freq", "start", "stream", "final"}
Commands == {"stop", "ping", "phy", "freq", "start"}

\* Variant of reconnect and init that does not configure the board.
FollowingUnconfigured ==
  [stop |-> "ping", ping |-> "start", phy |-> "freq", freq |-> "start",
   start |-> "stream", stream |-> "final"]
Following ==
  [stop |-> "ping", ping |-> "phy", phy |-> "freq", freq |-> "start",
   start |-> "stream", stream |-> "final"]

Depth == Len(stack)
Top == stack[Depth].call
FwID == stack[Depth].fwID
Nested == Depth > 1
Return == SubSeq(stack, 1, Depth - 1)

\* The calls of init as one.
Phase(call) == IF call \in {"stop", "ping", "phy", "freq"} THEN "init" ELSE call

CommandOf(call) == IF call = "final" THEN "stop" ELSE call

\* The call at the top is followed by the next, and init forgets the number of the
\* firmware at its end.
Advance(fwID) ==
  /\ stack' = [stack EXCEPT ![Depth] = [call |-> Following[Top], fwID |-> fwID]]
  /\ pc' = IF Following[Top] = "stream" THEN "receive" ELSE "send"
Proceed == Advance(IF Top = "freq" THEN "unknown" ELSE FwID)

\* The call at the top has failed.  In reconnect it ends an attempt; init makes
\* the device unready; the results of start and of the last stop are ignored.
\* interrupted is the flag when receive_response returns.  The variant of Popped
\* leaves the failed call behind.
PoppedNever == stack
Popped == Return

\* stop returns before it sets the state.  Variant: it sets it whatever comes back.
FailStateStopped == IF Top = "final" THEN "STOPPED" ELSE state
FailState == state

Fail(interrupted) ==
  /\ \/ /\ Nested
        /\ stack' = Popped /\ pc' = "pause" /\ UNCHANGED isReady
     \/ /\ ~Nested /\ Phase(Top) = "init"
        /\ isReady' = FALSE /\ pc' = "done" /\ UNCHANGED stack
     \/ /\ ~Nested /\ Top = "start"
        /\ Proceed /\ UNCHANGED isReady
     \/ /\ ~Nested /\ Top = "stream"
        /\ IF interrupted THEN Proceed ELSE pc' = "receive" /\ UNCHANGED stack
        /\ UNCHANGED isReady
     \/ /\ ~Nested /\ Top = "final"
        /\ pc' = "done" /\ UNCHANGED <<stack, isReady>>
  /\ state' = FailState
  /\ UNCHANGED <<strayed, crossed, unanswered>>

\* receive_response gives up without a frame and leaves the vector of its caller
\* alone.  For freq that is the vector with the answer to phy, which configure
\* verifies once more: init goes on and may return true.
Unanswered(interrupted) ==
  \/ Top # "freq" /\ Fail(interrupted)
  \/ /\ Top = "freq" /\ Proceed
     /\ isReady' = (isReady \/ ~Nested)
     /\ unanswered' = (crossed # "init")
     /\ UNCHANGED <<state, strayed, crossed>>

----------------------------------------------------------------------------
\* Opening the port

\* tcflush drops what has reached the host; what is on its way still comes.
Purge ==
  /\ \E n \in 0 .. Len(up) : up' = SubSeq(up, n + 1, Len(up))
  /\ \E n \in 0 .. Len(down) : down' = SubSeq(down, 1, n)

\* Device::connect.  The board may not be there, or the port fail to open.
Connect ==
  /\ pc = "connect"
  /\ \/ /\ port' = "open" /\ isReady' = TRUE
        /\ pc' = "send" /\ Purge
     \/ /\ isReady' = FALSE /\ pc' = "done"
        /\ UNCHANGED line
  /\ UNCHANGED <<stack, state, interruption, strayed, crossed, unanswered, board, history>>

\* A round of the loop of reconnect, after closePort; init starts with a purge.
Attempt ==
  /\ pc = "lost"
  /\ \/ /\ port' = "open" /\ isReady' = TRUE
        /\ stack' = Append(stack, [call |-> "stop", fwID |-> "unknown"])
        /\ pc' = "send" /\ Purge
     \/ /\ port' = "closed" /\ isReady' = FALSE
        /\ up' = << >> /\ down' = << >>
        /\ pc' = "pause" /\ UNCHANGED stack
  /\ UNCHANGED <<state, interruption, strayed, crossed, unanswered, board, history>>

\* Ten seconds later: reconnect gives up if there was an interruption.  The
\* variant never looks.
GivesUpNever == FALSE
GivesUp == interruption

Pause ==
  /\ pc = "pause"
  /\ IF GivesUp
     THEN Unanswered(interruption)
     ELSE /\ pc' = "lost"
          /\ UNCHANGED <<stack, state, isReady, strayed, crossed, unanswered>>
  /\ UNCHANGED <<interruption, board, line, history>>

----------------------------------------------------------------------------
\* Commands and responses

Stale(messages) == [i \in DOMAIN messages |-> [messages[i] EXCEPT !.fresh = FALSE]]

\* assemble_set_phy and assemble_set_freq give an empty command when the table of
\* the firmware lacks the mode; it is written, and a response awaited, all the same.
Assembled == Top \in {"phy", "freq"} => FwID # "unknown"

Written ==
  IF port = "open" /\ Assembled /\ Len(down) < MaxLine
  THEN Append(Stale(down), [command |-> CommandOf(Top), mode |-> FwID, fresh |-> TRUE])
  ELSE Stale(down)

\* Variant that forgets to wait for the response to the radio mode.
AwaitUnlessPhy == IF Top = "phy" THEN Proceed ELSE pc' = "receive" /\ UNCHANGED stack
Await == pc' = "receive" /\ UNCHANGED stack

\* The result of writeData is ignored.
Send ==
  /\ pc = "send"
  /\ down' = Written /\ up' = Stale(up)
  /\ Await
  /\ UNCHANGED <<state, isReady, interruption, strayed, crossed, unanswered, port>>
  /\ UNCHANGED <<board, history>>

\* verify_response: a stream frame is a good response to anything.
Verified(frame) == frame.kind \in {"ok", "data"}

\* The firmware's number that disassemble_ping finds: in the answer to a ping, or
\* any byte in a packet.  The answers to other commands are too short.
Found(frame) ==
  IF frame.kind = "data" THEN {"right", "wrong", "unknown"} ELSE {frame.mode}
TooShort(frame) == frame.kind = "ok" /\ frame.to # "ping"

StateAfter ==
  CASE Top \in {"stop", "final"} -> "STOPPED"
    [] Top = "start" -> "STARTED"
    [] OTHER -> state

\* A verified response to the command at the top.  configure checks the state,
\* which a reconnection may have changed since stop.
Succeed(frame) ==
  /\ crossed' = IF frame.fresh \/ crossed = "init" THEN crossed
                ELSE IF Phase(Top) = "init" THEN "init" ELSE "other"
  /\ \/ /\ Top \in {"stop", "phy", "freq"}
        /\ Proceed
        /\ state' = StateAfter /\ UNCHANGED isReady
     \/ /\ Top = "ping" /\ TooShort(frame)
        /\ pc' = "crashed"
        /\ UNCHANGED <<stack, state, isReady>>
     \/ /\ Top = "ping" /\ ~TooShort(frame)
        /\ \/ /\ state = "STOPPED"
              /\ \E fwID \in Found(frame) : Advance(fwID)
              /\ UNCHANGED isReady
           \/ /\ state # "STOPPED"
              /\ IF Nested
                 THEN stack' = Popped /\ pc' = "pause" /\ UNCHANGED isReady
                 ELSE pc' = "done" /\ isReady' = FALSE /\ UNCHANGED stack
        /\ UNCHANGED state
     \/ /\ Top = "start"
        /\ IF Nested THEN stack' = Return /\ pc' = "receive" ELSE Proceed
        /\ state' = StateAfter /\ UNCHANGED isReady
     \/ /\ Top = "final"
        /\ pc' = "done" /\ state' = StateAfter
        /\ UNCHANGED <<stack, isReady>>
  /\ unanswered' = (unanswered /\ crossed' # "init")
  /\ UNCHANGED strayed

\* A frame in the stream.  One that is not verified does not end the stream even
\* after an interruption; after a packet its duration may be over.
Capture(frame) ==
  /\ IF Verified(frame)
     THEN /\ strayed' = (strayed \/ (/\ frame.kind = "data" /\ frame.mode # "right"
                                     /\ crossed # "init" /\ ~unanswered /\ ~late)
                                 \/ (frame.kind = "ok" /\ calm))
          /\ \/ Proceed
             \/ ~interruption /\ UNCHANGED <<stack, pc>>
     ELSE UNCHANGED <<strayed, stack, pc>>
  /\ UNCHANGED <<state, isReady, crossed, unanswered>>

\* readByte: the end of a port that has hung up is an error, a closed descriptor
\* looks like silence.
ByteRead ==
  CASE port = "hung" -> "error"
    [] port = "open" /\ up # << >> -> "byte"
    [] OTHER -> "none"

Receive ==
  /\ pc = "receive" /\ ByteRead = "byte"
  /\ up' = Tail(up)
  /\ IF Top = "stream" THEN Capture(Head(up))
     ELSE IF Verified(Head(up)) THEN Succeed(Head(up))
     ELSE Fail(interruption)
  /\ UNCHANGED <<interruption, port, down, board, history>>

\* Ten seconds without a byte, because there is nothing to come or because the
\* board is late; as a bound, a board that was late has no other faults any more.
Timeout ==
  /\ pc = "receive" /\ ByteRead = "none"
  /\ Unanswered(interruption)
  /\ \/ down = << >> /\ UNCHANGED <<faults, calm, late>>
     \/ down # << >> /\ late' = TRUE /\ calm' = FALSE /\ faults' = MaxFaults
  /\ UNCHANGED <<interruption, board, line, hangups>>

\* If the port can be closed reconnect starts; if not, every stream of the process
\* is to end.
HangUp ==
  /\ pc = "receive" /\ ByteRead = "error"
  /\ port' = "closed"
  /\ \/ /\ pc' = "lost"
        /\ UNCHANGED <<stack, state, isReady, interruption, strayed, crossed, unanswered>>
     \/ interruption' = TRUE /\ Unanswered(TRUE)
  /\ UNCHANGED <<board, down, up, history>>

Thread == Connect \/ Attempt \/ Pause \/ Send \/ Receive \/ Timeout \/ HangUp

\* signal_handler, once streams have been started; before that another device of
\* the process whose port cannot be closed.
Interrupt ==
  /\ pc \notin {"connect", "done"}
  /\ interruption' = TRUE
  /\ UNCHANGED <<pc, stack, state, isReady, strayed, crossed, unanswered>>
  /\ UNCHANGED <<board, line, history>>

----------------------------------------------------------------------------
\* The board and the cable

Answer(kind, command, fresh) ==
  [kind |-> kind, to |-> command, mode |-> Offered, fresh |-> fresh]
Frame(kind) ==
  [kind |-> kind, to |-> "none", fresh |-> FALSE,
   mode |-> IF radio = "right" THEN "right" ELSE "wrong"]

Fault == faults < MaxFaults /\ faults' = faults + 1

\* What a command makes of the radio: a mode is of use with its channel only.
Tuned(m) ==
  CASE m.command = "phy" -> IF m.mode = "right" THEN "mode" ELSE "wrong"
    [] m.command = "freq" ->
         IF m.mode = "right" /\ radio # "wrong" THEN "right" ELSE "wrong"
    [] OTHER -> radio

\* The firmware does what it is told, or refuses.
Obey ==
  LET m == Head(down)
  IN  /\ down # << >>
      /\ down' = Tail(down)
      /\ \/ /\ running' = (m.command = "start" \/ (running /\ m.command # "stop"))
            /\ radio' = Tuned(m)
            /\ up' = Append(up, Answer("ok", m.command, m.fresh))
            /\ UNCHANGED faults
         \/ /\ Fault
            /\ up' = Append(up, Answer("refused", m.command, m.fresh))
            /\ UNCHANGED <<running, radio>>
      /\ UNCHANGED <<program, port, calm, hangups, late>>

\* A packet in the air, or an error frame.
Stream ==
  /\ running /\ port = "open" /\ Len(up) < MaxLine
  /\ \/ up' = Append(up, Frame("data")) /\ UNCHANGED faults
     \/ up' = Append(up, Frame("error")) /\ Fault
  /\ UNCHANGED <<program, board, port, down, calm, hangups, late>>

Lose ==
  /\ Fault
  /\ \/ up # << >> /\ up' = Tail(up) /\ UNCHANGED down
     \/ down # << >> /\ down' = Tail(down) /\ UNCHANGED up
  /\ UNCHANGED <<program, board, port, calm, hangups, late>>

\* The cable is pulled: a board on its own supply goes on, another starts anew.
\* When it is put back shows in Attempt only.
Unplug ==
  /\ port = "open" /\ hangups < MaxHangups
  /\ hangups' = hangups + 1 /\ calm' = FALSE
  /\ port' = "hung" /\ up' = << >> /\ down' = << >>
  /\ \/ running' = FALSE /\ radio' = "wrong"
     \/ UNCHANGED <<running, radio>>
  /\ UNCHANGED <<program, faults, late>>

Environment == Interrupt \/ Obey \/ Stream \/ Lose \/ Unplug

Finished == pc \in {"done", "crashed"} /\ UNCHANGED vars

\* An earlier session may have left the board streaming in another mode.
Init ==
  /\ pc = "connect" /\ stack = <<[call |-> "stop", fwID |-> "unknown"]>>
  /\ state = "WAITING" /\ isReady = FALSE /\ interruption = FALSE
  /\ strayed = FALSE /\ crossed = "none" /\ unanswered = FALSE
  /\ port = "closed" /\ down = << >> /\ up = << >>
  /\ running \in BOOLEAN /\ radio = "wrong"
  /\ calm = ~running
  /\ hangups = 0 /\ faults = 0 /\ late = FALSE

Next == Thread \/ Environment \/ Finished

Spec == Init /\ [][Next]_vars

\* The thread is scheduled, and no call of it blocks for ever.
FairSpec == Spec /\ WF_vars(Thread)

----------------------------------------------------------------------------
\* Properties

Modes == {"right", "wrong", "unknown"}
Waiting == [call : Calls, fwID : Modes]
Messages == [command : Commands, mode : Modes, fresh : BOOLEAN]
FrameKinds == {"ok", "refused", "data", "error"}
FrameSet ==
  [kind : FrameKinds, to : Commands \cup {"none"}, mode : Modes, fresh : BOOLEAN]

ProgramTypeOK ==
  /\ pc \in {"connect", "send", "receive", "lost", "pause", "done", "crashed"}
  /\ stack \in Seq(Waiting) /\ Len(stack) >= 1 /\ Len(stack) <= 1 + hangups
  /\ state \in {"WAITING", "STOPPED", "STARTED"}
  /\ isReady \in BOOLEAN /\ interruption \in BOOLEAN
  /\ strayed \in BOOLEAN /\ unanswered \in BOOLEAN
  /\ crossed \in {"none", "other", "init"}

BoardTypeOK ==
  /\ running \in BOOLEAN /\ calm \in BOOLEAN
  /\ radio \in {"wrong", "mode", "right"}
  /\ port \in {"closed", "open", "hung"}
  /\ down \in Seq(Messages) /\ Len(down) <= MaxLine
  /\ up \in Seq(FrameSet)
  /\ hangups \in 0 .. MaxHangups /\ faults \in 0 .. MaxFaults /\ late \in BOOLEAN

\* Every variable keeps its type, and receive_response is nested no deeper than
\* the port has hung up, although every attempt to reconnect calls it anew
\* (device.cpp:303).
TypeOK == ProgramTypeOK /\ BoardTypeOK

\* On a board that was silent when the program came, a line that never hangs up
\* and a firmware that answers in time, no command of init takes a frame that is
\* not the answer to it, although nothing in verify_response tells answers apart
\* (command_assembler.cpp:425) and messages are lost or refused.  start and the
\* last stop may take a packet.  And configure passes off the answer to phy as the
\* one to freq (device.cpp:175) only if a message was lost.
InStep == calm => crossed # "init" /\ (unanswered => faults > 0)

\* A captured packet was sent by a board set to the mode and the channel of the
\* device, also after reconnections to a board that has lost its settings and with
\* packets of an earlier session on the line, as long as every command of init was
\* answered by a frame of its own: not if freq was not (device.cpp:174), nor if a
\* response was late.  And on a calm link no answer to a command is handed on as a
\* packet, for which it is too short (command_assembler.cpp:520); one that comes
\* later than ten seconds is.
CapturesInMode == ~strayed

\* A thread that ends with state STOPPED and an open port leaves a board that does
\* not stream, if every command got its own answer and none was lost: a reconnection
\* in the last stop does not make up the state (device.cpp:106).
EndsStopped ==
  pc = "done" /\ state = "STOPPED" /\ port = "open"
    /\ crossed = "none" /\ faults = 0 /\ ~late => ~running

\* An interrupted thread ends, in whatever depth of reconnections it is
\* (device.cpp:364).
InterruptedEnds == interruption ~> pc \in {"done", "crashed"}
=============================================================================
