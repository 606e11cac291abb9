-------------------------- MODULE DeviceLinkProofs --------------------------
(***************************************************************************)
(* Proofs, for every number of hang-ups and faults, every capacity of the  *)
(* line and whatever the radio tables say, that DeviceLink nests calls no  *)
(* deeper than the port has hung up, that its answers stay in step on a    *)
(* calm link, that captured packets are in the mode of the device unless   *)
(* freq was not answered, and that a device that ends STOPPED leaves a     *)
(* silent board.                                                           *)
(***************************************************************************)
EXTENDS DeviceLink, SequenceTheorems, TLAPS

\* The messages that belong to the command sent last.
Fresh(messages) == { i \in DOMAIN messages : messages[i].fresh }

\* Calls wait on top of each other only after a hang-up each; above the first
\* there are the commands of reconnect alone.
DepthInv ==
  /\ port = "hung" \/ pc \in {"lost", "pause"} => Depth <= hangups
  /\ \A i \in 2 .. Depth : stack[i].call \in Commands
  /\ pc = "connect" => Depth = 1 /\ Top = "stop" /\ port = "closed"
  /\ pc = "send" => Top # "stream"

\* Nothing is on a line that is not open.
LineInv == port # "open" => up = << >> /\ down = << >>

\* No command of init took a wrong frame, every answer came in time, and configure
\* made up none for freq, or did so on a calm link, where that does no more harm.
Sound == crossed # "init" /\ ~late /\ (unanswered => calm)

\* Nor was anything lost, and every frame was the answer to its command.
Faultless == crossed = "none" /\ faults = 0 /\ ~late

\* A command other than stop is on its way only while the call that sent it waits.
CommandInv ==
  Sound \/ Faultless =>
    \A i \in DOMAIN down : down[i].command # "stop" => pc = "receive" /\ Top = down[i].command

\* While a command is out, what is fresh answers it: the command is the last on
\* its way, or its answer is on the way back alone.  When a board has answered
\* a stop it is silent, and nothing follows the answer.
InTurn == crossed = "none" \/ Sound
AnswerInv ==
  InTurn /\ pc = "receive" /\ Top # "stream" =>
    /\ \A i \in Fresh(down) : i = Len(down) /\ down[i].command = CommandOf(Top)
    /\ \A i \in Fresh(up) :
         /\ down = << >> /\ up[i].to = CommandOf(Top)
         /\ up[i].kind # "data" /\ up[i].mode = Offered
         /\ \A j \in Fresh(up) : j = i
         /\ CommandOf(Top) = "stop" /\ up[i].kind = "ok" => i = Len(up) /\ ~running

\* Behind an answered stop the line is empty and the board silent until start
\* has been obeyed; or a reconnection has returned to the call, and there is no
\* answer to come.
Configuring == Top \in {"ping", "phy", "freq", "start"}
ConfiguringInv ==
  Sound /\ Configuring =>
    /\ pc = "send" => down = << >> /\ up = << >> /\ ~running
    /\ pc = "receive" =>
         /\ down # << >> => Len(down) = 1 /\ up = << >> /\ ~running /\ 1 \in Fresh(down)
         /\ \A i \in DOMAIN up : up[i].kind \in {"ok", "refused"} => i \in Fresh(up)
         /\ \A i \in Fresh(up) : i = 1 /\ (Top # "start" => Len(up) = 1 /\ ~running)

\* When init was answered, the tables are asked with the right firmware, the board
\* is told the right mode and channel, and it is set to them when it is started and
\* as long as it streams.
ModeInv ==
  Sound /\ ~unanswered =>
    /\ \A i \in DOMAIN stack : stack[i].call \in {"phy", "freq"} => stack[i].fwID = Offered
    /\ \A i \in DOMAIN down :
         /\ down[i].command \in {"phy", "freq"} => down[i].mode = "right"
         /\ down[i].command = "start" => radio = "right"
    /\ pc \in {"send", "receive"} /\ port = "open" =>
         (Top = "freq" => radio # "wrong") /\ (Top = "start" => radio = "right")
    /\ pc = "receive" =>
         \A i \in Fresh(up) : up[i].kind = "ok" =>
           (Top = "phy" => radio # "wrong") /\ (Top = "freq" => radio = "right")
    /\ stack[1].call \in {"start", "stream"} =>
         /\ running => radio = "right"
         /\ \A i \in DOMAIN up : up[i].kind = "data" => up[i].mode = "right"

\* On a calm link nothing but answers to the command that is out comes before the
\* stream, and no answer in it; a command of init that was written is answered, or
\* something was lost.
CalmInv ==
  calm =>
    /\ crossed # "init" /\ ~late /\ Depth = 1 /\ port # "hung" /\ pc \notin {"lost", "pause"}
    /\ pc = "connect" => up = << >> /\ down = << >>
    /\ pc \in {"send", "receive"} => port = "open"
    /\ unanswered => Phase(Top) # "init" /\ faults > 0
    /\ pc \in {"connect", "send", "receive"} /\ Phase(Top) = "init" =>
         /\ ~running
         /\ pc = "send" => up = << >> /\ down = << >>
         /\ pc = "receive" => Fresh(up) = DOMAIN up /\ Fresh(down) = DOMAIN down
         /\ pc = "receive" /\ Assembled /\ faults = 0 => up # << >> \/ down # << >>
         /\ pc = "receive" /\ ~Assembled => up = << >> /\ down = << >>
    /\ pc \in {"send", "receive"} /\ Top = "freq" => Assembled
    /\ Top = "stream" => down = << >> /\ \A i \in DOMAIN up : up[i].kind # "ok"

\* Without a fault, a board that streams at an open port although the state is
\* STOPPED has obeyed start, which a frame is about to end, or is about to be stopped.
StopInv ==
  /\ faults = 0 => \A i \in DOMAIN up : up[i].kind \in {"ok", "data"}
  /\ Faultless =>
       /\ pc \in {"lost", "pause"} => down = << >>
       /\ state = "STOPPED" /\ running /\ port = "open" =>
            \/ pc = "receive" /\ Top = "start" /\ up # << >>
            \/ pc = "send" /\ Top = "stop" /\ down = << >>
            \/ /\ pc = "receive" /\ Top = "stop" /\ down # << >>
               /\ \A i \in DOMAIN down : down[i].command = "stop"

IInv ==
  /\ TypeOK /\ DepthInv /\ LineInv /\ CommandInv /\ AnswerInv /\ ConfiguringInv /\ ModeInv
  /\ CalmInv /\ StopInv /\ CapturesInMode

----------------------------------------------------------------------------
\* Sequences

\* tcflush leaves a suffix of what came and a prefix of what is to go.
LEMMA PurgeFacts ==
  ASSUME TypeOK, Purge
  PROVE  /\ up' \in Seq(FrameSet) /\ down' \in Seq(Messages)
         /\ Len(down') <= Len(down)
         /\ \A i \in DOMAIN up' : \E j \in DOMAIN up : up'[i] = up[j]
         /\ \A i \in DOMAIN down' : i \in DOMAIN down /\ down'[i] = down[i]
         /\ up = << >> => up' = << >>
         /\ down = << >> => down' = << >>
<1>1. up \in Seq(FrameSet) /\ down \in Seq(Messages)
  BY DEF TypeOK, BoardTypeOK
<1>2. PICK n \in 0 .. Len(up) : up' = SubSeq(up, n + 1, Len(up))
  BY DEF Purge
<1>3. PICK m \in 0 .. Len(down) : down' = SubSeq(down, 1, m)
  BY DEF Purge
<1>4. /\ up' \in Seq(FrameSet)
      /\ \A i \in DOMAIN up' : i + n \in DOMAIN up /\ up'[i] = up[i + n]
      /\ up = << >> => up' = << >>
  BY <1>1, <1>2
<1>5. /\ down' \in Seq(Messages) /\ Len(down') <= Len(down)
      /\ \A i \in DOMAIN down' : i \in DOMAIN down /\ down'[i] = down[i]
      /\ down = << >> => down' = << >>
  BY <1>1, <1>3
<1>. QED  BY <1>4, <1>5

\* Marking messages as stale changes nothing else.
LEMMA StaleFacts ==
  ASSUME TypeOK
  PROVE  /\ Stale(up) \in Seq(FrameSet) /\ Stale(down) \in Seq(Messages)
         /\ Len(Stale(up)) = Len(up) /\ Len(Stale(down)) = Len(down)
         /\ \A i \in DOMAIN up :
              /\ Stale(up)[i].kind = up[i].kind /\ Stale(up)[i].mode = up[i].mode
              /\ ~Stale(up)[i].fresh
         /\ \A i \in DOMAIN down :
              /\ Stale(down)[i].command = down[i].command /\ Stale(down)[i].mode = down[i].mode
              /\ ~Stale(down)[i].fresh
         /\ up = << >> => Stale(up) = << >>
         /\ down = << >> => Stale(down) = << >>
<1>1. up \in Seq(FrameSet) /\ down \in Seq(Messages)
  BY DEF TypeOK, BoardTypeOK
<1>2. /\ \A i \in 1 .. Len(up) : up[i] \in FrameSet
      /\ \A i \in 1 .. Len(down) : down[i] \in Messages
  BY <1>1
<1>3. /\ Stale(up) = [i \in 1 .. Len(up) |-> [up[i] EXCEPT !.fresh = FALSE]]
      /\ Stale(down) = [i \in 1 .. Len(down) |-> [down[i] EXCEPT !.fresh = FALSE]]
  BY <1>1 DEF Stale
<1>4. /\ \A i \in 1 .. Len(up) : [up[i] EXCEPT !.fresh = FALSE] \in FrameSet
      /\ \A i \in 1 .. Len(down) : [down[i] EXCEPT !.fresh = FALSE] \in Messages
  BY <1>2 DEF FrameSet, Messages
<1>5. /\ \A i \in 1 .. Len(up) : /\ [up[i] EXCEPT !.fresh = FALSE].kind = up[i].kind
                                 /\ [up[i] EXCEPT !.fresh = FALSE].mode = up[i].mode
                                 /\ ~[up[i] EXCEPT !.fresh = FALSE].fresh
      /\ \A i \in 1 .. Len(down) : /\ [down[i] EXCEPT !.fresh = FALSE].command = down[i].command
                                   /\ [down[i] EXCEPT !.fresh = FALSE].mode = down[i].mode
                                   /\ ~[down[i] EXCEPT !.fresh = FALSE].fresh
  BY <1>2 DEF FrameSet, Messages
<1>6. Stale(up) \in Seq(FrameSet) /\ Stale(down) \in Seq(Messages)
  BY <1>1, <1>3, <1>4
<1>7. Len(Stale(up)) = Len(up) /\ Len(Stale(down)) = Len(down)
  BY <1>1, <1>3
<1>. QED  BY <1>1, <1>3, <1>5, <1>6, <1>7

\* What is on its way to the board are commands.
LEMMA CommandFacts ==
  ASSUME TypeOK
  PROVE  \A i \in DOMAIN down : down[i].command \in Commands
<1>1. \A i \in DOMAIN down : down[i] \in Messages
  BY DEF TypeOK, BoardTypeOK
<1>. QED  BY <1>1 DEF Messages

\* What is behind the head of a sequence.
LEMMA TailFacts ==
  ASSUME NEW S, NEW s \in Seq(S), s # << >>
  PROVE  /\ Head(s) = s[1] /\ Head(s) \in S /\ 1 \in DOMAIN s
         /\ Tail(s) \in Seq(S) /\ Len(Tail(s)) = Len(s) - 1
         /\ \A i \in DOMAIN Tail(s) : i + 1 \in DOMAIN s /\ Tail(s)[i] = s[i + 1]
         /\ Len(s) = 1 => Tail(s) = << >>
<1>1. Len(s) \in Nat /\ Len(s) # 0 /\ DOMAIN s = 1 .. Len(s)
  BY EmptySeq
<1>2. Head(s) = s[1] /\ s[1] \in S /\ 1 \in DOMAIN s
  BY <1>1
<1>3. Tail(s) \in Seq(S) /\ Len(Tail(s)) = Len(s) - 1
  BY <1>1, HeadTailProperties
<1>4. \A i \in 1 .. Len(s) - 1 : i + 1 \in 1 .. Len(s) /\ Tail(s)[i] = s[i + 1]
  BY <1>1
<1>5. DOMAIN Tail(s) = 1 .. Len(s) - 1
  BY <1>3
<1>6. Len(s) = 1 => Tail(s) = << >>
  <2>1. HAVE Len(s) = 1
  <2>2. Len(Tail(s)) = 0
    BY <1>3, <2>1
  <2>. QED  BY <1>3, <2>2, EmptySeq
<1>. QED  BY <1>1, <1>2, <1>3, <1>4, <1>5, <1>6

\* Something was appended to a sequence.
LEMMA AppendFacts ==
  ASSUME NEW S, NEW s \in Seq(S), NEW e \in S
  PROVE  /\ Append(s, e) \in Seq(S) /\ Len(Append(s, e)) = Len(s) + 1
         /\ Append(s, e)[Len(s) + 1] = e
         /\ \A i \in DOMAIN s : i \in DOMAIN Append(s, e) /\ Append(s, e)[i] = s[i]
         /\ \A i \in DOMAIN Append(s, e) : i \in DOMAIN s \/ i = Len(s) + 1
  OBVIOUS

----------------------------------------------------------------------------
\* The stack

\* There is a call at the top, which may be the only one.
LEMMA StackFacts ==
  ASSUME TypeOK
  PROVE  /\ stack \in Seq(Waiting) /\ DOMAIN stack = 1 .. Depth
         /\ Depth \in Nat /\ Depth >= 1 /\ Depth <= 1 + hangups /\ hangups \in Nat
         /\ Top \in Calls /\ FwID \in Modes /\ stack[1].call \in Calls
         /\ Nested <=> Depth # 1
         /\ Depth = 1 => Top = stack[1].call
         /\ Depth \in DOMAIN stack /\ Top = stack[Depth].call /\ FwID = stack[Depth].fwID
<1>1. /\ stack \in Seq(Waiting) /\ Len(stack) >= 1 /\ Len(stack) <= 1 + hangups
      /\ hangups \in 0 .. MaxHangups
  BY DEF TypeOK, ProgramTypeOK, BoardTypeOK
<1>2. Len(stack) \in Nat /\ hangups \in Nat /\ DOMAIN stack = 1 .. Len(stack)
  BY <1>1
<1>3. \A i \in 1 .. Len(stack) : stack[i] \in Waiting
  BY <1>1
<1>4. \A i \in 1 .. Len(stack) : stack[i].call \in Calls /\ stack[i].fwID \in Modes
  BY <1>3 DEF Waiting
<1>. QED  BY <1>1, <1>2, <1>4 DEF Depth, Top, FwID, Nested

\* A step that leaves the stack alone leaves its top alone.
LEMMA SameStack ==
  ASSUME UNCHANGED stack
  PROVE  Depth' = Depth /\ Top' = Top /\ FwID' = FwID
  BY DEF Depth, Top, FwID

\* The call at the top is followed by another one.
LEMMA AdvanceFacts ==
  ASSUME TypeOK, NEW fwID \in Modes, Advance(fwID), Top # "final"
  PROVE  /\ stack' \in Seq(Waiting) /\ Depth' = Depth /\ Top' = Following[Top] /\ FwID' = fwID
         /\ \A i \in DOMAIN stack : i \in DOMAIN stack' /\ (i # Depth => stack'[i] = stack[i])
         /\ \A i \in DOMAIN stack' : i \in DOMAIN stack
         /\ stack'[Depth].call = Following[Top] /\ stack'[Depth].fwID = fwID
         /\ pc' = IF Following[Top] = "stream" THEN "receive" ELSE "send"
<1>. DEFINE e == [call |-> Following[Top], fwID |-> fwID]
<1>1. stack \in Seq(Waiting) /\ Depth \in Nat /\ Depth >= 1 /\ Top \in Calls /\ Depth = Len(stack)
  BY StackFacts DEF Depth
<1>2. e \in Waiting /\ e.call = Following[Top] /\ e.fwID = fwID
  <2>1. Following[Top] \in Calls
    BY <1>1 DEF Following, Calls
  <2>. QED  BY <2>1 DEF Waiting
<1>3. stack' = [stack EXCEPT ![Depth] = e]
  BY DEF Advance
<1>. HIDE DEF e
<1>4. /\ stack' \in Seq(Waiting) /\ Len(stack') = Len(stack) /\ stack'[Depth] = e
      /\ \A i \in 1 .. Len(stack) : i # Depth => stack'[i] = stack[i]
  BY <1>1, <1>2, <1>3
<1>5. Depth' = Depth
  BY <1>4 DEF Depth
<1>6. Top' = stack'[Depth'].call /\ FwID' = stack'[Depth'].fwID
  BY DEF Top, FwID
<1>7. DOMAIN stack = 1 .. Len(stack) /\ DOMAIN stack' = 1 .. Len(stack)
  BY <1>1, <1>4
<1>. QED  BY <1>1, <1>2, <1>4, <1>5, <1>6, <1>7 DEF Advance

LEMMA ProceedFacts ==
  ASSUME TypeOK, Proceed, Top # "final"
  PROVE  /\ stack' \in Seq(Waiting) /\ Depth' = Depth /\ Top' = Following[Top]
         /\ \A i \in DOMAIN stack : i \in DOMAIN stack' /\ (i # Depth => stack'[i] = stack[i])
         /\ \A i \in DOMAIN stack' : i \in DOMAIN stack
         /\ stack'[Depth].call = Following[Top]
         /\ Top # "freq" => stack'[Depth].fwID = FwID /\ FwID' = FwID
         /\ pc' = IF Following[Top] = "stream" THEN "receive" ELSE "send"
<1>. DEFINE f == IF Top = "freq" THEN "unknown" ELSE FwID
<1>1. f \in Modes /\ Advance(f) /\ (Top # "freq" => f = FwID)
  BY StackFacts DEF Proceed, Modes
<1>. HIDE DEF f
<1>. QED  BY <1>1, AdvanceFacts

\* The call at the top is left; the one below waits for its response again.
LEMMA ReturnFacts ==
  ASSUME TypeOK, Nested, stack' = Return
  PROVE  /\ stack' \in Seq(Waiting) /\ Depth' = Depth - 1 /\ Depth' >= 1
         /\ \A i \in DOMAIN stack' : i \in DOMAIN stack /\ stack'[i] = stack[i]
         /\ stack'[1] = stack[1]
         /\ Top' = stack[Depth - 1].call
<1>1. stack \in Seq(Waiting) /\ Depth \in Nat /\ Depth > 1 /\ Depth = Len(stack)
  BY StackFacts DEF Depth, Nested
<1>2. /\ stack' \in Seq(Waiting) /\ Len(stack') = Depth - 1
      /\ \A i \in 1 .. Depth - 1 : stack'[i] = stack[i]
      /\ DOMAIN stack' = 1 .. Depth - 1 /\ DOMAIN stack = 1 .. Depth
  BY <1>1 DEF Return
<1>3. Depth' = Depth - 1
  BY <1>2 DEF Depth
<1>4. Top' = stack'[Depth'].call
  BY DEF Top
<1>. QED  BY <1>1, <1>2, <1>3, <1>4

\* A failed call leaves the thread waiting to reconnect, at its end, in the
\* stream, or before the last stop.
LEMMA FailFacts ==
  ASSUME TypeOK, DepthInv, NEW interrupted, Fail(interrupted)
  PROVE  /\ stack' \in Seq(Waiting) /\ Depth' >= 1 /\ Depth' <= Depth /\ Depth' \in Nat
         /\ pc' \in {"pause", "done"} \/ (pc' = "receive" /\ Top' = "stream")
              \/ (pc' = "send" /\ Top' = "final")
         /\ pc' = "pause" => Nested /\ Depth' = Depth - 1
         /\ \A i \in DOMAIN stack' :
              /\ i \in DOMAIN stack
              /\ \/ stack'[i] = stack[i]
                 \/ /\ i = 1 /\ stack[i].call \in {"start", "stream"}
                    /\ stack'[i].call \in {"stream", "final"}
         /\ ~Nested /\ Top' = "stream" => Top \in {"start", "stream"}
         /\ pc' = "done" => Phase(Top') # "stream"
         /\ UNCHANGED <<state, strayed, crossed, unanswered>>
         /\ isReady' \in BOOLEAN
<1>0. isReady \in BOOLEAN
  BY DEF TypeOK, ProgramTypeOK
<1>. USE StackFacts
<1>1. CASE Nested /\ stack' = Popped /\ pc' = "pause" /\ UNCHANGED isReady
  BY <1>0, <1>1, ReturnFacts DEF Popped, Fail, FailState
<1>2. CASE ~Nested /\ Phase(Top) = "init" /\ isReady' = FALSE /\ pc' = "done" /\ UNCHANGED stack
  BY <1>0, <1>2, SameStack DEF Fail, FailState, Phase
<1>3. CASE ~Nested /\ Top = "start" /\ Proceed /\ UNCHANGED isReady
  BY <1>0, <1>3, ProceedFacts DEF Fail, FailState, Following, Phase
<1>4. CASE ~Nested /\ Top = "stream" /\ Proceed /\ UNCHANGED isReady
  BY <1>0, <1>4, ProceedFacts DEF Fail, FailState, Following, Phase
<1>5. CASE ~Nested /\ Top = "stream" /\ pc' = "receive" /\ UNCHANGED <<stack, isReady>>
  BY <1>0, <1>5, SameStack DEF Fail, FailState
<1>6. CASE ~Nested /\ Top = "final" /\ pc' = "done" /\ UNCHANGED <<stack, isReady>>
  BY <1>0, <1>6, SameStack DEF Fail, FailState, Phase
<1>. QED  BY <1>1, <1>2, <1>3, <1>4, <1>5, <1>6 DEF Fail

----------------------------------------------------------------------------
\* The steps of the thread

\* What a call that waited for a response, or to reconnect, finds when it fails.
Failing ==
  /\ pc \in {"receive", "pause"}
  /\ up' = up \/ (up # << >> /\ up' = Tail(up))
  /\ down' = down /\ UNCHANGED <<board, hangups>> /\ interruption' \in BOOLEAN
  /\ port' = port \/ port' = "closed"
  /\ pc = "receive" => port' # "hung"
  /\ faults' \in 0 .. MaxFaults /\ (faults' = 0 => faults = 0)
  /\ late' \in BOOLEAN /\ calm' \in BOOLEAN /\ (~late' => ~late)
  /\ calm' => calm /\ pc = "receive" /\ ~late' /\ port' = port

\* A call that fails keeps the invariant, if no command is on its way that the
\* failed call was to wait for, except in the ways the invariant allows for.
LEMMA FailStep ==
  ASSUME IInv, NEW interrupted, Fail(interrupted), Failing, LineInv',
         Sound' \/ Faultless' => \A i \in DOMAIN down : down[i].command = "stop",
         calm' /\ Top = "start" => down = << >> /\ \A i \in DOMAIN up' : up'[i].kind # "ok",
         Faultless' /\ Nested => down = << >>,
         Faultless' /\ state = "STOPPED" /\ running => port' # "open"
  PROVE  IInv'
<1>1. TypeOK /\ DepthInv
  BY DEF IInv
<1>2. /\ stack' \in Seq(Waiting) /\ Depth' >= 1 /\ Depth' <= Depth /\ Depth' \in Nat
      /\ pc' \in {"pause", "done"} \/ (pc' = "receive" /\ Top' = "stream")
           \/ (pc' = "send" /\ Top' = "final")
      /\ pc' = "pause" => Nested /\ Depth' = Depth - 1
      /\ ~Nested /\ Top' = "stream" => Top \in {"start", "stream"}
      /\ pc' = "done" => Phase(Top') # "stream"
      /\ UNCHANGED <<state, strayed, crossed, unanswered>>
      /\ isReady' \in BOOLEAN
  BY <1>1, FailFacts
<1>3. \A i \in DOMAIN stack' :
        /\ i \in DOMAIN stack
        /\ \/ stack'[i] = stack[i]
           \/ /\ i = 1 /\ stack[i].call \in {"start", "stream"}
              /\ stack'[i].call \in {"stream", "final"}
  BY <1>1, FailFacts
<1>4. /\ Depth \in Nat /\ Depth >= 1 /\ Depth <= 1 + hangups /\ hangups \in Nat
      /\ Nested <=> Depth # 1
      /\ DOMAIN stack = 1 .. Depth
  BY <1>1, StackFacts
<1>5. /\ up' \in Seq(FrameSet)
      /\ \A i \in DOMAIN up' : \E j \in DOMAIN up : up'[i] = up[j]
  <2>1. up \in Seq(FrameSet)
    BY <1>1 DEF TypeOK, BoardTypeOK
  <2>2. CASE up' = up
    BY <2>1, <2>2
  <2>3. CASE up # << >> /\ up' = Tail(up)
    BY <2>1, <2>3, TailFacts
  <2>. QED  BY <2>2, <2>3 DEF Failing
<1>6. DOMAIN stack' = 1 .. Depth' /\ Len(stack') = Depth'
  BY <1>2 DEF Depth
<1>7. TypeOK'
  <2>1. /\ pc' \in {"connect", "send", "receive", "lost", "pause", "done", "crashed"}
        /\ Len(stack') >= 1 /\ Len(stack') <= 1 + hangups
    BY <1>2, <1>4, <1>6
  <2>2. ProgramTypeOK'
    BY <1>1, <1>2, <2>1 DEF TypeOK, ProgramTypeOK, Failing
  <2>3. BoardTypeOK'
    BY <1>1, <1>5 DEF TypeOK, BoardTypeOK, Failing, board
  <2>. QED  BY <2>2, <2>3 DEF TypeOK
<1>8. DepthInv'
  <2>1. port' = "hung" \/ pc' \in {"lost", "pause"} => Depth' <= hangups'
    BY <1>1, <1>2, <1>4 DEF Failing, DepthInv
  <2>2. \A i \in 2 .. Depth' : stack'[i].call \in Commands
    BY <1>1, <1>2, <1>3, <1>4, <1>6 DEF DepthInv
  <2>. QED  BY <1>2, <2>1, <2>2 DEF DepthInv
<1>9. CommandInv' /\ AnswerInv' /\ ConfiguringInv'
  <2>1. CommandInv'
    BY DEF CommandInv, Failing
  <2>. QED  BY <1>2, <2>1 DEF AnswerInv, ConfiguringInv, Configuring
<1>10. Sound' => Sound
  BY <1>2 DEF Failing, Sound
<1>11. ModeInv'
  <2>. SUFFICES ASSUME Sound', ~unanswered'
                PROVE  ModeInv'
    BY DEF ModeInv
  <2>1. ModeInv /\ Sound /\ ~unanswered
    BY <1>2, <1>10 DEF IInv
  <2>2. UNCHANGED <<running, radio, down>>
    BY <1>2 DEF Failing, board
  <2>3. \A i \in DOMAIN stack' :
          stack'[i].call \in {"phy", "freq"} => stack'[i].fwID = Offered
    BY <1>3, <2>1 DEF ModeInv
  <2>4. \A i \in DOMAIN down' : down'[i].command = "stop"
    BY <2>2
  <2>5. stack'[1].call \in {"start", "stream"} => stack[1].call \in {"start", "stream"}
    BY <1>2, <1>3, <1>6
  <2>6. stack'[1].call \in {"start", "stream"} =>
          /\ running' => radio' = "right"
          /\ \A i \in DOMAIN up' : up'[i].kind = "data" => up'[i].mode = "right"
    BY <1>5, <2>1, <2>2, <2>5 DEF ModeInv
  <2>. QED  BY <1>2, <2>3, <2>4, <2>6 DEF ModeInv
<1>12. CalmInv'
  <2>. SUFFICES ASSUME calm'
                PROVE  CalmInv'
    BY DEF CalmInv
  <2>1. calm /\ CalmInv /\ pc = "receive" /\ port' = port /\ ~late' /\ Depth = 1
    BY DEF Failing, IInv, CalmInv
  <2>2. /\ crossed' # "init" /\ Depth' = 1 /\ ~Nested /\ pc' # "pause" /\ port' = "open"
        /\ unanswered' => unanswered
    BY <1>2, <1>4, <2>1 DEF CalmInv
  <2>3. faults' \in Nat /\ (faults' = 0 => faults = 0) /\ faults \in Nat
    BY <1>1 DEF Failing, TypeOK, BoardTypeOK
  <2>4. unanswered => Top' # "stop" /\ Phase(Top') # "init" /\ faults > 0
    <3>1. unanswered => Phase(Top) # "init" /\ faults > 0
      BY <2>1 DEF CalmInv
    <3>2. Phase(Top) # "init" => Phase(Top') # "init"
      <4>1. Depth' = 1 /\ Top' = stack'[1].call /\ Top = stack[1].call
        BY <1>4, <2>1, <2>2 DEF Top
      <4>. QED  BY <1>3, <1>6, <2>2, <4>1 DEF Phase
    <3>. QED  BY <3>1, <3>2 DEF Phase
  <2>5. Top' = "stream" => down' = << >> /\ \A i \in DOMAIN up' : up'[i].kind # "ok"
    <3>1. CASE Top = "start"
      BY <3>1 DEF Failing
    <3>2. CASE Top = "stream"
      BY <1>5, <2>1, <3>2 DEF CalmInv, Failing
    <3>. QED  BY <1>2, <2>2, <3>1, <3>2
  <2>6. faults > 0 => faults' > 0
    BY <2>3
  <2>. QED  BY <1>2, <2>1, <2>2, <2>4, <2>5, <2>6 DEF CalmInv, Phase
<1>13. StopInv' /\ CapturesInMode'
  <2>1. StopInv /\ CapturesInMode
    BY DEF IInv
  <2>2. faults' = 0 => \A i \in DOMAIN up' : up'[i].kind \in {"ok", "data"}
    BY <1>5, <2>1 DEF StopInv, Failing
  <2>3. Faultless' => (pc' \in {"lost", "pause"} => down' = << >>)
    BY <1>2 DEF Failing
  <2>4. ~(Faultless' /\ state' = "STOPPED" /\ running' /\ port' = "open")
    BY <1>2 DEF Failing, board
  <2>5. StopInv'
    BY <2>2, <2>3, <2>4 DEF StopInv
  <2>. QED  BY <1>2, <2>1, <2>5 DEF CapturesInMode
<1>. QED  BY <1>7, <1>8, <1>9, <1>11, <1>12, <1>13 DEF IInv

\* A call that gets no frame fails, or is freq and goes on to start with the answer
\* to phy, on a calm link only because a message was lost.
LEMMA UnansweredStep ==
  ASSUME IInv, NEW interrupted, Unanswered(interrupted), Failing, LineInv', up' = up,
         Sound' \/ Faultless' => \A i \in DOMAIN down : down[i].command = "stop",
         calm' => up = << >> /\ down = << >>,
         Faultless' /\ Nested => down = << >>,
         Faultless' /\ state = "STOPPED" /\ running => port' # "open"
  PROVE  IInv'
<1>1. CASE Top # "freq" /\ Fail(interrupted)
  <2>1. up = << >> => DOMAIN up' = {}
    OBVIOUS
  <2>. QED  BY <1>1, <2>1, FailStep
<1>2. CASE /\ Top = "freq" /\ Proceed
           /\ isReady' = (isReady \/ ~Nested)
           /\ unanswered' = (crossed # "init")
           /\ UNCHANGED <<state, strayed, crossed>>
  <2>1. /\ TypeOK /\ DepthInv /\ CapturesInMode /\ StopInv
        /\ UNCHANGED <<running, radio, down, up, hangups>>
    BY DEF IInv, Failing, board
  <2>2. /\ Depth \in Nat /\ Depth >= 1 /\ Depth <= 1 + hangups /\ hangups \in Nat
        /\ DOMAIN stack = 1 .. Depth
    BY <2>1, StackFacts
  <2>3. /\ stack' \in Seq(Waiting) /\ Depth' = Depth /\ Top' = "start" /\ pc' = "send"
        /\ \A i \in DOMAIN stack' : i \in DOMAIN stack /\ (i # Depth => stack'[i] = stack[i])
        /\ stack'[Depth].call = "start"
    BY <1>2, <2>1, ProceedFacts DEF Following
  <2>4. Len(stack') = Depth /\ DOMAIN stack' = 1 .. Depth
    BY <2>3 DEF Depth
  <2>5. TypeOK'
    <3>1. ProgramTypeOK'
      BY <1>2, <2>1, <2>2, <2>3, <2>4 DEF TypeOK, ProgramTypeOK, Failing
    <3>2. BoardTypeOK'
      BY <2>1 DEF TypeOK, BoardTypeOK, Failing
    <3>. QED  BY <3>1, <3>2 DEF TypeOK
  <2>6. DepthInv'
    <3>1. port' = "hung" => Depth' <= hangups'
      BY <2>1, <2>3 DEF DepthInv, Failing
    <3>2. \A i \in 2 .. Depth' : stack'[i].call \in Commands
      BY <2>1, <2>2, <2>3, <2>4 DEF DepthInv, Commands
    <3>. QED  BY <2>3, <3>1, <3>2 DEF DepthInv
  <2>7. CommandInv' /\ AnswerInv'
    BY <2>1, <2>3 DEF CommandInv, AnswerInv
  <2>8. calm' => /\ calm /\ CalmInv /\ pc = "receive" /\ ~late' /\ port' = "open" /\ Depth = 1
                 /\ ~running /\ crossed # "init" /\ up = << >> /\ down = << >> /\ faults' > 0
    <3>. SUFFICES ASSUME calm'
                  PROVE  /\ calm /\ CalmInv /\ pc = "receive" /\ ~late' /\ port' = "open"
                         /\ Depth = 1 /\ ~running /\ crossed # "init"
                         /\ up = << >> /\ down = << >> /\ faults' > 0
      OBVIOUS
    <3>1. calm /\ CalmInv /\ pc = "receive" /\ ~late' /\ port' = port
      BY DEF Failing, IInv
    <3>2. Phase(Top) = "init" /\ Top = "freq"
      BY <1>2 DEF Phase
    <3>3. /\ port = "open" /\ Depth = 1 /\ crossed # "init" /\ ~running /\ Assembled
          /\ faults = 0 => up # << >> \/ down # << >>
      BY <3>1, <3>2 DEF CalmInv
    <3>4. faults' > 0
      <4>1. faults \in Nat /\ faults' \in Nat /\ (faults' = 0 => faults = 0)
        BY <2>1 DEF TypeOK, BoardTypeOK, Failing
      <4>. QED  BY <3>3, <4>1
    <3>. QED  BY <3>1, <3>3, <3>4
  <2>9. ConfiguringInv'
    BY <1>2, <2>1, <2>3, <2>8 DEF ConfiguringInv, Sound
  <2>10. ModeInv'
    BY <1>2 DEF ModeInv, Sound
  <2>11. CalmInv'
    BY <1>2, <2>1, <2>3, <2>8 DEF CalmInv, Phase
  <2>12. StopInv' /\ CapturesInMode'
    <3>1. faults' = 0 => \A i \in DOMAIN up' : up'[i].kind \in {"ok", "data"}
      BY <2>1 DEF StopInv, Failing
    <3>2. ~(Faultless' /\ state' = "STOPPED" /\ running' /\ port' = "open")
      BY <1>2, <2>1
    <3>3. StopInv'
      BY <2>3, <3>1, <3>2 DEF StopInv
    <3>. QED  BY <1>2, <2>1, <3>3 DEF CapturesInMode
  <2>. QED  BY <2>5, <2>6, <2>7, <2>9, <2>10, <2>11, <2>12 DEF IInv
<1>. QED  BY <1>1, <1>2 DEF Unanswered

\* An open port and empty lines, or an end.
LEMMA ConnectStep ==
  ASSUME IInv, Connect
  PROVE  IInv'
<1>1. /\ TypeOK /\ pc = "connect" /\ Depth = 1 /\ Top = "stop" /\ port = "closed"
      /\ up = << >> /\ down = << >>
      /\ UNCHANGED <<stack, state, interruption, strayed, crossed, unanswered, board, history>>
      /\ pc' \in {"send", "done"} /\ isReady' \in BOOLEAN
      /\ port' \in {"open", "closed"} /\ (pc' = "done" => port' = "closed")
      /\ pc' = "send" => port' = "open"
  BY DEF IInv, DepthInv, LineInv, Connect, line
<1>2. up' = << >> /\ down' = << >>
  <2>1. CASE Purge
    BY <1>1, <2>1, PurgeFacts
  <2>2. CASE UNCHANGED line
    BY <1>1, <2>2 DEF line
  <2>. QED  BY <2>1, <2>2 DEF Connect
<1>3. Depth' = Depth /\ Top' = Top /\ FwID' = FwID
  BY <1>1, SameStack
<1>4. TypeOK'
  BY <1>1, <1>2, EmptySeq DEF TypeOK, ProgramTypeOK, BoardTypeOK, board, history
<1>5. DepthInv'
  BY <1>1, <1>3 DEF DepthInv
<1>6. LineInv' /\ CommandInv' /\ AnswerInv' /\ ConfiguringInv'
  <2>1. DOMAIN down' = {}
    BY <1>2
  <2>2. LineInv' /\ CommandInv'
    BY <1>1, <1>2, <2>1 DEF LineInv, CommandInv
  <2>. QED  BY <1>1, <1>2, <1>3, <2>2 DEF AnswerInv, ConfiguringInv, Configuring
<1>7. ModeInv'
  <2>1. DOMAIN up' = {} /\ DOMAIN down' = {}
    BY <1>2
  <2>. QED  BY <1>1, <1>3, <2>1 DEF IInv, ModeInv, Sound, board, history
<1>8. CalmInv'
  <2>1. calm' => calm /\ CalmInv /\ UNCHANGED <<crossed, unanswered, running, late, faults>>
    BY <1>1 DEF IInv, board, history
  <2>. QED  BY <1>1, <1>2, <1>3, <2>1 DEF CalmInv, Phase
<1>9. StopInv' /\ CapturesInMode'
  <2>1. DOMAIN up' = {}
    BY <1>2
  <2>. QED  BY <1>1, <1>2, <1>3, <2>1
            DEF IInv, StopInv, CapturesInMode, Faultless, board, history
<1>. QED  BY <1>4, <1>5, <1>6, <1>7, <1>8, <1>9 DEF IInv

\* init of a reconnection on top of the call that lost the port, or a pause.
LEMMA AttemptStep ==
  ASSUME IInv, Attempt
  PROVE  IInv'
<1>1. /\ TypeOK /\ DepthInv /\ pc = "lost" /\ Depth <= hangups
      /\ UNCHANGED <<state, interruption, strayed, crossed, unanswered, board, history>>
  BY DEF IInv, DepthInv, Attempt
<1>2. /\ stack \in Seq(Waiting) /\ Depth \in Nat /\ Depth >= 1 /\ hangups \in Nat
      /\ DOMAIN stack = 1 .. Depth /\ Len(stack) = Depth
  BY <1>1, StackFacts DEF Depth
<1>3. /\ UNCHANGED <<state, interruption, strayed, crossed, unanswered, running, radio,
                     calm, hangups, faults, late>>
      /\ ~calm /\ ~strayed
  BY <1>1 DEF IInv, CalmInv, CapturesInMode, board, history
<1>4. CASE /\ port' = "open" /\ isReady' = TRUE
           /\ stack' = Append(stack, [call |-> "stop", fwID |-> "unknown"])
           /\ pc' = "send" /\ Purge
  <2>1. /\ stack' \in Seq(Waiting) /\ Len(stack') = Depth + 1
        /\ stack'[Depth + 1].call = "stop" /\ stack'[Depth + 1].fwID = "unknown"
        /\ \A i \in 1 .. Depth : stack'[i] = stack[i]
        /\ DOMAIN stack' = 1 .. Depth + 1
    <3>. DEFINE e == [call |-> "stop", fwID |-> "unknown"]
    <3>1. e \in Waiting /\ e.call = "stop" /\ e.fwID = "unknown"
      BY DEF Waiting, Calls, Modes
    <3>2. stack' = Append(stack, e)
      BY <1>4
    <3>. HIDE DEF e
    <3>. QED  BY <1>2, <3>1, <3>2
  <2>2. Depth' = Depth + 1 /\ Top' = "stop"
    BY <2>1 DEF Depth, Top
  <2>3. /\ up' \in Seq(FrameSet) /\ down' \in Seq(Messages) /\ Len(down') <= Len(down)
        /\ \A i \in DOMAIN up' : \E j \in DOMAIN up : up'[i] = up[j]
        /\ \A i \in DOMAIN down' : i \in DOMAIN down /\ down'[i] = down[i]
        /\ down = << >> => down' = << >>
    BY <1>1, <1>4, PurgeFacts
  <2>4. TypeOK'
    <3>1. ProgramTypeOK'
      BY <1>1, <1>2, <1>3, <1>4, <2>1 DEF TypeOK, ProgramTypeOK
    <3>2. Len(down') <= MaxLine
      BY <1>1, <2>3, BoundsAssumption DEF TypeOK, BoardTypeOK
    <3>3. BoardTypeOK'
      BY <1>1, <1>3, <1>4, <2>3, <3>2 DEF TypeOK, BoardTypeOK
    <3>. QED  BY <3>1, <3>3 DEF TypeOK
  <2>5. DepthInv'
    <3>1. \A i \in 2 .. Depth' : stack'[i].call \in Commands
      BY <1>1, <1>2, <2>1, <2>2 DEF DepthInv, Commands
    <3>. QED  BY <1>4, <2>2, <3>1 DEF DepthInv
  <2>6. LineInv' /\ AnswerInv' /\ ConfiguringInv' /\ CalmInv' /\ CapturesInMode'
    BY <1>3, <1>4, <2>2 DEF LineInv, AnswerInv, ConfiguringInv, Configuring, CalmInv, CapturesInMode
  <2>7. ModeInv' /\ CommandInv'
    <3>1. (Sound' => Sound) /\ (Faultless' => Faultless)
      BY <1>3 DEF Sound, Faultless
    <3>2. CommandInv /\ ModeInv
      BY DEF IInv
    <3>3. Sound' \/ Faultless' => \A i \in DOMAIN down' : down'[i].command = "stop"
      BY <1>1, <2>3, <3>1, <3>2 DEF CommandInv
    <3>. SUFFICES ASSUME Sound', ~unanswered'
                  PROVE  ModeInv'
      BY <3>3 DEF ModeInv, CommandInv
    <3>4. Sound /\ ~unanswered
      BY <1>3, <3>1
    <3>5. \A i \in DOMAIN stack' :
            stack'[i].call \in {"phy", "freq"} => stack'[i].fwID = Offered
      BY <1>2, <2>1, <3>2, <3>4 DEF ModeInv
    <3>6. stack'[1].call \in {"start", "stream"} =>
            /\ running' => radio' = "right"
            /\ \A i \in DOMAIN up' : up'[i].kind = "data" => up'[i].mode = "right"
      BY <1>2, <1>3, <2>1, <2>3, <3>2, <3>4 DEF ModeInv
    <3>. QED  BY <1>4, <2>2, <3>3, <3>5, <3>6 DEF ModeInv
  <2>8. StopInv'
    BY <1>1, <1>3, <1>4, <2>2, <2>3 DEF IInv, StopInv, Faultless
  <2>. QED  BY <2>4, <2>5, <2>6, <2>7, <2>8 DEF IInv
<1>5. CASE /\ port' = "closed" /\ isReady' = FALSE
           /\ up' = << >> /\ down' = << >>
           /\ pc' = "pause" /\ UNCHANGED stack
  <2>1. Depth' = Depth /\ Top' = Top
    BY <1>5, SameStack
  <2>2. TypeOK'
    <3>1. << >> \in Seq(FrameSet) /\ << >> \in Seq(Messages) /\ Len(<< >>) <= MaxLine
      BY EmptySeq, BoundsAssumption
    <3>2. ProgramTypeOK'
      BY <1>1, <1>3, <1>5 DEF TypeOK, ProgramTypeOK
    <3>3. BoardTypeOK'
      BY <1>1, <1>3, <1>5, <3>1 DEF TypeOK, BoardTypeOK
    <3>. QED  BY <3>2, <3>3 DEF TypeOK
  <2>3. DepthInv' /\ LineInv' /\ AnswerInv' /\ ConfiguringInv' /\ CalmInv' /\ CapturesInMode'
    BY <1>1, <1>3, <1>5, <2>1
    DEF DepthInv, LineInv, AnswerInv, ConfiguringInv, Configuring, CalmInv, CapturesInMode
  <2>4. ModeInv' /\ CommandInv'
    <3>1. DOMAIN up' = {} /\ DOMAIN down' = {}
      BY <1>5
    <3>. QED  BY <1>3, <1>5, <2>1, <3>1 DEF IInv, ModeInv, CommandInv, Sound
  <2>5. StopInv'
    BY <1>3, <1>5 DEF StopInv
  <2>. QED  BY <2>2, <2>3, <2>4, <2>5 DEF IInv
<1>. QED  BY <1>4, <1>5 DEF Attempt

\* Ten seconds later: another attempt, or the end of the call.
LEMMA PauseStep ==
  ASSUME IInv, Pause
  PROVE  IInv'
<1>1. /\ TypeOK /\ DepthInv /\ pc = "pause" /\ ~calm
      /\ UNCHANGED <<interruption, running, radio, port, down, up, calm, hangups, faults, late>>
  BY DEF IInv, CalmInv, Pause, board, line, history
<1>2. CASE Unanswered(interruption)
  <2>1. Failing
    BY <1>1, <1>2 DEF Failing, TypeOK, BoardTypeOK, ProgramTypeOK, board
  <2>2. LineInv'
    BY <1>1 DEF IInv, LineInv
  <2>3. UNCHANGED crossed /\ (unanswered => unanswered' \/ crossed = "init")
    <3>1. CASE Fail(interruption)
      BY <3>1 DEF Fail
    <3>2. CASE unanswered' = (crossed # "init") /\ UNCHANGED crossed
      BY <3>2
    <3>. QED  BY <1>2, <3>1, <3>2 DEF Unanswered
  <2>4. (Sound' => Sound) /\ (Faultless' => Faultless)
    BY <1>1, <2>3 DEF Sound, Faultless
  <2>5. Sound' \/ Faultless' => \A i \in DOMAIN down : down[i].command = "stop"
    BY <1>1, <2>4 DEF IInv, CommandInv
  <2>6. Faultless' => down = << >> /\ ~(state = "STOPPED" /\ running /\ port' = "open")
    BY <1>1, <2>4 DEF IInv, StopInv
  <2>. QED  BY <1>1, <1>2, <2>1, <2>2, <2>5, <2>6, UnansweredStep
<1>3. CASE pc' = "lost" /\ UNCHANGED <<stack, state, isReady, strayed, crossed, unanswered>>
  <2>1. Depth' = Depth /\ Top' = Top
    BY <1>3, SameStack
  <2>2. ProgramTypeOK' /\ BoardTypeOK'
    BY <1>1, <1>3 DEF TypeOK, ProgramTypeOK, BoardTypeOK
  <2>3. DepthInv' /\ LineInv' /\ AnswerInv' /\ ConfiguringInv' /\ CalmInv' /\ CapturesInMode'
    BY <1>1, <1>3, <2>1
    DEF IInv, DepthInv, LineInv, AnswerInv, ConfiguringInv, Configuring, CalmInv, CapturesInMode
  <2>4. ModeInv' /\ CommandInv'
    BY <1>1, <1>3, <2>1 DEF IInv, ModeInv, CommandInv, Sound, Faultless
  <2>5. StopInv'
    BY <1>1, <1>3 DEF IInv, StopInv, Faultless
  <2>. QED  BY <2>2, <2>3, <2>4, <2>5 DEF IInv, TypeOK
<1>. QED  BY <1>2, <1>3 DEF Pause

\* Ten seconds without a byte.
LEMMA TimeoutStep ==
  ASSUME IInv, Timeout
  PROVE  IInv'
<1>1. /\ TypeOK /\ DepthInv /\ pc = "receive" /\ ByteRead = "none" /\ Unanswered(interruption)
      /\ UNCHANGED <<interruption, running, radio, port, down, up, hangups>>
  BY DEF IInv, Timeout, board, line
<1>2. /\ port # "hung"
      /\ up = << >>
  BY <1>1 DEF ByteRead, IInv, LineInv
<1>3. /\ late' \in BOOLEAN /\ calm' \in BOOLEAN /\ (~late' => ~late /\ down = << >>)
      /\ faults' \in 0 .. MaxFaults /\ (faults' = 0 => faults = 0)
      /\ calm' => calm /\ ~late'
  <2>1. /\ calm \in BOOLEAN /\ late \in BOOLEAN /\ faults \in 0 .. MaxFaults
        /\ calm => ~late
    BY <1>1 DEF TypeOK, BoardTypeOK, IInv, CalmInv
  <2>2. CASE down = << >> /\ UNCHANGED <<faults, calm, late>>
    BY <2>1, <2>2
  <2>3. CASE late' = TRUE /\ calm' = FALSE /\ faults' = MaxFaults
    <3>1. faults' \in 0 .. MaxFaults /\ (faults' = 0 => faults = 0)
      BY <2>1, <2>3, BoundsAssumption
    <3>. QED  BY <2>3, <3>1
  <2>. QED  BY <2>2, <2>3 DEF Timeout
<1>4. Failing
  BY <1>1, <1>2, <1>3 DEF Failing, TypeOK, ProgramTypeOK, board
<1>5. LineInv'
  BY <1>1 DEF IInv, LineInv
<1>6. DOMAIN up' = {} /\ (down = << >> => DOMAIN down = {})
  BY <1>1, <1>2
<1>7. UNCHANGED crossed
  BY <1>1 DEF Unanswered, Fail
<1>8. Sound' \/ calm' \/ Faultless' => down = << >>
  BY <1>3 DEF Sound, Faultless
<1>9. ~(Faultless' /\ state = "STOPPED" /\ running /\ port' = "open")
  <2>1. Faultless' => Faultless
    BY <1>1, <1>3, <1>7 DEF Faultless
  <2>. QED  BY <1>1, <1>2, <1>8, <2>1 DEF IInv, StopInv
<1>. QED  BY <1>1, <1>2, <1>4, <1>5, <1>6, <1>8, <1>9, UnansweredStep

\* The port is gone.
LEMMA HangUpStep ==
  ASSUME IInv, HangUp
  PROVE  IInv'
<1>1. /\ TypeOK /\ DepthInv /\ pc = "receive" /\ port = "hung" /\ port' = "closed"
      /\ UNCHANGED <<running, radio, down, up, calm, hangups, faults, late>>
  BY DEF IInv, HangUp, ByteRead, board, history
<1>2. up = << >> /\ down = << >> /\ DOMAIN up = {} /\ DOMAIN down = {} /\ ~calm /\ Depth <= hangups
  BY <1>1 DEF IInv, LineInv, CalmInv, DepthInv
<1>3. CASE interruption' = TRUE /\ Unanswered(TRUE)
  <2>1. LineInv'
    BY <1>1, <1>2 DEF LineInv
  <2>2. Failing
    BY <1>1, <1>2, <1>3 DEF Failing, TypeOK, BoardTypeOK, board
  <2>. QED  BY <1>1, <1>2, <1>3, <2>1, <2>2, UnansweredStep
<1>4. CASE /\ pc' = "lost"
           /\ UNCHANGED <<stack, state, isReady, interruption, strayed, crossed, unanswered>>
  <2>1. Depth' = Depth /\ Top' = Top
    BY <1>4, SameStack
  <2>2. ProgramTypeOK' /\ BoardTypeOK'
    BY <1>1, <1>4 DEF TypeOK, ProgramTypeOK, BoardTypeOK
  <2>3. DepthInv' /\ LineInv' /\ AnswerInv' /\ ConfiguringInv' /\ CalmInv' /\ CapturesInMode'
    BY <1>1, <1>2, <1>4, <2>1
    DEF IInv, DepthInv, LineInv, AnswerInv, ConfiguringInv, Configuring, CalmInv, CapturesInMode
  <2>4. ModeInv' /\ CommandInv'
    BY <1>1, <1>2, <1>4, <2>1 DEF IInv, ModeInv, CommandInv, Sound
  <2>5. StopInv'
    BY <1>1, <1>2, <1>4 DEF IInv, StopInv, Faultless
  <2>. QED  BY <2>2, <2>3, <2>4, <2>5 DEF IInv, TypeOK
<1>. QED  BY <1>3, <1>4 DEF HangUp

\* What Send writes, behind messages that are stale from then on.
LEMMA WrittenFacts ==
  ASSUME TypeOK, Top # "stream"
  PROVE  /\ Written \in Seq(Messages) /\ Len(Written) <= MaxLine
         /\ \A i \in DOMAIN Written :
              \/ /\ i \in DOMAIN down /\ ~Written[i].fresh
                 /\ Written[i].command = down[i].command /\ Written[i].mode = down[i].mode
              \/ /\ i = Len(Written) /\ i = Len(down) + 1
                 /\ port = "open" /\ Assembled
                 /\ Written[i].command = CommandOf(Top) /\ Written[i].mode = FwID
                 /\ Written[i].fresh
         /\ down = << >> => /\ Len(Written) <= 1
                            /\ port = "open" /\ Assembled => Written # << >>
                            /\ port # "open" \/ ~Assembled => Written = << >>
<1>. DEFINE m == [command |-> CommandOf(Top), mode |-> FwID, fresh |-> TRUE]
<1>1. /\ down \in Seq(Messages) /\ Len(down) <= MaxLine /\ FwID \in Modes
  BY StackFacts DEF TypeOK, BoardTypeOK
<1>2. m \in Messages
  BY <1>1, StackFacts DEF Messages, CommandOf, Calls, Commands
<1>3. /\ Stale(down) \in Seq(Messages) /\ Len(Stale(down)) = Len(down)
      /\ \A i \in DOMAIN down :
           /\ Stale(down)[i].command = down[i].command /\ Stale(down)[i].mode = down[i].mode
           /\ ~Stale(down)[i].fresh
      /\ down = << >> => Stale(down) = << >>
  BY StaleFacts
<1>4. DOMAIN Stale(down) = DOMAIN down /\ DOMAIN down = 1 .. Len(down) /\ Len(down) \in Nat
  BY <1>1, <1>3
<1>5. CASE port = "open" /\ Assembled /\ Len(down) < MaxLine
  <2>1. Written = Append(Stale(down), m)
    BY <1>5 DEF Written
  <2>2. /\ Written \in Seq(Messages) /\ Len(Written) = Len(down) + 1
        /\ Written[Len(down) + 1] = m
        /\ \A i \in DOMAIN down : Written[i] = Stale(down)[i]
        /\ \A i \in DOMAIN Written : i \in DOMAIN down \/ i = Len(down) + 1
    BY <1>2, <1>3, <1>4, <2>1, AppendFacts
  <2>3. m.command = CommandOf(Top) /\ m.mode = FwID /\ m.fresh
    OBVIOUS
  <2>. HIDE DEF m
  <2>4. down = << >> => Len(Written) = 1 /\ Written # << >>
    <3>1. Len(<< >>) = 0
      OBVIOUS
    <3>. QED  BY <2>2, <3>1
  <2>5. Len(Written) <= MaxLine
    BY <1>4, <1>5, <2>2, BoundsAssumption
  <2>. QED  BY <1>3, <1>5, <2>2, <2>3, <2>4, <2>5
<1>6. CASE ~(port = "open" /\ Assembled /\ Len(down) < MaxLine)
  <2>1. Written = Stale(down)
    BY <1>6 DEF Written
  <2>2. down = << >> => Written = << >> /\ ~(port = "open" /\ Assembled)
    BY <1>3, <1>6, <2>1, BoundsAssumption, EmptySeq
  <2>. QED  BY <1>1, <1>3, <1>4, <2>1, <2>2, EmptySeq
<1>. QED  BY <1>5, <1>6

\* The command goes out, or is lost in a port that is closed; what was on the
\* line before belongs to no command that is out.
LEMMA SendStep ==
  ASSUME IInv, Send
  PROVE  IInv'
<1>1. /\ TypeOK /\ pc = "send" /\ pc' = "receive" /\ Top # "stream"
      /\ down' = Written /\ up' = Stale(up)
      /\ UNCHANGED <<stack, state, isReady, interruption, strayed, crossed, unanswered, port,
                     running, radio, calm, hangups, faults, late>>
  BY DEF IInv, DepthInv, Send, Await, board, history
<1>2. Depth' = Depth /\ Top' = Top /\ FwID' = FwID /\ Top \in Calls
  BY <1>1, SameStack, StackFacts
<1>3. /\ down' \in Seq(Messages) /\ Len(down') <= MaxLine
      /\ down = << >> => /\ Len(down') <= 1
                         /\ port = "open" /\ Assembled => down' # << >>
                         /\ port # "open" \/ ~Assembled => down' = << >>
  BY <1>1, WrittenFacts
<1>4. \A i \in DOMAIN down' :
        \/ /\ i \in DOMAIN down /\ ~down'[i].fresh
           /\ down'[i].command = down[i].command /\ down'[i].mode = down[i].mode
        \/ /\ i = Len(down') /\ i = Len(down) + 1
           /\ port = "open" /\ Assembled
           /\ down'[i].command = CommandOf(Top) /\ down'[i].mode = FwID /\ down'[i].fresh
  BY <1>1, WrittenFacts
<1>5. /\ up' \in Seq(FrameSet) /\ DOMAIN up' = DOMAIN up
      /\ \A i \in DOMAIN up :
              /\ up'[i].kind = up[i].kind /\ up'[i].mode = up[i].mode
              /\ ~up'[i].fresh
      /\ up = << >> => up' = << >>
  <2>1. up \in Seq(FrameSet)
    BY <1>1 DEF TypeOK, BoardTypeOK
  <2>. QED  BY <1>1, <2>1, StaleFacts
<1>6. TypeOK'
  BY <1>1, <1>3, <1>5 DEF TypeOK, ProgramTypeOK, BoardTypeOK
<1>7. DepthInv' /\ CapturesInMode'
  BY <1>1, <1>2 DEF IInv, DepthInv, CapturesInMode
<1>8. LineInv'
  BY <1>1, <1>3, <1>5 DEF IInv, LineInv
<1>9. Sound' = Sound /\ Faultless' = Faultless
  BY <1>1 DEF Sound, Faultless
<1>10. Fresh(up)' = {}
  BY <1>5 DEF Fresh
<1>11. AnswerInv'
  <2>1. \A i \in Fresh(down)' : i = Len(down') /\ down'[i].command = CommandOf(Top)
    BY <1>4 DEF Fresh
  <2>. QED  BY <1>1, <1>2, <1>10, <2>1 DEF AnswerInv, CommandOf
<1>12. ConfiguringInv'
  <2>. SUFFICES ASSUME Sound', Configuring'
                PROVE  ConfiguringInv'
    BY DEF ConfiguringInv
  <2>1. down = << >> /\ up = << >> /\ ~running
    BY <1>1, <1>2, <1>9 DEF IInv, ConfiguringInv, Configuring
  <2>2. up' = << >> /\ DOMAIN up' = {} /\ DOMAIN down = {}
    BY <1>5, <2>1
  <2>3. down' # << >> => Len(down') = 1 /\ 1 \in DOMAIN down'
    <3>1. HAVE down' # << >>
    <3>2. Len(down') \in Nat \ {0} /\ Len(down') <= 1
      BY <1>3, <2>1, <3>1, EmptySeq
    <3>3. DOMAIN down' = 1 .. Len(down')
      BY <1>3
    <3>. QED  BY <3>2, <3>3
  <2>4. down' # << >> => 1 \in Fresh(down)'
    BY <1>4, <2>2, <2>3 DEF Fresh
  <2>. QED  BY <1>1, <1>10, <2>1, <2>2, <2>3, <2>4 DEF ConfiguringInv
<1>13. ModeInv' /\ CommandInv'
  <2>1. ModeInv /\ CommandInv
    BY DEF IInv
  <2>2. ASSUME Sound \/ Faultless
        PROVE  \A i \in DOMAIN down' : down'[i].command # "stop" => Top = down'[i].command
    <3>1. \A i \in DOMAIN down : down[i].command = "stop"
      BY <1>1, <2>1, <2>2 DEF CommandInv
    <3>2. CommandOf(Top) # "stop" => CommandOf(Top) = Top
      BY DEF CommandOf
    <3>. QED  BY <1>4, <3>1, <3>2
  <2>3. CommandInv'
    BY <1>1, <1>2, <1>9, <2>2 DEF CommandInv
  <2>. SUFFICES ASSUME Sound, ~unanswered
                PROVE  ModeInv'
    BY <1>1, <1>9, <2>3 DEF ModeInv
  <2>4. Top \in {"phy", "freq"} /\ Assembled => FwID = "right"
    BY <1>1, <2>1, StackFacts, OfferedAssumption DEF ModeInv, Assembled
  <2>5. \A i \in DOMAIN down' :
          /\ down'[i].command \in {"phy", "freq"} => down'[i].mode = "right"
          /\ down'[i].command = "start" => radio = "right"
    <3>1. CommandOf(Top) \in {"phy", "freq", "start"} => CommandOf(Top) = Top
      BY DEF CommandOf
    <3>2. Top = "start" /\ port = "open" => radio = "right"
      BY <1>1, <2>1 DEF ModeInv
    <3>. QED  BY <1>4, <2>1, <2>4, <3>1, <3>2 DEF ModeInv
  <2>6. stack'[1].call \in {"start", "stream"} =>
          /\ running' => radio' = "right"
          /\ \A i \in DOMAIN up' : up'[i].kind = "data" => up'[i].mode = "right"
    BY <1>1, <1>5, <2>1 DEF ModeInv
  <2>. QED  BY <1>1, <1>2, <1>10, <2>1, <2>5, <2>6 DEF ModeInv
<1>14. CalmInv'
  <2>. SUFFICES ASSUME calm'
                PROVE  CalmInv'
    BY DEF CalmInv
  <2>1. CalmInv /\ calm /\ Depth = 1 /\ port = "open"
    BY <1>1 DEF IInv, CalmInv
  <2>2. Phase(Top) = "init" => ~running /\ up = << >> /\ down = << >>
    BY <1>1, <2>1 DEF CalmInv
  <2>3. Phase(Top) = "init" =>
          /\ Fresh(up)' = DOMAIN up' /\ Fresh(down)' = DOMAIN down'
          /\ Assembled => down' # << >>
          /\ ~Assembled => up' = << >> /\ down' = << >>
    <3>1. HAVE Phase(Top) = "init"
    <3>2. DOMAIN up = {} /\ DOMAIN down = {}
      BY <2>2, <3>1
    <3>3. Fresh(down)' = DOMAIN down'
      BY <1>4, <3>2 DEF Fresh
    <3>. QED  BY <1>3, <1>5, <1>10, <2>1, <2>2, <3>1, <3>2, <3>3
  <2>4. Assembled' = Assembled
    BY <1>2 DEF Assembled
  <2>. QED  BY <1>1, <1>2, <2>1, <2>2, <2>3, <2>4 DEF CalmInv
<1>15. StopInv'
  <2>1. StopInv
    BY DEF IInv
  <2>2. faults' = 0 => \A i \in DOMAIN up' : up'[i].kind \in {"ok", "data"}
    BY <1>1, <1>5, <2>1 DEF StopInv
  <2>3. ASSUME Faultless', state = "STOPPED", running, port = "open"
        PROVE  /\ Top = "stop" /\ down' # << >>
               /\ \A i \in DOMAIN down' : down'[i].command = "stop"
    <3>1. Top = "stop" /\ down = << >> /\ DOMAIN down = {}
      BY <1>1, <2>1, <2>3 DEF StopInv, Faultless
    <3>. QED  BY <1>3, <1>4, <2>3, <3>1 DEF Assembled, CommandOf
  <2>. QED  BY <1>1, <1>2, <2>2, <2>3 DEF StopInv
<1>. QED  BY <1>6, <1>7, <1>8, <1>11, <1>12, <1>13, <1>14, <1>15 DEF IInv

\* A frame is taken from an open port; all but the program stays as it is.
LEMMA ReceiveFacts ==
  ASSUME IInv, Receive
  PROVE  /\ TypeOK /\ DepthInv /\ pc = "receive" /\ port = "open" /\ up # << >>
         /\ UNCHANGED <<interruption, port, down, running, radio, calm, hangups, faults, late>>
         /\ Head(up) = up[1] /\ 1 \in DOMAIN up /\ up[1] \in FrameSet /\ Len(up) \in Nat
         /\ up' = Tail(up)
         /\ \A i \in DOMAIN up' : i \in Nat /\ i >= 1 /\ i + 1 \in DOMAIN up /\ up'[i] = up[i + 1]
         /\ Len(up) = 1 => up' = << >>
         /\ BoardTypeOK' /\ LineInv'
         /\ faults' = 0 => \A i \in DOMAIN up' : up'[i].kind \in {"ok", "data"}
<1>1. /\ TypeOK /\ DepthInv /\ pc = "receive" /\ port = "open" /\ up # << >> /\ up' = Tail(up)
      /\ UNCHANGED <<interruption, port, down, running, radio, calm, hangups, faults, late>>
  <2>1. port = "open" /\ up # << >>
    BY DEF Receive, ByteRead
  <2>. QED  BY <2>1 DEF IInv, Receive, board, history
<1>2. up \in Seq(FrameSet)
  BY <1>1 DEF TypeOK, BoardTypeOK
<1>3. /\ Head(up) = up[1] /\ up[1] \in FrameSet /\ 1 \in DOMAIN up
      /\ up' \in Seq(FrameSet)
      /\ \A i \in DOMAIN up' : i + 1 \in DOMAIN up /\ up'[i] = up[i + 1]
      /\ Len(up) = 1 => up' = << >>
  BY <1>1, <1>2, TailFacts
<1>4. Len(up) \in Nat /\ \A i \in DOMAIN up' : i \in Nat /\ i >= 1
  BY <1>2, <1>3
<1>5. BoardTypeOK' /\ LineInv'
  BY <1>1, <1>3 DEF TypeOK, BoardTypeOK, LineInv
<1>6. faults' = 0 => \A i \in DOMAIN up' : up'[i].kind \in {"ok", "data"}
  BY <1>1, <1>3 DEF IInv, StopInv
<1>. QED  BY <1>1, <1>3, <1>4, <1>5, <1>6

\* A frame in the stream.
LEMMA CaptureStep ==
  ASSUME IInv, Receive, Top = "stream"
  PROVE  IInv'
<1>1. Capture(up[1]) /\ UNCHANGED <<state, isReady, crossed, unanswered>>
  BY ReceiveFacts DEF Receive, Capture
<1>2. /\ TypeOK /\ DepthInv /\ pc = "receive" /\ port = "open"
      /\ UNCHANGED <<interruption, port, down, running, radio, calm, hangups, faults, late>>
      /\ 1 \in DOMAIN up
      /\ \A i \in DOMAIN up' : i + 1 \in DOMAIN up /\ up'[i] = up[i + 1]
      /\ BoardTypeOK' /\ LineInv'
      /\ faults' = 0 => \A i \in DOMAIN up' : up'[i].kind \in {"ok", "data"}
  BY ReceiveFacts
<1>3. /\ Depth \in Nat /\ Depth >= 1 /\ Depth <= 1 + hangups
      /\ DOMAIN stack = 1 .. Depth /\ stack \in Seq(Waiting) /\ Len(stack) = Depth
      /\ Top = stack[Depth].call
  BY <1>2, StackFacts DEF Depth
<1>4. Depth = 1 /\ stack[1].call = "stream"
  BY <1>2, <1>3 DEF DepthInv, Commands
<1>5. ~strayed' /\ strayed' \in BOOLEAN
  <2>1. ~strayed /\ strayed \in BOOLEAN
    BY <1>2 DEF IInv, CapturesInMode, TypeOK, ProgramTypeOK
  <2>2. Sound /\ ~unanswered /\ up[1].kind = "data" => up[1].mode = "right"
    BY <1>2, <1>4 DEF IInv, ModeInv
  <2>3. calm => up[1].kind # "ok"
    BY <1>2 DEF IInv, CalmInv
  <2>. QED  BY <1>1, <2>1, <2>2, <2>3 DEF Capture, Sound
<1>6. /\ stack' \in Seq(Waiting) /\ Depth' = 1 /\ DOMAIN stack' = 1 .. 1 /\ Len(stack') = 1
      /\ \/ pc' = "send" /\ stack'[1].call = "final" /\ Top' = "final"
         \/ pc' = "receive" /\ stack'[1].call = "stream" /\ Top' = "stream"
  <2>1. CASE Proceed
    <3>1. /\ stack' \in Seq(Waiting) /\ Depth' = Depth /\ Top' = "final"
          /\ stack'[Depth].call = "final" /\ pc' = "send"
      BY <1>2, <2>1, ProceedFacts DEF Following
    <3>. QED  BY <1>4, <3>1 DEF Depth
  <2>2. CASE UNCHANGED <<stack, pc>>
    BY <1>2, <1>3, <1>4, <2>2, SameStack
  <2>. QED  BY <1>1, <2>1, <2>2 DEF Capture
<1>7. TypeOK'
  <2>1. ProgramTypeOK'
    BY <1>1, <1>2, <1>3, <1>4, <1>5, <1>6 DEF TypeOK, ProgramTypeOK
  <2>. QED  BY <1>2, <2>1 DEF TypeOK
<1>8. DepthInv'
  BY <1>2, <1>6 DEF DepthInv
<1>9. AnswerInv' /\ ConfiguringInv' /\ CapturesInMode'
  BY <1>5, <1>6 DEF AnswerInv, ConfiguringInv, Configuring, CapturesInMode
<1>10. ModeInv' /\ CommandInv'
  <2>1. Sound' = Sound /\ Faultless' = Faultless /\ ModeInv /\ CommandInv
    BY <1>1, <1>2 DEF Sound, Faultless, IInv
  <2>2. Sound \/ Faultless => \A i \in DOMAIN down' : down'[i].command = "stop"
    <3>1. \A i \in DOMAIN down : down[i].command \in Commands
      BY <1>2, CommandFacts
    <3>. QED  BY <1>2, <2>1, <3>1 DEF CommandInv, Commands
  <2>. SUFFICES ASSUME Sound, ~unanswered
                PROVE  ModeInv'
    BY <1>1, <2>1, <2>2 DEF ModeInv, CommandInv
  <2>3. /\ running' => radio' = "right"
        /\ \A i \in DOMAIN up' : up'[i].kind = "data" => up'[i].mode = "right"
    BY <1>2, <1>4, <2>1 DEF ModeInv
  <2>. QED  BY <1>6, <2>2, <2>3 DEF ModeInv
<1>11. CalmInv'
  <2>. SUFFICES ASSUME calm'
                PROVE  CalmInv'
    BY DEF CalmInv
  <2>1. calm /\ CalmInv /\ Top = "stream"
    BY <1>2 DEF IInv
  <2>. QED  BY <1>1, <1>2, <1>6, <2>1 DEF CalmInv, Phase
<1>12. StopInv'
  BY <1>1, <1>2, <1>6 DEF IInv, StopInv, Faultless
<1>. QED  BY <1>2, <1>7, <1>8, <1>9, <1>10, <1>11, <1>12 DEF IInv

\* The frame is refused, or an error.
LEMMA RefusedStep ==
  ASSUME IInv, Receive, Top # "stream", Fail(interruption), ~Verified(up[1])
  PROVE  IInv'
<1>1. /\ TypeOK /\ DepthInv /\ pc = "receive" /\ port = "open" /\ up # << >> /\ up' = Tail(up)
      /\ UNCHANGED <<interruption, port, down, running, radio, calm, hangups, faults, late>>
      /\ 1 \in DOMAIN up
      /\ \A i \in DOMAIN up' : i \in Nat /\ i >= 1 /\ i + 1 \in DOMAIN up /\ up'[i] = up[i + 1]
      /\ BoardTypeOK' /\ LineInv'
  BY ReceiveFacts
<1>2. Failing
  <2>1. calm => ~late
    BY DEF IInv, CalmInv
  <2>. QED  BY <1>1, <2>1 DEF Failing, TypeOK, ProgramTypeOK, BoardTypeOK, board
<1>3. faults # 0
  BY <1>1 DEF IInv, StopInv, Verified
<1>4. UNCHANGED <<crossed, unanswered>>
  BY DEF Fail
<1>5. Sound' => \A i \in DOMAIN down : down[i].command = "stop"
  <2>. SUFFICES ASSUME Sound', NEW i \in DOMAIN down, down[i].command # "stop"
                PROVE  FALSE
    OBVIOUS
  <2>1. Sound
    BY <1>1, <1>4 DEF Sound
  <2>2. Top = down[i].command /\ down[i].command \in Commands
    BY <1>1, <2>1, CommandFacts DEF IInv, CommandInv
  <2>3. Configuring
    BY <2>2 DEF Configuring, Commands
  <2>4. down = << >>
    BY <1>1, <2>1, <2>3 DEF IInv, ConfiguringInv
  <2>. QED  BY <2>4
<1>6. calm' /\ Top = "start" => down = << >> /\ \A i \in DOMAIN up' : up'[i].kind # "ok"
  <2>. SUFFICES ASSUME calm', Top = "start"
                PROVE  down = << >> /\ \A i \in DOMAIN up' : up'[i].kind # "ok"
    OBVIOUS
  <2>1. Sound
    BY <1>1 DEF IInv, CalmInv, Sound
  <2>2. /\ down = << >>
        /\ \A i \in DOMAIN up : up[i].kind = "ok" => i = 1
    BY <1>1, <2>1 DEF IInv, ConfiguringInv, Configuring
  <2>. QED  BY <1>1, <2>2
<1>. QED  BY <1>1, <1>2, <1>3, <1>5, <1>6, FailStep DEF Faultless

\* A command of init that is answered by its own answer leaves no command on the
\* line, and in a sound link nothing and a silent board.
LEMMA InitAnswered ==
  ASSUME IInv, Receive, Phase(Top) = "init", Verified(up[1]), InTurn, up[1].fresh
  PROVE  /\ down = << >> /\ up[1].kind = "ok" /\ up[1].mode = Offered
         /\ Top = "stop" => ~running
         /\ Sound => up' = << >> /\ ~running
         /\ Sound /\ ~unanswered =>
              (Top = "phy" => radio # "wrong") /\ (Top = "freq" => radio = "right")
<1>1. /\ TypeOK /\ pc = "receive" /\ port = "open" /\ 1 \in DOMAIN up
      /\ Len(up) = 1 => up' = << >>
  BY ReceiveFacts
<1>2. 1 \in Fresh(up) /\ Top \in {"stop", "ping", "phy", "freq"}
  BY <1>1, StackFacts DEF Fresh, Phase, Calls
<1>3. /\ down = << >> /\ up[1].kind # "data" /\ up[1].mode = Offered
      /\ CommandOf(Top) = "stop" /\ up[1].kind = "ok" => 1 = Len(up) /\ ~running
  BY <1>1, <1>2 DEF IInv, AnswerInv
<1>4. up[1].kind = "ok"
  BY <1>3 DEF Verified
<1>5. Top = "stop" => Len(up) = 1 /\ ~running
  BY <1>3, <1>4 DEF CommandOf
<1>6. Sound => Len(up) = 1 /\ ~running
  BY <1>1, <1>2, <1>5 DEF IInv, ConfiguringInv, Configuring
<1>7. Sound /\ ~unanswered =>
        (Top = "phy" => radio # "wrong") /\ (Top = "freq" => radio = "right")
  BY <1>1, <1>2, <1>4 DEF IInv, ModeInv
<1>. QED  BY <1>1, <1>3, <1>4, <1>5, <1>6, <1>7

\* Where a command of init leads when it has been answered.
LEMMA InitLeadsTo ==
  ASSUME IInv, Receive, Phase(Top) = "init", Succeed(up[1])
  PROVE  /\ stack' \in Seq(Waiting) /\ Depth' \in Nat /\ Depth' >= 1 /\ Depth' <= Depth
         /\ Len(stack') = Depth'
         /\ DOMAIN stack' = 1 .. Depth'
         /\ pc' \in {"send", "pause", "done", "crashed"}
         /\ pc' = "send" => /\ Depth' = Depth /\ Top' = Following[Top]
                            /\ Top' \in {"ping", "phy", "freq", "start"}
                            /\ Top = "ping" => FwID' \in Found(up[1])
                            /\ Top = "phy" => FwID' = FwID
         /\ pc' = "pause" => Nested /\ Depth' = Depth - 1
         /\ pc' \in {"done", "crashed"} => Depth' = Depth /\ Top' = Top /\ FwID' = FwID
         /\ \A i \in DOMAIN stack' : /\ i \in DOMAIN stack
                                     /\ stack'[i] = stack[i] \/ (i = Depth /\ pc' = "send")
         /\ stack'[Depth'].call = Top' /\ stack'[Depth'].fwID = FwID'
         /\ state' \in {"WAITING", "STOPPED", "STARTED"} /\ isReady' \in BOOLEAN
         /\ Top # "stop" => state' = state
<1>1. TypeOK /\ Top \in {"stop", "ping", "phy", "freq"}
  BY StackFacts, ReceiveFacts DEF Phase, Calls
<1>2. /\ stack \in Seq(Waiting) /\ Depth \in Nat /\ Depth >= 1 /\ Len(stack) = Depth
      /\ DOMAIN stack = 1 .. Depth /\ (Nested <=> Depth # 1)
      /\ Top = stack[Depth].call /\ FwID = stack[Depth].fwID /\ FwID \in Modes
  BY <1>1, StackFacts DEF Depth
<1>3. /\ state \in {"WAITING", "STOPPED", "STARTED"} /\ isReady \in BOOLEAN
      /\ up[1].mode \in Modes
  BY <1>1, ReceiveFacts DEF TypeOK, ProgramTypeOK, FrameSet
<1>4. Found(up[1]) \subseteq Modes
  BY <1>3 DEF Found, Modes
<1>5. ASSUME NEW fwID \in Modes, Advance(fwID)
      PROVE  /\ stack' \in Seq(Waiting) /\ Depth' = Depth /\ Len(stack') = Depth
             /\ DOMAIN stack' = 1 .. Depth
             /\ pc' = "send" /\ Top' = Following[Top] /\ FwID' = fwID
             /\ Top' \in {"ping", "phy", "freq", "start"}
             /\ \A i \in DOMAIN stack' : i \in DOMAIN stack /\ (stack'[i] = stack[i] \/ i = Depth)
             /\ stack'[Depth'].call = Top' /\ stack'[Depth'].fwID = FwID'
  <2>1. Following[Top] \in {"ping", "phy", "freq", "start"}
    BY <1>1 DEF Following
  <2>2. /\ stack' \in Seq(Waiting) /\ Depth' = Depth /\ Top' = Following[Top] /\ FwID' = fwID
        /\ \A i \in DOMAIN stack : i \in DOMAIN stack' /\ (i # Depth => stack'[i] = stack[i])
        /\ \A i \in DOMAIN stack' : i \in DOMAIN stack
        /\ stack'[Depth].call = Following[Top] /\ stack'[Depth].fwID = fwID
        /\ pc' = IF Following[Top] = "stream" THEN "receive" ELSE "send"
    BY <1>1, <1>5, AdvanceFacts
  <2>3. Len(stack') = Depth
    BY <2>2 DEF Depth
  <2>. QED  BY <2>1, <2>2, <2>3
<1>6. ASSUME UNCHANGED stack
      PROVE  /\ stack' \in Seq(Waiting) /\ Depth' = Depth /\ Top' = Top /\ Len(stack') = Depth'
             /\ FwID' = FwID /\ DOMAIN stack' = 1 .. Depth'
             /\ \A i \in DOMAIN stack' : i \in DOMAIN stack /\ stack'[i] = stack[i]
             /\ stack'[Depth'].call = Top' /\ stack'[Depth'].fwID = FwID'
  <2>1. Depth' = Depth /\ Top' = Top /\ FwID' = FwID
    BY <1>6, SameStack
  <2>. QED  BY <1>2, <1>6, <2>1
<1>7. ASSUME Nested, stack' = Popped
      PROVE  /\ stack' \in Seq(Waiting) /\ Depth' = Depth - 1 /\ Depth' >= 1
             /\ Len(stack') = Depth' /\ DOMAIN stack' = 1 .. Depth'
             /\ \A i \in DOMAIN stack' : i \in DOMAIN stack /\ stack'[i] = stack[i]
             /\ stack'[Depth'].call = Top' /\ stack'[Depth'].fwID = FwID'
  <2>1. /\ stack' \in Seq(Waiting) /\ Depth' = Depth - 1 /\ Depth' >= 1
        /\ \A i \in DOMAIN stack' : i \in DOMAIN stack /\ stack'[i] = stack[i]
    BY <1>1, <1>7, ReturnFacts DEF Popped
  <2>2. Len(stack') = Depth' /\ stack'[Depth'].call = Top' /\ stack'[Depth'].fwID = FwID'
    BY DEF Depth, Top, FwID
  <2>. QED  BY <2>1, <2>2
<1>8. CASE Top \in {"stop", "phy", "freq"} /\ Proceed /\ state' = StateAfter /\ UNCHANGED isReady
  <2>. DEFINE f == IF Top = "freq" THEN "unknown" ELSE FwID
  <2>1. f \in Modes /\ Advance(f) /\ (Top # "freq" => f = FwID)
    BY <1>2, <1>8 DEF Proceed, Modes
  <2>. HIDE DEF f
  <2>2. state' \in {"WAITING", "STOPPED", "STARTED"} /\ (Top # "stop" => state' = state)
    BY <1>3, <1>8 DEF StateAfter
  <2>. QED  BY <1>2, <1>3, <1>5, <1>8, <2>1, <2>2
<1>9. CASE Top = "ping" /\ pc' = "crashed" /\ UNCHANGED <<stack, state, isReady>>
  BY <1>2, <1>3, <1>6, <1>9
<1>10. CASE /\ Top = "ping" /\ UNCHANGED <<state, isReady>>
            /\ \E fwID \in Found(up[1]) : Advance(fwID)
  <2>1. PICK fwID \in Found(up[1]) : Advance(fwID)
    BY <1>10
  <2>. QED  BY <1>2, <1>3, <1>4, <1>5, <1>10, <2>1
<1>11. CASE Top = "ping" /\ UNCHANGED <<state, isReady>> /\ Nested /\ stack' = Popped /\ pc' = "pause"
  BY <1>2, <1>3, <1>7, <1>11
<1>12. CASE Top = "ping" /\ UNCHANGED <<state, stack>> /\ pc' = "done" /\ isReady' = FALSE
  <2>1. isReady' \in BOOLEAN
    BY <1>12
  <2>. QED  BY <1>2, <1>3, <1>6, <1>12, <2>1
<1>. QED  BY <1>1, <1>8, <1>9, <1>10, <1>11, <1>12 DEF Succeed

\* What Succeed makes of the history.
LEMMA SucceedFacts ==
  ASSUME IInv, Receive, Succeed(up[1])
  PROVE  /\ UNCHANGED strayed /\ unanswered' \in BOOLEAN /\ (unanswered' => unanswered)
         /\ crossed' \in {"none", "other", "init"}
         /\ up[1].fresh => crossed' = crossed
         /\ crossed' = "none" => crossed = "none" /\ up[1].fresh
         /\ crossed # "init" /\ Phase(Top) # "init" => crossed' # "init"
         /\ Sound' => Sound
         /\ Faultless' => Faultless /\ up[1].fresh
         /\ Phase(Top) = "init" /\ (Sound' \/ crossed' = "none") => up[1].fresh /\ InTurn
         /\ Sound' /\ ~unanswered' => ~unanswered
<1>1. /\ TypeOK /\ UNCHANGED <<late, calm, faults>>
  BY ReceiveFacts
<1>2. /\ UNCHANGED strayed
      /\ crossed' = IF up[1].fresh \/ crossed = "init" THEN crossed
                    ELSE IF Phase(Top) = "init" THEN "init" ELSE "other"
      /\ unanswered' = (unanswered /\ crossed' # "init")
  BY DEF Succeed
<1>3. unanswered \in BOOLEAN /\ crossed \in {"none", "other", "init"}
  BY <1>1 DEF TypeOK, ProgramTypeOK
<1>4. /\ unanswered' \in BOOLEAN /\ (unanswered' => unanswered)
      /\ unanswered /\ crossed' # "init" => unanswered'
  BY <1>2, <1>3
<1>5. /\ crossed' \in {"none", "other", "init"}
      /\ up[1].fresh => crossed' = crossed
      /\ crossed' # "init" => crossed # "init"
      /\ crossed' = "none" => crossed = "none" /\ up[1].fresh
      /\ Phase(Top) = "init" /\ crossed' # "init" => up[1].fresh
      /\ crossed # "init" /\ Phase(Top) # "init" => crossed' # "init"
  BY <1>2, <1>3
<1>6. Sound' => Sound /\ (~unanswered' => ~unanswered)
  BY <1>1, <1>4, <1>5 DEF Sound
<1>7. Faultless' => Faultless /\ up[1].fresh
  BY <1>1, <1>5 DEF Faultless
<1>8. Phase(Top) = "init" /\ (Sound' \/ crossed' = "none") => up[1].fresh /\ InTurn
  BY <1>5, <1>6 DEF Sound, InTurn
<1>. QED  BY <1>2, <1>4, <1>5, <1>6, <1>7, <1>8

\* An answer, or a packet taken for one, to a command of init.
LEMMA InitStep ==
  ASSUME IInv, Receive, Phase(Top) = "init", Verified(up[1]), Succeed(up[1])
  PROVE  IInv'
<1>1. /\ TypeOK /\ DepthInv /\ pc = "receive" /\ port = "open" /\ up # << >>
      /\ UNCHANGED <<interruption, port, down, running, radio, calm, hangups, faults, late>>
      /\ 1 \in DOMAIN up /\ up[1] \in FrameSet
      /\ BoardTypeOK' /\ LineInv'
      /\ faults' = 0 => \A i \in DOMAIN up' : up'[i].kind \in {"ok", "data"}
  BY ReceiveFacts
<1>2. /\ stack' \in Seq(Waiting) /\ Depth' \in Nat /\ Depth' >= 1 /\ Depth' <= Depth
      /\ Len(stack') = Depth' /\ DOMAIN stack' = 1 .. Depth'
      /\ pc' \in {"send", "pause", "done", "crashed"}
      /\ pc' = "send" => /\ Depth' = Depth /\ Top' = Following[Top]
                         /\ Top' \in {"ping", "phy", "freq", "start"}
                         /\ Top = "ping" => FwID' \in Found(up[1])
                         /\ Top = "phy" => FwID' = FwID
      /\ pc' = "pause" => Nested /\ Depth' = Depth - 1
      /\ pc' \in {"done", "crashed"} => Top' = Top
      /\ state' \in {"WAITING", "STOPPED", "STARTED"} /\ isReady' \in BOOLEAN
      /\ Top # "stop" => state' = state
  BY InitLeadsTo
<1>3. /\ \A i \in DOMAIN stack' : /\ i \in DOMAIN stack
                                  /\ stack'[i] = stack[i] \/ (i = Depth /\ pc' = "send")
      /\ stack'[Depth'].call = Top' /\ stack'[Depth'].fwID = FwID'
  BY InitLeadsTo
<1>4. /\ Depth \in Nat /\ Depth >= 1 /\ Depth <= 1 + hangups /\ hangups \in Nat
      /\ (Nested <=> Depth # 1) /\ DOMAIN stack = 1 .. Depth
      /\ Top = stack[Depth].call /\ FwID = stack[Depth].fwID
      /\ Top \in {"stop", "ping", "phy", "freq"}
  BY <1>1, StackFacts DEF Phase, Calls
<1>5. /\ UNCHANGED strayed /\ unanswered' \in BOOLEAN /\ (unanswered' => unanswered)
      /\ crossed' \in {"none", "other", "init"}
      /\ up[1].fresh => crossed' = crossed
      /\ Sound' => Sound
      /\ Faultless' => Faultless /\ up[1].fresh
      /\ Sound' \/ crossed' = "none" => up[1].fresh /\ InTurn
      /\ Sound' /\ ~unanswered' => ~unanswered
  BY SucceedFacts
<1>6. up[1].fresh /\ InTurn => /\ down' = << >> /\ DOMAIN down' = {}
                               /\ up[1].kind = "ok" /\ up[1].mode = Offered
                               /\ Top = "stop" => ~running'
  <2>1. down = << >> => DOMAIN down = {}
    OBVIOUS
  <2>. QED  BY <1>1, <2>1, InitAnswered
<1>7. Sound /\ up[1].fresh =>
        /\ up' = << >> /\ DOMAIN up' = {} /\ ~running'
        /\ ~unanswered => (Top = "phy" => radio' # "wrong") /\ (Top = "freq" => radio' = "right")
  <2>1. Sound /\ up[1].fresh => up' = << >>
    BY InitAnswered DEF InTurn
  <2>2. up' = << >> => DOMAIN up' = {}
    OBVIOUS
  <2>. QED  BY <1>1, <2>1, <2>2, InitAnswered DEF InTurn
<1>8. TypeOK'
  <2>1. ProgramTypeOK'
    BY <1>1, <1>2, <1>4, <1>5 DEF TypeOK, ProgramTypeOK
  <2>. QED  BY <1>1, <2>1 DEF TypeOK
<1>9. DepthInv'
  <2>1. \A i \in 2 .. Depth' : stack'[i].call \in Commands
    <3>. SUFFICES ASSUME NEW i \in 2 .. Depth'
                  PROVE  stack'[i].call \in Commands
      OBVIOUS
    <3>1. i \in DOMAIN stack' /\ i \in 2 .. Depth /\ stack[i].call \in Commands
      BY <1>1, <1>2, <1>4 DEF DepthInv
    <3>2. CASE stack'[i] = stack[i]
      BY <3>1, <3>2
    <3>3. CASE i = Depth /\ pc' = "send"
      <4>1. Depth' = Depth /\ stack'[i].call = Top'
        BY <1>2, <1>3, <3>3
      <4>. QED  BY <1>2, <3>3, <4>1 DEF Commands
    <3>. QED  BY <1>3, <3>1, <3>2, <3>3
  <2>2. pc' \in {"lost", "pause"} => Depth' <= hangups'
    BY <1>1, <1>2, <1>4
  <2>. QED  BY <1>1, <1>2, <2>1, <2>2 DEF DepthInv
<1>10. CommandInv' /\ AnswerInv' /\ ConfiguringInv' /\ CapturesInMode'
  <2>1. CommandInv'
    <3>1. Sound' \/ Faultless' => DOMAIN down' = {}
      BY <1>5, <1>6 DEF Faultless
    <3>. QED  BY <3>1 DEF CommandInv
  <2>2. Sound' => down' = << >> /\ up' = << >> /\ ~running'
    BY <1>5, <1>6, <1>7
  <2>. QED  BY <1>2, <1>5, <2>1, <2>2 DEF IInv, AnswerInv, ConfiguringInv, CapturesInMode
<1>11. ModeInv'
  <2>. SUFFICES ASSUME Sound', ~unanswered'
                PROVE  ModeInv'
    BY DEF ModeInv
  <2>1. /\ ModeInv /\ Sound /\ ~unanswered /\ up[1].fresh /\ InTurn
        /\ ~running' /\ DOMAIN up' = {} /\ DOMAIN down' = {}
    BY <1>5, <1>6, <1>7 DEF IInv
  <2>2. \A i \in DOMAIN stack' :
          stack'[i].call \in {"phy", "freq"} => stack'[i].fwID = Offered
    <3>. SUFFICES ASSUME NEW i \in DOMAIN stack', stack'[i].call \in {"phy", "freq"}
                  PROVE  stack'[i].fwID = Offered
      OBVIOUS
    <3>1. CASE stack'[i] = stack[i]
      BY <1>3, <2>1, <3>1 DEF ModeInv
    <3>2. CASE i = Depth /\ pc' = "send"
      <4>1. stack'[i].call = Top' /\ stack'[i].fwID = FwID' /\ Top' = Following[Top]
        BY <1>2, <1>3, <3>2
      <4>2. Top \in {"ping", "phy"}
        BY <1>4, <4>1 DEF Following
      <4>3. CASE Top = "ping"
        BY <1>2, <1>6, <2>1, <3>2, <4>1, <4>3 DEF Found
      <4>4. CASE Top = "phy"
        BY <1>2, <1>4, <2>1, <3>2, <4>1, <4>4 DEF ModeInv
      <4>. QED  BY <4>2, <4>3, <4>4
    <3>. QED  BY <1>3, <3>1, <3>2
  <2>3. pc' = "send" => (Top' = "freq" => radio' # "wrong") /\ (Top' = "start" => radio' = "right")
    BY <1>2, <1>4, <1>7, <2>1 DEF Following
  <2>. QED  BY <1>2, <2>1, <2>2, <2>3 DEF ModeInv
<1>12. CalmInv'
  <2>. SUFFICES ASSUME calm'
                PROVE  CalmInv'
    BY DEF CalmInv
  <2>1. /\ calm /\ CalmInv /\ Depth = 1 /\ ~unanswered /\ up[1].fresh
        /\ crossed # "init" /\ ~late /\ Assembled
    <3>1. calm /\ CalmInv
      BY <1>1 DEF IInv
    <3>. QED  BY <1>1, <3>1 DEF CalmInv, Fresh
  <2>2. Sound /\ InTurn /\ crossed' # "init" /\ ~unanswered'
    BY <1>5, <2>1 DEF Sound, InTurn
  <2>3. up' = << >> /\ down' = << >> /\ ~running'
    BY <1>6, <1>7, <2>1, <2>2
  <2>4. Depth' = 1 /\ pc' \in {"send", "done", "crashed"}
    BY <1>2, <1>4, <2>1
  <2>5. pc' = "send" /\ Top' = "freq" => Assembled'
    <3>1. HAVE pc' = "send" /\ Top' = "freq"
    <3>2. Top = "phy" /\ FwID' = FwID
      BY <1>2, <1>4, <3>1 DEF Following
    <3>. QED  BY <2>1, <3>2 DEF Assembled
  <2>6. Top' # "stream"
    BY <1>2, <1>4, <2>4
  <2>. QED  BY <1>1, <2>1, <2>2, <2>3, <2>4, <2>5, <2>6 DEF CalmInv
<1>13. StopInv'
  <2>1. Faultless' => /\ Faultless /\ down' = << >>
                      /\ Top = "stop" => ~running'
    BY <1>5, <1>6 DEF Faultless
  <2>2. ~(Faultless' /\ state' = "STOPPED" /\ running' /\ port' = "open")
    <3>1. StopInv
      BY DEF IInv
    <3>. QED  BY <1>1, <1>2, <1>4, <2>1, <3>1 DEF StopInv
  <2>. QED  BY <1>1, <2>1, <2>2 DEF StopInv
<1>. QED  BY <1>1, <1>8, <1>9, <1>10, <1>11, <1>12, <1>13 DEF IInv

\* An answer, or a packet taken for one, to start: the stream begins, or the call
\* that lost the port waits for its response again.
LEMMA StartStep ==
  ASSUME IInv, Receive, Top = "start", Succeed(up[1])
  PROVE  IInv'
<1>1. /\ TypeOK /\ DepthInv /\ pc = "receive" /\ port = "open" /\ up # << >>
      /\ UNCHANGED <<interruption, port, down, running, radio, calm, hangups, faults, late>>
      /\ 1 \in DOMAIN up
      /\ \A i \in DOMAIN up' : i \in Nat /\ i >= 1 /\ i + 1 \in DOMAIN up /\ up'[i] = up[i + 1]
      /\ BoardTypeOK' /\ LineInv'
      /\ faults' = 0 => \A i \in DOMAIN up' : up'[i].kind \in {"ok", "data"}
  BY ReceiveFacts
<1>2. /\ Depth \in Nat /\ Depth >= 1 /\ Depth <= 1 + hangups /\ hangups \in Nat
      /\ (Nested <=> Depth # 1) /\ DOMAIN stack = 1 .. Depth /\ Top = stack[Depth].call
  BY <1>1, StackFacts
<1>3. /\ IF Nested THEN stack' = Return /\ pc' = "receive" ELSE Proceed
      /\ state' = "STARTED" /\ UNCHANGED <<isReady, strayed>>
      /\ unanswered' \in BOOLEAN /\ (unanswered' => unanswered)
      /\ crossed' \in {"none", "other", "init"}
      /\ crossed' = "none" => crossed = "none" /\ up[1].fresh
      /\ crossed # "init" => crossed' # "init"
      /\ Sound' => Sound
      /\ Sound' /\ ~unanswered' => ~unanswered
  BY SucceedFacts DEF Succeed, StateAfter, Phase
<1>4. /\ stack' \in Seq(Waiting) /\ Depth' \in Nat /\ Depth' >= 1 /\ Depth' <= Depth
      /\ pc' = "receive"
      /\ Len(stack') = Depth' /\ DOMAIN stack' = 1 .. Depth'
      /\ Top' = stack'[Depth'].call
      /\ \A i \in DOMAIN stack' : /\ i \in DOMAIN stack
                                  /\ \/ stack'[i] = stack[i]
                                     \/ /\ i = 1 /\ stack[i].call = "start"
                                        /\ stack'[i].call = "stream"
      /\ Depth = 1 => Top' = "stream"
  <2>1. CASE Nested
    <3>1. /\ stack' \in Seq(Waiting) /\ Depth' = Depth - 1 /\ Depth' >= 1
          /\ \A i \in DOMAIN stack' : i \in DOMAIN stack /\ stack'[i] = stack[i]
      BY <1>1, <1>3, <2>1, ReturnFacts
    <3>2. Len(stack') = Depth' /\ Top' = stack'[Depth'].call
      BY DEF Depth, Top
    <3>. QED  BY <1>2, <1>3, <2>1, <3>1, <3>2
  <2>2. CASE ~Nested
    <3>1. /\ stack' \in Seq(Waiting) /\ Depth' = Depth /\ Top' = "stream"
          /\ stack'[Depth].call = "stream" /\ pc' = "receive"
      BY <1>1, <1>3, <2>2, ProceedFacts DEF Following
    <3>2. Len(stack') = Depth' /\ Top' = stack'[Depth'].call
      BY DEF Depth, Top
    <3>. QED  BY <1>2, <2>2, <3>1, <3>2
  <2>. QED  BY <2>1, <2>2
<1>5. Sound => /\ down' = << >> /\ DOMAIN down' = {}
               /\ \A i \in DOMAIN up' : up'[i].kind \notin {"ok", "refused"} /\ i \notin Fresh(up')
  <2>. SUFFICES ASSUME Sound
                PROVE  /\ down' = << >> /\ DOMAIN down' = {}
                       /\ \A i \in DOMAIN up' :
                            up'[i].kind \notin {"ok", "refused"} /\ i \notin Fresh(up')
    OBVIOUS
  <2>1. /\ down = << >>
        /\ \A i \in DOMAIN up : up[i].kind \in {"ok", "refused"} => i \in Fresh(up)
        /\ \A i \in Fresh(up) : i = 1
    BY <1>1 DEF IInv, ConfiguringInv, Configuring
  <2>2. DOMAIN down' = {}
    BY <1>1, <2>1
  <2>. QED  BY <1>1, <2>1, <2>2 DEF Fresh
<1>6. crossed = "none" /\ up[1].fresh => down' = << >> /\ Fresh(up') = {}
  <2>. SUFFICES ASSUME crossed = "none", 1 \in Fresh(up)
                PROVE  down' = << >> /\ Fresh(up') = {}
    BY <1>1 DEF Fresh
  <2>1. down = << >> /\ \A j \in Fresh(up) : j = 1
    BY <1>1 DEF IInv, AnswerInv, InTurn
  <2>. QED  BY <1>1, <2>1 DEF Fresh
<1>7. InTurn' => down' = << >> /\ DOMAIN down' = {} /\ Fresh(up)' = {} /\ Fresh(down)' = {}
  <2>1. InTurn' => down' = << >> /\ Fresh(up)' = {}
    BY <1>3, <1>5, <1>6 DEF InTurn, Fresh
  <2>2. down' = << >> => DOMAIN down' = {} /\ Fresh(down)' = {}
    BY DEF Fresh
  <2>. QED  BY <2>1, <2>2
<1>8. TypeOK'
  <2>1. ProgramTypeOK'
    BY <1>1, <1>2, <1>3, <1>4 DEF TypeOK, ProgramTypeOK
  <2>. QED  BY <1>1, <2>1 DEF TypeOK
<1>9. DepthInv'
  <2>1. \A i \in 2 .. Depth' : stack'[i].call \in Commands
    BY <1>1, <1>2, <1>4 DEF DepthInv
  <2>. QED  BY <1>1, <1>4, <2>1 DEF DepthInv
<1>10. CommandInv' /\ AnswerInv' /\ ConfiguringInv' /\ CapturesInMode'
  <2>1. Sound' \/ Faultless' => InTurn'
    BY DEF InTurn, Faultless
  <2>2. CommandInv' /\ AnswerInv'
    BY <1>7, <2>1 DEF CommandInv, AnswerInv
  <2>3. ConfiguringInv'
    BY <1>3, <1>4, <1>5, <1>7, <2>1 DEF ConfiguringInv
  <2>. QED  BY <1>3, <2>2, <2>3 DEF IInv, CapturesInMode
<1>11. ModeInv'
  <2>. SUFFICES ASSUME Sound', ~unanswered'
                PROVE  ModeInv'
    BY DEF ModeInv
  <2>1. ModeInv /\ Sound /\ ~unanswered /\ InTurn'
    BY <1>3 DEF IInv, InTurn
  <2>2. \A i \in DOMAIN stack' : stack'[i].call \in {"phy", "freq"} => stack'[i].fwID = Offered
    BY <1>4, <2>1 DEF ModeInv
  <2>3. radio' = "right"
    BY <1>1, <2>1 DEF ModeInv
  <2>4. DOMAIN down' = {} /\ Fresh(up)' = {}
    BY <1>7, <2>1
  <2>5. stack'[1].call \in {"start", "stream"} =>
          \A i \in DOMAIN up' : up'[i].kind = "data" => up'[i].mode = "right"
    <3>1. stack'[1].call \in {"start", "stream"} => stack[1].call \in {"start", "stream"}
      BY <1>4
    <3>. QED  BY <1>1, <2>1, <3>1 DEF ModeInv
  <2>. QED  BY <2>2, <2>3, <2>4, <2>5 DEF ModeInv
<1>12. CalmInv'
  <2>. SUFFICES ASSUME calm'
                PROVE  CalmInv'
    BY DEF CalmInv
  <2>1. calm /\ CalmInv
    BY <1>1 DEF IInv
  <2>2. Sound /\ Depth = 1 /\ crossed' # "init" /\ (unanswered' => faults > 0)
    BY <1>3, <2>1 DEF CalmInv, Sound
  <2>3. Depth' = 1 /\ Top' = "stream"
    BY <1>4, <2>2
  <2>4. ~late
    BY <2>1 DEF CalmInv
  <2>. QED  BY <1>1, <1>4, <1>5, <2>2, <2>3, <2>4 DEF CalmInv, Phase
<1>13. StopInv'
  BY <1>1, <1>3, <1>4 DEF StopInv
<1>. QED  BY <1>1, <1>8, <1>9, <1>10, <1>11, <1>12, <1>13 DEF IInv

\* The answer, or a packet taken for it, to the stop after the stream.
LEMMA FinalStep ==
  ASSUME IInv, Receive, Top = "final", Verified(up[1]), Succeed(up[1])
  PROVE  IInv'
<1>1. /\ TypeOK /\ DepthInv /\ pc = "receive" /\ port = "open" /\ 1 \in DOMAIN up
      /\ UNCHANGED <<interruption, port, down, running, radio, calm, hangups, faults, late>>
      /\ \A i \in DOMAIN up' : i + 1 \in DOMAIN up /\ up'[i] = up[i + 1]
      /\ BoardTypeOK' /\ LineInv'
      /\ faults' = 0 => \A i \in DOMAIN up' : up'[i].kind \in {"ok", "data"}
  BY ReceiveFacts
<1>2. /\ pc' = "done" /\ state' = "STOPPED"
      /\ UNCHANGED <<stack, isReady, strayed>>
      /\ unanswered' \in BOOLEAN /\ (unanswered' => unanswered)
      /\ crossed' \in {"none", "other", "init"}
      /\ crossed # "init" => crossed' # "init"
      /\ Sound' => Sound
      /\ Faultless' => Faultless /\ up[1].fresh
      /\ Sound' /\ ~unanswered' => ~unanswered
  BY SucceedFacts DEF Succeed, StateAfter, Phase
<1>3. Depth' = Depth /\ Top' = Top
  BY <1>2, SameStack
<1>4. TypeOK'
  <2>1. ProgramTypeOK'
    BY <1>1, <1>2 DEF TypeOK, ProgramTypeOK
  <2>. QED  BY <1>1, <2>1 DEF TypeOK
<1>5. DepthInv' /\ AnswerInv' /\ ConfiguringInv' /\ CapturesInMode'
  BY <1>1, <1>2, <1>3 DEF IInv, DepthInv, AnswerInv, ConfiguringInv, CapturesInMode
<1>6. CommandInv'
  <2>1. \A i \in DOMAIN down : down[i].command \in Commands
    BY <1>1, CommandFacts
  <2>2. Sound \/ Faultless => \A i \in DOMAIN down : down[i].command = "stop"
    BY <1>1, <2>1 DEF IInv, CommandInv, Commands
  <2>. QED  BY <1>1, <1>2, <2>2 DEF CommandInv
<1>7. ModeInv'
  <2>. SUFFICES ASSUME Sound', ~unanswered'
                PROVE  ModeInv'
    BY DEF ModeInv
  <2>1. ModeInv /\ Sound /\ ~unanswered
    BY <1>2 DEF IInv
  <2>. QED  BY <1>1, <1>2, <1>3, <2>1 DEF ModeInv
<1>8. CalmInv'
  <2>. SUFFICES ASSUME calm'
                PROVE  CalmInv'
    BY DEF CalmInv
  <2>1. calm /\ CalmInv
    BY <1>1 DEF IInv
  <2>. QED  BY <1>1, <1>2, <1>3, <2>1 DEF CalmInv, Phase
<1>9. StopInv'
  <2>1. ASSUME Faultless'
        PROVE  ~running'
    <3>1. InTurn /\ 1 \in Fresh(up)
      BY <1>1, <1>2, <2>1 DEF Faultless, InTurn, Fresh
    <3>2. up[1].kind = "ok"
      BY <1>1, <3>1 DEF IInv, AnswerInv, Verified
    <3>. QED  BY <1>1, <3>1, <3>2 DEF IInv, AnswerInv, CommandOf
  <2>. QED  BY <1>1, <1>2, <2>1 DEF StopInv
<1>. QED  BY <1>1, <1>4, <1>5, <1>6, <1>7, <1>8, <1>9 DEF IInv

LEMMA ReceiveStep ==
  ASSUME IInv, Receive
  PROVE  IInv'
<1>1. Head(up) = up[1] /\ Top \in Calls
  BY ReceiveFacts, StackFacts
<1>2. CASE Top = "stream"
  BY <1>2, CaptureStep
<1>3. CASE Top # "stream" /\ ~Verified(up[1])
  <2>1. Fail(interruption)
    BY <1>1, <1>3 DEF Receive
  <2>. QED  BY <1>3, <2>1, RefusedStep
<1>4. CASE Top # "stream" /\ Verified(up[1])
  <2>1. Succeed(up[1])
    BY <1>1, <1>4 DEF Receive
  <2>2. Phase(Top) = "init" \/ Top \in {"start", "final"}
    BY <1>1, <1>4 DEF Phase, Calls
  <2>. QED  BY <1>4, <2>1, <2>2, InitStep, StartStep, FinalStep
<1>. QED  BY <1>2, <1>3, <1>4

----------------------------------------------------------------------------
\* The steps of the board and the cable

LEMMA InterruptStep ==
  ASSUME IInv, Interrupt
  PROVE  IInv'
<1>1. /\ interruption' = TRUE
      /\ UNCHANGED <<pc, stack, state, isReady, strayed, crossed, unanswered, running, radio,
                     port, down, up, calm, hangups, faults, late>>
  BY DEF Interrupt, board, line, history
<1>2. ProgramTypeOK' /\ BoardTypeOK'
  BY <1>1 DEF IInv, TypeOK, ProgramTypeOK, BoardTypeOK
<1>3. Depth' = Depth /\ Top' = Top /\ FwID' = FwID
  BY <1>1, SameStack
<1>4. DepthInv' /\ LineInv' /\ CapturesInMode'
  BY <1>1, <1>3 DEF IInv, DepthInv, LineInv, CapturesInMode
<1>5. Sound' = Sound /\ Faultless' = Faultless /\ Fresh(up)' = Fresh(up) /\ Fresh(down)' = Fresh(down)
  BY <1>1 DEF Sound, Faultless, Fresh
<1>6. AnswerInv' /\ ConfiguringInv'
  BY <1>1, <1>3, <1>5 DEF IInv, AnswerInv, InTurn, ConfiguringInv, Configuring
<1>7. ModeInv' /\ CommandInv'
  BY <1>1, <1>3, <1>5 DEF IInv, ModeInv, CommandInv
<1>8. CalmInv'
  BY <1>1, <1>3, <1>5 DEF IInv, CalmInv, Assembled
<1>9. StopInv'
  BY <1>1, <1>3, <1>5 DEF IInv, StopInv
<1>. QED  BY <1>2, <1>4, <1>6, <1>7, <1>8, <1>9 DEF IInv, TypeOK

\* What the board does leaves the program as it is, and the line open or empty.
LEMMA BoardFacts ==
  ASSUME IInv, Obey \/ Stream
  PROVE  /\ TypeOK /\ DepthInv' /\ CapturesInMode' /\ ProgramTypeOK'
         /\ port = "open"
         /\ UNCHANGED <<pc, stack, state, isReady, interruption, strayed, crossed, unanswered,
                        port, calm, hangups, late>>
         /\ Depth' = Depth /\ Top' = Top /\ FwID' = FwID
         /\ Sound' = Sound /\ InTurn' = InTurn /\ (faults' # 0 \/ faults' = faults)
         /\ (Faultless' => Faultless)
<1>1. UNCHANGED <<pc, stack, state, isReady, interruption, strayed, crossed, unanswered,
                  port, calm, hangups, late>>
  BY DEF Obey, Stream, program
<1>2. port = "open"
  BY DEF IInv, LineInv, Obey, Stream
<1>3. Depth' = Depth /\ Top' = Top /\ FwID' = FwID
  BY <1>1, SameStack
<1>4. ProgramTypeOK'
  BY <1>1 DEF IInv, TypeOK, ProgramTypeOK
<1>5. DepthInv' /\ CapturesInMode'
  BY <1>1, <1>3 DEF IInv, DepthInv, CapturesInMode
<1>6. Sound' = Sound /\ InTurn' = InTurn
  BY <1>1 DEF Sound, InTurn
<1>7. faults' # 0 \/ faults' = faults
  <2>1. faults \in 0 .. MaxFaults
    BY DEF IInv, TypeOK, BoardTypeOK
  <2>. QED  BY <2>1, BoundsAssumption DEF Obey, Stream, Fault
<1>8. Faultless' => Faultless
  BY <1>1, <1>7 DEF Faultless
<1>. QED  BY <1>1, <1>2, <1>3, <1>4, <1>5, <1>6, <1>7, <1>8 DEF IInv

\* What Obey takes from the line to the board, and puts on the line back.
LEMMA ObeyFacts ==
  ASSUME IInv, Obey
  PROVE  \E kind \in {"ok", "refused"} :
           /\ down # << >> /\ 1 \in DOMAIN down /\ down[1] \in Messages
           /\ down' \in Seq(Messages) /\ Len(down') = Len(down) - 1 /\ Len(down) \in Nat
           /\ \A i \in DOMAIN down' : i \in Nat /\ i + 1 \in DOMAIN down /\ down'[i] = down[i + 1]
           /\ Len(down) = 1 => down' = << >>
           /\ up' \in Seq(FrameSet) /\ Len(up') = Len(up) + 1 /\ Len(up) \in Nat
           /\ \A i \in DOMAIN up : i # Len(up') /\ i \in DOMAIN up' /\ up'[i] = up[i]
           /\ \A i \in DOMAIN up' : i \in DOMAIN up \/ i = Len(up')
           /\ Len(up') \in DOMAIN up'
           /\ up'[Len(up')].kind = kind /\ up'[Len(up')].to = down[1].command
           /\ up'[Len(up')].mode = Offered /\ up'[Len(up')].fresh = down[1].fresh
           /\ faults' \in 0 .. MaxFaults
           /\ \/ /\ kind = "ok" /\ UNCHANGED faults
                 /\ running' = (down[1].command = "start"
                                  \/ (running /\ down[1].command # "stop"))
                 /\ radio' = Tuned(down[1])
              \/ kind = "refused" /\ faults' # 0 /\ UNCHANGED <<running, radio>>
<1>1. PICK kind \in {"ok", "refused"} :
        /\ up' = Append(up, Answer(kind, Head(down).command, Head(down).fresh))
        /\ \/ /\ kind = "ok" /\ UNCHANGED faults
              /\ running' = (Head(down).command = "start"
                               \/ (running /\ Head(down).command # "stop"))
              /\ radio' = Tuned(Head(down))
           \/ kind = "refused" /\ Fault /\ UNCHANGED <<running, radio>>
  BY DEF Obey
<1>2. /\ down \in Seq(Messages) /\ up \in Seq(FrameSet) /\ down # << >> /\ down' = Tail(down)
      /\ faults \in 0 .. MaxFaults
  BY DEF IInv, TypeOK, BoardTypeOK, Obey
<1>3. /\ Head(down) = down[1] /\ 1 \in DOMAIN down /\ down[1] \in Messages
      /\ down' \in Seq(Messages) /\ Len(down') = Len(down) - 1
      /\ \A i \in DOMAIN down' : i + 1 \in DOMAIN down /\ down'[i] = down[i + 1]
      /\ Len(down) = 1 => down' = << >>
  BY <1>2, TailFacts
<1>4. Len(down) \in Nat /\ Len(up) \in Nat /\ \A i \in DOMAIN down' : i \in Nat
  BY <1>2, <1>3
<1>. DEFINE a == Answer(kind, down[1].command, down[1].fresh)
<1>5. /\ a \in FrameSet /\ a.kind = kind /\ a.to = down[1].command
      /\ a.mode = Offered /\ a.fresh = down[1].fresh
  BY <1>3, OfferedAssumption DEF Answer, FrameSet, Messages, FrameKinds, Modes
<1>6. up' = Append(up, a)
  BY <1>1, <1>3
<1>. HIDE DEF a
<1>7. /\ up' \in Seq(FrameSet) /\ Len(up') = Len(up) + 1 /\ up'[Len(up) + 1] = a
      /\ \A i \in DOMAIN up : i \in DOMAIN up' /\ up'[i] = up[i]
      /\ \A i \in DOMAIN up' : i \in DOMAIN up \/ i = Len(up) + 1
  BY <1>2, <1>5, <1>6, AppendFacts
<1>8. /\ \A i \in DOMAIN up : i # Len(up')
      /\ Len(up') \in DOMAIN up'
  BY <1>2, <1>7
<1>9. /\ faults' \in 0 .. MaxFaults
      /\ \/ /\ kind = "ok" /\ UNCHANGED faults
            /\ running' = (down[1].command = "start"
                             \/ (running /\ down[1].command # "stop"))
            /\ radio' = Tuned(down[1])
         \/ kind = "refused" /\ faults' # 0 /\ UNCHANGED <<running, radio>>
  <2>1. Fault => faults' \in 0 .. MaxFaults /\ faults' # 0
    BY <1>2, BoundsAssumption DEF Fault
  <2>. QED  BY <1>1, <1>2, <1>3, <2>1
<1>. QED  BY <1>2, <1>3, <1>4, <1>5, <1>7, <1>8, <1>9

\* A command is obeyed or refused.
LEMMA ObeyStep ==
  ASSUME IInv, Obey
  PROVE  IInv'
<1>1. /\ TypeOK /\ DepthInv' /\ CapturesInMode' /\ ProgramTypeOK' /\ port = "open"
      /\ UNCHANGED <<pc, stack, state, isReady, interruption, strayed, crossed, unanswered,
                     port, calm, hangups, late>>
      /\ Depth' = Depth /\ Top' = Top /\ FwID' = FwID /\ Sound' = Sound /\ InTurn' = InTurn
      /\ (faults' # 0 \/ faults' = faults) /\ (Faultless' => Faultless)
  BY BoardFacts
<1>. DEFINE m == down[1]
            n == Len(up')
<1>2. PICK kind \in {"ok", "refused"} :
        /\ down # << >> /\ 1 \in DOMAIN down /\ m \in Messages
        /\ down' \in Seq(Messages) /\ Len(down') = Len(down) - 1 /\ Len(down) \in Nat
        /\ \A i \in DOMAIN down' : i \in Nat /\ i + 1 \in DOMAIN down /\ down'[i] = down[i + 1]
        /\ Len(down) = 1 => down' = << >>
        /\ up' \in Seq(FrameSet) /\ n = Len(up) + 1 /\ Len(up) \in Nat
        /\ \A i \in DOMAIN up : i # n /\ i \in DOMAIN up' /\ up'[i] = up[i]
        /\ \A i \in DOMAIN up' : i \in DOMAIN up \/ i = n
        /\ n \in DOMAIN up'
        /\ up'[n].kind = kind /\ up'[n].to = m.command
        /\ up'[n].mode = Offered /\ up'[n].fresh = m.fresh
        /\ faults' \in 0 .. MaxFaults
        /\ \/ /\ kind = "ok" /\ UNCHANGED faults
              /\ running' = (m.command = "start" \/ (running /\ m.command # "stop"))
              /\ radio' = Tuned(m)
           \/ kind = "refused" /\ faults' # 0 /\ UNCHANGED <<running, radio>>
  BY ObeyFacts
<1>. HIDE DEF m, n
<1>3. m = down[1] /\ n = Len(up') /\ Fresh(up)' = Fresh(up') /\ Fresh(down)' = Fresh(down')
  BY DEF m, n, Fresh
<1>4. BoardTypeOK'
  <2>1. running' \in BOOLEAN /\ radio' \in {"wrong", "mode", "right"}
    BY <1>1, <1>2 DEF TypeOK, BoardTypeOK, Tuned
  <2>2. Len(down') <= MaxLine
    BY <1>1, <1>2, BoundsAssumption DEF TypeOK, BoardTypeOK
  <2>. QED  BY <1>1, <1>2, <2>1, <2>2 DEF TypeOK, BoardTypeOK
<1>5. LineInv'
  BY <1>1 DEF LineInv
<1>6. (Sound \/ Faultless) /\ m.command # "stop" =>
        pc = "receive" /\ Top = m.command /\ Configuring
  <2>1. m.command \in Commands
    BY <1>2 DEF Messages
  <2>. QED  BY <1>2, <1>3, <2>1 DEF IInv, CommandInv, Configuring, Commands
<1>7. InTurn /\ pc = "receive" /\ Top # "stream" =>
        /\ Fresh(up) = {} /\ (m.fresh => m.command = CommandOf(Top) /\ down' = << >>)
  BY <1>2, <1>3 DEF IInv, AnswerInv, Fresh
<1>8. AnswerInv'
  <2>. SUFFICES ASSUME InTurn, pc = "receive", Top # "stream"
                PROVE  AnswerInv'
    BY <1>1 DEF AnswerInv
  <2>1. \A i \in Fresh(up') : i = n /\ m.fresh
    BY <1>2, <1>7 DEF Fresh
  <2>2. \A i \in Fresh(down') : i = Len(down') /\ down'[i].command = CommandOf(Top)
    <3>. SUFFICES ASSUME NEW i \in Fresh(down')
                  PROVE  i = Len(down') /\ down'[i].command = CommandOf(Top)
      OBVIOUS
    <3>1. i \in Nat /\ i + 1 \in Fresh(down) /\ down'[i] = down[i + 1]
      BY <1>2 DEF Fresh
    <3>2. i + 1 = Len(down) /\ down[i + 1].command = CommandOf(Top)
      BY <3>1 DEF IInv, AnswerInv
    <3>. QED  BY <1>2, <3>1, <3>2
  <2>3. kind = "ok" /\ m.fresh /\ CommandOf(Top) = "stop" => ~running'
    BY <1>2, <1>7
  <2>4. \A i \in Fresh(up') :
          /\ down' = << >> /\ up'[i].to = CommandOf(Top)
          /\ up'[i].kind # "data" /\ up'[i].mode = Offered
          /\ \A j \in Fresh(up') : j = i
          /\ CommandOf(Top) = "stop" /\ up'[i].kind = "ok" => i = Len(up') /\ ~running'
    BY <1>2, <1>3, <1>7, <2>1, <2>3
  <2>. QED  BY <1>1, <1>3, <2>2, <2>4 DEF AnswerInv
<1>9. Sound /\ Configuring =>
        /\ pc # "send"
        /\ pc = "receive" => /\ down' = << >> /\ up = << >> /\ m.fresh /\ m.command = Top
                             /\ DOMAIN up = {} /\ n = 1 /\ ~running
  <2>. SUFFICES ASSUME Sound, Configuring
                PROVE  /\ pc # "send"
                       /\ pc = "receive" =>
                            /\ down' = << >> /\ up = << >> /\ m.fresh /\ m.command = Top
                            /\ DOMAIN up = {} /\ n = 1 /\ ~running
    OBVIOUS
  <2>1. pc # "send"
    BY <1>2 DEF IInv, ConfiguringInv
  <2>2. pc = "receive" => Len(down) = 1 /\ up = << >> /\ ~running /\ m.fresh
    BY <1>2, <1>3 DEF IInv, ConfiguringInv, Fresh
  <2>3. up = << >> => DOMAIN up = {} /\ Len(up) = 0
    OBVIOUS
  <2>. QED  BY <1>2, <1>7, <2>1, <2>2, <2>3 DEF CommandOf, Configuring, InTurn
<1>10. ConfiguringInv'
  <2>. SUFFICES ASSUME Sound, Configuring
                PROVE  ConfiguringInv'
    BY <1>1 DEF ConfiguringInv, Configuring
  <2>1. pc = "receive" =>
          /\ \A i \in DOMAIN up' : i = 1 /\ i \in Fresh(up') /\ Len(up') = 1
          /\ Top # "start" => ~running'
    BY <1>2, <1>3, <1>9 DEF Fresh
  <2>2. \A i \in Fresh(up') : i \in DOMAIN up'
    BY DEF Fresh
  <2>. QED  BY <1>1, <1>3, <1>9, <2>1, <2>2 DEF ConfiguringInv
<1>11. CommandInv'
  BY <1>1, <1>2 DEF IInv, CommandInv
<1>12. ModeInv'
  <2>. SUFFICES ASSUME Sound, ~unanswered
                PROVE  ModeInv'
    BY <1>1 DEF ModeInv
  <2>1. /\ ModeInv
        /\ m.command \in {"phy", "freq"} => m.mode = "right"
        /\ m.command = "start" => radio = "right"
    BY <1>2, <1>3 DEF IInv, ModeInv
  <2>2. \A i \in DOMAIN down' :
          /\ down'[i].command \in {"phy", "freq"} => down'[i].mode = "right"
          /\ down'[i].command # "start"
    <3>1. ASSUME NEW i \in DOMAIN down', down'[i].command = "start"
          PROVE  FALSE
      <4>1. pc = "receive" /\ Top = "start"
        BY <1>1, <1>11, <3>1 DEF CommandInv
      <4>2. down' = << >>
        BY <1>9, <4>1 DEF Configuring
      <4>. QED  BY <3>1, <4>2
    <3>. QED  BY <1>2, <2>1, <3>1 DEF ModeInv
  <2>3. pc \in {"send", "receive"} =>
          (Top = "freq" => radio' # "wrong") /\ (Top = "start" => radio' = "right")
    <3>. SUFFICES ASSUME pc \in {"send", "receive"}, Top \in {"freq", "start"}
                  PROVE  (Top = "freq" => radio' # "wrong") /\ (Top = "start" => radio' = "right")
      OBVIOUS
    <3>1. pc = "receive" /\ m.command = Top
      BY <1>9 DEF Configuring
    <3>2. (Top = "freq" => radio # "wrong") /\ (Top = "start" => radio = "right")
      BY <1>1, <2>1, <3>1 DEF ModeInv
    <3>. QED  BY <1>2, <2>1, <3>1, <3>2 DEF Tuned
  <2>4. pc = "receive" /\ Top \in {"phy", "freq"} =>
          \A i \in Fresh(up') : up'[i].kind = "ok" =>
            (Top = "phy" => radio' # "wrong") /\ (Top = "freq" => radio' = "right")
    <3>. SUFFICES ASSUME pc = "receive", Top \in {"phy", "freq"},
                         NEW i \in Fresh(up'), up'[i].kind = "ok"
                  PROVE  (Top = "phy" => radio' # "wrong") /\ (Top = "freq" => radio' = "right")
      OBVIOUS
    <3>1. m.command = Top /\ DOMAIN up = {}
      BY <1>9 DEF Configuring
    <3>2. i = n
      BY <1>2, <3>1 DEF Fresh
    <3>3. kind = "ok" /\ radio' = Tuned(m)
      BY <1>2, <3>2
    <3>4. Top = "freq" => radio # "wrong"
      BY <1>1, <2>1 DEF ModeInv
    <3>. QED  BY <2>1, <3>1, <3>3, <3>4 DEF Tuned
  <2>5. stack[1].call \in {"start", "stream"} /\ running' => radio' = "right"
    <3>. SUFFICES ASSUME stack[1].call \in {"start", "stream"}, running'
                  PROVE  radio' = "right"
      OBVIOUS
    <3>1. CASE m.command = "start"
      BY <1>2, <2>1, <3>1 DEF Tuned
    <3>2. CASE m.command # "start"
      <4>1. running /\ radio = "right"
        BY <1>2, <2>1, <3>2 DEF ModeInv
      <4>2. m.command \notin {"phy", "freq"}
        BY <1>6, <1>9, <4>1 DEF Configuring
      <4>. QED  BY <1>2, <4>1, <4>2 DEF Tuned
    <3>. QED  BY <3>1, <3>2
  <2>6. stack[1].call \in {"start", "stream"} =>
          \A i \in DOMAIN up' : up'[i].kind = "data" => up'[i].mode = "right"
    BY <1>2, <2>1 DEF ModeInv
  <2>. QED  BY <1>1, <1>3, <2>1, <2>2, <2>3, <2>4, <2>5, <2>6 DEF ModeInv
<1>13. CalmInv'
  <2>. SUFFICES ASSUME calm
                PROVE  CalmInv'
    BY <1>1 DEF CalmInv
  <2>1. /\ CalmInv /\ Sound /\ Depth = 1 /\ pc \notin {"lost", "pause"}
        /\ crossed # "init" /\ ~late
    BY DEF IInv, CalmInv, Sound
  <2>2. pc # "connect" /\ Top # "stream"
    BY <1>2, <2>1 DEF CalmInv
  <2>3. pc \in {"send", "receive"} /\ Phase(Top) = "init" =>
          /\ ~running /\ pc = "receive" /\ m.fresh /\ Assembled
          /\ Fresh(up) = DOMAIN up /\ Fresh(down) = DOMAIN down
    BY <1>2, <1>3, <2>1 DEF CalmInv, Fresh
  <2>4. pc = "receive" /\ Phase(Top) = "init" => ~running' /\ up' # << >>
    <3>1. pc = "receive" /\ Phase(Top) = "init" => m.command # "start"
      BY <1>6, <2>1 DEF Phase
    <3>2. up' # << >>
      BY <1>2
    <3>. QED  BY <1>2, <2>3, <3>1, <3>2
  <2>5. pc = "receive" /\ Phase(Top) = "init" =>
          Fresh(up') = DOMAIN up' /\ Fresh(down') = DOMAIN down'
    BY <1>2, <2>3 DEF Fresh
  <2>6. (unanswered => Phase(Top) # "init" /\ faults' > 0)
    BY <1>1, <1>2, <2>1 DEF CalmInv
  <2>7. Assembled' = Assembled
    BY <1>1 DEF Assembled
  <2>8. pc \in {"send", "receive"} /\ Top = "freq" => Assembled
    BY <2>1 DEF CalmInv
  <2>. QED  BY <1>1, <1>3, <2>1, <2>2, <2>3, <2>4, <2>5, <2>6, <2>7, <2>8 DEF CalmInv
<1>14. StopInv'
  <2>1. StopInv
    BY DEF IInv
  <2>2. faults' = 0 => \A i \in DOMAIN up' : up'[i].kind \in {"ok", "data"}
    BY <1>2, <2>1 DEF StopInv
  <2>3. Faultless' => Faultless /\ kind = "ok"
    BY <1>1, <1>2 DEF Faultless
  <2>4. Faultless' => pc \notin {"lost", "pause"}
    BY <1>2, <2>1, <2>3 DEF StopInv
  <2>5. ASSUME Faultless', state = "STOPPED", running'
        PROVE  pc = "receive" /\ Top = "start" /\ up' # << >>
    <3>1. up' # << >>
      BY <1>2
    <3>2. CASE m.command = "start"
      BY <1>6, <2>3, <2>5, <3>1, <3>2
    <3>3. CASE running /\ m.command # "stop"
      BY <1>1, <1>2, <1>3, <2>1, <2>3, <2>5, <3>1, <3>3 DEF StopInv
    <3>. QED  BY <1>2, <2>3, <2>5, <3>2, <3>3
  <2>. QED  BY <1>1, <2>2, <2>4, <2>5 DEF StopInv
<1>. QED  BY <1>1, <1>4, <1>5, <1>8, <1>10, <1>11, <1>12, <1>13, <1>14 DEF IInv, TypeOK

\* A packet or an error frame from a board that streams.
LEMMA StreamStep ==
  ASSUME IInv, Stream
  PROVE  IInv'
<1>1. /\ TypeOK /\ DepthInv' /\ CapturesInMode' /\ ProgramTypeOK' /\ port = "open"
      /\ UNCHANGED <<pc, stack, state, isReady, interruption, strayed, crossed, unanswered,
                     port, calm, hangups, late>>
      /\ Depth' = Depth /\ Top' = Top /\ FwID' = FwID /\ Sound' = Sound /\ InTurn' = InTurn
      /\ (faults' # 0 \/ faults' = faults) /\ (Faultless' => Faultless)
  BY BoardFacts
<1>2. running /\ UNCHANGED <<running, radio, down>>
  BY DEF Stream, board
<1>. DEFINE n == Len(up')
<1>3. /\ up' \in Seq(FrameSet)
      /\ \A i \in DOMAIN up : i \in DOMAIN up' /\ up'[i] = up[i]
      /\ \A i \in DOMAIN up' : i \in DOMAIN up \/ i = n
      /\ ~up'[n].fresh /\ up'[n].mode = Frame("data").mode /\ up'[n].kind \in {"data", "error"}
      /\ faults' \in 0 .. MaxFaults
      /\ faults' = 0 => faults = 0 /\ up'[n].kind = "data"
  <2>1. PICK kind \in {"data", "error"} :
          up' = Append(up, Frame(kind)) /\ (IF kind = "data" THEN UNCHANGED faults ELSE Fault)
    BY DEF Stream
  <2>. DEFINE f == Frame(kind)
  <2>2. f \in FrameSet /\ f.kind = kind /\ ~f.fresh /\ f.mode = Frame("data").mode
    BY DEF Frame, FrameSet, FrameKinds, Modes
  <2>. HIDE DEF f
  <2>3. up \in Seq(FrameSet) /\ faults \in 0 .. MaxFaults /\ up' = Append(up, f)
    BY <1>1, <2>1 DEF TypeOK, BoardTypeOK, f
  <2>4. /\ up' \in Seq(FrameSet) /\ Len(up') = Len(up) + 1 /\ up'[Len(up) + 1] = f
        /\ \A i \in DOMAIN up : i \in DOMAIN up' /\ up'[i] = up[i]
        /\ \A i \in DOMAIN up' : i \in DOMAIN up \/ i = Len(up) + 1
    BY <2>2, <2>3, AppendFacts
  <2>5. faults' \in 0 .. MaxFaults /\ (faults' = 0 => faults = 0 /\ kind = "data")
    BY <2>1, <2>3, BoundsAssumption DEF Fault
  <2>. QED  BY <2>1, <2>2, <2>4, <2>5
<1>. HIDE DEF n
<1>4. Fresh(up)' = Fresh(up) /\ Fresh(down)' = Fresh(down)
  <2>1. \A i \in DOMAIN up' : up'[i].fresh => i \in DOMAIN up /\ up[i].fresh
    BY <1>3
  <2>2. \A i \in DOMAIN up : up[i].fresh => i \in DOMAIN up' /\ up'[i].fresh
    BY <1>3
  <2>. QED  BY <1>2, <2>1, <2>2 DEF Fresh
<1>5. \A i \in Fresh(up) : i \in DOMAIN up /\ up'[i] = up[i]
  BY <1>3 DEF Fresh
<1>6. BoardTypeOK' /\ LineInv'
  BY <1>1, <1>2, <1>3 DEF TypeOK, BoardTypeOK, LineInv
<1>7. AnswerInv'
  <2>. SUFFICES ASSUME InTurn, pc = "receive", Top # "stream"
                PROVE  AnswerInv'
    BY <1>1 DEF AnswerInv
  <2>1. \A i \in Fresh(up) : ~(CommandOf(Top) = "stop" /\ up[i].kind = "ok")
    BY <1>2 DEF IInv, AnswerInv
  <2>. QED  BY <1>1, <1>2, <1>4, <1>5, <2>1 DEF IInv, AnswerInv
<1>8. ConfiguringInv'
  <2>. SUFFICES ASSUME Sound, Configuring
                PROVE  ConfiguringInv'
    BY <1>1 DEF ConfiguringInv, Configuring
  <2>1. /\ pc # "send"
        /\ pc = "receive" =>
             /\ down = << >>
             /\ \A i \in DOMAIN up : up[i].kind \in {"ok", "refused"} => i \in Fresh(up)
             /\ \A i \in Fresh(up) : i = 1 /\ Top = "start"
    BY <1>2 DEF IInv, ConfiguringInv
  <2>2. pc = "receive" =>
          \A i \in DOMAIN up' : up'[i].kind \in {"ok", "refused"} => i \in Fresh(up)
    BY <1>3, <2>1
  <2>. QED  BY <1>1, <1>2, <1>4, <2>1, <2>2 DEF ConfiguringInv
<1>9. ModeInv' /\ CommandInv'
  <2>1. ModeInv /\ CommandInv
    BY DEF IInv
  <2>2. CommandInv'
    BY <1>1, <1>2, <2>1 DEF CommandInv
  <2>. SUFFICES ASSUME Sound, ~unanswered
                PROVE  ModeInv'
    BY <1>1, <2>2 DEF ModeInv
  <2>3. stack[1].call \in {"start", "stream"} =>
          \A i \in DOMAIN up' : up'[i].kind = "data" => up'[i].mode = "right"
    BY <1>2, <1>3, <2>1 DEF ModeInv, Frame
  <2>4. pc = "receive" =>
          \A i \in Fresh(up) : up'[i].kind = "ok" =>
            (Top = "phy" => radio # "wrong") /\ (Top = "freq" => radio = "right")
    BY <1>5, <2>1 DEF ModeInv
  <2>. QED  BY <1>1, <1>2, <1>4, <2>1, <2>3, <2>4 DEF ModeInv
<1>10. CalmInv'
  <2>. SUFFICES ASSUME calm
                PROVE  CalmInv'
    BY <1>1 DEF CalmInv
  <2>1. /\ CalmInv /\ Depth = 1 /\ pc \notin {"lost", "pause"}
        /\ crossed # "init" /\ ~late
    BY DEF IInv, CalmInv
  <2>2. pc # "connect"
    BY <1>1 DEF IInv, DepthInv
  <2>3. ~(pc \in {"send", "receive"} /\ Phase(Top) = "init")
    BY <1>2, <2>1 DEF CalmInv
  <2>4. Top = "stream" => down = << >> /\ \A i \in DOMAIN up' : up'[i].kind # "ok"
    BY <1>3, <2>1 DEF CalmInv
  <2>5. unanswered => Phase(Top) # "init" /\ faults' > 0
    BY <1>1, <1>3, <2>1 DEF CalmInv
  <2>6. Top = "freq" => Phase(Top) = "init"
    BY DEF Phase
  <2>. QED  BY <1>1, <1>2, <2>1, <2>2, <2>3, <2>4, <2>5, <2>6 DEF CalmInv
<1>11. StopInv'
  <2>1. StopInv
    BY DEF IInv
  <2>2. faults' = 0 => \A i \in DOMAIN up' : up'[i].kind \in {"ok", "data"}
    BY <1>3, <2>1 DEF StopInv
  <2>3. Faultless' => Faultless
    BY <1>1, <1>3 DEF Faultless
  <2>4. up # << >> => up' # << >>
    <3>1. HAVE up # << >>
    <3>2. up \in Seq(FrameSet)
      BY <1>1 DEF TypeOK, BoardTypeOK
    <3>3. 1 \in DOMAIN up
      BY <3>1, <3>2, TailFacts
    <3>. QED  BY <1>3, <3>3
  <2>. QED  BY <1>1, <1>2, <2>1, <2>2, <2>3, <2>4 DEF StopInv
<1>. QED  BY <1>1, <1>6, <1>7, <1>8, <1>9, <1>10, <1>11 DEF IInv, TypeOK

\* The first message on the way to the host, or to the board, is lost.
LEMMA LoseStep ==
  ASSUME IInv, Lose
  PROVE  IInv'
<1>1. /\ UNCHANGED <<pc, stack, state, isReady, interruption, strayed, crossed, unanswered,
                     running, radio, port, calm, hangups, late>>
      /\ Fault
  BY DEF Lose, program, board
<1>2. Depth' = Depth /\ Top' = Top /\ FwID' = FwID /\ Sound' = Sound /\ InTurn' = InTurn
  BY <1>1, SameStack DEF Sound, InTurn
<1>3. TypeOK /\ faults \in 0 .. MaxFaults /\ up \in Seq(FrameSet) /\ down \in Seq(Messages)
  BY DEF IInv, TypeOK, BoardTypeOK
<1>4. faults' \in 0 .. MaxFaults /\ faults' # 0
  BY <1>1, <1>3, BoundsAssumption DEF Fault
<1>5. PICK k \in {0, 1}, l \in {0, 1} :
        /\ k = 0 => up' = up
        /\ l = 0 => down' = down
        /\ up' \in Seq(FrameSet) /\ Len(up') = Len(up) - k
        /\ \A i \in DOMAIN up' : i \in Nat /\ i >= 1 /\ i + k \in DOMAIN up /\ up'[i] = up[i + k]
        /\ down' \in Seq(Messages) /\ Len(down') = Len(down) - l
        /\ \A i \in DOMAIN down' :
             i \in Nat /\ i >= 1 /\ i + l \in DOMAIN down /\ down'[i] = down[i + l]
        /\ k = 1 => up # << >>
        /\ l = 1 => down # << >>
        /\ up = << >> => up' = << >>
        /\ down = << >> => down' = << >>
        /\ k # l
  <2>1. CASE up # << >> /\ up' = Tail(up) /\ UNCHANGED down
    BY <1>3, <2>1, TailFacts
  <2>2. CASE down # << >> /\ down' = Tail(down) /\ UNCHANGED up
    BY <1>3, <2>2, TailFacts
  <2>. QED  BY <2>1, <2>2 DEF Lose
<1>6. Len(up) \in Nat /\ Len(down) \in Nat /\ Len(up') \in Nat /\ Len(down') \in Nat
  BY <1>3, <1>5
<1>7. /\ Fresh(up)' = { i \in DOMAIN up' : i + k \in Fresh(up) }
      /\ Fresh(down)' = { i \in DOMAIN down' : i + l \in Fresh(down) }
  BY <1>5 DEF Fresh
<1>8. ProgramTypeOK' /\ DepthInv' /\ CapturesInMode'
  BY <1>1, <1>2, <1>3 DEF IInv, TypeOK, ProgramTypeOK, DepthInv, CapturesInMode
<1>9. BoardTypeOK'
  <2>1. Len(down') <= MaxLine
    BY <1>3, <1>5, <1>6, BoundsAssumption DEF TypeOK, BoardTypeOK
  <2>. QED  BY <1>1, <1>3, <1>4, <1>5, <2>1 DEF TypeOK, BoardTypeOK
<1>10. LineInv'
  BY <1>1, <1>5 DEF IInv, LineInv
<1>11. AnswerInv'
  <2>. SUFFICES ASSUME InTurn, pc = "receive", Top # "stream"
                PROVE  AnswerInv'
    BY <1>1, <1>2 DEF AnswerInv
  <2>1. \A i \in Fresh(down)' : i = Len(down') /\ down'[i].command = CommandOf(Top)
    <3>. SUFFICES ASSUME NEW i \in Fresh(down)'
                  PROVE  i = Len(down') /\ down'[i].command = CommandOf(Top)
      OBVIOUS
    <3>1. i + l = Len(down) /\ down[i + l].command = CommandOf(Top)
      BY <1>7 DEF IInv, AnswerInv
    <3>. QED  BY <1>5, <1>6, <1>7, <3>1
  <2>2. ASSUME NEW i \in Fresh(up)'
        PROVE  /\ down' = << >> /\ up'[i].to = CommandOf(Top)
               /\ up'[i].kind # "data" /\ up'[i].mode = Offered
               /\ \A j \in Fresh(up)' : j = i
               /\ CommandOf(Top) = "stop" /\ up'[i].kind = "ok" => i = Len(up') /\ ~running'
    <3>1. i \in DOMAIN up' /\ i + k \in Fresh(up) /\ i \in Nat /\ up'[i] = up[i + k]
      BY <1>5, <1>7
    <3>2. /\ down = << >> /\ up[i + k].to = CommandOf(Top)
          /\ up[i + k].kind # "data" /\ up[i + k].mode = Offered
          /\ \A j \in Fresh(up) : j = i + k
          /\ CommandOf(Top) = "stop" /\ up[i + k].kind = "ok" => i + k = Len(up) /\ ~running
      BY <3>1 DEF IInv, AnswerInv
    <3>3. \A j \in Fresh(up)' : j = i
      <4>1. ASSUME NEW j \in Fresh(up)'
            PROVE  j = i
        <5>1. j + k = i + k /\ j \in Nat
          BY <1>5, <1>7, <3>2
        <5>. QED  BY <1>5, <3>1, <5>1
      <4>. QED  BY <4>1
    <3>. QED  BY <1>1, <1>5, <1>6, <3>1, <3>2, <3>3
  <2>. QED  BY <1>1, <1>2, <2>1, <2>2 DEF AnswerInv
<1>12. ConfiguringInv'
  <2>. SUFFICES ASSUME Sound, Configuring
                PROVE  ConfiguringInv'
    BY <1>1, <1>2 DEF ConfiguringInv, Configuring
  <2>1. pc = "send" => down' = << >> /\ up' = << >> /\ ~running'
    BY <1>1, <1>5 DEF IInv, ConfiguringInv
  <2>2. ASSUME pc = "receive"
        PROVE  /\ down' # << >> => /\ Len(down') = 1 /\ up' = << >> /\ ~running'
                                   /\ 1 \in Fresh(down)'
               /\ \A i \in DOMAIN up' : up'[i].kind \in {"ok", "refused"} => i \in Fresh(up)'
               /\ \A i \in Fresh(up)' : i = 1 /\ (Top # "start" => Len(up') = 1 /\ ~running')
    <3>1. /\ down # << >> => Len(down) = 1 /\ up = << >> /\ ~running /\ 1 \in Fresh(down)
          /\ \A i \in DOMAIN up : up[i].kind \in {"ok", "refused"} => i \in Fresh(up)
          /\ \A i \in Fresh(up) : i = 1 /\ (Top # "start" => Len(up) = 1 /\ ~running)
      BY <2>2 DEF IInv, ConfiguringInv
    <3>2. l = 1 => down' = << >>
      <4>1. HAVE l = 1
      <4>2. Len(down') = 0
        <5>1. down # << >> /\ Len(down') = Len(down) - l
          BY <1>5, <4>1
        <5>. QED  BY <3>1, <4>1, <5>1
      <4>. QED  BY <1>5, <4>2, EmptySeq
    <3>3. down' # << >> => l = 0 /\ down' = down /\ down # << >>
      BY <1>5, <3>2
    <3>4. down' # << >> => /\ Len(down') = 1 /\ up' = << >> /\ ~running'
                           /\ 1 \in Fresh(down)'
      BY <1>1, <1>5, <3>1, <3>3 DEF Fresh
    <3>5. \A i \in DOMAIN up' : up'[i].kind \in {"ok", "refused"} => i \in Fresh(up)'
      BY <1>5, <1>7, <3>1
    <3>6. \A i \in Fresh(up)' : i + k = 1 /\ i \in Nat /\ i >= 1
      BY <1>5, <1>7, <3>1
    <3>7. \A i \in Fresh(up)' : i = 1 /\ k = 0
      BY <3>6
    <3>8. \A i \in Fresh(up)' : Top # "start" => Len(up') = 1 /\ ~running'
      BY <1>1, <1>5, <1>7, <3>1, <3>7
    <3>. QED  BY <3>4, <3>5, <3>7, <3>8
  <2>. QED  BY <1>1, <1>2, <2>1, <2>2 DEF ConfiguringInv
<1>13. ModeInv' /\ CommandInv'
  <2>1. ModeInv /\ CommandInv
    BY DEF IInv
  <2>2. CommandInv'
    BY <1>1, <1>2, <1>4, <1>5, <2>1 DEF CommandInv, Faultless
  <2>. SUFFICES ASSUME Sound, ~unanswered
                PROVE  ModeInv'
    BY <1>1, <1>2, <2>2 DEF ModeInv
  <2>3. \A i \in DOMAIN down' :
         /\ down'[i].command \in {"phy", "freq"} => down'[i].mode = "right"
         /\ down'[i].command = "start" => radio = "right"
    BY <1>5, <2>1 DEF ModeInv
  <2>4. pc = "receive" =>
          \A i \in Fresh(up)' : up'[i].kind = "ok" =>
            (Top = "phy" => radio # "wrong") /\ (Top = "freq" => radio = "right")
    BY <1>5, <1>7, <2>1 DEF ModeInv
  <2>5. stack[1].call \in {"start", "stream"} =>
          \A i \in DOMAIN up' : up'[i].kind = "data" => up'[i].mode = "right"
    BY <1>5, <2>1 DEF ModeInv
  <2>. QED  BY <1>1, <1>2, <2>1, <2>3, <2>4, <2>5 DEF ModeInv
<1>14. CalmInv'
  <2>. SUFFICES ASSUME calm
                PROVE  CalmInv'
    BY <1>1 DEF CalmInv
  <2>1. /\ CalmInv /\ Depth = 1 /\ port # "hung" /\ pc \notin {"lost", "pause"}
        /\ crossed # "init" /\ ~late /\ faults' > 0
    BY <1>4, BoundsAssumption DEF IInv, CalmInv
  <2>2. pc = "connect" => up' = << >> /\ down' = << >>
    BY <1>5, <2>1 DEF CalmInv
  <2>3. pc \in {"connect", "send", "receive"} /\ Phase(Top) = "init" =>
          /\ ~running
          /\ pc = "send" => up' = << >> /\ down' = << >>
          /\ pc = "receive" => Fresh(up) = DOMAIN up /\ Fresh(down) = DOMAIN down
          /\ pc = "receive" /\ ~Assembled => up' = << >> /\ down' = << >>
    BY <1>5, <2>1 DEF CalmInv
  <2>4. /\ Fresh(up) = DOMAIN up => Fresh(up)' = DOMAIN up'
        /\ Fresh(down) = DOMAIN down => Fresh(down)' = DOMAIN down'
    BY <1>5, <1>7
  <2>5. Top = "stream" => down' = << >> /\ \A i \in DOMAIN up' : up'[i].kind # "ok"
    BY <1>5, <2>1 DEF CalmInv
  <2>6. Assembled' = Assembled
    BY <1>2 DEF Assembled
  <2>7. /\ pc \in {"send", "receive"} => port = "open"
        /\ unanswered => Phase(Top) # "init"
        /\ pc \in {"send", "receive"} /\ Top = "freq" => Assembled
    BY <2>1 DEF CalmInv
  <2>. QED  BY <1>1, <1>2, <1>4, <2>1, <2>2, <2>3, <2>4, <2>5, <2>6, <2>7 DEF CalmInv
<1>15. StopInv'
  BY <1>4 DEF StopInv, Faultless
<1>. QED  BY <1>8, <1>9, <1>10, <1>11, <1>12, <1>13, <1>14, <1>15 DEF IInv, TypeOK

\* The cable is pulled.
LEMMA UnplugStep ==
  ASSUME IInv, Unplug
  PROVE  IInv'
<1>1. /\ UNCHANGED <<pc, stack, state, isReady, interruption, strayed, crossed, unanswered,
                     faults, late>>
      /\ port = "open" /\ hangups < MaxHangups /\ hangups' = hangups + 1 /\ calm' = FALSE
      /\ port' = "hung" /\ up' = << >> /\ down' = << >>
      /\ (running' = FALSE /\ radio' = "wrong") \/ UNCHANGED <<running, radio>>
  BY DEF Unplug, program
<1>2. /\ Depth' = Depth /\ Top' = Top /\ (Sound' => Sound)
      /\ InTurn' => InTurn
  BY <1>1, SameStack DEF Sound, InTurn
<1>3. /\ TypeOK /\ Depth \in Nat /\ Depth >= 1 /\ Depth <= 1 + hangups /\ hangups \in Nat
      /\ hangups' \in Nat
  BY <1>1, StackFacts DEF IInv
<1>4. DOMAIN up' = {} /\ DOMAIN down' = {} /\ Fresh(up)' = {} /\ Fresh(down)' = {}
  BY <1>1 DEF Fresh
<1>5. TypeOK'
  <2>1. hangups' \in 0 .. MaxHangups /\ Len(stack') <= 1 + hangups'
    BY <1>1, <1>3, BoundsAssumption DEF TypeOK, BoardTypeOK, Depth
  <2>2. ProgramTypeOK'
    BY <1>1, <1>3, <2>1 DEF TypeOK, ProgramTypeOK
  <2>3. << >> \in Seq(FrameSet) /\ << >> \in Seq(Messages) /\ Len(<< >>) <= MaxLine
    BY EmptySeq, BoundsAssumption
  <2>4. BoardTypeOK'
    BY <1>1, <1>3, <2>1, <2>3 DEF TypeOK, BoardTypeOK, Modes
  <2>. QED  BY <2>2, <2>4 DEF TypeOK
<1>6. DepthInv'
  BY <1>1, <1>2, <1>3 DEF IInv, DepthInv
<1>7. LineInv' /\ CommandInv' /\ AnswerInv' /\ CapturesInMode' /\ CalmInv' /\ StopInv'
  BY <1>1, <1>4 DEF IInv, LineInv, CommandInv, AnswerInv, CapturesInMode, CalmInv, StopInv
<1>8. ConfiguringInv'
  BY <1>1, <1>2, <1>4 DEF IInv, ConfiguringInv, Configuring
<1>9. ModeInv'
  <2>. SUFFICES ASSUME Sound', ~unanswered'
                PROVE  ModeInv'
    BY DEF ModeInv
  <2>1. ModeInv /\ Sound /\ ~unanswered
    BY <1>1, <1>2 DEF IInv
  <2>. QED  BY <1>1, <1>2, <1>4, <2>1 DEF ModeInv
<1>. QED  BY <1>5, <1>6, <1>7, <1>8, <1>9 DEF IInv

----------------------------------------------------------------------------
\* The invariant

\* A device that has not been opened yet.
LEMMA InitInv ==
  ASSUME Init
  PROVE  IInv
<1>. DEFINE w == [call |-> "stop", fwID |-> "unknown"]
<1>1. /\ << >> \in Seq(FrameSet) /\ << >> \in Seq(Messages) /\ Len(<< >>) <= MaxLine
      /\ w \in Waiting /\ w.call = "stop" /\ stack = <<w>>
  BY EmptySeq, BoundsAssumption DEF Init, Waiting, Calls, Modes
<1>. HIDE DEF w
<1>2. Depth = 1 /\ Top = "stop"
  BY <1>1 DEF Depth, Top
<1>3. ProgramTypeOK
  <2>1. stack \in Seq(Waiting) /\ Len(stack) = 1 /\ hangups = 0
    BY <1>1 DEF Init
  <2>2. /\ pc = "connect" /\ state = "WAITING" /\ isReady = FALSE
        /\ interruption = FALSE /\ unanswered = FALSE
        /\ strayed = FALSE /\ crossed = "none"
    BY DEF Init
  <2>3. Len(stack) >= 1 /\ Len(stack) <= 1 + hangups
    BY <2>1
  <2>. QED  BY <2>1, <2>2, <2>3 DEF ProgramTypeOK
<1>4. BoardTypeOK
  <2>1. running \in BOOLEAN /\ calm \in BOOLEAN
    BY DEF Init
  <2>2. hangups \in 0 .. MaxHangups /\ faults \in 0 .. MaxFaults
    BY BoundsAssumption DEF Init
  <2>. QED  BY <1>1, <2>1, <2>2 DEF Init, BoardTypeOK
<1>5. DOMAIN up = {} /\ DOMAIN down = {} /\ DOMAIN stack = {1} /\ stack[1].call = "stop"
  BY <1>1 DEF Init
<1>6. /\ DepthInv /\ LineInv /\ CommandInv /\ AnswerInv /\ ConfiguringInv
      /\ CapturesInMode
  BY <1>2, <1>5
  DEF Init, DepthInv, LineInv, CommandInv, AnswerInv, ConfiguringInv, CapturesInMode
<1>7. ModeInv
  BY <1>2, <1>5 DEF Init, ModeInv
<1>8. CalmInv
  BY <1>2 DEF Init, CalmInv, Phase
<1>9. StopInv
  BY <1>5 DEF Init, StopInv
<1>. QED  BY <1>3, <1>4, <1>6, <1>7, <1>8, <1>9 DEF IInv, TypeOK

\* A step that changes nothing.
LEMMA StutterStep ==
  ASSUME IInv, UNCHANGED vars
  PROVE  IInv'
<1>1. UNCHANGED <<pc, stack, state, isReady, interruption, strayed, crossed, unanswered,
                  running, radio, port, down, up, calm, hangups, faults, late>>
  BY DEF vars, program, board, line, history
<1>2. Depth' = Depth /\ Top' = Top /\ FwID' = FwID
  BY <1>1, SameStack
<1>3. Sound' = Sound /\ Faultless' = Faultless /\ Fresh(up)' = Fresh(up) /\ Fresh(down)' = Fresh(down)
  BY <1>1 DEF Sound, Faultless, Fresh
<1>4. TypeOK' /\ DepthInv' /\ LineInv' /\ CapturesInMode'
  BY <1>1, <1>2
  DEF IInv, TypeOK, ProgramTypeOK, BoardTypeOK, DepthInv, LineInv, CapturesInMode
<1>5. AnswerInv' /\ ConfiguringInv'
  BY <1>1, <1>2, <1>3 DEF IInv, InTurn, AnswerInv, ConfiguringInv, Configuring
<1>6. ModeInv' /\ CommandInv' /\ CalmInv'
  BY <1>1, <1>2, <1>3 DEF IInv, ModeInv, CommandInv, CalmInv, Assembled
<1>7. StopInv'
  BY <1>1, <1>2, <1>3 DEF IInv, StopInv
<1>. QED  BY <1>4, <1>5, <1>6, <1>7 DEF IInv

\* The inductive invariant of a device and its board.
THEOREM LinkInvariance == Spec => []IInv
<1>1. Init => IInv
  BY InitInv
<1>2. IInv /\ [Next]_vars => IInv'
  BY ConnectStep, AttemptStep, PauseStep, SendStep, ReceiveStep, TimeoutStep, HangUpStep,
     InterruptStep, ObeyStep, StreamStep, LoseStep, UnplugStep, StutterStep
  DEF Next, Thread, Environment, Finished
<1>. QED  BY <1>1, <1>2, PTL DEF Spec

\* For every number of hang-ups and faults and every buffer: every variable keeps
\* its type, and no more calls of receive_response wait on top of each other than
\* the port has hung up (device.cpp:303).
THEOREM LinkTypes == Spec => []TypeOK
<1>1. IInv => TypeOK
  BY DEF IInv
<1>. QED  BY <1>1, LinkInvariance, PTL

\* On a calm link no command of init takes a frame that does not answer it, however
\* many messages are lost or refused (command_assembler.cpp:425); and if none is
\* lost or refused, freq gets a frame and is not passed off with the answer to phy
\* (device.cpp:175).
THEOREM CalmLinkInStep == Spec => []InStep
<1>1. IInv => InStep
  BY DEF IInv, CalmInv, InStep
<1>. QED  BY <1>1, LinkInvariance, PTL

\* Once every command of init was answered by a frame of its own and in time, no
\* packet of a board in another mode or channel is captured, however often the device
\* reconnects; and on a calm link no answer (device.cpp:303, command_assembler.cpp:520).
\* A freq that got no frame is outside it: its board may be set to any channel
\* (device.cpp:174).
THEOREM CapturedInMode == Spec => []CapturesInMode
<1>1. IInv => CapturesInMode
  BY DEF IInv
<1>. QED  BY <1>1, LinkInvariance, PTL

\* A thread that ends STOPPED at an open port leaves a silent board, if every
\* command got its own answer (device.cpp:106).
THEOREM StoppedBoardSilent == Spec => []EndsStopped
<1>1. IInv => EndsStopped
  BY DEF IInv, StopInv, Faultless, EndsStopped
<1>. QED  BY <1>1, LinkInvariance, PTL
=============================================================================
