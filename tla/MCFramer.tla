------------------------------ MODULE MCFramer ------------------------------
(***************************************************************************)
(* Frames for TLC: the answer to a command, and stream frames, the longest *)
(* of which fills a frame_payload of BufferSize 4.  Data may hold the      *)
(* delimiters 64, 83 and 69; the last byte of one frame is zero.           *)
(***************************************************************************)
EXTENDS Framer

Seqs == INSTANCE SequencesExt

Answer == <<64, 83, 128, 1, 0, 0, 129, 64, 69>>
StreamFrames ==
  { <<64, 83, 192, 5, 0, 64, 9, 83, 69, 128, 64, 69>>,
    <<64, 83, 192, 2, 0, 64, 128, 64, 69>>,
    <<64, 83, 192, 2, 0, 7, 0, 64, 69>> }
AllFrames == {Answer} \cup StreamFrames

(* What the theorems about InStepAgain and NothingLost assume of the frames. *)
ASSUME AllWhole == \A f \in AllFrames : Whole(f)

\* How many frames were returned, in order, as far as those sent are known.
Matched(n, frame) ==
  IF n < Len(returned) /\ returned[n + 1] = frame THEN n + 1 ELSE n

\* Whatever receive_response returns was sent: lost bytes and silences make no
\* response out of pieces, although nobody checks the sum, and none is returned
\* twice or out of order.
FramesAsSent == Seqs!FoldLeft(Matched, 0, FramesOf(sent)) = Len(returned)
=============================================================================
