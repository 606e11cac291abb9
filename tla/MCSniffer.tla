------------------------------ MODULE MCSniffer ------------------------------
(***************************************************************************)
(* Instances of Sniffer for TLC.                                           *)
(***************************************************************************)
EXTENDS Sniffer

Plain == [file |-> "off", pipe |-> "off", reset |-> FALSE,
          simulation |-> FALSE, savePackets |-> FALSE]

\* The pipes alone, the files alone, and both with at least one of them split;
\* files of either kind with recreation, which pipes take no part in.
AllOutputs ==
  { s \in [file : Modes, pipe : Modes, reset : BOOLEAN,
            simulation : {FALSE}, savePackets : {FALSE}] :
      \/ s.file = "off" /\ s.pipe = "split" /\ ~s.reset
      \/ s.file = "single" /\ s.pipe = "off"
      \/ s.file = "single" /\ s.pipe = "split" /\ ~s.reset
      \/ s.file = "split" /\ s.pipe = "single" /\ ~s.reset
      \/ s.file = "split" /\ s.pipe = "split" /\ s.reset }

\* A pipe per device and no files.
PipeOnly == { [Plain EXCEPT !.pipe = "split"] }

\* Saved key packets are simulated and key packets are saved.
Simulated ==
  { [Plain EXCEPT !.file = "split", !.pipe = p,
                  !.simulation = TRUE, !.savePackets = TRUE] : p \in Modes }

NothingSaved == { <<>> }
KeySaved == { << [id |-> 0, n |-> 0, key |-> "old"] >> }
=============================================================================
