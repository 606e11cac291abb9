--------------------------- MODULE SettingsProofs ---------------------------
(***************************************************************************)
(* For every configuration file, every set of words and every number of    *)
(* options: a file that lists devices says alone what the session is.      *)
(* InputWins is inductive: a session that runs takes no more steps here.   *)
(***************************************************************************)
EXTENDS Settings, TLAPS

(* Of a file that lists devices, nothing of the settings before it is kept. *)
LEMMA FileDecidesAlone ==
    ASSUME NEW yaml, contains(yaml, "devices"),
           NEW settings, NEW time, NEW settings2, NEW time2
    PROVE  parse_input_file_yaml(yaml, settings, time)
             = parse_input_file_yaml(yaml, settings2, time2)
  BY DEF parse_input_file_yaml

(* The session from the file starts with what parsing it has left.          *)
LEMMA FileStarts ==
    ASSUME StartFromFile
    PROVE  InputWins'
<1>1. configFilePath' = configFilePath
  BY DEF StartFromFile
<1>2. SUFFICES ASSUME outcome' = "running", contains(Documents[configFilePath], "devices")
               PROVE  Settled' = parse_input_file_yaml(Documents[configFilePath], InitialLog, -1)
  BY <1>1 DEF InputWins
<1>3. PICK parsed : /\ parsed = parse_input_file_yaml(Documents[configFilePath], log, duration)
                    /\ devices' = parsed.devices /\ log' = parsed.log
                    /\ duration' = parsed.duration
  BY <1>2 DEF StartFromFile
<1>4. Settled' = [devices |-> parsed.devices, log |-> parsed.log, duration |-> parsed.duration]
  BY <1>3 DEF Settled
<1>5. parsed = [devices |-> parsed.devices, log |-> parsed.log, duration |-> parsed.duration]
  BY <1>3 DEF parse_input_file_yaml
<1> QED
  BY <1>2, <1>3, <1>4, <1>5, FileDecidesAlone

(* No session runs while the options are read.                              *)
LEMMA NotYetRunning ==
    ASSUME Option \/ WithoutValue
    PROVE  outcome' # "running"
<1>1. outcome = "reading"
  BY DEF Option, WithoutValue
<1>2. outcome' \in {outcome, "printed", "refused", "died"}
  BY DEF Option, WithoutValue, Take, PrintAndExit, Ignore, ExtractKeys, TakePort, TakeName,
         TakePeriod, TakePath, TakeInput, TakeNumber
<1> QED
  BY <1>1, <1>2

(* With -i the other options do not matter, wherever they stand on the      *)
(* command line (README.md:225, main.cpp:369).                              *)
THEOREM FileSettles == Spec => []InputWins
<1>1. Init => InputWins
  BY DEF Init, InputWins
<1>2. InputWins /\ [Next]_vars => InputWins'
  <2> SUFFICES ASSUME InputWins, [Next]_vars
               PROVE  InputWins'
    OBVIOUS
  <2>1. CASE Option \/ WithoutValue
    BY <2>1, NotYetRunning DEF InputWins
  <2>2. CASE Start
    BY <2>2 DEF Start, InputWins
  <2>3. CASE StartFromFile
    BY <2>3, FileStarts
  <2>4. CASE UNCHANGED vars
    BY <2>4 DEF vars, InputWins, Settled
  <2> QED
    BY <2>1, <2>2, <2>3, <2>4 DEF Next
<1> QED
  BY <1>1, <1>2, PTL DEF Spec
=============================================================================
