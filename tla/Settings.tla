------------------------------ MODULE Settings -------------------------------
(***************************************************************************)
(* From the command line or a configuration file to the devices and the    *)
(* settings that the Sniffer is made of (main.cpp).  A step is one round   *)
(* of the loop over the arguments, which are chosen as they are read; then *)
(* the file is parsed, if one was named.                                   *)
(*                                                                         *)
(* A file is the node that fkYAML made of it, or Unreadable.  A node has a *)
(* type and a value: a sequence of nodes, a function from keys to nodes,   *)
(* or what a scalar stands for.                                            *)
(***************************************************************************)
EXTENDS Integers, Sequences, SequencesExt

CONSTANTS Documents,     \* from the paths that end in .yaml to what they hold
          Words,         \* the values an option may be given
          IntOf,         \* from the words that begin with a number to the number
          Garbage,       \* what an int may hold that nothing was assigned to
          MaxOptions     \* a bound on the options of a command line

Unreadable == [type |-> "unreadable"]
Periods == {"none", "hourly", "daily", "weekly", "monthly"}

ASSUME ArgumentsAssumption ==
    /\ \A path \in DOMAIN Documents : "type" \in DOMAIN Documents[path]
    /\ DOMAIN IntOf \subseteq Words
    /\ MaxOptions \in Nat

VARIABLES outcome,       \* reading the arguments, or how that ended
          options,       \* how many options were read
          device,        \* the device of the options -p, -m and -c
          log, duration, useInput, configFilePath,
          devices        \* what the Sniffer is given

vars == <<outcome, options, device, log, duration, useInput, configFilePath, devices>>

-----------------------------------------------------------------------------
(* Nodes *)

null == [type |-> "null"]
Word(s) == [type |-> "string", value |-> s]
Whole(n) == [type |-> "integer", value |-> n]
Flag(b) == [type |-> "boolean", value |-> b]
Listed(s) == [type |-> "sequence", value |-> s]
Mapping(f) == [type |-> "mapping", value |-> f]

contains(node, key) == node.type = "mapping" /\ key \in DOMAIN node.value

(* node[key] on a mapping; a key that is not there is given a null node.    *)
Under(node, key) == IF contains(node, key) THEN node.value[key] ELSE null

Elements(node) ==
    CASE node.type = "sequence" -> node.value
      [] node.type = "mapping"  ->
            LET keys == SetToSeq(DOMAIN node.value) IN [i \in DOMAIN keys |-> node.value[keys[i]]]
      [] OTHER                  -> <<>>

(* get_value converts nothing: it throws if the type is another.            *)
HasTypes(node, types) ==
    \A key \in DOMAIN types : contains(node, key) => node.value[key].type = types[key]

Read(node, key, default) == IF contains(node, key) THEN node.value[key].value ELSE default

-----------------------------------------------------------------------------
(* The configuration file *)

DeviceTypes == [port |-> "string", radio_mode |-> "integer", channel |-> "integer"]
LogTypes ==
    [enabled |-> "boolean", path |-> "string", base_name |-> "string",
     splitDevicesLog |-> "boolean", resetPeriod |-> "string"]
PipeTypes ==
    [enabled |-> "boolean", path |-> "string", base_name |-> "string",
     splitDevicesPipe |-> "boolean"]
CryptoTypes ==
    [key_extraction |-> "boolean", security_level |-> "integer", save_keys |-> "boolean",
     keys_path |-> "string", save_packets |-> "boolean", packets_path |-> "string",
     simulation |-> "boolean", simulation_path |-> "string"]

Complete(node) == \A key \in DOMAIN DeviceTypes : contains(node, key)

DevicesOf(node) ==
    LET complete == SelectSeq(Elements(node), Complete)
    IN [i \in DOMAIN complete |-> [key \in DOMAIN DeviceTypes |-> complete[i].value[key].value]]

FileOf(node) ==
    [enabled           |-> Read(node, "enabled", FALSE),
     path              |-> Read(node, "path", "./"),
     base_name         |-> Read(node, "base_name", "aceno"),
     split_devices_log |-> Read(node, "splitDevicesLog", FALSE),
     reset_period      |-> LET period == Read(node, "resetPeriod", "none")
                           IN IF period \in Periods THEN period ELSE "none"]

(* A variant: the pipe is read as the log was, except for its path.         *)
PipeLikeFile(node) == [FileOf(node) EXCEPT !.path = Read(node, "path", "/tmp/")]

PipeOf(node) ==
    [enabled           |-> Read(node, "enabled", TRUE),
     path              |-> Read(node, "path", "/tmp/"),
     base_name         |-> Read(node, "base_name", "aceno"),
     split_devices_log |-> Read(node, "splitDevicesPipe", FALSE),
     reset_period      |-> "none"]

CryptoOf(node) ==
    [key_extraction  |-> Read(node, "key_extraction", FALSE),
     security_level  |-> LET level == Read(node, "security_level", -1)
                         IN IF level \in 5 .. 7 THEN level ELSE -1,
     save_keys       |-> Read(node, "save_keys", FALSE),
     keys_path       |-> Read(node, "keys_path", "keys"),
     save_packets    |-> Read(node, "save_packets", FALSE),
     packets_path    |-> Read(node, "packets_path", "transport_key_packets"),
     simulation      |-> Read(node, "simulation", FALSE),
     simulation_path |-> Read(node, "simulation_path", "transport_key_packets")]

(* An exception leaves main: iterating what has no elements, or get_value.  *)
Throws(yaml) ==
    /\ contains(yaml, "devices")
    /\ \/ Under(yaml, "devices").type \notin {"sequence", "mapping"}
       \/ \E i \in DOMAIN Elements(Under(yaml, "devices")) :
            LET node == Elements(Under(yaml, "devices"))[i]
            IN Complete(node) /\ ~HasTypes(node, DeviceTypes)
       \/ ~HasTypes(Under(yaml, "log"), LogTypes)
       \/ ~HasTypes(Under(yaml, "pipe"), PipeTypes)
       \/ ~HasTypes(Under(yaml, "crypto"), CryptoTypes)
       \/ ~HasTypes(yaml, [duration |-> "integer"])

(* A variant: what the file does not say stays as the options set it.       *)
KeepsPeriod(yaml, settings, time) ==
    IF contains(yaml, "devices")
    THEN [devices  |-> DevicesOf(Under(yaml, "devices")),
          log      |-> [file   |-> [FileOf(Under(yaml, "log")) EXCEPT
                                        !.reset_period = settings.file.reset_period],
                        pipe   |-> PipeOf(Under(yaml, "pipe")),
                        crypto |-> CryptoOf(Under(yaml, "crypto"))],
          duration |-> Read(yaml, "duration", -1)]
    ELSE [devices |-> <<>>, log |-> settings, duration |-> time]

(* What the file makes of the settings: all of them anew, or, of a file     *)
(* that cannot be read or lists no devices, what they were.                 *)
parse_input_file_yaml(yaml, settings, time) ==
    IF contains(yaml, "devices")
    THEN [devices  |-> DevicesOf(Under(yaml, "devices")),
          log      |-> [file   |-> FileOf(Under(yaml, "log")),
                        pipe   |-> PipeOf(Under(yaml, "pipe")),
                        crypto |-> CryptoOf(Under(yaml, "crypto"))],
          duration |-> Read(yaml, "duration", -1)]
    ELSE [devices |-> <<>>, log |-> settings, duration |-> time]

-----------------------------------------------------------------------------
(* The command line *)

InitialLog ==
    [file   |-> [enabled |-> FALSE, path |-> "./", base_name |-> "aceno",
                 split_devices_log |-> FALSE, reset_period |-> "none"],
     pipe   |-> [enabled |-> TRUE, path |-> "/tmp/", base_name |-> "aceno",
                 split_devices_log |-> FALSE, reset_period |-> "none"],
     crypto |-> [key_extraction |-> FALSE, security_level |-> -1, save_keys |-> FALSE,
                 keys_path |-> "keys", save_packets |-> FALSE, packets_path |-> "",
                 simulation |-> FALSE, simulation_path |-> ""]]

Init ==
    /\ outcome = "reading" /\ options = 0
    /\ device \in [port : {""}, radio_mode : Garbage, channel : Garbage]
    /\ log = InitialLog /\ duration = -1
    /\ useInput = FALSE /\ configFilePath = ""
    /\ devices = <<>>

(* -h, -l, -v and -y, and any argument that is none of the options.         *)
PrintAndExit == outcome' = "printed" /\ UNCHANGED <<device, log, duration, useInput, configFilePath>>
Ignore == UNCHANGED <<outcome, device, log, duration, useInput, configFilePath>>

TakePort(word) ==
    /\ device' = [device EXCEPT !.port = word]
    /\ UNCHANGED <<outcome, log, duration, useInput, configFilePath>>

TakeName(word) ==
    /\ log' = [log EXCEPT !.file.base_name = word, !.pipe.base_name = word]
    /\ UNCHANGED <<outcome, device, duration, useInput, configFilePath>>

TakePeriod(word) ==
    /\ IF word \in Periods
       THEN log' = [log EXCEPT !.file.reset_period = word] /\ UNCHANGED outcome
       ELSE outcome' = "refused" /\ UNCHANGED log
    /\ UNCHANGED <<device, duration, useInput, configFilePath>>

TakePath(word) ==
    /\ log' = [log EXCEPT !.file.path = word]
    /\ UNCHANGED <<outcome, device, duration, useInput, configFilePath>>

ExtractKeys ==
    /\ log' = [log EXCEPT !.crypto.key_extraction = TRUE, !.crypto.save_keys = TRUE]
    /\ UNCHANGED <<outcome, device, duration, useInput, configFilePath>>

TakeInput(word) ==
    /\ configFilePath' = word /\ useInput' = TRUE
    /\ UNCHANGED <<outcome, device, log, duration>>

(* stoi takes the number a word begins with and throws if there is none.    *)
TakeNumber(word) ==
    /\ IF word \in DOMAIN IntOf
       THEN /\ UNCHANGED outcome
            /\ \/ device' = [device EXCEPT !.radio_mode = IntOf[word]] /\ UNCHANGED duration
               \/ device' = [device EXCEPT !.channel = IntOf[word]] /\ UNCHANGED duration
               \/ duration' = IntOf[word] /\ UNCHANGED device
       ELSE outcome' = "died" /\ UNCHANGED <<device, duration>>
    /\ UNCHANGED <<log, useInput, configFilePath>>

Take(word) ==
    \/ TakePort(word)
    \/ TakeName(word)
    \/ TakePeriod(word)
    \/ TakePath(word)
    \/ TakeInput(word)
    \/ TakeNumber(word)

Option ==
    /\ outcome = "reading" /\ options < MaxOptions
    /\ options' = options + 1
    /\ PrintAndExit \/ Ignore \/ ExtractKeys \/ \E word \in Words : Take(word)
    /\ UNCHANGED devices

(* The value of the last option is missing: the string behind the arguments *)
(* is read, which may be empty or no string at all.                         *)
WithoutValue ==
    /\ outcome = "reading" /\ options < MaxOptions
    /\ options' = MaxOptions
    /\ \/ outcome' = "died" /\ UNCHANGED <<device, log, duration, useInput, configFilePath>>
       \/ Take("")
    /\ UNCHANGED devices

(* The arguments end.                                                       *)
Start ==
    /\ outcome = "reading" /\ ~useInput
    /\ IF device.port = "" \/ device.radio_mode = 0 \/ device.channel = 0
       THEN outcome' = "help" /\ UNCHANGED devices
       ELSE outcome' = "running" /\ devices' = <<device>>
    /\ UNCHANGED <<options, device, log, duration, useInput, configFilePath>>

StartFromFile ==
    /\ outcome = "reading" /\ useInput
    /\ \/ /\ configFilePath \notin DOMAIN Documents
          /\ outcome' = "refused" /\ UNCHANGED <<devices, log, duration>>
       \/ /\ configFilePath \in DOMAIN Documents
          /\ Throws(Documents[configFilePath])
          /\ outcome' = "died" /\ UNCHANGED <<devices, log, duration>>
       \/ /\ configFilePath \in DOMAIN Documents
          /\ ~Throws(Documents[configFilePath])
          /\ LET parsed == parse_input_file_yaml(Documents[configFilePath], log, duration)
             IN devices' = parsed.devices /\ log' = parsed.log /\ duration' = parsed.duration
          /\ outcome' = "running"
    /\ UNCHANGED <<options, device, useInput, configFilePath>>

Next == Option \/ WithoutValue \/ Start \/ StartFromFile

Spec == Init /\ [][Next]_vars

Settled == [devices |-> devices, log |-> log, duration |-> duration]

(* With -i the other options do not matter: whatever was set before or      *)
(* after it, a session from a file that lists devices has the settings that *)
(* the file alone gives (README.md:225, main.cpp:369).                      *)
InputWins ==
    outcome = "running" /\ useInput /\ contains(Documents[configFilePath], "devices")
        => Settled = parse_input_file_yaml(Documents[configFilePath], InitialLog, -1)

-----------------------------------------------------------------------------
(* What is printed *)

(* The table of -l: the channels and the band in MHz of each mode.          *)
RadioTable ==
    [mode \in 0 .. 21 |->
        CASE mode \in {0, 3}               -> <<0 .. 128, 915>>
          [] mode \in {1, 4}               -> <<0 .. 33, 868>>
          [] mode \in {2, 5}               -> <<0 .. 6, 433>>
          [] mode \in {6, 8, 10, 13, 14}   -> <<0 .. 128, 868>>
          [] mode \in {7, 9, 11, 12}       -> <<0 .. 128, 915>>
          [] mode = 15                     -> <<0 .. 63, 915>>
          [] mode \in {16, 18}             -> <<{0}, 868>>
          [] mode \in {17, 19}             -> <<{0}, 433>>
          [] mode = 20                     -> <<11 .. 26, 2405>>
          [] mode = 21                     -> <<{37, 38, 39}, 2402>>]

(* The file that -y prints, with its comments taken for settings.           *)
PrintedDevice == Mapping([port |-> Word("/dev/ttyACM0"), radio_mode |-> Whole(20), channel |-> Whole(20)])

PrintedLog ==
    [enabled |-> Flag(FALSE), path |-> Word("./"), base_name |-> Word("aceno"),
     splitDevicesLog |-> Flag(FALSE), resetPeriod |-> Word("none")]
PrintedPipe ==
    [enabled |-> Flag(TRUE), name |-> Word("aceno"), path |-> Word("/tmp/"),
     splitDevicesPipe |-> Flag(FALSE)]
PrintedCrypto ==
    [key_extraction |-> Flag(FALSE), save_keys |-> Flag(FALSE), keys_path |-> Word("keys"),
     save_packets |-> Flag(FALSE), packets_path |-> Word("transport_key_packets"),
     simulation |-> Flag(FALSE), simulation_path |-> Word("transport_key_packets"),
     security_level |-> Whole(-1)]

Printed ==
    [devices |-> Listed(<<PrintedDevice>>), log |-> Mapping(PrintedLog), pipe |-> Mapping(PrintedPipe),
     crypto |-> Mapping(PrintedCrypto), duration |-> Whole(-1)]
=============================================================================
