------------------------------ MODULE MCSettings -----------------------------
(***************************************************************************)
(* Settings for TLC, beside the steps before it: the reading of the bytes, *)
(* of the scalars and of the tokens of a configuration file.  The command  *)
(* line is read when there is no job; a job is an initial state of its     *)
(* own, and steps only if it is to deserialize a document.                 *)
(***************************************************************************)
EXTENDS Settings, Encodings, Scalars, MCDocuments

Radio == INSTANCE CommandAssembler

VARIABLES job, tokens, parser

Yaml == INSTANCE Deserializer

-----------------------------------------------------------------------------
(* Configuration files *)

Port == Mapping([port |-> Word("tty"), radio_mode |-> Whole(20), channel |-> Whole(11)])
Devices == Listed(<<Port>>)

(* Another value of the same type: of names, the name of a period.          *)
Another(node) ==
    CASE node.type = "string"  -> Word("daily")
      [] node.type = "integer" -> Whole(7)
      [] node.type = "boolean" -> Flag(~node.value)

MCFiles ==
    [bare    |-> Mapping([devices |-> Devices]),
     printed |-> Mapping(Printed),
     full    |-> Mapping([devices |-> Listed(<<Mapping([port |-> Word("tty")]), Port, null>>),
                      log |-> Mapping([key \in DOMAIN PrintedLog |-> Another(PrintedLog[key])]),
                      pipe |-> Word("none"), duration |-> Whole(60)]),
     named   |-> Mapping([devices |-> Mapping([first |-> Port]), crypto |-> Mapping([security_level |-> Whole(4)])]),
     wrong   |-> Mapping([devices |-> Devices, pipe |-> Mapping([base_name |-> Whole(7)])]),
     single  |-> Mapping([devices |-> Word("tty")]),
     empty   |-> Mapping([log |-> Mapping(PrintedLog)]),
     broken  |-> Unreadable]

MCWords == {"tty", "20", "0", "daily"} \union DOMAIN MCFiles
MCIntOf == [t \in {"20", "0"} |-> IF t = "20" THEN 20 ELSE 0]

-----------------------------------------------------------------------------
(* Jobs *)

NoJob == [kind |-> "none"]
PrintJob == [kind |-> "print"]

(* The code points at the ends of what one to four bytes of UTF-8 and one   *)
(* or two units of UTF-16 have, a line feed and a carriage return.          *)
CodePoints == {10, CR, 127, 128, 2047, 2048, 55295, 57344, 65535, 65536, 1114111}
Names == {"UTF-8", "UTF-16BE", "UTF-16LE", "UTF-32BE", "UTF-32LE"}

TextJobs ==
    { j \in [kind : {"text"}, name : Names, bom : BOOLEAN,
             text : UNION { [1 .. n -> CodePoints] : n \in 0 .. 3 }] :
        /\ j.name = "UTF-8" => ~Contains(j.text, CR)
        /\ ~j.bom /\ j.name # "UTF-8" => j.text # <<>> /\ j.text[1] \in Ascii
        /\ j.name \in {"UTF-16BE", "UTF-16LE"} =>
              j.text # <<>> /\ LET visible == SelectSeq(j.text, LAMBDA c : c # CR)
                               IN visible # <<>> /\ Last(visible) < 65536 }

Characters == {"0", "1", "8", "-", "+", ".", "e", "o", "x", "f"}
ScalarJobs == [kind : {"scalar"}, text : UNION { [1 .. n -> Characters] : n \in 1 .. 5 }]

(* The deserializer refuses a collection in brackets as the value of a key  *)
(* with "?" (fkYAML.hpp:4747).                                              *)
MCInit ==
    /\ Init
    /\ \/ job \in {NoJob} /\ tokens = <<>>
       \/ /\ job \in {PrintJob} \union TextJobs \union ScalarJobs
          /\ tokens = <<>> /\ device.radio_mode = 0 /\ device.channel = 0
       \/ /\ job \in DocumentJobs
          /\ tokens = Framed(Tokens(job.tree, job.layout), job.frame)
          /\ job.layout.explicit => ~InBrackets(tokens)
          /\ device.radio_mode = 0 /\ device.channel = 0
    /\ Yaml!Init
MCNext ==
    \/ job = NoJob /\ Next /\ UNCHANGED <<job, tokens, parser>>
    \/ job.kind = "document" /\ Yaml!Next /\ UNCHANGED <<job, vars>>
MCSpec == MCInit /\ [][MCNext]_<<vars, job, tokens, parser>>

-----------------------------------------------------------------------------
(* Properties of the settings *)

Alone(document) == parse_input_file_yaml(Mapping(document), InitialLog, -1)

(* The file that -y prints is true: the values in its comments are those of *)
(* a file without them, and each key but the name of the pipe, set to       *)
(* another value, changes the setting of its own (main.cpp:114).            *)
FileAsPrinted ==
  job = PrintJob =>
    /\ Alone(Printed) = Alone([devices |-> Printed.devices])
    /\ \A section \in {"log", "pipe", "crypto"} :
         \A key \in DOMAIN Printed[section].value \ {"name"} :
            LET other == Alone([Printed EXCEPT
                            ![section].value[key] = Another(Printed[section].value[key])])
            IN \E part \in DOMAIN other.log :
                 /\ other.log[part] # Alone(Printed).log[part]
                 /\ \A rest \in DOMAIN other.log \ {part} : other.log[rest] = Alone(Printed).log[rest]

Bands == [mhz \in {433, 868, 915, 2402, 2405} |->
            CASE mhz = 433  -> 433050 .. 434790
              [] mhz = 868  -> 863000 .. 870000
              [] mhz = 915  -> 902000 .. 928000
              [] mhz > 2000 -> {1000 * mhz}]

(* What -l prints can be asked for: the commands accept just the channels   *)
(* of the table, and the first of each mode is in the band of the table     *)
(* (main.cpp:83, command_assembler.cpp:164).                                *)
TableHolds ==
  job = PrintJob =>
    \A mode \in Radio!Modes :
        LET row   == RadioTable[mode]
            first == CHOOSE c \in row[1] : \A d \in row[1] : c <= d
        IN Radio!Channels(mode) = row[1] /\ Radio!calculateFinalFreq(mode, first) \in Bands[row[2]]

-----------------------------------------------------------------------------
(* Properties of what is read of a file *)

Utf8(c) ==
    CASE c < 128 -> <<c>>
      [] c \in 128 .. 2047 -> <<192 + c \div 64, 128 + (c % 64)>>
      [] c \in 2048 .. 65535 -> <<224 + c \div 4096, 128 + ((c \div 64) % 64), 128 + (c % 64)>>
      [] c > 65535 -> <<240 + c \div 262144, 128 + ((c \div 4096) % 64), 128 + ((c \div 64) % 64),
                        128 + (c % 64)>>

Bytes(n, size, bigEndian) ==
    [i \in 1 .. size |-> (n \div 256 ^ (IF bigEndian THEN size - i ELSE i - 1)) % 256] \o <<>>

Utf16(c, bigEndian) ==
    IF c < 65536
    THEN Bytes(c, 2, bigEndian)
    ELSE Bytes(55296 + (c - 65536) \div 1024, 2, bigEndian)
            \o Bytes(56320 + ((c - 65536) % 1024), 2, bigEndian)

Utf32(c, bigEndian) == IF bigEndian THEN <<0>> \o Bytes(c, 3, TRUE) ELSE Bytes(c, 3, FALSE) \o <<0>>

Written(name, c) ==
    CASE name = "UTF-8"    -> Utf8(c)
      [] name = "UTF-16BE" -> Utf16(c, TRUE)
      [] name = "UTF-16LE" -> Utf16(c, FALSE)
      [] name = "UTF-32BE" -> Utf32(c, TRUE)
      [] name = "UTF-32LE" -> Utf32(c, FALSE)

Encoded(name, text) == FoldLeft(LAMBDA bytes, c : bytes \o Written(name, c), <<>>, text)

(* A text is read the same in every encoding, with or without a mark: as    *)
(* UTF-8 without carriage returns.  Not so, in UTF-8, a text that has some, *)
(* and in UTF-16 an empty text and one that ends in a pair of units         *)
(* (fkYAML.hpp:5509, fkYAML.hpp:6396, fkYAML.hpp:6457).                     *)
SameText ==
    job.kind = "text" =>
        fill_buffer(Encoded(job.name, (IF job.bom THEN <<65279>> ELSE <<>>) \o job.text))
            = Encoded("UTF-8", SelectSeq(job.text, LAMBDA c : c # CR))

(* The integers of YAML's core schema, and their values.                    *)
Signed(text) == text # <<>> /\ text[1] \in {"-", "+"}
Body(text) == IF Signed(text) THEN Rest(text) ELSE text
AllIn(text, set) == text # <<>> /\ \A i \in DOMAIN text : text[i] \in set
Prefixed(text, letter) == Len(text) > 2 /\ text[1] = "0" /\ text[2] = letter
Behind(text) == SubSeq(text, 3, Len(text))

Number(text, base) ==
    LET sum[i \in 0 .. Len(text)] == IF i = 0 THEN 0 ELSE base * sum[i - 1] + DigitValue(text[i])
    IN sum[Len(text)]

IsInteger(text) ==
    \/ AllIn(Body(text), Decimal)
    \/ Prefixed(text, "o") /\ AllIn(Behind(text), Octal)
    \/ Prefixed(text, "x") /\ AllIn(Behind(text), Hexadecimal)

Meant(text) ==
    CASE Prefixed(text, "o") -> Number(Behind(text), 8)
      [] Prefixed(text, "x") -> Number(Behind(text), 16)
      [] OTHER -> IF text[1] = "-" THEN -Number(Body(text), 10) ELSE Number(Body(text), 10)

(* A document is read as the tree that was written, in every layout.        *)
TreeRecovered ==
    job.kind = "document" /\ job.frame \in {"alone", "ended", "directed"} =>
        /\ parser.outcome \in {"reading", "read"}
        /\ parser.outcome = "read" => Yaml!Tree(parser, 1) = job.tree

LeadingZero(text) == Len(Body(text)) > 1 /\ AllIn(Body(text), Decimal) /\ Body(text)[1] = "0"

(* An integer of the core schema is read as that integer, and nothing else  *)
(* is read as one, but for two kinds of text: with zeros in front (a string *)
(* without a sign, octal with one) and with an exponent of more than a      *)
(* digit (the integer before it) (fkYAML.hpp:2401, fkYAML.hpp:2881).        *)
IntegersAsMeant ==
    job.kind = "scalar" /\ ~LeadingZero(job.text) /\ ~Contains(job.text, "e") =>
        /\ scan(job.text) = "integer" <=> IsInteger(job.text)
        /\ IsInteger(job.text) => get_integer(job.text) = Meant(job.text)
=============================================================================
