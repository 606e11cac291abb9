-------------------------- MODULE CommandAssembler --------------------------
(***************************************************************************)
(* The commands the host writes to a sniffer board, the tables of radio    *)
(* modes they are made from, and the channel arithmetic they share with    *)
(* the records of a capture.  Bytes are numbers below 256, an empty        *)
(* command is the empty sequence; frequencies are in kHz, which is exact   *)
(* for every channel of the program.                                       *)
(***************************************************************************)
EXTENDS Integers, Sequences, SequencesExt

Modes == 0 .. 21
NoPhy == 255

fw_table == <<0, 32, 33, 34, 48, 64, 80>>
fw_to_rm_table == <<3, 5, 4, 4, 2, 1, 0>>

Firmwares == { fw_table[i] : i \in DOMAIN fw_table }

(* The phy of every mode, board by board: 0 LP-CC1352PX, 1 LP-CC1312R1,     *)
(* 2 LP-CC1352R1, 3 LP-CC1350, 4 LP-CC26X2R, 5 LP-CC2650.                  *)
PhyTable(board) ==
    CASE board = 0 -> <<0, 0, 1, 2, 2, 3, 4, 5, 6, 7, 8, 9, 10, 11, 12, 13, 14, 15, 16, 17, 18, 19>>
      [] board = 1 -> <<0, 0, NoPhy, 1, 1, NoPhy, 2, 3, 4, 5, 6, 7, 8, 9, 10, NoPhy, 11, NoPhy, 12, NoPhy,
                        NoPhy, NoPhy>>
      [] board = 2 -> <<0, 0, NoPhy, 1, 1, NoPhy, 2, 3, 4, 5, 6, 7, 8, 9, 10, NoPhy, 11, NoPhy, 12, NoPhy,
                        13, 14>>
      [] board = 3 -> <<0, 0, 1, 4, 4, 5>> \o [i \in 1 .. 10 |-> NoPhy] \o <<6, 7, 9, 10, NoPhy, NoPhy>>
      [] board = 4 -> [i \in 1 .. 20 |-> NoPhy] \o <<0, 1>>
      [] board = 5 -> [i \in 1 .. 20 |-> NoPhy] \o <<0, NoPhy>>

(* The raw frequency of a mode in MHz, on every board that has the mode.   *)
RawFrequency(mode) ==
    CASE mode \in {0, 3, 6, 8, 10, 13, 14, 16, 18} -> 868
      [] mode \in {1, 4, 7, 9, 11, 12, 15}         -> 915
      [] mode \in {2, 5, 17, 19}                   -> 433
      [] mode \in {20, 21}                         -> 2405

Entry(board, mode) ==
    LET phy == PhyTable(board)[mode + 1]
    IN [phy |-> phy, freq |-> IF phy = NoPhy THEN 0 ELSE RawFrequency(mode)]

(* The channels a mode has; with any other the process exits.              *)
Channels(mode) ==
    CASE mode \in {1, 4}                     -> 0 .. 33
      [] mode \in {2, 5}                     -> 0 .. 6
      [] mode = 15                           -> 0 .. 63
      [] mode \in {0, 3} \union 6 .. 14      -> 0 .. 128
      [] mode \in 16 .. 19                   -> {0}
      [] mode = 20                           -> 11 .. 26
      [] mode = 21                           -> {37, 38, 39}

(* A variant: the raw frequency is taken for the one of the channel.       *)
OnlyRaw(mode, channel) == 1000 * RawFrequency(mode)

calculateFinalFreq(mode, channel) ==
    CASE mode \in {0, 3, 7, 9}       -> 902200 + 200 * channel
      [] mode \in {1, 4}             -> 863125 + 200 * channel
      [] mode \in {2, 5}             -> 433300 + 200 * channel
      [] mode = 6                    -> 863100 + 100 * channel
      [] mode \in {8, 10, 13, 14}    -> 863100 + 200 * channel
      [] mode \in {11, 15}           -> 902400 + 400 * channel
      [] mode = 12                   -> 920800 + 600 * channel
      [] mode \in {16, 18}           -> 863125
      [] mode \in {17, 19}           -> 433300
      [] mode = 20                   -> 2405000 + 5000 * (channel - 11)
      [] mode = 21                   -> CASE channel = 37 -> 2402000
                                          [] channel = 38 -> 2426000
                                          [] channel = 39 -> 2480000

LittleEndian(n, count) ==
    LET rest[i \in 1 .. count] == IF i = 1 THEN n ELSE rest[i - 1] \div 256
    IN [i \in 1 .. count |-> rest[i] % 256]

(* The fraction of a MHz in 65536ths: a float has 24 bits, of which a      *)
(* frequency below 512 MHz leaves 15 to the fraction and one below 1024    *)
(* MHz 14, so that the fraction is rounded to a multiple of 2 or of 4.     *)
Fraction(khz) ==
    LET unit   == IF khz < 512000 THEN 2 ELSE 4
        halves == (2 * 65536 * (khz % 1000)) \div (1000 * unit)
    IN unit * ((halves + 1) \div 2)

(* A variant: the fraction is left out.                                    *)
WholeMHz(khz) == LittleEndian(khz \div 1000, 2) \o <<0, 0>>

convertFreqToByte(khz) ==
    LittleEndian(khz \div 1000, 2) \o LittleEndian(Fraction(khz), 2)

sof == <<64, 83>>
eof == <<64, 69>>
info_freq == 69
info_phy == 71

calculate_fcs(bytes) == FoldSeq(LAMBDA byte, sum : (sum + byte) % 256, 0, bytes)

assemble_command(info, bytes) ==
    LET body == <<info>> \o LittleEndian(Len(bytes), 2) \o bytes
    IN sof \o body \o <<calculate_fcs(body)>> \o eof

(* The boards with firmware fwID, of which there is one or none.           *)
Boards(fwID) == { fw_to_rm_table[i] : i \in { j \in DOMAIN fw_table : fw_table[j] = fwID } }

assemble_set_phy(mode, fwID) ==
    IF \E board \in Boards(fwID) : Entry(board, mode).phy # NoPhy
    THEN assemble_command(info_phy, <<Entry(CHOOSE b \in Boards(fwID) : TRUE, mode).phy>>)
    ELSE <<>>

assemble_set_freq(mode, channel, fwID) ==
    IF \E board \in Boards(fwID) : Entry(board, mode).freq # 0
    THEN assemble_command(info_freq, convertFreqToByte(calculateFinalFreq(mode, channel)))
    ELSE <<>>

(* What the records of a capture say of the radio mode.                    *)
get_protocol_value(mode) ==
    CASE mode \in 0 .. 15 -> 1
      [] mode = 20        -> 2
      [] mode = 21        -> 3
      [] OTHER            -> 0

get_ti_phy_value(mode) ==
    CASE mode \in {0, 1, 2, 16, 17}      -> 1
      [] mode \in {3, 4, 5, 18, 19}      -> 2
      [] mode \in 6 .. 14                -> mode + 1
      [] mode = 15                       -> 4
      [] mode = 20                       -> 3
      [] mode = 21                       -> 5
=============================================================================
