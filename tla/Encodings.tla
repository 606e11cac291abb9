------------------------------ MODULE Encodings ------------------------------
(***************************************************************************)
(* What fkYAML reads of the bytes of a configuration file: the encoding is *)
(* guessed from the first four, the text becomes UTF-8 without carriage    *)
(* returns.  A mask and a shift are written as \div and %.                 *)
(***************************************************************************)
EXTENDS Integers, Sequences, SequencesExt

CONSTANT Chunk     \* the bytes read at a time: 256 in the code

ASSUME ChunkAssumption == Chunk \in Nat \ {0}

CR == 13
Error == -1        \* in the place of the bytes of a character: an exception

-----------------------------------------------------------------------------
(* UTF-8 *)

(* How many bytes a character with this first byte has; 0 is an exception.  *)
get_num_bytes(first) ==
    CASE first < 128          -> 1
      [] first \in 192 .. 223 -> 2
      [] first \in 224 .. 239 -> 3
      [] first \in 240 .. 247 -> 4
      [] OTHER                -> 0

Following == 128 .. 191

validate(bytes) ==
    CASE Len(bytes) = 1 -> bytes[1] < 128
      [] Len(bytes) = 2 -> bytes[1] \in 194 .. 223 /\ bytes[2] \in Following
      [] Len(bytes) = 3 ->
            /\ \/ bytes[1] \in 224 .. 239 /\ bytes[1] # 237 /\ bytes[2] \in Following
               \/ bytes[1] = 237 /\ bytes[2] \in 128 .. 159
            /\ bytes[3] \in Following
      [] Len(bytes) = 4 ->
            /\ \/ bytes[1] = 240 /\ bytes[2] \in 144 .. 191
               \/ bytes[1] \in 241 .. 243 /\ bytes[2] \in Following
               \/ bytes[1] = 244 /\ bytes[2] \in 128 .. 143
            /\ bytes[3] \in Following /\ bytes[4] \in Following

(* A chunk up to and with its first carriage return, then what is behind    *)
(* the character that follows the return.                                   *)
RECURSIVE WithoutFollowers(_)
WithoutFollowers(chunk) ==
    IF \E i \in DOMAIN chunk : chunk[i] = CR
    THEN LET i == SelectInSeq(chunk, LAMBDA byte : byte = CR)
         IN SubSeq(chunk, 1, i) \o WithoutFollowers(SubSeq(chunk, i + 2, Len(chunk)))
    ELSE chunk

RECURSIVE Chunks(_)
Chunks(bytes) ==
    IF Len(bytes) <= Chunk
    THEN WithoutFollowers(bytes)
    ELSE WithoutFollowers(SubSeq(bytes, 1, Chunk)) \o Chunks(SubSeq(bytes, Chunk + 1, Len(bytes)))

(* Behind the last byte of the buffer there is a zero, which no character   *)
(* of several bytes has.                                                    *)
RECURSIVE ValidUtf8(_)
ValidUtf8(bytes) ==
    bytes = <<>> \/
    LET count == get_num_bytes(bytes[1])
    IN /\ count \in 1 .. Len(bytes)
       /\ count > 1 => validate(SubSeq(bytes, 1, count))
       /\ ValidUtf8(SubSeq(bytes, count + 1, Len(bytes)))

fill_buffer_utf8(bytes) == IF ValidUtf8(Chunks(bytes)) THEN Chunks(bytes) ELSE <<Error>>

-----------------------------------------------------------------------------
(* UTF-16 and UTF-32 to UTF-8 *)

Two(n) == <<192 + n \div 64, 128 + (n % 64)>>
Three(n) == <<224 + n \div 4096, 128 + ((n \div 64) % 64), 128 + (n % 64)>>
Four(n) ==
    <<240 + n \div 262144, 128 + ((n \div 4096) % 64), 128 + ((n \div 64) % 64), 128 + (n % 64)>>

High == 55296 .. 56319
Low == 56320 .. 57343

(* A variant: the pair is put together without its offset.                  *)
PairWithoutOffset(high, low) == Four(1024 * (high % 1024) + (low % 1024))

Pair(high, low) == Four(65536 + 1024 * (high % 1024) + (low % 1024))

from_utf16(pair) ==
    LET Made(bytes, consumed) == [bytes |-> bytes, consumed |-> consumed]
    IN CASE pair[1] < 128                       -> Made(<<pair[1]>>, 1)
         [] pair[1] \in 128 .. 2047             -> Made(Two(pair[1]), 1)
         [] pair[1] > 2047 /\ pair[1] \notin High /\ pair[1] \notin Low -> Made(Three(pair[1]), 1)
         [] pair[1] \in High /\ pair[2] \in Low -> Made(Pair(pair[1], pair[2]), 2)
         [] OTHER                               -> Made(<<Error>>, 1)

from_utf32(n) ==
    CASE n < 128             -> <<n>>
      [] n \in 128 .. 2047     -> Two(n)
      [] n \in 2048 .. 65535   -> Three(n)
      [] n \in 65536 .. 1114111 -> Four(n)
      [] OTHER               -> <<Error>>

(* The code units of the bytes, of which an incomplete last one is lost,    *)
(* without carriage returns.  A UTF-32 unit with a fourth byte is too large *)
(* whatever its value.                                                      *)
Units(bytes, size, bigEndian) ==
    LET Byte(i, k) == bytes[size * (i - 1) + (IF bigEndian THEN size + 1 - k ELSE k)]
        Unit(i) == IF size = 2
                   THEN Byte(i, 1) + 256 * Byte(i, 2)
                   ELSE IF Byte(i, 4) > 0
                   THEN 16777216
                   ELSE Byte(i, 1) + 256 * Byte(i, 2) + 65536 * Byte(i, 3)
    IN SelectSeq([i \in 1 .. Len(bytes) \div size |-> Unit(i)], LAMBDA unit : unit # CR)

(* The loop of fill_buffer_utf16: filled of the two units of the buffer are *)
(* unread.  Two are wanted each time; when the input has none left, what    *)
(* the buffer begins with is converted once more and the loop ends.         *)
RECURSIVE Converted(_, _, _)
Converted(units, buffer, filled) ==
    LET want == IF Len(units) < 2 - filled THEN Len(units) ELSE 2 - filled
        pair == [i \in 1 .. 2 |-> IF i \in filled + 1 .. filled + want
                                  THEN units[i - filled] ELSE buffer[i]]
        made == from_utf16(pair)
        next == IF made.consumed = 1 THEN <<pair[2], pair[2]>> ELSE pair
    IN IF filled + want < 2
       THEN made.bytes
       ELSE made.bytes \o Converted(SubSeq(units, want + 1, Len(units)), next, 2 - made.consumed)

(* An exception anywhere leaves nothing of the text.                        *)
OrError(bytes) == IF Contains(bytes, Error) THEN <<Error>> ELSE bytes

fill_buffer_utf16(bytes, bigEndian) == OrError(Converted(Units(bytes, 2, bigEndian), <<0, 0>>, 0))

fill_buffer_utf32(bytes, bigEndian) ==
    OrError(FoldLeft(LAMBDA made, unit : made \o from_utf32(unit), <<>>, Units(bytes, 4, bigEndian)))

-----------------------------------------------------------------------------
(* The encoding *)

Encoding(name, bom) == [name |-> name, bom |-> bom]

Ascii == 1 .. 127

detect_encoding_type(b) ==
    CASE b[1] = 239 /\ b[2] = 187 /\ b[3] = 191             -> Encoding("UTF-8", 3)
      [] b = <<0, 0, 254, 255>>                             -> Encoding("UTF-32BE", 4)
      [] b = <<255, 254, 0, 0>>                             -> Encoding("UTF-32LE", 4)
      [] b[1] = 254 /\ b[2] = 255                           -> Encoding("UTF-16BE", 2)
      [] b[1] = 255 /\ b[2] = 254 /\ ~(b[3] = 0 /\ b[4] = 0) -> Encoding("UTF-16LE", 2)
      [] b[1] = 0 /\ b[2] = 0 /\ b[3] = 0 /\ b[4] \in Ascii -> Encoding("UTF-32BE", 0)
      [] b[1] \in Ascii /\ b[2] = 0 /\ b[3] = 0 /\ b[4] = 0 -> Encoding("UTF-32LE", 0)
      [] b[1] = 0 /\ b[2] \in Ascii                         -> Encoding("UTF-16BE", 0)
      [] b[1] \in Ascii /\ b[2] = 0 /\ ~(b[3] = 0 /\ b[4] = 0) -> Encoding("UTF-16LE", 0)
      [] OTHER                                              -> Encoding("UTF-8", 0)

(* Of a shorter file the missing bytes count as 255.                        *)
detect_encoding_and_skip_bom(bytes) ==
    detect_encoding_type([i \in 1 .. 4 |-> IF i <= Len(bytes) THEN bytes[i] ELSE 255])

fill_buffer(bytes) ==
    LET encoding == detect_encoding_and_skip_bom(bytes)
        text     == SubSeq(bytes, encoding.bom + 1, Len(bytes))
    IN CASE encoding.name = "UTF-8"    -> fill_buffer_utf8(text)
         [] encoding.name = "UTF-16BE" -> fill_buffer_utf16(text, TRUE)
         [] encoding.name = "UTF-16LE" -> fill_buffer_utf16(text, FALSE)
         [] encoding.name = "UTF-32BE" -> fill_buffer_utf32(text, TRUE)
         [] encoding.name = "UTF-32LE" -> fill_buffer_utf32(text, FALSE)
=============================================================================
