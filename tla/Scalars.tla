------------------------------- MODULE Scalars -------------------------------
(***************************************************************************)
(* What fkYAML takes a plain scalar for (scalar_scanner), and what an      *)
(* integer stands for (get_integer).  A text is a sequence of characters.  *)
(***************************************************************************)
EXTENDS Integers, Sequences, SequencesExt

Digits == <<"0", "1", "2", "3", "4", "5", "6", "7", "8", "9">>
Letters == <<"a", "b", "c", "d", "e", "f">>
Capitals == <<"A", "B", "C", "D", "E", "F">>

Octal == { Digits[i] : i \in 1 .. 8 }
Decimal == { Digits[i] : i \in 1 .. 10 }
Hexadecimal == Decimal \union { Letters[i] : i \in 1 .. 6 } \union { Capitals[i] : i \in 1 .. 6 }

DigitValue(c) ==
    CASE c \in Decimal               -> SelectInSeq(Digits, LAMBDA d : d = c) - 1
      [] Contains(Letters, c)        -> SelectInSeq(Letters, LAMBDA d : d = c) + 9
      [] Contains(Capitals, c)       -> SelectInSeq(Capitals, LAMBDA d : d = c) + 9

Nulls == {<<"~">>, <<"n", "u", "l", "l">>, <<"N", "u", "l", "l">>, <<"N", "U", "L", "L">>}
Booleans ==
    {<<"t", "r", "u", "e">>, <<"T", "r", "u", "e">>, <<"T", "R", "U", "E">>,
     <<"f", "a", "l", "s", "e">>, <<"F", "a", "l", "s", "e">>, <<"F", "A", "L", "S", "E">>}
Infinities ==
    {<<".", "i", "n", "f">>, <<".", "I", "n", "f">>, <<".", "I", "N", "F">>}
NamedFloats ==
    Infinities \union { <<"-">> \o word : word \in Infinities }
      \union {<<".", "n", "a", "n">>, <<".", "N", "a", "N">>, <<".", "N", "A", "N">>}

(* The rest of a text from its second character.                            *)
Rest(text) == SubSeq(text, 2, Len(text))

-----------------------------------------------------------------------------
(* The scanner: each operator has a text of at least one character, or the  *)
(* assertion at its head ends the process.                                  *)

scan_octal_number(text) ==
    IF \A i \in DOMAIN text : text[i] \in Octal THEN "integer" ELSE "string"

scan_hexadecimal_number(text) ==
    IF \A i \in DOMAIN text : text[i] \in Hexadecimal THEN "integer" ELSE "string"

(* What is behind a decimal point is a float, whatever the scan says of it. *)
AsFloat(kind) == IF kind \in {"integer", "float"} THEN "float" ELSE kind

RECURSIVE scan_decimal_number(_, _), scan_after_decimal_point(_), scan_after_exponent(_, _)

scan_after_decimal_point(text) ==
    CASE text = <<>>                               -> "abort"
      [] text # <<>> /\ text[1] \notin Decimal     -> "string"
      [] Len(text) = 1 /\ text[1] \in Decimal      -> "float"
      [] Len(text) > 1 /\ text[1] \in Decimal      -> scan_decimal_number(Rest(text), TRUE)

scan_after_exponent(text, hasPoint) ==
    CASE text[1] \in Decimal ->
            IF Len(text) > 1 THEN scan_decimal_number(Rest(text), hasPoint) ELSE "float"
      [] text[1] \in {"+", "-"} ->
            IF Len(text) > 1 THEN scan_decimal_number(Rest(text), hasPoint) ELSE "string"
      [] OTHER -> "string"

scan_decimal_number(text, hasPoint) ==
    CASE text[1] \in Decimal ->
            IF Len(text) > 1 THEN scan_decimal_number(Rest(text), hasPoint) ELSE "integer"
      [] text[1] = "." ->
            IF hasPoint THEN "string" ELSE AsFloat(scan_after_decimal_point(Rest(text)))
      [] text[1] \in {"e", "E"} ->
            IF Len(text) > 1 THEN scan_after_exponent(Rest(text), hasPoint) ELSE "string"
      [] OTHER -> "string"

scan_after_zero_at_first(text) ==
    CASE text[1] = "." -> IF Len(text) > 1 THEN AsFloat(scan_after_decimal_point(Rest(text)))
                                           ELSE "string"
      [] text[1] = "o" -> IF Len(text) > 1 THEN scan_octal_number(Rest(text)) ELSE "string"
      [] text[1] = "x" -> IF Len(text) > 1 THEN scan_hexadecimal_number(Rest(text)) ELSE "string"
      [] OTHER         -> "string"

scan_negative_number(text) ==
    CASE text[1] \notin Decimal                   -> "string"
      [] text[1] \in Decimal /\ Len(text) = 1     -> "integer"
      [] text[1] \in Decimal /\ Len(text) > 1     -> scan_decimal_number(Rest(text), FALSE)

scan_possible_number_token(text) ==
    CASE text[1] = "-" -> IF Len(text) > 1 THEN scan_negative_number(Rest(text)) ELSE "string"
      [] text[1] = "+" -> IF Len(text) > 1 THEN scan_decimal_number(Rest(text), FALSE) ELSE "string"
      [] text[1] = "0" -> IF Len(text) > 1 THEN scan_after_zero_at_first(Rest(text)) ELSE "integer"
      [] text[1] \in Decimal \ {"0"} ->
            IF Len(text) > 1 THEN scan_decimal_number(Rest(text), FALSE) ELSE "integer"
      [] OTHER -> "string"

scan(text) ==
    CASE text = <<>>            -> "string"
      [] text \in Nulls         -> "null"
      [] text \in Booleans      -> "boolean"
      [] text \in NamedFloats   -> "float"
      [] OTHER                  -> scan_possible_number_token(text)

-----------------------------------------------------------------------------
(* The value of an integer *)

LongestPrefix(text, digits) ==
    LET ends == { i \in DOMAIN text : text[i] \notin digits }
    IN IF ends = {} THEN text ELSE SubSeq(text, 1, CHOOSE i \in 0 .. Len(text) :
                                              i + 1 \in ends /\ \A j \in ends : i + 1 <= j)

Valued(text, base, digits) ==
    FoldLeft(LAMBDA sum, c : base * sum + DigitValue(c), 0, LongestPrefix(text, digits))

Unsigned(text) ==
    CASE Len(text) > 2 /\ text[1] = "0" /\ text[2] \in {"x", "X"} /\ text[3] \in Hexadecimal ->
            Valued(SubSeq(text, 3, Len(text)), 16, Hexadecimal)
      [] text[1] = "0" /\ ~(Len(text) > 2 /\ text[2] \in {"x", "X"} /\ text[3] \in Hexadecimal) ->
            Valued(text, 8, Octal)
      [] text[1] # "0" -> Valued(text, 10, Decimal)

(* stoll with the base left to the text: it takes the longest number the    *)
(* text begins with.                                                        *)
from_string(text) ==
    CASE text[1] = "-"            -> -Unsigned(Rest(text))
      [] text[1] = "+"            -> Unsigned(Rest(text))
      [] text[1] \notin {"-", "+"} -> Unsigned(text)

(* A variant: the prefix of octal numbers is left to stoll.                 *)
PrefixLeft(text) == from_string(text)

get_integer(text) ==
    IF Len(text) > 2 /\ text[1] = "0" /\ text[2] = "o"
    THEN from_string(<<"0">> \o SubSeq(text, 3, Len(text)))
    ELSE from_string(text)
=============================================================================
