------------------------------- MODULE Numerals -------------------------------
(***************************************************************************)
(* How lc3util.c reads the text of an operand: as a register, or as a      *)
(* number with an optional prefix.  A text is a sequence of characters; a  *)
(* character is a string of length one.  Hex digits are written in upper   *)
(* case, strtol takes both.                                                *)
(***************************************************************************)
EXTENDS Integers, Sequences

Digits == <<"0", "1", "2", "3", "4", "5", "6", "7",
            "8", "9", "A", "B", "C", "D", "E", "F">>

IsDigit(c, base)  == \E d \in 1 .. base : Digits[d] = c
DigitValue(c)     == (CHOOSE d \in DOMAIN Digits : Digits[d] = c) - 1

(***************************************************************************)
(* strtol of the C library, as the assembler uses it: an optional sign, an *)
(* optional 0x in base 16, and as many digits as there are.  What follows  *)
(* them is not looked at.  ok tells whether there was a digit.  (A value   *)
(* that does not fit a long is clamped, which leaves it outside all the    *)
(* ranges below.)                                                          *)
(***************************************************************************)
strtol(text, base) ==
  LET Has(k, c) == k <= Len(text) /\ text[k] = c
      signed    == Has(1, "-") \/ Has(1, "+")
      first     == IF signed THEN 2 ELSE 1
      start     == IF /\ base = 16
                      /\ Has(first, "0") /\ Has(first + 1, "x")
                      /\ first + 2 <= Len(text) /\ IsDigit(text[first + 2], 16)
                     THEN first + 2 ELSE first
      end       == CHOOSE k \in start - 1 .. Len(text) :
                     /\ \A i \in start .. k : IsDigit(text[i], base)
                     /\ k < Len(text) => ~IsDigit(text[k + 1], base)
      value[k \in start - 1 .. end] ==
        IF k < start THEN 0 ELSE base * value[k - 1] + DigitValue(text[k])
  IN  [ok |-> end >= start, val |-> IF Has(1, "-") THEN -value[end] ELSE value[end]]

(***************************************************************************)
(* parse_numeric_value, and the copies of it in parse_offset (lc3util.c    *)
(* 119-136) and parse_fill (directives.c 51-69).                           *)
(***************************************************************************)
NumericValue(token) ==
  CASE Head(token) = "#" -> strtol(Tail(token), 10)
    [] Head(token) = "x" -> strtol(Tail(token), 16)
    [] OTHER             -> strtol(token, 10)

(***************************************************************************)
(* parse_register: R0 to R7, or -1.                                        *)
(***************************************************************************)
Register(token) ==
  IF Len(token) = 2 /\ token[1] = "R" /\ IsDigit(token[2], 8) THEN DigitValue(token[2]) ELSE -1
==============================================================================
