------------------------------- MODULE Offsets -------------------------------
(***************************************************************************)
(* Two's complement fields, as parse_offset fills them and the machine     *)
(* reads them, and the outcome of a parse function.  Shared by the parser, *)
(* where an instruction is its offset field, and by the encoder of whole   *)
(* instructions.                                                           *)
(***************************************************************************)
EXTENDS Integers

(***************************************************************************)
(* The outcome of a parse function: a word or an error.                    *)
(***************************************************************************)
Parsed(w)   == [error |-> "none", word |-> w]
Rejected(e) == [error |-> e, word |-> 0]

\* Mutant: a negative offset is not brought into the field.
OffsetFieldSigned(v, half) ==
  IF v \notin -half .. half - 1 THEN Rejected("out_of_range") ELSE Parsed(v)

\* Mutant: the upper bound of the range is off by one.
OffsetFieldTooWide(v, half) ==
  IF v \notin -half .. half
    THEN Rejected("out_of_range")
    ELSE Parsed(IF v < 0 THEN v + 2 * half ELSE v)

(***************************************************************************)
(* parse_offset: v is a signed offset for a two's complement field.        *)
(***************************************************************************)
OffsetField(v, half) ==
  IF v \notin -half .. half - 1
    THEN Rejected("out_of_range")
    ELSE Parsed(IF v < 0 THEN v + 2 * half ELSE v)

(***************************************************************************)
(* The signed value of an offset field, as the machine extends it.         *)
(***************************************************************************)
SignExtend(field, half) == IF field >= half THEN field - 2 * half ELSE field
==============================================================================
