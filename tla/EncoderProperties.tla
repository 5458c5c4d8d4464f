-------------------------- MODULE EncoderProperties --------------------------
(***************************************************************************)
(* What should hold of Encoder: how the machine reads the word a line was  *)
(* given, and that Parser, which does not look into instructions, accepts  *)
(* and rejects the same lines.                                             *)
(***************************************************************************)
EXTENDS Encoder

CONSTANT
  Notation  \* what a text stands for in the language: its kind and its value

Encoded(ops) == pc = "done" /\ result = "none" /\ mnemonic \in ops

(***************************************************************************)
(* The bits of the word from the one with the given weight, modulo size.   *)
(***************************************************************************)
Field(weight, size) == (machine_instruction \div weight) % size

PCRelativeOps == {"LD", "ST", "LDI", "STI", "LEA"}
BaseOffsetOps == {"LDR", "STR"}
BranchOps     == {"BR", "BRnzp", "BRn", "BRz", "BRp", "BRnz", "BRnp", "BRzp"}
OffsetOps     == PCRelativeOps \cup BaseOffsetOps \cup BranchOps \cup {"JSR"}

HalfOf(op) == CASE op \in BaseOffsetOps -> 32
                [] op = "JSR"           -> 1024
                [] OTHER                -> 256

LastOperand(op) == CASE op \in BaseOffsetOps -> 3
                     [] op \in PCRelativeOps -> 2
                     [] OTHER                -> 1

\* The operation and the register fields the machine finds in the word
Operation(code)     == Field(4096, 16) = code
RegisterFields(r, s) == Field(512, 8) = r /\ Field(64, 8) = s

OperateFields ==
  /\ Operation(IF mnemonic = "ADD" THEN 1 ELSE 5)
  /\ RegisterFields(Reg(1), Reg(2))
  /\ Field(32, 2) = (IF Reg(3) = -1 THEN 1 ELSE 0)
  /\ Reg(3) # -1 => Field(1, 32) = Reg(3)

NotFields == Operation(9) /\ RegisterFields(Reg(1), Reg(2)) /\ Field(1, 64) = 63

JumpFields ==
  /\ Operation(IF mnemonic = "JSRR" THEN 4 ELSE 12)
  /\ RegisterFields(0, Reg(1))
  /\ Field(1, 64) = (IF mnemonic = "JMPT" THEN 1 ELSE 0)

BranchFields ==
  /\ Operation(0)
  /\ Field(2048, 2) = 1 <=> mnemonic \in {"BR", "BRnzp", "BRn", "BRnz", "BRnp"}
  /\ Field(1024, 2) = 1 <=> mnemonic \in {"BR", "BRnzp", "BRz", "BRnz", "BRzp"}
  /\ Field(512, 2)  = 1 <=> mnemonic \in {"BR", "BRnzp", "BRp", "BRnp", "BRzp"}

PCRelativeCode == CASE mnemonic = "LD"  -> 2  [] mnemonic = "ST"  -> 3
                    [] mnemonic = "LDI" -> 10 [] mnemonic = "STI" -> 11
                    [] mnemonic = "LEA" -> 14

PCRelativeFields == Operation(PCRelativeCode) /\ Field(512, 8) = Reg(1)

BaseOffsetFields ==
  /\ Operation(IF mnemonic = "LDR" THEN 6 ELSE 7)
  /\ RegisterFields(Reg(1), Reg(2))

\* RET and RTT are jumps through R7.
ReturnFields ==
  /\ Operation(12)
  /\ RegisterFields(0, 7)
  /\ Field(1, 64) = (IF mnemonic = "RTT" THEN 1 ELSE 0)

(***************************************************************************)
(* The parts of a word are added up (machine_instruction += ...), so one   *)
(* that is negative or too large would change its neighbours: the machine  *)
(* finds in every accepted word the operation and the registers of the     *)
(* line, whatever its number or label.  The bits n, z and p of a branch    *)
(* are those its name says (parser.c:54-80).                               *)
(***************************************************************************)
FieldsInPlace ==
  /\ Encoded({"ADD", "AND"})          => OperateFields
  /\ Encoded({"NOT"})                 => NotFields
  /\ Encoded({"JMP", "JMPT", "JSRR"}) => JumpFields
  /\ Encoded({"JSR"})                 => Operation(4) /\ Field(2048, 2) = 1
  /\ Encoded(BranchOps)               => BranchFields
  /\ Encoded(PCRelativeOps)           => PCRelativeFields
  /\ Encoded(BaseOffsetOps)           => BaseOffsetFields
  /\ Encoded({"RET", "RTT"})          => ReturnFields
  /\ Encoded({"TRAP", "GETC", "OUT", "PUTS", "IN", "PUTSP", "HALT"}) => Field(256, 256) = 240

\* The offset field, and what it should be
Offset(op) == SignExtend(Field(1, 2 * HalfOf(op)), HalfOf(op))

Reaches(op) ==
  LET token == operands[LastOperand(op)]
  IN  IF NumericValue(token).ok
        THEN Offset(op) = NumericValue(token).val
        ELSE line.location + 1 + Offset(op) = lookup(token)

(***************************************************************************)
(* The offset the machine extends from the word leads from the incremented *)
(* PC to the label the line names (for LDR and STR: is the distance to it, *)
(* which the machine adds to the base register), or is the number it       *)
(* gives, and so is the immediate of ADD and AND.                          *)
(***************************************************************************)
OffsetsReach ==
  /\ \A op \in OffsetOps : Encoded({op}) => Reaches(op)
  /\ Encoded({"ADD", "AND"}) /\ Reg(3) = -1 =>
       SignExtend(Field(1, 32), 16) = NumericValue(operands[3]).val

(***************************************************************************)
(* Every line that compute_line_type takes for an opcode is one that       *)
(* compute_opcode_type knows: the assertion of lc3util.c:355 holds.        *)
(***************************************************************************)
NoAssertionFails == pc # "aborted"

(***************************************************************************)
(* Parser, and with it Assembler, sees an offset or a .FILL as an operand  *)
(* that is missing, a number or a symbol, and the word as its low bits.    *)
(* On that view of the line it has the outcome the code has.               *)
(***************************************************************************)
P == INSTANCE Parser WITH
  AddrSpace <- 65536, Labels <- DOMAIN Symbols, Lines <- {}, FREED <- NULL, Faults <- {},
  dict <- [t \in {operands[i] : i \in DOMAIN operands} |-> lookup(t)], origin <- line.origin,
  source <- <<>>, leaked <- {}, tokenized_lines <- <<>>, instruction_offset <- 0, errno <- "none",
  address_offset <- 0, sym_file <- <<>>, obj_file <- <<>>

StmtOf(op) ==
  LET i == LastOperand(op)
  IN  [type |-> IF op = ".FILL" THEN "fill" ELSE "offset",
       arg  |-> IF result \in {"operands", "register"}
                  THEN [type |-> "missing", val |-> 0, name |-> NULL]
                  ELSE IF NumericValue(operands[i]).ok
                  THEN [type |-> "num", val |-> NumericValue(operands[i]).val, name |-> NULL]
                  ELSE [type |-> "sym", val |-> 0, name |-> operands[i]],
       half |-> HalfOf(op)]

ParserAgrees ==
  pc = "done" /\ mnemonic \in OffsetOps \cup {".FILL"} =>
    LET outcome == P!ParseLine([tokens               |-> StmtOf(mnemonic),
                                instruction_location |-> line.location,
                                machine_instruction  |-> UNINIT])
        size    == IF mnemonic = ".FILL" THEN 65536 ELSE 2 * HalfOf(mnemonic)
    IN  /\ outcome.error = IF result = "register" THEN "operands" ELSE result
        /\ result = "none" => outcome.word = machine_instruction % size

(***************************************************************************)
(* The language: the operands each operation takes, by position.           *)
(***************************************************************************)
Of(kind)          == {t \in DOMAIN Notation : Notation[t].kind = kind}
Registers         == Of("register")
Numbers(from, to) == {t \in Of("number") : Notation[t].val \in from .. to}
Labels(from, to)  == {t \in Of("label") \cap DOMAIN Symbols : Symbols[t] \in from .. to}

Reachable(half) == Numbers(-half, half - 1)
                   \cup Labels(line.location + 1 - half, line.location + half)

Values    == Numbers(-32768, 65535) \cup Labels(0, 65536 - line.origin)
Addresses == Numbers(0, 65535)

Formats(op) ==
  CASE op \in {"ADD", "AND"}          -> <<Registers, Registers, Registers \cup Numbers(-16, 15)>>
    [] op = "NOT"                     -> <<Registers, Registers>>
    [] op \in {"JMP", "JMPT", "JSRR"} -> <<Registers>>
    [] op = "JSR"                     -> <<Reachable(1024)>>
    [] op \in BranchOps               -> <<Reachable(256)>>
    [] op \in PCRelativeOps           -> <<Registers, Reachable(256)>>
    [] op \in BaseOffsetOps           -> <<Registers, Registers, Reachable(32)>>
    [] op = "TRAP"                    -> <<Numbers(0, 255)>>
    [] op = ".FILL"                   -> <<Values>>
    [] op \in {".ORIG", ".BLKW"}      -> <<Addresses>>
    [] OTHER                          -> <<>>

(***************************************************************************)
(* What AcceptedExactly presupposes of the texts: strtol reads a number in *)
(* those that are one and in no label, and no register is declared as a    *)
(* label.  Labels like x1 or 3D break it: parse_offset takes them for      *)
(* numbers (lc3util.c:136) and never looks them up.                        *)
(***************************************************************************)
IsRead(notation, symbols, lines) ==
  /\ \A l \in lines : \A i \in DOMAIN l.operands : l.operands[i] \in DOMAIN notation
  /\ \A t \in DOMAIN notation :
       LET kind == notation[t].kind
       IN  /\ kind = "register" <=> Register(t) # -1
           /\ kind = "number" <=> NumericValue(t).ok
           /\ kind = "number" => NumericValue(t) = [ok |-> TRUE, val |-> notation[t].val]
           /\ t \in DOMAIN symbols => kind # "register"
           /\ kind \in {"register", "number", "label"}

NotationIsRead == IsRead(Notation, Symbols, Lines)

(***************************************************************************)
(* A line is accepted exactly when its operands have the kinds and are in  *)
(* the ranges the comments of the parse functions give (imm5, PCoffset9,   *)
(* PCoffset11, offset6, trapvect8), each bound included, and a number then *)
(* has the value it is written with.  Operands behind the last are not     *)
(* looked at.                                                              *)
(***************************************************************************)
AcceptedExactly ==
  pc = "done" /\ result # "label" =>
    LET formats == Formats(mnemonic)
    IN  /\ result = "none" <=>
             /\ Len(operands) >= Len(formats)
             /\ \A i \in DOMAIN formats : operands[i] \in formats[i]
        /\ result = "none" =>
             \A i \in DOMAIN formats :
               operands[i] \in Of("number") =>
                 NumericValue(operands[i]) = [ok |-> TRUE, val |-> Notation[operands[i]].val]
==============================================================================
