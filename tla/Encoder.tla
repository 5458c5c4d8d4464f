------------------------------- MODULE Encoder --------------------------------
(***************************************************************************)
(* The word of one line: the dispatch of parser.c on the first token, and  *)
(* the parse functions of directives.c and *_instructions.c, on texts and  *)
(* 16-bit words.  It is the detail of Parser.tla's ParseLine, where an     *)
(* operand is classified already and an instruction is its offset field.   *)
(***************************************************************************)
EXTENDS Numerals, Offsets

CONSTANTS
  NULL,       \* lookup: no such symbol
  UNINIT,     \* a word nobody assigned
  Lines,      \* the lines: a first token, the operands, and where the line is
  Symbols     \* the symbol table: the offsets of the declared labels

Word == 0 .. 65535

ASSUME EncoderAssumption ==
  /\ \A l \in DOMAIN Symbols : Symbols[l] \in Word
  /\ NULL \notin Word /\ UNINIT \notin Word
  /\ \A l \in Lines : /\ l.operands \in Seq(Seq(STRING))
                        /\ l.location \in Word /\ l.origin \in Word

VARIABLES
  pc,
  line,                 \* linemetadata_t, but for the word
  opcode,               \* opcode_t
  result,               \* exit_t
  machine_instruction   \* of the same linemetadata_t

vars == <<pc, line, opcode, result, machine_instruction>>

mnemonic == line.token
operands == line.operands

lookup(token) == IF token \in DOMAIN Symbols THEN Symbols[token] ELSE NULL

Init ==
  /\ pc = "line"
  /\ line \in Lines
  /\ opcode = "none"
  /\ result = "none"
  /\ machine_instruction = UNINIT

(***************************************************************************)
(* The first tokens compute_line_type takes for an opcode, and the opcode  *)
(* compute_opcode_type has for each.  The two lists are kept by hand.      *)
(***************************************************************************)
OpcodeLines ==
  {"ADD", "AND", "JMP", "JMPT", "JSR", "JSRR", "NOT", "RET", "RTT", "GETC", "OUT",
   "PUTS", "IN", "PUTSP", "HALT", "LD", "ST", "LDI", "STI", "LEA", "BR", "BRnzp",
   "BRnz", "BRnp", "BRzp", "BRn", "BRz", "BRp", "LDR", "STR", "RTI", "TRAP"}

OpcodeTypes ==
  {"ADD", "AND", "JMP", "JMPT", "JSR", "NOT", "RET", "RTT", "LD", "ST", "LDI", "STI",
   "LEA", "BR", "BRnzp", "BRn", "BRz", "BRp", "BRnz", "BRnp", "BRzp", "GETC", "OUT",
   "PUTS", "IN", "PUTSP", "HALT", "JSRR", "LDR", "STR", "RTI", "TRAP"}

Directives == {".ORIG", ".FILL", ".BLKW"}

LineType ==
  /\ pc = "line"
  /\ CASE mnemonic \in OpcodeLines -> pc' = "opcode" /\ UNCHANGED <<opcode, result>>
       [] mnemonic \in Directives  -> pc' = "parse" /\ opcode' = mnemonic /\ UNCHANGED result
       [] OTHER                      -> pc' = "done" /\ result' = "label" /\ UNCHANGED opcode
  /\ UNCHANGED <<line, machine_instruction>>

\* Mutant: JSRR is missing from the list.
OpcodeTypeWithoutJSRR ==
  /\ pc = "opcode"
  /\ IF mnemonic \in OpcodeTypes \ {"JSRR"}
       THEN pc' = "parse" /\ opcode' = mnemonic
       ELSE pc' = "aborted" /\ UNCHANGED opcode
  /\ UNCHANGED <<line, result, machine_instruction>>

OpcodeType ==
  /\ pc = "opcode"
  /\ IF mnemonic \in OpcodeTypes
       THEN pc' = "parse" /\ opcode' = mnemonic
       ELSE pc' = "aborted" /\ UNCHANGED opcode
  /\ UNCHANGED <<line, result, machine_instruction>>

(***************************************************************************)
(* The outcome of a parse function that wants n operands, of which those   *)
(* in regs are registers, if they are there.                               *)
(***************************************************************************)
Checked(n, regs, outcome) ==
  IF Len(operands) < n THEN Rejected("operands")
  ELSE IF \E i \in regs : Register(operands[i]) = -1 THEN Rejected("register")
  ELSE outcome

(***************************************************************************)
(* A parse function, which is entered for the opcodes ops.  After an error *)
(* the word is documented as undefined and nobody reads it; it is left     *)
(* alone here, where parse_add_and has assigned a part of it.              *)
(***************************************************************************)
Parse(ops, n, regs, outcome) ==
  /\ pc = "parse"
  /\ opcode \in ops
  /\ pc' = "done"
  /\ LET o == Checked(n, regs, outcome)
     IN  /\ result' = o.error
         /\ machine_instruction' =
              IF o.error = "none" THEN o.word % 65536 ELSE machine_instruction
  /\ UNCHANGED <<line, opcode>>

Reg(i) == Register(operands[i])

\* Mutant: the upper bound of the range is off by one.
InRangeTooWide(number, lower, upper) ==
  IF ~number.ok THEN Rejected("not_numeric")
  ELSE IF number.val \notin lower .. upper + 1 THEN Rejected("out_of_range")
  ELSE Parsed(number.val)

(***************************************************************************)
(* A number in a range: parse_imm5, parse_trapvector, parse_memory_address.*)
(***************************************************************************)
InRange(number, lower, upper) ==
  IF ~number.ok THEN Rejected("not_numeric")
  ELSE IF number.val \notin lower .. upper THEN Rejected("out_of_range")
  ELSE Parsed(number.val)

(***************************************************************************)
(* "is value a label or a number?" (lc3util.c:135): only what strtol reads *)
(* no number in is looked up, and then has the value label.                *)
(***************************************************************************)
NumberOrLabel(token, label) ==
  IF NumericValue(token).ok THEN NumericValue(token)
  ELSE IF lookup(token) = NULL THEN [ok |-> FALSE, val |-> 0]
  ELSE [ok |-> TRUE, val |-> label]

\* Mutant: the offset is taken from the instruction itself.
parse_offset_unincremented(token, half) ==
  LET offset == NumberOrLabel(token, lookup(token) - line.location)
  IN  IF offset.ok THEN OffsetField(offset.val, half) ELSE Rejected("symbol_not_found")

(***************************************************************************)
(* parse_offset: the distance of a label from the incremented PC, whatever *)
(* the instruction adds it to, in a field with the range -half .. half - 1.*)
(***************************************************************************)
parse_offset(token, half) ==
  LET offset == NumberOrLabel(token, lookup(token) - line.location - 1)
  IN  IF offset.ok THEN OffsetField(offset.val, half) ELSE Rejected("symbol_not_found")

\* The outcome o behind the fixed bits of an instruction
Plus(bits, o) == IF o.error = "none" THEN Parsed(bits + o.word) ELSE o

parse_fill ==
  LET value == NumberOrLabel(operands[1], lookup(operands[1]) - 1 + line.origin)
  IN  Parse({".FILL"}, 1, {},
            IF ~value.ok THEN Rejected("symbol_not_found") ELSE InRange(value, -32768, 65535))

parse_address ==
  Parse({".ORIG", ".BLKW"}, 1, {}, InRange(NumericValue(operands[1]), 0, 65535))

\* Mutant: a negative immediate is not brought into its five bits.
Imm5Signed(token) == Plus(32, InRange(NumericValue(token), -16, 15))

Imm5(token) ==
  LET imm5 == InRange(NumericValue(token), -16, 15)
  IN  Plus(32, IF imm5.word < 0 THEN Parsed(imm5.word + 32) ELSE imm5)

parse_add_and ==
  Parse({"ADD", "AND"}, 3, {1, 2},
        Plus((IF opcode = "ADD" THEN 1 ELSE 5) * 4096 + Reg(1) * 512 + Reg(2) * 64,
             IF Reg(3) > -1 THEN Parsed(Reg(3)) ELSE Imm5(operands[3])))

parse_not == Parse({"NOT"}, 2, {1, 2}, Parsed(9 * 4096 + Reg(1) * 512 + Reg(2) * 64 + 63))

parse_jump_instruction ==
  Parse({"JMP", "JMPT", "JSRR"}, 1, {1},
        Parsed(  (IF opcode = "JSRR" THEN 4 ELSE 12) * 4096
               + Reg(1) * 64 + (IF opcode = "JMPT" THEN 1 ELSE 0)))

parse_jsr == Parse({"JSR"}, 1, {}, Plus(4 * 4096 + 2048, parse_offset(operands[1], 1024)))

ConditionCodes == [BR |-> 7, BRnzp |-> 7, BRn |-> 4, BRz |-> 2, BRp |-> 1,
                   BRnz |-> 6, BRnp |-> 5, BRzp |-> 3]

parse_br ==
  Parse(DOMAIN ConditionCodes, 1, {},
        Plus(ConditionCodes[opcode] * 512, parse_offset(operands[1], 256)))

PCRelative == [LD |-> 2, ST |-> 3, LDI |-> 10, STI |-> 11, LEA |-> 14]

parse_pc_relative_addressing_mode ==
  Parse(DOMAIN PCRelative, 2, {1},
        Plus(PCRelative[opcode] * 4096 + Reg(1) * 512, parse_offset(operands[2], 256)))

\* Mutant: the bounds of the six-bit offset are those of seven bits.
parse_base_plus_offset_too_wide ==
  Parse({"LDR", "STR"}, 3, {1, 2},
        Plus((IF opcode = "LDR" THEN 6 ELSE 7) * 4096 + Reg(1) * 512 + Reg(2) * 64,
             parse_offset(operands[3], 64)))

BaseOffset == [LDR |-> 6, STR |-> 7]

parse_base_plus_offset_addressing_mode ==
  Parse(DOMAIN BaseOffset, 3, {1, 2},
        Plus(BaseOffset[opcode] * 4096 + Reg(1) * 512 + Reg(2) * 64,
             parse_offset(operands[3], 32)))

parse_trap ==
  Parse({"TRAP"}, 1, {}, Plus(15 * 4096, InRange(NumericValue(operands[1]), 0, 255)))

(***************************************************************************)
(* The instructions without operands, whose words parser.c has.            *)
(***************************************************************************)
FixedWord(op) ==
  CASE op = "RET"   -> 49600   \* 0xc1c0
    [] op = "RTT"   -> 49601   \* 0xc1c1
    [] op = "RTI"   -> 32768   \* 0x8000
    [] op = "GETC"  -> 61472   \* 0xf020
    [] op = "OUT"   -> 61473
    [] op = "PUTS"  -> 61474
    [] op = "IN"    -> 61475
    [] op = "PUTSP" -> 61476
    [] op = "HALT"  -> 61477

parse_fixed ==
  Parse({"RET", "RTT", "RTI", "GETC", "OUT", "PUTS", "IN", "PUTSP", "HALT"}, 0, {},
        Parsed(FixedWord(opcode)))

Terminating == pc \in {"done", "aborted"} /\ UNCHANGED vars

Next ==
  \/ LineType \/ OpcodeType
  \/ parse_fill \/ parse_address \/ parse_add_and \/ parse_not \/ parse_jump_instruction
  \/ parse_jsr \/ parse_br \/ parse_pc_relative_addressing_mode
  \/ parse_base_plus_offset_addressing_mode \/ parse_trap \/ parse_fixed
  \/ Terminating

Spec == Init /\ [][Next]_vars
==============================================================================
