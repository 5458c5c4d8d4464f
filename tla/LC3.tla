--------------------------------- MODULE LC3 ---------------------------------
(***************************************************************************)
(* The data the two passes of the assembler share (include/lc3.h):         *)
(* addresses, source lines as the lexer sees them, and the line metadata   *)
(* that tokenized_lines holds.                                             *)
(*                                                                         *)
(* The 16-bit machine is scaled: AddrSpace stands for                      *)
(* ADDRESS_SPACE_CARDINALITY = 65536, the number of slots of               *)
(* tokenized_lines, and for the modulus of memaddr_t, of uint16_t and of   *)
(* the values of the symbol table.  In an instruction with a PC offset     *)
(* only the offset field is kept, since its opcode and registers are fixed *)
(* bits that no label changes.                                             *)
(***************************************************************************)
EXTENDS Integers, Sequences

CONSTANTS
  AddrSpace,  \* ADDRESS_SPACE_CARDINALITY
  Labels,     \* the names a source file may use as labels
  Lines,      \* the lines a source file may consist of
  NULL,       \* the null pointer
  UNINIT,     \* the contents of malloc'd memory nobody assigned
  FREED       \* a pointer to memory given back with free

ASSUME AddrSpaceAssumption == AddrSpace \in Nat /\ AddrSpace >= 4

Address == 0 .. AddrSpace - 1
Word    == Address

(***************************************************************************)
(* An operand: absent (or a register that is none), a text strtol reads as *)
(* a number, or any other text, which is looked up as a symbol.            *)
(***************************************************************************)
Operand == [type : {"missing", "num", "sym"},
            val  : Int,
            name : Labels \cup {NULL}]

(***************************************************************************)
(* What follows the optional label of a line, by compute_line_type.        *)
(*   none    nothing, or a comment                                         *)
(*   label   a second label, i.e. any unrecognised token                   *)
(*   offset  an instruction whose operand goes through parse_offset, with  *)
(*           the offset range -half .. half - 1                            *)
(*   op      an instruction that depends neither on a label nor on its own *)
(*           location: its operand is the word it encodes to               *)
(* chars is the string between the quotation marks of a .STRINGZ, whose    *)
(* operand is "missing" when the quotation marks or the escapes are wrong. *)
(***************************************************************************)
LineType == {"none", "end", "label", "orig", "fill", "blkw", "stringz",
             "offset", "op"}

HalfRange == {h \in Nat \ {0} : 2 * h <= AddrSpace}

Stmt == [type  : LineType,
         arg   : Operand,
         half  : HalfRange,
         chars : Seq(Word)]

Line == [label : Labels \cup {NULL}, stmt : Stmt]

ASSUME LinesAssumption ==
  /\ Lines \subseteq Line
  /\ \A l \in Lines :
       /\ l.stmt.arg.type = "sym" => l.stmt.arg.name \in Labels
       /\ l.stmt.type = "op" /\ l.stmt.arg.type = "num" => l.stmt.arg.val \in Word

LineStmts == {l.stmt : l \in Lines}

ASSUME SentinelAssumption ==
  /\ NULL \notin Labels
  /\ NULL \notin Address
  /\ NULL \notin LineStmts
  /\ NULL # FREED
  /\ UNINIT \notin Word

(***************************************************************************)
(* linemetadata_t.  tokens is NULL in the entries a .BLKW or .STRINGZ      *)
(* expands to, whose word is known at once.                                *)
(***************************************************************************)
LineMetadata == [tokens               : LineStmts \cup {NULL},
                 instruction_location : Address \cup {UNINIT},
                 machine_instruction  : Word \cup {UNINIT}]

ASSUME PointerAssumption == NULL \notin LineMetadata /\ FREED \notin LineMetadata

Tokenized(stmt, loc) == [tokens               |-> stmt,
                         instruction_location |-> loc,
                         machine_instruction  |-> UNINIT]

Expanded(word) == [tokens               |-> NULL,
                   instruction_location |-> UNINIT,
                   machine_instruction  |-> word]

(***************************************************************************)
(* parse_memory_address: a number in 0 .. 0xFFFF.                          *)
(***************************************************************************)
IsMemoryAddress(arg) == arg.type = "num" /\ arg.val \in Address

(***************************************************************************)
(* The number of slots of tokenized_lines a line that lexes takes.         *)
(***************************************************************************)
WordsOf(stmt) ==
  CASE stmt.type \in {"none", "end"} -> 0
    [] stmt.type = "blkw"            -> IF IsMemoryAddress(stmt.arg) THEN stmt.arg.val ELSE 0
    [] stmt.type = "stringz"         -> Len(stmt.chars) + 1
    [] OTHER                         -> 1
==============================================================================
