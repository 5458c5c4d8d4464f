---------------------------- MODULE AssemblyState ----------------------------
(***************************************************************************)
(* The state of one process running assemble(), shared by the modules of   *)
(* its phases: Lexer, Parser and Assembler.                                *)
(*                                                                         *)
(* pc names the next statement of assemble() or of the loop it is in.  The *)
(* program is sequential: exactly one phase can take a step.               *)
(***************************************************************************)
EXTENDS LC3

CONSTANT
  Faults  \* the library calls that may fail in this environment

ASSUME FaultsAssumption ==
  Faults \subseteq {"malloc", "getline", "fopen", "fprintf", "fwrite", "fclose"}

VARIABLES
  pc,
  result,              \* exit_t: "none" until assemble() has a result
  source,              \* the lines the lexer has read so far
  tokenized_lines,
  leaked,              \* the entries whose pointer was overwritten; no code reads it
  instruction_offset,
  errno,               \* "none" until a call of the lexer sets it
  dict,                \* the symbol table: the value of each label, or NULL
  origin,              \* do_syntax_analysis's copy of the .ORIG operand
  address_offset,      \* the index of the loops over tokenized_lines
  sym_file,
  obj_file

lexVars  == <<source, leaked, instruction_offset, errno>>
fileVars == <<sym_file, obj_file>>
vars     == <<pc, result, source, leaked, tokenized_lines, instruction_offset, errno,
              dict, origin, address_offset, sym_file, obj_file>>

Phase == {"start", "open_asm", "lex", "parse_orig", "parse", "open_sym",
          "sym_header", "sym", "open_obj", "write", "free", "done", "crashed"}

SyntaxErrors == {"blkw_operand", "bad_string", "not_orig", "orig_operand",
                 "invalid_opcode", "operands", "symbol_not_found",
                 "out_of_range"}
Errors == SyntaxErrors \cup
          {"suffix", "open_asm", "getline", "out_of_memory", "open_sym",
           "sym_write", "open_obj", "obj_write"}

(***************************************************************************)
(* An output file: as it was before the run, open for writing, closed with *)
(* all that was written, or closed short because the last flush failed.    *)
(***************************************************************************)
FileState == {"untouched", "open", "closed", "short"}
SymFile   == [state : FileState, addr : [Labels -> Address \cup {NULL}]]
ObjFile   == [state : FileState, words : Seq(Word \cup {UNINIT})]

NoSymbols   == [l \in Labels |-> NULL]
NoLines     == [i \in Address |-> NULL]
NextAddress == (address_offset + 1) % AddrSpace   \* address_offset++ on a memaddr_t
Current     == tokenized_lines[address_offset]
IsEntry(p)  == p \notin {NULL, FREED}

(***************************************************************************)
(* A phase reports error e: assemble() frees tokenized_lines and returns e.*)
(***************************************************************************)
Fail(e) ==
  /\ result' = e
  /\ pc' = "free"
  /\ address_offset' = 0

(***************************************************************************)
(* A null or dangling pointer is dereferenced.  The behaviour is undefined *)
(* and the model stops here.                                               *)
(***************************************************************************)
Crash ==
  /\ pc' = "crashed"
  /\ UNCHANGED <<result, lexVars, tokenized_lines, dict, origin, address_offset, fileVars>>

Init ==
  /\ pc = "start"
  /\ result = "none"
  /\ source = <<>>
  /\ leaked = {}
  /\ tokenized_lines = NoLines
  /\ instruction_offset = 0
  /\ errno = "none"
  /\ dict = NoSymbols
  /\ origin = 0
  /\ address_offset = 0
  /\ sym_file = [state |-> "untouched", addr |-> NoSymbols]
  /\ obj_file = [state |-> "untouched", words |-> <<>>]

TypeOK ==
  /\ pc \in Phase
  /\ result \in Errors \cup {"none", "success"}
  /\ source \in Seq(Lines)
  /\ leaked \subseteq LineMetadata
  /\ tokenized_lines \in [Address -> LineMetadata \cup {NULL, FREED}]
  /\ instruction_offset \in Address
  /\ errno \in {"none", "ENOMEM"}
  /\ dict \in [Labels -> Address \cup {NULL}]
  /\ origin \in Address
  /\ address_offset \in Address
  /\ sym_file \in SymFile
  /\ obj_file \in ObjFile
==============================================================================
