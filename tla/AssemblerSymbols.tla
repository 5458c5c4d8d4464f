-------------------------- MODULE AssemblerSymbols ---------------------------
(***************************************************************************)
(* The assembler as a user of its symbol table: what it does with the      *)
(* table is what SymbolTable, the specification Dict implements, allows.   *)
(***************************************************************************)
EXTENDS Assembler

(***************************************************************************)
(* The symbol table as the assembler sees it.  The program is in a loop    *)
(* over it only while the .sym file is written.                            *)
(***************************************************************************)
Serializing == pc = "sym"

SymTab == INSTANCE SymbolTable WITH
  Keys     <- Labels,
  Cardinal <- AddrSpace,
  table    <- dict,
  mode     <- IF Serializing THEN "serialize" ELSE "idle",
  todo     <- IF Serializing THEN ToSerialize ELSE {},
  shift    <- IF Serializing THEN tokenized_lines[0].machine_instruction ELSE 0

(***************************************************************************)
(* assemble() uses the table as its interface promises: it changes it line *)
(* by line in the first pass, leaves it alone in the second, and then adds *)
(* origin - 1 to every label exactly once in a loop nothing else disturbs. *)
(***************************************************************************)
UsesSymbolTable == SymTab!SSpec
==============================================================================
