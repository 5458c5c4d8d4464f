------------------------------ MODULE Assembler ------------------------------
(***************************************************************************)
(* assemble() (assembler.c): one run of the program.  It checks the file   *)
(* name, runs the two passes, writes the symbol table (relocating every    *)
(* label from an offset to an address in place) and writes the object      *)
(* file, freeing each entry as it goes.                                    *)
(***************************************************************************)
EXTENDS Lexer, Parser

lineVars == <<lexVars, tokenized_lines, origin>>

Return(r) == result' = r /\ pc' = "done"

(***************************************************************************)
(* sym_obj_file_names: the name has the suffix .asm, another one, or no    *)
(* dot at all, when strcmp is given the null pointer.  With the right      *)
(* suffix tokenized_lines is allocated and filled with the sentinel, also  *)
(* through the null pointer of a failed malloc.                            *)
(***************************************************************************)
FileNames ==
  /\ pc = "start"
  /\ \/ pc' = "open_asm" /\ UNCHANGED result
     \/ Return("suffix")
  /\ UNCHANGED <<lineVars, dict, address_offset, fileVars>>

FileNamesCrash == pc = "start" /\ Crash

OpenAsm ==
  /\ pc = "open_asm"
  /\ \/ pc' = "lex" /\ UNCHANGED result
     \/ "fopen" \in Faults /\ Return("open_asm")
  /\ UNCHANGED <<lineVars, dict, address_offset, fileVars>>

\* Mutant: the error return does not free tokenized_lines.
OpenSymLeaking ==
  /\ pc = "open_sym"
  /\ \/ /\ sym_file' = [sym_file EXCEPT !.state = "open"]
        /\ pc' = "sym_header"
        /\ UNCHANGED result
     \/ "fopen" \in Faults /\ Return("open_sym") /\ UNCHANGED sym_file
  /\ UNCHANGED <<lineVars, dict, address_offset, obj_file>>

OpenSym ==
  /\ pc = "open_sym"
  /\ \/ /\ sym_file' = [sym_file EXCEPT !.state = "open"]
        /\ pc' = "sym_header"
        /\ UNCHANGED <<result, address_offset>>
     \/ /\ "fopen" \in Faults
        /\ Fail("open_sym")
        /\ UNCHANGED sym_file
  /\ UNCHANGED <<lineVars, dict, obj_file>>

(***************************************************************************)
(* A print to the .sym file fails: the file is closed with what it has.    *)
(***************************************************************************)
SymWriteFails ==
  /\ "fprintf" \in Faults
  /\ Fail("sym_write")
  /\ sym_file' = [sym_file EXCEPT !.state = "closed"]
  /\ UNCHANGED <<lineVars, obj_file>>

SymHeader ==
  /\ pc = "sym_header"
  /\ \/ /\ pc' = "sym"
        /\ UNCHANGED <<result, address_offset, lineVars, fileVars>>
     \/ SymWriteFails
  /\ UNCHANGED dict

(***************************************************************************)
(* The labels serialize_symbol_table has not come to.                      *)
(***************************************************************************)
ToSerialize == {l \in Labels : dict[l] # NULL /\ sym_file.addr[l] = NULL}

\* Mutant: the table keeps the offset.
SerializeSymbolWithoutAdd(l) ==
  /\ pc = "sym"
  /\ l \in ToSerialize
  /\ sym_file' = [sym_file EXCEPT !.addr[l] =
                    (dict[l] - 1 + tokenized_lines[0].machine_instruction) % AddrSpace]
  /\ UNCHANGED <<pc, result, dict, address_offset, lineVars, obj_file>>

(***************************************************************************)
(* One iteration of the loop, on the next label in the order of the hash   *)
(* table.  The label is relocated before it is printed.                    *)
(***************************************************************************)
SerializeSymbol(l) ==
  LET address == (dict[l] - 1 + tokenized_lines[0].machine_instruction) % AddrSpace
  IN  /\ pc = "sym"
      /\ l \in ToSerialize
      /\ dict' = [dict EXCEPT ![l] = address]
      /\ \/ /\ sym_file' = [sym_file EXCEPT !.addr[l] = address]
            /\ UNCHANGED <<pc, result, address_offset, lineVars, obj_file>>
         \/ SymWriteFails

(***************************************************************************)
(* What fclose leaves of a file.  Nobody looks at its result.              *)
(***************************************************************************)
Closed == {"closed"} \cup (IF "fclose" \in Faults THEN {"short"} ELSE {})

SerializeEnd ==
  /\ pc = "sym"
  /\ ToSerialize = {}
  /\ pc' = "open_obj"
  /\ \E s \in Closed : sym_file' = [sym_file EXCEPT !.state = s]
  /\ UNCHANGED <<result, lineVars, dict, address_offset, obj_file>>

OpenObj ==
  /\ pc = "open_obj"
  /\ \/ /\ obj_file' = [obj_file EXCEPT !.state = "open"]
        /\ pc' = "write"
        /\ address_offset' = 0
        /\ UNCHANGED result
     \/ /\ "fopen" \in Faults
        /\ Fail("open_obj")
        /\ UNCHANGED obj_file
  /\ UNCHANGED <<lineVars, dict, sym_file>>

\* Mutant: the entry is not freed.
WriteWordKept ==
  /\ pc = "write"
  /\ IsEntry(Current)
  /\ obj_file' = [obj_file EXCEPT !.words = Append(@, Current.machine_instruction)]
  /\ address_offset' = NextAddress
  /\ UNCHANGED <<pc, result, lineVars, dict, sym_file>>

(***************************************************************************)
(* write_machine_instruction and free_line_metadata on the current entry.  *)
(***************************************************************************)
WriteWord ==
  /\ pc = "write"
  /\ IsEntry(Current)
  /\ obj_file' = [obj_file EXCEPT !.words = Append(@, Current.machine_instruction)]
  /\ tokenized_lines' = [tokenized_lines EXCEPT ![address_offset] = FREED]
  /\ address_offset' = NextAddress
  /\ UNCHANGED <<pc, result, lexVars, origin, dict, sym_file>>

\* Mutant: the error return frees tokenized_lines, like the others.
WriteFailsFreeing ==
  /\ pc = "write"
  /\ IsEntry(Current)
  /\ "fwrite" \in Faults
  /\ obj_file' = [obj_file EXCEPT !.state = "short"]
  /\ Fail("obj_write")
  /\ UNCHANGED <<lineVars, dict, sym_file>>

WriteFails ==
  /\ pc = "write"
  /\ IsEntry(Current)
  /\ "fwrite" \in Faults
  /\ obj_file' = [obj_file EXCEPT !.state = "short"]
  /\ Return("obj_write")
  /\ UNCHANGED <<lineVars, dict, address_offset, sym_file>>

WriteEnd ==
  /\ pc = "write"
  /\ Current = NULL
  /\ \E s \in Closed : obj_file' = [obj_file EXCEPT !.state = s]
  /\ Return("success")
  /\ UNCHANGED <<lineVars, dict, address_offset, sym_file>>

(***************************************************************************)
(* free_tokenized_lines, after an error.                                   *)
(***************************************************************************)
FreeEntry ==
  /\ pc = "free"
  /\ IsEntry(Current)
  /\ tokenized_lines' = [tokenized_lines EXCEPT ![address_offset] = FREED]
  /\ address_offset' = NextAddress
  /\ UNCHANGED <<pc, result, lexVars, origin, dict, fileVars>>

FreeEnd ==
  /\ pc = "free"
  /\ Current = NULL
  /\ pc' = "done"
  /\ UNCHANGED <<result, lineVars, dict, address_offset, fileVars>>

(***************************************************************************)
(* Either loop meets an entry it freed before: its index has gone round.   *)
(***************************************************************************)
UseAfterFree ==
  /\ pc \in {"write", "free"}
  /\ Current = FREED
  /\ Crash

Terminating == pc \in {"done", "crashed"} /\ UNCHANGED vars

Step ==
  \/ FileNames \/ FileNamesCrash \/ OpenAsm
  \/ Lex
  \/ Parse
  \/ OpenSym \/ SymHeader \/ (\E l \in Labels : SerializeSymbol(l)) \/ SerializeEnd
  \/ OpenObj \/ WriteWord \/ WriteFails \/ WriteEnd
  \/ FreeEntry \/ FreeEnd \/ UseAfterFree

Next == Step \/ Terminating

Spec == Init /\ [][Next]_vars

(***************************************************************************)
(* The program is one thread and every file it reads is finite, so it      *)
(* takes its next step until it has none.                                  *)
(***************************************************************************)
FairSpec == Spec /\ WF_vars(Step)
==============================================================================
