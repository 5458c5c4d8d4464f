------------------------- MODULE AssemblerRefinement -------------------------
(***************************************************************************)
(* Assembler implements AssemblySpec.                                      *)
(***************************************************************************)
EXTENDS Assembler

(***************************************************************************)
(* The abstract view: nothing is visible until the run ends.               *)
(* The files are what was handed to their streams; that fclose may lose    *)
(* the end of it, and nobody looks, is SuccessMeansWritten in               *)
(* AssemblerProperties.                                                    *)
(***************************************************************************)
Ended == pc \in {"done", "crashed"}

Abstract == INSTANCE AssemblySpec WITH
  Rejections <- SyntaxErrors,
  Failures   <- Errors \ SyntaxErrors,
  status     <- CASE pc = "done" -> result [] pc = "crashed" -> "crashed" [] OTHER -> "running",
  src        <- IF Ended THEN source ELSE <<>>,
  obj        <- IF Ended /\ obj_file.state # "untouched" THEN obj_file.words ELSE NULL,
  sym        <- IF Ended /\ sym_file.state # "untouched" THEN sym_file.addr ELSE NULL

(***************************************************************************)
(* The two passes, the relocation of the symbol table and the two write    *)
(* loops together do what AssemblySpec says of the source file.            *)
(***************************************************************************)
ImplementsAssemblySpec == Abstract!ASpec
==============================================================================
