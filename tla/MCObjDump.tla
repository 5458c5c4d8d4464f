------------------------------ MODULE MCObjDump ------------------------------
(***************************************************************************)
(* Instances of ObjDump for TLC: short programs whose words have different *)
(* bytes, among them 0, 255 and the digits of all bases.                   *)
(***************************************************************************)
EXTENDS ObjDumpProperties

ProgramsAll == {<<>>, <<12288>>, <<65280, 255>>, <<4660, 43981>>, <<12288, 61477, 27499>>}
==============================================================================
