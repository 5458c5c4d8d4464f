---------------------------- MODULE AssemblySpec -----------------------------
(***************************************************************************)
(* What the assembler promises, without passes, tables or loops: a source  *)
(* file determines an image and a symbol table, or it is rejected and no   *)
(* file is touched.  Assembler.tla is shown to implement this.             *)
(*                                                                         *)
(* The meaning of a source file s is given line by line, from the assembly *)
(* language README.md describes and from the formats of the two output     *)
(* files: the address of a line is the origin plus the words of the lines  *)
(* before it.                                                              *)
(***************************************************************************)
EXTENDS LC3, FiniteSetsExt

Sources == {s \in Seq(Lines) : \A i \in DOMAIN s : s[i].stmt.type = "end" => i = Len(s)}

(***************************************************************************)
(* Layout: .ORIG is a directive and takes no memory.                       *)
(***************************************************************************)
Size(stmt) == IF stmt.type = "orig" THEN 0 ELSE WordsOf(stmt)

Before(s, i) ==
  LET sum[j \in 0 .. Len(s)] == IF j = 0 THEN 0 ELSE sum[j - 1] + Size(s[j].stmt)
  IN  sum[i - 1]

ImageSize(s)  == Before(s, Len(s) + 1)
CodeLines(s)  == {i \in DOMAIN s : s[i].stmt.type \notin {"none", "end"}}
OrigLines(s)  == {i \in DOMAIN s : s[i].stmt.type = "orig"}
HasOrigin(s)  == /\ CodeLines(s) # {}
                 /\ LET first == s[Min(CodeLines(s))].stmt
                    IN  first.type = "orig" /\ IsMemoryAddress(first.arg)
Origin(s)     == s[Min(CodeLines(s))].stmt.arg.val
Declared(s, l) == {i \in DOMAIN s : s[i].label = l}

AddressOf(s, i)    == Origin(s) + Before(s, i)
LabelAddress(s, l) == AddressOf(s, Max(Declared(s, l)))

(***************************************************************************)
(* The value of an operand: of a label, its address.                       *)
(***************************************************************************)
Known(s, arg) == arg.type = "num" \/ (arg.type = "sym" /\ Declared(s, arg.name) # {})
Value(s, arg) == IF arg.type = "num" THEN arg.val ELSE LabelAddress(s, arg.name)

(***************************************************************************)
(* The distance an instruction at line i spans, from the incremented PC.   *)
(***************************************************************************)
Distance(s, i) ==
  LET arg == s[i].stmt.arg
  IN  IF arg.type = "num" THEN arg.val
                          ELSE LabelAddress(s, arg.name) - (AddressOf(s, i) + 1)

LegalLine(s, i) ==
  LET stmt == s[i].stmt
  IN  CASE stmt.type = "label"   -> FALSE
        [] stmt.type = "blkw"    -> IsMemoryAddress(stmt.arg)
        [] stmt.type = "stringz" -> stmt.arg.type # "missing"
        [] stmt.type = "op"      -> stmt.arg.type = "num"
        [] stmt.type = "fill"    -> /\ Known(s, stmt.arg)
                                    /\ Value(s, stmt.arg) \in -(AddrSpace \div 2) .. AddrSpace - 1
        [] stmt.type = "offset"  -> /\ Known(s, stmt.arg)
                                    /\ Distance(s, i) \in -stmt.half .. stmt.half - 1
        [] OTHER                 -> TRUE

Legal(s) == HasOrigin(s) /\ \A i \in DOMAIN s : LegalLine(s, i)

(***************************************************************************)
(* The words line i of a legal source stands for.                          *)
(***************************************************************************)
WordsAt(s, i) ==
  LET stmt == s[i].stmt
  IN  CASE stmt.type = "blkw"    -> [k \in 1 .. stmt.arg.val |-> 0]
        [] stmt.type = "stringz" -> Append(stmt.chars, 0)
        [] stmt.type = "op"      -> <<stmt.arg.val>>
        [] stmt.type = "fill"    -> <<Value(s, stmt.arg) % AddrSpace>>
        [] stmt.type = "offset"  -> <<Distance(s, i) % (2 * stmt.half)>>
        [] OTHER                 -> <<>>

(***************************************************************************)
(* The .obj file: the origin, then the word at each address.  The .sym     *)
(* file: the address of each label.                                        *)
(***************************************************************************)
Image(s) ==
  [a \in 1 .. ImageSize(s) + 1 |->
     IF a = 1 THEN Origin(s)
     ELSE LET i == CHOOSE i \in DOMAIN s :
                     a - 2 \in Before(s, i) .. Before(s, i + 1) - 1
          IN  WordsAt(s, i)[a - 1 - Before(s, i)]]

Symbols(s) ==
  [l \in Labels |-> IF Declared(s, l) = {} THEN NULL ELSE LabelAddress(s, l)]

(***************************************************************************)
(* The sources the promise is about.  The others are those for which the   *)
(* code does something README.md does not say: no line of code at all, or  *)
(* data before the .ORIG; a second .ORIG; a label before the .ORIG; a      *)
(* .BLKW 0 at the end; a program or a label beyond the end of memory.      *)
(***************************************************************************)
FitsInMemory(s) ==
  HasOrigin(s) =>
    /\ Origin(s) + ImageSize(s) <= AddrSpace
    /\ \A i \in DOMAIN s : s[i].label # NULL => AddressOf(s, i) < AddrSpace

Canonical(s) ==
  /\ CodeLines(s) # {}
  /\ s[Min(CodeLines(s))].stmt.type \notin {"blkw", "stringz"}
  /\ \A i, j \in OrigLines(s) : i = j
  /\ \A i \in OrigLines(s), j \in DOMAIN s : j <= i => s[j].label = NULL
  /\ s[Max(CodeLines(s))].stmt.type = "blkw" => WordsOf(s[Max(CodeLines(s))].stmt) > 0
  /\ FitsInMemory(s)

-----------------------------------------------------------------------------
VARIABLES
  status,  \* "running", or how the run ended
  src,     \* the source file, once it has ended
  obj,     \* the words of the .obj file, NULL when it was not touched
  sym      \* the addresses in the .sym file, NULL when it was not touched

avars == <<status, src, obj, sym>>

CONSTANTS Rejections, Failures

AInit == status = "running" /\ src = <<>> /\ obj = NULL /\ sym = NULL

Ends == status = "running" /\ src' \in Sources

Accept ==
  /\ Ends
  /\ Legal(src')
  /\ status' = "success"
  /\ obj' = Image(src')
  /\ sym' = Symbols(src')

Reject ==
  /\ Ends
  /\ ~Legal(src')
  /\ status' \in Rejections
  /\ obj' = NULL
  /\ sym' = NULL

(***************************************************************************)
(* The system fails the program.  What was written until then is right,    *)
(* and the object file is not begun before the symbol table is complete.   *)
(***************************************************************************)
GiveUp ==
  /\ Ends
  /\ status' \in Failures
  /\ sym' # NULL =>
       /\ Legal(src')
       /\ \A l \in Labels : sym'[l] \in {NULL, Symbols(src')[l]}
  /\ obj' # NULL =>
       /\ sym' = Symbols(src')
       /\ Len(obj') <= Len(Image(src'))
       /\ obj' = SubSeq(Image(src'), 1, Len(obj'))

Undefined == Ends /\ ~Canonical(src')

ANext == Accept \/ Reject \/ GiveUp \/ Undefined

ASpec == AInit /\ [][ANext]_avars
==============================================================================
