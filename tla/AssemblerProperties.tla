------------------------ MODULE AssemblerProperties -------------------------
(***************************************************************************)
(* What should hold of Assembler.  MCAssembler checks these formulas and   *)
(* Assembler_proofs proves some of them.                                   *)
(***************************************************************************)
EXTENDS Assembler

(***************************************************************************)
(* The parser, the writer and free_tokenized_lines all stop at the first   *)
(* null pointer of tokenized_lines (assembler.c:90 "setting sentinel       *)
(* values").  So whatever the lexer was given and however it ended, it     *)
(* leaves no gap below instruction_offset and nothing above it; at         *)
(* instruction_offset itself there may be one entry that took no slot.     *)
(***************************************************************************)
NoGaps ==
  /\ \A i \in Address : i < instruction_offset => tokenized_lines[i] # NULL
  /\ \A i \in Address : i > instruction_offset => tokenized_lines[i] = NULL

(***************************************************************************)
(* An offset is computed from instruction_location (lc3util.c:142), a      *)
(* loader goes by the position in the file: the two must agree for every   *)
(* entry that is still to be parsed.                                       *)
(***************************************************************************)
EntriesAtTheirLocation ==
  \A i \in Address :
    HasTokens(tokenized_lines[i]) => tokenized_lines[i].instruction_location = i

(***************************************************************************)
(* The two passes agree on what a label means: an offset field, extended   *)
(* and added to the incremented PC, gives the address the .sym file has    *)
(* (or will have) for the label, and so does a .FILL of the label, also    *)
(* while the symbol table is being relocated under the finished words.     *)
(***************************************************************************)
SymbolAddress(l) ==
  IF sym_file.addr[l] # NULL THEN sym_file.addr[l]
                             ELSE (dict[l] - 1 + origin) % AddrSpace

IsParsed(i) ==
  \/ pc = "parse" /\ 0 < i /\ i < address_offset
  \/ pc \in {"open_sym", "sym_header", "sym", "open_obj", "write"}

Resolves(entry, i) ==
  LET stmt == entry.tokens
      l    == stmt.arg.name
      word == entry.machine_instruction
  IN  stmt.arg.type = "sym" =>
        /\ stmt.type = "offset" =>
             /\ dict[l] # NULL
             /\ (origin + i + SignExtend(word, stmt.half)) % AddrSpace = SymbolAddress(l)
        /\ stmt.type = "fill" => dict[l] # NULL /\ word = SymbolAddress(l)

ReferencesResolve ==
  \A i \in Address :
    IsParsed(i) /\ HasTokens(tokenized_lines[i]) => Resolves(tokenized_lines[i], i)

(***************************************************************************)
(* serialize_symbol_table relocates the table it iterates over: no label   *)
(* is relocated twice, and when the object file is begun the table in      *)
(* memory and the .sym file agree on every label.                          *)
(***************************************************************************)
RelocatedOnce ==
  /\ \A l \in Labels : sym_file.addr[l] # NULL => dict[l] = sym_file.addr[l]
  /\ obj_file.state # "untouched" => dict = sym_file.addr

(***************************************************************************)
(* A rejected program leaves the output files of an earlier run alone, and *)
(* the object file is opened only behind a closed .sym file.               *)
(***************************************************************************)
FilesInOrder ==
  /\ result \in SyntaxErrors => sym_file.state = "untouched"
  /\ obj_file.state # "untouched" => sym_file.state \in {"closed", "short"}

(***************************************************************************)
(* While the object file is written, the words in it and the entries still *)
(* in memory make up the program: entry i is freed once word i is written. *)
(***************************************************************************)
WrittenThenFreed ==
  pc = "write" =>
    /\ Len(obj_file.words) = address_offset
    /\ \A i \in Address : tokenized_lines[i] = FREED <=> i < address_offset

(***************************************************************************)
(* No loop over tokenized_lines comes to an entry it has freed before.     *)
(***************************************************************************)
NoUseAfterFree ==
  pc \in {"write", "free"} => Current # FREED

(***************************************************************************)
(* free_tokenized_lines and the loop over the object file only reach what  *)
(* the table still points to.  What it no longer does is the entry of a    *)
(* .BLKW or .STRINGZ, whose slot its words or the next line took; every    *)
(* other entry a line was given is freed, on every way out of assemble()   *)
(* but a failed fwrite (assembler.c:137).                                  *)
(***************************************************************************)
OnlyBlocksLeak ==
  /\ \A e \in leaked : HasTokens(e) /\ e.tokens.type \in {"blkw", "stringz"}
  /\ pc = "done" /\ result # "obj_write" =>
       \A i \in Address : ~IsEntry(tokenized_lines[i])

(***************************************************************************)
(* When a program fills every slot, so that no sentinel is left, no output *)
(* file is touched: such a run does not end, or is undefined when an error *)
(* makes it free the entries, but leaves no wrong file behind.             *)
(***************************************************************************)
NoOutputWithoutSentinel ==
  (\A i \in Address : tokenized_lines[i] # NULL) => sym_file.state = "untouched"

(***************************************************************************)
(* machine_instruction is the "binary representation of the instruction    *)
(* contained by the line" (lc3.h:24) in every entry the parser has passed, *)
(* but for a further .ORIG, which no branch of parser.c:23-135 handles: no *)
(* other word of the object file is one nobody computed.                   *)
(***************************************************************************)
EveryWordComputed ==
  \A i \in Address :
    /\ IsParsed(i)
    /\ IsEntry(tokenized_lines[i])
    /\ tokenized_lines[i].machine_instruction = UNINIT
    => i > 0 /\ HasTokens(tokenized_lines[i]) /\ tokenized_lines[i].tokens.type = "orig"

(***************************************************************************)
(* The object file has one word for each slot the first pass counted, so   *)
(* the addresses of the labels are those the words are loaded at.          *)
(***************************************************************************)
OneWordPerSlot ==
  result = "success" => Len(obj_file.words) = instruction_offset

(***************************************************************************)
(* "Two files are generated" (README.md:44): a run that reports success    *)
(* has written both of them in full.                                       *)
(***************************************************************************)
SuccessMeansWritten ==
  result = "success" => sym_file.state = "closed" /\ obj_file.state = "closed"

(***************************************************************************)
(* "1st instruction must be .ORIG" (parser.c:8), "Instruction not          *)
(* preceeded by a .orig directive" (directives.c:13): when no call fails,  *)
(* every program is assembled or rejected and never undefined, unless it   *)
(* has no words at all or its first ones are those of a .BLKW or .STRINGZ. *)
(***************************************************************************)
MissingOrigIsReported ==
  pc = "crashed" =>
    LET code == {i \in DOMAIN source : WordsOf(source[i].stmt) > 0}
    IN  \A first \in code : (\A i \in code : first <= i) =>
                             source[first].stmt.type \in {"blkw", "stringz"}

\* The words of the first k lines of the source s
WordsUpTo(s) == LET words[k \in 0 .. Len(s)] ==
                      IF k = 0 THEN 0 ELSE words[k - 1] + WordsOf(s[k].stmt)
                IN  words

(***************************************************************************)
(* The lexer ignores that a label or a line cannot be stored (lexer.c:54,  *)
(* 63); errno remembers it, and getline's end of file is then an error     *)
(* (lexer.c:135).  So a successful run has every label and every word of   *)
(* the source, unless a .END kept the lexer from looking at errno.         *)
(***************************************************************************)
LossesAreReported ==
  result = "success" /\ (\A i \in DOMAIN source : source[i].stmt.type # "end") =>
    /\ \A i \in DOMAIN source :
         source[i].label # NULL => sym_file.addr[source[i].label] # NULL
    /\ instruction_offset = WordsUpTo(source)[Len(source)]

(***************************************************************************)
(* Every run ends, also those that fail: both passes, the serialization    *)
(* and both loops that free entries terminate.                             *)
(***************************************************************************)
Terminates == <>(pc \in {"done", "crashed"})
==============================================================================
