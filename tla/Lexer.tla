-------------------------------- MODULE Lexer --------------------------------
(***************************************************************************)
(* do_lexical_analysis (lexer.c): the first pass.  Each step is one        *)
(* iteration of the getline loop: it enters the label of the line in the   *)
(* symbol table with the current offset, and stores the rest of the line   *)
(* in tokenized_lines, where a .BLKW or .STRINGZ is expanded at once into  *)
(* the words it stands for.                                                *)
(***************************************************************************)
EXTENDS AssemblyState

CONSTANTS
  MaxLines,  \* bound: the lines of a source file
  MaxWords   \* bound: the offset a line leads to, before it goes round

ASSUME BoundsAssumption ==
  /\ MaxLines \in Nat
  /\ MaxWords \in Nat \ {0}

NextOffsetLeavingGap(n) == (instruction_offset + n + 1) % AddrSpace  \* mutant: counts one word too many

NextOffset(n) == (instruction_offset + n) % AddrSpace

(***************************************************************************)
(* table with the entries of the words ws from index at on; the index is a *)
(* memaddr_t.  The last word a slot is given is the one that stays, and    *)
(* back is how many words follow it.                                       *)
(***************************************************************************)
Place(table, at, ws) ==
  [i \in Address |->
     LET back == (at + Len(ws) - 1 - i) % AddrSpace
     IN  IF back < Len(ws) THEN Expanded(ws[Len(ws) - back]) ELSE table[i]]

(***************************************************************************)
(* A line stores its entry and then the words ws in table.  The entries    *)
(* that were in these slots are not freed (lexer.c:101, 118; directives.c: *)
(* 231, 242), nor are the first of more words than there are slots.        *)
(***************************************************************************)
Overwrite(table, ws) ==
  LET slots == {(instruction_offset + k) % AddrSpace : k \in 0 .. Len(ws) - 1}
      old   == {tokenized_lines[instruction_offset]} \cup {table[i] : i \in slots}
  IN  leaked' = leaked \cup {e \in old : IsEntry(e)}
                       \cup {Expanded(ws[k]) : k \in 1 .. Len(ws) - AddrSpace}

ZerosOneTooMany(n) == [i \in 1 .. n + 1 |-> 0]  \* mutant: i <= blkw_operand

Zeros(n) == [i \in 1 .. n |-> 0]

(***************************************************************************)
(* getline returns the line l, whose statement has type t.                 *)
(***************************************************************************)
GetLine(l, t) ==
  /\ pc = "lex"
  /\ Len(source) < MaxLines
  /\ instruction_offset + WordsOf(l.stmt) <= MaxWords
  /\ l.stmt.type \in t
  /\ source' = Append(source, l)
  /\ UNCHANGED <<origin, fileVars>>

\* Mutant: an entry that exists is left alone.
AddLabelFirstWins(label) ==
  /\ dict' = IF label # NULL /\ dict[label] = NULL
               THEN [dict EXCEPT ![label] = instruction_offset] ELSE dict
  /\ UNCHANGED errno

(***************************************************************************)
(* add(label, instruction_offset): a later declaration overwrites an       *)
(* earlier one.  When the node cannot be allocated, add returns NULL, the  *)
(* lexer does not look, and the label is lost; only errno remembers it.    *)
(***************************************************************************)
AddLabel(label) ==
  \/ /\ label # NULL
     /\ dict' = [dict EXCEPT ![label] = instruction_offset]
     /\ UNCHANGED errno
  \/ /\ label = NULL
     /\ UNCHANGED <<dict, errno>>
  \/ /\ label # NULL
     /\ dict[label] = NULL
     /\ "malloc" \in Faults
     /\ errno' = "ENOMEM"
     /\ UNCHANGED dict

\* Mutant: the location is the number of the line.
WithEntryAtLineNumber(stmt) ==
  [tokenized_lines EXCEPT ![instruction_offset] = Tokenized(stmt, Len(source))]

(***************************************************************************)
(* The entry every line but an empty one, a comment and .END gets.         *)
(***************************************************************************)
WithEntry(stmt) ==
  [tokenized_lines EXCEPT ![instruction_offset] = Tokenized(stmt, instruction_offset)]

LexNothing(l) ==
  /\ GetLine(l, {"none"})
  /\ AddLabel(l.label)
  /\ UNCHANGED <<pc, result, tokenized_lines, leaked, instruction_offset, address_offset>>

LexEnd(l) ==
  /\ GetLine(l, {"end"})
  /\ AddLabel(l.label)
  /\ pc' = "parse_orig"
  /\ UNCHANGED <<result, tokenized_lines, leaked, instruction_offset, address_offset>>

LexInstruction(l) ==
  /\ GetLine(l, {"label", "orig", "fill", "offset", "op"})
  /\ AddLabel(l.label)
  /\ tokenized_lines' = WithEntry(l.stmt)
  /\ Overwrite(tokenized_lines, <<>>)
  /\ instruction_offset' = NextOffset(1)
  /\ UNCHANGED <<pc, result, address_offset>>

(***************************************************************************)
(* A block of no words stores the entry and does not advance: the next     *)
(* line overwrites it, and if there is none it stays.                      *)
(***************************************************************************)
LexBlkw(l) ==
  /\ GetLine(l, {"blkw"})
  /\ AddLabel(l.label)
  /\ IF IsMemoryAddress(l.stmt.arg)
       THEN LET n == l.stmt.arg.val
                entry == [tokens               |-> l.stmt,
                          instruction_location |-> instruction_offset,
                          machine_instruction  |-> n]
                table == [tokenized_lines EXCEPT ![instruction_offset] = entry]
            IN  /\ tokenized_lines' = Place(table, instruction_offset, Zeros(n))
                /\ Overwrite(table, Zeros(n))
                /\ instruction_offset' = NextOffset(n)
                /\ UNCHANGED <<pc, result, address_offset>>
       ELSE /\ tokenized_lines' = WithEntry(l.stmt)
            /\ Overwrite(tokenized_lines, <<>>)
            /\ Fail("blkw_operand")
            /\ UNCHANGED instruction_offset

LexStringz(l) ==
  /\ GetLine(l, {"stringz"})
  /\ AddLabel(l.label)
  /\ LET words == Append(l.stmt.chars, 0)
     IN  \/ /\ l.stmt.arg.type = "missing"
            /\ tokenized_lines' = WithEntry(l.stmt)
            /\ Overwrite(tokenized_lines, <<>>)
            /\ Fail("bad_string")
            /\ UNCHANGED instruction_offset
         \/ /\ l.stmt.arg.type # "missing"
            /\ tokenized_lines' = Place(WithEntry(l.stmt), instruction_offset, words)
            /\ Overwrite(WithEntry(l.stmt), words)
            /\ instruction_offset' = NextOffset(Len(words))
            /\ UNCHANGED <<pc, result, address_offset>>
         \/ /\ l.stmt.arg.type # "missing"
            /\ "malloc" \in Faults
            /\ \E k \in 0 .. Len(l.stmt.chars) :
                 /\ tokenized_lines' = Place(WithEntry(l.stmt), instruction_offset,
                                             SubSeq(words, 1, k))
                 /\ Overwrite(WithEntry(l.stmt), SubSeq(words, 1, k))
                 /\ instruction_offset' = NextOffset(k)
            /\ Fail("out_of_memory")

(***************************************************************************)
(* The lexer takes the line for an empty one: either split_tokens cannot   *)
(* allocate, or strdup cannot, and strtok goes on in the line it split     *)
(* last.  There is nothing left of it, unless it was a .STRINGZ, of which  *)
(* split_tokens leaves the rest: its string, by now in the form of its     *)
(* characters (directives.c:198), is then read as a line.  As far as any   *)
(* variable can tell this line is lost and the string is the next one, so  *)
(* it is one of the lines of source, and a GetLine.                        *)
(***************************************************************************)
LexLost(l) ==
  /\ GetLine(l, LineType)
  /\ "malloc" \in Faults
  /\ errno' = "ENOMEM"
  /\ UNCHANGED <<pc, result, tokenized_lines, leaked, instruction_offset, dict,
                 address_offset>>

(***************************************************************************)
(* The resized tokens or an entry cannot be allocated, and a null pointer  *)
(* is used; or strdup fails and strtok goes on in a line that was freed,   *)
(* or in none because this is the first.                                   *)
(***************************************************************************)
LexOutOfMemory ==
  /\ pc = "lex"
  /\ "malloc" \in Faults
  /\ Crash

\* Mutant: errno is not looked at.
LexEndOfFileUnchecked ==
  /\ pc = "lex"
  /\ pc' = "parse_orig"
  /\ UNCHANGED <<result, lexVars, tokenized_lines, dict, origin, address_offset, fileVars>>

(***************************************************************************)
(* getline returns -1.  The lexer tells the end of the file from an error  *)
(* by errno, which it reset before the first line.                         *)
(***************************************************************************)
LexEndOfFile ==
  /\ pc = "lex"
  /\ errno = "none"
  /\ pc' = "parse_orig"
  /\ UNCHANGED <<result, lexVars, tokenized_lines, dict, origin, address_offset, fileVars>>

LexReadError ==
  /\ pc = "lex"
  /\ errno # "none" \/ "getline" \in Faults
  /\ Fail("getline")
  /\ UNCHANGED <<lexVars, tokenized_lines, dict, origin, fileVars>>

LexLine(l) ==
  \/ LexNothing(l)
  \/ LexEnd(l)
  \/ LexInstruction(l)
  \/ LexBlkw(l)
  \/ LexStringz(l)
  \/ LexLost(l)

Lex == LexOutOfMemory \/ LexEndOfFile \/ LexReadError \/ \E l \in Lines : LexLine(l)
==============================================================================
