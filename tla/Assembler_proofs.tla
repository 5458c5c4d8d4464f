-------------------------- MODULE Assembler_proofs --------------------------
(***************************************************************************)
(* Theorems about Assembler, for every address space, set of lines, bound  *)
(* and set of faults.                                                      *)
(***************************************************************************)
EXTENDS AssemblerProperties, AssemblerSymbols, SequenceTheorems, TLAPS

Table == [Address -> LineMetadata \cup {NULL, FREED}]

-----------------------------------------------------------------------------
(***************************************************************************)
(* Arithmetic of addresses.                                                *)
(***************************************************************************)

(* An index that is a memaddr_t stays in the table. *)
LEMMA ModAddress ==
  ASSUME NEW n \in Int
  PROVE  n % AddrSpace \in Address
BY AddrSpaceAssumption DEF Address

(* Below the end of the table an index does not go round. *)
LEMMA ModSmall ==
  ASSUME NEW n \in Address
  PROVE  n % AddrSpace = n
BY AddrSpaceAssumption DEF Address

(***************************************************************************)
(* The entries the lexer makes.                                            *)
(***************************************************************************)

(* Every line getline returns has a statement and a label of the right kind. *)
LEMMA LineParts ==
  ASSUME NEW l \in Lines
  PROVE  /\ l.label \in Labels \cup {NULL}
         /\ l.stmt \in Stmt
         /\ l.stmt \in LineStmts
BY LinesAssumption DEF Line, LineStmts

(* An entry with tokens, or with a word, is a linemetadata_t. *)
LEMMA EntryType ==
  /\ \A stmt \in LineStmts, loc \in Address : Tokenized(stmt, loc) \in LineMetadata
  /\ \A word \in Word : Expanded(word) \in LineMetadata
BY DEF Tokenized, Expanded, LineMetadata

(* Expanding a directive keeps tokenized_lines a table of entries. *)
LEMMA PlaceType ==
  ASSUME NEW table \in Table, NEW at \in Address, NEW ws \in Seq(Word)
  PROVE  Place(table, at, ws) \in Table
<1> SUFFICES ASSUME NEW i \in Address
             PROVE  Place(table, at, ws)[i] \in LineMetadata \cup {NULL, FREED}
  BY DEF Place, Table
<1> DEFINE back == (at + Len(ws) - 1 - i) % AddrSpace
<1>1. back \in Nat
  <2>1. at + Len(ws) - 1 - i \in Int
    BY AddrSpaceAssumption DEF Address
  <2> QED
    BY <2>1, AddrSpaceAssumption, ModAddress DEF Address
<1>2. Place(table, at, ws)[i] = IF back < Len(ws) THEN Expanded(ws[Len(ws) - back]) ELSE table[i]
  BY DEF Place
<1> HIDE DEF back
<1>3. CASE back < Len(ws)
  <2>1. ws[Len(ws) - back] \in Word
    BY <1>1, <1>3
  <2> QED
    BY <1>2, <1>3, <2>1, EntryType
<1>4. CASE ~(back < Len(ws))
  BY <1>2, <1>4 DEF Table
<1> QED
  BY <1>3, <1>4

-----------------------------------------------------------------------------
(***************************************************************************)
(* Type correctness.  The relocation adds the word of entry 0 to every     *)
(* label, so the type of the symbol table rests on that entry staying the  *)
(* .ORIG the parser began with, also when address_offset goes round and    *)
(* the parser comes to it again.                                           *)
(***************************************************************************)
OrigFirst ==
  pc \in {"parse", "open_sym", "sym_header", "sym", "open_obj"} =>
    /\ IsEntry(tokenized_lines[0])
    /\ tokenized_lines[0].tokens \in LineStmts
    /\ tokenized_lines[0].tokens.type = "orig"
    /\ tokenized_lines[0].machine_instruction = origin

TInv == TypeOK /\ OrigFirst

(* Entering a label keeps the symbol table well typed. *)
LEMMA AddLabelType ==
  ASSUME TypeOK, NEW l \in Lines, AddLabel(l.label)
  PROVE  /\ dict' \in [Labels -> Address \cup {NULL}]
         /\ errno' \in {"none", "ENOMEM"}
BY LineParts DEF AddLabel, TypeOK

(* Storing the entry of a line keeps the table well typed. *)
LEMMA WithEntryType ==
  ASSUME TypeOK, NEW stmt \in LineStmts
  PROVE  WithEntry(stmt) \in Table
BY EntryType DEF WithEntry, TypeOK, Table

(* What is overwritten are entries. *)
LEMMA OverwriteType ==
  ASSUME TypeOK, NEW table \in Table, NEW ws \in Seq(Word), Overwrite(table, ws)
  PROVE  leaked' \subseteq LineMetadata
<1> SUFFICES ASSUME NEW e \in leaked'
             PROVE  e \in LineMetadata
  OBVIOUS
<1>1. CASE e \in leaked
  BY <1>1 DEF TypeOK
<1>2. CASE IsEntry(e) /\ e = tokenized_lines[instruction_offset]
  BY <1>2 DEF TypeOK, IsEntry
<1>3. ASSUME NEW k \in 0 .. Len(ws) - 1,
             IsEntry(e), e = table[(instruction_offset + k) % AddrSpace]
      PROVE  e \in LineMetadata
  <2>1. instruction_offset + k \in Int
    BY AddrSpaceAssumption DEF TypeOK, Address
  <2>2. (instruction_offset + k) % AddrSpace \in Address
    BY <2>1, ModAddress
  <2> QED
    BY <1>3, <2>2 DEF Table, IsEntry
<1>4. ASSUME NEW k \in 1 .. Len(ws) - AddrSpace, e = Expanded(ws[k])
      PROVE  e \in LineMetadata
  <2>1. ws[k] \in Word
    BY AddrSpaceAssumption
  <2> QED
    BY <1>4, <2>1, EntryType
<1> QED
  BY <1>1, <1>2, <1>3, <1>4 DEF Overwrite

(* The offset stays an index of the table. *)
LEMMA NextOffsetType ==
  ASSUME TypeOK, NEW n \in Nat
  PROVE  NextOffset(n) \in Address
<1>1. instruction_offset + n \in Int
  BY AddrSpaceAssumption DEF TypeOK, Address
<1> QED
  BY <1>1, ModAddress DEF NextOffset

(* A block of zeros is a sequence of words. *)
LEMMA ZerosType ==
  ASSUME NEW n \in Nat
  PROVE  Zeros(n) \in Seq(Word) /\ Len(Zeros(n)) = n
<1>1. 0 \in Word
  BY AddrSpaceAssumption DEF Word, Address
<1>2. Zeros(n) \in [1 .. n -> Word]
  BY <1>1 DEF Zeros
<1>3. Zeros(n) \in Seq(Word)
  BY <1>2, SeqDef
<1> QED
  BY <1>2, <1>3, LenProperties

(* A step of the lexer keeps the types. *)
LEMMA LexLineType ==
  ASSUME TInv, NEW l \in Lines, LexLine(l)
  PROVE  TInv'
<1> USE LineParts DEF TInv
<1>0. 0 \in Address
  BY AddrSpaceAssumption DEF Address
<1>1. pc = "lex"
  BY DEF LexLine, LexNothing, LexEnd, LexInstruction, LexBlkw, LexStringz, LexLost, GetLine
<1>2. /\ source' \in Seq(Lines)
      /\ dict' \in [Labels -> Address \cup {NULL}]
      /\ errno' \in {"none", "ENOMEM"}
      /\ UNCHANGED <<origin, sym_file, obj_file>>
  <2>1. /\ source' = Append(source, l)
        /\ AddLabel(l.label) \/ <<dict', errno'>> = <<dict, "ENOMEM">>
        /\ UNCHANGED <<origin, sym_file, obj_file>>
    BY DEF LexLine, LexNothing, LexEnd, LexInstruction, LexBlkw, LexStringz,
                LexLost, GetLine, fileVars
  <2> QED
    BY <2>1, AddLabelType DEF TypeOK
<1>3. /\ tokenized_lines' \in Table
      /\ instruction_offset' \in Address
      /\ leaked' \subseteq LineMetadata
  <2>0. tokenized_lines \in Table /\ <<>> \in Seq(Word)
    BY DEF TypeOK, Table
  <2>1. CASE LexNothing(l) \/ LexLost(l)
    BY <2>1 DEF LexNothing, LexLost, TypeOK, Table
  <2>2. CASE LexEnd(l)
    BY <2>2 DEF LexEnd, TypeOK, Table
  <2>3. CASE LexInstruction(l)
    BY <2>0, <2>3, WithEntryType, NextOffsetType, OverwriteType DEF LexInstruction
  <2>4. CASE LexBlkw(l)
    <3>1. CASE IsMemoryAddress(l.stmt.arg)
      <4> DEFINE n == l.stmt.arg.val
                 entry == [tokens               |-> l.stmt,
                           instruction_location |-> instruction_offset,
                           machine_instruction  |-> n]
                 table == [tokenized_lines EXCEPT ![instruction_offset] = entry]
      <4>1. n \in Address
        BY <3>1 DEF IsMemoryAddress
      <4>2. Zeros(n) \in Seq(Word) /\ n \in Nat
        BY <4>1, AddrSpaceAssumption, ZerosType DEF Address
      <4>3. entry \in LineMetadata
        BY <4>1 DEF LineMetadata, TypeOK, Word
      <4>4. table \in Table
        BY <4>3 DEF Table, TypeOK
      <4>5. /\ tokenized_lines' = Place(table, instruction_offset, Zeros(n))
            /\ Overwrite(table, Zeros(n))
        BY <2>4, <3>1 DEF LexBlkw
      <4>6. instruction_offset' = NextOffset(n)
        BY <2>4, <3>1 DEF LexBlkw
      <4>7. tokenized_lines' \in Table /\ leaked' \subseteq LineMetadata
        <5> HIDE DEF n, table
        <5> QED BY <4>2, <4>4, <4>5, PlaceType, OverwriteType DEF TypeOK
      <4> QED
        BY <4>2, <4>6, <4>7, NextOffsetType
    <3>2. CASE ~IsMemoryAddress(l.stmt.arg)
      BY <2>0, <2>4, <3>2, WithEntryType, OverwriteType DEF LexBlkw, TypeOK
    <3> QED
      BY <3>1, <3>2
  <2>5. CASE LexStringz(l)
    <3> DEFINE words == Append(l.stmt.chars, 0)
    <3>1. l.stmt.chars \in Seq(Word) /\ words \in Seq(Word)
      BY <1>0 DEF Stmt, Word
    <3>2. WithEntry(l.stmt) \in Table /\ instruction_offset \in Address
      BY WithEntryType DEF TypeOK
    <3>3. CASE /\ tokenized_lines' = WithEntry(l.stmt) /\ UNCHANGED instruction_offset
               /\ Overwrite(tokenized_lines, <<>>)
      BY <2>0, <3>2, <3>3, OverwriteType
    <3>4. CASE /\ tokenized_lines' = Place(WithEntry(l.stmt), instruction_offset, words)
               /\ Overwrite(WithEntry(l.stmt), words)
               /\ instruction_offset' = NextOffset(Len(words))
      <4>1. Len(words) \in Nat
        BY <3>1
      <4> HIDE DEF words
      <4> QED
        BY <3>1, <3>2, <3>4, <4>1, PlaceType, NextOffsetType, OverwriteType
    <3>5. ASSUME NEW k \in 0 .. Len(l.stmt.chars),
                 tokenized_lines' = Place(WithEntry(l.stmt), instruction_offset,
                                          SubSeq(words, 1, k)),
                 Overwrite(WithEntry(l.stmt), SubSeq(words, 1, k)),
                 instruction_offset' = NextOffset(k)
          PROVE  /\ tokenized_lines' \in Table /\ instruction_offset' \in Address
                 /\ leaked' \subseteq LineMetadata
      <4>1. SubSeq(words, 1, k) \in Seq(Word) /\ k \in Nat
        BY <3>1
      <4> QED
        BY <3>2, <3>5, <4>1, PlaceType, NextOffsetType, OverwriteType
    <3> QED
      BY <2>5, <3>3, <3>4, <3>5 DEF LexStringz
  <2> QED
    BY <2>1, <2>2, <2>3, <2>4, <2>5 DEF LexLine
<1>4. /\ pc' \in {"lex", "parse_orig", "free"}
      /\ result' \in Errors \cup {"none", "success"}
      /\ address_offset' \in Address
  <2>1. \/ UNCHANGED <<result, address_offset>> /\ pc' \in {pc, "parse_orig"}
        \/ Fail("blkw_operand") \/ Fail("bad_string") \/ Fail("out_of_memory")
    BY DEF LexLine, LexNothing, LexEnd, LexInstruction, LexBlkw, LexStringz, LexLost
  <2> QED
    BY <1>0, <1>1, <2>1 DEF Fail, TypeOK, Errors, SyntaxErrors
<1> QED
  BY <1>2, <1>3, <1>4 DEF TypeOK, OrigFirst, Phase, Table

(* What a parse function accepts is a word, or the word the entry has. *)
LEMMA ParseLineType ==
  ASSUME TypeOK, NEW entry \in LineMetadata, entry.tokens # NULL
  PROVE  /\ ParseLine(entry).error \in SyntaxErrors \cup {"none"}
         /\ ParseLine(entry).error = "none" => ParseLine(entry).word \in Word \cup {UNINIT}
         /\ ParseLine(entry).error = "none" /\ entry.tokens.type \in {"fill", "offset", "op"} =>
              ParseLine(entry).word \in Word
         /\ entry.tokens.type = "orig" => ParseLine(entry) = Parsed(entry.machine_instruction)
<1> DEFINE stmt == entry.tokens
<1>1. PICK l \in Lines : stmt = l.stmt
  BY DEF LineMetadata, LineStmts
<1>2. stmt \in Stmt
  BY <1>1, LineParts
<1>3. /\ stmt.arg \in Operand
      /\ stmt.half \in Nat \ {0}
      /\ 2 * stmt.half <= AddrSpace
  BY <1>2 DEF Stmt, HalfRange
<1>4. stmt.arg.val \in Int /\ stmt.arg.type \in {"missing", "num", "sym"}
  BY <1>3 DEF Operand
<1>5. stmt.arg.type = "sym" => dict[stmt.arg.name] \in Address \cup {NULL}
  BY <1>1, LinesAssumption DEF TypeOK
<1>6. /\ entry.machine_instruction \in Word \cup {UNINIT}
      /\ stmt.type = "offset" => entry.instruction_location \in Address \cup {UNINIT}
  BY DEF LineMetadata
<1>7. \A v \in Int : /\ FillWord(v).error \in SyntaxErrors \cup {"none"}
                     /\ FillWord(v).error = "none" => FillWord(v).word \in Word
  BY ModAddress DEF FillWord, Parsed, Rejected, SyntaxErrors, Word
<1>8. \A v : /\ OffsetField(v, stmt.half).error \in SyntaxErrors \cup {"none"}
             /\ OffsetField(v, stmt.half).error = "none" => OffsetField(v, stmt.half).word \in Word
  <2> SUFFICES ASSUME NEW v
               PROVE  /\ OffsetField(v, stmt.half).error \in SyntaxErrors \cup {"none"}
                      /\ OffsetField(v, stmt.half).error = "none"
                           => OffsetField(v, stmt.half).word \in Word
    OBVIOUS
  <2>1. CASE v \notin -stmt.half .. stmt.half - 1
    BY <2>1 DEF OffsetField, Rejected, SyntaxErrors
  <2>2. CASE v \in -stmt.half .. stmt.half - 1
    <3> DEFINE h == stmt.half
    <3>1. h \in Nat \ {0} /\ 2 * h <= AddrSpace /\ v \in -h .. h - 1
      BY <1>3, <2>2
    <3> HIDE DEF h
    <3>2. (IF v < 0 THEN v + 2 * h ELSE v) \in Word
      BY <3>1, AddrSpaceAssumption DEF Word, Address
    <3>3. OffsetField(v, h) = Parsed(IF v < 0 THEN v + 2 * h ELSE v)
      BY <3>1 DEF OffsetField
    <3>4. OffsetField(v, h).error = "none" /\ OffsetField(v, h).word \in Word
      BY <3>2, <3>3 DEF Parsed
    <3> QED
      BY <3>4 DEF h
  <2> QED
    BY <2>1, <2>2
<1>9. CASE stmt.type = "label"
  BY <1>9 DEF ParseLine, Rejected, SyntaxErrors
<1>10. CASE stmt.type = "fill"
  <2>1. ParseLine(entry) = ParseFill(stmt.arg)
    BY <1>10 DEF ParseLine
  <2>2. origin \in Int /\ \A d \in Address : d - 1 + origin \in Int
    BY AddrSpaceAssumption DEF TypeOK, Address
  <2>3. \/ \E e \in SyntaxErrors : ParseFill(stmt.arg) = Rejected(e)
        \/ \E v \in Int : ParseFill(stmt.arg) = FillWord(v)
    BY <1>4, <1>5, <2>2 DEF ParseFill, SyntaxErrors
  <2> QED
    <3>1. ASSUME NEW e \in SyntaxErrors, ParseFill(stmt.arg) = Rejected(e)
          PROVE  ParseLine(entry).error \in SyntaxErrors /\ ParseLine(entry).error # "none"
      BY <2>1, <3>1 DEF Rejected, SyntaxErrors
    <3>2. ASSUME NEW v \in Int, ParseFill(stmt.arg) = FillWord(v)
          PROVE  /\ ParseLine(entry).error \in SyntaxErrors \cup {"none"}
                 /\ ParseLine(entry).error = "none" => ParseLine(entry).word \in Word
      BY <1>7, <2>1, <3>2
    <3> QED
      BY <1>10, <2>3, <3>1, <3>2
<1>11. CASE stmt.type = "offset"
  <2>1. ParseLine(entry) = ParseOffset(stmt.arg, stmt.half, entry.instruction_location)
    BY <1>11 DEF ParseLine
  <2>2. \/ \E e \in SyntaxErrors : ParseLine(entry) = Rejected(e)
        \/ \E v : ParseLine(entry) = OffsetField(v, stmt.half)
    BY <1>4, <2>1 DEF ParseOffset, SyntaxErrors
  <2> QED
    <3>1. ASSUME NEW e \in SyntaxErrors, ParseLine(entry) = Rejected(e)
          PROVE  ParseLine(entry).error \in SyntaxErrors /\ ParseLine(entry).error # "none"
      BY <3>1 DEF Rejected, SyntaxErrors
    <3>2. ASSUME NEW v, ParseLine(entry) = OffsetField(v, stmt.half)
          PROVE  /\ ParseLine(entry).error \in SyntaxErrors \cup {"none"}
                 /\ ParseLine(entry).error = "none" => ParseLine(entry).word \in Word
      BY <1>8, <3>2
    <3> QED
      BY <1>11, <2>2, <3>1, <3>2
<1>12. CASE stmt.type = "op"
  <2>1. stmt.arg.type = "num" => stmt.arg.val \in Word
    BY <1>1, <1>12, LinesAssumption
  <2>2. ParseLine(entry) = ParseOp(stmt.arg)
    BY <1>12 DEF ParseLine
  <2> QED
    BY <1>12, <2>1, <2>2 DEF ParseOp, Parsed, Rejected, SyntaxErrors
<1>13. CASE stmt.type \notin {"label", "fill", "offset", "op"}
  BY <1>6, <1>13 DEF ParseLine, Parsed
<1> QED
  BY <1>9, <1>10, <1>11, <1>12, <1>13

(* An entry with tokens is a linemetadata_t. *)
LEMMA HasTokensType ==
  ASSUME TypeOK, NEW i \in Address, HasTokens(tokenized_lines[i])
  PROVE  /\ tokenized_lines[i] \in LineMetadata
         /\ tokenized_lines[i].tokens \in LineStmts
BY DEF TypeOK, HasTokens, IsEntry, LineMetadata

(* The table after entry i has got word w. *)
WithWord(i, w) == [tokenized_lines EXCEPT ![i].machine_instruction = w]

(* Giving an entry a word changes nothing else of the table. *)
LEMMA WithWordType ==
  ASSUME TypeOK, NEW i \in Address, IsEntry(tokenized_lines[i]), NEW w \in Word \cup {UNINIT}
  PROVE  /\ WithWord(i, w) \in Table
         /\ \A j \in Address : j # i => WithWord(i, w)[j] = tokenized_lines[j]
         /\ WithWord(i, w)[i] \in LineMetadata
         /\ WithWord(i, w)[i].tokens = tokenized_lines[i].tokens
         /\ WithWord(i, w)[i].instruction_location = tokenized_lines[i].instruction_location
         /\ WithWord(i, w)[i].machine_instruction = w
<1> DEFINE entry == [tokenized_lines[i] EXCEPT !.machine_instruction = w]
<1>1. tokenized_lines[i] \in LineMetadata
  BY DEF TypeOK, IsEntry
<1>2. /\ entry \in LineMetadata
      /\ entry.tokens = tokenized_lines[i].tokens
      /\ entry.instruction_location = tokenized_lines[i].instruction_location
      /\ entry.machine_instruction = w
  BY <1>1 DEF LineMetadata
<1>3. WithWord(i, w) = [tokenized_lines EXCEPT ![i] = entry]
  BY DEF WithWord
<1> HIDE DEF entry
<1> QED
  BY <1>2, <1>3 DEF TypeOK, Table

(* A step of the parser keeps the types. *)
LEMMA ParseType ==
  ASSUME TInv, Parse
  PROVE  TInv'
<1> USE DEF TInv
<1>0. 0 \in Address /\ 1 \in Address
  BY AddrSpaceAssumption DEF Address
<1>1. CASE ParseOrig
  <2> DEFINE first == tokenized_lines[0]
             address == first.tokens.arg.val
  <2>1. pc = "parse_orig" /\ HasTokens(first) /\ UNCHANGED <<source, leaked, instruction_offset, errno, dict, sym_file, obj_file>>
    BY <1>1 DEF ParseOrig, parseUnchanged, lexVars, fileVars
  <2>2. first \in LineMetadata /\ first.tokens \in LineStmts
    BY <1>0, <2>1, HasTokensType
  <2>3. CASE first.tokens.type = "orig" /\ IsMemoryAddress(first.tokens.arg)
    <3>1. address \in Address
      BY <2>3 DEF IsMemoryAddress
    <3>2. /\ tokenized_lines' = [tokenized_lines EXCEPT ![0].machine_instruction = address]
          /\ origin' = address
          /\ address_offset' = 1
          /\ pc' = "parse"
          /\ UNCHANGED result
      BY <1>1, <2>3 DEF ParseOrig
    <3>3. /\ tokenized_lines' \in Table
          /\ tokenized_lines'[0] \in LineMetadata
          /\ tokenized_lines'[0].tokens = first.tokens
          /\ tokenized_lines'[0].machine_instruction = address
      <4>1. tokenized_lines' = WithWord(0, address)
        BY <3>2 DEF WithWord
      <4>2. IsEntry(tokenized_lines[0]) /\ address \in Word \cup {UNINIT}
        BY <2>1, <3>1 DEF HasTokens, Word
      <4> HIDE DEF address
      <4> QED
        BY <1>0, <4>1, <4>2, WithWordType
    <3>4. IsEntry(tokenized_lines'[0])
      BY <3>3, PointerAssumption DEF IsEntry
    <3> QED
      BY <1>0, <2>1, <2>2, <2>3, <3>1, <3>2, <3>3, <3>4 DEF TypeOK, Phase, OrigFirst, Table, IsEntry
  <2>4. CASE ~(first.tokens.type = "orig" /\ IsMemoryAddress(first.tokens.arg))
    BY <1>0, <1>1, <2>1, <2>4 DEF ParseOrig, Fail, TypeOK, OrigFirst, Phase, Errors, SyntaxErrors
  <2> QED
    BY <2>3, <2>4
<1>2. CASE ParseOrigCrash
  BY <1>2 DEF ParseOrigCrash, Crash, lexVars, fileVars, TypeOK, Phase, OrigFirst
<1>3. CASE ParseTokens
  <2> DEFINE outcome == ParseLine(Current)
  <2>1. /\ pc = "parse"
        /\ HasTokens(Current)
        /\ UNCHANGED <<source, leaked, instruction_offset, errno, dict, origin, sym_file, obj_file>>
    BY <1>3 DEF ParseTokens, parseUnchanged, lexVars, fileVars
  <2>2. Current \in LineMetadata /\ address_offset \in Address /\ Current.tokens # NULL
    BY <2>1, HasTokensType DEF Current, TypeOK, HasTokens
  <2>3. CASE /\ outcome.error = "none"
             /\ tokenized_lines' =
                  [tokenized_lines EXCEPT ![address_offset].machine_instruction = outcome.word]
             /\ address_offset' = NextAddress
             /\ UNCHANGED <<pc, result>>
    <3>1. outcome.word \in Word \cup {UNINIT}
      BY <2>2, <2>3, ParseLineType
    <3>2. address_offset + 1 \in Int
      BY <2>2, AddrSpaceAssumption DEF Address
    <3>3. address_offset' \in Address
      BY <2>3, <3>2, ModAddress DEF NextAddress
    <3> DEFINE w == outcome.word
    <3>4. /\ tokenized_lines' \in Table
          /\ \A j \in Address : j # address_offset => tokenized_lines'[j] = tokenized_lines[j]
          /\ tokenized_lines'[address_offset].tokens = Current.tokens
          /\ tokenized_lines'[address_offset].machine_instruction = w
          /\ tokenized_lines'[address_offset] \in LineMetadata
      <4>1. IsEntry(tokenized_lines[address_offset]) /\ w \in Word \cup {UNINIT}
        BY <2>1, <3>1 DEF HasTokens, Current
      <4>2. tokenized_lines' = WithWord(address_offset, w)
        BY <2>3 DEF WithWord
      <4> HIDE DEF w
      <4> QED
        BY <2>2, <4>1, <4>2, WithWordType DEF Current
    <3>5. IsEntry(tokenized_lines'[address_offset])
      BY <3>4, PointerAssumption DEF IsEntry
    <3>6. address_offset = 0 => w = origin
      <4>1. address_offset = 0 => Current.tokens.type = "orig" /\ Current.machine_instruction = origin
        BY <2>1 DEF OrigFirst, Current
      <4>2. address_offset = 0 => outcome = Parsed(Current.machine_instruction)
        BY <2>2, <4>1, ParseLineType
      <4> QED
        BY <4>1, <4>2 DEF Parsed
    <3>7. OrigFirst'
      <4> HIDE DEF w
      <4>1. CASE address_offset = 0
        BY <2>1, <2>3, <3>4, <3>5, <3>6, <4>1 DEF OrigFirst, Current
      <4>2. CASE address_offset # 0
        BY <1>0, <2>1, <2>3, <3>4, <4>2 DEF OrigFirst, IsEntry
      <4> QED
        BY <4>1, <4>2
    <3> QED
      BY <2>1, <2>3, <3>3, <3>4, <3>7 DEF TypeOK, Table
  <2>4. CASE outcome.error # "none" /\ Fail(outcome.error) /\ UNCHANGED tokenized_lines
    <3>1. outcome.error \in SyntaxErrors
      BY <2>2, <2>4, ParseLineType
    <3> QED
      BY <1>0, <2>1, <2>4, <3>1 DEF Fail, TypeOK, OrigFirst, Phase, Errors
  <2> QED
    BY <1>3, <2>3, <2>4 DEF ParseTokens
<1>4. CASE ParseSkip
  <2>1. address_offset + 1 \in Int
    BY AddrSpaceAssumption DEF Address, TypeOK
  <2>2. NextAddress \in Address
    BY <2>1, ModAddress DEF NextAddress
  <2> QED
    BY <1>4, <2>2 DEF ParseSkip, TypeOK, OrigFirst, parseUnchanged, lexVars, fileVars, IsEntry
<1>5. CASE ParseEnd
  BY <1>5 DEF ParseEnd, TypeOK, Phase, OrigFirst, parseUnchanged, lexVars, fileVars, IsEntry
<1> QED
  BY <1>1, <1>2, <1>3, <1>4, <1>5 DEF Parse

(* A step of assemble() itself keeps the types. *)
Rest ==
  \/ FileNames \/ FileNamesCrash \/ OpenAsm
  \/ LexOutOfMemory \/ LexEndOfFile \/ LexReadError
  \/ OpenSym \/ SymHeader \/ (\E l \in Labels : SerializeSymbol(l)) \/ SerializeEnd
  \/ OpenObj \/ WriteWord \/ WriteFails \/ WriteEnd
  \/ FreeEntry \/ FreeEnd \/ UseAfterFree

LEMMA RestType ==
  ASSUME TInv, Rest
  PROVE  TInv'
<1> USE DEF TInv
<1>0. 0 \in Address
  BY AddrSpaceAssumption DEF Address
<1>1. NextAddress \in Address
  <2>1. address_offset + 1 \in Int
    BY AddrSpaceAssumption DEF Address, TypeOK
  <2> QED
    BY <2>1, ModAddress DEF NextAddress
<1> USE DEF lineVars, lexVars, fileVars, Return, Fail, Errors
<1>2. CASE FileNames \/ OpenAsm
  BY <1>2 DEF FileNames, OpenAsm, TypeOK, Phase, OrigFirst
<1>3. CASE FileNamesCrash \/ LexOutOfMemory \/ UseAfterFree
  BY <1>3 DEF FileNamesCrash, LexOutOfMemory, UseAfterFree, Crash, lexVars, fileVars, TypeOK, Phase, OrigFirst
<1>4. CASE LexEndOfFile \/ LexReadError
  BY <1>0, <1>4 DEF LexEndOfFile, LexReadError, TypeOK, Phase, OrigFirst
<1>5. CASE OpenSym \/ SymHeader \/ SerializeEnd
  <2>1. Closed \subseteq FileState
    BY DEF Closed, FileState
  <2>2. sym_file' \in SymFile
    BY <1>5, <2>1 DEF OpenSym, SymHeader, SerializeEnd, SymWriteFails, TypeOK, SymFile, FileState
  <2> QED
    BY <1>0, <1>5, <2>2 DEF OpenSym, SymHeader, SerializeEnd, SymWriteFails, TypeOK, Phase, OrigFirst, IsEntry
<1>6. ASSUME NEW l \in Labels, SerializeSymbol(l)
      PROVE  TInv'
  <2> DEFINE address == (dict[l] - 1 + tokenized_lines[0].machine_instruction) % AddrSpace
  <2>1. pc = "sym" /\ dict[l] # NULL
    BY <1>6 DEF SerializeSymbol, ToSerialize
  <2>2. dict[l] \in Address /\ tokenized_lines[0].machine_instruction = origin /\ origin \in Address
    BY <2>1 DEF TypeOK, OrigFirst
  <2>3. dict[l] - 1 + tokenized_lines[0].machine_instruction \in Int
    BY <2>2, AddrSpaceAssumption DEF Address
  <2>4. address \in Address
    BY <2>3, ModAddress
  <2>5. /\ dict' = [dict EXCEPT ![l] = address]
        /\ UNCHANGED <<source, leaked, tokenized_lines, instruction_offset, errno, origin, obj_file>>
        /\ \/ /\ sym_file' = [sym_file EXCEPT !.addr[l] = address]
              /\ UNCHANGED <<pc, result, address_offset>>
           \/ /\ sym_file' = [sym_file EXCEPT !.state = "closed"]
              /\ result' = "sym_write" /\ pc' = "free" /\ address_offset' = 0
    BY <1>6 DEF SerializeSymbol, SymWriteFails
  <2> HIDE DEF address
  <2>6. dict' \in [Labels -> Address \cup {NULL}]
    BY <2>4, <2>5 DEF TypeOK
  <2>7. sym_file' \in SymFile
    BY <2>4, <2>5 DEF TypeOK, SymFile, FileState
  <2> QED
    BY <1>0, <2>1, <2>5, <2>6, <2>7 DEF TypeOK, Phase, OrigFirst, IsEntry
<1>7. CASE OpenObj \/ WriteFails \/ WriteEnd
  <2>1. Closed \subseteq FileState
    BY DEF Closed, FileState
  <2>2. obj_file' \in ObjFile
    BY <1>7, <2>1 DEF OpenObj, WriteFails, WriteEnd, TypeOK, ObjFile, FileState
  <2> QED
    BY <1>0, <1>7, <2>2 DEF OpenObj, WriteFails, WriteEnd, TypeOK, Phase, OrigFirst
<1>8. CASE WriteWord
  <2>1. Current \in LineMetadata
    BY <1>8 DEF WriteWord, IsEntry, Current, TypeOK
  <2>2. obj_file' = [obj_file EXCEPT !.words = Append(obj_file.words, Current.machine_instruction)]
    BY <1>8 DEF WriteWord
  <2>3. Append(obj_file.words, Current.machine_instruction) \in Seq(Word \cup {UNINIT})
    BY <2>1 DEF LineMetadata, TypeOK, ObjFile
  <2>4. obj_file' \in ObjFile
    BY <2>2, <2>3 DEF TypeOK, ObjFile
  <2> QED
    BY <1>1, <1>8, <2>4 DEF WriteWord, TypeOK, OrigFirst
<1>9. CASE FreeEntry \/ FreeEnd
  BY <1>1, <1>9 DEF FreeEntry, FreeEnd, TypeOK, Phase, OrigFirst
<1> QED
  BY <1>2, <1>3, <1>4, <1>5, <1>6, <1>7, <1>8, <1>9 DEF Rest

(* The steps of the program are those of the lexer, the parser and the rest. *)
LEMMA StepCases ==
  ASSUME Next
  PROVE  (\E l \in Lines : LexLine(l)) \/ Parse \/ Rest \/ UNCHANGED vars
BY DEF Next, Step, Lex, Rest, Terminating

(* The initial state is well typed. *)
LEMMA InitType ==
  ASSUME Init
  PROVE  TInv
<1>1. 0 \in Address
  BY AddrSpaceAssumption DEF Address
<1>2. NoSymbols \in [Labels -> Address \cup {NULL}] /\ NoLines \in Table
  BY DEF NoSymbols, NoLines, Table
<1> QED
  BY <1>1, <1>2 DEF Init, TInv, TypeOK, Phase, OrigFirst, SymFile, ObjFile, FileState, Table

(* What all steps keep: types, and the .ORIG in entry 0. *)
THEOREM TypeInvariance == Spec => []TInv
<1>1. TInv /\ [Next]_vars => TInv'
  <2> SUFFICES ASSUME TInv, [Next]_vars PROVE TInv'
    OBVIOUS
  <2>1. CASE UNCHANGED vars
    BY <2>1 DEF vars, TInv, TypeOK, OrigFirst, IsEntry
  <2> QED
    BY <2>1, LexLineType, ParseType, RestType, StepCases
<1> QED
  BY <1>1, InitType, PTL DEF Spec

(***************************************************************************)
(* In every reachable state every variable has its type: the indices are   *)
(* indices of the table, every address is a memaddr_t and the symbol table *)
(* is never relocated by a word that is not there.                         *)
(***************************************************************************)
THEOREM Typing == Spec => []TypeOK
BY TypeInvariance, PTL DEF TInv

-----------------------------------------------------------------------------
(***************************************************************************)
(* The order in which assemble() commits to its outputs: nothing is        *)
(* touched before both passes are through, the symbol table is relocated   *)
(* exactly once, and the object file comes last.                           *)
(***************************************************************************)
Running == pc \notin {"free", "done", "crashed"}
Early   == pc \in {"start", "open_asm", "lex", "parse_orig", "parse", "open_sym"}

(***************************************************************************)
(* RelocatedOnce and FilesInOrder are not inductive: they hold because of  *)
(* what is true of the files at each point of assemble().                  *)
(***************************************************************************)
OrderInv ==
  /\ Running => result = "none"
  /\ Early => sym_file = [state |-> "untouched", addr |-> NoSymbols]
  /\ pc = "sym_header" => sym_file.addr = NoSymbols
  /\ Running /\ pc # "write" => obj_file = [state |-> "untouched", words |-> <<>>]
  /\ pc \in {"open_obj", "write"} => dict = sym_file.addr /\ sym_file.state \in {"closed", "short"}
  /\ RelocatedOnce
  /\ FilesInOrder

(* The lexer touches no file. *)
LEMMA LexLineOrder ==
  ASSUME TInv, OrderInv, NEW l \in Lines, LexLine(l)
  PROVE  OrderInv'
<1>1. /\ pc = "lex"
      /\ UNCHANGED <<sym_file, obj_file>>
      /\ \/ pc' \in {"lex", "parse_orig"} /\ UNCHANGED result
         \/ pc' = "free"
  BY DEF LexLine, LexNothing, LexEnd, LexInstruction, LexBlkw, LexStringz, LexLost,
         GetLine, Fail, fileVars
<1>2. sym_file = [state |-> "untouched", addr |-> NoSymbols] /\ obj_file.state = "untouched"
  BY <1>1 DEF OrderInv, Early, Running
<1> QED
  BY <1>1, <1>2 DEF OrderInv, Early, Running, RelocatedOnce, FilesInOrder, NoSymbols

(* The parser touches no file and leaves the symbol table alone. *)
LEMMA ParseOrder ==
  ASSUME TInv, OrderInv, Parse
  PROVE  OrderInv'
<1>1. /\ pc \in {"parse_orig", "parse"}
      /\ UNCHANGED <<dict, sym_file, obj_file>>
      /\ \/ pc' \in {"parse", "open_sym", "crashed"} /\ UNCHANGED result
         \/ pc' = "free"
  BY DEF Parse, ParseOrig, ParseOrigCrash, ParseTokens, ParseSkip, ParseEnd, Crash, lexVars, fileVars, Fail,
         parseUnchanged, lexVars, fileVars
<1>2. sym_file = [state |-> "untouched", addr |-> NoSymbols] /\ obj_file.state = "untouched"
  BY <1>1 DEF OrderInv, Early, Running
<1> QED
  BY <1>1, <1>2 DEF OrderInv, Early, Running, RelocatedOnce, FilesInOrder, NoSymbols

(* Opening, relocating, writing and freeing happen in this order. *)
LEMMA RestOrder ==
  ASSUME TInv, OrderInv, Rest
  PROVE  OrderInv'
<1> USE DEF lineVars, lexVars, fileVars, Return, Fail, Running, Early
<1>1. CASE FileNames \/ OpenAsm
  BY <1>1 DEF FileNames, OpenAsm, OrderInv, RelocatedOnce, FilesInOrder, SyntaxErrors
<1>2. CASE FileNamesCrash \/ LexOutOfMemory \/ UseAfterFree
  BY <1>2 DEF FileNamesCrash, LexOutOfMemory, UseAfterFree, Crash, lexVars, fileVars, OrderInv, RelocatedOnce, FilesInOrder
<1>3. CASE LexEndOfFile \/ LexReadError
  BY <1>3 DEF LexEndOfFile, LexReadError, OrderInv, RelocatedOnce, FilesInOrder
<1>4. CASE OpenSym
  <2>1. pc = "open_sym" /\ UNCHANGED <<dict, obj_file>>
    BY <1>4 DEF OpenSym
  <2>2. /\ sym_file = [state |-> "untouched", addr |-> NoSymbols]
        /\ obj_file = [state |-> "untouched", words |-> <<>>]
        /\ result = "none"
    BY <2>1 DEF OrderInv
  <2>3. CASE /\ sym_file' = [sym_file EXCEPT !.state = "open"]
             /\ pc' = "sym_header"
             /\ UNCHANGED result
    <3>1. sym_file' = [state |-> "open", addr |-> NoSymbols]
      BY <2>2, <2>3
    <3> QED
      BY <2>1, <2>2, <2>3, <3>1 DEF OrderInv, RelocatedOnce, FilesInOrder, SyntaxErrors, NoSymbols
  <2>4. CASE pc' = "free" /\ result' = "open_sym" /\ UNCHANGED sym_file
    BY <2>1, <2>2, <2>4 DEF OrderInv, RelocatedOnce, FilesInOrder, SyntaxErrors, NoSymbols
  <2> QED
    BY <1>4, <2>3, <2>4 DEF OpenSym
<1>5. CASE SymHeader
  <2>1. /\ pc = "sym_header" /\ UNCHANGED <<dict, obj_file>>
        /\ \/ pc' = "sym" /\ UNCHANGED <<result, sym_file>>
           \/ /\ pc' = "free"
              /\ result' = "sym_write"
              /\ sym_file' = [sym_file EXCEPT !.state = "closed"]
    BY <1>5 DEF SymHeader, SymWriteFails
  <2>2. sym_file'.addr = sym_file.addr /\ sym_file.addr = NoSymbols
    BY <2>1 DEF OrderInv, TInv, TypeOK, SymFile
  <2> QED
    BY <2>1, <2>2 DEF OrderInv, RelocatedOnce, FilesInOrder, SyntaxErrors, NoSymbols
<1>6. ASSUME NEW l \in Labels, SerializeSymbol(l)
      PROVE  OrderInv'
  <2> DEFINE address == (dict[l] - 1 + tokenized_lines[0].machine_instruction) % AddrSpace
  <2>1. /\ pc = "sym" /\ sym_file.addr[l] = NULL
        /\ dict' = [dict EXCEPT ![l] = address]
        /\ UNCHANGED obj_file
        /\ \/ /\ sym_file' = [sym_file EXCEPT !.addr[l] = address]
              /\ UNCHANGED <<pc, result>>
           \/ /\ sym_file' = [sym_file EXCEPT !.state = "closed"]
              /\ result' = "sym_write" /\ pc' = "free"
    BY <1>6 DEF SerializeSymbol, SymWriteFails, ToSerialize
  <2>2. /\ obj_file.state = "untouched" /\ result = "none"
        /\ \A k \in Labels : sym_file.addr[k] # NULL => dict[k] = sym_file.addr[k]
    BY <2>1 DEF OrderInv, RelocatedOnce
  <2>3. sym_file \in SymFile /\ dict \in [Labels -> Address \cup {NULL}]
    BY DEF TInv, TypeOK
  <2> HIDE DEF address
  <2>4. \A k \in Labels : sym_file'.addr[k] # NULL => dict'[k] = sym_file'.addr[k]
    BY <2>1, <2>2, <2>3 DEF SymFile
  <2> QED
    BY <2>1, <2>2, <2>4 DEF OrderInv, RelocatedOnce, FilesInOrder, SyntaxErrors
<1>7. CASE SerializeEnd
  <2>1. PICK s \in {"closed", "short"} : sym_file' = [sym_file EXCEPT !.state = s]
    BY <1>7 DEF SerializeEnd, Closed
  <2>2. /\ pc = "sym" /\ pc' = "open_obj" /\ UNCHANGED <<result, dict, obj_file>>
        /\ \A l \in Labels : dict[l] = NULL \/ sym_file.addr[l] # NULL
    BY <1>7 DEF SerializeEnd, ToSerialize
  <2>3. sym_file'.addr = sym_file.addr /\ sym_file'.state = s
    BY <2>1 DEF TInv, TypeOK, SymFile
  <2>4. \A l \in Labels : dict[l] = sym_file.addr[l]
    BY <2>2 DEF OrderInv, RelocatedOnce
  <2>5. dict = sym_file.addr
    BY <2>4 DEF TInv, TypeOK, SymFile
  <2> QED
    BY <2>2, <2>3, <2>5 DEF OrderInv, RelocatedOnce, FilesInOrder, SyntaxErrors
<1>8. CASE OpenObj \/ WriteWord \/ WriteFails \/ WriteEnd
  <2>1. /\ pc \in {"open_obj", "write"} /\ pc' \in {"write", "free", "done"}
        /\ UNCHANGED <<dict, sym_file>>
        /\ result' \in {result, "open_obj", "obj_write", "success"}
        /\ pc' = "write" => result' = result
    BY <1>8 DEF OpenObj, WriteWord, WriteFails, WriteEnd
  <2> QED
    BY <2>1 DEF OrderInv, RelocatedOnce, FilesInOrder, SyntaxErrors
<1>9. CASE FreeEntry \/ FreeEnd
  BY <1>9 DEF FreeEntry, FreeEnd, OrderInv, RelocatedOnce, FilesInOrder
<1> QED
  BY <1>1, <1>2, <1>3, <1>4, <1>5, <1>6, <1>7, <1>8, <1>9 DEF Rest

(* The order of the outputs is kept by every step. *)
THEOREM OrderInvariance == Spec => []OrderInv
<1>1. Init => OrderInv
  BY DEF Init, OrderInv, Running, Early, RelocatedOnce, FilesInOrder, NoSymbols, SyntaxErrors
<1>2. TInv /\ OrderInv /\ [Next]_vars => OrderInv'
  <2> SUFFICES ASSUME TInv, OrderInv, [Next]_vars PROVE OrderInv'
    OBVIOUS
  <2>1. CASE UNCHANGED vars
    BY <2>1 DEF vars, OrderInv, Running, Early, RelocatedOnce, FilesInOrder
  <2> QED
    BY <2>1, LexLineOrder, ParseOrder, RestOrder, StepCases
<1> QED
  BY <1>1, <1>2, TypeInvariance, PTL DEF Spec

(***************************************************************************)
(* serialize_symbol_table relocates each label exactly once although it    *)
(* changes the table it iterates over, and assemble() opens the object     *)
(* file only when .sym and the table in memory agree on every label.       *)
(***************************************************************************)
THEOREM RelocationHappensOnce == Spec => []RelocatedOnce
BY OrderInvariance, PTL DEF OrderInv

(***************************************************************************)
(* A program that either pass rejects leaves the output files as they      *)
(* were, and the object file is never opened before .sym is closed.        *)
(***************************************************************************)
THEOREM OutputsInOrder == Spec => []FilesInOrder
BY OrderInvariance, PTL DEF OrderInv

-----------------------------------------------------------------------------
(***************************************************************************)
(* assemble() and the functions it calls use the symbol table as           *)
(* SymbolTable allows, step by step.                                       *)
(***************************************************************************)
(* Outside of the serialization, a step that keeps the table is a stutter. *)
LEMMA IdleStutter ==
  ASSUME pc # "sym", pc' # "sym", UNCHANGED dict
  PROVE  UNCHANGED SymTab!svars
BY DEF SymTab!svars, Serializing

(* A label is put into the table, at an offset, while it is idle. *)
LEMMA LexLineSymbols ==
  ASSUME TInv, NEW l \in Lines, LexLine(l)
  PROVE  [SymTab!SNext]_SymTab!svars
<1>1. pc = "lex" /\ pc' # "sym"
  BY DEF LexLine, LexNothing, LexEnd, LexInstruction, LexBlkw, LexStringz, LexLost, GetLine, Fail
<1>2. UNCHANGED dict \/ (l.label # NULL /\ dict' = [dict EXCEPT ![l.label] = instruction_offset])
  BY DEF LexLine, LexNothing, LexEnd, LexInstruction, LexBlkw, LexStringz, LexLost, AddLabel
<1>3. CASE UNCHANGED dict
  BY <1>1, <1>3, IdleStutter
<1>4. CASE l.label # NULL /\ dict' = [dict EXCEPT ![l.label] = instruction_offset]
  <2>1. l.label \in Labels
    BY <1>4, LineParts
  <2>2. instruction_offset \in SymTab!Values
    BY DEF TInv, TypeOK, Address, SymTab!Values
  <2>3. SymTab!Put(l.label, instruction_offset)
    BY <1>1, <1>4 DEF SymTab!Put, Serializing
  <2> QED
    BY <2>1, <2>2, <2>3 DEF SymTab!SNext
<1> QED
  BY <1>2, <1>3, <1>4

(* The parser only reads the table. *)
LEMMA ParseSymbols ==
  ASSUME Parse
  PROVE  UNCHANGED SymTab!svars
<1>1. pc # "sym" /\ pc' # "sym" /\ UNCHANGED dict
  BY DEF Parse, ParseOrig, ParseOrigCrash, ParseTokens, ParseSkip, ParseEnd, Crash, lexVars, fileVars, Fail,
         parseUnchanged
<1> QED
  BY <1>1, IdleStutter

(* The word of entry 0, by which the labels are moved, is an address. *)
LEMMA ShiftType ==
  ASSUME TInv, pc \in {"sym_header", "sym"}
  PROVE  tokenized_lines[0].machine_instruction \in SymTab!Values
BY DEF TInv, TypeOK, OrigFirst, Address, SymTab!Values

(* The loop begins with every label that has a value. *)
LEMMA SymHeaderSymbols ==
  ASSUME TInv, OrderInv, SymHeader
  PROVE  [SymTab!SNext]_SymTab!svars
<1>1. pc = "sym_header" /\ UNCHANGED dict /\ pc' \in {"sym", "free"}
  BY DEF SymHeader, SymWriteFails, Fail
<1>2. CASE pc' = "free"
  BY <1>1, <1>2, IdleStutter
<1>3. CASE pc' = "sym"
  <2>1. UNCHANGED <<tokenized_lines, sym_file>>
    BY <1>3 DEF SymHeader, SymWriteFails, Fail, lineVars, fileVars
  <2>2. ToSerialize' = {l \in Labels : dict[l] # NULL}
    BY <1>1, <2>1 DEF OrderInv, ToSerialize, NoSymbols
  <2>3. tokenized_lines[0].machine_instruction \in SymTab!Values
    BY <1>1, ShiftType
  <2>4. SymTab!Begin("serialize")
    BY <1>1, <1>3, <2>1, <2>2, <2>3 DEF SymTab!Begin, SymTab!Present, Serializing
  <2> QED
    BY <2>4 DEF SymTab!SNext
<1> QED
  BY <1>1, <1>2, <1>3

(* An iteration takes its label out of those to come, or ends the loop. *)
LEMMA SerializeSymbolSymbols ==
  ASSUME TInv, NEW l \in Labels, SerializeSymbol(l)
  PROVE  SymTab!Relocate(l)
<1> DEFINE address == (dict[l] - 1 + tokenized_lines[0].machine_instruction) % AddrSpace
<1>1. /\ pc = "sym" /\ l \in ToSerialize
      /\ dict' = [dict EXCEPT ![l] = address]
  BY DEF SerializeSymbol
<1>2. dict \in [Labels -> Address \cup {NULL}] /\ sym_file \in SymFile
  BY DEF TInv, TypeOK
<1>3. address \in Address
  <2>1. dict[l] \in Int /\ tokenized_lines[0].machine_instruction \in Int
    BY <1>1, <1>2, ShiftType DEF ToSerialize, Address, SymTab!Values
  <2>2. dict[l] - 1 + tokenized_lines[0].machine_instruction \in Int
    BY <2>1
  <2> QED
    BY <2>2, ModAddress
<1>4. address # NULL
  BY <1>3, SentinelAssumption
<1>5. CASE pc' = "sym"
  <2>1. /\ sym_file' = [sym_file EXCEPT !.addr[l] = address]
        /\ UNCHANGED tokenized_lines
    BY <1>1, <1>5 DEF SerializeSymbol, SymWriteFails, Fail, lineVars
  <2> HIDE DEF address
  <2>2. ToSerialize' = ToSerialize \ {l}
    BY <1>1, <1>2, <1>4, <2>1 DEF ToSerialize, SymFile
  <2> QED
    BY <1>1, <1>5, <2>1, <2>2 DEF SymTab!Relocate, Serializing, address
<1>6. CASE pc' # "sym"
  BY <1>1, <1>6 DEF SymTab!Relocate, SymTab!End, Serializing
<1> QED
  BY <1>5, <1>6

(* Everything else leaves the table alone. *)
LEMMA RestSymbols ==
  ASSUME TInv, OrderInv, Rest
  PROVE  [SymTab!SNext]_SymTab!svars
<1> USE DEF Return, Fail
<1>1. CASE SymHeader
  BY <1>1, SymHeaderSymbols
<1>2. ASSUME NEW l \in Labels, SerializeSymbol(l)
      PROVE  [SymTab!SNext]_SymTab!svars
  BY <1>2, SerializeSymbolSymbols DEF SymTab!SNext
<1>3. CASE SerializeEnd
  <2>1. pc = "sym" /\ pc' # "sym" /\ ToSerialize = {} /\ UNCHANGED dict
    BY <1>3 DEF SerializeEnd
  <2> QED
    BY <2>1 DEF SymTab!SNext, SymTab!Finish, SymTab!End, Serializing
<1>4. CASE \/ FileNames \/ FileNamesCrash \/ OpenAsm \/ LexOutOfMemory \/ LexEndOfFile
           \/ LexReadError \/ OpenSym
  <2>1. pc # "sym" /\ pc' # "sym" /\ UNCHANGED dict
    BY <1>4 DEF FileNames, FileNamesCrash, OpenAsm, LexOutOfMemory, LexEndOfFile, LexReadError,
                OpenSym, Crash, lexVars, fileVars
  <2> QED
    BY <2>1, IdleStutter
<1>5. CASE OpenObj \/ WriteWord \/ WriteFails \/ WriteEnd \/ FreeEntry \/ FreeEnd \/ UseAfterFree
  <2>1. pc # "sym" /\ pc' # "sym" /\ UNCHANGED dict
    BY <1>5 DEF OpenObj, WriteWord, WriteFails, WriteEnd, FreeEntry, FreeEnd, UseAfterFree, Crash, lexVars, fileVars
  <2> QED
    BY <2>1, IdleStutter
<1> QED
  BY <1>1, <1>2, <1>3, <1>4, <1>5 DEF Rest

(***************************************************************************)
(* assemble() uses the symbol table as its interface promises: every step  *)
(* of the program is an operation SymbolTable allows, or leaves the table  *)
(* alone; in particular the relocation visits each label once.             *)
(***************************************************************************)
THEOREM SymbolTableUse == Spec => UsesSymbolTable
<1>1. Init => SymTab!SInit
  BY DEF Init, NoSymbols, SymTab!SInit, Serializing
<1>2. TInv /\ OrderInv /\ [Next]_vars => [SymTab!SNext]_SymTab!svars
  <2> SUFFICES ASSUME TInv, OrderInv, [Next]_vars PROVE [SymTab!SNext]_SymTab!svars
    OBVIOUS
  <2>1. CASE UNCHANGED vars
    BY <2>1 DEF vars, SymTab!svars, Serializing, ToSerialize
  <2> QED
    BY <2>1, LexLineSymbols, ParseSymbols, RestSymbols, StepCases
<1> QED
  BY <1>1, <1>2, TypeInvariance, OrderInvariance, PTL DEF Spec, UsesSymbolTable, SymTab!SSpec
=============================================================================
