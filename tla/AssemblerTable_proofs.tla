----------------------- MODULE AssemblerTable_proofs ------------------------
(***************************************************************************)
(* The shape of tokenized_lines.  The theorems are about programs that     *)
(* leave room for the sentinel, also behind a .BLKW 0: HasRoom is their    *)
(* hypothesis.                                                             *)
(***************************************************************************)
EXTENDS Assembler_proofs

HasRoom == MaxWords + 1 < AddrSpace

-----------------------------------------------------------------------------
(***************************************************************************)
(* How the lexer changes the table.                                        *)
(***************************************************************************)

(* The distance back to an index is taken round the end of the table. *)
LEMMA ModNegative ==
  ASSUME NEW n \in Int, -AddrSpace < n, n < 0
  PROVE  n % AddrSpace = n + AddrSpace
BY AddrSpaceAssumption

(* Words that fit behind at are placed from at on, and nowhere else. *)
LEMMA PlaceShape ==
  ASSUME NEW table \in Table, NEW at \in Address, NEW ws \in Seq(Word),
         at + Len(ws) <= AddrSpace
  PROVE  \A i \in Address :
           Place(table, at, ws)[i] = IF at <= i /\ i < at + Len(ws)
                                       THEN Expanded(ws[i - at + 1]) ELSE table[i]
<1> SUFFICES ASSUME NEW i \in Address
             PROVE  Place(table, at, ws)[i] = IF at <= i /\ i < at + Len(ws)
                                                THEN Expanded(ws[i - at + 1]) ELSE table[i]
  OBVIOUS
<1> DEFINE n    == at + Len(ws) - 1 - i
           back == n % AddrSpace
<1>1. Place(table, at, ws)[i] = IF back < Len(ws) THEN Expanded(ws[Len(ws) - back]) ELSE table[i]
  BY DEF Place
<1>2. /\ at \in Nat /\ i \in Nat /\ Len(ws) \in Nat
      /\ at < AddrSpace /\ i < AddrSpace
  BY AddrSpaceAssumption DEF Address
<1>3. CASE i < at + Len(ws)
  <2>1. n \in Address
    BY <1>2, <1>3, AddrSpaceAssumption DEF Address
  <2>2. back = n
    BY <2>1, ModSmall
  <2>3. /\ back < Len(ws) <=> at <= i
        /\ Len(ws) - back = i - at + 1
    BY <1>2, <2>2
  <2> HIDE DEF back
  <2> QED
    BY <1>1, <1>3, <2>3
<1>4. CASE ~(i < at + Len(ws)) /\ Len(ws) > 0
  <2>1. n \in Int /\ -AddrSpace < n /\ n < 0
    BY <1>2, <1>4, AddrSpaceAssumption
  <2>2. back = n + AddrSpace
    BY <2>1, ModNegative
  <2>3. ~(back < Len(ws))
    BY <1>2, <2>2, AddrSpaceAssumption
  <2> HIDE DEF back
  <2> QED
    BY <1>1, <1>4, <2>3
<1>5. CASE Len(ws) = 0
  <2>1. n \in Int
    BY <1>2, AddrSpaceAssumption
  <2>2. back \in Nat
    BY <2>1, ModAddress, AddrSpaceAssumption DEF Address
  <2> HIDE DEF n, back
  <2> QED
    BY <1>1, <1>2, <1>5, <2>2
<1> QED
  BY <1>2, <1>3, <1>4, <1>5

(***************************************************************************)
(* Entry i of table is new: the entry of a line at its own index, or a     *)
(* word that needs no parsing.                                             *)
(***************************************************************************)
NewEntry(table, i) ==
  /\ table[i] \in LineMetadata
  /\ HasTokens(table[i]) => table[i].instruction_location = i

(***************************************************************************)
(* The table gets new entries from instruction_offset up to the new        *)
(* offset, and at most one more behind them.                               *)
(***************************************************************************)
Filled ==
  /\ instruction_offset <= instruction_offset'
  /\ instruction_offset' <= MaxWords
  /\ \A i \in Address :
       /\ tokenized_lines'[i] = tokenized_lines[i] \/ NewEntry(tokenized_lines', i)
       /\ i < instruction_offset \/ (i > instruction_offset /\ i >= instruction_offset')
            => tokenized_lines'[i] = tokenized_lines[i]
       /\ instruction_offset <= i /\ i < instruction_offset' => NewEntry(tokenized_lines', i)

(* The offset of a line that fits. *)
LEMMA NextOffsetFits ==
  ASSUME TInv, HasRoom, NEW n \in Nat, instruction_offset + n <= MaxWords
  PROVE  NextOffset(n) = instruction_offset + n
<1>1. instruction_offset + n \in Address
  BY AddrSpaceAssumption, BoundsAssumption DEF HasRoom, TInv, TypeOK, Address
<1> QED
  BY <1>1, ModSmall DEF NextOffset

(* The entry of a line, alone or with the words it expands to. *)
LEMMA ExpandedFilled ==
  ASSUME TInv, HasRoom, NEW table \in Table, NEW ws \in Seq(Word),
         \A i \in Address : i # instruction_offset => table[i] = tokenized_lines[i],
         NewEntry(table, instruction_offset),
         instruction_offset + Len(ws) <= MaxWords,
         tokenized_lines' = Place(table, instruction_offset, ws),
         instruction_offset' = NextOffset(Len(ws))
  PROVE  Filled
<1>1. instruction_offset \in Address /\ Len(ws) \in Nat
  BY DEF TInv, TypeOK
<1>2. instruction_offset' = instruction_offset + Len(ws)
  BY <1>1, NextOffsetFits
<1>3. instruction_offset + Len(ws) <= AddrSpace
  BY <1>1, AddrSpaceAssumption, BoundsAssumption DEF HasRoom, Address
<1>4. \A i \in Address :
        tokenized_lines'[i] = IF instruction_offset <= i /\ i < instruction_offset + Len(ws)
                                THEN Expanded(ws[i - instruction_offset + 1]) ELSE table[i]
  BY <1>1, <1>3, PlaceShape
<1>5. \A w \in Word : Expanded(w) \in LineMetadata /\ ~HasTokens(Expanded(w))
  BY EntryType DEF Expanded, HasTokens
<1>6. ASSUME NEW i \in Address, instruction_offset <= i, i < instruction_offset + Len(ws)
      PROVE  NewEntry(tokenized_lines', i)
  <2>1. i - instruction_offset + 1 \in 1 .. Len(ws)
    BY <1>1, <1>6, AddrSpaceAssumption DEF Address
  <2>2. ws[i - instruction_offset + 1] \in Word
    BY <2>1, ElementOfSeq
  <2> QED
    BY <1>4, <1>5, <1>6, <2>2 DEF NewEntry
<1>7. ASSUME NEW i \in Address, ~(instruction_offset <= i /\ i < instruction_offset + Len(ws))
      PROVE  /\ tokenized_lines'[i] = tokenized_lines[i] \/ NewEntry(tokenized_lines', i)
             /\ i # instruction_offset => tokenized_lines'[i] = tokenized_lines[i]
  BY <1>4, <1>7 DEF NewEntry
<1> QED
  BY <1>1, <1>2, <1>6, <1>7, AddrSpaceAssumption, BoundsAssumption DEF Filled, Address

(* The entry of a line is new. *)
LEMMA WithEntryFilled ==
  ASSUME TInv, NEW stmt \in LineStmts
  PROVE  /\ WithEntry(stmt) \in Table
         /\ \A i \in Address : i # instruction_offset => WithEntry(stmt)[i] = tokenized_lines[i]
         /\ NewEntry(WithEntry(stmt), instruction_offset)
<1>1. instruction_offset \in Address /\ tokenized_lines \in Table
  BY DEF TInv, TypeOK, Table
<1>2. Tokenized(stmt, instruction_offset) \in LineMetadata
  BY <1>1, EntryType
<1>3. WithEntry(stmt)[instruction_offset] = Tokenized(stmt, instruction_offset)
  BY <1>1 DEF WithEntry, Table
<1>4. Tokenized(stmt, instruction_offset).instruction_location = instruction_offset
  BY DEF Tokenized
<1> QED
  BY <1>1, <1>2, <1>3, <1>4 DEF WithEntry, NewEntry, Table

(* The empty block changes nothing, so it is a placement too. *)
LEMMA EntryFilled ==
  ASSUME TInv, HasRoom, NEW stmt \in LineStmts, instruction_offset <= MaxWords,
         tokenized_lines' = WithEntry(stmt),
         instruction_offset' \in {instruction_offset} \cup
           {n \in {instruction_offset + 1} : n <= MaxWords}
  PROVE  Filled
<1>1. instruction_offset \in Address
  BY DEF TInv, TypeOK
<1>2. ASSUME NEW i \in Address
      PROVE  /\ i # instruction_offset => tokenized_lines'[i] = tokenized_lines[i]
             /\ i = instruction_offset => NewEntry(tokenized_lines', i)
  BY WithEntryFilled
<1> QED
  BY <1>1, <1>2, AddrSpaceAssumption, BoundsAssumption DEF Filled, Address

(* Whatever the line, the lexer fills the table without a gap. *)
LEMMA LexLineFills ==
  ASSUME TInv, HasRoom, NEW l \in Lines, LexLine(l), instruction_offset <= MaxWords
  PROVE  Filled
<1> USE LineParts
<1>0. /\ instruction_offset \in Address /\ tokenized_lines \in Table
      /\ instruction_offset \in Int /\ l.stmt \in LineStmts
  BY AddrSpaceAssumption DEF TInv, TypeOK, Table, Address
<1>a. ASSUME NEW stmt \in LineStmts, tokenized_lines' = WithEntry(stmt),
             instruction_offset' \in {instruction_offset} \cup
               {n \in {instruction_offset + 1} : n <= MaxWords}
      PROVE  Filled
  BY <1>a, EntryFilled
<1>1. CASE LexNothing(l) \/ LexEnd(l) \/ LexLost(l)
  <2>1. tokenized_lines' = tokenized_lines /\ instruction_offset' = instruction_offset
    BY <1>1 DEF LexNothing, LexEnd, LexLost
  <2>2. \A i \in Address : ~(instruction_offset <= i /\ i < instruction_offset)
    BY <1>0, AddrSpaceAssumption DEF Address
  <2>3. instruction_offset <= instruction_offset' /\ instruction_offset' <= MaxWords
    BY <1>0, <2>1
  <2>4. \A i \in Address : tokenized_lines'[i] = tokenized_lines[i]
    BY <2>1
  <2>5. \A i \in Address : ~(instruction_offset <= i /\ i < instruction_offset')
    BY <2>1, <2>2
  <2> QED
    BY <2>3, <2>4, <2>5 DEF Filled
<1>2. CASE LexInstruction(l)
  <2>1. WordsOf(l.stmt) = 1
    BY <1>2 DEF LexInstruction, GetLine, WordsOf
  <2>2. instruction_offset + 1 <= MaxWords /\ instruction_offset' = NextOffset(1)
    BY <1>2, <2>1 DEF LexInstruction, GetLine
  <2>3. instruction_offset' = instruction_offset + 1
    BY <2>2, NextOffsetFits
  <2>4. tokenized_lines' = WithEntry(l.stmt)
    BY <1>2 DEF LexInstruction
  <2>5. /\ instruction_offset' = instruction_offset + 1
        /\ instruction_offset + 1 <= MaxWords
    BY <2>2, <2>3
  <2> QED
    BY <1>0, <1>a, <2>4, <2>5
<1>3. CASE LexBlkw(l)
  <2>1. CASE IsMemoryAddress(l.stmt.arg)
    <3> DEFINE n == l.stmt.arg.val
               entry == [tokens               |-> l.stmt,
                         instruction_location |-> instruction_offset,
                         machine_instruction  |-> n]
               table == [tokenized_lines EXCEPT ![instruction_offset] = entry]
    <3>1. n \in Address /\ n \in Nat
      BY <2>1, AddrSpaceAssumption DEF IsMemoryAddress, Address
    <3>2. WordsOf(l.stmt) = n
      BY <1>3, <2>1 DEF LexBlkw, GetLine, WordsOf
    <3>3. instruction_offset + n <= MaxWords
      BY <1>3, <3>2 DEF LexBlkw, GetLine
    <3>4. entry \in LineMetadata
      BY <1>0, <3>1 DEF LineMetadata, Word
    <3>5. /\ table \in Table
          /\ \A i \in Address : i # instruction_offset => table[i] = tokenized_lines[i]
          /\ NewEntry(table, instruction_offset)
      BY <1>0, <3>4 DEF Table, NewEntry
    <3>6. /\ tokenized_lines' = Place(table, instruction_offset, Zeros(n))
          /\ instruction_offset' = NextOffset(n)
      BY <1>3, <2>1 DEF LexBlkw
    <3>7. Zeros(n) \in Seq(Word) /\ Len(Zeros(n)) = n
      BY <3>1, ZerosType
    <3> HIDE DEF n, table
    <3> QED
      BY <3>3, <3>5, <3>6, <3>7, ExpandedFilled
  <2>2. CASE ~IsMemoryAddress(l.stmt.arg)
    BY <1>0, <1>a, <1>3, <2>2 DEF LexBlkw
  <2> QED
    BY <2>1, <2>2
<1>4. CASE LexStringz(l)
  <2> DEFINE words == Append(l.stmt.chars, 0)
             table == WithEntry(l.stmt)
  <2>1. l.stmt.chars \in Seq(Word) /\ words \in Seq(Word) /\ Len(words) = Len(l.stmt.chars) + 1
    BY AddrSpaceAssumption DEF Stmt, Word, Address
  <2>2. WordsOf(l.stmt) = Len(l.stmt.chars) + 1
    BY <1>4 DEF LexStringz, GetLine, WordsOf
  <2>3. instruction_offset + Len(l.stmt.chars) + 1 <= MaxWords
    BY <1>0, <1>4, <2>1, <2>2, AddrSpaceAssumption, BoundsAssumption DEF LexStringz, GetLine, Address
  <2>4. /\ table \in Table
        /\ \A i \in Address : i # instruction_offset => table[i] = tokenized_lines[i]
        /\ NewEntry(table, instruction_offset)
    BY WithEntryFilled
  <2>5. CASE tokenized_lines' = table /\ UNCHANGED instruction_offset
    BY <1>0, <1>a, <2>5
  <2>6. CASE /\ tokenized_lines' = Place(table, instruction_offset, words)
             /\ instruction_offset' = NextOffset(Len(words))
    <3>1. instruction_offset + Len(words) <= MaxWords
      BY <1>0, <2>1, <2>3, AddrSpaceAssumption, BoundsAssumption DEF Address
    <3> HIDE DEF words, table
    <3> QED
      BY <2>1, <2>4, <2>6, <3>1, ExpandedFilled
  <2>7. ASSUME NEW k \in 0 .. Len(l.stmt.chars),
               tokenized_lines' = Place(table, instruction_offset, SubSeq(words, 1, k)),
               instruction_offset' = NextOffset(k)
        PROVE  Filled
    <3> DEFINE ws == SubSeq(words, 1, k)
    <3>1. ws \in Seq(Word) /\ Len(ws) = k
      BY <2>1
    <3>2. instruction_offset + k <= MaxWords
      BY <1>0, <2>1, <2>3, AddrSpaceAssumption, BoundsAssumption DEF Address
    <3> HIDE DEF ws, table
    <3>3. tokenized_lines' = Place(table, instruction_offset, ws)
      BY <2>7 DEF ws
    <3> QED
      BY <2>4, <2>7, <3>1, <3>2, <3>3, ExpandedFilled
  <2> QED
    BY <1>4, <2>5, <2>6, <2>7 DEF LexStringz
<1> QED
  BY <1>1, <1>2, <1>3, <1>4 DEF LexLine

-----------------------------------------------------------------------------
(***************************************************************************)
(* After the lexer the null pointers stay where they are, and an entry     *)
(* with tokens keeps them and its location.                                *)
(***************************************************************************)
Kept ==
  /\ instruction_offset' = instruction_offset
  /\ \A i \in Address :
       /\ tokenized_lines'[i] = NULL <=> tokenized_lines[i] = NULL
       /\ HasTokens(tokenized_lines'[i]) =>
            /\ HasTokens(tokenized_lines[i])
            /\ tokenized_lines'[i].tokens = tokenized_lines[i].tokens
            /\ tokenized_lines'[i].instruction_location = tokenized_lines[i].instruction_location

NothingFreed ==
  \A i \in Address : tokenized_lines'[i] = FREED => tokenized_lines[i] = FREED

(* Setting a word keeps the table. *)
LEMMA WithWordKeeps ==
  ASSUME TInv, NEW i \in Address, IsEntry(tokenized_lines[i]), NEW w \in Word \cup {UNINIT},
         tokenized_lines' = WithWord(i, w), UNCHANGED instruction_offset
  PROVE  Kept /\ NothingFreed
BY WithWordType, PointerAssumption DEF NothingFreed, Kept, TInv, HasTokens, IsEntry

(* A step of the parser keeps the table but for one word. *)
LEMMA ParseKeeps ==
  ASSUME TInv, Parse
  PROVE  Kept /\ NothingFreed
<1> USE DEF TInv
<1>1. CASE ParseOrig
  <2> DEFINE address == tokenized_lines[0].tokens.arg.val
  <2>1. 0 \in Address /\ IsEntry(tokenized_lines[0]) /\ UNCHANGED instruction_offset
    BY <1>1, AddrSpaceAssumption DEF ParseOrig, HasTokens, parseUnchanged, lexVars, Address
  <2>2. CASE /\ IsMemoryAddress(tokenized_lines[0].tokens.arg)
             /\ tokenized_lines' = [tokenized_lines EXCEPT ![0].machine_instruction = address]
    <3>1. address \in Word \cup {UNINIT}
      BY <2>2 DEF IsMemoryAddress, Word
    <3>2. tokenized_lines' = WithWord(0, address)
      BY <2>2 DEF WithWord
    <3> HIDE DEF address
    <3> QED
      BY <2>1, <3>1, <3>2, WithWordKeeps
  <2>3. CASE UNCHANGED tokenized_lines
    BY <2>1, <2>3 DEF NothingFreed, Kept, HasTokens, IsEntry
  <2> QED
    BY <1>1, <2>2, <2>3 DEF ParseOrig
<1>2. CASE ParseTokens
  <2> DEFINE w == ParseLine(Current).word
  <2>1. /\ address_offset \in Address
        /\ HasTokens(tokenized_lines[address_offset])
        /\ UNCHANGED instruction_offset
    BY <1>2 DEF ParseTokens, parseUnchanged, lexVars, Current, TypeOK
  <2>2. CASE /\ ParseLine(Current).error = "none"
             /\ tokenized_lines' = [tokenized_lines EXCEPT ![address_offset].machine_instruction = w]
    <3>1. w \in Word \cup {UNINIT}
      BY <2>1, <2>2, HasTokensType, ParseLineType DEF Current, HasTokens
    <3>2. tokenized_lines' = WithWord(address_offset, w)
      BY <2>2 DEF WithWord
    <3>3. IsEntry(tokenized_lines[address_offset])
      BY <2>1 DEF HasTokens
    <3> HIDE DEF w
    <3> QED
      BY <2>1, <3>1, <3>2, <3>3, WithWordKeeps
  <2>3. CASE UNCHANGED tokenized_lines
    BY <2>1, <2>3 DEF NothingFreed, Kept, HasTokens, IsEntry
  <2> QED
    BY <1>2, <2>2, <2>3 DEF ParseTokens
<1>3. CASE ParseOrigCrash \/ ParseSkip \/ ParseEnd
  BY <1>3 DEF ParseOrigCrash, Crash, ParseSkip, ParseEnd, parseUnchanged, lexVars, NothingFreed, Kept, HasTokens, IsEntry
<1> QED
  BY <1>1, <1>2, <1>3 DEF Parse

(* The rest of assemble() only frees entries. *)
LEMMA RestFrees ==
  ASSUME TInv, Rest
  PROVE  /\ instruction_offset' = instruction_offset
         /\ \/ UNCHANGED tokenized_lines
            \/ /\ pc \in {"write", "free"}
               /\ IsEntry(Current)
               /\ tokenized_lines' = [tokenized_lines EXCEPT ![address_offset] = FREED]
<1> USE DEF lineVars, lexVars, Crash
<1>1. CASE \E l \in Labels : SerializeSymbol(l)
  BY <1>1 DEF SerializeSymbol, SymWriteFails
<1>2. CASE SymHeader
  BY <1>2 DEF SymHeader, SymWriteFails
<1> QED
  BY <1>1, <1>2 DEF Rest, FileNames, FileNamesCrash, OpenAsm, LexOutOfMemory, LexEndOfFile,
     LexReadError, OpenSym,
     SerializeEnd, OpenObj, WriteWord, WriteFails, WriteEnd, FreeEntry, FreeEnd, UseAfterFree

(* So it keeps the table, too. *)
LEMMA RestKeeps ==
  ASSUME TInv, Rest
  PROVE  Kept
<1>1. CASE UNCHANGED tokenized_lines
  BY <1>1, RestFrees DEF Kept, HasTokens, IsEntry
<1>2. CASE /\ IsEntry(Current)
           /\ tokenized_lines' = [tokenized_lines EXCEPT ![address_offset] = FREED]
  BY <1>2, RestFrees, SentinelAssumption DEF Kept, HasTokens, IsEntry, Current, TInv, TypeOK
<1> QED
  BY <1>1, <1>2, RestFrees

-----------------------------------------------------------------------------
(***************************************************************************)
(* The shape of the table.                                                 *)
(***************************************************************************)
LayoutInv ==
  /\ instruction_offset <= MaxWords
  /\ NoGaps
  /\ EntriesAtTheirLocation

(* The index of the parser goes on by one while there are entries. *)
LEMMA NextIndex ==
  ASSUME TInv, HasRoom, LayoutInv, Current # NULL
  PROVE  NextAddress = address_offset + 1
<1>1. address_offset \in Address /\ instruction_offset \in Address
  BY DEF TInv, TypeOK
<1>2. address_offset <= instruction_offset
  BY <1>1, AddrSpaceAssumption DEF LayoutInv, NoGaps, Current, Address
<1>3. address_offset + 1 \in Address
  BY <1>1, <1>2, AddrSpaceAssumption, BoundsAssumption DEF HasRoom, LayoutInv, Address
<1> QED
  BY <1>3, ModSmall DEF NextAddress

(* A line keeps the shape: it fills the table where there was nothing. *)
LEMMA LexLineLayout ==
  ASSUME TInv, HasRoom, LayoutInv, NEW l \in Lines, LexLine(l)
  PROVE  LayoutInv'
<1>1. Filled
  BY LexLineFills DEF LayoutInv
<1>2. instruction_offset \in Address /\ instruction_offset' \in Address
  BY LexLineType DEF TInv, TypeOK
<1>3. NoGaps'
  BY <1>1, <1>2, PointerAssumption DEF Filled, LayoutInv, NoGaps, NewEntry, Address
<1>4. EntriesAtTheirLocation'
  BY <1>1 DEF Filled, LayoutInv, EntriesAtTheirLocation, NewEntry, HasTokens, IsEntry
<1> QED
  BY <1>1, <1>3, <1>4 DEF Filled, LayoutInv

(* Steps that keep the entries keep the shape. *)
LEMMA KeptLayout ==
  ASSUME TInv, LayoutInv, Kept
  PROVE  LayoutInv'
BY DEF Kept, LayoutInv, NoGaps, EntriesAtTheirLocation

(* The table has its shape in every reachable state. *)
THEOREM LayoutInvariance ==
  ASSUME HasRoom
  PROVE  Spec => []LayoutInv
<1>1. Init => LayoutInv
  BY BoundsAssumption DEF Init, LayoutInv, NoGaps, EntriesAtTheirLocation, NoLines, HasTokens, IsEntry, Address
<1>2. TInv /\ LayoutInv /\ [Next]_vars => LayoutInv'
  <2> SUFFICES ASSUME TInv, LayoutInv, [Next]_vars PROVE LayoutInv'
    OBVIOUS
  <2>1. CASE UNCHANGED vars
    BY <2>1 DEF vars, LayoutInv, NoGaps, EntriesAtTheirLocation, HasTokens, IsEntry
  <2> QED
    BY <2>1, LexLineLayout, KeptLayout, ParseKeeps, RestKeeps, StepCases
<1> QED
  BY <1>1, <1>2, TypeInvariance, PTL DEF Spec

(***************************************************************************)
(* No slot below instruction_offset is left empty and none above it is     *)
(* used, whatever lines the lexer met and however it ended.                *)
(***************************************************************************)
THEOREM TableHasNoGaps ==
  ASSUME HasRoom
  PROVE  Spec => []NoGaps
BY LayoutInvariance, PTL DEF LayoutInv

(***************************************************************************)
(* Every entry that is still to be parsed knows its own index, so an       *)
(* offset is relative to where its word is loaded.                         *)
(***************************************************************************)
THEOREM EntriesKnowTheirLocation ==
  ASSUME HasRoom
  PROVE  Spec => []EntriesAtTheirLocation
BY LayoutInvariance, PTL DEF LayoutInv

-----------------------------------------------------------------------------
(***************************************************************************)
(* Who frees the entries of tokenized_lines.  Both loops that free walk    *)
(* from slot 0 to the sentinel, so each entry is freed once, and none is   *)
(* used afterwards, as long as the sentinel is there (HasRoom).            *)
(***************************************************************************)
Freeing == pc \in {"write", "free"}

(***************************************************************************)
(* Once assemble() returns, but for a failed fwrite, no entry is left.     *)
(***************************************************************************)
SlotsFreed ==
  pc = "done" /\ result # "obj_write" => \A i \in Address : ~IsEntry(tokenized_lines[i])

(***************************************************************************)
(* The freed entries are exactly those below the index of the loop.        *)
(***************************************************************************)
MemoryInv ==
  /\ pc \in {"start", "open_asm"} => tokenized_lines = NoLines
  /\ pc \notin {"write", "free", "done", "crashed"} =>
       \A i \in Address : tokenized_lines[i] # FREED
  /\ Freeing => \A i \in Address : tokenized_lines[i] = FREED <=> i < address_offset
  /\ pc = "write" => Len(obj_file.words) = address_offset
  /\ SlotsFreed

(* A line brings no freed entry into the table. *)
LEMMA LexLineMemory ==
  ASSUME TInv, HasRoom, LayoutInv, MemoryInv, NEW l \in Lines, LexLine(l)
  PROVE  MemoryInv'
<1>1. Filled
  BY LexLineFills DEF LayoutInv
<1>2. /\ pc = "lex"
      /\ \/ pc' \in {"lex", "parse_orig"}
         \/ pc' = "free" /\ address_offset' = 0
  BY DEF LexLine, LexNothing, LexEnd, LexInstruction, LexBlkw, LexStringz, LexLost, GetLine, Fail
<1>3. \A i \in Address : tokenized_lines[i] # FREED
  BY <1>2 DEF MemoryInv
<1>4. \A i \in Address : tokenized_lines'[i] # FREED
  BY <1>1, <1>3, PointerAssumption DEF Filled, NewEntry
<1>5. \A i \in Address : ~(i < 0)
  BY AddrSpaceAssumption DEF Address
<1> QED
  BY <1>2, <1>4, <1>5 DEF MemoryInv, Freeing, SlotsFreed

(* The parser frees nothing. *)
LEMMA ParseMemory ==
  ASSUME TInv, MemoryInv, Parse
  PROVE  MemoryInv'
<1>1. /\ pc \in {"parse_orig", "parse"}
      /\ \/ pc' \in {"parse", "open_sym", "crashed"}
         \/ pc' = "free" /\ address_offset' = 0
  BY DEF Parse, ParseOrig, ParseOrigCrash, ParseTokens, ParseSkip, ParseEnd, Crash, Fail
<1>2. \A i \in Address : tokenized_lines[i] # FREED
  BY <1>1 DEF MemoryInv
<1>3. \A i \in Address : tokenized_lines'[i] # FREED
  BY <1>2, ParseKeeps DEF NothingFreed
<1>4. \A i \in Address : ~(i < 0)
  BY AddrSpaceAssumption DEF Address
<1> QED
  BY <1>1, <1>3, <1>4 DEF MemoryInv, Freeing, SlotsFreed

(* An entry a loop frees is followed by a slot the index can go to. *)
LEMMA FreeingOne ==
  ASSUME TInv, HasRoom, LayoutInv, MemoryInv, Freeing, IsEntry(Current),
         tokenized_lines' = [tokenized_lines EXCEPT ![address_offset] = FREED],
         address_offset' = NextAddress
  PROVE  /\ address_offset' = address_offset + 1
         /\ \A i \in Address : tokenized_lines'[i] = FREED <=> i < address_offset'
<1>1. address_offset \in Address /\ instruction_offset \in Address
  BY DEF TInv, TypeOK
<1>2. address_offset <= instruction_offset
  BY <1>1, AddrSpaceAssumption DEF LayoutInv, NoGaps, IsEntry, Current, Address
<1>3. address_offset + 1 \in Address
  BY <1>1, <1>2, AddrSpaceAssumption, BoundsAssumption DEF HasRoom, LayoutInv, Address
<1>4. address_offset' = address_offset + 1
  BY <1>3, ModSmall DEF NextAddress
<1>5. \A i \in Address :
        tokenized_lines'[i] = IF i = address_offset THEN FREED ELSE tokenized_lines[i]
  BY DEF TInv, TypeOK
<1>6. \A i \in Address : i < address_offset + 1 <=> i < address_offset \/ i = address_offset
  BY <1>1, AddrSpaceAssumption DEF Address
<1> QED
  BY <1>4, <1>5, <1>6 DEF MemoryInv

(* When a loop meets the sentinel it has freed every entry. *)
LEMMA FreeingEnds ==
  ASSUME TInv, LayoutInv, MemoryInv, Freeing, Current = NULL
  PROVE  \A i \in Address : ~IsEntry(tokenized_lines[i])
<1>1. address_offset \in Address /\ instruction_offset \in Address
  BY DEF TInv, TypeOK
<1>2. address_offset >= instruction_offset
  BY <1>1, AddrSpaceAssumption DEF LayoutInv, NoGaps, Current, Address
<1>3. ASSUME NEW i \in Address, i < address_offset
      PROVE  ~IsEntry(tokenized_lines[i])
  BY <1>3 DEF MemoryInv, IsEntry
<1>4. ASSUME NEW i \in Address, i > address_offset
      PROVE  ~IsEntry(tokenized_lines[i])
  <2>1. i > instruction_offset
    BY <1>1, <1>2, <1>4, AddrSpaceAssumption DEF Address
  <2> QED
    BY <2>1 DEF LayoutInv, NoGaps, IsEntry
<1>5. ~IsEntry(tokenized_lines[address_offset])
  BY DEF Current, IsEntry
<1>6. \A i \in Address : i < address_offset \/ i > address_offset \/ i = address_offset
  BY <1>1, AddrSpaceAssumption DEF Address
<1> QED
  BY <1>3, <1>4, <1>5, <1>6

(* The two loops free one entry a step, the rest of assemble() none. *)
LEMMA RestMemory ==
  ASSUME TInv, HasRoom, LayoutInv, OrderInv, MemoryInv, Rest
  PROVE  MemoryInv'
<1>0. \A i \in Address : ~(i < 0)
  BY AddrSpaceAssumption DEF Address
<1>1. CASE WriteWord
  <2>1. /\ Freeing /\ pc = "write" /\ pc' = "write" /\ IsEntry(Current)
        /\ tokenized_lines' = [tokenized_lines EXCEPT ![address_offset] = FREED]
        /\ address_offset' = NextAddress
        /\ obj_file' = [obj_file EXCEPT !.words = Append(@, Current.machine_instruction)]
    BY <1>1 DEF WriteWord, Freeing
  <2>2. obj_file.words \in Seq(Word \cup {UNINIT})
    BY DEF TInv, TypeOK, ObjFile
  <2>3. obj_file'.words = Append(obj_file.words, Current.machine_instruction)
    BY <2>1 DEF TInv, TypeOK, ObjFile
  <2>4. Len(obj_file'.words) = Len(obj_file.words) + 1
    BY <2>2, <2>3, LenProperties, AppendProperties
  <2> QED
    BY <2>1, <2>4, FreeingOne DEF MemoryInv, Freeing, SlotsFreed
<1>2. CASE FreeEntry
  <2>1. /\ Freeing /\ pc' = "free" /\ IsEntry(Current)
        /\ tokenized_lines' = [tokenized_lines EXCEPT ![address_offset] = FREED]
        /\ address_offset' = NextAddress
    BY <1>2 DEF FreeEntry, Freeing
  <2> QED
    BY <2>1, FreeingOne DEF MemoryInv, Freeing, SlotsFreed
<1>3. CASE WriteEnd \/ FreeEnd
  <2>1. /\ Freeing /\ pc' = "done" /\ Current = NULL
        /\ UNCHANGED tokenized_lines
    BY <1>3 DEF WriteEnd, FreeEnd, Freeing, Return, lineVars
  <2> QED
    BY <2>1, FreeingEnds DEF MemoryInv, Freeing, SlotsFreed
<1>4. CASE WriteFails
  BY <1>4 DEF WriteFails, Return, MemoryInv, Freeing, SlotsFreed, lineVars
<1>5. CASE FileNames \/ FileNamesCrash \/ OpenAsm
  BY <1>5 DEF FileNames, FileNamesCrash, OpenAsm, Return, Crash, MemoryInv, Freeing, SlotsFreed,
     lineVars, NoLines, IsEntry
<1>6. CASE LexEndOfFile \/ LexReadError
  BY <1>0, <1>6 DEF LexEndOfFile, LexReadError, Fail, MemoryInv, Freeing, SlotsFreed
<1>7. CASE OpenSym \/ SymHeader \/ SerializeEnd
  BY <1>0, <1>7 DEF OpenSym, SymHeader, SerializeEnd, SymWriteFails, Fail, MemoryInv, Freeing,
     SlotsFreed, lineVars
<1>8. ASSUME NEW l \in Labels, SerializeSymbol(l)
      PROVE  MemoryInv'
  BY <1>0, <1>8 DEF SerializeSymbol, SymWriteFails, Fail, MemoryInv, Freeing, SlotsFreed, lineVars
<1>9. CASE OpenObj
  <2>1. /\ pc = "open_obj" /\ UNCHANGED tokenized_lines /\ address_offset' = 0
        /\ \/ pc' = "write" /\ obj_file' = [obj_file EXCEPT !.state = "open"]
           \/ pc' = "free"
    BY <1>9 DEF OpenObj, Fail, lineVars
  <2>2. obj_file = [state |-> "untouched", words |-> <<>>]
    BY <2>1 DEF OrderInv, Running
  <2>3. pc' = "write" => obj_file'.words = <<>>
    BY <2>1, <2>2
  <2>4. pc' = "write" => Len(obj_file'.words) = 0
    BY <2>3
  <2> QED
    BY <1>0, <2>1, <2>4 DEF MemoryInv, Freeing, SlotsFreed
<1>10. CASE LexOutOfMemory \/ UseAfterFree
  BY <1>10 DEF LexOutOfMemory, UseAfterFree, Crash, MemoryInv, Freeing, SlotsFreed
<1> QED
  BY <1>1, <1>2, <1>3, <1>4, <1>5, <1>6, <1>7, <1>8, <1>9, <1>10 DEF Rest

(* The freed entries are those below the index in every reachable state. *)
THEOREM MemoryInvariance ==
  ASSUME HasRoom
  PROVE  Spec => []MemoryInv
<1>1. Init => MemoryInv
  BY SentinelAssumption DEF Init, MemoryInv, Freeing, SlotsFreed, NoLines
<1>2. TInv /\ LayoutInv /\ OrderInv /\ MemoryInv /\ [Next]_vars => MemoryInv'
  <2> SUFFICES ASSUME TInv, LayoutInv, OrderInv, MemoryInv, [Next]_vars PROVE MemoryInv'
    OBVIOUS
  <2>1. CASE UNCHANGED vars
    BY <2>1 DEF vars, MemoryInv, Freeing, SlotsFreed
  <2> QED
    BY <2>1, LexLineMemory, ParseMemory, RestMemory, StepCases
<1> QED
  BY <1>1, <1>2, TypeInvariance, OrderInvariance, LayoutInvariance, PTL DEF Spec

(***************************************************************************)
(* Neither loop that frees comes to an entry freed before.                 *)
(***************************************************************************)
THEOREM NothingIsFreedTwice ==
  ASSUME HasRoom
  PROVE  Spec => []NoUseAfterFree
<1>1. TInv /\ MemoryInv => NoUseAfterFree
  BY AddrSpaceAssumption DEF TInv, TypeOK, MemoryInv, Freeing, NoUseAfterFree, Current, Address
<1> QED
  BY <1>1, TypeInvariance, MemoryInvariance, PTL

(***************************************************************************)
(* Written words and remaining entries make up the program.                *)
(***************************************************************************)
THEOREM WordsAreWrittenThenFreed ==
  ASSUME HasRoom
  PROVE  Spec => []WrittenThenFreed
<1>1. MemoryInv => WrittenThenFreed
  BY DEF MemoryInv, Freeing, WrittenThenFreed
<1> QED
  BY <1>1, MemoryInvariance, PTL

-----------------------------------------------------------------------------
(***************************************************************************)
(* What is lost.  An entry is overwritten only at instruction_offset: by   *)
(* the words of its own line, or as the entry of a block of no words.      *)
(***************************************************************************)
IsBlock(e) == HasTokens(e) /\ e.tokens.type \in {"blkw", "stringz"}

LeakInv ==
  /\ pc = "lex" /\ IsEntry(tokenized_lines[instruction_offset]) =>
       IsBlock(tokenized_lines[instruction_offset])
  /\ \A e \in leaked : IsBlock(e)

(* The entry of a line has its statement. *)
LEMMA WithEntryAt ==
  ASSUME TInv, NEW stmt \in LineStmts
  PROVE  HasTokens(WithEntry(stmt)[instruction_offset]) /\
         WithEntry(stmt)[instruction_offset].tokens = stmt
<1>1. WithEntry(stmt)[instruction_offset] = Tokenized(stmt, instruction_offset)
  BY DEF TInv, TypeOK, WithEntry
<1>2. Tokenized(stmt, instruction_offset) \in LineMetadata
  BY EntryType DEF TInv, TypeOK
<1>3. stmt # NULL
  BY SentinelAssumption
<1> QED
  BY <1>1, <1>2, <1>3, PointerAssumption DEF HasTokens, IsEntry, Tokenized

(* What a line that fits overwrites is its own entry, or one before it. *)
LEMMA OverwriteBlocks ==
  ASSUME TInv, HasRoom, LayoutInv, LeakInv, pc = "lex",
         NEW table \in Table, NEW ws \in Seq(Word),
         \A i \in Address : i # instruction_offset => table[i] = tokenized_lines[i],
         ws # <<>> => IsBlock(table[instruction_offset]),
         instruction_offset + Len(ws) <= MaxWords,
         Overwrite(table, ws)
  PROVE  \A e \in leaked' : IsBlock(e)
<1>1. instruction_offset \in Address /\ Len(ws) \in Nat
  BY DEF TInv, TypeOK
<1>2. ASSUME NEW k \in 0 .. Len(ws) - 1, IsEntry(table[(instruction_offset + k) % AddrSpace])
      PROVE  IsBlock(table[(instruction_offset + k) % AddrSpace])
  <2>1. instruction_offset + k \in Address
    BY <1>1, AddrSpaceAssumption, BoundsAssumption DEF HasRoom, Address
  <2>2. (instruction_offset + k) % AddrSpace = instruction_offset + k
    BY <2>1, ModSmall
  <2>3. ws # <<>>
    BY <1>1
  <2>4. CASE k = 0
    BY <1>1, <2>2, <2>3, <2>4, AddrSpaceAssumption DEF Address
  <2>5. CASE k # 0
    <3>1. instruction_offset + k > instruction_offset
      BY <1>1, <2>5, AddrSpaceAssumption DEF Address
    <3>2. table[instruction_offset + k] = NULL
      BY <1>1, <2>1, <3>1, AddrSpaceAssumption DEF LayoutInv, NoGaps, Address
    <3> QED
      BY <1>2, <2>2, <3>2 DEF IsEntry
  <2> QED
    BY <2>4, <2>5
<1>3. \A k : k \notin 1 .. Len(ws) - AddrSpace
  BY <1>1, AddrSpaceAssumption, BoundsAssumption DEF HasRoom, Address
<1> QED
  BY <1>2, <1>3 DEF Overwrite, LeakInv

(* What is in the slot a line that fits leaves the lexer at. *)
LEMMA NextSlot ==
  ASSUME TInv, HasRoom, LayoutInv, NEW l \in Lines, LexLine(l), pc = "lex",
         instruction_offset' # instruction_offset
  PROVE  tokenized_lines'[instruction_offset'] = NULL
<1>1. Filled
  BY LexLineFills DEF LayoutInv
<1>2. instruction_offset \in Address /\ instruction_offset' \in Address
  BY LexLineType DEF TInv, TypeOK
<1>3. instruction_offset' > instruction_offset
  BY <1>1, <1>2, AddrSpaceAssumption DEF Filled, Address
<1>4. tokenized_lines'[instruction_offset'] = tokenized_lines[instruction_offset']
  BY <1>1, <1>2, <1>3, AddrSpaceAssumption DEF Filled, Address
<1> QED
  BY <1>2, <1>3, <1>4 DEF LayoutInv, NoGaps

(* A line overwrites the entry of a block, if any. *)
LEMMA LexLineLeaks ==
  ASSUME TInv, HasRoom, LayoutInv, LeakInv, NEW l \in Lines, LexLine(l)
  PROVE  LeakInv'
<1> USE LineParts
<1>0. /\ instruction_offset \in Address /\ instruction_offset \in Int
      /\ tokenized_lines \in Table /\ l.stmt \in LineStmts
      /\ instruction_offset <= MaxWords
      /\ pc = "lex"
  BY AddrSpaceAssumption DEF TInv, TypeOK, Table, Address, LayoutInv, LexLine, LexNothing, LexEnd,
     LexInstruction, LexBlkw, LexStringz, LexLost, GetLine
<1>1. ASSUME Overwrite(tokenized_lines, <<>>)
      PROVE  \A e \in leaked' : IsBlock(e)
  <2>1. <<>> \in Seq(Word) /\ Len(<<>>) = 0
    OBVIOUS
  <2>2. instruction_offset + Len(<<>>) <= MaxWords
    BY <1>0, <2>1
  <2> QED
    BY <1>0, <1>1, <2>1, <2>2, OverwriteBlocks
<1>2. CASE LexNothing(l) \/ LexEnd(l) \/ LexLost(l)
  BY <1>2 DEF LexNothing, LexEnd, LexLost, LeakInv
<1>3. CASE LexInstruction(l)
  <2>1. instruction_offset + 1 <= MaxWords /\ instruction_offset' = NextOffset(1)
    BY <1>3 DEF LexInstruction, GetLine, WordsOf
  <2>2. instruction_offset' # instruction_offset
    BY <1>0, <2>1, NextOffsetFits
  <2>3. tokenized_lines'[instruction_offset'] = NULL
    BY <1>0, <2>2, NextSlot
  <2> QED
    BY <1>1, <1>3, <2>3 DEF LexInstruction, LeakInv, IsEntry
<1>4. CASE LexBlkw(l)
  <2>0. l.stmt.type = "blkw"
    BY <1>4 DEF LexBlkw, GetLine
  <2>1. CASE IsMemoryAddress(l.stmt.arg)
    <3> DEFINE n == l.stmt.arg.val
               entry == [tokens               |-> l.stmt,
                         instruction_location |-> instruction_offset,
                         machine_instruction  |-> n]
               table == [tokenized_lines EXCEPT ![instruction_offset] = entry]
    <3>1. n \in Address /\ n \in Nat
      BY <2>1, AddrSpaceAssumption DEF IsMemoryAddress, Address
    <3>2. instruction_offset + n <= MaxWords
      BY <1>4, <2>1 DEF LexBlkw, GetLine, WordsOf
    <3>3. /\ entry \in LineMetadata /\ entry.tokens = l.stmt /\ l.stmt # NULL
      BY <1>0, <3>1, SentinelAssumption DEF LineMetadata, Word
    <3>4. IsBlock(entry)
      BY <2>0, <3>3, PointerAssumption DEF IsBlock, HasTokens, IsEntry
    <3>5. /\ table \in Table
          /\ \A i \in Address : i # instruction_offset => table[i] = tokenized_lines[i]
          /\ IsBlock(table[instruction_offset])
      <4> HIDE DEF entry
      <4> QED
        BY <1>0, <3>3, <3>4 DEF Table
    <3>6. /\ tokenized_lines' = Place(table, instruction_offset, Zeros(n))
          /\ Overwrite(table, Zeros(n))
          /\ instruction_offset' = NextOffset(n)
      BY <1>4, <2>1 DEF LexBlkw
    <3>7. Zeros(n) \in Seq(Word) /\ Len(Zeros(n)) = n
      BY <3>1, ZerosType
    <3> HIDE DEF n, entry, table
    <3>8. \A e \in leaked' : IsBlock(e)
      BY <1>0, <3>2, <3>5, <3>6, <3>7, OverwriteBlocks
    <3>9. CASE instruction_offset' # instruction_offset
      <4>1. tokenized_lines'[instruction_offset'] = NULL
        BY <1>0, <3>9, NextSlot
      <4> QED
        BY <3>8, <4>1 DEF LeakInv, IsEntry
    <3>10. CASE instruction_offset' = instruction_offset
      <4>1. n = 0
        <5>1. instruction_offset' = instruction_offset + n
          BY <3>1, <3>2, <3>6, NextOffsetFits
        <5> QED
          BY <1>0, <3>1, <3>10, <5>1
      <4>2. instruction_offset + Len(Zeros(n)) = instruction_offset
        BY <1>0, <3>7, <4>1
      <4>3. instruction_offset + Len(Zeros(n)) <= AddrSpace
        BY <1>0, <4>2, AddrSpaceAssumption DEF Address
      <4>4. tokenized_lines'[instruction_offset] = table[instruction_offset]
        BY <1>0, <3>5, <3>6, <3>7, <4>2, <4>3, PlaceShape
      <4> QED
        BY <3>5, <3>8, <3>10, <4>4 DEF LeakInv
    <3> QED
      BY <3>9, <3>10
  <2>2. CASE ~IsMemoryAddress(l.stmt.arg)
    BY <1>1, <1>4, <2>2 DEF LexBlkw, Fail, LeakInv
  <2> QED
    BY <2>1, <2>2
<1>5. CASE LexStringz(l)
  <2> DEFINE words == Append(l.stmt.chars, 0)
             table == WithEntry(l.stmt)
  <2>1. l.stmt.chars \in Seq(Word) /\ words \in Seq(Word) /\ Len(words) = Len(l.stmt.chars) + 1
    BY AddrSpaceAssumption DEF Stmt, Word, Address
  <2>2. instruction_offset + Len(words) <= MaxWords
    BY <1>5, <2>1 DEF LexStringz, GetLine, WordsOf
  <2>3. /\ table \in Table
        /\ \A i \in Address : i # instruction_offset => table[i] = tokenized_lines[i]
        /\ IsBlock(table[instruction_offset])
    BY <1>0, <1>5, WithEntryFilled, WithEntryAt DEF LexStringz, GetLine, IsBlock
  <2>4. CASE Overwrite(tokenized_lines, <<>>) /\ Fail("bad_string")
    BY <1>1, <2>4 DEF Fail, LeakInv
  <2>5. CASE Overwrite(table, words) /\ instruction_offset' = NextOffset(Len(words))
    <3>1. instruction_offset' # instruction_offset
      BY <1>0, <2>1, <2>2, <2>5, NextOffsetFits
    <3>2. tokenized_lines'[instruction_offset'] = NULL
      BY <1>0, <3>1, NextSlot
    <3> HIDE DEF words, table
    <3>3. \A e \in leaked' : IsBlock(e)
      BY <1>0, <2>1, <2>2, <2>3, <2>5, OverwriteBlocks
    <3> QED
      BY <3>2, <3>3 DEF LeakInv, IsEntry
  <2>6. ASSUME NEW k \in 0 .. Len(l.stmt.chars), Overwrite(table, SubSeq(words, 1, k)),
               Fail("out_of_memory")
        PROVE  LeakInv'
    <3> DEFINE ws == SubSeq(words, 1, k)
    <3>1. ws \in Seq(Word) /\ Len(ws) = k
      BY <2>1
    <3>2. instruction_offset + Len(ws) <= MaxWords
      BY <1>0, <2>1, <2>2, <3>1, AddrSpaceAssumption, BoundsAssumption DEF Address
    <3> HIDE DEF ws, table
    <3>3. \A e \in leaked' : IsBlock(e)
      BY <1>0, <2>3, <2>6, <3>1, <3>2, OverwriteBlocks DEF ws
    <3> QED
      BY <2>6, <3>3 DEF Fail, LeakInv
  <2> QED
    BY <1>5, <2>4, <2>5, <2>6 DEF LexStringz
<1> QED
  BY <1>2, <1>3, <1>4, <1>5 DEF LexLine

(* Behind the lexer nothing is overwritten. *)
LEMMA OthersLeakNothing ==
  ASSUME TInv, MemoryInv, LeakInv, Parse \/ Rest
  PROVE  LeakInv'
<1> USE DEF lineVars, lexVars
<1>1. leaked' = leaked
  <2>1. CASE \E l \in Labels : SerializeSymbol(l)
    BY <2>1 DEF SerializeSymbol, SymWriteFails
  <2>2. CASE SymHeader
    BY <2>2 DEF SymHeader, SymWriteFails
  <2> QED
    BY <2>1, <2>2 DEF Rest, Parse, ParseOrig, ParseOrigCrash, ParseTokens, ParseSkip, ParseEnd,
       parseUnchanged, Crash, FileNames, FileNamesCrash, OpenAsm, LexOutOfMemory, LexEndOfFile,
       LexReadError, OpenSym, SerializeEnd, OpenObj, WriteWord, WriteFails, WriteEnd, FreeEntry,
       FreeEnd, UseAfterFree
<1>2. pc' = "lex" => pc = "open_asm" /\ UNCHANGED tokenized_lines
  <2>1. CASE \E l \in Labels : SerializeSymbol(l)
    BY <2>1 DEF SerializeSymbol, SymWriteFails, Fail
  <2>2. CASE SymHeader
    BY <2>2 DEF SymHeader, SymWriteFails, Fail
  <2> QED
    BY <2>1, <2>2 DEF Rest, Parse, ParseOrig, ParseOrigCrash, ParseTokens, ParseSkip, ParseEnd,
       Fail, Return, Crash, FileNames, FileNamesCrash, OpenAsm, LexOutOfMemory, LexEndOfFile,
       LexReadError, OpenSym, SerializeEnd, OpenObj, WriteWord, WriteFails, WriteEnd, FreeEntry,
       FreeEnd, UseAfterFree
<1>3. \A i \in Address : ~IsEntry(NoLines[i])
  BY DEF NoLines, IsEntry
<1>4. instruction_offset' \in Address
  BY ParseType, RestType DEF TInv, TypeOK
<1>5. pc' = "lex" => ~IsEntry(tokenized_lines'[instruction_offset'])
  BY <1>2, <1>3, <1>4 DEF MemoryInv
<1> QED
  BY <1>1, <1>5 DEF LeakInv

(***************************************************************************)
(* On every way out of assemble() but a failed fwrite, the entries nobody  *)
(* freed are those of blocks and strings, whose slots were overwritten.    *)
(***************************************************************************)
THEOREM OnlyBlocksAreLost ==
  ASSUME HasRoom
  PROVE  Spec => []OnlyBlocksLeak
<1>1. Init => LeakInv
  BY DEF Init, LeakInv
<1>2. TInv /\ LayoutInv /\ MemoryInv /\ LeakInv /\ [Next]_vars => LeakInv'
  <2> SUFFICES ASSUME TInv, LayoutInv, MemoryInv, LeakInv, [Next]_vars PROVE LeakInv'
    OBVIOUS
  <2>1. CASE UNCHANGED vars
    BY <2>1 DEF vars, LeakInv
  <2> QED
    BY <2>1, LexLineLeaks, OthersLeakNothing, StepCases
<1>3. MemoryInv /\ LeakInv => OnlyBlocksLeak
  BY DEF MemoryInv, SlotsFreed, LeakInv, IsBlock, OnlyBlocksLeak
<1> QED
  BY <1>1, <1>2, <1>3, TypeInvariance, LayoutInvariance, MemoryInvariance, PTL DEF Spec

-----------------------------------------------------------------------------
(***************************************************************************)
(* The two passes agree on every label: what the parser puts into a word   *)
(* is what serialize_symbol_table prints for the label, before, during and *)
(* after the relocation of the symbol table.                               *)
(***************************************************************************)

(* Sign extension undoes the encoding of an offset that is in range. *)
LEMMA SignExtendOffset ==
  ASSUME NEW half \in HalfRange, NEW v \in Int, OffsetField(v, half).error = "none"
  PROVE  SignExtend(OffsetField(v, half).word, half) = v
<1>1. half \in Nat \ {0}
  BY DEF HalfRange
<1>2. v \in -half .. half - 1
  BY DEF OffsetField, Rejected
<1>3. OffsetField(v, half).word = IF v < 0 THEN v + 2 * half ELSE v
  BY <1>2 DEF OffsetField, Parsed
<1> QED
  BY <1>1, <1>2, <1>3 DEF SignExtend

(***************************************************************************)
(* An accepted operand that names a label gives the word of the label's    *)
(* address, taken absolutely or from the incremented PC.                   *)
(***************************************************************************)
LEMMA WordResolves ==
  ASSUME TInv, NEW i \in Address, NEW entry \in LineMetadata,
         entry.tokens # NULL, entry.instruction_location = i,
         entry.tokens.arg.type = "sym", ParseLine(entry).error = "none"
  PROVE  LET stmt == entry.tokens
             l    == stmt.arg.name
             word == ParseLine(entry).word
         IN  /\ l \in Labels
             /\ stmt.type = "offset" =>
                  /\ dict[l] # NULL
                  /\ (origin + i + SignExtend(word, stmt.half)) % AddrSpace
                       = (dict[l] - 1 + origin) % AddrSpace
             /\ stmt.type = "fill" =>
                  /\ dict[l] # NULL
                  /\ word = (dict[l] - 1 + origin) % AddrSpace
<1> DEFINE stmt == entry.tokens
           l    == stmt.arg.name
           word == ParseLine(entry).word
<1>1. PICK line \in Lines : stmt = line.stmt
  BY DEF LineMetadata, LineStmts
<1>2. /\ l \in Labels
      /\ stmt.half \in HalfRange
  BY <1>1, LineParts, LinesAssumption DEF Stmt
<1>3. /\ dict[l] \in Address \cup {NULL} /\ origin \in Int /\ i \in Int
      /\ \A d \in Address : d \in Int
  BY <1>2, AddrSpaceAssumption DEF TInv, TypeOK, Address
<1>4. ASSUME stmt.type = "offset"
      PROVE  /\ dict[l] # NULL
             /\ (origin + i + SignExtend(word, stmt.half)) % AddrSpace
                  = (dict[l] - 1 + origin) % AddrSpace
  <2> DEFINE v == dict[l] - i - 1
  <2>1. ParseLine(entry) = ParseOffset(stmt.arg, stmt.half, i)
    BY <1>4 DEF ParseLine
  <2>2. dict[l] # NULL
    BY <2>1 DEF ParseOffset, Rejected
  <2>3. ParseLine(entry) = OffsetField(v, stmt.half)
    BY <2>1, <2>2 DEF ParseOffset
  <2>4. dict[l] \in Int /\ v \in Int
    <3> HIDE DEF l
    <3>1. dict[l] \in Int
      BY <1>3, <2>2
    <3> QED
      BY <1>3, <3>1
  <2> HIDE DEF l
  <2>5. SignExtend(word, stmt.half) = v
    <3> HIDE DEF v
    <3>1. OffsetField(v, stmt.half).error = "none"
      BY <2>3
    <3>2. SignExtend(OffsetField(v, stmt.half).word, stmt.half) = v
      BY <1>2, <2>4, <3>1, SignExtendOffset
    <3> QED
      BY <2>3, <3>2
  <2>6. origin + i + v = dict[l] - 1 + origin
    BY <1>3, <2>4
  <2> HIDE DEF v, word
  <2> QED
    BY <2>2, <2>5, <2>6
<1>5. ASSUME stmt.type = "fill"
      PROVE  /\ dict[l] # NULL
             /\ word = (dict[l] - 1 + origin) % AddrSpace
  <2>1. ParseLine(entry) = ParseFill(stmt.arg)
    BY <1>5 DEF ParseLine
  <2>2. dict[l] # NULL
    BY <2>1 DEF ParseFill, Rejected
  <2>3. ParseLine(entry) = FillWord(dict[l] - 1 + origin)
    BY <2>1, <2>2 DEF ParseFill
  <2> QED
    BY <2>2, <2>3 DEF FillWord, Parsed, Rejected
<1> QED
  BY <1>2, <1>4, <1>5

-----------------------------------------------------------------------------
(***************************************************************************)
(* The passes.                                                             *)
(***************************************************************************)

(* The lexer only produces entries that are still to be parsed. *)
LEMMA LexLineReferences ==
  ASSUME ReferencesResolve, NEW l \in Lines, LexLine(l)
  PROVE  ReferencesResolve'
<1>1. pc' \in {"lex", "parse_orig", "free"}
  BY DEF LexLine, LexNothing, LexEnd, LexInstruction, LexBlkw, LexStringz, LexLost, GetLine, Fail
<1> QED
  BY <1>1 DEF ReferencesResolve, IsParsed

(* One iteration of the parser resolves one more entry. *)
LEMMA ParseTokensReferences ==
  ASSUME TInv, HasRoom, LayoutInv, OrderInv, ReferencesResolve, ParseTokens
  PROVE  ReferencesResolve'
<1> DEFINE entry == tokenized_lines[address_offset]
           w     == ParseLine(entry).word
<1>1. CASE ParseLine(entry).error # "none"
  <2>1. pc' = "free"
    BY <1>1 DEF ParseTokens, Fail, Current
  <2> QED
    BY <2>1 DEF ReferencesResolve, IsParsed
<1>2. CASE ParseLine(entry).error = "none"
  <2>1. /\ pc = "parse" /\ pc' = "parse" /\ HasTokens(entry)
        /\ tokenized_lines' = WithWord(address_offset, w)
        /\ address_offset' = NextAddress
        /\ UNCHANGED <<dict, origin, sym_file>>
    BY <1>2 DEF ParseTokens, Current, WithWord, parseUnchanged, lexVars, fileVars
  <2>2. address_offset \in Address /\ entry \in LineMetadata /\ IsEntry(entry) /\ entry.tokens # NULL
    BY <2>1, HasTokensType DEF TInv, TypeOK, HasTokens
  <2>3. address_offset' = address_offset + 1
    BY <2>1, NextIndex DEF HasTokens, IsEntry, Current
  <2>4. entry.instruction_location = address_offset
    BY <2>1, <2>2 DEF LayoutInv, EntriesAtTheirLocation
  <2>5. w \in Word \cup {UNINIT}
    BY <1>2, <2>2, ParseLineType DEF TInv
  <2>6. sym_file.addr = NoSymbols
    BY <2>1 DEF OrderInv, Early
  <2>7. /\ \A j \in Address : j # address_offset => tokenized_lines'[j] = tokenized_lines[j]
        /\ tokenized_lines'[address_offset].tokens = entry.tokens
        /\ tokenized_lines'[address_offset].machine_instruction = w
    BY <2>1, <2>2, <2>5, WithWordType DEF TInv
  <2> HIDE DEF w
  <2>8. ASSUME NEW i \in Address, 0 < i, i < address_offset', HasTokens(tokenized_lines'[i])
        PROVE  Resolves(tokenized_lines[i], i)'
    <3>1. CASE i = address_offset
      <4>1. CASE entry.tokens.arg.type = "sym"
        <5> DEFINE l == entry.tokens.arg.name
        <5>1. /\ l \in Labels
              /\ entry.tokens.type = "offset" =>
                   /\ dict[l] # NULL
                   /\ (origin + i + SignExtend(w, entry.tokens.half)) % AddrSpace
                        = (dict[l] - 1 + origin) % AddrSpace
              /\ entry.tokens.type = "fill" =>
                   dict[l] # NULL /\ w = (dict[l] - 1 + origin) % AddrSpace
          BY <1>2, <2>2, <2>4, <3>1, <4>1, WordResolves DEF w
        <5>2. sym_file.addr[l] = NULL
          BY <2>6, <5>1 DEF NoSymbols
        <5> QED
          BY <2>1, <2>7, <3>1, <5>1, <5>2 DEF Resolves, SymbolAddress
      <4>2. CASE entry.tokens.arg.type # "sym"
        BY <2>7, <3>1, <4>2 DEF Resolves
      <4> QED
        BY <4>1, <4>2
    <3>2. CASE i # address_offset
      <4>1. i < address_offset
        BY <2>2, <2>3, <2>8, <3>2, AddrSpaceAssumption DEF Address
      <4>2. tokenized_lines'[i] = tokenized_lines[i]
        BY <2>7, <3>2
      <4>3. Resolves(tokenized_lines[i], i)
        BY <2>1, <2>8, <4>1, <4>2 DEF ReferencesResolve, IsParsed
      <4> QED
        BY <2>1, <4>2, <4>3 DEF Resolves, SymbolAddress
    <3> QED
      BY <3>1, <3>2
  <2> QED
    BY <2>1, <2>8 DEF ReferencesResolve, IsParsed
<1> QED
  BY <1>1, <1>2

(***************************************************************************)
(* A step after which no more entries count as parsed, and that changes    *)
(* neither these entries nor what labels mean.                             *)
(***************************************************************************)
LEMMA SameReferences ==
  ASSUME TInv, ReferencesResolve, UNCHANGED <<dict, origin>>, sym_file'.addr = sym_file.addr,
         \A i \in Address :
           IsParsed(i)' /\ HasTokens(tokenized_lines'[i]) =>
             IsParsed(i) /\ tokenized_lines'[i] = tokenized_lines[i]
  PROVE  ReferencesResolve'
<1> SUFFICES ASSUME NEW i \in Address, IsParsed(i)', HasTokens(tokenized_lines'[i])
             PROVE  Resolves(tokenized_lines[i], i)'
  BY DEF ReferencesResolve
<1>1. IsParsed(i) /\ tokenized_lines'[i] = tokenized_lines[i]
  OBVIOUS
<1>2. Resolves(tokenized_lines[i], i)
  BY <1>1 DEF ReferencesResolve
<1> QED
  BY <1>1, <1>2 DEF Resolves, SymbolAddress

(* The parser ends at the sentinel, behind which there are no entries. *)
LEMMA ParseReferences ==
  ASSUME TInv, HasRoom, LayoutInv, OrderInv, ReferencesResolve, Parse
  PROVE  ReferencesResolve'
<1>0. address_offset \in Address /\ instruction_offset \in Address
  BY DEF TInv, TypeOK
<1>1. CASE ParseOrig
  <2>1. \/ pc' = "free"
        \/ pc' = "parse" /\ address_offset' = 1
    BY <1>1 DEF ParseOrig, Fail
  <2>2. \A i \in Address : ~(0 < i /\ i < 1)
    BY AddrSpaceAssumption DEF Address
  <2> QED
    BY <2>1, <2>2 DEF ReferencesResolve, IsParsed
<1>2. CASE ParseOrigCrash
  BY <1>2 DEF ParseOrigCrash, Crash, ReferencesResolve, IsParsed
<1>3. CASE ParseTokens
  BY <1>3, ParseTokensReferences
<1>4. CASE ParseSkip
  <2>1. /\ pc = "parse" /\ pc' = "parse" /\ ~HasTokens(Current)
        /\ address_offset' = address_offset + 1
        /\ UNCHANGED <<tokenized_lines, dict, origin, sym_file>>
    BY <1>4, NextIndex DEF ParseSkip, parseUnchanged, lexVars, fileVars
  <2>2. \A i \in Address : i < address_offset + 1 <=> i < address_offset \/ i = address_offset
    BY <1>0, AddrSpaceAssumption DEF Address
  <2>3. \A i \in Address :
          IsParsed(i)' /\ HasTokens(tokenized_lines'[i]) =>
            IsParsed(i) /\ tokenized_lines'[i] = tokenized_lines[i]
    BY <2>1, <2>2 DEF IsParsed, Current
  <2> QED
    BY <2>1, <2>3, SameReferences
<1>5. CASE ParseEnd
  <2>1. /\ pc = "parse" /\ pc' = "open_sym" /\ Current = NULL
        /\ UNCHANGED <<tokenized_lines, dict, origin, sym_file>>
    BY <1>5 DEF ParseEnd, parseUnchanged, lexVars, fileVars
  <2>2. address_offset >= instruction_offset
    BY <1>0, <2>1, AddrSpaceAssumption DEF LayoutInv, NoGaps, Current, Address
  <2>3. ASSUME NEW i \in Address, HasTokens(tokenized_lines[i]), i # 0
        PROVE  IsParsed(i)
    <3>1. i # address_offset
      BY <2>1, <2>3 DEF HasTokens, IsEntry, Current
    <3>2. ~(i > instruction_offset)
      BY <2>3 DEF HasTokens, IsEntry, LayoutInv, NoGaps
    <3>3. 0 < i /\ i < address_offset
      BY <1>0, <2>2, <2>3, <3>1, <3>2, AddrSpaceAssumption DEF Address
    <3> QED
      BY <2>1, <3>3 DEF IsParsed
  <2>4. tokenized_lines[0].tokens.type = "orig"
    BY <2>1 DEF TInv, OrigFirst
  <2>5. ASSUME NEW i \in Address, HasTokens(tokenized_lines'[i])
        PROVE  Resolves(tokenized_lines[i], i)'
    <3>1. CASE i = 0
      BY <2>1, <2>4, <3>1 DEF Resolves
    <3>2. CASE i # 0
      <4>1. Resolves(tokenized_lines[i], i)
        BY <2>1, <2>3, <2>5, <3>2 DEF ReferencesResolve
      <4> QED
        BY <2>1, <4>1 DEF Resolves, SymbolAddress
    <3> QED
      BY <3>1, <3>2
  <2> QED
    BY <2>5 DEF ReferencesResolve
<1> QED
  BY <1>1, <1>2, <1>3, <1>4, <1>5 DEF Parse

-----------------------------------------------------------------------------
(* Relocating a label moves its value, and not its address. *)
LEMMA SerializeReferences ==
  ASSUME TInv, ReferencesResolve, NEW l \in Labels, SerializeSymbol(l)
  PROVE  ReferencesResolve'
<1> DEFINE address == (dict[l] - 1 + tokenized_lines[0].machine_instruction) % AddrSpace
<1>1. /\ pc = "sym" /\ sym_file.addr[l] = NULL /\ dict[l] # NULL
      /\ dict' = [dict EXCEPT ![l] = address]
      /\ UNCHANGED <<tokenized_lines, origin>>
      /\ \/ sym_file' = [sym_file EXCEPT !.addr[l] = address]
         \/ pc' = "free"
  BY DEF SerializeSymbol, SymWriteFails, ToSerialize, Fail, lineVars
<1>2. sym_file \in SymFile /\ dict \in [Labels -> Address \cup {NULL}]
  BY DEF TInv, TypeOK
<1>3. tokenized_lines[0].machine_instruction = origin
  BY <1>1 DEF TInv, OrigFirst
<1>4. address \in Address
  <2>1. dict[l] \in Address /\ origin \in Address
    BY <1>1, <1>2 DEF TInv, TypeOK
  <2>2. dict[l] - 1 + tokenized_lines[0].machine_instruction \in Int
    BY <1>3, <2>1, AddrSpaceAssumption DEF Address
  <2> QED
    BY <2>2, ModAddress
<1>5. address = SymbolAddress(l)
  BY <1>1, <1>3 DEF SymbolAddress
<1> HIDE DEF address
<1>6. CASE pc' = "free"
  BY <1>6 DEF ReferencesResolve, IsParsed
<1>7. CASE sym_file' = [sym_file EXCEPT !.addr[l] = address]
  <2>1. address # NULL
    BY <1>4, SentinelAssumption
  <2>2. \A k \in Labels : /\ dict'[k] # NULL <=> dict[k] # NULL
                          /\ SymbolAddress(k)' = SymbolAddress(k)
    <3>1. ASSUME NEW k \in Labels, k = l
          PROVE  dict'[k] # NULL /\ SymbolAddress(k)' = address
      <4>1. dict'[l] = address /\ sym_file'.addr[l] = address
        BY <1>1, <1>2, <1>7 DEF SymFile
      <4> QED
        BY <2>1, <3>1, <4>1 DEF SymbolAddress
    <3>2. ASSUME NEW k \in Labels, k # l
          PROVE  dict'[k] = dict[k] /\ SymbolAddress(k)' = SymbolAddress(k)
      <4>1. dict'[k] = dict[k] /\ sym_file'.addr[k] = sym_file.addr[k]
        BY <1>1, <1>2, <1>7, <3>2 DEF SymFile
      <4> QED
        BY <1>1, <4>1 DEF SymbolAddress
    <3> QED
      BY <1>1, <1>5, <3>1, <3>2
  <2>3. ASSUME NEW i \in Address, HasTokens(tokenized_lines[i])
        PROVE  Resolves(tokenized_lines[i], i)'
    <3>1. Resolves(tokenized_lines[i], i)
      BY <1>1, <2>3 DEF ReferencesResolve, IsParsed
    <3>2. tokenized_lines[i].tokens.arg.type = "sym" => tokenized_lines[i].tokens.arg.name \in Labels
      BY <2>3, HasTokensType, LinesAssumption DEF TInv, LineStmts
    <3> QED
      BY <1>1, <2>2, <3>1, <3>2 DEF Resolves
  <2> QED
    BY <1>1, <2>3 DEF ReferencesResolve
<1> QED
  BY <1>1, <1>6, <1>7

(* The rest of assemble() changes no word. *)
LEMMA RestReferences ==
  ASSUME TInv, ReferencesResolve, Rest
  PROVE  ReferencesResolve'
<1> USE DEF lineVars, lexVars, fileVars, Return, Fail, Crash
<1>1. ASSUME NEW l \in Labels, SerializeSymbol(l)
      PROVE  ReferencesResolve'
  BY <1>1, SerializeReferences
<1>2. CASE OpenSym \/ SymHeader \/ SerializeEnd \/ OpenObj \/ WriteWord
  <2>1. /\ UNCHANGED <<dict, origin>>
        /\ sym_file'.addr = sym_file.addr
    BY <1>2 DEF OpenSym, SymHeader, SymWriteFails, SerializeEnd, OpenObj, WriteWord, TInv, TypeOK, SymFile
  <2>2. /\ pc \in {"open_sym", "sym_header", "sym", "open_obj", "write"}
        /\ pc' \in {"open_sym", "sym_header", "sym", "open_obj", "write", "free"}
        /\ \A i \in Address : tokenized_lines'[i] \in {tokenized_lines[i], FREED}
    BY <1>2 DEF OpenSym, SymHeader, SymWriteFails, SerializeEnd, OpenObj, WriteWord, TInv, TypeOK
  <2>3. \A i \in Address :
          IsParsed(i)' /\ HasTokens(tokenized_lines'[i]) =>
            IsParsed(i) /\ tokenized_lines'[i] = tokenized_lines[i]
    BY <2>2 DEF IsParsed, HasTokens, IsEntry
  <2> QED
    BY <2>1, <2>3, SameReferences
<1>3. CASE pc' \in {"open_asm", "lex", "parse_orig", "free", "done", "crashed"}
  BY <1>3 DEF ReferencesResolve, IsParsed
<1> QED
  BY <1>1, <1>2, <1>3 DEF Rest, FileNames, FileNamesCrash, OpenAsm, LexOutOfMemory, LexEndOfFile, LexReadError,
     WriteFails, WriteEnd, FreeEntry, FreeEnd, UseAfterFree

(***************************************************************************)
(* Every word that refers to a label refers to the address the .sym file   *)
(* gives for it, for programs that leave room for the sentinel.            *)
(***************************************************************************)
THEOREM WordsAgreeWithSymbols ==
  ASSUME HasRoom
  PROVE  Spec => []ReferencesResolve
<1>1. Init => ReferencesResolve
  BY DEF Init, ReferencesResolve, IsParsed
<1>2. TInv /\ LayoutInv /\ OrderInv /\ ReferencesResolve /\ [Next]_vars => ReferencesResolve'
  <2> SUFFICES ASSUME TInv, LayoutInv, OrderInv, ReferencesResolve, [Next]_vars
               PROVE  ReferencesResolve'
    OBVIOUS
  <2>1. CASE UNCHANGED vars
    BY <2>1, SameReferences DEF vars, IsParsed
  <2> QED
    BY <2>1, LexLineReferences, ParseReferences, RestReferences, StepCases
<1> QED
  BY <1>1, <1>2, TypeInvariance, OrderInvariance, LayoutInvariance, PTL DEF Spec
=============================================================================
