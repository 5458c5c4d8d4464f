----------------------- MODULE AssemblerOutput_proofs -----------------------
(***************************************************************************)
(* What the output files and the result of a run say about the source:     *)
(* every word is computed, there is one for each slot, no line is lost     *)
(* without a report, and a program without .ORIG is rejected.              *)
(***************************************************************************)
EXTENDS AssemblerTable_proofs, WellFoundedInduction

-----------------------------------------------------------------------------
(***************************************************************************)
(* A full table.  The parser only ends at a null pointer, and what comes   *)
(* after it gives no null pointer up: no output file is touched without    *)
(* one, also when the program does not leave room for the sentinel.        *)
(***************************************************************************)
Serialized == pc \in {"open_sym", "sym_header", "sym", "open_obj", "write"}

SentinelInv ==
  Serialized \/ sym_file.state # "untouched" => \E i \in Address : tokenized_lines[i] = NULL

(* A step that keeps the null pointers keeps the invariant. *)
LEMMA KeptSentinel ==
  ASSUME SentinelInv, Kept,
         (Serialized \/ sym_file.state # "untouched")' => Serialized \/ sym_file.state # "untouched"
  PROVE  SentinelInv'
BY DEF SentinelInv, Kept

(* The parser reaches the output only through a null pointer. *)
LEMMA ParseSentinel ==
  ASSUME TInv, OrderInv, SentinelInv, Parse
  PROVE  SentinelInv'
<1>1. /\ pc \in {"parse_orig", "parse"} /\ sym_file.state = "untouched" /\ UNCHANGED sym_file
  <2>1. pc \in {"parse_orig", "parse"} /\ UNCHANGED sym_file
    BY DEF Parse, ParseOrig, ParseOrigCrash, ParseTokens, ParseSkip, ParseEnd, Crash,
           parseUnchanged, fileVars
  <2> QED
    BY <2>1 DEF OrderInv, Early
<1>2. CASE ParseEnd
  BY <1>2, AddrSpaceAssumption DEF ParseEnd, SentinelInv, Current, TInv, TypeOK
<1>3. CASE ~ParseEnd
  <2>1. pc' \in {"parse", "free", "crashed"}
    BY <1>1, <1>3 DEF Parse, ParseOrig, ParseOrigCrash, ParseTokens, ParseSkip, Crash, Fail
  <2> QED
    BY <1>1, <2>1 DEF SentinelInv, Serialized
<1> QED
  BY <1>2, <1>3

(* The rest of assemble() opens the .sym file behind the parser. *)
LEMMA RestSentinel ==
  ASSUME TInv, OrderInv, SentinelInv, Rest
  PROVE  SentinelInv'
<1> USE DEF Serialized, lineVars, lexVars, fileVars, Return, Fail, Crash
<1>1. ASSUME NEW l \in Labels, SerializeSymbol(l)
      PROVE  SentinelInv'
  BY <1>1, KeptSentinel, RestKeeps DEF Rest, SerializeSymbol
<1>2. CASE OpenSym \/ SymHeader \/ SerializeEnd \/ OpenObj \/ WriteWord
  BY <1>2, KeptSentinel, RestKeeps DEF Rest, OpenSym, SymHeader, SerializeEnd, OpenObj, WriteWord
<1>3. CASE /\ UNCHANGED sym_file
           /\ pc' \in {"open_asm", "lex", "parse_orig", "free", "done", "crashed"}
  BY <1>3, KeptSentinel, RestKeeps
<1> QED
  BY <1>1, <1>2, <1>3 DEF Rest, FileNames, FileNamesCrash, OpenAsm, LexOutOfMemory,
     LexEndOfFile, LexReadError, WriteFails, WriteEnd, FreeEntry, FreeEnd, UseAfterFree

(***************************************************************************)
(* A program that fills every slot touches no output file, whatever the    *)
(* size of the table.                                                      *)
(***************************************************************************)
THEOREM FullTableWritesNothing == Spec => []NoOutputWithoutSentinel
<1>1. Init => SentinelInv
  BY DEF Init, SentinelInv, Serialized
<1>2. TInv /\ OrderInv /\ SentinelInv /\ [Next]_vars => SentinelInv'
  <2> SUFFICES ASSUME TInv, OrderInv, SentinelInv, [Next]_vars PROVE SentinelInv'
    OBVIOUS
  <2>1. CASE UNCHANGED vars
    BY <2>1 DEF vars, SentinelInv, Serialized
  <2>2. ASSUME NEW l \in Lines, LexLine(l)
        PROVE  SentinelInv'
    <3>1. pc = "lex" /\ pc' \in {"lex", "parse_orig", "free"} /\ UNCHANGED sym_file
      BY <2>2 DEF LexLine, LexNothing, LexEnd, LexInstruction, LexBlkw, LexStringz, LexLost,
                  GetLine, Fail, fileVars
    <3>2. sym_file.state = "untouched"
      BY <3>1 DEF OrderInv, Early
    <3> QED
      BY <3>1, <3>2 DEF SentinelInv, Serialized
  <2> QED
    BY <2>1, <2>2, ParseSentinel, RestSentinel, StepCases
<1>3. SentinelInv => NoOutputWithoutSentinel
  BY DEF SentinelInv, NoOutputWithoutSentinel
<1> QED
  BY <1>1, <1>2, <1>3, TypeInvariance, OrderInvariance, PTL DEF Spec

-----------------------------------------------------------------------------
(***************************************************************************)
(* Words.  EveryWordComputed rests on what the lexer leaves: an entry      *)
(* without tokens has its word, and so has a .BLKW, which no parse         *)
(* function gives one; no .STRINGZ is left, for the same reason.  An entry *)
(* of a line that is in error is not there when the parser starts.         *)
(***************************************************************************)
HasWord(e) == e.machine_instruction \in Word

WellLexed(e) ==
  /\ e.tokens = NULL \/ e.tokens.type = "blkw" => HasWord(e)
  /\ e.tokens # NULL => e.tokens.type \in {"label", "orig", "fill", "offset", "op", "blkw"}

WordInv ==
  /\ Running => \A i \in Address : IsEntry(tokenized_lines[i]) => WellLexed(tokenized_lines[i])
  /\ EveryWordComputed

(* What a directive expands to is where its line is put, and has words. *)
LEMMA PlaceLexed ==
  ASSUME TInv, HasRoom, NEW table \in Table, NEW ws \in Seq(Word),
         instruction_offset + Len(ws) <= MaxWords,
         \A i \in Address : i # instruction_offset => table[i] = tokenized_lines[i],
         WellLexed(table[instruction_offset]) \/ Len(ws) > 0,
         tokenized_lines' = Place(table, instruction_offset, ws)
  PROVE  \A i \in Address : tokenized_lines'[i] = tokenized_lines[i] \/ WellLexed(tokenized_lines'[i])
<1> SUFFICES ASSUME NEW i \in Address, tokenized_lines'[i] # tokenized_lines[i]
             PROVE  WellLexed(tokenized_lines'[i])
  OBVIOUS
<1>1. instruction_offset \in Address /\ Len(ws) \in Nat
  BY DEF TInv, TypeOK
<1>2. tokenized_lines'[i] = IF instruction_offset <= i /\ i < instruction_offset + Len(ws)
                              THEN Expanded(ws[i - instruction_offset + 1]) ELSE table[i]
  <2>1. instruction_offset + Len(ws) <= AddrSpace
    BY <1>1, AddrSpaceAssumption, BoundsAssumption DEF HasRoom, Address
  <2> QED
    BY <1>1, <2>1, PlaceShape
<1>3. CASE instruction_offset <= i /\ i < instruction_offset + Len(ws)
  <2>1. i - instruction_offset + 1 \in 1 .. Len(ws)
    BY <1>1, <1>3, AddrSpaceAssumption DEF Address
  <2>2. ws[i - instruction_offset + 1] \in Word
    BY <2>1, ElementOfSeq
  <2> QED
    BY <1>2, <1>3, <2>2 DEF Expanded, WellLexed, HasWord
<1>4. CASE ~(instruction_offset <= i /\ i < instruction_offset + Len(ws))
  <2>1. tokenized_lines'[i] = table[i]
    BY <1>2, <1>4
  <2>2. i = instruction_offset
    BY <2>1
  <2>3. Len(ws) = 0
    BY <1>1, <1>4, <2>2, AddrSpaceAssumption DEF Address
  <2> QED
    BY <2>1, <2>2, <2>3
<1> QED
  BY <1>3, <1>4

(* A line that is not in error leaves well lexed entries only. *)
LEMMA LexLineLexed ==
  ASSUME TInv, HasRoom, LayoutInv, NEW l \in Lines, LexLine(l), pc' # "free"
  PROVE  \A i \in Address : tokenized_lines'[i] = tokenized_lines[i] \/ WellLexed(tokenized_lines'[i])
<1>1. /\ instruction_offset \in Address /\ instruction_offset \in Int
      /\ tokenized_lines \in Table /\ l.stmt \in LineStmts /\ l.stmt \in Stmt
      /\ instruction_offset <= MaxWords /\ MaxWords \in Int
  BY LineParts, AddrSpaceAssumption, BoundsAssumption DEF TInv, TypeOK, Table, Address, LayoutInv
<1>2. l.stmt # NULL
  BY <1>1, SentinelAssumption
<1>3. CASE LexNothing(l) \/ LexEnd(l) \/ LexLost(l)
  BY <1>3 DEF LexNothing, LexEnd, LexLost
<1>4. CASE LexInstruction(l)
  <2>1. l.stmt.type \in {"label", "orig", "fill", "offset", "op"}
    BY <1>4 DEF LexInstruction, GetLine
  <2>2. tokenized_lines' = [tokenized_lines EXCEPT ![instruction_offset] =
                              Tokenized(l.stmt, instruction_offset)]
    BY <1>4 DEF LexInstruction, WithEntry
  <2>3. WellLexed(Tokenized(l.stmt, instruction_offset))
    BY <1>2, <2>1 DEF WellLexed, Tokenized
  <2> QED
    BY <1>1, <2>2, <2>3 DEF Table
<1>5. CASE LexBlkw(l)
  <2>1. IsMemoryAddress(l.stmt.arg)
    BY <1>5 DEF LexBlkw, Fail
  <2> DEFINE n == l.stmt.arg.val
             entry == [tokens               |-> l.stmt,
                       instruction_location |-> instruction_offset,
                       machine_instruction  |-> n]
             table == [tokenized_lines EXCEPT ![instruction_offset] = entry]
  <2>2. n \in Address /\ n \in Nat
    BY <2>1, AddrSpaceAssumption DEF IsMemoryAddress, Address
  <2>3. instruction_offset + n <= MaxWords
    BY <1>5, <2>1 DEF LexBlkw, GetLine, WordsOf
  <2>4. entry \in LineMetadata /\ WellLexed(entry)
    BY <1>1, <1>2, <1>5, <2>2 DEF LineMetadata, Word, WellLexed, HasWord, LexBlkw, GetLine
  <2>5. /\ table \in Table
        /\ \A i \in Address : i # instruction_offset => table[i] = tokenized_lines[i]
        /\ WellLexed(table[instruction_offset])
    BY <1>1, <2>4 DEF Table
  <2>6. tokenized_lines' = Place(table, instruction_offset, Zeros(n))
    BY <1>5, <2>1 DEF LexBlkw
  <2>7. Zeros(n) \in Seq(Word) /\ Len(Zeros(n)) = n
    BY <2>2, ZerosType
  <2> HIDE DEF n, table
  <2> QED
    BY <2>3, <2>5, <2>6, <2>7, PlaceLexed
<1>6. CASE LexStringz(l)
  <2> DEFINE words == Append(l.stmt.chars, 0)
             table == WithEntry(l.stmt)
  <2>1. words \in Seq(Word) /\ Len(words) = Len(l.stmt.chars) + 1 /\ Len(l.stmt.chars) \in Nat
    BY <1>1, AddrSpaceAssumption DEF Stmt, Word, Address
  <2>2. tokenized_lines' = Place(table, instruction_offset, words)
    BY <1>6 DEF LexStringz, Fail
  <2>3. instruction_offset + Len(words) <= MaxWords
    BY <1>1, <1>6, <2>1 DEF LexStringz, GetLine, WordsOf
  <2>4. /\ table \in Table
        /\ \A i \in Address : i # instruction_offset => table[i] = tokenized_lines[i]
    BY <1>1, WithEntryFilled
  <2> HIDE DEF words, table
  <2> QED
    BY <2>1, <2>2, <2>3, <2>4, PlaceLexed
<1> QED
  BY <1>3, <1>4, <1>5, <1>6 DEF LexLine

(* No word counts as computed before the parser has passed it. *)
LEMMA LexLineWords ==
  ASSUME TInv, HasRoom, LayoutInv, WordInv, NEW l \in Lines, LexLine(l)
  PROVE  WordInv'
<1>1. pc = "lex" /\ pc' \in {"lex", "parse_orig", "free"}
  BY DEF LexLine, LexNothing, LexEnd, LexInstruction, LexBlkw, LexStringz, LexLost, GetLine, Fail
<1>2. pc' # "free" => \A i \in Address : IsEntry(tokenized_lines'[i]) => WellLexed(tokenized_lines'[i])
  BY <1>1, LexLineLexed DEF WordInv, Running
<1> QED
  BY <1>1, <1>2 DEF WordInv, Running, EveryWordComputed, IsParsed

(* The parser gives the entry at its index a word, or passes one that has. *)
LEMMA ParseTokensWords ==
  ASSUME TInv, HasRoom, LayoutInv, WordInv, ParseTokens
  PROVE  WordInv'
<1> DEFINE entry == tokenized_lines[address_offset]
           w     == ParseLine(entry).word
<1>1. CASE ParseLine(entry).error # "none"
  <2>1. pc' = "free"
    BY <1>1 DEF ParseTokens, Fail, Current
  <2> QED
    BY <2>1 DEF WordInv, Running, EveryWordComputed, IsParsed
<1>2. CASE ParseLine(entry).error = "none"
  <2>1. /\ pc = "parse" /\ pc' = "parse" /\ HasTokens(entry)
        /\ tokenized_lines' = WithWord(address_offset, w)
        /\ address_offset' = NextAddress
    BY <1>2 DEF ParseTokens, Current, WithWord
  <2>2. address_offset \in Address /\ entry \in LineMetadata /\ IsEntry(entry) /\ entry.tokens # NULL
    BY <2>1, HasTokensType DEF TInv, TypeOK, HasTokens
  <2>3. address_offset' = address_offset + 1
    BY <2>1, NextIndex DEF HasTokens, IsEntry, Current
  <2>4. w \in Word \cup {UNINIT}
    BY <1>2, <2>2, ParseLineType DEF TInv
  <2>5. WellLexed(entry)
    BY <2>1, <2>2 DEF WordInv, Running
  <2>6. entry.tokens.type # "orig" => w \in Word
    <3>1. entry.tokens.type \in {"fill", "offset", "op"} => w \in Word
      BY <1>2, <2>2, ParseLineType DEF TInv
    <3>2. entry.tokens.type = "blkw" => w \in Word
      BY <2>2, <2>5 DEF WellLexed, HasWord, ParseLine, Parsed
    <3>3. entry.tokens.type # "label"
      BY <1>2 DEF ParseLine, Rejected
    <3> QED
      BY <2>2, <2>5, <3>1, <3>2, <3>3 DEF WellLexed
  <2>7. /\ \A j \in Address : j # address_offset => tokenized_lines'[j] = tokenized_lines[j]
        /\ tokenized_lines'[address_offset] \in LineMetadata
        /\ tokenized_lines'[address_offset].tokens = entry.tokens
        /\ tokenized_lines'[address_offset].machine_instruction = w
    BY <2>1, <2>2, <2>4, WithWordType DEF TInv
  <2> HIDE DEF w
  <2>8. WellLexed(tokenized_lines'[address_offset])
    BY <2>2, <2>5, <2>6, <2>7 DEF WellLexed, HasWord
  <2>9. \A i \in Address : IsEntry(tokenized_lines'[i]) => WellLexed(tokenized_lines'[i])
    BY <2>1, <2>7, <2>8 DEF WordInv, Running
  <2>10. ASSUME NEW i \in Address, 0 < i, i < address_offset', IsEntry(tokenized_lines'[i]),
                tokenized_lines'[i].machine_instruction = UNINIT
         PROVE  HasTokens(tokenized_lines'[i]) /\ tokenized_lines'[i].tokens.type = "orig"
    <3>1. CASE i = address_offset
      BY <2>2, <2>6, <2>7, <2>10, <3>1, SentinelAssumption DEF HasTokens
    <3>2. CASE i # address_offset
      <4>1. i < address_offset
        BY <2>2, <2>3, <2>10, <3>2, AddrSpaceAssumption DEF Address
      <4>2. tokenized_lines'[i] = tokenized_lines[i]
        BY <2>7, <3>2
      <4> QED
        BY <2>1, <2>10, <4>1, <4>2 DEF WordInv, EveryWordComputed, IsParsed
    <3> QED
      BY <3>1, <3>2
  <2> QED
    BY <2>1, <2>9, <2>10 DEF WordInv, EveryWordComputed, IsParsed
<1> QED
  BY <1>1, <1>2

LEMMA ParseWords ==
  ASSUME TInv, HasRoom, LayoutInv, WordInv, Parse
  PROVE  WordInv'
<1>0. address_offset \in Address /\ instruction_offset \in Address /\ 0 \in Address
  BY AddrSpaceAssumption DEF TInv, TypeOK, Address
<1>1. CASE ParseOrig
  <2> DEFINE address == tokenized_lines[0].tokens.arg.val
  <2>1. pc = "parse_orig" /\ HasTokens(tokenized_lines[0])
    BY <1>1 DEF ParseOrig
  <2>2. CASE pc' = "free"
    BY <2>2 DEF WordInv, Running, EveryWordComputed, IsParsed
  <2>3. CASE pc' # "free"
    <3>1. /\ tokenized_lines[0].tokens.type = "orig" /\ address \in Word
          /\ tokenized_lines' = WithWord(0, address)
          /\ address_offset' = 1 /\ pc' = "parse"
      BY <1>1, <2>3 DEF ParseOrig, Fail, IsMemoryAddress, WithWord, Word
    <3>2. IsEntry(tokenized_lines[0]) /\ address \in Word \cup {UNINIT}
      BY <2>1, <3>1 DEF HasTokens
    <3> HIDE DEF address
    <3>3. /\ \A j \in Address : j # 0 => tokenized_lines'[j] = tokenized_lines[j]
          /\ tokenized_lines'[0].tokens = tokenized_lines[0].tokens
      BY <1>0, <3>1, <3>2, WithWordType DEF TInv
    <3>4. WellLexed(tokenized_lines'[0])
      BY <2>1, <3>1, <3>3 DEF WellLexed, HasTokens
    <3>5. \A i \in Address : IsEntry(tokenized_lines'[i]) => WellLexed(tokenized_lines'[i])
      BY <2>1, <3>3, <3>4 DEF WordInv, Running
    <3>6. \A i \in Address : ~(0 < i /\ i < 1)
      BY AddrSpaceAssumption DEF Address
    <3> QED
      BY <3>1, <3>5, <3>6 DEF WordInv, EveryWordComputed, IsParsed
  <2> QED
    BY <2>2, <2>3
<1>2. CASE ParseOrigCrash
  BY <1>2 DEF ParseOrigCrash, Crash, WordInv, Running, EveryWordComputed, IsParsed
<1>3. CASE ParseTokens
  BY <1>3, ParseTokensWords
<1>4. CASE ParseSkip
  <2>1. /\ pc = "parse" /\ pc' = "parse" /\ Current # NULL /\ ~HasTokens(Current)
        /\ address_offset' = address_offset + 1
        /\ UNCHANGED tokenized_lines
    BY <1>4, NextIndex DEF ParseSkip
  <2>2. IsEntry(Current) => Current.machine_instruction # UNINIT
    BY <1>0, <2>1, SentinelAssumption DEF HasTokens, WordInv, Running, WellLexed, HasWord, Current
  <2>3. \A i \in Address : i < address_offset + 1 <=> i < address_offset \/ i = address_offset
    BY <1>0, AddrSpaceAssumption DEF Address
  <2>4. \A i \in Address : IsEntry(tokenized_lines[i]) => WellLexed(tokenized_lines[i])
    BY <2>1 DEF WordInv, Running
  <2>5. ASSUME NEW i \in Address, 0 < i, i < address_offset + 1, IsEntry(tokenized_lines[i]),
               tokenized_lines[i].machine_instruction = UNINIT
        PROVE  HasTokens(tokenized_lines[i]) /\ tokenized_lines[i].tokens.type = "orig"
    BY <2>1, <2>2, <2>3, <2>5 DEF WordInv, EveryWordComputed, IsParsed, Current
  <2> QED
    BY <2>1, <2>4, <2>5 DEF WordInv, EveryWordComputed, IsParsed, IsEntry, HasTokens, WellLexed, HasWord
<1>5. CASE ParseEnd
  <2>1. /\ pc = "parse" /\ pc' = "open_sym" /\ Current = NULL
        /\ UNCHANGED tokenized_lines
    BY <1>5 DEF ParseEnd
  <2>2. address_offset >= instruction_offset
    BY <1>0, <2>1, AddrSpaceAssumption DEF LayoutInv, NoGaps, Current, Address
  <2>3. ASSUME NEW i \in Address, IsEntry(tokenized_lines[i]), i # 0
        PROVE  IsParsed(i) /\ i > 0
    <3>1. i # address_offset
      BY <2>1, <2>3 DEF IsEntry, Current
    <3>2. ~(i > instruction_offset)
      BY <2>3 DEF IsEntry, LayoutInv, NoGaps
    <3>3. 0 < i /\ i < address_offset
      BY <1>0, <2>2, <2>3, <3>1, <3>2, AddrSpaceAssumption DEF Address
    <3> QED
      BY <2>1, <3>3 DEF IsParsed
  <2>4. tokenized_lines[0].machine_instruction # UNINIT
    BY <2>1, SentinelAssumption DEF TInv, TypeOK, OrigFirst, Word
  <2>5. EveryWordComputed'
    BY <2>1, <2>3, <2>4 DEF EveryWordComputed, WordInv, IsEntry, HasTokens
  <2> QED
    BY <2>1, <2>5 DEF WordInv, Running, IsEntry, WellLexed, HasWord
<1> QED
  BY <1>1, <1>2, <1>3, <1>4, <1>5 DEF Parse

(* The rest of assemble() reads the words and frees their entries. *)
LEMMA RestWords ==
  ASSUME TInv, WordInv, Rest
  PROVE  WordInv'
<1>1. \A i \in Address : tokenized_lines'[i] \in {tokenized_lines[i], FREED}
  BY RestFrees DEF TInv, TypeOK
<1>2. Running' => Running
  BY DEF Rest, Running, FileNames, FileNamesCrash, OpenAsm, LexOutOfMemory, LexEndOfFile,
     LexReadError, OpenSym, SymHeader, SymWriteFails, SerializeSymbol, SerializeEnd, OpenObj,
     WriteWord, WriteFails, WriteEnd, FreeEntry, FreeEnd, UseAfterFree, Crash, Fail, Return
<1>3. \A i \in Address : IsParsed(i)' => IsParsed(i)
  BY DEF Rest, IsParsed, FileNames, FileNamesCrash, OpenAsm, LexOutOfMemory, LexEndOfFile,
     LexReadError, OpenSym, SymHeader, SymWriteFails, SerializeSymbol, SerializeEnd, OpenObj,
     WriteWord, WriteFails, WriteEnd, FreeEntry, FreeEnd, UseAfterFree, Crash, Fail, Return
<1>4. \A i \in Address : IsEntry(tokenized_lines'[i]) =>
        IsEntry(tokenized_lines[i]) /\ tokenized_lines'[i] = tokenized_lines[i]
  BY <1>1 DEF IsEntry
<1> QED
  BY <1>2, <1>3, <1>4 DEF WordInv, EveryWordComputed, HasTokens

(***************************************************************************)
(* Every word the parser has passed is computed, but for a further .ORIG.  *)
(***************************************************************************)
THEOREM NoWordIsLeftOut ==
  ASSUME HasRoom
  PROVE  Spec => []EveryWordComputed
<1>1. Init => WordInv
  BY DEF Init, WordInv, EveryWordComputed, IsParsed, NoLines, IsEntry
<1>2. TInv /\ LayoutInv /\ WordInv /\ [Next]_vars => WordInv'
  <2> SUFFICES ASSUME TInv, LayoutInv, WordInv, [Next]_vars PROVE WordInv'
    OBVIOUS
  <2>1. CASE UNCHANGED vars
    BY <2>1 DEF vars, WordInv, Running, EveryWordComputed, IsParsed, IsEntry, HasTokens, WellLexed, HasWord
  <2> QED
    BY <2>1, LexLineWords, ParseWords, RestWords, StepCases
<1>3. WordInv => EveryWordComputed
  BY DEF WordInv
<1> QED
  BY <1>1, <1>2, <1>3, TypeInvariance, LayoutInvariance, PTL DEF Spec

-----------------------------------------------------------------------------
(***************************************************************************)
(* Counting.  A line that is stored moves the offset on by its words, and  *)
(* a line that is not leaves a trace in errno.                             *)
(***************************************************************************)

(* A line has a natural number of words. *)
LEMMA WordsOfType ==
  ASSUME NEW stmt \in Stmt
  PROVE  WordsOf(stmt) \in Nat
BY AddrSpaceAssumption DEF Stmt, WordsOf, IsMemoryAddress, Address

LEMMA LexLineCounts ==
  ASSUME TInv, HasRoom, LayoutInv, NEW l \in Lines, LexLine(l), pc' # "free"
  PROVE  LexLost(l) \/ instruction_offset' = instruction_offset + WordsOf(l.stmt)
<1>1. instruction_offset \in Address /\ instruction_offset \in Int /\ l.stmt \in Stmt
  BY LineParts, AddrSpaceAssumption DEF TInv, TypeOK, Address
<1>2. CASE LexNothing(l) \/ LexEnd(l)
  BY <1>1, <1>2 DEF LexNothing, LexEnd, GetLine, WordsOf
<1>4. CASE LexInstruction(l)
  <2>1. WordsOf(l.stmt) = 1 /\ instruction_offset + 1 <= MaxWords /\ instruction_offset' = NextOffset(1)
    BY <1>4 DEF LexInstruction, GetLine, WordsOf
  <2> QED
    BY <2>1, NextOffsetFits
<1>5. CASE LexBlkw(l)
  <2>1. IsMemoryAddress(l.stmt.arg)
    BY <1>5 DEF LexBlkw, Fail
  <2> DEFINE n == l.stmt.arg.val
  <2>2. /\ WordsOf(l.stmt) = n
        /\ instruction_offset + n <= MaxWords
        /\ instruction_offset' = NextOffset(n)
    BY <1>5, <2>1 DEF LexBlkw, GetLine, WordsOf
  <2>3. n \in Nat
    BY <2>1, AddrSpaceAssumption DEF IsMemoryAddress, Address
  <2> HIDE DEF n
  <2> QED
    BY <2>2, <2>3, NextOffsetFits
<1>6. CASE LexStringz(l)
  <2> DEFINE n == Len(l.stmt.chars) + 1
  <2>1. n \in Nat /\ Len(Append(l.stmt.chars, 0)) = n
    BY <1>1 DEF Stmt
  <2>2. /\ WordsOf(l.stmt) = n
        /\ instruction_offset + n <= MaxWords
        /\ instruction_offset' = NextOffset(n)
    BY <1>6, <2>1 DEF LexStringz, GetLine, WordsOf, Fail
  <2> HIDE DEF n
  <2> QED
    BY <2>1, <2>2, NextOffsetFits
<1> QED
  BY <1>2, <1>4, <1>5, <1>6 DEF LexLine

-----------------------------------------------------------------------------
(***************************************************************************)
(* One word for each slot.  The file may have one more, the last, when the *)
(* program ends in a .BLKW 0, whose entry is behind the last slot.         *)
(***************************************************************************)
EmptyBlock(stmt) == stmt.type = "blkw" /\ WordsOf(stmt) = 0

EndsInEmptyBlock ==
  \E k \in DOMAIN source :
    /\ EmptyBlock(source[k].stmt)
    /\ \A n \in DOMAIN source :
         n > k => source[n].stmt.type \in {"none", "end"} \/ errno = "ENOMEM"

SlotInv ==
  /\ Running => tokenized_lines[instruction_offset] = NULL \/ EndsInEmptyBlock
  /\ result = "success" => pc = "done"
  /\ OneWordPerSlot \/ EndsInEmptyBlock

(* Behind the words of a line there is room, unless it is an empty block. *)
LEMMA LexLineSlots ==
  ASSUME TInv, HasRoom, LayoutInv, OrderInv, SlotInv, NEW l \in Lines, LexLine(l)
  PROVE  SlotInv'
<1>1. /\ pc = "lex" /\ source' = Append(source, l) /\ errno' \in {errno, "ENOMEM"}
      /\ l.stmt.type \in LineType
  BY DEF LexLine, LexNothing, LexEnd, LexInstruction, LexBlkw, LexStringz, LexLost, GetLine,
         AddLabel, LineType
<1>2. /\ source \in Seq(Lines) /\ l.stmt \in Stmt
      /\ instruction_offset \in Address /\ instruction_offset' \in Address
  BY LineParts, LexLineType DEF TInv, TypeOK
<1>3. /\ Len(source) \in Nat /\ DOMAIN source = 1 .. Len(source)
      /\ DOMAIN source' = 1 .. Len(source) + 1
      /\ source'[Len(source) + 1] = l
      /\ \A n \in DOMAIN source : source'[n] = source[n]
  BY <1>1, <1>2
<1>4. result' # "success"
  <2>1. result' \in {result, "blkw_operand", "bad_string", "out_of_memory"} /\ result = "none"
    BY <1>1 DEF LexLine, LexNothing, LexEnd, LexInstruction, LexBlkw, LexStringz, LexLost, Fail,
                OrderInv, Running
  <2> QED
    BY <2>1
<1>5. CASE pc' = "free"
  BY <1>4, <1>5 DEF SlotInv, Running, OneWordPerSlot
<1>6. CASE pc' # "free"
  <2>1. CASE EmptyBlock(l.stmt)
    <3>1. EndsInEmptyBlock'
      BY <1>1, <1>3, <2>1 DEF EndsInEmptyBlock
    <3> QED
      BY <1>4, <3>1 DEF SlotInv
  <2>2. CASE ~EmptyBlock(l.stmt)
    <3>1. CASE LexNothing(l) \/ LexEnd(l) \/ LexLost(l)
      <4>1. /\ UNCHANGED <<tokenized_lines, instruction_offset>>
            /\ l.stmt.type \in {"none", "end"} \/ errno' = "ENOMEM"
        BY <3>1 DEF LexNothing, LexEnd, LexLost, GetLine
      <4>2. EndsInEmptyBlock => EndsInEmptyBlock'
        BY <1>1, <1>3, <4>1 DEF EndsInEmptyBlock
      <4> QED
        BY <1>1, <1>4, <4>1, <4>2 DEF SlotInv, Running, OneWordPerSlot
    <3>2. CASE ~(LexNothing(l) \/ LexEnd(l) \/ LexLost(l))
      <4>1. instruction_offset' > instruction_offset
        <5>1. l.stmt.type \in {"label", "orig", "fill", "offset", "op", "blkw", "stringz"}
          BY <3>2 DEF LexLine, LexInstruction, LexBlkw, LexStringz, GetLine
        <5>2. WordsOf(l.stmt) \in Nat
          BY <1>2, WordsOfType
        <5>3. WordsOf(l.stmt) > 0
          <6>1. CASE l.stmt.type = "blkw"
            BY <2>2, <5>2, <6>1 DEF EmptyBlock
          <6>2. CASE l.stmt.type = "stringz"
            BY <1>2, <6>2 DEF WordsOf, Stmt
          <6>3. CASE l.stmt.type \in {"label", "orig", "fill", "offset", "op"}
            BY <6>3 DEF WordsOf
          <6> QED
            BY <5>1, <6>1, <6>2, <6>3
        <5>4. instruction_offset' = instruction_offset + WordsOf(l.stmt)
          BY <1>6, <3>2, LexLineCounts
        <5> QED
          BY <1>2, <5>2, <5>3, <5>4, AddrSpaceAssumption DEF Address
      <4>2. tokenized_lines'[instruction_offset'] = tokenized_lines[instruction_offset']
        BY <1>2, <4>1, LexLineFills, AddrSpaceAssumption DEF LayoutInv, Filled, Address
      <4> QED
        BY <1>2, <1>4, <4>1, <4>2 DEF SlotInv, LayoutInv, NoGaps, OneWordPerSlot
    <3> QED
      BY <3>1, <3>2
  <2> QED
    BY <2>1, <2>2
<1> QED
  BY <1>5, <1>6

(* What the lexer read is not touched again. *)
LEMMA SourceKept ==
  ASSUME Parse \/ Rest
  PROVE  /\ UNCHANGED <<source, errno>>
         /\ UNCHANGED instruction_offset
<1> USE DEF Crash, Fail, Return, lexVars, lineVars, parseUnchanged
<1>1. CASE Parse
  BY <1>1 DEF Parse, ParseOrig, ParseOrigCrash, ParseTokens, ParseSkip, ParseEnd
<1>2. CASE Rest
  BY <1>2 DEF Rest, FileNames, FileNamesCrash, OpenAsm, LexOutOfMemory, LexEndOfFile,
     LexReadError, OpenSym, SymHeader, SymWriteFails, SerializeSymbol, SerializeEnd, OpenObj,
     WriteWord, WriteFails, WriteEnd, FreeEntry, FreeEnd, UseAfterFree
<1> QED
  BY <1>1, <1>2

(* Success is what the write loop reports when it comes to the sentinel. *)
LEMMA SuccessStep ==
  ASSUME TInv, OrderInv, result = "success" => pc = "done", Parse \/ Rest, result' = "success"
  PROVE  WriteEnd
<1> USE DEF Crash, Fail, Return, OrderInv, Running, SyntaxErrors
<1>1. CASE Parse
  <2>1. pc \in {"parse_orig", "parse"} /\ result = "none"
    BY <1>1 DEF Parse, ParseOrig, ParseOrigCrash, ParseTokens, ParseSkip, ParseEnd
  <2>2. result' = result \/ ParseTokens
    BY <1>1, <2>1 DEF Parse, ParseOrig, ParseOrigCrash, ParseSkip, ParseEnd
  <2>3. CASE ParseTokens
    <3>1. Current \in LineMetadata /\ Current.tokens # NULL
      BY <2>3, HasTokensType DEF ParseTokens, Current, HasTokens, TInv, TypeOK
    <3>2. ParseLine(Current).error \in SyntaxErrors \cup {"none"}
      BY <3>1, ParseLineType DEF TInv
    <3> QED
      BY <2>1, <2>3, <3>2 DEF ParseTokens
  <2> QED
    BY <2>1, <2>2, <2>3
<1>2. CASE Rest
  BY <1>2 DEF Rest, FileNames, FileNamesCrash, OpenAsm, LexOutOfMemory, LexEndOfFile,
     LexReadError, OpenSym, SymHeader, SymWriteFails, SerializeSymbol, SerializeEnd, OpenObj,
     WriteWord, WriteFails, WriteEnd, FreeEntry, FreeEnd, UseAfterFree
<1> QED
  BY <1>1, <1>2

LEMMA ParseRestSlots ==
  ASSUME TInv, HasRoom, LayoutInv, MemoryInv, OrderInv, SlotInv, Parse \/ Rest
  PROVE  SlotInv'
<1>1. UNCHANGED <<source, errno>> /\ UNCHANGED instruction_offset
  BY SourceKept
<1>2. EndsInEmptyBlock' = EndsInEmptyBlock
  BY <1>1 DEF EndsInEmptyBlock
<1>3. Kept
  BY ParseKeeps, RestKeeps
<1>4. instruction_offset \in Address /\ address_offset \in Address
  BY DEF TInv, TypeOK
<1>5. Running' => Running
  <2> USE DEF Running, Crash, Fail, Return
  <2>1. CASE Parse
    BY <2>1 DEF Parse, ParseOrig, ParseOrigCrash, ParseTokens, ParseSkip, ParseEnd
  <2>2. CASE Rest
    BY <2>2 DEF Rest, FileNames, FileNamesCrash, OpenAsm, LexOutOfMemory, LexEndOfFile,
       LexReadError, OpenSym, SymHeader, SymWriteFails, SerializeSymbol, SerializeEnd, OpenObj,
       WriteWord, WriteFails, WriteEnd, FreeEntry, FreeEnd, UseAfterFree
  <2> QED
    BY <2>1, <2>2
<1>6. Running' => tokenized_lines'[instruction_offset'] = NULL \/ EndsInEmptyBlock'
  BY <1>1, <1>2, <1>3, <1>4, <1>5 DEF SlotInv, Kept
<1>7. CASE result' # "success"
  BY <1>6, <1>7 DEF SlotInv, OneWordPerSlot
<1>8. CASE result' = "success"
  <2>1. WriteEnd
    BY <1>8, SuccessStep DEF SlotInv
  <2>2. /\ pc = "write" /\ pc' = "done" /\ Current = NULL
        /\ \E s \in Closed : obj_file' = [obj_file EXCEPT !.state = s]
    BY <2>1 DEF WriteEnd, Return
  <2>3. obj_file'.words = obj_file.words
    BY <2>2 DEF TInv, TypeOK, ObjFile
  <2>4. Len(obj_file.words) = address_offset
    BY <2>2 DEF MemoryInv
  <2>5. ASSUME tokenized_lines[instruction_offset] = NULL
        PROVE  address_offset = instruction_offset
    <3>1. address_offset >= instruction_offset
      BY <1>4, <2>2, AddrSpaceAssumption DEF LayoutInv, NoGaps, Current, Address
    <3>2. ~(instruction_offset < address_offset)
      BY <1>4, <2>2, <2>5, SentinelAssumption DEF MemoryInv, Freeing
    <3> QED
      BY <1>4, <3>1, <3>2, AddrSpaceAssumption DEF Address
  <2>6. OneWordPerSlot' \/ EndsInEmptyBlock'
    BY <1>1, <1>2, <2>2, <2>3, <2>4, <2>5 DEF SlotInv, Running, OneWordPerSlot
  <2> QED
    BY <1>6, <2>2, <2>6 DEF SlotInv
<1> QED
  BY <1>7, <1>8

LEMMA SlotInvariance ==
  ASSUME HasRoom
  PROVE  Spec => []SlotInv
<1>1. Init => SlotInv
  BY AddrSpaceAssumption DEF Init, SlotInv, OneWordPerSlot, NoLines, Address
<1>2. TInv /\ LayoutInv /\ MemoryInv /\ OrderInv /\ SlotInv /\ [Next]_vars => SlotInv'
  <2> SUFFICES ASSUME TInv, LayoutInv, MemoryInv, OrderInv, SlotInv, [Next]_vars PROVE SlotInv'
    OBVIOUS
  <2>1. CASE UNCHANGED vars
    BY <2>1 DEF vars, SlotInv, Running, OneWordPerSlot, EndsInEmptyBlock
  <2> QED
    BY <2>1, LexLineSlots, ParseRestSlots, StepCases
<1> QED
  BY <1>1, <1>2, TypeInvariance, LayoutInvariance, MemoryInvariance, OrderInvariance, PTL DEF Spec

(***************************************************************************)
(* The object file has one word for each slot the labels were counted by,  *)
(* if the program does not end in a .BLKW 0, which gets a word for itself. *)
(***************************************************************************)
THEOREM WordsMatchSlots ==
  ASSUME HasRoom
  PROVE  Spec => [](OneWordPerSlot \/ EndsInEmptyBlock)
BY SlotInvariance, PTL DEF SlotInv

(***************************************************************************)
(* So the addresses in the .sym file are those the words are loaded at     *)
(* when no line is a .BLKW 0.                                              *)
(***************************************************************************)
THEOREM WordsMatchSlotsWithoutEmptyBlocks ==
  ASSUME HasRoom, \A l \in Lines : ~EmptyBlock(l.stmt)
  PROVE  Spec => []OneWordPerSlot
<1>1. TInv /\ SlotInv => OneWordPerSlot
  <2> SUFFICES ASSUME TInv, EndsInEmptyBlock PROVE FALSE
    BY DEF SlotInv
  <2>1. PICK k \in DOMAIN source : EmptyBlock(source[k].stmt)
    BY DEF EndsInEmptyBlock
  <2>2. source[k] \in Lines
    BY <2>1 DEF TInv, TypeOK
  <2> QED
    BY <2>1, <2>2
<1> QED
  BY <1>1, TypeInvariance, SlotInvariance, PTL

-----------------------------------------------------------------------------
(***************************************************************************)
(* A missing .ORIG.  Until the parser has looked at entry 0, that entry is *)
(* what the first line with words left there.                              *)
(***************************************************************************)
Code(s) == {k \in DOMAIN s : WordsOf(s[k].stmt) > 0}

IsFirst(s, first) == first \in Code(s) /\ \A k \in Code(s) : first <= k

FirstInv ==
  /\ pc \in {"start", "open_asm", "lex", "parse_orig"} =>
       /\ instruction_offset = 0 <=> Code(source) = {}
       /\ \A first : IsFirst(source, first) =>
            source[first].stmt.type \in {"blkw", "stringz"} \/ HasTokens(tokenized_lines[0])
  /\ MissingOrigIsReported

(* What a line adds to a source. *)
LEMMA Appended ==
  ASSUME NEW s \in Seq(Lines), NEW l \in Lines
  PROVE  /\ Len(s) \in Nat /\ DOMAIN s = 1 .. Len(s)
         /\ Append(s, l) \in Seq(Lines)
         /\ Len(Append(s, l)) = Len(s) + 1
         /\ DOMAIN Append(s, l) = 1 .. Len(s) + 1
         /\ Append(s, l)[Len(s) + 1] = l
         /\ \A n \in 1 .. Len(s) : Append(s, l)[n] = s[n]
OBVIOUS

LEMMA LexLineFirst ==
  ASSUME TInv, HasRoom, LayoutInv, FirstInv, "malloc" \notin Faults, NEW l \in Lines, LexLine(l)
  PROVE  FirstInv'
<1>1. pc = "lex" /\ source' = Append(source, l) /\ pc' \in {"lex", "parse_orig", "free"}
  BY DEF LexLine, LexNothing, LexEnd, LexInstruction, LexBlkw, LexStringz, LexLost, GetLine, Fail
<1>2. CASE pc' = "free"
  BY <1>2 DEF FirstInv, MissingOrigIsReported
<1>3. CASE pc' # "free"
  <2>1. /\ source \in Seq(Lines) /\ instruction_offset \in Address /\ instruction_offset' \in Address
        /\ 0 \in Address /\ tokenized_lines \in Table /\ l.stmt \in LineStmts
    BY LineParts, LexLineType, AddrSpaceAssumption DEF TInv, TypeOK, Address, Table
  <2>2. WordsOf(l.stmt) \in Nat
    BY LineParts, WordsOfType
  <2>3. instruction_offset' = instruction_offset + WordsOf(l.stmt)
    BY <1>3, LexLineCounts DEF LexLost
  <2>4. /\ Code(source') = Code(source) \cup {k \in {Len(source) + 1} : WordsOf(l.stmt) > 0}
        /\ Code(source) \subseteq 1 .. Len(source)
    BY <1>1, <2>1, Appended DEF Code
  <2>5. instruction_offset' = 0 <=> Code(source') = {}
    BY <1>1, <2>1, <2>2, <2>3, <2>4, AddrSpaceAssumption DEF FirstInv, Address
  <2>6. ASSUME NEW first, IsFirst(source', first)
        PROVE  source'[first].stmt.type \in {"blkw", "stringz"} \/ HasTokens(tokenized_lines'[0])
    <3>1. CASE Code(source) = {}
      <4>1. first = Len(source) + 1 /\ WordsOf(l.stmt) > 0
        BY <2>4, <2>6, <3>1 DEF IsFirst
      <4>2. source'[first] = l
        BY <1>1, <2>1, <4>1, Appended
      <4>3. CASE LexInstruction(l)
        <5>1. tokenized_lines'[0] = Tokenized(l.stmt, 0)
          BY <1>1, <2>1, <3>1, <4>3 DEF LexInstruction, WithEntry, FirstInv, Table
        <5>2. Tokenized(l.stmt, 0) \in LineMetadata /\ l.stmt # NULL
          BY <2>1, EntryType, SentinelAssumption
        <5> QED
          BY <5>1, <5>2, PointerAssumption DEF HasTokens, IsEntry, Tokenized
      <4>4. CASE LexNothing(l) \/ LexEnd(l)
        BY <4>1, <4>4 DEF LexNothing, LexEnd, GetLine, WordsOf
      <4>5. CASE LexBlkw(l) \/ LexStringz(l)
        BY <4>2, <4>5 DEF LexBlkw, LexStringz, GetLine
      <4> QED
        BY <4>3, <4>4, <4>5 DEF LexLine, LexLost
    <3>2. CASE Code(source) # {}
      <4>1. IsFirst(source, first) /\ first \in 1 .. Len(source)
        <5>1. PICK k \in Code(source) : TRUE
          BY <3>2
        <5>2. first <= k /\ k \in 1 .. Len(source) /\ Len(source) \in Nat
          BY <2>1, <2>4, <2>6, <5>1, Appended DEF IsFirst
        <5>3. first # Len(source) + 1
          BY <5>2
        <5> QED
          BY <2>4, <2>6, <5>3 DEF IsFirst
      <4>2. source'[first] = source[first]
        BY <1>1, <2>1, <4>1, Appended
      <4>3. 0 < instruction_offset
        BY <1>1, <2>1, <3>2, AddrSpaceAssumption DEF FirstInv, Address
      <4>4. tokenized_lines'[0] = tokenized_lines[0]
        BY <2>1, <4>3, LexLineFills DEF LayoutInv, Filled
      <4> QED
        BY <1>1, <4>1, <4>2, <4>4 DEF FirstInv
    <3> QED
      BY <3>1, <3>2
  <2> QED
    BY <1>1, <1>3, <2>5, <2>6 DEF FirstInv, MissingOrigIsReported
<1> QED
  BY <1>2, <1>3

(* A crash behind the lexer is that of a parser with no tokens in entry 0. *)
LEMMA CrashReported ==
  ASSUME FirstInv, pc \in {"start", "open_asm", "lex", "parse_orig"}, UNCHANGED source,
         ~HasTokens(tokenized_lines[0])
  PROVE  MissingOrigIsReported'
BY DEF FirstInv, MissingOrigIsReported, Code, IsFirst

LEMMA ParseRestFirst ==
  ASSUME TInv, HasRoom, LayoutInv, MemoryInv, FirstInv, "malloc" \notin Faults, Parse \/ Rest
  PROVE  FirstInv'
<1>1. UNCHANGED <<source, errno>> /\ UNCHANGED instruction_offset
  BY SourceKept
<1>2. ~UseAfterFree /\ ~LexOutOfMemory
  BY AddrSpaceAssumption DEF TInv, TypeOK, MemoryInv, Freeing, UseAfterFree, LexOutOfMemory, Current, Address
<1>3. CASE FileNames \/ OpenAsm \/ LexEndOfFile
  <2>1. /\ UNCHANGED tokenized_lines
        /\ pc \in {"start", "open_asm", "lex"}
        /\ pc' \in {"open_asm", "lex", "parse_orig", "done"}
    BY <1>3 DEF FileNames, OpenAsm, LexEndOfFile, Return, lineVars
  <2> QED
    BY <1>1, <2>1 DEF FirstInv, MissingOrigIsReported, HasTokens, IsEntry
<1>4. CASE FileNamesCrash \/ ParseOrigCrash
  <2>1. pc \in {"start", "parse_orig"} /\ pc' = "crashed"
    BY <1>4 DEF FileNamesCrash, ParseOrigCrash, Crash
  <2>2. ~HasTokens(tokenized_lines[0])
    BY <1>4, AddrSpaceAssumption
       DEF FileNamesCrash, ParseOrigCrash, MemoryInv, NoLines, HasTokens, IsEntry, Address
  <2> QED
    BY <1>1, <2>1, <2>2, CrashReported DEF FirstInv
<1>5. CASE ~(FileNames \/ OpenAsm \/ LexEndOfFile \/ FileNamesCrash \/ ParseOrigCrash)
  <2>1. pc' \notin {"start", "open_asm", "lex", "parse_orig", "crashed"}
    <3> USE DEF Crash, Fail, Return
    <3>1. CASE Parse
      BY <1>5, <3>1 DEF Parse, ParseOrig, ParseTokens, ParseSkip, ParseEnd
    <3>2. CASE Rest
      BY <1>2, <1>5, <3>2 DEF Rest, LexReadError, OpenSym, SymHeader, SymWriteFails,
         SerializeSymbol, SerializeEnd, OpenObj, WriteWord, WriteFails, WriteEnd, FreeEntry, FreeEnd
    <3> QED
      BY <3>1, <3>2
  <2> QED
    BY <2>1 DEF FirstInv, MissingOrigIsReported
<1> QED
  BY <1>3, <1>4, <1>5

(***************************************************************************)
(* When memory does not run out, a program that has code ends in a report  *)
(* or in a result, unless its first words are those of data.               *)
(***************************************************************************)
THEOREM MissingOrigNeverCrashes ==
  ASSUME HasRoom, "malloc" \notin Faults
  PROVE  Spec => []MissingOrigIsReported
<1>1. Init => FirstInv
  BY DEF Init, FirstInv, MissingOrigIsReported, Code, IsFirst
<1>2. TInv /\ LayoutInv /\ MemoryInv /\ FirstInv /\ [Next]_vars => FirstInv'
  <2> SUFFICES ASSUME TInv, LayoutInv, MemoryInv, FirstInv, [Next]_vars PROVE FirstInv'
    OBVIOUS
  <2>1. CASE UNCHANGED vars
    BY <2>1 DEF vars, FirstInv, MissingOrigIsReported, HasTokens, IsEntry
  <2> QED
    BY <2>1, LexLineFirst, ParseRestFirst, StepCases
<1>3. FirstInv => MissingOrigIsReported
  BY DEF FirstInv
<1> QED
  BY <1>1, <1>2, <1>3, TypeInvariance, LayoutInvariance, MemoryInvariance, PTL DEF Spec

-----------------------------------------------------------------------------
(***************************************************************************)
(* The words of the first lines of a source.  The sum is defined by        *)
(* recursion; what it is for every length follows from the least length    *)
(* for which it would not be.                                              *)
(***************************************************************************)
LEMMA LeastNatural ==
  ASSUME NEW S \in SUBSET Nat, S # {}
  PROVE  \E m \in S : \A n \in S : m <= n
<1>1. PICK m \in S : \A n \in S : ~ (<<n, m>> \in OpToRel(<, Nat))
  BY NatLessThanWellFounded, WFMin
<1>2. \A n \in S : ~ (n < m) /\ n \in Nat
  BY <1>1 DEF OpToRel
<1> QED
  BY <1>2

IsSum(f, w, n) ==
  f = [k \in 0 .. n |-> IF k = 0 THEN 0 ELSE f[k - 1] + w[k]]

(* A sum of n numbers is extended to one of n + 1. *)
LEMMA SumExtends ==
  ASSUME NEW w, NEW n \in Nat, NEW f, IsSum(f, w, n)
  PROVE  \E g : IsSum(g, w, n + 1)
<1> DEFINE g == [k \in 0 .. n + 1 |-> IF k = n + 1 THEN f[n] + w[n + 1] ELSE f[k]]
<1>1. ASSUME NEW k \in 0 .. n + 1
      PROVE  g[k] = IF k = 0 THEN 0 ELSE g[k - 1] + w[k]
  <2>1. CASE k = n + 1
    <3>1. n \in 0 .. n + 1 /\ n # n + 1 /\ k - 1 = n /\ k # 0
      BY <2>1
    <3>2. g[n] = f[n] /\ g[k] = f[n] + w[k]
      BY <2>1, <3>1
    <3> HIDE DEF g
    <3> QED
      BY <3>1, <3>2
  <2>2. CASE k # n + 1
    <3>1. k \in 0 .. n /\ (k # 0 => k - 1 \in 0 .. n)
      BY <2>2
    <3>2. f[k] = IF k = 0 THEN 0 ELSE f[k - 1] + w[k]
      BY <3>1 DEF IsSum
    <3>3. g[k] = f[k] /\ (k # 0 => g[k - 1] = f[k - 1])
      BY <2>2, <3>1
    <3> HIDE DEF g
    <3> QED
      BY <3>2, <3>3
  <2> QED
    BY <2>1, <2>2
<1>2. g = [k \in 0 .. n + 1 |-> g[k]]
  OBVIOUS
<1>3. IsSum(g, w, n + 1)
  <2> HIDE DEF g
  <2>1. [k \in 0 .. n + 1 |-> g[k]] =
        [k \in 0 .. n + 1 |-> IF k = 0 THEN 0 ELSE g[k - 1] + w[k]]
    BY <1>1
  <2> QED
    BY <1>2, <2>1 DEF IsSum
<1> QED
  BY <1>3

(* So there are sums of every length. *)
LEMMA SumExists ==
  ASSUME NEW w, NEW n \in Nat
  PROVE  \E f : IsSum(f, w, n)
<1> DEFINE S == {m \in Nat : ~ \E f : IsSum(f, w, m)}
<1> SUFFICES ASSUME S # {} PROVE FALSE
  OBVIOUS
<1>1. PICK m \in S : \A k \in S : m <= k
  <2>1. S \in SUBSET Nat
    OBVIOUS
  <2> HIDE DEF S
  <2> QED
    BY <2>1, LeastNatural
<1>2. CASE m = 0
  <2>1. IsSum([k \in 0 .. 0 |-> 0], w, 0)
    BY DEF IsSum
  <2> QED
    BY <1>2, <2>1
<1>3. CASE m # 0
  <2>1. m - 1 \in Nat /\ m - 1 \notin S /\ m - 1 + 1 = m
    BY <1>1, <1>3
  <2>2. PICK f : IsSum(f, w, m - 1)
    BY <2>1
  <2> QED
    BY <2>1, <2>2, SumExtends
<1> QED
  BY <1>2, <1>3

(* WordsUpTo is the sum. *)
LEMMA WordsUpToIs ==
  ASSUME NEW s \in Seq(Lines)
  PROVE  /\ WordsUpTo(s)[0] = 0
         /\ \A k \in 1 .. Len(s) : WordsUpTo(s)[k] = WordsUpTo(s)[k - 1] + WordsOf(s[k].stmt)
<1> DEFINE w == [k \in 1 .. Len(s) |-> WordsOf(s[k].stmt)]
           Sum(f) == f = [k \in 0 .. Len(s) |->
                            IF k = 0 THEN 0 ELSE f[k - 1] + WordsOf(s[k].stmt)]
<1>1. Len(s) \in Nat
  OBVIOUS
<1>2. ASSUME NEW f, IsSum(f, w, Len(s))
      PROVE  Sum(f)
  <2>1. \A k \in 0 .. Len(s) : k # 0 => w[k] = WordsOf(s[k].stmt)
    BY <1>1
  <2> QED
    BY <1>2, <2>1 DEF IsSum
<1>3. \E f : Sum(f)
  BY <1>1, <1>2, SumExists
<1>4. WordsUpTo(s) = CHOOSE f : Sum(f)
  BY DEF WordsUpTo
<1>5. Sum(WordsUpTo(s))
  BY <1>3, <1>4
<1> QED
  BY <1>1, <1>5

(* A further line adds its words and changes no sum before it. *)
LEMMA WordsAppended ==
  ASSUME NEW s \in Seq(Lines), NEW l \in Lines
  PROVE  /\ \A k \in 0 .. Len(s) : WordsUpTo(Append(s, l))[k] = WordsUpTo(s)[k]
         /\ WordsUpTo(Append(s, l))[Len(s) + 1] = WordsUpTo(s)[Len(s)] + WordsOf(l.stmt)
<1> DEFINE t == Append(s, l)
           S == {k \in 0 .. Len(s) : WordsUpTo(t)[k] # WordsUpTo(s)[k]}
<1>1. /\ Len(s) \in Nat /\ t \in Seq(Lines) /\ Len(t) = Len(s) + 1 /\ t[Len(s) + 1] = l
      /\ \A n \in 1 .. Len(s) : t[n] = s[n]
  BY Appended
<1> HIDE DEF t
<1>2. S = {}
  <2> SUFFICES ASSUME S # {} PROVE FALSE
    OBVIOUS
  <2>1. PICK m \in S : \A k \in S : m <= k
    <3>1. S \in SUBSET Nat
      BY <1>1
    <3> HIDE DEF S
    <3> QED
      BY <3>1, LeastNatural
  <2>2. m # 0
    BY <1>1, <2>1, WordsUpToIs
  <2>3. m \in 1 .. Len(s) /\ m - 1 \in 0 .. Len(s) /\ m - 1 \notin S /\ m \in 1 .. Len(t)
    BY <1>1, <2>1, <2>2
  <2>4. WordsUpTo(t)[m - 1] = WordsUpTo(s)[m - 1]
    BY <2>3
  <2> QED
    BY <1>1, <2>1, <2>3, <2>4, WordsUpToIs
<1>3. \A k \in 0 .. Len(s) : WordsUpTo(t)[k] = WordsUpTo(s)[k]
  BY <1>2
<1>4. Len(s) + 1 \in 1 .. Len(t) /\ Len(s) + 1 - 1 = Len(s)
  BY <1>1
<1>5. WordsUpTo(t)[Len(s) + 1] = WordsUpTo(t)[Len(s)] + WordsOf(t[Len(s) + 1].stmt)
  BY <1>1, <1>4, WordsUpToIs
<1>6. WordsUpTo(t)[Len(s) + 1] = WordsUpTo(s)[Len(s)] + WordsOf(l.stmt)
  BY <1>1, <1>3, <1>5
<1> QED
  BY <1>3, <1>6 DEF t

-----------------------------------------------------------------------------
(***************************************************************************)
(* Losses.  Nobody looks whether a label or a line was stored; errno       *)
(* remembers that one was not until the end of the file.                   *)
(***************************************************************************)
Complete ==
  /\ instruction_offset = WordsUpTo(source)[Len(source)]
  /\ \A k \in DOMAIN source : source[k].label # NULL => dict[source[k].label] # NULL

HasEnd == \E k \in DOMAIN source : source[k].stmt.type = "end"

LossInv ==
  /\ (Running \/ result = "success") /\ errno = "none" => Complete
  /\ (Running /\ pc \notin {"start", "open_asm", "lex"}) \/ result = "success" =>
       errno = "none" \/ HasEnd
  /\ result = "success" => dict = sym_file.addr

(* A line is stored, or errno is set. *)
LEMMA LexLineComplete ==
  ASSUME TInv, HasRoom, LayoutInv, OrderInv, LossInv, NEW l \in Lines, LexLine(l)
  PROVE  LossInv'
<1>1. /\ pc = "lex" /\ source' = Append(source, l) /\ pc' \in {"lex", "parse_orig", "free"}
      /\ AddLabel(l.label) \/ (LexLost(l) /\ errno' = "ENOMEM")
  BY DEF LexLine, LexNothing, LexEnd, LexInstruction, LexBlkw, LexStringz, LexLost, GetLine, Fail
<1>2. /\ source \in Seq(Lines) /\ dict \in [Labels -> Address \cup {NULL}]
      /\ instruction_offset \in Address /\ errno \in {"none", "ENOMEM"}
      /\ l.label \in Labels \cup {NULL}
  BY LineParts DEF TInv, TypeOK
<1>3. result' # "success"
  <2>1. result' \in {result, "blkw_operand", "bad_string", "out_of_memory"} /\ result = "none"
    BY <1>1 DEF LexLine, LexNothing, LexEnd, LexInstruction, LexBlkw, LexStringz, LexLost, Fail,
                OrderInv, Running
  <2> QED
    BY <2>1
<1>4. ASSUME pc' # "free", errno' = "none"
      PROVE  Complete'
  <2>1. /\ AddLabel(l.label) /\ ~LexLost(l) /\ errno = "none"
        /\ l.label # NULL => dict' = [dict EXCEPT ![l.label] = instruction_offset]
        /\ l.label = NULL => dict' = dict
    BY <1>1, <1>2, <1>4 DEF AddLabel, LexLost
  <2>2. Complete
    BY <1>1, <2>1 DEF LossInv, Running
  <2>3. instruction_offset' = instruction_offset + WordsOf(l.stmt)
    BY <1>4, <2>1, LexLineCounts
  <2>4. instruction_offset' = WordsUpTo(source')[Len(source')]
    BY <1>1, <1>2, <2>2, <2>3, Appended, WordsAppended DEF Complete
  <2>5. ASSUME NEW k \in DOMAIN source', source'[k].label # NULL
        PROVE  dict'[source'[k].label] # NULL
    <3>1. instruction_offset # NULL
      BY <1>2, SentinelAssumption
    <3>2. CASE k = Len(source) + 1
      BY <1>1, <1>2, <2>1, <2>5, <3>1, <3>2, Appended
    <3>3. CASE k # Len(source) + 1
      <4>1. k \in DOMAIN source /\ source'[k] = source[k]
        BY <1>1, <1>2, <2>5, <3>3, Appended
      <4>2. dict[source[k].label] # NULL /\ source[k].label \in Labels
        <5>1. source[k] \in Lines
          BY <1>2, <4>1
        <5> QED
          BY <2>2, <2>5, <4>1, <5>1, LineParts DEF Complete
      <4> QED
        BY <1>2, <2>1, <3>1, <4>1, <4>2
    <3> QED
      BY <3>2, <3>3
  <2> QED
    BY <2>4, <2>5 DEF Complete
<1>5. pc' = "parse_orig" => HasEnd'
  <2>1. pc' = "parse_orig" => l.stmt.type = "end"
    BY <1>1 DEF LexLine, LexNothing, LexEnd, LexInstruction, LexBlkw, LexStringz, LexLost, GetLine, Fail
  <2> QED
    BY <1>1, <1>2, <2>1, Appended DEF HasEnd
<1> QED
  BY <1>1, <1>3, <1>4, <1>5 DEF LossInv, Running

(* The relocation keeps the labels that have a value. *)
LEMMA LabelsStay ==
  ASSUME TInv, Parse \/ Rest
  PROVE  \A l \in Labels : dict[l] # NULL => dict'[l] # NULL
<1>1. CASE \E l \in Labels : SerializeSymbol(l)
  <2>1. PICK l \in Labels : SerializeSymbol(l)
    BY <1>1
  <2> DEFINE address == (dict[l] - 1 + tokenized_lines[0].machine_instruction) % AddrSpace
  <2>2. pc = "sym" /\ dict[l] # NULL /\ dict' = [dict EXCEPT ![l] = address]
    BY <2>1 DEF SerializeSymbol, ToSerialize
  <2>3. dict[l] \in Address /\ tokenized_lines[0].machine_instruction \in Address
    BY <2>2 DEF TInv, TypeOK, OrigFirst
  <2>4. dict[l] - 1 + tokenized_lines[0].machine_instruction \in Int
    BY <2>3, AddrSpaceAssumption DEF Address
  <2>5. address # NULL
    BY <2>4, ModAddress, SentinelAssumption
  <2> HIDE DEF address
  <2> QED
    BY <2>2, <2>5 DEF TInv, TypeOK
<1>2. CASE ~(\E l \in Labels : SerializeSymbol(l))
  <2>1. UNCHANGED dict
    <3> USE DEF Crash, Fail, Return, parseUnchanged
    <3>1. CASE Parse
      BY <3>1 DEF Parse, ParseOrig, ParseOrigCrash, ParseTokens, ParseSkip, ParseEnd
    <3>2. CASE Rest
      BY <1>2, <3>2 DEF Rest, FileNames, FileNamesCrash, OpenAsm, LexOutOfMemory, LexEndOfFile,
         LexReadError, OpenSym, SymHeader, SerializeEnd, OpenObj,
         WriteWord, WriteFails, WriteEnd, FreeEntry, FreeEnd, UseAfterFree
    <3> QED
      BY <3>1, <3>2
  <2> QED
    BY <2>1
<1> QED
  BY <1>1, <1>2

LEMMA ParseRestComplete ==
  ASSUME TInv, OrderInv, SlotInv, LossInv, Parse \/ Rest
  PROVE  LossInv'
<1>1. UNCHANGED <<source, errno>> /\ UNCHANGED instruction_offset
  BY SourceKept
<1>2. Complete => Complete'
  <2>1. \A k \in DOMAIN source : source[k].label \in Labels \cup {NULL}
    <3>1. \A k \in DOMAIN source : source[k] \in Lines
      BY DEF TInv, TypeOK
    <3> QED
      BY <3>1, LineParts
  <2> QED
    BY <1>1, <2>1, LabelsStay DEF Complete
<1>3. HasEnd' = HasEnd
  BY <1>1 DEF HasEnd
<1>4. Running' => Running /\ (pc' \notin {"start", "open_asm", "lex"} =>
                                pc \notin {"start", "open_asm", "lex"} \/ errno = "none")
  <2> USE DEF Running, Crash, Fail, Return
  <2>1. CASE Parse
    BY <2>1 DEF Parse, ParseOrig, ParseOrigCrash, ParseTokens, ParseSkip, ParseEnd
  <2>2. CASE Rest
    BY <2>2 DEF Rest, FileNames, FileNamesCrash, OpenAsm, LexOutOfMemory, LexEndOfFile,
       LexReadError, OpenSym, SymHeader, SymWriteFails, SerializeSymbol, SerializeEnd, OpenObj,
       WriteWord, WriteFails, WriteEnd, FreeEntry, FreeEnd, UseAfterFree
  <2> QED
    BY <2>1, <2>2
<1>5. CASE result' # "success"
  BY <1>1, <1>2, <1>3, <1>4, <1>5 DEF LossInv
<1>6. CASE result' = "success"
  <2>1. WriteEnd
    BY <1>6, SuccessStep DEF SlotInv
  <2>2. pc = "write" /\ UNCHANGED <<dict, sym_file>>
    BY <2>1 DEF WriteEnd
  <2>3. dict = sym_file.addr
    BY <2>2 DEF OrderInv
  <2> QED
    BY <1>1, <1>2, <1>3, <2>2, <2>3 DEF LossInv, Running
<1> QED
  BY <1>5, <1>6

(***************************************************************************)
(* A successful run that looked at errno has every label of the source in  *)
(* the .sym file and a slot for each of its words.                         *)
(***************************************************************************)
THEOREM NothingIsLostInSilence ==
  ASSUME HasRoom
  PROVE  Spec => []LossesAreReported
<1>1. Init => LossInv
  <2> SUFFICES ASSUME Init PROVE LossInv
    OBVIOUS
  <2>1. source \in Seq(Lines) /\ Len(source) = 0 /\ DOMAIN source = {} /\ instruction_offset = 0
    BY DEF Init
  <2>2. WordsUpTo(source)[0] = 0
    BY <2>1, WordsUpToIs
  <2>3. Complete
    BY <2>1, <2>2 DEF Complete
  <2> QED
    BY <2>3 DEF Init, LossInv
<1>2. TInv /\ LayoutInv /\ OrderInv /\ SlotInv /\ LossInv /\ [Next]_vars => LossInv'
  <2> SUFFICES ASSUME TInv, LayoutInv, OrderInv, SlotInv, LossInv, [Next]_vars PROVE LossInv'
    OBVIOUS
  <2>1. CASE UNCHANGED vars
    BY <2>1 DEF vars, LossInv, Running, Complete, HasEnd
  <2> QED
    BY <2>1, LexLineComplete, ParseRestComplete, StepCases
<1>3. LossInv => LossesAreReported
  BY DEF LossInv, LossesAreReported, Complete, HasEnd
<1> QED
  BY <1>1, <1>2, <1>3, TypeInvariance, LayoutInvariance, OrderInvariance, SlotInvariance, PTL DEF Spec
=============================================================================
