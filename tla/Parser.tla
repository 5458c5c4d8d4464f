------------------------------- MODULE Parser --------------------------------
(***************************************************************************)
(* do_syntax_analysis (parser.c) and the functions it calls: the second    *)
(* pass.  It walks tokenized_lines to the NULL sentinel and computes the   *)
(* word of every entry the lexer left tokenized, resolving labels through  *)
(* the symbol table, which still holds offsets.                            *)
(***************************************************************************)
EXTENDS AssemblyState, Offsets

parseUnchanged == <<lexVars, dict, fileVars>>

HasTokens(p) == IsEntry(p) /\ p.tokens # NULL

(***************************************************************************)
(* The first entry must be a .ORIG.  parse_orig reads tokens[0] of it      *)
(* without a look whether there is an entry, or whether it has tokens.     *)
(***************************************************************************)
ParseOrig ==
  LET first == tokenized_lines[0]
  IN  /\ pc = "parse_orig"
      /\ HasTokens(first)
      /\ IF first.tokens.type = "orig" /\ IsMemoryAddress(first.tokens.arg)
           THEN LET address == first.tokens.arg.val
                IN  /\ tokenized_lines' =
                         [tokenized_lines EXCEPT ![0].machine_instruction = address]
                    /\ origin' = address
                    /\ address_offset' = 1
                    /\ pc' = "parse"
                    /\ UNCHANGED result
           ELSE /\ Fail(IF first.tokens.type = "orig" THEN "orig_operand" ELSE "not_orig")
                /\ UNCHANGED <<tokenized_lines, origin>>
      /\ UNCHANGED parseUnchanged

\* Mutant: num_tokens is not looked at before the operand.
ParseOrigCrashWithoutOperand ==
  /\ pc = "parse_orig"
  /\ HasTokens(tokenized_lines[0]) => tokenized_lines[0].tokens.arg.type = "missing"
  /\ Crash

ParseOrigCrash ==
  /\ pc = "parse_orig"
  /\ ~HasTokens(tokenized_lines[0])
  /\ Crash

(***************************************************************************)
(* parse_fill: v is an int, a label stands for its address.                *)
(***************************************************************************)
FillWord(v) ==
  IF v \in -(AddrSpace \div 2) .. AddrSpace - 1
    THEN Parsed(v % AddrSpace)
    ELSE Rejected("out_of_range")

ParseFill(arg) ==
  CASE arg.type = "missing" -> Rejected("operands")
    [] arg.type = "num"     -> FillWord(arg.val)
    [] arg.type = "sym"     -> IF dict[arg.name] = NULL
                                 THEN Rejected("symbol_not_found")
                                 ELSE FillWord(dict[arg.name] - 1 + origin)

\* Mutant: relative to the instruction and not to the incremented PC.
ParseOffsetFromPC(arg, half, location) ==
  CASE arg.type = "missing" -> Rejected("operands")
    [] arg.type = "num"     -> OffsetField(arg.val, half)
    [] arg.type = "sym"     -> IF dict[arg.name] = NULL
                                 THEN Rejected("symbol_not_found")
                                 ELSE OffsetField(dict[arg.name] - location, half)

ParseOffset(arg, half, location) ==
  CASE arg.type = "missing" -> Rejected("operands")
    [] arg.type = "num"     -> OffsetField(arg.val, half)
    [] arg.type = "sym"     -> IF dict[arg.name] = NULL
                                 THEN Rejected("symbol_not_found")
                                 ELSE OffsetField(dict[arg.name] - location - 1, half)

ParseOp(arg) == IF arg.type = "num" THEN Parsed(arg.val) ELSE Rejected("operands")

\* Mutant: there is no branch for .FILL.
ParseLineWithoutFill(entry) ==
  LET stmt == entry.tokens
  IN  CASE stmt.type = "label"  -> Rejected("invalid_opcode")
        [] stmt.type = "offset" -> ParseOffset(stmt.arg, stmt.half, entry.instruction_location)
        [] stmt.type = "op"     -> ParseOp(stmt.arg)
        [] OTHER                -> Parsed(entry.machine_instruction)

(***************************************************************************)
(* A statement that is neither an instruction nor .FILL (a further .ORIG,  *)
(* a .BLKW 0) is passed over: its entry keeps the word it has, if any.     *)
(***************************************************************************)
ParseLine(entry) ==
  LET stmt == entry.tokens
  IN  CASE stmt.type = "label"  -> Rejected("invalid_opcode")
        [] stmt.type = "fill"   -> ParseFill(stmt.arg)
        [] stmt.type = "offset" -> ParseOffset(stmt.arg, stmt.half, entry.instruction_location)
        [] stmt.type = "op"     -> ParseOp(stmt.arg)
        [] OTHER                -> Parsed(entry.machine_instruction)

\* Mutant: the error is noted and the loop goes on.
ParseTokensGoingOn ==
  /\ pc = "parse"
  /\ HasTokens(Current)
  /\ LET outcome == ParseLine(Current)
     IN  /\ result' = IF outcome.error = "none" THEN result ELSE outcome.error
         /\ tokenized_lines' =
              [tokenized_lines EXCEPT ![address_offset].machine_instruction = outcome.word]
  /\ address_offset' = NextAddress
  /\ UNCHANGED <<pc, origin, parseUnchanged>>

ParseTokens ==
  /\ pc = "parse"
  /\ HasTokens(Current)
  /\ LET outcome == ParseLine(Current)
     IN  \/ /\ outcome.error = "none"
            /\ tokenized_lines' =
                 [tokenized_lines EXCEPT ![address_offset].machine_instruction = outcome.word]
            /\ address_offset' = NextAddress
            /\ UNCHANGED <<pc, result>>
         \/ /\ outcome.error # "none"
            /\ Fail(outcome.error)
            /\ UNCHANGED tokenized_lines
  /\ UNCHANGED <<origin, parseUnchanged>>

\* Mutant: address_offset++ is missing.
ParseSkipStuck ==
  /\ pc = "parse"
  /\ Current # NULL
  /\ ~HasTokens(Current)
  /\ UNCHANGED vars

ParseSkip ==
  /\ pc = "parse"
  /\ Current # NULL
  /\ ~HasTokens(Current)
  /\ address_offset' = NextAddress
  /\ UNCHANGED <<pc, result, tokenized_lines, origin, parseUnchanged>>

\* Mutant: the loop also stops when its index has gone round.
ParseEndOnWrap ==
  /\ pc = "parse"
  /\ Current = NULL \/ address_offset = 0
  /\ pc' = "open_sym"
  /\ UNCHANGED <<result, tokenized_lines, origin, address_offset, parseUnchanged>>

ParseEnd ==
  /\ pc = "parse"
  /\ Current = NULL
  /\ pc' = "open_sym"
  /\ UNCHANGED <<result, tokenized_lines, origin, address_offset, parseUnchanged>>

Parse == ParseOrig \/ ParseOrigCrash \/ ParseTokens \/ ParseSkip \/ ParseEnd
==============================================================================
