--------------------------------- MODULE Text ---------------------------------
(***************************************************************************)
(* The characters of one line: split_tokens cuts it up in place, the lexer *)
(* looks at its first tokens, and interpret_escape_sequences rewrites the  *)
(* operand of a .STRINGZ, again in place.  All of it works with pointers   *)
(* into one buffer, the copy of the line (lexer.c:53), here indexes.       *)
(*                                                                         *)
(* A character is a string: "S" stands for the text .STRINGZ, so that the  *)
(* keyword is one character long, " " for a blank or a tab, which are      *)
(* treated alike, and "newline" and so on for the unprintable ones.        *)
(***************************************************************************)
EXTENDS Integers, Sequences

CONSTANTS
  Inputs,           \* the lines getline may return
  MAX_NUM_TOKENS,   \* the size of the array of tokens
  Code              \* the value of each char

(***************************************************************************)
(* A line is a C string: no character of a source file is the NUL.         *)
(***************************************************************************)
ASSUME TextAssumption ==
  /\ Inputs \subseteq Seq(DOMAIN Code)
  /\ MAX_NUM_TOKENS \in Nat
  /\ \A c \in DOMAIN Code : Code[c] \in 0 .. 255
  /\ "NUL" \notin DOMAIN Code

VARIABLES
  pc,
  line,             \* the line as it was read
  str,              \* the copy of it that is worked on, from index 0
  scan,             \* where strtok goes on
  tokens,           \* pointers into str
  first,            \* the number of tokens before the operation: a label, or none
  i, j,             \* where interpret_escape_sequences reads and writes
  escape_sequence_mode,
  first_quotation_mark_found,
  second_quotation_mark_found,
  result,
  words             \* what the .STRINGZ expands to

scanVars == <<i, j, escape_sequence_mode, first_quotation_mark_found,
              second_quotation_mark_found>>
vars == <<pc, line, str, scan, tokens, first, scanVars, result, words>>

NUL        == "NUL"
Quote      == "quote"
Blank      == " "
Delimiters == {Blank, ",", "newline"}
Ends       == Delimiters \cup {NUL}

Init ==
  /\ pc = "split"
  /\ line \in Inputs
  /\ str = [k \in 0 .. Len(line) |-> IF k < Len(line) THEN line[k + 1] ELSE NUL]
  /\ scan = 0
  /\ tokens = <<>>
  /\ first = 0
  /\ i = 0 /\ j = 0
  /\ escape_sequence_mode = FALSE
  /\ first_quotation_mark_found = FALSE
  /\ second_quotation_mark_found = FALSE
  /\ result = "none"
  /\ words = <<>>

(***************************************************************************)
(* The C string at pointer p.                                              *)
(***************************************************************************)
CString(p) ==
  LET end == CHOOSE e \in p .. Len(line) : str[e] = NUL /\ \A d \in p .. e - 1 : str[d] # NUL
  IN  [k \in 1 .. end - p |-> str[p + k - 1]]

(***************************************************************************)
(* strtok, of the C library: the next token runs from pch to end, where a  *)
(* NUL is put, and the search goes on behind it.  At the end of the line   *)
(* pch is at the NUL, and so is end.                                       *)
(***************************************************************************)
NextToken(pch, end) ==
  /\ \A k \in scan .. pch - 1 : str[k] \in Delimiters
  /\ str[pch] \notin Delimiters
  /\ \A k \in pch .. end - 1 : str[k] \notin Ends
  /\ str[end] \in Ends

strtok(end) ==
  /\ str' = [str EXCEPT ![end] = NUL]
  /\ scan' = IF str[end] = NUL THEN end ELSE end + 1

IsStringz(pch, end) == end = pch + 1 /\ str[pch] = "S"

(***************************************************************************)
(* Pointers ps are stored; there is no look at MAX_NUM_TOKENS, and a write *)
(* behind the array is undefined.                                          *)
(***************************************************************************)
Store(ps, next) ==
  /\ tokens' = tokens \o ps
  /\ pc' = IF Len(tokens') <= MAX_NUM_TOKENS THEN next ELSE "undefined"

SplitToken ==
  /\ pc = "split"
  /\ \E pch, end \in scan .. Len(line) :
       /\ NextToken(pch, end)
       /\ pch < end
       /\ ~IsStringz(pch, end)
       /\ strtok(end)
       /\ Store(<<pch>>, "split")
  /\ UNCHANGED <<line, first, scanVars, result, words>>

\* Mutant: the rest of the line begins at the delimiter, which is a NUL by then.
SplitStringzAtDelimiter ==
  /\ pc = "split"
  /\ \E pch, end \in scan .. Len(line) :
       /\ NextToken(pch, end)
       /\ IsStringz(pch, end)
       /\ strtok(end)
       /\ Store(<<pch, pch + 1>>, "type")
  /\ UNCHANGED <<line, first, scanVars, result, words>>

\* Mutant: two delimiters are expected.
SplitStringzTwoBehind ==
  /\ pc = "split"
  /\ \E pch, end \in scan .. Len(line) :
       /\ NextToken(pch, end)
       /\ IsStringz(pch, end)
       /\ strtok(end)
       /\ Store(<<pch, pch + 3>>, "type")
  /\ UNCHANGED <<line, first, scanVars, result, words>>

(***************************************************************************)
(* What follows .STRINGZ and one delimiter is one token; if nothing does,  *)
(* not even a newline, the pointer is behind the buffer.                   *)
(***************************************************************************)
SplitStringz ==
  /\ pc = "split"
  /\ \E pch, end \in scan .. Len(line) :
       /\ NextToken(pch, end)
       /\ IsStringz(pch, end)
       /\ strtok(end)
       /\ Store(<<pch, pch + 2>>, "type")
  /\ UNCHANGED <<line, first, scanVars, result, words>>

SplitEnd ==
  /\ pc = "split"
  /\ \E pch \in scan .. Len(line) : NextToken(pch, pch)
  /\ IF tokens = <<>> THEN pc' = "done" /\ result' = "blank"
                      ELSE pc' = "type" /\ UNCHANGED result
  /\ UNCHANGED <<line, str, scan, tokens, first, scanVars, words>>

(***************************************************************************)
(* compute_line_type, as far as it matters here, and what the lexer does   *)
(* with it: a first token that is nothing else is a label.                 *)
(***************************************************************************)
compute_line_type(p) ==
  CASE CString(p) = <<"S">> -> "stringz"
    [] str[p] = ";"         -> "comment"
    [] OTHER                -> "label"

LabelLine ==
  /\ pc = "type"
  /\ first = 0
  /\ compute_line_type(tokens[1]) = "label"
  /\ IF Len(tokens) > 1 THEN first' = 1 /\ UNCHANGED <<pc, result>>
                        ELSE pc' = "done" /\ result' = "label" /\ UNCHANGED first
  /\ UNCHANGED <<line, str, scan, tokens, scanVars, words>>

LineType ==
  LET type == compute_line_type(tokens[first + 1])
  IN  /\ pc = "type"
      /\ first = 1 \/ type # "label"
      /\ IF type = "stringz" THEN pc' = "escapes" /\ UNCHANGED result
                             ELSE pc' = "done" /\ result' = type
      /\ UNCHANGED <<line, str, scan, tokens, first, scanVars, words>>

(***************************************************************************)
(* interpret_escape_sequences: one action per branch of its loop.          *)
(***************************************************************************)
token1        == tokens[first + 2]
token1_length == Len(line) - token1
ch            == str[token1 + i]

Escape == [a |-> "bell", b |-> "backspace", e |-> "escape", f |-> "formfeed",
           n |-> "newline", r |-> "return", t |-> "tab", v |-> "verticaltab",
           backslash |-> "backslash", quote |-> "quote"]

ASSUME EscapeAssumption ==
  \A c \in DOMAIN Code \cap DOMAIN Escape : Escape[c] \in DOMAIN Code

\* The loop comes to a character, which is not the NUL at the end.
Scanning ==
  /\ pc = "escapes"
  /\ token1 <= Len(line)
  /\ ch # NUL

\* ch is in front of the first quotation mark and may not be there
IsBad == ch \notin {Blank, Quote} /\ ~first_quotation_mark_found

Write(c) == str' = [str EXCEPT ![token1 + j] = c] /\ j' = j + 1

Error(e) ==
  /\ pc' = "done"
  /\ result' = e
  /\ UNCHANGED <<str, scanVars>>

ScanBad == Scanning /\ IsBad /\ Error("bad_string")

\* Mutant: the quotation mark itself is copied.
ScanOpeningWritten ==
  /\ Scanning
  /\ ch = Quote /\ ~escape_sequence_mode /\ ~first_quotation_mark_found
  /\ first_quotation_mark_found' = TRUE
  /\ i' = i + 1
  /\ Write(Quote)
  /\ UNCHANGED <<pc, escape_sequence_mode, second_quotation_mark_found, result>>

ScanOpening ==
  /\ Scanning
  /\ ch = Quote /\ ~escape_sequence_mode /\ ~first_quotation_mark_found
  /\ first_quotation_mark_found' = TRUE
  /\ i' = i + 1
  /\ UNCHANGED <<pc, str, j, escape_sequence_mode, second_quotation_mark_found, result>>

ScanClosing ==
  /\ Scanning
  /\ ch = Quote /\ ~escape_sequence_mode /\ first_quotation_mark_found
  /\ second_quotation_mark_found' = TRUE
  /\ pc' = "terminate"
  /\ UNCHANGED <<str, i, j, escape_sequence_mode, first_quotation_mark_found, result>>

\* Mutant: the mode is not left after the escaped character.
ScanEscapedSticky ==
  /\ Scanning
  /\ ~IsBad
  /\ escape_sequence_mode
  /\ \/ /\ ch \in DOMAIN Escape
        /\ Write(Escape[ch])
        /\ i' = i + 1
        /\ UNCHANGED <<pc, escape_sequence_mode, first_quotation_mark_found,
                       second_quotation_mark_found, result>>
     \/ ch \notin DOMAIN Escape /\ Error("unrecognised_escape")

ScanEscaped ==
  /\ Scanning
  /\ ~IsBad
  /\ escape_sequence_mode
  /\ \/ /\ ch \in DOMAIN Escape
        /\ Write(Escape[ch])
        /\ escape_sequence_mode' = FALSE
        /\ i' = i + 1
        /\ UNCHANGED <<pc, first_quotation_mark_found, second_quotation_mark_found, result>>
     \/ ch \notin DOMAIN Escape /\ Error("unrecognised_escape")

ScanBackslash ==
  /\ Scanning
  /\ ~IsBad
  /\ ch = "backslash" /\ ~escape_sequence_mode
  /\ escape_sequence_mode' = TRUE
  /\ i' = i + 1
  /\ UNCHANGED <<pc, str, j, first_quotation_mark_found, second_quotation_mark_found, result>>

(***************************************************************************)
(* Any other character, which is copied if it is behind the first mark.    *)
(***************************************************************************)
ScanPlain ==
  /\ Scanning
  /\ ~IsBad
  /\ ch \notin {Quote, "backslash"} /\ ~escape_sequence_mode
  /\ IF first_quotation_mark_found THEN Write(ch) ELSE UNCHANGED <<str, j>>
  /\ i' = i + 1
  /\ UNCHANGED <<pc, escape_sequence_mode, first_quotation_mark_found,
                 second_quotation_mark_found, result>>

ScanEnd ==
  /\ pc = "escapes"
  /\ token1 <= Len(line)
  /\ ch = NUL
  /\ pc' = "terminate"
  /\ UNCHANGED <<str, scanVars, result>>

ScanBehindLine ==
  /\ pc = "escapes"
  /\ token1 > Len(line)
  /\ pc' = "undefined"
  /\ UNCHANGED <<str, scanVars, result>>

Scan ==
  /\ \/ ScanBad \/ ScanOpening \/ ScanClosing \/ ScanEscaped \/ ScanBackslash \/ ScanPlain
     \/ ScanEnd \/ ScanBehindLine
  /\ UNCHANGED <<line, scan, tokens, first, words>>

Terminate ==
  /\ pc = "terminate"
  /\ str' = IF j < token1_length THEN [str EXCEPT ![token1 + j] = NUL] ELSE str
  /\ IF first_quotation_mark_found /\ second_quotation_mark_found
       THEN pc' = "expand" /\ UNCHANGED result
       ELSE pc' = "done" /\ result' = "bad_string"
  /\ UNCHANGED <<line, scan, tokens, first, scanVars, words>>

(***************************************************************************)
(* parse_stringz: a char is signed, and sign-extended to a word.           *)
(***************************************************************************)
WordOf(c) == IF Code[c] < 128 THEN Code[c] ELSE 65280 + Code[c]

parse_stringz ==
  /\ pc = "expand"
  /\ LET str_literal == CString(token1)
     IN  words' = Append([k \in DOMAIN str_literal |-> WordOf(str_literal[k])], 0)
  /\ pc' = "done"
  /\ result' = "string"
  /\ UNCHANGED <<line, str, scan, tokens, first, scanVars>>

Step ==
  \/ SplitToken \/ SplitStringz \/ SplitEnd \/ LabelLine \/ LineType \/ Scan \/ Terminate
  \/ parse_stringz

Terminating == pc \in {"done", "undefined"} /\ UNCHANGED vars

Next == Step \/ Terminating

Spec == Init /\ [][Next]_vars
==============================================================================
