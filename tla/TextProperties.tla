---------------------------- MODULE TextProperties ----------------------------
(***************************************************************************)
(* What should hold of Text, said of the line alone: which words it        *)
(* consists of, what a string literal is, and that working on one buffer   *)
(* in place loses nothing of it.                                           *)
(***************************************************************************)
EXTENDS Text, FiniteSets

(***************************************************************************)
(* The words of the line: maximal runs of characters that are not          *)
(* delimiters.  Pointers count from 0, the line from 1.                    *)
(***************************************************************************)
BeginsWord(p) == /\ line[p + 1] \notin Delimiters
                 /\ p > 0 => line[p] \in Delimiters
WordStarts    == {p \in 0 .. Len(line) - 1 : BeginsWord(p)}
IsWordFrom(w, p) ==
  /\ w = SubSeq(line, p + 1, p + Len(w))
  /\ \A k \in DOMAIN w : w[k] \notin Delimiters
  /\ p + Len(w) < Len(line) => line[p + Len(w) + 1] \in Delimiters

Keywords == {p \in WordStarts : IsWordFrom(<<"S">>, p)}

\* The words that are tokens: all up to the first .STRINGZ
TokenStarts == {p \in WordStarts : \A q \in Keywords : p <= q}

(***************************************************************************)
(* split_tokens finds every word, in order, and each token is its word; a  *)
(* .STRINGZ ends the search, and what follows it and one delimiter is the  *)
(* last token, whole, although strtok overwrites delimiters (util.c:134).  *)
(***************************************************************************)
TokensOfLine ==
  pc = "type" =>
    LET pointers == {tokens[k] : k \in DOMAIN tokens}
        rests    == {p + 2 : p \in TokenStarts \cap Keywords}
    IN  /\ pointers = TokenStarts \cup rests
        /\ \A k \in DOMAIN tokens : k > 1 => tokens[k - 1] < tokens[k]
        /\ \A p \in TokenStarts : IsWordFrom(CString(p), p)
        /\ \A p \in rests : p <= Len(line) => CString(p) = SubSeq(line, p + 1, Len(line))

(***************************************************************************)
(* The operand of a .STRINGZ, and which of its characters stand behind a   *)
(* backslash that is not itself escaped.                                   *)
(***************************************************************************)
Operand == SubSeq(line, token1 + 1, Len(line))

Escaped ==
  LET escaped[k \in 1 .. Len(Operand)] ==
        k > 1 /\ Operand[k - 1] = "backslash" /\ ~escaped[k - 1]
  IN  escaped

IsLiteral(open, close) ==
  /\ open < close /\ Operand[open] = Quote /\ Operand[close] = Quote
  /\ \A k \in 1 .. open - 1 : Operand[k] = Blank
  /\ ~Escaped[close]
  /\ \A k \in open + 1 .. close - 1 :
       IF Escaped[k] THEN Operand[k] \in DOMAIN Escape ELSE Operand[k] # Quote

\* The characters a literal stands for
Content(open, close) ==
  LET content[k \in open .. close - 1] ==
        IF k = open THEN <<>>
        ELSE content[k - 1] \o
               CASE Escaped[k]                              -> <<Escape[Operand[k]]>>
                 [] Operand[k] = "backslash" /\ ~Escaped[k] -> <<>>
                 [] OTHER                                   -> <<Operand[k]>>
  IN  content[close - 1]

(***************************************************************************)
(* An operand is accepted exactly if it is a literal: blanks, then what    *)
(* two quotation marks enclose, with known escapes only (directives.c      *)
(* 100-114).  It is then one word for each character it stands for, and a  *)
(* 0.  A word has its character in the low byte, and an ASCII character    *)
(* nothing else: others are negative chars (directives.c:230).             *)
(***************************************************************************)
StringIsItsLiteral ==
  pc = "done" /\ result \in {"string", "bad_string", "unrecognised_escape"} =>
    LET marks == 1 .. Len(Operand)
    IN  /\ result = "string" <=> \E open, close \in marks : IsLiteral(open, close)
        /\ \A open, close \in marks :
             IsLiteral(open, close) =>
               LET content == Content(open, close)
               IN  /\ Len(words) = Len(content) + 1
                   /\ words[Len(words)] = 0
                   /\ \A k \in DOMAIN content :
                        /\ words[k] % 256 = Code[content[k]]
                        /\ Code[content[k]] < 128 => words[k] < 256

(***************************************************************************)
(* interpret_escape_sequences reads and writes the same characters: what   *)
(* it writes is behind what it reads by the quotation mark at least, so    *)
(* everything it still has to read is as it was in the line (directives.c: *)
(* 138-205).                                                               *)
(***************************************************************************)
Unread(from) == \A k \in from .. Len(line) :
                  str[k] = IF k < Len(line) THEN line[k + 1] ELSE NUL

WriterBehindReader ==
  pc = "escapes" /\ token1 <= Len(line) =>
    /\ IF first_quotation_mark_found THEN j < i ELSE j = 0
    /\ Unread(token1 + i)

(***************************************************************************)
(* "Split the given string into tokens (up to a maximum of MAX_NUM_TOKENS) *)
(* according to the specified delimiters" (util.c:110): no token is stored *)
(* behind the array, however many there are.                               *)
(***************************************************************************)
TokensFit == Len(tokens) <= MAX_NUM_TOKENS

(***************************************************************************)
(* A .STRINGZ is split into the keyword and "another corresponding to the  *)
(* rest of the line" (util.c:117): every token points into the line, if    *)
(* only to the NUL that ends it.                                           *)
(***************************************************************************)
TokensInLine == \A k \in DOMAIN tokens : tokens[k] <= Len(line)

(***************************************************************************)
(* The lines for which both are true.  Those that are not are too many     *)
(* words, comments included, or end in .STRINGZ, as the last of a file     *)
(* without a newline does.                                                 *)
(***************************************************************************)
TokenCount == Cardinality(TokenStarts) + Cardinality(TokenStarts \cap Keywords)

Fits == /\ TokenCount <= MAX_NUM_TOKENS
        /\ \A p \in TokenStarts \cap Keywords : p + 1 < Len(line)

(***************************************************************************)
(* What else a line contains, blanks, delimiters, quotation marks or       *)
(* escapes, never takes a pointer out of the array of tokens (util.c:142)  *)
(* or the buffer of the line (util.c:139, directives.c:130-198).           *)
(***************************************************************************)
FittingLinesAreSafe ==
  Fits => pc # "undefined" /\ TokensFit /\ TokensInLine
==============================================================================
