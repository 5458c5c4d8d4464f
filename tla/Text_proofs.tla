----------------------------- MODULE Text_proofs ------------------------------
(***************************************************************************)
(* Proofs about Text, for lines of every length: the operand of a .STRINGZ *)
(* is rewritten in place without overwriting what is still to be read.     *)
(***************************************************************************)
EXTENDS TextProperties, SequenceTheorems, FiniteSetTheorems, WellFoundedInduction, TLAPS

(***************************************************************************)
(* A token that is not a .STRINGZ: the NUL at its end has been put already *)
(* and is at scan at the latest, so it stays what it is.                   *)
(***************************************************************************)
Plain(t) ==
  \E e \in t + 1 .. Len(line) :
    /\ e <= scan
    /\ str[e] = NUL
    /\ \A d \in t .. e - 1 : str[d] # NUL
    /\ ~(e = t + 1 /\ str[t] = "S")

\* A .STRINGZ at p and, untouched, what is one delimiter behind it
StringzAt(p) ==
  /\ str[p] = "S"
  /\ p + 1 <= Len(line)
  /\ str[p + 1] = NUL
  /\ Unread(p + 2)

Fresh == i = 0 /\ j = 0 /\ ~first_quotation_mark_found /\ ~escape_sequence_mode

Types ==
  /\ line \in Inputs
  /\ DOMAIN str = 0 .. Len(line)
  /\ scan \in 0 .. Len(line)
  /\ tokens \in Seq(Nat)
  /\ first \in {0, 1}
  /\ i \in Nat /\ j \in Nat

Splitting ==
  /\ Fresh
  /\ first = 0
  /\ Unread(scan)
  /\ \A k \in 1 .. Len(tokens) : Plain(tokens[k])

\* All tokens are plain, or all but the last two, which are a .STRINGZ and the rest.
Typing ==
  LET n == Len(tokens)
  IN  /\ Fresh
      /\ first < n
      /\ \/ \A k \in 1 .. n : Plain(tokens[k])
         \/ /\ first + 2 <= n
            /\ \A k \in 1 .. n - 2 : Plain(tokens[k])
            /\ StringzAt(tokens[n - 1])
            /\ tokens[n] = tokens[n - 1] + 2

Escaping ==
  /\ token1 \in Nat
  /\ escape_sequence_mode => first_quotation_mark_found
  /\ WriterBehindReader

TextInv ==
  /\ Types
  /\ pc = "split"   => Splitting
  /\ pc = "type"    => Typing
  /\ pc = "escapes" => Escaping

LEMMA BlankIs == Blank \notin {Quote, "backslash"} /\ Quote # "backslash"
BY Zenon DEF Blank, Quote

LEMMA LineLength ==
  ASSUME line \in Inputs
  PROVE  Len(line) \in Nat
BY TextAssumption

LEMMA CStringEndsAtNul ==
  ASSUME line \in Inputs, NEW p \in Nat, NEW e \in p .. Len(line),
         str[e] = NUL, \A d \in p .. e - 1 : str[d] # NUL
  PROVE  CString(p) = [k \in 1 .. e - p |-> str[p + k - 1]]
<1> DEFINE IsEnd(x) == str[x] = NUL /\ \A d \in p .. x - 1 : str[d] # NUL
<1>1. \A x \in p .. Len(line) : IsEnd(x) => x = e
  BY LineLength
<1>2. (CHOOSE x \in p .. Len(line) : IsEnd(x)) = e
  BY <1>1
<1> QED BY <1>2 DEF CString

LEMMA PlainIsNoStringz ==
  ASSUME line \in Inputs, NEW t \in Nat, Plain(t)
  PROVE  CString(t) # <<"S">>
<1>1. PICK e \in t + 1 .. Len(line) :
        str[e] = NUL /\ (\A d \in t .. e - 1 : str[d] # NUL) /\ ~(e = t + 1 /\ str[t] = "S")
  BY DEF Plain
<1>2. CString(t) = [k \in 1 .. e - t |-> str[t + k - 1]]
  BY <1>1, CStringEndsAtNul, LineLength
<1>3. ASSUME CString(t) = <<"S">> PROVE FALSE
  <2>0. DOMAIN CString(t) = 1 .. 1 /\ CString(t)[1] = "S"
    BY <1>3
  <2>1. 1 .. e - t = 1 .. 1 /\ str[t] = "S"
    <3>1. 1 .. e - t = 1 .. 1
      BY <1>2, <2>0
    <3>2. CString(t)[1] = str[t + 1 - 1]
      BY <1>2, <3>1
    <3> QED BY <2>0, <3>1, <3>2
  <2>2. e = t + 1
    BY <2>1, LineLength
  <2> QED BY <1>1, <2>1, <2>2
<1> QED BY <1>3

LEMMA StringzIsNoLabel ==
  ASSUME line \in Inputs, NEW p \in Nat, StringzAt(p)
  PROVE  compute_line_type(p) = "stringz"
<1>1. CString(p) = [k \in 1 .. 1 |-> str[p + k - 1]]
  <2>1. p + 1 \in p .. Len(line) /\ str[p + 1] = NUL /\ \A d \in p .. (p + 1) - 1 : str[d] # NUL
    BY LineLength DEF StringzAt, NUL
  <2>2. CString(p) = [k \in 1 .. (p + 1) - p |-> str[p + k - 1]]
    BY <2>1, CStringEndsAtNul
  <2> QED BY <2>2
<1>2. CString(p) = <<"S">>
  BY <1>1 DEF StringzAt
<1>3. str[p] # ";"
  BY DEF StringzAt
<1> QED BY <1>2, <1>3, Zenon DEF compute_line_type

(***************************************************************************)
(* strtok takes nothing from the tokens it has found before, nor from what *)
(* it has not reached.                                                     *)
(***************************************************************************)
LEMMA StrtokKeeps ==
  ASSUME Types, Splitting, line' = line, tokens' \in Seq(Nat),
         NEW end \in scan .. Len(line), str[end] \in Ends, strtok(end)
  PROVE  /\ DOMAIN str' = 0 .. Len(line)
         /\ scan' \in 0 .. Len(line)
         /\ str'[end] = NUL
         /\ \A k \in 0 .. Len(line) : k # end => str'[k] = str[k]
         /\ end < Len(line) => Unread(end + 1)'
         /\ Unread(scan)'
         /\ end <= scan'
         /\ \A t \in Nat : Plain(t) => Plain(t)'
<1>1. Len(line) \in Nat
  BY LineLength DEF Types
<1>2. /\ DOMAIN str' = 0 .. Len(line)
      /\ str'[end] = NUL
      /\ \A k \in 0 .. Len(line) : k # end => str'[k] = str[k]
  BY <1>1 DEF strtok, Types
<1>3. str[Len(line)] = NUL
  BY <1>1 DEF Splitting, Unread, Types
<1>4. scan' \in 0 .. Len(line) /\ end <= scan' /\ scan <= scan'
  BY <1>1, <1>3 DEF strtok, Types
<1>5. end < Len(line) => Unread(end + 1)'
  BY <1>1, <1>2 DEF Splitting, Unread, Types
<1>6. Unread(scan)'
  BY <1>1, <1>2, <1>3, <1>4 DEF strtok, Splitting, Unread, Types
<1>7. ASSUME NEW t \in Nat, Plain(t) PROVE Plain(t)'
  <2>1. PICK e \in t + 1 .. Len(line) :
          /\ e <= scan
          /\ str[e] = NUL
          /\ \A d \in t .. e - 1 : str[d] # NUL
          /\ ~(e = t + 1 /\ str[t] = "S")
    BY <1>7 DEF Plain
  <2>2. \A d \in t .. e - 1 : d \in 0 .. Len(line) /\ d # end
    BY <1>1, <2>1 DEF Types
  <2>3. \A d \in t .. e - 1 : str'[d] = str[d]
    BY <1>2, <2>2
  <2>4. str'[e] = NUL
    BY <1>1, <1>2, <2>1
  <2>5. e <= scan' /\ t \in t .. e - 1
    BY <1>1, <1>4, <2>1 DEF Types
  <2> QED BY <2>1, <2>3, <2>4, <2>5 DEF Plain
<1> QED BY <1>2, <1>4, <1>5, <1>6, <1>7

LEMMA SplitTokenStep ==
  ASSUME TextInv, SplitToken
  PROVE  TextInv'
<1>1. /\ pc = "split" /\ UNCHANGED <<line, first, scanVars>>
      /\ Types /\ Splitting
  BY DEF SplitToken, TextInv
<1>2. PICK pch \in scan .. Len(line), end \in scan .. Len(line) :
        /\ NextToken(pch, end)
        /\ pch < end
        /\ ~IsStringz(pch, end)
        /\ strtok(end)
        /\ Store(<<pch>>, "split")
  BY DEF SplitToken
<1>3. Len(line) \in Nat /\ pch \in Nat
  BY <1>1, LineLength DEF Types
<1>4. tokens' = Append(tokens, pch) /\ pc' \in {"split", "undefined"}
  BY <1>1, <1>2, <1>3 DEF Store, Types
<1>5. tokens' \in Seq(Nat)
  BY <1>1, <1>3, <1>4 DEF Types
<1>6. str[end] \in Ends
  BY <1>2 DEF NextToken
<1>7. /\ DOMAIN str' = 0 .. Len(line)
      /\ scan' \in 0 .. Len(line)
      /\ str'[end] = NUL
      /\ \A k \in 0 .. Len(line) : k # end => str'[k] = str[k]
      /\ Unread(scan)'
      /\ end <= scan'
      /\ \A t \in Nat : Plain(t) => Plain(t)'
  BY <1>1, <1>2, <1>5, <1>6, StrtokKeeps
<1>8. Types'
  BY <1>1, <1>5, <1>7 DEF Types, scanVars
<1>9. ASSUME pc' = "split" PROVE Splitting'
  <2>1. Plain(pch)'
    <3>1. \A d \in pch .. end - 1 : d \in 0 .. Len(line) /\ d # end
      BY <1>1, <1>2, <1>3 DEF Types
    <3>2. \A d \in pch .. end - 1 : str'[d] # NUL
      BY <1>2, <1>7, <3>1 DEF NextToken, Ends
    <3>3. ~(end = pch + 1 /\ str'[pch] = "S")
      BY <1>1, <1>2, <1>3, <1>7 DEF IsStringz, Types
    <3>4. end \in pch + 1 .. Len(line)
      BY <1>1, <1>2, <1>3 DEF Types
    <3> QED BY <1>1, <1>7, <3>2, <3>3, <3>4 DEF Plain
  <2>2. \A k \in 1 .. Len(tokens') : Plain(tokens[k])'
    <3>1. tokens' = Append(tokens, pch)
      BY <1>4, <1>9
    <3>2. TAKE k \in 1 .. Len(tokens')
    <3>3. CASE k = Len(tokens) + 1
      BY <1>1, <1>3, <2>1, <3>1, <3>3 DEF Types
    <3>4. CASE k # Len(tokens) + 1
      <4>1. k \in 1 .. Len(tokens) /\ tokens'[k] = tokens[k] /\ tokens[k] \in Nat
        BY <1>1, <1>3, <3>1, <3>2, <3>4 DEF Types
      <4>2. Plain(tokens[k])
        BY <1>1, <4>1 DEF Splitting
      <4> QED BY <1>7, <4>1, <4>2
    <3> QED BY <3>3, <3>4
  <2> QED BY <1>1, <1>7, <2>2 DEF Splitting, Fresh, scanVars
<1> QED BY <1>4, <1>8, <1>9 DEF TextInv

LEMMA SplitStringzStep ==
  ASSUME TextInv, SplitStringz
  PROVE  TextInv'
<1>1. /\ pc = "split" /\ UNCHANGED <<line, first, scanVars>>
      /\ Types /\ Splitting
  BY DEF SplitStringz, TextInv
<1>2. PICK pch \in scan .. Len(line), end \in scan .. Len(line) :
        /\ NextToken(pch, end)
        /\ IsStringz(pch, end)
        /\ strtok(end)
        /\ Store(<<pch, pch + 2>>, "type")
  BY DEF SplitStringz
<1>3. Len(line) \in Nat /\ pch \in Nat
  BY <1>1, LineLength DEF Types
<1>4. tokens' = tokens \o <<pch, pch + 2>> /\ pc' \in {"type", "undefined"}
  BY <1>2 DEF Store
<1>5. tokens' \in Seq(Nat)
  <2>1. <<pch, pch + 2>> \in Seq(Nat)
    BY <1>3
  <2> QED BY <1>1, <1>4, <2>1, ConcatProperties DEF Types
<1>6. str[end] \in Ends
  BY <1>2 DEF NextToken
<1>7. /\ DOMAIN str' = 0 .. Len(line)
      /\ scan' \in 0 .. Len(line)
      /\ str'[end] = NUL
      /\ \A k \in 0 .. Len(line) : k # end => str'[k] = str[k]
      /\ end < Len(line) => Unread(end + 1)'
      /\ \A t \in Nat : Plain(t) => Plain(t)'
  BY <1>1, <1>2, <1>5, <1>6, StrtokKeeps
<1>8. Types'
  BY <1>1, <1>5, <1>7 DEF Types, scanVars
<1>9. ASSUME pc' = "type" PROVE Typing'
  <2>1. /\ Len(tokens) \in Nat /\ Len(tokens') = Len(tokens) + 2
        /\ \A k \in 1 .. Len(tokens) : tokens'[k] = tokens[k]
        /\ tokens'[Len(tokens) + 1] = pch /\ tokens'[Len(tokens) + 2] = pch + 2
    BY <1>1, <1>3, <1>4, <1>9 DEF Types
  <2>2. StringzAt(pch)'
    <3>1. end = pch + 1 /\ str[pch] = "S"
      BY <1>2 DEF IsStringz
    <3>2. Unread(pch + 2)'
      <4>1. CASE end < Len(line)
        BY <1>3, <1>7, <3>1, <4>1
      <4>2. CASE ~(end < Len(line))
        BY <1>1, <1>2, <1>3, <3>1, <4>2 DEF Unread
      <4> QED BY <4>1, <4>2
    <3>3. str'[pch] = "S" /\ str'[pch + 1] = NUL
      BY <1>1, <1>3, <1>7, <3>1 DEF Types
    <3> QED BY <1>1, <1>3, <3>1, <3>2, <3>3 DEF StringzAt
  <2>3. \A k \in 1 .. Len(tokens') - 2 : Plain(tokens[k])'
    <3>1. TAKE k \in 1 .. Len(tokens') - 2
    <3>2. k \in 1 .. Len(tokens) /\ tokens'[k] = tokens[k] /\ tokens[k] \in Nat
      BY <1>1, <2>1, <3>1 DEF Types
    <3>3. Plain(tokens[k])
      BY <1>1, <3>2 DEF Splitting
    <3> QED BY <1>7, <3>2, <3>3
  <2>4. Fresh' /\ first' = 0
    BY <1>1 DEF Splitting, Fresh, scanVars
  <2>5. Len(tokens') - 1 = Len(tokens) + 1
    BY <2>1
  <2> QED BY <2>1, <2>2, <2>3, <2>4, <2>5 DEF Typing
<1> QED BY <1>4, <1>8, <1>9 DEF TextInv

LEMMA SplitEndStep ==
  ASSUME TextInv, SplitEnd
  PROVE  TextInv'
<1>1. /\ pc = "split" /\ UNCHANGED <<line, str, scan, tokens, first, scanVars>>
      /\ Types /\ Splitting
      /\ pc' = "done" \/ (pc' = "type" /\ tokens # <<>>)
  BY DEF SplitEnd, TextInv
<1>2. Types'
  BY <1>1 DEF Types, scanVars
<1>3. ASSUME pc' = "type" PROVE Typing'
  <2>1. 0 < Len(tokens)
    BY <1>1, <1>3, EmptySeq DEF Types
  <2>2. \A t \in Nat : Plain(t) => Plain(t)'
    BY <1>1 DEF Plain
  <2>3. \A k \in 1 .. Len(tokens) : tokens[k] \in Nat
    BY <1>1 DEF Types
  <2> QED BY <1>1, <2>1, <2>2, <2>3 DEF Splitting, Typing, Fresh, scanVars
<1> QED BY <1>1, <1>2, <1>3 DEF TextInv

(***************************************************************************)
(* A label in front of a .STRINGZ is not its last token but one.           *)
(***************************************************************************)
LEMMA LabelLineStep ==
  ASSUME TextInv, LabelLine
  PROVE  TextInv'
<1>1. /\ pc = "type" /\ first = 0 /\ UNCHANGED <<line, str, scan, tokens, scanVars>>
      /\ Types /\ Typing
      /\ compute_line_type(tokens[1]) = "label"
      /\ \/ Len(tokens) > 1 /\ first' = 1 /\ pc' = "type"
         \/ first' = 0 /\ pc' = "done"
  BY DEF LabelLine, TextInv
<1>2. Types'
  BY <1>1 DEF Types, scanVars
<1>3. ASSUME pc' = "type" PROVE Typing'
  <2> DEFINE n == Len(tokens)
  <2>1. /\ \A t \in Nat : Plain(t) => Plain(t)'
        /\ \A t \in Nat : StringzAt(t) => StringzAt(t)'
    BY <1>1 DEF Plain, StringzAt, Unread
  <2>2. n \in Nat /\ \A k \in 1 .. n : tokens[k] \in Nat
    BY <1>1 DEF Types
  <2>3. Fresh' /\ first' = 1 /\ first' < n /\ tokens' = tokens
    BY <1>1, <1>3 DEF Typing, Fresh, scanVars
  <2>4. CASE \A k \in 1 .. n : Plain(tokens[k])
    BY <2>1, <2>2, <2>3, <2>4 DEF Typing
  <2>5. CASE /\ first + 2 <= n
             /\ \A k \in 1 .. n - 2 : Plain(tokens[k])
             /\ StringzAt(tokens[n - 1])
             /\ tokens[n] = tokens[n - 1] + 2
    <3>1. n # 2
      <4>1. ASSUME n = 2 PROVE FALSE
        <5>1. StringzAt(tokens[1]) /\ tokens[1] \in Nat
          BY <2>2, <2>5, <4>1
        <5>2. compute_line_type(tokens[1]) = "stringz"
          BY <1>1, <5>1, StringzIsNoLabel DEF Types
        <5> QED BY <1>1, <5>2
      <4> QED BY <4>1
    <3>2. 1 + 2 <= n
      <4>1. n \in Nat /\ 2 <= n
        BY <1>1, <2>2, <2>5
      <4> HIDE DEF n
      <4> QED BY <3>1, <4>1
    <3>3. \A k \in 1 .. n - 2 : Plain(tokens[k])'
      BY <2>1, <2>2, <2>3, <2>5
    <3>4. StringzAt(tokens[n - 1])'
      BY <2>1, <2>2, <2>3, <2>5, <3>2
    <3> QED BY <2>3, <2>5, <3>2, <3>3, <3>4 DEF Typing
  <2> QED BY <1>1, <2>4, <2>5 DEF Typing
<1> QED BY <1>1, <1>2, <1>3 DEF TextInv

(***************************************************************************)
(* A token taken for a .STRINGZ is one, and the next is what is behind it. *)
(***************************************************************************)
LEMMA StringzToken ==
  ASSUME Types, Typing, compute_line_type(tokens[first + 1]) = "stringz"
  PROVE  LET t == tokens[first + 1]
         IN  /\ t \in Nat /\ CString(t) = <<"S">>
             /\ first + 2 = Len(tokens)
             /\ StringzAt(t)
             /\ tokens[first + 2] = t + 2
<1> DEFINE n == Len(tokens)
           t == tokens[first + 1]
<1>1. CString(t) = <<"S">>
  BY Zenon DEF compute_line_type
<1>2. n \in Nat /\ first + 1 \in 1 .. n /\ t \in Nat /\ \A k \in 1 .. n : tokens[k] \in Nat
  BY DEF Types, Typing
<1>3. ~Plain(t)
  BY <1>1, <1>2, PlainIsNoStringz DEF Types
<1>4. ~ \A k \in 1 .. n : Plain(tokens[k])
  BY <1>2, <1>3
<1>5. /\ first + 2 <= n
      /\ \A k \in 1 .. n - 2 : Plain(tokens[k])
      /\ StringzAt(tokens[n - 1])
      /\ tokens[n] = tokens[n - 1] + 2
  BY <1>4 DEF Typing
<1>6. first + 1 \notin 1 .. n - 2
  BY <1>3, <1>5
<1>7. first + 2 = n /\ first + 1 = n - 1
  BY <1>2, <1>5, <1>6 DEF Types
<1> QED BY <1>1, <1>2, <1>5, <1>7

LEMMA LineTypeStep ==
  ASSUME TextInv, LineType
  PROVE  TextInv'
<1> DEFINE t == tokens[first + 1]
<1>1. /\ pc = "type" /\ UNCHANGED <<line, str, scan, tokens, first, scanVars>>
      /\ Types /\ Typing
      /\ pc' = "done" \/ (pc' = "escapes" /\ compute_line_type(t) = "stringz")
  BY DEF LineType, TextInv
<1>2. Types'
  BY <1>1 DEF Types, scanVars
<1>3. ASSUME pc' = "escapes" PROVE Escaping'
  <2>1. t \in Nat /\ StringzAt(t) /\ tokens[first + 2] = t + 2
    BY <1>1, <1>3, StringzToken
  <2>2. Fresh'
    BY <1>1 DEF Typing, Fresh, scanVars
  <2>3. token1' = t + 2 /\ (token1 + i)' = t + 2
    BY <1>1, <2>1, <2>2 DEF token1, Fresh
  <2>4. Unread(token1 + i)'
    BY <1>1, <2>1, <2>3 DEF StringzAt, Unread
  <2> QED BY <2>1, <2>2, <2>3, <2>4 DEF Escaping, WriterBehindReader, Fresh
<1> QED BY <1>1, <1>2, <1>3 DEF TextInv

(***************************************************************************)
(* interpret_escape_sequences.  A character is written only behind the     *)
(* quotation mark, where the writer is behind the reader.                  *)
(***************************************************************************)
LEMMA WriteKeeps ==
  ASSUME Types, Escaping, line' = line, tokens' = tokens, first' = first,
         pc = "escapes", token1 <= Len(line), first_quotation_mark_found,
         i' = i + 1, NEW c, Write(c)
  PROVE  /\ DOMAIN str' = 0 .. Len(line)
         /\ j' \in Nat /\ j' < i'
         /\ Unread(token1 + i)'
<1>1. Len(line) \in Nat /\ token1 \in Nat /\ i \in Nat /\ j \in Nat
  BY LineLength DEF Types, Escaping
<1>2. token1' = token1
  BY DEF token1
<1> QED
  <2>1. j' = j + 1 /\ str' = [str EXCEPT ![token1 + j] = c]
    BY DEF Write
  <2>2. PICK p \in Nat : p = token1
    BY <1>1
  <2>3. j < i /\ Unread(p + i) /\ DOMAIN str = 0 .. Len(line)
    BY <2>2 DEF Escaping, WriterBehindReader, Types
  <2>4. DOMAIN str' = 0 .. Len(line) /\ j' \in Nat /\ j' < i'
    BY <1>1, <2>1, <2>3
  <2>5. ASSUME NEW k \in p + i + 1 .. Len(line)
        PROVE  str'[k] = IF k < Len(line) THEN line[k + 1] ELSE NUL
    BY <1>1, <2>1, <2>2, <2>3 DEF Unread
  <2>6. Unread(token1 + i)'
    <3>1. (token1 + i)' = p + i + 1
      BY <1>1, <1>2, <2>2
    <3> QED BY <2>5, <3>1 DEF Unread
  <2> QED BY <2>4, <2>6

LEMMA ScanStep ==
  ASSUME TextInv, Scan
  PROVE  TextInv'
<1>1. /\ pc = "escapes" /\ UNCHANGED <<line, scan, tokens, first>>
      /\ Types /\ Escaping
  BY DEF Scan, TextInv, ScanBad, ScanOpening, ScanClosing, ScanEscaped, ScanBackslash, ScanPlain,
     ScanEnd, ScanBehindLine, Scanning
<1>2. token1' = token1 /\ token1 \in Nat /\ i \in Nat /\ j \in Nat /\ Len(line) \in Nat
  BY <1>1, LineLength DEF token1, Types, Escaping
<1>3. ASSUME UNCHANGED <<str, i, j>>, pc' \notin {"split", "type", "escapes"}
      PROVE  TextInv'
  BY <1>1, <1>3 DEF TextInv, Types
\* Nothing is written, and one character is read.
<1>4. ASSUME token1 <= Len(line), UNCHANGED <<pc, str, j>>, i' = i + 1,
             first_quotation_mark_found' \/ (~first_quotation_mark_found /\ ~escape_sequence_mode'),
             first_quotation_mark_found => first_quotation_mark_found'
      PROVE  TextInv'
  <2>1. Unread(token1 + i)'
    <3>1. Unread(token1 + i)
      BY <1>1, <1>4 DEF Escaping, WriterBehindReader
    <3>2. (token1 + i)' = token1 + i + 1
      BY <1>2, <1>4
    <3> QED BY <1>1, <1>2, <1>4, <3>1, <3>2 DEF Unread
  <2>2. IF first_quotation_mark_found' THEN j' < i' ELSE j' = 0
    BY <1>1, <1>2, <1>4 DEF Escaping, WriterBehindReader
  <2>3. Types'
    BY <1>1, <1>4 DEF Types
  <2> QED BY <1>1, <1>2, <1>4, <2>1, <2>2, <2>3 DEF TextInv, Escaping, WriterBehindReader
\* A character is read and one is written.
<1>5. ASSUME token1 <= Len(line), UNCHANGED pc, i' = i + 1, NEW c, Write(c),
             first_quotation_mark_found, first_quotation_mark_found'
      PROVE  TextInv'
  <2>1. /\ DOMAIN str' = 0 .. Len(line)
        /\ j' \in Nat /\ j' < i'
        /\ Unread(token1 + i)'
    BY <1>1, <1>5, WriteKeeps
  <2>2. Types'
    BY <1>1, <1>5, <2>1 DEF Types
  <2> QED BY <1>1, <1>2, <1>5, <2>1, <2>2 DEF TextInv, Escaping, WriterBehindReader
<1>6. CASE ScanBad
  BY <1>3, <1>6 DEF ScanBad, Error, scanVars
<1>7. CASE ScanOpening
  BY <1>4, <1>7 DEF ScanOpening, Scanning
<1>8. CASE ScanClosing
  BY <1>3, <1>8 DEF ScanClosing
<1>9. CASE ScanEscaped
  <2>1. token1 <= Len(line) /\ first_quotation_mark_found
    BY <1>1, <1>9 DEF ScanEscaped, Scanning, Escaping
  <2>2. CASE /\ Write(Escape[ch])
             /\ i' = i + 1
             /\ UNCHANGED <<pc, first_quotation_mark_found, second_quotation_mark_found, result>>
    BY <1>5, <2>1, <2>2
  <2>3. CASE Error("unrecognised_escape")
    BY <1>3, <2>3 DEF Error, scanVars
  <2> QED BY <1>9, <2>2, <2>3 DEF ScanEscaped
<1>10. CASE ScanBackslash
  <2>1. token1 <= Len(line) /\ first_quotation_mark_found
    BY <1>10, BlankIs DEF ScanBackslash, Scanning, IsBad
  <2> QED BY <1>4, <1>10, <2>1 DEF ScanBackslash
<1>11. CASE ScanPlain
  <2>1. CASE first_quotation_mark_found
    BY <1>5, <1>11, <2>1 DEF ScanPlain, Scanning
  <2>2. CASE ~first_quotation_mark_found
    BY <1>4, <1>11, <2>2 DEF ScanPlain, Scanning
  <2> QED BY <2>1, <2>2
<1>12. CASE ScanEnd
  BY <1>3, <1>12 DEF ScanEnd, scanVars
<1>13. CASE ScanBehindLine
  BY <1>3, <1>13 DEF ScanBehindLine, scanVars
<1> QED BY <1>6, <1>7, <1>8, <1>9, <1>10, <1>11, <1>12, <1>13 DEF Scan

LEMMA TextInit ==
  ASSUME Init
  PROVE  TextInv
<1>1. Len(line) \in Nat
  BY LineLength DEF Init
<1>2. Types
  BY <1>1 DEF Init, Types
<1>3. Unread(scan)
  BY <1>1 DEF Init, Unread
<1>4. Splitting
  BY <1>1, <1>3 DEF Init, Splitting, Fresh
<1> QED BY <1>2, <1>4 DEF Init, TextInv

LEMMA TextStep ==
  ASSUME TextInv, [Next]_vars
  PROVE  TextInv'
<1>1. CASE Terminate
  <2>1. /\ pc' \in {"expand", "done"} /\ UNCHANGED <<line, scan, tokens, first, scanVars>>
        /\ DOMAIN str' = DOMAIN str
    BY <1>1 DEF Terminate
  <2> QED BY <2>1 DEF TextInv, Types, scanVars
<1>2. CASE parse_stringz
  BY <1>2 DEF parse_stringz, TextInv, Types, scanVars
<1>3. CASE UNCHANGED vars
  BY <1>3 DEF vars, scanVars, TextInv, Types, Splitting, Typing, Escaping, Fresh, Plain, StringzAt,
     Unread, WriterBehindReader, token1
<1> QED
  BY <1>1, <1>2, <1>3, SplitTokenStep, SplitStringzStep, SplitEndStep, LabelLineStep, LineTypeStep,
     ScanStep DEF Next, Step, Terminating

THEOREM TextInvariant == Spec => []TextInv
BY TextInit, TextStep, PTL DEF Spec

(***************************************************************************)
(* What is still to be read of the operand is as it was in the line.       *)
(***************************************************************************)
THEOREM NothingIsOverwritten == Spec => []WriterBehindReader
<1>1. TextInv => WriterBehindReader
  BY DEF TextInv, Escaping, WriterBehindReader
<1> QED BY <1>1, TextInvariant, PTL

-----------------------------------------------------------------------------
(***************************************************************************)
(* The tokens are the words of the line.  While it is split, they are the  *)
(* words in front of scan, none of which is the keyword, and each of them  *)
(* stands unchanged in front of a NUL.                                     *)
(***************************************************************************)
Whole(p, e) ==
  /\ p \in Nat /\ e \in p + 1 .. Len(line)
  /\ \A k \in p .. e - 1 : str[k] = line[k + 1] /\ line[k + 1] \notin Delimiters
  /\ str[e] = NUL
  /\ e < Len(line) => line[e + 1] \in Delimiters

Found  == {tokens[k] : k \in DOMAIN tokens}
Sorted == \A k, m \in DOMAIN tokens : k < m => tokens[k] < tokens[m]

SplitSound ==
  /\ scan = 0 \/ scan = Len(line) \/ line[scan] \in Delimiters
  /\ Sorted
  /\ Found = {p \in WordStarts : p < scan}
  /\ \A p \in Found : p \notin Keywords /\ \E e \in 0 .. scan : Whole(p, e)
  /\ Len(tokens) <= MAX_NUM_TOKENS

\* A line that leads out of the array of tokens or of the buffer does not fit.
Departures ==
  /\ pc = "done" => TokenCount <= MAX_NUM_TOKENS
  /\ pc = "undefined" => \/ TokenCount > MAX_NUM_TOKENS
                         \/ \E p \in TokenStarts \cap Keywords : p + 1 = Len(line)

TokensInv ==
  /\ pc = "split" => SplitSound
  /\ pc = "type" => Sorted
  /\ TokensOfLine
  /\ pc \notin {"split", "undefined"} => TokenCount <= MAX_NUM_TOKENS
  /\ pc = "escapes" => \E p \in TokenStarts \cap Keywords : token1 = p + 2
  /\ Departures

LEMMA LineChars ==
  ASSUME line \in Inputs
  PROVE  /\ Len(line) \in Nat
         /\ line \in Seq(DOMAIN Code)
         /\ \A k \in 1 .. Len(line) : line[k] \in DOMAIN Code /\ line[k] # NUL
BY TextAssumption DEF NUL

LEMMA SingleIs ==
  ASSUME NEW S, NEW s \in Seq(S), Len(s) = 1
  PROVE  s = <<s[1]>>
OBVIOUS

(* The keyword is the word S. *)
LEMMA KeywordIs ==
  ASSUME line \in Inputs, NEW p \in WordStarts
  PROVE  p \in Keywords <=> /\ line[p + 1] = "S"
                            /\ p + 1 < Len(line) => line[p + 2] \in Delimiters
<1>1. Len(line) \in Nat /\ p \in Nat /\ p + 1 \in 1 .. Len(line) /\ line \in Seq(DOMAIN Code)
  BY LineChars DEF WordStarts
<1>2. SubSeq(line, p + 1, p + 1) = <<line[p + 1]>>
  <2>1. /\ SubSeq(line, p + 1, p + 1) \in Seq(DOMAIN Code)
        /\ Len(SubSeq(line, p + 1, p + 1)) = 1
        /\ SubSeq(line, p + 1, p + 1)[1] = line[p + 1]
    BY <1>1, SubSeqProperties
  <2> QED
    BY <2>1, SingleIs
<1>3. Len(<<"S">>) = 1 /\ DOMAIN <<"S">> = {1} /\ <<"S">>[1] = "S"
  OBVIOUS
<1>4. "S" \notin Delimiters
  BY Zenon DEF Delimiters, Blank
<1>5. <<"S">> = <<line[p + 1]>> <=> line[p + 1] = "S"
  OBVIOUS
<1>6. p + 1 + 1 = p + 2
  BY <1>1
<1> QED
  BY <1>2, <1>3, <1>4, <1>5, <1>6 DEF Keywords, IsWordFrom

(* What strtok finds from scan on is the next word. *)
LEMMA NextWord ==
  ASSUME Types, Splitting, SplitSound,
         NEW pch \in scan .. Len(line), NEW end \in scan .. Len(line), NextToken(pch, end), pch < end
  PROVE  /\ pch \in WordStarts /\ end \in pch + 1 .. Len(line)
         /\ \A k \in pch .. end - 1 : str[k] = line[k + 1] /\ line[k + 1] \notin Delimiters
         /\ end < Len(line) => line[end + 1] \in Delimiters
         /\ \A p \in WordStarts : scan <= p => p = pch \/ end < p
         /\ IsStringz(pch, end) <=> pch \in Keywords
<1>1. /\ Len(line) \in Nat /\ scan \in Nat /\ pch \in Nat /\ end \in Nat
      /\ end \in pch + 1 .. Len(line)
      /\ \A k \in 1 .. Len(line) : line[k] # NUL
  BY LineChars DEF Types
<1>2. \A k \in scan .. Len(line) - 1 : str[k] = line[k + 1]
  BY <1>1 DEF Splitting, Unread
<1>3. \A k \in pch .. end - 1 : str[k] = line[k + 1] /\ line[k + 1] \notin Delimiters
  BY <1>1, <1>2 DEF NextToken, Ends
<1>4. ASSUME NEW k \in scan .. pch - 1 PROVE line[k + 1] \in Delimiters
  <2>1. k \in scan .. Len(line) - 1
    BY <1>1
  <2>2. str[k] \in Delimiters
    BY DEF NextToken
  <2> QED
    BY <1>2, <2>1, <2>2
<1>5. end < Len(line) => line[end + 1] \in Delimiters
  BY <1>1, <1>2 DEF NextToken, Ends
<1>6. pch > 0 => line[pch] \in Delimiters
  <2>1. CASE pch = scan
    BY <1>1, <2>1 DEF SplitSound
  <2>2. CASE pch > scan
    <3>1. pch - 1 \in scan .. pch - 1 /\ pch - 1 + 1 = pch
      BY <1>1, <2>2
    <3> QED
      BY <1>4, <3>1
  <2> QED
    BY <1>1, <2>1, <2>2
<1>7. pch \in WordStarts
  BY <1>1, <1>3, <1>6 DEF WordStarts, BeginsWord
<1>8. ASSUME NEW p \in WordStarts, scan <= p, p # pch, ~(end < p)
      PROVE  FALSE
  <2>1. /\ p \in 0 .. Len(line) - 1 /\ line[p + 1] \notin Delimiters
        /\ p > 0 => line[p] \in Delimiters
    BY DEF WordStarts, BeginsWord
  <2>2. CASE p < pch
    <3>1. p \in scan .. pch - 1
      BY <1>1, <1>8, <2>1, <2>2
    <3> QED
      BY <1>4, <2>1, <3>1
  <2>3. CASE p > pch /\ p <= end
    <3>1. p - 1 \in pch .. end - 1 /\ p - 1 + 1 = p /\ p > 0
      BY <1>1, <2>1, <2>3
    <3> QED
      BY <1>3, <2>1, <3>1
  <2> QED
    BY <1>1, <1>8, <2>1, <2>2, <2>3
<1>9. IsStringz(pch, end) <=> pch \in Keywords
  <2>1. str[pch] = line[pch + 1]
    BY <1>1, <1>2
  <2>2. ASSUME pch + 1 < Len(line), line[pch + 2] \in Delimiters PROVE end = pch + 1
    <3>1. CASE end > pch + 1
      <4>1. pch + 1 \in pch .. end - 1 /\ pch + 1 + 1 = pch + 2
        BY <1>1, <3>1
      <4> QED
        BY <1>3, <2>2, <4>1
    <3> QED
      BY <1>1, <3>1
  <2>3. end = pch + 1 => (pch + 1 < Len(line) => line[pch + 2] \in Delimiters)
    <3>1. pch + 1 + 1 = pch + 2
      BY <1>1
    <3> QED
      BY <1>5, <3>1
  <2>4. ~(pch + 1 < Len(line)) => end = pch + 1
    BY <1>1
  <2>5. line \in Inputs
    BY DEF Types
  <2> QED
    BY <1>7, <2>1, <2>2, <2>3, <2>4, <2>5, KeywordIs DEF IsStringz
<1> QED
  BY <1>1, <1>3, <1>5, <1>7, <1>8, <1>9

(* What is said of the line alone does not change. *)
LEMMA SameLine ==
  ASSUME line' = line
  PROVE  /\ WordStarts' = WordStarts /\ Keywords' = Keywords /\ TokenStarts' = TokenStarts
         /\ TokenCount' = TokenCount
         /\ \A w, p : IsWordFrom(w, p)' <=> IsWordFrom(w, p)
<1>1. WordStarts' = WordStarts
  BY DEF WordStarts, BeginsWord
<1>2. \A w, p : IsWordFrom(w, p)' <=> IsWordFrom(w, p)
  BY DEF IsWordFrom
<1>3. Keywords' = Keywords
  BY <1>1, <1>2 DEF Keywords
<1>4. TokenStarts' = TokenStarts
  BY <1>1, <1>3 DEF TokenStarts
<1>5. TokenCount' = TokenCount
  BY <1>3, <1>4 DEF TokenCount
<1> QED
  BY <1>1, <1>2, <1>3, <1>4, <1>5

(* Sorted tokens are as many as they are. *)
LEMMA SortedCount ==
  ASSUME NEW s \in Seq(Nat), \A k, m \in DOMAIN s : k < m => s[k] < s[m]
  PROVE  LET S == {s[k] : k \in DOMAIN s}
         IN  IsFiniteSet(S) /\ Cardinality(S) = Len(s)
<1> DEFINE S == {s[k] : k \in DOMAIN s}
<1>1. Len(s) \in Nat /\ DOMAIN s = 1 .. Len(s) /\ \A k \in DOMAIN s : s[k] \in Nat
  OBVIOUS
<1>2. s \in [1 .. Len(s) -> S]
  BY <1>1
<1>3. \A k, m \in 1 .. Len(s) : s[k] = s[m] => k = m
  <2> TAKE k, m \in 1 .. Len(s)
  <2>1. s[k] \in Nat /\ s[m] \in Nat
    BY <1>1
  <2>2. (k < m => s[k] < s[m]) /\ (m < k => s[m] < s[k])
    BY <1>1
  <2> HIDE DEF S
  <2> QED
    BY <1>1, <2>1, <2>2
<1>4. \A x \in S : \E k \in 1 .. Len(s) : s[k] = x
  BY <1>1
<1> HIDE DEF S
<1>5. s \in Bijection(1 .. Len(s), S)
  BY <1>2, <1>3, <1>4 DEF Bijection, Injection, Surjection, IsInjective
<1>6. ExistsBijection(1 .. Len(s), S)
  BY <1>5 DEF ExistsBijection
<1>7. IsFiniteSet(1 .. Len(s)) /\ Cardinality(1 .. Len(s)) = Len(s)
  <2> DEFINE n == Len(s)
  <2>1. n \in Int /\ 0 <= n
    BY <1>1
  <2> HIDE DEF n
  <2>2. IsFiniteSet(1 .. n) /\ Cardinality(1 .. n) = IF 1 > n THEN 0 ELSE n - 1 + 1
    BY <2>1, FS_Interval
  <2>3. Cardinality(1 .. n) = n
    BY <2>1, <2>2
  <2> QED
    BY <2>2, <2>3 DEF n
<1> QED
  BY <1>6, <1>7, FS_Bijection DEF S

LEMMA FiniteStarts ==
  ASSUME line \in Inputs
  PROVE  /\ IsFiniteSet(TokenStarts) /\ IsFiniteSet(TokenStarts \cap Keywords)
         /\ Cardinality(TokenStarts) \in Nat /\ Cardinality(TokenStarts \cap Keywords) \in Nat
<1>1. Len(line) \in Nat
  BY LineChars
<1>2. IsFiniteSet(0 .. Len(line) - 1)
  BY <1>1, FS_Interval
<1>3. TokenStarts \subseteq 0 .. Len(line) - 1
  BY DEF TokenStarts, WordStarts
<1>4. IsFiniteSet(TokenStarts)
  BY <1>2, <1>3, FS_Subset
<1>5. IsFiniteSet(TokenStarts \cap Keywords)
  BY <1>4, FS_Subset
<1> QED
  BY <1>4, <1>5, FS_CardinalityType

(* The next word is a token; if it is the keyword, it is the last. *)
LEMMA NextCount ==
  ASSUME Types, Splitting, SplitSound,
         NEW pch \in WordStarts, scan <= pch,
         \A p \in WordStarts : scan <= p => p = pch \/ pch < p
  PROVE  /\ Len(tokens) + 1 <= TokenCount
         /\ pch \in Keywords =>
              /\ TokenStarts = Found \cup {pch}
              /\ TokenStarts \cap Keywords = {pch}
              /\ TokenCount = Len(tokens) + 2
<1>1. /\ line \in Inputs /\ scan \in Nat /\ pch \in Nat /\ Len(tokens) \in Nat
      /\ \A p \in WordStarts : p \in Nat
      /\ Found = {p \in WordStarts : p < scan}
      /\ \A p \in Found : p \notin Keywords
  BY LineChars DEF Types, SplitSound, WordStarts
<1>2. IsFiniteSet(Found) /\ Cardinality(Found) = Len(tokens)
  BY SortedCount DEF Types, SplitSound, Sorted, Found
<1>3. pch \notin Found /\ \A q \in Keywords : q \in WordStarts /\ q \in Nat /\ pch <= q
  <2>1. \A q \in Keywords : q \in WordStarts /\ q \in Nat
    BY <1>1 DEF Keywords
  <2>2. \A q \in Keywords : scan <= q
    BY <1>1, <2>1
  <2> QED
    BY <1>1, <2>1, <2>2
<1>4. Found \cup {pch} \subseteq TokenStarts
  <2>1. \A p \in Found : p \in WordStarts /\ p \in Nat /\ p < scan
    BY <1>1
  <2>2. \A p \in Found, q \in Keywords : p <= q
    BY <1>1, <1>3, <2>1
  <2> QED
    BY <1>3, <2>1, <2>2 DEF TokenStarts
<1>5. IsFiniteSet(Found \cup {pch}) /\ Cardinality(Found \cup {pch}) = Len(tokens) + 1
  BY <1>2, <1>3, FS_AddElement
<1>6. Len(tokens) + 1 <= Cardinality(TokenStarts)
  BY <1>1, <1>4, <1>5, FiniteStarts, FS_Subset
<1>7. Len(tokens) + 1 <= TokenCount
  BY <1>1, <1>6, FiniteStarts DEF TokenCount
<1>8. ASSUME pch \in Keywords
      PROVE  /\ TokenStarts = Found \cup {pch}
             /\ TokenStarts \cap Keywords = {pch}
             /\ TokenCount = Len(tokens) + 2
  <2>1. ASSUME NEW p \in TokenStarts PROVE p \in Found \cup {pch}
    <3>1. p \in WordStarts /\ p <= pch /\ p \in Nat
      BY <1>1, <1>8 DEF TokenStarts
    <3>2. scan <= p => p = pch
      BY <1>1, <3>1
    <3> QED
      BY <1>1, <3>1, <3>2
  <2>2. TokenStarts = Found \cup {pch}
    BY <1>4, <2>1
  <2>3. TokenStarts \cap Keywords = {pch}
    BY <1>1, <1>8, <2>2
  <2>4. Cardinality({pch}) = 1
    BY FS_Singleton
  <2>5. TokenCount = Len(tokens) + 1 + 1
    BY <1>5, <2>2, <2>3, <2>4 DEF TokenCount
  <2> QED
    BY <1>1, <2>2, <2>3, <2>5
<1> QED
  BY <1>7, <1>8

(* The end of a word is put where scan was or behind: no word before it is touched. *)
LEMMA WholeKept ==
  ASSUME Types, line' = line, NEW end \in scan .. Len(line), strtok(end),
         NEW p, NEW e \in 0 .. scan, Whole(p, e)
  PROVE  Whole(p, e)'
<1>1. Len(line) \in Nat /\ scan \in Nat /\ DOMAIN str = 0 .. Len(line) /\ p \in Nat /\ e \in p + 1 .. Len(line)
  BY LineChars DEF Types, Whole
<1>2. str' = [str EXCEPT ![end] = NUL]
  BY DEF strtok
<1>3. \A k \in p .. e - 1 : k \in DOMAIN str /\ k # end
  BY <1>1
<1>4. \A k \in p .. e - 1 : str'[k] = str[k]
  BY <1>2, <1>3
<1>5. str'[e] = NUL
  BY <1>1, <1>2 DEF Whole
<1> QED
  BY <1>4, <1>5 DEF Whole

(* What strtok finds, and what it leaves. *)
LEMMA StrtokWord ==
  ASSUME Types, Splitting, SplitSound, line' = line,
         NEW pch \in scan .. Len(line), NEW end \in scan .. Len(line),
         NextToken(pch, end), pch < end, strtok(end)
  PROVE  /\ pch \in WordStarts /\ pch \in Nat
         /\ IsStringz(pch, end) <=> pch \in Keywords
         /\ Whole(pch, end)' /\ end \in 0 .. scan'
         /\ scan' = 0 \/ scan' = Len(line) \/ line[scan'] \in Delimiters
         /\ {p \in WordStarts : p < scan'} = Found \cup {pch}
         /\ scan <= scan' /\ scan' \in Nat
         /\ \A p \in WordStarts : scan <= p => p = pch \/ pch < p
<1>1. /\ Len(line) \in Nat /\ scan \in Nat /\ pch \in Nat /\ end \in Nat
      /\ \A k \in 1 .. Len(line) : line[k] # NUL
      /\ DOMAIN str = 0 .. Len(line) /\ line \in Inputs
      /\ Found = {p \in WordStarts : p < scan}
      /\ \A p \in WordStarts : p \in Nat
  BY LineChars DEF Types, SplitSound, WordStarts
<1>2. /\ pch \in WordStarts /\ end \in pch + 1 .. Len(line)
      /\ \A k \in pch .. end - 1 : str[k] = line[k + 1] /\ line[k + 1] \notin Delimiters
      /\ end < Len(line) => line[end + 1] \in Delimiters
      /\ \A p \in WordStarts : scan <= p => p = pch \/ end < p
      /\ IsStringz(pch, end) <=> pch \in Keywords
  BY NextWord
<1>3. str' = [str EXCEPT ![end] = NUL] /\ scan' = IF str[end] = NUL THEN end ELSE end + 1
  BY DEF strtok
<1>4. end < Len(line) => str[end] = line[end + 1]
  BY <1>1 DEF Splitting, Unread
<1>5. str[Len(line)] = NUL
  BY <1>1 DEF Splitting, Unread
<1>6. \/ end = Len(line) /\ scan' = end
      \/ end < Len(line) /\ scan' = end + 1 /\ line[scan'] \in Delimiters
  <2>1. CASE end = Len(line)
    BY <1>3, <1>5, <2>1
  <2>2. CASE end < Len(line)
    <3>1. line[end + 1] # NUL
      BY <1>1, <2>2
    <3> QED
      BY <1>2, <1>3, <1>4, <2>2, <3>1
  <2> QED
    BY <1>1, <1>2, <2>1, <2>2
<1>7. Whole(pch, end)'
  <2>1. \A k \in pch .. end - 1 : k \in DOMAIN str /\ k # end
    BY <1>1
  <2>2. \A k \in pch .. end - 1 : str'[k] = str[k]
    BY <1>3, <2>1
  <2>3. str'[end] = NUL
    BY <1>1, <1>3
  <2> QED
    BY <1>1, <1>2, <2>2, <2>3 DEF Whole
<1>8. {p \in WordStarts : p < scan'} = Found \cup {pch}
  <2>1. ASSUME NEW p \in WordStarts, p < scan' PROVE p \in Found \cup {pch}
    <3>1. p \in Nat /\ ~(end < p)
      BY <1>1, <1>6, <2>1
    <3>2. CASE scan <= p
      BY <1>2, <2>1, <3>1, <3>2
    <3>3. CASE p < scan
      BY <1>1, <2>1, <3>3
    <3> QED
      BY <1>1, <3>1, <3>2, <3>3
  <2>2. ASSUME NEW p \in Found \cup {pch} PROVE p \in WordStarts /\ p < scan'
    BY <1>1, <1>2, <1>6, <2>2
  <2> QED
    BY <2>1, <2>2
<1>9. \A p \in WordStarts : scan <= p => p = pch \/ pch < p
  BY <1>1, <1>2
<1> QED
  BY <1>1, <1>2, <1>6, <1>7, <1>8, <1>9

LEMMA SplitTokenTokens ==
  ASSUME TextInv, TokensInv, SplitToken
  PROVE  TokensInv'
<1>1. /\ pc = "split" /\ line' = line /\ Types /\ Splitting /\ SplitSound
  BY DEF SplitToken, TextInv, TokensInv
<1>2. PICK pch \in scan .. Len(line), end \in scan .. Len(line) :
        /\ NextToken(pch, end)
        /\ pch < end
        /\ ~IsStringz(pch, end)
        /\ strtok(end)
        /\ Store(<<pch>>, "split")
  BY DEF SplitToken
<1>3. /\ pch \in WordStarts /\ pch \in Nat /\ pch \notin Keywords
      /\ Whole(pch, end)' /\ end \in 0 .. scan'
      /\ scan' = 0 \/ scan' = Len(line) \/ line[scan'] \in Delimiters
      /\ {p \in WordStarts : p < scan'} = Found \cup {pch}
      /\ scan <= scan' /\ scan' \in Nat
      /\ \A p \in WordStarts : scan <= p => p = pch \/ pch < p
  BY <1>1, <1>2, StrtokWord
<1>4. Len(tokens) + 1 <= TokenCount
  BY <1>1, <1>2, <1>3, NextCount DEF Types
<1>5. /\ tokens \in Seq(Nat) /\ Len(tokens) \in Nat /\ Len(<<pch>>) = 1 /\ scan \in Nat
      /\ TokenCount \in Nat /\ MAX_NUM_TOKENS \in Nat
  BY <1>1, FiniteStarts, LineChars, TextAssumption DEF Types, TokenCount
<1>6. CASE Len(tokens) + 1 <= MAX_NUM_TOKENS
  <2>1. pc' = "split" /\ tokens' = Append(tokens, pch)
    BY <1>2, <1>3, <1>5, <1>6 DEF Store
  <2>2. /\ Len(tokens') = Len(tokens) + 1 /\ tokens'[Len(tokens) + 1] = pch
        /\ \A k \in 1 .. Len(tokens) : tokens'[k] = tokens[k]
        /\ DOMAIN tokens' = 1 .. Len(tokens) + 1 /\ DOMAIN tokens = 1 .. Len(tokens)
    BY <1>3, <1>5, <2>1
  <2>3. Found' = Found \cup {pch}
    BY <1>5, <2>2 DEF Found
  <2>4. Sorted'
    <3>1. \A k \in 1 .. Len(tokens) : tokens[k] \in Nat /\ tokens[k] < pch
      <4>1. \A k \in 1 .. Len(tokens) : tokens[k] \in Nat /\ tokens[k] \in Found
        BY <1>5 DEF Found
      <4>2. \A p \in Found : p < scan
        BY <1>1 DEF SplitSound
      <4> QED
        BY <1>3, <1>5, <4>1, <4>2
    <3>2. \A k, m \in 1 .. Len(tokens) : k < m => tokens[k] < tokens[m]
      BY <1>1, <2>2 DEF SplitSound, Sorted
    <3>3. ASSUME NEW k \in 1 .. Len(tokens) + 1, NEW m \in 1 .. Len(tokens) + 1, k < m
          PROVE  tokens'[k] < tokens'[m]
      <4>1. CASE m = Len(tokens) + 1
        BY <1>5, <2>2, <3>1, <3>3, <4>1
      <4>2. CASE m # Len(tokens) + 1
        <5>1. k \in 1 .. Len(tokens) /\ m \in 1 .. Len(tokens)
          BY <1>5, <3>3, <4>2
        <5> QED
          BY <2>2, <3>2, <3>3, <5>1
      <4> QED
        BY <4>1, <4>2
    <3> QED
      BY <2>2, <3>3 DEF Sorted
  <2>5. \A p \in Found' : p \notin Keywords /\ \E e \in 0 .. scan' : Whole(p, e)'
    <3>1. ASSUME NEW p \in Found PROVE p \notin Keywords /\ \E e \in 0 .. scan' : Whole(p, e)'
      <4>1. PICK e \in 0 .. scan : Whole(p, e)
        BY <1>1 DEF SplitSound
      <4>2. Whole(p, e)'
        BY <1>1, <1>2, <4>1, WholeKept
      <4>3. e \in 0 .. scan'
        BY <1>3, <1>5
      <4> QED
        BY <1>1, <4>2, <4>3 DEF SplitSound
    <3> QED
      BY <1>3, <2>3, <3>1
  <2>6. SplitSound'
    BY <1>1, <1>3, <1>6, <2>2, <2>3, <2>4, <2>5, SameLine DEF SplitSound
  <2> QED
    BY <2>1, <2>6 DEF TokensInv, TokensOfLine, Departures
<1>7. CASE ~(Len(tokens) + 1 <= MAX_NUM_TOKENS)
  <2>1. pc' = "undefined"
    BY <1>5, <1>7, <1>2 DEF Store
  <2>2. TokenCount' > MAX_NUM_TOKENS
    BY <1>1, <1>4, <1>5, <1>7, SameLine
  <2> QED
    BY <2>1, <2>2 DEF TokensInv, TokensOfLine, Departures
<1> QED
  BY <1>6, <1>7

(* The C string at p ends at the first NUL. *)
LEMMA FirstNul ==
  ASSUME NEW n \in Nat, NEW s, NEW p \in Nat, NEW e \in p .. n, s[e] = NUL,
         \A d \in p .. e - 1 : s[d] # NUL
  PROVE  (CHOOSE x \in p .. n : s[x] = NUL /\ \A d \in p .. x - 1 : s[d] # NUL) = e
<1> DEFINE IsEnd(x) == s[x] = NUL /\ \A d \in p .. x - 1 : s[d] # NUL
<1>1. \A x \in p .. n : IsEnd(x) => x = e
  OBVIOUS
<1>2. e \in p .. n /\ IsEnd(e)
  OBVIOUS
<1> HIDE DEF IsEnd
<1>3. (CHOOSE x \in p .. n : IsEnd(x)) = e
  BY <1>1, <1>2
<1> QED
  BY <1>3 DEF IsEnd

(* A part of a line, character by character. *)
LEMMA PartIs ==
  ASSUME NEW S, NEW s \in Seq(S), NEW a \in Nat, NEW b \in Nat, a <= b, b <= Len(s)
  PROVE  SubSeq(s, a + 1, b) = [k \in 1 .. b - a |-> s[a + k]]
<1>1. \A k \in a + 1 .. b : s[k] \in S
  OBVIOUS
<1> DEFINE t == SubSeq(s, a + 1, b)
<1>2. t \in Seq(S) /\ Len(t) = b - a /\ \A k \in 1 .. b - a : t[k] = s[a + k]
  <2>1. /\ t \in Seq(S)
        /\ Len(t) = IF a + 1 <= b THEN b - (a + 1) + 1 ELSE 0
        /\ \A k \in 1 .. b - (a + 1) + 1 : t[k] = s[a + 1 + k - 1]
    BY <1>1, SubSeqProperties
  <2> HIDE DEF t
  <2>2. b - (a + 1) + 1 = b - a /\ \A k \in 1 .. b - a : a + 1 + k - 1 = a + k
    OBVIOUS
  <2> QED
    BY <2>1, <2>2
<1> HIDE DEF t
<1>3. t = [k \in 1 .. Len(t) |-> t[k]]
  BY <1>2
<1>4. t = [k \in 1 .. b - a |-> s[a + k]]
  BY <1>2, <1>3
<1> QED
  BY <1>4 DEF t

(* A whole word is what its token points to. *)
LEMMA WholeIsWord ==
  ASSUME line' = line, line \in Inputs, NEW p, NEW e, Whole(p, e)'
  PROVE  IsWordFrom(CString(p), p)'
<1>1. /\ Len(line) \in Nat /\ line \in Seq(DOMAIN Code)
      /\ \A k \in 1 .. Len(line) : line[k] # NUL
      /\ p \in Nat /\ e \in p + 1 .. Len(line) /\ e \in Nat
      /\ \A k \in p .. e - 1 : str'[k] = line[k + 1] /\ line[k + 1] \notin Delimiters
      /\ str'[e] = NUL
      /\ e < Len(line) => line[e + 1] \in Delimiters
  BY LineChars DEF Whole
<1>2. e \in p .. Len(line) /\ \A k \in p .. e - 1 : str'[k] # NUL
  BY <1>1
<1>3. CString(p)' = [k \in 1 .. e - p |-> str'[p + k - 1]]
  BY <1>1, <1>2, FirstNul DEF CString
<1>4. \A k \in 1 .. e - p : str'[p + k - 1] = line[p + k] /\ line[p + k] \notin Delimiters
  <2> TAKE k \in 1 .. e - p
  <2>1. p + k - 1 \in p .. e - 1 /\ p + k - 1 + 1 = p + k
    BY <1>1
  <2> QED
    BY <1>1, <2>1
<1> DEFINE w == CString(p)'
<1>5. w = [k \in 1 .. e - p |-> line[p + k]]
  BY <1>3, <1>4
<1>6. w = SubSeq(line, p + 1, e)
  BY <1>1, <1>5, PartIs
<1>7. w \in Seq(DOMAIN Code) /\ Len(w) = e - p
  <2>1. \A k \in 1 .. e - p : line[p + k] \in DOMAIN Code
    BY <1>1
  <2>2. w \in [1 .. e - p -> DOMAIN Code] /\ e - p \in Nat
    BY <1>1, <1>5, <2>1
  <2> HIDE DEF w
  <2>3. w \in Seq(DOMAIN Code)
    BY <2>2, SeqDef
  <2> QED
    BY <2>2, <2>3, LenProperties
<1>8. DOMAIN w = 1 .. e - p /\ \A k \in DOMAIN w : w[k] \notin Delimiters
  BY <1>4, <1>5
<1>9. p + Len(w) = e
  BY <1>1, <1>7
<1> HIDE DEF w
<1>10. IsWordFrom(w, p)
  BY <1>1, <1>6, <1>8, <1>9 DEF IsWordFrom
<1> QED
  BY <1>10, SameLine DEF w

(* What is not touched yet is the rest of the line. *)
LEMMA UnreadIsRest ==
  ASSUME line' = line, line \in Inputs, NEW p \in Nat, p <= Len(line), Unread(p)'
  PROVE  CString(p)' = SubSeq(line, p + 1, Len(line))
<1>1. /\ Len(line) \in Nat /\ line \in Seq(DOMAIN Code) /\ Len(line) \in p .. Len(line)
      /\ \A k \in 1 .. Len(line) : line[k] # NUL
      /\ \A k \in p .. Len(line) : str'[k] = IF k < Len(line) THEN line[k + 1] ELSE NUL
  BY LineChars DEF Unread
<1>2. str'[Len(line)] = NUL /\ \A k \in p .. Len(line) - 1 : str'[k] # NUL
  BY <1>1
<1>3. CString(p)' = [k \in 1 .. Len(line) - p |-> str'[p + k - 1]]
  BY <1>1, <1>2, FirstNul DEF CString
<1>4. \A k \in 1 .. Len(line) - p : str'[p + k - 1] = line[p + k]
  <2> TAKE k \in 1 .. Len(line) - p
  <2>1. p + k - 1 \in p .. Len(line) /\ p + k - 1 < Len(line) /\ p + k - 1 + 1 = p + k
    BY <1>1
  <2> QED
    BY <1>1, <2>1
<1>5. CString(p)' = [k \in 1 .. Len(line) - p |-> line[p + k]]
  BY <1>3, <1>4
<1> QED
  BY <1>1, <1>5, PartIs

(* The keyword is the last token but one, and what follows is the last. *)
LEMMA SplitStringzTokens ==
  ASSUME TextInv, TokensInv, SplitStringz
  PROVE  TokensInv'
<1>1. /\ pc = "split" /\ line' = line /\ Types /\ Splitting /\ SplitSound
  BY DEF SplitStringz, TextInv, TokensInv
<1>2. PICK pch \in scan .. Len(line), end \in scan .. Len(line) :
        /\ NextToken(pch, end)
        /\ IsStringz(pch, end)
        /\ strtok(end)
        /\ Store(<<pch, pch + 2>>, "type")
  BY DEF SplitStringz
<1> DEFINE n == Len(tokens)
<1>3. /\ tokens \in Seq(Nat) /\ n \in Nat /\ Len(<<pch, pch + 2>>) = 2 /\ scan \in Nat
      /\ TokenCount \in Nat /\ MAX_NUM_TOKENS \in Nat /\ line \in Inputs
      /\ pch \in Nat /\ end = pch + 1 /\ pch < end /\ Len(line) \in Nat
  BY <1>1, <1>2, FiniteStarts, LineChars, TextAssumption DEF Types, TokenCount, IsStringz
<1>4. /\ pch \in WordStarts /\ pch \in Keywords
      /\ Whole(pch, end)'
      /\ scan <= scan' /\ scan' \in Nat
      /\ \A p \in WordStarts : scan <= p => p = pch \/ pch < p
  BY <1>1, <1>2, <1>3, StrtokWord
<1>5. /\ TokenStarts = Found \cup {pch}
      /\ TokenStarts \cap Keywords = {pch}
      /\ TokenCount = n + 2
  BY <1>1, <1>2, <1>3, <1>4, NextCount
<1>6. CASE ~(n + 2 <= MAX_NUM_TOKENS)
  <2>1. pc' = "undefined"
    BY <1>2, <1>3, <1>6 DEF Store
  <2>2. TokenCount' > MAX_NUM_TOKENS
    BY <1>1, <1>3, <1>5, <1>6, SameLine
  <2> QED
    BY <2>1, <2>2 DEF TokensInv, TokensOfLine, Departures
<1>7. CASE n + 2 <= MAX_NUM_TOKENS
  <2>1. pc' = "type" /\ tokens' = tokens \o <<pch, pch + 2>>
    BY <1>2, <1>3, <1>7 DEF Store
  <2>2. /\ Len(tokens') = n + 2 /\ tokens'[n + 1] = pch /\ tokens'[n + 2] = pch + 2
        /\ \A k \in 1 .. n : tokens'[k] = tokens[k]
        /\ DOMAIN tokens' = 1 .. n + 2 /\ DOMAIN tokens = 1 .. n
    BY <1>3, <2>1
  <2>3. Found' = Found \cup {pch, pch + 2}
    <3>1. 1 .. n + 2 = (1 .. n) \cup {n + 1, n + 2}
      BY <1>3
    <3> HIDE DEF n
    <3> QED
      BY <2>2, <3>1 DEF Found
  <2>4. \A k \in 1 .. n : tokens[k] \in Nat /\ tokens[k] < pch
    <3>1. \A k \in 1 .. n : tokens[k] \in Nat /\ tokens[k] \in Found
      BY <1>3 DEF Found
    <3>2. \A p \in Found : p < scan
      BY <1>1 DEF SplitSound
    <3> QED
      BY <1>3, <3>1, <3>2
  <2>5. Sorted'
    <3>1. \A k, m \in 1 .. n : k < m => tokens[k] < tokens[m]
      BY <1>1, <2>2 DEF SplitSound, Sorted
    <3>2. ASSUME NEW k \in 1 .. n + 2, NEW m \in 1 .. n + 2, k < m
          PROVE  tokens'[k] < tokens'[m]
      <4>1. CASE m = n + 2 /\ k = n + 1
        BY <1>3, <2>2, <4>1
      <4>2. CASE m > n /\ k <= n
        <5>1. k \in 1 .. n /\ tokens'[k] = tokens[k] /\ tokens[k] < pch /\ tokens[k] \in Nat
          BY <1>3, <2>2, <2>4, <3>2, <4>2
        <5>2. m = n + 1 \/ m = n + 2
          BY <1>3, <3>2, <4>2
        <5> QED
          BY <1>3, <2>2, <5>1, <5>2
      <4>3. CASE m <= n
        <5>1. k \in 1 .. n /\ m \in 1 .. n
          BY <1>3, <3>2, <4>3
        <5> QED
          BY <2>2, <3>1, <3>2, <5>1
      <4> QED
        BY <1>3, <3>2, <4>1, <4>2, <4>3
    <3> QED
      BY <2>2, <3>2 DEF Sorted
  <2>6. ASSUME NEW p \in TokenStarts PROVE IsWordFrom(CString(p), p)'
    <3>1. \E e : Whole(p, e)'
      <4>1. CASE p = pch
        BY <1>4, <4>1
      <4>2. CASE p \in Found
        <5>1. PICK e \in 0 .. scan : Whole(p, e)
          BY <1>1, <4>2 DEF SplitSound
        <5> QED
          BY <1>1, <1>2, <5>1, WholeKept
      <4> QED
        BY <1>5, <4>1, <4>2
    <3> QED
      BY <1>1, <1>3, <3>1, WholeIsWord
  <2>7. ASSUME pch + 2 <= Len(line) PROVE CString(pch + 2)' = SubSeq(line, pch + 2 + 1, Len(line))
    <3>1. Unread(end + 1)'
      <4>1. tokens' \in Seq(Nat) /\ end < Len(line) /\ str[end] \in Ends
        BY <1>2, <1>3, <2>1, <2>7, ConcatProperties DEF NextToken
      <4> QED
        BY <1>1, <1>2, <4>1, StrtokKeeps
    <3>2. end + 1 = pch + 2 /\ pch + 2 \in Nat
      BY <1>3
    <3>3. Unread(pch + 2)'
      BY <3>1, <3>2
    <3> QED
      BY <1>1, <1>3, <2>7, <3>2, <3>3, UnreadIsRest
  <2>8. TokensOfLine'
    <3>1. {p + 2 : p \in TokenStarts \cap Keywords} = {pch + 2}
      BY <1>5
    <3>2. \A k \in DOMAIN tokens' : k > 1 => tokens'[k - 1] < tokens'[k]
      BY <2>2, <2>5 DEF Sorted
    <3>3. Found' = TokenStarts \cup {pch + 2}
      BY <1>5, <2>3
    <3>4. line' = line /\ TokenStarts' = TokenStarts /\ Keywords' = Keywords
      BY <1>1, SameLine
    <3>5. {p + 2 : p \in TokenStarts' \cap Keywords'} = {pch + 2}
      BY <3>1, <3>4
    <3>6. {tokens'[k] : k \in DOMAIN tokens'} = TokenStarts' \cup {pch + 2}
      BY <3>3, <3>4 DEF Found
    <3>7. \A p \in TokenStarts' : IsWordFrom(CString(p), p)'
      BY <2>6, <3>4
    <3>8. \A p \in {pch + 2} : p <= Len(line') => CString(p)' = SubSeq(line', p + 1, Len(line'))
      BY <2>7, <3>4
    <3> QED
      BY <3>2, <3>5, <3>6, <3>7, <3>8 DEF TokensOfLine
  <2>9. TokenCount' <= MAX_NUM_TOKENS
    BY <1>1, <1>5, <1>7, SameLine
  <2> QED
    BY <2>1, <2>5, <2>8, <2>9 DEF TokensInv, Departures
<1> QED
  BY <1>6, <1>7

(* At the end of the line all of its words have been found. *)
LEMMA SplitEndTokens ==
  ASSUME TextInv, TokensInv, SplitEnd
  PROVE  TokensInv'
<1>1. /\ pc = "split" /\ Types /\ Splitting /\ SplitSound
      /\ UNCHANGED <<line, str, scan, tokens, first, scanVars>>
      /\ pc' \in {"done", "type"}
  BY DEF SplitEnd, TextInv, TokensInv
<1>2. /\ Len(line) \in Nat /\ scan \in 0 .. Len(line) /\ line \in Inputs
      /\ tokens \in Seq(Nat)
      /\ \A k \in 1 .. Len(line) : line[k] # NUL
      /\ \A k \in scan .. Len(line) : str[k] = IF k < Len(line) THEN line[k + 1] ELSE NUL
  BY <1>1, LineChars DEF Types, Splitting, Unread
<1>3. PICK pch \in scan .. Len(line) : NextToken(pch, pch)
  BY DEF SplitEnd
<1>4. str[pch] = NUL
  BY <1>3 DEF NextToken, Ends
<1>5. pch = Len(line)
  <2>1. pch < Len(line) => pch + 1 \in 1 .. Len(line) /\ str[pch] = line[pch + 1]
    BY <1>2
  <2>2. ~(pch < Len(line))
    BY <1>2, <1>4, <2>1
  <2> QED
    BY <1>2, <2>2
<1>6. \A k \in scan .. Len(line) - 1 : line[k + 1] \in Delimiters
  <2> TAKE k \in scan .. Len(line) - 1
  <2>1. k \in scan .. pch - 1 /\ str[k] = line[k + 1]
    BY <1>2, <1>5
  <2> QED
    BY <1>3, <2>1 DEF NextToken
<1>7. WordStarts = Found
  <2>1. \A p \in WordStarts : p \in Nat /\ ~(scan <= p)
    BY <1>2, <1>6 DEF WordStarts, BeginsWord
  <2> QED
    BY <1>1, <1>2, <2>1 DEF SplitSound
<1>8. Keywords = {} /\ TokenStarts = Found
  <2>1. Keywords = {}
    BY <1>1, <1>7 DEF SplitSound, Keywords
  <2> QED
    BY <1>7, <2>1 DEF TokenStarts
<1>9. TokenCount = Len(tokens)
  <2>1. Cardinality(Found) = Len(tokens)
    BY <1>1, <1>2, SortedCount DEF SplitSound, Sorted, Found
  <2>2. Found \cap {} = {} /\ Cardinality({}) = 0 /\ Len(tokens) \in Nat
    BY <1>2, FS_EmptySet
  <2> QED
    BY <1>8, <2>1, <2>2 DEF TokenCount
<1>10. TokenCount' <= MAX_NUM_TOKENS
  BY <1>1, <1>9, SameLine DEF SplitSound
<1>11. Sorted' /\ TokensOfLine'
  <2>1. \A p \in Found : IsWordFrom(CString(p), p)'
    <3> TAKE p \in Found
    <3>1. PICK e \in 0 .. scan : Whole(p, e)
      BY <1>1 DEF SplitSound
    <3>2. Whole(p, e)'
      BY <1>1, <3>1 DEF Whole
    <3> QED
      BY <1>1, <1>2, <3>2, WholeIsWord
  <2>2. Sorted /\ Sorted' /\ tokens' = tokens /\ DOMAIN tokens = 1 .. Len(tokens) /\ Len(tokens) \in Nat
    BY <1>1, <1>2 DEF SplitSound, Sorted
  <2>3. \A k \in DOMAIN tokens' : k > 1 => tokens'[k - 1] < tokens'[k]
    BY <2>2 DEF Sorted
  <2>4. TokenStarts' = Found /\ Keywords' = {} /\ Found = {tokens'[k] : k \in DOMAIN tokens'}
    BY <1>1, <1>8, SameLine DEF Found
  <2>5. {p + 2 : p \in TokenStarts' \cap Keywords'} = {}
    BY <2>4
  <2> QED
    BY <2>1, <2>2, <2>3, <2>4, <2>5 DEF TokensOfLine
<1> QED
  BY <1>1, <1>10, <1>11 DEF TokensInv, Departures

LEMMA LabelLineTokens ==
  ASSUME TextInv, TokensInv, LabelLine
  PROVE  TokensInv'
<1>1. /\ pc = "type" /\ Types /\ Sorted /\ TokensOfLine /\ TokenCount <= MAX_NUM_TOKENS
      /\ UNCHANGED <<line, str, tokens>>
      /\ pc' \in {"done", "type"}
  BY DEF LabelLine, TextInv, TokensInv
<1>2. Sorted' /\ TokenCount' <= MAX_NUM_TOKENS
  BY <1>1, SameLine DEF Sorted
<1>3. TokensOfLine'
  <2>1. \A p : CString(p)' = CString(p)
    BY <1>1 DEF CString
  <2>2. \A p : IsWordFrom(CString(p), p)' <=> IsWordFrom(CString(p), p)
    BY <1>1, <2>1 DEF IsWordFrom
  <2> QED
    BY <1>1, <2>1, <2>2, SameLine DEF TokensOfLine
<1> QED
  BY <1>1, <1>2, <1>3 DEF TokensInv, Departures

(* The token in front of the last is the keyword. *)
LEMMA LineTypeTokens ==
  ASSUME TextInv, TokensInv, LineType
  PROVE  TokensInv'
<1> DEFINE t == tokens[first + 1]
<1>1. /\ pc = "type" /\ Types /\ Typing /\ TokensOfLine /\ TokenCount <= MAX_NUM_TOKENS
      /\ UNCHANGED <<line, tokens, first>>
      /\ pc' = "done" \/ (pc' = "escapes" /\ compute_line_type(t) = "stringz")
  BY DEF LineType, TextInv, TokensInv
<1>2. TokenCount' <= MAX_NUM_TOKENS
  BY <1>1, SameLine
<1>3. ASSUME pc' = "escapes" PROVE \E p \in TokenStarts' \cap Keywords' : token1' = p + 2
  <2>1. /\ t \in Nat /\ CString(t) = <<"S">>
        /\ first + 2 = Len(tokens) /\ tokens[first + 2] = t + 2
    BY <1>1, <1>3, StringzToken
  <2>2. /\ {first + 1, first + 2} \subseteq DOMAIN tokens
        /\ \A p \in WordStarts : p \in Nat
    BY <1>1, <2>1, LineLength DEF Types, WordStarts
  <2> DEFINE rests == {p + 2 : p \in TokenStarts \cap Keywords}
  <2>3. /\ {tokens[k] : k \in DOMAIN tokens} = TokenStarts \cup rests
        /\ \A p \in TokenStarts : IsWordFrom(CString(p), p)
    BY <1>1 DEF TokensOfLine
  <2>4. t \in TokenStarts \cup rests /\ t + 2 \in TokenStarts \cup rests
    <3>1. t \in {tokens[k] : k \in DOMAIN tokens} /\ t + 2 \in {tokens[k] : k \in DOMAIN tokens}
      BY <2>1, <2>2
    <3> QED
      BY <2>3, <3>1
  <2>5. CASE t \in TokenStarts
    <3>1. t \in Keywords
      BY <2>1, <2>3, <2>5 DEF TokenStarts, Keywords
    <3> QED
      BY <1>1, <2>1, <2>5, <3>1, SameLine DEF token1
  <2>6. CASE t \in rests
    <3>1. PICK p \in TokenStarts \cap Keywords : t = p + 2
      BY <2>6
    <3>2. p \in Nat /\ \A q \in TokenStarts : q \in Nat /\ q <= p
      BY <2>2, <3>1 DEF TokenStarts
    <3>3. t + 2 \notin TokenStarts /\ t + 2 \notin rests
      BY <3>1, <3>2
    <3> QED
      BY <2>4, <3>3
  <2> QED
    BY <2>4, <2>5, <2>6
<1> QED
  BY <1>1, <1>2, <1>3 DEF TokensInv, TokensOfLine, Departures

(* The buffer is left only by an operand behind the end of the line. *)
LEMMA ScanTokens ==
  ASSUME TextInv, TokensInv, Scan
  PROVE  TokensInv'
<1>1. /\ pc = "escapes" /\ Types
      /\ UNCHANGED <<line, tokens, first>>
      /\ TokenCount <= MAX_NUM_TOKENS
      /\ \/ pc' \in {"escapes", "terminate", "done"}
         \/ pc' = "undefined" /\ token1 > Len(line)
  BY DEF Scan, TextInv, TokensInv, ScanBad, ScanOpening, ScanClosing, ScanEscaped, ScanBackslash,
     ScanPlain, ScanEnd, ScanBehindLine, Scanning, Error
<1>2. PICK p \in TokenStarts \cap Keywords : token1 = p + 2
  BY <1>1 DEF TokensInv
<1>3. token1' = token1 /\ Len(line) \in Nat /\ p \in 0 .. Len(line) - 1
  BY <1>1, LineLength DEF token1, Types, TokenStarts, WordStarts
<1>4. pc' = "undefined" => p + 1 = Len(line)
  BY <1>1, <1>2, <1>3
<1>5. TokenStarts' = TokenStarts /\ Keywords' = Keywords /\ TokenCount' = TokenCount
  BY <1>1, SameLine
<1> QED
  BY <1>1, <1>2, <1>3, <1>4, <1>5 DEF TokensInv, TokensOfLine, Departures

LEMMA TokensInit ==
  ASSUME Init
  PROVE  TokensInv
<1>1. \A p \in WordStarts : ~(p < 0)
  BY LineLength DEF Init, WordStarts
<1>2. tokens = <<>> /\ DOMAIN tokens = {} /\ Len(tokens) = 0 /\ scan = 0 /\ pc = "split"
  BY DEF Init
<1>3. Found = {} /\ {p \in WordStarts : p < scan} = {}
  <2>1. Found = {}
    BY <1>2, Zenon DEF Found
  <2>2. {p \in WordStarts : p < scan} = {}
    BY <1>1, <1>2
  <2> QED
    BY <2>1, <2>2
<1>4. SplitSound
  BY <1>2, <1>3, TextAssumption DEF SplitSound, Sorted
<1> QED
  BY <1>2, <1>4 DEF TokensInv, TokensOfLine, Departures

LEMMA TokensStep ==
  ASSUME TextInv, TokensInv, [Next]_vars
  PROVE  TokensInv'
<1>1. CASE Terminate \/ parse_stringz
  <2>1. /\ pc \in {"terminate", "expand"} /\ pc' \in {"expand", "done"} /\ line' = line
        /\ TokenCount <= MAX_NUM_TOKENS
    BY <1>1 DEF Terminate, parse_stringz, TokensInv
  <2> QED
    BY <2>1, SameLine DEF TokensInv, TokensOfLine, Departures
<1>2. CASE UNCHANGED vars
  <2>1. UNCHANGED <<pc, line, str, scan, tokens, first>>
    BY <1>2 DEF vars
  <2>2. \A p : CString(p)' = CString(p)
    BY <2>1 DEF CString
  <2>3. \A p : IsWordFrom(CString(p), p)' <=> IsWordFrom(CString(p), p)
    BY <2>1, <2>2 DEF IsWordFrom
  <2>4. TokensOfLine'
    BY <2>1, <2>2, <2>3, SameLine DEF TokensInv, TokensOfLine
  <2>5. SplitSound => SplitSound'
    BY <2>1, SameLine DEF SplitSound, Sorted, Found, Whole
  <2> QED
    BY <2>1, <2>4, <2>5, SameLine DEF TokensInv, Sorted, token1, Departures
<1> QED
  BY <1>1, <1>2, SplitTokenTokens, SplitStringzTokens, SplitEndTokens, LabelLineTokens,
     LineTypeTokens, ScanTokens DEF Next, Step, Terminating

THEOREM TokensInvariant == Spec => [](TextInv /\ TokensInv)
BY TextInit, TextStep, TokensInit, TokensStep, PTL DEF Spec

(***************************************************************************)
(* split_tokens finds the words of every line, of any length, in order and *)
(* unchanged, although it puts its NULs into the line that it reads.       *)
(***************************************************************************)
THEOREM TokensAreWords == Spec => []TokensOfLine
<1>1. TokensInv => TokensOfLine
  BY DEF TokensInv
<1> QED
  BY <1>1, TokensInvariant, PTL

(* An undefined end is one of a line that does not fit. *)
LEMMA FittingIsDefined ==
  ASSUME TextInv, TokensInv, Fits
  PROVE  pc # "undefined"
<1>1. Len(line) \in Nat /\ \A p \in TokenStarts : p \in Nat
  BY LineLength DEF TextInv, Types, TokenStarts, WordStarts
<1>2. TokenCount \in Nat /\ MAX_NUM_TOKENS \in Nat
  BY FiniteStarts, TextAssumption DEF TextInv, Types, TokenCount
<1> QED
  BY <1>1, <1>2 DEF TokensInv, Departures, Fits

(* The tokens of a line that fits are in the array and point into the line. *)
PointersInv == Fits => TokensFit /\ TokensInLine

(* While they are found: they begin words, but for the one behind .STRINGZ. *)
LEMMA FoundPointers ==
  ASSUME TextInv, TokensInv, pc \in {"split", "type"}, Len(tokens) <= MAX_NUM_TOKENS
  PROVE  PointersInv
<1> SUFFICES ASSUME Fits, NEW k \in DOMAIN tokens
             PROVE  tokens[k] <= Len(line)
  BY DEF PointersInv, TokensFit, TokensInLine
<1>1. Len(line) \in Nat /\ \A p \in WordStarts : p \in Nat /\ p <= Len(line)
  BY LineLength DEF TextInv, Types, WordStarts
<1>2. tokens[k] \in Found
  BY DEF Found
<1>3. CASE pc = "split"
  BY <1>1, <1>2, <1>3 DEF TokensInv, SplitSound
<1>4. CASE pc = "type"
  <2>1. tokens[k] \in TokenStarts \cup {p + 2 : p \in TokenStarts \cap Keywords}
    BY <1>2, <1>4 DEF TokensInv, TokensOfLine, Found
  <2>2. CASE tokens[k] \in TokenStarts
    BY <1>1, <2>2 DEF TokenStarts
  <2>3. ASSUME NEW p \in TokenStarts \cap Keywords, tokens[k] = p + 2
        PROVE  tokens[k] <= Len(line)
    <3>1. p \in Nat /\ p + 1 < Len(line)
      BY <1>1 DEF TokenStarts, Fits
    <3> QED
      BY <1>1, <2>3, <3>1
  <2> QED
    BY <2>1, <2>2, <2>3
<1> QED
  BY <1>3, <1>4

\* What the other invariants say of the state a step leads to
Bounded ==
  /\ Fits => pc # "undefined"
  /\ pc \in {"split", "type"} /\ Len(tokens) <= MAX_NUM_TOKENS => PointersInv

LEMMA PointersStep ==
  ASSUME PointersInv, [Next]_vars, Bounded'
  PROVE  PointersInv'
<1>1. CASE UNCHANGED <<line, tokens>>
  BY <1>1, SameLine DEF PointersInv, Fits, TokensFit, TokensInLine
<1>2. CASE SplitToken \/ SplitStringz
  <2>1. /\ pc' \in {"split", "type", "undefined"}
        /\ pc' # "undefined" => Len(tokens') <= MAX_NUM_TOKENS
    BY <1>2 DEF SplitToken, SplitStringz, Store
  <2>2. CASE pc' = "undefined"
    BY <2>2 DEF Bounded, PointersInv
  <2>3. CASE pc' \in {"split", "type"} /\ Len(tokens') <= MAX_NUM_TOKENS
    BY <2>3 DEF Bounded
  <2> QED
    BY <2>1, <2>2, <2>3
<1> QED
  BY <1>1, <1>2 DEF Next, Step, Terminating, vars, SplitEnd, LabelLine, LineType, Scan, Terminate,
     parse_stringz, ScanBad, ScanOpening, ScanClosing, ScanEscaped, ScanBackslash, ScanPlain,
     ScanEnd, ScanBehindLine

(***************************************************************************)
(* A line with no more tokens than fit into the array, and that does not   *)
(* end in .STRINGZ, keeps to the array and to the buffer, however long it  *)
(* is and whatever it is made of.                                          *)
(***************************************************************************)
THEOREM FittingLinesStayInBounds == Spec => []FittingLinesAreSafe
<1>1. Init => PointersInv
  BY TextAssumption DEF Init, PointersInv, TokensFit, TokensInLine
<1>2. TextInv /\ TokensInv => Bounded
  BY FittingIsDefined, FoundPointers DEF Bounded
<1>3. PointersInv /\ [Next]_vars /\ Bounded' => PointersInv'
  BY PointersStep
<1>4. PointersInv /\ Bounded => FittingLinesAreSafe
  BY DEF PointersInv, Bounded, FittingLinesAreSafe
<1> QED
  BY <1>1, <1>2, <1>3, <1>4, TokensInvariant, PTL DEF Spec

-----------------------------------------------------------------------------
(***************************************************************************)
(* The literals.  What is recursive in Escaped and Content is said without *)
(* recursion: a function is one of these if it satisfies their equation.   *)
(***************************************************************************)
IsEscaped(f, op) ==
  f = [k \in 1 .. Len(op) |-> k > 1 /\ op[k - 1] = "backslash" /\ ~f[k - 1]]

Piece(op, esc, k) ==
  CASE esc[k]                         -> <<Escape[op[k]]>>
    [] op[k] = "backslash" /\ ~esc[k] -> <<>>
    [] OTHER                          -> <<op[k]>>

IsContent(f, op, esc, a, m) ==
  f = [k \in a .. m |-> IF k = a THEN <<>> ELSE f[k - 1] \o Piece(op, esc, k)]

\* The characters behind a and up to m stand for the text t.
HasText(op, esc, a, m, t) == \E f : IsContent(f, op, esc, a, m) /\ f[m] = t

Opens(op, a) ==
  /\ a \in 1 .. Len(op) /\ op[a] = Quote
  /\ \A k \in 1 .. a - 1 : op[k] = Blank

Inside(op, esc, a, m) ==
  \A k \in a + 1 .. m : IF esc[k] THEN op[k] \in DOMAIN Escape ELSE op[k] # Quote

Closes(op, esc, a, b) ==
  /\ b \in 1 .. Len(op) /\ a < b /\ op[b] = Quote /\ ~esc[b]
  /\ Inside(op, esc, a, b - 1)

(* Recursion is reasoned about by the least counterexample. *)
LEMMA LeastNatural ==
  ASSUME NEW S \in SUBSET Nat, S # {}
  PROVE  \E m \in S : \A n \in S : m <= n
<1>1. PICK m \in S : \A n \in S : ~ (<<n, m>> \in OpToRel(<, Nat))
  BY NatLessThanWellFounded, WFMin
<1>2. \A n \in S : ~ (n < m) /\ n \in Nat
  BY <1>1 DEF OpToRel
<1> QED
  BY <1>2

(* There is a function that says what is escaped. *)
LEMMA EscapedExists ==
  ASSUME NEW op, Len(op) \in Nat
  PROVE  \E f : IsEscaped(f, op)
<1> DEFINE Upto(f, m) == f = [k \in 1 .. m |-> k > 1 /\ op[k - 1] = "backslash" /\ ~f[k - 1]]
           S == {m \in Nat : ~ \E f : Upto(f, m)}
<1>1. S = {}
  <2> SUFFICES ASSUME S # {} PROVE FALSE
    OBVIOUS
  <2>1. PICK m \in S : \A k \in S : m <= k
    <3>1. S \in SUBSET Nat
      OBVIOUS
    <3> HIDE DEF S
    <3> QED
      BY <3>1, LeastNatural
  <2>2. CASE m = 0
    <3>1. Upto([k \in 1 .. 0 |-> FALSE], 0)
      OBVIOUS
    <3> QED
      BY <2>1, <2>2, <3>1
  <2>3. CASE m # 0
    <3>1. m - 1 \in Nat /\ m - 1 \notin S /\ m \in Nat
      BY <2>1, <2>3
    <3>2. PICK f : Upto(f, m - 1)
      BY <3>1
    <3> DEFINE g == [k \in 1 .. m |-> IF k < m THEN f[k]
                                      ELSE m > 1 /\ op[m - 1] = "backslash" /\ ~f[m - 1]]
    <3>3. ASSUME NEW k \in 1 .. m
          PROVE  g[k] = (k > 1 /\ op[k - 1] = "backslash" /\ ~g[k - 1])
      <4>1. k > 1 => g[k - 1] = f[k - 1]
        BY <3>1
      <4>2. CASE k < m
        <5>1. k \in 1 .. m - 1
          BY <3>1, <4>2
        <5>2. f[k] = (k > 1 /\ op[k - 1] = "backslash" /\ ~f[k - 1])
          BY <3>2, <5>1
        <5>3. g[k] = f[k]
          BY <4>2
        <5> HIDE DEF g
        <5> QED
          BY <4>1, <5>2, <5>3
      <4>3. CASE k = m
        <5>1. g[k] = (k > 1 /\ op[k - 1] = "backslash" /\ ~f[k - 1])
          BY <3>1, <4>3
        <5> HIDE DEF g
        <5> QED
          BY <4>1, <5>1
      <4> QED
        BY <3>1, <4>2, <4>3
    <3>4. g = [k \in 1 .. m |-> g[k]]
      OBVIOUS
    <3>5. Upto(g, m)
      <4> HIDE DEF g
      <4> QED
        BY <3>3, <3>4, Zenon
    <3> QED
      BY <2>1, <3>5
  <2> QED
    BY <2>2, <2>3
<1>2. Len(op) \notin S
  BY <1>1
<1> QED
  BY <1>2 DEF IsEscaped

LEMMA EscapedChosen ==
  ASSUME NEW op, Len(op) \in Nat, NEW f, f = CHOOSE x : IsEscaped(x, op)
  PROVE  /\ \A k \in 1 .. Len(op) :
              f[k] <=> k > 1 /\ op[k - 1] = "backslash" /\ ~f[k - 1]
<1>1. IsEscaped(f, op)
  BY EscapedExists
<1> QED
  BY <1>1 DEF IsEscaped

(* A text begins empty, *)
LEMMA TextBegins ==
  ASSUME NEW op, NEW esc, NEW a \in Nat
  PROVE  HasText(op, esc, a, a, <<>>)
<1> DEFINE f == [k \in a .. a |-> <<>>]
<1>1. IsContent(f, op, esc, a, a)
  BY DEF IsContent
<1>2. f[a] = <<>>
  OBVIOUS
<1> QED
  BY <1>1, <1>2 DEF HasText

(* every character adds its piece, *)
LEMMA TextGoesOn ==
  ASSUME NEW op, NEW esc, NEW a \in Nat, NEW m \in Nat, a <= m, NEW t, HasText(op, esc, a, m, t)
  PROVE  HasText(op, esc, a, m + 1, t \o Piece(op, esc, m + 1))
<1>1. PICK f : IsContent(f, op, esc, a, m) /\ f[m] = t
  BY DEF HasText
<1> DEFINE g == [k \in a .. m + 1 |-> IF k <= m THEN f[k] ELSE t \o Piece(op, esc, m + 1)]
<1>2. ASSUME NEW k \in a .. m + 1
      PROVE  g[k] = IF k = a THEN <<>> ELSE g[k - 1] \o Piece(op, esc, k)
  <2>1. k # a => g[k - 1] = f[k - 1]
    OBVIOUS
  <2>2. CASE k <= m
    <3>1. k \in a .. m /\ g[k] = f[k]
      BY <2>2
    <3>2. f[k] = IF k = a THEN <<>> ELSE f[k - 1] \o Piece(op, esc, k)
      BY <1>1, <3>1 DEF IsContent
    <3> HIDE DEF g
    <3> QED
      BY <2>1, <3>1, <3>2
  <2>3. CASE k = m + 1
    <3>1. g[k] = t \o Piece(op, esc, k) /\ k # a /\ k - 1 = m
      BY <2>3
    <3> HIDE DEF g
    <3> QED
      BY <1>1, <2>1, <3>1
  <2> QED
    BY <2>2, <2>3
<1>3. g = [k \in a .. m + 1 |-> g[k]]
  OBVIOUS
<1>4. IsContent(g, op, esc, a, m + 1)
  <2> HIDE DEF g
  <2> QED
    BY <1>2, <1>3, Zenon DEF IsContent
<1>5. g[m + 1] = t \o Piece(op, esc, m + 1)
  OBVIOUS
<1> QED
  BY <1>4, <1>5 DEF HasText

(* and there is only one. *)
LEMMA ContentIsOne ==
  ASSUME NEW op, NEW esc, NEW a \in Nat, NEW m \in Nat, NEW f, NEW g,
         IsContent(f, op, esc, a, m), IsContent(g, op, esc, a, m)
  PROVE  f = g
<1> DEFINE S == {k \in a .. m : f[k] # g[k]}
<1>1. S = {}
  <2> SUFFICES ASSUME S # {} PROVE FALSE
    OBVIOUS
  <2>1. PICK k \in S : \A n \in S : k <= n
    <3>1. S \in SUBSET Nat
      OBVIOUS
    <3> HIDE DEF S
    <3> QED
      BY <3>1, LeastNatural
  <2>2. k \in a .. m /\ f[k] # g[k]
    BY <2>1
  <2>3. /\ f[k] = IF k = a THEN <<>> ELSE f[k - 1] \o Piece(op, esc, k)
        /\ g[k] = IF k = a THEN <<>> ELSE g[k - 1] \o Piece(op, esc, k)
    BY <2>2 DEF IsContent
  <2>4. k # a /\ f[k - 1] # g[k - 1]
    BY <2>2, <2>3
  <2>5. k - 1 \in S
    BY <2>2, <2>4
  <2> QED
    BY <2>1, <2>2, <2>5
<1>2. f = [k \in a .. m |-> f[k]] /\ g = [k \in a .. m |-> g[k]]
  BY DEF IsContent
<1>3. \A k \in a .. m : f[k] = g[k]
  BY <1>1
<1> QED
  BY <1>2, <1>3

(* The first mark is the only one that can open, and the next that is not  *)
(* escaped the only one that can close.                                    *)
LEMMA LiteralIsBehind ==
  ASSUME NEW op, Len(op) \in Nat, NEW esc, NEW a, Opens(op, a), NEW m \in Nat, Inside(op, esc, a, m),
         NEW x, Opens(op, x), NEW y, Closes(op, esc, x, y)
  PROVE  x = a /\ m < y
<1>1. a \in 1 .. Len(op) /\ x \in 1 .. Len(op) /\ y \in 1 .. Len(op) /\ x < y
  BY Zenon DEF Opens, Closes
<1>2. a \in Nat /\ x \in Nat /\ y \in Nat /\ 1 <= a /\ 1 <= x /\ x < y
  BY <1>1
<1>3. /\ op[a] = Quote /\ \A k \in 1 .. a - 1 : op[k] = Blank
      /\ op[x] = Quote /\ \A k \in 1 .. x - 1 : op[k] = Blank
  BY Zenon DEF Opens
<1>4. Quote # Blank
  BY BlankIs
<1>5. a \notin 1 .. x - 1 /\ x \notin 1 .. a - 1
  BY <1>3, <1>4, Zenon
<1>6. x = a
  BY <1>2, <1>5
<1>7. y \notin a + 1 .. m
  BY <1>6, Zenon DEF Closes, Inside
<1> QED
  BY <1>2, <1>6, <1>7

(***************************************************************************)
(* While an operand is read: its first i characters are blanks, or a mark  *)
(* and what can be in a literal, and what is written is their text.  When  *)
(* the reading is over it is known whether the operand is a literal, and   *)
(* the C string that is left is its text.                                  *)
(***************************************************************************)
Written == [k \in 1 .. j |-> str[token1 + k - 1]]

Reading ==
  /\ i <= Len(Operand)
  /\ i < Len(Operand) => (Escaped[i + 1] <=> escape_sequence_mode)
  /\ IF first_quotation_mark_found
       THEN /\ Written \in Seq(DOMAIN Code)
            /\ \E a \in 1 .. i : /\ Opens(Operand, a)
                                 /\ Inside(Operand, Escaped, a, i)
                                 /\ HasText(Operand, Escaped, a, i, Written)
       ELSE \A k \in 1 .. i : Operand[k] = Blank

IsLiteralOf(t) ==
  \E a, b \in 1 .. Len(Operand) : IsLiteral(a, b) /\ Content(a, b) = t

HasLiteral == \E a, b \in 1 .. Len(Operand) : IsLiteral(a, b)

LiteralInv ==
  /\ pc \in {"split", "type", "escapes"} => ~second_quotation_mark_found
  /\ pc = "escapes" /\ token1 <= Len(line) => Reading
  /\ pc \in {"terminate", "expand"} => token1 \in Nat /\ token1 <= Len(line)
  /\ pc = "terminate" =>
       IF first_quotation_mark_found /\ second_quotation_mark_found
         THEN j < Len(Operand) /\ Written \in Seq(DOMAIN Code) /\ IsLiteralOf(Written)
         ELSE ~HasLiteral
  /\ pc = "expand" => CString(token1) \in Seq(DOMAIN Code) /\ IsLiteralOf(CString(token1))
  /\ StringIsItsLiteral

(* The characters of the operand are those of the line. *)
LEMMA RestOf ==
  ASSUME NEW s \in Seq(DOMAIN Code), NEW o \in Nat, o <= Len(s),
         NEW op, op = SubSeq(s, o + 1, Len(s))
  PROVE  /\ op \in Seq(DOMAIN Code) /\ Len(op) = Len(s) - o /\ Len(op) \in Nat
         /\ \A k \in 1 .. Len(op) : op[k] = s[o + k] /\ op[k] \in DOMAIN Code
<1>1. Len(s) \in Nat /\ \A k \in 1 .. Len(s) : s[k] \in DOMAIN Code
  OBVIOUS
<1>2. op = [k \in 1 .. Len(s) - o |-> s[o + k]]
  BY <1>1, PartIs
<1>3. \A k \in 1 .. Len(s) - o : o + k \in 1 .. Len(s)
  BY <1>1
<1>4. op \in [1 .. Len(s) - o -> DOMAIN Code] /\ Len(s) - o \in Nat
  <2>1. Len(s) - o \in Nat
    BY <1>1
  <2>2. \A k \in 1 .. Len(s) - o : s[o + k] \in DOMAIN Code
    BY <1>1, <1>3
  <2> QED
    BY <1>2, <2>1, <2>2
<1>5. op \in Seq(DOMAIN Code)
  BY <1>4, SeqDef
<1>6. Len(op) = Len(s) - o
  BY <1>4, <1>5, LenProperties
<1> QED
  BY <1>2, <1>4, <1>5, <1>6

LEMMA OperandIs ==
  ASSUME line \in Inputs, token1 \in Nat, token1 <= Len(line)
  PROVE  /\ Operand \in Seq(DOMAIN Code) /\ Len(Operand) = Len(line) - token1
         /\ Len(Operand) \in Nat /\ Len(line) \in Nat
         /\ \A k \in 1 .. Len(Operand) : /\ Operand[k] = line[token1 + k]
                                         /\ Operand[k] \in DOMAIN Code /\ Operand[k] # NUL
         /\ \A k \in 1 .. Len(Operand) :
              Escaped[k] <=> k > 1 /\ Operand[k - 1] = "backslash" /\ ~Escaped[k - 1]
<1>1. line \in Seq(DOMAIN Code) /\ Len(line) \in Nat
  BY LineChars
<1>2. /\ Operand \in Seq(DOMAIN Code) /\ Len(Operand) = Len(line) - token1 /\ Len(Operand) \in Nat
      /\ \A k \in 1 .. Len(Operand) : Operand[k] = line[token1 + k] /\ Operand[k] \in DOMAIN Code
  BY <1>1, RestOf DEF Operand
<1>3. Escaped = CHOOSE f : IsEscaped(f, Operand)
  BY DEF Escaped, IsEscaped
<1>4. \A k \in 1 .. Len(Operand) :
        Escaped[k] <=> k > 1 /\ Operand[k - 1] = "backslash" /\ ~Escaped[k - 1]
  BY <1>2, <1>3, EscapedChosen
<1>5. \A k \in 1 .. Len(Operand) : Operand[k] # NUL
  BY <1>2, TextAssumption DEF NUL
<1> QED
  BY <1>1, <1>2, <1>4, <1>5

LEMMA SameOperand ==
  ASSUME line' = line, token1' = token1
  PROVE  /\ Operand' = Operand /\ Escaped' = Escaped
         /\ \A a, b : (IsLiteral(a, b)' <=> IsLiteral(a, b)) /\ Content(a, b)' = Content(a, b)
         /\ HasLiteral' <=> HasLiteral
         /\ \A t : IsLiteralOf(t)' <=> IsLiteralOf(t)
<1>1. Operand' = Operand
  BY DEF Operand
<1>2. Escaped' = Escaped
  BY <1>1 DEF Escaped
<1>3. \A a, b : IsLiteral(a, b)' <=> IsLiteral(a, b)
  BY <1>1, <1>2 DEF IsLiteral
<1>4. \A a, b : Content(a, b)' = Content(a, b)
  BY <1>1, <1>2 DEF Content
<1>5. HasLiteral' <=> HasLiteral
  BY <1>1, <1>3 DEF HasLiteral
<1>6. \A t : IsLiteralOf(t)' <=> IsLiteralOf(t)
  BY <1>1, <1>3, <1>4 DEF IsLiteralOf
<1> QED
  BY <1>1, <1>2, <1>3, <1>4, <1>5, <1>6

LEMMA LiteralIs ==
  ASSUME NEW a \in 1 .. Len(Operand), NEW b \in 1 .. Len(Operand)
  PROVE  IsLiteral(a, b) <=> Opens(Operand, a) /\ Closes(Operand, Escaped, a, b)
BY DEF IsLiteral, Opens, Closes, Inside

(* The content of a literal is the text between its marks. *)
LEMMA ContentIs ==
  ASSUME NEW a \in Nat, NEW b \in Nat, a < b, NEW t, HasText(Operand, Escaped, a, b - 1, t)
  PROVE  Content(a, b) = t
<1> DEFINE Is(f) == IsContent(f, Operand, Escaped, a, b - 1)
<1>1. PICK c : Is(c) /\ c[b - 1] = t
  BY DEF HasText
<1>2. b - 1 \in Nat
  OBVIOUS
<1>3. \A f : Is(f) => f = c
  BY <1>1, <1>2, ContentIsOne
<1>4. Content(a, b) = (CHOOSE f : Is(f))[b - 1]
  BY DEF Content, IsContent, Piece
<1> HIDE DEF Is
<1>5. (CHOOSE f : Is(f)) = c
  BY <1>1, <1>3
<1> QED
  BY <1>1, <1>4, <1>5

(* The reader is in the operand, or at the NUL behind it. *)
LEMMA ReaderIs ==
  ASSUME TextInv, pc = "escapes", token1 <= Len(line), i <= Len(Operand)
  PROVE  /\ i < Len(Operand) => ch = Operand[i + 1] /\ ch \in DOMAIN Code /\ ch # NUL
         /\ i = Len(Operand) => ch = NUL
<1>1. line \in Inputs /\ token1 \in Nat /\ i \in Nat /\ Unread(token1 + i)
  BY DEF TextInv, Types, Escaping, WriterBehindReader
<1>2. /\ Len(Operand) = Len(line) - token1 /\ Len(line) \in Nat
      /\ \A k \in 1 .. Len(Operand) : /\ Operand[k] = line[token1 + k]
                                      /\ Operand[k] \in DOMAIN Code /\ Operand[k] # NUL
  BY <1>1, OperandIs
<1>3. PICK o \in Nat : o = token1
  BY <1>1
<1>4. PICK n \in Nat : n = Len(line)
  BY <1>2
<1>5. ch = IF o + i < n THEN line[o + i + 1] ELSE NUL
  <2>1. o + i \in o + i .. n
    BY <1>1, <1>2, <1>3, <1>4
  <2> QED
    BY <1>1, <1>3, <1>4, <2>1 DEF ch, Unread
<1>6. CASE i < Len(Operand)
  <2>1. i + 1 \in 1 .. Len(Operand) /\ o + (i + 1) = o + i + 1 /\ o + i < n
    BY <1>1, <1>2, <1>3, <1>4, <1>6
  <2> QED
    BY <1>2, <1>3, <1>5, <1>6, <2>1
<1>7. CASE i = Len(Operand)
  BY <1>1, <1>2, <1>3, <1>4, <1>5, <1>7
<1> QED
  BY <1>6, <1>7

LEMMA WrittenGrows ==
  ASSUME TextInv, pc = "escapes", token1 <= Len(line), i < Len(Operand), first_quotation_mark_found,
         Written \in Seq(DOMAIN Code), token1' = token1, NEW c \in DOMAIN Code, Write(c)
  PROVE  Written' = Written \o <<c>> /\ Written' \in Seq(DOMAIN Code)
<1>1. /\ line \in Inputs /\ token1 \in Nat /\ i \in Nat /\ j \in Nat /\ j < i
      /\ DOMAIN str = 0 .. Len(line)
  BY DEF TextInv, Types, Escaping, WriterBehindReader
<1>2. Len(Operand) = Len(line) - token1 /\ Len(line) \in Nat
  BY <1>1, OperandIs
<1>3. PICK o \in Nat : o = token1
  BY <1>1
<1>4. str' = [str EXCEPT ![o + j] = c] /\ j' = j + 1 /\ o + j \in 0 .. Len(line)
  BY <1>1, <1>2, <1>3 DEF Write
<1>5. str'[o + j] = c /\ \A k \in 1 .. j : str'[o + k - 1] = str[o + k - 1]
  <2>1. \A k \in 1 .. j : o + k - 1 \in 0 .. Len(line) /\ o + k - 1 # o + j
    BY <1>1, <1>4
  <2> QED
    BY <1>1, <1>4, <2>1
<1>6. Written = [k \in 1 .. j |-> str[o + k - 1]]
  BY <1>3 DEF Written
<1>7. Written' = [k \in 1 .. j + 1 |-> str'[o + k - 1]]
  BY <1>3, <1>4 DEF Written
<1>8. Len(Written) = j
  BY <1>1, <1>6, LenProperties
<1> DEFINE w == Written \o <<c>>
<1>9. w \in Seq(DOMAIN Code) /\ Len(w) = j + 1 /\ (\A k \in 1 .. j : w[k] = Written[k]) /\ w[j + 1] = c
  BY <1>1, <1>8
<1>10. w = [k \in 1 .. j + 1 |-> w[k]]
  BY <1>1, <1>9
<1>11. \A k \in 1 .. j + 1 : w[k] = str'[o + k - 1]
  <2> TAKE k \in 1 .. j + 1
  <2>1. CASE k \in 1 .. j
    BY <1>5, <1>6, <1>9, <2>1
  <2>2. CASE k = j + 1
    <3>1. o + k - 1 = o + j
      BY <1>1, <2>2
    <3> QED
      BY <1>5, <1>9, <2>2, <3>1
  <2>3. k \in 1 .. j \/ k = j + 1
    BY <1>1
  <2> QED
    BY <2>1, <2>2, <2>3
<1> HIDE DEF w
<1>12. Written' = w
  BY <1>7, <1>10, <1>11
<1> QED
  BY <1>9, <1>12 DEF w

(***************************************************************************)
(* One character is read: everything up to it is known, and it adds its    *)
(* piece to the text.                                                      *)
(***************************************************************************)
Reads ==
  /\ TextInv /\ LiteralInv
  /\ pc = "escapes" /\ token1 <= Len(line) /\ ch # NUL
  /\ line' = line /\ token1' = token1

LEMMA ReadsIs ==
  ASSUME Reads
  PROVE  /\ line \in Inputs /\ token1 \in Nat /\ i \in Nat /\ j \in Nat
         /\ Operand \in Seq(DOMAIN Code) /\ Len(Operand) \in Nat
         /\ Reading /\ i < Len(Operand) /\ i + 1 \in 1 .. Len(Operand)
         /\ ch = Operand[i + 1] /\ ch \in DOMAIN Code
         /\ Escaped[i + 1] <=> escape_sequence_mode
         /\ i + 1 < Len(Operand) => (Escaped[i + 1 + 1] <=> ch = "backslash" /\ ~escape_sequence_mode)
         /\ Operand' = Operand /\ Escaped' = Escaped
<1>1. /\ TextInv /\ pc = "escapes" /\ token1 <= Len(line) /\ ch # NUL /\ Reading
      /\ line \in Inputs /\ token1 \in Nat /\ i \in Nat /\ j \in Nat
  BY DEF Reads, TextInv, Types, Escaping, LiteralInv
<1>2. /\ Operand \in Seq(DOMAIN Code) /\ Len(Operand) \in Nat
      /\ \A k \in 1 .. Len(Operand) :
           Escaped[k] <=> k > 1 /\ Operand[k - 1] = "backslash" /\ ~Escaped[k - 1]
  BY <1>1, OperandIs
<1>3. i <= Len(Operand) /\ (i < Len(Operand) => (Escaped[i + 1] <=> escape_sequence_mode))
  BY <1>1 DEF Reading
<1>4. i < Len(Operand) /\ ch = Operand[i + 1] /\ ch \in DOMAIN Code
  BY <1>1, <1>2, <1>3, ReaderIs
<1>5. ASSUME i + 1 < Len(Operand)
      PROVE  Escaped[i + 1 + 1] <=> ch = "backslash" /\ ~escape_sequence_mode
  <2>1. PICK k \in 1 .. Len(Operand) : k = i + 1 + 1 /\ k > 1 /\ k - 1 = i + 1
    BY <1>1, <1>2, <1>5
  <2>2. Escaped[k] <=> k > 1 /\ Operand[k - 1] = "backslash" /\ ~Escaped[k - 1]
    BY <1>2, Zenon
  <2>3. Operand[k - 1] = ch /\ (Escaped[k - 1] <=> escape_sequence_mode)
    BY <1>3, <1>4, <2>1
  <2> QED
    BY <2>1, <2>2, <2>3
<1>6. i + 1 \in 1 .. Len(Operand)
  BY <1>1, <1>2, <1>4
<1>7. Operand' = Operand /\ Escaped' = Escaped
  BY SameOperand DEF Reads
<1> QED
  BY <1>1, <1>2, <1>3, <1>4, <1>5, <1>6, <1>7

(* Behind the first mark. *)
LEMMA ReadsInside ==
  ASSUME Reads, first_quotation_mark_found, first_quotation_mark_found', i' = i + 1,
         escape_sequence_mode' <=> ch = "backslash" /\ ~escape_sequence_mode,
         IF escape_sequence_mode THEN ch \in DOMAIN Escape ELSE ch # Quote,
         Written' = Written \o Piece(Operand, Escaped, i + 1), Written' \in Seq(DOMAIN Code)
  PROVE  Reading'
<1>1. /\ i \in Nat /\ Len(Operand) \in Nat /\ i < Len(Operand) /\ Reading
      /\ ch = Operand[i + 1]
      /\ Escaped[i + 1] <=> escape_sequence_mode
      /\ i + 1 < Len(Operand) => (Escaped[i + 1 + 1] <=> ch = "backslash" /\ ~escape_sequence_mode)
      /\ Operand' = Operand /\ Escaped' = Escaped
  BY ReadsIs
<1>2. PICK a \in 1 .. i : /\ Opens(Operand, a)
                          /\ Inside(Operand, Escaped, a, i)
                          /\ HasText(Operand, Escaped, a, i, Written)
  BY <1>1 DEF Reading
<1>3. Inside(Operand, Escaped, a, i + 1)
  <2>1. IF Escaped[i + 1] THEN Operand[i + 1] \in DOMAIN Escape ELSE Operand[i + 1] # Quote
    BY <1>1
  <2>2. \A k \in a + 1 .. i + 1 : k \in a + 1 .. i \/ k = i + 1
    BY <1>1
  <2> QED
    BY <1>2, <2>1, <2>2, Zenon DEF Inside
<1>4. HasText(Operand, Escaped, a, i + 1, Written')
  <2>1. a \in Nat /\ a <= i
    BY <1>1
  <2>2. HasText(Operand, Escaped, a, i + 1, Written \o Piece(Operand, Escaped, i + 1))
    BY <1>1, <1>2, <2>1, TextGoesOn
  <2> QED
    BY <2>2
<1>5. /\ i' <= Len(Operand')
      /\ i' < Len(Operand') => (Escaped'[i' + 1] <=> escape_sequence_mode')
      /\ a \in 1 .. i'
  BY <1>1
<1>6. Opens(Operand', a) /\ Inside(Operand', Escaped', a, i') /\ HasText(Operand', Escaped', a, i', Written')
  BY <1>1, <1>2, <1>3, <1>4
<1> QED
  BY <1>5, <1>6 DEF Reading

(* A character in front of the first mark, or the mark itself. *)
LEMMA ReadsBlank ==
  ASSUME Reads, ~first_quotation_mark_found, ~first_quotation_mark_found', i' = i + 1, ch = Blank,
         ~escape_sequence_mode, ~escape_sequence_mode'
  PROVE  Reading'
<1>1. /\ i \in Nat /\ Len(Operand) \in Nat /\ i < Len(Operand) /\ Reading
      /\ ch = Operand[i + 1]
      /\ i + 1 < Len(Operand) => (Escaped[i + 1 + 1] <=> ch = "backslash" /\ ~escape_sequence_mode)
      /\ Operand' = Operand /\ Escaped' = Escaped
  BY ReadsIs
<1>2. \A k \in 1 .. i + 1 : Operand[k] = Blank
  <2>1. i \in Nat
    BY <1>1
  <2>2. \A k \in 1 .. i + 1 : k \in 1 .. i \/ k = i + 1
    BY <2>1
  <2>3. \A k \in 1 .. i : Operand[k] = Blank
    BY <1>1 DEF Reading
  <2>4. Operand[i + 1] = Blank
    BY <1>1, Zenon
  <2> QED
    BY <2>2, <2>3, <2>4, Zenon
<1>3. /\ i' <= Len(Operand')
      /\ i' < Len(Operand') => (Escaped'[i' + 1] <=> escape_sequence_mode')
  BY <1>1, BlankIs
<1> QED
  BY <1>1, <1>2, <1>3 DEF Reading

LEMMA ReadsOpening ==
  ASSUME Reads, ~first_quotation_mark_found, first_quotation_mark_found', i' = i + 1, ch = Quote,
         ~escape_sequence_mode, ~escape_sequence_mode', j' = j
  PROVE  Reading'
<1>1. /\ i \in Nat /\ Len(Operand) \in Nat /\ i < Len(Operand) /\ Reading
      /\ i + 1 \in 1 .. Len(Operand) /\ ch = Operand[i + 1]
      /\ i + 1 < Len(Operand) => (Escaped[i + 1 + 1] <=> ch = "backslash" /\ ~escape_sequence_mode)
      /\ Operand' = Operand /\ Escaped' = Escaped
  BY ReadsIs
<1>2. j = 0
  BY DEF Reads, TextInv, Escaping, WriterBehindReader
<1>3. Written' = <<>>
  BY <1>2 DEF Written
<1>4. Opens(Operand, i + 1)
  <2>1. PICK p \in 1 .. Len(Operand) : p = i + 1 /\ p - 1 = i
    BY <1>1
  <2>2. Operand[p] = Quote /\ \A k \in 1 .. p - 1 : Operand[k] = Blank
    BY <1>1, <2>1 DEF Reading
  <2>3. Opens(Operand, p)
    BY <2>2, Zenon DEF Opens
  <2> QED
    BY <2>1, <2>3
<1>5. Inside(Operand, Escaped, i + 1, i + 1)
  BY <1>1 DEF Inside
<1>6. HasText(Operand, Escaped, i + 1, i + 1, <<>>)
  BY <1>1, TextBegins
<1>7. /\ i' <= Len(Operand') /\ i + 1 \in 1 .. i'
      /\ i' < Len(Operand') => (Escaped'[i' + 1] <=> escape_sequence_mode')
  BY <1>1, BlankIs
<1>8. Written' \in Seq(DOMAIN Code)
  BY <1>3
<1> QED
  BY <1>1, <1>3, <1>4, <1>5, <1>6, <1>7, <1>8 DEF Reading

(* What the reading of an operand shows when it ends. *)
LEMMA NoLiteral ==
  ASSUME Reads, first_quotation_mark_found =>
                  escape_sequence_mode /\ ch \notin DOMAIN Escape,
         ~first_quotation_mark_found => ch \notin {Blank, Quote}
  PROVE  ~HasLiteral
<1>1. /\ i \in Nat /\ Len(Operand) \in Nat /\ i < Len(Operand) /\ Reading
      /\ i + 1 \in 1 .. Len(Operand) /\ ch = Operand[i + 1]
      /\ Escaped[i + 1] <=> escape_sequence_mode
  BY ReadsIs
<1> SUFFICES ASSUME NEW x \in 1 .. Len(Operand), NEW y \in 1 .. Len(Operand), IsLiteral(x, y)
             PROVE  FALSE
  BY DEF HasLiteral
<1>2. Opens(Operand, x) /\ Closes(Operand, Escaped, x, y)
  BY LiteralIs
<1>3. x \in Nat /\ y \in Nat /\ 1 <= x /\ i \in Nat
  <2>1. Len(Operand) \in Nat /\ i \in Nat
    BY <1>1
  <2> QED
    BY <2>1
<1>4. CASE first_quotation_mark_found
  <2>1. PICK a \in 1 .. i : /\ Opens(Operand, a)
                            /\ Inside(Operand, Escaped, a, i)
                            /\ HasText(Operand, Escaped, a, i, Written)
    BY <1>1, <1>4 DEF Reading
  <2>2. x = a /\ i < y
    BY <1>1, <1>2, <2>1, LiteralIsBehind
  <2>3. Escaped[i + 1] /\ Operand[i + 1] \notin DOMAIN Escape
    BY <1>1, <1>4
  <2>4. i + 1 # y
    BY <1>2, <2>3, Zenon DEF Closes
  <2>5. i + 1 \in x + 1 .. y - 1
    <3>1. x \in 1 .. i
      BY <2>2
    <3> QED
      BY <1>3, <2>2, <2>4, <3>1
  <2> QED
    BY <1>2, <2>3, <2>5, Zenon DEF Closes, Inside
<1>5. CASE ~first_quotation_mark_found
  <2>1. Operand[x] = Quote /\ \A k \in 1 .. x - 1 : Operand[k] = Blank
    BY <1>2, Zenon DEF Opens
  <2>2. \A k \in 1 .. i : Operand[k] = Blank
    BY <1>1, <1>5 DEF Reading
  <2>3. Operand[i + 1] # Blank /\ Operand[i + 1] # Quote /\ Quote # Blank
    BY <1>1, <1>5, BlankIs
  <2>4. x \notin 1 .. i /\ x # i + 1 /\ i + 1 \notin 1 .. x - 1
    BY <2>1, <2>2, <2>3, Zenon
  <2> QED
    BY <1>3, <2>4
<1> QED
  BY <1>4, <1>5

LEMMA EndHasNoLiteral ==
  ASSUME Reading, i = Len(Operand), Len(Operand) \in Nat
  PROVE  ~HasLiteral
<1> SUFFICES ASSUME NEW x \in 1 .. Len(Operand), NEW y \in 1 .. Len(Operand), IsLiteral(x, y)
             PROVE  FALSE
  BY DEF HasLiteral
<1>1. Opens(Operand, x) /\ Closes(Operand, Escaped, x, y)
  BY LiteralIs
<1>2. CASE first_quotation_mark_found
  <2>1. PICK a \in 1 .. i : Opens(Operand, a) /\ Inside(Operand, Escaped, a, i)
    BY <1>2 DEF Reading
  <2>2. i < y
    BY <1>1, <2>1, LiteralIsBehind
  <2> QED
    BY <2>2
<1>3. CASE ~first_quotation_mark_found
  <2>1. Operand[x] = Blank
    BY <1>3 DEF Reading
  <2> QED
    BY <1>1, <2>1, BlankIs DEF Opens
<1> QED
  BY <1>2, <1>3

(* A mark that is not escaped ends the literal. *)
LEMMA ReadsClosing ==
  ASSUME Reads, first_quotation_mark_found, ch = Quote, ~escape_sequence_mode
  PROVE  j < Len(Operand) /\ Written \in Seq(DOMAIN Code) /\ IsLiteralOf(Written)
<1>1. /\ i \in Nat /\ j \in Nat /\ Len(Operand) \in Nat /\ i < Len(Operand) /\ Reading
      /\ i + 1 \in 1 .. Len(Operand) /\ ch = Operand[i + 1]
      /\ Escaped[i + 1] <=> escape_sequence_mode
  BY ReadsIs
<1>2. j < i
  BY DEF Reads, TextInv, Escaping, WriterBehindReader
<1>3. PICK a \in 1 .. i : /\ Opens(Operand, a)
                          /\ Inside(Operand, Escaped, a, i)
                          /\ HasText(Operand, Escaped, a, i, Written)
  BY <1>1 DEF Reading
<1>4. PICK b \in 1 .. Len(Operand) : b = i + 1
  BY <1>1
<1>5. a \in 1 .. Len(Operand) /\ a \in Nat /\ a < b /\ b - 1 = i /\ b \in Nat
  BY <1>1, <1>4
<1>6. IsLiteral(a, b)
  <2>1. Operand[b] = Quote /\ ~Escaped[b]
    BY <1>1, <1>4
  <2>2. Inside(Operand, Escaped, a, b - 1)
    BY <1>3, <1>5
  <2>3. Closes(Operand, Escaped, a, b)
    BY <1>5, <2>1, <2>2, Zenon DEF Closes
  <2> QED
    BY <1>3, <1>5, <2>3, LiteralIs
<1>7. Content(a, b) = Written
  <2>1. HasText(Operand, Escaped, a, b - 1, Written)
    BY <1>3, <1>5
  <2> QED
    BY <1>5, <2>1, ContentIs
<1>8. IsLiteralOf(Written)
  BY <1>5, <1>6, <1>7 DEF IsLiteralOf
<1>9. j < Len(Operand)
  BY <1>1, <1>2
<1> QED
  BY <1>1, <1>8, <1>9 DEF Reading

LEMMA NotAString ==
  ASSUME ~HasLiteral', result' # "string"
  PROVE  StringIsItsLiteral'
<1> SUFFICES ASSUME pc' = "done" PROVE StringIsItsLiteral'
  BY DEF StringIsItsLiteral
<1>1. \A a, b \in 1 .. Len(Operand') : ~IsLiteral(a, b)'
  BY DEF HasLiteral
<1> QED
  BY <1>1 DEF StringIsItsLiteral

LEMMA ScanLiteral ==
  ASSUME TextInv, LiteralInv, Scan
  PROVE  LiteralInv'
<1>1. /\ pc = "escapes" /\ UNCHANGED <<line, scan, tokens, first, words>>
      /\ ~second_quotation_mark_found
      /\ token1 \in Nat /\ line \in Inputs /\ i \in Nat
  BY DEF Scan, TextInv, Types, Escaping, LiteralInv, ScanBad, ScanOpening, ScanClosing, ScanEscaped,
     ScanBackslash, ScanPlain, ScanEnd, ScanBehindLine, Scanning
<1>2. token1' = token1
  BY <1>1 DEF token1
<1>3. Scanning => Reads
  BY <1>1, <1>2 DEF Scanning, Reads
<1>4. ASSUME Reading', pc' = "escapes", ~second_quotation_mark_found'
      PROVE  LiteralInv'
  BY <1>4 DEF LiteralInv, StringIsItsLiteral
<1>5. ASSUME Reads, ~HasLiteral, pc' = "done", result' # "string"
      PROVE  LiteralInv'
  <2>1. ~HasLiteral'
    BY <1>1, <1>2, <1>5, SameOperand
  <2> QED
    BY <1>5, <2>1, NotAString DEF LiteralInv
<1>6. CASE ScanBad
  <2>1. Reads /\ ~first_quotation_mark_found /\ ch \notin {Blank, Quote}
    BY <1>3, <1>6 DEF ScanBad, IsBad
  <2>2. ~HasLiteral
    BY <2>1, NoLiteral
  <2> QED
    BY <1>5, <1>6, <2>1, <2>2 DEF ScanBad, Error
<1>7. CASE ScanOpening
  <2>1. /\ Reads /\ ~first_quotation_mark_found /\ first_quotation_mark_found' /\ i' = i + 1
        /\ ch = Quote /\ ~escape_sequence_mode /\ ~escape_sequence_mode' /\ j' = j
    BY <1>3, <1>7 DEF ScanOpening
  <2>2. Reading'
    BY <2>1, ReadsOpening
  <2> QED
    BY <1>1, <1>4, <1>7, <2>2 DEF ScanOpening
<1>8. CASE ScanClosing
  <2>1. Reads /\ first_quotation_mark_found /\ ch = Quote /\ ~escape_sequence_mode
    BY <1>3, <1>8 DEF ScanClosing
  <2>2. j < Len(Operand) /\ Written \in Seq(DOMAIN Code) /\ IsLiteralOf(Written)
    BY <2>1, ReadsClosing
  <2>3. /\ pc' = "terminate" /\ first_quotation_mark_found' /\ second_quotation_mark_found'
        /\ j' = j /\ str' = str
    BY <1>8, <2>1 DEF ScanClosing
  <2>4. Written' = Written /\ Operand' = Operand
    BY <1>1, <1>2, <2>3, SameOperand DEF Written
  <2>5. IsLiteralOf(Written)'
    <3>1. PICK t : t = Written
      OBVIOUS
    <3>2. IsLiteralOf(t)'
      BY <1>1, <1>2, <2>2, <3>1, SameOperand
    <3> QED
      BY <2>4, <3>1, <3>2
  <2>6. token1 <= Len(line)
    BY <2>1 DEF Reads
  <2> QED
    BY <1>1, <1>2, <2>2, <2>3, <2>4, <2>5, <2>6 DEF LiteralInv, StringIsItsLiteral
<1>9. CASE ScanEscaped
  <2>1. Reads /\ escape_sequence_mode /\ first_quotation_mark_found
    BY <1>1, <1>3, <1>9 DEF ScanEscaped, TextInv, Escaping
  <2>2. CASE /\ ch \in DOMAIN Escape
             /\ Write(Escape[ch])
             /\ escape_sequence_mode' = FALSE
             /\ i' = i + 1
             /\ UNCHANGED <<pc, first_quotation_mark_found, second_quotation_mark_found, result>>
    <3>1. Escape[ch] \in DOMAIN Code
      BY <2>1, <2>2, ReadsIs, EscapeAssumption
    <3>2. Written' = Written \o <<Escape[ch]>> /\ Written' \in Seq(DOMAIN Code)
      BY <1>2, <2>1, <2>2, <3>1, ReadsIs, WrittenGrows DEF Reads, Reading
    <3>3. Piece(Operand, Escaped, i + 1) = <<Escape[ch]>>
      BY <2>1, ReadsIs DEF Piece
    <3>4. Reading'
      BY <2>1, <2>2, <3>2, <3>3, ReadsInside
    <3> QED
      BY <1>1, <1>4, <2>2, <3>4
  <2>3. CASE ch \notin DOMAIN Escape /\ Error("unrecognised_escape")
    <3>1. ~HasLiteral
      BY <2>1, <2>3, NoLiteral
    <3> QED
      BY <1>5, <2>1, <2>3, <3>1 DEF Error
  <2> QED
    BY <1>9, <2>2, <2>3 DEF ScanEscaped
<1>10. CASE ScanBackslash
  <2>1. /\ Reads /\ first_quotation_mark_found /\ first_quotation_mark_found'
        /\ ch = "backslash" /\ ~escape_sequence_mode /\ escape_sequence_mode' /\ i' = i + 1
        /\ UNCHANGED <<pc, str, j, second_quotation_mark_found>>
    BY <1>3, <1>10, BlankIs DEF ScanBackslash, IsBad
  <2>2. Written' = Written
    BY <1>2, <2>1 DEF Written
  <2>3. Written \in Seq(DOMAIN Code)
    BY <2>1, ReadsIs DEF Reading
  <2>4. Piece(Operand, Escaped, i + 1) = <<>>
    BY <2>1, ReadsIs DEF Piece
  <2>5. Written' = Written \o Piece(Operand, Escaped, i + 1)
    BY <2>2, <2>3, <2>4
  <2>6. Reading'
    BY <2>1, <2>2, <2>3, <2>5, BlankIs, ReadsInside
  <2> QED
    BY <1>1, <1>4, <2>1, <2>6
<1>11. CASE ScanPlain
  <2>1. /\ Reads /\ ch # Quote /\ ch # "backslash" /\ ~escape_sequence_mode
        /\ ~escape_sequence_mode' /\ i' = i + 1 /\ ~IsBad
        /\ UNCHANGED <<pc, first_quotation_mark_found, second_quotation_mark_found>>
    BY <1>3, <1>11 DEF ScanPlain
  <2>2. CASE first_quotation_mark_found
    <3>1. ch \in DOMAIN Code /\ Write(ch)
      BY <1>11, <2>1, <2>2, ReadsIs DEF ScanPlain
    <3>2. Written' = Written \o <<ch>> /\ Written' \in Seq(DOMAIN Code)
      BY <1>2, <2>1, <2>2, <3>1, ReadsIs, WrittenGrows DEF Reads, Reading
    <3>3. Piece(Operand, Escaped, i + 1) = <<ch>>
      BY <2>1, ReadsIs DEF Piece
    <3>4. Reading'
      BY <2>1, <2>2, <3>2, <3>3, ReadsInside
    <3> QED
      BY <1>1, <1>4, <2>1, <3>4
  <2>3. CASE ~first_quotation_mark_found
    <3>1. ch = Blank
      BY <2>1, <2>3 DEF IsBad
    <3>2. Reading'
      BY <2>1, <2>3, <3>1, ReadsBlank
    <3> QED
      BY <1>1, <1>4, <2>1, <3>2
  <2> QED
    BY <2>2, <2>3
<1>12. CASE ScanEnd
  <2>1. /\ token1 <= Len(line) /\ ch = NUL /\ pc' = "terminate"
        /\ UNCHANGED <<first_quotation_mark_found, second_quotation_mark_found>>
    BY <1>12 DEF ScanEnd, scanVars
  <2>2. Reading /\ i <= Len(Operand)
    BY <1>1, <2>1 DEF LiteralInv, Reading
  <2>3. Len(Operand) \in Nat
    BY <1>1, <2>1, OperandIs
  <2>4. ~(i < Len(Operand))
    BY <1>1, <2>1, <2>2, ReaderIs
  <2>5. i = Len(Operand)
    BY <1>1, <2>2, <2>3, <2>4
  <2>6. ~HasLiteral'
    BY <1>1, <1>2, <2>2, <2>3, <2>5, EndHasNoLiteral, SameOperand
  <2> QED
    BY <1>1, <1>2, <2>1, <2>6 DEF LiteralInv, StringIsItsLiteral
<1>13. CASE ScanBehindLine
  BY <1>13 DEF ScanBehindLine, LiteralInv, StringIsItsLiteral
<1> QED
  BY <1>6, <1>7, <1>8, <1>9, <1>10, <1>11, <1>12, <1>13 DEF Scan

(* The NUL is put behind what has been written. *)
LEMMA TerminateLiteral ==
  ASSUME TextInv, LiteralInv, Terminate
  PROVE  LiteralInv'
<1>1. /\ pc = "terminate" /\ UNCHANGED <<line, tokens, first>>
      /\ line \in Inputs /\ j \in Nat /\ DOMAIN str = 0 .. Len(line)
      /\ token1 \in Nat /\ token1 <= Len(line)
  BY DEF Terminate, TextInv, Types, LiteralInv
<1>2. token1' = token1
  BY <1>1 DEF token1
<1>3. CASE first_quotation_mark_found /\ second_quotation_mark_found
  <2>1. /\ pc' = "expand"
        /\ j < Len(Operand) /\ Written \in Seq(DOMAIN Code) /\ IsLiteralOf(Written)
    BY <1>1, <1>3 DEF Terminate, LiteralInv
  <2>2. PICK o \in Nat : o = token1
    BY <1>1
  <2>3. Len(Operand) = Len(line) - o /\ Len(line) \in Nat
    BY <1>1, <2>2, OperandIs
  <2>4. str' = [str EXCEPT ![o + j] = NUL] /\ o + j \in 0 .. Len(line)
    BY <1>1, <2>1, <2>2, <2>3 DEF Terminate, token1_length
  <2>5. Written = [k \in 1 .. j |-> str[o + k - 1]]
    BY <2>2 DEF Written
  <2>6. Len(Written) = j
    BY <1>1, <2>1, <2>5, LenProperties
  <2>7. \A k \in 1 .. j : Written[k] \in DOMAIN Code
    BY <1>1, <2>1, <2>6
  <2>8. \A k \in 1 .. j : str'[o + k - 1] = str[o + k - 1]
    <3>1. \A k \in 1 .. j : o + k - 1 \in 0 .. Len(line) /\ o + k - 1 # o + j
      BY <1>1, <2>4
    <3> QED
      BY <1>1, <2>4, <3>1
  <2>9. str'[o + j] = NUL
    BY <1>1, <2>4
  <2>10. \A d \in o .. o + j - 1 : str'[d] # NUL
    <3> TAKE d \in o .. o + j - 1
    <3>1. PICK k \in 1 .. j : d = o + k - 1
      <4>1. d - o + 1 \in 1 .. j /\ d = o + (d - o + 1) - 1
        BY <1>1
      <4> QED
        BY <4>1
    <3>2. str'[d] \in DOMAIN Code
      BY <2>5, <2>7, <2>8, <3>1
    <3> QED
      BY <3>2, TextAssumption DEF NUL
  <2>11. o + j \in o .. Len(line) /\ (o + j) - o = j
    BY <1>1, <2>1, <2>3
  <2>12. CString(token1)' = [k \in 1 .. (o + j) - o |-> str'[o + k - 1]]
    <3>1. (CHOOSE x \in o .. Len(line) : str'[x] = NUL /\ \A d \in o .. x - 1 : str'[d] # NUL)
            = o + j
      BY <2>3, <2>9, <2>10, <2>11, FirstNul
    <3> QED
      BY <1>1, <1>2, <2>2, <3>1, Zenon DEF CString
  <2>13. CString(token1)' = Written
    BY <2>5, <2>8, <2>11, <2>12
  <2>14. IsLiteralOf(CString(token1))'
    <3>1. PICK t : t = Written
      OBVIOUS
    <3>2. IsLiteralOf(t)'
      BY <1>1, <1>2, <2>1, <3>1, SameOperand
    <3> QED
      BY <2>13, <3>1, <3>2
  <2> QED
    BY <1>1, <1>2, <2>1, <2>13, <2>14 DEF LiteralInv, StringIsItsLiteral
<1>4. CASE ~(first_quotation_mark_found /\ second_quotation_mark_found)
  <2>1. pc' = "done" /\ result' # "string" /\ ~HasLiteral
    BY <1>1, <1>4 DEF Terminate, LiteralInv
  <2>2. ~HasLiteral'
    BY <1>1, <1>2, <2>1, SameOperand
  <2> QED
    BY <2>1, <2>2, NotAString DEF LiteralInv
<1> QED
  BY <1>3, <1>4

(* A word has its character in its low byte. *)
LEMMA WordOfIs ==
  ASSUME NEW c \in DOMAIN Code
  PROVE  WordOf(c) % 256 = Code[c] /\ (Code[c] < 128 => WordOf(c) < 256)
<1>1. Code[c] \in 0 .. 255
  BY TextAssumption, Zenon
<1>2. \A m \in Nat : \A n \in 0 .. m : n \in Nat /\ n <= m
  OBVIOUS
<1>3. Code[c] \in Nat /\ Code[c] <= 255
  <2>1. 255 \in Nat
    OBVIOUS
  <2> QED
    BY <1>1, <1>2, <2>1, Zenon
<1> QED
  BY <1>3 DEF WordOf

LEMMA ExpandLiteral ==
  ASSUME TextInv, LiteralInv, parse_stringz
  PROVE  LiteralInv'
<1>1. /\ pc = "expand" /\ pc' = "done" /\ result' = "string"
      /\ UNCHANGED <<line, str, tokens, first>>
      /\ line \in Inputs /\ token1 \in Nat /\ token1 <= Len(line)
      /\ CString(token1) \in Seq(DOMAIN Code) /\ IsLiteralOf(CString(token1))
  BY DEF parse_stringz, TextInv, Types, LiteralInv
<1>2. PICK s \in Seq(DOMAIN Code) : s = CString(token1)
  BY <1>1
<1>3. PICK a \in 1 .. Len(Operand), b \in 1 .. Len(Operand) : IsLiteral(a, b) /\ Content(a, b) = s
  BY <1>1, <1>2 DEF IsLiteralOf
<1>4. Len(Operand) \in Nat
  BY <1>1, OperandIs
<1>5. ASSUME NEW x \in 1 .. Len(Operand), NEW y \in 1 .. Len(Operand), IsLiteral(x, y)
      PROVE  Content(x, y) = s
  <2>1. /\ Opens(Operand, a) /\ Closes(Operand, Escaped, a, b)
        /\ Opens(Operand, x) /\ Closes(Operand, Escaped, x, y)
    BY <1>3, <1>5, LiteralIs
  <2>2. b - 1 \in Nat /\ y - 1 \in Nat
    BY <1>4
  <2>3. Inside(Operand, Escaped, a, b - 1) /\ Inside(Operand, Escaped, x, y - 1)
    BY <2>1, Zenon DEF Closes
  <2>4. x = a /\ b - 1 < y
    BY <1>4, <2>1, <2>2, <2>3, LiteralIsBehind
  <2>5. y - 1 < b
    BY <1>4, <2>1, <2>2, <2>3, LiteralIsBehind
  <2>6. y = b
    BY <1>4, <2>4, <2>5
  <2> QED
    BY <1>3, <2>4, <2>6
<1>6. words' = Append([k \in DOMAIN s |-> WordOf(s[k])], 0)
  BY <1>2 DEF parse_stringz
<1>7. Len(s) \in Nat /\ DOMAIN s = 1 .. Len(s) /\ \A k \in 1 .. Len(s) : s[k] \in DOMAIN Code
  BY <1>2
<1> DEFINE w == [k \in DOMAIN s |-> WordOf(s[k])]
           W == {WordOf(c) : c \in DOMAIN Code}
<1>8. w \in Seq(W) /\ Len(w) = Len(s) /\ \A k \in 1 .. Len(s) : w[k] = WordOf(s[k])
  <2>1. w \in [1 .. Len(s) -> W]
    BY <1>7
  <2>2. w \in Seq(W)
    BY <1>7, <2>1, SeqDef
  <2>3. Len(w) = Len(s)
    BY <1>7, <2>1, <2>2, LenProperties
  <2> QED
    BY <1>7, <2>2, <2>3
<1> HIDE DEF w
<1>9. /\ Len(words') = Len(s) + 1 /\ words'[Len(s) + 1] = 0
      /\ \A k \in 1 .. Len(s) : words'[k] = WordOf(s[k])
  BY <1>6, <1>7, <1>8 DEF w
<1>10. /\ Len(words') = Len(s) + 1
       /\ words'[Len(words')] = 0
       /\ \A k \in DOMAIN s : /\ words'[k] % 256 = Code[s[k]]
                              /\ Code[s[k]] < 128 => words'[k] < 256
  BY <1>7, <1>9, WordOfIs
<1>11. token1' = token1
  BY <1>1 DEF token1
<1>12. /\ Operand' = Operand
       /\ \A x, y : (IsLiteral(x, y)' <=> IsLiteral(x, y)) /\ Content(x, y)' = Content(x, y)
  BY <1>1, <1>11, SameOperand
<1>13. \E x, y \in 1 .. Len(Operand') : IsLiteral(x, y)'
  BY <1>3, <1>12
<1>14. \A x, y \in 1 .. Len(Operand') : IsLiteral(x, y)' => Content(x, y)' = s
  BY <1>5, <1>12
<1>15. StringIsItsLiteral'
  BY <1>1, <1>10, <1>13, <1>14 DEF StringIsItsLiteral
<1> QED
  BY <1>1, <1>15 DEF LiteralInv

(* In front of the operand nothing is said of it. *)
LEMMA StartLiteral ==
  ASSUME TextInv, LiteralInv, TextInv',
         SplitToken \/ SplitStringz \/ SplitEnd \/ LabelLine \/ LineType
  PROVE  LiteralInv'
<1>1. /\ pc \in {"split", "type"} /\ UNCHANGED <<line, scanVars>>
      /\ pc' \in {"split", "undefined", "type", "done", "escapes"}
      /\ pc' = "escapes" => pc = "type"
      /\ pc' = "done" => result' \in {"blank", "label", "comment"}
  <2>1. \A p : compute_line_type(p) \in {"stringz", "comment", "label"}
    BY DEF compute_line_type
  <2>2. CASE SplitToken \/ SplitStringz \/ SplitEnd \/ LabelLine
    BY <2>2 DEF SplitToken, SplitStringz, SplitEnd, LabelLine, Store
  <2>3. CASE LineType
    BY <2>1, <2>3 DEF LineType
  <2> QED
    BY <2>2, <2>3
<1>2. ~second_quotation_mark_found' /\ second_quotation_mark_found' = second_quotation_mark_found
  BY <1>1 DEF LiteralInv, scanVars
<1>3. StringIsItsLiteral'
  BY <1>1 DEF StringIsItsLiteral
<1>4. ASSUME pc' = "escapes", token1' <= Len(line') PROVE Reading'
  <2>1. Fresh
    BY <1>1, <1>4 DEF TextInv, Typing
  <2>2. i' = 0 /\ ~first_quotation_mark_found' /\ ~escape_sequence_mode'
    BY <1>1, <2>1 DEF Fresh, scanVars
  <2>3. line' \in Seq(DOMAIN Code) /\ token1' \in Nat
    BY <1>4, TextAssumption DEF TextInv, Types, Escaping
  <2>4. Len(Operand') \in Nat
    BY <1>4, <2>3, RestOf DEF Operand
  <2>5. Escaped' = CHOOSE f : IsEscaped(f, Operand')
    BY DEF Escaped, IsEscaped
  <2>6. \A k \in 1 .. Len(Operand') :
          Escaped'[k] <=> k > 1 /\ Operand'[k - 1] = "backslash" /\ ~Escaped'[k - 1]
    BY <2>4, <2>5, EscapedChosen
  <2>7. 0 < Len(Operand') => ~Escaped'[0 + 1]
    <3>1. 0 < Len(Operand') => 1 \in 1 .. Len(Operand') /\ ~(1 > 1) /\ 0 + 1 = 1
      BY <2>4
    <3> QED
      BY <2>6, <3>1
  <2>8. i' <= Len(Operand') /\ \A k \in 1 .. i' : Operand'[k] = Blank
    BY <2>2, <2>4
  <2> QED
    BY <2>2, <2>7, <2>8 DEF Reading
<1> QED
  BY <1>1, <1>2, <1>3, <1>4 DEF LiteralInv

LEMMA LiteralInit ==
  ASSUME Init
  PROVE  LiteralInv
BY DEF Init, LiteralInv, StringIsItsLiteral

LEMMA LiteralStep ==
  ASSUME TextInv, LiteralInv, TextInv', [Next]_vars
  PROVE  LiteralInv'
<1>1. CASE UNCHANGED vars
  <2>1. UNCHANGED <<pc, line, str, scan, tokens, first, i, j, escape_sequence_mode,
                    first_quotation_mark_found, second_quotation_mark_found, result, words>>
    BY <1>1 DEF vars, scanVars
  <2>2. token1' = token1 /\ CString(token1)' = CString(token1) /\ Written' = Written
    BY <2>1 DEF token1, CString, Written
  <2>3. /\ Operand' = Operand /\ Escaped' = Escaped
        /\ \A a, b : (IsLiteral(a, b)' <=> IsLiteral(a, b)) /\ Content(a, b)' = Content(a, b)
        /\ HasLiteral' <=> HasLiteral
        /\ \A t : IsLiteralOf(t)' <=> IsLiteralOf(t)
    BY <2>1, <2>2, SameOperand
  <2>4. Reading' <=> Reading
    BY <2>1, <2>2, <2>3 DEF Reading
  <2>5. StringIsItsLiteral'
    <3>1. StringIsItsLiteral
      BY DEF LiteralInv
    <3> HIDE DEF LiteralInv
    <3> QED
      BY <2>1, <2>3, <3>1, SMTT(30) DEF StringIsItsLiteral
  <2>6. IsLiteralOf(Written)' <=> IsLiteralOf(Written)
    <3>1. PICK t : t = Written
      OBVIOUS
    <3>2. IsLiteralOf(t)' <=> IsLiteralOf(t)
      BY <2>3
    <3> QED
      BY <2>2, <3>1, <3>2
  <2>7. IsLiteralOf(CString(token1))' <=> IsLiteralOf(CString(token1))
    <3>1. PICK t : t = CString(token1)
      OBVIOUS
    <3>2. IsLiteralOf(t)' <=> IsLiteralOf(t)
      BY <2>3
    <3> QED
      BY <2>2, <3>1, <3>2
  <2> QED
    BY <2>1, <2>2, <2>3, <2>4, <2>5, <2>6, <2>7 DEF LiteralInv
<1> QED
  BY <1>1, StartLiteral, ScanLiteral, TerminateLiteral, ExpandLiteral DEF Next, Step, Terminating

(***************************************************************************)
(* An operand of any length is accepted exactly if it is a literal, and    *)
(* becomes the characters that it stands for (directives.c:100-246).       *)
(***************************************************************************)
THEOREM StringsAreLiterals == Spec => []StringIsItsLiteral
<1>1. LiteralInv => StringIsItsLiteral
  BY DEF LiteralInv
<1>2. Init => TextInv /\ LiteralInv
  BY TextInit, LiteralInit
<1>3. TextInv /\ LiteralInv /\ [Next]_vars => (TextInv /\ LiteralInv)'
  BY TextStep, LiteralStep
<1> QED
  BY <1>1, <1>2, <1>3, PTL DEF Spec
==============================================================================
