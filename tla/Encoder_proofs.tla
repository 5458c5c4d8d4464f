---------------------------- MODULE Encoder_proofs ----------------------------
(***************************************************************************)
(* Proofs about Encoder, for all lines and symbol tables: the parts of an  *)
(* instruction stay in their bits, offsets lead where the line says, the   *)
(* assertion of compute_opcode_type holds, Parser has the same outcomes,   *)
(* and what is accepted is what the formats of the operations say.         *)
(***************************************************************************)
EXTENDS EncoderProperties, TLAPS

(***************************************************************************)
(* The fields of a word that is added up from parts in their ranges.       *)
(***************************************************************************)
LEMMA SmallWord ==
  ASSUME NEW w \in Int, 0 <= w, w < 65536
  PROVE  w % 65536 = w
OBVIOUS

\* An operation, two registers, and six bits
TwoRegistersWord(a, b, c, d) == a * 4096 + b * 512 + c * 64 + d

TwoRegistersParts(w, a, b, c, d) ==
  /\ w % 65536 = w
  /\ (w \div 4096) % 16 = a
  /\ (w \div 512) % 8 = b
  /\ (w \div 64) % 8 = c
  /\ (w \div 32) % 2 = d \div 32
  /\ (w \div 1) % 64 = d
  /\ (w \div 1) % 32 = d % 32

LEMMA TwoRegisters ==
  ASSUME NEW a \in Nat, NEW b \in Nat, NEW c \in Nat, NEW d \in Nat,
         a < 16, b < 8, c < 8, d < 64
  PROVE  TwoRegistersParts(TwoRegistersWord(a, b, c, d), a, b, c, d)
<1>0. PICK w : w = a * 4096 + b * 512 + c * 64 + d
  OBVIOUS
<1>1. w % 65536 = w /\ (w \div 4096) % 16 = a
  <2>1. w \in Int /\ 0 <= w /\ w < 65536
    BY <1>0
  <2>2. w \div 4096 = a /\ a % 16 = a
    BY <1>0
  <2> QED BY <2>1, <2>2, SmallWord
<1>2. (w \div 512) % 8 = b
  <2>1. w \div 512 = a * 8 + b
    BY <1>0
  <2>2. (a * 8 + b) % 8 = b
    BY <1>0
  <2> QED BY <2>1, <2>2
<1>3. (w \div 64) % 8 = c
  <2>1. w \div 64 = (a * 64 + b * 8) + c
    BY <1>0
  <2>2. ((a * 64 + b * 8) + c) % 8 = c
    BY <1>0
  <2> QED BY <2>1, <2>2
<1>4. (w \div 32) % 2 = d \div 32
  <2>1. PICK q \in Int : q = a * 64 + b * 8 + c
    OBVIOUS
  <2>2. PICK e \in 0 .. 1 : e = d \div 32
    OBVIOUS
  <2>3. w \div 32 = 2 * q + e
    BY <1>0, <2>1, <2>2
  <2>4. (2 * q + e) % 2 = e
    OBVIOUS
  <2> QED BY <2>2, <2>3, <2>4
<1>5. (w \div 1) % 64 = d /\ (w \div 1) % 32 = d % 32
  <2>1. w \div 1 = w
    BY <1>0
  <2>2. w % 64 = d
    BY <1>0
  <2>3. w % 32 = d % 32
    BY <1>0
  <2> QED BY <2>1, <2>2, <2>3
<1> QED BY <1>0, <1>1, <1>2, <1>3, <1>4, <1>5 DEF TwoRegistersWord, TwoRegistersParts

\* An operation, one register or the condition codes, and nine bits
OneRegisterWord(a, b, d) == a * 4096 + b * 512 + d

OneRegisterParts(w, a, b, d) ==
  /\ w % 65536 = w
  /\ (w \div 4096) % 16 = a
  /\ (w \div 2048) % 2 = b \div 4
  /\ (w \div 1024) % 2 = (b \div 2) % 2
  /\ (w \div 512) % 8 = b
  /\ (w \div 512) % 2 = b % 2
  /\ (w \div 1) % 512 = d

LEMMA OneRegister ==
  ASSUME NEW a \in Nat, NEW b \in Nat, NEW d \in Nat, a < 16, b < 8, d < 512
  PROVE  OneRegisterParts(OneRegisterWord(a, b, d), a, b, d)
<1>0. PICK w : w = a * 4096 + b * 512 + d
  OBVIOUS
<1>1. w % 65536 = w /\ (w \div 4096) % 16 = a
  <2>1. w \in Int /\ 0 <= w /\ w < 65536
    BY <1>0
  <2>2. w \div 4096 = a /\ a % 16 = a
    BY <1>0
  <2> QED BY <2>1, <2>2, SmallWord
<1>2. /\ w \div 512 = a * 8 + b
      /\ (a * 8 + b) % 8 = b
      /\ (a * 8 + b) % 2 = b % 2
  BY <1>0
<1>3. (w \div 2048) % 2 = b \div 4
  <2>1. w \div 2048 = a * 2 + b \div 4
    BY <1>0
  <2>2. (a * 2 + b \div 4) % 2 = b \div 4
    BY <1>0
  <2> QED BY <2>1, <2>2
<1>4. (w \div 1024) % 2 = (b \div 2) % 2
  <2>1. w \div 1024 = a * 4 + b \div 2
    BY <1>0
  <2>2. (a * 4 + b \div 2) % 2 = (b \div 2) % 2
    BY <1>0
  <2> QED BY <2>1, <2>2
<1>5. (w \div 1) % 512 = d
  <2>1. w \div 1 = w
    BY <1>0
  <2>2. w % 512 = d
    BY <1>0
  <2> QED BY <2>1, <2>2
<1> QED BY <1>0, <1>1, <1>2, <1>3, <1>4, <1>5 DEF OneRegisterWord, OneRegisterParts

(* A JSR has an offset of eleven bits behind the bit that tells it from JSRR. *)
LEMMA LongOffset ==
  ASSUME NEW d \in Nat, d < 2048, NEW w, w = 4 * 4096 + 2048 + d
  PROVE  /\ w % 65536 = w
         /\ (w \div 4096) % 16 = 4
         /\ (w \div 2048) % 2 = 1
         /\ (w \div 1) % 2048 = d
<1>1. w \in Int /\ 0 <= w /\ w < 65536
  OBVIOUS
<1>2. w \div 4096 = 4 /\ w \div 2048 = 9 /\ w \div 1 = w /\ w % 2048 = d
  OBVIOUS
<1> QED BY <1>1, <1>2, SmallWord

LEMMA TrapVector ==
  ASSUME NEW d \in Nat, d < 256, NEW w, w = 15 * 4096 + d
  PROVE  w % 65536 = w /\ (w \div 256) % 256 = 240
<1>1. w \in Int /\ 0 <= w /\ w < 65536
  OBVIOUS
<1>2. w \div 256 = 240
  OBVIOUS
<1> QED BY <1>1, <1>2, SmallWord

(***************************************************************************)
(* What the helpers return when they do not reject their operand.          *)
(***************************************************************************)
LEMMA RegisterRange ==
  ASSUME NEW t
  PROVE  Register(t) \in -1 .. 7
<1>1. ASSUME NEW c, IsDigit(c, 8)
      PROVE  DigitValue(c) \in 0 .. 7
  <2>1. PICK d \in 1 .. 8 : Digits[d] = c
    BY <1>1 DEF IsDigit
  <2>2. \A e \in 1 .. 16 : Digits[e] = c => e = d
    BY <2>1 DEF Digits
  <2>3. DOMAIN Digits = 1 .. 16
    BY DEF Digits
  <2>4. (CHOOSE e \in DOMAIN Digits : Digits[e] = c) = d
    BY <2>1, <2>2, <2>3
  <2> QED BY <2>4 DEF DigitValue
<1> QED BY <1>1 DEF Register

LEMMA OffsetFieldValue ==
  ASSUME NEW v, NEW half \in {32, 256, 1024}, OffsetField(v, half).error = "none"
  PROVE  /\ OffsetField(v, half).word \in Nat /\ OffsetField(v, half).word < 2 * half
         /\ SignExtend(OffsetField(v, half).word, half) = v
<1>1. v \in -half .. half - 1
  BY DEF OffsetField, Rejected
<1>2. OffsetField(v, half).word = IF v < 0 THEN v + 2 * half ELSE v
  BY <1>1 DEF OffsetField, Parsed
<1> QED BY <1>1, <1>2 DEF SignExtend

\* The distance or the number an offset operand stands for
Meant(token) == IF NumericValue(token).ok THEN NumericValue(token).val
                                          ELSE lookup(token) - line.location - 1

LEMMA ParseOffsetValue ==
  ASSUME NEW token, NEW half \in {32, 256, 1024}, parse_offset(token, half).error = "none"
  PROVE  /\ parse_offset(token, half).word \in Nat
         /\ parse_offset(token, half).word < 2 * half
         /\ SignExtend(parse_offset(token, half).word, half) = Meant(token)
         /\ ~NumericValue(token).ok => lookup(token) # NULL
<1> DEFINE offset == NumberOrLabel(token, lookup(token) - line.location - 1)
<1>1. offset.ok
  BY DEF parse_offset, Rejected
<1>2. parse_offset(token, half) = OffsetField(offset.val, half)
  BY <1>1 DEF parse_offset
<1>3. offset.val = Meant(token) /\ (~NumericValue(token).ok => lookup(token) # NULL)
  BY <1>1 DEF NumberOrLabel, Meant
<1> HIDE DEF offset
<1> QED BY <1>2, <1>3, OffsetFieldValue

LEMMA Imm5Value ==
  ASSUME NEW token, Imm5(token).error = "none"
  PROVE  \E f \in 0 .. 31 : /\ Imm5(token).word = 32 + f
                            /\ SignExtend(f, 16) = NumericValue(token).val
<1> DEFINE imm5 == InRange(NumericValue(token), -16, 15)
           v    == NumericValue(token).val
<1>1. imm5.error = "none"
  BY DEF Imm5, Plus, Parsed, Rejected, InRange
<1>2. v \in -16 .. 15 /\ imm5 = Parsed(v)
  BY <1>1 DEF InRange, Rejected
<1>3. Imm5(token).word = 32 + IF v < 0 THEN v + 32 ELSE v
  BY <1>2 DEF Imm5, Plus, Parsed
<1> QED BY <1>2, <1>3 DEF SignExtend

(***************************************************************************)
(* A parse function that accepts has found its registers, and an outcome.  *)
(***************************************************************************)
LEMMA ParseAccepts ==
  ASSUME NEW ops, NEW n, NEW regs, NEW outcome, Parse(ops, n, regs, outcome)
  PROVE  /\ pc = "parse" /\ pc' = "done"
         /\ opcode \in ops
         /\ UNCHANGED line
         /\ result' = "none" =>
              /\ outcome.error = "none"
              /\ machine_instruction' = outcome.word % 65536
              /\ \A i \in regs : Reg(i) \in 0 .. 7
<1>1. /\ pc = "parse" /\ pc' = "done" /\ opcode \in ops /\ UNCHANGED line
      /\ result' = Checked(n, regs, outcome).error
      /\ result' = "none" => machine_instruction' = Checked(n, regs, outcome).word % 65536
  BY DEF Parse
<1>2. ASSUME result' = "none"
      PROVE  Checked(n, regs, outcome) = outcome /\ \A i \in regs : Register(operands[i]) # -1
  BY <1>1, <1>2 DEF Checked, Rejected
<1>3. ASSUME NEW i \in regs, Register(operands[i]) # -1
      PROVE  Reg(i) \in 0 .. 7
  BY <1>3, RegisterRange DEF Reg
<1> QED BY <1>1, <1>2, <1>3

LEMMA PlusValue ==
  ASSUME NEW bits, NEW o, Plus(bits, o).error = "none"
  PROVE  o.error = "none" /\ Plus(bits, o).word = bits + o.word
BY DEF Plus, Parsed

LEMMA HalvesAndOperands ==
  ASSUME NEW op
  PROVE  /\ op \in BaseOffsetOps => HalfOf(op) = 32 /\ LastOperand(op) = 3
         /\ op \in PCRelativeOps => HalfOf(op) = 256 /\ LastOperand(op) = 2
         /\ op \in BranchOps => HalfOf(op) = 256 /\ LastOperand(op) = 1
         /\ op = "JSR" => HalfOf(op) = 1024 /\ LastOperand(op) = 1
<1>1. CASE op \in BaseOffsetOps
  <2>1. op \notin PCRelativeOps /\ op \notin BranchOps /\ op # "JSR"
    BY <1>1 DEF BaseOffsetOps, PCRelativeOps, BranchOps
  <2> QED BY <1>1, <2>1, Zenon DEF HalfOf, LastOperand
<1>2. CASE op \notin BaseOffsetOps
  <2>1. op = "JSR" => op \notin PCRelativeOps /\ op \notin BranchOps
    BY DEF PCRelativeOps, BranchOps
  <2>2. op \in BranchOps => op \notin PCRelativeOps
    BY DEF PCRelativeOps, BranchOps
  <2>3. op \in PCRelativeOps \cup BranchOps => HalfOf(op) = 256
    BY <1>2, <2>1, Zenon DEF HalfOf
  <2>4. op = "JSR" => HalfOf(op) = 1024
    BY <1>2, Zenon DEF HalfOf
  <2>5. op \in PCRelativeOps => LastOperand(op) = 2
    BY <1>2, Zenon DEF LastOperand
  <2>6. op \notin PCRelativeOps => LastOperand(op) = 1
    BY <1>2, Zenon DEF LastOperand
  <2> QED BY <1>2, <2>1, <2>2, <2>3, <2>4, <2>5, <2>6
<1> QED BY <1>1, <1>2

LEMMA WordsAreIntegers ==
  ASSUME NEW w \in Word
  PROVE  w \in Int
BY DEF Word

(***************************************************************************)
(* An offset field that holds what the operand means leads where it names. *)
(***************************************************************************)
LEMMA MeantReaches ==
  ASSUME line \in Lines, NEW token, NEW offset, offset = Meant(token),
         ~NumericValue(token).ok => lookup(token) # NULL
  PROVE  IF NumericValue(token).ok THEN offset = NumericValue(token).val
                                   ELSE line.location + 1 + offset = lookup(token)
<1>1. CASE NumericValue(token).ok
  BY <1>1 DEF Meant
<1>2. CASE ~NumericValue(token).ok
  <2>1. lookup(token) \in Word /\ line.location \in Word
    BY <1>2, EncoderAssumption DEF lookup
  <2>2. lookup(token) \in Int /\ line.location \in Int
    BY <2>1, WordsAreIntegers
  <2>3. offset = lookup(token) - line.location - 1
    BY <1>2 DEF Meant
  <2> QED BY <1>2, <2>2, <2>3
<1> QED BY <1>1, <1>2

(***************************************************************************)
(* The properties, and what they need of the lines on their way.           *)
(***************************************************************************)
EncInv ==
  /\ line \in Lines
  /\ pc = "opcode" => mnemonic \in OpcodeLines
  /\ pc = "parse"  => opcode = mnemonic
  /\ pc \in {"line", "opcode", "parse", "done"}
  /\ FieldsInPlace
  /\ OffsetsReach

LEMMA NotStep ==
  ASSUME EncInv, parse_not
  PROVE  EncInv'
<1>1. /\ pc = "parse" /\ pc' = "done" /\ opcode = "NOT" /\ UNCHANGED line
      /\ result' = "none" =>
           /\ machine_instruction' = (9 * 4096 + Reg(1) * 512 + Reg(2) * 64 + 63) % 65536
           /\ Reg(1) \in 0 .. 7 /\ Reg(2) \in 0 .. 7
  BY ParseAccepts DEF parse_not, Parsed
<1>2. mnemonic = "NOT" /\ mnemonic' = "NOT" /\ operands' = operands
  BY <1>1 DEF EncInv, mnemonic, operands
<1>3. ASSUME result' = "none" PROVE NotFields'
  <2>1. PICK r \in 0 .. 7, s \in 0 .. 7 : r = Reg(1) /\ s = Reg(2)
    BY <1>1, <1>3
  <2>2. PICK w : w = TwoRegistersWord(9, r, s, 63)
    OBVIOUS
  <2>3. TwoRegistersParts(w, 9, r, s, 63)
    BY <2>2, TwoRegisters
  <2>4. machine_instruction' = w /\ Reg(1)' = r /\ Reg(2)' = s
    BY <1>1, <1>2, <1>3, <2>1, <2>2, <2>3 DEF Reg, TwoRegistersWord, TwoRegistersParts
  <2> QED BY <2>3, <2>4 DEF NotFields, Operation, RegisterFields, Field, TwoRegistersParts
<1> QED
  BY <1>1, <1>2, <1>3 DEF EncInv, FieldsInPlace, OffsetsReach, Encoded, OffsetOps, PCRelativeOps,
     BaseOffsetOps, BranchOps

LEMMA JsrStep ==
  ASSUME EncInv, parse_jsr
  PROVE  EncInv'
<1> DEFINE token  == operands[1]
           outcome == parse_offset(token, 1024)
<1>1. /\ pc = "parse" /\ pc' = "done" /\ opcode = "JSR" /\ UNCHANGED line
      /\ result' = "none" =>
           /\ Plus(4 * 4096 + 2048, outcome).error = "none"
           /\ machine_instruction' = Plus(4 * 4096 + 2048, outcome).word % 65536
  BY ParseAccepts DEF parse_jsr
<1>2. mnemonic = "JSR" /\ mnemonic' = "JSR" /\ operands' = operands
  BY <1>1 DEF EncInv, mnemonic, operands
<1>3. ASSUME result' = "none"
      PROVE  (Operation(4) /\ Field(2048, 2) = 1)' /\ Reaches("JSR")'
  <2>1. /\ outcome.error = "none"
        /\ Plus(4 * 4096 + 2048, outcome).word = 4 * 4096 + 2048 + outcome.word
    BY <1>1, <1>3, PlusValue
  <2>2. /\ outcome.word \in Nat /\ outcome.word < 2048
        /\ SignExtend(outcome.word, 1024) = Meant(token)
        /\ ~NumericValue(token).ok => lookup(token) # NULL
    BY <2>1, ParseOffsetValue
  <2>3. PICK d \in Nat : d = outcome.word /\ d < 2048
    BY <2>2
  <2>4. PICK w : w = 4 * 4096 + 2048 + d
    OBVIOUS
  <2>5. /\ w % 65536 = w
        /\ (w \div 4096) % 16 = 4
        /\ (w \div 2048) % 2 = 1
        /\ (w \div 1) % 2048 = d
    BY <2>3, <2>4, LongOffset
  <2>6. machine_instruction' = w
    BY <1>1, <1>3, <2>1, <2>3, <2>4, <2>5
  <2>7. (Operation(4) /\ Field(2048, 2) = 1)'
    BY <2>5, <2>6 DEF Operation, Field
  <2>8. Offset("JSR")' = Meant(token)
    BY <2>2, <2>3, <2>5, <2>6, HalvesAndOperands DEF Offset, Field
  <2>9. Reaches("JSR")'
    BY <1>1, <1>2, <2>2, <2>8, MeantReaches, HalvesAndOperands DEF Reaches, EncInv
  <2> QED BY <2>7, <2>9
<1> QED
  BY <1>1, <1>2, <1>3 DEF EncInv, FieldsInPlace, OffsetsReach, Encoded, OffsetOps, PCRelativeOps,
     BaseOffsetOps, BranchOps

\* The operand of op is an offset, and the word is it and bits.
WithOffset(bits, op) ==
  LET o == Plus(bits, parse_offset(operands[LastOperand(op)], HalfOf(op)))
  IN  o.error = "none" /\ machine_instruction' = o.word % 65536

(***************************************************************************)
(* An operation a with three bits b and an offset of nine bits.            *)
(***************************************************************************)
LEMMA NineBitOffset ==
  ASSUME line \in Lines, line' = line,
         NEW op \in BranchOps \cup PCRelativeOps,
         NEW a \in Nat, NEW b \in Nat, a < 16, b < 8,
         NEW bits, bits = a * 4096 + b * 512, WithOffset(bits, op)
  PROVE  /\ Operation(a)'
         /\ Field(2048, 2)' = b \div 4
         /\ Field(1024, 2)' = (b \div 2) % 2
         /\ Field(512, 2)' = b % 2
         /\ Field(512, 8)' = b
         /\ Reaches(op)'
<1> DEFINE token  == operands[LastOperand(op)]
           outcome == parse_offset(token, 256)
<1>1. HalfOf(op) = 256
  BY HalvesAndOperands
<1>2. outcome.error = "none" /\ machine_instruction' = (bits + outcome.word) % 65536
  BY <1>1, PlusValue DEF WithOffset
<1>3. /\ outcome.word \in Nat /\ outcome.word < 512
      /\ SignExtend(outcome.word, 256) = Meant(token)
      /\ ~NumericValue(token).ok => lookup(token) # NULL
  BY <1>2, ParseOffsetValue
<1>4. PICK d \in Nat : d = outcome.word /\ d < 512
  BY <1>3
<1> HIDE DEF outcome
<1>5. d < 512 /\ a < 16 /\ b < 8
  BY <1>4
<1>6. OneRegisterParts(OneRegisterWord(a, b, d), a, b, d)
  BY <1>5, OneRegister
<1>7. PICK w : w = OneRegisterWord(a, b, d)
  OBVIOUS
<1>8. OneRegisterParts(w, a, b, d)
  BY <1>6, <1>7
<1>9. machine_instruction' = w
  BY <1>2, <1>4, <1>7, <1>8 DEF OneRegisterWord, OneRegisterParts
<1>10. Offset(op)' = Meant(token)
  BY <1>1, <1>3, <1>4, <1>8, <1>9 DEF Offset, Field, OneRegisterParts
<1>11. Reaches(op)'
  BY <1>3, <1>10, MeantReaches DEF Reaches, operands
<1> QED BY <1>8, <1>9, <1>11 DEF Operation, Field, OneRegisterParts

LEMMA BranchStep ==
  ASSUME EncInv, parse_br
  PROVE  EncInv'
<1> DEFINE bits == ConditionCodes[opcode] * 512
<1>1. /\ pc = "parse" /\ pc' = "done" /\ opcode \in BranchOps /\ UNCHANGED line
      /\ result' = "none" => WithOffset(bits, opcode)
  <2>1. DOMAIN ConditionCodes = BranchOps
    BY DEF ConditionCodes, BranchOps
  <2>2. opcode \in BranchOps => LastOperand(opcode) = 1 /\ HalfOf(opcode) = 256
    BY HalvesAndOperands
  <2> QED BY <2>1, <2>2, ParseAccepts DEF parse_br, WithOffset
<1>2. mnemonic = opcode /\ mnemonic' = mnemonic
  BY <1>1 DEF EncInv, mnemonic
<1>3. PICK b \in Nat : b = ConditionCodes[opcode] /\ b < 8
  BY <1>1 DEF ConditionCodes, BranchOps
<1>4. ASSUME result' = "none"
      PROVE  BranchFields' /\ Reaches(mnemonic)'
  <2>1. bits = 0 * 4096 + b * 512
    BY <1>3
  <2> HIDE DEF bits
  <2>2. /\ Operation(0)'
        /\ Field(2048, 2)' = b \div 4
        /\ Field(1024, 2)' = (b \div 2) % 2
        /\ Field(512, 2)' = b % 2
        /\ Reaches(mnemonic)'
    BY <1>1, <1>2, <1>3, <1>4, <2>1, NineBitOffset DEF EncInv
  <2>3. b \in {4, 5, 6, 7} <=> mnemonic \in {"BR", "BRnzp", "BRn", "BRnz", "BRnp"}
    BY <1>1, <1>2, <1>3 DEF ConditionCodes, BranchOps
  <2>4. b \in {2, 3, 6, 7} <=> mnemonic \in {"BR", "BRnzp", "BRz", "BRnz", "BRzp"}
    BY <1>1, <1>2, <1>3 DEF ConditionCodes, BranchOps
  <2>5. b \in {1, 3, 5, 7} <=> mnemonic \in {"BR", "BRnzp", "BRp", "BRnp", "BRzp"}
    BY <1>1, <1>2, <1>3 DEF ConditionCodes, BranchOps
  <2>6. /\ b \div 4 = 1 <=> b \in {4, 5, 6, 7}
        /\ (b \div 2) % 2 = 1 <=> b \in {2, 3, 6, 7}
        /\ b % 2 = 1 <=> b \in {1, 3, 5, 7}
    BY <1>3
  <2>7. BranchFields'
    BY <1>2, <2>2, <2>3, <2>4, <2>5, <2>6 DEF BranchFields
  <2> QED BY <2>2, <2>7
<1> QED
  BY <1>1, <1>2, <1>4 DEF EncInv, FieldsInPlace, OffsetsReach, Encoded, OffsetOps, PCRelativeOps,
     BaseOffsetOps, BranchOps

LEMMA PCRelativeStep ==
  ASSUME EncInv, parse_pc_relative_addressing_mode
  PROVE  EncInv'
<1> DEFINE bits == PCRelative[opcode] * 4096 + Reg(1) * 512
<1>1. /\ pc = "parse" /\ pc' = "done" /\ opcode \in PCRelativeOps /\ UNCHANGED line
      /\ result' = "none" => WithOffset(bits, opcode) /\ Reg(1) \in 0 .. 7
  <2>1. DOMAIN PCRelative = PCRelativeOps
    BY DEF PCRelative, PCRelativeOps
  <2>2. opcode \in PCRelativeOps => LastOperand(opcode) = 2 /\ HalfOf(opcode) = 256
    BY HalvesAndOperands
  <2> QED BY <2>1, <2>2, ParseAccepts DEF parse_pc_relative_addressing_mode, WithOffset
<1>2. mnemonic = opcode /\ mnemonic' = mnemonic /\ operands' = operands
  BY <1>1 DEF EncInv, mnemonic, operands
<1>3. PICK a \in Nat : a = PCRelative[opcode] /\ a < 16
  BY <1>1 DEF PCRelative, PCRelativeOps
<1>4. ASSUME result' = "none"
      PROVE  PCRelativeFields' /\ Reaches(mnemonic)'
  <2>1. PICK r \in Nat : r = Reg(1) /\ r < 8
    BY <1>1, <1>4
  <2>2. bits = a * 4096 + r * 512
    BY <1>3, <2>1
  <2> HIDE DEF bits
  <2>3. Operation(a)' /\ Field(512, 8)' = r /\ Reaches(mnemonic)'
    BY <1>1, <1>2, <1>3, <1>4, <2>1, <2>2, NineBitOffset DEF EncInv
  <2>4. a = PCRelativeCode'
    BY <1>1, <1>2, <1>3 DEF PCRelativeCode, PCRelative, PCRelativeOps
  <2>5. PCRelativeFields'
    BY <1>2, <2>1, <2>3, <2>4 DEF PCRelativeFields, Reg
  <2> QED BY <2>3, <2>5
<1> QED
  BY <1>1, <1>2, <1>4 DEF EncInv, FieldsInPlace, OffsetsReach, Encoded, OffsetOps, PCRelativeOps,
     BaseOffsetOps, BranchOps

LEMMA JumpStep ==
  ASSUME EncInv, parse_jump_instruction
  PROVE  EncInv'
<1> DEFINE a == IF opcode = "JSRR" THEN 4 ELSE 12
           d == IF opcode = "JMPT" THEN 1 ELSE 0
<1>1. /\ pc = "parse" /\ pc' = "done" /\ opcode \in {"JMP", "JMPT", "JSRR"} /\ UNCHANGED line
      /\ result' = "none" => /\ machine_instruction' = (a * 4096 + Reg(1) * 64 + d) % 65536
                             /\ Reg(1) \in 0 .. 7
  BY ParseAccepts DEF parse_jump_instruction, Parsed
<1>2. mnemonic = opcode /\ mnemonic' = mnemonic /\ operands' = operands
  BY <1>1 DEF EncInv, mnemonic, operands
<1>3. ASSUME result' = "none" PROVE JumpFields'
  <2>1. PICK r \in 0 .. 7 : r = Reg(1)
    BY <1>1, <1>3
  <2>2. PICK w : w = TwoRegistersWord(a, 0, r, d)
    OBVIOUS
  <2>3. TwoRegistersParts(w, a, 0, r, d)
    BY <2>2, TwoRegisters
  <2>4. machine_instruction' = w /\ Reg(1)' = r
    BY <1>1, <1>2, <1>3, <2>1, <2>2, <2>3 DEF Reg, TwoRegistersWord, TwoRegistersParts
  <2> QED
    BY <1>2, <2>3, <2>4 DEF JumpFields, Operation, RegisterFields, Field, TwoRegistersParts
<1> QED
  BY <1>1, <1>2, <1>3 DEF EncInv, FieldsInPlace, OffsetsReach, Encoded, OffsetOps, PCRelativeOps,
     BaseOffsetOps, BranchOps

LEMMA AddAndStep ==
  ASSUME EncInv, parse_add_and
  PROVE  EncInv'
<1> DEFINE a    == IF opcode = "ADD" THEN 1 ELSE 5
           last == IF Reg(3) > -1 THEN Parsed(Reg(3)) ELSE Imm5(operands[3])
           bits == a * 4096 + Reg(1) * 512 + Reg(2) * 64
<1>1. /\ pc = "parse" /\ pc' = "done" /\ opcode \in {"ADD", "AND"} /\ UNCHANGED line
      /\ result' = "none" => /\ last.error = "none"
                             /\ machine_instruction' = (bits + last.word) % 65536
                             /\ Reg(1) \in 0 .. 7 /\ Reg(2) \in 0 .. 7
  <2> HIDE DEF last
  <2>1. parse_add_and <=> Parse({"ADD", "AND"}, 3, {1, 2}, Plus(bits, last))
    BY DEF parse_add_and, last
  <2> QED BY <2>1, ParseAccepts, PlusValue
<1>2. mnemonic = opcode /\ mnemonic' = mnemonic /\ operands' = operands
  BY <1>1 DEF EncInv, mnemonic, operands
<1>3. ASSUME result' = "none"
      PROVE  /\ OperateFields'
             /\ (Reg(3) = -1 => SignExtend(Field(1, 32), 16) = NumericValue(operands[3]).val)'
  <2>1. PICK r \in 0 .. 7, s \in 0 .. 7 : r = Reg(1) /\ s = Reg(2)
    BY <1>1, <1>3
  <2>2. Reg(3) \in -1 .. 7
    BY RegisterRange DEF Reg
  <2>3. PICK d \in Nat : /\ d < 64 /\ d = last.word
                         /\ d \div 32 = IF Reg(3) = -1 THEN 1 ELSE 0
                         /\ Reg(3) # -1 => d % 32 = Reg(3)
                         /\ Reg(3) = -1 =>
                              SignExtend(d % 32, 16) = NumericValue(operands[3]).val
    <3>1. CASE Reg(3) = -1
      BY <1>1, <1>3, <3>1, Imm5Value
    <3>2. CASE Reg(3) # -1
      BY <2>2, <3>2 DEF Parsed
    <3> QED BY <3>1, <3>2
  <2>4. PICK w : w = TwoRegistersWord(a, r, s, d)
    OBVIOUS
  <2>5. TwoRegistersParts(w, a, r, s, d)
    BY <2>3, <2>4, TwoRegisters
  <2>6. /\ machine_instruction' = w
        /\ Reg(1)' = r /\ Reg(2)' = s /\ Reg(3)' = Reg(3)
    <3> HIDE DEF last
    <3> QED BY <1>1, <1>2, <1>3, <2>1, <2>3, <2>4, <2>5
            DEF Reg, TwoRegistersWord, TwoRegistersParts
  <2>7. OperateFields'
    BY <1>2, <2>3, <2>5, <2>6
    DEF OperateFields, Operation, RegisterFields, Field, TwoRegistersParts
  <2>8. (Reg(3) = -1 => SignExtend(Field(1, 32), 16) = NumericValue(operands[3]).val)'
    BY <1>2, <2>3, <2>5, <2>6 DEF Field, TwoRegistersParts
  <2> QED BY <2>7, <2>8
<1> QED
  BY <1>1, <1>2, <1>3 DEF EncInv, FieldsInPlace, OffsetsReach, Encoded, OffsetOps, PCRelativeOps,
     BaseOffsetOps, BranchOps

LEMMA BaseOffsetStep ==
  ASSUME EncInv, parse_base_plus_offset_addressing_mode
  PROVE  EncInv'
<1> DEFINE token   == operands[3]
           outcome == parse_offset(token, 32)
           bits    == BaseOffset[opcode] * 4096 + Reg(1) * 512 + Reg(2) * 64
<1>1. /\ pc = "parse" /\ pc' = "done" /\ opcode \in BaseOffsetOps /\ UNCHANGED line
      /\ result' = "none" => /\ outcome.error = "none"
                             /\ machine_instruction' = (bits + outcome.word) % 65536
                             /\ Reg(1) \in 0 .. 7 /\ Reg(2) \in 0 .. 7
  <2>1. DOMAIN BaseOffset = BaseOffsetOps
    BY DEF BaseOffset, BaseOffsetOps
  <2> QED
    BY <2>1, ParseAccepts, PlusValue DEF parse_base_plus_offset_addressing_mode
<1>2. mnemonic = opcode /\ mnemonic' = mnemonic /\ operands' = operands
  BY <1>1 DEF EncInv, mnemonic, operands
<1>3. PICK a \in Nat : a = (IF mnemonic = "LDR" THEN 6 ELSE 7) /\ a = BaseOffset[opcode] /\ a < 16
  BY <1>1, <1>2 DEF BaseOffset, BaseOffsetOps
<1>4. ASSUME result' = "none"
      PROVE  BaseOffsetFields' /\ Reaches(mnemonic)'
  <2>1. PICK r \in 0 .. 7, s \in 0 .. 7 : r = Reg(1) /\ s = Reg(2)
    BY <1>1, <1>4
  <2>2. /\ outcome.word \in Nat /\ outcome.word < 64
        /\ SignExtend(outcome.word, 32) = Meant(token)
        /\ ~NumericValue(token).ok => lookup(token) # NULL
    BY <1>1, <1>4, ParseOffsetValue
  <2>3. PICK d \in Nat : d = outcome.word /\ d < 64
    BY <2>2
  <2> HIDE DEF outcome
  <2>4. PICK w : w = TwoRegistersWord(a, r, s, d)
    OBVIOUS
  <2>5. TwoRegistersParts(w, a, r, s, d)
    BY <1>3, <2>3, <2>4, TwoRegisters
  <2>6. machine_instruction' = w /\ Reg(1)' = r /\ Reg(2)' = s
    BY <1>1, <1>2, <1>3, <1>4, <2>1, <2>3, <2>4, <2>5
    DEF Reg, TwoRegistersWord, TwoRegistersParts
  <2>7. BaseOffsetFields'
    BY <1>2, <1>3, <2>5, <2>6
    DEF BaseOffsetFields, Operation, RegisterFields, Field, TwoRegistersParts
  <2>8. HalfOf(mnemonic) = 32 /\ LastOperand(mnemonic) = 3
    BY <1>1, <1>2, HalvesAndOperands
  <2>9. Offset(mnemonic)' = Meant(token)
    BY <1>2, <2>2, <2>3, <2>5, <2>6, <2>8 DEF Offset, Field, TwoRegistersParts
  <2>10. Reaches(mnemonic)'
    BY <1>1, <1>2, <2>2, <2>8, <2>9, MeantReaches DEF Reaches, EncInv
  <2> QED BY <2>7, <2>10
<1> QED
  BY <1>1, <1>2, <1>4 DEF EncInv, FieldsInPlace, OffsetsReach, Encoded, OffsetOps, PCRelativeOps,
     BaseOffsetOps, BranchOps

LEMMA TrapStep ==
  ASSUME EncInv, parse_trap
  PROVE  EncInv'
<1> DEFINE outcome == InRange(NumericValue(operands[1]), 0, 255)
<1>1. /\ pc = "parse" /\ pc' = "done" /\ opcode = "TRAP" /\ UNCHANGED line
      /\ result' = "none" => /\ outcome.error = "none"
                             /\ machine_instruction' = (15 * 4096 + outcome.word) % 65536
  BY ParseAccepts, PlusValue DEF parse_trap
<1>2. mnemonic' = "TRAP"
  BY <1>1 DEF EncInv, mnemonic
<1>3. ASSUME result' = "none" PROVE (Field(256, 256) = 240)'
  <2>1. PICK d \in Nat : d = outcome.word /\ d < 256
    BY <1>1, <1>3 DEF InRange, Parsed, Rejected
  <2>2. PICK w : w = 15 * 4096 + d
    OBVIOUS
  <2>3. w % 65536 = w /\ (w \div 256) % 256 = 240
    BY <2>1, <2>2, TrapVector
  <2> QED BY <1>1, <1>3, <2>1, <2>2, <2>3 DEF Field
<1> QED
  BY <1>1, <1>2, <1>3 DEF EncInv, FieldsInPlace, OffsetsReach, Encoded, OffsetOps, PCRelativeOps,
     BaseOffsetOps, BranchOps

LEMMA FixedStep ==
  ASSUME EncInv, parse_fixed
  PROVE  EncInv'
<1> DEFINE fixed == {"RET", "RTT", "RTI", "GETC", "OUT", "PUTS", "IN", "PUTSP", "HALT"}
<1>1. /\ pc = "parse" /\ pc' = "done" /\ opcode \in fixed /\ UNCHANGED line
      /\ result' = "none" => machine_instruction' = FixedWord(opcode) % 65536
  BY ParseAccepts DEF parse_fixed, Parsed
<1>2. mnemonic' = opcode
  BY <1>1 DEF EncInv, mnemonic
<1>3. ASSUME result' = "none" PROVE (mnemonic \in {"RET", "RTT"} => ReturnFields)'
  <2>1. CASE opcode = "RET"
    <3>1. machine_instruction' = 49600
      BY <1>1, <1>3, <2>1 DEF FixedWord
    <3> QED BY <1>2, <2>1, <3>1 DEF ReturnFields, Operation, RegisterFields, Field
  <2>2. CASE opcode = "RTT"
    <3>1. machine_instruction' = 49601
      BY <1>1, <1>3, <2>2 DEF FixedWord
    <3> QED BY <1>2, <2>2, <3>1 DEF ReturnFields, Operation, RegisterFields, Field
  <2> QED BY <1>2, <2>1, <2>2
<1>4. ASSUME result' = "none", opcode \in {"GETC", "OUT", "PUTS", "IN", "PUTSP", "HALT"}
      PROVE  (Field(256, 256) = 240)'
  <2>1. FixedWord(opcode) \in 61472 .. 61477
    BY <1>4 DEF FixedWord
  <2> QED BY <1>1, <1>4, <2>1 DEF Field
<1> QED
  BY <1>1, <1>2, <1>3, <1>4 DEF EncInv, FieldsInPlace, OffsetsReach, Encoded, OffsetOps,
     PCRelativeOps, BaseOffsetOps, BranchOps

(***************************************************************************)
(* The other steps, none of which ends with the word of an instruction.    *)
(***************************************************************************)
LEMMA DirectiveStep ==
  ASSUME EncInv, parse_fill \/ parse_address
  PROVE  EncInv'
<1>1. /\ pc = "parse" /\ pc' = "done" /\ opcode \in Directives /\ UNCHANGED line
  BY DEF parse_fill, parse_address, Parse, Directives
<1>2. mnemonic' \in Directives
  BY <1>1 DEF EncInv, mnemonic
<1> QED
  BY <1>1, <1>2 DEF EncInv, FieldsInPlace, OffsetsReach, Encoded, OffsetOps, PCRelativeOps,
     BaseOffsetOps, BranchOps, Directives

LEMMA ClassifyStep ==
  ASSUME EncInv, LineType \/ OpcodeType
  PROVE  EncInv'
<1>1. OpcodeLines = OpcodeTypes
  BY DEF OpcodeLines, OpcodeTypes
<1>2. CASE LineType
  <2>1. /\ UNCHANGED line
        /\ pc' = "opcode" => mnemonic \in OpcodeLines
        /\ pc' = "parse" => opcode' = mnemonic
        /\ pc' = "done" => result' = "label"
        /\ pc' \in {"opcode", "parse", "done"}
    BY <1>2, Zenon DEF LineType
  <2> QED BY <2>1 DEF EncInv, mnemonic, FieldsInPlace, OffsetsReach, Encoded
<1>3. CASE OpcodeType
  <2>1. UNCHANGED line /\ pc' = "parse" /\ opcode' = mnemonic
    BY <1>1, <1>3 DEF EncInv, OpcodeType
  <2> QED BY <2>1 DEF EncInv, mnemonic, FieldsInPlace, OffsetsReach, Encoded
<1> QED BY <1>2, <1>3

LEMMA InitInv ==
  ASSUME Init
  PROVE  EncInv
BY DEF Init, EncInv, FieldsInPlace, OffsetsReach, Encoded

LEMMA NextInv ==
  ASSUME EncInv, [Next]_vars
  PROVE  EncInv'
<1>1. CASE UNCHANGED vars
  <2>1. UNCHANGED <<pc, line, opcode, result, machine_instruction>>
    BY <1>1 DEF vars
  <2>2. UNCHANGED <<mnemonic, operands>>
    BY <2>1 DEF mnemonic, operands
  <2>3. \A weight, size : Field(weight, size)' = Field(weight, size)
    BY <2>1 DEF Field
  <2>4. \A i : Reg(i)' = Reg(i)
    BY <2>2 DEF Reg
  <2>5. \A ops : Encoded(ops)' <=> Encoded(ops)
    BY <2>1, <2>2 DEF Encoded
  <2>6. FieldsInPlace'
    <3>1. OperateFields => OperateFields'
      BY <2>2, <2>3, <2>4 DEF OperateFields, Operation, RegisterFields
    <3>2. NotFields => NotFields'
      BY <2>3, <2>4 DEF NotFields, Operation, RegisterFields
    <3>3. JumpFields => JumpFields'
      BY <2>2, <2>3, <2>4 DEF JumpFields, Operation, RegisterFields
    <3>4. BranchFields => BranchFields'
      BY <2>2, <2>3 DEF BranchFields, Operation
    <3>5. PCRelativeFields => PCRelativeFields'
      <4>1. PCRelativeCode' = PCRelativeCode
        BY <2>2, Zenon DEF PCRelativeCode
      <4> QED BY <2>3, <2>4, <4>1 DEF PCRelativeFields, Operation
    <3>6. BaseOffsetFields => BaseOffsetFields'
      BY <2>2, <2>3, <2>4 DEF BaseOffsetFields, Operation, RegisterFields
    <3>7. ReturnFields => ReturnFields'
      BY <2>2, <2>3 DEF ReturnFields, Operation, RegisterFields
    <3>8. Operation(4) /\ Field(2048, 2) = 1 => (Operation(4) /\ Field(2048, 2) = 1)'
      BY <2>3 DEF Operation
    <3> QED BY <2>3, <2>5, <3>1, <3>2, <3>3, <3>4, <3>5, <3>6, <3>7, <3>8 DEF EncInv, FieldsInPlace
  <2>7. OffsetsReach'
    <3>1. \A op : Reaches(op) => Reaches(op)'
      BY <2>1, <2>2, <2>3, Zenon DEF Reaches, Offset, lookup
    <3>2. (Reg(3) = -1)' <=> Reg(3) = -1
      BY <2>4
    <3>3. (SignExtend(Field(1, 32), 16) = NumericValue(operands[3]).val)' <=>
          SignExtend(Field(1, 32), 16) = NumericValue(operands[3]).val
      BY <2>2, <2>3
    <3> QED BY <2>5, <3>1, <3>2, <3>3 DEF EncInv, OffsetsReach
  <2> QED BY <2>1, <2>2, <2>6, <2>7 DEF EncInv
<1> QED
  BY <1>1, ClassifyStep, DirectiveStep, AddAndStep, NotStep, JumpStep, JsrStep, BranchStep,
     PCRelativeStep, BaseOffsetStep, TrapStep, FixedStep DEF Next, Terminating

THEOREM EncoderInvariant == Spec => []EncInv
BY InitInv, NextInv, PTL DEF Spec

(***************************************************************************)
(* The parts of an accepted instruction stay in their bits.                *)
(***************************************************************************)
THEOREM FieldsStayInPlace == Spec => []FieldsInPlace
<1>1. EncInv => FieldsInPlace
  BY DEF EncInv
<1> QED BY <1>1, EncoderInvariant, PTL

(***************************************************************************)
(* The offset the machine extends leads where the operand says.            *)
(***************************************************************************)
THEOREM OffsetsAlwaysReach == Spec => []OffsetsReach
<1>1. EncInv => OffsetsReach
  BY DEF EncInv
<1> QED BY <1>1, EncoderInvariant, PTL

(***************************************************************************)
(* The lists of the two type functions agree: the assertion holds.         *)
(***************************************************************************)
THEOREM AssertionHolds == Spec => []NoAssertionFails
<1>1. EncInv => NoAssertionFails
  BY DEF EncInv, NoAssertionFails
<1> QED BY <1>1, EncoderInvariant, PTL

(***************************************************************************)
(* The outcome of every line, its errors included.  First the low bits of  *)
(* a word with d in a field behind other bits.                             *)
(***************************************************************************)
LowPart(q, size, d) == ((q * size + d) % 65536) % size

LEMMA LowBits ==
  ASSUME NEW q \in Int, NEW d \in Nat, NEW size \in {64, 512, 2048}, d < size
  PROVE  LowPart(q, size, d) = d
<1>1. d < 64 => LowPart(q, 64, d) = d
  BY DEF LowPart
<1>2. d < 512 => LowPart(q, 512, d) = d
  BY DEF LowPart
<1>3. d < 2048 => LowPart(q, 2048, d) = d
  BY DEF LowPart
<1> QED BY <1>1, <1>2, <1>3

\* The outcomes of parse_fill and, for the third operand, of parse_add_and
FillOutcome ==
  LET value == NumberOrLabel(operands[1], lookup(operands[1]) - 1 + line.origin)
  IN  IF ~value.ok THEN Rejected("symbol_not_found") ELSE InRange(value, -32768, 65535)

Last == IF Reg(3) > -1 THEN Parsed(Reg(3)) ELSE InRange(NumericValue(operands[3]), -16, 15)

LEMMA LineKept ==
  ASSUME line' = line
  PROVE  /\ mnemonic' = mnemonic
         /\ operands' = operands
         /\ \A i : Reg(i)' = Reg(i)
         /\ \A i : NumericValue(operands[i])' = NumericValue(operands[i])
         /\ \A i, half : parse_offset(operands[i], half)' = parse_offset(operands[i], half)
         /\ FillOutcome' = FillOutcome
         /\ Last' = Last
         /\ \A n, regs, o : Checked(n, regs, o)' = Checked(n, regs, o)
<1>1. mnemonic' = mnemonic /\ operands' = operands
  BY DEF mnemonic, operands
<1>2. \A i : Reg(i)' = Reg(i)
  BY <1>1 DEF Reg
<1>3. \A i : NumericValue(operands[i])' = NumericValue(operands[i])
  BY <1>1
<1>4. \A i, half : parse_offset(operands[i], half)' = parse_offset(operands[i], half)
  BY <1>1 DEF parse_offset, NumberOrLabel, lookup
<1>5. FillOutcome' = FillOutcome
  BY <1>1 DEF FillOutcome, NumberOrLabel, lookup
<1>6. Last' = Last
  BY <1>1, <1>2 DEF Last
<1>7. \A n, regs, o : Checked(n, regs, o)' = Checked(n, regs, o)
  BY <1>1 DEF Checked
<1> QED BY <1>1, <1>2, <1>3, <1>4, <1>5, <1>6, <1>7

(***************************************************************************)
(* How a line ends, by its mnemonic: with the outcome o behind the checks  *)
(* of its operands; and the low bits of an accepted word.                  *)
(***************************************************************************)
EndsWith(ops, n, regs, o) == mnemonic \in ops => result = Checked(n, regs, o).error

OffsetOutcome(op) == parse_offset(operands[LastOperand(op)], HalfOf(op))

JumpOps  == {"JMP", "JMPT", "JSRR"}
FixedOps == {"RET", "RTT", "RTI", "GETC", "OUT", "PUTS", "IN", "PUTSP", "HALT"}

OtherOutcomes ==
  /\ EndsWith({".FILL"}, 1, {}, FillOutcome)
  /\ EndsWith({".ORIG", ".BLKW"}, 1, {}, InRange(NumericValue(operands[1]), 0, 65535))
  /\ EndsWith({"ADD", "AND"}, 3, {1, 2}, Last)
  /\ EndsWith({"NOT"}, 2, {1, 2}, Parsed(0))
  /\ EndsWith(JumpOps, 1, {1}, Parsed(0))
  /\ EndsWith({"TRAP"}, 1, {}, InRange(NumericValue(operands[1]), 0, 255))
  /\ EndsWith(FixedOps, 0, {}, Parsed(0))
  /\ mnemonic \notin OpcodeLines \cup Directives => result = "label"

OffsetOutcomes ==
  \A op \in OffsetOps :
    /\ EndsWith({op}, LastOperand(op), 1 .. LastOperand(op) - 1, OffsetOutcome(op))
    /\ mnemonic = op /\ result = "none" =>
         machine_instruction % (2 * HalfOf(op)) = OffsetOutcome(op).word

FillWords ==
  mnemonic = ".FILL" /\ result = "none" => machine_instruction = FillOutcome.word % 65536

OutcomeInv == pc = "done" => OtherOutcomes /\ OffsetOutcomes /\ FillWords

LEMMA PlusError ==
  ASSUME NEW bits, NEW o
  PROVE  Plus(bits, o).error = o.error
BY DEF Plus, Parsed

LEMMA ParseEnds ==
  ASSUME EncInv, NEW ops, NEW n, NEW regs, NEW outcome, Parse(ops, n, regs, outcome),
         NEW o, o.error = outcome.error
  PROVE  /\ pc' = "done" /\ line' = line
         /\ opcode = mnemonic /\ mnemonic' = mnemonic /\ mnemonic \in ops
         /\ result' = Checked(n, regs, o).error
         /\ result' = "none" => /\ outcome.error = "none"
                                /\ machine_instruction' = outcome.word % 65536
<1>1. /\ pc = "parse" /\ pc' = "done" /\ opcode \in ops /\ line' = line
      /\ result' = "none" => /\ outcome.error = "none"
                             /\ machine_instruction' = outcome.word % 65536
  BY ParseAccepts
<1>2. opcode = mnemonic /\ mnemonic' = mnemonic
  BY <1>1, LineKept DEF EncInv
<1>3. result' = Checked(n, regs, outcome).error
  BY DEF Parse
<1>4. Checked(n, regs, outcome).error = Checked(n, regs, o).error
  BY DEF Checked
<1> QED BY <1>1, <1>2, <1>3, <1>4

(* The steps that do not end in an offset *)
LEMMA OtherEnds ==
  ASSUME pc' = "done", mnemonic \notin OffsetOps, line' = line,
         (mnemonic = ".FILL" => FillWords)', OtherOutcomes'
  PROVE  OutcomeInv'
<1>1. mnemonic' = mnemonic
  BY LineKept
<1>2. OffsetOutcomes'
  BY <1>1 DEF OffsetOutcomes, EndsWith
<1> QED BY <1>2 DEF OutcomeInv, FillWords

LEMMA FillEnds ==
  ASSUME EncInv, parse_fill
  PROVE  OutcomeInv'
<1>1. Parse({".FILL"}, 1, {}, FillOutcome)
  BY DEF parse_fill, FillOutcome
<1>2. /\ pc' = "done" /\ line' = line /\ mnemonic = ".FILL" /\ mnemonic' = ".FILL"
      /\ result' = Checked(1, {}, FillOutcome).error
      /\ result' = "none" => machine_instruction' = FillOutcome.word % 65536
  BY <1>1, ParseEnds
<1>3. FillWords'
  BY <1>2, LineKept DEF FillWords
<1>4. Checked(1, {}, FillOutcome)' = Checked(1, {}, FillOutcome)
  BY <1>2, LineKept
<1>5. OtherOutcomes'
  BY <1>2, <1>4 DEF OtherOutcomes, EndsWith, JumpOps, FixedOps, Directives
<1>6. mnemonic \notin OffsetOps
  BY <1>2 DEF OffsetOps, PCRelativeOps, BaseOffsetOps, BranchOps
<1> QED BY <1>2, <1>3, <1>5, <1>6, OtherEnds

LEMMA AddressEnds ==
  ASSUME EncInv, parse_address
  PROVE  OutcomeInv'
<1> DEFINE o == InRange(NumericValue(operands[1]), 0, 65535)
<1>1. Parse({".ORIG", ".BLKW"}, 1, {}, o)
  BY DEF parse_address
<1>2. /\ pc' = "done" /\ line' = line
      /\ mnemonic \in {".ORIG", ".BLKW"} /\ mnemonic' = mnemonic
      /\ result' = Checked(1, {}, o).error
  BY <1>1, ParseEnds
<1>3. o' = o
  BY <1>2, LineKept
<1> HIDE DEF o
<1>4. Checked(1, {}, o)' = Checked(1, {}, o)
  BY <1>2, <1>3, LineKept
<1>5. OtherOutcomes'
  BY <1>2, <1>4 DEF OtherOutcomes, EndsWith, JumpOps, FixedOps, Directives, o
<1>6. mnemonic \notin OffsetOps /\ mnemonic # ".FILL"
  BY <1>2 DEF OffsetOps, PCRelativeOps, BaseOffsetOps, BranchOps
<1> QED BY <1>2, <1>5, <1>6, OtherEnds

LEMMA AddAndEnds ==
  ASSUME EncInv, parse_add_and
  PROVE  OutcomeInv'
<1> DEFINE bits    == (IF opcode = "ADD" THEN 1 ELSE 5) * 4096 + Reg(1) * 512 + Reg(2) * 64
           outcome == Plus(bits, IF Reg(3) > -1 THEN Parsed(Reg(3)) ELSE Imm5(operands[3]))
<1>1. Parse({"ADD", "AND"}, 3, {1, 2}, outcome)
  BY DEF parse_add_and
<1>2. outcome.error = Last.error
  <2>1. Imm5(operands[3]).error = InRange(NumericValue(operands[3]), -16, 15).error
    BY PlusError DEF Imm5, Parsed, Rejected, InRange
  <2> QED BY <2>1, PlusError DEF Last
<1> HIDE DEF outcome
<1>3. /\ pc' = "done" /\ line' = line
      /\ mnemonic \in {"ADD", "AND"} /\ mnemonic' = mnemonic
      /\ result' = Checked(3, {1, 2}, Last).error
  BY <1>1, <1>2, ParseEnds
<1>4. Checked(3, {1, 2}, Last)' = Checked(3, {1, 2}, Last)
  BY <1>3, LineKept
<1>5. OtherOutcomes'
  BY <1>3, <1>4 DEF OtherOutcomes, EndsWith, JumpOps, FixedOps, OpcodeLines
<1>6. mnemonic \notin OffsetOps /\ mnemonic # ".FILL"
  BY <1>3 DEF OffsetOps, PCRelativeOps, BaseOffsetOps, BranchOps
<1> QED BY <1>3, <1>5, <1>6, OtherEnds

LEMMA NotEnds ==
  ASSUME EncInv, parse_not
  PROVE  OutcomeInv'
<1>1. /\ pc' = "done" /\ line' = line /\ mnemonic = "NOT" /\ mnemonic' = "NOT"
      /\ result' = Checked(2, {1, 2}, Parsed(0)).error
  BY ParseEnds DEF parse_not, Parsed
<1>2. Checked(2, {1, 2}, Parsed(0))' = Checked(2, {1, 2}, Parsed(0))
  BY <1>1, LineKept
<1>3. OtherOutcomes'
  BY <1>1, <1>2 DEF OtherOutcomes, EndsWith, JumpOps, FixedOps, OpcodeLines
<1>4. mnemonic \notin OffsetOps
  BY <1>1 DEF OffsetOps, PCRelativeOps, BaseOffsetOps, BranchOps
<1> QED BY <1>1, <1>3, <1>4, OtherEnds

LEMMA JumpEnds ==
  ASSUME EncInv, parse_jump_instruction
  PROVE  OutcomeInv'
<1>1. /\ pc' = "done" /\ line' = line /\ mnemonic \in JumpOps /\ mnemonic' = mnemonic
      /\ result' = Checked(1, {1}, Parsed(0)).error
  BY ParseEnds DEF parse_jump_instruction, Parsed, JumpOps
<1>2. Checked(1, {1}, Parsed(0))' = Checked(1, {1}, Parsed(0))
  BY <1>1, LineKept
<1>3. OtherOutcomes'
  BY <1>1, <1>2 DEF OtherOutcomes, EndsWith, JumpOps, FixedOps, OpcodeLines
<1>4. mnemonic \notin OffsetOps /\ mnemonic # ".FILL"
  BY <1>1 DEF OffsetOps, PCRelativeOps, BaseOffsetOps, BranchOps, JumpOps
<1> QED BY <1>1, <1>3, <1>4, OtherEnds

LEMMA TrapEnds ==
  ASSUME EncInv, parse_trap
  PROVE  OutcomeInv'
<1> DEFINE o == InRange(NumericValue(operands[1]), 0, 255)
<1>1. Parse({"TRAP"}, 1, {}, Plus(15 * 4096, o)) /\ Plus(15 * 4096, o).error = o.error
  BY PlusError DEF parse_trap
<1>2. /\ pc' = "done" /\ line' = line /\ mnemonic = "TRAP" /\ mnemonic' = "TRAP"
      /\ result' = Checked(1, {}, o).error
  BY <1>1, ParseEnds
<1>3. o' = o
  BY <1>2, LineKept
<1> HIDE DEF o
<1>4. Checked(1, {}, o)' = Checked(1, {}, o)
  BY <1>2, <1>3, LineKept
<1>5. OtherOutcomes'
  BY <1>2, <1>4 DEF OtherOutcomes, EndsWith, JumpOps, FixedOps, OpcodeLines, o
<1>6. mnemonic \notin OffsetOps
  BY <1>2 DEF OffsetOps, PCRelativeOps, BaseOffsetOps, BranchOps
<1> QED BY <1>2, <1>5, <1>6, OtherEnds

LEMMA FixedEnds ==
  ASSUME EncInv, parse_fixed
  PROVE  OutcomeInv'
<1>1. /\ pc' = "done" /\ line' = line /\ mnemonic \in FixedOps /\ mnemonic' = mnemonic
      /\ result' = Checked(0, {}, Parsed(0)).error
  BY ParseEnds DEF parse_fixed, Parsed, FixedOps
<1>2. Checked(0, {}, Parsed(0))' = Checked(0, {}, Parsed(0))
  BY <1>1, LineKept
<1>3. OtherOutcomes'
  BY <1>1, <1>2 DEF OtherOutcomes, EndsWith, JumpOps, FixedOps, OpcodeLines
<1>4. mnemonic \notin OffsetOps /\ mnemonic # ".FILL"
  BY <1>1 DEF OffsetOps, PCRelativeOps, BaseOffsetOps, BranchOps, FixedOps
<1> QED BY <1>1, <1>3, <1>4, OtherEnds

(* A parse function that adds an offset to bits which leave its field free *)
LEMMA OffsetEnds ==
  ASSUME EncInv, NEW ops \in SUBSET OffsetOps, NEW op \in ops, NEW bits, NEW q \in Int,
         NEW size, size = 2 * HalfOf(op), bits = q * size,
         Parse(ops, LastOperand(op), 1 .. LastOperand(op) - 1, Plus(bits, OffsetOutcome(op))),
         opcode = op
  PROVE  OutcomeInv'
<1> DEFINE n    == LastOperand(op)
           regs == 1 .. LastOperand(op) - 1
           o    == OffsetOutcome(op)
<1>1. Plus(bits, o).error = o.error
  BY PlusError
<1>2. /\ pc' = "done" /\ line' = line
      /\ mnemonic = op /\ mnemonic' = op
      /\ result' = Checked(n, regs, o).error
      /\ result' = "none" => /\ Plus(bits, o).error = "none"
                             /\ machine_instruction' = Plus(bits, o).word % 65536
  <2> HIDE DEF o, n, regs
  <2>1. Parse(ops, n, regs, Plus(bits, o))
    BY DEF o, n, regs
  <2> QED BY <1>1, <2>1, ParseEnds
<1>3. o' = o
  BY <1>2, LineKept DEF OffsetOutcome
<1>4. HalfOf(op) \in {32, 256, 1024}
  BY HalvesAndOperands DEF OffsetOps
<1>5. ASSUME result' = "none"
      PROVE  machine_instruction' % (2 * HalfOf(op)) = o.word
  <2>1. o.error = "none" /\ machine_instruction' = (bits + o.word) % 65536
    <3> HIDE DEF o
    <3> QED BY <1>2, <1>5, PlusValue
  <2>2. PICK d \in Nat : d = o.word /\ d < size
    BY <1>4, <2>1, ParseOffsetValue DEF OffsetOutcome
  <2> HIDE DEF o
  <2>3. machine_instruction' = (q * size + d) % 65536
    BY <2>1, <2>2
  <2>4. size \in {64, 512, 2048}
    BY <1>4
  <2>5. LowPart(q, size, d) = d
    BY <2>2, <2>4, LowBits
  <2> QED BY <2>2, <2>3, <2>5 DEF LowPart
<1>6. OffsetOutcomes'
  <2> SUFFICES ASSUME NEW op2 \in OffsetOps
               PROVE  /\ EndsWith({op2}, LastOperand(op2), 1 .. LastOperand(op2) - 1,
                                  OffsetOutcome(op2))'
                      /\ (mnemonic = op2 /\ result = "none" =>
                            machine_instruction % (2 * HalfOf(op2)) = OffsetOutcome(op2).word)'
    BY DEF OffsetOutcomes
  <2>1. CASE op2 # op
    BY <1>2, <2>1 DEF EndsWith
  <2>2. CASE op2 = op
    <3>1. Checked(n, regs, o)' = Checked(n, regs, o)
      <4> HIDE DEF n, regs, o
      <4>1. \A m, r, p : Checked(m, r, p)' = Checked(m, r, p)
        BY <1>2, LineKept
      <4>2. n' = n /\ regs' = regs
        BY DEF n, regs
      <4> QED BY <1>3, <4>1, <4>2
    <3> QED BY <1>2, <1>3, <1>5, <2>2, <3>1 DEF EndsWith
  <2> QED BY <2>1, <2>2
<1>7. OtherOutcomes' /\ FillWords'
  <2>1. op \in OffsetOps
    OBVIOUS
  <2> QED
    BY <1>2, <2>1 DEF OtherOutcomes, EndsWith, JumpOps, FixedOps, OpcodeLines, FillWords, OffsetOps,
       PCRelativeOps, BaseOffsetOps, BranchOps
<1> QED BY <1>2, <1>6, <1>7 DEF OutcomeInv

LEMMA OffsetEndsWith ==
  ASSUME EncInv, NEW ops \in SUBSET OffsetOps, opcode \in ops, NEW n, n = LastOperand(opcode),
         NEW m, m = n - 1, NEW bits, \E q \in Int : bits = q * (2 * HalfOf(opcode)),
         Parse(ops, n, 1 .. m, Plus(bits, OffsetOutcome(opcode)))
  PROVE  OutcomeInv'
BY OffsetEnds

LEMMA JsrEnds ==
  ASSUME EncInv, parse_jsr
  PROVE  OutcomeInv'
<1>1. opcode \in {"JSR"} /\ {"JSR"} \in SUBSET OffsetOps
  BY DEF parse_jsr, Parse, OffsetOps
<1>2. LastOperand(opcode) = 1 /\ HalfOf(opcode) = 1024
  BY <1>1, HalvesAndOperands
<1>3. PICK w : w = 4 * 4096 + 2048
  OBVIOUS
<1>4. Parse({"JSR"}, 1, 1 .. 0, Plus(w, OffsetOutcome(opcode))) /\ 0 = 1 - 1
  <2>1. 1 .. 0 = {}
    OBVIOUS
  <2> QED BY <1>2, <1>3, <2>1 DEF parse_jsr, OffsetOutcome
<1>5. \E q \in Int : w = q * (2 * HalfOf(opcode))
  <2>1. w = 9 * (2 * HalfOf(opcode))
    BY <1>2, <1>3
  <2> QED BY <2>1
<1>6. LastOperand(opcode) = 1
  BY <1>2
<1> QED BY <1>1, <1>4, <1>5, <1>6, OffsetEndsWith, Zenon

LEMMA BranchEnds ==
  ASSUME EncInv, parse_br
  PROVE  OutcomeInv'
<1>1. opcode \in BranchOps /\ BranchOps \in SUBSET OffsetOps
  BY DEF parse_br, Parse, OffsetOps, ConditionCodes, BranchOps
<1>2. LastOperand(opcode) = 1 /\ HalfOf(opcode) = 256
  BY <1>1, HalvesAndOperands
<1>3. PICK b \in Int : b = ConditionCodes[opcode]
  BY <1>1 DEF BranchOps, ConditionCodes
<1>4. PICK w : w = b * 512
  OBVIOUS
<1>5. Parse(BranchOps, 1, 1 .. 0, Plus(w, OffsetOutcome(opcode))) /\ 0 = 1 - 1
  <2>1. 1 .. 0 = {} /\ DOMAIN ConditionCodes = BranchOps
    BY DEF ConditionCodes, BranchOps
  <2> QED BY <1>2, <1>3, <1>4, <2>1 DEF parse_br, OffsetOutcome
<1>6. \E q \in Int : w = q * (2 * HalfOf(opcode))
  BY <1>2, <1>4
<1>7. LastOperand(opcode) = 1
  BY <1>2
<1> QED BY <1>1, <1>5, <1>6, <1>7, OffsetEndsWith, Zenon

LEMMA PCRelativeEnds ==
  ASSUME EncInv, parse_pc_relative_addressing_mode
  PROVE  OutcomeInv'
<1>1. opcode \in PCRelativeOps /\ PCRelativeOps \in SUBSET OffsetOps
  BY DEF parse_pc_relative_addressing_mode, Parse, OffsetOps, PCRelative, PCRelativeOps
<1>2. LastOperand(opcode) = 2 /\ HalfOf(opcode) = 256
  BY <1>1, HalvesAndOperands
<1>3. PICK b \in Int : b = PCRelative[opcode]
  BY <1>1 DEF PCRelativeOps, PCRelative
<1>4. PICK r \in Int : r = Reg(1)
  BY RegisterRange DEF Reg
<1>5. Parse(PCRelativeOps, 2, 1 .. 1, Plus(b * 4096 + r * 512, OffsetOutcome(opcode)))
  <2>1. 1 .. 1 = {1} /\ DOMAIN PCRelative = PCRelativeOps
    BY DEF PCRelative, PCRelativeOps
  <2> QED BY <1>2, <1>3, <1>4, <2>1 DEF parse_pc_relative_addressing_mode, OffsetOutcome
<1>6. PICK w : w = b * 4096 + r * 512
  OBVIOUS
<1>7. \E q \in Int : w = q * (2 * HalfOf(opcode))
  <2>1. PICK q \in Int : q = b * 8 + r
    OBVIOUS
  <2>2. w = q * (2 * HalfOf(opcode))
    BY <1>2, <1>6, <2>1
  <2> QED BY <2>2
<1>8. Parse(PCRelativeOps, 2, 1 .. 1, Plus(w, OffsetOutcome(opcode))) /\ 1 = 2 - 1
  BY <1>5, <1>6
<1>9. LastOperand(opcode) = 2
  BY <1>2
<1> QED BY <1>1, <1>7, <1>8, <1>9, OffsetEndsWith, Zenon

LEMMA BaseOffsetEnds ==
  ASSUME EncInv, parse_base_plus_offset_addressing_mode
  PROVE  OutcomeInv'
<1>1. opcode \in BaseOffsetOps /\ BaseOffsetOps \in SUBSET OffsetOps
  BY DEF parse_base_plus_offset_addressing_mode, Parse, OffsetOps, BaseOffset, BaseOffsetOps
<1>2. LastOperand(opcode) = 3 /\ HalfOf(opcode) = 32
  BY <1>1, HalvesAndOperands
<1>3. PICK b \in Int : b = BaseOffset[opcode]
  BY <1>1 DEF BaseOffsetOps, BaseOffset
<1>4. PICK r \in Int, s \in Int : r = Reg(1) /\ s = Reg(2)
  <2>1. Reg(1) \in -1 .. 7 /\ Reg(2) \in -1 .. 7
    BY RegisterRange DEF Reg
  <2> QED BY <2>1
<1>5. Parse(BaseOffsetOps, 3, 1 .. 2, Plus(b * 4096 + r * 512 + s * 64, OffsetOutcome(opcode)))
  <2>1. 1 .. 2 = {1, 2} /\ DOMAIN BaseOffset = BaseOffsetOps
    BY DEF BaseOffset, BaseOffsetOps
  <2> QED BY <1>2, <1>3, <1>4, <2>1 DEF parse_base_plus_offset_addressing_mode, OffsetOutcome
<1>6. PICK w : w = b * 4096 + r * 512 + s * 64
  OBVIOUS
<1>7. \E q \in Int : w = q * (2 * HalfOf(opcode))
  <2>1. PICK q \in Int : q = b * 64 + r * 8 + s
    OBVIOUS
  <2>2. w = q * (2 * HalfOf(opcode))
    BY <1>2, <1>6, <2>1
  <2> QED BY <2>2
<1>8. Parse(BaseOffsetOps, 3, 1 .. 2, Plus(w, OffsetOutcome(opcode))) /\ 2 = 3 - 1
  BY <1>5, <1>6
<1>9. LastOperand(opcode) = 3
  BY <1>2
<1> QED BY <1>1, <1>7, <1>8, <1>9, OffsetEndsWith, Zenon

LEMMA OutcomeInit ==
  ASSUME Init
  PROVE  OutcomeInv
BY DEF Init, OutcomeInv

LEMMA OutcomeStep ==
  ASSUME EncInv, OutcomeInv, [Next]_vars
  PROVE  OutcomeInv'
<1>1. CASE UNCHANGED vars
  <2>1. /\ pc' = pc /\ line' = line /\ result' = result
        /\ machine_instruction' = machine_instruction
    BY <1>1 DEF vars
  <2> SUFFICES ASSUME pc = "done" PROVE OutcomeInv'
    BY <2>1 DEF OutcomeInv
  <2>2. OtherOutcomes /\ OffsetOutcomes /\ FillWords
    BY DEF OutcomeInv
  <2>3. \A i, half : parse_offset(operands[i], half)' = parse_offset(operands[i], half)
    BY <2>1, LineKept
  <2>4. OtherOutcomes'
    <3>1. \A n, regs, o : Checked(n, regs, o)' = Checked(n, regs, o)
      BY <2>1, LineKept
    <3>2. /\ mnemonic' = mnemonic /\ FillOutcome' = FillOutcome /\ Last' = Last
          /\ NumericValue(operands[1])' = NumericValue(operands[1])
      BY <2>1, LineKept
    <3> QED BY <2>1, <2>2, <3>1, <3>2 DEF OtherOutcomes, EndsWith
  <2>5. OffsetOutcomes'
    <3>1. \A n, regs, o : Checked(n, regs, o)' = Checked(n, regs, o)
      BY <2>1, LineKept
    <3>2. mnemonic' = mnemonic /\ \A op : OffsetOutcome(op)' = OffsetOutcome(op)
      BY <2>1, <2>3, LineKept DEF OffsetOutcome
    <3> QED BY <2>1, <2>2, <3>1, <3>2 DEF OffsetOutcomes, EndsWith
  <2>6. FillWords'
    BY <2>1, <2>2, LineKept DEF FillWords
  <2> QED BY <2>4, <2>5, <2>6 DEF OutcomeInv
<1>2. CASE LineType
  <2>1. CASE pc' = "done"
    <3>1. mnemonic \notin OpcodeLines \cup Directives /\ result' = "label" /\ line' = line
      BY <1>2, <2>1, Zenon DEF LineType
    <3>2. mnemonic' = mnemonic
      BY <3>1, LineKept
    <3>3. OtherOutcomes'
      BY <3>1, <3>2 DEF OtherOutcomes, EndsWith, JumpOps, FixedOps, OpcodeLines, Directives
    <3>4. mnemonic \notin OffsetOps /\ mnemonic # ".FILL"
      BY <3>1 DEF OffsetOps, PCRelativeOps, BaseOffsetOps, BranchOps, OpcodeLines, Directives
    <3> QED BY <2>1, <3>1, <3>2, <3>3, <3>4, OtherEnds
  <2> QED BY <2>1 DEF OutcomeInv
<1>3. CASE OpcodeType
  <2>1. pc' # "done"
    BY <1>3 DEF OpcodeType
  <2> QED BY <2>1 DEF OutcomeInv
<1> QED
  BY <1>1, <1>2, <1>3, FillEnds, AddressEnds, AddAndEnds, NotEnds, JumpEnds, JsrEnds, BranchEnds,
     PCRelativeEnds, BaseOffsetEnds, TrapEnds, FixedEnds DEF Next, Terminating

(***************************************************************************)
(* In every state that ends a line, its outcome is that of the parse       *)
(* function for its mnemonic.                                              *)
(***************************************************************************)
THEOREM OutcomeInvariant == Spec => [](EncInv /\ OutcomeInv)
<1>1. Init => OutcomeInv
  BY OutcomeInit
<1>2. EncInv /\ OutcomeInv /\ [Next]_vars => OutcomeInv'
  BY OutcomeStep
<1> QED BY <1>1, <1>2, EncoderInvariant, PTL DEF Spec

(***************************************************************************)
(* Parser on the view of a line that ParserAgrees gives it.                *)
(***************************************************************************)
Given(i) ==
  IF NumericValue(operands[i]).ok
    THEN [type |-> "num", val |-> NumericValue(operands[i]).val, name |-> NULL]
    ELSE [type |-> "sym", val |-> 0, name |-> operands[i]]

Missing == [type |-> "missing", val |-> 0, name |-> NULL]

LEMMA SameOutcomes ==
  /\ \A v, half : P!OffsetField(v, half) = OffsetField(v, half)
  /\ \A w : P!Parsed(w) = Parsed(w)
  /\ \A e : P!Rejected(e) = Rejected(e)
BY DEF P!OffsetField, P!Parsed, P!Rejected, OffsetField, Parsed, Rejected

LEMMA LineIs ==
  ASSUME NEW entry
  PROVE  /\ entry.tokens.type = "fill" => P!ParseLine(entry) = P!ParseFill(entry.tokens.arg)
         /\ entry.tokens.type = "offset" =>
              P!ParseLine(entry) = P!ParseOffset(entry.tokens.arg, entry.tokens.half,
                                                 entry.instruction_location)
<1>1. CASE entry.tokens.type = "fill"
  <2>1. entry.tokens.type \notin {"label", "offset", "op"}
    BY <1>1
  <2> QED BY <1>1, <2>1, Zenon DEF P!ParseLine
<1>2. CASE entry.tokens.type = "offset"
  <2>1. entry.tokens.type \notin {"label", "fill", "op"}
    BY <1>2
  <2> QED BY <1>2, <2>1, Zenon DEF P!ParseLine
<1> QED BY <1>1, <1>2

LEMMA ArgIs ==
  ASSUME NEW arg
  PROVE  /\ \A half, location :
              /\ arg.type = "missing" => P!ParseOffset(arg, half, location) = P!Rejected("operands")
              /\ arg.type = "num" =>
                   P!ParseOffset(arg, half, location) = P!OffsetField(arg.val, half)
         /\ arg.type = "missing" => P!ParseFill(arg) = P!Rejected("operands")
         /\ arg.type = "num" => P!ParseFill(arg) = P!FillWord(arg.val)
<1>1. CASE arg.type = "missing"
  <2>1. arg.type # "num" /\ arg.type # "sym"
    BY <1>1
  <2> QED BY <1>1, <2>1, Zenon DEF P!ParseOffset, P!ParseFill
<1>2. CASE arg.type = "num"
  <2>1. arg.type # "missing" /\ arg.type # "sym"
    BY <1>2
  <2> QED BY <1>2, <2>1, Zenon DEF P!ParseOffset, P!ParseFill
<1> QED BY <1>1, <1>2

LEMMA SymIs ==
  ASSUME NEW arg, arg.type = "sym", NEW i \in DOMAIN operands, arg.name = operands[i]
  PROVE  /\ \A half, location :
              P!ParseOffset(arg, half, location) =
                IF lookup(operands[i]) = NULL
                  THEN P!Rejected("symbol_not_found")
                  ELSE P!OffsetField(lookup(operands[i]) - location - 1, half)
         /\ P!ParseFill(arg) =
              IF lookup(operands[i]) = NULL
                THEN P!Rejected("symbol_not_found")
                ELSE P!FillWord(lookup(operands[i]) - 1 + line.origin)
<1> DEFINE dict == [t \in {operands[k] : k \in DOMAIN operands} |-> lookup(t)]
<1>1. dict[arg.name] = lookup(operands[i])
  OBVIOUS
<1>2. arg.type # "missing" /\ arg.type # "num"
  OBVIOUS
<1> QED BY <1>1, <1>2, Zenon DEF P!ParseOffset, P!ParseFill

LEMMA OffsetIsSame ==
  ASSUME NEW i \in DOMAIN operands, NEW half
  PROVE  P!ParseOffset(Given(i), half, line.location) = parse_offset(operands[i], half)
<1>1. CASE NumericValue(operands[i]).ok
  <2>1. Given(i).type = "num" /\ Given(i).val = NumericValue(operands[i]).val
    BY <1>1 DEF Given
  <2>2. P!ParseOffset(Given(i), half, line.location) =
          OffsetField(NumericValue(operands[i]).val, half)
    BY <2>1, SameOutcomes, ArgIs
  <2> QED BY <1>1, <2>2 DEF parse_offset, NumberOrLabel
<1>2. CASE ~NumericValue(operands[i]).ok
  <2>1. Given(i).type = "sym" /\ Given(i).name = operands[i]
    BY <1>2 DEF Given
  <2>2. P!ParseOffset(Given(i), half, line.location) =
          IF lookup(operands[i]) = NULL
            THEN Rejected("symbol_not_found")
            ELSE OffsetField(lookup(operands[i]) - line.location - 1, half)
    BY <2>1, SameOutcomes, SymIs
  <2> QED BY <1>2, <2>2 DEF parse_offset, NumberOrLabel
<1> QED BY <1>1, <1>2

LEMMA InRangeValue ==
  ASSUME NEW number, NEW lower, NEW upper, number.ok
  PROVE  InRange(number, lower, upper) = InRange([ok |-> TRUE, val |-> number.val], lower, upper)
BY DEF InRange

LEMMA InRangeErrors ==
  ASSUME NEW number, NEW lower, NEW upper, number.ok
  PROVE  InRange(number, lower, upper).error \in {"none", "out_of_range"}
BY DEF InRange, Parsed, Rejected

(* A range whose bounds are not spelled out, as the provers would list a long one *)
Between(lower, upper) == lower .. upper

LEMMA BetweenIsInt ==
  ASSUME NEW lower \in Int, NEW upper \in Int, NEW v \in Between(lower, upper)
  PROVE  v \in Int
BY DEF Between

LEMMA InRangeIs ==
  ASSUME NEW number, number.ok, NEW lower, NEW upper
  PROVE  InRange(number, lower, upper) =
           IF number.val \in Between(lower, upper) THEN Parsed(number.val)
                                                   ELSE Rejected("out_of_range")
BY DEF InRange, Between

LEMMA FillWordIs ==
  ASSUME NEW v, NEW o, o = InRange([ok |-> TRUE, val |-> v], -32768, 65535)
  PROVE  /\ P!FillWord(v).error = o.error
         /\ o.error = "none" => o.word \in Int /\ P!FillWord(v).word = o.word % 65536
<1> DEFINE in == v \in Between(-32768, 65535)
<1>1. P!FillWord(v) = IF v \in Between(-(65536 \div 2), 65536 - 1)
                        THEN P!Parsed(v % 65536)
                        ELSE P!Rejected("out_of_range")
  BY DEF P!FillWord, Between
<1>2. -(65536 \div 2) = -32768 /\ 65536 - 1 = 65535
  OBVIOUS
<1>3. P!FillWord(v) = IF in THEN Parsed(v % 65536) ELSE Rejected("out_of_range")
  BY <1>1, <1>2, SameOutcomes
<1>4. o = IF in THEN Parsed(v) ELSE Rejected("out_of_range")
  BY InRangeIs
<1>5. in => v \in Int
  BY BetweenIsInt
<1> HIDE DEF in
<1> QED BY <1>3, <1>4, <1>5 DEF Parsed, Rejected

LEMMA FillIsSame ==
  ASSUME 1 \in DOMAIN operands
  PROVE  /\ P!ParseFill(Given(1)).error = FillOutcome.error
         /\ FillOutcome.error = "none" =>
              /\ FillOutcome.word \in Int
              /\ P!ParseFill(Given(1)).word = FillOutcome.word % 65536
<1> DEFINE token == operands[1]
<1> DEFINE Same(v) == FillOutcome = InRange([ok |-> TRUE, val |-> v], -32768, 65535)
<1>2. ASSUME NEW v, P!ParseFill(Given(1)) = P!FillWord(v), Same(v)
      PROVE  /\ P!ParseFill(Given(1)).error = FillOutcome.error
             /\ FillOutcome.error = "none" =>
                  /\ FillOutcome.word \in Int
                  /\ P!ParseFill(Given(1)).word = FillOutcome.word % 65536
  BY <1>2, FillWordIs
<1>4. CASE NumericValue(token).ok
  <2>1. Given(1).type = "num" /\ Given(1).val = NumericValue(token).val
    BY <1>4 DEF Given
  <2>2. P!ParseFill(Given(1)) = P!FillWord(NumericValue(token).val)
    BY <2>1, ArgIs
  <2>3. FillOutcome = InRange(NumericValue(token), -32768, 65535)
    BY <1>4 DEF FillOutcome, NumberOrLabel
  <2>4. Same(NumericValue(token).val)
    BY <1>4, <2>3, InRangeValue
  <2> HIDE DEF Same
  <2> QED BY <1>2, <2>2, <2>4
<1>5. CASE ~NumericValue(token).ok /\ lookup(token) = NULL
  <2>1. Given(1).type = "sym" /\ Given(1).name = token
    BY <1>5 DEF Given
  <2>2. P!ParseFill(Given(1)) = Rejected("symbol_not_found")
    BY <1>5, <2>1, SameOutcomes, SymIs
  <2>3. FillOutcome = Rejected("symbol_not_found")
    BY <1>5 DEF FillOutcome, NumberOrLabel
  <2> QED BY <2>2, <2>3 DEF Rejected
<1>6. CASE ~NumericValue(token).ok /\ lookup(token) # NULL
  <2>1. Given(1).type = "sym" /\ Given(1).name = token
    BY <1>6 DEF Given
  <2>2. P!ParseFill(Given(1)) = P!FillWord(lookup(token) - 1 + line.origin)
    BY <1>6, <2>1, SymIs
  <2>3. Same(lookup(token) - 1 + line.origin)
    BY <1>6 DEF FillOutcome, NumberOrLabel
  <2> HIDE DEF Same
  <2> QED BY <1>2, <2>2, <2>3
<1> QED BY <1>4, <1>5, <1>6

(* What a parse function can reject beside the number and the kinds of its operands *)
LEMMA OffsetErrors ==
  ASSUME NEW token, NEW half
  PROVE  parse_offset(token, half).error \in {"none", "symbol_not_found", "out_of_range"}
BY DEF parse_offset, OffsetField, Parsed, Rejected

LEMMA FillErrors == FillOutcome.error \in {"none", "symbol_not_found", "out_of_range"}
BY InRangeErrors DEF FillOutcome, Rejected

LEMMA OutcomesAgree ==
  ASSUME EncInv, OutcomeInv
  PROVE  ParserAgrees
<1> SUFFICES ASSUME pc = "done", mnemonic \in OffsetOps \cup {".FILL"}
             PROVE  LET outcome == P!ParseLine([tokens               |-> StmtOf(mnemonic),
                                                instruction_location |-> line.location,
                                                machine_instruction  |-> UNINIT])
                        size    == IF mnemonic = ".FILL" THEN 65536 ELSE 2 * HalfOf(mnemonic)
                    IN  /\ outcome.error = IF result = "register" THEN "operands" ELSE result
                        /\ result = "none" => outcome.word = machine_instruction % size
  BY DEF ParserAgrees
<1> DEFINE stmt    == StmtOf(mnemonic)
           entry   == [tokens               |-> stmt,
                       instruction_location |-> line.location,
                       machine_instruction  |-> UNINIT]
           outcome == P!ParseLine(entry)
           i       == LastOperand(mnemonic)
<1>1. OtherOutcomes /\ OffsetOutcomes /\ FillWords /\ line \in Lines
  BY DEF OutcomeInv, EncInv
<1>2. DOMAIN operands = 1 .. Len(operands) /\ Len(operands) \in Nat
  BY <1>1, EncoderAssumption DEF operands
<1>3. /\ stmt.type = (IF mnemonic = ".FILL" THEN "fill" ELSE "offset")
      /\ stmt.half = HalfOf(mnemonic)
      /\ stmt.arg = IF result \in {"operands", "register"} THEN Missing ELSE Given(i)
  BY DEF StmtOf, Given, Missing
<1>4. CASE mnemonic \in OffsetOps
  <2>1. mnemonic # ".FILL"
    BY <1>4 DEF OffsetOps, PCRelativeOps, BaseOffsetOps, BranchOps
  <2>2. i \in {1, 2, 3}
    BY <1>4, HalvesAndOperands DEF OffsetOps
  <2>3. /\ result = Checked(i, 1 .. i - 1, OffsetOutcome(mnemonic)).error
        /\ result = "none" =>
             machine_instruction % (2 * HalfOf(mnemonic)) = OffsetOutcome(mnemonic).word
    BY <1>1, <1>4 DEF OffsetOutcomes, EndsWith
  <2>4. outcome = P!ParseOffset(stmt.arg, HalfOf(mnemonic), line.location)
    <3>1. entry.tokens = stmt /\ entry.instruction_location = line.location
      OBVIOUS
    <3> HIDE DEF stmt, entry
    <3> QED BY <1>3, <2>1, <3>1, LineIs
  <2> HIDE DEF stmt, entry, outcome
  <2>5. CASE result \in {"operands", "register"}
    <3>1. stmt.arg.type = "missing"
      BY <1>3, <2>5 DEF Missing
    <3>2. outcome = Rejected("operands")
      BY <2>4, <3>1, SameOutcomes, ArgIs
    <3> QED BY <2>5, <3>2 DEF Rejected, outcome, entry, stmt
  <2>6. CASE result \notin {"operands", "register"}
    <3>1. i \in DOMAIN operands /\ result = OffsetOutcome(mnemonic).error
      BY <1>2, <2>2, <2>3, <2>6 DEF Checked, Rejected
    <3>2. outcome = OffsetOutcome(mnemonic)
      BY <1>3, <2>4, <2>6, <3>1, OffsetIsSame DEF OffsetOutcome
    <3> QED BY <2>1, <2>3, <2>6, <3>1, <3>2 DEF outcome, entry, stmt
  <2> QED BY <2>5, <2>6
<1>5. CASE mnemonic = ".FILL"
  <2>1. i = 1
    BY <1>5, Zenon DEF LastOperand, BaseOffsetOps, PCRelativeOps
  <2>2. /\ result = Checked(1, {}, FillOutcome).error
        /\ result = "none" => machine_instruction = FillOutcome.word % 65536
    BY <1>1, <1>5 DEF OtherOutcomes, EndsWith, FillWords
  <2>3. outcome = P!ParseFill(stmt.arg)
    <3>1. entry.tokens = stmt
      OBVIOUS
    <3> HIDE DEF stmt, entry
    <3> QED BY <1>3, <1>5, <3>1, LineIs
  <2> HIDE DEF stmt, entry, outcome
  <2>4. CASE result \in {"operands", "register"}
    <3>1. stmt.arg.type = "missing"
      BY <1>3, <2>4 DEF Missing
    <3>2. outcome = Rejected("operands")
      BY <2>3, <3>1, SameOutcomes, ArgIs
    <3> QED BY <2>4, <3>2 DEF Rejected, outcome, entry, stmt
  <2>5. CASE result \notin {"operands", "register"}
    <3>1. 1 \in DOMAIN operands /\ result = FillOutcome.error
      BY <1>2, <2>2, <2>5 DEF Checked, Rejected
    <3>2. outcome = P!ParseFill(Given(1))
      BY <1>3, <2>1, <2>3, <2>5
    <3>3. /\ outcome.error = FillOutcome.error
          /\ result = "none" => FillOutcome.word \in Int /\ outcome.word = FillOutcome.word % 65536
      BY <1>1, <3>1, <3>2, FillIsSame
    <3>4. result = "none" => outcome.word = machine_instruction % 65536
      BY <2>2, <3>3
    <3> QED BY <1>5, <2>5, <3>1, <3>3, <3>4 DEF outcome, entry, stmt
  <2> QED BY <2>4, <2>5
<1> QED BY <1>4, <1>5

(***************************************************************************)
(* Parser has the outcomes of the code.                                    *)
(***************************************************************************)
THEOREM ParserIsAbstraction == Spec => []ParserAgrees
<1>1. EncInv /\ OutcomeInv => ParserAgrees
  BY OutcomesAgree
<1> QED BY <1>1, OutcomeInvariant, PTL

(***************************************************************************)
(* What is accepted, of texts that are read as what they stand for.        *)
(***************************************************************************)
LEMMA KindIs ==
  ASSUME NotationIsRead, NEW t \in DOMAIN Notation
  PROVE  /\ Notation[t].kind = "register" <=> Register(t) # -1
         /\ Notation[t].kind = "number" <=> NumericValue(t).ok
         /\ Notation[t].kind = "number" =>
              NumericValue(t) = [ok |-> TRUE, val |-> Notation[t].val]
         /\ t \in DOMAIN Symbols => Notation[t].kind # "register"
         /\ Notation[t].kind \in {"register", "number", "label"}
BY DEF NotationIsRead, IsRead

LEMMA RegistersAre ==
  ASSUME NotationIsRead, NEW t \in DOMAIN Notation
  PROVE  t \in Registers <=> Register(t) # -1
BY KindIs DEF Registers, Of

LEMMA NumbersAre ==
  ASSUME NotationIsRead, NEW t \in DOMAIN Notation, NEW lower, NEW upper
  PROVE  t \in Numbers(lower, upper) <=> InRange(NumericValue(t), lower, upper).error = "none"
<1>1. CASE Notation[t].kind = "number"
  <2>1. NumericValue(t).ok /\ NumericValue(t).val = Notation[t].val
    BY <1>1, KindIs
  <2>2. t \in Numbers(lower, upper) <=> Notation[t].val \in Between(lower, upper)
    BY <1>1 DEF Numbers, Of, Between
  <2> QED BY <2>1, <2>2, InRangeIs DEF Parsed, Rejected
<1>2. CASE Notation[t].kind # "number"
  <2>1. ~NumericValue(t).ok
    BY <1>2, KindIs
  <2> QED BY <1>2, <2>1 DEF Numbers, Of, InRange, Rejected
<1> QED BY <1>1, <1>2

LEMMA WordIs ==
  ASSUME NEW w \in Word
  PROVE  w \in Int /\ 0 <= w
BY DEF Word

LEMMA NoNumber ==
  ASSUME NotationIsRead, NEW t \in DOMAIN Notation, ~NumericValue(t).ok, NEW lower, NEW upper
  PROVE  t \notin Numbers(lower, upper)
BY KindIs DEF Numbers, Of

LEMMA LookupIs ==
  ASSUME NEW t, lookup(t) # NULL
  PROVE  lookup(t) \in Word
BY EncoderAssumption DEF lookup

LEMMA LabelsAre ==
  ASSUME NotationIsRead, NEW t \in DOMAIN Notation, ~NumericValue(t).ok, NEW lower, NEW upper
  PROVE  t \in Labels(lower, upper) <=> lookup(t) # NULL /\ lookup(t) \in Between(lower, upper)
<1>1. t \in DOMAIN Symbols => Notation[t].kind = "label" /\ Symbols[t] \in Word /\ NULL \notin Word
  BY KindIs, EncoderAssumption
<1>2. t \in Labels(lower, upper) <=>
        Notation[t].kind = "label" /\ t \in DOMAIN Symbols /\ Symbols[t] \in Between(lower, upper)
  BY DEF Labels, Of, Between
<1> QED BY <1>1, <1>2 DEF lookup

LEMMA BetweenIs ==
  ASSUME NEW lower \in Int, NEW upper \in Int, NEW v \in Int
  PROVE  v \in Between(lower, upper) <=> lower <= v /\ v <= upper
BY DEF Between

LEMMA ReachableAre ==
  ASSUME NotationIsRead, line \in Lines, NEW t \in DOMAIN Notation,
         NEW half \in {32, 256, 1024}
  PROVE  t \in Reachable(half) <=> parse_offset(t, half).error = "none"
<1> DEFINE Fits(v) == v \in -half .. half - 1
<1>1. ASSUME NEW v
      PROVE  OffsetField(v, half).error = "none" <=> Fits(v)
  BY DEF OffsetField, Parsed, Rejected
<1>2. CASE NumericValue(t).ok
  <2>1. t \in Reachable(half) <=> t \in Numbers(-half, half - 1)
    BY <1>2, KindIs DEF Reachable, Labels, Of
  <2>2. t \in Numbers(-half, half - 1) <=> Fits(NumericValue(t).val)
    BY <1>2, KindIs DEF Numbers, Of
  <2>3. parse_offset(t, half) = OffsetField(NumericValue(t).val, half)
    BY <1>2 DEF parse_offset, NumberOrLabel
  <2> QED BY <1>1, <2>1, <2>2, <2>3
<1>3. CASE ~NumericValue(t).ok
  <2> DEFINE lower == line.location + 1 - half
             upper == line.location + half
  <2>1. t \in Reachable(half) <=> t \in Labels(lower, upper)
    BY <1>3, KindIs DEF Reachable, Numbers, Of
  <2>2. t \in Labels(lower, upper) <=> lookup(t) # NULL /\ lookup(t) \in Between(lower, upper)
    BY <1>3, LabelsAre
  <2>3. CASE lookup(t) = NULL
    <3>1. parse_offset(t, half) = Rejected("symbol_not_found")
      BY <1>3, <2>3 DEF parse_offset, NumberOrLabel
    <3> QED BY <2>1, <2>2, <2>3, <3>1 DEF Rejected
  <2>4. CASE lookup(t) # NULL
    <3>1. parse_offset(t, half) = OffsetField(lookup(t) - line.location - 1, half)
      BY <1>3, <2>4 DEF parse_offset, NumberOrLabel
    <3>2. lookup(t) \in Word /\ line.location \in Word
      BY <2>4, LookupIs, EncoderAssumption
    <3>3. PICK v \in Int, w \in Int : v = lookup(t) /\ w = line.location
      BY <3>2, WordsAreIntegers
    <3>4. lookup(t) \in Between(lower, upper) <=> w + 1 - half <= v /\ v <= w + half
      BY <3>3, BetweenIs
    <3>5. Fits(lookup(t) - line.location - 1) <=> -half <= v - w - 1 /\ v - w - 1 <= half - 1
      BY <3>3
    <3> QED BY <1>1, <2>1, <2>2, <2>4, <3>1, <3>4, <3>5
  <2> QED BY <2>3, <2>4
<1> QED BY <1>2, <1>3

LEMMA FillsAre ==
  ASSUME NotationIsRead, line \in Lines, operands[1] \in DOMAIN Notation
  PROVE  operands[1] \in Numbers(-32768, 65535) \cup Labels(0, 65536 - line.origin) <=>
           FillOutcome.error = "none"
<1> DEFINE t == operands[1]
<1>1. CASE NumericValue(t).ok
  <2>1. t \notin Labels(0, 65536 - line.origin)
    BY <1>1, KindIs DEF Labels, Of
  <2>2. FillOutcome = InRange(NumericValue(t), -32768, 65535)
    BY <1>1 DEF FillOutcome, NumberOrLabel
  <2> QED BY <2>1, <2>2, NumbersAre
<1>2. CASE ~NumericValue(t).ok
  <2> DEFINE upper == 65536 - line.origin
  <2>1. t \notin Numbers(-32768, 65535)
    BY <1>2, NoNumber
  <2>2. t \in Labels(0, upper) <=> lookup(t) # NULL /\ lookup(t) \in Between(0, upper)
    BY <1>2, LabelsAre
  <2>3. CASE lookup(t) = NULL
    <3>1. FillOutcome = Rejected("symbol_not_found")
      BY <1>2, <2>3 DEF FillOutcome, NumberOrLabel
    <3> QED BY <2>1, <2>2, <2>3, <3>1 DEF Rejected
  <2>4. CASE lookup(t) # NULL
    <3>1. lookup(t) \in Word /\ line.origin \in Word
      BY <2>4, LookupIs, EncoderAssumption
    <3>2. PICK v \in Int, w \in Int : v = lookup(t) /\ w = line.origin /\ 0 <= v /\ 0 <= w
      BY <3>1, WordIs
    <3>3. FillOutcome = InRange([ok |-> TRUE, val |-> v - 1 + w], -32768, 65535)
      BY <1>2, <2>4, <3>2 DEF FillOutcome, NumberOrLabel
    <3>4. FillOutcome.error = "none" <=> v - 1 + w \in Between(-32768, 65535)
      BY <3>3, InRangeIs DEF Parsed, Rejected
    <3>5. v - 1 + w \in Between(-32768, 65535) <=> v - 1 + w <= 65535
      BY <3>2, BetweenIs
    <3>6. v \in Between(0, upper) <=> v <= 65536 - w
      BY <3>2, BetweenIs
    <3>7. v - 1 + w <= 65535 <=> v <= 65536 - w
      BY <3>2
    <3> QED BY <2>1, <2>2, <2>4, <3>2, <3>4, <3>5, <3>6, <3>7
  <2> QED BY <2>3, <2>4
<1> QED BY <1>1, <1>2

LEMMA CheckedAccepts ==
  ASSUME NEW n, NEW regs, NEW o
  PROVE  Checked(n, regs, o).error = "none" <=>
           /\ ~(Len(operands) < n)
           /\ \A i \in regs : Register(operands[i]) # -1
           /\ o.error = "none"
BY DEF Checked, Rejected

LEMMA FormatsAre ==
  ASSUME NEW op
  PROVE  /\ op \in {"ADD", "AND"} =>
              Formats(op) = <<Registers, Registers, Registers \cup Numbers(-16, 15)>>
         /\ op = "NOT" => Formats(op) = <<Registers, Registers>>
         /\ op \in JumpOps => Formats(op) = <<Registers>>
         /\ op = "JSR" => Formats(op) = <<Reachable(1024)>>
         /\ op \in BranchOps => Formats(op) = <<Reachable(256)>>
         /\ op \in PCRelativeOps => Formats(op) = <<Registers, Reachable(256)>>
         /\ op \in BaseOffsetOps => Formats(op) = <<Registers, Registers, Reachable(32)>>
         /\ op = "TRAP" => Formats(op) = <<Numbers(0, 255)>>
         /\ op = ".FILL" => Formats(op) = <<Values>>
         /\ op \in {".ORIG", ".BLKW"} => Formats(op) = <<Addresses>>
         /\ op \in FixedOps => Formats(op) = <<>>
<1> DEFINE add == op \in {"ADD", "AND"}
           not == op = "NOT"
           jmp == op \in {"JMP", "JMPT", "JSRR"}
           jsr == op = "JSR"
           br  == op \in BranchOps
           pcr == op \in PCRelativeOps
           bas == op \in BaseOffsetOps
           trp == op = "TRAP"
           fil == op = ".FILL"
           adr == op \in {".ORIG", ".BLKW"}
           fixed == op \in FixedOps
<1>1. /\ add => ~not /\ ~jmp /\ ~jsr /\ ~br /\ ~pcr /\ ~bas /\ ~trp /\ ~fil /\ ~adr /\ ~fixed
      /\ not => ~jmp /\ ~jsr /\ ~br /\ ~pcr /\ ~bas /\ ~trp /\ ~fil /\ ~adr /\ ~fixed
      /\ jmp => ~jsr /\ ~br /\ ~pcr /\ ~bas /\ ~trp /\ ~fil /\ ~adr /\ ~fixed
      /\ jsr => ~br /\ ~pcr /\ ~bas /\ ~trp /\ ~fil /\ ~adr /\ ~fixed
      /\ br  => ~pcr /\ ~bas /\ ~trp /\ ~fil /\ ~adr /\ ~fixed
      /\ pcr => ~bas /\ ~trp /\ ~fil /\ ~adr /\ ~fixed
      /\ bas => ~trp /\ ~fil /\ ~adr /\ ~fixed
      /\ trp => ~fil /\ ~adr /\ ~fixed
      /\ fil => ~adr /\ ~fixed
      /\ adr => ~fixed
  BY DEF BranchOps, PCRelativeOps, BaseOffsetOps, FixedOps
<1>2. Formats(op) =
        CASE add -> <<Registers, Registers, Registers \cup Numbers(-16, 15)>>
          [] not -> <<Registers, Registers>>
          [] jmp -> <<Registers>>
          [] jsr -> <<Reachable(1024)>>
          [] br  -> <<Reachable(256)>>
          [] pcr -> <<Registers, Reachable(256)>>
          [] bas -> <<Registers, Registers, Reachable(32)>>
          [] trp -> <<Numbers(0, 255)>>
          [] fil -> <<Values>>
          [] adr -> <<Addresses>>
          [] OTHER -> <<>>
  BY Zenon DEF Formats
<1>3. jmp <=> op \in JumpOps
  BY DEF JumpOps
<1> HIDE DEF add, not, jmp, jsr, br, pcr, bas, trp, fil, adr, fixed
<1> QED BY <1>1, <1>2, <1>3 DEF add, not, jsr, br, pcr, bas, trp, fil, adr, fixed

(* The view of AcceptedExactly on one line *)
Accepts(formats) ==
  result = "none" <=> /\ Len(operands) >= Len(formats)
                      /\ \A i \in DOMAIN formats : operands[i] \in formats[i]

LEMMA AcceptsIs ==
  ASSUME Len(operands) \in Nat
  PROVE  /\ Accepts(<<>>) <=> result = "none"
         /\ \A A : Accepts(<<A>>) <=>
              (result = "none" <=> Len(operands) >= 1 /\ operands[1] \in A)
         /\ \A A, B : Accepts(<<A, B>>) <=>
              (result = "none" <=> Len(operands) >= 2 /\ operands[1] \in A /\ operands[2] \in B)
         /\ \A A, B, C : Accepts(<<A, B, C>>) <=>
              (result = "none" <=> /\ Len(operands) >= 3
                                   /\ operands[1] \in A /\ operands[2] \in B /\ operands[3] \in C)
<1>1. Accepts(<<>>) <=> result = "none"
  BY DEF Accepts
<1>2. ASSUME NEW A
      PROVE  Accepts(<<A>>) <=> (result = "none" <=> Len(operands) >= 1 /\ operands[1] \in A)
  BY DEF Accepts
<1>3. ASSUME NEW A, NEW B
      PROVE  Accepts(<<A, B>>) <=>
              (result = "none" <=> Len(operands) >= 2 /\ operands[1] \in A /\ operands[2] \in B)
  BY DEF Accepts
<1>4. ASSUME NEW A, NEW B, NEW C
      PROVE  Accepts(<<A, B, C>>) <=>
              (result = "none" <=> /\ Len(operands) >= 3
                                   /\ operands[1] \in A /\ operands[2] \in B /\ operands[3] \in C)
  BY DEF Accepts
<1> QED BY <1>1, <1>2, <1>3, <1>4

LEMMA OutcomesAccept ==
  ASSUME NotationIsRead, EncInv, OutcomeInv, pc = "done", result # "label"
  PROVE  Accepts(Formats(mnemonic))
<1>1. OtherOutcomes /\ OffsetOutcomes /\ line \in Lines
  BY DEF OutcomeInv, EncInv
<1>2. /\ DOMAIN operands = 1 .. Len(operands) /\ Len(operands) \in Nat
      /\ \A i \in DOMAIN operands : operands[i] \in DOMAIN Notation
  BY <1>1, EncoderAssumption DEF operands, NotationIsRead, IsRead
<1>3. mnemonic \in OpcodeLines \cup Directives
  BY <1>1 DEF OtherOutcomes
<1>4. CASE mnemonic \in {"ADD", "AND"}
  <2>1. result = Checked(3, {1, 2}, Last).error
    BY <1>1, <1>4 DEF OtherOutcomes, EndsWith
  <2>2. result = "none" <=> /\ Len(operands) >= 3
                            /\ Reg(1) # -1 /\ Reg(2) # -1
                            /\ Last.error = "none"
    BY <1>2, <2>1, CheckedAccepts DEF Reg
  <2>3. ASSUME Len(operands) >= 3
        PROVE  Last.error = "none" <=> operands[3] \in Registers \cup Numbers(-16, 15)
    <3>1. operands[3] \in DOMAIN Notation
      BY <1>2, <2>3
    <3>2. Reg(3) \in -1 .. 7 /\ Reg(3) = Register(operands[3])
      BY RegisterRange DEF Reg
    <3>3. operands[3] \in Registers <=> Reg(3) # -1
      BY <3>1, <3>2, RegistersAre
    <3>4. operands[3] \in Numbers(-16, 15) <=>
            InRange(NumericValue(operands[3]), -16, 15).error = "none"
      BY <3>1, NumbersAre
    <3> QED BY <3>2, <3>3, <3>4 DEF Last, Parsed
  <2>4. Len(operands) >= 3 => /\ operands[1] \in Registers <=> Reg(1) # -1
                              /\ operands[2] \in Registers <=> Reg(2) # -1
    BY <1>2, RegistersAre DEF Reg
  <2> QED BY <1>2, <1>4, <2>2, <2>3, <2>4, FormatsAre, AcceptsIs
<1>5. CASE mnemonic = "NOT"
  <2>1. result = Checked(2, {1, 2}, Parsed(0)).error
    BY <1>1, <1>5 DEF OtherOutcomes, EndsWith
  <2>2. result = "none" <=> Len(operands) >= 2 /\ Reg(1) # -1 /\ Reg(2) # -1
    BY <1>2, <2>1, CheckedAccepts DEF Reg, Parsed
  <2>3. Len(operands) >= 2 => /\ operands[1] \in Registers <=> Reg(1) # -1
                              /\ operands[2] \in Registers <=> Reg(2) # -1
    BY <1>2, RegistersAre DEF Reg
  <2> QED BY <1>2, <1>5, <2>2, <2>3, FormatsAre, AcceptsIs
<1>6. CASE mnemonic \in JumpOps
  <2>1. result = Checked(1, {1}, Parsed(0)).error
    BY <1>1, <1>6 DEF OtherOutcomes, EndsWith
  <2>2. result = "none" <=> Len(operands) >= 1 /\ Reg(1) # -1
    BY <1>2, <2>1, CheckedAccepts DEF Reg, Parsed
  <2>3. Len(operands) >= 1 => (operands[1] \in Registers <=> Reg(1) # -1)
    BY <1>2, RegistersAre DEF Reg
  <2> QED BY <1>2, <1>6, <2>2, <2>3, FormatsAre, AcceptsIs
<1>7. CASE mnemonic \in BranchOps \cup {"JSR"}
  <2> DEFINE half == HalfOf(mnemonic)
             o    == parse_offset(operands[1], half)
  <2>1. half \in {32, 256, 1024} /\ LastOperand(mnemonic) = 1 /\ mnemonic \in OffsetOps
    BY <1>7, HalvesAndOperands DEF OffsetOps
  <2>2. result = Checked(1, 1 .. 0, o).error
    BY <1>1, <2>1 DEF OffsetOutcomes, EndsWith, OffsetOutcome
  <2> HIDE DEF half, o
  <2>3. result = "none" <=> Len(operands) >= 1 /\ o.error = "none"
    BY <1>2, <2>2, CheckedAccepts
  <2>4. Len(operands) >= 1 => (operands[1] \in Reachable(half) <=> o.error = "none")
    BY <1>1, <1>2, <2>1, ReachableAre DEF o
  <2>5. Formats(mnemonic) = <<Reachable(half)>>
    BY <1>7, FormatsAre, HalvesAndOperands DEF half
  <2> QED BY <1>2, <2>3, <2>4, <2>5, AcceptsIs
<1>8. CASE mnemonic \in PCRelativeOps
  <2> DEFINE o == parse_offset(operands[2], 256)
  <2>1. HalfOf(mnemonic) = 256 /\ LastOperand(mnemonic) = 2 /\ mnemonic \in OffsetOps
    BY <1>8, HalvesAndOperands DEF OffsetOps
  <2>2. result = Checked(2, 1 .. 1, o).error
    <3> DEFINE n == LastOperand(mnemonic)
    <3>1. result = Checked(n, 1 .. n - 1, OffsetOutcome(mnemonic)).error
      BY <1>1, <2>1, Zenon DEF OffsetOutcomes, EndsWith
    <3>2. n = 2 /\ n - 1 = 1 /\ OffsetOutcome(mnemonic) = o
      BY <2>1 DEF OffsetOutcome
    <3> HIDE DEF n, o
    <3> QED BY <3>1, <3>2
  <2> HIDE DEF o
  <2>3. result = "none" <=> Len(operands) >= 2 /\ Reg(1) # -1 /\ o.error = "none"
    BY <1>2, <2>2, CheckedAccepts DEF Reg
  <2>4. Len(operands) >= 2 => /\ operands[1] \in Registers <=> Reg(1) # -1
                              /\ operands[2] \in Reachable(256) <=> o.error = "none"
    BY <1>1, <1>2, RegistersAre, ReachableAre DEF o, Reg
  <2> QED BY <1>2, <1>8, <2>3, <2>4, FormatsAre, AcceptsIs
<1>9. CASE mnemonic \in BaseOffsetOps
  <2> DEFINE o == parse_offset(operands[3], 32)
  <2>1. HalfOf(mnemonic) = 32 /\ LastOperand(mnemonic) = 3 /\ mnemonic \in OffsetOps
    BY <1>9, HalvesAndOperands DEF OffsetOps
  <2>2. result = Checked(3, 1 .. 2, o).error
    <3> DEFINE n == LastOperand(mnemonic)
    <3>1. result = Checked(n, 1 .. n - 1, OffsetOutcome(mnemonic)).error
      BY <1>1, <2>1, Zenon DEF OffsetOutcomes, EndsWith
    <3>2. n = 3 /\ n - 1 = 2 /\ OffsetOutcome(mnemonic) = o
      BY <2>1 DEF OffsetOutcome
    <3> HIDE DEF n, o
    <3> QED BY <3>1, <3>2
  <2> HIDE DEF o
  <2>3. result = "none" <=> /\ Len(operands) >= 3 /\ Reg(1) # -1 /\ Reg(2) # -1
                            /\ o.error = "none"
    <3>1. 1 .. 2 = {1, 2}
      OBVIOUS
    <3> QED BY <1>2, <2>2, <3>1, CheckedAccepts DEF Reg
  <2>4. Len(operands) >= 3 => /\ operands[1] \in Registers <=> Reg(1) # -1
                              /\ operands[2] \in Registers <=> Reg(2) # -1
                              /\ operands[3] \in Reachable(32) <=> o.error = "none"
    BY <1>1, <1>2, RegistersAre, ReachableAre DEF o, Reg
  <2> QED BY <1>2, <1>9, <2>3, <2>4, FormatsAre, AcceptsIs
<1>10. ASSUME NEW lower, NEW upper, Formats(mnemonic) = <<Numbers(lower, upper)>>,
              result = Checked(1, {}, InRange(NumericValue(operands[1]), lower, upper)).error
       PROVE  Accepts(Formats(mnemonic))
  <2> DEFINE o == InRange(NumericValue(operands[1]), lower, upper)
  <2> HIDE DEF o
  <2>1. result = "none" <=> Len(operands) >= 1 /\ o.error = "none"
    BY <1>2, <1>10, CheckedAccepts DEF o
  <2>2. Len(operands) >= 1 => (operands[1] \in Numbers(lower, upper) <=> o.error = "none")
    BY <1>2, NumbersAre DEF o
  <2> QED BY <1>2, <1>10, <2>1, <2>2, AcceptsIs
<1>11. CASE mnemonic = "TRAP"
  BY <1>1, <1>10, <1>11, FormatsAre DEF OtherOutcomes, EndsWith
<1>12. CASE mnemonic \in {".ORIG", ".BLKW"}
  BY <1>1, <1>10, <1>12, FormatsAre DEF OtherOutcomes, EndsWith, Addresses
<1>13. CASE mnemonic = ".FILL"
  <2>1. result = Checked(1, {}, FillOutcome).error
    BY <1>1, <1>13 DEF OtherOutcomes, EndsWith
  <2>2. result = "none" <=> Len(operands) >= 1 /\ FillOutcome.error = "none"
    BY <1>2, <2>1, CheckedAccepts
  <2>3. Len(operands) >= 1 => (operands[1] \in Values <=> FillOutcome.error = "none")
    BY <1>1, <1>2, FillsAre DEF Values
  <2>4. Formats(mnemonic) = <<Values>>
    BY <1>13, FormatsAre
  <2> QED BY <1>2, <2>2, <2>3, <2>4, AcceptsIs
<1>14. CASE mnemonic \in FixedOps
  <2>1. result = Checked(0, {}, Parsed(0)).error
    BY <1>1, <1>14 DEF OtherOutcomes, EndsWith
  <2>2. result = "none"
    BY <1>2, <2>1, CheckedAccepts DEF Parsed
  <2> QED BY <1>2, <1>14, <2>2, FormatsAre, AcceptsIs
<1>15. \/ mnemonic \in {"ADD", "AND"} \/ mnemonic = "NOT" \/ mnemonic \in JumpOps
       \/ mnemonic \in BranchOps \cup {"JSR"} \/ mnemonic \in PCRelativeOps
       \/ mnemonic \in BaseOffsetOps \/ mnemonic = "TRAP" \/ mnemonic = ".FILL"
       \/ mnemonic \in {".ORIG", ".BLKW"} \/ mnemonic \in FixedOps
  BY <1>3 DEF OpcodeLines, Directives, JumpOps, BranchOps, PCRelativeOps, BaseOffsetOps, FixedOps
<1> QED
  BY <1>4, <1>5, <1>6, <1>7, <1>8, <1>9, <1>11, <1>12, <1>13, <1>14, <1>15

LEMMA ExactlyAccepted ==
  ASSUME NotationIsRead, EncInv, OutcomeInv
  PROVE  AcceptedExactly
<1> SUFFICES ASSUME pc = "done", result # "label"
             PROVE  /\ Accepts(Formats(mnemonic))
                    /\ result = "none" =>
                         \A i \in DOMAIN Formats(mnemonic) :
                           operands[i] \in Of("number") =>
                             NumericValue(operands[i]) =
                               [ok |-> TRUE, val |-> Notation[operands[i]].val]
  BY Zenon DEF AcceptedExactly, Accepts
<1>1. Accepts(Formats(mnemonic))
  BY OutcomesAccept
<1>2. ASSUME NEW i, operands[i] \in Of("number")
      PROVE  NumericValue(operands[i]) = [ok |-> TRUE, val |-> Notation[operands[i]].val]
  BY <1>2, KindIs DEF Of
<1> QED BY <1>1, <1>2

(***************************************************************************)
(* A line is accepted exactly when its operands are in its formats, if the *)
(* numbers and registers are those texts that are read as such.            *)
(***************************************************************************)
THEOREM FormatsAreAccepted ==
  ASSUME NotationIsRead
  PROVE  Spec => []AcceptedExactly
<1>1. EncInv /\ OutcomeInv => AcceptedExactly
  BY ExactlyAccepted
<1> QED BY <1>1, OutcomeInvariant, PTL
===============================================================================
