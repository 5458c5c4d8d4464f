---------------------------- MODULE ObjDump_proofs ----------------------------
(***************************************************************************)
(* The listing of lc3objdump reads back as the words of the object file,   *)
(* and success means that it is complete: proofs of ListingReadsBack and   *)
(* SuccessMeansListed for programs of every length.                        *)
(***************************************************************************)
EXTENDS ObjDumpProperties, SequenceTheorems, TLAPS

Byte == 0 .. 255

Modes == {"bin", "hex", "dec"}

HexDigits == {"0", "1", "2", "3", "4", "5", "6", "7", "8", "9", "A", "B", "C", "D", "E", "F"}

\* What is printed
Char == HexDigits \cup {" ", "newline"}

(***************************************************************************)
(* What strtol reads in the digits of a byte.                              *)
(***************************************************************************)

LEMMA DigitsAreHex == \A d \in 1 .. 16 : Digits[d] \in HexDigits
PROOF
<1>1. \A d \in 1 .. 16 : \/ d = 1  \/ d = 2  \/ d = 3  \/ d = 4
                         \/ d = 5  \/ d = 6  \/ d = 7  \/ d = 8
                         \/ d = 9  \/ d = 10 \/ d = 11 \/ d = 12
                         \/ d = 13 \/ d = 14 \/ d = 15 \/ d = 16
  OBVIOUS
<1>2. /\ Digits[1] = "0"  /\ Digits[2] = "1"  /\ Digits[3] = "2"  /\ Digits[4] = "3"
      /\ Digits[5] = "4"  /\ Digits[6] = "5"  /\ Digits[7] = "6"  /\ Digits[8] = "7"
      /\ Digits[9] = "8"  /\ Digits[10] = "9" /\ Digits[11] = "A" /\ Digits[12] = "B"
      /\ Digits[13] = "C" /\ Digits[14] = "D" /\ Digits[15] = "E" /\ Digits[16] = "F"
  BY DEF Digits
<1> QED
  BY <1>1, <1>2 DEF HexDigits

\* The digit x of a base, as a character, is not a sign, and is read as x.
LEMMA DigitIsRead ==
  ASSUME NEW base \in 1 .. 16, NEW x \in 0 .. base - 1
  PROVE  /\ IsDigit(Digits[x + 1], base)
         /\ DigitValue(Digits[x + 1]) = x
         /\ Digits[x + 1] \in Char
         /\ Digits[x + 1] \notin {"-", "+", "x"}
PROOF
<1>1. DOMAIN Digits = 1 .. 16
  BY DEF Digits
<1>2. x + 1 \in 1 .. 16 /\ x + 1 \in 1 .. base
  OBVIOUS
<1>3. \A d \in 1 .. 16 : Digits[d] = Digits[x + 1] => d = x + 1
  BY <1>2 DEF Digits
<1>4. IsDigit(Digits[x + 1], base)
  BY <1>2 DEF IsDigit
<1>5. DigitValue(Digits[x + 1]) = x
  BY <1>1, <1>2, <1>3 DEF DigitValue
<1>6. Digits[x + 1] \in HexDigits
  BY <1>2, DigitsAreHex
<1>7. HexDigits \cap {"-", "+", "x"} = {}
  BY DEF HexDigits
<1> QED
  BY <1>4, <1>5, <1>6, <1>7 DEF Char

\* The text consists of digits of the base.
DigitText(text, base) ==
  \A k \in 1 .. Len(text) : IsDigit(text[k], base) /\ text[k] \notin {"-", "+", "x"}

\* w[k] is the number that the first k digits of the text are.
Reading(text, base, w) ==
  /\ w = [k \in 0 .. Len(text) |-> w[k]]
  /\ w[0] = 0
  /\ \A k \in 1 .. Len(text) : w[k] = base * w[k - 1] + DigitValue(text[k])

Horner(text, base, f) ==
  [k \in 0 .. Len(text) |-> IF k < 1 THEN 0 ELSE base * f[k - 1] + DigitValue(text[k])]

\* strtol reads all of a text of digits, and the recursion has a solution
\* if there is some reading w.
LEMMA DigitsAreRead ==
  ASSUME NEW text \in Seq(Char), NEW base \in {2, 10, 16}, Len(text) > 0,
         DigitText(text, base), NEW w, Reading(text, base, w)
  PROVE  \E v : Reading(text, base, v) /\ strtol(text, base) = [ok |-> TRUE, val |-> v[Len(text)]]
PROOF
<1> DEFINE Has(k, c) == k <= Len(text) /\ text[k] = c
           signed    == Has(1, "-") \/ Has(1, "+")
           first     == IF signed THEN 2 ELSE 1
           start     == IF /\ base = 16
                           /\ Has(first, "0") /\ Has(first + 1, "x")
                           /\ first + 2 <= Len(text) /\ IsDigit(text[first + 2], 16)
                          THEN first + 2 ELSE first
           end       == CHOOSE k \in start - 1 .. Len(text) :
                          /\ \A n \in start .. k : IsDigit(text[n], base)
                          /\ k < Len(text) => ~IsDigit(text[k + 1], base)
           value[k \in start - 1 .. end] ==
             IF k < start THEN 0 ELSE base * value[k - 1] + DigitValue(text[k])
<1>1. strtol(text, base)
        = [ok |-> end >= start, val |-> IF Has(1, "-") THEN -value[end] ELSE value[end]]
  BY DEF strtol
<1>2. ~Has(1, "-") /\ ~Has(1, "+") /\ ~Has(2, "x")
  BY DEF DigitText
<1>3. start = 1
  BY <1>2
<1>4. end = Len(text)
  <2>1. \A k \in 1 .. Len(text) : IsDigit(text[k], base)
    BY DEF DigitText
  <2> HIDE DEF start
  <2> QED
    BY <1>3, <2>1
<1>5. value = CHOOSE f : f = Horner(text, base, f)
  <2> HIDE DEF start, end
  <2> QED
    BY <1>3, <1>4 DEF Horner
<1> HIDE DEF Has, start, end, value
<1>6. w = Horner(text, base, w)
  <2>1. \A k \in 0 .. Len(text) :
          w[k] = IF k < 1 THEN 0 ELSE base * w[k - 1] + DigitValue(text[k])
    BY DEF Reading
  <2> QED
    BY <2>1 DEF Reading, Horner
<1>7. value = Horner(text, base, value)
  BY <1>5, <1>6
<1>8. Reading(text, base, value)
  <2>1. value = [k \in 0 .. Len(text) |-> value[k]]
    BY <1>7 DEF Horner
  <2>2. value[0] = 0
    BY <1>7 DEF Horner
  <2>3. \A k \in 1 .. Len(text) : value[k] = base * value[k - 1] + DigitValue(text[k])
    BY <1>7 DEF Horner
  <2> QED
    BY <2>1, <2>2, <2>3 DEF Reading
<1>9. strtol(text, base) = [ok |-> TRUE, val |-> value[Len(text)]]
  <2>1. (end >= start) = TRUE
    BY <1>3, <1>4
  <2> QED
    BY <1>1, <1>2, <1>4, <2>1
<1> QED
  BY <1>8, <1>9

\* There is one reading of a text.
LEMMA ReadingIsUnique ==
  ASSUME NEW text \in Seq(Char), NEW base \in {2, 10, 16}, Len(text) <= 8,
         NEW v, NEW w, Reading(text, base, v), Reading(text, base, w)
  PROVE  v[Len(text)] = w[Len(text)]
PROOF
<1>1. v[0] = w[0]
  BY DEF Reading
<1>2. \A k \in 1 .. Len(text) : v[k - 1] = w[k - 1] => v[k] = w[k]
  BY DEF Reading
<1> QED
  BY <1>1, <1>2

DigitChar(c, base) == IsDigit(c, base) /\ c \in Char /\ c \notin {"-", "+", "x"}

LEMMA DigitOfIsDigit ==
  ASSUME NEW byte \in Byte, NEW base \in {2, 10, 16}, NEW weight \in Nat \ {0}
  PROVE  DigitChar(DigitOf(byte, weight, base), base)
PROOF
<1>1. byte \div weight \in Nat
  BY DEF Byte
<1>2. (byte \div weight) % base \in 0 .. base - 1
  BY <1>1
<1>3. base \in 1 .. 16
  OBVIOUS
<1> HIDE DEF Char
<1> QED
  BY <1>2, <1>3, DigitIsRead DEF DigitOf, DigitChar

\* What is printed of a byte begins with its digits.
LEMMA ByteIsPrinted ==
  ASSUME output_mode \in Modes, NEW byte \in Byte
  PROVE  /\ print_f(byte) \in Seq(Char)
         /\ Len(print_f(byte)) = ByteWidth
         /\ \A k \in 1 .. ByteDigits : DigitChar(print_f(byte)[k], Base)
PROOF
<1>1. CASE output_mode = "bin"
  <2>1. \A k \in 1 .. 8 : Weights[k] \in Nat \ {0}
    BY DEF Weights
  <2>2. \A k \in 1 .. 8 : DigitChar(print_bin(byte)[k], 2)
    BY <2>1, DigitOfIsDigit DEF print_bin
  <2>3. print_f(byte) = print_bin(byte) /\ ByteDigits = 8 /\ ByteWidth = 8 /\ Base = 2
    BY <1>1 DEF print_f, ByteDigits, ByteWidth, Base
  <2>4. print_bin(byte) \in Seq(Char) /\ Len(print_bin(byte)) = 8
    BY <2>2 DEF print_bin, DigitChar
  <2> QED
    BY <2>2, <2>3, <2>4
<1>2. CASE output_mode = "hex"
  <2> DEFINE a == DigitOf(byte, 16, 16)
             b == DigitOf(byte, 1, 16)
             blank == " "
  <2>1. DigitChar(a, 16) /\ DigitChar(b, 16)
    BY DigitOfIsDigit
  <2>2. print_hex(byte) = <<a, b, blank>>
    BY DEF print_hex
  <2>3. print_f(byte) = print_hex(byte) /\ ByteDigits = 2 /\ ByteWidth = 3 /\ Base = 16
    BY <1>2 DEF print_f, ByteDigits, ByteWidth, Base
  <2>4. a \in Char /\ b \in Char /\ blank \in Char
    BY <2>1 DEF DigitChar, Char
  <2> HIDE DEF a, b, blank
  <2>5. <<a, b, blank>> \in Seq(Char) /\ Len(<<a, b, blank>>) = 3
    BY <2>4
  <2>6. \A k \in 1 .. 2 : DigitChar(<<a, b, blank>>[k], 16)
    BY <2>1
  <2> QED
    BY <2>2, <2>3, <2>5, <2>6
<1>3. CASE output_mode = "dec"
  <2> DEFINE a == DigitOf(byte, 100, 10)
             b == DigitOf(byte, 10, 10)
             d == DigitOf(byte, 1, 10)
             blank == " "
  <2>1. DigitChar(a, 10) /\ DigitChar(b, 10) /\ DigitChar(d, 10)
    BY DigitOfIsDigit
  <2>2. print_dec(byte) = <<a, b, d, blank>>
    BY DEF print_dec
  <2>3. print_f(byte) = print_dec(byte) /\ ByteDigits = 3 /\ ByteWidth = 4 /\ Base = 10
    BY <1>3 DEF print_f, ByteDigits, ByteWidth, Base
  <2>4. a \in Char /\ b \in Char /\ d \in Char /\ blank \in Char
    BY <2>1 DEF DigitChar, Char
  <2> HIDE DEF a, b, d, blank
  <2>5. <<a, b, d, blank>> \in Seq(Char) /\ Len(<<a, b, d, blank>>) = 4
    BY <2>4
  <2>6. \A k \in 1 .. 3 : DigitChar(<<a, b, d, blank>>[k], 10)
    BY <2>1
  <2> QED
    BY <2>2, <2>3, <2>5, <2>6
<1> QED
  BY <1>1, <1>2, <1>3 DEF Modes

LEMMA DigitOfIsRead ==
  ASSUME NEW byte \in Byte, NEW base \in {2, 10, 16}, NEW weight \in Nat \ {0}
  PROVE  DigitValue(DigitOf(byte, weight, base)) = (byte \div weight) % base
PROOF
<1>1. byte \div weight \in Nat
  BY DEF Byte
<1>2. (byte \div weight) % base \in 0 .. base - 1
  BY <1>1
<1>3. base \in 1 .. 16
  OBVIOUS
<1> QED
  BY <1>2, <1>3, DigitIsRead DEF DigitOf

\* The bits, the two hex digits and the three decimal digits of a byte
LEMMA Bits ==
  ASSUME NEW byte \in Byte
  PROVE  /\ (byte \div 128) % 2 = byte \div 128
         /\ 2 * (byte \div 128) + ((byte \div 64) % 2) = byte \div 64
         /\ 2 * (byte \div 64) + ((byte \div 32) % 2) = byte \div 32
         /\ 2 * (byte \div 32) + ((byte \div 16) % 2) = byte \div 16
         /\ 2 * (byte \div 16) + ((byte \div 8) % 2) = byte \div 8
         /\ 2 * (byte \div 8) + ((byte \div 4) % 2) = byte \div 4
         /\ 2 * (byte \div 4) + ((byte \div 2) % 2) = byte \div 2
         /\ 2 * (byte \div 2) + ((byte \div 1) % 2) = byte \div 1
         /\ byte \div 1 = byte
         /\ (byte \div 16) % 16 = byte \div 16
         /\ 16 * (byte \div 16) + ((byte \div 1) % 16) = byte
         /\ (byte \div 100) % 10 = byte \div 100
         /\ 10 * (byte \div 100) + ((byte \div 10) % 10) = byte \div 10
         /\ 10 * (byte \div 10) + ((byte \div 1) % 10) = byte
PROOF
<1>0. byte \in 0 .. 255
  BY DEF Byte
<1>1. (byte \div 128) % 2 = byte \div 128
  BY <1>0
<1>2. 2 * (byte \div 128) + ((byte \div 64) % 2) = byte \div 64
  BY <1>0
<1>3. 2 * (byte \div 64) + ((byte \div 32) % 2) = byte \div 32
  BY <1>0
<1>4. 2 * (byte \div 32) + ((byte \div 16) % 2) = byte \div 16
  BY <1>0
<1>5. 2 * (byte \div 16) + ((byte \div 8) % 2) = byte \div 8
  BY <1>0
<1>6. 2 * (byte \div 8) + ((byte \div 4) % 2) = byte \div 4
  BY <1>0
<1>7. 2 * (byte \div 4) + ((byte \div 2) % 2) = byte \div 2
  BY <1>0
<1>8. 2 * (byte \div 2) + ((byte \div 1) % 2) = byte \div 1
  BY <1>0
<1>9. byte \div 1 = byte
  BY <1>0
<1>10. (byte \div 16) % 16 = byte \div 16
  BY <1>0
<1>11. 16 * (byte \div 16) + ((byte \div 1) % 16) = byte
  BY <1>0
<1>12. (byte \div 100) % 10 = byte \div 100
  BY <1>0
<1>13. 10 * (byte \div 100) + ((byte \div 10) % 10) = byte \div 10
  BY <1>0
<1>14. 10 * (byte \div 10) + ((byte \div 1) % 10) = byte
  BY <1>0
<1> QED
  BY <1>1, <1>2, <1>3, <1>4, <1>5, <1>6, <1>7, <1>8, <1>9, <1>10, <1>11, <1>12, <1>13, <1>14

\* The digits printed of a byte are a text strtol reads as the byte.
LEMMA ByteReadsBack ==
  ASSUME output_mode \in Modes, NEW byte \in Byte, NEW text \in Seq(Char),
         Len(text) = ByteDigits, \A k \in 1 .. ByteDigits : text[k] = print_f(byte)[k]
  PROVE  strtol(text, Base) = [ok |-> TRUE, val |-> byte]
PROOF
<1>1. DigitText(text, Base)
  BY ByteIsPrinted DEF DigitText, DigitChar
<1> DEFINE q(w) == byte \div w
<1>2. CASE output_mode = "bin"
  <2>1. print_f(byte) = print_bin(byte) /\ ByteDigits = 8 /\ Base = 2
    BY <1>2 DEF print_f, ByteDigits, Base
  <2>2. /\ Weights[1] = 128 /\ Weights[2] = 64 /\ Weights[3] = 32 /\ Weights[4] = 16
        /\ Weights[5] = 8   /\ Weights[6] = 4  /\ Weights[7] = 2  /\ Weights[8] = 1
    BY DEF Weights
  <2>3. \A k \in 1 .. 8 : text[k] = DigitOf(byte, Weights[k], 2)
    BY <2>1 DEF print_bin
  <2>4. \A k \in 1 .. 8 : Weights[k] \in Nat \ {0}
    BY DEF Weights
  <2>5. \A k \in 1 .. 8 : DigitValue(text[k]) = q(Weights[k]) % 2
    BY <2>3, <2>4, DigitOfIsRead
  <2> DEFINE v == [k \in 0 .. 8 |-> IF k = 0 THEN 0 ELSE q(Weights[k])]
  <2>6. Reading(text, 2, v)
    <3>1. /\ q(128) % 2 = q(128)
          /\ 2 * q(128) + (q(64) % 2) = q(64) /\ 2 * q(64) + (q(32) % 2) = q(32)
          /\ 2 * q(32) + (q(16) % 2) = q(16)  /\ 2 * q(16) + (q(8) % 2) = q(8)
          /\ 2 * q(8) + (q(4) % 2) = q(4)     /\ 2 * q(4) + (q(2) % 2) = q(2)
          /\ 2 * q(2) + (q(1) % 2) = q(1)
      BY Bits
    <3>2. \A w \in {128, 64, 32, 16, 8, 4, 2, 1} : q(w) \in Nat
      BY DEF Byte
    <3> HIDE DEF q
    <3>3. /\ DigitValue(text[1]) = q(128) % 2 /\ DigitValue(text[2]) = q(64) % 2
          /\ DigitValue(text[3]) = q(32) % 2  /\ DigitValue(text[4]) = q(16) % 2
          /\ DigitValue(text[5]) = q(8) % 2   /\ DigitValue(text[6]) = q(4) % 2
          /\ DigitValue(text[7]) = q(2) % 2   /\ DigitValue(text[8]) = q(1) % 2
      BY <2>2, <2>5
    <3>4. /\ v[0] = 0 /\ v[1] = q(128) /\ v[2] = q(64) /\ v[3] = q(32) /\ v[4] = q(16)
          /\ v[5] = q(8) /\ v[6] = q(4) /\ v[7] = q(2) /\ v[8] = q(1)
      BY <2>2
    <3>8. /\ q(128) = 2 * 0 + DigitValue(text[1]) /\ q(64) = 2 * q(128) + DigitValue(text[2])
          /\ q(32) = 2 * q(64) + DigitValue(text[3]) /\ q(16) = 2 * q(32) + DigitValue(text[4])
          /\ q(8) = 2 * q(16) + DigitValue(text[5]) /\ q(4) = 2 * q(8) + DigitValue(text[6])
          /\ q(2) = 2 * q(4) + DigitValue(text[7]) /\ q(1) = 2 * q(2) + DigitValue(text[8])
      BY <3>1, <3>2, <3>3
    <3> HIDE DEF v
    <3>5. \A k \in 1 .. 8 : k = 1 \/ k = 2 \/ k = 3 \/ k = 4 \/ k = 5 \/ k = 6 \/ k = 7 \/ k = 8
      OBVIOUS
    <3>6. \A k \in 1 .. 8 : v[k] = 2 * v[k - 1] + DigitValue(text[k])
      BY <3>4, <3>5, <3>8
    <3>7. v = [k \in 0 .. 8 |-> v[k]]
      BY DEF v
    <3> QED
      BY <2>1, <3>4, <3>6, <3>7 DEF Reading
  <2>7. q(1) = byte
    BY Bits
  <2>8. v[8] = byte
    BY <2>2, <2>7
  <2> HIDE DEF v
  <2>9. PICK w : Reading(text, 2, w) /\ strtol(text, 2) = [ok |-> TRUE, val |-> w[Len(text)]]
    <3>1. DigitText(text, 2) /\ Len(text) > 0 /\ 2 \in {2, 10, 16}
      BY <1>1, <2>1
    <3> HIDE DEF v, q
    <3> QED
      BY <3>1, <2>6, DigitsAreRead
  <2> QED
    <3>1. Len(text) <= 8 /\ Len(text) = 8 /\ 2 \in {2, 10, 16}
      BY <2>1
    <3>2. w[Len(text)] = v[Len(text)]
      BY <3>1, <2>6, <2>9, ReadingIsUnique
    <3> QED
      BY <2>1, <2>8, <2>9, <3>1, <3>2
<1>3. CASE output_mode = "hex"
  <2>1. print_f(byte) = print_hex(byte) /\ ByteDigits = 2 /\ Base = 16
    BY <1>3 DEF print_f, ByteDigits, Base
  <2>2. text[1] = DigitOf(byte, 16, 16) /\ text[2] = DigitOf(byte, 1, 16)
    <3> DEFINE a == DigitOf(byte, 16, 16)
               b == DigitOf(byte, 1, 16)
               blank == " "
    <3>1. print_f(byte) = <<a, b, blank>>
      BY <2>1 DEF print_hex
    <3> HIDE DEF a, b, blank
    <3>2. text[1] = a /\ text[2] = b
      BY <2>1, <3>1
    <3> QED
      BY <3>2 DEF a, b
  <2>3. DigitValue(text[1]) = q(16) % 16 /\ DigitValue(text[2]) = q(1) % 16
    BY <2>2, DigitOfIsRead
  <2> DEFINE v == [k \in 0 .. 2 |-> CASE k = 0 -> 0 [] k = 1 -> q(16) [] k = 2 -> byte]
  <2>4. Reading(text, 16, v)
    <3>1. q(16) % 16 = q(16) /\ 16 * q(16) + (q(1) % 16) = byte
      BY Bits
    <3>2. q(16) \in Nat
      BY DEF Byte
    <3>3. v[0] = 0 /\ v[1] = q(16) /\ v[2] = byte
      OBVIOUS
    <3> HIDE DEF q, v
    <3>4. \A k \in 1 .. 2 : v[k] = 16 * v[k - 1] + DigitValue(text[k])
      BY <2>3, <3>1, <3>2, <3>3
    <3>5. v = [k \in 0 .. 2 |-> v[k]]
      BY DEF v
    <3> QED
      BY <2>1, <3>3, <3>4, <3>5 DEF Reading
  <2>5. v[2] = byte
    OBVIOUS
  <2> HIDE DEF v
  <2>6. PICK w : Reading(text, 16, w) /\ strtol(text, 16) = [ok |-> TRUE, val |-> w[Len(text)]]
    <3>1. DigitText(text, 16) /\ Len(text) > 0 /\ 16 \in {2, 10, 16}
      BY <1>1, <2>1
    <3> HIDE DEF v, q
    <3> QED
      BY <3>1, <2>4, DigitsAreRead
  <2> QED
    <3>1. Len(text) <= 8 /\ Len(text) = 2 /\ 16 \in {2, 10, 16}
      BY <2>1
    <3>2. w[Len(text)] = v[Len(text)]
      BY <3>1, <2>4, <2>6, ReadingIsUnique
    <3> QED
      BY <2>1, <2>5, <2>6, <3>1, <3>2
<1>4. CASE output_mode = "dec"
  <2>1. print_f(byte) = print_dec(byte) /\ ByteDigits = 3 /\ Base = 10
    BY <1>4 DEF print_f, ByteDigits, Base
  <2>2. /\ text[1] = DigitOf(byte, 100, 10) /\ text[2] = DigitOf(byte, 10, 10)
        /\ text[3] = DigitOf(byte, 1, 10)
    <3> DEFINE a == DigitOf(byte, 100, 10)
               b == DigitOf(byte, 10, 10)
               d == DigitOf(byte, 1, 10)
               blank == " "
    <3>1. print_f(byte) = <<a, b, d, blank>>
      BY <2>1 DEF print_dec
    <3> HIDE DEF a, b, d, blank
    <3>2. text[1] = a /\ text[2] = b /\ text[3] = d
      BY <2>1, <3>1
    <3> QED
      BY <3>2 DEF a, b, d
  <2>3. /\ DigitValue(text[1]) = q(100) % 10 /\ DigitValue(text[2]) = q(10) % 10
        /\ DigitValue(text[3]) = q(1) % 10
    BY <2>2, DigitOfIsRead
  <2> DEFINE v == [k \in 0 .. 3 |->
                     CASE k = 0 -> 0 [] k = 1 -> q(100) [] k = 2 -> q(10) [] k = 3 -> byte]
  <2>4. Reading(text, 10, v)
    <3>1. /\ q(100) % 10 = q(100) /\ 10 * q(100) + (q(10) % 10) = q(10)
          /\ 10 * q(10) + (q(1) % 10) = byte
      BY Bits
    <3>2. q(100) \in Nat /\ q(10) \in Nat
      BY DEF Byte
    <3>3. v[0] = 0 /\ v[1] = q(100) /\ v[2] = q(10) /\ v[3] = byte
      OBVIOUS
    <3> HIDE DEF q, v
    <3>6. /\ q(100) = 10 * 0 + DigitValue(text[1]) /\ q(10) = 10 * q(100) + DigitValue(text[2])
          /\ byte = 10 * q(10) + DigitValue(text[3])
      BY <2>3, <3>1, <3>2
    <3>4. \A k \in 1 .. 3 : v[k] = 10 * v[k - 1] + DigitValue(text[k])
      BY <3>3, <3>6
    <3>5. v = [k \in 0 .. 3 |-> v[k]]
      BY DEF v
    <3> QED
      BY <2>1, <3>3, <3>4, <3>5 DEF Reading
  <2>5. v[3] = byte
    OBVIOUS
  <2> HIDE DEF v
  <2>6. PICK w : Reading(text, 10, w) /\ strtol(text, 10) = [ok |-> TRUE, val |-> w[Len(text)]]
    <3>1. DigitText(text, 10) /\ Len(text) > 0 /\ 10 \in {2, 10, 16}
      BY <1>1, <2>1
    <3> HIDE DEF v, q
    <3> QED
      BY <3>1, <2>4, DigitsAreRead
  <2> QED
    <3>1. Len(text) <= 8 /\ Len(text) = 3 /\ 10 \in {2, 10, 16}
      BY <2>1
    <3>2. w[Len(text)] = v[Len(text)]
      BY <3>1, <2>4, <2>6, ReadingIsUnique
    <3> QED
      BY <2>1, <2>5, <2>6, <3>1, <3>2
<1> QED
  BY <1>2, <1>3, <1>4 DEF Modes

(***************************************************************************)
(* Where the bytes are in the listing.                                     *)
(***************************************************************************)
LEMMA Widths ==
  ASSUME output_mode \in Modes
  PROVE  \/ ByteWidth = 8 /\ ByteDigits = 8
         \/ ByteWidth = 3 /\ ByteDigits = 2
         \/ ByteWidth = 4 /\ ByteDigits = 3
PROOF
  BY DEF Modes, ByteWidth, ByteDigits

\* The characters of m bytes
Chars(m) == m * ByteWidth

LEMMA BeforeNext ==
  ASSUME output_mode \in Modes, NEW m \in Nat
  PROVE  /\ Before(m + 1) = Chars(m) + m \div 2
         /\ Before(m + 1) \in Nat
         /\ Chars(m) \in Nat
         /\ Chars(m + 1) = Chars(m) + ByteWidth
PROOF
<1>1. Before(m + 1) = Chars(m) + m \div 2
  BY Widths DEF Before, Chars
<1>2. Chars(m) \in Nat /\ m \div 2 \in Nat
  BY Widths DEF Chars
<1>3. Chars(m + 1) = Chars(m) + ByteWidth
  BY Widths DEF Chars
<1> QED
  BY <1>1, <1>2, <1>3

\* The digits of a byte and what follows them end before the next byte.
LEMMA BeforeGrows ==
  ASSUME output_mode \in Modes, NEW n \in Nat \ {0}, NEW m \in Nat, n <= m
  PROVE  Before(n) \in Nat /\ Before(n) + ByteWidth <= Chars(m) + (m - 1) \div 2
PROOF
<1>1. Before(n) = (n - 1) * ByteWidth + (n - 1) \div 2
  BY DEF Before
<1>2. (n - 1) \div 2 <= (m - 1) \div 2 /\ (n - 1) \div 2 \in Nat
  OBVIOUS
<1>3. (n - 1) * ByteWidth + ByteWidth <= Chars(m) /\ (n - 1) * ByteWidth \in Nat
  BY Widths DEF Chars
<1>4. (m - 1) \div 2 \in Nat /\ Chars(m) \in Nat /\ ByteWidth \in Nat
  BY Widths DEF Chars
<1> QED
  BY <1>1, <1>2, <1>3, <1>4

(***************************************************************************)
(* out lists the first m bytes of the file on lines that k newlines end.   *)
(***************************************************************************)
Listing(out, m, k) ==
  /\ out \in Seq(Char)
  /\ Len(out) = Chars(m) + k
  /\ \A n \in 1 .. m : \A d \in 1 .. ByteWidth : out[Before(n) + d] = print_f(file[n])[d]
  /\ \A n \in 1 .. m : n % 2 = 1 /\ n > 1 => out[Before(n)] = "newline"
  /\ k = (m + 1) \div 2 /\ m > 0 => out[Len(out)] = "newline"

\* The same, of any mode, file and output
WidthIn(mode) == CASE mode = "bin" -> 8 [] mode = "hex" -> 3 [] OTHER -> 4

ShownIn(mode, byte) == CASE mode = "bin" -> print_bin(byte)
                         [] mode = "hex" -> print_hex(byte)
                         [] mode = "dec" -> print_dec(byte)

BeforeIn(mode, n) == (n - 1) * WidthIn(mode) + (n - 1) \div 2

ListingOf(mode, f, out, m, k) ==
  /\ out \in Seq(Char)
  /\ Len(out) = m * WidthIn(mode) + k
  /\ \A n \in 1 .. m : \A d \in 1 .. WidthIn(mode) :
       out[BeforeIn(mode, n) + d] = ShownIn(mode, f[n])[d]
  /\ \A n \in 1 .. m : n % 2 = 1 /\ n > 1 => out[BeforeIn(mode, n)] = "newline"
  /\ k = (m + 1) \div 2 /\ m > 0 => out[Len(out)] = "newline"

LEMMA ListingIs ==
  ASSUME output_mode \in Modes
  PROVE  \A out, m, k : Listing(out, m, k) <=> ListingOf(output_mode, file, out, m, k)
PROOF
<1>1. ByteWidth = WidthIn(output_mode)
  BY DEF Modes, ByteWidth, ByteDigits, WidthIn
<1>2. \A n : Before(n) = BeforeIn(output_mode, n)
  BY <1>1 DEF Before, BeforeIn
<1>3. \A byte : print_f(byte) = ShownIn(output_mode, byte)
  BY DEF print_f, ShownIn
<1> QED
  BY <1>1, <1>2, <1>3 DEF Listing, ListingOf, Chars

LEMMA AppendedAt ==
  ASSUME NEW s \in Seq(Char), NEW t \in Seq(Char)
  PROVE  /\ s \o t \in Seq(Char)
         /\ Len(s \o t) = Len(s) + Len(t)
         /\ \A j \in 1 .. Len(s) : (s \o t)[j] = s[j]
         /\ \A j \in 1 .. Len(t) : (s \o t)[Len(s) + j] = t[j]
PROOF
  BY ConcatProperties

\* One byte more
LEMMA ByteIsListed ==
  ASSUME output_mode \in Modes, NEW out, NEW m \in Nat, m + 1 <= Len(file),
         file \in Seq(Byte), Listing(out, m, m \div 2)
  PROVE  Listing(out \o print_f(file[m + 1]), m + 1, m \div 2)
PROOF
<1> DEFINE t == print_f(file[m + 1])
           new == out \o t
<1>a. /\ Before(m + 1) = Chars(m) + m \div 2
      /\ Chars(m) \in Nat
      /\ Chars(m + 1) = Chars(m) + ByteWidth
  BY BeforeNext
<1>b. ByteWidth \in Nat \ {0}
  BY Widths
<1>1. file[m + 1] \in Byte
  OBVIOUS
<1>2. t \in Seq(Char) /\ Len(t) = ByteWidth
  BY <1>1, ByteIsPrinted
<1>3. out \in Seq(Char) /\ Len(out) = Before(m + 1)
  BY BeforeNext DEF Listing
<1> HIDE DEF t
<1>4. /\ new \in Seq(Char)
      /\ Len(new) = Len(out) + ByteWidth
      /\ \A j \in 1 .. Len(out) : new[j] = out[j]
      /\ \A j \in 1 .. ByteWidth : new[Len(out) + j] = t[j]
  BY <1>2, <1>3, AppendedAt
<1> HIDE DEF new
<1>5. Len(new) = Chars(m + 1) + m \div 2
  BY <1>3, <1>4, <1>a, <1>b
<1>6. ASSUME NEW n \in 1 .. m + 1, NEW d \in 1 .. ByteWidth
      PROVE  new[Before(n) + d] = print_f(file[n])[d]
  <2>1. CASE n = m + 1
    BY <2>1, <1>3, <1>4 DEF t
  <2>2. CASE n <= m
    <3>0. n \in Nat \ {0} /\ m \in Nat /\ n <= m
      BY <2>2
    <3>1. Before(n) \in Nat /\ Before(n) + ByteWidth <= Chars(m) + (m - 1) \div 2
      BY <3>0, BeforeGrows
    <3>2. Before(n) + d \in 1 .. Len(out)
      BY <3>1, <1>3, <1>a, <1>b
    <3>3. out[Before(n) + d] = print_f(file[n])[d]
      BY <2>2 DEF Listing
    <3> QED
      BY <1>4, <3>2, <3>3
  <2> QED
    BY <2>1, <2>2
<1>7. ASSUME NEW n \in 1 .. m + 1, n % 2 = 1, n > 1
      PROVE  new[Before(n)] = "newline"
  <2>1. CASE n = m + 1
    <3>1. m > 0 /\ m \div 2 = (m + 1) \div 2
      BY <2>1, <1>7
    <3>2. out[Len(out)] = "newline" /\ Len(out) \in 1 .. Len(out)
      BY <3>1, <1>3, <1>a, <1>b DEF Listing
    <3> QED
      BY <2>1, <3>2, <1>3, <1>4
  <2>2. CASE n <= m
    <3>0. n \in Nat \ {0} /\ m \in Nat /\ n <= m
      BY <2>2
    <3>1. Before(n) \in Nat /\ Before(n) + ByteWidth <= Chars(m) + (m - 1) \div 2
      BY <3>0, BeforeGrows
    <3>2. Before(n) > 0
      BY <1>7, Widths DEF Before
    <3>3. Before(n) \in 1 .. Len(out)
      BY <3>1, <3>2, <1>3, <1>a, <1>b
    <3>4. out[Before(n)] = "newline"
      BY <2>2, <1>7 DEF Listing
    <3> QED
      BY <1>4, <3>3, <3>4
  <2> QED
    BY <2>1, <2>2
<1>8. m \div 2 # (m + 1 + 1) \div 2
  OBVIOUS
<1>9. Listing(new, m + 1, m \div 2)
  BY <1>4, <1>5, <1>6, <1>7, <1>8 DEF Listing
<1> QED
  BY <1>9 DEF new, t

\* The end of a line
LEMMA LineIsEnded ==
  ASSUME output_mode \in Modes, NEW out, NEW m \in Nat, NEW k \in Int,
         k + 1 = (m + 1) \div 2, Listing(out, m, k)
  PROVE  Listing(out \o <<"newline">>, m, k + 1)
PROOF
<1> DEFINE t == <<"newline">>
           new == out \o t
<1>a. /\ Before(m + 1) = Chars(m) + m \div 2
      /\ Chars(m) \in Nat
      /\ Chars(m + 1) = Chars(m) + ByteWidth
  BY BeforeNext
<1>b. ByteWidth \in Nat \ {0}
  BY Widths
<1>1. t \in Seq(Char) /\ Len(t) = 1 /\ t[1] = "newline"
  BY DEF Char
<1>2. out \in Seq(Char) /\ Len(out) = Chars(m) + k /\ k >= (m - 1) \div 2
  BY DEF Listing
<1> HIDE DEF t
<1>0. /\ new \in Seq(Char)
      /\ Len(new) = Len(out) + Len(t)
      /\ \A j \in 1 .. Len(out) : new[j] = out[j]
      /\ \A j \in 1 .. Len(t) : new[Len(out) + j] = t[j]
  BY <1>1, <1>2, AppendedAt
<1>3. /\ new \in Seq(Char)
      /\ Len(new) = Len(out) + 1
      /\ \A j \in 1 .. Len(out) : new[j] = out[j]
      /\ new[Len(out) + 1] = "newline"
  BY <1>0, <1>1
<1> HIDE DEF new
<1>4. \A n \in 1 .. m : Before(n) \in Nat /\ Before(n) + ByteWidth <= Len(out)
  <2> SUFFICES ASSUME NEW n \in 1 .. m
               PROVE  Before(n) \in Nat /\ Before(n) + ByteWidth <= Len(out)
    OBVIOUS
  <2>1. n \in Nat \ {0} /\ m \in Nat /\ n <= m
    OBVIOUS
  <2>2. Before(n) \in Nat /\ Before(n) + ByteWidth <= Chars(m) + (m - 1) \div 2
    BY <2>1, BeforeGrows
  <2> QED
    BY <1>2, <2>2, <1>a, <1>b
<1>5. ASSUME NEW n \in 1 .. m, NEW d \in 1 .. ByteWidth
      PROVE  new[Before(n) + d] = print_f(file[n])[d]
  <2>1. Before(n) + d \in 1 .. Len(out)
    BY <1>2, <1>4, Widths
  <2> QED
    BY <1>3, <2>1 DEF Listing
<1>6. ASSUME NEW n \in 1 .. m, n % 2 = 1, n > 1
      PROVE  new[Before(n)] = "newline"
  <2>1. Before(n) > 0
    BY <1>6, Widths DEF Before
  <2>2. Before(n) \in 1 .. Len(out)
    BY <1>2, <1>4, <2>1, Widths
  <2> QED
    BY <1>3, <1>6, <2>2 DEF Listing
<1>7. Len(new) = Chars(m) + (k + 1)
  BY <1>2, <1>3, <1>a
<1>8. Listing(new, m, k + 1)
  BY <1>3, <1>5, <1>6, <1>7 DEF Listing
<1> QED
  BY <1>8 DEF new, t

LEMMA BeforeIsMonotone ==
  ASSUME output_mode \in Modes, NEW n \in Nat \ {0}, NEW m \in Nat \ {0}, n <= m
  PROVE  Before(n) <= Before(m) /\ Before(m) \in Nat
PROOF
<1>1. (n - 1) \div 2 <= (m - 1) \div 2 /\ (n - 1) \div 2 \in Nat /\ (m - 1) \div 2 \in Nat
  OBVIOUS
<1>2. (n - 1) * ByteWidth <= (m - 1) * ByteWidth /\ (n - 1) * ByteWidth \in Nat
  BY Widths
<1>3. (m - 1) * ByteWidth \in Nat
  BY Widths
<1> QED
  BY <1>1, <1>2, <1>3 DEF Before

\* The reader finds no more bytes than were printed,
LEMMA NoMoreThanListed ==
  ASSUME output_mode \in Modes, file \in Seq(Byte), NEW m \in 0 .. Len(file), NEW k \in Int,
         (m - 1) \div 2 <= k, k <= (m + 1) \div 2, Listing(stdout, m, k)
  PROVE  ListedBytes \in 0 .. m
PROOF
<1> DEFINE Fits(n) == /\ n = 0 \/ Before(n) + ByteDigits <= Len(stdout)
                      /\ n = Len(file) \/ Before(n + 1) + ByteDigits > Len(stdout)
<1>1. Len(stdout) = Chars(m) + k /\ Len(file) \in Nat /\ m \in Nat
  BY DEF Listing
<1>2. Before(m + 1) = Chars(m) + m \div 2 /\ Chars(m) \in Nat
  BY <1>1, BeforeNext
<1>3. ByteDigits \in Nat /\ ByteDigits >= 2 /\ ByteWidth \in Nat /\ ByteDigits <= ByteWidth
  BY Widths
<1>4. Before(m + 1) + ByteDigits > Len(stdout)
  BY <1>1, <1>2, <1>3
<1>5. m > 0 => Before(m) + ByteDigits <= Len(stdout)
  <2>1. SUFFICES ASSUME m > 0 PROVE Before(m) + ByteDigits <= Len(stdout)
    OBVIOUS
  <2>2. m \in Nat \ {0} /\ m <= m
    BY <1>1, <2>1
  <2>3. Before(m) \in Nat /\ Before(m) + ByteWidth <= Chars(m) + (m - 1) \div 2
    BY <2>2, BeforeGrows
  <2> QED
    BY <1>1, <1>2, <1>3, <2>3
<1>6. Fits(m)
  BY <1>1, <1>4, <1>5
<1>7. ASSUME NEW n \in 0 .. Len(file), Fits(n), n > m
      PROVE  FALSE
  <2>1. m + 1 \in Nat \ {0} /\ n \in Nat \ {0} /\ m + 1 <= n
    BY <1>1, <1>7
  <2>2. Before(m + 1) <= Before(n) /\ Before(n) \in Nat
    BY <2>1, BeforeIsMonotone
  <2> QED
    BY <1>1, <1>2, <1>3, <1>4, <1>7, <2>1, <2>2
<1> HIDE DEF Fits
<1>8. \E n \in 0 .. Len(file) : Fits(n)
  BY <1>6
<1>9. ListedBytes = CHOOSE n \in 0 .. Len(file) : Fits(n)
  BY DEF ListedBytes, Fits
<1>10. ListedBytes \in 0 .. Len(file) /\ Fits(ListedBytes)
  BY <1>8, <1>9
<1>11. ~(ListedBytes > m)
  BY <1>7, <1>10
<1> QED
  BY <1>1, <1>10, <1>11

\* and reads each of them as it is in the file.
LEMMA ListedIsRead ==
  ASSUME output_mode \in Modes, file \in Seq(Byte), NEW m \in 0 .. Len(file), NEW k \in Nat,
         (m - 1) \div 2 <= k, Listing(stdout, m, k), NEW n \in 1 .. m
  PROVE  Listed(n) = [ok |-> TRUE, val |-> file[n]]
PROOF
<1> DEFINE text == SubSeq(stdout, Before(n) + 1, Before(n) + ByteDigits)
<1>1. /\ stdout \in Seq(Char) /\ Len(stdout) = Chars(m) + k
      /\ \A d \in 1 .. ByteWidth : stdout[Before(n) + d] = print_f(file[n])[d]
  BY DEF Listing
<1>2. n \in Nat \ {0} /\ m \in Nat /\ n <= m /\ file[n] \in Byte
  OBVIOUS
<1>3. Before(n) \in Nat /\ Before(n) + ByteWidth <= Chars(m) + (m - 1) \div 2
  BY <1>2, BeforeGrows
<1>4. Chars(m) \in Nat
  BY <1>2, BeforeNext
<1>5. ByteDigits \in Nat /\ ByteDigits >= 2 /\ ByteWidth \in Nat /\ ByteDigits <= ByteWidth
  BY Widths
<1>6. Before(n) + ByteDigits <= Len(stdout)
  BY <1>1, <1>3, <1>4, <1>5
<1>7. /\ text \in Seq(Char)
      /\ Len(text) = ByteDigits
      /\ \A d \in 1 .. ByteDigits : text[d] = stdout[Before(n) + d]
  <2> HIDE DEF Char, Listing
  <2> DEFINE from == Before(n) + 1
             to   == Before(n) + ByteDigits
  <2>1. from \in Int /\ to \in Int /\ from <= to /\ to - from + 1 = ByteDigits
    BY <1>3, <1>5
  <2>2. from \in 1 .. Len(stdout) /\ to \in 1 .. Len(stdout)
    BY <1>1, <1>3, <1>5, <1>6
  <2>3. \A d \in 1 .. ByteDigits : from + d - 1 = Before(n) + d
    BY <1>3, <1>5
  <2>4. text = SubSeq(stdout, from, to)
    OBVIOUS
  <2> HIDE DEF from, to, text
  <2>5. \A j \in from .. to : stdout[j] \in Char
    BY <1>1, <2>1, <2>2
  <2>6. /\ SubSeq(stdout, from, to) \in Seq(Char)
        /\ Len(SubSeq(stdout, from, to)) = to - from + 1
        /\ \A d \in 1 .. to - from + 1 : SubSeq(stdout, from, to)[d] = stdout[from + d - 1]
    BY <2>1, <2>5, SubSeqProperties
  <2> QED
    BY <2>1, <2>3, <2>4, <2>6
<1>8. \A d \in 1 .. ByteDigits : text[d] = print_f(file[n])[d]
  BY <1>1, <1>5, <1>7
<1> HIDE DEF text
<1>9. strtol(text, Base) = [ok |-> TRUE, val |-> file[n]]
  BY <1>2, <1>7, <1>8, ByteReadsBack
<1> QED
  BY <1>9 DEF Listed, text

(***************************************************************************)
(* The inductive invariant.  FileInv is what the file is, DumpTypes the    *)
(* types, ReadInv what has been read at each statement, and ListInv what   *)
(* has been printed, while no output failed.                               *)
(***************************************************************************)
FileInv ==
  /\ words \in Seq(Word)
  /\ file \in Seq(Byte)
  /\ Len(file) <= 2 * Len(words)
  /\ \A n \in 1 .. Len(file) : file[n] = ByteAt(words, n)

DumpTypes ==
  /\ output_mode \in Modes \cup {"none"}
  /\ position \in 0 .. Len(file)
  /\ ferror_input \in BOOLEAN
  /\ ferror_stdout \in BOOLEAN
  /\ buf = [k \in 1 .. BUF_SIZE |-> buf[k]]
  /\ numRead \in 0 .. BUF_SIZE
  /\ i \in 0 .. BUF_SIZE + 1
  /\ stdout \in Seq(Char)

\* The bytes of the lines before, and of this line up to the i-th
ReadInv ==
  /\ pc \in {"main", "open", "read", "print", "close", "flush", "exit"}
  /\ pc \in {"open", "read", "print", "close", "flush"} => output_mode \in Modes
  /\ pc = "main" => output_mode = "none"
  /\ output_mode = "none" => stdout = <<>>
  /\ pc \in {"main", "open"} => position = 0 /\ stdout = <<>>
  /\ pc \in {"main", "open", "read", "print", "flush"} => ~ferror_input
  /\ pc = "read" => position % 2 = 0 \/ position = Len(file)
  /\ pc = "print" =>
       /\ numRead > 0
       /\ 1 <= i /\ i - 1 <= numRead
       /\ numRead <= position
       /\ (position - numRead) % 2 = 0
       /\ numRead = 1 => position = Len(file)
       /\ \A k \in 1 .. numRead : buf[k] = file[position - numRead + k]
  /\ pc \in {"close", "flush"} /\ ~ferror_input => position = Len(file)
  /\ status = "success" => /\ pc = "exit" /\ output_mode \in Modes
                           /\ ~ferror_input /\ position = Len(file)

\* The first m bytes are printed, and every line of them is ended.
Complete(m) == ListingOf(output_mode, file, stdout, m, (m + 1) \div 2)

Printed == position - numRead + i - 1

ListInv ==
  ~ferror_stdout /\ output_mode \in Modes =>
    /\ pc \in {"open", "read", "close", "flush"} \/ status = "success" => Complete(position)
    /\ pc = "print" =>
         /\ i <= numRead => ListingOf(output_mode, file, stdout, Printed, Printed \div 2)
         /\ i > numRead  =>
              ListingOf(output_mode, file, stdout, position, (position + 1) \div 2 - 1)
    /\ pc = "exit" => \E m \in 0 .. Len(file) : Complete(m)

DumpInv == FileInv /\ DumpTypes /\ ReadInv /\ ListInv

LEMMA ByteAtIsByte ==
  ASSUME NEW p \in Seq(Word), NEW n \in 1 .. 2 * Len(p)
  PROVE  ByteAt(p, n) \in Byte
PROOF
<1> DEFINE w == p[(n + 1) \div 2]
<1>1. (n + 1) \div 2 \in 1 .. Len(p)
  OBVIOUS
<1>2. w \in Word
  BY <1>1
<1> HIDE DEF w
<1>3. w \div 256 \in Byte /\ w % 256 \in Byte
  <2>1. UINT16_MAX \in Nat
    BY DEF UINT16_MAX
  <2>2. w \in Nat /\ w <= UINT16_MAX
    BY <1>2, <2>1 DEF Word
  <2>3. w \in Nat /\ w <= 65535
    BY <2>2 DEF UINT16_MAX
  <2> QED
    BY <2>3 DEF Byte
<1>4. ByteAt(p, n) = <<w \div 256, w % 256>>[IF n % 2 = 1 THEN 1 ELSE 2]
  BY DEF ByteAt, write_machine_instruction, w
<1> QED
  BY <1>3, <1>4

LEMMA DumpInitially == Init => DumpInv
PROOF
<1> SUFFICES ASSUME Init PROVE DumpInv
  OBVIOUS
<1>1. FileInv
  <2>1. words \in Programs
    BY DEF Init
  <2>2. words \in Seq(Word)
    BY <2>1, ObjDumpAssumption
  <2>3. PICK size \in 0 .. 2 * Len(words) : file = [n \in 1 .. size |-> ByteAt(words, n)]
    BY DEF Init
  <2>4. size \in Nat /\ size <= 2 * Len(words)
    BY <2>2
  <2>5. \A n \in 1 .. size : ByteAt(words, n) \in Byte
    BY <2>2, <2>4, ByteAtIsByte
  <2>6. Len(file) = size /\ file \in Seq(Byte)
    BY <2>3, <2>4, <2>5
  <2> QED
    BY <2>2, <2>3, <2>4, <2>6 DEF FileInv
<1>2. DumpTypes
  <2>1. Len(file) \in Nat
    BY <1>1 DEF FileInv
  <2>2. buf = [k \in 1 .. BUF_SIZE |-> buf[k]]
    BY DEF Init
  <2>3. stdout \in Seq(Char)
    BY DEF Init
  <2>4. /\ output_mode = "none" /\ position = 0 /\ ferror_input = FALSE
        /\ ferror_stdout = FALSE /\ numRead = 0 /\ i = 0
    BY DEF Init
  <2> QED
    <3>1. BUF_SIZE \in Nat
      BY DEF BUF_SIZE
    <3>2. position \in 0 .. Len(file) /\ numRead \in 0 .. BUF_SIZE /\ i \in 0 .. BUF_SIZE + 1
      BY <2>1, <2>4, <3>1
    <3> QED
      BY <2>2, <2>3, <2>4, <3>2 DEF DumpTypes
<1>3. ReadInv
  BY DEF Init, ReadInv
<1>4. ListInv
  BY DEF Init, ListInv, Modes
<1> QED
  BY <1>1, <1>2, <1>3, <1>4 DEF DumpInv

LEMMA FileStays == FileInv /\ UNCHANGED <<words, file>> => FileInv'
PROOF
  BY DEF FileInv

LEMMA NothingIsListed == \A mode : \A f : ListingOf(mode, f, <<>>, 0, 0)
PROOF
<1>1. \A mode : WidthIn(mode) \in Nat
  BY DEF WidthIn
<1> QED
  BY <1>1 DEF ListingOf

LEMMA main_DumpInv == DumpInv /\ main => DumpInv'
PROOF
<1> SUFFICES ASSUME DumpInv, main PROVE DumpInv'
  OBVIOUS
<1> USE DEF DumpInv
<1>1. pc = "main" /\ UNCHANGED <<words, file, position, ferror_input, ferror_stdout, buf,
                                 numRead, i, stdout>>
  BY DEF main
<1>2. /\ pc' = "exit" \/ pc' = "open"
      /\ pc' = "exit" => status' = "failure" /\ output_mode' = output_mode
      /\ pc' = "open" => status' = status /\ output_mode' \in Modes
  BY DEF main, Exit, Modes
<1>3. FileInv'
  BY <1>1, FileStays
<1>4. DumpTypes'
  BY <1>1, <1>2 DEF DumpTypes
<1>5. ReadInv'
  BY <1>1, <1>2 DEF ReadInv, Modes
<1>6. ListInv'
  <2>1. pc' = "exit" => output_mode' \notin Modes
    BY <1>1, <1>2 DEF ReadInv, Modes
  <2>2. pc' = "open" => Complete(position)'
    BY <1>1, <1>2, NothingIsListed DEF ReadInv, Complete
  <2>3. status' # "success"
    BY <1>1, <1>2 DEF ReadInv
  <2> QED
    BY <1>2, <2>1, <2>2, <2>3 DEF ListInv
<1> QED
  BY <1>3, <1>4, <1>5, <1>6

LEMMA Open_DumpInv == DumpInv /\ Open => DumpInv'
PROOF
<1> SUFFICES ASSUME DumpInv, Open PROVE DumpInv'
  OBVIOUS
<1> USE DEF DumpInv
<1>1. pc = "open" /\ UNCHANGED <<words, file, output_mode, position, ferror_input,
                                 ferror_stdout, buf, numRead, i, stdout>>
  BY DEF Open
<1>2. \/ pc' = "read" /\ status' = status
      \/ pc' = "exit" /\ status' = "failure"
  BY DEF Open, Exit
<1>3. FileInv'
  BY <1>1, FileStays
<1>4. DumpTypes'
  BY <1>1, <1>2 DEF DumpTypes
<1>5. ReadInv'
  BY <1>1, <1>2 DEF ReadInv, Modes
<1>6. ListInv'
  <2>1. ~ferror_stdout => Complete(position)
    BY <1>1 DEF ListInv, ReadInv
  <2>2. ~ferror_stdout => Complete(position)'
    BY <1>1, <2>1 DEF Complete
  <2>3. position \in 0 .. Len(file)
    BY DEF DumpTypes
  <2>4. ~ferror_stdout => \E m \in 0 .. Len(file') : Complete(m)'
    BY <1>1, <2>1, <2>3 DEF Complete
  <2> QED
    BY <1>1, <1>2, <2>2, <2>4 DEF ListInv
<1> QED
  BY <1>3, <1>4, <1>5, <1>6

(***************************************************************************)
(* A read: at most two bytes, and fewer only at the end or with an error.  *)
(***************************************************************************)
LEMMA Read_Effect ==
  ASSUME FileInv, DumpTypes, Read
  PROVE  /\ numRead' \in 0 .. 2
         /\ position' = position + numRead'
         /\ position' \in 0 .. Len(file)
         /\ ferror_input' \in BOOLEAN
         /\ ~ferror_input' => numRead' = 2 \/ position' = Len(file)
         /\ buf' = [k \in 1 .. BUF_SIZE |-> buf'[k]]
         /\ \A k \in 1 .. numRead' : buf'[k] = file[position + k]
PROOF
<1>1. position \in 0 .. Len(file) /\ Len(file) \in Nat
  BY DEF FileInv, DumpTypes
<1>2. PICK n \in 0 .. 2, fails \in BOOLEAN :
         /\ fread(n, fails)
         /\ n <= Len(file) - position
         /\ ~fails => n = 2 \/ n = Len(file) - position
  <2>1. CASE fread(IF Rest < BUF_SIZE THEN Rest ELSE BUF_SIZE, FALSE)
    <3> DEFINE n == IF Rest < BUF_SIZE THEN Rest ELSE BUF_SIZE
    <3>1. n \in 0 .. 2 /\ n <= Len(file) - position /\ (n = 2 \/ n = Len(file) - position)
      BY <1>1 DEF Rest, BUF_SIZE
    <3>2. fread(n, FALSE)
      BY <2>1
    <3> HIDE DEF n
    <3> QED
      BY <3>1, <3>2
  <2>2. CASE \E n \in 0 .. BUF_SIZE - 1 : n <= Rest /\ fread(n, TRUE)
    <3>1. PICK n \in 0 .. BUF_SIZE - 1 : n <= Rest /\ fread(n, TRUE)
      BY <2>2
    <3>2. n \in 0 .. 2 /\ n <= Len(file) - position
      BY <3>1 DEF Rest, BUF_SIZE
    <3> QED
      BY <3>1, <3>2
  <2> QED
    BY <2>1, <2>2 DEF Read
<1>3. /\ numRead' = n
      /\ position' = position + n
      /\ buf' = [k \in 1 .. BUF_SIZE |-> IF k <= n THEN file[position + k] ELSE buf[k]]
      /\ ferror_input' = fails
  BY <1>2 DEF fread
<1>4. \A k \in 1 .. n : buf'[k] = file[position + k]
  BY <1>2, <1>3 DEF BUF_SIZE
<1>5. buf' = [k \in 1 .. BUF_SIZE |-> buf'[k]]
  BY <1>3
<1>6. position' \in 0 .. Len(file)
  BY <1>1, <1>2, <1>3
<1>7. numRead' \in 0 .. 2 /\ ferror_input' \in BOOLEAN
  BY <1>2, <1>3
<1>8. ~ferror_input' => numRead' = 2 \/ position' = Len(file)
  BY <1>1, <1>2, <1>3
<1> QED
  BY <1>3, <1>4, <1>5, <1>6, <1>7, <1>8

LEMMA Read_DumpInv == DumpInv /\ Read => DumpInv'
PROOF
<1> SUFFICES ASSUME DumpInv, Read PROVE DumpInv'
  OBVIOUS
<1>0. FileInv /\ DumpTypes /\ ReadInv /\ ListInv
  BY DEF DumpInv
<1>1. pc = "read" /\ i' = 1 /\ UNCHANGED <<words, file, output_mode, ferror_stdout, stdout>>
  BY DEF Read
<1>2. /\ numRead' \in 0 .. 2
      /\ position' = position + numRead'
      /\ position' \in 0 .. Len(file)
      /\ ferror_input' \in BOOLEAN
      /\ ~ferror_input' => numRead' = 2 \/ position' = Len(file)
      /\ buf' = [k \in 1 .. BUF_SIZE |-> buf'[k]]
      /\ \A k \in 1 .. numRead' : buf'[k] = file[position + k]
  BY <1>0, Read_Effect
<1>3. \/ numRead' = 0 /\ pc' = "close" /\ status' = status
      \/ numRead' > 0 /\ ~ferror_input' /\ pc' = "print" /\ status' = status
      \/ numRead' > 0 /\ ferror_input' /\ pc' = "exit" /\ status' = "failure"
  <2> DEFINE none == numRead' = 0
             some == numRead' > 0
             bad  == ferror_input'
  <2>1. (CASE none -> pc' = "close" /\ UNCHANGED status
           [] some /\ ~bad -> pc' = "print" /\ UNCHANGED status
           [] some /\ bad  -> Exit("failure"))
    BY DEF Read
  <2>2. (none /\ ~some) \/ (~none /\ some)
    BY <1>2
  <2>3. bad \in BOOLEAN
    BY <1>2
  <2> HIDE DEF none, some, bad
  <2>4. \/ none /\ pc' = "close" /\ UNCHANGED status
        \/ some /\ ~bad /\ pc' = "print" /\ UNCHANGED status
        \/ some /\ bad /\ Exit("failure")
    BY <2>1, <2>2, <2>3
  <2> QED
    BY <2>4 DEF none, some, bad, Exit
<1>4. FileInv'
  BY <1>0, <1>1, FileStays
<1>5. DumpTypes'
  BY <1>0, <1>1, <1>2 DEF DumpTypes, BUF_SIZE
<1>6. position \in 0 .. Len(file) /\ Len(file) \in Nat
  BY <1>0 DEF DumpTypes, FileInv
<1>7. output_mode \in Modes /\ status # "success" /\ (position % 2 = 0 \/ position = Len(file))
  BY <1>0, <1>1 DEF ReadInv
<1>8. CASE pc' = "print"
  <2>1. /\ numRead' \in 1 .. 2 /\ status' = status /\ ~ferror_input'
        /\ position % 2 = 0
        /\ numRead' = 1 => position' = Len(file)
        /\ position' - numRead' = position
    BY <1>2, <1>3, <1>6, <1>7, <1>8
  <2>2. ReadInv'
    <3>0. numRead' \in Nat /\ numRead' >= 1
      BY <2>1
    <3>5. i' = 1
      BY <1>1
    <3>1. 1 <= i' /\ i' - 1 <= numRead'
      BY <3>0, <3>5
    <3>2. numRead' <= position' /\ (position' - numRead') % 2 = 0
      BY <1>2, <1>6, <2>1
    <3>3. \A k \in 1 .. numRead' : buf'[k] = file'[position' - numRead' + k]
      BY <1>1, <1>2, <2>1
    <3>4. output_mode' \in Modes /\ output_mode' # "none"
      BY <1>1, <1>7 DEF Modes
    <3> QED
      BY <1>1, <1>7, <1>8, <2>1, <3>0, <3>1, <3>2, <3>3, <3>4 DEF ReadInv
  <2>3. ListInv'
    <3>1. ~ferror_stdout => Complete(position)
      BY <1>0, <1>1, <1>7 DEF ListInv
    <3>0. numRead' \in Nat /\ numRead' >= 1
      BY <2>1
    <3>6. i' = 1 /\ position' - numRead' = position /\ position \in Nat /\ position % 2 = 0
      BY <1>1, <1>6, <2>1
    <3>2. Printed' = position /\ position \div 2 = (position + 1) \div 2 /\ i' <= numRead'
      BY <3>0, <3>6 DEF Printed
    <3>3. ~ferror_stdout' =>
             ListingOf(output_mode', file', stdout', Printed', Printed' \div 2)
      BY <1>1, <3>1, <3>2 DEF Complete
    <3>4. status' # "success"
      BY <1>7, <2>1
    <3>5. ~(i' > numRead')
      BY <1>1, <2>1
    <3> QED
      BY <1>8, <3>3, <3>4, <3>5 DEF ListInv
  <2> QED
    BY <1>4, <1>5, <2>2, <2>3 DEF DumpInv
<1>9. CASE pc' = "close"
  <2>1. numRead' = 0 /\ status' = status /\ position' = position
    BY <1>2, <1>3, <1>6, <1>9
  <2>2. ReadInv'
    BY <1>0, <1>1, <1>2, <1>7, <1>9, <2>1 DEF ReadInv, Modes
  <2>3. ListInv'
    <3>1. ~ferror_stdout => Complete(position)
      BY <1>0, <1>1, <1>7 DEF ListInv
    <3>2. ~ferror_stdout' => Complete(position)'
      BY <1>1, <2>1, <3>1 DEF Complete
    <3> QED
      BY <1>9, <3>2 DEF ListInv
  <2> QED
    BY <1>4, <1>5, <2>2, <2>3 DEF DumpInv
<1>10. CASE pc' = "exit"
  <2>1. status' = "failure"
    BY <1>3, <1>10
  <2>2. ReadInv'
    BY <1>0, <1>1, <1>7, <1>10, <2>1 DEF ReadInv, Modes
  <2>3. ListInv'
    <3>1. ~ferror_stdout => Complete(position)
      BY <1>0, <1>1, <1>7 DEF ListInv
    <3>2. ~ferror_stdout' => \E m \in 0 .. Len(file') : Complete(m)'
      BY <1>1, <1>6, <3>1 DEF Complete
    <3> QED
      BY <1>10, <2>1, <3>2 DEF ListInv
  <2> QED
    BY <1>4, <1>5, <2>2, <2>3 DEF DumpInv
<1> QED
  BY <1>3, <1>8, <1>9, <1>10

LEMMA PrintByte_DumpInv == DumpInv /\ PrintByte => DumpInv'
PROOF
<1> SUFFICES ASSUME DumpInv, PrintByte PROVE DumpInv'
  OBVIOUS
<1>0. FileInv /\ DumpTypes /\ ReadInv /\ ListInv
  BY DEF DumpInv
<1>1. /\ pc = "print" /\ i <= numRead
      /\ UNCHANGED <<words, file, output_mode, position, ferror_input, buf, numRead>>
  BY DEF PrintByte
<1>2. /\ output_mode \in Modes /\ output_mode # "none" /\ ~ferror_input /\ status # "success"
      /\ numRead > 0 /\ 1 <= i /\ numRead <= position
      /\ (position - numRead) % 2 = 0
      /\ buf[i] = file[position - numRead + i]
  <2>1. \A k \in 1 .. numRead : buf[k] = file[position - numRead + k]
    BY <1>0, <1>1 DEF ReadInv
  <2>2. i \in 1 .. numRead
    BY <1>0, <1>1 DEF ReadInv, DumpTypes, BUF_SIZE
  <2> QED
    BY <1>0, <1>1, <2>1, <2>2 DEF ReadInv, Modes
<1>3. numRead \in 0 .. 2 /\ i \in 0 .. 3 /\ position \in 0 .. Len(file) /\ Len(file) \in Nat
  BY <1>0 DEF DumpTypes, FileInv, BUF_SIZE
<1> DEFINE m == position - numRead + i - 1
<1>4. m \in Nat /\ m + 1 <= Len(file) /\ buf[i] = file[m + 1] /\ file[m + 1] \in Byte
  <2>1. m \in Nat /\ m + 1 <= Len(file) /\ m + 1 = position - numRead + i
    BY <1>1, <1>2, <1>3
  <2> QED
    BY <1>0, <1>2, <2>1 DEF FileInv
<1>5. print_f(buf[i]) \in Seq(Char)
  BY <1>2, <1>4, ByteIsPrinted
<1>6. FileInv'
  BY <1>0, <1>1, FileStays
<1>7. CASE printf(print_f(buf[i]), FALSE) /\ i' = i + 1 /\ UNCHANGED <<pc, status>>
  <2>1. stdout' = stdout \o print_f(buf[i]) /\ ferror_stdout' = ferror_stdout
    BY <1>7 DEF printf
  <2>2. i' \in 0 .. 3 /\ i' - 1 <= numRead /\ 1 <= i'
    BY <1>1, <1>2, <1>3, <1>7
  <2>3. DumpTypes'
    <3>1. stdout \in Seq(Char) /\ stdout' \in Seq(Char)
      BY <1>0, <1>5, <2>1, AppendedAt DEF DumpTypes
    <3> QED
      BY <1>0, <1>1, <2>1, <2>2, <3>1 DEF DumpTypes, BUF_SIZE
  <2>4. ReadInv'
    BY <1>0, <1>1, <1>2, <1>7, <2>2 DEF ReadInv
  <2>5. ListInv'
    <3>1. SUFFICES ASSUME ~ferror_stdout
                   PROVE  ListInv'
      BY <2>1 DEF ListInv
    <3>2. ListingOf(output_mode, file, stdout, m, m \div 2)
      BY <1>0, <1>1, <1>2, <3>1 DEF ListInv, Printed
    <3> HIDE DEF m
    <3>3. Listing(stdout, m, m \div 2)
      BY <1>2, <3>2, ListingIs
    <3>4. Listing(stdout \o print_f(file[m + 1]), m + 1, m \div 2)
      BY <1>0, <1>2, <1>4, <3>3, ByteIsListed DEF FileInv
    <3>5. ListingOf(output_mode, file, stdout', m + 1, m \div 2)
      BY <1>2, <1>4, <2>1, <3>4, ListingIs
    <3>6. CASE i' <= numRead
      <4>1. Printed' = m + 1 /\ (m + 1) \div 2 = m \div 2
        BY <1>1, <1>2, <1>3, <1>7, <3>6 DEF m, Printed
      <4>2. ~(i' > numRead)
        BY <1>3, <2>2, <3>6
      <4> QED
        BY <1>1, <1>2, <1>7, <3>5, <4>1, <4>2 DEF ListInv
    <3>7. CASE i' > numRead
      <4>1. position = m + 1
        BY <1>1, <1>2, <1>3, <1>7, <3>7 DEF m
      <4>2. (position + 1) \div 2 - 1 = m \div 2
        BY <1>3, <1>4, <4>1
      <4>3. ~(i' <= numRead)
        BY <1>3, <2>2, <3>7
      <4> QED
        BY <1>1, <1>2, <1>7, <3>5, <4>1, <4>2, <4>3 DEF ListInv
    <3> QED
      BY <1>3, <2>2, <3>6, <3>7
  <2> QED
    BY <1>6, <2>3, <2>4, <2>5 DEF DumpInv
<1>8. CASE printf(print_f(buf[i]), TRUE) /\ Exit("failure") /\ UNCHANGED i
  <2>1. /\ \E n \in 0 .. Len(print_f(buf[i])) - 1 : stdout' = stdout \o SubSeq(print_f(buf[i]), 1, n)
        /\ ferror_stdout' = TRUE /\ pc' = "exit" /\ status' = "failure"
    BY <1>8 DEF printf, Exit
  <2>2. stdout' \in Seq(Char)
    <3>1. PICK n \in 0 .. Len(print_f(buf[i])) - 1 :
                 stdout' = stdout \o SubSeq(print_f(buf[i]), 1, n)
      BY <2>1
    <3>2. SubSeq(print_f(buf[i]), 1, n) \in Seq(Char)
      <4> DEFINE t == print_f(buf[i])
      <4>1. t \in Seq(Char) /\ n \in 0 .. Len(t) - 1 /\ Len(t) \in Nat
        BY <1>5, <3>1
      <4> HIDE DEF t
      <4>2. \A j \in 1 .. n : t[j] \in Char
        BY <4>1
      <4>3. SubSeq(t, 1, n) \in Seq(Char)
        BY <4>1, <4>2, SubSeqProperties
      <4> QED
        BY <4>3 DEF t
    <3>3. stdout \in Seq(Char)
      BY <1>0 DEF DumpTypes
    <3> QED
      BY <3>1, <3>2, <3>3, AppendedAt
  <2>3. DumpTypes'
    BY <1>0, <1>1, <1>8, <2>1, <2>2 DEF DumpTypes
  <2>4. ReadInv'
    BY <1>0, <1>1, <1>2, <2>1 DEF ReadInv
  <2>5. ListInv'
    BY <2>1 DEF ListInv
  <2> QED
    BY <1>6, <2>3, <2>4, <2>5 DEF DumpInv
<1> QED
  BY <1>7, <1>8 DEF PrintByte

LEMMA PrefixIsPrinted ==
  ASSUME NEW s \in Seq(Char), NEW n \in 0 .. Len(s)
  PROVE  SubSeq(s, 1, n) \in Seq(Char)
PROOF
<1>1. \A j \in 1 .. n : s[j] \in Char
  OBVIOUS
<1> QED
  BY <1>1, SubSeqProperties

LEMMA Newline_DumpInv == DumpInv /\ Newline => DumpInv'
PROOF
<1> SUFFICES ASSUME DumpInv, Newline PROVE DumpInv'
  OBVIOUS
<1>0. FileInv /\ DumpTypes /\ ReadInv /\ ListInv
  BY DEF DumpInv
<1>1. /\ pc = "print" /\ i > numRead /\ pc' = "read"
      /\ UNCHANGED <<words, file, output_mode, position, ferror_input, buf, numRead, i, status>>
  BY DEF Newline
<1>2. /\ output_mode \in Modes /\ output_mode # "none" /\ ~ferror_input /\ status # "success"
      /\ numRead > 0 /\ numRead <= position
      /\ (position - numRead) % 2 = 0
      /\ numRead = 1 => position = Len(file)
  BY <1>0, <1>1 DEF ReadInv, Modes
<1>3. numRead \in 0 .. 2 /\ i \in 0 .. 3 /\ position \in 0 .. Len(file) /\ Len(file) \in Nat
  BY <1>0 DEF DumpTypes, FileInv, BUF_SIZE
<1>4. position % 2 = 0 \/ position = Len(file)
  BY <1>2, <1>3
<1>5. FileInv'
  BY <1>0, <1>1, FileStays
<1>6. ReadInv'
  BY <1>0, <1>1, <1>2, <1>4 DEF ReadInv
<1> DEFINE t == <<"newline">>
<1>7. stdout \in Seq(Char) /\ t \in Seq(Char) /\ Len(t) = 1
  <2>1. t \in Seq(Char) /\ Len(t) = 1
    BY DEF Char
  <2>2. stdout \in Seq(Char)
    BY <1>0 DEF DumpTypes
  <2> QED
    BY <2>1, <2>2
<1> HIDE DEF t
<1>8. CASE printf(t, FALSE)
  <2>1. stdout' = stdout \o t /\ ferror_stdout' = ferror_stdout
    BY <1>8 DEF printf
  <2>2. DumpTypes'
    <3>1. stdout' \in Seq(Char)
      BY <1>7, <2>1, AppendedAt
    <3> QED
      BY <1>0, <1>1, <2>1, <3>1 DEF DumpTypes
  <2>3. ListInv'
    <3>1. SUFFICES ASSUME ~ferror_stdout PROVE ListInv'
      BY <2>1 DEF ListInv
    <3> DEFINE k == (position + 1) \div 2 - 1
    <3>2. ListingOf(output_mode, file, stdout, position, k)
      BY <1>0, <1>1, <1>2, <3>1 DEF ListInv
    <3>3. k \in Int /\ k + 1 = (position + 1) \div 2 /\ position \in Nat
      BY <1>3
    <3> HIDE DEF k
    <3>4. Listing(stdout, position, k)
      BY <1>2, <3>2, ListingIs
    <3>5. Listing(stdout \o t, position, k + 1)
      BY <1>2, <3>3, <3>4, LineIsEnded DEF t
    <3>6. ListingOf(output_mode, file, stdout', position, k + 1)
      BY <1>2, <2>1, <3>5, ListingIs
    <3>7. Complete(position)'
      BY <1>1, <3>3, <3>6 DEF Complete
    <3> QED
      BY <1>1, <3>7 DEF ListInv
  <2> QED
    BY <1>5, <1>6, <2>2, <2>3 DEF DumpInv
<1>9. CASE printf(t, TRUE)
  <2>1. PICK n \in 0 .. Len(t) - 1 : stdout' = stdout \o SubSeq(t, 1, n)
    BY <1>9 DEF printf
  <2>2. ferror_stdout' = TRUE
    BY <1>9 DEF printf
  <2>3. stdout' \in Seq(Char)
    <3>1. n \in 0 .. Len(t)
      BY <1>7
    <3>2. SubSeq(t, 1, n) \in Seq(Char)
      BY <1>7, <3>1, PrefixIsPrinted
    <3> QED
      BY <1>7, <2>1, <3>2, AppendedAt
  <2>4. DumpTypes'
    BY <1>0, <1>1, <2>2, <2>3 DEF DumpTypes
  <2>5. ListInv'
    BY <2>2 DEF ListInv
  <2> QED
    BY <1>5, <1>6, <2>4, <2>5 DEF DumpInv
<1> QED
  <2>1. \E fails \in BOOLEAN : printf(t, fails)
    BY DEF Newline, t
  <2> QED
    BY <1>8, <1>9, <2>1

LEMMA Close_DumpInv == DumpInv /\ Close => DumpInv'
PROOF
<1> SUFFICES ASSUME DumpInv, Close PROVE DumpInv'
  OBVIOUS
<1>0. FileInv /\ DumpTypes /\ ReadInv /\ ListInv
  BY DEF DumpInv
<1>1. pc = "close" /\ UNCHANGED <<words, file, output_mode, position, ferror_input,
                                  ferror_stdout, buf, numRead, i, stdout>>
  BY DEF Close
<1>2. \/ ~ferror_input /\ pc' = "flush" /\ status' = status
      \/ pc' = "exit" /\ status' = "failure"
  BY DEF Close, Exit
<1>3. FileInv'
  BY <1>0, <1>1, FileStays
<1>4. DumpTypes'
  BY <1>0, <1>1 DEF DumpTypes
<1>5. ReadInv'
  BY <1>0, <1>1, <1>2 DEF ReadInv, Modes
<1>6. ListInv'
  <2>1. position \in 0 .. Len(file)
    BY <1>0 DEF DumpTypes
  <2>2. ~ferror_stdout /\ output_mode \in Modes => Complete(position)
    BY <1>0, <1>1 DEF ListInv
  <2>3. ~ferror_stdout /\ output_mode \in Modes => Complete(position)'
    BY <1>1, <2>2 DEF Complete
  <2>4. ~ferror_stdout /\ output_mode \in Modes => \E m \in 0 .. Len(file') : Complete(m)'
    BY <1>1, <2>1, <2>2 DEF Complete
  <2> QED
    BY <1>1, <1>2, <2>3, <2>4 DEF ListInv
<1> QED
  BY <1>3, <1>4, <1>5, <1>6 DEF DumpInv

LEMMA Flush_DumpInv == DumpInv /\ Flush => DumpInv'
PROOF
<1> SUFFICES ASSUME DumpInv, Flush PROVE DumpInv'
  OBVIOUS
<1>0. FileInv /\ DumpTypes /\ ReadInv /\ ListInv
  BY DEF DumpInv
<1>1. /\ pc = "flush" /\ pc' = "exit" /\ status' = "success"
      /\ UNCHANGED <<words, file, output_mode, position, ferror_input, buf, numRead, i>>
  BY DEF Flush, Exit
<1>2. stdout \in Seq(Char) /\ position \in 0 .. Len(file)
  BY <1>0 DEF DumpTypes
<1>3. FileInv'
  BY <1>0, <1>1, FileStays
<1>4. ReadInv'
  BY <1>0, <1>1 DEF ReadInv, Modes
<1>5. CASE UNCHANGED <<stdout, ferror_stdout>>
  <2>1. DumpTypes'
    BY <1>0, <1>1, <1>5 DEF DumpTypes
  <2>2. ListInv'
    <3>1. ~ferror_stdout /\ output_mode \in Modes => Complete(position)
      BY <1>0, <1>1 DEF ListInv
    <3>2. ~ferror_stdout /\ output_mode \in Modes => Complete(position)'
      BY <1>1, <1>5, <3>1 DEF Complete
    <3>3. ~ferror_stdout /\ output_mode \in Modes => \E m \in 0 .. Len(file') : Complete(m)'
      BY <1>1, <1>2, <1>5, <3>1 DEF Complete
    <3> QED
      BY <1>1, <1>5, <3>2, <3>3 DEF ListInv
  <2> QED
    BY <1>3, <1>4, <2>1, <2>2 DEF DumpInv
<1>6. CASE /\ \E n \in 0 .. Len(stdout) - 1 : stdout' = SubSeq(stdout, 1, n)
           /\ ferror_stdout' = TRUE
  <2>1. stdout' \in Seq(Char)
    BY <1>2, <1>6, PrefixIsPrinted
  <2>2. DumpTypes'
    BY <1>0, <1>1, <1>6, <2>1 DEF DumpTypes
  <2>3. ListInv'
    BY <1>6 DEF ListInv
  <2> QED
    BY <1>3, <1>4, <2>2, <2>3 DEF DumpInv
<1> QED
  BY <1>5, <1>6 DEF Flush

LEMMA Stutter_DumpInv == DumpInv /\ UNCHANGED vars => DumpInv'
PROOF
<1> SUFFICES ASSUME DumpInv, UNCHANGED vars PROVE DumpInv'
  OBVIOUS
<1>1. UNCHANGED <<pc, words, file, output_mode, position, ferror_input, ferror_stdout, buf,
                  numRead, i, stdout, status>>
  BY DEF vars
<1>2. FileInv'
  BY <1>1, FileStays DEF DumpInv
<1>3. DumpTypes'
  BY <1>1 DEF DumpInv, DumpTypes
<1>4. ReadInv'
  BY <1>1 DEF DumpInv, ReadInv
<1>5. ListInv'
  BY <1>1 DEF DumpInv, ListInv, Complete, Printed
<1> QED
  BY <1>2, <1>3, <1>4, <1>5 DEF DumpInv

THEOREM DumpInvariance == Spec => []DumpInv
PROOF
<1>1. DumpInv /\ [Next]_vars => DumpInv'
  BY main_DumpInv, Open_DumpInv, Read_DumpInv, PrintByte_DumpInv, Newline_DumpInv,
     Close_DumpInv, Flush_DumpInv, Stutter_DumpInv
  DEF Next, read_file, Terminating
<1> QED
  BY DumpInitially, <1>1, PTL DEF Spec

(***************************************************************************)
(* The theorems.                                                           *)
(***************************************************************************)
\* A word is its two bytes, the high one first.
LEMMA WordIsTwoBytes ==
  ASSUME NEW p \in Seq(Word), NEW n \in 1 .. 2 * Len(p), n % 2 = 0
  PROVE  256 * ByteAt(p, n - 1) + ByteAt(p, n) = p[n \div 2]
PROOF
<1> DEFINE w == p[n \div 2]
<1>1. n \div 2 \in 1 .. Len(p) /\ (n + 1) \div 2 = n \div 2 /\ (n - 1 + 1) \div 2 = n \div 2
  OBVIOUS
<1>2. w \in Nat
  <2>1. UINT16_MAX \in Nat
    BY DEF UINT16_MAX
  <2> QED
    BY <1>1, <2>1 DEF Word
<1>3. ByteAt(p, n) = w % 256 /\ ByteAt(p, n - 1) = w \div 256
  BY <1>1 DEF ByteAt, write_machine_instruction
<1> HIDE DEF w
<1>4. 256 * (w \div 256) + (w % 256) = w
  BY <1>2
<1> QED
  BY <1>3, <1>4 DEF w

\* While no output failed, the output is a listing of the first bytes.
LEMMA SomethingIsListed ==
  ASSUME DumpInv, ~ferror_stdout, pc # "main", output_mode \in Modes
  PROVE  \E m \in 0 .. Len(file) : \E k \in Nat :
           (m - 1) \div 2 <= k /\ k <= (m + 1) \div 2 /\ Listing(stdout, m, k)
PROOF
<1>0. FileInv /\ DumpTypes /\ ReadInv /\ ListInv
  BY DEF DumpInv
<1>1. position \in 0 .. Len(file) /\ Len(file) \in Nat /\ numRead \in 0 .. 2 /\ i \in 0 .. 3
  BY <1>0 DEF FileInv, DumpTypes, BUF_SIZE
<1>2. \A m \in 0 .. Len(file) : (m + 1) \div 2 \in Nat /\ (m - 1) \div 2 <= (m + 1) \div 2
  BY <1>1
<1>3. ASSUME NEW m \in 0 .. Len(file), Complete(m)
      PROVE  \E k \in Nat : /\ (m - 1) \div 2 <= k /\ k <= (m + 1) \div 2
                            /\ Listing(stdout, m, k)
  <2>1. Listing(stdout, m, (m + 1) \div 2)
    BY <1>3, ListingIs DEF Complete
  <2>2. (m + 1) \div 2 \in Nat /\ (m - 1) \div 2 <= (m + 1) \div 2
    BY <1>2
  <2> QED
    BY <2>1, <2>2
<1>4. CASE pc \in {"open", "read", "close", "flush"}
  <2>1. Complete(position)
    BY <1>0, <1>4 DEF ListInv
  <2> QED
    BY <1>1, <1>3, <2>1
<1>5. CASE pc = "exit"
  BY <1>0, <1>3, <1>5 DEF ListInv
<1>6. CASE pc = "print" /\ i <= numRead
  <2>1. ListingOf(output_mode, file, stdout, Printed, Printed \div 2)
    BY <1>0, <1>6 DEF ListInv
  <2>2. Printed \in 0 .. Len(file)
    BY <1>0, <1>1, <1>6 DEF ReadInv, Printed
  <2>3. Listing(stdout, Printed, Printed \div 2)
    BY <2>1, ListingIs
  <2>4. /\ Printed \div 2 \in Nat
        /\ (Printed - 1) \div 2 <= Printed \div 2
        /\ Printed \div 2 <= (Printed + 1) \div 2
    BY <1>1, <2>2
  <2> QED
    BY <2>2, <2>3, <2>4
<1>7. CASE pc = "print" /\ i > numRead
  <2> DEFINE k == (position + 1) \div 2 - 1
  <2>1. ListingOf(output_mode, file, stdout, position, k)
    BY <1>0, <1>7 DEF ListInv
  <2>2. position > 0
    BY <1>0, <1>1, <1>7 DEF ReadInv
  <2>3. Listing(stdout, position, k)
    BY <2>1, ListingIs
  <2>4. k \in Nat /\ (position - 1) \div 2 <= k /\ k <= (position + 1) \div 2
    BY <1>1, <2>2
  <2> HIDE DEF k
  <2> QED
    BY <1>1, <2>3, <2>4
<1>8. pc \in {"main", "open", "read", "print", "close", "flush", "exit"}
  BY <1>0 DEF ReadInv
<1> QED
  BY <1>1, <1>4, <1>5, <1>6, <1>7, <1>8

\* The usage message is no listing.
LEMMA NothingWithoutMode ==
  ASSUME DumpInv, output_mode \notin Modes
  PROVE  ListedBytes = 0
PROOF
<1> DEFINE Fits(n) == /\ n = 0 \/ Before(n) + ByteDigits <= Len(stdout)
                      /\ n = Len(file) \/ Before(n + 1) + ByteDigits > Len(stdout)
<1>1. stdout = <<>> /\ output_mode = "none" /\ Len(file) \in Nat
  BY DEF DumpInv, FileInv, DumpTypes, ReadInv
<1>2. ByteDigits = 3 /\ ByteWidth = 4
  BY <1>1 DEF ByteDigits, ByteWidth
<1>3. \A n \in Nat \ {0} : Before(n) \in Nat
  BY <1>2 DEF Before
<1>4. Len(stdout) = 0
  BY <1>1
<1>5. Fits(0)
  BY <1>2, <1>3, <1>4
<1>6. \A n \in 0 .. Len(file) : Fits(n) => n = 0
  BY <1>1, <1>2, <1>3, <1>4
<1>7. ListedBytes = CHOOSE n \in 0 .. Len(file) : Fits(n)
  BY DEF ListedBytes
<1> HIDE DEF Fits
<1> QED
  BY <1>1, <1>5, <1>6, <1>7

\* ListingReadsBack: whatever has been printed reads back as the words of
\* the object file, in every format, for programs and files of any length.
THEOREM ListingIsTheFile == Spec => []ListingReadsBack
PROOF
<1>1. DumpInv => ListingReadsBack
  <2> SUFFICES ASSUME DumpInv, ~ferror_stdout, pc # "main", NEW n \in 1 .. ListedBytes
               PROVE  /\ Listed(n).ok
                      /\ Listed(n).val = file[n]
                      /\ n % 2 = 0 => 256 * Listed(n - 1).val + Listed(n).val = words[n \div 2]
                      /\ n % 2 = 1 /\ n > 1 => stdout[Before(n)] = "newline"
    BY DEF ListingReadsBack
  <2>1. output_mode \in Modes
    BY NothingWithoutMode
  <2>2. FileInv
    BY DEF DumpInv
  <2>3. file \in Seq(Byte) /\ Len(file) \in Nat
    BY <2>2 DEF FileInv
  <2>4. PICK m \in 0 .. Len(file) : \E k \in Nat :
           (m - 1) \div 2 <= k /\ k <= (m + 1) \div 2 /\ Listing(stdout, m, k)
    BY <2>1, SomethingIsListed
  <2>5. PICK k \in Nat :
           (m - 1) \div 2 <= k /\ k <= (m + 1) \div 2 /\ Listing(stdout, m, k)
    BY <2>4
  <2>6. ListedBytes \in 0 .. m
    <3>1. k \in Int
      OBVIOUS
    <3> QED
      BY <2>1, <2>3, <2>5, <3>1, NoMoreThanListed
  <2>7. n \in 1 .. m /\ n \in 1 .. Len(file)
    BY <2>3, <2>6
  <2>8. \A j \in 1 .. m : Listed(j) = [ok |-> TRUE, val |-> file[j]]
    BY <2>1, <2>3, <2>5, ListedIsRead
  <2>9. n % 2 = 0 => 256 * Listed(n - 1).val + Listed(n).val = words[n \div 2]
    <3> SUFFICES ASSUME n % 2 = 0
                 PROVE  256 * Listed(n - 1).val + Listed(n).val = words[n \div 2]
      OBVIOUS
    <3>1. n - 1 \in 1 .. m /\ n - 1 \in 1 .. Len(file)
      BY <2>7, <2>3
    <3>2. file[n] = ByteAt(words, n) /\ file[n - 1] = ByteAt(words, n - 1)
      BY <2>2, <2>7, <3>1 DEF FileInv
    <3>3. n \in 1 .. 2 * Len(words) /\ words \in Seq(Word)
      BY <2>2, <2>3, <2>7 DEF FileInv
    <3>4. 256 * ByteAt(words, n - 1) + ByteAt(words, n) = words[n \div 2]
      BY <3>3, WordIsTwoBytes
    <3>5. Listed(n).val = file[n] /\ Listed(n - 1).val = file[n - 1]
      BY <2>7, <2>8, <3>1
    <3> QED
      BY <3>2, <3>4, <3>5
  <2>10. n % 2 = 1 /\ n > 1 => stdout[Before(n)] = "newline"
    BY <2>5, <2>7 DEF Listing
  <2> QED
    BY <2>7, <2>8, <2>9, <2>10
<1> QED
  BY <1>1, DumpInvariance, PTL

\* SuccessMeansListed: success is reported only of a complete listing, if
\* the output took it, for programs of any length and a read that fails
\* anywhere.
THEOREM SuccessIsComplete == Spec => []SuccessMeansListed
PROOF
<1>1. DumpInv => SuccessMeansListed
  <2> SUFFICES ASSUME DumpInv, status = "success"
               PROVE  /\ ~ferror_input
                      /\ position = Len(file)
                      /\ ~ferror_stdout =>
                           Len(stdout) = Len(file) * ByteWidth + (Len(file) + 1) \div 2
    BY DEF SuccessMeansListed
  <2>1. ~ferror_input /\ position = Len(file) /\ pc = "exit"
    BY DEF DumpInv, ReadInv
  <2> SUFFICES ASSUME ~ferror_stdout
               PROVE  Len(stdout) = Len(file) * ByteWidth + (Len(file) + 1) \div 2
    BY <2>1
  <2>2. output_mode \in Modes
    BY DEF DumpInv, ReadInv
  <2>3. Complete(Len(file))
    BY <2>1, <2>2 DEF DumpInv, ListInv
  <2>4. Listing(stdout, Len(file), (Len(file) + 1) \div 2)
    BY <2>2, <2>3, ListingIs DEF Complete
  <2> QED
    BY <2>4 DEF Listing, Chars
<1> QED
  BY <1>1, DumpInvariance, PTL
==============================================================================
