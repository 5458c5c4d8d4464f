------------------------------- MODULE ObjDump -------------------------------
(***************************************************************************)
(* lc3objdump: lists the words of an object file, as write_machine_        *)
(* instruction of assembler.c wrote it, or the part of it that reached the *)
(* disk.  Reading may fail, and so may each printf; what exit flushes may  *)
(* be lost, too.                                                           *)
(***************************************************************************)
EXTENDS Numerals

CONSTANT Programs   \* the sequences of words the assembler may have written

UINT16_MAX == 65535

Word == 0 .. UINT16_MAX

ASSUME ObjDumpAssumption ==
  \A p \in Programs : p \in Seq(Word)

VARIABLES
  pc,
  words,          \* what the assembler wrote
  file,           \* the bytes of the object file
  output_mode,
  position,       \* of inputFile: the bytes read from it
  ferror_input,   \* the error indicators of the two streams
  ferror_stdout,
  buf, numRead, i,
  stdout,         \* the characters printed
  status          \* of exit

vars == <<pc, words, file, output_mode, position, ferror_input, ferror_stdout, buf, numRead,
          i, stdout, status>>

BUF_SIZE == 2

\* Mutant: the bytes are not swapped.
little_endian(machine_instr) == <<machine_instr % 256, machine_instr \div 256>>

(***************************************************************************)
(* write_machine_instruction: swapped, that is the high byte first.        *)
(***************************************************************************)
write_machine_instruction(machine_instr) == <<machine_instr \div 256, machine_instr % 256>>

ByteAt(p, n) == write_machine_instruction(p[(n + 1) \div 2])[IF n % 2 = 1 THEN 1 ELSE 2]

Init ==
  /\ pc = "main"
  /\ words \in Programs
  /\ \E size \in 0 .. 2 * Len(words) : file = [n \in 1 .. size |-> ByteAt(words, n)]
  /\ output_mode = "none"
  /\ position = 0
  /\ ferror_input = FALSE
  /\ ferror_stdout = FALSE
  /\ buf \in [1 .. BUF_SIZE -> {0, 255}]   \* not initialised
  /\ numRead = 0
  /\ i = 0
  /\ stdout = <<>>
  /\ status = "none"

Exit(s) == pc' = "exit" /\ status' = s

(***************************************************************************)
(* The arguments: a file name, and nothing, bin, hex or something else.    *)
(***************************************************************************)
main ==
  /\ pc = "main"
  /\ \/ Exit("failure") /\ UNCHANGED output_mode
     \/ output_mode' \in {"dec", "bin", "hex"} /\ pc' = "open" /\ UNCHANGED status
  /\ UNCHANGED <<words, file, position, ferror_input, ferror_stdout, buf, numRead, i, stdout>>

Open ==
  /\ pc = "open"
  /\ \/ pc' = "read" /\ UNCHANGED status
     \/ Exit("failure")
  /\ UNCHANGED <<words, file, output_mode, position, ferror_input, ferror_stdout, buf, numRead,
                 i, stdout>>

(***************************************************************************)
(* fread: as many bytes as there are, or fewer and an error.  A count      *)
(* below BUF_SIZE without an error means the end of the file.              *)
(***************************************************************************)
Rest == Len(file) - position

fread(n, fails) ==
  /\ numRead' = n
  /\ position' = position + n
  /\ buf' = [k \in 1 .. BUF_SIZE |-> IF k <= n THEN file[position + k] ELSE buf[k]]
  /\ ferror_input' = fails

\* Mutant: the loop does not end when nothing is read.
ReadWithoutEnd ==
  /\ pc = "read"
  /\ \/ fread(IF Rest < BUF_SIZE THEN Rest ELSE BUF_SIZE, FALSE)
     \/ \E n \in 0 .. BUF_SIZE - 1 : n <= Rest /\ fread(n, TRUE)
  /\ IF numRead' > 0 /\ ferror_input' THEN Exit("failure")
                                      ELSE pc' = "read" /\ UNCHANGED status
  /\ i' = 1
  /\ UNCHANGED <<words, file, output_mode, ferror_stdout, stdout>>

Read ==
  /\ pc = "read"
  /\ \/ fread(IF Rest < BUF_SIZE THEN Rest ELSE BUF_SIZE, FALSE)
     \/ \E n \in 0 .. BUF_SIZE - 1 : n <= Rest /\ fread(n, TRUE)
  /\ CASE numRead' = 0 -> pc' = "close" /\ UNCHANGED status
       [] numRead' > 0 /\ ~ferror_input' -> pc' = "print" /\ UNCHANGED status
       [] numRead' > 0 /\ ferror_input' -> Exit("failure")
  /\ i' = 1
  /\ UNCHANGED <<words, file, output_mode, ferror_stdout, stdout>>

(***************************************************************************)
(* printf: it prints the text, or fails behind some part of it.            *)
(***************************************************************************)
printf(text, fails) ==
  IF fails
    THEN /\ \E n \in 0 .. Len(text) - 1 : stdout' = stdout \o SubSeq(text, 1, n)
         /\ ferror_stdout' = TRUE
    ELSE stdout' = stdout \o text /\ UNCHANGED ferror_stdout

DigitOf(byte, weight, base) == Digits[((byte \div weight) % base) + 1]

\* What byte >> i divides by, for i from 7 to 0
Weights == <<128, 64, 32, 16, 8, 4, 2, 1>>

print_bin(byte) == [k \in 1 .. 8 |-> DigitOf(byte, Weights[k], 2)]

print_hex(byte) == <<DigitOf(byte, 16, 16), DigitOf(byte, 1, 16), " ">>

print_dec(byte) == <<DigitOf(byte, 100, 10), DigitOf(byte, 10, 10), DigitOf(byte, 1, 10), " ">>

print_f(byte) == CASE output_mode = "bin" -> print_bin(byte)
                   [] output_mode = "hex" -> print_hex(byte)
                   [] output_mode = "dec" -> print_dec(byte)

PrintByte ==
  /\ pc = "print"
  /\ i <= numRead
  /\ \/ printf(print_f(buf[i]), FALSE) /\ i' = i + 1 /\ UNCHANGED <<pc, status>>
     \/ printf(print_f(buf[i]), TRUE) /\ Exit("failure") /\ UNCHANGED i
  /\ UNCHANGED <<words, file, output_mode, position, ferror_input, buf, numRead>>

(***************************************************************************)
(* Whether the end of the line is printed is not looked at.                *)
(***************************************************************************)
Newline ==
  /\ pc = "print"
  /\ i > numRead
  /\ \E fails \in BOOLEAN : printf(<<"newline">>, fails)
  /\ pc' = "read"
  /\ UNCHANGED <<words, file, output_mode, position, ferror_input, buf, numRead, i, status>>

\* Mutant: the error indicator of the file is not looked at.
CloseUnchecked ==
  /\ pc = "close"
  /\ pc' = "flush"
  /\ UNCHANGED <<words, file, output_mode, position, ferror_input, ferror_stdout, buf, numRead,
                 i, stdout, status>>

(***************************************************************************)
(* fclose may fail, which is only reported.                                *)
(***************************************************************************)
Close ==
  /\ pc = "close"
  /\ IF ferror_input THEN Exit("failure") ELSE pc' = "flush" /\ UNCHANGED status
  /\ UNCHANGED <<words, file, output_mode, position, ferror_input, ferror_stdout, buf, numRead,
                 i, stdout>>

(***************************************************************************)
(* exit(EXIT_SUCCESS) writes what printf has buffered, if it can.          *)
(***************************************************************************)
Flush ==
  /\ pc = "flush"
  /\ \/ UNCHANGED <<stdout, ferror_stdout>>
     \/ /\ \E n \in 0 .. Len(stdout) - 1 : stdout' = SubSeq(stdout, 1, n)
        /\ ferror_stdout' = TRUE
  /\ Exit("success")
  /\ UNCHANGED <<words, file, output_mode, position, ferror_input, buf, numRead, i>>

read_file == Open \/ Read \/ PrintByte \/ Newline \/ Close \/ Flush

Terminating == pc = "exit" /\ UNCHANGED vars

Next == main \/ read_file \/ Terminating

Spec == Init /\ [][Next]_vars /\ WF_vars(main \/ read_file)
==============================================================================
