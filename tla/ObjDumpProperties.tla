-------------------------- MODULE ObjDumpProperties --------------------------
(***************************************************************************)
(* What should hold of ObjDump: the listing can be read back, and nothing  *)
(* that was not read is passed off as the end of the file.                 *)
(***************************************************************************)
EXTENDS ObjDump

(***************************************************************************)
(* The listing, read as its reader does: the digits of a byte have a fixed *)
(* width, two bytes are on a line, and a blank or nothing is between them. *)
(***************************************************************************)
ByteDigits == CASE output_mode = "bin" -> 8 [] output_mode = "hex" -> 2 [] OTHER -> 3
ByteWidth  == IF output_mode = "bin" THEN 8 ELSE ByteDigits + 1
Base       == CASE output_mode = "bin" -> 2 [] output_mode = "hex" -> 16 [] OTHER -> 10

\* Where the digits of the n-th byte begin, behind how many characters
Before(n) == (n - 1) * ByteWidth + (n - 1) \div 2

Listed(n) == strtol(SubSeq(stdout, Before(n) + 1, Before(n) + ByteDigits), Base)

ListedBytes == CHOOSE n \in 0 .. Len(file) :
  /\ n = 0 \/ Before(n) + ByteDigits <= Len(stdout)
  /\ n = Len(file) \/ Before(n + 1) + ByteDigits > Len(stdout)

(***************************************************************************)
(* Whatever has been printed, in each format, reads back as the words the  *)
(* assembler wrote, with the high byte first although both programs run    *)
(* on a little-endian machine (assembler.c:20-31, lc3objdump.c:92-101), as *)
(* long as no output failed; also of a file that was cut short in a word.  *)
(***************************************************************************)
ListingReadsBack ==
  ~ferror_stdout /\ pc # "main" =>
    \A n \in 1 .. ListedBytes :
      /\ Listed(n).ok
      /\ Listed(n).val = file[n]
      /\ n % 2 = 0 => 256 * Listed(n - 1).val + Listed(n).val = words[n \div 2]
      /\ n % 2 = 1 /\ n > 1 => stdout[Before(n)] = "newline"

(***************************************************************************)
(* A listing is complete, and nothing is listed twice or left over from an *)
(* earlier read in the buffer, when lc3objdump succeeds and stdout took    *)
(* everything.  An error of the input is never taken for its end           *)
(* (lc3objdump.c:92-107).                                                  *)
(***************************************************************************)
SuccessMeansListed ==
  status = "success" =>
    /\ ~ferror_input
    /\ position = Len(file)
    /\ ~ferror_stdout =>
         Len(stdout) = Len(file) * ByteWidth + (Len(file) + 1) \div 2

(***************************************************************************)
(* The loop of read_file ends, whatever the size of the file and whatever  *)
(* fails (lc3objdump.c:92).                                                *)
(***************************************************************************)
Terminates == <>(pc = "exit")
==============================================================================
