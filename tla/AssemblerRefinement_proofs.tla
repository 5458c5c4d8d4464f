--------------------- MODULE AssemblerRefinement_proofs ---------------------
(***************************************************************************)
(* Assembler implements AssemblySpec: what the two passes, the relocation  *)
(* and the two loops that write leave behind is the image and the symbol   *)
(* table the source has line by line, or the source is rejected.           *)
(***************************************************************************)
EXTENDS AssemblerOutput_proofs, AssemblerRefinement

-----------------------------------------------------------------------------
(***************************************************************************)
(* Induction on the lines of a source, and extremal lines.                 *)
(***************************************************************************)
LEMMA UpTo ==
  ASSUME NEW n \in Nat, NEW S, 0 \in S, \A k \in 0 .. n - 1 : k \in S => k + 1 \in S
  PROVE  \A k \in 0 .. n : k \in S
<1> DEFINE T == {k \in 0 .. n : k \notin S}
<1> SUFFICES ASSUME T # {} PROVE FALSE
  OBVIOUS
<1>1. PICK m \in T : \A k \in T : m <= k
  <2>1. T \in SUBSET Nat
    OBVIOUS
  <2> HIDE DEF T
  <2> QED
    BY <2>1, LeastNatural
<1>2. m # 0 /\ m \in 0 .. n /\ m \notin S
  BY <1>1
<1>3. m - 1 \in 0 .. n - 1 /\ m - 1 \notin T /\ m - 1 + 1 = m
  BY <1>1, <1>2
<1> QED
  BY <1>2, <1>3

LEMMA MinIs ==
  ASSUME NEW n \in Nat, NEW S \in SUBSET (1 .. n), S # {}
  PROVE  Abstract!Min(S) \in S /\ \A k \in S : Abstract!Min(S) <= k
<1>1. \E m \in S : \A k \in S : m <= k
  <2>1. S \in SUBSET Nat
    OBVIOUS
  <2> QED
    BY <2>1, LeastNatural
<1> QED
  BY <1>1 DEF Abstract!Min

LEMMA MaxIs ==
  ASSUME NEW n \in Nat, NEW S \in SUBSET (1 .. n), S # {}
  PROVE  /\ Abstract!Max(S) \in S
         /\ \A k \in S : k <= Abstract!Max(S)
         /\ \A m \in S : (\A k \in S : k <= m) => Abstract!Max(S) = m
<1> DEFINE T == {n - k : k \in S}
<1>1. PICK d \in T : \A k \in T : d <= k
  <2>1. \A k \in S : n - k \in Nat
    OBVIOUS
  <2>2. T \in SUBSET Nat
    BY <2>1
  <2>3. T # {}
    OBVIOUS
  <2> HIDE DEF T
  <2> QED
    BY <2>2, <2>3, LeastNatural
<1>2. PICK m \in S : d = n - m
  BY <1>1
<1>3. \A k \in S : k <= m
  <2> TAKE k \in S
  <2>1. n - k \in T
    OBVIOUS
  <2>2. n - m <= n - k
    BY <1>1, <1>2, <2>1
  <2> QED
    BY <2>2
<1>4. Abstract!Max(S) \in S /\ \A k \in S : Abstract!Max(S) >= k
  BY <1>2, <1>3 DEF Abstract!Max
<1> HIDE DEF T
<1>5. \A a, b \in S : a >= b /\ b >= a => a = b
  OBVIOUS
<1>6. \A a, b \in S : a >= b <=> b <= a
  OBVIOUS
<1> QED
  BY <1>4, <1>5, <1>6

-----------------------------------------------------------------------------
(***************************************************************************)
(* Slots.  Line k of a source begins at the slot of that many words.       *)
(***************************************************************************)
Start(s, k) == WordsUpTo(s)[k - 1]

Covers(s, k, j) == Start(s, k) <= j /\ j < WordsUpTo(s)[k]

LEMMA SlotsRise ==
  ASSUME NEW s \in Seq(Lines)
  PROVE  /\ \A k \in 0 .. Len(s) : WordsUpTo(s)[k] \in Nat
         /\ \A j, k \in 0 .. Len(s) : j <= k => WordsUpTo(s)[j] <= WordsUpTo(s)[k]
<1> DEFINE W == WordsUpTo(s)
<1>1. Len(s) \in Nat
  OBVIOUS
<1>2. \A k \in 1 .. Len(s) : WordsOf(s[k].stmt) \in Nat
  <2> TAKE k \in 1 .. Len(s)
  <2>1. s[k] \in Lines
    OBVIOUS
  <2> QED
    BY <2>1, LineParts, WordsOfType
<1>3. W[0] = 0 /\ \A k \in 0 .. Len(s) - 1 : W[k + 1] = W[k] + WordsOf(s[k + 1].stmt)
  <2>1. \A k \in 0 .. Len(s) - 1 : k + 1 \in 1 .. Len(s) /\ k + 1 - 1 = k
    BY <1>1
  <2> QED
    BY <2>1, WordsUpToIs
<1> HIDE DEF W
<1>4. \A k \in 0 .. Len(s) - 1 : WordsOf(s[k + 1].stmt) \in Nat
  BY <1>1, <1>2
<1>5. \A k \in 0 .. Len(s) : W[k] \in Nat
  <2> DEFINE S == {k \in 0 .. Len(s) : W[k] \in Nat}
  <2>1. 0 \in S /\ \A k \in 0 .. Len(s) - 1 : k \in S => k + 1 \in S
    BY <1>1, <1>3, <1>4
  <2>2. \A k \in 0 .. Len(s) : k \in S
    <3> HIDE DEF S
    <3> QED
      BY <1>1, <2>1, UpTo
  <2> QED
    BY <2>2
<1>6. ASSUME NEW j \in 0 .. Len(s)
      PROVE  \A k \in 0 .. Len(s) : j <= k => W[j] <= W[k]
  <2> DEFINE S == {k \in 0 .. Len(s) : j <= k => W[j] <= W[k]}
  <2>1. 0 \in S
    BY <1>1, <1>5
  <2>2. ASSUME NEW k \in 0 .. Len(s) - 1, k \in S
        PROVE  k + 1 \in S
    <3>1. k \in 0 .. Len(s) /\ k + 1 \in 0 .. Len(s)
      BY <1>1
    <3>2. W[k] \in Nat /\ W[k + 1] \in Nat /\ W[k] <= W[k + 1] /\ W[j] \in Nat
      BY <1>3, <1>4, <1>5, <3>1
    <3>3. CASE j = k + 1
      BY <3>1, <3>2, <3>3
    <3>4. CASE j # k + 1
      <4>1. j <= k + 1 => j <= k
        BY <3>4
      <4> QED
        BY <2>2, <3>1, <3>2, <4>1
    <3> QED
      BY <3>3, <3>4
  <2>3. \A k \in 0 .. Len(s) : k \in S
    <3> HIDE DEF S
    <3> QED
      BY <1>1, <2>1, <2>2, UpTo
  <2> QED
    BY <2>3
<1> QED
  BY <1>5, <1>6 DEF W

(* What a line takes, in the terms of the next slot. *)
LEMMA LineSlots ==
  ASSUME NEW s \in Seq(Lines), NEW k \in DOMAIN s
  PROVE  /\ Len(s) \in Nat /\ k \in 1 .. Len(s) /\ k \in 0 .. Len(s) /\ k - 1 \in 0 .. Len(s)
         /\ s[k] \in Lines /\ s[k].stmt \in Stmt
         /\ WordsOf(s[k].stmt) \in Nat
         /\ Start(s, k) \in Nat /\ WordsUpTo(s)[k] \in Nat
         /\ WordsUpTo(s)[k] = Start(s, k) + WordsOf(s[k].stmt)
         /\ WordsUpTo(s)[k] <= WordsUpTo(s)[Len(s)]
<1>1. Len(s) \in Nat /\ k \in 1 .. Len(s) /\ k \in 0 .. Len(s) /\ k - 1 \in 0 .. Len(s) /\ s[k] \in Lines
  OBVIOUS
<1> QED
  BY <1>1, LineParts, WordsOfType, WordsUpToIs, SlotsRise DEF Start

(* Every slot below the sum is that of one line. *)
LEMMA SlotHasLine ==
  ASSUME NEW s \in Seq(Lines), NEW j \in Nat, j < WordsUpTo(s)[Len(s)]
  PROVE  \E k \in DOMAIN s : Covers(s, k, j)
<1> DEFINE W == WordsUpTo(s)
           T == {k \in 0 .. Len(s) : j < W[k]}
<1>1. Len(s) \in Nat /\ DOMAIN s = 1 .. Len(s) /\ W[0] = 0 /\ \A k \in 0 .. Len(s) : W[k] \in Nat
  BY WordsUpToIs, SlotsRise
<1> HIDE DEF W
<1>2. PICK m \in T : \A k \in T : m <= k
  <2>1. T \in SUBSET Nat /\ Len(s) \in T
    BY <1>1 DEF W
  <2> HIDE DEF T
  <2> QED
    BY <2>1, LeastNatural
<1>3. m \in 1 .. Len(s) /\ j < W[m]
  BY <1>1, <1>2
<1>4. m - 1 \notin T /\ m - 1 \in 0 .. Len(s)
  BY <1>1, <1>2, <1>3
<1>5. W[m - 1] <= j
  BY <1>1, <1>4
<1> QED
  BY <1>1, <1>3, <1>5 DEF W, Covers, Start

LEMMA SlotHasOneLine ==
  ASSUME NEW s \in Seq(Lines), NEW j \in Nat, NEW a \in DOMAIN s, NEW b \in DOMAIN s,
         Covers(s, a, j), Covers(s, b, j)
  PROVE  a = b
<1>1. \A x, y \in DOMAIN s : x < y /\ Covers(s, x, j) => ~Covers(s, y, j)
  <2> SUFFICES ASSUME NEW x \in DOMAIN s, NEW y \in DOMAIN s, x < y, Covers(s, x, j), Covers(s, y, j)
               PROVE  FALSE
    OBVIOUS
  <2>1. x \in 0 .. Len(s) /\ y - 1 \in 0 .. Len(s) /\ x <= y - 1
    OBVIOUS
  <2>2. WordsUpTo(s)[x] <= WordsUpTo(s)[y - 1] /\ WordsUpTo(s)[x] \in Nat /\ WordsUpTo(s)[y - 1] \in Nat
    BY <2>1, SlotsRise
  <2> QED
    BY <2>2 DEF Covers, Start
<1>2. a \in Nat /\ b \in Nat
  OBVIOUS
<1> QED
  BY <1>1, <1>2

-----------------------------------------------------------------------------
(***************************************************************************)
(* Addresses.  The sum AssemblySpec takes leaves the .ORIG out, so that    *)
(* behind it the two layouts differ by the slot of the .ORIG.              *)
(***************************************************************************)

(* AssemblySpec has the data of Assembler. *)
LEMMA SameData ==
  /\ Abstract!Address = Address
  /\ \A arg : Abstract!IsMemoryAddress(arg) <=> IsMemoryAddress(arg)
  /\ \A stmt : Abstract!WordsOf(stmt) = WordsOf(stmt)
<1>1. Abstract!Address = Address
  BY DEF Abstract!Address, Address
<1>2. \A arg : Abstract!IsMemoryAddress(arg) <=> IsMemoryAddress(arg)
  BY <1>1 DEF Abstract!IsMemoryAddress, IsMemoryAddress
<1>3. ASSUME NEW stmt PROVE Abstract!WordsOf(stmt) = WordsOf(stmt)
  BY <1>2 DEF Abstract!WordsOf, WordsOf
<1> QED
  BY <1>1, <1>2, <1>3

LEMMA BeforeIs ==
  ASSUME NEW s \in Seq(Lines)
  PROVE  /\ Abstract!Before(s, 1) = 0
         /\ \A k \in 0 .. Len(s) - 1 :
              Abstract!Before(s, k + 2) = Abstract!Before(s, k + 1) + Abstract!Size(s[k + 1].stmt)
<1> DEFINE w == [k \in 1 .. Len(s) |-> Abstract!Size(s[k].stmt)]
           Sum(f) == f = [k \in 0 .. Len(s) |->
                            IF k = 0 THEN 0 ELSE f[k - 1] + Abstract!Size(s[k].stmt)]
           sum == CHOOSE f : Sum(f)
<1>1. Len(s) \in Nat
  OBVIOUS
<1>2. ASSUME NEW f, IsSum(f, w, Len(s))
      PROVE  Sum(f)
  <2>1. \A k \in 0 .. Len(s) : k # 0 => w[k] = Abstract!Size(s[k].stmt)
    BY <1>1
  <2> QED
    BY <1>2, <2>1 DEF IsSum
<1>3. \E f : Sum(f)
  BY <1>1, <1>2, SumExists
<1>4. \A k : Abstract!Before(s, k) = sum[k - 1]
  BY DEF Abstract!Before
<1>5. Sum(sum)
  BY <1>3
<1> HIDE DEF sum
<1>6. /\ sum[0] = 0
      /\ \A k \in 0 .. Len(s) - 1 : sum[k + 1] = sum[k] + Abstract!Size(s[k + 1].stmt)
  <2>1. \A k \in 0 .. Len(s) - 1 : k + 1 \in 0 .. Len(s) /\ k + 1 # 0 /\ k + 1 - 1 = k
    BY <1>1
  <2>2. 0 \in 0 .. Len(s)
    BY <1>1
  <2> QED
    BY <1>5, <2>1, <2>2
<1>7. \A k \in 0 .. Len(s) - 1 : k + 2 - 1 = k + 1 /\ k + 1 - 1 = k
  BY <1>1
<1>8. 1 - 1 = 0
  OBVIOUS
<1> QED
  BY <1>4, <1>6, <1>7, <1>8

(* Line first is the .ORIG of the source, the first line of code. *)
OneOrig(s, first) ==
  /\ first \in DOMAIN s
  /\ \A k \in DOMAIN s : s[k].stmt.type = "orig" <=> k = first
  /\ \A k \in DOMAIN s : k < first => s[k].stmt.type \in {"none", "end"}

LEMMA NothingBefore ==
  ASSUME NEW s \in Seq(Lines), NEW first \in DOMAIN s,
         \A k \in DOMAIN s : k < first => s[k].stmt.type \in {"none", "end"}
  PROVE  Start(s, first) = 0
<1>1. Len(s) \in Nat /\ first \in 1 .. Len(s)
  OBVIOUS
<1> DEFINE n == first - 1
           S == {k \in 0 .. n : WordsUpTo(s)[k] = 0}
<1>2. n \in Nat
  BY <1>1
<1>3. 0 \in S
  BY <1>2, WordsUpToIs
<1>4. ASSUME NEW k \in 0 .. n - 1, k \in S
      PROVE  k + 1 \in S
  <2>1. k + 1 \in 1 .. Len(s) /\ k + 1 < first /\ k + 1 - 1 = k /\ k + 1 \in 0 .. n
    BY <1>1
  <2>2. WordsOf(s[k + 1].stmt) = 0
    BY <2>1 DEF WordsOf
  <2>3. WordsUpTo(s)[k + 1] = WordsUpTo(s)[k] + WordsOf(s[k + 1].stmt)
    BY <2>1, WordsUpToIs
  <2> QED
    BY <1>4, <2>1, <2>2, <2>3
<1> HIDE DEF n
<1>5. n \in S
  <2>1. \A k \in 0 .. n : k \in S
    <3> HIDE DEF S
    <3> QED
      BY <1>2, <1>3, <1>4, UpTo
  <2> QED
    BY <1>2, <2>1
<1> QED
  BY <1>5 DEF n, Start

LEMMA Layouts ==
  ASSUME NEW s \in Seq(Lines), NEW first, OneOrig(s, first)
  PROVE  /\ \A k \in 0 .. Len(s) : k < first => Abstract!Before(s, k + 1) = 0 /\ WordsUpTo(s)[k] = 0
         /\ \A k \in 0 .. Len(s) : first <= k =>
              /\ WordsUpTo(s)[k] >= 1
              /\ Abstract!Before(s, k + 1) = WordsUpTo(s)[k] - 1
         /\ WordsUpTo(s)[first] = 1
<1> DEFINE W == WordsUpTo(s)
           B(k) == Abstract!Before(s, k)
<1>1. /\ Len(s) \in Nat /\ first \in 1 .. Len(s) /\ s[first].stmt.type = "orig"
      /\ \A k \in 1 .. Len(s) : s[k].stmt.type = "orig" <=> k = first
      /\ \A k \in 1 .. Len(s) : k < first => s[k].stmt.type \in {"none", "end"}
  BY DEF OneOrig
<1>2. \A k \in 0 .. Len(s) : W[k] \in Nat
  BY SlotsRise
<1>3. \A k \in 0 .. Len(s) - 1 : /\ W[k + 1] = W[k] + WordsOf(s[k + 1].stmt)
                                 /\ WordsOf(s[k + 1].stmt) \in Nat
  <2> TAKE k \in 0 .. Len(s) - 1
  <2>1. k + 1 \in 1 .. Len(s) /\ k + 1 - 1 = k
    BY <1>1
  <2> QED
    BY <2>1, LineSlots DEF Start
<1>4. \A k \in 0 .. Len(s) - 1 :
        B(k + 2) = B(k + 1) + (IF k + 1 = first THEN 0 ELSE WordsOf(s[k + 1].stmt))
  <2> TAKE k \in 0 .. Len(s) - 1
  <2>1. k + 1 \in 1 .. Len(s)
    BY <1>1
  <2> QED
    BY <1>1, <2>1, BeforeIs, SameData DEF Abstract!Size
<1>5. W[0] = 0 /\ B(1) = 0 /\ WordsOf(s[first].stmt) = 1
  BY <1>1, WordsUpToIs, BeforeIs DEF WordsOf
<1>6. \A k \in 0 .. Len(s) - 1 : k + 1 < first => WordsOf(s[k + 1].stmt) = 0
  <2> TAKE k \in 0 .. Len(s) - 1
  <2>1. k + 1 \in 1 .. Len(s)
    BY <1>1
  <2> QED
    BY <1>1, <2>1 DEF WordsOf
<1> HIDE DEF W, B
<1> DEFINE S == {k \in 0 .. Len(s) :
                   /\ k < first => W[k] = 0 /\ B(k + 1) = 0
                   /\ first <= k => W[k] >= 1 /\ B(k + 1) = W[k] - 1
                   /\ k = first => W[k] = 1}
<1>7. 0 \in S
  BY <1>1, <1>5
<1>8. ASSUME NEW k \in 0 .. Len(s) - 1, k \in S
      PROVE  k + 1 \in S
  <2> DEFINE n == WordsOf(s[k + 1].stmt)
  <2>1. /\ k \in 0 .. Len(s) /\ k + 1 \in 0 .. Len(s) /\ k + 1 + 1 = k + 2 /\ first \in Nat
        /\ n \in Nat /\ W[k] \in Nat /\ W[k + 1] = W[k] + n
        /\ B(k + 2) = B(k + 1) + (IF k + 1 = first THEN 0 ELSE n)
        /\ k + 1 < first => n = 0
        /\ k + 1 = first => n = 1
    BY <1>1, <1>2, <1>3, <1>4, <1>5, <1>6
  <2> HIDE DEF n
  <2>2. CASE k + 1 < first
    <3>1. k < first /\ W[k] = 0 /\ B(k + 1) = 0
      BY <1>8, <2>1, <2>2
    <3> QED
      BY <2>1, <2>2, <3>1
  <2>3. CASE k + 1 = first
    <3>1. k < first /\ W[k] = 0 /\ B(k + 1) = 0
      BY <1>8, <2>1, <2>3
    <3> QED
      BY <2>1, <2>3, <3>1
  <2>4. CASE first < k + 1
    <3>1. first <= k /\ W[k] >= 1 /\ B(k + 1) = W[k] - 1
      BY <1>8, <2>1, <2>4
    <3> QED
      BY <2>1, <2>4, <3>1
  <2> QED
    BY <2>1, <2>2, <2>3, <2>4
<1>9. \A k \in 0 .. Len(s) : k \in S
  <2> HIDE DEF S
  <2> QED
    BY <1>1, <1>7, <1>8, UpTo
<1> QED
  BY <1>1, <1>9 DEF W, B

-----------------------------------------------------------------------------
(***************************************************************************)
(* The sources AssemblySpec makes a promise about.                         *)
(***************************************************************************)
FirstLine(s) == Abstract!Min(Abstract!CodeLines(s))

(* The first line of code of a canonical source takes slot 0. *)
LEMMA FirstOfCanonical ==
  ASSUME NEW s \in Seq(Lines), Abstract!Canonical(s)
  PROVE  LET first == FirstLine(s)
         IN  /\ first \in DOMAIN s
             /\ s[first].stmt.type \in {"label", "orig", "fill", "offset", "op"}
             /\ \A k \in DOMAIN s : k < first => s[k].stmt.type \in {"none", "end"}
             /\ Covers(s, first, 0) /\ Start(s, first) = 0
             /\ s[first].stmt.type = "orig" => OneOrig(s, first)
<1> DEFINE first == FirstLine(s)
<1>1. Len(s) \in Nat /\ DOMAIN s = 1 .. Len(s)
  OBVIOUS
<1>2. first \in Abstract!CodeLines(s) /\ \A k \in Abstract!CodeLines(s) : first <= k
  <2>1. Abstract!CodeLines(s) \in SUBSET (1 .. Len(s)) /\ Abstract!CodeLines(s) # {}
    BY DEF Abstract!Canonical, Abstract!CodeLines
  <2> QED
    BY <1>1, <2>1, MinIs DEF FirstLine
<1>3. first \in DOMAIN s /\ s[first].stmt.type \notin {"none", "end", "blkw", "stringz"}
  BY <1>2 DEF Abstract!CodeLines, Abstract!Canonical, FirstLine
<1>4. s[first].stmt.type \in {"label", "orig", "fill", "offset", "op"}
  <2>1. s[first].stmt \in Stmt
    BY <1>3, LineSlots
  <2> QED
    BY <1>3, <2>1 DEF Stmt, LineType
<1>5. \A k \in DOMAIN s : k < first => s[k].stmt.type \in {"none", "end"}
  <2> HIDE DEF first
  <2> QED
    BY <1>1, <1>2, <1>3 DEF Abstract!CodeLines
<1>6. Start(s, first) = 0
  <2> HIDE DEF first
  <2> QED
    BY <1>3, <1>5, NothingBefore
<1>7. Covers(s, first, 0)
  <2> HIDE DEF first
  <2>1. WordsUpTo(s)[first] = Start(s, first) + WordsOf(s[first].stmt)
    BY <1>3, LineSlots
  <2>2. WordsOf(s[first].stmt) = 1
    BY <1>4 DEF WordsOf
  <2> QED
    BY <1>6, <2>1, <2>2 DEF Covers
<1>8. s[first].stmt.type = "orig" => OneOrig(s, first)
  <2> HIDE DEF first
  <2>1. \A i, j \in Abstract!OrigLines(s) : i = j
    BY DEF Abstract!Canonical
  <2> QED
    BY <1>3, <1>5, <2>1 DEF OneOrig, Abstract!OrigLines
<1> QED
  BY <1>3, <1>4, <1>5, <1>6, <1>7, <1>8

Placed(s) == Abstract!Canonical(s) /\ Abstract!HasOrigin(s)

(* If that line is an .ORIG, everything behind it has its place. *)
LEMMA Addresses ==
  ASSUME NEW s \in Seq(Lines), Placed(s)
  PROVE  LET first == FirstLine(s)
             W     == WordsUpTo(s)
         IN  /\ OneOrig(s, first) /\ first \in 1 .. Len(s) /\ W[first] = 1
             /\ Abstract!Origin(s) = s[first].stmt.arg.val /\ Abstract!Origin(s) \in Address
             /\ Abstract!ImageSize(s) = W[Len(s)] - 1 /\ W[Len(s)] \in Nat /\ W[Len(s)] >= 1
             /\ \A k \in DOMAIN s : first < k =>
                  /\ Start(s, k) >= 1
                  /\ Abstract!Before(s, k) = Start(s, k) - 1
                  /\ Abstract!Before(s, k + 1) = W[k] - 1
                  /\ Abstract!AddressOf(s, k) = Abstract!Origin(s) + Start(s, k) - 1
             /\ \A k \in DOMAIN s : k <= first =>
                  Abstract!Before(s, k) = 0 /\ Abstract!Before(s, k + 1) = 0
<1> DEFINE first == FirstLine(s)
           W     == WordsUpTo(s)
<1>1. /\ s[first].stmt.type = "orig" /\ Abstract!IsMemoryAddress(s[first].stmt.arg)
      /\ Abstract!Origin(s) = s[first].stmt.arg.val
  BY DEF Placed, Abstract!HasOrigin, Abstract!Origin, FirstLine
<1>2. OneOrig(s, first)
  BY <1>1, FirstOfCanonical DEF Placed
<1>3. Abstract!Origin(s) \in Address
  BY <1>1, SameData DEF IsMemoryAddress
<1> HIDE DEF first
<1>4. first \in 1 .. Len(s) /\ Len(s) \in Nat
  BY <1>2 DEF OneOrig
<1>5. /\ \A k \in 0 .. Len(s) : k < first => Abstract!Before(s, k + 1) = 0 /\ W[k] = 0
      /\ \A k \in 0 .. Len(s) : first <= k =>
           W[k] >= 1 /\ Abstract!Before(s, k + 1) = W[k] - 1
      /\ W[first] = 1
  BY <1>2, Layouts
<1>6. \A k \in 0 .. Len(s) : W[k] \in Nat
  BY SlotsRise
<1> HIDE DEF W
<1>7. Abstract!ImageSize(s) = W[Len(s)] - 1 /\ W[Len(s)] \in Nat /\ W[Len(s)] >= 1
  BY <1>4, <1>5, <1>6 DEF Abstract!ImageSize
<1>8. ASSUME NEW k \in DOMAIN s, first < k
      PROVE  /\ Start(s, k) >= 1
             /\ Abstract!Before(s, k) = Start(s, k) - 1
             /\ Abstract!Before(s, k + 1) = W[k] - 1
             /\ Abstract!AddressOf(s, k) = Abstract!Origin(s) + Start(s, k) - 1
  <2>1. /\ k - 1 \in 0 .. Len(s) /\ k \in 0 .. Len(s) /\ first <= k - 1 /\ first <= k /\ k - 1 + 1 = k
    BY <1>4, <1>8
  <2>2. W[k - 1] >= 1 /\ Abstract!Before(s, k) = W[k - 1] - 1 /\ Abstract!Before(s, k + 1) = W[k] - 1
    BY <1>5, <2>1
  <2>3. Start(s, k) = W[k - 1] /\ W[k - 1] \in Nat
    BY <1>6, <2>1 DEF Start, W
  <2>4. Abstract!Origin(s) \in Int
    BY <1>3, AddrSpaceAssumption DEF Address
  <2>5. Abstract!AddressOf(s, k) = Abstract!Origin(s) + Abstract!Before(s, k)
    BY DEF Abstract!AddressOf
  <2> QED
    BY <2>2, <2>3, <2>4, <2>5
<1>9. ASSUME NEW k \in DOMAIN s, k <= first
      PROVE  Abstract!Before(s, k) = 0 /\ Abstract!Before(s, k + 1) = 0
  <2>1. /\ k - 1 \in 0 .. Len(s) /\ k \in 0 .. Len(s) /\ k - 1 < first /\ k - 1 + 1 = k
    BY <1>4, <1>9
  <2>2. Abstract!Before(s, k) = 0
    BY <1>5, <2>1
  <2>3. CASE k = first
    BY <1>5, <2>1, <2>2, <2>3
  <2>4. CASE k < first
    BY <1>5, <2>1, <2>2, <2>4
  <2> QED
    BY <1>4, <1>9, <2>3, <2>4
<1> QED
  BY <1>1, <1>2, <1>3, <1>4, <1>5, <1>7, <1>8, <1>9 DEF first, W

(* The offset the symbol table has for a label. *)
OffsetOf(s, l) ==
  IF Abstract!Declared(s, l) = {} THEN NULL ELSE Start(s, Abstract!Max(Abstract!Declared(s, l)))

LEMMA LabelAddresses ==
  ASSUME NEW s \in Seq(Lines), Placed(s), NEW l \in Labels, Abstract!Declared(s, l) # {}
  PROVE  /\ OffsetOf(s, l) \in Nat /\ OffsetOf(s, l) >= 1
         /\ Abstract!LabelAddress(s, l) = OffsetOf(s, l) - 1 + Abstract!Origin(s)
         /\ Abstract!LabelAddress(s, l) \in Address
<1> DEFINE first == FirstLine(s)
           m == Abstract!Max(Abstract!Declared(s, l))
<1>1. Len(s) \in Nat /\ DOMAIN s = 1 .. Len(s)
  OBVIOUS
<1>2. m \in DOMAIN s /\ s[m].label = l
  <2>1. Abstract!Declared(s, l) \in SUBSET (1 .. Len(s))
    BY DEF Abstract!Declared
  <2>2. m \in Abstract!Declared(s, l)
    BY <1>1, <2>1, MaxIs
  <2> QED
    BY <2>2 DEF Abstract!Declared
<1>3. l # NULL
  BY SentinelAssumption
<1>4. OffsetOf(s, l) = Start(s, m) /\ Abstract!LabelAddress(s, l) = Abstract!AddressOf(s, m)
  BY DEF OffsetOf, Abstract!LabelAddress
<1> HIDE DEF m, first
<1>5. first \in 1 .. Len(s) /\ s[first].stmt.type = "orig"
  BY Addresses DEF first, OneOrig
<1>6. first < m
  <2>1. first \in Abstract!OrigLines(s)
    BY <1>5 DEF Abstract!OrigLines
  <2>2. \A j \in DOMAIN s : j <= first => s[j].label = NULL
    BY <2>1 DEF Placed, Abstract!Canonical
  <2> QED
    BY <1>1, <1>2, <1>3, <1>5, <2>2
<1>7. /\ Start(s, m) >= 1 /\ Start(s, m) \in Nat
      /\ Abstract!AddressOf(s, m) = Abstract!Origin(s) + Start(s, m) - 1
      /\ Abstract!Origin(s) \in Address
  BY <1>2, <1>6, Addresses, LineSlots DEF first
<1>8. Abstract!AddressOf(s, m) < AddrSpace
  BY <1>2, <1>3 DEF Placed, Abstract!Canonical, Abstract!FitsInMemory
<1> QED
  BY <1>4, <1>7, <1>8, AddrSpaceAssumption DEF Address

-----------------------------------------------------------------------------
(***************************************************************************)
(* The image, slot by slot.                                                *)
(***************************************************************************)
LEMMA ImageShape ==
  ASSUME NEW s \in Seq(Lines), Placed(s)
  PROVE  /\ Abstract!Image(s) = [a \in 1 .. WordsUpTo(s)[Len(s)] |-> Abstract!Image(s)[a]]
         /\ Len(Abstract!Image(s)) = WordsUpTo(s)[Len(s)]
         /\ Abstract!Image(s)[1] = Abstract!Origin(s)
<1>1. WordsUpTo(s)[Len(s)] \in Nat /\ Abstract!ImageSize(s) + 1 = WordsUpTo(s)[Len(s)]
      /\ WordsUpTo(s)[Len(s)] >= 1
  BY Addresses
<1> DEFINE n == WordsUpTo(s)[Len(s)]
<1>2. DOMAIN Abstract!Image(s) = 1 .. n /\ Abstract!Image(s) = [a \in 1 .. n |-> Abstract!Image(s)[a]]
  BY <1>1 DEF Abstract!Image
<1>3. 1 \in 1 .. n
  BY <1>1
<1>4. Abstract!Image(s)[1] = Abstract!Origin(s)
  BY <1>1, <1>3 DEF Abstract!Image
<1>5. Len(Abstract!Image(s)) = n
  <2> DEFINE S == {Abstract!Image(s)[a] : a \in 1 .. n}
  <2>1. Abstract!Image(s) \in [1 .. n -> S]
    BY <1>2
  <2> HIDE DEF S, n
  <2>2. n \in Nat
    BY <1>1 DEF n
  <2>3. Abstract!Image(s) \in Seq(S)
    BY <2>1, <2>2, SeqDef
  <2> QED
    BY <1>2, <2>2, <2>3, LenProperties
<1> QED
  BY <1>2, <1>4, <1>5

LEMMA ImageWord ==
  ASSUME NEW s \in Seq(Lines), Placed(s), NEW k \in DOMAIN s, NEW j \in Nat, 1 <= j, Covers(s, k, j)
  PROVE  /\ FirstLine(s) < k
         /\ Abstract!Image(s)[j + 1] = Abstract!WordsAt(s, k)[j - Start(s, k) + 1]
<1> DEFINE first == FirstLine(s)
           W     == WordsUpTo(s)
           B(i)  == Abstract!Before(s, i)
           In(i) == j + 1 - 2 \in B(i) .. B(i + 1) - 1
<1>1. /\ first \in 1 .. Len(s) /\ W[first] = 1 /\ Len(s) \in Nat
      /\ Abstract!ImageSize(s) = W[Len(s)] - 1 /\ W[Len(s)] \in Nat
  BY Addresses
<1>2. \A i \in DOMAIN s : /\ i \in 1 .. Len(s) /\ Start(s, i) \in Nat /\ W[i] \in Nat
                          /\ W[i] <= W[Len(s)]
  BY LineSlots
<1>3. \A i \in DOMAIN s :
        /\ first < i => B(i) = Start(s, i) - 1 /\ B(i + 1) = W[i] - 1
        /\ i <= first => B(i) = 0 /\ B(i + 1) = 0
  BY Addresses
<1>4. \A i \in DOMAIN s : i <= first => W[i] <= 1
  <2> TAKE i \in DOMAIN s
  <2>1. i \in 0 .. Len(s) /\ first \in 0 .. Len(s)
    BY <1>1
  <2> QED
    BY <1>1, <2>1, SlotsRise
<1>5. Start(s, k) <= j /\ j < W[k]
  BY DEF Covers
<1>6. first < k
  BY <1>1, <1>2, <1>4, <1>5
<1> HIDE DEF first, W, B
<1>7. In(k)
  BY <1>2, <1>3, <1>5, <1>6
<1>8. ASSUME NEW i \in DOMAIN s, In(i)
      PROVE  i = k
  <2>1. first < i
    BY <1>1, <1>2, <1>3, <1>8
  <2>2. Start(s, i) <= j /\ j < W[i]
    BY <1>2, <1>3, <1>8, <2>1
  <2>3. Covers(s, i, j)
    BY <2>2 DEF Covers, W
  <2> QED
    BY <2>3, SlotHasOneLine
<1> DEFINE Owner(a) == CHOOSE i \in DOMAIN s : a - 2 \in B(i) .. B(i + 1) - 1
<1>9. Owner(j + 1) = k
  <2>1. Owner(j + 1) = CHOOSE i \in DOMAIN s : In(i)
    OBVIOUS
  <2> HIDE DEF In, Owner
  <2> QED
    BY <1>7, <1>8, <2>1
<1>10. j + 1 \in 1 .. Abstract!ImageSize(s) + 1 /\ j + 1 # 1
  BY <1>1, <1>2, <1>5
<1> DEFINE Word1(a) == Abstract!WordsAt(s, Owner(a))[a - 1 - B(Owner(a))]
<1>11. Abstract!Image(s) = [a \in 1 .. Abstract!ImageSize(s) + 1 |->
                             IF a = 1 THEN Abstract!Origin(s) ELSE Word1(a)]
  BY DEF Abstract!Image, B
<1>12. Abstract!Image(s)[j + 1] = Abstract!WordsAt(s, k)[j - Start(s, k) + 1]
  <2> DEFINE a == j + 1
             o == Owner(a)
  <2>1. o = k
    BY <1>9
  <2>2. a - 1 - B(k) = j - Start(s, k) + 1
    BY <1>2, <1>3, <1>6
  <2> HIDE DEF In, Owner, Word1, a
  <2>3. a \in 1 .. Abstract!ImageSize(s) + 1 /\ a # 1
    BY <1>10 DEF a
  <2>4. Abstract!Image(s)[a] = Word1(a)
    BY <1>11, <2>3, Zenon
  <2>5. Abstract!Image(s)[a] = Abstract!WordsAt(s, o)[a - 1 - B(o)]
    BY <2>4 DEF Word1
  <2> HIDE DEF o
  <2>6. Abstract!WordsAt(s, o) = Abstract!WordsAt(s, k)
    BY <2>1
  <2>7. B(o) = B(k)
    BY <2>1
  <2>8. Abstract!Image(s)[a] = Abstract!WordsAt(s, k)[j - Start(s, k) + 1]
    BY <2>2, <2>5, <2>6, <2>7
  <2> QED
    BY <2>8 DEF a
<1> QED
  BY <1>6, <1>12 DEF first

-----------------------------------------------------------------------------
(***************************************************************************)
(* What the first pass has made of the lines it read.                      *)
(***************************************************************************)
Directive(stmt) == stmt.type \in {"blkw", "stringz"}

DirectiveWords(stmt) ==
  IF stmt.type = "blkw" THEN Zeros(stmt.arg.val) ELSE Append(stmt.chars, 0)

LexedLine(stmt) ==
  /\ stmt.type = "blkw" => IsMemoryAddress(stmt.arg)
  /\ stmt.type = "stringz" => stmt.arg.type # "missing"

(* The n-th entry of a line. *)
Holds(entry, stmt, n) ==
  IF Directive(stmt) THEN entry = Expanded(DirectiveWords(stmt)[n])
                     ELSE IsEntry(entry) /\ entry.tokens = stmt

Stored(s, table) ==
  \A k \in DOMAIN s, j \in Address :
    Covers(s, k, j) => table[j] = FREED \/ Holds(table[j], s[k].stmt, j - Start(s, k) + 1)

EndIsLast(s) == \A k \in DOMAIN s : s[k].stmt.type = "end" => k = Len(s)

(* Until the symbol table is relocated it has the offset of every label. *)
SourceInv ==
  /\ errno = "none"
  /\ EndIsLast(source)
  /\ pc \in {"start", "open_asm", "lex"} => \A k \in DOMAIN source : source[k].stmt.type # "end"
  /\ Running =>
       /\ \A k \in DOMAIN source : LexedLine(source[k].stmt)
       /\ instruction_offset = WordsUpTo(source)[Len(source)]
       /\ Stored(source, tokenized_lines)
  /\ Early \/ pc = "sym_header" => \A l \in Labels : dict[l] = OffsetOf(source, l)

(* The words of a directive are placed from the offset on. *)
LEMMA PlaceHolds ==
  ASSUME TInv, HasRoom, NEW stmt, Directive(stmt), NEW table \in Table, NEW ws \in Seq(Word),
         ws = DirectiveWords(stmt), instruction_offset + Len(ws) <= MaxWords,
         tokenized_lines' = Place(table, instruction_offset, ws)
  PROVE  \A i \in Address : instruction_offset <= i /\ i < instruction_offset + Len(ws) =>
           Holds(tokenized_lines'[i], stmt, i - instruction_offset + 1)
<1>1. instruction_offset \in Address /\ instruction_offset \in Int /\ Len(ws) \in Nat
  BY AddrSpaceAssumption DEF TInv, TypeOK, Address
<1>2. instruction_offset + Len(ws) <= AddrSpace
  BY <1>1, AddrSpaceAssumption, BoundsAssumption DEF HasRoom
<1> QED
  BY <1>1, <1>2, PlaceShape DEF Holds

(* Each line getline returns is stored where the next slot is. *)
LEMMA LexLineHolds ==
  ASSUME TInv, HasRoom, LayoutInv, "malloc" \notin Faults, NEW l \in Lines, LexLine(l), pc' # "free"
  PROVE  /\ LexedLine(l.stmt)
         /\ instruction_offset' = instruction_offset + WordsOf(l.stmt)
         /\ \A i \in Address : instruction_offset <= i /\ i < instruction_offset' =>
              Holds(tokenized_lines'[i], l.stmt, i - instruction_offset + 1)
<1>1. /\ instruction_offset \in Address /\ instruction_offset \in Int /\ l.stmt \in Stmt
      /\ l.stmt \in LineStmts
  BY LineParts, AddrSpaceAssumption DEF TInv, TypeOK, Address
<1>2. ~LexLost(l)
  BY DEF LexLost
<1>3. instruction_offset' = instruction_offset + WordsOf(l.stmt)
  BY <1>2, LexLineCounts
<1>4. \A i \in Address : i \in Int
  BY AddrSpaceAssumption DEF Address
<1>5. CASE LexNothing(l) \/ LexEnd(l)
  <2>1. l.stmt.type \in {"none", "end"}
    BY <1>5 DEF LexNothing, LexEnd, GetLine
  <2>2. instruction_offset' = instruction_offset
    BY <1>5 DEF LexNothing, LexEnd
  <2>3. LexedLine(l.stmt)
    BY <2>1 DEF LexedLine
  <2>4. \A i \in Address : ~(instruction_offset <= i /\ i < instruction_offset')
    BY <1>1, <1>4, <2>2
  <2> QED
    BY <1>3, <2>3, <2>4
<1>6. CASE LexInstruction(l)
  <2>1. l.stmt.type \in {"label", "orig", "fill", "offset", "op"} /\ tokenized_lines' = WithEntry(l.stmt)
    BY <1>6 DEF LexInstruction, GetLine
  <2>2. WordsOf(l.stmt) = 1
    BY <2>1 DEF WordsOf
  <2>3. tokenized_lines'[instruction_offset] = Tokenized(l.stmt, instruction_offset)
    BY <1>1, <2>1 DEF WithEntry, TInv, TypeOK
  <2>4. Holds(Tokenized(l.stmt, instruction_offset), l.stmt, 1)
    BY <1>1, <2>1, EntryType, PointerAssumption DEF Holds, Directive, IsEntry, Tokenized
  <2>5. \A i \in Address : instruction_offset <= i /\ i < instruction_offset + 1 => i = instruction_offset
    BY <1>1, <1>4
  <2>6. instruction_offset - instruction_offset + 1 = 1
    BY <1>1
  <2> QED
    BY <1>3, <2>1, <2>2, <2>3, <2>4, <2>5, <2>6 DEF LexedLine
<1>7. CASE LexBlkw(l)
  <2>1. IsMemoryAddress(l.stmt.arg) /\ l.stmt.type = "blkw"
    BY <1>7 DEF LexBlkw, GetLine, Fail
  <2> DEFINE n == l.stmt.arg.val
             entry == [tokens               |-> l.stmt,
                       instruction_location |-> instruction_offset,
                       machine_instruction  |-> n]
             table == [tokenized_lines EXCEPT ![instruction_offset] = entry]
  <2>2. n \in Address /\ n \in Nat /\ WordsOf(l.stmt) = n
    BY <2>1, AddrSpaceAssumption DEF IsMemoryAddress, Address, WordsOf
  <2>3. instruction_offset + n <= MaxWords
    BY <1>7, <2>2 DEF LexBlkw, GetLine
  <2>4. entry \in LineMetadata
    BY <1>1, <2>2 DEF LineMetadata, Word
  <2>5. table \in Table
    BY <2>4 DEF Table, TInv, TypeOK
  <2>6. tokenized_lines' = Place(table, instruction_offset, Zeros(n))
    BY <1>7, <2>1 DEF LexBlkw
  <2>7. Zeros(n) \in Seq(Word) /\ Len(Zeros(n)) = n
    BY <2>2, ZerosType
  <2>8. Directive(l.stmt) /\ DirectiveWords(l.stmt) = Zeros(n) /\ LexedLine(l.stmt)
    BY <2>1 DEF Directive, DirectiveWords, LexedLine
  <2> HIDE DEF n, table
  <2> QED
    BY <1>3, <2>2, <2>3, <2>5, <2>6, <2>7, <2>8, PlaceHolds
<1>8. CASE LexStringz(l)
  <2> DEFINE words == Append(l.stmt.chars, 0)
  <2>1. /\ l.stmt.type = "stringz" /\ l.stmt.arg.type # "missing"
        /\ tokenized_lines' = Place(WithEntry(l.stmt), instruction_offset, words)
        /\ instruction_offset + WordsOf(l.stmt) <= MaxWords
    BY <1>8 DEF LexStringz, GetLine, Fail
  <2>2. words \in Seq(Word) /\ Len(words) = Len(l.stmt.chars) + 1
    BY <1>1, AddrSpaceAssumption DEF Stmt, Word, Address
  <2>3. WordsOf(l.stmt) = Len(words)
    BY <2>1, <2>2 DEF WordsOf
  <2>4. Directive(l.stmt) /\ DirectiveWords(l.stmt) = words /\ LexedLine(l.stmt)
    BY <2>1 DEF Directive, DirectiveWords, LexedLine
  <2>5. WithEntry(l.stmt) \in Table
    BY <1>1, WithEntryFilled
  <2> HIDE DEF words
  <2> QED
    BY <1>3, <2>1, <2>2, <2>3, <2>4, <2>5, PlaceHolds
<1> QED
  BY <1>2, <1>5, <1>6, <1>7, <1>8 DEF LexLine

(* A further line moves none of the slots before it. *)
LEMMA CoversAppended ==
  ASSUME NEW s \in Seq(Lines), NEW l \in Lines
  PROVE  LET t == Append(s, l)
         IN  /\ \A k \in DOMAIN s : /\ Start(t, k) = Start(s, k)
                                    /\ \A j : Covers(t, k, j) <=> Covers(s, k, j)
             /\ Start(t, Len(s) + 1) = WordsUpTo(s)[Len(s)]
             /\ \A j : Covers(t, Len(s) + 1, j) <=>
                         /\ WordsUpTo(s)[Len(s)] <= j
                         /\ j < WordsUpTo(s)[Len(s)] + WordsOf(l.stmt)
<1> DEFINE t == Append(s, l)
<1>1. /\ \A k \in 0 .. Len(s) : WordsUpTo(t)[k] = WordsUpTo(s)[k]
      /\ WordsUpTo(t)[Len(s) + 1] = WordsUpTo(s)[Len(s)] + WordsOf(l.stmt)
  BY WordsAppended
<1>2. Len(s) \in Nat
  OBVIOUS
<1>3. \A k \in DOMAIN s : k \in 0 .. Len(s) /\ k - 1 \in 0 .. Len(s)
  OBVIOUS
<1>4. Len(s) + 1 - 1 = Len(s) /\ Len(s) \in 0 .. Len(s)
  BY <1>2
<1> HIDE DEF t
<1>5. \A k \in DOMAIN s : Start(t, k) = Start(s, k)
  BY <1>1, <1>3 DEF Start
<1>6. Start(t, Len(s) + 1) = WordsUpTo(s)[Len(s)]
  BY <1>1, <1>4 DEF Start
<1> QED
  BY <1>1, <1>3, <1>5, <1>6 DEF Covers, t

(* The last declaration of a label counts. *)
LEMMA OffsetAppended ==
  ASSUME NEW s \in Seq(Lines), NEW l \in Lines, NEW label \in Labels
  PROVE  OffsetOf(Append(s, l), label) = IF l.label = label THEN WordsUpTo(s)[Len(s)]
                                                            ELSE OffsetOf(s, label)
<1> DEFINE t == Append(s, l)
           n == Len(s) + 1
           D == Abstract!Declared(s, label)
           E == Abstract!Declared(t, label)
<1>1. /\ Len(s) \in Nat /\ DOMAIN s = 1 .. Len(s) /\ DOMAIN t = 1 .. n
      /\ t[n] = l /\ \A k \in 1 .. Len(s) : t[k] = s[k]
  BY Appended
<1>2. Start(t, n) = WordsUpTo(s)[Len(s)] /\ \A k \in DOMAIN s : Start(t, k) = Start(s, k)
  BY CoversAppended
<1> HIDE DEF t
<1>3. CASE l.label = label
  <2>1. n \in E /\ E \in SUBSET (1 .. n) /\ n \in Nat
    BY <1>1, <1>3 DEF Abstract!Declared
  <2>2. \A k \in E : k <= n
    BY <1>1, <2>1
  <2>3. Abstract!Max(E) = n
    <3> HIDE DEF E, n
    <3> QED
      BY <2>1, <2>2, MaxIs
  <2>4. E # {}
    BY <2>1
  <2> QED
    BY <1>2, <1>3, <2>3, <2>4 DEF OffsetOf, t
<1>4. CASE l.label # label
  <2>1. E = D
    BY <1>1, <1>4 DEF Abstract!Declared
  <2>2. CASE D = {}
    BY <1>4, <2>1, <2>2 DEF OffsetOf, t
  <2>3. CASE D # {}
    <3>1. D \in SUBSET (1 .. Len(s))
      BY <1>1 DEF Abstract!Declared
    <3>2. Abstract!Max(D) \in DOMAIN s
      <4> HIDE DEF D
      <4> QED
        BY <1>1, <2>3, <3>1, MaxIs
    <3> QED
      BY <1>2, <1>4, <2>1, <2>3, <3>2 DEF OffsetOf, t
  <2> QED
    BY <2>2, <2>3
<1> QED
  BY <1>3, <1>4

LEMMA LexLineStored ==
  ASSUME TInv, HasRoom, LayoutInv, "malloc" \notin Faults, SourceInv, NEW l \in Lines, LexLine(l),
         pc' # "free", source' = Append(source, l), Running
  PROVE  Stored(source', tokenized_lines')
<1>1. /\ source \in Seq(Lines) /\ instruction_offset \in Address
      /\ instruction_offset = WordsUpTo(source)[Len(source)]
      /\ Stored(source, tokenized_lines)
  BY DEF SourceInv, TInv, TypeOK
<1>2. /\ Len(source) \in Nat /\ DOMAIN source = 1 .. Len(source)
      /\ DOMAIN source' = 1 .. Len(source) + 1
      /\ source'[Len(source) + 1] = l
      /\ \A n \in DOMAIN source : source'[n] = source[n]
  BY <1>1, Appended
<1>3. /\ \A k \in DOMAIN source : /\ Start(source', k) = Start(source, k)
                                  /\ \A j : Covers(source', k, j) <=> Covers(source, k, j)
      /\ Start(source', Len(source) + 1) = instruction_offset
      /\ \A j : Covers(source', Len(source) + 1, j) <=>
                  /\ instruction_offset <= j
                  /\ j < instruction_offset + WordsOf(l.stmt)
  BY <1>1, CoversAppended
<1>4. \A i \in Address : i < instruction_offset => tokenized_lines'[i] = tokenized_lines[i]
  BY LexLineFills DEF Filled, LayoutInv
<1>5. ASSUME NEW k \in DOMAIN source', NEW j \in Address, Covers(source', k, j)
      PROVE  \/ tokenized_lines'[j] = FREED
             \/ Holds(tokenized_lines'[j], source'[k].stmt, j - Start(source', k) + 1)
  <2>1. CASE k \in DOMAIN source
    <3>1. Covers(source, k, j)
      BY <1>3, <1>5, <2>1
    <3>2. j < instruction_offset
      <4>1. j < WordsUpTo(source)[k]
        BY <3>1 DEF Covers
      <4>2. WordsUpTo(source)[k] <= instruction_offset /\ WordsUpTo(source)[k] \in Nat
        BY <1>1, <2>1, LineSlots
      <4> QED
        BY <1>1, <4>1, <4>2, AddrSpaceAssumption DEF Address
    <3>3. tokenized_lines'[j] = tokenized_lines[j]
      BY <1>4, <3>2
    <3> QED
      BY <1>1, <1>2, <1>3, <2>1, <3>1, <3>3 DEF Stored
  <2>2. CASE k = Len(source) + 1
    <3>1. instruction_offset <= j /\ j < instruction_offset'
      BY <1>3, <1>5, <2>2, LexLineHolds
    <3> QED
      BY <1>2, <1>3, <2>2, <3>1, LexLineHolds
  <2> QED
    BY <1>2, <2>1, <2>2
<1> QED
  BY <1>5 DEF Stored

(* A line is stored whole, and its label has the offset of the line. *)
LEMMA LexLineSource ==
  ASSUME TInv, HasRoom, LayoutInv, "malloc" \notin Faults, SourceInv, NEW l \in Lines, LexLine(l)
  PROVE  SourceInv'
<1>1. /\ pc = "lex" /\ source' = Append(source, l) /\ pc' \in {"lex", "parse_orig", "free"}
      /\ AddLabel(l.label) /\ errno' = "none"
      /\ pc' = "lex" => l.stmt.type # "end"
  BY DEF LexLine, LexNothing, LexEnd, LexInstruction, LexBlkw, LexStringz, LexLost, GetLine, Fail,
         AddLabel, SourceInv
<1>2. /\ source \in Seq(Lines) /\ instruction_offset \in Address
      /\ instruction_offset = WordsUpTo(source)[Len(source)]
      /\ \A k \in DOMAIN source : source[k].stmt.type # "end" /\ LexedLine(source[k].stmt)
      /\ \A label \in Labels : dict[label] = OffsetOf(source, label)
      /\ dict \in [Labels -> Address \cup {NULL}]
  BY <1>1 DEF SourceInv, TInv, TypeOK, Running, Early
<1>3. /\ Len(source) \in Nat /\ DOMAIN source = 1 .. Len(source)
      /\ DOMAIN source' = 1 .. Len(source) + 1 /\ Len(source') = Len(source) + 1
      /\ source'[Len(source) + 1] = l
      /\ \A n \in DOMAIN source : source'[n] = source[n]
  BY <1>1, <1>2, Appended
<1>4. EndIsLast(source')
  BY <1>2, <1>3 DEF EndIsLast
<1>5. pc' = "lex" => \A k \in DOMAIN source' : source'[k].stmt.type # "end"
  BY <1>1, <1>2, <1>3
<1>6. ASSUME pc' # "free"
      PROVE  /\ \A k \in DOMAIN source' : LexedLine(source'[k].stmt)
             /\ instruction_offset' = WordsUpTo(source')[Len(source')]
             /\ Stored(source', tokenized_lines')
  <2>1. LexedLine(l.stmt) /\ instruction_offset' = instruction_offset + WordsOf(l.stmt)
    BY <1>6, LexLineHolds
  <2>2. instruction_offset' = WordsUpTo(source')[Len(source')]
    BY <1>1, <1>2, <1>3, <2>1, WordsAppended
  <2>3. Stored(source', tokenized_lines')
    BY <1>1, <1>6, LexLineStored DEF Running
  <2> QED
    BY <1>2, <1>3, <2>1, <2>2, <2>3
<1>7. ASSUME NEW label \in Labels
      PROVE  dict'[label] = OffsetOf(source', label)
  <2>1. OffsetOf(source', label) = IF l.label = label THEN instruction_offset
                                                      ELSE OffsetOf(source, label)
    BY <1>1, <1>2, OffsetAppended
  <2>2. dict'[label] = IF l.label = label THEN instruction_offset ELSE dict[label]
    BY <1>1, <1>2, SentinelAssumption DEF AddLabel
  <2> QED
    BY <1>2, <2>1, <2>2
<1> QED
  BY <1>1, <1>4, <1>5, <1>6, <1>7 DEF SourceInv, Running

(* After the lexer an entry keeps its tokens until it is freed. *)
LEMMA EntriesKeepTokens ==
  ASSUME TInv, Parse \/ Rest
  PROVE  \A i \in Address :
           \/ tokenized_lines'[i] = tokenized_lines[i]
           \/ tokenized_lines'[i] = FREED
           \/ /\ HasTokens(tokenized_lines[i])
              /\ IsEntry(tokenized_lines'[i])
              /\ tokenized_lines'[i].tokens = tokenized_lines[i].tokens
<1>1. CASE Rest
  BY <1>1, RestFrees DEF TInv, TypeOK
<1>2. ASSUME NEW i \in Address, HasTokens(tokenized_lines[i]), NEW w \in Word \cup {UNINIT},
             tokenized_lines' = WithWord(i, w)
      PROVE  \A j \in Address :
               \/ tokenized_lines'[j] = tokenized_lines[j]
               \/ /\ HasTokens(tokenized_lines[j])
                  /\ IsEntry(tokenized_lines'[j])
                  /\ tokenized_lines'[j].tokens = tokenized_lines[j].tokens
  <2>1. IsEntry(tokenized_lines[i])
    BY <1>2 DEF HasTokens
  <2>2. /\ \A j \in Address : j # i => tokenized_lines'[j] = tokenized_lines[j]
        /\ tokenized_lines'[i] \in LineMetadata
        /\ tokenized_lines'[i].tokens = tokenized_lines[i].tokens
    BY <1>2, <2>1, WithWordType DEF TInv
  <2>3. IsEntry(tokenized_lines'[i])
    BY <2>2, PointerAssumption DEF IsEntry
  <2> QED
    BY <1>2, <2>2, <2>3
<1>3. CASE ParseOrig
  <2>1. HasTokens(tokenized_lines[0]) /\ 0 \in Address
    BY <1>3, AddrSpaceAssumption DEF ParseOrig, Address
  <2>2. CASE UNCHANGED tokenized_lines
    BY <2>2
  <2>3. CASE ~UNCHANGED tokenized_lines
    <3> DEFINE w == tokenized_lines[0].tokens.arg.val
    <3>1. w \in Word \cup {UNINIT} /\ tokenized_lines' = WithWord(0, w)
      BY <1>3, <2>3 DEF ParseOrig, IsMemoryAddress, Word, WithWord
    <3> HIDE DEF w
    <3> QED
      BY <1>2, <2>1, <3>1
  <2> QED
    BY <2>2, <2>3
<1>4. CASE ParseTokens
  <2>1. HasTokens(tokenized_lines[address_offset]) /\ address_offset \in Address
    BY <1>4 DEF ParseTokens, Current, TInv, TypeOK
  <2>2. CASE UNCHANGED tokenized_lines
    BY <2>2
  <2>3. CASE ~UNCHANGED tokenized_lines
    <3> DEFINE w == ParseLine(Current).word
    <3>1. ParseLine(Current).error = "none" /\ tokenized_lines' = WithWord(address_offset, w)
      BY <1>4, <2>3 DEF ParseTokens, WithWord
    <3>2. w \in Word \cup {UNINIT}
      BY <2>1, <3>1, HasTokensType, ParseLineType DEF Current, HasTokens, TInv
    <3> HIDE DEF w
    <3> QED
      BY <1>2, <2>1, <3>1, <3>2
  <2> QED
    BY <2>2, <2>3
<1>5. CASE ParseOrigCrash \/ ParseSkip \/ ParseEnd
  BY <1>5 DEF ParseOrigCrash, Crash, ParseSkip, ParseEnd
<1> QED
  BY <1>1, <1>3, <1>4, <1>5 DEF Parse

(* The phases come in order. *)
LEMMA PhasesInOrder ==
  ASSUME Parse \/ Rest
  PROVE  /\ Running' => Running
         /\ pc' \in {"start", "open_asm", "lex"} => pc \in {"start", "open_asm", "lex"}
         /\ (Early \/ pc = "sym_header")' => (Early \/ pc = "sym_header") /\ UNCHANGED dict
<1> USE DEF Running, Early, Crash, Fail, Return
<1>1. CASE Parse
  BY <1>1 DEF Parse, ParseOrig, ParseOrigCrash, ParseTokens, ParseSkip, ParseEnd, parseUnchanged
<1>2. CASE Rest
  BY <1>2 DEF Rest, FileNames, FileNamesCrash, OpenAsm, LexOutOfMemory, LexEndOfFile,
     LexReadError, OpenSym, SymHeader, SymWriteFails, SerializeSymbol, SerializeEnd, OpenObj,
     WriteWord, WriteFails, WriteEnd, FreeEntry, FreeEnd, UseAfterFree
<1> QED
  BY <1>1, <1>2

LEMMA ParseRestSource ==
  ASSUME TInv, SourceInv, Parse \/ Rest
  PROVE  SourceInv'
<1>1. UNCHANGED <<source, errno>> /\ UNCHANGED instruction_offset
  BY SourceKept
<1>2. ASSUME Stored(source, tokenized_lines)
      PROVE  Stored(source, tokenized_lines')
  <2> SUFFICES ASSUME NEW k \in DOMAIN source, NEW j \in Address, Covers(source, k, j)
               PROVE  \/ tokenized_lines'[j] = FREED
                      \/ Holds(tokenized_lines'[j], source[k].stmt, j - Start(source, k) + 1)
    BY DEF Stored
  <2>1. \/ tokenized_lines[j] = FREED
        \/ Holds(tokenized_lines[j], source[k].stmt, j - Start(source, k) + 1)
    BY <1>2 DEF Stored
  <2>2. CASE tokenized_lines'[j] = tokenized_lines[j]
    BY <2>1, <2>2
  <2>3. CASE /\ HasTokens(tokenized_lines[j])
             /\ IsEntry(tokenized_lines'[j])
             /\ tokenized_lines'[j].tokens = tokenized_lines[j].tokens
    BY <2>1, <2>3 DEF HasTokens, IsEntry, Holds, Expanded
  <2> QED
    BY <2>2, <2>3, EntriesKeepTokens
<1> QED
  BY <1>1, <1>2, PhasesInOrder DEF SourceInv

-----------------------------------------------------------------------------
(***************************************************************************)
(* What the second pass makes of a line.                                   *)
(***************************************************************************)

(* An offset as a field of a word: two's complement. *)
LEMMA Field ==
  ASSUME NEW m \in Nat \ {0}, NEW v \in Int, -m <= v, v < m
  PROVE  v % m = IF v < 0 THEN v + m ELSE v
OBVIOUS

LEMMA FieldOf ==
  ASSUME NEW half \in HalfRange, NEW v \in Int
  PROVE  /\ OffsetField(v, half).error = "none" <=> v \in -half .. half - 1
         /\ v \in -half .. half - 1 => OffsetField(v, half).word = v % (2 * half)
<1>1. half \in Nat \ {0} /\ 2 * half \in Nat \ {0}
  BY DEF HalfRange
<1>2. v \in -half .. half - 1 => v % (2 * half) = IF v < 0 THEN v + 2 * half ELSE v
  <2> DEFINE m == 2 * half
  <2>1. m \in Nat \ {0} /\ (v \in -half .. half - 1 => -m <= v /\ v < m)
    BY <1>1
  <2> HIDE DEF m
  <2>2. v \in -half .. half - 1 => v % m = IF v < 0 THEN v + m ELSE v
    BY <2>1, Field
  <2> QED
    BY <2>2 DEF m
<1>3. v \in -half .. half - 1 =>
        OffsetField(v, half) = Parsed(IF v < 0 THEN v + 2 * half ELSE v)
  BY DEF OffsetField
<1>4. v \notin -half .. half - 1 => OffsetField(v, half) = Rejected("out_of_range")
  BY DEF OffsetField
<1> QED
  BY <1>2, <1>3, <1>4 DEF Parsed, Rejected

(* .FILL takes what fits a word, with a sign or without. *)
LEMMA FillOf ==
  ASSUME NEW v \in Int
  PROVE  /\ FillWord(v).error = "none" <=> v \in -(AddrSpace \div 2) .. AddrSpace - 1
         /\ v \in -(AddrSpace \div 2) .. AddrSpace - 1 => FillWord(v).word = v % AddrSpace
BY DEF FillWord, Parsed, Rejected

(* The offset of a declared label is one. *)
LEMMA OffsetIsAddress ==
  ASSUME NEW s \in Seq(Lines), WordsUpTo(s)[Len(s)] \in Address, NEW l \in Labels
  PROVE  /\ Abstract!Declared(s, l) = {} => OffsetOf(s, l) = NULL
         /\ Abstract!Declared(s, l) # {} => OffsetOf(s, l) \in Address /\ OffsetOf(s, l) # NULL
<1> DEFINE D == Abstract!Declared(s, l)
<1>1. Len(s) \in Nat /\ DOMAIN s = 1 .. Len(s) /\ D \in SUBSET (1 .. Len(s))
  BY DEF Abstract!Declared
<1>2. ASSUME D # {}
      PROVE  OffsetOf(s, l) \in Address
  <2> DEFINE m == Abstract!Max(D)
  <2>1. m \in DOMAIN s
    <3> HIDE DEF D
    <3> QED
      BY <1>1, <1>2, MaxIs
  <2>2. OffsetOf(s, l) = Start(s, m)
    BY <1>2 DEF OffsetOf
  <2> HIDE DEF m
  <2>3. /\ Start(s, m) \in Nat /\ WordsUpTo(s)[m] \in Nat /\ WordsOf(s[m].stmt) \in Nat
        /\ WordsUpTo(s)[m] = Start(s, m) + WordsOf(s[m].stmt)
        /\ WordsUpTo(s)[m] <= WordsUpTo(s)[Len(s)]
    BY <2>1, LineSlots
  <2> QED
    BY <2>2, <2>3, AddrSpaceAssumption DEF Address
<1> QED
  BY <1>2, SentinelAssumption DEF OffsetOf

(* A line that takes no slot, or is expanded by the lexer, is legal. *)
LEMMA LegalUnparsed ==
  ASSUME NEW s \in Seq(Lines), NEW k \in DOMAIN s, LexedLine(s[k].stmt),
         WordsOf(s[k].stmt) = 0 \/ Directive(s[k].stmt)
  PROVE  Abstract!LegalLine(s, k)
<1>1. s[k].stmt \in Stmt
  BY LineSlots
<1>2. s[k].stmt.type \in {"none", "end", "blkw", "stringz"}
  BY <1>1 DEF WordsOf, Directive, Stmt, LineType
<1> QED
  BY <1>2, SameData DEF LexedLine, Abstract!LegalLine

(* The words a directive stands for are those the lexer expands it to. *)
LEMMA DirectiveIs ==
  ASSUME NEW s \in Seq(Lines), NEW k \in DOMAIN s, Directive(s[k].stmt)
  PROVE  Abstract!WordsAt(s, k) = DirectiveWords(s[k].stmt)
BY DEF Directive, DirectiveWords, Abstract!WordsAt, Zeros

(***************************************************************************)
(* The parser accepts the entry of a line iff the line is legal, and       *)
(* computes the word the line stands for.                                  *)
(***************************************************************************)
LEMMA ParserOutcome ==
  ASSUME TInv, Placed(source), origin = Abstract!Origin(source),
         \A l \in Labels : dict[l] = OffsetOf(source, l),
         WordsUpTo(source)[Len(source)] = instruction_offset,
         NEW k \in DOMAIN source, NEW j \in Address, 1 <= j, Covers(source, k, j),
         NEW entry \in LineMetadata, entry.tokens = source[k].stmt,
         entry.instruction_location = j, ~Directive(source[k].stmt)
  PROVE  /\ ParseLine(entry).error = "none" <=> Abstract!LegalLine(source, k)
         /\ Abstract!LegalLine(source, k) =>
              ParseLine(entry).word = Abstract!WordsAt(source, k)[j - Start(source, k) + 1]
<1> DEFINE stmt == source[k].stmt
           arg  == stmt.arg
           l    == arg.name
<1>1. source \in Seq(Lines) /\ instruction_offset \in Address
  BY DEF TInv, TypeOK
<1>2. /\ source[k] \in Lines /\ stmt \in Stmt /\ WordsOf(stmt) \in Nat
      /\ Start(source, k) \in Nat
      /\ WordsUpTo(source)[k] = Start(source, k) + WordsOf(stmt)
  BY <1>1, LineSlots
<1>3. /\ arg.type \in {"missing", "num", "sym"} /\ arg.val \in Int
      /\ arg.type = "sym" => l \in Labels
      /\ stmt.half \in HalfRange
  BY <1>2, LinesAssumption DEF Stmt, Operand
<1>4. /\ FirstLine(source) < k
      /\ OneOrig(source, FirstLine(source))
      /\ Abstract!AddressOf(source, k) = origin + Start(source, k) - 1
  <2>1. FirstLine(source) < k
    BY <1>1, ImageWord DEF Address
  <2> QED
    BY <1>1, <2>1, Addresses
<1>5. stmt.type \in {"label", "fill", "offset", "op"}
  <2>1. stmt.type # "orig"
    BY <1>1, <1>4, Addresses DEF OneOrig
  <2>2. WordsOf(stmt) # 0
    BY <1>2 DEF Covers, Address
  <2> QED
    BY <1>2, <2>1, <2>2 DEF WordsOf, Directive, Stmt, LineType
<1>6. Start(source, k) = j /\ j - Start(source, k) + 1 = 1
  <2>1. WordsOf(stmt) = 1
    BY <1>5 DEF WordsOf
  <2> QED
    BY <1>2, <2>1, AddrSpaceAssumption DEF Covers, Address
<1>7. origin \in Int /\ j \in Int /\ \A d \in Address : d \in Int
  BY AddrSpaceAssumption DEF TInv, TypeOK, Address
<1>8. ASSUME arg.type = "sym"
      PROVE  /\ dict[l] = NULL <=> Abstract!Declared(source, l) = {}
             /\ dict[l] # NULL => /\ dict[l] \in Int
                                  /\ Abstract!LabelAddress(source, l) = dict[l] - 1 + origin
  <2>1. l \in Labels /\ dict[l] = OffsetOf(source, l)
    BY <1>3, <1>8
  <2> HIDE DEF l
  <2> QED
    BY <1>1, <1>7, <2>1, OffsetIsAddress, LabelAddresses
<1>9. /\ ParseLine(entry) = (CASE stmt.type = "label"  -> Rejected("invalid_opcode")
                              [] stmt.type = "fill"   -> ParseFill(arg)
                              [] stmt.type = "offset" -> ParseOffset(arg, stmt.half, j)
                              [] stmt.type = "op"     -> ParseOp(arg)
                              [] OTHER                -> Parsed(entry.machine_instruction))
  BY DEF ParseLine
<1>10. CASE stmt.type = "label"
  BY <1>9, <1>10 DEF Rejected, Abstract!LegalLine
<1>11. CASE stmt.type = "op"
  BY <1>6, <1>9, <1>11 DEF ParseOp, Parsed, Rejected, Abstract!LegalLine, Abstract!WordsAt
<1>12. CASE stmt.type = "fill"
  <2>1. ParseLine(entry) = ParseFill(arg)
    BY <1>9, <1>12
  <2>2. /\ Abstract!LegalLine(source, k) <=>
             /\ Abstract!Known(source, arg)
             /\ Abstract!Value(source, arg) \in -(AddrSpace \div 2) .. AddrSpace - 1
        /\ Abstract!WordsAt(source, k) = <<Abstract!Value(source, arg) % AddrSpace>>
    BY <1>12 DEF Abstract!LegalLine, Abstract!WordsAt
  <2>3. CASE arg.type = "missing"
    BY <2>1, <2>2, <2>3 DEF ParseFill, Rejected, Abstract!Known
  <2>4. CASE arg.type = "num"
    <3>1. ParseLine(entry) = FillWord(arg.val)
      BY <2>1, <2>4 DEF ParseFill
    <3>2. Abstract!Known(source, arg) /\ Abstract!Value(source, arg) = arg.val
      BY <2>4 DEF Abstract!Known, Abstract!Value
    <3> HIDE DEF arg
    <3> QED
      BY <1>3, <1>6, <2>2, <3>1, <3>2, FillOf
  <2>5. CASE arg.type = "sym" /\ dict[l] = NULL
    BY <1>8, <2>1, <2>2, <2>5 DEF ParseFill, Rejected, Abstract!Known
  <2>6. CASE arg.type = "sym" /\ dict[l] # NULL
    <3> DEFINE v == dict[l] - 1 + origin
    <3>1. ParseLine(entry) = FillWord(v)
      BY <2>1, <2>6 DEF ParseFill
    <3>2. Abstract!Known(source, arg) /\ Abstract!Value(source, arg) = v /\ v \in Int
      BY <1>7, <1>8, <2>6 DEF Abstract!Known, Abstract!Value
    <3> HIDE DEF arg, v
    <3> QED
      BY <1>6, <2>2, <3>1, <3>2, FillOf
  <2> QED
    BY <1>3, <2>3, <2>4, <2>5, <2>6
<1>13. CASE stmt.type = "offset"
  <2>1. ParseLine(entry) = ParseOffset(arg, stmt.half, j)
    BY <1>9, <1>13
  <2>2. /\ Abstract!LegalLine(source, k) <=>
             /\ Abstract!Known(source, arg)
             /\ Abstract!Distance(source, k) \in -stmt.half .. stmt.half - 1
        /\ Abstract!WordsAt(source, k) = <<Abstract!Distance(source, k) % (2 * stmt.half)>>
    BY <1>13 DEF Abstract!LegalLine, Abstract!WordsAt
  <2>3. CASE arg.type = "missing"
    BY <2>1, <2>2, <2>3 DEF ParseOffset, Rejected, Abstract!Known
  <2>4. CASE arg.type = "num"
    <3>1. ParseLine(entry) = OffsetField(arg.val, stmt.half)
      BY <2>1, <2>4 DEF ParseOffset
    <3>2. Abstract!Known(source, arg) /\ Abstract!Distance(source, k) = arg.val
      BY <2>4 DEF Abstract!Known, Abstract!Distance
    <3> HIDE DEF arg
    <3> QED
      BY <1>3, <1>6, <2>2, <3>1, <3>2, FieldOf
  <2>5. CASE arg.type = "sym" /\ dict[l] = NULL
    BY <1>8, <2>1, <2>2, <2>5 DEF ParseOffset, Rejected, Abstract!Known
  <2>6. CASE arg.type = "sym" /\ dict[l] # NULL
    <3> DEFINE v == dict[l] - j - 1
    <3>1. ParseLine(entry) = OffsetField(v, stmt.half)
      BY <2>1, <2>6 DEF ParseOffset
    <3>2. Abstract!Known(source, arg) /\ v \in Int
      BY <1>7, <1>8, <2>6 DEF Abstract!Known
    <3>3. Abstract!Distance(source, k) = v
      <4>1. Abstract!Distance(source, k)
              = Abstract!LabelAddress(source, l) - (Abstract!AddressOf(source, k) + 1)
        BY <2>6 DEF Abstract!Distance
      <4>2. dict[l] \in Int /\ Abstract!LabelAddress(source, l) = dict[l] - 1 + origin
        BY <1>8, <2>6
      <4> HIDE DEF l
      <4> QED
        BY <1>4, <1>6, <1>7, <4>1, <4>2
    <3> HIDE DEF arg, v
    <3> QED
      BY <1>3, <1>6, <2>2, <3>1, <3>2, <3>3, FieldOf
  <2> QED
    BY <1>3, <2>3, <2>4, <2>5, <2>6
<1> QED
  BY <1>5, <1>10, <1>11, <1>12, <1>13

-----------------------------------------------------------------------------
(***************************************************************************)
(* What holds of a canonical source while it is assembled: a line whose    *)
(* slot the parser has passed is legal and the slot has its word, and what *)
(* is in the files is right.                                               *)
(***************************************************************************)
LinesLegal(s, n) ==
  \A k \in DOMAIN s, j \in Address : j < n /\ Covers(s, k, j) => Abstract!LegalLine(s, k)

WordsDone(s, table, n) ==
  \A j \in Address : j < n =>
    table[j] = FREED \/ table[j].machine_instruction = Abstract!Image(s)[j + 1]

ParseInv ==
  Abstract!Canonical(source) =>
    /\ pc = "parse" \/ Serialized => Placed(source) /\ origin = Abstract!Origin(source)
    /\ pc = "parse" =>
         /\ 1 <= address_offset
         /\ LinesLegal(source, address_offset)
         /\ WordsDone(source, tokenized_lines, address_offset)
    /\ Serialized =>
         /\ Abstract!Legal(source)
         /\ WordsDone(source, tokenized_lines, instruction_offset)
    /\ pc = "sym" =>
         \A l \in Labels : dict[l] = IF sym_file.addr[l] = NULL THEN OffsetOf(source, l)
                                                                ELSE sym_file.addr[l]

IsPrefix(words, image) ==
  Len(words) <= Len(image) /\ \A n \in 1 .. Len(words) : words[n] = image[n]

FilesInv ==
  Abstract!Canonical(source) =>
    /\ sym_file.state # "untouched" => Abstract!Legal(source)
    /\ \A l \in Labels : sym_file.addr[l] \in {NULL, Abstract!Symbols(source)[l]}
    /\ pc \in {"open_obj", "write"} \/ obj_file.state # "untouched" =>
         sym_file.addr = Abstract!Symbols(source)
    /\ pc = "write" \/ obj_file.state # "untouched" =>
         IsPrefix(obj_file.words, Abstract!Image(source))
    /\ result = "success" =>
         /\ obj_file.state # "untouched"
         /\ Len(obj_file.words) = Len(Abstract!Image(source))

ResultInv ==
  /\ pc \in {"start", "open_asm"} => source = <<>>
  /\ pc \in {"free", "done"} => result # "none"
  /\ pc = "crashed" => ~Abstract!Canonical(source)
  /\ /\ pc \in {"free", "done"}
     /\ result \in SyntaxErrors
     /\ Abstract!Canonical(source)
     => ~Abstract!Legal(source)

(* What the earlier sections and modules prove, for reference. *)
KnownInv == TInv /\ OrderInv /\ LayoutInv /\ MemoryInv /\ SlotInv /\ SourceInv

(* A canonical source leaves the sentinel at the next slot. *)
LEMMA EndOfTable ==
  ASSUME KnownInv, Running, Abstract!Canonical(source)
  PROVE  tokenized_lines[instruction_offset] = NULL
<1> SUFFICES ASSUME EndsInEmptyBlock PROVE FALSE
  BY DEF KnownInv, SlotInv
<1>1. source \in Seq(Lines) /\ errno = "none"
  BY DEF KnownInv, SourceInv, TInv, TypeOK
<1>2. PICK k \in DOMAIN source :
        /\ EmptyBlock(source[k].stmt)
        /\ \A n \in DOMAIN source : n > k => source[n].stmt.type \in {"none", "end"}
  BY <1>1 DEF EndsInEmptyBlock
<1> DEFINE C == Abstract!CodeLines(source)
<1>3. Len(source) \in Nat /\ DOMAIN source = 1 .. Len(source) /\ C \in SUBSET (1 .. Len(source))
  BY <1>1 DEF Abstract!CodeLines
<1>4. k \in C /\ \A n \in C : n <= k
  BY <1>2, <1>3 DEF Abstract!CodeLines, EmptyBlock
<1>5. Abstract!Max(C) = k
  <2> HIDE DEF C
  <2> QED
    BY <1>3, <1>4, MaxIs
<1>6. WordsOf(source[k].stmt) > 0
  BY <1>2, <1>5, SameData DEF Abstract!Canonical, EmptyBlock
<1> QED
  BY <1>2, <1>6 DEF EmptyBlock

(* Every entry of the table is that of a slot of a line. *)
LEMMA SlotOfEntry ==
  ASSUME KnownInv, Running, Abstract!Canonical(source),
         NEW j \in Address, tokenized_lines[j] # NULL
  PROVE  /\ j < instruction_offset
         /\ \E k \in DOMAIN source :
              /\ Covers(source, k, j) /\ LexedLine(source[k].stmt)
              /\ tokenized_lines[j] # FREED =>
                   Holds(tokenized_lines[j], source[k].stmt, j - Start(source, k) + 1)
<1>1. /\ source \in Seq(Lines) /\ instruction_offset \in Address
      /\ instruction_offset = WordsUpTo(source)[Len(source)]
      /\ \A k \in DOMAIN source : LexedLine(source[k].stmt)
      /\ Stored(source, tokenized_lines)
  BY DEF KnownInv, SourceInv, TInv, TypeOK
<1>2. j < instruction_offset
  <2>1. j # instruction_offset
    BY EndOfTable
  <2>2. ~(j > instruction_offset)
    BY DEF KnownInv, LayoutInv, NoGaps
  <2> QED
    BY <1>1, <2>1, <2>2, AddrSpaceAssumption DEF Address
<1>3. j \in Nat
  BY AddrSpaceAssumption DEF Address
<1>4. PICK k \in DOMAIN source : Covers(source, k, j)
  BY <1>1, <1>2, <1>3, SlotHasLine
<1> QED
  BY <1>1, <1>2, <1>4 DEF Stored

(* Slot 0 has the first line of code of a canonical source. *)
LEMMA FirstEntry ==
  ASSUME KnownInv, pc = "parse_orig", Abstract!Canonical(source)
  PROVE  /\ HasTokens(tokenized_lines[0])
         /\ tokenized_lines[0].tokens = source[FirstLine(source)].stmt
<1> DEFINE first == FirstLine(source)
<1>1. /\ source \in Seq(Lines) /\ 0 \in Address
      /\ Stored(source, tokenized_lines) /\ tokenized_lines[0] # FREED
  BY AddrSpaceAssumption DEF KnownInv, SourceInv, Running, MemoryInv, TInv, TypeOK, Address
<1>2. /\ first \in DOMAIN source /\ Covers(source, first, 0)
      /\ ~Directive(source[first].stmt)
  BY <1>1, FirstOfCanonical DEF Directive
<1>3. source[first].stmt # NULL
  BY <1>1, <1>2, LineParts, SentinelAssumption
<1> HIDE DEF first
<1>4. Holds(tokenized_lines[0], source[first].stmt, 0 - Start(source, first) + 1)
  BY <1>1, <1>2 DEF Stored
<1> QED
  BY <1>2, <1>3, <1>4 DEF Holds, HasTokens, first

(* The .ORIG gives the program its place, or the program is rejected. *)
LEMMA ParseOrigPromise ==
  ASSUME KnownInv, ResultInv, ParseOrig
  PROVE  ParseInv' /\ ResultInv'
<1> DEFINE first == FirstLine(source)
           stmt  == tokenized_lines[0].tokens
<1>1. pc = "parse_orig" /\ UNCHANGED source /\ source \in Seq(Lines) /\ 0 \in Address
  BY AddrSpaceAssumption DEF ParseOrig, parseUnchanged, lexVars, KnownInv, TInv, TypeOK, Address
<1>2. pc' \in {"parse", "free"} /\ (pc' = "free" => result' \in {"orig_operand", "not_orig"})
  BY DEF ParseOrig, Fail
<1> SUFFICES ASSUME Abstract!Canonical(source) PROVE ParseInv' /\ ResultInv'
  BY <1>1, <1>2 DEF ParseInv, ResultInv
<1>3. HasTokens(tokenized_lines[0]) /\ stmt = source[first].stmt
  BY <1>1, FirstEntry
<1>4. Abstract!HasOrigin(source) <=> stmt.type = "orig" /\ IsMemoryAddress(stmt.arg)
  BY <1>3, SameData DEF Abstract!HasOrigin, Abstract!Canonical, FirstLine
<1>5. CASE stmt.type = "orig" /\ IsMemoryAddress(stmt.arg)
  <2> DEFINE w == stmt.arg.val
  <2>1. /\ tokenized_lines' = WithWord(0, w) /\ origin' = w
        /\ address_offset' = 1 /\ pc' = "parse"
    BY <1>5 DEF ParseOrig, WithWord
  <2>2. Placed(source)
    BY <1>4, <1>5 DEF Placed
  <2>3. w = Abstract!Origin(source)
    BY <1>3 DEF Abstract!Origin, FirstLine
  <2>4. tokenized_lines'[0].machine_instruction = w
    <3>1. w \in Word \cup {UNINIT} /\ IsEntry(tokenized_lines[0])
      BY <1>3, <1>5 DEF IsMemoryAddress, Word, HasTokens
    <3> HIDE DEF w
    <3> QED
      BY <1>1, <2>1, <3>1, WithWordType DEF KnownInv, TInv
  <2>5. \A j \in Address : j < 1 => j = 0
    BY AddrSpaceAssumption DEF Address
  <2>6. LinesLegal(source, 1)
    <3> SUFFICES ASSUME NEW k \in DOMAIN source, Covers(source, k, 0)
                 PROVE  Abstract!LegalLine(source, k)
      BY <2>5 DEF LinesLegal
    <3>1. Covers(source, first, 0) /\ first \in DOMAIN source
      BY <1>1, FirstOfCanonical
    <3> HIDE DEF first
    <3>2. k = first
      BY <1>1, <3>1, SlotHasOneLine
    <3> QED
      BY <1>3, <1>5, <3>2 DEF Abstract!LegalLine
  <2>7. WordsDone(source, tokenized_lines', 1)
    <3>1. Abstract!Image(source)[0 + 1] = Abstract!Origin(source)
      BY <1>1, <2>2, ImageShape
    <3> HIDE DEF w
    <3> QED
      BY <2>3, <2>4, <2>5, <3>1 DEF WordsDone
  <2> HIDE DEF w
  <2> QED
    BY <1>1, <2>1, <2>2, <2>3, <2>6, <2>7 DEF ParseInv, ResultInv, Serialized
<1>6. CASE ~(stmt.type = "orig" /\ IsMemoryAddress(stmt.arg))
  <2>1. pc' = "free"
    BY <1>6 DEF ParseOrig, Fail
  <2>2. ~Abstract!Legal(source)
    BY <1>4, <1>6 DEF Abstract!Legal
  <2> QED
    BY <1>1, <1>2, <2>1, <2>2 DEF ParseInv, ResultInv, Serialized
<1> QED
  BY <1>5, <1>6

(* The parser has passed one more slot. *)
LEMMA OneMoreSlot ==
  ASSUME NEW s \in Seq(Lines), Placed(s), NEW k \in DOMAIN s, NEW j \in Address, 1 <= j,
         Covers(s, k, j), Abstract!LegalLine(s, k), NEW table, NEW after,
         LinesLegal(s, j), WordsDone(s, table, j),
         \A i \in Address : i < j => after[i] = table[i],
         after[j].machine_instruction = Abstract!WordsAt(s, k)[j - Start(s, k) + 1]
  PROVE  LinesLegal(s, j + 1) /\ WordsDone(s, after, j + 1)
<1>1. \A i \in Address : i < j + 1 => i < j \/ i = j
  BY AddrSpaceAssumption DEF Address
<1>2. j \in Nat
  BY AddrSpaceAssumption DEF Address
<1>3. LinesLegal(s, j + 1)
  <2>1. \A n \in DOMAIN s : Covers(s, n, j) => n = k
    BY <1>2, SlotHasOneLine
  <2> QED
    BY <1>1, <2>1 DEF LinesLegal
<1>4. after[j].machine_instruction = Abstract!Image(s)[j + 1]
  BY <1>2, ImageWord
<1> QED
  BY <1>1, <1>3, <1>4 DEF WordsDone

LEMMA ParseTokensPromise ==
  ASSUME KnownInv, HasRoom, ParseInv, ResultInv, ParseTokens
  PROVE  ParseInv' /\ ResultInv'
<1> DEFINE j       == address_offset
           outcome == ParseLine(Current)
<1>1. /\ pc = "parse" /\ UNCHANGED <<source, origin>> /\ HasTokens(Current)
      /\ source \in Seq(Lines) /\ j \in Address /\ Current = tokenized_lines[j]
      /\ Running
  BY DEF ParseTokens, parseUnchanged, lexVars, KnownInv, TInv, TypeOK, Current, Running
<1>2. outcome.error \in SyntaxErrors \cup {"none"} /\ Current \in LineMetadata
  BY <1>1, HasTokensType, ParseLineType DEF HasTokens, KnownInv, TInv
<1>3. \/ /\ outcome.error = "none"
         /\ tokenized_lines' = WithWord(j, outcome.word)
         /\ address_offset' = NextAddress /\ pc' = "parse"
      \/ outcome.error # "none" /\ pc' = "free" /\ result' = outcome.error
  BY <1>1 DEF ParseTokens, WithWord, Fail
<1> SUFFICES ASSUME Abstract!Canonical(source) PROVE ParseInv' /\ ResultInv'
  BY <1>1, <1>3 DEF ParseInv, ResultInv
<1>4. /\ Placed(source) /\ origin = Abstract!Origin(source) /\ 1 <= j
      /\ LinesLegal(source, j) /\ WordsDone(source, tokenized_lines, j)
  BY <1>1 DEF ParseInv
<1>5. Current # NULL /\ Current # FREED
  BY <1>1 DEF HasTokens, IsEntry
<1>6. PICK k \in DOMAIN source : /\ Covers(source, k, j)
                                 /\ Holds(Current, source[k].stmt, j - Start(source, k) + 1)
  BY <1>1, <1>5, SlotOfEntry
<1>7. /\ ParseLine(Current).error = "none" <=> Abstract!LegalLine(source, k)
      /\ Abstract!LegalLine(source, k) =>
           ParseLine(Current).word = Abstract!WordsAt(source, k)[j - Start(source, k) + 1]
  <2>1. Current.tokens = source[k].stmt /\ ~Directive(source[k].stmt)
    BY <1>1, <1>6 DEF HasTokens, Holds, Expanded
  <2>2. Current.instruction_location = j
    BY <1>1 DEF KnownInv, LayoutInv, EntriesAtTheirLocation
  <2>3. /\ TInv /\ \A l \in Labels : dict[l] = OffsetOf(source, l)
        /\ WordsUpTo(source)[Len(source)] = instruction_offset
    BY <1>1 DEF KnownInv, SourceInv, Early
  <2> HIDE DEF j
  <2> QED
    BY <1>1, <1>2, <1>4, <1>6, <2>1, <2>2, <2>3, ParserOutcome
<1>8. CASE outcome.error = "none"
  <2>1. /\ tokenized_lines' = WithWord(j, outcome.word)
        /\ address_offset' = NextAddress /\ pc' = "parse"
    BY <1>3, <1>8
  <2>2. /\ tokenized_lines'[j].machine_instruction = outcome.word
        /\ \A i \in Address : i < j => tokenized_lines'[i] = tokenized_lines[i]
    <3>1. outcome.word \in Word \cup {UNINIT} /\ IsEntry(tokenized_lines[j])
      BY <1>1, <1>2, <1>8, ParseLineType DEF HasTokens, KnownInv, TInv
    <3>2. \A i \in Address : i < j => i # j
      BY <1>1, AddrSpaceAssumption DEF Address
    <3> HIDE DEF outcome, j
    <3> QED
      BY <1>1, <2>1, <3>1, <3>2, WithWordType DEF KnownInv, TInv
  <2>3. LinesLegal(source, j + 1) /\ WordsDone(source, tokenized_lines', j + 1)
    <3>1. /\ Abstract!LegalLine(source, k)
          /\ outcome.word = Abstract!WordsAt(source, k)[j - Start(source, k) + 1]
      BY <1>7, <1>8
    <3> HIDE DEF outcome, j
    <3> QED
      BY <1>1, <1>4, <1>6, <2>2, <3>1, OneMoreSlot
  <2>4. address_offset' = j + 1
    BY <1>5, <2>1, NextIndex DEF KnownInv
  <2>5. 1 <= j + 1
    BY <1>1, <1>4, AddrSpaceAssumption DEF Address
  <2> QED
    BY <1>1, <1>4, <2>1, <2>3, <2>4, <2>5 DEF ParseInv, ResultInv, Serialized
<1>9. CASE outcome.error # "none"
  <2>1. pc' = "free"
    BY <1>3, <1>9
  <2>2. ~Abstract!Legal(source)
    BY <1>7, <1>9 DEF Abstract!Legal
  <2> QED
    BY <1>1, <1>3, <1>9, <2>1, <2>2 DEF ParseInv, ResultInv, Serialized
<1> QED
  BY <1>8, <1>9

(* An entry without tokens has the word of a directive. *)
LEMMA ParseSkipPromise ==
  ASSUME KnownInv, HasRoom, ParseInv, ResultInv, ParseSkip
  PROVE  ParseInv' /\ ResultInv'
<1> DEFINE j == address_offset
<1>1. /\ pc = "parse" /\ pc' = "parse" /\ UNCHANGED <<source, origin, tokenized_lines>>
      /\ Current # NULL /\ ~HasTokens(Current)
      /\ source \in Seq(Lines) /\ j \in Address /\ Current = tokenized_lines[j]
      /\ Running /\ address_offset' = NextAddress
  BY DEF ParseSkip, parseUnchanged, lexVars, KnownInv, TInv, TypeOK, Current, Running
<1> SUFFICES ASSUME Abstract!Canonical(source) PROVE ParseInv' /\ ResultInv'
  BY <1>1 DEF ParseInv, ResultInv
<1>2. /\ Placed(source) /\ origin = Abstract!Origin(source) /\ 1 <= j
      /\ LinesLegal(source, j) /\ WordsDone(source, tokenized_lines, j)
  BY <1>1 DEF ParseInv
<1>3. Current # FREED
  BY <1>1 DEF KnownInv, MemoryInv
<1>4. PICK k \in DOMAIN source : /\ Covers(source, k, j) /\ LexedLine(source[k].stmt)
                                 /\ Holds(Current, source[k].stmt, j - Start(source, k) + 1)
  BY <1>1, <1>3, SlotOfEntry
<1>5. Directive(source[k].stmt)
  <2>1. source[k].stmt # NULL
    BY <1>1, LineParts, SentinelAssumption
  <2> QED
    BY <1>1, <1>4, <2>1 DEF Holds, HasTokens
<1>6. Abstract!LegalLine(source, k)
  BY <1>1, <1>4, <1>5, LegalUnparsed
<1>7. Current.machine_instruction = Abstract!WordsAt(source, k)[j - Start(source, k) + 1]
  BY <1>1, <1>4, <1>5, DirectiveIs DEF Holds, Expanded
<1>8. address_offset' = j + 1
  BY <1>1, NextIndex DEF KnownInv
<1>9. LinesLegal(source, j + 1) /\ WordsDone(source, tokenized_lines, j + 1)
  <2> HIDE DEF j
  <2> QED
    BY <1>1, <1>2, <1>4, <1>6, <1>7, OneMoreSlot
<1>10. 1 <= j + 1
  BY <1>1, <1>2, AddrSpaceAssumption DEF Address
<1> QED
  BY <1>1, <1>2, <1>8, <1>9, <1>10 DEF ParseInv, ResultInv, Serialized

(* At the sentinel the parser has seen every line that has a slot. *)
LEMMA ParseEndPromise ==
  ASSUME KnownInv, ParseInv, ResultInv, ParseEnd
  PROVE  ParseInv' /\ ResultInv'
<1>1. /\ pc = "parse" /\ pc' = "open_sym" /\ Current = NULL
      /\ UNCHANGED <<source, origin, tokenized_lines, instruction_offset>>
      /\ source \in Seq(Lines) /\ address_offset \in Address /\ instruction_offset \in Address
  BY DEF ParseEnd, parseUnchanged, lexVars, KnownInv, TInv, TypeOK
<1> SUFFICES ASSUME Abstract!Canonical(source) PROVE ParseInv' /\ ResultInv'
  BY <1>1 DEF ParseInv, ResultInv
<1>2. /\ Placed(source) /\ origin = Abstract!Origin(source)
      /\ LinesLegal(source, address_offset)
      /\ WordsDone(source, tokenized_lines, address_offset)
  BY <1>1 DEF ParseInv
<1>3. instruction_offset <= address_offset
  BY <1>1, AddrSpaceAssumption DEF KnownInv, LayoutInv, NoGaps, Current, Address
<1>4. /\ instruction_offset = WordsUpTo(source)[Len(source)]
      /\ \A k \in DOMAIN source : LexedLine(source[k].stmt)
  BY <1>1 DEF KnownInv, SourceInv, Running
<1>5. \A j \in Address : j < instruction_offset => j < address_offset
  BY <1>1, <1>3, AddrSpaceAssumption DEF Address
<1>6. WordsDone(source, tokenized_lines, instruction_offset)
  BY <1>2, <1>5 DEF WordsDone
<1>7. ASSUME NEW k \in DOMAIN source
      PROVE  Abstract!LegalLine(source, k)
  <2>1. /\ Start(source, k) \in Nat /\ WordsOf(source[k].stmt) \in Nat
        /\ WordsUpTo(source)[k] \in Nat
        /\ WordsUpTo(source)[k] = Start(source, k) + WordsOf(source[k].stmt)
        /\ WordsUpTo(source)[k] <= instruction_offset
    BY <1>1, <1>4, LineSlots
  <2>2. CASE WordsOf(source[k].stmt) = 0
    BY <1>1, <1>4, <2>2, LegalUnparsed
  <2>3. CASE WordsOf(source[k].stmt) # 0
    <3>1. Covers(source, k, Start(source, k))
      BY <2>1, <2>3 DEF Covers
    <3>2. Start(source, k) \in Address /\ Start(source, k) < instruction_offset
      BY <1>1, <2>1, <2>3, AddrSpaceAssumption DEF Address
    <3> QED
      BY <1>2, <1>5, <3>1, <3>2 DEF LinesLegal
  <2> QED
    BY <2>2, <2>3
<1>8. Abstract!Legal(source)
  BY <1>2, <1>7 DEF Abstract!Legal, Placed
<1> QED
  BY <1>1, <1>2, <1>6, <1>8 DEF ParseInv, ResultInv, Serialized

-----------------------------------------------------------------------------
(***************************************************************************)
(* The files.                                                              *)
(***************************************************************************)

(* The symbol table is relocated to the addresses of the labels. *)
LEMMA RelocatedTo ==
  ASSUME KnownInv, ParseInv, Abstract!Canonical(source), pc = "sym", NEW l \in ToSerialize
  PROVE  LET address == (dict[l] - 1 + tokenized_lines[0].machine_instruction) % AddrSpace
         IN  address \in Address /\ address # NULL /\ address = Abstract!Symbols(source)[l]
<1>1. /\ Placed(source) /\ origin = Abstract!Origin(source)
      /\ source \in Seq(Lines) /\ instruction_offset \in Address
      /\ instruction_offset = WordsUpTo(source)[Len(source)]
  BY DEF ParseInv, Serialized, KnownInv, SourceInv, Running, TInv, TypeOK
<1>2. l \in Labels /\ dict[l] # NULL /\ sym_file.addr[l] = NULL
  BY DEF ToSerialize
<1>3. dict[l] = OffsetOf(source, l)
  BY <1>2 DEF ParseInv
<1>4. Abstract!Declared(source, l) # {}
  BY <1>1, <1>2, <1>3, OffsetIsAddress
<1>5. tokenized_lines[0].machine_instruction = origin
  BY DEF KnownInv, TInv, OrigFirst
<1>6. /\ Abstract!LabelAddress(source, l) = dict[l] - 1 + origin
      /\ Abstract!LabelAddress(source, l) \in Address
  BY <1>1, <1>2, <1>3, <1>4, LabelAddresses
<1>7. Abstract!LabelAddress(source, l) % AddrSpace = Abstract!LabelAddress(source, l)
  BY <1>6, ModSmall
<1>8. Abstract!Symbols(source)[l] = Abstract!LabelAddress(source, l)
  BY <1>2, <1>4 DEF Abstract!Symbols
<1> QED
  BY <1>5, <1>6, <1>7, <1>8, SentinelAssumption

(* What the parser has established stays until the last word is written. *)
LEMMA RestParseInv ==
  ASSUME KnownInv, ParseInv, Rest
  PROVE  ParseInv'
<1>1. UNCHANGED source /\ UNCHANGED instruction_offset
  BY SourceKept
<1>2. pc' # "parse" /\ (Serialized' => Serialized /\ UNCHANGED origin)
  BY DEF Serialized, Rest, FileNames, FileNamesCrash, OpenAsm, LexOutOfMemory, LexEndOfFile,
     LexReadError, OpenSym, SymHeader, SymWriteFails, SerializeSymbol, SerializeEnd, OpenObj,
     WriteWord, WriteFails, WriteEnd, FreeEntry, FreeEnd, UseAfterFree,
     Crash, Fail, Return, lineVars
<1>3. ASSUME WordsDone(source, tokenized_lines, instruction_offset)
      PROVE  WordsDone(source, tokenized_lines', instruction_offset)
  BY <1>3, RestFrees DEF WordsDone, KnownInv, TInv, TypeOK
<1>4. ASSUME pc' = "sym", Abstract!Canonical(source)
      PROVE  \A l \in Labels : dict'[l] = IF sym_file'.addr[l] = NULL THEN OffsetOf(source, l)
                                                                      ELSE sym_file'.addr[l]
  <2>1. SymHeader \/ \E l \in Labels : SerializeSymbol(l)
    BY <1>4 DEF Rest, FileNames, FileNamesCrash, OpenAsm, LexOutOfMemory, LexEndOfFile,
       LexReadError, OpenSym, SerializeEnd, OpenObj,
       WriteWord, WriteFails, WriteEnd, FreeEntry, FreeEnd, UseAfterFree, Crash, Fail, Return
  <2>2. CASE SymHeader
    <3>1. pc = "sym_header" /\ UNCHANGED <<dict, sym_file>>
      BY <1>4, <2>2 DEF SymHeader, SymWriteFails, Fail, fileVars
    <3> QED
      BY <3>1 DEF KnownInv, OrderInv, SourceInv, NoSymbols
  <2>3. ASSUME NEW l \in Labels, SerializeSymbol(l)
        PROVE  \A m \in Labels : dict'[m] = IF sym_file'.addr[m] = NULL THEN OffsetOf(source, m)
                                                                        ELSE sym_file'.addr[m]
    <3> DEFINE address == (dict[l] - 1 + tokenized_lines[0].machine_instruction) % AddrSpace
    <3>1. /\ pc = "sym" /\ l \in ToSerialize
          /\ dict' = [dict EXCEPT ![l] = address]
          /\ sym_file' = [sym_file EXCEPT !.addr[l] = address]
      BY <1>4, <2>3 DEF SerializeSymbol, SymWriteFails, Fail
    <3>2. address # NULL
      BY <1>4, <3>1, RelocatedTo
    <3> HIDE DEF address
    <3>3. \A m \in Labels : dict[m] = IF sym_file.addr[m] = NULL THEN OffsetOf(source, m)
                                                                 ELSE sym_file.addr[m]
      BY <1>4, <3>1 DEF ParseInv
    <3>4. /\ dict \in [Labels -> Address \cup {NULL}]
          /\ sym_file.addr \in [Labels -> Address \cup {NULL}] /\ sym_file \in SymFile
      BY DEF KnownInv, TInv, TypeOK, SymFile
    <3>5. sym_file'.addr = [sym_file.addr EXCEPT ![l] = address]
      BY <3>1, <3>4 DEF SymFile
    <3> QED
      BY <3>1, <3>2, <3>3, <3>4, <3>5
  <2> QED
    BY <2>1, <2>2, <2>3
<1> QED
  BY <1>1, <1>2, <1>3, <1>4 DEF ParseInv

(* A step that touches no file and reports no success. *)
LEMMA FilesKept ==
  ASSUME FilesInv, UNCHANGED <<source, sym_file, obj_file>>,
         pc' \notin {"open_obj", "write"}, result' # "success"
  PROVE  FilesInv'
BY DEF FilesInv

LEMMA LegalSource ==
  ASSUME ParseInv, Serialized, Abstract!Canonical(source)
  PROVE  Abstract!Legal(source) /\ Placed(source)
BY DEF ParseInv

(* The symbol table is printed as AssemblySpec has it. *)
LEMMA SymbolsPromise ==
  ASSUME KnownInv, ParseInv, FilesInv,
         \/ OpenSym \/ SymHeader \/ (\E l \in Labels : SerializeSymbol(l)) \/ SerializeEnd
  PROVE  FilesInv'
<1>1. /\ pc \in {"open_sym", "sym_header", "sym"} /\ UNCHANGED <<source, obj_file>>
      /\ Serialized /\ result = "none" /\ obj_file.state = "untouched"
      /\ sym_file \in SymFile /\ sym_file.addr \in [Labels -> Address \cup {NULL}]
  BY DEF OpenSym, SymHeader, SymWriteFails, SerializeSymbol, SerializeEnd, Fail,
         lineVars, lexVars, fileVars, Serialized, KnownInv, OrderInv, Running, TInv, TypeOK, SymFile
<1>2. result' \in {"none", "open_sym", "sym_write"} /\ (pc' = "open_obj" => SerializeEnd)
      /\ pc' # "write"
  BY <1>1 DEF OpenSym, SymHeader, SymWriteFails, SerializeSymbol, SerializeEnd, Fail
<1> SUFFICES ASSUME Abstract!Canonical(source) PROVE FilesInv'
  BY <1>1 DEF FilesInv
<1>3. Abstract!Legal(source)
  BY <1>1, LegalSource
<1>4. \A l \in Labels : sym_file.addr[l] \in {NULL, Abstract!Symbols(source)[l]}
  BY DEF FilesInv
<1>5. CASE ~SerializeEnd /\ sym_file'.addr = sym_file.addr
  BY <1>1, <1>2, <1>3, <1>4, <1>5 DEF FilesInv
<1>6. CASE SerializeEnd
  <2>1. pc = "sym" /\ ToSerialize = {} /\ sym_file'.addr = sym_file.addr /\ result' = "none"
    BY <1>1, <1>6 DEF SerializeEnd, SymFile
  <2>2. ASSUME NEW l \in Labels
        PROVE  sym_file.addr[l] = Abstract!Symbols(source)[l]
    <3>1. CASE sym_file.addr[l] # NULL
      BY <1>4, <3>1
    <3>2. CASE sym_file.addr[l] = NULL
      <4>1. dict[l] = NULL
        BY <2>1, <3>2 DEF ToSerialize
      <4>2. OffsetOf(source, l) = NULL
        BY <2>1, <3>2, <4>1 DEF ParseInv
      <4>3. source \in Seq(Lines) /\ WordsUpTo(source)[Len(source)] \in Address
        BY <2>1 DEF KnownInv, SourceInv, Running, TInv, TypeOK
      <4>4. Abstract!Declared(source, l) = {}
        BY <4>2, <4>3, OffsetIsAddress
      <4> QED
        BY <3>2, <4>4 DEF Abstract!Symbols
    <3> QED
      BY <3>1, <3>2
  <2>3. sym_file.addr = Abstract!Symbols(source)
    BY <1>1, <2>2 DEF Abstract!Symbols
  <2> QED
    BY <1>1, <1>2, <1>3, <1>4, <2>1, <2>3 DEF FilesInv
<1>7. ASSUME NEW l \in Labels, SerializeSymbol(l), sym_file'.addr # sym_file.addr
      PROVE  FilesInv'
  <2> DEFINE address == (dict[l] - 1 + tokenized_lines[0].machine_instruction) % AddrSpace
  <2>1. /\ pc = "sym" /\ l \in ToSerialize /\ pc' = "sym"
        /\ sym_file' = [sym_file EXCEPT !.addr[l] = address]
    BY <1>1, <1>7 DEF SerializeSymbol, SymWriteFails, SymFile
  <2>2. address = Abstract!Symbols(source)[l]
    BY <2>1, RelocatedTo
  <2> HIDE DEF address
  <2>3. sym_file'.addr = [sym_file.addr EXCEPT ![l] = address]
    BY <1>1, <2>1 DEF SymFile
  <2>4. \A m \in Labels : sym_file'.addr[m] \in {NULL, Abstract!Symbols(source)[m]}
    BY <1>1, <1>4, <2>2, <2>3
  <2> QED
    BY <1>1, <1>2, <1>3, <2>1, <2>4 DEF FilesInv
<1>8. \/ ~SerializeEnd /\ sym_file'.addr = sym_file.addr
      \/ SerializeEnd
      \/ \E l \in Labels : SerializeSymbol(l) /\ sym_file'.addr # sym_file.addr
  BY <1>1 DEF OpenSym, SymHeader, SymWriteFails, SymFile, fileVars
<1> QED
  BY <1>5, <1>6, <1>7, <1>8

(* The object file gets the image, word by word. *)
LEMMA ImagePromise ==
  ASSUME KnownInv, HasRoom, ParseInv, FilesInv, OpenObj \/ WriteWord \/ WriteFails \/ WriteEnd
  PROVE  FilesInv'
<1>1. /\ pc \in {"open_obj", "write"} /\ UNCHANGED <<source, sym_file>>
      /\ Serialized /\ Running /\ result = "none"
      /\ source \in Seq(Lines) /\ obj_file \in ObjFile
      /\ address_offset \in Address /\ instruction_offset \in Address
  BY DEF OpenObj, WriteWord, WriteFails, WriteEnd, Fail, lineVars, lexVars,
         Serialized, KnownInv, OrderInv, Running, TInv, TypeOK
<1> SUFFICES ASSUME Abstract!Canonical(source) PROVE FilesInv'
  BY <1>1 DEF FilesInv
<1> DEFINE image == Abstract!Image(source)
<1>2. Abstract!Legal(source) /\ Placed(source)
  BY <1>1, LegalSource
<1>3. Len(image) = instruction_offset /\ instruction_offset \in Nat
  BY <1>1, <1>2, ImageShape, AddrSpaceAssumption DEF KnownInv, SourceInv, Address
<1> HIDE DEF image
<1>4. /\ \A l \in Labels : sym_file.addr[l] \in {NULL, Abstract!Symbols(source)[l]}
      /\ sym_file.addr = Abstract!Symbols(source)
      /\ pc = "write" => IsPrefix(obj_file.words, image)
  BY <1>1 DEF FilesInv, image
<1>5. CASE OpenObj
  <2>1. /\ pc = "open_obj" /\ obj_file = [state |-> "untouched", words |-> <<>>]
        /\ result' # "success"
    BY <1>1, <1>5 DEF OpenObj, Fail, KnownInv, OrderInv
  <2>2. obj_file'.words = <<>>
    BY <1>5, <2>1 DEF OpenObj
  <2>3. IsPrefix(<<>>, image)
    BY <1>3 DEF IsPrefix
  <2> QED
    BY <1>1, <1>2, <1>4, <2>1, <2>2, <2>3 DEF FilesInv, image
<1>6. CASE WriteFails
  <2>1. pc = "write" /\ obj_file'.words = obj_file.words /\ result' # "success"
    BY <1>1, <1>6 DEF WriteFails, Return, ObjFile
  <2> QED
    BY <1>1, <1>2, <1>4, <2>1 DEF FilesInv, image
<1>7. CASE WriteEnd
  <2>1. /\ pc = "write" /\ Current = NULL /\ obj_file'.words = obj_file.words
        /\ obj_file'.state # "untouched"
    BY <1>1, <1>7 DEF WriteEnd, ObjFile, Closed
  <2>2. Len(obj_file.words) = address_offset
    BY <2>1 DEF KnownInv, MemoryInv
  <2>3. instruction_offset <= address_offset
    BY <1>1, <2>1, AddrSpaceAssumption DEF KnownInv, LayoutInv, NoGaps, Current, Address
  <2>4. Len(obj_file.words) = Len(image)
    BY <1>1, <1>3, <1>4, <2>1, <2>2, <2>3, AddrSpaceAssumption DEF IsPrefix, Address
  <2> QED
    BY <1>1, <1>2, <1>4, <2>1, <2>4 DEF FilesInv, image
<1>8. CASE WriteWord
  <2> DEFINE j == address_offset
  <2>1. /\ pc = "write" /\ IsEntry(Current) /\ UNCHANGED result
        /\ obj_file'.words = Append(obj_file.words, Current.machine_instruction)
    BY <1>1, <1>8 DEF WriteWord, ObjFile
  <2>2. Len(obj_file.words) = j /\ obj_file.words \in Seq(Word \cup {UNINIT}) /\ j \in Nat
    BY <1>1, <2>1, AddrSpaceAssumption DEF KnownInv, MemoryInv, ObjFile, Address
  <2>3. j < instruction_offset
    BY <1>1, <2>1, SlotOfEntry DEF Current, IsEntry
  <2>4. Current.machine_instruction = image[j + 1]
    BY <1>1, <2>1, <2>3 DEF ParseInv, WordsDone, Current, IsEntry, image
  <2>5. IsPrefix(obj_file'.words, image)
    <3> DEFINE words == obj_file.words
               w     == Current.machine_instruction
    <3>1. w \in Word \cup {UNINIT}
      BY <1>1, <2>1 DEF Current, IsEntry, KnownInv, TInv, TypeOK, LineMetadata
    <3>2. words \in Seq(Word \cup {UNINIT}) /\ Len(words) = j /\ IsPrefix(words, image)
      BY <1>4, <2>1, <2>2
    <3> HIDE DEF words, w, j
    <3>3. /\ Len(Append(words, w)) = j + 1
          /\ Append(words, w)[j + 1] = w
          /\ \A n \in 1 .. j : Append(words, w)[n] = words[n]
      BY <3>1, <3>2
    <3>4. w = image[j + 1] /\ j < Len(image) /\ j \in Nat /\ Len(image) \in Nat
      BY <1>3, <2>2, <2>3, <2>4 DEF w, j
    <3>5. IsPrefix(Append(words, w), image)
      BY <3>2, <3>3, <3>4 DEF IsPrefix
    <3> QED
      BY <2>1, <3>5 DEF words, w
  <2> QED
    BY <1>1, <1>2, <1>4, <2>1, <2>5 DEF FilesInv, image
<1> QED
  BY <1>5, <1>6, <1>7, <1>8

(* The rest of assemble() touches no file. *)
LEMMA RestFiles ==
  ASSUME KnownInv, HasRoom, ParseInv, FilesInv, Rest
  PROVE  FilesInv'
<1> DEFINE Quiet == FileNames \/ FileNamesCrash \/ OpenAsm \/ LexOutOfMemory \/ LexEndOfFile
                    \/ LexReadError \/ FreeEntry \/ FreeEnd \/ UseAfterFree
<1>1. CASE Quiet
  <2>1. /\ UNCHANGED <<source, sym_file, obj_file>> /\ pc # "done"
    BY <1>1 DEF FileNames, FileNamesCrash, OpenAsm, LexOutOfMemory, LexEndOfFile, LexReadError,
       FreeEntry, FreeEnd, UseAfterFree, Crash, Fail, Return, lineVars, lexVars, fileVars
  <2>2. result # "success"
    BY <2>1 DEF KnownInv, SlotInv
  <2>3. result' # "success" /\ pc' \notin {"open_obj", "write"}
    BY <1>1, <2>2 DEF FileNames, FileNamesCrash, OpenAsm, LexOutOfMemory, LexEndOfFile, LexReadError,
       FreeEntry, FreeEnd, UseAfterFree, Crash, Fail, Return
  <2> QED
    BY <2>1, <2>3, FilesKept
<1> QED
  BY <1>1, SymbolsPromise, ImagePromise DEF Rest

-----------------------------------------------------------------------------
(***************************************************************************)
(* How a run ends.                                                         *)
(***************************************************************************)

(* A file without lines is not a program the promise is about. *)
LEMMA NoLinesNotCanonical ==
  ~Abstract!Canonical(<<>>)
BY DEF Abstract!Canonical, Abstract!CodeLines

(* The rest of assemble() returns the syntax errors of the passes. *)
LEMMA RestResult ==
  ASSUME KnownInv, "malloc" \notin Faults, ResultInv, Rest
  PROVE  ResultInv'
<1>1. UNCHANGED source
  BY SourceKept
<1>2. CASE FileNames \/ FileNamesCrash \/ OpenAsm
  <2>1. pc \in {"start", "open_asm"} /\ source = <<>> /\ ~Abstract!Canonical(source)
    BY <1>2, NoLinesNotCanonical DEF FileNames, FileNamesCrash, OpenAsm, ResultInv
  <2>2. pc' \in {"free", "done"} => pc' = "done" /\ result' \in {"suffix", "open_asm"}
    BY <1>2 DEF FileNames, FileNamesCrash, OpenAsm, Crash, Return
  <2> QED
    BY <1>1, <2>1, <2>2 DEF ResultInv
<1>3. CASE FreeEntry \/ FreeEnd
  <2>1. pc = "free" /\ pc' \in {"free", "done"} /\ UNCHANGED result
    BY <1>3 DEF FreeEntry, FreeEnd
  <2> QED
    BY <1>1, <2>1 DEF ResultInv
<1>4. CASE LexOutOfMemory \/ UseAfterFree
  <2>1. UseAfterFree
    BY <1>4 DEF LexOutOfMemory
  <2>2. tokenized_lines[address_offset] = FREED <=> address_offset < address_offset
    BY <2>1 DEF UseAfterFree, KnownInv, MemoryInv, Freeing, TInv, TypeOK
  <2>3. address_offset \in Int
    BY AddrSpaceAssumption DEF KnownInv, TInv, TypeOK, Address
  <2> QED
    BY <2>1, <2>2, <2>3 DEF UseAfterFree, Current
<1>5. CASE \/ LexEndOfFile \/ LexReadError
           \/ OpenSym \/ SymHeader \/ (\E l \in Labels : SerializeSymbol(l)) \/ SerializeEnd
           \/ OpenObj \/ WriteWord \/ WriteFails \/ WriteEnd
  <2>1. /\ pc' \notin {"start", "open_asm", "crashed"}
        /\ pc' \in {"free", "done"} =>
             result' \in {"getline", "open_sym", "sym_write", "open_obj", "obj_write", "success"}
    BY <1>5 DEF LexEndOfFile, LexReadError, OpenSym, SymHeader, SymWriteFails, SerializeSymbol,
       SerializeEnd, OpenObj, WriteWord, WriteFails, WriteEnd, Fail, Return
  <2> QED
    BY <2>1 DEF ResultInv, SyntaxErrors
<1> QED
  BY <1>2, <1>3, <1>4, <1>5 DEF Rest

(* The parser crashes on no entry at all only. *)
LEMMA ParseOrigCrashPromise ==
  ASSUME KnownInv, HasRoom, ParseOrigCrash
  PROVE  ParseInv' /\ ResultInv'
<1>1. /\ pc = "parse_orig" /\ ~HasTokens(tokenized_lines[0]) /\ pc' = "crashed"
      /\ UNCHANGED source /\ Running /\ result = "none" /\ UNCHANGED result
  BY DEF ParseOrigCrash, Crash, lexVars, KnownInv, OrderInv, Running
<1>2. ~Abstract!Canonical(source)
  BY <1>1, FirstEntry DEF KnownInv
<1> QED
  BY <1>1, <1>2 DEF ParseInv, ResultInv

(* What the lexer rejects is not legal. *)
LEMMA LexedOrIllegal ==
  ASSUME NEW s \in Seq(Lines), NEW k \in DOMAIN s, ~LexedLine(s[k].stmt)
  PROVE  ~Abstract!Legal(s)
<1> DEFINE stmt == s[k].stmt
<1>1. CASE stmt.type = "blkw" /\ ~IsMemoryAddress(stmt.arg)
  <2>1. ~Abstract!LegalLine(s, k)
    BY <1>1, SameData DEF Abstract!LegalLine
  <2> QED
    BY <2>1 DEF Abstract!Legal
<1>2. CASE stmt.type = "stringz" /\ stmt.arg.type = "missing"
  <2>1. ~Abstract!LegalLine(s, k)
    BY <1>2 DEF Abstract!LegalLine
  <2> QED
    BY <2>1 DEF Abstract!Legal
<1> QED
  BY <1>1, <1>2 DEF LexedLine

(* A line is read before any file is touched.  It is rejected at once when *)
(* it is a .BLKW without a size or a .STRINGZ without a string.            *)
LEMMA LexLinePromise ==
  ASSUME KnownInv, "malloc" \notin Faults, FilesInv, NEW l \in Lines, LexLine(l)
  PROVE  ParseInv' /\ FilesInv' /\ ResultInv'
<1>1. /\ pc = "lex" /\ result = "none" /\ source \in Seq(Lines)
      /\ source' = Append(source, l) /\ UNCHANGED <<sym_file, obj_file>>
      /\ sym_file = [state |-> "untouched", addr |-> NoSymbols]
      /\ obj_file = [state |-> "untouched", words |-> <<>>]
  BY DEF LexLine, LexNothing, LexEnd, LexInstruction, LexBlkw, LexStringz, LexLost, GetLine, fileVars,
     KnownInv, OrderInv, Running, Early, TInv, TypeOK
<1>2. \/ pc' \in {"lex", "parse_orig"} /\ result' = "none"
      \/ /\ pc' = "free"
         /\ \/ l.stmt.type = "blkw" /\ ~IsMemoryAddress(l.stmt.arg) /\ result' = "blkw_operand"
            \/ l.stmt.type = "stringz" /\ l.stmt.arg.type = "missing" /\ result' = "bad_string"
  BY <1>1 DEF LexLine, LexNothing, LexEnd, LexInstruction, LexBlkw, LexStringz, LexLost, GetLine, Fail
<1>3. ParseInv'
  BY <1>2 DEF ParseInv, Serialized
<1>4. FilesInv'
  BY <1>1, <1>2 DEF FilesInv, NoSymbols
<1>5. ASSUME pc' = "free" PROVE ~Abstract!Legal(source')
  <2> DEFINE k == Len(source')
  <2>1. k \in DOMAIN source' /\ source'[k] = l
    BY <1>1
  <2> HIDE DEF k
  <2>2. ~LexedLine(source'[k].stmt) /\ source' \in Seq(Lines)
    BY <1>1, <1>2, <1>5, <2>1 DEF LexedLine
  <2> QED
    BY <2>1, <2>2, LexedOrIllegal
<1>6. ResultInv'
  BY <1>2, <1>5 DEF ResultInv
<1> QED
  BY <1>3, <1>4, <1>6

(* The parser touches no file. *)
LEMMA ParseFiles ==
  ASSUME KnownInv, FilesInv, Parse
  PROVE  FilesInv'
<1>1. UNCHANGED <<source, sym_file, obj_file>> /\ pc' \notin {"open_obj", "write"}
      /\ pc \in {"parse_orig", "parse"}
  BY DEF Parse, ParseOrig, ParseOrigCrash, ParseTokens, ParseSkip, ParseEnd, Crash, Fail,
     parseUnchanged, lexVars, fileVars
<1>2. result' # "success"
  <2>1. SUFFICES ASSUME result' = "success" PROVE FALSE
    OBVIOUS
  <2>2. WriteEnd
    BY <2>1, SuccessStep DEF KnownInv, SlotInv
  <2> QED
    BY <1>1, <2>2 DEF WriteEnd
<1> QED
  BY <1>1, <1>2, FilesKept

-----------------------------------------------------------------------------
(***************************************************************************)
(* All of it together is invariant.                                        *)
(***************************************************************************)
ImplementsInv == SourceInv /\ ParseInv /\ FilesInv /\ ResultInv

LEMMA ImplementsInit ==
  ASSUME Init
  PROVE  ImplementsInv
<1>1. /\ pc = "start" /\ result = "none" /\ source = <<>> /\ instruction_offset = 0
      /\ errno = "none" /\ dict = NoSymbols
      /\ ~Abstract!Canonical(source)
  BY NoLinesNotCanonical DEF Init
<1>2. source \in Seq(Lines) /\ DOMAIN source = {}
  BY <1>1
<1>3. WordsUpTo(source)[Len(source)] = 0
  BY <1>1, <1>2, WordsUpToIs
<1>4. Stored(source, tokenized_lines) /\ EndIsLast(source)
  BY <1>2 DEF Stored, EndIsLast
<1>5. \A l \in Labels : dict[l] = OffsetOf(source, l)
  BY <1>1, <1>2 DEF OffsetOf, NoSymbols, Abstract!Declared
<1>6. SourceInv
  BY <1>1, <1>2, <1>3, <1>4, <1>5 DEF SourceInv
<1> QED
  BY <1>1, <1>6 DEF ImplementsInv, ParseInv, FilesInv, ResultInv, Serialized

LEMMA ImplementsStep ==
  ASSUME TInv, OrderInv, LayoutInv, MemoryInv, SlotInv, ImplementsInv,
         HasRoom, "malloc" \notin Faults, [Next]_vars
  PROVE  ImplementsInv'
<1>1. KnownInv /\ SourceInv /\ ParseInv /\ FilesInv /\ ResultInv
  BY DEF KnownInv, ImplementsInv
<1>2. CASE UNCHANGED vars
  <2>1. SourceInv'
    BY <1>1, <1>2 DEF vars, SourceInv, Running, Early
  <2>2. ParseInv' /\ FilesInv' /\ ResultInv'
    BY <1>1, <1>2 DEF vars, ParseInv, FilesInv, ResultInv, Serialized
  <2> QED
    BY <2>1, <2>2 DEF ImplementsInv
<1>3. ASSUME NEW l \in Lines, LexLine(l) PROVE ImplementsInv'
  BY <1>1, <1>3, LexLineSource, LexLinePromise DEF ImplementsInv
<1>4. CASE Parse
  <2>1. ParseInv' /\ ResultInv'
    BY <1>1, <1>4, ParseOrigPromise, ParseOrigCrashPromise, ParseTokensPromise, ParseSkipPromise,
       ParseEndPromise DEF Parse
  <2> QED
    BY <1>1, <1>4, <2>1, ParseRestSource, ParseFiles DEF ImplementsInv
<1>5. CASE Rest
  BY <1>1, <1>5, ParseRestSource, RestParseInv, RestFiles, RestResult DEF ImplementsInv
<1> QED
  BY <1>2, <1>3, <1>4, <1>5, StepCases

LEMMA ImplementsInvariance ==
  ASSUME HasRoom, "malloc" \notin Faults
  PROVE  Spec => []ImplementsInv
<1>1. Init => ImplementsInv
  BY ImplementsInit
<1>2. TInv /\ OrderInv /\ LayoutInv /\ MemoryInv /\ SlotInv /\ ImplementsInv /\ [Next]_vars
      => ImplementsInv'
  BY ImplementsStep
<1> QED
  BY <1>1, <1>2, TypeInvariance, OrderInvariance, LayoutInvariance, MemoryInvariance,
     SlotInvariance, PTL DEF Spec

-----------------------------------------------------------------------------
(***************************************************************************)
(* The step that ends the run is the step of AssemblySpec; all the others  *)
(* stutter.                                                                *)
(***************************************************************************)

(* A prefix is the first words of the image, and as long it is the image. *)
LEMMA PrefixOfImage ==
  ASSUME NEW s \in Seq(Lines), Placed(s), NEW S, NEW words \in Seq(S), IsPrefix(words, Abstract!Image(s))
  PROVE  /\ words = SubSeq(Abstract!Image(s), 1, Len(words))
         /\ Len(words) = Len(Abstract!Image(s)) => words = Abstract!Image(s)
<1> DEFINE image == Abstract!Image(s)
           n     == WordsUpTo(s)[Len(s)]
<1>1. image = [a \in 1 .. n |-> image[a]] /\ Len(image) = n
  BY ImageShape
<1>2. Len(words) \in Nat /\ words = [a \in 1 .. Len(words) |-> words[a]]
  OBVIOUS
<1>3. Len(words) <= Len(image) /\ \A a \in 1 .. Len(words) : words[a] = image[a]
  BY DEF IsPrefix
<1> HIDE DEF image, n
<1>4. words = [a \in 1 .. Len(words) |-> image[a]]
  BY <1>2, <1>3
<1>5. SubSeq(image, 1, Len(words)) = [a \in 1 .. Len(words) |-> image[a]]
  BY <1>2, <1>3
<1>6. Len(words) = Len(image) => words = image
  BY <1>1, <1>4, Zenon
<1> QED
  BY <1>4, <1>5, <1>6 DEF image

(* The end of a run, with what is known of the state it ends in. *)
LEMMA EndingStep ==
  ASSUME ~Ended, Ended', TInv', OrderInv', ImplementsInv'
  PROVE  Abstract!ANext
<1> USE DEF Ended
<1>1. Abstract!Ends
  <2>1. source' \in Seq(Lines) /\ EndIsLast(source)'
    BY DEF TInv, TypeOK, ImplementsInv, SourceInv
  <2>2. source' \in Abstract!Sources
    BY <2>1 DEF EndIsLast, Abstract!Sources
  <2> QED
    BY <2>2 DEF Abstract!Ends
<1>2. CASE ~Abstract!Canonical(source')
  BY <1>1, <1>2 DEF Abstract!ANext, Abstract!Undefined
<1>3. CASE Abstract!Canonical(source')
  <2>1. pc' = "done" /\ result' # "none" /\ result' \in Errors \cup {"success"}
    BY <1>3 DEF ImplementsInv, ResultInv, TInv, TypeOK
  <2>2. /\ sym_file'.state # "untouched" => Abstract!Legal(source')
        /\ \A l \in Labels : sym_file'.addr[l] \in {NULL, Abstract!Symbols(source')[l]}
        /\ obj_file'.state # "untouched" =>
             /\ sym_file'.addr = Abstract!Symbols(source')
             /\ IsPrefix(obj_file'.words, Abstract!Image(source'))
             /\ sym_file'.state # "untouched"
        /\ result' = "success" =>
             /\ obj_file'.state # "untouched"
             /\ Len(obj_file'.words) = Len(Abstract!Image(source'))
    BY <1>3 DEF ImplementsInv, FilesInv, OrderInv, FilesInOrder
  <2>3. ASSUME obj_file'.state # "untouched"
        PROVE  /\ obj_file'.words = SubSeq(Abstract!Image(source'), 1, Len(obj_file'.words))
               /\ Len(obj_file'.words) <= Len(Abstract!Image(source'))
               /\ Len(obj_file'.words) = Len(Abstract!Image(source')) =>
                    obj_file'.words = Abstract!Image(source')
    <3>1. source' \in Seq(Lines) /\ obj_file'.words \in Seq(Word \cup {UNINIT})
      BY DEF TInv, TypeOK, ObjFile
    <3>2. Placed(source')
      BY <1>3, <2>2, <2>3 DEF Placed, Abstract!Legal
    <3>3. IsPrefix(obj_file'.words, Abstract!Image(source'))
      BY <2>2, <2>3
    <3> QED
      BY <3>1, <3>2, <3>3, PrefixOfImage DEF IsPrefix
  <2>4. CASE result' = "success"
    <3>1. Abstract!Accept
      BY <1>1, <2>1, <2>2, <2>3, <2>4 DEF Abstract!Accept
    <3> QED
      BY <3>1 DEF Abstract!ANext
  <2>5. CASE result' \in SyntaxErrors
    <3>1. ~Abstract!Legal(source')
      BY <1>3, <2>1, <2>5 DEF ImplementsInv, ResultInv
    <3>2. sym_file'.state = "untouched" /\ obj_file'.state = "untouched"
      BY <2>2, <3>1
    <3>3. Abstract!Reject
      BY <1>1, <2>1, <2>5, <3>1, <3>2 DEF Abstract!Reject
    <3> QED
      BY <3>3 DEF Abstract!ANext
  <2>6. CASE result' \in Errors \ SyntaxErrors
    <3>1. Abstract!GiveUp
      BY <1>1, <2>1, <2>2, <2>3, <2>6 DEF Abstract!GiveUp
    <3> QED
      BY <3>1 DEF Abstract!ANext
  <2> QED
    BY <2>1, <2>4, <2>5, <2>6
<1> QED
  BY <1>2, <1>3

(***************************************************************************)
(* Every run of assemble() is a run of AssemblySpec: a legal source leaves *)
(* its image and its symbol table, an illegal one is rejected and leaves   *)
(* no file, and when the system fails the files are right as far as they   *)
(* go.                                                                     *)
(***************************************************************************)
THEOREM AssemblerImplementsSpec ==
  ASSUME HasRoom, "malloc" \notin Faults
  PROVE  Spec => ImplementsAssemblySpec
<1>1. Init => Abstract!AInit
  BY DEF Init, Abstract!AInit, Ended
<1>2. TInv' /\ OrderInv' /\ ImplementsInv' /\ [Next]_vars => [Abstract!ANext]_Abstract!avars
  <2> SUFFICES ASSUME TInv', OrderInv', ImplementsInv', [Next]_vars
               PROVE  [Abstract!ANext]_Abstract!avars
    OBVIOUS
  <2>1. CASE UNCHANGED vars
    BY <2>1 DEF vars, Abstract!avars, Ended
  <2>2. CASE ~Ended /\ ~Ended'
    BY <2>2 DEF Abstract!avars, Ended
  <2>3. CASE ~Ended /\ Ended'
    BY <2>3, EndingStep
  <2>4. Ended => UNCHANGED vars
    BY DEF Ended, Next, Step, Terminating, FileNames, FileNamesCrash, OpenAsm, Lex, LexOutOfMemory,
       LexEndOfFile, LexReadError, LexLine, LexNothing, LexEnd, LexInstruction, LexBlkw, LexStringz,
       LexLost, GetLine, Parse, ParseOrig, ParseOrigCrash, ParseTokens, ParseSkip, ParseEnd, OpenSym,
       SymHeader, SerializeSymbol, SerializeEnd, OpenObj, WriteWord, WriteFails, WriteEnd, FreeEntry,
       FreeEnd, UseAfterFree
  <2> QED
    BY <2>1, <2>2, <2>3, <2>4
<1> QED
  BY <1>1, <1>2, TypeInvariance, OrderInvariance, ImplementsInvariance, PTL
     DEF Spec, ImplementsAssemblySpec, Abstract!ASpec
=============================================================================
