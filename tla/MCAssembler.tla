----------------------------- MODULE MCAssembler -----------------------------
(***************************************************************************)
(* Instances of Assembler for TLC: the lines a source file is made of.     *)
(***************************************************************************)
EXTENDS AssemblerRefinement, AssemblerSymbols, AssemblerProperties

CONSTANTS L1, L2  \* labels

Missing == [type |-> "missing", val |-> 0, name |-> NULL]
Num(n)  == [type |-> "num", val |-> n, name |-> NULL]
Sym(l)  == [type |-> "sym", val |-> 0, name |-> l]

Stm(t, arg)     == [type |-> t, arg |-> arg, half |-> 1, chars |-> <<>>]
Offset(h, arg)  == [Stm("offset", arg) EXCEPT !.half = h]
Stringz(cs)     == [Stm("stringz", Num(0)) EXCEPT !.chars = cs]
At(l, stmt)     == [label |-> l, stmt |-> stmt]
Bare(stmt)      == At(NULL, stmt)

Orig(n)  == Bare(Stm("orig", Num(n)))
Empty    == Bare(Stm("none", Missing))
End      == Bare(Stm("end", Missing))
Op       == Bare(Stm("op", Num(6)))
Decl(l)  == At(l, Stm("none", Missing))
Fill(a)  == Bare(Stm("fill", a))
Blkw(n)  == Bare(Stm("blkw", Num(n)))

(***************************************************************************)
(* Labels before, between and behind the words that refer to them, in      *)
(* programs at the start and at the very end of memory.                    *)
(***************************************************************************)
LinesLabels == {Orig(3), Orig(13), Decl(L1), At(L1, Stm("op", Num(6))), Decl(L2),
                Bare(Offset(2, Sym(L1))), Bare(Offset(1, Sym(L2))),
                Fill(Sym(L1)), Blkw(2)}

(***************************************************************************)
(* Directives that expand, operands at the edges of their ranges and every *)
(* kind of line that is rejected.                                          *)
(***************************************************************************)
LinesData == {Orig(3), Orig(16), Bare(Stm("orig", Missing)), Empty, End, Op,
              Bare(Stm("op", Missing)), Bare(Stm("label", Missing)),
              Blkw(0), Blkw(3), Blkw(-1), Bare(Stringz(<<7>>)), Bare(Stm("stringz", Missing)),
              Fill(Num(-8)), Fill(Num(-9)), Fill(Num(15)), Fill(Num(16)), Fill(Missing),
              Fill(Sym(L1)), Bare(Offset(4, Num(-4))), Bare(Offset(4, Num(-5))),
              Bare(Offset(4, Num(3))), Bare(Offset(4, Num(4))), Bare(Offset(4, Missing)),
              Bare(Offset(4, Sym(L1)))}

(***************************************************************************)
(* One line of each kind the lexer treats alike.                           *)
(***************************************************************************)
LinesFew == {Orig(3), At(L1, Stm("op", Num(6))), Bare(Offset(2, Sym(L1))), Blkw(0), Blkw(2),
             Blkw(-1), Bare(Stringz(<<7, 5>>)), End}

(***************************************************************************)
(* Programs that fill the table, and programs that end in a .BLKW 0.       *)
(***************************************************************************)
LinesFull  == {Orig(3), Op, Bare(Stm("op", Missing)), Blkw(7)}
LinesBlkw0 == {Orig(3), Op, Blkw(0)}
==============================================================================
