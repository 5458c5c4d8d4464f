-------------------------------- MODULE MCText --------------------------------
(***************************************************************************)
(* Instances of Text for TLC: all short lines over the characters the      *)
(* tokenizer and the escape sequences distinguish, and .STRINGZ lines with *)
(* longer operands.                                                        *)
(***************************************************************************)
EXTENDS TextProperties

SeqsUpTo(chars, n) == UNION {[1 .. m -> chars] : m \in 0 .. n}

Terminated(ls) == ls \cup {Append(l, "newline") : l \in ls}

\* Any line
Short == Terminated(SeqsUpTo({" ", ",", "S", "quote", "n", ";"}, 5) \ {<<>>})

\* A .STRINGZ with or without a label, blanks and a quotation mark
Heads == {<<"S">>, <<"S", " ">>, <<"S", " ", "quote">>, <<"n", " ", "S", ",", " ", "quote">>}

Strings == Terminated({h \o t : h \in Heads,
                                t \in SeqsUpTo({"quote", "backslash", "n", "eacute", " "}, 4)})
           \cup {<<"S", " ", "quote">> \o t \o <<"quote", "newline">> :
                   t \in SeqsUpTo({"quote", "backslash", "n", "eacute"}, 5)}

\* More words than there are tokens
Long == {<<"n", " ", "n", " ", "n", " ", "n">>, <<";", "n", " ", "n", ",", "n", " ", " ", "S", "newline">>}

InputsAll == Short \cup Strings \cup Long

\* In Latin-1; only the characters that can be in a string
CodesAll == [c \in {" ", ",", ";", "S", "n", "quote", "backslash", "newline", "eacute"} |->
               CASE c = "newline"   -> 10
                 [] c = " "         -> 32
                 [] c = "quote"     -> 34
                 [] c = ","         -> 44
                 [] c = ";"         -> 59
                 [] c = "S"         -> 83
                 [] c = "backslash" -> 92
                 [] c = "n"         -> 110
                 [] c = "eacute"    -> 233]
==============================================================================
