------------------------------ MODULE MCEncoder ------------------------------
(***************************************************************************)
(* Instances of Encoder for TLC: lines whose operands are on both sides of *)
(* every bound, and labels at both ends of the reach of every offset.      *)
(***************************************************************************)
EXTENDS EncoderProperties

RegisterTexts == [t \in {<<"R", "0">>, <<"R", "5">>, <<"R", "7">>} |->
                    [kind |-> "register", val |-> DigitValue(t[2])]]

\* Numerals and the numbers they are meant to be
Written == {
  << <<"#", "-", "1", "0", "2", "5">>, -1025 >>, << <<"-", "1", "0", "2", "4">>, -1024 >>,
  << <<"#", "-", "2", "5", "7">>, -257 >>,       << <<"x", "-", "1", "0", "0">>, -256 >>,
  << <<"-", "3", "3">>, -33 >>,                  << <<"x", "-", "2", "0">>, -32 >>,
  << <<"#", "-", "1", "7">>, -17 >>,             << <<"-", "1", "6">>, -16 >>,
  << <<"#", "-", "1">>, -1 >>,                   << <<"0">>, 0 >>,
  << <<"x", "F">>, 15 >>,                        << <<"1", "6">>, 16 >>,
  << <<"x", "1", "F">>, 31 >>,                   << <<"3", "2">>, 32 >>,
  << <<"#", "2", "5", "5">>, 255 >>,             << <<"x", "1", "0", "0">>, 256 >>,
  << <<"1", "0", "2", "3">>, 1023 >>,            << <<"x", "4", "0", "0">>, 1024 >>,
  << <<"x", "F", "F", "F", "F">>, 65535 >>,      << <<"6", "5", "5", "3", "6">>, 65536 >>,
  << <<"-", "3", "2", "7", "6", "8">>, -32768 >>,
  << <<"x", "-", "8", "0", "0", "1">>, -32769 >> }

NumberTexts == [t \in {w[1] : w \in Written} |->
                  [kind |-> "number", val |-> (CHOOSE w \in Written : w[1] = t)[2]]]

LabelTexts == [t \in {<<"L">>, <<"#", "L">>, <<"R", "8">>, <<"U">>, <<"#">>} |->
                 [kind |-> "label", val |-> 0]]

Both(f, g) == [t \in DOMAIN f \cup DOMAIN g |-> IF t \in DOMAIN f THEN f[t] ELSE g[t]]

Texts == Both(RegisterTexts, Both(NumberTexts, LabelTexts))

\* Two labels are declared, U and # are not.
Declared == [t \in {<<"L">>, <<"#", "L">>, <<"R", "8">>} |->
               IF t = <<"L">> THEN 3000 ELSE IF t = <<"R", "8">> THEN 65535 ELSE 0]

\* The locations from which L is at a bound of some offset, or near it
Locations == {2999 - d : d \in {-1025, -1024, -257, -256, -33, -32, -1, 0,
                                31, 32, 255, 256, 1023, 1024}}

First  == {<<"R", "0">>, <<"R", "7">>, <<"#", "-", "1">>, <<"L">>}
Second == {<<"R", "5">>, <<"R", "8">>}

OperandSeqs == {<<>>} \cup {<<t>> : t \in DOMAIN Texts}
               \cup {<<s, t>> : s \in First, t \in DOMAIN Texts}
               \cup {<<r, s, t>> : r \in First, s \in Second, t \in DOMAIN Texts}

Tokens == OpcodeLines \cup Directives \cup {"FOO"}

At(tokens, ops, loc, org) ==
  {[token |-> m, operands |-> o, location |-> l, origin |-> g] :
     m \in tokens, o \in ops, l \in loc, g \in org}

\* The origin matters to .FILL: L is then at the end of memory, or behind it.
LinesAll == At(Tokens, OperandSeqs, {2990}, {12288})
            \cup At(OpcodeLines, {o \in OperandSeqs : o # <<>> /\ o[Len(o)] = <<"L">>},
                   Locations, {12288})
            \cup At({".FILL"}, {<<t>> : t \in DOMAIN Texts}, {2990}, {0, 62536, 62537})

ASSUME TextsAreRead == IsRead(Texts, Declared, LinesAll)
==============================================================================
