# A verification development for lc3asm

lc3asm is a two-pass assembler for the LC-3, in C. These modules specify what it
does, TLC checks them on small instances, and TLAPS proves the main invariants
and both refinements for every value of the constants. Paths below are relative to the repository.

* [Inventory](#inventory): the parts of the system
* [Modules](#modules): which module models which part
* [Runs](#runs): what TLC checks, the bounds, fairness
* [Findings](#findings): where the code and what is said of it disagree
* [Proofs](#proofs): what is proved, and along which argument
* [Limits](#limits)

`tlc -config Labels.cfg MCAssembler.tla` runs one of the runs of the assembler;
`MCDict`, `MCEncoder`, `MCText` and `MCObjDump` have the others.
`tlapm Assembler_proofs.tla` checks a module of proofs. PROJECT.json lists every
run, what every definition models, and the hazards the properties are for.

## Inventory

One process, one thread. `main` calls `assemble()`, which owns everything but
the symbol table and passes it to the two passes.

| Part | Code | State | Operations | What makes it right |
|---|---|---|---|---|
| Driver | `src/assembler.c` | `tokenized_lines`, the files, the result | check the name, run the passes, write `.sym` and `.obj`, free everything | each output only when everything before it succeeded; what the table points to is freed once on every path; labels relocated once |
| Lexer (pass 1) | `src/lexer.c` | `instruction_offset`, `errno`, one slot of `tokenized_lines` per word | one iteration per line: label, entry, expansion of `.BLKW` and `.STRINGZ` | no gap before the sentinel; every entry knows its own index; a label has the index of the next word |
| Parser (pass 2) | `src/parser.c` | `address_offset`, `address_origin` | walk to the sentinel, compute each word | terminates; every reference is to the address `.sym` gives |
| Directives | `src/directives.c` | none | `.ORIG`, `.FILL`, `.STRINGZ`, `.BLKW`; escapes, in place | ranges; a literal becomes the characters it stands for; a partly expanded string is still freed |
| Encoders | `src/*_instructions.c` | none | operands to a word | each part in its bits, whatever the operand; the machine gets the offset the line means |
| Numbers, line types | `src/lc3util.c` | none | `parse_register`, `parse_numeric_value`, `parse_offset`, `compute_line_type`, `compute_opcode_type`, `free_tokenized_lines` | a number or a label, decided the same way everywhere; asymmetric ranges; two lists of mnemonics that agree |
| Symbol table | `src/dict.c` | 2000 lists of nodes, a static iterator | `add`, `lookup`, `delete`, `next`, `initialize` | a map; an iteration visits every pair once although the pair is changed or deleted |
| Utilities | `src/util.c` | none | `split_tokens`, `strtolong`, `split_by_last_delimiter`, errors | the tokens are the words of the line; pointers stay in the line; what the callers do when they return NULL |
| `lc3objdump` | `tools/lc3objdump.c` | the file position, two stream errors | print a `.obj` file | the listing reads back as the words; an error is not the end of the file |
| Shell tools, build, docs | `tools/*.sh`, `Makefile` | none | | (not modelled) |

How they interact. The passes communicate through two shared structures.
`tokenized_lines` is an array of exactly 65536 pointers, filled from index 0
(the `.ORIG`); index i is both the position of a word in the object file and the
address origin + i - 1. Everybody else stops at the first null pointer. The
symbol table holds *offsets* (indexes) from the lexer until
`serialize_symbol_table`, which replaces each by an *address* while it iterates
over the table. The parser sits between the two and turns offsets into
differences (`parse_offset`) or, adding the origin, into addresses (`parse_fill`).

A line goes through three representations: the characters `getline` read, cut up
in place by `split_tokens`; tokens, pointers into that buffer, in an entry; and
the word of the entry. `lc3objdump` shares only the byte order of a word with the
assembler.

What is hard: there is no concurrency, but three loops depend on a sentinel that
a full table does not have; an index that goes round; a table that is modified
under its own iterator; the meaning of its values changing in the middle of
the run; about a dozen places where a library call can fail after some state
has been built, each with its own cleanup; and a word that is added up from
parts, and a string that is rewritten in place, neither of which checks that
a part stays where it belongs.

## Modules

| Module | Models | |
|---|---|---|
| `LC3` | `include/lc3.h`, ranges of `lc3util.c` | addresses, operands, lines, `linemetadata_t`; the assumptions on the constants |
| `AssemblyState` | the state of one `assemble()` | variables, `Init`, `TypeOK`, `Fail`, `Crash` |
| `Lexer` | `do_lexical_analysis` | one action per kind of line, per outcome of `getline` and per failing allocation |
| `Parser` | `do_syntax_analysis` and the `parse_` functions | `ParseOrig`, `ParseTokens`, `ParseSkip`, `ParseEnd` |
| `Assembler` | `assemble`, `serialize_symbol_table`, `free_tokenized_lines` | composes the passes; `Spec`, `FairSpec` |
| `AssemblerProperties` | | the properties of `Assembler` |
| `AssemblySpec` | what the assembler promises | one step: a source is accepted with its image, rejected, or given up |
| `AssemblerRefinement` | | `Assembler` implements `AssemblySpec` |
| `SymbolTable` | what `dict.h` promises | a map and a loop over it |
| `Dict` | `dict.c`, and the loop of `serialize_symbol_table` | lists of nodes in a heap, the static iterator; implements `SymbolTable` |
| `AssemblerSymbols` | | `Assembler` uses the table as `SymbolTable` allows |
| `MCAssembler`, `MCDict` | | instances for TLC |
| `Offsets`, `Numerals` | two's complement fields of `parse_offset`; `parse_register`, `parse_numeric_value`, `strtolong` | shared by the modules that read operands |
| `Encoder` | the dispatch of `parser.c`, both lists of mnemonics, all parse functions | one line of texts becomes a word or an error |
| `EncoderProperties` | | how the machine reads the word, what the language accepts, and that `Parser` agrees |
| `Text` | `split_tokens`, `interpret_escape_sequences`, `parse_stringz` | the buffer of one line; one action per token and per branch of the loop over the string |
| `TextProperties` | | words and literals, defined on the line alone |
| `ObjDump` | `lc3objdump.c`, `write_machine_instruction` | one action per call of the library |
| `ObjDumpProperties` | | the listing, read back |
| `MCEncoder`, `MCText`, `MCObjDump` | | instances for TLC |
| `*_proofs` | | see [Proofs](#proofs) |

Two levels of detail meet at two points. `Assembler`, with `Lexer` and `Parser`, follows
many lines through both passes and sees an operand that is already classified;
`Encoder` takes one line, but its texts, and all of its word. `ParserAgrees`
instantiates `Parser` in `Encoder` and says that its `ParseLine`, given the
classified operand, accepts the same lines and yields the low bits of the same
word. The classification itself is `Numerals`. In the same way `Text` is the
detail of what `Lexer` takes for granted: that a line is a label and a
statement, and a `.STRINGZ` the words of its characters.

The names are those of the code. `pc` names the next statement of `assemble()`
or the loop it is in; a step is one iteration of a loop, or one call with its
outcome. A step whose outcome the environment decides (a full disk, no memory)
is nondeterministic and enabled by the constant `Faults`.

Abstractions, and what they leave alone:

* In `Assembler`, a line is a label, if it has one, and a statement that has a type and one
  operand, as `compute_line_type` classifies it. Texts do not occur. An operand
  is absent, a number, or a symbol.
* There an instruction with a PC offset is its offset field. An instruction that names no label is the
  word it encodes to (`op`).
* There a `.STRINGZ` is the words of its characters, after escapes.
* In `Text` a character is a string, the keyword `.STRINGZ` is one character
  "S", and blanks and tabs are alike. `strtok` is given by what it finds: `NextToken`
  says of two positions that a token runs from one to the other. A pointer used
  outside the buffer, and a write behind the array of tokens, end in the state
  `undefined`.
* In `Encoder` a text is a sequence of characters, and `strtol` reads it
  digit by digit; a mnemonic is one value. After an error the word is left
  alone, where `parse_add_and` has assigned a part of it: no caller reads it.
* In `ObjDump` a call fails behind any part of its output or input. The texts of
  errors are not part of the listing.
* A null pointer that is read, or freed memory that is, ends the model in the
  state `crashed`; nothing is claimed of what follows.
* `tokenized_lines[i]` is NULL, an entry, or FREED. `leaked` remembers the entries
  whose pointer was overwritten in it (`Place`, `Overwrite`); no step reads it.
  `OnlyBlocksLeak` follows the entries, each with its tokens and its line; the
  array itself, which nobody frees either, is left out.
* When the copy of a line cannot be allocated, `strtok` is called with a null
  pointer and goes on in the line it split last. It finds the rest of a
  `.STRINGZ` there, or nothing, and the new line is lost (`LexLost`); or that line
  was freed, or there was none, which is undefined (`LexOutOfMemory`).
* `fprintf` and `fwrite` succeed or fail as a whole; `fclose` may leave a file
  `short`, which is what buffered output does on a full disk.
* In `AssemblyState` the symbol table is a map. `Dict` shows that the lists and
  the iterator implement such a map (`ImplementsSymbolTable`), and
  `UsesSymbolTable` that the assembler does nothing with the table that this
  map does not allow. The two meet at `SymbolTable`.

In `Dict` a call is one step and an iteration of either loop is one step. What
is read through a freed node is not modelled; `IteratorIsSafe` says it does not
happen.

## Runs

The machine is scaled: `AddrSpace` stands for 65536, which is at once the size
of `tokenized_lines` and the modulus of `memaddr_t`, so that a program can fill
the table, go round it, or pass the end of memory in a few lines. The literals the
code compares addresses and words with (xFFFF, -32768, 65535) are bounds of 16-bit
words and scale with it, and the offset ranges (`half`) do too. `MaxLines` bounds the lines of a source, and
`MaxWords` the offset a line may lead to, counted before it goes round, so that with
`MaxWords` above `AddrSpace` a block may lie over the end of the table; a source that ends earlier is allowed at every point. Each
set of lines holds one line of each kind that the code treats differently for
the property of the run.

| Run | Bounds | Shows |
|---|---|---|
| `labels` | 16 addresses, 2 labels, 5 lines, 7 words; reads, opens and writes fail | the passes agree on labels before, between and after their uses, and across the end of memory; relocation happens once; `Assembler` implements `AssemblySpec` and uses the table as allowed |
| `data` | 16 addresses, 4 lines of 25 kinds, 8 words | every directive and every rejected kind of line, operands on both sides of each bound; every word but a second `.ORIG`'s is computed; which programs without an `.ORIG` are undefined and not rejected; the same refinement |
| `memory` | 16 addresses, 4 lines, 9 words, every fault, fairness | no gaps; what the table points to is freed exactly once, and only entries of blocks and strings are overwritten in it; nothing is lost by a run that succeeds without a `.END`; every run ends |
| `wrap` | 8 addresses, 4 lines, offsets up to 15 | a table that is exactly full, or has a block over its end: no output is touched |
| `dict` | 3 lists (of 3 keys, none and 1), 4 nodes, values modulo 3, faults | lists, iterator and refinement; the nodes are symmetric |
| `encoder` | all 32 mnemonics and 3 directives; up to 3 operands out of 30 texts; 15 locations; 16-bit words | the word of an accepted line, what is accepted, the assertion, `Parser` as an abstraction |
| `text` | every line of up to 5 of 6 characters and a newline; `.STRINGZ` with up to 4 or 5 more; 3 tokens | tokens, literals, both rewritings in place; no line that fits leaves the array of tokens or the buffer |
| `objdump` | programs of up to 3 words, files cut at every byte, 3 formats, every failure; fairness | the listing, success, the end of the loop |

Why these bounds suffice: two lines interact only through a label or through the
offset they leave behind, so a reference, its label, a line in between, the
`.ORIG` and one more line show every arrangement; three nodes in a list are a
front, a middle and an end; seven words are enough to be on both sides of the
bounds of an offset field of one or two bits. `encoder` is not scaled: the operand in
the last place is a number just inside or outside of every range in the code, or a
label at a location from which it is; the parts of a word depend on their
own operands only, so three operands that vary together suffice. In `text`
five characters hold two tokens with delimiters around them, or a `.STRINGZ`
between blanks; behind the first quotation mark the loop remembers one
character, and five more are enough for every pair of escapes and what follows.
In `objdump` two reads are a full and a short one, and three words a first, a
middle and a last line. Every property has a mutant, listed in
PROJECT.json and kept beside the definition it changes, that breaks it under the
bounds of its run.

`AssemblySpec` is written from the language `README.md` describes. It promises
nothing of the sources it does not call `Canonical`: each clause left out there
is a finding or an observation below. The refinement is checked with failing reads, opens and
writes; a failing `malloc` breaks it (the lost label below), and the invariants
are checked with it.

Fairness is `WF_vars(Step)`: the program is one thread, and an assembler that
has a next statement executes it. No action is given fairness of its own, so no
choice of the environment is forced. A source file is finite (`MaxLines`); with
`MaxWords + 1 < AddrSpace` there is room for the sentinel, and `Terminates`
needs both: without the second it is false (`full_table`). The loops
of `Dict` need no fairness: in `SymbolTable` an iteration takes a key out of a
finite set, so a loop that goes on ends. `ObjDump` has `WF_vars(main \/ read_file)`
for the same reason as the assembler. A run that has ended or is
undefined stutters (`Terminating`), so deadlock is checked everywhere.

## Findings

Each is a run that expects a violation of one property.

| Run | The code | What is said |
|---|---|---|
| `full_table` | `.ORIG` and 65535 words fill every slot: no sentinel, the parser never ends | `assembler.c:90` "setting sentinel values" |
| `trailing_blkw0` | the entry of a final `.BLKW 0` stays and is written as a word | one word per slot |
| `token_array` | a line of more than `MAX_NUM_TOKENS` words, comments included, is written behind the array (`util.c:142`) | `util.c:110` "up to a maximum of MAX_NUM_TOKENS" |
| `flush_fails` | the result of `fclose` is ignored | `README.md:44` two files are generated |

What else was met is stated by properties that hold, with the exception written
into them:

* a second `.ORIG` has a slot whose word is never assigned, and is written
  (`EveryWordComputed`);
* a source that begins with the words of a `.BLKW` or `.STRINGZ`, or has none,
  makes `directives.c:12` read null tokens instead of reporting the missing
  `.ORIG` (`MissingOrigIsReported`);
* a label or a line that cannot be allocated is dropped, and a `.END`, which may also
  be the string of a lost line's predecessor, keeps the lexer from looking at
  `errno` (`LossesAreReported`);
* a label before the `.ORIG` is one below the origin, and a program that runs past the end of
  memory is accepted (`Canonical`, `FitsInMemory` exclude both from the promise);
* the entry of a `.BLKW` or `.STRINGZ` is in the slot its first word then takes
  (`lexer.c:118`, `directives.c:231`, `242`), and that of a `.BLKW 0` in the slot of
  the next line: neither is freed, although the tests run under valgrind with
  `--leak-check=full` (`Makefile:29`) (`OnlyBlocksLeak`);
* the rest of a line that ends in `.STRINGZ`, as the last of a file without a
  newline may, begins behind the NUL of the line (`util.c:139`), and the line is not
  claimed to be read within its buffer (`Fits` in `FittingLinesAreSafe`);
* an instruction that names a label `strtol` begins to read, like `x1` or `3D`, gets
  the number and not the distance (`lc3util.c:136`), although labels "identify memory
  locations" (`README.md:147`): `NotationIsRead`, which the runs and proofs of
  `AcceptedExactly` assume, excludes such labels;
* a character above 127 is stored with its high byte set (`StringIsItsLiteral`);
* LDR and STR take a label and use its distance from the instruction
  (`OffsetsReach`);
* `lc3objdump` succeeds although a newline or the last flush was not written
  (`SuccessMeansListed` assumes that the output did not fail).

Not stated by a property: a file name without a dot makes
`assembler.c:59` pass a null pointer to `strcmp` (`FileNamesCrash`); what follows the digits of a
number is ignored, so `0x3000` is 0 and `#5;` is 5; and a comment glued to a
register or a label makes the operand another text.

## Proofs

For every address space of at least 4 words, every set of labels, lines and
faults and every bound that satisfies the named assumptions of `LC3`,
`AssemblyState` and `Lexer`; for every number of keys, nodes and lists and every
hash function (`DictAssumption`); for every set of lines and every symbol table
with 16-bit values (`EncoderAssumption`); for lines of every length
(`TextAssumption`); and for programs of every length (`ObjDumpAssumption`). TLC
evaluates the assumptions in every run.

| Theorem | Says | Module |
|---|---|---|
| `Typing`, `RelocationHappensOnce`, `OutputsInOrder` | `[]TypeOK`, `[]RelocatedOnce`, `[]FilesInOrder` | `Assembler_proofs` |
| `SymbolTableUse` | `UsesSymbolTable` | `Assembler_proofs` |
| `TableHasNoGaps`, `EntriesKnowTheirLocation` | `[]NoGaps`, `[]EntriesAtTheirLocation` | `AssemblerTable_proofs` |
| `NothingIsFreedTwice`, `WordsAreWrittenThenFreed`, `OnlyBlocksAreLost` | `[]NoUseAfterFree`, `[]WrittenThenFreed`, `[]OnlyBlocksLeak` | `AssemblerTable_proofs` |
| `WordsAgreeWithSymbols` | `[]ReferencesResolve` | `AssemblerTable_proofs` |
| `FullTableWritesNothing` | `[]NoOutputWithoutSentinel` | `AssemblerOutput_proofs` |
| `NoWordIsLeftOut` | `[]EveryWordComputed` | `AssemblerOutput_proofs` |
| `WordsMatchSlots`, `WordsMatchSlotsWithoutEmptyBlocks` | `[](OneWordPerSlot \/ EndsInEmptyBlock)`; `[]OneWordPerSlot` without empty blocks | `AssemblerOutput_proofs` |
| `MissingOrigNeverCrashes` | `[]MissingOrigIsReported` | `AssemblerOutput_proofs` |
| `NothingIsLostInSilence` | `[]LossesAreReported` | `AssemblerOutput_proofs` |
| `AssemblerImplementsSpec` | `ImplementsAssemblySpec`, the refinement | `AssemblerRefinement_proofs` |
| `TypesHold`, `ListsStaySound`, `IteratorStaysSafe` | `[]TypeOK`, `[]ChainsSound`, `[]IteratorIsSafe` | `Dict_proofs` |
| `DictIsSymbolTable` | `ImplementsSymbolTable`, the refinement | `Dict_proofs` |
| `FieldsStayInPlace`, `OffsetsAlwaysReach`, `AssertionHolds` | `[]FieldsInPlace`, `[]OffsetsReach`, `[]NoAssertionFails` | `Encoder_proofs` |
| `ParserIsAbstraction`, `FormatsAreAccepted` | `[]ParserAgrees`, `[]AcceptedExactly` | `Encoder_proofs` |
| `NothingIsOverwritten` | `[]WriterBehindReader` | `Text_proofs` |
| `TokensAreWords`, `FittingLinesStayInBounds` | `[]TokensOfLine`, `[]FittingLinesAreSafe` | `Text_proofs` |
| `StringsAreLiterals` | `[]StringIsItsLiteral` | `Text_proofs` |
| `ListingIsTheFile`, `SuccessIsComplete` | `[]ListingReadsBack`, `[]SuccessMeansListed` | `ObjDump_proofs` |

Beyond the assumptions of the modules, a theorem about `Assembler` has at most
three hypotheses, each one that the code needs:

* `HasRoom`, `MaxWords + 1 < AddrSpace`: the sentinel has a slot. `full_table`
  shows what happens without it. The theorems of `Assembler_proofs` and
  `FullTableWritesNothing` do without.
* `"malloc" \notin Faults`, in `MissingOrigNeverCrashes` and
  `AssemblerImplementsSpec`: a failing allocation drops labels and lines.
* no line is an empty block, in `WordsMatchSlotsWithoutEmptyBlocks`:
  `trailing_blkw0`.

`FormatsAreAccepted` assumes `NotationIsRead`, which ties the texts to what the
formats are stated with: `strtol` reads a number in exactly the texts that are
one, with its value; the registers are the names `parse_register` finds; and no
register is declared as a label, because the code takes one that is for a label
operand. TLC evaluates it for the texts of the run (`TextsAreRead` in
`MCEncoder`). Labels like `x1` or `3D` do not satisfy it (see [Findings](#findings)). `ParserIsAbstraction` does without it.

The argument for the assembler, each invariant resting on those above it:

1. `TInv` is `TypeOK` and `OrigFirst`. The relocation adds the word of entry 0
   to every label, so even the type of the table depends on entry 0 being a
   parsed `.ORIG` with the word `origin`. This has to survive an `address_offset`
   that goes round and comes back to entry 0, which it does because the parser
   passes a `.ORIG` over.
2. `OrderInv` says what is true of the result and of the two files at each point
   of `assemble()`; `RelocatedOnce` and `FilesInOrder` are not inductive
   without it.
3. `LayoutInv` describes the table behind `instruction_offset`, under
   `HasRoom`. `Kept` says that from the parser on the shape of the table
   changes only by freeing.
4. `MemoryInv` adds which entries are freed at each index of the two loops that
   free. `LeakInv` adds that the lexer overwrites a slot only at
   `instruction_offset`, where the entry is that of the line's own block or of an
   empty block before it.
5. `ReferencesResolve` is inductive relative to 1-3: `EntriesAtTheirLocation`
   gives the distance, `OrigFirst` the origin, and `RelocatedOnce` lets the
   address of a label be read from the table before its relocation and from
   `.sym` after it.
6. `SymbolTableUse` is a refinement proof: each step of the program maps to an
   operation of `SymbolTable` or to a stutter. `OrderInv` gives that no label
   is printed when the loop begins, `TInv` that the shift is an address.
7. `SentinelInv`: once the parser has ended there is a null pointer in the table,
   because its loop ends at nothing else, and no later step stores an entry. How
   the table was filled, exactly or by blocks that went round, plays no part.
8. `WordInv`: while the run goes on, every entry with a statement is as the lexer
   made it or as the parser leaves it, so an entry without a word is a second
   `.ORIG`.
9. `SlotInv`: the slot at `instruction_offset` holds the sentinel, or the entry of an
   empty block after which no line has code. The words of the object file
   are therefore as many as the slots the labels were counted by.
10. `FirstInv` follows the first line of code to slot 0, and `LossInv` compares
   `.sym` and the slots with the labels and the words of the source while
   `errno` is clear.
11. `ImplementsInv` is what the refinement needs beyond these. `SourceInv`: each
   slot holds its line, or its word of an expanded directive, and each label
   has the offset of its last declaration. `ParseInv`: below `address_offset` the lines are
   legal and the words are those of `Image`; once the parser ends all of them
   are, and during the relocation a label is an offset before its turn and its
   address after. `FilesInv`: both files hold
   prefixes of what they should. `ResultInv`: a run that returns a syntax error
   or is undefined has a source that is illegal or not `Canonical`. Nothing
   is said of sources that are not `Canonical`. The step
   that ends the run maps to `Accept`, `Reject`, `GiveUp` or `Undefined`, and
   every other stutters. The layout of `AssemblySpec`, which does not count the
   `.ORIG`, is tied to the offsets of the lexer, which do, by `Addresses`.

The files in `AssemblySpec` are what was handed to their streams, so the
refinement is true with a failing `fclose` as well; what such a failure loses is
`flush_fails`.

For the other components:

* `DictInv` says that there are lists: functions l, the number of nodes of each, and c,
  the nodes in their order, such that the heap is `Sound` for them. An
  existential witness takes the place of the recursive walk along the pointers:
  each step gives the l and c after it, and `IterAt` puts the iterator in the list
  at an index. `ChainsSound`, which walks, follows from it, and so does each
  step of `SymbolTable`.
* `EncInv` carries `FieldsInPlace` and `OffsetsReach` from the only steps that
  can break them, the parse functions. Each has the same three parts: what the
  helpers return when they accept (`RegisterRange`, `ParseOffsetValue`,
  `Imm5Value`), the fields of a sum of parts that are in their ranges
  (`TwoRegisters`, `OneRegister`, `LongOffset`, `TrapVector`), and that the
  signed value of the last field is what the operand means (`MeantReaches`).
  The list of the mnemonics is finite, so that `AssertionHolds` is a comparison of two sets.
* `OutcomeInv` says whose outcome a line has: that of the checks of its mnemonic and of
  its last operand (`EndsWith`), with the bits of that operand at the low end of
  the word (`LowPart`, `OffsetEnds`). `Parser` and the formats are then
  compared with it one operand at a time: an offset, an immediate, a vector, a word
  (`OffsetIsSame`, `FillIsSame` for the one; `ReachableAre`, `NumbersAre`,
  `FillsAre` for the other).
* `TextInv` says for each phase what has been overwritten: while the line is
  split, nothing from `scan` on; then only the last token is untouched, and
  it is the operand of a `.STRINGZ` because every token before is either known not to
  be that keyword (`Plain`) or is it (`StringzAt`); and while escapes are
  interpreted, the writer is behind the reader from the opening mark on.
* `TokensInv` adds what has been found: while the line is split, the tokens are
  the words in front of `scan`, in their order, none of them the keyword, and
  each stands unchanged in front of a NUL (`Whole`). Then `strtok` finds the next
  word, since `scan` is behind a delimiter and all from there is as it was. The
  tokens are counted by their order (`SortedCount`), which ties the size of the
  array to the number of words. `PointersInv` names the only steps out of the
  array or the buffer (`Departures`): one token too many, and the rest behind the
  NUL; a line that fits takes neither.
* `LiteralInv` compares the loop over the operand with what a literal is, for
  operands of every length. Behind i characters: before the first mark they are
  blanks; after it they are what may stand inside a literal, the mode is
  `Escaped`, and the j characters written are the `Content` so far. So the first
  mark is the only one that can open a literal and the next that is not escaped
  the only one that closes it, and each way to fail leaves no literal.
* `DumpInv` says that what is on the output is the listing of the first m bytes
  of the file, for an m that each statement of the loop fixes. That `strtol`
  reads a printed number back is shown for each format on the digits it has.

Where a recursive function has to be reasoned about (the sum `WordsUpTo`, the
walk along a list), it is first shown to satisfy its own equations, by giving a
function that does, and then facts about it hold by the least counterexample
(`LeastNatural`, `UpTo`): the induction schemes of the library take an operator
as their parameter, which the provers cannot instantiate.

Some definitions were changed because of a proof. The conditions of the `CASE`s of
`ParseFill`, `ParseOffset`, `NumberOrLabel`, `Content` and `StmtOf` overlapped: the
code tests them one after the other and TLC does too, but TLA+ leaves open which of two true
conditions is taken. They are now exclusive. The sentinel has to be
different from every label (`SentinelAssumption`): a line without a label would
otherwise declare one. And a line has no NUL among its characters
(`TextAssumption`): behind one, `strtok` and the loop over the string find nothing.

Only model-checked: `Terminates` in `Assembler` and `ObjDump`, because liveness
under fairness and ENABLED are beyond the prover; and `NotationIsRead`, what
`strtol` computes digit by digit, which would be an induction over the text.

## Limits

Not modelled, and why:

* `print` of `dict.c`, which changes nothing, and `bin` and
  `is_valid_lc3integer`, which nobody calls;
* the wording of messages, and that allocating one may fail (`util.c:49`);
* the shell tools, which start other programs;
* the layout of the `.sym` file beyond its labels and addresses;
* a second `assemble()` in the same process, which would begin with the labels of
  the first: `main` calls it once;
* tabs as different from blanks, letter case in hex digits, and values that
  do not fit a `long`, which `strtol` clamps outside every range.

The two levels of detail are tied by `ParserAgrees` for the encoders. A whole
program that is read from characters would be a product of `Text` and
`Assembler` that adds no interaction: a line is split, classified and
expanded before the next is read, and shares only the slots and the labels, which
`Assembler` has.
