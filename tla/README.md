# DASM: a verification model

DASM is a macro assembler for 8-bit processors, written in C (`src/src`, version
2.20.12-SNAPSHOT).  It is one sequential process; what makes it hard is that it is
*multi-pass*.  It reads the whole source again and again, computing with values
that may be stale, until a pass finds that nothing it used was unknown.  Every
pseudo-op takes part in that protocol through a handful of globals, and the
interesting mistakes need two or three passes, or an unusual nesting of files,
macros, loops and conditionals, to show.

This directory holds TLA+ modules translated from the source, TLC
configurations that check them on small sources, and TLAPS proofs.

## 1. Inventory

| Part | Source | State | Operations | Correct when |
|---|---|---|---|---|
| Pass driver | `main.c` `MainShadow`, `main`; counters in `errors.c` | `pass`, `Redo`, `Redo_why`, `Redo_eval`, the saved triple, `Redo_if`, `nof_errors`, `nof_fatals` | open a pass, read lines, end of a pass, exit | passes end; the loop detector, the limit and the fatal counter decide in the right order; nothing unresolved is passed off as done |
| Symbol table | `symbols.c` | `SHash`: value, `SYM_UNKNOWN`, `SYM_REF` | `programlabel`, `find_symbol`, `create_symbol`, `clear_all_symbol_refs` | whoever read an old value of a label causes another pass |
| Layout pseudo-ops | `ops.c` | `Seglist`, `Csegment`, `OrgFill` | `v_org` .. `v_align`, `v_dc`, `v_ds`, `v_equ`, `v_set`, `v_mnemonic` | sizes, padding and values agree with the final symbol table |
| Output writer | `ops.c` `generate`, `genfill`, `closegenerate` | `Fisclear`, static `org`, `Seglen`, `Seekback`, the file | write, seek, patch | only a clean pass writes; bytes are in order |
| Conditional assembly | `ops.c` `v_if` .. `v_repend`, line loop of `main.c` | `Ifstack`, `Reploop` | push, flip, pop, loop | code runs exactly where all conditions hold; nobody closes what another file opened |
| Macros, include files | `ops.c` `v_execmac`, `v_endm`, `v_end`, `v_include`; `main.c` `pushinclude`, `v_macro` | `pIncfile`, `Mlevel`, the four scope counters | call, return, MEXIT, END, INCLUDE | stacks come back to where they were; label scopes nest |
| Expressions | `exp.c` | argument and operator stacks | `eval`, `pushsymbol`, the operators | unknown operands make unknown results; `SYM_REF` is set |
| Instructions | `ops.c` `v_mnemonic`, `globals.c` tables | `Gen`, `Glen` | addressing mode, size, branch | the size is what the chosen mode says |
| F8 instructions | `mnef8.c` | `Gen`, `Glen`, labels, `Redo` | one handler per operand form, with its own parsing | one length in every pass, one meaning for every code, nothing unresolved is written |
| Diagnostics | `errors.c` | the counters | `error_fmt`, `fatal_fmt`, `panic_fmt` | counts steer the driver and the exit status |
| Line parser | `main.c` `cleanup`, `parse`, `findext`, `v_macro` | the line buffer, `Av`, `Mnext`, macro bodies in `MHash` | comments, quotes, substitution of macro arguments, splitting into words, recording of macros | argument lines arrive as written, lines fit their buffer, all passes skip the same bodies |
| Command line | `main.c` `parse_options` | option variables | set once | - |
| Memory | `dalloc.c`; free list in `symbols.c`; strings in `exp.c`, `ops.c` | blocks of the arena, `symbol_free_list` | `dalloc`, `dfree`, `dfree_all`, `alloc_symbol`, `free_symbol_list` | objects share no byte; a cell has one place and a string one owner |
| Converters | `ftohex.c`, `ftobin.c` | - | read the hunk format back | the image they write is the one assembled |
| Tables | `mne*.c` | - | constants | - |

Everything talks to everything through globals (`globals.c`): a handler of
`ops.c` is called for a line, calls `programlabel` (before or after its own
work, which matters) and `eval`, raises `Redo` when it needed something that
was unknown, and ends in `generate`.  `generate` writes only while `Redo` is 0.
At the end of the pass `MainShadow` looks at `Redo` and decides.

There are no threads, no messages and nothing persistent that is read back.
The hard behaviour is the order of operations over several passes: what a pass
leaves behind for the next one (symbols, origins, the current segment, open
conditionals, scope counters), what is reset, and when a value that is used is
already the final one.  `PROJECT.json` lists the hazards line by line.

## 2. Modules

| Module | Models | Correspondence |
|---|---|---|
| `PassDriver` | `MainShadow` around the line loop, `main` | `phase` is the place in `MainShadow`; `redo`, `why`, `evals`, `redoIf`, `errs`, `fatals` are `Redo`, `Redo_why`, `Redo_eval`, `Redo_if`, `nof_errors`, `nof_fatals`; `old` is `oldredo`, `oldwhy`, `oldeval`. One action per way out of a pass: `Finished`, `NotResolvable`, `AbortFatal`, `TooManyPasses`, `NextPass`. A line is left open (`Accrue`): any growth of the counters. |
| `Assembly` | the line loop, symbols, segments and pseudo-ops of one source file | extends `PassDriver`; replaces `Line` and `Panic` by one action per pseudo-op. Each handler is an operator on the record of the globals it may change (`Work`) in the order of the C function: `programlabel` is `Label`, `eval` is `Value` and `Read`, `++Redo` with a reason is `Need`, `generate` is `Generate`. |
| `Nesting` | the stacks: include files and macro calls, conditionals, loops, label scopes | `inc` is the list of `INCFILE`s (with `saveidx`, `savedolidx`), `ifs` is `Ifstack`, `reps` is `Reploop`; a stack entry remembers the number of the frame it was pushed in, as the C code remembers the pointer. Conditions may have any value. |
| `Output` | `generate`, `genfill`, `closegenerate` and the pseudo-ops that call them, byte by byte | `st` is the record of the globals `generate` works on: `redo`, `cseg`, `segs` (origin and `SF_UNKNOWN` of each segment), `clear` (`Fisclear`), `org` (the static `org`), `orgFill`, `seglen`, `seekback`, and `file`. One action per kind of line; `laid` is a history variable, the memory the lines of this pass assembled. |
| `ObjectTools` | `convert` of `ftobin.c` and of `ftohex.c` | functions from the object file to their output and exit status |
| `MemoryImage` | abstract specification | an image of memory: a step lays one block, a new pass starts with an empty image |
| `Expr` | `eval`, `stackarg`, `evaltop`, `doop`, `pushsymbol` and the operators of `exp.c` | `e.args` and `e.ops` are `Argstack` with `Argflags` and `Opdis` with `Oppri`; `e.argbase`, `e.opbase`, `e.lastwasop` are the statics of the same names; `calls` are the activations of `eval` (an EQM symbol calls it again), with the bases each saved; `operand` is the list it returns. One action per kind of token. |
| `ExprMeaning` | reference definition | what the grammar and the precedence table of `doc/dasm.txt` say an expression means, recursively |
| `Mnemonic` | `v_mnemonic`, `Cvt`, `Opsize` | extends `Expr`: the operand is the one `eval` returned. One operator per part of the function, in its order: `FirstLegal`, `Widen`, `PutBit`, `PutOperand`, `PutMask`, `PutBranch`; `insn.code` is `Gen`, `Glen` and what was reported. A table row is its `okmask`, its flags and whether opcodes have a prefix byte. |
| `MnemF8` | `mnef8.c`: every handler and the whole opcode table | one line is followed through the passes: `table` is the two symbols it may use, `seg` is `Csegment` when the line is reached, `redo` is `Redo`, `insn` what the line did to `Gen`, its label and the file. One action per handler. `Garbage` is what the uninitialised register of `v_sreg_op` may hold. |
| `Arena` | `dalloc.c` with `_DASM_ARENA_ALLOC`, the default build | `buf`, `left`, `blocks` are `new_buf`, `new_left_bytes` and the list of blocks; `objects` remembers what was handed out |
| `SymbolStore` | allocation, reuse and strings of symbols in `symbols.c`, `exp.c`, `ops.c` | extends `Arena`. `free` is `symbol_free_list`, `cells` the `SYMBOL`s in use with their string and `SYM_STRING`, `table` is `SHash`, `calls` the activations of `eval` with their lists and argument strings, `operand` the list a handler holds; `dfreed` remembers the calls of `dfree`, which do nothing in the arena build and free in the other one |
| `MacroText` | `cleanup`, `parse`, `findext`, `findmne`, `v_macro`, and what `v_execmac` and `v_dc` do with text | `buf`, `pos` are the line and `str` of `cleanup`, one action per character it treats; `av` is `Av`; `frames`, `macros`, `ifs` are `pIncfile`, the `MACRO`s of `MHash` and `Ifstack`; `recording` is the local state of `v_macro`'s own line loop |
| `MCAssembly`, `MCNesting`, `MCOutput`, `MCMacroText` | the sources TLC considers | every sequence of a few statements from a small set |
| `MCExpr`, `MCMnemonic` | the symbols, numbers and table rows TLC considers | operands are generated token by token |
| `MCMnemF8` | the lines and origins TLC considers | every instruction with operands around each limit, every register, wrong operands |
| `MCSymbolStore` | symmetry of the blocks | |
| `Assembly_proofs` (with those of `PassDriver`), `Nesting_proofs`, `Mnemonic_proofs` (with those of `Expr`), `MnemF8_proofs`, `SymbolStore_proofs`, `MacroText_proofs`, `Output_proofs` | theorems | section 4 |
| `BasicFacts` | lemmas they share | induction over the natural numbers stated with sets, functions defined by recursion along a list, `FoldLeft` by its steps, least and greatest element, remainders, stacks that grow at the front |

`PassDriver` is the abstract specification of `Assembly`: `DSpec` says what any
assembler with this driver may do, and the run `layout` checks that the
handlers of `Assembly` implement it (the driver's variables are shared, so the
refinement mapping is the identity and `DSpec` is checked as a property).

`MemoryImage` is the abstract specification of `Output`: under the refinement
mapping the image is what a reader makes of the file (`Loaded(Pending)`, with
the length of the open hunk patched in) while `Redo` is 0, and nothing
otherwise.  `ImageSpec` is that instance.

`Arena` is the abstract specification of the memory of `SymbolStore`: every
step of the store, whatever it does to lists, tables and strings, is an arena
step or leaves the arena alone.  The variables are shared, so the mapping is
the identity; the refinement is not only checked but proved (section 4).

What is abstracted, and why nothing is lost for the properties:

* An expression is a symbol (or the pc, or nothing) plus a constant.  What the
  passes see of `exp.c` is the unknown flag of a symbol, that the stale value
  is used all the same, the reference mark and `Redo_eval`.
* In `Assembly` bytes are the number they encode; `Output` has the bytes.  `DC` has one operand of one byte; an
  instruction has an absolute and a zero-page form; a fill is shorter than the
  buffer `Gen`, so it is one call of `generate`.
* A name that is not in the table is an entry that is unknown, unreferenced and
  0; `create_symbol` makes exactly such an entry.
* In `Nesting` macros are already defined and have no arguments; both are in
  `MacroText`.  An include file either can be opened (`Files`) or cannot.
* In `MacroText` a character is a token, and so are a word, the opening brace
  with its number, and an extension; a token counts as one character of
  `MAXLINE`.  What an expression means is not looked at, conditions have any
  value.  Lines fit `Avbuf`.
* In `SymbolStore` strings have a size and no text, operands are arbitrary
  sequences of strings, names, brackets and commas, and the bodies of EQM
  symbols are arbitrary operands.
* In `MnemF8` one line is followed: what the other lines do is a free choice of
  the origin and of the pass in which its symbol gets a value.  What `eval`
  contributes is the value, the unknown flag and whether the mode is an address.
* `F_verbose` is 0: with `-v1` and above label mismatches are reported even when
  `Redo_if` would silence them.
* Names of symbols are not scoped in `Assembly`; scopes are in `Nesting`.
* In `Expr` a token stands for the characters one turn of the loop of `eval`
  handles (behind a value `!` and whatever follows it is `!=`); `,x`, `,y` and `),y` are tokens because `eval` looks ahead for them.
  Left out are strings, characters and `[..]d` (as owners of memory they are
  in `SymbolStore`), the limits of the stacks
  (operands are far shorter), brackets that are never closed, a comma that no
  value precedes, and shifts by a negative count (undefined in C; the flag
  `undef` excludes them from `KnownMeansFinal`).
* The byte of 256 values is `Radix` in `Expr` and `Mnemonic`, scaled to 4, so
  that small numbers lie on both sides of every boundary; `Width` is the number
  of bits `&`, `^` and `|` look at, the sign apart.

## 3. What the runs check

| Run | Module | Bounds | Shows |
|---|---|---|---|
| `layout` | `MCAssembly` | every source of 4 statements out of 11 (labels, equates, branches, fills) and out of 15 (segments, origins, alignment), every source of one line or two (most are never resolved, some are fatal), 2 formats, 5 passes | `OutputUsesFinalValues`, `LabelsMatchOutput`, `AscendingOutput`, refinement of `DSpec`, `FatalStopsPasses`, `UnresolvedIsReported` |
| `conditionals` | `MCAssembly` | every source of 4 statements out of 12 and of 3 out of 14, and of 3 out of 12 behind an `EQU` that gives a count; 5 passes, option `-P` | `OutputUsesFinalValues`, `RepeatCountHonoured`, `IfSuppression`, `Termination` |
| `nesting` | `MCNesting` | main file of 3 lines out of 8, included file of 2 out of 5, 3 macros; and a macro of 3 lines out of 8 that may call itself; recursion limit 3, 2 passes | `TypeOK` (with the base of `Ifstack` in place), `ActiveMeansAllOpen`, `NoOrphans`, `OnlyOwnersClose`, `ScopesAreFresh`, `Termination` |
| `output` | `MCOutput` | 5 lines over 2 passes, 3 formats, origins 1, 2 and 5, strings of 2 bytes and of none (`HEX` without digits), `Gen` of 2 bytes, records of 2 bytes, bytes of 4 values | `FileIsImage`, `HexIsImage`, `BinIsImageInOrder`, refinement of `MemoryImage` |
| `expressions` | `MCExpr` | operands of 5 tokens, one out of place, of instructions and of pseudo-ops; 2 unary and 6 binary operators of five priorities, an unknown symbol, an undefined name, an EQM symbol, a broken one and one that `eval` misreads | `StacksRestored`, `KnownMeansFinal`, `NestedKeepsOuter` |
| `instructions` | `MCMnemonic` | operands of 5 tokens, 11 table rows of 3 processors, 6 forced modes or none | `OperandEncoded`, `BranchReaches`, `LongestWhenUnknown`, `SmallestModeChosen`, `NoStaleByte` |
| `f8` | `MCMnemF8` | every instruction; operands at, below and above each limit, every register and pair of registers, unresolved and wrong ones; 4 origins, 5 values the symbol may get; 2 passes | `WrittenIsFinal`, `SizeStable`, `Decodable`, `BranchReaches` |
| `storage` | `MCSymbolStore` | 2 blocks of 48 bytes (symmetric), symbols of 16 bytes, strings of 3 and of 60, 3 strings on the stack, one nested evaluation, lists of 2, one change of scope | `ObjectsApart`, `PoolSound`, `StringsLive` |
| `text` | `MCMacroText` | every argument line of 4 characters out of 7 through one macro or two, with 4 outer bodies; every file of 4 lines out of 10; data pseudo-ops with a size of their own or behind a period, two of which end the program; a line as long as `fgets` reads that ends in an apostrophe; lines of 14 characters, 3 macro levels, 2 passes | `ExactArgumentLine`, `LineFits`, `PassesAgree`, `ScanProgresses` |

The bounds.  Three passes are the fewest in which the saved triple and both bits
of `Redo_if` have been shifted twice; with five the limit is met with and
without an earlier return.  The driver has no run of its own: its properties are
checked of the assembler that implements it, whose lines raise the counters for
real reasons, and proved of `DSpec`, whatever lines do.  Four statements are
enough for a forward reference through an equate, a size that changes because
of it, and a label behind; the boundary between one-byte and two-byte operands
is scaled from 256 to 4 (and from -128 to -2) so that addresses of such sources
lie on both sides of it.  `ManyCounts` only bounds the type of the counters in
`DSpec` and is never reached.  A recursion limit of 3 (`MAXMACLEVEL` is 32)
lets a macro be entered through two others.  `PassBound` in `Nesting` stands
for the driver, which is not part of that module.  Two passes are the fewest in
which `Output` can find the `Seekback` of an earlier one, and pieces of two
bytes (`Gen` has 256) make a fill of three cross a piece.  Five tokens hold two
binary operators with three values, or one operator with a bracket or an EQM
symbol on either side, in any order of priorities; the operators that are left
out differ from their neighbours in one number of `Priority` and in what `Apply2`
computes, which the reference definition takes from there.
The rows of the tables cover every
flag and both byte orders, modes with gaps in the chain, and a bit, a mask and
a branch operand together.
An F8 line depends on other lines only through the origin and its symbol, and
an assembly that needs no further pass differs from the pass before it in both
at most, so two passes meet every pair.  A block of 48 bytes has room for a
symbol and a string or for two symbols, and none for a string of 60, so objects
that fit, that open a new block and that get a block of their own all occur;
with the second block used up every request is refused in turn.  Four
characters hold a quoted string with a separator or a comment mark in it, a
pair of separated arguments or an open quote; four lines hold a definition that
a condition or a call straddles.  Fourteen characters are reached by a body
that uses `{0}` three times.

`OutputUsesFinalValues` and `LabelsMatchOutput` are the heart: when the driver
stops because `Redo` is 0 and nothing fatal happened, every byte that was
written is the value its operand has in the *final* symbol table, every
instruction has the size that value asks for, every fill its length, every
padding ends at a multiple, and a label that survived stands where its code
is.  Symbols defined by `SET` are excluded: they are variables of the source
and a forward reference to one reads what the last pass left.  So are names that
one line defines by `EQU` and another as a label: `EQU` takes the reference mark
back, and a label at an unknown origin then changes the value without asking
for another pass (section 5).  `AscendingOutput` holds where nothing was told as
an error: an origin below zero is reported, and only then compared as unsigned.

`RepeatCountHonoured` says that a loop at the outermost level whose count is known
in the end ran that often: the count is a number, a label, wherever it is defined,
or an `EQU` that a line in front of the loop gives a number.  For an `EQU` behind
the loop it is false, which the run `repeat_equ` shows.

`KnownMeansFinal` says of one operand that what the grammar of the manual allows
is accepted, unless `eval` misreads it (below), and that a known value is final:
`&&`, `||` and `?` may be known when one side is not, and then the value must not
depend on what the unknown symbols become.  `Misread` says when a token is read
otherwise than the grammar has it: it is unary (or `*`, the program counter) and
stands behind a binary operator for which `doop` evaluated another one first,
because that evaluation clears `Lastwasop`.  It is stated on the text of the
operand, by places and priorities, and not on the stacks of `Expr`; any other
operand the grammar allows has to be accepted with the value the grammar gives, and
so has a misread one that happens to be accepted.

`LongestWhenUnknown` and `SmallestModeChosen` are what `v_mnemonic` contributes to convergence: an unknown operand makes the longest
instruction the row and the extension allow, a known one the shortest that
holds it.  `NoStaleByte` and `BranchReaches` speak of instructions that were
generated without a complaint or a request for another pass (`Clean`).

`WrittenIsFinal` says of a line of the F8 that is in the file without a complaint
that every symbol of its operands is resolved (so no register was left unparsed;
the origin of a branch is excepted) and that its label is where the line is; what
its bytes mean is for the others: `Decodable` compares the bytes of a line with
those of every other meaning, so two operand forms can never share a code.  The model of
`mnef8.c` was compared with the program on 1448 lines, that of `cleanup` on
2341 argument lines; they differ in the wording of listings only.

`StringsLive` and `PoolSound` are about the build that really frees: the arena
build hides a string freed twice, the free list of symbols hides nothing.
`PassesAgree` compares, pass by pass, which lines of a file reached the line
loop and which were taken for macro bodies; sources in which a definition is
read while a macro runs are excluded, since there `v_macro` reads on in the
file below.

`ExactArgumentLine` is about lines that hand their arguments on (`{0}`): the line
a macro calls has the argument line of the macro that contains it, and where all
bodies do so, every call that is open has the same one, with the strings of the
line of the file in it.  It must hold however many calls are between; a
blank in a string passes `cleanup` and `parse` once per call.

Fairness.  `FairSpec` of `Assembly` and `Nesting` is weak fairness of `Next`, one process that keeps
running; that the end of the source is reached is there a consequence (loops
count down, the macro level is bounded) and not assumed.

All runs switch deadlock checking off, because the assembler is meant to stop.

### Runs that end in a counterexample

These check what the documentation says and the code does not do:

* `mexit_leak` (`PassStartsOutside`): `MEXIT` inside `IF` or `REPEAT` leaves the
  entries on the stacks for good.  Macros that close what they open do not
  (`NoOrphans`, run `nesting`).
* `unary_operand` (`GrammaticalIsAccepted`): `3-3--3` is a syntax error, although
  the manual has a unary minus and the precedence of C.  `doop` sets `Lastwasop`
  and only then evaluates the first subtraction, whose `stackarg` clears it, so the
  third `-` is binary (`exp.c:624`, `635`, `585`).  The program built from the
  source says the same of `1-1--1`.
* `repeat_equ` (`EveryCountHonoured`): in `org 0`, `repeat a`, `dc 1`, `repend`,
  `a equ 2` the count has the value 0 in the first pass, the loop is dropped, and
  neither `REPEAT` nor `EQU` requests the pass that "REPEAT: expression not
  resolved" is a reason for (`doc/dasm.txt:752`).

## 4. What is proved

`Assembly_proofs` first proves of the pass loop alone (`DSpec`), for every pass limit
(also below 1), with and without `-P`, for every set of reasons and every set of
counter values:

* `TypeCorrect`: `DSpec => []DTypeOK`;
* `PassLimitHolds`, `IfSuppressionHolds`, `OldAskedForRetryHolds`: no line is
  read beyond the limit, the bits of `Redo_if` agree with the reasons, and the
  loop detector compares with a pass that asked for a retry;
* `FatalIsFinal` and `UnresolvedReported`: the action properties the run
  `layout` checks of the assembler.

The assumptions are `PassAssumption` and `CountAssumption` (the limit is an
integer, `-P` is a Boolean, counters are natural numbers).  The invariants are
proved together as `DInv`.  They are not inductive one by one: the saved triple
has a non-empty set of reasons only if every `++Redo` came with a reason
(`RedoHasReason`), and the old bit of `Redo_if` is right only if the new bit
was right at the moment of the shift.  The two action properties need the type
invariant only.

`SymbolStore_proofs` first proves of the arena, for every set of addresses and every block size that is
a multiple of the alignment and larger than the link (`ArenaAssumption`), that
the objects handed out share no byte (`ArenaObjectsApart`) and lie aligned in
blocks that live until the exit (`ArenaObjectsBacked`).  Neither is inductive:
the next object is apart from the others because all of them end before the
place `buf` points to, whose remaining bytes reach exactly to the end of the
block, and because a block with objects is one that was given already.  That is
`ArenaInv`; `RoundUpBounds` is the arithmetic it rests on.

Then it proves that the store implements the arena
(`StoreImplementsArena`), one step per action of the store, for every set of
names, string sizes and limits, and carries both results over to symbols and
strings: `StoreObjectsApart` (a property of the run `storage`) and
`StoreObjectsBacked`.

The other half of the store is ownership: `SymbolsHaveOnePlace` (`PoolSound`) and
`StringsHaveOneOwner` (`StringsLive`), the two properties the arena build hides
from every test.  Neither is inductive.  `StoreInv` says of all places together
that a cell in use is at one of them: on the free list once, or under one name,
or in one list of one call, or in the operand (`OnePlace`; a cell the code loses
stays in use for ever), and of all owners that a string belongs to one cell or
to one slot of the argument stack, never to one that was freed (`OneOwner`);
`BodiesKept` says which strings `EQM` lines may rest on, `Called` which call of
`eval` may read them.  `ArenaInv` is needed for it: an object `dalloc` gives is
new, so it is in none of these places.

`Nesting_proofs` proves, for every source (`TextAssumption`: a call names a
defined macro), every limit on macro levels and any number of passes:

* `TypeCorrect` and `LevelIsExact`: `Ifstack` keeps its base, `Mlevel` counts the
  macro calls that are open;
* `NoHiddenClosedBranch` (`ActiveMeansAllOpen`), `CloseOwn` (`OnlyOwnersClose`),
  `FreshScopes` (`ScopesAreFresh`) and `CallersScopesDiffer`.

The invariant `IInv` has a part for each stack.  For the conditionals it is
`OuterOpen`: an entry that allows code was pushed where code ran, so everything
below it is open; without it nothing follows from the innermost entry, the only
one the code looks at.  For the scopes it is an order: the numbers that calls
saved decrease outwards and lie below the last number given away, which is why
a number is never given twice.  `Mlevel` is the number of macro frames counted
from the *bottom* of the stack, so that a return takes away the highest.

`NoOrphans` is not true of every source, because `MEXIT` leaves the entries of the
call it ends (run `mexit_leak`).  What is true of every source is that nothing else
does:

* `NoOrphansIfMacrosClose`: if no macro call is left with an entry of its own on a
  stack (`MacrosCloseOwn`), there are never orphans (`NoOrphans`), whatever files
  leave open;
* `PassesStartOutside`: then every pass begins with the base of `Ifstack`, no loop
  and `Mlevel` 0.

The hypothesis is about the behaviour, step by step: the sources of the run
`nesting` satisfy it (TLC checks `[][MacrosCloseOwn]_vars` of them, and `NoOrphans`
is a property of that run), those of `mexit_leak` do not.  `OrphanInv` is inductive
where `NoOrphans` is not: the end of a file takes entries from the top until it
meets another owner's, so it must be known that entries of younger frames lie above
those of older ones, and that frames have ascending ids.

`Assembly_proofs` then proves of the assembler, for every set of sources that satisfies
`ProgramAssumption`, every set of names and segments and every limit on passes:

* `FinalValues` (`OutputUsesFinalValues`), `LabelsMatch` (`LabelsMatchOutput`)
  and `Ascending` (`AscendingOutput`);
* `AssemblyTypes`, which includes that the current segment exists and that the
  base of `Ifstack` is under everything;
* `CountsHonoured` (`RepeatCountHonoured`);
* `ImplementsDriver`: every handler is a step of `PassDriver`, so that all
  theorems about the driver hold of the assembler (`AssemblerPasses`).

The argument for `FinalValues` is about the *present* symbol table, not the final
one.  A block that was written is `Supported`: its values are those of the
table as it is now, and every name they were computed from is `Firm`, known and,
if a label, referenced.  A line either leaves the value of a firm name alone or
raises `Redo`: `EQU` compares with any known value, `programlabel` with one that
is known and referenced.  So while `Redo` is 0 every block of the pass stays
supported (`Final`), and at a success the present table is the final one.
`Ordered` (no block lies beyond the address the file has reached) and `Placement`
(the label of a block is where the block is) are kept the same way.  Once a pass
asked for another one nothing is claimed of its blocks; the symbols of a pass
that failed are nobody's.  `ProgramAssumption` says which statements have labels
and a second operand; it restricts one thing the code does not, the operand of
`ALIGN`, to a positive constant (`ALIGN 0` kills the process).  `Counts = Nat`
in `ImplementsDriver` says that `DSpec` is meant without the bound that TLC
needs.

`CountsHonoured` needs more than `IInv`, which knows nothing of the place of a line.
`RepInv` says of a loop at the outermost level, as long as no other pass was asked
for: in front of it nothing is open and nothing of it is written; in it either a
round with `r` rounds left and the bytes of the others written, or the loop is
dropped and its count is 0; behind it, exactly as many bytes as the count, and no
entry of `Reploop` that leads back.  A count that is 0 only because it is unknown
drops the loop too, and the third case is what makes that harmless for a label: it
is then unknown and referenced (`Waiting`), and no line takes that from it while
`Redo` stays 0 (`Waits`), so a pass that ends so has not resolved it.  A count
that an `EQU` gives would not wait: `EQU` clears the mark and gives the value
without a word.  For it the property asks for a line in front of the loop that
gives the count a number; that line runs, since nothing in front of the loop is
conditional, and the count is known from then on (`Told`, `StaysGiven`).  That the
count stays what it was when the loop began is `Kept`, the lemma under
`FinalValues`.

`Mnemonic_proofs` begins with `eval`, and proves, for every set of tokens, symbols and bodies of EQM
symbols, `StacksAreRestored`, `OuterIsKept` (`NestedKeepsOuter`) and `ExprTypes`.
`StackInv` says that the bases of the calls are ordered, that the stacks reach
at least to the base of the call that runs, and that the outermost call found
them empty; the bodies of `EQM` symbols make the depth unbounded.  That the
values of `&`, `|` and `^` are numbers is proved by induction over sets of bit
numbers (`BitSums`).  The operands are those `Punctuated` admits; what the code
does with the others is in section 5.

It carries `StackInv` and the types on to `v_mnemonic` and proves,
for every radix and every table that satisfies `MnemonicAssumption` and
`NoGapAssumption`: `StaleBytesAreReported` (`NoStaleByte`), `OperandsAreEncoded`
(`OperandEncoded`), `BranchesReach` (`BranchReaches`), `UnknownIsLongest`
(`LongestWhenUnknown`), `ModesAreSmallest` (`SmallestModeChosen`) and
`MnemonicTypes`.  `MnemonicInv` only says that `Gen` is what `Assemble` makes of
the operand; the work is in lemmas about the operators: `Encode` extends `Gen`
by exactly `Size` bytes (`MadeFacts`), `Widen` is monotonic in the size asked for
(`WidenMonotonic`), and of two bytes a number is put together again
(`TwoDigits`).  The two assumptions say that a mnemonic with a bit mode has no
other, and that no mnemonic has the first and the third mode of a chain without
the second; both hold of every row of `mne*.c`.  The second is needed:
`v_mnemonic` stops at a gap, and would complain although a mode fits.

`MnemF8_proofs` proves of the handlers of `mnef8.c`, for every set of lines, origins
and values of the symbol, every limit on passes and every number `ULong` of values
of an unsigned long from twice 2^16 on (`F8Assumption`; the run has 2^20), all four
properties of the run `f8`:

* `WrittenStaysFinal` (`WrittenIsFinal`), `LengthIsStable` (`SizeStable`),
  `CodesCanBeToldApart` (`Decodable`) and `BranchLeadsToTarget` (`BranchReaches`).

What a handler did is a `Result`: how long the code is, which label it set, what it
reported, whether it asked for another pass.  There is one lemma of that shape per
handler, and `GenerateFacts` and `FinishFacts` carry it through `generate` and
`programlabel`.  `F8Inv` says that every pass found the length of the instruction
(`Size`), that a `BF` or `BT` whose mask is the label of the same line never gets
it, and that what a settled pass wrote can be read back (`ReadBack`).  For `Decodable` two lines
would have to be compared, instruction by instruction; instead `Decode` is a
disassembler, which tells from the first byte alone which instruction and operands
it was, and `CodesCanBeToldApart` follows because it inverts every handler.  The
handlers join opcode and operand with `|`: `OrIsSum` says that this is addition
where the bits do not meet, `OrIsByte` that it stays a byte where they may.

`MacroText_proofs` proves, for every set of files whose lines are what `fgets` reads,
every table of argument numbers and extensions and every `MAXLINE`
(`TextAssumption`): `LinesFit` (`LineFits`) and `TextTypes`.  `TextInv` says that
a line fits wherever it is kept: in the file, in the buffer while `cleanup` works
on it, in the body being recorded, in every macro and in every call that is being
read; a line that is stored full is read, and grows, again.  It also says that
`str` of `cleanup` is on the line or at its end, in front of whatever the test of
`main.c:902` counts.  The one line that fills its buffer is the one an apostrophe
ends; that it grows only once needs its last character to be a blank (`Room`).
That the recursive functions of `Squeezed` and `RestFrom` exist and build text is
proved by `SetInduction`, for `RestFrom` from the end of the line.

`Output_proofs` proves of `generate`, `genfill`, `closegenerate` and the pseudo-ops
that call them, for every byte size (`Radix`), size of `Gen`, set of segments,
origins, fills and lines, all three formats and any number of passes
(`OutputAssumption`):

* `FileHoldsImage` (`FileIsImage`): at every point of a good pass the file, read
  back, is the memory the lines laid down;
* `FileImplementsImage` (`ImageSpec`): every step is a step of `MemoryImage`, or
  none;
* `HexHoldsImage` (`HexIsImage`): after a pass, what `ftohex` makes of the file is
  records of legal length with the right sum, and loading them gives that memory;
* `BinHoldsImage` (`BinIsImageInOrder`): what `ftobin` makes of it is that memory
  from its lowest address to its end, in RAS with 255 where nothing was laid;
* `OutputTypes`: the file is bytes, whatever is patched where.

`FileIsImage` reads the file back from its beginning, `generate` writes at its
end and seeks back; neither says anything of the other.  `OutInv` names what the
file is made of.  In RAS, while the pass is good, it is `G \o HunkOf(a, 0, d)`:
a part `G` that is read back as the hunks `hs`, and the hunk that is open, whose
length is still 0 but is `seglen`, whose place is `seekback` and whose end is
`org` (`RasOpen`).  In the other formats it is a lead word and one run of bytes
up to `org` (`Flat`).  While nothing was written (`clear`) nothing is claimed of
`seekback` and `seglen`, since those are what an earlier pass left; so a pass
that writes nothing is a case of its own (`HoleHoldsNothing`: the patch leaves a
hole in front of it, in which a reader finds no data).  The lemmas: `Hunks`, a
recursive function over the file, exists and reads hunk by hunk (`HunksExist`,
`ReadHunk`); `Reads(G, hs)` says this of `G` with anything behind it, so that it
composes (`ReadsHunk`); `Patch` changes the two bytes of the length and nothing
else (`PatchedFile`); a line of many pieces writes what it would in one
(`PiecesFacts`, `PutsAll`), but for the first piece at an unknown origin, which
asks for another pass instead (`GivesUpAll`).

`InRange` is a hypothesis of the refinement, and a condition inside
`FileIsImage`: the words of a header have 16 bits, and a program outside of them
gets a header that says something else.  The claims about how `Patch` is read
back are therefore conditional in `RasOpen`, those about the file are not, since
memory that was laid down out of range stays so until the pass ends.  The
converters have it as a condition for the same reason, `Fits` asks besides
that the run of a file without hunks ends inside 16 bits, since its records have
an address of 16 bits each.

The two converters begin where `OutInv` ends: a closed file *is* hunks.  `ftohex` is
a loop that cuts what is left of a hunk and jumps behind what it cut
(`JumpRecursion`: such a function exists, by induction from the end of the hunk;
`HexExists`); loading the records of a hunk lays exactly its bytes, each record is
accepted because its last byte is the complement of the sum (`BlockOfRecords`), and
the records of several hunks are loaded one after the other.  For `ftobin` the
invariant of the loop over the hunks is `BinHolds(r, m, b)`: the output `r` is the
memory `m` of the hunks so far counted from the base `b`, 255 at every address in
between that `m` does not have, and never longer than to the highest end.  The
properties' conditions (`LowestFirst`, `NoLeapAfterReturn`) are what that step
needs: a gap is filled from the current position, which must be the end.

Induction.  The induction theorems of the library take predicates, which the
provers here cannot instantiate.  `BasicFacts` states induction over the natural
numbers with a set in the place of the predicate (`SetInduction`, from the
well-foundedness of `<`); the proofs name the set they mean.  `ListRecursion` and
`FoldRecursion` apply it to functions that are defined by recursion along a list,
which a proof may use only once it is known that they exist.

`PassLimit`, `OldAskedForRetry`, `DTypeOK` of the driver, `ObjectsBacked`,
`ExprTypeOK` and the type invariants of `Assembly`, `Mnemonic`, `MacroText` and
`Output` are proved and
therefore not repeated in a run.

What stays with TLC, and why:

* Liveness (`Termination`, `ScanProgresses`): no prover here handles fairness.
* `NoOrphans` for given sources: proved under the hypothesis that macro calls close
  what they open; that sources do is for TLC.
* `KnownMeansFinal`: `ExprMeaning` is a recursive definition over expressions.
* `ExactArgumentLine`: argument lines and their strings of a line are defined by recursion over it, and
  `PassesAgree` compares whole passes, so an invariant would need what `cleanup`
  and `parse` make of every line as a function of the line.

## 5. What is not modelled

The command line (`parse_options` fills option variables once), the choice of
the processor and the tables of opcodes (constants; a few rows of three of them
are in `MCMnemonic`, all of the F8 are in `MnemF8`), listings and symbol dumps
(they change nothing), the string helpers of `util.c` (no state), the unit
tests, the test file generator, `machines/`, `research/`, `www/` and the sample
sources.  Of parts that are modelled in part: the wording of messages, hash
chains, the running checksum symbol of the output, the bytes of `DC` with more
than one operand and of `DV`, the values of strings in expressions.  `ALIGN 0`
divides by zero and kills the process; the sources checked do not contain it.
Parts that are planned are in section 6.

Things the modules do as the code does them and no property judges:

* `ORG` of a label that is defined further down requests no pass; once the pass
  has written something, code goes to the stale value.
* `EQU` takes `SYM_REF` back from a name that is also a label.  In `org 0`,
  `a equ 5`, `dc a`, `a equ 5`, `org x`, `a:` the last line changes `a` after it
  was used, `Redo` stays 0 and the byte keeps the old value.
* `evaltop` on an open bracket calls what `Opdis` last held, and the body of an
  EQM symbol that begins with a comma takes a value from below its base
  (`exp.c:433-449`), one of the call outside.
* `OrgFill` keeps the fill of the last pass, and code ahead of every `SEG` goes
  to the segment the last pass ended in.
* `REND` sets its label before the relocation ends.
* A label mismatch that a later pass settles still makes the exit status 1.
* A last pass that writes nothing patches the length of a hunk of an earlier
  pass into an empty file; a hunk longer than 16 bits has its length cut.
* A negative bit number is added to the opcode.
* A fatal error leaves the exit status at 0: `main` looks at the number of
  errors, and fatal ones are counted elsewhere.
* A branch whose origin is not known writes the displacement 0 and requests
  nothing for it, although the comments at `ops.c:394` and `mnef8.c:621` promise
  another pass.  `OutputUsesFinalValues` and `WrittenIsFinal` leave such a branch out.
* `findext` ends the program with an assertion for an extension it does not know
  (`main.c:1077`), for the letters `i` and `0` when no `x`, `y` or `n` follows
  (`main.c:1027`), and for every `DV`, whose `v` is handed to it (`ops.c:667`).
  `MacroText` ends there (`abort`, reached in the run `text`).
* `ftobin` fills a gap from its current position, which after a step back lies
  inside the image (`BinIsImageInOrder` is about files without such a step).
  `ftohex` ends every conversion of format 2 with status 1 and without the end
  record, because `get_word` exits at the end of the file.
* An argument that holds a brace can put itself in for ever (`cleanup` scans
  what it has put in).  `m {1}` outside of a macro is enough when `m` uses
  `{1}`: the missing argument is reported, and the brace is passed on.
* An apostrophe that ends a full line takes one character more than the line
  has (`LineFits` counts it); words longer than `Avbuf` are not checked for.
* The operand lists of `DC`, `DV`, `ECHO` and `. =` are not always given back,
  and a trace after the exit handler reads what was freed.
* An EQM symbol that names itself recurses without a limit.
* `lr dc0,a` and operands missing around the comma of `lr` end in assertions;
  a dump of more than 2047 symbols (`ShowSymbols`) asks for more than a block of
  the arena and ends in a panic.
* A closing bracket that opens nothing is not noticed, and of two values without
  an operator the last is taken, with a syntax error.
* The symbol of an EQM never gets `SYM_REF`; the mark is put on the temporary
  value instead.

## 6. Plan

Done: `PassDriver`, `Assembly`, `Nesting`, `Output` with `ObjectTools` and
`MemoryImage`, `Expr` with `ExprMeaning`, `Mnemonic`, `MnemF8`, `Arena` with
`SymbolStore`, `MacroText`.  Proved: the safety properties of `PassDriver`,
`Assembly`, `Nesting`, `Expr`, `Mnemonic`, `MnemF8`, `Arena`, `SymbolStore`,
`MacroText` and `Output`, but for those that section 4 leaves to TLC.  Next:

* a condition on the text of a source from which `MacrosCloseOwn` follows, in the
  place of a hypothesis about its behaviour;
* in `Assembly`, operand lists of `DC` and `DV`, whose bytes are left out so far.
