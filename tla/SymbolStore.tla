----------------------------- MODULE SymbolStore -----------------------------
(***************************************************************************)
(* Who owns the memory of symbols (src/symbols.c) and of strings: the free *)
(* list of SYMBOLs, the symbol table, the operand lists eval builds        *)
(* (src/exp.c) and the pseudo-ops that take strings over (src/ops.c).      *)
(* dalloc takes objects from the arena; dfree there does nothing, and free *)
(* in the build without _DASM_ARENA_ALLOC, so dfreed remembers what that   *)
(* build would have given back.                                            *)
(*                                                                         *)
(* Of an operand the model keeps the strings on the argument stack; a      *)
(* string has a size and no text.  The bodies of EQM symbols are arbitrary *)
(* operands.  No comma lacks the value in front of it (there eval reads    *)
(* below its base).                                                        *)
(***************************************************************************)
EXTENDS Arena, Sequences

CONSTANTS
  Globals, Locals,  \* names; a local one (.name) belongs to a Localindex
  SymbolSize,       \* sizeof(SYMBOL)
  StringSizes,      \* sizes of names and strings, with the final 0
  MaxArgs,          \* MAXARGS: values on the argument stack
  DepthBound,       \* bound for the model checker: activations of eval
  ListBound,        \* ... symbols of one operand
  ScopeBound        \* ... values of Localindex

VARIABLES
  free,      \* symbol_free_list, first cell first
  cells,     \* the SYMBOLs in use: their string and flags
  table,     \* SHash: the cell of every name that has one
  naming,    \* the cell create_symbol has taken and not entered yet
  calls,     \* the activations of eval, innermost first
  operand,   \* the list eval returned to the handler of the line
  macro,     \* the EQM symbol of the DV being executed
  scope,     \* Localindex
  dfreed     \* strings passed to dfree
store == <<free, cells, table, naming, calls, operand, macro, scope, dfreed>>

NoString == Object(NoBlock, 0, 0)
Zeroed == [string |-> NoString, owns |-> FALSE, eqm |-> FALSE]   \* owns is SYM_STRING
NoName == <<>>

StoreInit ==
  /\ ArenaInit
  /\ free = <<>> /\ cells = <<>> /\ table = <<>> /\ naming = <<>>
  /\ calls = <<>> /\ operand = <<>> /\ macro = NoName /\ scope = 0 /\ dfreed = {}

(* The name under which find_symbol and create_symbol keep n.              *)
Key(n) == <<IF n \in Locals THEN scope ELSE 0, n>>
Found(n) == Key(n) \in DOMAIN table

-----------------------------------------------------------------------------
ASSUME StoreAssumption ==
  SymbolSize \in Nat \ {0} /\ StringSizes \subseteq Nat \ {0}

(* dalloc gives the one object that was not there before. *)
Fresh == CHOOSE o \in objects' : o \notin objects
TakeString(bytes) == bytes \in StringSizes /\ Take(bytes)

(* alloc_symbol, and the cell it returns. *)
AllocSymbol ==
  \/ free # <<>> /\ phase = "run" /\ free' = Tail(free) /\ UNCHANGED arena
  \/ free = <<>> /\ Take(SymbolSize) /\ UNCHANGED free
NewCell == IF free # <<>> THEN Head(free) ELSE Fresh

Cleared(f, c) == [d \in DOMAIN f \cup {c} |-> IF d = c THEN Zeroed ELSE f[d]]
Reverse(s) == [i \in DOMAIN s |-> s[Len(s) + 1 - i]]
CellsOf(list) == {list[i] : i \in DOMAIN list}

(* free_symbol_list of a list whose symbols are as contents says: dfree of *)
(* the strings that are marked, every cell pushed on the free list.        *)
FreeSymbolList(list, contents) ==
  /\ dfreed' = dfreed \cup {contents[c].string : c \in {d \in CellsOf(list) : contents[d].owns}}
  /\ free' = Reverse(list) \o free
  /\ cells' = [c \in DOMAIN contents \ CellsOf(list) |-> contents[c]]

-----------------------------------------------------------------------------
(* create_symbol, for a label, an equate or a name in an operand: first    *)
(* the SYMBOL, then the characters of the name.                            *)
CreateSymbol ==
  /\ naming = <<>>
  /\ \E n \in Globals \cup Locals :
       /\ ~Found(n)
       /\ AllocSymbol
       /\ naming' = <<NewCell, Key(n)>> /\ cells' = Cleared(cells, NewCell)
  /\ UNCHANGED <<table, calls, operand, macro, scope, dfreed>>
EnterSymbol ==
  /\ naming # <<>>
  /\ \E bytes \in StringSizes : TakeString(bytes)
  /\ table' = [k \in DOMAIN table \cup {naming[2]} |->
                 IF k = naming[2] THEN naming[1] ELSE table[k]]
  /\ naming' = <<>>
  /\ UNCHANGED <<free, cells, calls, operand, macro, scope, dfreed>>

(* A macro call, ENDM or SUBROUTINE. *)
BetweenLines == naming = <<>> /\ calls = <<>> /\ operand = <<>> /\ macro = NoName
ChangeScope ==
  /\ BetweenLines /\ phase = "run"
  /\ \E i \in 0..ScopeBound : i # scope /\ scope' = i
  /\ UNCHANGED <<arena, free, cells, table, naming, calls, operand, macro, dfreed>>

-----------------------------------------------------------------------------
(* eval.  An activation has the list it builds, its part of Argstring, and *)
(* who called it: the handler of a line, pushsymbol ("name") or DV.        *)
Reading == naming = <<>> /\ calls # <<>> /\ phase = "run"
Args == calls[1].args
Value == NoString   \* a slot without a string

(* stackarg when the stack is full starts over. *)
Pushed(args, s) == IF Len(args) + 1 = MaxArgs THEN <<>> ELSE args \o <<s>>
SetArgs(args) == calls' = [calls EXCEPT ![1].args = args]

Enter(for) ==
  /\ AllocSymbol
  /\ calls' = <<[list |-> <<NewCell>>, args |-> <<>>, for |-> for]>> \o calls
  /\ cells' = Cleared(cells, NewCell)
BeginLine ==
  /\ naming = <<>> /\ calls = <<>> /\ operand = <<>> /\ Enter("line")
  /\ UNCHANGED <<table, naming, operand, macro, scope, dfreed>>

PushValue ==
  /\ Reading /\ SetArgs(Pushed(Args, Value))
  /\ UNCHANGED <<arena, free, cells, table, naming, operand, macro, scope, dfreed>>

(* "..." in the operand: stackarg copies the characters. *)
PushString ==
  /\ Reading
  /\ \E bytes \in StringSizes : TakeString(bytes)
  /\ SetArgs(Pushed(Args, Fresh))
  /\ UNCHANGED <<free, cells, table, naming, operand, macro, scope, dfreed>>

(* pushsymbol of a name that has a value, a string or an EQM body. *)
PushName(n) ==
  LET sym == cells[table[Key(n)]] IN
  /\ Reading /\ Found(n)
  /\ \/ sym.eqm /\ Len(calls) < DepthBound /\ Enter("name")
     \/ /\ ~sym.eqm /\ sym.owns /\ TakeString(sym.string.size)
        /\ SetArgs(Pushed(Args, Fresh)) /\ UNCHANGED <<free, cells>>
     \/ /\ ~sym.eqm /\ ~sym.owns
        /\ SetArgs(Pushed(Args, Value)) /\ UNCHANGED <<arena, free, cells>>
  /\ UNCHANGED <<table, naming, operand, macro, scope, dfreed>>

(* [..]d: the digits of the value on top as a string. *)
Convert ==
  /\ Reading /\ Args # <<>>
  /\ \E bytes \in StringSizes : TakeString(bytes)
  /\ SetArgs([Args EXCEPT ![Len(Args)] = Fresh])
  /\ UNCHANGED <<free, cells, table, naming, operand, macro, scope, dfreed>>

(* A binary operator: its result is a number. *)
Combine ==
  /\ Reading /\ Len(Args) >= 2
  /\ SetArgs(Append(SubSeq(Args, 1, Len(Args) - 2), Value))
  /\ UNCHANGED <<arena, free, cells, table, naming, operand, macro, scope, dfreed>>

(* The value on top becomes the last symbol of the list, with its string.  *)
LastCell == calls[1].list[Len(calls[1].list)]
Filled == IF Args = <<>> THEN cells
          ELSE [cells EXCEPT ![LastCell].string = Args[Len(Args)],
                             ![LastCell].owns = Args[Len(Args)] # NoString]
Popped == SubSeq(Args, 1, Len(Args) - 1)

Comma ==
  /\ Reading /\ Args # <<>> /\ Len(calls[1].list) < ListBound
  /\ AllocSymbol
  /\ calls' = [calls EXCEPT ![1].list = Append(@, NewCell), ![1].args = Popped]
  /\ cells' = Cleared(Filled, NewCell)
  /\ UNCHANGED <<table, naming, operand, macro, scope, dfreed>>

EndOfLine ==
  /\ Reading /\ calls[1].for = "line"
  /\ cells' = Filled /\ operand' = calls[1].list /\ calls' = <<>>
  /\ UNCHANGED <<arena, free, table, naming, macro, scope, dfreed>>

(* Back in pushsymbol: stackarg copies the string of the first symbol, and *)
(* only then the list is freed.                                            *)
CopyString(s) ==
  IF s = NoString
  THEN calls' = Tail([calls EXCEPT ![2].args = Pushed(@, Value)]) /\ UNCHANGED arena
  ELSE TakeString(s.size) /\ calls' = Tail([calls EXCEPT ![2].args = Pushed(@, Fresh)])
EndOfName ==
  /\ Reading /\ calls[1].for = "name"
  /\ CopyString(Filled[calls[1].list[1]].string)
  /\ FreeSymbolList(calls[1].list, Filled)
  /\ UNCHANGED <<table, naming, operand, macro, scope>>
EndOfDv ==
  /\ Reading /\ calls[1].for = "dv"
  /\ FreeSymbolList(calls[1].list, Filled) /\ calls' = Tail(calls)
  /\ UNCHANGED <<arena, table, naming, operand, macro, scope>>

-----------------------------------------------------------------------------
(* What the handlers do with the list.                                     *)
Holding == naming = <<>> /\ calls = <<>> /\ operand # <<>> /\ phase = "run"

(* v_ds, v_org, v_if, v_mnemonic and most others. *)
FreeOperandTwice ==   \* mutant: an early return frees the list and does not return
  /\ Holding /\ macro = NoName /\ FreeSymbolList(operand, cells)
  /\ UNCHANGED <<arena, operand, table, naming, calls, macro, scope>>
FreeOperand ==
  /\ Holding /\ macro = NoName /\ FreeSymbolList(operand, cells) /\ operand' = <<>>
  /\ UNCHANGED <<arena, table, naming, calls, macro, scope>>

(* v_dc calls free_symbol_list when its loop has made sym NULL; v_equ of . *)
(* and v_echo never call it.                                               *)
LoseOperand ==
  /\ Holding /\ operand' = <<>> /\ macro' = NoName
  /\ UNCHANGED <<arena, free, cells, table, naming, calls, scope, dfreed>>

(* v_set, v_equ: the string changes hands, then the list is freed. *)
TakeOverMarked(lab) ==   \* mutant: SYM_STRING of the operand is not cleared
  [cells EXCEPT ![lab].string = cells[operand[1]].string,
                ![lab].owns = cells[operand[1]].owns, ![lab].eqm = FALSE]
TakeOver(lab) ==
  [cells EXCEPT ![lab].string = cells[operand[1]].string,
                ![lab].owns = cells[operand[1]].owns, ![lab].eqm = FALSE,
                ![operand[1]].owns = FALSE]
Assign(n) ==
  /\ Holding /\ macro = NoName /\ Found(n)
  /\ FreeSymbolList(operand, TakeOver(table[Key(n)])) /\ operand' = <<>>
  /\ UNCHANGED <<arena, table, naming, calls, macro, scope>>

(* v_eqm on a line of its own: the old string is freed, the new one copied *)
Eqm(n) ==
  /\ BetweenLines /\ Found(n)
  /\ LET lab == table[Key(n)] IN
     /\ dfreed' = dfreed \cup {cells[d].string : d \in {e \in {lab} : cells[e].owns}}
     /\ \E bytes \in StringSizes : TakeString(bytes)
     /\ cells' = [cells EXCEPT ![lab] = [string |-> Fresh, owns |-> TRUE, eqm |-> TRUE]]
  /\ UNCHANGED <<free, table, naming, calls, operand, macro, scope>>

(* DV looks its EQM symbol up before it evaluates the operand, and runs    *)
(* the body for every value and character.                                 *)
DvLine(n) ==
  /\ BetweenLines /\ Found(n) /\ cells[table[Key(n)]].eqm /\ phase = "run"
  /\ macro' = Key(n)
  /\ UNCHANGED <<arena, free, cells, table, naming, calls, operand, scope, dfreed>>
DvValue ==
  /\ Holding /\ macro # NoName /\ Enter("dv")
  /\ UNCHANGED <<table, naming, operand, macro, scope, dfreed>>

(* Any allocation may be refused; a panic or the end of the last pass ends *)
(* the program between two lines.  exit does not come back to its callers. *)
Refused ==
  \/ \E bytes \in StringSizes : TakeTooLarge(bytes) \/ OutOfMemory(bytes)
  \/ free = <<>> /\ OutOfMemory(SymbolSize)
Stop ==
  /\ Refused \/ (BetweenLines /\ Exit) \/ FreeAll
  /\ naming' = <<>> /\ calls' = <<>> /\ operand' = <<>> /\ macro' = NoName
  /\ UNCHANGED <<free, cells, table, scope, dfreed>>

StoreNext ==
  \/ CreateSymbol \/ EnterSymbol \/ ChangeScope
  \/ BeginLine \/ PushValue \/ PushString \/ Convert \/ Combine \/ Comma
  \/ EndOfLine \/ EndOfName \/ EndOfDv
  \/ FreeOperand \/ LoseOperand \/ DvValue \/ Stop
  \/ \E n \in Globals \cup Locals : PushName(n) \/ Assign(n) \/ Eqm(n) \/ DvLine(n)
StoreSpec == StoreInit /\ [][StoreNext]_<<arena, store>>

-----------------------------------------------------------------------------
InTable == {table[k] : k \in DOMAIN table}
InLists == (UNION {CellsOf(calls[i].list) : i \in DOMAIN calls}) \cup CellsOf(operand)

(* A SYMBOL has one place: no cell is on the free list twice, or there and *)
(* in use, and no two names share one (symbols.c:288-324).                 *)
PoolSound ==
  /\ \A i, j \in DOMAIN free : i # j => free[i] # free[j]
  /\ CellsOf(free) \cap (InTable \cup InLists) = {}
  /\ InTable \cap InLists = {}
  /\ \A k, l \in DOMAIN table : k # l => table[k] # table[l]

(* What a symbol, an operand or the argument stack will still read or free *)
(* has not been freed, and only one of them will free it (dfree of         *)
(* symbols.c:309 and ops.c:1103).                                          *)
Owners == {c \in InTable \cup InLists : cells[c].owns}
Stacked ==
  (UNION {{calls[i].args[j] : j \in DOMAIN calls[i].args} : i \in DOMAIN calls}) \ {NoString}
StringsLive ==
  /\ \A c \in Owners : cells[c].string \notin dfreed \cup Stacked
  /\ Stacked \cap dfreed = {}
  /\ \A c, d \in Owners : c # d => cells[c].string # cells[d].string
  /\ macro # NoName => cells[table[macro]].eqm /\ cells[table[macro]].owns
=============================================================================
