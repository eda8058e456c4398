-------------------------------- MODULE Expr --------------------------------
(***************************************************************************)
(* The expression evaluator (src/exp.c): eval reads an operand token by    *)
(* token, keeps values and operators on two stacks, and returns a list of  *)
(* values with addressing modes.  A symbol defined by EQM is evaluated by  *)
(* a nested call of eval on the same stacks, above the bases Argibase and  *)
(* Opibase.                                                                *)
(*                                                                         *)
(* A token stands for the characters eval handles in one turn of its loop; *)
(* ",x", ",y" and "),y" are tokens because eval looks ahead for them; there *)
(* is a blank between two tokens.                                          *)
(* Strings ("..", 'c, [..]d) are left out.  Expressions are shorter than   *)
(* the stacks (MAXOPS 32, MAXARGS 64).                                     *)
(***************************************************************************)
EXTENDS Integers, Sequences

CONSTANTS
  Radix,       \* 256: what < and > cut at
  Width,       \* bits of a long that & ^ | look at
  Literals,    \* numbers: a function from tokens to values
  Symbols,     \* the symbol table before: a function from names to entries
  Names,       \* names that occur in operands, in the table or not
  Unaries,     \* operators that occur
  Binaries,
  Marks,       \* brackets, commas and mode marks that occur
  Callers,     \* wantmode of the calls: TRUE of instructions, FALSE of pseudo-ops
  MaxTokens,   \* bounds of an operand: tokens,
  MaxSlips     \* and tokens out of place

UnaryTokens == {"-", "~", "!", "<", ">"}
BinaryTokens == {"*", "/", "%", "+", "-", "<<", ">>", "<", "<=", ">", ">=", "==", "!=",
                 "&", "^", "|", "&&", "||", "?"}

ASSUME ExprAssumption ==
  /\ Radix \in Nat \ {0} /\ Width \in Nat \ {0}
  /\ Unaries \subseteq UnaryTokens /\ Binaries \subseteq BinaryTokens
  /\ Marks \subseteq {"(", ")", "[", "]", "#", ",", ",x", ",y", "),y"}
  /\ \A x \in DOMAIN Literals : Literals[x] \in Int
  /\ \A x \in DOMAIN Symbols :
       /\ DOMAIN Symbols[x] = {"n", "unk", "ref", "body"}
       /\ Symbols[x].n \in Int /\ {Symbols[x].unk, Symbols[x].ref} \subseteq BOOLEAN
  /\ Callers \subseteq BOOLEAN
  /\ MaxTokens \in Nat /\ MaxSlips \in Nat

VARIABLES
  table,   \* the symbol table: [n, unk, ref, body]; body is <<>> but for EQM
  e,       \* the evaluator: both stacks, their bases, Lastwasop, counters
  calls,   \* the active calls of eval, innermost first
  read,    \* history: tokens of the operand, without those of EQM bodies
  wanted,  \* history: the argument wantmode of the outermost call
  slips,
  operand  \* what the outermost eval returned; <<>> while it runs

exprvars == <<table, e, calls, read, wanted, slips, operand>>

-----------------------------------------------------------------------------
(* The operators.  Integers are longs of two's complement. *)
Quot(a, b) ==
  LET q == (IF a < 0 THEN -a ELSE a) \div (IF b < 0 THEN -b ELSE b)
  IN  IF (a < 0) = (b < 0) THEN q ELSE -q
Truth(p) == IF p THEN 1 ELSE 0
Power(n) ==   \* of two
  LET p[i \in 0..n] == IF i = 0 THEN 1 ELSE 2 * p[i - 1]
  IN  p[n]
Bit(a, i) == (a \div Power(i)) % 2
And == [x \in {0, 1} |-> [y \in {0, 1} |-> x * y]]
Xor == [x \in {0, 1} |-> [y \in {0, 1} |-> (x + y) % 2]]
Or == [x \in {0, 1} |-> [y \in {0, 1} |-> x + y - x * y]]
BitSums(f, a, b) ==
  LET sum[i \in 0..Width] ==
        IF i = 0 THEN 0 ELSE sum[i - 1] + Power(i - 1) * f[Bit(a, i - 1)][Bit(b, i - 1)]
  IN  sum
Bitwise2(f, a, b) == BitSums(f, a, b)[Width] - Power(Width) * f[Truth(a < 0)][Truth(b < 0)]

Apply1(op, a) ==
  CASE op = "-" -> -a
    [] op = "~" -> -a - 1
    [] op = "!" -> Truth(a = 0)
    [] op = "<" -> a % Radix
    [] op = ">" -> (a \div Radix) % Radix

Apply2(op, a, b) ==
  CASE op = "*" -> a * b
    [] op = "/" -> IF b = 0 THEN 0 ELSE Quot(a, b)
    [] op = "%" -> IF b = 0 THEN a ELSE a - b * Quot(a, b)
    [] op = "+" -> a + b
    [] op = "-" -> a - b
    [] op = "<<" -> IF b < 0 THEN 0 ELSE a * Power(b)
    [] op = ">>" -> IF b < 0 THEN 0 ELSE a \div Power(b)
    [] op = "<" -> Truth(a < b)
    [] op = "<=" -> Truth(a <= b)
    [] op = ">" -> Truth(a > b)
    [] op = ">=" -> Truth(a >= b)
    [] op = "==" -> Truth(a = b)
    [] op = "!=" -> Truth(a # b)
    [] op = "&" -> Bitwise2(And, a, b)
    [] op = "^" -> Bitwise2(Xor, a, b)
    [] op = "|" -> Bitwise2(Or, a, b)
    [] op = "&&" -> Truth(a # 0 /\ b # 0)
    [] op = "||" -> Truth(a # 0 \/ b # 0)
    [] op = "?" -> IF a # 0 THEN b ELSE 0

Known(n) == [n |-> n, unk |-> FALSE]
Unknown(n) == [n |-> n, unk |-> TRUE]
IsZero(v) == ~v.unk /\ v.n = 0
IsTrue(v) == ~v.unk /\ v.n # 0
Cautious == {"/", "%", "<<", ">>"}   \* operators that look at the flags first

(* The value and flags op_* stack for two arguments. *)
Result2Lazy(op, a, b) ==   \* mutant: || takes the right side for known
  CASE op = "||" /\ (IsTrue(a) \/ b.n # 0) -> Known(1)
    [] op \in {"&&", "?"} /\ IsZero(a) -> Known(0)
    [] OTHER -> [n |-> Apply2(op, a.n, b.n), unk |-> a.unk \/ b.unk]
Result2(op, a, b) ==
  CASE op \in Cautious /\ (a.unk \/ b.unk) -> Unknown(0)
    [] op = "?" /\ a.unk -> Unknown(0)
    [] op = "?" /\ a.n = 0 -> Known(0)
    [] op = "&&" /\ (IsZero(a) \/ IsZero(b)) -> Known(0)
    [] op = "&&" -> [n |-> 1, unk |-> a.unk \/ b.unk]
    [] op = "||" /\ (IsTrue(a) \/ IsTrue(b)) -> Known(1)
    [] op = "||" -> [n |-> 0, unk |-> a.unk \/ b.unk]
    [] OTHER -> [n |-> Apply2(op, a.n, b.n), unk |-> a.unk \/ b.unk]

Priority(op) ==
  CASE op \in {"*", "/", "%"} -> 20 [] op \in {"+", "-"} -> 19
    [] op \in {"<<", ">>"} -> 18    [] op \in {"<", "<=", ">", ">="} -> 17
    [] op \in {"==", "!="} -> 16    [] op = "&" -> 15 [] op = "^" -> 14
    [] op = "|" -> 13 [] op = "&&" -> 12 [] op = "||" -> 11 [] op = "?" -> 10
UNARY == 128
BRACKET == 0

-----------------------------------------------------------------------------
(* The stacks. *)
Cut(s, n) == SubSeq(s, 1, n)
Top(s) == s[Len(s)]
Pop(s) == Cut(s, Len(s) - 1)
TopPri(s) == Top(s.ops).pri
HasOp(s) == Len(s.ops) > s.opbase

(* stackarg: push, then apply the unary operators that were waiting.       *)
Push(s, v) == [s EXCEPT !.args = Append(@, v), !.lastwasop = FALSE]
Result1(s) == [Top(s.args) EXCEPT !.n = Apply1(Top(s.ops).op, @)]
Unstack(s) == [s EXCEPT !.ops = Pop(@), !.args = Append(Pop(@), Result1(s))]
Absorbed(s) == IF HasOp(s) /\ TopPri(s) = UNARY THEN Unstack(s) ELSE s
Absorptions(s) ==
  LET f[k \in 0..Len(s.ops)] == IF k = 0 THEN s ELSE Absorbed(f[k - 1])
  IN  f
Stackarg(s, v) == Absorptions(Push(s, v))[Len(s.ops)]

SyntaxError(s) == [s EXCEPT !.errors = @ + 1]

(* evaltop, for an operator other than a bracket *)
EvaltopBare(s) ==   \* mutant: the bases are not looked at
  LET op == Top(s.ops)
      s1 == [s EXCEPT !.ops = Pop(@)]
      n == Len(s.args)
      a == s.args[n - 1]
      b == s.args[n]
  IN  IF op.pri = UNARY
      THEN IF n < 1 THEN SyntaxError(s1) ELSE Unstack(s)
      ELSE IF n < 2 THEN SyntaxError([s1 EXCEPT !.args = <<>>])
      ELSE Stackarg([s1 EXCEPT !.args = Cut(@, n - 2)], Result2(op.op, a, b))
Evaltop(s) ==
  LET op == Top(s.ops)
      s1 == [s EXCEPT !.ops = Pop(@)]
      n == Len(s.args)
      a == s.args[n - 1]
      b == s.args[n]
      known == ~a.unk /\ ~b.unk
  IN  IF op.pri = UNARY
      THEN IF n < s.argbase + 1 THEN SyntaxError([s1 EXCEPT !.args = Cut(@, s.argbase)])
                                ELSE Stackarg([s1 EXCEPT !.args = Pop(@)], Result1(s))
      ELSE IF n < s.argbase + 2 THEN SyntaxError([s1 EXCEPT !.args = Cut(@, s.argbase)])
      ELSE Stackarg([s1 EXCEPT !.args = Cut(@, n - 2),
                               !.fatals = @ + Truth(op.op = "/" /\ known /\ b.n = 0),
                               !.undef = @ \/ (op.op \in {"<<", ">>"} /\ known /\ b.n < 0)],
                    Result2(op.op, a, b))

(* Evaluate what is on top, as long as its priority is at least p. *)
Reduced(s, p) == IF HasOp(s) /\ TopPri(s) >= p THEN Evaltop(s) ELSE s
Reductions(s, p) ==
  LET f[k \in 0..Len(s.ops)] == IF k = 0 THEN s ELSE Reduced(f[k - 1], p)
  IN  f
Reduce(s, p) == Reductions(s, p)[Len(s.ops)]
ReduceAll(s) == Reduce(s, 1)   \* no bracket is open where eval does this

(* doop: Lastwasop is set before the operators that wait are evaluated,    *)
(* and stackarg takes it back as soon as one of them is.                   *)
Shift(s, op, pri) == [s EXCEPT !.ops = Append(@, [op |-> op, pri |-> pri])]
AfterOp(s) == [s EXCEPT !.lastwasop = TRUE]
Doop(s, op, pri) ==
  Shift(IF pri = UNARY THEN AfterOp(s) ELSE Reduce(AfterOp(s), pri), op, pri)

-----------------------------------------------------------------------------
(* The calls of eval. *)
NewSymbol == [mode |-> "IMP", n |-> 0, unk |-> FALSE]   \* alloc_symbol
Frame(s, str, wantmode) ==
  [str |-> str, wantmode |-> wantmode, list |-> <<NewSymbol>>,
   oldargbase |-> s.argbase, oldopbase |-> s.opbase]
Entered(s) ==
  [s EXCEPT !.argbase = Len(s.args), !.opbase = Len(s.ops), !.lastwasop = TRUE]

Idle == [args |-> <<>>, ops |-> <<>>, argbase |-> 0, opbase |-> 0, lastwasop |-> FALSE,
         errors |-> 0, fatals |-> 0, evals |-> 0, undef |-> FALSE]

ExprInit ==
  /\ table = Symbols
  /\ e = Entered(Idle)
  /\ wanted \in Callers /\ calls = <<Frame(Idle, <<>>, wanted)>>
  /\ read = <<>> /\ slips = 0 /\ operand = <<>>

Nested == Len(calls) > 1
Cur == calls[1].list[Len(calls[1].list)]
WithCur(list, sym) == [list EXCEPT ![Len(list)] = sym]
SetMode(m) == [calls[1] EXCEPT !.list = WithCur(@, [Cur EXCEPT !.mode = m])]

OpenBracket == \E i \in (e.opbase + 1)..Len(e.ops) : e.ops[i].pri = BRACKET
IndexMarks == {",x", ",y", "),y"}

(* The inputs considered, the bodies of EQM symbols included: a comma      *)
(* follows a value, and brackets are closed at a comma and at the end.     *)
(* Behind a value ! and whatever character follows it are the token !=.    *)
(* (For a bracket evaltop calls what Opdis held last, and a comma without  *)
(* a value takes one of the call outside, or none.)                        *)
Punctuated(t) ==
  /\ t = "!" => e.lastwasop
  /\ t \in {",", ",x", ",y"} => ~OpenBracket
  /\ t = "," => Len(ReduceAll(e).args) > e.argbase

(* A mode mark stands where modes have one: # in front, a register at the  *)
(* end.                                                                    *)
Sensible(t) ==
  /\ t = "#" => read = <<>> /\ calls[1].wantmode
  /\ t = "),y" => calls[1].wantmode /\ Cur.mode = "INDWORD"
  /\ \A i \in DOMAIN read : read[i] \in IndexMarks =>
       t = ")" /\ i = Len(read) /\ calls[1].wantmode /\ Cur.mode = "INDBYTEX"

(* Tokens are values, unary or binary by their place.  Awaiting(ts)[k]:    *)
(* a value is due at place k.                                              *)
Opening == {"[", "("}
Closing == {"]", ")"}
Awaiting(ts) ==
  LET due[k \in 1..(Len(ts) + 1)] ==
        IF k = 1 THEN TRUE
        ELSE IF due[k - 1] THEN ts[k - 1] \in UnaryTokens \cup Opening \cup {"#"}
                           ELSE ts[k - 1] \notin Closing
  IN  due

(* A token out of place: an operator where a value is due, or the reverse. *)
Leading(t) == t \in DOMAIN Literals \cup Names \cup Opening \cup (UnaryTokens \ BinaryTokens)
Trailing(t) ==
  \/ t \in (BinaryTokens \ (UnaryTokens \cup {"*"})) \cup {"]", ","}
  \/ t = ")" /\ ~calls[1].wantmode
Slip(t) == IF Awaiting(read)[Len(read) + 1] THEN Trailing(t) ELSE Leading(t)

(* The next token is t. *)
Reads(t) ==
  /\ operand = <<>> /\ Punctuated(t)
  /\ IF Nested THEN calls[1].str # <<>> /\ Head(calls[1].str) = t
     ELSE Len(read) < MaxTokens /\ Sensible(t) /\ slips + Truth(Slip(t)) <= MaxSlips
Took(t, frame) ==
  /\ IF Nested THEN /\ calls' = [calls EXCEPT ![1] = [frame EXCEPT !.str = Tail(@)]]
                    /\ UNCHANGED <<read, slips>>
     ELSE /\ calls' = [calls EXCEPT ![1] = frame]
          /\ read' = Append(read, t) /\ slips' = slips + Truth(Slip(t))
  /\ UNCHANGED <<wanted, operand>>

-----------------------------------------------------------------------------
(* The switch of eval. *)
Literal == \E t \in DOMAIN Literals :
  /\ Reads(t) /\ Took(t, calls[1])
  /\ e' = Stackarg(e, Known(Literals[t]))
  /\ UNCHANGED table

(* pushsymbol of a name that is not in the table enters it as unknown; one *)
(* that is unknown counts, and is computed with all the same.              *)
SymbolName(t) == IF t = "*" THEN "." ELSE t
IsSymbol(t) == t \in Names \/ (t = "*" /\ e.lastwasop)

NewName == \E t \in Names \cup {"*"} :
  /\ IsSymbol(t) /\ Reads(t) /\ Took(t, calls[1])
  /\ SymbolName(t) \notin DOMAIN table
  /\ table' = [x \in DOMAIN table \cup {SymbolName(t)} |->
                 IF x \in DOMAIN table THEN table[x]
                 ELSE [n |-> 0, unk |-> TRUE, ref |-> TRUE, body |-> <<>>]]
  /\ e' = [Stackarg(e, Unknown(0)) EXCEPT !.evals = @ + 1]

OldName == \E t \in Names \cup {"*"} :
  /\ IsSymbol(t) /\ Reads(t) /\ Took(t, calls[1])
  /\ SymbolName(t) \in DOMAIN table
  /\ LET sym == table[SymbolName(t)]
     IN  /\ sym.body = <<>>
         /\ e' = [Stackarg(e, [n |-> sym.n, unk |-> sym.unk]) EXCEPT !.evals = @ + Truth(sym.unk)]
  /\ table' = [table EXCEPT ![SymbolName(t)].ref = TRUE]

(* A symbol defined by EQM: eval of its string, without modes.             *)
CallEqm == \E t \in Names :
  /\ Reads(t) /\ t \in DOMAIN table /\ table[t].body # <<>>
  /\ calls' = <<Frame(e, table[t].body, FALSE),
                IF Nested THEN [calls[1] EXCEPT !.str = Tail(@)] ELSE calls[1]>> \o Tail(calls)
  /\ e' = [Entered(e) EXCEPT !.evals = @ + Truth(table[t].unk)]
  /\ IF Nested THEN UNCHANGED <<read, slips>>
     ELSE read' = Append(read, t) /\ slips' = slips + Truth(Slip(t))
  /\ UNCHANGED <<table, wanted, operand>>

UnaryOp == \E t \in Unaries :
  /\ Reads(t) /\ Took(t, calls[1])
  /\ e.lastwasop
  /\ e' = Doop(e, t, UNARY)
  /\ UNCHANGED table

MisplacedTilde ==
  /\ "~" \in Unaries /\ Reads("~") /\ Took("~", calls[1])
  /\ ~e.lastwasop
  /\ e' = SyntaxError(e)
  /\ UNCHANGED table

(* Characters that mean something else in front of a value are binary only *)
(* behind one; the others always are.                                      *)
TwoFaced == UnaryTokens \cup {"*", "%", "!=", "<<", ">>", "<=", ">="}
BinaryOp == \E t \in Binaries :
  /\ Reads(t) /\ Took(t, calls[1])
  /\ t \in TwoFaced => ~e.lastwasop
  /\ e' = Doop(e, t, Priority(t))
  /\ UNCHANGED table

Grouping(t) == t \in {"[", "]"} \/ ~calls[1].wantmode

Open == \E t \in {"[", "("} \cap Marks :
  /\ Reads(t) /\ Took(t, calls[1]) /\ Grouping(t)
  /\ e' = [e EXCEPT !.ops = Append(@, [op |-> t, pri |-> BRACKET])]
  /\ UNCHANGED table

(* One that opens nothing is not noticed. *)
Close == \E t \in {"]", ")"} \cap Marks :
  /\ Reads(t) /\ Took(t, calls[1]) /\ Grouping(t)
  /\ LET s == Reduce(e, 1)
     IN  e' = IF HasOp(s) THEN [s EXCEPT !.ops = Pop(@)] ELSE s
  /\ UNCHANGED table

(* Addressing modes. *)
Indirect == /\ "(" \in Marks /\ Reads("(") /\ Took("(", SetMode("INDWORD"))
            /\ calls[1].wantmode
            /\ UNCHANGED <<table, e>>
EndIndirect == /\ ")" \in Marks /\ Reads(")") /\ Took(")", calls[1])
               /\ calls[1].wantmode
               /\ UNCHANGED <<table, e>>
EndIndirectY == /\ "),y" \in Marks /\ Reads("),y") /\ Took("),y", SetMode("INDBYTEY"))
                /\ calls[1].wantmode /\ Cur.mode = "INDWORD"
                /\ UNCHANGED <<table, e>>
Immediate == /\ "#" \in Marks /\ Reads("#")
             /\ Took("#", [SetMode("IMM8") EXCEPT !.wantmode = FALSE])
             /\ UNCHANGED <<table, e>>

AfterComma(s) == [ReduceAll(s) EXCEPT !.lastwasop = TRUE]
Index == \E t \in {",x", ",y"} \cap Marks :
  /\ Reads(t)
  /\ Took(t, SetMode(CASE t = ",x" /\ Cur.mode = "INDWORD" -> "INDBYTEX"
                       [] t = ",x" /\ Cur.mode # "INDWORD" -> "0X"
                       [] t = ",y" -> "0Y"))
  /\ e' = AfterComma(e)
  /\ UNCHANGED table

(* What is left below the value of an item stays on the stack.             *)
Comma ==
  /\ "," \in Marks /\ Reads(",")
  /\ LET s == AfterComma(e)
         v == Top(s.args)
         item == [Cur EXCEPT !.n = v.n, !.unk = v.unk]
     IN  /\ Took(",", [calls[1] EXCEPT !.list = Append(WithCur(@, item), NewSymbol)])
         /\ e' = [s EXCEPT !.args = Pop(@),
                           !.errors = @ + Truth(Len(s.args) - 1 > s.argbase)]
  /\ UNCHANGED table

-----------------------------------------------------------------------------
(* The end of a call.  A value that is there is taken; what remains is a   *)
(* syntax error, and both stacks go back to where the call began.          *)
LeaveStack(s, frame) ==   \* mutant: values that remain stay on the stack
  [s EXCEPT !.args = IF Len(@) > s.argbase THEN Pop(@) ELSE @,
            !.argbase = frame.oldargbase, !.opbase = frame.oldopbase,
            !.errors = @ + Truth(Len(s.args) > s.argbase + 1)]
Leave(s, frame) ==
  [s EXCEPT !.args = Cut(@, s.argbase), !.ops = Cut(@, s.opbase),
            !.argbase = frame.oldargbase, !.opbase = frame.oldopbase,
            !.errors = @ + Truth(Len(s.args) > s.argbase + 1)]

Returned(s) ==
  LET list == calls[1].list
      v == Top(s.args)
      cur == [list EXCEPT ![Len(list)] = [@ EXCEPT !.n = v.n, !.unk = v.unk]]
  IN  IF Len(s.args) = s.argbase THEN list
      ELSE IF cur[1].mode = "IMP" THEN [cur EXCEPT ![1].mode = "BYTEADR"] ELSE cur

ReturnEqm ==
  /\ operand = <<>> /\ Nested /\ calls[1].str = <<>> /\ ~OpenBracket
  /\ LET s == ReduceAll(e)
         base == Head(Returned(s))
     IN  e' = Stackarg(Leave(s, calls[1]), [n |-> base.n, unk |-> base.unk])
  /\ calls' = Tail(calls)
  /\ UNCHANGED <<table, read, wanted, slips, operand>>

Return ==
  /\ operand = <<>> /\ ~Nested /\ ~OpenBracket
  /\ LET s == ReduceAll(e)
     IN  operand' = Returned(s) /\ e' = Leave(s, calls[1])
  /\ calls' = <<>>
  /\ UNCHANGED <<table, read, wanted, slips>>

ExprNext ==
  \/ Literal \/ NewName \/ OldName \/ CallEqm \/ UnaryOp \/ MisplacedTilde \/ BinaryOp
  \/ Open \/ Close \/ Indirect \/ EndIndirect \/ EndIndirectY \/ Immediate \/ Index \/ Comma
  \/ ReturnEqm \/ Return

ExprSpec == ExprInit /\ [][ExprNext]_exprvars

-----------------------------------------------------------------------------
(* Properties of the stacks.  Those of the values are in ExprMeaning.      *)
AddressModes == {"IMP", "IMM8", "BYTEADR", "INDBYTEX", "INDBYTEY", "INDWORD", "0X", "0Y"}
Operators == UnaryTokens \cup BinaryTokens \cup {"[", "("}
Item == [mode : AddressModes, n : Int, unk : BOOLEAN]

(* Type invariant: each call owns what lies above its bases.               *)
ExprTypeOK ==
  /\ DOMAIN Symbols \subseteq DOMAIN table
  /\ \A x \in DOMAIN table : table[x].unk \in BOOLEAN /\ table[x].ref \in BOOLEAN /\ table[x].n \in Int
  /\ e.args \in Seq([n : Int, unk : BOOLEAN])
  /\ e.ops \in Seq([op : Operators, pri : {UNARY, BRACKET} \cup 10..20])
  /\ e.argbase \in 0..Len(e.args) /\ e.opbase \in 0..Len(e.ops)
  /\ e.lastwasop \in BOOLEAN /\ e.undef \in BOOLEAN
  /\ e.errors \in Nat /\ e.fatals \in Nat /\ e.evals \in Nat
  /\ \A i \in DOMAIN calls : calls[i].list \in Seq(Item) /\ calls[i].list # <<>>
  /\ operand \in Seq(Item) /\ slips \in 0..MaxSlips /\ wanted \in BOOLEAN

(* However broken an operand is, eval leaves both stacks as it found them: *)
(* the next operand starts from nothing.                                   *)
StacksRestored ==
  operand # <<>> => /\ e.args = <<>> /\ e.ops = <<>>
                    /\ e.argbase = 0 /\ e.opbase = 0

(* The string of an EQM symbol is evaluated by itself: no step of it, well *)
(* formed or not, touches what the calls around it have on the stacks, and *)
(* it hands them one value.                                                *)
NestedKeepsOuter ==
  [][Nested =>
       /\ Cut(e'.args, e.argbase) = Cut(e.args, e.argbase)
       /\ Len(calls') >= Len(calls) => Cut(e'.ops, e.opbase) = Cut(e.ops, e.opbase)
       /\ Len(calls') < Len(calls) => Len(e'.args) = e.argbase + 1]_exprvars
=============================================================================
