---------------------------- MODULE ExprMeaning -----------------------------
(***************************************************************************)
(* What an expression means, by the grammar and the table of operators in  *)
(* doc/dasm.txt, and the properties of module Expr that compare eval with  *)
(* it.  val gives every name of the symbol table a value.                  *)
(***************************************************************************)
EXTENDS Expr

CONSTANT Guesses   \* values an unknown symbol may turn out to have

Value(t) == t \in DOMAIN Literals \cup Names \cup {"*"}

Depth(ts, k) ==
  LET d[i \in 0..k] == IF i = 0 THEN 0
                       ELSE d[i - 1] + Truth(ts[i] \in Opening) - Truth(ts[i] \in Closing)
  IN  d[k]

WellFormed(ts) ==
  LET due == Awaiting(ts) IN
  /\ \A k \in DOMAIN ts :
       IF due[k] THEN Value(ts[k]) \/ ts[k] \in UnaryTokens \cup Opening
                 ELSE ts[k] \in BinaryTokens \cup Closing
  /\ ~due[Len(ts) + 1]
  /\ \A k \in DOMAIN ts : Depth(ts, k) >= 0
  /\ Depth(ts, Len(ts)) = 0

(* dasm.txt, "EXPRESSIONS": the higher the tighter *)
Precedence(op) ==
  CASE op \in {"*", "/", "%"} -> 19 [] op \in {"+", "-"} -> 18 [] op \in {"<<", ">>"} -> 17
    [] op \in {"<", "<=", ">", ">="} -> 16 [] op \in {"==", "!="} -> 15
    [] op = "&" -> 14 [] op = "^" -> 13 [] op = "|" -> 12
    [] op = "&&" -> 11 [] op = "||" -> 10 [] op = "?" -> 9

RECURSIVE Meaning(_, _)
Meaning(ts, val) ==
  LET due == Awaiting(ts)
      outer == {k \in DOMAIN ts : ~due[k] /\ Depth(ts, k) = 0 /\ ts[k] \notin Closing}
      main == CHOOSE k \in outer : \A j \in outer :
                \/ Precedence(ts[k]) < Precedence(ts[j])
                \/ Precedence(ts[k]) = Precedence(ts[j]) /\ j <= k
      first == ts[1]
  IN  IF outer # {}
      THEN Apply2(ts[main], Meaning(SubSeq(ts, 1, main - 1), val),
                            Meaning(SubSeq(ts, main + 1, Len(ts)), val))
      ELSE IF Len(ts) = 1
      THEN IF first \in DOMAIN Literals THEN Literals[first]
           ELSE IF SymbolName(first) \in DOMAIN table /\ table[SymbolName(first)].body # <<>>
           THEN Meaning(table[SymbolName(first)].body, val)
           ELSE val[SymbolName(first)]
      ELSE IF first \in UnaryTokens THEN Apply1(first, Meaning(Tail(ts), val))
      ELSE Meaning(SubSeq(ts, 2, Len(ts) - 1), val)

(* The items of the operand that was read.  In front of an instruction's   *)
(* operand parentheses are marks of the mode, behind # they group.         *)
IsMark(t, modes) == t \in {"#", ",x", ",y", "),y"} \/ (modes /\ t \in {"(", ")"})
Items(modes) ==
  LET f[k \in 0..Len(read)] ==
        IF k = 0 THEN << <<>> >>
        ELSE IF IsMark(read[k], modes) THEN f[k - 1]
        ELSE IF read[k] = "," THEN Append(f[k - 1], <<>>)
        ELSE [f[k - 1] EXCEPT ![Len(f[k - 1])] = Append(@, read[k])]
  IN  f[Len(read)]

Finished == operand # <<>> /\ e.fatals = 0 /\ ~e.undef
Sections == Items(wanted /\ "#" \notin {read[k] : k \in DOMAIN read})
UnknownNames == {x \in DOMAIN table : table[x].unk}
Valuations ==
  {[x \in DOMAIN table |-> IF x \in UnknownNames THEN g[x] ELSE table[x].n] :
     g \in [UnknownNames -> Guesses]}
NamesIn(ts) == {SymbolName(ts[k]) : k \in DOMAIN ts} \cap DOMAIN table
Used(ts) == NamesIn(ts) \cup UNION {NamesIn(table[x].body) : x \in NamesIn(ts)}
Grammatical ==
  /\ \A k \in DOMAIN Sections :
       /\ WellFormed(Sections[k])
       /\ \A x \in Used(Sections[k]) : table[x].body # <<>> => WellFormed(table[x].body)

(* The operator at place k finds one waiting that binds at least as        *)
(* tightly: the one before it in its group, or a unary one in front of the *)
(* brackets that end here.  doop evaluates that one first.                 *)
Group(ts, k) == {j \in 1..(k - 1) : \A i \in j..k : Depth(ts, i) >= Depth(ts, k)}
Level(ts, k) == {j \in Group(ts, k) : Depth(ts, j) = Depth(ts, k) /\ ts[j] \notin Closing}
Infix(ts, k) == ~Awaiting(ts)[k] /\ ts[k] \notin Closing
Evaluates(ts, k) ==
  /\ Infix(ts, k)
  /\ \E j \in Level(ts, k) :
       /\ \A i \in Level(ts, k) : i > j => ~Infix(ts, i)
       /\ IF Infix(ts, j) THEN Precedence(ts[j]) >= Precedence(ts[k])
          ELSE ts[j] \in UnaryTokens /\ ts[k - 1] \in Closing

(* Behind such an operator, and behind a bracket there, eval takes -, !,   *)
(* <, > and * for operators between two values, and ~ for an error.        *)
Misread(ts) ==
  \E j, k \in DOMAIN ts :
    /\ j < k /\ Evaluates(ts, j) /\ \A i \in (j + 1)..(k - 1) : ts[i] \in Opening
    /\ ts[k] \in UnaryTokens \cup {"*"}
Misreads ==
  \E k \in DOMAIN Sections :
    \/ Misread(Sections[k])
    \/ \E x \in Used(Sections[k]) : Misread(table[x].body)

(* What the grammar allows is accepted, item by item, unless eval misreads *)
(* a unary operator or a "*" in it; and of what is accepted, a value that  *)
(* is said to be known is the value the expression has whatever the        *)
(* unknown symbols turn out to be, and nothing is unknown without an       *)
(* unknown symbol that was counted in Redo_eval, which the loop detector   *)
(* compares from pass to pass.  (dasm.txt: "Some operators, such as ||,    *)
(* can return a resolved value even if one of the expressions is not       *)
(* resolved.")                                                             *)
KnownMeansFinal ==
  Finished /\ Grammatical =>
    /\ ~Misreads => e.errors = 0
    /\ e.errors = 0 =>
         /\ Len(operand) = Len(Sections)
         /\ \A k \in DOMAIN operand :
              /\ ~operand[k].unk => \A val \in Valuations : operand[k].n = Meaning(Sections[k], val)
              /\ operand[k].unk => Used(Sections[k]) \cap UnknownNames # {} /\ e.evals > 0

(* "20  -exp  negation" (doc/dasm.txt:669), and the precedence of operators *)
(* "is the same as for the C language in almost all respects": whatever    *)
(* the grammar allows is accepted.  Refuted by 3-3--3.                     *)
GrammaticalIsAccepted == Finished /\ Grammatical => e.errors = 0
=============================================================================
