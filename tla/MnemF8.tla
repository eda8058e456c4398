------------------------------- MODULE MnemF8 -------------------------------
(***************************************************************************)
(* The instructions of the Fairchild F8 (src/mnef8.c), which parse their   *)
(* operands themselves.  One line is followed through the passes of an     *)
(* assembly: the symbol u it may use gets a value in some pass, the origin *)
(* moves, and in a pass without an unresolved value the bytes of the line  *)
(* are written.  An operand is a record: word is the name of a register,   *)
(* "expr", "bad" (an expression eval gives a mode other than an address)   *)
(* or Empty; sym and n give the value.                                     *)
(***************************************************************************)
EXTENDS Integers, Sequences, FiniteSets

CONSTANTS
  Lines,      \* lines of source: [mne, ops], ops are the pieces between commas
  Values,     \* values u may get
  Segs,       \* origins: [org, unk, rorg, rn, runk]
  Garbage,    \* what an uninitialised byte may hold
  ULong,      \* the number of values of an unsigned long
  MaxPasses
None == "none"
Empty == ""   \* nothing between the commas

VARIABLES
  pass,    \* the current pass
  line,    \* the line
  table,   \* the symbols u and self, the label of the line
  seg,     \* Csegment when the line is reached
  fresh,   \* Fisclear: nothing was written yet in this pass
  redo,    \* Redo
  insn,    \* what the line did in this pass
  lengths  \* history: how many bytes it was in the passes without an error
vars == <<pass, line, table, seg, fresh, redo, insn, lengths>>

(* enum REGISTERS: numbers below 16 are scratchpad registers.              *)
REG == [A |-> 16, DC0 |-> 17, H |-> 18, IS |-> 19, K |-> 20, KU |-> 21, KL |-> 22, PC0 |-> 23,
        PC1 |-> 24, Q |-> 25, QU |-> 26, QL |-> 27, W |-> 28, NONE |-> 29]
ParseSpecialRegister(word) ==
  CASE word = "a" -> REG.A [] word \in {"dc0", "dc"} -> REG.DC0 [] word = "h" -> REG.H
    [] word = "is" -> REG.IS [] word = "k" -> REG.K [] word = "ku" -> REG.KU
    [] word = "kl" -> REG.KL [] word \in {"pc0", "p0"} -> REG.PC0
    [] word \in {"pc1", "p"} -> REG.PC1 [] word = "q" -> REG.Q [] word = "qu" -> REG.QU
    [] word = "ql" -> REG.QL [] word = "w" -> REG.W [] OTHER -> REG.NONE
ScratchNames == {"j", "hu", "hl", "s", "(is)", "i", "(is)+", "d", "(is)-"}
ScratchNumber(word) ==
  CASE word = "j" -> 9 [] word = "hu" -> 10 [] word = "hl" -> 11 [] word \in {"s", "(is)"} -> 12
    [] word \in {"i", "(is)+"} -> 13 [] word \in {"d", "(is)-"} -> 14

(* The table of the processor: handler, name, base opcode.                 *)
Row(handler, name, opcode) == [handler |-> handler, name |-> name, opcode |-> opcode]
Rows(handler, codes) == {Row(handler, c[1], c[2]) : c \in codes}
MneF8 == UNION {
  Rows("mnemonic", {<<"adc", 142>>, <<"am", 136>>, <<"amd", 137>>, <<"clr", 112>>, <<"cm", 141>>,
    <<"com", 24>>, <<"di", 26>>, <<"ei", 27>>, <<"inc", 31>>, <<"lm", 22>>, <<"lnk", 25>>,
    <<"nm", 138>>, <<"nop", 43>>, <<"om", 139>>, <<"pk", 12>>, <<"pop", 28>>, <<"st", 23>>,
    <<"xdc", 44>>, <<"xm", 140>>}),
  Rows("byteop", {<<"ai", 36>>, <<"ci", 37>>, <<"in", 38>>, <<"li", 32>>, <<"ni", 33>>,
    <<"oi", 34>>, <<"out", 39>>, <<"xi", 35>>}),
  Rows("wordop", {<<"dci", 42>>, <<"jmp", 41>>, <<"pi", 40>>}),
  Rows("sreg", {<<"as", 192>>, <<"asd", 208>>, <<"ds", 48>>, <<"ns", 240>>, <<"xs", 224>>}),
  Rows("branch", {<<"bc", 130>>, <<"bm", 145>>, <<"bnc", 146>>, <<"bno", 152>>, <<"bnz", 148>>,
    <<"bp", 129>>, <<"br", 144>>, <<"br7", 143>>, <<"bz", 132>>}),
  Rows("bf_bt", {<<"bf", 144>>, <<"bt", 128>>}), Rows("sl_sr", {<<"sl", 19>>, <<"sr", 18>>}),
  Rows("ins_outs", {<<"ins", 160>>, <<"outs", 176>>}), Rows("lis", {<<"lis", 112>>}),
  Rows("lisu_lisl", {<<"lisl", 104>>, <<"lisu", 96>>}), Rows("lr", {<<"lr", 0>>})}

Truth(b) == IF b THEN 1 ELSE 0

(* The values of a long; as an unsigned long n is n % ULong.               *)
Long == (0 - ULong \div 2)..(ULong \div 2 - 1)

(* a | b of two bytes: the bits of either.                                 *)
Bits == {1, 2, 4, 8, 16, 32, 64, 128}
Has(n, bit) == (n \div bit) % 2 = 1
Or(a, b) == CHOOSE c \in 0..255 : \A bit \in Bits : Has(c, bit) <=> Has(a, bit) \/ Has(b, bit)

(* The sources, and the places lines can be at.                            *)
Operand == [word : STRING, sym : {None, "u", "self"}, n : Long]
Place == [org : Nat \cap Long, unk : BOOLEAN, rorg : BOOLEAN, rn : Nat \cap Long, runk : BOOLEAN]
ASSUME F8Assumption ==
  /\ Lines \subseteq [mne : MneF8, ops : Seq(Operand)]
  /\ \A l \in Lines :
       /\ l.mne.handler = "mnemonic" => l.ops = <<>>
       /\ \A i \in DOMAIN l.ops : l.ops[i].sym # None => l.ops[i].word = "expr"
  /\ Values \subseteq Long /\ Segs \subseteq Place /\ Garbage \subseteq 0..255
  /\ ULong \in Nat /\ ULong % 2 = 0 /\ ULong \div 2 >= 256 * 256
  /\ MaxPasses \in Int

-----------------------------------------------------------------------------
(* What a handler does, from the symbols t it evaluates in and the place g *)
(* it assembles at: bytes, errors, counts of Redo, whether programlabel    *)
(* was called, whether an assertion stopped the program.                   *)
Outcome == [code |-> <<>>, errors |-> 0, redos |-> 0, label |-> FALSE, abort |-> FALSE]
Labelled == [Outcome EXCEPT !.label = TRUE]
Emit(o, code) == [o EXCEPT !.code = code]
Error(o) == [o EXCEPT !.errors = @ + 1]
Unresolved(o, p) == [o EXCEPT !.redos = @ + Truth(p.unk), !.errors = @ + p.error]
Ranged(o, value, max) == [o EXCEPT !.errors = @ + Truth(value > max)]

IsPCKnown(g) == ~(IF g.rorg THEN g.runk ELSE g.unk)
GetPC(g) == IF g.rorg THEN g.rn ELSE g.org
(* programlabel: the label of the line gets the program counter.           *)
Programlabel(t, g) == [t EXCEPT !.self = [n |-> GetPC(g), unk |-> ~IsPCKnown(g)]]

ParseValueQuiet(ops, t) ==   \* mutant: unresolved, and nobody is told
  CASE Len(ops) # 1 \/ ops[1].word \in {Empty, "bad"} -> [value |-> 0, unk |-> FALSE, error |-> 1]
    [] Len(ops) = 1 /\ ops[1].word = "expr" /\ ops[1].sym = None ->
         [value |-> ops[1].n % ULong, unk |-> FALSE, error |-> 0]
    [] Len(ops) = 1 /\ ops[1].word = "expr" /\ ops[1].sym # None ->
         [value |-> t[ops[1].sym].n % ULong, unk |-> FALSE, error |-> 0]
    [] OTHER -> [value |-> 0, unk |-> TRUE, error |-> 0]
ParseValue(ops, t) ==
  CASE Len(ops) # 1 \/ ops[1].word \in {Empty, "bad"} -> [value |-> 0, unk |-> FALSE, error |-> 1]
    [] Len(ops) = 1 /\ ops[1].word = "expr" /\ ops[1].sym = None ->
         [value |-> ops[1].n % ULong, unk |-> FALSE, error |-> 0]
    [] Len(ops) = 1 /\ ops[1].word = "expr" /\ ops[1].sym # None /\ ~t[ops[1].sym].unk ->
         [value |-> t[ops[1].sym].n % ULong, unk |-> FALSE, error |-> 0]
    [] OTHER -> [value |-> 0, unk |-> TRUE, error |-> 0]   \* the name of a register is no symbol

(* *reg is one byte, and is not written when the operand is unresolved.    *)
ParseScratchpadRegister(ops, t, garbage) ==
  LET word == IF Len(ops) = 1 THEN ops[1].word ELSE Empty
      p == ParseValue(ops, t)
  IN  IF word \in ScratchNames
      THEN [reg |-> ScratchNumber(word), unk |-> FALSE, error |-> 0]
      ELSE [reg |-> IF p.unk THEN garbage ELSE p.value % 256, unk |-> p.unk,
            error |-> p.error + Truth(p.value > 14)]

(* find_commas and extract_operands: exactly one comma, and something in   *)
(* front of it, which is an assertion.                                     *)
OneComma(ops) == Len(ops) = 2
CommaFirst(ops) == ops[1].word = Empty
Abort(o) == [o EXCEPT !.abort = TRUE]

-----------------------------------------------------------------------------
(* The handlers: ops as the operand field holds them, mne the table row.   *)
Field(ops, t, base, max) ==   \* base | (value & max); max is 7 or 15, a mask of low bits
  LET p == ParseValue(ops, t)
  IN  Emit(Ranged(Unresolved(Labelled, p), p.value, max), <<Or(base, p.value % (max + 1))>>)
VInsOuts(ops, mne, t) == Field(ops, t, mne.opcode, 15)
VLis(ops, t) == Field(ops, t, 112, 15)
VLisuLisl(ops, mne, t) == Field(ops, t, mne.opcode, 7)

VSlSrNext(ops, mne, t) ==   \* mutant: the next opcode
  LET p == ParseValue(ops, t)
      o == Unresolved(Labelled, p)
  IN  CASE p.unk -> Emit(o, <<0>>)
        [] ~p.unk /\ p.value = 1 -> Emit(o, <<mne.opcode>>)
        [] ~p.unk /\ p.value = 4 -> Emit(o, <<mne.opcode + 1>>)
        [] OTHER -> Emit(Error(o), <<0>>)
VSlSr(ops, mne, t) ==
  LET p == ParseValue(ops, t)
      o == Unresolved(Labelled, p)
  IN  CASE p.unk -> Emit(o, <<0>>)
        [] ~p.unk /\ p.value = 1 -> Emit(o, <<mne.opcode>>)
        [] ~p.unk /\ p.value = 4 -> Emit(o, <<mne.opcode + 2>>)
        [] OTHER -> Emit(Error(o), <<0>>)

(* The register is used whether it was written or not.                     *)
VSregOp(ops, mne, t, garbage) ==
  LET p == ParseScratchpadRegister(ops, t, garbage)
  IN  Emit(Unresolved(Labelled, p), <<Or(mne.opcode, p.reg)>>)

(* The pairs of registers lr moves between: destination, source, opcode.   *)
LrPairs == {
  <<REG.A, REG.IS, 10>>, <<REG.A, REG.KL, 1>>, <<REG.A, REG.KU, 0>>, <<REG.A, REG.QL, 3>>,
  <<REG.A, REG.QU, 2>>, <<REG.DC0, REG.H, 16>>, <<REG.DC0, REG.Q, 15>>, <<REG.H, REG.DC0, 17>>,
  <<REG.IS, REG.A, 11>>, <<REG.K, REG.PC1, 8>>, <<REG.KL, REG.A, 5>>, <<REG.KU, REG.A, 4>>,
  <<REG.PC0, REG.Q, 13>>, <<REG.PC1, REG.K, 9>>, <<REG.Q, REG.DC0, 14>>, <<REG.QL, REG.A, 7>>,
  <<REG.QU, REG.A, 6>>, <<REG.W, 9, 29>>, <<9, REG.W, 30>>}
LrCodes(dst, src) ==
  {pair[3] : pair \in {q \in LrPairs : q[1] = dst /\ q[2] = src}}
  \cup {64 + r : r \in {s \in 0..14 : dst = REG.A /\ src = s}}
  \cup {80 + r : r \in {d \in 0..14 : dst = d /\ src = REG.A}}

LrOperand(op, t, garbage) ==
  LET special == ParseSpecialRegister(op.word)
  IN  IF special # REG.NONE THEN [reg |-> special, unk |-> FALSE, error |-> 0]
      ELSE ParseScratchpadRegister(<<op>>, t, garbage)
LrMove(o, dst, src) ==
  CASE LrCodes(dst, src) # {} -> Emit(o, <<CHOOSE c \in LrCodes(dst, src) : TRUE>>)
    [] LrCodes(dst, src) = {} /\ dst = REG.DC0 -> Abort(o)   \* assert(false)
    [] OTHER -> Error(o)
VLr(ops, t, garbage) ==
  IF ~OneComma(ops) THEN Error(Labelled)
  ELSE IF CommaFirst(ops) THEN Abort(Labelled)
  ELSE LET dst == LrOperand(ops[1], t, garbage)
           src == LrOperand(ops[2], t, garbage)
           o1 == Unresolved(Labelled, dst)
           o2 == Unresolved(o1, src)
       IN  CASE dst.unk -> Emit(o1, <<0>>)
             [] ~dst.unk /\ src.unk -> Emit(o2, <<0>>)
             [] OTHER -> LrMove(o2, dst.reg, src.reg)

(* generate_branch: the label is set before the target is evaluated, and   *)
(* the displacement counts from the second byte.                           *)
GenerateBranchNext(o, opcode, ops, t, g) ==   \* mutant: from the byte behind
  LET p == ParseValue(ops, Programlabel(t, g))
      o1 == Unresolved([o EXCEPT !.label = TRUE], p)
      n == IF p.value >= ULong \div 2 THEN p.value - ULong ELSE p.value
      disp == IF IsPCKnown(g) THEN n - GetPC(g) - 2 ELSE 0
  IN  IF p.unk THEN Emit(o1, <<0, 0>>)
      ELSE Emit([o1 EXCEPT !.errors = @ + Truth(disp > 127 \/ disp < -128)], <<opcode, disp % 256>>)
GenerateBranch(o, opcode, ops, t, g) ==
  LET p == ParseValue(ops, Programlabel(t, g))
      o1 == Unresolved([o EXCEPT !.label = TRUE], p)
      n == IF p.value >= ULong \div 2 THEN p.value - ULong ELSE p.value
      disp == IF IsPCKnown(g) THEN n - GetPC(g) - 1 ELSE 0
  IN  IF p.unk THEN Emit(o1, <<0, 0>>)
      ELSE Emit([o1 EXCEPT !.errors = @ + Truth(disp > 127 \/ disp < -128)], <<opcode, disp % 256>>)

(* Only the branch sets the label: not before the mask is known.           *)
VBfBtShort(ops, mne, t, g) ==   \* mutant: one byte is reserved
  IF ~OneComma(ops) THEN Error(Outcome)
  ELSE IF CommaFirst(ops) THEN Abort(Outcome)
  ELSE LET p == ParseValue(<<ops[1]>>, t)
           max == IF mne.name = "bf" THEN 15 ELSE 7
           o == Ranged(Unresolved(Outcome, p), p.value, max)
       IN  IF p.unk THEN Emit(o, <<0>>)
           ELSE GenerateBranch(o, Or(mne.opcode, p.value % (max + 1)), <<ops[2]>>, t, g)
VBfBt(ops, mne, t, g) ==
  IF ~OneComma(ops) THEN Error(Outcome)
  ELSE IF CommaFirst(ops) THEN Abort(Outcome)
  ELSE LET p == ParseValue(<<ops[1]>>, t)
           max == IF mne.name = "bf" THEN 15 ELSE 7
           o == Ranged(Unresolved(Outcome, p), p.value, max)
       IN  IF p.unk THEN Emit(o, <<0, 0>>)
           ELSE GenerateBranch(o, Or(mne.opcode, p.value % (max + 1)), <<ops[2]>>, t, g)

VWordop(ops, mne, t) ==
  LET p == ParseValue(ops, t)
  IN  Emit(Ranged(Unresolved(Labelled, p), p.value, 256 * 256 - 1),
           <<mne.opcode, (p.value \div 256) % 256, p.value % 256>>)
VByteop(ops, mne, t) ==
  LET p == ParseValue(ops, t)
  IN  Emit(Ranged(Unresolved(Labelled, p), p.value, 255), <<mne.opcode, p.value % 256>>)
(* v_mnemonic with a row that has no operands.                             *)
VImplied(mne) == Emit(Labelled, <<mne.opcode>>)

-----------------------------------------------------------------------------
Idle == [done |-> FALSE]
Init ==
  /\ pass = 1 /\ insn = Idle /\ lengths = {}
  /\ line \in Lines
  /\ table = [u |-> [n |-> 0, unk |-> TRUE], self |-> [n |-> 0, unk |-> TRUE]]
  /\ seg \in Segs /\ fresh \in BOOLEAN
  /\ redo \in {0, 1}   \* what the lines before this one asked for

(* generate writes unless the pass failed, or nothing was written yet and  *)
(* the origin is unknown.                                                  *)
Written(o, g) == o.code # <<>> /\ redo + o.redos = 0 /\ ~(fresh /\ g.unk)
Finish(o) ==
  /\ insn' = [done |-> TRUE, code |-> o.code, errors |-> o.errors, abort |-> o.abort,
              written |-> Written(o, seg)]
  /\ redo' = redo + o.redos
             + Truth(o.code # <<>> /\ redo + o.redos = 0 /\ fresh /\ seg.unk)
  /\ fresh' = (fresh /\ ~(o.code # <<>> /\ redo + o.redos = 0))
  /\ lengths' = IF o.errors = 0 /\ ~o.abort THEN lengths \cup {Len(o.code)} ELSE lengths
  /\ table' = IF o.label THEN Programlabel(table, seg) ELSE table
  /\ UNCHANGED <<pass, line, seg>>

(* A value of a label that is set before the operand is evaluated.         *)
Here == Programlabel(table, seg)
Calls(handler) == ~insn.done /\ line.mne.handler = handler

InsOuts == Calls("ins_outs") /\ Finish(VInsOuts(line.ops, line.mne, Here))
Lis == Calls("lis") /\ Finish(VLis(line.ops, Here))
LisuLisl == Calls("lisu_lisl") /\ Finish(VLisuLisl(line.ops, line.mne, Here))
SlSr == Calls("sl_sr") /\ Finish(VSlSr(line.ops, line.mne, Here))
SregOp == Calls("sreg") /\ \E b \in Garbage : Finish(VSregOp(line.ops, line.mne, Here, b))
Lr == Calls("lr") /\ \E b \in Garbage : Finish(VLr(line.ops, Here, b))
Branch == Calls("branch") /\ Finish(GenerateBranch(Outcome, line.mne.opcode, line.ops, table, seg))
BfBt == Calls("bf_bt") /\ Finish(VBfBt(line.ops, line.mne, table, seg))
Wordop == Calls("wordop") /\ Finish(VWordop(line.ops, line.mne, Here))
Byteop == Calls("byteop") /\ Finish(VByteop(line.ops, line.mne, Here))
Implied == Calls("mnemonic") /\ Finish(VImplied(line.mne))

(* The rest of the source: the pass asked for another one, in which the    *)
(* line may lie elsewhere and u may have got a value, the same one from    *)
(* then on.                                                                *)
NextPass ==
  /\ insn.done /\ ~insn.abort /\ redo > 0 /\ pass < MaxPasses
  /\ pass' = pass + 1 /\ insn' = Idle
  /\ seg' \in Segs /\ fresh' \in BOOLEAN /\ redo' \in {0, 1}
  /\ \/ UNCHANGED table
     \/ table.u.unk /\ \E v \in Values : table' = [table EXCEPT !.u = [n |-> v, unk |-> FALSE]]
  /\ UNCHANGED <<line, lengths>>

Next == \/ InsOuts \/ Lis \/ LisuLisl \/ SlSr \/ SregOp \/ Lr \/ Branch \/ BfBt
        \/ Wordop \/ Byteop \/ Implied \/ NextPass
Spec == Init /\ [][Next]_vars

-----------------------------------------------------------------------------
(* What a line means, whatever it is written like: registers by number,    *)
(* the short forms of the manual for bf, bt and lis, targets from here.    *)
ShortForms == [br |-> <<"bf", 0>>, bm |-> <<"bf", 1>>, bnc |-> <<"bf", 2>>, bnz |-> <<"bf", 4>>,
               bno |-> <<"bf", 8>>, bp |-> <<"bt", 1>>, bc |-> <<"bt", 2>>, bz |-> <<"bt", 4>>,
               clr |-> <<"lis", 0>>]
LongForm(name) == IF name \in DOMAIN ShortForms THEN ShortForms[name] ELSE <<name>>
Exact(op, t) == IF op.sym = None THEN op.n ELSE t[op.sym].n
Argument(op, t) ==
  CASE op.word = "expr" -> Exact(op, t)
    [] op.word \in ScratchNames -> ScratchNumber(op.word)
    [] OTHER -> ParseSpecialRegister(op.word)
IsBranch(mne) == mne.handler \in {"branch", "bf_bt"}
Meaning(l, t, g) ==
  LongForm(l.mne.name) \o
  [i \in DOMAIN l.ops |->
     Argument(l.ops[i], t) - IF IsBranch(l.mne) /\ i = Len(l.ops) THEN GetPC(g) ELSE 0]

(* The lines with a constant operand, at address 0, and what they give.    *)
Home == [org |-> 0, unk |-> FALSE, rorg |-> FALSE, rn |-> 0, runk |-> FALSE]
NoTable == [u |-> [n |-> 0, unk |-> TRUE], self |-> [n |-> 0, unk |-> TRUE]]
OutcomeAtHome(l) ==
  CASE l.mne.handler = "mnemonic" -> VImplied(l.mne)
    [] l.mne.handler = "byteop" -> VByteop(l.ops, l.mne, NoTable)
    [] l.mne.handler = "wordop" -> VWordop(l.ops, l.mne, NoTable)
    [] l.mne.handler = "sreg" -> VSregOp(l.ops, l.mne, NoTable, 0)
    [] l.mne.handler = "branch" -> GenerateBranch(Outcome, l.mne.opcode, l.ops, NoTable, Home)
    [] l.mne.handler = "bf_bt" -> VBfBt(l.ops, l.mne, NoTable, Home)
    [] l.mne.handler = "sl_sr" -> VSlSr(l.ops, l.mne, NoTable)
    [] l.mne.handler = "ins_outs" -> VInsOuts(l.ops, l.mne, NoTable)
    [] l.mne.handler = "lis" -> VLis(l.ops, NoTable)
    [] l.mne.handler = "lisu_lisl" -> VLisuLisl(l.ops, l.mne, NoTable)
    [] l.mne.handler = "lr" -> VLr(l.ops, NoTable, 0)
Constant(l) == \A i \in DOMAIN l.ops : l.ops[i].sym = None
Accepted(o) == o.errors = 0 /\ o.redos = 0 /\ ~o.abort /\ o.code # <<>>
AcceptedLines == {l \in Lines : Constant(l) /\ Accepted(OutcomeAtHome(l))}
Encoding == [l \in AcceptedLines |-> OutcomeAtHome(l).code]
MeaningsOf ==
  [c \in {Encoding[l] : l \in AcceptedLines} |->
     {Meaning(l, NoTable, Home) : l \in {k \in AcceptedLines : Encoding[k] = c}}]

(* The bytes are in the file and nobody complained.                        *)
Settled == insn.done /\ insn.written /\ insn.errors = 0 /\ ~insn.abort

(* A line that is written used nothing that is not known yet, least of all *)
(* a register that was never parsed, and its label is where the line is.   *)
(* The program counter of a branch is the exception: after an ORG of an    *)
(* undefined symbol nothing asks for the other pass generate_branch hopes  *)
(* for, and the displacement 0 is written.                                 *)
WrittenIsFinal ==
  Settled => /\ \A i \in DOMAIN line.ops : ~(line.ops[i].sym # None /\ table[line.ops[i].sym].unk)
             /\ table = Programlabel(table, seg)

(* A line keeps its length while its operands get known, in all passes     *)
(* that accept it: otherwise every label behind it moves again.            *)
SizeStable == Cardinality(lengths) <= 1

(* No two instructions have the same code: the bytes of the line are those *)
(* of its meaning and of no other.                                         *)
Decodable ==
  Settled /\ IsPCKnown(seg) /\ insn.code \in DOMAIN MeaningsOf
    => MeaningsOf[insn.code] = {Meaning(line, table, seg)}

(* A branch that is accepted leads to its target: the processor adds the   *)
(* displacement, a signed byte, to the address of that byte.               *)
BranchReaches ==
  Settled /\ IsPCKnown(seg) /\ IsBranch(line.mne)
    => LET disp == IF insn.code[2] > 127 THEN insn.code[2] - 256 ELSE insn.code[2]
       IN  GetPC(seg) + 1 + disp = Exact(line.ops[Len(line.ops)], table)
=============================================================================
