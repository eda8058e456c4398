------------------------------ MODULE Assembly ------------------------------
(***************************************************************************)
(* One source file assembled by DASM: the line loop of MainShadow          *)
(* (src/main.c), the symbol table (src/symbols.c), the value flags of      *)
(* expressions (src/exp.c), the segments and the pseudo-ops (src/ops.c),   *)
(* in every pass the driver of module PassDriver makes.                    *)
(*                                                                         *)
(* A program is a sequence of statements chosen in Init.  Expressions are  *)
(* a symbol plus a constant: what the properties need of exp.c is that a   *)
(* value carries SYM_UNKNOWN, that the stale value of an unknown symbol is *)
(* still computed with, and that evaluation sets SYM_REF.  Operand bytes   *)
(* are kept as the number they encode.  Macros, include files and local    *)
(* labels are in module Nesting.                                           *)
(*                                                                         *)
(* A handler is a function from the work record of a line (the globals it  *)
(* may change) to the work record it leaves; the action of the pseudo-op   *)
(* commits it.                                                             *)
(***************************************************************************)
EXTENDS PassDriver, Sequences, FiniteSets

CONSTANTS
  Names,        \* symbols of the source
  Segments,     \* segment names
  InitSeg,      \* "INITIAL CODE SEGMENT"
  Programs,     \* the sources considered
  Formats,      \* of -f: "RAW" (formats 1 and 3), "RAS" (format 2)
  ByteLimit,    \* 256: operands from -128 to 255 take one byte
  Word          \* ULONG_MAX + 1: origins are unsigned, values are not

WhyNeeded ==   \* the REASON_* bits the handlers set
  {"mnemonic", "obscure", "dc", "ds", "align", "alignrorg", "alignorg", "equ",
   "equmismatch", "if", "repeat", "forward", "phase"}

ASSUME AssemblyAssumption ==
  /\ InitSeg \in Segments
  /\ Formats \subseteq {"RAW", "RAS"}
  /\ ByteLimit \in Nat \ {0} /\ Word \in Nat
  /\ Names \cap {"none", "absent", "."} = {}
  /\ WhyNeeded \subseteq Reasons /\ IfReason = "if"

Plus(n, k) == [sym |-> n, add |-> k]
Const(k) == Plus("none", k)
NoArg == Plus("absent", 0)

(* EQU and SET have a label; ALIGN, which divides by its operand, has a    *)
(* positive constant; only ORG, DS and ALIGN have a second operand.        *)
Argument == [sym : Names \cup {"none", "absent", "."}, add : Int]
Statement == [op : STRING, lab : Names \cup {"none", "."}, arg : Argument,
              arg2 : Argument, seg : Segments]
ASSUME ProgramAssumption ==
  \A p \in Programs :
    /\ p \in Seq(Statement)
    /\ \A i \in 1..Len(p) :
         /\ p[i].op = "equ" => p[i].lab \in Names \cup {"."}
         /\ p[i].op = "set" => p[i].lab \in Names
         /\ p[i].op = "align" => p[i].arg.sym = "none" /\ p[i].arg.add > 0
         /\ p[i].op \in {"dc", "ins", "branch"} => p[i].arg2 = NoArg

VARIABLES
  prog,     \* the source
  format,   \* F_format
  ip,       \* the next line to read
  syms,     \* SHash: value, SYM_UNKNOWN and SYM_REF of every symbol
  segs,     \* Seglist
  cseg,     \* Csegment
  ifs,      \* Ifstack, innermost first; the last entry is the base
  reps,     \* Reploop, innermost first
  out,      \* what generate wrote to the output file in this pass
  clear,    \* Fisclear
  forg,     \* generate's static org: the address the file has reached
  orgFill   \* OrgFill

input == <<prog, format>>
vars == <<dvars, input, ip, syms, segs, cseg, ifs, reps, out, clear, forg, orgFill>>

(* A name that is not in the table behaves exactly like an entry that is   *)
(* unknown, unreferenced and 0: create_symbol makes it so.                 *)
NoSymbol == [value |-> 0, unknown |-> TRUE, ref |-> FALSE]

NoSegment == [made |-> FALSE, bss |-> FALSE, org |-> 0, unknown |-> TRUE,
              rorging |-> FALSE, rorg |-> 0, runknown |-> TRUE]

Base == [xtrue |-> TRUE, acctrue |-> TRUE]

Init ==
  /\ DInit
  /\ prog \in Programs /\ format \in Formats /\ ip = 1
  /\ syms = [n \in Names |-> NoSymbol]
  /\ segs = [g \in Segments |-> [NoSegment EXCEPT !.made = (g = InitSeg)]]
  /\ cseg = InitSeg
  /\ ifs = <<Base>> /\ reps = <<>>
  /\ out = <<>> /\ clear = TRUE /\ forg = 0 /\ orgFill = ByteLimit - 1

-----------------------------------------------------------------------------
(* The work record of a line. *)
Work == [redo |-> redo, why |-> why, evals |-> evals, redoIf |-> redoIf,
         errs |-> errs, fatals |-> fatals, dead |-> FALSE, next |-> ip + 1,
         syms |-> syms, segs |-> segs, cseg |-> cseg, ifs |-> ifs, reps |-> reps,
         out |-> out, clear |-> clear, forg |-> forg, orgFill |-> orgFill]

Commit(work) == \E m \in {work} :
  /\ redo' = m.redo /\ why' = m.why /\ evals' = m.evals /\ redoIf' = m.redoIf
  /\ errs' = m.errs /\ fatals' = m.fatals
  /\ syms' = m.syms /\ segs' = m.segs /\ cseg' = m.cseg
  /\ ifs' = m.ifs /\ reps' = m.reps
  /\ out' = m.out /\ clear' = m.clear /\ forg' = m.forg /\ orgFill' = m.orgFill
  /\ ip' = m.next
  /\ IF m.dead THEN phase' = "exited" /\ status' = EXIT_FAILURE
               ELSE UNCHANGED <<phase, status>>
  /\ UNCHANGED <<input, pass, old>>

NeedWhyless(m, reason) == [m EXCEPT !.redo = @ + 1]   \* mutant: no Redo_why bit
Need(m, reason) == [m EXCEPT !.redo = @ + 1, !.why = @ \cup {reason}]
NeedIf(c, m, reason) == IF c THEN Need(m, reason) ELSE m
Error(m) == [m EXCEPT !.errs = @ + 1]
ErrorIf(c, m) == IF c THEN Error(m) ELSE m

Current(m) == m.segs[m.cseg]
WithSeg(m, g) == [m EXCEPT !.segs[m.cseg] = g]

(* The program counter labels see: rorg inside RORG, org otherwise. *)
Pc(m) ==
  LET g == Current(m) IN
  IF g.rorging THEN [value |-> g.rorg, unknown |-> g.runknown]
               ELSE [value |-> g.org, unknown |-> g.unknown]

(* eval of an operand: the value, its SYM_UNKNOWN flag, and the symbol     *)
(* table afterwards (pushsymbol creates what it does not find).            *)
Value(m, e) ==
  IF e.sym \in {"none", "absent"} THEN [value |-> e.add, unknown |-> FALSE]
  ELSE LET v == IF e.sym = "." THEN Pc(m) ELSE m.syms[e.sym]
       IN  [value |-> v.value + e.add, unknown |-> v.unknown]

Read(m, e) ==
  LET n == IF Value(m, e).unknown THEN m.evals + 1 ELSE m.evals
  IN  IF e.sym \in Names THEN [m EXCEPT !.evals = n, !.syms[e.sym].ref = TRUE]
                         ELSE [m EXCEPT !.evals = n]

(* programlabel: give the label of the line the current pc, and ask for    *)
(* another pass if somebody may have read a different one.                 *)
RedefinedUnchecked(m, s, pc) ==   \* mutant: no phase error
  IF s.ref /\ (s.unknown \/ pc.unknown) THEN Need(m, "forward") ELSE m
Redefined(m, s, pc) ==
  IF s.ref /\ (s.unknown \/ pc.unknown)
  THEN Need(m, "forward")
  ELSE IF ~s.unknown /\ ~pc.unknown /\ pc.value # s.value
  THEN Need(ErrorIf(~m.redoIf.before, m), "phase")
  ELSE m

LabelAtOrg(m, lab) ==   \* mutant: the label ignores a relocated origin
  IF lab \notin Names THEN m
  ELSE LET g == Current(m)
           s == m.syms[lab]
       IN  [Redefined(m, s, [value |-> g.org, unknown |-> g.unknown]) EXCEPT
              !.syms[lab] = [value |-> g.org, unknown |-> g.unknown, ref |-> s.ref]]
Label(m, lab) ==
  IF lab \notin Names THEN m
  ELSE LET s == m.syms[lab]
           pc == Pc(m)
       IN  [Redefined(m, s, pc) EXCEPT
              !.syms[lab] = [value |-> pc.value, unknown |-> pc.unknown, ref |-> s.ref]]

-----------------------------------------------------------------------------
(* generate: write len bytes that encode val, then move the origin.  Only  *)
(* a pass without a Redo so far writes, and BSS segments never do.         *)
Advance(m, len) ==
  WithSeg(m, [Current(m) EXCEPT !.org = @ + len,
                                !.rorg = IF Current(m).rorging THEN @ + len ELSE @])

Unsigned(x) == IF x < 0 THEN x + Word ELSE x

ReversedUnchecked(g, from) == FALSE   \* mutant: seek back in the file
Reversed(g, from) == format = "RAW" /\ Unsigned(g.org) < Unsigned(from)

BlockOf(m, line, val, len) ==
  [line |-> line, addr |-> Current(m).org, pc |-> Pc(m).value, seg |-> m.cseg,
   known |-> ~Pc(m).unknown, len |-> len, val |-> val]

Write(m, line, val, len) ==
  LET g == Current(m)
      from == IF m.clear THEN g.org ELSE m.forg
  IN  IF m.clear /\ g.unknown
      THEN Need([m EXCEPT !.clear = FALSE], "obscure")
      ELSE IF Reversed(g, from)
      THEN [m EXCEPT !.clear = FALSE, !.fatals = @ + 1, !.dead = TRUE]
      ELSE Advance([m EXCEPT !.clear = FALSE, !.forg = g.org + len,
                             !.out = Append(@, BlockOf(m, line, val, len))], len)

Writes(m) == m.redo = 0 /\ ~Current(m).bss
Generate(m, line, val, len) ==
  IF Writes(m) THEN Write(m, line, val, len)
               ELSE Advance(m, len)

GenFill(m, line, fill, len) == IF len = 0 THEN m ELSE Generate(m, line, fill, len)

-----------------------------------------------------------------------------
(* The pseudo-ops, each from the work record m and its statement s.        *)

(* v_org *)
OrgLine(m, s) ==
  LET v == Value(m, s.arg)
      f == Value(m, s.arg2)
      m1 == ErrorIf(v.value < 0, Read(Read(m, s.arg), s.arg2))
      m2 == WithSeg(m1, [Current(m1) EXCEPT !.org = v.value, !.unknown = v.unknown])
      m3 == [m2 EXCEPT !.orgFill = IF s.arg2 = NoArg THEN @ ELSE f.value % ByteLimit,
                       !.fatals = IF f.unknown THEN @ + 1 ELSE @]
  IN  Label(m3, s.lab)

(* v_rorg; without an operand it resumes the last relocated origin. *)
RorgLine(m, s) ==
  LET v == Value(m, s.arg)
      m1 == ErrorIf(v.value < 0, Read(m, s.arg))
      g == [Current(m1) EXCEPT !.rorging = TRUE]
      m2 == WithSeg(m1, IF s.arg = NoArg THEN g
                        ELSE [g EXCEPT !.rorg = v.value, !.runknown = v.unknown])
  IN  Label(m2, s.lab)

(* v_rend: the label is set before the relocation ends. *)
RendLine(m, s) ==
  LET m1 == Label(m, s.lab)
  IN  WithSeg(m1, [Current(m1) EXCEPT !.rorging = FALSE])

(* v_seg: SEG resumes a segment or creates it; only creation by SEG.U      *)
(* makes it uninitialised.                                                 *)
SegLine(m, s) ==
  LET g == m.segs[s.seg]
      m1 == IF g.made THEN m
            ELSE [m EXCEPT !.segs[s.seg] =
                    [NoSegment EXCEPT !.made = TRUE, !.bss = (s.op = "seg.u")]]
  IN  Label([m1 EXCEPT !.cseg = s.seg], s.lab)

(* v_dc with one byte-sized operand *)
DcLine(m, s) ==
  LET m1 == Label(m, s.lab)
      v == Value(m1, s.arg)
  IN  Generate(NeedIf(v.unknown, Read(m1, s.arg), "dc"), ip, v.value, 1)

(* v_ds *)
DsLine(m, s) ==
  LET m1 == Label(m, s.lab)
      v == Value(m1, s.arg)
      f == Value(m1, s.arg2)
      m2 == Read(Read(m1, s.arg), s.arg2)
  IN  IF v.unknown THEN Need(m2, "ds")
      ELSE LET m3 == NeedIf(f.unknown, m2, "ds")
           IN  IF v.value < 0 THEN Error(m3) ELSE GenFill(m3, ip, f.value, v.value)

(* v_align: pad to a multiple of the operand, in the address space of Pc.  *)
AlignPad(pc, n) ==
  LET pad == n - (Unsigned(pc) % n) IN IF pad = n THEN 0 ELSE pad
AlignLine(m, s) ==
  LET pc == Pc(m)
      v == Value(m, s.arg)
      f == Value(m, s.arg2)
      m1 == NeedIf(f.unknown, Read(Read(m, s.arg), s.arg2), "align")
      fill == IF f.unknown THEN 0 ELSE f.value
      reason == IF Current(m).rorging THEN "alignrorg" ELSE "alignorg"
      m2 == IF pc.unknown \/ v.unknown THEN Need(m1, reason)
            ELSE GenFill(m1, ip, fill, AlignPad(pc.value, v.value))
  IN  Label(m2, s.lab)

(* v_mnemonic, absolute or zero page by the size of the operand *)
OneByte(x) == -(ByteLimit \div 2) <= x /\ x < ByteLimit
InsLen(v) == IF v.unknown \/ ~OneByte(v.value) THEN 3 ELSE 2
InsLineTrusting(m, s) ==   \* mutant: an unknown operand needs no pass
  LET m1 == Label(m, s.lab)
      v == Value(m1, s.arg)
  IN  Generate(Read(m1, s.arg), ip, v.value, InsLen(v))
InsLine(m, s) ==
  LET m1 == Label(m, s.lab)
      v == Value(m1, s.arg)
  IN  Generate(NeedIf(v.unknown, Read(m1, s.arg), "mnemonic"), ip, v.value, InsLen(v))

(* v_mnemonic, AM_REL: the distance from the end of the instruction; an    *)
(* unknown pc makes it 0 and requests nothing.                             *)
Distance(target, pc) == target - pc - 2
BranchLine(m, s) ==
  LET m1 == Label(m, s.lab)
      v == Value(m1, s.arg)
      pc == Pc(m1)
      m2 == NeedIf(v.unknown, Read(m1, s.arg), "mnemonic")
      d == IF v.unknown \/ pc.unknown THEN 0 ELSE Distance(v.value, pc.value)
  IN  Generate(ErrorIf(d >= 128 \/ d < -128, m2), ip, d, 2)

(* v_equ, which forwards  . = e  to ORG or RORG after reading e once.      *)
EquNeeds(m, l, v) ==
  IF l.unknown THEN m
  ELSE IF v.unknown THEN Need(m, "equ")
  ELSE IF l.value # v.value THEN Need(Error(m), "equmismatch")
  ELSE m
EquLine(m, s) ==
  LET v == Value(m, s.arg)
      m1 == Read(m, s.arg)
      m2 == EquNeeds(m1, m1.syms[s.lab], v)
  IN  IF s.lab = "."
      THEN IF Current(m).rorging THEN RorgLine(m1, s) ELSE OrgLine(m1, s)
      ELSE [m2 EXCEPT !.syms[s.lab] =
              [value |-> v.value, unknown |-> v.unknown, ref |-> FALSE]]

(* v_set *)
SetLine(m, s) ==
  LET v == Value(m, s.arg)
  IN  [Read(m, s.arg) EXCEPT !.syms[s.lab] =
         [value |-> v.value, unknown |-> v.unknown, ref |-> FALSE]]

(* v_end: read on at the end of the file. *)
EndLine(m, s) == [m EXCEPT !.next = Len(prog) + 1]

(* v_err: panic_fmt. *)
ErrLine(m, s) == [Label(m, s.lab) EXCEPT !.fatals = @ + 1, !.dead = TRUE]

(* A line that holds at most a label. *)
LabelLine(m, s) == Label(m, s.lab)

-----------------------------------------------------------------------------
(* Conditionals and loops. *)
Active(m) == Head(m.ifs).xtrue /\ Head(m.ifs).acctrue

PushIf(m, x) ==
  [m EXCEPT !.ifs = <<[xtrue |-> x, acctrue |-> Active(m)]>> \o @]

(* v_if: an unresolved condition skips both branches and asks for a pass.  *)
UnresolvedIf(m) ==
  [PushIf(Need(m, "if"), FALSE) EXCEPT !.ifs[1].acctrue = FALSE, !.redoIf.now = TRUE]
IfLine(m, s) ==
  LET m1 == Label(m, s.lab)
      v == Value(m1, s.arg)
  IN  IF ~Active(m) THEN PushIf(m, FALSE)
      ELSE IF v.unknown THEN UnresolvedIf(Read(m1, s.arg))
      ELSE PushIf(Read(m1, s.arg), v.value # 0)

(* v_ifconst, v_ifnconst: evaluated in a skipped branch as well. *)
IfConstLine(m, s) ==
  LET m1 == Label(m, s.lab)
      known == ~Value(m1, s.arg).unknown
  IN  PushIf(Read(m1, s.arg), IF s.op = "ifconst" THEN known ELSE ~known)

AtBase(m) == Len(m.ifs) = 1

ElseLine(m, s) ==
  IF Head(m.ifs).acctrue /\ ~AtBase(m)
  THEN [Label(m, s.lab) EXCEPT !.ifs[1].xtrue = ~@]
  ELSE m

EndifLine(m, s) ==
  IF AtBase(m) THEN m
  ELSE [(IF Head(m.ifs).acctrue THEN Label(m, s.lab) ELSE m) EXCEPT !.ifs = Tail(@)]

(* v_repeat: a count of 0, known or not, skips the body. *)
RepeatLine(m, s) ==
  LET m1 == Label(m, s.lab)
      v == Value(m1, s.arg)
      m2 == Read(m1, s.arg)
      loop == [from |-> m.next, count |-> v.value, unknown |-> v.unknown]
  IN  IF ~Active(m) THEN PushIf(m, FALSE)
      ELSE IF v.value = 0 THEN PushIf(m2, FALSE)
      ELSE IF v.value < 0 THEN Error(PushIf(m2, FALSE))
      ELSE PushIf([NeedIf(v.unknown, m2, "repeat") EXCEPT !.reps = <<loop>> \o @], TRUE)

MoreRoundsByOne(r) == ~r.unknown /\ r.count > 0   \* mutant: count-- for --count
MoreRounds(r) == ~r.unknown /\ r.count > 1
LeftForever(r) == r.count   \* mutant: the count is not decremented
Left(r) == r.count - 1
RependLine(m, s) ==
  IF ~Active(m) THEN EndifLine(m, s)
  ELSE IF m.reps = <<>> THEN m
  ELSE LET r == Head(m.reps) IN
       IF MoreRounds(r)
       THEN [m EXCEPT !.reps[1].count = Left(r), !.next = r.from]
       ELSE EndifLine([m EXCEPT !.reps = Tail(@)], s)

-----------------------------------------------------------------------------
(* Reading a line: conditionals always run, everything else only where the *)
(* innermost condition and all outer ones hold.                            *)
Reads(op) == phase = "lines" /\ ip <= Len(prog) /\ prog[ip].op = op
Runs(op) == Reads(op) /\ Active(Work)

Stmt == prog[ip]

Plain   == Runs("label") /\ Commit(LabelLine(Work, Stmt))
Org     == Runs("org") /\ Commit(OrgLine(Work, Stmt))
Rorg    == Runs("rorg") /\ Commit(RorgLine(Work, Stmt))
Rend    == Runs("rend") /\ Commit(RendLine(Work, Stmt))
Seg     == (Runs("seg") \/ Runs("seg.u")) /\ Commit(SegLine(Work, Stmt))
Dc      == Runs("dc") /\ Commit(DcLine(Work, Stmt))
Ds      == Runs("ds") /\ Commit(DsLine(Work, Stmt))
Align   == Runs("align") /\ Commit(AlignLine(Work, Stmt))
Ins     == Runs("ins") /\ Commit(InsLine(Work, Stmt))
Branch  == Runs("branch") /\ Commit(BranchLine(Work, Stmt))
Equ     == Runs("equ") /\ Commit(EquLine(Work, Stmt))
SetSym  == Runs("set") /\ Commit(SetLine(Work, Stmt))
End     == Runs("end") /\ Commit(EndLine(Work, Stmt))
Err     == Runs("err") /\ Commit(ErrLine(Work, Stmt))
If      == Reads("if") /\ Commit(IfLine(Work, Stmt))
IfConst == (Reads("ifconst") \/ Reads("ifnconst")) /\ Commit(IfConstLine(Work, Stmt))
Else    == Reads("else") /\ Commit(ElseLine(Work, Stmt))
Endif   == Reads("endif") /\ Commit(EndifLine(Work, Stmt))
Repeat  == Reads("repeat") /\ Commit(RepeatLine(Work, Stmt))
Repend  == Reads("repend") /\ Commit(RependLine(Work, Stmt))

IfOps == {"if", "ifconst", "ifnconst", "else", "endif", "repeat", "repend"}
Skip ==
  /\ phase = "lines" /\ ip <= Len(prog)
  /\ Stmt.op \notin IfOps /\ ~Active(Work)
  /\ Commit(Work)

LineStep ==
  \/ Plain \/ Org \/ Rorg \/ Rend \/ Seg \/ Dc \/ Ds \/ Align \/ Ins \/ Branch
  \/ Equ \/ SetSym \/ End \/ Err
  \/ If \/ IfConst \/ Else \/ Endif \/ Repeat \/ Repend
  \/ Skip

-----------------------------------------------------------------------------
(* The passes.  Fisclear and the read position start anew; the current     *)
(* segment, the origins and OrgFill are what the last pass left.           *)
StartPass ==
  /\ OpenPass
  /\ ip' = 1 /\ out' = <<>> /\ clear' = TRUE
  /\ UNCHANGED <<input, syms, segs, cseg, ifs, reps, forg, orgFill>>

CannotOpen ==
  /\ OpenFails
  /\ UNCHANGED <<input, ip, syms, segs, cseg, ifs, reps, out, clear, forg, orgFill>>

(* At the end of the file its open loops and conditionals are dropped. *)
CloseFile ==
  /\ ip > Len(prog) /\ EndOfSource
  /\ ifs' = <<Base>> /\ reps' = <<>>
  /\ UNCHANGED <<input, ip, syms, segs, cseg, out, clear, forg, orgFill>>

(* clear_all_symbol_refs and clearsegs *)
ClearRefs == syms' = [n \in Names |-> [syms[n] EXCEPT !.ref = FALSE]]
ClearSegs ==
  segs' = [g \in Segments |->
             [segs[g] EXCEPT !.unknown = TRUE, !.rorging = FALSE, !.runknown = TRUE]]

Again ==
  /\ NextPass /\ ClearRefs /\ ClearSegs
  /\ UNCHANGED <<input, ip, cseg, ifs, reps, out, clear, forg, orgFill>>

Return ==
  /\ Finished \/ NotResolvable \/ AbortFatal \/ TooManyPasses \/ Exit
  /\ UNCHANGED <<input, ip, syms, segs, cseg, ifs, reps, out, clear, forg, orgFill>>

Next == StartPass \/ CannotOpen \/ LineStep \/ CloseFile \/ Again \/ Return

Spec == Init /\ [][Next]_vars

(* One process runs straight through. *)
FairSpec == Spec /\ WF_vars(Next)

-----------------------------------------------------------------------------
(* Properties.                                                             *)
Succeeded == phase = "returned" /\ fatals = 0 /\ redo = 0

(* The names a block may depend on.  SET may redefine a name, and a        *)
(* forward reference to it reads what the previous pass left, by design.   *)
(* EQU takes SYM_REF back, so that a label of the same name at an unknown  *)
(* pc goes unnoticed: a name is defined by EQU or as a label.              *)
LabelsOf(ops) == {prog[i].lab : i \in {j \in DOMAIN prog : prog[j].op \in ops}}
SetNames == LabelsOf({"set"})
EquNames == LabelsOf({"equ"})
LabelNames == {prog[i].lab : i \in {j \in DOMAIN prog : prog[j].op \notin {"equ", "set"}}}
Fixed(e) == e.sym \notin SetNames /\ e.sym \notin (EquNames \cap LabelNames)

(* Type invariant of the assembler's globals. *)
TypeOK ==
  /\ DTypeOK
  /\ ip \in 1..(Len(prog) + 1)
  /\ syms \in [Names -> [value : Int, unknown : BOOLEAN, ref : BOOLEAN]]
  /\ segs \in [Segments -> [made : BOOLEAN, bss : BOOLEAN, org : Int, unknown : BOOLEAN,
                            rorging : BOOLEAN, rorg : Int, runknown : BOOLEAN]]
  /\ cseg \in Segments /\ segs[cseg].made
  /\ ifs \in Seq([xtrue : BOOLEAN, acctrue : BOOLEAN]) /\ ifs # <<>>
  /\ ifs[Len(ifs)] = Base
  /\ \A i \in DOMAIN reps : reps[i].from \in 1..(Len(prog) + 1) /\ reps[i].count > 0
  /\ clear \in BOOLEAN /\ forg \in Int /\ orgFill \in 0..(ByteLimit - 1)

(* The point of the multi-pass design: an assembly that ends without       *)
(* another Redo has used, in every byte it wrote, the value each symbol    *)
(* has at the end, and sized every instruction and fill accordingly.  A    *)
(* branch at an unknown pc is the exception v_mnemonic makes.              *)
Operand(table, b, e) ==
  IF e.sym = "." THEN b.pc + e.add
  ELSE IF e.sym \in Names THEN table[e.sym].value + e.add ELSE e.add
Resolved(table, e) == e.sym \in Names => ~table[e.sym].unknown

BlockFinal(table, b) ==
  LET s == prog[b.line]
      v == Operand(table, b, s.arg)
      f == Operand(table, b, s.arg2)
  IN  Fixed(s.arg) /\ Fixed(s.arg2) =>
        /\ Resolved(table, s.arg) /\ Resolved(table, s.arg2)
        /\ s.op = "dc" => b.val = v
        /\ s.op = "ins" => b.val = v /\ b.len = InsLen([value |-> v, unknown |-> FALSE])
        /\ s.op = "branch" => b.val = IF b.known THEN Distance(v, b.pc) ELSE 0
        /\ s.op = "ds" => b.val = f /\ b.len = v
        /\ s.op = "align" => /\ b.val = f /\ b.len < v
                             /\ (Unsigned(b.pc) + b.len) % v = 0

OutputUsesFinalValues == Succeeded => \A i \in DOMAIN out : BlockFinal(syms, out[i])

(* A label in the final table is where its code was put, even if several   *)
(* lines, several rounds of a loop or an EQU tried to define it: only a     *)
(* definition at an unknown pc goes unnoticed by programlabel.             *)
Defining(l) == {prog[i].op : i \in {j \in DOMAIN prog : prog[j].lab = l}}
LabelsMatchOutput ==
  /\ Succeeded
  /\ \A i \in DOMAIN out : out[i].known
  /\ \A g \in Segments : ~segs[g].bss
  => \A i \in DOMAIN out :
       LET l == prog[out[i].line].lab IN
       l \in Names /\ Defining(l) \subseteq {"dc", "ins", "branch", "equ"}
         => ~syms[l].unknown /\ syms[l].value = out[i].pc

(* "Initialized segments must occur in ascending order" (doc/dasm.txt):    *)
(* in the formats without hunks no byte is written over or out of order,   *)
(* unless an address below zero, the end of the unsigned address space,    *)
(* was told as an error.                                                   *)
AscendingOutput ==
  format = "RAW" /\ errs = 0 => \A i, j \in DOMAIN out :
    i < j => out[i].addr + out[i].len <= out[j].addr

(* A loop whose count is known in the end was run that many times: a       *)
(* REPEAT directly around one DC at the outermost level writes count bytes *)
(* in initialised segments.                                                *)
Bare(i) == i >= 1 /\ i + 2 <= Len(prog)
           /\ prog[i].op = "repeat" /\ prog[i + 1].op = "dc" /\ prog[i + 2].op = "repend"
           /\ prog[i].arg.sym # "."
           /\ \A j \in 1..(i - 1) : prog[j].op \notin IfOps \cup {"end"}
Copies(i) == {k \in DOMAIN out : out[k].line = i}
Rounds(e) == IF e.sym \in Names THEN syms[e.sym].value + e.add ELSE e.add
Times(e) == IF Rounds(e) > 0 THEN Rounds(e) ELSE 0
Honoured(i) == Cardinality(Copies(i + 1)) = Times(prog[i].arg)
Countable(i) == Bare(i) /\ Fixed(prog[i].arg) /\ Resolved(syms, prog[i].arg)
Complete == Succeeded /\ \A g \in Segments : ~segs[g].bss

(* A count is a number, a label, wherever it is defined, or an EQU that a  *)
(* line in front of the loop gives a number.                               *)
Gives(j, i) == /\ prog[j].op = "equ" /\ prog[j].lab = prog[i].arg.sym
               /\ prog[j].arg.sym \notin Names \cup {"."}
GivenInFront(i) == prog[i].arg.sym \in EquNames => \E j \in 1..(i - 1) : Gives(j, i)
RepeatCountHonoured ==
  Complete => \A i \in 1..Len(prog) : Countable(i) /\ GivenInFront(i) => Honoured(i)

(* "REPEAT: expression not resolved" is a reason for another pass          *)
(* (doc/dasm.txt), wherever the count is defined.  Refuted by an EQU that  *)
(* follows the loop: its value 0 skips the loop and requests nothing.      *)
EveryCountHonoured ==
  Complete => \A i \in 1..Len(prog) : Countable(i) => Honoured(i)
=============================================================================
