----------------------------- MODULE MCAssembly -----------------------------
(* Small sources for TLC: every sequence of a few statements.              *)
EXTENDS Assembly

S(op, lab, arg) ==
  [op |-> op, lab |-> lab, arg |-> arg, arg2 |-> NoArg, seg |-> InitSeg]
S2(op, lab, arg, arg2) == [S(op, lab, arg) EXCEPT !.arg2 = arg2]
InSeg(op, g) == [S(op, "none", NoArg) EXCEPT !.seg = g]
Bare0(op) == S(op, "none", NoArg)

(* More than the counters can reach on these sources. *)
ManyCounts == 0..60

Org0 == S("org", "none", Const(0))

(* Forward references, zero page sizes, equates on labels, redefinition.   *)
LayoutStmts == {
  S("dc", "a", Plus("b", 0)), S("dc", "b", Const(1)),
  S("ins", "none", Plus("a", 0)), S("ins", "none", Plus("b", -3)),
  S("label", "b", NoArg), S("equ", "a", Plus("b", 1)), S("equ", "b", Const(2)),
  S("branch", "none", Plus("b", 0)),
  S("ds", "none", Plus("a", 0)), S("org", "none", Const(3))}
LayoutPrograms == {p \in [1..5 -> LayoutStmts \cup {Org0}] : p[1] = Org0}

(* Segments, relocated origins, alignment and fills, written in hunks.     *)
SegmentStmts == {
  InSeg("seg", "two"), InSeg("seg.u", "two"), InSeg("seg", InitSeg),
  S("rorg", "none", Const(5)), S("rorg", "none", NoArg), S("rend", "a", NoArg), S("rorg", "a", Plus("b", 0)),
  S2("align", "a", Const(4), Plus("b", 0)),
  S("label", "b", NoArg), S("equ", ".", Const(2)), S("org", "none", Const(1)),
  S("org", "none", Const(-1)),
  S2("org", "none", Const(1), Plus("b", 0)),
  S("dc", "a", Plus(".", 0)), S2("ds", "none", Const(2), Plus("a", 1))}
EquB4 == S("equ", "b", Const(4))
SegmentPrograms == {p \in [1..5 -> SegmentStmts \cup {EquB4}] : p[5] = EquB4}

(* Sources of one or two lines, most of them never resolved.               *)
ShortPrograms == UNION {[1..n -> LayoutStmts \cup SegmentStmts] : n \in 1..2}
StraightPrograms == LayoutPrograms \cup SegmentPrograms \cup ShortPrograms

(* Conditionals and loops around labels, in one file.                      *)
ConditionalStmts == {
  S("if", "none", Plus("a", 0)), S("ifconst", "none", Plus("b", 0)),
  Bare0("else"), Bare0("endif"), S("dc", "none", Const(1)),
  S("repeat", "none", Plus("a", 0)), S("repeat", "none", Const(2)), Bare0("repend"),
  S("dc", "a", Plus("b", 0)), S("label", "b", NoArg), S("set", "c", Plus("c", 1))}
ConditionalPrograms == {p \in [1..5 -> ConditionalStmts \cup {Org0}] : p[1] = Org0}
LoopStmts == ConditionalStmts \cup
  {S("ifnconst", "none", Plus("a", 0)), S("err", "a", NoArg), Bare0("end")}
LoopPrograms == {p \in [1..4 -> LoopStmts \cup {Org0}] : p[1] = Org0}
EquA2 == S("equ", "a", Const(2))
GivenPrograms ==
  {<<Org0, EquA2>> \o p : p \in [1..3 -> ConditionalStmts \cup {EquA2}]}
BlockPrograms == ConditionalPrograms \cup LoopPrograms \cup GivenPrograms

(* Counts that an EQU or a label defines, in front of the loop or behind.  *)
CountStmts == {EquA2, S("repeat", "none", Plus("a", 0)), S("dc", "none", Const(1)),
               Bare0("repend"), S("label", "b", NoArg)}
CountPrograms == {<<Org0>> \o p : p \in [1..4 -> CountStmts]}

=============================================================================
