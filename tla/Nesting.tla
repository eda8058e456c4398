------------------------------ MODULE Nesting -------------------------------
(***************************************************************************)
(* What DASM keeps on stacks while it reads a source: the include files    *)
(* and macro calls being read (the INCFILE list pIncfile), the open        *)
(* conditionals (Ifstack), the open loops (Reploop), and the scopes of     *)
(* local labels (.name and name$) that macro calls and SUBROUTINE open.    *)
(* Handlers: v_execmac .. v_repend and v_include in src/ops.c, the line    *)
(* loop of MainShadow in src/main.c, programlabel in src/symbols.c.        *)
(*                                                                         *)
(* A source is the texts of the main file, of the files it includes and of *)
(* the macros, already defined.  Conditions take any value.  A stack entry *)
(* remembers the INCFILE it was pushed in; dalloc never reuses memory, so  *)
(* the pointer of a freed INCFILE equals no later one and frames are       *)
(* numbered.                                                               *)
(***************************************************************************)
EXTENDS Integers, Sequences, FiniteSets

CONSTANTS
  Main,          \* the file named on the command line
  Macros,        \* names of macros
  Files,         \* names of the other files that can be opened
  Texts,         \* the sources considered: functions from names to lines
  MaxMacLevel,   \* MAXMACLEVEL, 32
  PassBound      \* bound for the model checker on the number of passes

Sources == {Main} \cup Macros \cup Files
SourceLine == [op : STRING, lab : BOOLEAN, count : Int, target : STRING]

ASSUME NestingAssumption ==
  /\ Main \notin Macros /\ Main \notin Files /\ Macros \cap Files = {}
  /\ MaxMacLevel \in Nat /\ PassBound \in Nat \ {0}

(* A call is the name of a macro that is defined. *)
ASSUME TextAssumption ==
  \A t \in Texts :
    /\ t \in [Sources -> Seq(SourceLine)]
    /\ \A s \in Sources : \A i \in 1..Len(t[s]) :
         t[s][i].op = "call" => t[s][i].target \in Macros

VARIABLES
  text,        \* the source being assembled
  pass, done,
  inc,         \* pIncfile and what it returns to, innermost first
  ifs,         \* Ifstack, innermost first, the base last
  reps,        \* Reploop, innermost first
  mlevel,      \* Mlevel
  local,       \* Localindex
  lastLocal,   \* Lastlocalindex
  dollar,      \* Localdollarindex
  lastDollar,  \* Lastlocaldollarindex
  born         \* number of INCFILEs allocated so far

ctlvars == <<text, pass, done>>
scopevars == <<local, lastLocal, dollar, lastDollar>>
vars == <<ctlvars, inc, ifs, reps, mlevel, scopevars, born>>

Base == [frame |-> 0, xtrue |-> TRUE, acctrue |-> TRUE]

File(f, id) ==
  [id |-> id, src |-> f, at |-> 1, macro |-> FALSE, saveidx |-> 0, savedolidx |-> 0]

Init ==
  /\ text \in Texts
  /\ pass = 1 /\ done = FALSE
  /\ inc = <<File(Main, 1)>> /\ born = 1
  /\ ifs = <<Base>> /\ reps = <<>> /\ mlevel = 0
  /\ local = 0 /\ lastLocal = 0 /\ dollar = 0 /\ lastDollar = 0

-----------------------------------------------------------------------------
(* Reading a line. *)
Top == inc[1]
AtEnd == Top.at > Len(text[Top.src])
Line == text[Top.src][Top.at]

Active == ifs[1].xtrue /\ ifs[1].acctrue

Reads(op) == inc # <<>> /\ ~AtEnd /\ Line.op = op
Runs(op) == Reads(op) /\ Active

Step == [inc EXCEPT ![1].at = @ + 1]

(* programlabel on a line with a label that is not itself local starts a   *)
(* new scope of name$ labels.                                              *)
NewDollar == Line.lab
Programlabel ==
  IF NewDollar THEN lastDollar' = lastDollar + 1 /\ dollar' = lastDollar + 1
               ELSE UNCHANGED <<dollar, lastDollar>>
ProgramlabelIf(c) ==
  IF c THEN Programlabel ELSE UNCHANGED <<dollar, lastDollar>>

(* A mnemonic, a DC, a lone label: no effect on the stacks. *)
Plain ==
  /\ Runs("plain")
  /\ Programlabel
  /\ inc' = Step
  /\ UNCHANGED <<ctlvars, ifs, reps, mlevel, local, lastLocal, born>>

(* Outside the active branch every line without MF_IF is passed over. *)
IfOps == {"if", "ifconst", "else", "endif", "repeat", "repend"}
Skip ==
  /\ inc # <<>> /\ ~AtEnd /\ ~Active /\ Line.op \notin IfOps
  /\ inc' = Step
  /\ UNCHANGED <<ctlvars, ifs, reps, mlevel, scopevars, born>>

(* v_subroutine *)
NextAfterCurrent == local + 1   \* mutant: the scope after this one
FreshScope == lastLocal + 1
Subroutine ==
  /\ Runs("subroutine")
  /\ lastLocal' = FreshScope /\ local' = FreshScope
  /\ Programlabel
  /\ inc' = Step
  /\ UNCHANGED <<ctlvars, ifs, reps, mlevel, born>>

-----------------------------------------------------------------------------
(* Conditionals. *)
PushIfOpen(x, acc) ==   \* mutant: the outer condition is forgotten
  ifs' = <<[frame |-> Top.id, xtrue |-> x, acctrue |-> TRUE]>> \o ifs
PushIf(x, acc) == ifs' = <<[frame |-> Top.id, xtrue |-> x, acctrue |-> acc]>> \o ifs

(* v_if; a condition that is not resolved keeps both branches closed. *)
If ==
  /\ Reads("if")
  /\ IF Active
     THEN \/ \E c \in BOOLEAN : PushIf(c, TRUE)
          \/ PushIf(FALSE, FALSE)
     ELSE PushIf(FALSE, FALSE)
  /\ ProgramlabelIf(Active)
  /\ inc' = Step
  /\ UNCHANGED <<ctlvars, reps, mlevel, local, lastLocal, born>>

(* v_ifconst, v_ifnconst: the label and the expression also in a skipped   *)
(* branch.                                                                 *)
IfConst ==
  /\ Reads("ifconst")
  /\ \E c \in BOOLEAN : PushIf(c, Active)
  /\ Programlabel
  /\ inc' = Step
  /\ UNCHANGED <<ctlvars, reps, mlevel, local, lastLocal, born>>

AtBaseNever == FALSE   \* mutant: IFF_BASE is not looked at
AtBase == ifs[1].frame = 0

Else ==
  /\ Reads("else")
  /\ IF ifs[1].acctrue /\ ~AtBase
     THEN ifs' = [ifs EXCEPT ![1].xtrue = ~@] /\ Programlabel
     ELSE UNCHANGED <<ifs, dollar, lastDollar>>
  /\ inc' = Step
  /\ UNCHANGED <<ctlvars, reps, mlevel, local, lastLocal, born>>

(* v_endif, also called by v_repend: only the INCFILE that opened the      *)
(* conditional can close it.                                               *)
AnyMayClose == ~AtBase   \* mutant: whoever opened it
MayClose == ~AtBase /\ ifs[1].frame = Top.id
CloseIf ==
  /\ ifs' = IF MayClose THEN Tail(ifs) ELSE ifs
  /\ ProgramlabelIf(~AtBase /\ ifs[1].acctrue)

Endif ==
  /\ Reads("endif")
  /\ CloseIf
  /\ inc' = Step
  /\ UNCHANGED <<ctlvars, reps, mlevel, local, lastLocal, born>>

-----------------------------------------------------------------------------
(* Loops. *)
Repeat ==
  /\ Reads("repeat")
  /\ IF Active /\ Line.count > 0
     THEN /\ reps' = <<[frame |-> Top.id, from |-> Top.at + 1, count |-> Line.count]>> \o reps
          /\ PushIf(TRUE, TRUE)
     ELSE PushIf(FALSE, Active) /\ UNCHANGED reps
  /\ ProgramlabelIf(Active)
  /\ inc' = Step
  /\ UNCHANGED <<ctlvars, mlevel, local, lastLocal, born>>

InLoop == reps # <<>> /\ reps[1].frame = Top.id

SameCount == reps[1].count   \* mutant: the count is not decremented
Remaining == reps[1].count - 1
Loop ==   \* once more through the body
  /\ Active /\ InLoop /\ reps[1].count > 1
  /\ reps' = [reps EXCEPT ![1].count = Remaining]
  /\ inc' = [inc EXCEPT ![1].at = reps[1].from]
  /\ UNCHANGED <<ifs, dollar, lastDollar>>

Leave ==   \* the last round
  /\ Active /\ InLoop /\ reps[1].count <= 1
  /\ reps' = Tail(reps) /\ CloseIf /\ inc' = Step

Stray ==   \* "no repeat"
  /\ Active /\ ~InLoop
  /\ inc' = Step
  /\ UNCHANGED <<ifs, reps, dollar, lastDollar>>

Repend ==
  /\ Reads("repend")
  /\ \/ Loop \/ Leave \/ Stray
     \/ ~Active /\ CloseIf /\ inc' = Step /\ UNCHANGED reps
  /\ UNCHANGED <<ctlvars, mlevel, local, lastLocal, born>>

-----------------------------------------------------------------------------
(* Files and macro calls. *)

(* v_include; a file that cannot be opened is only warned about. *)
Include ==
  /\ Runs("include")
  /\ Programlabel
  /\ IF Line.target \in Files
     THEN inc' = <<File(Line.target, born + 1)>> \o Step /\ born' = born + 1
     ELSE inc' = Step /\ UNCHANGED born
  /\ UNCHANGED <<ctlvars, ifs, reps, mlevel, local, lastLocal>>

(* v_execmac: programlabel first, then both scopes are saved and opened    *)
(* anew.  A call at the level limit is dropped.                            *)
LastAtCall == IF NewDollar THEN lastDollar + 1 ELSE lastDollar
DollarAtCall == IF NewDollar THEN lastDollar + 1 ELSE dollar
LocalAtCall == local
RoomForCall == mlevel < MaxMacLevel

Call ==
  /\ Runs("call") /\ RoomForCall
  /\ inc' = <<[id |-> born + 1, src |-> Line.target, at |-> 1, macro |-> TRUE,
               saveidx |-> LocalAtCall, savedolidx |-> DollarAtCall]>> \o Step
  /\ born' = born + 1
  /\ mlevel' = mlevel + 1
  /\ lastLocal' = FreshScope /\ local' = FreshScope
  /\ lastDollar' = LastAtCall + 1 /\ dollar' = LastAtCall + 1
  /\ UNCHANGED <<ctlvars, ifs, reps>>

CallTooDeep ==   \* "infinite macro recursion"
  /\ Runs("call") /\ ~RoomForCall
  /\ Programlabel
  /\ inc' = Step
  /\ UNCHANGED <<ctlvars, ifs, reps, mlevel, local, lastLocal, born>>

(* v_endm in a macro: back to the caller.  What the macro left on Ifstack  *)
(* and Reploop stays there.                                                *)
ReturnFromMacro ==
  /\ inc # <<>> /\ Top.macro
  /\ inc' = Tail(inc)
  /\ mlevel' = mlevel - 1
  /\ local' = Top.saveidx /\ dollar' = Top.savedolidx
  /\ UNCHANGED <<ctlvars, ifs, reps, lastLocal, lastDollar, born>>

MacroText == inc # <<>> /\ AtEnd /\ ReturnFromMacro   \* the last line of a macro was read
Mexit == Runs("mexit") /\ ReturnFromMacro

StrayMexit ==   \* "not within a macro"
  /\ Runs("mexit") /\ ~Top.macro
  /\ inc' = Step
  /\ UNCHANGED <<ctlvars, ifs, reps, mlevel, scopevars, born>>

(* v_end: leave the macros above the innermost file, and that file at its  *)
(* end.                                                                    *)
MacrosAbove == CHOOSE n \in 0..(Len(inc) - 1) :
                 ~inc[n + 1].macro /\ \A i \in 1..n : inc[i].macro
LevelAfterEnd(n) == mlevel - n
End ==
  /\ Runs("end")
  /\ LET n == MacrosAbove
         rest == SubSeq(inc, n + 1, Len(inc))
     IN  /\ inc' = [rest EXCEPT ![1].at = Len(text[rest[1].src]) + 1]
         /\ mlevel' = LevelAfterEnd(n)
         /\ local' = IF n = 0 THEN local ELSE inc[n].saveidx
         /\ dollar' = IF n = 0 THEN dollar ELSE inc[n].savedolidx
  /\ UNCHANGED <<ctlvars, ifs, reps, lastLocal, lastDollar, born>>

(* End of a file: its loops and conditionals are dropped as long as they   *)
(* are on top.                                                             *)
OuterOne(stack, id) ==   \* mutant: if for while
  IF stack # <<>> /\ Head(stack).frame = id THEN Tail(stack) ELSE stack
Outer(stack, id) ==
  LET k == CHOOSE k \in 1..(Len(stack) + 1) :
             /\ \A i \in 1..(k - 1) : stack[i].frame = id
             /\ k <= Len(stack) => stack[k].frame # id
  IN  SubSeq(stack, k, Len(stack))

CloseFile ==
  /\ inc # <<>> /\ AtEnd /\ ~Top.macro
  /\ reps' = Outer(reps, Top.id)
  /\ ifs' = Outer(ifs, Top.id)
  /\ inc' = Tail(inc)
  /\ UNCHANGED <<ctlvars, mlevel, scopevars, born>>

-----------------------------------------------------------------------------
(* nextpass: the scopes start anew; Ifstack, Reploop and Mlevel do not. *)
NextPass ==
  /\ inc = <<>> /\ ~done /\ pass < PassBound
  /\ pass' = pass + 1
  /\ local' = 0 /\ lastLocal' = 0 /\ dollar' = 0 /\ lastDollar' = 0
  /\ inc' = <<File(Main, born + 1)>> /\ born' = born + 1
  /\ UNCHANGED <<text, done, ifs, reps, mlevel>>

Finish ==
  /\ inc = <<>> /\ ~done
  /\ done' = TRUE
  /\ UNCHANGED <<text, pass, inc, ifs, reps, mlevel, scopevars, born>>

Next ==
  \/ Plain \/ Skip \/ Subroutine
  \/ If \/ IfConst \/ Else \/ Endif \/ Repeat \/ Repend
  \/ Include \/ Call \/ CallTooDeep \/ MacroText \/ Mexit \/ StrayMexit \/ End
  \/ CloseFile
  \/ NextPass \/ Finish

Spec == Init /\ [][Next]_vars
FairSpec == Spec /\ WF_vars(Next)

-----------------------------------------------------------------------------
(* Properties.                                                             *)
Frame == [id : Nat \ {0}, src : Sources, at : Nat \ {0},
          macro : BOOLEAN, saveidx : Nat, savedolidx : Nat]

(* Type invariant.  The base of Ifstack is under every path through ELSE,  *)
(* ENDIF, REPEND and the unguarded loop at the end of a file ("missing     *)
(* guard?", main.c).                                                       *)
TypeOK ==
  /\ pass \in Nat /\ done \in BOOLEAN
  /\ inc \in Seq(Frame)
  /\ ifs \in Seq([frame : Nat, xtrue : BOOLEAN, acctrue : BOOLEAN])
  /\ ifs # <<>> /\ ifs[Len(ifs)] = Base
  /\ \A i \in 1..(Len(ifs) - 1) : ifs[i].frame # 0
  /\ reps \in Seq([frame : Nat, from : Nat \ {0}, count : Nat])
  /\ mlevel \in 0..MaxMacLevel
  /\ local \in Nat /\ lastLocal \in Nat /\ dollar \in Nat /\ lastDollar \in Nat
  /\ born \in Nat

(* Code runs only where every condition around it holds: the two flags of  *)
(* the innermost entry stand for the whole stack.                          *)
ActiveMeansAllOpen ==
  Active => \A i \in DOMAIN ifs : ifs[i].xtrue /\ ifs[i].acctrue

MacroFrames == {i \in DOMAIN inc : inc[i].macro}

(* A scope of .name or of name$ labels that was left is not entered again  *)
(* in the pass, except by the return from a macro to the scopes that       *)
(* called it: labels of two scopes are never joined.                       *)
LocalFresh ==
  local' # local => \/ lastLocal < local' /\ lastLocal' = local'
                    \/ \E i \in MacroFrames : local' = inc[i].saveidx
DollarFresh ==
  dollar' # dollar => \/ lastDollar < dollar' /\ lastDollar' = dollar'
                      \/ \E i \in MacroFrames : dollar' = inc[i].savedolidx
ScopesAreFresh == [][pass' = pass => LocalFresh /\ DollarFresh]_vars

(* ENDIF, REPEND and the end of a file close only what was opened in the   *)
(* same file or macro call.                                                *)
OnlyOwnersClose ==
  [][\A i \in 1..(Len(ifs) - Len(ifs')) : ifs[i].frame = Top.id]_vars

(* A file or macro that has been left has no conditional or loop open.     *)
Alive == {inc[i].id : i \in DOMAIN inc}
NoOrphans ==
  /\ \A i \in 1..(Len(ifs) - 1) : ifs[i].frame \in Alive
  /\ \A i \in DOMAIN reps : reps[i].frame \in Alive

(* What that takes of a source: a macro that is left has closed what it    *)
(* opened.                                                                 *)
MacrosCloseOwn ==
  \A i \in DOMAIN inc : inc[i].macro /\ inc[i].id \notin Alive' =>
    /\ \A k \in 1..(Len(ifs) - 1) : ifs[k].frame # inc[i].id
    /\ \A k \in DOMAIN reps : reps[k].frame # inc[i].id

(* Every pass reads the source with the same stacks as the first. "MEXIT:  *)
(* Used in conjuction with conditionals. Exits the current macro level."   *)
(* (doc/dasm.txt).  Refuted: an IF or REPEAT left by MEXIT stays open.     *)
PassStartsOutside ==
  inc = <<>> => ifs = <<Base>> /\ reps = <<>> /\ mlevel = 0

(* Loops, nested calls and the recursion limit end. *)
Termination == <>done
=============================================================================
