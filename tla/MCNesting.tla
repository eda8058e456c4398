----------------------------- MODULE MCNesting ------------------------------
(* Small sources for the stacks of module Nesting.                         *)
EXTENDS Nesting

L(op) == [op |-> op, lab |-> FALSE, count |-> 0, target |-> Main]
Labelled(op) == [L(op) EXCEPT !.lab = TRUE]
Rep(n) == [L("repeat") EXCEPT !.count = n]
To(op, name) == [L(op) EXCEPT !.target = name]

(* Any few lines in the main file and in an included file; in macros only  *)
(* conditionals and loops that are closed before the macro is left.        *)
MainLines == {L("if"), L("else"), Labelled("endif"), Rep(2), L("repend"),
              To("call", "m"), To("include", "f"), Labelled("ifconst")}
FileLines == {L("if"), L("endif"), L("repend"), To("call", "m"), L("end"), L("else")}
ClosedMacros == {
  <<L("if"), Labelled("plain"), L("else"), To("call", "n"), L("endif")>>,
  <<Rep(2), L("subroutine"), To("call", "n"), L("repend")>>,
  <<To("include", "f"), To("include", "nofile"), L("mexit"), L("plain")>>}
StructuredTexts ==
  {[t \in {Main, "f", "m", "n"} |->
      CASE t = Main -> p [] t = "f" -> q [] t = "m" -> b
        [] t = "n" -> <<Labelled("plain"), L("mexit"), L("plain")>>] :
    p \in [1..3 -> MainLines], q \in [1..2 -> FileLines \ {To("call", "m")}],
    b \in ClosedMacros}

(* A macro that calls itself, guarded or not, with scopes in between.      *)
RecursiveTexts ==
  {[t \in {Main, "f", "m", "n"} |->
      CASE t = Main -> <<To("call", "m"), L("subroutine"), To("call", "m")>>
        [] t = "f" -> <<L("mexit"), L("subroutine"), Rep(2), L("plain"), L("repend")>>
        [] t = "m" -> b [] t = "n" -> <<To("call", "m")>>] :
    b \in [1..3 -> {To("call", "m"), To("call", "n"), L("subroutine"), L("mexit"),
                    L("end"), [To("call", "m") EXCEPT !.lab = TRUE], To("include", "f"), L("plain")}]}

NestingTexts == StructuredTexts \cup RecursiveTexts

(* MEXIT used with conditionals, as in machines/atari2600/macro.h.         *)
MexitTexts ==
  {[t \in {Main, "f", "m", "n"} |->
      CASE t = Main -> <<To("call", "m"), L("if"), L("plain"), L("endif"), L("plain")>>
        [] t = "m" -> <<Rep(2), L("if"), L("mexit"), L("endif"), L("repend")>>
        [] OTHER -> <<L("plain")>>]}
=============================================================================
