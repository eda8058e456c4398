---------------------------- MODULE MCMacroText ----------------------------
(* Small files for TLC.                                                    *)
EXTENDS MacroText

Braces3 == [c \in {"{0", "{1", "{2"} |-> CASE c = "{0" -> 0 [] c = "{1" -> 1 [] c = "{2" -> 2]
Line(op, rest) == <<" ", op>> \o rest \o <<"nl">>
Operand(rest) == <<" ">> \o rest
Body(name, lines) == <<Line("mac", Operand(<<name>>))>> \o lines \o <<Line("endm", <<>>)>>
Use(n, op) == <<" ", op, " ", n, "}">>

(* One call, with every argument line of four characters, through one      *)
(* macro or two.                                                           *)
Marks == {"x", " ", "\"", "'", ";", ",", "tab"}
Outer == {Line("dc", Operand(<<"{0", "}">>)), Line("n", Operand(<<"{0", "}">>)),
          Line("dc", Operand(<<"{2", "}", "{1", "}">>)),
          Line("dc", Operand(<<"{0", "}", "'", "{0", "}", "{0", "}">>))}
CallFiles ==
  {Body("n", <<Line("dc", Operand(<<"{0", "}">>))>>) \o Body("m", <<o>>)
     \o <<Line("m", Operand(x))>> : o \in Outer, x \in [1..4 -> Marks]}

(* Definitions, calls and conditions in any order.                         *)
Statements == {Line("mac", Operand(<<"m">>)), <<" ", ".", "endm", "nl">>,
  <<" ", "m", ".b", " ", "x", "nl">>,
  Line("m", <<>>), Line("if", <<>>), Line("endif", <<>>),
  <<"x", ":", " ", "dc", " ", "x", "{1", "nl">>, Line("dc", Operand(<<"{1", "}", "x">>)),
  <<"m", " ", "m", " ", "x", ",", "x", ";", "nl">>, <<"x", "nl">>}
DefinitionFiles == [1..4 -> Statements]

(* A line as long as fgets reads, that ends in an apostrophe.              *)
Full == Line("dc", Operand([i \in 1..(MAXLINE - 5) |-> "x"] \o <<"'">>))
FullLine == SubSeq(Full, 1, MAXLINE - 1)
FullFiles == {<<FullLine>>, Body("m", <<FullLine>>) \o <<Line("m", <<>>)>>}

(* Sizes behind a mnemonic and sizes it implies; .i and dv are assertions. *)
Sized == [c \in {".b", ".i", ".ix"} |->
  CASE c = ".b" -> <<"b", "">> [] c = ".i" -> <<"i", "">> [] c = ".ix" -> <<"i", "x">>]
Sizes == [op \in {<<"dc">>, <<"dv">>, <<"word">>} |->
  CASE op = <<"dc">> -> <<>> [] op = <<"dv">> -> <<"v">> [] op = <<"word">> -> <<"w">>]
SizeFiles ==
  {<<<<" ", op[1]>> \o x \o <<" ", "x", "nl">>>> :
     op \in DOMAIN Sizes, x \in {<<>>} \cup {<<e>> : e \in DOMAIN Sized}}

TextFiles == CallFiles \cup DefinitionFiles \cup FullFiles \cup SizeFiles
=============================================================================
