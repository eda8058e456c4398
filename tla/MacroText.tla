------------------------------ MODULE MacroText ------------------------------
(***************************************************************************)
(* What happens to the text of a line before a handler sees it: cleanup    *)
(* (comments, tabs, quotes, macro arguments), parse (three words), findext *)
(* and the definition and call of macros: v_macro in src/main.c, v_execmac *)
(* and the extensions of v_dc in src/ops.c.                                *)
(*                                                                         *)
(* A line is a sequence of tokens of one character each, or of a word; the *)
(* token "hard" is the character 0x80 that stands for a blank inside       *)
(* quotes, and a token of ArgNumber is an opening brace with the number    *)
(* behind it.  A token counts as one character of MAXLINE.  The period in  *)
(* front of a word is a token of its own.  The lines of this module fit in *)
(* Avbuf.  Conditions take any value and are opened in the file, not in a  *)
(* macro (module Nesting has those).                                       *)
(***************************************************************************)
EXTENDS Integers, Sequences, FiniteSets, FiniteSetsExt

CONSTANTS
  Sources,      \* the files considered: sequences of lines
  ArgNumber,    \* a function: the opening braces and their numbers
  Extension,    \* a function: the tokens .xy and the pair of letters
  DataOps,      \* a function: mnemonics of v_dc and the extension they imply
  MAXLINE,      \* 1024
  MaxMacLevel,  \* MAXMACLEVEL, 32
  PassBound     \* bound for the model checker on the number of passes

(* The strings, and those that cleanup itself makes, for the provers.      *)
Tokens == STRING \cup {" ", "hard"}

(* fgets leaves room for the final 0.                                      *)
ASSUME TextAssumption ==
  /\ MAXLINE \in Nat \ {0} /\ MaxMacLevel \in Nat /\ PassBound \in Nat \ {0}
  /\ \A f \in Sources : f \in Seq(Seq(Tokens)) /\ \A i \in DOMAIN f : Len(f[i]) < MAXLINE
  /\ \A c \in DOMAIN ArgNumber : ArgNumber[c] \in Nat

VARIABLES
  file, at, pass,
  frames,     \* the macro calls on the INCFILE list, innermost first
  ifs,        \* the conditions of Ifstack
  macros,     \* the MACROs of MHash: a function from names to bodies
  recording,  \* v_macro: name, whether it exists, the lines so far
  mode,       \* "read", "clean", "parse", "line"; "done", "panic" or "abort"
  buf, pos,   \* the line and str of cleanup
  errors,
  raw, av,    \* the line as it was read; Av[0], Av[1] and Av[2]
  taken,      \* history: the lines of the file the line loop got, per pass
  nested      \* history: a definition was read while a macro was running
text == <<buf, pos, raw, av>>
history == <<taken, nested>>
vars == <<file, at, pass, frames, ifs, macros, recording, mode, text, errors, history>>

NoWords == [label |-> <<>>, op |-> <<>>, rest |-> <<>>]

Init ==
  /\ file \in Sources /\ at = 1 /\ pass = 1
  /\ frames = <<>> /\ ifs = <<>> /\ macros = <<>> /\ recording = <<>>
  /\ mode = "read" /\ buf = <<>> /\ pos = 1 /\ errors = 0 /\ raw = <<>> /\ av = NoWords
  /\ taken = [p \in 1..PassBound |-> <<>>] /\ nested = FALSE

Active == \A i \in DOMAIN ifs : ifs[i]
Recording == recording # <<>>

-----------------------------------------------------------------------------
(* The line loop of MainShadow, and the one of v_macro, which always reads *)
(* the file below the macro calls.                                         *)
Fetch(line) == buf' = line /\ raw' = line /\ pos' = 1 /\ mode' = "clean" /\ UNCHANGED av

ReadFile ==
  /\ mode = "read" /\ at <= Len(file) /\ (frames = <<>> \/ Recording)
  /\ Fetch(file[at]) /\ at' = at + 1
  /\ taken' = IF Recording THEN taken ELSE [taken EXCEPT ![pass] = Append(@, at)]
  /\ UNCHANGED <<file, pass, frames, ifs, macros, recording, errors, nested>>
ReadMacro ==
  /\ mode = "read" /\ frames # <<>> /\ ~Recording /\ frames[1].body # <<>>
  /\ Fetch(Head(frames[1].body)) /\ frames' = [frames EXCEPT ![1].body = Tail(@)]
  /\ UNCHANGED <<file, at, pass, ifs, macros, recording, errors, history>>
MacroEnds ==
  /\ mode = "read" /\ frames # <<>> /\ ~Recording /\ frames[1].body = <<>>
  /\ frames' = Tail(frames)
  /\ UNCHANGED <<file, at, pass, ifs, macros, recording, mode, text, errors, history>>
(* Premature end of file *)
NoEndm ==
  /\ mode = "read" /\ Recording /\ at > Len(file) /\ mode' = "panic"
  /\ UNCHANGED <<file, at, pass, frames, ifs, macros, recording, text, errors, history>>
(* MHash keeps its macros from pass to pass. *)
PassEnds ==
  /\ mode = "read" /\ frames = <<>> /\ ~Recording /\ at > Len(file)
  /\ IF pass < PassBound THEN pass' = pass + 1 /\ at' = 1 /\ UNCHANGED mode
                         ELSE mode' = "done" /\ UNCHANGED <<pass, at>>
  /\ ifs' = <<>>
  /\ UNCHANGED <<file, frames, macros, recording, text, errors, history>>

-----------------------------------------------------------------------------
(* cleanup: one action for each case of its switch. *)
FirstFrom(s, i, T) == Min({j \in i..Len(s) : s[j] \in T} \cup {Len(s) + 1})
Char == IF pos <= Len(buf) THEN buf[pos] ELSE "nl"
Cleaning == mode = "clean"
Stays == UNCHANGED <<file, at, pass, frames, ifs, macros, recording, raw, av, history>>

(* br2: the line is cut at str, and so are the blanks in front of it.      *)
Trimmed(s) ==
  LET kept == {i \in DOMAIN s : s[i] # " "} IN
  SubSeq(s, 1, IF kept = {} THEN 0 ELSE Max(kept))

EndOfText ==
  /\ Cleaning /\ Char \in {";", "nl"}
  /\ buf' = Trimmed(SubSeq(buf, 1, pos - 1)) /\ mode' = "parse"
  /\ Stays /\ UNCHANGED <<pos, errors>>
Tab ==
  /\ Cleaning /\ Char = "tab"
  /\ buf' = [buf EXCEPT ![pos] = " "] /\ pos' = pos + 1
  /\ Stays /\ UNCHANGED <<mode, errors>>
Apostrophe ==
  /\ Cleaning /\ Char = "'"
  /\ LET next == IF pos + 1 <= Len(buf) THEN buf[pos + 1] ELSE "nl" IN
     buf' = CASE next \in {" ", "tab"} -> [buf EXCEPT ![pos + 1] = "hard"]
              [] next = "nl" -> Append(SubSeq(buf, 1, pos), "hard")
              [] OTHER -> buf
  /\ pos' = pos + 2
  /\ Stays /\ UNCHANGED <<mode, errors>>
Harden(s, i, j) == [k \in DOMAIN s |-> IF i <= k /\ k < j /\ s[k] = " " THEN "hard" ELSE s[k]]
SoftQuote ==   \* mutant: blanks inside quotes are left alone
  /\ Cleaning /\ Char = "\""
  /\ pos' = Min({Len(buf) + 1, FirstFrom(buf, pos + 1, {"\""}) + 1})
  /\ Stays /\ UNCHANGED <<buf, mode, errors>>
Quote ==
  /\ Cleaning /\ Char = "\""
  /\ LET end == FirstFrom(buf, pos + 1, {"\""}) IN
     /\ buf' = Harden(buf, pos, end)
     /\ errors' = IF end > Len(buf) THEN errors + 1 ELSE errors
     /\ pos' = Min({Len(buf) + 1, end + 1})
  /\ Stays /\ UNCHANGED mode

(* {n}: the argument takes the place of the braces and is scanned again.   *)
Arguments == IF frames = <<>> THEN <<>> ELSE frames[1].args
Given == ArgNumber[Char] + 1 <= Len(Arguments)
Argument == Arguments[ArgNumber[Char] + 1]
Braces == Cleaning /\ Char \in DOMAIN ArgNumber /\ ~Recording
Close == FirstFrom(buf, pos, {"}"})
Closed == Close <= Len(buf)
Behind == SubSeq(buf, Close + 1, Len(buf))
FitsLoosely(arg) == pos - 1 + Len(arg) + Len(Behind) <= MAXLINE   \* mutant: the final 0
Fits(arg) == pos - 1 + Len(arg) + Len(Behind) + 1 <= MAXLINE
NoCloseStays ==   \* mutant: str is back at the brace
  /\ Braces /\ ~Closed
  /\ pos' = pos
  /\ buf' = Append(buf, " ")
  /\ Stays /\ UNCHANGED <<mode, errors>>
NoClose ==
  /\ Braces /\ ~Closed
  /\ pos' = Len(buf) + 1
  /\ Stays /\ UNCHANGED <<buf, mode, errors>>
Substitute ==
  /\ Braces /\ Closed /\ Given
  /\ IF Fits(Argument)
     THEN buf' = SubSeq(buf, 1, pos - 1) \o Argument \o Behind /\ UNCHANGED mode
     ELSE mode' = "panic" /\ UNCHANGED buf
  /\ Stays /\ UNCHANGED <<pos, errors>>
NotGiven ==
  /\ Braces /\ Closed /\ ~Given
  /\ buf' = Trimmed(SubSeq(buf, 1, Close)) /\ mode' = "parse" /\ errors' = errors + 1
  /\ Stays /\ UNCHANGED pos
(* Any characters up to the next that means something. *)
Special == {";", "nl", "tab", "'", "\""} \cup (IF Recording THEN {} ELSE DOMAIN ArgNumber)
PlainChars ==
  /\ Cleaning /\ pos <= Len(buf) /\ Char \notin Special
  /\ pos' = FirstFrom(buf, pos, Special)
  /\ Stays /\ UNCHANGED <<buf, mode, errors>>

-----------------------------------------------------------------------------
(* parse: label, opcode and the rest, in which runs of blanks become one.  *)
Soft(s) == [i \in DOMAIN s |-> IF s[i] = "hard" THEN " " ELSE s[i]]
AfterBlanks(s, i) == Min({j \in i..Len(s) : s[j] # " "} \cup {Len(s) + 1})
Doubled(s, i) == i < Len(s) /\ s[i] = " " /\ s[i + 1] = " "
Squeezed(s) ==
  LET kept[i \in 0..Len(s)] ==
        IF i = 0 THEN <<>>
        ELSE IF Doubled(s, i) THEN kept[i - 1] ELSE Append(kept[i - 1], s[i])
  IN  kept[Len(s)]
Words(s) ==
  LET endLabel == FirstFrom(s, 1, {" ", ":"})
      colon == endLabel <= Len(s) /\ s[endLabel] = ":"
      op == AfterBlanks(s, IF colon THEN endLabel + 1 ELSE endLabel)
      endOp == FirstFrom(s, op, {" "})
      rest == AfterBlanks(s, endOp)
  IN  [label |-> Soft(SubSeq(s, 1, endLabel - 1)),
       op |-> Soft(SubSeq(s, op, endOp - 1)),
       rest |-> Soft(Squeezed(SubSeq(s, rest, Len(s))))]

(* findext: what the two letters of an extension ask for, or an assertion. *)
ModeOf(first, second) ==
  CASE first \in {"0", "i"} /\ second = "x" -> "0X"
    [] first \in {"0", "i"} /\ second = "y" -> "0Y"
    [] first \in {"0", "i"} /\ second = "n" -> "INDWORD"
    [] first \in {"d", "b", "z"} ->
         CASE second = "x" -> "BYTEADRX" [] second = "y" -> "BYTEADRY"
           [] second = "i" -> "BITMOD"   [] second = "b" -> "BITBRAMOD" [] OTHER -> "BYTEADR"
    [] first \in {"e", "w", "a"} ->
         CASE second = "x" -> "WORDADRX" [] second = "y" -> "WORDADRY" [] OTHER -> "WORDADR"
    [] first = "l" -> "LONG"
    [] first = "r" -> "REL"
    [] first = "u" -> "BSS"
    [] OTHER -> "assertion"
Dotted(op) == op # <<>> /\ op[1] = "."   \* .OP for OP, which has no extension
Extended(op) == op # <<>> /\ ~Dotted(op) /\ op[Len(op)] \in DOMAIN Extension
Mnext(op) ==
  IF Extended(op) THEN LET e == Extension[op[Len(op)]] IN ModeOf(e[1], e[2]) ELSE "none"
Mnemonic(op) ==
  IF Dotted(op) THEN Tail(op)
  ELSE IF Extended(op) THEN SubSeq(op, 1, Len(op) - 1) ELSE op

-----------------------------------------------------------------------------
(* v_execmac: argument 0 is the whole line, the others end at commas.      *)
ArgumentEnd(s, i) == FirstFrom(s, i, {",", "nl"})
NextArgument(s, j) == IF j <= Len(s) /\ s[j] = "," THEN AfterBlanks(s, j + 1) ELSE j
RestFrom(s) ==
  LET rest[i \in 1..Len(s) + 1] ==
        IF i > Len(s) \/ s[i] = "nl" THEN <<>>
        ELSE <<SubSeq(s, i, ArgumentEnd(s, i) - 1)>> \o rest[NextArgument(s, ArgumentEnd(s, i))]
  IN  rest[1]
CallArguments(s) == <<s>> \o RestFrom(s)

Pseudo == {<<"mac">>, <<"endm">>, <<"if">>, <<"endif">>} \cup DOMAIN DataOps
Exists(name) == name \in Pseudo \cup DOMAIN macros

(* The words of the line, and findext of the second. *)
Parse ==
  /\ mode = "parse"
  /\ av' = Words(buf) /\ buf' = Soft(buf)
  /\ mode' = IF Mnext(Words(buf).op) = "assertion" THEN "abort" ELSE "line"
  /\ UNCHANGED <<file, at, pass, frames, ifs, macros, recording, pos, errors, raw, history>>

Op == Mnemonic(av.op)
Handle ==
  /\ mode = "line" /\ mode' = "read"
  /\ UNCHANGED <<file, at, pass, text, taken>>

(* v_macro stores the line as parse has left it. *)
BodyLine ==
  /\ Handle /\ Recording /\ Op # <<"endm">>
  /\ recording' = [recording EXCEPT !.lines = Append(@, buf)]
  /\ UNCHANGED <<frames, ifs, macros, errors, nested>>
EndOfBody ==
  /\ Handle /\ Recording /\ Op = <<"endm">>
  /\ macros' = IF recording.exists THEN macros
               ELSE [n \in DOMAIN macros \cup {recording.name} |->
                       IF n = recording.name THEN recording.lines ELSE macros[n]]
  /\ recording' = <<>>
  /\ UNCHANGED <<frames, ifs, errors, nested>>

Runs == Handle /\ ~Recording
Otherwise == UNCHANGED <<frames, ifs, macros, recording, errors, nested>>

(* v_macro is also called where the line is not active, to pass the body.  *)
DefineOnce ==   \* mutant: a name that exists returns before the body is read
  /\ Runs /\ Op = <<"mac">>
  /\ recording' = IF ~Active \/ Exists(av.rest) THEN <<>>
                  ELSE [name |-> av.rest, exists |-> FALSE, lines |-> <<>>]
  /\ nested' = (nested \/ frames # <<>>)
  /\ UNCHANGED <<frames, ifs, macros, errors>>
Define ==
  /\ Runs /\ Op = <<"mac">>
  /\ recording' = [name |-> av.rest, lines |-> <<>>,
                   exists |-> ~Active \/ Exists(av.rest)]
  /\ nested' = (nested \/ frames # <<>>)
  /\ UNCHANGED <<frames, ifs, macros, errors>>
Call ==
  /\ Runs /\ Active /\ Op \in DOMAIN macros
  /\ frames' = IF Len(frames) = MaxMacLevel THEN frames
               ELSE <<[body |-> macros[Op], args |-> CallArguments(av.rest)]>> \o frames
  /\ UNCHANGED <<ifs, macros, recording, errors, nested>>
Endm ==
  /\ Runs /\ Active /\ Op = <<"endm">>
  /\ frames' = IF frames = <<>> THEN frames ELSE Tail(frames)
  /\ UNCHANGED <<ifs, macros, recording, errors, nested>>
If ==
  /\ Runs /\ Op = <<"if">>
  /\ \E c \in BOOLEAN : (c => Active) /\ ifs' = <<c>> \o ifs
  /\ UNCHANGED <<frames, macros, recording, errors, nested>>
Endif ==
  /\ Runs /\ Op = <<"endif">>
  /\ ifs' = IF ifs = <<>> THEN ifs ELSE Tail(ifs)
  /\ UNCHANGED <<frames, macros, recording, errors, nested>>
(* v_dc asks findext for the size its own name implies: x.b, x.w, x.v, ... *)
OwnExtension == \A i \in DOMAIN DataOps[Op] : ModeOf(DataOps[Op][i], "") # "assertion"
Data ==
  /\ mode = "line" /\ ~Recording /\ Active /\ Op \in DOMAIN DataOps
  /\ mode' = IF OwnExtension THEN "read" ELSE "abort"
  /\ UNCHANGED <<file, at, pass, text, taken>> /\ Otherwise
LabelOnly == Runs /\ Op = <<>> /\ Otherwise
Unknown ==
  /\ Runs /\ Active /\ Op # <<>> /\ ~Exists(Op)
  /\ errors' = errors + 1
  /\ UNCHANGED <<frames, ifs, macros, recording, nested>>
Skipped ==
  /\ Runs /\ ~Active /\ Op # <<>> /\ Op \notin {<<"mac">>, <<"if">>, <<"endif">>}
  /\ Otherwise

Next ==
  \/ ReadFile \/ ReadMacro \/ MacroEnds \/ NoEndm \/ PassEnds
  \/ EndOfText \/ Tab \/ Apostrophe \/ Quote \/ NoClose \/ Substitute \/ NotGiven \/ PlainChars
  \/ Parse \/ BodyLine \/ EndOfBody \/ Define \/ Call \/ Endm \/ If \/ Endif
  \/ Data \/ LabelOnly \/ Unknown \/ Skipped
Spec == Init /\ [][Next]_vars

-----------------------------------------------------------------------------
TypeOK ==
  /\ at \in 1..Len(file) + 1 /\ pass \in 1..PassBound
  /\ mode \in {"read", "clean", "parse", "line", "done", "panic", "abort"}
  /\ pos \in Nat \ {0} /\ (Cleaning => pos <= Len(buf) + 1) /\ errors \in Nat
  /\ buf \in Seq(Tokens) /\ Len(frames) <= MaxMacLevel

(* A line that hands {0} on gets the argument line of the call as it is,   *)
(* blanks in quotes and characters like a blank or a semicolon behind an   *)
(* apostrophe included; where every macro hands it on, the innermost of    *)
(* several calls has the line of the outermost, and a string of the line   *)
(* of the file has come through all of them ("an EXACT substitution of the *)
(* ENTIRE argument line", src/doc/dasm.txt:462; cleanup and parse run over *)
(* it with every call).                                                    *)
HandsOn(line) == Len(line) = 5 /\ line[1] = " " /\ SubSeq(line, 3, 5) = <<" ", "{0", "}">>
AllHandOn == \A m \in DOMAIN macros : \A i \in DOMAIN macros[m] : HandsOn(macros[m][i])
StringsOf(s) ==
  LET from[i \in 1..Len(s) + 2] ==
        CASE i > Len(s) -> {}
          [] i <= Len(s) /\ s[i] \in {";", "nl"} -> {}
          [] i <= Len(s) /\ s[i] = "'" -> from[i + 2]
          [] i <= Len(s) /\ s[i] = "\"" ->
               LET end == FirstFrom(s, i + 1, {"\""}) IN
               IF end > Len(s) THEN {} ELSE {SubSeq(s, i, end)} \cup from[end + 1]
          [] OTHER -> from[i + 1]
  IN  from[1]
Contains(s, part) == \E i \in 1..Len(s) - Len(part) + 1 : SubSeq(s, i, i + Len(part) - 1) = part
ExactArgumentLine ==
  mode = "line" /\ frames # <<>> /\ HandsOn(raw) =>
    /\ av.rest = frames[1].args[1]
    /\ AllHandOn => \A k \in DOMAIN frames : frames[k].args[1] = av.rest
    /\ AllHandOn /\ ~nested =>
         \A string \in StringsOf(file[at - 1]) : Contains(av.rest, string)

(* A line never grows past its buffer, whatever the arguments put in; only *)
(* an apostrophe at the end of a full line takes one character more        *)
(* (main.c:841-848, 902), a hard blank until the line is parsed.           *)
LineFits ==
  \/ Len(buf) + 1 <= MAXLINE
  \/ Len(buf) = MAXLINE /\ buf[Len(buf)] \in {"hard", " "}

(* The first pass records a macro where a later one only passes over it,   *)
(* and either may be in a branch that is not active: both must agree on    *)
(* which lines of the file are bodies.                                     *)
IsPrefixOf(s, t) == Len(s) <= Len(t) /\ s = SubSeq(t, 1, Len(s))
PassesAgree ==
  ~nested => \A p \in 2..pass : IsPrefixOf(taken[p], taken[p - 1])

(* The scan of a line ends: every step passes a character or uses up a     *)
(* brace, and what an argument brings in does not start it again.  The     *)
(* arguments of these files hold no braces (with a string "a,{2}" as the  *)
(* argument line, argument 2 puts itself in, and main.c:878 never returns).*)
Openings == {i \in pos..Len(buf) : buf[i] \in DOMAIN ArgNumber}
Remaining == Cardinality(Openings) * (MAXLINE + 2) + Len(buf) + 2 - pos
ScanProgresses == [][Cleaning /\ mode' = "clean" => Remaining' < Remaining]_vars
=============================================================================
