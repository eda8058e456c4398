----------------------------- MODULE MCMnemonic -----------------------------
(* Operands of one to three items for TLC, and rows of three processors.   *)
EXTENDS Mnemonic, TLC

FewLiterals == ("0" :> 0) @@ ("2" :> 2) @@ ("3" :> 3) @@ ("4" :> 4) @@ ("9" :> 9)
Entry(n, unk, body) == [n |-> n, unk |-> unk, ref |-> FALSE, body |-> body]
FewSymbols == ("." :> Entry(5, FALSE, <<>>)) @@ ("x" :> Entry(1, TRUE, <<>>))
              @@ ("m" :> Entry(0, FALSE, <<"2", "-", "x">>))

Row(okmask) == [okmask |-> okmask, mask |-> FALSE, rel |-> FALSE, imod |-> FALSE,
                prefix |-> FALSE, msb |-> FALSE]
Rows6502 == {
  Row({"IMM8", "BYTEADR", "BYTEADRX", "WORDADR", "WORDADRX", "WORDADRY", "INDBYTEX", "INDBYTEY"}),
  Row({"WORDADR", "INDWORD"}),
  Row({"BYTEADR", "BYTEADRY", "WORDADR"}),
  Row({"REL"})}
Rows6811 == {
  [Row({"IMM16", "BYTEADR", "BYTEADRX", "BYTEADRY", "WORDADR"}) EXCEPT !.msb = TRUE, !.prefix = TRUE],
  [Row({"BYTEADR", "BYTEADRX", "BYTEADRY"}) EXCEPT !.msb = TRUE, !.mask = TRUE],
  [Row({"BYTEADR", "BYTEADRX", "BYTEADRY"}) EXCEPT !.msb = TRUE, !.mask = TRUE, !.rel = TRUE]}
Rows68705 == {
  [Row({"IMP", "BYTEADR", "BYTEADRX", "0X"}) EXCEPT !.msb = TRUE],
  [Row({"BYTEADR", "BYTEADRX", "WORDADR", "WORDADRX", "0X"}) EXCEPT !.msb = TRUE],
  [Row({"BITMOD"}) EXCEPT !.msb = TRUE, !.imod = TRUE],
  [Row({"BITBRAMOD"}) EXCEPT !.msb = TRUE, !.imod = TRUE, !.rel = TRUE]}
SomeRows == Rows6502 \cup Rows6811 \cup Rows68705
SomeExtensions == {None, "BYTEADR", "WORDADR", "BYTEADRX", "0X", "REL"}
=============================================================================
