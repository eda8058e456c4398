------------------------------- MODULE MCExpr -------------------------------
(* Small operands for TLC. *)
EXTENDS ExprMeaning, TLC

FewLiterals == ("3" :> 3)
Entry(n, body) == [n |-> n, unk |-> FALSE, ref |-> FALSE, body |-> body]
FewSymbols == ("." :> Entry(0, <<>>))
              @@ ("m" :> Entry(0, <<"3", "-", "x">>))
              @@ ("b" :> Entry(0, <<"&&", "3", ")", "3", "3">>))              \* broken
              @@ ("h" :> Entry(0, <<"3", "?", "x", "?", "*", "*", "3">>))   \* misread
=============================================================================
