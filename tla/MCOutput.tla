------------------------------ MODULE MCOutput ------------------------------
(* Small lines for TLC: bytes 0 .. 3, words 0 .. 15.                       *)
EXTENDS Output

FewStrings == {<<>>, <<2, 1>>}
AllFormats == {"DEFAULT", "RAS", "RAW"}
=============================================================================
