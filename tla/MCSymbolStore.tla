---------------------------- MODULE MCSymbolStore ----------------------------
(* Blocks are interchangeable for TLC. *)
EXTENDS SymbolStore, TLC

Blocks == Permutations(Ids)
=============================================================================
