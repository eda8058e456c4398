---------------------------- MODULE MemoryImage ----------------------------
(***************************************************************************)
(* What the output file of DASM promises, whatever its format (-f): it is  *)
(* an image of memory.  A pass starts with an empty image; from then on    *)
(* each step puts one block into it and leaves every other byte alone.  In *)
(* the formats without hunks the image only grows at its end, and a block  *)
(* may have padding in front of it.  This is the abstract specification of *)
(* module Output.                                                          *)
(***************************************************************************)
EXTENDS Integers

VARIABLES
  mem,      \* a function from some addresses to bytes
  padded    \* the format has no hunks

Init == mem = <<>> /\ padded \in BOOLEAN

Lay ==
  /\ padded' = padded
  /\ \E m \in {mem}, n \in {mem'} :
       LET changed == {x \in DOMAIN n : x \in DOMAIN m => n[x] # m[x]}
       IN  /\ DOMAIN m \subseteq DOMAIN n
           /\ \A x, y \in changed : x..y \subseteq DOMAIN n
           /\ padded => /\ changed \cap DOMAIN m = {}
                        /\ \A x \in DOMAIN m, y \in changed : x..y \subseteq DOMAIN n

Restart == mem' = <<>> /\ padded' = padded

Spec == Init /\ [][Lay \/ Restart]_<<mem, padded>>
=============================================================================
