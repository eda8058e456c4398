-------------------------------- MODULE Arena --------------------------------
(***************************************************************************)
(* The arena behind dalloc (src/dalloc.c, the variant with                 *)
(* _DASM_ARENA_ALLOC, which is the default): objects are cut one after the *)
(* other from blocks of ALLOCSIZE bytes that malloc gives, and all blocks  *)
(* are freed when the program exits.  An address is a block and an offset. *)
(***************************************************************************)
EXTENDS Integers, FiniteSets

CONSTANTS
  Ids,        \* addresses malloc may return
  NoBlock,    \* NULL
  ALLOCSIZE   \* bytes of a block

Alignment == 8
RoundUp(bytes) == ((bytes + Alignment - 1) \div Alignment) * Alignment
Header == 8   \* ROUNDUP(sizeof(block->next))
Room == ALLOCSIZE - Header

ASSUME ArenaAssumption ==
  /\ ALLOCSIZE \in Nat /\ ALLOCSIZE > Header /\ ALLOCSIZE % Alignment = 0
  /\ NoBlock \notin Ids

VARIABLES
  heap,      \* blocks malloc gave and nobody freed
  blocks,    \* those on new_permalloc_stack
  buf,       \* where the next object goes: a block and an offset
  left,      \* bytes left there
  objects,   \* every object that was handed out
  phase      \* "run", "exiting" (exit was called) or "freed"
arena == <<heap, blocks, buf, left, objects, phase>>

Object(block, at, size) == [block |-> block, at |-> at, size |-> size]

ArenaInit ==
  /\ heap = {} /\ blocks = {} /\ objects = {}
  /\ buf = [block |-> NoBlock, at |-> 0] /\ left = 0
  /\ phase = "run"

(* The next object, rounded up, from a place with a number of bytes left.  *)
GiveTight(place, room, bytes) ==   \* mutant: not rounded up, one byte short
  /\ buf' = [place EXCEPT !.at = @ + bytes - 1]
  /\ left' = room - (bytes - 1)
  /\ objects' = objects \cup {Object(place.block, place.at, bytes)}
Give(place, room, bytes) ==
  /\ buf' = [place EXCEPT !.at = @ + RoundUp(bytes)]
  /\ left' = room - RoundUp(bytes)
  /\ objects' = objects \cup {Object(place.block, place.at, bytes)}

TakeFits(bytes) ==
  /\ phase = "run" /\ RoundUp(bytes) <= left
  /\ Give(buf, left, bytes)
  /\ UNCHANGED <<heap, blocks, phase>>
TakeNewBlock(bytes) ==
  /\ phase = "run" /\ RoundUp(bytes) > left /\ RoundUp(bytes) <= Room
  /\ \E b \in Ids \ heap :
       /\ heap' = heap \cup {b} /\ blocks' = blocks \cup {b}
       /\ Give([block |-> b, at |-> Header], Room, bytes)
  /\ UNCHANGED phase
(* small_alloc: an object of bytes > 0.                                    *)
Take(bytes) == TakeFits(bytes) \/ TakeNewBlock(bytes)

(* Too large for any block: the block is lost, left is already changed.    *)
TakeTooLarge(bytes) ==
  /\ phase = "run" /\ RoundUp(bytes) > left /\ RoundUp(bytes) > Room
  /\ \E b \in Ids \ heap : heap' = heap \cup {b}
  /\ left' = Room /\ phase' = "exiting"
  /\ UNCHANGED <<blocks, buf, objects>>
(* malloc has nothing left: checked_malloc panics.                         *)
OutOfMemory(bytes) ==
  /\ phase = "run" /\ RoundUp(bytes) > left
  /\ phase' = "exiting"
  /\ UNCHANGED <<heap, blocks, buf, left, objects>>

Exit == phase = "run" /\ phase' = "exiting" /\ UNCHANGED <<heap, blocks, buf, left, objects>>

(* dfree_all, the last call of exit_handler: buf and left stay as they are *)
FreeAll ==
  /\ phase = "exiting" /\ phase' = "freed"
  /\ heap' = heap \ blocks /\ blocks' = {}
  /\ UNCHANGED <<buf, left, objects>>

ArenaNext ==
  \/ \E bytes \in Nat \ {0} :
       Take(bytes) \/ TakeTooLarge(bytes) \/ OutOfMemory(bytes)
  \/ Exit \/ FreeAll
ArenaSpec == ArenaInit /\ [][ArenaNext]_arena

-----------------------------------------------------------------------------
ArenaTypeOK ==
  /\ heap \subseteq Ids /\ blocks \subseteq heap
  /\ buf \in [block : Ids \cup {NoBlock}, at : Nat]
  /\ left \in Nat
  /\ objects \subseteq [block : Ids, at : Nat, size : Nat \ {0}]
  /\ phase \in {"run", "exiting", "freed"}

Apart(o, p) == o.block # p.block \/ o.at + o.size <= p.at \/ p.at + p.size <= o.at

(* Two objects that small_alloc handed out never share a byte, whatever    *)
(* sizes were asked for and however often a new block was needed.          *)
ObjectsApart == \A o, p \in objects : o # p => Apart(o, p)

(* Every object lies between the link and the end of a block that is still *)
(* allocated, at an aligned address, until the program exits.              *)
ObjectsBacked ==
  \A o \in objects :
    /\ Header <= o.at /\ o.at + o.size <= ALLOCSIZE /\ o.at % Alignment = 0
    /\ phase # "freed" => o.block \in heap
=============================================================================
