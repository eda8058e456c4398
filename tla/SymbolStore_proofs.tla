-------------------------- MODULE SymbolStore_proofs --------------------------
(***************************************************************************)
(* The symbols and strings of DASM are objects of the arena, so what is    *)
(* proved of the arena holds of them.  And each has one owner: a SYMBOL is *)
(* on the free list once, or under one name, or in one operand; a string   *)
(* belongs to one symbol or one slot of the argument stack, and to no one  *)
(* after dfree.                                                            *)
(***************************************************************************)
EXTENDS SymbolStore, BasicFacts

-----------------------------------------------------------------------------
(* The arena: no two objects overlap and none leaves its block, for all    *)
(* block sizes and all sequences of requests.                              *)

(* Where buf and left stand while objects are handed out: behind the last  *)
(* object of the block on top, with left bytes up to the end of it.        *)
BufAtEnd ==
  phase = "run" =>
    /\ buf.block = NoBlock => left = 0 /\ objects = {}
    /\ buf.block # NoBlock =>
         /\ buf.block \in blocks /\ buf.at + left = ALLOCSIZE
         /\ Header <= buf.at /\ buf.at % Alignment = 0
    /\ \A o \in objects : o.block = buf.block => o.at + o.size <= buf.at
ObjectsInBlocks == phase # "freed" => \A o \in objects : o.block \in blocks

ArenaInv == ArenaTypeOK /\ BufAtEnd /\ ObjectsInBlocks /\ ObjectsApart /\ ObjectsBacked

(* ROUNDUP gives a multiple of the alignment that is not smaller.          *)
LEMMA RoundUpBounds ==
  ASSUME NEW n \in Nat \ {0}
  PROVE  RoundUp(n) \in Nat /\ RoundUp(n) >= n /\ RoundUp(n) > 0 /\ RoundUp(n) % Alignment = 0
BY DEF RoundUp, Alignment

-----------------------------------------------------------------------------
LEMMA ArenaInitInv == ArenaInit => ArenaInv
BY ArenaAssumption DEF ArenaInit, ArenaInv, ArenaTypeOK, BufAtEnd, ObjectsInBlocks, ObjectsApart,
   ObjectsBacked

(* Handing out an object from a place that is behind all objects of its    *)
(* block, and has room for it, keeps everything apart.                     *)
LEMMA GiveKeeps ==
  ASSUME ArenaInv, phase = "run", phase' = "run",
         NEW place \in [block : Ids, at : Nat], NEW room \in Nat, NEW bytes \in Nat \ {0},
         place.block \in blocks', blocks \subseteq blocks', blocks' \subseteq heap',
         heap \subseteq heap', heap' \subseteq Ids,
         place.at + room = ALLOCSIZE, Header <= place.at, place.at % Alignment = 0,
         RoundUp(bytes) <= room,
         \A o \in objects : o.block = place.block => o.at + o.size <= place.at,
         Give(place, room, bytes)
  PROVE  ArenaInv'
<1> DEFINE new == Object(place.block, place.at, bytes)
           end == place.at + RoundUp(bytes)
<1>1. RoundUp(bytes) \in Nat /\ RoundUp(bytes) >= bytes /\ RoundUp(bytes) > 0 /\ RoundUp(bytes) % Alignment = 0
  BY RoundUpBounds
<1>2. /\ new \in [block : Ids, at : Nat, size : Nat \ {0}]
      /\ new.block = place.block /\ new.at = place.at /\ new.size = bytes
  BY DEF Object
<1>3. objects' = objects \cup {new}
  BY DEF Give
<1>4. /\ buf' = [block |-> place.block, at |-> end] /\ end \in Nat /\ left' = room - RoundUp(bytes)
      /\ left' \in Nat
  BY <1>1 DEF Give
<1>5. end % Alignment = 0
  BY <1>1 DEF Alignment
<1> HIDE DEF new, end
<1>6. ArenaTypeOK'
  BY <1>2, <1>3, <1>4 DEF ArenaInv, ArenaTypeOK
<1>7. \A o \in objects : Apart(o, new) /\ Apart(new, o)
  BY <1>2 DEF Apart
<1>8. ObjectsApart'
  BY <1>3, <1>7 DEF ArenaInv, ObjectsApart, Apart
<1>9. new.at + new.size <= end
  BY <1>1, <1>2 DEF end
<1>10. end <= ALLOCSIZE /\ end + left' = ALLOCSIZE
  BY <1>1, <1>4, ArenaAssumption DEF end
<1>11. BufAtEnd'
  <2>1. buf'.block = place.block /\ buf'.at = end /\ place.block # NoBlock
    BY <1>4, ArenaAssumption
  <2>2. Header <= end
    BY <1>1 DEF end, Header
  <2>3. \A o \in objects' : o.block = place.block => o.at + o.size <= end
    <3> SUFFICES ASSUME NEW o \in objects, o.block = place.block
                 PROVE  o.at + o.size <= end
      BY <1>3, <1>9
    <3>1. o.at + o.size <= place.at /\ o.at \in Nat /\ o.size \in Nat
      BY DEF ArenaInv, ArenaTypeOK
    <3> QED
      BY <3>1, <1>1 DEF end
  <2> QED
    BY <2>1, <2>2, <2>3, <1>5, <1>10 DEF BufAtEnd
<1>12. ObjectsInBlocks'
  BY <1>2, <1>3 DEF ArenaInv, ObjectsInBlocks
<1>13. ObjectsBacked'
  <2>1. \A o \in objects : Header <= o.at /\ o.at + o.size <= ALLOCSIZE /\ o.at % Alignment = 0 /\ o.block \in heap
    BY DEF ArenaInv, ObjectsBacked
  <2>2. Header <= new.at /\ new.at + new.size <= ALLOCSIZE /\ new.at % Alignment = 0 /\ new.block \in heap'
    <3>1. new.at + new.size \in Nat /\ end \in Nat
      BY <1>2, <1>4
    <3> QED
      BY <3>1, <1>2, <1>9, <1>10, ArenaAssumption
  <2> QED
    BY <2>1, <2>2, <1>3 DEF ObjectsBacked
<1> QED
  BY <1>6, <1>8, <1>11, <1>12, <1>13 DEF ArenaInv

LEMMA ArenaNextInv == ArenaInv /\ [ArenaNext]_arena => ArenaInv'
<1> SUFFICES ASSUME ArenaInv, [ArenaNext]_arena PROVE ArenaInv'
  OBVIOUS
<1>1. ASSUME NEW bytes \in Nat \ {0}, TakeFits(bytes) PROVE ArenaInv'
  <2>1. RoundUp(bytes) \in Nat /\ RoundUp(bytes) > 0
    BY RoundUpBounds
  <2>2. left > 0 /\ left \in Nat /\ RoundUp(bytes) <= left
    BY <1>1, <2>1 DEF TakeFits, ArenaInv, ArenaTypeOK
  <2>3. buf.block # NoBlock /\ buf \in [block : Ids, at : Nat]
    BY <1>1, <2>2 DEF TakeFits, ArenaInv, ArenaTypeOK, BufAtEnd
  <2>4. /\ buf.block \in blocks' /\ blocks' = blocks /\ heap' = heap /\ phase = "run" /\ phase' = "run"
        /\ buf.at + left = ALLOCSIZE /\ Header <= buf.at /\ buf.at % Alignment = 0
        /\ \A o \in objects : o.block = buf.block => o.at + o.size <= buf.at
    BY <1>1, <2>3 DEF TakeFits, ArenaInv, BufAtEnd
  <2>5. blocks \subseteq heap /\ heap \subseteq Ids /\ Give(buf, left, bytes)
    BY <1>1 DEF TakeFits, ArenaInv, ArenaTypeOK
  <2> QED
    BY <2>2, <2>3, <2>4, <2>5, GiveKeeps
<1>2. ASSUME NEW bytes \in Nat \ {0}, TakeNewBlock(bytes) PROVE ArenaInv'
  <2>1. PICK b \in Ids \ heap : /\ heap' = heap \cup {b} /\ blocks' = blocks \cup {b}
                               /\ Give([block |-> b, at |-> Header], Room, bytes)
    BY <1>2 DEF TakeNewBlock
  <2> DEFINE place == [block |-> b, at |-> Header]
  <2>2. place \in [block : Ids, at : Nat] /\ place.block = b /\ place.at = Header
    BY DEF Header
  <2>3. Room \in Nat /\ Header + Room = ALLOCSIZE /\ Header % Alignment = 0 /\ Header <= Header
    BY ArenaAssumption DEF Room, Header, Alignment
  <2>4. \A o \in objects : o.block # b
    BY <1>2, <2>1 DEF TakeNewBlock, ArenaInv, ArenaTypeOK, ObjectsInBlocks
  <2>5. /\ phase = "run" /\ phase' = "run" /\ RoundUp(bytes) <= Room
        /\ blocks' \subseteq heap' /\ heap' \subseteq Ids
    BY <1>2, <2>1 DEF TakeNewBlock, ArenaInv, ArenaTypeOK
  <2> HIDE DEF place
  <2>6. Give(place, Room, bytes)
    BY <2>1 DEF place
  <2> QED
    BY <2>1, <2>2, <2>3, <2>4, <2>5, <2>6, GiveKeeps
<1>3. ASSUME NEW bytes \in Nat \ {0}, TakeTooLarge(bytes) PROVE ArenaInv'
  <2>1. left' \in Nat
    BY <1>3, ArenaAssumption DEF TakeTooLarge, Room, Header
  <2> QED
    BY <1>3, <2>1 DEF TakeTooLarge, ArenaInv, ArenaTypeOK, BufAtEnd, ObjectsInBlocks, ObjectsApart,
       ObjectsBacked, Apart
<1>4. ASSUME NEW bytes \in Nat \ {0}, OutOfMemory(bytes) PROVE ArenaInv'
  BY <1>4 DEF OutOfMemory, ArenaInv, ArenaTypeOK, BufAtEnd, ObjectsInBlocks, ObjectsApart,
     ObjectsBacked, Apart
<1>5. CASE Exit
  BY <1>5 DEF Exit, ArenaInv, ArenaTypeOK, BufAtEnd, ObjectsInBlocks, ObjectsApart, ObjectsBacked, Apart
<1>6. CASE FreeAll
  BY <1>6 DEF FreeAll, ArenaInv, ArenaTypeOK, BufAtEnd, ObjectsInBlocks, ObjectsApart, ObjectsBacked,
     Apart
<1>7. CASE UNCHANGED arena
  BY <1>7 DEF arena, ArenaInv, ArenaTypeOK, BufAtEnd, ObjectsInBlocks, ObjectsApart, ObjectsBacked,
     Apart
<1> QED
  BY <1>1, <1>2, <1>3, <1>4, <1>5, <1>6, <1>7 DEF ArenaNext, Take

(* The invariant of small_alloc and dfree_all, for every sequence of        *)
(* requests and refusals.                                                  *)
THEOREM ArenaInvariant == ArenaSpec => []ArenaInv
BY ArenaInitInv, ArenaNextInv, PTL DEF ArenaSpec

(* Objects of the arena never overlap.                                     *)
THEOREM ArenaObjectsApart == ArenaSpec => []ObjectsApart
BY ArenaInvariant, PTL DEF ArenaInv

(* Objects of the arena stay inside blocks that are allocated.             *)
THEOREM ArenaObjectsBacked == ArenaSpec => []ObjectsBacked
BY ArenaInvariant, PTL DEF ArenaInv

-----------------------------------------------------------------------------
(* The store takes what it needs from the arena.                           *)
LEMMA TakeIsArena ==
  ASSUME NEW bytes \in Nat \ {0}, Take(bytes)
  PROVE  ArenaNext
BY DEF ArenaNext

LEMMA AllocIsArena ==
  ASSUME AllocSymbol
  PROVE  [ArenaNext]_arena
BY TakeIsArena, StoreAssumption DEF AllocSymbol

LEMMA StringIsArena ==
  ASSUME NEW bytes, TakeString(bytes)
  PROVE  ArenaNext
BY TakeIsArena, StoreAssumption DEF TakeString

(* Every step of the store allocates at most once.                         *)
LEMMA StepIsArena == StoreNext => [ArenaNext]_arena
<1> SUFFICES ASSUME StoreNext PROVE [ArenaNext]_arena
  OBVIOUS
<1>1. CASE CreateSymbol
  BY <1>1, AllocIsArena DEF CreateSymbol
<1>2. CASE EnterSymbol \/ PushString \/ Convert
  BY <1>2, StringIsArena DEF EnterSymbol, PushString, Convert
<1>3. CASE BeginLine \/ DvValue
  BY <1>3, AllocIsArena DEF BeginLine, DvValue, Enter
<1>4. CASE Comma
  BY <1>4, AllocIsArena DEF Comma
<1>5. CASE EndOfName
  BY <1>5, StringIsArena DEF EndOfName, CopyString
<1>6. CASE \E n \in Globals \cup Locals : PushName(n)
  <2> PICK n \in Globals \cup Locals : PushName(n)
    BY <1>6
  <2> QED
    BY StringIsArena, AllocIsArena DEF PushName, Enter
<1>7. CASE \E n \in Globals \cup Locals : Eqm(n)
  BY <1>7, StringIsArena DEF Eqm
<1>8. CASE Stop
  BY <1>8, StoreAssumption DEF Stop, Refused, ArenaNext
<1>9. CASE ChangeScope \/ PushValue \/ Combine \/ EndOfLine \/ EndOfDv \/ FreeOperand \/ LoseOperand
           \/ \E n \in Globals \cup Locals : Assign(n) \/ DvLine(n)
  BY <1>9 DEF ChangeScope, PushValue, Combine, EndOfLine, EndOfDv, FreeOperand, LoseOperand, Assign,
     DvLine
<1> QED
  BY <1>1, <1>2, <1>3, <1>4, <1>5, <1>6, <1>7, <1>8, <1>9 DEF StoreNext

(* The store only ever takes what the arena gives: it implements the       *)
(* interface of dalloc (src/dalloc.c), one object a step.                  *)
THEOREM StoreImplementsArena == StoreSpec => ArenaSpec
<1>1. StoreInit => ArenaInit
  BY DEF StoreInit
<1>2. [StoreNext]_<<arena, store>> => [ArenaNext]_arena
  BY StepIsArena
<1> QED
  BY <1>1, <1>2, PTL DEF StoreSpec, ArenaSpec

(* Symbols, names and strings never overlap, for all sizes and all sources *)
(* (small_alloc of src/dalloc.c under alloc_symbol and stackarg).          *)
THEOREM StoreObjectsApart == StoreSpec => []ObjectsApart
BY StoreImplementsArena, ArenaObjectsApart, PTL

(* Symbols, names and strings lie inside blocks that are still allocated.  *)
THEOREM StoreObjectsBacked == StoreSpec => []ObjectsBacked
BY StoreImplementsArena, ArenaObjectsBacked, PTL

-----------------------------------------------------------------------------
(* The invariant.                                                          *)

(* Cells and strings are objects. *)
Objects == [block : Ids \cup {NoBlock}, at : Nat, size : Nat]
Cell == [string : Objects, owns : BOOLEAN, eqm : BOOLEAN]
Frame == [list : Seq(Objects), args : Seq(Objects), for : {"line", "name", "dv"}]

StoreTypeOK ==
  /\ free \in Seq(Objects) /\ operand \in Seq(Objects) /\ calls \in Seq(Frame)
  /\ cells \in [DOMAIN cells -> Cell]
  /\ dfreed \subseteq objects

Once(s) == \A i, j \in DOMAIN s : i # j => s[i] # s[j]

(* The free list fr beside the cells in use: no cell twice, none in use.   *)
FreeApart(fr, used, obs) ==
  /\ used \subseteq obs /\ CellsOf(fr) \subseteq obs
  /\ Once(fr) /\ CellsOf(fr) \cap used = {}

(* A name, or the symbol that is about to get one, has a cell of its own.  *)
Entered(tb) == {tb[k] : k \in DOMAIN tb}
Unentered(nm) == IF nm = <<>> THEN {} ELSE {nm[1]}
NamesApart(tb, nm, used) ==
  /\ \A k \in DOMAIN tb : tb[k] \in used
  /\ \A k, l \in DOMAIN tb : k # l => tb[k] # tb[l]
  /\ nm # <<>> => nm[1] \in used /\ nm[1] \notin Entered(tb) /\ nm[2] \notin DOMAIN tb

(* A cell is in one operand list at most, and there once.                  *)
ListsApart(cs, op, used) ==
  /\ \A i \in DOMAIN cs :
       /\ cs[i].list # <<>> /\ Once(cs[i].list) /\ CellsOf(cs[i].list) \subseteq used
       /\ CellsOf(cs[i].list) \cap CellsOf(op) = {}
       /\ \A k \in DOMAIN cs : k # i => CellsOf(cs[i].list) \cap CellsOf(cs[k].list) = {}
  /\ Once(op) /\ CellsOf(op) \subseteq used

ListsBesideNames(tb, nm, cs, op) ==
  /\ CellsOf(op) \cap (Entered(tb) \cup Unentered(nm)) = {}
  /\ \A i \in DOMAIN cs : CellsOf(cs[i].list) \cap (Entered(tb) \cup Unentered(nm)) = {}

OnePlace(fr, used, obs, tb, nm, cs, op) ==
  /\ FreeApart(fr, used, obs) /\ NamesApart(tb, nm, used)
  /\ ListsApart(cs, op, used) /\ ListsBesideNames(tb, nm, cs, op)

(* A string that was not freed is in one slot of a stack, or is owned by   *)
(* one cell, lost cells included.                                          *)
OneOwner(ce, cs, df, obs) ==
  /\ \A c \in DOMAIN ce : ce[c].owns => ce[c].string \in obs \ df
  /\ \A c, d \in DOMAIN ce :
       ce[c].owns /\ ce[d].owns /\ c # d => ce[c].string # ce[d].string
  /\ \A i \in DOMAIN cs : \A j \in DOMAIN cs[i].args :
       cs[i].args[j] # NoString =>
         /\ cs[i].args[j] \in obs \ df
         /\ \A c \in DOMAIN ce : ce[c].owns => ce[c].string # cs[i].args[j]
         /\ \A k \in DOMAIN cs : \A l \in DOMAIN cs[k].args :
              cs[k].args[l] = cs[i].args[j] => k = i /\ l = j

(* EQM bodies are strings, and the one DV runs stays. *)
BodiesKept(ce, tb, nm, mc) ==
  /\ \A c \in Entered(tb) \cup Unentered(nm) : ce[c].eqm => ce[c].owns
  /\ mc # NoName => mc \in DOMAIN tb /\ ce[tb[mc]].eqm

Called(cs) == \A i \in DOMAIN cs : cs[i].for = "name" => i < Len(cs)

StoreInv ==
  /\ StoreTypeOK
  /\ OnePlace(free, DOMAIN cells, objects, table, naming, calls, operand)
  /\ OneOwner(cells, calls, dfreed, objects)
  /\ BodiesKept(cells, table, naming, macro) /\ Called(calls)

-----------------------------------------------------------------------------
(* Lists of cells.                                                         *)

LEMMA TailFacts ==
  ASSUME NEW S, NEW f \in Seq(S), f # <<>>
  PROVE  /\ Tail(f) \in Seq(S) /\ Len(Tail(f)) = Len(f) - 1 /\ Len(f) \in Nat \ {0}
         /\ DOMAIN f = 1..Len(f) /\ DOMAIN Tail(f) = 1..(Len(f) - 1)
         /\ \A i \in 1..(Len(f) - 1) : Tail(f)[i] = f[i + 1]
         /\ Head(f) = f[1] /\ Head(f) \in S
BY HeadTailProperties, LenProperties, EmptySeq

LEMMA TailCells ==
  ASSUME NEW S, NEW f \in Seq(S), f # <<>>, Once(f)
  PROVE  /\ CellsOf(Tail(f)) \subseteq CellsOf(f) /\ Once(Tail(f))
         /\ Head(f) \in CellsOf(f) /\ Head(f) \notin CellsOf(Tail(f))
BY TailFacts DEF CellsOf, Once

LEMMA AppendCells ==
  ASSUME NEW S, NEW s \in Seq(S), NEW e \in S
  PROVE  /\ Append(s, e) \in Seq(S) /\ Append(s, e) # <<>>
         /\ CellsOf(Append(s, e)) = CellsOf(s) \cup {e}
         /\ Once(s) /\ e \notin CellsOf(s) => Once(Append(s, e))
<1>1. /\ Append(s, e) \in Seq(S) /\ Append(s, e) # <<>> /\ Len(Append(s, e)) = Len(s) + 1
      /\ Len(s) \in Nat /\ DOMAIN s = 1..Len(s) /\ DOMAIN Append(s, e) = 1..(Len(s) + 1)
      /\ \A i \in 1..Len(s) : Append(s, e)[i] = s[i]
      /\ Append(s, e)[Len(s) + 1] = e
  BY AppendProperties, LenProperties
<1>2. CellsOf(Append(s, e)) = CellsOf(s) \cup {e}
  <2>1. CellsOf(Append(s, e)) \subseteq CellsOf(s) \cup {e}
    BY <1>1 DEF CellsOf
  <2>2. CellsOf(s) \subseteq CellsOf(Append(s, e)) /\ e \in CellsOf(Append(s, e))
    BY <1>1 DEF CellsOf
  <2> QED
    BY <2>1, <2>2
<1>3. Once(s) /\ e \notin CellsOf(s) => Once(Append(s, e))
  BY <1>1 DEF Once, CellsOf
<1> QED
  BY <1>1, <1>2, <1>3

LEMMA ReverseFacts ==
  ASSUME NEW S, NEW l \in Seq(S)
  PROVE  /\ Reverse(l) \in Seq(S) /\ CellsOf(Reverse(l)) = CellsOf(l)
         /\ Once(l) => Once(Reverse(l))
<1>1. Len(l) \in Nat /\ DOMAIN l = 1..Len(l) /\ DOMAIN Reverse(l) = 1..Len(l)
  BY LenProperties DEF Reverse
<1>2. \A i \in 1..Len(l) : Reverse(l)[i] = l[Len(l) + 1 - i] /\ Len(l) + 1 - i \in 1..Len(l)
                           /\ Len(l) + 1 - (Len(l) + 1 - i) = i
  BY <1>1 DEF Reverse
<1>3. \A i \in 1..Len(l) : l[i] \in S
  BY ElementOfSeq
<1>4. Reverse(l) \in [1..Len(l) -> S]
  BY <1>1, <1>2, <1>3 DEF Reverse
<1>5. Reverse(l) \in Seq(S)
  BY <1>1, <1>4, SeqDef
<1>6. CellsOf(Reverse(l)) \subseteq CellsOf(l)
  BY <1>1, <1>2 DEF CellsOf
<1>7. CellsOf(l) \subseteq CellsOf(Reverse(l))
  <2> SUFFICES ASSUME NEW i \in 1..Len(l) PROVE l[i] \in CellsOf(Reverse(l))
    BY <1>1 DEF CellsOf
  <2>1. Reverse(l)[Len(l) + 1 - i] = l[i] /\ Len(l) + 1 - i \in 1..Len(l)
    BY <1>1, <1>2
  <2> QED
    BY <1>1, <2>1 DEF CellsOf
<1>8. Once(l) => Once(Reverse(l))
  <2> SUFFICES ASSUME Once(l), NEW i \in 1..Len(l), NEW j \in 1..Len(l), i # j
               PROVE  Reverse(l)[i] # Reverse(l)[j]
    BY <1>1 DEF Once
  <2>1. Len(l) + 1 - i # Len(l) + 1 - j
    BY <1>1
  <2> QED
    BY <1>1, <1>2, <2>1 DEF Once
<1> QED
  BY <1>5, <1>6, <1>7, <1>8

LEMMA JoinedFacts ==
  ASSUME NEW S, NEW l \in Seq(S), NEW f \in Seq(S)
  PROVE  /\ l \o f \in Seq(S) /\ CellsOf(l \o f) \subseteq CellsOf(l) \cup CellsOf(f)
         /\ Once(l) /\ Once(f) /\ CellsOf(l) \cap CellsOf(f) = {} => Once(l \o f)
<1>1. /\ l \o f \in Seq(S) /\ Len(l \o f) = Len(l) + Len(f) /\ Len(l) \in Nat /\ Len(f) \in Nat
      /\ DOMAIN l = 1..Len(l) /\ DOMAIN f = 1..Len(f) /\ DOMAIN (l \o f) = 1..(Len(l) + Len(f))
  BY ConcatProperties, LenProperties
<1>2. \A i \in 1..(Len(l) + Len(f)) :
        \/ i \in DOMAIN l /\ (l \o f)[i] = l[i]
        \/ i - Len(l) \in DOMAIN f /\ (l \o f)[i] = f[i - Len(l)]
  <2> SUFFICES ASSUME NEW i \in 1..(Len(l) + Len(f))
               PROVE  \/ i \in DOMAIN l /\ (l \o f)[i] = l[i]
                      \/ i - Len(l) \in DOMAIN f /\ (l \o f)[i] = f[i - Len(l)]
    OBVIOUS
  <2>1. (l \o f)[i] = IF i <= Len(l) THEN l[i] ELSE f[i - Len(l)]
    BY ConcatProperties
  <2> QED
    BY <1>1, <2>1
<1>3. CellsOf(l \o f) \subseteq CellsOf(l) \cup CellsOf(f)
  BY <1>1, <1>2 DEF CellsOf
<1>4. ASSUME Once(l), Once(f), CellsOf(l) \cap CellsOf(f) = {} PROVE Once(l \o f)
  <2> SUFFICES ASSUME NEW i \in 1..(Len(l) + Len(f)), NEW j \in 1..(Len(l) + Len(f)), i # j
               PROVE  (l \o f)[i] # (l \o f)[j]
    BY <1>1 DEF Once
  <2>1. \A a \in DOMAIN l, b \in DOMAIN f : l[a] # f[b]
    BY <1>4 DEF CellsOf
  <2>2. i - Len(l) # j - Len(l)
    BY <1>1
  <2> QED
    BY <1>1, <1>2, <1>4, <2>1, <2>2 DEF Once
<1> QED
  BY <1>1, <1>3, <1>4

-----------------------------------------------------------------------------
(* What dalloc gives is new.                                               *)

LEMMA ObjectsTyped == ArenaInv => objects \subseteq Objects /\ NoString \in Objects /\ NoString \notin objects
BY ArenaAssumption DEF ArenaInv, ArenaTypeOK, Objects, NoString, Object

LEMMA TakeGives ==
  ASSUME ArenaInv, NEW bytes \in Nat \ {0}, Take(bytes)
  PROVE  /\ objects' = objects \cup {Fresh} /\ Fresh \notin objects
         /\ Fresh \in Objects /\ Fresh # NoString
<1>1. RoundUp(bytes) \in Nat \ {0}
  BY RoundUpBounds
<1>2. PICK o \in [block : Ids, at : Nat, size : Nat \ {0}] :
        objects' = objects \cup {o} /\ o \notin objects
  <2>1. CASE TakeFits(bytes)
    <3> DEFINE o == Object(buf.block, buf.at, bytes)
    <3>1. phase = "run" /\ RoundUp(bytes) <= left /\ left \in Nat
      BY <2>1 DEF TakeFits, ArenaInv, ArenaTypeOK
    <3>2. buf.block # NoBlock
      BY <1>1, <3>1 DEF ArenaInv, BufAtEnd
    <3>3. buf.block \in Ids /\ buf.at \in Nat
      BY <3>2 DEF ArenaInv, ArenaTypeOK
    <3>4. o \in [block : Ids, at : Nat, size : Nat \ {0}] /\ o.block = buf.block /\ o.at = buf.at
          /\ o.size = bytes
      BY <3>3 DEF Object
    <3>5. \A p \in objects : p.block = buf.block => p.at + p.size <= buf.at
      BY <3>1 DEF ArenaInv, BufAtEnd
    <3>6. objects' = objects \cup {o}
      BY <2>1 DEF TakeFits, Give
    <3> HIDE DEF o
    <3>7. o \notin objects
      BY <3>3, <3>4, <3>5
    <3> QED
      BY <3>4, <3>6, <3>7
  <2>2. CASE TakeNewBlock(bytes)
    <3>1. PICK b \in Ids \ heap : Give([block |-> b, at |-> Header], Room, bytes)
      BY <2>2 DEF TakeNewBlock
    <3> DEFINE o == Object(b, Header, bytes)
    <3>2. o \in [block : Ids, at : Nat, size : Nat \ {0}] /\ o.block = b
      BY DEF Object, Header
    <3>3. objects' = objects \cup {o}
      BY <3>1 DEF Give
    <3>4. \A p \in objects : p.block \in heap
      BY <2>2 DEF TakeNewBlock, ArenaInv, ArenaTypeOK, ObjectsInBlocks
    <3> HIDE DEF o
    <3>5. o \notin objects
      BY <3>1, <3>2, <3>4
    <3> QED
      BY <3>2, <3>3, <3>5
  <2> QED
    BY <2>1, <2>2 DEF Take
<1>3. Fresh = o
  BY <1>2 DEF Fresh
<1>4. o \in Objects
  BY DEF Objects
<1>5. o # NoString
  BY ArenaAssumption DEF NoString, Object
<1> QED
  BY <1>2, <1>3, <1>4, <1>5

LEMMA StringGives ==
  ASSUME ArenaInv, NEW bytes, TakeString(bytes)
  PROVE  /\ objects' = objects \cup {Fresh} /\ Fresh \notin objects
         /\ Fresh \in Objects /\ Fresh # NoString
BY TakeGives, StoreAssumption DEF TakeString

(* alloc_symbol: the cell is not in use and not on the free list any more. *)
LEMMA AllocGives ==
  ASSUME ArenaInv, StoreInv, AllocSymbol
  PROVE  /\ NewCell \notin DOMAIN cells /\ NewCell \in Objects
         /\ FreeApart(free', DOMAIN cells \cup {NewCell}, objects')
         /\ free' \in Seq(Objects) /\ objects \subseteq objects'
<1>1. free \in Seq(Objects) /\ FreeApart(free, DOMAIN cells, objects)
  BY DEF StoreInv, StoreTypeOK, OnePlace
<1>2. CASE free # <<>>
  <2>1. free' = Tail(free) /\ objects' = objects /\ NewCell = Head(free)
    BY <1>2 DEF AllocSymbol, arena, NewCell
  <2>2. Once(free)
    BY <1>1 DEF FreeApart
  <2>3. /\ CellsOf(Tail(free)) \subseteq CellsOf(free) /\ Once(Tail(free))
        /\ Head(free) \in CellsOf(free) /\ Head(free) \notin CellsOf(Tail(free))
        /\ Tail(free) \in Seq(Objects) /\ Head(free) \in Objects
    BY <1>1, <1>2, <2>2, TailCells, TailFacts
  <2> QED
    BY <1>1, <2>1, <2>3 DEF FreeApart
<1>3. CASE free = <<>>
  <2>1. Take(SymbolSize) /\ free' = free /\ NewCell = Fresh
    BY <1>3 DEF AllocSymbol, NewCell
  <2>2. /\ objects' = objects \cup {Fresh} /\ Fresh \notin objects /\ Fresh \in Objects
    BY <2>1, TakeGives, StoreAssumption
  <2> QED
    BY <1>1, <2>1, <2>2, <1>3 DEF FreeApart, CellsOf, Once
<1> QED
  BY <1>2, <1>3

LEMMA ClearedFacts ==
  ASSUME NEW ce, NEW c, ce \in [DOMAIN ce -> Cell]
  PROVE  /\ DOMAIN Cleared(ce, c) = DOMAIN ce \cup {c}
         /\ Cleared(ce, c) \in [DOMAIN Cleared(ce, c) -> Cell]
         /\ Cleared(ce, c)[c] = Zeroed
         /\ \A d \in DOMAIN ce : d # c => Cleared(ce, c)[d] = ce[d]
         /\ ~Zeroed.owns /\ ~Zeroed.eqm
<1>1. Zeroed \in Cell /\ ~Zeroed.owns /\ ~Zeroed.eqm
  BY DEF Zeroed, Cell, Objects, NoString, Object
<1> QED
  BY <1>1 DEF Cleared

-----------------------------------------------------------------------------
(* How each operation keeps every cell in one place.                       *)

LEMMA NameTaken ==   \* create_symbol takes a SYMBOL
  ASSUME NEW fr, NEW used, NEW obs, NEW tb, NEW nm, NEW cs, NEW op,
         OnePlace(fr, used, obs, tb, nm, cs, op),
         NEW fr2, NEW obs2, NEW c, NEW k, c \notin used, k \notin DOMAIN tb, nm = <<>>,
         FreeApart(fr2, used \cup {c}, obs2)
  PROVE  OnePlace(fr2, used \cup {c}, obs2, tb, <<c, k>>, cs, op)
<1>1. Unentered(<<c, k>>) = {c} /\ Unentered(nm) = {}
  BY DEF Unentered
<1>2. NamesApart(tb, <<c, k>>, used \cup {c})
  BY DEF OnePlace, NamesApart, Entered
<1>3. ListsApart(cs, op, used \cup {c})
  BY DEF OnePlace, ListsApart
<1>4. ListsBesideNames(tb, <<c, k>>, cs, op)
  BY <1>1 DEF OnePlace, ListsBesideNames, ListsApart
<1> QED
  BY <1>2, <1>3, <1>4 DEF OnePlace

LEMMA NameEntered ==
  ASSUME NEW fr, NEW used, NEW obs, NEW tb, NEW nm, NEW cs, NEW op,
         OnePlace(fr, used, obs, tb, nm, cs, op), nm # <<>>, NEW obs2, obs \subseteq obs2,
         NEW tb2, DOMAIN tb2 = DOMAIN tb \cup {nm[2]}, tb2[nm[2]] = nm[1],
         \A k \in DOMAIN tb : tb2[k] = tb[k]
  PROVE  OnePlace(fr, used, obs2, tb2, <<>>, cs, op)
<1>1. nm[1] \in used /\ nm[1] \notin Entered(tb) /\ nm[2] \notin DOMAIN tb
  BY DEF OnePlace, NamesApart
<1>3. Entered(tb2) = Entered(tb) \cup {nm[1]} /\ Unentered(nm) = {nm[1]} /\ Unentered(<<>>) = {}
  BY DEF Entered, Unentered
<1>4. NamesApart(tb2, <<>>, used)
  BY <1>1 DEF OnePlace, NamesApart, Entered
<1>5. ListsBesideNames(tb2, <<>>, cs, op)
  BY <1>3 DEF OnePlace, ListsBesideNames
<1> QED
  BY <1>4, <1>5 DEF OnePlace, FreeApart

LEMMA CallEntered ==   \* eval allocates the first symbol of its list
  ASSUME NEW fr, NEW used, NEW obs, NEW tb, NEW nm, NEW cs \in Seq(Frame), NEW op,
         OnePlace(fr, used, obs, tb, nm, cs, op),
         NEW fr2, NEW obs2, NEW c \in Objects, NEW f \in {"line", "name", "dv"}, c \notin used,
         FreeApart(fr2, used \cup {c}, obs2)
  PROVE  /\ OnePlace(fr2, used \cup {c}, obs2, tb, nm,
                     <<[list |-> <<c>>, args |-> <<>>, for |-> f]>> \o cs, op)
         /\ <<[list |-> <<c>>, args |-> <<>>, for |-> f]>> \o cs \in Seq(Frame)
<1> DEFINE r == [list |-> <<c>>, args |-> <<>>, for |-> f]
           cs2 == <<r>> \o cs
<1>1. r \in Frame /\ r.list = <<c>> /\ <<c>> # <<>>
  BY DEF Frame
<1>2. CellsOf(<<c>>) = {c} /\ Once(<<c>>)
  BY DEF CellsOf, Once
<1> HIDE DEF r
<1>3. /\ cs2 \in Seq(Frame) /\ Len(cs2) = Len(cs) + 1 /\ cs2[1] = r /\ Len(cs) \in Nat
      /\ \A i \in 2..(Len(cs) + 1) : cs2[i] = cs[i - 1]
  BY <1>1, PushFacts, LenProperties
<1>4. DOMAIN cs2 = 1..(Len(cs) + 1) /\ DOMAIN cs = 1..Len(cs)
  BY <1>3, LenProperties
<1> HIDE DEF cs2
<1>5. \A i \in DOMAIN cs2 : cs2[i] = r \/ (i - 1 \in DOMAIN cs /\ cs2[i] = cs[i - 1])
  BY <1>3, <1>4
<1>6. \A i, k \in DOMAIN cs2 :
        i # k => \/ cs2[i] = r /\ k - 1 \in DOMAIN cs /\ cs2[k] = cs[k - 1]
                 \/ cs2[k] = r /\ i - 1 \in DOMAIN cs /\ cs2[i] = cs[i - 1]
                 \/ /\ k - 1 \in DOMAIN cs /\ cs2[k] = cs[k - 1]
                    /\ i - 1 \in DOMAIN cs /\ cs2[i] = cs[i - 1] /\ i - 1 # k - 1
  BY <1>3, <1>4
<1>7. \A i \in DOMAIN cs : CellsOf(cs[i].list) \subseteq used
  BY DEF OnePlace, ListsApart
<1>8. CellsOf(op) \subseteq used
  BY DEF OnePlace, ListsApart
<1>9. ListsApart(cs2, op, used \cup {c})
  <2>1. ASSUME NEW i \in DOMAIN cs2
        PROVE  /\ cs2[i].list # <<>> /\ Once(cs2[i].list)
               /\ CellsOf(cs2[i].list) \subseteq used \cup {c}
               /\ CellsOf(cs2[i].list) \cap CellsOf(op) = {}
    <3>1. CASE cs2[i] = r
      BY <3>1, <1>1, <1>2, <1>8
    <3>2. CASE i - 1 \in DOMAIN cs /\ cs2[i] = cs[i - 1]
      BY <3>2 DEF OnePlace, ListsApart
    <3> QED
      BY <1>5, <3>1, <3>2
  <2>2. ASSUME NEW i \in DOMAIN cs2, NEW k \in DOMAIN cs2, k # i
        PROVE  CellsOf(cs2[i].list) \cap CellsOf(cs2[k].list) = {}
    <3>1. CASE cs2[i] = r /\ k - 1 \in DOMAIN cs /\ cs2[k] = cs[k - 1]
      BY <3>1, <1>1, <1>2, <1>7
    <3>2. CASE cs2[k] = r /\ i - 1 \in DOMAIN cs /\ cs2[i] = cs[i - 1]
      BY <3>2, <1>1, <1>2, <1>7
    <3>3. CASE /\ k - 1 \in DOMAIN cs /\ cs2[k] = cs[k - 1]
               /\ i - 1 \in DOMAIN cs /\ cs2[i] = cs[i - 1] /\ i - 1 # k - 1
      BY <3>3 DEF OnePlace, ListsApart
    <3> QED
      BY <1>6, <2>2, <3>1, <3>2, <3>3
  <2> QED
    BY <1>8, <2>1, <2>2 DEF OnePlace, ListsApart
<1>10. Entered(tb) \cup Unentered(nm) \subseteq used
  BY DEF OnePlace, NamesApart, Entered, Unentered
<1>11. ListsBesideNames(tb, nm, cs2, op)
  <2>1. ASSUME NEW i \in DOMAIN cs2
        PROVE  CellsOf(cs2[i].list) \cap (Entered(tb) \cup Unentered(nm)) = {}
    <3>1. CASE cs2[i] = r
      BY <3>1, <1>1, <1>2, <1>10
    <3>2. CASE i - 1 \in DOMAIN cs /\ cs2[i] = cs[i - 1]
      BY <3>2 DEF OnePlace, ListsBesideNames
    <3> QED
      BY <1>5, <3>1, <3>2
  <2> QED
    BY <2>1 DEF OnePlace, ListsBesideNames
<1>12. NamesApart(tb, nm, used \cup {c})
  BY DEF OnePlace, NamesApart
<1>13. OnePlace(fr2, used \cup {c}, obs2, tb, nm, cs2, op) /\ cs2 \in Seq(Frame)
  BY <1>3, <1>9, <1>11, <1>12 DEF OnePlace
<1> QED
  BY <1>13 DEF cs2, r

LEMMA SameLists ==   \* only the argument stacks change
  ASSUME NEW fr, NEW used, NEW obs, NEW tb, NEW nm, NEW cs, NEW op,
         OnePlace(fr, used, obs, tb, nm, cs, op), NEW obs2, obs \subseteq obs2,
         NEW cs2, DOMAIN cs2 = DOMAIN cs, \A i \in DOMAIN cs : cs2[i].list = cs[i].list
  PROVE  OnePlace(fr, used, obs2, tb, nm, cs2, op)
<1>1. ListsApart(cs2, op, used)
  BY DEF OnePlace, ListsApart
<1>2. ListsBesideNames(tb, nm, cs2, op)
  BY DEF OnePlace, ListsBesideNames
<1> QED
  BY <1>1, <1>2 DEF OnePlace, FreeApart

LEMMA ListGrows ==   \* a comma: one more symbol in the list on top
  ASSUME NEW fr, NEW used, NEW obs, NEW tb, NEW nm, NEW cs \in Seq(Frame), NEW op,
         OnePlace(fr, used, obs, tb, nm, cs, op), 1 \in DOMAIN cs,
         NEW fr2, NEW obs2, NEW c \in Objects, c \notin used,
         FreeApart(fr2, used \cup {c}, obs2),
         NEW cs2, DOMAIN cs2 = DOMAIN cs, cs2[1].list = Append(cs[1].list, c),
         \A i \in DOMAIN cs : i # 1 => cs2[i].list = cs[i].list
  PROVE  OnePlace(fr2, used \cup {c}, obs2, tb, nm, cs2, op)
<1>1. cs[1].list \in Seq(Objects)
  <2>1. cs[1] \in Frame
    BY ElementOfSeq, LenProperties
  <2> QED
    BY <2>1 DEF Frame
<1>2. Once(cs[1].list) /\ c \notin CellsOf(cs[1].list)
  BY DEF OnePlace, ListsApart
<1>3. /\ cs2[1].list # <<>> /\ Once(cs2[1].list)
      /\ CellsOf(cs2[1].list) = CellsOf(cs[1].list) \cup {c}
  BY <1>1, <1>2, AppendCells
<1>4. CellsOf(op) \subseteq used /\ \A i \in DOMAIN cs : CellsOf(cs[i].list) \subseteq used
  BY DEF OnePlace, ListsApart
<1>5. ListsApart(cs2, op, used \cup {c})
  <2>1. ASSUME NEW i \in DOMAIN cs2
        PROVE  /\ cs2[i].list # <<>> /\ Once(cs2[i].list)
               /\ CellsOf(cs2[i].list) \subseteq used \cup {c}
               /\ CellsOf(cs2[i].list) \cap CellsOf(op) = {}
    <3>1. CASE i = 1
      <4>1. CellsOf(cs[1].list) \cap CellsOf(op) = {}
        BY DEF OnePlace, ListsApart
      <4> QED
        BY <3>1, <4>1, <1>3, <1>4
    <3>2. CASE i # 1
      BY <3>2 DEF OnePlace, ListsApart
    <3> QED
      BY <3>1, <3>2
  <2>2. ASSUME NEW i \in DOMAIN cs2, NEW k \in DOMAIN cs2, k # i
        PROVE  CellsOf(cs2[i].list) \cap CellsOf(cs2[k].list) = {}
    <3>1. CellsOf(cs[i].list) \cap CellsOf(cs[k].list) = {}
      BY <2>2 DEF OnePlace, ListsApart
    <3>2. CASE i = 1
      BY <3>1, <3>2, <2>2, <1>3, <1>4
    <3>3. CASE k = 1
      BY <3>1, <3>3, <2>2, <1>3, <1>4
    <3>4. CASE i # 1 /\ k # 1
      BY <3>1, <3>4
    <3> QED
      BY <3>2, <3>3, <3>4
  <2> QED
    BY <1>4, <2>1, <2>2 DEF OnePlace, ListsApart
<1>6. Entered(tb) \cup Unentered(nm) \subseteq used
  BY DEF OnePlace, NamesApart, Entered, Unentered
<1>7. ListsBesideNames(tb, nm, cs2, op)
  BY <1>3, <1>6 DEF OnePlace, ListsBesideNames
<1> QED
  BY <1>5, <1>7 DEF OnePlace, NamesApart

LEMMA ListsDropped ==   \* v_dc and exit: the lists are lost, their cells stay
  ASSUME NEW fr, NEW used, NEW obs, NEW tb, NEW nm, NEW cs, NEW op,
         OnePlace(fr, used, obs, tb, nm, cs, op), NEW nm2 \in {nm, <<>>}
  PROVE  OnePlace(fr, used, obs, tb, nm2, <<>>, <<>>)
BY DEF OnePlace, NamesApart, ListsApart, ListsBesideNames, CellsOf, Once, Unentered

LEMMA ListReturned ==   \* eval returns its list to the handler of the line
  ASSUME NEW fr, NEW used, NEW obs, NEW tb, NEW nm, NEW cs, NEW op,
         OnePlace(fr, used, obs, tb, nm, cs, op), 1 \in DOMAIN cs
  PROVE  OnePlace(fr, used, obs, tb, nm, <<>>, cs[1].list)
BY DEF OnePlace, ListsApart, ListsBesideNames, CellsOf, Once

LEMMA FreeListed ==   \* free_symbol_list
  ASSUME NEW fr \in Seq(Objects), NEW used, NEW obs, FreeApart(fr, used, obs),
         NEW l \in Seq(Objects), Once(l), CellsOf(l) \subseteq used
  PROVE  /\ FreeApart(Reverse(l) \o fr, used \ CellsOf(l), obs)
         /\ Reverse(l) \o fr \in Seq(Objects)
<1>1. /\ Reverse(l) \in Seq(Objects) /\ CellsOf(Reverse(l)) = CellsOf(l) /\ Once(Reverse(l))
  BY ReverseFacts
<1>2. /\ Reverse(l) \o fr \in Seq(Objects)
      /\ CellsOf(Reverse(l) \o fr) \subseteq CellsOf(l) \cup CellsOf(fr)
      /\ CellsOf(l) \cap CellsOf(fr) = {} => Once(Reverse(l) \o fr)
  <2>1. Once(fr)
    BY DEF FreeApart
  <2> QED
    BY <1>1, <2>1, JoinedFacts
<1> QED
  BY <1>2 DEF FreeApart

LEMMA CallFreed ==   \* the list of the activation that returns
  ASSUME NEW fr \in Seq(Objects), NEW used, NEW obs, NEW tb, NEW nm, NEW cs \in Seq(Frame), NEW op,
         OnePlace(fr, used, obs, tb, nm, cs, op), cs # <<>>
  PROVE  /\ OnePlace(Reverse(cs[1].list) \o fr, used \ CellsOf(cs[1].list), obs, tb, nm, Tail(cs), op)
         /\ Reverse(cs[1].list) \o fr \in Seq(Objects)
<1> DEFINE l == cs[1].list
<1>1. /\ Tail(cs) \in Seq(Frame) /\ DOMAIN cs = 1..Len(cs) /\ DOMAIN Tail(cs) = 1..(Len(cs) - 1)
      /\ Len(cs) \in Nat \ {0} /\ \A i \in 1..(Len(cs) - 1) : Tail(cs)[i] = cs[i + 1]
  BY TailFacts
<1>2. l \in Seq(Objects)
  <2>1. cs[1] \in Frame
    BY <1>1, ElementOfSeq
  <2> QED
    BY <2>1 DEF Frame
<1>3. Once(l) /\ CellsOf(l) \subseteq used /\ FreeApart(fr, used, obs)
  BY <1>1 DEF OnePlace, ListsApart
<1>4. /\ FreeApart(Reverse(l) \o fr, used \ CellsOf(l), obs)
      /\ Reverse(l) \o fr \in Seq(Objects)
  BY <1>2, <1>3, FreeListed
<1>5. \A i \in DOMAIN Tail(cs) : i + 1 \in DOMAIN cs /\ i + 1 # 1 /\ Tail(cs)[i] = cs[i + 1]
  BY <1>1
<1>6. \A i, k \in DOMAIN Tail(cs) : i # k => i + 1 # k + 1
  BY <1>1
<1>7. 1 \in DOMAIN cs
  BY <1>1
<1>8. NamesApart(tb, nm, used \ CellsOf(l))
  BY <1>7 DEF OnePlace, NamesApart, ListsBesideNames, Entered, Unentered
<1>9. ListsApart(Tail(cs), op, used \ CellsOf(l))
  <2>1. CellsOf(l) \cap CellsOf(op) = {} /\ CellsOf(op) \subseteq used /\ Once(op)
    BY <1>7 DEF OnePlace, ListsApart
  <2>2. ASSUME NEW i \in DOMAIN Tail(cs)
        PROVE  /\ Tail(cs)[i].list # <<>> /\ Once(Tail(cs)[i].list)
               /\ CellsOf(Tail(cs)[i].list) \subseteq used \ CellsOf(l)
               /\ CellsOf(Tail(cs)[i].list) \cap CellsOf(op) = {}
    BY <1>5, <1>7 DEF OnePlace, ListsApart
  <2>3. ASSUME NEW i \in DOMAIN Tail(cs), NEW k \in DOMAIN Tail(cs), k # i
        PROVE  CellsOf(Tail(cs)[i].list) \cap CellsOf(Tail(cs)[k].list) = {}
    BY <1>5, <1>6, <2>3 DEF OnePlace, ListsApart
  <2> QED
    BY <2>1, <2>2, <2>3 DEF ListsApart
<1>10. ListsBesideNames(tb, nm, Tail(cs), op)
  BY <1>5 DEF OnePlace, ListsBesideNames
<1> QED
  BY <1>4, <1>8, <1>9, <1>10 DEF OnePlace

LEMMA OperandFreed ==
  ASSUME NEW fr \in Seq(Objects), NEW used, NEW obs, NEW tb, NEW nm, NEW cs, NEW op \in Seq(Objects),
         OnePlace(fr, used, obs, tb, nm, cs, op)
  PROVE  /\ OnePlace(Reverse(op) \o fr, used \ CellsOf(op), obs, tb, nm, cs, <<>>)
         /\ Reverse(op) \o fr \in Seq(Objects)
<1>1. Once(op) /\ CellsOf(op) \subseteq used /\ FreeApart(fr, used, obs)
  BY DEF OnePlace, ListsApart
<1>2. /\ FreeApart(Reverse(op) \o fr, used \ CellsOf(op), obs)
      /\ Reverse(op) \o fr \in Seq(Objects)
  BY <1>1, FreeListed
<1>3. NamesApart(tb, nm, used \ CellsOf(op))
  BY DEF OnePlace, NamesApart, ListsBesideNames, Entered, Unentered
<1>4. CellsOf(<<>>) = {} /\ Once(<<>>)
  BY DEF CellsOf, Once
<1>5. ListsApart(cs, <<>>, used \ CellsOf(op))
  BY <1>4 DEF OnePlace, ListsApart
<1>6. ListsBesideNames(tb, nm, cs, <<>>)
  BY <1>4 DEF OnePlace, ListsBesideNames
<1> QED
  BY <1>2, <1>3, <1>5, <1>6 DEF OnePlace

-----------------------------------------------------------------------------
(* How each operation keeps one owner of every string.                     *)

(* The stack a2 comes from a: it may be shorter, values may stand for      *)
(* strings, and a new string may be on top.                                *)
Stems(a2, a, obs, obs2) ==
  \A j \in DOMAIN a2 : \/ a2[j] = NoString
                       \/ j \in DOMAIN a /\ a2[j] = a[j]
                       \/ j = Len(a2) /\ a2[j] \in obs2 \ obs

LEMMA PushedStems ==
  ASSUME NEW a \in Seq(Objects), NEW s \in Objects, NEW obs, NEW obs2,
         s = NoString \/ s \in obs2 \ obs
  PROVE  Pushed(a, s) \in Seq(Objects) /\ Stems(Pushed(a, s), a, obs, obs2)
<1>1. CASE Len(a) + 1 = MaxArgs
  <2>1. Pushed(a, s) = <<>> /\ <<>> \in Seq(Objects) /\ DOMAIN <<>> = {}
    BY <1>1 DEF Pushed
  <2> QED
    BY <2>1 DEF Stems
<1>2. CASE Len(a) + 1 # MaxArgs
  <2> DEFINE t == <<s>>
  <2>1. t \in Seq(Objects) /\ Len(t) = 1 /\ t[1] = s
    OBVIOUS
  <2>2. Pushed(a, s) = a \o t
    BY <1>2 DEF Pushed
  <2> HIDE DEF t
  <2>3. /\ a \o t \in Seq(Objects) /\ Len(a \o t) = Len(a) + 1 /\ Len(a) \in Nat
        /\ DOMAIN (a \o t) = 1..(Len(a) + 1) /\ DOMAIN a = 1..Len(a)
    BY <2>1, ConcatProperties, LenProperties
  <2>4. \A i \in 1..(Len(a) + 1) : (a \o t)[i] = IF i <= Len(a) THEN a[i] ELSE t[i - Len(a)]
    BY <2>1, ConcatProperties
  <2>5. (a \o t)[Len(a) + 1] = s /\ \A i \in 1..Len(a) : (a \o t)[i] = a[i]
    BY <2>1, <2>3, <2>4
  <2> QED
    BY <2>2, <2>3, <2>5 DEF Stems
<1> QED
  BY <1>1, <1>2

LEMMA PrefixStems ==
  ASSUME NEW a \in Seq(Objects), NEW n \in 0..Len(a), NEW obs, NEW obs2
  PROVE  /\ SubSeq(a, 1, n) \in Seq(Objects) /\ Len(SubSeq(a, 1, n)) = n
         /\ DOMAIN SubSeq(a, 1, n) = 1..n /\ DOMAIN a = 1..Len(a) /\ Len(a) \in Nat
         /\ \A j \in 1..n : SubSeq(a, 1, n)[j] = a[j]
         /\ Stems(SubSeq(a, 1, n), a, obs, obs2)
<1>1. Len(a) \in Nat /\ DOMAIN a = 1..Len(a)
  BY LenProperties
<1>2. \A i \in 1..n : a[i] \in Objects
  BY <1>1, ElementOfSeq
<1>3. /\ SubSeq(a, 1, n) \in Seq(Objects)
      /\ Len(SubSeq(a, 1, n)) = IF 1 <= n THEN n - 1 + 1 ELSE 0
      /\ \A i \in 1..(n - 1 + 1) : SubSeq(a, 1, n)[i] = a[1 + i - 1]
  BY <1>1, <1>2, SubSeqProperties
<1>4. Len(SubSeq(a, 1, n)) = n /\ \A j \in 1..n : SubSeq(a, 1, n)[j] = a[j]
  BY <1>1, <1>3
<1>5. DOMAIN SubSeq(a, 1, n) = 1..n
  BY <1>3, <1>4, LenProperties
<1> QED
  BY <1>1, <1>3, <1>4, <1>5 DEF Stems

LEMMA ZeroedOwnsNothing ==   \* a SYMBOL that alloc_symbol gave
  ASSUME NEW ce, NEW cs, NEW df, NEW obs, OneOwner(ce, cs, df, obs),
         NEW c, NEW obs2, obs \subseteq obs2, ce \in [DOMAIN ce -> Cell]
  PROVE  OneOwner(Cleared(ce, c), cs, df, obs2)
<1> DEFINE ce2 == Cleared(ce, c)
<1>1. \A d \in DOMAIN ce2 : ce2[d].owns => d \in DOMAIN ce /\ ce2[d] = ce[d]
  <2>1. /\ DOMAIN ce2 = DOMAIN ce \cup {c} /\ ce2[c] = Zeroed /\ ~Zeroed.owns
        /\ \A d \in DOMAIN ce : d # c => ce2[d] = ce[d]
    BY ClearedFacts
  <2> QED
    BY <2>1
<1> HIDE DEF ce2
<1>2. OneOwner(ce2, cs, df, obs2)
  BY <1>1 DEF OneOwner
<1> QED
  BY <1>2 DEF ce2

LEMMA FramePushed ==   \* a new activation has an empty stack
  ASSUME NEW ce, NEW cs \in Seq(Frame), NEW df, NEW obs, OneOwner(ce, cs, df, obs),
         NEW c \in Objects, NEW f \in {"line", "name", "dv"}
  PROVE  OneOwner(ce, <<[list |-> <<c>>, args |-> <<>>, for |-> f]>> \o cs, df, obs)
<1> DEFINE r == [list |-> <<c>>, args |-> <<>>, for |-> f]
           cs2 == <<r>> \o cs
<1>1. r \in Frame /\ r.args = <<>> /\ DOMAIN r.args = {}
  BY DEF Frame
<1> HIDE DEF r
<1>2. /\ Len(cs2) = Len(cs) + 1 /\ cs2[1] = r /\ Len(cs) \in Nat /\ cs2 \in Seq(Frame)
      /\ \A i \in 2..(Len(cs) + 1) : cs2[i] = cs[i - 1]
  BY <1>1, PushFacts, LenProperties
<1>3. DOMAIN cs2 = 1..(Len(cs) + 1) /\ DOMAIN cs = 1..Len(cs)
  BY <1>2, LenProperties
<1> HIDE DEF cs2
<1>4. \A i \in DOMAIN cs2 : \A j \in DOMAIN cs2[i].args :
        i - 1 \in DOMAIN cs /\ j \in DOMAIN cs[i - 1].args /\ cs2[i].args[j] = cs[i - 1].args[j]
  BY <1>1, <1>2, <1>3
<1>5. \A i, k \in DOMAIN cs2 : i - 1 = k - 1 => i = k
  BY <1>3
<1>6. ASSUME NEW i \in DOMAIN cs2, NEW j \in DOMAIN cs2[i].args, cs2[i].args[j] # NoString
      PROVE  /\ cs2[i].args[j] \in obs \ df
             /\ \A d \in DOMAIN ce : ce[d].owns => ce[d].string # cs2[i].args[j]
             /\ \A k \in DOMAIN cs2 : \A l \in DOMAIN cs2[k].args :
                  cs2[k].args[l] = cs2[i].args[j] => k = i /\ l = j
  BY <1>4, <1>5, <1>6 DEF OneOwner
<1>7. OneOwner(ce, cs2, df, obs)
  BY <1>6 DEF OneOwner
<1> QED
  BY <1>7 DEF cs2, r

LEMMA StackChanged ==   \* one activation changes its stack
  ASSUME NEW ce, NEW cs, NEW df, NEW obs, OneOwner(ce, cs, df, obs), df \subseteq obs,
         NEW obs2, obs \subseteq obs2, NEW p \in DOMAIN cs,
         NEW cs2, DOMAIN cs2 = DOMAIN cs, Stems(cs2[p].args, cs[p].args, obs, obs2),
         \A i \in DOMAIN cs : i # p => cs2[i].args = cs[i].args
  PROVE  OneOwner(ce, cs2, df, obs2)
<1> DEFINE Old(i, j) == i \in DOMAIN cs /\ j \in DOMAIN cs[i].args /\ cs2[i].args[j] = cs[i].args[j]
           New(i, j) == i = p /\ j = Len(cs2[p].args) /\ cs2[i].args[j] \in obs2 \ obs
<1>1. \A i \in DOMAIN cs2 : \A j \in DOMAIN cs2[i].args :
        cs2[i].args[j] # NoString => Old(i, j) \/ New(i, j)
  BY DEF Stems
<1>2. \A i, j : Old(i, j) /\ cs2[i].args[j] # NoString =>
        /\ cs2[i].args[j] \in obs \ df
        /\ \A d \in DOMAIN ce : ce[d].owns => ce[d].string # cs2[i].args[j]
        /\ \A k, l : Old(k, l) /\ cs2[k].args[l] = cs2[i].args[j] => k = i /\ l = j
  BY DEF OneOwner
<1>3. \A d \in DOMAIN ce : ce[d].owns => ce[d].string \in obs
  BY DEF OneOwner
<1>4. ASSUME NEW i \in DOMAIN cs2, NEW j \in DOMAIN cs2[i].args, cs2[i].args[j] # NoString
      PROVE  /\ cs2[i].args[j] \in obs2 \ df
             /\ \A d \in DOMAIN ce : ce[d].owns => ce[d].string # cs2[i].args[j]
             /\ \A k \in DOMAIN cs2 : \A l \in DOMAIN cs2[k].args :
                  cs2[k].args[l] = cs2[i].args[j] => k = i /\ l = j
  <2>1. CASE Old(i, j)
    <3>1. cs2[i].args[j] \in obs
      BY <1>2, <1>4, <2>1
    <3>2. \A k, l : New(k, l) => cs2[k].args[l] # cs2[i].args[j]
      BY <3>1
    <3> QED
      BY <1>1, <1>2, <1>4, <2>1, <3>2
  <2>2. CASE New(i, j)
    <3>1. \A k, l : Old(k, l) /\ cs2[k].args[l] # NoString => cs2[k].args[l] # cs2[i].args[j]
      BY <1>2, <2>2
    <3>2. \A k, l : New(k, l) => k = i /\ l = j
      BY <2>2
    <3> QED
      BY <1>1, <1>3, <1>4, <2>2, <3>1, <3>2
  <2> QED
    BY <1>1, <1>4, <2>1, <2>2
<1>5. /\ \A c \in DOMAIN ce : ce[c].owns => ce[c].string \in obs2 \ df
      /\ \A c, d \in DOMAIN ce :
           ce[c].owns /\ ce[d].owns /\ c # d => ce[c].string # ce[d].string
  BY DEF OneOwner
<1> QED
  BY <1>4, <1>5 DEF OneOwner

LEMMA StringMoved ==   \* the value on top goes into a symbol
  ASSUME NEW ce, NEW cs, NEW df, NEW obs, OneOwner(ce, cs, df, obs),
         1 \in DOMAIN cs, NEW n \in DOMAIN cs[1].args, NEW c \in DOMAIN ce,
         NEW ce2, DOMAIN ce2 = DOMAIN ce, ce2[c].string = cs[1].args[n],
         ce2[c].owns = (cs[1].args[n] # NoString),
         \A d \in DOMAIN ce : d # c => ce2[d] = ce[d],
         NEW cs2, DOMAIN cs2 = DOMAIN cs,
         \A j \in DOMAIN cs2[1].args :
           j # n /\ j \in DOMAIN cs[1].args /\ cs2[1].args[j] = cs[1].args[j],
         \A i \in DOMAIN cs : i # 1 => cs2[i].args = cs[i].args
  PROVE  OneOwner(ce2, cs2, df, obs)
<1> DEFINE top == cs[1].args[n]
<1>1. top # NoString =>
        /\ top \in obs \ df
        /\ \A d \in DOMAIN ce : ce[d].owns => ce[d].string # top
        /\ \A k \in DOMAIN cs : \A l \in DOMAIN cs[k].args : cs[k].args[l] = top => k = 1 /\ l = n
  BY DEF OneOwner
<1>2. \A i \in DOMAIN cs2 : \A j \in DOMAIN cs2[i].args :
        /\ i \in DOMAIN cs /\ j \in DOMAIN cs[i].args /\ cs2[i].args[j] = cs[i].args[j]
        /\ i = 1 => j # n
  OBVIOUS
<1>3. \A i \in DOMAIN cs2 : \A j \in DOMAIN cs2[i].args :
        cs2[i].args[j] # NoString => cs2[i].args[j] # top
  BY <1>1, <1>2
<1>4. \A d \in DOMAIN ce2 : ce2[d].owns =>
        \/ d = c /\ ce2[d].string = top /\ top # NoString
        \/ d # c /\ ce[d].owns /\ ce2[d].string = ce[d].string
  OBVIOUS
<1> HIDE DEF top
<1>5. \A d \in DOMAIN ce2 : ce2[d].owns => ce2[d].string \in obs \ df
  BY <1>1, <1>4 DEF OneOwner
<1>6. \A d, e \in DOMAIN ce2 : ce2[d].owns /\ ce2[e].owns /\ d # e => ce2[d].string # ce2[e].string
  BY <1>1, <1>4 DEF OneOwner
<1>7. ASSUME NEW i \in DOMAIN cs2, NEW j \in DOMAIN cs2[i].args, cs2[i].args[j] # NoString
      PROVE  /\ cs2[i].args[j] \in obs \ df
             /\ \A d \in DOMAIN ce2 : ce2[d].owns => ce2[d].string # cs2[i].args[j]
             /\ \A k \in DOMAIN cs2 : \A l \in DOMAIN cs2[k].args :
                  cs2[k].args[l] = cs2[i].args[j] => k = i /\ l = j
  <2>1. /\ i \in DOMAIN cs /\ j \in DOMAIN cs[i].args /\ cs2[i].args[j] = cs[i].args[j]
        /\ cs2[i].args[j] # top
    BY <1>2, <1>3, <1>7
  <2>2. /\ cs[i].args[j] \in obs \ df
        /\ \A d \in DOMAIN ce : ce[d].owns => ce[d].string # cs[i].args[j]
        /\ \A k \in DOMAIN cs : \A l \in DOMAIN cs[k].args :
             cs[k].args[l] = cs[i].args[j] => k = i /\ l = j
    BY <1>7, <2>1 DEF OneOwner
  <2> QED
    BY <1>2, <1>4, <2>1, <2>2
<1> QED
  BY <1>5, <1>6, <1>7 DEF OneOwner

LEMMA StackDropped ==   \* the stack of an activation that is over
  ASSUME NEW ce, NEW cs \in Seq(Frame), NEW df, NEW obs, OneOwner(ce, cs, df, obs), cs # <<>>
  PROVE  OneOwner(ce, Tail(cs), df, obs)
<1> DEFINE cs2 == Tail(cs)
<1>1. DOMAIN cs = 1..Len(cs) /\ DOMAIN cs2 = 1..(Len(cs) - 1) /\ Len(cs) \in Nat
      /\ \A i \in 1..(Len(cs) - 1) : cs2[i] = cs[i + 1]
  BY TailFacts
<1> HIDE DEF cs2
<1>2. \A i \in DOMAIN cs2 : i + 1 \in DOMAIN cs /\ cs2[i] = cs[i + 1]
  BY <1>1
<1>3. \A i, k \in DOMAIN cs2 : i + 1 = k + 1 => i = k
  BY <1>1
<1>4. OneOwner(ce, cs2, df, obs)
  BY <1>2, <1>3 DEF OneOwner
<1> QED
  BY <1>4 DEF cs2

LEMMA StacksGone ==
  ASSUME NEW ce, NEW cs, NEW df, NEW obs, OneOwner(ce, cs, df, obs)
  PROVE  OneOwner(ce, <<>>, df, obs)
BY DEF OneOwner

LEMMA StringsFreed ==   \* free_symbol_list, for the strings
  ASSUME NEW ce, NEW cs, NEW df, NEW obs, OneOwner(ce, cs, df, obs), NEW X \in SUBSET DOMAIN ce
  PROVE  OneOwner([c \in DOMAIN ce \ X |-> ce[c]], cs,
                  df \cup {ce[c].string : c \in {d \in X : ce[d].owns}}, obs)
<1> DEFINE ce2 == [c \in DOMAIN ce \ X |-> ce[c]]
           gone == {ce[c].string : c \in {d \in X : ce[d].owns}}
<1>1. DOMAIN ce2 = DOMAIN ce \ X /\ \A c \in DOMAIN ce2 : ce2[c] = ce[c]
  OBVIOUS
<1>2. \A s \in gone : \E c \in DOMAIN ce : c \in X /\ ce[c].owns /\ ce[c].string = s
  OBVIOUS
<1> HIDE DEF ce2, gone
<1>3. \A c \in DOMAIN ce2 : ce2[c].owns => ce2[c].string \notin gone /\ ce2[c].string \in obs \ df
  BY <1>1, <1>2 DEF OneOwner
<1>4. \A i \in DOMAIN cs : \A j \in DOMAIN cs[i].args :
        cs[i].args[j] # NoString => cs[i].args[j] \notin gone
  BY <1>2 DEF OneOwner
<1>5. \A c, d \in DOMAIN ce2 :
        ce2[c].owns /\ ce2[d].owns /\ c # d => ce2[c].string # ce2[d].string
  BY <1>1 DEF OneOwner
<1>6. ASSUME NEW i \in DOMAIN cs, NEW j \in DOMAIN cs[i].args, cs[i].args[j] # NoString
      PROVE  /\ cs[i].args[j] \in obs \ (df \cup gone)
             /\ \A c \in DOMAIN ce2 : ce2[c].owns => ce2[c].string # cs[i].args[j]
             /\ \A k \in DOMAIN cs : \A l \in DOMAIN cs[k].args :
                  cs[k].args[l] = cs[i].args[j] => k = i /\ l = j
  BY <1>1, <1>4, <1>6 DEF OneOwner
<1>7. OneOwner(ce2, cs, df \cup gone, obs)
  BY <1>3, <1>5, <1>6 DEF OneOwner
<1> QED
  BY <1>7 DEF ce2, gone

LEMMA StringHandedOver ==   \* v_set, v_equ: from the operand to the label
  ASSUME NEW ce, NEW df, NEW obs, OneOwner(ce, <<>>, df, obs),
         NEW a \in DOMAIN ce, NEW b \in DOMAIN ce, a # b, ce[b].owns \in BOOLEAN,
         NEW ce2, DOMAIN ce2 = DOMAIN ce,
         ce2[a].string = ce[b].string, ce2[a].owns = ce[b].owns, ce2[b].owns = FALSE,
         \A d \in DOMAIN ce : d # a /\ d # b => ce2[d] = ce[d]
  PROVE  OneOwner(ce2, <<>>, df, obs)
<1>1. \A d \in DOMAIN ce2 : ce2[d].owns =>
        \/ d = a /\ ce[b].owns /\ ce2[d].string = ce[b].string
        \/ d # a /\ d # b /\ ce[d].owns /\ ce2[d].string = ce[d].string
  OBVIOUS
<1> QED
  BY <1>1 DEF OneOwner

LEMMA StringReplaced ==   \* v_eqm: the old body freed, a new one allocated
  ASSUME NEW ce, NEW df, NEW obs, OneOwner(ce, <<>>, df, obs), df \subseteq obs,
         NEW a \in DOMAIN ce, NEW obs2, obs \subseteq obs2,
         NEW ce2, DOMAIN ce2 = DOMAIN ce, ce2[a].string \in obs2 \ obs,
         \A d \in DOMAIN ce : d # a => ce2[d] = ce[d],
         NEW df2, \A s \in df2 : s \in df \/ (ce[a].owns /\ s = ce[a].string)
  PROVE  OneOwner(ce2, <<>>, df2, obs2) /\ df2 \subseteq obs2
<1>2. \A s \in df2 : s \in obs
  BY DEF OneOwner
<1>3. \A d \in DOMAIN ce : d # a /\ ce[d].owns => ce[d].string \in obs \ df2
  BY DEF OneOwner
<1>4. \A d \in DOMAIN ce2 : ce2[d].owns => ce2[d].string \in obs2 \ df2
  BY <1>2, <1>3
<1>5. \A c, d \in DOMAIN ce2 :
        ce2[c].owns /\ ce2[d].owns /\ c # d => ce2[c].string # ce2[d].string
  BY <1>3 DEF OneOwner
<1> QED
  BY <1>2, <1>4, <1>5 DEF OneOwner

-----------------------------------------------------------------------------
(* The invariant holds at first and every step keeps it.                   *)

LEMMA Gathered ==   \* the invariant after a step, part by part
  ASSUME StoreTypeOK',
         OnePlace(free', DOMAIN (cells'), objects', table', naming', calls', operand'),
         OneOwner(cells', calls', dfreed', objects'),
         BodiesKept(cells', table', naming', macro'), Called(calls')
  PROVE  StoreInv'
<1>1. OnePlace(free, DOMAIN cells, objects, table, naming, calls, operand)'
  BY DEF OnePlace, FreeApart, NamesApart, ListsApart, ListsBesideNames, Entered, Unentered, CellsOf, Once
<1>2. OneOwner(cells, calls, dfreed, objects)'
  BY DEF OneOwner
<1>3. BodiesKept(cells, table, naming, macro)'
  BY DEF BodiesKept, Entered, Unentered
<1>4. Called(calls)'
  BY DEF Called
<1> QED
  BY <1>1, <1>2, <1>3, <1>4 DEF StoreInv

LEMMA Parts ==
  ASSUME StoreInv
  PROVE  /\ free \in Seq(Objects) /\ operand \in Seq(Objects) /\ calls \in Seq(Frame)
         /\ cells \in [DOMAIN cells -> Cell] /\ dfreed \subseteq objects
         /\ OnePlace(free, DOMAIN cells, objects, table, naming, calls, operand)
         /\ OneOwner(cells, calls, dfreed, objects)
         /\ BodiesKept(cells, table, naming, macro) /\ Called(calls)
         /\ DOMAIN calls = 1..Len(calls) /\ Len(calls) \in Nat
         /\ \A i \in DOMAIN calls : calls[i] \in Frame
         /\ Entered(table) \cup Unentered(naming) \subseteq DOMAIN cells
<1>1. /\ free \in Seq(Objects) /\ operand \in Seq(Objects) /\ calls \in Seq(Frame)
      /\ cells \in [DOMAIN cells -> Cell] /\ dfreed \subseteq objects
      /\ OnePlace(free, DOMAIN cells, objects, table, naming, calls, operand)
      /\ OneOwner(cells, calls, dfreed, objects)
      /\ BodiesKept(cells, table, naming, macro) /\ Called(calls)
  BY DEF StoreInv, StoreTypeOK
<1>2. DOMAIN calls = 1..Len(calls) /\ Len(calls) \in Nat
  BY <1>1, LenProperties
<1>3. \A i \in DOMAIN calls : calls[i] \in Frame
  BY <1>1, <1>2, ElementOfSeq
<1>4. Entered(table) \cup Unentered(naming) \subseteq DOMAIN cells
  BY <1>1 DEF OnePlace, NamesApart, Entered, Unentered
<1> QED
  BY <1>1, <1>2, <1>3, <1>4

LEMMA BodiesStay ==   \* nobody changed a symbol that has a name
  ASSUME NEW ce, NEW tb, NEW nm, NEW mc, BodiesKept(ce, tb, nm, mc),
         NEW ce2, \A c \in Entered(tb) \cup Unentered(nm) : ce2[c] = ce[c],
         NEW nm2 \in {nm, <<>>}, NEW mc2 \in {mc, NoName}
  PROVE  BodiesKept(ce2, tb, nm2, mc2)
<1>1. Unentered(nm2) \subseteq Unentered(nm)
  BY DEF Unentered
<1>2. \A k \in DOMAIN tb : tb[k] \in Entered(tb)
  BY DEF Entered
<1> QED
  BY <1>1, <1>2 DEF BodiesKept

LEMMA ArgsReplaced ==
  ASSUME NEW cs \in Seq(Frame), NEW p \in DOMAIN cs, NEW a2 \in Seq(Objects)
  PROVE  LET cs2 == [cs EXCEPT ![p].args = a2] IN
         /\ cs2 \in Seq(Frame) /\ Len(cs2) = Len(cs) /\ DOMAIN cs2 = DOMAIN cs
         /\ cs2[p].args = a2 /\ cs2[p].list = cs[p].list /\ cs2[p].for = cs[p].for
         /\ \A i \in DOMAIN cs : i # p => cs2[i] = cs[i]
<1> DEFINE r == [cs[p] EXCEPT !.args = a2]
           cs2 == [cs EXCEPT ![p].args = a2]
<1>1. DOMAIN cs = 1..Len(cs) /\ Len(cs) \in Nat /\ \A i \in DOMAIN cs : cs[i] \in Frame
  BY LenProperties, ElementOfSeq
<1>2. cs[p] \in Frame
  BY <1>1
<1>3. r \in Frame /\ r.args = a2 /\ r.list = cs[p].list /\ r.for = cs[p].for
  BY <1>2 DEF Frame
<1>4. DOMAIN cs2 = DOMAIN cs /\ cs2[p] = r /\ \A i \in DOMAIN cs : i # p => cs2[i] = cs[i]
  OBVIOUS
<1>5. cs2 = [i \in 1..Len(cs) |-> cs2[i]]
  BY <1>1
<1> HIDE DEF r, cs2
<1>6. cs2 \in [1..Len(cs) -> Frame]
  BY <1>1, <1>3, <1>4, <1>5
<1>7. cs2 \in Seq(Frame)
  BY <1>1, <1>6, SeqDef
<1>8. Len(cs2) = Len(cs)
  BY <1>1, <1>4, <1>7, LenProperties
<1>9. /\ cs2 \in Seq(Frame) /\ Len(cs2) = Len(cs) /\ DOMAIN cs2 = DOMAIN cs
      /\ cs2[p].args = a2 /\ cs2[p].list = cs[p].list /\ cs2[p].for = cs[p].for
      /\ \A i \in DOMAIN cs : i # p => cs2[i] = cs[i]
  BY <1>3, <1>4, <1>7, <1>8
<1> QED
  BY <1>9 DEF cs2

LEMMA InitStoreInv == StoreInit => StoreInv
<1> SUFFICES ASSUME StoreInit PROVE StoreInv
  OBVIOUS
<1>1. /\ free = <<>> /\ cells = <<>> /\ table = <<>> /\ naming = <<>> /\ calls = <<>>
      /\ operand = <<>> /\ macro = NoName /\ dfreed = {} /\ objects = {}
  BY DEF StoreInit, ArenaInit
<1>2. /\ <<>> \in Seq(Objects) /\ <<>> \in Seq(Frame) /\ DOMAIN <<>> = {}
      /\ <<>> \in [{} -> Cell]
  OBVIOUS
<1>3. Entered(table) = {} /\ Unentered(naming) = {} /\ CellsOf(<<>>) = {} /\ Once(<<>>)
  BY <1>1, <1>2 DEF Entered, Unentered, CellsOf, Once
<1>4. StoreTypeOK
  BY <1>1, <1>2 DEF StoreTypeOK
<1>5. OnePlace(free, DOMAIN cells, objects, table, naming, calls, operand)
  BY <1>1, <1>2, <1>3 DEF OnePlace, FreeApart, NamesApart, ListsApart, ListsBesideNames
<1>6. OneOwner(cells, calls, dfreed, objects) /\ Called(calls)
      /\ BodiesKept(cells, table, naming, macro)
  BY <1>1, <1>2, <1>3 DEF OneOwner, Called, BodiesKept
<1> QED
  BY <1>4, <1>5, <1>6 DEF StoreInv

LEMMA StackStep ==   \* a step that only changes the stack of the activation on top
  ASSUME StoreInv, Reading, NEW a2 \in Seq(Objects), SetArgs(a2),
         Stems(a2, Args, objects, objects'), objects \subseteq objects',
         UNCHANGED <<free, cells, table, naming, operand, macro, dfreed>>
  PROVE  StoreInv'
<1>1. calls # <<>> /\ calls' = [calls EXCEPT ![1].args = a2]
  BY DEF Reading, SetArgs
<1>2. 1 \in DOMAIN calls
  BY <1>1, Parts, EmptySeq
<1>3. /\ calls' \in Seq(Frame) /\ Len(calls') = Len(calls) /\ DOMAIN (calls') = DOMAIN calls
      /\ calls'[1].args = a2 /\ calls'[1].list = calls[1].list /\ calls'[1].for = calls[1].for
      /\ \A i \in DOMAIN calls : i # 1 => calls'[i] = calls[i]
  BY <1>1, <1>2, Parts, ArgsReplaced
<1>4. StoreTypeOK'
  BY <1>3, Parts DEF StoreTypeOK
<1>5. OnePlace(free, DOMAIN cells, objects', table, naming, calls', operand)
  <2>1. \A i \in DOMAIN calls : calls'[i].list = calls[i].list
    BY <1>3
  <2> QED
    BY <1>3, <2>1, Parts, SameLists
<1>6. OneOwner(cells, calls', dfreed, objects')
  <2>1. Stems(calls'[1].args, calls[1].args, objects, objects')
    BY <1>3 DEF Args
  <2>2. \A i \in DOMAIN calls : i # 1 => calls'[i].args = calls[i].args
    BY <1>3
  <2> QED
    BY <1>2, <1>3, <2>1, <2>2, Parts, StackChanged
<1>7. Called(calls')
  BY <1>3, Parts DEF Called
<1> QED
  BY <1>4, <1>5, <1>6, <1>7, Parts, Gathered

LEMMA EnterStep ==
  ASSUME ArenaInv, StoreInv, NEW f \in {"line", "name", "dv"}, Enter(f),
         f = "name" => calls # <<>>, UNCHANGED <<table, naming, operand, macro, dfreed>>
  PROVE  StoreInv'
<1> DEFINE r == [list |-> <<NewCell>>, args |-> <<>>, for |-> f]
<1>1. AllocSymbol /\ calls' = <<r>> \o calls /\ cells' = Cleared(cells, NewCell)
  BY DEF Enter
<1>2. /\ NewCell \notin DOMAIN cells /\ NewCell \in Objects
      /\ FreeApart(free', DOMAIN cells \cup {NewCell}, objects')
      /\ free' \in Seq(Objects) /\ objects \subseteq objects'
  BY <1>1, AllocGives
<1>3. /\ DOMAIN (cells') = DOMAIN cells \cup {NewCell} /\ cells' \in [DOMAIN (cells') -> Cell]
      /\ \A d \in DOMAIN cells : cells'[d] = cells[d]
  <2>1. cells \in [DOMAIN cells -> Cell]
    BY Parts
  <2> DEFINE ce2 == Cleared(cells, NewCell)
  <2>2. /\ DOMAIN ce2 = DOMAIN cells \cup {NewCell} /\ ce2 \in [DOMAIN ce2 -> Cell]
        /\ \A d \in DOMAIN cells : d # NewCell => ce2[d] = cells[d]
    BY <2>1, ClearedFacts
  <2> HIDE DEF ce2
  <2>3. cells' = ce2
    BY <1>1 DEF ce2
  <2> QED
    BY <1>2, <2>2, <2>3
<1>4. /\ OnePlace(free', DOMAIN (cells'), objects', table', naming', calls', operand')
      /\ calls' \in Seq(Frame)
  <2>1. calls \in Seq(Frame)
        /\ OnePlace(free, DOMAIN cells, objects, table, naming, calls, operand)
    BY Parts
  <2>2. /\ OnePlace(free', DOMAIN cells \cup {NewCell}, objects', table, naming, calls', operand)
        /\ calls' \in Seq(Frame)
    BY <1>1, <1>2, <2>1, CallEntered
  <2> QED
    BY <1>3, <2>2
<1>5. OneOwner(cells', calls', dfreed', objects')
  <2>1. OneOwner(cells', calls, dfreed, objects')
    BY <1>1, <1>2, Parts, ZeroedOwnsNothing
  <2> QED
    BY <1>1, <1>2, <2>1, Parts, FramePushed
<1>6. BodiesKept(cells', table', naming', macro')
  BY <1>3, Parts, BodiesStay
<1>7. Called(calls')
  <2>1. r \in Frame /\ r.for = f
    BY <1>2 DEF Frame
  <2> HIDE DEF r
  <2>2. /\ Len(calls') = Len(calls) + 1 /\ calls'[1] = r
        /\ \A i \in 2..(Len(calls) + 1) : calls'[i] = calls[i - 1]
    BY <1>1, <2>1, Parts, PushFacts
  <2>3. DOMAIN (calls') = 1..(Len(calls) + 1)
    BY <1>4, <2>2, LenProperties
  <2>4. f = "name" => Len(calls) > 0
    BY Parts, EmptySeq
  <2> QED
    BY <2>1, <2>2, <2>3, <2>4, Parts DEF Called
<1>8. StoreTypeOK'
  BY <1>2, <1>3, <1>4, Parts DEF StoreTypeOK
<1> QED
  BY <1>4, <1>5, <1>6, <1>7, <1>8, Gathered

LEMMA LastCellFacts ==
  ASSUME StoreInv, Reading
  PROVE  /\ 1 \in DOMAIN calls /\ calls # <<>> /\ Args \in Seq(Objects)
         /\ calls[1].list \in Seq(Objects)
         /\ CellsOf(calls[1].list) \subseteq DOMAIN cells
         /\ LastCell \in CellsOf(calls[1].list)
         /\ CellsOf(calls[1].list) \cap (Entered(table) \cup Unentered(naming)) = {}
<1>1. 1 \in DOMAIN calls /\ calls # <<>>
  BY Parts, EmptySeq DEF Reading
<1>2. calls[1].list \in Seq(Objects) /\ calls[1].args \in Seq(Objects)
  BY <1>1, Parts DEF Frame
<1>3. /\ calls[1].list # <<>> /\ CellsOf(calls[1].list) \subseteq DOMAIN cells
      /\ CellsOf(calls[1].list) \cap (Entered(table) \cup Unentered(naming)) = {}
  BY <1>1, Parts DEF OnePlace, ListsApart, ListsBesideNames
<1>4. Len(calls[1].list) \in DOMAIN calls[1].list
  BY <1>2, <1>3, LenProperties, EmptySeq
<1> QED
  BY <1>1, <1>2, <1>3, <1>4 DEF LastCell, CellsOf, Args

LEMMA FilledFacts ==   \* the string on top goes into the last symbol
  ASSUME StoreInv, Reading
  PROVE  /\ DOMAIN Filled = DOMAIN cells /\ Filled \in [DOMAIN cells -> Cell]
         /\ \A c \in Entered(table) \cup Unentered(naming) : Filled[c] = cells[c]
         /\ OneOwner(Filled, Tail(calls), dfreed, objects)
         /\ \A cs2 : (/\ Args # <<>> /\ DOMAIN cs2 = DOMAIN calls /\ cs2[1].args = Popped
                      /\ \A i \in DOMAIN calls : i # 1 => cs2[i].args = calls[i].args)
                     => OneOwner(Filled, cs2, dfreed, objects)
<1>0. /\ 1 \in DOMAIN calls /\ calls # <<>> /\ Args \in Seq(Objects)
      /\ LastCell \in DOMAIN cells /\ LastCell \notin Entered(table) \cup Unentered(naming)
      /\ calls \in Seq(Frame) /\ cells \in [DOMAIN cells -> Cell]
  BY LastCellFacts, Parts
<1>1. CASE Args = <<>>
  <2>1. Filled = cells
    BY <1>1 DEF Filled
  <2>2. OneOwner(cells, Tail(calls), dfreed, objects)
    BY <1>0, Parts, StackDropped
  <2> QED
    BY <1>0, <1>1, <2>1, <2>2
<1>2. CASE Args # <<>>
  <2> DEFINE n == Len(Args)
             top == Args[n]
  <2>1. n \in DOMAIN Args /\ n \in Nat \ {0} /\ DOMAIN Args = 1..n
    BY <1>0, <1>2, LenProperties, EmptySeq
  <2>2. top \in Objects
    BY <1>0, <2>1, ElementOfSeq
  <2>3. Filled = [cells EXCEPT ![LastCell].string = top, ![LastCell].owns = top # NoString]
    BY <1>2 DEF Filled
  <2> HIDE DEF top
  <2>4. cells[LastCell] \in Cell
    BY <1>0
  <2>5. /\ DOMAIN Filled = DOMAIN cells
        /\ Filled[LastCell] = [cells[LastCell] EXCEPT !.string = top, !.owns = top # NoString]
        /\ \A c \in DOMAIN cells : c # LastCell => Filled[c] = cells[c]
        /\ Filled = [c \in DOMAIN cells |-> Filled[c]]
    BY <1>0, <2>3
  <2>6. /\ Filled[LastCell].string = top /\ Filled[LastCell].owns = (top # NoString)
        /\ Filled[LastCell] \in Cell
    BY <2>2, <2>4, <2>5 DEF Cell
  <2>7. Filled \in [DOMAIN cells -> Cell]
    BY <1>0, <2>5, <2>6
  <2>8. \A c \in Entered(table) \cup Unentered(naming) : Filled[c] = cells[c]
    BY <1>0, <2>5, Parts
  <2>9. Popped \in Seq(Objects) /\ DOMAIN Popped = 1..(n - 1) /\ \A j \in 1..(n - 1) : Popped[j] = Args[j]
    <3>1. n - 1 \in 0..n
      BY <2>1
    <3> QED
      BY <1>0, <3>1, PrefixStems DEF Popped
  <2>10. ASSUME NEW cs2, DOMAIN cs2 = DOMAIN calls, cs2[1].args = Popped,
                \A i \in DOMAIN calls : i # 1 => cs2[i].args = calls[i].args
         PROVE  OneOwner(Filled, cs2, dfreed, objects)
    <3>1. \A j \in DOMAIN cs2[1].args :
            j # n /\ j \in DOMAIN calls[1].args /\ cs2[1].args[j] = calls[1].args[j]
      BY <2>1, <2>9, <2>10 DEF Args
    <3>2. /\ n \in DOMAIN calls[1].args /\ top = calls[1].args[n]
      BY <2>1 DEF Args, top
    <3>3. Filled[LastCell].string = calls[1].args[n]
          /\ Filled[LastCell].owns = (calls[1].args[n] # NoString)
      BY <2>6, <3>2
    <3>4. OneOwner(cells, calls, dfreed, objects)
      BY Parts
    <3>5. LastCell \in DOMAIN cells /\ 1 \in DOMAIN calls
      BY <1>0
    <3> HIDE DEF n
    <3>6. DOMAIN Filled = DOMAIN cells /\ \A d \in DOMAIN cells : d # LastCell => Filled[d] = cells[d]
      BY <2>5
    <3>7. DOMAIN cs2 = DOMAIN calls /\ \A i \in DOMAIN calls : i # 1 => cs2[i].args = calls[i].args
      BY <2>10
    <3>8. n \in DOMAIN calls[1].args
      BY <3>2
    <3> QED
      BY <3>1, <3>3, <3>4, <3>5, <3>6, <3>7, <3>8, StringMoved
  <2>11. OneOwner(Filled, Tail(calls), dfreed, objects)
    <3> DEFINE cs2 == [calls EXCEPT ![1].args = Popped]
    <3>1. /\ cs2 \in Seq(Frame) /\ Len(cs2) = Len(calls) /\ DOMAIN cs2 = DOMAIN calls
          /\ cs2[1].args = Popped
          /\ \A i \in DOMAIN calls : i # 1 => cs2[i] = calls[i]
      BY <1>0, <2>9, ArgsReplaced
    <3> HIDE DEF cs2
    <3>2. OneOwner(Filled, cs2, dfreed, objects)
      BY <2>10, <3>1
    <3>3. cs2 # <<>>
      BY <1>0, <3>1, EmptySeq
    <3>4. OneOwner(Filled, Tail(cs2), dfreed, objects)
      BY <3>1, <3>2, <3>3, StackDropped
    <3>5. Tail(cs2) = Tail(calls)
      <4>1. /\ Tail(cs2) \in Seq(Frame) /\ Len(Tail(cs2)) = Len(calls) - 1
            /\ \A i \in 1..(Len(calls) - 1) : Tail(cs2)[i] = cs2[i + 1]
        BY <3>1, <3>3, TailFacts
      <4>2. /\ Tail(calls) \in Seq(Frame) /\ Len(Tail(calls)) = Len(calls) - 1
            /\ DOMAIN calls = 1..Len(calls) /\ Len(calls) \in Nat
            /\ \A i \in 1..(Len(calls) - 1) : Tail(calls)[i] = calls[i + 1]
        BY <1>0, TailFacts
      <4>3. \A i \in 1..(Len(calls) - 1) : Tail(cs2)[i] = Tail(calls)[i]
        <5> SUFFICES ASSUME NEW i \in 1..(Len(calls) - 1) PROVE cs2[i + 1] = calls[i + 1]
          BY <4>1, <4>2
        <5>1. i + 1 \in DOMAIN calls /\ i + 1 # 1
          BY <4>2
        <5> QED
          BY <3>1, <5>1
      <4> QED
        BY <4>1, <4>2, <4>3, SeqEqual
    <3> QED
      BY <3>4, <3>5
  <2> QED
    BY <2>5, <2>7, <2>8, <2>10, <2>11
<1> QED
  BY <1>1, <1>2

LEMMA DvReturns ==   \* the list of the activation on top is freed
  ASSUME StoreInv, Reading, FreeSymbolList(calls[1].list, Filled),
         UNCHANGED <<table, naming, operand, macro>>
  PROVE  /\ free' \in Seq(Objects) /\ cells' \in [DOMAIN (cells') -> Cell] /\ dfreed' \subseteq objects
         /\ Tail(calls) \in Seq(Frame)
         /\ OnePlace(free', DOMAIN (cells'), objects, table, naming, Tail(calls), operand)
         /\ OneOwner(cells', Tail(calls), dfreed', objects)
         /\ BodiesKept(cells', table, naming, macro) /\ Called(Tail(calls))
<1> DEFINE l == calls[1].list
           X == CellsOf(l)
           F == Filled
<1>1. /\ 1 \in DOMAIN calls /\ calls # <<>> /\ l \in Seq(Objects) /\ X \subseteq DOMAIN cells
      /\ X \cap (Entered(table) \cup Unentered(naming)) = {}
  BY LastCellFacts
<1>2. /\ DOMAIN F = DOMAIN cells /\ F \in [DOMAIN cells -> Cell]
      /\ \A c \in Entered(table) \cup Unentered(naming) : F[c] = cells[c]
      /\ OneOwner(F, Tail(calls), dfreed, objects)
  BY FilledFacts
<1>3. /\ dfreed' = dfreed \cup {F[c].string : c \in {d \in X : F[d].owns}}
      /\ free' = Reverse(l) \o free
      /\ cells' = [c \in DOMAIN F \ X |-> F[c]]
  BY DEF FreeSymbolList
<1> HIDE DEF F, X
<1>4. /\ DOMAIN (cells') = DOMAIN cells \ X /\ cells' \in [DOMAIN (cells') -> Cell]
      /\ \A c \in DOMAIN (cells') : cells'[c] = F[c]
  BY <1>2, <1>3
<1>5. OneOwner(cells', Tail(calls), dfreed', objects)
  BY <1>1, <1>2, <1>3, StringsFreed
<1>6. dfreed' \subseteq objects
  <2>1. \A c \in X : F[c].owns => F[c].string \in objects
    BY <1>1, <1>2 DEF OneOwner
  <2> QED
    BY <1>3, <2>1, Parts
<1>7. /\ OnePlace(free', DOMAIN (cells'), objects, table, naming, Tail(calls), operand)
      /\ free' \in Seq(Objects)
  <2>1. /\ calls \in Seq(Frame) /\ free \in Seq(Objects)
        /\ OnePlace(free, DOMAIN cells, objects, table, naming, calls, operand)
    BY Parts
  <2>2. /\ OnePlace(Reverse(l) \o free, DOMAIN cells \ CellsOf(l), objects, table, naming, Tail(calls), operand)
        /\ Reverse(l) \o free \in Seq(Objects)
    BY <1>1, <2>1, CallFreed
  <2> QED
    BY <1>3, <1>4, <2>2 DEF X
<1>8. BodiesKept(cells', table, naming, macro)
  <2>1. \A c \in Entered(table) \cup Unentered(naming) : cells'[c] = cells[c]
    BY <1>1, <1>2, <1>4, Parts
  <2> QED
    BY <2>1, Parts, BodiesStay
<1>9. Tail(calls) \in Seq(Frame) /\ Called(Tail(calls))
  <2>1. /\ Tail(calls) \in Seq(Frame) /\ Len(Tail(calls)) = Len(calls) - 1
        /\ DOMAIN calls = 1..Len(calls) /\ Len(calls) \in Nat
        /\ DOMAIN Tail(calls) = 1..(Len(calls) - 1)
        /\ \A i \in 1..(Len(calls) - 1) : Tail(calls)[i] = calls[i + 1]
    BY <1>1, Parts, TailFacts
  <2>2. Called(calls)
    BY Parts
  <2>3. ASSUME NEW i \in DOMAIN Tail(calls), Tail(calls)[i].for = "name" PROVE i < Len(Tail(calls))
    <3>1. i + 1 \in DOMAIN calls /\ calls[i + 1].for = "name"
      BY <2>1, <2>3
    <3>2. i + 1 < Len(calls)
      BY <2>2, <3>1 DEF Called
    <3> QED
      BY <2>1, <3>2
  <2> QED
    BY <2>1, <2>3 DEF Called
<1> QED
  BY <1>4, <1>5, <1>6, <1>7, <1>8, <1>9

LEMMA OperandGone ==   \* a handler frees its operand, of cells with contents ce
  ASSUME StoreInv, NEW ce, DOMAIN ce = DOMAIN cells, ce \in [DOMAIN cells -> Cell],
         OneOwner(ce, calls, dfreed, objects), BodiesKept(ce, table, naming, macro),
         FreeSymbolList(operand, ce), operand' = <<>>,
         UNCHANGED <<objects, table, naming, calls, macro>>
  PROVE  StoreInv'
<1> DEFINE X == CellsOf(operand)
<1>1. X \subseteq DOMAIN cells /\ X \cap (Entered(table) \cup Unentered(naming)) = {}
  BY Parts DEF OnePlace, ListsApart, ListsBesideNames
<1>2. /\ dfreed' = dfreed \cup {ce[c].string : c \in {d \in X : ce[d].owns}}
      /\ free' = Reverse(operand) \o free
      /\ cells' = [c \in DOMAIN ce \ X |-> ce[c]]
  BY DEF FreeSymbolList
<1> HIDE DEF X
<1>3. /\ DOMAIN (cells') = DOMAIN cells \ X /\ cells' \in [DOMAIN (cells') -> Cell]
      /\ \A c \in DOMAIN (cells') : cells'[c] = ce[c]
  BY <1>2
<1>4. OneOwner(cells', calls', dfreed', objects')
  BY <1>1, <1>2, StringsFreed
<1>5. dfreed' \subseteq objects'
  <2>1. \A c \in X : ce[c].owns => ce[c].string \in objects
    BY <1>1 DEF OneOwner
  <2> QED
    BY <1>2, <2>1, Parts
<1>6. /\ OnePlace(free', DOMAIN (cells'), objects', table', naming', calls', operand')
      /\ free' \in Seq(Objects)
  <2>1. /\ operand \in Seq(Objects) /\ free \in Seq(Objects)
        /\ OnePlace(free, DOMAIN cells, objects, table, naming, calls, operand)
    BY Parts
  <2>2. /\ OnePlace(Reverse(operand) \o free, DOMAIN cells \ CellsOf(operand), objects, table, naming,
                    calls, <<>>)
        /\ Reverse(operand) \o free \in Seq(Objects)
    BY <2>1, OperandFreed
  <2> QED
    BY <1>2, <1>3, <2>2 DEF X
<1>7. BodiesKept(cells', table', naming', macro')
  <2>1. \A c \in Entered(table) \cup Unentered(naming) : cells'[c] = ce[c]
    BY <1>1, <1>3, Parts
  <2> QED
    BY <2>1, BodiesStay
<1>8. StoreTypeOK' /\ Called(calls')
  BY <1>3, <1>5, <1>6, Parts DEF StoreTypeOK
<1> QED
  BY <1>4, <1>6, <1>7, <1>8, Gathered

-----------------------------------------------------------------------------
(* One lemma for each kind of action.                                      *)

LEMMA NamingSteps ==
  ASSUME ArenaInv, StoreInv, CreateSymbol \/ EnterSymbol
  PROVE  StoreInv'
<1>1. CASE CreateSymbol
  <2>1. PICK n \in Globals \cup Locals :
          /\ ~Found(n) /\ AllocSymbol
          /\ naming' = <<NewCell, Key(n)>> /\ cells' = Cleared(cells, NewCell)
    BY <1>1 DEF CreateSymbol
  <2>2. naming = <<>> /\ UNCHANGED <<table, calls, operand, macro, dfreed>>
    BY <1>1 DEF CreateSymbol
  <2>3. /\ NewCell \notin DOMAIN cells /\ NewCell \in Objects
        /\ FreeApart(free', DOMAIN cells \cup {NewCell}, objects')
        /\ free' \in Seq(Objects) /\ objects \subseteq objects'
    BY <2>1, AllocGives
  <2> DEFINE c == NewCell
             k == Key(n)
  <2>4. cells \in [DOMAIN cells -> Cell]
    BY Parts
  <2>5. /\ DOMAIN (cells') = DOMAIN cells \cup {c} /\ cells' \in [DOMAIN (cells') -> Cell]
        /\ cells'[c] = Zeroed /\ ~Zeroed.owns /\ ~Zeroed.eqm
        /\ \A d \in DOMAIN cells : cells'[d] = cells[d]
    <3> DEFINE ce2 == Cleared(cells, c)
    <3>1. /\ DOMAIN ce2 = DOMAIN cells \cup {c} /\ ce2 \in [DOMAIN ce2 -> Cell]
          /\ ce2[c] = Zeroed /\ ~Zeroed.owns /\ ~Zeroed.eqm
          /\ \A d \in DOMAIN cells : d # c => ce2[d] = cells[d]
      BY <2>4, ClearedFacts
    <3> HIDE DEF ce2
    <3>2. cells' = ce2
      BY <2>1 DEF ce2
    <3> QED
      BY <2>3, <3>1, <3>2
  <2>6. k \notin DOMAIN table
    BY <2>1 DEF Found
  <2> HIDE DEF c, k
  <2>7. OnePlace(free, DOMAIN cells, objects, table, naming, calls, operand)
    BY Parts
  <2>8. naming' = <<c, k>>
    BY <2>1 DEF c, k
  <2>9. c \notin DOMAIN cells /\ FreeApart(free', DOMAIN cells \cup {c}, objects')
    BY <2>3 DEF c
  <2>10. OnePlace(free', DOMAIN cells \cup {c}, objects', table, <<c, k>>, calls, operand)
    BY <2>2, <2>6, <2>7, <2>9, NameTaken
  <2>11. OnePlace(free', DOMAIN (cells'), objects', table', naming', calls', operand')
    BY <2>2, <2>5, <2>8, <2>10
  <2>12. OneOwner(cells', calls', dfreed', objects')
    BY <2>1, <2>2, <2>3, Parts, ZeroedOwnsNothing
  <2>13. BodiesKept(cells', table', naming', macro')
    <3>1. Unentered(naming') = {c} /\ Unentered(naming) = {}
      BY <2>2, <2>8 DEF Unentered
    <3>2. \A d \in Entered(table) : cells'[d] = cells[d]
      BY <2>5, Parts
    <3>3. \A j \in DOMAIN table : table[j] \in Entered(table)
      BY DEF Entered
    <3>4. BodiesKept(cells, table, naming, macro)
      BY Parts
    <3> QED
      BY <2>2, <2>5, <3>1, <3>2, <3>3, <3>4 DEF BodiesKept
  <2>14. StoreTypeOK' /\ Called(calls')
    BY <2>2, <2>3, <2>5, Parts DEF StoreTypeOK
  <2> QED
    BY <2>11, <2>12, <2>13, <2>14, Gathered
<1>2. CASE EnterSymbol
  <2>1. /\ naming # <<>> /\ naming' = <<>>
        /\ table' = [k \in DOMAIN table \cup {naming[2]} |->
                       IF k = naming[2] THEN naming[1] ELSE table[k]]
        /\ UNCHANGED <<free, cells, calls, operand, macro, dfreed>>
    BY <1>2 DEF EnterSymbol
  <2>2. objects \subseteq objects'
    BY <1>2, StringGives DEF EnterSymbol
  <2>3. OnePlace(free, DOMAIN cells, objects', table', <<>>, calls, operand)
    <3>1. OnePlace(free, DOMAIN cells, objects, table, naming, calls, operand)
      BY Parts
    <3>2. naming[2] \notin DOMAIN table
      BY <2>1, <3>1 DEF OnePlace, NamesApart
    <3>3. /\ DOMAIN (table') = DOMAIN table \cup {naming[2]} /\ table'[naming[2]] = naming[1]
          /\ \A k \in DOMAIN table : table'[k] = table[k]
      BY <2>1, <3>2
    <3> QED
      BY <2>1, <2>2, <3>1, <3>3, NameEntered
  <2>4. OneOwner(cells, calls, dfreed, objects')
    <3>1. OneOwner(cells, calls, dfreed, objects)
      BY Parts
    <3> QED
      BY <2>2, <3>1 DEF OneOwner
  <2>5. BodiesKept(cells, table', <<>>, macro)
    <3>1. naming[2] \notin DOMAIN table
      BY <2>1, Parts DEF OnePlace, NamesApart
    <3>2. /\ DOMAIN (table') = DOMAIN table \cup {naming[2]} /\ table'[naming[2]] = naming[1]
          /\ \A k \in DOMAIN table : table'[k] = table[k]
      BY <2>1, <3>1
    <3>3. Entered(table') \cup Unentered(<<>>) \subseteq Entered(table) \cup Unentered(naming)
      BY <2>1, <3>2 DEF Entered, Unentered
    <3>4. BodiesKept(cells, table, naming, macro)
      BY Parts
    <3> QED
      BY <3>2, <3>3, <3>4 DEF BodiesKept
  <2>6. StoreTypeOK' /\ Called(calls')
    BY <2>1, <2>2, Parts DEF StoreTypeOK
  <2> QED
    BY <2>1, <2>3, <2>4, <2>5, <2>6, Gathered
<1> QED
  BY <1>1, <1>2

LEMMA ValuesTyped == Value \in Objects /\ Value = NoString
BY DEF Value, NoString, Object, Objects

LEMMA ReadingSteps ==   \* what only changes the argument stack
  ASSUME ArenaInv, StoreInv, PushValue \/ PushString \/ Convert \/ Combine
  PROVE  StoreInv'
<1>0. Reading /\ Args \in Seq(Objects)
  BY LastCellFacts DEF PushValue, PushString, Convert, Combine
<1>1. CASE PushValue
  <2>1. /\ Pushed(Args, Value) \in Seq(Objects)
        /\ Stems(Pushed(Args, Value), Args, objects, objects)
    BY <1>0, ValuesTyped, PushedStems
  <2>2. objects' = objects /\ SetArgs(Pushed(Args, Value))
        /\ UNCHANGED <<free, cells, table, naming, operand, macro, dfreed>>
    BY <1>1 DEF PushValue, arena
  <2> QED
    BY <1>0, <2>1, <2>2, StackStep
<1>2. CASE PushString
  <2>1. objects' = objects \cup {Fresh} /\ Fresh \notin objects /\ Fresh \in Objects
    BY <1>2, StringGives DEF PushString
  <2>2. /\ Pushed(Args, Fresh) \in Seq(Objects)
        /\ Stems(Pushed(Args, Fresh), Args, objects, objects')
    BY <1>0, <2>1, PushedStems
  <2>3. SetArgs(Pushed(Args, Fresh))
        /\ UNCHANGED <<free, cells, table, naming, operand, macro, dfreed>>
    BY <1>2 DEF PushString
  <2> QED
    BY <1>0, <2>1, <2>2, <2>3, StackStep
<1>3. CASE Convert
  <2> DEFINE a2 == [Args EXCEPT ![Len(Args)] = Fresh]
  <2>1. objects' = objects \cup {Fresh} /\ Fresh \notin objects /\ Fresh \in Objects
    BY <1>3, StringGives DEF Convert
  <2>2. /\ DOMAIN Args = 1..Len(Args) /\ Len(Args) \in Nat /\ Len(Args) \in DOMAIN Args
        /\ \A j \in DOMAIN Args : Args[j] \in Objects
    BY <1>0, <1>3, LenProperties, ElementOfSeq, EmptySeq DEF Convert
  <2>3. /\ DOMAIN a2 = DOMAIN Args /\ a2[Len(Args)] = Fresh
        /\ \A j \in DOMAIN Args : j # Len(Args) => a2[j] = Args[j]
        /\ a2 = [j \in 1..Len(Args) |-> a2[j]]
    BY <2>2
  <2> HIDE DEF a2
  <2>4. a2 \in [1..Len(Args) -> Objects]
    BY <2>1, <2>2, <2>3
  <2>5. a2 \in Seq(Objects)
    BY <2>2, <2>4, SeqDef
  <2>6. Len(a2) = Len(Args)
    BY <2>2, <2>3, <2>5, LenProperties
  <2>7. Stems(a2, Args, objects, objects')
    BY <2>1, <2>2, <2>3, <2>6 DEF Stems
  <2>8. SetArgs(a2) /\ UNCHANGED <<free, cells, table, naming, operand, macro, dfreed>>
    BY <1>3 DEF Convert, a2
  <2> QED
    BY <1>0, <2>1, <2>5, <2>7, <2>8, StackStep
<1>4. CASE Combine
  <2> DEFINE n == Len(Args) - 2
             b == SubSeq(Args, 1, n)
  <2>1. n \in 0..Len(Args) /\ n \in Nat
    BY <1>0, <1>4, LenProperties DEF Combine
  <2>2. /\ b \in Seq(Objects) /\ Len(b) = n /\ DOMAIN b = 1..n
        /\ \A j \in 1..n : b[j] = Args[j]
        /\ DOMAIN Args = 1..Len(Args) /\ Len(Args) \in Nat
    BY <1>0, <2>1, PrefixStems
  <2> HIDE DEF b
  <2>3. /\ Append(b, Value) \in Seq(Objects) /\ Len(Append(b, Value)) = n + 1
        /\ \A j \in 1..n : Append(b, Value)[j] = b[j]
        /\ Append(b, Value)[n + 1] = Value
    BY <2>2, ValuesTyped, AppendProperties
  <2>4. DOMAIN Append(b, Value) = 1..(n + 1)
    BY <2>3, LenProperties
  <2>5. Stems(Append(b, Value), Args, objects, objects)
    BY <2>1, <2>2, <2>3, <2>4, ValuesTyped DEF Stems
  <2>6. objects' = objects /\ SetArgs(Append(b, Value))
        /\ UNCHANGED <<free, cells, table, naming, operand, macro, dfreed>>
    BY <1>4 DEF Combine, arena, b
  <2> QED
    BY <1>0, <2>3, <2>5, <2>6, StackStep
<1> QED
  BY <1>1, <1>2, <1>3, <1>4

LEMMA NameSteps ==   \* pushsymbol
  ASSUME ArenaInv, StoreInv, NEW n, PushName(n)
  PROVE  StoreInv'
<1> DEFINE sym == cells[table[Key(n)]]
<1>0. Reading /\ Args \in Seq(Objects) /\ naming = <<>> /\ calls # <<>>
      /\ UNCHANGED <<table, naming, operand, macro, dfreed>>
  BY LastCellFacts DEF PushName, Reading
<1>1. \/ Enter("name")
      \/ /\ TakeString(sym.string.size)
         /\ SetArgs(Pushed(Args, Fresh)) /\ UNCHANGED <<free, cells>>
      \/ SetArgs(Pushed(Args, Value)) /\ UNCHANGED <<arena, free, cells>>
  BY DEF PushName
<1>2. CASE Enter("name")
  BY <1>0, <1>2, EnterStep
<1>3. CASE /\ TakeString(sym.string.size)
           /\ SetArgs(Pushed(Args, Fresh)) /\ UNCHANGED <<free, cells>>
  <2>1. objects' = objects \cup {Fresh} /\ Fresh \notin objects /\ Fresh \in Objects
    BY <1>3, StringGives
  <2>2. /\ Pushed(Args, Fresh) \in Seq(Objects)
        /\ Stems(Pushed(Args, Fresh), Args, objects, objects')
    BY <1>0, <2>1, PushedStems
  <2> QED
    BY <1>0, <1>3, <2>1, <2>2, StackStep
<1>4. CASE SetArgs(Pushed(Args, Value)) /\ UNCHANGED <<arena, free, cells>>
  <2>1. /\ Pushed(Args, Value) \in Seq(Objects)
        /\ Stems(Pushed(Args, Value), Args, objects, objects)
    BY <1>0, ValuesTyped, PushedStems
  <2>2. objects' = objects
    BY <1>4 DEF arena
  <2> QED
    BY <1>0, <1>4, <2>1, <2>2, StackStep
<1> QED
  BY <1>1, <1>2, <1>3, <1>4

LEMMA CommaStep ==
  ASSUME ArenaInv, StoreInv, Comma
  PROVE  StoreInv'
<1> DEFINE list == Append(calls[1].list, NewCell)
           cs1 == [calls EXCEPT ![1].list = Append(@, NewCell), ![1].args = Popped]
           r == [[calls[1] EXCEPT !.list = list] EXCEPT !.args = Popped]
<1>1. /\ Reading /\ Args # <<>> /\ AllocSymbol /\ calls' = cs1 /\ cells' = Cleared(Filled, NewCell)
      /\ UNCHANGED <<table, naming, operand, macro, dfreed>>
  BY DEF Comma
<1>2. /\ NewCell \notin DOMAIN cells /\ NewCell \in Objects
      /\ FreeApart(free', DOMAIN cells \cup {NewCell}, objects')
      /\ free' \in Seq(Objects) /\ objects \subseteq objects'
  BY <1>1, AllocGives
<1>3. /\ 1 \in DOMAIN calls /\ Args \in Seq(Objects) /\ calls[1].list \in Seq(Objects)
      /\ calls \in Seq(Frame) /\ DOMAIN calls = 1..Len(calls) /\ Len(calls) \in Nat
      /\ \A i \in DOMAIN calls : calls[i] \in Frame
  BY <1>1, LastCellFacts, Parts
<1>4. list \in Seq(Objects)
  BY <1>2, <1>3, AppendProperties
<1>5. Popped \in Seq(Objects)
  <2>1. Len(Args) - 1 \in 0..Len(Args)
    BY <1>1, <1>3, LenProperties, EmptySeq
  <2> QED
    BY <1>3, <2>1, PrefixStems DEF Popped
<1>6. /\ DOMAIN cs1 = DOMAIN calls /\ cs1[1] = r
      /\ \A i \in DOMAIN calls : i # 1 => cs1[i] = calls[i]
      /\ cs1 = [i \in DOMAIN calls |-> cs1[i]]
  BY <1>3
<1> HIDE DEF list, cs1
<1>7. r.list = list /\ r.args = Popped /\ r.for = calls[1].for /\ r \in Frame
  <2>1. calls[1] \in Frame
    BY <1>3
  <2> QED
    BY <2>1, <1>4, <1>5 DEF Frame
<1> HIDE DEF r
<1>8. cs1 \in [1..Len(calls) -> Frame]
  BY <1>3, <1>6, <1>7
<1>9. cs1 \in Seq(Frame)
  BY <1>3, <1>8, SeqDef
<1>10. Len(cs1) = Len(calls)
  BY <1>3, <1>6, <1>9, LenProperties
<1>11. OnePlace(free', DOMAIN cells \cup {NewCell}, objects', table, naming, cs1, operand)
  <2>1. OnePlace(free, DOMAIN cells, objects, table, naming, calls, operand)
    BY Parts
  <2>2. cs1[1].list = Append(calls[1].list, NewCell) /\ \A i \in DOMAIN calls : i # 1 => cs1[i].list = calls[i].list
    BY <1>6, <1>7 DEF list
  <2>3. DOMAIN cs1 = DOMAIN calls /\ calls \in Seq(Frame) /\ 1 \in DOMAIN calls
    BY <1>3, <1>6
  <2> QED
    BY <1>2, <2>1, <2>2, <2>3, ListGrows
<1>12. /\ DOMAIN Filled = DOMAIN cells /\ Filled \in [DOMAIN cells -> Cell]
       /\ \A c \in Entered(table) \cup Unentered(naming) : Filled[c] = cells[c]
       /\ OneOwner(Filled, cs1, dfreed, objects)
  <2>1. cs1[1].args = Popped /\ \A i \in DOMAIN calls : i # 1 => cs1[i].args = calls[i].args
    BY <1>6, <1>7
  <2> QED
    BY <1>1, <1>6, <2>1, FilledFacts
<1> DEFINE F == Filled
           ce2 == Cleared(F, NewCell)
<1>13. /\ DOMAIN F = DOMAIN cells /\ F \in [DOMAIN F -> Cell]
       /\ \A c \in Entered(table) \cup Unentered(naming) : F[c] = cells[c]
       /\ OneOwner(F, cs1, dfreed, objects) /\ cells' = ce2
  BY <1>1, <1>12
<1> HIDE DEF F
<1>14. /\ DOMAIN ce2 = DOMAIN F \cup {NewCell} /\ ce2 \in [DOMAIN ce2 -> Cell]
       /\ \A c \in DOMAIN F : c # NewCell => ce2[c] = F[c]
  BY <1>13, ClearedFacts
<1>15. OneOwner(ce2, cs1, dfreed, objects')
  BY <1>2, <1>13, ZeroedOwnsNothing
<1> HIDE DEF ce2
<1>16. BodiesKept(cells', table', naming', macro')
  <2>1. \A c \in Entered(table) \cup Unentered(naming) : cells'[c] = cells[c]
    BY <1>2, <1>13, <1>14, Parts
  <2> QED
    BY <1>1, <2>1, Parts, BodiesStay
<1>17. Called(calls')
  <2>1. \A i \in DOMAIN calls : cs1[i].for = calls[i].for
    BY <1>6, <1>7
  <2>2. Called(calls)
    BY Parts
  <2> QED
    BY <1>1, <1>6, <1>10, <2>1, <2>2 DEF Called
<1>18. StoreTypeOK'
  BY <1>1, <1>2, <1>9, <1>13, <1>14, Parts DEF StoreTypeOK
<1>19. OnePlace(free', DOMAIN (cells'), objects', table', naming', calls', operand')
  BY <1>1, <1>11, <1>13, <1>14
<1>20. OneOwner(cells', calls', dfreed', objects')
  BY <1>1, <1>13, <1>15
<1> QED
  BY <1>16, <1>17, <1>18, <1>19, <1>20, Gathered

LEMMA ReturnSteps ==   \* the end of an activation of eval
  ASSUME ArenaInv, StoreInv, EndOfLine \/ EndOfName \/ EndOfDv
  PROVE  StoreInv'
<1>0. /\ Reading /\ 1 \in DOMAIN calls /\ calls # <<>> /\ calls[1].list \in Seq(Objects)
      /\ calls \in Seq(Frame)
  BY LastCellFacts, Parts DEF EndOfLine, EndOfName, EndOfDv
<1>1. CASE EndOfLine
  <2>1. /\ cells' = Filled /\ operand' = calls[1].list /\ calls' = <<>> /\ objects' = objects
        /\ UNCHANGED <<free, table, naming, macro, dfreed>>
    BY <1>1 DEF EndOfLine, arena
  <2>2. /\ DOMAIN Filled = DOMAIN cells /\ Filled \in [DOMAIN cells -> Cell]
        /\ \A c \in Entered(table) \cup Unentered(naming) : Filled[c] = cells[c]
        /\ OneOwner(Filled, Tail(calls), dfreed, objects)
    BY <1>0, FilledFacts
  <2>3. OneOwner(Filled, <<>>, dfreed, objects)
    BY <2>2, StacksGone
  <2>4. OnePlace(free, DOMAIN cells, objects, table, naming, <<>>, calls[1].list)
    BY <1>0, Parts, ListReturned
  <2>5. BodiesKept(Filled, table, naming, macro)
    BY <2>2, Parts, BodiesStay
  <2>6. Called(<<>>) /\ <<>> \in Seq(Frame)
    BY DEF Called
  <2>7. StoreTypeOK'
    BY <1>0, <2>1, <2>2, <2>6, Parts DEF StoreTypeOK
  <2> QED
    BY <2>1, <2>2, <2>3, <2>4, <2>5, <2>6, <2>7, Gathered
<1>2. CASE EndOfDv
  <2>1. /\ FreeSymbolList(calls[1].list, Filled) /\ calls' = Tail(calls) /\ objects' = objects
        /\ UNCHANGED <<table, naming, operand, macro>>
    BY <1>2 DEF EndOfDv, arena
  <2>2. /\ free' \in Seq(Objects) /\ cells' \in [DOMAIN (cells') -> Cell] /\ dfreed' \subseteq objects
        /\ Tail(calls) \in Seq(Frame)
        /\ OnePlace(free', DOMAIN (cells'), objects, table, naming, Tail(calls), operand)
        /\ OneOwner(cells', Tail(calls), dfreed', objects)
        /\ BodiesKept(cells', table, naming, macro) /\ Called(Tail(calls))
    BY <1>0, <2>1, DvReturns
  <2>3. StoreTypeOK'
    BY <2>1, <2>2, Parts DEF StoreTypeOK
  <2> QED
    BY <2>1, <2>2, <2>3, Gathered
<1>3. CASE EndOfName
  <2> DEFINE s == Filled[calls[1].list[1]].string
             top == IF s = NoString THEN Value ELSE Fresh
             a2 == Pushed(calls[2].args, top)
             cs2 == [calls EXCEPT ![2].args = a2]
             cs3 == Tail(calls)
  <2>1. /\ FreeSymbolList(calls[1].list, Filled) /\ CopyString(s) /\ calls[1].for = "name"
        /\ UNCHANGED <<table, naming, operand, macro>>
    BY <1>3 DEF EndOfName
  <2>2. \/ s = NoString /\ top = Value /\ calls' = Tail(cs2) /\ objects' = objects
        \/ s # NoString /\ top = Fresh /\ TakeString(s.size) /\ calls' = Tail(cs2)
    BY <2>1 DEF CopyString, arena
  <2>3. /\ objects \subseteq objects' /\ top \in Objects /\ calls' = Tail(cs2)
        /\ top = NoString \/ top \in objects' \ objects
    BY <2>2, ValuesTyped, StringGives
  <2> HIDE DEF s, top
  <2>4. 2 \in DOMAIN calls /\ DOMAIN calls = 1..Len(calls) /\ Len(calls) \in Nat
    BY <1>0, <2>1, Parts DEF Called
  <2>5. calls[2].args \in Seq(Objects)
    BY <2>4, Parts DEF Frame
  <2>6. a2 \in Seq(Objects) /\ Stems(a2, calls[2].args, objects, objects')
    BY <2>3, <2>5, PushedStems
  <2> HIDE DEF a2
  <2>7. /\ cs2 \in Seq(Frame) /\ Len(cs2) = Len(calls) /\ DOMAIN cs2 = DOMAIN calls
        /\ cs2[2].args = a2 /\ cs2[2].list = calls[2].list /\ cs2[2].for = calls[2].for
        /\ \A i \in DOMAIN calls : i # 2 => cs2[i] = calls[i]
    BY <1>0, <2>4, <2>6, ArgsReplaced
  <2> HIDE DEF cs2
  <2>8. cs2 # <<>>
    BY <2>4, <2>7, EmptySeq
  <2>9. /\ Tail(cs2) \in Seq(Frame) /\ Len(Tail(cs2)) = Len(calls) - 1
        /\ DOMAIN Tail(cs2) = 1..(Len(calls) - 1)
        /\ \A i \in 1..(Len(calls) - 1) : Tail(cs2)[i] = cs2[i + 1]
    BY <2>7, <2>8, TailFacts
  <2>10. /\ Len(cs3) = Len(calls) - 1
         /\ DOMAIN cs3 = 1..(Len(calls) - 1)
         /\ \A i \in 1..(Len(calls) - 1) : cs3[i] = calls[i + 1]
    BY <1>0, TailFacts
  <2>11. /\ free' \in Seq(Objects) /\ cells' \in [DOMAIN (cells') -> Cell] /\ dfreed' \subseteq objects
         /\ OnePlace(free', DOMAIN (cells'), objects, table, naming, cs3, operand)
         /\ OneOwner(cells', cs3, dfreed', objects)
         /\ BodiesKept(cells', table, naming, macro) /\ Called(cs3)
    BY <1>0, <2>1, DvReturns
  <2> HIDE DEF cs3
  <2>12. 1 \in DOMAIN cs3 /\ DOMAIN (calls') = DOMAIN cs3 /\ cs3[1] = calls[2] /\ calls'[1] = cs2[2]
         /\ \A i \in DOMAIN cs3 : i # 1 => calls'[i] = cs3[i]
    <3>1. 1 \in DOMAIN cs3 /\ DOMAIN (calls') = DOMAIN cs3 /\ cs3[1] = calls[2] /\ calls'[1] = cs2[2]
      BY <2>3, <2>4, <2>9, <2>10
    <3>2. ASSUME NEW i \in DOMAIN cs3, i # 1 PROVE calls'[i] = cs3[i]
      <4>1. i + 1 \in DOMAIN calls /\ i + 1 # 2
        BY <2>4, <2>10, <3>2
      <4> QED
        BY <2>3, <2>7, <2>9, <2>10, <4>1
    <3> QED
      BY <3>1, <3>2
  <2>13. OnePlace(free', DOMAIN (cells'), objects', table, naming, calls', operand)
    <3>1. \A i \in DOMAIN cs3 : calls'[i].list = cs3[i].list
      BY <2>7, <2>12
    <3>2. OnePlace(free', DOMAIN (cells'), objects, table, naming, cs3, operand)
      BY <2>11
    <3>3. DOMAIN (calls') = DOMAIN cs3 /\ objects \subseteq objects'
      BY <2>3, <2>12
    <3>4. OnePlace(free', DOMAIN (cells'), objects', table, naming, calls', operand)
      BY <3>1, <3>2, <3>3, SameLists
    <3> QED
      BY <2>1, <3>4
  <2>14. OneOwner(cells', calls', dfreed', objects')
    <3>1. Stems(calls'[1].args, cs3[1].args, objects, objects')
      BY <2>6, <2>7, <2>12
    <3>2. \A i \in DOMAIN cs3 : i # 1 => calls'[i].args = cs3[i].args
      BY <2>12
    <3> QED
      BY <2>3, <2>11, <2>12, <3>1, <3>2, StackChanged
  <2>15. Called(calls')
    <3>1. \A i \in DOMAIN cs3 : calls'[i].for = cs3[i].for
      BY <2>7, <2>12
    <3>2. Len(calls') = Len(cs3)
      BY <2>3, <2>9, <2>10
    <3> QED
      BY <2>11, <2>12, <3>1, <3>2 DEF Called
  <2>16. StoreTypeOK'
    BY <2>1, <2>3, <2>9, <2>11, Parts DEF StoreTypeOK
  <2> QED
    BY <2>1, <2>11, <2>13, <2>14, <2>15, <2>16, Gathered
<1> QED
  BY <1>1, <1>2, <1>3

LEMMA HandlerSteps ==   \* what the handlers do with the operand
  ASSUME StoreInv, FreeOperand \/ LoseOperand \/ (\E n : Assign(n))
  PROVE  StoreInv'
<1>1. CASE FreeOperand
  <2>1. /\ FreeSymbolList(operand, cells) /\ operand' = <<>>
        /\ UNCHANGED <<objects, table, naming, calls, macro>>
    BY <1>1 DEF FreeOperand, arena
  <2>2. DOMAIN cells = DOMAIN cells
    OBVIOUS
  <2>3. /\ cells \in [DOMAIN cells -> Cell]
        /\ OneOwner(cells, calls, dfreed, objects) /\ BodiesKept(cells, table, naming, macro)
    BY Parts
  <2> QED
    BY <2>1, <2>2, <2>3, OperandGone
<1>2. CASE LoseOperand
  <2>1. /\ operand' = <<>> /\ macro' = NoName /\ calls = <<>> /\ objects' = objects
        /\ UNCHANGED <<free, cells, table, naming, calls, dfreed>>
    BY <1>2 DEF LoseOperand, Holding, arena
  <2>2. OnePlace(free, DOMAIN cells, objects, table, naming, <<>>, <<>>)
    BY Parts, ListsDropped
  <2>3. BodiesKept(cells, table, naming, macro')
    BY <2>1, Parts, BodiesStay
  <2>4. StoreTypeOK'
    BY <2>1, Parts DEF StoreTypeOK
  <2> QED
    BY <2>1, <2>2, <2>3, <2>4, Parts, Gathered
<1>3. CASE \E n : Assign(n)
  <2>1. PICK n : Assign(n)
    BY <1>3
  <2> DEFINE a == table[Key(n)]
             b == operand[1]
             ce == TakeOver(a)
  <2>2. /\ naming = <<>> /\ calls = <<>> /\ operand # <<>> /\ macro = NoName
        /\ Key(n) \in DOMAIN table /\ FreeSymbolList(operand, ce) /\ operand' = <<>>
        /\ UNCHANGED <<objects, table, naming, calls, macro>>
    BY <2>1 DEF Assign, Holding, Found, arena
  <2>3. a \in Entered(table) /\ a \in DOMAIN cells /\ cells \in [DOMAIN cells -> Cell]
    BY <2>2, Parts DEF Entered
  <2>4. b \in CellsOf(operand)
    <3>1. operand \in Seq(Objects)
      BY Parts
    <3>2. 1 \in DOMAIN operand
      BY <2>2, <3>1, LenProperties, EmptySeq
    <3> QED
      BY <3>2 DEF CellsOf
  <2>5. b \in DOMAIN cells /\ a # b
    BY <2>3, <2>4, Parts DEF OnePlace, ListsApart, ListsBesideNames
  <2>6. ce = [cells EXCEPT ![a].string = cells[b].string, ![a].owns = cells[b].owns, ![a].eqm = FALSE,
                           ![b].owns = FALSE]
    BY DEF TakeOver
  <2> HIDE DEF a, b, ce
  <2> DEFINE ra == [[[cells[a] EXCEPT !.string = cells[b].string] EXCEPT !.owns = cells[b].owns]
                    EXCEPT !.eqm = FALSE]
             rb == [cells[b] EXCEPT !.owns = FALSE]
  <2>7. /\ DOMAIN ce = DOMAIN cells /\ ce[a] = ra /\ ce[b] = rb
        /\ \A c \in DOMAIN cells : c # a /\ c # b => ce[c] = cells[c]
        /\ ce = [c \in DOMAIN cells |-> ce[c]]
    BY <2>3, <2>5, <2>6
  <2>8. cells[a] \in Cell /\ cells[b] \in Cell
    BY <2>3, <2>5
  <2>9. /\ ra.string = cells[b].string /\ ra.owns = cells[b].owns /\ ra.eqm = FALSE /\ ra \in Cell
        /\ rb.owns = FALSE /\ rb \in Cell /\ cells[b].owns \in BOOLEAN
    BY <2>8 DEF Cell
  <2> HIDE DEF ra, rb
  <2>10. ce \in [DOMAIN cells -> Cell]
    BY <2>3, <2>7, <2>9
  <2>11. OneOwner(ce, calls, dfreed, objects)
    <3>1. OneOwner(cells, <<>>, dfreed, objects)
      BY <2>2, Parts
    <3>2. ce[a].string = cells[b].string /\ ce[a].owns = cells[b].owns /\ ce[b].owns = FALSE
      BY <2>7, <2>9
    <3>3. OneOwner(ce, <<>>, dfreed, objects)
      BY <2>3, <2>5, <2>7, <2>9, <3>1, <3>2, StringHandedOver
    <3> QED
      BY <2>2, <3>3
  <2>12. BodiesKept(ce, table, naming, macro)
    <3>1. b \notin Entered(table) /\ Unentered(naming) = {} /\ Entered(table) \subseteq DOMAIN cells
      BY <2>2, <2>4, Parts DEF OnePlace, ListsBesideNames, Unentered
    <3>2. BodiesKept(cells, table, naming, macro)
      BY Parts
    <3>3. \A c \in Entered(table) \cup Unentered(naming) : ce[c].eqm => ce[c].owns
      BY <2>7, <2>9, <3>1, <3>2 DEF BodiesKept
    <3> QED
      BY <2>2, <3>3 DEF BodiesKept
  <2> QED
    BY <2>2, <2>7, <2>10, <2>11, <2>12, OperandGone
<1> QED
  BY <1>1, <1>2, <1>3

LEMMA LineSteps ==   \* EQM, DV and what goes on between two lines
  ASSUME ArenaInv, StoreInv, ChangeScope \/ Stop \/ (\E n : Eqm(n) \/ DvLine(n))
  PROVE  StoreInv'
<1>1. CASE ChangeScope
  <2>1. UNCHANGED <<objects, free, cells, table, naming, calls, operand, macro, dfreed>>
    BY <1>1 DEF ChangeScope, arena
  <2>2. StoreTypeOK'
    BY <2>1, Parts DEF StoreTypeOK
  <2> QED
    BY <2>1, <2>2, Parts, Gathered
<1>2. CASE Stop
  <2>1. objects' = objects
    BY <1>2 DEF Stop, Refused, TakeTooLarge, OutOfMemory, Exit, FreeAll
  <2>2. /\ naming' = <<>> /\ calls' = <<>> /\ operand' = <<>> /\ macro' = NoName
        /\ UNCHANGED <<free, cells, table, dfreed>>
    BY <1>2 DEF Stop
  <2>3. OnePlace(free, DOMAIN cells, objects, table, <<>>, <<>>, <<>>)
    BY Parts, ListsDropped
  <2>4. OneOwner(cells, <<>>, dfreed, objects)
    BY Parts, StacksGone
  <2>5. BodiesKept(cells, table, <<>>, NoName)
    BY Parts, BodiesStay
  <2>6. Called(<<>>) /\ <<>> \in Seq(Frame) /\ <<>> \in Seq(Objects)
    BY DEF Called
  <2>7. StoreTypeOK'
    BY <2>1, <2>2, <2>6, Parts DEF StoreTypeOK
  <2> QED
    BY <2>1, <2>2, <2>3, <2>4, <2>5, <2>6, <2>7, Gathered
<1>3. CASE \E n : DvLine(n)
  <2>1. PICK n : DvLine(n)
    BY <1>3
  <2>2. /\ Key(n) \in DOMAIN table /\ cells[table[Key(n)]].eqm /\ macro' = Key(n)
        /\ UNCHANGED <<objects, free, cells, table, naming, calls, operand, dfreed>>
    BY <2>1 DEF DvLine, Found, arena
  <2>3. BodiesKept(cells, table, naming, macro')
    BY <2>2, Parts DEF BodiesKept
  <2>4. StoreTypeOK'
    BY <2>2, Parts DEF StoreTypeOK
  <2> QED
    BY <2>2, <2>3, <2>4, Parts, Gathered
<1>4. CASE \E n : Eqm(n)
  <2>1. PICK n : Eqm(n)
    BY <1>4
  <2> DEFINE a == table[Key(n)]
             r == [string |-> Fresh, owns |-> TRUE, eqm |-> TRUE]
  <2>2. /\ naming = <<>> /\ calls = <<>> /\ operand = <<>> /\ macro = NoName /\ Key(n) \in DOMAIN table
        /\ dfreed' = dfreed \cup {cells[d].string : d \in {e \in {a} : cells[e].owns}}
        /\ cells' = [cells EXCEPT ![a] = r]
        /\ UNCHANGED <<free, table, naming, calls, operand, macro>>
    BY <2>1 DEF Eqm, BetweenLines, Found
  <2>3. objects' = objects \cup {Fresh} /\ Fresh \notin objects /\ Fresh \in Objects
    BY <2>1, StringGives DEF Eqm
  <2>4. a \in DOMAIN cells /\ cells \in [DOMAIN cells -> Cell]
    BY <2>2, Parts DEF Entered
  <2> HIDE DEF a
  <2>5. r \in Cell /\ r.string = Fresh /\ r.owns /\ r.eqm
    BY <2>3 DEF Cell
  <2> HIDE DEF r
  <2>6. /\ DOMAIN (cells') = DOMAIN cells /\ cells'[a] = r /\ cells' \in [DOMAIN cells -> Cell]
        /\ \A c \in DOMAIN cells : c # a => cells'[c] = cells[c]
    BY <2>2, <2>4, <2>5
  <2>7. OneOwner(cells', calls', dfreed', objects') /\ dfreed' \subseteq objects'
    <3>1. OneOwner(cells, <<>>, dfreed, objects) /\ dfreed \subseteq objects
      BY <2>2, Parts
    <3>2. cells'[a].string \in objects' \ objects
      BY <2>3, <2>5, <2>6
    <3>3. \A s \in dfreed' : s \in dfreed \/ (cells[a].owns /\ s = cells[a].string)
      BY <2>2
    <3>4. /\ a \in DOMAIN cells /\ DOMAIN (cells') = DOMAIN cells
          /\ \A c \in DOMAIN cells : c # a => cells'[c] = cells[c]
      BY <2>4, <2>6
    <3>5. objects \subseteq objects'
      BY <2>3
    <3>6. OneOwner(cells', <<>>, dfreed', objects') /\ dfreed' \subseteq objects'
      BY <3>1, <3>2, <3>3, <3>4, <3>5, StringReplaced, Z3
    <3> QED
      BY <2>2, <3>6
  <2>8. OnePlace(free', DOMAIN (cells'), objects', table', naming', calls', operand')
    <3>1. OnePlace(free, DOMAIN cells, objects, table, naming, calls, operand)
      BY Parts
    <3>2. DOMAIN calls = DOMAIN calls /\ \A i \in DOMAIN calls : calls[i].list = calls[i].list
      OBVIOUS
    <3>3. OnePlace(free, DOMAIN cells, objects', table, naming, calls, operand)
      BY <2>3, <3>1, <3>2, SameLists
    <3> QED
      BY <2>2, <2>6, <3>3
  <2>9. BodiesKept(cells', table', naming', macro')
    <3>1. Unentered(naming) = {} /\ Entered(table) \subseteq DOMAIN cells
      BY <2>2, Parts DEF Unentered
    <3>2. BodiesKept(cells, table, naming, macro)
      BY Parts
    <3> QED
      BY <2>2, <2>5, <2>6, <3>1, <3>2 DEF BodiesKept
  <2>10. StoreTypeOK' /\ Called(calls')
    BY <2>2, <2>6, <2>7, Parts DEF StoreTypeOK
  <2> QED
    BY <2>7, <2>8, <2>9, <2>10, Gathered
<1> QED
  BY <1>1, <1>2, <1>3, <1>4

LEMMA NextStoreInv == ArenaInv /\ StoreInv /\ [StoreNext]_<<arena, store>> => StoreInv'
<1> SUFFICES ASSUME ArenaInv, StoreInv, [StoreNext]_<<arena, store>> PROVE StoreInv'
  OBVIOUS
<1>1. CASE CreateSymbol \/ EnterSymbol
  BY <1>1, NamingSteps
<1>2. CASE BeginLine
  BY <1>2, EnterStep DEF BeginLine
<1>3. CASE DvValue
  BY <1>3, EnterStep DEF DvValue
<1>4. CASE PushValue \/ PushString \/ Convert \/ Combine
  BY <1>4, ReadingSteps
<1>5. CASE Comma
  BY <1>5, CommaStep
<1>6. CASE EndOfLine \/ EndOfName \/ EndOfDv
  BY <1>6, ReturnSteps
<1>7. CASE FreeOperand \/ LoseOperand \/ (\E n : Assign(n))
  BY <1>7, HandlerSteps
<1>8. CASE ChangeScope \/ Stop \/ (\E n : Eqm(n) \/ DvLine(n))
  BY <1>8, LineSteps
<1>9. CASE \E n : PushName(n)
  BY <1>9, NameSteps
<1>10. CASE UNCHANGED <<arena, store>>
  <2>1. UNCHANGED <<objects, free, cells, table, naming, calls, operand, macro, dfreed>>
    BY <1>10 DEF arena, store
  <2>2. StoreTypeOK'
    BY <2>1, Parts DEF StoreTypeOK
  <2> QED
    BY <2>1, <2>2, Parts, Gathered
<1> QED
  BY <1>1, <1>2, <1>3, <1>4, <1>5, <1>6, <1>7, <1>8, <1>9, <1>10 DEF StoreNext

(* The invariant of cells and strings holds in every state, whatever is    *)
(* read, kept or lost by the handlers and whatever request is refused.     *)
THEOREM StoreInductive == StoreSpec => []StoreInv
<1>1. StoreSpec => []ArenaInv
  BY StoreImplementsArena, ArenaInvariant, PTL
<1>2. StoreInit => StoreInv
  BY InitStoreInv
<1>3. ArenaInv /\ StoreInv /\ [StoreNext]_<<arena, store>> => StoreInv'
  BY NextStoreInv
<1> QED
  BY <1>1, <1>2, <1>3, PTL DEF StoreSpec

(* No SYMBOL is on the free list twice or while something uses it, and no  *)
(* two names or operands share one: free_symbol_list of src/symbols.c is   *)
(* called once for every list, by eval and by all handlers of src/ops.c.   *)
THEOREM SymbolsHaveOnePlace == StoreSpec => []PoolSound
<1>1. StoreInv => PoolSound
  <2> SUFFICES ASSUME StoreInv PROVE PoolSound
    OBVIOUS
  <2>1. /\ OnePlace(free, DOMAIN cells, objects, table, naming, calls, operand)
        /\ Entered(table) = InTable
    BY Parts DEF Entered, InTable
  <2>2. \A c \in InLists : c \in CellsOf(operand) \/ \E i \in DOMAIN calls : c \in CellsOf(calls[i].list)
    BY DEF InLists
  <2>3. InLists \subseteq DOMAIN cells /\ InTable \subseteq DOMAIN cells
    BY <2>1, <2>2, Parts DEF OnePlace, ListsApart
  <2>4. InTable \cap InLists = {}
    BY <2>1, <2>2 DEF OnePlace, ListsBesideNames
  <2>5. CellsOf(free) \cap (InTable \cup InLists) = {}
    BY <2>1, <2>3 DEF OnePlace, FreeApart
  <2> QED
    BY <2>1, <2>4, <2>5 DEF PoolSound, OnePlace, FreeApart, NamesApart, Once
<1> QED
  BY <1>1, StoreInductive, PTL

(* A string is freed once, and by then no symbol, no operand and no value  *)
(* of the argument stack has it: dfree of free_symbol_list and of v_eqm    *)
(* (src/symbols.c, src/ops.c) against the copies that stackarg makes.      *)
THEOREM StringsHaveOneOwner == StoreSpec => []StringsLive
<1>1. StoreInv => StringsLive
  <2> SUFFICES ASSUME StoreInv PROVE StringsLive
    OBVIOUS
  <2>1. OneOwner(cells, calls, dfreed, objects) /\ BodiesKept(cells, table, naming, macro)
    BY Parts
  <2>2. \A c \in InLists : c \in CellsOf(operand) \/ \E i \in DOMAIN calls : c \in CellsOf(calls[i].list)
    BY DEF InLists
  <2>3. InLists \subseteq DOMAIN cells /\ InTable \subseteq DOMAIN cells
    BY <2>2, Parts DEF OnePlace, ListsApart, Entered, InTable
  <2>4. Owners \subseteq DOMAIN cells /\ \A c \in Owners : cells[c].owns
    BY <2>3 DEF Owners
  <2>5. \A s \in Stacked : \E i \in DOMAIN calls : \E j \in DOMAIN calls[i].args :
          s = calls[i].args[j] /\ s # NoString
    BY DEF Stacked
  <2>6. \A s \in Stacked : s \notin dfreed /\ \A c \in Owners : cells[c].string # s
    BY <2>1, <2>4, <2>5 DEF OneOwner
  <2>7. \A c \in Owners : cells[c].string \notin dfreed
    BY <2>1, <2>4 DEF OneOwner
  <2>8. \A c, d \in Owners : c # d => cells[c].string # cells[d].string
    BY <2>1, <2>4 DEF OneOwner
  <2>9. macro # NoName => cells[table[macro]].eqm /\ cells[table[macro]].owns
    BY <2>1 DEF BodiesKept, Entered
  <2> QED
    BY <2>6, <2>7, <2>8, <2>9 DEF StringsLive
<1> QED
  BY <1>1, StoreInductive, PTL
=============================================================================
