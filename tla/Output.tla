------------------------------- MODULE Output -------------------------------
(***************************************************************************)
(* The object file DASM writes (generate, genfill, closegenerate and the   *)
(* pseudo-ops that call them, src/ops.c), byte by byte, in its three       *)
(* formats, over several passes.                                           *)
(*                                                                         *)
(*   DEFAULT (-f1)  origin word, then data                                 *)
(*   RAS     (-f2)  hunks: origin word, length word, data                  *)
(*   RAW     (-f3)  data                                                   *)
(*                                                                         *)
(* In RAS the length of a hunk is written as 0 and patched when the next   *)
(* hunk begins or the pass ends.  Which lines a pass runs, and what they   *)
(* ask for, is open here: module Assembly says that.                       *)
(***************************************************************************)
EXTENDS ObjectTools

CONSTANTS
  Formats,    \* of -f: a subset of {"DEFAULT", "RAS", "RAW"}
  GenSize,    \* sizeof(Gen), 256
  Segments, InitSeg,
  Uninitialised,  \* the segments created by SEG.U
  Origins,    \* operands of ORG
  Fills,      \* fill operands of ORG, DS and ALIGN
  Strings,    \* what one DC or HEX line lays down, as bytes
  Counts,     \* operands of DS, lengths of INCBIN files
  MaxLines,   \* lines read in all passes together
  MaxPasses

ASSUME OutputAssumption ==
  /\ Formats \subseteq {"DEFAULT", "RAS", "RAW"}
  /\ GenSize \in Nat \ {0}
  /\ InitSeg \in Segments \ Uninitialised
  /\ Origins \subseteq Nat /\ Counts \subseteq Nat /\ Fills \subseteq Int
  /\ Strings \subseteq Seq(0..(Radix - 1))
  /\ MaxLines \in Nat /\ MaxPasses \in Nat \ {0}

VARIABLES
  format,   \* F_format
  phase,    \* "open", "lines", "closed", "dead"
  lines,    \* lines still to be read
  pass,
  st,       \* the globals generate works on
  laid      \* history: what the lines of this pass laid down, by address

vars == <<format, phase, lines, pass, st, laid>>

(* data written into a memory m from address a on *)
Lay(m, a, data) ==
  [x \in DOMAIN m \cup a..(a + Len(data) - 1) |->
     IF x \in a..(a + Len(data) - 1) THEN data[x - a + 1] ELSE m[x]]

DEFORGFILL == Radix - 1

Init ==
  /\ format \in Formats /\ phase = "open" /\ lines = MaxLines /\ pass = 1
  /\ st = [redo |-> 0, cseg |-> InitSeg,
           segs |-> [g \in Segments |-> [org |-> 0, unknown |-> TRUE]],
           clear |-> TRUE, org |-> 0, orgFill |-> DEFORGFILL,
           seglen |-> 0, seekback |-> 0, file |-> <<>>]
  /\ laid = <<>>

-----------------------------------------------------------------------------
(* generate *)
Current(s) == s.segs[s.cseg]
Emits(s) == s.redo = 0 /\ s.cseg \notin Uninitialised
Obscure(s) == s.clear /\ Current(s).unknown
PadLength(s) == IF s.clear THEN 0 ELSE Current(s).org - s.org
Reversed(s) == format # "RAS" /\ PadLength(s) < 0

Patch(s) == [s EXCEPT !.file = Overwrite(@, s.seekback, Word(s.seglen))]

NewHunk(s, a) ==
  [s EXCEPT !.file = @ \o Word(a) \o Word(0), !.seekback = Len(s.file) + 2, !.seglen = 0]

(* The header, at the first byte of the pass. *)
Header(s) ==
  LET a == Current(s).org
      s1 == [s EXCEPT !.clear = FALSE, !.org = a]
  IN  IF ~s.clear THEN s
      ELSE CASE format = "DEFAULT" -> [s1 EXCEPT !.file = @ \o Word(a)]
             [] format = "RAS"     -> NewHunk(s1, a)
             [] format = "RAW"     -> s1

(* Then what lies between the last byte and this one. *)
GapLatePatch(s) ==   \* mutant: the new header comes before the patch
  LET a == Current(s).org IN
  IF format = "RAS"
  THEN IF s.org = a THEN s ELSE Patch(NewHunk(s, a))
  ELSE [s EXCEPT !.file = @ \o [i \in 1..PadLength(s) |-> s.orgFill]]
Gap(s) ==
  LET a == Current(s).org IN
  IF format = "RAS"
  THEN IF s.org = a THEN s ELSE NewHunk(Patch(s), a)
  ELSE [s EXCEPT !.file = @ \o [i \in 1..PadLength(s) |-> s.orgFill]]

Put(s, data) ==
  LET a == Current(s).org IN
  [s EXCEPT !.file = @ \o data, !.seglen = @ + Len(data), !.org = a + Len(data)]

Advance(s, n) == [s EXCEPT !.segs[s.cseg].org = @ + n]

Generate(s, data) ==
  IF ~Emits(s) THEN Advance(s, Len(data))
  ELSE IF Obscure(s) THEN [s EXCEPT !.clear = FALSE, !.redo = @ + 1]
  ELSE Advance(Put(Gap(Header(s)), data), Len(data))

(* genfill and v_incbin hand data over in pieces of at most GenSize. *)
PiecesWhole(data) ==   \* mutant: the remainder is dropped
  [k \in 1..(Len(data) \div GenSize) |-> SubSeq(data, (k - 1) * GenSize + 1, k * GenSize)]
Pieces(data) ==
  [k \in 1..((Len(data) + GenSize - 1) \div GenSize) |->
     SubSeq(data, (k - 1) * GenSize + 1,
            IF k * GenSize < Len(data) THEN k * GenSize ELSE Len(data))]
GenerateAll(s, data) == FoldLeft(Generate, s, Pieces(data))

(* closegenerate *)
Close(s) == IF s.redo = 0 /\ format = "RAS" THEN Patch(s) ELSE s

-----------------------------------------------------------------------------
(* One line: the state becomes s, and data was laid down at the origin if  *)
(* the pass is still good.                                                 *)
Line(s, data) ==
  /\ lines > 0 /\ lines' = lines - 1
  /\ st' = s
  /\ laid' = IF Emits(st) /\ ~Obscure(st) THEN Lay(laid, Current(st).org, data)
                                          ELSE laid
  /\ UNCHANGED <<format, phase, pass>>

Reading == phase = "lines"

(* v_org, with and without a fill; an operand nobody knows yet is 0. *)
Org == Reading /\ \E a \in Origins :
  Line([st EXCEPT !.segs[st.cseg] = [org |-> a, unknown |-> FALSE]], <<>>)
OrgFill == Reading /\ \E a \in Origins, f \in Fills :
  Line([st EXCEPT !.segs[st.cseg] = [org |-> a, unknown |-> FALSE],
                  !.orgFill = f % Radix], <<>>)
OrgUnknown == Reading /\
  Line([st EXCEPT !.segs[st.cseg] = [org |-> 0, unknown |-> TRUE]], <<>>)

(* v_seg *)
Seg == Reading /\ \E g \in Segments : Line([st EXCEPT !.cseg = g], <<>>)

(* v_dc, v_hex *)
Data == Reading /\ \E d \in Strings :
  ~(Emits(st) /\ Reversed(st)) /\ Line(Generate(st, d), d)

(* v_ds, v_align *)
Fill == Reading /\ \E n \in Counts, f \in Fills :
  LET d == [i \in 1..n |-> f % Radix]
  IN  ~(Emits(st) /\ Reversed(st) /\ n > 0) /\ Line(GenerateAll(st, d), d)

(* v_incbin: once a Redo is pending the file is measured, not read. *)
Incbin == Reading /\ \E n \in Counts :
  LET d == [i \in 1..n |-> i % Radix]
      s == IF st.redo # 0 THEN Generate(st, d) ELSE GenerateAll(st, d)
  IN  ~(Emits(st) /\ Reversed(st) /\ n > 0) /\ Line(s, d)

(* Any line that needs another pass. *)
Trouble == Reading /\ Line([st EXCEPT !.redo = @ + 1], <<>>)

(* "Origin Reverse-indexed." and exit *)
ReverseIndexed ==
  /\ Reading /\ Emits(st) /\ ~Obscure(st) /\ Reversed(st)
  /\ phase' = "dead"
  /\ UNCHANGED <<format, lines, pass, st, laid>>

-----------------------------------------------------------------------------
(* A pass truncates the file; seekback, seglen and orgFill are whatever    *)
(* the last pass left.                                                     *)
StartPass ==
  /\ phase = "open" /\ phase' = "lines"
  /\ st' = [st EXCEPT !.file = <<>>, !.clear = TRUE, !.redo = 0]
  /\ laid' = <<>>
  /\ UNCHANGED <<format, lines, pass>>

EndPass ==
  /\ Reading
  /\ IF st.redo = 0
     THEN /\ phase' = "closed" /\ st' = Close(st) /\ UNCHANGED pass
     ELSE /\ pass < MaxPasses /\ pass' = pass + 1 /\ phase' = "open"
          /\ st' = [st EXCEPT !.segs = [g \in Segments |-> [@[g] EXCEPT !.unknown = TRUE]]]
  /\ UNCHANGED <<format, lines, laid>>

Next ==
  \/ StartPass \/ EndPass
  \/ Org \/ OrgFill \/ OrgUnknown \/ Seg \/ Data \/ Fill \/ Incbin \/ Trouble \/ ReverseIndexed

Spec == Init /\ [][Next]_vars

-----------------------------------------------------------------------------
(* Properties.                                                             *)

(* Type invariant of the globals of generate; the file holds bytes.        *)
TypeOK ==
  /\ format \in Formats /\ phase \in {"open", "lines", "closed", "dead"}
  /\ lines \in 0..MaxLines /\ pass \in 1..MaxPasses
  /\ st.cseg \in Segments /\ st.segs \in [Segments -> [org : Nat, unknown : BOOLEAN]]
  /\ st.redo \in Nat /\ st.clear \in BOOLEAN /\ st.org \in Nat
  /\ st.orgFill \in Byte /\ st.file \in Seq(Byte)
  /\ st.seglen \in Nat /\ st.seekback \in Nat

(* The file as it would be if the pass ended now, and the memory it holds. *)
(* A RAW file does not say where it starts, only its reader knows: its     *)
(* last byte is the one in front of org.                                   *)
Pending == IF format = "RAS" /\ phase = "lines" /\ ~st.clear THEN Patch(st).file ELSE st.file
Start == st.org - Len(st.file)
Load(m, h) == Lay(m, h.org, h.data)
Loaded(f) ==
  CASE format = "RAS" -> FoldLeft(Load, <<>>, Hunks(f))
    [] format = "DEFAULT" -> IF f = <<>> THEN <<>> ELSE Lay(<<>>, WordAt(f, 1), From(f, 3))
    [] format = "RAW" -> Lay(<<>>, Start, f)

Good == phase \in {"lines", "closed"} /\ st.redo = 0 /\ laid # <<>>
(* The words of a header have 16 bits; 64K in one hunk are one too many.   *)
InRange == \A a \in DOMAIN laid : a < Radix * Radix - 1

(* At every point of a good pass the file, read back, is what the lines    *)
(* laid down so far, at their addresses; only the formats without hunks    *)
(* hold padding as well.  Whatever an earlier pass wrote, or left in       *)
(* Seekback and Seglen, plays no part, and a RAS file is hunks and nothing *)
(* else.                                                                   *)
HunkBytes(f) == FoldLeft(LAMBDA n, h : n + 4 + Len(h.data), 0, Hunks(f))
FileIsImage ==
  Good /\ InRange =>
    /\ \A a \in DOMAIN laid : a \in DOMAIN Loaded(Pending) /\ Loaded(Pending)[a] = laid[a]
    /\ format = "RAS" => /\ DOMAIN Loaded(Pending) = DOMAIN laid
                         /\ HunkBytes(Pending) = Len(Pending)

(* The image ftohex writes is the memory that was assembled (from 0 on in  *)
(* RAW), in records of at most PERLINE bytes whose sum is 0.  Without      *)
(* hunks ftohex takes the length of the whole file in 16 bits, padding     *)
(* included, so that this has to end inside of 64K as well.                *)
Accepted(r) ==
  /\ Len(r.data) \in 1..PERLINE
  /\ (Len(r.data) + (r.addr \div Radix) + r.addr + SumOf(r.data) + r.chk) % Radix = 0
LoadRecord(m, r) == Lay(m, r.addr, r.data)
Fits == InRange /\ (format # "RAS" => st.org < Radix * Radix)
HexIsImage ==
  phase = "closed" /\ laid # <<>> /\ Fits =>
    LET hex == Ftohex(format, st.file)
        m == FoldLeft(LoadRecord, <<>>, hex.records)
        start == IF format = "RAW" THEN Start ELSE 0
    IN  /\ \A i \in DOMAIN hex.records : Accepted(hex.records[i])
        /\ \A a \in DOMAIN laid : a - start \in DOMAIN m /\ m[a - start] = laid[a]

(* ftobin makes "sequenced (raw) binary" of a file whose lowest address    *)
(* comes first: each byte at its distance from the origin.  It is needed   *)
(* because sources may go back to lay down a checksum (src/ftobin.c).      *)
EndOf(h) == h.org + Len(h.data)
Base == IF format = "RAW" THEN Start ELSE WordAt(st.file, 1)
LowestFirst == format = "RAS" => \A h \in Range(Hunks(st.file)) : Base <= h.org
End == IF format = "RAS" THEN Max({EndOf(h) : h \in Range(Hunks(st.file))}) ELSE st.org

(* With no step beyond the end after a step back that is so, and the room  *)
(* between hunks reads as an erased EPROM, as far as 16 bits of a header   *)
(* say where that is.                                                      *)
NoLeapAfterReturn ==
  LET hs == Hunks(st.file) IN
  \A i \in DOMAIN hs \ {1} :
    LET before == {EndOf(hs[j]) : j \in 1..(i - 1)}
    IN  (\A e \in before : hs[i].org > e) => (\A e \in before : EndOf(hs[i - 1]) >= e)
BinIsImageInOrder ==
  phase = "closed" /\ laid # <<>> /\ InRange /\ LowestFirst /\ (format = "RAS" => NoLeapAfterReturn) =>
    LET bin == Ftobin(format, st.file)
    IN  /\ bin.ok /\ Len(bin.out) = End - Base
        /\ \A a \in DOMAIN laid : bin.out[a - Base + 1] = laid[a]
        /\ format = "RAS" => \A i \in DOMAIN bin.out :
             (Base + i - 1) \notin DOMAIN laid => bin.out[i] = Radix - 1

(* The object file implements module MemoryImage.                          *)
Image == INSTANCE MemoryImage WITH
  padded <- format # "RAS",
  mem <- IF st.redo = 0 THEN Loaded(Pending) ELSE <<>>
ImageSpec == Image!Spec
=============================================================================
