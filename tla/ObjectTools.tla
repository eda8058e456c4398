---------------------------- MODULE ObjectTools ----------------------------
(***************************************************************************)
(* The programs that read the object file back: convert of src/ftobin.c,   *)
(* which makes a raw image of it, and convert of src/ftohex.c, which makes *)
(* Intel hex records.  A file is a sequence of bytes; the position of the  *)
(* next byte to read counts from 1.                                        *)
(***************************************************************************)
EXTENDS Integers, Sequences, SequencesExt

CONSTANTS
  Radix,     \* 256: a byte holds 0 .. Radix - 1
  PERLINE    \* 16: data bytes of a hex record

ASSUME ToolAssumption == Radix \in Nat \ {0, 1} /\ PERLINE \in Nat \ {0}

Byte == 0..(Radix - 1)
Word(n) == <<n % Radix, (n \div Radix) % Radix>>
WordAt(f, i) == f[i] + Radix * f[i + 1]
From(f, i) == SubSeq(f, i, Len(f))

(* A file of bytes; writing beyond its end leaves a hole of zeros. *)
Overwrite(f, at, data) ==
  IF data = <<>> THEN f
  ELSE [i \in 1..(IF at + Len(data) > Len(f) THEN at + Len(data) ELSE Len(f)) |->
          IF i \in (at + 1)..(at + Len(data)) THEN data[i - at]
          ELSE IF i <= Len(f) THEN f[i] ELSE 0]

(* The hunks of a RAS file.  Reading ends where a header or its data is    *)
(* incomplete: in a good file that is the end.                             *)
HunkAt(f, i) == [org |-> WordAt(f, i), data |-> SubSeq(f, i + 4, i + 3 + WordAt(f, i + 2))]
Complete(f, i) == i + 3 <= Len(f) /\ i + 3 + WordAt(f, i + 2) <= Len(f)
After(f, i) == i + 4 + WordAt(f, i + 2)
Hunks(f) ==
  LET h[i \in 1..(Len(f) + 1)] ==
        IF Complete(f, i) THEN <<HunkAt(f, i)>> \o h[After(f, i)] ELSE <<>>
  IN  h[1]

-----------------------------------------------------------------------------
(* ftobin.  The hunks are written where they belong; a step forward is     *)
(* filled with 255 from the current position, for as many bytes as are     *)
(* missing between the highest address so far (maxseek) and the hunk.      *)
FillNothing(r, gap) == r.out   \* mutant: the gap is left to fseek
FillGap(r, gap) == Overwrite(r.out, r.pos, [i \in 1..gap |-> Radix - 1])

BinHunk(r, h) ==
  LET at == h.org - r.base
      end == at + Len(h.data)
      filled == IF at > r.maxseek THEN FillGap(r, at - r.maxseek) ELSE r.out
  IN  IF ~r.ok \/ at < 0 THEN [r EXCEPT !.ok = FALSE]
      ELSE [r EXCEPT !.out = Overwrite(filled, at, h.data), !.pos = end,
                     !.maxseek = IF end > @ THEN end ELSE IF at > @ THEN at ELSE @]

Ftobin(format, f) ==
  CASE format = "RAW" -> [ok |-> TRUE, out |-> f]
    [] format = "DEFAULT" -> [ok |-> TRUE, out |-> From(f, 3)]
    [] format = "RAS" ->
         FoldLeft(BinHunk,
                  [ok |-> TRUE, out |-> <<>>, pos |-> 0, maxseek |-> 0, base |-> WordAt(f, 1)],
                  Hunks(f))

-----------------------------------------------------------------------------
(* ftohex.  Data is cut into records of at most PERLINE bytes; the         *)
(* checksum makes the sum of a record 0.                                   *)
SumOf(data) == FoldLeft(LAMBDA a, b : a + b, 0, data)
Record(a, data) ==
  [addr |-> a, data |-> data,
   chk |-> (-(Len(data) + (a \div Radix) + (a % Radix) + SumOf(data))) % Radix]

RecordsOfOrg(org, data) ==   \* mutant: the origin is not advanced
  [k \in 1..((Len(data) + PERLINE - 1) \div PERLINE) |->
     Record(org, SubSeq(data, (k - 1) * PERLINE + 1,
                        IF k * PERLINE < Len(data) THEN k * PERLINE ELSE Len(data)))]
Records(org, data) ==
  [k \in 1..((Len(data) + PERLINE - 1) \div PERLINE) |->
     Record((org + (k - 1) * PERLINE) % (Radix * Radix),
            SubSeq(data, (k - 1) * PERLINE + 1,
                   IF k * PERLINE < Len(data) THEN k * PERLINE ELSE Len(data)))]

(* get_word exits where a word is missing, so the end of a RAS file is     *)
(* never reached: status 1, and no end record.                             *)
WordThere(f, i) == i + 1 <= Len(f)
HexHunks(f) ==
  LET hex[i \in 1..(Len(f) + 1)] ==
        IF WordThere(f, i) /\ Complete(f, i)
        THEN LET h == HunkAt(f, i)
                 rest == hex[After(f, i)]
             IN  [rest EXCEPT !.records = Records(h.org, h.data) \o @]
        ELSE [records |-> <<>>, status |-> 1]
  IN  hex[1]

(* Without hunks the length is that of the file, in 16 bits.               *)
Cut(f) == SubSeq(f, 1, Len(f) % (Radix * Radix))
Ftohex(format, f) ==
  CASE format = "RAW" -> [records |-> Records(0, Cut(f)), status |-> 0]
    [] format = "DEFAULT" ->
         IF WordThere(f, 1) THEN [records |-> Records(WordAt(f, 1), Cut(From(f, 3))), status |-> 0]
                            ELSE [records |-> <<>>, status |-> 1]
    [] format = "RAS" -> HexHunks(f)
=============================================================================
