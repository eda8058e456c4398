------------------------------ MODULE Mnemonic ------------------------------
(***************************************************************************)
(* v_mnemonic (src/ops.c): the operand eval returned, the modes that the   *)
(* table of the processor allows and the mode the source forces (Mnext)    *)
(* become one instruction.  The tables Cvt and Opsize are those of         *)
(* src/globals.c; an opcode is only the number of its bytes and the bit    *)
(* that is put into it.                                                    *)
(***************************************************************************)
EXTENDS Expr, FiniteSets

CONSTANTS
  Mnemonics,   \* rows of processor tables: [okmask, mask, rel, imod, prefix, msb]
  Extensions,  \* modes that sources force, and None
  MaxBit       \* 7
None == "none"

Modes == {"IMP", "IMM8", "IMM16", "BYTEADR", "BYTEADRX", "BYTEADRY", "WORDADR", "WORDADRX",
          "WORDADRY", "REL", "INDBYTEX", "INDBYTEY", "INDWORD", "0X", "0Y", "BITMOD", "BITBRAMOD"}

ASSUME MnemonicAssumption ==
  /\ Extensions \subseteq Modes \cup {None} /\ MaxBit \in Nat
  /\ \A mne \in Mnemonics :
       /\ mne.okmask \subseteq Modes /\ mne.okmask # {}
       /\ {mne.mask, mne.rel, mne.imod, mne.prefix, mne.msb} \subseteq BOOLEAN
       /\ mne.okmask \cap {"BITMOD", "BITBRAMOD"} # {} => \E m \in Modes : mne.okmask = {m}
  /\ "." \in DOMAIN Symbols

VARIABLE insn   \* the instruction, once it is done

(* Cvt: the mode with the longer operand; IMP, which is 0, is the end.     *)
Cvt == [m \in Modes |->
  CASE m = "IMM8" -> "IMM16"
    [] m = "0X" -> "BYTEADRX" [] m = "BYTEADRX" -> "WORDADRX"
    [] m = "0Y" -> "BYTEADRY" [] m = "BYTEADRY" -> "WORDADRY"
    [] m = "BYTEADR" -> "WORDADR" [] m = "WORDADR" -> "REL"
    [] OTHER -> "IMP"]
Opsize == [m \in Modes |->
  CASE m \in {"IMP", "0X", "0Y"} -> 0
    [] m \in {"IMM16", "WORDADR", "WORDADRX", "WORDADRY", "REL", "INDWORD"} -> 2
    [] OTHER -> 1]
EndOfChain(m) == Cvt[m] = "IMP"

(* No table has the first and the third mode of a chain without the second. *)
ASSUME NoGapAssumption ==
  \A mne \in Mnemonics, m \in Modes :
    ~EndOfChain(m) /\ m \in mne.okmask /\ ~EndOfChain(Cvt[m]) /\ Cvt[Cvt[m]] \in mne.okmask =>
      Cvt[m] \in mne.okmask

InByte(n) == -(Radix \div 2) <= n /\ n < Radix
NeedsUnknownShort(sym) ==   \* mutant: an unknown operand is taken for a short one
  IF sym.n = 0 THEN 0 ELSE IF InByte(sym.n) THEN 1 ELSE 2
NeedsSigned(sym) ==   \* mutant: the sign decides
  IF sym.unk \/ sym.n >= Radix THEN 2 ELSE IF sym.n # 0 THEN 1 ELSE 0
NeedsLate(sym) ==   \* mutant: off by one at the boundary
  IF sym.unk \/ sym.n < -(Radix \div 2) \/ sym.n >= Radix - 1 THEN 2 ELSE IF sym.n # 0 THEN 1 ELSE 0
Needs(sym) ==
  IF sym.unk \/ ~InByte(sym.n) THEN 2 ELSE IF sym.n # 0 THEN 1 ELSE 0

StartMode(mne, list) ==
  CASE mne.imod /\ Len(list) > 1 /\ mne.rel  -> "BITBRAMOD"
    [] mne.imod /\ Len(list) > 1 /\ ~mne.rel -> "BITMOD"
    [] OTHER -> list[1].mode

(* Along the chain to the first mode the mnemonic has.  A chain has at     *)
(* most three modes, so two steps are enough.                              *)
Closer(mne, m) == IF m \in mne.okmask \/ EndOfChain(m) THEN m ELSE Cvt[m]
FirstLegal(mne, start) == Closer(mne, Closer(mne, start))

(* Then longer ones, step by step, until the operand fits. *)
Longer(mne, size, m) ==
  IF size <= Opsize[m] \/ EndOfChain(m) \/ Cvt[m] \notin mne.okmask THEN m ELSE Cvt[m]
Widen(mne, size, start) == Longer(mne, size, Longer(mne, size, start))

-----------------------------------------------------------------------------
(* Gen and Glen. *)
STALE == -1   \* a byte that still is what Gen held before
Rejected == [generated |-> FALSE, errors |-> 1, fatals |-> 0, redo |-> 0, mode |-> None,
             prefix |-> FALSE, bit |-> 0, bytes |-> <<>>]

OutOfByte(sym) == ~sym.unk /\ ~InByte(sym.n)
Add(g, byte) == [g EXCEPT !.bytes = Append(@, byte)]
Glen(g) == Len(g.bytes) + IF g.prefix THEN 2 ELSE 1

(* bset n,addr: the number of the bit is put into the opcode. *)
PutBit(g, list) ==
  LET bit == list[1]
      g1 == Add([g EXCEPT !.errors = @ + Truth(OutOfByte(list[2]))], list[2].n % Radix)
  IN  CASE bit.unk -> g1
        [] ~bit.unk /\ bit.n > MaxBit -> [g1 EXCEPT !.errors = @ + 1]
        [] OTHER -> [g1 EXCEPT !.bit = bit.n]

PutOperand(g, msb, n) ==
  LET low == n % Radix
      high == (n \div Radix) % Radix
  IN  CASE Opsize[g.mode] = 0 -> g
        [] Opsize[g.mode] = 1 -> Add(g, low)
        [] Opsize[g.mode] = 2 -> IF msb THEN Add(Add(g, high), low) ELSE Add(Add(g, low), high)

PutMask(g, list, i) ==
  IF i > Len(list) THEN Add([g EXCEPT !.fatals = @ + 1], STALE)
  ELSE Add([g EXCEPT !.errors = @ + Truth(OutOfByte(list[i]))], list[i].n % Radix)

(* The displacement counts from the end of the instruction. *)
PutBranchFromStart(g, list, i, pc) ==   \* mutant: from the byte itself
  IF i > Len(list) THEN Add([g EXCEPT !.fatals = @ + 1], STALE)
  ELSE IF list[i].unk THEN Add(g, STALE)
  ELSE LET dest == IF pc.unk THEN 0 ELSE list[i].n - pc.n - Glen(g)
       IN  Add([g EXCEPT !.errors = @ + Truth(~(-(Radix \div 2) <= dest /\ dest < Radix \div 2))],
               dest % Radix)
PutBranch(g, list, i, pc) ==
  IF i > Len(list) THEN Add([g EXCEPT !.fatals = @ + 1], STALE)
  ELSE IF list[i].unk THEN Add(g, STALE)
  ELSE LET dest == IF pc.unk THEN 0 ELSE list[i].n - pc.n - (Glen(g) + 1)
       IN  Add([g EXCEPT !.errors = @ + Truth(~(-(Radix \div 2) <= dest /\ dest < Radix \div 2))],
               dest % Radix)

(* The first two parts take a different number of items off the list.      *)
Encode(g, mne, list, pc) ==
  LET g1 == CASE g.mode \in {"BITMOD", "BITBRAMOD"} -> PutBit(g, list)
              [] g.mode = "REL" -> g
              [] OTHER -> PutOperand(g, mne.msb, list[1].n)
      i == CASE g.mode = "REL" -> 1 [] g.mode = "BITBRAMOD" -> 3 [] OTHER -> 2
      g2 == IF mne.mask THEN PutMask(g1, list, i) ELSE g1
      j == IF mne.mask /\ i <= Len(list) THEN i + 1 ELSE i
  IN  IF mne.rel \/ g.mode = "REL" THEN PutBranch(g2, list, j, pc) ELSE g2

RedosOfFirst(list) == Truth(list[1].unk)   \* mutant: only the first item is looked at
Redos(list) == Cardinality({i \in DOMAIN list : list[i].unk})

(* v_mnemonic, after eval *)
Assemble(mne, extension, list, pc) ==
  LET legal == FirstLegal(mne, StartMode(mne, list))
      chosen == IF extension = None THEN legal ELSE extension
      mode == Widen(mne, Needs(list[1]), chosen)
      rejected == [Rejected EXCEPT !.redo = Redos(list)]
      tooWide == Needs(list[1]) > Opsize[mode] /\ ~list[1].unk
      g == [generated |-> TRUE, errors |-> Truth(tooWide), fatals |-> 0, redo |-> Redos(list),
            mode |-> mode, prefix |-> mne.prefix, bit |-> 0, bytes |-> <<>>]
  IN  IF legal \notin mne.okmask \/ chosen \notin mne.okmask THEN rejected
      ELSE Encode(g, mne, list, pc)

Pc == table["."]

Init == ExprInit /\ insn = [done |-> FALSE]
Evaluate == ~insn.done /\ ExprNext /\ UNCHANGED insn
VMnemonic ==
  /\ operand # <<>> /\ wanted /\ ~insn.done
  /\ \E mne \in Mnemonics, extension \in Extensions :
       insn' = [done |-> TRUE, mne |-> mne, extension |-> extension,
                code |-> Assemble(mne, extension, operand, Pc)]
  /\ UNCHANGED exprvars
Next == Evaluate \/ VMnemonic

vars == <<exprvars, insn>>
Spec == Init /\ [][Next]_vars

-----------------------------------------------------------------------------
(* Properties. *)
Generated == insn.done /\ insn.code.generated
Clean == Generated /\ e.errors = 0 /\ insn.code.errors = 0 /\ insn.code.fatals = 0 /\ insn.code.redo = 0
First == operand[1]
Signed(byte) == IF byte < Radix \div 2 THEN byte ELSE byte - Radix

(* Type invariant of the result. *)
TypeOK ==
  /\ ExprTypeOK
  /\ insn.done => /\ insn.mne \in Mnemonics /\ insn.extension \in Extensions
                    /\ insn.code.bytes \in Seq({STALE} \cup 0..(Radix - 1))
                    /\ insn.code.bit \in Int

(* Without a complaint nothing of the operand is lost, except what is      *)
(* beyond 16 bits.  (dasm.txt: "The final Result will be automatically     *)
(* truncated to the maximum handleable by the particular machine           *)
(* language (usually a word)".)                                            *)
OperandEncoded ==
  Clean /\ insn.code.mode \notin {"REL", "BITMOD", "BITBRAMOD"} =>
    LET b == insn.code.bytes IN
    CASE Opsize[insn.code.mode] = 0 -> First.n = 0
      [] Opsize[insn.code.mode] = 1 -> First.n \in {b[1], Signed(b[1])}
      [] Opsize[insn.code.mode] = 2 ->
           (IF insn.mne.msb THEN Radix * b[1] + b[2] ELSE b[1] + Radix * b[2]) = First.n % (Radix * Radix)

(* A branch that is not refused lands on its target. *)
BranchReaches ==
  Clean /\ ~Pc.unk /\ (insn.mne.rel \/ insn.code.mode = "REL") =>
    LET b == insn.code.bytes
        target == operand[Truth(insn.mne.mask) +
                          CASE insn.code.mode = "REL" -> 1 [] insn.code.mode = "BITBRAMOD" -> 3
                            [] OTHER -> 2]
    IN  Pc.n + Glen(insn.code) + Signed(b[Len(b)]) = target.n

(* An instruction whose operand is not known yet is as long as it can get, *)
(* whatever stale value is computed with: when a later pass knows it, the  *)
(* labels behind it move down, never up.                                   *)
LongestWhenUnknown ==
  Generated /\ ~First.unk =>
    \A stale \in {0, First.n} :
      LET before == Assemble(insn.mne, insn.extension,
                             [operand EXCEPT ![1] = [@ EXCEPT !.n = stale, !.unk = TRUE]], Pc)
      IN  before.generated /\ Glen(insn.code) <= Glen(before)

(* Without an extension the mode is the first of the chain that is legal   *)
(* and wide enough, although the code looks for the two one after the      *)
(* other and stops at gaps; only if there is none it complains.            *)
After(m) == IF EndOfChain(m) THEN m ELSE Cvt[m]
Chain(start) == <<start, After(start), After(After(start))>>
SmallestModeChosen ==
  insn.done /\ insn.extension = None /\ ~First.unk =>
    LET chain == Chain(StartMode(insn.mne, operand))
        size == IF InByte(First.n) THEN Truth(First.n # 0) ELSE 2
        fits == {k \in 1..3 : chain[k] \in insn.mne.okmask /\ Opsize[chain[k]] >= size}
    IN  IF fits = {} THEN insn.code.errors > 0
        ELSE insn.code.generated /\ \E k \in fits : insn.code.mode = chain[k] /\ \A j \in fits : k <= j

(* What Gen still holds from another line never gets into a finished       *)
(* output: somebody complained, or asked for another pass.                 *)
NoStaleByte ==
  Clean => \A i \in DOMAIN insn.code.bytes : insn.code.bytes[i] # STALE
=============================================================================
