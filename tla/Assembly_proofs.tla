-------------------------- MODULE Assembly_proofs ---------------------------
(***************************************************************************)
(* Theorems about the pass loop (module PassDriver) and about the          *)
(* assembler, for every source, every set of names and segments and every  *)
(* limit on passes.                                                        *)
(***************************************************************************)
EXTENDS Assembly, BasicFacts, FiniteSetTheorems

-----------------------------------------------------------------------------
(* The pass loop, whatever the lines of a pass do: for every limit, every  *)
(* set of reasons and every set of counter values.                         *)

(* The constants, in the form the leaves cite. *)
LEMMA Constants ==
  /\ MaxPasses \in Int /\ IfReason \in Reasons
  /\ Counts \subseteq Nat
BY PassAssumption, CountAssumption

-----------------------------------------------------------------------------
(* Every step of the driver itself, whatever the lines do.                 *)
LEMMA DriverType ==
  ASSUME DTypeOK,
         OpenPass \/ OpenFails \/ EndOfSource \/ Finished \/ NotResolvable
         \/ AbortFatal \/ TooManyPasses \/ NextPass \/ Exit
  PROVE  DTypeOK'
<1> USE DEF DTypeOK, Running, EXIT_SUCCESS, EXIT_FAILURE
<1>1. CASE OpenPass
  BY <1>1 DEF OpenPass
<1>2. CASE OpenFails
  BY <1>2 DEF OpenFails
<1>3. CASE EndOfSource
  BY <1>3 DEF EndOfSource
<1>4. CASE Finished
  BY <1>4 DEF Finished
<1>5. CASE NotResolvable
  BY <1>5 DEF NotResolvable
<1>6. CASE TurnPass /\ phase' \in {"open", "returned"} /\ fatals' \in Nat
  BY <1>6 DEF TurnPass, SaveTriple, ShiftRedoIf, Triple
<1>7. AbortFatal \/ TooManyPasses \/ NextPass
       => TurnPass /\ phase' \in {"open", "returned"} /\ fatals' \in Nat
  BY DEF AbortFatal, TooManyPasses, NextPass
<1>8. CASE Exit
  BY <1>8 DEF Exit
<1>. QED
  BY <1>1, <1>2, <1>3, <1>4, <1>5, <1>6, <1>7, <1>8

(* Type correctness of the driver's globals: the counters stay natural     *)
(* numbers, the exit status is 0 or 1.                                     *)
THEOREM TypeCorrect == DSpec => []DTypeOK
<1>1. DInit => DTypeOK
  BY DEF DInit, DTypeOK, NoTriple, Running, EXIT_SUCCESS, EXIT_FAILURE
<1>2. DTypeOK /\ [DNext]_dvars => DTypeOK'
  <2> SUFFICES ASSUME DTypeOK, [DNext]_dvars
               PROVE  DTypeOK'
    OBVIOUS
  <2>1. CASE Line
    BY <2>1, Constants DEF Line, Accrue, DTypeOK
  <2>2. CASE Panic
    BY <2>2, Constants DEF Panic, Accrue, DTypeOK, EXIT_FAILURE
  <2>3. CASE UNCHANGED dvars
    BY <2>3 DEF dvars, DTypeOK
  <2>. QED
    BY <2>1, <2>2, <2>3, DriverType DEF DNext
<1>. QED
  BY <1>1, <1>2, PTL DEF DSpec

-----------------------------------------------------------------------------
(* The strengthening the invariants of the loop share: a pass that asked   *)
(* for another one has said why.  Without it the triple saved at the end   *)
(* of a pass could have an empty set of reasons.                           *)
RedoHasReason == redo # 0 => why # {}

DInv == DTypeOK /\ RedoHasReason /\ PassLimit /\ IfSuppression /\ OldAskedForRetry

(* What the last step of a pass does to the triple and to Redo_if.         *)
LEMMA TurnKeeps ==
  ASSUME DInv, TurnPass
  PROVE  RedoHasReason' /\ IfSuppression' /\ OldAskedForRetry'
<1> USE DEF DInv, DTypeOK, TurnPass, SaveTriple
<1>1. RedoHasReason'
  BY DEF RedoHasReason
<1>2. IfSuppression'
  BY DEF IfSuppression, ShiftRedoIf, Triple
<1>3. OldAskedForRetry'
  <2>1. old' # NoTriple
    BY DEF Triple, NoTriple
  <2>2. old'.redo > 0 /\ old'.why # {}
    BY DEF Triple, RedoHasReason
  <2>. QED
    BY <2>1, <2>2 DEF OldAskedForRetry
<1>. QED
  BY <1>1, <1>2, <1>3

(* A line, whatever it does, keeps Redo_if in step with the reasons.       *)
LEMMA AccrueKeeps ==
  ASSUME DInv, Accrue
  PROVE  RedoHasReason' /\ (redoIf'.now <=> IfReason \in why')
                        /\ redoIf'.before = redoIf.before
<1> USE DEF DInv, DTypeOK, Accrue
<1>1. RedoHasReason'
  BY DEF RedoHasReason
<1>2. redoIf'.now <=> (redoIf.now \/ IfReason \in why')
  OBVIOUS
<1>3. redoIf'.before = redoIf.before
  OBVIOUS
<1>. QED
  BY <1>1, <1>2, <1>3 DEF IfSuppression

LEMMA StepKeepsInv == DInv /\ DTypeOK' /\ [DNext]_dvars => DInv'
<1> SUFFICES ASSUME DInv, DTypeOK', [DNext]_dvars
             PROVE  RedoHasReason' /\ PassLimit' /\ IfSuppression' /\ OldAskedForRetry'
  BY DEF DInv
<1> USE DEF DInv
<1>1. ASSUME UNCHANGED <<pass, redo, why, old, redoIf>>,
             phase' \in {"lines", "closing"} => phase \in {"open", "lines", "closing"},
             phase' # "open" \/ phase = "open"
      PROVE  RedoHasReason' /\ PassLimit' /\ IfSuppression' /\ OldAskedForRetry'
  BY <1>1 DEF RedoHasReason, PassLimit, IfSuppression, OldAskedForRetry, DTypeOK
<1>2. CASE OpenPass
  BY <1>1, <1>2 DEF OpenPass
<1>3. CASE OpenFails
  BY <1>1, <1>3 DEF OpenFails
<1>4. CASE Line \/ Panic
  <2>1. Accrue /\ UNCHANGED <<pass, old>> /\ phase = "lines"
        /\ phase' \in {"lines", "exited"}
    BY <1>4 DEF Line, Panic
  <2>2. RedoHasReason' /\ IfSuppression'
    BY <2>1, AccrueKeeps DEF IfSuppression
  <2>3. PassLimit'
    BY <2>1 DEF PassLimit
  <2>4. OldAskedForRetry'
    BY <2>1 DEF OldAskedForRetry
  <2>. QED
    BY <2>2, <2>3, <2>4
<1>5. CASE EndOfSource
  BY <1>1, <1>5 DEF EndOfSource
<1>6. CASE Finished \/ NotResolvable
  BY <1>1, <1>6 DEF Finished, NotResolvable
<1>7. CASE AbortFatal \/ TooManyPasses \/ NextPass
  <2>1. TurnPass
    BY <1>7 DEF AbortFatal, TooManyPasses, NextPass
  <2>2. PassLimit'
    BY <1>7, <2>1 DEF AbortFatal, TooManyPasses, NextPass, TurnPass, PassLimit
  <2>. QED
    BY <2>1, <2>2, TurnKeeps
<1>8. CASE Exit
  BY <1>1, <1>8 DEF Exit
<1>9. CASE UNCHANGED dvars
  BY <1>1, <1>9 DEF dvars
<1>. QED
  BY <1>2, <1>3, <1>4, <1>5, <1>6, <1>7, <1>8, <1>9 DEF DNext

LEMMA Invariance == DSpec => []DInv
<1>1. DInit /\ DTypeOK => DInv
  BY DEF DInit, DInv, RedoHasReason, PassLimit, IfSuppression, OldAskedForRetry, NoTriple
<1>. QED
  BY <1>1, TypeCorrect, StepKeepsInv, PTL DEF DSpec

(* No line is read in a pass beyond the limit of option -p.                *)
THEOREM PassLimitHolds == DSpec => []PassLimit
BY Invariance, PTL DEF DInv

(* The two bits of Redo_if say exactly whether this pass and the one       *)
(* before met an unresolved IF, so a label mismatch is silenced in the     *)
(* pass after such an IF and in no other.                                  *)
THEOREM IfSuppressionHolds == DSpec => []IfSuppression
BY Invariance, PTL DEF DInv

(* The loop detector compares with a pass that was made and that asked for *)
(* a retry for a reason.                                                   *)
THEOREM OldAskedForRetryHolds == DSpec => []OldAskedForRetry
BY Invariance, PTL DEF DInv

-----------------------------------------------------------------------------
(* A source that met a fatal error is not assembled once more.             *)
THEOREM FatalIsFinal == DSpec => FatalStopsPasses
<1>1. DTypeOK /\ [DNext]_dvars => [fatals > 0 => phase' # "open" \/ phase = "open"]_dvars
  <2> SUFFICES ASSUME DTypeOK, DNext, fatals > 0, phase' = "open", phase # "open"
               PROVE  FALSE
    BY DEF dvars, DTypeOK
  <2>1. NextPass
    BY DEF DNext, OpenPass, OpenFails, Line, Panic, EndOfSource, Finished, NotResolvable,
           AbortFatal, TooManyPasses, Exit
  <2>. QED
    BY <2>1 DEF NextPass, DTypeOK
<1>. QED
  BY <1>1, TypeCorrect, PTL DEF DSpec, FatalStopsPasses

(* MainShadow returns without having reported a fatal error only from a    *)
(* pass that closed its files and needed no further pass.                  *)
THEOREM UnresolvedReported == DSpec => UnresolvedIsReported
<1>1. DTypeOK /\ [DNext]_dvars
      => [phase # "returned" /\ phase' = "returned" /\ fatals' = 0
            => phase = "closing" /\ redo = 0]_dvars
  <2> SUFFICES ASSUME DTypeOK, DNext, phase # "returned", phase' = "returned", fatals' = 0
               PROVE  phase = "closing" /\ redo = 0
    BY DEF dvars, DTypeOK
  <2>1. OpenFails \/ Finished \/ NotResolvable \/ AbortFatal \/ TooManyPasses
    BY DEF DNext, OpenPass, Line, Panic, EndOfSource, NextPass, Exit
  <2>2. ~OpenFails /\ ~NotResolvable /\ ~AbortFatal /\ ~TooManyPasses
    BY DEF OpenFails, NotResolvable, AbortFatal, TooManyPasses, DTypeOK
  <2>. QED
    BY <2>1, <2>2 DEF Finished
<1>. QED
  BY <1>1, TypeCorrect, PTL DEF DSpec, UnresolvedIsReported

-----------------------------------------------------------------------------
(* What a work record holds.                                               *)
SymbolType == [value : Int, unknown : BOOLEAN, ref : BOOLEAN]
SegmentType == [made : BOOLEAN, bss : BOOLEAN, org : Int, unknown : BOOLEAN,
                rorging : BOOLEAN, rorg : Int, runknown : BOOLEAN]
Condition == [xtrue : BOOLEAN, acctrue : BOOLEAN]
LoopType == [from : 1..(Len(prog) + 1), count : Nat \ {0}, unknown : BOOLEAN]
Block == [line : Int, addr : Int, pc : Int, seg : Segments, known : BOOLEAN,
          len : Nat, val : Int]

WorkType == [redo : Nat, why : SUBSET Reasons, evals : Nat,
             redoIf : [now : BOOLEAN, before : BOOLEAN],
             errs : Nat, fatals : Nat, dead : BOOLEAN, next : 1..(Len(prog) + 1),
             syms : [Names -> SymbolType], segs : [Segments -> SegmentType],
             cseg : Segments, ifs : Seq(Condition), reps : Seq(LoopType),
             out : Seq(Block), clear : BOOLEAN, forg : Int,
             orgFill : 0..(ByteLimit - 1)]

(* The base of Ifstack is under everything, the current segment exists,    *)
(* bit 0 of Redo_if goes with its reason.                                  *)
Sound(m) ==
  /\ m.redoIf.now <=> "if" \in m.why
  /\ m.segs[m.cseg].made
  /\ \A g \in Segments : m.segs[g].bss => m.segs[g].made
  /\ m.ifs # <<>> /\ m.ifs[Len(m.ifs)] = Base

(* The blocks written, in order, none beyond the address the file reached. *)
InOrder(m) ==
  /\ \A i \in 1..Len(m.out) : m.out[i].addr + m.out[i].len <= m.forg
  /\ \A i, j \in 1..Len(m.out) :
       i < j => m.out[i].addr + m.out[i].len <= m.out[j].addr

Ordered(m) ==
  /\ m.clear => m.out = <<>>
  /\ m.errs = 0 => /\ m.forg >= 0 /\ \A g \in Segments : m.segs[g].org >= 0
                   /\ format = "RAW" => InOrder(m)

(* A name is firm if no line can change its value without asking for       *)
(* another pass: EQU compares with any known value, a label only with one  *)
(* that is known and, at an unknown pc, referenced.                        *)
Steady(x) == x \notin SetNames /\ x \notin (EquNames \cap LabelNames)
Firm(t, x) == ~t[x].unknown /\ (x \in LabelNames => t[x].ref)
Backs(t, e) == e.sym \in Names => Firm(t, e.sym)

(* What a block needs to stay final, given the symbol table.               *)
Supported(t, b) ==
  LET s == prog[b.line] IN
  /\ BlockFinal(t, b)
  /\ Fixed(s.arg) /\ Fixed(s.arg2) => Backs(t, s.arg) /\ Backs(t, s.arg2)

Final(m) == m.redo = 0 => \A i \in 1..Len(m.out) : Supported(m.syms, m.out[i])

WorkOK(m) == m \in WorkType /\ Sound(m) /\ Ordered(m) /\ Final(m)

(* What PassDriver lets a line do to the counters.                         *)
Accrues(m, n) ==
  /\ m.redo <= n.redo /\ m.evals <= n.evals /\ m.errs <= n.errs /\ m.fatals <= n.fatals
  /\ m.why \subseteq n.why
  /\ n.redo = m.redo => n.why = m.why
  /\ n.redo # m.redo => n.why # {}
  /\ n.redoIf.before = m.redoIf.before
  /\ n.dead => m.dead \/ m.fatals < n.fatals

(* What the values already used need of a line.                            *)
Kept(t, u) ==
  \A x \in Names : Steady(x) /\ Firm(t, x) => Firm(u, x) /\ u[x].value = t[x].value
Keeps(m, n) == n.redo = 0 => Kept(m.syms, n.syms)

(* What a line leaves alone: the values of the names it does not define,   *)
(* the blocks already written, what makes a segment uninitialised.         *)
Spares(m, n) ==
  /\ \A x \in Names : x # prog[ip].lab => /\ n.syms[x].value = m.syms[x].value
                                          /\ n.syms[x].unknown = m.syms[x].unknown
  /\ \A g \in Segments : m.segs[g].bss => n.segs[g].bss
Adds(m, n) ==
  /\ \A i \in 1..Len(n.out) :
       n.out[i].line = ip \/ \E j \in 1..Len(m.out) : n.out[i] = m.out[j]
  /\ \A j \in 1..Len(m.out) : \E i \in 1..Len(n.out) : n.out[i] = m.out[j]

Good(m, n) == WorkOK(n) /\ Accrues(m, n) /\ Keeps(m, n) /\ Spares(m, n) /\ Adds(m, n)

LEMMA KeptSupported ==
  ASSUME NEW t, NEW u, NEW b, Kept(t, u), Supported(t, b)
  PROVE  Supported(u, b)
<1> DEFINE s == prog[b.line]
<1> SUFFICES ASSUME Fixed(s.arg), Fixed(s.arg2)
             PROVE  BlockFinal(u, b) /\ Backs(u, s.arg) /\ Backs(u, s.arg2)
  BY DEF Supported, BlockFinal
<1>1. Backs(t, s.arg) /\ Backs(t, s.arg2) /\ BlockFinal(t, b)
  BY DEF Supported
<1>2. ASSUME NEW e, Fixed(e), Backs(t, e)
      PROVE  Backs(u, e) /\ Resolved(u, e) /\ Operand(u, b, e) = Operand(t, b, e)
  BY <1>2 DEF Fixed, Steady, Backs, Kept, Firm, Resolved, Operand
<1>3. Backs(u, s.arg) /\ Resolved(u, s.arg) /\ Operand(u, b, s.arg) = Operand(t, b, s.arg)
  BY <1>1, <1>2
<1>4. Backs(u, s.arg2) /\ Resolved(u, s.arg2) /\ Operand(u, b, s.arg2) = Operand(t, b, s.arg2)
  BY <1>1, <1>2
<1>5. BlockFinal(u, b)
  BY <1>1, <1>3, <1>4 DEF BlockFinal
<1>. QED
  BY <1>3, <1>4, <1>5

LEMMA KeptTrans ==
  ASSUME NEW t, NEW u, NEW v, Kept(t, u), Kept(u, v) PROVE Kept(t, v)
BY DEF Kept

(* A step that writes nothing and keeps the values used is good.           *)
LEMMA QuietGood ==
  ASSUME NEW m, WorkOK(m), NEW n, n \in WorkType, Sound(n), Ordered(n),
         Accrues(m, n), Keeps(m, n), Spares(m, n), n.out = m.out
  PROVE  Good(m, n)
<1>1. n.redo = 0 => m.redo = 0
  <2>1. m.redo \in Nat /\ n.redo \in Nat
    BY DEF WorkOK, WorkType
  <2>2. m.redo <= n.redo
    BY DEF Accrues
  <2>. QED
    BY <2>1, <2>2
<1>2. Final(n)
  BY <1>1, KeptSupported DEF Final, Keeps, WorkOK
<1>. QED
  BY <1>2 DEF Good, WorkOK, Adds

(* Neither the symbols nor the output nor the segments change.             *)
Untouched(m, n) ==
  /\ n.syms = m.syms /\ n.segs = m.segs
  /\ n.out = m.out /\ n.clear = m.clear /\ n.forg = m.forg

LEMMA SameGood ==
  ASSUME NEW m, WorkOK(m), NEW n, n \in WorkType, Sound(n), Accrues(m, n), Untouched(m, n)
  PROVE  Good(m, n)
<1>1. Keeps(m, n) /\ Spares(m, n)
  BY DEF Keeps, Kept, Spares, Untouched
<1>2. n.errs = 0 => m.errs = 0
  <2>1. m.errs \in Nat /\ n.errs \in Nat /\ m.errs <= n.errs
    BY DEF WorkOK, WorkType, Accrues
  <2>. QED
    BY <2>1
<1>3. Ordered(n)
  BY <1>2 DEF WorkOK, Ordered, InOrder, Untouched
<1>. QED
  BY <1>1, <1>3, QuietGood DEF Untouched

LEMMA GoodTrans ==
  ASSUME NEW m, NEW n, NEW o, WorkOK(m), Good(m, n), Good(n, o)
  PROVE  Good(m, o)
<1>1. /\ m.redo \in Nat /\ m.evals \in Nat /\ m.errs \in Nat /\ m.fatals \in Nat
      /\ n.redo \in Nat /\ n.evals \in Nat /\ n.errs \in Nat /\ n.fatals \in Nat
      /\ o.redo \in Nat /\ o.evals \in Nat /\ o.errs \in Nat /\ o.fatals \in Nat
  BY DEF Good, WorkOK, WorkType
<1>2. Accrues(m, o)
  BY <1>1 DEF Good, Accrues
<1>3. o.redo = 0 => n.redo = 0
  BY <1>1 DEF Good, Accrues
<1>4. Keeps(m, o)
  BY <1>3, KeptTrans DEF Good, Keeps
<1>5. Spares(m, o)
  BY DEF Good, Spares
<1>6. Adds(m, o)
  <2>1. ASSUME NEW i \in 1..Len(o.out)
        PROVE  o.out[i].line = ip \/ \E j \in 1..Len(m.out) : o.out[i] = m.out[j]
    BY DEF Good, Adds
  <2>2. ASSUME NEW j \in 1..Len(m.out)
        PROVE  \E i \in 1..Len(o.out) : o.out[i] = m.out[j]
    BY DEF Good, Adds
  <2>. QED
    BY <2>1, <2>2 DEF Adds
<1>. QED
  BY <1>2, <1>4, <1>5, <1>6 DEF Good

LEMMA GoodSelf == ASSUME NEW m, WorkOK(m) PROVE Good(m, m)
<1>1. m.redo \in Nat /\ m.evals \in Nat /\ m.errs \in Nat /\ m.fatals \in Nat
  BY DEF WorkOK, WorkType
<1>. QED
  BY <1>1 DEF Good, Accrues, Keeps, Kept, Spares, Adds

-----------------------------------------------------------------------------
(* The counters.                                                           *)
LEMMA NeedGood ==
  ASSUME NEW m, WorkOK(m), NEW r \in WhyNeeded \ {"if"}
  PROVE  Good(m, Need(m, r))
<1>1. r \in Reasons /\ r # "if"
  BY AssemblyAssumption
<1>2. Need(m, r) \in WorkType
  <2>1. m \in WorkType
    BY DEF WorkOK
  <2>2. m.redo + 1 \in Nat /\ m.why \cup {r} \in SUBSET Reasons
    BY <2>1, <1>1 DEF WorkType
  <2>3. [m EXCEPT !.redo = m.redo + 1] \in WorkType
    BY <2>1, <2>2 DEF WorkType
  <2>. QED
    BY <2>1, <2>2 DEF Need, WorkType
<1>3. Accrues(m, Need(m, r)) /\ Untouched(m, Need(m, r))
  BY DEF Need, WorkOK, WorkType, Accrues, Untouched
<1>4. Sound(Need(m, r))
  BY <1>1 DEF Need, WorkOK, WorkType, Sound
<1>. QED
  BY <1>2, <1>3, <1>4, SameGood

LEMMA NeedFields ==
  ASSUME NEW m, m \in WorkType, NEW r, NEW c
  PROVE  /\ Need(m, r).redo # 0 /\ Need(m, r).syms = m.syms
         /\ Need(m, r).segs = m.segs /\ Need(m, r).cseg = m.cseg
         /\ Need(m, r).out = m.out /\ NeedIf(c, m, r).out = m.out
         /\ NeedIf(c, m, r).redo = 0 => ~c
         /\ NeedIf(c, m, r).syms = m.syms
         /\ NeedIf(c, m, r).segs = m.segs /\ NeedIf(c, m, r).cseg = m.cseg
<1>1. m.redo \in Nat
  BY DEF WorkType
<1>2. Need(m, r).redo = m.redo + 1
  BY DEF Need, WorkType
<1>3. /\ Need(m, r).syms = m.syms
      /\ Need(m, r).segs = m.segs /\ Need(m, r).cseg = m.cseg
      /\ Need(m, r).out = m.out
  BY DEF Need, WorkType
<1>. QED
  BY <1>1, <1>2, <1>3 DEF NeedIf

LEMMA NeedIfGood ==
  ASSUME NEW m, WorkOK(m), NEW c, NEW r \in WhyNeeded \ {"if"}
  PROVE  Good(m, NeedIf(c, m, r))
BY NeedGood, GoodSelf DEF NeedIf

LEMMA ErrorGood == ASSUME NEW m, WorkOK(m) PROVE Good(m, Error(m))
<1>1. m \in WorkType /\ m.errs + 1 \in Nat
  BY DEF WorkOK, WorkType
<1>2. Error(m) \in WorkType
  BY <1>1 DEF Error, WorkType
<1>3. Accrues(m, Error(m)) /\ Untouched(m, Error(m))
  BY <1>1 DEF Error, WorkType, Accrues, Untouched
<1>4. Sound(Error(m))
  BY DEF Error, WorkOK, WorkType, Sound
<1>. QED
  BY <1>2, <1>3, <1>4, SameGood

LEMMA ErrorIfGood == ASSUME NEW m, WorkOK(m), NEW c PROVE Good(m, ErrorIf(c, m))
BY ErrorGood, GoodSelf DEF ErrorIf

-----------------------------------------------------------------------------
(* Values and symbols.                                                     *)
PcRecord == [value : Int, unknown : BOOLEAN]

LEMMA PcType == ASSUME NEW m, m \in WorkType PROVE Pc(m) \in PcRecord
<1>1. m.segs[m.cseg] \in SegmentType
  BY DEF WorkType
<1>. QED
  BY <1>1 DEF Pc, Current, PcRecord, SegmentType

LEMMA ValueType ==
  ASSUME NEW m, m \in WorkType, NEW e \in Argument
  PROVE  Value(m, e) \in PcRecord
<1>1. e.add \in Int
  BY DEF Argument
<1>2. e.sym \in {"none", "absent"} \/ e.sym = "." \/ e.sym \in Names
  BY DEF Argument
<1>3. Pc(m) \in PcRecord
  BY PcType
<1>4. ASSUME e.sym \in Names PROVE m.syms[e.sym] \in SymbolType
  BY <1>4 DEF WorkType
<1>5. CASE e.sym \in {"none", "absent"}
  BY <1>1, <1>5 DEF Value, PcRecord
<1>6. CASE e.sym = "."
  BY <1>1, <1>3, <1>6 DEF Value, PcRecord
<1>7. CASE e.sym \in Names /\ e.sym \notin {"none", "absent", "."}
  BY <1>1, <1>4, <1>7 DEF Value, PcRecord, SymbolType
<1>. QED
  BY <1>2, <1>5, <1>6, <1>7

(* A new entry in the symbol table disturbs nothing else.                  *)
LEMMA SymbolGood ==
  ASSUME NEW m, WorkOK(m), NEW n \in Names, NEW v \in SymbolType,
         m.redo = 0 => Kept(m.syms, [m.syms EXCEPT ![n] = v]),
         n = prog[ip].lab \/ (v.value = m.syms[n].value /\ v.unknown = m.syms[n].unknown)
  PROVE  Good(m, [m EXCEPT !.syms[n] = v])
<1> DEFINE t == [m.syms EXCEPT ![n] = v]
           w == [m EXCEPT !.syms = t]
<1>1. m \in WorkType /\ t \in [Names -> SymbolType] /\ (m.redo = 0 => Kept(m.syms, t))
  BY DEF WorkOK, WorkType
<1>2. [m EXCEPT !.syms[n] = v] = w
  OBVIOUS
<1> HIDE DEF t
<1>3. w \in WorkType
  BY <1>1 DEF WorkType
<1>4. Accrues(m, w) /\ Keeps(m, w) /\ Spares(m, w) /\ w.out = m.out
  <2>1. Accrues(m, w) /\ Keeps(m, w) /\ w.out = m.out
    BY <1>1 DEF WorkType, Accrues, Keeps
  <2>2. w.syms = t /\ w.segs = m.segs
    BY <1>1 DEF WorkType
  <2>3. ASSUME NEW x \in Names, x # prog[ip].lab
        PROVE  t[x].value = m.syms[x].value /\ t[x].unknown = m.syms[x].unknown
    BY <1>1, <2>3 DEF t, WorkType
  <2>. QED
    BY <2>1, <2>2, <2>3 DEF Spares
<1>5. Sound(w)
  BY <1>1 DEF WorkOK, WorkType, Sound
<1>6. Ordered(w)
  <2>1. w.segs = m.segs /\ w.out = m.out /\ w.clear = m.clear /\ w.forg = m.forg /\ w.errs = m.errs
    BY <1>1 DEF WorkType
  <2> HIDE DEF w
  <2>. QED
    BY <2>1 DEF WorkOK, Ordered, InOrder
<1>. QED
  BY <1>2, <1>3, <1>4, <1>5, <1>6, QuietGood

(* An entry that agrees with what the values already used need.            *)
LEMMA EntryKept ==
  ASSUME NEW t \in [Names -> SymbolType], NEW n \in Names, NEW v,
         Steady(n) /\ Firm(t, n) =>
           /\ ~v.unknown /\ (n \in LabelNames => v.ref)
           /\ v.value = t[n].value
  PROVE  Kept(t, [t EXCEPT ![n] = v])
BY DEF Kept, Firm

LEMMA ReadGood ==
  ASSUME NEW m, WorkOK(m), NEW e \in Argument
  PROVE  Good(m, Read(m, e))
<1> DEFINE k == IF Value(m, e).unknown THEN m.evals + 1 ELSE m.evals
           w == [m EXCEPT !.evals = k]
<1>1. m \in WorkType /\ m.evals \in Nat
  BY DEF WorkOK, WorkType
<1>2. k \in Nat /\ m.evals <= k
  BY <1>1
<1> HIDE DEF k
<1>3. w \in WorkType
  BY <1>1, <1>2 DEF WorkType
<1>4. Accrues(m, w) /\ Untouched(m, w)
  BY <1>1, <1>2 DEF WorkType, Accrues, Untouched
<1>5. Sound(w)
  BY <1>1 DEF WorkOK, WorkType, Sound
<1>6. Good(m, w)
  BY <1>3, <1>4, <1>5, SameGood
<1>7. CASE e.sym \in Names
  <2> DEFINE v == [m.syms[e.sym] EXCEPT !.ref = TRUE]
  <2>1. v \in SymbolType
    <3>1. m.syms[e.sym] \in SymbolType
      BY <1>1, <1>7 DEF WorkType
    <3>. QED
      BY <3>1 DEF SymbolType
  <2>2. Read(m, e) = [m EXCEPT !.evals = k, !.syms[e.sym].ref = TRUE]
    BY <1>7 DEF Read, k
  <2>3. w.syms = m.syms
    BY <1>1 DEF WorkType
  <2>4. Read(m, e) = [w EXCEPT !.syms[e.sym] = v]
    BY <2>2, <2>3, <1>1 DEF WorkType
  <2> HIDE DEF v, w
  <2>5. Good(w, [w EXCEPT !.syms[e.sym] = v])
    <3>1. w.syms \in [Names -> SymbolType]
      BY <1>3 DEF WorkType
    <3>2. v.unknown = w.syms[e.sym].unknown /\ v.value = w.syms[e.sym].value /\ v.ref
      BY <1>1, <1>7, <2>3 DEF WorkType, SymbolType, v
    <3>3. Kept(w.syms, [w.syms EXCEPT ![e.sym] = v])
      BY <1>7, <3>1, <3>2, EntryKept DEF Firm
    <3>. QED
      BY <1>6, <1>7, <2>1, <3>2, <3>3, SymbolGood DEF Good
  <2>. QED
    BY <1>6, <2>4, <2>5, GoodTrans
<1>8. CASE e.sym \notin Names
  BY <1>6, <1>8 DEF Read, k
<1>. QED
  BY <1>7, <1>8

LEMMA RedefinedGood ==
  ASSUME NEW m, WorkOK(m), NEW s, NEW pc
  PROVE  Good(m, Redefined(m, s, pc))
<1>1. "forward" \in WhyNeeded \ {"if"} /\ "phase" \in WhyNeeded \ {"if"}
  BY DEF WhyNeeded
<1>2. Good(m, Need(m, "forward"))
  BY <1>1, NeedGood
<1>3. Good(m, ErrorIf(~m.redoIf.before, m))
  BY ErrorIfGood
<1>4. Good(ErrorIf(~m.redoIf.before, m), Need(ErrorIf(~m.redoIf.before, m), "phase"))
  BY <1>1, <1>3, NeedGood DEF Good
<1>5. Good(m, Need(ErrorIf(~m.redoIf.before, m), "phase"))
  BY <1>3, <1>4, GoodTrans
<1>. QED
  BY <1>2, <1>5, GoodSelf DEF Redefined

(* programlabel stays quiet only where the value cannot have been used, or *)
(* stays the same.                                                         *)
LEMMA RedefinedQuiet ==
  ASSUME NEW m, WorkOK(m), NEW s, NEW pc
  PROVE  /\ Redefined(m, s, pc).syms = m.syms
         /\ Redefined(m, s, pc).redo = 0 =>
              /\ s.ref => ~s.unknown /\ ~pc.unknown
              /\ ~s.unknown /\ ~pc.unknown => pc.value = s.value
<1> DEFINE n == ErrorIf(~m.redoIf.before, m)
<1>1. m \in WorkType /\ n \in WorkType /\ m.redo \in Nat /\ n.redo \in Nat /\ n.syms = m.syms
  <2>1. m \in WorkType /\ n \in WorkType
    BY ErrorIfGood DEF Good, WorkOK
  <2>2. n.syms = m.syms
    BY <2>1 DEF ErrorIf, Error, WorkType
  <2>. QED
    BY <2>1, <2>2 DEF WorkType
<1> HIDE DEF n
<1>2. /\ Need(m, "forward").redo # 0 /\ Need(m, "forward").syms = m.syms
      /\ Need(n, "phase").redo # 0 /\ Need(n, "phase").syms = m.syms
  BY <1>1, NeedFields
<1>. QED
  BY <1>2 DEF Redefined, n

(* The statement is one that places its label.                             *)
Placed(s) == s.lab = prog[ip].lab /\ (s.lab \in Names => s.lab \in LabelNames)

LEMMA LabelGood ==
  ASSUME NEW m, WorkOK(m), NEW lab, lab = prog[ip].lab, lab \in Names => lab \in LabelNames
  PROVE  Good(m, Label(m, lab))
<1>1. CASE lab \notin Names
  BY <1>1, GoodSelf DEF Label
<1>2. CASE lab \in Names
  <2> DEFINE s == m.syms[lab]
             pc == Pc(m)
             r == Redefined(m, s, pc)
             v == [value |-> pc.value, unknown |-> pc.unknown, ref |-> s.ref]
  <2>1. m \in WorkType
    BY DEF WorkOK
  <2>2. v \in SymbolType
    <3>1. pc \in PcRecord /\ s \in SymbolType
      BY <1>2, <2>1, PcType DEF WorkType
    <3>. QED
      BY <3>1 DEF PcRecord, SymbolType
  <2>3. Label(m, lab) = [r EXCEPT !.syms[lab] = v]
    BY <1>2 DEF Label
  <2>4. Good(m, r)
    BY RedefinedGood
  <2> HIDE DEF v, r
  <2>5. Good(r, [r EXCEPT !.syms[lab] = v])
    <3>1. r.syms \in [Names -> SymbolType] /\ r.syms = m.syms
      <4>1. r \in WorkType
        BY <2>4 DEF Good, WorkOK
      <4>2. r.syms = m.syms
        BY RedefinedQuiet DEF r
      <4>. QED
        BY <4>1, <4>2 DEF WorkType
    <3>2. r.redo = 0 => /\ s.ref => ~s.unknown /\ ~pc.unknown
                        /\ ~s.unknown /\ ~pc.unknown => pc.value = s.value
      BY RedefinedQuiet DEF r
    <3>3. v.unknown = pc.unknown /\ v.value = pc.value /\ v.ref = s.ref
      BY DEF v
    <3>4. r.redo = 0 => Kept(r.syms, [r.syms EXCEPT ![lab] = v])
      BY <1>2, <3>1, <3>2, <3>3, EntryKept DEF Firm
    <3>. QED
      BY <1>2, <2>2, <2>4, <3>4, SymbolGood DEF Good
  <2>. QED
    BY <2>3, <2>4, <2>5, GoodTrans
<1>. QED
  BY <1>1, <1>2

-----------------------------------------------------------------------------
(* Segments and the output.                                                *)
LEMMA SegmentGood ==
  ASSUME NEW m, WorkOK(m), NEW g \in SegmentType, g.made, g.bss = Current(m).bss,
         m.errs = 0 => g.org >= 0
  PROVE  Good(m, WithSeg(m, g))
<1> DEFINE t == [m.segs EXCEPT ![m.cseg] = g]
           w == [m EXCEPT !.segs = t]
<1>1. m \in WorkType /\ t \in [Segments -> SegmentType] /\ t[m.cseg] = g
  BY DEF WorkOK, WorkType
<1>2. WithSeg(m, g) = w
  BY DEF WithSeg
<1> HIDE DEF t
<1>3. w \in WorkType
  BY <1>1 DEF WorkType
<1>4. Accrues(m, w) /\ Keeps(m, w) /\ Spares(m, w) /\ w.out = m.out
  <2>1. Accrues(m, w) /\ w.syms = m.syms /\ w.segs = t /\ w.out = m.out
    BY <1>1 DEF WorkType, Accrues
  <2>2. \A k \in Segments : m.segs[k].bss => t[k].bss
    BY <1>1 DEF t, Current, WorkType
  <2>. QED
    BY <2>1, <2>2 DEF Keeps, Kept, Spares
<1>5. Sound(w)
  <2>1. \A k \in Segments : t[k].bss => t[k].made
    BY <1>1 DEF t, WorkOK, Sound, Current, WorkType
  <2>. QED
    BY <1>1, <2>1 DEF WorkOK, WorkType, Sound
<1>6. Ordered(w)
  <2>1. w.segs = t /\ w.out = m.out /\ w.clear = m.clear /\ w.forg = m.forg /\ w.errs = m.errs
    BY <1>1 DEF WorkType
  <2>2. m.errs = 0 => \A k \in Segments : t[k].org >= 0
    BY <1>1 DEF WorkOK, Ordered, t
  <2> HIDE DEF w
  <2>. QED
    BY <2>1, <2>2 DEF WorkOK, Ordered, InOrder
<1>. QED
  BY <1>2, <1>3, <1>4, <1>5, <1>6, QuietGood

LEMMA CurrentSegment ==
  ASSUME NEW m, WorkOK(m)
  PROVE  /\ Current(m) \in SegmentType /\ Current(m).made
         /\ m.errs = 0 => Current(m).org >= 0
BY DEF WorkOK, WorkType, Sound, Ordered, Current

LEMMA AdvanceGood ==
  ASSUME NEW m, WorkOK(m), NEW len \in Nat
  PROVE  Good(m, Advance(m, len))
<1> DEFINE h == Current(m)
           g == [h EXCEPT !.org = @ + len,
                          !.rorg = IF h.rorging THEN @ + len ELSE @]
<1>1. h \in SegmentType /\ h.made /\ (m.errs = 0 => h.org >= 0)
  BY CurrentSegment
<1> HIDE DEF h
<1>2. h.org + len \in Int /\ h.rorg + len \in Int
  BY <1>1 DEF SegmentType
<1>3. (IF h.rorging THEN h.rorg + len ELSE h.rorg) \in Int
  BY <1>1, <1>2 DEF SegmentType
<1>4. g \in SegmentType /\ g.made /\ g.bss = h.bss /\ g.org = h.org + len
  BY <1>1, <1>2, <1>3 DEF SegmentType
<1>6. m.errs = 0 => g.org >= 0
  <2>1. h.org \in Int
    BY <1>1 DEF SegmentType
  <2>. QED
    BY <1>1, <1>4, <2>1
<1>5. Advance(m, len) = WithSeg(m, g)
  BY DEF Advance, h
<1> HIDE DEF g
<1>. QED
  BY <1>4, <1>5, <1>6, SegmentGood DEF h

(* A write begins, and may end the program.                                *)
LEMMA BeginGood == ASSUME NEW m, WorkOK(m) PROVE Good(m, [m EXCEPT !.clear = FALSE])
<1> DEFINE w == [m EXCEPT !.clear = FALSE]
<1>1. m \in WorkType
  BY DEF WorkOK
<1>2. w \in WorkType
  BY <1>1 DEF WorkType
<1>3. Sound(w) /\ Accrues(m, w)
  BY <1>1 DEF WorkOK, WorkType, Sound, Accrues
<1>4. /\ ~w.clear /\ w.syms = m.syms /\ w.segs = m.segs
      /\ w.out = m.out /\ w.forg = m.forg /\ w.errs = m.errs
  BY <1>1 DEF WorkType
<1> HIDE DEF w
<1>5. Ordered(w)
  BY <1>4 DEF WorkOK, Ordered, InOrder
<1>6. Keeps(m, w) /\ Spares(m, w)
  BY <1>4 DEF Keeps, Kept, Spares
<1>. QED
  BY <1>2, <1>3, <1>4, <1>5, <1>6, QuietGood DEF w

LEMMA DieGood ==
  ASSUME NEW m, WorkOK(m)
  PROVE  Good(m, [m EXCEPT !.fatals = @ + 1, !.dead = TRUE])
<1> DEFINE w == [m EXCEPT !.fatals = @ + 1, !.dead = TRUE]
<1>1. m \in WorkType /\ m.fatals \in Nat /\ m.fatals + 1 \in Nat
  BY DEF WorkOK, WorkType
<1>2. w \in WorkType
  BY <1>1 DEF WorkType
<1>3. Accrues(m, w) /\ Untouched(m, w)
  BY <1>1 DEF WorkType, Accrues, Untouched
<1>4. Sound(w)
  BY <1>1 DEF WorkOK, WorkType, Sound
<1>. QED
  BY <1>2, <1>3, <1>4, SameGood

(* The block written is above all the others in a file without hunks:      *)
(* generate has compared the origin with the address reached.              *)
LEMMA AppendGood ==
  ASSUME NEW m, WorkOK(m), NEW b \in Block, b.line = ip,
         LET from == IF m.clear THEN b.addr ELSE m.forg
         IN  format = "RAW" => ~(Unsigned(b.addr) < Unsigned(from)),
         m.errs = 0 => b.addr >= 0,
         m.redo = 0 => Supported(m.syms, b)
  PROVE  Good(m, [m EXCEPT !.clear = FALSE, !.forg = b.addr + b.len,
                           !.out = Append(@, b)])
<1> DEFINE o == Append(m.out, b)
           f == b.addr + b.len
           w == [m EXCEPT !.clear = FALSE, !.forg = f, !.out = o]
<1>1. m \in WorkType /\ m.out \in Seq(Block) /\ m.forg \in Int /\ Len(m.out) \in Nat
  BY LenProperties DEF WorkOK, WorkType
<1>2. b.addr \in Int /\ b.len \in Nat /\ f \in Int
  BY DEF Block
<1>3. /\ o \in Seq(Block) /\ Len(o) = Len(m.out) + 1
      /\ \A i \in 1..Len(m.out) : o[i] = m.out[i]
      /\ o[Len(m.out) + 1] = b
  BY <1>1, AppendProperties
<1>4. m.errs = 0 => f >= 0
  BY <1>2
<1> HIDE DEF o, f
<1>5. w \in WorkType
  BY <1>1, <1>2, <1>3 DEF WorkType
<1>6. /\ w.out = o /\ w.forg = f /\ ~w.clear /\ w.syms = m.syms
      /\ w.segs = m.segs /\ w.errs = m.errs /\ w.redo = m.redo
  BY <1>1 DEF WorkType
<1>7. Accrues(m, w) /\ Keeps(m, w) /\ Spares(m, w)
  <2>1. Accrues(m, w)
    BY <1>1 DEF WorkType, Accrues
  <2>. QED
    BY <1>6, <2>1 DEF Keeps, Kept, Spares
<1>8. Sound(w)
  BY <1>1 DEF WorkOK, WorkType, Sound
<1> HIDE DEF w
<1>9. ASSUME format = "RAW", m.errs = 0
      PROVE  InOrder(w)
  <2>1. ASSUME NEW i \in 1..Len(m.out) PROVE m.out[i].addr + m.out[i].len <= b.addr
    <3>1. m.out[i] \in Block
      BY <1>1, ElementOfSeq
    <3>2. m.out[i].addr + m.out[i].len \in Int
      BY <3>1 DEF Block
    <3>3. ~m.clear
      <4>1. m.out # <<>>
        BY <1>1, EmptySeq
      <4>. QED
        BY <4>1 DEF WorkOK, Ordered
    <3>4. m.out[i].addr + m.out[i].len <= m.forg /\ m.forg >= 0
      BY <1>9 DEF WorkOK, Ordered, InOrder
    <3>5. ~(Unsigned(b.addr) < Unsigned(m.forg))
      BY <1>9, <3>3
    <3>6. ~(b.addr < m.forg)
      BY <1>1, <1>2, <1>9, <3>4, <3>5 DEF Unsigned
    <3>. QED
      BY <1>1, <1>2, <3>2, <3>4, <3>6
  <2>2. \A i \in 1..Len(m.out) : m.out[i].addr + m.out[i].len \in Int
    <3> SUFFICES ASSUME NEW i \in 1..Len(m.out) PROVE m.out[i].addr + m.out[i].len \in Int
      OBVIOUS
    <3>1. m.out[i] \in Block
      BY <1>1, ElementOfSeq
    <3>. QED
      BY <3>1 DEF Block
  <2>3. ASSUME NEW i \in 1..Len(o) PROVE o[i].addr + o[i].len <= f
    <3>1. CASE i = Len(m.out) + 1
      BY <1>2, <1>3, <3>1 DEF f
    <3>2. CASE i \in 1..Len(m.out)
      <4>1. /\ m.out[i].addr + m.out[i].len <= b.addr
            /\ m.out[i].addr + m.out[i].len \in Int
        BY <2>1, <2>2, <3>2
      <4>2. m.out[i].addr + m.out[i].len <= b.addr + b.len
        BY <1>2, <4>1
      <4>. QED
        BY <1>3, <3>2, <4>2 DEF f
    <3>. QED
      BY <1>1, <1>3, <3>1, <3>2
  <2>4. ASSUME NEW i \in 1..Len(o), NEW j \in 1..Len(o), i < j
        PROVE  o[i].addr + o[i].len <= o[j].addr
    <3>1. i \in 1..Len(m.out)
      BY <1>1, <1>3, <2>4
    <3>2. CASE j = Len(m.out) + 1
      BY <1>3, <2>1, <3>1, <3>2
    <3>3. CASE j \in 1..Len(m.out)
      <4>1. InOrder(m)
        BY <1>9 DEF WorkOK, Ordered
      <4>. QED
        BY <1>3, <2>4, <3>1, <3>3, <4>1 DEF InOrder
    <3>. QED
      BY <1>1, <1>3, <3>2, <3>3
  <2>. QED
    BY <1>6, <2>3, <2>4 DEF InOrder
<1>10. Ordered(w)
  BY <1>4, <1>6, <1>9 DEF WorkOK, Ordered
<1>11. Final(w)
  <2>1. ASSUME m.redo = 0, NEW i \in 1..Len(o) PROVE Supported(m.syms, o[i])
    <3>1. CASE i = Len(m.out) + 1
      BY <1>3, <2>1, <3>1
    <3>2. CASE i \in 1..Len(m.out)
      BY <1>3, <2>1, <3>2 DEF WorkOK, Final
    <3>. QED
      BY <1>1, <1>3, <3>1, <3>2
  <2>. QED
    BY <1>6, <2>1 DEF Final
<1>12. [m EXCEPT !.clear = FALSE, !.forg = b.addr + b.len, !.out = Append(@, b)] = w
  BY <1>1 DEF o, f, w, WorkType
<1>13. Adds(m, w)
  <2>1. ASSUME NEW i \in 1..Len(o)
        PROVE  o[i].line = ip \/ \E j \in 1..Len(m.out) : o[i] = m.out[j]
    BY <1>1, <1>3
  <2>2. ASSUME NEW j \in 1..Len(m.out) PROVE \E i \in 1..Len(o) : o[i] = m.out[j]
    BY <1>1, <1>3
  <2>. QED
    BY <1>6, <2>1, <2>2 DEF Adds
<1>. QED
  BY <1>5, <1>7, <1>8, <1>10, <1>11, <1>12, <1>13 DEF Good, WorkOK

LEMMA WriteGood ==
  ASSUME NEW m, WorkOK(m), NEW line \in Int, line = ip, NEW val \in Int, NEW len \in Nat,
         m.redo = 0 => Supported(m.syms, BlockOf(m, line, val, len))
  PROVE  Good(m, Write(m, line, val, len))
<1> DEFINE g == Current(m)
           from == IF m.clear THEN g.org ELSE m.forg
           b == BlockOf(m, line, val, len)
           w1 == [m EXCEPT !.clear = FALSE]
           w2 == [m EXCEPT !.clear = FALSE, !.fatals = @ + 1, !.dead = TRUE]
           w3 == [m EXCEPT !.clear = FALSE, !.forg = g.org + len, !.out = Append(@, b)]
<1>1. /\ m \in WorkType /\ g \in SegmentType /\ Pc(m) \in PcRecord
      /\ m.errs = 0 => g.org >= 0
  BY PcType, CurrentSegment DEF WorkOK
<1>2. Good(m, w1)
  BY BeginGood
<1>3. Good(m, Need(w1, "obscure"))
  <2> HIDE DEF w1
  <2>1. Good(w1, Need(w1, "obscure"))
    BY <1>2, NeedGood DEF Good, WhyNeeded
  <2>. QED
    BY <1>2, <2>1, GoodTrans
<1>4. Good(m, w2)
  <2>1. w2 = [w1 EXCEPT !.fatals = @ + 1, !.dead = TRUE]
    BY <1>1 DEF WorkType
  <2> HIDE DEF w1, w2
  <2>2. Good(w1, w2)
    BY <1>2, <2>1, DieGood DEF Good
  <2>. QED
    BY <1>2, <2>2, GoodTrans
<1>5. ASSUME ~Reversed(g, from) PROVE Good(m, Advance(w3, len))
  <2>1. b \in Block /\ b.line = ip /\ b.addr = g.org /\ b.len = len
    BY <1>1 DEF Block, BlockOf, SegmentType, PcRecord, WorkType
  <2>2. format = "RAW" => ~(Unsigned(b.addr) < Unsigned(IF m.clear THEN b.addr ELSE m.forg))
    BY <1>5, <2>1 DEF Reversed
  <2> HIDE DEF b
  <2>3. Good(m, [m EXCEPT !.clear = FALSE, !.forg = b.addr + b.len, !.out = Append(@, b)])
    BY <1>1, <2>1, <2>2, AppendGood DEF b
  <2>4. Good(m, w3)
    BY <2>1, <2>3
  <2> HIDE DEF w3
  <2>5. Good(w3, Advance(w3, len))
    BY <2>4, AdvanceGood DEF Good
  <2>. QED
    BY <2>4, <2>5, GoodTrans
<1>6. Write(m, line, val, len) = IF m.clear /\ g.unknown THEN Need(w1, "obscure")
                                 ELSE IF Reversed(g, from) THEN w2 ELSE Advance(w3, len)
  BY DEF Write
<1> HIDE DEF w1, w2, w3, from, g
<1>. QED
  BY <1>3, <1>4, <1>5, <1>6

LEMMA GenerateGood ==
  ASSUME NEW m, WorkOK(m), NEW line \in Int, line = ip, NEW val \in Int, NEW len \in Nat,
         m.redo = 0 => Supported(m.syms, BlockOf(m, line, val, len))
  PROVE  Good(m, Generate(m, line, val, len))
BY WriteGood, AdvanceGood DEF Generate

LEMMA GenFillGood ==
  ASSUME NEW m, WorkOK(m), NEW line \in Int, line = ip, NEW val \in Int, NEW len \in Nat,
         m.redo = 0 /\ len # 0 => Supported(m.syms, BlockOf(m, line, val, len))
  PROVE  Good(m, GenFill(m, line, val, len))
BY GenerateGood, GoodSelf DEF GenFill

-----------------------------------------------------------------------------
(* What the helpers leave alone.                                           *)
LEMMA ReadKeeps ==
  ASSUME NEW m, m \in WorkType, NEW e
  PROVE  /\ Read(m, e).segs = m.segs /\ Read(m, e).cseg = m.cseg
         /\ Read(m, e).ifs = m.ifs /\ Read(m, e).reps = m.reps
         /\ Read(m, e).next = m.next /\ Read(m, e).out = m.out
BY DEF Read, WorkType

LEMMA CountKeeps ==
  ASSUME NEW m, m \in WorkType, NEW c, NEW r
  PROVE  /\ ErrorIf(c, m).segs = m.segs /\ ErrorIf(c, m).cseg = m.cseg
         /\ ErrorIf(c, m).ifs = m.ifs /\ ErrorIf(c, m).reps = m.reps
         /\ ErrorIf(c, m).next = m.next /\ ErrorIf(c, m).out = m.out
         /\ Need(m, r).segs = m.segs /\ Need(m, r).cseg = m.cseg
         /\ Need(m, r).ifs = m.ifs /\ Need(m, r).reps = m.reps
         /\ Need(m, r).next = m.next /\ Need(m, r).out = m.out
BY DEF ErrorIf, Error, Need, WorkType

LEMMA LabelKeeps ==
  ASSUME NEW m, WorkOK(m), NEW lab
  PROVE  /\ Label(m, lab).segs = m.segs /\ Label(m, lab).cseg = m.cseg
         /\ Label(m, lab).ifs = m.ifs /\ Label(m, lab).reps = m.reps
         /\ Label(m, lab).next = m.next /\ Label(m, lab).out = m.out
<1>1. CASE lab \notin Names
  BY <1>1 DEF Label
<1>2. CASE lab \in Names
  <2> DEFINE r == Redefined(m, m.syms[lab], Pc(m))
  <2>1. r \in WorkType
    BY RedefinedGood DEF Good, WorkOK
  <2>2. r.segs = m.segs /\ r.cseg = m.cseg /\ r.ifs = m.ifs /\ r.reps = m.reps
        /\ r.next = m.next /\ r.out = m.out
    <3>1. m \in WorkType /\ ErrorIf(~m.redoIf.before, m) \in WorkType
      BY ErrorIfGood DEF Good, WorkOK
    <3>. QED
      BY <3>1, CountKeeps DEF Redefined
  <2> HIDE DEF r
  <2>3. \E v : Label(m, lab) = [r EXCEPT !.syms[lab] = v]
    BY <1>2 DEF Label, r
  <2>. QED
    BY <2>1, <2>2, <2>3 DEF WorkType
<1>. QED
  BY <1>1, <1>2

-----------------------------------------------------------------------------
(* The pseudo-ops that move the origin.                                    *)
LEMMA FillGood ==
  ASSUME NEW m, WorkOK(m), NEW x \in 0..(ByteLimit - 1), NEW k \in {0, 1}
  PROVE  Good(m, [m EXCEPT !.orgFill = x, !.fatals = @ + k])
<1> DEFINE w == [m EXCEPT !.orgFill = x, !.fatals = m.fatals + k]
<1>1. m \in WorkType /\ m.fatals \in Nat /\ m.fatals + k \in Nat /\ m.fatals <= m.fatals + k
  BY DEF WorkOK, WorkType
<1>2. w \in WorkType
  BY <1>1 DEF WorkType
<1>3. Accrues(m, w) /\ Untouched(m, w)
  BY <1>1 DEF WorkType, Accrues, Untouched
<1>4. Sound(w)
  BY <1>1 DEF WorkOK, WorkType, Sound
<1>. QED
  BY <1>2, <1>3, <1>4, SameGood

(* The start of ORG, RORG and ALIGN: operands read, bad addresses told.    *)
LEMMA ReadTwiceGood ==
  ASSUME NEW m, WorkOK(m), NEW s \in Statement
  PROVE  Good(m, Read(Read(m, s.arg), s.arg2))
<1>1. s.arg \in Argument /\ s.arg2 \in Argument
  BY DEF Statement
<1>2. Good(m, Read(m, s.arg))
  BY <1>1, ReadGood
<1> DEFINE r == Read(m, s.arg)
<1> HIDE DEF r
<1>3. Good(m, r) => Good(r, Read(r, s.arg2))
  BY <1>1, ReadGood DEF Good
<1>. QED
  BY <1>2, <1>3, GoodTrans DEF r

LEMMA ArgumentValues ==
  ASSUME NEW m, m \in WorkType, NEW s \in Statement
  PROVE  /\ s.arg \in Argument /\ s.arg2 \in Argument
         /\ Value(m, s.arg).value \in Int /\ Value(m, s.arg).unknown \in BOOLEAN
         /\ Value(m, s.arg2).value \in Int /\ Value(m, s.arg2).unknown \in BOOLEAN
<1>1. s.arg \in Argument /\ s.arg2 \in Argument
  BY DEF Statement
<1>2. Value(m, s.arg) \in PcRecord /\ Value(m, s.arg2) \in PcRecord
  BY <1>1, ValueType
<1>. QED
  BY <1>1, <1>2 DEF PcRecord

LEMMA OrgGood ==
  ASSUME NEW m, WorkOK(m), NEW s \in Statement, Placed(s)
  PROVE  Good(m, OrgLine(m, s))
<1> DEFINE v == Value(m, s.arg)
           f == Value(m, s.arg2)
           r == Read(Read(m, s.arg), s.arg2)
           m1 == ErrorIf(v.value < 0, r)
           g == [Current(m1) EXCEPT !.org = v.value, !.unknown = v.unknown]
           m2 == WithSeg(m1, g)
           x == IF s.arg2 = NoArg THEN m2.orgFill ELSE f.value % ByteLimit
           k == IF f.unknown THEN 1 ELSE 0
           m3 == [m2 EXCEPT !.orgFill = IF s.arg2 = NoArg THEN @ ELSE f.value % ByteLimit,
                            !.fatals = IF f.unknown THEN @ + 1 ELSE @]
<1>1. /\ v.value \in Int /\ v.unknown \in BOOLEAN /\ f.value \in Int
  BY ArgumentValues DEF WorkOK
<1>2. Good(m, m1)
  <2>1. Good(m, r)
    BY ReadTwiceGood
  <2> HIDE DEF r
  <2>2. Good(r, m1)
    BY <2>1, ErrorIfGood DEF Good
  <2>. QED
    BY <2>1, <2>2, GoodTrans
<1>3. OrgLine(m, s) = Label(m3, s.lab)
  BY DEF OrgLine
<1>11. m1.errs = 0 => v.value >= 0
  <2>1. r \in WorkType /\ r.errs \in Nat
    BY ReadTwiceGood DEF Good, WorkOK, WorkType
  <2> HIDE DEF r, v
  <2>. QED
    BY <1>1, <2>1 DEF ErrorIf, Error, WorkType
<1> HIDE DEF m1, v, f
<1>4. g \in SegmentType /\ g.made /\ g.bss = Current(m1).bss /\ g.org = v.value
  <2>1. Current(m1) \in SegmentType /\ Current(m1).made
    BY <1>2, CurrentSegment DEF Good
  <2>. QED
    BY <1>1, <2>1 DEF SegmentType
<1> HIDE DEF g
<1>5. Good(m, m2)
  <2>1. Good(m1, m2)
    BY <1>2, <1>4, <1>11, SegmentGood DEF Good
  <2>. QED
    BY <1>2, <2>1, GoodTrans
<1> HIDE DEF m2
<1>6. m2 \in WorkType /\ m2.orgFill \in 0..(ByteLimit - 1) /\ m2.fatals \in Nat
  BY <1>5 DEF Good, WorkOK, WorkType
<1>7. x \in 0..(ByteLimit - 1) /\ k \in {0, 1}
  <2>1. ByteLimit \in Nat \ {0}
    BY AssemblyAssumption
  <2>2. f.value % ByteLimit \in 0..(ByteLimit - 1)
    BY <1>1, <2>1
  <2>. QED
    BY <1>6, <2>2
<1>8. m3 = [m2 EXCEPT !.orgFill = x, !.fatals = @ + k]
  <2>1. (IF f.unknown THEN m2.fatals + 1 ELSE m2.fatals) = m2.fatals + k
    BY <1>6
  <2>2. m3 = [m2 EXCEPT !.orgFill = x, !.fatals = m2.fatals + k]
    <3> HIDE DEF k
    <3>. QED
      BY <1>6, <2>1 DEF WorkType
  <2>3. [m2 EXCEPT !.orgFill = x, !.fatals = @ + k]
          = [m2 EXCEPT !.orgFill = x, !.fatals = m2.fatals + k]
    <3> HIDE DEF k, x
    <3>. QED
      BY <1>6 DEF WorkType
  <2>. QED
    BY <2>2, <2>3
<1> HIDE DEF x, k, m3
<1>9. Good(m, m3)
  <2>1. Good(m2, m3)
    BY <1>5, <1>7, <1>8, FillGood DEF Good
  <2>. QED
    BY <1>5, <2>1, GoodTrans
<1>10. Good(m3, Label(m3, s.lab))
  BY <1>9, LabelGood DEF Good, Placed
<1>. QED
  BY <1>3, <1>9, <1>10, GoodTrans

LEMMA RorgGood ==
  ASSUME NEW m, WorkOK(m), NEW s \in Statement, Placed(s)
  PROVE  Good(m, RorgLine(m, s))
<1> DEFINE v == Value(m, s.arg)
           r == Read(m, s.arg)
           m1 == ErrorIf(v.value < 0, r)
           g == [Current(m1) EXCEPT !.rorging = TRUE]
           h == IF s.arg = NoArg THEN g
                ELSE [g EXCEPT !.rorg = v.value, !.runknown = v.unknown]
           m2 == WithSeg(m1, h)
<1>1. v.value \in Int /\ v.unknown \in BOOLEAN /\ s.arg \in Argument
  BY ArgumentValues DEF WorkOK
<1>2. Good(m, m1)
  <2>1. Good(m, r)
    BY <1>1, ReadGood
  <2> HIDE DEF r
  <2>2. Good(r, m1)
    BY <2>1, ErrorIfGood DEF Good
  <2>. QED
    BY <2>1, <2>2, GoodTrans
<1>3. RorgLine(m, s) = Label(m2, s.lab)
  BY DEF RorgLine
<1> HIDE DEF m1, v
<1>4. h \in SegmentType /\ h.made /\ h.bss = Current(m1).bss /\ h.org = Current(m1).org
  <2>1. Current(m1) \in SegmentType /\ Current(m1).made
    BY <1>2, CurrentSegment DEF Good
  <2>. QED
    BY <1>1, <2>1 DEF SegmentType
<1> HIDE DEF h
<1>5. Good(m, m2)
  <2>1. Good(m1, m2)
    BY <1>2, <1>4, CurrentSegment, SegmentGood DEF Good
  <2>. QED
    BY <1>2, <2>1, GoodTrans
<1> HIDE DEF m2
<1>6. Good(m2, Label(m2, s.lab))
  BY <1>5, LabelGood DEF Good, Placed
<1>. QED
  BY <1>3, <1>5, <1>6, GoodTrans

LEMMA RendGood ==
  ASSUME NEW m, WorkOK(m), NEW s, Placed(s)
  PROVE  Good(m, RendLine(m, s))
<1> DEFINE m1 == Label(m, s.lab)
           g == [Current(m1) EXCEPT !.rorging = FALSE]
<1>1. Good(m, m1)
  BY LabelGood DEF Placed
<1>2. RendLine(m, s) = WithSeg(m1, g)
  BY DEF RendLine
<1> HIDE DEF m1
<1>3. g \in SegmentType /\ g.made /\ g.bss = Current(m1).bss /\ g.org = Current(m1).org
  <2>1. Current(m1) \in SegmentType /\ Current(m1).made
    BY <1>1, CurrentSegment DEF Good
  <2>. QED
    BY <2>1 DEF SegmentType
<1>4. Good(m1, WithSeg(m1, g))
  BY <1>1, <1>3, CurrentSegment, SegmentGood DEF Good
<1>. QED
  BY <1>1, <1>2, <1>4, GoodTrans

(* v_seg never leaves a segment that does not exist current.               *)
LEMMA SegGood ==
  ASSUME NEW m, WorkOK(m), NEW s \in Statement, Placed(s)
  PROVE  Good(m, SegLine(m, s))
<1> DEFINE new == [NoSegment EXCEPT !.made = TRUE, !.bss = (s.op = "seg.u")]
           t == IF m.segs[s.seg].made THEN m.segs ELSE [m.segs EXCEPT ![s.seg] = new]
           w == [m EXCEPT !.segs = t, !.cseg = s.seg]
<1>1. m \in WorkType /\ m.segs \in [Segments -> SegmentType] /\ s.seg \in Segments
  BY DEF WorkOK, WorkType, Statement
<1>2. new \in SegmentType /\ new.made /\ new.org = 0
  <2> DEFINE u == (s.op = "seg.u")
  <2>1. u \in BOOLEAN
    OBVIOUS
  <2>2. new = [NoSegment EXCEPT !.made = TRUE, !.bss = u]
    OBVIOUS
  <2> HIDE DEF u, new
  <2>3. NoSegment \in SegmentType /\ NoSegment.org = 0
    BY DEF NoSegment, SegmentType
  <2>. QED
    BY <2>1, <2>2, <2>3 DEF SegmentType
<1>3. SegLine(m, s) = Label(w, s.lab)
  <2>1. [(IF m.segs[s.seg].made THEN m ELSE [m EXCEPT !.segs[s.seg] = new])
           EXCEPT !.cseg = s.seg] = w
    BY <1>1 DEF WorkType
  <2>. QED
    BY <2>1 DEF SegLine
<1> HIDE DEF new
<1>4. /\ t \in [Segments -> SegmentType] /\ t[s.seg].made
      /\ m.errs = 0 => \A g \in Segments : t[g].org >= 0
      /\ \A g \in Segments : (m.segs[g].bss => t[g].bss) /\ (t[g].bss => t[g].made)
  BY <1>1, <1>2 DEF WorkOK, Ordered, Sound
<1> HIDE DEF t
<1>5. w \in WorkType
  BY <1>1, <1>4 DEF WorkType
<1>6. Accrues(m, w) /\ Keeps(m, w) /\ Spares(m, w) /\ w.out = m.out
  <2>1. Accrues(m, w) /\ w.syms = m.syms /\ w.segs = t /\ w.out = m.out
    BY <1>1 DEF WorkType, Accrues
  <2>. QED
    BY <1>4, <2>1 DEF Keeps, Kept, Spares
<1>7. Sound(w)
  BY <1>1, <1>4 DEF WorkOK, WorkType, Sound
<1>10. Ordered(w)
  <2>1. w.segs = t /\ w.out = m.out /\ w.clear = m.clear /\ w.forg = m.forg /\ w.errs = m.errs
    BY <1>1 DEF WorkType
  <2> HIDE DEF w
  <2>. QED
    BY <1>4, <2>1 DEF WorkOK, Ordered, InOrder
<1>8. Good(m, w)
  BY <1>5, <1>6, <1>7, <1>10, QuietGood
<1> HIDE DEF w
<1>9. Good(w, Label(w, s.lab))
  BY <1>8, LabelGood DEF Good, Placed
<1>. QED
  BY <1>3, <1>8, <1>9, GoodTrans

-----------------------------------------------------------------------------
(* What an operand says of the block that holds it.                        *)
LEMMA ReadSymbols ==
  ASSUME NEW m, m \in WorkType, NEW e, NEW x \in Names
  PROVE  /\ Read(m, e).syms[x].value = m.syms[x].value
         /\ Read(m, e).syms[x].unknown = m.syms[x].unknown
         /\ m.syms[x].ref => Read(m, e).syms[x].ref
         /\ x = e.sym => Read(m, e).syms[x].ref
<1>1. m.syms \in [Names -> SymbolType] /\ m.syms[x] \in SymbolType
  BY DEF WorkType
<1>2. CASE e.sym \in Names
  <2>1. Read(m, e).syms = [m.syms EXCEPT ![e.sym].ref = TRUE]
    BY <1>2 DEF Read, WorkType
  <2>. QED
    BY <1>1, <1>2, <2>1 DEF SymbolType
<1>3. CASE e.sym \notin Names
  <2>1. Read(m, e).syms = m.syms
    BY <1>3 DEF Read, WorkType
  <2>. QED
    BY <1>3, <2>1
<1>. QED
  BY <1>2, <1>3

LEMMA OperandFirm ==
  ASSUME NEW m, m \in WorkType, NEW e \in Argument, ~Value(m, e).unknown,
         NEW u, \A x \in Names : u[x].value = m.syms[x].value
                                 /\ u[x].unknown = m.syms[x].unknown,
         e.sym \in Names => u[e.sym].ref,
         NEW b, b.pc = Pc(m).value
  PROVE  Backs(u, e) /\ Resolved(u, e) /\ Operand(u, b, e) = Value(m, e).value
<1>1. e.sym \in {"none", "absent"} \/ e.sym = "." \/ e.sym \in Names
  BY DEF Argument
<1>2. e.sym \in Names => e.sym \notin {"none", "absent", "."}
  BY AssemblyAssumption
<1>. QED
  BY <1>1, <1>2 DEF Backs, Firm, Resolved, Operand, Value

LEMMA SamePc ==
  ASSUME NEW m, NEW n, n.segs = m.segs, n.cseg = m.cseg
  PROVE  Pc(n) = Pc(m) /\ Current(n) = Current(m)
BY DEF Pc, Current

(* One operand, read after the label: DC, an instruction, a branch.        *)
LEMMA OneOperand ==
  ASSUME NEW m, m \in WorkType, NEW e \in Argument, NEW n,
         n.syms = Read(m, e).syms, n.segs = m.segs, n.cseg = m.cseg,
         ~Value(m, e).unknown, NEW line, NEW val, NEW len
  PROVE  LET b == BlockOf(n, line, val, len)
         IN  /\ Backs(n.syms, e) /\ Resolved(n.syms, e)
             /\ Operand(n.syms, b, e) = Value(m, e).value
             /\ b.line = line /\ b.val = val /\ b.len = len
             /\ b.pc = Pc(m).value /\ b.known = ~Pc(m).unknown
<1> DEFINE b == BlockOf(n, line, val, len)
<1>1. /\ b.line = line /\ b.val = val /\ b.len = len
      /\ b.pc = Pc(m).value /\ b.known = ~Pc(m).unknown
  BY SamePc DEF BlockOf
<1> HIDE DEF b
<1>2. /\ \A x \in Names : n.syms[x].value = m.syms[x].value
                          /\ n.syms[x].unknown = m.syms[x].unknown
      /\ e.sym \in Names => n.syms[e.sym].ref
  BY ReadSymbols
<1>3. Backs(n.syms, e) /\ Resolved(n.syms, e)
      /\ Operand(n.syms, b, e) = Value(m, e).value
  BY <1>1, <1>2, OperandFirm
<1>. QED
  BY <1>1, <1>3 DEF b

(* Two operands, read one after the other: DS and ALIGN.                   *)
LEMMA TwoOperands ==
  ASSUME NEW m, m \in WorkType, NEW s \in Statement, NEW n,
         n.syms = Read(Read(m, s.arg), s.arg2).syms, n.segs = m.segs, n.cseg = m.cseg,
         Read(m, s.arg) \in WorkType,
         ~Value(m, s.arg).unknown, ~Value(m, s.arg2).unknown,
         NEW line, NEW val, NEW len
  PROVE  LET b == BlockOf(n, line, val, len)
         IN  /\ Backs(n.syms, s.arg) /\ Resolved(n.syms, s.arg)
             /\ Backs(n.syms, s.arg2) /\ Resolved(n.syms, s.arg2)
             /\ Operand(n.syms, b, s.arg) = Value(m, s.arg).value
             /\ Operand(n.syms, b, s.arg2) = Value(m, s.arg2).value
             /\ b.line = line /\ b.val = val /\ b.len = len /\ b.pc = Pc(m).value
<1> DEFINE b == BlockOf(n, line, val, len)
           r == Read(m, s.arg)
<1>1. b.line = line /\ b.val = val /\ b.len = len /\ b.pc = Pc(m).value
  BY SamePc DEF BlockOf
<1> HIDE DEF b
<1>2. s.arg \in Argument /\ s.arg2 \in Argument
  BY DEF Statement
<1>3. ASSUME NEW x \in Names
      PROVE  /\ n.syms[x].value = m.syms[x].value /\ n.syms[x].unknown = m.syms[x].unknown
             /\ x \in {s.arg.sym, s.arg2.sym} => n.syms[x].ref
  <2>1. /\ r.syms[x].value = m.syms[x].value /\ r.syms[x].unknown = m.syms[x].unknown
        /\ x = s.arg.sym => r.syms[x].ref
    BY ReadSymbols
  <2> HIDE DEF r
  <2>2. /\ Read(r, s.arg2).syms[x].value = r.syms[x].value
        /\ Read(r, s.arg2).syms[x].unknown = r.syms[x].unknown
        /\ r.syms[x].ref => Read(r, s.arg2).syms[x].ref
        /\ x = s.arg2.sym => Read(r, s.arg2).syms[x].ref
    BY ReadSymbols DEF r
  <2>. QED
    BY <2>1, <2>2 DEF r
<1>6. /\ s.arg.sym \in Names => n.syms[s.arg.sym].ref
      /\ s.arg2.sym \in Names => n.syms[s.arg2.sym].ref
      /\ \A x \in Names : n.syms[x].value = m.syms[x].value
                          /\ n.syms[x].unknown = m.syms[x].unknown
  BY <1>3
<1>4. /\ Backs(n.syms, s.arg) /\ Resolved(n.syms, s.arg)
      /\ Operand(n.syms, b, s.arg) = Value(m, s.arg).value
  <2> DEFINE e == s.arg
  <2>1. e \in Argument /\ ~Value(m, e).unknown /\ (e.sym \in Names => n.syms[e.sym].ref)
    BY <1>2, <1>6
  <2> HIDE DEF e
  <2>2. Backs(n.syms, e) /\ Resolved(n.syms, e) /\ Operand(n.syms, b, e) = Value(m, e).value
    BY <1>1, <1>6, <2>1, OperandFirm
  <2>. QED
    BY <2>2 DEF e
<1>5. /\ Backs(n.syms, s.arg2) /\ Resolved(n.syms, s.arg2)
      /\ Operand(n.syms, b, s.arg2) = Value(m, s.arg2).value
  <2> DEFINE e == s.arg2
  <2>1. e \in Argument /\ ~Value(m, e).unknown /\ (e.sym \in Names => n.syms[e.sym].ref)
    BY <1>2, <1>6
  <2> HIDE DEF e
  <2>2. Backs(n.syms, e) /\ Resolved(n.syms, e) /\ Operand(n.syms, b, e) = Value(m, e).value
    BY <1>1, <1>6, <2>1, OperandFirm
  <2>. QED
    BY <2>2 DEF e
<1>. QED
  BY <1>1, <1>4, <1>5 DEF b

LEMMA NoOperand == ASSUME NEW t PROVE Backs(t, NoArg) /\ Resolved(t, NoArg)
BY AssemblyAssumption DEF Backs, Resolved, NoArg, Plus

-----------------------------------------------------------------------------
(* The lines that generate.                                                *)
LEMMA DcGood ==
  ASSUME NEW m, WorkOK(m), NEW s \in Statement, Placed(s), ip \in Int,
         s = prog[ip], s.op = "dc", s.arg2 = NoArg
  PROVE  Good(m, DcLine(m, s))
<1> DEFINE m1 == Label(m, s.lab)
           v == Value(m1, s.arg)
           r == Read(m1, s.arg)
           n == NeedIf(v.unknown, r, "dc")
<1>1. Good(m, m1)
  BY LabelGood DEF Placed
<1>2. DcLine(m, s) = Generate(n, ip, v.value, 1)
  BY DEF DcLine
<1> HIDE DEF m1
<1>3. v.value \in Int /\ s.arg \in Argument
  BY <1>1, ArgumentValues DEF Good, WorkOK
<1>4. Good(m1, r)
  BY <1>1, <1>3, ReadGood DEF Good
<1>7. n.redo = 0 => Supported(n.syms, BlockOf(n, ip, v.value, 1))
  <2> DEFINE b == BlockOf(n, ip, v.value, 1)
  <2> SUFFICES ASSUME n.redo = 0 PROVE Supported(n.syms, b)
    OBVIOUS
  <2>1. m1 \in WorkType /\ r \in WorkType
    BY <1>1, <1>4 DEF Good, WorkOK
  <2>2. ~v.unknown /\ n.syms = r.syms /\ n.segs = m1.segs /\ n.cseg = m1.cseg
    BY <2>1, NeedFields, ReadKeeps
  <2>3. /\ Backs(n.syms, s.arg) /\ Resolved(n.syms, s.arg)
        /\ Operand(n.syms, b, s.arg) = v.value
        /\ b.line = ip /\ b.val = v.value
    BY <1>3, <2>1, <2>2, OneOperand
  <2> HIDE DEF b, v, n
  <2>. QED
    BY <2>3, NoOperand DEF Supported, BlockFinal
<1> HIDE DEF v, r
<1>5. Good(r, n)
  BY <1>4, NeedIfGood DEF Good, WhyNeeded
<1> HIDE DEF n
<1>6. Good(n, Generate(n, ip, v.value, 1))
  BY <1>3, <1>5, <1>7, GenerateGood DEF Good
<1>. QED
  BY <1>1, <1>2, <1>4, <1>5, <1>6, GoodTrans DEF Good

LEMMA DsGood ==
  ASSUME NEW m, WorkOK(m), NEW s \in Statement, Placed(s), ip \in Int,
         s = prog[ip], s.op = "ds"
  PROVE  Good(m, DsLine(m, s))
<1> DEFINE m1 == Label(m, s.lab)
           v == Value(m1, s.arg)
           f == Value(m1, s.arg2)
           m2 == Read(Read(m1, s.arg), s.arg2)
           m3 == NeedIf(f.unknown, m2, "ds")
<1>1. Good(m, m1)
  BY LabelGood DEF Placed
<1>2. DsLine(m, s) = IF v.unknown THEN Need(m2, "ds")
                     ELSE IF v.value < 0 THEN Error(m3) ELSE GenFill(m3, ip, f.value, v.value)
  BY DEF DsLine
<1> HIDE DEF m1
<1>3. v.value \in Int /\ f.value \in Int
  BY <1>1, ArgumentValues DEF Good, WorkOK
<1>4. Good(m, m2)
  BY <1>1, ReadTwiceGood, GoodTrans DEF Good
<1>9. m3.redo = 0 /\ ~v.unknown => Supported(m3.syms, BlockOf(m3, ip, f.value, v.value))
  <2> DEFINE b == BlockOf(m3, ip, f.value, v.value)
  <2> SUFFICES ASSUME m3.redo = 0, ~v.unknown PROVE Supported(m3.syms, b)
    OBVIOUS
  <2>1. m1 \in WorkType /\ Read(m1, s.arg) \in WorkType /\ m2 \in WorkType
    BY <1>1, <1>4, ReadGood DEF Good, WorkOK, Statement
  <2>2. ~f.unknown /\ m3.syms = m2.syms /\ m3.segs = m1.segs /\ m3.cseg = m1.cseg
    BY <2>1, NeedFields, ReadKeeps
  <2>3. /\ Backs(m3.syms, s.arg) /\ Resolved(m3.syms, s.arg)
        /\ Backs(m3.syms, s.arg2) /\ Resolved(m3.syms, s.arg2)
        /\ Operand(m3.syms, b, s.arg) = v.value
        /\ Operand(m3.syms, b, s.arg2) = f.value
        /\ b.line = ip /\ b.val = f.value /\ b.len = v.value
    BY <2>1, <2>2, TwoOperands
  <2> HIDE DEF b, v, f, m3
  <2>. QED
    BY <2>3 DEF Supported, BlockFinal
<1> HIDE DEF v, f, m2
<1>5. Good(m2, m3) /\ Good(m2, Need(m2, "ds"))
  BY <1>4, NeedIfGood, NeedGood DEF Good, WhyNeeded
<1>6. Good(m, m3) /\ Good(m, Need(m2, "ds"))
  BY <1>4, <1>5, GoodTrans
<1> HIDE DEF m3
<1>7. Good(m3, Error(m3))
  BY <1>6, ErrorGood DEF Good
<1>8. ASSUME ~v.unknown, ~(v.value < 0) PROVE Good(m3, GenFill(m3, ip, f.value, v.value))
  <2>1. v.value \in Nat
    BY <1>3, <1>8
  <2>. QED
    BY <1>3, <1>6, <1>8, <1>9, <2>1, GenFillGood DEF Good
<1>. QED
  BY <1>2, <1>6, <1>7, <1>8, GoodTrans

(* The padding of ALIGN is a length, for an origin below zero too.         *)
LEMMA AlignPadType ==
  ASSUME NEW pc \in Int, NEW n \in Nat \ {0}
  PROVE  /\ AlignPad(pc, n) \in Nat /\ AlignPad(pc, n) < n
         /\ (Unsigned(pc) + AlignPad(pc, n)) % n = 0
<1>1. Unsigned(pc) \in Int
  BY AssemblyAssumption DEF Unsigned
<1>2. Unsigned(pc) % n \in 0..(n - 1)
  BY <1>1
<1> DEFINE u == Unsigned(pc)
           r == u % n
           q == u \div n
           pad == AlignPad(pc, n)
<1>3. /\ u \in Int /\ q \in Int /\ r \in 0..(n - 1) /\ u = n * q + r
      /\ pad = IF n - r = n THEN 0 ELSE n - r
  BY <1>1, <1>2 DEF AlignPad
<1> HIDE DEF q, r, u, pad
<1>4. pad \in Nat /\ pad < n
  BY <1>3
<1>5. (u + pad) % n = 0
  <2>1. CASE r = 0
    BY <1>3, <2>1 DEF r
  <2>2. CASE r # 0
    <3>1. u + pad = n * q + n
      BY <1>3, <2>2
    <3>2. n * q + n = n * (q + 1) /\ q + 1 \in Int
      BY <1>3
    <3>3. (n * (q + 1)) % n = 0
      BY <3>2
    <3>. QED
      BY <3>1, <3>2, <3>3
  <2>. QED
    BY <2>1, <2>2
<1>. QED
  BY <1>4, <1>5 DEF u, pad

LEMMA AlignGood ==
  ASSUME NEW m, WorkOK(m), NEW s \in Statement, Placed(s), ip \in Int,
         s = prog[ip], s.op = "align",
         s.arg.sym = "none", s.arg.add > 0
  PROVE  Good(m, AlignLine(m, s))
<1> DEFINE pc == Pc(m)
           v == Value(m, s.arg)
           f == Value(m, s.arg2)
           m0 == Read(Read(m, s.arg), s.arg2)
           m1 == NeedIf(f.unknown, m0, "align")
           fill == IF f.unknown THEN 0 ELSE f.value
           reason == IF Current(m).rorging THEN "alignrorg" ELSE "alignorg"
           m2 == IF pc.unknown \/ v.unknown THEN Need(m1, reason)
                 ELSE GenFill(m1, ip, fill, AlignPad(pc.value, v.value))
<1>1. AlignLine(m, s) = Label(m2, s.lab)
  BY DEF AlignLine
<1>2. pc.value \in Int /\ fill \in Int /\ v.value \in Nat \ {0}
  <2>1. m \in WorkType /\ f.value \in Int /\ s.arg.add \in Int
    BY ArgumentValues DEF WorkOK, Argument
  <2>2. pc.value \in Int
    BY <2>1, PcType DEF PcRecord
  <2>3. v.value = s.arg.add
    BY DEF Value
  <2>. QED
    BY <2>1, <2>2, <2>3
<1>3. Good(m, m0)
  BY ReadTwiceGood
<1>10. m1.redo = 0 /\ ~pc.unknown =>
         LET k == AlignPad(pc.value, v.value)
         IN  Supported(m1.syms, BlockOf(m1, ip, fill, k))
  <2> DEFINE k == AlignPad(pc.value, v.value)
             b == BlockOf(m1, ip, fill, k)
  <2> SUFFICES ASSUME m1.redo = 0, ~pc.unknown PROVE Supported(m1.syms, b)
    OBVIOUS
  <2>1. m \in WorkType /\ Read(m, s.arg) \in WorkType /\ m0 \in WorkType
    BY <1>3, ReadGood DEF Good, WorkOK, Statement
  <2>2. ~f.unknown /\ m1.syms = m0.syms /\ m1.segs = m.segs /\ m1.cseg = m.cseg
    BY <2>1, NeedFields, ReadKeeps
  <2>3. ~v.unknown /\ fill = f.value
    BY <2>2 DEF Value
  <2>4. /\ Backs(m1.syms, s.arg) /\ Resolved(m1.syms, s.arg)
        /\ Backs(m1.syms, s.arg2) /\ Resolved(m1.syms, s.arg2)
        /\ Operand(m1.syms, b, s.arg) = v.value
        /\ Operand(m1.syms, b, s.arg2) = f.value
        /\ b.line = ip /\ b.val = fill /\ b.len = k /\ b.pc = pc.value
    BY <2>1, <2>2, <2>3, TwoOperands
  <2>5. k < v.value /\ (Unsigned(pc.value) + k) % v.value = 0
    BY <1>2, AlignPadType
  <2> HIDE DEF b, k, v, f, m1, pc, fill
  <2>. QED
    BY <2>3, <2>4, <2>5 DEF Supported, BlockFinal
<1>4. reason \in WhyNeeded \ {"if"}
  BY DEF WhyNeeded
<1> HIDE DEF m0, f, fill, reason, pc, v
<1>5. Good(m0, m1)
  BY <1>3, NeedIfGood DEF Good, WhyNeeded
<1>6. Good(m, m1)
  BY <1>3, <1>5, GoodTrans
<1> HIDE DEF m1
<1>7. Good(m1, m2)
  <2> DEFINE k == AlignPad(pc.value, v.value)
  <2>1. k \in Nat
    BY <1>2, AlignPadType
  <2>2. ASSUME ~pc.unknown PROVE Good(m1, GenFill(m1, ip, fill, k))
    <3> HIDE DEF k
    <3>. QED
      BY <1>2, <1>6, <1>10, <2>1, <2>2, GenFillGood DEF Good, k
  <2>3. Good(m1, Need(m1, reason))
    BY <1>4, <1>6, NeedGood DEF Good
  <2>. QED
    BY <2>2, <2>3
<1>8. Good(m, m2)
  BY <1>6, <1>7, GoodTrans
<1> HIDE DEF m2
<1>9. Good(m2, Label(m2, s.lab))
  BY <1>8, LabelGood DEF Good, Placed
<1>. QED
  BY <1>1, <1>8, <1>9, GoodTrans

LEMMA InsGood ==
  ASSUME NEW m, WorkOK(m), NEW s \in Statement, Placed(s), ip \in Int,
         s = prog[ip], s.op = "ins", s.arg2 = NoArg
  PROVE  Good(m, InsLine(m, s))
<1> DEFINE m1 == Label(m, s.lab)
           v == Value(m1, s.arg)
           r == Read(m1, s.arg)
           n == NeedIf(v.unknown, r, "mnemonic")
<1>1. Good(m, m1)
  BY LabelGood DEF Placed
<1>2. InsLine(m, s) = Generate(n, ip, v.value, InsLen(v))
  BY DEF InsLine
<1> HIDE DEF m1
<1>3. v.value \in Int /\ s.arg \in Argument
  BY <1>1, ArgumentValues DEF Good, WorkOK
<1>4. Good(m1, r)
  BY <1>1, <1>3, ReadGood DEF Good
<1>7. n.redo = 0 => Supported(n.syms, BlockOf(n, ip, v.value, InsLen(v)))
  <2> DEFINE b == BlockOf(n, ip, v.value, InsLen(v))
  <2> SUFFICES ASSUME n.redo = 0 PROVE Supported(n.syms, b)
    OBVIOUS
  <2>1. m1 \in WorkType /\ r \in WorkType
    BY <1>1, <1>4 DEF Good, WorkOK
  <2>2. ~v.unknown /\ n.syms = r.syms /\ n.segs = m1.segs /\ n.cseg = m1.cseg
    BY <2>1, NeedFields, ReadKeeps
  <2>3. /\ Backs(n.syms, s.arg) /\ Resolved(n.syms, s.arg)
        /\ Operand(n.syms, b, s.arg) = v.value
        /\ b.line = ip /\ b.val = v.value /\ b.len = InsLen(v)
    BY <1>3, <2>1, <2>2, OneOperand
  <2>4. InsLen(v) = InsLen([value |-> v.value, unknown |-> FALSE])
    BY <2>2 DEF InsLen
  <2> HIDE DEF b, v, n
  <2>. QED
    BY <2>3, <2>4, NoOperand DEF Supported, BlockFinal
<1> HIDE DEF v, r
<1>5. Good(r, n) /\ InsLen(v) \in Nat
  BY <1>4, NeedIfGood DEF Good, WhyNeeded, InsLen
<1> HIDE DEF n
<1>6. Good(n, Generate(n, ip, v.value, InsLen(v)))
  BY <1>3, <1>5, <1>7, GenerateGood DEF Good
<1>. QED
  BY <1>1, <1>2, <1>4, <1>5, <1>6, GoodTrans DEF Good

LEMMA BranchGood ==
  ASSUME NEW m, WorkOK(m), NEW s \in Statement, Placed(s), ip \in Int,
         s = prog[ip], s.op = "branch", s.arg2 = NoArg
  PROVE  Good(m, BranchLine(m, s))
<1> DEFINE m1 == Label(m, s.lab)
           v == Value(m1, s.arg)
           pc == Pc(m1)
           r == Read(m1, s.arg)
           m2 == NeedIf(v.unknown, r, "mnemonic")
           d == IF v.unknown \/ pc.unknown THEN 0 ELSE Distance(v.value, pc.value)
           m3 == ErrorIf(d >= 128 \/ d < -128, m2)
<1>1. Good(m, m1)
  BY LabelGood DEF Placed
<1>2. BranchLine(m, s) = Generate(m3, ip, d, 2)
  BY DEF BranchLine
<1> HIDE DEF m1
<1>3. v.value \in Int /\ s.arg \in Argument /\ pc.value \in Int
  BY <1>1, ArgumentValues, PcType DEF Good, WorkOK, PcRecord
<1>4. Good(m1, r)
  BY <1>1, <1>3, ReadGood DEF Good
<1>8. m3.redo = 0 => Supported(m3.syms, BlockOf(m3, ip, d, 2))
  <2> DEFINE b == BlockOf(m3, ip, d, 2)
  <2> SUFFICES ASSUME m3.redo = 0 PROVE Supported(m3.syms, b)
    OBVIOUS
  <2>1. m1 \in WorkType /\ r \in WorkType /\ m2 \in WorkType
    BY <1>1, <1>4, NeedIfGood DEF Good, WorkOK, WhyNeeded
  <2>2. m3.redo = m2.redo /\ m3.syms = m2.syms /\ m3.segs = m2.segs /\ m3.cseg = m2.cseg
    <3> HIDE DEF m2, d
    <3>. QED
      BY <2>1 DEF ErrorIf, Error, WorkType
  <2>3. ~v.unknown /\ m3.syms = r.syms /\ m3.segs = m1.segs /\ m3.cseg = m1.cseg
    BY <2>1, <2>2, NeedFields, ReadKeeps
  <2>4. /\ Backs(m3.syms, s.arg) /\ Resolved(m3.syms, s.arg)
        /\ Operand(m3.syms, b, s.arg) = v.value
        /\ b.line = ip /\ b.val = d /\ b.pc = pc.value /\ b.known = ~pc.unknown
    BY <1>3, <2>1, <2>3, OneOperand
  <2>5. d = IF b.known THEN Distance(v.value, b.pc) ELSE 0
    BY <2>3, <2>4
  <2> HIDE DEF b, v, m3, d
  <2>. QED
    BY <2>4, <2>5, NoOperand DEF Supported, BlockFinal
<1> HIDE DEF v, r, pc
<1>5. Good(r, m2) /\ d \in Int
  BY <1>3, <1>4, NeedIfGood DEF Good, WhyNeeded, Distance
<1> HIDE DEF m2, d
<1>6. Good(m2, m3)
  BY <1>5, ErrorIfGood DEF Good
<1> HIDE DEF m3
<1>7. Good(m3, Generate(m3, ip, d, 2))
  BY <1>5, <1>6, <1>8, GenerateGood DEF Good
<1>. QED
  BY <1>1, <1>2, <1>4, <1>5, <1>6, <1>7, GoodTrans DEF Good

-----------------------------------------------------------------------------
(* The lines that define a symbol without the pc.                          *)
LEMMA EquNeedsGood ==
  ASSUME NEW m, WorkOK(m), NEW l, NEW v
  PROVE  Good(m, EquNeeds(m, l, v))
<1>1. "equ" \in WhyNeeded \ {"if"} /\ "equmismatch" \in WhyNeeded \ {"if"}
  BY DEF WhyNeeded
<1>2. Good(m, Need(m, "equ")) /\ Good(m, Error(m))
  BY <1>1, NeedGood, ErrorGood
<1>3. Good(Error(m), Need(Error(m), "equmismatch"))
  BY <1>1, <1>2, NeedGood DEF Good
<1>. QED
  BY <1>2, <1>3, GoodTrans, GoodSelf DEF EquNeeds

LEMMA EquQuiet ==
  ASSUME NEW m, WorkOK(m), NEW l, NEW v
  PROVE  /\ EquNeeds(m, l, v).syms = m.syms
         /\ EquNeeds(m, l, v).redo = 0 => l.unknown \/ (~v.unknown /\ l.value = v.value)
<1>1. m \in WorkType /\ Error(m) \in WorkType /\ Error(m).syms = m.syms
  <2>1. m \in WorkType /\ Error(m) \in WorkType
    BY ErrorGood DEF Good, WorkOK
  <2>. QED
    BY <2>1 DEF Error, WorkType
<1>2. /\ Need(m, "equ").redo # 0 /\ Need(m, "equ").syms = m.syms
      /\ Need(Error(m), "equmismatch").redo # 0
      /\ Need(Error(m), "equmismatch").syms = m.syms
  BY <1>1, NeedFields
<1>. QED
  BY <1>2 DEF EquNeeds

LEMMA EquGood ==
  ASSUME NEW m, WorkOK(m), NEW s \in Statement, s.lab = prog[ip].lab, s.lab \in EquNames,
         s.lab \in Names \cup {"."}
  PROVE  Good(m, EquLine(m, s))
<1> DEFINE v == Value(m, s.arg)
           m1 == Read(m, s.arg)
           m2 == EquNeeds(m1, m1.syms[s.lab], v)
           e == [value |-> v.value, unknown |-> v.unknown, ref |-> FALSE]
           w == [m2 EXCEPT !.syms[s.lab] = e]
<1>1. v.value \in Int /\ v.unknown \in BOOLEAN /\ s.arg \in Argument
  BY ArgumentValues DEF WorkOK
<1>2. EquLine(m, s) = IF s.lab = "." THEN IF Current(m).rorging THEN RorgLine(m1, s)
                                          ELSE OrgLine(m1, s)
                      ELSE w
  BY DEF EquLine
<1>3. Good(m, m1)
  BY <1>1, ReadGood
<1> HIDE DEF v, m1
<1>4. Good(m1, m2)
  BY <1>3, EquNeedsGood DEF Good
<1>5. Good(m, m2)
  BY <1>3, <1>4, GoodTrans
<1>6. e \in SymbolType
  BY <1>1 DEF SymbolType
<1>9. ASSUME s.lab # "." PROVE m2.redo = 0 => Kept(m2.syms, [m2.syms EXCEPT ![s.lab] = e])
  <2>1. m2.syms \in [Names -> SymbolType]
    <3> HIDE DEF m2
    <3>. QED
      BY <1>5 DEF Good, WorkOK, WorkType
  <2>2. /\ m2.syms = m1.syms
        /\ m2.redo = 0 => m1.syms[s.lab].unknown \/ (~v.unknown /\ m1.syms[s.lab].value = v.value)
    BY <1>3, EquQuiet DEF Good
  <2>3. e.unknown = v.unknown /\ e.value = v.value
    OBVIOUS
  <2> HIDE DEF e, m2
  <2>. QED
    BY <1>9, <2>1, <2>2, <2>3, EntryKept DEF Steady, Firm
<1> HIDE DEF m2, e
<1>7. ASSUME s.lab # "." PROVE Good(m2, w)
  BY <1>5, <1>6, <1>7, <1>9, SymbolGood DEF Good
<1>8. ASSUME s.lab = "." PROVE Good(m1, RorgLine(m1, s)) /\ Good(m1, OrgLine(m1, s))
  <2>1. Placed(s)
    BY <1>8, AssemblyAssumption DEF Placed
  <2>. QED
    BY <1>3, <2>1, RorgGood, OrgGood DEF Good
<1>. QED
  BY <1>2, <1>3, <1>5, <1>7, <1>8, GoodTrans

LEMMA SetGood ==
  ASSUME NEW m, WorkOK(m), NEW s \in Statement, s.lab \in Names,
         s.lab = prog[ip].lab, s.lab \in SetNames
  PROVE  Good(m, SetLine(m, s))
<1> DEFINE v == Value(m, s.arg)
           e == [value |-> v.value, unknown |-> v.unknown, ref |-> FALSE]
           r == Read(m, s.arg)
<1>1. v.value \in Int /\ v.unknown \in BOOLEAN /\ s.arg \in Argument
  BY ArgumentValues DEF WorkOK
<1>2. SetLine(m, s) = [r EXCEPT !.syms[s.lab] = e]
  BY DEF SetLine
<1>3. Good(m, r)
  BY <1>1, ReadGood
<1>4. e \in SymbolType
  BY <1>1 DEF SymbolType
<1> HIDE DEF r, e
<1>6. Kept(r.syms, [r.syms EXCEPT ![s.lab] = e])
  <2>1. r.syms \in [Names -> SymbolType]
    BY <1>3 DEF Good, WorkOK, WorkType
  <2>. QED
    BY <2>1, EntryKept DEF Steady
<1>5. Good(r, [r EXCEPT !.syms[s.lab] = e])
  BY <1>3, <1>4, <1>6, SymbolGood DEF Good
<1>. QED
  BY <1>2, <1>3, <1>5, GoodTrans

-----------------------------------------------------------------------------
(* The lines that leave the file or the program.                           *)
LEMMA JumpGood ==
  ASSUME NEW m, WorkOK(m), NEW n \in 1..(Len(prog) + 1)
  PROVE  Good(m, [m EXCEPT !.next = n])
<1> DEFINE w == [m EXCEPT !.next = n]
<1>1. m \in WorkType
  BY DEF WorkOK
<1>2. w \in WorkType
  BY <1>1 DEF WorkType
<1>3. Accrues(m, w) /\ Untouched(m, w) /\ Sound(w)
  BY <1>1 DEF WorkOK, WorkType, Accrues, Sound, Untouched
<1>. QED
  BY <1>2, <1>3, SameGood

LEMMA ErrGood ==
  ASSUME NEW m, WorkOK(m), NEW s, Placed(s)
  PROVE  Good(m, ErrLine(m, s))
<1> DEFINE r == Label(m, s.lab)
           w == [r EXCEPT !.fatals = @ + 1, !.dead = TRUE]
<1>1. Good(m, r)
  BY LabelGood DEF Placed
<1>2. ErrLine(m, s) = w
  BY DEF ErrLine
<1> HIDE DEF r
<1>3. r \in WorkType /\ r.fatals \in Nat /\ r.fatals + 1 \in Nat
  <2>1. r \in WorkType
    BY <1>1 DEF Good, WorkOK
  <2>2. r.fatals \in Nat
    BY <2>1 DEF WorkType
  <2>. QED
    BY <2>1, <2>2
<1>4. w \in WorkType
  BY <1>3 DEF WorkType
<1>5. Accrues(r, w) /\ Untouched(r, w)
  BY <1>3 DEF WorkType, Accrues, Untouched
<1>6. Sound(w)
  BY <1>1, <1>3 DEF Good, WorkOK, WorkType, Sound
<1>7. Good(r, w)
  BY <1>1, <1>4, <1>5, <1>6, SameGood DEF Good
<1>. QED
  BY <1>1, <1>2, <1>7, GoodTrans

-----------------------------------------------------------------------------
(* Conditionals and loops.                                                 *)
LEMMA IfsGood ==
  ASSUME NEW m, WorkOK(m), NEW t \in Seq(Condition), t # <<>>, t[Len(t)] = Base
  PROVE  Good(m, [m EXCEPT !.ifs = t])
<1> DEFINE w == [m EXCEPT !.ifs = t]
<1>1. m \in WorkType
  BY DEF WorkOK
<1>2. w \in WorkType
  BY <1>1 DEF WorkType
<1>3. Accrues(m, w) /\ Untouched(m, w) /\ Sound(w)
  BY <1>1 DEF WorkOK, WorkType, Accrues, Sound, Untouched
<1>. QED
  BY <1>2, <1>3, SameGood

LEMMA RepsGood ==
  ASSUME NEW m, WorkOK(m), NEW t \in Seq(LoopType)
  PROVE  Good(m, [m EXCEPT !.reps = t])
<1> DEFINE w == [m EXCEPT !.reps = t]
<1>1. m \in WorkType
  BY DEF WorkOK
<1>2. w \in WorkType
  BY <1>1 DEF WorkType
<1>3. Accrues(m, w) /\ Untouched(m, w) /\ Sound(w)
  BY <1>1 DEF WorkOK, WorkType, Accrues, Sound, Untouched
<1>. QED
  BY <1>2, <1>3, SameGood

LEMMA IfsType ==
  ASSUME NEW m, WorkOK(m)
  PROVE  /\ m.ifs \in Seq(Condition) /\ m.ifs # <<>> /\ m.ifs[Len(m.ifs)] = Base
         /\ Len(m.ifs) \in Nat \ {0} /\ Head(m.ifs) \in Condition
         /\ Active(m) \in BOOLEAN
<1>1. m.ifs \in Seq(Condition) /\ m.ifs # <<>> /\ m.ifs[Len(m.ifs)] = Base
  BY DEF WorkOK, WorkType, Sound
<1>2. Len(m.ifs) \in Nat \ {0}
  BY <1>1, EmptySeq, LenProperties
<1>3. Head(m.ifs) \in Condition
  BY <1>1, <1>2, HeadTailProperties
<1>. QED
  BY <1>1, <1>2, <1>3 DEF Active, Condition

(* A condition on top of the others.                                       *)
LEMMA StackGood ==
  ASSUME NEW m, WorkOK(m), NEW c \in Condition
  PROVE  Good(m, [m EXCEPT !.ifs = <<c>> \o @])
<1> DEFINE t == <<c>> \o m.ifs
<1>1. /\ m.ifs \in Seq(Condition) /\ m.ifs # <<>> /\ m.ifs[Len(m.ifs)] = Base
      /\ Len(m.ifs) \in Nat \ {0}
  BY IfsType
<1>2. /\ t \in Seq(Condition) /\ Len(t) = Len(m.ifs) + 1
      /\ \A i \in 1..Len(m.ifs) : t[i + 1] = m.ifs[i]
  BY <1>1, PushFacts
<1>3. t # <<>> /\ t[Len(t)] = Base
  BY <1>1, <1>2
<1> HIDE DEF t
<1>4. Good(m, [m EXCEPT !.ifs = t])
  BY <1>2, <1>3, IfsGood
<1>. QED
  BY <1>4 DEF t

LEMMA PushIfGood ==
  ASSUME NEW m, WorkOK(m), NEW x \in BOOLEAN
  PROVE  Good(m, PushIf(m, x))
<1>1. [xtrue |-> x, acctrue |-> Active(m)] \in Condition
  BY IfsType DEF Condition
<1>. QED
  BY <1>1, StackGood DEF PushIf

(* The condition that is not resolved is the only one that sets bit 0 of   *)
(* Redo_if, and sets its reason with it.                                   *)
LEMMA UnresolvedIfGood ==
  ASSUME NEW m, WorkOK(m)
  PROVE  Good(m, UnresolvedIf(m))
<1> DEFINE c == [xtrue |-> FALSE, acctrue |-> FALSE]
           i == [m.redoIf EXCEPT !.now = TRUE]
           y == m.why \cup {"if"}
           w == [m EXCEPT !.redo = m.redo + 1, !.why = y, !.redoIf = i]
<1>1. m \in WorkType /\ m.redo \in Nat /\ m.redo + 1 \in Nat /\ m.ifs \in Seq(Condition)
  BY DEF WorkOK, WorkType
<1>2. i \in [now : BOOLEAN, before : BOOLEAN] /\ i.now /\ i.before = m.redoIf.before
  <2>1. m.redoIf \in [now : BOOLEAN, before : BOOLEAN]
    BY <1>1 DEF WorkType
  <2>. QED
    BY <2>1
<1>3. y \in SUBSET Reasons /\ "if" \in y /\ m.why \subseteq y
  BY <1>1, AssemblyAssumption DEF WorkType, WhyNeeded
<1>4. UnresolvedIf(m) = [w EXCEPT !.ifs = <<c>> \o @]
  <2> DEFINE a == Active(m)
             p == [xtrue |-> FALSE, acctrue |-> a]
             n == Need(m, "if")
  <2>1. Active(n) = a /\ n.ifs = m.ifs
    BY <1>1 DEF Need, Active, WorkType
  <2>2. PushIf(n, FALSE) = [n EXCEPT !.ifs = <<p>> \o m.ifs]
    BY <2>1 DEF PushIf
  <2>3. [(<<p>> \o m.ifs) EXCEPT ![1].acctrue = FALSE] = <<c>> \o m.ifs
    <3>1. a \in BOOLEAN
      BY IfsType
    <3> HIDE DEF a
    <3>2. p \in Condition /\ c \in Condition /\ [p EXCEPT !.acctrue = FALSE] = c
      <4>1. p \in Condition
        BY <3>1 DEF Condition
      <4>2. c \in Condition
        BY DEF Condition
      <4>3. [p EXCEPT !.acctrue = FALSE] = c
        <5>1. \A d, e, f : [[xtrue |-> d, acctrue |-> e] EXCEPT !.acctrue = f]
                           = [xtrue |-> d, acctrue |-> f]
          OBVIOUS
        <5>. QED
          BY <5>1
      <4>. QED
        BY <4>1, <4>2, <4>3
    <3> HIDE DEF p, c
    <3>3. (<<p>> \o m.ifs)[1] = p
      BY <1>1, <3>2, PushFacts
    <3>4. [(<<p>> \o m.ifs) EXCEPT ![1] = c] = <<c>> \o m.ifs
      <4> DEFINE a1 == <<p>> \o m.ifs
                 a2 == <<c>> \o m.ifs
                 a3 == [a1 EXCEPT ![1] = c]
      <4>1. /\ a1 \in Seq(Condition) /\ Len(a1) = Len(m.ifs) + 1
            /\ \A k \in 2..(Len(m.ifs) + 1) : a1[k] = m.ifs[k - 1]
        BY <1>1, <3>2, PushFacts
      <4>2. /\ a2 \in Seq(Condition) /\ Len(a2) = Len(m.ifs) + 1 /\ a2[1] = c
            /\ \A k \in 2..(Len(m.ifs) + 1) : a2[k] = m.ifs[k - 1]
        BY <1>1, <3>2, PushFacts
      <4>3. Len(m.ifs) \in Nat
        BY <1>1, LenProperties
      <4> HIDE DEF a1, a2
      <4>4. a3 \in Seq(Condition) /\ Len(a3) = Len(a1)
        BY <3>2, <4>1
      <4>5. \A k \in 1..Len(a3) : a3[k] = a2[k]
        BY <4>1, <4>2, <4>3, <4>4
      <4>. QED
        BY <4>1, <4>2, <4>4, <4>5, SeqEqual DEF a1, a2
    <3>. QED
      BY <3>2, <3>3, <3>4
  <2>. QED
    BY <1>1, <2>2, <2>3 DEF UnresolvedIf, Need, WorkType
<1> HIDE DEF i, y
<1>5. w \in WorkType
  BY <1>1, <1>2, <1>3 DEF WorkType
<1>6. Accrues(m, w) /\ Untouched(m, w)
  BY <1>1, <1>2, <1>3 DEF WorkType, Accrues, Untouched
<1>7. Sound(w)
  BY <1>1, <1>2, <1>3 DEF WorkOK, WorkType, Sound
<1>8. Good(m, w)
  BY <1>5, <1>6, <1>7, SameGood
<1>9. c \in Condition
  BY DEF Condition
<1> HIDE DEF w, c
<1>10. Good(w, [w EXCEPT !.ifs = <<c>> \o @])
  BY <1>8, <1>9, StackGood DEF Good
<1>. QED
  BY <1>4, <1>8, <1>10, GoodTrans

LEMMA IfGood ==
  ASSUME NEW m, WorkOK(m), NEW s \in Statement, Placed(s)
  PROVE  Good(m, IfLine(m, s))
<1> DEFINE m1 == Label(m, s.lab)
           v == Value(m1, s.arg)
           r == Read(m1, s.arg)
           x == (v.value # 0)
<1>1. Good(m, m1)
  BY LabelGood DEF Placed
<1>2. IfLine(m, s) = IF ~Active(m) THEN PushIf(m, FALSE)
                     ELSE IF v.unknown THEN UnresolvedIf(r) ELSE PushIf(r, x)
  BY DEF IfLine
<1>3. x \in BOOLEAN /\ s.arg \in Argument
  BY DEF Statement
<1> HIDE DEF m1
<1>4. Good(m1, r)
  BY <1>1, <1>3, ReadGood DEF Good
<1>5. Good(m, r)
  BY <1>1, <1>4, GoodTrans
<1> HIDE DEF r, x, v
<1>6. Good(r, UnresolvedIf(r)) /\ Good(r, PushIf(r, x))
  BY <1>3, <1>5, UnresolvedIfGood, PushIfGood DEF Good
<1>. QED
  BY <1>2, <1>5, <1>6, GoodTrans, PushIfGood

LEMMA IfConstGood ==
  ASSUME NEW m, WorkOK(m), NEW s \in Statement, Placed(s)
  PROVE  Good(m, IfConstLine(m, s))
<1> DEFINE m1 == Label(m, s.lab)
           known == ~Value(m1, s.arg).unknown
           r == Read(m1, s.arg)
           x == IF s.op = "ifconst" THEN known ELSE ~known
<1>1. Good(m, m1)
  BY LabelGood DEF Placed
<1>2. IfConstLine(m, s) = PushIf(r, x)
  BY DEF IfConstLine
<1> HIDE DEF m1
<1>3. x \in BOOLEAN /\ s.arg \in Argument
  <2>1. known \in BOOLEAN
    OBVIOUS
  <2> HIDE DEF known
  <2>. QED
    BY <2>1 DEF Statement
<1>4. Good(m1, r)
  BY <1>1, <1>3, ReadGood DEF Good
<1> HIDE DEF r, x
<1>5. Good(r, PushIf(r, x))
  BY <1>3, <1>4, PushIfGood DEF Good
<1>. QED
  BY <1>1, <1>2, <1>4, <1>5, GoodTrans DEF Good

(* ELSE and ENDIF never touch the base.                                    *)
LEMMA ElseGood ==
  ASSUME NEW m, WorkOK(m), NEW s, Placed(s)
  PROVE  Good(m, ElseLine(m, s))
<1> SUFFICES ASSUME ~AtBase(m)
             PROVE  Good(m, [Label(m, s.lab) EXCEPT !.ifs[1].xtrue = ~@])
  BY GoodSelf DEF ElseLine
<1> DEFINE r == Label(m, s.lab)
           c == [m.ifs[1] EXCEPT !.xtrue = ~@]
           t == [m.ifs EXCEPT ![1] = c]
<1>1. Good(m, r) /\ r.ifs = m.ifs
  BY LabelGood, LabelKeeps DEF Placed
<1>2. [r EXCEPT !.ifs[1].xtrue = ~@] = [r EXCEPT !.ifs = t]
  BY <1>1
<1>3. m.ifs \in Seq(Condition) /\ m.ifs[Len(m.ifs)] = Base /\ Len(m.ifs) \in Nat \ {0, 1}
  BY IfsType DEF AtBase
<1>4. m.ifs[1] \in Condition
  BY <1>3, ElementOfSeq
<1>5. c \in Condition
  BY <1>4 DEF Condition
<1> HIDE DEF c, r
<1>6. t \in Seq(Condition) /\ Len(t) = Len(m.ifs) /\ t[Len(t)] = Base
  BY <1>3, <1>5
<1>7. t # <<>>
  BY <1>3, <1>6
<1> HIDE DEF t
<1>8. Good(r, [r EXCEPT !.ifs = t])
  BY <1>1, <1>6, <1>7, IfsGood DEF Good
<1>. QED
  BY <1>1, <1>2, <1>8, GoodTrans DEF r

LEMMA EndifGood ==
  ASSUME NEW m, WorkOK(m), NEW s, Placed(s)
  PROVE  Good(m, EndifLine(m, s))
<1> DEFINE r == IF Head(m.ifs).acctrue THEN Label(m, s.lab) ELSE m
           t == Tail(m.ifs)
<1> SUFFICES ASSUME ~AtBase(m)
             PROVE  Good(m, [r EXCEPT !.ifs = Tail(@)])
  BY GoodSelf DEF EndifLine
<1>1. Good(m, r) /\ r.ifs = m.ifs
  BY LabelGood, LabelKeeps, GoodSelf DEF Placed
<1>2. [r EXCEPT !.ifs = Tail(@)] = [r EXCEPT !.ifs = t]
  BY <1>1
<1>3. m.ifs \in Seq(Condition) /\ m.ifs[Len(m.ifs)] = Base /\ Len(m.ifs) \in Nat \ {0, 1}
      /\ m.ifs # <<>>
  BY IfsType DEF AtBase
<1>4. /\ t \in Seq(Condition) /\ Len(t) = Len(m.ifs) - 1
      /\ \A i \in 1..Len(t) : t[i] = m.ifs[i + 1]
  BY <1>3, HeadTailProperties
<1>5. t # <<>> /\ t[Len(t)] = Base
  <2> HIDE DEF t
  <2>1. Len(t) \in 1..Len(t) /\ Len(t) + 1 = Len(m.ifs)
    <3> DEFINE n == Len(m.ifs)
               k == Len(t)
    <3>1. n \in Nat /\ n # 0 /\ n # 1 /\ k = n - 1
      BY <1>3, <1>4
    <3> HIDE DEF n, k
    <3>2. k \in 1..k /\ k + 1 = n
      BY <3>1
    <3>. QED
      BY <3>2 DEF n, k
  <2>2. t[Len(t)] = m.ifs[Len(m.ifs)]
    BY <1>4, <2>1
  <2>. QED
    BY <1>3, <2>1, <2>2
<1> HIDE DEF t, r
<1>6. Good(r, [r EXCEPT !.ifs = t])
  BY <1>1, <1>4, <1>5, IfsGood DEF Good
<1>. QED
  BY <1>1, <1>2, <1>6, GoodTrans

LEMMA RepeatGood ==
  ASSUME NEW m, WorkOK(m), NEW s \in Statement, Placed(s)
  PROVE  Good(m, RepeatLine(m, s))
<1> DEFINE m1 == Label(m, s.lab)
           v == Value(m1, s.arg)
           m2 == Read(m1, s.arg)
           loop == [from |-> m.next, count |-> v.value, unknown |-> v.unknown]
           n == NeedIf(v.unknown, m2, "repeat")
           w == [n EXCEPT !.reps = <<loop>> \o @]
<1>1. Good(m, m1)
  BY LabelGood DEF Placed
<1>2. RepeatLine(m, s) = IF ~Active(m) THEN PushIf(m, FALSE)
                         ELSE IF v.value = 0 THEN PushIf(m2, FALSE)
                         ELSE IF v.value < 0 THEN Error(PushIf(m2, FALSE))
                         ELSE PushIf(w, TRUE)
  BY DEF RepeatLine
<1> HIDE DEF m1
<1>3. v.value \in Int /\ v.unknown \in BOOLEAN /\ s.arg \in Argument
  BY <1>1, ArgumentValues DEF Good, WorkOK
<1>4. Good(m1, m2)
  BY <1>1, <1>3, ReadGood DEF Good
<1>5. Good(m, m2)
  BY <1>1, <1>4, GoodTrans
<1> HIDE DEF v, m2
<1>6. Good(m, PushIf(m2, FALSE))
  BY <1>5, PushIfGood, GoodTrans DEF Good
<1>7. Good(m, Error(PushIf(m2, FALSE)))
  BY <1>6, ErrorGood, GoodTrans DEF Good
<1>8. ASSUME ~(v.value = 0), ~(v.value < 0) PROVE Good(m, PushIf(w, TRUE))
  <2>1. Good(m2, n)
    BY <1>5, NeedIfGood DEF Good, WhyNeeded
  <2>2. Good(m, n)
    BY <1>5, <2>1, GoodTrans
  <2>3. loop \in LoopType
    <3>1. m.next \in 1..(Len(prog) + 1)
      BY DEF WorkOK, WorkType
    <3>2. v.value \in Nat \ {0}
      BY <1>3, <1>8
    <3>. QED
      BY <1>3, <3>1, <3>2 DEF LoopType
  <2> HIDE DEF n, loop
  <2>4. n.reps \in Seq(LoopType)
    BY <2>2 DEF Good, WorkOK, WorkType
  <2>5. <<loop>> \o n.reps \in Seq(LoopType)
    BY <2>3, <2>4, PushFacts
  <2>6. Good(n, w)
    BY <2>2, <2>5, RepsGood DEF Good
  <2>7. Good(m, w)
    BY <2>2, <2>6, GoodTrans
  <2> HIDE DEF w
  <2>8. Good(w, PushIf(w, TRUE))
    BY <2>7, PushIfGood DEF Good
  <2>. QED
    BY <2>7, <2>8, GoodTrans
<1>9. Good(m, PushIf(m, FALSE))
  BY PushIfGood
<1>. QED
  BY <1>2, <1>6, <1>7, <1>8, <1>9

LEMMA RependGood ==
  ASSUME NEW m, WorkOK(m), NEW s, Placed(s)
  PROVE  Good(m, RependLine(m, s))
<1> SUFFICES ASSUME m.reps # <<>>
             PROVE  LET r == Head(m.reps) IN
                    /\ MoreRounds(r) =>
                         Good(m, [m EXCEPT !.reps[1].count = Left(r), !.next = r.from])
                    /\ Good(m, EndifLine([m EXCEPT !.reps = Tail(@)], s))
  BY EndifGood, GoodSelf DEF RependLine
<1> DEFINE r == Head(m.reps)
<1>1. m \in WorkType /\ m.reps \in Seq(LoopType) /\ Len(m.reps) \in Nat \ {0}
  <2>1. m \in WorkType /\ m.reps \in Seq(LoopType)
    BY DEF WorkOK, WorkType
  <2>. QED
    BY <2>1, EmptySeq, LenProperties
<1>2. r = m.reps[1] /\ r \in LoopType /\ Tail(m.reps) \in Seq(LoopType)
  BY <1>1, HeadTailProperties, ElementOfSeq
<1>3. ASSUME MoreRounds(r)
      PROVE  Good(m, [m EXCEPT !.reps[1].count = Left(r), !.next = r.from])
  <2> DEFINE l == [r EXCEPT !.count = Left(r)]
             t == [m.reps EXCEPT ![1] = l]
             w == [m EXCEPT !.reps = t]
  <2> HIDE DEF r
  <2>1. l \in LoopType /\ r.from \in 1..(Len(prog) + 1)
    <3>1. r.count \in Nat /\ r.count > 1
      BY <1>2, <1>3 DEF LoopType, MoreRounds
    <3>2. r.count - 1 \in Nat \ {0}
      BY <3>1
    <3>. QED
      BY <1>2, <3>2 DEF LoopType, Left
  <2>2. t \in Seq(LoopType)
    <3> HIDE DEF l
    <3>. QED
      BY <1>1, <2>1
  <2>3. [m EXCEPT !.reps[1].count = Left(r), !.next = r.from] = [w EXCEPT !.next = r.from]
    BY <1>1, <1>2 DEF WorkType
  <2> HIDE DEF t
  <2>4. Good(m, w)
    BY <2>2, RepsGood
  <2> HIDE DEF w
  <2>5. Good(w, [w EXCEPT !.next = r.from])
    BY <2>1, <2>4, JumpGood DEF Good
  <2>. QED
    BY <2>3, <2>4, <2>5, GoodTrans
<1>4. Good(m, EndifLine([m EXCEPT !.reps = Tail(@)], s))
  <2> DEFINE w == [m EXCEPT !.reps = Tail(m.reps)]
  <2>1. Good(m, w)
    BY <1>2, RepsGood
  <2> HIDE DEF w
  <2>2. Good(w, EndifLine(w, s))
    BY <2>1, EndifGood DEF Good
  <2>3. Good(m, EndifLine(w, s))
    BY <2>1, <2>2, GoodTrans
  <2>. QED
    BY <2>3 DEF w
<1>. QED
  BY <1>3, <1>4

-----------------------------------------------------------------------------
(* Labels and the code they stand for.                                     *)

(* Every line that defines such a name either puts code there or compares. *)
Settled(l) == l \in Names /\ Defining(l) \subseteq {"dc", "ins", "branch", "equ"}

(* The value of a label is the address of the blocks of its lines, as long *)
(* as every origin is known and every segment initialised.                 *)
Clean(m) == /\ m.redo = 0 /\ ~m.dead
            /\ \A i \in 1..Len(m.out) : m.out[i].known
            /\ \A g \in Segments : ~m.segs[g].bss
PlacedAt(m, b) ==
  LET l == prog[b.line].lab
  IN  Settled(l) => ~m.syms[l].unknown /\ m.syms[l].value = b.pc
Placement(m) == Clean(m) => \A i \in 1..Len(m.out) : PlacedAt(m, m.out[i])

LEMMA CleanBefore ==
  ASSUME NEW m, WorkOK(m), ~m.dead, NEW w, Good(m, w), Clean(w)
  PROVE  Clean(m)
<1>1. m.redo \in Nat /\ w.redo \in Nat
  BY DEF Good, WorkOK, WorkType
<1>2. m.redo = 0
  BY <1>1 DEF Good, Accrues, Clean
<1>3. \A g \in Segments : ~m.segs[g].bss
  BY DEF Good, Spares, Clean
<1>4. ASSUME NEW j \in 1..Len(m.out) PROVE m.out[j].known
  <2>1. PICK i \in 1..Len(w.out) : w.out[i] = m.out[j]
    BY DEF Good, Adds
  <2>. QED
    BY <2>1 DEF Clean
<1>. QED
  BY <1>2, <1>3, <1>4 DEF Clean

(* A block of another name's line is where it was.                         *)
LEMMA OtherPlaces ==
  ASSUME NEW m, WorkOK(m), ~m.dead, Placement(m), NEW w, Good(m, w), Clean(w),
         NEW j \in 1..Len(m.out), prog[m.out[j].line].lab # prog[ip].lab
  PROVE  PlacedAt(w, m.out[j])
<1>1. PlacedAt(m, m.out[j])
  BY CleanBefore DEF Placement
<1>. QED
  BY <1>1 DEF PlacedAt, Settled, Good, Spares

(* A line whose label is not settled disturbs no block.                    *)
LEMMA UnsettledPlaces ==
  ASSUME NEW m, WorkOK(m), ~m.dead, Placement(m), NEW w, Good(m, w),
         ~Settled(prog[ip].lab)
  PROVE  Placement(w)
<1> SUFFICES ASSUME Clean(w), NEW i \in 1..Len(w.out)
             PROVE  PlacedAt(w, w.out[i])
  BY DEF Placement
<1>1. CASE w.out[i].line = ip
  BY <1>1 DEF PlacedAt
<1>2. CASE \E j \in 1..Len(m.out) : w.out[i] = m.out[j]
  <2>1. PICK j \in 1..Len(m.out) : w.out[i] = m.out[j]
    BY <1>2
  <2>2. CASE prog[m.out[j].line].lab = prog[ip].lab
    BY <2>1, <2>2 DEF PlacedAt
  <2>3. CASE prog[m.out[j].line].lab # prog[ip].lab
    BY <2>1, <2>3, OtherPlaces
  <2>. QED
    BY <2>2, <2>3
<1>. QED
  BY <1>1, <1>2 DEF Good, Adds

LEMMA UnsettledLabel ==
  ASSUME ip \in DOMAIN prog, prog[ip].op \notin {"dc", "ins", "branch", "equ"}
  PROVE  ~Settled(prog[ip].lab)
<1>1. prog[ip].op \in Defining(prog[ip].lab)
  BY DEF Defining
<1>. QED
  BY <1>1 DEF Settled

(* What a write that neither stops the program nor asks for a pass leaves. *)
LEMMA WrittenBlock ==
  ASSUME NEW n, n \in WorkType, NEW line, NEW val, NEW len, NEW w,
         w = Generate(n, line, val, len), w.redo = 0, ~w.dead, n.redo = 0,
         ~Current(n).bss
  PROVE  w.syms = n.syms /\ w.out = Append(n.out, BlockOf(n, line, val, len))
<1> DEFINE w1 == [n EXCEPT !.clear = FALSE]
           w2 == [n EXCEPT !.clear = FALSE, !.fatals = @ + 1, !.dead = TRUE]
           w3 == [n EXCEPT !.clear = FALSE, !.forg = Current(n).org + len,
                           !.out = Append(@, BlockOf(n, line, val, len))]
<1>1. w = Write(n, line, val, len)
  BY DEF Generate, Writes
<1>2. w = Need(w1, "obscure") \/ w = w2 \/ w = Advance(w3, len)
  BY <1>1 DEF Write
<1>3. w # Need(w1, "obscure")
  <2>1. w1 \in WorkType
    BY DEF WorkType
  <2> HIDE DEF w1
  <2>. QED
    BY <2>1, NeedFields
<1>4. w # w2
  <2>1. w2.dead
    BY DEF WorkType
  <2>. QED
    BY <2>1
<1>5. w3.syms = n.syms /\ w3.out = Append(n.out, BlockOf(n, line, val, len))
  BY DEF WorkType
<1>6. Advance(w3, len).syms = w3.syms /\ Advance(w3, len).out = w3.out
  <2>1. \A g : WithSeg(w3, g).syms = w3.syms /\ WithSeg(w3, g).out = w3.out
    BY DEF WithSeg, WorkType
  <2> HIDE DEF w3
  <2>. QED
    BY <2>1 DEF Advance
<1> HIDE DEF w1, w2, w3
<1>. QED
  BY <1>2, <1>3, <1>4, <1>5, <1>6

(* A line that gives its label the pc and then writes its block there.     *)
LEMMA LabelledWrite ==
  ASSUME NEW m, WorkOK(m), ~m.dead, Placement(m),
         NEW l, l = prog[ip].lab, l \in Names, l \in LabelNames, ip \in Int,
         NEW n, Good(Label(m, l), n), n.out = m.out,
         n.segs = m.segs, n.cseg = m.cseg,
         n.syms[l].value = Label(m, l).syms[l].value,
         n.syms[l].unknown = Label(m, l).syms[l].unknown,
         NEW val \in Int, NEW len \in Nat,
         NEW w, w = Generate(n, ip, val, len), Good(m, w)
  PROVE  Placement(w)
<1> SUFFICES ASSUME Clean(w), NEW i \in 1..Len(w.out)
             PROVE  PlacedAt(w, w.out[i])
  BY DEF Placement
<1> DEFINE m1 == Label(m, l)
           r == Redefined(m, m.syms[l], Pc(m))
           b == BlockOf(n, ip, val, len)
<1>1. Clean(m) /\ m \in WorkType /\ n \in WorkType /\ m1 \in WorkType /\ WorkOK(m1)
  BY CleanBefore, LabelGood DEF Good, WorkOK
<1>2. n.redo = 0 /\ m1.redo = 0
  <2>1. n.redo \in Nat /\ m1.redo \in Nat
    BY <1>1 DEF WorkType
  <2>2. ASSUME n.redo # 0 PROVE FALSE
    <3>1. w = Advance(n, len)
      BY <2>2 DEF Generate, Writes
    <3>2. Advance(n, len).redo = n.redo
      BY <1>1 DEF Advance, WithSeg, WorkType
    <3>. QED
      BY <2>2, <3>1, <3>2 DEF Clean
  <2>. QED
    BY <2>1, <2>2 DEF Good, Accrues
<1>3. ~Current(n).bss
  BY <1>1 DEF Current, Clean, WorkType
<1>4. w.syms = n.syms /\ w.out = Append(m.out, b)
  <2>1. w.redo = 0 /\ ~w.dead
    BY DEF Clean
  <2>2. w = Generate(n, ip, val, len)
    OBVIOUS
  <2>3. w.syms = n.syms /\ w.out = Append(n.out, b)
    BY <1>1, <1>2, <1>3, <2>1, <2>2, WrittenBlock
  <2> HIDE DEF b
  <2>. QED
    BY <2>3
<1>5. b.pc = Pc(m).value /\ b.known = ~Pc(m).unknown /\ b.line = ip
  BY SamePc DEF BlockOf
<1>6. /\ m.out \in Seq(Block) /\ Len(m.out) \in Nat
      /\ Len(w.out) = Len(m.out) + 1
      /\ \A j \in 1..Len(m.out) : w.out[j] = m.out[j]
      /\ w.out[Len(m.out) + 1] = b
  <2>1. m.out \in Seq(Block) /\ b \in Block
    <3>1. m.out \in Seq(Block)
      BY <1>1 DEF WorkType
    <3>2. Current(n) \in SegmentType /\ Pc(n) \in PcRecord
      BY <1>1, PcType DEF Current, WorkType
    <3>. QED
      BY <1>1, <3>1, <3>2 DEF BlockOf, Block, SegmentType, PcRecord, WorkType
  <2> HIDE DEF b
  <2>. QED
    BY <1>4, <2>1, AppendProperties, LenProperties
<1> HIDE DEF b
<1>7. ~Pc(m).unknown
  <2>1. Len(m.out) + 1 \in 1..Len(w.out)
    BY <1>6
  <2>2. w.out[Len(m.out) + 1].known
    BY <2>1 DEF Clean
  <2>. QED
    BY <1>5, <1>6, <2>2
<1>8. /\ m1.syms[l].value = Pc(m).value /\ ~m1.syms[l].unknown
      /\ r.redo = 0
  <2>1. r \in WorkType
    BY RedefinedGood DEF Good, WorkOK
  <2>2. m1 = [r EXCEPT !.syms[l] = [value |-> Pc(m).value, unknown |-> Pc(m).unknown,
                                    ref |-> m.syms[l].ref]]
    BY DEF Label
  <2> HIDE DEF r
  <2>3. m1.redo = r.redo
    BY <2>1, <2>2 DEF WorkType
  <2>4. m1.syms[l] = [value |-> Pc(m).value, unknown |-> Pc(m).unknown,
                      ref |-> m.syms[l].ref]
    BY <2>1, <2>2 DEF WorkType
  <2>. QED
    BY <1>2, <1>7, <2>3, <2>4
<1>9. ~m.syms[l].unknown => Pc(m).value = m.syms[l].value
  BY <1>7, <1>8, RedefinedQuiet
<1>10. w.syms[l].value = Pc(m).value /\ ~w.syms[l].unknown
  BY <1>4, <1>8
<1>11. CASE i = Len(m.out) + 1
  BY <1>5, <1>6, <1>10, <1>11 DEF PlacedAt
<1>12. CASE i \in 1..Len(m.out)
  <2>1. CASE prog[m.out[i].line].lab = l
    <3>1. PlacedAt(m, m.out[i])
      BY <1>1, <1>12 DEF Placement
    <3>. QED
      BY <1>6, <1>9, <1>10, <1>12, <2>1, <3>1 DEF PlacedAt
  <2>2. CASE prog[m.out[i].line].lab # l
    BY <1>6, <1>12, <2>2, OtherPlaces
  <2>. QED
    BY <2>1, <2>2
<1>. QED
  BY <1>6, <1>11, <1>12

(* What a line may do between its label and its block: it keeps the values *)
(* of the symbols, the segments and the output.                            *)
Prepared(m, n) ==
  /\ Good(m, n)
  /\ n.out = m.out /\ n.segs = m.segs /\ n.cseg = m.cseg
  /\ \A l \in Names : /\ n.syms[l].value = m.syms[l].value
                      /\ n.syms[l].unknown = m.syms[l].unknown

LEMMA ReadPrepares ==
  ASSUME NEW m, WorkOK(m), NEW e \in Argument,
         NEW c, NEW r \in WhyNeeded \ {"if"}
  PROVE  Prepared(m, NeedIf(c, Read(m, e), r))
<1> DEFINE m2 == Read(m, e)
           m3 == NeedIf(c, m2, r)
<1>1. Good(m, m2) /\ m2.out = m.out /\ m2.segs = m.segs /\ m2.cseg = m.cseg
  BY ReadGood, ReadKeeps DEF WorkOK
<1>2. \A l \in Names : /\ m2.syms[l].value = m.syms[l].value
                      /\ m2.syms[l].unknown = m.syms[l].unknown
  BY ReadSymbols DEF WorkOK
<1> HIDE DEF m2
<1>3. Good(m2, m3)
  BY <1>1, NeedIfGood DEF Good
<1>4. m3.out = m2.out /\ m3.segs = m2.segs /\ m3.cseg = m2.cseg /\ m3.syms = m2.syms
  BY <1>1, NeedFields DEF Good, WorkOK
<1> HIDE DEF m3
<1>5. Good(m, m3)
  BY <1>1, <1>3, GoodTrans
<1>. QED
  BY <1>1, <1>2, <1>4, <1>5 DEF Prepared, m3, m2

LEMMA ErrorPrepares ==
  ASSUME NEW m, WorkOK(m), NEW n, Prepared(m, n), NEW c
  PROVE  Prepared(m, ErrorIf(c, n))
<1> DEFINE k == ErrorIf(c, n)
<1>1. Good(n, k) /\ k.out = n.out /\ k.segs = n.segs /\ k.cseg = n.cseg
  BY ErrorIfGood, CountKeeps DEF Prepared, Good, WorkOK
<1>2. k.syms = n.syms
  BY DEF ErrorIf, Error, Prepared, Good, WorkOK, WorkType
<1> HIDE DEF k
<1>3. Good(m, k)
  BY <1>1, GoodTrans DEF Prepared
<1>. QED
  BY <1>1, <1>2, <1>3 DEF Prepared, k

LEMMA DcPlaces ==
  ASSUME NEW m, WorkOK(m), ~m.dead, Placement(m), NEW s \in Statement, Placed(s), ip \in Int,
         s = prog[ip], s.op = "dc", s.arg2 = NoArg
  PROVE  Placement(DcLine(m, s))
<1> DEFINE v == Value(Label(m, s.lab), s.arg)
           n == NeedIf(v.unknown, Read(Label(m, s.lab), s.arg), "dc")
<1>1. DcLine(m, s) = Generate(n, ip, v.value, 1) /\ Good(m, DcLine(m, s))
  BY DcGood DEF DcLine
<1>2. v.value \in Int /\ s.arg \in Argument
  BY LabelGood, ArgumentValues DEF Placed, Good, WorkOK
<1>3. Prepared(Label(m, s.lab), n)
  BY <1>2, ReadPrepares, LabelGood DEF WhyNeeded, Placed, Good
<1> HIDE DEF n, v
<1>4. CASE Settled(s.lab)
  <2>1. n.out = m.out /\ n.segs = m.segs /\ n.cseg = m.cseg
    BY <1>3, LabelKeeps DEF Prepared
  <2>. QED
    BY <1>1, <1>2, <1>3, <1>4, <2>1, LabelledWrite DEF Settled, Placed, Prepared
<1>. QED
  BY <1>1, <1>4, UnsettledPlaces

LEMMA InsPlaces ==
  ASSUME NEW m, WorkOK(m), ~m.dead, Placement(m), NEW s \in Statement, Placed(s), ip \in Int,
         s = prog[ip], s.op = "ins", s.arg2 = NoArg
  PROVE  Placement(InsLine(m, s))
<1> DEFINE v == Value(Label(m, s.lab), s.arg)
           n == NeedIf(v.unknown, Read(Label(m, s.lab), s.arg), "mnemonic")
<1>1. InsLine(m, s) = Generate(n, ip, v.value, InsLen(v)) /\ Good(m, InsLine(m, s))
  BY InsGood DEF InsLine
<1>2. v.value \in Int /\ s.arg \in Argument /\ InsLen(v) \in Nat
  BY LabelGood, ArgumentValues DEF Placed, Good, WorkOK, InsLen
<1>3. Prepared(Label(m, s.lab), n)
  BY <1>2, ReadPrepares, LabelGood DEF WhyNeeded, Placed, Good
<1> HIDE DEF n, v
<1>4. CASE Settled(s.lab)
  <2>1. n.out = m.out /\ n.segs = m.segs /\ n.cseg = m.cseg
    BY <1>3, LabelKeeps DEF Prepared
  <2>. QED
    BY <1>1, <1>2, <1>3, <1>4, <2>1, LabelledWrite DEF Settled, Placed, Prepared
<1>. QED
  BY <1>1, <1>4, UnsettledPlaces

LEMMA BranchPlaces ==
  ASSUME NEW m, WorkOK(m), ~m.dead, Placement(m), NEW s \in Statement, Placed(s), ip \in Int,
         s = prog[ip], s.op = "branch", s.arg2 = NoArg
  PROVE  Placement(BranchLine(m, s))
<1> DEFINE v == Value(Label(m, s.lab), s.arg)
           pc == Pc(Label(m, s.lab))
           d == IF v.unknown \/ pc.unknown THEN 0 ELSE Distance(v.value, pc.value)
           n == ErrorIf(d >= 128 \/ d < -128,
                        NeedIf(v.unknown, Read(Label(m, s.lab), s.arg), "mnemonic"))
<1>1. BranchLine(m, s) = Generate(n, ip, d, 2) /\ Good(m, BranchLine(m, s))
  BY BranchGood DEF BranchLine
<1>2. d \in Int /\ s.arg \in Argument
  <2>1. v.value \in Int /\ s.arg \in Argument /\ pc.value \in Int
    BY LabelGood, ArgumentValues, PcType DEF Placed, Good, WorkOK, PcRecord
  <2> HIDE DEF v, pc
  <2>. QED
    BY <2>1 DEF Distance
<1>3. Prepared(Label(m, s.lab), n)
  <2>1. Prepared(Label(m, s.lab), NeedIf(v.unknown, Read(Label(m, s.lab), s.arg), "mnemonic"))
    BY <1>2, ReadPrepares, LabelGood DEF WhyNeeded, Placed, Good
  <2>. QED
    BY <2>1, ErrorPrepares, LabelGood DEF Placed, Good
<1> HIDE DEF n, v, pc, d
<1>4. CASE Settled(s.lab)
  <2>1. n.out = m.out /\ n.segs = m.segs /\ n.cseg = m.cseg
    BY <1>3, LabelKeeps DEF Prepared
  <2>. QED
    BY <1>1, <1>2, <1>3, <1>4, <2>1, LabelledWrite DEF Settled, Placed, Prepared
<1>. QED
  BY <1>1, <1>4, UnsettledPlaces

(* EQU writes nothing and keeps a value that is known.                     *)
LEMMA EquPlaces ==
  ASSUME NEW m, WorkOK(m), ~m.dead, Placement(m), NEW s \in Statement, s.lab = prog[ip].lab,
         s.lab \in EquNames, s.lab \in Names \cup {"."}
  PROVE  Placement(EquLine(m, s))
<1> DEFINE v == Value(m, s.arg)
           m1 == Read(m, s.arg)
           m2 == EquNeeds(m1, m1.syms[s.lab], v)
           e == [value |-> v.value, unknown |-> v.unknown, ref |-> FALSE]
           w == [m2 EXCEPT !.syms[s.lab] = e]
<1>1. Good(m, EquLine(m, s))
  BY EquGood
<1>2. CASE ~Settled(s.lab)
  BY <1>1, <1>2, UnsettledPlaces
<1>3. CASE Settled(s.lab)
  <2>1. s.lab \in Names /\ s.lab # "."
    BY <1>3, AssemblyAssumption DEF Settled
  <2>2. EquLine(m, s) = w
    BY <2>1 DEF EquLine
  <2>3. s.arg \in Argument
    BY DEF Statement
  <2>4. Good(m, m1) /\ m1 \in WorkType /\ m1.out = m.out
        /\ m1.syms[s.lab].value = m.syms[s.lab].value
        /\ m1.syms[s.lab].unknown = m.syms[s.lab].unknown
    BY <2>1, <2>3, ReadGood, ReadKeeps, ReadSymbols DEF Good, WorkOK
  <2> HIDE DEF m1, v
  <2>5. Good(m1, m2) /\ m2 \in WorkType /\ m2.out = m1.out
    <3>1. Good(m1, m2)
      BY <2>4, EquNeedsGood DEF Good
    <3>2. Error(m1) \in WorkType
      BY <2>4, ErrorGood DEF Good, WorkOK
    <3>3. m2.out = m1.out
      BY <2>4, <3>2, NeedFields, CountKeeps DEF EquNeeds, ErrorIf
    <3>. QED
      BY <3>1, <3>3 DEF Good, WorkOK
  <2>6. m2.redo = 0 => m1.syms[s.lab].unknown
                       \/ (~v.unknown /\ m1.syms[s.lab].value = v.value)
    BY <2>4, EquQuiet DEF Good
  <2> HIDE DEF m2
  <2>7. w.out = m2.out /\ w.redo = m2.redo /\ w.syms[s.lab] = e
    BY <2>1, <2>5 DEF WorkType
  <2> HIDE DEF w
  <2> SUFFICES ASSUME Clean(w), NEW i \in 1..Len(w.out)
               PROVE  PlacedAt(w, w.out[i])
    BY <2>2 DEF Placement
  <2>8. i \in 1..Len(m.out) /\ w.out[i] = m.out[i] /\ m2.redo = 0
    BY <2>4, <2>5, <2>7 DEF Clean
  <2>9. Good(m, w) /\ Clean(m)
    BY <1>1, <2>2, CleanBefore
  <2>10. CASE prog[m.out[i].line].lab # s.lab
    BY <2>8, <2>9, <2>10, OtherPlaces
  <2>11. CASE prog[m.out[i].line].lab = s.lab
    <3>1. ~m.syms[s.lab].unknown /\ m.syms[s.lab].value = m.out[i].pc
      BY <1>3, <2>8, <2>9, <2>11 DEF Placement, PlacedAt
    <3>2. ~v.unknown /\ v.value = m.out[i].pc
      BY <2>4, <2>6, <2>8, <3>1
    <3>. QED
      BY <2>7, <2>8, <2>11, <3>2 DEF PlacedAt
  <2>. QED
    BY <2>10, <2>11
<1>. QED
  BY <1>2, <1>3

-----------------------------------------------------------------------------
(* The invariant.  Between the end of a pass and the next open the output  *)
(* belongs to a pass that is over, so what it says of the symbols holds    *)
(* only while lines are read, at the end of the file and after a success.  *)
Here == [Work EXCEPT !.next = ip]

IInv ==
  /\ prog \in Programs /\ format \in Formats
  /\ DTypeOK
  /\ Here \in WorkType /\ Sound(Here) /\ Ordered(Here)
  /\ phase \in {"lines", "closing"} \/ Succeeded => Final(Here) /\ Placement(Here)

LEMMA LineStarts ==
  ASSUME IInv, phase = "lines", ip <= Len(prog)
  PROVE  WorkOK(Work) /\ ~Work.dead /\ Placement(Work) /\ ip \in 1..Len(prog)
<1>1. Here \in WorkType /\ Sound(Here) /\ Ordered(Here) /\ Final(Here) /\ Placement(Here)
  BY DEF IInv
<1>2. prog \in Seq(Statement)
  BY ProgramAssumption DEF IInv
<1>3. ip \in 1..Len(prog) /\ ip + 1 \in 1..(Len(prog) + 1)
  <2>1. ip \in 1..(Len(prog) + 1) /\ Len(prog) \in Nat
    BY <1>1, <1>2 DEF Here, Work, WorkType
  <2>. QED
    BY <2>1
<1>4. Work \in WorkType
  BY <1>1, <1>3 DEF Here, Work, WorkType
<1>6. /\ Work.redo = Here.redo /\ Work.why = Here.why /\ Work.redoIf = Here.redoIf
      /\ Work.errs = Here.errs /\ Work.dead = Here.dead /\ Work.syms = Here.syms
      /\ Work.segs = Here.segs /\ Work.cseg = Here.cseg /\ Work.ifs = Here.ifs
      /\ Work.out = Here.out /\ Work.clear = Here.clear /\ Work.forg = Here.forg
      /\ ~Work.dead
  BY DEF Here, Work
<1>7. Sound(Work)
  BY <1>1, <1>6 DEF Sound
<1>8. Ordered(Work)
  BY <1>1, <1>6 DEF Ordered, InOrder
<1>9. Final(Work)
  BY <1>1, <1>6 DEF Final
<1>10. Placement(Work)
  BY <1>1, <1>6, Zenon DEF Placement, Clean, PlacedAt
<1>. QED
  BY <1>3, <1>4, <1>6, <1>7, <1>8, <1>9, <1>10 DEF WorkOK

(* The statement of a line.                                                *)
LEMMA LineStatement ==
  ASSUME prog \in Programs, ip \in 1..Len(prog), NEW s, s = prog[ip]
  PROVE  /\ s \in Statement /\ ip \in Int /\ ip \in DOMAIN prog
         /\ s.op \notin {"equ", "set"} => Placed(s)
         /\ s.op = "equ" => s.lab \in EquNames /\ s.lab \in Names \cup {"."}
         /\ s.op = "set" => s.lab \in SetNames /\ s.lab \in Names
         /\ s.op = "align" => s.arg.sym = "none" /\ s.arg.add > 0
         /\ s.op \in {"dc", "ins", "branch"} => s.arg2 = NoArg
<1>1. prog \in Seq(Statement) /\ ip \in DOMAIN prog
  BY ProgramAssumption
<1>2. s \in Statement /\ ip \in Int
  BY <1>1
<1>3. /\ s.op = "equ" => s.lab \in Names \cup {"."}
      /\ s.op = "set" => s.lab \in Names
      /\ s.op = "align" => s.arg.sym = "none" /\ s.arg.add > 0
      /\ s.op \in {"dc", "ins", "branch"} => s.arg2 = NoArg
  BY ProgramAssumption
<1>4. s.op \notin {"equ", "set"} => Placed(s)
  BY <1>1 DEF Placed, LabelNames
<1>5. /\ s.op = "equ" => s.lab \in EquNames
      /\ s.op = "set" => s.lab \in SetNames
  BY <1>1 DEF EquNames, SetNames, LabelsOf
<1>. QED
  BY <1>1, <1>2, <1>3, <1>4, <1>5

(* Every line: what its handler leaves is committed, and is good.          *)
LEMMA LineGood ==
  ASSUME IInv, LineStep
  PROVE  phase = "lines" /\ \E w : Good(Work, w) /\ Placement(w) /\ Commit(w)
<1>1. phase = "lines" /\ ip <= Len(prog)
  BY DEF LineStep, Plain, Org, Rorg, Rend, Seg, Dc, Ds, Align, Ins, Branch, Equ, SetSym,
         End, Err, If, IfConst, Else, Endif, Repeat, Repend, Skip, Runs, Reads
<1>2. WorkOK(Work) /\ ~Work.dead /\ Placement(Work) /\ ip \in 1..Len(prog)
  BY <1>1, LineStarts
<1> DEFINE m == Work
           s == prog[ip]
<1>3. /\ s \in Statement /\ ip \in Int /\ ip \in DOMAIN prog
      /\ s.op \notin {"equ", "set"} => Placed(s)
      /\ s.op = "equ" => s.lab \in EquNames /\ s.lab \in Names \cup {"."}
      /\ s.op = "set" => s.lab \in SetNames /\ s.lab \in Names
      /\ s.op = "align" => s.arg.sym = "none" /\ s.arg.add > 0
      /\ s.op \in {"dc", "ins", "branch"} => s.arg2 = NoArg
  BY <1>2, LineStatement DEF IInv
<1>4. ASSUME NEW w, Good(m, w), s.op \notin {"dc", "ins", "branch", "equ"}
      PROVE  Placement(w)
  BY <1>2, <1>3, <1>4, UnsettledLabel, UnsettledPlaces
<1> DEFINE P == \E w : Good(m, w) /\ Placement(w) /\ Commit(w)
<1> SUFFICES P
  BY <1>1
<1> HIDE DEF m
<1> USE <1>2 DEF Runs, Reads, Stmt
<1>5. ASSUME NEW w, Commit(w), Good(m, w), Placement(w) PROVE P
  BY <1>5
<1>6. ASSUME NEW w, Commit(w), Good(m, w), s.op \notin {"dc", "ins", "branch", "equ"} PROVE P
  BY <1>4, <1>5, <1>6
<1> HIDE DEF P
<1>10. CASE Plain
  <2>1. Commit(LabelLine(m, s)) /\ s.op \in {"label"}
    BY <1>10 DEF Plain, m
  <2>2. Good(m, LabelLine(m, s))
    BY <1>3, <2>1, LabelGood DEF m, LabelLine, Placed
  <2>. QED
    BY <1>6, <2>1, <2>2
<1>11. CASE Org
  <2>1. Commit(OrgLine(m, s)) /\ s.op \in {"org"}
    BY <1>11 DEF Org, m
  <2>2. Good(m, OrgLine(m, s))
    BY <1>3, <2>1, OrgGood DEF m
  <2>. QED
    BY <1>6, <2>1, <2>2
<1>12. CASE Rorg
  <2>1. Commit(RorgLine(m, s)) /\ s.op \in {"rorg"}
    BY <1>12 DEF Rorg, m
  <2>2. Good(m, RorgLine(m, s))
    BY <1>3, <2>1, RorgGood DEF m
  <2>. QED
    BY <1>6, <2>1, <2>2
<1>13. CASE Rend
  <2>1. Commit(RendLine(m, s)) /\ s.op \in {"rend"}
    BY <1>13 DEF Rend, m
  <2>2. Good(m, RendLine(m, s))
    BY <1>3, <2>1, RendGood DEF m
  <2>. QED
    BY <1>6, <2>1, <2>2
<1>14. CASE Seg
  <2>1. Commit(SegLine(m, s)) /\ s.op \in {"seg", "seg.u"}
    BY <1>14 DEF Seg, m
  <2>2. Good(m, SegLine(m, s))
    BY <1>3, <2>1, SegGood DEF m
  <2>. QED
    BY <1>6, <2>1, <2>2
<1>15. CASE Ds
  <2>1. Commit(DsLine(m, s)) /\ s.op \in {"ds"}
    BY <1>15 DEF Ds, m
  <2>2. Good(m, DsLine(m, s))
    BY <1>3, <2>1, DsGood DEF m
  <2>. QED
    BY <1>6, <2>1, <2>2
<1>16. CASE Align
  <2>1. Commit(AlignLine(m, s)) /\ s.op \in {"align"}
    BY <1>16 DEF Align, m
  <2>2. Good(m, AlignLine(m, s))
    BY <1>3, <2>1, AlignGood DEF m
  <2>. QED
    BY <1>6, <2>1, <2>2
<1>17. CASE SetSym
  <2>1. Commit(SetLine(m, s)) /\ s.op \in {"set"}
    BY <1>17 DEF SetSym, m
  <2>2. Good(m, SetLine(m, s))
    BY <1>3, <2>1, SetGood DEF m
  <2>. QED
    BY <1>6, <2>1, <2>2
<1>18. CASE Err
  <2>1. Commit(ErrLine(m, s)) /\ s.op \in {"err"}
    BY <1>18 DEF Err, m
  <2>2. Good(m, ErrLine(m, s))
    BY <1>3, <2>1, ErrGood DEF m
  <2>. QED
    BY <1>6, <2>1, <2>2
<1>19. CASE If
  <2>1. Commit(IfLine(m, s)) /\ s.op \in {"if"}
    BY <1>19 DEF If, m
  <2>2. Good(m, IfLine(m, s))
    BY <1>3, <2>1, IfGood DEF m
  <2>. QED
    BY <1>6, <2>1, <2>2
<1>20. CASE IfConst
  <2>1. Commit(IfConstLine(m, s)) /\ s.op \in {"ifconst", "ifnconst"}
    BY <1>20 DEF IfConst, m
  <2>2. Good(m, IfConstLine(m, s))
    BY <1>3, <2>1, IfConstGood DEF m
  <2>. QED
    BY <1>6, <2>1, <2>2
<1>21. CASE Else
  <2>1. Commit(ElseLine(m, s)) /\ s.op \in {"else"}
    BY <1>21 DEF Else, m
  <2>2. Good(m, ElseLine(m, s))
    BY <1>3, <2>1, ElseGood DEF m
  <2>. QED
    BY <1>6, <2>1, <2>2
<1>22. CASE Endif
  <2>1. Commit(EndifLine(m, s)) /\ s.op \in {"endif"}
    BY <1>22 DEF Endif, m
  <2>2. Good(m, EndifLine(m, s))
    BY <1>3, <2>1, EndifGood DEF m
  <2>. QED
    BY <1>6, <2>1, <2>2
<1>23. CASE Repeat
  <2>1. Commit(RepeatLine(m, s)) /\ s.op \in {"repeat"}
    BY <1>23 DEF Repeat, m
  <2>2. Good(m, RepeatLine(m, s))
    BY <1>3, <2>1, RepeatGood DEF m
  <2>. QED
    BY <1>6, <2>1, <2>2
<1>24. CASE Repend
  <2>1. Commit(RependLine(m, s)) /\ s.op \in {"repend"}
    BY <1>24 DEF Repend, m
  <2>2. Good(m, RependLine(m, s))
    BY <1>3, <2>1, RependGood DEF m
  <2>. QED
    BY <1>6, <2>1, <2>2
<1>25. CASE Dc
  <2>1. Commit(DcLine(m, s)) /\ s.op = "dc"
    BY <1>25 DEF Dc, m
  <2>2. Good(m, DcLine(m, s)) /\ Placement(DcLine(m, s))
    BY <1>3, <2>1, DcGood, DcPlaces DEF m
  <2>. QED
    BY <1>5, <2>1, <2>2
<1>26. CASE Ins
  <2>1. Commit(InsLine(m, s)) /\ s.op = "ins"
    BY <1>26 DEF Ins, m
  <2>2. Good(m, InsLine(m, s)) /\ Placement(InsLine(m, s))
    BY <1>3, <2>1, InsGood, InsPlaces DEF m
  <2>. QED
    BY <1>5, <2>1, <2>2
<1>27. CASE Branch
  <2>1. Commit(BranchLine(m, s)) /\ s.op = "branch"
    BY <1>27 DEF Branch, m
  <2>2. Good(m, BranchLine(m, s)) /\ Placement(BranchLine(m, s))
    BY <1>3, <2>1, BranchGood, BranchPlaces DEF m
  <2>. QED
    BY <1>5, <2>1, <2>2
<1>28. CASE Equ
  <2>1. Commit(EquLine(m, s)) /\ s.op = "equ"
    BY <1>28 DEF Equ, m
  <2>2. Good(m, EquLine(m, s)) /\ Placement(EquLine(m, s))
    BY <1>3, <2>1, EquGood, EquPlaces DEF m
  <2>. QED
    BY <1>5, <2>1, <2>2
<1>29. CASE End
  <2>1. Commit(EndLine(m, s)) /\ s.op = "end"
    BY <1>29 DEF End, m
  <2>2. Len(prog) \in Nat
    BY ProgramAssumption DEF IInv
  <2>3. Len(prog) + 1 \in 1..(Len(prog) + 1)
    BY <2>2
  <2>4. Good(m, EndLine(m, s))
    BY <2>3, JumpGood DEF m, EndLine
  <2>. QED
    BY <1>6, <2>1, <2>4
<1>30. CASE Skip
  <2>1. Commit(m) /\ Good(m, m)
    BY <1>30, GoodSelf DEF Skip, m
  <2>. QED
    BY <1>2, <1>5, <2>1 DEF m
<1>. QED
  BY <1>1, <1>10, <1>11, <1>12, <1>13, <1>14, <1>15, <1>16, <1>17, <1>18, <1>19, <1>20, <1>21, <1>22, <1>23, <1>24, <1>25, <1>26, <1>27, <1>28, <1>29, <1>30 DEF LineStep

-----------------------------------------------------------------------------
(* Steps of the specification.  The source does not change, so what is     *)
(* said of a table and a block today is said of them tomorrow.             *)
LEMMA SameSource ==
  ASSUME prog' = prog
  PROVE  /\ SetNames' = SetNames /\ EquNames' = EquNames /\ LabelNames' = LabelNames
         /\ WorkType' = WorkType
         /\ \A l : Settled(l)' <=> Settled(l)
<1>1. \A ops : LabelsOf(ops)' = LabelsOf(ops)
  BY DEF LabelsOf
<1>2. SetNames' = SetNames /\ EquNames' = EquNames
  BY <1>1 DEF SetNames, EquNames
<1>3. LabelNames' = LabelNames
  BY DEF LabelNames
<1>4. WorkType' = WorkType
  BY DEF WorkType, LoopType
<1>5. \A l : Defining(l)' = Defining(l)
  BY DEF Defining
<1>6. \A l : Settled(l)' <=> Settled(l)
  BY <1>5 DEF Settled
<1>. QED
  BY <1>2, <1>3, <1>4, <1>6

LEMMA SameSupport ==
  ASSUME prog' = prog, NEW t, NEW b
  PROVE  Supported(t, b)' <=> Supported(t, b)
<1>1. SetNames' = SetNames /\ EquNames' = EquNames /\ LabelNames' = LabelNames
  BY SameSource
<1>2. \A e : Fixed(e)' <=> Fixed(e)
  BY <1>1 DEF Fixed
<1>3. \A e : Backs(t, e)' <=> Backs(t, e)
  BY <1>1 DEF Backs, Firm
<1>4. BlockFinal(t, b)' <=> BlockFinal(t, b)
  BY <1>2 DEF BlockFinal, Operand, Resolved
<1>. QED
  BY <1>2, <1>3, <1>4 DEF Supported

(* A good work record, once committed, is the next state.                  *)
LEMMA CommitKeeps ==
  ASSUME IInv, phase = "lines", NEW w, Good(Work, w), Placement(w), Commit(w)
  PROVE  IInv'
<1>1. w \in WorkType /\ Sound(w) /\ Ordered(w) /\ Final(w)
  BY DEF Good, WorkOK
<1>2. /\ redo' = w.redo /\ why' = w.why /\ evals' = w.evals /\ redoIf' = w.redoIf
      /\ errs' = w.errs /\ fatals' = w.fatals /\ syms' = w.syms /\ segs' = w.segs
      /\ cseg' = w.cseg /\ ifs' = w.ifs /\ reps' = w.reps /\ out' = w.out
      /\ clear' = w.clear /\ forg' = w.forg /\ orgFill' = w.orgFill /\ ip' = w.next
      /\ prog' = prog /\ format' = format /\ pass' = pass /\ old' = old
      /\ (w.dead /\ phase' = "exited" /\ status' = EXIT_FAILURE)
         \/ (~w.dead /\ phase' = phase /\ status' = status)
  BY DEF Commit, input
<1>3. DTypeOK'
  BY <1>1, <1>2 DEF IInv, DTypeOK, WorkType, EXIT_FAILURE
<1>4. Here' \in WorkType'
  <2>1. Here' \in WorkType
    <3>1. /\ redo' \in Nat /\ why' \in SUBSET Reasons /\ evals' \in Nat
          /\ redoIf' \in [now : BOOLEAN, before : BOOLEAN]
          /\ errs' \in Nat /\ fatals' \in Nat /\ ip' \in 1..(Len(prog) + 1)
          /\ syms' \in [Names -> SymbolType] /\ segs' \in [Segments -> SegmentType]
          /\ cseg' \in Segments /\ ifs' \in Seq(Condition) /\ reps' \in Seq(LoopType)
          /\ out' \in Seq(Block) /\ clear' \in BOOLEAN /\ forg' \in Int
          /\ orgFill' \in 0..(ByteLimit - 1)
      BY <1>1, <1>2 DEF WorkType
    <3>. QED
      BY <3>1 DEF Here, Work, WorkType
  <2>. QED
    BY <1>2, <2>1, SameSource
<1>5. /\ Here'.redo = w.redo /\ Here'.why = w.why /\ Here'.redoIf = w.redoIf
      /\ Here'.errs = w.errs /\ Here'.syms = w.syms /\ Here'.segs = w.segs
      /\ Here'.cseg = w.cseg /\ Here'.ifs = w.ifs /\ Here'.out = w.out
      /\ Here'.clear = w.clear /\ Here'.forg = w.forg /\ ~Here'.dead
  BY <1>2 DEF Here, Work
<1>6. Sound(Here)'
  BY <1>1, <1>5 DEF Sound
<1>7. Ordered(Here)'
  BY <1>1, <1>2, <1>5 DEF Ordered, InOrder
<1>8. ASSUME phase' \in {"lines", "closing"} \/ Succeeded' PROVE Final(Here)' /\ Placement(Here)'
  <2>1. ~w.dead
    BY <1>2, <1>8 DEF Succeeded
  <2>2. Final(Here)'
    BY <1>1, <1>2, <1>5, SameSupport DEF Final
  <2>3. Placement(Here)'
    <3>1. \A l : Settled(l)' <=> Settled(l)
      BY <1>2, SameSource
    <3>. QED
      BY <1>1, <1>2, <1>5, <2>1, <3>1 DEF Placement, Clean, PlacedAt
  <2>. QED
    BY <2>2, <2>3
<1>. QED
  BY <1>2, <1>3, <1>4, <1>6, <1>7, <1>8 DEF IInv

(* The steps of the driver: what each does to the assembler's globals.     *)
LEMMA DriverKeeps ==
  ASSUME IInv, StartPass \/ CannotOpen \/ CloseFile \/ Again \/ Return \/ UNCHANGED vars
  PROVE  IInv'
<1>1. DTypeOK'
  <2>1. CASE UNCHANGED vars
    BY <2>1 DEF vars, dvars, IInv, DTypeOK
  <2>. QED
    BY <2>1, DriverType DEF IInv, StartPass, CannotOpen, CloseFile, Again, Return
<1>2. prog' = prog /\ format' = format
  BY DEF StartPass, CannotOpen, CloseFile, Again, Return, vars, input
<1>3. /\ cseg' = cseg /\ forg' = forg /\ orgFill' = orgFill /\ errs' = errs
      /\ ip' \in {1, ip}
      /\ (ifs' = ifs /\ reps' = reps) \/ (ifs' = <<Base>> /\ reps' = <<>>)
      /\ (out' = out /\ clear' = clear) \/ (out' = <<>> /\ clear' = TRUE)
  BY DEF StartPass, CannotOpen, CloseFile, Again, Return, OpenPass, OpenFails, EndOfSource,
         Finished, NotResolvable, AbortFatal, TooManyPasses, TurnPass, NextPass, Exit,
         vars, dvars
<1>4. Here \in WorkType /\ Sound(Here) /\ Ordered(Here)
  BY DEF IInv
<1>5. /\ syms \in [Names -> SymbolType] /\ segs \in [Segments -> SegmentType]
      /\ cseg \in Segments /\ ifs \in Seq(Condition) /\ reps \in Seq(LoopType)
      /\ out \in Seq(Block) /\ clear \in BOOLEAN /\ forg \in Int
      /\ orgFill \in 0..(ByteLimit - 1) /\ ip \in 1..(Len(prog) + 1) /\ errs \in Nat
  BY <1>4 DEF Here, Work, WorkType
<1>6. \/ syms' = syms /\ segs' = segs
      \/ ClearRefs /\ ClearSegs
  BY DEF StartPass, CannotOpen, CloseFile, Again, Return, vars
<1>7. /\ syms' \in [Names -> SymbolType] /\ segs' \in [Segments -> SegmentType]
      /\ \A g \in Segments : /\ segs'[g].made = segs[g].made /\ segs'[g].bss = segs[g].bss
                             /\ segs'[g].org = segs[g].org
  <2>1. CASE ClearRefs /\ ClearSegs
    <3>1. syms' \in [Names -> SymbolType]
      BY <1>5, <2>1 DEF ClearRefs, SymbolType
    <3>2. /\ segs' \in [Segments -> SegmentType]
          /\ \A g \in Segments : /\ segs'[g].made = segs[g].made /\ segs'[g].bss = segs[g].bss
                                 /\ segs'[g].org = segs[g].org
      BY <1>5, <2>1 DEF ClearSegs, SegmentType
    <3>. QED
      BY <3>1, <3>2
  <2>. QED
    BY <1>5, <1>6, <2>1
<1>8. redoIf'.now <=> "if" \in why'
  <2>1. (redoIf' = redoIf /\ why' = why) \/ (~redoIf'.now /\ why' = {})
    BY DEF StartPass, CannotOpen, CloseFile, Again, Return, OpenPass, OpenFails, EndOfSource,
           Finished, NotResolvable, AbortFatal, TooManyPasses, TurnPass, NextPass, Exit,
           SaveTriple, ShiftRedoIf, vars, dvars
  <2>2. redoIf.now <=> "if" \in why
    BY <1>4 DEF Sound, Here, Work
  <2>. QED
    BY <2>1, <2>2
<1>9. /\ ifs' \in Seq(Condition) /\ reps' \in Seq(LoopType)
      /\ ifs' # <<>> /\ ifs'[Len(ifs')] = Base
  <2>1. ifs # <<>> /\ ifs[Len(ifs)] = Base
    BY <1>4 DEF Sound, Here, Work
  <2>2. <<Base>> \in Seq(Condition) /\ <<Base>> # <<>> /\ <<Base>>[Len(<<Base>>)] = Base
    BY DEF Base, Condition
  <2>3. <<>> \in Seq(LoopType)
    OBVIOUS
  <2>4. CASE ifs' = ifs /\ reps' = reps
    BY <1>5, <2>1, <2>4
  <2>5. CASE ifs' = <<Base>> /\ reps' = <<>>
    BY <2>2, <2>3, <2>5, Zenon
  <2>. QED
    BY <1>3, <2>4, <2>5
<1>10. out' \in Seq(Block) /\ clear' \in BOOLEAN /\ ip' \in 1..(Len(prog) + 1)
  <2>1. prog \in Seq(Statement)
    BY ProgramAssumption DEF IInv
  <2>2. ip' \in 1..(Len(prog) + 1)
    BY <1>3, <1>5, <2>1
  <2>3. <<>> \in Seq(Block) /\ TRUE \in BOOLEAN
    OBVIOUS
  <2>. QED
    BY <1>3, <1>5, <2>2, <2>3, Zenon
<1>11. Here' \in WorkType'
  <2>1. /\ redo' \in Nat /\ why' \in SUBSET Reasons /\ evals' \in Nat
        /\ redoIf' \in [now : BOOLEAN, before : BOOLEAN] /\ errs' \in Nat /\ fatals' \in Nat
    BY <1>1 DEF DTypeOK
  <2>2. /\ cseg' \in Segments /\ forg' \in Int /\ orgFill' \in 0..(ByteLimit - 1)
    BY <1>3, <1>5
  <2>3. Here' \in WorkType
    BY <1>7, <1>9, <1>10, <2>1, <2>2 DEF Here, Work, WorkType
  <2>. QED
    BY <1>2, <2>3, SameSource
<1>12. /\ Here.why = why /\ Here.redoIf = redoIf /\ Here.errs = errs /\ Here.syms = syms
       /\ Here.segs = segs /\ Here.cseg = cseg /\ Here.ifs = ifs /\ Here.out = out
       /\ Here.clear = clear /\ Here.forg = forg /\ Here.redo = redo /\ ~Here.dead
       /\ Here'.why = why' /\ Here'.redoIf = redoIf' /\ Here'.errs = errs' /\ Here'.syms = syms'
       /\ Here'.segs = segs' /\ Here'.cseg = cseg' /\ Here'.ifs = ifs' /\ Here'.out = out'
       /\ Here'.clear = clear' /\ Here'.forg = forg' /\ Here'.redo = redo' /\ ~Here'.dead
  BY DEF Here, Work
<1>13. Sound(Here)'
  <2>1. segs[cseg].made /\ \A g \in Segments : segs[g].bss => segs[g].made
    BY <1>4, <1>12 DEF Sound
  <2>. QED
    BY <1>3, <1>5, <1>7, <1>8, <1>9, <1>12, <2>1 DEF Sound
<1>14. Ordered(Here)'
  <2>1. /\ clear => out = <<>>
        /\ errs = 0 => forg >= 0 /\ \A g \in Segments : segs[g].org >= 0
        /\ errs = 0 /\ format = "RAW" => InOrder(Here)
    BY <1>4, <1>12 DEF Ordered
  <2>2. clear' => out' = <<>>
    BY <1>3, <2>1
  <2>3. errs' = 0 => forg' >= 0 /\ \A g \in Segments : segs'[g].org >= 0
    BY <1>3, <1>7, <2>1
  <2>4. ASSUME errs' = 0, format' = "RAW" PROVE InOrder(Here)'
    <3>1. InOrder(Here)
      BY <1>2, <1>3, <2>1, <2>4
    <3>2. CASE out' = out
      BY <1>3, <1>12, <3>1, <3>2 DEF InOrder
    <3>3. CASE out' = <<>>
      BY <1>12, <3>3 DEF InOrder
    <3>. QED
      BY <1>3, <3>2, <3>3
  <2>. QED
    BY <1>12, <2>2, <2>3, <2>4 DEF Ordered
<1>15. ASSUME phase' \in {"lines", "closing"} \/ Succeeded'
       PROVE  Final(Here)' /\ Placement(Here)'
  <2>1. StartPass \/ CloseFile \/ (Return /\ Finished) \/ UNCHANGED vars
    <3>1. DTypeOK
      BY DEF IInv
    <3>. QED
      BY <1>15, <3>1 DEF StartPass, CannotOpen, CloseFile, Again, Return, OpenPass, OpenFails,
            EndOfSource, Finished, NotResolvable, AbortFatal, TooManyPasses, TurnPass, NextPass,
            Exit, Succeeded, DTypeOK
  <2>2. CASE StartPass
    BY <1>12, <2>2 DEF StartPass, Final, Placement
  <2>3. CASE CloseFile \/ (Return /\ Finished) \/ UNCHANGED vars
    <3>1. /\ syms' = syms /\ segs' = segs /\ out' = out /\ redo' = redo
          /\ phase \in {"lines", "closing"} \/ Succeeded
      BY <1>15, <2>3 DEF CloseFile, Return, EndOfSource, Finished, Succeeded, vars, dvars
    <3>2. Final(Here) /\ Placement(Here)
      BY <3>1 DEF IInv
    <3>3. Final(Here)'
      BY <1>2, <1>12, <3>1, <3>2, SameSupport DEF Final
    <3>4. Placement(Here)'
      <4>1. \A l : Settled(l)' <=> Settled(l)
        BY <1>2, SameSource
      <4>. QED
        BY <1>2, <1>12, <3>1, <3>2, <4>1 DEF Placement, Clean, PlacedAt
    <3>. QED
      BY <3>3, <3>4
  <2>. QED
    BY <2>1, <2>2, <2>3
<1>16. prog' \in Programs /\ format' \in Formats
  BY <1>2 DEF IInv
<1>. QED
  BY <1>1, <1>11, <1>13, <1>14, <1>15, <1>16 DEF IInv

LEMMA Starts == Init => IInv
<1> SUFFICES ASSUME Init PROVE IInv
  OBVIOUS
<1>1. /\ prog \in Programs /\ format \in Formats /\ DInit /\ ip = 1
      /\ syms = [n \in Names |-> NoSymbol]
      /\ segs = [g \in Segments |-> [NoSegment EXCEPT !.made = (g = InitSeg)]]
      /\ cseg = InitSeg /\ ifs = <<Base>> /\ reps = <<>>
      /\ out = <<>> /\ clear = TRUE /\ forg = 0 /\ orgFill = ByteLimit - 1
  BY DEF Init
<1>2. DTypeOK
  BY <1>1 DEF DInit, DTypeOK, NoTriple, Running, EXIT_SUCCESS, EXIT_FAILURE
<1>3. prog \in Seq(Statement) /\ Len(prog) \in Nat
  BY <1>1, ProgramAssumption
<1>4. InitSeg \in Segments /\ ByteLimit \in Nat \ {0}
  BY AssemblyAssumption
<1>5. /\ syms \in [Names -> SymbolType] /\ segs \in [Segments -> SegmentType]
      /\ segs[cseg].made
      /\ \A g \in Segments : ~segs[g].bss /\ segs[g].org = 0
  <2>1. syms \in [Names -> SymbolType]
    BY <1>1 DEF NoSymbol, SymbolType
  <2>2. \A g \in Segments :
          segs[g] = [made |-> (g = InitSeg), bss |-> FALSE, org |-> 0, unknown |-> TRUE,
                     rorging |-> FALSE, rorg |-> 0, runknown |-> TRUE]
    BY <1>1 DEF NoSegment
  <2>3. \A g \in Segments : segs[g] \in SegmentType
    <3> SUFFICES ASSUME NEW g \in Segments PROVE segs[g] \in SegmentType
      OBVIOUS
    <3>1. \A b \in BOOLEAN : [made |-> b, bss |-> FALSE, org |-> 0, unknown |-> TRUE,
                             rorging |-> FALSE, rorg |-> 0, runknown |-> TRUE] \in SegmentType
      BY DEF SegmentType
    <3>2. (g = InitSeg) \in BOOLEAN
      OBVIOUS
    <3>. QED
      BY <2>2, <3>1, <3>2, Zenon
  <2>4. segs \in [Segments -> SegmentType]
    BY <1>1, <2>3
  <2>5. segs[cseg].made
    BY <1>1, <1>4, <2>2
  <2>. QED
    BY <2>1, <2>2, <2>4, <2>5
<1>6. ifs \in Seq(Condition) /\ ifs # <<>> /\ ifs[Len(ifs)] = Base
  BY <1>1 DEF Base, Condition
<1>7. reps \in Seq(LoopType) /\ out \in Seq(Block) /\ clear \in BOOLEAN
  BY <1>1
<1>8. ip \in 1..(Len(prog) + 1) /\ forg \in Int /\ orgFill \in 0..(ByteLimit - 1)
  BY <1>1, <1>3, <1>4
<1>9. /\ redo = 0 /\ why = {} /\ errs = 0 /\ ~redoIf.now
      /\ redo \in Nat /\ why \in SUBSET Reasons /\ evals \in Nat
      /\ redoIf \in [now : BOOLEAN, before : BOOLEAN] /\ errs \in Nat /\ fatals \in Nat
  BY <1>1, <1>2 DEF DInit, DTypeOK
<1>10. Here \in WorkType
  BY <1>1, <1>4, <1>5, <1>6, <1>7, <1>8, <1>9 DEF Here, Work, WorkType
<1>11. Sound(Here)
  BY <1>5, <1>6, <1>9 DEF Here, Work, Sound
<1>12. Ordered(Here)
  BY <1>1, <1>5 DEF Here, Work, Ordered, InOrder
<1>13. Final(Here) /\ Placement(Here)
  BY <1>1 DEF Here, Work, Final, Placement
<1>. QED
  BY <1>1, <1>2, <1>10, <1>11, <1>12, <1>13 DEF IInv

(* The invariant holds in every state, whatever the source.                *)
THEOREM AssemblyInductive == Spec => []IInv
<1>1. IInv /\ [Next]_vars => IInv'
  BY LineGood, CommitKeeps, DriverKeeps DEF Next
<1>. QED
  BY <1>1, Starts, PTL DEF Spec

(* Type correctness of the assembler's globals: the current segment        *)
(* exists, Ifstack never loses its base, a loop on Reploop has rounds left *)
(* and a line of the source to go back to.                                 *)
THEOREM AssemblyTypes == Spec => []TypeOK
<1>1. IInv => TypeOK
  <2> SUFFICES ASSUME IInv PROVE TypeOK
    OBVIOUS
  <2>1. Here \in WorkType /\ Sound(Here) /\ DTypeOK
    BY DEF IInv
  <2>2. /\ syms \in [Names -> SymbolType] /\ segs \in [Segments -> SegmentType]
        /\ cseg \in Segments /\ ifs \in Seq(Condition) /\ reps \in Seq(LoopType)
        /\ clear \in BOOLEAN /\ forg \in Int
        /\ orgFill \in 0..(ByteLimit - 1) /\ ip \in 1..(Len(prog) + 1)
    BY <2>1 DEF Here, Work, WorkType
  <2>3. segs[cseg].made /\ ifs # <<>> /\ ifs[Len(ifs)] = Base
    BY <2>1 DEF Here, Work, Sound
  <2>4. \A i \in DOMAIN reps : reps[i].from \in 1..(Len(prog) + 1) /\ reps[i].count > 0
    <3> SUFFICES ASSUME NEW i \in DOMAIN reps
                 PROVE  reps[i].from \in 1..(Len(prog) + 1) /\ reps[i].count > 0
      OBVIOUS
    <3>1. reps[i] \in LoopType
      BY <2>2
    <3>. QED
      BY <3>1 DEF LoopType
  <2>. QED
    BY <2>1, <2>2, <2>3, <2>4 DEF TypeOK, SymbolType, SegmentType, Condition
<1>. QED
  BY <1>1, AssemblyInductive, PTL

-----------------------------------------------------------------------------
(* The point of the multi-pass design, for every source: an assembly that  *)
(* ends without another Redo has used final values in every byte.          *)
THEOREM FinalValues == Spec => []OutputUsesFinalValues
<1>1. IInv => OutputUsesFinalValues
  <2> SUFFICES ASSUME IInv, Succeeded, NEW i \in DOMAIN out
               PROVE  BlockFinal(syms, out[i])
    BY DEF OutputUsesFinalValues
  <2>1. Final(Here) /\ Here \in WorkType
    BY DEF IInv
  <2>2. redo = 0 /\ out \in Seq(Block) /\ Here.redo = redo /\ Here.out = out /\ Here.syms = syms
    BY <2>1 DEF Succeeded, Here, Work, WorkType
  <2>3. i \in 1..Len(out)
    BY <2>2
  <2>4. Supported(syms, out[i])
    BY <2>1, <2>2, <2>3 DEF Final
  <2>. QED
    BY <2>4 DEF Supported
<1>. QED
  BY <1>1, AssemblyInductive, PTL

(* A label in the final table is the address its code was written for.     *)
THEOREM LabelsMatch == Spec => []LabelsMatchOutput
<1>1. IInv => LabelsMatchOutput
  <2> SUFFICES ASSUME IInv, Succeeded, \A i \in DOMAIN out : out[i].known,
                      \A g \in Segments : ~segs[g].bss, NEW i \in DOMAIN out,
                      Settled(prog[out[i].line].lab)
               PROVE  LET l == prog[out[i].line].lab
                      IN  ~syms[l].unknown /\ syms[l].value = out[i].pc
    BY DEF LabelsMatchOutput, Settled
  <2>1. Placement(Here) /\ Here \in WorkType
    BY DEF IInv
  <2>2. /\ redo = 0 /\ out \in Seq(Block) /\ Here.redo = redo /\ Here.out = out
        /\ Here.syms = syms /\ Here.segs = segs /\ ~Here.dead
    BY <2>1 DEF Succeeded, Here, Work, WorkType
  <2>3. DOMAIN out = 1..Len(out)
    BY <2>2
  <2>4. Clean(Here)
    BY <2>2, <2>3 DEF Clean
  <2>5. PlacedAt(Here, out[i])
    BY <2>1, <2>2, <2>3, <2>4 DEF Placement
  <2>. QED
    BY <2>2, <2>5 DEF PlacedAt
<1>. QED
  BY <1>1, AssemblyInductive, PTL

(* In the formats without hunks no byte is written over or out of order,   *)
(* as long as no address was told as an error.                             *)
THEOREM Ascending == Spec => []AscendingOutput
<1>1. IInv => AscendingOutput
  <2> SUFFICES ASSUME IInv, format = "RAW", errs = 0, NEW i \in DOMAIN out,
                      NEW j \in DOMAIN out, i < j
               PROVE  out[i].addr + out[i].len <= out[j].addr
    BY DEF AscendingOutput
  <2>1. Ordered(Here) /\ Here \in WorkType
    BY DEF IInv
  <2>2. out \in Seq(Block) /\ Here.out = out /\ Here.errs = errs
    BY <2>1 DEF Here, Work, WorkType
  <2>3. InOrder(Here)
    BY <2>1, <2>2 DEF Ordered
  <2>. QED
    BY <2>2, <2>3 DEF InOrder
<1>. QED
  BY <1>1, AssemblyInductive, PTL

-----------------------------------------------------------------------------
(* The assembler implements the pass loop: every handler is a Line or a    *)
(* Panic of PassDriver, every other step the driver's own.  Counts is a    *)
(* bound for TLC only; the code has none.                                  *)
LEMMA StepRefines ==
  ASSUME Counts = Nat, IInv, [Next]_vars
  PROVE  [DNext]_dvars
<1>1. CASE LineStep
  <2>1. PICK w : Good(Work, w) /\ Commit(w)
    BY <1>1, LineGood
  <2>2. phase = "lines"
    BY <1>1, LineGood
  <2>3. w \in WorkType /\ Sound(w) /\ Accrues(Work, w) /\ Sound(Here)
    BY <2>1 DEF Good, WorkOK, IInv
  <2>4. /\ redo' = w.redo /\ why' = w.why /\ evals' = w.evals /\ redoIf' = w.redoIf
        /\ errs' = w.errs /\ fatals' = w.fatals /\ UNCHANGED <<pass, old>>
        /\ IF w.dead THEN phase' = "exited" /\ status' = EXIT_FAILURE
                     ELSE UNCHANGED <<phase, status>>
    BY <2>1 DEF Commit
  <2>5. /\ redo <= w.redo /\ evals <= w.evals /\ errs <= w.errs /\ fatals <= w.fatals
        /\ why \subseteq w.why
        /\ w.redo = redo => w.why = why
        /\ w.redo # redo => w.why # {}
        /\ w.redoIf.before = redoIf.before
        /\ w.dead => fatals < w.fatals
    BY <2>3 DEF Accrues, Work
  <2>6. redoIf' = [redoIf EXCEPT !.now = @ \/ IfReason \in why']
    <3>1. redoIf \in [now : BOOLEAN, before : BOOLEAN]
          /\ w.redoIf \in [now : BOOLEAN, before : BOOLEAN]
      BY <2>3 DEF IInv, DTypeOK, WorkType
    <3>2. redoIf.now <=> "if" \in why
      BY <2>3 DEF Sound, Here, Work
    <3>3. w.redoIf.now <=> "if" \in w.why
      BY <2>3 DEF Sound
    <3>4. IfReason = "if"
      BY AssemblyAssumption
    <3>5. w.redoIf.now <=> (redoIf.now \/ IfReason \in w.why)
      BY <2>5, <3>2, <3>3, <3>4
    <3>6. w.redoIf.now = (redoIf.now \/ IfReason \in w.why)
      BY <3>1, <3>5
    <3>. QED
      BY <2>4, <2>5, <3>1, <3>6
  <2>7. /\ w.redo \in Nat /\ w.evals \in Nat /\ w.errs \in Nat /\ w.fatals \in Nat
        /\ w.why \in SUBSET Reasons
    BY <2>3 DEF WorkType
  <2>8. Accrue
    BY <2>4, <2>5, <2>6, <2>7 DEF Accrue
  <2>9. CASE w.dead
    BY <2>2, <2>4, <2>5, <2>8, <2>9 DEF Panic, DNext
  <2>10. CASE ~w.dead
    BY <2>2, <2>4, <2>8, <2>10 DEF Line, DNext
  <2>. QED
    BY <2>9, <2>10
<1>2. CASE StartPass \/ CannotOpen \/ CloseFile \/ Again \/ Return
  BY <1>2 DEF StartPass, CannotOpen, CloseFile, Again, Return, DNext
<1>3. CASE UNCHANGED vars
  BY <1>3 DEF vars
<1>. QED
  BY <1>1, <1>2, <1>3 DEF Next

(* Every step of the line loop with its handlers is a step of MainShadow   *)
(* as PassDriver has it: counters only grow within a pass, with a reason   *)
(* for each Redo.  (Counts only bounds what TLC enumerates.)               *)
THEOREM ImplementsDriver == ASSUME Counts = Nat PROVE Spec => DSpec
<1>1. Init => DInit
  BY DEF Init
<1>2. IInv /\ [Next]_vars => [DNext]_dvars
  BY StepRefines
<1>. QED
  BY <1>1, <1>2, AssemblyInductive, PTL DEF Spec, DSpec

(* What is proved of the pass loop holds of the assembler.                 *)
COROLLARY AssemblerPasses ==
  ASSUME Counts = Nat
  PROVE  Spec => /\ []PassLimit /\ []IfSuppression /\ []OldAskedForRetry
                 /\ FatalStopsPasses /\ UnresolvedIsReported
BY ImplementsDriver, PassLimitHolds, IfSuppressionHolds, OldAskedForRetryHolds,
   FatalIsFinal, UnresolvedReported, PTL
-----------------------------------------------------------------------------
(* Loops.  While nothing asks for another pass, a loop at the outermost    *)
(* level is in front, in its rounds, or behind; or its count is a label    *)
(* the table does not know yet, which asks for another pass when it comes. *)
Skipped == [xtrue |-> FALSE, acctrue |-> TRUE]
Outside(m) == m.ifs = <<Base>> /\ m.reps = <<>>
Beyond(m, k) == \A j \in 1..Len(m.reps) : m.reps[j].from > k
CopiesIn(o, l) == {k \in 1..Len(o) : o[k].line = l}
RoundsOf(t, e) == IF e.sym \in Names THEN t[e.sym].value + e.add ELSE e.add
TimesOf(t, e) == IF RoundsOf(t, e) > 0 THEN RoundsOf(t, e) ELSE 0
Waiting(t, x) == t[x].unknown /\ t[x].ref
Patient(x) == x \in Names /\ x \notin SetNames /\ x \notin EquNames

(* The loop of line i in a round, c copies of its body written.            *)
InRound(m, i, c, n) ==
  \E r \in 1..n :
    /\ m.reps = <<[from |-> i + 1, count |-> r, unknown |-> FALSE]>>
    /\ m.ifs = <<Base, Base>>
    /\ c = n - r + (IF m.next = i + 2 THEN 1 ELSE 0)
LeftOut(m, c, n) == m.reps = <<>> /\ m.ifs = <<Skipped, Base>> /\ n = 0 /\ c = 0

(* The lines in front of the next one that give the count have done so.    *)
Told(m, i) ==
  \A j \in 1..Len(prog) : Gives(j, i) /\ j < m.next => ~m.syms[prog[i].arg.sym].unknown

Looped(m, i) ==
  LET e == prog[i].arg
      c == Cardinality(CopiesIn(m.out, i + 1))
      n == TimesOf(m.syms, e)
  IN  /\ m.next <= i => Outside(m) /\ c = 0 /\ Told(m, i)
      /\ m.next > i =>
           \/ Patient(e.sym) /\ Waiting(m.syms, e.sym) /\ Beyond(m, i)
           \/ /\ Backs(m.syms, e)
              /\ m.next <= i + 2 => InRound(m, i, c, n) \/ LeftOut(m, c, n)
              /\ m.next > i + 2 => Beyond(m, i + 2) /\ c = n

(* No other pass is needed so far, and every segment is written.           *)
Going(m) == m.redo = 0 /\ ~m.dead /\ \A g \in Segments : ~m.segs[g].bss
Watched(i) ==
  i \in 1..Len(prog) /\ Bare(i) /\ Fixed(prog[i].arg) /\ GivenInFront(i)
Loops(m) == Going(m) => \A i \in 1..Len(prog) : Watched(i) => Looped(m, i)

RepInv ==
  /\ phase \in {"open", "closing", "returned"} => Outside(Here)
  /\ phase = "closing" \/ Succeeded => ip > Len(prog)
  /\ phase \in {"lines", "closing"} \/ Succeeded => Loops(Here)

(* While nothing asks for another pass, a line leaves a name that is read  *)
(* before it is known as it is: a label that comes to it asks for a pass.  *)
Waits(m, n) ==
  n.redo = 0 => \A x \in Names : Patient(x) /\ Waiting(m.syms, x) => Waiting(n.syms, x)

(* What evaluation, labels and counters leave alone.                       *)
SamePlace(m, n) == n.ifs = m.ifs /\ n.reps = m.reps /\ n.next = m.next
Calm(m, n) ==
  /\ n \in WorkType /\ m.redo <= n.redo /\ SamePlace(m, n) /\ n.out = m.out
  /\ Waits(m, n)

(* A line that is no condition and no loop writes one block at most.       *)
OneMore(o, p) == \E b \in Block : p = Append(o, b) /\ b.line = ip
Straight(m, n) ==
  /\ n \in WorkType /\ m.redo <= n.redo /\ SamePlace(m, n)
  /\ n.out = m.out \/ OneMore(m.out, n.out)
  /\ Waits(m, n)

LEMMA CalmSelf == ASSUME NEW m \in WorkType PROVE Calm(m, m)
BY DEF Calm, SamePlace, Waits, WorkType

LEMMA CalmTrans ==
  ASSUME NEW m \in WorkType, NEW n, NEW p, Calm(m, n), Calm(n, p)
  PROVE  Calm(m, p)
<1>1. m.redo \in Nat /\ n.redo \in Nat /\ p.redo \in Nat
  BY DEF Calm, WorkType
<1>2. m.redo <= p.redo /\ (p.redo = 0 => n.redo = 0)
  BY <1>1 DEF Calm
<1>. QED
  BY <1>2 DEF Calm, SamePlace, Waits

LEMMA CalmStraight ==
  ASSUME NEW m \in WorkType, NEW n, NEW p, Calm(m, n), Straight(n, p)
  PROVE  Straight(m, p)
<1>1. m.redo \in Nat /\ n.redo \in Nat /\ p.redo \in Nat
  BY DEF Calm, Straight, WorkType
<1>2. m.redo <= p.redo /\ (p.redo = 0 => n.redo = 0)
  BY <1>1 DEF Calm, Straight
<1>. QED
  BY <1>2 DEF Calm, Straight, SamePlace, Waits

LEMMA StraightCalm ==
  ASSUME NEW m \in WorkType, NEW n, NEW p, Straight(m, n), Calm(n, p)
  PROVE  Straight(m, p)
<1>1. m.redo \in Nat /\ n.redo \in Nat /\ p.redo \in Nat
  BY DEF Calm, Straight, WorkType
<1>2. m.redo <= p.redo /\ (p.redo = 0 => n.redo = 0)
  BY <1>1 DEF Calm, Straight
<1>. QED
  BY <1>2 DEF Calm, Straight, SamePlace, Waits

LEMMA CalmIsStraight == ASSUME NEW m, NEW n, Calm(m, n) PROVE Straight(m, n)
BY DEF Calm, Straight

(* The symbols stay and the counters do not fall.                          *)
LEMMA CalmIfSame ==
  ASSUME NEW m \in WorkType, NEW n \in WorkType, m.redo <= n.redo, SamePlace(m, n),
         n.out = m.out, n.syms = m.syms
  PROVE  Calm(m, n)
BY DEF Calm, Waits

LEMMA CalmNeed ==
  ASSUME NEW m \in WorkType, NEW r \in WhyNeeded, NEW c
  PROVE  Calm(m, Need(m, r)) /\ Calm(m, NeedIf(c, m, r)) /\ Need(m, r).redo # 0
<1>1. r \in Reasons /\ m.redo \in Nat /\ m.redo + 1 \in Nat
  BY AssemblyAssumption DEF WorkType
<1> DEFINE n == Need(m, r)
<1>2. n \in WorkType
  <2>1. m.redo + 1 \in Nat /\ m.why \cup {r} \in SUBSET Reasons
    BY <1>1 DEF WorkType
  <2>2. [m EXCEPT !.redo = m.redo + 1] \in WorkType
    BY <2>1 DEF WorkType
  <2>. QED
    BY <2>1, <2>2 DEF Need, WorkType
<1>3. n.redo = m.redo + 1 /\ SamePlace(m, n) /\ n.out = m.out /\ n.syms = m.syms
  BY DEF Need, WorkType, SamePlace
<1> HIDE DEF n
<1>4. Calm(m, n)
  BY <1>1, <1>2, <1>3, CalmIfSame
<1>5. n.redo # 0
  BY <1>1, <1>3
<1>. QED
  BY <1>4, <1>5, CalmSelf DEF n, NeedIf

LEMMA CalmError == ASSUME NEW m \in WorkType, NEW c PROVE Calm(m, ErrorIf(c, m))
<1>1. m.errs + 1 \in Nat /\ m.redo \in Nat
  BY DEF WorkType
<1>2. Error(m) \in WorkType
  BY <1>1 DEF Error, WorkType
<1>3. SamePlace(m, Error(m)) /\ Error(m).out = m.out /\ Error(m).syms = m.syms
      /\ Error(m).redo = m.redo
  BY DEF Error, WorkType, SamePlace
<1>4. Calm(m, Error(m))
  BY <1>1, <1>2, <1>3, CalmIfSame
<1>. QED
  BY <1>4, CalmSelf DEF ErrorIf

LEMMA CalmSegment ==
  ASSUME NEW m \in WorkType, NEW g \in SegmentType
  PROVE  Calm(m, WithSeg(m, g))
<1> DEFINE t == [m.segs EXCEPT ![m.cseg] = g]
<1>1. t \in [Segments -> SegmentType] /\ m.redo \in Nat
  BY DEF WorkType
<1>2. WithSeg(m, g) = [m EXCEPT !.segs = t]
  BY DEF WithSeg, WorkType
<1> HIDE DEF t
<1>3. WithSeg(m, g) \in WorkType
  BY <1>1, <1>2 DEF WorkType
<1>4. /\ SamePlace(m, WithSeg(m, g)) /\ WithSeg(m, g).out = m.out
      /\ WithSeg(m, g).syms = m.syms /\ WithSeg(m, g).redo = m.redo
  BY <1>2 DEF WorkType, SamePlace
<1>. QED
  BY <1>1, <1>3, <1>4, CalmIfSame

LEMMA CalmRead == ASSUME NEW m \in WorkType, NEW e PROVE Calm(m, Read(m, e))
<1> DEFINE n == Read(m, e)
           k == IF Value(m, e).unknown THEN m.evals + 1 ELSE m.evals
<1>1. k \in Nat /\ m.redo \in Nat
  BY DEF WorkType
<1> HIDE DEF k
<1>2. CASE e.sym \in Names
  <2> DEFINE t == [m.syms EXCEPT ![e.sym].ref = TRUE]
  <2>1. t \in [Names -> SymbolType]
    BY <1>2 DEF WorkType, SymbolType
  <2>2. n = [m EXCEPT !.evals = k, !.syms = t]
    BY <1>2 DEF Read, WorkType, k
  <2>3. \A x \in Names : Waiting(m.syms, x) => Waiting(t, x)
    BY <1>2 DEF WorkType, Waiting, SymbolType
  <2> HIDE DEF n, t
  <2>4. n \in WorkType
    BY <1>1, <2>1, <2>2 DEF WorkType
  <2>5. SamePlace(m, n) /\ n.out = m.out /\ n.redo = m.redo /\ n.syms = t
    BY <2>2 DEF WorkType, SamePlace
  <2>. QED
    BY <1>1, <2>3, <2>4, <2>5 DEF Calm, Waits, n
<1>3. CASE e.sym \notin Names
  <2>1. n = [m EXCEPT !.evals = k]
    BY <1>3 DEF Read, k
  <2> HIDE DEF n
  <2>2. n \in WorkType
    BY <1>1, <2>1 DEF WorkType
  <2>3. SamePlace(m, n) /\ n.out = m.out /\ n.redo = m.redo /\ n.syms = m.syms
    BY <2>1 DEF WorkType, SamePlace
  <2>. QED
    BY <1>1, <2>2, <2>3, CalmIfSame DEF n
<1>. QED
  BY <1>2, <1>3

(* A label that somebody may wait for is not set without another pass.     *)
LEMMA CalmLabel == ASSUME NEW m \in WorkType, NEW lab PROVE Calm(m, Label(m, lab))
<1>1. CASE lab \notin Names
  BY <1>1, CalmSelf DEF Label
<1>2. CASE lab \in Names
  <2> DEFINE s == m.syms[lab]
             pc == Pc(m)
             r == Redefined(m, s, pc)
             v == [value |-> pc.value, unknown |-> pc.unknown, ref |-> s.ref]
             n == [r EXCEPT !.syms[lab] = v]
  <2>1. pc \in PcRecord /\ s \in SymbolType /\ m.redo \in Nat
    BY <1>2, PcType DEF WorkType
  <2>2. v \in SymbolType
    BY <2>1 DEF PcRecord, SymbolType
  <2>3. Label(m, lab) = n
    BY <1>2 DEF Label
  <2>4. Calm(m, r) /\ (s.ref /\ s.unknown => r.redo # 0) /\ r.syms = m.syms
    <3> DEFINE q == ErrorIf(~m.redoIf.before, m)
    <3>1. Calm(m, q) /\ q \in WorkType /\ q.syms = m.syms
      BY CalmError DEF Calm, ErrorIf, Error, WorkType
    <3> HIDE DEF q
    <3>2. /\ Calm(m, Need(m, "forward")) /\ Calm(q, Need(q, "phase"))
          /\ Need(m, "forward").redo # 0
          /\ Need(m, "forward").syms = m.syms /\ Need(q, "phase").syms = m.syms
      BY <3>1, CalmNeed, NeedFields DEF WhyNeeded
    <3>3. Calm(m, Need(q, "phase"))
      BY <3>1, <3>2, CalmTrans
    <3>. QED
      BY <3>2, <3>3, CalmSelf DEF Redefined, q
  <2> HIDE DEF r, v
  <2>5. r \in WorkType /\ r.redo \in Nat /\ m.redo <= r.redo
    BY <2>4 DEF Calm, WorkType
  <2> DEFINE t == [r.syms EXCEPT ![lab] = v]
  <2>6. t \in [Names -> SymbolType]
    BY <1>2, <2>2, <2>5 DEF WorkType
  <2>7. \A x \in Names : x # lab => t[x] = m.syms[x]
    BY <2>4, <2>5 DEF WorkType
  <2>8. n = [r EXCEPT !.syms = t]
    BY <2>5 DEF WorkType
  <2> HIDE DEF n, t
  <2>9. n \in WorkType
    BY <2>5, <2>6, <2>8 DEF WorkType
  <2>10. SamePlace(r, n) /\ n.out = r.out /\ n.redo = r.redo /\ n.syms = t
    BY <2>5, <2>8 DEF WorkType, SamePlace
  <2>11. SamePlace(m, n) /\ n.out = m.out
    BY <2>4, <2>10 DEF Calm, SamePlace
  <2>12. Waits(m, n)
    BY <2>4, <2>7, <2>10 DEF Waits, Waiting
  <2>. QED
    BY <2>3, <2>5, <2>9, <2>10, <2>11, <2>12 DEF Calm
<1>. QED
  BY <1>1, <1>2

(* generate, and what it may leave.                                        *)
LEMMA AdvanceCalm ==
  ASSUME NEW m \in WorkType, NEW len \in Nat
  PROVE  Calm(m, Advance(m, len))
<1> DEFINE h == Current(m)
           g == [h EXCEPT !.org = @ + len,
                          !.rorg = IF h.rorging THEN @ + len ELSE @]
<1>1. h \in SegmentType
  BY DEF WorkType, Current
<1> HIDE DEF h
<1>2. h.org + len \in Int /\ h.rorg + len \in Int /\ h.rorg \in Int
  BY <1>1 DEF SegmentType
<1>3. (IF h.rorging THEN h.rorg + len ELSE h.rorg) \in Int
  BY <1>2
<1>4. g \in SegmentType
  BY <1>1, <1>2, <1>3 DEF SegmentType
<1>5. Advance(m, len) = WithSeg(m, g)
  BY DEF Advance, h
<1> HIDE DEF g
<1>. QED
  BY <1>4, <1>5, CalmSegment

LEMMA BlockType ==
  ASSUME NEW m \in WorkType, ip \in Int, NEW val \in Int, NEW len \in Nat
  PROVE  BlockOf(m, ip, val, len) \in Block /\ BlockOf(m, ip, val, len).line = ip
<1>1. Current(m) \in SegmentType /\ Pc(m) \in PcRecord /\ m.cseg \in Segments
  BY PcType DEF WorkType, Current
<1>2. Current(m).org \in Int /\ Pc(m).value \in Int
  BY <1>1 DEF SegmentType, PcRecord
<1>3. (~Pc(m).unknown) \in BOOLEAN
  OBVIOUS
<1>. QED
  BY <1>1, <1>2, <1>3 DEF BlockOf, Block

LEMMA WriteStraight ==
  ASSUME NEW m \in WorkType, ip \in Int, NEW val \in Int, NEW len \in Nat
  PROVE  /\ Straight(m, Write(m, ip, val, len))
         /\ LET n == Write(m, ip, val, len)
            IN  n.redo = 0 /\ ~n.dead => OneMore(m.out, n.out)
<1> DEFINE g == Current(m)
           from == IF m.clear THEN g.org ELSE m.forg
           b == BlockOf(m, ip, val, len)
           m0 == [m EXCEPT !.clear = FALSE]
           md == [m EXCEPT !.clear = FALSE, !.fatals = @ + 1, !.dead = TRUE]
           m1 == [m EXCEPT !.clear = FALSE, !.forg = g.org + len, !.out = Append(@, b)]
<1>1. /\ Write(m, ip, val, len) =
           IF m.clear /\ g.unknown THEN Need(m0, "obscure")
           ELSE IF Reversed(g, from) THEN md ELSE Advance(m1, len)
  BY DEF Write
<1>2. g \in SegmentType /\ g.org + len \in Int /\ m.redo \in Nat /\ m.fatals + 1 \in Nat
      /\ m.out \in Seq(Block) /\ b \in Block /\ b.line = ip
  <2>1. g \in SegmentType
    BY DEF WorkType, Current
  <2>2. g.org \in Int
    BY <2>1 DEF SegmentType
  <2>3. b \in Block /\ b.line = ip
    BY BlockType
  <2>4. m.redo \in Nat /\ m.fatals \in Nat /\ m.out \in Seq(Block)
    BY DEF WorkType
  <2> HIDE DEF g, b
  <2>. QED
    BY <2>1, <2>2, <2>3, <2>4
<1> HIDE DEF g, b
<1>3. Straight(m, Need(m0, "obscure")) /\ Need(m0, "obscure").redo # 0
  <2>1. m0 \in WorkType
    BY DEF WorkType
  <2>2. SamePlace(m, m0) /\ m0.out = m.out /\ m0.syms = m.syms /\ m0.redo = m.redo
    BY DEF WorkType, SamePlace
  <2> HIDE DEF m0
  <2>3. Calm(m, m0)
    BY <1>2, <2>1, <2>2, CalmIfSame
  <2>4. Calm(m0, Need(m0, "obscure")) /\ Need(m0, "obscure").redo # 0
    BY <2>1, CalmNeed DEF WhyNeeded
  <2>. QED
    BY <2>3, <2>4, CalmTrans, CalmIsStraight
<1>4. Straight(m, md) /\ md.dead
  <2>1. md = [m EXCEPT !.clear = FALSE, !.fatals = m.fatals + 1, !.dead = TRUE]
    BY DEF WorkType
  <2> HIDE DEF md
  <2>2. md \in WorkType
    BY <1>2, <2>1 DEF WorkType
  <2>3. SamePlace(m, md) /\ md.out = m.out /\ md.syms = m.syms /\ md.redo = m.redo /\ md.dead
    BY <2>1 DEF WorkType, SamePlace
  <2>. QED
    BY <1>2, <2>2, <2>3, CalmIfSame, CalmIsStraight
<1>5. Straight(m, Advance(m1, len)) /\ OneMore(m.out, Advance(m1, len).out)
  <2> DEFINE o == Append(m.out, b)
             f == g.org + len
  <2>1. o \in Seq(Block)
    BY <1>2, AppendProperties
  <2>2. f \in Int
    BY <1>2
  <2>3. OneMore(m.out, o)
    BY <1>2 DEF OneMore
  <2>4. m1 = [m EXCEPT !.clear = FALSE, !.forg = f, !.out = o]
    BY DEF WorkType
  <2> HIDE DEF o, f, m1
  <2>5. m1 \in WorkType
    BY <2>1, <2>2, <2>4 DEF WorkType
  <2>6. SamePlace(m, m1) /\ m1.out = o /\ m1.syms = m.syms /\ m1.redo = m.redo
    BY <2>4 DEF WorkType, SamePlace
  <2>7. Straight(m, m1)
    BY <1>2, <2>3, <2>5, <2>6 DEF Straight, Waits
  <2>8. Calm(m1, Advance(m1, len))
    BY <2>5, AdvanceCalm
  <2>9. Advance(m1, len).out = o
    BY <2>6, <2>8 DEF Calm
  <2>. QED
    BY <2>3, <2>7, <2>8, <2>9, StraightCalm
<1> HIDE DEF m0, md, m1
<1>. QED
  BY <1>1, <1>3, <1>4, <1>5

LEMMA GenerateStraight ==
  ASSUME NEW m \in WorkType, ip \in Int, NEW val \in Int, NEW len \in Nat
  PROVE  /\ Straight(m, Generate(m, ip, val, len))
         /\ Straight(m, GenFill(m, ip, val, len))
         /\ LET n == Generate(m, ip, val, len)
            IN  n.redo = 0 /\ ~n.dead /\ ~Current(m).bss => OneMore(m.out, n.out)
<1> DEFINE n == Generate(m, ip, val, len)
<1>1. Straight(m, n)
  BY WriteStraight, AdvanceCalm, CalmIsStraight DEF Generate
<1>2. Straight(m, GenFill(m, ip, val, len))
  BY <1>1, CalmSelf, CalmIsStraight DEF GenFill
<1>3. ASSUME n.redo = 0, ~n.dead, ~Current(m).bss PROVE OneMore(m.out, n.out)
  <2>1. m.redo \in Nat /\ n.redo \in Nat /\ m.redo <= n.redo
    BY <1>1 DEF Straight, WorkType
  <2>2. Writes(m)
    BY <1>3, <2>1 DEF Writes
  <2>. QED
    BY <1>3, <2>2, WriteStraight DEF Generate
<1>. QED
  BY <1>1, <1>2, <1>3

(* The pseudo-ops.                                                         *)
LEMMA FillCalm ==
  ASSUME NEW m \in WorkType, NEW x \in 0..(ByteLimit - 1), NEW k \in Nat
  PROVE  Calm(m, [m EXCEPT !.orgFill = x, !.fatals = k])
<1> DEFINE w == [m EXCEPT !.orgFill = x, !.fatals = k]
<1>1. w \in WorkType /\ m.redo \in Nat
  BY DEF WorkType
<1>2. SamePlace(m, w) /\ w.out = m.out /\ w.syms = m.syms /\ w.redo = m.redo
  BY DEF WorkType, SamePlace
<1> HIDE DEF w
<1>3. Calm(m, w)
  BY <1>1, <1>2, CalmIfSame
<1>. QED
  BY <1>3 DEF w

LEMMA ReadTwiceCalm ==
  ASSUME NEW m \in WorkType, NEW e, NEW f PROVE Calm(m, Read(Read(m, e), f))
<1> DEFINE r == Read(m, e)
<1>1. Calm(m, r) /\ r \in WorkType
  BY CalmRead DEF Calm
<1> HIDE DEF r
<1>2. Calm(r, Read(r, f))
  BY <1>1, CalmRead
<1>. QED
  BY <1>1, <1>2, CalmTrans DEF r

LEMMA OrgCalm ==
  ASSUME NEW m \in WorkType, NEW s \in Statement PROVE Calm(m, OrgLine(m, s))
<1> DEFINE v == Value(m, s.arg)
           f == Value(m, s.arg2)
           r == Read(Read(m, s.arg), s.arg2)
           m1 == ErrorIf(v.value < 0, r)
           g == [Current(m1) EXCEPT !.org = v.value, !.unknown = v.unknown]
           m2 == WithSeg(m1, g)
           x == IF s.arg2 = NoArg THEN m2.orgFill ELSE f.value % ByteLimit
           k == IF f.unknown THEN m2.fatals + 1 ELSE m2.fatals
           m3 == [m2 EXCEPT !.orgFill = IF s.arg2 = NoArg THEN @ ELSE f.value % ByteLimit,
                            !.fatals = IF f.unknown THEN @ + 1 ELSE @]
<1>1. v.value \in Int /\ v.unknown \in BOOLEAN /\ f.value \in Int
  BY ArgumentValues
<1>2. OrgLine(m, s) = Label(m3, s.lab)
  BY DEF OrgLine
<1>3. Calm(m, m1) /\ m1 \in WorkType
  <2>1. Calm(m, r) /\ r \in WorkType
    BY ReadTwiceCalm DEF Calm
  <2> HIDE DEF r
  <2>2. Calm(r, m1)
    BY <2>1, CalmError
  <2>. QED
    BY <2>1, <2>2, CalmTrans DEF Calm
<1> HIDE DEF m1, v, f
<1>4. g \in SegmentType
  <2>1. Current(m1) \in SegmentType
    BY <1>3 DEF WorkType, Current
  <2>. QED
    BY <1>1, <2>1 DEF SegmentType
<1> HIDE DEF g
<1>5. Calm(m, m2) /\ m2 \in WorkType
  BY <1>3, <1>4, CalmSegment, CalmTrans DEF Calm
<1> HIDE DEF m2
<1>6. x \in 0..(ByteLimit - 1) /\ k \in Nat
  <2>1. ByteLimit \in Nat \ {0}
    BY AssemblyAssumption
  <2>2. f.value % ByteLimit \in 0..(ByteLimit - 1)
    BY <1>1, <2>1
  <2>3. m2.orgFill \in 0..(ByteLimit - 1) /\ m2.fatals \in Nat
    BY <1>5 DEF WorkType
  <2>. QED
    BY <2>2, <2>3
<1>7. m3 = [m2 EXCEPT !.orgFill = x, !.fatals = k]
  BY <1>5 DEF WorkType
<1> HIDE DEF x, k, m3
<1>8. Calm(m2, m3)
  BY <1>5, <1>6, <1>7, FillCalm
<1>9. Calm(m, m3) /\ m3 \in WorkType
  BY <1>5, <1>8, CalmTrans DEF Calm
<1>. QED
  BY <1>2, <1>9, CalmLabel, CalmTrans

LEMMA RorgCalm ==
  ASSUME NEW m \in WorkType, NEW s \in Statement PROVE Calm(m, RorgLine(m, s))
<1> DEFINE v == Value(m, s.arg)
           r == Read(m, s.arg)
           m1 == ErrorIf(v.value < 0, r)
           g == [Current(m1) EXCEPT !.rorging = TRUE]
           h == IF s.arg = NoArg THEN g
                ELSE [g EXCEPT !.rorg = v.value, !.runknown = v.unknown]
           m2 == WithSeg(m1, h)
<1>1. v.value \in Int /\ v.unknown \in BOOLEAN
  BY ArgumentValues
<1>2. RorgLine(m, s) = Label(m2, s.lab)
  BY DEF RorgLine
<1>3. Calm(m, m1) /\ m1 \in WorkType
  <2>1. Calm(m, r) /\ r \in WorkType
    BY CalmRead DEF Calm
  <2> HIDE DEF r
  <2>2. Calm(r, m1)
    BY <2>1, CalmError
  <2>. QED
    BY <2>1, <2>2, CalmTrans DEF Calm
<1> HIDE DEF m1, v
<1>4. h \in SegmentType
  <2>1. Current(m1) \in SegmentType
    BY <1>3 DEF WorkType, Current
  <2>2. g \in SegmentType
    BY <2>1 DEF SegmentType
  <2> HIDE DEF g
  <2>. QED
    BY <1>1, <2>2 DEF SegmentType
<1> HIDE DEF h
<1>5. Calm(m, m2) /\ m2 \in WorkType
  BY <1>3, <1>4, CalmSegment, CalmTrans DEF Calm
<1> HIDE DEF m2
<1>. QED
  BY <1>2, <1>5, CalmLabel, CalmTrans

LEMMA RendCalm ==
  ASSUME NEW m \in WorkType, NEW s PROVE Calm(m, RendLine(m, s))
<1> DEFINE m1 == Label(m, s.lab)
           g == [Current(m1) EXCEPT !.rorging = FALSE]
<1>1. RendLine(m, s) = WithSeg(m1, g)
  BY DEF RendLine
<1>2. Calm(m, m1) /\ m1 \in WorkType
  BY CalmLabel DEF Calm
<1> HIDE DEF m1
<1>3. g \in SegmentType
  <2>1. Current(m1) \in SegmentType
    BY <1>2 DEF WorkType, Current
  <2>. QED
    BY <2>1 DEF SegmentType
<1>. QED
  BY <1>1, <1>2, <1>3, CalmSegment, CalmTrans

LEMMA SegCalm ==
  ASSUME NEW m \in WorkType, NEW s \in Statement PROVE Calm(m, SegLine(m, s))
<1> DEFINE n == [NoSegment EXCEPT !.made = TRUE, !.bss = (s.op = "seg.u")]
           t == IF m.segs[s.seg].made THEN m.segs ELSE [m.segs EXCEPT ![s.seg] = n]
           m1 == IF m.segs[s.seg].made THEN m ELSE [m EXCEPT !.segs[s.seg] = n]
           w == [m1 EXCEPT !.cseg = s.seg]
<1>1. SegLine(m, s) = Label(w, s.lab)
  BY DEF SegLine
<1>2. s.seg \in Segments
  BY DEF Statement
<1>3. n \in SegmentType
  <2>1. \A b \in BOOLEAN : [NoSegment EXCEPT !.made = TRUE, !.bss = b] \in SegmentType
    <3> SUFFICES ASSUME NEW b \in BOOLEAN
                 PROVE  [NoSegment EXCEPT !.made = TRUE, !.bss = b] \in SegmentType
      OBVIOUS
    <3>1. NoSegment \in SegmentType
      BY DEF NoSegment, SegmentType
    <3>. QED
      BY <3>1 DEF SegmentType
  <2>2. (s.op = "seg.u") \in BOOLEAN
    OBVIOUS
  <2>. QED
    BY <2>1, <2>2, Zenon
<1> HIDE DEF n
<1>4. t \in [Segments -> SegmentType]
  BY <1>2, <1>3 DEF WorkType
<1>5. w = [m EXCEPT !.segs = t, !.cseg = s.seg]
  BY DEF WorkType
<1> HIDE DEF t, w
<1>6. w \in WorkType /\ m.redo \in Nat
  BY <1>2, <1>4, <1>5 DEF WorkType
<1>7. SamePlace(m, w) /\ w.out = m.out /\ w.syms = m.syms /\ w.redo = m.redo
  BY <1>5 DEF WorkType, SamePlace
<1>8. Calm(m, w)
  BY <1>6, <1>7, CalmIfSame
<1>. QED
  BY <1>1, <1>6, <1>8, CalmLabel, CalmTrans

(* The start of every line with one operand: the label, then the operand.  *)
LEMMA OperandCalm ==
  ASSUME NEW m \in WorkType, NEW s \in Statement, NEW r \in WhyNeeded
  PROVE  LET m1 == Label(m, s.lab)
             v == Value(m1, s.arg)
             n == NeedIf(v.unknown, Read(m1, s.arg), r)
         IN  /\ m1 \in WorkType /\ Read(m1, s.arg) \in WorkType /\ n \in WorkType
             /\ Calm(m, m1) /\ Calm(m, Read(m1, s.arg)) /\ Calm(m, n)
             /\ v.value \in Int /\ v.unknown \in BOOLEAN
<1> DEFINE m1 == Label(m, s.lab)
           v == Value(m1, s.arg)
           q == Read(m1, s.arg)
           n == NeedIf(v.unknown, q, r)
<1>1. Calm(m, m1) /\ m1 \in WorkType
  BY CalmLabel DEF Calm
<1> HIDE DEF m1
<1>2. v.value \in Int /\ v.unknown \in BOOLEAN
  BY <1>1, ArgumentValues
<1>3. Calm(m1, q) /\ q \in WorkType
  BY <1>1, CalmRead DEF Calm
<1>4. Calm(m, q)
  BY <1>1, <1>3, CalmTrans
<1> HIDE DEF q, v
<1>5. Calm(q, n) /\ n \in WorkType
  BY <1>3, CalmNeed DEF Calm
<1>6. Calm(m, n)
  BY <1>4, <1>5, CalmTrans
<1>. QED
  BY <1>1, <1>2, <1>3, <1>4, <1>5, <1>6 DEF m1, v, q, n

LEMMA DcStraight ==
  ASSUME NEW m \in WorkType, NEW s \in Statement, ip \in Int
  PROVE  /\ Straight(m, DcLine(m, s))
         /\ LET n == DcLine(m, s)
            IN  n.redo = 0 /\ ~n.dead /\ ~Current(m).bss /\ WorkOK(m) => OneMore(m.out, n.out)
<1> DEFINE m1 == Label(m, s.lab)
           v == Value(m1, s.arg)
           q == Read(m1, s.arg)
           m2 == NeedIf(v.unknown, q, "dc")
           n == Generate(m2, ip, v.value, 1)
<1>1. m1 \in WorkType /\ q \in WorkType /\ m2 \in WorkType /\ Calm(m, m2) /\ v.value \in Int
  BY OperandCalm DEF WhyNeeded
<1>2. DcLine(m, s) = n
  BY DEF DcLine
<1>3. WorkOK(m) => Current(m2) = Current(m)
  <2>1. WorkOK(m) => m1.segs = m.segs /\ m1.cseg = m.cseg
    BY LabelKeeps
  <2> HIDE DEF m1
  <2>2. q.segs = m1.segs /\ q.cseg = m1.cseg
    BY <1>1, ReadKeeps
  <2> HIDE DEF q, v
  <2>3. m2.segs = q.segs /\ m2.cseg = q.cseg
    BY <1>1, NeedFields
  <2>. QED
    BY <2>1, <2>2, <2>3 DEF Current
<1>4. m2.out = m.out
  BY <1>1 DEF Calm
<1> HIDE DEF m2, v
<1>5. /\ Straight(m2, n)
      /\ n.redo = 0 /\ ~n.dead /\ ~Current(m2).bss => OneMore(m2.out, n.out)
  BY <1>1, GenerateStraight
<1> HIDE DEF n
<1>. QED
  BY <1>1, <1>2, <1>3, <1>4, <1>5, CalmStraight

LEMMA InsStraight ==
  ASSUME NEW m \in WorkType, NEW s \in Statement, ip \in Int
  PROVE  Straight(m, InsLine(m, s))
<1> DEFINE m1 == Label(m, s.lab)
           v == Value(m1, s.arg)
           m2 == NeedIf(v.unknown, Read(m1, s.arg), "mnemonic")
<1>1. m2 \in WorkType /\ Calm(m, m2) /\ v.value \in Int /\ InsLen(v) \in Nat
  BY OperandCalm DEF WhyNeeded, InsLen
<1>2. InsLine(m, s) = Generate(m2, ip, v.value, InsLen(v))
  BY DEF InsLine
<1> HIDE DEF m2, v
<1>. QED
  BY <1>1, <1>2, GenerateStraight, CalmStraight

LEMMA BranchStraight ==
  ASSUME NEW m \in WorkType, NEW s \in Statement, ip \in Int
  PROVE  Straight(m, BranchLine(m, s))
<1> DEFINE m1 == Label(m, s.lab)
           v == Value(m1, s.arg)
           pc == Pc(m1)
           m2 == NeedIf(v.unknown, Read(m1, s.arg), "mnemonic")
           d == IF v.unknown \/ pc.unknown THEN 0 ELSE Distance(v.value, pc.value)
           m3 == ErrorIf(d >= 128 \/ d < -128, m2)
<1>1. m1 \in WorkType /\ m2 \in WorkType /\ Calm(m, m2) /\ v.value \in Int
  BY OperandCalm DEF WhyNeeded
<1>2. BranchLine(m, s) = Generate(m3, ip, d, 2)
  BY DEF BranchLine
<1>3. d \in Int
  <2>1. pc.value \in Int
    BY <1>1, PcType DEF PcRecord
  <2>. QED
    BY <1>1, <2>1 DEF Distance
<1> HIDE DEF m2, d
<1>4. Calm(m, m3) /\ m3 \in WorkType
  BY <1>1, CalmError, CalmTrans DEF Calm
<1> HIDE DEF m3
<1>. QED
  BY <1>2, <1>3, <1>4, GenerateStraight, CalmStraight

LEMMA DsStraight ==
  ASSUME NEW m \in WorkType, NEW s \in Statement, ip \in Int
  PROVE  Straight(m, DsLine(m, s))
<1> DEFINE m1 == Label(m, s.lab)
           v == Value(m1, s.arg)
           f == Value(m1, s.arg2)
           m2 == Read(Read(m1, s.arg), s.arg2)
           m3 == NeedIf(f.unknown, m2, "ds")
<1>1. m1 \in WorkType /\ Calm(m, m1)
  BY CalmLabel DEF Calm
<1>2. DsLine(m, s) = IF v.unknown THEN Need(m2, "ds")
                     ELSE IF v.value < 0 THEN Error(m3) ELSE GenFill(m3, ip, f.value, v.value)
  BY DEF DsLine
<1>3. v.value \in Int /\ f.value \in Int
  BY <1>1, ArgumentValues
<1> HIDE DEF m1
<1>4. m2 \in WorkType /\ Calm(m, m2)
  <2>1. Calm(m1, m2)
    BY <1>1, ReadTwiceCalm
  <2>. QED
    BY <1>1, <2>1, CalmTrans DEF Calm
<1> HIDE DEF m2, v, f
<1>5. Calm(m, Need(m2, "ds")) /\ Calm(m, m3) /\ m3 \in WorkType
  <2>1. Calm(m2, Need(m2, "ds")) /\ Calm(m2, m3)
    BY <1>4, CalmNeed DEF WhyNeeded
  <2>. QED
    BY <1>4, <2>1, CalmTrans DEF Calm
<1> HIDE DEF m3
<1>6. Calm(m, Error(m3))
  <2>1. Calm(m3, ErrorIf(TRUE, m3)) /\ ErrorIf(TRUE, m3) = Error(m3)
    BY <1>5, CalmError DEF ErrorIf
  <2>. QED
    BY <1>5, <2>1, CalmTrans
<1>7. ASSUME ~(v.value < 0) PROVE Straight(m, GenFill(m3, ip, f.value, v.value))
  <2>1. v.value \in Nat
    BY <1>3, <1>7
  <2>. QED
    BY <1>3, <1>5, <2>1, GenerateStraight, CalmStraight
<1>. QED
  BY <1>2, <1>5, <1>6, <1>7, CalmIsStraight

LEMMA AlignStraight ==
  ASSUME NEW m \in WorkType, NEW s \in Statement, ip \in Int,
         s.arg.sym = "none", s.arg.add > 0
  PROVE  Straight(m, AlignLine(m, s))
<1> DEFINE pc == Pc(m)
           v == Value(m, s.arg)
           f == Value(m, s.arg2)
           m0 == Read(Read(m, s.arg), s.arg2)
           m1 == NeedIf(f.unknown, m0, "align")
           fill == IF f.unknown THEN 0 ELSE f.value
           reason == IF Current(m).rorging THEN "alignrorg" ELSE "alignorg"
           pad == AlignPad(pc.value, v.value)
           m2 == IF pc.unknown \/ v.unknown THEN Need(m1, reason)
                 ELSE GenFill(m1, ip, fill, pad)
<1>1. AlignLine(m, s) = Label(m2, s.lab)
  BY DEF AlignLine
<1>2. fill \in Int /\ pad \in Nat /\ reason \in WhyNeeded
  <2>1. f.value \in Int /\ s.arg.add \in Int /\ pc.value \in Int
    BY ArgumentValues, PcType DEF Argument, PcRecord
  <2>2. v.value \in Nat \ {0}
    BY <2>1 DEF Value
  <2>. QED
    BY <2>1, <2>2, AlignPadType DEF WhyNeeded
<1>3. Calm(m, m0) /\ m0 \in WorkType
  BY ReadTwiceCalm DEF Calm
<1> HIDE DEF m0, f, fill, reason, pad, pc, v
<1>4. Calm(m, m1) /\ m1 \in WorkType
  <2>1. Calm(m0, m1)
    BY <1>3, CalmNeed DEF WhyNeeded
  <2>. QED
    BY <1>3, <2>1, CalmTrans DEF Calm
<1> HIDE DEF m1
<1>5. Straight(m1, m2)
  BY <1>2, <1>4, CalmNeed, CalmIsStraight, GenerateStraight
<1> HIDE DEF m2
<1>6. Straight(m, m2) /\ m2 \in WorkType
  BY <1>4, <1>5, CalmStraight DEF Straight
<1>. QED
  BY <1>1, <1>6, CalmLabel, StraightCalm

(* EQU and SET define names nobody is patient about.                       *)
LEMMA DefineCalm ==
  ASSUME NEW m \in WorkType, NEW l \in EquNames \cup SetNames, l \in Names, NEW v \in SymbolType
  PROVE  Calm(m, [m EXCEPT !.syms[l] = v])
<1> DEFINE t == [m.syms EXCEPT ![l] = v]
           w == [m EXCEPT !.syms = t]
<1>1. [m EXCEPT !.syms[l] = v] = w
  BY DEF WorkType
<1>2. t \in [Names -> SymbolType] /\ m.redo \in Nat
  BY DEF WorkType
<1>3. \A x \in Names : Patient(x) => t[x] = m.syms[x]
  BY DEF WorkType, Patient
<1> HIDE DEF t
<1>4. w \in WorkType
  BY <1>2 DEF WorkType
<1>5. SamePlace(m, w) /\ w.out = m.out /\ w.syms = t /\ w.redo = m.redo
  BY DEF WorkType, SamePlace
<1> HIDE DEF w
<1>6. Waits(m, w)
  BY <1>3, <1>5 DEF Waits, Waiting
<1>. QED
  BY <1>1, <1>2, <1>4, <1>5, <1>6 DEF Calm

LEMMA SetCalm ==
  ASSUME NEW m \in WorkType, NEW s \in Statement, s.lab \in SetNames, s.lab \in Names
  PROVE  Calm(m, SetLine(m, s))
<1> DEFINE v == Value(m, s.arg)
           r == Read(m, s.arg)
           x == [value |-> v.value, unknown |-> v.unknown, ref |-> FALSE]
<1>1. x \in SymbolType
  BY ArgumentValues DEF SymbolType
<1>2. SetLine(m, s) = [r EXCEPT !.syms[s.lab] = x]
  BY DEF SetLine
<1>3. Calm(m, r) /\ r \in WorkType
  BY CalmRead DEF Calm
<1> HIDE DEF r, x
<1>. QED
  BY <1>1, <1>2, <1>3, DefineCalm, CalmTrans

LEMMA EquCalm ==
  ASSUME NEW m \in WorkType, NEW s \in Statement, s.lab \in EquNames, s.lab \in Names \cup {"."}
  PROVE  Calm(m, EquLine(m, s))
<1> DEFINE v == Value(m, s.arg)
           r == Read(m, s.arg)
           m2 == EquNeeds(r, r.syms[s.lab], v)
           x == [value |-> v.value, unknown |-> v.unknown, ref |-> FALSE]
<1>1. x \in SymbolType
  BY ArgumentValues DEF SymbolType
<1>2. EquLine(m, s) = IF s.lab = "."
                      THEN IF Current(m).rorging THEN RorgLine(r, s) ELSE OrgLine(r, s)
                      ELSE [m2 EXCEPT !.syms[s.lab] = x]
  BY DEF EquLine
<1>3. Calm(m, r) /\ r \in WorkType
  BY CalmRead DEF Calm
<1> HIDE DEF r, x, v
<1>4. Calm(m, RorgLine(r, s)) /\ Calm(m, OrgLine(r, s))
  <2>1. Calm(r, RorgLine(r, s))
    BY <1>3, RorgCalm
  <2>2. Calm(r, OrgLine(r, s))
    BY <1>3, OrgCalm
  <2>. QED
    BY <1>3, <2>1, <2>2, CalmTrans
<1>5. Calm(m, m2) /\ m2 \in WorkType
  <2> DEFINE q == Error(r)
  <2>1. Calm(r, q) /\ q \in WorkType
    <3>1. Calm(r, ErrorIf(TRUE, r)) /\ ErrorIf(TRUE, r) = q
      BY <1>3, CalmError DEF ErrorIf
    <3>. QED
      BY <3>1 DEF Calm
  <2> HIDE DEF q
  <2>2. Calm(r, Need(r, "equ")) /\ Calm(q, Need(q, "equmismatch"))
    BY <1>3, <2>1, CalmNeed DEF WhyNeeded
  <2>3. Calm(r, Need(q, "equmismatch"))
    BY <1>3, <2>1, <2>2, CalmTrans
  <2>4. Calm(r, m2)
    BY <1>3, <2>2, <2>3, CalmSelf DEF EquNeeds, q
  <2>. QED
    BY <1>3, <2>4, CalmTrans DEF Calm
<1> HIDE DEF m2
<1>6. s.lab # "." => Calm(m, [m2 EXCEPT !.syms[s.lab] = x])
  BY <1>1, <1>5, DefineCalm, CalmTrans
<1>. QED
  BY <1>2, <1>4, <1>6

LEMMA ErrCalm ==
  ASSUME NEW m \in WorkType, NEW s PROVE Calm(m, ErrLine(m, s))
<1> DEFINE r == Label(m, s.lab)
           k == r.fatals + 1
           w == [r EXCEPT !.fatals = k, !.dead = TRUE]
<1>1. Calm(m, r) /\ r \in WorkType
  BY CalmLabel DEF Calm
<1>2. ErrLine(m, s) = [r EXCEPT !.fatals = @ + 1, !.dead = TRUE]
  BY DEF ErrLine
<1> HIDE DEF r
<1>3. k \in Nat /\ r.redo \in Nat
  <2>1. r.fatals \in Nat /\ r.redo \in Nat
    BY <1>1 DEF WorkType
  <2>. QED
    BY <2>1
<1>7. ErrLine(m, s) = w
  BY <1>1, <1>2 DEF WorkType
<1> HIDE DEF k
<1>4. w \in WorkType
  BY <1>1, <1>3 DEF WorkType
<1>5. SamePlace(r, w) /\ w.out = r.out /\ w.syms = r.syms /\ w.redo = r.redo
  BY <1>1 DEF WorkType, SamePlace
<1> HIDE DEF w
<1>6. Calm(r, w)
  BY <1>1, <1>3, <1>4, <1>5, CalmIfSame
<1>. QED
  BY <1>1, <1>6, <1>7, CalmTrans

(* What any line does to the loops and to the place it reads next.         *)
From(m, x) == \E j \in 1..Len(m.reps) : x = m.reps[j].from
Moves(m, n) ==
  /\ n.out = m.out \/ OneMore(m.out, n.out)
  /\ Waits(m, n)
  /\ n.next \in {m.next, Len(prog) + 1} \/ From(m, n.next)
  /\ \A k \in 1..Len(n.reps) : n.reps[k].from = m.next \/ From(m, n.reps[k].from)

(* Only conditions differ.                                                 *)
SameBut(r, n) ==
  /\ n.redo = r.redo /\ n.syms = r.syms /\ n.out = r.out
  /\ n.next = r.next /\ n.reps = r.reps

LEMMA StraightMoves == ASSUME NEW m, NEW n, Straight(m, n) PROVE Moves(m, n)
BY DEF Straight, SamePlace, Moves, From

LEMMA CalmMoves ==
  ASSUME NEW m, NEW r, NEW n, Calm(m, r), SameBut(r, n)
  PROVE  Moves(m, n)
BY DEF Calm, SameBut, SamePlace, Moves, From, Waits

LEMMA PushIfSame == ASSUME NEW m \in WorkType, NEW x PROVE SameBut(m, PushIf(m, x))
BY DEF PushIf, SameBut, WorkType

LEMMA IfMoves ==
  ASSUME NEW m \in WorkType, NEW s \in Statement PROVE Moves(m, IfLine(m, s))
<1> DEFINE m1 == Label(m, s.lab)
           v == Value(m1, s.arg)
           q == Read(m1, s.arg)
           n == Need(q, "if")
<1>1. Calm(m, q) /\ q \in WorkType
  BY OperandCalm DEF WhyNeeded
<1>2. IfLine(m, s) = IF ~Active(m) THEN PushIf(m, FALSE)
                     ELSE IF v.unknown THEN UnresolvedIf(q) ELSE PushIf(q, v.value # 0)
  BY DEF IfLine
<1> HIDE DEF q, v
<1>3. Calm(m, n) /\ n \in WorkType
  <2>1. Calm(q, n)
    BY <1>1, CalmNeed DEF WhyNeeded
  <2>. QED
    BY <1>1, <2>1, CalmTrans DEF Calm
<1>4. SameBut(n, UnresolvedIf(q))
  <2> DEFINE p == PushIf(n, FALSE)
             w == [p EXCEPT !.ifs[1].acctrue = FALSE, !.redoIf.now = TRUE]
  <2>1. UnresolvedIf(q) = w
    BY DEF UnresolvedIf
  <2> HIDE DEF n
  <2>2. p = [n EXCEPT !.ifs = <<[xtrue |-> FALSE, acctrue |-> Active(n)]>> \o n.ifs]
    BY <1>3 DEF PushIf, WorkType
  <2>3. SameBut(n, w)
    BY <1>3, <2>2 DEF WorkType, SameBut
  <2>. QED
    BY <2>1, <2>3
<1> HIDE DEF n
<1>5. SameBut(m, PushIf(m, FALSE)) /\ SameBut(q, PushIf(q, v.value # 0))
  BY <1>1, PushIfSame
<1>6. Moves(m, PushIf(m, FALSE)) /\ Moves(m, UnresolvedIf(q)) /\ Moves(m, PushIf(q, v.value # 0))
  BY <1>1, <1>3, <1>4, <1>5, CalmSelf, CalmMoves
<1>. QED
  BY <1>2, <1>6

LEMMA IfConstMoves ==
  ASSUME NEW m \in WorkType, NEW s \in Statement PROVE Moves(m, IfConstLine(m, s))
<1> DEFINE m1 == Label(m, s.lab)
           known == ~Value(m1, s.arg).unknown
           q == Read(m1, s.arg)
           x == IF s.op = "ifconst" THEN known ELSE ~known
<1>1. Calm(m, q) /\ q \in WorkType
  BY OperandCalm DEF WhyNeeded
<1>2. IfConstLine(m, s) = PushIf(q, x)
  BY DEF IfConstLine
<1> HIDE DEF q, x
<1>. QED
  BY <1>1, <1>2, PushIfSame, CalmMoves

LEMMA ElseMoves ==
  ASSUME NEW m \in WorkType, NEW s PROVE Moves(m, ElseLine(m, s))
<1> DEFINE r == Label(m, s.lab)
           w == [r EXCEPT !.ifs[1].xtrue = ~@]
<1>1. Calm(m, r) /\ r \in WorkType
  BY CalmLabel DEF Calm
<1>2. ElseLine(m, s) = IF Head(m.ifs).acctrue /\ ~AtBase(m) THEN w ELSE m
  BY DEF ElseLine
<1> HIDE DEF r
<1>3. SameBut(r, w)
  BY <1>1 DEF WorkType, SameBut
<1> HIDE DEF w
<1>. QED
  BY <1>1, <1>2, <1>3, CalmMoves, CalmSelf, CalmIsStraight, StraightMoves

LEMMA EndifMoves ==
  ASSUME NEW m \in WorkType, NEW s PROVE Moves(m, EndifLine(m, s))
<1> DEFINE r == IF Head(m.ifs).acctrue THEN Label(m, s.lab) ELSE m
           w == [r EXCEPT !.ifs = Tail(@)]
<1>1. Calm(m, r) /\ r \in WorkType
  BY CalmLabel, CalmSelf DEF Calm
<1>2. EndifLine(m, s) = IF AtBase(m) THEN m ELSE w
  BY DEF EndifLine
<1> HIDE DEF r
<1>3. SameBut(r, w)
  BY <1>1 DEF WorkType, SameBut
<1> HIDE DEF w
<1>. QED
  BY <1>1, <1>2, <1>3, CalmMoves, CalmSelf, CalmIsStraight, StraightMoves

(* REPEAT: a loop that is pushed is read again from the line behind it.    *)
LEMMA RepeatMoves ==
  ASSUME NEW m \in WorkType, NEW s \in Statement PROVE Moves(m, RepeatLine(m, s))
<1> DEFINE m1 == Label(m, s.lab)
           v == Value(m1, s.arg)
           q == Read(m1, s.arg)
           loop == [from |-> m.next, count |-> v.value, unknown |-> v.unknown]
           n == NeedIf(v.unknown, q, "repeat")
           w == [n EXCEPT !.reps = <<loop>> \o @]
<1>1. /\ Calm(m, q) /\ q \in WorkType /\ Calm(m, n) /\ n \in WorkType
      /\ v.value \in Int /\ v.unknown \in BOOLEAN
  BY OperandCalm DEF WhyNeeded
<1>2. RepeatLine(m, s) = IF ~Active(m) THEN PushIf(m, FALSE)
                         ELSE IF v.value = 0 THEN PushIf(q, FALSE)
                         ELSE IF v.value < 0 THEN Error(PushIf(q, FALSE))
                         ELSE PushIf(w, TRUE)
  BY DEF RepeatLine
<1> HIDE DEF q, v, n
<1>3. Moves(m, PushIf(m, FALSE)) /\ Moves(m, PushIf(q, FALSE))
  BY <1>1, CalmSelf, PushIfSame, CalmMoves
<1>4. Moves(m, Error(PushIf(q, FALSE)))
  <2>1. SameBut(q, Error(PushIf(q, FALSE)))
    BY <1>1 DEF Error, PushIf, WorkType, SameBut
  <2>. QED
    BY <1>1, <2>1, CalmMoves
<1>5. ASSUME ~(v.value = 0), ~(v.value < 0) PROVE Moves(m, PushIf(w, TRUE))
  <2> DEFINE z == PushIf(w, TRUE)
             t == <<loop>> \o n.reps
  <2>1. loop \in LoopType /\ loop.from = m.next /\ n.reps \in Seq(LoopType)
    <3>1. v.value \in Nat \ {0}
      BY <1>1, <1>5
    <3>. QED
      BY <1>1, <3>1 DEF LoopType, WorkType
  <2>2. z.redo = n.redo /\ z.syms = n.syms /\ z.out = n.out /\ z.next = n.next /\ z.reps = t
    <3> HIDE DEF loop
    <3>1. w = [n EXCEPT !.reps = t]
      BY <1>1 DEF WorkType
    <3> HIDE DEF t, w
    <3>. QED
      BY <1>1, <3>1 DEF PushIf, WorkType
  <2> HIDE DEF loop, z
  <2>3. n.reps = m.reps /\ n.out = m.out /\ n.next = m.next /\ Waits(m, n)
    BY <1>1 DEF Calm, SamePlace
  <2>4. \A k \in 1..Len(t) : t[k].from = m.next \/ From(m, t[k].from)
    <3>1. /\ Len(t) = Len(n.reps) + 1 /\ t[1] = loop
          /\ \A k \in 2..(Len(n.reps) + 1) : t[k] = n.reps[k - 1]
      BY <2>1, PushFacts
    <3>2. Len(n.reps) \in Nat
      BY <2>1, LenProperties
    <3> HIDE DEF t
    <3> SUFFICES ASSUME NEW k \in 1..Len(t) PROVE t[k].from = m.next \/ From(m, t[k].from)
      OBVIOUS
    <3>3. CASE k = 1
      BY <2>1, <3>1, <3>3
    <3>4. CASE k # 1
      <4>1. k \in 2..(Len(n.reps) + 1) /\ k - 1 \in 1..Len(n.reps)
        BY <3>1, <3>2, <3>4
      <4>2. t[k] = m.reps[k - 1] /\ k - 1 \in 1..Len(m.reps)
        BY <2>3, <3>1, <4>1
      <4>. QED
        BY <4>2 DEF From
    <3>. QED
      BY <3>3, <3>4
  <2> HIDE DEF t
  <2>5. Moves(m, z)
    BY <2>2, <2>3, <2>4 DEF Moves, Waits
  <2>. QED
    BY <2>5 DEF z
<1> HIDE DEF w
<1>. QED
  BY <1>2, <1>3, <1>4, <1>5

(* REPEND goes back to where the innermost loop began, or takes it away.   *)
LEMMA RependMoves ==
  ASSUME NEW m \in WorkType, NEW s PROVE Moves(m, RependLine(m, s))
<1> DEFINE r == Head(m.reps)
           w == [m EXCEPT !.reps = Tail(m.reps)]
           b == [m EXCEPT !.reps[1].count = Left(r), !.next = r.from]
<1>1. RependLine(m, s) = IF ~Active(m) THEN EndifLine(m, s)
                         ELSE IF m.reps = <<>> THEN m
                         ELSE IF MoreRounds(r) THEN b
                         ELSE EndifLine([m EXCEPT !.reps = Tail(@)], s)
  BY DEF RependLine
<1>2. Moves(m, EndifLine(m, s)) /\ Moves(m, m)
  BY EndifMoves, CalmSelf, CalmIsStraight, StraightMoves
<1>3. m.reps \in Seq(LoopType) /\ Len(m.reps) \in Nat /\ m.redo \in Nat
  BY LenProperties DEF WorkType
<1>4. ASSUME m.reps # <<>> PROVE Moves(m, b)
  <2>1. Len(m.reps) \in Nat \ {0} /\ r = m.reps[1] /\ r \in LoopType
    BY <1>3, <1>4, EmptySeq, HeadTailProperties, ElementOfSeq
  <2> DEFINE l == [r EXCEPT !.count = Left(r)]
             t == [m.reps EXCEPT ![1] = l]
  <2>2. b = [m EXCEPT !.reps = t, !.next = r.from]
    BY <1>3, <2>1 DEF WorkType
  <2>3. Len(t) = Len(m.reps) /\ \A k \in 1..Len(t) : t[k].from = m.reps[k].from
    <3>1. l.from = r.from
      BY <2>1 DEF LoopType
    <3> HIDE DEF l
    <3>2. \A k \in 1..Len(m.reps) : t[k] = IF k = 1 THEN l ELSE m.reps[k]
      BY <1>3
    <3>3. Len(t) = Len(m.reps)
      BY <1>3
    <3>. QED
      BY <2>1, <3>1, <3>2, <3>3
  <2> HIDE DEF t
  <2>4. /\ b.redo = m.redo /\ b.syms = m.syms /\ b.out = m.out /\ b.reps = t
        /\ b.next = r.from
    BY <2>2 DEF WorkType
  <2>5. From(m, r.from)
    BY <2>1 DEF From
  <2>6. \A k \in 1..Len(t) : From(m, t[k].from)
    BY <2>3 DEF From
  <2> HIDE DEF b, r
  <2>. QED
    BY <2>4, <2>5, <2>6 DEF Moves, Waits
<1>5. ASSUME m.reps # <<>> PROVE Moves(m, EndifLine([m EXCEPT !.reps = Tail(@)], s))
  <2> DEFINE t == Tail(m.reps)
             z == EndifLine(w, s)
  <2>1. t \in Seq(LoopType) /\ Len(t) = Len(m.reps) - 1
        /\ \A k \in 1..Len(t) : t[k] = m.reps[k + 1]
    BY <1>3, <1>5, HeadTailProperties, EmptySeq
  <2>2. [m EXCEPT !.reps = Tail(@)] = w
    BY DEF WorkType
  <2> HIDE DEF t
  <2>3. w \in WorkType
    BY <2>1 DEF WorkType, t
  <2>4. w.redo = m.redo /\ w.syms = m.syms /\ w.out = m.out /\ w.next = m.next /\ w.reps = t
    BY DEF WorkType, t
  <2> HIDE DEF w
  <2>5. Moves(w, z)
    BY <2>3, EndifMoves
  <2>6. ASSUME NEW x, From(w, x) PROVE From(m, x)
    <3>1. PICK j \in 1..Len(t) : x = t[j].from
      BY <2>4, <2>6 DEF From
    <3>2. j + 1 \in 1..Len(m.reps) /\ t[j] = m.reps[j + 1]
      <4>1. Len(m.reps) \in Nat /\ Len(t) = Len(m.reps) - 1 /\ j \in Int
        BY <1>3, <2>1
      <4> DEFINE n == Len(m.reps)
                 k == Len(t)
      <4>2. n \in Nat /\ k = n - 1 /\ j \in 1..k
        BY <4>1
      <4> HIDE DEF n, k
      <4>3. j + 1 \in 1..n
        BY <4>2
      <4>. QED
        BY <2>1, <4>3 DEF n
    <3>. QED
      BY <3>1, <3>2 DEF From
  <2> HIDE DEF z
  <2>7. Moves(m, z)
    BY <2>4, <2>5, <2>6 DEF Moves, Waits
  <2>. QED
    BY <2>2, <2>7 DEF z
<1> HIDE DEF b, w
<1>. QED
  BY <1>1, <1>2, <1>4, <1>5

LEMMA EndMoves ==
  ASSUME NEW m \in WorkType, NEW s PROVE Moves(m, EndLine(m, s))
<1> DEFINE n == EndLine(m, s)
<1>1. /\ n.redo = m.redo /\ n.syms = m.syms /\ n.out = m.out /\ n.reps = m.reps
      /\ n.next = Len(prog) + 1
  BY DEF EndLine, WorkType
<1> HIDE DEF n
<1>. QED
  BY <1>1 DEF Moves, Waits, From, n

(* Every line.                                                             *)
LEMMA LineMoves ==
  ASSUME IInv, LineStep
  PROVE  \E w : /\ Commit(w) /\ Moves(Work, w)
                /\ Stmt.op \notin IfOps \cup {"end"} => Straight(Work, w)
<1>1. phase = "lines" /\ ip <= Len(prog)
  BY DEF LineStep, Plain, Org, Rorg, Rend, Seg, Dc, Ds, Align, Ins, Branch, Equ, SetSym,
         End, Err, If, IfConst, Else, Endif, Repeat, Repend, Skip, Runs, Reads
<1>2. Work \in WorkType /\ ip \in 1..Len(prog)
  BY <1>1, LineStarts DEF WorkOK
<1> DEFINE m == Work
           s == prog[ip]
<1>3. /\ s \in Statement /\ ip \in Int /\ s = Stmt
      /\ s.op = "equ" => s.lab \in EquNames /\ s.lab \in Names \cup {"."}
      /\ s.op = "set" => s.lab \in SetNames /\ s.lab \in Names
      /\ s.op = "align" => s.arg.sym = "none" /\ s.arg.add > 0
  BY <1>2, LineStatement DEF IInv, Stmt
<1> DEFINE P == \E w : /\ Commit(w) /\ Moves(m, w)
                       /\ s.op \notin IfOps \cup {"end"} => Straight(m, w)
<1> SUFFICES P
  BY <1>3
<1> HIDE DEF m
<1>4. ASSUME NEW w, Commit(w), Straight(m, w) PROVE P
  BY <1>4, StraightMoves
<1>5. ASSUME NEW w, Commit(w), Moves(m, w), s.op \in IfOps \cup {"end"} PROVE P
  BY <1>5
<1>6. ASSUME NEW w, Commit(w), Calm(m, w) PROVE P
  BY <1>4, <1>6, CalmIsStraight
<1> HIDE DEF P
<1>7. m \in WorkType
  BY <1>2 DEF m
<1> USE DEF Runs, Reads, Stmt
<1>10. CASE Plain
  <2>1. Commit(LabelLine(m, s)) /\ Calm(m, LabelLine(m, s))
    BY <1>7, <1>10, CalmLabel DEF Plain, m, LabelLine
  <2>. QED
    BY <1>6, <2>1
<1>11. CASE Org
  <2>1. Commit(OrgLine(m, s)) /\ Calm(m, OrgLine(m, s))
    BY <1>3, <1>7, <1>11, OrgCalm DEF Org, m
  <2>. QED
    BY <1>6, <2>1
<1>12. CASE Rorg
  <2>1. Commit(RorgLine(m, s)) /\ Calm(m, RorgLine(m, s))
    BY <1>3, <1>7, <1>12, RorgCalm DEF Rorg, m
  <2>. QED
    BY <1>6, <2>1
<1>13. CASE Rend
  <2>1. Commit(RendLine(m, s)) /\ Calm(m, RendLine(m, s))
    BY <1>7, <1>13, RendCalm DEF Rend, m
  <2>. QED
    BY <1>6, <2>1
<1>14. CASE Seg
  <2>1. Commit(SegLine(m, s)) /\ Calm(m, SegLine(m, s))
    BY <1>3, <1>7, <1>14, SegCalm DEF Seg, m
  <2>. QED
    BY <1>6, <2>1
<1>15. CASE Ds
  <2>1. Commit(DsLine(m, s)) /\ Straight(m, DsLine(m, s))
    BY <1>3, <1>7, <1>15, DsStraight DEF Ds, m
  <2>. QED
    BY <1>4, <2>1
<1>16. CASE Align
  <2>1. Commit(AlignLine(m, s)) /\ s.op = "align"
    BY <1>16 DEF Align, m
  <2>2. Straight(m, AlignLine(m, s))
    BY <1>3, <1>7, <2>1, AlignStraight
  <2>. QED
    BY <1>4, <2>1, <2>2
<1>17. CASE SetSym
  <2>1. Commit(SetLine(m, s)) /\ s.op = "set"
    BY <1>17 DEF SetSym, m
  <2>2. Calm(m, SetLine(m, s))
    BY <1>3, <1>7, <2>1, SetCalm
  <2>. QED
    BY <1>6, <2>1, <2>2
<1>18. CASE Err
  <2>1. Commit(ErrLine(m, s)) /\ Calm(m, ErrLine(m, s))
    BY <1>7, <1>18, ErrCalm DEF Err, m
  <2>. QED
    BY <1>6, <2>1
<1>19. CASE If
  <2>1. Commit(IfLine(m, s)) /\ s.op \in IfOps
    BY <1>19 DEF If, m, IfOps
  <2>. QED
    BY <1>3, <1>5, <1>7, <2>1, IfMoves
<1>20. CASE IfConst
  <2>1. Commit(IfConstLine(m, s)) /\ s.op \in IfOps
    BY <1>20 DEF IfConst, m, IfOps
  <2>. QED
    BY <1>3, <1>5, <1>7, <2>1, IfConstMoves
<1>21. CASE Else
  <2>1. Commit(ElseLine(m, s)) /\ s.op \in IfOps
    BY <1>21 DEF Else, m, IfOps
  <2>. QED
    BY <1>5, <1>7, <2>1, ElseMoves
<1>22. CASE Endif
  <2>1. Commit(EndifLine(m, s)) /\ s.op \in IfOps
    BY <1>22 DEF Endif, m, IfOps
  <2>. QED
    BY <1>5, <1>7, <2>1, EndifMoves
<1>23. CASE Repeat
  <2>1. Commit(RepeatLine(m, s)) /\ s.op \in IfOps
    BY <1>23 DEF Repeat, m, IfOps
  <2>. QED
    BY <1>3, <1>5, <1>7, <2>1, RepeatMoves
<1>24. CASE Repend
  <2>1. Commit(RependLine(m, s)) /\ s.op \in IfOps
    BY <1>24 DEF Repend, m, IfOps
  <2>. QED
    BY <1>5, <1>7, <2>1, RependMoves
<1>25. CASE Dc
  <2>1. Commit(DcLine(m, s)) /\ Straight(m, DcLine(m, s))
    BY <1>3, <1>7, <1>25, DcStraight DEF Dc, m
  <2>. QED
    BY <1>4, <2>1
<1>26. CASE Ins
  <2>1. Commit(InsLine(m, s)) /\ Straight(m, InsLine(m, s))
    BY <1>3, <1>7, <1>26, InsStraight DEF Ins, m
  <2>. QED
    BY <1>4, <2>1
<1>27. CASE Branch
  <2>1. Commit(BranchLine(m, s)) /\ Straight(m, BranchLine(m, s))
    BY <1>3, <1>7, <1>27, BranchStraight DEF Branch, m
  <2>. QED
    BY <1>4, <2>1
<1>28. CASE Equ
  <2>1. Commit(EquLine(m, s)) /\ s.op = "equ"
    BY <1>28 DEF Equ, m
  <2>2. Calm(m, EquLine(m, s))
    BY <1>3, <1>7, <2>1, EquCalm
  <2>. QED
    BY <1>6, <2>1, <2>2
<1>29. CASE End
  <2>1. Commit(EndLine(m, s)) /\ s.op = "end"
    BY <1>29 DEF End, m
  <2>. QED
    BY <1>5, <1>7, <2>1, EndMoves
<1>30. CASE Skip
  <2>1. Commit(m) /\ Calm(m, m)
    BY <1>7, <1>30, CalmSelf DEF Skip, m
  <2>. QED
    BY <1>6, <2>1
<1>. QED
  BY <1>10, <1>11, <1>12, <1>13, <1>14, <1>15, <1>16, <1>17, <1>18, <1>19, <1>20, <1>21, <1>22, <1>23, <1>24, <1>25, <1>26, <1>27, <1>28, <1>29, <1>30 DEF LineStep

-----------------------------------------------------------------------------
(* What a line that does not end the program makes of the state.           *)
LEMMA LineState ==
  ASSUME IInv, LineStep, phase' = "lines"
  PROVE  /\ prog' = prog /\ Moves(Work, Here')
         /\ Stmt.op \notin IfOps \cup {"end"} => SamePlace(Work, Here')
         /\ redo <= redo' /\ redo \in Nat /\ redo' \in Nat
         /\ \A g \in Segments : segs[g].bss => segs'[g].bss
         /\ redo' = 0 => Kept(syms, syms')
<1>1. PICK w : Good(Work, w) /\ Commit(w)
  BY LineGood
<1>2. PICK n : /\ Commit(n) /\ Moves(Work, n)
               /\ Stmt.op \notin IfOps \cup {"end"} => Straight(Work, n)
  BY LineMoves
<1>3. /\ Here'.redo = n.redo /\ Here'.syms = n.syms /\ Here'.out = n.out
      /\ Here'.next = n.next /\ Here'.reps = n.reps /\ Here'.ifs = n.ifs
  BY <1>2 DEF Commit, Here, Work
<1>4. prog' = prog /\ redo' = w.redo /\ segs' = w.segs /\ syms' = w.syms
  BY <1>1 DEF Commit, input
<1>5. Moves(Work, Here')
  BY <1>2, <1>3 DEF Moves, Waits
<1>6. Stmt.op \notin IfOps \cup {"end"} => SamePlace(Work, Here')
  BY <1>2, <1>3 DEF Straight, SamePlace
<1>7. w \in WorkType /\ Here \in WorkType /\ Work.redo = redo /\ Work.segs = segs
      /\ Work.syms = syms /\ Here.redo = redo
  BY <1>1 DEF Good, WorkOK, IInv, Here, Work
<1>8. redo \in Nat /\ redo' \in Nat /\ redo <= redo'
  BY <1>1, <1>4, <1>7 DEF Good, Accrues, WorkType
<1>. QED
  BY <1>1, <1>4, <1>5, <1>6, <1>7, <1>8 DEF Good, Spares, Keeps

LEMMA CopiesFacts ==
  ASSUME NEW o \in Seq(Block), NEW l
  PROVE  /\ IsFiniteSet(CopiesIn(o, l)) /\ Cardinality(CopiesIn(o, l)) \in Nat
         /\ \A b \in Block :
              Cardinality(CopiesIn(Append(o, b), l)) =
                Cardinality(CopiesIn(o, l)) + (IF b.line = l THEN 1 ELSE 0)
<1> DEFINE S == CopiesIn(o, l)
           n == Len(o)
<1>1. n \in Nat
  BY LenProperties
<1>2. IsFiniteSet(S) /\ Cardinality(S) \in Nat /\ S \subseteq 1..n
  <2>1. IsFiniteSet(1..n)
    BY <1>1, FS_Interval
  <2>2. S \subseteq 1..n
    BY DEF CopiesIn
  <2>. QED
    BY <2>1, <2>2, FS_Subset, FS_CardinalityType
<1>3. ASSUME NEW b \in Block
      PROVE  Cardinality(CopiesIn(Append(o, b), l)) =
               Cardinality(S) + (IF b.line = l THEN 1 ELSE 0)
  <2> DEFINE p == Append(o, b)
  <2>1. /\ Len(p) = n + 1 /\ p[n + 1] = b /\ \A k \in 1..n : p[k] = o[k]
    BY AppendProperties
  <2> HIDE DEF p
  <2>2. CopiesIn(p, l) = IF b.line = l THEN S \cup {n + 1} ELSE S
    <3> HIDE DEF n
    <3>1. \A k : k \in 1..(n + 1) <=> k \in 1..n \/ k = n + 1
      BY <1>1
    <3>2. \A k : k \in 1..n => k # n + 1
      BY <1>1
    <3>. QED
      BY <2>1, <3>1, <3>2 DEF CopiesIn, n
  <2>3. n + 1 \notin S
    BY <1>1, <1>2
  <2> HIDE DEF S, n
  <2>4. Cardinality(S \cup {n + 1}) = Cardinality(S) + 1
    BY <1>2, <2>3, FS_AddElement
  <2>. QED
    BY <1>2, <2>2, <2>4 DEF p
<1>. QED
  BY <1>2, <1>3

(* A line other than l leaves the number of copies of l as it is.          *)
LEMMA OtherCopies ==
  ASSUME NEW o \in Seq(Block), NEW p, p = o \/ OneMore(o, p), NEW l, l # ip
  PROVE  Cardinality(CopiesIn(p, l)) = Cardinality(CopiesIn(o, l))
<1>1. CASE p = o
  BY <1>1
<1>2. CASE OneMore(o, p)
  <2>1. PICK b \in Block : p = Append(o, b) /\ b.line = ip
    BY <1>2 DEF OneMore
  <2> DEFINE c == Cardinality(CopiesIn(o, l))
  <2>2. c \in Nat /\ Cardinality(CopiesIn(Append(o, b), l)) = c + (IF b.line = l THEN 1 ELSE 0)
    BY CopiesFacts
  <2>3. b.line # l
    BY <2>1
  <2> HIDE DEF c
  <2>4. Cardinality(CopiesIn(Append(o, b), l)) = c
    BY <2>2, <2>3
  <2>. QED
    BY <2>1, <2>4 DEF c
<1>. QED
  BY <1>1, <1>2

LEMMA OwnCopies ==
  ASSUME NEW o \in Seq(Block), NEW p, OneMore(o, p)
  PROVE  Cardinality(CopiesIn(p, ip)) = Cardinality(CopiesIn(o, ip)) + 1
<1>1. PICK b \in Block : p = Append(o, b) /\ b.line = ip
  BY DEF OneMore
<1>2. Cardinality(CopiesIn(Append(o, b), ip)) =
        Cardinality(CopiesIn(o, ip)) + (IF b.line = ip THEN 1 ELSE 0)
  BY CopiesFacts
<1>. QED
  BY <1>1, <1>2

LEMMA TimesKept ==
  ASSUME NEW t, NEW u, NEW e, Fixed(e), Backs(t, e), Kept(t, u)
  PROVE  Backs(u, e) /\ TimesOf(u, e) = TimesOf(t, e)
<1>1. e.sym \in Names => Firm(u, e.sym) /\ u[e.sym].value = t[e.sym].value
  BY DEF Fixed, Steady, Backs, Kept
<1>. QED
  BY <1>1 DEF Backs, TimesOf, RoundsOf

LEMMA TimesType ==
  ASSUME NEW t \in [Names -> SymbolType], NEW e \in Argument
  PROVE  TimesOf(t, e) \in Nat
<1>1. e.add \in Int /\ (e.sym \in Names => t[e.sym].value \in Int)
  BY DEF Argument, SymbolType
<1>2. RoundsOf(t, e) \in Int
  BY <1>1 DEF RoundsOf
<1>. QED
  BY <1>2 DEF TimesOf

(* The source stays, so what is said of a work record stays said.          *)
LEMMA SameLoops ==
  ASSUME prog' = prog, NEW i
  PROVE  /\ Looped(Here, i)' <=> Looped(Here', i)
         /\ Watched(i)' <=> Watched(i)
<1>1. SetNames' = SetNames /\ EquNames' = EquNames /\ LabelNames' = LabelNames
  BY SameSource
<1>2. Looped(Here, i)' <=> Looped(Here', i)
  BY <1>1 DEF Looped, InRound, LeftOut, Outside, Beyond, Patient, Backs, Firm, Waiting,
              TimesOf, RoundsOf, CopiesIn, Told, Gives
<1>3. Watched(i)' <=> Watched(i)
  BY <1>1 DEF Watched, Bare, Fixed, GivenInFront, Gives
<1>. QED
  BY <1>2, <1>3

(* The line of a watched loop.                                             *)
LEMMA WatchedFacts ==
  ASSUME IInv, NEW i, Watched(i)
  PROVE  /\ i \in Nat /\ i >= 1 /\ i + 2 <= Len(prog) /\ Len(prog) \in Nat
         /\ prog[i].op = "repeat" /\ prog[i + 1].op = "dc" /\ prog[i + 2].op = "repend"
         /\ prog[i] \in Statement /\ prog[i].arg \in Argument /\ prog[i].arg.sym # "."
         /\ Fixed(prog[i].arg) /\ GivenInFront(i)
         /\ \A j \in 1..(i - 1) : prog[j].op \notin IfOps \cup {"end"}
<1>1. prog \in Seq(Statement) /\ Len(prog) \in Nat
  BY ProgramAssumption, LenProperties DEF IInv
<1>2. i \in 1..Len(prog) /\ Bare(i) /\ Fixed(prog[i].arg) /\ GivenInFront(i)
  BY DEF Watched
<1>3. prog[i] \in Statement
  BY <1>1, <1>2
<1>. QED
  BY <1>1, <1>2, <1>3 DEF Bare, Statement

-----------------------------------------------------------------------------
(* What a line that goes on makes of the work record, loops in view.       *)
Stepped(h, n) ==
  /\ h \in WorkType /\ n \in WorkType
  /\ ip \in 1..Len(prog) /\ Len(prog) \in Nat /\ h.next = ip
  /\ h.redo = 0 /\ n.redo = 0 /\ Kept(h.syms, n.syms)
  /\ n.out = h.out \/ OneMore(h.out, n.out)
  /\ Waits(h, n)
  /\ n.next \in {ip + 1, Len(prog) + 1} \/ From(h, n.next)
  /\ \A k \in 1..Len(n.reps) : n.reps[k].from = ip + 1 \/ From(h, n.reps[k].from)

(* A source and one of its loops that is watched.                          *)
LoopAt(i) ==
  /\ i \in Nat /\ i >= 1 /\ i + 2 <= Len(prog) /\ Len(prog) \in Nat
  /\ prog[i].op = "repeat" /\ prog[i + 1].op = "dc" /\ prog[i + 2].op = "repend"
  /\ prog[i] \in Statement /\ prog[i].arg \in Argument /\ prog[i].arg.sym # "."
  /\ Fixed(prog[i].arg) /\ GivenInFront(i)
  /\ \A j \in 1..(i - 1) : prog[j].op \notin IfOps \cup {"end"}

LEMMA NextIsLine == ASSUME NEW h, NEW n, Stepped(h, n) PROVE n.next \in Int
<1>1. n.next \in 1..(Len(prog) + 1) /\ Len(prog) \in Nat
  BY DEF Stepped, WorkType
<1>. QED
  BY <1>1

(* Once the lines up to k are behind, no step leads back to them.          *)
LEMMA StaysBeyond ==
  ASSUME NEW h, NEW n, Stepped(h, n), NEW k \in Int, k < ip, k <= Len(prog), Beyond(h, k)
  PROVE  Beyond(n, k) /\ n.next > k
<1>1. ASSUME NEW x, From(h, x) PROVE x > k
  BY <1>1 DEF From, Beyond
<1>2. ip \in Int /\ Len(prog) \in Int /\ ip + 1 > k /\ Len(prog) + 1 > k
  BY DEF Stepped
<1>3. n.next > k
  BY <1>1, <1>2 DEF Stepped
<1>4. \A j \in 1..Len(n.reps) : n.reps[j].from > k
  BY <1>1, <1>2 DEF Stepped
<1>. QED
  BY <1>3, <1>4 DEF Beyond

(* What a count is that a line gives, and that it stays known.             *)
LEMMA GivenCount ==
  ASSUME IInv, NEW i, LoopAt(i), NEW j \in 1..Len(prog), Gives(j, i)
  PROVE  LET x == prog[i].arg.sym IN x \in Names /\ x \in EquNames /\ x \notin LabelNames
<1> DEFINE x == prog[i].arg.sym
<1>1. prog[j].op = "equ" /\ prog[j].lab = x /\ x # "."
  BY DEF Gives, LoopAt
<1>2. x \in Names
  BY <1>1, ProgramAssumption DEF IInv
<1>3. x \in EquNames
  BY <1>1 DEF EquNames, LabelsOf
<1>. QED
  BY <1>2, <1>3 DEF LoopAt, Fixed

LEMMA StaysGiven ==
  ASSUME IInv, NEW i, LoopAt(i), NEW j \in 1..Len(prog), Gives(j, i),
         NEW t, NEW u, Kept(t, u), ~t[prog[i].arg.sym].unknown
  PROVE  ~u[prog[i].arg.sym].unknown
BY GivenCount DEF LoopAt, Fixed, Steady, Firm, Kept

(* A label on a line says nothing of the other names.                      *)
LEMMA LabelElsewhere ==
  ASSUME NEW m \in WorkType, NEW lab, NEW x \in Names, x # lab
  PROVE  Label(m, lab).syms[x] = m.syms[x]
<1>1. CASE lab \notin Names
  BY <1>1 DEF Label
<1>2. CASE lab \in Names
  <2> DEFINE r == Redefined(m, m.syms[lab], Pc(m))
             v == [value |-> Pc(m).value, unknown |-> Pc(m).unknown,
                   ref |-> m.syms[lab].ref]
  <2>1. r.syms = m.syms /\ r = [r EXCEPT !.redo = r.redo] /\ DOMAIN r = DOMAIN m
    BY DEF Redefined, Need, ErrorIf, Error, WorkType
  <2>2. Label(m, lab) = [r EXCEPT !.syms[lab] = v]
    BY <1>2 DEF Label
  <2> HIDE DEF r, v
  <2>3. "syms" \in DOMAIN r
    BY <2>1 DEF WorkType
  <2>. QED
    BY <2>1, <2>2, <2>3 DEF WorkType
<1>. QED
  BY <1>1, <1>2

(* The line that gives a count.                                            *)
LEMMA EquGives ==
  ASSUME NEW m \in WorkType, NEW s \in Statement,
         s.lab \in Names, s.arg.sym \notin Names \cup {"."}
  PROVE  ~EquLine(m, s).syms[s.lab].unknown
<1> DEFINE v == Value(m, s.arg)
           r == Read(m, s.arg)
           m2 == EquNeeds(r, r.syms[s.lab], v)
           x == [value |-> v.value, unknown |-> v.unknown, ref |-> FALSE]
<1>1. s.lab # "."
  BY AssemblyAssumption
<1>2. EquLine(m, s) = [m2 EXCEPT !.syms[s.lab] = x]
  BY <1>1 DEF EquLine
<1>3. s.arg.sym \in {"none", "absent"}
  BY DEF Statement, Argument
<1>4. ~v.unknown
  BY <1>3 DEF Value
<1>5. m2.syms = m.syms
  BY DEF EquNeeds, Need, Error, Read, WorkType
<1> HIDE DEF m2, v
<1>. QED
  BY <1>2, <1>4, <1>5 DEF WorkType

(* A line in front of the loop.                                            *)
LEMMA InFront ==
  ASSUME IInv, NEW h, NEW n, Stepped(h, n), NEW i, LoopAt(i), Looped(h, i), ip < i,
         n.ifs = h.ifs, n.reps = h.reps, n.next = ip + 1,
         Gives(ip, i) => ~n.syms[prog[i].arg.sym].unknown
  PROVE  Looped(n, i)
<1>1. ip \in Int /\ i \in Int /\ n.next <= i /\ h.next <= i /\ ~(n.next > i) /\ i + 1 # ip
  BY DEF Stepped, LoopAt
<1>2. Outside(h) /\ Cardinality(CopiesIn(h.out, i + 1)) = 0 /\ Told(h, i)
  BY <1>1 DEF Looped
<1>3. Outside(n)
  BY <1>2 DEF Outside
<1>4. h.out \in Seq(Block)
  BY DEF Stepped, WorkType
<1>5. Cardinality(CopiesIn(n.out, i + 1)) = 0
  BY <1>1, <1>2, <1>4, OtherCopies DEF Stepped
<1>6. Told(n, i)
  <2> SUFFICES ASSUME NEW j \in 1..Len(prog), Gives(j, i), j < n.next
               PROVE  ~n.syms[prog[i].arg.sym].unknown
    BY DEF Told
  <2>1. j < ip \/ j = ip
    BY <1>1
  <2>2. CASE j = ip
    BY <2>2
  <2>3. CASE j < ip
    <3>1. ~h.syms[prog[i].arg.sym].unknown
      BY <1>2, <2>3 DEF Told, Stepped
    <3>. QED
      BY <3>1, StaysGiven DEF Stepped
  <2>. QED
    BY <2>1, <2>2, <2>3
<1>. QED
  BY <1>1, <1>3, <1>5, <1>6 DEF Looped

(* A line after REPEAT, while the count is a label that is not known yet.  *)
LEMMA StillWaiting ==
  ASSUME NEW h, NEW n, Stepped(h, n), NEW i, LoopAt(i), ip > i,
         Patient(prog[i].arg.sym), Waiting(h.syms, prog[i].arg.sym), Beyond(h, i)
  PROVE  Looped(n, i)
<1> DEFINE x == prog[i].arg.sym
<1>1. Waiting(n.syms, x)
  BY DEF Stepped, Waits, Patient
<1>2. i \in Int /\ i < ip /\ i <= Len(prog)
  BY DEF Stepped, LoopAt
<1>3. Beyond(n, i) /\ n.next > i
  BY <1>2, StaysBeyond
<1>4. n.next \in Int /\ ~(n.next <= i)
  BY <1>2, <1>3, NextIsLine
<1>. QED
  BY <1>1, <1>3, <1>4 DEF Looped

(* A line behind the loop.                                                 *)
LEMMA Behind ==
  ASSUME NEW h, NEW n, Stepped(h, n), NEW i, LoopAt(i), ip > i + 2,
         Backs(h.syms, prog[i].arg), Beyond(h, i + 2),
         Cardinality(CopiesIn(h.out, i + 1)) = TimesOf(h.syms, prog[i].arg)
  PROVE  Looped(n, i)
<1> DEFINE e == prog[i].arg
<1>1. Backs(n.syms, e) /\ TimesOf(n.syms, e) = TimesOf(h.syms, e)
  BY TimesKept DEF Stepped, LoopAt
<1>2. i + 2 \in Int /\ i + 2 < ip /\ i + 2 <= Len(prog) /\ i \in Int
  BY DEF Stepped, LoopAt
<1>3. Beyond(n, i + 2) /\ n.next > i + 2
  BY <1>2, StaysBeyond
<1>4. n.next \in Int /\ ~(n.next <= i + 2) /\ n.next > i /\ ~(n.next <= i)
  BY <1>2, <1>3, NextIsLine
<1>5. h.out \in Seq(Block) /\ i + 1 # ip
  BY <1>2 DEF Stepped, WorkType
<1>6. Cardinality(CopiesIn(n.out, i + 1)) = Cardinality(CopiesIn(h.out, i + 1))
  BY <1>5, OtherCopies DEF Stepped
<1>. QED
  BY <1>1, <1>3, <1>4, <1>6 DEF Looped

-----------------------------------------------------------------------------
(* The count of a loop, as the table has it once it is read.               *)
LEMMA CountRead ==
  ASSUME NEW m \in WorkType, NEW e \in Argument, e.sym # "."
  PROVE  LET v == Value(m, e)
             t == Read(m, e).syms
         IN  /\ v.value = RoundsOf(t, e)
             /\ ~v.unknown => Backs(t, e)
             /\ v.unknown => e.sym \in Names /\ Waiting(t, e.sym)
<1> DEFINE v == Value(m, e)
           t == Read(m, e).syms
<1>1. e.sym \in {"none", "absent"} \/ e.sym \in Names
  BY DEF Argument
<1>2. e.sym \in Names => e.sym \notin {"none", "absent", "."}
  BY AssemblyAssumption
<1>3. CASE e.sym \notin Names
  <2>1. v = [value |-> e.add, unknown |-> FALSE]
    BY <1>1, <1>3 DEF Value
  <2>. QED
    BY <1>3, <2>1 DEF RoundsOf, Backs
<1>4. CASE e.sym \in Names
  <2>1. /\ t[e.sym].value = m.syms[e.sym].value
        /\ t[e.sym].unknown = m.syms[e.sym].unknown /\ t[e.sym].ref
    BY <1>4, ReadSymbols
  <2>2. v = [value |-> m.syms[e.sym].value + e.add, unknown |-> m.syms[e.sym].unknown]
    BY <1>2, <1>4 DEF Value
  <2>5. v.unknown \in BOOLEAN
    <3>1. m.syms[e.sym].unknown \in BOOLEAN
      BY <1>4 DEF WorkType, SymbolType
    <3>. QED
      BY <2>2, <3>1
  <2> HIDE DEF t, v
  <2>3. v.value = m.syms[e.sym].value + e.add /\ v.unknown = m.syms[e.sym].unknown
    BY <2>2
  <2>4. v.value = RoundsOf(t, e)
    BY <1>4, <2>1, <2>3 DEF RoundsOf
  <2>6. ~v.unknown => Backs(t, e)
    BY <2>1, <2>3, Zenon DEF Backs, Firm
  <2>7. v.unknown => Waiting(t, e.sym)
    BY <2>1, <2>3, Zenon DEF Waiting
  <2>. QED
    BY <1>4, <2>4, <2>6, <2>7 DEF t, v
<1>. QED
  BY <1>3, <1>4

LEMMA Pair == ASSUME NEW a, NEW b PROVE <<a>> \o <<b>> = <<a, b>>
<1> DEFINE S == {a, b}
           s == <<b>>
           t == <<a>> \o s
           p == <<a, b>>
<1>1. s \in Seq(S) /\ Len(s) = 1 /\ s[1] = b
  OBVIOUS
<1>2. p \in Seq(S) /\ Len(p) = 2 /\ p[1] = a /\ p[2] = b
  OBVIOUS
<1> HIDE DEF s, p
<1>3. /\ t \in Seq(S) /\ Len(t) = Len(s) + 1 /\ t[1] = a
      /\ \A i \in 2..(Len(s) + 1) : t[i] = s[i - 1]
  <2>1. a \in S
    OBVIOUS
  <2> HIDE DEF S
  <2>. QED
    BY <1>1, <2>1, PushFacts
<1>4. Len(t) = 2 /\ t[2] = b
  <2>1. Len(s) + 1 = 2 /\ 2 \in 2..2 /\ 2 - 1 = 1
    BY <1>1
  <2>. QED
    BY <1>1, <1>3, <2>1
<1> HIDE DEF t
<1>5. t = p
  BY <1>2, <1>3, <1>4
<1>. QED
  BY <1>5 DEF t, s, p

(* REPEAT at the outermost level.                                          *)
LEMMA RepeatOutcome ==
  ASSUME NEW m \in WorkType, NEW s \in Statement, Outside(m), RepeatLine(m, s).redo = 0
  PROVE  LET m1 == Label(m, s.lab)
             v == Value(m1, s.arg)
             w == RepeatLine(m, s)
         IN  /\ m1 \in WorkType /\ v.value \in Int /\ v.unknown \in BOOLEAN /\ Active(m)
             /\ w.syms = Read(m1, s.arg).syms /\ w.out = m.out /\ w.next = m.next
             /\ v.value > 0 =>
                  /\ ~v.unknown /\ w.ifs = <<Base, Base>>
                  /\ w.reps = <<[from |-> m.next, count |-> v.value, unknown |-> FALSE]>>
             /\ ~(v.value > 0) => w.ifs = <<Skipped, Base>> /\ w.reps = <<>>
<1> DEFINE m1 == Label(m, s.lab)
           v == Value(m1, s.arg)
           q == Read(m1, s.arg)
           loop == [from |-> m.next, count |-> v.value, unknown |-> v.unknown]
           n == NeedIf(v.unknown, q, "repeat")
           p == [n EXCEPT !.reps = <<loop>> \o @]
           w == RepeatLine(m, s)
<1>1. /\ m1 \in WorkType /\ Calm(m, q) /\ q \in WorkType /\ Calm(m, n) /\ n \in WorkType
      /\ v.value \in Int /\ v.unknown \in BOOLEAN
  BY OperandCalm DEF WhyNeeded
<1>2. w = IF ~Active(m) THEN PushIf(m, FALSE)
          ELSE IF v.value = 0 THEN PushIf(q, FALSE)
          ELSE IF v.value < 0 THEN Error(PushIf(q, FALSE))
          ELSE PushIf(p, TRUE)
  BY DEF RepeatLine
<1>3. /\ q.ifs = <<Base>> /\ q.reps = <<>> /\ q.out = m.out /\ q.next = m.next
      /\ n.ifs = <<Base>> /\ n.reps = <<>> /\ n.out = m.out /\ n.next = m.next
  BY <1>1 DEF Calm, SamePlace, Outside
<1>4. n.syms = q.syms /\ (v.unknown => n.redo # 0)
  <2> HIDE DEF q, v
  <2>. QED
    BY <1>1, CalmNeed DEF NeedIf, Need, WorkType, WhyNeeded
<1>5. \A x \in WorkType : x.ifs = <<Base>> => Active(x)
  BY DEF Active, Base
<1>6. Active(m) /\ Active(q) /\ Active(n)
  BY <1>1, <1>3, <1>5 DEF Outside
<1> HIDE DEF q, v, n, m1, w, p, loop
<1>7. ASSUME NEW x \in WorkType, x.ifs = <<Base>>, Active(x)
      PROVE  /\ PushIf(x, FALSE).ifs = <<Skipped, Base>> /\ PushIf(x, FALSE).reps = x.reps
             /\ PushIf(x, FALSE).syms = x.syms /\ PushIf(x, FALSE).out = x.out
             /\ PushIf(x, FALSE).next = x.next
  <2>1. PushIf(x, FALSE).ifs = <<[xtrue |-> FALSE, acctrue |-> Active(x)]>> \o <<Base>>
    BY <1>7 DEF PushIf, WorkType
  <2>2. Active(x) \in BOOLEAN
    BY <1>7 DEF Active, Base
  <2>3. [xtrue |-> FALSE, acctrue |-> Active(x)] = Skipped
    BY <1>7, <2>2 DEF Skipped
  <2>4. <<Skipped>> \o <<Base>> = <<Skipped, Base>>
    BY Pair
  <2>. QED
    BY <2>1, <2>3, <2>4 DEF PushIf, WorkType
<1>8. CASE ~(v.value > 0)
  <2> DEFINE z == PushIf(q, FALSE)
  <2>1. w = z \/ w = Error(z)
    <3> HIDE DEF z
    <3>1. v.value = 0 \/ v.value < 0
      BY <1>1, <1>8
    <3>2. w = IF v.value = 0 THEN z ELSE IF v.value < 0 THEN Error(z) ELSE PushIf(p, TRUE)
      BY <1>2, <1>6, Zenon DEF z
    <3>. QED
      BY <3>1, <3>2
  <2>2. /\ Error(z).ifs = z.ifs /\ Error(z).reps = z.reps /\ Error(z).syms = z.syms
        /\ Error(z).out = z.out /\ Error(z).next = z.next
    BY <1>1 DEF Error, PushIf, WorkType
  <2>3. /\ z.ifs = <<Skipped, Base>> /\ z.reps = q.reps /\ z.syms = q.syms
        /\ z.out = q.out /\ z.next = q.next
    BY <1>1, <1>3, <1>6, <1>7
  <2> HIDE DEF z
  <2>. QED
    BY <1>1, <1>3, <1>6, <1>8, <2>1, <2>2, <2>3 DEF q, v, m1, w
<1>9. CASE v.value > 0
  <2> DEFINE t == <<loop>>
             y == [n EXCEPT !.reps = t]
             z == PushIf(y, TRUE)
  <2>1. p = y
    <3>1. <<loop>> \o <<>> = <<loop>>
      OBVIOUS
    <3>. QED
      BY <1>1, <1>3, <3>1 DEF WorkType, p
  <2>2. w = z
    <3>1. ~(v.value = 0) /\ ~(v.value < 0)
      BY <1>1, <1>9
    <3>2. w = PushIf(p, TRUE)
      BY <1>2, <1>6, <3>1, Zenon
    <3>. QED
      BY <2>1, <3>2
  <2>3. /\ y.ifs = <<Base>> /\ y.reps = t /\ y.syms = n.syms /\ y.out = n.out
        /\ y.next = n.next /\ y.redo = n.redo /\ Active(y)
    <3> HIDE DEF t
    <3>1. /\ y.ifs = n.ifs /\ y.reps = t /\ y.syms = n.syms /\ y.out = n.out
          /\ y.next = n.next /\ y.redo = n.redo
      BY <1>1 DEF WorkType
    <3> HIDE DEF y
    <3>. QED
      BY <1>3, <3>1 DEF Active, Base
  <2>4. /\ z.ifs = <<[xtrue |-> TRUE, acctrue |-> Active(y)]>> \o <<Base>> /\ z.reps = t
        /\ z.syms = n.syms /\ z.out = n.out /\ z.next = n.next /\ z.redo = n.redo
    BY <1>1, <1>3, <2>3 DEF PushIf, WorkType
  <2> HIDE DEF z, t
  <2>5. z.ifs = <<Base, Base>>
    <3>1. Active(y) = TRUE
      BY <2>3 DEF Active, Base
    <3>2. [xtrue |-> TRUE, acctrue |-> Active(y)] = Base
      BY <3>1 DEF Base
    <3> HIDE DEF y
    <3>3. <<Base>> \o <<Base>> = <<Base, Base>>
      BY Pair
    <3>. QED
      BY <2>4, <3>2, <3>3
  <2> HIDE DEF y
  <2>6. ~v.unknown
    BY <1>4, <2>2, <2>4 DEF w
  <2>7. t = <<[from |-> m.next, count |-> v.value, unknown |-> FALSE]>>
    BY <1>1, <2>6 DEF t, loop
  <2>. QED
    BY <1>1, <1>3, <1>4, <1>6, <1>9, <2>2, <2>4, <2>5, <2>6, <2>7 DEF q, v, m1, w
<1>. QED
  BY <1>1, <1>8, <1>9

-----------------------------------------------------------------------------
(* The line of the REPEAT itself.                                          *)
LEMMA EnterLoop ==
  ASSUME IInv, NEW h, NEW n, Stepped(h, n), NEW i, LoopAt(i), ip = i, Looped(h, i),
         NEW m \in WorkType, m.syms = h.syms, m.ifs = h.ifs, m.reps = h.reps, m.out = h.out, m.next = i + 1,
         NEW w, w = RepeatLine(m, prog[i]), w.redo = 0,
         n.ifs = w.ifs, n.reps = w.reps, n.syms = w.syms, n.out = w.out, n.next = w.next
  PROVE  Looped(n, i)
<1> DEFINE s == prog[i]
           e == s.arg
           m1 == Label(m, s.lab)
           v == Value(m1, e)
           c == Cardinality(CopiesIn(n.out, i + 1))
<1>1. i \in Int /\ h.next <= i /\ s \in Statement /\ e \in Argument /\ e.sym # "." /\ Fixed(e)
  BY DEF LoopAt, Stepped
<1>2. Outside(h) /\ Cardinality(CopiesIn(h.out, i + 1)) = 0
  BY <1>1 DEF Looped
<1>3. Outside(m)
  BY <1>2 DEF Outside
<1> HIDE DEF s
<1>4. /\ m1 \in WorkType /\ v.value \in Int /\ v.unknown \in BOOLEAN
      /\ w.syms = Read(m1, e).syms /\ w.out = m.out /\ w.next = m.next
      /\ v.value > 0 =>
           /\ ~v.unknown /\ w.ifs = <<Base, Base>>
           /\ w.reps = <<[from |-> m.next, count |-> v.value, unknown |-> FALSE]>>
      /\ ~(v.value > 0) => w.ifs = <<Skipped, Base>> /\ w.reps = <<>>
  BY <1>1, <1>3, RepeatOutcome DEF s
<1>5. /\ v.value = RoundsOf(n.syms, e)
      /\ ~v.unknown => Backs(n.syms, e)
      /\ v.unknown => e.sym \in Names /\ Waiting(n.syms, e.sym)
  BY <1>1, <1>4, CountRead
<1>6. c = 0 /\ n.next = i + 1
  BY <1>2, <1>4
<1>7. e.sym \in EquNames => ~v.unknown
  <2> SUFFICES ASSUME e.sym \in EquNames PROVE ~v.unknown
    OBVIOUS
  <2>1. PICK j \in 1..(i - 1) : Gives(j, i)
    BY DEF LoopAt, GivenInFront, s
  <2>2. j \in 1..Len(prog) /\ j < h.next
    BY <2>1 DEF LoopAt, Stepped
  <2>3. ~m.syms[e.sym].unknown
    BY <1>1, <2>1, <2>2 DEF Looped, Told, s
  <2>4. e.sym \in Names /\ e.sym \notin LabelNames
    BY <2>1, <2>2, GivenCount DEF s
  <2>5. e.sym # s.lab
    <3>1. s.lab \in LabelNames
      <4>1. i \in 1..Len(prog) /\ DOMAIN prog = 1..Len(prog)
        BY ProgramAssumption DEF LoopAt, IInv
      <4>. QED
        BY <4>1 DEF LabelNames, LoopAt, s
    <3>. QED
      BY <2>4, <3>1
  <2>6. ~m1.syms[e.sym].unknown
    BY <2>3, <2>4, <2>5, LabelElsewhere
  <2>7. e.sym \notin {"none", "absent", "."}
    BY <2>4, AssemblyAssumption
  <2>. QED
    BY <2>6, <2>7 DEF Value
<1> HIDE DEF m1, v, e, c
<1>8. /\ ~(n.next <= i) /\ n.next > i /\ n.next <= i + 2 /\ ~(n.next > i + 2)
      /\ ~(n.next = i + 2)
  BY <1>1, <1>6
<1>9. CASE v.value > 0
  <2> DEFINE k == TimesOf(n.syms, e)
  <2>1. k = v.value
    BY <1>5, <1>9 DEF TimesOf
  <2> HIDE DEF k
  <2>2. k \in 1..k /\ c = k - k + 0
    BY <1>4, <1>6, <1>9, <2>1
  <2>3. n.reps = <<[from |-> i + 1, count |-> k, unknown |-> FALSE]>> /\ n.ifs = <<Base, Base>>
    BY <1>4, <1>9, <2>1
  <2>4. InRound(n, i, c, k)
    BY <1>8, <2>2, <2>3 DEF InRound
  <2>5. Backs(n.syms, e)
    BY <1>4, <1>5, <1>9
  <2>. QED
    BY <1>8, <2>4, <2>5, Zenon DEF Looped, k, c, e, s
<1>10. CASE ~(v.value > 0) /\ ~v.unknown
  <2> DEFINE k == TimesOf(n.syms, e)
  <2>1. k = 0
    BY <1>5, <1>10 DEF TimesOf
  <2> HIDE DEF k
  <2>2. LeftOut(n, c, k)
    BY <1>4, <1>6, <1>10, <2>1 DEF LeftOut
  <2>3. Backs(n.syms, e)
    BY <1>5, <1>10
  <2>. QED
    BY <1>8, <2>2, <2>3, Zenon DEF Looped, k, c, e, s
<1>11. CASE ~(v.value > 0) /\ v.unknown
  <2>1. Patient(e.sym) /\ Waiting(n.syms, e.sym)
    BY <1>1, <1>5, <1>7, <1>11 DEF Patient, Fixed
  <2>2. Beyond(n, i)
    <3>1. n.reps = <<>>
      BY <1>4, <1>11
    <3>. QED
      BY <3>1 DEF Beyond
  <2>. QED
    BY <1>8, <2>1, <2>2, Zenon DEF Looped, e, s
<1>. QED
  BY <1>4, <1>9, <1>10, <1>11

(* The line in the loop: written in a round, passed over otherwise.        *)
LEMMA InLoop ==
  ASSUME NEW h, NEW n, Stepped(h, n), NEW i, LoopAt(i), ip = i + 1,
         Backs(h.syms, prog[i].arg),
         NEW c, c = Cardinality(CopiesIn(h.out, i + 1)),
         NEW k, k = TimesOf(h.syms, prog[i].arg),
         InRound(h, i, c, k) \/ LeftOut(h, c, k),
         n.ifs = h.ifs, n.reps = h.reps, n.next = i + 2,
         InRound(h, i, c, k) => OneMore(h.out, n.out),
         LeftOut(h, c, k) => n.out = h.out
  PROVE  Looped(n, i)
<1> DEFINE e == prog[i].arg
           d == Cardinality(CopiesIn(n.out, i + 1))
<1>1. Backs(n.syms, e) /\ TimesOf(n.syms, e) = k
  BY TimesKept DEF Stepped, LoopAt
<1>2. i \in Int /\ h.next = i + 1
  BY DEF LoopAt, Stepped
<1>3. /\ ~(n.next <= i) /\ n.next > i /\ ~(n.next > i + 2) /\ ~(h.next = i + 2)
  BY <1>2
<1>4. h.out \in Seq(Block)
  BY DEF Stepped, WorkType
<1>5. c \in Nat
  BY <1>4, CopiesFacts
<1>6. InRound(n, i, d, k) \/ LeftOut(n, d, k)
  <2>1. CASE InRound(h, i, c, k)
    <3>1. PICK r \in 1..k :
            /\ h.reps = <<[from |-> i + 1, count |-> r, unknown |-> FALSE]>>
            /\ h.ifs = <<Base, Base>> /\ c = k - r + 0
      BY <1>3, <2>1 DEF InRound
    <3>2. d = c + 1
      BY <1>4, <2>1, OwnCopies
    <3>3. d = k - r + 1
      <4>1. k \in Nat
        <5>1. h.syms \in [Names -> SymbolType]
          BY DEF Stepped, WorkType
        <5>. QED
          BY <5>1, TimesType DEF LoopAt
      <4> HIDE DEF d
      <4>. QED
        BY <3>1, <3>2, <4>1
    <3> HIDE DEF d
    <3>. QED
      BY <3>1, <3>3 DEF InRound
  <2>2. CASE LeftOut(h, c, k)
    BY <2>2 DEF LeftOut
  <2>. QED
    BY <2>1, <2>2
<1>. QED
  BY <1>1, <1>3, <1>6, Zenon DEF Looped

LEMMA EndifPlace ==
  ASSUME NEW m \in WorkType, NEW s
  PROVE  LET z == EndifLine(m, s) IN z.reps = m.reps /\ z.next = m.next /\ z.out = m.out
<1> DEFINE r == IF Head(m.ifs).acctrue THEN Label(m, s.lab) ELSE m
           w == [r EXCEPT !.ifs = Tail(@)]
<1>1. EndifLine(m, s) = IF AtBase(m) THEN m ELSE w
  BY DEF EndifLine
<1>2. Calm(m, r)
  BY CalmSelf, CalmLabel
<1>3. r \in WorkType /\ r.reps = m.reps /\ r.next = m.next /\ r.out = m.out
  BY <1>2 DEF Calm, SamePlace
<1> HIDE DEF r
<1>4. w.reps = m.reps /\ w.next = m.next /\ w.out = m.out
  BY <1>3 DEF WorkType
<1> HIDE DEF w
<1>. QED
  BY <1>1, <1>4

LEMMA CountSet ==
  ASSUME NEW l \in [from : Int, count : Int, unknown : BOOLEAN], NEW x \in Int,
         NEW p \in [from : Int, count : Int, unknown : BOOLEAN],
         p.from = l.from, p.unknown = l.unknown, p.count = x
  PROVE  [l EXCEPT !.count = x] = p
OBVIOUS

(* The line of the REPEND.                                                 *)
LEMMA LeaveLoop ==
  ASSUME NEW h, NEW n, Stepped(h, n), NEW i, LoopAt(i), ip = i + 2,
         Backs(h.syms, prog[i].arg),
         NEW c, c = Cardinality(CopiesIn(h.out, i + 1)),
         NEW k, k = TimesOf(h.syms, prog[i].arg),
         InRound(h, i, c, k) \/ LeftOut(h, c, k),
         NEW m \in WorkType, m.ifs = h.ifs, m.reps = h.reps, m.out = h.out, m.next = i + 3,
         NEW s, NEW w, w = RependLine(m, s),
         n.ifs = w.ifs, n.reps = w.reps, n.next = w.next
  PROVE  Looped(n, i)
<1> DEFINE e == prog[i].arg
<1>1. Backs(n.syms, e) /\ TimesOf(n.syms, e) = k
  BY TimesKept DEF Stepped, LoopAt
<1>2. i \in Int /\ h.next = i + 2 /\ i + 1 # ip
  BY DEF LoopAt, Stepped
<1>3. h.out \in Seq(Block)
  BY DEF Stepped, WorkType
<1>4. c \in Nat /\ Cardinality(CopiesIn(n.out, i + 1)) = c
  BY <1>2, <1>3, CopiesFacts, OtherCopies DEF Stepped
<1>5. k \in Nat
  <2>1. h.syms \in [Names -> SymbolType]
    BY DEF Stepped, WorkType
  <2>. QED
    BY <2>1, TimesType DEF LoopAt
<1>6. ASSUME n.reps = <<>>, n.next = i + 3, c = k PROVE Looped(n, i)
  <2>1. ~(n.next <= i) /\ ~(n.next <= i + 2)
    BY <1>2, <1>6
  <2>2. Beyond(n, i + 2)
    BY <1>6 DEF Beyond
  <2>. QED
    BY <1>1, <1>4, <1>6, <2>1, <2>2, Zenon DEF Looped
<1>7. CASE LeftOut(h, c, k)
  <2>1. m.ifs = <<Skipped, Base>> /\ m.reps = <<>> /\ c = k
    BY <1>7 DEF LeftOut
  <2>2. ~Active(m)
    BY <2>1 DEF Active, Skipped
  <2>3. w = EndifLine(m, s)
    BY <2>2, Zenon DEF RependLine
  <2>4. n.reps = <<>> /\ n.next = i + 3
    BY <2>1, <2>3, EndifPlace
  <2>. QED
    BY <1>6, <2>1, <2>4
<1>8. CASE InRound(h, i, c, k)
  <2>1. PICK r \in 1..k :
          /\ h.reps = <<[from |-> i + 1, count |-> r, unknown |-> FALSE]>>
          /\ h.ifs = <<Base, Base>>
          /\ c = k - r + (IF h.next = i + 2 THEN 1 ELSE 0)
    BY <1>8 DEF InRound
  <2> DEFINE l == [from |-> i + 1, count |-> r, unknown |-> FALSE]
  <2>2. c = k - r + 1
    BY <1>2, <2>1
  <2>3. Active(m)
    BY <2>1 DEF Active, Base
  <2>4. m.reps # <<>> /\ Head(m.reps) = l /\ m.reps[1] = l /\ m.reps = <<l>>
    BY <2>1
  <2>5. w = IF MoreRounds(l) THEN [m EXCEPT !.reps[1].count = Left(l), !.next = l.from]
            ELSE EndifLine([m EXCEPT !.reps = Tail(@)], s)
    BY <2>3, <2>4, Zenon DEF RependLine
  <2>6. MoreRounds(l) <=> r > 1
    BY DEF MoreRounds
  <2>7. CASE r > 1
    <3> DEFINE p == [from |-> i + 1, count |-> r - 1, unknown |-> FALSE]
               b == [m EXCEPT !.reps = <<p>>, !.next = i + 1]
    <3>1. w = b
      <4>1. [m.reps EXCEPT ![1].count = Left(l)] = <<p>>
        <5>1. [l EXCEPT !.count = Left(l)] = p
          <6>1. /\ l \in [from : Int, count : Int, unknown : BOOLEAN]
                /\ p \in [from : Int, count : Int, unknown : BOOLEAN]
                /\ p.from = l.from /\ p.unknown = l.unknown
                /\ p.count = Left(l) /\ Left(l) \in Int
            BY <1>2 DEF Left
          <6> HIDE DEF p, l
          <6>. QED
            BY <6>1, CountSet
        <5> HIDE DEF p, l
        <5>2. [m.reps EXCEPT ![1].count = Left(l)] = [<<l>> EXCEPT ![1] = p]
          BY <2>4, <5>1
        <5>3. [<<l>> EXCEPT ![1] = p] = <<p>>
          OBVIOUS
        <5>. QED
          BY <5>2, <5>3
      <4>. QED
        BY <2>5, <2>6, <2>7, <4>1 DEF WorkType
    <3> HIDE DEF p
    <3>2. n.reps = <<p>> /\ n.next = i + 1 /\ n.ifs = m.ifs
      BY <3>1 DEF WorkType
    <3>3. r - 1 \in 1..k /\ c = k - (r - 1) + 0
      BY <1>5, <2>2, <2>7
    <3>4. /\ ~(n.next <= i) /\ n.next > i /\ ~(n.next > i + 2) /\ ~(n.next = i + 2)
      BY <1>2, <3>2
    <3>5. InRound(n, i, c, k)
      BY <2>1, <3>2, <3>3, <3>4 DEF InRound, p
    <3>. QED
      BY <1>1, <1>4, <3>4, <3>5, Zenon DEF Looped
  <2>8. CASE ~(r > 1)
    <3> DEFINE b == [m EXCEPT !.reps = <<>>]
    <3>1. w = EndifLine(b, s)
      <4>1. Tail(m.reps) = <<>>
        BY <2>4
      <4>2. [m EXCEPT !.reps = Tail(@)] = b
        BY <4>1 DEF WorkType
      <4>. QED
        BY <2>5, <2>6, <2>8, <4>2
    <3>2. b \in WorkType /\ b.reps = <<>> /\ b.next = i + 3
      <4>1. <<>> \in Seq(LoopType)
        OBVIOUS
      <4>. QED
        BY <4>1 DEF WorkType
    <3> HIDE DEF b
    <3>3. n.reps = <<>> /\ n.next = i + 3
      BY <3>1, <3>2, EndifPlace
    <3>4. c = k
      BY <1>5, <2>2, <2>8
    <3>. QED
      BY <1>6, <3>3, <3>4
  <2>. QED
    BY <2>7, <2>8
<1>. QED
  BY <1>7, <1>8

-----------------------------------------------------------------------------
(* Which handler runs in the three lines of a loop.                        *)
LEMMA LoopSteps ==
  ASSUME LineStep
  PROVE  /\ Stmt.op = "repeat" => Repeat /\ Commit(RepeatLine(Work, Stmt))
         /\ Stmt.op = "repend" => Commit(RependLine(Work, Stmt))
         /\ Stmt.op = "dc" => \/ Active(Work) /\ Commit(DcLine(Work, Stmt))
                              \/ ~Active(Work) /\ Commit(Work)
         /\ Stmt.op = "equ" /\ Active(Work) => Commit(EquLine(Work, Stmt))
BY DEF LineStep, Plain, Org, Rorg, Rend, Seg, Dc, Ds, Align, Ins, Branch, Equ, SetSym,
       End, Err, If, IfConst, Else, Endif, Repeat, Repend, Skip, Runs, Reads, Stmt, IfOps

LEMMA CommitHere ==
  ASSUME NEW w, Commit(w)
  PROVE  /\ Here'.redo = w.redo /\ Here'.syms = w.syms /\ Here'.out = w.out
         /\ Here'.next = w.next /\ Here'.reps = w.reps /\ Here'.ifs = w.ifs
         /\ (phase = "lines" /\ phase' = "lines" => ~w.dead)
BY DEF Commit, Here, Work

(* A line that goes on keeps every watched loop in its place.              *)
LEMMA LoopsLine ==
  ASSUME IInv, RepInv, LineStep, phase' = "lines"
  PROVE  Loops(Here)'
<1>1. /\ prog' = prog /\ Moves(Work, Here')
      /\ Stmt.op \notin IfOps \cup {"end"} => SamePlace(Work, Here')
      /\ redo <= redo' /\ redo \in Nat /\ redo' \in Nat
      /\ \A g \in Segments : segs[g].bss => segs'[g].bss
      /\ redo' = 0 => Kept(syms, syms')
  BY LineState
<1>2. phase = "lines" /\ IInv'
  BY LineGood, CommitKeeps
<1>3. ip <= Len(prog)
  BY DEF LineStep, Plain, Org, Rorg, Rend, Seg, Dc, Ds, Align, Ins, Branch, Equ, SetSym,
         End, Err, If, IfConst, Else, Endif, Repeat, Repend, Skip, Runs, Reads
<1>4. WorkOK(Work) /\ Work \in WorkType /\ ip \in 1..Len(prog)
  BY <1>2, <1>3, LineStarts DEF WorkOK
<1>5. Here \in WorkType /\ Here' \in WorkType /\ prog \in Seq(Statement) /\ Len(prog) \in Nat
  <2>1. Here' \in WorkType'
    BY <1>2 DEF IInv
  <2>. QED
    BY <1>1, <2>1, SameSource, ProgramAssumption DEF IInv
<1>6. /\ Here.redo = redo /\ Here.segs = segs /\ Here.next = ip /\ ~Here.dead
      /\ Here.syms = syms /\ Here.out = out /\ Here.reps = reps /\ Here.ifs = ifs
      /\ Work.redo = redo /\ Work.segs = segs /\ Work.next = ip + 1 /\ Work.cseg = cseg
      /\ Work.syms = syms /\ Work.out = out /\ Work.reps = reps /\ Work.ifs = ifs
      /\ Here'.redo = redo' /\ Here'.segs = segs' /\ Here'.syms = syms'
  BY <1>5 DEF Here, Work, WorkType
<1> SUFFICES ASSUME Going(Here)', NEW i, Watched(i)' PROVE Looped(Here, i)'
  BY DEF Loops
<1>7. redo' = 0 /\ \A g \in Segments : ~segs'[g].bss
  BY <1>6 DEF Going
<1>8. redo = 0 /\ \A g \in Segments : ~segs[g].bss
  BY <1>1, <1>7
<1>9. Watched(i) /\ LoopAt(i)
  BY <1>1, SameLoops, WatchedFacts DEF LoopAt
<1>10. Looped(Here, i)
  <2>1. Going(Here) /\ i \in 1..Len(prog)
    BY <1>6, <1>8, <1>9 DEF Going, Watched
  <2>. QED
    BY <1>2, <1>9, <2>1 DEF RepInv, Loops
<1> DEFINE h == Here
           n == Here'
           e == prog[i].arg
           c == Cardinality(CopiesIn(h.out, i + 1))
           k == TimesOf(h.syms, e)
<1>11. Stepped(h, n)
  <2>1. \A x : From(Work, x) <=> From(h, x)
    BY <1>6 DEF From
  <2>2. Waits(h, n)
    BY <1>1, <1>6 DEF Moves, Waits
  <2>. QED
    BY <1>1, <1>4, <1>5, <1>6, <1>7, <1>8, <2>1, <2>2 DEF Moves, Stepped
<1>12. i \in Int /\ ip \in Int /\ ip >= 1
  BY <1>4, <1>9 DEF LoopAt
<1>13. ip > i => \/ Patient(e.sym) /\ Waiting(h.syms, e.sym) /\ Beyond(h, i)
                 \/ /\ Backs(h.syms, e)
                    /\ ip <= i + 2 => InRound(h, i, c, k) \/ LeftOut(h, c, k)
                    /\ ip > i + 2 => Beyond(h, i + 2) /\ c = k
  BY <1>6, <1>10, Zenon DEF Looped
<1> SUFFICES Looped(n, i)
  BY <1>1, SameLoops
<1>14. CASE ip < i
  <2>1. Stmt.op \notin IfOps \cup {"end"}
    <3>1. ip \in 1..(i - 1)
      BY <1>12, <1>14
    <3>. QED
      BY <1>9, <3>1 DEF LoopAt, Stmt
  <2>2. n.ifs = h.ifs /\ n.reps = h.reps /\ n.next = ip + 1
    BY <1>1, <1>6, <2>1 DEF SamePlace
  <2>3. Active(Work)
    <3>1. h.next <= i
      BY <1>6, <1>12, <1>14
    <3>2. Outside(h)
      BY <1>10, <3>1 DEF Looped
    <3>. QED
      BY <1>6, <3>2 DEF Outside, Active, Base
  <2>4. ASSUME Gives(ip, i) PROVE ~n.syms[prog[i].arg.sym].unknown
    <3> DEFINE w == EquLine(Work, Stmt)
    <3>1. /\ Stmt.op = "equ" /\ Stmt.lab = prog[i].arg.sym /\ Stmt \in Statement
          /\ Stmt.arg.sym \notin Names \cup {"."}
      BY <1>4, <1>5, <2>4 DEF Gives, Stmt
    <3>2. Stmt.lab \in Names
      BY <1>4, <1>9, <2>4, <3>1, GivenCount
    <3>3. Commit(w)
      BY <2>3, <3>1, LoopSteps
    <3>4. n.syms = w.syms
      BY <3>3, CommitHere
    <3>5. ~w.syms[Stmt.lab].unknown
      BY <1>4, <3>1, <3>2, EquGives
    <3>. QED
      BY <3>1, <3>4, <3>5
  <2> HIDE DEF h, n
  <2>. QED
    BY <1>9, <1>10, <1>11, <1>14, <2>2, <2>4, InFront DEF h
<1>15. CASE ip = i
  <2> DEFINE w == RepeatLine(Work, Stmt)
  <2>1. Stmt = prog[i] /\ Stmt.op = "repeat"
    BY <1>9, <1>15 DEF Stmt, LoopAt
  <2>2. Repeat /\ Commit(w)
    BY <2>1, LoopSteps
  <2>3. /\ n.ifs = w.ifs /\ n.reps = w.reps /\ n.syms = w.syms /\ n.out = w.out
        /\ n.next = w.next /\ w.redo = 0
    BY <1>6, <1>7, <2>2, CommitHere
  <2> HIDE DEF w, h, n
  <2>6. w = RepeatLine(Work, prog[i])
    BY <2>1 DEF w
  <2>7. /\ Work.ifs = h.ifs /\ Work.reps = h.reps /\ Work.out = h.out /\ Work.next = i + 1
        /\ Work.syms = h.syms
    BY <1>6, <1>15 DEF h
  <2>. QED
    BY <1>4, <1>9, <1>10, <1>11, <1>15, <2>3, <2>6, <2>7, EnterLoop DEF h
<1>16. CASE ip > i /\ Patient(e.sym) /\ Waiting(h.syms, e.sym) /\ Beyond(h, i)
  BY <1>9, <1>11, <1>16, StillWaiting
<1>17. CASE /\ ip = i + 1 /\ Backs(h.syms, e)
            /\ InRound(h, i, c, k) \/ LeftOut(h, c, k)
  <2>1. Stmt.op = "dc" /\ Stmt = prog[ip] /\ Stmt \in Statement
    BY <1>4, <1>5, <1>9, <1>17 DEF Stmt, LoopAt
  <2>2. n.ifs = h.ifs /\ n.reps = h.reps /\ n.next = i + 2
    <3>1. SamePlace(Work, n)
      BY <1>1, <2>1 DEF IfOps
    <3>2. ip + 1 = i + 2
      BY <1>12, <1>17
    <3>. QED
      BY <1>6, <3>1, <3>2 DEF SamePlace
  <2>3. ASSUME InRound(h, i, c, k) PROVE OneMore(h.out, n.out)
    <3>1. Active(Work)
      <4>1. h.ifs = <<Base, Base>>
        BY <2>3 DEF InRound
      <4>. QED
        BY <1>6, <4>1 DEF Active, Base
    <3> DEFINE w == DcLine(Work, Stmt)
    <3>2. Commit(w)
      BY <2>1, <3>1, LoopSteps
    <3>3. n.out = w.out /\ w.redo = 0 /\ ~w.dead
      BY <1>2, <1>6, <1>7, <3>2, CommitHere
    <3>4. ~Current(Work).bss
      BY <1>4, <1>6, <1>8 DEF Current, WorkType
    <3>5. ip \in Int
      BY <1>12
    <3>6. w.redo = 0 /\ ~w.dead /\ ~Current(Work).bss /\ WorkOK(Work) => OneMore(Work.out, w.out)
      BY <1>4, <2>1, <3>5, DcStraight
    <3> HIDE DEF w
    <3>. QED
      BY <1>4, <1>6, <3>3, <3>4, <3>6
  <2>4. ASSUME LeftOut(h, c, k) PROVE n.out = h.out
    <3>1. ~Active(Work)
      <4>1. h.ifs = <<Skipped, Base>>
        BY <2>4 DEF LeftOut
      <4>. QED
        BY <1>6, <4>1 DEF Active, Skipped
    <3>2. Commit(Work)
      BY <2>1, <3>1, LoopSteps
    <3>. QED
      BY <1>6, <3>2, CommitHere
  <2> HIDE DEF h, n, c, k
  <2>5. c = Cardinality(CopiesIn(h.out, i + 1)) /\ k = TimesOf(h.syms, prog[i].arg)
    BY DEF c, k
  <2>. QED
    BY <1>9, <1>11, <1>17, <2>2, <2>3, <2>4, <2>5, InLoop
<1>18. CASE /\ ip = i + 2 /\ Backs(h.syms, e)
            /\ InRound(h, i, c, k) \/ LeftOut(h, c, k)
  <2> DEFINE w == RependLine(Work, Stmt)
  <2>1. Stmt.op = "repend"
    BY <1>9, <1>18 DEF Stmt, LoopAt
  <2>2. Commit(w)
    BY <2>1, LoopSteps
  <2>3. n.ifs = w.ifs /\ n.reps = w.reps /\ n.next = w.next
    BY <2>2, CommitHere
  <2>4. Work.ifs = h.ifs /\ Work.reps = h.reps /\ Work.out = h.out /\ Work.next = i + 3
    BY <1>6, <1>12, <1>18
  <2> HIDE DEF w, h, n, c, k
  <2>5. c = Cardinality(CopiesIn(h.out, i + 1)) /\ k = TimesOf(h.syms, prog[i].arg)
    BY DEF c, k
  <2>6. w = RependLine(Work, Stmt)
    BY DEF w
  <2>. QED
    BY <1>4, <1>9, <1>11, <1>18, <2>3, <2>4, <2>5, <2>6, LeaveLoop
<1>19. CASE ip > i + 2 /\ Backs(h.syms, e) /\ Beyond(h, i + 2) /\ c = k
  BY <1>9, <1>11, <1>19, Behind
<1>20. ip < i \/ ip = i \/ ip = i + 1 \/ ip = i + 2 \/ ip > i + 2
  BY <1>12
<1>21. /\ ip = i + 1 => ip > i /\ ip <= i + 2
       /\ ip = i + 2 => ip > i /\ ip <= i + 2
       /\ ip > i + 2 => ip > i
  BY <1>12
<1> HIDE DEF h, n, e, c, k
<1>. QED
  BY <1>13, <1>14, <1>15, <1>16, <1>17, <1>18, <1>19, <1>20, <1>21

-----------------------------------------------------------------------------
LEMMA CloseEnds == ASSUME CloseFile PROVE ip' > Len(prog)' /\ ip' = ip /\ ip > Len(prog)
BY DEF CloseFile, input

(* The loops through the steps of the driver.                              *)
LEMMA DriverLoops ==
  ASSUME IInv, RepInv,
         StartPass \/ CannotOpen \/ CloseFile \/ Again \/ Return \/ UNCHANGED vars
  PROVE  RepInv'
<1>1. prog' = prog /\ Here \in WorkType /\ DTypeOK /\ prog \in Seq(Statement)
      /\ Len(prog) \in Nat
  BY ProgramAssumption DEF IInv, StartPass, CannotOpen, CloseFile, Again, Return, vars, input
<1>2. /\ Here.redo = redo /\ Here.segs = segs /\ Here.next = ip /\ Here.dead = FALSE
      /\ Here.syms = syms /\ Here.out = out /\ Here.reps = reps /\ Here.ifs = ifs
      /\ Here'.redo = redo' /\ Here'.segs = segs' /\ Here'.next = ip' /\ Here'.dead = FALSE
      /\ Here'.syms = syms' /\ Here'.out = out' /\ Here'.reps = reps' /\ Here'.ifs = ifs'
  BY <1>1 DEF Here, Work, WorkType
<1>3. ASSUME phase' \in {"open", "closing", "returned"} PROVE Outside(Here)'
  <2>1. CASE CloseFile
    BY <1>2, <2>1 DEF CloseFile, Outside
  <2>2. CASE CannotOpen \/ Again \/ Return \/ UNCHANGED vars
    <3>1. /\ ifs' = ifs /\ reps' = reps
          /\ phase \in {"open", "closing", "returned"}
      BY <1>3, <2>2 DEF CannotOpen, Again, Return, OpenFails, Finished, NotResolvable, AbortFatal,
                 TooManyPasses, TurnPass, NextPass, Exit, vars, dvars
    <3>. QED
      BY <1>2, <3>1 DEF RepInv, Outside
  <2>3. CASE StartPass
    BY <1>3, <2>3 DEF StartPass, OpenPass
  <2>. QED
    BY <2>1, <2>2, <2>3
<1>4. ASSUME phase' \in {"lines", "closing"} \/ Succeeded'
      PROVE  \/ StartPass /\ phase' = "lines" /\ phase = "open"
             \/ CloseFile /\ phase = "lines"
             \/ /\ (Return /\ Finished) \/ UNCHANGED vars
                /\ phase \in {"lines", "closing"} \/ Succeeded
                /\ phase' = "closing" \/ Succeeded' => phase = "closing" \/ Succeeded
  BY <1>1, <1>4 DEF StartPass, CannotOpen, CloseFile, Again, Return, OpenPass, OpenFails,
         EndOfSource, Finished, NotResolvable, AbortFatal, TooManyPasses, TurnPass, NextPass,
         Exit, Succeeded, DTypeOK, vars, dvars
<1>5. ASSUME phase' = "closing" \/ Succeeded' PROVE ip' > Len(prog)'
  <2>1. CASE CloseFile
    BY <2>1, CloseEnds
  <2>2. CASE (Return /\ Finished) \/ UNCHANGED vars
    <3>1. phase = "closing" \/ Succeeded
      BY <1>4, <1>5, <2>2 DEF Return, Finished, CloseFile, EndOfSource, Succeeded, StartPass,
                              OpenPass, vars, dvars
    <3>2. ip' = ip
      BY <2>2 DEF Return, vars
    <3>. QED
      BY <1>1, <3>1, <3>2 DEF RepInv
  <2>3. ~(StartPass /\ phase' = "lines")
    BY <1>5 DEF Succeeded
  <2>. QED
    BY <1>4, <1>5, <2>1, <2>2, <2>3
<1>6. ASSUME phase' \in {"lines", "closing"} \/ Succeeded' PROVE Loops(Here)'
  <2>1. \A i : (Looped(Here, i)' <=> Looped(Here', i)) /\ (Watched(i)' <=> Watched(i))
    BY <1>1, SameLoops
  <2> SUFFICES ASSUME Going(Here)', NEW i, Watched(i) PROVE Looped(Here', i)
    BY <2>1 DEF Loops
  <2>2. LoopAt(i) /\ i \in 1..Len(prog)
    BY WatchedFacts DEF LoopAt, Watched
  <2>3. i \in Int /\ i >= 1 /\ i + 2 <= Len(prog) /\ Len(prog) \in Int
    BY <2>2 DEF LoopAt
  <2>4. CASE StartPass /\ phase = "open"
    <3>1. Outside(Here')
      BY <1>2, <2>4 DEF RepInv, Outside, StartPass
    <3>2. Here'.next = 1 /\ Here'.out = <<>>
      BY <1>2, <2>4 DEF StartPass
    <3>3. ~(Here'.next > i)
      BY <2>3, <3>2
    <3>4. Cardinality(CopiesIn(Here'.out, i + 1)) = 0
      <4>1. CopiesIn(<<>>, i + 1) = {}
        BY DEF CopiesIn
      <4>. QED
        BY <3>2, <4>1, FS_EmptySet
    <3>5. Told(Here', i)
      BY <3>2 DEF Told
    <3>. QED
      BY <3>1, <3>3, <3>4, <3>5 DEF Looped
  <2>5. CASE (CloseFile /\ phase = "lines") \/ (Return /\ Finished) \/ UNCHANGED vars
    <3>1. /\ syms' = syms /\ segs' = segs /\ out' = out /\ redo' = redo /\ ip' = ip
          /\ phase \in {"lines", "closing"} \/ Succeeded
      BY <1>4, <1>6, <2>5 DEF CloseFile, Return, EndOfSource, Finished, Succeeded, vars, dvars,
                              StartPass, OpenPass
    <3>2. Going(Here)
      BY <1>2, <3>1 DEF Going
    <3>3. Looped(Here, i)
      BY <2>2, <3>1, <3>2 DEF RepInv, Loops
    <3>4. CASE ifs' = ifs /\ reps' = reps
      BY <1>2, <3>1, <3>3, <3>4 DEF Looped, Outside, Beyond, InRound, LeftOut, Told
    <3>5. CASE CloseFile
      <4>1. reps' = <<>> /\ ip > Len(prog)
        BY <3>5 DEF CloseFile
      <4>2. ip \in Int
        BY <1>1 DEF Here, Work, WorkType
      <4>3. ip > i /\ ip > i + 2 /\ ~(ip <= i) /\ ~(ip <= i + 2)
        BY <2>3, <4>1, <4>2
      <4>4. \A j : Beyond(Here', j)
        BY <1>2, <4>1 DEF Beyond
      <4>. QED
        BY <1>2, <3>1, <3>3, <4>3, <4>4 DEF Looped
    <3>. QED
      BY <2>5, <3>4, <3>5 DEF Return, vars
  <2>. QED
    BY <1>4, <1>6, <2>4, <2>5
<1>. QED
  BY <1>3, <1>5, <1>6 DEF RepInv

LEMMA LoopsStart == ASSUME Init PROVE RepInv
<1>1. ifs = <<Base>> /\ reps = <<>> /\ phase = "open"
  BY DEF Init, DInit
<1>2. Outside(Here)
  BY <1>1 DEF Outside, Here, Work
<1>. QED
  BY <1>1, <1>2 DEF RepInv, Succeeded

LEMMA LoopsStep ==
  ASSUME IInv, RepInv, [Next]_vars
  PROVE  RepInv'
<1>1. CASE LineStep
  <2>1. phase = "lines"
    BY <1>1, LineGood
  <2>2. phase' \in {"lines", "exited"}
    <3>1. PICK w : Commit(w)
      BY <1>1, LineGood
    <3>. QED
      BY <2>1, <3>1 DEF Commit
  <2>3. phase' = "lines" => Loops(Here)'
    BY <1>1, LoopsLine
  <2>. QED
    BY <2>2, <2>3 DEF RepInv, Succeeded
<1>2. CASE StartPass \/ CannotOpen \/ CloseFile \/ Again \/ Return \/ UNCHANGED vars
  BY <1>2, DriverLoops
<1>. QED
  BY <1>1, <1>2 DEF Next

(* A loop at the outermost level whose count is known in the end wrote its *)
(* byte that many times, in every source: a count that is a number, a      *)
(* label defined anywhere, or an EQU that a line in front gives a number.  *)
THEOREM CountsHonoured == Spec => []RepeatCountHonoured
<1>1. IInv /\ RepInv => RepeatCountHonoured
  <2> SUFFICES ASSUME IInv, RepInv, Succeeded, \A g \in Segments : ~segs[g].bss,
                      NEW i \in 1..Len(prog), Bare(i), Fixed(prog[i].arg),
                      Resolved(syms, prog[i].arg), GivenInFront(i)
               PROVE  Cardinality(Copies(i + 1)) = Times(prog[i].arg)
    BY DEF RepeatCountHonoured, Complete, Countable, Honoured
  <2> DEFINE e == prog[i].arg
  <2>1. Here \in WorkType
    BY DEF IInv
  <2>2. /\ Here.redo = redo /\ Here.segs = segs /\ Here.next = ip /\ Here.dead = FALSE
        /\ Here.syms = syms /\ Here.out = out
    BY <2>1 DEF Here, Work, WorkType
  <2>3. Going(Here)
    BY <2>2 DEF Going, Succeeded
  <2>4. Watched(i) /\ Looped(Here, i)
    BY <2>3 DEF RepInv, Loops, Watched
  <2>5. LoopAt(i)
    BY <2>4, WatchedFacts DEF LoopAt
  <2>6. ip > i /\ ip > i + 2
    <3>1. ip \in Int /\ i \in Int /\ Len(prog) \in Int /\ i + 2 <= Len(prog)
      BY <2>1, <2>5 DEF Here, Work, WorkType, LoopAt
    <3>2. ip > Len(prog)
      BY DEF RepInv
    <3>. QED
      BY <3>1, <3>2
  <2>7. ~(Patient(e.sym) /\ Waiting(syms, e.sym))
    BY DEF Resolved, Patient, Waiting
  <2>8. Cardinality(CopiesIn(out, i + 1)) = TimesOf(syms, e)
    BY <2>2, <2>4, <2>6, <2>7, Zenon DEF Looped
  <2>9. CopiesIn(out, i + 1) = Copies(i + 1)
    <3>1. out \in Seq(Block)
      BY <2>1, <2>2 DEF WorkType
    <3>. QED
      BY <3>1 DEF CopiesIn, Copies
  <2>10. TimesOf(syms, e) = Times(e)
    BY DEF TimesOf, RoundsOf, Times, Rounds
  <2>. QED
    BY <2>8, <2>9, <2>10
<1>2. Init => RepInv
  BY LoopsStart
<1>3. IInv /\ RepInv /\ [Next]_vars => RepInv'
  BY LoopsStep
<1>4. Spec => []RepInv
  BY <1>2, <1>3, AssemblyInductive, PTL DEF Spec
<1>. QED
  BY <1>1, <1>4, AssemblyInductive, PTL
=============================================================================
