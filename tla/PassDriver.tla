----------------------------- MODULE PassDriver -----------------------------
(***************************************************************************)
(* The multi-pass loop of DASM: MainShadow and main in src/main.c, with    *)
(* the counters of src/errors.c and the Redo globals of src/globals.c.     *)
(*                                                                         *)
(* A pass reopens the output file, reads every source line, and closes the *)
(* output.  Lines raise Redo (with a reason), Redo_eval, the error counter *)
(* and the fatal counter.  At the end of the pass the driver either        *)
(* returns or zeroes the Redo triple and goes to nextpass.                 *)
(*                                                                         *)
(* What a line does is left open here: any growth of the counters.  Module *)
(* Assembly replaces it by the handlers of the pseudo-ops and is checked   *)
(* to implement DSpec.                                                     *)
(***************************************************************************)
EXTENDS Integers

CONSTANTS
  MaxPasses,    \* nMaxPasses: option -p# / -P#, atoi of anything, default 10
  DoAllPasses,  \* bDoAllPasses: option -P
  Reasons,      \* the REASON_* bits of asm.h
  IfReason,     \* REASON_IF_NOT_RESOLVED
  Counts        \* the values the counters may take (a bound for TLC)

ASSUME PassAssumption ==
  /\ MaxPasses \in Int
  /\ DoAllPasses \in BOOLEAN
  /\ IfReason \in Reasons

ASSUME CountAssumption == Counts \subseteq Nat /\ 0 \in Counts

VARIABLES
  phase,   \* "open" (at nextpass), "lines", "closing", "returned", "exited"
  pass,    \* the global pass
  redo,    \* Redo: how often the pass found that another pass is needed
  why,     \* Redo_why: the set of REASON_* bits
  evals,   \* Redo_eval: references to unknown symbols
  old,     \* oldredo, oldwhy, oldeval: the triple of the previous pass
  redoIf,  \* Redo_if: bit 0 (this pass) and bit 1 (the pass before)
  errs,    \* nof_errors
  fatals,  \* nof_fatals
  status   \* the exit status of the process; -1 while it runs

dvars == <<phase, pass, redo, why, evals, old, redoIf, errs, fatals, status>>

Running == -1
EXIT_SUCCESS == 0
EXIT_FAILURE == 1

NoTriple == [redo |-> -1, why |-> {}, evals |-> 0]
Triple == [redo |-> redo, why |-> why, evals |-> evals]

DInit ==
  /\ phase = "open" /\ pass = 1
  /\ redo = 0 /\ why = {} /\ evals = 0
  /\ old = NoTriple
  /\ redoIf = [now |-> FALSE, before |-> FALSE]
  /\ errs = 0 /\ fatals = 0
  /\ status = Running

-----------------------------------------------------------------------------
(* nextpass: the output file is created anew. *)
OpenPass ==
  /\ phase = "open"
  /\ phase' = "lines"
  /\ UNCHANGED <<pass, redo, why, evals, old, redoIf, errs, fatals, status>>

(* The output or list file cannot be opened: a fatal error and a return. *)
OpenFails ==
  /\ phase = "open"
  /\ phase' = "returned"
  /\ fatals' = fatals + 1
  /\ UNCHANGED <<pass, redo, why, evals, old, redoIf, errs, status>>

(* What a line may do to the counters: they only grow; every ++Redo comes  *)
(* with a Redo_why bit, and v_if alone sets its bit and Redo_if.           *)
Accrue ==
  /\ redo' \in Counts /\ evals' \in Counts
  /\ errs' \in Counts /\ fatals' \in Counts
  /\ redo <= redo' /\ evals <= evals' /\ errs <= errs' /\ fatals <= fatals'
  /\ why' \in SUBSET Reasons /\ why \subseteq why'
  /\ (redo' = redo) => (why' = why)
  /\ (redo' # redo) => (why' # {})
  /\ redoIf' = [redoIf EXCEPT !.now = @ \/ IfReason \in why']

(* One source line, whatever it holds. *)
Line ==
  /\ phase = "lines"
  /\ Accrue
  /\ UNCHANGED <<phase, pass, old, status>>

(* panic_fmt, or the fatal error and exit() of generate. *)
Panic ==
  /\ phase = "lines"
  /\ Accrue
  /\ fatals < fatals'
  /\ phase' = "exited" /\ status' = EXIT_FAILURE
  /\ UNCHANGED <<pass, old>>

(* The last include file is closed, then the output file. *)
EndOfSource ==
  /\ phase = "lines"
  /\ phase' = "closing"
  /\ UNCHANGED <<pass, redo, why, evals, old, redoIf, errs, fatals, status>>

-----------------------------------------------------------------------------
(* The decision at the end of a pass. *)
Stuck == ~DoAllPasses /\ Triple = old

Finished ==
  /\ phase = "closing" /\ redo = 0
  /\ phase' = "returned"
  /\ UNCHANGED <<pass, redo, why, evals, old, redoIf, errs, fatals, status>>

NotResolvableSilent ==   \* mutant: the loop detector gives up without a word
  /\ phase = "closing" /\ redo # 0 /\ Stuck
  /\ phase' = "returned"
  /\ UNCHANGED <<pass, redo, why, evals, old, redoIf, errs, fatals, status>>
NotResolvable ==
  /\ phase = "closing" /\ redo # 0 /\ Stuck
  /\ phase' = "returned"
  /\ fatals' = fatals + 1
  /\ UNCHANGED <<pass, redo, why, evals, old, redoIf, errs, status>>

(* The triple is saved and zeroed. *)
SaveTriple ==
  /\ old' = Triple
  /\ redo' = 0 /\ why' = {} /\ evals' = 0

(* Redo_if <<= 1; bits above bit 1 are never read. *)
KeepRedoIf == UNCHANGED redoIf   \* mutant: the shift is forgotten
ShiftRedoIf == redoIf' = [now |-> FALSE, before |-> redoIf.now]

(* pass is incremented before the driver looks at the fatal counter and at *)
(* the pass limit.                                                         *)
TurnPass ==
  /\ phase = "closing" /\ redo # 0 /\ ~Stuck
  /\ SaveTriple /\ ShiftRedoIf
  /\ pass' = pass + 1
  /\ UNCHANGED <<errs, status>>

AbortFatal ==
  /\ TurnPass
  /\ fatals > 0
  /\ phase' = "returned"
  /\ UNCHANGED fatals

TooManyPasses ==
  /\ TurnPass
  /\ fatals = 0 /\ pass + 1 > MaxPasses
  /\ phase' = "returned"
  /\ fatals' = fatals + 1

(* Mutants: the limit is off by one; the fatal counter is not consulted. *)
NextPassDespiteFatal ==
  /\ TurnPass
  /\ pass + 1 <= MaxPasses
  /\ phase' = "open"
  /\ UNCHANGED fatals
NextPass ==
  /\ TurnPass
  /\ fatals = 0 /\ pass + 1 <= MaxPasses
  /\ phase' = "open"
  /\ UNCHANGED fatals

(* main ignores what MainShadow returned and looks at nof_errors only. *)
Exit ==
  /\ phase = "returned"
  /\ phase' = "exited"
  /\ status' = IF errs > 0 THEN EXIT_FAILURE ELSE EXIT_SUCCESS
  /\ UNCHANGED <<pass, redo, why, evals, old, redoIf, errs, fatals>>

DNext ==
  \/ OpenPass \/ OpenFails
  \/ Line \/ Panic \/ EndOfSource
  \/ Finished \/ NotResolvable \/ AbortFatal \/ TooManyPasses \/ NextPass
  \/ Exit

DSpec == DInit /\ [][DNext]_dvars

-----------------------------------------------------------------------------
(* Type invariant of the driver's globals. *)
DTypeOK ==
  /\ phase \in {"open", "lines", "closing", "returned", "exited"}
  /\ pass \in Nat \ {0}
  /\ redo \in Nat /\ evals \in Nat /\ errs \in Nat /\ fatals \in Nat
  /\ why \in SUBSET Reasons
  /\ old \in [redo : Nat \cup {-1}, why : SUBSET Reasons, evals : Nat]
  /\ redoIf \in [now : BOOLEAN, before : BOOLEAN]
  /\ status \in {Running, EXIT_SUCCESS, EXIT_FAILURE}

(* "-p# maximum number of passes": no line is read in a pass beyond the    *)
(* limit, although pass itself is incremented past it before the check.    *)
(* A limit below one still lets pass 1 run.                                *)
PassLimit ==
  phase \in {"open", "lines", "closing"} => pass = 1 \/ pass <= MaxPasses

(* programlabel silences "Label mismatch" by bit 1 of Redo_if: the shift   *)
(* keeps it in step with the reasons of the pass before, and bit 0 with    *)
(* those of this pass, on every path through the end of a pass.            *)
IfSuppression ==
  /\ redoIf.now <=> IfReason \in why
  /\ redoIf.before <=> IfReason \in old.why

(* The loop detector compares against the pass just before this one: from  *)
(* the second pass on, old holds a triple that really asked for a retry.   *)
OldAskedForRetry ==
  /\ (pass > 1) <=> (old # NoTriple)
  /\ pass > 1 => old.redo > 0 /\ old.why # {}

(* nof_fatals "stop after current pass": a source that met a fatal error   *)
(* is not assembled again.                                                 *)
FatalStopsPasses == [][fatals > 0 => phase' # "open" \/ phase = "open"]_dvars

(* MainShadow returns without a fatal error only from a pass that needed   *)
(* no further pass; every other way out has reported one.                  *)
UnresolvedIsReported ==
  [][phase # "returned" /\ phase' = "returned" /\ fatals' = 0
       => phase = "closing" /\ redo = 0]_dvars

(* Every run of the assembler ends: the retries by the pass limit, with -P *)
(* as well as with the loop detector.                                      *)
Termination == <>(phase = "exited")
=============================================================================
