--------------------------- MODULE Nesting_proofs ---------------------------
(***************************************************************************)
(* Theorems about the stacks of Nesting, for every set of sources, every   *)
(* level limit and any number of passes.                                   *)
(*                                                                         *)
(* Each stack has its part of the inductive invariant, IInv at the end:    *)
(* an entry of Ifstack that allows code (acctrue) was pushed where code    *)
(* ran, so all below it is open; Mlevel counts the macro frames, counted   *)
(* from the bottom so that a return takes away the highest; and the scope  *)
(* a macro call saves lies below every scope opened after it.              *)
(***************************************************************************)
EXTENDS Nesting, BasicFacts, FiniteSetTheorems

Entry == [frame : Nat, xtrue : BOOLEAN, acctrue : BOOLEAN]
LoopEntry == [frame : Nat, from : Nat \ {0}, count : Nat]

-----------------------------------------------------------------------------
(* The parts of the invariant.                                             *)
CtlInv == pass \in Nat /\ done \in BOOLEAN

(* Ifstack ends in its base, the only entry of no INCFILE.                 *)
Based(s) ==
  /\ s # <<>> /\ s[Len(s)] = Base
  /\ \A i \in 1..(Len(s) - 1) : s[i].frame # 0
Open(e) == e.xtrue /\ e.acctrue
OuterOpen(s) ==
  \A i, j \in 1..Len(s) : i < j /\ s[i].acctrue => Open(s[j])
IfsOK(s) == s \in Seq(Entry) /\ Based(s) /\ OuterOpen(s)

(* A macro is called from a file, in the end.                              *)
IncOK(s) == s \in Seq(Frame) /\ (s # <<>> => ~s[Len(s)].macro)
Depths(s) == {p \in 1..Len(s) : s[Len(s) + 1 - p].macro}
LevelOK(s, m) == m = Cardinality(Depths(s)) /\ m <= MaxMacLevel

(* The scopes a stack of frames will return to, from the current one out.  *)
SavedBelow(s, l, d) ==
  \A i \in 1..Len(s) : s[i].macro => s[i].saveidx < l /\ s[i].savedolidx < d
SavedOrder(s) ==
  \A i, j \in 1..Len(s) : i < j /\ s[i].macro /\ s[j].macro
     => s[j].saveidx < s[i].saveidx /\ s[j].savedolidx < s[i].savedolidx
ScopeInv ==
  /\ local \in Nat /\ lastLocal \in Nat /\ dollar \in Nat /\ lastDollar \in Nat
  /\ local <= lastLocal /\ dollar <= lastDollar
  /\ SavedBelow(inc, local, dollar) /\ SavedOrder(inc)

IncInv == text \in Texts /\ born \in Nat /\ IncOK(inc) /\ LevelOK(inc, mlevel)
IfInv == IfsOK(ifs)
RepInv == reps \in Seq(LoopEntry)

IInv == CtlInv /\ IncInv /\ IfInv /\ RepInv /\ ScopeInv

-----------------------------------------------------------------------------
(* Stack operations.                                                       *)

(* The loop at the end of a file stops: there is a first entry that is     *)
(* not the file's, or the stack is used up.                                *)
LEMMA OuterStops ==
  ASSUME NEW S, NEW s \in Seq(S), NEW id
  PROVE  \E k \in 1..(Len(s) + 1) :
           /\ \A i \in 1..(k - 1) : s[i].frame = id
           /\ k <= Len(s) => s[k].frame # id
           /\ Outer(s, id) = SubSeq(s, k, Len(s))
<1>1. Len(s) \in Nat
  BY LenProperties
<1> DEFINE T == {k \in 1..(Len(s) + 1) : k <= Len(s) => s[k].frame # id}
<1>2. T \in SUBSET Nat /\ Len(s) + 1 \in T
  BY <1>1
<1>3. PICK k \in T : \A j \in T : k <= j
  BY <1>2, LeastOfSet
<1>4. \A i \in 1..(k - 1) : s[i].frame = id
  BY <1>1, <1>3
<1> DEFINE First(n) == /\ \A i \in 1..(n - 1) : s[i].frame = id
                       /\ n <= Len(s) => s[n].frame # id
<1>5. \E n \in 1..(Len(s) + 1) : First(n)
  BY <1>3, <1>4
<1> DEFINE c == CHOOSE n \in 1..(Len(s) + 1) : First(n)
<1>6. c \in 1..(Len(s) + 1) /\ First(c)
  BY <1>5, Zenon
<1>7. Outer(s, id) = SubSeq(s, c, Len(s))
  BY DEF Outer
<1>. QED
  BY <1>6, <1>7

-----------------------------------------------------------------------------
(* Ifstack.                                                                *)
LEMMA PushIfOK ==
  ASSUME NEW s, IfsOK(s), NEW e \in Entry, e.frame # 0,
         e.acctrue => Open(s[1])
  PROVE  IfsOK(<<e>> \o s)
<1> DEFINE t == <<e>> \o s
<1> USE DEF IfsOK, Based, Open
<1>1. Len(s) \in Nat /\ Len(s) > 0
  BY LenProperties, EmptySeq
<1>2. /\ t \in Seq(Entry) /\ t # <<>> /\ Len(t) = Len(s) + 1
      /\ t[1] = e /\ \A i \in 2..(Len(s) + 1) : t[i] = s[i - 1]
  BY PushFacts
<1> HIDE DEF t
<1>3. Based(t)
  BY <1>1, <1>2
<1>4. OuterOpen(t)
  <2> SUFFICES ASSUME NEW i \in 1..Len(t), NEW j \in 1..Len(t), i < j, t[i].acctrue
               PROVE  Open(t[j])
    BY DEF OuterOpen
  <2>1. j - 1 \in 1..Len(s) /\ t[j] = s[j - 1]
    BY <1>1, <1>2
  <2>2. CASE i = 1
    <3>1. Open(s[1]) /\ s[1].acctrue
      BY <2>2, <1>2
    <3>2. CASE j = 2
      BY <3>1, <3>2, <2>1
    <3>3. CASE j > 2
      BY <3>1, <3>3, <2>1, <1>1 DEF OuterOpen
    <3>. QED
      BY <2>2, <3>2, <3>3, <1>2
  <2>3. CASE i > 1
    BY <2>3, <2>1, <1>1, <1>2 DEF OuterOpen
  <2>. QED
    BY <2>2, <2>3, <1>2
<1>. QED
  BY <1>2, <1>3, <1>4 DEF t

LEMMA DropIfOK ==
  ASSUME NEW s, IfsOK(s), NEW k \in 1..Len(s)
  PROVE  IfsOK(SubSeq(s, k, Len(s)))
<1> DEFINE t == SubSeq(s, k, Len(s))
<1> USE DEF IfsOK, Based
<1>1. Len(s) \in Nat /\ k \in 1..(Len(s) + 1)
  BY LenProperties
<1>2. /\ t \in Seq(Entry) /\ Len(t) = Len(s) + 1 - k
      /\ \A i \in 1..(Len(s) + 1 - k) : t[i] = s[i + k - 1]
  BY <1>1, DropFacts
<1> HIDE DEF t
<1>3. Based(t)
  <2>1. Len(t) \in 1..Len(s) /\ t # <<>>
    BY <1>1, <1>2, EmptySeq
  <2>2. t[Len(t)] = s[Len(s)]
    BY <1>1, <1>2, <2>1
  <2>3. ASSUME NEW i \in 1..(Len(t) - 1) PROVE t[i].frame # 0
    <3>1. i + k - 1 \in 1..(Len(s) - 1) /\ t[i] = s[i + k - 1]
      BY <1>1, <1>2, <2>1
    <3>. QED
      BY <3>1
  <2>. QED
    BY <2>1, <2>2, <2>3
<1>4. OuterOpen(t)
  <2> SUFFICES ASSUME NEW i \in 1..Len(t), NEW j \in 1..Len(t), i < j, t[i].acctrue
               PROVE  Open(t[j])
    BY DEF OuterOpen
  <2>1. /\ i + k - 1 \in 1..Len(s) /\ t[i] = s[i + k - 1]
        /\ j + k - 1 \in 1..Len(s) /\ t[j] = s[j + k - 1]
        /\ i + k - 1 < j + k - 1
    BY <1>1, <1>2
  <2>. QED
    BY <2>1 DEF OuterOpen
<1>. QED
  BY <1>2, <1>3, <1>4 DEF t

LEMMA PopIfOK ==
  ASSUME NEW s, IfsOK(s), s[1].frame # 0
  PROVE  IfsOK(Tail(s))
<1>1. s \in Seq(Entry) /\ s # <<>>
  BY DEF IfsOK, Based
<1>2. Len(s) \in Nat /\ Len(s) # 0
  BY <1>1, LenProperties, EmptySeq
<1>3. Len(s) # 1
  BY <1>2 DEF IfsOK, Based, Base
<1>4. Tail(s) = SubSeq(s, 2, Len(s))
  BY <1>1, TailIsSubSeq
<1>5. 2 \in 1..Len(s)
  <2>1. \A n \in Nat : n # 0 /\ n # 1 => 2 \in 1..n
    OBVIOUS
  <2>. QED
    BY <1>2, <1>3, <2>1
<1>. QED
  BY <1>4, <1>5, DropIfOK

LEMMA FlipIfOK ==
  ASSUME NEW s, IfsOK(s), s[1].frame # 0
  PROVE  IfsOK([s EXCEPT ![1].xtrue = ~@])
<1> DEFINE e == [s[1] EXCEPT !.xtrue = ~@]
           t == [s EXCEPT ![1] = e]
<1> USE DEF IfsOK, Based, Entry
<1>1. Len(s) \in Nat /\ Len(s) > 0
  BY LenProperties, EmptySeq
<1>2. s[1] \in Entry
  <2>1. s \in Seq(Entry) /\ 1 \in 1..Len(s)
    BY <1>1
  <2>. HIDE DEF Entry
  <2>. QED
    BY <2>1, ElementOfSeq
<1>3. e \in Entry /\ e.frame = s[1].frame /\ e.acctrue = s[1].acctrue
  BY <1>2
<1>4. /\ t \in Seq(Entry) /\ Len(t) = Len(s)
      /\ \A j \in 1..Len(s) : t[j] = IF j = 1 THEN e ELSE s[j]
  BY <1>1, <1>3, ExceptSeq
<1>5. [s EXCEPT ![1].xtrue = ~@] = t
  OBVIOUS
<1> HIDE DEF t, e
<1>6. Len(s) # 1
  BY <1>1 DEF Base
<1>7. Based(t)
  BY <1>1, <1>3, <1>4, <1>6
<1>8. OuterOpen(t)
  BY <1>1, <1>3, <1>4 DEF OuterOpen, Open
<1>. QED
  BY <1>4, <1>5, <1>7, <1>8

(* The unguarded loop of CloseFile never takes the base.                   *)
LEMMA OuterIfOK ==
  ASSUME NEW s, IfsOK(s), NEW id, id # 0
  PROVE  IfsOK(Outer(s, id))
<1>1. s \in Seq(Entry) /\ s # <<>>
  BY DEF IfsOK, Based
<1>2. Len(s) \in Nat /\ Len(s) # 0
  BY <1>1, LenProperties, EmptySeq
<1>3. PICK k \in 1..(Len(s) + 1) :
        /\ \A i \in 1..(k - 1) : s[i].frame = id
        /\ Outer(s, id) = SubSeq(s, k, Len(s))
  BY <1>1, OuterStops
<1>4. k # Len(s) + 1
  BY <1>2, <1>3 DEF IfsOK, Based, Base
<1>. QED
  BY <1>2, <1>3, <1>4, DropIfOK

-----------------------------------------------------------------------------
(* Frames and Mlevel.                                                      *)

(* The lines of the sources, as the handlers use them.                     *)
LEMMA LineFacts ==
  ASSUME IncInv, inc # <<>>
  PROVE  /\ Top \in Frame
         /\ Len(text[Top.src]) \in Nat
         /\ ~AtEnd => /\ Line.lab \in BOOLEAN /\ Line.count \in Int
                      /\ Line.op = "call" => Line.target \in Macros
<1>1. inc \in Seq(Frame) /\ Len(inc) \in Nat /\ Len(inc) # 0
  BY LenProperties, EmptySeq DEF IncInv, IncOK
<1>2. Top \in Frame
  BY <1>1, ElementOfSeq DEF Top
<1>3. Top.src \in Sources /\ Top.at \in Nat \ {0}
  BY <1>2 DEF Frame
<1>4. /\ text \in [Sources -> Seq(SourceLine)]
      /\ \A s \in Sources : \A i \in 1..Len(text[s]) :
           text[s][i].op = "call" => text[s][i].target \in Macros
  BY TextAssumption DEF IncInv
<1>5. text[Top.src] \in Seq(SourceLine)
  BY <1>3, <1>4
<1>6. Len(text[Top.src]) \in Nat
  BY <1>5, LenProperties
<1>7. ASSUME ~AtEnd PROVE Top.at \in 1..Len(text[Top.src])
  BY <1>3, <1>6, <1>7 DEF AtEnd
<1>8. ASSUME ~AtEnd PROVE Line \in SourceLine
  BY <1>5, <1>7, <1>8, ElementOfSeq DEF Line
<1>. QED
  BY <1>2, <1>3, <1>4, <1>6, <1>7, <1>8 DEF SourceLine, Line

LEMMA DepthsFinite ==
  ASSUME NEW s, Len(s) \in Nat
  PROVE  IsFiniteSet(Depths(s)) /\ Cardinality(Depths(s)) \in Nat
<1>1. IsFiniteSet(1..Len(s))
  BY FS_Interval
<1>. QED
  BY <1>1, FS_Subset, FS_CardinalityType DEF Depths

(* A change of the top frame that leaves it a macro or a file.             *)
LEMMA TopOK ==
  ASSUME NEW s, IncOK(s), s # <<>>, NEW e \in Frame, e.macro = s[1].macro,
         NEW m, LevelOK(s, m)
  PROVE  IncOK([s EXCEPT ![1] = e]) /\ LevelOK([s EXCEPT ![1] = e], m)
<1> DEFINE t == [s EXCEPT ![1] = e]
<1>1. s \in Seq(Frame) /\ Len(s) \in Nat /\ Len(s) # 0
  BY LenProperties, EmptySeq DEF IncOK
<1>2. /\ t \in Seq(Frame) /\ Len(t) = Len(s)
      /\ \A j \in 1..Len(s) : t[j] = IF j = 1 THEN e ELSE s[j]
  BY <1>1, ExceptSeq
<1> HIDE DEF t
<1>3. \A j \in 1..Len(s) : t[j].macro = s[j].macro
  BY <1>2
<1>4. Depths(t) = Depths(s)
  <2>1. \A p \in 1..Len(s) : Len(s) + 1 - p \in 1..Len(s)
    BY <1>1
  <2>. QED
    BY <1>2, <1>3, <2>1 DEF Depths
<1>5. Len(s) \in 1..Len(s)
  BY <1>1
<1>. QED
  BY <1>2, <1>3, <1>4, <1>5 DEF IncOK, LevelOK, t

LEMMA PushFileOK ==
  ASSUME NEW s, IncOK(s), NEW e \in Frame, ~e.macro, NEW m, LevelOK(s, m)
  PROVE  IncOK(<<e>> \o s) /\ LevelOK(<<e>> \o s, m)
<1> DEFINE t == <<e>> \o s
<1>1. s \in Seq(Frame) /\ Len(s) \in Nat
  BY LenProperties DEF IncOK
<1>2. /\ t \in Seq(Frame) /\ Len(t) = Len(s) + 1 /\ t[1] = e
      /\ \A i \in 2..(Len(s) + 1) : t[i] = s[i - 1]
  BY <1>1, PushFacts
<1> HIDE DEF t
<1>3. \A p \in 1..Len(s) : t[Len(t) + 1 - p] = s[Len(s) + 1 - p]
  BY <1>1, <1>2
<1>4. Depths(t) = Depths(s)
  BY <1>1, <1>2, <1>3 DEF Depths
<1>5. ~t[Len(t)].macro
  BY <1>1, <1>2, EmptySeq DEF IncOK
<1>. QED
  BY <1>2, <1>4, <1>5 DEF IncOK, LevelOK, t

LEMMA PushMacroOK ==
  ASSUME NEW s, IncOK(s), s # <<>>, NEW e \in Frame, e.macro,
         NEW m, LevelOK(s, m), m < MaxMacLevel
  PROVE  IncOK(<<e>> \o s) /\ LevelOK(<<e>> \o s, m + 1)
<1> DEFINE t == <<e>> \o s
<1>1. s \in Seq(Frame) /\ Len(s) \in Nat /\ Len(s) # 0
  BY LenProperties, EmptySeq DEF IncOK
<1>2. /\ t \in Seq(Frame) /\ Len(t) = Len(s) + 1 /\ t[1] = e
      /\ \A i \in 2..(Len(s) + 1) : t[i] = s[i - 1]
  BY <1>1, PushFacts
<1> HIDE DEF t
<1>3. \A p \in 1..Len(s) : t[Len(t) + 1 - p] = s[Len(s) + 1 - p]
  BY <1>1, <1>2
<1>4. Depths(t) = Depths(s) \cup {Len(s) + 1}
  BY <1>1, <1>2, <1>3 DEF Depths
<1>5. Len(s) + 1 \notin Depths(s)
  BY <1>1 DEF Depths
<1>6. Cardinality(Depths(t)) = m + 1 /\ m \in Nat
  BY <1>1, <1>4, <1>5, DepthsFinite, FS_AddElement DEF LevelOK
<1>7. ~t[Len(t)].macro
  BY <1>1, <1>2 DEF IncOK
<1>8. m + 1 <= MaxMacLevel
  BY <1>6, NestingAssumption
<1>. QED
  BY <1>2, <1>6, <1>7, <1>8 DEF IncOK, LevelOK, t

(* The return of n macros at once: Mlevel goes down by n.                  *)
LEMMA LeaveMacrosOK ==
  ASSUME NEW s, IncOK(s), NEW n \in 0..Len(s), n <= Len(s) - 1,
         \A i \in 1..n : s[i].macro,
         NEW m, LevelOK(s, m)
  PROVE  LET t == SubSeq(s, n + 1, Len(s))
         IN  IncOK(t) /\ t # <<>> /\ LevelOK(t, m - n)
<1> DEFINE t == SubSeq(s, n + 1, Len(s))
<1>1. s \in Seq(Frame) /\ Len(s) \in Nat /\ Len(s) # 0 /\ n + 1 \in 1..(Len(s) + 1)
  BY LenProperties, EmptySeq DEF IncOK
<1>2. /\ t \in Seq(Frame) /\ Len(t) = Len(s) - n
      /\ \A i \in 1..(Len(s) - n) : t[i] = s[i + n]
  <2>1. /\ t \in Seq(Frame) /\ Len(t) = Len(s) + 1 - (n + 1)
        /\ \A i \in 1..(Len(s) + 1 - (n + 1)) : t[i] = s[i + (n + 1) - 1]
    BY <1>1, DropFacts
  <2>. QED
    BY <2>1, <1>1
<1> HIDE DEF t
<1>3. \A p \in 1..Len(t) : t[Len(t) + 1 - p] = s[Len(s) + 1 - p]
  BY <1>1, <1>2
<1>4. Depths(t) = Depths(s) \ ((Len(t) + 1)..Len(s))
  <2>1. Len(t) \in Nat /\ Len(t) <= Len(s)
    BY <1>1, <1>2
  <2>2. \A p : p \in 1..Len(t) <=> p \in 1..Len(s) /\ p \notin (Len(t) + 1)..Len(s)
    BY <1>1, <2>1
  <2>. QED
    BY <1>3, <2>2 DEF Depths
<1>5. (Len(t) + 1)..Len(s) \subseteq Depths(s)
  <2> SUFFICES ASSUME NEW p \in (Len(t) + 1)..Len(s)
               PROVE  p \in 1..Len(s) /\ s[Len(s) + 1 - p].macro
    BY DEF Depths
  <2>1. Len(s) + 1 - p \in 1..n /\ p \in 1..Len(s)
    BY <1>1, <1>2
  <2>. QED
    BY <2>1
<1>6. Cardinality((Len(t) + 1)..Len(s)) = n
  BY <1>1, <1>2, FS_Interval
<1>7. Depths(s) \cap ((Len(t) + 1)..Len(s)) = (Len(t) + 1)..Len(s)
  BY <1>5
<1>8. Cardinality(Depths(t)) = m - n /\ m \in Nat
  <2>1. IsFiniteSet(Depths(s)) /\ m \in Nat
    BY <1>1, DepthsFinite DEF LevelOK
  <2>. QED
    BY <2>1, <1>4, <1>6, <1>7, FS_Difference DEF LevelOK
<1>9. ~t[Len(t)].macro /\ t # <<>>
  BY <1>1, <1>2, EmptySeq DEF IncOK
<1>10. m - n <= MaxMacLevel
  BY <1>8, NestingAssumption DEF LevelOK
<1>. QED
  BY <1>2, <1>8, <1>9, <1>10 DEF IncOK, LevelOK, t

(* The end of a file is no return: Mlevel stays.                           *)
LEMMA PopFileOK ==
  ASSUME NEW s, IncOK(s), s # <<>>, ~s[1].macro, NEW m, LevelOK(s, m)
  PROVE  IncOK(Tail(s)) /\ LevelOK(Tail(s), m)
<1> DEFINE t == Tail(s)
<1>1. s \in Seq(Frame) /\ Len(s) \in Nat /\ Len(s) # 0
  BY LenProperties, EmptySeq DEF IncOK
<1>2. /\ t \in Seq(Frame) /\ Len(t) = Len(s) - 1
      /\ \A i \in 1..Len(t) : t[i] = s[i + 1]
  BY <1>1, HeadTailProperties DEF IncOK
<1> HIDE DEF t
<1>3. \A p \in 1..Len(t) : t[Len(t) + 1 - p] = s[Len(s) + 1 - p]
  BY <1>1, <1>2
<1>4. Depths(t) = Depths(s)
  <2>1. \A p : p \in 1..Len(s) <=> p \in 1..Len(t) \/ p = Len(s)
    BY <1>1, <1>2
  <2>2. Len(s) + 1 - Len(s) = 1
    BY <1>1
  <2>. QED
    BY <1>3, <2>1, <2>2 DEF Depths
<1>5. t # <<>> => ~t[Len(t)].macro
  <2> SUFFICES ASSUME t # <<>> PROVE ~t[Len(t)].macro
    OBVIOUS
  <2>1. Len(t) \in 1..Len(t) /\ Len(t) + 1 = Len(s)
    BY <1>1, <1>2, EmptySeq
  <2>. QED
    BY <1>2, <2>1 DEF IncOK
<1>. QED
  BY <1>2, <1>4, <1>5 DEF IncOK, LevelOK, t

LEMMA StepOK ==
  ASSUME IncInv, inc # <<>>
  PROVE  IncOK(Step) /\ Step # <<>> /\ LevelOK(Step, mlevel)
<1> DEFINE e == [inc[1] EXCEPT !.at = @ + 1]
<1>1. inc \in Seq(Frame) /\ Len(inc) \in Nat /\ Len(inc) # 0
  BY LenProperties, EmptySeq DEF IncInv, IncOK
<1>2. e \in Frame /\ e.macro = inc[1].macro
  BY LineFacts DEF Top, Frame
<1>3. Step = [inc EXCEPT ![1] = e]
  BY DEF Step
<1> HIDE DEF e
<1>4. IncOK(Step) /\ LevelOK(Step, mlevel)
  BY <1>2, <1>3, TopOK DEF IncInv
<1>5. 1 \in 1..Len(inc)
  BY <1>1
<1>6. Len(Step) = Len(inc)
  BY <1>1, <1>2, <1>3, <1>5, ExceptSeq
<1>. QED
  BY <1>1, <1>4, <1>6, EmptySeq

(* The frame a macro returns to is there: a macro has a caller.            *)
LEMMA MacroHasCaller ==
  ASSUME IncInv, inc # <<>>, Top.macro
  PROVE  Len(inc) > 1 /\ Len(inc) \in Nat
<1>1. Len(inc) \in Nat /\ Len(inc) # 0
  BY LenProperties, EmptySeq DEF IncInv, IncOK
<1>2. Len(inc) # 1
  BY DEF IncInv, IncOK, Top
<1>. QED
  BY <1>1, <1>2

LEMMA ReturnOK ==
  ASSUME IncInv, ReturnFromMacro
  PROVE  IncOK(inc') /\ LevelOK(inc', mlevel')
<1> USE DEF ReturnFromMacro
<1>1. inc \in Seq(Frame) /\ Len(inc) \in Nat /\ Len(inc) > 1
  BY MacroHasCaller DEF IncInv, IncOK
<1>2. 1 \in 0..Len(inc) /\ 1 <= Len(inc) - 1
  BY <1>1
<1>3. \A i \in 1..1 : inc[i].macro
  BY DEF Top
<1>4. LET t == SubSeq(inc, 1 + 1, Len(inc))
      IN  IncOK(t) /\ t # <<>> /\ LevelOK(t, mlevel - 1)
  BY <1>2, <1>3, LeaveMacrosOK DEF IncInv
<1>5. inc' = SubSeq(inc, 1 + 1, Len(inc))
  BY <1>1, TailIsSubSeq
<1>. QED
  BY <1>4, <1>5

(* END finds the innermost file under the macros.                          *)
LEMMA MacrosAboveFacts ==
  ASSUME IncInv, inc # <<>>
  PROVE  /\ MacrosAbove \in 0..(Len(inc) - 1)
         /\ ~inc[MacrosAbove + 1].macro
         /\ \A i \in 1..MacrosAbove : inc[i].macro
<1>1. inc \in Seq(Frame) /\ Len(inc) \in Nat /\ Len(inc) # 0 /\ ~inc[Len(inc)].macro
  BY LenProperties, EmptySeq DEF IncInv, IncOK
<1> DEFINE T == {n \in 0..(Len(inc) - 1) : ~inc[n + 1].macro}
<1>2. T \in SUBSET Nat /\ T # {}
  <2>1. Len(inc) - 1 \in 0..(Len(inc) - 1) /\ (Len(inc) - 1) + 1 = Len(inc)
    BY <1>1
  <2>2. ~inc[(Len(inc) - 1) + 1].macro
    BY <1>1, <2>1
  <2>3. Len(inc) - 1 \in T
    BY <2>1, <2>2
  <2>4. T \in SUBSET Nat
    OBVIOUS
  <2>. QED
    BY <2>3, <2>4
<1>3. PICK n \in T : \A k \in T : n <= k
  BY <1>2, LeastOfSet
<1>4. n \in 0..(Len(inc) - 1) /\ ~inc[n + 1].macro
  BY <1>3
<1>5. ASSUME NEW i \in 1..n PROVE inc[i].macro
  <2>1. i - 1 \in 0..(Len(inc) - 1) /\ ~(n <= i - 1) /\ (i - 1) + 1 = i
    BY <1>1, <1>4
  <2>. QED
    BY <2>1, <1>3
<1> DEFINE P(k) == ~inc[k + 1].macro /\ \A i \in 1..k : inc[i].macro
<1>6. \E k \in 0..(Len(inc) - 1) : P(k)
  BY <1>4, <1>5
<1>7. MacrosAbove = CHOOSE k \in 0..(Len(inc) - 1) : P(k)
  BY DEF MacrosAbove
<1> HIDE DEF P
<1>8. MacrosAbove \in 0..(Len(inc) - 1) /\ P(MacrosAbove)
  BY <1>6, <1>7, Zenon
<1>. QED
  BY <1>8 DEF P

LEMMA EndOK ==
  ASSUME IncInv, End
  PROVE  IncOK(inc') /\ LevelOK(inc', mlevel')
<1> DEFINE n == MacrosAbove
           rest == SubSeq(inc, n + 1, Len(inc))
<1>1. inc # <<>> /\ inc \in Seq(Frame) /\ Len(inc) \in Nat /\ text \in Texts
  BY LenProperties DEF IncInv, IncOK, End, Runs, Reads
<1>2. /\ n \in 0..(Len(inc) - 1) /\ \A i \in 1..n : inc[i].macro
  BY <1>1, MacrosAboveFacts
<1> HIDE DEF n
<1>3. IncOK(rest) /\ rest # <<>> /\ LevelOK(rest, mlevel - n)
  <2>1. n \in 0..Len(inc) /\ n <= Len(inc) - 1
    BY <1>1, <1>2
  <2>. QED
    BY <1>2, <2>1, LeaveMacrosOK DEF IncInv
<1>4. /\ inc' = [rest EXCEPT ![1].at = Len(text[rest[1].src]) + 1]
      /\ mlevel' = mlevel - n
  BY DEF End, LevelAfterEnd, n
<1> HIDE DEF rest
<1> DEFINE e == [rest[1] EXCEPT !.at = Len(text[rest[1].src]) + 1]
<1>5. rest \in Seq(Frame) /\ Len(rest) \in Nat /\ Len(rest) # 0
  BY <1>3, LenProperties, EmptySeq DEF IncOK
<1>6. rest[1] \in Frame
  BY <1>5, ElementOfSeq
<1>7. Len(text[rest[1].src]) \in Nat
  <2>1. rest[1].src \in Sources
    BY <1>6 DEF Frame
  <2>2. text \in [Sources -> Seq(SourceLine)]
    BY <1>1, TextAssumption
  <2>3. text[rest[1].src] \in Seq(SourceLine)
    BY <2>1, <2>2
  <2>. QED
    BY <2>3, LenProperties
<1>8. e \in Frame /\ e.macro = rest[1].macro
  BY <1>6, <1>7 DEF Frame
<1>9. inc' = [rest EXCEPT ![1] = e]
  BY <1>4
<1> HIDE DEF e
<1>10. IncOK(inc') /\ LevelOK(inc', mlevel - n)
  BY <1>3, <1>8, <1>9, TopOK
<1>. QED
  BY <1>4, <1>10

-----------------------------------------------------------------------------
(* What a step does to each stack.                                         *)

(* Most handlers move the top frame by a line and do nothing else to it.   *)
Moves == /\ inc # <<>> /\ inc' = Step
         /\ UNCHANGED <<text, mlevel, born>>

LEMMA MovesOK == ASSUME IncInv, Moves PROVE IncInv'
BY StepOK DEF Moves, IncInv

LEMMA WhichMove ==
  \/ Plain \/ Skip \/ Subroutine \/ If \/ IfConst \/ Else \/ Endif \/ Repeat
  \/ CallTooDeep \/ StrayMexit
  => Moves
BY DEF Plain, Skip, Subroutine, If, IfConst, Else, Endif, Repeat, CallTooDeep,
       StrayMexit, Moves, Reads, Runs, ctlvars

LEMMA IncludeOK == ASSUME IncInv, Include PROVE IncInv'
<1>1. inc # <<>> /\ born \in Nat
  BY DEF Include, Runs, Reads, IncInv
<1>2. IncOK(Step) /\ LevelOK(Step, mlevel)
  BY <1>1, StepOK
<1>3. CASE Line.target \in Files
  <2> DEFINE e == File(Line.target, born + 1)
  <2>1. e \in Frame /\ ~e.macro
    BY <1>1, <1>3 DEF File, Frame, Sources
  <2>2. inc' = <<e>> \o Step /\ UNCHANGED <<text, mlevel>> /\ born' = born + 1
    BY <1>3 DEF Include, ctlvars
  <2> HIDE DEF e
  <2>. QED
    BY <1>1, <1>2, <2>1, <2>2, PushFileOK DEF IncInv
<1>4. CASE Line.target \notin Files
  <2>1. Moves
    BY <1>1, <1>4 DEF Include, Moves, ctlvars
  <2>. QED
    BY <2>1, MovesOK
<1>. QED
  BY <1>3, <1>4

LEMMA CallOK == ASSUME IncInv, ScopeInv, Call PROVE IncInv'
<1>1. inc # <<>> /\ ~AtEnd /\ Line.op = "call" /\ born \in Nat
  BY DEF Call, Runs, Reads, IncInv
<1>2. IncOK(Step) /\ Step # <<>> /\ LevelOK(Step, mlevel) /\ mlevel < MaxMacLevel
  BY <1>1, StepOK DEF Call, RoomForCall
<1> DEFINE e == [id |-> born + 1, src |-> Line.target, at |-> 1, macro |-> TRUE,
                 saveidx |-> LocalAtCall, savedolidx |-> DollarAtCall]
<1>3. Line.target \in Macros
  BY <1>1, LineFacts
<1>4. LocalAtCall \in Nat /\ DollarAtCall \in Nat
  BY DEF ScopeInv, LocalAtCall, DollarAtCall
<1>5. e \in Frame /\ e.macro
  BY <1>1, <1>3, <1>4 DEF Frame, Sources
<1>6. inc' = <<e>> \o Step /\ UNCHANGED text /\ mlevel' = mlevel + 1 /\ born' = born + 1
  BY DEF Call, ctlvars
<1> HIDE DEF e
<1>7. IncOK(<<e>> \o Step) /\ LevelOK(<<e>> \o Step, mlevel + 1)
  BY <1>2, <1>5, PushMacroOK
<1>. QED
  BY <1>1, <1>6, <1>7 DEF IncInv

LEMMA LoopOK == ASSUME IncInv, RepInv, Loop, inc # <<>> PROVE IncOK(inc') /\ LevelOK(inc', mlevel)
<1>1. reps # <<>> /\ reps \in Seq(LoopEntry)
  BY DEF Loop, InLoop, RepInv
<1>2. Len(reps) \in Nat /\ Len(reps) # 0
  BY <1>1, LenProperties, EmptySeq
<1>3. reps[1] \in LoopEntry
  BY <1>1, <1>2, ElementOfSeq
<1> DEFINE e == [inc[1] EXCEPT !.at = reps[1].from]
<1>4. e \in Frame /\ e.macro = inc[1].macro
  BY <1>3, LineFacts DEF Top, Frame, LoopEntry
<1>5. inc' = [inc EXCEPT ![1] = e]
  BY DEF Loop
<1> HIDE DEF e
<1>. QED
  BY <1>4, <1>5, TopOK DEF IncInv

LEMMA IncStep == ASSUME IncInv, ScopeInv, RepInv, Next PROVE IncInv'
<1>1. CASE Moves
  BY <1>1, MovesOK
<1>2. CASE Repend
  <2>1. inc # <<>> /\ UNCHANGED <<text, mlevel, born>>
    BY <1>2 DEF Repend, Reads, ctlvars
  <2>2. CASE Loop
    BY <2>1, <2>2, LoopOK DEF IncInv
  <2>3. CASE inc' = Step
    BY <2>1, <2>3, MovesOK DEF Moves
  <2>. QED
    BY <1>2, <2>2, <2>3 DEF Repend, Leave, Stray
<1>3. CASE Include
  BY <1>3, IncludeOK
<1>4. CASE Call
  BY <1>4, CallOK
<1>5. CASE ReturnFromMacro
  BY <1>5, ReturnOK DEF IncInv, ReturnFromMacro, ctlvars
<1>6. CASE End
  BY <1>6, EndOK DEF IncInv, End, ctlvars
<1>7. CASE CloseFile
  BY <1>7, PopFileOK DEF IncInv, CloseFile, Top, ctlvars
<1>8. CASE NextPass
  <2> DEFINE e == File(Main, born + 1)
  <2>1. e \in Frame /\ ~e.macro
    BY DEF File, Frame, Sources, IncInv
  <2>2. inc' = <<e>> \o inc /\ UNCHANGED <<text, mlevel>> /\ born' = born + 1
    <3>1. inc = <<>> /\ inc' = <<e>>
      BY <1>8 DEF NextPass
    <3>2. <<e>> \o <<>> = <<e>>
      BY <2>1, ConcatEmptySeq
    <3>. QED
      BY <1>8, <3>1, <3>2 DEF NextPass
  <2> HIDE DEF e
  <2>. QED
    BY <2>1, <2>2, PushFileOK DEF IncInv
<1>9. CASE Finish
  BY <1>9 DEF Finish, IncInv
<1>. QED
  BY <1>1, <1>2, <1>3, <1>4, <1>5, <1>6, <1>7, <1>8, <1>9, WhichMove
     DEF Next, MacroText, Mexit

(* What a step does to Ifstack: nothing, or one of these.                  *)
IfPushed ==
  \E x, acc \in BOOLEAN : (acc => Active) /\ inc # <<>> /\ PushIf(x, acc)
IfFlipped == ~AtBase /\ ifs' = [ifs EXCEPT ![1].xtrue = ~@]
IfClosed == MayClose /\ inc # <<>> /\ ifs' = Tail(ifs)
IfDropped == inc # <<>> /\ ifs' = Outer(ifs, Top.id)

LEMMA IfEffect ==
  ASSUME IfInv, Next
  PROVE  UNCHANGED ifs \/ IfPushed \/ IfFlipped \/ IfClosed \/ IfDropped
<1>0. Active \in BOOLEAN
  <2>1. ifs \in Seq(Entry) /\ ifs # <<>>
    BY DEF IfInv, IfsOK, Based
  <2>2. ifs[1] \in Entry
    BY <2>1, LenProperties, EmptySeq, ElementOfSeq
  <2>. QED
    BY <2>2 DEF Active, Entry
<1>1. CASE If
  BY <1>1 DEF If, IfPushed, Reads
<1>2. CASE IfConst
  BY <1>0, <1>2 DEF IfConst, IfPushed, Reads
<1>3. CASE Repeat
  BY <1>0, <1>3 DEF Repeat, IfPushed, Reads
<1>4. CASE Else
  BY <1>4 DEF Else, IfFlipped
<1>5. CASE Endif
  BY <1>5 DEF Endif, CloseIf, IfClosed, Reads
<1>6. CASE Repend
  <2>1. CloseIf => UNCHANGED ifs \/ IfClosed
    BY <1>6 DEF CloseIf, IfClosed, Repend, Reads
  <2>. QED
    BY <1>6, <2>1 DEF Repend, Loop, Leave, Stray
<1>7. CASE CloseFile
  BY <1>7 DEF CloseFile, IfDropped
<1>8. Plain \/ Skip \/ Subroutine \/ Include \/ Call \/ CallTooDeep \/ MacroText
      \/ Mexit \/ StrayMexit \/ End \/ NextPass \/ Finish => UNCHANGED ifs
  BY DEF Plain, Skip, Subroutine, Include, Call, CallTooDeep, MacroText, Mexit,
         ReturnFromMacro, StrayMexit, End, NextPass, Finish
<1>. QED
  BY <1>1, <1>2, <1>3, <1>4, <1>5, <1>6, <1>7, <1>8 DEF Next

LEMMA IfStep == ASSUME IfInv, IncInv, Next PROVE IfInv'
<1>0. inc # <<>> => Top.id \in Nat \ {0}
  BY LineFacts DEF Frame
<1>1. CASE UNCHANGED ifs
  BY <1>1 DEF IfInv
<1>2. CASE IfPushed
  <2>1. PICK x \in BOOLEAN, acc \in BOOLEAN :
          (acc => Active) /\ inc # <<>> /\ PushIf(x, acc)
    BY <1>2 DEF IfPushed
  <2> DEFINE e == [frame |-> Top.id, xtrue |-> x, acctrue |-> acc]
  <2>2. e \in Entry /\ e.frame # 0 /\ (e.acctrue => Open(ifs[1]))
    BY <1>0, <2>1 DEF Entry, Active, Open
  <2>3. ifs' = <<e>> \o ifs
    BY <2>1 DEF PushIf
  <2> HIDE DEF e
  <2>. QED
    BY <2>2, <2>3, PushIfOK DEF IfInv
<1>3. CASE IfFlipped
  BY <1>3, FlipIfOK DEF IfInv, IfFlipped, AtBase
<1>4. CASE IfClosed
  BY <1>4, PopIfOK DEF IfInv, IfClosed, MayClose, AtBase
<1>5. CASE IfDropped
  BY <1>0, <1>5, OuterIfOK DEF IfInv, IfDropped
<1>. QED
  BY <1>1, <1>2, <1>3, <1>4, <1>5, IfEffect

LEMMA RepStep == ASSUME RepInv, IncInv, Next PROVE RepInv'
<1>1. CASE UNCHANGED reps
  BY <1>1 DEF RepInv
<1>2. CASE Repeat
  <2>1. CASE Active /\ Line.count > 0
    <3> DEFINE e == [frame |-> Top.id, from |-> Top.at + 1, count |-> Line.count]
    <3>1. inc # <<>> /\ ~AtEnd
      BY <1>2 DEF Repeat, Reads
    <3>2. e \in LoopEntry
      BY <2>1, <3>1, LineFacts DEF LoopEntry, Frame
    <3>3. reps' = <<e>> \o reps
      BY <1>2, <2>1 DEF Repeat
    <3> HIDE DEF e
    <3>. QED
      BY <3>2, <3>3, PushFacts DEF RepInv
  <2>2. CASE ~(Active /\ Line.count > 0)
    BY <1>2, <2>2 DEF Repeat, RepInv
  <2>. QED
    BY <2>1, <2>2
<1>3. CASE Repend
  <2>1. CASE Loop
    <3>1. reps # <<>> /\ reps \in Seq(LoopEntry) /\ reps[1].count > 1
      BY <2>1 DEF Loop, InLoop, RepInv
    <3>2. Len(reps) \in Nat /\ Len(reps) # 0
      BY <3>1, LenProperties, EmptySeq
    <3>3. reps[1] \in LoopEntry /\ 1 \in 1..Len(reps)
      BY <3>1, <3>2, ElementOfSeq
    <3> DEFINE e == [reps[1] EXCEPT !.count = Remaining]
    <3>4. e \in LoopEntry
      <4>1. reps[1].count \in Nat /\ Remaining \in Nat
        BY <3>1, <3>3 DEF LoopEntry, Remaining
      <4>. QED
        BY <3>3, <4>1 DEF LoopEntry
    <3>5. reps' = [reps EXCEPT ![1] = e]
      BY <2>1 DEF Loop
    <3> HIDE DEF e
    <3>. QED
      BY <3>1, <3>3, <3>4, <3>5, ExceptSeq DEF RepInv
  <2>2. CASE Leave
    BY <2>2, HeadTailProperties DEF Leave, InLoop, RepInv
  <2>3. CASE UNCHANGED reps
    BY <2>3 DEF RepInv
  <2>. QED
    BY <1>3, <2>1, <2>2, <2>3 DEF Repend, Stray
<1>4. CASE CloseFile
  <2>1. PICK k \in 1..(Len(reps) + 1) : reps' = SubSeq(reps, k, Len(reps))
    BY <1>4, OuterStops DEF CloseFile, RepInv
  <2>. QED
    BY <2>1, DropFacts DEF RepInv
<1>5. Plain \/ Skip \/ Subroutine \/ If \/ IfConst \/ Else \/ Endif \/ Include
      \/ Call \/ CallTooDeep \/ MacroText \/ Mexit \/ StrayMexit \/ End
      \/ NextPass \/ Finish => UNCHANGED reps
  BY DEF Plain, Skip, Subroutine, If, IfConst, Else, Endif, Include, Call,
         CallTooDeep, MacroText, Mexit, ReturnFromMacro, StrayMexit, End,
         NextPass, Finish
<1>. QED
  BY <1>1, <1>2, <1>3, <1>4, <1>5 DEF Next

LEMMA CtlStep == ASSUME CtlInv, Next PROVE CtlInv'
<1>1. CASE NextPass
  BY <1>1 DEF NextPass, CtlInv
<1>4. CASE Finish
  BY <1>4 DEF Finish, CtlInv
<1>2. CASE UNCHANGED <<text, pass, done>>
  BY <1>2 DEF CtlInv
<1>3. Plain \/ Skip \/ Subroutine \/ If \/ IfConst \/ Else \/ Endif \/ Repeat
      \/ Repend \/ Include \/ Call \/ CallTooDeep \/ MacroText \/ Mexit
      \/ StrayMexit \/ End \/ CloseFile => UNCHANGED <<text, pass, done>>
  BY DEF Plain, Skip, Subroutine, If, IfConst, Else, Endif, Repeat, Repend,
         Include, Call, CallTooDeep, MacroText, Mexit, ReturnFromMacro,
         StrayMexit, End, CloseFile, ctlvars
<1>. QED
  BY <1>1, <1>2, <1>3, <1>4 DEF Next

-----------------------------------------------------------------------------
(* Scopes.                                                                 *)

(* t is what is left of the frames s without the k innermost, whatever     *)
(* became of the line numbers.                                             *)
LeftOf(s, k, t) ==
  /\ Len(t) + k = Len(s)
  /\ \A i \in 1..Len(t) : /\ t[i].macro = s[i + k].macro
                          /\ t[i].saveidx = s[i + k].saveidx
                          /\ t[i].savedolidx = s[i + k].savedolidx

LEMMA LeftSaved ==
  ASSUME NEW s, NEW t, NEW k \in Nat, Len(s) \in Nat, Len(t) \in Nat,
         LeftOf(s, k, t), SavedOrder(s)
  PROVE  /\ SavedOrder(t)
         /\ \A l, d : SavedBelow(s, l, d) => SavedBelow(t, l, d)
         /\ k # 0 /\ s[k].macro => SavedBelow(t, s[k].saveidx, s[k].savedolidx)
<1>1. \A i \in 1..Len(t) : i + k \in 1..Len(s) /\ k < i + k
  BY DEF LeftOf
<1>2. SavedOrder(t)
  <2> SUFFICES ASSUME NEW i \in 1..Len(t), NEW j \in 1..Len(t), i < j,
                      t[i].macro, t[j].macro
               PROVE  t[j].saveidx < t[i].saveidx /\ t[j].savedolidx < t[i].savedolidx
    BY DEF SavedOrder
  <2>1. i + k \in 1..Len(s) /\ j + k \in 1..Len(s) /\ i + k < j + k
    BY <1>1
  <2>2. s[i + k].macro /\ s[j + k].macro
    BY DEF LeftOf
  <2>3. s[j + k].saveidx < s[i + k].saveidx /\ s[j + k].savedolidx < s[i + k].savedolidx
    BY <2>1, <2>2 DEF SavedOrder
  <2>. QED
    BY <2>3 DEF LeftOf
<1>3. ASSUME NEW l, NEW d, SavedBelow(s, l, d) PROVE SavedBelow(t, l, d)
  BY <1>1, <1>3 DEF SavedBelow, LeftOf
<1>4. ASSUME k # 0, s[k].macro PROVE SavedBelow(t, s[k].saveidx, s[k].savedolidx)
  <2>1. k \in 1..Len(s)
    BY <1>4 DEF LeftOf
  <2> SUFFICES ASSUME NEW i \in 1..Len(t), t[i].macro
               PROVE  t[i].saveidx < s[k].saveidx /\ t[i].savedolidx < s[k].savedolidx
    BY DEF SavedBelow
  <2>2. s[i + k].macro /\ i + k \in 1..Len(s) /\ k < i + k
    BY <1>1 DEF LeftOf
  <2>3. s[i + k].saveidx < s[k].saveidx /\ s[i + k].savedolidx < s[k].savedolidx
    BY <1>4, <2>1, <2>2 DEF SavedOrder
  <2>. QED
    BY <2>3 DEF LeftOf
<1>. QED
  BY <1>2, <1>3, <1>4

LEMMA PushSaved ==
  ASSUME NEW s \in Seq(Frame), NEW e \in Frame, NEW l \in Nat, NEW d \in Nat,
         SavedOrder(s), SavedBelow(s, l, d),
         e.macro => l <= e.saveidx /\ d <= e.savedolidx
  PROVE  /\ SavedOrder(<<e>> \o s)
         /\ \A m, n \in Nat : /\ l <= m /\ d <= n
                              /\ e.macro => e.saveidx < m /\ e.savedolidx < n
                              => SavedBelow(<<e>> \o s, m, n)
<1> DEFINE t == <<e>> \o s
<1>1. Len(s) \in Nat
  BY LenProperties
<1>2. /\ Len(t) = Len(s) + 1 /\ t[1] = e
      /\ \A i \in 2..(Len(s) + 1) : t[i] = s[i - 1]
  BY PushFacts
<1> HIDE DEF t
<1>3. \A i \in 1..Len(s) : s[i].saveidx \in Nat /\ s[i].savedolidx \in Nat
  <2> SUFFICES ASSUME NEW i \in 1..Len(s) PROVE s[i] \in Frame
    BY DEF Frame
  <2>. QED
    BY ElementOfSeq
<1>4. e.saveidx \in Nat /\ e.savedolidx \in Nat
  BY DEF Frame
<1>5. \A i \in 2..Len(t) : i - 1 \in 1..Len(s) /\ t[i] = s[i - 1]
  BY <1>1, <1>2
<1>6. SavedOrder(t)
  <2> SUFFICES ASSUME NEW i \in 1..Len(t), NEW j \in 1..Len(t), i < j,
                      t[i].macro, t[j].macro
               PROVE  t[j].saveidx < t[i].saveidx /\ t[j].savedolidx < t[i].savedolidx
    BY DEF SavedOrder
  <2>1. j \in 2..Len(t) /\ j - 1 \in 1..Len(s) /\ t[j] = s[j - 1]
    BY <1>1, <1>2, <1>5
  <2>2. s[j - 1].saveidx < l /\ s[j - 1].savedolidx < d
    BY <2>1 DEF SavedBelow
  <2>3. CASE i = 1
    BY <2>1, <2>2, <2>3, <1>2, <1>3, <1>4
  <2>4. CASE i # 1
    <3>1. i - 1 \in 1..Len(s) /\ t[i] = s[i - 1] /\ i - 1 < j - 1
      BY <2>4, <1>2, <1>5
    <3>. QED
      BY <2>1, <3>1 DEF SavedOrder
  <2>. QED
    BY <2>3, <2>4
<1>7. ASSUME NEW m \in Nat, NEW n \in Nat, l <= m, d <= n,
             e.macro => e.saveidx < m /\ e.savedolidx < n
      PROVE  SavedBelow(t, m, n)
  <2> SUFFICES ASSUME NEW i \in 1..Len(t), t[i].macro
               PROVE  t[i].saveidx < m /\ t[i].savedolidx < n
    BY DEF SavedBelow
  <2>1. CASE i = 1
    BY <2>1, <1>2, <1>7
  <2>2. CASE i # 1
    <3>1. i - 1 \in 1..Len(s) /\ t[i] = s[i - 1]
      BY <2>2, <1>2, <1>5
    <3>2. s[i - 1].saveidx < l /\ s[i - 1].savedolidx < d
      BY <3>1 DEF SavedBelow
    <3>. QED
      BY <3>1, <3>2, <1>3, <1>7
  <2>. QED
    BY <2>1, <2>2
<1>. QED
  BY <1>6, <1>7 DEF t

LEMMA SavedMonotone ==
  ASSUME NEW s \in Seq(Frame), NEW l \in Nat, NEW d \in Nat, SavedBelow(s, l, d),
         NEW m \in Nat, NEW n \in Nat, l <= m, d <= n
  PROVE  SavedBelow(s, m, n)
<1> SUFFICES ASSUME NEW i \in 1..Len(s), s[i].macro
             PROVE  s[i].saveidx < m /\ s[i].savedolidx < n
  BY DEF SavedBelow
<1>1. s[i] \in Frame
  BY ElementOfSeq
<1>. QED
  BY <1>1 DEF SavedBelow, Frame

(* Only the line of the top frame changes.                                 *)
LEMMA LineMoved ==
  ASSUME IncInv, inc # <<>>, NEW x
  PROVE  /\ LeftOf(inc, 0, [inc EXCEPT ![1].at = x])
         /\ DOMAIN inc = 1..Len(inc)
<1> DEFINE t == [inc EXCEPT ![1].at = x]
<1>1. inc \in Seq(Frame) /\ Len(inc) \in Nat /\ Len(inc) # 0 /\ DOMAIN inc = 1..Len(inc)
  BY LenProperties, EmptySeq DEF IncInv, IncOK
<1>2. Len(t) = Len(inc)
  BY <1>1
<1>3. \A i \in 1..Len(inc) : /\ t[i].macro = inc[i].macro
                             /\ t[i].saveidx = inc[i].saveidx
                             /\ t[i].savedolidx = inc[i].savedolidx
  <2> SUFFICES ASSUME NEW i \in 1..Len(inc)
               PROVE  /\ t[i].macro = inc[i].macro
                      /\ t[i].saveidx = inc[i].saveidx
                      /\ t[i].savedolidx = inc[i].savedolidx
    OBVIOUS
  <2>1. inc[i] \in Frame
    BY <1>1, ElementOfSeq
  <2>2. t[i] = IF i = 1 THEN [inc[1] EXCEPT !.at = x] ELSE inc[i]
    BY <1>1
  <2>. QED
    BY <2>1, <2>2 DEF Frame
<1>. QED
  BY <1>1, <1>2, <1>3 DEF LeftOf

(* No handler but a return leads back to an older scope.                   *)
Forward ==
  /\ local' \in Nat /\ lastLocal' \in Nat /\ dollar' \in Nat /\ lastDollar' \in Nat
  /\ local <= local' /\ local' <= lastLocal'
  /\ dollar <= dollar' /\ dollar' <= lastDollar'

LEMMA ForwardOK ==
  ASSUME ScopeInv, IncInv, IncInv', LeftOf(inc, 0, inc'), Forward
  PROVE  ScopeInv'
<1>1. inc \in Seq(Frame) /\ inc' \in Seq(Frame) /\ Len(inc) \in Nat /\ Len(inc') \in Nat
  BY LenProperties DEF IncInv, IncOK
<1>2. SavedOrder(inc') /\ SavedBelow(inc', local, dollar)
  BY <1>1, LeftSaved DEF ScopeInv
<1>3. SavedBelow(inc', local', dollar')
  BY <1>1, <1>2, SavedMonotone DEF ScopeInv, Forward
<1>. QED
  BY <1>2, <1>3 DEF ScopeInv, Forward

LEMMA ProgramlabelForward ==
  ASSUME ScopeInv, IncInv, inc # <<>>, ~AtEnd,
         Programlabel \/ UNCHANGED <<dollar, lastDollar>>,
         UNCHANGED <<local, lastLocal>> \/ (local' = FreshScope /\ lastLocal' = FreshScope)
  PROVE  Forward
<1>1. Line.lab \in BOOLEAN
  BY LineFacts
<1>. QED
  BY <1>1 DEF ScopeInv, Forward, Programlabel, NewDollar, FreshScope

LEMMA WhichForward ==
  ASSUME ScopeInv, IncInv,
         Plain \/ Skip \/ Subroutine \/ If \/ IfConst \/ Else \/ Endif \/ Repeat
         \/ Repend \/ Include \/ CallTooDeep \/ StrayMexit
  PROVE  inc # <<>> /\ Forward
<1>1. /\ inc # <<>> /\ ~AtEnd
      /\ Programlabel \/ UNCHANGED <<dollar, lastDollar>>
      /\ UNCHANGED <<local, lastLocal>> \/ (local' = FreshScope /\ lastLocal' = FreshScope)
  <2>1. CASE Plain \/ Skip \/ Subroutine \/ Include \/ CallTooDeep \/ StrayMexit
    BY <2>1 DEF Plain, Skip, Subroutine, Include, CallTooDeep, StrayMexit,
                Runs, Reads, scopevars
  <2>2. CASE If \/ IfConst \/ Else \/ Endif \/ Repeat
    BY <2>2 DEF If, IfConst, Else, Endif, Repeat, CloseIf, ProgramlabelIf, Reads
  <2>3. CASE Repend
    BY <2>3 DEF Repend, Loop, Leave, Stray, CloseIf, ProgramlabelIf, Reads
  <2>. QED
    BY <2>1, <2>2, <2>3
<1>. QED
  BY <1>1, ProgramlabelForward

(* A return leads to the scopes saved by the outermost of the k frames     *)
(* left, which are below every scope opened since.                         *)
LEMMA BackOK ==
  ASSUME ScopeInv, IncInv, IncInv', NEW k \in 1..Len(inc), inc[k].macro,
         LeftOf(inc, k, inc'),
         local' = inc[k].saveidx, dollar' = inc[k].savedolidx,
         UNCHANGED <<lastLocal, lastDollar>>
  PROVE  ScopeInv'
<1>1. inc \in Seq(Frame) /\ inc' \in Seq(Frame) /\ Len(inc) \in Nat /\ Len(inc') \in Nat
  BY LenProperties DEF IncInv, IncOK
<1>2. inc[k] \in Frame
  BY <1>1, ElementOfSeq
<1>3. local' \in Nat /\ dollar' \in Nat /\ local' < local /\ dollar' < dollar
  BY <1>2 DEF Frame, ScopeInv, SavedBelow
<1>4. k \in Nat /\ k # 0
  OBVIOUS
<1>5. SavedOrder(inc') /\ SavedBelow(inc', local', dollar')
  BY <1>1, <1>4, LeftSaved DEF ScopeInv
<1>. QED
  BY <1>3, <1>5 DEF ScopeInv

LEMMA CallScopes == ASSUME ScopeInv, IncInv, IncInv', Call PROVE ScopeInv'
<1>1. inc # <<>> /\ ~AtEnd /\ born \in Nat
  BY DEF Call, Runs, Reads, IncInv
<1>2. Line.lab \in BOOLEAN /\ Line.op = "call" /\ Line.target \in Macros
  BY <1>1, LineFacts DEF Call, Runs, Reads
<1> DEFINE e == [id |-> born + 1, src |-> Line.target, at |-> 1, macro |-> TRUE,
                 saveidx |-> LocalAtCall, savedolidx |-> DollarAtCall]
<1>3. inc \in Seq(Frame) /\ Step \in Seq(Frame) /\ Len(inc) \in Nat /\ Len(Step) \in Nat
  BY <1>1, StepOK, LenProperties DEF IncInv, IncOK
<1>4. SavedOrder(Step) /\ SavedBelow(Step, local, dollar)
  <2>1. LeftOf(inc, 0, Step)
    BY <1>1, LineMoved DEF Step
  <2>. QED
    BY <1>3, <2>1, LeftSaved DEF ScopeInv
<1>5. /\ LocalAtCall \in Nat /\ DollarAtCall \in Nat /\ LastAtCall \in Nat
      /\ local <= LocalAtCall /\ dollar <= DollarAtCall
      /\ LocalAtCall <= lastLocal /\ DollarAtCall <= LastAtCall
  BY <1>2 DEF ScopeInv, LocalAtCall, DollarAtCall, LastAtCall, NewDollar
<1>6. /\ e \in Frame /\ e.macro
      /\ e.saveidx = LocalAtCall /\ e.savedolidx = DollarAtCall
  BY <1>1, <1>2, <1>5 DEF Frame, Sources
<1>7. /\ inc' = <<e>> \o Step
      /\ local' = lastLocal + 1 /\ lastLocal' = lastLocal + 1
      /\ dollar' = LastAtCall + 1 /\ lastDollar' = LastAtCall + 1
  BY DEF Call, FreshScope
<1> HIDE DEF e
<1>8. local \in Nat /\ dollar \in Nat /\ lastLocal \in Nat
  BY DEF ScopeInv
<1>9. /\ SavedOrder(<<e>> \o Step)
      /\ \A m, n \in Nat : /\ local <= m /\ dollar <= n
                           /\ e.macro => e.saveidx < m /\ e.savedolidx < n
                           => SavedBelow(<<e>> \o Step, m, n)
  BY <1>3, <1>4, <1>5, <1>6, <1>8, PushSaved
<1>10. SavedBelow(<<e>> \o Step, lastLocal + 1, LastAtCall + 1)
  <2>1. lastLocal + 1 \in Nat /\ LastAtCall + 1 \in Nat
    BY <1>5, <1>8
  <2>2. /\ local <= lastLocal + 1 /\ dollar <= LastAtCall + 1
        /\ e.saveidx < lastLocal + 1 /\ e.savedolidx < LastAtCall + 1
    BY <1>5, <1>6, <1>8
  <2>. QED
    BY <1>9, <2>1, <2>2
<1>. QED
  BY <1>5, <1>7, <1>8, <1>9, <1>10 DEF ScopeInv

LEMMA IncludeScopes == ASSUME ScopeInv, IncInv, IncInv', Include PROVE ScopeInv'
<1>1. inc # <<>> /\ Forward /\ born \in Nat
  BY WhichForward DEF IncInv
<1>2. inc \in Seq(Frame) /\ Step \in Seq(Frame) /\ Len(inc) \in Nat /\ Len(Step) \in Nat
  BY <1>1, StepOK, LenProperties DEF IncInv, IncOK
<1>3. LeftOf(inc, 0, Step)
  BY <1>1, LineMoved DEF Step
<1>4. CASE Line.target \in Files
  <2> DEFINE e == File(Line.target, born + 1)
  <2>1. e \in Frame /\ ~e.macro
    BY <1>1, <1>4 DEF File, Frame, Sources
  <2>2. inc' = <<e>> \o Step
    BY <1>4 DEF Include
  <2> HIDE DEF e
  <2>3. SavedOrder(Step) /\ SavedBelow(Step, local, dollar)
    BY <1>2, <1>3, LeftSaved DEF ScopeInv
  <2>4. local \in Nat /\ dollar \in Nat
    BY DEF ScopeInv
  <2>5. SavedOrder(inc') /\ SavedBelow(inc', local', dollar')
    BY <1>1, <1>2, <2>1, <2>2, <2>3, <2>4, PushSaved DEF Forward
  <2>. QED
    BY <1>1, <2>5 DEF ScopeInv, Forward
<1>5. CASE Line.target \notin Files
  BY <1>1, <1>3, <1>5, ForwardOK DEF Include
<1>. QED
  BY <1>4, <1>5

LEMMA ReturnScopes == ASSUME ScopeInv, IncInv, IncInv', ReturnFromMacro PROVE ScopeInv'
<1>1. inc \in Seq(Frame) /\ inc # <<>> /\ inc' = Tail(inc)
  BY DEF IncInv, IncOK, ReturnFromMacro
<1>2. Len(inc) \in Nat /\ 1 \in 1..Len(inc)
  BY <1>1, LenProperties, EmptySeq
<1>3. LeftOf(inc, 1, inc')
  BY <1>1, <1>2, HeadTailProperties DEF LeftOf
<1>. QED
  BY <1>2, <1>3, BackOK DEF ReturnFromMacro, Top

LEMMA EndScopes == ASSUME ScopeInv, IncInv, IncInv', End PROVE ScopeInv'
<1> DEFINE n == MacrosAbove
           rest == SubSeq(inc, n + 1, Len(inc))
<1>1. inc # <<>> /\ inc \in Seq(Frame) /\ Len(inc) \in Nat
  BY LenProperties DEF IncInv, IncOK, End, Runs, Reads
<1>2. /\ n \in 0..(Len(inc) - 1) /\ \A i \in 1..n : inc[i].macro
  BY <1>1, MacrosAboveFacts
<1>3. /\ inc' = [rest EXCEPT ![1].at = Len(text[rest[1].src]) + 1]
      /\ local' = IF n = 0 THEN local ELSE inc[n].saveidx
      /\ dollar' = IF n = 0 THEN dollar ELSE inc[n].savedolidx
      /\ UNCHANGED <<lastLocal, lastDollar>>
  BY DEF End
<1> HIDE DEF n
<1>4. /\ rest \in Seq(Frame) /\ Len(rest) = Len(inc) - n
      /\ \A i \in 1..(Len(inc) - n) : rest[i] = inc[i + n]
  <2>1. n + 1 \in 1..(Len(inc) + 1)
    BY <1>1, <1>2
  <2>2. /\ rest \in Seq(Frame) /\ Len(rest) = Len(inc) + 1 - (n + 1)
        /\ \A i \in 1..(Len(inc) + 1 - (n + 1)) : rest[i] = inc[i + (n + 1) - 1]
    BY <1>1, <2>1, DropFacts
  <2>. QED
    BY <1>1, <1>2, <2>2
<1> HIDE DEF rest
<1>5. \A i \in 1..Len(rest) : rest[i] \in Frame
  BY <1>4, ElementOfSeq
<1>6. Len(inc') = Len(rest)
  BY <1>3, <1>4
<1>7. \A i \in 1..Len(rest) : /\ inc'[i].macro = rest[i].macro
                              /\ inc'[i].saveidx = rest[i].saveidx
                              /\ inc'[i].savedolidx = rest[i].savedolidx
  <2> SUFFICES ASSUME NEW i \in 1..Len(rest)
               PROVE  /\ inc'[i].macro = rest[i].macro
                      /\ inc'[i].saveidx = rest[i].saveidx
                      /\ inc'[i].savedolidx = rest[i].savedolidx
    OBVIOUS
  <2>1. rest[i] \in Frame
    BY <1>5
  <2>2. DOMAIN rest = 1..Len(rest)
    BY <1>4, LenProperties
  <2>3. inc'[i] = IF i = 1
                  THEN [rest[1] EXCEPT !.at = Len(text[rest[1].src]) + 1]
                  ELSE rest[i]
    BY <1>3, <2>2
  <2>. QED
    BY <2>1, <2>3 DEF Frame
<1>8. LeftOf(inc, n, inc')
  BY <1>1, <1>2, <1>4, <1>6, <1>7 DEF LeftOf
<1>9. CASE n = 0
  <2>1. Forward
    BY <1>3, <1>9 DEF Forward, ScopeInv
  <2>. QED
    BY <1>8, <1>9, <2>1, ForwardOK
<1>10. CASE n # 0
  <2>1. n \in 1..Len(inc) /\ inc[n].macro
    BY <1>1, <1>2, <1>10
  <2>. QED
    BY <1>3, <1>8, <1>10, <2>1, BackOK
<1>. QED
  BY <1>9, <1>10

LEMMA CloseFileScopes == ASSUME ScopeInv, IncInv, IncInv', CloseFile PROVE ScopeInv'
<1>1. /\ inc \in Seq(Frame) /\ inc # <<>> /\ inc' = Tail(inc)
      /\ UNCHANGED <<local, lastLocal, dollar, lastDollar>>
  BY DEF IncInv, IncOK, CloseFile, scopevars
<1>2. Len(inc) \in Nat /\ Len(inc') \in Nat /\ 1 \in Nat
  BY <1>1, LenProperties DEF IncInv, IncOK
<1>3. LeftOf(inc, 1, inc')
  BY <1>1, <1>2, HeadTailProperties DEF LeftOf
<1>4. SavedOrder(inc') /\ SavedBelow(inc', local, dollar)
  BY <1>2, <1>3, LeftSaved DEF ScopeInv
<1>. QED
  BY <1>1, <1>4 DEF ScopeInv

LEMMA ScopeStep == ASSUME ScopeInv, IncInv, IncInv', Next PROVE ScopeInv'
<1>1. CASE Moves /\ Forward
  BY <1>1, LineMoved, ForwardOK DEF Moves, Step
<1>2. CASE Repend
  <2>1. inc # <<>> /\ Forward
    BY <1>2, WhichForward
  <2>2. CASE Loop
    BY <2>1, <2>2, LineMoved, ForwardOK DEF Loop
  <2>3. CASE inc' = Step
    BY <2>1, <2>3, LineMoved, ForwardOK DEF Step
  <2>. QED
    BY <1>2, <2>2, <2>3 DEF Repend, Leave, Stray
<1>3. CASE NextPass
  <2>1. /\ inc' = <<File(Main, born + 1)>> /\ local' = 0 /\ lastLocal' = 0
        /\ dollar' = 0 /\ lastDollar' = 0
    BY <1>3 DEF NextPass
  <2>2. \A i \in 1..Len(inc') : ~inc'[i].macro
    BY <2>1 DEF File
  <2>. QED
    BY <2>1, <2>2 DEF ScopeInv, SavedBelow, SavedOrder
<1>4. CASE Finish
  BY <1>4 DEF Finish, ScopeInv, scopevars
<1>. QED
  BY <1>1, <1>2, <1>3, <1>4, WhichMove, WhichForward, IncludeScopes, CallScopes,
     ReturnScopes, EndScopes, CloseFileScopes DEF Next, MacroText, Mexit

-----------------------------------------------------------------------------
(* The theorems.                                                           *)
LEMMA InitOK == Init => IInv
<1> SUFFICES ASSUME Init PROVE IInv
  OBVIOUS
<1> USE DEF Init
<1> DEFINE e == File(Main, 1)
<1>1. e \in Frame /\ ~e.macro
  BY DEF File, Frame, Sources
<1>2. inc = <<e>> \o <<>>
  BY <1>1, ConcatEmptySeq
<1> HIDE DEF e
<1>3. IncOK(<<>>) /\ LevelOK(<<>>, 0)
  <2>1. Depths(<<>>) = {}
    BY DEF Depths
  <2>2. <<>> \in Seq(Frame)
    OBVIOUS
  <2>3. Cardinality(Depths(<<>>)) = 0 /\ 0 <= MaxMacLevel
    BY <2>1, FS_EmptySet, NestingAssumption
  <2>. QED
    BY <2>2, <2>3 DEF IncOK, LevelOK
<1>4. IncInv
  BY <1>1, <1>2, <1>3, PushFileOK DEF IncInv
<1>5. IfInv
  <2>1. Base \in Entry
    BY DEF Base, Entry
  <2>2. ifs = <<Base>> /\ ifs \in Seq(Entry) /\ Len(ifs) = 1
    BY <2>1
  <2>. QED
    BY <2>2 DEF IfInv, IfsOK, Based, OuterOpen
<1>6. ScopeInv
  <2>1. \A i \in 1..Len(inc) : ~inc[i].macro
    BY DEF File
  <2>. QED
    BY <2>1 DEF ScopeInv, SavedBelow, SavedOrder
<1>7. CtlInv
  BY DEF CtlInv
<1>8. RepInv
  BY EmptySeq DEF RepInv
<1>. QED
  BY <1>4, <1>5, <1>6, <1>7, <1>8 DEF IInv

(* The inductive invariant.                                                *)
THEOREM Inductive == Spec => []IInv
<1>1. IInv /\ [Next]_vars => IInv'
  <2> SUFFICES ASSUME IInv, [Next]_vars PROVE IInv'
    OBVIOUS
  <2>1. CASE Next
    <3>1. IncInv' /\ IfInv' /\ RepInv' /\ CtlInv'
      BY <2>1, IncStep, IfStep, RepStep, CtlStep DEF IInv
    <3>2. ScopeInv'
      BY <2>1, <3>1, ScopeStep DEF IInv
    <3>. QED
      BY <3>1, <3>2 DEF IInv
  <2>2. CASE UNCHANGED vars
    BY <2>2 DEF vars, ctlvars, scopevars, IInv, CtlInv, IncInv, IfInv, RepInv, ScopeInv
  <2>. QED
    BY <2>1, <2>2
<1>. QED
  BY InitOK, <1>1, PTL DEF Spec

(* Type correctness of what the line loop keeps on stacks: the base of     *)
(* Ifstack is always there, Mlevel is never negative and never above       *)
(* MAXMACLEVEL (v_execmac, v_endm and v_end keep it in step).              *)
THEOREM TypeCorrect == Spec => []TypeOK
<1>1. IInv => TypeOK
  <2> SUFFICES ASSUME IInv PROVE TypeOK
    OBVIOUS
  <2>1. inc \in Seq(Frame) /\ born \in Nat
    BY DEF IInv, IncInv, IncOK
  <2>2. mlevel \in 0..MaxMacLevel
    <3>1. mlevel \in Nat /\ mlevel <= MaxMacLevel
      BY <2>1, LenProperties, DepthsFinite DEF IInv, IncInv, LevelOK
    <3>. QED
      BY <3>1, NestingAssumption
  <2>3. /\ ifs \in Seq([frame : Nat, xtrue : BOOLEAN, acctrue : BOOLEAN])
        /\ ifs # <<>> /\ ifs[Len(ifs)] = Base
        /\ \A i \in 1..(Len(ifs) - 1) : ifs[i].frame # 0
    BY DEF IInv, IfInv, IfsOK, Based, Entry
  <2>4. reps \in Seq([frame : Nat, from : Nat \ {0}, count : Nat])
    BY DEF IInv, RepInv, LoopEntry
  <2>5. local \in Nat /\ lastLocal \in Nat /\ dollar \in Nat /\ lastDollar \in Nat
    BY DEF IInv, ScopeInv
  <2>6. pass \in Nat /\ done \in BOOLEAN
    BY DEF IInv, CtlInv
  <2>. QED
    BY <2>1, <2>2, <2>3, <2>4, <2>5, <2>6 DEF TypeOK
<1>. QED
  BY <1>1, Inductive, PTL

(* A line is assembled only where every condition and every loop around it *)
(* is open, however they were nested, repeated or left by MEXIT: v_if and  *)
(* the others look at the innermost entry alone.                           *)
THEOREM NoHiddenClosedBranch == Spec => []ActiveMeansAllOpen
<1>1. IInv => ActiveMeansAllOpen
  <2> SUFFICES ASSUME IInv, Active, NEW i \in DOMAIN ifs
               PROVE  ifs[i].xtrue /\ ifs[i].acctrue
    BY DEF ActiveMeansAllOpen
  <2>1. ifs \in Seq(Entry) /\ ifs # <<>> /\ OuterOpen(ifs)
    BY DEF IInv, IfInv, IfsOK, Based
  <2>2. Len(ifs) \in Nat /\ Len(ifs) # 0 /\ i \in 1..Len(ifs)
    BY <2>1, LenProperties, EmptySeq
  <2>3. CASE i = 1
    BY <2>3 DEF Active
  <2>4. CASE i # 1
    <3>1. 1 \in 1..Len(ifs) /\ 1 < i
      BY <2>2, <2>4
    <3>. QED
      BY <2>1, <2>2, <3>1 DEF OuterOpen, Open, Active
  <2>. QED
    BY <2>3, <2>4
<1>. QED
  BY <1>1, Inductive, PTL

(* ENDIF, REPEND and the end of a file take from Ifstack only entries of   *)
(* the INCFILE being read (v_endif compares ifs->file with pIncfile).      *)
THEOREM CloseOwn == Spec => OnlyOwnersClose
<1> DEFINE Own == \A i \in 1..(Len(ifs) - Len(ifs')) : ifs[i].frame = Top.id
<1>1. IInv /\ IInv' /\ [Next]_vars => [Own]_vars
  <2> SUFFICES ASSUME IInv, IInv', Next PROVE Own
    BY DEF vars
  <2>1. ifs \in Seq(Entry) /\ Len(ifs) \in Nat /\ Len(ifs) # 0
    BY LenProperties, EmptySeq DEF IInv, IfInv, IfsOK, Based
  <2>2. CASE UNCHANGED ifs
    BY <2>1, <2>2
  <2>3. CASE IfPushed
    <3>1. PICK e \in Entry : ifs' = <<e>> \o ifs
      <4>1. PICK x \in BOOLEAN, acc \in BOOLEAN : inc # <<>> /\ PushIf(x, acc)
        BY <2>3 DEF IfPushed
      <4> DEFINE e == [frame |-> Top.id, xtrue |-> x, acctrue |-> acc]
      <4>2. e \in Entry
        BY <4>1, LineFacts DEF IInv, Entry, Frame
      <4>3. ifs' = <<e>> \o ifs
        BY <4>1 DEF PushIf
      <4>. QED
        BY <4>2, <4>3
    <3>2. Len(ifs') = Len(ifs) + 1
      BY <2>1, <3>1, PushFacts
    <3>. QED
      BY <2>1, <3>2
  <2>4. CASE IfFlipped
    <3>1. Len(ifs') = Len(ifs)
      BY <2>1, <2>4 DEF IfFlipped
    <3>. QED
      BY <2>1, <3>1
  <2>5. CASE IfClosed
    <3>1. Len(ifs') = Len(ifs) - 1 /\ ifs[1].frame = Top.id
      BY <2>1, <2>5, HeadTailProperties, EmptySeq DEF IfClosed, MayClose
    <3>. QED
      BY <2>1, <3>1
  <2>6. CASE IfDropped
    <3>1. PICK k \in 1..(Len(ifs) + 1) :
            /\ \A i \in 1..(k - 1) : ifs[i].frame = Top.id
            /\ ifs' = SubSeq(ifs, k, Len(ifs))
      BY <2>1, <2>6, OuterStops DEF IfDropped
    <3>2. Len(ifs') = Len(ifs) + 1 - k
      BY <2>1, <3>1, DropFacts
    <3>. QED
      BY <2>1, <3>1, <3>2
  <2>. QED
    BY <2>2, <2>3, <2>4, <2>5, <2>6, IfEffect DEF IInv
<1>2. [][Own]_vars <=> OnlyOwnersClose
  BY DEF OnlyOwnersClose
<1> HIDE DEF Own
<1>. QED
  BY <1>1, <1>2, Inductive, PTL DEF Spec

(* In a pass a scope of .name or name$ labels is entered only when it is   *)
(* opened (then no scope had its number) or by the return from the macro   *)
(* call that had saved it.                                                 *)
THEOREM FreshScopes == Spec => ScopesAreFresh
<1>1. IInv /\ [Next]_vars => [pass' = pass => LocalFresh /\ DollarFresh]_vars
  <2> SUFFICES ASSUME IInv, Next, pass' = pass PROVE LocalFresh /\ DollarFresh
    BY DEF vars, ctlvars
  <2> USE DEF LocalFresh, DollarFresh
  <2>1. local \in Nat /\ lastLocal \in Nat /\ dollar \in Nat /\ lastDollar \in Nat
    BY DEF IInv, ScopeInv
  <2>2. inc # <<>> => Len(inc) \in Nat \ {0} /\ DOMAIN inc = 1..Len(inc)
    BY LenProperties, EmptySeq DEF IInv, IncInv, IncOK
  <2>3. Programlabel => DollarFresh
    BY <2>1 DEF Programlabel
  <2>4. CASE Plain \/ Skip \/ Include \/ CallTooDeep \/ StrayMexit \/ If \/ IfConst
             \/ Else \/ Endif \/ Repeat
    <3>1. UNCHANGED local /\ (Programlabel \/ UNCHANGED dollar)
      BY <2>4 DEF Plain, Skip, Include, CallTooDeep, StrayMexit, If, IfConst, Else,
                  Endif, Repeat, CloseIf, ProgramlabelIf, scopevars
    <3>. QED
      BY <2>3, <3>1
  <2>5. CASE Repend
    <3>1. UNCHANGED local /\ (Programlabel \/ UNCHANGED dollar)
      BY <2>5 DEF Repend, Loop, Leave, Stray, CloseIf, ProgramlabelIf
    <3>. QED
      BY <2>3, <3>1
  <2>6. CASE Subroutine
    BY <2>1, <2>3, <2>6 DEF Subroutine, FreshScope
  <2>7. CASE Call
    <3>1. LastAtCall \in Nat /\ lastDollar <= LastAtCall
      BY <2>1 DEF LastAtCall
    <3>. QED
      BY <2>1, <2>7, <3>1 DEF Call, FreshScope
  <2>8. CASE ReturnFromMacro
    <3>1. 1 \in MacroFrames
      BY <2>2, <2>8 DEF ReturnFromMacro, MacroFrames, Top
    <3>. QED
      BY <2>8, <3>1 DEF ReturnFromMacro, Top
  <2>9. CASE End
    <3>1. inc # <<>>
      BY <2>9 DEF End, Runs, Reads
    <3>2. /\ MacrosAbove \in 0..(Len(inc) - 1)
          /\ \A i \in 1..MacrosAbove : inc[i].macro
      BY <3>1, MacrosAboveFacts DEF IInv
    <3>3. MacrosAbove # 0 => MacrosAbove \in MacroFrames
      BY <2>2, <3>1, <3>2 DEF MacroFrames
    <3>. QED
      BY <2>9, <3>3 DEF End
  <2>10. CASE CloseFile \/ Finish
    BY <2>10 DEF CloseFile, Finish, scopevars
  <2>11. ~NextPass
    BY DEF NextPass, IInv, CtlInv
  <2>. QED
    BY <2>4, <2>5, <2>6, <2>7, <2>8, <2>9, <2>10, <2>11 DEF Next, MacroText, Mexit
<1>. QED
  BY <1>1, Inductive, PTL DEF Spec, ScopesAreFresh

(* The scopes of the macro calls that are open are all different, and the  *)
(* current scope is none of them: no label of a macro body is a label of   *)
(* one of its callers.                                                     *)
ScopesDiffer ==
  \A i, j \in MacroFrames :
    /\ local # inc[i].saveidx /\ dollar # inc[i].savedolidx
    /\ i # j => inc[i].saveidx # inc[j].saveidx /\ inc[i].savedolidx # inc[j].savedolidx
(* ScopesDiffer holds in every state (v_execmac, v_endm, v_end).           *)
THEOREM CallersScopesDiffer == Spec => []ScopesDiffer
<1>1. IInv => ScopesDiffer
  <2> SUFFICES ASSUME IInv, NEW i \in MacroFrames, NEW j \in MacroFrames
               PROVE  /\ local # inc[i].saveidx /\ dollar # inc[i].savedolidx
                      /\ i # j => /\ inc[i].saveidx # inc[j].saveidx
                                  /\ inc[i].savedolidx # inc[j].savedolidx
    BY DEF ScopesDiffer
  <2>1. inc \in Seq(Frame) /\ SavedBelow(inc, local, dollar) /\ SavedOrder(inc)
    BY DEF IInv, IncInv, IncOK, ScopeInv
  <2>2. /\ i \in 1..Len(inc) /\ inc[i].macro /\ inc[i] \in Frame
        /\ j \in 1..Len(inc) /\ inc[j].macro /\ inc[j] \in Frame
    BY <2>1, LenProperties, ElementOfSeq DEF MacroFrames
  <2>3. /\ inc[i].saveidx \in Nat /\ inc[j].saveidx \in Nat
        /\ inc[i].savedolidx \in Nat /\ inc[j].savedolidx \in Nat
    BY <2>2 DEF Frame
  <2>4. inc[i].saveidx < local /\ inc[i].savedolidx < dollar
    BY <2>1, <2>2 DEF SavedBelow
  <2>5. local \in Nat /\ dollar \in Nat /\ i \in Nat /\ j \in Nat
    BY <2>2 DEF IInv, ScopeInv
  <2>6. i < j => inc[j].saveidx < inc[i].saveidx /\ inc[j].savedolidx < inc[i].savedolidx
    BY <2>1, <2>2 DEF SavedOrder
  <2>7. j < i => inc[i].saveidx < inc[j].saveidx /\ inc[i].savedolidx < inc[j].savedolidx
    BY <2>1, <2>2 DEF SavedOrder
  <2>. QED
    BY <2>3, <2>4, <2>5, <2>6, <2>7
<1>. QED
  BY <1>1, Inductive, PTL

(* Mlevel is the number of macro calls being read, so it is zero whenever  *)
(* a pass ends: the limit of v_execmac never wears out from pass to pass.  *)
LevelCountsCalls ==
  mlevel = Cardinality(Depths(inc)) /\ (inc = <<>> => mlevel = 0)
(* LevelCountsCalls holds in every state (v_execmac, v_endm, v_end).       *)
THEOREM LevelIsExact == Spec => []LevelCountsCalls
<1>1. IInv => LevelCountsCalls
  <2>1. Depths(<<>>) = {}
    BY DEF Depths
  <2>. QED
    BY <2>1, FS_EmptySet DEF IInv, IncInv, LevelOK, LevelCountsCalls
<1>. QED
  BY <1>1, Inductive, PTL

-----------------------------------------------------------------------------
(* What is left open.  IInv says nothing of the order of entries: that     *)
(* those of a file are on top when it ends takes OrphanInv.                *)

(* Entries belong to some of the frames A, those of younger frames on top. *)
Attached(s, A) ==
  /\ \A i \in 1..Len(s) : s[i].frame \in A
  /\ \A i, j \in 1..Len(s) : i < j => s[i].frame >= s[j].frame
Younger(s, b) ==
  /\ \A i \in 1..Len(s) : s[i].id <= b
  /\ \A i, j \in 1..Len(s) : i < j => s[i].id > s[j].id
Ids(s) == {s[i].id : i \in 1..Len(s)}
OrphanInv ==
  /\ Younger(inc, born)
  /\ Attached(ifs, Ids(inc) \cup {0})
  /\ Attached(reps, Ids(inc))

LEMMA PushAttached ==
  ASSUME NEW S, NEW s \in Seq(S), NEW e \in S, NEW A \in SUBSET Nat, Attached(s, A),
         e.frame \in A, \A x \in A : x <= e.frame
  PROVE  Attached(<<e>> \o s, A)
<1> DEFINE t == <<e>> \o s
<1>1. Len(s) \in Nat
  BY LenProperties
<1>2. /\ Len(t) = Len(s) + 1 /\ t[1] = e
      /\ \A i \in 2..(Len(s) + 1) : t[i] = s[i - 1]
  BY PushFacts
<1> HIDE DEF t
<1>3. \A i \in 1..Len(t) : i = 1 \/ (i - 1 \in 1..Len(s) /\ t[i] = s[i - 1])
  BY <1>1, <1>2
<1>4. \A i \in 1..Len(t) : t[i].frame \in A
  BY <1>2, <1>3 DEF Attached
<1>5. ASSUME NEW i \in 1..Len(t), NEW j \in 1..Len(t), i < j
      PROVE  t[i].frame >= t[j].frame
  <2>1. j - 1 \in 1..Len(s) /\ t[j] = s[j - 1]
    BY <1>1, <1>2, <1>3, <1>5
  <2>2. CASE i = 1
    <3>1. t[i].frame = e.frame /\ t[j].frame \in A /\ t[j].frame \in Nat /\ e.frame \in Nat
      BY <1>2, <1>4, <2>2
    <3>2. t[j].frame <= e.frame
      BY <3>1
    <3>. QED
      BY <3>1, <3>2
  <2>3. CASE i # 1
    <3>1. i - 1 \in 1..Len(s) /\ t[i] = s[i - 1] /\ i - 1 < j - 1
      BY <1>1, <1>2, <1>3, <1>5, <2>3
    <3>. QED
      BY <2>1, <3>1 DEF Attached
  <2>. QED
    BY <2>2, <2>3
<1>. QED
  BY <1>4, <1>5 DEF Attached, t

LEMMA DropAttached ==
  ASSUME NEW S, NEW s \in Seq(S), NEW A, Attached(s, A), NEW k \in 1..(Len(s) + 1)
  PROVE  Attached(SubSeq(s, k, Len(s)), A)
<1> DEFINE t == SubSeq(s, k, Len(s))
<1>1. Len(s) \in Nat
  BY LenProperties
<1>2. /\ Len(t) = Len(s) + 1 - k
      /\ \A i \in 1..(Len(s) + 1 - k) : t[i] = s[i + k - 1]
  BY DropFacts
<1> HIDE DEF t
<1>3. \A i \in 1..Len(t) : i + k - 1 \in 1..Len(s) /\ t[i] = s[i + k - 1]
  BY <1>1, <1>2
<1>4. \A i, j \in 1..Len(t) : i < j => i + k - 1 < j + k - 1
  BY <1>1, <1>2
<1>. QED
  BY <1>3, <1>4 DEF Attached, t

LEMMA SameAttached ==
  ASSUME NEW s, NEW t, NEW A, Attached(s, A), Len(t) = Len(s), \A i \in 1..Len(s) : t[i].frame = s[i].frame
  PROVE  Attached(t, A)
BY DEF Attached

(* The end of a file takes all it had.                                     *)
LEMMA OuterAttached ==
  ASSUME NEW S, NEW s \in Seq(S), NEW A \in SUBSET Nat, Attached(s, A), NEW id \in A,
         \A x \in A : x <= id
  PROVE  Attached(Outer(s, id), A \ {id})
<1>1. PICK k \in 1..(Len(s) + 1) :
           /\ k <= Len(s) => s[k].frame # id
           /\ Outer(s, id) = SubSeq(s, k, Len(s))
  BY OuterStops
<1> DEFINE t == SubSeq(s, k, Len(s))
<1>2. Len(s) \in Nat
  BY LenProperties
<1>3. /\ Len(t) = Len(s) + 1 - k
      /\ \A i \in 1..(Len(s) + 1 - k) : t[i] = s[i + k - 1]
  BY DropFacts
<1>4. Attached(t, A)
  BY DropAttached
<1> HIDE DEF t
<1>5. ASSUME NEW i \in 1..Len(t) PROVE t[i].frame # id
  <2>1. k \in 1..Len(s) /\ i + k - 1 \in 1..Len(s) /\ (k = i + k - 1 \/ k < i + k - 1) /\ t[i] = s[i + k - 1]
    BY <1>2, <1>3
  <2>2. s[k].frame \in A /\ s[k].frame # id
    BY <1>1, <1>2, <2>1 DEF Attached
  <2> DEFINE x == s[k].frame
             y == s[i + k - 1].frame
  <2>3. x \in Nat /\ id \in Nat /\ x <= id /\ x # id
    BY <2>2
  <2>4. y \in Nat /\ y <= x
    <3>1. y \in A
      BY <2>1 DEF Attached
    <3>2. y = x \/ x >= y
      BY <2>1 DEF Attached
    <3> HIDE DEF x, y
    <3>. QED
      BY <2>3, <3>1, <3>2
  <2>5. t[i].frame = y
    BY <2>1
  <2> HIDE DEF x, y
  <2>. QED
    BY <2>3, <2>4, <2>5
<1>. QED
  BY <1>1, <1>4, <1>5 DEF Attached, t

LEMMA WiderAttached ==
  ASSUME NEW s, NEW A, NEW B, Attached(s, A), A \subseteq B
  PROVE  Attached(s, B)
BY DEF Attached

-----------------------------------------------------------------------------
(* Frames.                                                                 *)
LEMMA IdsType ==
  ASSUME NEW s \in Seq(Frame), NEW i \in 1..Len(s)
  PROVE  s[i].id \in Nat \ {0} /\ s[i].id \in Nat
<1>1. s[i] \in Frame
  BY ElementOfSeq
<1>. QED
  BY <1>1 DEF Frame

LEMMA IdsFacts ==
  ASSUME IncInv, OrphanInv
  PROVE  /\ Alive = Ids(inc) /\ Ids(inc) \in SUBSET (Nat \ {0})
         /\ inc # <<>> => Top.id \in Ids(inc) /\ \A x \in Ids(inc) : x <= Top.id
         /\ \A x \in Ids(inc) : x <= born
<1>1. inc \in Seq(Frame) /\ Len(inc) \in Nat /\ DOMAIN inc = 1..Len(inc)
  BY LenProperties DEF IncInv, IncOK
<1>2. \A i \in 1..Len(inc) : inc[i].id \in Nat \ {0}
  BY <1>1, IdsType
<1>3. ASSUME inc # <<>> PROVE Top.id \in Ids(inc) /\ \A x \in Ids(inc) : x <= Top.id
  <2>1. 1 \in 1..Len(inc)
    BY <1>1, <1>3, EmptySeq
  <2>2. \A i \in 1..Len(inc) : inc[i].id <= inc[1].id
    <3> SUFFICES ASSUME NEW i \in 1..Len(inc)
                 PROVE  inc[i].id <= inc[1].id
      OBVIOUS
    <3>1. CASE i = 1
      BY <1>2, <2>1, <3>1
    <3>2. CASE i # 1
      <4>1. 1 < i
        BY <1>1, <3>2
      <4>2. inc[1].id > inc[i].id
        BY <2>1, <4>1 DEF OrphanInv, Younger
      <4>. QED
        BY <1>2, <2>1, <4>2
    <3>. QED
      BY <3>1, <3>2
  <2>. QED
    BY <2>1, <2>2 DEF Ids, Top
<1>. QED
  BY <1>1, <1>2, <1>3 DEF Ids, Alive, OrphanInv, Younger

LEMMA TopIds ==
  ASSUME NEW s \in Seq(Frame), s # <<>>, NEW e \in Frame, e.id = s[1].id, NEW b, Younger(s, b)
  PROVE  LET t == [s EXCEPT ![1] = e] IN Younger(t, b) /\ Ids(t) = Ids(s)
<1> DEFINE t == [s EXCEPT ![1] = e]
<1>1. Len(s) \in Nat /\ 1 \in 1..Len(s)
  BY LenProperties, EmptySeq
<1>2. Len(t) = Len(s) /\ \A j \in 1..Len(s) : t[j] = IF j = 1 THEN e ELSE s[j]
  BY <1>1, ExceptSeq
<1> HIDE DEF t
<1>3. \A j \in 1..Len(s) : t[j].id = s[j].id
  BY <1>2
<1>. QED
  BY <1>2, <1>3 DEF Younger, Ids, t

LEMMA PushIds ==
  ASSUME NEW s \in Seq(Frame), NEW b \in Nat, NEW e \in Frame, e.id = b + 1, Younger(s, b)
  PROVE  LET t == <<e>> \o s IN Younger(t, b + 1) /\ Ids(s) \subseteq Ids(t)
<1> DEFINE t == <<e>> \o s
<1>1. Len(s) \in Nat /\ \A i \in 1..Len(s) : s[i].id \in Nat
  BY LenProperties, IdsType
<1>2. /\ Len(t) = Len(s) + 1 /\ t[1] = e
      /\ \A i \in 2..(Len(s) + 1) : t[i] = s[i - 1]
  BY PushFacts
<1> HIDE DEF t
<1>3. \A i \in 1..Len(t) : i = 1 \/ (i - 1 \in 1..Len(s) /\ t[i] = s[i - 1])
  BY <1>1, <1>2
<1>4. \A i \in 1..Len(s) : i + 1 \in 1..Len(t) /\ t[i + 1] = s[i]
  BY <1>1, <1>2
<1>5. \A i \in 1..Len(s) : s[i].id <= b
  BY DEF Younger
<1>6. ASSUME NEW i \in 1..Len(t) PROVE t[i].id <= b + 1
  <2>1. CASE i = 1
    BY <1>2, <2>1
  <2>2. CASE i # 1
    <3>1. i - 1 \in 1..Len(s) /\ t[i] = s[i - 1]
      BY <1>3, <2>2
    <3>2. s[i - 1].id \in Nat /\ s[i - 1].id <= b
      BY <1>1, <1>5, <3>1
    <3>. QED
      BY <3>1, <3>2
  <2>. QED
    BY <2>1, <2>2
<1>7. ASSUME NEW i \in 1..Len(t), NEW j \in 1..Len(t), i < j
      PROVE  t[i].id > t[j].id
  <2>1. j - 1 \in 1..Len(s) /\ t[j] = s[j - 1]
    BY <1>1, <1>2, <1>3, <1>7
  <2>2. CASE i = 1
    BY <1>1, <1>2, <1>5, <2>1, <2>2
  <2>3. CASE i # 1
    <3>1. i - 1 \in 1..Len(s) /\ t[i] = s[i - 1] /\ i - 1 < j - 1
      BY <1>1, <1>2, <1>3, <1>7, <2>3
    <3>. QED
      BY <2>1, <3>1 DEF Younger
  <2>. QED
    BY <2>2, <2>3
<1>8. Ids(s) \subseteq Ids(t)
  BY <1>4 DEF Ids
<1>. QED
  BY <1>6, <1>7, <1>8 DEF Younger, t

(* The frames that are left are those of the first n.                      *)
LEMMA DropIds ==
  ASSUME NEW s \in Seq(Frame), NEW b, Younger(s, b), NEW n \in 0..Len(s)
  PROVE  LET t == SubSeq(s, n + 1, Len(s))
         IN  /\ Younger(t, b)
             /\ \A x \in Ids(s) : x \in Ids(t) \/ \E i \in 1..n : x = s[i].id
             /\ \A i \in 1..n : s[i].id \notin Ids(t)
<1> DEFINE t == SubSeq(s, n + 1, Len(s))
<1>1. Len(s) \in Nat /\ n + 1 \in 1..(Len(s) + 1) /\ \A i \in 1..Len(s) : s[i].id \in Nat
  <2>1. Len(s) \in Nat
    BY LenProperties
  <2>. QED
    BY <2>1, IdsType
<1>2. /\ Len(t) = Len(s) + 1 - (n + 1)
      /\ \A i \in 1..(Len(s) + 1 - (n + 1)) : t[i] = s[i + (n + 1) - 1]
  BY <1>1, DropFacts
<1> HIDE DEF t
<1>3. \A i \in 1..Len(t) : i + n \in 1..Len(s) /\ t[i] = s[i + n] /\ i + n > n
  <2>1. \A i \in 1..Len(t) : i + n \in 1..Len(s) /\ i + n > n /\ i + (n + 1) - 1 = i + n
    BY <1>1, <1>2
  <2>. QED
    BY <1>2, <2>1
<1>4. \A i, j \in 1..Len(t) : i < j => i + n < j + n
  BY <1>1, <1>2
<1>5. Younger(t, b)
  BY <1>3, <1>4 DEF Younger
<1>6. ASSUME NEW x \in Ids(s) PROVE x \in Ids(t) \/ \E i \in 1..n : x = s[i].id
  <2>1. PICK k \in 1..Len(s) : x = s[k].id
    BY DEF Ids
  <2>2. CASE k <= n
    <3>1. k \in 1..n
      BY <1>1, <2>2
    <3>. QED
      BY <2>1, <3>1
  <2>3. CASE ~(k <= n)
    <3>1. k - n \in 1..Len(t) /\ (k - n) + n = k
      BY <1>1, <1>2, <2>3
    <3>2. t[k - n] = s[k]
      BY <1>3, <3>1
    <3>. QED
      BY <2>1, <3>1, <3>2 DEF Ids
  <2>. QED
    BY <2>2, <2>3
<1>7. ASSUME NEW i \in 1..n PROVE s[i].id \notin Ids(t)
  <2> SUFFICES ASSUME NEW j \in 1..Len(t), s[i].id = t[j].id PROVE FALSE
    BY DEF Ids
  <2>1. i \in 1..Len(s) /\ j + n \in 1..Len(s) /\ i < j + n /\ t[j] = s[j + n]
    BY <1>1, <1>3
  <2>2. s[i].id > s[j + n].id
    BY <2>1 DEF Younger
  <2>. QED
    BY <1>1, <2>1, <2>2
<1>. QED
  BY <1>5, <1>6, <1>7 DEF t

-----------------------------------------------------------------------------
(* What a step does to Reploop: nothing, or one of these.                  *)
RepPushed == inc # <<>> /\ \E f \in Nat \ {0}, n \in Nat :
  reps' = <<[frame |-> Top.id, from |-> f, count |-> n]>> \o reps
RepCounted == reps # <<>> /\ reps[1].count > 1 /\ reps' = [reps EXCEPT ![1].count = Remaining]
RepClosed == reps # <<>> /\ reps' = Tail(reps)
RepDropped == inc # <<>> /\ reps' = Outer(reps, Top.id)

LEMMA RepEffect ==
  ASSUME IncInv, Next
  PROVE  UNCHANGED reps \/ RepPushed \/ RepCounted \/ RepClosed \/ RepDropped
<1>1. CASE Repeat
  <2>1. inc # <<>> /\ ~AtEnd
    BY <1>1 DEF Repeat, Reads
  <2>2. Top.at + 1 \in Nat \ {0} /\ Line.count \in Int
    BY <2>1, LineFacts DEF Frame
  <2>3. CASE Active /\ Line.count > 0
    <3>1. Line.count \in Nat
      BY <2>2, <2>3
    <3>2. reps' = <<[frame |-> Top.id, from |-> Top.at + 1, count |-> Line.count]>> \o reps
      BY <1>1, <2>3 DEF Repeat
    <3>. QED
      BY <2>1, <2>2, <3>1, <3>2 DEF RepPushed
  <2>4. CASE ~(Active /\ Line.count > 0)
    BY <1>1, <2>4 DEF Repeat
  <2>. QED
    BY <2>3, <2>4
<1>2. CASE Repend
  BY <1>2 DEF Repend, Loop, Leave, Stray, InLoop, RepCounted, RepClosed
<1>3. CASE CloseFile
  BY <1>3 DEF CloseFile, RepDropped
<1>4. Plain \/ Skip \/ Subroutine \/ If \/ IfConst \/ Else \/ Endif \/ Include
      \/ Call \/ CallTooDeep \/ MacroText \/ Mexit \/ StrayMexit \/ End
      \/ NextPass \/ Finish => UNCHANGED reps
  BY DEF Plain, Skip, Subroutine, If, IfConst, Else, Endif, Include, Call,
         CallTooDeep, MacroText, Mexit, ReturnFromMacro, StrayMexit, End,
         NextPass, Finish
<1>. QED
  BY <1>1, <1>2, <1>3, <1>4 DEF Next

(* Whatever is pushed belongs to the top frame, the youngest.              *)
LEMMA RepsAttached ==
  ASSUME IInv, OrphanInv, Next
  PROVE  Attached(reps', Ids(inc)) /\ (CloseFile => Attached(reps', Ids(inc) \ {Top.id}))
<1> DEFINE A == Ids(inc)
<1>1. /\ A \in SUBSET Nat /\ Attached(reps, A) /\ reps \in Seq(LoopEntry)
      /\ inc # <<>> => Top.id \in A /\ \A x \in A : x <= Top.id
  BY IdsFacts DEF OrphanInv, IInv, RepInv
<1> HIDE DEF A
<1>2. ASSUME UNCHANGED reps PROVE Attached(reps', A)
  BY <1>1, <1>2
<1>3. ASSUME RepPushed PROVE Attached(reps', A)
  <2>1. PICK f \in Nat \ {0}, n \in Nat :
          inc # <<>> /\ reps' = <<[frame |-> Top.id, from |-> f, count |-> n]>> \o reps
    BY <1>3 DEF RepPushed
  <2> DEFINE e == [frame |-> Top.id, from |-> f, count |-> n]
  <2>2. e \in LoopEntry /\ e.frame = Top.id
    BY <1>1, <2>1 DEF LoopEntry
  <2>3. reps' = <<e>> \o reps
    BY <2>1
  <2> HIDE DEF e
  <2>4. e.frame \in A /\ \A x \in A : x <= e.frame
    BY <1>1, <2>1, <2>2
  <2>. QED
    BY <1>1, <2>2, <2>3, <2>4, PushAttached
<1>4. ASSUME RepCounted PROVE Attached(reps', A)
  <2>1. Len(reps) \in Nat /\ 1 \in 1..Len(reps)
    BY <1>1, <1>4, LenProperties, EmptySeq DEF RepCounted
  <2>2. reps[1] \in LoopEntry
    BY <1>1, <2>1, ElementOfSeq
  <2> DEFINE e == [reps[1] EXCEPT !.count = Remaining]
  <2>3. e \in LoopEntry /\ e.frame = reps[1].frame
    <3>1. reps[1].count \in Nat /\ Remaining \in Nat
      BY <1>4, <2>2 DEF LoopEntry, Remaining, RepCounted
    <3>. QED
      BY <2>2, <3>1 DEF LoopEntry
  <2>4. reps' = [reps EXCEPT ![1] = e]
    BY <1>4 DEF RepCounted
  <2> HIDE DEF e
  <2>5. Len(reps') = Len(reps) /\ \A i \in 1..Len(reps) : reps'[i] = IF i = 1 THEN e ELSE reps[i]
    BY <1>1, <2>1, <2>3, <2>4, ExceptSeq
  <2>6. \A i \in 1..Len(reps) : reps'[i].frame = reps[i].frame
    BY <2>3, <2>5
  <2>. QED
    BY <1>1, <2>5, <2>6, SameAttached
<1>5. ASSUME RepClosed PROVE Attached(reps', A)
  <2>1. reps' = SubSeq(reps, 2, Len(reps))
    BY <1>1, <1>5, TailIsSubSeq DEF RepClosed
  <2>2. 2 \in 1..(Len(reps) + 1)
    BY <1>1, <1>5, LenProperties, EmptySeq DEF RepClosed
  <2>. QED
    BY <1>1, <2>1, <2>2, DropAttached
<1>6. ASSUME RepDropped PROVE Attached(reps', A)
  <2>1. Attached(reps', A \ {Top.id})
    BY <1>1, <1>6, OuterAttached DEF RepDropped
  <2>. QED
    BY <2>1, WiderAttached
<1>7. CloseFile => Attached(reps', A \ {Top.id})
  BY <1>1, OuterAttached DEF CloseFile
<1>. QED
  BY <1>2, <1>3, <1>4, <1>5, <1>6, <1>7, RepEffect DEF IInv, A

LEMMA IfsAttached ==
  ASSUME IInv, OrphanInv, Next
  PROVE  /\ Attached(ifs', Ids(inc) \cup {0})
         /\ CloseFile => Attached(ifs', (Ids(inc) \cup {0}) \ {Top.id})
<1> DEFINE A == Ids(inc) \cup {0}
<1>1. /\ A \in SUBSET Nat /\ Attached(ifs, A) /\ ifs \in Seq(Entry) /\ ifs # <<>>
      /\ inc # <<>> => Top.id \in A /\ \A x \in A : x <= Top.id
  BY IdsFacts DEF OrphanInv, IInv, IfInv, IfsOK, Based
<1> HIDE DEF A
<1>2. Len(ifs) \in Nat /\ 1 \in 1..Len(ifs)
  BY <1>1, LenProperties, EmptySeq
<1>3. ASSUME UNCHANGED ifs PROVE Attached(ifs', A)
  BY <1>1, <1>3
<1>4. ASSUME IfPushed PROVE Attached(ifs', A)
  <2>1. PICK x \in BOOLEAN, acc \in BOOLEAN : inc # <<>> /\ PushIf(x, acc)
    BY <1>4 DEF IfPushed
  <2> DEFINE e == [frame |-> Top.id, xtrue |-> x, acctrue |-> acc]
  <2>2. e \in Entry /\ e.frame = Top.id
    BY <1>1, <2>1 DEF Entry
  <2>3. ifs' = <<e>> \o ifs
    BY <2>1 DEF PushIf
  <2> HIDE DEF e
  <2>4. e.frame \in A /\ \A y \in A : y <= e.frame
    BY <1>1, <2>1, <2>2
  <2>. QED
    BY <1>1, <2>2, <2>3, <2>4, PushAttached
<1>5. ASSUME IfFlipped PROVE Attached(ifs', A)
  <2>1. ifs[1] \in Entry
    BY <1>1, <1>2, ElementOfSeq
  <2> DEFINE e == [ifs[1] EXCEPT !.xtrue = ~@]
  <2>2. e \in Entry /\ e.frame = ifs[1].frame
    BY <2>1 DEF Entry
  <2>3. ifs' = [ifs EXCEPT ![1] = e]
    BY <1>5 DEF IfFlipped
  <2> HIDE DEF e
  <2>4. Len(ifs') = Len(ifs) /\ \A i \in 1..Len(ifs) : ifs'[i] = IF i = 1 THEN e ELSE ifs[i]
    BY <1>1, <1>2, <2>2, <2>3, ExceptSeq
  <2>5. \A i \in 1..Len(ifs) : ifs'[i].frame = ifs[i].frame
    BY <2>2, <2>4
  <2>. QED
    BY <1>1, <2>4, <2>5, SameAttached
<1>6. ASSUME IfClosed PROVE Attached(ifs', A)
  <2>1. ifs' = SubSeq(ifs, 2, Len(ifs))
    BY <1>1, <1>6, TailIsSubSeq DEF IfClosed
  <2>2. 2 \in 1..(Len(ifs) + 1)
    BY <1>2
  <2>. QED
    BY <1>1, <2>1, <2>2, DropAttached
<1>7. ASSUME IfDropped PROVE Attached(ifs', A)
  <2>1. Attached(ifs', A \ {Top.id})
    BY <1>1, <1>7, OuterAttached DEF IfDropped
  <2>. QED
    BY <2>1, WiderAttached
<1>8. CloseFile => Attached(ifs', A \ {Top.id})
  BY <1>1, OuterAttached DEF CloseFile
<1>. QED
  BY <1>3, <1>4, <1>5, <1>6, <1>7, <1>8, IfEffect DEF IInv, A

(* A step does not renumber frames, and those it leaves belong to the file *)
(* that ends or to macros.                                                 *)
SameFrames == Younger(inc', born') /\ Ids(inc) \subseteq Ids(inc')
LeftMacros ==
  /\ Younger(inc', born') /\ UNCHANGED <<ifs, reps>>
  /\ \A x \in Ids(inc) : x \in Ids(inc') \/ \E i \in 1..Len(inc) :
       x = inc[i].id /\ inc[i].macro /\ inc[i].id \notin Ids(inc')
LeftFile ==
  /\ Younger(inc', born') /\ Ids(inc) \ {Top.id} \subseteq Ids(inc')

LEMMA LineIds ==
  ASSUME NEW s \in Seq(Frame), s # <<>>, NEW x \in Nat \ {0}, NEW b, Younger(s, b)
  PROVE  LET t == [s EXCEPT ![1].at = x]
         IN  t \in Seq(Frame) /\ Younger(t, b) /\ Ids(t) = Ids(s)
<1> DEFINE e == [s[1] EXCEPT !.at = x]
<1>1. 1 \in 1..Len(s) /\ Len(s) \in Nat
  BY LenProperties, EmptySeq
<1>2. s[1] \in Frame
  BY <1>1, ElementOfSeq
<1>3. e \in Frame /\ e.id = s[1].id
  BY <1>2 DEF Frame
<1>4. [s EXCEPT ![1].at = x] = [s EXCEPT ![1] = e]
  OBVIOUS
<1> HIDE DEF e
<1>5. [s EXCEPT ![1] = e] \in Seq(Frame)
  BY <1>1, <1>3, ExceptSeq
<1>. QED
  BY <1>3, <1>4, <1>5, TopIds

LEMMA StepIds ==
  ASSUME IncInv, OrphanInv, inc # <<>>
  PROVE  Step \in Seq(Frame) /\ Younger(Step, born) /\ Ids(Step) = Ids(inc)
<1>1. inc \in Seq(Frame) /\ Younger(inc, born)
  BY DEF IncInv, IncOK, OrphanInv
<1>2. Top.at + 1 \in Nat \ {0}
  BY LineFacts DEF Frame
<1> DEFINE x == Top.at + 1
<1>3. Step = [inc EXCEPT ![1].at = x]
  BY DEF Step, Top
<1> HIDE DEF x
<1>4. x \in Nat \ {0}
  BY <1>2 DEF x
<1>. QED
  BY <1>1, <1>3, <1>4, LineIds

LEMMA FramesEffect ==
  ASSUME IInv, OrphanInv, Next
  PROVE  SameFrames \/ LeftMacros \/ (CloseFile /\ LeftFile)
<1>0. /\ IncInv /\ inc \in Seq(Frame) /\ Younger(inc, born) /\ born \in Nat
  BY DEF IInv, IncInv, IncOK, OrphanInv
<1>1. ASSUME Moves PROVE SameFrames
  BY <1>0, <1>1, StepIds DEF Moves, SameFrames
<1>2. ASSUME Repend PROVE SameFrames
  <2>1. inc # <<>> /\ UNCHANGED <<text, mlevel, born>>
    BY <1>2 DEF Repend, Reads, ctlvars
  <2>2. CASE Loop
    <3>1. reps # <<>> /\ reps \in Seq(LoopEntry)
      BY <2>2 DEF Loop, InLoop, IInv, RepInv
    <3>2. reps[1] \in LoopEntry
      BY <3>1, LenProperties, EmptySeq, ElementOfSeq
    <3> DEFINE x == reps[1].from
    <3>3. x \in Nat \ {0} /\ inc' = [inc EXCEPT ![1].at = x]
      BY <2>2, <3>2 DEF Loop, LoopEntry
    <3> HIDE DEF x
    <3>. QED
      BY <1>0, <2>1, <3>3, LineIds DEF SameFrames
  <2>3. CASE inc' = Step
    BY <1>0, <2>1, <2>3, StepIds DEF SameFrames
  <2>. QED
    BY <1>2, <2>2, <2>3 DEF Repend, Leave, Stray
<1>3. ASSUME Include PROVE SameFrames
  <2>1. inc # <<>>
    BY <1>3 DEF Include, Runs, Reads
  <2>2. CASE Line.target \in Files
    <3> DEFINE e == File(Line.target, born + 1)
    <3>1. e \in Frame /\ e.id = born + 1
      BY <1>0, <2>2 DEF File, Frame, Sources
    <3>2. inc' = <<e>> \o Step /\ born' = born + 1
      BY <1>3, <2>2 DEF Include
    <3> HIDE DEF e
    <3>. QED
      BY <1>0, <2>1, <3>1, <3>2, StepIds, PushIds DEF SameFrames
  <2>3. CASE Line.target \notin Files
    BY <1>0, <1>3, <2>1, <2>3, StepIds DEF Include, SameFrames
  <2>. QED
    BY <2>2, <2>3
<1>4. ASSUME Call PROVE SameFrames
  <2>1. inc # <<>> /\ ~AtEnd /\ Line.op = "call"
    BY <1>4 DEF Call, Runs, Reads
  <2> DEFINE e == [id |-> born + 1, src |-> Line.target, at |-> 1, macro |-> TRUE,
                   saveidx |-> LocalAtCall, savedolidx |-> DollarAtCall]
  <2>2. Line.target \in Macros
    BY <1>0, <2>1, LineFacts
  <2>3. LocalAtCall \in Nat /\ DollarAtCall \in Nat
    BY DEF IInv, ScopeInv, LocalAtCall, DollarAtCall
  <2>4. e \in Frame /\ e.id = born + 1
    BY <1>0, <2>2, <2>3 DEF Frame, Sources
  <2>5. inc' = <<e>> \o Step /\ born' = born + 1
    BY <1>4 DEF Call
  <2> HIDE DEF e
  <2>. QED
    BY <1>0, <2>1, <2>4, <2>5, StepIds, PushIds DEF SameFrames
<1>5. ASSUME NextPass PROVE SameFrames
  <2> DEFINE e == File(Main, born + 1)
  <2>1. e \in Frame /\ e.id = born + 1
    BY <1>0 DEF File, Frame, Sources
  <2>2. inc = <<>> /\ inc' = <<e>> /\ born' = born + 1
    BY <1>5 DEF NextPass
  <2> HIDE DEF e
  <2>3. inc' = <<e>> \o inc
    BY <2>1, <2>2, ConcatEmptySeq
  <2>. QED
    BY <1>0, <2>1, <2>2, <2>3, PushIds DEF SameFrames
<1>6. ASSUME ReturnFromMacro PROVE LeftMacros
  <2>1. inc # <<>> /\ Top.macro /\ inc' = Tail(inc) /\ UNCHANGED <<ifs, reps, born>>
    BY <1>6 DEF ReturnFromMacro
  <2> DEFINE n == 1
  <2>2. n \in 0..Len(inc) /\ inc' = SubSeq(inc, n + 1, Len(inc)) /\ \A i \in 1..n : i = 1 /\ i \in 1..Len(inc)
    BY <1>0, <2>1, LenProperties, EmptySeq, TailIsSubSeq
  <2> HIDE DEF n
  <2>3. /\ Younger(inc', born)
        /\ \A x \in Ids(inc) : x \in Ids(inc') \/ \E i \in 1..n : x = inc[i].id
        /\ \A i \in 1..n : inc[i].id \notin Ids(inc')
    BY <1>0, <2>2, DropIds
  <2>4. \A i \in 1..n : inc[i].macro /\ i \in 1..Len(inc)
    BY <2>1, <2>2 DEF Top
  <2>. QED
    BY <2>1, <2>3, <2>4 DEF LeftMacros
<1>7. ASSUME End PROVE LeftMacros
  <2> DEFINE n == MacrosAbove
             t == SubSeq(inc, n + 1, Len(inc))
             x == Len(text[t[1].src]) + 1
  <2>1. inc # <<>> /\ UNCHANGED <<ifs, reps, born>> /\ inc' = [t EXCEPT ![1].at = x]
    BY <1>7 DEF End, Runs, Reads
  <2>2. n \in 0..(Len(inc) - 1) /\ \A i \in 1..n : inc[i].macro
    BY <1>0, <2>1, MacrosAboveFacts
  <2> HIDE DEF n
  <2>3. n \in 0..Len(inc) /\ n + 1 \in 1..(Len(inc) + 1) /\ Len(inc) + 1 - (n + 1) \in Nat \ {0}
        /\ \A i \in 1..n : i \in 1..Len(inc)
    BY <1>0, <2>2, LenProperties
  <2>4. t \in Seq(Frame) /\ t # <<>>
    BY <1>0, <2>3, DropFacts, EmptySeq
  <2>5. /\ Younger(t, born)
        /\ \A y \in Ids(inc) : y \in Ids(t) \/ \E i \in 1..n : y = inc[i].id
        /\ \A i \in 1..n : inc[i].id \notin Ids(t)
    BY <1>0, <2>3, DropIds
  <2> HIDE DEF t
  <2>6. x \in Nat \ {0}
    <3>1. t[1] \in Frame
      BY <2>4, LenProperties, EmptySeq, ElementOfSeq
    <3>2. t[1].src \in Sources
      BY <3>1 DEF Frame
    <3>3. text \in [Sources -> Seq(SourceLine)]
      BY <1>0, TextAssumption DEF IncInv
    <3>4. text[t[1].src] \in Seq(SourceLine)
      BY <3>2, <3>3
    <3>. QED
      BY <3>4, LenProperties
  <2> HIDE DEF x
  <2>7. Younger(inc', born) /\ Ids(inc') = Ids(t)
    BY <2>1, <2>4, <2>5, <2>6, LineIds
  <2>. QED
    BY <2>1, <2>2, <2>3, <2>5, <2>7 DEF LeftMacros
<1>8. ASSUME CloseFile PROVE LeftFile
  <2>1. inc # <<>> /\ inc' = Tail(inc) /\ UNCHANGED born
    BY <1>8 DEF CloseFile
  <2> DEFINE n == 1
  <2>2. n \in 0..Len(inc) /\ inc' = SubSeq(inc, n + 1, Len(inc)) /\ \A i \in 1..n : i = 1
    BY <1>0, <2>1, LenProperties, EmptySeq, TailIsSubSeq
  <2> HIDE DEF n
  <2>3. /\ Younger(inc', born)
        /\ \A x \in Ids(inc) : x \in Ids(inc') \/ \E i \in 1..n : x = inc[i].id
    BY <1>0, <2>2, DropIds
  <2>. QED
    BY <2>1, <2>2, <2>3 DEF LeftFile, Top
<1>9. ASSUME Finish PROVE SameFrames
  BY <1>0, <1>9 DEF Finish, SameFrames
<1>. QED
  BY <1>1, <1>2, <1>3, <1>4, <1>5, <1>6, <1>7, <1>8, <1>9, WhichMove DEF Next, MacroText, Mexit

LEMMA OrphanStep ==
  ASSUME IInv, IInv', OrphanInv, Next, MacrosCloseOwn
  PROVE  OrphanInv'
<1>1. /\ Attached(ifs', Ids(inc) \cup {0}) /\ Attached(reps', Ids(inc))
      /\ CloseFile => /\ Attached(ifs', (Ids(inc) \cup {0}) \ {Top.id})
                      /\ Attached(reps', Ids(inc) \ {Top.id})
  BY IfsAttached, RepsAttached
<1>2. CASE SameFrames
  BY <1>1, <1>2, WiderAttached DEF SameFrames, OrphanInv
<1>3. CASE CloseFile /\ LeftFile
  BY <1>1, <1>3, WiderAttached DEF LeftFile, OrphanInv
<1>4. CASE LeftMacros
  <2>1. inc \in Seq(Frame) /\ inc' \in Seq(Frame) /\ ifs \in Seq(Entry) /\ ifs # <<>> /\ ifs[Len(ifs)] = Base
        /\ reps \in Seq(LoopEntry)
    BY DEF IInv, IncInv, IncOK, IfInv, IfsOK, Based, RepInv
  <2>2. /\ DOMAIN inc = 1..Len(inc) /\ DOMAIN inc' = 1..Len(inc') /\ Len(ifs) \in Nat
        /\ DOMAIN reps = 1..Len(reps)
    BY <2>1, LenProperties
  <2>3. Alive' = Ids(inc')
    BY <2>2 DEF Alive, Ids
  <2>4. ASSUME NEW i \in 1..Len(inc), inc[i].macro, inc[i].id \notin Ids(inc')
        PROVE  /\ \A k \in 1..(Len(ifs) - 1) : ifs[k].frame # inc[i].id
               /\ \A k \in 1..Len(reps) : reps[k].frame # inc[i].id
    BY <2>2, <2>3, <2>4 DEF MacrosCloseOwn
  <2>5. ASSUME NEW k \in 1..Len(ifs) PROVE ifs[k].frame \in Ids(inc') \cup {0}
    <3>1. CASE k = Len(ifs)
      BY <2>1, <3>1 DEF Base
    <3>2. CASE k # Len(ifs)
      <4>1. k \in 1..(Len(ifs) - 1)
        BY <2>2, <3>2
      <4>2. ifs[k].frame \in Ids(inc) \cup {0}
        BY DEF OrphanInv, Attached
      <4>. QED
        BY <1>4, <2>4, <4>1, <4>2 DEF LeftMacros
    <3>. QED
      BY <3>1, <3>2
  <2>6. ASSUME NEW k \in 1..Len(reps) PROVE reps[k].frame \in Ids(inc')
    <3>1. reps[k].frame \in Ids(inc)
      BY DEF OrphanInv, Attached
    <3>. QED
      BY <1>4, <2>4, <3>1 DEF LeftMacros
  <2>7. Attached(ifs, Ids(inc') \cup {0}) /\ Attached(reps, Ids(inc'))
    BY <2>5, <2>6 DEF OrphanInv, Attached
  <2>. QED
    BY <1>4, <2>7 DEF LeftMacros, OrphanInv
<1>. QED
  BY <1>2, <1>3, <1>4, FramesEffect

LEMMA OrphanInit == Init => OrphanInv
<1> SUFFICES ASSUME Init PROVE OrphanInv
  OBVIOUS
<1>1. inc = <<File(Main, 1)>> /\ ifs = <<Base>> /\ reps = <<>> /\ born = 1
  BY DEF Init
<1>2. Younger(inc, born)
  BY <1>1 DEF Younger, File
<1>3. Attached(ifs, Ids(inc) \cup {0})
  BY <1>1 DEF Attached, Base
<1>4. Attached(reps, Ids(inc))
  BY <1>1 DEF Attached
<1>. QED
  BY <1>2, <1>3, <1>4 DEF OrphanInv

LEMMA OrphanInvariance == Spec /\ [][MacrosCloseOwn]_vars => [](IInv /\ OrphanInv)
<1>1. IInv /\ IInv' /\ OrphanInv /\ [Next]_vars /\ [MacrosCloseOwn]_vars => OrphanInv'
  <2> SUFFICES ASSUME IInv, IInv', OrphanInv, [Next]_vars, [MacrosCloseOwn]_vars
               PROVE  OrphanInv'
    OBVIOUS
  <2>1. CASE UNCHANGED vars
    BY <2>1 DEF vars, OrphanInv
  <2>2. CASE ~UNCHANGED vars
    BY <2>2, OrphanStep
  <2>. QED
    BY <2>1, <2>2
<1>. QED
  BY <1>1, Inductive, OrphanInit, PTL DEF Spec

(* Only a macro can leave a conditional or a loop open: if every macro     *)
(* that is left (v_endm, v_end, MEXIT) has closed what it opened, whatever *)
(* files do, all entries of Ifstack and Reploop belong to a file or a call *)
(* that is still being read.                                               *)
THEOREM NoOrphansIfMacrosClose == Spec /\ [][MacrosCloseOwn]_vars => []NoOrphans
<1>1. IInv /\ OrphanInv => NoOrphans
  <2> SUFFICES ASSUME IInv, OrphanInv PROVE NoOrphans
    OBVIOUS
  <2>1. /\ Alive = Ids(inc) /\ reps \in Seq(LoopEntry) /\ ifs \in Seq(Entry)
        /\ \A i \in 1..(Len(ifs) - 1) : ifs[i].frame # 0
    BY IdsFacts DEF IInv, RepInv, IfInv, IfsOK, Based
  <2>2. DOMAIN reps = 1..Len(reps) /\ \A i \in 1..(Len(ifs) - 1) : i \in 1..Len(ifs)
    BY <2>1, LenProperties
  <2>. QED
    BY <2>1, <2>2 DEF OrphanInv, Attached, NoOrphans
<1>. QED
  BY <1>1, OrphanInvariance, PTL

(* Then a pass ends, and the next begins, with the stacks of the first:    *)
(* the base alone, no loop, and Mlevel 0.                                  *)
THEOREM PassesStartOutside == Spec /\ [][MacrosCloseOwn]_vars => []PassStartsOutside
<1>1. IInv /\ OrphanInv => PassStartsOutside
  <2> SUFFICES ASSUME IInv, OrphanInv, inc = <<>>
               PROVE  ifs = <<Base>> /\ reps = <<>> /\ mlevel = 0
    BY DEF PassStartsOutside
  <2>1. Ids(inc) = {} /\ Depths(inc) = {}
    BY DEF Ids, Depths
  <2>2. mlevel = 0
    BY <2>1, FS_EmptySet DEF IInv, IncInv, LevelOK
  <2>3. reps = <<>>
    <3>1. reps \in Seq(LoopEntry) /\ \A i \in 1..Len(reps) : FALSE
      BY <2>1 DEF IInv, RepInv, OrphanInv, Attached
    <3>2. Len(reps) \in Nat /\ (Len(reps) # 0 => 1 \in 1..Len(reps))
      BY <3>1, LenProperties
    <3>. QED
      BY <3>1, <3>2, EmptySeq
  <2>4. /\ ifs \in Seq(Entry) /\ ifs # <<>> /\ ifs[Len(ifs)] = Base
        /\ \A i \in 1..(Len(ifs) - 1) : ifs[i].frame # 0
        /\ \A i \in 1..Len(ifs) : ifs[i].frame = 0
    BY <2>1 DEF IInv, IfInv, IfsOK, Based, OrphanInv, Attached
  <2>5. Len(ifs) = 1
    <3>1. Len(ifs) \in Nat /\ Len(ifs) # 0
      BY <2>4, LenProperties, EmptySeq
    <3>3. \A n \in Nat : n # 0 /\ n # 1 => 1 \in 1..(n - 1) /\ 1 \in 1..n
      OBVIOUS
    <3>2. Len(ifs) # 1 => 1 \in 1..(Len(ifs) - 1) /\ 1 \in 1..Len(ifs)
      BY <3>1, <3>3
    <3>. QED
      BY <2>4, <3>2
  <2>6. ifs = <<Base>>
    BY <2>4, <2>5
  <2>. QED
    BY <2>2, <2>3, <2>6
<1>. QED
  BY <1>1, OrphanInvariance, PTL
=============================================================================
