-------------------------- MODULE Mnemonic_proofs ---------------------------
(***************************************************************************)
(* Theorems about eval and about v_mnemonic, which extends it: for every   *)
(* operand, every set of symbols and bodies of EQM symbols, every radix    *)
(* and every table row.                                                    *)
(***************************************************************************)
EXTENDS Mnemonic, BasicFacts, FiniteSetTheorems


-----------------------------------------------------------------------------
(* Lists of anything.  Nothing here depends on what values are.            *)
Listed(s) == s \in Seq({s[i] : i \in DOMAIN s})

LEMMA SeqIsListed ==
  ASSUME NEW S, NEW s \in Seq(S)
  PROVE  Listed(s)
<1>1. Len(s) \in Nat /\ DOMAIN s = 1..Len(s)
  BY LenProperties
<1>2. \A i \in 1..Len(s) : s[i] \in {s[j] : j \in DOMAIN s}
  BY <1>1
<1>3. s = [i \in 1..Len(s) |-> s[i]]
  BY LenProperties
<1>. QED
  BY <1>1, <1>2, <1>3, SeqDef DEF Listed

LEMMA ListedFacts ==
  ASSUME NEW s, Listed(s)
  PROVE  /\ Len(s) \in Nat
         /\ DOMAIN s = 1..Len(s)
         /\ s = <<>> <=> Len(s) = 0
  BY LenProperties, EmptySeq DEF Listed

LEMMA EmptyIsListed == Listed(<<>>) /\ Len(<<>>) = 0
  BY EmptySeq, SeqIsListed

LEMMA AppendListed ==
  ASSUME NEW s, NEW v, Listed(s)
  PROVE  /\ Listed(Append(s, v))
         /\ Len(Append(s, v)) = Len(s) + 1
         /\ \A i \in 1..Len(s) : Append(s, v)[i] = s[i]
<1> DEFINE S == {s[i] : i \in DOMAIN s}
           T == S \cup {v}
<1>1. s \in Seq(T)
  BY SeqMonotonic DEF Listed
<1> HIDE DEF T
<1>2. v \in T
  BY DEF T
<1>3. /\ Append(s, v) \in Seq(T)
      /\ Len(Append(s, v)) = Len(s) + 1
      /\ \A i \in 1..Len(s) : Append(s, v)[i] = s[i]
  BY <1>1, <1>2, AppendProperties
<1>. QED
  BY <1>3, SeqIsListed

LEMMA CutListed ==
  ASSUME NEW s, Listed(s), NEW n \in 0..Len(s)
  PROVE  /\ Listed(Cut(s, n))
         /\ Len(Cut(s, n)) = n
         /\ \A i \in 1..n : Cut(s, n)[i] = s[i]
<1> DEFINE S == {s[i] : i \in DOMAIN s}
<1>1. Len(s) \in Nat /\ n \in Int /\ 1 \in Int
  BY ListedFacts
<1>2. \A i \in 1..n : s[i] \in S
  BY <1>1, ListedFacts
<1> HIDE DEF S
<1>3. /\ SubSeq(s, 1, n) \in Seq(S)
      /\ Len(SubSeq(s, 1, n)) = IF 1 <= n THEN n - 1 + 1 ELSE 0
      /\ \A i \in 1..(n - 1 + 1) : SubSeq(s, 1, n)[i] = s[1 + i - 1]
  BY <1>1, <1>2, SubSeqProperties
<1>4. Listed(SubSeq(s, 1, n))
  BY <1>3, SeqIsListed
<1>. QED
  BY <1>1, <1>3, <1>4 DEF Cut

(* Two lists that agree on their first n places have the same beginning.   *)
LEMMA SameCut ==
  ASSUME NEW s, NEW t, Listed(s), Listed(t),
         NEW n \in 0..Len(s), n \in 0..Len(t), \A i \in 1..n : t[i] = s[i]
  PROVE  Cut(t, n) = Cut(s, n)
<1>1. /\ Listed(Cut(s, n)) /\ Len(Cut(s, n)) = n
      /\ \A i \in 1..n : Cut(s, n)[i] = s[i]
  BY CutListed
<1>2. /\ Listed(Cut(t, n)) /\ Len(Cut(t, n)) = n
      /\ \A i \in 1..n : Cut(t, n)[i] = t[i]
  BY CutListed
<1> DEFINE S == {Cut(s, n)[i] : i \in DOMAIN Cut(s, n)}
           T == {Cut(t, n)[i] : i \in DOMAIN Cut(t, n)}
<1>3. Cut(s, n) \in Seq(S \cup T)
  BY <1>1, SeqMonotonic DEF Listed
<1>4. Cut(t, n) \in Seq(S \cup T)
  BY <1>2, SeqMonotonic DEF Listed
<1>. QED
  BY <1>1, <1>2, <1>3, <1>4, SeqEqual

LEMMA EmptyCut ==
  ASSUME NEW s, Listed(s)
  PROVE  Cut(s, 0) = <<>>
  BY CutListed, ListedFacts

-----------------------------------------------------------------------------
(* The evaluator and its two stacks.                                       *)
Sound(s) ==
  /\ DOMAIN s = {"args", "ops", "argbase", "opbase", "lastwasop",
                 "errors", "fatals", "evals", "undef"}
  /\ Listed(s.args) /\ Listed(s.ops)
  /\ s.argbase \in 0..Len(s.args) /\ s.opbase \in 0..Len(s.ops)

(* The bases, the operators below the base and the first n values are the  *)
(* same in t as in s.                                                      *)
SameBelow(s, t, n) ==
  /\ t.argbase = s.argbase /\ t.opbase = s.opbase
  /\ \A i \in 1..n : t.args[i] = s.args[i]
  /\ \A i \in 1..s.opbase : t.ops[i] = s.ops[i]
Keeps(s, t) == SameBelow(s, t, s.argbase)

LEMMA KeepsChain ==
  ASSUME NEW s, NEW t, NEW u, Keeps(s, t), Keeps(t, u)
  PROVE  Keeps(s, u)
  BY DEF Keeps, SameBelow

LEMMA SoundNumbers ==
  ASSUME NEW s, Sound(s)
  PROVE  /\ Len(s.args) \in Nat /\ Len(s.ops) \in Nat
         /\ s.argbase \in Nat /\ s.opbase \in Nat
         /\ s.argbase <= Len(s.args) /\ s.opbase <= Len(s.ops)
  BY ListedFacts DEF Sound

(* What is below n survives a change of the values from n on.              *)
LEMMA PushSound ==
  ASSUME NEW s, NEW v, Sound(s)
  PROVE  /\ Sound(Push(s, v))
         /\ Push(s, v).ops = s.ops
         /\ Len(Push(s, v).args) = Len(s.args) + 1
         /\ SameBelow(s, Push(s, v), Len(s.args))
<1>1. /\ Push(s, v).args = Append(s.args, v) /\ Push(s, v).ops = s.ops
      /\ Push(s, v).argbase = s.argbase /\ Push(s, v).opbase = s.opbase
      /\ DOMAIN Push(s, v) = DOMAIN s
  BY DEF Push, Sound
<1>2. /\ Listed(Append(s.args, v)) /\ Len(Append(s.args, v)) = Len(s.args) + 1
      /\ \A i \in 1..Len(s.args) : Append(s.args, v)[i] = s.args[i]
  BY AppendListed DEF Sound
<1>. QED
  BY <1>1, <1>2, SoundNumbers DEF Sound, SameBelow

(* A unary operator is applied to the value on top.                        *)
LEMMA UnstackSound ==
  ASSUME NEW s, Sound(s), HasOp(s), Len(s.args) > s.argbase
  PROVE  /\ Sound(Unstack(s))
         /\ Len(Unstack(s).ops) = Len(s.ops) - 1
         /\ Len(Unstack(s).args) = Len(s.args)
         /\ SameBelow(s, Unstack(s), Len(s.args) - 1)
<1> DEFINE v == Result1(s)
           a == Pop(s.args)
           o == Pop(s.ops)
<1>1. /\ Unstack(s).args = Append(a, v) /\ Unstack(s).ops = o
      /\ Unstack(s).argbase = s.argbase /\ Unstack(s).opbase = s.opbase
      /\ DOMAIN Unstack(s) = DOMAIN s
  BY DEF Unstack, Sound
<1> HIDE DEF v
<1>2. Len(s.args) - 1 \in 0..Len(s.args) /\ Len(s.ops) - 1 \in 0..Len(s.ops)
  BY SoundNumbers DEF HasOp
<1>3. /\ Listed(a) /\ Len(a) = Len(s.args) - 1
      /\ \A i \in 1..(Len(s.args) - 1) : a[i] = s.args[i]
  BY <1>2, CutListed DEF Pop, Sound
<1>4. /\ Listed(o) /\ Len(o) = Len(s.ops) - 1
      /\ \A i \in 1..(Len(s.ops) - 1) : o[i] = s.ops[i]
  BY <1>2, CutListed DEF Pop, Sound
<1> HIDE DEF a, o
<1>5. /\ Listed(Append(a, v)) /\ Len(Append(a, v)) = Len(a) + 1
      /\ \A i \in 1..Len(a) : Append(a, v)[i] = a[i]
  BY <1>3, AppendListed
<1>6. s.opbase <= Len(s.ops) - 1 /\ s.argbase <= Len(s.args)
  BY SoundNumbers DEF HasOp
<1>7. /\ Unstack(s).argbase \in 0..Len(Unstack(s).args)
      /\ Unstack(s).opbase \in 0..Len(Unstack(s).ops)
  BY <1>1, <1>3, <1>4, <1>5, <1>6, SoundNumbers
<1>. QED
  BY <1>1, <1>3, <1>4, <1>5, <1>6, <1>7, SoundNumbers DEF Sound, SameBelow

-----------------------------------------------------------------------------
(* stackarg: rounds of Absorbed, one for each operator there is.           *)
LEMMA AbsorptionsExist ==
  ASSUME NEW s, NEW n \in Nat
  PROVE  \E f : f = [k \in 0..n |-> IF k = 0 THEN s ELSE Absorbed(f[k - 1])]
<1> DEFINE T == {m \in Nat : \E f : f = [k \in 0..m |-> IF k = 0 THEN s ELSE Absorbed(f[k - 1])]}
<1>1. 0 \in T
  <2> DEFINE f == [k \in 0..0 |-> s]
  <2>1. f = [k \in 0..0 |-> IF k = 0 THEN s ELSE Absorbed(f[k - 1])]
    OBVIOUS
  <2>. QED
    BY <2>1
<1>2. ASSUME NEW m \in Nat, m \in T
      PROVE  m + 1 \in T
  <2>1. PICK f : f = [k \in 0..m |-> IF k = 0 THEN s ELSE Absorbed(f[k - 1])]
    BY <1>2
  <2> DEFINE g == [k \in 0..(m + 1) |-> IF k <= m THEN f[k] ELSE Absorbed(f[m])]
  <2>2. ASSUME NEW k \in 0..(m + 1)
        PROVE  g[k] = IF k = 0 THEN s ELSE Absorbed(g[k - 1])
    <3>1. CASE k = 0
      BY <2>1, <3>1
    <3>2. CASE k # 0 /\ k <= m
      <4>1. k \in 0..m /\ k - 1 \in 0..(m + 1) /\ k - 1 <= m
        BY <3>2
      <4>2. g[k] = f[k] /\ g[k - 1] = f[k - 1]
        BY <3>2, <4>1
      <4>3. f[k] = Absorbed(f[k - 1])
        BY <2>1, <3>2, <4>1
      <4>. QED
        BY <3>2, <4>2, <4>3
    <3>3. CASE k = m + 1
      BY <3>3
    <3>. QED
      BY <3>1, <3>2, <3>3
  <2>3. g = [k \in 0..(m + 1) |-> IF k = 0 THEN s ELSE Absorbed(g[k - 1])]
    BY <2>2
  <2> HIDE DEF g
  <2>. QED
    BY <2>3
<1> HIDE DEF T
<1>3. n \in T
  BY <1>1, <1>2, SetInduction
<1>. QED
  BY <1>3 DEF T

LEMMA AbsorptionsStep ==
  ASSUME NEW s, Len(s.ops) \in Nat
  PROVE  /\ Absorptions(s)[0] = s
         /\ \A k \in 1..Len(s.ops) : Absorptions(s)[k] = Absorbed(Absorptions(s)[k - 1])
<1> DEFINE n == Len(s.ops)
           IsRun(f) == f = [k \in 0..n |-> IF k = 0 THEN s ELSE Absorbed(f[k - 1])]
<1>1. \E f : IsRun(f)
  BY AbsorptionsExist
<1>2. Absorptions(s) = CHOOSE f : IsRun(f)
  BY DEF Absorptions
<1>3. IsRun(Absorptions(s))
  BY <1>1, <1>2
<1>. QED
  BY <1>3

(* A value that is stacked stays above what was there, and the operators   *)
(* below the base are not looked at.                                       *)
LEMMA StackargSound ==
  ASSUME NEW s, NEW v, Sound(s)
  PROVE  /\ Sound(Stackarg(s, v))
         /\ Len(Stackarg(s, v).args) = Len(s.args) + 1
         /\ SameBelow(s, Stackarg(s, v), Len(s.args))
<1> DEFINE p == Push(s, v)
           n == Len(s.ops)
           a == Len(s.args)
           f == Absorptions(p)
           Fine(t) == Sound(t) /\ Len(t.args) = a + 1 /\ SameBelow(s, t, a)
           T == {k \in Nat : k <= n => Fine(f[k])}
<1>1. Fine(p) /\ p.ops = s.ops
  BY PushSound
<1>2. n \in Nat /\ a \in Nat /\ s.argbase \in Nat /\ s.argbase <= a
  BY SoundNumbers
<1>3. f[0] = p /\ \A k \in 1..n : f[k] = Absorbed(f[k - 1])
  BY <1>1, <1>2, AbsorptionsStep
<1> HIDE DEF f, p
<1>4. 0 \in T
  BY <1>1, <1>3
<1>5. ASSUME NEW k \in Nat, k \in T
      PROVE  k + 1 \in T
  <2> SUFFICES ASSUME k + 1 <= n PROVE Fine(f[k + 1])
    OBVIOUS
  <2>1. Fine(f[k])
    BY <1>2, <1>5
  <2>2. f[k + 1] = Absorbed(f[k])
    BY <1>2, <1>3
  <2> DEFINE t == f[k]
  <2>3. CASE ~(HasOp(t) /\ TopPri(t) = UNARY)
    BY <2>1, <2>2, <2>3 DEF Absorbed
  <2>4. CASE HasOp(t) /\ TopPri(t) = UNARY
    <3>1. Len(t.args) > t.argbase
      BY <1>2, <2>1 DEF SameBelow
    <3>2. /\ Sound(Unstack(t)) /\ Len(Unstack(t).args) = Len(t.args)
          /\ SameBelow(t, Unstack(t), Len(t.args) - 1)
      BY <2>1, <2>4, <3>1, UnstackSound
    <3>3. SameBelow(s, Unstack(t), a)
      BY <1>2, <2>1, <3>2 DEF SameBelow
    <3>4. f[k + 1] = Unstack(t)
      BY <2>2, <2>4 DEF Absorbed
    <3>. QED
      BY <2>1, <3>2, <3>3, <3>4
  <2>. QED
    BY <2>3, <2>4
<1> HIDE DEF T
<1>6. n \in T
  BY <1>2, <1>4, <1>5, SetInduction
<1>7. Fine(f[n])
  BY <1>2, <1>6 DEF T
<1>8. Stackarg(s, v) = f[n]
  BY DEF Stackarg, f, p
<1>. QED
  BY <1>7, <1>8

LEMMA StackargKeeps ==
  ASSUME NEW s, NEW v, Sound(s)
  PROVE  Keeps(s, Stackarg(s, v))
<1>1. SameBelow(s, Stackarg(s, v), Len(s.args))
  BY StackargSound
<1>2. s.argbase \in Nat /\ Len(s.args) \in Nat /\ s.argbase <= Len(s.args)
  BY SoundNumbers
<1>. QED
  BY <1>1, <1>2 DEF Keeps, SameBelow

(* Both stacks cut, neither below its base; the rest does not matter.      *)
LEMMA CutSound ==
  ASSUME NEW s, NEW t, Sound(s), DOMAIN t = DOMAIN s,
         NEW m \in s.argbase..Len(s.args), NEW k \in s.opbase..Len(s.ops),
         t.args = Cut(s.args, m), t.ops = Cut(s.ops, k),
         t.argbase = s.argbase, t.opbase = s.opbase
  PROVE  /\ Sound(t) /\ Len(t.args) = m /\ Len(t.ops) = k
         /\ SameBelow(s, t, m)
<1>1. m \in 0..Len(s.args) /\ k \in 0..Len(s.ops)
  BY SoundNumbers
<1>2. /\ Listed(Cut(s.args, m)) /\ Len(Cut(s.args, m)) = m
      /\ \A i \in 1..m : Cut(s.args, m)[i] = s.args[i]
  BY <1>1, CutListed DEF Sound
<1>3. /\ Listed(Cut(s.ops, k)) /\ Len(Cut(s.ops, k)) = k
      /\ \A i \in 1..k : Cut(s.ops, k)[i] = s.ops[i]
  BY <1>1, CutListed DEF Sound
<1>4. t.argbase \in 0..Len(t.args) /\ t.opbase \in 0..Len(t.ops)
  BY <1>1, <1>2, <1>3, SoundNumbers
<1>5. Sound(t)
  BY <1>2, <1>3, <1>4 DEF Sound
<1>6. \A i \in 1..s.opbase : t.ops[i] = s.ops[i]
  BY <1>3, SoundNumbers
<1>. QED
  BY <1>2, <1>3, <1>5, <1>6 DEF SameBelow

LEMMA BelowKeeps ==
  ASSUME NEW s, NEW t, NEW m \in Int, Sound(s), SameBelow(s, t, m), s.argbase <= m
  PROVE  Keeps(s, t)
  BY SoundNumbers DEF SameBelow, Keeps

(* evaltop: an operator without enough values above the base is an error   *)
(* that clears the values above the base, and only those.                  *)
LEMMA EvaltopSound ==
  ASSUME NEW s, Sound(s), HasOp(s)
  PROVE  Sound(Evaltop(s)) /\ Keeps(s, Evaltop(s))
<1> DEFINE op == Top(s.ops)
           n == Len(s.args)
           a == s.args[n - 1]
           b == s.args[n]
           known == ~a.unk /\ ~b.unk
           s1 == [s EXCEPT !.ops = Pop(@)]
           none == SyntaxError([s1 EXCEPT !.args = Cut(@, s.argbase)])
           one == [s1 EXCEPT !.args = Pop(@)]
           two == [s1 EXCEPT !.args = Cut(@, n - 2),
                             !.fatals = @ + Truth(op.op = "/" /\ known /\ b.n = 0),
                             !.undef = @ \/ (op.op \in {"<<", ">>"} /\ known /\ b.n < 0)]
<1>1. /\ n \in Nat /\ Len(s.ops) \in Nat /\ s.argbase \in Nat /\ s.opbase \in Nat
      /\ s.argbase <= n
  BY SoundNumbers
<1>8. Len(s.ops) - 1 \in s.opbase..Len(s.ops)
  BY SoundNumbers DEF HasOp
<1>2. Evaltop(s) = IF op.pri = UNARY
                   THEN IF n < s.argbase + 1 THEN none ELSE Stackarg(one, Result1(s))
                   ELSE IF n < s.argbase + 2 THEN none
                   ELSE Stackarg(two, Result2(op.op, a, b))
  BY DEF Evaltop
<1>3. Sound(none) /\ Keeps(s, none)
  <2>1. /\ DOMAIN none = DOMAIN s /\ none.args = Cut(s.args, s.argbase)
        /\ none.ops = Cut(s.ops, Len(s.ops) - 1)
        /\ none.argbase = s.argbase /\ none.opbase = s.opbase
    BY DEF SyntaxError, Pop, Sound
  <2>2. s.argbase \in s.argbase..Len(s.args)
    BY <1>1
  <2> HIDE DEF none
  <2>3. Sound(none) /\ SameBelow(s, none, s.argbase)
    BY <1>8, <2>1, <2>2, CutSound
  <2>. QED
    BY <2>3 DEF Keeps
<1>4. ASSUME n >= s.argbase + 1
      PROVE  Sound(Stackarg(one, Result1(s))) /\ Keeps(s, Stackarg(one, Result1(s)))
  <2> DEFINE m == n - 1
             k == Len(s.ops) - 1
  <2>1. /\ DOMAIN one = DOMAIN s /\ one.args = Cut(s.args, m) /\ one.ops = Cut(s.ops, k)
        /\ one.argbase = s.argbase /\ one.opbase = s.opbase
    BY DEF Pop, Sound
  <2>2. m \in s.argbase..Len(s.args) /\ m \in Int /\ s.argbase <= m
    BY <1>1, <1>4
  <2>3. k \in s.opbase..Len(s.ops)
    BY <1>8
  <2> HIDE DEF one, m, k
  <2>4. Sound(one) /\ SameBelow(s, one, m)
    BY <2>1, <2>2, <2>3, CutSound
  <2>5. Keeps(s, one)
    BY <2>2, <2>4, BelowKeeps
  <2>. QED
    BY <2>4, <2>5, StackargSound, StackargKeeps, KeepsChain
<1>5. ASSUME n >= s.argbase + 2
      PROVE  /\ Sound(Stackarg(two, Result2(op.op, a, b)))
             /\ Keeps(s, Stackarg(two, Result2(op.op, a, b)))
  <2>1. /\ DOMAIN two = DOMAIN s /\ two.args = Cut(s.args, n - 2)
        /\ two.ops = Cut(s.ops, Len(s.ops) - 1)
        /\ two.argbase = s.argbase /\ two.opbase = s.opbase
    BY DEF Pop, Sound
  <2>2. n - 2 \in s.argbase..Len(s.args) /\ n - 2 \in Int /\ s.argbase <= n - 2
    BY <1>1, <1>5
  <2> HIDE DEF two, op, a, b
  <2>3. Sound(two) /\ SameBelow(s, two, n - 2)
    BY <1>8, <2>1, <2>2, CutSound
  <2>4. Keeps(s, two)
    BY <2>2, <2>3, BelowKeeps
  <2>. QED
    BY <2>3, <2>4, StackargSound, StackargKeeps, KeepsChain
<1> HIDE DEF none, one, two, op, a, b
<1>6. n < s.argbase + 1 \/ n >= s.argbase + 1
  BY <1>1
<1>7. n < s.argbase + 2 \/ n >= s.argbase + 2
  BY <1>1
<1>. QED
  BY <1>2, <1>3, <1>4, <1>5, <1>6, <1>7

-----------------------------------------------------------------------------
(* The loops around evaltop.                                               *)
LEMMA ReductionsStep ==
  ASSUME NEW s, NEW p, Len(s.ops) \in Nat
  PROVE  /\ Reductions(s, p)[0] = s
         /\ \A k \in 1..Len(s.ops) : Reductions(s, p)[k] = Reduced(Reductions(s, p)[k - 1], p)
<1> DEFINE n == Len(s.ops)
           IsRun(f) == f = [k \in 0..n |-> IF k = 0 THEN s ELSE Reduced(f[k - 1], p)]
           T == {m \in Nat : \E f : f = [k \in 0..m |-> IF k = 0 THEN s ELSE Reduced(f[k - 1], p)]}
<1>1. 0 \in T
  <2> DEFINE f == [k \in 0..0 |-> s]
  <2>1. f = [k \in 0..0 |-> IF k = 0 THEN s ELSE Reduced(f[k - 1], p)]
    OBVIOUS
  <2>. QED
    BY <2>1
<1>2. ASSUME NEW m \in Nat, m \in T
      PROVE  m + 1 \in T
  <2>1. PICK f : f = [k \in 0..m |-> IF k = 0 THEN s ELSE Reduced(f[k - 1], p)]
    BY <1>2
  <2> DEFINE g == [k \in 0..(m + 1) |-> IF k <= m THEN f[k] ELSE Reduced(f[m], p)]
  <2>2. ASSUME NEW k \in 0..(m + 1)
        PROVE  g[k] = IF k = 0 THEN s ELSE Reduced(g[k - 1], p)
    <3>1. CASE k = 0
      BY <2>1, <3>1
    <3>2. CASE k # 0 /\ k <= m
      <4>1. k \in 0..m /\ k - 1 \in 0..(m + 1) /\ k - 1 <= m
        BY <3>2
      <4>2. g[k] = f[k] /\ g[k - 1] = f[k - 1]
        BY <3>2, <4>1
      <4>3. f[k] = Reduced(f[k - 1], p)
        BY <2>1, <3>2, <4>1
      <4>. QED
        BY <3>2, <4>2, <4>3
    <3>3. CASE k = m + 1
      BY <3>3
    <3>. QED
      BY <3>1, <3>2, <3>3
  <2>3. g = [k \in 0..(m + 1) |-> IF k = 0 THEN s ELSE Reduced(g[k - 1], p)]
    BY <2>2
  <2> HIDE DEF g
  <2>. QED
    BY <2>3
<1> HIDE DEF T
<1>0. n \in Nat
  OBVIOUS
<1>3. n \in T
  BY <1>0, <1>1, <1>2, SetInduction
<1>4. \E f : IsRun(f)
  BY <1>3 DEF T
<1>5. Reductions(s, p) = CHOOSE f : IsRun(f)
  BY DEF Reductions
<1>6. IsRun(Reductions(s, p))
  BY <1>4, <1>5
<1>. QED
  BY <1>6

(* However many operators are evaluated, what is below both bases stays.   *)
LEMMA ReduceSound ==
  ASSUME NEW s, NEW p, Sound(s)
  PROVE  Sound(Reduce(s, p)) /\ Keeps(s, Reduce(s, p))
<1> DEFINE n == Len(s.ops)
           f == Reductions(s, p)
           Fine(t) == Sound(t) /\ Keeps(s, t)
           T == {k \in Nat : k <= n => Fine(f[k])}
<1>1. n \in Nat
  BY SoundNumbers
<1>2. f[0] = s /\ \A k \in 1..n : f[k] = Reduced(f[k - 1], p)
  BY <1>1, ReductionsStep
<1> HIDE DEF f
<1>3. 0 \in T
  BY <1>2 DEF Keeps, SameBelow
<1>4. ASSUME NEW k \in Nat, k \in T
      PROVE  k + 1 \in T
  <2> SUFFICES ASSUME k + 1 <= n PROVE Fine(f[k + 1])
    OBVIOUS
  <2>1. Fine(f[k])
    BY <1>1, <1>4
  <2>2. f[k + 1] = Reduced(f[k], p)
    BY <1>1, <1>2
  <2> DEFINE t == f[k]
  <2>3. CASE ~(HasOp(t) /\ TopPri(t) >= p)
    BY <2>1, <2>2, <2>3 DEF Reduced
  <2>4. CASE HasOp(t) /\ TopPri(t) >= p
    <3>1. Sound(Evaltop(t)) /\ Keeps(t, Evaltop(t))
      BY <2>1, <2>4, EvaltopSound
    <3>2. Keeps(s, Evaltop(t))
      BY <2>1, <3>1, KeepsChain
    <3>3. f[k + 1] = Evaltop(t)
      BY <2>2, <2>4 DEF Reduced
    <3>. QED
      BY <3>1, <3>2, <3>3
  <2>. QED
    BY <2>3, <2>4
<1> HIDE DEF T
<1>5. n \in T
  BY <1>1, <1>3, <1>4, SetInduction
<1>6. Fine(f[n])
  BY <1>1, <1>5 DEF T
<1>7. Reduce(s, p) = f[n]
  BY DEF Reduce, f
<1>. QED
  BY <1>6, <1>7

(* doop and the brackets put an operator on top. *)
LEMMA StackOpSound ==
  ASSUME NEW s, NEW t, NEW o, Sound(s), DOMAIN t = DOMAIN s,
         t.args = s.args, t.ops = Append(s.ops, o), t.argbase = s.argbase, t.opbase = s.opbase
  PROVE  Sound(t) /\ Keeps(s, t)
<1>1. /\ Listed(Append(s.ops, o)) /\ Len(Append(s.ops, o)) = Len(s.ops) + 1
      /\ \A i \in 1..Len(s.ops) : Append(s.ops, o)[i] = s.ops[i]
  BY AppendListed DEF Sound
<1>. QED
  BY <1>1, SoundNumbers DEF Sound, Keeps, SameBelow

LEMMA ShiftSound ==
  ASSUME NEW s, NEW op, NEW pri, Sound(s)
  PROVE  Sound(Shift(s, op, pri)) /\ Keeps(s, Shift(s, op, pri))
<1> DEFINE o == [op |-> op, pri |-> pri]
           t == Shift(s, op, pri)
<1>1. /\ DOMAIN t = DOMAIN s /\ t.args = s.args /\ t.ops = Append(s.ops, o)
      /\ t.argbase = s.argbase /\ t.opbase = s.opbase
  BY DEF Shift, Sound
<1> HIDE DEF o, t
<1>2. Sound(t) /\ Keeps(s, t)
  BY <1>1, StackOpSound
<1>. QED
  BY <1>2 DEF t

(* Counters and flags beside the stacks.                                   *)
LEMMA BesideSound ==
  ASSUME NEW s, NEW t, Sound(s), DOMAIN t = DOMAIN s, t.args = s.args, t.ops = s.ops,
         t.argbase = s.argbase, t.opbase = s.opbase
  PROVE  Sound(t) /\ Keeps(s, t)
  BY DEF Sound, Keeps, SameBelow

LEMMA AfterOpSound ==
  ASSUME NEW s, Sound(s)
  PROVE  Sound(AfterOp(s)) /\ Keeps(s, AfterOp(s))
<1> DEFINE t == AfterOp(s)
<1>1. /\ DOMAIN t = DOMAIN s /\ t.args = s.args /\ t.ops = s.ops
      /\ t.argbase = s.argbase /\ t.opbase = s.opbase
  BY DEF AfterOp, Sound
<1> HIDE DEF t
<1>2. Sound(t) /\ Keeps(s, t)
  BY <1>1, BesideSound
<1>. QED
  BY <1>2 DEF t

LEMMA DoopSound ==
  ASSUME NEW s, NEW op, NEW pri, Sound(s)
  PROVE  Sound(Doop(s, op, pri)) /\ Keeps(s, Doop(s, op, pri))
<1>1. Sound(AfterOp(s)) /\ Keeps(s, AfterOp(s))
  BY AfterOpSound
<1>2. CASE pri = UNARY
  BY <1>1, <1>2, ShiftSound, KeepsChain DEF Doop
<1>3. CASE pri # UNARY
  <2> DEFINE r == Reduce(AfterOp(s), pri)
  <2>1. Sound(r) /\ Keeps(s, r)
    BY <1>1, ReduceSound, KeepsChain
  <2> HIDE DEF r
  <2>2. Sound(Shift(r, op, pri)) /\ Keeps(s, Shift(r, op, pri))
    BY <1>1, <2>1, ShiftSound, KeepsChain
  <2>. QED
    BY <1>3, <2>2 DEF Doop, r
<1>. QED
  BY <1>2, <1>3

LEMMA AfterCommaSound ==
  ASSUME NEW s, Sound(s)
  PROVE  /\ Sound(AfterComma(s)) /\ Keeps(s, AfterComma(s))
         /\ AfterComma(s).args = ReduceAll(s).args
<1>1. Sound(Reduce(s, 1)) /\ Keeps(s, Reduce(s, 1))
  BY ReduceSound
<1> DEFINE r == Reduce(s, 1)
           t == [r EXCEPT !.lastwasop = TRUE]
<1>2. AfterComma(s) = t
  BY DEF AfterComma, ReduceAll
<1>3. Sound(r) /\ Keeps(s, r)
  BY <1>1
<1> HIDE DEF r
<1>4. /\ t.args = r.args /\ t.ops = r.ops /\ t.argbase = r.argbase /\ t.opbase = r.opbase
      /\ DOMAIN t = DOMAIN r
  BY <1>3 DEF Sound
<1>5. Sound(t) /\ Keeps(s, t)
  BY <1>3, <1>4 DEF Sound, Keeps, SameBelow
<1>. QED
  BY <1>2, <1>4, <1>5 DEF ReduceAll, r

-----------------------------------------------------------------------------
(* The calls of eval.  Each has saved the bases of the call around it, no  *)
(* higher than its own, and the outermost began with empty stacks.         *)
ArgBase(i) == IF i = 1 THEN e.argbase ELSE calls[i - 1].oldargbase
OpBase(i) == IF i = 1 THEN e.opbase ELSE calls[i - 1].oldopbase

GoodFrame(f) ==
  /\ DOMAIN f = {"str", "wantmode", "list", "oldargbase", "oldopbase"}
  /\ Listed(f.list) /\ f.list # <<>>

BasesNest ==
  \A i \in 1..Len(calls) : /\ calls[i].oldargbase \in 0..ArgBase(i)
                           /\ calls[i].oldopbase \in 0..OpBase(i)

OutermostEmpty == calls # <<>> => ArgBase(Len(calls)) = 0 /\ OpBase(Len(calls)) = 0

CallsFit ==
  /\ Listed(calls)
  /\ \A i \in 1..Len(calls) : GoodFrame(calls[i])
  /\ BasesNest
  /\ OutermostEmpty
  /\ operand = <<>> <=> calls # <<>>

StackInv == Sound(e) /\ CallsFit /\ StacksRestored

LEMMA EmptyDomain ==
  ASSUME NEW s, 1 \in DOMAIN s
  PROVE  s # <<>>
<1>1. DOMAIN <<>> = 1..0
  BY EmptyIsListed, ListedFacts
<1>. QED
  BY <1>1

LEMMA ExceptListed ==
  ASSUME NEW s, NEW i, NEW v, Listed(s), s # <<>>
  PROVE  /\ Listed([s EXCEPT ![i] = v])
         /\ [s EXCEPT ![i] = v] # <<>>
         /\ Len([s EXCEPT ![i] = v]) = Len(s)
<1> DEFINE S == {s[j] : j \in DOMAIN s} \cup {v}
           t == [s EXCEPT ![i] = v]
<1>1. s \in Seq(S)
  BY SeqMonotonic DEF Listed
<1>2. Len(s) \in Nat /\ DOMAIN s = 1..Len(s) /\ Len(s) # 0
  BY ListedFacts
<1>3. \A j \in 1..Len(s) : s[j] \in S
  BY <1>2
<1>4. v \in S
  OBVIOUS
<1> HIDE DEF S
<1>5. t \in [1..Len(s) -> S]
  BY <1>1, <1>2, <1>3, <1>4, LenProperties
<1>6. t \in Seq(S)
  BY <1>2, <1>5, SeqDef
<1>7. DOMAIN t = 1..Len(s) /\ DOMAIN t = 1..Len(t) /\ Len(t) \in Nat
  BY <1>5, <1>6, LenProperties
<1> HIDE DEF t
<1>8. Len(t) = Len(s)
  BY <1>2, <1>7
<1>9. Listed(t) /\ t # <<>>
  BY <1>2, <1>6, <1>7, SeqIsListed, EmptyDomain
<1>. QED
  BY <1>8, <1>9 DEF t

(* What eval does to the frame of a call between two tokens.               *)
SameCall(f, g) ==
  /\ GoodFrame(g)
  /\ g.oldargbase = f.oldargbase /\ g.oldopbase = f.oldopbase

LEMMA SetModeSame ==
  ASSUME NEW m, GoodFrame(calls[1])
  PROVE  SameCall(calls[1], SetMode(m))
<1> DEFINE f == calls[1]
           l == WithCur(f.list, [Cur EXCEPT !.mode = m])
<1>1. SetMode(m) = [f EXCEPT !.list = l]
  BY DEF SetMode
<1>2. Listed(l) /\ l # <<>>
  BY ExceptListed DEF WithCur, GoodFrame
<1> HIDE DEF l
<1>. QED
  BY <1>1, <1>2 DEF SameCall, GoodFrame

(* A step that stays in the call and keeps what is below it.               *)
LEMMA TookFits ==
  ASSUME NEW t, NEW frame, StackInv, operand = <<>>, Took(t, frame),
         SameCall(calls[1], frame), Sound(e'), Keeps(e, e')
  PROVE  StackInv' /\ Len(calls') = Len(calls)
<1>1. calls # <<>> /\ Listed(calls) /\ Len(calls) \in Nat /\ Len(calls) # 0
  BY ListedFacts DEF StackInv, CallsFit
<1>2. PICK g : SameCall(calls[1], g) /\ calls' = [calls EXCEPT ![1] = g]
  <2>1. CASE Nested
    <3> DEFINE g == [frame EXCEPT !.str = Tail(@)]
    <3>1. calls' = [calls EXCEPT ![1] = g]
      BY <2>1 DEF Took
    <3>2. SameCall(calls[1], g)
      BY DEF SameCall, GoodFrame
    <3>. QED
      BY <3>1, <3>2
  <2>2. CASE ~Nested
    BY <2>2 DEF Took
  <2>. QED
    BY <2>1, <2>2
<1>3. Listed(calls') /\ calls' # <<>> /\ Len(calls') = Len(calls)
  BY <1>1, <1>2, ExceptListed
<1>4. \A i \in 1..Len(calls) : calls'[i] = IF i = 1 THEN g ELSE calls[i]
  BY <1>1, <1>2, ListedFacts
<1>5. \A i \in 1..Len(calls) : /\ GoodFrame(calls'[i])
                               /\ calls'[i].oldargbase = calls[i].oldargbase
                               /\ calls'[i].oldopbase = calls[i].oldopbase
  BY <1>2, <1>4 DEF SameCall, StackInv, CallsFit
<1>6. e'.argbase = e.argbase /\ e'.opbase = e.opbase
  BY DEF Keeps, SameBelow
<1>7. \A i \in 1..Len(calls) : ArgBase(i)' = ArgBase(i) /\ OpBase(i)' = OpBase(i)
  <2> TAKE i \in 1..Len(calls)
  <2>1. CASE i = 1
    BY <1>6, <2>1 DEF ArgBase, OpBase
  <2>2. CASE i # 1
    <3>1. i - 1 \in 1..Len(calls)
      BY <1>1, <2>2
    <3>. QED
      BY <1>5, <2>2, <3>1 DEF ArgBase, OpBase
  <2>. QED
    BY <2>1, <2>2
<1>8. Len(calls) \in 1..Len(calls)
  BY <1>1
<1>9. BasesNest'
  BY <1>3, <1>5, <1>7 DEF BasesNest, StackInv, CallsFit
<1>10. operand' = <<>>
  BY DEF Took
<1>11. CallsFit'
  <2>1. OutermostEmpty'
    BY <1>1, <1>3, <1>7, <1>8 DEF StackInv, CallsFit, OutermostEmpty
  <2>. QED
    BY <1>3, <1>5, <1>9, <1>10, <2>1 DEF CallsFit
<1>12. StacksRestored'
  BY <1>10 DEF StacksRestored
<1>. QED
  BY <1>3, <1>11, <1>12 DEF StackInv

LEMMA KeepsItself ==
  ASSUME NEW s
  PROVE  Keeps(s, s)
  BY DEF Keeps, SameBelow

(* A closing bracket takes what it closes, if it is of this call.          *)
LEMMA CloseSound ==
  ASSUME NEW s, Sound(s), HasOp(s)
  PROVE  Sound([s EXCEPT !.ops = Pop(@)]) /\ Keeps(s, [s EXCEPT !.ops = Pop(@)])
<1> DEFINE k == Len(s.ops) - 1
           t == [s EXCEPT !.ops = Pop(@)]
<1>1. k \in 0..Len(s.ops) /\ s.opbase \in 0..k /\ s.opbase \in Nat
  BY SoundNumbers DEF HasOp
<1>2. /\ DOMAIN t = DOMAIN s /\ t.ops = Cut(s.ops, k) /\ t.args = s.args
      /\ t.argbase = s.argbase /\ t.opbase = s.opbase
  BY DEF Pop, Sound
<1> HIDE DEF k, t
<1>3. /\ Listed(Cut(s.ops, k)) /\ Len(Cut(s.ops, k)) = k
      /\ \A i \in 1..k : Cut(s.ops, k)[i] = s.ops[i]
  BY <1>1, CutListed DEF Sound
<1>4. Sound(t) /\ Keeps(s, t)
  BY <1>1, <1>2, <1>3 DEF Sound, Keeps, SameBelow
<1>. QED
  BY <1>4 DEF t

(* The value of an item is taken from above the base.                      *)
LEMMA TakeSound ==
  ASSUME NEW s, NEW n, Sound(s), Len(s.args) > s.argbase
  PROVE  /\ Sound([s EXCEPT !.args = Pop(@), !.errors = @ + n])
         /\ Keeps(s, [s EXCEPT !.args = Pop(@), !.errors = @ + n])
<1> DEFINE k == Len(s.args) - 1
           t == [s EXCEPT !.args = Pop(@), !.errors = @ + n]
<1>1. k \in 0..Len(s.args) /\ s.argbase \in 0..k /\ s.argbase \in Nat
  BY SoundNumbers
<1>2. /\ DOMAIN t = DOMAIN s /\ t.args = Cut(s.args, k) /\ t.ops = s.ops
      /\ t.argbase = s.argbase /\ t.opbase = s.opbase
  BY DEF Pop, Sound
<1> HIDE DEF k, t
<1>3. /\ Listed(Cut(s.args, k)) /\ Len(Cut(s.args, k)) = k
      /\ \A i \in 1..k : Cut(s.args, k)[i] = s.args[i]
  BY <1>1, CutListed DEF Sound
<1>4. Sound(t) /\ Keeps(s, t)
  BY <1>1, <1>2, <1>3 DEF Sound, Keeps, SameBelow
<1>. QED
  BY <1>4 DEF t

(* A token that does not begin or end a call.                              *)
Stays(t, frame) ==
  /\ operand = <<>> /\ Took(t, frame) /\ SameCall(calls[1], frame)
  /\ Sound(e') /\ Keeps(e, e')

LEMMA ValueStays ==
  ASSUME StackInv, operand = <<>>, SameCall(calls[1], calls[1]),
         Literal \/ NewName \/ OldName
  PROVE  \E t, frame : Stays(t, frame)
<1>1. Sound(e)
  BY DEF StackInv
<1>2. CASE Literal
  <2>1. PICK t \in DOMAIN Literals : Took(t, calls[1]) /\ e' = Stackarg(e, Known(Literals[t]))
    BY <1>2 DEF Literal
  <2>2. Sound(e') /\ Keeps(e, e')
    BY <1>1, <2>1, StackargSound, StackargKeeps
  <2>. QED
    BY <2>1, <2>2 DEF Stays
<1>3. ASSUME NEW v, NEW n, e' = [Stackarg(e, v) EXCEPT !.evals = @ + n]
      PROVE  Sound(e') /\ Keeps(e, e')
  <2> DEFINE s == Stackarg(e, v)
  <2>1. Sound(s) /\ Keeps(e, s) /\ e' = [s EXCEPT !.evals = @ + n]
    BY <1>1, <1>3, StackargSound, StackargKeeps
  <2> HIDE DEF s
  <2>2. /\ DOMAIN e' = DOMAIN s /\ e'.args = s.args /\ e'.ops = s.ops
        /\ e'.argbase = s.argbase /\ e'.opbase = s.opbase
    BY <2>1 DEF Sound
  <2>3. Sound(e') /\ Keeps(s, e')
    BY <2>1, <2>2, BesideSound
  <2>. QED
    BY <2>1, <2>3, KeepsChain
<1>4. CASE NewName
  <2>1. PICK t \in Names \cup {"*"} : /\ Took(t, calls[1])
                                      /\ e' = [Stackarg(e, Unknown(0)) EXCEPT !.evals = @ + 1]
    BY <1>4 DEF NewName
  <2>2. Sound(e') /\ Keeps(e, e')
    BY <1>3, <2>1
  <2>. QED
    BY <2>1, <2>2 DEF Stays
<1>5. CASE OldName
  <2>1. PICK t \in Names \cup {"*"} :
          /\ Took(t, calls[1])
          /\ LET sym == table[SymbolName(t)]
             IN  e' = [Stackarg(e, [n |-> sym.n, unk |-> sym.unk]) EXCEPT !.evals = @ + Truth(sym.unk)]
    BY <1>5 DEF OldName
  <2> DEFINE sym == table[SymbolName(t)]
             v == [n |-> sym.n, unk |-> sym.unk]
             n == Truth(sym.unk)
  <2>2. e' = [Stackarg(e, v) EXCEPT !.evals = @ + n]
    BY <2>1
  <2> HIDE DEF v, n
  <2>3. Sound(e') /\ Keeps(e, e')
    BY <1>3, <2>2
  <2>. QED
    BY <2>1, <2>3 DEF Stays
<1>. QED
  BY <1>2, <1>4, <1>5

LEMMA OperatorStays ==
  ASSUME StackInv, operand = <<>>, SameCall(calls[1], calls[1]),
         UnaryOp \/ MisplacedTilde \/ BinaryOp \/ Open \/ Close
  PROVE  \E t, frame : Stays(t, frame)
<1>1. Sound(e)
  BY DEF StackInv
<1>2. CASE UnaryOp
  <2>1. PICK t \in Unaries : Took(t, calls[1]) /\ e' = Doop(e, t, UNARY)
    BY <1>2 DEF UnaryOp
  <2>2. Sound(e') /\ Keeps(e, e')
    BY <1>1, <2>1, DoopSound
  <2>. QED
    BY <2>1, <2>2 DEF Stays
<1>3. CASE MisplacedTilde
  <2>1. Took("~", calls[1]) /\ e' = SyntaxError(e)
    BY <1>3 DEF MisplacedTilde
  <2>2. /\ DOMAIN e' = DOMAIN e /\ e'.args = e.args /\ e'.ops = e.ops
        /\ e'.argbase = e.argbase /\ e'.opbase = e.opbase
    BY <1>1, <2>1 DEF SyntaxError, Sound
  <2>3. Sound(e') /\ Keeps(e, e')
    BY <1>1, <2>2, BesideSound
  <2>. QED
    BY <2>1, <2>3 DEF Stays
<1>4. CASE BinaryOp
  <2>1. PICK t \in Binaries :
          Took(t, calls[1]) /\ e' = Doop(e, t, Priority(t))
    BY <1>4 DEF BinaryOp
  <2>2. Sound(e') /\ Keeps(e, e')
    BY <1>1, <2>1, DoopSound
  <2>. QED
    BY <2>1, <2>2 DEF Stays
<1>5. CASE Open
  <2>1. PICK t \in {"[", "("} \cap Marks :
          Took(t, calls[1]) /\ e' = [e EXCEPT !.ops = Append(@, [op |-> t, pri |-> BRACKET])]
    BY <1>5 DEF Open
  <2> DEFINE o == [op |-> t, pri |-> BRACKET]
  <2>2. e' = [e EXCEPT !.ops = Append(@, o)]
    BY <2>1
  <2> HIDE DEF o
  <2>3. /\ DOMAIN e' = DOMAIN e /\ e'.args = e.args /\ e'.ops = Append(e.ops, o)
        /\ e'.argbase = e.argbase /\ e'.opbase = e.opbase
    BY <1>1, <2>2 DEF Sound
  <2>4. Sound(e') /\ Keeps(e, e')
    BY <1>1, <2>3, StackOpSound
  <2>. QED
    BY <2>1, <2>4 DEF Stays
<1>6. CASE Close
  <2> DEFINE s == Reduce(e, 1)
  <2>1. PICK t \in {"]", ")"} \cap Marks :
          /\ Took(t, calls[1])
          /\ e' = IF HasOp(s) THEN [s EXCEPT !.ops = Pop(@)] ELSE s
    BY <1>6 DEF Close
  <2>2. Sound(s) /\ Keeps(e, s)
    BY <1>1, ReduceSound
  <2> HIDE DEF s
  <2>3. Sound(e') /\ Keeps(e, e')
    BY <2>1, <2>2, CloseSound, KeepsChain
  <2>. QED
    BY <2>1, <2>3 DEF Stays
<1>. QED
  BY <1>2, <1>3, <1>4, <1>5, <1>6

LEMMA ModeStays ==
  ASSUME StackInv, operand = <<>>, SameCall(calls[1], calls[1]),
         Indirect \/ EndIndirect \/ EndIndirectY \/ Immediate \/ Index
  PROVE  \E t, frame : Stays(t, frame)
<1>1. Sound(e) /\ GoodFrame(calls[1]) /\ Keeps(e, e)
  BY KeepsItself DEF StackInv, SameCall
<1>2. CASE Indirect
  BY <1>1, <1>2, SetModeSame DEF Indirect, Stays
<1>3. CASE EndIndirect
  BY <1>1, <1>3 DEF EndIndirect, Stays
<1>4. CASE EndIndirectY
  BY <1>1, <1>4, SetModeSame DEF EndIndirectY, Stays
<1>5. CASE Immediate
  <2> DEFINE f == SetMode("IMM8")
             g == [f EXCEPT !.wantmode = FALSE]
  <2>1. Took("#", g) /\ e' = e
    BY <1>5 DEF Immediate
  <2>2. SameCall(calls[1], f)
    BY <1>1, SetModeSame
  <2> HIDE DEF f
  <2>3. SameCall(calls[1], g)
    BY <2>2 DEF SameCall, GoodFrame
  <2>. QED
    BY <1>1, <2>1, <2>3 DEF Stays
<1>6. CASE Index
  <2>1. PICK t \in {",x", ",y"} \cap Marks :
          /\ Took(t, SetMode(CASE t = ",x" /\ Cur.mode = "INDWORD" -> "INDBYTEX"
                               [] t = ",x" /\ Cur.mode # "INDWORD" -> "0X"
                               [] t = ",y" -> "0Y"))
          /\ e' = AfterComma(e)
    BY <1>6 DEF Index
  <2> DEFINE m == CASE t = ",x" /\ Cur.mode = "INDWORD" -> "INDBYTEX"
                    [] t = ",x" /\ Cur.mode # "INDWORD" -> "0X"
                    [] t = ",y" -> "0Y"
  <2>2. Took(t, SetMode(m))
    BY <2>1
  <2> HIDE DEF m
  <2>3. SameCall(calls[1], SetMode(m))
    BY <1>1, SetModeSame
  <2>4. Sound(e') /\ Keeps(e, e')
    BY <1>1, <2>1, AfterCommaSound
  <2>. QED
    BY <2>2, <2>3, <2>4 DEF Stays
<1>. QED
  BY <1>2, <1>3, <1>4, <1>5, <1>6

LEMMA CommaStays ==
  ASSUME StackInv, operand = <<>>, SameCall(calls[1], calls[1]), Comma
  PROVE  \E t, frame : Stays(t, frame)
<1> DEFINE s == AfterComma(e)
           v == Top(s.args)
           item == [Cur EXCEPT !.n = v.n, !.unk = v.unk]
           l == WithCur(calls[1].list, item)
           f == [calls[1] EXCEPT !.list = Append(l, NewSymbol)]
           n == Truth(Len(s.args) - 1 > s.argbase)
<1>1. /\ Took(",", f)
      /\ e' = [s EXCEPT !.args = Pop(@), !.errors = @ + n]
  BY DEF Comma
<1>2. /\ Sound(s) /\ Keeps(e, s)
      /\ s.args = ReduceAll(e).args
  BY AfterCommaSound DEF StackInv
<1>3. Len(s.args) > s.argbase
  BY <1>2 DEF Comma, Reads, Punctuated, Keeps, SameBelow
<1> HIDE DEF s, item, n
<1>4. Sound(e') /\ Keeps(e, e')
  BY <1>1, <1>2, <1>3, TakeSound, KeepsChain
<1>5. Listed(l) /\ l # <<>> /\ Len(l) \in Nat /\ Len(l) # 0
  BY ExceptListed, ListedFacts DEF WithCur, SameCall, GoodFrame
<1> HIDE DEF l
<1>6. Listed(Append(l, NewSymbol)) /\ Len(Append(l, NewSymbol)) = Len(l) + 1
  BY <1>5, AppendListed
<1>7. Append(l, NewSymbol) # <<>>
  BY <1>5, <1>6, ListedFacts
<1>8. SameCall(calls[1], f)
  BY <1>6, <1>7 DEF SameCall, GoodFrame
<1>. QED
  BY <1>1, <1>4, <1>8 DEF Stays

-----------------------------------------------------------------------------
(* What a step does to the calls around the innermost one.                 *)
OuterKept ==
  Nested =>
    /\ Cut(e'.args, e.argbase) = Cut(e.args, e.argbase)
    /\ Len(calls') >= Len(calls) => Cut(e'.ops, e.opbase) = Cut(e.ops, e.opbase)
    /\ Len(calls') < Len(calls) => Len(e'.args) = e.argbase + 1

LEMMA StaysFits ==
  ASSUME StackInv, \E t, frame : Stays(t, frame)
  PROVE  StackInv' /\ OuterKept
<1>1. PICK t, frame : Stays(t, frame)
  OBVIOUS
<1>2. StackInv' /\ Len(calls') = Len(calls)
  BY <1>1, TookFits DEF Stays
<1>3. Sound(e) /\ Sound(e') /\ Keeps(e, e') /\ Len(calls) \in Nat
  BY <1>1, ListedFacts DEF Stays, StackInv, CallsFit
<1>4. e.argbase \in 0..Len(e.args) /\ e.argbase \in 0..Len(e'.args)
  BY <1>3 DEF Sound, Keeps, SameBelow
<1>5. e.opbase \in 0..Len(e.ops) /\ e.opbase \in 0..Len(e'.ops)
  BY <1>3 DEF Sound, Keeps, SameBelow
<1>6. Cut(e'.args, e.argbase) = Cut(e.args, e.argbase)
  BY <1>3, <1>4, SameCut DEF Sound, Keeps, SameBelow
<1>7. Cut(e'.ops, e.opbase) = Cut(e.ops, e.opbase)
  BY <1>3, <1>5, SameCut DEF Sound, Keeps, SameBelow
<1>. QED
  BY <1>2, <1>3, <1>6, <1>7 DEF OuterKept

LEMMA OutermostFrame ==
  ASSUME StackInv, operand = <<>>
  PROVE  /\ Listed(calls) /\ Len(calls) \in Nat \ {0}
         /\ calls # <<>> /\ GoodFrame(calls[1])
         /\ calls[1].oldargbase \in 0..e.argbase /\ calls[1].oldopbase \in 0..e.opbase
         /\ Sound(e)
<1>1. Listed(calls) /\ Len(calls) \in Nat \ {0} /\ calls # <<>> /\ Sound(e)
  BY ListedFacts DEF StackInv, CallsFit
<1>2. 1 \in 1..Len(calls)
  BY <1>1
<1>3. calls[1].oldargbase \in 0..ArgBase(1) /\ calls[1].oldopbase \in 0..OpBase(1)
  BY <1>2 DEF StackInv, CallsFit, BasesNest
<1>4. ArgBase(1) = e.argbase /\ OpBase(1) = e.opbase
  BY DEF ArgBase, OpBase
<1>. QED
  BY <1>1, <1>2, <1>3, <1>4 DEF StackInv, CallsFit

(* A push on the calls, seen from its second place on.                     *)
LEMMA PushCall ==
  ASSUME NEW c, NEW f, NEW g, Listed(c), c # <<>>
  PROVE  /\ Listed(<<f, g>> \o Tail(c)) /\ Len(<<f, g>> \o Tail(c)) = Len(c) + 1
         /\ (<<f, g>> \o Tail(c))[1] = f /\ (<<f, g>> \o Tail(c))[2] = g
         /\ \A i \in 3..(Len(c) + 1) : (<<f, g>> \o Tail(c))[i] = c[i - 1]
<1> DEFINE S == {c[i] : i \in DOMAIN c} \cup {f, g}
           p == <<f, g>>
           t == Tail(c)
<1>1. c \in Seq(S) /\ Len(c) \in Nat \ {0}
  BY SeqMonotonic, ListedFacts DEF Listed
<1>2. p \in Seq(S) /\ Len(p) = 2 /\ p[1] = f /\ p[2] = g
  OBVIOUS
<1> HIDE DEF S
<1>3. t \in Seq(S) /\ Len(t) = Len(c) - 1 /\ \A i \in 1..Len(t) : t[i] = c[i + 1]
  BY <1>1, HeadTailProperties
<1> HIDE DEF p, t
<1>4. /\ p \o t \in Seq(S)
      /\ Len(p \o t) = Len(p) + Len(t)
      /\ \A i \in 1..(Len(p) + Len(t)) :
           (p \o t)[i] = IF i <= Len(p) THEN p[i] ELSE t[i - Len(p)]
  BY <1>2, <1>3, ConcatProperties
<1>5. Listed(p \o t)
  BY <1>4, SeqIsListed
<1>6. Len(p \o t) = Len(c) + 1
  BY <1>1, <1>2, <1>3, <1>4
<1>7. (p \o t)[1] = f /\ (p \o t)[2] = g
  BY <1>1, <1>2, <1>3, <1>4
<1>8. ASSUME NEW i \in 3..(Len(c) + 1)
      PROVE  (p \o t)[i] = c[i - 1]
  <2>1. i - 2 \in 1..Len(t) /\ ~(i <= Len(p)) /\ i \in 1..(Len(p) + Len(t))
    BY <1>1, <1>2, <1>3
  <2>2. (p \o t)[i] = t[i - 2]
    BY <1>2, <1>4, <2>1
  <2>3. t[i - 2] = c[i - 2 + 1]
    BY <1>3, <2>1
  <2>. QED
    BY <2>2, <2>3
<1>. QED
  BY <1>5, <1>6, <1>7, <1>8 DEF p, t

(* A new call starts above everything.                                     *)
LEMMA CallFits ==
  ASSUME StackInv, operand = <<>>, CallEqm
  PROVE  StackInv' /\ OuterKept
<1>1. PICK t \in Names :
        /\ calls' = <<Frame(e, table[t].body, FALSE),
                      IF Nested THEN [calls[1] EXCEPT !.str = Tail(@)] ELSE calls[1]>> \o Tail(calls)
        /\ e' = [Entered(e) EXCEPT !.evals = @ + Truth(table[t].unk)]
        /\ operand' = operand
  BY DEF CallEqm
<1> DEFINE f == Frame(e, table[t].body, FALSE)
           g == IF Nested THEN [calls[1] EXCEPT !.str = Tail(@)] ELSE calls[1]
<1>2. /\ Listed(calls) /\ Len(calls) \in Nat \ {0} /\ calls # <<>> /\ GoodFrame(calls[1])
      /\ Sound(e)
  BY OutermostFrame
<1>3. /\ GoodFrame(g) /\ g.oldargbase = calls[1].oldargbase /\ g.oldopbase = calls[1].oldopbase
  BY <1>2 DEF GoodFrame
<1>4. /\ GoodFrame(f) /\ f.oldargbase = e.argbase /\ f.oldopbase = e.opbase
  <2> DEFINE l == <<NewSymbol>>
  <2>1. Listed(l) /\ l # <<>>
    <3>1. l \in Seq({NewSymbol}) /\ Len(l) = 1
      OBVIOUS
    <3>. QED
      BY <3>1, SeqIsListed, ListedFacts
  <2> DEFINE b == table[t].body
  <2> HIDE DEF l
  <2>2. f = [str |-> b, wantmode |-> FALSE, list |-> l,
             oldargbase |-> e.argbase, oldopbase |-> e.opbase]
    BY DEF Frame, l
  <2> HIDE DEF f, b
  <2>. QED
    BY <2>1, <2>2 DEF GoodFrame
<1> HIDE DEF f, g
<1>5. /\ Listed(calls') /\ Len(calls') = Len(calls) + 1 /\ calls'[1] = f /\ calls'[2] = g
      /\ \A i \in 3..(Len(calls) + 1) : calls'[i] = calls[i - 1]
  BY <1>1, <1>2, PushCall DEF f, g
<1>6. /\ e'.args = e.args /\ e'.ops = e.ops /\ DOMAIN e' = DOMAIN e
      /\ e'.argbase = Len(e.args) /\ e'.opbase = Len(e.ops)
  <2> DEFINE x == Truth(table[t].unk)
  <2>1. e' = [Entered(e) EXCEPT !.evals = @ + x]
    BY <1>1
  <2> HIDE DEF x
  <2>. QED
    BY <1>2, <2>1 DEF Entered, Sound
<1>7. Sound(e')
  BY <1>2, <1>6, SoundNumbers DEF Sound
<1>8. \A i \in 1..Len(calls) : /\ calls'[i + 1].oldargbase = calls[i].oldargbase
                               /\ calls'[i + 1].oldopbase = calls[i].oldopbase
                               /\ GoodFrame(calls'[i + 1])
  <2> TAKE i \in 1..Len(calls)
  <2>1. CASE i = 1
    BY <1>3, <1>5, <2>1
  <2>2. CASE i # 1
    <3>1. i + 1 \in 3..(Len(calls) + 1) /\ i + 1 - 1 = i
      BY <1>2, <2>2
    <3>2. calls'[i + 1] = calls[i]
      BY <1>5, <3>1
    <3>. QED
      BY <3>2 DEF StackInv, CallsFit
  <2>. QED
    BY <2>1, <2>2
<1>9. \A i \in 1..Len(calls) : ArgBase(i + 1)' = ArgBase(i) /\ OpBase(i + 1)' = OpBase(i)
  <2> TAKE i \in 1..Len(calls)
  <2>1. /\ ArgBase(i + 1)' = calls'[i].oldargbase
        /\ OpBase(i + 1)' = calls'[i].oldopbase
    <3>1. i + 1 # 1 /\ i + 1 - 1 = i
      BY <1>2
    <3>. QED
      BY <3>1 DEF ArgBase, OpBase
  <2>2. CASE i = 1
    BY <1>4, <1>5, <2>1, <2>2 DEF ArgBase, OpBase
  <2>3. CASE i # 1
    <3>1. i - 1 \in 1..Len(calls) /\ i - 1 + 1 = i
      BY <1>2, <2>3
    <3>2. /\ calls'[i].oldargbase = calls[i - 1].oldargbase
          /\ calls'[i].oldopbase = calls[i - 1].oldopbase
      BY <1>8, <3>1
    <3>. QED
      BY <2>1, <2>3, <3>2 DEF ArgBase, OpBase
  <2>. QED
    BY <2>2, <2>3
<1>10. ASSUME NEW j \in 1..Len(calls')
       PROVE  /\ GoodFrame(calls'[j])
              /\ calls'[j].oldargbase \in 0..ArgBase(j)'
              /\ calls'[j].oldopbase \in 0..OpBase(j)'
  <2>1. CASE j = 1
    <3>1. ArgBase(j)' = e'.argbase /\ OpBase(j)' = e'.opbase
      BY <2>1 DEF ArgBase, OpBase
    <3>. QED
      BY <1>2, <1>4, <1>5, <1>6, <2>1, <3>1, SoundNumbers
  <2>2. CASE j # 1
    <3> DEFINE i == j - 1
    <3>1. i \in 1..Len(calls) /\ i + 1 = j
      BY <1>2, <1>5, <2>2
    <3> HIDE DEF i
    <3>2. calls[i].oldargbase \in 0..ArgBase(i) /\ calls[i].oldopbase \in 0..OpBase(i)
      BY <3>1 DEF StackInv, CallsFit, BasesNest
    <3>3. ArgBase(i + 1)' = ArgBase(i) /\ OpBase(i + 1)' = OpBase(i)
      BY <1>9, <3>1
    <3>4. /\ calls'[i + 1].oldargbase = calls[i].oldargbase
          /\ calls'[i + 1].oldopbase = calls[i].oldopbase
          /\ GoodFrame(calls'[i + 1])
      BY <1>8, <3>1
    <3>. QED
      BY <3>1, <3>2, <3>3, <3>4
  <2>. QED
    BY <2>1, <2>2
<1>11. BasesNest'
  BY <1>10 DEF BasesNest
<1>12. calls' # <<>>
  BY <1>2, <1>5, ListedFacts
<1>13. OutermostEmpty'
  <2>1. PICK n \in Nat : n = Len(calls)
    BY <1>2
  <2>2. n \in 1..Len(calls) /\ Len(calls') = n + 1
    BY <1>2, <1>5, <2>1
  <2>3. ArgBase(n + 1)' = ArgBase(n) /\ OpBase(n + 1)' = OpBase(n)
    BY <1>9, <2>2
  <2>4. ArgBase(n) = 0 /\ OpBase(n) = 0
    BY <1>2, <2>1 DEF StackInv, CallsFit, OutermostEmpty
  <2>. QED
    BY <2>2, <2>3, <2>4 DEF OutermostEmpty, ArgBase, OpBase
<1>14. CallsFit'
  BY <1>1, <1>5, <1>10, <1>11, <1>12, <1>13 DEF CallsFit
<1>15. StacksRestored'
  BY <1>1 DEF StacksRestored
<1>16. OuterKept
  BY <1>2, <1>5, <1>6 DEF OuterKept
<1>. QED
  BY <1>7, <1>14, <1>15, <1>16 DEF StackInv

(* The end of a call: what is left is as it was when the call began.       *)
LEMMA LeaveSound ==
  ASSUME NEW s, NEW f, Sound(s),
         f.oldargbase \in 0..s.argbase, f.oldopbase \in 0..s.opbase
  PROVE  /\ Sound(Leave(s, f))
         /\ Leave(s, f).argbase = f.oldargbase /\ Leave(s, f).opbase = f.oldopbase
         /\ Leave(s, f).args = Cut(s.args, s.argbase) /\ Leave(s, f).ops = Cut(s.ops, s.opbase)
         /\ Len(Leave(s, f).args) = s.argbase /\ Len(Leave(s, f).ops) = s.opbase
<1> DEFINE n == Truth(Len(s.args) > s.argbase + 1)
           t == Leave(s, f)
<1>1. /\ DOMAIN t = DOMAIN s
      /\ t.argbase = f.oldargbase /\ t.opbase = f.oldopbase
      /\ t.args = Cut(s.args, s.argbase) /\ t.ops = Cut(s.ops, s.opbase)
  <2>1. t = [s EXCEPT !.args = Cut(@, s.argbase), !.ops = Cut(@, s.opbase),
                      !.argbase = f.oldargbase, !.opbase = f.oldopbase, !.errors = @ + n]
    BY DEF Leave
  <2> HIDE DEF n, t
  <2>. QED
    BY <2>1 DEF Sound
<1> HIDE DEF n, t
<1>2. Listed(t.args) /\ Len(t.args) = s.argbase
  BY <1>1, CutListed DEF Sound
<1>3. Listed(t.ops) /\ Len(t.ops) = s.opbase
  BY <1>1, CutListed DEF Sound
<1>4. Sound(t)
  BY <1>1, <1>2, <1>3 DEF Sound
<1>. QED
  BY <1>1, <1>2, <1>3, <1>4 DEF t

(* A call of eval on the string of an EQM symbol hands over one value.     *)
LEMMA ReturnEqmFits ==
  ASSUME StackInv, operand = <<>>, ReturnEqm
  PROVE  StackInv' /\ OuterKept
<1> DEFINE s == ReduceAll(e)
           f == calls[1]
           l == Leave(s, f)
           base == Head(Returned(s))
           v == [n |-> base.n, unk |-> base.unk]
<1>1. e' = Stackarg(l, v) /\ calls' = Tail(calls) /\ operand' = operand
  BY DEF ReturnEqm
<1> HIDE DEF v
<1>2. /\ Listed(calls) /\ Len(calls) \in Nat \ {0} /\ calls # <<>>
      /\ f.oldargbase \in 0..e.argbase /\ f.oldopbase \in 0..e.opbase
      /\ Sound(e)
  BY OutermostFrame
<1>3. Sound(s) /\ Keeps(e, s)
  BY <1>2, ReduceSound DEF ReduceAll
<1>4. Len(calls) > 1
  BY DEF ReturnEqm, Nested
<1> HIDE DEF s
<1>5. s.argbase = e.argbase /\ s.opbase = e.opbase
  BY <1>3 DEF Keeps, SameBelow
<1>6. /\ Sound(l)
      /\ l.argbase = f.oldargbase /\ l.opbase = f.oldopbase
      /\ l.args = Cut(s.args, e.argbase) /\ l.ops = Cut(s.ops, e.opbase)
      /\ Len(l.args) = e.argbase /\ Len(l.ops) = e.opbase
  BY <1>2, <1>3, <1>5, LeaveSound
<1> HIDE DEF l, f
<1>7. /\ Sound(e') /\ Len(e'.args) = e.argbase + 1
      /\ SameBelow(l, e', e.argbase)
  BY <1>1, <1>6, StackargSound
<1>8. /\ e'.argbase = calls[1].oldargbase /\ e'.opbase = calls[1].oldopbase
  BY <1>6, <1>7 DEF SameBelow, f
<1>9. Cut(e'.args, e.argbase) = Cut(e.args, e.argbase)
  <2>1. e.argbase \in Nat /\ e.argbase <= Len(e.args) /\ e.argbase <= Len(s.args) /\ Len(s.args) \in Nat
    BY <1>2, <1>3, <1>5, SoundNumbers
  <2>2. e.argbase \in 0..Len(s.args) /\ e.argbase \in 0..Len(e.args) /\ e.argbase \in 0..Len(e'.args)
    BY <1>7, <2>1
  <2>3. \A i \in 1..e.argbase : Cut(s.args, e.argbase)[i] = s.args[i]
    BY <1>3, <2>2, CutListed DEF Sound
  <2>4. \A i \in 1..e.argbase : e'.args[i] = e.args[i]
    BY <1>3, <1>6, <1>7, <2>3 DEF SameBelow, Keeps
  <2>. QED
    BY <1>2, <1>7, <2>2, <2>4, SameCut DEF Sound
<1>10. /\ Listed(calls') /\ Len(calls') = Len(calls) - 1
       /\ \A i \in 1..Len(calls') : calls'[i] = calls[i + 1]
  <2> DEFINE S == {calls[i] : i \in DOMAIN calls}
  <2>1. calls \in Seq(S)
    BY <1>2 DEF Listed
  <2> HIDE DEF S
  <2>2. /\ calls' \in Seq(S) /\ Len(calls') = Len(calls) - 1
        /\ \A i \in 1..Len(calls') : calls'[i] = calls[i + 1]
    BY <1>1, <1>2, <2>1, HeadTailProperties
  <2>. QED
    BY <2>2, SeqIsListed
<1>11. \A i \in 1..Len(calls') : ArgBase(i)' = ArgBase(i + 1) /\ OpBase(i)' = OpBase(i + 1)
  <2> TAKE i \in 1..Len(calls')
  <2>1. CASE i = 1
    <3>1. i + 1 - 1 = 1 /\ i + 1 # 1
      BY <2>1
    <3>. QED
      BY <1>8, <2>1, <3>1 DEF ArgBase, OpBase
  <2>2. CASE i # 1
    <3>1. i - 1 \in 1..Len(calls') /\ i - 1 + 1 = i /\ i + 1 - 1 = i /\ i + 1 # 1
      BY <1>2, <1>10, <2>2
    <3>2. calls'[i - 1] = calls[i]
      BY <1>10, <3>1
    <3>. QED
      BY <2>2, <3>1, <3>2 DEF ArgBase, OpBase
  <2>. QED
    BY <2>1, <2>2
<1>12. ASSUME NEW i \in 1..Len(calls')
       PROVE  /\ GoodFrame(calls'[i])
              /\ calls'[i].oldargbase \in 0..ArgBase(i)'
              /\ calls'[i].oldopbase \in 0..OpBase(i)'
  <2>1. i + 1 \in 1..Len(calls)
    BY <1>2, <1>10
  <2>2. /\ GoodFrame(calls[i + 1])
        /\ calls[i + 1].oldargbase \in 0..ArgBase(i + 1)
        /\ calls[i + 1].oldopbase \in 0..OpBase(i + 1)
    BY <2>1 DEF StackInv, CallsFit, BasesNest
  <2>. QED
    BY <1>10, <1>11, <2>2
<1>13. BasesNest'
  BY <1>12 DEF BasesNest
<1>14. calls' # <<>>
  BY <1>2, <1>4, <1>10, ListedFacts
<1>15. OutermostEmpty'
  <2>1. PICK n \in Nat : n = Len(calls')
    BY <1>2, <1>10, <1>4
  <2>2. n \in 1..Len(calls') /\ n + 1 = Len(calls)
    BY <1>2, <1>4, <1>10, <2>1
  <2>3. ArgBase(n)' = ArgBase(n + 1) /\ OpBase(n)' = OpBase(n + 1)
    BY <1>11, <2>2
  <2>4. ArgBase(n + 1) = 0 /\ OpBase(n + 1) = 0
    BY <1>2, <2>2 DEF StackInv, CallsFit, OutermostEmpty
  <2>. QED
    BY <2>1, <2>3, <2>4 DEF OutermostEmpty, ArgBase, OpBase
<1>16. CallsFit'
  BY <1>1, <1>10, <1>12, <1>13, <1>14, <1>15 DEF CallsFit
<1>17. StacksRestored'
  BY <1>1 DEF StacksRestored
<1>18. ~(Len(calls') >= Len(calls))
  BY <1>2, <1>10
<1>. QED
  BY <1>7, <1>9, <1>16, <1>17, <1>18 DEF StackInv, OuterKept

(* The outermost call leaves nothing. *)
LEMMA ReturnFits ==
  ASSUME StackInv, operand = <<>>, Return
  PROVE  StackInv' /\ OuterKept
<1> DEFINE s == ReduceAll(e)
           f == calls[1]
           l == Leave(s, f)
<1>1. /\ e' = l /\ calls' = <<>> /\ operand' = Returned(s) /\ ~Nested
  BY DEF Return
<1>2. /\ Listed(calls) /\ Len(calls) \in Nat \ {0} /\ calls # <<>> /\ GoodFrame(f)
      /\ f.oldargbase \in 0..e.argbase /\ f.oldopbase \in 0..e.opbase
      /\ Sound(e)
  BY OutermostFrame
<1>3. Sound(s) /\ s.argbase = e.argbase /\ s.opbase = e.opbase
  BY <1>2, ReduceSound DEF ReduceAll, Keeps, SameBelow
<1>4. Len(calls) = 1
  BY <1>1, <1>2 DEF Nested
<1>5. e.argbase = 0 /\ e.opbase = 0
  BY <1>2, <1>4 DEF StackInv, CallsFit, OutermostEmpty, ArgBase, OpBase
<1>6. operand' # <<>>
  <2> DEFINE list == f.list
             v == Top(s.args)
             cur == [list EXCEPT ![Len(list)] = [@ EXCEPT !.n = v.n, !.unk = v.unk]]
  <2>1. operand' \in {list, cur, [cur EXCEPT ![1].mode = "BYTEADR"]}
    BY <1>1 DEF Returned
  <2>2. Listed(list) /\ list # <<>>
    BY <1>2 DEF GoodFrame
  <2>3. 1 \in DOMAIN list
    BY <2>2, ListedFacts
  <2> HIDE DEF list
  <2>4. DOMAIN cur = DOMAIN list /\ DOMAIN [cur EXCEPT ![1].mode = "BYTEADR"] = DOMAIN list
    OBVIOUS
  <2>. QED
    BY <2>1, <2>3, <2>4, EmptyDomain
<1> HIDE DEF s, f
<1>7. /\ Sound(l) /\ l.argbase = f.oldargbase /\ l.opbase = f.oldopbase
      /\ l.args = Cut(s.args, s.argbase) /\ l.ops = Cut(s.ops, s.opbase)
  BY <1>2, <1>3, LeaveSound
<1>8. f.oldargbase = 0 /\ f.oldopbase = 0
  BY <1>2, <1>5
<1>9. Cut(s.args, 0) = <<>> /\ Cut(s.ops, 0) = <<>>
  BY <1>3, EmptyCut DEF Sound
<1> HIDE DEF l
<1>10. e'.args = <<>> /\ e'.ops = <<>> /\ e'.argbase = 0 /\ e'.opbase = 0
  BY <1>1, <1>3, <1>5, <1>7, <1>8, <1>9
<1>11. StacksRestored'
  BY <1>10 DEF StacksRestored
<1>12. CallsFit'
  BY <1>1, <1>6, EmptyIsListed DEF CallsFit, BasesNest, OutermostEmpty
<1>. QED
  BY <1>1, <1>7, <1>11, <1>12 DEF StackInv, OuterKept

-----------------------------------------------------------------------------
LEMMA StackInit ==
  ASSUME ExprInit
  PROVE  StackInv
<1> DEFINE f == Frame(Idle, <<>>, wanted)
           l == <<NewSymbol>>
<1>1. /\ e.args = <<>> /\ e.ops = <<>> /\ e.argbase = 0 /\ e.opbase = 0
      /\ DOMAIN e = {"args", "ops", "argbase", "opbase", "lastwasop",
                     "errors", "fatals", "evals", "undef"}
  <2>1. Len(<<>>) = 0
    BY EmptyIsListed
  <2>. QED
    BY <2>1 DEF ExprInit, Entered, Idle
<1>2. Sound(e)
  BY <1>1, EmptyIsListed DEF Sound
<1>3. calls = <<f>> /\ operand = <<>>
  BY DEF ExprInit
<1>4. Listed(l) /\ l # <<>>
  <2>1. l \in Seq({NewSymbol}) /\ Len(l) = 1
    OBVIOUS
  <2>. QED
    BY <2>1, SeqIsListed, ListedFacts
<1> HIDE DEF l
<1>5. f = [str |-> <<>>, wantmode |-> wanted, list |-> l, oldargbase |-> 0, oldopbase |-> 0]
  BY DEF Frame, Idle, l
<1> HIDE DEF f
<1>6. GoodFrame(f) /\ f.oldargbase = 0 /\ f.oldopbase = 0
  BY <1>4, <1>5 DEF GoodFrame
<1>7. Listed(calls) /\ Len(calls) = 1 /\ calls[1] = f /\ calls # <<>>
  <2>1. calls \in Seq({f}) /\ Len(calls) = 1 /\ calls[1] = f
    BY <1>3
  <2>. QED
    BY <2>1, SeqIsListed, ListedFacts
<1>8. ArgBase(1) = 0 /\ OpBase(1) = 0
  BY <1>1 DEF ArgBase, OpBase
<1>9. BasesNest /\ OutermostEmpty
  BY <1>6, <1>7, <1>8 DEF BasesNest, OutermostEmpty
<1>10. CallsFit
  BY <1>3, <1>6, <1>7, <1>9 DEF CallsFit
<1>. QED
  BY <1>2, <1>3, <1>10 DEF StackInv, StacksRestored

(* Every token and every return keeps the invariant and what is outside.   *)
LEMMA ExprStep ==
  ASSUME StackInv, ExprNext
  PROVE  StackInv' /\ OuterKept
<1>1. operand = <<>>
  BY DEF ExprNext, Literal, NewName, OldName, CallEqm, UnaryOp, MisplacedTilde, BinaryOp, Open,
         Close, Indirect, EndIndirect, EndIndirectY, Immediate, Index, Comma, ReturnEqm, Return,
         Reads
<1>2. SameCall(calls[1], calls[1])
  BY <1>1, OutermostFrame DEF SameCall
<1>3. CASE Literal \/ NewName \/ OldName
  BY <1>1, <1>2, <1>3, ValueStays, StaysFits
<1>4. CASE UnaryOp \/ MisplacedTilde \/ BinaryOp \/ Open \/ Close
  BY <1>1, <1>2, <1>4, OperatorStays, StaysFits
<1>5. CASE Indirect \/ EndIndirect \/ EndIndirectY \/ Immediate \/ Index
  BY <1>1, <1>2, <1>5, ModeStays, StaysFits
<1>6. CASE Comma
  BY <1>1, <1>2, <1>6, CommaStays, StaysFits
<1>7. CASE CallEqm
  BY <1>1, <1>7, CallFits
<1>8. CASE ReturnEqm
  BY <1>1, <1>8, ReturnEqmFits
<1>9. CASE Return
  BY <1>1, <1>9, ReturnFits
<1>. QED
  BY <1>3, <1>4, <1>5, <1>6, <1>7, <1>8, <1>9 DEF ExprNext

LEMMA ExprStutter ==
  ASSUME StackInv, UNCHANGED exprvars
  PROVE  StackInv'
  BY DEF StackInv, CallsFit, BasesNest, OutermostEmpty, ArgBase, OpBase, StacksRestored, exprvars

(* The stacks of eval fit the calls that are active, in every state of     *)
(* every operand: the bases of nested calls are ordered, each stack        *)
(* reaches at least to its base, and the outermost call began with none.   *)
THEOREM StacksInductive == ExprSpec => []StackInv
<1>1. ExprInit => StackInv
  BY StackInit
<1>2. StackInv /\ [ExprNext]_exprvars => StackInv'
  BY ExprStep, ExprStutter
<1>. QED
  BY <1>1, <1>2, PTL DEF ExprSpec

(* However broken an operand is, and however deep the EQM symbols in it    *)
(* nest, eval leaves both stacks as it found them (exp.c:524-527): the     *)
(* next operand starts from nothing.                                       *)
THEOREM StacksAreRestored == ExprSpec => []StacksRestored
<1>1. StackInv => StacksRestored
  BY DEF StackInv
<1>. QED
  BY <1>1, StacksInductive, PTL

(* No step of the string of an EQM symbol, well formed or not, touches     *)
(* what the calls around it have on the stacks, and its end hands them one *)
(* value (exp.c:925-942).                                                  *)
THEOREM OuterIsKept == ExprSpec => NestedKeepsOuter
<1>1. StackInv /\ [ExprNext]_exprvars =>
        [Nested => /\ Cut(e'.args, e.argbase) = Cut(e.args, e.argbase)
                   /\ Len(calls') >= Len(calls) => Cut(e'.ops, e.opbase) = Cut(e.ops, e.opbase)
                   /\ Len(calls') < Len(calls) => Len(e'.args) = e.argbase + 1]_exprvars
  BY ExprStep DEF OuterKept
<1>. QED
  BY <1>1, StacksInductive, PTL DEF ExprSpec, NestedKeepsOuter

-----------------------------------------------------------------------------
(* Types: every value is a whole number with a flag, whatever is computed. *)
LEMMA TruthType ==
  ASSUME NEW p
  PROVE  Truth(p) \in {0, 1}
  BY DEF Truth

LEMMA PowerType ==
  ASSUME NEW n \in Nat
  PROVE  Power(n) \in Nat \ {0}
<1> DEFINE IsRun(f, m) == f = [k \in 0..m |-> IF k = 0 THEN 1 ELSE 2 * f[k - 1]]
           T == {m \in Nat : \E f : f = [k \in 0..m |-> IF k = 0 THEN 1 ELSE 2 * f[k - 1]]}
<1>1. 0 \in T
  <2> DEFINE f == [k \in 0..0 |-> 1]
  <2>1. IsRun(f, 0)
    OBVIOUS
  <2>. QED
    BY <2>1
<1>2. ASSUME NEW m \in Nat, m \in T
      PROVE  m + 1 \in T
  <2>1. PICK f : IsRun(f, m)
    BY <1>2
  <2> DEFINE g == [k \in 0..(m + 1) |-> IF k <= m THEN f[k] ELSE 2 * f[m]]
  <2>2. ASSUME NEW k \in 0..(m + 1)
        PROVE  g[k] = IF k = 0 THEN 1 ELSE 2 * g[k - 1]
    <3>1. CASE k = 0
      BY <2>1, <3>1
    <3>2. CASE k # 0 /\ k <= m
      <4>1. k \in 0..m /\ k - 1 \in 0..(m + 1) /\ k - 1 <= m
        BY <3>2
      <4>2. g[k] = f[k] /\ g[k - 1] = f[k - 1]
        BY <3>2, <4>1
      <4>3. f[k] = 2 * f[k - 1]
        BY <2>1, <3>2, <4>1
      <4>. QED
        BY <3>2, <4>2, <4>3
    <3>3. CASE k = m + 1
      BY <3>3
    <3>. QED
      BY <3>1, <3>2, <3>3
  <2>3. g = [k \in 0..(m + 1) |-> IF k = 0 THEN 1 ELSE 2 * g[k - 1]]
    BY <2>2
  <2> HIDE DEF g
  <2>4. m + 1 \in Nat
    OBVIOUS
  <2>. QED
    BY <2>3, <2>4, Zenon
<1> HIDE DEF T
<1>3. n \in T
  BY <1>1, <1>2, SetInduction
<1> DEFINE p == CHOOSE f : IsRun(f, n)
<1>4. IsRun(p, n)
  BY <1>3 DEF T
<1>5. Power(n) = p[n]
  BY DEF Power
<1> HIDE DEF p
<1> DEFINE U == {k \in Nat : k <= n => p[k] \in Nat \ {0}}
<1>6. 0 \in U
  BY <1>4
<1>7. ASSUME NEW k \in Nat, k \in U
      PROVE  k + 1 \in U
  <2> SUFFICES ASSUME k + 1 <= n PROVE p[k + 1] \in Nat \ {0}
    OBVIOUS
  <2>1. p[k] \in Nat \ {0}
    BY <1>7
  <2>2. p[k + 1] = 2 * p[k]
    BY <1>4
  <2>. QED
    BY <2>1, <2>2
<1> HIDE DEF U
<1>8. n \in U
  BY <1>6, <1>7, SetInduction
<1>. QED
  BY <1>5, <1>8 DEF U

LEMMA QuotType ==
  ASSUME NEW a \in Int, NEW b \in Int, b # 0
  PROVE  Quot(a, b) \in Int
  BY DEF Quot

LEMMA Apply1Type ==
  ASSUME NEW op \in UnaryTokens, NEW a \in Int
  PROVE  Apply1(op, a) \in Int
<1>1. Radix \in Nat \ {0}
  BY ExprAssumption
<1>2. a % Radix \in Int /\ (a \div Radix) % Radix \in Int
  BY <1>1
<1>. QED
  BY <1>2, TruthType DEF Apply1, UnaryTokens

LEMMA BitType ==
  ASSUME NEW a \in Int, NEW i \in Nat
  PROVE  Bit(a, i) \in {0, 1}
<1> DEFINE d == Power(i)
<1>1. d \in Nat \ {0}
  BY PowerType
<1> HIDE DEF d
<1>2. a \div d \in Int
  BY <1>1
<1>3. (a \div d) % 2 \in {0, 1}
  BY <1>2
<1>. QED
  BY <1>3 DEF Bit, d


Bits == {0, 1}

LEMMA BitSumsStep ==
  ASSUME NEW f, NEW a, NEW b
  PROVE  /\ BitSums(f, a, b)[0] = 0
         /\ \A i \in 1..Width : BitSums(f, a, b)[i] =
              BitSums(f, a, b)[i - 1] + Power(i - 1) * f[Bit(a, i - 1)][Bit(b, i - 1)]
<1> DEFINE G(s, i) == s + Power(i - 1) * f[Bit(a, i - 1)][Bit(b, i - 1)]
           T == {m \in Nat : \E h : h = [i \in 0..m |-> IF i = 0 THEN 0 ELSE G(h[i - 1], i)]}
<1>1. 0 \in T
  <2> DEFINE h == [i \in 0..0 |-> 0]
  <2> HIDE DEF G
  <2>1. h = [i \in 0..0 |-> IF i = 0 THEN 0 ELSE G(h[i - 1], i)]
    OBVIOUS
  <2> HIDE DEF h
  <2>. QED
    BY <2>1, Zenon
<1>2. ASSUME NEW m \in Nat, m \in T
      PROVE  m + 1 \in T
  <2> HIDE DEF G
  <2>1. PICK h : h = [i \in 0..m |-> IF i = 0 THEN 0 ELSE G(h[i - 1], i)]
    BY <1>2
  <2> DEFINE g == [i \in 0..(m + 1) |-> IF i <= m THEN h[i] ELSE G(h[m], i)]
  <2>2. ASSUME NEW i \in 0..(m + 1)
        PROVE  g[i] = IF i = 0 THEN 0 ELSE G(g[i - 1], i)
    <3>1. CASE i = 0
      BY <2>1, <3>1
    <3>2. CASE i # 0 /\ i <= m
      <4>1. i \in 0..m /\ i - 1 \in 0..(m + 1) /\ i - 1 <= m
        BY <3>2
      <4>2. g[i] = h[i] /\ g[i - 1] = h[i - 1]
        BY <3>2, <4>1
      <4>3. h[i] = G(h[i - 1], i)
        BY <2>1, <3>2, <4>1
      <4>. QED
        BY <3>2, <4>2, <4>3
    <3>3. CASE i = m + 1
      BY <3>3
    <3>. QED
      BY <3>1, <3>2, <3>3
  <2>3. g = [i \in 0..(m + 1) |-> IF i = 0 THEN 0 ELSE G(g[i - 1], i)]
    BY <2>2
  <2> HIDE DEF g
  <2>4. m + 1 \in Nat
    OBVIOUS
  <2>. QED
    BY <2>3, <2>4, Zenon
<1> HIDE DEF T
<1>3. Width \in Nat
  BY ExprAssumption
<1>4. Width \in T
  BY <1>1, <1>2, <1>3, SetInduction
<1> DEFINE IsSum(h) == h = [i \in 0..Width |-> IF i = 0 THEN 0 ELSE
                             h[i - 1] + Power(i - 1) * f[Bit(a, i - 1)][Bit(b, i - 1)]]
<1>5. \E h : IsSum(h)
  BY <1>4, Zenon DEF T
<1>6. BitSums(f, a, b) = CHOOSE h : IsSum(h)
  BY DEF BitSums
<1>7. IsSum(BitSums(f, a, b))
  BY <1>5, <1>6, Zenon
<1>. QED
  BY <1>3, <1>7

LEMMA Bitwise2Type ==
  ASSUME NEW f, NEW a \in Int, NEW b \in Int, \A x, y \in Bits : f[x][y] \in Int
  PROVE  Bitwise2(f, a, b) \in Int
<1> DEFINE s == BitSums(f, a, b)
           T == {k \in Nat : k <= Width => s[k] \in Int}
<1>1. Width \in Nat
  BY ExprAssumption
<1>2. s[0] = 0 /\ \A i \in 1..Width : s[i] =
        s[i - 1] + Power(i - 1) * f[Bit(a, i - 1)][Bit(b, i - 1)]
  BY BitSumsStep
<1> HIDE DEF s
<1>3. 0 \in T
  BY <1>2
<1>4. ASSUME NEW k \in Nat, k \in T
      PROVE  k + 1 \in T
  <2> SUFFICES ASSUME k + 1 <= Width PROVE s[k + 1] \in Int
    OBVIOUS
  <2>1. s[k] \in Int
    BY <1>1, <1>4
  <2>2. s[k + 1] = s[k] + Power(k) * f[Bit(a, k)][Bit(b, k)]
    <3>1. k + 1 \in 1..Width /\ k + 1 - 1 = k
      BY <1>1
    <3>. QED
      BY <1>2, <3>1
  <2>3. Power(k) \in Int /\ f[Bit(a, k)][Bit(b, k)] \in Int
    BY PowerType, BitType DEF Bits
  <2>. QED
    BY <2>1, <2>2, <2>3
<1> HIDE DEF T
<1>5. s[Width] \in Int
  <2>1. Width \in T
    BY <1>1, <1>3, <1>4, SetInduction
  <2>. QED
    BY <1>1, <2>1 DEF T
<1>6. Power(Width) \in Int /\ f[Truth(a < 0)][Truth(b < 0)] \in Int
  BY <1>1, PowerType, TruthType DEF Bits
<1>7. Bitwise2(f, a, b) = s[Width] - Power(Width) * f[Truth(a < 0)][Truth(b < 0)]
  BY DEF Bitwise2, s
<1> HIDE DEF s
<1>. QED
  BY <1>5, <1>6, <1>7

LEMMA Apply2Type ==
  ASSUME NEW op \in BinaryTokens, NEW a \in Int, NEW b \in Int
  PROVE  Apply2(op, a, b) \in Int
<1>1. /\ Bitwise2(And, a, b) \in Int /\ Bitwise2(Xor, a, b) \in Int /\ Bitwise2(Or, a, b) \in Int
  <2>1. \A x, y \in Bits : And[x][y] \in Int /\ Xor[x][y] \in Int /\ Or[x][y] \in Int
    BY DEF And, Xor, Or, Bits
  <2>. QED
    BY <2>1, Bitwise2Type
<1>2. CASE op \in {"*", "+", "-"}
  BY <1>2 DEF Apply2
<1>3. CASE op = "/"
  BY <1>3, QuotType DEF Apply2
<1>4. CASE op = "%"
  <2>1. b # 0 => a - b * Quot(a, b) \in Int
    BY QuotType
  <2>. QED
    BY <1>4, <2>1 DEF Apply2
<1>5. CASE op = "<<"
  <2>1. b >= 0 => a * Power(b) \in Int
    BY PowerType
  <2>. QED
    BY <1>5, <2>1 DEF Apply2
<1>6. CASE op = ">>"
  <2>1. ASSUME b >= 0 PROVE a \div Power(b) \in Int
    <3>1. Power(b) \in Nat \ {0}
      BY <2>1, PowerType
    <3>. QED
      BY <3>1
  <2>. QED
    BY <1>6, <2>1 DEF Apply2
<1>7. CASE op \in {"<", "<=", ">", ">=", "==", "!=", "&&", "||"}
  <2>1. \A p \in BOOLEAN : Truth(p) \in Int
    BY TruthType
  <2>. QED
    BY <1>7, <2>1, TruthType DEF Apply2
<1>8. CASE op \in {"&", "^", "|"}
  BY <1>1, <1>8 DEF Apply2
<1>9. CASE op = "?"
  BY <1>9 DEF Apply2
<1>. QED
  BY <1>2, <1>3, <1>4, <1>5, <1>6, <1>7, <1>8, <1>9 DEF BinaryTokens

Values == [n : Int, unk : BOOLEAN]

LEMMA Result2Type ==
  ASSUME NEW op \in BinaryTokens, NEW a \in Values, NEW b \in Values
  PROVE  Result2(op, a, b) \in Values
<1>1. Apply2(op, a.n, b.n) \in Int /\ (a.unk \/ b.unk) \in BOOLEAN
  BY Apply2Type DEF Values
<1> DEFINE r == Apply2(op, a.n, b.n)
           u == a.unk \/ b.unk
<1> HIDE DEF r, u
<1>2. r \in Int /\ u \in BOOLEAN
  BY <1>1 DEF r, u
<1>3. Result2(op, a, b) \in {Unknown(0), Known(0), Known(1), [n |-> 1, unk |-> u],
                             [n |-> 0, unk |-> u], [n |-> r, unk |-> u]}
  BY DEF Result2, r, u
<1>4. Unknown(0) \in Values /\ Known(0) \in Values /\ Known(1) \in Values
  BY DEF Values, Known, Unknown
<1>5. [n |-> 1, unk |-> u] \in Values /\ [n |-> 0, unk |-> u] \in Values
  BY <1>2 DEF Values
<1>6. [n |-> r, unk |-> u] \in Values
  BY <1>2 DEF Values
<1>. QED
  BY <1>3, <1>4, <1>5, <1>6


(* What the two stacks and the counters hold.                              *)
Entries == [op : UnaryTokens, pri : {UNARY}] \cup [op : BinaryTokens, pri : 10..20]
           \cup [op : {"[", "("}, pri : {BRACKET}]

Typed(s) ==
  /\ s.args \in Seq(Values) /\ s.ops \in Seq(Entries)
  /\ s.lastwasop \in BOOLEAN /\ s.undef \in BOOLEAN
  /\ s.errors \in Nat /\ s.fatals \in Nat /\ s.evals \in Nat

LEMMA CutType ==
  ASSUME NEW S, NEW s \in Seq(S), NEW n \in 0..Len(s)
  PROVE  Cut(s, n) \in Seq(S)
<1>1. Len(s) \in Nat /\ 1 \in Int /\ n \in Int
  BY LenProperties
<1>2. \A i \in 1..n : s[i] \in S
  BY <1>1, ElementOfSeq
<1>. QED
  BY <1>1, <1>2, SubSeqProperties DEF Cut

LEMMA TopType ==
  ASSUME NEW S, NEW s \in Seq(S), Len(s) > 0
  PROVE  Top(s) \in S
<1>1. Len(s) \in Nat
  BY LenProperties
<1>2. Len(s) \in 1..Len(s)
  BY <1>1
<1>. QED
  BY <1>2, ElementOfSeq DEF Top

LEMMA PopType ==
  ASSUME NEW S, NEW s \in Seq(S), Len(s) > 0
  PROVE  Pop(s) \in Seq(S)
<1>1. Len(s) \in Nat
  BY LenProperties
<1>2. Len(s) - 1 \in 0..Len(s)
  BY <1>1
<1>. QED
  BY <1>2, CutType DEF Pop

LEMMA EntryType ==
  ASSUME NEW o \in Entries
  PROVE  /\ o.pri \in {UNARY, BRACKET} \cup 10..20
         /\ o.pri = UNARY => o.op \in UnaryTokens
         /\ o.pri >= 1 /\ o.pri # UNARY => o.op \in BinaryTokens
  BY DEF Entries, UNARY, BRACKET

LEMMA PushTyped ==
  ASSUME NEW s, NEW v \in Values, Sound(s), Typed(s)
  PROVE  Typed(Push(s, v))
<1>1. Append(s.args, v) \in Seq(Values)
  BY AppendProperties DEF Typed
<1>. QED
  BY <1>1 DEF Push, Typed, Sound

LEMMA UnstackTyped ==
  ASSUME NEW s, Sound(s), Typed(s), HasOp(s), TopPri(s) = UNARY, Len(s.args) > 0
  PROVE  Result1(s) \in Values /\ Typed(Unstack(s))
<1>1. Len(s.ops) > 0
  BY SoundNumbers DEF HasOp
<1>2. Top(s.ops) \in Entries /\ Top(s.args) \in Values
  BY <1>1, TopType DEF Typed
<1>3. Apply1(Top(s.ops).op, Top(s.args).n) \in Int
  BY <1>2, EntryType, Apply1Type DEF TopPri, Values
<1>4. Result1(s) \in Values
  BY <1>2, <1>3 DEF Result1, Values
<1>5. Pop(s.args) \in Seq(Values) /\ Pop(s.ops) \in Seq(Entries)
  BY <1>1, PopType DEF Typed
<1>6. Append(Pop(s.args), Result1(s)) \in Seq(Values)
  BY <1>4, <1>5, AppendProperties
<1>. QED
  BY <1>4, <1>5, <1>6 DEF Unstack, Typed, Sound

LEMMA StackargTyped ==
  ASSUME NEW s, NEW v \in Values, Sound(s), Typed(s)
  PROVE  Typed(Stackarg(s, v))
<1> DEFINE p == Push(s, v)
           n == Len(s.ops)
           f == Absorptions(p)
           Fine(t) == Sound(t) /\ Typed(t) /\ Len(t.args) = Len(s.args) + 1 /\ t.argbase = s.argbase
           T == {k \in Nat : k <= n => Fine(f[k])}
<1>1. Fine(p) /\ p.ops = s.ops
  BY PushSound, PushTyped DEF SameBelow
<1>2. n \in Nat /\ Len(s.args) \in Nat /\ s.argbase \in Nat /\ s.argbase <= Len(s.args)
  BY SoundNumbers
<1>3. f[0] = p /\ \A k \in 1..n : f[k] = Absorbed(f[k - 1])
  BY <1>1, <1>2, AbsorptionsStep
<1> HIDE DEF f, p
<1>4. 0 \in T
  BY <1>1, <1>3
<1>5. ASSUME NEW k \in Nat, k \in T
      PROVE  k + 1 \in T
  <2> SUFFICES ASSUME k + 1 <= n PROVE Fine(f[k + 1])
    OBVIOUS
  <2>1. Fine(f[k])
    BY <1>2, <1>5
  <2>2. f[k + 1] = Absorbed(f[k])
    BY <1>2, <1>3
  <2> DEFINE t == f[k]
  <2>3. CASE ~(HasOp(t) /\ TopPri(t) = UNARY)
    BY <2>1, <2>2, <2>3 DEF Absorbed
  <2>4. CASE HasOp(t) /\ TopPri(t) = UNARY
    <3>1. Len(t.args) > t.argbase /\ Len(t.args) > 0
      BY <1>2, <2>1
    <3>2. Sound(Unstack(t)) /\ Len(Unstack(t).args) = Len(t.args) /\ Unstack(t).argbase = t.argbase
      BY <2>1, <2>4, <3>1, UnstackSound DEF SameBelow
    <3>3. Typed(Unstack(t))
      BY <2>1, <2>4, <3>1, UnstackTyped
    <3>4. f[k + 1] = Unstack(t)
      BY <2>2, <2>4 DEF Absorbed
    <3>. QED
      BY <2>1, <3>2, <3>3, <3>4
  <2>. QED
    BY <2>3, <2>4
<1> HIDE DEF T
<1>6. n \in T
  BY <1>2, <1>4, <1>5, SetInduction
<1>7. Fine(f[n])
  BY <1>2, <1>6 DEF T
<1>8. Stackarg(s, v) = f[n]
  BY DEF Stackarg, f, p
<1>. QED
  BY <1>7, <1>8
LEMMA EvaltopTyped ==
  ASSUME NEW s, Sound(s), Typed(s), HasOp(s), TopPri(s) >= 1
  PROVE  Typed(Evaltop(s))
<1> DEFINE op == Top(s.ops)
           n == Len(s.args)
           a == s.args[n - 1]
           b == s.args[n]
           known == ~a.unk /\ ~b.unk
           s1 == [s EXCEPT !.ops = Pop(@)]
           none == SyntaxError([s1 EXCEPT !.args = Cut(@, s.argbase)])
           one == [s1 EXCEPT !.args = Pop(@)]
           x == Truth(op.op = "/" /\ known /\ b.n = 0)
           u == op.op \in {"<<", ">>"} /\ known /\ b.n < 0
           two == [s1 EXCEPT !.args = Cut(@, n - 2), !.fatals = @ + x, !.undef = @ \/ u]
<1>1. /\ n \in Nat /\ Len(s.ops) \in Nat /\ s.argbase \in Nat /\ s.opbase \in Nat
      /\ s.argbase <= n
  BY SoundNumbers
<1>2. Len(s.ops) > 0 /\ Len(s.ops) - 1 \in s.opbase..Len(s.ops)
  BY SoundNumbers DEF HasOp
<1>3. op \in Entries /\ Pop(s.ops) \in Seq(Entries)
  BY <1>2, TopType, PopType DEF Typed
<1>4. Evaltop(s) = IF op.pri = UNARY
                   THEN IF n < s.argbase + 1 THEN none ELSE Stackarg(one, Result1(s))
                   ELSE IF n < s.argbase + 2 THEN none
                   ELSE Stackarg(two, Result2(op.op, a, b))
  BY DEF Evaltop
<1>5. Typed(none)
  <2>1. s.argbase \in 0..Len(s.args)
    BY DEF Sound
  <2>2. Cut(s.args, s.argbase) \in Seq(Values)
    BY <2>1, CutType DEF Typed
  <2>3. /\ none.args = Cut(s.args, s.argbase) /\ none.ops = Pop(s.ops)
        /\ none.lastwasop = s.lastwasop /\ none.undef = s.undef
        /\ none.errors = s.errors + 1 /\ none.fatals = s.fatals /\ none.evals = s.evals
    BY DEF SyntaxError, Sound
  <2> HIDE DEF none
  <2>. QED
    BY <1>3, <2>2, <2>3 DEF Typed
<1>6. ASSUME n >= s.argbase + 1, op.pri = UNARY
      PROVE  Typed(Stackarg(one, Result1(s)))
  <2> DEFINE m == n - 1
             k == Len(s.ops) - 1
  <2>1. /\ DOMAIN one = DOMAIN s /\ one.args = Cut(s.args, m) /\ one.ops = Cut(s.ops, k)
        /\ one.argbase = s.argbase /\ one.opbase = s.opbase
        /\ one.lastwasop = s.lastwasop /\ one.undef = s.undef
        /\ one.errors = s.errors /\ one.fatals = s.fatals /\ one.evals = s.evals
    BY DEF Pop, Sound
  <2>2. m \in s.argbase..Len(s.args) /\ m \in 0..Len(s.args) /\ Len(s.args) > 0
    BY <1>1, <1>6
  <2>3. k \in s.opbase..Len(s.ops)
    BY <1>2
  <2>4. Cut(s.ops, k) \in Seq(Entries)
    BY <1>3 DEF Pop
  <2> HIDE DEF one, m, k
  <2>5. Sound(one)
    BY <2>1, <2>2, <2>3, CutSound
  <2>6. Cut(s.args, m) \in Seq(Values)
    BY <2>2, CutType DEF Typed
  <2>7. Typed(one)
    BY <2>1, <2>4, <2>6 DEF Typed
  <2>8. Result1(s) \in Values
    BY <1>6, <2>2, UnstackTyped DEF TopPri
  <2>. QED
    BY <2>5, <2>7, <2>8, StackargTyped
<1>7. ASSUME n >= s.argbase + 2, op.pri # UNARY
      PROVE  Typed(Stackarg(two, Result2(op.op, a, b)))
  <2> DEFINE m == n - 2
             k == Len(s.ops) - 1
  <2> HIDE DEF x, u
  <2>1. /\ DOMAIN two = DOMAIN s /\ two.args = Cut(s.args, m) /\ two.ops = Cut(s.ops, k)
        /\ two.argbase = s.argbase /\ two.opbase = s.opbase
        /\ two.lastwasop = s.lastwasop /\ two.undef = (s.undef \/ u)
        /\ two.errors = s.errors /\ two.fatals = s.fatals + x /\ two.evals = s.evals
    BY DEF Pop, Sound
  <2>2. m \in s.argbase..Len(s.args) /\ m \in 0..Len(s.args)
    BY <1>1, <1>7
  <2>3. k \in s.opbase..Len(s.ops)
    BY <1>2
  <2>4. Cut(s.ops, k) \in Seq(Entries)
    BY <1>3 DEF Pop
  <2>5. x \in Nat
    BY TruthType DEF x
  <2>6. n \in 1..Len(s.args) /\ n - 1 \in 1..Len(s.args)
    BY <1>1, <1>7
  <2>7. a \in Values /\ b \in Values
    BY <2>6, ElementOfSeq DEF Typed
  <2>8. op.op \in BinaryTokens
    BY <1>3, <1>7, EntryType DEF TopPri
  <2> HIDE DEF two, m, k, op, a, b
  <2>9. Sound(two)
    BY <2>1, <2>2, <2>3, CutSound
  <2>10. Cut(s.args, m) \in Seq(Values)
    BY <2>2, CutType DEF Typed
  <2>11. Typed(two)
    BY <2>1, <2>4, <2>5, <2>10 DEF Typed
  <2>12. Result2(op.op, a, b) \in Values
    BY <2>7, <2>8, Result2Type
  <2>. QED
    BY <2>9, <2>11, <2>12, StackargTyped
<1>8. n < s.argbase + 1 \/ n >= s.argbase + 1
  BY <1>1
<1>9. n < s.argbase + 2 \/ n >= s.argbase + 2
  BY <1>1
<1> HIDE DEF none, one, two, op, a, b
<1>. QED
  BY <1>4, <1>5, <1>6, <1>7, <1>8, <1>9

(* Where eval reduces, no bracket is on top: its priority is below all.    *)
LEMMA ReduceTyped ==
  ASSUME NEW s, NEW p \in Nat \ {0}, Sound(s), Typed(s)
  PROVE  Typed(Reduce(s, p))
<1> DEFINE n == Len(s.ops)
           f == Reductions(s, p)
           Fine(t) == Sound(t) /\ Typed(t)
           T == {k \in Nat : k <= n => Fine(f[k])}
<1>1. n \in Nat
  BY SoundNumbers
<1>2. f[0] = s /\ \A k \in 1..n : f[k] = Reduced(f[k - 1], p)
  BY <1>1, ReductionsStep
<1> HIDE DEF f
<1>3. 0 \in T
  BY <1>2
<1>4. ASSUME NEW k \in Nat, k \in T
      PROVE  k + 1 \in T
  <2> SUFFICES ASSUME k + 1 <= n PROVE Fine(f[k + 1])
    OBVIOUS
  <2>1. Fine(f[k])
    BY <1>1, <1>4
  <2>2. f[k + 1] = Reduced(f[k], p)
    BY <1>1, <1>2
  <2> DEFINE t == f[k]
  <2>3. CASE ~(HasOp(t) /\ TopPri(t) >= p)
    BY <2>1, <2>2, <2>3 DEF Reduced
  <2>4. CASE HasOp(t) /\ TopPri(t) >= p
    <3>1. Len(t.ops) > 0
      BY <2>1, <2>4, SoundNumbers DEF HasOp
    <3>2. Top(t.ops) \in Entries
      BY <2>1, <3>1, TopType DEF Typed
    <3>3. TopPri(t) >= 1
      BY <2>4, <3>2, EntryType DEF TopPri, UNARY, BRACKET
    <3>4. Sound(Evaltop(t)) /\ Typed(Evaltop(t))
      BY <2>1, <2>4, <3>3, EvaltopSound, EvaltopTyped
    <3>. QED
      BY <2>2, <2>4, <3>4 DEF Reduced
  <2>. QED
    BY <2>3, <2>4
<1> HIDE DEF T
<1>5. n \in T
  BY <1>1, <1>3, <1>4, SetInduction
<1>6. Fine(f[n])
  BY <1>1, <1>5 DEF T
<1>7. Reduce(s, p) = f[n]
  BY DEF Reduce, f
<1>. QED
  BY <1>6, <1>7

LEMMA OpTyped ==
  ASSUME NEW s, NEW t, NEW o \in Entries, Typed(s), t.ops = Append(s.ops, o), t.args = s.args,
         t.lastwasop \in BOOLEAN, t.undef = s.undef,
         t.errors = s.errors, t.fatals = s.fatals, t.evals = s.evals
  PROVE  Typed(t)
<1>1. Append(s.ops, o) \in Seq(Entries)
  BY AppendProperties DEF Typed
<1>. QED
  BY <1>1 DEF Typed

LEMMA AfterOpTyped ==
  ASSUME NEW s, Sound(s), Typed(s)
  PROVE  Typed(AfterOp(s))
<1> DEFINE t == AfterOp(s)
<1>1. /\ t.args = s.args /\ t.ops = s.ops /\ t.lastwasop = TRUE /\ t.undef = s.undef
      /\ t.errors = s.errors /\ t.fatals = s.fatals /\ t.evals = s.evals
  BY DEF AfterOp, Sound
<1> HIDE DEF t
<1>2. Typed(t)
  BY <1>1 DEF Typed
<1>. QED
  BY <1>2 DEF t

LEMMA DoopTyped ==
  ASSUME NEW s, NEW op, NEW pri, Sound(s), Typed(s), [op |-> op, pri |-> pri] \in Entries, pri # BRACKET
  PROVE  Typed(Doop(s, op, pri))
<1>1. ASSUME NEW r, Sound(r), Typed(r)
      PROVE  Typed(Shift(r, op, pri))
  <2> DEFINE o == [op |-> op, pri |-> pri]
             t == Shift(r, op, pri)
  <2>1. /\ t.ops = Append(r.ops, o) /\ t.args = r.args
        /\ t.lastwasop = r.lastwasop /\ t.undef = r.undef
        /\ t.errors = r.errors /\ t.fatals = r.fatals /\ t.evals = r.evals
    BY <1>1 DEF Shift, Sound
  <2>2. o \in Entries /\ r.lastwasop \in BOOLEAN
    BY <1>1 DEF Typed
  <2> HIDE DEF o, t
  <2>3. Typed(t)
    BY <1>1, <2>1, <2>2, OpTyped
  <2>. QED
    BY <2>3 DEF t
<1>2. Sound(AfterOp(s)) /\ Typed(AfterOp(s))
  BY AfterOpSound, AfterOpTyped
<1>3. CASE pri = UNARY
  BY <1>1, <1>2, <1>3 DEF Doop
<1>4. CASE pri # UNARY
  <2>1. pri \in Nat \ {0}
    BY <1>4 DEF Entries, BRACKET
  <2> DEFINE r == Reduce(AfterOp(s), pri)
  <2>2. Sound(r) /\ Typed(r)
    BY <1>2, <2>1, ReduceSound, ReduceTyped
  <2> HIDE DEF r
  <2>3. Typed(Shift(r, op, pri))
    BY <1>1, <2>2
  <2>. QED
    BY <1>4, <2>3 DEF Doop, r
<1>. QED
  BY <1>3, <1>4

LEMMA AfterCommaTyped ==
  ASSUME NEW s, Sound(s), Typed(s)
  PROVE  Typed(AfterComma(s))
<1> DEFINE r == Reduce(s, 1)
           t == [r EXCEPT !.lastwasop = TRUE]
<1>1. Sound(r) /\ Typed(r)
  BY ReduceSound, ReduceTyped
<1>2. AfterComma(s) = t
  BY DEF AfterComma, ReduceAll
<1> HIDE DEF r
<1>3. Typed(t)
  BY <1>1 DEF Typed, Sound
<1>. QED
  BY <1>2, <1>3

LEMMA CloseTyped ==
  ASSUME NEW s, Sound(s), Typed(s), HasOp(s)
  PROVE  Typed([s EXCEPT !.ops = Pop(@)])
<1>1. Len(s.ops) > 0
  BY SoundNumbers DEF HasOp
<1>2. Pop(s.ops) \in Seq(Entries)
  BY <1>1, PopType DEF Typed
<1>. QED
  BY <1>2 DEF Typed, Sound

LEMMA TakeTyped ==
  ASSUME NEW s, NEW n \in Nat, Sound(s), Typed(s), Len(s.args) > s.argbase
  PROVE  /\ Typed([s EXCEPT !.args = Pop(@), !.errors = @ + n])
         /\ Top(s.args) \in Values
<1>1. Len(s.args) > 0
  BY SoundNumbers
<1>2. Pop(s.args) \in Seq(Values) /\ Top(s.args) \in Values
  BY <1>1, PopType, TopType DEF Typed
<1>. QED
  BY <1>2 DEF Typed, Sound

LEMMA LeaveTyped ==
  ASSUME NEW s, NEW f, Sound(s), Typed(s)
  PROVE  Typed(Leave(s, f))
<1> DEFINE n == Truth(Len(s.args) > s.argbase + 1)
           t == Leave(s, f)
<1>1. /\ t.args = Cut(s.args, s.argbase) /\ t.ops = Cut(s.ops, s.opbase)
      /\ t.lastwasop = s.lastwasop /\ t.undef = s.undef
      /\ t.errors = s.errors + n /\ t.fatals = s.fatals /\ t.evals = s.evals
  <2>1. t = [s EXCEPT !.args = Cut(@, s.argbase), !.ops = Cut(@, s.opbase),
                      !.argbase = f.oldargbase, !.opbase = f.oldopbase, !.errors = @ + n]
    BY DEF Leave
  <2> HIDE DEF n, t
  <2>. QED
    BY <2>1 DEF Sound
<1>2. n \in Nat
  BY TruthType
<1> HIDE DEF n, t
<1>3. s.argbase \in 0..Len(s.args) /\ s.opbase \in 0..Len(s.ops)
  BY DEF Sound
<1>4. Cut(s.args, s.argbase) \in Seq(Values) /\ Cut(s.ops, s.opbase) \in Seq(Entries)
  BY <1>3, CutType DEF Typed
<1>5. Typed(t)
  BY <1>1, <1>2, <1>4 DEF Typed
<1>. QED
  BY <1>5 DEF t

-----------------------------------------------------------------------------
(* The type invariant.                                                     *)
Entry(y) ==
  /\ DOMAIN y = {"n", "unk", "ref", "body"}
  /\ y.n \in Int /\ y.unk \in BOOLEAN /\ y.ref \in BOOLEAN

TableTyped == DOMAIN Symbols \subseteq DOMAIN table /\ \A x \in DOMAIN table : Entry(table[x])

TypeInv ==
  /\ TableTyped /\ Typed(e)
  /\ \A i \in 1..Len(calls) : calls[i].list \in Seq(Item)
  /\ operand \in Seq(Item) /\ slips \in 0..MaxSlips /\ wanted \in BOOLEAN

LEMMA CurType ==
  ASSUME TypeInv, StackInv, operand = <<>>
  PROVE  /\ Cur \in Item /\ calls[1].list \in Seq(Item) /\ calls[1].list # <<>>
         /\ Len(calls[1].list) \in 1..Len(calls[1].list)
         /\ DOMAIN calls[1] = {"str", "wantmode", "list", "oldargbase", "oldopbase"}
<1>1. Len(calls) \in Nat \ {0} /\ GoodFrame(calls[1])
  BY OutermostFrame
<1>2. 1 \in 1..Len(calls)
  BY <1>1
<1>3. calls[1].list \in Seq(Item)
  BY <1>2 DEF TypeInv
<1>4. Len(calls[1].list) > 0 /\ Len(calls[1].list) \in 1..Len(calls[1].list)
  BY <1>1, ListedFacts DEF GoodFrame
<1>5. Top(calls[1].list) \in Item
  BY <1>3, <1>4, TopType
<1>. QED
  BY <1>1, <1>3, <1>4, <1>5 DEF Cur, Top, GoodFrame

LEMMA SetModeTyped ==
  ASSUME NEW m \in AddressModes, TypeInv, StackInv, operand = <<>>
  PROVE  SetMode(m).list \in Seq(Item) /\ DOMAIN SetMode(m) = DOMAIN calls[1]
<1> DEFINE sym == [Cur EXCEPT !.mode = m]
           l == WithCur(calls[1].list, sym)
<1>1. SetMode(m) = [calls[1] EXCEPT !.list = l]
  BY DEF SetMode
<1>2. sym \in Item
  BY CurType DEF Item
<1> HIDE DEF sym
<1>3. l \in Seq(Item)
  BY <1>2, CurType, ExceptSeq DEF WithCur
<1> HIDE DEF l
<1>. QED
  BY <1>1, <1>3, CurType

(* A token read within the call.                                           *)
StaysTyped(t, frame) ==
  /\ operand = <<>> /\ Reads(t) /\ Took(t, frame)
  /\ frame.list \in Seq(Item) /\ DOMAIN frame = DOMAIN calls[1]
  /\ Typed(e') /\ TableTyped'

LEMMA StaysTypeInv ==
  ASSUME TypeInv, StackInv, \E t, frame : StaysTyped(t, frame)
  PROVE  TypeInv'
<1>1. PICK t, frame : StaysTyped(t, frame)
  OBVIOUS
<1>2. /\ Listed(calls) /\ Len(calls) \in Nat \ {0} /\ calls # <<>>
      /\ "list" \in DOMAIN frame
  BY <1>1, OutermostFrame, CurType DEF StaysTyped
<1>3. PICK g : g.list \in Seq(Item) /\ calls' = [calls EXCEPT ![1] = g]
  <2>1. CASE Nested
    <3> DEFINE g == [frame EXCEPT !.str = Tail(@)]
    <3>1. calls' = [calls EXCEPT ![1] = g]
      BY <1>1, <2>1 DEF StaysTyped, Took
    <3>2. g.list \in Seq(Item)
      BY <1>1, <1>2 DEF StaysTyped
    <3>. QED
      BY <3>1, <3>2
  <2>2. CASE ~Nested
    BY <1>1, <2>2 DEF StaysTyped, Took
  <2>. QED
    BY <2>1, <2>2
<1>4. Len(calls') = Len(calls)
  BY <1>2, <1>3, ExceptListed
<1>5. \A i \in 1..Len(calls) : calls'[i] = IF i = 1 THEN g ELSE calls[i]
  BY <1>2, <1>3, ListedFacts
<1>6. \A i \in 1..Len(calls') : calls'[i].list \in Seq(Item)
  BY <1>3, <1>4, <1>5 DEF TypeInv
<1>7. slips' \in 0..MaxSlips
  <2>1. slips \in 0..MaxSlips /\ Truth(Slip(t)) \in {0, 1} /\ MaxSlips \in Nat
    BY TruthType, ExprAssumption DEF TypeInv
  <2>2. CASE Nested
    BY <1>1, <2>1, <2>2 DEF StaysTyped, Took
  <2>3. CASE ~Nested
    <3>1. slips' = slips + Truth(Slip(t)) /\ slips + Truth(Slip(t)) <= MaxSlips
      BY <1>1, <2>3 DEF StaysTyped, Took, Reads
    <3>. QED
      BY <2>1, <3>1
  <2>. QED
    BY <2>2, <2>3
<1>8. operand' = operand /\ wanted' = wanted
  BY <1>1 DEF StaysTyped, Took
<1>. QED
  BY <1>1, <1>6, <1>7, <1>8 DEF TypeInv, StaysTyped

LEMMA SameTable ==
  ASSUME TypeInv, table' = table
  PROVE  TableTyped'
  BY DEF TypeInv, TableTyped

LEMMA PriorityType ==
  ASSUME NEW t \in BinaryTokens
  PROVE  [op |-> t, pri |-> Priority(t)] \in Entries /\ Priority(t) # BRACKET
<1>1. Priority(t) \in 10..20
  BY DEF Priority, BinaryTokens
<1>. QED
  BY <1>1 DEF Entries, BRACKET

LEMMA ValueTyped ==
  ASSUME TypeInv, StackInv, operand = <<>>, Literal \/ NewName \/ OldName
  PROVE  \E t, frame : StaysTyped(t, frame)
<1>1. Sound(e) /\ Typed(e) /\ calls[1].list \in Seq(Item) /\ TableTyped
  BY CurType DEF StackInv, TypeInv
<1>2. CASE Literal
  <2>1. PICK t \in DOMAIN Literals :
          /\ Reads(t) /\ Took(t, calls[1]) /\ e' = Stackarg(e, Known(Literals[t])) /\ table' = table
    BY <1>2 DEF Literal
  <2>2. Known(Literals[t]) \in Values
    BY ExprAssumption DEF Known, Values
  <2>3. Typed(e')
    BY <1>1, <2>1, <2>2, StackargTyped
  <2>. QED
    BY <1>1, <2>1, <2>3, SameTable DEF StaysTyped
<1>3. ASSUME NEW v \in Values, NEW n \in Nat, e' = [Stackarg(e, v) EXCEPT !.evals = @ + n]
      PROVE  Typed(e')
  <2> DEFINE s == Stackarg(e, v)
  <2>1. Sound(s) /\ Typed(s) /\ e' = [s EXCEPT !.evals = @ + n]
    BY <1>1, <1>3, StackargSound, StackargTyped
  <2> HIDE DEF s
  <2>. QED
    BY <2>1 DEF Typed, Sound
<1>4. CASE NewName
  <2>1. PICK t \in Names \cup {"*"} :
          /\ Reads(t) /\ Took(t, calls[1])
          /\ table' = [x \in DOMAIN table \cup {SymbolName(t)} |->
                         IF x \in DOMAIN table THEN table[x]
                         ELSE [n |-> 0, unk |-> TRUE, ref |-> TRUE, body |-> <<>>]]
          /\ e' = [Stackarg(e, Unknown(0)) EXCEPT !.evals = @ + 1]
    BY <1>4 DEF NewName
  <2>2. Unknown(0) \in Values
    BY DEF Unknown, Values
  <2>3. Typed(e')
    BY <1>3, <2>1, <2>2
  <2> DEFINE new == [n |-> 0, unk |-> TRUE, ref |-> TRUE, body |-> <<>>]
  <2>4. Entry(new)
    BY DEF Entry
  <2> HIDE DEF new
  <2>5. /\ DOMAIN table' = DOMAIN table \cup {SymbolName(t)}
        /\ \A x \in DOMAIN table' : table'[x] = IF x \in DOMAIN table THEN table[x] ELSE new
    BY <2>1 DEF new
  <2>6. TableTyped'
    BY <1>1, <2>4, <2>5 DEF TableTyped
  <2>. QED
    BY <1>1, <2>1, <2>3, <2>6 DEF StaysTyped
<1>5. CASE OldName
  <2>1. PICK t \in Names \cup {"*"} :
          /\ Reads(t) /\ Took(t, calls[1])
          /\ SymbolName(t) \in DOMAIN table
          /\ LET sym == table[SymbolName(t)]
             IN  e' = [Stackarg(e, [n |-> sym.n, unk |-> sym.unk]) EXCEPT !.evals = @ + Truth(sym.unk)]
          /\ table' = [table EXCEPT ![SymbolName(t)].ref = TRUE]
    BY <1>5 DEF OldName
  <2> DEFINE y == SymbolName(t)
             sym == table[y]
             v == [n |-> sym.n, unk |-> sym.unk]
             n == Truth(sym.unk)
             new == [sym EXCEPT !.ref = TRUE]
  <2>2. e' = [Stackarg(e, v) EXCEPT !.evals = @ + n]
    BY <2>1
  <2>3. Entry(sym)
    BY <1>1, <2>1 DEF TableTyped
  <2>4. table' = [table EXCEPT ![y] = new]
    BY <2>1
  <2> HIDE DEF sym
  <2>5. Entry(new)
    BY <2>3 DEF Entry
  <2>6. v \in Values
    BY <2>3 DEF Entry, Values
  <2>7. n \in Nat
    BY TruthType
  <2> HIDE DEF v, n, new, y
  <2>8. Typed(e')
    BY <1>3, <2>2, <2>6, <2>7
  <2>9. DOMAIN table' = DOMAIN table /\ \A x \in DOMAIN table : table'[x] \in {table[x], new}
    BY <2>4
  <2>10. TableTyped'
    BY <1>1, <2>5, <2>9 DEF TableTyped
  <2>. QED
    BY <1>1, <2>1, <2>8, <2>10 DEF StaysTyped
<1>. QED
  BY <1>2, <1>4, <1>5

LEMMA OperatorTyped ==
  ASSUME TypeInv, StackInv, operand = <<>>,
         UnaryOp \/ MisplacedTilde \/ BinaryOp \/ Open \/ Close
  PROVE  \E t, frame : StaysTyped(t, frame)
<1>1. Sound(e) /\ Typed(e) /\ calls[1].list \in Seq(Item)
  BY CurType DEF StackInv, TypeInv
<1>2. CASE UnaryOp
  <2>1. PICK t \in Unaries : Reads(t) /\ Took(t, calls[1]) /\ e' = Doop(e, t, UNARY) /\ table' = table
    BY <1>2 DEF UnaryOp
  <2>2. t \in UnaryTokens
    BY ExprAssumption
  <2>3. [op |-> t, pri |-> UNARY] \in Entries /\ UNARY # BRACKET
    BY <2>2 DEF Entries, UNARY, BRACKET
  <2>4. Typed(e')
    BY <1>1, <2>1, <2>3, DoopTyped
  <2>. QED
    BY <1>1, <2>1, <2>4, SameTable DEF StaysTyped
<1>3. CASE MisplacedTilde
  <2>1. Reads("~") /\ Took("~", calls[1]) /\ e' = SyntaxError(e) /\ table' = table
    BY <1>3 DEF MisplacedTilde
  <2>2. Typed(e')
    BY <1>1, <2>1 DEF SyntaxError, Sound, Typed
  <2>. QED
    BY <1>1, <2>1, <2>2, SameTable DEF StaysTyped
<1>4. CASE BinaryOp
  <2>1. PICK t \in Binaries :
          /\ Reads(t) /\ Took(t, calls[1]) /\ table' = table
          /\ e' = Doop(e, t, Priority(t))
    BY <1>4 DEF BinaryOp
  <2>2. t \in BinaryTokens
    BY ExprAssumption
  <2>3. [op |-> t, pri |-> Priority(t)] \in Entries /\ Priority(t) # BRACKET
    BY <2>2, PriorityType
  <2>4. Typed(e')
    BY <1>1, <2>1, <2>3, DoopTyped
  <2>. QED
    BY <1>1, <2>1, <2>4, SameTable DEF StaysTyped
<1>5. CASE Open
  <2>1. PICK t \in {"[", "("} \cap Marks :
          /\ Reads(t) /\ Took(t, calls[1]) /\ table' = table
          /\ e' = [e EXCEPT !.ops = Append(@, [op |-> t, pri |-> BRACKET])]
    BY <1>5 DEF Open
  <2> DEFINE o == [op |-> t, pri |-> BRACKET]
  <2>2. e' = [e EXCEPT !.ops = Append(@, o)]
    BY <2>1
  <2>3. o \in Entries
    BY DEF Entries
  <2> HIDE DEF o
  <2>4. /\ e'.ops = Append(e.ops, o) /\ e'.args = e.args
        /\ e'.lastwasop = e.lastwasop /\ e'.undef = e.undef
        /\ e'.errors = e.errors /\ e'.fatals = e.fatals /\ e'.evals = e.evals
    BY <1>1, <2>2 DEF Sound
  <2>5. e.lastwasop \in BOOLEAN
    BY <1>1 DEF Typed
  <2>6. Typed(e')
    BY <1>1, <2>3, <2>4, <2>5, OpTyped
  <2>. QED
    BY <1>1, <2>1, <2>6, SameTable DEF StaysTyped
<1>6. CASE Close
  <2> DEFINE s == Reduce(e, 1)
  <2>1. PICK t \in {"]", ")"} \cap Marks :
          /\ Reads(t) /\ Took(t, calls[1]) /\ table' = table
          /\ e' = IF HasOp(s) THEN [s EXCEPT !.ops = Pop(@)] ELSE s
    BY <1>6 DEF Close
  <2>2. Sound(s) /\ Typed(s)
    BY <1>1, ReduceSound, ReduceTyped
  <2> HIDE DEF s
  <2>3. Typed(e')
    BY <2>1, <2>2, CloseTyped
  <2>. QED
    BY <1>1, <2>1, <2>3, SameTable DEF StaysTyped
<1>. QED
  BY <1>2, <1>3, <1>4, <1>5, <1>6

LEMMA ModeTyped ==
  ASSUME TypeInv, StackInv, operand = <<>>,
         Indirect \/ EndIndirect \/ EndIndirectY \/ Immediate \/ Index
  PROVE  \E t, frame : StaysTyped(t, frame)
<1>1. Sound(e) /\ Typed(e) /\ calls[1].list \in Seq(Item)
      /\ {"list", "wantmode"} \subseteq DOMAIN calls[1]
  BY CurType DEF StackInv, TypeInv
<1>2. \A m \in AddressModes : SetMode(m).list \in Seq(Item) /\ DOMAIN SetMode(m) = DOMAIN calls[1]
  BY SetModeTyped
<1>3. {"INDWORD", "INDBYTEY", "IMM8", "INDBYTEX", "0X", "0Y"} \subseteq AddressModes
  BY DEF AddressModes
<1>4. CASE Indirect
  BY <1>1, <1>2, <1>3, <1>4, SameTable DEF Indirect, StaysTyped
<1>5. CASE EndIndirect
  BY <1>1, <1>5, SameTable DEF EndIndirect, StaysTyped
<1>6. CASE EndIndirectY
  BY <1>1, <1>2, <1>3, <1>6, SameTable DEF EndIndirectY, StaysTyped
<1>7. CASE Immediate
  <2> DEFINE f == SetMode("IMM8")
             g == [f EXCEPT !.wantmode = FALSE]
  <2>1. Reads("#") /\ Took("#", g) /\ e' = e /\ table' = table
    BY <1>7 DEF Immediate
  <2>2. f.list \in Seq(Item) /\ DOMAIN f = DOMAIN calls[1]
    BY <1>2, <1>3
  <2> HIDE DEF f
  <2>3. g.list \in Seq(Item) /\ DOMAIN g = DOMAIN calls[1]
    BY <1>1, <2>2
  <2>. QED
    BY <1>1, <2>1, <2>3, SameTable DEF StaysTyped
<1>8. CASE Index
  <2>1. PICK t \in {",x", ",y"} \cap Marks :
          /\ Reads(t)
          /\ Took(t, SetMode(CASE t = ",x" /\ Cur.mode = "INDWORD" -> "INDBYTEX"
                               [] t = ",x" /\ Cur.mode # "INDWORD" -> "0X"
                               [] t = ",y" -> "0Y"))
          /\ e' = AfterComma(e) /\ table' = table
    BY <1>8 DEF Index
  <2> DEFINE m == CASE t = ",x" /\ Cur.mode = "INDWORD" -> "INDBYTEX"
                    [] t = ",x" /\ Cur.mode # "INDWORD" -> "0X"
                    [] t = ",y" -> "0Y"
  <2>2. Took(t, SetMode(m))
    BY <2>1
  <2>3. m \in AddressModes
    BY <1>3, <2>1
  <2> HIDE DEF m
  <2>4. Typed(e')
    BY <1>1, <2>1, AfterCommaTyped
  <2>. QED
    BY <1>2, <2>1, <2>2, <2>3, <2>4, SameTable DEF StaysTyped
<1>. QED
  BY <1>4, <1>5, <1>6, <1>7, <1>8

LEMMA CommaTyped ==
  ASSUME TypeInv, StackInv, operand = <<>>, Comma
  PROVE  \E t, frame : StaysTyped(t, frame)
<1> DEFINE s == AfterComma(e)
           v == Top(s.args)
           item == [Cur EXCEPT !.n = v.n, !.unk = v.unk]
           l == WithCur(calls[1].list, item)
           f == [calls[1] EXCEPT !.list = Append(l, NewSymbol)]
           n == Truth(Len(s.args) - 1 > s.argbase)
<1>1. /\ Reads(",") /\ Took(",", f) /\ table' = table
      /\ e' = [s EXCEPT !.args = Pop(@), !.errors = @ + n]
  BY DEF Comma
<1>2. Sound(s) /\ Keeps(e, s) /\ s.args = ReduceAll(e).args /\ Typed(s)
  BY AfterCommaSound, AfterCommaTyped DEF StackInv, TypeInv
<1>3. Len(s.args) > s.argbase
  BY <1>2 DEF Comma, Reads, Punctuated, Keeps, SameBelow
<1>4. n \in Nat
  BY TruthType
<1> HIDE DEF s, n
<1>5. Typed(e') /\ v \in Values
  BY <1>1, <1>2, <1>3, <1>4, TakeTyped
<1>6. item \in Item
  BY <1>5, CurType DEF Item, Values
<1> HIDE DEF item
<1>7. l \in Seq(Item)
  BY <1>6, CurType, ExceptSeq DEF WithCur
<1> HIDE DEF l
<1>8. NewSymbol \in Item
  BY DEF NewSymbol, Item, AddressModes
<1>9. Append(l, NewSymbol) \in Seq(Item)
  BY <1>7, <1>8, AppendProperties
<1>10. f.list \in Seq(Item) /\ DOMAIN f = DOMAIN calls[1]
  BY <1>9, CurType
<1> HIDE DEF f
<1>. QED
  BY <1>1, <1>5, <1>10, SameTable DEF StaysTyped

LEMMA CallTyped ==
  ASSUME TypeInv, StackInv, operand = <<>>, CallEqm
  PROVE  TypeInv'
<1>1. PICK t \in Names :
        /\ Reads(t)
        /\ calls' = <<Frame(e, table[t].body, FALSE),
                      IF Nested THEN [calls[1] EXCEPT !.str = Tail(@)] ELSE calls[1]>> \o Tail(calls)
        /\ e' = [Entered(e) EXCEPT !.evals = @ + Truth(table[t].unk)]
        /\ IF Nested THEN UNCHANGED <<read, slips>>
           ELSE read' = Append(read, t) /\ slips' = slips + Truth(Slip(t))
        /\ UNCHANGED <<table, wanted, operand>>
  BY DEF CallEqm
<1> DEFINE f == Frame(e, table[t].body, FALSE)
           g == IF Nested THEN [calls[1] EXCEPT !.str = Tail(@)] ELSE calls[1]
           x == Truth(table[t].unk)
<1>2. /\ Listed(calls) /\ Len(calls) \in Nat \ {0} /\ calls # <<>>
      /\ Sound(e) /\ Typed(e)
  BY OutermostFrame DEF TypeInv
<1>3. g.list \in Seq(Item)
  BY CurType
<1>4. f.list \in Seq(Item)
  <2>1. NewSymbol \in Item
    BY DEF NewSymbol, Item, AddressModes
  <2>2. f.list = <<NewSymbol>>
    BY DEF Frame
  <2> HIDE DEF f
  <2>. QED
    BY <2>1, <2>2
<1>5. /\ Len(calls') = Len(calls) + 1 /\ calls'[1] = f /\ calls'[2] = g
      /\ \A i \in 3..(Len(calls) + 1) : calls'[i] = calls[i - 1]
  BY <1>1, <1>2, PushCall
<1>6. e' = [Entered(e) EXCEPT !.evals = @ + x] /\ x \in Nat
  BY <1>1, TruthType
<1> HIDE DEF f, g, x
<1>7. ASSUME NEW i \in 1..Len(calls')
      PROVE  calls'[i].list \in Seq(Item)
  <2>1. CASE i \in {1, 2}
    BY <1>3, <1>4, <1>5, <2>1
  <2>2. CASE i \notin {1, 2}
    <3>1. i \in 3..(Len(calls) + 1) /\ i - 1 \in 1..Len(calls)
      BY <1>2, <1>5, <2>2
    <3>. QED
      BY <1>5, <3>1 DEF TypeInv
  <2>. QED
    BY <2>1, <2>2
<1>8. Typed(e')
  BY <1>2, <1>6 DEF Entered, Typed, Sound
<1>9. slips' \in 0..MaxSlips
  <2>1. slips \in 0..MaxSlips /\ Truth(Slip(t)) \in {0, 1} /\ MaxSlips \in Nat
    BY TruthType, ExprAssumption DEF TypeInv
  <2>2. CASE Nested
    BY <1>1, <2>1, <2>2
  <2>3. CASE ~Nested
    <3>1. slips' = slips + Truth(Slip(t)) /\ slips + Truth(Slip(t)) <= MaxSlips
      BY <1>1, <2>3 DEF Reads
    <3>. QED
      BY <2>1, <3>1
  <2>. QED
    BY <2>2, <2>3
<1>10. TableTyped' /\ operand' = operand /\ wanted' = wanted
  BY <1>1, SameTable
<1>. QED
  BY <1>7, <1>8, <1>9, <1>10 DEF TypeInv

(* What a call returns is a list of at least one item.                     *)
LEMMA ReturnedType ==
  ASSUME NEW s, Sound(s), Typed(s), TypeInv, StackInv, operand = <<>>
  PROVE  Returned(s) \in Seq(Item) /\ Len(Returned(s)) > 0 /\ Head(Returned(s)) \in Item
<1> DEFINE list == calls[1].list
           v == Top(s.args)
           last == [list[Len(list)] EXCEPT !.n = v.n, !.unk = v.unk]
           cur == [list EXCEPT ![Len(list)] = last]
           first == [cur[1] EXCEPT !.mode = "BYTEADR"]
           r == Returned(s)
<1>1. Cur \in Item /\ list \in Seq(Item) /\ Len(list) \in 1..Len(list) /\ Len(list) \in Nat
  BY CurType, LenProperties
<1>2. r = IF Len(s.args) = s.argbase THEN list
          ELSE IF cur[1].mode = "IMP" THEN [cur EXCEPT ![1] = first] ELSE cur
  BY DEF Returned
<1>3. ASSUME Len(s.args) # s.argbase
      PROVE  /\ cur \in Seq(Item) /\ Len(cur) = Len(list)
             /\ [cur EXCEPT ![1] = first] \in Seq(Item) /\ Len([cur EXCEPT ![1] = first]) = Len(list)
  <2>1. Len(s.args) > 0
    BY <1>3, SoundNumbers
  <2>2. v \in Values
    BY <2>1, TopType DEF Typed
  <2>3. last \in Item
    BY <1>1, <2>2 DEF Cur, Item, Values
  <2> HIDE DEF list, last
  <2>4. cur \in Seq(Item) /\ Len(cur) = Len(list)
    BY <1>1, <2>3, ExceptSeq
  <2> HIDE DEF cur
  <2>5. 1 \in 1..Len(cur)
    BY <1>1, <2>4
  <2>6. cur[1] \in Item
    BY <2>4, <2>5, ElementOfSeq
  <2>7. first \in Item
    BY <2>6 DEF Item, AddressModes
  <2> HIDE DEF first
  <2>8. [cur EXCEPT ![1] = first] \in Seq(Item) /\ Len([cur EXCEPT ![1] = first]) = Len(cur)
    BY <2>4, <2>5, <2>7, ExceptSeq
  <2>. QED
    BY <2>4, <2>8
<1> HIDE DEF list, cur, first, r
<1>4. r \in Seq(Item) /\ Len(r) = Len(list)
  BY <1>1, <1>2, <1>3
<1>5. Len(r) > 0 /\ 1 \in 1..Len(r) /\ r # <<>>
  BY <1>1, <1>4, EmptySeq
<1>6. r[1] \in Item
  BY <1>4, <1>5, ElementOfSeq
<1>7. Head(r) = r[1]
  BY <1>4, <1>5, HeadTailProperties
<1>. QED
  BY <1>4, <1>5, <1>6, <1>7 DEF r

LEMMA ReturnEqmTyped ==
  ASSUME TypeInv, StackInv, operand = <<>>, ReturnEqm
  PROVE  TypeInv'
<1> DEFINE s == ReduceAll(e)
           l == Leave(s, calls[1])
           base == Head(Returned(s))
           v == [n |-> base.n, unk |-> base.unk]
<1>1. /\ e' = Stackarg(l, v) /\ calls' = Tail(calls)
      /\ UNCHANGED <<table, read, wanted, slips, operand>>
  BY DEF ReturnEqm
<1>2. /\ Listed(calls) /\ Len(calls) \in Nat \ {0} /\ calls # <<>>
      /\ calls[1].oldargbase \in 0..e.argbase /\ calls[1].oldopbase \in 0..e.opbase
      /\ Sound(e) /\ Typed(e)
  BY OutermostFrame DEF TypeInv
<1>3. Sound(s) /\ Typed(s) /\ Keeps(e, s)
  BY <1>2, ReduceSound, ReduceTyped DEF ReduceAll
<1>4. base \in Item
  BY <1>3, ReturnedType
<1> HIDE DEF s, base
<1>5. s.argbase = e.argbase /\ s.opbase = e.opbase
  BY <1>3 DEF Keeps, SameBelow
<1>6. Sound(l) /\ Typed(l)
  BY <1>2, <1>3, <1>5, LeaveSound, LeaveTyped
<1>7. v \in Values
  BY <1>4 DEF Item, Values
<1> HIDE DEF l, v
<1>8. Typed(e')
  BY <1>1, <1>6, <1>7, StackargTyped
<1>9. Len(calls') = Len(calls) - 1 /\ \A i \in 1..Len(calls') : calls'[i] = calls[i + 1]
  <2> DEFINE S == {calls[i] : i \in DOMAIN calls}
  <2>1. calls \in Seq(S)
    BY <1>2 DEF Listed
  <2> HIDE DEF S
  <2>. QED
    BY <1>1, <1>2, <2>1, HeadTailProperties
<1>10. \A i \in 1..Len(calls') : calls'[i].list \in Seq(Item)
  <2> TAKE i \in 1..Len(calls')
  <2>1. i + 1 \in 1..Len(calls)
    BY <1>2, <1>9
  <2>. QED
    BY <1>9, <2>1 DEF TypeInv
<1>. QED
  BY <1>1, <1>8, <1>10, SameTable DEF TypeInv

LEMMA ReturnTyped ==
  ASSUME TypeInv, StackInv, operand = <<>>, Return
  PROVE  TypeInv'
<1> DEFINE s == ReduceAll(e)
<1>1. /\ operand' = Returned(s) /\ e' = Leave(s, calls[1]) /\ calls' = <<>>
      /\ UNCHANGED <<table, read, wanted, slips>>
  BY DEF Return
<1>2. Sound(e) /\ Typed(e)
  BY DEF StackInv, TypeInv
<1>3. Sound(s) /\ Typed(s)
  BY <1>2, ReduceSound, ReduceTyped DEF ReduceAll
<1>4. Returned(s) \in Seq(Item)
  BY <1>3, ReturnedType
<1>5. Typed(e')
  BY <1>1, <1>3, LeaveTyped
<1>6. \A i \in 1..Len(calls') : calls'[i].list \in Seq(Item)
  BY <1>1, EmptyIsListed
<1>. QED
  BY <1>1, <1>4, <1>5, <1>6, SameTable DEF TypeInv

LEMMA TypeInit == ExprInit => TypeInv
<1> SUFFICES ASSUME ExprInit PROVE TypeInv
  OBVIOUS
<1>1. Typed(e)
  <2>1. e.args = <<>> /\ e.ops = <<>>
    BY DEF ExprInit, Entered, Idle
  <2>2. e.lastwasop \in BOOLEAN /\ e.undef \in BOOLEAN
    BY DEF ExprInit, Entered, Idle
  <2>3. e.errors \in Nat /\ e.fatals \in Nat /\ e.evals \in Nat
    BY DEF ExprInit, Entered, Idle
  <2>4. e.args \in Seq(Values) /\ e.ops \in Seq(Entries)
    BY <2>1, EmptySeq
  <2>. QED
    BY <2>2, <2>3, <2>4 DEF Typed
<1>2. TableTyped
  BY ExprAssumption DEF ExprInit, TableTyped, Entry
<1> DEFINE f == Frame(Idle, <<>>, wanted)
<1>3. calls = <<f>>
  BY DEF ExprInit
<1>4. f.list = <<NewSymbol>>
  BY DEF Frame
<1>5. NewSymbol \in Item
  BY DEF NewSymbol, Item, AddressModes
<1> HIDE DEF f
<1>6. <<NewSymbol>> \in Seq(Item)
  BY <1>5
<1>7. \A i \in 1..Len(calls) : calls[i].list \in Seq(Item)
  <2>1. Len(calls) = 1 /\ calls[1] = f
    BY <1>3
  <2>2. calls[1].list \in Seq(Item)
    BY <1>4, <1>6, <2>1
  <2>. QED
    BY <2>1, <2>2
<1>8. operand \in Seq(Item)
  BY EmptySeq DEF ExprInit
<1>9. slips \in 0..MaxSlips
  <2>1. slips = 0
    BY DEF ExprInit
  <2>2. MaxSlips \in Nat
    BY ExprAssumption
  <2>. QED
    BY <2>1, <2>2
<1>10. wanted \in BOOLEAN
  BY ExprAssumption DEF ExprInit
<1>. QED
  BY <1>1, <1>2, <1>7, <1>8, <1>9, <1>10 DEF TypeInv

LEMMA TypeStep ==
  ASSUME TypeInv, StackInv, ExprNext
  PROVE  TypeInv'
<1>1. operand = <<>>
  BY DEF ExprNext, Literal, NewName, OldName, CallEqm, UnaryOp, MisplacedTilde, BinaryOp, Open,
         Close, Indirect, EndIndirect, EndIndirectY, Immediate, Index, Comma, ReturnEqm, Return,
         Reads
<1>2. CASE Literal \/ NewName \/ OldName
  BY <1>1, <1>2, ValueTyped, StaysTypeInv
<1>3. CASE UnaryOp \/ MisplacedTilde \/ BinaryOp \/ Open \/ Close
  BY <1>1, <1>3, OperatorTyped, StaysTypeInv
<1>4. CASE Indirect \/ EndIndirect \/ EndIndirectY \/ Immediate \/ Index
  BY <1>1, <1>4, ModeTyped, StaysTypeInv
<1>5. CASE Comma
  BY <1>1, <1>5, CommaTyped, StaysTypeInv
<1>6. CASE CallEqm
  BY <1>1, <1>6, CallTyped
<1>7. CASE ReturnEqm
  BY <1>1, <1>7, ReturnEqmTyped
<1>8. CASE Return
  BY <1>1, <1>8, ReturnTyped
<1>. QED
  BY <1>2, <1>3, <1>4, <1>5, <1>6, <1>7, <1>8 DEF ExprNext

LEMMA TypeStutter ==
  ASSUME TypeInv, UNCHANGED exprvars
  PROVE  TypeInv'
  BY DEF TypeInv, TableTyped, exprvars

LEMMA TypeMeaning ==
  ASSUME TypeInv, StackInv
  PROVE  ExprTypeOK
<1>1. /\ DOMAIN Symbols \subseteq DOMAIN table
      /\ \A x \in DOMAIN table :
           table[x].unk \in BOOLEAN /\ table[x].ref \in BOOLEAN /\ table[x].n \in Int
  BY DEF TypeInv, TableTyped, Entry
<1>2. e.args \in Seq([n : Int, unk : BOOLEAN])
  BY DEF TypeInv, Typed, Values
<1>3. Entries \subseteq [op : Operators, pri : {UNARY, BRACKET} \cup 10..20]
  BY DEF Entries, Operators
<1>4. e.ops \in Seq([op : Operators, pri : {UNARY, BRACKET} \cup 10..20])
  <2> DEFINE S == [op : Operators, pri : {UNARY, BRACKET} \cup 10..20]
  <2>1. Entries \subseteq S
    BY <1>3
  <2> HIDE DEF S
  <2>2. e.ops \in Seq(S)
    BY <2>1, SeqMonotonic DEF TypeInv, Typed
  <2>. QED
    BY <2>2 DEF S
<1>5. ASSUME NEW i \in DOMAIN calls
      PROVE  calls[i].list \in Seq(Item) /\ calls[i].list # <<>>
  <2>1. i \in 1..Len(calls)
    BY ListedFacts DEF StackInv, CallsFit
  <2>. QED
    BY <2>1 DEF TypeInv, StackInv, CallsFit, GoodFrame
<1>6. e.argbase \in 0..Len(e.args) /\ e.opbase \in 0..Len(e.ops)
  BY DEF StackInv, Sound
<1>. QED
  BY <1>1, <1>2, <1>4, <1>5, <1>6 DEF ExprTypeOK, TypeInv, Typed

(* The types of the stacks, the table and the lists, in every state: with  *)
(* what the stacks hold, eval hands only numbers with a flag on (exp.c).   *)
THEOREM TypesInductive == ExprSpec => []TypeInv
<1>1. ExprInit => TypeInv
  BY TypeInit
<1>2. TypeInv /\ StackInv /\ [ExprNext]_exprvars => TypeInv'
  BY TypeStep, TypeStutter
<1>. QED
  BY <1>1, <1>2, StacksInductive, PTL DEF ExprSpec

(* Whatever the tokens are: the values on the stack are numbers with a     *)
(* flag, eval returns a list of at least one item for each call, and each  *)
(* call owns what lies above its bases.                                    *)
THEOREM ExprTypes == ExprSpec => []ExprTypeOK
<1>1. TypeInv /\ StackInv => ExprTypeOK
  BY TypeMeaning
<1>. QED
  BY <1>1, TypesInductive, StacksInductive, PTL

-----------------------------------------------------------------------------
(* v_mnemonic.                                                             *)

-----------------------------------------------------------------------------
(* The tables Cvt and Opsize.                                              *)
BitModes == {"BITMOD", "BITBRAMOD"}

LEMMA TablesType ==
  ASSUME NEW m \in Modes
  PROVE  Cvt[m] \in Modes /\ Opsize[m] \in 0..2 /\ Cvt[m] \notin BitModes
  BY DEF Modes, Cvt, Opsize, BitModes

(* A chain has at most three modes, none shorter than the one before, and  *)
(* only a mode that holds two bytes is followed by REL.                    *)
LEMMA ChainShape ==
  ASSUME NEW m \in Modes, ~EndOfChain(m)
  PROVE  /\ Opsize[m] <= Opsize[Cvt[m]]
         /\ ~EndOfChain(Cvt[m]) => EndOfChain(Cvt[Cvt[m]])
         /\ Cvt[m] = "REL" => Opsize[m] = 2
  BY DEF Modes, Cvt, Opsize, EndOfChain

LEMMA NeedsType ==
  ASSUME NEW item \in Item
  PROVE  Needs(item) \in 0..2
  BY DEF Needs

LEMMA LongerFacts ==
  ASSUME NEW mne, NEW size \in 0..2, NEW m \in Modes
  PROVE  LET w == Longer(mne, size, m)
         IN  /\ w \in Modes
             /\ w = m \/ (w = Cvt[m] /\ ~EndOfChain(m) /\ Opsize[m] < size)
             /\ w = m \/ w \in mne.okmask
             /\ w = "REL" => m = "REL"
             /\ w \in BitModes => m \in BitModes
             /\ Opsize[m] <= Opsize[w]
<1> DEFINE w == Longer(mne, size, m)
<1>1. Cvt[m] \in Modes /\ Opsize[m] \in 0..2 /\ Cvt[m] \notin BitModes
  BY TablesType
<1>2. w = m \/ (w = Cvt[m] /\ ~EndOfChain(m) /\ Opsize[m] < size /\ w \in mne.okmask)
  BY <1>1 DEF Longer
<1>3. ~EndOfChain(m) => Opsize[m] <= Opsize[Cvt[m]] /\ (Cvt[m] = "REL" => Opsize[m] = 2)
  BY ChainShape
<1> HIDE DEF w
<1>. QED
  BY <1>1, <1>2, <1>3 DEF w

LEMMA WidenFacts ==
  ASSUME NEW mne, NEW size \in 0..2, NEW m \in Modes
  PROVE  LET w == Widen(mne, size, m)
         IN  /\ w \in Modes
             /\ w = m \/ w \in mne.okmask
             /\ w = "REL" <=> m = "REL"
             /\ w \in BitModes => m \in BitModes
             /\ Opsize[m] <= Opsize[w]
<1> DEFINE a == Longer(mne, size, m)
           w == Longer(mne, size, a)
<1>1. /\ a \in Modes /\ (a = m \/ a \in mne.okmask)
      /\ a = "REL" => m = "REL"
      /\ a \in BitModes => m \in BitModes
      /\ Opsize[m] <= Opsize[a]
      /\ a = m \/ (a = Cvt[m] /\ ~EndOfChain(m) /\ Opsize[m] < size)
  BY LongerFacts
<1> HIDE DEF a
<1>2. /\ w \in Modes /\ (w = a \/ w \in mne.okmask)
      /\ w = "REL" => a = "REL"
      /\ w \in BitModes => a \in BitModes
      /\ Opsize[a] <= Opsize[w]
      /\ w = a \/ (w = Cvt[a] /\ ~EndOfChain(a) /\ Opsize[a] < size)
  BY <1>1, LongerFacts
<1> HIDE DEF w
<1>3. Opsize[m] <= Opsize[w]
  BY <1>1, <1>2, TablesType
<1>4. EndOfChain("REL")
  BY DEF EndOfChain, Cvt, Modes
<1>5. Widen(mne, size, m) = w
  BY DEF Widen, w, a
<1>. QED
  BY <1>1, <1>2, <1>3, <1>4, <1>5

(* The less an operand needs, the shorter the mode.                        *)
LEMMA WidenMonotonic ==
  ASSUME NEW mne, NEW size \in 0..2, NEW m \in Modes
  PROVE  Opsize[Widen(mne, size, m)] <= Opsize[Widen(mne, 2, m)]
<1> DEFINE a == Longer(mne, size, m)
           b == Longer(mne, 2, m)
<1>1. /\ a \in Modes /\ Opsize[m] \in 0..2 /\ 2 \in 0..2
      /\ a # m => a = Cvt[m] /\ ~EndOfChain(m) /\ Opsize[m] < size /\ Cvt[m] \in mne.okmask
  BY LongerFacts, TablesType DEF Longer
<1>2. CASE a # m
  <2>1. b = a
    BY <1>1, <1>2 DEF Longer
  <2> DEFINE c == Longer(mne, size, a)
             d == Longer(mne, 2, a)
  <2> HIDE DEF a, b
  <2>2. /\ d \in Modes /\ Opsize[a] <= Opsize[d]
        /\ Opsize[a] \in 0..2
    BY <1>1, LongerFacts, TablesType
  <2>3. c = a \/ c = d
    BY <1>1, <2>2 DEF Longer
  <2>4. Opsize[c] <= Opsize[d]
    BY <2>2, <2>3, TablesType
  <2>. QED
    BY <2>1, <2>4 DEF Widen, a, b
<1>3. CASE a = m
  <2>1. Widen(mne, size, m) = m
    BY <1>3 DEF Widen
  <2>. QED
    BY <2>1, WidenFacts
<1>. QED
  BY <1>2, <1>3

LEMMA FirstLegalFacts ==
  ASSUME NEW mne, NEW m \in Modes
  PROVE  /\ FirstLegal(mne, m) \in Modes
         /\ FirstLegal(mne, m) \in BitModes => m \in BitModes /\ FirstLegal(mne, m) = m
<1> DEFINE a == Closer(mne, m)
           b == Closer(mne, a)
<1>1. a \in Modes /\ (a = m \/ a \notin BitModes)
  BY TablesType DEF Closer
<1> HIDE DEF a
<1>2. b \in Modes /\ (b = a \/ b \notin BitModes)
  BY <1>1, TablesType DEF Closer
<1>3. FirstLegal(mne, m) = b
  BY DEF FirstLegal, a
<1> HIDE DEF b
<1>. QED
  BY <1>1, <1>2, <1>3

(* The mode that is chosen is the first one that is legal and wide enough. *)
LEMMA ChainChoice ==
  ASSUME NEW mne \in Mnemonics, NEW s \in Modes, NEW size \in 0..2
  PROVE  LET chain == Chain(s)
             legal == FirstLegal(mne, s)
             mode == Widen(mne, size, legal)
             Fits(k) == chain[k] \in mne.okmask /\ Opsize[chain[k]] >= size
         IN  /\ legal \notin mne.okmask => \A k \in 1..3 : ~Fits(k)
             /\ legal \in mne.okmask /\ Opsize[mode] < size => \A k \in 1..3 : ~Fits(k)
             /\ legal \in mne.okmask /\ Opsize[mode] >= size =>
                  \E k \in 1..3 : Fits(k) /\ mode = chain[k] /\ \A j \in 1..3 : Fits(j) => k <= j
<1> DEFINE c2 == After(s)
           c3 == After(c2)
           legal == FirstLegal(mne, s)
           mode == Widen(mne, size, legal)
           ok == mne.okmask
           Fit(m) == m \in ok /\ Opsize[m] >= size
<1>1. Chain(s) = <<s, c2, c3>>
  BY DEF Chain
<1>2. /\ Opsize[s] \in 0..2 /\ Cvt[s] \in Modes /\ c2 = IF EndOfChain(s) THEN s ELSE Cvt[s]
  BY TablesType DEF After
<1>3. Opsize[c2] \in 0..2 /\ Cvt[c2] \in Modes /\ c3 = IF EndOfChain(c2) THEN c2 ELSE Cvt[c2]
  BY <1>2, TablesType DEF After
<1> HIDE DEF c2
<1>4. Opsize[c3] \in 0..2
  BY <1>2, <1>3, TablesType
<1> HIDE DEF c3
<1>5. EndOfChain(c3) /\ (EndOfChain(s) => EndOfChain(c2))
  BY <1>2, <1>3, ChainShape
<1>6. /\ s # c2 => Opsize[s] <= Opsize[c2]
      /\ c2 # c3 => Opsize[c2] <= Opsize[c3]
  BY <1>2, <1>3, ChainShape
<1>7. /\ s \in ok => legal = s
      /\ s \notin ok /\ c2 \in ok => legal = c2
      /\ s \notin ok /\ c2 \notin ok => legal = c3
  BY <1>2, <1>3, <1>5 DEF FirstLegal, Closer
<1>8. s \in ok /\ c3 \in ok /\ s # c2 /\ c2 # c3 => c2 \in ok
  BY <1>2, <1>3, NoGapAssumption
<1>9. /\ legal = c3 => mode = c3
      /\ legal = c2 => mode = IF size <= Opsize[c2] \/ c3 \notin ok THEN c2 ELSE c3
      /\ legal = s => mode = IF size <= Opsize[s] \/ c2 \notin ok THEN s
                             ELSE IF size <= Opsize[c2] \/ c3 \notin ok THEN c2 ELSE c3
  BY <1>2, <1>3, <1>5 DEF Widen, Longer
<1> HIDE DEF legal, mode, ok
<1>10. legal \in {s, c2, c3}
  BY <1>7
<1>11. legal \notin ok => s \notin ok /\ c2 \notin ok /\ c3 \notin ok
  BY <1>7
<1>12. legal \in ok /\ Opsize[mode] < size => ~Fit(s) /\ ~Fit(c2) /\ ~Fit(c3)
  BY <1>2, <1>3, <1>4, <1>5, <1>6, <1>7, <1>8, <1>9, <1>10
<1>13. legal \in ok /\ Opsize[mode] >= size =>
         \/ mode = s /\ Fit(s)
         \/ mode = c2 /\ Fit(c2) /\ ~Fit(s)
         \/ mode = c3 /\ Fit(c3) /\ ~Fit(s) /\ ~Fit(c2)
  BY <1>2, <1>3, <1>4, <1>5, <1>6, <1>7, <1>8, <1>9, <1>10
<1> DEFINE chain == Chain(s)
           Fits(k) == chain[k] \in ok /\ Opsize[chain[k]] >= size
<1>14. chain[1] = s /\ chain[2] = c2 /\ chain[3] = c3
  BY <1>1
<1> HIDE DEF chain
<1>15. /\ Fits(1) = Fit(s) /\ Fits(2) = Fit(c2) /\ Fits(3) = Fit(c3)
       /\ \A k \in 1..3 : k \in {1, 2, 3}
  BY <1>14
<1>16. legal \notin ok => \A k \in 1..3 : ~Fits(k)
  BY <1>11, <1>14, <1>15
<1>17. legal \in ok /\ Opsize[mode] < size => \A k \in 1..3 : ~Fits(k)
  BY <1>12, <1>15
<1>18. ASSUME legal \in ok, Opsize[mode] >= size
       PROVE  \E k \in 1..3 : Fits(k) /\ mode = chain[k] /\ \A j \in 1..3 : Fits(j) => k <= j
  <2>1. CASE mode = s /\ Fit(s)
    <3>1. Fits(1) /\ mode = chain[1] /\ \A j \in 1..3 : Fits(j) => 1 <= j
      BY <1>14, <1>15, <2>1
    <3>. QED
      BY <3>1
  <2>2. CASE mode = c2 /\ Fit(c2) /\ ~Fit(s)
    <3>1. Fits(2) /\ mode = chain[2] /\ \A j \in 1..3 : Fits(j) => 2 <= j
      BY <1>14, <1>15, <2>2
    <3>. QED
      BY <3>1
  <2>3. CASE mode = c3 /\ Fit(c3) /\ ~Fit(s) /\ ~Fit(c2)
    <3>1. Fits(3) /\ mode = chain[3] /\ \A j \in 1..3 : Fits(j) => 3 <= j
      BY <1>14, <1>15, <2>3
    <3>. QED
      BY <3>1
  <2>. QED
    BY <1>13, <1>18, <2>1, <2>2, <2>3
<1>. QED
  BY <1>16, <1>17, <1>18 DEF legal, mode, ok, chain

-----------------------------------------------------------------------------
(* The bytes of an instruction.  Each part appends to what is there.       *)
Byte == 0..(Radix - 1)

Code(g) ==
  /\ DOMAIN g = {"generated", "errors", "fatals", "redo", "mode", "prefix", "bit", "bytes"}
  /\ g.errors \in Nat /\ g.fatals \in Nat /\ g.mode \in Modes /\ g.bit \in Int
  /\ g.bytes \in Seq({STALE} \cup Byte)

Extends(g, h, k) ==
  /\ h.generated = g.generated /\ h.redo = g.redo /\ h.mode = g.mode /\ h.prefix = g.prefix
  /\ h.errors >= g.errors /\ h.fatals >= g.fatals
  /\ Len(h.bytes) = Len(g.bytes) + k
  /\ \A i \in 1..Len(g.bytes) : h.bytes[i] = g.bytes[i]

Last(g) == g.bytes[Len(g.bytes)]

LEMMA CodeLength ==
  ASSUME NEW g, Code(g)
  PROVE  Len(g.bytes) \in Nat
  BY LenProperties DEF Code

LEMMA ExtendsChain ==
  ASSUME NEW g, NEW h, NEW c, NEW k \in Nat, NEW l \in Nat, Code(g), Code(h), Code(c),
         Extends(g, h, k), Extends(h, c, l)
  PROVE  Extends(g, c, k + l)
<1>1. Len(g.bytes) \in Nat /\ Len(h.bytes) \in Nat /\ Len(c.bytes) \in Nat
  BY CodeLength
<1>2. \A i \in 1..Len(g.bytes) : c.bytes[i] = g.bytes[i]
  BY <1>1 DEF Extends
<1>. QED
  BY <1>1, <1>2 DEF Extends, Code

LEMMA LowByte ==
  ASSUME NEW n \in Int
  PROVE  /\ n % Radix \in Byte /\ (n \div Radix) % Radix \in Byte
         /\ Radix \in Nat \ {0} /\ STALE \notin Byte
<1>1. Radix \in Nat \ {0}
  BY ExprAssumption
<1> DEFINE q == n \div Radix
<1>2. q \in Int
  BY <1>1
<1> HIDE DEF q
<1>3. n % Radix \in 0..(Radix - 1) /\ q % Radix \in 0..(Radix - 1)
  BY <1>1, <1>2
<1>. QED
  BY <1>1, <1>3 DEF q, Byte, STALE

LEMMA AddFacts ==
  ASSUME NEW g, NEW b \in {STALE} \cup Byte, Code(g)
  PROVE  /\ Code(Add(g, b)) /\ Extends(g, Add(g, b), 1) /\ Last(Add(g, b)) = b
         /\ Add(g, b).errors = g.errors /\ Add(g, b).fatals = g.fatals
<1> DEFINE h == Add(g, b)
<1>1. /\ DOMAIN h = DOMAIN g /\ h.bytes = Append(g.bytes, b)
      /\ h.generated = g.generated /\ h.redo = g.redo /\ h.mode = g.mode /\ h.prefix = g.prefix
      /\ h.errors = g.errors /\ h.fatals = g.fatals /\ h.bit = g.bit
  BY DEF Add, Code
<1> HIDE DEF h
<1>2. /\ Append(g.bytes, b) \in Seq({STALE} \cup Byte) /\ Len(g.bytes) \in Nat
      /\ Len(Append(g.bytes, b)) = Len(g.bytes) + 1
      /\ \A i \in 1..Len(g.bytes) : Append(g.bytes, b)[i] = g.bytes[i]
      /\ Append(g.bytes, b)[Len(g.bytes) + 1] = b
  BY AppendProperties, LenProperties DEF Code
<1>3. Code(h)
  BY <1>1, <1>2 DEF Code
<1>4. Extends(g, h, 1) /\ Last(h) = b
  BY <1>1, <1>2 DEF Extends, Code, Last
<1>. QED
  BY <1>1, <1>3, <1>4 DEF h

LEMMA ErrorFacts ==
  ASSUME NEW g, NEW n \in Nat, Code(g)
  PROVE  LET h == [g EXCEPT !.errors = @ + n]
         IN  Code(h) /\ Extends(g, h, 0) /\ h.errors = g.errors + n /\ h.fatals = g.fatals /\ h.bytes = g.bytes
  BY CodeLength DEF Code, Extends

LEMMA FatalFacts ==
  ASSUME NEW g, Code(g)
  PROVE  LET h == [g EXCEPT !.fatals = @ + 1]
         IN  Code(h) /\ Extends(g, h, 0) /\ h.fatals > g.fatals /\ h.bytes = g.bytes
  BY CodeLength DEF Code, Extends

(* A complaint, then a byte. *)
LEMMA ErrorAdd ==
  ASSUME NEW g, NEW n \in Nat, NEW b \in {STALE} \cup Byte, Code(g)
  PROVE  LET h == Add([g EXCEPT !.errors = @ + n], b)
         IN  Code(h) /\ Extends(g, h, 1) /\ h.errors = g.errors + n /\ h.fatals = g.fatals /\ Last(h) = b
<1> DEFINE f == [g EXCEPT !.errors = @ + n]
<1>1. Code(f) /\ Extends(g, f, 0) /\ f.errors = g.errors + n /\ f.fatals = g.fatals
  BY ErrorFacts
<1> HIDE DEF f
<1>2. /\ Code(Add(f, b)) /\ Extends(f, Add(f, b), 1) /\ Last(Add(f, b)) = b
      /\ Add(f, b).errors = f.errors /\ Add(f, b).fatals = f.fatals
  BY <1>1, AddFacts
<1>3. Extends(g, Add(f, b), 0 + 1)
  BY <1>1, <1>2, ExtendsChain
<1>. QED
  BY <1>1, <1>2, <1>3 DEF f

LEMMA FatalAdd ==
  ASSUME NEW g, Code(g)
  PROVE  LET h == Add([g EXCEPT !.fatals = @ + 1], STALE)
         IN  Code(h) /\ Extends(g, h, 1) /\ h.fatals > g.fatals
<1> DEFINE f == [g EXCEPT !.fatals = @ + 1]
<1>1. Code(f) /\ Extends(g, f, 0) /\ f.fatals > g.fatals
  BY FatalFacts
<1> HIDE DEF f
<1>2. Code(Add(f, STALE)) /\ Extends(f, Add(f, STALE), 1) /\ Add(f, STALE).fatals = f.fatals
  BY <1>1, AddFacts
<1>3. Extends(g, Add(f, STALE), 0 + 1)
  BY <1>1, <1>2, ExtendsChain
<1>. QED
  BY <1>1, <1>2, <1>3 DEF f

(* What the four parts append. *)
LEMMA PutBitFacts ==
  ASSUME NEW g, NEW list \in Seq(Item), Len(list) > 1, Code(g)
  PROVE  LET h == PutBit(g, list)
         IN  Code(h) /\ Extends(g, h, 1) /\ h.fatals = g.fatals /\ Last(h) \in Byte
<1> DEFINE n == Truth(OutOfByte(list[2]))
           b == list[2].n % Radix
           f == Add([g EXCEPT !.errors = @ + n], b)
           bit == list[1]
<1>1. 1 \in 1..Len(list) /\ 2 \in 1..Len(list)
  BY LenProperties
<1>2. list[1] \in Item /\ list[2] \in Item
  BY <1>1, ElementOfSeq
<1>3. b \in Byte /\ n \in Nat
  <2>1. list[2].n \in Int
    BY <1>2 DEF Item
  <2>2. n \in {0, 1}
    BY TruthType
  <2>3. b \in Byte
    BY <2>1, LowByte
  <2> HIDE DEF n, b
  <2>. QED
    BY <2>2, <2>3
<1>4. PutBit(g, list) = CASE bit.unk -> f
                          [] ~bit.unk /\ bit.n > MaxBit -> [f EXCEPT !.errors = @ + 1]
                          [] OTHER -> [f EXCEPT !.bit = bit.n]
  BY DEF PutBit
<1> HIDE DEF n, b
<1>5. Code(f) /\ Extends(g, f, 1) /\ f.fatals = g.fatals /\ Last(f) = b
  BY <1>3, ErrorAdd
<1> HIDE DEF f
<1>6. ASSUME NEW h, h = [f EXCEPT !.errors = @ + 1]
      PROVE  Code(h) /\ Extends(g, h, 1) /\ h.fatals = g.fatals /\ Last(h) \in Byte
  <2>1. Code(h) /\ Extends(f, h, 0) /\ h.fatals = f.fatals /\ h.bytes = f.bytes
    BY <1>5, <1>6, ErrorFacts
  <2>2. Extends(g, h, 1 + 0)
    BY <1>5, <2>1, ExtendsChain
  <2>. QED
    BY <1>3, <1>5, <2>1, <2>2 DEF Last
<1>7. ASSUME NEW h, h = [f EXCEPT !.bit = bit.n]
      PROVE  Code(h) /\ Extends(g, h, 1) /\ h.fatals = g.fatals /\ Last(h) \in Byte
  <2>1. bit.n \in Int
    BY <1>2 DEF Item
  <2>2. Code(h) /\ h.fatals = f.fatals /\ h.bytes = f.bytes
    BY <1>5, <1>7, <2>1 DEF Code
  <2>3. Extends(g, h, 1)
    BY <1>5, <1>7 DEF Extends, Code
  <2>. QED
    BY <1>3, <1>5, <2>2, <2>3 DEF Last
<1>8. bit.unk \in BOOLEAN
  BY <1>2 DEF Item
<1> HIDE DEF bit
<1>. QED
  BY <1>3, <1>4, <1>5, <1>6, <1>7, <1>8

LEMMA PutOperandFacts ==
  ASSUME NEW g, NEW msb \in BOOLEAN, NEW n \in Int, Code(g)
  PROVE  LET h == PutOperand(g, msb, n)
             low == n % Radix
             high == (n \div Radix) % Radix
             l == Len(g.bytes)
         IN  /\ Code(h) /\ Extends(g, h, Opsize[g.mode])
             /\ h.errors = g.errors /\ h.fatals = g.fatals
             /\ Opsize[g.mode] = 1 => h.bytes[l + 1] = low
             /\ Opsize[g.mode] = 2 => /\ h.bytes[l + 1] = IF msb THEN high ELSE low
                                      /\ h.bytes[l + 2] = IF msb THEN low ELSE high
<1> DEFINE h == PutOperand(g, msb, n)
           low == n % Radix
           high == (n \div Radix) % Radix
           l == Len(g.bytes)
<1>1. low \in Byte /\ high \in Byte /\ l \in Nat /\ Opsize[g.mode] \in 0..2
  BY LowByte, CodeLength, TablesType DEF Code
<1>2. h = CASE Opsize[g.mode] = 0 -> g
            [] Opsize[g.mode] = 1 -> Add(g, low)
            [] Opsize[g.mode] = 2 -> IF msb THEN Add(Add(g, high), low) ELSE Add(Add(g, low), high)
  BY DEF PutOperand
<1> HIDE DEF low, high, h
<1>3. CASE Opsize[g.mode] = 0
  <2>1. h = g
    BY <1>2, <1>3
  <2>. QED
    BY <1>1, <1>3, <2>1 DEF Extends, Code, h
<1>4. CASE Opsize[g.mode] = 1
  <2>1. h = Add(g, low)
    BY <1>2, <1>4
  <2>2. Code(h) /\ Extends(g, h, 1) /\ Last(h) = low /\ h.errors = g.errors /\ h.fatals = g.fatals
    BY <1>1, <2>1, AddFacts
  <2>. QED
    BY <1>1, <1>4, <2>2 DEF Last, Extends, h, low
<1>5. ASSUME NEW a \in Byte, NEW b \in Byte, h = Add(Add(g, a), b)
      PROVE  /\ Code(h) /\ Extends(g, h, 2) /\ h.errors = g.errors /\ h.fatals = g.fatals
             /\ h.bytes[l + 1] = a /\ h.bytes[l + 2] = b
  <2> DEFINE f == Add(g, a)
  <2>1. Code(f) /\ Extends(g, f, 1) /\ Last(f) = a /\ f.errors = g.errors /\ f.fatals = g.fatals
    BY AddFacts
  <2>2. h = Add(f, b)
    BY <1>5
  <2> HIDE DEF f
  <2>3. Code(h) /\ Extends(f, h, 1) /\ Last(h) = b /\ h.errors = f.errors /\ h.fatals = f.fatals
    BY <2>1, <2>2, AddFacts
  <2>4. Extends(g, h, 1 + 1)
    BY <2>1, <2>3, ExtendsChain
  <2>5. Len(f.bytes) = l + 1 /\ Len(h.bytes) = l + 2
    BY <1>1, <2>1, <2>4 DEF Extends
  <2>6. h.bytes[l + 1] = f.bytes[l + 1]
    BY <1>1, <2>3, <2>5 DEF Extends
  <2>. QED
    BY <2>1, <2>3, <2>4, <2>5, <2>6 DEF Last
<1>6. CASE Opsize[g.mode] = 2
  <2>1. h = IF msb THEN Add(Add(g, high), low) ELSE Add(Add(g, low), high)
    BY <1>2, <1>6
  <2>. QED
    BY <1>1, <1>5, <1>6, <2>1 DEF h, low, high
<1>. QED
  BY <1>1, <1>3, <1>4, <1>6

LEMMA PutMaskFacts ==
  ASSUME NEW g, NEW list \in Seq(Item), NEW i \in Nat \ {0}, Code(g)
  PROVE  LET h == PutMask(g, list, i)
         IN  /\ Code(h) /\ Extends(g, h, 1)
             /\ h.fatals = g.fatals => i <= Len(list) /\ Last(h) \in Byte
<1>1. Len(list) \in Nat /\ g.fatals \in Nat
  BY LenProperties DEF Code
<1>2. CASE i > Len(list)
  <2>1. PutMask(g, list, i) = Add([g EXCEPT !.fatals = @ + 1], STALE)
    BY <1>2 DEF PutMask
  <2> DEFINE h == PutMask(g, list, i)
  <2>2. Code(h) /\ Extends(g, h, 1) /\ h.fatals > g.fatals
    BY <2>1, FatalAdd
  <2> HIDE DEF h
  <2>3. h.fatals # g.fatals
    BY <2>2 DEF Code
  <2>. QED
    BY <2>2, <2>3 DEF h
<1>3. CASE ~(i > Len(list))
  <2> DEFINE n == Truth(OutOfByte(list[i]))
             b == list[i].n % Radix
             h == PutMask(g, list, i)
  <2>1. h = Add([g EXCEPT !.errors = @ + n], b)
    BY <1>3 DEF PutMask
  <2>2. i \in 1..Len(list)
    BY <1>1, <1>3
  <2>3. list[i] \in Item
    BY <2>2, ElementOfSeq
  <2>4. b \in Byte /\ n \in Nat
    <3>1. list[i].n \in Int
      BY <2>3 DEF Item
    <3>2. n \in {0, 1}
      BY TruthType
    <3>3. b \in Byte
      BY <3>1, LowByte
    <3> HIDE DEF n, b
    <3>. QED
      BY <3>2, <3>3
  <2> HIDE DEF n, b, h
  <2>5. Code(h) /\ Extends(g, h, 1) /\ Last(h) = b
    BY <2>1, <2>4, ErrorAdd
  <2>. QED
    BY <2>2, <2>4, <2>5 DEF h
<1>. QED
  BY <1>2, <1>3

Near(dest) == -(Radix \div 2) <= dest /\ dest < Radix \div 2

LEMMA PutBranchFacts ==
  ASSUME NEW g, NEW list \in Seq(Item), NEW i \in Nat \ {0}, NEW pc, Code(g),
         pc.n \in Int, pc.unk \in BOOLEAN, g.prefix \in BOOLEAN
  PROVE  LET h == PutBranch(g, list, i, pc)
             dest == list[i].n - pc.n - (Glen(g) + 1)
         IN  /\ Code(h) /\ Extends(g, h, 1)
             /\ h.fatals = g.fatals => /\ i <= Len(list)
                                       /\ ~list[i].unk => Last(h) \in Byte
             /\ h.fatals = g.fatals /\ h.errors = g.errors /\ ~list[i].unk /\ ~pc.unk =>
                  Near(dest) /\ Last(h) = dest % Radix
<1> DEFINE h == PutBranch(g, list, i, pc)
           goal == list[i].n - pc.n - (Glen(g) + 1)
<1>1. Len(list) \in Nat /\ g.fatals \in Nat /\ g.errors \in Nat
  BY LenProperties DEF Code
<1>2. CASE i > Len(list)
  <2>1. h = Add([g EXCEPT !.fatals = @ + 1], STALE)
    BY <1>2 DEF PutBranch
  <2>2. Code(h) /\ Extends(g, h, 1) /\ h.fatals > g.fatals
    BY <2>1, FatalAdd
  <2> HIDE DEF h
  <2>3. h.fatals # g.fatals
    BY <2>2 DEF Code
  <2>. QED
    BY <2>2, <2>3 DEF h
<1>3. CASE ~(i > Len(list)) /\ list[i].unk
  <2>1. h = Add(g, STALE)
    BY <1>3 DEF PutBranch
  <2>2. Code(h) /\ Extends(g, h, 1)
    BY <2>1, AddFacts
  <2> HIDE DEF h
  <2>. QED
    BY <1>1, <1>3, <2>2 DEF h
<1>4. CASE ~(i > Len(list)) /\ ~list[i].unk
  <2> DEFINE dest == IF pc.unk THEN 0 ELSE goal
             n == Truth(~Near(dest))
             b == dest % Radix
  <2>1. h = Add([g EXCEPT !.errors = @ + n], b)
    BY <1>4 DEF PutBranch, Near
  <2>2. i \in 1..Len(list)
    BY <1>1, <1>4
  <2>3. list[i] \in Item
    BY <2>2, ElementOfSeq
  <2>4. Glen(g) \in Int
    BY CodeLength DEF Glen
  <2>5. goal \in Int
    BY <2>3, <2>4 DEF Item
  <2> HIDE DEF goal
  <2>6. dest \in Int
    BY <2>5
  <2> HIDE DEF dest
  <2>7. b \in Byte /\ n \in Nat
    <3>1. n \in {0, 1}
      BY TruthType
    <3>2. b \in Byte
      BY <2>6, LowByte
    <3> HIDE DEF n, b
    <3>. QED
      BY <3>1, <3>2
  <2>8. n = 0 => Near(dest)
    BY DEF Truth
  <2> HIDE DEF n, b, h
  <2>9. Code(h) /\ Extends(g, h, 1) /\ Last(h) = b /\ h.errors = g.errors + n /\ h.fatals = g.fatals
    BY <2>1, <2>7, ErrorAdd
  <2>10. h.errors = g.errors => Near(dest)
    BY <1>1, <2>7, <2>8, <2>9
  <2>11. ~pc.unk => dest = goal
    BY DEF dest
  <2>. QED
    BY <2>2, <2>7, <2>9, <2>10, <2>11 DEF h, goal, b
<1>. QED
  BY <1>2, <1>3, <1>4

-----------------------------------------------------------------------------
(* The whole instruction. *)
AllBytes(g) == \A k \in 1..Len(g.bytes) : g.bytes[k] \in Byte
AllKnown(list) == \A i \in 1..Len(list) : ~list[i].unk
Branches(mne, mode) == mne.rel \/ mode = "REL"
Size(mne, mode) == (IF mode = "REL" THEN 0 ELSE Opsize[mode]) + Truth(mne.mask) + Truth(Branches(mne, mode))
Target(mne, mode) == Truth(mne.mask) + CASE mode = "REL" -> 1 [] mode = "BITBRAMOD" -> 3 [] OTHER -> 2

OperandBytes(g, msb, n) ==
  LET low == n % Radix
      high == (n \div Radix) % Radix
  IN  /\ Opsize[g.mode] = 1 => g.bytes[1] = low
      /\ Opsize[g.mode] = 2 => /\ g.bytes[1] = IF msb THEN high ELSE low
                               /\ g.bytes[2] = IF msb THEN low ELSE high

LEMMA GrowBytes ==
  ASSUME NEW g, NEW h, Code(g), Code(h), Extends(g, h, 1), AllBytes(g), Last(h) \in Byte
  PROVE  AllBytes(h)
<1>1. Len(g.bytes) \in Nat /\ Len(h.bytes) = Len(g.bytes) + 1
  BY CodeLength DEF Extends
<1>2. ASSUME NEW k \in 1..Len(h.bytes)
      PROVE  h.bytes[k] \in Byte
  <2>1. CASE k = Len(h.bytes)
    BY <2>1 DEF Last
  <2>2. CASE k # Len(h.bytes)
    <3>1. k \in 1..Len(g.bytes)
      BY <1>1, <2>2
    <3>. QED
      BY <3>1 DEF Extends, AllBytes
  <2>. QED
    BY <2>1, <2>2
<1>. QED
  BY <1>2 DEF AllBytes

LEMMA MnemonicType ==
  ASSUME NEW mne \in Mnemonics
  PROVE  mne.mask \in BOOLEAN /\ mne.rel \in BOOLEAN /\ mne.imod \in BOOLEAN
         /\ mne.prefix \in BOOLEAN /\ mne.msb \in BOOLEAN /\ mne.okmask \subseteq Modes
  BY MnemonicAssumption

(* The first part: a bit and its address, nothing, or the operand.         *)
LEMMA FirstPart ==
  ASSUME NEW g, NEW mne \in Mnemonics, NEW list \in Seq(Item), Code(g), g.bytes = <<>>,
         Len(list) > 0, g.mode \in BitModes => Len(list) > 1
  PROVE  LET h == CASE g.mode \in {"BITMOD", "BITBRAMOD"} -> PutBit(g, list)
                    [] g.mode = "REL" -> g
                    [] OTHER -> PutOperand(g, mne.msb, list[1].n)
         IN  /\ Code(h) /\ Extends(g, h, IF g.mode = "REL" THEN 0 ELSE Opsize[g.mode])
             /\ h.fatals = g.fatals /\ AllBytes(h)
             /\ g.mode \notin BitModes \cup {"REL"} => OperandBytes(h, mne.msb, list[1].n)
<1>1. Len(g.bytes) = 0 /\ g.mode \in Modes /\ Opsize[g.mode] \in 0..2
  BY EmptySeq, TablesType DEF Code
<1>2. CASE g.mode \in BitModes
  <2> DEFINE h == PutBit(g, list)
  <2>1. Code(h) /\ Extends(g, h, 1) /\ h.fatals = g.fatals /\ Last(h) \in Byte
    BY <1>2, PutBitFacts
  <2>2. Opsize[g.mode] = 1 /\ g.mode # "REL"
    BY <1>2 DEF BitModes, Opsize, Modes
  <2> HIDE DEF h
  <2>3. AllBytes(h)
    BY <1>1, <2>1, GrowBytes DEF AllBytes
  <2>. QED
    BY <1>2, <2>1, <2>2, <2>3 DEF h, BitModes
<1>3. CASE g.mode = "REL"
  <2>1. Extends(g, g, 0) /\ AllBytes(g) /\ g.mode \notin BitModes
    BY <1>1, <1>3 DEF Extends, AllBytes, BitModes, Code
  <2>. QED
    BY <1>3, <2>1 DEF BitModes
<1>4. CASE g.mode \notin BitModes \cup {"REL"}
  <2> DEFINE n == list[1].n
             h == PutOperand(g, mne.msb, n)
             low == n % Radix
             high == (n \div Radix) % Radix
  <2>1. n \in Int
    <3>1. 1 \in 1..Len(list)
      BY LenProperties
    <3>2. list[1] \in Item
      BY <3>1, ElementOfSeq
    <3>. QED
      BY <3>2 DEF Item
  <2>2. mne.msb \in BOOLEAN
    BY MnemonicType
  <2> HIDE DEF n
  <2>3. low \in Byte /\ high \in Byte
    BY <2>1, LowByte
  <2>4. /\ Code(h) /\ Extends(g, h, Opsize[g.mode])
        /\ h.errors = g.errors /\ h.fatals = g.fatals
        /\ Opsize[g.mode] = 1 => h.bytes[Len(g.bytes) + 1] = low
        /\ Opsize[g.mode] = 2 => /\ h.bytes[Len(g.bytes) + 1] = IF mne.msb THEN high ELSE low
                                 /\ h.bytes[Len(g.bytes) + 2] = IF mne.msb THEN low ELSE high
    BY <2>1, <2>2, PutOperandFacts
  <2>5. Len(h.bytes) = Opsize[g.mode] /\ h.mode = g.mode
    BY <1>1, <2>4 DEF Extends
  <2> HIDE DEF h, low, high
  <2>6. AllBytes(h)
    <3>1. ASSUME NEW k \in 1..Len(h.bytes)
          PROVE  h.bytes[k] \in Byte
      <4>1. Opsize[g.mode] \in {1, 2} /\ k \in {1, 2} /\ (Opsize[g.mode] = 1 => k = 1)
        BY <1>1, <2>5
      <4>. QED
        BY <1>1, <2>3, <2>4, <4>1
    <3>. QED
      BY <3>1 DEF AllBytes
  <2>7. OperandBytes(h, mne.msb, n)
    BY <1>1, <2>4, <2>5 DEF OperandBytes, low, high
  <2>8. (CASE g.mode \in {"BITMOD", "BITBRAMOD"} -> PutBit(g, list)
           [] g.mode = "REL" -> g
           [] OTHER -> PutOperand(g, mne.msb, list[1].n)) = h
    BY <1>4 DEF h, n, BitModes
  <2>. QED
    BY <1>4, <2>4, <2>6, <2>7, <2>8 DEF n
<1>. QED
  BY <1>2, <1>3, <1>4 DEF BitModes

LEMMA EncodeFacts ==
  ASSUME NEW g, NEW mne \in Mnemonics, NEW list \in Seq(Item), NEW pc, Code(g), g.bytes = <<>>,
         g.prefix \in BOOLEAN, Len(list) > 0, g.mode \in BitModes => Len(list) > 1,
         pc.n \in Int, pc.unk \in BOOLEAN
  PROVE  LET h == Encode(g, mne, list, pc)
             goal == list[Target(mne, g.mode)].n - pc.n - Glen(h)
         IN  /\ Code(h) /\ Extends(g, h, Size(mne, g.mode))
             /\ h.fatals = g.fatals /\ AllKnown(list) => AllBytes(h)
             /\ g.mode \notin BitModes \cup {"REL"} => OperandBytes(h, mne.msb, list[1].n)
             /\ h.fatals = g.fatals /\ h.errors = g.errors /\ AllKnown(list) /\ ~pc.unk /\ Branches(mne, g.mode) =>
                  /\ Near(goal) /\ Last(h) = goal % Radix /\ Len(h.bytes) > 0
                  /\ Target(mne, g.mode) <= Len(list)
<1> DEFINE k1 == IF g.mode = "REL" THEN 0 ELSE Opsize[g.mode]
           g1 == CASE g.mode \in {"BITMOD", "BITBRAMOD"} -> PutBit(g, list)
                   [] g.mode = "REL" -> g
                   [] OTHER -> PutOperand(g, mne.msb, list[1].n)
           i == CASE g.mode = "REL" -> 1 [] g.mode = "BITBRAMOD" -> 3 [] OTHER -> 2
           g2 == IF mne.mask THEN PutMask(g1, list, i) ELSE g1
           j == IF mne.mask /\ i <= Len(list) THEN i + 1 ELSE i
           h == Encode(g, mne, list, pc)
<1>1. h = IF Branches(mne, g.mode) THEN PutBranch(g2, list, j, pc) ELSE g2
  BY DEF Encode, Branches
<1>2. /\ Code(g1) /\ Extends(g, g1, k1) /\ g1.fatals = g.fatals /\ AllBytes(g1)
      /\ g.mode \notin BitModes \cup {"REL"} => OperandBytes(g1, mne.msb, list[1].n)
  BY FirstPart
<1>3. i \in Nat \ {0} /\ Target(mne, g.mode) = Truth(mne.mask) + i
  BY DEF Target
<1>4. mne.mask \in BOOLEAN /\ Len(list) \in Nat /\ k1 \in Nat
  BY MnemonicType, LenProperties, TablesType DEF Code
<1> HIDE DEF g1, i, h, k1
<1>5. ASSUME mne.mask
      PROVE  /\ Code(g2) /\ Extends(g1, g2, 1)
             /\ g2.fatals = g1.fatals => i <= Len(list) /\ Last(g2) \in Byte
  BY <1>2, <1>3, <1>5, PutMaskFacts
<1>6. Code(g2) /\ Extends(g1, g2, Truth(mne.mask)) /\ Truth(mne.mask) \in Nat
  <2>1. CASE mne.mask
    <3>1. Truth(mne.mask) = 1
      BY <2>1 DEF Truth
    <3>2. Code(g2) /\ Extends(g1, g2, 1)
      BY <1>5, <2>1
    <3> HIDE DEF g2
    <3>. QED
      BY <3>1, <3>2
  <2>2. CASE ~mne.mask
    <3>1. Truth(mne.mask) = 0 /\ g2 = g1
      BY <2>2 DEF Truth
    <3>2. Extends(g1, g1, 0)
      BY <1>2, CodeLength DEF Extends, Code
    <3>. QED
      BY <1>2, <3>1, <3>2
  <2>. QED
    BY <1>4, <2>1, <2>2
<1>7. Extends(g, g2, k1 + Truth(mne.mask))
  BY <1>2, <1>4, <1>6, ExtendsChain
<1>8. g2.fatals = g.fatals =>
        AllBytes(g2) /\ j = Target(mne, g.mode)
  <2> SUFFICES ASSUME g2.fatals = g.fatals
               PROVE  AllBytes(g2) /\ j = Target(mne, g.mode)
    OBVIOUS
  <2>1. CASE mne.mask
    <3>1. Code(g2) /\ Extends(g1, g2, 1) /\ i <= Len(list) /\ Last(g2) \in Byte
      BY <1>2, <1>5, <2>1
    <3>2. AllBytes(g2)
      BY <1>2, <3>1, GrowBytes
    <3>3. j = i + 1 /\ Truth(mne.mask) = 1
      BY <2>1, <3>1 DEF Truth
    <3>. QED
      BY <1>3, <3>2, <3>3
  <2>2. CASE ~mne.mask
    <3>1. g2 = g1 /\ j = i /\ Truth(mne.mask) = 0
      BY <2>2 DEF Truth
    <3>. QED
      BY <1>2, <1>3, <3>1
  <2>. QED
    BY <1>4, <2>1, <2>2
<1>9. j \in Nat \ {0}
  BY <1>3
<1>10. g2.prefix \in BOOLEAN /\ g.fatals \in Nat /\ g2.fatals \in Nat /\ g2.fatals >= g.fatals
       /\ g.errors \in Nat /\ g2.errors \in Nat /\ g2.errors >= g.errors
  BY <1>6, <1>7 DEF Extends, Code
<1> HIDE DEF g2, j
<1>11. g.mode \notin BitModes \cup {"REL"} => OperandBytes(g2, mne.msb, list[1].n)
  <2> SUFFICES ASSUME g.mode \notin BitModes \cup {"REL"}
               PROVE  OperandBytes(g2, mne.msb, list[1].n)
    OBVIOUS
  <2>1. Len(g1.bytes) = Opsize[g.mode] /\ g1.mode = g.mode /\ g2.mode = g.mode
    <3>1. Len(g.bytes) = 0
      BY EmptySeq
    <3>. QED
      BY <1>2, <1>4, <1>7, <3>1 DEF Extends, k1
  <2>2. \A x \in 1..Len(g1.bytes) : g2.bytes[x] = g1.bytes[x]
    BY <1>6 DEF Extends
  <2>. QED
    BY <1>2, <2>1, <2>2 DEF OperandBytes
<1>12. CASE ~Branches(mne, g.mode)
  <2>1. h = g2 /\ Truth(Branches(mne, g.mode)) = 0
    BY <1>1, <1>12 DEF Truth
  <2>2. Size(mne, g.mode) = k1 + Truth(mne.mask)
    BY <1>4, <1>6, <2>1 DEF Size, k1
  <2>. QED
    BY <1>6, <1>7, <1>8, <1>11, <1>12, <2>1, <2>2 DEF h
<1>13. CASE Branches(mne, g.mode)
  <2> DEFINE dest == list[j].n - pc.n - (Glen(g2) + 1)
             goal == list[Target(mne, g.mode)].n - pc.n - Glen(h)
  <2>1. h = PutBranch(g2, list, j, pc) /\ Truth(Branches(mne, g.mode)) = 1
    BY <1>1, <1>13 DEF Truth
  <2>2. /\ Code(h) /\ Extends(g2, h, 1)
        /\ h.fatals = g2.fatals => /\ j <= Len(list)
                                   /\ ~list[j].unk => Last(h) \in Byte
        /\ h.fatals = g2.fatals /\ h.errors = g2.errors /\ ~list[j].unk /\ ~pc.unk =>
             Near(dest) /\ Last(h) = dest % Radix
    BY <1>6, <1>9, <1>10, <2>1, PutBranchFacts
  <2>3. Extends(g, h, k1 + Truth(mne.mask) + 1)
    BY <1>4, <1>6, <1>7, <2>2, ExtendsChain
  <2>4. Size(mne, g.mode) = k1 + Truth(mne.mask) + 1
    BY <1>4, <1>6, <2>1 DEF Size, k1
  <2>5. h.fatals = g.fatals => h.fatals = g2.fatals /\ g2.fatals = g.fatals
    BY <1>10, <2>2 DEF Extends, Code
  <2>6. h.errors = g.errors => h.errors = g2.errors
    BY <1>10, <2>2 DEF Extends, Code
  <2>7. h.fatals = g.fatals /\ AllKnown(list) => ~list[j].unk
    BY <1>4, <1>9, <2>2, <2>5 DEF AllKnown
  <2>8. h.fatals = g.fatals /\ AllKnown(list) => AllBytes(h)
    BY <1>6, <1>8, <2>2, <2>5, <2>7, GrowBytes
  <2>9. g.mode \notin BitModes \cup {"REL"} => OperandBytes(h, mne.msb, list[1].n)
    <3> SUFFICES ASSUME g.mode \notin BitModes \cup {"REL"}
                 PROVE  OperandBytes(h, mne.msb, list[1].n)
      OBVIOUS
    <3>1. Len(g2.bytes) >= Opsize[g.mode] /\ g2.mode = g.mode /\ h.mode = g.mode /\ Len(g2.bytes) \in Nat
      <4>1. Len(g.bytes) = 0
        BY EmptySeq
      <4>. QED
        BY <1>4, <1>6, <1>7, <2>2, <4>1, CodeLength DEF Extends, k1
    <3>2. \A x \in 1..Len(g2.bytes) : h.bytes[x] = g2.bytes[x]
      BY <2>2 DEF Extends
    <3>. QED
      BY <1>11, <3>1, <3>2 DEF OperandBytes
  <2>10. Glen(h) = Glen(g2) + 1 /\ Len(h.bytes) > 0
    BY <1>6, <2>2, CodeLength DEF Glen, Extends
  <2>11. h.fatals = g.fatals => goal = dest
    BY <1>8, <2>5, <2>10
  <2> HIDE DEF goal, dest
  <2>12. h.fatals = g.fatals /\ h.errors = g.errors /\ AllKnown(list) /\ ~pc.unk =>
           /\ Near(goal) /\ Last(h) = goal % Radix /\ Len(h.bytes) > 0
           /\ Target(mne, g.mode) <= Len(list)
    BY <1>8, <2>2, <2>5, <2>6, <2>7, <2>10, <2>11
  <2>. QED
    BY <2>2, <2>3, <2>4, <2>8, <2>9, <2>12 DEF h, goal
<1>. QED
  BY <1>12, <1>13

-----------------------------------------------------------------------------
(* v_mnemonic: the mode, and the instruction before its bytes.             *)
Legal(mne, list) == FirstLegal(mne, StartMode(mne, list))
Chosen(mne, extension, list) == IF extension = None THEN Legal(mne, list) ELSE extension
ModeFor(mne, extension, list) == Widen(mne, Needs(list[1]), Chosen(mne, extension, list))
Blank(mne, extension, list) ==
  LET mode == ModeFor(mne, extension, list)
  IN  [generated |-> TRUE, errors |-> Truth(Needs(list[1]) > Opsize[mode] /\ ~list[1].unk),
       fatals |-> 0, redo |-> Redos(list), mode |-> mode, prefix |-> mne.prefix, bit |-> 0,
       bytes |-> <<>>]

Operands == {list \in Seq(Item) : Len(list) > 0}

LEMMA OperandsType ==
  ASSUME NEW list \in Operands
  PROVE  list \in Seq(Item) /\ Len(list) \in Nat \ {0} /\ 1 \in DOMAIN list /\ list[1] \in Item
<1>1. list \in Seq(Item) /\ Len(list) \in Nat \ {0} /\ 1 \in 1..Len(list) /\ DOMAIN list = 1..Len(list)
  BY LenProperties DEF Operands
<1>. QED
  BY <1>1, ElementOfSeq

LEMMA AssembleCases ==
  ASSUME NEW mne, NEW extension, NEW list, NEW pc
  PROVE  Assemble(mne, extension, list, pc) =
           IF Legal(mne, list) \notin mne.okmask \/ Chosen(mne, extension, list) \notin mne.okmask
           THEN [Rejected EXCEPT !.redo = Redos(list)]
           ELSE Encode(Blank(mne, extension, list), mne, list, pc)
  BY DEF Assemble, Legal, Chosen, ModeFor, Blank

LEMMA StartModeType ==
  ASSUME NEW mne \in Mnemonics, NEW list \in Operands
  PROVE  /\ StartMode(mne, list) \in Modes
         /\ StartMode(mne, list) \in BitModes => Len(list) > 1
<1>1. list[1].mode \in AddressModes
  BY OperandsType DEF Item
<1>2. list[1].mode \in Modes \ BitModes
  BY <1>1 DEF AddressModes, Modes, BitModes
<1>3. mne.imod \in BOOLEAN /\ mne.rel \in BOOLEAN
  BY MnemonicType
<1>. QED
  BY <1>2, <1>3 DEF StartMode, BitModes, Modes

LEMMA ChosenType ==
  ASSUME NEW mne \in Mnemonics, NEW extension \in Extensions, NEW list \in Operands
  PROVE  /\ Legal(mne, list) \in Modes /\ Chosen(mne, extension, list) \in Modes
         /\ Needs(list[1]) \in 0..2
         /\ ModeFor(mne, extension, list) \in Modes
<1>1. Legal(mne, list) \in Modes
  BY StartModeType, FirstLegalFacts DEF Legal
<1>2. extension # None => extension \in Modes
  BY MnemonicAssumption
<1>3. Chosen(mne, extension, list) \in Modes
  BY <1>1, <1>2 DEF Chosen
<1>4. Needs(list[1]) \in 0..2
  BY OperandsType, NeedsType
<1>. QED
  BY <1>1, <1>3, <1>4, WidenFacts DEF ModeFor

LEMMA OneBitMode ==
  ASSUME NEW mne \in Mnemonics, NEW a \in mne.okmask, NEW b \in mne.okmask, a \in BitModes
  PROVE  b = a
<1>1. PICK m \in Modes : mne.okmask = {m}
  BY MnemonicAssumption DEF BitModes
<1>. QED
  BY <1>1

(* A bit needs an address: the operand has two items.                      *)
LEMMA BitModeHasTwo ==
  ASSUME NEW mne \in Mnemonics, NEW extension \in Extensions, NEW list \in Operands,
         Legal(mne, list) \in mne.okmask, Chosen(mne, extension, list) \in mne.okmask,
         ModeFor(mne, extension, list) \in BitModes
  PROVE  Len(list) > 1
<1>1. Chosen(mne, extension, list) \in BitModes
  BY ChosenType, WidenFacts DEF ModeFor
<1>2. Legal(mne, list) \in BitModes
  BY <1>1, OneBitMode
<1>3. StartMode(mne, list) \in BitModes
  BY <1>2, StartModeType, FirstLegalFacts DEF Legal
<1>. QED
  BY <1>3, StartModeType

LEMMA RedosMeaning ==
  ASSUME NEW list \in Operands, Redos(list) = 0
  PROVE  AllKnown(list)
<1> DEFINE U == {i \in DOMAIN list : list[i].unk}
<1>1. DOMAIN list = 1..Len(list) /\ Len(list) \in Nat
  BY OperandsType, LenProperties
<1>2. IsFiniteSet(1..Len(list)) /\ U \in SUBSET (1..Len(list))
  BY <1>1, FS_Interval
<1>3. IsFiniteSet(U)
  BY <1>2, FS_Subset
<1>4. Cardinality(U) = 0
  BY DEF Redos
<1>5. U = {}
  BY <1>3, <1>4, FS_EmptySet
<1>. QED
  BY <1>1, <1>5 DEF AllKnown

LEMMA BlankCode ==
  ASSUME NEW mne \in Mnemonics, NEW extension \in Extensions, NEW list \in Operands
  PROVE  LET g == Blank(mne, extension, list)
         IN  /\ Code(g) /\ g.bytes = <<>> /\ g.prefix = mne.prefix /\ g.prefix \in BOOLEAN
             /\ g.fatals = 0 /\ g.mode = ModeFor(mne, extension, list) /\ g.generated = TRUE
             /\ g.redo = Redos(list)
             /\ g.errors = Truth(Needs(list[1]) > Opsize[g.mode] /\ ~list[1].unk)
<1> DEFINE mode == ModeFor(mne, extension, list)
           g == Blank(mne, extension, list)
           n == Truth(Needs(list[1]) > Opsize[mode] /\ ~list[1].unk)
           r == Redos(list)
<1>1. g = [generated |-> TRUE, errors |-> n, fatals |-> 0, redo |-> r, mode |-> mode,
           prefix |-> mne.prefix, bit |-> 0, bytes |-> <<>>]
  BY DEF Blank
<1>2. n \in {0, 1}
  BY TruthType
<1>3. mode \in Modes /\ mne.prefix \in BOOLEAN
  BY ChosenType, MnemonicType
<1>4. <<>> \in Seq({STALE} \cup Byte)
  BY EmptySeq
<1> HIDE DEF n, r, mode, g
<1>5. DOMAIN g = {"generated", "errors", "fatals", "redo", "mode", "prefix", "bit", "bytes"}
  BY <1>1
<1>6. /\ g.bytes = <<>> /\ g.prefix = mne.prefix /\ g.fatals = 0 /\ g.mode = mode
      /\ g.generated = TRUE /\ g.redo = r /\ g.errors = n /\ g.bit = 0
  BY <1>1
<1>7. Code(g)
  BY <1>2, <1>3, <1>4, <1>5, <1>6 DEF Code
<1>. QED
  BY <1>3, <1>6, <1>7 DEF g, mode, n, r

(* An instruction that was generated, and what is known of it.             *)
Made(mne, extension, list, pc, c) ==
  /\ mne \in Mnemonics /\ extension \in Extensions /\ list \in Operands
  /\ pc.n \in Int /\ pc.unk \in BOOLEAN
  /\ Legal(mne, list) \in mne.okmask /\ Chosen(mne, extension, list) \in mne.okmask
  /\ c = Assemble(mne, extension, list, pc)
Goal(mne, list, pc, c) == list[Target(mne, c.mode)].n - pc.n - Glen(c)
TooWide(list, c) == Truth(Needs(list[1]) > Opsize[c.mode] /\ ~list[1].unk)

LEMMA MadeFacts ==
  ASSUME NEW mne, NEW extension, NEW list, NEW pc, NEW c, Made(mne, extension, list, pc, c)
  PROVE  /\ Code(c) /\ c.generated = TRUE /\ c.mode = ModeFor(mne, extension, list)
         /\ c.redo = Redos(list) /\ c.errors >= TooWide(list, c) /\ c.prefix = mne.prefix
         /\ Len(c.bytes) = Size(mne, c.mode)
         /\ c.fatals = 0 /\ AllKnown(list) => AllBytes(c)
         /\ c.mode \notin BitModes \cup {"REL"} => OperandBytes(c, mne.msb, list[1].n)
         /\ c.fatals = 0 /\ c.errors = 0 /\ AllKnown(list) /\ ~pc.unk /\ Branches(mne, c.mode) =>
              /\ Near(Goal(mne, list, pc, c)) /\ Last(c) = Goal(mne, list, pc, c) % Radix
              /\ Len(c.bytes) > 0 /\ Target(mne, c.mode) <= Len(list)
<1>0. /\ mne \in Mnemonics /\ extension \in Extensions /\ list \in Operands
      /\ pc.n \in Int /\ pc.unk \in BOOLEAN
      /\ Legal(mne, list) \in mne.okmask /\ Chosen(mne, extension, list) \in mne.okmask
      /\ c = Assemble(mne, extension, list, pc)
  BY DEF Made
<1> DEFINE g == Blank(mne, extension, list)
           mode == ModeFor(mne, extension, list)
           tooWide == Truth(Needs(list[1]) > Opsize[mode] /\ ~list[1].unk)
<1>1. c = Encode(g, mne, list, pc)
  BY <1>0, AssembleCases
<1>2. /\ Code(g) /\ g.bytes = <<>> /\ g.prefix = mne.prefix /\ g.prefix \in BOOLEAN
      /\ g.fatals = 0 /\ g.mode = mode /\ g.generated = TRUE
      /\ g.redo = Redos(list) /\ g.errors = tooWide
  BY <1>0, BlankCode
<1>3. mode \in BitModes => Len(list) > 1
  BY <1>0, BitModeHasTwo
<1>4. list \in Seq(Item) /\ Len(list) > 0
  BY <1>0, OperandsType
<1>5. tooWide \in {0, 1}
  BY TruthType
<1> HIDE DEF g, tooWide, mode
<1> DEFINE goal == list[Target(mne, mode)].n - pc.n - Glen(c)
<1>6. /\ Code(c) /\ Extends(g, c, Size(mne, mode))
      /\ c.fatals = g.fatals /\ AllKnown(list) => AllBytes(c)
      /\ mode \notin BitModes \cup {"REL"} => OperandBytes(c, mne.msb, list[1].n)
      /\ c.fatals = g.fatals /\ c.errors = g.errors /\ AllKnown(list) /\ ~pc.unk /\ Branches(mne, mode) =>
           /\ Near(goal) /\ Last(c) = goal % Radix /\ Len(c.bytes) > 0
           /\ Target(mne, mode) <= Len(list)
  BY <1>0, <1>1, <1>2, <1>3, <1>4, EncodeFacts
<1> HIDE DEF goal
<1>7. Len(g.bytes) = 0
  BY <1>2, EmptySeq
<1>8. Size(mne, mode) \in Nat
  <2>1. mode \in Modes
    BY <1>0, ChosenType DEF mode
  <2>2. Opsize[mode] \in Nat /\ Truth(mne.mask) \in {0, 1} /\ Truth(Branches(mne, mode)) \in {0, 1}
    BY <2>1, TablesType, TruthType
  <2>. QED
    BY <2>2 DEF Size
<1>9. /\ c.generated = TRUE /\ c.mode = mode /\ c.redo = Redos(list) /\ c.prefix = mne.prefix
      /\ c.errors >= tooWide /\ Len(c.bytes) = Size(mne, mode)
  BY <1>2, <1>6, <1>7, <1>8 DEF Extends
<1>10. c.errors = 0 => c.errors = g.errors
  BY <1>2, <1>5, <1>9
<1>. QED
  <2>1. goal = Goal(mne, list, pc, c) /\ tooWide = TooWide(list, c)
    BY <1>9 DEF goal, Goal, tooWide, TooWide
  <2>. QED
    BY <1>2, <1>6, <1>9, <1>10, <2>1 DEF mode

LEMMA MadeMode ==
  ASSUME NEW mne, NEW extension, NEW list, NEW pc, NEW c, Made(mne, extension, list, pc, c)
  PROVE  c.mode = ModeFor(mne, extension, list)
BY MadeFacts

LEMMA MadePrefix ==
  ASSUME NEW mne, NEW extension, NEW list, NEW pc, NEW c, Made(mne, extension, list, pc, c)
  PROVE  c.prefix = mne.prefix
BY MadeFacts

LEMMA MadeSize ==
  ASSUME NEW mne, NEW extension, NEW list, NEW pc, NEW c, Made(mne, extension, list, pc, c)
  PROVE  Len(c.bytes) = Size(mne, c.mode)
BY MadeFacts

LEMMA MadeCode ==
  ASSUME NEW mne, NEW extension, NEW list, NEW pc, NEW c, Made(mne, extension, list, pc, c)
  PROVE  Code(c) /\ c.generated = TRUE /\ c.errors >= TooWide(list, c)
BY MadeFacts

LEMMA RejectedFacts ==
  ASSUME NEW mne \in Mnemonics, NEW extension \in Extensions, NEW list \in Operands, NEW pc,
         Legal(mne, list) \notin mne.okmask \/ Chosen(mne, extension, list) \notin mne.okmask
  PROVE  LET c == Assemble(mne, extension, list, pc)
         IN  c.generated = FALSE /\ c.errors = 1 /\ Code([c EXCEPT !.mode = "IMP"])
<1> DEFINE c == Assemble(mne, extension, list, pc)
           r == Redos(list)
<1>1. c = [Rejected EXCEPT !.redo = r]
  BY AssembleCases
<1>2. <<>> \in Seq({STALE} \cup Byte) /\ "IMP" \in Modes
  BY EmptySeq DEF Modes
<1> HIDE DEF r
<1>. QED
  BY <1>1, <1>2 DEF Rejected, Code

-----------------------------------------------------------------------------
(* Numbers and the bytes that stand for them.                              *)
(* A displacement that fits is what its byte says with a sign; and so is   *)
(* an operand, with a sign or without.                                     *)
LEMMA SignedByte ==
  ASSUME NEW n \in Int
  PROVE  /\ Near(n) => Signed(n % Radix) = n
         /\ InByte(n) => n \in {n % Radix, Signed(n % Radix)}
<1>1. Radix \in Nat \ {0}
  BY ExprAssumption
<1> DEFINE b == n % Radix
           half == Radix \div 2
<1>2. half \in Nat /\ half <= Radix /\ half + half <= Radix
  BY <1>1
<1>3. /\ 0 <= n /\ n < Radix => b = n
      /\ -Radix <= n /\ n < 0 => b = n + Radix
  BY <1>1, SmallRemainder
<1>4. Signed(b) = IF b < half THEN b ELSE b - Radix
  BY DEF Signed
<1>5. /\ Near(n) <=> -half <= n /\ n < half
      /\ InByte(n) <=> -half <= n /\ n < Radix
  BY DEF Near, InByte
<1> HIDE DEF b, half
<1>6. Near(n) => Signed(b) = n
  BY <1>1, <1>2, <1>3, <1>4, <1>5
<1>7. InByte(n) => n = b \/ n = Signed(b)
  BY <1>1, <1>2, <1>3, <1>4, <1>5
<1>. QED
  BY <1>6, <1>7 DEF b

-----------------------------------------------------------------------------
(* The invariant: the instruction is what v_mnemonic makes of the operand, *)
(* and the assembler's own symbol for the location is in the table.        *)
Done ==
  insn.done => /\ insn.mne \in Mnemonics /\ insn.extension \in Extensions /\ operand # <<>>
               /\ insn.code = Assemble(insn.mne, insn.extension, operand, Pc)

MnemonicInv == StackInv /\ TypeInv /\ insn.done \in BOOLEAN /\ Done

LEMMA StepOfExpr ==
  ASSUME [Next]_vars
  PROVE  [ExprNext]_exprvars
  BY DEF Next, Evaluate, VMnemonic, vars

LEMMA MnemonicInit ==
  ASSUME Init
  PROVE  MnemonicInv
<1>1. StackInv /\ TypeInv
  BY StackInit, TypeInit DEF Init
<1>2. insn.done = FALSE
  BY DEF Init
<1>. QED
  BY <1>1, <1>2 DEF MnemonicInv, Done

LEMMA MnemonicStep ==
  ASSUME MnemonicInv, [Next]_vars
  PROVE  MnemonicInv'
<1>1. StackInv' /\ TypeInv'
  BY StepOfExpr, ExprStep, ExprStutter, TypeStep, TypeStutter DEF MnemonicInv
<1>2. insn'.done \in BOOLEAN /\ Done'
  <2>1. CASE Evaluate
    <3>1. insn' = insn /\ ~insn.done
      BY <2>1 DEF Evaluate
    <3>. QED
      BY <3>1 DEF MnemonicInv, Done
  <2>2. CASE VMnemonic
    <3>1. PICK mne \in Mnemonics, extension \in Extensions :
            insn' = [done |-> TRUE, mne |-> mne, extension |-> extension,
                     code |-> Assemble(mne, extension, operand, Pc)]
      BY <2>2 DEF VMnemonic
    <3>2. operand # <<>> /\ operand' = operand /\ table' = table
      BY <2>2 DEF VMnemonic, exprvars
    <3>3. insn'.done = TRUE /\ insn'.mne = mne /\ insn'.extension = extension
          /\ insn'.code = Assemble(mne, extension, operand, Pc)
      BY <3>1
    <3>4. Pc' = Pc
      BY <3>2 DEF Pc
    <3>. QED
      BY <3>2, <3>3, <3>4 DEF Done
  <2>3. CASE UNCHANGED vars
    <3>1. insn' = insn /\ operand' = operand /\ table' = table
      BY <2>3 DEF vars, exprvars
    <3>. QED
      BY <3>1 DEF MnemonicInv, Done, Pc
  <2>. QED
    BY <2>1, <2>2, <2>3 DEF Next
<1>. QED
  BY <1>1, <1>2 DEF MnemonicInv

(* In every state: once v_mnemonic is through, the code in Gen is what it  *)
(* makes of the operand that eval returned, under the location counter     *)
(* eval saw (ops.c:153-395).                                               *)
THEOREM InstructionInductive == Spec => []MnemonicInv
<1>1. Init => MnemonicInv
  BY MnemonicInit
<1>2. MnemonicInv /\ [Next]_vars => MnemonicInv'
  BY MnemonicStep
<1>. QED
  BY <1>1, <1>2, PTL DEF Spec

(* What an instruction that is done was made of.                           *)
LEMMA DoneFacts ==
  ASSUME MnemonicInv, insn.done
  PROVE  /\ insn.mne \in Mnemonics /\ insn.extension \in Extensions
         /\ operand \in Operands /\ First \in Item
         /\ Pc.n \in Int /\ Pc.unk \in BOOLEAN
         /\ insn.code = Assemble(insn.mne, insn.extension, operand, Pc)
<1>1. operand \in Seq(Item) /\ operand # <<>>
  BY DEF MnemonicInv, Done, TypeInv
<1>2. Len(operand) > 0
  BY <1>1, EmptySeq, LenProperties
<1>3. operand \in Operands
  BY <1>1, <1>2 DEF Operands
<1>4. First \in Item
  BY <1>3, OperandsType DEF First
<1>5. "." \in DOMAIN table
  BY MnemonicAssumption DEF MnemonicInv, TypeInv, TableTyped
<1>6. Entry(table["."])
  BY <1>5 DEF MnemonicInv, TypeInv, TableTyped
<1>. QED
  BY <1>3, <1>4, <1>6 DEF MnemonicInv, Done, Pc, Entry

(* Once it is generated, what the assembler knows about it.                *)
LEMMA DoneGenerated ==
  ASSUME MnemonicInv, Generated
  PROVE  /\ Legal(insn.mne, operand) \in insn.mne.okmask
         /\ Chosen(insn.mne, insn.extension, operand) \in insn.mne.okmask
<1>1. insn.done /\ insn.code.generated
  BY DEF Generated
<1>2. /\ insn.mne \in Mnemonics /\ insn.extension \in Extensions /\ operand \in Operands
      /\ insn.code = Assemble(insn.mne, insn.extension, operand, Pc)
  BY <1>1, DoneFacts
<1>. QED
  BY <1>1, <1>2, RejectedFacts

(* Without a complaint: the operand fits, and every byte is a byte.        *)
LEMMA CleanCode ==
  ASSUME NEW mne, NEW extension, NEW list, NEW pc, NEW c, Made(mne, extension, list, pc, c),
         c.errors = 0, c.fatals = 0, c.redo = 0
  PROVE  /\ AllKnown(list) /\ AllBytes(c)
         /\ Needs(list[1]) <= Opsize[c.mode] /\ ~list[1].unk
<1>1. /\ mne \in Mnemonics /\ extension \in Extensions /\ list \in Operands
  BY DEF Made
<1>2. /\ Code(c) /\ c.redo = Redos(list) /\ c.errors >= TooWide(list, c)
      /\ c.fatals = 0 /\ AllKnown(list) => AllBytes(c)
  BY MadeFacts
<1>3. list[1] \in Item /\ Len(list) \in Nat \ {0}
  BY <1>1, OperandsType
<1>4. Needs(list[1]) \in 0..2 /\ Opsize[c.mode] \in 0..2 /\ list[1].unk \in BOOLEAN
  BY <1>2, <1>3, NeedsType, TablesType DEF Code, Item
<1>5. AllKnown(list)
  BY <1>1, <1>2, RedosMeaning
<1>6. ~list[1].unk
  BY <1>3, <1>5 DEF AllKnown
<1>7. Needs(list[1]) <= Opsize[c.mode]
  <2> SUFFICES ASSUME Needs(list[1]) > Opsize[c.mode]
               PROVE  FALSE
    BY <1>4
  <2>1. TooWide(list, c) = 1
    BY <1>6 DEF TooWide, Truth
  <2>. QED
    BY <1>2, <2>1
<1>. QED
  BY <1>2, <1>5, <1>6, <1>7

LEMMA DoneMade ==
  ASSUME MnemonicInv, Generated
  PROVE  Made(insn.mne, insn.extension, operand, Pc, insn.code)
BY DoneFacts, DoneGenerated DEF Made, Generated

LEMMA CleanFacts ==
  ASSUME MnemonicInv, Clean
  PROVE  LET c == insn.code
             goal == Goal(insn.mne, operand, Pc, c)
         IN  /\ Code(c) /\ AllBytes(c) /\ AllKnown(operand)
             /\ Needs(First) <= Opsize[c.mode] /\ ~First.unk
             /\ c.mode \notin BitModes \cup {"REL"} => OperandBytes(c, insn.mne.msb, First.n)
             /\ ~Pc.unk /\ Branches(insn.mne, c.mode) =>
                  /\ Near(goal) /\ Last(c) = goal % Radix /\ Len(c.bytes) > 0
                  /\ Target(insn.mne, c.mode) <= Len(operand)
<1> DEFINE c == insn.code
           mne == insn.mne
           extension == insn.extension
           pc == Pc
<1>1. Generated /\ c.errors = 0 /\ c.fatals = 0 /\ c.redo = 0
  BY DEF Clean
<1>2. Made(mne, extension, operand, pc, c)
  BY <1>1, DoneMade
<1> HIDE DEF c, mne, extension, pc
<1>3. /\ AllBytes(c) /\ AllKnown(operand)
      /\ Needs(operand[1]) <= Opsize[c.mode] /\ ~operand[1].unk
  BY <1>1, <1>2, CleanCode
<1>4. /\ Code(c)
      /\ c.mode \notin BitModes \cup {"REL"} => OperandBytes(c, mne.msb, operand[1].n)
      /\ ~pc.unk /\ Branches(mne, c.mode) =>
           /\ Near(Goal(mne, operand, pc, c)) /\ Last(c) = Goal(mne, operand, pc, c) % Radix
           /\ Len(c.bytes) > 0 /\ Target(mne, c.mode) <= Len(operand)
  BY <1>1, <1>2, <1>3, MadeFacts
<1>. QED
  BY <1>3, <1>4 DEF First, c, mne, pc

(* What Gen still holds from another line is never part of an instruction  *)
(* nobody complained about: the places v_mnemonic does not write to are    *)
(* behind what it generates (ops.c:271-395).                               *)
THEOREM StaleBytesAreReported == Spec => []NoStaleByte
<1>1. MnemonicInv => NoStaleByte
  <2> SUFFICES ASSUME MnemonicInv, Clean, NEW i \in DOMAIN insn.code.bytes
               PROVE  insn.code.bytes[i] # STALE
    BY DEF NoStaleByte
  <2>1. AllBytes(insn.code) /\ Code(insn.code)
    BY CleanFacts
  <2>2. i \in 1..Len(insn.code.bytes)
    BY <2>1, LenProperties DEF Code
  <2>3. insn.code.bytes[i] \in Byte /\ STALE \notin Byte
    BY <2>1, <2>2, LowByte DEF AllBytes
  <2>. QED
    BY <2>3
<1>. QED
  BY <1>1, InstructionInductive, PTL

(* Without a complaint the bytes say the operand: all of it where one byte *)
(* is enough for it, its low 16 bits where the mode has two, and where it  *)
(* has none the operand was zero (ops.c:209-216, 300-332).                 *)
THEOREM OperandsAreEncoded == Spec => []OperandEncoded
<1>1. MnemonicInv => OperandEncoded
  <2> DEFINE c == insn.code
             n == First.n
             b == c.bytes
             size == Opsize[c.mode]
             None0 == n = 0
             Byte1 == n \in {b[1], Signed(b[1])}
             Word2 == (IF insn.mne.msb THEN Radix * b[1] + b[2] ELSE b[1] + Radix * b[2])
                        = n % (Radix * Radix)
  <2> SUFFICES ASSUME MnemonicInv, Clean, c.mode \notin {"REL", "BITMOD", "BITBRAMOD"}
               PROVE  CASE size = 0 -> None0 [] size = 1 -> Byte1 [] size = 2 -> Word2
    BY DEF OperandEncoded
  <2>1. /\ Code(c) /\ Needs(First) <= size /\ ~First.unk
        /\ OperandBytes(c, insn.mne.msb, n)
    BY CleanFacts DEF BitModes
  <2>2. n \in Int /\ size \in 0..2 /\ insn.mne.msb \in BOOLEAN
    <3>1. insn.done
      BY DEF Clean, Generated
    <3>. QED
      BY <2>1, <3>1, DoneFacts, MnemonicType, TablesType DEF Item, Code
  <2>3. Needs(First) = IF ~InByte(n) THEN 2 ELSE IF n # 0 THEN 1 ELSE 0
    BY <2>1 DEF Needs
  <2> DEFINE low == n % Radix
             high == (n \div Radix) % Radix
  <2>4. /\ size = 1 => b[1] = low
        /\ size = 2 => /\ b[1] = IF insn.mne.msb THEN high ELSE low
                       /\ b[2] = IF insn.mne.msb THEN low ELSE high
    BY <2>1 DEF OperandBytes
  <2>5. ASSUME size = 0
        PROVE  None0
    BY <2>1, <2>3, <2>5
  <2>6. ASSUME size = 1
        PROVE  Byte1
    <3>1. InByte(n)
      BY <2>1, <2>3, <2>6
    <3>2. n \in {low, Signed(low)}
      BY <2>2, <3>1, SignedByte
    <3>. QED
      BY <2>4, <2>6, <3>2
  <2>7. ASSUME size = 2
        PROVE  Word2
    <3>1. Radix \in Nat \ {0}
      BY ExprAssumption
    <3>2. Radix * high + low = n % (Radix * Radix)
      BY <2>2, <3>1, TwoDigits
    <3>3. low \in Int /\ high \in Int
      BY <2>2, LowByte DEF Byte
    <3> DEFINE nn == n % (Radix * Radix)
    <3> HIDE DEF low, high, nn, b
    <3>4. (IF insn.mne.msb THEN Radix * b[1] + b[2] ELSE b[1] + Radix * b[2]) = nn
      <4>1. CASE insn.mne.msb
        BY <2>4, <2>7, <3>2, <4>1 DEF nn
      <4>2. CASE ~insn.mne.msb
        <5>1. b[1] = low /\ b[2] = high
          BY <2>4, <2>7, <4>2
        <5>2. low + Radix * high = nn
          BY <3>1, <3>2, <3>3 DEF nn
        <5>. QED
          BY <4>2, <5>1, <5>2
      <4>. QED
        BY <2>2, <4>1, <4>2
    <3>. QED
      BY <2>7, <3>4 DEF nn, b
  <2>8. size = 0 \/ size = 1 \/ size = 2
    BY <2>2
  <2> HIDE DEF size, None0, Byte1, Word2
  <2>. QED
    BY <2>5, <2>6, <2>7, <2>8
<1>. QED
  BY <1>1, InstructionInductive, PTL

(* A branch nobody complained about lands on its target, whichever item of *)
(* the operand that is and whatever comes before the displacement          *)
(* (ops.c:356-395).                                                        *)
THEOREM BranchesReach == Spec => []BranchReaches
<1>1. MnemonicInv => BranchReaches
  <2> DEFINE c == insn.code
             b == c.bytes
             target == operand[Truth(insn.mne.mask) +
                               CASE c.mode = "REL" -> 1 [] c.mode = "BITBRAMOD" -> 3 [] OTHER -> 2]
             goal == Goal(insn.mne, operand, Pc, c)
  <2> SUFFICES ASSUME MnemonicInv, Clean, ~Pc.unk, insn.mne.rel \/ c.mode = "REL"
               PROVE  Pc.n + Glen(c) + Signed(b[Len(b)]) = target.n
    BY DEF BranchReaches
  <2>1. Branches(insn.mne, c.mode) /\ target = operand[Target(insn.mne, c.mode)]
    BY DEF Branches, Target
  <2>2. Code(c) /\ Near(goal) /\ Last(c) = goal % Radix /\ Len(b) > 0
        /\ Target(insn.mne, c.mode) <= Len(operand)
    BY <2>1, CleanFacts
  <2>3. target.n \in Int /\ Pc.n \in Int /\ Glen(c) \in Int
    <3>1. insn.done
      BY DEF Clean, Generated
    <3>2. Pc.n \in Int /\ operand \in Operands /\ insn.mne \in Mnemonics
      BY <3>1, DoneFacts
    <3>3. operand \in Seq(Item) /\ Len(operand) \in Nat
      BY <3>2, OperandsType
    <3>4. Target(insn.mne, c.mode) \in Nat \ {0}
      BY TruthType DEF Target
    <3>5. target \in Item
      <4>1. Target(insn.mne, c.mode) \in 1..Len(operand)
        BY <2>2, <3>3, <3>4
      <4>. QED
        BY <2>1, <3>3, <4>1, ElementOfSeq
    <3>6. Glen(c) \in Int
      BY <2>2, CodeLength DEF Glen
    <3>. QED
      BY <3>2, <3>5, <3>6 DEF Item
  <2>4. goal = target.n - Pc.n - Glen(c)
    BY <2>1 DEF Goal
  <2> HIDE DEF target, goal
  <2>5. Signed(goal % Radix) = goal
    BY <2>2, <2>3, <2>4, SignedByte
  <2>6. Signed(b[Len(b)]) = goal
    BY <2>2, <2>5 DEF Last
  <2>. QED
    BY <2>3, <2>4, <2>6
<1>. QED
  BY <1>1, InstructionInductive, PTL

(* While its operand is not known an instruction is as long as it can get, *)
(* whatever value it computes with in the meantime: the mode grows with    *)
(* what the operand needs, and an unknown one needs most (ops.c:190-216).  *)
THEOREM UnknownIsLongest == Spec => []LongestWhenUnknown
<1>1. MnemonicInv => LongestWhenUnknown
  <2> DEFINE mne == insn.mne
             extension == insn.extension
             Guessed(stale) == [operand EXCEPT ![1] = [@ EXCEPT !.n = stale, !.unk = TRUE]]
  <2> SUFFICES ASSUME MnemonicInv, Generated, ~First.unk, NEW stale \in {0, First.n}
               PROVE  LET before == Assemble(mne, extension, Guessed(stale), Pc)
                      IN  before.generated /\ Glen(insn.code) <= Glen(before)
    BY DEF LongestWhenUnknown
  <2> DEFINE list == Guessed(stale)
             item == [operand[1] EXCEPT !.n = stale, !.unk = TRUE]
             c == insn.code
             before == Assemble(mne, extension, list, Pc)
  <2>1. /\ mne \in Mnemonics /\ extension \in Extensions /\ operand \in Operands /\ First \in Item
        /\ Pc.n \in Int /\ Pc.unk \in BOOLEAN /\ c = Assemble(mne, extension, operand, Pc)
    BY DoneFacts DEF Generated
  <2>2. Legal(mne, operand) \in mne.okmask /\ Chosen(mne, extension, operand) \in mne.okmask
    BY DoneGenerated
  <2>3. /\ operand \in Seq(Item) /\ Len(operand) \in Nat \ {0} /\ 1 \in DOMAIN operand
        /\ operand[1] \in Item /\ stale \in Int /\ 1 \in 1..Len(operand)
    <3>1. /\ operand \in Seq(Item) /\ Len(operand) \in Nat \ {0} /\ 1 \in DOMAIN operand
          /\ operand[1] \in Item
      BY <2>1, OperandsType
    <3>2. First.n \in Int
      BY <2>1 DEF Item
    <3>. QED
      BY <3>1, <3>2
  <2>4. item \in Item /\ item.mode = operand[1].mode /\ item.unk = TRUE
    BY <2>3 DEF Item
  <2>5. list = [operand EXCEPT ![1] = item]
    OBVIOUS
  <2> HIDE DEF item, list
  <2>6. list \in Seq(Item) /\ Len(list) = Len(operand) /\ list[1] = item
    BY <2>3, <2>4, <2>5, ExceptSeq
  <2>7. list \in Operands
    BY <2>3, <2>6 DEF Operands
  <2>8. StartMode(mne, list) = StartMode(mne, operand)
    BY <2>4, <2>6 DEF StartMode
  <2>9. /\ Legal(mne, list) = Legal(mne, operand)
        /\ Chosen(mne, extension, list) = Chosen(mne, extension, operand)
    BY <2>8 DEF Legal, Chosen
  <2>10. Needs(list[1]) = 2
    BY <2>4, <2>6 DEF Needs
  <2> DEFINE pc == Pc
             size == Needs(operand[1])
             m == Chosen(mne, extension, operand)
             short == Widen(mne, size, m)
             long == Widen(mne, 2, m)
  <2> HIDE DEF before, c, pc, mne, extension
  <2>11. ModeFor(mne, extension, operand) = short /\ ModeFor(mne, extension, list) = long
    BY <2>9, <2>10 DEF ModeFor
  <2>12. size \in 0..2 /\ m \in Modes /\ 2 \in 0..2
    BY <2>1, ChosenType
  <2>13. pc.n \in Int /\ pc.unk \in BOOLEAN /\ c = Assemble(mne, extension, operand, pc)
         /\ before = Assemble(mne, extension, list, pc)
    BY <2>1 DEF pc, before
  <2> HIDE DEF size, m, short, long
  <2>0. Made(mne, extension, operand, pc, c) /\ Made(mne, extension, list, pc, before)
    BY <2>1, <2>2, <2>7, <2>9, <2>13 DEF Made
  <2>14. Code(c) /\ c.prefix = mne.prefix /\ Len(c.bytes) = Size(mne, short)
    <3>1. Code(c)
      BY <2>0, MadeCode
    <3>2. c.prefix = mne.prefix
      BY <2>0, MadePrefix
    <3>3. c.mode = short
      BY <2>0, <2>11, MadeMode
    <3>4. Len(c.bytes) = Size(mne, c.mode)
      BY <2>0, MadeSize
    <3>. QED
      BY <3>1, <3>2, <3>3, <3>4
  <2>15. /\ Code(before) /\ before.generated = TRUE /\ before.prefix = mne.prefix
         /\ Len(before.bytes) = Size(mne, long)
    <3>1. Code(before) /\ before.generated = TRUE
      BY <2>0, MadeCode
    <3>2. before.prefix = mne.prefix
      BY <2>0, MadePrefix
    <3>3. before.mode = long
      BY <2>0, <2>11, MadeMode
    <3>4. Len(before.bytes) = Size(mne, before.mode)
      BY <2>0, MadeSize
    <3>. QED
      BY <3>1, <3>2, <3>3, <3>4
  <2>16. /\ short \in Modes /\ long \in Modes /\ Opsize[short] <= Opsize[long]
         /\ short = "REL" <=> long = "REL"
    BY <2>12, WidenFacts, WidenMonotonic DEF short, long
  <2>17. Size(mne, short) \in Nat /\ Size(mne, long) \in Nat /\ Size(mne, short) <= Size(mne, long)
    <3>1. Opsize[short] \in 0..2 /\ Opsize[long] \in 0..2
      BY <2>16, TablesType
    <3>2. /\ Branches(mne, short) = Branches(mne, long)
          /\ Truth(Branches(mne, short)) \in {0, 1} /\ Truth(mne.mask) \in {0, 1}
      BY <2>16, TruthType DEF Branches
    <3>. QED
      BY <2>16, <3>1, <3>2 DEF Size
  <2>18. Glen(c) <= Glen(before)
    BY <2>14, <2>15, <2>17 DEF Glen
  <2>. QED
    BY <2>15, <2>18 DEF before, c, list
<1>. QED
  BY <1>1, InstructionInductive, PTL

(* Looking first for a legal mode and then for a wide one finds the first  *)
(* that is both, and where there is none there is an error: no operand     *)
(* gets more bytes than it needs (ops.c:165-216).                          *)
THEOREM ModesAreSmallest == Spec => []SmallestModeChosen
<1>1. MnemonicInv => SmallestModeChosen
  <2> DEFINE mne == insn.mne
             c == insn.code
             s == StartMode(mne, operand)
             chain == Chain(s)
             size == IF InByte(First.n) THEN Truth(First.n # 0) ELSE 2
             fits == {k \in 1..3 : chain[k] \in mne.okmask /\ Opsize[chain[k]] >= size}
  <2> SUFFICES ASSUME MnemonicInv, insn.done, insn.extension = None, ~First.unk
               PROVE  IF fits = {} THEN c.errors > 0
                      ELSE c.generated /\ \E k \in fits : c.mode = chain[k] /\ \A j \in fits : k <= j
    BY DEF SmallestModeChosen
  <2> DEFINE legal == Legal(mne, operand)
             mode == Widen(mne, size, legal)
             pc == Pc
             Fits(k) == chain[k] \in mne.okmask /\ Opsize[chain[k]] >= size
  <2>1. /\ mne \in Mnemonics /\ None \in Extensions /\ operand \in Operands /\ First \in Item
        /\ pc.n \in Int /\ pc.unk \in BOOLEAN /\ c = Assemble(mne, None, operand, pc)
    BY DoneFacts
  <2>2. size = Needs(First) /\ First = operand[1] /\ size \in 0..2
    <3>1. First.n \in Int
      BY <2>1 DEF Item
    <3>2. size = Needs(First)
      BY <3>1 DEF Needs, Truth
    <3>. QED
      BY <2>1, <3>2, NeedsType DEF First
  <2>3. s \in Modes /\ legal \in Modes
    BY <2>1, StartModeType, ChosenType
  <2>4. Chosen(mne, None, operand) = legal /\ ModeFor(mne, None, operand) = mode
    <3>1. Chosen(mne, None, operand) = legal
      BY DEF Chosen
    <3> HIDE DEF size, legal
    <3>. QED
      BY <2>2, <3>1 DEF ModeFor
  <2> HIDE DEF size, c, pc
  <2>5. /\ legal \notin mne.okmask => \A k \in 1..3 : ~Fits(k)
        /\ legal \in mne.okmask /\ Opsize[mode] < size => \A k \in 1..3 : ~Fits(k)
        /\ legal \in mne.okmask /\ Opsize[mode] >= size =>
             \E k \in 1..3 : Fits(k) /\ mode = chain[k] /\ \A j \in 1..3 : Fits(j) => k <= j
    BY <2>1, <2>2, <2>3, ChainChoice DEF Legal
  <2> HIDE DEF legal, mode, chain, mne
  <2>6. Opsize[mode] \in 0..2
    BY <2>2, <2>3, WidenFacts, TablesType DEF mode
  <2>7. ASSUME legal \notin mne.okmask
        PROVE  fits = {} /\ c.errors > 0
    <3>1. c.errors = 1
      <4>1. Legal(mne, operand) \notin mne.okmask
        BY <2>7 DEF legal
      <4>. QED
        BY <2>1, <4>1, RejectedFacts
    <3>2. fits = {}
      BY <2>5, <2>7
    <3>. QED
      BY <3>1, <3>2
  <2>8. ASSUME legal \in mne.okmask
        PROVE  /\ c.generated = TRUE /\ c.mode = mode /\ c.errors \in Nat
               /\ Opsize[mode] < size => c.errors > 0
    <3>1. Legal(mne, operand) \in mne.okmask /\ Chosen(mne, None, operand) \in mne.okmask
      BY <2>4, <2>8 DEF legal
    <3>2. Made(mne, None, operand, pc, c)
      BY <2>1, <3>1 DEF Made
    <3>3. Code(c) /\ c.generated = TRUE /\ c.mode = mode /\ c.errors >= TooWide(operand, c)
      <4>1. Code(c) /\ c.generated = TRUE /\ c.errors >= TooWide(operand, c)
        BY <3>2, MadeCode
      <4>2. c.mode = ModeFor(mne, None, operand)
        BY <3>2, MadeMode
      <4>. QED
        BY <2>4, <4>1, <4>2
    <3>4. Opsize[mode] < size => TooWide(operand, c) = 1
      BY <2>2, <2>6, <3>3 DEF TooWide, Truth
    <3>. QED
      BY <3>3, <3>4 DEF Code
  <2>9. CASE legal \notin mne.okmask
    BY <2>7, <2>9
  <2>10. CASE legal \in mne.okmask /\ Opsize[mode] < size
    <3>1. fits = {}
      BY <2>5, <2>10
    <3>. QED
      BY <2>8, <2>10, <3>1
  <2>11. CASE legal \in mne.okmask /\ ~(Opsize[mode] < size)
    <3>1. PICK k \in 1..3 : Fits(k) /\ mode = chain[k] /\ \A j \in 1..3 : Fits(j) => k <= j
      BY <2>2, <2>5, <2>6, <2>11
    <3>2. k \in fits /\ \A j \in fits : k <= j
      BY <3>1
    <3>. QED
      BY <2>8, <2>11, <3>1, <3>2
  <2>. QED
    BY <2>9, <2>10, <2>11
<1>. QED
  BY <1>1, InstructionInductive, PTL

(* The bytes in Gen are bytes, those v_mnemonic did not write included.    *)
THEOREM MnemonicTypes == Spec => []TypeOK
<1>1. MnemonicInv => TypeOK
  <2> SUFFICES ASSUME MnemonicInv
               PROVE  TypeOK
    OBVIOUS
  <2>1. ExprTypeOK
    BY TypeMeaning DEF MnemonicInv
  <2>2. ASSUME insn.done
        PROVE  /\ insn.mne \in Mnemonics /\ insn.extension \in Extensions
               /\ insn.code.bytes \in Seq({STALE} \cup 0..(Radix - 1))
               /\ insn.code.bit \in Int
    <3> DEFINE mne == insn.mne
               extension == insn.extension
               c == insn.code
               pc == Pc
    <3>1. /\ mne \in Mnemonics /\ extension \in Extensions /\ operand \in Operands
          /\ pc.n \in Int /\ pc.unk \in BOOLEAN /\ c = Assemble(mne, extension, operand, pc)
      BY <2>2, DoneFacts
    <3> HIDE DEF pc, mne, extension, c
    <3>2. CASE Legal(mne, operand) \in mne.okmask /\ Chosen(mne, extension, operand) \in mne.okmask
      <4>1. Made(mne, extension, operand, pc, c)
        BY <3>1, <3>2 DEF Made
      <4>2. Code(c)
        BY <4>1, MadeFacts
      <4>. QED
        BY <3>1, <4>2 DEF Code, Byte, mne, extension, c
    <3>3. CASE ~(Legal(mne, operand) \in mne.okmask /\ Chosen(mne, extension, operand) \in mne.okmask)
      <4> DEFINE d == [c EXCEPT !.mode = "IMP"]
      <4>1. Code(d)
        BY <3>1, <3>3, RejectedFacts
      <4>2. d.bytes = c.bytes /\ d.bit = c.bit
        OBVIOUS
      <4> HIDE DEF d
      <4>. QED
        BY <3>1, <4>1, <4>2 DEF Code, Byte, mne, extension, c
    <3>. QED
      BY <3>2, <3>3
  <2>. QED
    BY <2>1, <2>2 DEF TypeOK
<1>. QED
  BY <1>1, InstructionInductive, PTL
=============================================================================
