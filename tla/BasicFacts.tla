----------------------------- MODULE BasicFacts -----------------------------
(***************************************************************************)
(* Facts the proofs share.                                                 *)
(*                                                                         *)
(* Induction over the natural numbers is stated with sets: a set takes the *)
(* place of the predicate, so that a proof can cite the fact by name with  *)
(* the set it means.  It rests on the well-foundedness of < on Nat.        *)
(***************************************************************************)
EXTENDS Integers, Sequences, FiniteSetsExt, TLAPS, WellFoundedInduction, SequenceTheorems

(* A set of natural numbers that is not empty has a least element.         *)
THEOREM LeastOfSet ==
  ASSUME NEW T \in SUBSET Nat, T # {}
  PROVE  \E m \in T : \A k \in T : m <= k
<1> DEFINE R == OpToRel(<, Nat)
<1>1. IsWellFoundedOn(R, Nat)
  BY NatLessThanWellFounded
<1>2. \A x, y \in T : <<y, x>> \in R <=> y < x
  BY DEF OpToRel
<1> HIDE DEF R
<1>3. PICK x \in T : \A y \in T : ~(<<y, x>> \in R)
  BY <1>1, WFMin
<1>4. \A y \in T : ~(y < x)
  BY <1>2, <1>3
<1>. QED
  BY <1>4

(* A set with 0 and with n + 1 for each n of it has every natural number.  *)
THEOREM SetInduction ==
  ASSUME NEW T, 0 \in T, \A n \in Nat : n \in T => n + 1 \in T
  PROVE  Nat \subseteq T
<1> DEFINE U == Nat \ T
<1> SUFFICES ASSUME U # {} PROVE FALSE
  OBVIOUS
<1>1. PICK m \in U : \A k \in U : m <= k
  BY LeastOfSet
<1>2. m # 0 /\ m - 1 \in Nat /\ m - 1 \notin U
  BY <1>1, SMT
<1>. QED
  BY <1>2

(* The least and the greatest of a set.                                    *)
LEMMA MinFacts ==
  ASSUME NEW T \in SUBSET Nat, T # {}
  PROVE  Min(T) \in T /\ \A k \in T : Min(T) <= k
<1>1. \E m \in T : \A k \in T : m <= k
  BY LeastOfSet
<1>. QED
  BY <1>1, Zenon DEF Min

LEMMA MaxFacts ==
  ASSUME NEW n \in Nat, NEW T \in SUBSET (1..n), T # {}
  PROVE  Max(T) \in T /\ \A k \in T : Max(T) >= k
<1> DEFINE U == {n - k : k \in T}
<1>1. U \in SUBSET Nat /\ U # {}
  <2>1. \A k \in T : n - k \in Nat
    OBVIOUS
  <2>. QED
    BY <2>1
<1>2. PICK u \in U : \A k \in U : u <= k
  BY <1>1, LeastOfSet
<1>3. PICK m \in T : u = n - m
  BY <1>2
<1>4. ASSUME NEW k \in T
      PROVE  m >= k
  <2>1. n - k \in U
    OBVIOUS
  <2>2. n - m <= n - k
    BY <1>2, <1>3, <2>1
  <2>3. k \in Int /\ m \in Int
    OBVIOUS
  <2>. QED
    BY <2>2, <2>3
<1>. QED
  BY <1>3, <1>4, Zenon DEF Max

-----------------------------------------------------------------------------
(* Numbers and their digits.                                               *)
LEMMA Remainder ==
  ASSUME NEW n \in Int, NEW d \in Nat \ {0}, NEW q \in Int, NEW r \in 0..(d - 1), n = d * q + r
  PROVE  n % d = r
<1> DEFINE p == n \div d
           t == n % d
<1>1. p \in Int /\ t \in 0..(d - 1) /\ n = d * p + t
  OBVIOUS
<1> HIDE DEF p, t
<1>2. d * (q - p) = t - r
  BY <1>1
<1>3. CASE q - p >= 1
  <2>1. d * (q - p) >= d
    BY <1>1, <1>3
  <2>. QED
    BY <1>1, <1>2, <2>1
<1>4. CASE p - q >= 1
  <2>1. d * (p - q) >= d
    BY <1>1, <1>4
  <2>2. d * (p - q) = r - t
    BY <1>1, <1>2
  <2>. QED
    BY <1>1, <2>1, <2>2
<1>5. CASE q = p
  BY <1>1, <1>2, <1>5 DEF t
<1>. QED
  BY <1>1, <1>3, <1>4, <1>5

LEMMA TwoDigits ==
  ASSUME NEW n \in Int, NEW d \in Nat \ {0}
  PROVE  d * ((n \div d) % d) + (n % d) = n % (d * d)
<1> DEFINE q == n \div d
           low == n % d
           high == q % d
           k == q \div d
<1>1. q \in Int /\ low \in 0..(d - 1) /\ n = d * q + low
  OBVIOUS
<1> HIDE DEF q, low
<1>2. k \in Int /\ high \in 0..(d - 1) /\ q = d * k + high
  BY <1>1
<1> HIDE DEF k, high
<1> DEFINE r == d * high + low
<1>3. n = (d * d) * k + r
  <2>1. d * q = d * (d * k) + d * high
    BY <1>2
  <2>2. d * (d * k) = (d * d) * k
    BY <1>2
  <2>. QED
    BY <1>1, <1>2, <2>1, <2>2
<1>4. d * d \in Nat \ {0}
  OBVIOUS
<1>5. r \in 0..(d * d - 1)
  <2>1. d * high <= d * (d - 1)
    BY <1>2
  <2>2. d * high >= 0 /\ d * high \in Int
    BY <1>2
  <2>3. d * (d - 1) = d * d - d
    OBVIOUS
  <2>. QED
    BY <1>1, <2>1, <2>2, <2>3
<1> HIDE DEF r
<1> DEFINE dd == d * d
<1> HIDE DEF dd
<1>6. dd \in Nat \ {0} /\ n = dd * k + r /\ r \in 0..(dd - 1)
  BY <1>3, <1>4, <1>5 DEF dd
<1>7. n % dd = r
  BY <1>2, <1>6, Remainder
<1>. QED
  BY <1>7 DEF r, dd, high, low, q
LEMMA SmallRemainder ==
  ASSUME NEW n \in Int, NEW d \in Nat \ {0}
  PROVE  /\ 0 <= n /\ n < d => n % d = n
         /\ -d <= n /\ n < 0 => n % d = n + d
<1>1. ASSUME 0 <= n, n < d
      PROVE  n % d = n
  <2>1. n \in 0..(d - 1) /\ 0 \in Int /\ n = d * 0 + n
    BY <1>1
  <2>. QED
    BY <2>1, Remainder
<1>2. ASSUME -d <= n, n < 0
      PROVE  n % d = n + d
  <2>1. n + d \in 0..(d - 1) /\ -1 \in Int /\ n = d * (-1) + (n + d)
    BY <1>2
  <2>. QED
    BY <2>1, Remainder
<1>. QED
  BY <1>1, <1>2

-----------------------------------------------------------------------------
(* Stacks: sequences that grow and shrink at the front.                    *)

(* A push on a non-empty or empty stack, index by index.                   *)
LEMMA PushFacts ==
  ASSUME NEW S, NEW s \in Seq(S), NEW e \in S
  PROVE  /\ <<e>> \o s \in Seq(S)
         /\ <<e>> \o s # <<>>
         /\ Len(<<e>> \o s) = Len(s) + 1
         /\ (<<e>> \o s)[1] = e
         /\ \A i \in 2..(Len(s) + 1) : (<<e>> \o s)[i] = s[i - 1]
<1>1. <<e>> \in Seq(S) /\ Len(<<e>>) = 1 /\ <<e>>[1] = e
  OBVIOUS
<1>2. Len(s) \in Nat
  BY LenProperties
<1> DEFINE t == <<e>>
<1>3. /\ t \o s \in Seq(S)
      /\ Len(t \o s) = Len(t) + Len(s)
      /\ \A i \in 1..(Len(t) + Len(s)) :
           (t \o s)[i] = IF i <= Len(t) THEN t[i] ELSE s[i - Len(t)]
  BY <1>1, ConcatProperties
<1>4. t \o s # <<>>
  BY <1>1, <1>2, <1>3
<1>. QED
  BY <1>1, <1>2, <1>3, <1>4

(* What is left of a stack from position k on.                             *)
LEMMA DropFacts ==
  ASSUME NEW S, NEW s \in Seq(S), NEW k \in 1..(Len(s) + 1)
  PROVE  /\ SubSeq(s, k, Len(s)) \in Seq(S)
         /\ Len(SubSeq(s, k, Len(s))) = Len(s) + 1 - k
         /\ \A i \in 1..(Len(s) + 1 - k) : SubSeq(s, k, Len(s))[i] = s[i + k - 1]
<1>1. Len(s) \in Nat /\ k \in Int
  BY LenProperties
<1>2. \A i \in k..Len(s) : s[i] \in S
  BY <1>1, ElementOfSeq
<1>3. /\ SubSeq(s, k, Len(s)) \in Seq(S)
      /\ Len(SubSeq(s, k, Len(s))) = IF k <= Len(s) THEN Len(s) - k + 1 ELSE 0
      /\ \A i \in 1..(Len(s) - k + 1) : SubSeq(s, k, Len(s))[i] = s[k + i - 1]
  BY <1>1, <1>2, SubSeqProperties
<1>. QED
  BY <1>1, <1>3

-----------------------------------------------------------------------------
(* Recursive functions exist.  A list read from left to right: at place i  *)
(* it ends (i \in E), or has item X[i] and goes on further right, at J[i]. *)
Jumps(n, E, J) ==
  /\ n + 1 \in E /\ J \in [1..(n + 1) -> Int]
  /\ \A i \in 1..(n + 1) : i \notin E => J[i] \in (i + 1)..(n + 1)
Listing(n, E, J, X, h) ==
  \A i \in 1..(n + 1) : h[i] = IF i \in E THEN <<>> ELSE <<X[i]>> \o h[J[i]]

LEMMA ListRecursion ==
  ASSUME NEW n \in Nat, NEW U, NEW E, NEW J, Jumps(n, E, J), NEW X \in [1..(n + 1) -> U]
  PROVE  \E h \in [1..(n + 1) -> Seq(U)] : Listing(n, E, J, X, h)
<1> DEFINE Found(a, h) == \A i \in a..(n + 1) :
             h[i] = IF i \in E THEN <<>> ELSE <<X[i]>> \o h[J[i]]
           T == {m \in Nat : m <= n => \E h \in [(n + 1 - m)..(n + 1) -> Seq(U)] : Found(n + 1 - m, h)}
<1>0. /\ <<>> \in Seq(U)
      /\ n + 1 \in E /\ J \in [1..(n + 1) -> Int]
      /\ \A i \in 1..(n + 1) : i \notin E => J[i] \in (i + 1)..(n + 1)
  BY EmptySeq DEF Jumps
<1>1. 0 \in T
  <2> DEFINE h == [i \in (n + 1 - 0)..(n + 1) |-> <<>>]
  <2>1. \A i \in (n + 1 - 0)..(n + 1) : i = n + 1
    OBVIOUS
  <2>2. h \in [(n + 1 - 0)..(n + 1) -> Seq(U)] /\ Found(n + 1 - 0, h)
    BY <1>0, <2>1
  <2> HIDE DEF h, Found
  <2>. QED
    BY <2>2
<1>2. ASSUME NEW m \in Nat, m \in T
      PROVE  m + 1 \in T
  <2> HIDE DEF Found
  <2> SUFFICES ASSUME m + 1 <= n
               PROVE  \E g \in [(n + 1 - (m + 1))..(n + 1) -> Seq(U)] : Found(n + 1 - (m + 1), g)
    <3>1. m + 1 \in Nat
      OBVIOUS
    <3>. QED
      BY <3>1, Zenon
  <2>0. m <= n
    OBVIOUS
  <2>1. PICK h \in [(n + 1 - m)..(n + 1) -> Seq(U)] : Found(n + 1 - m, h)
    BY <1>2, <2>0, Zenon
  <2> DEFINE first == n + 1 - (m + 1)
             new == IF first \in E THEN <<>> ELSE <<X[first]>> \o h[J[first]]
             g == [i \in first..(n + 1) |-> IF i > first THEN h[i] ELSE new]
  <2>2. first \in 1..n /\ n + 1 - m = first + 1
    OBVIOUS
  <2> HIDE DEF first
  <2>3. new \in Seq(U)
    <3>1. CASE first \in E
      BY <1>0, <3>1
    <3>2. CASE first \notin E
      <4>1. J[first] \in (n + 1 - m)..(n + 1) /\ X[first] \in U
        BY <1>0, <2>2, <3>2
      <4>2. h[J[first]] \in Seq(U)
        BY <4>1
      <4> DEFINE x == X[first]
                 k == h[J[first]]
      <4> HIDE DEF x, k
      <4>3. <<x>> \o k \in Seq(U)
        BY <4>1, <4>2, PushFacts DEF x, k
      <4>. QED
        BY <3>2, <4>3 DEF x, k
    <3>. QED
      BY <3>1, <3>2
  <2>4. g \in [first..(n + 1) -> Seq(U)]
    <3> SUFFICES ASSUME NEW i \in first..(n + 1)
                 PROVE  (IF i > first THEN h[i] ELSE new) \in Seq(U)
      BY Zenon
    <3>1. i > first => i \in (n + 1 - m)..(n + 1)
      BY <2>2
    <3> HIDE DEF new
    <3>. QED
      BY <2>3, <3>1
  <2>5. ASSUME NEW i \in first..(n + 1)
        PROVE  g[i] = IF i \in E THEN <<>> ELSE <<X[i]>> \o g[J[i]]
    <3>1. i \in 1..(n + 1)
      BY <2>2
    <3>2. i \notin E => g[J[i]] = h[J[i]]
      <4> SUFFICES ASSUME i \notin E PROVE g[J[i]] = h[J[i]]
        OBVIOUS
      <4>1. J[i] \in (i + 1)..(n + 1)
        BY <1>0, <3>1
      <4>2. J[i] \in first..(n + 1) /\ J[i] > first
        BY <2>2, <3>1, <4>1
      <4>. QED
        BY <4>2
    <3>3. CASE i > first
      <4>1. i \in (n + 1 - m)..(n + 1)
        BY <2>2, <3>1, <3>3
      <4>2. h[i] = IF i \in E THEN <<>> ELSE <<X[i]>> \o h[J[i]]
        BY <2>1, <4>1 DEF Found
      <4>3. g[i] = h[i]
        BY <3>3
      <4>. QED
        BY <3>2, <4>2, <4>3
    <3>4. CASE i = first
      <4>1. g[i] = IF i \in E THEN <<>> ELSE <<X[i]>> \o h[J[i]]
        BY <2>2, <3>4
      <4>. QED
        BY <3>2, <4>1
    <3>. QED
      BY <2>2, <3>1, <3>3, <3>4
  <2> HIDE DEF g
  <2>6. Found(first, g)
    BY <2>5 DEF Found
  <2>. QED
    BY <2>4, <2>6 DEF first
<1> HIDE DEF T
<1>3. n \in T
  BY <1>1, <1>2, SetInduction
<1>4. n + 1 - n = 1 /\ n <= n
  OBVIOUS
<1> HIDE DEF Found
<1>5. PICK h \in [(n + 1 - n)..(n + 1) -> Seq(U)] : Found(n + 1 - n, h)
  BY <1>3, <1>4, Zenon DEF T
<1>. QED
  BY <1>4, <1>5 DEF Found, Listing

LEMMA ListType ==
  ASSUME NEW n \in Nat, NEW U, NEW E, NEW J, Jumps(n, E, J), NEW X \in [1..(n + 1) -> U],
         NEW h, Listing(n, E, J, X, h)
  PROVE  \A i \in 1..(n + 1) : h[i] \in Seq(U)
<1> DEFINE T == {m \in Nat : m <= n => \A i \in (n + 1 - m)..(n + 1) : h[i] \in Seq(U)}
<1>0. /\ <<>> \in Seq(U)
      /\ n + 1 \in E /\ J \in [1..(n + 1) -> Int]
      /\ \A i \in 1..(n + 1) : i \notin E => J[i] \in (i + 1)..(n + 1)
      /\ \A i \in 1..(n + 1) : h[i] = IF i \in E THEN <<>> ELSE <<X[i]>> \o h[J[i]]
  BY EmptySeq DEF Jumps, Listing
<1>1. 0 \in T
  <2>1. \A i \in (n + 1 - 0)..(n + 1) : i = n + 1 /\ i \in 1..(n + 1)
    OBVIOUS
  <2>. QED
    BY <1>0, <2>1
<1>2. ASSUME NEW m \in Nat, m \in T
      PROVE  m + 1 \in T
  <2> SUFFICES ASSUME m + 1 <= n, NEW i \in (n + 1 - (m + 1))..(n + 1)
               PROVE  h[i] \in Seq(U)
    OBVIOUS
  <2>1. \A k \in (n + 1 - m)..(n + 1) : h[k] \in Seq(U)
    BY <1>2
  <2>2. i \in 1..(n + 1)
    OBVIOUS
  <2>3. CASE i \in E
    BY <1>0, <2>2, <2>3
  <2>4. CASE i \notin E
    <3>1. J[i] \in (i + 1)..(n + 1) /\ X[i] \in U
      BY <1>0, <2>2, <2>4
    <3>2. J[i] \in (n + 1 - m)..(n + 1)
      BY <3>1
    <3> DEFINE x == X[i]
               k == h[J[i]]
    <3>3. k \in Seq(U) /\ h[i] = <<x>> \o k
      BY <1>0, <2>1, <2>2, <2>4, <3>2
    <3> HIDE DEF k, x
    <3>4. <<x>> \o k \in Seq(U)
      BY <3>1, <3>3, PushFacts DEF x
    <3>. QED
      BY <3>3, <3>4
  <2>. QED
    BY <2>3, <2>4
<1> HIDE DEF T
<1>3. n \in T
  BY <1>1, <1>2, SetInduction
<1>4. \A i \in 1..(n + 1) : i \in (n + 1 - n)..(n + 1)
  OBVIOUS
<1>5. n <= n
  OBVIOUS
<1>. QED
  BY <1>3, <1>4, <1>5 DEF T

(* The function by which module Folds folds a sequence of n items.         *)
Folding(n, z, G, it) ==
  \A s \in SUBSET (1..n) :
    it[s] = IF s = {} THEN z ELSE G[<<it[s \ {Max(s)}], Max(s)>>]

LEMMA FoldRecursion ==
  ASSUME NEW n \in Nat, NEW S, NEW z \in S, NEW G \in [S \X (1..n) -> S]
  PROVE  \E it \in [SUBSET (1..n) -> S] : Folding(n, z, G, it)
<1> DEFINE Fold(m, it) == \A s \in SUBSET (1..m) :
             it[s] = IF s = {} THEN z ELSE G[<<it[s \ {Max(s)}], Max(s)>>]
           T == {m \in Nat : m <= n => \E it \in [SUBSET (1..m) -> S] : Fold(m, it)}
<1>1. 0 \in T
  <2> DEFINE h == [s \in SUBSET (1..0) |-> z]
  <2>1. \A s \in SUBSET (1..0) : s = {}
    OBVIOUS
  <2>2. h \in [SUBSET (1..0) -> S] /\ Fold(0, h)
    BY <2>1
  <2> HIDE DEF h, Fold
  <2>. QED
    BY <2>2
<1>2. ASSUME NEW m \in Nat, m \in T
      PROVE  m + 1 \in T
  <2> HIDE DEF Fold
  <2> SUFFICES ASSUME m + 1 <= n
               PROVE  \E g \in [SUBSET (1..(m + 1)) -> S] : Fold(m + 1, g)
    <3>1. m + 1 \in Nat
      OBVIOUS
    <3>. QED
      BY <3>1, Zenon
  <2>0. m <= n
    OBVIOUS
  <2>1. PICK h \in [SUBSET (1..m) -> S] : Fold(m, h)
    BY <1>2, <2>0, Zenon
  <2> DEFINE top == m + 1
             g == [s \in SUBSET (1..top) |-> IF top \in s THEN G[<<h[s \ {top}], top>>] ELSE h[s]]
  <2>2. top \in 1..n /\ 1..top = (1..m) \cup {top}
    OBVIOUS
  <2> HIDE DEF top
  <2>3. ASSUME NEW s \in SUBSET (1..top)
        PROVE  /\ s \ {top} \in SUBSET (1..m)
               /\ top \notin s => s \in SUBSET (1..m) /\ s = s \ {top}
    BY <2>2
  <2>4. g \in [SUBSET (1..top) -> S]
    <3> SUFFICES ASSUME NEW s \in SUBSET (1..top)
                 PROVE  (IF top \in s THEN G[<<h[s \ {top}], top>>] ELSE h[s]) \in S
      OBVIOUS
    <3>1. h[s \ {top}] \in S /\ (top \notin s => h[s] \in S)
      BY <2>3
    <3>. QED
      BY <2>2, <3>1
  <2>5. ASSUME NEW s \in SUBSET (1..top), s # {}
        PROVE  g[s] = G[<<g[s \ {Max(s)}], Max(s)>>]
    <3> DEFINE x == Max(s)
    <3>1. x \in s /\ \A k \in s : x >= k
      <4>1. top \in Nat /\ s \in SUBSET (1..top)
        BY <2>2
      <4>. QED
        BY <2>5, <4>1, MaxFacts
    <3> HIDE DEF x
    <3>2. s \ {x} \in SUBSET (1..m) /\ s \ {x} \in SUBSET (1..top) /\ top \notin s \ {x}
      <4>1. CASE top \in s
        <5>1. x = top
          BY <2>2, <3>1, <4>1
        <5>. QED
          BY <2>3, <5>1
      <4>2. CASE top \notin s
        BY <2>3, <4>2
      <4>. QED
        BY <4>1, <4>2
    <3>3. g[s \ {x}] = h[s \ {x}]
      BY <3>2
    <3>4. CASE top \in s
      <4>1. x = top
        BY <2>2, <3>1, <3>4
      <4>2. g[s] = G[<<h[s \ {top}], top>>]
        BY <3>4
      <4>. QED
        BY <3>3, <4>1, <4>2 DEF x
    <3>5. CASE top \notin s
      <4>1. s \in SUBSET (1..m)
        BY <2>3, <3>5
      <4>2. g[s] = h[s]
        BY <3>5
      <4>3. h[s] = G[<<h[s \ {Max(s)}], Max(s)>>]
        BY <2>1, <2>5, <4>1 DEF Fold
      <4>. QED
        BY <3>3, <4>2, <4>3 DEF x
    <3>. QED
      BY <3>4, <3>5
  <2>6. g[{}] = z
    <3>1. {} \in SUBSET (1..m) /\ {} \in SUBSET (1..top) /\ top \notin {}
      OBVIOUS
    <3>2. h[{}] = z
      BY <2>1, <3>1 DEF Fold
    <3>. QED
      BY <3>1, <3>2
  <2> HIDE DEF g
  <2>7. Fold(top, g)
    BY <2>5, <2>6 DEF Fold
  <2>. QED
    BY <2>4, <2>7 DEF top
<1> HIDE DEF T
<1>3. n \in T
  BY <1>1, <1>2, SetInduction
<1>4. n <= n
  OBVIOUS
<1> HIDE DEF Fold
<1>5. PICK it \in [SUBSET (1..n) -> S] : Fold(n, it)
  BY <1>3, <1>4, Zenon DEF T
<1>6. Folding(n, z, G, it)
  BY <1>5 DEF Fold, Folding
<1>. QED
  BY <1>6

(* The greatest of the first k numbers.                                    *)
LEMMA FirstNumbers ==
  ASSUME NEW k \in Nat \ {0}
  PROVE  Max(1..k) = k /\ (1..k) \ {k} = 1..(k - 1) /\ 1..k # {}
<1>1. 1..k \in SUBSET (1..k) /\ k \in 1..k /\ 1..k # {} /\ k \in Nat
  OBVIOUS
<1>2. Max(1..k) \in 1..k /\ Max(1..k) >= k
  BY <1>1, MaxFacts
<1>3. (1..k) \ {k} = 1..(k - 1)
  OBVIOUS
<1> DEFINE m == Max(1..k)
<1> HIDE DEF m
<1>4. m \in 1..k /\ m >= k
  BY <1>2 DEF m
<1>5. m = k
  BY <1>4
<1>. QED
  BY <1>1, <1>3, <1>5 DEF m

(* A set with 0, and with k + 1 for each k < n of it, has 0 .. n.          *)
LEMMA Upto ==
  ASSUME NEW n \in Nat, NEW T, 0 \in T, \A k \in 0..(n - 1) : k \in T => k + 1 \in T
  PROVE  0..n \subseteq T
<1> DEFINE U == {k \in Nat : k <= n => k \in T}
<1>1. 0 \in U
  OBVIOUS
<1>2. ASSUME NEW k \in Nat, k \in U
      PROVE  k + 1 \in U
  BY <1>2
<1> HIDE DEF U
<1>3. Nat \subseteq U
  BY <1>1, <1>2, SetInduction
<1>. QED
  BY <1>3 DEF U
=============================================================================
