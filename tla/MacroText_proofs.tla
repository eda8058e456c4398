-------------------------- MODULE MacroText_proofs --------------------------
(***************************************************************************)
(* The line buffer of DASM: whatever the sources, the macros and their     *)
(* arguments are, and however deep calls nest, a line stays inside it.     *)
(***************************************************************************)
EXTENDS MacroText, BasicFacts

Texts == Seq(Tokens)

Blank(c) == c \in {"hard", " "}
(* A line has room for its final 0, or is the full line with a blank from  *)
(* an apostrophe at its end.                                               *)
Room(s) ==
  \/ Len(s) + 1 <= MAXLINE
  \/ Len(s) = MAXLINE /\ Blank(s[Len(s)])
Lines == {s \in Texts : Room(s)}

Frame == [body : Seq(Lines), args : Seq(Texts)]
Recorded == [name : Texts, exists : BOOLEAN, lines : Seq(Lines)]

(* The invariant: every line that is kept somewhere, to be read again,     *)
(* fits as well.                                                           *)
ControlInv ==
  /\ file \in Sources /\ at \in 1..(Len(file) + 1) /\ pass \in 1..PassBound /\ errors \in Nat
  /\ mode \in {"read", "clean", "parse", "line", "done", "panic", "abort"}
BufferInv ==
  /\ buf \in Lines /\ pos \in Nat \ {0} /\ (mode = "clean" => pos <= Len(buf) + 1)
MacroInv ==
  /\ frames \in Seq(Frame) /\ Len(frames) <= MaxMacLevel
  /\ \A n \in DOMAIN macros : macros[n] \in Seq(Lines)
  /\ recording \in Recorded \cup {<<>>}
  /\ av.rest \in Texts
TextInv == ControlInv /\ BufferInv /\ MacroInv

LEMMA BlankTokens == Blank(" ") /\ Blank("hard") /\ \A c : Blank(c) => c \in Tokens
  BY DEF Tokens, Blank

-----------------------------------------------------------------------------
(* Places in a line.                                                       *)
LEMMA FirstFromFacts ==
  ASSUME NEW s \in Texts, NEW i \in 1..(Len(s) + 1), NEW T
  PROVE  /\ FirstFrom(s, i, T) \in i..(Len(s) + 1)
         /\ \A j \in i..Len(s) : j < FirstFrom(s, i, T) => s[j] \notin T
         /\ FirstFrom(s, i, T) <= Len(s) => s[FirstFrom(s, i, T)] \in T
<1> DEFINE U == {j \in i..Len(s) : s[j] \in T} \cup {Len(s) + 1}
<1>1. Len(s) \in Nat
  BY LenProperties DEF Texts
<1>2. U \in SUBSET Nat /\ U # {}
  BY <1>1
<1>3. FirstFrom(s, i, T) = Min(U)
  BY DEF FirstFrom
<1> DEFINE m == Min(U)
<1>4. m \in U /\ \A k \in U : m <= k
  BY <1>2, MinFacts
<1>5. FirstFrom(s, i, T) = m
  BY <1>3
<1> HIDE DEF m
<1>6. m \in i..(Len(s) + 1) /\ (m <= Len(s) => s[m] \in T)
  BY <1>1, <1>4
<1>7. ASSUME NEW j \in i..Len(s), j < m
      PROVE  s[j] \notin T
  BY <1>1, <1>4, <1>6, <1>7
<1>. QED
  BY <1>5, <1>6, <1>7

LEMMA AfterBlanksFacts ==
  ASSUME NEW s \in Texts, NEW i \in 1..(Len(s) + 1)
  PROVE  AfterBlanks(s, i) \in i..(Len(s) + 1)
<1> DEFINE P(j) == s[j] # " "
           U == {j \in i..Len(s) : P(j)} \cup {Len(s) + 1}
           m == Min(U)
<1>1. Len(s) \in Nat
  BY LenProperties DEF Texts
<1>2. AfterBlanks(s, i) = m
  BY DEF AfterBlanks
<1> HIDE DEF P
<1>3. U \in SUBSET Nat /\ U # {}
  BY <1>1
<1>4. m \in U
  BY <1>3, MinFacts
<1> HIDE DEF m
<1>. QED
  BY <1>1, <1>2, <1>4

LEMMA PieceFacts ==
  ASSUME NEW s \in Texts, NEW i \in Nat \ {0}, NEW j \in 0..Len(s)
  PROVE  SubSeq(s, i, j) \in Texts /\ Len(SubSeq(s, i, j)) = IF i <= j THEN j - i + 1 ELSE 0
<1>1. Len(s) \in Nat /\ i \in Int /\ j \in Int
  BY LenProperties DEF Texts
<1>2. \A k \in i..j : s[k] \in Tokens
  BY <1>1, ElementOfSeq DEF Texts
<1>. QED
  BY <1>1, <1>2, SubSeqProperties DEF Texts

-----------------------------------------------------------------------------
(* What cleanup and parse do to a line leaves it in its buffer.            *)
LEMMA PrefixFits ==
  ASSUME NEW s \in Lines, NEW n \in 0..Len(s)
  PROVE  SubSeq(s, 1, n) \in Lines
<1>1. Len(s) \in Nat /\ s \in Texts /\ s \in Seq(Tokens)
  BY LenProperties DEF Lines, Texts
<1> DEFINE t == SubSeq(s, 1, n)
<1>2. t \in Texts /\ Len(t) = n
  BY <1>1, PieceFacts
<1>3. n = Len(s) => t = s
  BY <1>1, SubSeqFull
<1> HIDE DEF t
<1>4. Room(s) /\ MAXLINE \in Nat
  BY TextAssumption DEF Lines
<1>5. CASE n = Len(s)
  BY <1>3, <1>5 DEF t
<1>6. CASE n < Len(s)
  <2>1. Len(s) <= MAXLINE
    BY <1>1, <1>4 DEF Room
  <2>2. Len(t) + 1 <= MAXLINE
    BY <1>1, <1>2, <1>4, <1>6, <2>1
  <2>. QED
    BY <1>2, <2>2 DEF Room, Lines, t
<1>. QED
  BY <1>1, <1>5, <1>6

LEMMA TrimmedFits ==
  ASSUME NEW s \in Lines
  PROVE  Trimmed(s) \in Lines
<1> DEFINE P(i) == s[i] # " "
           kept == {i \in DOMAIN s : P(i)}
           n == IF kept = {} THEN 0 ELSE Max(kept)
<1>1. Len(s) \in Nat /\ DOMAIN s = 1..Len(s)
  BY LenProperties DEF Lines, Texts
<1>4. Trimmed(s) = SubSeq(s, 1, n)
  BY DEF Trimmed
<1> HIDE DEF P
<1>2. kept # {} => Max(kept) \in kept
  BY <1>1, MaxFacts
<1> DEFINE m == Max(kept)
<1>5. kept \in SUBSET (1..Len(s)) /\ n = (IF kept = {} THEN 0 ELSE m) /\ (kept # {} => m \in kept)
  BY <1>1, <1>2
<1> HIDE DEF m, kept, n
<1>3. n \in 0..Len(s)
  BY <1>1, <1>5
<1>. QED
  BY <1>3, <1>4, PrefixFits

(* Blanks may become hard and hard ones soft.                              *)
LEMMA SameLengthFits ==
  ASSUME NEW s \in Lines, NEW t, t = [i \in DOMAIN s |-> t[i]],
         \A i \in DOMAIN s : t[i] = s[i] \/ Blank(t[i])
  PROVE  t \in Lines /\ Len(t) = Len(s)
<1>1. Len(s) \in Nat /\ DOMAIN s = 1..Len(s) /\ MAXLINE \in Nat /\ Room(s)
  BY LenProperties, TextAssumption DEF Lines, Texts
<1>6. \A i \in 1..Len(s) : s[i] \in Tokens
  BY ElementOfSeq DEF Lines, Texts
<1>7. \A i \in 1..Len(s) : t[i] \in Tokens
  BY <1>1, <1>6, BlankTokens
<1>2. t \in [1..Len(s) -> Tokens]
  BY <1>1, <1>7
<1>3. t \in Texts
  BY <1>1, <1>2, SeqDef DEF Texts
<1>4. Len(t) = Len(s)
  <2>1. DOMAIN t = 1..Len(t) /\ DOMAIN t = 1..Len(s) /\ Len(t) \in Nat
    BY <1>2, <1>3, LenProperties DEF Texts
  <2> DEFINE m == Len(t)
             n == Len(s)
  <2>2. m \in Nat /\ n \in Nat /\ 1..m = 1..n
    BY <1>1, <2>1, Zenon
  <2> HIDE DEF m, n
  <2>3. m = n
    BY <2>2
  <2>. QED
    BY <2>3 DEF m, n
<1>5. Room(t)
  <2>1. CASE Len(s) + 1 <= MAXLINE
    BY <1>4, <2>1 DEF Room
  <2>2. CASE Len(s) = MAXLINE /\ Blank(s[Len(s)])
    <3> DEFINE n == Len(s)
    <3>3. n \in 1..n
      BY <1>1, <2>2, TextAssumption
    <3>1. n \in DOMAIN s
      BY <1>1, <3>3, Zenon
    <3>2. Blank(t[Len(s)])
      BY <2>2, <3>1
    <3>. QED
      BY <1>4, <2>2, <3>2 DEF Room
  <2>. QED
    BY <1>1, <2>1, <2>2 DEF Room
<1>. QED
  BY <1>3, <1>4, <1>5 DEF Lines

LEMMA SoftType ==
  ASSUME NEW s \in Texts
  PROVE  Soft(s) \in Texts
<1>1. Len(s) \in Nat /\ DOMAIN s = 1..Len(s) /\ \A i \in 1..Len(s) : s[i] \in Tokens
  BY LenProperties, ElementOfSeq DEF Texts
<1> DEFINE t == Soft(s)
<1>3. t = [i \in 1..Len(s) |-> t[i]]
  BY <1>1 DEF Soft
<1>4. \A i \in 1..Len(s) : t[i] = s[i] \/ t[i] = " "
  BY <1>1 DEF Soft
<1> HIDE DEF t
<1>2. t \in [1..Len(s) -> Tokens]
  BY <1>1, <1>3, <1>4, BlankTokens
<1>. QED
  BY <1>1, <1>2, SeqDef DEF Texts, t

LEMMA SoftFits ==
  ASSUME NEW s \in Lines
  PROVE  Soft(s) \in Lines
<1> DEFINE t == Soft(s)
<1>2. t = [i \in DOMAIN s |-> t[i]]
  BY DEF Soft
<1>3. \A i \in DOMAIN s : t[i] = s[i] \/ Blank(t[i])
  BY BlankTokens DEF Soft
<1> HIDE DEF t
<1>. QED
  BY <1>2, <1>3, SameLengthFits DEF t

LEMMA HardenFits ==
  ASSUME NEW s \in Lines, NEW i, NEW j
  PROVE  Harden(s, i, j) \in Lines /\ Len(Harden(s, i, j)) = Len(s)
<1> DEFINE t == Harden(s, i, j)
<1>2. t = [k \in DOMAIN s |-> t[k]]
  BY DEF Harden
<1>3. \A k \in DOMAIN s : t[k] = s[k] \/ Blank(t[k])
  BY BlankTokens DEF Harden
<1> HIDE DEF t
<1>. QED
  BY <1>2, <1>3, SameLengthFits DEF t

LEMMA BlankFits ==
  ASSUME NEW s \in Lines, NEW i \in 1..Len(s), NEW c \in {"hard", " "}
  PROVE  [s EXCEPT ![i] = c] \in Lines /\ Len([s EXCEPT ![i] = c]) = Len(s)
<1> DEFINE t == [s EXCEPT ![i] = c]
<1>2. t = [k \in DOMAIN s |-> t[k]]
  OBVIOUS
<1>3. \A k \in DOMAIN s : t[k] = s[k] \/ Blank(t[k])
  BY BlankTokens DEF Blank
<1> HIDE DEF t
<1>. QED
  BY <1>2, <1>3, SameLengthFits DEF t

-----------------------------------------------------------------------------
(* parse: runs of blanks become one.  The recursive function exists, and   *)
(* what it builds is text.                                                 *)
KeptStep(s, k, i) == IF Doubled(s, i) THEN k ELSE Append(k, s[i])
Kept(s, h) == h = [i \in 0..Len(s) |-> IF i = 0 THEN <<>> ELSE KeptStep(s, h[i - 1], i)]

LEMMA KeptExists ==
  ASSUME NEW s \in Texts
  PROVE  \E h : Kept(s, h)
<1> DEFINE G(k, i) == KeptStep(s, k, i)
           T == {m \in Nat : \E h : h = [i \in 0..m |-> IF i = 0 THEN <<>> ELSE G(h[i - 1], i)]}
<1>1. Len(s) \in Nat
  BY LenProperties DEF Texts
<1>2. 0 \in T
  <2> DEFINE h == [i \in 0..0 |-> <<>>]
  <2> HIDE DEF G
  <2>1. h = [i \in 0..0 |-> IF i = 0 THEN <<>> ELSE G(h[i - 1], i)]
    OBVIOUS
  <2> HIDE DEF h
  <2>. QED
    BY <2>1, Zenon
<1>3. ASSUME NEW m \in Nat, m \in T
      PROVE  m + 1 \in T
  <2> HIDE DEF G
  <2>1. PICK h : h = [i \in 0..m |-> IF i = 0 THEN <<>> ELSE G(h[i - 1], i)]
    BY <1>3
  <2> DEFINE g == [i \in 0..(m + 1) |-> IF i <= m THEN h[i] ELSE G(h[m], i)]
  <2>2. ASSUME NEW i \in 0..(m + 1)
        PROVE  g[i] = IF i = 0 THEN <<>> ELSE G(g[i - 1], i)
    <3>1. CASE i = 0
      BY <2>1, <3>1
    <3>2. CASE i # 0 /\ i <= m
      <4>1. i \in 0..m /\ i - 1 \in 0..(m + 1) /\ i - 1 <= m
        BY <3>2
      <4>2. g[i] = h[i] /\ g[i - 1] = h[i - 1]
        BY <3>2, <4>1
      <4>3. h[i] = G(h[i - 1], i)
        BY <2>1, <3>2, <4>1
      <4>. QED
        BY <3>2, <4>2, <4>3
    <3>3. CASE i = m + 1
      BY <3>3
    <3>. QED
      BY <3>1, <3>2, <3>3
  <2>3. g = [i \in 0..(m + 1) |-> IF i = 0 THEN <<>> ELSE G(g[i - 1], i)]
    BY <2>2
  <2> HIDE DEF g
  <2>4. m + 1 \in Nat
    OBVIOUS
  <2>. QED
    BY <2>3, <2>4, Zenon
<1> HIDE DEF T
<1>4. Len(s) \in T
  BY <1>1, <1>2, <1>3, SetInduction
<1>. QED
  BY <1>4, Zenon DEF T, Kept

LEMMA SqueezedType ==
  ASSUME NEW s \in Texts
  PROVE  Squeezed(s) \in Texts
<1> DEFINE h == CHOOSE k : Kept(s, k)
           T == {m \in Nat : m <= Len(s) => h[m] \in Texts}
<1>1. Len(s) \in Nat /\ \A i \in 1..Len(s) : s[i] \in Tokens
  BY LenProperties, ElementOfSeq DEF Texts
<1>2. Kept(s, h)
  BY KeptExists, Zenon
<1>3. Squeezed(s) = h[Len(s)]
  BY DEF Squeezed, Kept, KeptStep
<1> HIDE DEF h
<1>4. 0 \in T
  <2>1. h[0] = <<>>
    BY <1>1, <1>2 DEF Kept
  <2>. QED
    BY <2>1, EmptySeq DEF Texts
<1>5. ASSUME NEW m \in Nat, m \in T
      PROVE  m + 1 \in T
  <2> SUFFICES ASSUME m + 1 <= Len(s) PROVE h[m + 1] \in Texts
    OBVIOUS
  <2>1. h[m] \in Texts /\ s[m + 1] \in Tokens
    BY <1>1, <1>5
  <2>2. Append(h[m], s[m + 1]) \in Texts
    BY <2>1, AppendProperties DEF Texts
  <2>3. h[m + 1] \in {h[m], Append(h[m], s[m + 1])}
    <3>1. m + 1 \in 0..Len(s) /\ m + 1 > 0 /\ m + 1 # 0 /\ (m + 1) - 1 = m
      BY <1>1
    <3>. QED
      BY <1>2, <3>1 DEF Kept, KeptStep
  <2>. QED
    BY <2>1, <2>2, <2>3
<1> HIDE DEF T
<1>6. Len(s) \in T
  BY <1>1, <1>4, <1>5, SetInduction
<1>. QED
  BY <1>1, <1>3, <1>6 DEF T

-----------------------------------------------------------------------------
(* v_execmac: the arguments of a call.  Behind an argument the scan is     *)
(* further right, so the recursive function exists.                        *)
NextPlace(s, i) == NextArgument(s, ArgumentEnd(s, i))
Ends(s, i) == i > Len(s) \/ s[i] = "nl"
FromHere(s, i, more) == <<SubSeq(s, i, ArgumentEnd(s, i) - 1)>> \o more
Listed(s, h) ==
  h = [i \in 1..(Len(s) + 1) |-> IF Ends(s, i) THEN <<>> ELSE FromHere(s, i, h[NextPlace(s, i)])]

LEMMA NextPlaceFacts ==
  ASSUME NEW s \in Texts, NEW i \in 1..(Len(s) + 1), ~Ends(s, i)
  PROVE  i \in 1..Len(s) /\ ArgumentEnd(s, i) \in i..(Len(s) + 1)
         /\ NextPlace(s, i) \in (i + 1)..(Len(s) + 1)
<1> DEFINE e == ArgumentEnd(s, i)
<1>1. Len(s) \in Nat
  BY LenProperties DEF Texts
<1>2. i \in 1..Len(s)
  BY <1>1 DEF Ends
<1> DEFINE Comma(j) == s[j] = ","
<1>3. e \in i..(Len(s) + 1)
  BY FirstFromFacts DEF ArgumentEnd
<1>7. e <= Len(s) => Comma(e) \/ s[e] = "nl"
  <2>1. e <= Len(s) => s[e] \in {",", "nl"}
    BY FirstFromFacts DEF ArgumentEnd
  <2> HIDE DEF e
  <2>. QED
    BY <2>1
<1>4. NextPlace(s, i) = IF e <= Len(s) /\ Comma(e) THEN AfterBlanks(s, e + 1) ELSE e
  BY DEF NextPlace, NextArgument
<1>8. s[i] # "nl"
  BY DEF Ends
<1> HIDE DEF e, Comma
<1>5. CASE e <= Len(s) /\ Comma(e)
  <2>1. e + 1 \in 1..(Len(s) + 1)
    BY <1>1, <1>3, <1>5
  <2>2. AfterBlanks(s, e + 1) \in (e + 1)..(Len(s) + 1)
    BY <2>1, AfterBlanksFacts
  <2>3. NextPlace(s, i) = AfterBlanks(s, e + 1)
    BY <1>4, <1>5, Zenon
  <2>4. NextPlace(s, i) \in (i + 1)..(Len(s) + 1)
    BY <1>1, <1>2, <1>3, <2>2, <2>3
  <2>. QED
    BY <1>2, <1>3, <2>4 DEF e
<1>6. CASE ~(e <= Len(s) /\ Comma(e))
  <2>1. NextPlace(s, i) = e
    BY <1>4, <1>6, Zenon
  <2>2. e # i
    <3>1. SUFFICES ASSUME e = i PROVE FALSE
      OBVIOUS
    <3>2. i <= Len(s)
      BY <1>1, <1>2
    <3>. QED
      BY <1>6, <1>7, <1>8, <3>1, <3>2, Zenon
  <2>3. e \in (i + 1)..(Len(s) + 1)
    BY <1>1, <1>2, <1>3, <2>2
  <2>. QED
    BY <1>2, <1>3, <2>1, <2>3 DEF e
<1>. QED
  BY <1>5, <1>6

LEMMA ListedExists ==
  ASSUME NEW s \in Texts
  PROVE  \E h : Listed(s, h)
<1> DEFINE n == Len(s)
           E == {i \in 1..(n + 1) : Ends(s, i)}
           J == [i \in 1..(n + 1) |-> IF i \in E THEN 0 ELSE NextPlace(s, i)]
           X == [i \in 1..(n + 1) |-> SubSeq(s, i, ArgumentEnd(s, i) - 1)]
           U == {X[i] : i \in 1..(n + 1)}
<1>1. n \in Nat
  BY LenProperties DEF Texts
<1>2. \A i \in 1..(n + 1) : i \notin E => J[i] \in (i + 1)..(n + 1)
  BY NextPlaceFacts
<1>3. n + 1 \in E
  BY <1>1 DEF Ends
<1>4. J \in [1..(n + 1) -> Int]
  <2> SUFFICES ASSUME NEW i \in 1..(n + 1), i \notin E
               PROVE  NextPlace(s, i) \in Int
    BY <1>1
  <2>1. J[i] \in Int /\ J[i] = NextPlace(s, i)
    BY <1>1, <1>2
  <2>. QED
    BY <2>1
<1>5. X \in [1..(n + 1) -> U]
  OBVIOUS
<1>6. \A i \in 1..(n + 1) : i \notin E =>
        J[i] = NextPlace(s, i) /\ \A k : FromHere(s, i, k) = <<X[i]>> \o k
  BY DEF FromHere
<1>7. \A i \in 1..(n + 1) : i \in E <=> Ends(s, i)
  OBVIOUS
<1> HIDE DEF n, E, J, X, U
<1>8. PICK h \in [1..(n + 1) -> Seq(U)] : Listing(n, E, J, X, h)
  <2>1. Jumps(n, E, J)
    BY <1>2, <1>3, <1>4 DEF Jumps
  <2>. QED
    BY <1>1, <1>5, <2>1, ListRecursion
<1>9. h = [i \in 1..(n + 1) |-> IF Ends(s, i) THEN <<>> ELSE FromHere(s, i, h[NextPlace(s, i)])]
  BY <1>6, <1>7, <1>8 DEF Listing
<1>. QED
  BY <1>9, Zenon DEF Listed, n

LEMMA RestFromType ==
  ASSUME NEW s \in Texts
  PROVE  RestFrom(s) \in Seq(Texts)
<1> DEFINE n == Len(s)
           h == CHOOSE k : Listed(s, k)
           T == {m \in Nat : m <= n => \A i \in (n + 1 - m)..(n + 1) : h[i] \in Seq(Texts)}
<1>1. n \in Nat
  BY LenProperties DEF Texts
<1>2. Listed(s, h)
  BY ListedExists, Zenon
<1>3. RestFrom(s) = h[1]
  BY DEF RestFrom, Listed, FromHere, NextPlace, Ends
<1> HIDE DEF h
<1>4. ASSUME NEW i \in 1..(n + 1)
      PROVE  h[i] = IF Ends(s, i) THEN <<>> ELSE FromHere(s, i, h[NextPlace(s, i)])
  BY <1>2 DEF Listed
<1>5. 0 \in T
  <2>1. Ends(s, n + 1) /\ n + 1 \in 1..(n + 1)
    BY <1>1 DEF Ends
  <2>2. h[n + 1] = <<>>
    BY <1>4, <2>1, Zenon
  <2>3. h[n + 1] \in Seq(Texts)
    BY <2>2, EmptySeq
  <2>4. \A i \in (n + 1 - 0)..(n + 1) : i = n + 1
    BY <1>1
  <2>. QED
    BY <2>3, <2>4
<1>6. ASSUME NEW m \in Nat, m \in T
      PROVE  m + 1 \in T
  <2> SUFFICES ASSUME m + 1 <= n, NEW i \in (n + 1 - (m + 1))..(n + 1)
               PROVE  h[i] \in Seq(Texts)
    OBVIOUS
  <2>1. \A k \in (n + 1 - m)..(n + 1) : h[k] \in Seq(Texts)
    BY <1>1, <1>6
  <2>2. i \in 1..(n + 1) /\ n - m \in Nat /\ i >= n - m
    BY <1>1
  <2> HIDE DEF n
  <2>3. CASE Ends(s, i)
    BY <1>4, <2>2, <2>3, EmptySeq
  <2>4. CASE ~Ends(s, i)
    <3> DEFINE e == ArgumentEnd(s, i)
               j == NextPlace(s, i)
    <3>1. i \in 1..n /\ e \in i..(n + 1) /\ j \in (i + 1)..(n + 1)
      BY <2>2, <2>4, NextPlaceFacts DEF n
    <3>2. h[i] = <<SubSeq(s, i, e - 1)>> \o h[j]
      BY <1>4, <2>2, <2>4 DEF FromHere
    <3> HIDE DEF e, j
    <3>3. j \in (n + 1 - m)..(n + 1)
      BY <1>1, <2>2, <3>1
    <3>4. h[j] \in Seq(Texts)
      BY <2>1, <3>3
    <3>5. i \in Nat \ {0} /\ e - 1 \in 0..n
      BY <1>1, <3>1
    <3>6. SubSeq(s, i, e - 1) \in Texts
      BY <3>5, PieceFacts DEF n
    <3> DEFINE a == SubSeq(s, i, e - 1)
               r == h[j]
    <3> HIDE DEF a, r
    <3>7. <<a>> \o r \in Seq(Texts)
      BY <3>4, <3>6, PushFacts DEF a, r
    <3>. QED
      BY <3>2, <3>7 DEF a, r
  <2>. QED
    BY <2>3, <2>4
<1> HIDE DEF T
<1>7. n \in T
  BY <1>1, <1>5, <1>6, SetInduction
<1>8. 1 \in (n + 1 - n)..(n + 1) /\ n <= n
  BY <1>1
<1>. QED
  BY <1>3, <1>7, <1>8 DEF T

LEMMA CallArgumentsType ==
  ASSUME NEW s \in Texts
  PROVE  CallArguments(s) \in Seq(Texts)
BY RestFromType, PushFacts DEF CallArguments

(* parse: the rest of a line.                                              *)
LEMMA WordsType ==
  ASSUME NEW s \in Texts
  PROVE  Words(s).rest \in Texts
<1> DEFINE endLabel == FirstFrom(s, 1, {" ", ":"})
           colon == endLabel <= Len(s) /\ s[endLabel] = ":"
           from == IF colon THEN endLabel + 1 ELSE endLabel
           op == AfterBlanks(s, from)
           endOp == FirstFrom(s, op, {" "})
           rest == AfterBlanks(s, endOp)
<1>1. Len(s) \in Nat
  BY LenProperties DEF Texts
<1>2. endLabel \in 1..(Len(s) + 1)
  <2>1. 1 \in 1..(Len(s) + 1)
    BY <1>1
  <2>. QED
    BY <2>1, FirstFromFacts
<1>3. Words(s).rest = Soft(Squeezed(SubSeq(s, rest, Len(s))))
  BY DEF Words
<1> HIDE DEF rest
<1>4. from \in 1..(Len(s) + 1)
  <2> HIDE DEF endLabel
  <2>1. colon => endLabel + 1 \in 1..(Len(s) + 1)
    BY <1>1, <1>2
  <2> HIDE DEF colon
  <2>. QED
    BY <1>2, <2>1
<1> HIDE DEF from
<1>5. op \in 1..(Len(s) + 1)
  <2>1. op \in from..(Len(s) + 1)
    BY <1>4, AfterBlanksFacts
  <2>. QED
    BY <1>1, <1>4, <2>1
<1> HIDE DEF op
<1>6. endOp \in 1..(Len(s) + 1)
  <2>1. endOp \in op..(Len(s) + 1)
    BY <1>5, FirstFromFacts
  <2> HIDE DEF endOp
  <2>. QED
    BY <1>1, <1>5, <2>1
<1> HIDE DEF endOp
<1>7. rest \in 1..(Len(s) + 1)
  <2>1. rest \in endOp..(Len(s) + 1)
    BY <1>6, AfterBlanksFacts DEF rest
  <2>. QED
    BY <1>1, <1>6, <2>1
<1>8. rest \in Nat \ {0} /\ Len(s) \in 0..Len(s)
  BY <1>1, <1>7
<1>9. SubSeq(s, rest, Len(s)) \in Texts
  BY <1>8, PieceFacts
<1>. QED
  BY <1>3, <1>9, SqueezedType, SoftType

-----------------------------------------------------------------------------
(* The actions that leave a part of the state alone.                       *)
Modes == {"read", "clean", "parse", "line", "done", "panic", "abort"}

LEMMA CleanStep ==
  ASSUME TextInv, Stays, errors' \in Nat, mode' \in {"clean", "parse", "panic"},
         buf' \in Lines, pos' \in Nat \ {0}, mode' = "clean" => pos' <= Len(buf') + 1
  PROVE  TextInv'
<1>1. ControlInv'
  BY DEF TextInv, ControlInv, Stays
<1>2. BufferInv'
  BY DEF BufferInv
<1>3. MacroInv'
  BY DEF TextInv, MacroInv, Stays
<1>. QED
  BY <1>1, <1>2, <1>3 DEF TextInv

LEMMA HandleStep ==
  ASSUME TextInv, UNCHANGED <<file, at, pass, text>>, mode' \in {"read", "line", "abort"},
         errors' \in Nat, MacroInv'
  PROVE  TextInv'
<1>1. ControlInv'
  BY DEF TextInv, ControlInv
<1>2. BufferInv'
  BY DEF TextInv, BufferInv, text
<1>. QED
  BY <1>1, <1>2 DEF TextInv

LEMMA FileFacts ==
  ASSUME TextInv
  PROVE  /\ Len(file) \in Nat
         /\ \A i \in 1..Len(file) : file[i] \in Lines
<1>1. file \in Seq(Texts) /\ \A i \in DOMAIN file : Len(file[i]) < MAXLINE
  BY TextAssumption DEF TextInv, ControlInv, Texts
<1>2. Len(file) \in Nat /\ DOMAIN file = 1..Len(file)
  BY <1>1, LenProperties
<1>3. ASSUME NEW i \in 1..Len(file)
      PROVE  file[i] \in Lines
  <2>1. file[i] \in Texts /\ Len(file[i]) < MAXLINE
    BY <1>1, <1>2, <1>3, ElementOfSeq
  <2>2. Len(file[i]) \in Nat /\ MAXLINE \in Nat
    BY <2>1, LenProperties, TextAssumption DEF Texts
  <2>3. Len(file[i]) + 1 <= MAXLINE
    BY <2>1, <2>2
  <2>. QED
    BY <2>1, <2>3 DEF Lines, Room
<1>. QED
  BY <1>2, <1>3

LEMMA FetchStep ==
  ASSUME NEW line \in Lines, Fetch(line)
  PROVE  buf' \in Lines /\ BufferInv'
<1>1. buf' = line /\ pos' = 1 /\ Len(line) \in Nat
  BY LenProperties DEF Fetch, Lines, Texts
<1>2. pos' \in Nat \ {0} /\ pos' <= Len(buf') + 1
  BY <1>1
<1>. QED
  BY <1>1, <1>2 DEF BufferInv

LEMMA ReadFileKeeps ==
  ASSUME TextInv, ReadFile
  PROVE  TextInv'
<1>1. at \in 1..Len(file) /\ Len(file) \in Nat
  BY FileFacts DEF TextInv, ControlInv, ReadFile
<1>2. file[at] \in Lines
  BY <1>1, FileFacts
<1>3. BufferInv'
  BY <1>2, FetchStep DEF ReadFile
<1>4. ControlInv'
  BY <1>1 DEF TextInv, ControlInv, ReadFile, Fetch
<1>5. MacroInv'
  BY DEF TextInv, MacroInv, ReadFile, Fetch
<1>. QED
  BY <1>3, <1>4, <1>5 DEF TextInv

LEMMA FrameFacts ==
  ASSUME TextInv, frames # <<>>
  PROVE  /\ 1 \in 1..Len(frames) /\ frames[1] \in Frame /\ frames[1].args \in Seq(Texts)
         /\ Tail(frames) \in Seq(Frame) /\ Len(Tail(frames)) <= MaxMacLevel
<1>1. frames \in Seq(Frame) /\ Len(frames) <= MaxMacLevel /\ MaxMacLevel \in Nat
  BY TextAssumption DEF TextInv, MacroInv
<1>2. Len(frames) \in Nat \ {0}
  BY <1>1, EmptySeq, LenProperties
<1>3. Tail(frames) \in Seq(Frame) /\ Len(Tail(frames)) = Len(frames) - 1
  BY <1>1, HeadTailProperties
<1>4. 1 \in 1..Len(frames)
  BY <1>2
<1>5. frames[1] \in Frame
  BY <1>1, <1>4, ElementOfSeq
<1>6. frames[1].args \in Seq(Texts)
  BY <1>5 DEF Frame
<1>7. Len(Tail(frames)) <= MaxMacLevel
  BY <1>1, <1>2, <1>3
<1>. QED
  BY <1>3, <1>4, <1>5, <1>6, <1>7

LEMMA ReadMacroKeeps ==
  ASSUME TextInv, ReadMacro
  PROVE  TextInv'
<1>1. frames # <<>> /\ frames[1].body # <<>>
  BY DEF ReadMacro
<1>2. frames \in Seq(Frame) /\ 1 \in 1..Len(frames) /\ frames[1] \in Frame
  BY <1>1, FrameFacts DEF TextInv, MacroInv
<1> DEFINE f == frames[1]
           g == [f EXCEPT !.body = Tail(f.body)]
<1>3. f.body \in Seq(Lines)
  BY <1>2 DEF Frame
<1>4. Head(f.body) \in Lines /\ Tail(f.body) \in Seq(Lines)
  BY <1>1, <1>3, HeadTailProperties
<1>5. g \in Frame
  BY <1>2, <1>4 DEF Frame
<1>6. frames' = [frames EXCEPT ![1] = g]
  BY DEF ReadMacro
<1>7. BufferInv'
  BY <1>4, FetchStep DEF ReadMacro
<1> HIDE DEF g
<1>8. frames' \in Seq(Frame) /\ Len(frames') = Len(frames)
  BY <1>2, <1>5, <1>6, ExceptSeq
<1>9. ControlInv'
  BY DEF TextInv, ControlInv, ReadMacro, Fetch
<1>10. MacroInv'
  BY <1>8 DEF TextInv, MacroInv, ReadMacro, Fetch
<1>. QED
  BY <1>7, <1>9, <1>10 DEF TextInv

LEMMA MacroEndsKeeps ==
  ASSUME TextInv, MacroEnds
  PROVE  TextInv'
<1>1. frames' \in Seq(Frame) /\ Len(frames') <= MaxMacLevel
  BY FrameFacts DEF MacroEnds
<1>2. MacroInv'
  BY <1>1 DEF TextInv, MacroInv, MacroEnds, text
<1>3. errors' \in Nat /\ mode' \in {"read", "line", "abort"}
  BY DEF TextInv, ControlInv, MacroEnds
<1>4. UNCHANGED <<file, at, pass, text>>
  BY DEF MacroEnds
<1>. QED
  BY <1>2, <1>3, <1>4, HandleStep

LEMMA NoEndmKeeps ==
  ASSUME TextInv, NoEndm
  PROVE  TextInv'
<1>1. ControlInv'
  BY DEF TextInv, ControlInv, NoEndm
<1>2. BufferInv'
  BY DEF TextInv, BufferInv, NoEndm, text
<1>3. MacroInv'
  BY DEF TextInv, MacroInv, NoEndm, text
<1>. QED
  BY <1>1, <1>2, <1>3 DEF TextInv

LEMMA PassEndsKeeps ==
  ASSUME TextInv, PassEnds
  PROVE  TextInv'
<1>1. Len(file) \in Nat /\ PassBound \in Nat
  BY FileFacts, TextAssumption
<1>2. file' = file /\ at' \in 1..(Len(file) + 1) /\ pass' \in 1..PassBound
  <2>1. CASE pass < PassBound
    BY <1>1, <2>1 DEF TextInv, ControlInv, PassEnds
  <2>2. CASE ~(pass < PassBound)
    BY <2>2 DEF TextInv, ControlInv, PassEnds
  <2>. QED
    BY <2>1, <2>2
<1>3. mode' \in {"read", "done"} /\ errors' = errors
  BY DEF PassEnds
<1>4. ControlInv'
  BY <1>2, <1>3 DEF TextInv, ControlInv
<1>5. BufferInv'
  BY <1>3 DEF TextInv, BufferInv, PassEnds, text
<1>6. MacroInv'
  BY DEF TextInv, MacroInv, PassEnds, text
<1>. QED
  BY <1>4, <1>5, <1>6 DEF TextInv

-----------------------------------------------------------------------------
(* cleanup.                                                                *)
LEMMA ScanFacts ==
  ASSUME TextInv, Cleaning
  PROVE  /\ buf \in Lines /\ buf \in Texts /\ Len(buf) \in Nat /\ errors \in Nat
         /\ pos \in 1..(Len(buf) + 1)
         /\ Char # "nl" => pos \in 1..Len(buf) /\ Char = buf[pos]
<1>1. buf \in Lines /\ buf \in Texts /\ Len(buf) \in Nat /\ errors \in Nat
  BY LenProperties DEF TextInv, ControlInv, BufferInv, Lines, Texts
<1>2. pos \in 1..(Len(buf) + 1)
  BY <1>1 DEF TextInv, BufferInv, Cleaning
<1>3. pos <= Len(buf) => pos \in 1..Len(buf)
  BY <1>1, <1>2
<1>. QED
  BY <1>1, <1>2, <1>3, Zenon DEF Char

LEMMA EndOfTextKeeps ==
  ASSUME TextInv, EndOfText
  PROVE  TextInv'
<1>1. Cleaning
  BY DEF EndOfText
<1>2. pos - 1 \in 0..Len(buf) /\ pos \in Nat \ {0} /\ errors \in Nat
  BY <1>1, ScanFacts
<1>3. Trimmed(SubSeq(buf, 1, pos - 1)) \in Lines
  BY <1>1, <1>2, ScanFacts, PrefixFits, TrimmedFits
<1>4. buf' = Trimmed(SubSeq(buf, 1, pos - 1)) /\ Stays /\ mode' = "parse" /\ pos' = pos /\ errors' = errors
  BY DEF EndOfText
<1>. QED
  BY <1>2, <1>3, <1>4, CleanStep

LEMMA TabKeeps ==
  ASSUME TextInv, Tab
  PROVE  TextInv'
<1>1. Cleaning /\ Char = "tab" /\ Stays /\ errors' = errors /\ mode' = "clean"
  BY DEF Tab, Cleaning
<1>2. pos \in 1..Len(buf) /\ buf \in Lines /\ errors \in Nat /\ Len(buf) \in Nat
  BY <1>1, ScanFacts
<1>3. buf' = [buf EXCEPT ![pos] = " "] /\ pos' = pos + 1
  BY DEF Tab
<1>4. buf' \in Lines /\ Len(buf') = Len(buf)
  BY <1>2, <1>3, BlankFits
<1>6. pos' = pos + 1
  BY <1>3
<1>5. pos' \in Nat \ {0} /\ pos' <= Len(buf') + 1
  BY <1>2, <1>4, <1>6
<1>. QED
  BY <1>1, <1>2, <1>4, <1>5, CleanStep

(* An apostrophe is followed by a hard blank where the line ends, also     *)
(* where there is no room for it.                                          *)
LEMMA HardAtEnd ==
  ASSUME NEW s \in Lines, NEW p \in 1..Len(s), s[p] = "'"
  PROVE  Append(SubSeq(s, 1, p), "hard") \in Lines /\ Len(Append(SubSeq(s, 1, p), "hard")) = p + 1
<1> DEFINE t == SubSeq(s, 1, p)
           u == Append(t, "hard")
<1>1. s \in Texts /\ Len(s) \in Nat /\ Room(s) /\ MAXLINE \in Nat
  BY LenProperties, TextAssumption DEF Lines, Texts
<1>2. t \in Texts /\ Len(t) = p
  <2>1. 1 \in Nat \ {0} /\ p \in 0..Len(s) /\ 1 <= p /\ p - 1 + 1 = p
    BY <1>1
  <2>. QED
    BY <1>1, <2>1, PieceFacts
<1>3. ~Blank(s[p])
  BY DEF Blank
<1> HIDE DEF t
<1>4. "hard" \in Tokens /\ Blank("hard")
  BY BlankTokens
<1>5. u \in Texts /\ Len(u) = Len(t) + 1 /\ u[Len(u)] = "hard"
  BY <1>2, <1>4, AppendProperties DEF Texts
<1> HIDE DEF u
<1>6. p + 1 <= MAXLINE
  <2>1. CASE Len(s) + 1 <= MAXLINE
    BY <1>1, <2>1
  <2>2. CASE Len(s) = MAXLINE /\ Blank(s[Len(s)])
    <3>1. p # Len(s)
      BY <1>3, <2>2
    <3>. QED
      BY <1>1, <2>2, <3>1
  <2>. QED
    BY <1>1, <2>1, <2>2 DEF Room
<1>7. Len(u) = p + 1
  BY <1>2, <1>5
<1>8. Blank(u[Len(u)])
  BY <1>4, <1>5
<1>9. Len(u) + 1 <= MAXLINE \/ Len(u) = MAXLINE
  BY <1>1, <1>6, <1>7
<1>10. Room(u)
  BY <1>8, <1>9 DEF Room
<1>. QED
  BY <1>5, <1>7, <1>10 DEF Lines, u, t

LEMMA ApostropheKeeps ==
  ASSUME TextInv, Apostrophe
  PROVE  TextInv'
<1> DEFINE next == IF pos + 1 <= Len(buf) THEN buf[pos + 1] ELSE "nl"
<1>1. Cleaning /\ Char = "'" /\ Stays /\ errors' = errors /\ mode' = "clean" /\ pos' = pos + 2
  BY DEF Apostrophe, Cleaning
<1>2. /\ pos \in 1..Len(buf) /\ buf[pos] = "'"
      /\ buf \in Lines /\ errors \in Nat /\ Len(buf) \in Nat
  BY <1>1, ScanFacts
<1>3. buf' = CASE next \in {" ", "tab"} -> [buf EXCEPT ![pos + 1] = "hard"]
               [] next = "nl" -> Append(SubSeq(buf, 1, pos), "hard")
               [] OTHER -> buf
  BY DEF Apostrophe
<1>4. ~(pos + 1 <= Len(buf)) => next = "nl"
  OBVIOUS
<1> HIDE DEF next
<1>5. buf' \in Lines /\ pos + 1 <= Len(buf')
  <2>1. CASE next \in {" ", "tab"}
    <3>1. buf' = [buf EXCEPT ![pos + 1] = "hard"] /\ next # "nl"
      BY <1>3, <2>1
    <3>2. pos + 1 \in 1..Len(buf)
      BY <1>2, <1>4, <3>1
    <3>3. buf' \in Lines /\ Len(buf') = Len(buf)
      BY <1>2, <3>1, <3>2, BlankFits
    <3>. QED
      BY <3>2, <3>3
  <2>2. CASE next = "nl"
    <3>1. buf' = Append(SubSeq(buf, 1, pos), "hard")
      BY <1>3, <2>2
    <3>2. buf' \in Lines /\ Len(buf') = pos + 1
      BY <1>2, <3>1, HardAtEnd
    <3>. QED
      BY <1>2, <3>2
  <2>3. CASE next \notin {" ", "tab", "nl"}
    <3>1. buf' = buf /\ next # "nl"
      BY <1>3, <2>3
    <3>. QED
      BY <1>2, <1>4, <3>1
  <2>. QED
    BY <2>1, <2>2, <2>3
<1>6. Len(buf') \in Nat
  BY <1>5, LenProperties DEF Lines, Texts
<1>7. pos' \in Nat \ {0} /\ pos' <= Len(buf') + 1
  BY <1>1, <1>2, <1>5, <1>6
<1>. QED
  BY <1>1, <1>2, <1>5, <1>7, CleanStep

LEMMA QuoteKeeps ==
  ASSUME TextInv, Quote
  PROVE  TextInv'
<1> DEFINE end == FirstFrom(buf, pos + 1, {"\""})
<1>1. Cleaning /\ Char # "nl" /\ Stays /\ mode' = "clean"
  BY DEF Quote, Cleaning
<1>2. pos \in 1..Len(buf) /\ buf \in Lines /\ buf \in Texts /\ errors \in Nat /\ Len(buf) \in Nat
  BY <1>1, ScanFacts
<1>3. /\ buf' = Harden(buf, pos, end) /\ pos' = Min({Len(buf) + 1, end + 1})
      /\ errors' \in {errors, errors + 1}
  BY DEF Quote
<1>4. pos + 1 \in 1..(Len(buf) + 1)
  BY <1>2
<1>5. end \in (pos + 1)..(Len(buf) + 1)
  BY <1>2, <1>4, FirstFromFacts
<1> HIDE DEF end
<1>6. buf' \in Lines /\ Len(buf') = Len(buf)
  BY <1>2, <1>3, HardenFits
<1> DEFINE places == {Len(buf) + 1, end + 1}
<1>7. places \in SUBSET Nat /\ places # {}
  BY <1>2, <1>5
<1>8. Min(places) \in places /\ \A k \in places : Min(places) <= k
  BY <1>7, MinFacts
<1>9. pos' \in {Len(buf) + 1, end + 1} /\ pos' <= Len(buf) + 1
  BY <1>3, <1>8
<1>10. pos' \in Nat \ {0} /\ pos' <= Len(buf') + 1
  BY <1>2, <1>5, <1>6, <1>9
<1>11. errors' \in Nat
  BY <1>2, <1>3
<1>. QED
  BY <1>1, <1>6, <1>10, <1>11, CleanStep

LEMMA PlainCharsKeeps ==
  ASSUME TextInv, PlainChars
  PROVE  TextInv'
<1>1. Cleaning /\ Stays /\ mode' = "clean" /\ errors' = errors /\ buf' = buf
  BY DEF PlainChars, Cleaning
<1>2. /\ pos \in 1..(Len(buf) + 1) /\ buf \in Lines /\ buf \in Texts
      /\ errors \in Nat /\ Len(buf) \in Nat
  BY <1>1, ScanFacts
<1>3. pos' = FirstFrom(buf, pos, Special)
  BY DEF PlainChars
<1>4. pos' \in pos..(Len(buf) + 1)
  BY <1>2, <1>3, FirstFromFacts
<1>5. pos' \in Nat \ {0} /\ pos' <= Len(buf') + 1
  BY <1>1, <1>2, <1>4
<1>. QED
  BY <1>1, <1>2, <1>5, CleanStep

(* {n}.                                                                    *)
LEMMA CloseFacts ==
  ASSUME TextInv, Braces
  PROVE  /\ Cleaning /\ buf \in Lines /\ buf \in Texts /\ errors \in Nat /\ Len(buf) \in Nat
         /\ pos \in 1..(Len(buf) + 1) /\ Close \in pos..(Len(buf) + 1)
<1>1. Cleaning
  BY DEF Braces
<1>2. /\ pos \in 1..(Len(buf) + 1) /\ buf \in Lines /\ buf \in Texts
      /\ errors \in Nat /\ Len(buf) \in Nat
  BY <1>1, ScanFacts
<1>3. Close \in pos..(Len(buf) + 1)
  BY <1>2, FirstFromFacts DEF Close
<1>. QED
  BY <1>1, <1>2, <1>3

LEMMA NoCloseKeeps ==
  ASSUME TextInv, NoClose
  PROVE  TextInv'
<1>1. Braces /\ Stays /\ errors' = errors /\ buf' = buf /\ mode' = mode /\ pos' = Len(buf) + 1
  BY DEF NoClose
<1>2. mode' = "clean" /\ buf \in Lines /\ errors \in Nat /\ Len(buf) \in Nat
  BY <1>1, CloseFacts DEF Cleaning
<1>3. pos' \in Nat \ {0} /\ pos' <= Len(buf') + 1
  BY <1>1, <1>2
<1>. QED
  BY <1>1, <1>2, <1>3, CleanStep

LEMMA NotGivenKeeps ==
  ASSUME TextInv, NotGiven
  PROVE  TextInv'
<1>1. /\ Braces /\ Closed /\ Stays /\ errors' = errors + 1 /\ mode' = "parse" /\ pos' = pos
      /\ buf' = Trimmed(SubSeq(buf, 1, Close))
  BY DEF NotGiven
<1>2. /\ buf \in Lines /\ errors \in Nat /\ Len(buf) \in Nat
      /\ pos \in 1..(Len(buf) + 1) /\ Close \in pos..(Len(buf) + 1)
  BY <1>1, CloseFacts
<1>3. Close \in 0..Len(buf)
  BY <1>1, <1>2 DEF Closed
<1>4. buf' \in Lines
  BY <1>1, <1>2, <1>3, PrefixFits, TrimmedFits
<1>5. errors' \in Nat /\ pos' \in Nat \ {0}
  BY <1>1, <1>2
<1>. QED
  BY <1>1, <1>4, <1>5, CleanStep

LEMMA ArgumentType ==
  ASSUME TextInv, Braces, Given
  PROVE  Argument \in Texts
<1> DEFINE c == ArgNumber[Char]
<1>1. c \in Nat /\ c + 1 <= Len(Arguments)
  BY TextAssumption DEF Braces, Given
<1>2. Arguments \in Seq(Texts)
  BY FrameFacts, EmptySeq DEF Arguments
<1>3. Len(Arguments) \in Nat
  BY <1>2, LenProperties
<1>4. Argument = Arguments[c + 1]
  BY DEF Argument
<1> HIDE DEF c
<1>5. c + 1 \in 1..Len(Arguments)
  BY <1>1, <1>3
<1>. QED
  BY <1>2, <1>4, <1>5, ElementOfSeq

LEMMA SubstituteKeeps ==
  ASSUME TextInv, Substitute
  PROVE  TextInv'
<1>1. Braces /\ Closed /\ Given /\ Stays /\ errors' = errors /\ pos' = pos
  BY DEF Substitute
<1>2. /\ buf \in Lines /\ buf \in Texts /\ errors \in Nat /\ Len(buf) \in Nat /\ mode = "clean"
      /\ pos \in 1..(Len(buf) + 1) /\ Close \in pos..(Len(buf) + 1)
  BY <1>1, CloseFacts DEF Cleaning
<1>3. CASE Fits(Argument)
  <2> DEFINE a == Argument
             front == SubSeq(buf, 1, pos - 1)
             behind == Behind
             new == front \o a \o behind
  <2>1. a \in Texts /\ Len(a) \in Nat
    BY <1>1, ArgumentType, LenProperties DEF Texts
  <2>2. pos - 1 \in 0..Len(buf) /\ 1 \in Nat \ {0} /\ (IF 1 <= pos - 1 THEN pos - 1 - 1 + 1 ELSE 0) = pos - 1
    BY <1>2
  <2>3. front \in Texts /\ Len(front) = pos - 1
    BY <1>2, <2>2, PieceFacts
  <2>4. Close + 1 \in Nat \ {0} /\ Len(buf) \in 0..Len(buf)
    BY <1>2
  <2>5. behind \in Texts /\ Len(behind) \in Nat
    BY <1>2, <2>4, PieceFacts, LenProperties DEF Behind, Texts
  <2>6. pos - 1 + Len(a) + Len(behind) + 1 <= MAXLINE
    BY <1>3 DEF Fits
  <2>7. buf' = new /\ mode' = "clean"
    BY <1>2, <1>3 DEF Substitute
  <2> HIDE DEF a, front, behind
  <2>8. front \o a \in Texts /\ Len(front \o a) = Len(front) + Len(a)
    BY <2>1, <2>3, ConcatProperties DEF Texts
  <2>9. new \in Texts /\ Len(new) = Len(front \o a) + Len(behind)
    BY <2>5, <2>8, ConcatProperties DEF Texts
  <2> HIDE DEF new
  <2>10. Len(new) = pos - 1 + Len(a) + Len(behind)
    BY <2>3, <2>8, <2>9
  <2>11. Len(new) + 1 <= MAXLINE
    BY <2>6, <2>10
  <2>12. buf' \in Lines
    BY <2>7, <2>9, <2>11 DEF Lines, Room
  <2>13. pos' \in Nat \ {0} /\ pos' <= Len(buf') + 1
    BY <1>1, <1>2, <2>1, <2>5, <2>7, <2>10
  <2>. QED
    BY <1>1, <1>2, <2>7, <2>12, <2>13, CleanStep
<1>4. CASE ~Fits(Argument)
  <2>1. mode' = "panic" /\ buf' = buf
    BY <1>4 DEF Substitute
  <2>2. pos' \in Nat \ {0}
    BY <1>1, <1>2
  <2>. QED
    BY <1>1, <1>2, <2>1, <2>2, CleanStep
<1>. QED
  BY <1>3, <1>4

-----------------------------------------------------------------------------
(* parse and the handlers.                                                 *)
LEMMA HandleFacts ==
  ASSUME TextInv, Handle
  PROVE  UNCHANGED <<file, at, pass, text>> /\ mode' \in {"read", "line", "abort"}
BY DEF Handle

LEMMA ParseKeeps ==
  ASSUME TextInv, Parse
  PROVE  TextInv'
<1>1. buf' = Soft(buf) /\ av' = Words(buf) /\ mode' \in {"abort", "line"} /\ pos' = pos
  BY DEF Parse
<1>2. buf \in Lines /\ buf \in Texts
  BY DEF TextInv, BufferInv, Lines
<1>3. av'.rest \in Texts
  BY <1>1, <1>2, WordsType
<1>4. ControlInv'
  BY <1>1 DEF TextInv, ControlInv, Parse
<1>5. BufferInv'
  <2>1. buf' \in Lines /\ pos' \in Nat \ {0}
    BY <1>1, <1>2, SoftFits DEF TextInv, BufferInv
  <2>2. mode' # "clean"
    BY <1>1
  <2>. QED
    BY <2>1, <2>2 DEF BufferInv
<1>6. MacroInv'
  BY <1>3 DEF TextInv, MacroInv, Parse
<1>. QED
  BY <1>4, <1>5, <1>6 DEF TextInv

LEMMA BodyLineKeeps ==
  ASSUME TextInv, BodyLine
  PROVE  TextInv'
<1>1. Handle /\ errors' \in Nat
  BY DEF BodyLine, TextInv, ControlInv
<1>2. recording \in Recorded /\ buf \in Lines
  BY DEF TextInv, MacroInv, BufferInv, BodyLine, Recording
<1>3. Append(recording.lines, buf) \in Seq(Lines)
  BY <1>2, AppendProperties DEF Recorded
<1>4. recording' = [recording EXCEPT !.lines = Append(recording.lines, buf)]
  BY DEF BodyLine
<1>5. recording' \in Recorded
  BY <1>2, <1>3, <1>4 DEF Recorded
<1>6. MacroInv'
  BY <1>1, <1>5 DEF TextInv, MacroInv, BodyLine, Handle, text
<1>. QED
  BY <1>1, <1>6, HandleFacts, HandleStep

LEMMA EndOfBodyKeeps ==
  ASSUME TextInv, EndOfBody
  PROVE  TextInv'
<1>1. Handle /\ errors' \in Nat /\ recording' = <<>> /\ frames' = frames
  BY DEF EndOfBody, TextInv, ControlInv
<1>2. recording \in Recorded
  BY DEF TextInv, MacroInv, EndOfBody, Recording
<1>3. recording.lines \in Seq(Lines)
  BY <1>2 DEF Recorded
<1>4. \A n \in DOMAIN macros : macros[n] \in Seq(Lines)
  BY DEF TextInv, MacroInv
<1>5. \A n \in DOMAIN macros' : macros'[n] \in Seq(Lines)
  <2>1. CASE recording.exists
    BY <1>4, <2>1 DEF EndOfBody
  <2>2. CASE ~recording.exists
    <3> DEFINE m == [n \in DOMAIN macros \cup {recording.name} |->
                       IF n = recording.name THEN recording.lines ELSE macros[n]]
    <3>1. macros' = m
      BY <2>2 DEF EndOfBody
    <3>2. \A n \in DOMAIN m : m[n] \in Seq(Lines)
      BY <1>3, <1>4
    <3> HIDE DEF m
    <3>. QED
      BY <3>1, <3>2
  <2>. QED
    BY <2>1, <2>2
<1>6. av'.rest \in Texts
  BY <1>1 DEF TextInv, MacroInv, Handle, text
<1>7. MacroInv'
  BY <1>1, <1>5, <1>6 DEF TextInv, MacroInv
<1>. QED
  BY <1>1, <1>7, HandleFacts, HandleStep

LEMMA DefineKeeps ==
  ASSUME TextInv, Define
  PROVE  TextInv'
<1>1. Handle /\ errors' \in Nat /\ UNCHANGED <<frames, macros>>
  BY DEF Define, Runs, TextInv, ControlInv
<1>2. av.rest \in Texts /\ av' = av
  BY <1>1 DEF TextInv, MacroInv, Handle, text
<1> DEFINE e == ~Active \/ Exists(av.rest)
<1>3. recording' = [name |-> av.rest, lines |-> <<>>, exists |-> e]
  BY DEF Define
<1>4. e \in BOOLEAN
  BY Zenon
<1> HIDE DEF e
<1>5. <<>> \in Seq(Lines)
  BY EmptySeq
<1>6. recording' \in Recorded
  BY <1>2, <1>3, <1>4, <1>5 DEF Recorded
<1>7. MacroInv'
  BY <1>1, <1>2, <1>6 DEF TextInv, MacroInv
<1>. QED
  BY <1>1, <1>7, HandleFacts, HandleStep

LEMMA CallKeeps ==
  ASSUME TextInv, Call
  PROVE  TextInv'
<1>1. Handle /\ Op \in DOMAIN macros /\ errors' \in Nat /\ UNCHANGED <<macros, recording>>
  BY DEF Call, Runs, TextInv, ControlInv
<1>2. av.rest \in Texts /\ av' = av
  BY <1>1 DEF TextInv, MacroInv, Handle, text
<1>3. frames \in Seq(Frame) /\ Len(frames) <= MaxMacLevel /\ MaxMacLevel \in Nat /\ Len(frames) \in Nat
  BY TextAssumption, LenProperties DEF TextInv, MacroInv
<1> DEFINE f == [body |-> macros[Op], args |-> CallArguments(av.rest)]
<1>4. f \in Frame
  <2>1. macros[Op] \in Seq(Lines)
    BY <1>1 DEF TextInv, MacroInv
  <2>2. CallArguments(av.rest) \in Seq(Texts)
    BY <1>2, CallArgumentsType
  <2>. QED
    BY <2>1, <2>2 DEF Frame
<1>5. frames' = IF Len(frames) = MaxMacLevel THEN frames ELSE <<f>> \o frames
  BY DEF Call
<1> HIDE DEF f
<1>6. <<f>> \o frames \in Seq(Frame) /\ Len(<<f>> \o frames) = Len(frames) + 1
  BY <1>3, <1>4, PushFacts
<1>7. frames' \in Seq(Frame) /\ Len(frames') <= MaxMacLevel
  BY <1>3, <1>5, <1>6
<1>8. MacroInv'
  BY <1>1, <1>2, <1>7 DEF TextInv, MacroInv
<1>. QED
  BY <1>1, <1>8, HandleFacts, HandleStep

LEMMA EndmKeeps ==
  ASSUME TextInv, Endm
  PROVE  TextInv'
<1>1. Handle /\ errors' \in Nat /\ UNCHANGED <<macros, recording>>
  BY DEF Endm, Runs, TextInv, ControlInv
<1>2. frames' \in Seq(Frame) /\ Len(frames') <= MaxMacLevel
  BY FrameFacts DEF TextInv, MacroInv, Endm
<1>3. MacroInv'
  BY <1>1, <1>2 DEF TextInv, MacroInv, Handle, text
<1>. QED
  BY <1>1, <1>3, HandleFacts, HandleStep

(* The handlers that leave the macros alone.                               *)
LEMMA OthersKeep ==
  ASSUME TextInv, If \/ Endif \/ Data \/ LabelOnly \/ Unknown \/ Skipped
  PROVE  TextInv'
<1>1. /\ UNCHANGED <<file, at, pass, text>> /\ UNCHANGED <<frames, macros, recording>>
      /\ mode' \in {"read", "line", "abort"}
  BY DEF If, Endif, Data, LabelOnly, Unknown, Skipped, Runs, Handle, Otherwise
<1>2. errors' \in Nat
  BY DEF If, Endif, Data, LabelOnly, Unknown, Skipped, Otherwise, TextInv, ControlInv
<1>3. MacroInv'
  BY <1>1 DEF TextInv, MacroInv, text
<1>. QED
  BY <1>1, <1>2, <1>3, HandleStep

-----------------------------------------------------------------------------
LEMMA TextInit == Init => TextInv
<1> SUFFICES ASSUME Init PROVE TextInv
  OBVIOUS
<1>1. PassBound \in Nat \ {0} /\ MaxMacLevel \in Nat /\ MAXLINE \in Nat \ {0}
  BY TextAssumption
<1>2. file \in Sources /\ at = 1 /\ pass = 1 /\ errors = 0 /\ mode = "read" /\ pos = 1
  BY DEF Init
<1>3. Len(file) \in Nat
  BY <1>2, TextAssumption, LenProperties
<1>4. ControlInv
  BY <1>1, <1>2, <1>3 DEF ControlInv
<1>5. \A S : <<>> \in Seq(S)
  BY EmptySeq
<1>6. Len(<<>>) = 0
  OBVIOUS
<1>7. <<>> \in Lines
  BY <1>1, <1>5, <1>6 DEF Lines, Texts, Room
<1>8. BufferInv
  BY <1>2, <1>7 DEF BufferInv, Init
<1>9. frames \in Seq(Frame) /\ Len(frames) <= MaxMacLevel
  BY <1>1, <1>5, <1>6 DEF Init
<1>10. av.rest \in Texts
  BY <1>5 DEF Init, NoWords, Texts
<1>11. \A n \in DOMAIN macros : macros[n] \in Seq(Lines)
  BY DEF Init
<1>12. MacroInv
  BY <1>9, <1>10, <1>11 DEF MacroInv, Init
<1>. QED
  BY <1>4, <1>8, <1>12 DEF TextInv

LEMMA TextNext == TextInv /\ [Next]_vars => TextInv'
<1> SUFFICES ASSUME TextInv, [Next]_vars PROVE TextInv'
  OBVIOUS
<1>1. CASE Next
  BY <1>1, ReadFileKeeps, ReadMacroKeeps, MacroEndsKeeps, NoEndmKeeps, PassEndsKeeps,
     EndOfTextKeeps, TabKeeps, ApostropheKeeps, QuoteKeeps, NoCloseKeeps, SubstituteKeeps,
     NotGivenKeeps, PlainCharsKeeps, ParseKeeps, BodyLineKeeps, EndOfBodyKeeps, DefineKeeps,
     CallKeeps, EndmKeeps, OthersKeep, Zenon DEF Next
<1>2. CASE UNCHANGED vars
  BY <1>2 DEF vars, text, TextInv, ControlInv, BufferInv, MacroInv
<1>. QED
  BY <1>1, <1>2

(* Whatever the files, macros and arguments are: every line that is read,  *)
(* cleaned, parsed, stored in a macro or read again from one fits, and no  *)
(* more calls than MAXMACLEVEL are open (main.c:819-1305, ops.c:1168-1260). *)
THEOREM TextInductive == Spec => []TextInv
<1>1. Init => TextInv
  BY TextInit
<1>2. TextInv /\ [Next]_vars => TextInv'
  BY TextNext
<1>. QED
  BY <1>1, <1>2, PTL DEF Spec

(* The variables have their types, and the scan of cleanup stays on the    *)
(* line or at its end.                                                     *)
THEOREM TextTypes == Spec => []TypeOK
<1>1. TextInv => TypeOK
  BY DEF TextInv, ControlInv, BufferInv, MacroInv, TypeOK, Cleaning, Lines, Texts
<1>. QED
  BY <1>1, TextInductive, PTL

(* A line never grows past its buffer, whatever the arguments put in (the  *)
(* test of main.c:902, which counts the final 0), except for the one   *)
(* hard blank behind an apostrophe (main.c:841-848).                              *)
THEOREM LinesFit == Spec => []LineFits
<1>1. TextInv => LineFits
  BY Zenon DEF TextInv, BufferInv, Lines, Room, Blank, LineFits
<1>. QED
  BY <1>1, TextInductive, PTL
=============================================================================
