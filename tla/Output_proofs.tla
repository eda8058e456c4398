---------------------------- MODULE Output_proofs ----------------------------
(***************************************************************************)
(* The object file holds the memory that was assembled, whatever the       *)
(* lines, segments, origins and formats are, and however many passes       *)
(* there were.                                                             *)
(***************************************************************************)
EXTENDS Output, BasicFacts

(* Memories and hunks.                                                     *)
Memories == UNION {[D -> Byte] : D \in SUBSET Int}
HunkSet == [org : Nat, data : Seq(Byte)]

LEMMA BytesAssociative ==
  ASSUME NEW f \in Seq(Byte), NEW g \in Seq(Byte), NEW h \in Seq(Byte)
  PROVE  (f \o g) \o h = f \o (g \o h) /\ f \o g \in Seq(Byte) /\ g \o h \in Seq(Byte)
<1>1. (f \o g) \o h = f \o (g \o h)
  BY ConcatAssociative
<1>2. f \o g \in Seq(Byte) /\ g \o h \in Seq(Byte)
  BY ConcatProperties
<1>. QED
  BY <1>1, <1>2

LEMMA MemoryFacts ==
  ASSUME NEW m
  PROVE  /\ m \in Memories <=> DOMAIN m \subseteq Int /\ m \in [DOMAIN m -> Byte]
         /\ <<>> \in Memories /\ DOMAIN <<>> = {}
<1>1. ASSUME m \in Memories
      PROVE  DOMAIN m \subseteq Int /\ m \in [DOMAIN m -> Byte]
  <2>1. PICK D \in SUBSET Int : m \in [D -> Byte]
    BY <1>1 DEF Memories
  <2>. QED
    BY <2>1
<1>2. ASSUME DOMAIN m \subseteq Int, m \in [DOMAIN m -> Byte]
      PROVE  m \in Memories
  BY <1>2 DEF Memories
<1>3. <<>> \in [{} -> Byte] /\ {} \in SUBSET Int
  OBVIOUS
<1>4. <<>> \in Memories
  BY <1>3 DEF Memories
<1>. QED
  BY <1>1, <1>2, <1>3, <1>4

LEMMA LayFacts ==
  ASSUME NEW m \in Memories, NEW a \in Int, NEW d \in Seq(Byte)
  PROVE  /\ Lay(m, a, d) \in Memories
         /\ DOMAIN Lay(m, a, d) = DOMAIN m \cup a..(a + Len(d) - 1)
         /\ \A x \in a..(a + Len(d) - 1) : Lay(m, a, d)[x] = d[x - a + 1]
         /\ \A x \in DOMAIN m \ (a..(a + Len(d) - 1)) : Lay(m, a, d)[x] = m[x]
<1>1. Len(d) \in Nat /\ \A i \in 1..Len(d) : d[i] \in Byte
  BY LenProperties, ElementOfSeq
<1>2. DOMAIN m \subseteq Int /\ m \in [DOMAIN m -> Byte]
  BY MemoryFacts
<1> DEFINE D == DOMAIN m \cup a..(a + Len(d) - 1)
           l == Lay(m, a, d)
<1>3. l = [x \in D |-> IF x \in a..(a + Len(d) - 1) THEN d[x - a + 1] ELSE m[x]]
  BY DEF Lay
<1>4. \A x \in a..(a + Len(d) - 1) : x - a + 1 \in 1..Len(d)
  BY <1>1
<1>5. \A x \in a..(a + Len(d) - 1) : d[x - a + 1] \in Byte
  BY <1>1, <1>4
<1>6. \A x \in D : (IF x \in a..(a + Len(d) - 1) THEN d[x - a + 1] ELSE m[x]) \in Byte
  BY <1>2, <1>5
<1>7. l \in [D -> Byte] /\ D \in SUBSET Int
  <2>1. D \in SUBSET Int
    BY <1>1, <1>2
  <2>2. l \in [D -> Byte]
    BY <1>3, <1>6
  <2>. QED
    BY <2>1, <2>2
<1>8. l \in Memories
  BY <1>7 DEF Memories
<1>. QED
  BY <1>3, <1>8

(* Two memories with the same bytes are the same.                          *)
LEMMA SameMemory ==
  ASSUME NEW m \in Memories, NEW n \in Memories, DOMAIN m = DOMAIN n,
         \A x \in DOMAIN m : m[x] = n[x]
  PROVE  m = n
<1>1. m \in [DOMAIN m -> Byte] /\ n \in [DOMAIN n -> Byte]
  BY MemoryFacts
<1>. QED
  BY <1>1

LEMMA LayNothing ==
  ASSUME NEW m \in Memories, NEW a \in Int
  PROVE  Lay(m, a, <<>>) = m
<1>1. <<>> \in Seq(Byte) /\ Len(<<>>) = 0
  BY EmptySeq
<1> DEFINE l == Lay(m, a, <<>>)
<1>2. /\ l \in Memories
      /\ DOMAIN l = DOMAIN m \cup a..(a + Len(<<>>) - 1)
      /\ \A x \in DOMAIN m \ (a..(a + Len(<<>>) - 1)) : l[x] = m[x]
  BY <1>1, LayFacts
<1>3. a..(a + Len(<<>>) - 1) = {}
  BY <1>1
<1> HIDE DEF l
<1>4. DOMAIN l = DOMAIN m /\ \A x \in DOMAIN m : l[x] = m[x]
  BY <1>2, <1>3
<1>5. l = m
  BY <1>2, <1>4, SameMemory
<1>. QED
  BY <1>5 DEF l

LEMMA LayTwice ==
  ASSUME NEW m \in Memories, NEW a \in Int, NEW d \in Seq(Byte), NEW e \in Seq(Byte)
  PROVE  Lay(Lay(m, a, d), a + Len(d), e) = Lay(m, a, d \o e)
<1> DEFINE l == Lay(m, a, d)
           b == a + Len(d)
           r == Lay(l, b, e)
           de == d \o e
           w == Lay(m, a, de)
<1>1. Len(d) \in Nat /\ Len(e) \in Nat
  BY LenProperties
<1>2. /\ de \in Seq(Byte) /\ Len(de) = Len(d) + Len(e)
      /\ \A i \in 1..(Len(d) + Len(e)) : de[i] = IF i <= Len(d) THEN d[i] ELSE e[i - Len(d)]
  BY ConcatProperties
<1>3. b \in Int
  BY <1>1
<1>4. /\ l \in Memories
      /\ DOMAIN l = DOMAIN m \cup a..(a + Len(d) - 1)
      /\ \A x \in a..(a + Len(d) - 1) : l[x] = d[x - a + 1]
      /\ \A x \in DOMAIN m \ (a..(a + Len(d) - 1)) : l[x] = m[x]
  BY LayFacts
<1> HIDE DEF l
<1>5. /\ r \in Memories
      /\ DOMAIN r = DOMAIN l \cup b..(b + Len(e) - 1)
      /\ \A x \in b..(b + Len(e) - 1) : r[x] = e[x - b + 1]
      /\ \A x \in DOMAIN l \ (b..(b + Len(e) - 1)) : r[x] = l[x]
  BY <1>3, <1>4, LayFacts
<1> HIDE DEF de
<1>6. /\ w \in Memories
      /\ DOMAIN w = DOMAIN m \cup a..(a + Len(de) - 1)
      /\ \A x \in a..(a + Len(de) - 1) : w[x] = de[x - a + 1]
      /\ \A x \in DOMAIN m \ (a..(a + Len(de) - 1)) : w[x] = m[x]
  BY <1>2, LayFacts
<1> HIDE DEF r, w
<1>7. a..(a + Len(de) - 1) = a..(a + Len(d) - 1) \cup b..(b + Len(e) - 1)
  BY <1>1, <1>2
<1>8. DOMAIN r = DOMAIN w
  BY <1>4, <1>5, <1>6, <1>7
<1>9. ASSUME NEW x \in DOMAIN r
      PROVE  r[x] = w[x]
  <2>1. CASE x \in b..(b + Len(e) - 1)
    <3>1. x \in a..(a + Len(de) - 1) /\ r[x] = e[x - b + 1] /\ w[x] = de[x - a + 1]
      BY <1>5, <1>6, <1>7, <2>1
    <3> DEFINE i == x - a + 1
    <3>2. i \in 1..(Len(d) + Len(e)) /\ ~(i <= Len(d)) /\ i - Len(d) = x - b + 1
      BY <1>1, <2>1
    <3> HIDE DEF i
    <3>3. de[i] = e[i - Len(d)]
      BY <1>2, <3>2
    <3>. QED
      BY <3>1, <3>2, <3>3 DEF i
  <2>2. CASE x \notin b..(b + Len(e) - 1) /\ x \in a..(a + Len(d) - 1)
    <3>1. x \in a..(a + Len(de) - 1) /\ x \in DOMAIN l
      BY <1>4, <1>7, <2>2
    <3>2. r[x] = d[x - a + 1] /\ w[x] = de[x - a + 1]
      BY <1>4, <1>5, <1>6, <2>2, <3>1
    <3>3. x - a + 1 \in 1..(Len(d) + Len(e)) /\ x - a + 1 <= Len(d)
      BY <1>1, <2>2
    <3>. QED
      BY <1>2, <3>2, <3>3
  <2>3. CASE x \notin b..(b + Len(e) - 1) /\ x \notin a..(a + Len(d) - 1)
    <3>1. x \in DOMAIN m /\ x \in DOMAIN l /\ x \notin a..(a + Len(de) - 1)
      BY <1>4, <1>5, <1>7, <2>3
    <3>. QED
      BY <1>4, <1>5, <1>6, <2>3, <3>1
  <2>. QED
    BY <2>1, <2>2, <2>3
<1>10. r = w
  BY <1>5, <1>6, <1>8, <1>9, SameMemory
<1>. QED
  BY <1>10 DEF r, w, l, de

-----------------------------------------------------------------------------
(* The folds of the model, step by step: after k items.                    *)
BytesOf(hs) == FoldLeft(LAMBDA n, h : n + 4 + Len(h.data), 0, hs)

LEMMA LoadsFrom ==
  ASSUME NEW z \in Memories, NEW hs \in Seq(HunkSet)
  PROVE  \E f : /\ f[0] = z /\ FoldLeft(Load, z, hs) = f[Len(hs)]
                /\ \A k \in 1..Len(hs) : f[k] = Load(f[k - 1], hs[k])
<1> DEFINE n == Len(hs)
           D == 1..n
           G == [x \in Memories \X D |-> Load(x[1], hs[x[2]])]
           It(c) == c = [s \in SUBSET D |-> IF s = {} THEN z ELSE Load(c[s \ {Max(s)}], hs[Max(s)])]
           c == CHOOSE x : It(x)
           f == [k \in 0..n |-> c[1..k]]
<1>1. n \in Nat /\ DOMAIN hs = D /\ \A k \in D : hs[k] \in HunkSet
  BY LenProperties, ElementOfSeq
<1>2. FoldLeft(Load, z, hs) = c[D]
  BY <1>1 DEF FoldLeft, MapThenFoldSet
<1>3. \E x : It(x)
  <2>1. G \in [Memories \X D -> Memories]
    <3> SUFFICES ASSUME NEW x \in Memories \X D
                 PROVE  Load(x[1], hs[x[2]]) \in Memories
      OBVIOUS
    <3>1. x[1] \in Memories /\ hs[x[2]].org \in Int /\ hs[x[2]].data \in Seq(Byte)
      BY <1>1 DEF HunkSet
    <3>. QED
      BY <3>1, LayFacts DEF Load
  <2>3. \A x \in Memories, k \in D : G[<<x, k>>] = Load(x, hs[k])
    OBVIOUS
  <2> HIDE DEF G
  <2>4. PICK it \in [SUBSET D -> Memories] : Folding(n, z, G, it)
    BY <1>1, <2>1, FoldRecursion
  <2>5. ASSUME NEW s \in SUBSET D, s # {}
        PROVE  it[s] = Load(it[s \ {Max(s)}], hs[Max(s)])
    <3>1. Max(s) \in s
      BY <1>1, <2>5, MaxFacts
    <3>2. it[s \ {Max(s)}] \in Memories /\ Max(s) \in D
      BY <3>1
    <3>3. it[s] = G[<<it[s \ {Max(s)}], Max(s)>>]
      BY <2>4, <2>5 DEF Folding
    <3>. QED
      BY <2>3, <3>2, <3>3
  <2>6. it[{}] = z
    BY <2>4 DEF Folding
  <2>7. It(it)
    BY <2>5, <2>6
  <2>. QED
    BY <2>7
<1>4. It(c)
  BY <1>3, Zenon
<1> HIDE DEF c
<1>5. c[{}] = z
  BY <1>4
<1>6. ASSUME NEW k \in D
      PROVE  c[1..k] = Load(c[1..(k - 1)], hs[k])
  <2>1. k \in Nat \ {0} /\ 1..k \in SUBSET D
    BY <1>1
  <2>2. Max(1..k) = k /\ (1..k) \ {k} = 1..(k - 1) /\ 1..k # {}
    BY <2>1, FirstNumbers
  <2>. QED
    BY <1>4, <2>1, <2>2
<1>7. f[0] = z /\ f[n] = c[D]
  <2>1. 1..0 = {} /\ 0 \in 0..n /\ n \in 0..n
    BY <1>1
  <2>. QED
    BY <1>5, <2>1
<1>8. \A k \in D : f[k] = Load(f[k - 1], hs[k])
  <2>1. \A k \in D : k \in 0..n /\ k - 1 \in 0..n
    BY <1>1
  <2>. QED
    BY <1>6, <2>1
<1> HIDE DEF f
<1>. QED
  BY <1>2, <1>7, <1>8

LEMMA LoadSteps ==
  ASSUME NEW hs \in Seq(HunkSet)
  PROVE  \E f : /\ f[0] = <<>> /\ FoldLeft(Load, <<>>, hs) = f[Len(hs)]
                /\ \A k \in 1..Len(hs) : f[k] = Load(f[k - 1], hs[k])
BY MemoryFacts, LoadsFrom

LEMMA BytesSteps ==
  ASSUME NEW hs \in Seq(HunkSet)
  PROVE  \E f : /\ f[0] = 0 /\ BytesOf(hs) = f[Len(hs)]
                /\ \A k \in 1..Len(hs) : f[k] = f[k - 1] + 4 + Len(hs[k].data)
<1> DEFINE n == Len(hs)
           D == 1..n
           G == [x \in Nat \X D |-> x[1] + 4 + Len(hs[x[2]].data)]
           It(c) == c = [s \in SUBSET D |-> IF s = {} THEN 0 ELSE c[s \ {Max(s)}] + 4 + Len(hs[Max(s)].data)]
           c == CHOOSE x : It(x)
           f == [k \in 0..n |-> c[1..k]]
<1>1. n \in Nat /\ DOMAIN hs = D /\ \A k \in D : hs[k] \in HunkSet
  BY LenProperties, ElementOfSeq
<1>2. BytesOf(hs) = c[D]
  BY <1>1 DEF BytesOf, FoldLeft, MapThenFoldSet
<1>3. \E x : It(x)
  <2>1. G \in [Nat \X D -> Nat]
    <3> SUFFICES ASSUME NEW x \in Nat \X D
                 PROVE  x[1] + 4 + Len(hs[x[2]].data) \in Nat
      OBVIOUS
    <3>1. x[1] \in Nat /\ Len(hs[x[2]].data) \in Nat
      BY <1>1, LenProperties DEF HunkSet
    <3>. QED
      BY <3>1
  <2>2. 0 \in Nat
    OBVIOUS
  <2>3. \A x \in Nat, k \in D : G[<<x, k>>] = x + 4 + Len(hs[k].data)
    OBVIOUS
  <2> HIDE DEF G
  <2>4. PICK it \in [SUBSET D -> Nat] : Folding(n, 0, G, it)
    BY <1>1, <2>1, <2>2, FoldRecursion
  <2>5. ASSUME NEW s \in SUBSET D, s # {}
        PROVE  it[s] = it[s \ {Max(s)}] + 4 + Len(hs[Max(s)].data)
    <3>1. Max(s) \in s
      BY <1>1, <2>5, MaxFacts
    <3>2. it[s \ {Max(s)}] \in Nat /\ Max(s) \in D
      BY <3>1
    <3>3. it[s] = G[<<it[s \ {Max(s)}], Max(s)>>]
      BY <2>4, <2>5 DEF Folding
    <3>. QED
      BY <2>3, <3>2, <3>3
  <2>6. it[{}] = 0
    BY <2>4 DEF Folding
  <2>7. It(it)
    BY <2>5, <2>6
  <2>. QED
    BY <2>7
<1>4. It(c)
  BY <1>3, Zenon
<1> HIDE DEF c
<1>5. c[{}] = 0
  BY <1>4
<1>6. ASSUME NEW k \in D
      PROVE  c[1..k] = c[1..(k - 1)] + 4 + Len(hs[k].data)
  <2>1. k \in Nat \ {0} /\ 1..k \in SUBSET D
    BY <1>1
  <2>2. Max(1..k) = k /\ (1..k) \ {k} = 1..(k - 1) /\ 1..k # {}
    BY <2>1, FirstNumbers
  <2>. QED
    BY <1>4, <2>1, <2>2
<1>7. f[0] = 0 /\ f[n] = c[D]
  <2>1. 1..0 = {} /\ 0 \in 0..n /\ n \in 0..n
    BY <1>1
  <2>. QED
    BY <1>5, <2>1
<1>8. \A k \in D : f[k] = f[k - 1] + 4 + Len(hs[k].data)
  <2>1. \A k \in D : k \in 0..n /\ k - 1 \in 0..n
    BY <1>1
  <2>. QED
    BY <1>6, <2>1
<1> HIDE DEF f
<1>. QED
  BY <1>2, <1>7, <1>8

(* One more hunk.                                                          *)
LEMMA LoadAppend ==
  ASSUME NEW hs \in Seq(HunkSet), NEW h \in HunkSet
  PROVE  FoldLeft(Load, <<>>, Append(hs, h)) = Load(FoldLeft(Load, <<>>, hs), h)
<1> DEFINE n == Len(hs)
           gs == Append(hs, h)
<1>1. n \in Nat
  BY LenProperties
<1>2. /\ gs \in Seq(HunkSet) /\ Len(gs) = n + 1 /\ gs[n + 1] = h
      /\ \A k \in 1..n : gs[k] = hs[k]
  BY AppendProperties
<1> HIDE DEF gs, n
<1>3. PICK f : /\ f[0] = <<>> /\ FoldLeft(Load, <<>>, hs) = f[n]
               /\ \A k \in 1..n : f[k] = Load(f[k - 1], hs[k])
  BY LoadSteps DEF n
<1>4. PICK g : /\ g[0] = <<>> /\ FoldLeft(Load, <<>>, gs) = g[Len(gs)]
               /\ \A k \in 1..Len(gs) : g[k] = Load(g[k - 1], gs[k])
  BY <1>2, LoadSteps
<1> DEFINE T == {k \in Nat : g[k] = f[k]}
<1>5. 0..n \subseteq T
  <2>1. 0 \in T
    BY <1>3, <1>4
  <2>2. ASSUME NEW k \in 0..(n - 1), k \in T
        PROVE  k + 1 \in T
    <3>1. k + 1 \in 1..n /\ k + 1 \in 1..Len(gs) /\ (k + 1) - 1 = k /\ g[k] = f[k]
      BY <1>1, <1>2, <2>2
    <3>2. f[k + 1] = Load(f[k], hs[k + 1]) /\ g[k + 1] = Load(g[k], gs[k + 1])
      BY <1>3, <1>4, <3>1
    <3>. QED
      BY <1>2, <3>1, <3>2
  <2> HIDE DEF T
  <2>. QED
    BY <1>1, <2>1, <2>2, Upto
<1>6. g[n] = f[n]
  BY <1>1, <1>5
<1>7. n + 1 \in 1..Len(gs) /\ (n + 1) - 1 = n
  BY <1>1, <1>2
<1>8. g[n + 1] = Load(g[n], h)
  BY <1>2, <1>4, <1>7
<1>. QED
  BY <1>2, <1>3, <1>4, <1>6, <1>8 DEF gs

LEMMA BytesAppend ==
  ASSUME NEW hs \in Seq(HunkSet), NEW h \in HunkSet
  PROVE  BytesOf(Append(hs, h)) = BytesOf(hs) + 4 + Len(h.data)
<1> DEFINE n == Len(hs)
           gs == Append(hs, h)
<1>1. n \in Nat
  BY LenProperties
<1>2. /\ gs \in Seq(HunkSet) /\ Len(gs) = n + 1 /\ gs[n + 1] = h
      /\ \A k \in 1..n : gs[k] = hs[k]
  BY AppendProperties
<1> HIDE DEF gs, n
<1>3. PICK f : /\ f[0] = 0 /\ BytesOf(hs) = f[n]
               /\ \A k \in 1..n : f[k] = f[k - 1] + 4 + Len(hs[k].data)
  BY BytesSteps DEF n
<1>4. PICK g : /\ g[0] = 0 /\ BytesOf(gs) = g[Len(gs)]
               /\ \A k \in 1..Len(gs) : g[k] = g[k - 1] + 4 + Len(gs[k].data)
  BY <1>2, BytesSteps
<1> DEFINE T == {k \in Nat : g[k] = f[k]}
<1>5. 0..n \subseteq T
  <2>1. 0 \in T
    BY <1>3, <1>4
  <2>2. ASSUME NEW k \in 0..(n - 1), k \in T
        PROVE  k + 1 \in T
    <3>1. k + 1 \in 1..n /\ k + 1 \in 1..Len(gs) /\ (k + 1) - 1 = k /\ g[k] = f[k]
      BY <1>1, <1>2, <2>2
    <3>2. f[k + 1] = f[k] + 4 + Len(hs[k + 1].data) /\ g[k + 1] = g[k] + 4 + Len(gs[k + 1].data)
      BY <1>3, <1>4, <3>1
    <3>. QED
      BY <1>2, <3>1, <3>2
  <2> HIDE DEF T
  <2>. QED
    BY <1>1, <2>1, <2>2, Upto
<1>6. g[n] = f[n]
  BY <1>1, <1>5
<1>7. n + 1 \in 1..Len(gs) /\ (n + 1) - 1 = n
  BY <1>1, <1>2
<1>8. g[n + 1] = g[n] + 4 + Len(h.data)
  BY <1>2, <1>4, <1>7
<1>. QED
  BY <1>2, <1>3, <1>4, <1>6, <1>8 DEF gs

(* No hunks, and hunks without data, leave the memory as it was.           *)
LEMMA FoldNothing ==
  /\ FoldLeft(Load, <<>>, <<>>) = <<>> /\ BytesOf(<<>>) = 0
  /\ \A hs \in Seq(HunkSet) :
       (\A k \in 1..Len(hs) : hs[k].data = <<>>) => FoldLeft(Load, <<>>, hs) = <<>>
<1>1. <<>> \in Seq(HunkSet) /\ Len(<<>>) = 0
  BY EmptySeq
<1>2. BytesOf(<<>>) = 0
  <2>1. PICK f : f[0] = 0 /\ BytesOf(<<>>) = f[Len(<<>>)]
    BY <1>1, BytesSteps
  <2>. QED
    BY <1>1, <2>1
<1>3. ASSUME NEW hs \in Seq(HunkSet), \A k \in 1..Len(hs) : hs[k].data = <<>>
      PROVE  FoldLeft(Load, <<>>, hs) = <<>>
  <2>1. Len(hs) \in Nat
    BY LenProperties
  <2>2. PICK f : /\ f[0] = <<>> /\ FoldLeft(Load, <<>>, hs) = f[Len(hs)]
                 /\ \A k \in 1..Len(hs) : f[k] = Load(f[k - 1], hs[k])
    BY LoadSteps
  <2> DEFINE T == {k \in Nat : f[k] = <<>>}
  <2>3. 0..Len(hs) \subseteq T
    <3>1. 0 \in T
      BY <2>2
    <3>2. ASSUME NEW k \in 0..(Len(hs) - 1), k \in T
          PROVE  k + 1 \in T
      <4>1. k + 1 \in 1..Len(hs) /\ (k + 1) - 1 = k /\ f[k] = <<>> /\ k + 1 \in Nat
        BY <2>1, <3>2
      <4>2. f[k + 1] = Load(<<>>, hs[k + 1])
        BY <2>2, <4>1
      <4>3. hs[k + 1].org \in Int /\ hs[k + 1].data = <<>>
        <5>1. hs[k + 1] \in HunkSet
          BY <2>1, <4>1, ElementOfSeq
        <5>. QED
          BY <1>3, <4>1, <5>1 DEF HunkSet
      <4>4. Lay(<<>>, hs[k + 1].org, <<>>) = <<>>
        BY <4>3, MemoryFacts, LayNothing
      <4>5. f[k + 1] = <<>>
        BY <4>2, <4>3, <4>4 DEF Load
      <4>. QED
        BY <4>1, <4>5
    <3> HIDE DEF T
    <3>. QED
      BY <2>1, <3>1, <3>2, Upto
  <2>4. f[Len(hs)] = <<>>
    BY <2>1, <2>3
  <2>. QED
    BY <2>2, <2>4
<1>4. FoldLeft(Load, <<>>, <<>>) = <<>>
  <2> DEFINE hs == <<>>
  <2>1. \A k \in 1..Len(hs) : hs[k].data = <<>>
    BY <1>1
  <2> HIDE DEF hs
  <2>2. hs \in Seq(HunkSet) /\ hs = <<>>
    BY <1>1 DEF hs
  <2>3. FoldLeft(Load, <<>>, hs) = <<>>
    BY <1>3, <2>1, <2>2
  <2>. QED
    BY <2>2, <2>3
<1>. QED
  BY <1>2, <1>3, <1>4

-----------------------------------------------------------------------------
(* The hunks of a file.                                                    *)
HunkList(f, h) ==
  h = [i \in 1..(Len(f) + 1) |->
         IF Complete(f, i) THEN <<HunkAt(f, i)>> \o h[After(f, i)] ELSE <<>>]

HunkChain(f, h) ==
  \A i \in 1..(Len(f) + 1) :
    /\ Complete(f, i) => h[i] = <<HunkAt(f, i)>> \o h[After(f, i)]
    /\ ~Complete(f, i) => h[i] = <<>>

LEMMA HunkFacts ==
  ASSUME NEW f \in Seq(Byte), NEW i \in 1..(Len(f) + 1), Complete(f, i)
  PROVE  /\ HunkAt(f, i) \in HunkSet
         /\ After(f, i) \in (i + 1)..(Len(f) + 1)
<1>1. Len(f) \in Nat /\ \A k \in 1..Len(f) : f[k] \in Nat /\ f[k] \in Byte
  BY ToolAssumption, LenProperties, ElementOfSeq DEF Byte
<1>2. i \in Nat \ {0} /\ i + 3 <= Len(f) /\ i + 3 + WordAt(f, i + 2) <= Len(f)
  BY <1>1 DEF Complete
<1>3. Radix \in Nat
  BY ToolAssumption
<1>4. ASSUME NEW k \in 1..Len(f), k + 1 <= Len(f)
      PROVE  WordAt(f, k) \in Nat
  <2>1. f[k] \in Nat /\ f[k + 1] \in Nat
    BY <1>1, <1>4
  <2>. QED
    BY <1>3, <2>1 DEF WordAt
<1> DEFINE w == WordAt(f, i + 2)
<1>5. WordAt(f, i) \in Nat /\ w \in Nat
  <2>1. i \in 1..Len(f) /\ i + 2 \in 1..Len(f) /\ (i + 2) + 1 <= Len(f) /\ i + 1 <= Len(f)
    BY <1>1, <1>2
  <2>. QED
    BY <1>4, <2>1
<1>6. i + 3 + w <= Len(f)
  BY <1>2
<1>7. After(f, i) = i + 4 + w /\ HunkAt(f, i) = [org |-> WordAt(f, i), data |-> SubSeq(f, i + 4, i + 3 + w)]
  BY DEF After, HunkAt
<1> HIDE DEF w
<1>8. i + 4 + w \in (i + 1)..(Len(f) + 1)
  BY <1>1, <1>2, <1>5, <1>6
<1>9. SubSeq(f, i + 4, i + 3 + w) \in Seq(Byte)
  <2> DEFINE a == i + 4
             b == i + 3 + w
  <2>1. a \in Int /\ b \in Int /\ \A k \in a..b : k \in 1..Len(f)
    BY <1>1, <1>2, <1>5, <1>6
  <2> HIDE DEF a, b
  <2>2. \A k \in a..b : f[k] \in Byte
    BY <1>1, <2>1
  <2>3. SubSeq(f, a, b) \in Seq(Byte)
    BY <2>1, <2>2, SubSeqProperties
  <2>. QED
    BY <2>3 DEF a, b
<1>. QED
  BY <1>5, <1>7, <1>8, <1>9 DEF HunkSet

LEMMA HunksExist ==
  ASSUME NEW f \in Seq(Byte)
  PROVE  \E h : /\ Hunks(f) = h[1] /\ HunkChain(f, h)
                /\ \A i \in 1..(Len(f) + 1) : h[i] \in Seq(HunkSet)
<1> DEFINE n == Len(f)
           E == {i \in 1..(n + 1) : ~Complete(f, i)}
           J == [i \in 1..(n + 1) |-> IF i \in E THEN 0 ELSE After(f, i)]
           none == [org |-> 0, data |-> <<>>]
           X == [i \in 1..(n + 1) |-> IF i \in E THEN none ELSE HunkAt(f, i)]
           c == CHOOSE h : HunkList(f, h)
<1>1. n \in Nat
  BY LenProperties
<1>2. ASSUME NEW i \in 1..(n + 1), Complete(f, i)
      PROVE  HunkAt(f, i) \in HunkSet /\ After(f, i) \in (i + 1)..(n + 1)
  BY <1>2, HunkFacts
<1>3. n + 1 \in E
  <2>1. ~((n + 1) + 3 <= n)
    BY <1>1
  <2>2. ~Complete(f, n + 1)
    BY <2>1 DEF Complete
  <2>. QED
    BY <1>1, <2>2
<1>4. \A i \in 1..(n + 1) : i \in E <=> ~Complete(f, i)
  OBVIOUS
<1>5. none \in HunkSet
  BY EmptySeq DEF HunkSet
<1> HIDE DEF E, none
<1>6. X \in [1..(n + 1) -> HunkSet]
  BY <1>2, <1>4, <1>5
<1>7. Jumps(n, E, J)
  <2>1. \A i \in 1..(n + 1) : i \notin E => J[i] \in (i + 1)..(n + 1)
    BY <1>2, <1>4
  <2>2. J \in [1..(n + 1) -> Int]
    <3>1. \A i \in 1..(n + 1) : (IF i \in E THEN 0 ELSE After(f, i)) \in Int
      <4> SUFFICES ASSUME NEW i \in 1..(n + 1), i \notin E PROVE After(f, i) \in Int
        OBVIOUS
      <4>1. After(f, i) \in (i + 1)..(n + 1) /\ i \in Int
        BY <1>2, <1>4
      <4>. QED
        BY <1>1, <4>1
    <3>. QED
      BY <3>1
  <2> HIDE DEF J
  <2>. QED
    BY <1>3, <2>1, <2>2 DEF Jumps
<1>8. ASSUME NEW i \in 1..(n + 1), i \notin E
      PROVE  J[i] = After(f, i) /\ X[i] = HunkAt(f, i)
  BY <1>8
<1> HIDE DEF J, X
<1>9. \E h : HunkList(f, h)
  <2>1. PICK h \in [1..(n + 1) -> Seq(HunkSet)] : Listing(n, E, J, X, h)
    BY <1>1, <1>6, <1>7, ListRecursion
  <2>2. \A i \in 1..(n + 1) : h[i] = IF Complete(f, i) THEN <<HunkAt(f, i)>> \o h[After(f, i)] ELSE <<>>
    BY <1>4, <1>8, <2>1 DEF Listing
  <2>3. HunkList(f, h)
    BY <2>1, <2>2 DEF HunkList
  <2>. QED
    BY <2>3
<1>10. HunkList(f, c)
  BY <1>9, Zenon
<1>11. Hunks(f) = c[1]
  BY DEF Hunks, HunkList
<1> HIDE DEF c
<1>12. \A i \in 1..(n + 1) : c[i] = IF Complete(f, i) THEN <<HunkAt(f, i)>> \o c[After(f, i)] ELSE <<>>
  BY <1>10 DEF HunkList
<1>13. Listing(n, E, J, X, c)
  BY <1>4, <1>8, <1>12 DEF Listing
<1>14. \A i \in 1..(n + 1) : c[i] \in Seq(HunkSet)
  BY <1>1, <1>6, <1>7, <1>13, ListType
<1>. QED
  BY <1>11, <1>12, <1>14 DEF HunkChain

(* What is read behind the first part of a file.                           *)
LEMMA SubSeqShift ==
  ASSUME NEW f \in Seq(Byte), NEW g \in Seq(Byte), NEW m \in Nat \ {0}, NEW n \in Int, n <= Len(g)
  PROVE  SubSeq(f \o g, Len(f) + m, Len(f) + n) = SubSeq(g, m, n)
<1> DEFINE a == Len(f)
           F == f \o g
<1>1. a \in Nat /\ Len(g) \in Nat /\ \A i \in 1..Len(g) : g[i] \in Byte
  BY LenProperties, ElementOfSeq
<1>2. F \in Seq(Byte) /\ Len(F) = a + Len(g)
      /\ \A i \in 1..(a + Len(g)) : F[i] = IF i <= a THEN f[i] ELSE g[i - a]
  BY ConcatProperties
<1> HIDE DEF F, a
<1>3. ASSUME NEW i \in m..n
      PROVE  F[a + i] = g[i] /\ g[i] \in Byte
  <2> DEFINE k == a + i
  <2>1. k \in 1..(a + Len(g)) /\ ~(k <= a) /\ k - a = i /\ i \in 1..Len(g)
    BY <1>1
  <2> HIDE DEF k
  <2>2. F[k] = g[i]
    BY <1>2, <2>1
  <2>. QED
    BY <1>1, <2>1, <2>2 DEF k
<1> DEFINE u == SubSeq(F, a + m, a + n)
           v == SubSeq(g, m, n)
<1>4. /\ v \in Seq(Byte) /\ Len(v) = IF m <= n THEN n - m + 1 ELSE 0
      /\ \A i \in 1..(n - m + 1) : v[i] = g[m + i - 1]
  BY <1>3, SubSeqProperties
<1>5. a + m \in Int /\ a + n \in Int
  BY <1>1
<1>6. \A i \in (a + m)..(a + n) : F[i] \in Byte
  <2> SUFFICES ASSUME NEW i \in (a + m)..(a + n) PROVE F[i] \in Byte
    OBVIOUS
  <2>1. i - a \in m..n /\ a + (i - a) = i
    BY <1>1
  <2>. QED
    BY <1>3, <2>1
<1> DEFINE b == a + m
           e == a + n
<1> HIDE DEF b, e
<1>7. /\ SubSeq(F, b, e) \in Seq(Byte) /\ Len(SubSeq(F, b, e)) = IF b <= e THEN e - b + 1 ELSE 0
      /\ \A i \in 1..(e - b + 1) : SubSeq(F, b, e)[i] = F[b + i - 1]
  <2>1. b \in Int /\ e \in Int /\ \A i \in b..e : F[i] \in Byte
    BY <1>5, <1>6 DEF b, e
  <2>. QED
    BY <2>1, SubSeqProperties
<1>8. /\ u \in Seq(Byte) /\ Len(u) = Len(v)
  <2>1. u = SubSeq(F, b, e)
    BY DEF b, e
  <2>2. (b <= e) = (m <= n) /\ e - b + 1 = n - m + 1
    BY <1>1 DEF b, e
  <2> HIDE DEF u, v
  <2>. QED
    BY <1>4, <1>7, <2>1, <2>2
<1>9. ASSUME NEW i \in 1..Len(u)
      PROVE  u[i] = v[i]
  <2>1. i \in 1..(n - m + 1)
    BY <1>4, <1>8
  <2>2. i \in 1..(e - b + 1) /\ b + i - 1 = a + (m + i - 1) /\ m + i - 1 \in m..n
    BY <1>1, <2>1 DEF b, e
  <2>3. u[i] = F[b + i - 1]
    BY <1>7, <2>2 DEF b, e
  <2>4. F[a + (m + i - 1)] = g[m + i - 1]
    BY <1>3, <2>2
  <2>5. v[i] = g[m + i - 1]
    BY <1>4, <2>1
  <2>. QED
    BY <2>2, <2>3, <2>4, <2>5
<1> HIDE DEF u, v
<1>10. u = v
  BY <1>4, <1>8, <1>9, SeqEqual
<1>. QED
  BY <1>10 DEF u, v, F, a

LEMMA ShiftFacts ==
  ASSUME NEW f \in Seq(Byte), NEW g \in Seq(Byte), NEW i \in 1..(Len(g) + 1)
  PROVE  /\ Complete(f \o g, Len(f) + i) <=> Complete(g, i)
         /\ Complete(g, i) => /\ HunkAt(f \o g, Len(f) + i) = HunkAt(g, i)
                              /\ After(f \o g, Len(f) + i) = Len(f) + After(g, i)
<1> DEFINE a == Len(f)
           F == f \o g
<1>1. a \in Nat /\ Len(g) \in Nat /\ \A k \in 1..Len(g) : g[k] \in Nat
  BY ToolAssumption, LenProperties, ElementOfSeq DEF Byte
<1>2. F \in Seq(Byte) /\ Len(F) = a + Len(g)
      /\ \A k \in 1..(a + Len(g)) : F[k] = IF k <= a THEN f[k] ELSE g[k - a]
  BY ConcatProperties
<1> HIDE DEF F
<1>3. ASSUME NEW k \in 1..Len(g)
      PROVE  F[a + k] = g[k]
  <2> DEFINE j == a + k
  <2>1. j \in 1..(a + Len(g)) /\ ~(j <= a) /\ j - a = k
    BY <1>1
  <2> HIDE DEF j, a
  <2>2. F[j] = g[k]
    BY <1>2, <2>1
  <2>. QED
    BY <2>2 DEF j
<1>4. ASSUME i + 3 <= Len(g)
      PROVE  WordAt(F, a + i) = WordAt(g, i) /\ WordAt(F, (a + i) + 2) = WordAt(g, i + 2)
             /\ WordAt(g, i + 2) \in Nat
  <2>1. /\ i \in 1..Len(g) /\ i + 1 \in 1..Len(g) /\ i + 2 \in 1..Len(g) /\ i + 3 \in 1..Len(g)
        /\ (a + i) + 1 = a + (i + 1) /\ (a + i) + 2 = a + (i + 2) /\ ((a + i) + 2) + 1 = a + (i + 3)
        /\ (i + 2) + 1 = i + 3
    BY <1>1, <1>4
  <2>2. F[a + i] = g[i] /\ F[a + (i + 1)] = g[i + 1]
    BY <1>3, <2>1
  <2>3. F[a + (i + 2)] = g[i + 2] /\ F[a + (i + 3)] = g[i + 3]
    BY <1>3, <2>1
  <2>4. g[i + 2] \in Nat /\ g[i + 3] \in Nat
    BY <1>1, <2>1
  <2>5. F[(a + i) + 1] = g[i + 1] /\ F[(a + i) + 2] = g[i + 2]
        /\ F[((a + i) + 2) + 1] = g[(i + 2) + 1] /\ g[(i + 2) + 1] = g[i + 3]
    BY <2>1, <2>2, <2>3
  <2>6. WordAt(F, a + i) = WordAt(g, i) /\ WordAt(F, (a + i) + 2) = WordAt(g, i + 2)
    BY <2>2, <2>5 DEF WordAt
  <2>7. WordAt(g, i + 2) \in Nat
    <3> DEFINE x == g[i + 2]
               y == g[(i + 2) + 1]
    <3>1. WordAt(g, i + 2) = x + Radix * y
      BY DEF WordAt
    <3>2. x \in Nat /\ y \in Nat /\ Radix \in Nat
      BY <2>4, <2>5, ToolAssumption
    <3> HIDE DEF x, y
    <3>3. x + Radix * y \in Nat
      BY <3>2
    <3>. QED
      BY <3>1, <3>3
  <2>. QED
    BY <2>6, <2>7
<1> DEFINE w == WordAt(g, i + 2)
           v == WordAt(F, (a + i) + 2)
<1>5. Complete(F, a + i) <=> (a + i) + 3 <= Len(F) /\ (a + i) + 3 + v <= Len(F)
  BY DEF Complete
<1>6. Complete(g, i) <=> i + 3 <= Len(g) /\ i + 3 + w <= Len(g)
  BY DEF Complete
<1>7. /\ HunkAt(F, a + i) = [org |-> WordAt(F, a + i), data |-> SubSeq(F, (a + i) + 4, (a + i) + 3 + v)]
      /\ HunkAt(g, i) = [org |-> WordAt(g, i), data |-> SubSeq(g, i + 4, i + 3 + w)]
      /\ After(F, a + i) = (a + i) + 4 + v /\ After(g, i) = i + 4 + w
  BY DEF HunkAt, After
<1>8. i + 3 <= Len(g) => w = v /\ w \in Nat /\ WordAt(F, a + i) = WordAt(g, i)
  BY <1>4
<1> HIDE DEF w, v
<1>9. Complete(F, a + i) <=> Complete(g, i)
  <2>1. (a + i) + 3 <= Len(F) <=> i + 3 <= Len(g)
    BY <1>1, <1>2
  <2>2. CASE i + 3 <= Len(g)
    <3>1. (a + i) + 3 + w <= Len(F) <=> i + 3 + w <= Len(g)
      BY <1>1, <1>2, <1>8, <2>2
    <3>. QED
      BY <1>5, <1>6, <1>8, <2>1, <2>2, <3>1
  <2>3. CASE ~(i + 3 <= Len(g))
    BY <1>5, <1>6, <2>1, <2>3
  <2>. QED
    BY <2>2, <2>3
<1>10. ASSUME Complete(g, i)
       PROVE  HunkAt(F, a + i) = HunkAt(g, i) /\ After(F, a + i) = a + After(g, i)
  <2>1. i + 3 <= Len(g) /\ i + 3 + w <= Len(g) /\ w = v /\ w \in Nat
    BY <1>6, <1>8, <1>10
  <2>2. (a + i) + 4 + w = a + (i + 4 + w)
    BY <1>1, <2>1
  <2>3. (a + i) + 4 = a + (i + 4) /\ (a + i) + 3 + w = a + (i + 3 + w)
        /\ i + 4 \in Nat \ {0} /\ i + 3 + w \in Int
    BY <1>1, <2>1
  <2> DEFINE m == i + 4
             n == i + 3 + w
  <2>4. SubSeq(F, a + m, a + n) = SubSeq(g, m, n)
    <3>1. m \in Nat \ {0} /\ n \in Int /\ n <= Len(g)
      BY <2>1, <2>3
    <3> HIDE DEF m, n
    <3>. QED
      BY <3>1, SubSeqShift DEF F
  <2>. QED
    BY <1>7, <1>8, <2>1, <2>2, <2>3, <2>4
<1>. QED
  BY <1>9, <1>10 DEF F

(* The hunks behind the first part of a file, read from there on, are      *)
(* those of the rest.                                                      *)
LEMMA ReadOn ==
  ASSUME NEW f \in Seq(Byte), NEW g \in Seq(Byte), NEW p, NEW h,
         HunkChain(f \o g, p), HunkChain(g, h)
  PROVE  p[Len(f) + 1] = h[1]
<1> DEFINE a == Len(f)
           n == Len(g)
           F == f \o g
           T == {m \in Nat : m <= n => \A i \in (n + 1 - m)..(n + 1) : p[a + i] = h[i]}
<1>1. a \in Nat /\ n \in Nat /\ Len(F) = a + n
  BY LenProperties, ConcatProperties
<1>2. ASSUME NEW i \in 1..(n + 1)
      PROVE  /\ Complete(g, i) => /\ After(g, i) \in (i + 1)..(n + 1)
                                  /\ h[i] = <<HunkAt(g, i)>> \o h[After(g, i)]
                                  /\ p[a + i] = <<HunkAt(g, i)>> \o p[a + After(g, i)]
             /\ ~Complete(g, i) => h[i] = p[a + i]
  <2>1. a + i \in 1..(Len(F) + 1)
    BY <1>1
  <2>2. CASE Complete(g, i)
    <3>1. Complete(F, a + i) /\ HunkAt(F, a + i) = HunkAt(g, i) /\ After(F, a + i) = a + After(g, i)
      BY <2>2, ShiftFacts
    <3>2. After(g, i) \in (i + 1)..(n + 1)
      BY <2>2, HunkFacts
    <3>3. p[a + i] = <<HunkAt(F, a + i)>> \o p[After(F, a + i)]
      BY <2>1, <3>1 DEF HunkChain
    <3>. QED
      BY <2>2, <3>1, <3>2, <3>3 DEF HunkChain
  <2>3. CASE ~Complete(g, i)
    <3>1. ~Complete(F, a + i)
      BY <2>3, ShiftFacts
    <3>. QED
      BY <2>1, <2>3, <3>1 DEF HunkChain
  <2>. QED
    BY <2>2, <2>3
<1> HIDE DEF F, a, n
<1>3. ~Complete(g, n + 1)
  BY <1>1 DEF Complete, n
<1>4. 0 \in T
  <2>1. \A i \in (n + 1 - 0)..(n + 1) : i = n + 1
    BY <1>1
  <2>2. n + 1 \in 1..(n + 1)
    BY <1>1
  <2>3. p[a + (n + 1)] = h[n + 1]
    BY <1>2, <1>3, <2>2
  <2>. QED
    BY <2>1, <2>3
<1>5. ASSUME NEW m \in Nat, m \in T
      PROVE  m + 1 \in T
  <2> SUFFICES ASSUME m + 1 <= n, NEW i \in (n + 1 - (m + 1))..(n + 1)
               PROVE  p[a + i] = h[i]
    OBVIOUS
  <2>1. \A k \in (n + 1 - m)..(n + 1) : p[a + k] = h[k]
    BY <1>1, <1>5
  <2>2. i \in 1..(n + 1) /\ i + 1 >= n + 1 - m
    BY <1>1
  <2>3. CASE Complete(g, i)
    <3> DEFINE j == After(g, i)
    <3>1. j \in (i + 1)..(n + 1) /\ h[i] = <<HunkAt(g, i)>> \o h[j] /\ p[a + i] = <<HunkAt(g, i)>> \o p[a + j]
      BY <1>2, <2>2, <2>3
    <3> HIDE DEF j
    <3>2. j \in (n + 1 - m)..(n + 1)
      BY <1>1, <2>2, <3>1
    <3>3. p[a + j] = h[j]
      BY <2>1, <3>2
    <3>. QED
      BY <3>1, <3>3
  <2>4. CASE ~Complete(g, i)
    BY <1>2, <2>2, <2>4
  <2>. QED
    BY <2>3, <2>4
<1> HIDE DEF T
<1>6. n \in T
  BY <1>1, <1>4, <1>5, SetInduction
<1>7. 1 \in (n + 1 - n)..(n + 1) /\ n <= n
  BY <1>1
<1>. QED
  BY <1>6, <1>7 DEF T, a

-----------------------------------------------------------------------------
(* One hunk in front of a file.                                            *)
HunkOf(o, n, d) == Word(o) \o Word(n) \o d

LEMMA WordFacts ==
  ASSUME NEW n \in Nat
  PROVE  /\ Word(n) \in Seq(Byte) /\ Len(Word(n)) = 2
         /\ Word(n)[1] = n % Radix /\ Word(n)[2] = (n \div Radix) % Radix
<1>1. n % Radix \in Byte /\ (n \div Radix) % Radix \in Byte
  <2>1. Radix \in Nat \ {0} /\ n \div Radix \in Int
    BY ToolAssumption
  <2>. QED
    BY <2>1 DEF Byte
<1>. QED
  BY <1>1 DEF Word

(* A word is read back as what it was, if it has two bytes.                *)
LEMMA WordRead ==
  ASSUME NEW n \in Nat, NEW f, NEW i \in Nat, f[i] = Word(n)[1], f[i + 1] = Word(n)[2]
  PROVE  /\ WordAt(f, i) = n % (Radix * Radix)
         /\ n < Radix * Radix => WordAt(f, i) = n
<1>1. Radix \in Nat \ {0}
  BY ToolAssumption
<1> DEFINE low == n % Radix
           high == (n \div Radix) % Radix
           rr == Radix * Radix
<1>2. Radix * high + low = n % rr
  <2>1. n \in Int
    OBVIOUS
  <2>. QED
    BY <1>1, <2>1, TwoDigits, Zenon
<1>3. low \in Int /\ high \in Int /\ Radix * high \in Int /\ rr \in Nat \ {0}
  BY <1>1
<1>4. WordAt(f, i) = low + Radix * high
  BY WordFacts DEF WordAt
<1> HIDE DEF low, high, rr
<1>5. WordAt(f, i) = n % rr
  BY <1>2, <1>3, <1>4
<1>6. n < rr => n % rr = n
  BY <1>3, SmallRemainder
<1>. QED
  BY <1>5, <1>6 DEF rr

LEMMA HunkOfFacts ==
  ASSUME NEW o \in Nat, NEW n \in Nat, NEW d \in Seq(Byte)
  PROVE  /\ HunkOf(o, n, d) \in Seq(Byte) /\ Len(HunkOf(o, n, d)) = 4 + Len(d)
         /\ HunkOf(o, n, d)[1] = Word(o)[1] /\ HunkOf(o, n, d)[2] = Word(o)[2]
         /\ HunkOf(o, n, d)[3] = Word(n)[1] /\ HunkOf(o, n, d)[4] = Word(n)[2]
         /\ \A i \in 1..Len(d) : HunkOf(o, n, d)[i + 4] = d[i]
<1> DEFINE p == Word(o)
           q == Word(n)
           pq == p \o q
           h == pq \o d
<1>1. p \in Seq(Byte) /\ Len(p) = 2 /\ q \in Seq(Byte) /\ Len(q) = 2 /\ Len(d) \in Nat
  BY WordFacts, LenProperties
<1> HIDE DEF p, q
<1>2. /\ pq \in Seq(Byte) /\ Len(pq) = Len(p) + Len(q)
      /\ \A i \in 1..(Len(p) + Len(q)) : pq[i] = IF i <= Len(p) THEN p[i] ELSE q[i - Len(p)]
  BY <1>1, ConcatProperties
<1>3. Len(pq) = 4 /\ pq[1] = p[1] /\ pq[2] = p[2] /\ pq[3] = q[1] /\ pq[4] = q[2]
  BY <1>1, <1>2
<1> HIDE DEF pq
<1>4. /\ h \in Seq(Byte) /\ Len(h) = 4 + Len(d)
      /\ \A i \in 1..(4 + Len(d)) : h[i] = IF i <= 4 THEN pq[i] ELSE d[i - 4]
  <2>1. /\ h \in Seq(Byte) /\ Len(h) = Len(pq) + Len(d)
        /\ \A i \in 1..(Len(pq) + Len(d)) : h[i] = IF i <= Len(pq) THEN pq[i] ELSE d[i - Len(pq)]
    <3>1. pq \in Seq(Byte)
      BY <1>2
    <3>. QED
      BY <3>1, ConcatProperties
  <2>. QED
    BY <1>3, <2>1
<1>5. \A i \in 1..4 : i \in 1..(4 + Len(d)) /\ i <= 4
  BY <1>1
<1>6. h[1] = p[1] /\ h[2] = p[2] /\ h[3] = q[1] /\ h[4] = q[2]
  BY <1>3, <1>4, <1>5
<1>7. ASSUME NEW i \in 1..Len(d)
      PROVE  h[i + 4] = d[i]
  <2> DEFINE k == i + 4
  <2>1. k \in 1..(4 + Len(d)) /\ ~(k <= 4) /\ k - 4 = i
    BY <1>1
  <2> HIDE DEF k, h
  <2>2. h[k] = d[i]
    BY <1>4, <2>1
  <2>. QED
    BY <2>2 DEF k
<1>8. HunkOf(o, n, d) = h
  BY DEF HunkOf, h, pq, p, q
<1> HIDE DEF h
<1>. QED
  BY <1>4, <1>6, <1>7, <1>8 DEF p, q

LEMMA ReadHunk ==
  ASSUME NEW o \in Nat, NEW d \in Seq(Byte), Len(d) < Radix * Radix, NEW t \in Seq(Byte)
  PROVE  Hunks(HunkOf(o, Len(d), d) \o t)
           = <<[org |-> o % (Radix * Radix), data |-> d]>> \o Hunks(t)
<1> DEFINE H == HunkOf(o, Len(d), d)
           F == H \o t
           n == Len(d)
           w == WordAt(F, 3)
<1>1. n \in Nat /\ Len(t) \in Nat
  BY LenProperties
<1>2. /\ H \in Seq(Byte) /\ Len(H) = 4 + n
      /\ H[1] = Word(o)[1] /\ H[2] = Word(o)[2] /\ H[3] = Word(n)[1] /\ H[4] = Word(n)[2]
      /\ \A i \in 1..n : H[i + 4] = d[i]
  BY <1>1, HunkOfFacts
<1> HIDE DEF H, n
<1>3. /\ F \in Seq(Byte) /\ Len(F) = 4 + n + Len(t)
      /\ \A i \in 1..(4 + n + Len(t)) : F[i] = IF i <= 4 + n THEN H[i] ELSE t[i - (4 + n)]
  <2>1. /\ F \in Seq(Byte) /\ Len(F) = Len(H) + Len(t)
        /\ \A i \in 1..(Len(H) + Len(t)) : F[i] = IF i <= Len(H) THEN H[i] ELSE t[i - Len(H)]
    BY <1>2, ConcatProperties
  <2> HIDE DEF F
  <2>. QED
    BY <1>2, <2>1
<1> HIDE DEF F
<1>4. \A i \in 1..(4 + n) : F[i] = H[i]
  <2>1. \A i \in 1..(4 + n) : i \in 1..(4 + n + Len(t)) /\ i <= 4 + n
    BY <1>1
  <2>. QED
    BY <1>3, <2>1
<1>5. F[1] = Word(o)[1] /\ F[2] = Word(o)[2] /\ F[3] = Word(n)[1] /\ F[4] = Word(n)[2]
  <2>1. 1 \in 1..(4 + n) /\ 2 \in 1..(4 + n) /\ 3 \in 1..(4 + n) /\ 4 \in 1..(4 + n)
    BY <1>1
  <2>. QED
    BY <1>2, <1>4, <2>1
<1>6. w = n /\ WordAt(F, 1) = o % (Radix * Radix)
  <2>1. 3 \in Nat /\ 3 + 1 = 4 /\ 1 \in Nat /\ 1 + 1 = 2
    OBVIOUS
  <2>2. WordAt(F, 3) = n
    <3>1. F[3 + 1] = Word(n)[2]
      BY <1>5, <2>1
    <3>2. n < Radix * Radix
      BY DEF n
    <3>. QED
      BY <1>1, <1>5, <2>1, <3>1, <3>2, WordRead
  <2>3. WordAt(F, 1) = o % (Radix * Radix)
    <3>1. F[1 + 1] = Word(o)[2]
      BY <1>5, <2>1
    <3>. QED
      BY <1>5, <2>1, <3>1, WordRead
  <2>. QED
    BY <2>2, <2>3
<1>7. Complete(F, 1) /\ After(F, 1) = Len(H) + 1
  <2>1. 1 + 2 = 3 /\ 1 + 3 <= Len(F) /\ 1 + 3 + n <= Len(F) /\ 1 + 4 + n = Len(H) + 1
    BY <1>1, <1>2, <1>3
  <2>2. WordAt(F, 1 + 2) = n
    BY <1>6, <2>1
  <2>. QED
    BY <2>1, <2>2 DEF Complete, After
<1>8. HunkAt(F, 1) = [org |-> o % (Radix * Radix), data |-> d]
  <2> DEFINE b == 1 + 3 + n
             u == SubSeq(F, 5, b)
  <2>1. HunkAt(F, 1) = [org |-> WordAt(F, 1), data |-> u]
    <3>1. 1 + 2 = 3 /\ 1 + 4 = 5
      OBVIOUS
    <3>2. WordAt(F, 1 + 2) = n
      BY <1>6, <3>1
    <3>. QED
      BY <3>1, <3>2 DEF HunkAt
  <2>2. b \in Int /\ 5 \in Int /\ \A i \in 5..b : i \in 1..Len(F)
    BY <1>1, <1>3
  <2>3. \A i \in 1..Len(F) : F[i] \in Byte
    BY <1>3, ElementOfSeq
  <2>4. b - 5 + 1 = n /\ (IF 5 <= b THEN b - 5 + 1 ELSE 0) = n
    BY <1>1
  <2> HIDE DEF b
  <2>5. \A i \in 5..b : F[i] \in Byte
    BY <2>2, <2>3
  <2>6. /\ u \in Seq(Byte) /\ Len(u) = IF 5 <= b THEN b - 5 + 1 ELSE 0
        /\ \A i \in 1..(b - 5 + 1) : u[i] = F[5 + i - 1]
    BY <2>2, <2>5, SubSeqProperties
  <2> HIDE DEF u
  <2>7. Len(u) = Len(d)
    BY <2>4, <2>6 DEF n
  <2>8. ASSUME NEW i \in 1..Len(u)
        PROVE  u[i] = d[i]
    <3>1. i \in 1..n /\ i \in 1..(b - 5 + 1) /\ 5 + i - 1 = i + 4 /\ i + 4 \in 1..(4 + n)
      BY <1>1, <2>4, <2>6
    <3>2. u[i] = F[i + 4] /\ F[i + 4] = H[i + 4] /\ H[i + 4] = d[i]
      BY <1>2, <1>4, <2>6, <3>1
    <3>. QED
      BY <3>2
  <2>9. u = d
    BY <2>6, <2>7, <2>8, SeqEqual
  <2>. QED
    BY <1>6, <2>1, <2>9
<1>9. PICK p : Hunks(F) = p[1] /\ HunkChain(F, p)
  BY <1>3, HunksExist
<1>10. PICK h : Hunks(t) = h[1] /\ HunkChain(t, h)
  BY HunksExist
<1>11. p[Len(H) + 1] = h[1]
  BY <1>2, <1>9, <1>10, ReadOn DEF F
<1>12. p[1] = <<HunkAt(F, 1)>> \o p[After(F, 1)]
  <2>1. 1 \in 1..(Len(F) + 1)
    BY <1>1, <1>3
  <2>. QED
    BY <1>7, <1>9, <2>1 DEF HunkChain
<1>13. Hunks(F) = <<[org |-> o % (Radix * Radix), data |-> d]>> \o Hunks(t)
  BY <1>7, <1>8, <1>9, <1>10, <1>11, <1>12
<1>. QED
  BY <1>13 DEF F, H

(* G is hunks and nothing else: whatever follows is read as hunks too.     *)
Reads(G, hs) == \A t \in Seq(Byte) : Hunks(G \o t) = hs \o Hunks(t)

LEMMA HunksType ==
  ASSUME NEW f \in Seq(Byte)
  PROVE  Hunks(f) \in Seq(HunkSet)
<1>1. PICK h : Hunks(f) = h[1] /\ \A i \in 1..(Len(f) + 1) : h[i] \in Seq(HunkSet)
  BY HunksExist
<1>2. 1 \in 1..(Len(f) + 1)
  BY LenProperties
<1>. QED
  BY <1>1, <1>2

LEMMA NoHunks == Hunks(<<>>) = <<>> /\ Reads(<<>>, <<>>)
<1>1. <<>> \in Seq(Byte) /\ Len(<<>>) = 0
  BY EmptySeq
<1>2. Hunks(<<>>) = <<>>
  <2>1. PICK h : Hunks(<<>>) = h[1] /\ HunkChain(<<>>, h)
    BY <1>1, HunksExist
  <2>2. 1 \in 1..(Len(<<>>) + 1) /\ ~(1 + 3 <= Len(<<>>))
    BY <1>1
  <2>3. ~Complete(<<>>, 1)
    BY <2>2 DEF Complete
  <2>. QED
    BY <2>1, <2>2, <2>3 DEF HunkChain
<1>3. ASSUME NEW t \in Seq(Byte)
      PROVE  Hunks(<<>> \o t) = <<>> \o Hunks(t)
  <2>1. <<>> \o t = t
    BY ConcatEmptySeq
  <2>2. <<>> \o Hunks(t) = Hunks(t)
    BY HunksType, ConcatEmptySeq
  <2>. QED
    BY <2>1, <2>2
<1>. QED
  BY <1>2, <1>3 DEF Reads

LEMMA ReadsAll ==
  ASSUME NEW G \in Seq(Byte), NEW hs \in Seq(HunkSet), Reads(G, hs)
  PROVE  Hunks(G) = hs
<1>1. <<>> \in Seq(Byte)
  BY EmptySeq
<1>2. G \o <<>> = G /\ hs \o <<>> = hs
  BY ConcatEmptySeq
<1>. QED
  BY <1>1, <1>2, NoHunks DEF Reads

LEMMA ReadsHunk ==
  ASSUME NEW G \in Seq(Byte), NEW hs \in Seq(HunkSet), Reads(G, hs),
         NEW o \in Nat, NEW d \in Seq(Byte), Len(d) < Radix * Radix
  PROVE  /\ [org |-> o % (Radix * Radix), data |-> d] \in HunkSet
         /\ Reads(G \o HunkOf(o, Len(d), d), Append(hs, [org |-> o % (Radix * Radix), data |-> d]))
<1> DEFINE h == [org |-> o % (Radix * Radix), data |-> d]
           H == HunkOf(o, Len(d), d)
           w == o % (Radix * Radix)
<1>1. h \in HunkSet
  <2>1. Radix * Radix \in Nat \ {0}
    BY ToolAssumption
  <2>2. w \in Nat
    BY <2>1
  <2> HIDE DEF w
  <2>3. [org |-> w, data |-> d] \in HunkSet
    BY <2>2 DEF HunkSet
  <2>. QED
    BY <2>3 DEF w
<1>2. H \in Seq(Byte)
  <2>1. Len(d) \in Nat
    BY LenProperties
  <2>. QED
    BY <2>1, HunkOfFacts
<1>3. \A t \in Seq(Byte) : Hunks(H \o t) = <<h>> \o Hunks(t)
  BY ReadHunk
<1> HIDE DEF h, H
<1>4. ASSUME NEW t \in Seq(Byte)
      PROVE  Hunks((G \o H) \o t) = Append(hs, h) \o Hunks(t)
  <2>1. (G \o H) \o t = G \o (H \o t) /\ H \o t \in Seq(Byte)
    BY <1>2, BytesAssociative
  <2>2. Hunks(G \o (H \o t)) = hs \o Hunks(H \o t)
    BY <2>1 DEF Reads
  <2>3. <<h>> \in Seq(HunkSet) /\ Hunks(t) \in Seq(HunkSet)
    BY <1>1, HunksType
  <2>4. hs \o (<<h>> \o Hunks(t)) = (hs \o <<h>>) \o Hunks(t)
    BY <2>3, ConcatAssociative
  <2>5. Append(hs, h) = hs \o <<h>>
    BY <1>1, AppendIsConcat
  <2>. QED
    BY <1>3, <2>1, <2>2, <2>4, <2>5
<1>5. Reads(G \o H, Append(hs, h))
  BY <1>4 DEF Reads
<1>. QED
  BY <1>1, <1>5 DEF h, H

-----------------------------------------------------------------------------
(* Patching the length of a hunk, and adding to its data.                  *)
LEMMA OverwriteType ==
  ASSUME NEW f \in Seq(Byte), NEW at \in Nat, NEW d \in Seq(Byte)
  PROVE  Overwrite(f, at, d) \in Seq(Byte)
<1>1. Len(f) \in Nat /\ Len(d) \in Nat /\ (\A i \in 1..Len(f) : f[i] \in Byte)
      /\ (\A i \in 1..Len(d) : d[i] \in Byte) /\ 0 \in Byte
  BY ToolAssumption, LenProperties, ElementOfSeq DEF Byte
<1>2. CASE d = <<>>
  BY <1>2 DEF Overwrite
<1>3. CASE d # <<>>
  <2> DEFINE n == IF at + Len(d) > Len(f) THEN at + Len(d) ELSE Len(f)
             e(i) == IF i \in (at + 1)..(at + Len(d)) THEN d[i - at]
                     ELSE IF i <= Len(f) THEN f[i] ELSE 0
  <2>1. Overwrite(f, at, d) = [i \in 1..n |-> e(i)]
    BY <1>3 DEF Overwrite
  <2>2. n \in Nat
    BY <1>1
  <2>3. ASSUME NEW i \in 1..n
        PROVE  e(i) \in Byte
    <3>1. CASE i \in (at + 1)..(at + Len(d))
      <4>1. i - at \in 1..Len(d)
        BY <1>1, <3>1
      <4>. QED
        BY <1>1, <3>1, <4>1
    <3>2. CASE i \notin (at + 1)..(at + Len(d)) /\ i <= Len(f)
      <4>1. i \in 1..Len(f)
        BY <1>1, <2>2, <3>2
      <4>. QED
        BY <1>1, <3>2, <4>1
    <3>. QED
      BY <1>1, <3>1, <3>2
  <2> HIDE DEF n, e
  <2>4. [i \in 1..n |-> e(i)] \in [1..n -> Byte]
    BY <2>3
  <2>5. [i \in 1..n |-> e(i)] \in Seq(Byte)
    BY <2>2, <2>4, SeqDef
  <2>. QED
    BY <2>1, <2>5
<1>. QED
  BY <1>2, <1>3

LEMMA PatchedFile ==
  ASSUME NEW G \in Seq(Byte), NEW a \in Nat, NEW l \in Nat, NEW d \in Seq(Byte), NEW n \in Nat
  PROVE  Overwrite(G \o HunkOf(a, l, d), Len(G) + 2, Word(n)) = G \o HunkOf(a, n, d)
<1> DEFINE g == Len(G)
           H == HunkOf(a, l, d)
           K == HunkOf(a, n, d)
           w == Word(n)
           F == G \o H
           R == G \o K
           at == g + 2
           O == Overwrite(F, at, w)
<1>1. g \in Nat /\ Len(d) \in Nat
  BY LenProperties
<1>2. /\ H \in Seq(Byte) /\ Len(H) = 4 + Len(d) /\ H[1] = Word(a)[1] /\ H[2] = Word(a)[2]
      /\ \A i \in 1..Len(d) : H[i + 4] = d[i]
  BY HunkOfFacts
<1>3. /\ K \in Seq(Byte) /\ Len(K) = 4 + Len(d) /\ K[1] = Word(a)[1] /\ K[2] = Word(a)[2]
      /\ K[3] = Word(n)[1] /\ K[4] = Word(n)[2]
      /\ \A i \in 1..Len(d) : K[i + 4] = d[i]
  BY HunkOfFacts
<1>4. w \in Seq(Byte) /\ Len(w) = 2
  BY WordFacts
<1>0. w # <<>>
  BY DEF Word
<1> HIDE DEF H, K, w, g
<1>5. /\ F \in Seq(Byte) /\ Len(F) = g + Len(H)
      /\ \A i \in 1..(g + Len(H)) : F[i] = IF i <= g THEN G[i] ELSE H[i - g]
  <2>1. H \in Seq(Byte)
    BY <1>2
  <2>2. /\ F \in Seq(Byte) /\ Len(F) = Len(G) + Len(H)
        /\ \A i \in 1..(Len(G) + Len(H)) : F[i] = IF i <= Len(G) THEN G[i] ELSE H[i - Len(G)]
    BY <2>1, ConcatProperties
  <2>. QED
    BY <2>2 DEF g
<1>6. /\ R \in Seq(Byte) /\ Len(R) = g + Len(K)
      /\ \A i \in 1..(g + Len(K)) : R[i] = IF i <= g THEN G[i] ELSE K[i - g]
  <2>1. K \in Seq(Byte)
    BY <1>3
  <2>2. /\ R \in Seq(Byte) /\ Len(R) = Len(G) + Len(K)
        /\ \A i \in 1..(Len(G) + Len(K)) : R[i] = IF i <= Len(G) THEN G[i] ELSE K[i - Len(G)]
    BY <2>1, ConcatProperties
  <2>. QED
    BY <2>2 DEF g
<1> HIDE DEF F, R
<1>7. at \in Nat /\ at + Len(w) <= Len(F) /\ Len(F) = Len(R) /\ Len(F) = g + 4 + Len(d)
  BY <1>1, <1>2, <1>3, <1>4, <1>5, <1>6
<1> HIDE DEF at
<1>8. O \in Seq(Byte)
  BY <1>4, <1>5, <1>7, OverwriteType
<1>9. O = [i \in 1..Len(F) |-> IF i \in (at + 1)..(at + Len(w)) THEN w[i - at] ELSE F[i]]
  <2>2. Len(F) \in Nat /\ Len(w) \in Nat /\ ~(at + Len(w) > Len(F))
    BY <1>4, <1>5, <1>7, LenProperties
  <2>3. O = [i \in 1..Len(F) |-> IF i \in (at + 1)..(at + Len(w)) THEN w[i - at]
                                 ELSE IF i <= Len(F) THEN F[i] ELSE 0]
    BY <1>0, <2>2 DEF Overwrite
  <2> HIDE DEF O
  <2>. QED
    BY <2>2, <2>3
<1> HIDE DEF O
<1>10. Len(O) = Len(F)
  <2>1. Len(F) \in Nat
    BY <1>5, LenProperties
  <2>. QED
    BY <1>9, <2>1
<1>11. ASSUME NEW i \in 1..Len(O)
       PROVE  O[i] = R[i]
  <2>0. i \in 1..Len(F) /\ i \in 1..(g + Len(H)) /\ i \in 1..(g + Len(K)) /\ i \in Nat
    BY <1>5, <1>6, <1>7, <1>10
  <2>1. CASE i <= g
    <3>1. i \notin (at + 1)..(at + Len(w))
      BY <1>1, <1>4, <2>1 DEF at
    <3>. QED
      BY <1>5, <1>6, <1>9, <2>0, <2>1, <3>1
  <2>2. CASE i = g + 1
    <3>1. i \notin (at + 1)..(at + Len(w)) /\ ~(i <= g) /\ i - g = 1
      BY <1>1, <1>4, <2>2 DEF at
    <3>2. O[i] = F[i] /\ F[i] = H[i - g] /\ R[i] = K[i - g]
      BY <1>5, <1>6, <1>9, <2>0, <3>1
    <3>. QED
      BY <1>2, <1>3, <3>1, <3>2
  <2>3. CASE i = g + 2
    <3>1. i \notin (at + 1)..(at + Len(w)) /\ ~(i <= g) /\ i - g = 2
      BY <1>1, <1>4, <2>3 DEF at
    <3>2. O[i] = F[i] /\ F[i] = H[i - g] /\ R[i] = K[i - g]
      BY <1>5, <1>6, <1>9, <2>0, <3>1
    <3>. QED
      BY <1>2, <1>3, <3>1, <3>2
  <2>4. CASE i = g + 3
    <3>1. i \in (at + 1)..(at + Len(w)) /\ ~(i <= g) /\ i - g = 3 /\ i - at = 1
      BY <1>1, <1>4, <2>4 DEF at
    <3>2. O[i] = w[i - at] /\ R[i] = K[i - g]
      BY <1>6, <1>9, <2>0, <3>1
    <3>. QED
      BY <1>3, <3>1, <3>2 DEF w
  <2>5. CASE i = g + 4
    <3>1. i \in (at + 1)..(at + Len(w)) /\ ~(i <= g) /\ i - g = 4 /\ i - at = 2
      BY <1>1, <1>4, <2>5 DEF at
    <3>2. O[i] = w[i - at] /\ R[i] = K[i - g]
      BY <1>6, <1>9, <2>0, <3>1
    <3>. QED
      BY <1>3, <3>1, <3>2 DEF w
  <2>6. CASE i > g + 4
    <3> DEFINE k == i - g - 4
    <3>1. i \notin (at + 1)..(at + Len(w)) /\ ~(i <= g) /\ i - g = k + 4 /\ k \in 1..Len(d)
      BY <1>1, <1>4, <1>7, <2>0, <2>6 DEF at
    <3> HIDE DEF k
    <3>2. O[i] = F[i] /\ F[i] = H[k + 4] /\ R[i] = K[k + 4]
      BY <1>5, <1>6, <1>9, <2>0, <3>1
    <3>. QED
      BY <1>2, <1>3, <3>1, <3>2
  <2>. QED
    BY <1>1, <2>0, <2>1, <2>2, <2>3, <2>4, <2>5, <2>6
<1>12. O = R
  BY <1>6, <1>7, <1>8, <1>10, <1>11, SeqEqual
<1>. QED
  BY <1>12 DEF O, R, F, at, w, g, H, K

LEMMA LongerHunk ==
  ASSUME NEW G \in Seq(Byte), NEW a \in Nat, NEW d \in Seq(Byte), NEW e \in Seq(Byte)
  PROVE  (G \o HunkOf(a, 0, d)) \o e = G \o HunkOf(a, 0, d \o e)
<1> DEFINE none == 0
           p == Word(a) \o Word(none)
<1>1. p \in Seq(Byte)
  <2>1. none \in Nat
    OBVIOUS
  <2> HIDE DEF none
  <2>2. Word(a) \in Seq(Byte) /\ Word(none) \in Seq(Byte)
    BY <2>1, WordFacts
  <2>. QED
    BY <2>2, ConcatProperties
<1>2. HunkOf(a, none, d) = p \o d /\ HunkOf(a, none, d \o e) = p \o (d \o e)
  BY DEF HunkOf
<1> HIDE DEF none, p
<1>3. (p \o d) \o e = p \o (d \o e)
  <2>1. \A q \in Seq(Byte) : (q \o d) \o e = q \o (d \o e)
    BY BytesAssociative
  <2>. QED
    BY <1>1, <2>1
<1>4. (G \o (p \o d)) \o e = G \o ((p \o d) \o e)
  <2> DEFINE x == p \o d
  <2>1. x \in Seq(Byte)
    BY <1>1, ConcatProperties
  <2> HIDE DEF x
  <2>2. (G \o x) \o e = G \o (x \o e)
    BY <2>1, BytesAssociative
  <2>. QED
    BY <2>2 DEF x
<1>5. (G \o HunkOf(a, none, d)) \o e = G \o HunkOf(a, none, d \o e)
  BY <1>2, <1>3, <1>4
<1>. QED
  BY <1>5 DEF none

LEMMA EmptyHunk ==
  ASSUME NEW G \in Seq(Byte), NEW a \in Nat, NEW n \in Nat
  PROVE  (G \o Word(a)) \o Word(n) = G \o HunkOf(a, n, <<>>)
<1>1. Word(a) \in Seq(Byte) /\ Word(n) \in Seq(Byte)
  BY WordFacts
<1>2. (G \o Word(a)) \o Word(n) = G \o (Word(a) \o Word(n))
  BY <1>1, BytesAssociative
<1>3. (Word(a) \o Word(n)) \o <<>> = Word(a) \o Word(n)
  <2>1. Word(a) \o Word(n) \in Seq(Byte)
    BY <1>1, ConcatProperties
  <2>. QED
    BY <2>1, ConcatEmptySeq
<1>. QED
  BY <1>2, <1>3 DEF HunkOf

-----------------------------------------------------------------------------
(* The globals of generate, and what a call of it does to each of them.    *)
States ==
  [redo : Nat, cseg : Segments, segs : [Segments -> [org : Nat, unknown : BOOLEAN]],
   clear : BOOLEAN, org : Nat, orgFill : Byte, seglen : Nat, seekback : Nat, file : Seq(Byte)]
FormatKnown == format \in {"DEFAULT", "RAS", "RAW"}

(* What no call of generate touches, but the origin of the segment.        *)
Steady(s, t) ==
  /\ t.cseg = s.cseg /\ t.orgFill = s.orgFill
  /\ \A g \in Segments : t.segs[g].unknown = s.segs[g].unknown

LEMMA CurrentFacts ==
  ASSUME NEW s \in States
  PROVE  s.cseg \in Segments /\ Current(s).org \in Nat /\ Current(s).unknown \in BOOLEAN
BY DEF States, Current

LEMMA PatchFacts ==
  ASSUME NEW s \in States
  PROVE  /\ Patch(s) \in States
         /\ Patch(s).file = Overwrite(s.file, s.seekback, Word(s.seglen))
         /\ Patch(s).redo = s.redo /\ Patch(s).cseg = s.cseg /\ Patch(s).segs = s.segs
         /\ Patch(s).clear = s.clear /\ Patch(s).org = s.org /\ Patch(s).orgFill = s.orgFill
         /\ Patch(s).seglen = s.seglen /\ Patch(s).seekback = s.seekback
<1> DEFINE F == Overwrite(s.file, s.seekback, Word(s.seglen))
<1>1. s.file \in Seq(Byte) /\ s.seekback \in Nat /\ s.seglen \in Nat
  BY DEF States
<1>2. Word(s.seglen) \in Seq(Byte)
  BY <1>1, WordFacts
<1>3. F \in Seq(Byte)
  BY <1>1, <1>2, OverwriteType
<1>4. Patch(s) = [s EXCEPT !.file = F]
  BY DEF Patch
<1> HIDE DEF F
<1>5. [s EXCEPT !.file = F] \in States
  BY <1>3 DEF States
<1>6. /\ [s EXCEPT !.file = F].file = F
      /\ [s EXCEPT !.file = F].redo = s.redo /\ [s EXCEPT !.file = F].cseg = s.cseg
      /\ [s EXCEPT !.file = F].segs = s.segs /\ [s EXCEPT !.file = F].clear = s.clear
      /\ [s EXCEPT !.file = F].org = s.org /\ [s EXCEPT !.file = F].orgFill = s.orgFill
      /\ [s EXCEPT !.file = F].seglen = s.seglen /\ [s EXCEPT !.file = F].seekback = s.seekback
  BY DEF States
<1>. QED
  BY <1>4, <1>5, <1>6 DEF F

LEMMA NewHunkFacts ==
  ASSUME NEW s \in States, NEW a \in Nat
  PROVE  /\ NewHunk(s, a) \in States
         /\ NewHunk(s, a).file = s.file \o HunkOf(a, 0, <<>>)
         /\ NewHunk(s, a).seekback = Len(s.file) + 2 /\ NewHunk(s, a).seglen = 0
         /\ NewHunk(s, a).redo = s.redo /\ NewHunk(s, a).cseg = s.cseg /\ NewHunk(s, a).segs = s.segs
         /\ NewHunk(s, a).clear = s.clear /\ NewHunk(s, a).org = s.org
         /\ NewHunk(s, a).orgFill = s.orgFill
<1> DEFINE F == (s.file \o Word(a)) \o Word(0)
           K == Len(s.file) + 2
           t == [s EXCEPT !.file = F, !.seekback = K, !.seglen = 0]
<1>1. s.file \in Seq(Byte) /\ 0 \in Nat
  BY DEF States
<1>2. F = s.file \o HunkOf(a, 0, <<>>)
  BY <1>1, EmptyHunk
<1>3. F \in Seq(Byte)
  <2>1. Word(a) \in Seq(Byte) /\ Word(0) \in Seq(Byte)
    BY <1>1, WordFacts
  <2>2. s.file \o Word(a) \in Seq(Byte)
    BY <1>1, <2>1, ConcatProperties
  <2>. QED
    BY <2>1, <2>2, ConcatProperties
<1>4. K \in Nat
  BY <1>1, LenProperties
<1>5. NewHunk(s, a) = t
  BY DEF NewHunk
<1> HIDE DEF F, K
<1>6. t \in States
  BY <1>1, <1>3, <1>4 DEF States
<1>7. /\ t.file = F /\ t.seekback = K /\ t.seglen = 0
      /\ t.redo = s.redo /\ t.cseg = s.cseg /\ t.segs = s.segs /\ t.clear = s.clear
      /\ t.org = s.org /\ t.orgFill = s.orgFill
  BY DEF States
<1> HIDE DEF t
<1>. QED
  BY <1>2, <1>5, <1>6, <1>7 DEF K

LEMMA PutFacts ==
  ASSUME NEW s \in States, NEW d \in Seq(Byte)
  PROVE  /\ Put(s, d) \in States
         /\ Put(s, d).file = s.file \o d /\ Put(s, d).seglen = s.seglen + Len(d)
         /\ Put(s, d).org = Current(s).org + Len(d)
         /\ Put(s, d).seekback = s.seekback
         /\ Put(s, d).redo = s.redo /\ Put(s, d).cseg = s.cseg /\ Put(s, d).segs = s.segs
         /\ Put(s, d).clear = s.clear /\ Put(s, d).orgFill = s.orgFill
<1> DEFINE F == s.file \o d
           L == s.seglen + Len(d)
           o == Current(s).org + Len(d)
           t == [s EXCEPT !.file = F, !.seglen = L, !.org = o]
<1>1. s.file \in Seq(Byte) /\ s.seglen \in Nat /\ Len(d) \in Nat /\ Current(s).org \in Nat
  BY LenProperties, CurrentFacts DEF States
<1>2. F \in Seq(Byte)
  BY <1>1, ConcatProperties
<1>3. L \in Nat /\ o \in Nat
  BY <1>1
<1>4. Put(s, d) = t
  BY DEF Put
<1> HIDE DEF F, L, o
<1>5. t \in States
  BY <1>2, <1>3 DEF States
<1>6. /\ t.file = F /\ t.seglen = L /\ t.org = o /\ t.seekback = s.seekback
      /\ t.redo = s.redo /\ t.cseg = s.cseg /\ t.segs = s.segs /\ t.clear = s.clear
      /\ t.orgFill = s.orgFill
  BY DEF States
<1> HIDE DEF t
<1>. QED
  BY <1>4, <1>5, <1>6 DEF F, L, o

LEMMA AdvanceFacts ==
  ASSUME NEW s \in States, NEW n \in Nat
  PROVE  /\ Advance(s, n) \in States
         /\ Current(Advance(s, n)).org = Current(s).org + n
         /\ Steady(s, Advance(s, n))
         /\ Advance(s, n).file = s.file /\ Advance(s, n).seglen = s.seglen
         /\ Advance(s, n).org = s.org /\ Advance(s, n).seekback = s.seekback
         /\ Advance(s, n).redo = s.redo /\ Advance(s, n).clear = s.clear
<1> DEFINE c == s.cseg
           o == s.segs[c].org + n
           r == [s.segs[c] EXCEPT !.org = o]
           S == [s.segs EXCEPT ![c] = r]
           t == [s EXCEPT !.segs = S]
<1>1. c \in Segments /\ s.segs \in [Segments -> [org : Nat, unknown : BOOLEAN]]
  BY DEF States
<1>2. s.segs[c] \in [org : Nat, unknown : BOOLEAN]
  BY <1>1
<1>3. o \in Nat
  BY <1>2
<1>4. Advance(s, n) = t
  BY DEF Advance
<1>5. Current(s).org + n = o
  BY DEF Current
<1> HIDE DEF c, o
<1>6. r \in [org : Nat, unknown : BOOLEAN] /\ r.org = o /\ r.unknown = s.segs[c].unknown
  BY <1>2, <1>3
<1> HIDE DEF r
<1>7. S \in [Segments -> [org : Nat, unknown : BOOLEAN]] /\ S[c] = r
      /\ \A g \in Segments : S[g].unknown = s.segs[g].unknown
  BY <1>1, <1>6
<1> HIDE DEF S
<1>8. t \in States
  BY <1>7 DEF States
<1>9. /\ t.segs = S /\ t.cseg = c /\ t.orgFill = s.orgFill
      /\ t.file = s.file /\ t.seglen = s.seglen /\ t.org = s.org /\ t.seekback = s.seekback
      /\ t.redo = s.redo /\ t.clear = s.clear
  BY DEF States, c
<1> HIDE DEF t
<1>10. Current(t).org = o
  BY <1>6, <1>7, <1>9 DEF Current
<1>11. Steady(s, t)
  BY <1>7, <1>9 DEF Steady, c
<1>. QED
  BY <1>4, <1>5, <1>8, <1>9, <1>10, <1>11

LEMMA HeaderFacts ==
  ASSUME NEW s \in States, FormatKnown
  PROVE  /\ ~s.clear => Header(s) = s
         /\ Header(s) \in States /\ ~Header(s).clear
         /\ Header(s).redo = s.redo /\ Header(s).cseg = s.cseg /\ Header(s).segs = s.segs
         /\ Header(s).orgFill = s.orgFill
         /\ s.clear => Header(s).org = Current(s).org
         /\ s.clear /\ format = "RAS" =>
              /\ Header(s).file = s.file \o HunkOf(Current(s).org, 0, <<>>)
              /\ Header(s).seekback = Len(s.file) + 2 /\ Header(s).seglen = 0
         /\ s.clear /\ format = "DEFAULT" => Header(s).file = s.file \o Word(Current(s).org)
         /\ s.clear /\ format = "RAW" => Header(s).file = s.file
<1> DEFINE a == Current(s).org
           s1 == [s EXCEPT !.clear = FALSE, !.org = a]
           F == s.file \o Word(a)
           t == [s1 EXCEPT !.file = F]
<1>1. a \in Nat /\ s.file \in Seq(Byte) /\ s.clear \in BOOLEAN
  BY CurrentFacts DEF States
<1>2. F \in Seq(Byte)
  BY <1>1, WordFacts, ConcatProperties
<1>3. ~s.clear => Header(s) = s
  BY DEF Header
<1>4. ASSUME s.clear
      PROVE  /\ format = "DEFAULT" => Header(s) = t
             /\ format = "RAS" => Header(s) = NewHunk(s1, a)
             /\ format = "RAW" => Header(s) = s1
  BY <1>4 DEF Header
<1> HIDE DEF a, F
<1>5. /\ s1 \in States /\ ~s1.clear /\ s1.redo = s.redo /\ s1.cseg = s.cseg /\ s1.segs = s.segs
      /\ s1.orgFill = s.orgFill /\ s1.org = a /\ s1.file = s.file
      /\ s1.seekback = s.seekback /\ s1.seglen = s.seglen
  BY <1>1 DEF States
<1> HIDE DEF s1
<1>6. /\ t \in States /\ ~t.clear /\ t.redo = s1.redo /\ t.cseg = s1.cseg /\ t.segs = s1.segs
      /\ t.orgFill = s1.orgFill /\ t.org = s1.org /\ t.file = F
  BY <1>2, <1>5 DEF States
<1> HIDE DEF t
<1> DEFINE h == NewHunk(s1, a)
<1>7. /\ h \in States /\ h.file = s1.file \o HunkOf(a, 0, <<>>)
      /\ h.seekback = Len(s1.file) + 2 /\ h.seglen = 0
      /\ h.redo = s1.redo /\ h.cseg = s1.cseg /\ h.segs = s1.segs
      /\ h.clear = s1.clear /\ h.org = s1.org /\ h.orgFill = s1.orgFill
  BY <1>1, <1>5, NewHunkFacts
<1> HIDE DEF h
<1>8. CASE ~s.clear
  BY <1>3, <1>8
<1>9. CASE s.clear
  <2>1. CASE format = "DEFAULT"
    <3>1. Header(s) = t /\ "DEFAULT" # "RAS" /\ "DEFAULT" # "RAW"
      BY <1>4, <1>9, <2>1
    <3>. QED
      BY <1>5, <1>6, <1>9, <2>1, <3>1 DEF a, F
  <2>2. CASE format = "RAS"
    <3>1. Header(s) = h /\ "RAS" # "DEFAULT" /\ "RAS" # "RAW"
      BY <1>4, <1>9, <2>2 DEF h
    <3>. QED
      BY <1>5, <1>7, <1>9, <2>2, <3>1 DEF a
  <2>3. CASE format = "RAW"
    <3>1. Header(s) = s1 /\ "RAW" # "DEFAULT" /\ "RAW" # "RAS"
      BY <1>4, <1>9, <2>3
    <3>. QED
      BY <1>5, <1>9, <2>3, <3>1 DEF a
  <2>. QED
    BY <2>1, <2>2, <2>3 DEF FormatKnown
<1>. QED
  BY <1>8, <1>9

(* Bytes of padding.                                                       *)
LEMMA PadFacts ==
  ASSUME NEW n \in Int, NEW b \in Byte
  PROVE  /\ [i \in 1..n |-> b] \in Seq(Byte)
         /\ Len([i \in 1..n |-> b]) = IF n > 0 THEN n ELSE 0
<1> DEFINE p == [i \in 1..n |-> b]
           m == IF n > 0 THEN n ELSE 0
<1>1. m \in Nat /\ 1..n = 1..m
  OBVIOUS
<1> HIDE DEF m
<1>2. p \in [1..m -> Byte]
  BY <1>1
<1>3. p \in Seq(Byte)
  BY <1>1, <1>2, SeqDef
<1>4. Len(p) = m
  <2>1. Len(p) \in Nat /\ DOMAIN p = 1..Len(p) /\ DOMAIN p = 1..m
    BY <1>2, <1>3, LenProperties
  <2> DEFINE k == Len(p)
  <2>2. k \in Nat /\ 1..k = 1..m
    BY <2>1
  <2> HIDE DEF k
  <2>3. \A i \in 1..k : i \in 1..m
    BY <2>2
  <2>4. \A i \in 1..m : i \in 1..k
    BY <2>2
  <2>5. k = m
    BY <1>1, <2>2, <2>3, <2>4
  <2>. QED
    BY <2>5 DEF k
<1>. QED
  BY <1>3, <1>4 DEF m

LEMMA GapFacts ==
  ASSUME NEW s \in States, ~s.clear
  PROVE  /\ Gap(s) \in States /\ ~Gap(s).clear
         /\ Gap(s).redo = s.redo /\ Gap(s).cseg = s.cseg /\ Gap(s).segs = s.segs
         /\ Gap(s).orgFill = s.orgFill
         /\ format = "RAS" /\ s.org = Current(s).org => Gap(s) = s
         /\ format = "RAS" /\ s.org # Current(s).org =>
              /\ Gap(s).file = Patch(s).file \o HunkOf(Current(s).org, 0, <<>>)
              /\ Gap(s).seekback = Len(Patch(s).file) + 2 /\ Gap(s).seglen = 0
         /\ format # "RAS" =>
              \E p \in Seq(Byte) : /\ Gap(s).file = s.file \o p
                                   /\ Current(s).org >= s.org => Len(p) = Current(s).org - s.org
<1> DEFINE a == Current(s).org
           h == NewHunk(Patch(s), a)
           p == [i \in 1..PadLength(s) |-> s.orgFill]
           F == s.file \o p
           t == [s EXCEPT !.file = F]
           ras == format = "RAS"
<1>1. a \in Nat /\ s.file \in Seq(Byte) /\ s.org \in Nat /\ s.orgFill \in Byte
  BY CurrentFacts DEF States
<1>2. PadLength(s) = a - s.org
  BY DEF PadLength
<1>3. p \in Seq(Byte) /\ (a >= s.org => Len(p) = a - s.org)
  <2> DEFINE n == a - s.org
  <2>1. n \in Int /\ (a >= s.org => (IF n > 0 THEN n ELSE 0) = n)
    BY <1>1
  <2>2. p = [i \in 1..n |-> s.orgFill]
    BY <1>2
  <2> HIDE DEF n, p
  <2>3. p \in Seq(Byte) /\ Len(p) = IF n > 0 THEN n ELSE 0
    BY <1>1, <2>1, <2>2, PadFacts
  <2>. QED
    BY <2>1, <2>3 DEF n
<1>4. Gap(s) = IF ras THEN IF s.org = a THEN s ELSE h ELSE t
  BY DEF Gap
<1>5. /\ Patch(s) \in States /\ Patch(s).redo = s.redo /\ Patch(s).cseg = s.cseg
      /\ Patch(s).segs = s.segs /\ Patch(s).clear = s.clear /\ Patch(s).orgFill = s.orgFill
  BY PatchFacts
<1>6. /\ h \in States /\ h.file = Patch(s).file \o HunkOf(a, 0, <<>>)
      /\ h.seekback = Len(Patch(s).file) + 2 /\ h.seglen = 0
      /\ h.redo = Patch(s).redo /\ h.cseg = Patch(s).cseg /\ h.segs = Patch(s).segs
      /\ h.clear = Patch(s).clear /\ h.orgFill = Patch(s).orgFill
  BY <1>1, <1>5, NewHunkFacts
<1> HIDE DEF p
<1>7. F \in Seq(Byte)
  BY <1>1, <1>3, ConcatProperties
<1> HIDE DEF F, h
<1>8. /\ t \in States /\ t.file = F /\ t.redo = s.redo /\ t.cseg = s.cseg /\ t.segs = s.segs
      /\ t.clear = s.clear /\ t.orgFill = s.orgFill
  BY <1>7 DEF States
<1> HIDE DEF t
<1>9. CASE ras /\ s.org = a
  <2>1. Gap(s) = s
    BY <1>4, <1>9
  <2>. QED
    BY <1>9, <2>1
<1>10. CASE ras /\ s.org # a
  <2>1. Gap(s) = h
    BY <1>4, <1>10
  <2>. QED
    BY <1>5, <1>6, <1>10, <2>1
<1>11. CASE ~ras
  <2>1. Gap(s) = t
    BY <1>4, <1>11
  <2>2. Gap(s).file = s.file \o p /\ p \in Seq(Byte) /\ (Current(s).org >= s.org => Len(p) = Current(s).org - s.org)
    BY <1>3, <1>8, <2>1 DEF F
  <2>. QED
    BY <1>8, <1>11, <2>1, <2>2
<1>. QED
  BY <1>9, <1>10, <1>11

(* The three ways a call goes.                                             *)
LEMMA GenerateSkips ==
  ASSUME NEW s \in States, NEW d \in Seq(Byte), ~Emits(s)
  PROVE  /\ Generate(s, d) \in States
         /\ Current(Generate(s, d)).org = Current(s).org + Len(d)
         /\ Steady(s, Generate(s, d))
         /\ Generate(s, d).file = s.file /\ Generate(s, d).seglen = s.seglen
         /\ Generate(s, d).org = s.org /\ Generate(s, d).seekback = s.seekback
         /\ Generate(s, d).redo = s.redo /\ Generate(s, d).clear = s.clear
<1> DEFINE n == Len(d)
           t == Advance(s, n)
<1>1. Generate(s, d) = t
  BY DEF Generate
<1>2. n \in Nat
  BY LenProperties
<1> HIDE DEF n
<1>3. /\ t \in States /\ Current(t).org = Current(s).org + n /\ Steady(s, t)
      /\ t.file = s.file /\ t.seglen = s.seglen /\ t.org = s.org /\ t.seekback = s.seekback
      /\ t.redo = s.redo /\ t.clear = s.clear
  BY <1>2, AdvanceFacts
<1> HIDE DEF t
<1>. QED
  BY <1>1, <1>3 DEF n

LEMMA GenerateGivesUp ==
  ASSUME NEW s \in States, NEW d, Emits(s), Obscure(s)
  PROVE  /\ Generate(s, d) \in States
         /\ Generate(s, d).redo = s.redo + 1
<1> DEFINE r == s.redo + 1
           t == [s EXCEPT !.clear = FALSE, !.redo = r]
<1>1. Generate(s, d) = t
  BY DEF Generate
<1>2. r \in Nat
  BY DEF States
<1> HIDE DEF r
<1>3. t \in States /\ t.redo = r
  BY <1>2 DEF States
<1>. QED
  BY <1>1, <1>3 DEF r

LEMMA GeneratePuts ==
  ASSUME NEW s \in States, NEW d \in Seq(Byte), Emits(s), ~Obscure(s), FormatKnown
  PROVE  /\ Generate(s, d) \in States
         /\ Current(Generate(s, d)).org = Current(s).org + Len(d)
         /\ Steady(s, Generate(s, d))
         /\ Generate(s, d).file = Gap(Header(s)).file \o d
         /\ Generate(s, d).seglen = Gap(Header(s)).seglen + Len(d)
         /\ Generate(s, d).seekback = Gap(Header(s)).seekback
         /\ Generate(s, d).org = Current(s).org + Len(d)
         /\ Generate(s, d).redo = 0 /\ ~Generate(s, d).clear
<1> DEFINE h == Header(s)
           g == Gap(h)
           p == Put(g, d)
           t == Advance(p, Len(d))
<1>1. Generate(s, d) = t
  BY DEF Generate
<1>2. s.redo = 0 /\ Len(d) \in Nat
  BY LenProperties DEF Emits
<1>3. /\ h \in States /\ ~h.clear /\ h.redo = s.redo /\ h.cseg = s.cseg /\ h.segs = s.segs
      /\ h.orgFill = s.orgFill
  BY HeaderFacts
<1> HIDE DEF h
<1>4. /\ g \in States /\ ~g.clear /\ g.redo = h.redo /\ g.cseg = h.cseg /\ g.segs = h.segs
      /\ g.orgFill = h.orgFill
  BY <1>3, GapFacts
<1> HIDE DEF g
<1>5. /\ p \in States /\ p.file = g.file \o d /\ p.seglen = g.seglen + Len(d)
      /\ p.org = Current(g).org + Len(d) /\ p.seekback = g.seekback
      /\ p.redo = g.redo /\ p.cseg = g.cseg /\ p.segs = g.segs /\ p.clear = g.clear
      /\ p.orgFill = g.orgFill
  BY <1>4, PutFacts
<1> HIDE DEF p
<1>6. /\ t \in States /\ Current(t).org = Current(p).org + Len(d) /\ Steady(p, t)
      /\ t.file = p.file /\ t.seglen = p.seglen /\ t.org = p.org /\ t.seekback = p.seekback
      /\ t.redo = p.redo /\ t.clear = p.clear
  BY <1>2, <1>5, AdvanceFacts
<1> HIDE DEF t
<1>7. Current(p) = Current(s) /\ Current(g) = Current(s)
  BY <1>3, <1>4, <1>5 DEF Current
<1>8. Steady(s, t)
  BY <1>3, <1>4, <1>5, <1>6 DEF Steady
<1>. QED
  BY <1>1, <1>2, <1>3, <1>4, <1>5, <1>6, <1>7, <1>8 DEF g, h

-----------------------------------------------------------------------------
(* The file and the memory it is to hold, while a pass is good.            *)

(* Every address is one a header can name, with the end of the data.       *)
WordSized(m) == \A x \in DOMAIN m : x < Radix * Radix - 1

(* RAS: the hunks hs, and one whose length is still to be patched.         *)
RasOpen(s, m, G, hs, a, d) ==
  /\ G \in Seq(Byte) /\ hs \in Seq(HunkSet) /\ a \in Nat /\ d \in Seq(Byte)
  /\ s.file = G \o HunkOf(a, 0, d) /\ s.seekback = Len(G) + 2
  /\ s.seglen = Len(d) /\ s.org = a + Len(d)
  /\ WordSized(m) => /\ Reads(G, hs) /\ BytesOf(hs) = Len(G)
                     /\ m = Lay(FoldLeft(Load, <<>>, hs), a, d)

(* The other formats: the bytes from a to org, padding among them.         *)
Lead(a) == IF format = "DEFAULT" THEN Word(a) ELSE <<>>
Within(m, a, d) == \A x \in DOMAIN m : x \in a..(a + Len(d) - 1) /\ m[x] = d[x - a + 1]
Flat(s, m, a, d) == a \in Nat /\ d \in Seq(Byte) /\ s.org = a + Len(d) /\ Within(m, a, d)

FileOf(s, m) ==
  /\ m \in Memories
  /\ s.clear => s.file = <<>> /\ m = <<>>
  /\ ~s.clear /\ format = "RAS" => \E G, hs, a, d : RasOpen(s, m, G, hs, a, d)
  /\ ~s.clear /\ format # "RAS" => \E a, d : Flat(s, m, a, d) /\ s.file = Lead(a) \o d

LEMMA LoadType ==
  ASSUME NEW hs \in Seq(HunkSet)
  PROVE  FoldLeft(Load, <<>>, hs) \in Memories
<1> DEFINE n == Len(hs)
<1>1. n \in Nat /\ \A k \in 1..n : hs[k] \in HunkSet
  BY LenProperties, ElementOfSeq
<1>2. PICK f : /\ f[0] = <<>> /\ FoldLeft(Load, <<>>, hs) = f[n]
               /\ \A k \in 1..n : f[k] = Load(f[k - 1], hs[k])
  BY LoadSteps
<1> HIDE DEF n
<1> DEFINE T == {k \in Nat : f[k] \in Memories}
<1>3. 0 \in T
  BY <1>2, MemoryFacts
<1>4. ASSUME NEW k \in 0..(n - 1), k \in T
      PROVE  k + 1 \in T
  <2>1. k + 1 \in 1..n /\ k + 1 \in Nat /\ (k + 1) - 1 = k /\ f[k] \in Memories
    BY <1>1, <1>4
  <2>2. f[k + 1] = Lay(f[k], hs[k + 1].org, hs[k + 1].data)
    BY <1>2, <2>1 DEF Load
  <2>3. hs[k + 1].org \in Int /\ hs[k + 1].data \in Seq(Byte)
    BY <1>1, <2>1 DEF HunkSet
  <2>4. f[k + 1] \in Memories
    BY <2>1, <2>2, <2>3, LayFacts
  <2>. QED
    BY <2>1, <2>4
<1> HIDE DEF T
<1>5. n \in T
  <2>1. 0..n \subseteq T
    BY <1>1, <1>3, <1>4, Upto
  <2>. QED
    BY <1>1, <2>1
<1>. QED
  BY <1>2, <1>5 DEF T

(* What is within reach of a header stays so in part of the memory.        *)
LEMMA PartOfMemory ==
  ASSUME NEW m \in Memories, NEW a \in Nat, NEW e \in Seq(Byte), WordSized(Lay(m, a, e))
  PROVE  /\ WordSized(m)
         /\ e # <<>> => a < Radix * Radix /\ Len(e) < Radix * Radix
         /\ Len(e) < Radix * Radix
<1> DEFINE l == Lay(m, a, e)
           rr == Radix * Radix
<1>1. DOMAIN l = DOMAIN m \cup a..(a + Len(e) - 1)
  <2>1. a \in Int
    OBVIOUS
  <2>. QED
    BY <2>1, LayFacts
<1>2. Len(e) \in Nat /\ rr \in Nat \ {0}
  BY LenProperties, ToolAssumption
<1>3. \A x \in DOMAIN l : x < rr - 1
  BY DEF WordSized
<1> HIDE DEF l, rr
<1>4. WordSized(m)
  <2>1. \A x \in DOMAIN m : x < rr - 1
    BY <1>1, <1>3
  <2>. QED
    BY <2>1 DEF WordSized, rr
<1>5. ASSUME Len(e) > 0
      PROVE  a < rr /\ Len(e) < rr
  <2>1. a + Len(e) - 1 \in a..(a + Len(e) - 1)
    BY <1>2, <1>5
  <2>2. a + Len(e) - 1 < rr - 1
    BY <1>1, <1>3, <2>1
  <2>. QED
    BY <1>2, <1>5, <2>2
<1>6. e # <<>> => Len(e) > 0
  BY <1>2, EmptySeq
<1>7. Len(e) < rr
  <2>1. CASE Len(e) > 0
    BY <1>5, <2>1
  <2>2. CASE ~(Len(e) > 0)
    BY <1>2, <2>2
  <2>. QED
    BY <2>1, <2>2
<1>8. e # <<>> => a < rr
  BY <1>5, <1>6
<1>. QED
  BY <1>4, <1>7, <1>8 DEF rr

(* Once the length is patched the file is hunks, and they hold m.          *)
LEMMA RasPatched ==
  ASSUME NEW s \in States, NEW m \in Memories, NEW G, NEW hs, NEW a, NEW d,
         RasOpen(s, m, G, hs, a, d)
  PROVE  /\ Patch(s).file = G \o HunkOf(a, Len(d), d)
         /\ WordSized(m) =>
              \E gs \in Seq(HunkSet) : /\ Reads(Patch(s).file, gs)
                                       /\ BytesOf(gs) = Len(Patch(s).file)
                                       /\ m = FoldLeft(Load, <<>>, gs)
<1>1. /\ G \in Seq(Byte) /\ hs \in Seq(HunkSet) /\ a \in Nat /\ d \in Seq(Byte) /\ Len(d) \in Nat
      /\ s.file = G \o HunkOf(a, 0, d) /\ s.seekback = Len(G) + 2 /\ s.seglen = Len(d)
  BY LenProperties DEF RasOpen
<1>2. Patch(s).file = G \o HunkOf(a, Len(d), d)
  <2> DEFINE none == 0
             n == Len(d)
  <2>1. none \in Nat /\ n \in Nat
    BY <1>1
  <2> HIDE DEF none, n
  <2>0. G \in Seq(Byte) /\ a \in Nat /\ d \in Seq(Byte)
    BY <1>1
  <2>2. Overwrite(G \o HunkOf(a, none, d), Len(G) + 2, Word(n)) = G \o HunkOf(a, n, d)
    <3>1. \A x \in Nat, y \in Nat :
            Overwrite(G \o HunkOf(a, x, d), Len(G) + 2, Word(y)) = G \o HunkOf(a, y, d)
      BY <2>0, PatchedFile
    <3>. QED
      BY <2>1, <3>1
  <2>3. Patch(s).file = Overwrite(s.file, s.seekback, Word(s.seglen))
    BY PatchFacts
  <2>. QED
    BY <1>1, <2>2, <2>3 DEF none, n
<1>3. ASSUME WordSized(m)
      PROVE  \E gs \in Seq(HunkSet) : /\ Reads(Patch(s).file, gs)
                                      /\ BytesOf(gs) = Len(Patch(s).file)
                                      /\ m = FoldLeft(Load, <<>>, gs)
  <2> DEFINE old == FoldLeft(Load, <<>>, hs)
             w == a % (Radix * Radix)
             h == [org |-> w, data |-> d]
             H == HunkOf(a, Len(d), d)
             gs == Append(hs, h)
  <2>1. Reads(G, hs) /\ BytesOf(hs) = Len(G) /\ m = Lay(old, a, d)
    BY <1>3 DEF RasOpen
  <2>2. old \in Memories
    BY <1>1, LoadType
  <2> HIDE DEF old
  <2>3. Len(d) < Radix * Radix /\ (d # <<>> => a < Radix * Radix)
    BY <1>1, <1>3, <2>1, <2>2, PartOfMemory
  <2>4. h \in HunkSet /\ Reads(G \o H, gs)
    BY <1>1, <2>1, <2>3, ReadsHunk
  <2>5. h.org = w /\ h.data = d
    OBVIOUS
  <2> HIDE DEF h, w
  <2>6. gs \in Seq(HunkSet)
    BY <1>1, <2>4, AppendProperties
  <2>7. BytesOf(gs) = Len(G) + 4 + Len(d)
    BY <1>1, <2>1, <2>4, <2>5, BytesAppend
  <2>8. Len(G \o H) = Len(G) + 4 + Len(d)
    <3>1. H \in Seq(Byte) /\ Len(H) = 4 + Len(d)
      BY <1>1, HunkOfFacts
    <3> HIDE DEF H
    <3>2. Len(G \o H) = Len(G) + Len(H)
      BY <1>1, <3>1, ConcatProperties
    <3>3. Len(G) \in Nat
      BY <1>1, LenProperties
    <3>. QED
      BY <1>1, <3>1, <3>2, <3>3
  <2>9. FoldLeft(Load, <<>>, gs) = Lay(old, w, d)
    BY <1>1, <2>4, <2>5, LoadAppend DEF Load, old
  <2>10. Lay(old, w, d) = Lay(old, a, d)
    <3>0. Radix * Radix \in Nat \ {0} /\ a \in Int
      BY <1>1, ToolAssumption
    <3>1. CASE d = <<>>
      <4>1. w \in Int
        BY <3>0 DEF w
      <4>. QED
        BY <2>2, <3>0, <3>1, <4>1, LayNothing
    <3>2. CASE d # <<>>
      <4>1. w = a
        <5> DEFINE rr == Radix * Radix
        <5>1. 0 <= a /\ a < rr /\ rr \in Nat \ {0} /\ a \in Int
          BY <1>1, <2>3, <3>0, <3>2
        <5> HIDE DEF rr
        <5>2. a % rr = a
          BY <5>1, SmallRemainder
        <5>. QED
          BY <5>2 DEF w, rr
      <4>. QED
        BY <4>1
    <3>. QED
      BY <3>1, <3>2
  <2>. QED
    BY <1>2, <2>1, <2>4, <2>6, <2>7, <2>8, <2>9, <2>10
<1>. QED
  BY <1>2, <1>3

(* A call of generate lays its data into the memory the file holds.        *)
LEMMA RasGenerate ==
  ASSUME NEW s \in States, NEW m, NEW e \in Seq(Byte), FormatKnown, format = "RAS",
         FileOf(s, m), Emits(s), ~Obscure(s)
  PROVE  \E G, hs, a, d : RasOpen(Generate(s, e), Lay(m, Current(s).org, e), G, hs, a, d)
<1> DEFINE b == Current(s).org
           l == Lay(m, b, e)
           h == Header(s)
           g == Gap(h)
           t == Generate(s, e)
<1>0. m \in Memories /\ b \in Nat /\ b \in Int /\ e \in Seq(Byte) /\ Len(e) \in Nat
  BY CurrentFacts, LenProperties DEF FileOf
<1>1. /\ t.file = g.file \o e /\ t.seglen = g.seglen + Len(e)
      /\ t.seekback = g.seekback /\ t.org = b + Len(e)
  BY GeneratePuts
<1>2. /\ ~s.clear => h = s
      /\ h \in States /\ ~h.clear /\ h.cseg = s.cseg /\ h.segs = s.segs
      /\ s.clear => /\ h.org = b /\ h.file = s.file \o HunkOf(b, 0, <<>>)
                    /\ h.seekback = Len(s.file) + 2 /\ h.seglen = 0
  BY HeaderFacts
<1> HIDE DEF h
<1>3. Current(h).org = b
  BY <1>2 DEF Current
<1>4. /\ h.org = b => g = h
      /\ h.org # b => /\ g.file = Patch(h).file \o HunkOf(b, 0, <<>>)
                      /\ g.seekback = Len(Patch(h).file) + 2 /\ g.seglen = 0
  <2> DEFINE c == Current(h).org
  <2>1. h \in States /\ ~h.clear
    BY <1>2
  <2>2. /\ h.org = c => g = h
        /\ h.org # c => /\ g.file = Patch(h).file \o HunkOf(c, 0, <<>>)
                        /\ g.seekback = Len(Patch(h).file) + 2 /\ g.seglen = 0
    BY <2>1, GapFacts
  <2>3. c = b
    BY <1>3
  <2> HIDE DEF b, c, g
  <2>. QED
    BY <2>2, <2>3
<1>5. ASSUME NEW x \in Nat, NEW F \in Seq(Byte), NEW d \in Seq(Byte)
      PROVE  (F \o HunkOf(x, 0, d)) \o e = F \o HunkOf(x, 0, d \o e)
  BY LongerHunk
<1>6. WordSized(l) => WordSized(m)
  BY <1>0, PartOfMemory
<1>7. <<>> \in Seq(Byte) /\ Len(<<>>) = 0 /\ <<>> \o e = e
  BY EmptySeq, ConcatEmptySeq
<1> HIDE DEF b, g, t
<1>8. CASE s.clear
  <2>1. s.file = <<>> /\ m = <<>>
    BY <1>8 DEF FileOf
  <2>2. g = h
    BY <1>2, <1>4, <1>8
  <2>3. t.file = <<>> \o HunkOf(b, 0, e)
    <3>1. t.file = (<<>> \o HunkOf(b, 0, <<>>)) \o e
      BY <1>1, <1>2, <1>8, <2>1, <2>2
    <3>. QED
      BY <1>0, <1>5, <1>7, <3>1
  <2>4. t.seekback = Len(<<>>) + 2 /\ t.seglen = Len(e)
    BY <1>0, <1>1, <1>2, <1>8, <2>1, <2>2
  <2>5. <<>> \in Seq(HunkSet) /\ Reads(<<>>, <<>>) /\ BytesOf(<<>>) = Len(<<>>)
        /\ FoldLeft(Load, <<>>, <<>>) = <<>>
    BY <1>7, NoHunks, FoldNothing, EmptySeq
  <2>6. l = Lay(FoldLeft(Load, <<>>, <<>>), b, e)
    BY <2>1, <2>5
  <2>7. RasOpen(t, l, <<>>, <<>>, b, e)
    BY <1>0, <1>1, <1>7, <2>3, <2>4, <2>5, <2>6 DEF RasOpen
  <2>. QED
    BY <2>7 DEF t, b
<1>9. CASE ~s.clear
  <2>1. PICK G, hs, a, d : RasOpen(s, m, G, hs, a, d)
    BY <1>9 DEF FileOf
  <2>2. /\ G \in Seq(Byte) /\ hs \in Seq(HunkSet) /\ a \in Nat /\ a \in Int /\ d \in Seq(Byte)
        /\ Len(d) \in Nat
        /\ s.file = G \o HunkOf(a, 0, d) /\ s.seekback = Len(G) + 2
        /\ s.seglen = Len(d) /\ s.org = a + Len(d)
    BY <2>1, LenProperties DEF RasOpen
  <2>3. WordSized(m) => /\ Reads(G, hs) /\ BytesOf(hs) = Len(G)
                        /\ m = Lay(FoldLeft(Load, <<>>, hs), a, d)
    BY <2>1 DEF RasOpen
  <2>4. h = s
    BY <1>2, <1>9
  <2>5. CASE s.org = b
    <3> DEFINE de == d \o e
    <3>1. de \in Seq(Byte) /\ Len(de) = Len(d) + Len(e)
      BY <2>2, ConcatProperties
    <3>2. t.file = G \o HunkOf(a, 0, de)
      <4>1. t.file = (G \o HunkOf(a, 0, d)) \o e
        BY <1>1, <1>4, <2>2, <2>4, <2>5
      <4>2. (G \o HunkOf(a, 0, d)) \o e = G \o HunkOf(a, 0, d \o e)
        BY <1>5, <2>2
      <4>. QED
        BY <4>1, <4>2
    <3>3. t.seekback = Len(G) + 2 /\ t.seglen = Len(d) + Len(e) /\ t.org = (a + Len(d)) + Len(e)
      BY <1>1, <1>4, <2>2, <2>4, <2>5
    <3>4. ASSUME WordSized(l)
          PROVE  Reads(G, hs) /\ BytesOf(hs) = Len(G) /\ l = Lay(FoldLeft(Load, <<>>, hs), a, de)
      <4>1. Reads(G, hs) /\ BytesOf(hs) = Len(G) /\ m = Lay(FoldLeft(Load, <<>>, hs), a, d)
        BY <1>6, <2>3, <3>4
      <4>2. FoldLeft(Load, <<>>, hs) \in Memories
        BY <2>2, LoadType
      <4> DEFINE old == FoldLeft(Load, <<>>, hs)
      <4> HIDE DEF old
      <4>3. Lay(Lay(old, a, d), a + Len(d), e) = Lay(old, a, d \o e)
        BY <2>2, <4>2, LayTwice DEF old
      <4>. QED
        BY <2>2, <2>5, <4>1, <4>3 DEF old
    <3> HIDE DEF de, l
    <3>5. t.seglen = Len(de) /\ t.org = a + Len(de)
      BY <1>0, <2>2, <3>1, <3>3
    <3>6. RasOpen(t, l, G, hs, a, de)
      BY <2>2, <3>1, <3>2, <3>3, <3>4, <3>5 DEF RasOpen
    <3>. QED
      BY <3>6 DEF t, b, l
  <2>6. CASE s.org # b
    <3> DEFINE N == Patch(s).file
    <3>1. N \in Seq(Byte)
      BY PatchFacts DEF States
    <3>2. WordSized(m) => \E gs \in Seq(HunkSet) :
             Reads(N, gs) /\ BytesOf(gs) = Len(N) /\ m = FoldLeft(Load, <<>>, gs)
      BY <1>0, <2>1, RasPatched
    <3>3. PICK gs \in Seq(HunkSet) : WordSized(m) =>
             Reads(N, gs) /\ BytesOf(gs) = Len(N) /\ m = FoldLeft(Load, <<>>, gs)
      BY <2>2, <3>2
    <3> HIDE DEF N
    <3>4. t.file = N \o HunkOf(b, 0, e)
      <4>1. t.file = (N \o HunkOf(b, 0, <<>>)) \o e
        BY <1>1, <1>4, <2>4, <2>6 DEF N
      <4>2. (N \o HunkOf(b, 0, <<>>)) \o e = N \o HunkOf(b, 0, <<>> \o e)
        BY <1>0, <1>5, <1>7, <3>1
      <4>. QED
        BY <1>7, <4>1, <4>2
    <3>5. t.seekback = Len(N) + 2 /\ t.seglen = Len(e) /\ t.org = b + Len(e)
      BY <1>0, <1>1, <1>4, <2>4, <2>6 DEF N
    <3>6. WordSized(l) => /\ Reads(N, gs) /\ BytesOf(gs) = Len(N)
                          /\ l = Lay(FoldLeft(Load, <<>>, gs), b, e)
      BY <1>6, <3>3
    <3> HIDE DEF l
    <3>7. RasOpen(t, l, N, gs, b, e)
      BY <1>0, <3>1, <3>4, <3>5, <3>6 DEF RasOpen
    <3>. QED
      BY <3>7 DEF t, b, l
  <2>. QED
    BY <2>5, <2>6
<1>. QED
  BY <1>8, <1>9

LEMMA LeadFacts ==
  ASSUME NEW a \in Nat
  PROVE  Lead(a) \in Seq(Byte)
BY WordFacts, EmptySeq DEF Lead

LEMMA FlatGrows ==
  ASSUME NEW m \in Memories, NEW a \in Nat, NEW d \in Seq(Byte), NEW p \in Seq(Byte),
         NEW e \in Seq(Byte), NEW b, b = a + Len(d) + Len(p), Within(m, a, d)
  PROVE  Within(Lay(m, b, e), a, (d \o p) \o e)
<1> DEFINE l == Lay(m, b, e)
           q == d \o p
           n == q \o e
<1>1. Len(d) \in Nat /\ Len(p) \in Nat /\ Len(e) \in Nat
  BY LenProperties
<1>2. b \in Int
  BY <1>1
<1>3. /\ q \in Seq(Byte) /\ Len(q) = Len(d) + Len(p)
      /\ \A i \in 1..(Len(d) + Len(p)) : q[i] = IF i <= Len(d) THEN d[i] ELSE p[i - Len(d)]
  BY ConcatProperties
<1> HIDE DEF q
<1>4. /\ n \in Seq(Byte) /\ Len(n) = Len(q) + Len(e)
      /\ \A i \in 1..(Len(q) + Len(e)) : n[i] = IF i <= Len(q) THEN q[i] ELSE e[i - Len(q)]
  <2>1. q \in Seq(Byte)
    BY <1>3
  <2>. QED
    BY <2>1, ConcatProperties
<1>5. /\ DOMAIN l = DOMAIN m \cup b..(b + Len(e) - 1)
      /\ \A x \in b..(b + Len(e) - 1) : l[x] = e[x - b + 1]
      /\ \A x \in DOMAIN m \ (b..(b + Len(e) - 1)) : l[x] = m[x]
  <2> DEFINE y == b
  <2>1. y \in Int
    BY <1>2
  <2> HIDE DEF y
  <2>2. /\ DOMAIN Lay(m, y, e) = DOMAIN m \cup y..(y + Len(e) - 1)
        /\ \A x \in y..(y + Len(e) - 1) : Lay(m, y, e)[x] = e[x - y + 1]
        /\ \A x \in DOMAIN m \ (y..(y + Len(e) - 1)) : Lay(m, y, e)[x] = m[x]
    BY <2>1, LayFacts
  <2>. QED
    BY <2>2 DEF y
<1> HIDE DEF n, l
<1>6. ASSUME NEW x \in DOMAIN l
      PROVE  x \in a..(a + Len(n) - 1) /\ l[x] = n[x - a + 1]
  <2> DEFINE i == x - a + 1
  <2>1. CASE x \in b..(b + Len(e) - 1)
    <3>4. Len(q) = Len(d) + Len(p) /\ Len(n) = Len(d) + Len(p) + Len(e)
      BY <1>1, <1>3, <1>4
    <3>5. x \in Int /\ b <= x /\ x <= b + Len(e) - 1
      BY <1>1, <1>2, <2>1
    <3>6. i = x - b + 1 + (Len(d) + Len(p))
      BY <1>1, <3>5
    <3>1. x \in a..(a + Len(n) - 1) /\ i \in 1..(Len(q) + Len(e)) /\ ~(i <= Len(q))
          /\ i - Len(q) = x - b + 1
      BY <1>1, <1>2, <3>4, <3>5, <3>6
    <3> HIDE DEF i
    <3>2. n[i] = e[i - Len(q)]
      BY <1>4, <3>1
    <3>. QED
      BY <1>5, <2>1, <3>1, <3>2 DEF i
  <2>2. CASE x \notin b..(b + Len(e) - 1)
    <3>1. x \in DOMAIN m
      BY <1>5, <2>2
    <3>2. x \in a..(a + Len(d) - 1) /\ l[x] = d[i]
      BY <1>5, <2>2, <3>1 DEF Within
    <3>5. /\ Len(d) \in Nat /\ Len(p) \in Nat /\ Len(e) \in Nat
          /\ Len(q) = Len(d) + Len(p) /\ Len(n) = (Len(d) + Len(p)) + Len(e)
      BY <1>1, <1>3, <1>4
    <3>6. x \in Int /\ a <= x /\ x <= a + Len(d) - 1
      BY <1>1, <3>2
    <3>7. i \in Int /\ 1 <= i /\ i <= Len(d)
      BY <1>1, <3>5, <3>6
    <3>8. x \in a..(a + Len(n) - 1)
      BY <1>1, <3>5, <3>6
    <3> HIDE DEF i
    <3>3. x \in a..(a + Len(n) - 1) /\ i \in 1..(Len(q) + Len(e)) /\ i <= Len(q)
          /\ i \in 1..(Len(d) + Len(p)) /\ i <= Len(d)
      BY <3>5, <3>7, <3>8
    <3> HIDE DEF i
    <3>4. n[i] = q[i] /\ q[i] = d[i]
      BY <1>3, <1>4, <3>3
    <3>. QED
      BY <3>2, <3>3, <3>4 DEF i
  <2>. QED
    BY <2>1, <2>2
<1>7. Within(l, a, n)
  BY <1>6 DEF Within
<1>. QED
  BY <1>7 DEF l, n, q

(* The file only grows, and org with it.                                   *)
Grown(s, t) == \E q \in Seq(Byte) : t.file = s.file \o q /\ t.org = s.org + Len(q)

LEMMA FlatGenerate ==
  ASSUME NEW s \in States, NEW m, NEW e \in Seq(Byte), FormatKnown, format # "RAS",
         FileOf(s, m), Emits(s), ~Obscure(s), ~Reversed(s)
  PROVE  /\ \E a, d : /\ Flat(Generate(s, e), Lay(m, Current(s).org, e), a, d)
                      /\ Generate(s, e).file = Lead(a) \o d
         /\ ~s.clear => Grown(s, Generate(s, e))
<1> DEFINE b == Current(s).org
           l == Lay(m, b, e)
           h == Header(s)
           g == Gap(h)
           t == Generate(s, e)
<1>0. m \in Memories /\ b \in Nat /\ Len(e) \in Nat /\ s.org \in Nat /\ s.clear \in BOOLEAN
      /\ s.file \in Seq(Byte)
  BY CurrentFacts, LenProperties DEF FileOf, States
<1>1. t.file = g.file \o e /\ t.org = b + Len(e)
  BY GeneratePuts
<1>2. /\ ~s.clear => h = s
      /\ h \in States /\ ~h.clear /\ h.cseg = s.cseg /\ h.segs = s.segs
      /\ s.clear => h.org = b /\ h.file = s.file \o Lead(b)
  <2>1. s.clear => h.file = s.file \o Lead(b)
    <3>1. CASE format = "DEFAULT"
      BY <3>1, HeaderFacts DEF Lead
    <3>2. CASE format # "DEFAULT"
      <4>1. format = "RAW"
        BY <3>2 DEF FormatKnown
      <4>2. s.file \o <<>> = s.file
        BY <1>0, ConcatEmptySeq
      <4>. QED
        BY <3>2, <4>1, <4>2, HeaderFacts DEF Lead
    <3>. QED
      BY <3>1, <3>2
  <2>. QED
    BY <2>1, HeaderFacts
<1> HIDE DEF h
<1>3. Current(h).org = b
  BY <1>2 DEF Current
<1>4. \E a, d : /\ a \in Nat /\ d \in Seq(Byte) /\ h.file = Lead(a) \o d /\ h.org = a + Len(d)
                /\ Within(m, a, d)
  <2>1. CASE s.clear
    <3>1. s.file = <<>> /\ m = <<>>
      BY <2>1 DEF FileOf
    <3>2. <<>> \o Lead(b) = Lead(b) /\ Lead(b) \o <<>> = Lead(b)
      BY <1>0, LeadFacts, ConcatEmptySeq
    <3>3. <<>> \in Seq(Byte) /\ Len(<<>>) = 0
      BY EmptySeq
    <3>4. h.file = Lead(b) \o <<>> /\ h.org = b + Len(<<>>)
      BY <1>0, <1>2, <2>1, <3>1, <3>2, <3>3
    <3>5. Within(m, b, <<>>)
      <4>1. DOMAIN m = {}
        BY <3>1, MemoryFacts
      <4>. QED
        BY <4>1 DEF Within
    <3>. QED
      BY <1>0, <3>3, <3>4, <3>5
  <2>2. CASE ~s.clear
    <3>1. PICK a, d : Flat(s, m, a, d) /\ s.file = Lead(a) \o d
      BY <2>2 DEF FileOf
    <3>. QED
      BY <1>2, <2>2, <3>1 DEF Flat
  <2>. QED
    BY <2>1, <2>2
<1>5. PICK a, d : /\ a \in Nat /\ d \in Seq(Byte) /\ h.file = Lead(a) \o d /\ h.org = a + Len(d)
                  /\ Within(m, a, d)
  BY <1>4
<1>6. b >= h.org
  <2>1. CASE s.clear
    BY <1>0, <1>2, <2>1
  <2>2. CASE ~s.clear
    <3>1. ~(b - s.org < 0)
      BY <2>2 DEF Reversed, PadLength
    <3>. QED
      BY <1>0, <1>2, <2>2, <3>1
  <2>. QED
    BY <2>1, <2>2
<1>7. PICK p \in Seq(Byte) : g.file = h.file \o p /\ (Current(h).org >= h.org => Len(p) = Current(h).org - h.org)
  BY <1>2, GapFacts
<1> DEFINE n == (d \o p) \o e
<1>8. Len(p) = b - h.org /\ Len(p) \in Nat /\ Len(d) \in Nat
  BY <1>3, <1>5, <1>6, <1>7, LenProperties
<1>9. b = a + Len(d) + Len(p)
  BY <1>0, <1>5, <1>8
<1> HIDE DEF b, g, t
<1>10. Within(l, a, n)
  BY <1>0, <1>5, <1>9, FlatGrows
<1>11. n \in Seq(Byte) /\ Len(n) = Len(d) + Len(p) + Len(e)
  <2>1. d \o p \in Seq(Byte) /\ Len(d \o p) = Len(d) + Len(p)
    BY <1>5, ConcatProperties
  <2>. QED
    BY <2>1, ConcatProperties
<1> HIDE DEF n
<1>12. t.org = a + Len(n)
  BY <1>0, <1>1, <1>5, <1>8, <1>9, <1>11
<1>13. t.file = Lead(a) \o n
  <2> DEFINE w == Lead(a)
  <2>1. w \in Seq(Byte)
    BY <1>5, LeadFacts
  <2>2. t.file = ((w \o d) \o p) \o e
    BY <1>1, <1>5, <1>7
  <2> HIDE DEF w
  <2>5. d \in Seq(Byte) /\ p \in Seq(Byte)
    BY <1>5, <1>7
  <2>6. (w \o d) \o p = w \o (d \o p)
    BY <2>1, <2>5, BytesAssociative
  <2>7. d \o p \in Seq(Byte)
    BY <2>5, ConcatProperties
  <2>3. (w \o d) \o p = w \o (d \o p) /\ d \o p \in Seq(Byte)
    BY <2>6, <2>7
  <2>4. (w \o (d \o p)) \o e = w \o ((d \o p) \o e)
    <3> DEFINE dp == d \o p
    <3>1. dp \in Seq(Byte)
      BY <2>3
    <3> HIDE DEF dp
    <3>2. (w \o dp) \o e = w \o (dp \o e)
      BY <2>1, <3>1, BytesAssociative
    <3>. QED
      BY <3>2 DEF dp
  <2>. QED
    BY <2>2, <2>3, <2>4 DEF w, n
<1>14. ~s.clear => Grown(s, t)
  <2> SUFFICES ASSUME ~s.clear PROVE Grown(s, t)
    OBVIOUS
  <2>1. t.file = (s.file \o p) \o e
    BY <1>1, <1>2, <1>7
  <2>2. (s.file \o p) \o e = s.file \o (p \o e) /\ p \o e \in Seq(Byte) /\ Len(p \o e) = Len(p) + Len(e)
    <3> DEFINE f == s.file
    <3>1. f \in Seq(Byte)
      BY <1>0
    <3> HIDE DEF f
    <3>2. (f \o p) \o e = f \o (p \o e)
      BY <3>1, BytesAssociative
    <3>3. p \o e \in Seq(Byte) /\ Len(p \o e) = Len(p) + Len(e)
      BY ConcatProperties
    <3>. QED
      BY <3>2, <3>3 DEF f
  <2>3. h = s
    BY <1>2
  <2>4. t.org = s.org + Len(p \o e)
    BY <1>0, <1>1, <1>8, <2>2, <2>3
  <2>. QED
    BY <2>1, <2>2, <2>4 DEF Grown
<1> HIDE DEF n, l
<1>15. Flat(t, l, a, n)
  BY <1>5, <1>10, <1>11, <1>12 DEF Flat
<1>. QED
  BY <1>13, <1>14, <1>15 DEF t, b, l

(* A call of generate lays its data into the memory the file holds; in the *)
(* formats without hunks the file only grows.                              *)
LEMMA GenerateType ==
  ASSUME NEW s \in States, NEW d \in Seq(Byte), FormatKnown
  PROVE  Generate(s, d) \in States
<1>1. CASE ~Emits(s)
  BY <1>1, GenerateSkips
<1>2. CASE Emits(s) /\ Obscure(s)
  BY <1>2, GenerateGivesUp
<1>3. CASE Emits(s) /\ ~Obscure(s)
  BY <1>3, GeneratePuts
<1>. QED
  BY <1>1, <1>2, <1>3

LEMMA GenerateFile ==
  ASSUME NEW s \in States, NEW m, NEW e \in Seq(Byte), FormatKnown,
         FileOf(s, m), Emits(s), ~Obscure(s), ~Reversed(s)
  PROVE  /\ FileOf(Generate(s, e), Lay(m, Current(s).org, e))
         /\ format # "RAS" /\ ~s.clear => Grown(s, Generate(s, e))
<1> DEFINE b == Current(s).org
           l == Lay(m, b, e)
           t == Generate(s, e)
<1>1. m \in Memories /\ b \in Int
  BY CurrentFacts DEF FileOf
<1>2. l \in Memories
  BY <1>1, LayFacts
<1>3. ~t.clear
  BY GeneratePuts
<1>4. CASE format = "RAS"
  <2>1. \E G, hs, a, d : RasOpen(t, l, G, hs, a, d)
    BY <1>4, RasGenerate
  <2> HIDE DEF t, l
  <2>2. FileOf(t, l)
    BY <1>2, <1>3, <1>4, <2>1 DEF FileOf
  <2>. QED
    BY <1>4, <2>2 DEF t, l
<1>5. CASE format # "RAS"
  <2>1. /\ \E a, d : Flat(t, l, a, d) /\ t.file = Lead(a) \o d
        /\ ~s.clear => Grown(s, t)
    BY <1>5, FlatGenerate
  <2> HIDE DEF t, l
  <2>2. FileOf(t, l)
    BY <1>2, <1>3, <1>5, <2>1 DEF FileOf
  <2>. QED
    BY <2>1, <2>2 DEF t, l
<1>. QED
  BY <1>4, <1>5

-----------------------------------------------------------------------------
(* The pieces one line hands to generate, and the calls for them.          *)
PieceCount(n) == (n + GenSize - 1) \div GenSize
Upper(n, k) == IF k * GenSize < n THEN k * GenSize ELSE n

LEMMA UpperFacts ==
  ASSUME NEW n \in Nat
  PROVE  /\ PieceCount(n) \in Nat /\ Upper(n, 0) = 0 /\ Upper(n, PieceCount(n)) = n
         /\ \A k \in 1..PieceCount(n) :
              /\ Upper(n, k - 1) = (k - 1) * GenSize /\ Upper(n, k - 1) \in 0..n
              /\ Upper(n, k) \in 0..n /\ Upper(n, k - 1) < Upper(n, k)
<1> DEFINE g == GenSize
           q == (n + g - 1) \div g
           t == (n + g - 1) % g
<1>1. g \in Nat \ {0}
  BY OutputAssumption
<1> HIDE DEF g
<1>2. q \in Int /\ t \in 0..(g - 1) /\ n + g - 1 = g * q + t
  BY <1>1
<1> HIDE DEF q, t
<1>3. q \in Nat
  <2>1. ASSUME q <= -1
        PROVE  FALSE
    <3>1. g * (-q) >= g
      BY <1>1, <1>2, <2>1
    <3>2. g * (-q) = -(g * q)
      BY <1>1, <1>2
    <3>. QED
      BY <1>1, <1>2, <3>1, <3>2
  <2>. QED
    BY <1>2, <2>1
<1>4. g * q >= n /\ g * q = q * g
  BY <1>1, <1>2
<1>5. ASSUME NEW k \in 1..q
      PROVE  (k - 1) * g < n /\ (k - 1) * g \in Nat /\ k * g = (k - 1) * g + g
  <2>1. g * (q - k) >= 0 /\ g * (q - k) = g * q - g * k
    BY <1>1, <1>3
  <2>2. (k - 1) * g = g * k - g
    BY <1>1, <1>3
  <2>3. g * k <= n + g - 1
    BY <1>1, <1>2, <1>3, <2>1
  <2>4. (k - 1) * g >= 0 /\ (k - 1) * g \in Int
    BY <1>1
  <2>5. k * g = g * k /\ g * k \in Int
    BY <1>1
  <2>. QED
    BY <1>1, <2>2, <2>3, <2>4, <2>5
<1>6. PieceCount(n) = q /\ \A k : Upper(n, k) = IF k * g < n THEN k * g ELSE n
  BY DEF PieceCount, Upper, q, g
<1>7. Upper(n, 0) = 0 /\ Upper(n, q) = n
  <2>1. 0 * g = 0 /\ q * g \in Int
    BY <1>1, <1>3
  <2>2. Upper(n, 0) = 0
    BY <1>6, <2>1
  <2>3. ~(q * g < n)
    BY <1>4, <2>1
  <2>. QED
    BY <1>6, <2>2, <2>3
<1>8. ASSUME NEW k \in 1..q
      PROVE  /\ Upper(n, k - 1) = (k - 1) * g /\ Upper(n, k - 1) \in 0..n
             /\ Upper(n, k) \in 0..n /\ Upper(n, k - 1) < Upper(n, k)
  <2> DEFINE x == (k - 1) * g
             y == k * g
  <2>1. x < n /\ x \in Nat /\ y = x + g
    BY <1>5
  <2>2. Upper(n, k - 1) = IF x < n THEN x ELSE n
    BY <1>6
  <2>3. Upper(n, k) = IF y < n THEN y ELSE n
    BY <1>6
  <2> HIDE DEF x, y
  <2>4. Upper(n, k - 1) = x
    BY <2>1, <2>2
  <2>. QED
    BY <1>1, <2>1, <2>3, <2>4 DEF x
<1>. QED
  BY <1>3, <1>6, <1>7, <1>8 DEF g

Taken(d, k) == SubSeq(d, 1, Upper(Len(d), k))

LEMMA PiecesFacts ==
  ASSUME NEW d \in Seq(Byte)
  PROVE  /\ Len(Pieces(d)) = PieceCount(Len(d)) /\ DOMAIN Pieces(d) = 1..PieceCount(Len(d))
         /\ Taken(d, 0) = <<>> /\ Taken(d, PieceCount(Len(d))) = d
         /\ \A k \in 1..PieceCount(Len(d)) :
              /\ Pieces(d)[k] \in Seq(Byte) /\ Taken(d, k - 1) \in Seq(Byte)
              /\ Taken(d, k) = Taken(d, k - 1) \o Pieces(d)[k]
              /\ Len(Taken(d, k - 1)) = Upper(Len(d), k - 1)
<1> DEFINE L == Len(d)
           n == PieceCount(L)
           p == Pieces(d)
<1>1. L \in Nat /\ \A i \in 1..L : d[i] \in Byte
  BY LenProperties, ElementOfSeq
<1>2. /\ n \in Nat /\ Upper(L, 0) = 0 /\ Upper(L, n) = L
      /\ \A k \in 1..n : /\ Upper(L, k - 1) = (k - 1) * GenSize /\ Upper(L, k - 1) \in 0..L
                         /\ Upper(L, k) \in 0..L /\ Upper(L, k - 1) < Upper(L, k)
  <2> HIDE DEF L
  <2>. QED
    BY <1>1, UpperFacts
<1>3. p = [k \in 1..n |-> SubSeq(d, (k - 1) * GenSize + 1, Upper(L, k))]
  BY DEF Pieces, PieceCount, Upper
<1> HIDE DEF n, p
<1>4. Len(p) = n /\ DOMAIN p = 1..n
  BY <1>2, <1>3
<1>5. Taken(d, 0) = <<>>
  <2>1. Taken(d, 0) = SubSeq(d, 1, 0)
    BY <1>2 DEF Taken
  <2>2. SubSeq(d, 1, 0) = <<>>
    BY SubSeqEmpty
  <2>. QED
    BY <2>1, <2>2
<1>6. Taken(d, n) = d
  BY <1>2, SubSeqFull DEF Taken
<1>7. ASSUME NEW k \in 1..n
      PROVE  /\ p[k] \in Seq(Byte) /\ Taken(d, k - 1) \in Seq(Byte)
             /\ Taken(d, k) = Taken(d, k - 1) \o p[k]
             /\ Len(Taken(d, k - 1)) = Upper(L, k - 1)
  <2> DEFINE u == Upper(L, k - 1)
             v == Upper(L, k)
  <2>1. u \in 0..L /\ v \in 0..L /\ u < v /\ (k - 1) * GenSize = u
    BY <1>2
  <2>2. p[k] = SubSeq(d, u + 1, v) /\ Taken(d, k - 1) = SubSeq(d, 1, u)
        /\ Taken(d, k) = SubSeq(d, 1, v)
    BY <1>3, <2>1 DEF Taken
  <2> HIDE DEF u, v
  <2>3. SubSeq(d, u + 1, v) \in Seq(Byte)
    <3>1. u + 1 \in Int /\ v \in Int /\ \A i \in (u + 1)..v : d[i] \in Byte
      BY <1>1, <2>1
    <3>. QED
      BY <3>1, SubSeqProperties
  <2>4. SubSeq(d, 1, u) \in Seq(Byte) /\ Len(SubSeq(d, 1, u)) = u
    <3>1. u \in Int /\ 1 \in Int /\ \A i \in 1..u : d[i] \in Byte
      BY <1>1, <2>1
    <3>2. /\ SubSeq(d, 1, u) \in Seq(Byte)
          /\ Len(SubSeq(d, 1, u)) = IF 1 <= u THEN u - 1 + 1 ELSE 0
      BY <3>1, SubSeqProperties
    <3>. QED
      BY <2>1, <3>2
  <2>5. SubSeq(d, 1, u) \o SubSeq(d, u + 1, v) = SubSeq(d, 1, v)
    <3> DEFINE one == 1
    <3>1. one \in 1..(Len(d) + 1) /\ u \in (one - 1)..Len(d) /\ v \in u..Len(d)
      BY <1>1, <2>1
    <3> HIDE DEF one
    <3>2. SubSeq(d, one, u) \o SubSeq(d, u + 1, v) = SubSeq(d, one, v)
      BY <3>1, ConcatAdjacentSubSeq
    <3>. QED
      BY <3>2 DEF one
  <2>. QED
    BY <2>2, <2>3, <2>4, <2>5 DEF u
<1>. QED
  BY <1>4, <1>5, <1>6, <1>7 DEF n, p

LEMMA GenerateSteps ==
  ASSUME NEW s \in States, NEW d \in Seq(Byte), FormatKnown
  PROVE  \E f : /\ f[0] = s /\ GenerateAll(s, d) = f[PieceCount(Len(d))]
                /\ \A k \in 1..PieceCount(Len(d)) : f[k] = Generate(f[k - 1], Pieces(d)[k])
<1> DEFINE p == Pieces(d)
           n == PieceCount(Len(d))
           D == 1..n
           G == [x \in States \X D |-> Generate(x[1], p[x[2]])]
           It(c) == c = [i \in SUBSET D |-> IF i = {} THEN s ELSE Generate(c[i \ {Max(i)}], p[Max(i)])]
           c == CHOOSE x : It(x)
           f == [k \in 0..n |-> c[1..k]]
<1>1. n \in Nat /\ DOMAIN p = D /\ \A k \in D : p[k] \in Seq(Byte)
  <2>1. Len(d) \in Nat
    BY LenProperties
  <2>. QED
    BY <2>1, UpperFacts, PiecesFacts
<1> HIDE DEF n, p
<1>2. FoldLeft(Generate, s, p) = c[D]
  BY <1>1 DEF FoldLeft, MapThenFoldSet
<1>3. \E x : It(x)
  <2>1. G \in [States \X D -> States]
    <3> SUFFICES ASSUME NEW x \in States \X D
                 PROVE  Generate(x[1], p[x[2]]) \in States
      OBVIOUS
    <3>1. x[1] \in States /\ p[x[2]] \in Seq(Byte)
      BY <1>1
    <3>. QED
      BY <3>1, GenerateType
  <2>3. \A x \in States, k \in D : G[<<x, k>>] = Generate(x, p[k])
    OBVIOUS
  <2> HIDE DEF G
  <2>4. PICK it \in [SUBSET D -> States] : Folding(n, s, G, it)
    BY <1>1, <2>1, FoldRecursion
  <2>5. ASSUME NEW i \in SUBSET D, i # {}
        PROVE  it[i] = Generate(it[i \ {Max(i)}], p[Max(i)])
    <3>1. Max(i) \in i
      BY <1>1, <2>5, MaxFacts
    <3>2. it[i \ {Max(i)}] \in States /\ Max(i) \in D
      BY <3>1
    <3>3. it[i] = G[<<it[i \ {Max(i)}], Max(i)>>]
      BY <2>4, <2>5 DEF Folding
    <3>. QED
      BY <2>3, <3>2, <3>3
  <2>6. it[{}] = s
    BY <2>4 DEF Folding
  <2>7. It(it)
    BY <2>5, <2>6
  <2>. QED
    BY <2>7
<1>4. It(c)
  BY <1>3, Zenon
<1> HIDE DEF c
<1>5. c[{}] = s
  BY <1>4
<1>6. ASSUME NEW k \in D
      PROVE  c[1..k] = Generate(c[1..(k - 1)], p[k])
  <2>1. k \in Nat \ {0} /\ 1..k \in SUBSET D
    BY <1>1
  <2>2. Max(1..k) = k /\ (1..k) \ {k} = 1..(k - 1) /\ 1..k # {}
    BY <2>1, FirstNumbers
  <2>. QED
    BY <1>4, <2>1, <2>2
<1>7. f[0] = s /\ f[n] = c[D]
  <2>1. 1..0 = {} /\ 0 \in 0..n /\ n \in 0..n
    BY <1>1
  <2>. QED
    BY <1>5, <2>1
<1>8. \A k \in D : f[k] = Generate(f[k - 1], p[k])
  <2>1. \A k \in D : k \in 0..n /\ k - 1 \in 0..n
    BY <1>1
  <2>. QED
    BY <1>6, <2>1
<1>9. GenerateAll(s, d) = FoldLeft(Generate, s, p)
  BY DEF GenerateAll, p
<1> HIDE DEF f
<1>. QED
  BY <1>2, <1>7, <1>8, <1>9 DEF n, p

(* A line's data, whole or in pieces, in the three ways a call goes.       *)
Done(s, t, m, e) ==
  /\ t \in States /\ t.redo = 0
  /\ FileOf(t, Lay(m, Current(s).org, e))
  /\ format # "RAS" /\ ~s.clear => Grown(s, t)

(* What no byte was written between.                                       *)
Quiet(s, t) ==
  /\ t \in States /\ t.redo = s.redo /\ t.clear = s.clear /\ t.file = s.file
  /\ t.org = s.org /\ t.seglen = s.seglen /\ t.seekback = s.seekback

LEMMA QuietFile ==
  ASSUME NEW s, NEW t, NEW m, FileOf(s, m), Quiet(s, t)
  PROVE  FileOf(t, m)
<1>1. /\ t.clear = s.clear /\ t.file = s.file /\ t.org = s.org /\ t.seglen = s.seglen
      /\ t.seekback = s.seekback
  BY DEF Quiet
<1>2. ASSUME NEW G, NEW hs, NEW a, NEW d, RasOpen(s, m, G, hs, a, d)
      PROVE  RasOpen(t, m, G, hs, a, d)
  BY <1>1, <1>2 DEF RasOpen
<1>3. ASSUME NEW a, NEW d, Flat(s, m, a, d)
      PROVE  Flat(t, m, a, d)
  BY <1>1, <1>3 DEF Flat
<1>4. /\ m \in Memories /\ (t.clear => t.file = <<>> /\ m = <<>>)
      /\ (~t.clear /\ format = "RAS" => \E G, hs, a, d : RasOpen(t, m, G, hs, a, d))
  BY <1>1, <1>2 DEF FileOf
<1>5. ~t.clear /\ format # "RAS" => \E a, d : Flat(t, m, a, d) /\ t.file = Lead(a) \o d
  BY <1>1, <1>3 DEF FileOf
<1>. QED
  BY <1>4, <1>5 DEF FileOf

LEMMA GrownTwice ==
  ASSUME NEW s \in States, NEW t \in States, NEW u
  PROVE  /\ Grown(s, s)
         /\ Grown(s, t) /\ Grown(t, u) => Grown(s, u)
<1> DEFINE f == s.file
<1>1. s.org \in Nat /\ f \in Seq(Byte)
  BY DEF States
<1>2. Grown(s, s)
  <2>1. <<>> \in Seq(Byte) /\ f \o <<>> = f /\ s.org + Len(<<>>) = s.org
    <3>1. f \o <<>> = f
      BY <1>1, ConcatEmptySeq
    <3>2. Len(<<>>) = 0 /\ <<>> \in Seq(Byte)
      BY EmptySeq
    <3>. QED
      BY <1>1, <3>1, <3>2
  <2>. QED
    BY <2>1 DEF Grown
<1>3. ASSUME Grown(s, t), Grown(t, u)
      PROVE  Grown(s, u)
  <2>1. PICK q \in Seq(Byte) : t.file = f \o q /\ t.org = s.org + Len(q)
    BY <1>3 DEF Grown
  <2>2. PICK r \in Seq(Byte) : u.file = t.file \o r /\ u.org = t.org + Len(r)
    BY <1>3 DEF Grown
  <2> HIDE DEF f
  <2>3. (f \o q) \o r = f \o (q \o r)
    BY <1>1, BytesAssociative
  <2>4. q \o r \in Seq(Byte) /\ Len(q \o r) = Len(q) + Len(r)
    BY ConcatProperties
  <2>5. Len(q) \in Nat /\ Len(r) \in Nat
    BY LenProperties
  <2>6. u.file = f \o (q \o r)
    BY <2>1, <2>2, <2>3
  <2>7. u.org = s.org + Len(q \o r)
    BY <1>1, <2>1, <2>2, <2>4, <2>5
  <2>. QED
    BY <2>4, <2>6, <2>7 DEF Grown, f
<1>. QED
  BY <1>2, <1>3

LEMMA SkipsAll ==
  ASSUME NEW s \in States, NEW d \in Seq(Byte), FormatKnown, ~Emits(s)
  PROVE  Quiet(s, GenerateAll(s, d))
<1> DEFINE n == PieceCount(Len(d))
<1>1. n \in Nat /\ \A k \in 1..n : Pieces(d)[k] \in Seq(Byte)
  <2>1. Len(d) \in Nat
    BY LenProperties
  <2>. QED
    BY <2>1, UpperFacts, PiecesFacts
<1>2. PICK f : /\ f[0] = s /\ GenerateAll(s, d) = f[n]
               /\ \A k \in 1..n : f[k] = Generate(f[k - 1], Pieces(d)[k])
  BY GenerateSteps
<1> HIDE DEF n
<1> DEFINE Step(t) == Quiet(s, t) /\ t.cseg = s.cseg
           T == {k \in Nat : Step(f[k])}
<1>3. 0 \in T
  BY <1>2 DEF Quiet
<1>4. ASSUME NEW k \in 0..(n - 1), k \in T
      PROVE  k + 1 \in T
  <2> DEFINE t == f[k]
             e == Pieces(d)[k + 1]
  <2>1. k + 1 \in 1..n /\ k + 1 \in Nat /\ (k + 1) - 1 = k
    BY <1>1, <1>4
  <2>2. f[k + 1] = Generate(t, e)
    BY <1>2, <2>1
  <2>3. t \in States /\ e \in Seq(Byte) /\ t.redo = s.redo /\ t.cseg = s.cseg /\ Quiet(s, t)
    BY <1>1, <1>4, <2>1 DEF Quiet
  <2>4. ~Emits(t)
    BY <2>3 DEF Emits
  <2> HIDE DEF t, e
  <2> DEFINE u == Generate(t, e)
  <2>5. /\ u \in States /\ u.redo = t.redo /\ u.clear = t.clear /\ u.file = t.file
        /\ u.org = t.org /\ u.seglen = t.seglen /\ u.seekback = t.seekback
        /\ Steady(t, u)
    BY <2>3, <2>4, GenerateSkips
  <2> HIDE DEF u
  <2>6. Step(u)
    BY <2>3, <2>5 DEF Quiet, Steady
  <2>. QED
    BY <2>1, <2>2, <2>6 DEF u
<1> HIDE DEF T
<1>5. 0..n \subseteq T
  BY <1>1, <1>3, <1>4, Upto
<1>6. n \in T
  BY <1>1, <1>5
<1>. QED
  BY <1>2, <1>6 DEF T

LEMMA GivesUpAll ==
  ASSUME NEW s \in States, NEW d \in Seq(Byte), FormatKnown, Emits(s), Obscure(s)
  PROVE  /\ GenerateAll(s, d) \in States
         /\ GenerateAll(s, d).redo = 0 => GenerateAll(s, d) = s /\ d = <<>>
<1> DEFINE n == PieceCount(Len(d))
<1>1. n \in Nat /\ \A k \in 1..n : Pieces(d)[k] \in Seq(Byte)
  <2>1. Len(d) \in Nat
    BY LenProperties
  <2>. QED
    BY <2>1, UpperFacts, PiecesFacts
<1>2. PICK f : /\ f[0] = s /\ GenerateAll(s, d) = f[n]
               /\ \A k \in 1..n : f[k] = Generate(f[k - 1], Pieces(d)[k])
  BY GenerateSteps
<1>3. n = 0 => d = <<>>
  <2>1. Taken(d, 0) = <<>> /\ Taken(d, n) = d
    BY PiecesFacts
  <2> HIDE DEF n
  <2>. QED
    BY <2>1
<1> HIDE DEF n
<1> DEFINE T == {k \in Nat : f[k] \in States /\ (f[k].redo = 0 => k = 0)}
<1>4. 0 \in T
  BY <1>2
<1>5. ASSUME NEW k \in 0..(n - 1), k \in T
      PROVE  k + 1 \in T
  <2> DEFINE t == f[k]
             e == Pieces(d)[k + 1]
             u == Generate(t, e)
  <2>1. k + 1 \in 1..n /\ k + 1 \in Nat /\ (k + 1) - 1 = k /\ k \in Nat
    BY <1>1, <1>5
  <2>2. f[k + 1] = u
    BY <1>2, <2>1
  <2>3. t \in States /\ e \in Seq(Byte) /\ (t.redo = 0 => k = 0)
    BY <1>1, <1>5, <2>1
  <2>4. u \in States /\ u.redo # 0
    <3>1. CASE k = 0
      <4>1. t = s
        BY <1>2, <3>1
      <4>2. Generate(s, e) \in States /\ Generate(s, e).redo = s.redo + 1
        BY GenerateGivesUp
      <4>3. s.redo \in Nat
        BY DEF States
      <4>. QED
        BY <4>1, <4>2, <4>3
    <3>2. CASE k # 0
      <4>1. ~Emits(t)
        BY <2>3, <3>2 DEF Emits
      <4> HIDE DEF t, e
      <4>2. u \in States /\ u.redo = t.redo
        BY <2>3, <4>1, GenerateSkips
      <4>. QED
        BY <2>3, <3>2, <4>2
    <3>. QED
      BY <3>1, <3>2
  <2> HIDE DEF u
  <2>. QED
    BY <2>1, <2>2, <2>4
<1> HIDE DEF T
<1>6. 0..n \subseteq T
  BY <1>1, <1>4, <1>5, Upto
<1>7. n \in T
  BY <1>1, <1>6
<1>8. f[n] \in States /\ (f[n].redo = 0 => n = 0)
  BY <1>7 DEF T
<1>. QED
  BY <1>2, <1>3, <1>8

LEMMA PutsAll ==
  ASSUME NEW s \in States, NEW d \in Seq(Byte), NEW m, FormatKnown,
         FileOf(s, m), Emits(s), ~Obscure(s), d # <<>> => ~Reversed(s)
  PROVE  Done(s, GenerateAll(s, d), m, d)
<1> DEFINE n == PieceCount(Len(d))
           a == Current(s).org
<1>1. n \in Nat /\ \A k \in 1..n : Pieces(d)[k] \in Seq(Byte)
  <2>1. Len(d) \in Nat
    BY LenProperties
  <2>. QED
    BY <2>1, UpperFacts, PiecesFacts
<1>2. PICK f : /\ f[0] = s /\ GenerateAll(s, d) = f[n]
               /\ \A k \in 1..n : f[k] = Generate(f[k - 1], Pieces(d)[k])
  BY GenerateSteps
<1>3. /\ Taken(d, 0) = <<>> /\ Taken(d, n) = d
      /\ \A k \in 1..n : /\ Taken(d, k - 1) \in Seq(Byte)
                         /\ Taken(d, k) = Taken(d, k - 1) \o Pieces(d)[k]
  BY PiecesFacts
<1>4. n # 0 => d # <<>>
  <2>1. ASSUME d = <<>>
        PROVE  n = 0
    <3>1. Len(d) = 0
      BY <2>1, EmptySeq
    <3> DEFINE none == 0
               c == PieceCount(none)
    <3>2. none \in Nat
      OBVIOUS
    <3> HIDE DEF none
    <3>3. c \in Nat /\ \A k \in 1..c : Upper(none, k - 1) \in 0..none /\ Upper(none, k) \in 0..none
                                       /\ Upper(none, k - 1) < Upper(none, k)
      BY <3>2, UpperFacts
    <3>4. \A k \in 1..c : FALSE
      BY <3>3 DEF none
    <3>5. n = c
      BY <3>1 DEF none
    <3> HIDE DEF c, n
    <3>. QED
      BY <3>3, <3>4, <3>5
  <2>. QED
    BY <2>1
<1>5. s.cseg \in Segments /\ a \in Nat /\ a \in Int /\ m \in Memories /\ s.redo = 0
  BY CurrentFacts DEF FileOf, Emits
<1> HIDE DEF n, a
<1> DEFINE Step(t, e, k) ==
             /\ t \in States /\ t.redo = 0 /\ t.cseg = s.cseg
             /\ e \in Seq(Byte) /\ FileOf(t, Lay(m, a, e)) /\ Current(t).org = a + Len(e)
             /\ k = 0 => t = s
             /\ k # 0 => ~t.clear /\ t.org = Current(t).org
             /\ format # "RAS" /\ ~s.clear => Grown(s, t)
           T == {k \in Nat : Step(f[k], Taken(d, k), k)}
<1>6. 0 \in T
  <2>1. <<>> \in Seq(Byte) /\ Len(<<>>) = 0 /\ Lay(m, a, <<>>) = m
    BY <1>5, LayNothing, EmptySeq
  <2>2. Grown(s, s)
    BY GrownTwice
  <2>3. Current(s).org = a + Len(<<>>)
    BY <1>5, <2>1 DEF a
  <2>4. Step(s, <<>>, 0)
    BY <1>5, <2>1, <2>2, <2>3
  <2>. QED
    BY <1>2, <1>3, <2>4
<1>7. ASSUME NEW k \in 0..(n - 1), k \in T
      PROVE  k + 1 \in T
  <2> DEFINE t == f[k]
             x == Taken(d, k)
             e == Pieces(d)[k + 1]
             u == Generate(t, e)
  <2>1. k + 1 \in 1..n /\ k + 1 \in Nat /\ (k + 1) - 1 = k /\ k \in Nat /\ k + 1 # 0 /\ n # 0
    BY <1>1, <1>7
  <2>2. f[k + 1] = u /\ Taken(d, k + 1) = x \o e
    BY <1>2, <1>3, <2>1
  <2>3. e \in Seq(Byte) /\ Step(t, x, k)
    BY <1>1, <1>7, <2>1
  <2>4. Emits(t)
    BY <2>3 DEF Emits
  <2>5. ~Obscure(t) /\ ~Reversed(t)
    <3>1. CASE k = 0
      <4>1. t = s
        BY <2>3, <3>1
      <4>. QED
        BY <1>4, <2>1, <4>1
    <3>2. CASE k # 0
      <4>1. ~t.clear /\ t.org = Current(t).org /\ Current(t).org \in Nat
        BY <2>3, <3>2, CurrentFacts
      <4>2. ~Obscure(t)
        BY <4>1 DEF Obscure
      <4>3. PadLength(t) = 0
        BY <4>1 DEF PadLength
      <4>4. ~Reversed(t)
        BY <4>3 DEF Reversed
      <4>. QED
        BY <4>2, <4>4
    <3>. QED
      BY <3>1, <3>2
  <2> HIDE DEF t, x, e
  <2> DEFINE l == Lay(m, a, x)
             xe == x \o e
  <2>6. xe \in Seq(Byte) /\ Len(xe) = Len(x) + Len(e) /\ Len(x) \in Nat /\ Len(e) \in Nat
    <3>1. x \in Seq(Byte)
      BY <2>3
    <3>2. xe \in Seq(Byte) /\ Len(xe) = Len(x) + Len(e)
      BY <2>3, <3>1, ConcatProperties
    <3>3. Len(x) \in Nat /\ Len(e) \in Nat
      BY <2>3, <3>1, LenProperties
    <3>. QED
      BY <3>2, <3>3
  <2>7. Lay(l, Current(t).org, e) = Lay(m, a, xe)
    <3>1. x \in Seq(Byte) /\ Current(t).org = a + Len(x)
      BY <2>3
    <3>2. Lay(Lay(m, a, x), a + Len(x), e) = Lay(m, a, x \o e)
      BY <1>5, <2>3, <3>1, LayTwice
    <3>. QED
      BY <3>1, <3>2
  <2>8. /\ FileOf(u, Lay(l, Current(t).org, e))
        /\ format # "RAS" /\ ~t.clear => Grown(t, u)
    <3>1. t \in States /\ FileOf(t, l)
      BY <2>3
    <3> HIDE DEF l
    <3>. QED
      BY <2>3, <2>4, <2>5, <3>1, GenerateFile
  <2>9. /\ u \in States /\ Current(u).org = Current(t).org + Len(e) /\ Steady(t, u)
        /\ u.org = Current(t).org + Len(e) /\ u.redo = 0 /\ ~u.clear
    <3>1. t \in States
      BY <2>3
    <3>. QED
      BY <2>3, <2>4, <2>5, <3>1, GeneratePuts
  <2>10. format # "RAS" /\ ~s.clear => Grown(s, u)
    <3> SUFFICES ASSUME format # "RAS", ~s.clear PROVE Grown(s, u)
      OBVIOUS
    <3>1. Grown(s, t) /\ t \in States
      BY <2>3
    <3>2. ~t.clear
      BY <2>3
    <3>3. Grown(t, u)
      BY <2>8, <3>2
    <3> HIDE DEF u
    <3>. QED
      BY <3>1, <3>3, GrownTwice
  <2>11. FileOf(u, Lay(m, a, xe))
    BY <2>7, <2>8
  <2> HIDE DEF u, l
  <2>12. u.cseg = s.cseg
    BY <2>3, <2>9 DEF Steady
  <2>13. Current(u).org = a + Len(xe) /\ u.org = Current(u).org
    <3>1. Current(t).org = a + Len(x)
      BY <2>3
    <3>. QED
      BY <1>5, <2>6, <2>9, <3>1
  <2> HIDE DEF xe
  <2>14. Step(u, xe, k + 1)
    BY <2>1, <2>6, <2>9, <2>10, <2>11, <2>12, <2>13
  <2> HIDE DEF Step
  <2>15. Step(f[k + 1], Taken(d, k + 1), k + 1)
    BY <2>2, <2>14 DEF xe
  <2>. QED
    BY <2>1, <2>15
<1> HIDE DEF T
<1>8. 0..n \subseteq T
  BY <1>1, <1>6, <1>7, Upto
<1>9. n \in T
  BY <1>1, <1>8
<1>10. Step(f[n], d, n)
  BY <1>3, <1>9 DEF T
<1> DEFINE t == GenerateAll(s, d)
<1>11. t = f[n]
  BY <1>2
<1> HIDE DEF t
<1>12. /\ t \in States /\ t.redo = 0 /\ FileOf(t, Lay(m, a, d))
       /\ (format # "RAS" /\ ~s.clear => Grown(s, t))
  BY <1>10, <1>11
<1>. QED
  BY <1>12 DEF Done, a, t

-----------------------------------------------------------------------------
(* What a line does to the globals s and the memory m of the pass: unless  *)
(* the pass is bad then, no byte is written, or data at the origin is.     *)
Moved(s, t, m, n) ==
  /\ t \in States /\ n \in Memories
  /\ t.redo = 0 =>
       /\ s.redo = 0
       /\ \/ Quiet(s, t) /\ n = m
          \/ \E d \in Seq(Byte) : Done(s, t, m, d) /\ n = Lay(m, Current(s).org, d)

LEMMA OriginFacts ==
  ASSUME NEW s \in States, NEW r \in [org : Nat, unknown : BOOLEAN], NEW f \in Byte
  PROVE  /\ Quiet(s, [s EXCEPT !.segs[s.cseg] = r])
         /\ Quiet(s, [s EXCEPT !.segs[s.cseg] = r, !.orgFill = f])
<1> DEFINE g == [s.segs EXCEPT ![s.cseg] = r]
<1>1. g \in [Segments -> [org : Nat, unknown : BOOLEAN]]
  BY DEF States
<1>2. /\ [s EXCEPT !.segs[s.cseg] = r] = [s EXCEPT !.segs = g]
      /\ [s EXCEPT !.segs[s.cseg] = r, !.orgFill = f] = [s EXCEPT !.segs = g, !.orgFill = f]
  BY DEF States
<1> HIDE DEF g
<1>3. [s EXCEPT !.segs = g] \in States /\ [s EXCEPT !.segs = g, !.orgFill = f] \in States
  BY <1>1 DEF States
<1>4. Quiet(s, [s EXCEPT !.segs = g]) /\ Quiet(s, [s EXCEPT !.segs = g, !.orgFill = f])
  BY <1>3 DEF Quiet, States
<1>. QED
  BY <1>2, <1>4

LEMMA NoDataMoves ==
  ASSUME st \in States, laid \in Memories, NEW t, Line(t, <<>>), Quiet(st, t)
  PROVE  Moved(st, st', laid, laid')
<1>1. laid' = laid
  <2>1. Current(st).org \in Int
    BY CurrentFacts
  <2>2. Lay(laid, Current(st).org, <<>>) = laid
    BY <2>1, LayNothing
  <2>. QED
    BY <2>2 DEF Line
<1>2. st' = t
  BY DEF Line
<1>3. t \in States /\ t.redo = st.redo
  BY DEF Quiet
<1>4. Moved(st, t, laid, laid)
  BY <1>3 DEF Moved
<1>. QED
  BY <1>1, <1>2, <1>4

(* Data, whole or in pieces.                                               *)
LEMMA DataMoves ==
  ASSUME st \in States, laid \in Memories, FormatKnown, st.redo = 0 => FileOf(st, laid),
         NEW d \in Seq(Byte), NEW t, Line(t, d),
         \/ t = Generate(st, d) /\ ~(Emits(st) /\ Reversed(st))
         \/ t = GenerateAll(st, d) /\ (d # <<>> => ~(Emits(st) /\ Reversed(st)))
  PROVE  Moved(st, st', laid, laid')
<1> DEFINE a == Current(st).org
<1>1. a \in Int /\ Lay(laid, a, d) \in Memories
  <2>1. a \in Int
    BY CurrentFacts
  <2> HIDE DEF a
  <2>. QED
    BY <2>1, LayFacts
<1>2. st' = t
  BY DEF Line
<1>3. laid' = IF Emits(st) /\ ~Obscure(st) THEN Lay(laid, a, d) ELSE laid
  BY DEF Line
<1> HIDE DEF a
<1>4. CASE ~Emits(st)
  <2>1. Quiet(st, t)
    <3>1. CASE t = Generate(st, d)
      <4>1. Quiet(st, Generate(st, d))
        BY <1>4, GenerateSkips DEF Quiet
      <4>. QED
        BY <3>1, <4>1
    <3>2. CASE t = GenerateAll(st, d)
      <4>1. Quiet(st, GenerateAll(st, d))
        BY <1>4, SkipsAll
      <4>. QED
        BY <3>2, <4>1
    <3>. QED
      BY <3>1, <3>2
  <2>2. t \in States /\ t.redo = st.redo
    BY <2>1 DEF Quiet
  <2>3. Moved(st, t, laid, laid)
    BY <2>1, <2>2 DEF Moved
  <2>. QED
    BY <1>2, <1>3, <1>4, <2>3
<1>5. CASE Emits(st) /\ Obscure(st)
  <2>1. t \in States /\ (t.redo = 0 => t = st)
    <3>1. CASE t = Generate(st, d)
      <4>1. Generate(st, d) \in States /\ Generate(st, d).redo = st.redo + 1
        BY <1>5, GenerateGivesUp
      <4>2. st.redo \in Nat
        BY DEF States
      <4>. QED
        BY <3>1, <4>1, <4>2
    <3>2. CASE t = GenerateAll(st, d)
      <4>1. /\ GenerateAll(st, d) \in States
            /\ GenerateAll(st, d).redo = 0 => GenerateAll(st, d) = st
        BY <1>5, GivesUpAll
      <4>. QED
        BY <3>2, <4>1
    <3>. QED
      BY <3>1, <3>2
  <2>2. t.redo = 0 => st.redo = 0 /\ Quiet(st, t)
    BY <2>1 DEF Quiet
  <2>3. Moved(st, t, laid, laid)
    BY <2>1, <2>2 DEF Moved
  <2>. QED
    BY <1>2, <1>3, <1>5, <2>3
<1>6. CASE Emits(st) /\ ~Obscure(st)
  <2>1. FileOf(st, laid) /\ st.redo = 0
    BY <1>6 DEF Emits
  <2>2. Done(st, t, laid, d)
    <3>1. CASE t = Generate(st, d) /\ ~(Emits(st) /\ Reversed(st))
      <4> DEFINE u == Generate(st, d)
      <4>1. /\ FileOf(u, Lay(laid, Current(st).org, d))
            /\ format # "RAS" /\ ~st.clear => Grown(st, u)
        BY <1>6, <2>1, <3>1, GenerateFile
      <4>2. u \in States /\ u.redo = 0
        BY <1>6, GeneratePuts
      <4> HIDE DEF u
      <4>3. Done(st, u, laid, d)
        BY <4>1, <4>2 DEF Done
      <4>. QED
        BY <3>1, <4>3 DEF u
    <3>2. CASE t = GenerateAll(st, d) /\ (d # <<>> => ~(Emits(st) /\ Reversed(st)))
      <4>1. d # <<>> => ~Reversed(st)
        BY <1>6, <3>2
      <4>2. Done(st, GenerateAll(st, d), laid, d)
        BY <1>6, <2>1, <4>1, PutsAll
      <4>. QED
        BY <3>2, <4>2
    <3>. QED
      BY <3>1, <3>2
  <2>3. t \in States
    BY <2>2 DEF Done
  <2>4. Moved(st, t, laid, Lay(laid, a, d))
    BY <1>1, <2>1, <2>2, <2>3 DEF Moved, a
  <2>. QED
    BY <1>2, <1>3, <1>6, <2>4
<1>. QED
  BY <1>4, <1>5, <1>6

(* Every line but those that end the pass.                                 *)
LEMMA LineMoves ==
  ASSUME st \in States, laid \in Memories, FormatKnown, st.redo = 0 => FileOf(st, laid),
         Org \/ OrgFill \/ OrgUnknown \/ Seg \/ Data \/ Fill \/ Incbin \/ Trouble
  PROVE  /\ Moved(st, st', laid, laid')
         /\ phase = "lines" /\ phase' = "lines" /\ format' = format /\ pass' = pass
         /\ lines > 0 /\ lines' = lines - 1
<1> DEFINE Rest == /\ phase = "lines" /\ phase' = "lines" /\ format' = format /\ pass' = pass
                   /\ lines > 0 /\ lines' = lines - 1
<1>0. Radix \in Nat \ {0, 1}
  BY ToolAssumption
<1>1. CASE Org
  <2>1. PICK a \in Origins :
          Line([st EXCEPT !.segs[st.cseg] = [org |-> a, unknown |-> FALSE]], <<>>)
    BY <1>1 DEF Org
  <2>2. [org |-> a, unknown |-> FALSE] \in [org : Nat, unknown : BOOLEAN] /\ 0 \in Byte
    BY <1>0, OutputAssumption DEF Byte
  <2>3. Quiet(st, [st EXCEPT !.segs[st.cseg] = [org |-> a, unknown |-> FALSE]])
    BY <2>2, OriginFacts
  <2>4. Moved(st, st', laid, laid')
    BY <2>1, <2>3, NoDataMoves
  <2>5. Rest
    BY <1>1, <2>1 DEF Org, Reading, Line
  <2>. QED
    BY <2>4, <2>5
<1>2. CASE OrgFill
  <2>1. PICK a \in Origins, f \in Fills :
          Line([st EXCEPT !.segs[st.cseg] = [org |-> a, unknown |-> FALSE],
                          !.orgFill = f % Radix], <<>>)
    BY <1>2 DEF OrgFill
  <2>2. [org |-> a, unknown |-> FALSE] \in [org : Nat, unknown : BOOLEAN] /\ f % Radix \in Byte
    BY <1>0, OutputAssumption DEF Byte
  <2>3. Quiet(st, [st EXCEPT !.segs[st.cseg] = [org |-> a, unknown |-> FALSE],
                             !.orgFill = f % Radix])
    BY <2>2, OriginFacts
  <2>4. Moved(st, st', laid, laid')
    BY <2>1, <2>3, NoDataMoves
  <2>5. Rest
    BY <1>2, <2>1 DEF OrgFill, Reading, Line
  <2>. QED
    BY <2>4, <2>5
<1>3. CASE OrgUnknown
  <2>1. Line([st EXCEPT !.segs[st.cseg] = [org |-> 0, unknown |-> TRUE]], <<>>)
    BY <1>3 DEF OrgUnknown
  <2>2. [org |-> 0, unknown |-> TRUE] \in [org : Nat, unknown : BOOLEAN] /\ 0 \in Byte
    BY <1>0 DEF Byte
  <2>3. Quiet(st, [st EXCEPT !.segs[st.cseg] = [org |-> 0, unknown |-> TRUE]])
    BY <2>2, OriginFacts
  <2>4. Moved(st, st', laid, laid')
    BY <2>1, <2>3, NoDataMoves
  <2>5. Rest
    BY <1>3, <2>1 DEF OrgUnknown, Reading, Line
  <2>. QED
    BY <2>4, <2>5
<1>4. CASE Seg
  <2>1. PICK g \in Segments : Line([st EXCEPT !.cseg = g], <<>>)
    BY <1>4 DEF Seg
  <2>2. [st EXCEPT !.cseg = g] \in States
    BY DEF States
  <2>3. Quiet(st, [st EXCEPT !.cseg = g])
    BY <2>2 DEF Quiet, States
  <2>4. Moved(st, st', laid, laid')
    BY <2>1, <2>3, NoDataMoves
  <2>5. Rest
    BY <1>4, <2>1 DEF Seg, Reading, Line
  <2>. QED
    BY <2>4, <2>5
<1>5. CASE Data
  <2>1. PICK d \in Strings : ~(Emits(st) /\ Reversed(st)) /\ Line(Generate(st, d), d)
    BY <1>5 DEF Data
  <2>2. d \in Seq(Byte)
    BY OutputAssumption DEF Byte
  <2>4. Moved(st, st', laid, laid')
    BY <2>1, <2>2, DataMoves
  <2>5. Rest
    BY <1>5, <2>1 DEF Data, Reading, Line
  <2>. QED
    BY <2>4, <2>5
<1>6. CASE Fill
  <2>1. PICK n \in Counts, f \in Fills :
          LET d == [i \in 1..n |-> f % Radix]
          IN  ~(Emits(st) /\ Reversed(st) /\ n > 0) /\ Line(GenerateAll(st, d), d)
    BY <1>6 DEF Fill
  <2> DEFINE d == [i \in 1..n |-> f % Radix]
  <2>2. ~(Emits(st) /\ Reversed(st) /\ n > 0) /\ Line(GenerateAll(st, d), d)
    BY <2>1
  <2>3. n \in Nat /\ f % Radix \in Byte
    BY <1>0, OutputAssumption DEF Byte
  <2>4. d \in Seq(Byte) /\ Len(d) = n
    BY <2>3
  <2>5. d # <<>> => n > 0
    BY <2>3, <2>4, EmptySeq
  <2> HIDE DEF d
  <2>6. Moved(st, st', laid, laid')
    BY <2>2, <2>4, <2>5, DataMoves
  <2>7. Rest
    BY <1>6, <2>2 DEF Fill, Reading, Line
  <2>. QED
    BY <2>6, <2>7
<1>7. CASE Incbin
  <2>1. PICK n \in Counts :
          LET d == [i \in 1..n |-> i % Radix]
              s == IF st.redo # 0 THEN Generate(st, d) ELSE GenerateAll(st, d)
          IN  ~(Emits(st) /\ Reversed(st) /\ n > 0) /\ Line(s, d)
    BY <1>7 DEF Incbin
  <2> DEFINE d == [i \in 1..n |-> i % Radix]
             s == IF st.redo # 0 THEN Generate(st, d) ELSE GenerateAll(st, d)
  <2>2. ~(Emits(st) /\ Reversed(st) /\ n > 0) /\ Line(s, d)
    BY <2>1
  <2>3. n \in Nat /\ \A i \in 1..n : i % Radix \in Byte
    BY <1>0, OutputAssumption DEF Byte
  <2>4. d \in Seq(Byte) /\ Len(d) = n
    BY <2>3
  <2>5. d # <<>> => n > 0
    BY <2>3, <2>4, EmptySeq
  <2> HIDE DEF d
  <2>6. \/ s = Generate(st, d) /\ ~(Emits(st) /\ Reversed(st))
        \/ s = GenerateAll(st, d) /\ (d # <<>> => ~(Emits(st) /\ Reversed(st)))
    <3>1. CASE st.redo # 0
      <4>1. s = Generate(st, d) /\ ~Emits(st)
        BY <3>1 DEF Emits
      <4> HIDE DEF s
      <4>. QED
        BY <4>1
    <3>2. CASE st.redo = 0
      <4>1. s = GenerateAll(st, d)
        BY <3>2
      <4> HIDE DEF s
      <4>. QED
        BY <2>2, <2>5, <4>1
    <3>. QED
      BY <3>1, <3>2
  <2>8. Line(s, d)
    BY <2>2
  <2> HIDE DEF s
  <2>9. Moved(st, st', laid, laid')
    BY <2>4, <2>6, <2>8, DataMoves
  <2>7. Rest
    BY <1>7, <2>8 DEF Incbin, Reading, Line
  <2>. QED
    BY <2>7, <2>9
<1>8. CASE Trouble
  <2> DEFINE r == st.redo + 1
             t == [st EXCEPT !.redo = r]
  <2>1. Line(t, <<>>)
    BY <1>8 DEF Trouble
  <2>2. r \in Nat /\ r # 0
    BY DEF States
  <2> HIDE DEF r
  <2>3. t \in States /\ t.redo # 0
    BY <2>2 DEF States
  <2>4. laid' \in Memories /\ st' = t
    <3>1. Current(st).org \in Int /\ <<>> \in Seq(Byte)
      BY CurrentFacts, EmptySeq
    <3>2. Lay(laid, Current(st).org, <<>>) \in Memories
      BY <3>1, LayFacts
    <3>. QED
      BY <2>1, <3>2 DEF Line
  <2> HIDE DEF t
  <2>5. Moved(st, st', laid, laid')
    BY <2>3, <2>4 DEF Moved
  <2>6. Rest
    BY <1>8, <2>1 DEF Trouble, Reading, Line
  <2>. QED
    BY <2>5, <2>6
<1>. QED
  BY <1>1, <1>2, <1>3, <1>4, <1>5, <1>6, <1>7, <1>8

-----------------------------------------------------------------------------
(* The inductive invariant: while a pass is good the file holds what its   *)
(* lines laid down, up to the length of the last hunk, which is patched    *)
(* when the pass ends.  Between passes there is nothing to hold.           *)
Closed(s, m) ==
  /\ s.redo = 0
  /\ format # "RAS" => FileOf(s, m)
  /\ format = "RAS" => \E r \in States : FileOf(r, m) /\ s = Patch(r)

OutInv ==
  /\ format \in Formats /\ phase \in {"open", "lines", "closed", "dead"}
  /\ lines \in 0..MaxLines /\ pass \in 1..MaxPasses
  /\ st \in States /\ laid \in Memories
  /\ phase = "open" => st.redo # 0 \/ (st.file = <<>> /\ st.clear)
  /\ phase = "lines" /\ st.redo = 0 => FileOf(st, laid)
  /\ phase = "closed" => Closed(st, laid)
  /\ phase = "dead" => format # "RAS" /\ st.redo = 0 /\ FileOf(st, laid)

LEMMA FormatIsKnown == ASSUME format \in Formats PROVE FormatKnown
BY OutputAssumption DEF FormatKnown

LEMMA StartsGood == Init => OutInv
<1> SUFFICES ASSUME Init PROVE OutInv
  OBVIOUS
<1> DEFINE segs0 == [g \in Segments |-> [org |-> 0, unknown |-> TRUE]]
<1>1. /\ format \in Formats /\ phase = "open" /\ lines = MaxLines /\ pass = 1 /\ laid = <<>>
      /\ st = [redo |-> 0, cseg |-> InitSeg, segs |-> segs0,
               clear |-> TRUE, org |-> 0, orgFill |-> DEFORGFILL,
               seglen |-> 0, seekback |-> 0, file |-> <<>>]
  BY DEF Init
<1>2. segs0 \in [Segments -> [org : Nat, unknown : BOOLEAN]]
  OBVIOUS
<1> HIDE DEF segs0
<1>3. DEFORGFILL \in Byte /\ InitSeg \in Segments /\ <<>> \in Seq(Byte)
  BY ToolAssumption, OutputAssumption, EmptySeq DEF DEFORGFILL, Byte
<1>4. st \in States
  BY <1>1, <1>2, <1>3 DEF States
<1>5. st.file = <<>> /\ st.clear
  BY <1>1
<1>6. laid \in Memories
  BY <1>1, MemoryFacts
<1>7. lines \in 0..MaxLines /\ pass \in 1..MaxPasses
  BY <1>1, OutputAssumption
<1>. QED
  BY <1>1, <1>4, <1>5, <1>6, <1>7 DEF OutInv

LEMMA StartPassKeeps == ASSUME OutInv, StartPass PROVE OutInv'
<1> DEFINE t == [st EXCEPT !.file = <<>>, !.clear = TRUE, !.redo = 0]
<1>1. /\ phase' = "lines" /\ st' = t /\ laid' = <<>>
      /\ format' = format /\ lines' = lines /\ pass' = pass
  BY DEF StartPass
<1>2. t \in States /\ t.file = <<>> /\ t.clear
  <2>1. <<>> \in Seq(Byte) /\ st \in States
    BY EmptySeq DEF OutInv
  <2>. QED
    BY <2>1 DEF States
<1> HIDE DEF t
<1>3. <<>> \in Memories
  BY MemoryFacts
<1>4. FileOf(st, laid)'
  BY <1>1, <1>2, <1>3 DEF FileOf
<1>5. st' \in States /\ laid' \in Memories
  BY <1>1, <1>2, <1>3
<1>. QED
  BY <1>1, <1>4, <1>5 DEF OutInv

(* What the file holds depends on the format, and the format never changes. *)
LEMMA FileStays ==
  ASSUME NEW s, NEW m, laid' = m, format' = format, FileOf(s, m)
  PROVE  FileOf(s, laid)'
<1>1. m \in Memories /\ (s.clear => s.file = <<>> /\ m = <<>>)
  BY DEF FileOf
<1>2. CASE ~s.clear /\ format = "RAS"
  <2>1. PICK G, hs, a, d : RasOpen(s, m, G, hs, a, d)
    BY <1>2 DEF FileOf
  <2>2. RasOpen(s, laid, G, hs, a, d)'
    BY <2>1 DEF RasOpen
  <2>3. (\E Gx, hx, ax, dx : RasOpen(s, laid, Gx, hx, ax, dx))'
    BY <2>2
  <2>. QED
    BY <1>1, <1>2, <2>3 DEF FileOf
<1>3. CASE ~s.clear /\ format # "RAS"
  <2>1. PICK a, d : Flat(s, m, a, d) /\ s.file = Lead(a) \o d
    BY <1>3 DEF FileOf
  <2>2. (Flat(s, laid, a, d) /\ s.file = Lead(a) \o d)'
    BY <2>1 DEF Flat, Lead
  <2>3. (\E ax, dx : Flat(s, laid, ax, dx) /\ s.file = Lead(ax) \o dx)'
    BY <2>2
  <2>. QED
    BY <1>1, <1>3, <2>3 DEF FileOf
<1>4. CASE s.clear
  BY <1>1, <1>4 DEF FileOf
<1>. QED
  BY <1>2, <1>3, <1>4

LEMMA StoredStays ==
  ASSUME NEW s, NEW m, st' = s, laid' = m, format' = format, FileOf(s, m)
  PROVE  FileOf(st, laid)'
<1>1. m \in Memories /\ (s.clear => s.file = <<>> /\ m = <<>>)
  BY DEF FileOf
<1>2. CASE ~s.clear /\ format = "RAS"
  <2>1. PICK G, hs, a, d : RasOpen(s, m, G, hs, a, d)
    BY <1>2 DEF FileOf
  <2>2. RasOpen(st, laid, G, hs, a, d)'
    BY <2>1 DEF RasOpen
  <2>3. (\E Gx, hx, ax, dx : RasOpen(st, laid, Gx, hx, ax, dx))'
    BY <2>2
  <2>. QED
    BY <1>1, <1>2, <2>3 DEF FileOf
<1>3. CASE ~s.clear /\ format # "RAS"
  <2>1. PICK a, d : Flat(s, m, a, d) /\ s.file = Lead(a) \o d
    BY <1>3 DEF FileOf
  <2>2. (Flat(st, laid, a, d) /\ st.file = Lead(a) \o d)'
    BY <2>1 DEF Flat, Lead
  <2>3. (\E ax, dx : Flat(st, laid, ax, dx) /\ st.file = Lead(ax) \o dx)'
    BY <2>2
  <2>. QED
    BY <1>1, <1>3, <2>3 DEF FileOf
<1>4. CASE s.clear
  BY <1>1, <1>4 DEF FileOf
<1>. QED
  BY <1>2, <1>3, <1>4

LEMMA ClosedStays ==
  ASSUME NEW s \in States, NEW m, st' = s, laid' = m, format' = format, Closed(s, m)
  PROVE  Closed(st, laid)'
<1>1. CASE format # "RAS"
  <2>1. FileOf(s, m) /\ s.redo = 0
    BY <1>1 DEF Closed
  <2>2. FileOf(st, laid)'
    BY <1>1, <2>1 DEF FileOf, Flat, Lead, RasOpen
  <2>. QED
    BY <1>1, <2>1, <2>2 DEF Closed
<1>2. CASE format = "RAS"
  <2>1. PICK r \in States : FileOf(r, m) /\ s = Patch(r)
    BY <1>2 DEF Closed
  <2>2. s.redo = 0
    BY DEF Closed
  <2>3. FileOf(r, laid)'
    BY <2>1, FileStays
  <2>4. \E x \in States : FileOf(x, laid)' /\ st' = Patch(x)
    BY <2>1, <2>3
  <2>5. States' = States
    BY DEF States
  <2>6. (\E x \in States : FileOf(x, laid) /\ st = Patch(x))'
    BY <2>4, <2>5
  <2>. QED
    BY <1>2, <2>2, <2>6 DEF Closed
<1>. QED
  BY <1>1, <1>2

LEMMA EndPassKeeps == ASSUME OutInv, EndPass PROVE OutInv'
<1>1. /\ phase = "lines" /\ format' = format /\ lines' = lines /\ laid' = laid
      /\ st \in States /\ laid \in Memories
  BY DEF EndPass, OutInv, Reading
<1>2. CASE st.redo = 0
  <2>1. phase' = "closed" /\ st' = Close(st) /\ pass' = pass
    BY <1>2 DEF EndPass
  <2>2. FileOf(st, laid)
    BY <1>1, <1>2 DEF OutInv
  <2>3. CASE format = "RAS"
    <3> DEFINE t == Patch(st)
    <3>1. st' = t
      BY <1>2, <2>1, <2>3 DEF Close
    <3>2. t \in States /\ t.redo = 0
      BY <1>1, <1>2, PatchFacts
    <3>3. Closed(t, laid)
      <4> HIDE DEF t
      <4>1. t = Patch(st)
        BY DEF t
      <4>. QED
        BY <1>1, <2>2, <2>3, <3>2, <4>1 DEF Closed
    <3> HIDE DEF t
    <3>4. Closed(st, laid)'
      <4>1. st' = t /\ laid' = laid /\ format' = format
        BY <1>1, <3>1
      <4>. QED
        BY <3>2, <3>3, <4>1, ClosedStays
    <3>5. st' \in States /\ laid' \in Memories
      BY <1>1, <3>1, <3>2
    <3>. QED
      BY <1>1, <2>1, <3>4, <3>5 DEF OutInv
  <2>4. CASE format # "RAS"
    <3>1. st' = st
      BY <2>1, <2>4 DEF Close
    <3>2. Closed(st, laid)'
      BY <1>1, <1>2, <2>2, <2>4, <3>1 DEF Closed, FileOf, Flat, Lead, RasOpen
    <3>. QED
      BY <1>1, <2>1, <3>1, <3>2 DEF OutInv
  <2>. QED
    BY <2>3, <2>4
<1>3. CASE st.redo # 0
  <2> DEFINE s2 == [g \in Segments |-> [st.segs[g] EXCEPT !.unknown = TRUE]]
  <2>1. phase' = "open" /\ pass < MaxPasses /\ pass' = pass + 1
        /\ st' = [st EXCEPT !.segs = s2]
    BY <1>3 DEF EndPass
  <2>2. s2 \in [Segments -> [org : Nat, unknown : BOOLEAN]]
    BY <1>1 DEF States
  <2> HIDE DEF s2
  <2>3. st' \in States /\ st'.redo # 0
    BY <1>1, <1>3, <2>1, <2>2 DEF States
  <2>4. pass' \in 1..MaxPasses
    <3>1. pass \in 1..MaxPasses /\ MaxPasses \in Nat
      BY OutputAssumption DEF OutInv
    <3>. QED
      BY <2>1, <3>1
  <2>. QED
    BY <1>1, <2>1, <2>3, <2>4 DEF OutInv
<1>. QED
  BY <1>2, <1>3

LEMMA MovedFile ==
  ASSUME NEW s, NEW t, NEW m, NEW n, Moved(s, t, m, n), t.redo = 0, s.redo = 0 => FileOf(s, m)
  PROVE  FileOf(t, n)
<1>1. CASE Quiet(s, t) /\ n = m
  BY <1>1, QuietFile DEF Moved
<1>2. CASE \E d \in Seq(Byte) : Done(s, t, m, d) /\ n = Lay(m, Current(s).org, d)
  <2>1. PICK d \in Seq(Byte) : Done(s, t, m, d) /\ n = Lay(m, Current(s).org, d)
    BY <1>2
  <2>. QED
    BY <2>1 DEF Done
<1>. QED
  BY <1>1, <1>2 DEF Moved

LEMMA LineKeeps ==
  ASSUME OutInv, Org \/ OrgFill \/ OrgUnknown \/ Seg \/ Data \/ Fill \/ Incbin \/ Trouble
  PROVE  OutInv'
<1>1. phase = "lines"
  BY DEF Org, OrgFill, OrgUnknown, Seg, Data, Fill, Incbin, Trouble, Reading
<1>2. st \in States /\ laid \in Memories /\ FormatKnown /\ (st.redo = 0 => FileOf(st, laid))
  BY <1>1, FormatIsKnown DEF OutInv
<1>3. /\ Moved(st, st', laid, laid')
      /\ phase = "lines" /\ phase' = "lines" /\ format' = format /\ pass' = pass
      /\ lines > 0 /\ lines' = lines - 1
  BY <1>2, LineMoves
<1>4. st' \in States /\ laid' \in Memories
  BY <1>3 DEF Moved
<1>5. ASSUME st'.redo = 0
      PROVE  FileOf(st, laid)'
  <2>1. FileOf(st', laid')
    BY <1>2, <1>3, <1>5, MovedFile
  <2>. QED
    BY <1>3, <2>1 DEF FileOf, Flat, Lead, RasOpen
<1>6. lines' \in 0..MaxLines
  <2>1. lines \in 0..MaxLines /\ MaxLines \in Nat
    BY OutputAssumption DEF OutInv
  <2>. QED
    BY <1>3, <2>1
<1>. QED
  BY <1>3, <1>4, <1>5, <1>6 DEF OutInv

LEMMA ReverseKeeps == ASSUME OutInv, ReverseIndexed PROVE OutInv'
<1>1. /\ phase = "lines" /\ phase' = "dead" /\ st' = st /\ laid' = laid
      /\ format' = format /\ lines' = lines /\ pass' = pass
      /\ st.redo = 0 /\ format # "RAS"
  BY DEF ReverseIndexed, Reading, Emits, Reversed
<1>2. FileOf(st, laid)
  BY <1>1 DEF OutInv
<1>3. FileOf(st, laid)'
  BY <1>1, <1>2 DEF FileOf, Flat, Lead, RasOpen
<1>. QED
  BY <1>1, <1>3 DEF OutInv

LEMMA StepKeeps == OutInv /\ [Next]_vars => OutInv'
<1> SUFFICES ASSUME OutInv, [Next]_vars PROVE OutInv'
  OBVIOUS
<1>1. CASE StartPass
  BY <1>1, StartPassKeeps
<1>2. CASE EndPass
  BY <1>2, EndPassKeeps
<1>3. CASE Org \/ OrgFill \/ OrgUnknown \/ Seg \/ Data \/ Fill \/ Incbin \/ Trouble
  BY <1>3, LineKeeps
<1>4. CASE ReverseIndexed
  BY <1>4, ReverseKeeps
<1>5. CASE UNCHANGED vars
  <2>1. /\ format' = format /\ phase' = phase /\ lines' = lines /\ pass' = pass
        /\ st' = st /\ laid' = laid /\ st \in States
    BY <1>5 DEF vars, OutInv
  <2>2. FileOf(st, laid) => FileOf(st, laid)'
    BY <2>1, StoredStays
  <2>3. Closed(st, laid) => Closed(st, laid)'
    BY <2>1, ClosedStays
  <2>. QED
    BY <2>1, <2>2, <2>3 DEF OutInv
<1>. QED
  BY <1>1, <1>2, <1>3, <1>4, <1>5 DEF Next

THEOREM OutputInductive == Spec => []OutInv
BY StartsGood, StepKeeps, PTL DEF Spec

(* The globals of generate keep their types; the file is bytes.            *)
THEOREM OutputTypes == Spec => []TypeOK
<1>1. OutInv => TypeOK
  BY DEF OutInv, TypeOK, States
<1>. QED
  BY <1>1, OutputInductive, PTL

-----------------------------------------------------------------------------
(* What the file holds, read back.                                         *)
LEMMA RasHolds ==
  ASSUME NEW s \in States, NEW m \in Memories, WordSized(m),
         \E G, hs, a, d : RasOpen(s, m, G, hs, a, d)
  PROVE  /\ FoldLeft(Load, <<>>, Hunks(Patch(s).file)) = m
         /\ BytesOf(Hunks(Patch(s).file)) = Len(Patch(s).file)
<1> DEFINE F == Patch(s).file
<1>1. PICK G, hs, a, d : RasOpen(s, m, G, hs, a, d)
  OBVIOUS
<1>2. \E gs \in Seq(HunkSet) : Reads(F, gs) /\ BytesOf(gs) = Len(F) /\ m = FoldLeft(Load, <<>>, gs)
  BY <1>1, RasPatched
<1>3. F \in Seq(Byte)
  <2>1. Patch(s) \in States
    BY PatchFacts
  <2>. QED
    BY <2>1 DEF States
<1> HIDE DEF F
<1>4. PICK gs \in Seq(HunkSet) :
        Reads(F, gs) /\ BytesOf(gs) = Len(F) /\ m = FoldLeft(Load, <<>>, gs)
  BY <1>2
<1>5. Hunks(F) = gs
  BY <1>3, <1>4, ReadsAll
<1>. QED
  BY <1>4, <1>5 DEF F

(* A pass that wrote nothing still patches a length: at the position the   *)
(* last pass left, so zeros come before it, and a reader finds no data.    *)
LEMMA HoleHoldsNothing ==
  ASSUME NEW at \in Nat, NEW w \in Seq(Byte), Len(w) = 2
  PROVE  FoldLeft(Load, <<>>, Hunks(Overwrite(<<>>, at, w))) = <<>>
<1> DEFINE F == Overwrite(<<>>, at, w)
<1>1. F \in Seq(Byte) /\ Len(F) = at + 2 /\ \A i \in 1..at : F[i] = 0
  <2>1. <<>> \in Seq(Byte) /\ Len(<<>>) = 0 /\ w # <<>>
    BY EmptySeq
  <2>2. F \in Seq(Byte)
    BY <2>1, OverwriteType
  <2>3. F = [i \in 1..(at + 2) |->
               IF i \in (at + 1)..(at + 2) THEN w[i - at] ELSE IF i <= 0 THEN <<>>[i] ELSE 0]
    <3>1. at + 2 > 0
      OBVIOUS
    <3>. QED
      BY <2>1, <3>1 DEF Overwrite
  <2> HIDE DEF F
  <2>4. Len(F) = at + 2 /\ \A i \in 1..at : F[i] = 0
    BY <2>2, <2>3
  <2>. QED
    BY <2>2, <2>4
<1> HIDE DEF F
<1>2. PICK h : Hunks(F) = h[1] /\ HunkChain(F, h) /\ \A i \in 1..(Len(F) + 1) : h[i] \in Seq(HunkSet)
  BY <1>1, HunksExist
<1> DEFINE n == Len(F)
           Empty(i) == \A k \in 1..Len(h[i]) : h[i][k].data = <<>>
           T == {j \in Nat : \A i \in 1..(n + 1) : i >= n + 1 - j => Empty(i)}
<1>3. ASSUME NEW i \in 1..(n + 1), ~Complete(F, i)
      PROVE  Empty(i)
  <2>1. h[i] = <<>>
    BY <1>2, <1>3 DEF HunkChain
  <2>2. Len(<<>>) = 0
    BY EmptySeq
  <2>. QED
    BY <2>1, <2>2
<1>4. ASSUME NEW i \in 1..(n + 1), Complete(F, i)
      PROVE  HunkAt(F, i).data = <<>>
  <2> DEFINE len == WordAt(F, i + 2)
  <2>1. i \in Nat \ {0} /\ i + 3 <= at + 2 /\ i + 3 + len <= at + 2
    BY <1>1, <1>4 DEF Complete
  <2>2. HunkAt(F, i).data = SubSeq(F, i + 4, i + 3 + len)
    BY DEF HunkAt
  <2>3. len = F[i + 2] + Radix * F[i + 3]
    BY <2>1 DEF WordAt
  <2> HIDE DEF len
  <2>4. F[i + 2] \in Nat /\ F[i + 3] \in Nat /\ Radix \in Nat \ {0, 1}
    <3>1. i + 2 \in 1..Len(F) /\ i + 3 \in 1..Len(F)
      BY <1>1, <2>1
    <3>2. F[i + 2] \in Byte /\ F[i + 3] \in Byte
      BY <1>1, <3>1, ElementOfSeq
    <3>. QED
      BY <3>2, ToolAssumption DEF Byte
  <2>5. len = 0
    <3>1. CASE i + 3 <= at
      <4>1. F[i + 2] = 0 /\ F[i + 3] = 0
        BY <1>1, <2>1, <3>1
      <4>. QED
        BY <2>3, <2>4, <4>1
    <3>2. CASE i + 3 = at + 1
      <4>1. F[i + 2] = 0
        BY <1>1, <2>1, <3>2
      <4> DEFINE x == F[i + 3]
      <4>2. len = Radix * x /\ x \in Nat
        BY <2>3, <2>4, <4>1
      <4> HIDE DEF x
      <4>3. Radix * x \in Int /\ (x >= 1 => Radix * x >= Radix)
        BY <2>4, <4>2
      <4>4. len <= 1
        BY <2>1, <3>2, <4>2, <4>3
      <4>5. x = 0
        BY <2>4, <4>2, <4>3, <4>4
      <4>. QED
        BY <2>4, <4>2, <4>5
    <3>3. CASE i + 3 = at + 2
      <4>1. len \in Nat
        BY <2>3, <2>4
      <4>. QED
        BY <2>1, <3>3, <4>1
    <3>. QED
      BY <2>1, <3>1, <3>2, <3>3
  <2>6. SubSeq(F, i + 4, i + 3) = <<>>
    BY <2>1, SubSeqEmpty
  <2>7. i + 3 + len = i + 3
    BY <2>1, <2>5
  <2>. QED
    BY <2>2, <2>6, <2>7
<1>5. n \in Nat
  BY <1>1
<1>6. ASSUME NEW i \in 1..(n + 1), Complete(F, i), Empty(After(F, i))
      PROVE  Empty(i)
  <2> DEFINE r == h[After(F, i)]
             x == HunkAt(F, i)
  <2>1. x \in HunkSet /\ After(F, i) \in 1..(n + 1) /\ x.data = <<>>
    <3>1. x \in HunkSet /\ After(F, i) \in (i + 1)..(Len(F) + 1)
      BY <1>1, <1>6, HunkFacts
    <3>. QED
      BY <1>4, <1>5, <1>6, <3>1
  <2>2. h[i] = <<x>> \o r /\ r \in Seq(HunkSet)
    BY <1>2, <1>6, <2>1 DEF HunkChain
  <2>3. \A k \in 1..Len(r) : r[k].data = <<>>
    BY <1>6
  <2> HIDE DEF r, x
  <2>4. /\ Len(<<x>> \o r) = Len(r) + 1 /\ (<<x>> \o r)[1] = x
        /\ \A k \in 2..(Len(r) + 1) : (<<x>> \o r)[k] = r[k - 1]
    BY <2>1, <2>2, PushFacts
  <2>5. Len(r) \in Nat
    BY <2>2, LenProperties
  <2>6. ASSUME NEW k \in 1..(Len(r) + 1)
        PROVE  (<<x>> \o r)[k].data = <<>>
    <3>1. CASE k = 1
      BY <2>1, <2>4, <3>1
    <3>2. CASE k # 1
      <4>1. k \in 2..(Len(r) + 1) /\ k - 1 \in 1..Len(r)
        BY <2>5, <3>2
      <4>. QED
        BY <2>3, <2>4, <4>1
    <3>. QED
      BY <3>1, <3>2
  <2>. QED
    BY <2>2, <2>4, <2>6
<1> HIDE DEF Empty, n
<1>7. 0 \in T
  <2>1. ASSUME NEW i \in 1..(n + 1), i >= n + 1 - 0
        PROVE  Empty(i)
    <3>1. i = Len(F) + 1
      BY <1>5, <2>1 DEF n
    <3>2. ~Complete(F, i)
      BY <1>1, <3>1 DEF Complete
    <3>. QED
      BY <1>3, <3>2
  <2>. QED
    BY <2>1
<1>8. ASSUME NEW j \in 0..(n - 1), j \in T
      PROVE  j + 1 \in T
  <2>1. ASSUME NEW i \in 1..(n + 1), i >= n + 1 - (j + 1)
        PROVE  Empty(i)
    <3>1. CASE Complete(F, i)
      <4>1. After(F, i) \in (i + 1)..(n + 1)
        BY <1>1, <3>1, HunkFacts DEF n
      <4>2. After(F, i) \in 1..(n + 1) /\ After(F, i) >= n + 1 - j
        BY <1>5, <2>1, <4>1
      <4>3. Empty(After(F, i))
        BY <1>8, <4>2
      <4>. QED
        BY <1>6, <3>1, <4>3
    <3>2. CASE ~Complete(F, i)
      BY <1>3, <3>2
    <3>. QED
      BY <3>1, <3>2
  <2>. QED
    BY <1>5, <2>1
<1>9. n \in T
  <2> HIDE DEF T
  <2>1. 0..n \subseteq T
    BY <1>5, <1>7, <1>8, Upto
  <2>. QED
    BY <1>5, <2>1
<1>10. Empty(1) /\ 1 \in 1..(n + 1)
  BY <1>5, <1>9
<1>11. h[1] \in Seq(HunkSet) /\ \A k \in 1..Len(h[1]) : h[1][k].data = <<>>
  BY <1>2, <1>10 DEF Empty, n
<1>. QED
  BY <1>2, <1>11, FoldNothing DEF F

(* A file without hunks holds its data from the word in front of it on, or *)
(* from where its reader knows.                                            *)
Home(a) == IF format = "DEFAULT" THEN a % (Radix * Radix) ELSE a
FlatImage(s) ==
  IF format = "DEFAULT"
  THEN IF s.file = <<>> THEN <<>> ELSE Lay(<<>>, WordAt(s.file, 1), From(s.file, 3))
  ELSE Lay(<<>>, s.org - Len(s.file), s.file)

(* The two parts of a file with one lead word.                             *)
LEMMA LeadRead ==
  ASSUME NEW a \in Nat, NEW d \in Seq(Byte)
  PROVE  /\ WordAt(Word(a) \o d, 1) = a % (Radix * Radix)
         /\ From(Word(a) \o d, 3) = d /\ Len(Word(a) \o d) = 2 + Len(d)
<1>0. Len(d) \in Nat
  BY LenProperties
<1> DEFINE w == Word(a)
           f == w \o d
<1>1. w \in Seq(Byte) /\ Len(w) = 2
  BY WordFacts
<1>2. WordAt(f, 1) = a % (Radix * Radix)
  <2> DEFINE one == 1
  <2>1. f[one] = Word(a)[1] /\ f[one + 1] = Word(a)[2] /\ one \in Nat
    <3> HIDE DEF w
    <3>1. \A i \in 1..(Len(w) + Len(d)) : f[i] = IF i <= Len(w) THEN w[i] ELSE d[i - Len(w)]
      BY <1>1, ConcatProperties
    <3>2. 1 \in 1..(Len(w) + Len(d)) /\ 2 \in 1..(Len(w) + Len(d))
      BY <1>0, <1>1
    <3> HIDE DEF f
    <3>3. f[1] = w[1] /\ f[2] = w[2]
      BY <1>1, <3>1, <3>2
    <3>. QED
      BY <3>3 DEF w
  <2> HIDE DEF one, f
  <2>2. WordAt(f, one) = a % (Radix * Radix)
    BY <2>1, WordRead
  <2>. QED
    BY <2>2 DEF one
<1>3. From(f, 3) = d /\ Len(f) = 2 + Len(d)
  <2> HIDE DEF w
  <2>1. Len(w \o d) = Len(w) + Len(d)
    BY <1>1, ConcatProperties
  <2> DEFINE one == 1
             n == Len(d)
  <2>2. one \in Nat \ {0} /\ n \in Int /\ n <= Len(d)
    BY <1>0
  <2> HIDE DEF one, n
  <2>3. SubSeq(w \o d, Len(w) + one, Len(w) + n) = SubSeq(d, one, n)
    BY <1>1, <2>2, SubSeqShift
  <2>4. SubSeq(d, 1, Len(d)) = d
    BY SubSeqFull
  <2>5. Len(w) + one = 3 /\ Len(w) + n = Len(w \o d)
    BY <1>1, <2>1 DEF one, n
  <2>6. From(w \o d, 3) = SubSeq(w \o d, 3, Len(w \o d))
    BY DEF From
  <2>7. From(w \o d, 3) = SubSeq(d, 1, Len(d))
    BY <2>3, <2>5, <2>6 DEF one, n
  <2>. QED
    BY <1>1, <2>1, <2>4, <2>7
<1>. QED
  BY <1>2, <1>3

LEMMA FlatHolds ==
  ASSUME NEW s, NEW a \in Nat, NEW d \in Seq(Byte), FormatKnown, format # "RAS",
         s.file = Lead(a) \o d, s.org = a + Len(d)
  PROVE  FlatImage(s) = Lay(<<>>, Home(a), d) /\ Home(a) \in Int
<1>0. Len(d) \in Nat
  BY LenProperties
<1>1. CASE format = "DEFAULT"
  <2> DEFINE w == Word(a)
             f == w \o d
  <2>1. w \in Seq(Byte) /\ Len(w) = 2
    BY WordFacts
  <2>2. s.file = f
    BY <1>1 DEF Lead
  <2>3. WordAt(f, 1) = a % (Radix * Radix) /\ From(f, 3) = d /\ Len(f) = 2 + Len(d)
    BY LeadRead
  <2>5. f # <<>>
    <3>1. Len(f) # 0
      BY <1>0, <2>3
    <3>2. Len(<<>>) = 0
      BY EmptySeq
    <3> HIDE DEF f
    <3>. QED
      BY <3>1, <3>2
  <2>6. a % (Radix * Radix) \in Int
    <3>1. Radix * Radix \in Nat \ {0}
      BY ToolAssumption
    <3> DEFINE rr == Radix * Radix
    <3>2. rr \in Nat \ {0}
      BY <3>1
    <3> HIDE DEF rr
    <3>3. a % rr \in Int
      BY <3>2
    <3>. QED
      BY <3>3 DEF rr
  <2> HIDE DEF f
  <2>7. FlatImage(s) = Lay(<<>>, a % (Radix * Radix), d)
    BY <1>1, <2>2, <2>3, <2>5 DEF FlatImage
  <2>. QED
    BY <1>1, <2>6, <2>7 DEF Home
<1>2. CASE format # "DEFAULT"
  <2>1. <<>> \o d = d
    BY ConcatEmptySeq
  <2>2. s.file = d
    BY <1>2, <2>1 DEF Lead
  <2>3. s.org - Len(s.file) = a
    BY <1>0, <2>2
  <2>. QED
    BY <1>2, <2>2, <2>3 DEF FlatImage, Home
<1>. QED
  BY <1>1, <1>2

(* The bytes a reader would find, and the memory it would read from them.  *)
Written(ph, s) == IF format = "RAS" /\ ph = "lines" /\ ~s.clear THEN Patch(s).file ELSE s.file
ImageOf(ph, s) ==
  IF format = "RAS" THEN FoldLeft(Load, <<>>, Hunks(Written(ph, s))) ELSE FlatImage(s)

LEMMA LoadedIs ==
  ASSUME FormatKnown
  PROVE  Pending = Written(phase, st) /\ Loaded(Pending) = ImageOf(phase, st)
<1>1. Pending = Written(phase, st)
  BY DEF Pending, Written
<1>2. CASE format = "RAS"
  BY <1>1, <1>2 DEF Loaded, ImageOf
<1>3. CASE format = "DEFAULT"
  <2>1. Pending = st.file
    BY <1>3 DEF Pending
  <2>. QED
    BY <1>1, <1>3, <2>1 DEF Loaded, ImageOf, FlatImage
<1>4. CASE format = "RAW"
  <2>1. Pending = st.file
    BY <1>4 DEF Pending
  <2>. QED
    BY <1>1, <1>4, <2>1 DEF Loaded, ImageOf, FlatImage, Start
<1>. QED
  BY <1>2, <1>3, <1>4 DEF FormatKnown

LEMMA RasImage ==
  ASSUME NEW s \in States, NEW m, format = "RAS", FileOf(s, m), WordSized(m)
  PROVE  /\ ImageOf("lines", s) = m /\ ImageOf("closed", Patch(s)) = m
         /\ ~s.clear => BytesOf(Hunks(Patch(s).file)) = Len(Patch(s).file)
<1>1. m \in Memories
  BY DEF FileOf
<1>2. CASE s.clear
  <2>1. s.file = <<>> /\ m = <<>>
    BY <1>2 DEF FileOf
  <2>2. Written("lines", s) = <<>>
    BY <1>2, <2>1 DEF Written
  <2>3. ImageOf("lines", s) = <<>>
    BY <2>2, NoHunks, FoldNothing DEF ImageOf
  <2> DEFINE w == Word(s.seglen)
             at == s.seekback
  <2>4. w \in Seq(Byte) /\ Len(w) = 2 /\ at \in Nat
    BY WordFacts DEF States
  <2>5. Patch(s).file = Overwrite(<<>>, at, w)
    BY <2>1, PatchFacts
  <2> HIDE DEF w, at
  <2>6. FoldLeft(Load, <<>>, Hunks(Overwrite(<<>>, at, w))) = <<>>
    BY <2>4, HoleHoldsNothing
  <2>7. Written("closed", Patch(s)) = Patch(s).file
    BY DEF Written
  <2>8. ImageOf("closed", Patch(s)) = <<>>
    BY <2>5, <2>6, <2>7 DEF ImageOf
  <2>. QED
    BY <1>2, <2>1, <2>3, <2>8
<1>3. CASE ~s.clear
  <2>1. \E G, hs, a, d : RasOpen(s, m, G, hs, a, d)
    BY <1>3 DEF FileOf
  <2>2. /\ FoldLeft(Load, <<>>, Hunks(Patch(s).file)) = m
        /\ BytesOf(Hunks(Patch(s).file)) = Len(Patch(s).file)
    BY <1>1, <2>1, RasHolds
  <2>3. Written("lines", s) = Patch(s).file /\ Written("closed", Patch(s)) = Patch(s).file
    BY <1>3 DEF Written
  <2>. QED
    BY <2>2, <2>3 DEF ImageOf
<1>. QED
  BY <1>2, <1>3

LEMMA FlatImageHolds ==
  ASSUME NEW s, NEW m, FormatKnown, format # "RAS", FileOf(s, m), WordSized(m)
  PROVE  \A x \in DOMAIN m : x \in DOMAIN FlatImage(s) /\ FlatImage(s)[x] = m[x]
<1> SUFFICES ASSUME NEW x \in DOMAIN m
             PROVE  x \in DOMAIN FlatImage(s) /\ FlatImage(s)[x] = m[x]
  OBVIOUS
<1>1. ~s.clear
  <2>1. DOMAIN <<>> = {}
    BY MemoryFacts
  <2>. QED
    BY <2>1 DEF FileOf
<1>2. PICK a, d : Flat(s, m, a, d) /\ s.file = Lead(a) \o d
  BY <1>1 DEF FileOf
<1>3. a \in Nat /\ d \in Seq(Byte) /\ s.org = a + Len(d) /\ Len(d) \in Nat
      /\ x \in a..(a + Len(d) - 1) /\ m[x] = d[x - a + 1]
  BY <1>2, LenProperties DEF Flat, Within
<1>4. FlatImage(s) = Lay(<<>>, Home(a), d)
  BY <1>2, <1>3, FlatHolds
<1>5. Home(a) = a
  <2> DEFINE rr == Radix * Radix
  <2>1. rr \in Nat \ {0}
    BY ToolAssumption
  <2>2. x < rr - 1
    BY DEF WordSized
  <2> HIDE DEF rr
  <2>3. 0 <= a /\ a < rr /\ a \in Int
    BY <1>3, <2>1, <2>2
  <2>4. a % rr = a
    BY <2>1, <2>3, SmallRemainder
  <2>. QED
    BY <2>4 DEF Home, rr
<1>6. /\ DOMAIN Lay(<<>>, a, d) = DOMAIN <<>> \cup a..(a + Len(d) - 1)
      /\ \A y \in a..(a + Len(d) - 1) : Lay(<<>>, a, d)[y] = d[y - a + 1]
  <2>1. <<>> \in Memories /\ a \in Int
    BY <1>3, MemoryFacts
  <2>2. d \in Seq(Byte)
    BY <1>3
  <2> DEFINE z == <<>>
  <2>3. z \in Memories
    BY <2>1
  <2> HIDE DEF z
  <2>4. /\ DOMAIN Lay(z, a, d) = DOMAIN z \cup a..(a + Len(d) - 1)
        /\ \A y \in a..(a + Len(d) - 1) : Lay(z, a, d)[y] = d[y - a + 1]
    BY <2>1, <2>2, <2>3, LayFacts
  <2>. QED
    BY <2>4 DEF z
<1>. QED
  BY <1>3, <1>4, <1>5, <1>6

(* In every good pass, at every point, the file is an image of what the    *)
(* lines of that pass laid down, however many passes went before and       *)
(* whatever they left in Seekback and Seglen.                              *)
LEMMA ImageHolds == OutInv => FileIsImage
<1> SUFFICES ASSUME OutInv, Good, InRange
             PROVE  /\ \A a \in DOMAIN laid : a \in DOMAIN Loaded(Pending) /\ Loaded(Pending)[a] = laid[a]
                    /\ format = "RAS" => /\ DOMAIN Loaded(Pending) = DOMAIN laid
                                         /\ HunkBytes(Pending) = Len(Pending)
  BY DEF FileIsImage
<1>1. /\ FormatKnown /\ laid \in Memories /\ st \in States /\ WordSized(laid)
      /\ st.redo = 0 /\ laid # <<>> /\ (phase = "lines" \/ phase = "closed")
  BY FormatIsKnown DEF OutInv, Good, InRange, WordSized
<1>2. Pending = Written(phase, st) /\ Loaded(Pending) = ImageOf(phase, st)
  BY <1>1, LoadedIs
<1>3. CASE format = "RAS"
  <2>1. /\ ImageOf(phase, st) = laid
        /\ BytesOf(Hunks(Written(phase, st))) = Len(Written(phase, st))
    <3>1. CASE phase = "lines"
      <4>1. FileOf(st, laid)
        BY <1>1, <3>1 DEF OutInv
      <4>2. ~st.clear
        BY <1>1, <4>1 DEF FileOf
      <4>3. Written(phase, st) = Patch(st).file
        BY <1>3, <3>1, <4>2 DEF Written
      <4>4. ImageOf("lines", st) = laid /\ BytesOf(Hunks(Patch(st).file)) = Len(Patch(st).file)
        BY <1>1, <1>3, <4>1, <4>2, RasImage
      <4>. QED
        BY <3>1, <4>3, <4>4
    <3>2. CASE phase = "closed"
      <4>1. PICK r \in States : FileOf(r, laid) /\ st = Patch(r)
        BY <1>3, <3>2 DEF OutInv, Closed
      <4>2. ~r.clear
        BY <1>1, <4>1 DEF FileOf
      <4>3. Written(phase, st) = Patch(r).file
        BY <3>2, <4>1 DEF Written
      <4>4. ImageOf("closed", Patch(r)) = laid /\ BytesOf(Hunks(Patch(r).file)) = Len(Patch(r).file)
        BY <1>1, <1>3, <4>1, <4>2, RasImage
      <4>. QED
        BY <3>2, <4>1, <4>3, <4>4
    <3>. QED
      BY <1>1, <3>1, <3>2
  <2>2. HunkBytes(Pending) = BytesOf(Hunks(Pending))
    BY DEF HunkBytes, BytesOf
  <2>. QED
    BY <1>2, <2>1, <2>2
<1>4. CASE format # "RAS"
  <2>1. FileOf(st, laid)
    BY <1>1, <1>4 DEF OutInv, Closed
  <2>2. ImageOf(phase, st) = FlatImage(st)
    BY <1>4 DEF ImageOf
  <2>3. \A x \in DOMAIN laid : x \in DOMAIN FlatImage(st) /\ FlatImage(st)[x] = laid[x]
    BY <1>1, <1>4, <2>1, FlatImageHolds
  <2>. QED
    BY <1>2, <1>4, <2>2, <2>3
<1>. QED
  BY <1>3, <1>4

THEOREM FileHoldsImage == Spec => []FileIsImage
BY ImageHolds, OutputInductive, PTL

-----------------------------------------------------------------------------
(* The steps of the image.                                                 *)
LayStep(m, n, grows) ==
  LET changed == {x \in DOMAIN n : x \in DOMAIN m => n[x] # m[x]}
  IN  /\ DOMAIN m \subseteq DOMAIN n
      /\ \A x, y \in changed : x..y \subseteq DOMAIN n
      /\ grows => /\ changed \cap DOMAIN m = {}
                  /\ \A x \in DOMAIN m, y \in changed : x..y \subseteq DOMAIN n

LEMMA BlockLaid ==
  ASSUME NEW m \in Memories, NEW a \in Int, NEW e \in Seq(Byte)
  PROVE  LayStep(m, Lay(m, a, e), FALSE)
<1> DEFINE n == Lay(m, a, e)
           B == a..(a + Len(e) - 1)
           changed == {x \in DOMAIN n : x \in DOMAIN m => n[x] # m[x]}
<1>1. /\ DOMAIN n = DOMAIN m \cup B
      /\ \A x \in DOMAIN m \ B : n[x] = m[x]
  BY LayFacts
<1>2. Len(e) \in Nat
  BY LenProperties
<1> HIDE DEF n
<1>3. changed \subseteq B
  BY <1>1
<1>4. \A x, y \in B : x..y \subseteq B
  BY <1>2
<1> HIDE DEF B
<1>5. \A x, y \in changed : x..y \subseteq DOMAIN n
  BY <1>1, <1>3, <1>4
<1>6. DOMAIN m \subseteq DOMAIN n
  BY <1>1
<1>. QED
  BY <1>5, <1>6 DEF LayStep, n

LEMMA EndLaid ==
  ASSUME NEW b \in Int, NEW d \in Seq(Byte), NEW q \in Seq(Byte)
  PROVE  LayStep(Lay(<<>>, b, d), Lay(<<>>, b, d \o q), TRUE)
<1> DEFINE z == <<>>
           dq == d \o q
           m == Lay(z, b, d)
           n == Lay(z, b, dq)
<1>1. z \in Memories /\ DOMAIN z = {}
  BY MemoryFacts
<1> HIDE DEF z
<1>2. /\ dq \in Seq(Byte) /\ Len(dq) = Len(d) + Len(q)
      /\ \A i \in 1..(Len(d) + Len(q)) : dq[i] = IF i <= Len(d) THEN d[i] ELSE q[i - Len(d)]
  BY ConcatProperties
<1>3. Len(d) \in Nat /\ Len(q) \in Nat
  BY LenProperties
<1> HIDE DEF dq
<1>4. /\ DOMAIN m = DOMAIN z \cup b..(b + Len(d) - 1)
      /\ \A x \in b..(b + Len(d) - 1) : m[x] = d[x - b + 1]
  BY <1>1, LayFacts
<1>5. /\ DOMAIN n = DOMAIN z \cup b..(b + Len(dq) - 1)
      /\ \A x \in b..(b + Len(dq) - 1) : n[x] = dq[x - b + 1]
  BY <1>1, <1>2, LayFacts
<1> HIDE DEF m, n
<1>6. DOMAIN m = b..(b + Len(d) - 1) /\ DOMAIN n = b..(b + Len(d) + Len(q) - 1)
  BY <1>1, <1>2, <1>3, <1>4, <1>5
<1>7. ASSUME NEW x \in DOMAIN m
      PROVE  n[x] = m[x]
  <2>1. x - b + 1 \in 1..(Len(d) + Len(q)) /\ x - b + 1 <= Len(d) /\ x \in DOMAIN n
    BY <1>3, <1>6
  <2>2. dq[x - b + 1] = d[x - b + 1]
    BY <1>2, <2>1
  <2>3. n[x] = dq[x - b + 1]
    BY <1>1, <1>5, <2>1
  <2>4. m[x] = d[x - b + 1]
    BY <1>4, <1>6
  <2>. QED
    BY <2>2, <2>3, <2>4
<1>8. DOMAIN m \subseteq DOMAIN n /\ \A x, y \in DOMAIN n : x..y \subseteq DOMAIN n
  BY <1>3, <1>6
<1>9. LayStep(m, n, TRUE)
  <2> DEFINE changed == {x \in DOMAIN n : x \in DOMAIN m => n[x] # m[x]}
  <2>1. changed \cap DOMAIN m = {} /\ changed \subseteq DOMAIN n
    BY <1>7
  <2> HIDE DEF changed
  <2>2. \A x, y \in changed : x..y \subseteq DOMAIN n
    BY <1>8, <2>1
  <2>3. \A x \in DOMAIN m, y \in changed : x..y \subseteq DOMAIN n
    BY <1>8, <2>1
  <2>. QED
    BY <1>8, <2>1, <2>2, <2>3 DEF LayStep, changed
<1>. QED
  BY <1>9 DEF m, n, z, dq

LEMMA FirstLaid ==
  ASSUME NEW b \in Int, NEW d \in Seq(Byte)
  PROVE  LayStep(<<>>, Lay(<<>>, b, d), TRUE)
<1> DEFINE none == <<>>
<1>1. none \in Seq(Byte)
  BY EmptySeq
<1>2. Lay(<<>>, b, none) = <<>>
  BY MemoryFacts, LayNothing
<1>3. none \o d = d
  BY ConcatEmptySeq
<1> HIDE DEF none
<1>4. LayStep(Lay(<<>>, b, none), Lay(<<>>, b, none \o d), TRUE)
  BY <1>1, EndLaid
<1>. QED
  BY <1>2, <1>3, <1>4

(* What a line lays down, the image takes in as one block.                 *)
LEMMA DoneLays ==
  ASSUME NEW s \in States, NEW t \in States, NEW m, NEW e \in Seq(Byte), FormatKnown,
         FileOf(s, m), Done(s, t, m, e),
         WordSized(m), WordSized(Lay(m, Current(s).org, e))
  PROVE  LayStep(ImageOf("lines", s), ImageOf("lines", t), format # "RAS")
<1> DEFINE b == Current(s).org
           n == Lay(m, b, e)
<1>1. m \in Memories /\ b \in Int /\ FileOf(t, n)
  BY CurrentFacts DEF FileOf, Done
<1>2. CASE format = "RAS"
  <2>1. ImageOf("lines", s) = m
    BY <1>2, RasImage
  <2>2. WordSized(n)
    OBVIOUS
  <2>3. LayStep(m, n, FALSE)
    BY <1>1, BlockLaid
  <2> HIDE DEF n
  <2>4. ImageOf("lines", t) = n
    BY <1>1, <1>2, <2>2, RasImage
  <2>5. (format # "RAS") = FALSE
    BY <1>2
  <2>. QED
    BY <2>1, <2>3, <2>4, <2>5
<1>3. CASE format # "RAS"
  <2>1. ImageOf("lines", s) = FlatImage(s) /\ ImageOf("lines", t) = FlatImage(t)
    BY <1>3 DEF ImageOf
  <2>2. (format # "RAS") = TRUE
    BY <1>3
  <2>3. LayStep(FlatImage(s), FlatImage(t), TRUE)
    <3>1. CASE s.clear
      <4>1. FlatImage(s) = <<>>
        <5>1. s.file = <<>> /\ Len(<<>>) = 0 /\ s.org \in Int
          BY <3>1, EmptySeq DEF FileOf, States
        <5>2. s.org - Len(s.file) \in Int
          BY <5>1
        <5>3. Lay(<<>>, s.org - Len(s.file), <<>>) = <<>>
          BY <5>2, MemoryFacts, LayNothing
        <5>. QED
          BY <5>1, <5>3 DEF FlatImage
      <4>2. CASE t.clear
        <5>1. FlatImage(t) = <<>>
          <6>1. t.file = <<>> /\ Len(<<>>) = 0 /\ t.org \in Int
            BY <1>1, <4>2, EmptySeq DEF FileOf, States
          <6>2. t.org - Len(t.file) \in Int
            BY <6>1
          <6>3. Lay(<<>>, t.org - Len(t.file), <<>>) = <<>>
            BY <6>2, MemoryFacts, LayNothing
          <6>. QED
            BY <6>1, <6>3 DEF FlatImage
        <5>2. LayStep(<<>>, <<>>, TRUE)
          <6>1. DOMAIN <<>> = {}
            BY MemoryFacts
          <6>. QED
            BY <6>1 DEF LayStep
        <5>. QED
          BY <4>1, <5>1, <5>2
      <4>3. CASE ~t.clear
        <5>1. PICK a, d : Flat(t, n, a, d) /\ t.file = Lead(a) \o d
          BY <1>1, <1>3, <4>3 DEF FileOf
        <5>2. a \in Nat /\ d \in Seq(Byte) /\ t.org = a + Len(d)
          BY <5>1 DEF Flat
        <5>3. FlatImage(t) = Lay(<<>>, Home(a), d) /\ Home(a) \in Int
          BY <1>3, <5>1, <5>2, FlatHolds
        <5> DEFINE x == Home(a)
        <5>4. x \in Int /\ FlatImage(t) = Lay(<<>>, x, d)
          BY <5>3
        <5> HIDE DEF x
        <5>5. LayStep(<<>>, Lay(<<>>, x, d), TRUE)
          BY <5>2, <5>4, FirstLaid
        <5>. QED
          BY <4>1, <5>4, <5>5
      <4>. QED
        BY <4>2, <4>3
    <3>2. CASE ~s.clear
      <4>1. PICK a, d : Flat(s, m, a, d) /\ s.file = Lead(a) \o d
        BY <1>3, <3>2 DEF FileOf
      <4>2. a \in Nat /\ d \in Seq(Byte) /\ s.org = a + Len(d)
        BY <4>1 DEF Flat
      <4>3. PICK q \in Seq(Byte) : t.file = s.file \o q /\ t.org = s.org + Len(q)
        BY <1>3, <3>2 DEF Done, Grown
      <4> DEFINE dq == d \o q
                 w == Lead(a)
      <4>4. dq \in Seq(Byte) /\ Len(dq) = Len(d) + Len(q) /\ Len(d) \in Nat /\ Len(q) \in Nat
        <5>1. dq \in Seq(Byte) /\ Len(dq) = Len(d) + Len(q)
          BY <4>2, ConcatProperties
        <5>2. Len(d) \in Nat /\ Len(q) \in Nat
          BY <4>2, LenProperties
        <5>. QED
          BY <5>1, <5>2
      <4>5. t.file = w \o dq
        <5>1. w \in Seq(Byte) /\ d \in Seq(Byte)
          BY <4>2, LeadFacts
        <5>2. t.file = (w \o d) \o q
          BY <4>1, <4>3
        <5> HIDE DEF w
        <5>3. (w \o d) \o q = w \o (d \o q)
          BY <5>1, BytesAssociative
        <5>. QED
          BY <5>2, <5>3
      <4>6. t.org = a + Len(dq)
        <5> HIDE DEF dq
        <5>. QED
          BY <4>2, <4>3, <4>4
      <4>7. FlatImage(s) = Lay(<<>>, Home(a), d) /\ Home(a) \in Int
        BY <1>3, <4>1, <4>2, FlatHolds
      <4>8. FlatImage(t) = Lay(<<>>, Home(a), dq)
        <5> HIDE DEF dq
        <5>1. dq \in Seq(Byte) /\ a \in Nat /\ t.file = Lead(a) \o dq /\ t.org = a + Len(dq)
          BY <4>2, <4>4, <4>5, <4>6
        <5>. QED
          BY <1>3, <5>1, FlatHolds
      <4> DEFINE x == Home(a)
      <4>9. x \in Int /\ FlatImage(s) = Lay(<<>>, x, d) /\ FlatImage(t) = Lay(<<>>, x, d \o q)
        BY <4>7, <4>8
      <4> HIDE DEF x, dq
      <4>10. LayStep(Lay(<<>>, x, d), Lay(<<>>, x, d \o q), TRUE)
        BY <4>2, <4>9, EndLaid
      <4>. QED
        BY <4>9, <4>10
    <3>. QED
      BY <3>1, <3>2
  <2>. QED
    BY <2>1, <2>2, <2>3
<1>. QED
  BY <1>2, <1>3

LEMMA QuietImage ==
  ASSUME NEW s \in States, NEW t, Quiet(s, t)
  PROVE  ImageOf("lines", t) = ImageOf("lines", s)
<1>1. /\ t \in States /\ t.clear = s.clear /\ t.file = s.file /\ t.org = s.org
      /\ t.seglen = s.seglen /\ t.seekback = s.seekback
  BY DEF Quiet
<1>2. Patch(t).file = Patch(s).file
  BY <1>1, PatchFacts
<1>. QED
  BY <1>1, <1>2 DEF ImageOf, Written, FlatImage

(* The image now and after a step.                                         *)
MemNow == IF st.redo = 0 THEN Loaded(Pending) ELSE <<>>
ImageStep == [Image!Lay \/ Image!Restart]_<<MemNow, format # "RAS">>

LEMMA MemIs ==
  ASSUME FormatKnown, format' = format
  PROVE  /\ MemNow = IF st.redo = 0 THEN ImageOf(phase, st) ELSE <<>>
         /\ MemNow' = IF st'.redo = 0 THEN ImageOf(phase', st') ELSE <<>>
<1>1. MemNow = IF st.redo = 0 THEN ImageOf(phase, st) ELSE <<>>
  BY LoadedIs DEF MemNow
<1>2. Pending' = Written(phase', st')
  BY DEF Pending, Written, Patch
<1>3. (Loaded(Pending))' = ImageOf(phase', st')
  <2>1. CASE format = "RAS"
    <3>1. (Loaded(Pending))' = FoldLeft(Load, <<>>, Hunks(Pending'))
      BY <2>1 DEF Loaded
    <3>. QED
      BY <1>2, <2>1, <3>1 DEF ImageOf
  <2>2. CASE format = "DEFAULT"
    <3>1. Pending' = st'.file
      BY <1>2, <2>2 DEF Written
    <3>2. (Loaded(Pending))' =
            IF Pending' = <<>> THEN <<>> ELSE Lay(<<>>, WordAt(Pending', 1), From(Pending', 3))
      BY <2>2 DEF Loaded
    <3>. QED
      BY <2>2, <3>1, <3>2 DEF ImageOf, FlatImage
  <2>3. CASE format = "RAW"
    <3>1. Pending' = st'.file
      BY <1>2, <2>3 DEF Written
    <3>2. (Loaded(Pending))' = Lay(<<>>, st'.org - Len(st'.file), Pending')
      BY <2>3 DEF Loaded, Start
    <3>. QED
      BY <2>3, <3>1, <3>2 DEF ImageOf, FlatImage
  <2>. QED
    BY <2>1, <2>2, <2>3 DEF FormatKnown
<1>4. MemNow' = IF st'.redo = 0 THEN (Loaded(Pending))' ELSE <<>>
  BY DEF MemNow
<1>. QED
  BY <1>1, <1>3, <1>4

LEMMA ImageSteps ==
  ASSUME FormatKnown, format' = format,
         \/ MemNow' = MemNow
         \/ MemNow' = <<>>
         \/ LayStep(MemNow, MemNow', format # "RAS")
  PROVE  ImageStep
<1>1. CASE MemNow' = MemNow
  <2>1. UNCHANGED <<MemNow, format # "RAS">>
    BY <1>1
  <2>. QED
    BY <2>1 DEF ImageStep
<1>2. CASE MemNow' = <<>>
  <2>1. Image!Restart
    BY <1>2 DEF Image!Restart, MemNow
  <2>. QED
    BY <2>1 DEF ImageStep
<1>3. CASE LayStep(MemNow, MemNow', format # "RAS")
  <2>1. Image!Lay
    BY <1>3 DEF Image!Lay, MemNow, LayStep
  <2>. QED
    BY <2>1 DEF ImageStep
<1>. QED
  BY <1>1, <1>2, <1>3

LEMMA StepIsImageStep == OutInv /\ InRange /\ InRange' /\ [Next]_vars => ImageStep
<1> SUFFICES ASSUME OutInv, InRange, InRange', [Next]_vars
             PROVE  ImageStep
  OBVIOUS
<1>1. st \in States /\ FormatKnown /\ WordSized(laid)
  BY FormatIsKnown DEF OutInv, InRange, WordSized
<1>2. WordSized(laid')
  BY DEF InRange, WordSized
<1>3. CASE StartPass
  <2>1. format' = format /\ phase' = "lines" /\ st' = [st EXCEPT !.file = <<>>, !.clear = TRUE, !.redo = 0]
    BY <1>3 DEF StartPass
  <2> DEFINE t == [st EXCEPT !.file = <<>>, !.clear = TRUE, !.redo = 0]
  <2>2. t.redo = 0 /\ t.clear /\ t.file = <<>> /\ t.org \in Int
    BY <1>1 DEF States
  <2>3. st' = t
    BY <2>1
  <2> HIDE DEF t
  <2>4. Written("lines", t) = <<>>
    BY <2>2 DEF Written
  <2>5. FlatImage(t) = <<>>
    <3>1. Len(<<>>) = 0
      BY EmptySeq
    <3>2. t.org - Len(t.file) \in Int
      BY <2>2, <3>1
    <3>3. Lay(<<>>, t.org - Len(t.file), <<>>) = <<>>
      BY <3>2, MemoryFacts, LayNothing
    <3>. QED
      BY <2>2, <3>3 DEF FlatImage
  <2>6. ImageOf("lines", t) = <<>>
    BY <2>4, <2>5, NoHunks, FoldNothing DEF ImageOf
  <2>7. MemNow' = <<>>
    BY <1>1, <2>1, <2>2, <2>3, <2>6, MemIs
  <2>. QED
    BY <1>1, <2>1, <2>7, ImageSteps
<1>4. CASE EndPass
  <2>1. phase = "lines" /\ format' = format
    BY <1>4 DEF EndPass, Reading
  <2>2. CASE st.redo = 0
    <3>1. phase' = "closed" /\ st' = Close(st)
      BY <1>4, <2>2 DEF EndPass
    <3>2. FileOf(st, laid)
      BY <2>1, <2>2 DEF OutInv
    <3>3. st'.redo = 0 /\ ImageOf("closed", st') = ImageOf("lines", st)
      <4>1. CASE format = "RAS"
        <5>1. st' = Patch(st)
          BY <2>2, <3>1, <4>1 DEF Close
        <5>2. ImageOf("lines", st) = laid /\ ImageOf("closed", Patch(st)) = laid
          BY <1>1, <3>2, <4>1, RasImage
        <5>3. Patch(st).redo = 0
          BY <1>1, <2>2, PatchFacts
        <5>. QED
          BY <5>1, <5>2, <5>3
      <4>2. CASE format # "RAS"
        <5>1. st' = st
          BY <3>1, <4>2 DEF Close
        <5>. QED
          BY <2>2, <4>2, <5>1 DEF ImageOf
      <4>. QED
        BY <4>1, <4>2
    <3>4. MemNow' = MemNow
      BY <1>1, <2>1, <2>2, <3>1, <3>3, MemIs
    <3>. QED
      BY <1>1, <2>1, <3>4, ImageSteps
  <2>3. CASE st.redo # 0
    <3>1. st' = [st EXCEPT !.segs = [g \in Segments |-> [@[g] EXCEPT !.unknown = TRUE]]]
      BY <1>4, <2>3 DEF EndPass
    <3>2. st'.redo # 0
      BY <1>1, <2>3, <3>1 DEF States
    <3>3. MemNow' = <<>>
      BY <1>1, <2>1, <3>2, MemIs
    <3>. QED
      BY <1>1, <2>1, <3>3, ImageSteps
  <2>. QED
    BY <2>2, <2>3
<1>5. CASE Org \/ OrgFill \/ OrgUnknown \/ Seg \/ Data \/ Fill \/ Incbin \/ Trouble
  <2>1. phase = "lines"
    BY <1>5 DEF Org, OrgFill, OrgUnknown, Seg, Data, Fill, Incbin, Trouble, Reading
  <2>2. laid \in Memories /\ (st.redo = 0 => FileOf(st, laid))
    BY <2>1 DEF OutInv
  <2>3. Moved(st, st', laid, laid') /\ phase' = "lines" /\ format' = format
    BY <1>1, <1>5, <2>2, LineMoves
  <2>4. CASE st'.redo # 0
    <3>1. MemNow' = <<>>
      BY <1>1, <2>3, <2>4, MemIs
    <3>. QED
      BY <1>1, <2>3, <3>1, ImageSteps
  <2>5. CASE st'.redo = 0
    <3>1. MemNow = ImageOf("lines", st) /\ MemNow' = ImageOf("lines", st') /\ FileOf(st, laid)
      BY <1>1, <2>1, <2>2, <2>3, <2>5, MemIs DEF Moved
    <3>2. CASE Quiet(st, st')
      <4>1. ImageOf("lines", st') = ImageOf("lines", st)
        BY <1>1, <3>2, QuietImage
      <4>. QED
        BY <1>1, <2>3, <3>1, <4>1, ImageSteps
    <3>3. CASE \E d \in Seq(Byte) : Done(st, st', laid, d) /\ laid' = Lay(laid, Current(st).org, d)
      <4>1. PICK d \in Seq(Byte) : Done(st, st', laid, d) /\ laid' = Lay(laid, Current(st).org, d)
        BY <3>3
      <4>2. WordSized(Lay(laid, Current(st).org, d)) /\ st' \in States
        BY <1>2, <4>1 DEF Done
      <4>3. LayStep(ImageOf("lines", st), ImageOf("lines", st'), format # "RAS")
        BY <1>1, <3>1, <4>1, <4>2, DoneLays
      <4>. QED
        BY <1>1, <2>3, <3>1, <4>3, ImageSteps
    <3>. QED
      BY <2>3, <2>5, <3>2, <3>3 DEF Moved
  <2>. QED
    BY <2>4, <2>5
<1>6. CASE ReverseIndexed
  <2>1. format' = format /\ st' = st /\ format # "RAS"
    BY <1>6 DEF ReverseIndexed, Reversed
  <2>2. MemNow' = MemNow
    BY <1>1, <2>1, MemIs DEF ImageOf
  <2>. QED
    BY <1>1, <2>1, <2>2, ImageSteps
<1>7. CASE UNCHANGED vars
  <2>1. format' = format /\ st' = st /\ phase' = phase
    BY <1>7 DEF vars
  <2>2. MemNow' = MemNow
    BY <1>1, <2>1, MemIs
  <2>. QED
    BY <1>1, <2>1, <2>2, ImageSteps
<1>. QED
  BY <1>3, <1>4, <1>5, <1>6, <1>7 DEF Next

LEMMA ImageStarts == Init => Image!Init
<1> SUFFICES ASSUME Init PROVE Image!Init
  OBVIOUS
<1>1. FormatKnown /\ st \in States
  BY StartsGood, FormatIsKnown DEF Init, OutInv
<1>2. st.file = <<>> /\ st.redo = 0 /\ phase = "open" /\ st.org \in Int
  BY DEF Init
<1>3. Written(phase, st) = <<>>
  BY <1>2 DEF Written
<1>4. FlatImage(st) = <<>>
  <2>1. Len(<<>>) = 0
    BY EmptySeq
  <2>2. st.org - Len(st.file) \in Int
    BY <1>2, <2>1
  <2>3. Lay(<<>>, st.org - Len(st.file), <<>>) = <<>>
    BY <2>2, MemoryFacts, LayNothing
  <2>. QED
    BY <1>2, <2>3 DEF FlatImage
<1>5. ImageOf(phase, st) = <<>>
  BY <1>3, <1>4, NoHunks, FoldNothing DEF ImageOf
<1>6. MemNow = <<>>
  BY <1>1, <1>2, <1>5, LoadedIs DEF MemNow
<1>. QED
  BY <1>6 DEF Image!Init, MemNow

(* The file implements module MemoryImage, as long as every address fits   *)
(* in a header: each line that writes puts one block into the image and    *)
(* leaves the rest alone, and in the formats without hunks the image only  *)
(* grows at its end.                                                       *)
THEOREM FileImplementsImage == Spec /\ []InRange => ImageSpec
<1>1. ImageStep = [Image!Lay \/ Image!Restart]_<<IF st.redo = 0 THEN Loaded(Pending) ELSE <<>>, format # "RAS">>
  BY DEF ImageStep, MemNow
<1>. QED
  BY <1>1, ImageStarts, StepIsImageStep, OutputInductive, PTL DEF Spec, ImageSpec, Image!Spec, ImageStep, MemNow

(* The same for what a function G makes of an element and of the value the *)
(* place it jumps to has.                                                  *)
Jumping(n, E, J, z, G, h) ==
  \A i \in 1..(n + 1) : h[i] = IF i \in E THEN z ELSE G[<<i, h[J[i]]>>]

LEMMA JumpRecursion ==
  ASSUME NEW n \in Nat, NEW S, NEW E, NEW J, Jumps(n, E, J), NEW z \in S,
         NEW G \in [(1..(n + 1)) \X S -> S]
  PROVE  \E h \in [1..(n + 1) -> S] : Jumping(n, E, J, z, G, h)
<1> DEFINE Found(a, h) == \A i \in a..(n + 1) : h[i] = IF i \in E THEN z ELSE G[<<i, h[J[i]]>>]
           T == {m \in Nat : m <= n => \E h \in [(n + 1 - m)..(n + 1) -> S] : Found(n + 1 - m, h)}
<1>0. /\ n + 1 \in E /\ J \in [1..(n + 1) -> Int]
      /\ \A i \in 1..(n + 1) : i \notin E => J[i] \in (i + 1)..(n + 1)
  BY DEF Jumps
<1>1. 0 \in T
  <2> DEFINE h == [i \in (n + 1 - 0)..(n + 1) |-> z]
  <2>1. \A i \in (n + 1 - 0)..(n + 1) : i = n + 1
    OBVIOUS
  <2>2. h \in [(n + 1 - 0)..(n + 1) -> S] /\ Found(n + 1 - 0, h)
    BY <1>0, <2>1
  <2> HIDE DEF h, Found
  <2>. QED
    BY <2>2
<1>2. ASSUME NEW m \in Nat, m \in T
      PROVE  m + 1 \in T
  <2> HIDE DEF Found
  <2> SUFFICES ASSUME m + 1 <= n
               PROVE  \E g \in [(n + 1 - (m + 1))..(n + 1) -> S] : Found(n + 1 - (m + 1), g)
    <3>1. m + 1 \in Nat
      OBVIOUS
    <3>. QED
      BY <3>1, Zenon
  <2>0. m <= n
    OBVIOUS
  <2>1. PICK h \in [(n + 1 - m)..(n + 1) -> S] : Found(n + 1 - m, h)
    BY <1>2, <2>0, Zenon
  <2> DEFINE first == n + 1 - (m + 1)
             new == IF first \in E THEN z ELSE G[<<first, h[J[first]]>>]
             g == [i \in first..(n + 1) |-> IF i > first THEN h[i] ELSE new]
  <2>2. first \in 1..n /\ n + 1 - m = first + 1
    OBVIOUS
  <2> HIDE DEF first
  <2>3. new \in S
    <3>1. CASE first \in E
      BY <3>1
    <3>2. CASE first \notin E
      <4>1. J[first] \in (n + 1 - m)..(n + 1) /\ first \in 1..(n + 1)
        BY <1>0, <2>2, <3>2
      <4>2. h[J[first]] \in S
        BY <4>1
      <4>. QED
        BY <3>2, <4>1, <4>2
    <3>. QED
      BY <3>1, <3>2
  <2>4. g \in [first..(n + 1) -> S]
    <3> SUFFICES ASSUME NEW i \in first..(n + 1)
                 PROVE  (IF i > first THEN h[i] ELSE new) \in S
      BY Zenon
    <3>1. i > first => i \in (n + 1 - m)..(n + 1)
      BY <2>2
    <3> HIDE DEF new
    <3>. QED
      BY <2>3, <3>1
  <2>5. ASSUME NEW i \in first..(n + 1)
        PROVE  g[i] = IF i \in E THEN z ELSE G[<<i, g[J[i]]>>]
    <3>1. i \in 1..(n + 1)
      BY <2>2
    <3>2. i \notin E => g[J[i]] = h[J[i]]
      <4> SUFFICES ASSUME i \notin E PROVE g[J[i]] = h[J[i]]
        OBVIOUS
      <4>1. J[i] \in (i + 1)..(n + 1)
        BY <1>0, <3>1
      <4>2. J[i] \in first..(n + 1) /\ J[i] > first
        BY <2>2, <3>1, <4>1
      <4>. QED
        BY <4>2
    <3>3. CASE i > first
      <4>1. i \in (n + 1 - m)..(n + 1)
        BY <2>2, <3>1, <3>3
      <4>2. h[i] = IF i \in E THEN z ELSE G[<<i, h[J[i]]>>]
        BY <2>1, <4>1 DEF Found
      <4>3. g[i] = h[i]
        BY <3>3
      <4>. QED
        BY <3>2, <4>2, <4>3
    <3>4. CASE i = first
      <4>1. g[i] = IF i \in E THEN z ELSE G[<<i, h[J[i]]>>]
        BY <2>2, <3>4
      <4>. QED
        BY <3>2, <4>1
    <3>. QED
      BY <2>2, <3>1, <3>3, <3>4
  <2> HIDE DEF g
  <2>6. Found(first, g)
    BY <2>5 DEF Found
  <2>. QED
    BY <2>4, <2>6 DEF first
<1> HIDE DEF T
<1>3. n \in T
  BY <1>1, <1>2, SetInduction
<1>4. n + 1 - n = 1 /\ n <= n
  OBVIOUS
<1> HIDE DEF Found
<1>5. PICK h \in [(n + 1 - n)..(n + 1) -> S] : Found(n + 1 - n, h)
  BY <1>3, <1>4, Zenon DEF T
<1>. QED
  BY <1>4, <1>5 DEF Found, Jumping

-----------------------------------------------------------------------------
(* A list cut into parts of g.                                             *)
Parts(n, g) == (n + g - 1) \div g
Edge(n, g, k) == IF k * g < n THEN k * g ELSE n
Slices(d, g) ==
  [k \in 1..Parts(Len(d), g) |-> SubSeq(d, (k - 1) * g + 1, Edge(Len(d), g, k))]
Before(d, g, k) == SubSeq(d, 1, Edge(Len(d), g, k))

LEMMA EdgeFacts ==
  ASSUME NEW n \in Nat, NEW g \in Nat \ {0}
  PROVE  /\ Parts(n, g) \in Nat /\ Edge(n, g, 0) = 0 /\ Edge(n, g, Parts(n, g)) = n
         /\ \A k \in 1..Parts(n, g) :
              /\ Edge(n, g, k - 1) = (k - 1) * g /\ Edge(n, g, k - 1) \in 0..n
              /\ Edge(n, g, k) \in 0..n /\ Edge(n, g, k - 1) < Edge(n, g, k)
              /\ Edge(n, g, k) <= Edge(n, g, k - 1) + g
<1> DEFINE q == (n + g - 1) \div g
           t == (n + g - 1) % g
<1>2. q \in Int /\ t \in 0..(g - 1) /\ n + g - 1 = g * q + t
  OBVIOUS
<1> HIDE DEF q, t
<1>3. q \in Nat
  <2>1. ASSUME q <= -1
        PROVE  FALSE
    <3>1. g * (-q) >= g
      BY <1>2, <2>1
    <3>2. g * (-q) = -(g * q)
      BY <1>2
    <3>. QED
      BY <1>2, <3>1, <3>2
  <2>. QED
    BY <1>2, <2>1
<1>4. g * q >= n /\ g * q = q * g
  BY <1>2
<1>5. ASSUME NEW k \in 1..q
      PROVE  (k - 1) * g < n /\ (k - 1) * g \in Nat /\ k * g = (k - 1) * g + g
  <2>1. g * (q - k) >= 0 /\ g * (q - k) = g * q - g * k
    BY <1>3
  <2>2. (k - 1) * g = g * k - g
    BY <1>3
  <2>3. g * k <= n + g - 1
    BY <1>2, <1>3, <2>1
  <2>4. (k - 1) * g >= 0 /\ (k - 1) * g \in Int
    OBVIOUS
  <2>5. k * g = g * k /\ g * k \in Int
    OBVIOUS
  <2>. QED
    BY <2>2, <2>3, <2>4, <2>5
<1>6. Parts(n, g) = q /\ \A k : Edge(n, g, k) = IF k * g < n THEN k * g ELSE n
  BY DEF Parts, Edge, q
<1>7. Edge(n, g, 0) = 0 /\ Edge(n, g, q) = n
  <2>1. 0 * g = 0 /\ q * g \in Int
    BY <1>3
  <2>2. Edge(n, g, 0) = 0
    BY <1>6, <2>1
  <2>3. ~(q * g < n)
    BY <1>4, <2>1
  <2>. QED
    BY <1>6, <2>2, <2>3
<1>8. ASSUME NEW k \in 1..q
      PROVE  /\ Edge(n, g, k - 1) = (k - 1) * g /\ Edge(n, g, k - 1) \in 0..n
             /\ Edge(n, g, k) \in 0..n /\ Edge(n, g, k - 1) < Edge(n, g, k)
             /\ Edge(n, g, k) <= Edge(n, g, k - 1) + g
  <2> DEFINE x == (k - 1) * g
             y == k * g
  <2>1. x < n /\ x \in Nat /\ y = x + g
    BY <1>5
  <2>2. Edge(n, g, k - 1) = IF x < n THEN x ELSE n
    BY <1>6
  <2>3. Edge(n, g, k) = IF y < n THEN y ELSE n
    BY <1>6
  <2> HIDE DEF x, y
  <2>4. Edge(n, g, k - 1) = x
    BY <2>1, <2>2
  <2>. QED
    BY <2>1, <2>3, <2>4 DEF x
<1>. QED
  BY <1>3, <1>6, <1>7, <1>8

LEMMA SliceFacts ==
  ASSUME NEW d \in Seq(Byte), NEW g \in Nat \ {0}
  PROVE  /\ DOMAIN Slices(d, g) = 1..Parts(Len(d), g) /\ Len(Slices(d, g)) = Parts(Len(d), g)
         /\ Parts(Len(d), g) \in Nat
         /\ Before(d, g, 0) = <<>> /\ Before(d, g, Parts(Len(d), g)) = d
         /\ \A k \in 1..Parts(Len(d), g) :
              /\ Slices(d, g)[k] \in Seq(Byte) /\ Len(Slices(d, g)[k]) \in 1..g
              /\ Before(d, g, k - 1) \in Seq(Byte)
              /\ Before(d, g, k) = Before(d, g, k - 1) \o Slices(d, g)[k]
              /\ Len(Before(d, g, k - 1)) = (k - 1) * g /\ (k - 1) * g \in Nat /\ (k - 1) * g < Len(d)
<1> DEFINE L == Len(d)
           n == Parts(L, g)
           p == Slices(d, g)
<1>1. L \in Nat /\ \A i \in 1..L : d[i] \in Byte
  BY LenProperties, ElementOfSeq
<1>2. /\ n \in Nat /\ Edge(L, g, 0) = 0 /\ Edge(L, g, n) = L
      /\ \A k \in 1..n : /\ Edge(L, g, k - 1) = (k - 1) * g /\ Edge(L, g, k - 1) \in 0..L
                         /\ Edge(L, g, k) \in 0..L /\ Edge(L, g, k - 1) < Edge(L, g, k)
                         /\ Edge(L, g, k) <= Edge(L, g, k - 1) + g
  <2> HIDE DEF L
  <2>. QED
    BY <1>1, EdgeFacts
<1>3. p = [k \in 1..n |-> SubSeq(d, (k - 1) * g + 1, Edge(L, g, k))]
  BY DEF Slices
<1> HIDE DEF n, p
<1>4. Len(p) = n /\ DOMAIN p = 1..n
  BY <1>2, <1>3
<1>5. Before(d, g, 0) = <<>>
  <2>1. Before(d, g, 0) = SubSeq(d, 1, 0)
    BY <1>2 DEF Before
  <2>2. SubSeq(d, 1, 0) = <<>>
    BY SubSeqEmpty
  <2>. QED
    BY <2>1, <2>2
<1>6. Before(d, g, n) = d
  BY <1>2, SubSeqFull DEF Before
<1>7. ASSUME NEW k \in 1..n
      PROVE  /\ p[k] \in Seq(Byte) /\ Len(p[k]) \in 1..g /\ Before(d, g, k - 1) \in Seq(Byte)
             /\ Before(d, g, k) = Before(d, g, k - 1) \o p[k]
             /\ Len(Before(d, g, k - 1)) = (k - 1) * g /\ (k - 1) * g \in Nat /\ (k - 1) * g < L
  <2> DEFINE u == Edge(L, g, k - 1)
             v == Edge(L, g, k)
  <2>1. u \in 0..L /\ v \in 0..L /\ u < v /\ v <= u + g /\ (k - 1) * g = u
    BY <1>2
  <2>2. p[k] = SubSeq(d, u + 1, v) /\ Before(d, g, k - 1) = SubSeq(d, 1, u)
        /\ Before(d, g, k) = SubSeq(d, 1, v)
    BY <1>3, <2>1 DEF Before
  <2> HIDE DEF u, v
  <2>3. SubSeq(d, u + 1, v) \in Seq(Byte) /\ Len(SubSeq(d, u + 1, v)) \in 1..g
    <3>1. u + 1 \in Int /\ v \in Int /\ \A i \in (u + 1)..v : d[i] \in Byte
      BY <1>1, <2>1
    <3>2. /\ SubSeq(d, u + 1, v) \in Seq(Byte)
          /\ Len(SubSeq(d, u + 1, v)) = IF u + 1 <= v THEN v - (u + 1) + 1 ELSE 0
      BY <3>1, SubSeqProperties
    <3>. QED
      BY <2>1, <3>2
  <2>4. SubSeq(d, 1, u) \in Seq(Byte) /\ Len(SubSeq(d, 1, u)) = u
    <3>1. u \in Int /\ 1 \in Int /\ \A i \in 1..u : d[i] \in Byte
      BY <1>1, <2>1
    <3>2. /\ SubSeq(d, 1, u) \in Seq(Byte)
          /\ Len(SubSeq(d, 1, u)) = IF 1 <= u THEN u - 1 + 1 ELSE 0
      BY <3>1, SubSeqProperties
    <3>. QED
      BY <2>1, <3>2
  <2>5. SubSeq(d, 1, u) \o SubSeq(d, u + 1, v) = SubSeq(d, 1, v)
    <3> DEFINE one == 1
    <3>1. one \in 1..(Len(d) + 1) /\ u \in (one - 1)..Len(d) /\ v \in u..Len(d)
      BY <1>1, <2>1
    <3> HIDE DEF one
    <3>2. SubSeq(d, one, u) \o SubSeq(d, u + 1, v) = SubSeq(d, one, v)
      BY <3>1, ConcatAdjacentSubSeq
    <3>. QED
      BY <3>2 DEF one
  <2>6. (k - 1) * g = u /\ u < L /\ u \in Nat
    BY <1>1, <2>1
  <2>7. p[k] \in Seq(Byte) /\ Len(p[k]) \in 1..g /\ Before(d, g, k) = Before(d, g, k - 1) \o p[k]
    BY <2>2, <2>3, <2>5
  <2>8. Before(d, g, k - 1) \in Seq(Byte) /\ Len(Before(d, g, k - 1)) = u
    BY <2>2, <2>4
  <2>. QED
    BY <2>6, <2>7, <2>8
<1>. QED
  BY <1>2, <1>4, <1>5, <1>6, <1>7 DEF n, p

-----------------------------------------------------------------------------
(* The records of ftohex.                                                  *)
RecordSet == [addr : Nat, data : Seq(Byte), chk : Int]

LEMMA SumSteps ==
  ASSUME NEW d \in Seq(Byte)
  PROVE  \E f : /\ f[0] = 0 /\ SumOf(d) = f[Len(d)]
                /\ \A k \in 1..Len(d) : f[k] = f[k - 1] + d[k]
<1> DEFINE n == Len(d)
           D == 1..n
           G == [x \in Int \X D |-> x[1] + d[x[2]]]
           It(c) == c = [s \in SUBSET D |-> IF s = {} THEN 0 ELSE c[s \ {Max(s)}] + d[Max(s)]]
           c == CHOOSE x : It(x)
           f == [k \in 0..n |-> c[1..k]]
<1>1. n \in Nat /\ DOMAIN d = D /\ \A k \in D : d[k] \in Int
  <2>1. n \in Nat /\ DOMAIN d = D /\ \A k \in D : d[k] \in Byte
    BY LenProperties, ElementOfSeq
  <2>2. Byte \subseteq Int
    BY ToolAssumption DEF Byte
  <2>. QED
    BY <2>1, <2>2
<1>2. SumOf(d) = c[D]
  BY <1>1 DEF SumOf, FoldLeft, MapThenFoldSet
<1>3. \E x : It(x)
  <2>1. G \in [Int \X D -> Int]
    BY <1>1
  <2>2. 0 \in Int
    OBVIOUS
  <2>3. \A x \in Int, k \in D : G[<<x, k>>] = x + d[k]
    OBVIOUS
  <2> HIDE DEF G
  <2>4. PICK it \in [SUBSET D -> Int] : Folding(n, 0, G, it)
    BY <1>1, <2>1, <2>2, FoldRecursion
  <2>5. ASSUME NEW s \in SUBSET D, s # {}
        PROVE  it[s] = it[s \ {Max(s)}] + d[Max(s)]
    <3>1. Max(s) \in s
      BY <1>1, <2>5, MaxFacts
    <3>2. it[s \ {Max(s)}] \in Int /\ Max(s) \in D
      BY <3>1
    <3>3. it[s] = G[<<it[s \ {Max(s)}], Max(s)>>]
      BY <2>4, <2>5 DEF Folding
    <3>. QED
      BY <2>3, <3>2, <3>3
  <2>6. it[{}] = 0
    BY <2>4 DEF Folding
  <2>7. It(it)
    BY <2>5, <2>6
  <2>. QED
    BY <2>7
<1>4. It(c)
  BY <1>3, Zenon
<1> HIDE DEF c
<1>5. c[{}] = 0
  BY <1>4
<1>6. ASSUME NEW k \in D
      PROVE  c[1..k] = c[1..(k - 1)] + d[k]
  <2>1. k \in Nat \ {0} /\ 1..k \in SUBSET D
    BY <1>1
  <2>2. Max(1..k) = k /\ (1..k) \ {k} = 1..(k - 1) /\ 1..k # {}
    BY <2>1, FirstNumbers
  <2>. QED
    BY <1>4, <2>1, <2>2
<1>7. f[0] = 0 /\ f[n] = c[D]
  <2>1. 1..0 = {} /\ 0 \in 0..n /\ n \in 0..n
    BY <1>1
  <2>. QED
    BY <1>5, <2>1
<1>8. \A k \in D : f[k] = f[k - 1] + d[k]
  <2>1. \A k \in D : k \in 0..n /\ k - 1 \in 0..n
    BY <1>1
  <2>. QED
    BY <1>6, <2>1
<1> HIDE DEF f
<1>. QED
  BY <1>2, <1>7, <1>8

LEMMA SumType ==
  ASSUME NEW d \in Seq(Byte)
  PROVE  SumOf(d) \in Int
<1>1. Len(d) \in Nat /\ \A k \in 1..Len(d) : d[k] \in Byte
  BY LenProperties, ElementOfSeq
<1>2. PICK f : f[0] = 0 /\ SumOf(d) = f[Len(d)] /\ \A k \in 1..Len(d) : f[k] = f[k - 1] + d[k]
  BY SumSteps
<1> DEFINE T == {k \in Nat : f[k] \in Int}
<1>3. 0 \in T
  BY <1>2
<1>4. ASSUME NEW k \in 0..(Len(d) - 1), k \in T
      PROVE  k + 1 \in T
  <2>1. k + 1 \in 1..Len(d) /\ (k + 1) - 1 = k /\ k + 1 \in Nat
    BY <1>1
  <2>2. d[k + 1] \in Int /\ f[k + 1] = f[k] + d[k + 1]
    <3>1. Byte \subseteq Int
      BY ToolAssumption DEF Byte
    <3>. QED
      BY <1>1, <1>2, <2>1, <3>1
  <2>. QED
    BY <1>4, <2>1, <2>2
<1> HIDE DEF T
<1>5. 0..Len(d) \subseteq T
  BY <1>1, <1>3, <1>4, Upto
<1>. QED
  BY <1>1, <1>2, <1>5 DEF T

(* The checksum makes the sum of a record 0.                               *)
LEMMA RecordFacts ==
  ASSUME NEW a \in Nat, NEW d \in Seq(Byte)
  PROVE  /\ Record(a, d) \in RecordSet
         /\ Record(a, d).addr = a /\ Record(a, d).data = d
         /\ Len(d) \in 1..PERLINE => Accepted(Record(a, d))
<1> DEFINE p == a \div Radix
           t == a % Radix
           sum == SumOf(d)
           z == Len(d) + p + t + sum
           chk == (-z) % Radix
           q == (-z) \div Radix
<1>1. Radix \in Nat \ {0} /\ Len(d) \in Int /\ sum \in Int
  BY ToolAssumption, LenProperties, SumType
<1>2. p \in Int /\ t \in Int /\ a = Radix * p + t
  BY <1>1
<1>3. Record(a, d) = [addr |-> a, data |-> d, chk |-> chk]
  BY Zenon DEF Record
<1>4. z = Len(d) + p + t + sum
  OBVIOUS
<1> HIDE DEF p, t, sum, z
<1>5. z \in Int
  BY <1>1, <1>2, <1>4
<1>6. q \in Int /\ chk \in Int /\ -z = Radix * q + chk
  BY <1>1, <1>5
<1> HIDE DEF chk, q
<1>7. Record(a, d) \in RecordSet
  BY <1>3, <1>6 DEF RecordSet
<1>8. ASSUME Len(d) \in 1..PERLINE
      PROVE  Accepted(Record(a, d))
  <2> DEFINE w == Len(d) + p + a + sum + chk
  <2>1. w \in Int /\ w = Radix * (p - q) + 0
    <3>1. w = Radix * p - Radix * q
      BY <1>1, <1>2, <1>4, <1>6
    <3>2. Radix * (p - q) = Radix * p - Radix * q
      BY <1>1, <1>2, <1>6
    <3>3. w \in Int
      BY <1>1, <1>2, <1>6
    <3>. QED
      BY <1>1, <3>1, <3>2, <3>3
  <2>2. p - q \in Int /\ 0 \in 0..(Radix - 1)
    BY <1>1, <1>2, <1>6
  <2> HIDE DEF w
  <2>3. w % Radix = 0
    BY <1>1, <2>1, <2>2, Remainder
  <2>4. (Len(d) + (a \div Radix) + a + SumOf(d) + chk) % Radix = 0
    BY <2>3 DEF w, p, sum
  <2>. QED
    BY <1>3, <1>8, <2>4 DEF Accepted
<1>. QED
  BY <1>3, <1>7, <1>8

-----------------------------------------------------------------------------
(* Loading records, one by one, into a memory m.                           *)
LEMMA RecordSteps ==
  ASSUME NEW m \in Memories, NEW rs \in Seq(RecordSet)
  PROVE  \E f : /\ f[0] = m /\ FoldLeft(LoadRecord, m, rs) = f[Len(rs)]
                /\ \A k \in 1..Len(rs) : f[k] = LoadRecord(f[k - 1], rs[k])
<1> DEFINE n == Len(rs)
           D == 1..n
           G == [x \in Memories \X D |-> LoadRecord(x[1], rs[x[2]])]
           It(c) == c = [s \in SUBSET D |-> IF s = {} THEN m ELSE LoadRecord(c[s \ {Max(s)}], rs[Max(s)])]
           c == CHOOSE x : It(x)
           f == [k \in 0..n |-> c[1..k]]
<1>1. n \in Nat /\ DOMAIN rs = D /\ \A k \in D : rs[k] \in RecordSet
  BY LenProperties, ElementOfSeq
<1>2. FoldLeft(LoadRecord, m, rs) = c[D]
  BY <1>1 DEF FoldLeft, MapThenFoldSet
<1>3. \E x : It(x)
  <2>1. G \in [Memories \X D -> Memories]
    <3> SUFFICES ASSUME NEW x \in Memories \X D
                 PROVE  LoadRecord(x[1], rs[x[2]]) \in Memories
      OBVIOUS
    <3>1. x[1] \in Memories /\ rs[x[2]].addr \in Int /\ rs[x[2]].data \in Seq(Byte)
      BY <1>1 DEF RecordSet
    <3>. QED
      BY <3>1, LayFacts DEF LoadRecord
  <2>3. \A x \in Memories, k \in D : G[<<x, k>>] = LoadRecord(x, rs[k])
    OBVIOUS
  <2> HIDE DEF G
  <2>4. PICK it \in [SUBSET D -> Memories] : Folding(n, m, G, it)
    BY <1>1, <2>1, FoldRecursion
  <2>5. ASSUME NEW s \in SUBSET D, s # {}
        PROVE  it[s] = LoadRecord(it[s \ {Max(s)}], rs[Max(s)])
    <3>1. Max(s) \in s
      BY <1>1, <2>5, MaxFacts
    <3>2. it[s \ {Max(s)}] \in Memories /\ Max(s) \in D
      BY <3>1
    <3>3. it[s] = G[<<it[s \ {Max(s)}], Max(s)>>]
      BY <2>4, <2>5 DEF Folding
    <3>. QED
      BY <2>3, <3>2, <3>3
  <2>6. it[{}] = m
    BY <2>4 DEF Folding
  <2>7. It(it)
    BY <2>5, <2>6
  <2>. QED
    BY <2>7
<1>4. It(c)
  BY <1>3, Zenon
<1> HIDE DEF c
<1>5. c[{}] = m
  BY <1>4
<1>6. ASSUME NEW k \in D
      PROVE  c[1..k] = LoadRecord(c[1..(k - 1)], rs[k])
  <2>1. k \in Nat \ {0} /\ 1..k \in SUBSET D
    BY <1>1
  <2>2. Max(1..k) = k /\ (1..k) \ {k} = 1..(k - 1) /\ 1..k # {}
    BY <2>1, FirstNumbers
  <2>. QED
    BY <1>4, <2>1, <2>2
<1>7. f[0] = m /\ f[n] = c[D]
  <2>1. 1..0 = {} /\ 0 \in 0..n /\ n \in 0..n
    BY <1>1
  <2>. QED
    BY <1>5, <2>1
<1>8. \A k \in D : f[k] = LoadRecord(f[k - 1], rs[k])
  <2>1. \A k \in D : k \in 0..n /\ k - 1 \in 0..n
    BY <1>1
  <2>. QED
    BY <1>6, <2>1
<1> HIDE DEF f
<1>. QED
  BY <1>2, <1>7, <1>8

(* Records one after the other, loaded one after the other.                *)
LEMMA RecordsJoin ==
  ASSUME NEW m \in Memories, NEW rs \in Seq(RecordSet), NEW ts \in Seq(RecordSet),
         NEW l \in Memories, l = FoldLeft(LoadRecord, m, rs)
  PROVE  FoldLeft(LoadRecord, m, rs \o ts) = FoldLeft(LoadRecord, l, ts)
<1> DEFINE us == rs \o ts
           n == Len(rs)
           w == Len(ts)
<1>1. n \in Nat /\ w \in Nat
  BY LenProperties
<1>2. /\ us \in Seq(RecordSet) /\ Len(us) = n + w
      /\ \A k \in 1..(n + w) : us[k] = IF k <= n THEN rs[k] ELSE ts[k - n]
  BY ConcatProperties
<1> HIDE DEF us
<1>3. PICK f : /\ f[0] = m /\ FoldLeft(LoadRecord, m, rs) = f[n]
               /\ \A k \in 1..n : f[k] = LoadRecord(f[k - 1], rs[k])
  BY RecordSteps
<1>4. PICK g : /\ g[0] = l /\ FoldLeft(LoadRecord, l, ts) = g[w]
               /\ \A k \in 1..w : g[k] = LoadRecord(g[k - 1], ts[k])
  BY RecordSteps
<1>5. PICK h : /\ h[0] = m /\ FoldLeft(LoadRecord, m, us) = h[Len(us)]
               /\ \A k \in 1..Len(us) : h[k] = LoadRecord(h[k - 1], us[k])
  BY <1>2, RecordSteps
<1> HIDE DEF n, w
<1> DEFINE T == {k \in Nat : h[k] = f[k]}
<1>6. 0..n \subseteq T
  <2>1. 0 \in T
    BY <1>3, <1>5
  <2>2. ASSUME NEW k \in 0..(n - 1), k \in T
        PROVE  k + 1 \in T
    <3>1. k + 1 \in 1..n /\ k + 1 \in 1..(n + w) /\ k + 1 <= n /\ (k + 1) - 1 = k /\ h[k] = f[k] /\ k + 1 \in Nat
      BY <1>1, <2>2
    <3>2. f[k + 1] = LoadRecord(f[k], rs[k + 1]) /\ h[k + 1] = LoadRecord(h[k], us[k + 1])
      BY <1>2, <1>3, <1>5, <3>1
    <3>. QED
      BY <1>2, <3>1, <3>2
  <2> HIDE DEF T
  <2>. QED
    BY <1>1, <2>1, <2>2, Upto
<1>7. h[n] = l
  BY <1>1, <1>3, <1>6
<1> DEFINE U == {k \in Nat : h[n + k] = g[k]}
<1>8. 0..w \subseteq U
  <2>1. 0 \in U
    <3>1. n + 0 = n
      BY <1>1
    <3>. QED
      BY <1>4, <1>7, <3>1
  <2>2. ASSUME NEW k \in 0..(w - 1), k \in U
        PROVE  k + 1 \in U
    <3>1. /\ k + 1 \in 1..w /\ n + (k + 1) \in 1..(n + w) /\ ~(n + (k + 1) <= n) /\ (k + 1) - 1 = k
          /\ h[n + k] = g[k] /\ k + 1 \in Nat /\ (n + (k + 1)) - 1 = n + k /\ (n + (k + 1)) - n = k + 1
      BY <1>1, <2>2
    <3>2. g[k + 1] = LoadRecord(g[k], ts[k + 1]) /\ h[n + (k + 1)] = LoadRecord(h[n + k], us[n + (k + 1)])
      BY <1>2, <1>4, <1>5, <3>1
    <3>3. us[n + (k + 1)] = ts[k + 1]
      BY <1>2, <3>1
    <3>. QED
      BY <3>1, <3>2, <3>3
  <2> HIDE DEF U
  <2>. QED
    BY <1>1, <2>1, <2>2, Upto
<1>9. h[n + w] = g[w]
  BY <1>1, <1>8
<1>. QED
  BY <1>2, <1>4, <1>5, <1>9 DEF us

LEMMA RecordsFacts ==
  ASSUME NEW o \in Nat, NEW d \in Seq(Byte)
  PROVE  /\ Records(o, d) \in Seq(RecordSet) /\ Len(Records(o, d)) = Parts(Len(d), PERLINE)
         /\ \A k \in 1..Parts(Len(d), PERLINE) :
              /\ Records(o, d)[k].addr = (o + (k - 1) * PERLINE) % (Radix * Radix)
              /\ Records(o, d)[k].data = Slices(d, PERLINE)[k]
              /\ Accepted(Records(o, d)[k])
<1> DEFINE L == Len(d)
           n == Parts(L, PERLINE)
           p == Slices(d, PERLINE)
           rs == Records(o, d)
           at == [k \in 1..n |-> (o + (k - 1) * PERLINE) % (Radix * Radix)]
<1>1. PERLINE \in Nat \ {0} /\ Radix * Radix \in Nat \ {0}
  BY ToolAssumption
<1>2. n \in Nat /\ \A k \in 1..n : p[k] \in Seq(Byte) /\ Len(p[k]) \in 1..PERLINE
                                   /\ (k - 1) * PERLINE \in Nat
  BY <1>1, SliceFacts
<1>3. rs = [k \in 1..n |-> Record((o + (k - 1) * PERLINE) % (Radix * Radix), p[k])]
  BY DEF Records, Parts, Slices, Edge
<1> HIDE DEF L, n, p, rs
<1>4. ASSUME NEW k \in 1..n
      PROVE  at[k] \in Nat
  <2> DEFINE x == (k - 1) * PERLINE
             rr == Radix * Radix
  <2>1. x \in Nat /\ rr \in Nat \ {0}
    BY <1>1, <1>2
  <2> HIDE DEF x, rr
  <2>2. (o + x) % rr \in Nat
    BY <2>1
  <2>. QED
    BY <2>2 DEF x, rr
<1>5. \A k \in 1..n : rs[k] = Record(at[k], p[k])
  BY <1>3
<1>6. \A k \in 1..n : at[k] = (o + (k - 1) * PERLINE) % (Radix * Radix)
  OBVIOUS
<1> HIDE DEF at
<1>7. ASSUME NEW k \in 1..n
      PROVE  /\ rs[k] \in RecordSet /\ rs[k].addr = at[k] /\ rs[k].data = p[k] /\ Accepted(rs[k])
  <2> DEFINE b == at[k]
  <2>1. rs[k] = Record(b, p[k]) /\ b \in Nat
    BY <1>4, <1>5
  <2> HIDE DEF b
  <2>2. p[k] \in Seq(Byte) /\ Len(p[k]) \in 1..PERLINE
    BY <1>2
  <2>3. /\ Record(b, p[k]) \in RecordSet
        /\ Record(b, p[k]).addr = b /\ Record(b, p[k]).data = p[k]
        /\ Accepted(Record(b, p[k]))
    BY <2>1, <2>2, RecordFacts
  <2>. QED
    BY <2>1, <2>3 DEF b
<1>8. rs \in Seq(RecordSet) /\ Len(rs) = n
  <2>1. DOMAIN rs = 1..n
    BY <1>3
  <2>2. rs = [k \in 1..n |-> rs[k]]
    BY <1>3
  <2>3. rs \in [1..n -> RecordSet]
    BY <1>7, <2>2
  <2>. QED
    BY <1>2, <2>1, <2>3, LenProperties
<1>. QED
  BY <1>6, <1>7, <1>8 DEF rs, n, p, L

(* The records of a block of memory, loaded, lay down the block.           *)
LEMMA RecordsLay ==
  ASSUME NEW m \in Memories, NEW o \in Nat, NEW d \in Seq(Byte),
         d # <<>> => o + Len(d) <= Radix * Radix
  PROVE  FoldLeft(LoadRecord, m, Records(o, d)) = Lay(m, o, d)
<1> DEFINE L == Len(d)
           n == Parts(L, PERLINE)
           p == Slices(d, PERLINE)
           rs == Records(o, d)
<1>1. L \in Nat /\ PERLINE \in Nat \ {0} /\ Radix * Radix \in Nat \ {0}
  BY LenProperties, ToolAssumption
<1>2. /\ n \in Nat /\ Before(d, PERLINE, 0) = <<>> /\ Before(d, PERLINE, n) = d
      /\ \A k \in 1..n : /\ p[k] \in Seq(Byte) /\ Len(p[k]) \in 1..PERLINE
                         /\ Before(d, PERLINE, k - 1) \in Seq(Byte)
                         /\ Before(d, PERLINE, k) = Before(d, PERLINE, k - 1) \o p[k]
                         /\ Len(Before(d, PERLINE, k - 1)) = (k - 1) * PERLINE
                         /\ (k - 1) * PERLINE \in Nat /\ (k - 1) * PERLINE < L
  BY <1>1, SliceFacts
<1>3. /\ rs \in Seq(RecordSet) /\ Len(rs) = n
      /\ \A k \in 1..n : /\ rs[k].addr = (o + (k - 1) * PERLINE) % (Radix * Radix)
                         /\ rs[k].data = p[k]
  BY RecordsFacts
<1>4. L > 0 => o + L <= Radix * Radix
  <2>1. d = <<>> => L = 0
    BY EmptySeq
  <2>. QED
    BY <1>1, <2>1
<1> HIDE DEF L, n, p, rs
<1>5. ASSUME NEW k \in 1..n
      PROVE  rs[k].addr = o + (k - 1) * PERLINE
  <2> DEFINE x == (k - 1) * PERLINE
             rr == Radix * Radix
  <2>1. x \in Nat /\ x < L
    BY <1>2
  <2>2. rs[k].addr = (o + x) % rr
    BY <1>3
  <2> HIDE DEF x, rr
  <2>3. rr \in Nat \ {0} /\ (L > 0 => o + L <= rr)
    BY <1>1, <1>4 DEF rr
  <2>4. o + x \in Int /\ 0 <= o + x /\ o + x < rr
    BY <1>1, <2>1, <2>3
  <2>5. (o + x) % rr = o + x
    BY <2>3, <2>4, SmallRemainder
  <2>. QED
    BY <2>2, <2>5 DEF x
<1>8. PICK f : /\ f[0] = m /\ FoldLeft(LoadRecord, m, rs) = f[Len(rs)]
               /\ \A k \in 1..Len(rs) : f[k] = LoadRecord(f[k - 1], rs[k])
  BY <1>3, RecordSteps
<1> DEFINE T == {k \in Nat : f[k] = Lay(m, o, Before(d, PERLINE, k))}
<1>9. 0..n \subseteq T
  <2>1. 0 \in T
    <3>1. o \in Int
      OBVIOUS
    <3>2. Lay(m, o, <<>>) = m
      BY <3>1, LayNothing
    <3>. QED
      BY <1>2, <1>8, <3>2
  <2>2. ASSUME NEW k \in 0..(n - 1), k \in T
        PROVE  k + 1 \in T
    <3> DEFINE j == k + 1
               b == Before(d, PERLINE, k)
    <3>1. j \in 1..n /\ j - 1 = k /\ j \in Nat
      BY <1>2
    <3> HIDE DEF j
    <3>2. /\ p[j] \in Seq(Byte) /\ b \in Seq(Byte) /\ Before(d, PERLINE, j) = b \o p[j]
          /\ Len(b) = k * PERLINE /\ rs[j].addr = o + k * PERLINE /\ rs[j].data = p[j]
      <4>1. /\ p[j] \in Seq(Byte) /\ Before(d, PERLINE, j - 1) \in Seq(Byte)
            /\ Before(d, PERLINE, j) = Before(d, PERLINE, j - 1) \o p[j]
            /\ Len(Before(d, PERLINE, j - 1)) = (j - 1) * PERLINE
        BY <1>2, <3>1
      <4>2. rs[j].addr = o + (j - 1) * PERLINE /\ rs[j].data = p[j]
        BY <1>3, <1>5, <3>1
      <4>. QED
        BY <3>1, <4>1, <4>2
    <3>3. f[j] = Lay(f[k], rs[j].addr, rs[j].data)
      BY <1>3, <1>8, <3>1 DEF LoadRecord
    <3> HIDE DEF b
    <3>4. f[k] = Lay(m, o, b) /\ o \in Int
      BY <2>2 DEF b
    <3>5. Lay(Lay(m, o, b), o + Len(b), p[j]) = Lay(m, o, b \o p[j])
      BY <3>2, <3>4, LayTwice
    <3>6. f[j] = Lay(m, o, Before(d, PERLINE, j))
      BY <3>2, <3>3, <3>4, <3>5
    <3>. QED
      BY <3>1, <3>6 DEF j
  <2> HIDE DEF T
  <2>. QED
    BY <1>2, <2>1, <2>2, Upto
<1>10. f[n] = Lay(m, o, d)
  BY <1>2, <1>9
<1>. QED
  BY <1>3, <1>8, <1>10 DEF rs

-----------------------------------------------------------------------------
(* ftohex on a file of hunks.                                              *)
HexSet == [records : Seq(RecordSet), status : Int]
NoRecords == [records |-> <<>>, status |-> 1]
HexList(f, h) ==
  h = [i \in 1..(Len(f) + 1) |->
         IF WordThere(f, i) /\ Complete(f, i)
         THEN LET k == HunkAt(f, i)
                  rest == h[After(f, i)]
              IN  [rest EXCEPT !.records = Records(k.org, k.data) \o @]
         ELSE [records |-> <<>>, status |-> 1]]
HexChain(f, h) ==
  \A i \in 1..(Len(f) + 1) :
    /\ h[i] \in HexSet
    /\ Complete(f, i) =>
         h[i].records = Records(HunkAt(f, i).org, HunkAt(f, i).data) \o h[After(f, i)].records
    /\ ~Complete(f, i) => h[i].records = <<>>

LEMMA HexExists ==
  ASSUME NEW f \in Seq(Byte)
  PROVE  \E h : HexHunks(f) = h[1] /\ HexChain(f, h)
<1> DEFINE n == Len(f)
           E == {i \in 1..(n + 1) : ~Complete(f, i)}
           J == [i \in 1..(n + 1) |-> IF i \in E THEN 0 ELSE After(f, i)]
           R == [i \in 1..(n + 1) |-> IF i \in E THEN <<>> ELSE Records(HunkAt(f, i).org, HunkAt(f, i).data)]
           G == [x \in (1..(n + 1)) \X HexSet |->
                   [x[2] EXCEPT !.records = R[x[1]] \o @]]
           c == CHOOSE h : HexList(f, h)
<1>1. n \in Nat
  BY LenProperties
<1>2. ASSUME NEW i \in 1..(n + 1), Complete(f, i)
      PROVE  HunkAt(f, i) \in HunkSet /\ After(f, i) \in (i + 1)..(n + 1) /\ WordThere(f, i)
  <2>1. HunkAt(f, i) \in HunkSet /\ After(f, i) \in (i + 1)..(n + 1)
    BY <1>2, HunkFacts
  <2>2. i + 3 <= n
    BY <1>2 DEF Complete
  <2>3. i + 1 <= n
    BY <1>1, <2>2
  <2>. QED
    BY <2>1, <2>3 DEF WordThere
<1>3. n + 1 \in E
  <2>1. ~((n + 1) + 3 <= n)
    BY <1>1
  <2>2. ~Complete(f, n + 1)
    BY <2>1 DEF Complete
  <2>. QED
    BY <1>1, <2>2
<1>4. \A i \in 1..(n + 1) : i \in E <=> ~Complete(f, i)
  OBVIOUS
<1> HIDE DEF E
<1>5. Jumps(n, E, J)
  <2>1. \A i \in 1..(n + 1) : i \notin E => J[i] \in (i + 1)..(n + 1)
    BY <1>2, <1>4
  <2>2. J \in [1..(n + 1) -> Int]
    <3>1. \A i \in 1..(n + 1) : (IF i \in E THEN 0 ELSE After(f, i)) \in Int
      <4> SUFFICES ASSUME NEW i \in 1..(n + 1), i \notin E PROVE After(f, i) \in Int
        OBVIOUS
      <4>1. After(f, i) \in (i + 1)..(n + 1) /\ i \in Int
        BY <1>2, <1>4
      <4>. QED
        BY <1>1, <4>1
    <3>. QED
      BY <3>1
  <2> HIDE DEF J
  <2>. QED
    BY <1>3, <2>1, <2>2 DEF Jumps
<1>6. ASSUME NEW i \in 1..(n + 1), i \notin E
      PROVE  J[i] = After(f, i) /\ R[i] = Records(HunkAt(f, i).org, HunkAt(f, i).data)
  BY <1>6
<1>7. \A i \in 1..(n + 1) : R[i] \in Seq(RecordSet)
  <2> SUFFICES ASSUME NEW i \in 1..(n + 1) PROVE R[i] \in Seq(RecordSet)
    OBVIOUS
  <2>1. CASE i \in E
    <3>1. R[i] = <<>>
      BY <2>1
    <3>2. <<>> \in Seq(RecordSet)
      BY EmptySeq
    <3>. QED
      BY <3>1, <3>2
  <2>2. CASE i \notin E
    <3>1. HunkAt(f, i).org \in Nat /\ HunkAt(f, i).data \in Seq(Byte)
      BY <1>2, <1>4, <2>2 DEF HunkSet
    <3>2. Records(HunkAt(f, i).org, HunkAt(f, i).data) \in Seq(RecordSet)
      BY <3>1, RecordsFacts
    <3>. QED
      BY <1>6, <2>2, <3>2
  <2>. QED
    BY <2>1, <2>2
<1> HIDE DEF J, R
<1>8. NoRecords \in HexSet
  <2>1. <<>> \in Seq(RecordSet)
    BY EmptySeq
  <2>. QED
    BY <2>1 DEF NoRecords, HexSet
<1>9. ASSUME NEW i \in 1..(n + 1), NEW v \in HexSet
      PROVE  /\ [v EXCEPT !.records = R[i] \o @] \in HexSet
             /\ [v EXCEPT !.records = R[i] \o @].records = R[i] \o v.records
  <2>1. R[i] \in Seq(RecordSet) /\ v.records \in Seq(RecordSet)
    BY <1>7 DEF HexSet
  <2>2. R[i] \o v.records \in Seq(RecordSet)
    BY <2>1, ConcatProperties
  <2> DEFINE r == R[i] \o v.records
  <2> HIDE DEF r
  <2>3. [v EXCEPT !.records = r] \in HexSet /\ [v EXCEPT !.records = r].records = r
    BY <2>2 DEF HexSet, r
  <2>. QED
    BY <2>3 DEF r
<1>10. G \in [(1..(n + 1)) \X HexSet -> HexSet]
  <2> SUFFICES ASSUME NEW x \in (1..(n + 1)) \X HexSet
               PROVE  [x[2] EXCEPT !.records = R[x[1]] \o @] \in HexSet
    BY Zenon
  <2>1. x[1] \in 1..(n + 1) /\ x[2] \in HexSet
    OBVIOUS
  <2>. QED
    BY <1>9, <2>1
<1>11. \A i \in 1..(n + 1), v \in HexSet : G[<<i, v>>] = [v EXCEPT !.records = R[i] \o @]
  OBVIOUS
<1> HIDE DEF G
<1>12. \E h : HexList(f, h)
  <2>1. PICK h \in [1..(n + 1) -> HexSet] : Jumping(n, E, J, NoRecords, G, h)
    BY <1>1, <1>5, <1>8, <1>10, JumpRecursion
  <2>2. ASSUME NEW i \in 1..(n + 1)
        PROVE  h[i] = IF WordThere(f, i) /\ Complete(f, i)
                      THEN [h[After(f, i)] EXCEPT !.records =
                              Records(HunkAt(f, i).org, HunkAt(f, i).data) \o @]
                      ELSE [records |-> <<>>, status |-> 1]
    <3>1. h[i] = IF i \in E THEN NoRecords ELSE G[<<i, h[J[i]]>>]
      BY <2>1 DEF Jumping
    <3>2. CASE i \in E
      BY <1>4, <3>1, <3>2 DEF NoRecords
    <3>3. CASE i \notin E
      <4>1. /\ J[i] = After(f, i) /\ R[i] = Records(HunkAt(f, i).org, HunkAt(f, i).data)
            /\ WordThere(f, i) /\ Complete(f, i) /\ After(f, i) \in (i + 1)..(n + 1)
        BY <1>2, <1>4, <1>6, <3>3
      <4>2. After(f, i) \in 1..(n + 1)
        BY <1>1, <4>1
      <4>3. h[After(f, i)] \in HexSet
        BY <2>1, <4>2
      <4>4. G[<<i, h[After(f, i)]>>] = [h[After(f, i)] EXCEPT !.records = R[i] \o @]
        BY <1>11, <4>3
      <4>5. h[i] = [h[After(f, i)] EXCEPT !.records = R[i] \o @]
        BY <3>1, <3>3, <4>1, <4>4
      <4>. QED
        BY <4>1, <4>5
    <3>. QED
      BY <3>2, <3>3
  <2>3. h = [i \in 1..(n + 1) |->
               IF WordThere(f, i) /\ Complete(f, i)
               THEN [h[After(f, i)] EXCEPT !.records =
                       Records(HunkAt(f, i).org, HunkAt(f, i).data) \o @]
               ELSE [records |-> <<>>, status |-> 1]]
    BY <2>1, <2>2
  <2>4. HexList(f, h)
    BY <2>3 DEF HexList
  <2>. QED
    BY <2>4
<1>13. HexList(f, c)
  BY <1>12, Zenon
<1>14. HexHunks(f) = c[1]
  BY DEF HexHunks, HexList
<1> HIDE DEF c
<1>15. \A i \in 1..(n + 1) :
         c[i] = IF WordThere(f, i) /\ Complete(f, i)
                THEN [c[After(f, i)] EXCEPT !.records =
                        Records(HunkAt(f, i).org, HunkAt(f, i).data) \o @]
                ELSE [records |-> <<>>, status |-> 1]
  BY <1>13 DEF HexList
<1> DEFINE U == {k \in Nat : k <= n => \A i \in (n + 1 - k)..(n + 1) : c[i] \in HexSet}
<1>16. n \in U
  <2>1. 0 \in U
    <3>1. \A i \in (n + 1 - 0)..(n + 1) : i = n + 1
      BY <1>1
    <3>2. c[n + 1] = [records |-> <<>>, status |-> 1]
      <4>1. n + 1 \in 1..(n + 1)
        BY <1>1
      <4>2. ~Complete(f, n + 1)
        BY <1>3, <1>4, <4>1
      <4>. QED
        BY <1>15, <4>1, <4>2
    <3>3. c[n + 1] \in HexSet
      BY <1>8, <3>2 DEF NoRecords
    <3>. QED
      BY <3>1, <3>3
  <2>2. ASSUME NEW k \in Nat, k \in U
        PROVE  k + 1 \in U
    <3> SUFFICES ASSUME k + 1 <= n, NEW i \in (n + 1 - (k + 1))..(n + 1)
                 PROVE  c[i] \in HexSet
      OBVIOUS
    <3>1. \A j \in (n + 1 - k)..(n + 1) : c[j] \in HexSet
      BY <1>1, <2>2
    <3>2. i \in 1..(n + 1)
      BY <1>1
    <3>3. CASE i \in E
      <4>1. c[i] = [records |-> <<>>, status |-> 1]
        BY <1>4, <1>15, <3>2, <3>3
      <4>. QED
        BY <1>8, <4>1 DEF NoRecords
    <3>4. CASE i \notin E
      <4>1. /\ R[i] = Records(HunkAt(f, i).org, HunkAt(f, i).data)
            /\ WordThere(f, i) /\ Complete(f, i) /\ After(f, i) \in (i + 1)..(n + 1)
        BY <1>2, <1>4, <1>6, <3>2, <3>4
      <4>2. After(f, i) \in (n + 1 - k)..(n + 1)
        BY <1>1, <3>2, <4>1
      <4>3. c[After(f, i)] \in HexSet
        BY <3>1, <4>2
      <4>4. c[i] = [c[After(f, i)] EXCEPT !.records = R[i] \o @]
        BY <1>15, <3>2, <4>1
      <4>. QED
        BY <1>9, <3>2, <4>3, <4>4
    <3>. QED
      BY <3>3, <3>4
  <2> HIDE DEF U
  <2>3. Nat \subseteq U
    BY <2>1, <2>2, SetInduction
  <2>. QED
    BY <1>1, <2>3
<1>17. \A i \in 1..(n + 1) : c[i] \in HexSet
  BY <1>1, <1>16
<1>18. ASSUME NEW i \in 1..(n + 1), Complete(f, i)
       PROVE  c[i].records = Records(HunkAt(f, i).org, HunkAt(f, i).data) \o c[After(f, i)].records
  <2>1. /\ R[i] = Records(HunkAt(f, i).org, HunkAt(f, i).data)
        /\ WordThere(f, i) /\ Complete(f, i) /\ After(f, i) \in (i + 1)..(n + 1)
    BY <1>2, <1>4, <1>6, <1>18
  <2>2. c[After(f, i)] \in HexSet
    BY <1>1, <1>17, <2>1
  <2>3. c[i] = [c[After(f, i)] EXCEPT !.records = R[i] \o @]
    BY <1>15, <2>1
  <2>4. [c[After(f, i)] EXCEPT !.records = R[i] \o @].records = R[i] \o c[After(f, i)].records
    BY <1>9, <2>2
  <2>. QED
    BY <2>1, <2>3, <2>4
<1>19. ASSUME NEW i \in 1..(n + 1), ~Complete(f, i)
       PROVE  c[i].records = <<>>
  <2>1. c[i] = [records |-> <<>>, status |-> 1]
    BY <1>15, <1>19
  <2>. QED
    BY <2>1
<1>. QED
  BY <1>14, <1>17, <1>18, <1>19 DEF HexChain

(* The first of some hunks, loaded first.                                  *)
LEMMA LoadFirst ==
  ASSUME NEW m \in Memories, NEW h \in HunkSet, NEW hs \in Seq(HunkSet)
  PROVE  FoldLeft(Load, m, <<h>> \o hs) = FoldLeft(Load, Load(m, h), hs)
<1> DEFINE gs == <<h>> \o hs
           n == Len(hs)
           l == Load(m, h)
<1>1. n \in Nat
  BY LenProperties
<1>2. /\ gs \in Seq(HunkSet) /\ Len(gs) = n + 1 /\ gs[1] = h
      /\ \A k \in 1..n : gs[k + 1] = hs[k]
  <2> DEFINE p == <<h>>
  <2>1. p \in Seq(HunkSet) /\ Len(p) = 1 /\ p[1] = h
    OBVIOUS
  <2> HIDE DEF p
  <2>2. /\ p \o hs \in Seq(HunkSet) /\ Len(p \o hs) = Len(p) + n
        /\ \A k \in 1..(Len(p) + n) : (p \o hs)[k] = IF k <= Len(p) THEN p[k] ELSE hs[k - Len(p)]
    BY <2>1, ConcatProperties
  <2> DEFINE w == p \o hs
  <2> HIDE DEF w
  <2>3. w \in Seq(HunkSet) /\ Len(w) = n + 1 /\ \A k \in 1..(1 + n) : w[k] = IF k <= 1 THEN p[k] ELSE hs[k - 1]
    BY <1>1, <2>1, <2>2 DEF w
  <2> HIDE DEF n
  <2>4. \A k \in 1..n : k + 1 \in 1..(1 + n) /\ ~(k + 1 <= 1) /\ (k + 1) - 1 = k
    BY <1>1
  <2>5. w[1] = h /\ \A k \in 1..n : w[k + 1] = hs[k]
    BY <1>1, <2>1, <2>3, <2>4
  <2>. QED
    BY <2>3, <2>5 DEF w, p
<1>3. l \in Memories
  <2>1. h.org \in Int /\ h.data \in Seq(Byte)
    BY DEF HunkSet
  <2>. QED
    BY <2>1, LayFacts DEF Load
<1> HIDE DEF gs
<1>4. PICK f : /\ f[0] = l /\ FoldLeft(Load, l, hs) = f[n]
               /\ \A k \in 1..n : f[k] = Load(f[k - 1], hs[k])
  BY <1>3, LoadsFrom
<1>5. PICK g : /\ g[0] = m /\ FoldLeft(Load, m, gs) = g[Len(gs)]
               /\ \A k \in 1..Len(gs) : g[k] = Load(g[k - 1], gs[k])
  BY <1>2, LoadsFrom
<1> HIDE DEF n
<1>6. g[1] = l
  <2>1. 1 \in 1..(n + 1) /\ 1 - 1 = 0
    BY <1>1
  <2>2. g[1] = Load(g[1 - 1], gs[1])
    BY <1>2, <1>5, <2>1
  <2>. QED
    BY <1>2, <1>5, <2>1, <2>2
<1> HIDE DEF l
<1> DEFINE T == {k \in Nat : g[k + 1] = f[k]}
<1>7. 0..n \subseteq T
  <2>1. 0 \in T
    <3>1. 0 + 1 = 1
      OBVIOUS
    <3>. QED
      BY <1>4, <1>6, <3>1
  <2>2. ASSUME NEW k \in 0..(n - 1), k \in T
        PROVE  k + 1 \in T
    <3>1. /\ k + 1 \in 1..n /\ (k + 1) + 1 \in 1..(n + 1) /\ (k + 1) - 1 = k /\ ((k + 1) + 1) - 1 = k + 1
          /\ g[k + 1] = f[k] /\ k + 1 \in Nat
      BY <1>1, <2>2
    <3>2. f[k + 1] = Load(f[k], hs[k + 1]) /\ g[(k + 1) + 1] = Load(g[k + 1], gs[(k + 1) + 1])
      BY <1>2, <1>4, <1>5, <3>1
    <3>3. gs[(k + 1) + 1] = hs[k + 1]
      BY <1>2, <3>1
    <3>. QED
      BY <3>1, <3>2, <3>3
  <2> HIDE DEF T
  <2>. QED
    BY <1>1, <2>1, <2>2, Upto
<1>8. g[n + 1] = f[n]
  BY <1>1, <1>7
<1>. QED
  BY <1>2, <1>4, <1>5, <1>8 DEF gs, l

LEMMA NoHunksLoaded ==
  ASSUME NEW m \in Memories
  PROVE  /\ FoldLeft(Load, m, <<>>) = m
         /\ FoldLeft(LoadRecord, m, <<>>) = m
<1>1. <<>> \in Seq(HunkSet) /\ <<>> \in Seq(RecordSet) /\ Len(<<>>) = 0
  BY EmptySeq
<1> DEFINE e == <<>>
<1>2. e \in Seq(HunkSet) /\ e \in Seq(RecordSet) /\ Len(e) = 0
  BY <1>1
<1> HIDE DEF e
<1>3. PICK f : /\ f[0] = m /\ FoldLeft(Load, m, e) = f[Len(e)]
               /\ \A k \in 1..Len(e) : f[k] = Load(f[k - 1], e[k])
  BY <1>2, LoadsFrom
<1>4. PICK g : /\ g[0] = m /\ FoldLeft(LoadRecord, m, e) = g[Len(e)]
               /\ \A k \in 1..Len(e) : g[k] = LoadRecord(g[k - 1], e[k])
  BY <1>2, RecordSteps
<1>. QED
  BY <1>2, <1>3, <1>4 DEF e

(* Hunks that end inside of 16 bits.                                       *)
SmallHunks(hs) == \A k \in 1..Len(hs) : hs[k].data # <<>> => hs[k].org + Len(hs[k].data) <= Radix * Radix

LEMMA HexLoads ==
  ASSUME NEW f \in Seq(Byte)
  PROVE  /\ HexHunks(f).records \in Seq(RecordSet)
         /\ \A k \in 1..Len(HexHunks(f).records) : Accepted(HexHunks(f).records[k])
         /\ SmallHunks(Hunks(f)) =>
              FoldLeft(LoadRecord, <<>>, HexHunks(f).records) = FoldLeft(Load, <<>>, Hunks(f))
<1> DEFINE n == Len(f)
<1>1. n \in Nat
  BY LenProperties
<1>2. PICK c : HexHunks(f) = c[1] /\ HexChain(f, c)
  BY HexExists
<1>3. PICK h : /\ Hunks(f) = h[1] /\ HunkChain(f, h)
               /\ \A i \in 1..(n + 1) : h[i] \in Seq(HunkSet)
  BY HunksExist
<1>4. ASSUME NEW i \in 1..(n + 1)
      PROVE  /\ c[i] \in HexSet /\ c[i].records \in Seq(RecordSet) /\ h[i] \in Seq(HunkSet)
             /\ ~Complete(f, i) => c[i].records = <<>> /\ h[i] = <<>>
             /\ Complete(f, i) => /\ c[i].records = Records(HunkAt(f, i).org, HunkAt(f, i).data) \o c[After(f, i)].records
                                  /\ h[i] = <<HunkAt(f, i)>> \o h[After(f, i)]
  <2>1. c[i] \in HexSet
    BY <1>2 DEF HexChain
  <2>2. c[i].records \in Seq(RecordSet)
    BY <2>1 DEF HexSet
  <2>. QED
    BY <1>2, <1>3, <2>1, <2>2 DEF HexChain, HunkChain
<1> DEFINE Accepts(i) == \A k \in 1..Len(c[i].records) : Accepted(c[i].records[k])
           Loads(i) == SmallHunks(h[i]) =>
             \A m \in Memories : FoldLeft(LoadRecord, m, c[i].records) = FoldLeft(Load, m, h[i])
<1>5. ASSUME NEW i \in 1..(n + 1), ~Complete(f, i)
      PROVE  Accepts(i) /\ Loads(i)
  <2>1. c[i].records = <<>> /\ h[i] = <<>>
    BY <1>4, <1>5
  <2>2. Accepts(i)
    <3>1. Len(<<>>) = 0
      BY EmptySeq
    <3>. QED
      BY <2>1, <3>1
  <2>3. Loads(i)
    BY <2>1, NoHunksLoaded
  <2>. QED
    BY <2>2, <2>3
<1>6. ASSUME NEW i \in 1..(n + 1), Complete(f, i), Accepts(After(f, i)), Loads(After(f, i))
      PROVE  Accepts(i) /\ Loads(i)
  <2> DEFINE j == After(f, i)
             hk == HunkAt(f, i)
             rs == Records(hk.org, hk.data)
             ts == c[j].records
             us == c[i].records
  <2>1. hk \in HunkSet /\ j \in (i + 1)..(n + 1)
    BY <1>6, HunkFacts
  <2>2. j \in 1..(n + 1)
    BY <1>1, <2>1
  <2>3. hk.org \in Nat /\ hk.data \in Seq(Byte)
    BY <2>1 DEF HunkSet
  <2>4. us = rs \o ts /\ h[i] = <<hk>> \o h[j] /\ ts \in Seq(RecordSet) /\ h[j] \in Seq(HunkSet)
    BY <1>4, <1>6, <2>2
  <2>5. rs \in Seq(RecordSet) /\ \A k \in 1..Len(rs) : Accepted(rs[k])
    <3> HIDE DEF hk
    <3>. QED
      BY <2>3, RecordsFacts
  <2>6. Accepts(j) /\ Loads(j)
    BY <1>6
  <2> HIDE DEF j, rs, ts, us, hk
  <2>7. /\ Len(rs) \in Nat /\ Len(ts) \in Nat /\ Len(us) = Len(rs) + Len(ts)
        /\ \A k \in 1..(Len(rs) + Len(ts)) : us[k] = IF k <= Len(rs) THEN rs[k] ELSE ts[k - Len(rs)]
    <3>1. Len(rs) \in Nat /\ Len(ts) \in Nat
      BY <2>4, <2>5, LenProperties
    <3>2. /\ Len(rs \o ts) = Len(rs) + Len(ts)
          /\ \A k \in 1..(Len(rs) + Len(ts)) : (rs \o ts)[k] = IF k <= Len(rs) THEN rs[k] ELSE ts[k - Len(rs)]
      BY <2>4, <2>5, ConcatProperties
    <3>. QED
      BY <2>4, <3>1, <3>2
  <2>8. Accepts(i)
    <3>1. \A k \in 1..Len(ts) : Accepted(ts[k])
      BY <2>6 DEF ts
    <3>2. ASSUME NEW k \in 1..Len(us)
          PROVE  Accepted(us[k])
      <4>1. CASE k <= Len(rs)
        <5>1. k \in 1..Len(rs) /\ us[k] = rs[k]
          BY <2>7, <4>1
        <5>. QED
          BY <2>5, <5>1
      <4>2. CASE ~(k <= Len(rs))
        <5>1. k - Len(rs) \in 1..Len(ts) /\ us[k] = ts[k - Len(rs)]
          BY <2>7, <4>2
        <5>. QED
          BY <3>1, <5>1
      <4>. QED
        BY <4>1, <4>2
    <3>. QED
      BY <3>2 DEF us
  <2>9. Loads(i)
    <3> SUFFICES ASSUME SmallHunks(h[i]), NEW m \in Memories
                 PROVE  FoldLeft(LoadRecord, m, c[i].records) = FoldLeft(Load, m, h[i])
      OBVIOUS
    <3> DEFINE l == Load(m, hk)
    <3>1. /\ hk.data # <<>> => hk.org + Len(hk.data) <= Radix * Radix
          /\ SmallHunks(h[j])
      <4> DEFINE hs == h[j]
                 gs == h[i]
                 p == <<hk>>
      <4>1. hs \in Seq(HunkSet) /\ p \in Seq(HunkSet) /\ Len(p) = 1 /\ p[1] = hk /\ Len(hs) \in Nat
        BY <2>1, <2>4, LenProperties
      <4>2. gs = p \o hs
        BY <2>4
      <4> HIDE DEF hs, gs, p
      <4>3. /\ Len(gs) = 1 + Len(hs)
            /\ \A k \in 1..(1 + Len(hs)) : gs[k] = IF k <= 1 THEN p[k] ELSE hs[k - 1]
        <5>1. /\ Len(p \o hs) = Len(p) + Len(hs)
              /\ \A k \in 1..(Len(p) + Len(hs)) :
                   (p \o hs)[k] = IF k <= Len(p) THEN p[k] ELSE hs[k - Len(p)]
          BY <4>1, ConcatProperties
        <5>. QED
          BY <4>1, <4>2, <5>1
      <4>4. gs[1] = hk /\ 1 \in 1..Len(gs)
        BY <4>1, <4>3
      <4>5. \A k \in 1..Len(hs) : k + 1 \in 1..Len(gs) /\ gs[k + 1] = hs[k]
        BY <4>1, <4>3
      <4>6. SmallHunks(gs)
        BY DEF gs
      <4>7. SmallHunks(hs)
        BY <4>5, <4>6 DEF SmallHunks
      <4>8. hk.data # <<>> => hk.org + Len(hk.data) <= Radix * Radix
        BY <4>4, <4>6 DEF SmallHunks
      <4>. QED
        BY <4>7, <4>8 DEF hs
    <3>2. l = Lay(m, hk.org, hk.data)
      BY DEF Load
    <3>3. l \in Memories
      <4>1. hk.org \in Int
        BY <2>3
      <4>. QED
        BY <2>3, <3>2, <4>1, LayFacts
    <3>4. FoldLeft(LoadRecord, m, rs) = l
      BY <2>3, <3>1, <3>2, RecordsLay DEF rs
    <3> HIDE DEF l
    <3>5. FoldLeft(LoadRecord, m, rs \o ts) = FoldLeft(LoadRecord, l, ts)
      BY <2>4, <2>5, <3>3, <3>4, RecordsJoin
    <3>6. FoldLeft(LoadRecord, l, ts) = FoldLeft(Load, l, h[j])
      BY <2>6, <3>1, <3>3 DEF ts
    <3>7. FoldLeft(Load, m, <<hk>> \o h[j]) = FoldLeft(Load, l, h[j])
      BY <2>1, <2>4, LoadFirst DEF l
    <3>. QED
      BY <2>4, <3>5, <3>6, <3>7 DEF us
  <2>. QED
    BY <2>8, <2>9
<1> HIDE DEF Accepts, Loads
<1> DEFINE T == {k \in Nat : k <= n => \A i \in (n + 1 - k)..(n + 1) : Accepts(i) /\ Loads(i)}
<1>7. n \in T
  <2>1. 0 \in T
    <3>1. \A i \in (n + 1 - 0)..(n + 1) : i = n + 1
      BY <1>1
    <3>2. ~Complete(f, n + 1) /\ n + 1 \in 1..(n + 1)
      <4>1. ~((n + 1) + 3 <= n)
        BY <1>1
      <4>. QED
        BY <1>1, <4>1 DEF Complete
    <3>3. Accepts(n + 1) /\ Loads(n + 1)
      BY <1>5, <3>2
    <3>. QED
      BY <3>1, <3>3
  <2>2. ASSUME NEW k \in Nat, k \in T
        PROVE  k + 1 \in T
    <3> SUFFICES ASSUME k + 1 <= n, NEW i \in (n + 1 - (k + 1))..(n + 1)
                 PROVE  Accepts(i) /\ Loads(i)
      OBVIOUS
    <3>1. \A j \in (n + 1 - k)..(n + 1) : Accepts(j) /\ Loads(j)
      BY <1>1, <2>2
    <3>2. i \in 1..(n + 1)
      BY <1>1
    <3>3. CASE ~Complete(f, i)
      BY <1>5, <3>2, <3>3
    <3>4. CASE Complete(f, i)
      <4>1. After(f, i) \in (i + 1)..(n + 1)
        BY <3>2, <3>4, HunkFacts
      <4>2. After(f, i) \in (n + 1 - k)..(n + 1)
        BY <1>1, <3>2, <4>1
      <4>3. Accepts(After(f, i)) /\ Loads(After(f, i))
        BY <3>1, <4>2
      <4>. QED
        BY <1>6, <3>2, <3>4, <4>3
    <3>. QED
      BY <3>3, <3>4
  <2> HIDE DEF T
  <2>3. Nat \subseteq T
    BY <2>1, <2>2, SetInduction
  <2>. QED
    BY <1>1, <2>3
<1>8. 1 \in (n + 1 - n)..(n + 1) /\ 1 \in 1..(n + 1)
  BY <1>1
<1>9. Accepts(1) /\ Loads(1)
  BY <1>7, <1>8
<1>10. <<>> \in Memories
  BY MemoryFacts
<1>. QED
  BY <1>2, <1>3, <1>4, <1>8, <1>9, <1>10 DEF Accepts, Loads

-----------------------------------------------------------------------------
(* What the file of a pass that is closed is made of.                      *)

(* The memory after k hunks.                                               *)
LEMMA LoadDomains ==
  ASSUME NEW hs \in Seq(HunkSet)
  PROVE  \E f : /\ f[0] = <<>> /\ FoldLeft(Load, <<>>, hs) = f[Len(hs)]
                /\ \A k \in 0..Len(hs) : f[k] \in Memories
                /\ \A k \in 1..Len(hs) :
                     /\ f[k] = Lay(f[k - 1], hs[k].org, hs[k].data)
                     /\ DOMAIN f[k] = DOMAIN f[k - 1] \cup hs[k].org..(EndOf(hs[k]) - 1)
<1> DEFINE n == Len(hs)
<1>1. n \in Nat /\ \A k \in 1..n : hs[k] \in HunkSet
  BY LenProperties, ElementOfSeq
<1>2. PICK f : /\ f[0] = <<>> /\ FoldLeft(Load, <<>>, hs) = f[n]
               /\ \A k \in 1..n : f[k] = Load(f[k - 1], hs[k])
  BY LoadSteps
<1> HIDE DEF n
<1>3. ASSUME NEW k \in 1..n, f[k - 1] \in Memories
      PROVE  /\ f[k] = Lay(f[k - 1], hs[k].org, hs[k].data) /\ f[k] \in Memories
             /\ DOMAIN f[k] = DOMAIN f[k - 1] \cup hs[k].org..(EndOf(hs[k]) - 1)
  <2>1. f[k] = Lay(f[k - 1], hs[k].org, hs[k].data)
    BY <1>2 DEF Load
  <2>2. hs[k].org \in Int /\ hs[k].data \in Seq(Byte)
    BY <1>1 DEF HunkSet
  <2> DEFINE p == f[k - 1]
             o == hs[k].org
             d == hs[k].data
             end == EndOf(hs[k])
             l == f[k]
  <2>3. p \in Memories /\ o \in Int /\ d \in Seq(Byte)
    BY <1>3, <2>2
  <2>5. l = Lay(p, o, d) /\ end = o + Len(d) /\ Len(d) \in Nat
    BY <2>1, <2>3, LenProperties DEF EndOf
  <2> HIDE DEF p, o, d, end, l
  <2>4. Lay(p, o, d) \in Memories /\ DOMAIN Lay(p, o, d) = DOMAIN p \cup o..(o + Len(d) - 1)
    BY <2>3, LayFacts
  <2>6. l \in Memories /\ DOMAIN l = DOMAIN p \cup o..(end - 1)
    BY <2>3, <2>4, <2>5
  <2>. QED
    BY <2>1, <2>6 DEF p, o, end, l
<1> DEFINE T == {k \in Nat : f[k] \in Memories}
<1>4. 0..n \subseteq T
  <2>1. 0 \in T
    BY <1>2, MemoryFacts
  <2>2. ASSUME NEW k \in 0..(n - 1), k \in T
        PROVE  k + 1 \in T
    <3>1. k + 1 \in 1..n /\ (k + 1) - 1 = k /\ k + 1 \in Nat /\ f[k] \in Memories
      BY <1>1, <2>2
    <3>2. f[k + 1] \in Memories
      BY <1>3, <3>1
    <3>. QED
      BY <3>1, <3>2
  <2> HIDE DEF T
  <2>. QED
    BY <1>1, <2>1, <2>2, Upto
<1>5. \A k \in 0..n : f[k] \in Memories
  BY <1>4
<1>6. ASSUME NEW k \in 1..n
      PROVE  /\ f[k] = Lay(f[k - 1], hs[k].org, hs[k].data)
             /\ DOMAIN f[k] = DOMAIN f[k - 1] \cup hs[k].org..(EndOf(hs[k]) - 1)
  <2>1. k - 1 \in 0..n
    BY <1>1
  <2>. QED
    BY <1>3, <1>5, <2>1
<1>. QED
  BY <1>2, <1>5, <1>6 DEF n

(* Hunks that make a memory with short addresses end at short addresses.   *)
LEMMA HunksAreSmall ==
  ASSUME NEW hs \in Seq(HunkSet), WordSized(FoldLeft(Load, <<>>, hs))
  PROVE  SmallHunks(hs)
<1> DEFINE n == Len(hs)
           rr == Radix * Radix
<1>1. n \in Nat /\ rr \in Nat /\ \A k \in 1..n : hs[k] \in HunkSet
  BY LenProperties, ElementOfSeq, ToolAssumption
<1>2. PICK f : /\ FoldLeft(Load, <<>>, hs) = f[n]
               /\ \A k \in 1..n :
                    DOMAIN f[k] = DOMAIN f[k - 1] \cup hs[k].org..(EndOf(hs[k]) - 1)
  BY LoadDomains
<1> HIDE DEF n
<1>3. \A x \in DOMAIN f[n] : x < rr - 1
  BY <1>2 DEF WordSized
<1> HIDE DEF rr
<1> SUFFICES ASSUME NEW k \in 1..n, hs[k].data # <<>>
             PROVE  hs[k].org + Len(hs[k].data) <= rr
  BY DEF SmallHunks, n, rr
<1> DEFINE T == {j \in Nat : k <= j => DOMAIN f[k] \subseteq DOMAIN f[j]}
<1>4. 0..n \subseteq T
  <2>1. 0 \in T
    OBVIOUS
  <2>2. ASSUME NEW j \in 0..(n - 1), j \in T
        PROVE  j + 1 \in T
    <3>1. j + 1 \in 1..n /\ (j + 1) - 1 = j /\ j + 1 \in Nat /\ k \in Nat
      BY <1>1, <2>2
    <3>2. DOMAIN f[j] \subseteq DOMAIN f[j + 1]
      BY <1>2, <3>1
    <3>3. ASSUME k <= j + 1 PROVE DOMAIN f[k] \subseteq DOMAIN f[j + 1]
      <4>1. CASE k <= j
        BY <2>2, <3>2, <4>1
      <4>2. CASE k = j + 1
        BY <4>2
      <4>. QED
        BY <3>1, <3>3, <4>1, <4>2
    <3>. QED
      BY <3>1, <3>3
  <2> HIDE DEF T
  <2>. QED
    BY <1>1, <2>1, <2>2, Upto
<1>5. DOMAIN f[k] \subseteq DOMAIN f[n]
  BY <1>1, <1>4
<1> DEFINE o == hs[k].org
           l == Len(hs[k].data)
<1>6. o \in Nat /\ l \in Nat /\ l # 0
  BY <1>1, LenProperties, EmptySeq DEF HunkSet
<1>7. o..((o + l) - 1) \subseteq DOMAIN f[k]
  BY <1>2 DEF EndOf
<1> HIDE DEF o, l
<1>8. (o + l) - 1 \in o..((o + l) - 1)
  BY <1>6
<1>9. (o + l) - 1 < rr - 1
  BY <1>3, <1>5, <1>7, <1>8
<1>. QED
  BY <1>1, <1>6, <1>9 DEF o, l

LEMMA ClosedRas ==
  ASSUME OutInv, phase = "closed", format = "RAS", laid # <<>>, InRange
  PROVE  /\ st.file \in Seq(Byte) /\ laid \in Memories /\ WordSized(laid)
         /\ FoldLeft(Load, <<>>, Hunks(st.file)) = laid
<1>1. PICK r \in States : FileOf(r, laid) /\ st = Patch(r)
  BY DEF OutInv, Closed
<1>2. WordSized(laid) /\ laid \in Memories /\ st \in States
  BY DEF InRange, WordSized, OutInv
<1>3. ~r.clear
  BY <1>1 DEF FileOf
<1>4. \E G, hs, a, d : RasOpen(r, laid, G, hs, a, d)
  BY <1>1, <1>3 DEF FileOf
<1>5. FoldLeft(Load, <<>>, Hunks(Patch(r).file)) = laid
  BY <1>2, <1>4, RasHolds
<1>. QED
  BY <1>1, <1>2, <1>5 DEF States

(* The formats without hunks: data from a to org, with laid among it.      *)
LEMMA ClosedFlat ==
  ASSUME OutInv, phase = "closed", format # "RAS", laid # <<>>
  PROVE  \E a \in Nat, d \in Seq(Byte) :
           /\ st.file = Lead(a) \o d /\ st.org = a + Len(d)
           /\ \A x \in DOMAIN laid : x \in a..(a + Len(d) - 1) /\ laid[x] = d[x - a + 1]
           /\ \E x \in DOMAIN laid : TRUE
           /\ laid \in Memories
<1>1. FileOf(st, laid)
  BY DEF OutInv, Closed
<1>2. ~st.clear
  BY <1>1 DEF FileOf
<1>3. PICK a, d : Flat(st, laid, a, d) /\ st.file = Lead(a) \o d
  BY <1>1, <1>2 DEF FileOf
<1>4. laid \in Memories
  BY <1>1 DEF FileOf
<1>5. \E x \in DOMAIN laid : TRUE
  <2> SUFFICES ASSUME DOMAIN laid = {} PROVE FALSE
    OBVIOUS
  <2> DEFINE e == <<>>
  <2>1. e \in Memories /\ DOMAIN e = {}
    BY MemoryFacts
  <2> HIDE DEF e
  <2>2. laid = e
    BY <1>4, <2>1, SameMemory
  <2>. QED
    BY <2>2 DEF e
<1>. QED
  BY <1>3, <1>4, <1>5 DEF Flat, Within

LEMMA CutNothing ==
  ASSUME NEW f \in Seq(Byte), Len(f) < Radix * Radix
  PROVE  Cut(f) = f
<1> DEFINE rr == Radix * Radix
           n == Len(f)
<1>1. n \in Nat /\ rr \in Nat \ {0}
  BY LenProperties, ToolAssumption
<1>2. n < rr
  OBVIOUS
<1> HIDE DEF n, rr
<1>3. n % rr = n
  BY <1>1, <1>2, SmallRemainder
<1>4. Cut(f) = SubSeq(f, 1, Len(f))
  BY <1>3 DEF Cut, n, rr
<1>. QED
  BY <1>4, SubSeqFull

(* One block of records, loaded into nothing.                              *)
LEMMA BlockOfRecords ==
  ASSUME NEW o \in Nat, NEW d \in Seq(Byte), o + Len(d) <= Radix * Radix
  PROVE  /\ \A k \in DOMAIN Records(o, d) : Accepted(Records(o, d)[k])
         /\ \A x \in o..(o + Len(d) - 1) :
              /\ x \in DOMAIN FoldLeft(LoadRecord, <<>>, Records(o, d))
              /\ FoldLeft(LoadRecord, <<>>, Records(o, d))[x] = d[x - o + 1]
<1> DEFINE rs == Records(o, d)
           e == <<>>
<1>1. e \in Memories /\ o \in Int
  BY MemoryFacts
<1>2. rs \in Seq(RecordSet) /\ \A k \in 1..Len(rs) : Accepted(rs[k])
  <2>1. /\ rs \in Seq(RecordSet) /\ Len(rs) = Parts(Len(d), PERLINE)
        /\ \A k \in 1..Parts(Len(d), PERLINE) : Accepted(rs[k])
    BY RecordsFacts
  <2>. QED
    BY <2>1
<1> HIDE DEF e
<1>3. FoldLeft(LoadRecord, e, rs) = Lay(e, o, d)
  BY <1>1, RecordsLay
<1> HIDE DEF rs
<1>4. DOMAIN rs = 1..Len(rs)
  BY <1>2, LenProperties
<1>5. /\ DOMAIN Lay(e, o, d) = DOMAIN e \cup o..(o + Len(d) - 1)
      /\ \A x \in o..(o + Len(d) - 1) : Lay(e, o, d)[x] = d[x - o + 1]
  BY <1>1, LayFacts
<1>6. \A x \in o..(o + Len(d) - 1) :
        x \in DOMAIN FoldLeft(LoadRecord, e, rs) /\ FoldLeft(LoadRecord, e, rs)[x] = d[x - o + 1]
  BY <1>3, <1>5
<1>. QED
  BY <1>2, <1>4, <1>6 DEF rs, e

-----------------------------------------------------------------------------
(* ftohex gives the memory back.                                           *)
LEMMA HexHolds == OutInv => HexIsImage
<1> DEFINE hex == Ftohex(format, st.file)
           m == FoldLeft(LoadRecord, <<>>, hex.records)
           start == IF format = "RAW" THEN Start ELSE 0
<1> SUFFICES ASSUME OutInv, phase = "closed", laid # <<>>, Fits
             PROVE  /\ \A i \in DOMAIN hex.records : Accepted(hex.records[i])
                    /\ \A a \in DOMAIN laid : a - start \in DOMAIN m /\ m[a - start] = laid[a]
  BY Zenon DEF HexIsImage
<1>1. FormatKnown
  BY FormatIsKnown DEF OutInv
<1>2. CASE format = "RAS"
  <2>1. /\ st.file \in Seq(Byte) /\ laid \in Memories /\ WordSized(laid)
        /\ FoldLeft(Load, <<>>, Hunks(st.file)) = laid
    BY <1>2, ClosedRas DEF Fits
  <2>2. hex = HexHunks(st.file)
    BY <1>2 DEF Ftohex
  <2>3. Hunks(st.file) \in Seq(HunkSet)
    BY <2>1, HunksType
  <2>4. SmallHunks(Hunks(st.file))
    BY <2>1, <2>3, HunksAreSmall
  <2>5. /\ HexHunks(st.file).records \in Seq(RecordSet)
        /\ \A k \in 1..Len(HexHunks(st.file).records) : Accepted(HexHunks(st.file).records[k])
        /\ FoldLeft(LoadRecord, <<>>, HexHunks(st.file).records) = laid
    BY <2>1, <2>4, HexLoads
  <2>6. m = laid /\ \A k \in 1..Len(hex.records) : Accepted(hex.records[k])
    BY <2>2, <2>5
  <2>7. DOMAIN hex.records = 1..Len(hex.records)
    BY <2>2, <2>5, LenProperties
  <2> HIDE DEF hex, m
  <2>8. start = 0 /\ DOMAIN laid \subseteq Int
    BY <1>2, <2>1, MemoryFacts
  <2> HIDE DEF start
  <2>9. \A a \in DOMAIN laid : a - start = a
    BY <2>8
  <2>. QED
    BY <2>6, <2>7, <2>9
<1>3. CASE format # "RAS"
  <2>1. PICK a \in Nat, d \in Seq(Byte) :
           /\ st.file = Lead(a) \o d /\ st.org = a + Len(d)
           /\ \A x \in DOMAIN laid : x \in a..(a + Len(d) - 1) /\ laid[x] = d[x - a + 1]
           /\ \E x \in DOMAIN laid : TRUE
           /\ laid \in Memories
    BY <1>3, ClosedFlat
  <2> DEFINE rr == Radix * Radix
  <2>2. Len(d) \in Nat /\ rr \in Nat \ {0} /\ a + Len(d) < rr
    BY <1>3, <2>1, LenProperties, ToolAssumption DEF Fits
  <2> HIDE DEF rr
  <2>3. Len(d) < rr /\ a < rr
    BY <2>2
  <2>4. Cut(d) = d
    BY <2>3, CutNothing DEF rr
  <2>5. CASE format = "RAW"
    <3> DEFINE rs == Records(0, d)
    <3>1. st.file = d
      BY <2>1, <2>5, ConcatEmptySeq DEF Lead
    <3>2. hex.records = rs
      BY <2>4, <2>5, <3>1 DEF Ftohex
    <3>3. start = a
      BY <2>1, <2>2, <2>5, <3>1 DEF Start
    <3> DEFINE z == 0
    <3>4. z \in Nat /\ z + Len(d) <= Radix * Radix
      BY <2>2, <2>3 DEF rr
    <3> HIDE DEF z
    <3>5. /\ \A k \in DOMAIN Records(z, d) : Accepted(Records(z, d)[k])
          /\ \A x \in z..(z + Len(d) - 1) :
               /\ x \in DOMAIN FoldLeft(LoadRecord, <<>>, Records(z, d))
               /\ FoldLeft(LoadRecord, <<>>, Records(z, d))[x] = d[x - z + 1]
      BY <3>4, BlockOfRecords
    <3> HIDE DEF rs, hex, start
    <3>6. rs = Records(z, d)
      BY DEF rs, z
    <3>7. ASSUME NEW x \in DOMAIN laid
          PROVE  x - start \in DOMAIN m /\ m[x - start] = laid[x]
      <4>1. x \in a..(a + Len(d) - 1) /\ laid[x] = d[x - a + 1]
        BY <2>1
      <4>2. x - a \in z..(z + Len(d) - 1) /\ (x - a) - z + 1 = x - a + 1
        BY <2>2, <4>1 DEF z
      <4>. QED
        BY <3>2, <3>3, <3>5, <3>6, <4>1, <4>2
    <3>. QED
      BY <3>2, <3>5, <3>6, <3>7
  <2>6. CASE format = "DEFAULT"
    <3> DEFINE f == Word(a) \o d
               rs == Records(a, d)
    <3>1. st.file = f
      BY <2>1, <2>6 DEF Lead
    <3>2. WordAt(f, 1) = a % (Radix * Radix) /\ From(f, 3) = d /\ Len(f) = 2 + Len(d)
      BY LeadRead
    <3>3. a % (Radix * Radix) = a
      <4>1. a % rr = a
        BY <2>2, <2>3, SmallRemainder
      <4>. QED
        BY <4>1 DEF rr
    <3> HIDE DEF f, rs
    <3>4. WordThere(f, 1)
      <4>1. 1 + 1 <= 2 + Len(d)
        BY <2>2
      <4>. QED
        BY <3>2, <4>1 DEF WordThere
    <3>5. hex.records = rs
      BY <2>4, <2>6, <3>1, <3>2, <3>3, <3>4 DEF Ftohex, rs
    <3>6. start = 0
      BY <2>6
    <3>7. a + Len(d) <= Radix * Radix
      BY <2>2 DEF rr
    <3>8. /\ \A k \in DOMAIN rs : Accepted(rs[k])
          /\ \A x \in a..(a + Len(d) - 1) :
               /\ x \in DOMAIN FoldLeft(LoadRecord, <<>>, rs)
               /\ FoldLeft(LoadRecord, <<>>, rs)[x] = d[x - a + 1]
      BY <3>7, BlockOfRecords DEF rs
    <3> HIDE DEF hex, start
    <3>9. ASSUME NEW x \in DOMAIN laid
          PROVE  x - start \in DOMAIN m /\ m[x - start] = laid[x]
      <4>1. x \in a..(a + Len(d) - 1) /\ laid[x] = d[x - a + 1]
        BY <2>1
      <4>2. x - start = x
        BY <2>2, <3>6, <4>1
      <4>. QED
        BY <3>5, <3>8, <4>1, <4>2
    <3>. QED
      BY <3>5, <3>8, <3>9
  <2>. QED
    BY <1>1, <1>3, <2>5, <2>6 DEF FormatKnown
<1>. QED
  BY <1>2, <1>3

(* What ftohex makes of the object file is the memory that was assembled,  *)
(* in all three formats: every byte at its address, in records of legal    *)
(* length whose sum is 0.                                                  *)
THEOREM HexHoldsImage == Spec => []HexIsImage
BY HexHolds, OutputInductive, PTL

-----------------------------------------------------------------------------
(* What ftobin keeps, and the hunks it writes, one by one.                 *)
BinSet == [ok : BOOLEAN, out : Seq(Byte), pos : Nat, maxseek : Nat, base : Int]

(* Writing inside of a file or at its end.                                 *)
LEMMA OverwriteFacts ==
  ASSUME NEW f \in Seq(Byte), NEW at \in Nat, at <= Len(f), NEW d \in Seq(Byte)
  PROVE  /\ Overwrite(f, at, d) \in Seq(Byte)
         /\ Len(Overwrite(f, at, d)) = IF at + Len(d) > Len(f) THEN at + Len(d) ELSE Len(f)
         /\ \A i \in 1..Len(Overwrite(f, at, d)) :
              Overwrite(f, at, d)[i] = IF i \in (at + 1)..(at + Len(d)) THEN d[i - at] ELSE f[i]
<1> DEFINE o == Overwrite(f, at, d)
           n == Len(f)
           l == Len(d)
<1>1. n \in Nat /\ l \in Nat
  BY LenProperties
<1>2. o \in Seq(Byte)
  BY OverwriteType
<1>3. CASE d = <<>>
  <2>1. l = 0
    BY <1>3, EmptySeq
  <2>2. o = f
    BY <1>3 DEF Overwrite
  <2> HIDE DEF o, n, l
  <2>3. ~(at + l > n) /\ (at + 1)..(at + l) = {}
    BY <1>1, <2>1 DEF n
  <2>. QED
    BY <1>2, <2>2, <2>3 DEF o, n, l
<1>4. CASE d # <<>>
  <2> DEFINE w == IF at + l > n THEN at + l ELSE n
  <2>1. o = [i \in 1..w |-> IF i \in (at + 1)..(at + l) THEN d[i - at] ELSE IF i <= n THEN f[i] ELSE 0]
    BY <1>4 DEF Overwrite
  <2> HIDE DEF o, n, l
  <2>2. w \in Nat /\ \A i \in 1..w : i \notin (at + 1)..(at + l) => i <= n
    BY <1>1 DEF n
  <2> HIDE DEF w
  <2>3. Len(o) = w
    BY <2>1, <2>2
  <2>4. \A i \in 1..w : o[i] = IF i \in (at + 1)..(at + l) THEN d[i - at] ELSE f[i]
    BY <2>1, <2>2
  <2>. QED
    BY <1>2, <2>3, <2>4 DEF o, n, l, w
<1>. QED
  BY <1>3, <1>4

(* One hunk: where it goes, and what else changes.                         *)
LEMMA BinHunkFacts ==
  ASSUME NEW r \in BinSet, NEW h \in HunkSet
  PROVE  /\ BinHunk(r, h) \in BinSet
         /\ r.ok /\ h.org >= r.base =>
              LET at == h.org - r.base
                  end == at + Len(h.data)
                  filled == IF at > r.maxseek THEN FillGap(r, at - r.maxseek) ELSE r.out
              IN  /\ BinHunk(r, h).ok /\ BinHunk(r, h).base = r.base
                  /\ BinHunk(r, h).out = Overwrite(filled, at, h.data)
                  /\ BinHunk(r, h).pos = end
                  /\ BinHunk(r, h).maxseek = IF end > r.maxseek THEN end ELSE r.maxseek
<1> DEFINE at == h.org - r.base
           l == Len(h.data)
           end == at + l
           filled == IF at > r.maxseek THEN FillGap(r, at - r.maxseek) ELSE r.out
           out == Overwrite(filled, at, h.data)
           max == IF end > r.maxseek THEN end ELSE r.maxseek
           n == BinHunk(r, h)
<1>1. /\ r.ok \in BOOLEAN /\ r.out \in Seq(Byte) /\ r.pos \in Nat /\ r.maxseek \in Nat /\ r.base \in Int
      /\ h.org \in Nat /\ h.data \in Seq(Byte) /\ l \in Nat
  BY LenProperties DEF BinSet, HunkSet
<1>2. at \in Int /\ end \in Int /\ end >= at
  <2>1. at \in Int /\ l \in Nat
    BY <1>1
  <2> HIDE DEF at, l
  <2>. QED
    BY <2>1
<1>3. CASE ~r.ok \/ at < 0
  <2>1. n = [r EXCEPT !.ok = FALSE]
    BY <1>3 DEF BinHunk
  <2>2. n \in BinSet
    BY <2>1 DEF BinSet
  <2>3. ~(r.ok /\ h.org >= r.base)
    BY <1>1, <1>3
  <2>. QED
    BY <2>2, <2>3
<1>4. CASE r.ok /\ ~(at < 0)
  <2>1. at \in Nat /\ end \in Nat
    BY <1>1, <1>2, <1>4
  <2>2. filled \in Seq(Byte)
    <3>1. CASE at > r.maxseek
      <4> DEFINE gap == at - r.maxseek
                 fill == [i \in 1..gap |-> Radix - 1]
      <4>1. gap \in Nat /\ Radix - 1 \in Byte
        BY <1>1, <2>1, <3>1, ToolAssumption DEF Byte
      <4> HIDE DEF gap
      <4>2. fill \in Seq(Byte)
        BY <4>1
      <4>3. Overwrite(r.out, r.pos, fill) \in Seq(Byte)
        BY <1>1, <4>2, OverwriteType
      <4>4. filled = FillGap(r, gap)
        BY <3>1 DEF gap
      <4>. QED
        BY <4>3, <4>4 DEF FillGap
    <3>2. CASE ~(at > r.maxseek)
      BY <1>1, <3>2
    <3>. QED
      BY <3>1, <3>2
  <2> HIDE DEF filled
  <2>3. out \in Seq(Byte)
    BY <1>1, <2>1, <2>2, OverwriteType
  <2>4. n = [r EXCEPT !.out = out, !.pos = end,
                      !.maxseek = IF end > @ THEN end ELSE IF at > @ THEN at ELSE @]
    BY <1>4, Zenon DEF BinHunk, filled
  <2> HIDE DEF out, at, end
  <2>5. (IF end > r.maxseek THEN end ELSE IF at > r.maxseek THEN at ELSE r.maxseek) = max
    BY <1>1, <1>2
  <2>6. max \in Nat
    BY <1>1, <2>1
  <2>7. n = [r EXCEPT !.out = out, !.pos = end, !.maxseek = max]
    BY <2>4, <2>5
  <2> HIDE DEF max, n
  <2>8. /\ n \in BinSet /\ n.ok = r.ok /\ n.base = r.base /\ n.out = out /\ n.pos = end /\ n.maxseek = max
    BY <1>1, <2>1, <2>3, <2>6, <2>7 DEF BinSet
  <2>. QED
    BY <1>4, <2>8 DEF n, max, out, filled, end, at
<1>. QED
  BY <1>1, <1>3, <1>4

LEMMA BinSteps ==
  ASSUME NEW z \in BinSet, NEW hs \in Seq(HunkSet)
  PROVE  \E f : /\ f[0] = z /\ FoldLeft(BinHunk, z, hs) = f[Len(hs)]
                /\ \A k \in 1..Len(hs) : f[k] = BinHunk(f[k - 1], hs[k])
<1> DEFINE n == Len(hs)
           D == 1..n
           G == [x \in BinSet \X D |-> BinHunk(x[1], hs[x[2]])]
           It(c) == c = [s \in SUBSET D |-> IF s = {} THEN z ELSE BinHunk(c[s \ {Max(s)}], hs[Max(s)])]
           c == CHOOSE x : It(x)
           f == [k \in 0..n |-> c[1..k]]
<1>1. n \in Nat /\ DOMAIN hs = D /\ \A k \in D : hs[k] \in HunkSet
  BY LenProperties, ElementOfSeq
<1>2. FoldLeft(BinHunk, z, hs) = c[D]
  BY <1>1 DEF FoldLeft, MapThenFoldSet
<1>3. \E x : It(x)
  <2>1. G \in [BinSet \X D -> BinSet]
    <3> SUFFICES ASSUME NEW x \in BinSet \X D
                 PROVE  BinHunk(x[1], hs[x[2]]) \in BinSet
      OBVIOUS
    <3>1. x[1] \in BinSet /\ hs[x[2]] \in HunkSet
      BY <1>1
    <3>. QED
      BY <3>1, BinHunkFacts
  <2>3. \A x \in BinSet, k \in D : G[<<x, k>>] = BinHunk(x, hs[k])
    OBVIOUS
  <2> HIDE DEF G
  <2>4. PICK it \in [SUBSET D -> BinSet] : Folding(n, z, G, it)
    BY <1>1, <2>1, FoldRecursion
  <2>5. ASSUME NEW s \in SUBSET D, s # {}
        PROVE  it[s] = BinHunk(it[s \ {Max(s)}], hs[Max(s)])
    <3>1. Max(s) \in s
      BY <1>1, <2>5, MaxFacts
    <3>2. it[s \ {Max(s)}] \in BinSet /\ Max(s) \in D
      BY <3>1
    <3>3. it[s] = G[<<it[s \ {Max(s)}], Max(s)>>]
      BY <2>4, <2>5 DEF Folding
    <3>. QED
      BY <2>3, <3>2, <3>3
  <2>6. it[{}] = z
    BY <2>4 DEF Folding
  <2>7. It(it)
    BY <2>5, <2>6
  <2>. QED
    BY <2>7
<1>4. It(c)
  BY <1>3, Zenon
<1> HIDE DEF c
<1>5. c[{}] = z
  BY <1>4
<1>6. ASSUME NEW k \in D
      PROVE  c[1..k] = BinHunk(c[1..(k - 1)], hs[k])
  <2>1. k \in Nat \ {0} /\ 1..k \in SUBSET D
    BY <1>1
  <2>2. Max(1..k) = k /\ (1..k) \ {k} = 1..(k - 1) /\ 1..k # {}
    BY <2>1, FirstNumbers
  <2>. QED
    BY <1>4, <2>1, <2>2
<1>7. f[0] = z /\ f[n] = c[D]
  <2>1. 1..0 = {} /\ 0 \in 0..n /\ n \in 0..n
    BY <1>1
  <2>. QED
    BY <1>5, <2>1
<1>8. \A k \in D : f[k] = BinHunk(f[k - 1], hs[k])
  <2>1. \A k \in D : k \in 0..n /\ k - 1 \in 0..n
    BY <1>1
  <2>. QED
    BY <1>6, <2>1
<1> HIDE DEF f
<1>. QED
  BY <1>2, <1>7, <1>8

(* What has been written is the memory m from the base on, and nothing but *)
(* 255 in between.                                                         *)
BinHolds(r, m, b) ==
  /\ r \in BinSet /\ r.ok /\ r.base = b /\ m \in Memories
  /\ Len(r.out) = r.maxseek /\ r.pos <= r.maxseek
  /\ DOMAIN m \subseteq b..(b + r.maxseek - 1)
  /\ \A i \in 1..r.maxseek :
       r.out[i] = IF b + i - 1 \in DOMAIN m THEN m[b + i - 1] ELSE Radix - 1

(* A hunk is written where it belongs, and what is missing in front of it  *)
(* is filled, if the position is at the end by then.                       *)
LEMMA BinStep ==
  ASSUME NEW r, NEW m, NEW b \in Int, NEW h \in HunkSet, BinHolds(r, m, b), h.org >= b,
         h.org - b > r.maxseek => r.pos = r.maxseek
  PROVE  /\ BinHolds(BinHunk(r, h), Lay(m, h.org, h.data), b)
         /\ BinHunk(r, h).pos = EndOf(h) - b
         /\ BinHunk(r, h).maxseek = IF EndOf(h) - b > r.maxseek THEN EndOf(h) - b ELSE r.maxseek
<1> DEFINE o == h.org
           d == h.data
           l == Len(d)
           at == o - b
           end == at + l
           top == r.maxseek
           gap == at - top
           fill == [i \in 1..gap |-> Radix - 1]
           F == IF at > top THEN FillGap(r, gap) ELSE r.out
           W == Overwrite(F, at, d)
           n == BinHunk(r, h)
           M == Lay(m, o, d)
           last == IF end > top THEN end ELSE top
<1>1. /\ r \in BinSet /\ r.ok /\ r.base = b /\ m \in Memories
      /\ r.out \in Seq(Byte) /\ Len(r.out) = top /\ top \in Nat /\ r.pos \in Nat /\ r.pos <= top
      /\ DOMAIN m \subseteq b..(b + top - 1)
      /\ \A i \in 1..top :
           r.out[i] = IF b + i - 1 \in DOMAIN m THEN m[b + i - 1] ELSE Radix - 1
  BY DEF BinHolds, BinSet
<1>2. o \in Nat /\ d \in Seq(Byte) /\ l \in Nat
  BY LenProperties DEF HunkSet
<1>3. o >= b /\ (at > top => r.pos = top)
  OBVIOUS
<1>4. EndOf(h) - b = end
  BY <1>2 DEF EndOf
<1>5. /\ n \in BinSet /\ n.ok /\ n.base = b /\ n.out = W /\ n.pos = end
      /\ n.maxseek = last
  BY <1>1, BinHunkFacts, Zenon
<1> HIDE DEF o, d, l, n, top
<1>6. at \in Nat /\ end \in Nat /\ end = at + l
  BY <1>2, <1>3
<1>7. /\ F \in Seq(Byte) /\ Len(F) = IF at > top THEN at ELSE top
      /\ \A i \in 1..Len(F) : F[i] = IF i <= top THEN r.out[i] ELSE Radix - 1
  <2>1. CASE at > top
    <3>1. gap \in Nat /\ Radix - 1 \in Byte /\ gap > 0
      BY <1>1, <1>6, <2>1, ToolAssumption DEF Byte
    <3> DEFINE v == Overwrite(r.out, top, fill)
    <3>2. F = v
      BY <1>3, <2>1 DEF FillGap
    <3> HIDE DEF gap
    <3>3. fill \in Seq(Byte) /\ Len(fill) = gap /\ \A i \in 1..gap : fill[i] = Radix - 1
      BY <3>1
    <3> HIDE DEF fill
    <3>4. top <= Len(r.out)
      BY <1>1
    <3>5. /\ v \in Seq(Byte) /\ Len(v) = IF top + Len(fill) > Len(r.out) THEN top + Len(fill) ELSE Len(r.out)
          /\ \A i \in 1..Len(v) : v[i] = IF i \in (top + 1)..(top + Len(fill)) THEN fill[i - top] ELSE r.out[i]
      BY <1>1, <3>3, <3>4, OverwriteFacts
    <3> HIDE DEF v
    <3>6. top + gap = at
      BY <1>1, <1>6 DEF gap
    <3> HIDE DEF at
    <3>7. Len(v) = at
      BY <1>1, <1>6, <2>1, <3>3, <3>5, <3>6
    <3>8. ASSUME NEW i \in 1..Len(v)
          PROVE  v[i] = IF i <= top THEN r.out[i] ELSE Radix - 1
      <4>1. CASE i <= top
        <5>1. i \notin (top + 1)..(top + Len(fill))
          BY <1>1, <4>1
        <5>. QED
          BY <3>5, <4>1, <5>1
      <4>2. CASE ~(i <= top)
        <5>1. i \in (top + 1)..(top + Len(fill)) /\ i - top \in 1..gap
          BY <1>1, <1>6, <3>1, <3>3, <3>6, <3>7, <4>2
        <5>. QED
          BY <3>3, <3>5, <4>2, <5>1
      <4>. QED
        BY <4>1, <4>2
    <3>. QED
      BY <2>1, <3>2, <3>5, <3>7, <3>8
  <2>2. CASE ~(at > top)
    <3>1. F = r.out
      BY <2>2
    <3> HIDE DEF F, at
    <3>2. \A i \in 1..top : i <= top
      BY <1>1
    <3>. QED
      BY <1>1, <2>2, <3>1, <3>2
  <2>. QED
    BY <2>1, <2>2
<1> HIDE DEF F, fill
<1>8. at <= Len(F)
  BY <1>1, <1>6, <1>7
<1>9. /\ W \in Seq(Byte) /\ Len(W) = IF at + l > Len(F) THEN at + l ELSE Len(F)
      /\ \A i \in 1..Len(W) : W[i] = IF i \in (at + 1)..(at + l) THEN d[i - at] ELSE F[i]
  <2> HIDE DEF at
  <2>. QED
    BY <1>2, <1>6, <1>7, <1>8, OverwriteFacts DEF l
<1>10. Len(W) = last /\ last \in Nat
  <2>1. last \in Nat /\ last = IF end > top THEN end ELSE top
    BY <1>1, <1>6
  <2> HIDE DEF at, end, last, W
  <2>2. Len(F) \in Nat /\ Len(W) = IF end > Len(F) THEN end ELSE Len(F)
    BY <1>6, <1>7, <1>9, LenProperties
  <2>. QED
    BY <1>1, <1>2, <1>6, <1>7, <2>1, <2>2
<1>11. /\ M \in Memories /\ DOMAIN M = DOMAIN m \cup o..(o + l - 1)
       /\ \A x \in o..(o + l - 1) : M[x] = d[x - o + 1]
       /\ \A x \in DOMAIN m \ (o..(o + l - 1)) : M[x] = m[x]
  <2>1. o \in Int
    BY <1>2
  <2>4. m \in Memories /\ d \in Seq(Byte)
    BY <1>1, <1>2
  <2>2. /\ Lay(m, o, d) \in Memories
        /\ DOMAIN Lay(m, o, d) = DOMAIN m \cup o..(o + Len(d) - 1)
        /\ \A x \in o..(o + Len(d) - 1) : Lay(m, o, d)[x] = d[x - o + 1]
        /\ \A x \in DOMAIN m \ (o..(o + Len(d) - 1)) : Lay(m, o, d)[x] = m[x]
    BY <2>1, <2>4, LayFacts
  <2>5. M = Lay(m, o, d)
    OBVIOUS
  <2>3. Len(d) = l
    BY DEF l
  <2> HIDE DEF M, l
  <2>. QED
    BY <2>2, <2>3, <2>5
<1> HIDE DEF M, W
<1>12. DOMAIN M \subseteq b..(b + last - 1)
  <2>1. \A x \in b..(b + top - 1) : x \in b..(b + last - 1)
    BY <1>1, <1>6
  <2>2. \A x \in o..(o + l - 1) : x \in b..(b + last - 1)
    BY <1>1, <1>2, <1>3, <1>6
  <2>. QED
    BY <1>1, <1>11, <2>1, <2>2
<1>13. ASSUME NEW i \in 1..last
       PROVE  W[i] = IF b + i - 1 \in DOMAIN M THEN M[b + i - 1] ELSE Radix - 1
  <2> DEFINE x == b + i - 1
  <2>1. i \in Nat /\ x \in Int
    BY <1>10
  <2>2. CASE i \in (at + 1)..(at + l)
    <3>1. x \in o..(o + l - 1) /\ x - o + 1 = i - at
      BY <1>2, <2>1, <2>2
    <3>2. W[i] = d[i - at] /\ x \in DOMAIN M /\ M[x] = d[x - o + 1]
      BY <1>9, <1>10, <1>11, <2>2, <3>1
    <3>. QED
      BY <3>1, <3>2
  <2>3. CASE i \notin (at + 1)..(at + l)
    <3>1. x \notin o..(o + l - 1)
      BY <1>2, <2>1, <2>3
    <3>2. i \in 1..Len(F) /\ W[i] = F[i]
      <4>1. i \in 1..Len(F)
        BY <1>6, <1>7, <1>9, <1>10, <2>1, <2>3
      <4>. QED
        BY <1>9, <1>10, <2>3, <4>1
    <3>3. x \in DOMAIN M <=> x \in DOMAIN m
      BY <1>11, <3>1
    <3>4. x \in DOMAIN m => M[x] = m[x]
      BY <1>11, <3>1
    <3>5. CASE i <= top
      <4>1. i \in 1..top
        BY <1>1, <2>1, <3>5
      <4>2. W[i] = r.out[i] /\ r.out[i] = IF x \in DOMAIN m THEN m[x] ELSE Radix - 1
        BY <1>1, <1>7, <3>2, <3>5, <4>1
      <4>. QED
        BY <3>3, <3>4, <4>2
    <3>6. CASE ~(i <= top)
      <4>1. x \notin b..(b + top - 1)
        BY <1>1, <2>1, <3>6
      <4>2. W[i] = Radix - 1 /\ x \notin DOMAIN m
        BY <1>1, <1>7, <3>2, <3>6, <4>1
      <4>. QED
        BY <3>3, <4>2
    <3>. QED
      BY <3>5, <3>6
  <2>. QED
    BY <2>2, <2>3
<1>14. n.pos <= n.maxseek
  BY <1>1, <1>5, <1>6
<1> HIDE DEF at, end, last
<1>15. BinHolds(n, M, b)
  BY <1>5, <1>10, <1>11, <1>12, <1>13, <1>14 DEF BinHolds
<1>. QED
  BY <1>4, <1>5, <1>15 DEF n, M, o, d, last, top

(* All hunks, one after the other: they hold in the end what they hold     *)
(* when they are loaded, and the file reaches as far as any of them.       *)
LEMMA BinRun ==
  ASSUME NEW hs \in Seq(HunkSet), NEW b \in Int, Len(hs) # 0, hs[1].org = b,
         \A k \in 1..Len(hs) : hs[k].org >= b,
         \A k \in 1..(Len(hs) - 1) :
           (\A j \in 1..k : hs[k + 1].org > EndOf(hs[j])) => (\A j \in 1..k : EndOf(hs[k]) >= EndOf(hs[j])),
         NEW z, z = [ok |-> TRUE, out |-> <<>>, pos |-> 0, maxseek |-> 0, base |-> b]
  PROVE  /\ BinHolds(FoldLeft(BinHunk, z, hs), FoldLeft(Load, <<>>, hs), b)
         /\ \A j \in 1..Len(hs) : EndOf(hs[j]) - b <= FoldLeft(BinHunk, z, hs).maxseek
         /\ \E j \in 1..Len(hs) : EndOf(hs[j]) - b = FoldLeft(BinHunk, z, hs).maxseek
<1> DEFINE n == Len(hs)
<1>1. n \in Nat \ {0} /\ \A k \in 1..n : hs[k] \in HunkSet
  BY LenProperties, ElementOfSeq
<1>2. \A k \in 1..n : hs[k].org \in Nat /\ EndOf(hs[k]) \in Nat
  <2> SUFFICES ASSUME NEW k \in 1..n
               PROVE  hs[k].org \in Nat /\ EndOf(hs[k]) \in Nat
    OBVIOUS
  <2>1. hs[k].org \in Nat /\ hs[k].data \in Seq(Byte)
    BY <1>1 DEF HunkSet
  <2>2. Len(hs[k].data) \in Nat
    BY <2>1, LenProperties
  <2>. QED
    BY <2>1, <2>2 DEF EndOf
<1>3. z \in BinSet /\ BinHolds(z, <<>>, b) /\ z.maxseek = 0
  <2> DEFINE e == <<>>
  <2>1. e \in Seq(Byte) /\ Len(e) = 0 /\ e \in Memories /\ DOMAIN e = {}
    BY EmptySeq, MemoryFacts
  <2> HIDE DEF e
  <2>2. z = [ok |-> TRUE, out |-> e, pos |-> 0, maxseek |-> 0, base |-> b]
    BY DEF e
  <2>3. /\ z \in BinSet /\ z.ok /\ z.base = b /\ z.out = e /\ z.pos = 0 /\ z.maxseek = 0
    BY <2>1, <2>2 DEF BinSet
  <2>4. BinHolds(z, e, b)
    BY <2>1, <2>3 DEF BinHolds
  <2>. QED
    BY <2>3, <2>4 DEF e
<1>4. PICK f : /\ f[0] = <<>> /\ FoldLeft(Load, <<>>, hs) = f[n]
               /\ \A k \in 0..n : f[k] \in Memories
               /\ \A k \in 1..n :
                    /\ f[k] = Lay(f[k - 1], hs[k].org, hs[k].data)
                    /\ DOMAIN f[k] = DOMAIN f[k - 1] \cup hs[k].org..(EndOf(hs[k]) - 1)
  BY LoadDomains
<1>5. PICK g : /\ g[0] = z /\ FoldLeft(BinHunk, z, hs) = g[n]
               /\ \A k \in 1..n : g[k] = BinHunk(g[k - 1], hs[k])
  BY <1>3, BinSteps
<1> HIDE DEF n
<1> DEFINE Far(k) == /\ g[k].pos = EndOf(hs[k]) - b
                     /\ \A j \in 1..k : EndOf(hs[j]) - b <= g[k].maxseek
                     /\ \E j \in 1..k : EndOf(hs[j]) - b = g[k].maxseek
           T == {k \in Nat : BinHolds(g[k], f[k], b) /\ (k # 0 => Far(k))}
<1>6. 0..n \subseteq T
  <2>1. 0 \in T
    BY <1>3, <1>4, <1>5
  <2>2. ASSUME NEW k \in 0..(n - 1), k \in T
        PROVE  k + 1 \in T
    <3> DEFINE r == g[k]
               h == hs[k + 1]
               m == f[k]
               s == g[k + 1]
               end == EndOf(h)
               top == r.maxseek
    <3>1. /\ k \in Nat /\ k + 1 \in 1..n /\ (k + 1) - 1 = k /\ k + 1 \in Nat /\ k + 1 # 0
      BY <1>1, <2>2
    <3>2. BinHolds(r, m, b) /\ (k # 0 => Far(k))
      BY <2>2
    <3>3. r.pos \in Nat /\ top \in Nat /\ r.pos <= top
      BY <3>2 DEF BinHolds, BinSet
    <3>4. h \in HunkSet /\ h.org \in Nat /\ end \in Nat /\ h.org >= b
      BY <1>1, <1>2, <3>1 DEF n
    <3>5. ASSUME h.org - b > top PROVE r.pos = top
      <4>1. CASE k = 0
        <5>1. h.org = b /\ top = 0
          BY <1>3, <1>5, <4>1
        <5>. QED
          BY <3>5, <5>1
      <4>2. CASE k # 0
        <5>1. k \in 1..(n - 1) /\ k \in 1..k /\ \A j \in 1..k : j \in 1..n
          BY <1>1, <3>1, <4>2
        <5>2. \A j \in 1..k : EndOf(hs[j]) - b <= top
          BY <3>2, <4>2
        <5>3. PICK j \in 1..k : EndOf(hs[j]) - b = top
          BY <3>2, <4>2
        <5>4. r.pos = EndOf(hs[k]) - b
          BY <3>2, <4>2
        <5> HIDE DEF r, h, top
        <5>5. \A i \in 1..k : h.org > EndOf(hs[i])
          BY <1>2, <3>3, <3>4, <3>5, <5>1, <5>2
        <5>6. EndOf(hs[k]) >= EndOf(hs[j])
          BY <5>1, <5>5 DEF h, n
        <5>. QED
          BY <1>2, <3>3, <5>1, <5>3, <5>4, <5>6
      <4>. QED
        BY <4>1, <4>2
    <3>6. s = BinHunk(r, h) /\ f[k + 1] = Lay(m, h.org, h.data)
      BY <1>4, <1>5, <3>1
    <3> HIDE DEF r, h, m, s, end
    <3>7. /\ BinHolds(BinHunk(r, h), Lay(m, h.org, h.data), b)
          /\ BinHunk(r, h).pos = EndOf(h) - b
          /\ BinHunk(r, h).maxseek = IF EndOf(h) - b > r.maxseek THEN EndOf(h) - b ELSE r.maxseek
      BY <3>2, <3>4, <3>5, BinStep
    <3>8. s.pos = end - b /\ s.maxseek = IF end - b > top THEN end - b ELSE top
      BY <3>6, <3>7 DEF end
    <3> HIDE DEF top
    <3>9. end - b <= s.maxseek /\ top <= s.maxseek /\ s.maxseek \in Int
      BY <3>3, <3>4, <3>8
    <3>10. \A j \in 1..(k + 1) : j = k + 1 \/ j \in 1..k
      BY <3>1
    <3>11. \A j \in 1..k : j \in 1..n /\ EndOf(hs[j]) - b <= top
      <4>1. \A j \in 1..k : k # 0 /\ j \in 1..n
        BY <1>1, <3>1
      <4>. QED
        BY <3>2, <4>1 DEF top, r
    <3>12. \A j \in 1..(k + 1) : EndOf(hs[j]) - b <= s.maxseek
      <4> SUFFICES ASSUME NEW j \in 1..(k + 1)
                   PROVE  EndOf(hs[j]) - b <= s.maxseek
        OBVIOUS
      <4>1. CASE j = k + 1
        BY <3>9, <4>1 DEF end, h
      <4>2. CASE j \in 1..k
        <5>1. EndOf(hs[j]) \in Nat /\ EndOf(hs[j]) - b <= top
          BY <1>2, <3>11, <4>2
        <5>. QED
          BY <3>3, <3>9, <5>1
      <4>. QED
        BY <3>10, <4>1, <4>2
    <3>13. \E j \in 1..(k + 1) : EndOf(hs[j]) - b = s.maxseek
      <4>1. CASE end - b > top
        <5>1. k + 1 \in 1..(k + 1) /\ EndOf(hs[k + 1]) - b = s.maxseek
          BY <3>1, <3>8, <4>1 DEF end, h
        <5>. QED
          BY <5>1
      <4>2. CASE ~(end - b > top) /\ k # 0
        <5>1. PICK j \in 1..k : EndOf(hs[j]) - b = top
          BY <3>2, <4>2 DEF top, r
        <5>2. j \in 1..(k + 1)
          BY <3>1
        <5>. QED
          BY <3>8, <4>2, <5>1, <5>2
      <4>3. CASE ~(end - b > top) /\ k = 0
        <5>1. h.org = b /\ top = 0
          BY <1>3, <1>5, <4>3 DEF h, r, top
        <5>2. end >= h.org
          <6>1. h.data \in Seq(Byte)
            BY <3>4 DEF HunkSet
          <6>2. Len(h.data) \in Nat
            BY <6>1, LenProperties
          <6>. QED
            BY <3>4, <6>2 DEF EndOf, end
        <5>3. end - b = s.maxseek
          BY <3>3, <3>4, <3>8, <4>3, <5>1, <5>2
        <5>4. k + 1 \in 1..(k + 1)
          BY <3>1
        <5>. QED
          BY <5>3, <5>4 DEF end, h
      <4>. QED
        BY <4>1, <4>2, <4>3
    <3>14. Far(k + 1)
      BY <3>8, <3>12, <3>13 DEF s, end, h
    <3>15. BinHolds(g[k + 1], f[k + 1], b)
      BY <3>6, <3>7 DEF s
    <3>. QED
      BY <3>1, <3>14, <3>15
  <2> HIDE DEF T
  <2>. QED
    BY <1>1, <2>1, <2>2, Upto
<1>7. BinHolds(g[n], f[n], b) /\ Far(n)
  BY <1>1, <1>6
<1>. QED
  BY <1>4, <1>5, <1>7 DEF n

LEMMA MaxIs ==
  ASSUME NEW S \in SUBSET Int, NEW e \in S, \A y \in S : y <= e
  PROVE  Max(S) = e
<1>1. e \in S /\ \A y \in S : e >= y
  OBVIOUS
<1>2. Max(S) \in S /\ \A y \in S : Max(S) >= y
  BY <1>1 DEF Max
<1>3. Max(S) >= e /\ Max(S) <= e /\ Max(S) \in Int
  BY <1>1, <1>2
<1>. QED
  BY <1>3

(* A RAS file begins with its first hunk.                                  *)
LEMMA FirstHunk ==
  ASSUME NEW f \in Seq(Byte), Hunks(f) # <<>>
  PROVE  Len(Hunks(f)) # 0 /\ Hunks(f)[1].org = WordAt(f, 1)
<1>1. PICK h : /\ Hunks(f) = h[1] /\ HunkChain(f, h)
               /\ \A i \in 1..(Len(f) + 1) : h[i] \in Seq(HunkSet)
  BY HunksExist
<1> DEFINE n == Len(f)
           one == 1
<1>2. n \in Nat /\ one \in 1..(n + 1) /\ one = 1
  BY LenProperties
<1> HIDE DEF n, one
<1>3. h[one] # <<>> /\ h[one] \in Seq(HunkSet)
  BY <1>1, <1>2 DEF n
<1>4. Complete(f, one)
  BY <1>1, <1>2, <1>3 DEF HunkChain, n
<1>5. h[one] = <<HunkAt(f, one)>> \o h[After(f, one)]
  BY <1>1, <1>2, <1>4 DEF HunkChain, n
<1>6. HunkAt(f, one) \in HunkSet /\ After(f, one) \in 1..(n + 1)
  <2>1. HunkAt(f, one) \in HunkSet /\ After(f, one) \in (one + 1)..(n + 1)
    BY <1>2, <1>4, HunkFacts DEF n
  <2>2. \A i \in (one + 1)..(n + 1) : i \in 1..(n + 1)
    BY <1>2
  <2>. QED
    BY <2>1, <2>2
<1> DEFINE p == <<HunkAt(f, one)>>
           t == h[After(f, one)]
<1>7. p \in Seq(HunkSet) /\ Len(p) = 1 /\ p[1] = HunkAt(f, one) /\ t \in Seq(HunkSet)
  BY <1>1, <1>6 DEF n
<1>8. h[one] = p \o t
  BY <1>5
<1> HIDE DEF p, t
<1>9. /\ Len(p \o t) = Len(p) + Len(t)
      /\ \A k \in 1..(Len(p) + Len(t)) : (p \o t)[k] = IF k <= Len(p) THEN p[k] ELSE t[k - Len(p)]
  BY <1>7, ConcatProperties
<1>10. Len(t) \in Nat
  BY <1>7, LenProperties
<1>11. Len(p \o t) # 0 /\ (p \o t)[1] = p[1]
  BY <1>7, <1>9, <1>10
<1>12. HunkAt(f, one).org = WordAt(f, one)
  BY DEF HunkAt
<1>. QED
  BY <1>1, <1>2, <1>7, <1>8, <1>11, <1>12

-----------------------------------------------------------------------------
(* ftobin gives the memory back.                                           *)
LEMMA BinOfRas ==
  ASSUME OutInv, phase = "closed", laid # <<>>, InRange, format = "RAS",
         LowestFirst, NoLeapAfterReturn
  PROVE  LET bin == Ftobin(format, st.file)
         IN  /\ bin.ok /\ Len(bin.out) = End - Base
             /\ \A a \in DOMAIN laid : bin.out[a - Base + 1] = laid[a]
             /\ \A i \in DOMAIN bin.out :
                  (Base + i - 1) \notin DOMAIN laid => bin.out[i] = Radix - 1
<1> DEFINE hs == Hunks(st.file)
           b == WordAt(st.file, 1)
           z == [ok |-> TRUE, out |-> <<>>, pos |-> 0, maxseek |-> 0, base |-> b]
           r == FoldLeft(BinHunk, z, hs)
           n == Len(hs)
           E == {EndOf(h) : h \in Range(hs)}
<1>1. /\ st.file \in Seq(Byte) /\ laid \in Memories
      /\ FoldLeft(Load, <<>>, hs) = laid
  BY ClosedRas
<1>2. hs \in Seq(HunkSet)
  BY <1>1, HunksType
<1>3. hs # <<>>
  <2>1. <<>> \in Memories
    BY MemoryFacts
  <2>2. FoldLeft(Load, <<>>, <<>>) = <<>>
    BY <2>1, NoHunksLoaded
  <2>. QED
    BY <1>1, <2>2
<1>4. n # 0 /\ hs[1].org = b
  BY <1>1, <1>3, FirstHunk
<1>5. Base = b /\ End = Max(E)
  BY DEF Base, End
<1>6. Ftobin(format, st.file) = r
  BY DEF Ftobin
<1>7. /\ DOMAIN hs = 1..n /\ n \in Nat /\ \A k \in 1..n : hs[k] \in HunkSet
      /\ Range(hs) = {hs[k] : k \in 1..n}
  <2>1. DOMAIN hs = 1..n /\ n \in Nat /\ \A k \in 1..n : hs[k] \in HunkSet
    BY <1>2, LenProperties, ElementOfSeq
  <2>. QED
    BY <2>1 DEF Range
<1>8. \A k \in 1..n : hs[k].org \in Nat /\ EndOf(hs[k]) \in Nat
  <2> SUFFICES ASSUME NEW k \in 1..n
               PROVE  hs[k].org \in Nat /\ EndOf(hs[k]) \in Nat
    OBVIOUS
  <2>1. hs[k].org \in Nat /\ hs[k].data \in Seq(Byte)
    BY <1>7 DEF HunkSet
  <2>2. Len(hs[k].data) \in Nat
    BY <2>1, LenProperties
  <2>. QED
    BY <2>1, <2>2 DEF EndOf
<1>9. \A k \in 1..n : hs[k].org >= b
  <2>1. \A h \in Range(hs) : b <= h.org
    BY <1>5 DEF LowestFirst
  <2>2. b \in Nat
    BY <1>4, <1>7, <1>8
  <2> HIDE DEF b, hs, n
  <2>. QED
    BY <1>7, <1>8, <2>1, <2>2
<1>10. \A k \in 1..(n - 1) :
         (\A j \in 1..k : hs[k + 1].org > EndOf(hs[j])) => (\A j \in 1..k : EndOf(hs[k]) >= EndOf(hs[j]))
  <2>1. \A i \in DOMAIN hs \ {1} :
          (\A e \in {EndOf(hs[j]) : j \in 1..(i - 1)} : hs[i].org > e) =>
            (\A e \in {EndOf(hs[j]) : j \in 1..(i - 1)} : EndOf(hs[i - 1]) >= e)
    BY DEF NoLeapAfterReturn
  <2> HIDE DEF hs, n
  <2> SUFFICES ASSUME NEW k \in 1..(n - 1), \A j \in 1..k : hs[k + 1].org > EndOf(hs[j])
               PROVE  \A j \in 1..k : EndOf(hs[k]) >= EndOf(hs[j])
    OBVIOUS
  <2> DEFINE i == k + 1
  <2>2. i \in DOMAIN hs \ {1} /\ i - 1 = k
    BY <1>7
  <2> HIDE DEF i
  <2>3. \A e \in {EndOf(hs[j]) : j \in 1..(i - 1)} : hs[i].org > e
    BY <2>2 DEF i
  <2>4. \A e \in {EndOf(hs[j]) : j \in 1..(i - 1)} : EndOf(hs[i - 1]) >= e
    BY <2>1, <2>2, <2>3
  <2>. QED
    BY <2>2, <2>4
<1>11. b \in Int
  BY <1>4, <1>7, <1>8
<1> HIDE DEF b, hs
<1>12. /\ BinHolds(r, laid, b)
       /\ \A j \in 1..n : EndOf(hs[j]) - b <= r.maxseek
       /\ \E j \in 1..n : EndOf(hs[j]) - b = r.maxseek
  BY <1>1, <1>2, <1>4, <1>9, <1>10, <1>11, BinRun
<1> HIDE DEF z, r, n
<1> DEFINE top == r.maxseek
<1>13. /\ r.ok /\ r.out \in Seq(Byte) /\ Len(r.out) = top /\ top \in Nat
       /\ DOMAIN laid \subseteq b..(b + top - 1)
       /\ \A i \in 1..top :
            r.out[i] = IF b + i - 1 \in DOMAIN laid THEN laid[b + i - 1] ELSE Radix - 1
  BY <1>12 DEF BinHolds, BinSet
<1>14. Max(E) = b + top
  <2> DEFINE e == b + top
  <2>1. E = {EndOf(hs[k]) : k \in 1..n}
    BY <1>7
  <2> HIDE DEF E
  <2>2. PICK j \in 1..n : EndOf(hs[j]) - b = top
    BY <1>12
  <2>3. e \in E
    BY <1>8, <1>11, <1>13, <2>1, <2>2
  <2>4. ASSUME NEW k \in 1..n PROVE EndOf(hs[k]) <= e
    BY <1>8, <1>11, <1>12, <1>13
  <2>5. E \in SUBSET Int
    BY <1>8, <2>1
  <2> HIDE DEF e
  <2>6. \A y \in E : y <= e
    BY <2>1, <2>4
  <2>7. Max(E) = e
    BY <2>3, <2>5, <2>6, MaxIs
  <2>. QED
    BY <2>7 DEF e
<1> HIDE DEF top, E
<1>15. Len(r.out) = End - Base /\ DOMAIN r.out = 1..top
  <2>1. DOMAIN r.out = 1..Len(r.out)
    BY <1>13, LenProperties
  <2>. QED
    BY <1>5, <1>11, <1>13, <1>14, <2>1
<1>16. ASSUME NEW a \in DOMAIN laid
       PROVE  r.out[a - b + 1] = laid[a]
  <2> DEFINE i == a - b + 1
  <2>1. i \in 1..top /\ b + i - 1 = a
    BY <1>11, <1>13
  <2> HIDE DEF i
  <2>2. r.out[i] = laid[a]
    BY <1>13, <2>1
  <2>. QED
    BY <2>2 DEF i
<1>17. \A i \in DOMAIN r.out : (b + i - 1) \notin DOMAIN laid => r.out[i] = Radix - 1
  BY <1>13, <1>15
<1>. QED
  BY <1>5, <1>6, <1>13, <1>15, <1>16, <1>17

LEMMA BinOfFlat ==
  ASSUME OutInv, phase = "closed", laid # <<>>, InRange, format # "RAS"
  PROVE  LET bin == Ftobin(format, st.file)
         IN  /\ bin.ok /\ Len(bin.out) = End - Base
             /\ \A a \in DOMAIN laid : bin.out[a - Base + 1] = laid[a]
<1>1. PICK a \in Nat, d \in Seq(Byte) :
        /\ st.file = Lead(a) \o d /\ st.org = a + Len(d)
        /\ \A x \in DOMAIN laid : x \in a..(a + Len(d) - 1) /\ laid[x] = d[x - a + 1]
        /\ \E x \in DOMAIN laid : TRUE
        /\ laid \in Memories
  BY ClosedFlat
<1> DEFINE rr == Radix * Radix
<1>2. Len(d) \in Nat /\ rr \in Nat \ {0}
  BY LenProperties, ToolAssumption
<1>3. FormatKnown
  BY FormatIsKnown DEF OutInv
<1>4. End = a + Len(d)
  BY <1>1 DEF End
<1>5. Base = a /\ Ftobin(format, st.file) = [ok |-> TRUE, out |-> d]
  <2>1. CASE format = "RAW"
    <3>1. st.file = d
      BY <1>1, <2>1, ConcatEmptySeq DEF Lead
    <3>2. Start = a
      BY <1>1, <1>2, <3>1 DEF Start
    <3>. QED
      BY <2>1, <3>1, <3>2 DEF Base, Ftobin
  <2>2. CASE format = "DEFAULT"
    <3> DEFINE f == Word(a) \o d
    <3>1. st.file = f
      BY <1>1, <2>2 DEF Lead
    <3>2. WordAt(f, 1) = a % (Radix * Radix) /\ From(f, 3) = d
      BY LeadRead
    <3>3. a < rr
      <4>1. PICK x \in DOMAIN laid : TRUE
        BY <1>1
      <4>2. x \in a..(a + Len(d) - 1) /\ x < rr - 1
        BY <1>1, <4>1 DEF InRange
      <4> HIDE DEF rr
      <4>. QED
        BY <1>2, <4>2
    <3>4. a % (Radix * Radix) = a
      <4> HIDE DEF rr
      <4>1. a % rr = a
        BY <1>2, <3>3, SmallRemainder
      <4>. QED
        BY <4>1 DEF rr
    <3> HIDE DEF f
    <3>5. Base = a
      BY <2>2, <3>1, <3>2, <3>4 DEF Base
    <3>. QED
      BY <2>2, <3>1, <3>2, <3>5 DEF Ftobin
  <2>. QED
    BY <1>3, <2>1, <2>2 DEF FormatKnown
<1>6. Len(d) = End - Base
  BY <1>2, <1>4, <1>5
<1>. QED
  BY <1>1, <1>5, <1>6

LEMMA BinIsImage == OutInv => BinIsImageInOrder
<1> DEFINE bin == Ftobin(format, st.file)
<1> SUFFICES ASSUME OutInv, phase = "closed", laid # <<>>, InRange, LowestFirst,
                    format = "RAS" => NoLeapAfterReturn
             PROVE  /\ bin.ok /\ Len(bin.out) = End - Base
                    /\ \A a \in DOMAIN laid : bin.out[a - Base + 1] = laid[a]
                    /\ format = "RAS" => \A i \in DOMAIN bin.out :
                         (Base + i - 1) \notin DOMAIN laid => bin.out[i] = Radix - 1
  BY Zenon DEF BinIsImageInOrder
<1>1. CASE format = "RAS"
  BY <1>1, BinOfRas
<1>2. CASE format # "RAS"
  BY <1>2, BinOfFlat
<1>. QED
  BY <1>1, <1>2

(* What ftobin makes of the object file is the memory that was assembled,  *)
(* from its lowest address to its end, if the file begins with that        *)
(* address and no hunk leaps beyond the end right after a step back: every *)
(* byte at its distance from the origin, and in RAS 255 everywhere else.   *)
THEOREM BinHoldsImage == Spec => []BinIsImageInOrder
BY BinIsImage, OutputInductive, PTL
=============================================================================
