---------------------------- MODULE MnemF8_proofs ----------------------------
(***************************************************************************)
(* The instructions of the F8: what is written is final, a line keeps its  *)
(* length, codes can be told apart and branches reach their targets, for   *)
(* every source, every origin and every value of a symbol.                 *)
(***************************************************************************)
EXTENDS MnemF8, BasicFacts, FiniteSetTheorems

(* The rows of the table, handler by handler.                              *)
Codes(handler) == {<<r.name, r.opcode>> : r \in {q \in MneF8 : q.handler = handler}}

LEMMA RowTypes ==
  ASSUME NEW r \in MneF8
  PROVE  /\ r.handler \in {"mnemonic", "byteop", "wordop", "sreg", "branch", "bf_bt", "sl_sr",
                           "ins_outs", "lis", "lisu_lisl", "lr"}
         /\ r.opcode \in 0..255
  BY DEF MneF8, Rows, Row

LEMMA ImpliedRows ==
  ASSUME NEW r \in MneF8, r.handler = "mnemonic"
  PROVE  <<r.name, r.opcode>> \in
    {<<"adc", 142>>, <<"am", 136>>, <<"amd", 137>>, <<"clr", 112>>, <<"cm", 141>>,
    <<"com", 24>>, <<"di", 26>>, <<"ei", 27>>, <<"inc", 31>>, <<"lm", 22>>, <<"lnk", 25>>,
    <<"nm", 138>>, <<"nop", 43>>, <<"om", 139>>, <<"pk", 12>>, <<"pop", 28>>, <<"st", 23>>,
    <<"xdc", 44>>, <<"xm", 140>>}
  BY DEF MneF8, Rows, Row

LEMMA SregRows ==
  ASSUME NEW r \in MneF8, r.handler = "sreg"
  PROVE  <<r.name, r.opcode>> \in
    {<<"as", 192>>, <<"asd", 208>>, <<"ds", 48>>, <<"ns", 240>>, <<"xs", 224>>}
  BY DEF MneF8, Rows, Row

(* A byte is its bits.                                                     *)
LEMMA SameBits ==
  ASSUME NEW c \in 0..255, NEW d \in 0..255, \A bit \in Bits : Has(c, bit) <=> Has(d, bit)
  PROVE  c = d
<1>1. c \div 128 = d \div 128
  BY DEF Bits, Has
<1>2. c \div 64 = d \div 64
  <2>1. Has(c, 64) <=> Has(d, 64)
    BY DEF Bits
  <2>. QED
    BY <1>1, <2>1 DEF Has
<1>3. c \div 32 = d \div 32
  <2>1. Has(c, 32) <=> Has(d, 32)
    BY DEF Bits
  <2>. QED
    BY <1>2, <2>1 DEF Has
<1>4. c \div 16 = d \div 16
  <2>1. Has(c, 16) <=> Has(d, 16)
    BY DEF Bits
  <2>. QED
    BY <1>3, <2>1 DEF Has
<1>5. c \div 8 = d \div 8
  <2>1. Has(c, 8) <=> Has(d, 8)
    BY DEF Bits
  <2>. QED
    BY <1>4, <2>1 DEF Has
<1>6. c \div 4 = d \div 4
  <2>1. Has(c, 4) <=> Has(d, 4)
    BY DEF Bits
  <2>. QED
    BY <1>5, <2>1 DEF Has
<1>7. c \div 2 = d \div 2
  <2>1. Has(c, 2) <=> Has(d, 2)
    BY DEF Bits
  <2>. QED
    BY <1>6, <2>1 DEF Has
<1>8. c \div 1 = d \div 1
  <2>1. Has(c, 1) <=> Has(d, 1)
    BY DEF Bits
  <2>. QED
    BY <1>7, <2>1 DEF Has
<1>. QED
  BY <1>8

LEMMA OrIsSum ==
  ASSUME NEW a \in 0..255, NEW x \in 0..15,
         a % 16 = 0 \/ (a % 8 = 0 /\ x < 8)
  PROVE  Or(a, x) = a + x
<1> DEFINE P(c) == \A bit \in Bits : Has(c, bit) <=> Has(a, bit) \/ Has(x, bit)
<1>1. a + x \in 0..255 /\ P(a + x)
  <2>1. CASE a % 16 = 0
    <3>1. PICK q \in 0..15 : a = 16 * q
      <4>1. a \div 16 \in 0..15 /\ a = 16 * (a \div 16)
        BY <2>1
      <4>. QED
        BY <4>1
    <3>2. a + x \in 0..255
      BY <3>1
    <3>3. Has(a + x, 1) <=> Has(a, 1) \/ Has(x, 1)
      <4>1. (a + x) \div 1 = a \div 1 + x \div 1 /\ (a \div 1) % 2 = 0
        BY <3>1
      <4>. QED
        BY <4>1 DEF Has
    <3>4. Has(a + x, 2) <=> Has(a, 2) \/ Has(x, 2)
      <4>1. (a + x) \div 2 = a \div 2 + x \div 2 /\ (a \div 2) % 2 = 0
        BY <3>1
      <4>. QED
        BY <4>1 DEF Has
    <3>5. Has(a + x, 4) <=> Has(a, 4) \/ Has(x, 4)
      <4>1. (a + x) \div 4 = a \div 4 + x \div 4 /\ (a \div 4) % 2 = 0
        BY <3>1
      <4>. QED
        BY <4>1 DEF Has
    <3>6. Has(a + x, 8) <=> Has(a, 8) \/ Has(x, 8)
      <4>1. (a + x) \div 8 = a \div 8 + x \div 8 /\ (a \div 8) % 2 = 0
        BY <3>1
      <4>. QED
        BY <4>1 DEF Has
    <3>7. Has(a + x, 16) <=> Has(a, 16) \/ Has(x, 16)
      <4>1. (a + x) \div 16 = a \div 16 /\ x \div 16 = 0
        BY <3>1
      <4>. QED
        BY <4>1 DEF Has
    <3>8. Has(a + x, 32) <=> Has(a, 32) \/ Has(x, 32)
      <4>1. (a + x) \div 32 = a \div 32 /\ x \div 32 = 0
        BY <3>1
      <4>. QED
        BY <4>1 DEF Has
    <3>9. Has(a + x, 64) <=> Has(a, 64) \/ Has(x, 64)
      <4>1. (a + x) \div 64 = a \div 64 /\ x \div 64 = 0
        BY <3>1
      <4>. QED
        BY <4>1 DEF Has
    <3>10. Has(a + x, 128) <=> Has(a, 128) \/ Has(x, 128)
      <4>1. (a + x) \div 128 = a \div 128 /\ x \div 128 = 0
        BY <3>1
      <4>. QED
        BY <4>1 DEF Has
    <3>. QED
      BY <3>2, <3>3, <3>4, <3>5, <3>6, <3>7, <3>8, <3>9, <3>10 DEF Bits
  <2>2. CASE a % 8 = 0 /\ x < 8
    <3>1. PICK q \in 0..31 : a = 8 * q
      <4>1. a \div 8 \in 0..31 /\ a = 8 * (a \div 8)
        BY <2>2
      <4>. QED
        BY <4>1
    <3>2. a + x \in 0..255
      BY <2>2, <3>1
    <3>3. Has(a + x, 1) <=> Has(a, 1) \/ Has(x, 1)
      <4>1. (a + x) \div 1 = a \div 1 + x \div 1 /\ (a \div 1) % 2 = 0
        BY <3>1, <2>2
      <4>. QED
        BY <4>1 DEF Has
    <3>4. Has(a + x, 2) <=> Has(a, 2) \/ Has(x, 2)
      <4>1. (a + x) \div 2 = a \div 2 + x \div 2 /\ (a \div 2) % 2 = 0
        BY <3>1, <2>2
      <4>. QED
        BY <4>1 DEF Has
    <3>5. Has(a + x, 4) <=> Has(a, 4) \/ Has(x, 4)
      <4>1. (a + x) \div 4 = a \div 4 + x \div 4 /\ (a \div 4) % 2 = 0
        BY <3>1, <2>2
      <4>. QED
        BY <4>1 DEF Has
    <3>6. Has(a + x, 8) <=> Has(a, 8) \/ Has(x, 8)
      <4>1. (a + x) \div 8 = a \div 8 /\ x \div 8 = 0
        BY <3>1, <2>2
      <4>. QED
        BY <4>1 DEF Has
    <3>7. Has(a + x, 16) <=> Has(a, 16) \/ Has(x, 16)
      <4>1. (a + x) \div 16 = a \div 16 /\ x \div 16 = 0
        BY <3>1, <2>2
      <4>. QED
        BY <4>1 DEF Has
    <3>8. Has(a + x, 32) <=> Has(a, 32) \/ Has(x, 32)
      <4>1. (a + x) \div 32 = a \div 32 /\ x \div 32 = 0
        BY <3>1, <2>2
      <4>. QED
        BY <4>1 DEF Has
    <3>9. Has(a + x, 64) <=> Has(a, 64) \/ Has(x, 64)
      <4>1. (a + x) \div 64 = a \div 64 /\ x \div 64 = 0
        BY <3>1, <2>2
      <4>. QED
        BY <4>1 DEF Has
    <3>10. Has(a + x, 128) <=> Has(a, 128) \/ Has(x, 128)
      <4>1. (a + x) \div 128 = a \div 128 /\ x \div 128 = 0
        BY <3>1, <2>2
      <4>. QED
        BY <4>1 DEF Has
    <3>. QED
      BY <3>2, <3>3, <3>4, <3>5, <3>6, <3>7, <3>8, <3>9, <3>10 DEF Bits
  <2>. QED
    BY <2>1, <2>2
<1>2. ASSUME NEW c \in 0..255, P(c) PROVE c = a + x
  <2>1. \A bit \in Bits : Has(c, bit) <=> Has(a + x, bit)
    BY <1>1, <1>2
  <2>. QED
    BY <1>1, <2>1, SameBits
<1> HIDE DEF P
<1>3. Or(a, x) = CHOOSE c \in 0..255 : P(c)
  BY DEF Or, P
<1>. QED
  BY <1>1, <1>2, <1>3

LEMMA OrIsByte ==
  ASSUME NEW a, NEW b
  PROVE  Or(a, b) \in 0..255
<1> DEFINE P(c) == \A bit \in Bits : Has(c, bit) <=> Has(a, bit) \/ Has(b, bit)
           x(bit) == IF Has(a, bit) \/ Has(b, bit) THEN 1 ELSE 0
           y == x(1) + 2 * x(2) + 4 * x(4) + 8 * x(8)
           z == x(16) + 2 * x(32) + 4 * x(64) + 8 * x(128)
           c == y + 16 * z
<1>1. \A bit \in Bits : x(bit) \in {0, 1} /\ (x(bit) = 1 <=> Has(a, bit) \/ Has(b, bit))
  OBVIOUS
<1>2. Bits = {1, 2, 4, 8, 16, 32, 64, 128}
  BY DEF Bits
<1> HIDE DEF x
<1>3. \A bit \in Bits : x(bit) \in 0..1
  BY <1>1
<1>4. y \in 0..15 /\ z \in 0..15
  BY <1>2, <1>3
<1>5. /\ (y \div 1) % 2 = x(1) /\ (y \div 2) % 2 = x(2)
      /\ (y \div 4) % 2 = x(4) /\ (y \div 8) % 2 = x(8)
  BY <1>2, <1>3
<1>6. /\ (z \div 1) % 2 = x(16) /\ (z \div 2) % 2 = x(32)
      /\ (z \div 4) % 2 = x(64) /\ (z \div 8) % 2 = x(128)
  BY <1>2, <1>3
<1> HIDE DEF y, z
<1>7. c \in 0..255
  BY <1>4
<1>8. /\ (c \div 1) % 2 = (y \div 1) % 2 /\ (c \div 2) % 2 = (y \div 2) % 2
      /\ (c \div 4) % 2 = (y \div 4) % 2 /\ (c \div 8) % 2 = (y \div 8) % 2
  BY <1>4
<1>9. /\ c \div 16 = z \div 1 /\ c \div 32 = z \div 2
      /\ c \div 64 = z \div 4 /\ c \div 128 = z \div 8
  BY <1>4
<1> HIDE DEF c
<1>10. \A bit \in Bits : (c \div bit) % 2 = x(bit)
  BY <1>2, <1>5, <1>6, <1>8, <1>9
<1>11. P(c)
  BY <1>1, <1>10 DEF Has
<1> HIDE DEF P
<1>12. Or(a, b) = CHOOSE d \in 0..255 : P(d)
  BY DEF Or, P
<1>. QED
  BY <1>7, <1>11, <1>12

(* The remaining rows.                                                     *)
LEMMA OtherRows ==
  ASSUME NEW r \in MneF8
  PROVE  /\ r.handler = "byteop" => <<r.name, r.opcode>> \in
              {<<"ai", 36>>, <<"ci", 37>>, <<"in", 38>>, <<"li", 32>>, <<"ni", 33>>,
               <<"oi", 34>>, <<"out", 39>>, <<"xi", 35>>}
         /\ r.handler = "wordop" => <<r.name, r.opcode>> \in {<<"dci", 42>>, <<"jmp", 41>>, <<"pi", 40>>}
         /\ r.handler = "branch" => <<r.name, r.opcode>> \in
              {<<"bc", 130>>, <<"bm", 145>>, <<"bnc", 146>>, <<"bno", 152>>, <<"bnz", 148>>,
               <<"bp", 129>>, <<"br", 144>>, <<"br7", 143>>, <<"bz", 132>>}
         /\ r.handler = "bf_bt" => <<r.name, r.opcode>> \in {<<"bf", 144>>, <<"bt", 128>>}
         /\ r.handler = "sl_sr" => <<r.name, r.opcode>> \in {<<"sl", 19>>, <<"sr", 18>>}
         /\ r.handler = "ins_outs" => <<r.name, r.opcode>> \in {<<"ins", 160>>, <<"outs", 176>>}
         /\ r.handler = "lis" => <<r.name, r.opcode>> \in {<<"lis", 112>>}
         /\ r.handler = "lisu_lisl" => <<r.name, r.opcode>> \in {<<"lisl", 104>>, <<"lisu", 96>>}
         /\ r.handler = "lr" => <<r.name, r.opcode>> \in {<<"lr", 0>>}
  BY DEF MneF8, Rows, Row

-----------------------------------------------------------------------------
(* Symbols and operands.                                                   *)
Symbol == [n : Long, unk : BOOLEAN]
Tables == [u : Symbol, self : Symbol]

LEMMA Widths ==
  /\ ULong \in Nat /\ ULong > 0 /\ Long \subseteq Int /\ 0 \in 0..(ULong - 1)
  /\ \A n \in Int : n % ULong \in 0..(ULong - 1)
  /\ \A n \in Long : n >= 0 => n % ULong = n
  /\ \A n \in Long : n < 0 => n % ULong = n + ULong
  /\ \A n \in Long : n % ULong >= ULong \div 2 <=> n < 0
  /\ \A n \in Long : n < 0 => n % ULong > 256 * 256 - 1
<1> DEFINE h == ULong \div 2
<1>1. ULong \in Nat /\ h \in Nat /\ ULong = 2 * h /\ h >= 256 * 256 /\ h > 0
  BY F8Assumption
<1>2. Long = (0 - h)..(h - 1)
  BY DEF Long
<1> HIDE DEF h
<1>3. ASSUME NEW n \in Int PROVE n % ULong \in 0..(ULong - 1)
  BY <1>1
<1>4. ASSUME NEW n \in Long
      PROVE  /\ n >= 0 => n % ULong = n
             /\ n < 0 => n % ULong = n + ULong
  <2>1. n \in Int /\ ULong \in Nat \ {0} /\ -ULong <= n /\ n < ULong
    BY <1>1, <1>2
  <2>2. /\ 0 <= n /\ n < ULong => n % ULong = n
        /\ -ULong <= n /\ n < 0 => n % ULong = n + ULong
    BY <2>1, SmallRemainder
  <2>. QED
    BY <2>1, <2>2
<1>5. ASSUME NEW n \in Long
      PROVE  n % ULong >= h <=> n < 0
  BY <1>1, <1>2, <1>4
<1>6. ASSUME NEW n \in Long, n < 0 PROVE n % ULong > 256 * 256 - 1
  BY <1>1, <1>2, <1>4, <1>6
<1>7. Long \subseteq Int
  BY <1>1, <1>2
<1>. QED
  BY <1>1, <1>3, <1>4, <1>5, <1>6, <1>7 DEF h

LEMMA Unsigned ==
  ASSUME NEW n \in Long
  PROVE  /\ n \in Int /\ n % ULong \in Nat
         /\ n % ULong <= 256 * 256 - 1 => n = n % ULong
BY Widths

LEMMA Constants ==
  \A l \in Lines : /\ l.mne \in MneF8 /\ l.ops \in Seq(Operand)
                   /\ l.mne.handler = "mnemonic" => l.ops = <<>>
                   /\ \A i \in DOMAIN l.ops : l.ops[i].sym # None => l.ops[i].word = "expr"
<1>1. \A l \in [mne : MneF8, ops : Seq(Operand)] : l.mne \in MneF8 /\ l.ops \in Seq(Operand)
  OBVIOUS
<1>. QED
  BY <1>1, F8Assumption

LEMMA TableFacts ==
  ASSUME NEW t \in Tables, NEW g \in Place
  PROVE  /\ GetPC(g) \in Nat /\ GetPC(g) \in Long /\ IsPCKnown(g) \in BOOLEAN
         /\ Programlabel(t, g) \in Tables
         /\ Programlabel(t, g).u = t.u
         /\ Programlabel(t, g).self = [n |-> GetPC(g), unk |-> ~IsPCKnown(g)]
<1>1. GetPC(g) \in Nat /\ GetPC(g) \in Long /\ IsPCKnown(g) \in BOOLEAN
  BY DEF Place, GetPC, IsPCKnown
<1>. QED
  BY <1>1 DEF Tables, Symbol, Programlabel

LEMMA EmptyIsNoWord ==
  Empty \notin {"expr", "bad", "a", "dc0", "dc", "h", "is", "k", "ku", "kl", "pc0", "p0", "pc1", "p",
                "q", "qu", "ql", "w", "s", "i", "d", "j", "hu", "hl", "(is)", "(is)+", "(is)-"}
BY Zenon DEF Empty

(* What parse_value makes of an operand: its value, another pass, or an    *)
(* error.                                                                  *)
Sound(op) == op \in Operand /\ (op.sym # None => op.word = "expr")
Unsettled(op, t) == op.sym # None /\ t[op.sym].unk

Parsed(op, t, p) ==
  /\ p.value \in 0..(ULong - 1) /\ p.unk \in BOOLEAN /\ p.error \in {0, 1}
  /\ p.unk => p.value = 0 /\ p.error = 0
  /\ p.error = 0 /\ ~p.unk =>
       /\ op.word = "expr" /\ ~Unsettled(op, t) /\ Exact(op, t) \in Long
       /\ p.value = Exact(op, t) % ULong
  /\ op.word = "expr" => p.error = 0 /\ (p.unk <=> Unsettled(op, t))

LEMMA ParseFacts ==
  ASSUME NEW t \in Tables, NEW op, Sound(op)
  PROVE  Parsed(op, t, ParseValue(<<op>>, t))
<1> DEFINE p == ParseValue(<<op>>, t)
<1>1. /\ op.n \in Long /\ op.sym \in {None, "u", "self"} /\ Len(<<op>>) = 1 /\ <<op>>[1] = op
  BY DEF Sound, Operand
<1>2. op.sym # None => t[op.sym].n \in Long /\ t[op.sym].unk \in BOOLEAN
  BY <1>1 DEF Tables, Symbol, None
<1>3. ULong \in Nat /\ Long \subseteq Int /\ \A n \in Long : n % ULong \in 0..(ULong - 1)
  BY Widths
<1>8. 0 \in 0..(ULong - 1)
  BY Widths
<1> SUFFICES Parsed(op, t, p)
  BY DEF p
<1> HIDE DEF p
<1>4. CASE op.word = Empty \/ op.word = "bad"
  <2>1. p = [value |-> 0, unk |-> FALSE, error |-> 1]
    BY <1>1, <1>4, EmptyIsNoWord DEF p, ParseValue
  <2>2. op.word # "expr"
    BY <1>4, EmptyIsNoWord
  <2>. QED
    BY <1>8, <2>1, <2>2 DEF Parsed
<1>5. CASE op.word = "expr" /\ op.sym = None
  <2>1. p = [value |-> op.n % ULong, unk |-> FALSE, error |-> 0] /\ Exact(op, t) = op.n
    BY <1>1, <1>5, EmptyIsNoWord DEF p, ParseValue, Exact
  <2>. QED
    BY <1>1, <1>3, <1>5, <2>1 DEF Parsed, Unsettled
<1>6. CASE op.word = "expr" /\ op.sym # None
  <2>1. CASE t[op.sym].unk
    <3>1. p = [value |-> 0, unk |-> TRUE, error |-> 0]
      BY <1>1, <1>6, <2>1, EmptyIsNoWord DEF p, ParseValue
    <3>. QED
      BY <1>6, <1>8, <2>1, <3>1 DEF Parsed, Unsettled
  <2>2. CASE ~t[op.sym].unk
    <3>1. p = [value |-> t[op.sym].n % ULong, unk |-> FALSE, error |-> 0] /\ Exact(op, t) = t[op.sym].n
      BY <1>1, <1>6, <2>2, EmptyIsNoWord DEF p, ParseValue, Exact
    <3>. QED
      BY <1>2, <1>3, <1>6, <2>2, <3>1 DEF Parsed, Unsettled
  <2>. QED
    BY <2>1, <2>2
<1>7. CASE op.word \notin {Empty, "bad", "expr"}
  <2>1. p = [value |-> 0, unk |-> TRUE, error |-> 0]
    BY <1>1, <1>7 DEF p, ParseValue
  <2>. QED
    BY <1>7, <1>8, <2>1 DEF Parsed
<1>. QED
  BY <1>4, <1>5, <1>6, <1>7

LEMMA ParseMany ==
  ASSUME NEW t, NEW ops, Len(ops) # 1
  PROVE  ParseValue(ops, t) = [value |-> 0, unk |-> FALSE, error |-> 1]
BY DEF ParseValue

(* Registers.                                                              *)
Arguments(op, t, r) ==
  /\ r.unk \in BOOLEAN /\ r.error \in 0..2
  /\ r.error = 0 /\ ~r.unk => ~Unsettled(op, t) /\ r.reg = Argument(op, t)

LEMMA NamesFacts ==
  ASSUME NEW word \in ScratchNames
  PROVE  ScratchNumber(word) \in 9..14 /\ word \notin {"expr", "bad"}
BY DEF ScratchNames, ScratchNumber

LEMMA ArgumentFacts ==
  ASSUME NEW op, NEW t
  PROVE  /\ op.word = "expr" => Argument(op, t) = Exact(op, t)
         /\ op.word \in ScratchNames => Argument(op, t) = ScratchNumber(op.word)
         /\ op.word # "expr" /\ op.word \notin ScratchNames
              => Argument(op, t) = ParseSpecialRegister(op.word)
<1>1. op.word \in ScratchNames => op.word # "expr"
  BY NamesFacts
<1>. QED
  BY <1>1 DEF Argument

LEMMA ScratchFacts ==
  ASSUME NEW t \in Tables, NEW op, Sound(op), NEW b \in 0..255
  PROVE  LET r == ParseScratchpadRegister(<<op>>, t, b)
         IN  /\ Arguments(op, t, r) /\ r.reg \in 0..255
             /\ r.error = 0 /\ ~r.unk => r.reg \in 0..14
<1> DEFINE r == ParseScratchpadRegister(<<op>>, t, b)
           p == ParseValue(<<op>>, t)
           word == op.word
<1>1. Len(<<op>>) = 1 /\ <<op>>[1] = op
  OBVIOUS
<1>2. op.sym # None => op.word = "expr"
  BY DEF Sound
<1> SUFFICES /\ Arguments(op, t, r) /\ r.reg \in 0..255
             /\ r.error = 0 /\ ~r.unk => r.reg \in 0..14
  OBVIOUS
<1>3. CASE word \in ScratchNames
  <2>1. r = [reg |-> ScratchNumber(word), unk |-> FALSE, error |-> 0]
    BY <1>1, <1>3 DEF ParseScratchpadRegister
  <2>2. word # "expr" /\ ScratchNumber(word) \in 9..14
    BY <1>3, NamesFacts
  <2>3. Argument(op, t) = ScratchNumber(word)
    BY <1>3, ArgumentFacts
  <2> DEFINE v == ScratchNumber(word)
             a == Argument(op, t)
  <2> HIDE DEF r, v, a
  <2>4. a = v /\ v \in 9..14 /\ r = [reg |-> v, unk |-> FALSE, error |-> 0]
    BY <2>1, <2>2, <2>3 DEF a, v
  <2>5. ~Unsettled(op, t)
    BY <1>2, <2>2 DEF Unsettled
  <2>6. r.reg = a /\ ~r.unk /\ r.error = 0 /\ r.reg \in 9..14 /\ r.unk \in BOOLEAN
    BY <2>4
  <2>. QED
    BY <2>5, <2>6 DEF Arguments, a
<1>4. CASE word \notin ScratchNames
  <2>1. r = [reg |-> IF p.unk THEN b ELSE p.value % 256, unk |-> p.unk,
             error |-> p.error + Truth(p.value > 14)]
    BY <1>1, <1>4 DEF ParseScratchpadRegister
  <2>2. Parsed(op, t, p)
    BY ParseFacts
  <2> HIDE DEF r, p
  <2>3. p.value \in Nat /\ p.value % 256 \in 0..255 /\ Truth(p.value > 14) \in {0, 1}
    <3>1. ULong \in Nat
      BY Widths
    <3>2. p.value \in Nat
      BY <2>2, <3>1 DEF Parsed
    <3>. QED
      BY <3>2 DEF Truth
  <2>4. ASSUME p.error = 0, ~p.unk, ~(p.value > 14)
        PROVE  p.value % 256 = Argument(op, t) /\ p.value % 256 \in 0..14 /\ ~Unsettled(op, t)
    <3>1. op.word = "expr" /\ p.value = Exact(op, t) % ULong /\ Exact(op, t) \in Long /\ ~Unsettled(op, t)
      BY <2>2, <2>4 DEF Parsed
    <3>2. Argument(op, t) = Exact(op, t)
      BY <3>1, ArgumentFacts
    <3>3. p.value = Exact(op, t)
      <4> DEFINE n == Exact(op, t)
      <4> HIDE DEF n
      <4>1. n \in Long /\ p.value = n % ULong /\ p.value <= 14
        BY <2>3, <2>4, <3>1 DEF n
      <4>. QED
        BY <4>1, Unsigned DEF n
    <3>. QED
      BY <2>3, <2>4, <3>1, <3>2, <3>3
  <2>5. p.unk \in BOOLEAN /\ p.error \in {0, 1} /\ (p.unk => p.value = 0)
    BY <2>2 DEF Parsed
  <2>. QED
    BY <2>1, <2>3, <2>4, <2>5 DEF Arguments, Truth, r
<1>. QED
  BY <1>3, <1>4

-----------------------------------------------------------------------------
(* What the handlers give.                                                 *)
Fields(ops) == ops \in Seq(Operand) /\ \A i \in DOMAIN ops : Sound(ops[i])

LEMMA SingleField ==
  ASSUME NEW ops, Fields(ops), Len(ops) = 1
  PROVE  ops = <<ops[1]>> /\ Sound(ops[1]) /\ DOMAIN ops = {1}
BY DEF Fields

(* A handler that parses one value.                                        *)
Valued(ops, t, p) ==
  /\ p.value \in Nat /\ p.unk \in BOOLEAN /\ p.error \in {0, 1}
  /\ p.error = 0 /\ ~p.unk =>
       /\ Len(ops) = 1 /\ ops[1].word = "expr" /\ ~Unsettled(ops[1], t)
       /\ Argument(ops[1], t) \in Long /\ p.value = Argument(ops[1], t) % ULong
       /\ p.value <= 256 * 256 - 1 => p.value = Argument(ops[1], t)

LEMMA ValueFacts ==
  ASSUME NEW t \in Tables, NEW ops, Fields(ops)
  PROVE  Valued(ops, t, ParseValue(ops, t))
<1> DEFINE p == ParseValue(ops, t)
<1>1. CASE Len(ops) = 1
  <2>1. ops = <<ops[1]>> /\ Sound(ops[1])
    BY <1>1, SingleField
  <2>2. Parsed(ops[1], t, p)
    BY <2>1, ParseFacts
  <2> HIDE DEF p
  <2>3. ULong \in Nat
    BY Widths
  <2>4. ASSUME p.error = 0, ~p.unk
        PROVE  /\ ops[1].word = "expr" /\ ~Unsettled(ops[1], t)
               /\ Argument(ops[1], t) \in Long /\ p.value = Argument(ops[1], t) % ULong
               /\ p.value <= 256 * 256 - 1 => p.value = Argument(ops[1], t)
    <3>1. /\ ops[1].word = "expr" /\ ~Unsettled(ops[1], t)
          /\ Exact(ops[1], t) \in Long /\ p.value = Exact(ops[1], t) % ULong
      BY <2>2, <2>4 DEF Parsed
    <3>2. Argument(ops[1], t) = Exact(ops[1], t)
      BY <3>1, ArgumentFacts
    <3> DEFINE n == Argument(ops[1], t)
    <3> HIDE DEF n
    <3>3. n \in Long /\ p.value = n % ULong
      BY <3>1, <3>2 DEF n
    <3>4. p.value <= 256 * 256 - 1 => p.value = n
      BY <3>3, Unsigned
    <3>. QED
      BY <3>1, <3>3, <3>4 DEF n
  <2>5. p.value \in Nat /\ p.unk \in BOOLEAN /\ p.error \in {0, 1}
    BY <2>2, <2>3 DEF Parsed
  <2>. QED
    BY <1>1, <2>4, <2>5 DEF Valued, p
<1>2. CASE Len(ops) # 1
  <2>1. p = [value |-> 0, unk |-> FALSE, error |-> 1]
    BY <1>2, ParseMany
  <2>. QED
    BY <2>1 DEF Valued
<1>. QED
  BY <1>1, <1>2

(* An outcome, field by field.                                             *)
Bytes == Seq(0..255)
Outcomes == [code : Bytes, errors : Nat, redos : Nat, label : BOOLEAN, abort : BOOLEAN]
Is(o, code, errors, redos, label) ==
  /\ o \in Outcomes /\ ~o.abort
  /\ o.code = code /\ o.errors = errors /\ o.redos = redos /\ (o.label <=> label)

LEMMA OutcomeIs == Is(Outcome, <<>>, 0, 0, FALSE)
BY DEF Is, Outcomes, Bytes, Outcome

LEMMA LabelIs ==
  ASSUME NEW o, NEW c, NEW e, NEW r, NEW l, Is(o, c, e, r, l)
  PROVE  Is([o EXCEPT !.label = TRUE], c, e, r, TRUE)
BY DEF Is, Outcomes

LEMMA LabelledIs == Is(Labelled, <<>>, 0, 0, TRUE)
BY OutcomeIs, LabelIs DEF Labelled

LEMMA EmitIs ==
  ASSUME NEW o, NEW c, NEW e, NEW r, NEW l, Is(o, c, e, r, l), NEW x \in Bytes
  PROVE  Is(Emit(o, x), x, e, r, l)
BY DEF Is, Outcomes, Emit

LEMMA ErrorIs ==
  ASSUME NEW o, NEW c, NEW e, NEW r, NEW l, Is(o, c, e, r, l)
  PROVE  Is(Error(o), c, e + 1, r, l)
BY DEF Is, Outcomes, Error

LEMMA CountIs ==
  ASSUME NEW o, NEW c, NEW e, NEW r, NEW l, Is(o, c, e, r, l), NEW d \in Nat
  PROVE  Is([o EXCEPT !.errors = @ + d], c, e + d, r, l)
BY DEF Is, Outcomes

LEMMA RangedIs ==
  ASSUME NEW o, NEW c, NEW e, NEW r, NEW l, Is(o, c, e, r, l), NEW v, NEW m
  PROVE  Is(Ranged(o, v, m), c, e + Truth(v > m), r, l)
BY DEF Is, Outcomes, Ranged, Truth

LEMMA UnresolvedIs ==
  ASSUME NEW o, NEW c, NEW e, NEW r, NEW l, Is(o, c, e, r, l),
         NEW p, p.error \in Nat, p.unk \in BOOLEAN
  PROVE  Is(Unresolved(o, p), c, e + p.error, r + Truth(p.unk), l)
<1> DEFINE d == Truth(p.unk)
           f == p.error
           q == [o EXCEPT !.redos = @ + d]
<1>1. d \in Nat /\ f \in Nat
  BY DEF Truth
<1>2. Unresolved(o, p) = [q EXCEPT !.errors = @ + f]
  BY DEF Unresolved
<1> HIDE DEF d, f
<1>3. Is(q, c, e, r + d, l)
  BY <1>1 DEF Is, Outcomes
<1> HIDE DEF q
<1>4. Is([q EXCEPT !.errors = @ + f], c, e + f, r + d, l)
  BY <1>1, <1>3 DEF Is, Outcomes
<1>. QED
  BY <1>2, <1>4 DEF d, f

LEMMA FieldsIs ==
  ASSUME NEW o, NEW c, NEW e, NEW r, NEW l, Is(o, c, e, r, l)
  PROVE  /\ o.code = c /\ o.errors = e /\ o.redos = r /\ (o.label <=> l) /\ ~o.abort
         /\ e \in Nat /\ r \in Nat /\ o.label \in BOOLEAN /\ o.abort \in BOOLEAN
BY DEF Is, Outcomes

LEMMA AbortIs ==
  ASSUME NEW o, NEW c, NEW e, NEW r, NEW l, Is(o, c, e, r, l)
  PROVE  LET a == Abort(o)
         IN  /\ a.errors = e /\ a.redos = r /\ a.abort /\ (a.label <=> l)
             /\ a.abort \in BOOLEAN /\ a.label \in BOOLEAN
BY DEF Is, Outcomes, Abort

LEMMA Truths == \A b \in BOOLEAN : Truth(b) \in {0, 1} /\ (Truth(b) = 0 <=> ~b)
BY DEF Truth

(* Whatever a line does, it counts, and it has its length when it is       *)
(* accepted.                                                               *)
Tidy(o, n) ==
  /\ o.errors \in Nat /\ o.redos \in Nat /\ o.label \in BOOLEAN /\ o.abort \in BOOLEAN
  /\ o.errors = 0 /\ ~o.abort => Len(o.code) = n

(* What a field in the low bits of a byte gives.                           *)
Packed(ops, t, base, max, o) ==
  /\ Tidy(o, 1) /\ ~o.abort /\ o.label
  /\ o.errors = 0 /\ o.redos = 0 =>
       /\ Len(ops) = 1 /\ ops[1].word = "expr" /\ ~Unsettled(ops[1], t)
       /\ Argument(ops[1], t) \in 0..max
       /\ o.code = <<base + Argument(ops[1], t)>>

LEMMA FieldFacts ==
  ASSUME NEW t \in Tables, NEW ops, Fields(ops), NEW max \in {7, 15},
         NEW base \in 0..255, base % 16 = 0 \/ (base % 8 = 0 /\ max = 7),
         NEW o, o = Field(ops, t, base, max)
  PROVE  Packed(ops, t, base, max, o)
<1> DEFINE p == ParseValue(ops, t)
           low == p.value % (max + 1)
           err == 0 + p.error + Truth(p.value > max)
           red == 0 + Truth(p.unk)
<1>2. Valued(ops, t, p)
  BY ValueFacts
<1>6. /\ p.value \in Nat /\ p.unk \in BOOLEAN /\ p.error \in {0, 1} /\ p.error \in Nat
      /\ Truth(p.value > max) \in {0, 1} /\ (Truth(p.value > max) = 0 <=> ~(p.value > max))
      /\ Truth(p.unk) \in {0, 1} /\ (Truth(p.unk) = 0 <=> ~p.unk)
  <2>1. p.value \in Nat /\ p.unk \in BOOLEAN /\ p.error \in {0, 1}
    BY <1>2 DEF Valued
  <2>2. (p.value > max) \in BOOLEAN
    OBVIOUS
  <2> HIDE DEF p
  <2>3. Truth(p.unk) \in {0, 1} /\ (Truth(p.unk) = 0 <=> ~p.unk)
    BY <2>1, Truths
  <2>4. Truth(p.value > max) \in {0, 1} /\ (Truth(p.value > max) = 0 <=> ~(p.value > max))
    BY <2>2, Truths
  <2>. QED
    BY <2>1, <2>3, <2>4
<1>1. Is(o, <<Or(base, low)>>, err, red, TRUE)
  <2> DEFINE o1 == Unresolved(Labelled, p)
             o2 == Ranged(o1, p.value, max)
  <2>1. Is(o1, <<>>, 0 + p.error, 0 + Truth(p.unk), TRUE)
    <3>1. Is(Labelled, <<>>, 0, 0, TRUE)
      BY LabelledIs
    <3>2. p.error \in Nat /\ p.unk \in BOOLEAN
      BY <1>6
    <3> HIDE DEF p
    <3>. QED
      BY <3>1, <3>2, UnresolvedIs
  <2>2. o = Emit(o2, <<Or(base, low)>>)
    BY DEF Field
  <2> HIDE DEF o1
  <2>3. Is(o2, <<>>, err, red, TRUE)
    BY <2>1, RangedIs
  <2>4. <<Or(base, low)>> \in Bytes
    BY OrIsByte DEF Bytes
  <2> HIDE DEF o2
  <2>. QED
    BY <2>2, <2>3, <2>4, EmitIs
<1> HIDE DEF p
<1>5. /\ o.code = <<Or(base, low)>> /\ o.errors = err /\ o.redos = red /\ o.label /\ ~o.abort
      /\ err \in Nat /\ red \in Nat /\ o.label \in BOOLEAN /\ o.abort \in BOOLEAN
  <2> HIDE DEF err, red
  <2>. QED
    BY <1>1 DEF Is, Outcomes
<1>3. Tidy(o, 1) /\ ~o.abort /\ o.label
  <2>1. Len(o.code) = 1
    BY <1>5
  <2>. QED
    BY <1>5, <2>1 DEF Tidy
<1>4. ASSUME o.errors = 0, o.redos = 0
      PROVE  /\ Len(ops) = 1 /\ ops[1].word = "expr" /\ ~Unsettled(ops[1], t)
             /\ Argument(ops[1], t) \in 0..max
             /\ o.code = <<base + Argument(ops[1], t)>>
  <2>1. p.error = 0 /\ ~p.unk /\ ~(p.value > max)
    BY <1>4, <1>5, <1>6
  <2>2. /\ Len(ops) = 1 /\ ops[1].word = "expr" /\ ~Unsettled(ops[1], t)
        /\ p.value = Argument(ops[1], t) /\ p.value \in 0..max
    BY <1>2, <1>6, <2>1 DEF Valued
  <2>3. low = p.value
    BY <2>2
  <2>4. Or(base, low) = base + p.value
    <3>1. p.value \in 0..15 /\ (base % 16 = 0 \/ (base % 8 = 0 /\ p.value < 8))
      BY <2>2
    <3>. QED
      BY <2>3, <3>1, OrIsSum
  <2>. QED
    BY <1>5, <2>2, <2>4
<1>. QED
  BY <1>3, <1>4 DEF Packed
-----------------------------------------------------------------------------
(* What bytes mean, read like the processor reads them.                    *)
Signed(byte) == IF byte > 127 THEN byte - 256 ELSE byte
ImpliedName(b) ==
  CASE b = 142 -> "adc" [] b = 136 -> "am" [] b = 137 -> "amd" [] b = 141 -> "cm" [] b = 24 -> "com"
    [] b = 26 -> "di" [] b = 27 -> "ei" [] b = 31 -> "inc" [] b = 22 -> "lm" [] b = 25 -> "lnk"
    [] b = 138 -> "nm" [] b = 43 -> "nop" [] b = 139 -> "om" [] b = 12 -> "pk" [] b = 28 -> "pop"
    [] b = 23 -> "st" [] b = 44 -> "xdc" [] b = 140 -> "xm"
Moves == (0..11) \cup (13..17) \cup {29, 30}
MoveOf(b) == CHOOSE pair \in LrPairs : pair[3] = b
DecodeOne(b) ==
  IF b \in Moves THEN <<"lr", MoveOf(b)[1], MoveOf(b)[2]>>
  ELSE IF b \in 18..21
       THEN IF b % 2 = 0 THEN <<"sr", IF b = 18 THEN 1 ELSE 4>> ELSE <<"sl", IF b = 19 THEN 1 ELSE 4>>
  ELSE IF b \in 48..62 THEN <<"ds", b - 48>>
  ELSE IF b \in 64..78 THEN <<"lr", REG.A, b - 64>>
  ELSE IF b \in 80..94 THEN <<"lr", b - 80, REG.A>>
  ELSE IF b \in 96..103 THEN <<"lisu", b - 96>>
  ELSE IF b \in 104..111 THEN <<"lisl", b - 104>>
  ELSE IF b \in 112..127 THEN <<"lis", b - 112>>
  ELSE IF b \in 160..175 THEN <<"ins", b - 160>>
  ELSE IF b \in 176..191 THEN <<"outs", b - 176>>
  ELSE IF b \in 192..206 THEN <<"as", b - 192>>
  ELSE IF b \in 208..222 THEN <<"asd", b - 208>>
  ELSE IF b \in 224..238 THEN <<"xs", b - 224>>
  ELSE IF b \in 240..254 THEN <<"ns", b - 240>>
  ELSE <<ImpliedName(b)>>
DecodeTwo(b, arg) ==
  IF b \in 128..135 THEN <<"bt", b - 128, Signed(arg) + 1>>
  ELSE IF b = 143 THEN <<"br7", Signed(arg) + 1>>
  ELSE IF b \in 144..159 THEN <<"bf", b - 144, Signed(arg) + 1>>
  ELSE <<CASE b = 32 -> "li" [] b = 33 -> "ni" [] b = 34 -> "oi" [] b = 35 -> "xi"
           [] b = 36 -> "ai" [] b = 37 -> "ci" [] b = 38 -> "in" [] b = 39 -> "out", arg>>
DecodeThree(b, arg) ==
  <<CASE b = 40 -> "pi" [] b = 41 -> "jmp" [] b = 42 -> "dci", arg>>
Decode(code) ==
  IF Len(code) = 1 THEN DecodeOne(code[1])
  ELSE IF Len(code) = 2 THEN DecodeTwo(code[1], code[2])
  ELSE DecodeThree(code[1], 256 * code[2] + code[3])

(* The names of the long forms.                                            *)
LEMMA LongNames ==
  /\ \A name \in {"adc", "am", "amd", "cm", "com", "di", "ei", "inc", "lm", "lnk", "nm", "nop",
                  "om", "pk", "pop", "st", "xdc", "xm", "ai", "ci", "in", "li", "ni", "oi", "out",
                  "xi", "dci", "jmp", "pi", "as", "asd", "ds", "ns", "xs", "br7", "bf", "bt", "sl",
                  "sr", "ins", "outs", "lis", "lisl", "lisu", "lr"} : LongForm(name) = <<name>>
  /\ LongForm("clr") = <<"lis", 0>> /\ LongForm("br") = <<"bf", 0>> /\ LongForm("bm") = <<"bf", 1>>
  /\ LongForm("bnc") = <<"bf", 2>> /\ LongForm("bnz") = <<"bf", 4>> /\ LongForm("bno") = <<"bf", 8>>
  /\ LongForm("bp") = <<"bt", 1>> /\ LongForm("bc") = <<"bt", 2>> /\ LongForm("bz") = <<"bt", 4>>
<1>1. DOMAIN ShortForms = {"br", "bm", "bnc", "bnz", "bno", "bp", "bc", "bz", "clr"}
  BY DEF ShortForms
<1>2. /\ ShortForms["clr"] = <<"lis", 0>> /\ ShortForms["br"] = <<"bf", 0>>
      /\ ShortForms["bm"] = <<"bf", 1>> /\ ShortForms["bnc"] = <<"bf", 2>>
      /\ ShortForms["bnz"] = <<"bf", 4>> /\ ShortForms["bno"] = <<"bf", 8>>
      /\ ShortForms["bp"] = <<"bt", 1>> /\ ShortForms["bc"] = <<"bt", 2>>
      /\ ShortForms["bz"] = <<"bt", 4>>
  BY DEF ShortForms
<1>. QED
  BY <1>1, <1>2 DEF LongForm

LEMMA Joined ==
  \A x, a, b : <<x>> \o <<a>> = <<x, a>> /\ <<x>> \o <<a, b>> = <<x, a, b>>
<1> SUFFICES ASSUME NEW x, NEW a, NEW b
             PROVE  <<x>> \o <<a>> = <<x, a>> /\ <<x>> \o <<a, b>> = <<x, a, b>>
  OBVIOUS
<1> DEFINE S == {x, a, b}
           p == <<x>>
           q == <<a>>
           r == <<a, b>>
<1>1. p \in Seq(S) /\ q \in Seq(S) /\ r \in Seq(S) /\ <<x, a>> \in Seq(S) /\ <<x, a, b>> \in Seq(S)
  OBVIOUS
<1>2. Len(p) = 1 /\ Len(q) = 1 /\ Len(r) = 2 /\ p[1] = x /\ q[1] = a /\ r[1] = a /\ r[2] = b
  OBVIOUS
<1> HIDE DEF p, q, r, S
<1>3. p \o q = <<x, a>>
  <2> DEFINE s == p \o q
             w == <<x, a>>
  <2>1. s \in Seq(S) /\ Len(s) = 2 /\ s[1] = x /\ s[2] = a
    BY <1>1, <1>2, ConcatProperties
  <2>2. w \in Seq(S) /\ Len(w) = 2 /\ w[1] = x /\ w[2] = a
    BY <1>1
  <2> HIDE DEF s, w
  <2>3. s = w
    BY <2>1, <2>2, SeqEqual
  <2>. QED
    BY <2>3 DEF s, w
<1>4. p \o r = <<x, a, b>>
  <2> DEFINE s == p \o r
             w == <<x, a, b>>
  <2>1. s \in Seq(S) /\ Len(s) = 3 /\ s[1] = x /\ s[2] = a /\ s[3] = b
    <3>1. /\ s \in Seq(S) /\ Len(s) = Len(p) + Len(r)
          /\ \A i \in 1..(Len(p) + Len(r)) : s[i] = IF i <= Len(p) THEN p[i] ELSE r[i - Len(p)]
      BY <1>1, ConcatProperties
    <3> HIDE DEF s
    <3>2. s[1] = p[1] /\ s[2] = r[1] /\ s[3] = r[2]
      BY <1>2, <3>1
    <3>. QED
      BY <1>2, <3>1, <3>2
  <2>2. w \in Seq(S) /\ Len(w) = 3 /\ w[1] = x /\ w[2] = a /\ w[3] = b
    BY <1>1
  <2> HIDE DEF s, w
  <2>3. s = w
    BY <2>1, <2>2, SeqEqual
  <2>. QED
    BY <2>3 DEF s, w
<1>. QED
  BY <1>3, <1>4 DEF p, q, r

LEMMA MeaningNone ==
  ASSUME NEW l, NEW t, NEW g, l.ops = <<>>
  PROVE  Meaning(l, t, g) = LongForm(l.mne.name) \o <<>>
BY DEF Meaning

LEMMA MeaningOne ==
  ASSUME NEW l, NEW t, NEW g, ~IsBranch(l.mne), l.ops \in Seq(Operand), Len(l.ops) = 1,
         NEW a \in Int, a = Argument(l.ops[1], t), LongForm(l.mne.name) = <<l.mne.name>>
  PROVE  Meaning(l, t, g) = <<l.mne.name, a>>
<1>1. DOMAIN l.ops = 1..1
  OBVIOUS
<1> DEFINE f == [i \in DOMAIN l.ops |->
     Argument(l.ops[i], t) - IF IsBranch(l.mne) /\ i = Len(l.ops) THEN GetPC(g) ELSE 0]
<1>2. f = <<a>>
  <2>1. f = [i \in 1..1 |-> a]
    BY <1>1
  <2>. QED
    BY <2>1
<1>3. Meaning(l, t, g) = LongForm(l.mne.name) \o f
  BY DEF Meaning
<1> HIDE DEF f
<1>4. <<l.mne.name>> \o <<a>> = <<l.mne.name, a>>
  BY Joined
<1>. QED
  BY <1>2, <1>3, <1>4

LEMMA MeaningTwo ==
  ASSUME NEW l, NEW t, NEW g, ~IsBranch(l.mne), l.ops \in Seq(Operand), Len(l.ops) = 2,
         NEW a \in Int, a = Argument(l.ops[1], t), NEW b \in Int, b = Argument(l.ops[2], t),
         LongForm(l.mne.name) = <<l.mne.name>>
  PROVE  Meaning(l, t, g) = <<l.mne.name, a, b>>
<1>1. DOMAIN l.ops = 1..2
  OBVIOUS
<1> DEFINE f == [i \in DOMAIN l.ops |->
     Argument(l.ops[i], t) - IF IsBranch(l.mne) /\ i = Len(l.ops) THEN GetPC(g) ELSE 0]
<1>2. f = <<a, b>>
  <2>1. f = [i \in 1..2 |-> IF i = 1 THEN a ELSE b]
    BY <1>1
  <2>. QED
    BY <2>1
<1>3. Meaning(l, t, g) = LongForm(l.mne.name) \o f
  BY DEF Meaning
<1> HIDE DEF f
<1>4. <<l.mne.name>> \o <<a, b>> = <<l.mne.name, a, b>>
  BY Joined
<1>. QED
  BY <1>2, <1>3, <1>4

LEMMA MeaningBranch ==
  ASSUME NEW l, NEW t, NEW g, IsBranch(l.mne), l.ops \in Seq(Operand), Len(l.ops) = 1,
         NEW d \in Int, d = Argument(l.ops[1], t) - GetPC(g)
  PROVE  Meaning(l, t, g) = LongForm(l.mne.name) \o <<d>>
<1>1. DOMAIN l.ops = 1..1
  OBVIOUS
<1> DEFINE f == [i \in DOMAIN l.ops |->
     Argument(l.ops[i], t) - IF IsBranch(l.mne) /\ i = Len(l.ops) THEN GetPC(g) ELSE 0]
<1>2. f = <<d>>
  <2>1. f = [i \in 1..1 |-> d]
    BY <1>1
  <2>. QED
    BY <2>1
<1>3. Meaning(l, t, g) = LongForm(l.mne.name) \o f
  BY DEF Meaning
<1>. QED
  BY <1>2, <1>3

LEMMA MeaningMask ==
  ASSUME NEW l, NEW t, NEW g, IsBranch(l.mne), l.ops \in Seq(Operand), Len(l.ops) = 2,
         NEW a \in Int, a = Argument(l.ops[1], t),
         NEW d \in Int, d = Argument(l.ops[2], t) - GetPC(g),
         LongForm(l.mne.name) = <<l.mne.name>>
  PROVE  Meaning(l, t, g) = <<l.mne.name, a, d>>
<1>1. DOMAIN l.ops = 1..2
  OBVIOUS
<1> DEFINE f == [i \in DOMAIN l.ops |->
     Argument(l.ops[i], t) - IF IsBranch(l.mne) /\ i = Len(l.ops) THEN GetPC(g) ELSE 0]
<1>2. f = <<a, d>>
  <2>1. f = [i \in 1..2 |-> IF i = 1 THEN a ELSE d]
    BY <1>1
  <2>. QED
    BY <2>1
<1>3. Meaning(l, t, g) = LongForm(l.mne.name) \o f
  BY DEF Meaning
<1> HIDE DEF f
<1>4. <<l.mne.name>> \o <<a, d>> = <<l.mne.name, a, d>>
  BY Joined
<1>. QED
  BY <1>2, <1>3, <1>4

(* What a handler must give for a line, in the symbols it evaluated in.    *)
Result(l, t, g, o, n) ==
  /\ Tidy(o, n)
  /\ Accepted(o) =>
       /\ o.label
       /\ \A i \in DOMAIN l.ops : ~Unsettled(l.ops[i], t)
       /\ IsPCKnown(g) => Decode(o.code) = Meaning(l, t, g)

LEMMA LineFacts ==
  ASSUME NEW l \in Lines
  PROVE  /\ Fields(l.ops) /\ l.ops \in Seq(Operand) /\ l.mne \in MneF8
         /\ \A i \in DOMAIN l.ops : Sound(l.ops[i])
<1>1. l.mne \in MneF8 /\ l.ops \in Seq(Operand)
      /\ \A i \in DOMAIN l.ops : l.ops[i].sym # None => l.ops[i].word = "expr"
  BY Constants
<1>2. \A i \in DOMAIN l.ops : l.ops[i] \in Operand
  BY <1>1
<1>. QED
  BY <1>1, <1>2 DEF Fields, Sound

LEMMA ImpliedFacts ==
  ASSUME NEW l \in Lines, l.mne.handler = "mnemonic", NEW t, NEW g
  PROVE  Result(l, t, g, VImplied(l.mne), 1)
<1> DEFINE o == VImplied(l.mne)
           op == l.mne.opcode
           name == l.mne.name
<1>1. l.mne \in MneF8 /\ l.ops = <<>>
  BY Constants
<1>2. <<name, op>> \in
    {<<"adc", 142>>, <<"am", 136>>, <<"amd", 137>>, <<"clr", 112>>, <<"cm", 141>>,
    <<"com", 24>>, <<"di", 26>>, <<"ei", 27>>, <<"inc", 31>>, <<"lm", 22>>, <<"lnk", 25>>,
    <<"nm", 138>>, <<"nop", 43>>, <<"om", 139>>, <<"pk", 12>>, <<"pop", 28>>, <<"st", 23>>,
    <<"xdc", 44>>, <<"xm", 140>>}
  BY <1>1, ImpliedRows
<1>3. Is(o, <<op>>, 0, 0, TRUE)
  <2>1. <<op>> \in Bytes
    BY <1>1, RowTypes DEF Bytes
  <2> HIDE DEF op
  <2>2. o = Emit(Labelled, <<op>>)
    BY DEF VImplied, op
  <2>. QED
    BY <2>1, <2>2, LabelledIs, EmitIs
<1>4. /\ o.code = <<op>> /\ o.errors = 0 /\ o.redos = 0 /\ o.label /\ ~o.abort
      /\ o.label \in BOOLEAN /\ o.abort \in BOOLEAN
  <2> HIDE DEF o, op
  <2>. QED
    BY <1>3 DEF Is, Outcomes
<1> HIDE DEF o
<1>5. Tidy(o, 1)
  BY <1>4 DEF Tidy
<1>6. Meaning(l, t, g) = LongForm(name) \o <<>>
  BY <1>1, MeaningNone
<1>7. Decode(o.code) = DecodeOne(op)
  BY <1>4 DEF Decode
<1> HIDE DEF op, name
<1>8. DecodeOne(op) = LongForm(name) \o <<>>
  <2>1. CASE name = "clr" /\ op = 112
    <3>1. LongForm(name) = <<"lis", 0>>
      BY <2>1, LongNames
    <3>2. DecodeOne(op) = <<"lis", 0>>
      BY <2>1 DEF DecodeOne, Moves
    <3>. QED
      BY <3>1, <3>2
  <2>2. CASE ~(name = "clr" /\ op = 112)
    <3>1. LongForm(name) = <<name>>
      BY <1>2, <2>2, LongNames
    <3>2. ImpliedName(op) = name
      BY <1>2, <2>2 DEF ImpliedName
    <3>3. DecodeOne(op) = <<ImpliedName(op)>>
      BY <1>2, <2>2 DEF DecodeOne, Moves
    <3>. QED
      BY <3>1, <3>2, <3>3
  <2>. QED
    BY <2>1, <2>2
<1>. QED
  BY <1>1, <1>4, <1>5, <1>6, <1>7, <1>8 DEF Result, o

(* The common end of the handlers of one operand.                          *)
LEMMA OneOperand ==
  ASSUME NEW l \in Lines, NEW t, NEW g, NEW o, NEW n,
         ~IsBranch(l.mne), LongForm(l.mne.name) = <<l.mne.name>>, Tidy(o, n), o.label,
         Accepted(o) =>
           /\ Len(l.ops) = 1 /\ ~Unsettled(l.ops[1], t) /\ Argument(l.ops[1], t) \in Int
           /\ Decode(o.code) = <<l.mne.name, Argument(l.ops[1], t)>>
  PROVE  Result(l, t, g, o, n)
<1>1. l.ops \in Seq(Operand)
  BY LineFacts
<1>2. ASSUME Accepted(o)
      PROVE  /\ \A i \in DOMAIN l.ops : ~Unsettled(l.ops[i], t)
             /\ Decode(o.code) = Meaning(l, t, g)
  <2>1. DOMAIN l.ops = {1}
    BY <1>1, <1>2
  <2>2. Meaning(l, t, g) = <<l.mne.name, Argument(l.ops[1], t)>>
    BY <1>1, <1>2, MeaningOne
  <2>. QED
    BY <1>2, <2>1, <2>2
<1>. QED
  BY <1>2 DEF Result

LEMMA PackedResult ==
  ASSUME NEW l \in Lines, NEW t, NEW g, NEW base \in 0..255, NEW max \in {7, 15}, NEW o,
         Packed(l.ops, t, base, max, o), ~IsBranch(l.mne), LongForm(l.mne.name) = <<l.mne.name>>,
         \A a \in 0..max : DecodeOne(base + a) = <<l.mne.name, a>>
  PROVE  Result(l, t, g, o, 1)
<1> DEFINE a == Argument(l.ops[1], t)
<1>1. Tidy(o, 1) /\ o.label
  BY DEF Packed
<1>2. ASSUME Accepted(o)
      PROVE  /\ Len(l.ops) = 1 /\ ~Unsettled(l.ops[1], t) /\ a \in Int
             /\ Decode(o.code) = <<l.mne.name, a>>
  <2>1. a \in 0..max /\ o.code = <<base + a>> /\ Len(l.ops) = 1 /\ ~Unsettled(l.ops[1], t)
    BY <1>2 DEF Accepted, Packed
  <2>2. Decode(o.code) = DecodeOne(base + a)
    BY <2>1 DEF Decode
  <2>. QED
    BY <2>1, <2>2
<1>. QED
  BY <1>1, <1>2, OneOperand

LEMMA InsOutsFacts ==
  ASSUME NEW l \in Lines, l.mne.handler = "ins_outs", NEW t \in Tables, NEW g
  PROVE  Result(l, t, g, VInsOuts(l.ops, l.mne, t), 1)
<1> DEFINE o == VInsOuts(l.ops, l.mne, t)
           op == l.mne.opcode
           name == l.mne.name
           m == 15
<1>1. Fields(l.ops) /\ l.mne \in MneF8
  BY LineFacts
<1>2. <<name, op>> \in {<<"ins", 160>>, <<"outs", 176>>}
  BY <1>1, OtherRows
<1>3. op \in 0..255 /\ (op % 16 = 0 \/ (op % 8 = 0 /\ m = 7)) /\ m \in {7, 15}
  BY <1>2
<1>4. o = Field(l.ops, t, op, m) /\ ~IsBranch(l.mne)
  BY DEF VInsOuts, IsBranch
<1> HIDE DEF o, op, name, m
<1>5. Packed(l.ops, t, op, m, o)
  BY <1>1, <1>3, <1>4, FieldFacts
<1>6. \A a \in 0..m : DecodeOne(op + a) = <<name, a>>
  BY <1>2 DEF DecodeOne, Moves, m
<1>7. LongForm(name) = <<name>>
  BY <1>2, LongNames
<1>. QED
  BY <1>3, <1>4, <1>5, <1>6, <1>7, PackedResult DEF o, name

LEMMA LisFacts ==
  ASSUME NEW l \in Lines, l.mne.handler = "lis", NEW t \in Tables, NEW g
  PROVE  Result(l, t, g, VLis(l.ops, t), 1)
<1> DEFINE o == VLis(l.ops, t)
           op == 112
           name == l.mne.name
           m == 15
<1>1. Fields(l.ops) /\ l.mne \in MneF8
  BY LineFacts
<1>2. name = "lis"
  BY <1>1, OtherRows
<1>3. op \in 0..255 /\ (op % 16 = 0 \/ (op % 8 = 0 /\ m = 7)) /\ m \in {7, 15}
  OBVIOUS
<1>4. o = Field(l.ops, t, op, m) /\ ~IsBranch(l.mne)
  BY DEF VLis, IsBranch
<1> HIDE DEF o, op, name, m
<1>5. Packed(l.ops, t, op, m, o)
  BY <1>1, <1>3, <1>4, FieldFacts
<1>6. \A a \in 0..m : DecodeOne(op + a) = <<name, a>>
  BY <1>2 DEF DecodeOne, Moves, m, op
<1>7. LongForm(name) = <<name>>
  BY <1>2, LongNames
<1>. QED
  BY <1>3, <1>4, <1>5, <1>6, <1>7, PackedResult DEF o, name

LEMMA LisuLislFacts ==
  ASSUME NEW l \in Lines, l.mne.handler = "lisu_lisl", NEW t \in Tables, NEW g
  PROVE  Result(l, t, g, VLisuLisl(l.ops, l.mne, t), 1)
<1> DEFINE o == VLisuLisl(l.ops, l.mne, t)
           op == l.mne.opcode
           name == l.mne.name
           m == 7
<1>1. Fields(l.ops) /\ l.mne \in MneF8
  BY LineFacts
<1>2. <<name, op>> \in {<<"lisl", 104>>, <<"lisu", 96>>}
  BY <1>1, OtherRows
<1>3. op \in 0..255 /\ (op % 16 = 0 \/ (op % 8 = 0 /\ m = 7)) /\ m \in {7, 15}
  BY <1>2
<1>4. o = Field(l.ops, t, op, m) /\ ~IsBranch(l.mne)
  BY DEF VLisuLisl, IsBranch
<1> HIDE DEF o, op, name, m
<1>5. Packed(l.ops, t, op, m, o)
  BY <1>1, <1>3, <1>4, FieldFacts
<1>6. \A a \in 0..m : DecodeOne(op + a) = <<name, a>>
  BY <1>2 DEF DecodeOne, Moves, m
<1>7. LongForm(name) = <<name>>
  BY <1>2, LongNames
<1>. QED
  BY <1>3, <1>4, <1>5, <1>6, <1>7, PackedResult DEF o, name

LEMMA SlSrFacts ==
  ASSUME NEW l \in Lines, l.mne.handler = "sl_sr", NEW t \in Tables, NEW g
  PROVE  Result(l, t, g, VSlSr(l.ops, l.mne, t), 1)
<1> DEFINE o == VSlSr(l.ops, l.mne, t)
           op == l.mne.opcode
           name == l.mne.name
           p == ParseValue(l.ops, t)
           o1 == Unresolved(Labelled, p)
           a == Argument(l.ops[1], t)
<1>1. Fields(l.ops) /\ l.mne \in MneF8
  BY LineFacts
<1>2. <<name, op>> \in {<<"sl", 19>>, <<"sr", 18>>}
  BY <1>1, OtherRows
<1>3. Valued(l.ops, t, p)
  BY <1>1, ValueFacts
<1>4. p.value \in Nat /\ p.unk \in BOOLEAN /\ p.error \in {0, 1} /\ p.error \in Nat
  BY <1>3 DEF Valued
<1>5. /\ p.unk => o = Emit(o1, <<0>>)
      /\ ~p.unk /\ p.value = 1 => o = Emit(o1, <<op>>)
      /\ ~p.unk /\ p.value = 4 => o = Emit(o1, <<op + 2>>)
      /\ ~p.unk /\ p.value # 1 /\ p.value # 4 => o = Emit(Error(o1), <<0>>)
  BY DEF VSlSr
<1>6. ~IsBranch(l.mne)
  BY DEF IsBranch
<1> HIDE DEF o, op, name, p
<1>7. Is(o1, <<>>, 0 + p.error, 0 + Truth(p.unk), TRUE)
  <2>1. Is(Labelled, <<>>, 0, 0, TRUE)
    BY LabelledIs
  <2>. QED
    BY <1>4, <2>1, UnresolvedIs
<1>8. Truth(p.unk) \in {0, 1} /\ (Truth(p.unk) = 0 <=> ~p.unk)
  BY <1>4, Truths
<1>9. /\ Tidy(o, 1) /\ o.label
      /\ Accepted(o) => ~p.unk /\ p.error = 0 /\ (p.value = 1 \/ p.value = 4)
      /\ Accepted(o) /\ p.value = 1 => o.code = <<op>>
      /\ Accepted(o) /\ p.value = 4 => o.code = <<op + 2>>
  <2> HIDE DEF o1
  <2> DEFINE e == 0 + p.error
             r == 0 + Truth(p.unk)
             Given(code, errors) == Is(o, code, errors, r, TRUE) /\ Len(code) = 1
  <2>1. /\ p.unk => Given(<<0>>, e)
        /\ ~p.unk /\ p.value = 1 => Given(<<op>>, e)
        /\ ~p.unk /\ p.value = 4 => Given(<<op + 2>>, e)
        /\ ~p.unk /\ p.value # 1 /\ p.value # 4 => Given(<<0>>, e + 1)
    <3>1. op \in 0..255 /\ op + 2 \in 0..255
      BY <1>2
    <3>2. <<0>> \in Bytes /\ <<op>> \in Bytes /\ <<op + 2>> \in Bytes
      BY <3>1 DEF Bytes
    <3>3. Is(Error(o1), <<>>, e + 1, r, TRUE)
      BY <1>7, ErrorIs
    <3>4. /\ Is(Emit(o1, <<0>>), <<0>>, e, r, TRUE) /\ Is(Emit(o1, <<op>>), <<op>>, e, r, TRUE)
          /\ Is(Emit(o1, <<op + 2>>), <<op + 2>>, e, r, TRUE)
          /\ Is(Emit(Error(o1), <<0>>), <<0>>, e + 1, r, TRUE)
      <4> HIDE DEF e, r
      <4>. QED
        BY <1>7, <3>2, <3>3, EmitIs DEF e, r
    <3>. QED
      BY <1>5, <3>4
  <2> HIDE DEF Given
  <2>2. ASSUME NEW code, NEW n, Given(code, n)
        PROVE  Tidy(o, 1) /\ o.label /\ o.code = code /\ o.errors = n /\ o.redos = r
    BY <2>2 DEF Given, Is, Outcomes, Tidy
  <2>3. CASE p.unk
    <3>1. Tidy(o, 1) /\ o.label /\ o.redos = r
      BY <2>1, <2>2, <2>3
    <3>2. r # 0
      <4> DEFINE d == Truth(p.unk)
      <4>1. d # 0
        BY <1>8, <2>3
      <4>2. d \in {0, 1}
        BY <1>8
      <4> HIDE DEF d
      <4>. QED
        BY <4>1, <4>2 DEF d
    <3> HIDE DEF r
    <3>3. ~Accepted(o)
      BY <3>1, <3>2 DEF Accepted
    <3>. QED
      BY <3>1, <3>3
  <2>4. CASE ~p.unk /\ p.value = 1
    <3>1. Tidy(o, 1) /\ o.label /\ o.code = <<op>> /\ o.errors = e
      BY <2>1, <2>2, <2>4
    <3>. QED
      BY <1>4, <2>4, <3>1 DEF Accepted
  <2>5. CASE ~p.unk /\ p.value = 4
    <3>1. Tidy(o, 1) /\ o.label /\ o.code = <<op + 2>> /\ o.errors = e
      BY <2>1, <2>2, <2>5
    <3>. QED
      BY <1>4, <2>5, <3>1 DEF Accepted
  <2>6. CASE ~p.unk /\ p.value # 1 /\ p.value # 4
    <3>1. Tidy(o, 1) /\ o.label /\ o.errors = e + 1
      BY <2>1, <2>2, <2>6
    <3>. QED
      BY <1>4, <3>1 DEF Accepted
  <2>. QED
    BY <2>3, <2>4, <2>5, <2>6
<1>10. ASSUME Accepted(o)
       PROVE  /\ Len(l.ops) = 1 /\ ~Unsettled(l.ops[1], t) /\ a \in Int
              /\ Decode(o.code) = <<name, a>>
  <2>1. Len(l.ops) = 1 /\ ~Unsettled(l.ops[1], t) /\ p.value = a
    BY <1>3, <1>9, <1>10 DEF Valued
  <2> HIDE DEF a
  <2>2. (a = 1 /\ o.code = <<op>>) \/ (a = 4 /\ o.code = <<op + 2>>)
    BY <1>9, <1>10, <2>1
  <2>3. /\ a = 1 => Decode(o.code) = DecodeOne(op)
        /\ a = 4 => Decode(o.code) = DecodeOne(op + 2)
    BY <2>2 DEF Decode
  <2>4. (a = 1 => DecodeOne(op) = <<name, 1>>) /\ (a = 4 => DecodeOne(op + 2) = <<name, 4>>)
    BY <1>2 DEF DecodeOne, Moves
  <2>. QED
    BY <2>1, <2>2, <2>3, <2>4
<1>11. LongForm(name) = <<name>>
  BY <1>2, LongNames
<1> HIDE DEF a, o1
<1>. QED
  BY <1>6, <1>9, <1>10, <1>11, OneOperand DEF o, name, a

(* A value of a byte or a word behind the opcode.                          *)
Behind(p, max, code, o) ==
  /\ Tidy(o, Len(code)) /\ o.label /\ o.code = code
  /\ Accepted(o) => ~p.unk /\ p.error = 0 /\ p.value <= max

LEMMA BehindFacts ==
  ASSUME NEW p, p.value \in Nat, p.unk \in BOOLEAN, p.error \in {0, 1}, NEW max \in Nat,
         NEW code \in Bytes, NEW o, o = Emit(Ranged(Unresolved(Labelled, p), p.value, max), code)
  PROVE  Behind(p, max, code, o)
<1> DEFINE o1 == Unresolved(Labelled, p)
           o2 == Ranged(o1, p.value, max)
           v == p.value
           f == p.error
           d == Truth(p.unk)
           u == Truth(v > max)
<1>1. Is(Labelled, <<>>, 0, 0, TRUE)
  BY LabelledIs
<1>2. Is(o1, <<>>, 0 + f, 0 + d, TRUE)
  <2>1. p.error \in Nat /\ p.unk \in BOOLEAN
    OBVIOUS
  <2>. QED
    BY <1>1, <2>1, UnresolvedIs
<1>3. o = Emit(o2, code)
  OBVIOUS
<1>4. v \in Nat /\ f \in {0, 1}
  OBVIOUS
<1>5. d \in {0, 1} /\ (d = 0 <=> ~p.unk)
  BY Truths
<1> HIDE DEF o1, v, f, d
<1>6. (v > max) \in BOOLEAN
  OBVIOUS
<1>7. u \in {0, 1} /\ (u = 0 <=> ~(v > max))
  BY <1>6, Truths
<1>8. Is(o2, <<>>, 0 + f + u, 0 + d, TRUE)
  BY <1>2, RangedIs DEF v
<1> HIDE DEF o2, u
<1> DEFINE e == 0 + f + u
           r == 0 + d
<1>9. Is(o, code, e, r, TRUE)
  <2> HIDE DEF e, r
  <2>1. Is(o2, <<>>, e, r, TRUE)
    BY <1>8 DEF e, r
  <2>. QED
    BY <1>3, <2>1, EmitIs
<1>10. /\ o.code = code /\ o.errors = e /\ o.redos = r /\ o.label /\ ~o.abort
       /\ e \in Nat /\ r \in Nat /\ o.label \in BOOLEAN /\ o.abort \in BOOLEAN
  <2> HIDE DEF e, r
  <2>. QED
    BY <1>9 DEF Is, Outcomes
<1>11. e = 0 => f = 0 /\ u = 0
  BY <1>4, <1>7
<1>12. r = 0 => d = 0
  BY <1>5
<1>13. u = 0 => v <= max
  BY <1>4, <1>7
<1> HIDE DEF e, r
<1>14. Tidy(o, Len(code))
  BY <1>10 DEF Tidy
<1>15. ASSUME Accepted(o) PROVE ~p.unk /\ p.error = 0 /\ p.value <= max
  <2>1. e = 0 /\ r = 0
    BY <1>10, <1>15 DEF Accepted
  <2>. QED
    BY <1>5, <1>11, <1>12, <1>13, <2>1 DEF f, v
<1>. QED
  BY <1>10, <1>14, <1>15 DEF Behind

LEMMA LowByte ==
  ASSUME NEW n \in Int
  PROVE  n % 256 = n - 256 * (n \div 256) /\ n \div 256 \in Int /\ n % 256 \in Int
OBVIOUS

LEMMA WordopFacts ==
  ASSUME NEW l \in Lines, l.mne.handler = "wordop", NEW t \in Tables, NEW g
  PROVE  Result(l, t, g, VWordop(l.ops, l.mne, t), 3)
<1> DEFINE o == VWordop(l.ops, l.mne, t)
           op == l.mne.opcode
           name == l.mne.name
           p == ParseValue(l.ops, t)
           a == Argument(l.ops[1], t)
           m == 256 * 256 - 1
           high == (p.value \div 256) % 256
           low == p.value % 256
           code == <<op, high, low>>
<1>1. Fields(l.ops) /\ l.mne \in MneF8
  BY LineFacts
<1>2. <<name, op>> \in {<<"dci", 42>>, <<"jmp", 41>>, <<"pi", 40>>}
  BY <1>1, OtherRows
<1>3. Valued(l.ops, t, p)
  BY <1>1, ValueFacts
<1>4. p.value \in Nat /\ p.unk \in BOOLEAN /\ p.error \in {0, 1} /\ m \in Nat
  BY <1>3 DEF Valued
<1>5. o = Emit(Ranged(Unresolved(Labelled, p), p.value, m), code)
  BY DEF VWordop
<1>6. ~IsBranch(l.mne)
  BY DEF IsBranch
<1>7. code \in Bytes /\ Len(code) = 3
  <2> HIDE DEF p, op
  <2>1. high \in 0..255 /\ low \in 0..255 /\ op \in 0..255
    BY <1>2, <1>4
  <2> HIDE DEF high, low
  <2>. QED
    BY <2>1 DEF Bytes
<1>8. code[1] = op /\ code[2] = high /\ code[3] = low
  OBVIOUS
<1>9. p.value <= m => 256 * high + low = p.value
  <2> DEFINE v == p.value
  <2> HIDE DEF p
  <2>1. v \in Nat
    BY <1>4
  <2> HIDE DEF v
  <2>2. high = (v \div 256) % 256 /\ low = v % 256
    BY DEF v
  <2> HIDE DEF high, low
  <2>3. v <= m => v \div 256 \in 0..255
    BY <2>1
  <2>4. v % 256 = v - 256 * (v \div 256) /\ v \div 256 \in Int /\ v % 256 \in Int /\ v \in Int
    BY <2>1, LowByte
  <2>5. v <= m => high = v \div 256
    BY <2>2, <2>3
  <2> HIDE DEF m
  <2>. QED
    <3> DEFINE q == v \div 256
               r == v % 256
    <3>1. r = v - 256 * q /\ q \in Int /\ r \in Int /\ v \in Int /\ low = r /\ (v <= m => high = q)
      BY <2>2, <2>4, <2>5
    <3> HIDE DEF q, r
    <3>2. v <= m => 256 * high + low = v
      BY <3>1
    <3>. QED
      BY <3>2 DEF v
<1> HIDE DEF o, op, name, p, m, code, high, low
<1>10. Behind(p, m, code, o)
  BY <1>4, <1>5, <1>7, BehindFacts
<1>11. ASSUME Accepted(o)
       PROVE  /\ Len(l.ops) = 1 /\ ~Unsettled(l.ops[1], t) /\ a \in Int
              /\ Decode(o.code) = <<name, a>>
  <2>1. ~p.unk /\ p.error = 0 /\ p.value <= m /\ o.code = code
    BY <1>10, <1>11 DEF Behind
  <2>2. Len(l.ops) = 1 /\ ~Unsettled(l.ops[1], t) /\ p.value = a
    BY <1>3, <2>1 DEF Valued, m
  <2>3. Decode(o.code) = DecodeThree(op, 256 * high + low)
    BY <1>7, <1>8, <2>1 DEF Decode
  <2> HIDE DEF a
  <2>4. DecodeThree(op, a) = <<name, a>>
    BY <1>2 DEF DecodeThree
  <2>. QED
    BY <1>4, <1>9, <2>1, <2>2, <2>3, <2>4
<1>12. LongForm(name) = <<name>>
  BY <1>2, LongNames
<1>13. Tidy(o, 3) /\ o.label
  BY <1>7, <1>10 DEF Behind
<1> HIDE DEF a
<1>. QED
  BY <1>6, <1>11, <1>12, <1>13, OneOperand DEF o, name, a

LEMMA ByteopFacts ==
  ASSUME NEW l \in Lines, l.mne.handler = "byteop", NEW t \in Tables, NEW g
  PROVE  Result(l, t, g, VByteop(l.ops, l.mne, t), 2)
<1> DEFINE o == VByteop(l.ops, l.mne, t)
           op == l.mne.opcode
           name == l.mne.name
           p == ParseValue(l.ops, t)
           a == Argument(l.ops[1], t)
           m == 255
           low == p.value % 256
           code == <<op, low>>
<1>1. Fields(l.ops) /\ l.mne \in MneF8
  BY LineFacts
<1>2. <<name, op>> \in {<<"ai", 36>>, <<"ci", 37>>, <<"in", 38>>, <<"li", 32>>, <<"ni", 33>>,
               <<"oi", 34>>, <<"out", 39>>, <<"xi", 35>>}
  BY <1>1, OtherRows
<1>3. Valued(l.ops, t, p)
  BY <1>1, ValueFacts
<1>4. p.value \in Nat /\ p.unk \in BOOLEAN /\ p.error \in {0, 1} /\ m \in Nat
  BY <1>3 DEF Valued
<1>5. o = Emit(Ranged(Unresolved(Labelled, p), p.value, m), code)
  BY DEF VByteop
<1>6. ~IsBranch(l.mne)
  BY DEF IsBranch
<1>7. code \in Bytes /\ Len(code) = 2
  <2> HIDE DEF p, op
  <2>1. low \in 0..255 /\ op \in 0..255
    BY <1>2, <1>4
  <2> HIDE DEF low
  <2>. QED
    BY <2>1 DEF Bytes
<1>8. code[1] = op /\ code[2] = low
  OBVIOUS
<1>9. p.value <= m => low = p.value
  <2> HIDE DEF p
  <2>. QED
    BY <1>4
<1> HIDE DEF o, op, name, p, m, code, low
<1>10. Behind(p, m, code, o)
  BY <1>4, <1>5, <1>7, BehindFacts
<1>11. ASSUME Accepted(o)
       PROVE  /\ Len(l.ops) = 1 /\ ~Unsettled(l.ops[1], t) /\ a \in Int
              /\ Decode(o.code) = <<name, a>>
  <2>1. ~p.unk /\ p.error = 0 /\ p.value <= m /\ o.code = code
    BY <1>10, <1>11 DEF Behind
  <2>2. Len(l.ops) = 1 /\ ~Unsettled(l.ops[1], t) /\ p.value = a
    BY <1>3, <1>4, <2>1 DEF Valued, m
  <2>3. Decode(o.code) = DecodeTwo(op, low)
    BY <1>7, <1>8, <2>1 DEF Decode
  <2> HIDE DEF a
  <2>4. DecodeTwo(op, a) = <<name, a>>
    BY <1>2 DEF DecodeTwo
  <2>. QED
    BY <1>4, <1>9, <2>1, <2>2, <2>3, <2>4
<1>12. LongForm(name) = <<name>>
  BY <1>2, LongNames
<1>13. Tidy(o, 2) /\ o.label
  BY <1>7, <1>10 DEF Behind
<1> HIDE DEF a
<1>. QED
  BY <1>6, <1>11, <1>12, <1>13, OneOperand DEF o, name, a

LEMMA SregFacts ==
  ASSUME NEW l \in Lines, l.mne.handler = "sreg", NEW t \in Tables, NEW g, NEW b \in 0..255
  PROVE  Result(l, t, g, VSregOp(l.ops, l.mne, t, b), 1)
<1> DEFINE o == VSregOp(l.ops, l.mne, t, b)
           op == l.mne.opcode
           name == l.mne.name
           p == ParseScratchpadRegister(l.ops, t, b)
           a == Argument(l.ops[1], t)
           x == Or(op, p.reg)
           code == <<x>>
           o1 == Unresolved(Labelled, p)
<1>1. Fields(l.ops) /\ l.mne \in MneF8
  BY LineFacts
<1>2. <<name, op>> \in {<<"as", 192>>, <<"asd", 208>>, <<"ds", 48>>, <<"ns", 240>>, <<"xs", 224>>}
  BY <1>1, SregRows
<1>3. /\ p.unk \in BOOLEAN /\ p.error \in 0..2 /\ p.error \in Nat
      /\ p.error = 0 /\ ~p.unk =>
            Len(l.ops) = 1 /\ ~Unsettled(l.ops[1], t) /\ p.reg = a /\ a \in 0..14
  <2>1. CASE Len(l.ops) = 1
    <3>1. l.ops = <<l.ops[1]>> /\ Sound(l.ops[1])
      BY <1>1, <2>1, SingleField
    <3> DEFINE q == l.ops[1]
    <3>2. l.ops = <<q>> /\ Sound(q)
      BY <3>1
    <3> HIDE DEF q
    <3>3. /\ Arguments(q, t, ParseScratchpadRegister(<<q>>, t, b))
          /\ ParseScratchpadRegister(<<q>>, t, b).error = 0 /\ ~ParseScratchpadRegister(<<q>>, t, b).unk
               => ParseScratchpadRegister(<<q>>, t, b).reg \in 0..14
      BY <3>2, ScratchFacts
    <3>4. p = ParseScratchpadRegister(<<q>>, t, b)
      BY <3>2
    <3> HIDE DEF p
    <3>5. Arguments(q, t, p) /\ (p.error = 0 /\ ~p.unk => p.reg \in 0..14)
      BY <3>3, <3>4
    <3>. QED
      BY <2>1, <3>5 DEF Arguments, q
  <2>2. CASE Len(l.ops) # 1
    <3>1. ParseValue(l.ops, t) = [value |-> 0, unk |-> FALSE, error |-> 1]
      BY <2>2, ParseMany
    <3>2. Empty \notin ScratchNames
      BY EmptyIsNoWord DEF ScratchNames
    <3>3. p.unk = FALSE /\ p.error = 1 + Truth(0 > 14)
      BY <2>2, <3>1, <3>2 DEF ParseScratchpadRegister
    <3>4. Truth(0 > 14) = 0
      BY DEF Truth
    <3> HIDE DEF p
    <3>5. p.error = 1
      BY <3>3, <3>4
    <3>6. p.unk \in BOOLEAN
      BY <3>3
    <3>. QED
      BY <3>5, <3>6
  <2>. QED
    BY <2>1, <2>2
<1>4. o = Emit(o1, code) /\ ~IsBranch(l.mne)
  BY DEF VSregOp, IsBranch
<1>5. code \in Bytes /\ code[1] = x /\ Len(code) = 1
  <2>1. x \in 0..255
    BY OrIsByte
  <2> HIDE DEF x
  <2>. QED
    BY <2>1 DEF Bytes
<1> DEFINE f == p.error
           d == Truth(p.unk)
           e == 0 + f
           r == 0 + d
<1>6. d \in {0, 1} /\ (d = 0 <=> ~p.unk)
  <2> HIDE DEF p
  <2>. QED
    BY <1>3, Truths
<1>7. Is(o1, <<>>, e, r, TRUE)
  <2> HIDE DEF p
  <2>. QED
    BY <1>3, LabelledIs, UnresolvedIs
<1>8. (e = 0 => p.error = 0) /\ (r = 0 => ~p.unk)
  <2> HIDE DEF p, d
  <2>. QED
    BY <1>3, <1>6
<1> HIDE DEF o, op, name, p, code, x, o1, d, e, r, a
<1>9. Is(o, code, e, r, TRUE)
  BY <1>4, <1>5, <1>7, EmitIs
<1>10. /\ o.code = code /\ o.errors = e /\ o.redos = r /\ o.label /\ ~o.abort
       /\ e \in Nat /\ r \in Nat /\ o.label \in BOOLEAN /\ o.abort \in BOOLEAN
  BY <1>9 DEF Is, Outcomes
<1>11. ASSUME Accepted(o)
       PROVE  /\ Len(l.ops) = 1 /\ ~Unsettled(l.ops[1], t) /\ a \in Int
              /\ Decode(o.code) = <<name, a>>
  <2>1. p.error = 0 /\ ~p.unk
    BY <1>8, <1>10, <1>11 DEF Accepted
  <2>2. Len(l.ops) = 1 /\ ~Unsettled(l.ops[1], t) /\ p.reg = a /\ a \in 0..14
    BY <1>3, <2>1
  <2>3. x = op + a
    <3>1. op \in 0..255 /\ op % 16 = 0 /\ a \in 0..15
      BY <1>2, <2>2
    <3>. QED
      BY <2>2, <3>1, OrIsSum DEF x
  <2>4. Decode(o.code) = DecodeOne(op + a)
    BY <1>5, <1>10, <2>3 DEF Decode
  <2>5. DecodeOne(op + a) = <<name, a>>
    BY <1>2, <2>2 DEF DecodeOne, Moves
  <2>. QED
    BY <2>2, <2>4, <2>5
<1>12. LongForm(name) = <<name>>
  BY <1>2, LongNames
<1>13. Tidy(o, 1) /\ o.label
  BY <1>5, <1>10 DEF Tidy
<1>. QED
  BY <1>4, <1>11, <1>12, <1>13, OneOperand DEF o, name, a

(* The registers of lr.                                                    *)
LEMMA Registers ==
  /\ REG.A = 16 /\ REG.DC0 = 17 /\ REG.H = 18 /\ REG.IS = 19 /\ REG.K = 20 /\ REG.KU = 21
  /\ REG.KL = 22 /\ REG.PC0 = 23 /\ REG.PC1 = 24 /\ REG.Q = 25 /\ REG.QU = 26 /\ REG.QL = 27
  /\ REG.W = 28 /\ REG.NONE = 29
BY DEF REG

LEMMA Special ==
  ASSUME NEW word, ParseSpecialRegister(word) # REG.NONE
  PROVE  word # "expr" /\ word \notin ScratchNames /\ ParseSpecialRegister(word) \in 16..28
<1>1. CASE word \in {"a", "dc0", "dc", "h", "is", "k", "ku", "kl", "pc0", "p0", "pc1", "p", "q",
                     "qu", "ql", "w"}
  <2>1. word # "expr" /\ word \notin ScratchNames
    BY <1>1 DEF ScratchNames
  <2>2. ParseSpecialRegister(word) \in 16..28
    BY <1>1, Registers DEF ParseSpecialRegister
  <2>. QED
    BY <2>1, <2>2
<1>2. CASE word \notin {"a", "dc0", "dc", "h", "is", "k", "ku", "kl", "pc0", "p0", "pc1", "p", "q",
                        "qu", "ql", "w"}
  BY <1>2 DEF ParseSpecialRegister
<1>. QED
  BY <1>1, <1>2

LEMMA LrOperandFacts ==
  ASSUME NEW t \in Tables, NEW op, Sound(op), NEW b \in 0..255, NEW r, r = LrOperand(op, t, b)
  PROVE  Arguments(op, t, r) /\ (r.error = 0 /\ ~r.unk => r.reg \in Int)
<1> DEFINE special == ParseSpecialRegister(op.word)
           s == ParseScratchpadRegister(<<op>>, t, b)
<1>1. CASE special # REG.NONE
  <2>1. op.word # "expr" /\ op.word \notin ScratchNames /\ special \in 16..28
    BY <1>1, Special
  <2>2. Argument(op, t) = special /\ ~Unsettled(op, t)
    BY <2>1, ArgumentFacts DEF Sound, Unsettled
  <2>3. r = [reg |-> special, unk |-> FALSE, error |-> 0]
    BY <1>1 DEF LrOperand
  <2> HIDE DEF special
  <2>4. r.reg = special /\ r.error = 0
    BY <2>3
  <2>5. r.unk \in BOOLEAN
    BY <2>3
  <2>. QED
    BY <2>1, <2>2, <2>4, <2>5 DEF Arguments
<1>2. CASE special = REG.NONE
  <2>1. r = s
    BY <1>2 DEF LrOperand
  <2>2. Arguments(op, t, s) /\ s.reg \in 0..255
    BY ScratchFacts
  <2> HIDE DEF s
  <2>. QED
    BY <2>1, <2>2
<1>. QED
  BY <1>1, <1>2

LEMMA Pairs ==
  LrPairs = {<<16, 19, 10>>, <<16, 22, 1>>, <<16, 21, 0>>, <<16, 27, 3>>, <<16, 26, 2>>,
             <<17, 18, 16>>, <<17, 25, 15>>, <<18, 17, 17>>, <<19, 16, 11>>, <<20, 24, 8>>,
             <<22, 16, 5>>, <<21, 16, 4>>, <<23, 25, 13>>, <<24, 20, 9>>, <<25, 17, 14>>,
             <<27, 16, 7>>, <<26, 16, 6>>, <<28, 9, 29>>, <<9, 28, 30>>}
BY Registers DEF LrPairs

LEMMA PairsDiffer ==
  ASSUME NEW p \in LrPairs, NEW q \in LrPairs, p[3] = q[3]
  PROVE  p = q
BY Pairs

LEMMA MoveFacts ==
  ASSUME NEW p \in LrPairs
  PROVE  p[3] \in Moves /\ MoveOf(p[3]) = p
<1>1. p[3] \in Moves
  BY Pairs DEF Moves
<1>2. \A q \in LrPairs : q[3] = p[3] => q = p
  BY PairsDiffer
<1>. QED
  BY <1>1, <1>2 DEF MoveOf

LEMMA LrCodeFacts ==
  ASSUME NEW dst, NEW src, NEW c \in LrCodes(dst, src)
  PROVE  c \in 0..255 /\ DecodeOne(c) = <<"lr", dst, src>>
<1>1. ASSUME NEW p \in LrPairs, p[1] = dst, p[2] = src, c = p[3]
      PROVE  c \in 0..255 /\ DecodeOne(c) = <<"lr", dst, src>>
  <2>1. c \in Moves /\ MoveOf(c) = p
    BY <1>1, MoveFacts
  <2>2. DecodeOne(c) = <<"lr", p[1], p[2]>>
    BY <2>1 DEF DecodeOne
  <2>. QED
    BY <1>1, <2>1, <2>2 DEF Moves
<1>2. ASSUME NEW r \in 0..14, dst = REG.A, src = r, c = 64 + r
      PROVE  c \in 0..255 /\ DecodeOne(c) = <<"lr", dst, src>>
  BY <1>2 DEF DecodeOne, Moves
<1>3. ASSUME NEW r \in 0..14, dst = r, src = REG.A, c = 80 + r
      PROVE  c \in 0..255 /\ DecodeOne(c) = <<"lr", dst, src>>
  BY <1>3 DEF DecodeOne, Moves
<1>. QED
  BY <1>1, <1>2, <1>3 DEF LrCodes

LEMMA LrFacts ==
  ASSUME NEW l \in Lines, l.mne.handler = "lr", NEW t \in Tables, NEW g, NEW b \in 0..255
  PROVE  Result(l, t, g, VLr(l.ops, t, b), 1)
<1> DEFINE o == VLr(l.ops, t, b)
           x == l.ops[1]
           y == l.ops[2]
           dst == LrOperand(x, t, b)
           src == LrOperand(y, t, b)
           o1 == Unresolved(Labelled, dst)
           o2 == Unresolved(o1, src)
           Wanted == /\ o.label /\ OneComma(l.ops) /\ ~Unsettled(x, t) /\ ~Unsettled(y, t)
                     /\ Argument(x, t) \in Int /\ Argument(y, t) \in Int
                     /\ Decode(o.code) = <<"lr", Argument(x, t), Argument(y, t)>>
<1>1. l.ops \in Seq(Operand) /\ l.mne \in MneF8 /\ \A i \in DOMAIN l.ops : Sound(l.ops[i])
  BY LineFacts
<1>2. l.mne.name = "lr"
  BY <1>1, OtherRows
<1>3. Is(Labelled, <<>>, 0, 0, TRUE)
  BY LabelledIs
<1>4. CASE ~OneComma(l.ops)
  <2>1. o = Error(Labelled)
    BY <1>4 DEF VLr
  <2>2. Is(Error(Labelled), <<>>, 0 + 1, 0, TRUE)
    BY <1>3, ErrorIs
  <2> HIDE DEF o
  <2>3. o.errors = 1 /\ o.redos = 0 /\ o.label \in BOOLEAN /\ o.abort \in BOOLEAN
    BY <2>1, <2>2 DEF Is, Outcomes
  <2>. QED
    BY <2>3 DEF Result, Tidy, Accepted, o
<1>5. CASE OneComma(l.ops) /\ CommaFirst(l.ops)
  <2>1. o = Abort(Labelled)
    BY <1>5 DEF VLr
  <2>2. Abort(Labelled).errors = 0 /\ Abort(Labelled).redos = 0 /\ Abort(Labelled).abort
        /\ Abort(Labelled).abort \in BOOLEAN /\ Abort(Labelled).label \in BOOLEAN
    BY <1>3, AbortIs
  <2> HIDE DEF o
  <2>3. o.errors = 0 /\ o.redos = 0 /\ o.abort /\ o.label \in BOOLEAN /\ o.abort \in BOOLEAN
    BY <2>1, <2>2
  <2>. QED
    BY <2>3 DEF Result, Tidy, Accepted, o
<1>6. CASE OneComma(l.ops) /\ ~CommaFirst(l.ops)
  <2>1. /\ dst.unk => o = Emit(o1, <<0>>)
        /\ ~dst.unk /\ src.unk => o = Emit(o2, <<0>>)
        /\ ~dst.unk /\ ~src.unk => o = LrMove(o2, dst.reg, src.reg)
    BY <1>6 DEF VLr
  <2>2. DOMAIN l.ops = {1, 2} /\ Len(l.ops) = 2
    BY <1>1, <1>6 DEF OneComma
  <2>3. Sound(x) /\ Sound(y)
    BY <1>1, <2>2
  <2> HIDE DEF x, y, o
  <2>4. Arguments(x, t, dst) /\ (dst.error = 0 /\ ~dst.unk => dst.reg \in Int)
    BY <2>3, LrOperandFacts
  <2>5. Arguments(y, t, src) /\ (src.error = 0 /\ ~src.unk => src.reg \in Int)
    BY <2>3, LrOperandFacts
  <2> HIDE DEF dst, src
  <2>6. /\ dst.unk \in BOOLEAN /\ dst.error \in 0..2 /\ dst.error \in Nat
        /\ src.unk \in BOOLEAN /\ src.error \in 0..2 /\ src.error \in Nat
    BY <2>4, <2>5 DEF Arguments
  <2> DEFINE d == Truth(dst.unk)
             e == Truth(src.unk)
             e1 == 0 + dst.error
             r1 == 0 + d
             e2 == e1 + src.error
             r2 == r1 + e
  <2>7. Is(o1, <<>>, e1, r1, TRUE)
    BY <1>3, <2>6, UnresolvedIs
  <2> HIDE DEF o1
  <2>8. Is(o2, <<>>, e2, r2, TRUE)
    BY <2>6, <2>7, UnresolvedIs
  <2>9. d \in {0, 1} /\ e \in {0, 1} /\ (d = 0 <=> ~dst.unk) /\ (e = 0 <=> ~src.unk)
    BY <2>6, Truths
  <2>10. <<0>> \in Bytes
    BY DEF Bytes
  <2> HIDE DEF o2, d, e
  <2>11. /\ e1 \in Nat /\ e2 \in Nat /\ r1 \in Nat /\ r2 \in Nat
         /\ r1 = 0 => ~dst.unk
         /\ r2 = 0 => ~dst.unk /\ ~src.unk
         /\ e2 = 0 => dst.error = 0 /\ src.error = 0
    BY <2>6, <2>9
  <2> HIDE DEF e1, e2, r1, r2
  <2>12. CASE dst.unk
    <3>1. Is(o, <<0>>, e1, r1, TRUE)
      BY <2>1, <2>7, <2>10, <2>12, EmitIs
    <3>2. Tidy(o, 1) /\ o.redos = r1
      BY <3>1 DEF Is, Outcomes, Tidy
    <3>. QED
      BY <2>11, <2>12, <3>2 DEF Result, Accepted, o
  <2>13. CASE ~dst.unk /\ src.unk
    <3>1. Is(o, <<0>>, e2, r2, TRUE)
      BY <2>1, <2>8, <2>10, <2>13, EmitIs
    <3>2. Tidy(o, 1) /\ o.redos = r2
      BY <3>1 DEF Is, Outcomes, Tidy
    <3>. QED
      BY <2>11, <2>13, <3>2 DEF Result, Accepted, o
  <2>14. CASE ~dst.unk /\ ~src.unk
    <3> DEFINE codes == LrCodes(dst.reg, src.reg)
               c == CHOOSE k \in codes : TRUE
    <3>1. /\ codes # {} => o = Emit(o2, <<c>>)
          /\ codes = {} /\ dst.reg = REG.DC0 => o = Abort(o2)
          /\ codes = {} /\ dst.reg # REG.DC0 => o = Error(o2)
      BY <2>1, <2>14 DEF LrMove
    <3>2. CASE codes # {}
      <4>1. c \in codes
        BY <3>2
      <4>2. c \in 0..255 /\ DecodeOne(c) = <<"lr", dst.reg, src.reg>>
        BY <4>1, LrCodeFacts
      <4> HIDE DEF codes, c
      <4>3. Is(o, <<c>>, e2, r2, TRUE) /\ Len(<<c>>) = 1 /\ <<c>>[1] = c
        <5>1. <<c>> \in Bytes
          BY <4>2 DEF Bytes
        <5>2. Is(o, <<c>>, e2, r2, TRUE)
          BY <2>8, <3>1, <3>2, <5>1, EmitIs
        <5>. QED
          BY <5>2
      <4>4. Tidy(o, 1) /\ o.errors = e2 /\ o.redos = r2 /\ o.label /\ o.code = <<c>>
        BY <4>3 DEF Is, Outcomes, Tidy
      <4>5. ASSUME Accepted(o) PROVE Wanted
        <5>1. dst.error = 0 /\ src.error = 0
          BY <2>11, <4>4, <4>5 DEF Accepted
        <5>2. /\ ~Unsettled(x, t) /\ ~Unsettled(y, t) /\ dst.reg = Argument(x, t) /\ src.reg = Argument(y, t)
              /\ dst.reg \in Int /\ src.reg \in Int
          BY <2>4, <2>5, <2>14, <5>1 DEF Arguments
        <5>3. Decode(o.code) = DecodeOne(c)
          BY <4>4 DEF Decode
        <5>. QED
          BY <1>6, <4>2, <4>4, <5>2, <5>3
      <4>6. ASSUME Wanted PROVE Decode(o.code) = Meaning(l, t, g)
        <5>1. ~IsBranch(l.mne) /\ LongForm("lr") = <<"lr">>
          BY LongNames DEF IsBranch
        <5>2. Meaning(l, t, g) = <<"lr", Argument(x, t), Argument(y, t)>>
          BY <1>1, <1>2, <2>2, <4>6, <5>1, MeaningTwo DEF x, y
        <5>. QED
          BY <4>6, <5>2
      <4>7. ASSUME Wanted PROVE \A i \in DOMAIN l.ops : ~Unsettled(l.ops[i], t)
        BY <2>2, <4>7 DEF x, y
      <4> HIDE DEF Wanted
      <4>. QED
        BY <4>4, <4>5, <4>6, <4>7 DEF Result, o
    <3>3. CASE codes = {} /\ dst.reg = REG.DC0
      <4>1. o = Abort(o2)
        BY <3>1, <3>3
      <4>2. /\ Abort(o2).errors = e2 /\ Abort(o2).redos = r2 /\ Abort(o2).abort
            /\ Abort(o2).abort \in BOOLEAN /\ Abort(o2).label \in BOOLEAN
        BY <2>8, AbortIs
      <4>3. o.errors = e2 /\ o.redos = r2 /\ o.abort /\ o.label \in BOOLEAN /\ o.abort \in BOOLEAN
        BY <4>1, <4>2
      <4>. QED
        BY <2>11, <4>3 DEF Result, Tidy, Accepted, o
    <3>4. CASE codes = {} /\ dst.reg # REG.DC0
      <4>1. Is(o, <<>>, e2 + 1, r2, TRUE)
        BY <2>8, <3>1, <3>4, ErrorIs
      <4>2. o.errors = e2 + 1 /\ o.redos = r2 /\ o.label \in BOOLEAN /\ o.abort \in BOOLEAN
        BY <4>1 DEF Is, Outcomes
      <4>3. o.errors \in Nat /\ o.redos \in Nat /\ o.errors # 0
        BY <2>11, <4>2
      <4>. QED
        BY <4>2, <4>3 DEF Result, Tidy, Accepted, o
    <3>. QED
      BY <3>2, <3>3, <3>4
  <2>. QED
    BY <2>12, <2>13, <2>14
<1>. QED
  BY <1>4, <1>5, <1>6

-----------------------------------------------------------------------------
(* Branches: the operand is evaluated with the label of the line set.      *)
LEMMA SignedFacts ==
  ASSUME NEW d \in Int
  PROVE  d % 256 \in 0..255 /\ (~(d > 127 \/ d < -128) => Signed(d % 256) = d)
<1>1. d % 256 \in 0..255
  BY DEF Signed
<1>2. ASSUME d \in -128..127
      PROVE  Signed(d % 256) = d
  <2> DEFINE k == 256
  <2>1. k \in Nat \ {0} /\ d \in Int
    OBVIOUS
  <2>2. CASE d >= 0
    <3>1. 0 <= d /\ d < k
      BY <1>2, <2>2
    <3> HIDE DEF k
    <3>2. d % k = d
      BY <2>1, <3>1, SmallRemainder
    <3>. QED
      BY <1>2, <2>2, <3>2 DEF k, Signed
  <2>3. CASE d < 0
    <3>1. -k <= d /\ d < 0
      BY <1>2, <2>3
    <3> HIDE DEF k
    <3>2. d % k = d + k
      BY <2>1, <3>1, SmallRemainder
    <3>. QED
      BY <1>2, <2>3, <3>2 DEF k, Signed
  <2>. QED
    BY <1>2, <2>2, <2>3
<1>. QED
  BY <1>1, <1>2

(* The value of a branch target, signed again.                             *)
Resigned(v) == IF v >= ULong \div 2 THEN v - ULong ELSE v

LEMMA ResignedFacts ==
  /\ \A v \in 0..(ULong - 1) : Resigned(v) \in Int
  /\ \A n \in Long : Resigned(n % ULong) = n
<1>1. /\ ULong \in Nat /\ ULong > 0 /\ Long \subseteq Int
      /\ \A n \in Int : n % ULong \in 0..(ULong - 1)
      /\ \A n \in Long : n >= 0 => n % ULong = n
      /\ \A n \in Long : n < 0 => n % ULong = n + ULong
      /\ \A n \in Long : n % ULong >= ULong \div 2 <=> n < 0
  BY Widths
<1>2. ASSUME NEW v \in 0..(ULong - 1) PROVE Resigned(v) \in Int
  BY <1>1 DEF Resigned
<1>3. ASSUME NEW n \in Long PROVE Resigned(n % ULong) = n
  <2> DEFINE h == ULong \div 2
             v == n % ULong
  <2>1. /\ n \in Int /\ (n >= 0 => v = n) /\ (n < 0 => v = n + ULong) /\ (v >= h <=> n < 0)
    BY <1>1
  <2>2. Resigned(v) = IF v >= h THEN v - ULong ELSE v
    BY DEF Resigned
  <2> HIDE DEF h, v
  <2>3. Resigned(v) = n
    BY <1>1, <2>1, <2>2
  <2>. QED
    BY <2>3 DEF v
<1>. QED
  BY <1>2, <1>3

Branched(ops, t, g, opcode, e, r, x) ==
  /\ Tidy(x, 2) /\ x.label /\ ~x.abort /\ x.code[2] \in 0..255
  /\ x.errors = 0 => e = 0
  /\ x.redos = 0 => r = 0
  /\ x.errors = 0 /\ x.redos = 0 =>
       /\ Len(ops) = 1 /\ ops[1].word = "expr" /\ ~Unsettled(ops[1], Programlabel(t, g))
       /\ Argument(ops[1], Programlabel(t, g)) \in Int
       /\ x.code[1] = opcode
       /\ IsPCKnown(g) =>
            Signed(x.code[2]) + 1 = Argument(ops[1], Programlabel(t, g)) - GetPC(g)

LEMMA GenerateFacts ==
  ASSUME NEW t \in Tables, NEW g \in Place, NEW opcode \in 0..255, NEW ops, Fields(ops),
         NEW o, NEW c, NEW e, NEW r, NEW lab, Is(o, c, e, r, lab),
         NEW x, x = GenerateBranch(o, opcode, ops, t, g)
  PROVE  Branched(ops, t, g, opcode, e, r, x)
<1> DEFINE h == Programlabel(t, g)
           p == ParseValue(ops, h)
           o0 == [o EXCEPT !.label = TRUE]
           o1 == Unresolved(o0, p)
           n == Resigned(p.value)
           pc == GetPC(g)
           disp == IF IsPCKnown(g) THEN n - pc - 1 ELSE 0
           far == Truth(disp > 127 \/ disp < -128)
           a == Argument(ops[1], h)
<1>1. h \in Tables /\ pc \in Nat /\ IsPCKnown(g) \in BOOLEAN
  BY TableFacts
<1>2. /\ p.unk => x = Emit(o1, <<0, 0>>)
      /\ ~p.unk => x = Emit([o1 EXCEPT !.errors = @ + far], <<opcode, disp % 256>>)
  BY DEF GenerateBranch, Resigned
<1> HIDE DEF h
<1>3. Valued(ops, h, p)
  BY <1>1, ValueFacts
<1>4. Len(ops) = 1 => Parsed(ops[1], h, p)
  BY <1>1, SingleField, ParseFacts
<1>5. p.value \in 0..(ULong - 1)
  <2>1. CASE Len(ops) = 1
    BY <1>4, <2>1 DEF Parsed
  <2>2. CASE Len(ops) # 1
    <3>1. p.value = 0
      BY <2>2, ParseMany
    <3>. QED
      BY <3>1, Widths
  <2>. QED
    BY <2>1, <2>2
<1> HIDE DEF p
<1>6. p.value \in Nat /\ p.unk \in BOOLEAN /\ p.error \in {0, 1} /\ p.error \in Nat
  BY <1>3 DEF Valued
<1>7. n \in Int
  BY <1>5, ResignedFacts
<1>8. Is(o0, c, e, r, TRUE)
  BY LabelIs
<1> HIDE DEF o0, n, pc
<1> DEFINE u == Truth(p.unk)
           f == p.error
           e1 == e + f
           r1 == r + u
<1>9. Is(o1, c, e1, r1, TRUE)
  BY <1>6, <1>8, UnresolvedIs
<1>10. u \in {0, 1} /\ (u = 0 <=> ~p.unk)
  BY <1>6, Truths
<1>11. disp \in Int
  BY <1>1, <1>7
<1>12. e \in Nat /\ r \in Nat
  BY DEF Is, Outcomes
<1> HIDE DEF o1, u, f, disp
<1>13. far \in {0, 1} /\ (far = 0 <=> ~(disp > 127 \/ disp < -128)) /\ far \in Nat
  BY <1>11 DEF Truth
<1>14. f \in {0, 1}
  BY <1>6 DEF f
<1>15. /\ e1 \in Nat /\ r1 \in Nat /\ (e1 = 0 => e = 0 /\ f = 0) /\ (r1 = 0 => r = 0 /\ u = 0)
       /\ e1 + far \in Nat /\ (e1 + far = 0 => e1 = 0 /\ far = 0)
  BY <1>10, <1>12, <1>13, <1>14
<1> HIDE DEF e1, r1, far
<1>16. CASE p.unk
  <2>1. <<0, 0>> \in Bytes
    BY DEF Bytes
  <2>2. Is(x, <<0, 0>>, e1, r1, TRUE)
    BY <1>2, <1>9, <1>16, <2>1, EmitIs
  <2>3. Tidy(x, 2) /\ x.label /\ ~x.abort /\ x.errors = e1 /\ x.redos = r1
    BY <2>2 DEF Is, Outcomes, Tidy
  <2>4. r1 # 0
    BY <1>10, <1>15, <1>16
  <2>5. x.code[2] = 0
    BY <2>2 DEF Is, Outcomes
  <2>. QED
    BY <1>15, <2>3, <2>4, <2>5 DEF Branched
<1>17. CASE ~p.unk
  <2> DEFINE byte == disp % 256
             code == <<opcode, byte>>
  <2>1. byte \in 0..255 /\ (~(disp > 127 \/ disp < -128) => Signed(byte) = disp)
    BY <1>11, SignedFacts
  <2>2. x = Emit([o1 EXCEPT !.errors = @ + far], code)
    BY <1>2, <1>17
  <2> HIDE DEF byte
  <2>3. code \in Bytes /\ Len(code) = 2 /\ code[1] = opcode /\ code[2] = byte
    BY <2>1 DEF Bytes
  <2> HIDE DEF code
  <2>4. Is([o1 EXCEPT !.errors = @ + far], c, e1 + far, r1, TRUE)
    BY <1>9, <1>13, CountIs
  <2> DEFINE e2 == e1 + far
  <2>5. Is(x, code, e2, r1, TRUE)
    <3> HIDE DEF e2
    <3>1. Is([o1 EXCEPT !.errors = @ + far], c, e2, r1, TRUE)
      BY <2>4 DEF e2
    <3>. QED
      BY <2>2, <2>3, <3>1, EmitIs
  <2> HIDE DEF e2
  <2>6. /\ Tidy(x, 2) /\ x.label /\ ~x.abort /\ x.errors = e2 /\ x.redos = r1 /\ x.code = code
    BY <2>3, <2>5 DEF Is, Outcomes, Tidy
  <2>7. ASSUME x.errors = 0, x.redos = 0
        PROVE  /\ Len(ops) = 1 /\ ops[1].word = "expr" /\ ~Unsettled(ops[1], h) /\ a \in Int
               /\ x.code[1] = opcode
               /\ IsPCKnown(g) => Signed(x.code[2]) + 1 = a - pc
    <3>1. p.error = 0 /\ far = 0
      BY <1>15, <2>6, <2>7 DEF e2, f
    <3>2. /\ Len(ops) = 1 /\ ops[1].word = "expr" /\ ~Unsettled(ops[1], h)
          /\ a \in Long /\ p.value = a % ULong
      BY <1>3, <1>17, <3>1 DEF Valued
    <3> HIDE DEF a
    <3>3. n = a /\ a \in Int
      BY <3>2, ResignedFacts, Widths DEF n
    <3>4. Signed(byte) = disp
      BY <1>13, <2>1, <3>1
    <3>5. IsPCKnown(g) => disp = n - pc - 1
      BY DEF disp
    <3>6. IsPCKnown(g) => Signed(byte) + 1 = a - pc
      BY <1>1, <3>3, <3>4, <3>5 DEF pc
    <3>. QED
      BY <2>3, <2>6, <3>2, <3>3, <3>6
  <2>8. (x.errors = 0 => e = 0) /\ (x.redos = 0 => r = 0)
    BY <1>15, <2>6 DEF e2
  <2>9. x.code[2] \in 0..255
    BY <2>1, <2>3, <2>6
  <2>. QED
    BY <2>6, <2>7, <2>8, <2>9 DEF Branched, a, h, pc
<1>. QED
  BY <1>6, <1>16, <1>17

(* An accepted branch leads to its target.                                 *)
Reaches(l, t, g, o) ==
  Accepted(o) /\ IsPCKnown(g) =>
    GetPC(g) + 1 + Signed(o.code[2]) = Exact(l.ops[Len(l.ops)], t)

LEMMA JoinedMask ==
  \A x, a, b : <<x, a>> \o <<b>> = <<x, a, b>>
<1> SUFFICES ASSUME NEW x, NEW a, NEW b
             PROVE  <<x, a>> \o <<b>> = <<x, a, b>>
  OBVIOUS
<1> DEFINE S == {x, a, b}
           p == <<x, a>>
           q == <<b>>
           s == p \o q
           w == <<x, a, b>>
<1>1. p \in Seq(S) /\ q \in Seq(S) /\ w \in Seq(S)
  OBVIOUS
<1>2. /\ Len(p) = 2 /\ Len(q) = 1 /\ p[1] = x /\ p[2] = a /\ q[1] = b
      /\ Len(w) = 3 /\ w[1] = x /\ w[2] = a /\ w[3] = b
  OBVIOUS
<1> HIDE DEF p, q, S, w
<1>3. /\ s \in Seq(S) /\ Len(s) = Len(p) + Len(q)
      /\ \A i \in 1..(Len(p) + Len(q)) : s[i] = IF i <= Len(p) THEN p[i] ELSE q[i - Len(p)]
  BY <1>1, ConcatProperties
<1> HIDE DEF s
<1>4. s[1] = p[1] /\ s[2] = p[2] /\ s[3] = q[1] /\ Len(s) = 3
  BY <1>2, <1>3
<1>5. s = w
  BY <1>1, <1>2, <1>3, <1>4, SeqEqual
<1>. QED
  BY <1>5 DEF s, w, p, q

LEMMA BranchRowFacts ==
  ASSUME NEW name, NEW op, NEW byte, NEW d \in Int, Signed(byte) + 1 = d,
         <<name, op>> \in {<<"bc", 130>>, <<"bm", 145>>, <<"bnc", 146>>, <<"bno", 152>>, <<"bnz", 148>>,
               <<"bp", 129>>, <<"br", 144>>, <<"br7", 143>>, <<"bz", 132>>}
  PROVE  DecodeTwo(op, byte) = LongForm(name) \o <<d>>
<1> DEFINE P(m) == \/ LongForm(name) = <<"bt", m>> /\ DecodeTwo(op, byte) = <<"bt", m, d>>
                   \/ LongForm(name) = <<"bf", m>> /\ DecodeTwo(op, byte) = <<"bf", m, d>>
<1>1. CASE name = "br7" /\ op = 143
  <2>1. LongForm(name) = <<"br7">> /\ DecodeTwo(op, byte) = <<"br7", d>>
    BY <1>1, LongNames DEF DecodeTwo
  <2>2. <<"br7">> \o <<d>> = <<"br7", d>>
    BY Joined
  <2>. QED
    BY <2>1, <2>2
<1>2. ASSUME NEW m \in Int, P(m)
      PROVE  DecodeTwo(op, byte) = LongForm(name) \o <<d>>
  <2>1. <<"bt", m>> \o <<d>> = <<"bt", m, d>> /\ <<"bf", m>> \o <<d>> = <<"bf", m, d>>
    BY JoinedMask
  <2>. QED
    BY <1>2, <2>1
<1>3. ASSUME name # "br7"
      PROVE  \E m \in Int : P(m)
  <2>1. CASE name = "bc" /\ op = 130
    <3>1. P(2)
      BY <2>1, LongNames DEF DecodeTwo
    <3> HIDE DEF P
    <3>. QED
      BY <3>1
  <2>2. CASE name = "bm" /\ op = 145
    <3>1. P(1)
      BY <2>2, LongNames DEF DecodeTwo
    <3> HIDE DEF P
    <3>. QED
      BY <3>1
  <2>3. CASE name = "bnc" /\ op = 146
    <3>1. P(2)
      BY <2>3, LongNames DEF DecodeTwo
    <3> HIDE DEF P
    <3>. QED
      BY <3>1
  <2>4. CASE name = "bno" /\ op = 152
    <3>1. P(8)
      BY <2>4, LongNames DEF DecodeTwo
    <3> HIDE DEF P
    <3>. QED
      BY <3>1
  <2>5. CASE name = "bnz" /\ op = 148
    <3>1. P(4)
      BY <2>5, LongNames DEF DecodeTwo
    <3> HIDE DEF P
    <3>. QED
      BY <3>1
  <2>6. CASE name = "bp" /\ op = 129
    <3>1. P(1)
      BY <2>6, LongNames DEF DecodeTwo
    <3> HIDE DEF P
    <3>. QED
      BY <3>1
  <2>7. CASE name = "br" /\ op = 144
    <3>1. P(0)
      BY <2>7, LongNames DEF DecodeTwo
    <3> HIDE DEF P
    <3>. QED
      BY <3>1
  <2>8. CASE name = "bz" /\ op = 132
    <3>1. P(4)
      BY <2>8, LongNames DEF DecodeTwo
    <3> HIDE DEF P
    <3>. QED
      BY <3>1
  <2>. QED
    BY <1>3, <2>1, <2>2, <2>3, <2>4, <2>5, <2>6, <2>7, <2>8
<1>. QED
  BY <1>1, <1>2, <1>3

LEMMA BranchFacts ==
  ASSUME NEW l \in Lines, l.mne.handler = "branch", NEW t \in Tables, NEW g \in Place,
         NEW o, o = GenerateBranch(Outcome, l.mne.opcode, l.ops, t, g)
  PROVE  Result(l, Programlabel(t, g), g, o, 2) /\ Reaches(l, Programlabel(t, g), g, o)
<1> DEFINE h == Programlabel(t, g)
           op == l.mne.opcode
           name == l.mne.name
           a == Argument(l.ops[1], h)
           pc == GetPC(g)
<1>1. Fields(l.ops) /\ l.ops \in Seq(Operand) /\ l.mne \in MneF8
  BY LineFacts
<1>2. <<name, op>> \in
              {<<"bc", 130>>, <<"bm", 145>>, <<"bnc", 146>>, <<"bno", 152>>, <<"bnz", 148>>,
               <<"bp", 129>>, <<"br", 144>>, <<"br7", 143>>, <<"bz", 132>>}
  BY <1>1, OtherRows
<1>3. IsBranch(l.mne)
  BY DEF IsBranch
<1>4. pc \in Nat
  BY TableFacts
<1>5. Branched(l.ops, t, g, op, 0, 0, o)
  <2>1. Is(Outcome, <<>>, 0, 0, FALSE)
    BY OutcomeIs
  <2>2. op \in 0..255
    BY <1>2
  <2>3. o = GenerateBranch(Outcome, op, l.ops, t, g)
    OBVIOUS
  <2> HIDE DEF op
  <2>. QED
    BY <1>1, <2>1, <2>2, <2>3, GenerateFacts
<1> HIDE DEF op, name
<1>6. Tidy(o, 2) /\ o.label
  BY <1>5 DEF Branched
<1>7. ASSUME Accepted(o)
      PROVE  /\ Len(l.ops) = 1 /\ l.ops[1].word = "expr" /\ ~Unsettled(l.ops[1], h) /\ a \in Int
             /\ Len(o.code) = 2 /\ o.code[1] = op
             /\ IsPCKnown(g) => Signed(o.code[2]) + 1 = a - pc
  BY <1>5, <1>7 DEF Branched, Accepted, Tidy
<1>8. ASSUME Accepted(o), IsPCKnown(g)
      PROVE  Decode(o.code) = Meaning(l, h, g)
  <2> DEFINE d == a - pc
             byte == o.code[2]
  <2>1. d \in Int /\ d = Argument(l.ops[1], h) - GetPC(g)
    BY <1>4, <1>7, <1>8
  <2>2. Signed(byte) + 1 = d
    BY <1>7, <1>8
  <2> HIDE DEF d, h, byte
  <2>3. Meaning(l, h, g) = LongForm(name) \o <<d>>
    BY <1>1, <1>3, <1>7, <1>8, <2>1, MeaningBranch DEF name
  <2>4. DecodeTwo(op, byte) = LongForm(name) \o <<d>>
    BY <1>2, <2>1, <2>2, BranchRowFacts
  <2>5. Decode(o.code) = DecodeTwo(op, byte)
    BY <1>7, <1>8 DEF Decode, byte
  <2>. QED
    BY <2>3, <2>4, <2>5
<1>9. ASSUME Accepted(o) PROVE \A i \in DOMAIN l.ops : ~Unsettled(l.ops[i], h)
  <2>1. DOMAIN l.ops = {1}
    BY <1>1, <1>7, <1>9
  <2>. QED
    BY <1>7, <1>9, <2>1
<1>10. Reaches(l, h, g, o)
  <2> SUFFICES ASSUME Accepted(o), IsPCKnown(g)
               PROVE  pc + 1 + Signed(o.code[2]) = Exact(l.ops[Len(l.ops)], h)
    BY DEF Reaches
  <2>1. a = Exact(l.ops[1], h) /\ Len(l.ops) = 1 /\ a \in Int /\ Signed(o.code[2]) + 1 = a - pc
    BY <1>7, ArgumentFacts
  <2>2. Signed(o.code[2]) \in Int
    <3>1. o.code[2] \in 0..255
      BY <1>5 DEF Branched
    <3>. QED
      BY <3>1 DEF Signed
  <2> HIDE DEF a, pc
  <2>. QED
    BY <1>4, <2>1, <2>2
<1> HIDE DEF a, pc, h
<1>11. Result(l, h, g, o, 2)
  BY <1>6, <1>8, <1>9 DEF Result
<1>. QED
  BY <1>10, <1>11 DEF h

(* bf and bt: the mask is parsed before the label of the line is set.      *)
LEMMA BfBtFacts ==
  ASSUME NEW l \in Lines, l.mne.handler = "bf_bt", NEW t \in Tables, NEW g \in Place,
         Len(l.ops) = 2 /\ l.ops[1].sym = "self" => t.self.unk,
         NEW o, o = VBfBt(l.ops, l.mne, t, g)
  PROVE  Result(l, Programlabel(t, g), g, o, 2) /\ Reaches(l, Programlabel(t, g), g, o)
<1> DEFINE h == Programlabel(t, g)
           op == l.mne.opcode
           name == l.mne.name
           x == l.ops[1]
           y == l.ops[2]
           a == Argument(x, h)
           z == Argument(y, h)
           pc == GetPC(g)
           p == ParseValue(<<x>>, t)
           max == IF name = "bf" THEN 15 ELSE 7
           o1 == Unresolved(Outcome, p)
           o2 == Ranged(o1, p.value, max)
           low == p.value % (max + 1)
           code == Or(op, low)
<1>1. Fields(l.ops) /\ l.ops \in Seq(Operand) /\ l.mne \in MneF8 /\ \A i \in DOMAIN l.ops : Sound(l.ops[i])
  BY LineFacts
<1>2. <<name, op>> \in {<<"bf", 144>>, <<"bt", 128>>}
  BY <1>1, OtherRows
<1>3. IsBranch(l.mne)
  BY DEF IsBranch
<1>4. pc \in Nat /\ h \in Tables /\ h.u = t.u
  BY TableFacts
<1>5. /\ ~OneComma(l.ops) => o = Error(Outcome)
      /\ OneComma(l.ops) /\ CommaFirst(l.ops) => o = Abort(Outcome)
      /\ OneComma(l.ops) /\ ~CommaFirst(l.ops) /\ p.unk => o = Emit(o2, <<0, 0>>)
      /\ OneComma(l.ops) /\ ~CommaFirst(l.ops) /\ ~p.unk => o = GenerateBranch(o2, code, <<y>>, t, g)
  BY DEF VBfBt
<1>6. Is(Outcome, <<>>, 0, 0, FALSE)
  BY OutcomeIs
<1>7. CASE ~OneComma(l.ops)
  <2>1. Is(Error(Outcome), <<>>, 0 + 1, 0, FALSE)
    BY <1>6, ErrorIs
  <2>2. o.errors = 1 /\ o.redos = 0 /\ o.label \in BOOLEAN /\ o.abort \in BOOLEAN
    BY <1>5, <1>7, <2>1 DEF Is, Outcomes
  <2>. QED
    BY <2>2 DEF Result, Tidy, Accepted, Reaches
<1>8. CASE OneComma(l.ops) /\ CommaFirst(l.ops)
  <2>1. Abort(Outcome).errors = 0 /\ Abort(Outcome).redos = 0 /\ Abort(Outcome).abort
        /\ Abort(Outcome).abort \in BOOLEAN /\ Abort(Outcome).label \in BOOLEAN
    BY <1>6, AbortIs
  <2>2. o = Abort(Outcome)
    BY <1>5, <1>8
  <2>3. o.errors = 0 /\ o.redos = 0 /\ o.abort /\ o.label \in BOOLEAN /\ o.abort \in BOOLEAN
    BY <2>1, <2>2
  <2>. QED
    BY <2>3 DEF Result, Tidy, Accepted, Reaches
<1>9. CASE OneComma(l.ops) /\ ~CommaFirst(l.ops)
  <2>1. DOMAIN l.ops = {1, 2} /\ Len(l.ops) = 2
    BY <1>1, <1>9 DEF OneComma
  <2>2. Sound(x) /\ Sound(y)
    BY <1>1, <2>1
  <2>3. x \in Operand /\ y \in Operand
    BY <2>2 DEF Sound
  <2>4. Fields(<<x>>) /\ Fields(<<y>>)
    <3> HIDE DEF x, y
    <3>1. <<x>> \in Seq(Operand) /\ DOMAIN <<x>> = {1} /\ <<x>>[1] = x
      BY <2>3
    <3>2. <<y>> \in Seq(Operand) /\ DOMAIN <<y>> = {1} /\ <<y>>[1] = y
      BY <2>3
    <3>. QED
      BY <2>2, <3>1, <3>2 DEF Fields
  <2>5. /\ p.unk => o = Emit(o2, <<0, 0>>)
        /\ ~p.unk => o = GenerateBranch(o2, code, <<y>>, t, g)
    BY <1>5, <1>9
  <2>6. x.sym = "self" => t.self.unk
    BY <2>1
  <2> HIDE DEF h, x, y
  <2>7. Valued(<<x>>, t, p) /\ Parsed(x, t, p)
    BY <2>2, <2>4, ValueFacts, ParseFacts
  <2> HIDE DEF p
  <2>8. p.value \in Nat /\ p.unk \in BOOLEAN /\ p.error \in {0, 1} /\ p.error \in Nat
    BY <2>7 DEF Valued
  <2>9. code \in 0..255
    BY OrIsByte
  <2>10. max \in {7, 15} /\ ((name = "bf" /\ max = 15) \/ (name = "bt" /\ max = 7))
    BY <1>2
  <2> HIDE DEF code, max, op, name
  <2> DEFINE v == p.value
             f == p.error
             d == Truth(p.unk)
             u == Truth(v > max)
             e == 0 + f + u
             r == 0 + d
  <2>11. Is(o1, <<>>, 0 + f, r, FALSE)
    BY <1>6, <2>8, UnresolvedIs
  <2>12. d \in {0, 1} /\ (d = 0 <=> ~p.unk)
    BY <2>8, Truths
  <2>13. u \in {0, 1} /\ (u = 0 <=> ~(v > max))
    BY <2>8, <2>10 DEF Truth
  <2>14. f \in {0, 1} /\ v \in Nat
    BY <2>8
  <2> HIDE DEF o1, d, r
  <2>15. Is(o2, <<>>, e, r, FALSE)
    BY <2>11, RangedIs
  <2> HIDE DEF u, v, f, o2
  <2>16. (e = 0 => f = 0 /\ u = 0) /\ (r = 0 => d = 0) /\ e \in Nat /\ r \in Nat
    BY <2>12, <2>13, <2>14 DEF r
  <2> HIDE DEF e
  <2>17. CASE p.unk
    <3>1. <<0, 0>> \in Bytes
      BY DEF Bytes
    <3>2. Is(o, <<0, 0>>, e, r, FALSE)
      BY <2>5, <2>15, <2>17, <3>1, EmitIs
    <3>3. Tidy(o, 2) /\ o.redos = r
      BY <3>2 DEF Is, Outcomes, Tidy
    <3>4. r # 0
      BY <2>12, <2>16, <2>17
    <3>. QED
      BY <3>3, <3>4 DEF Result, Accepted, Reaches
  <2>18. CASE ~p.unk
    <3>1. Branched(<<y>>, t, g, code, e, r, o)
      <4>1. o = GenerateBranch(o2, code, <<y>>, t, g)
        BY <2>5, <2>18
      <4> DEFINE ops == <<y>>
      <4>2. Fields(ops) /\ o = GenerateBranch(o2, code, ops, t, g)
        BY <2>4, <4>1
      <4> HIDE DEF ops
      <4>3. Branched(ops, t, g, code, e, r, o)
        BY <2>9, <2>15, <4>2, GenerateFacts
      <4>. QED
        BY <4>3 DEF ops
    <3>2. Tidy(o, 2) /\ o.label /\ o.code[2] \in 0..255
      BY <3>1 DEF Branched
    <3>3. <<y>>[1] = y
      OBVIOUS
    <3>4. ASSUME Accepted(o)
          PROVE  /\ y.word = "expr" /\ ~Unsettled(y, h) /\ z \in Int /\ Len(o.code) = 2 /\ o.code[1] = code
                 /\ IsPCKnown(g) => Signed(o.code[2]) + 1 = z - pc
                 /\ f = 0 /\ u = 0
      BY <2>16, <3>1, <3>2, <3>3, <3>4 DEF Branched, Accepted, Tidy, h
    <3>5. ASSUME Accepted(o)
          PROVE  ~Unsettled(x, h) /\ a = v /\ v \in 0..max
      <4>1. f = 0 /\ ~(v > max)
        BY <2>13, <3>4, <3>5
      <4>2. v \in 0..max /\ max \in {7, 15}
        BY <2>10, <2>14, <4>1
      <4>3. x.word = "expr" /\ ~Unsettled(x, t)
        BY <2>7, <2>18, <4>1 DEF Parsed, f
      <4>4. v <= 256 * 256 - 1
        BY <4>2
      <4>5. <<x>>[1] = x
        OBVIOUS
      <4>6. v = Argument(x, t)
        BY <2>7, <2>18, <4>1, <4>4, <4>5 DEF Valued, f, v
      <4>7. x.sym \in {None, "u"}
        <5>1. x.sym \in {None, "u", "self"}
          BY <2>3 DEF Operand
        <5>2. x.sym # "self"
          BY <2>6, <4>3 DEF Unsettled, None
        <5>. QED
          BY <5>1, <5>2
      <4>8. ~Unsettled(x, h) /\ Exact(x, h) = Exact(x, t)
        BY <1>4, <4>3, <4>7 DEF Unsettled, Exact, None
      <4>9. Argument(x, h) = Exact(x, h) /\ Argument(x, t) = Exact(x, t)
        BY <4>3, ArgumentFacts
      <4>. QED
        BY <4>2, <4>6, <4>8, <4>9
    <3>6. ASSUME Accepted(o) PROVE code = op + v
      <4>1. v \in 0..max
        BY <3>5, <3>6
      <4>2. op \in 0..255 /\ op % 16 = 0 /\ v \in 0..15
        BY <1>2, <2>10, <4>1
      <4>3. low = v
        BY <2>10, <4>1 DEF v
      <4>4. Or(op, v) = op + v
        BY <4>2, OrIsSum
      <4>. QED
        BY <4>3, <4>4 DEF code
    <3>7. ASSUME Accepted(o), IsPCKnown(g) PROVE Decode(o.code) = Meaning(l, h, g)
      <4> DEFINE w == z - pc
                 byte == o.code[2]
      <4>1. w \in Int /\ w = Argument(y, h) - GetPC(g)
        BY <1>4, <3>4, <3>7
      <4>2. Signed(byte) + 1 = w
        BY <3>4, <3>7
      <4>3. LongForm(name) = <<name>>
        BY <1>2, LongNames
      <4>4. v \in Int /\ v = Argument(x, h)
        BY <2>14, <3>5, <3>7
      <4> HIDE DEF w, byte
      <4>5. Meaning(l, h, g) = <<name, v, w>>
        BY <1>1, <1>3, <2>1, <4>1, <4>3, <4>4, MeaningMask DEF name, x, y
      <4>6. DecodeTwo(op + v, byte) = <<name, v, w>>
        <5>1. v \in 0..max
          BY <3>5, <3>7
        <5>2. (name = "bf" /\ op = 144 /\ v \in 0..15) \/ (name = "bt" /\ op = 128 /\ v \in 0..7)
          BY <1>2, <2>10, <5>1
        <5>. QED
          BY <4>2, <5>2 DEF DecodeTwo
      <4>7. Decode(o.code) = DecodeTwo(op + v, byte)
        BY <3>4, <3>6, <3>7 DEF Decode, byte
      <4>. QED
        BY <4>5, <4>6, <4>7
    <3>8. ASSUME Accepted(o) PROVE \A i \in DOMAIN l.ops : ~Unsettled(l.ops[i], h)
      BY <2>1, <3>4, <3>5, <3>8 DEF x, y
    <3>9. Reaches(l, h, g, o)
      <4> SUFFICES ASSUME Accepted(o), IsPCKnown(g)
                   PROVE  pc + 1 + Signed(o.code[2]) = Exact(y, h)
        BY <2>1 DEF Reaches, y
      <4>1. z = Exact(y, h) /\ z \in Int /\ Signed(o.code[2]) + 1 = z - pc
        BY <3>4, ArgumentFacts
      <4>2. Signed(o.code[2]) \in Int
        BY <3>2 DEF Signed
      <4> HIDE DEF z, pc
      <4>. QED
        BY <1>4, <4>1, <4>2
    <3>10. Result(l, h, g, o, 2)
      <4> HIDE DEF a, z, pc
      <4>. QED
        BY <3>2, <3>7, <3>8 DEF Result
    <3>. QED
      BY <3>9, <3>10 DEF h
  <2>. QED
    BY <2>8, <2>17, <2>18
<1>. QED
  BY <1>7, <1>8, <1>9

LEMMA BfBtWaits ==
  ASSUME NEW l \in Lines, l.mne.handler = "bf_bt", NEW t \in Tables, NEW g \in Place,
         Len(l.ops) = 2, l.ops[1].sym = "self", t.self.unk,
         NEW o, o = VBfBt(l.ops, l.mne, t, g)
  PROVE  ~o.label
<1> DEFINE x == l.ops[1]
           p == ParseValue(<<x>>, t)
           max == IF l.mne.name = "bf" THEN 15 ELSE 7
           o1 == Unresolved(Outcome, p)
           o2 == Ranged(o1, p.value, max)
<1>1. l.ops \in Seq(Operand) /\ \A i \in DOMAIN l.ops : Sound(l.ops[i])
  BY LineFacts
<1>2. Sound(x) /\ x.sym = "self"
  BY <1>1
<1>3. x.word = "expr" /\ Unsettled(x, t)
  BY <1>2 DEF Sound, Unsettled, None
<1>4. ~CommaFirst(l.ops) /\ OneComma(l.ops)
  BY <1>3, EmptyIsNoWord DEF CommaFirst, OneComma
<1>5. Parsed(x, t, p)
  BY <1>2, ParseFacts
<1>6. p.unk /\ p.unk \in BOOLEAN /\ p.error \in Nat
  BY <1>3, <1>5 DEF Parsed
<1>7. o = Emit(o2, <<0, 0>>)
  BY <1>4, <1>6 DEF VBfBt
<1> HIDE DEF p, x
<1>8. Is(o1, <<>>, 0 + p.error, 0 + Truth(p.unk), FALSE)
  BY <1>6, OutcomeIs, UnresolvedIs
<1> HIDE DEF o1
<1> DEFINE e == 0 + p.error + Truth(p.value > max)
           r == 0 + Truth(p.unk)
<1>9. Is(o2, <<>>, e, r, FALSE)
  BY <1>8, RangedIs
<1> HIDE DEF o2, e, r
<1>10. <<0, 0>> \in Bytes
  BY DEF Bytes
<1>11. Is(o, <<0, 0>>, e, r, FALSE)
  BY <1>7, <1>9, <1>10, EmitIs
<1>. QED
  BY <1>11 DEF Is, Outcomes

-----------------------------------------------------------------------------
(* The invariant.  A line has one length; a branch on a mask that is the   *)
(* label of the line itself never gets that label; and what is written     *)
(* can be read back as what the line means in the symbols of now.          *)
Size(mne) == IF mne.handler = "wordop" THEN 3
             ELSE IF mne.handler \in {"byteop", "branch", "bf_bt"} THEN 2 ELSE 1
MaskIsSelf == line.mne.handler = "bf_bt" /\ Len(line.ops) = 2 /\ line.ops[1].sym = "self"
TypeOK ==
  /\ line \in Lines /\ table \in Tables /\ seg \in Place /\ redo \in Nat
  /\ fresh \in BOOLEAN
ReadBack ==
  /\ \A i \in DOMAIN line.ops : ~Unsettled(line.ops[i], table)
  /\ table = Programlabel(table, seg)
  /\ IsPCKnown(seg) => Decode(insn.code) = Meaning(line, table, seg)
  /\ IsPCKnown(seg) /\ IsBranch(line.mne) =>
       GetPC(seg) + 1 + Signed(insn.code[2]) = Exact(line.ops[Len(line.ops)], table)
F8Inv ==
  /\ TypeOK
  /\ lengths \subseteq {Size(line.mne)}
  /\ MaskIsSelf => table.self.unk
  /\ Settled => ReadBack

LEMMA InitFacts == Init => F8Inv
<1> SUFFICES ASSUME Init PROVE F8Inv
  OBVIOUS
<1>1. line \in Lines /\ seg \in Place /\ redo \in Nat /\ fresh \in BOOLEAN /\ lengths = {} /\ insn = Idle
  BY F8Assumption DEF Init
<1>2. table = [u |-> [n |-> 0, unk |-> TRUE], self |-> [n |-> 0, unk |-> TRUE]]
  BY DEF Init
<1>3. 0 \in Long
  <2> DEFINE h == ULong \div 2
  <2>1. h \in Nat /\ h >= 256 * 256
    BY F8Assumption
  <2>2. Long = (0 - h)..(h - 1)
    BY DEF Long
  <2> HIDE DEF h
  <2>. QED
    BY <2>1, <2>2
<1>4. table \in Tables
  <2> DEFINE s == [n |-> 0, unk |-> TRUE]
  <2>1. s \in Symbol
    BY <1>3 DEF Symbol
  <2> HIDE DEF s
  <2>2. table = [u |-> s, self |-> s]
    BY <1>2 DEF s
  <2>. QED
    BY <2>1, <2>2 DEF Tables
<1>5. table.self.unk
  BY <1>2
<1>6. ~insn.done
  BY <1>1 DEF Idle
<1>. QED
  BY <1>1, <1>4, <1>5, <1>6 DEF F8Inv, TypeOK, Settled

LEMMA LabelTwice ==
  ASSUME NEW t \in Tables, NEW g \in Place
  PROVE  Programlabel(Programlabel(t, g), g) = Programlabel(t, g)
<1> DEFINE s == [n |-> GetPC(g), unk |-> ~IsPCKnown(g)]
<1>1. \A x : Programlabel(x, g) = [x EXCEPT !.self = s]
  BY DEF Programlabel
<1>2. s \in Symbol
  BY TableFacts DEF Symbol
<1> HIDE DEF s
<1>. QED
  BY <1>1, <1>2 DEF Tables

(* Every handler ends like this.                                           *)
LEMMA FinishFacts ==
  ASSUME F8Inv, NEW o, Finish(o),
         Result(line, Programlabel(table, seg), seg, o, Size(line.mne)),
         IsBranch(line.mne) => Reaches(line, Programlabel(table, seg), seg, o),
         MaskIsSelf => ~o.label
  PROVE  F8Inv'
<1> DEFINE h == Programlabel(table, seg)
           w == Written(o, seg)
<1>1. line \in Lines /\ table \in Tables /\ seg \in Place /\ redo \in Nat /\ fresh \in BOOLEAN
  BY DEF F8Inv, TypeOK
<1>2. h \in Tables
  BY <1>1, TableFacts
<1>3. line' = line /\ seg' = seg
  BY DEF Finish
<1>4. table' = IF o.label THEN h ELSE table
  BY DEF Finish
<1>5. Tidy(o, Size(line.mne))
  BY DEF Result
<1>6. TypeOK'
  <2>1. table' \in Tables
    <3> HIDE DEF h
    <3>. QED
      BY <1>1, <1>2, <1>4
  <2>2. redo' \in Nat /\ fresh' \in BOOLEAN
    BY <1>1, <1>5 DEF Finish, Tidy, Truth
  <2>. QED
    BY <1>1, <1>3, <2>1, <2>2 DEF TypeOK
<1>7. lengths' \subseteq {Size(line.mne)'}
  <2>1. lengths' = IF o.errors = 0 /\ ~o.abort THEN lengths \cup {Len(o.code)} ELSE lengths
    BY DEF Finish
  <2>2. lengths \subseteq {Size(line.mne)}
    BY DEF F8Inv
  <2>3. o.errors = 0 /\ ~o.abort => Len(o.code) = Size(line.mne)
    BY <1>5 DEF Tidy
  <2>4. Size(line.mne)' = Size(line.mne)
    BY <1>3 DEF Size
  <2>. QED
    BY <2>1, <2>2, <2>3, <2>4
<1>8. MaskIsSelf' => table'.self.unk
  <2>1. MaskIsSelf' <=> MaskIsSelf
    BY <1>3 DEF MaskIsSelf
  <2>2. ASSUME MaskIsSelf PROVE table'.self.unk
    <3>1. table' = table
      BY <1>4, <2>2
    <3>2. table.self.unk
      BY <2>2 DEF F8Inv
    <3>. QED
      BY <3>1, <3>2
  <2>. QED
    BY <2>1, <2>2
<1>9. ASSUME Settled' PROVE ReadBack'
  <2>1. insn' = [done |-> TRUE, code |-> o.code, errors |-> o.errors, abort |-> o.abort,
                 written |-> w]
    BY DEF Finish
  <2> HIDE DEF w
  <2>2. insn'.code = o.code /\ insn'.errors = o.errors /\ insn'.abort = o.abort /\ insn'.written = w
    BY <2>1
  <2>3. insn'.written /\ insn'.errors = 0 /\ ~insn'.abort
    BY <1>9 DEF Settled
  <2>4. w /\ o.errors = 0 /\ ~o.abort
    BY <2>2, <2>3
  <2>5. o.code # <<>> /\ redo + o.redos = 0
    BY <2>4 DEF w, Written
  <2>6. o.redos = 0
    BY <1>1, <1>5, <2>5 DEF Tidy
  <2>7. Accepted(o)
    BY <2>4, <2>5, <2>6 DEF Accepted
  <2>8. /\ o.label
        /\ \A i \in DOMAIN line.ops : ~Unsettled(line.ops[i], h)
        /\ IsPCKnown(seg) => Decode(o.code) = Meaning(line, h, seg)
    BY <2>7 DEF Result
  <2>9. IsPCKnown(seg) /\ IsBranch(line.mne) =>
          GetPC(seg) + 1 + Signed(o.code[2]) = Exact(line.ops[Len(line.ops)], h)
    BY <2>7 DEF Reaches
  <2>10. Programlabel(h, seg) = h
    BY <1>1, LabelTwice
  <2>11. table' = h
    BY <1>4, <2>8
  <2> DEFINE q == insn'
             k == table'
  <2> HIDE DEF h
  <2>12. /\ \A i \in DOMAIN line.ops : ~Unsettled(line.ops[i], k)
         /\ k = Programlabel(k, seg)
         /\ IsPCKnown(seg) => Decode(q.code) = Meaning(line, k, seg)
         /\ IsPCKnown(seg) /\ IsBranch(line.mne) =>
              GetPC(seg) + 1 + Signed(q.code[2]) = Exact(line.ops[Len(line.ops)], k)
    BY <2>2, <2>8, <2>9, <2>10, <2>11
  <2>13. /\ \A i \in DOMAIN line'.ops : ~Unsettled(line'.ops[i], k)
         /\ k = Programlabel(k, seg')
         /\ IsPCKnown(seg') => Decode(q.code) = Meaning(line', k, seg')
         /\ IsPCKnown(seg') /\ IsBranch(line'.mne) =>
              GetPC(seg') + 1 + Signed(q.code[2]) = Exact(line'.ops[Len(line'.ops)], k)
    BY <1>3, <2>12
  <2>. QED
    BY <2>13 DEF ReadBack
<1>. QED
  BY <1>6, <1>7, <1>8, <1>9 DEF F8Inv

LEMMA NextPassFacts == ASSUME F8Inv, NextPass PROVE F8Inv'
<1>1. line \in Lines /\ table \in Tables /\ line' = line /\ lengths' = lengths /\ insn' = Idle
  BY DEF F8Inv, TypeOK, NextPass
<1>2. seg' \in Place /\ fresh' \in BOOLEAN /\ redo' \in Nat
  BY F8Assumption DEF NextPass
<1>3. table' \in Tables /\ table'.self = table.self
  <2>1. CASE table' = table
    BY <1>1, <2>1
  <2>2. CASE \E v \in Values : table' = [table EXCEPT !.u = [n |-> v, unk |-> FALSE]]
    <3>1. PICK v \in Values : table' = [table EXCEPT !.u = [n |-> v, unk |-> FALSE]]
      BY <2>2
    <3> DEFINE s == [n |-> v, unk |-> FALSE]
    <3>2. s \in Symbol
      BY F8Assumption DEF Symbol
    <3>3. table' = [table EXCEPT !.u = s]
      BY <3>1
    <3> HIDE DEF s
    <3>. QED
      BY <1>1, <3>2, <3>3 DEF Tables
  <2>. QED
    BY <2>1, <2>2 DEF NextPass
<1>4. TypeOK'
  BY <1>1, <1>2, <1>3 DEF TypeOK
<1>5. lengths' \subseteq {Size(line.mne)'}
  BY <1>1 DEF F8Inv, Size
<1>6. MaskIsSelf' => table'.self.unk
  <2>1. MaskIsSelf' <=> MaskIsSelf
    BY <1>1 DEF MaskIsSelf
  <2>2. MaskIsSelf => table.self.unk
    BY DEF F8Inv
  <2>. QED
    BY <1>3, <2>1, <2>2
<1>7. ~Settled'
  <2>1. ~insn'.done
    BY <1>1 DEF Idle
  <2>. QED
    BY <2>1 DEF Settled
<1>. QED
  BY <1>4, <1>5, <1>6, <1>7 DEF F8Inv

LEMMA StepFacts == F8Inv /\ [Next]_vars => F8Inv'
<1> SUFFICES ASSUME F8Inv, [Next]_vars PROVE F8Inv'
  OBVIOUS
<1> DEFINE handler == line.mne.handler
<1>1. line \in Lines /\ table \in Tables /\ seg \in Place
  BY DEF F8Inv, TypeOK
<1>2. Here \in Tables /\ Here = Programlabel(table, seg)
  BY <1>1, TableFacts DEF Here
<1>3. ASSUME NEW o, Finish(o), Result(line, Here, seg, o, Size(line.mne)), ~IsBranch(line.mne)
      PROVE  F8Inv'
  <2>1. ~MaskIsSelf
    BY <1>3 DEF MaskIsSelf, IsBranch
  <2>. QED
    BY <1>2, <1>3, <2>1, FinishFacts
<1>4. /\ handler \in {"mnemonic", "sreg", "sl_sr", "ins_outs", "lis", "lisu_lisl", "lr"} =>
            Size(line.mne) = 1 /\ ~IsBranch(line.mne)
      /\ handler = "byteop" => Size(line.mne) = 2 /\ ~IsBranch(line.mne)
      /\ handler = "wordop" => Size(line.mne) = 3 /\ ~IsBranch(line.mne)
      /\ handler \in {"branch", "bf_bt"} => Size(line.mne) = 2
  BY DEF Size, IsBranch
<1>5. CASE InsOuts
  <2>1. handler = "ins_outs" /\ Finish(VInsOuts(line.ops, line.mne, Here))
    BY <1>5 DEF InsOuts, Calls
  <2>2. Result(line, Here, seg, VInsOuts(line.ops, line.mne, Here), 1)
    BY <1>1, <1>2, <2>1, InsOutsFacts
  <2>. QED
    BY <1>3, <1>4, <2>1, <2>2
<1>6. CASE Lis
  <2>1. handler = "lis" /\ Finish(VLis(line.ops, Here))
    BY <1>6 DEF Lis, Calls
  <2>2. Result(line, Here, seg, VLis(line.ops, Here), 1)
    BY <1>1, <1>2, <2>1, LisFacts
  <2>. QED
    BY <1>3, <1>4, <2>1, <2>2
<1>7. CASE LisuLisl
  <2>1. handler = "lisu_lisl" /\ Finish(VLisuLisl(line.ops, line.mne, Here))
    BY <1>7 DEF LisuLisl, Calls
  <2>2. Result(line, Here, seg, VLisuLisl(line.ops, line.mne, Here), 1)
    BY <1>1, <1>2, <2>1, LisuLislFacts
  <2>. QED
    BY <1>3, <1>4, <2>1, <2>2
<1>8. CASE SlSr
  <2>1. handler = "sl_sr" /\ Finish(VSlSr(line.ops, line.mne, Here))
    BY <1>8 DEF SlSr, Calls
  <2>2. Result(line, Here, seg, VSlSr(line.ops, line.mne, Here), 1)
    BY <1>1, <1>2, <2>1, SlSrFacts
  <2>. QED
    BY <1>3, <1>4, <2>1, <2>2
<1>9. CASE SregOp
  <2>1. handler = "sreg"
    BY <1>9 DEF SregOp, Calls
  <2>2. PICK b \in Garbage : Finish(VSregOp(line.ops, line.mne, Here, b))
    BY <1>9 DEF SregOp
  <2>3. b \in 0..255
    BY F8Assumption
  <2>4. Result(line, Here, seg, VSregOp(line.ops, line.mne, Here, b), 1)
    BY <1>1, <1>2, <2>1, <2>3, SregFacts
  <2>. QED
    BY <1>3, <1>4, <2>1, <2>2, <2>4
<1>10. CASE Lr
  <2>1. handler = "lr"
    BY <1>10 DEF Lr, Calls
  <2>2. PICK b \in Garbage : Finish(VLr(line.ops, Here, b))
    BY <1>10 DEF Lr
  <2>3. b \in 0..255
    BY F8Assumption
  <2>4. Result(line, Here, seg, VLr(line.ops, Here, b), 1)
    BY <1>1, <1>2, <2>1, <2>3, LrFacts
  <2>. QED
    BY <1>3, <1>4, <2>1, <2>2, <2>4
<1>11. CASE Branch
  <2> DEFINE o == GenerateBranch(Outcome, line.mne.opcode, line.ops, table, seg)
  <2>1. handler = "branch" /\ Finish(o)
    BY <1>11 DEF Branch, Calls
  <2>2. Result(line, Programlabel(table, seg), seg, o, 2) /\ Reaches(line, Programlabel(table, seg), seg, o)
    BY <1>1, <2>1, BranchFacts
  <2>3. ~MaskIsSelf
    BY <2>1 DEF MaskIsSelf
  <2> HIDE DEF o
  <2>. QED
    BY <1>4, <2>1, <2>2, <2>3, FinishFacts
<1>12. CASE BfBt
  <2> DEFINE o == VBfBt(line.ops, line.mne, table, seg)
  <2>1. handler = "bf_bt" /\ Finish(o)
    BY <1>12 DEF BfBt, Calls
  <2>2. Len(line.ops) = 2 /\ line.ops[1].sym = "self" => table.self.unk
    BY <2>1 DEF F8Inv, MaskIsSelf
  <2>3. Result(line, Programlabel(table, seg), seg, o, 2) /\ Reaches(line, Programlabel(table, seg), seg, o)
    BY <1>1, <2>1, <2>2, BfBtFacts
  <2>4. MaskIsSelf => ~o.label
    BY <1>1, <2>1, <2>2, BfBtWaits DEF MaskIsSelf
  <2> HIDE DEF o
  <2>. QED
    BY <1>4, <2>1, <2>3, <2>4, FinishFacts
<1>13. CASE Wordop
  <2>1. handler = "wordop" /\ Finish(VWordop(line.ops, line.mne, Here))
    BY <1>13 DEF Wordop, Calls
  <2>2. Result(line, Here, seg, VWordop(line.ops, line.mne, Here), 3)
    BY <1>1, <1>2, <2>1, WordopFacts
  <2>. QED
    BY <1>3, <1>4, <2>1, <2>2
<1>14. CASE Byteop
  <2>1. handler = "byteop" /\ Finish(VByteop(line.ops, line.mne, Here))
    BY <1>14 DEF Byteop, Calls
  <2>2. Result(line, Here, seg, VByteop(line.ops, line.mne, Here), 2)
    BY <1>1, <1>2, <2>1, ByteopFacts
  <2>. QED
    BY <1>3, <1>4, <2>1, <2>2
<1>15. CASE Implied
  <2>1. handler = "mnemonic" /\ Finish(VImplied(line.mne))
    BY <1>15 DEF Implied, Calls
  <2>2. Result(line, Here, seg, VImplied(line.mne), 1)
    BY <1>1, <2>1, ImpliedFacts
  <2>. QED
    BY <1>3, <1>4, <2>1, <2>2
<1>16. CASE NextPass
  BY <1>16, NextPassFacts
<1>17. CASE UNCHANGED vars
  BY <1>17 DEF vars, F8Inv, TypeOK, MaskIsSelf, Settled, ReadBack
<1>. QED
  BY <1>5, <1>6, <1>7, <1>8, <1>9, <1>10, <1>11, <1>12, <1>13, <1>14, <1>15, <1>16, <1>17 DEF Next

-----------------------------------------------------------------------------
(* In every state of every run the line has one length, and what was       *)
(* written reads back as the line: the inductive invariant.                *)
THEOREM F8Invariant == Spec => []F8Inv
<1>1. Init => F8Inv
  BY InitFacts
<1>2. F8Inv /\ [Next]_vars => F8Inv'
  BY StepFacts
<1>. QED
  BY <1>1, <1>2, PTL DEF Spec

(* A line whose bytes are in the file used nothing that was not known, and *)
(* its label is where the line is (programlabel before parse_value).       *)
THEOREM WrittenStaysFinal == Spec => []WrittenIsFinal
<1>1. F8Inv => WrittenIsFinal
  BY DEF F8Inv, WrittenIsFinal, ReadBack, Unsettled
<1>. QED
  BY <1>1, F8Invariant, PTL

(* Whatever gets known from pass to pass, the passes that accept a line    *)
(* give it the same length: no handler picks a form by the value.          *)
THEOREM LengthIsStable == Spec => []SizeStable
<1>1. F8Inv => SizeStable
  <2> SUFFICES ASSUME F8Inv PROVE Cardinality(lengths) <= 1
    BY DEF SizeStable
  <2>1. lengths = {} \/ lengths = {Size(line.mne)}
    BY DEF F8Inv
  <2>2. Cardinality({}) = 0 /\ Cardinality({Size(line.mne)}) = 1
    BY FS_EmptySet, FS_Singleton
  <2>. QED
    BY <2>1, <2>2
<1>. QED
  BY <1>1, F8Invariant, PTL

(* A branch that was accepted leads to the value of its operand, as the    *)
(* processor adds the displacement (generate_branch).                      *)
THEOREM BranchLeadsToTarget == Spec => []BranchReaches
<1>1. F8Inv => BranchReaches
  <2> SUFFICES ASSUME F8Inv, Settled, IsPCKnown(seg), IsBranch(line.mne)
               PROVE  GetPC(seg) + 1 + Signed(insn.code[2]) = Exact(line.ops[Len(line.ops)], table)
    BY DEF BranchReaches, Signed
  <2>. QED
    BY DEF F8Inv, ReadBack
<1>. QED
  BY <1>1, F8Invariant, PTL

(* What the constant lines give at address 0 reads back as those lines.    *)
LEMMA HomeFacts == NoTable \in Tables /\ Home \in Place /\ IsPCKnown(Home)
<1>1. 0 \in Long
  <2> DEFINE h == ULong \div 2
  <2>1. h \in Nat /\ h >= 256 * 256
    BY F8Assumption
  <2>2. Long = (0 - h)..(h - 1)
    BY DEF Long
  <2> HIDE DEF h
  <2>. QED
    BY <2>1, <2>2
<1>2. NoTable \in Tables
  <2> DEFINE s == [n |-> 0, unk |-> TRUE]
  <2>1. s \in Symbol
    BY <1>1 DEF Symbol
  <2> HIDE DEF s
  <2>2. NoTable = [u |-> s, self |-> s]
    BY DEF s, NoTable
  <2>. QED
    BY <2>1, <2>2 DEF Tables
<1>3. Home \in Place /\ IsPCKnown(Home)
  BY <1>1 DEF Home, Place, IsPCKnown
<1>. QED
  BY <1>2, <1>3

LEMMA ConstantMeaning ==
  ASSUME NEW l \in Lines, Constant(l), NEW t, NEW s, NEW g
  PROVE  Meaning(l, t, g) = Meaning(l, s, g)
<1>1. ASSUME NEW i \in DOMAIN l.ops PROVE Argument(l.ops[i], t) = Argument(l.ops[i], s)
  <2>1. l.ops[i].sym = None
    BY DEF Constant
  <2>2. Exact(l.ops[i], t) = Exact(l.ops[i], s)
    BY <2>1 DEF Exact
  <2>. QED
    BY <2>2 DEF Argument
<1>2. [i \in DOMAIN l.ops |->
         Argument(l.ops[i], t) - IF IsBranch(l.mne) /\ i = Len(l.ops) THEN GetPC(g) ELSE 0]
      = [i \in DOMAIN l.ops |->
         Argument(l.ops[i], s) - IF IsBranch(l.mne) /\ i = Len(l.ops) THEN GetPC(g) ELSE 0]
  BY <1>1
<1>. QED
  BY <1>2 DEF Meaning

LEMMA AcceptedReadsBack ==
  ASSUME NEW l \in AcceptedLines
  PROVE  Decode(Encoding[l]) = Meaning(l, NoTable, Home)
<1> DEFINE o == OutcomeAtHome(l)
           h == Programlabel(NoTable, Home)
           handler == l.mne.handler
<1>1. l \in Lines /\ Constant(l) /\ Accepted(o)
  BY DEF AcceptedLines
<1>2. NoTable \in Tables /\ Home \in Place /\ IsPCKnown(Home)
  BY HomeFacts
<1>3. Encoding[l] = o.code
  BY DEF Encoding
<1>4. handler \in {"mnemonic", "byteop", "wordop", "sreg", "branch", "bf_bt", "sl_sr",
                   "ins_outs", "lis", "lisu_lisl", "lr"}
  BY <1>1, Constants, RowTypes
<1>5. ASSUME NEW t, NEW n, Result(l, t, Home, o, n)
      PROVE  Decode(o.code) = Meaning(l, NoTable, Home)
  <2>1. Decode(o.code) = Meaning(l, t, Home)
    BY <1>1, <1>2, <1>5 DEF Result
  <2>2. Meaning(l, t, Home) = Meaning(l, NoTable, Home)
    BY <1>1, ConstantMeaning
  <2>. QED
    BY <2>1, <2>2
<1>6. 0 \in 0..255
  OBVIOUS
<1>7. ASSUME handler \in {"branch", "bf_bt"}
      PROVE  Result(l, h, Home, o, 2)
  <2>1. CASE handler = "branch"
    <3>1. o = GenerateBranch(Outcome, l.mne.opcode, l.ops, NoTable, Home)
      BY <2>1 DEF OutcomeAtHome
    <3> HIDE DEF o
    <3>. QED
      BY <1>1, <1>2, <2>1, <3>1, BranchFacts
  <2>2. CASE handler = "bf_bt"
    <3>1. o = VBfBt(l.ops, l.mne, NoTable, Home)
      BY <2>2 DEF OutcomeAtHome
    <3>2. ~(Len(l.ops) = 2 /\ l.ops[1].sym = "self")
      <4>1. l.ops \in Seq(Operand)
        BY <1>1, LineFacts
      <4>2. ASSUME Len(l.ops) = 2 PROVE l.ops[1].sym = None
        BY <1>1, <4>1, <4>2 DEF Constant
      <4>. QED
        BY <4>2 DEF None
    <3> HIDE DEF o
    <3>. QED
      BY <1>1, <1>2, <2>2, <3>1, <3>2, BfBtFacts
  <2>. QED
    BY <1>7, <2>1, <2>2
<1>8. /\ handler = "mnemonic" => Result(l, NoTable, Home, VImplied(l.mne), 1) /\ o = VImplied(l.mne)
      /\ handler = "byteop" =>
           Result(l, NoTable, Home, VByteop(l.ops, l.mne, NoTable), 2) /\ o = VByteop(l.ops, l.mne, NoTable)
      /\ handler = "wordop" =>
           Result(l, NoTable, Home, VWordop(l.ops, l.mne, NoTable), 3) /\ o = VWordop(l.ops, l.mne, NoTable)
      /\ handler = "sreg" => /\ Result(l, NoTable, Home, VSregOp(l.ops, l.mne, NoTable, 0), 1)
                             /\ o = VSregOp(l.ops, l.mne, NoTable, 0)
  BY <1>1, <1>2, <1>6, ImpliedFacts, ByteopFacts, WordopFacts, SregFacts DEF OutcomeAtHome
<1>9. /\ handler = "sl_sr" =>
           Result(l, NoTable, Home, VSlSr(l.ops, l.mne, NoTable), 1) /\ o = VSlSr(l.ops, l.mne, NoTable)
      /\ handler = "ins_outs" =>
           Result(l, NoTable, Home, VInsOuts(l.ops, l.mne, NoTable), 1) /\ o = VInsOuts(l.ops, l.mne, NoTable)
      /\ handler = "lis" => Result(l, NoTable, Home, VLis(l.ops, NoTable), 1) /\ o = VLis(l.ops, NoTable)
  BY <1>1, <1>2, SlSrFacts, InsOutsFacts, LisFacts DEF OutcomeAtHome
<1>10. /\ handler = "lisu_lisl" => /\ Result(l, NoTable, Home, VLisuLisl(l.ops, l.mne, NoTable), 1)
                                   /\ o = VLisuLisl(l.ops, l.mne, NoTable)
       /\ handler = "lr" => Result(l, NoTable, Home, VLr(l.ops, NoTable, 0), 1) /\ o = VLr(l.ops, NoTable, 0)
  BY <1>1, <1>2, <1>6, LisuLislFacts, LrFacts DEF OutcomeAtHome
<1> HIDE DEF o, h
<1>. QED
  BY <1>3, <1>4, <1>5, <1>7, <1>8, <1>9, <1>10

(* Bytes that are written mean one thing: any other accepted line with     *)
(* the same bytes has the same meaning, long or short form.                *)
THEOREM CodesCanBeToldApart == Spec => []Decodable
<1>1. F8Inv => Decodable
  <2> SUFFICES ASSUME F8Inv, Settled, IsPCKnown(seg), insn.code \in DOMAIN MeaningsOf
               PROVE  MeaningsOf[insn.code] = {Meaning(line, table, seg)}
    BY DEF Decodable
  <2> DEFINE c == insn.code
             Same == {k \in AcceptedLines : Encoding[k] = c}
             M(l) == Meaning(l, NoTable, Home)
  <2>1. Decode(c) = Meaning(line, table, seg)
    BY DEF F8Inv, ReadBack
  <2>2. c \in {Encoding[l] : l \in AcceptedLines}
    BY DEF MeaningsOf
  <2>3. MeaningsOf[c] = {M(l) : l \in Same}
    BY <2>2 DEF MeaningsOf
  <2> HIDE DEF c
  <2>4. \A l \in Same : M(l) = Decode(c)
    BY AcceptedReadsBack
  <2>5. Same # {}
    BY <2>2
  <2> HIDE DEF Same, M
  <2>6. MeaningsOf[c] = {Decode(c)}
    BY <2>3, <2>4, <2>5
  <2>. QED
    BY <2>1, <2>6 DEF c
<1>. QED
  BY <1>1, F8Invariant, PTL
=============================================================================
