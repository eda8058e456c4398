------------------------------ MODULE MCMnemF8 ------------------------------
(* Lines of every instruction of the F8 for TLC.                           *)
EXTENDS MnemF8

Op(word, sym, n) == [word |-> word, sym |-> sym, n |-> n]
Num(n) == Op("expr", None, n)
Unk == Op("expr", "u", 0)
Self == Op("expr", "self", 0)
Name(word) == Op(word, None, 0)
Odd == {Unk, Self, Name("bad"), Name(Empty)}

Of(handlers) == {mne \in MneF8 : mne.handler \in handlers}
With(handlers, opss) == {[mne |-> mne, ops |-> ops] : mne \in Of(handlers), ops \in opss}
One(ops) == {<<op>> : op \in ops}
Pairs(first, second) == {<<f, s>> : f \in first, s \in second}
Nums(ns) == {Num(n) : n \in ns}

Limits == {-1, 0, 1, 4, 7, 8, 14, 15, 16, 255, 256, 65535, 65536}
Scratch == {Name("j"), Name("(is)"), Name("(is)+"), Name("d"), Name("hu"), Name("hl")}
Special == {Name(w) : w \in {"a", "dc0", "dc", "h", "is", "k", "ku", "kl", "p0", "pc1", "q", "qu", "ql", "w"}}

SomeLines ==
  With({"mnemonic"}, {<<>>})
  \cup With({"byteop", "wordop", "lis", "lisu_lisl", "ins_outs", "sl_sr", "sreg"},
            One(Nums(Limits) \cup Odd) \cup {<<Num(1), Num(2)>>})
  \cup With({"sreg"}, One(Scratch \cup {Name("a")}))
  \cup With({"branch"}, One(Nums({-1, 0, 4, 127, 128, 129, 200}) \cup Odd))
  \cup With({"bf_bt"}, Pairs(Nums({-1, 0, 1, 4, 7, 8, 15, 16}) \cup Odd, {Num(0), Num(5), Unk, Self, Name(Empty)})
                        \cup {<<Num(1)>>, <<Num(1), Num(2), Num(3)>>})
  \cup With({"lr"}, Pairs(Special \cup Scratch \cup Nums({0, 9, 14, 15, 16, 17}) \cup {Unk, Name(Empty)},
                          Special \cup Scratch \cup Nums({0, 9, 14, 15, 16}) \cup {Unk, Name(Empty)})
                     \cup {<<Num(1)>>})

At(org, unk, rorg, rn, runk) == [org |-> org, unk |-> unk, rorg |-> rorg, rn |-> rn, runk |-> runk]
SomeSegs == {At(0, FALSE, FALSE, 0, FALSE), At(3, FALSE, TRUE, 130, FALSE), At(0, TRUE, FALSE, 0, FALSE),
             At(3, FALSE, TRUE, 0, TRUE)}
SomeValues == {-1, 1, 9, 16, 256}
=============================================================================
