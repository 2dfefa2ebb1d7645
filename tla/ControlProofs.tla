--------------------------- MODULE ControlProofs ---------------------------
(***************************************************************************)
(* Proofs about Control: the frames on the control stack nest, LOOP_IND is *)
(* the innermost loop, and every branch which was reserved is patched, in  *)
(* words of any length and nesting, whatever was given up before.          *)
(***************************************************************************)
EXTENDS Control, Basics

-----------------------------------------------------------------------------
(* The control stack *)

BranchFrames == {"then_end", "else_end", "cond_chain_end", "elif_invalid"}
Kinds == BranchFrames \cup {"semicolon", "nop", "loop_frame_end", "loop_end"}
Metas == [inp : Nat, hasOut : BOOLEAN, out : Nat, type : {"cbz", "cbnz", "b.cond"},
          cond : {"eq", "ne"}, off : Nat]
Frames == [xt : Kinds, meta : Metas]

\* The frames of a word: its semicolon, conditionals, each down to its nop, and
\* loops, each above the frame which leads out of it.
Nested(cs) ==
  /\ cs \in Seq(Frames)
  /\ \A i \in DOMAIN cs :
       /\ cs[i].xt = "semicolon" <=> i = 1
       /\ cs[i].xt \in BranchFrames => cs[i - 1].xt \in {"nop", "cond_chain_end"}
       /\ cs[i].xt = "loop_end" => cs[i - 1].xt = "loop_frame_end"

LoopsOf(cs) == {i \in DOMAIN cs : cs[i].xt = "loop_end"}

\* InnermostLoop, of any frames and index.
Linked(cs, ind) ==
  /\ \A i \in LoopsOf(cs) : (\A j \in LoopsOf(cs) : j <= i) => ind = i
  /\ \A i, j \in LoopsOf(cs) :
       j < i /\ (\A k \in LoopsOf(cs) : ~(j < k /\ k < i)) => cs[i - 1].meta.off = j

LEMMA MaxIs ==
  ASSUME NEW S, S \subseteq Nat, NEW n \in S, \A m \in S : m <= n
  PROVE  Max(S) = n
<1> DEFINE P(x) == \A y \in S : x >= y
<1>1. n \in S /\ P(n) OBVIOUS
<1>2. \A x \in S : P(x) => x = n OBVIOUS
<1>3. (CHOOSE x \in S : P(x)) = n
  <2> HIDE DEF P
  <2> QED BY <1>1, <1>2
<1> QED BY <1>3 DEF Max

\* Below a frame of a conditional is the nop of the conditional, with nothing
\* but frames of the same conditional in between.
LEMMA BranchBottom ==
  ASSUME NEW cs, Nested(cs), cs # <<>>, Last(cs).xt \in BranchFrames
  PROVE  \E n \in 2 .. Len(cs) - 1 :
           /\ n = LastOf(cs, "nop") /\ cs[n].xt = "nop"
           /\ \A i \in n + 1 .. Len(cs) : cs[i].xt \in BranchFrames
<1>1. Len(cs) \in Nat \ {0} /\ DOMAIN cs = 1 .. Len(cs) /\ cs[Len(cs)].xt \in BranchFrames
  BY DEF Nested, Last
<1> DEFINE Others == {i \in 1 .. Len(cs) : cs[i].xt \notin BranchFrames}
<1>2. 1 \in Others
  <2>1. cs[1].xt = "semicolon" BY <1>1 DEF Nested
  <2> QED BY <1>1, <2>1 DEF BranchFrames
<1>3. PICK n \in Others : \A m \in Others : m <= n
  <2>1. Others \subseteq Nat /\ Others # {} /\ \A m \in Others : m <= Len(cs) BY <1>2
  <2> HIDE DEF Others
  <2> QED BY <1>1, <2>1, GreatestNatural
<1>4. n \in 1 .. Len(cs) - 1 BY <1>1
<1>5. cs[n + 1].xt \in BranchFrames BY <1>3, <1>4
<1>6. cs[n].xt = "nop"
  <2>1. cs[n].xt \in {"nop", "cond_chain_end"}
    <3>1. n + 1 \in DOMAIN cs /\ (n + 1) - 1 = n BY <1>1, <1>4
    <3> QED BY <1>5, <3>1 DEF Nested
  <2>2. cs[n].xt # "cond_chain_end" BY DEF BranchFrames
  <2> QED BY <2>1, <2>2
<1>7. n # 1 BY <1>1, <1>4, <1>6 DEF Nested
<1>8. \A i \in n + 1 .. Len(cs) : cs[i].xt \in BranchFrames BY <1>3, <1>4
<1>9. n = LastOf(cs, "nop")
  <2> DEFINE Nops == {i \in DOMAIN cs : cs[i].xt = "nop"}
  <2>1. Nops \subseteq Nat /\ n \in Nops BY <1>1, <1>4, <1>6
  <2>2. \A m \in Nops : m <= n BY <1>1, <1>4, <1>8 DEF BranchFrames
  <2>3. Max(Nops) = n
    <3> HIDE DEF Nops
    <3> QED BY <2>1, <2>2, MaxIs
  <2> QED BY <2>3 DEF LastOf
<1> QED BY <1>4, <1>6, <1>7, <1>8, <1>9

LEMMA LinkedSame ==
  ASSUME NEW cs, NEW ds, NEW ind, Linked(cs, ind), LoopsOf(ds) = LoopsOf(cs),
         \A i \in LoopsOf(cs) : ds[i - 1] = cs[i - 1]
  PROVE  Linked(ds, ind)
BY DEF Linked

\* Frames other than those of loops are pushed on the first n of the stack, above
\* which there was no loop.
Pushed(cs, ds, n) ==
  /\ n \in 1 .. Len(cs) /\ n <= Len(ds) /\ ds \in Seq(Frames)
  /\ \A i \in 1 .. n : ds[i] = cs[i]
  /\ \A i \in n + 1 .. Len(cs) : cs[i].xt # "loop_end"
  /\ \A i \in n + 1 .. Len(ds) :
       /\ ds[i].xt \in BranchFrames \cup {"nop"}
       /\ ds[i].xt # "nop" => ds[i - 1].xt \in {"nop", "cond_chain_end"}

LEMMA PushFrames ==
  ASSUME NEW cs, Nested(cs), NEW ds, NEW n, Pushed(cs, ds, n), NEW ind, Linked(cs, ind)
  PROVE  Nested(ds) /\ Linked(ds, ind) /\ LoopsOf(ds) = LoopsOf(cs) /\ ds # <<>>
<1>1. /\ Len(cs) \in Nat /\ DOMAIN cs = 1 .. Len(cs) /\ Len(ds) \in Nat
      /\ DOMAIN ds = 1 .. Len(ds) /\ n \in 1 .. Len(cs) /\ n <= Len(ds) /\ ds # <<>>
  BY DEF Nested, Pushed
<1>2. ASSUME NEW i \in DOMAIN ds
      PROVE  /\ ds[i].xt = "semicolon" <=> i = 1
             /\ ds[i].xt \in BranchFrames => ds[i - 1].xt \in {"nop", "cond_chain_end"}
             /\ ds[i].xt = "loop_end" => ds[i - 1].xt = "loop_frame_end"
  <2>1. CASE i \in n + 1 .. Len(ds) BY <1>1, <2>1 DEF BranchFrames, Pushed
  <2>2. CASE i \in 1 .. n
    <3>1. i \in DOMAIN cs /\ ds[i] = cs[i] BY <1>1, <2>2 DEF Pushed
    <3>2. CASE i = 1
      <4>1. cs[i].xt = "semicolon" BY <3>1, <3>2 DEF Nested
      <4> QED BY <3>1, <3>2, <4>1 DEF BranchFrames
    <3>3. CASE i # 1
      <4>1. ds[i - 1] = cs[i - 1] BY <1>1, <2>2, <3>3 DEF Pushed
      <4> QED BY <3>1, <3>3, <4>1 DEF Nested
    <3> QED BY <3>2, <3>3
  <2> QED BY <1>1, <2>1, <2>2
<1>3. LoopsOf(ds) = LoopsOf(cs) /\ \A i \in LoopsOf(cs) : i \in 1 .. n
  BY <1>1 DEF LoopsOf, BranchFrames, Pushed
<1>4. ASSUME NEW i \in LoopsOf(cs) PROVE ds[i - 1] = cs[i - 1]
  <2>1. i # 1 BY <1>4 DEF LoopsOf, Nested
  <2> QED BY <1>1, <1>3, <2>1 DEF Pushed
<1>5. Nested(ds) BY <1>2 DEF Nested, Pushed
<1> QED BY <1>1, <1>3, <1>4, <1>5, LinkedSame

LEMMA FrameIs ==
  ASSUME NEW xt \in Kinds, NEW m \in Metas
  PROVE  Frame(xt, m) \in Frames /\ Frame(xt, m).xt = xt /\ Frame(xt, m).meta = m
BY DEF Frame, Frames

LEMMA MetaIs ==
  ASSUME NEW inp \in Nat, NEW off \in Nat
  PROVE  Meta(inp, off) \in Metas /\ Meta(inp, off).off = off
BY DEF Meta, Metas

LEMMA TopFrame ==
  ASSUME NEW cs, Nested(cs), cs # <<>>
  PROVE  /\ Len(cs) \in Nat \ {0} /\ Last(cs) = cs[Len(cs)]
         /\ Last(cs) \in Frames /\ Last(cs).xt \in Kinds /\ Last(cs).meta \in Metas
         /\ Last(cs).xt = "semicolon" <=> Len(cs) = 1
<1>1. Len(cs) \in Nat \ {0} /\ Len(cs) \in DOMAIN cs /\ Last(cs) = cs[Len(cs)]
  BY DEF Nested, Last
<1>2. cs[Len(cs)] \in Frames BY <1>1 DEF Nested
<1>3. cs[Len(cs)].xt = "semicolon" <=> Len(cs) = 1 BY <1>1 DEF Nested
<1>4. cs[Len(cs)].xt \in Kinds /\ cs[Len(cs)].meta \in Metas BY <1>2 DEF Frames
<1> QED BY <1>1, <1>2, <1>3, <1>4

\* The frame of a branch becomes another one.
LEMMA ReplaceTop ==
  ASSUME NEW cs, Nested(cs), cs # <<>>, Last(cs).xt \in BranchFrames,
         NEW f \in Frames, f.xt \in BranchFrames, NEW ds, ds = Append(Front(cs), f)
  PROVE  /\ Pushed(cs, ds, Len(cs) - 1) /\ Len(ds) = Len(cs) /\ ds[Len(cs)] = f
<1> DEFINE n == Len(cs) - 1
<1>1. /\ Len(cs) \in Nat \ {0} /\ DOMAIN cs = 1 .. Len(cs) /\ cs \in Seq(Frames)
      /\ cs[Len(cs)].xt \in BranchFrames
  BY DEF Nested, Last
<1>2. n \in 1 .. Len(cs) - 1
  <2>1. cs[1].xt = "semicolon" BY <1>1 DEF Nested
  <2> QED BY <1>1, <2>1 DEF BranchFrames
<1>3. /\ ds \in Seq(Frames) /\ Len(ds) = n + 1 /\ ds[n + 1] = f
      /\ \A i \in 1 .. n : ds[i] = cs[i]
  BY <1>1, <1>2 DEF Front
<1>4. cs[n].xt \in {"nop", "cond_chain_end"} BY <1>1, <1>2 DEF Nested
<1>5. n \in Nat \ {0} /\ n \in 1 .. Len(cs) - 1 /\ Len(cs) = n + 1
  <2>1. Len(cs) \in Nat /\ Len(cs) = n + 1 BY <1>1
  <2> QED BY <1>2, <2>1
<1> HIDE DEF n
<1>6. \A i \in n + 1 .. Len(cs) : cs[i].xt # "loop_end" BY <1>1, <1>5 DEF BranchFrames
<1>7. ASSUME NEW i \in n + 1 .. Len(ds)
      PROVE  ds[i].xt \in BranchFrames /\ ds[i - 1].xt \in {"nop", "cond_chain_end"}
  <2>1. i = n + 1 /\ i - 1 = n /\ ds[n] = cs[n] BY <1>3, <1>5
  <2> QED BY <1>3, <1>4, <2>1
<1>8. Pushed(cs, ds, n) BY <1>3, <1>5, <1>6, <1>7 DEF Pushed
<1> QED BY <1>3, <1>5, <1>8 DEF n

ToppedByTwo(cs, f, g) == Front(cs) \o <<f, g>>

LEMMA ReplaceTopByTwo ==
  ASSUME NEW cs, Nested(cs), cs # <<>>, Last(cs).xt \in BranchFrames,
         NEW f \in Frames, f.xt = "cond_chain_end", NEW g \in Frames, g.xt \in BranchFrames,
         NEW ds, ds = ToppedByTwo(cs, f, g)
  PROVE  /\ Pushed(cs, ds, Len(cs) - 1) /\ Len(ds) = Len(cs) + 1
         /\ ds[Len(cs)] = f /\ ds[Len(cs) + 1] = g
<1> DEFINE n == Len(cs) - 1
<1>1. /\ Len(cs) \in Nat \ {0} /\ DOMAIN cs = 1 .. Len(cs) /\ cs \in Seq(Frames)
      /\ cs[Len(cs)].xt \in BranchFrames
  BY DEF Nested, Last
<1>2. n \in 1 .. Len(cs) - 1
  <2>1. cs[1].xt = "semicolon" BY <1>1 DEF Nested
  <2> QED BY <1>1, <2>1 DEF BranchFrames
<1>3. /\ ds \in Seq(Frames) /\ Len(ds) = n + 2 /\ ds[n + 1] = f /\ ds[n + 2] = g
      /\ \A i \in 1 .. n : ds[i] = cs[i]
  BY <1>1, <1>2 DEF Front, ToppedByTwo
<1>4. cs[n].xt \in {"nop", "cond_chain_end"}
  <2>1. Len(cs) \in DOMAIN cs /\ n = Len(cs) - 1 BY <1>1
  <2> QED BY <1>1, <2>1 DEF Nested
<1>5. n \in Nat \ {0} /\ n \in 1 .. Len(cs) - 1 /\ Len(cs) = n + 1
  <2>1. Len(cs) \in Nat /\ Len(cs) = n + 1 BY <1>1
  <2> QED BY <1>2, <2>1
<1> HIDE DEF n
<1>6. \A i \in n + 1 .. Len(cs) : cs[i].xt # "loop_end" BY <1>1, <1>5 DEF BranchFrames
<1>7. ASSUME NEW i \in n + 1 .. Len(ds)
      PROVE  ds[i].xt \in BranchFrames /\ ds[i - 1].xt \in {"nop", "cond_chain_end"}
  <2>1. CASE i = n + 1
    <3>1. i - 1 = n /\ ds[n] = cs[n] BY <1>3, <1>5, <2>1
    <3> QED BY <1>3, <1>4, <2>1, <3>1 DEF BranchFrames
  <2>2. CASE i = n + 2
    <3>1. i - 1 = n + 1 BY <1>5, <2>2
    <3> QED BY <1>3, <2>2, <3>1
  <2> QED BY <1>3, <1>5, <2>1, <2>2
<1>8. Pushed(cs, ds, n) BY <1>3, <1>5, <1>6, <1>7 DEF Pushed
<1> QED BY <1>3, <1>5, <1>8 DEF n

PushedTwo(cs, f, g) == Append(Append(cs, f), g)

\* A conditional starts, above its nop.
LEMMA PushTwo ==
  ASSUME NEW cs, Nested(cs), cs # <<>>, NEW f \in Frames, f.xt = "nop",
         NEW g \in Frames, g.xt \in BranchFrames, NEW ds, ds = PushedTwo(cs, f, g)
  PROVE  /\ Pushed(cs, ds, Len(cs)) /\ Len(ds) = Len(cs) + 2
         /\ ds[Len(cs) + 1] = f /\ ds[Len(cs) + 2] = g
<1>1. PICK n \in Nat : n = Len(cs) /\ n > 0 /\ cs \in Seq(Frames) BY TopFrame DEF Nested
<1>2. /\ ds \in Seq(Frames) /\ Len(ds) = n + 2 /\ ds[n + 1] = f /\ ds[n + 2] = g
      /\ \A i \in 1 .. n : ds[i] = cs[i]
  BY <1>1 DEF PushedTwo
<1>3. ASSUME NEW i \in n + 1 .. Len(ds)
      PROVE  /\ ds[i].xt \in BranchFrames \cup {"nop"}
             /\ ds[i].xt # "nop" => ds[i - 1].xt \in {"nop", "cond_chain_end"}
  <2>1. CASE i = n + 1 BY <1>2, <2>1
  <2>2. CASE i = n + 2
    <3>1. i - 1 = n + 1 BY <1>1, <2>2
    <3> QED BY <1>2, <2>2, <3>1
  <2> QED BY <1>1, <1>2, <2>1, <2>2
<1> QED BY <1>1, <1>2, <1>3 DEF Pushed

\* A conditional ends.
LEMMA TakeBranch ==
  ASSUME NEW cs, Nested(cs), cs # <<>>, Last(cs).xt \in BranchFrames,
         NEW ds, ds = SubSeq(cs, 1, LastOf(cs, "nop") - 1)
  PROVE  /\ Pushed(cs, ds, LastOf(cs, "nop") - 1) /\ Len(ds) = LastOf(cs, "nop") - 1
         /\ LastOf(cs, "nop") \in 2 .. Len(cs) - 1
         /\ cs[LastOf(cs, "nop")].xt = "nop"
         /\ \A i \in LastOf(cs, "nop") + 1 .. Len(cs) : cs[i].xt \in BranchFrames
<1>1. PICK n \in 2 .. Len(cs) - 1 :
        /\ n = LastOf(cs, "nop") /\ cs[n].xt = "nop"
        /\ \A i \in n + 1 .. Len(cs) : cs[i].xt \in BranchFrames
  BY BranchBottom
<1>2. cs \in Seq(Frames) /\ Len(cs) \in Nat BY DEF Nested
<1>3. ds \in Seq(Frames) /\ Len(ds) = n - 1 /\ \A i \in 1 .. n - 1 : ds[i] = cs[i]
  BY <1>1, <1>2
<1>4. ASSUME NEW i \in (n - 1) + 1 .. Len(cs) PROVE cs[i].xt # "loop_end"
  <2>1. i = n \/ i \in n + 1 .. Len(cs) BY <1>1, <1>2
  <2> QED BY <1>1, <2>1 DEF BranchFrames
<1>5. Pushed(cs, ds, n - 1) BY <1>1, <1>2, <1>3, <1>4 DEF Pushed
<1> QED BY <1>1, <1>3, <1>5

-----------------------------------------------------------------------------
(* The arguments *)

Args == [imm : BOOLEAN, num : Nat, floor : Nat, ceil : Nat]

Known(a) == a.imm

\* A constant is loaded where it says, after the constants before it.
InCode(ar, i, c) ==
  /\ ar[i].ceil = ar[i].floor + 1 /\ ar[i].ceil \in 1 .. Len(c)
  /\ c[ar[i].ceil].op = "mov"
  /\ \A j \in 1 .. i - 1 : Known(ar[j]) => ar[j].ceil <= ar[i].floor

ArgsIn(ar, c) ==
  ar \in Seq(Args) /\ \A i \in 1 .. Len(ar) : Known(ar[i]) => InCode(ar, i, c)

LEMMA UnknownIsArg == Unknown \in Args /\ ~Known(Unknown)
BY DEF Unknown, Args, Known

LEMMA ImmIsArg ==
  ASSUME NEW n \in Nat, NEW floor \in Nat
  PROVE  /\ Imm(n, floor) \in Args /\ Known(Imm(n, floor))
         /\ Imm(n, floor).floor = floor /\ Imm(n, floor).ceil = floor + 1
BY DEF Imm, Args, Known

LEMMA BarrierArgs ==
  ASSUME NEW n \in Nat, NEW c
  PROVE  /\ ArgsIn(Barrier(n), c) /\ Len(Barrier(n)) = n
         /\ \A i \in 1 .. n : ~Known(Barrier(n)[i])
<1> DEFINE b == [i \in 1 .. n |-> Unknown]
<1>1. b \in Seq(Args) /\ Len(b) = n BY UnknownIsArg
<1>2. \A i \in 1 .. n : ~Known(b[i]) BY UnknownIsArg
<1> HIDE DEF b
<1>3. ArgsIn(b, c) BY <1>1, <1>2 DEF ArgsIn
<1>4. Barrier(n) = b BY DEF Barrier, b
<1> QED BY <1>1, <1>2, <1>3, <1>4

\* They stay loaded while code is added, or taken back behind them.
LEMMA ArgsStay ==
  ASSUME NEW ar, NEW c, ArgsIn(ar, c), NEW d, Len(c) \in Nat, Len(d) \in Nat,
         \A i \in 1 .. Len(ar) : Known(ar[i]) =>
           ar[i].ceil <= Len(d) /\ d[ar[i].ceil] = c[ar[i].ceil]
  PROVE  ArgsIn(ar, d)
<1>1. ASSUME NEW i \in 1 .. Len(ar), Known(ar[i]) PROVE InCode(ar, i, d)
  <2>1. InCode(ar, i, c) /\ ar[i].ceil <= Len(d) /\ d[ar[i].ceil] = c[ar[i].ceil]
    BY <1>1 DEF ArgsIn
  <2> QED BY <2>1 DEF InCode
<1> QED BY <1>1 DEF ArgsIn

LEMMA ArgsGrow ==
  ASSUME NEW ar, NEW c, IsSeq(c), ArgsIn(ar, c), NEW d, IsSeq(d), Len(d) >= Len(c),
         \A i \in 1 .. Len(c) : d[i] = c[i]
  PROVE  ArgsIn(ar, d)
<1>1. Len(c) \in Nat /\ Len(d) \in Nat BY SeqParts
<1>2. ASSUME NEW i \in 1 .. Len(ar), Known(ar[i])
      PROVE  ar[i].ceil <= Len(d) /\ d[ar[i].ceil] = c[ar[i].ceil]
  <2>1. ar[i].ceil \in 1 .. Len(c) BY <1>2 DEF ArgsIn, InCode
  <2> QED BY <1>1, <2>1
<1> QED BY <1>1, <1>2, ArgsStay

LEMMA ArgsAppendCode ==
  ASSUME NEW ar, NEW c, IsSeq(c), ArgsIn(ar, c), NEW x
  PROVE  /\ IsSeq(Append(c, x)) /\ ArgsIn(ar, Append(c, x)) /\ Len(c) \in Nat
         /\ Len(Append(c, x)) = Len(c) + 1 /\ Append(c, x)[Len(c) + 1] = x
<1> DEFINE d == Append(c, x)
<1>1. /\ IsSeq(d) /\ Len(d) = Len(c) + 1 /\ d[Len(c) + 1] = x
      /\ \A i \in 1 .. Len(c) : d[i] = c[i]
  BY AppendParts
<1> HIDE DEF d
<1>2. Len(c) \in Nat BY SeqParts
<1>3. ArgsIn(ar, d) BY <1>1, <1>2, ArgsGrow
<1> QED BY <1>1, <1>2, <1>3 DEF d

LEMMA ArgsConcatCode ==
  ASSUME NEW ar, NEW c, IsSeq(c), ArgsIn(ar, c), NEW x, IsSeq(x)
  PROVE  /\ IsSeq(c \o x) /\ ArgsIn(ar, c \o x) /\ Len(c \o x) = Len(c) + Len(x)
<1> DEFINE d == c \o x
<1>1. /\ IsSeq(d) /\ Len(d) = Len(c) + Len(x) /\ \A i \in 1 .. Len(c) : d[i] = c[i]
  BY ConcatParts
<1> HIDE DEF d
<1>2. Len(c) \in Nat /\ Len(x) \in Nat BY SeqParts
<1>3. ArgsIn(ar, d) BY <1>1, <1>2, ArgsGrow
<1> QED BY <1>1, <1>2, <1>3 DEF d

LEMMA ArgsCut ==
  ASSUME NEW ar, NEW c, IsSeq(c), ArgsIn(ar, c), NEW floor \in 0 .. Len(c),
         \A i \in 1 .. Len(ar) : Known(ar[i]) => ar[i].ceil <= floor
  PROVE  ArgsIn(ar, SubSeq(c, 1, floor))
<1> DEFINE d == SubSeq(c, 1, floor)
<1>1. Len(c) \in Nat /\ Len(d) = floor /\ \A i \in 1 .. floor : d[i] = c[i]
  BY SeqParts, PrefixParts
<1> HIDE DEF d
<1>2. ASSUME NEW i \in 1 .. Len(ar), Known(ar[i])
      PROVE  ar[i].ceil <= Len(d) /\ d[ar[i].ceil] = c[ar[i].ceil]
  <2>1. ar[i].ceil \in 1 .. Len(c) BY <1>2 DEF ArgsIn, InCode
  <2> QED BY <1>1, <1>2, <2>1
<1>3. ArgsIn(ar, d) BY <1>1, <1>2, ArgsStay
<1> QED BY <1>3 DEF d

LEMMA ArgsPrefix ==
  ASSUME NEW ar, NEW c, ArgsIn(ar, c), NEW n \in 0 .. Len(ar)
  PROVE  /\ ArgsIn(SubSeq(ar, 1, n), c) /\ Len(SubSeq(ar, 1, n)) = n
         /\ \A i \in 1 .. n : SubSeq(ar, 1, n)[i] = ar[i]
<1> DEFINE bs == SubSeq(ar, 1, n)
<1>1. bs \in Seq(Args) /\ Len(bs) = n /\ \A i \in 1 .. n : bs[i] = ar[i]
  BY DEF ArgsIn
<1> HIDE DEF bs
<1>2. ASSUME NEW i \in 1 .. n, Known(bs[i]) PROVE InCode(bs, i, c)
  <2>1. InCode(ar, i, c) /\ bs[i] = ar[i] BY <1>1, <1>2 DEF ArgsIn
  <2> QED BY <1>1, <2>1 DEF InCode
<1>3. ArgsIn(bs, c) BY <1>1, <1>2 DEF ArgsIn
<1> QED BY <1>1, <1>3 DEF bs

LEMMA ArgsAppend ==
  ASSUME NEW ar, NEW c, ArgsIn(ar, c), NEW a \in Args,
         Known(a) => /\ a.ceil = a.floor + 1 /\ a.ceil \in 1 .. Len(c)
                  /\ c[a.ceil].op = "mov"
                  /\ \A j \in 1 .. Len(ar) : Known(ar[j]) => ar[j].ceil <= a.floor
  PROVE  ArgsIn(Append(ar, a), c)
<1> DEFINE bs == Append(ar, a)
<1>1. /\ bs \in Seq(Args) /\ Len(bs) = Len(ar) + 1 /\ bs[Len(ar) + 1] = a
      /\ \A i \in 1 .. Len(ar) : bs[i] = ar[i]
      /\ Len(ar) \in Nat
  BY DEF ArgsIn
<1> HIDE DEF bs
<1>2. ASSUME NEW i \in 1 .. Len(bs), Known(bs[i]) PROVE InCode(bs, i, c)
  <2>1. CASE i = Len(ar) + 1 BY <1>1, <1>2, <2>1 DEF InCode
  <2>2. CASE i \in 1 .. Len(ar)
    <3>1. InCode(ar, i, c) /\ bs[i] = ar[i] BY <1>1, <1>2, <2>2 DEF ArgsIn
    <3> QED BY <1>1, <2>2, <3>1 DEF InCode
  <2> QED BY <1>1, <2>1, <2>2
<1>3. ArgsIn(bs, c) BY <1>1, <1>2 DEF ArgsIn
<1> QED BY <1>3 DEF bs

-----------------------------------------------------------------------------
(* Compiling values *)

CellsInv ==
  /\ Nested(cells) /\ Linked(cells, loopInd) /\ loopInd \in Nat
  /\ phase = "compile" => cells # <<>>

StackInv == IsSeq(code) /\ ArgsIn(args, code) /\ CellsInv

\* A step which leaves the control stack alone.
LEMMA ValueSteps ==
  ASSUME StackInv, UNCHANGED <<cells, loopInd, phase>>, IsSeq(code)', ArgsIn(args', code')
  PROVE  StackInv'
<1>1. CellsInv' BY DEF StackInv, CellsInv, Nested, Linked, LoopsOf
<1> QED BY <1>1 DEF StackInv

LEMMA LoadInv ==
  ASSUME StackInv, Load
  PROVE  StackInv'
<1>1. PICK x : code' = Append(code, x) BY DEF Load
<1>2. IsSeq(code') /\ ArgsIn(args, code') BY <1>1, ArgsAppendCode DEF StackInv
<1>3. ArgsIn(args', code') BY <1>2, ArgsAppend, UnknownIsArg DEF Load
<1>4. UNCHANGED <<cells, loopInd, phase>> BY DEF Load, Straight
<1> QED BY <1>2, <1>3, <1>4, ValueSteps DEF StackInv

LEMMA StoreInv ==
  ASSUME StackInv, Store
  PROVE  StackInv'
<1>1. PICK x : code' = Append(code, x) BY DEF Store
<1>2. IsSeq(code') /\ ArgsIn(args, code') BY <1>1, ArgsAppendCode DEF StackInv
<1>3. ArgsIn(args', code')
  <2>1. Len(args) - 1 \in 0 .. Len(args) BY <1>2 DEF Store, ArgsIn
  <2> QED BY <1>2, <2>1, ArgsPrefix DEF Store, Front
<1>4. UNCHANGED <<cells, loopInd, phase>> BY DEF Store, Straight
<1> QED BY <1>2, <1>3, <1>4, ValueSteps

LEMMA ConstantInv ==
  ASSUME StackInv, NEW n \in Nat, Constant(n)
  PROVE  StackInv'
<1> DEFINE x == Mov(Len(args), n)
<1>1. x.op = "mov" BY DEF Mov
<1>2. code' = Append(code, x) /\ args' = Append(args, Imm(n, Len(code))) BY DEF Constant
<1> HIDE DEF x
<1>3. /\ IsSeq(code') /\ ArgsIn(args, code') /\ Len(code) \in Nat
      /\ Len(code') = Len(code) + 1 /\ code'[Len(code) + 1] = x
  BY <1>2, ArgsAppendCode DEF StackInv
<1>4. ASSUME NEW j \in 1 .. Len(args), Known(args[j]) PROVE args[j].ceil <= Len(code)
  BY <1>4 DEF StackInv, ArgsIn, InCode
<1>5. ArgsIn(args', code')
  <2> DEFINE a == Imm(n, Len(code))
  <2>1. a \in Args /\ a.floor = Len(code) /\ a.ceil = Len(code) + 1 BY <1>3, ImmIsArg
  <2> HIDE DEF a
  <2>2. ArgsIn(Append(args, a), code') BY <1>1, <1>3, <1>4, <2>1, ArgsAppend
  <2> QED BY <1>2, <2>2 DEF a
<1>6. UNCHANGED <<cells, loopInd, phase>> BY DEF Constant, Straight
<1> QED BY <1>3, <1>5, <1>6, ValueSteps

\* The result of a compare which was done by the compiler, or is compiled behind
\* what remains.
LEMMA FoldDoneArgs ==
  ASSUME StackInv, NEW floor \in 0 .. Len(code), NEW r \in 0 .. Len(args), NEW n \in Nat,
         \A i \in 1 .. r : Known(args[i]) => args[i].ceil <= floor,
         FoldDone(floor, r, n)
  PROVE  IsSeq(code') /\ ArgsIn(args', code') /\ Len(code') = floor + 1
<1> DEFINE c == SubSeq(code, 1, floor)
           bs == SubSeq(args, 1, r)
           x == Mov(r, n)
           a == Imm(n, floor)
<1>1. /\ IsSeq(code) /\ ArgsIn(args, code) /\ Len(args) \in Nat BY DEF StackInv, ArgsIn
<1>2. IsSeq(c) /\ Len(c) = floor BY <1>1, PrefixParts
<1>3. ArgsIn(bs, code) /\ Len(bs) = r /\ \A i \in 1 .. r : bs[i] = args[i]
  BY <1>1, ArgsPrefix
<1>4. ArgsIn(bs, c)
  <2>1. \A i \in 1 .. Len(bs) : Known(bs[i]) => bs[i].ceil <= floor BY <1>3
  <2> HIDE DEF bs
  <2> QED BY <1>1, <1>3, <2>1, ArgsCut
<1>5. x.op = "mov" BY DEF Mov
<1>6. a \in Args /\ a.floor = floor /\ a.ceil = floor + 1
  <2>1. floor \in Nat BY <1>1, SeqParts
  <2> QED BY <2>1, ImmIsArg
<1>7. code' = Append(c, x) /\ args' = Append(bs, a) BY DEF FoldDone
<1> HIDE DEF c, bs, x, a
<1>8. IsSeq(code') /\ Len(code') = floor + 1 /\ code'[floor + 1] = x /\ ArgsIn(bs, code')
  BY <1>2, <1>4, <1>7, ArgsAppendCode
<1>9. \A j \in 1 .. Len(bs) : Known(bs[j]) => bs[j].ceil <= a.floor BY <1>3, <1>6
<1>10. ArgsIn(Append(bs, a), code') BY <1>5, <1>6, <1>8, <1>9, ArgsAppend
<1> QED BY <1>7, <1>8, <1>10

LEMMA CompareIntoArgs ==
  ASSUME StackInv, NEW floor \in 0 .. Len(code), NEW r \in 0 .. Len(args), NEW cmp,
         \A i \in 1 .. r : Known(args[i]) => args[i].ceil <= floor,
         CompareInto(floor, r, cmp)
  PROVE  IsSeq(code') /\ ArgsIn(args', code') /\ Len(code') = floor + 2
<1> DEFINE c == SubSeq(code, 1, floor)
           bs == SubSeq(args, 1, r)
           more == <<cmp, Cset(r, "eq")>>
<1>1. /\ IsSeq(code) /\ ArgsIn(args, code) /\ Len(args) \in Nat BY DEF StackInv, ArgsIn
<1>2. IsSeq(c) /\ Len(c) = floor BY <1>1, PrefixParts
<1>3. ArgsIn(bs, code) /\ Len(bs) = r /\ \A i \in 1 .. r : bs[i] = args[i]
  BY <1>1, ArgsPrefix
<1>4. ArgsIn(bs, c)
  <2>1. \A i \in 1 .. Len(bs) : Known(bs[i]) => bs[i].ceil <= floor BY <1>3
  <2> HIDE DEF bs
  <2> QED BY <1>1, <1>3, <2>1, ArgsCut
<1>5. IsSeq(more) /\ Len(more) = 2 BY PairParts
<1>6. code' = c \o more /\ args' = Append(bs, Unknown) BY DEF CompareInto
<1> HIDE DEF c, bs, more
<1>7. IsSeq(code') /\ Len(code') = floor + 2 /\ ArgsIn(bs, code')
  BY <1>2, <1>4, <1>5, <1>6, ArgsConcatCode
<1>8. ArgsIn(Append(bs, Unknown), code') BY <1>7, ArgsAppend, UnknownIsArg
<1> QED BY <1>6, <1>7, <1>8

LEMMA BoolIsNat ==
  ASSUME NEW b PROVE Bool(b) \in Nat
BY DEF Bool

\* What can be folded is the last constant.
LEMMA FoldsLast ==
  ASSUME StackInv, NEW i \in 1 .. Len(args), NEW len \in 0 .. Len(code), Folds(args[i], len)
  PROVE  /\ Known(args[i]) /\ args[i].floor = len - 1 /\ len > 0 /\ args[i].ceil = len
         /\ \A j \in 1 .. i - 1 : Known(args[j]) => args[j].ceil <= len - 1
<1>1. Known(args[i]) /\ args[i].ceil = len BY DEF Folds, Known
<1>2. InCode(args, i, code) /\ args[i] \in Args BY <1>1 DEF StackInv, ArgsIn
<1>3. args[i].floor \in Nat BY <1>2 DEF Args
<1> QED BY <1>1, <1>2, <1>3 DEF InCode

LEMMA EqZeroInv ==
  ASSUME StackInv, EqZero
  PROVE  StackInv'
<1>0. /\ Len(code) \in Nat /\ Len(args) \in Nat \ {0}
      /\ \A i \in 1 .. Len(args) : Known(args[i]) => args[i].ceil <= Len(code)
  BY SeqParts DEF StackInv, ArgsIn, InCode, EqZero
<1>1. IsSeq(code') /\ ArgsIn(args', code')
  <2> DEFINE n == Len(args)
             floor == args[n].floor
  <2>1. CASE Folds(args[n], Len(code))
    <3>1. /\ floor = Len(code) - 1 /\ floor \in 0 .. Len(code)
          /\ \A i \in 1 .. n - 1 : Known(args[i]) => args[i].ceil <= floor
      BY <1>0, <2>1, FoldsLast
    <3>2. PICK b : FoldDone(floor, n - 1, Bool(b)) BY <2>1 DEF EqZero, Last
    <3> HIDE DEF floor
    <3>3. n - 1 \in 0 .. Len(args) BY <1>0
    <3> QED BY <3>1, <3>2, <3>3, BoolIsNat, FoldDoneArgs
  <2>2. CASE ~Folds(args[n], Len(code))
    <3>1. PICK cmp : CompareInto(Len(code), n - 1, cmp) BY <2>2 DEF EqZero, Last
    <3>2. n - 1 \in 0 .. Len(args) /\ Len(code) \in 0 .. Len(code) BY <1>0
    <3> QED BY <1>0, <3>1, <3>2, CompareIntoArgs
  <2> QED BY <2>1, <2>2
<1>2. UNCHANGED <<cells, loopInd, phase>> BY DEF EqZero, Straight
<1> QED BY <1>1, <1>2, ValueSteps

LEMMA EqualInv ==
  ASSUME StackInv, Equal
  PROVE  StackInv'
<1>0. /\ Len(code) \in Nat /\ Len(args) \in Nat /\ Len(args) >= 2
      /\ \A i \in 1 .. Len(args) : Known(args[i]) => args[i].ceil <= Len(code)
  BY SeqParts DEF StackInv, ArgsIn, InCode, Equal
<1>1. IsSeq(code') /\ ArgsIn(args', code')
  <2> DEFINE r == Len(args) - 2
             lhs == args[r + 1]
             rhs == args[r + 2]
  <2>0. r \in 0 .. Len(args) /\ r + 1 \in 1 .. Len(args) /\ r + 2 \in 1 .. Len(args) BY <1>0
  <2>1. CASE ~Folds(rhs, Len(code))
    <3>1. PICK cmp : CompareInto(Len(code), r, cmp) BY <2>1 DEF Equal
    <3> HIDE DEF r
    <3>2. Len(code) \in 0 .. Len(code) BY <1>0
    <3> QED BY <1>0, <2>0, <3>1, <3>2, CompareIntoArgs
  <2>2. CASE Folds(rhs, Len(code))
    <3>1. /\ rhs.floor \in 0 .. Len(code)
          /\ \A i \in 1 .. r + 1 : Known(args[i]) => args[i].ceil <= rhs.floor
      <4> HIDE DEF r
      <4>1. Len(code) \in 0 .. Len(code) /\ (r + 2) - 1 = r + 1 BY <1>0, <2>0
      <4> QED BY <1>0, <2>0, <2>2, <4>1, FoldsLast
    <3>2. CASE Folds(lhs, rhs.floor)
      <4>1. /\ lhs.floor \in 0 .. Len(code)
            /\ \A i \in 1 .. r : Known(args[i]) => args[i].ceil <= lhs.floor
        <5> HIDE DEF r
        <5>1. (r + 1) - 1 = r BY <2>0
        <5> QED BY <1>0, <2>0, <3>1, <3>2, <5>1, FoldsLast
      <4>2. PICK b : FoldDone(lhs.floor, r, Bool(b)) BY <2>2, <3>2 DEF Equal
      <4> HIDE DEF r, lhs
      <4> QED BY <2>0, <4>1, <4>2, BoolIsNat, FoldDoneArgs
    <3>3. CASE ~Folds(lhs, rhs.floor)
      <4>1. PICK cmp : CompareInto(rhs.floor, r, cmp) BY <2>2, <3>3 DEF Equal
      <4>2. \A i \in 1 .. r : Known(args[i]) => args[i].ceil <= rhs.floor BY <2>0, <3>1
      <4> HIDE DEF r, rhs
      <4> QED BY <2>0, <3>1, <4>1, <4>2, CompareIntoArgs
    <3> QED BY <3>2, <3>3
  <2> QED BY <2>1, <2>2
<1>2. UNCHANGED <<cells, loopInd, phase>> BY DEF Equal, Straight
<1> QED BY <1>1, <1>2, ValueSteps

-----------------------------------------------------------------------------
(* Branches *)

\* A compare with zero which .cond_branch_beg replaces by one branch.
Fusable(c, p) ==
  p >= 2 /\ \E r : c[p - 1] = CmpImm(r, 0) /\ c[p] = Cset(r, "eq")

\* What may stand where an instruction is reserved: nothing the compiler takes
\* back.
Reserved(c, p) == p \in 1 .. Len(c) /\ c[p].op # "mov" /\ ~Fusable(c, p)

LEMMA BrkIsBrk == Placeholder.op = "brk" /\ \A r : Placeholder # Cset(r, "eq")
<1>1. Placeholder.op = "brk" BY DEF Placeholder
<1>2. \A r : Cset(r, "eq").op = "cset" BY DEF Cset
<1> QED BY <1>1, <1>2

\* Code in which the last instruction of d is reserved, and which is that of c
\* before it.
ReservedLast(c, d, k) ==
  /\ IsSeq(d) /\ k \in Metas /\ k.off = Len(d) /\ Reserved(d, Len(d))
  /\ \A i \in 1 .. Len(d) - 1 : i \in 1 .. Len(c) /\ d[i] = c[i]
  /\ d[Len(d)] = Placeholder \/ (Len(d) = Len(c) /\ d[Len(d)] = c[Len(d)])
  /\ \A p \in 1 .. Len(c) : Reserved(c, p) => Reserved(d, p)
  /\ Len(d) >= Len(c) - 1

\* A compare with zero is taken back.
LEMMA CondBranchFused ==
  ASSUME NEW pred, NEW n \in Nat, n = Len(code), n >= 2,
         code[n - 1] = CmpImm(pred, 0), code[n] = Cset(pred, "eq"),
         NEW k \in Metas, k.off = n - 1,
         NEW c, IsSeq(c), Len(c) = n - 2, \A i \in 1 .. n - 2 : c[i] = code[i],
         NEW d, d = Append(c, Placeholder)
  PROVE  ReservedLast(code, d, k)
<1>1. /\ IsSeq(d) /\ Len(d) = n - 1 /\ d[n - 1] = Placeholder
      /\ \A i \in 1 .. n - 2 : d[i] = code[i]
  <2>1. (n - 2) + 1 = n - 1 OBVIOUS
  <2> QED BY <2>1, AppendParts
<1>2. Reserved(d, n - 1) BY <1>1, BrkIsBrk DEF Reserved, Fusable
<1>3. ASSUME NEW p \in 1 .. n, Reserved(code, p) PROVE Reserved(d, p)
  <2>1. p # n BY <1>3 DEF Reserved, Fusable
  <2>2. CASE p = n - 1 BY <1>2, <2>2
  <2>3. CASE p \in 1 .. n - 2 BY <1>1, <1>3, <2>3 DEF Reserved, Fusable
  <2> QED BY <2>1, <2>2, <2>3
<1>4. \A i \in 1 .. Len(d) - 1 : i \in 1 .. n /\ d[i] = code[i] BY <1>1
<1> QED BY <1>1, <1>2, <1>3, <1>4 DEF ReservedLast

\* The cset of another compare is reserved itself.
LEMMA CondBranchKept ==
  ASSUME IsSeq(code), NEW pred, NEW n \in Nat, n = Len(code),
         ~(n >= 2 /\ code[n - 1] = CmpImm(pred, 0) /\ code[n] = Cset(pred, "eq")),
         n >= 1, code[n].op = "cset", code[n].reg = pred,
         NEW k \in Metas, k.off = n
  PROVE  ReservedLast(code, code, k)
<1>1. \A r : Cset(r, "eq").reg = r BY DEF Cset
<1>2. Reserved(code, n) BY <1>1 DEF Reserved, Fusable
<1> QED BY <1>2 DEF ReservedLast

LEMMA CondBranchNew ==
  ASSUME IsSeq(code), NEW n \in Nat, n = Len(code),
         NEW d, d = Append(code, Placeholder), NEW k \in Metas, k.off = n + 1
  PROVE  ReservedLast(code, d, k)
<1>1. /\ IsSeq(d) /\ Len(d) = n + 1 /\ d[n + 1] = Placeholder
      /\ \A i \in 1 .. n : d[i] = code[i]
  BY AppendParts
<1>2. Reserved(d, n + 1) BY <1>1, BrkIsBrk DEF Reserved, Fusable
<1>3. ASSUME NEW p \in 1 .. n, Reserved(code, p) PROVE Reserved(d, p)
  BY <1>1, <1>3 DEF Reserved, Fusable
<1>4. \A i \in 1 .. Len(d) - 1 : i \in 1 .. n /\ d[i] = code[i] BY <1>1
<1> QED BY <1>1, <1>2, <1>3, <1>4 DEF ReservedLast

\* .cond_branch_beg reserves one instruction, the last one, and takes back at
\* most a compare.
LEMMA CondBranch ==
  ASSUME IsSeq(code), NEW pred, NEW m \in Metas, NEW beg, beg = CondBranchBeg(pred, m)
  PROVE  /\ ReservedLast(code, beg.code, beg.meta)
         /\ Len(beg.code) < Len(code) =>
              code # <<>> /\ Last(code).op = "cset" /\ Last(code).reg = pred
<1>0. PICK n \in Nat : n = Len(code) BY SeqParts
<1>1. CASE n >= 2 /\ code[n - 1] = CmpImm(pred, 0) /\ code[n] = Cset(pred, "eq")
  <2> DEFINE c == SubSeq(code, 1, n - 2)
  <2>1. beg.code = Append(c, Placeholder) BY <1>0, <1>1 DEF CondBranchBeg
  <2>2. beg.meta \in Metas /\ beg.meta.off = n - 1
    <3>1. beg.meta = [m EXCEPT !.type = "cbnz", !.off = n - 1]
      BY <1>0, <1>1 DEF CondBranchBeg
    <3>2. PICK off \in Nat : off = n - 1 BY <1>0, <1>1
    <3>3. beg.meta = [m EXCEPT !.type = "cbnz", !.off = off] BY <3>1, <3>2
    <3> QED BY <3>2, <3>3 DEF Metas
  <2>3. IsSeq(c) /\ Len(c) = n - 2 /\ \A i \in 1 .. n - 2 : c[i] = code[i]
    <3>1. n - 2 \in 0 .. Len(code) BY <1>0, <1>1
    <3> QED BY <3>1, PrefixParts
  <2> HIDE DEF c
  <2>6. ReservedLast(code, beg.code, beg.meta)
    BY <1>0, <1>1, <2>1, <2>2, <2>3, CondBranchFused
  <2>4. code # <<>> BY <1>0, <1>1, EmptyParts
  <2>5. Last(code).op = "cset" /\ Last(code).reg = pred BY <1>0, <1>1 DEF Last, Cset
  <2> QED BY <2>6, <2>4, <2>5
<1>2. CASE /\ ~(n >= 2 /\ code[n - 1] = CmpImm(pred, 0) /\ code[n] = Cset(pred, "eq"))
           /\ n >= 1 /\ code[n].op = "cset" /\ code[n].reg = pred
  <2>1. beg.code = code BY <1>0, <1>2 DEF CondBranchBeg
  <2>2. beg.meta \in Metas /\ beg.meta.off = n
    <3>1. PICK cond \in {"eq", "ne"} :
            beg.meta = [m EXCEPT !.type = "b.cond", !.off = n, !.cond = cond]
      BY <1>0, <1>2 DEF CondBranchBeg
    <3> QED BY <1>0, <3>1 DEF Metas
  <2>3. ReservedLast(code, beg.code, beg.meta)
    BY <1>0, <1>2, <2>1, <2>2, CondBranchKept
  <2> QED BY <1>0, <2>1, <2>3
<1>3. CASE /\ ~(n >= 2 /\ code[n - 1] = CmpImm(pred, 0) /\ code[n] = Cset(pred, "eq"))
           /\ ~(n >= 1 /\ code[n].op = "cset" /\ code[n].reg = pred)
  <2>1. beg.code = Append(code, Placeholder) BY <1>0, <1>3 DEF CondBranchBeg
  <2>2. beg.meta \in Metas /\ beg.meta.off = n + 1
    <3>1. beg.meta = [m EXCEPT !.type = "cbz", !.off = n + 1]
      BY <1>0, <1>3 DEF CondBranchBeg
    <3>2. PICK off \in Nat : off = n + 1 BY <1>0
    <3>3. beg.meta = [m EXCEPT !.type = "cbz", !.off = off] BY <3>1, <3>2
    <3> QED BY <3>2, <3>3 DEF Metas
  <2>3. ReservedLast(code, beg.code, beg.meta)
    BY <1>0, <2>1, <2>2, CondBranchNew
  <2>4. Len(beg.code) = n + 1 BY <1>0, <2>1, AppendParts
  <2> QED BY <1>0, <2>3, <2>4
<1> QED BY <1>1, <1>2, <1>3

LEMMA PatchParts ==
  ASSUME NEW c, IsSeq(c), NEW fs, NEW to, NEW d, d = Patch(c, fs, to)
  PROVE  /\ IsSeq(d) /\ Len(d) = Len(c)
         /\ \A p \in 1 .. Len(c) :
              \/ d[p] = c[p] /\ \A f \in fs : f.meta.off # p
              \/ \E f \in fs : f.meta.off = p /\ d[p] = Resolved(f, to)
<1>1. PICK n \in Nat : n = Len(c) /\ DOMAIN c = 1 .. n BY SeqParts
<1> DEFINE At(i) == IF \E f \in fs : f.meta.off = i
                    THEN Resolved(CHOOSE f \in fs : f.meta.off = i, to) ELSE c[i]
<1>2. d = [i \in 1 .. n |-> At(i)] BY <1>1 DEF Patch
<1>3. IsSeq(d) /\ Len(d) = n
  <2>1. d = [i \in 1 .. n |-> d[i]]
    <3> HIDE DEF At
    <3> QED BY <1>2
  <2> QED BY <2>1, FunctionIsSeq
<1>4. ASSUME NEW p \in 1 .. n
      PROVE  \/ d[p] = c[p] /\ \A f \in fs : f.meta.off # p
             \/ \E f \in fs : f.meta.off = p /\ d[p] = Resolved(f, to)
  <2>1. d[p] = At(p)
    <3> HIDE DEF At
    <3> QED BY <1>2
  <2>2. CASE \E f \in fs : f.meta.off = p
    <3> DEFINE f == CHOOSE g \in fs : g.meta.off = p
    <3>1. f \in fs /\ f.meta.off = p BY <2>2
    <3>2. d[p] = Resolved(f, to) BY <2>1, <2>2
    <3> HIDE DEF f
    <3> QED BY <3>1, <3>2
  <2>3. CASE ~\E f \in fs : f.meta.off = p BY <2>1, <2>3
  <2> QED BY <2>2, <2>3
<1> QED BY <1>1, <1>3, <1>4

\* A step which forgets what is known of the arguments.
LEMMA BranchSteps ==
  ASSUME IsSeq(code'), NEW n \in Nat, args' = Barrier(n), cells' # <<>>,
         Nested(cells'), Linked(cells', loopInd'), loopInd' \in Nat
  PROVE  StackInv'
<1>1. ArgsIn(args', code') BY BarrierArgs
<1>2. CellsInv' BY DEF CellsInv
<1> QED BY <1>1, <1>2 DEF StackInv

LEMMA PushSteps ==
  ASSUME StackInv, IsSeq(code'), NEW n \in Nat, args' = Barrier(n), loopInd' = loopInd,
         NEW m, Pushed(cells, cells', m)
  PROVE  StackInv'
<1>1. Nested(cells') /\ Linked(cells', loopInd') /\ cells' # <<>> /\ loopInd' \in Nat
  BY PushFrames DEF StackInv, CellsInv
<1> QED BY <1>1, BranchSteps

\* What `.then' does.
ThenStep(n, k) ==
  /\ args # <<>> /\ n = Len(args) - 1 /\ n \in Nat /\ args' = Barrier(n)
  /\ ReservedLast(code, code', k)
  /\ Len(code') < Len(code) => code # <<>> /\ Last(code).op = "cset" /\ Last(code).reg = n
  /\ \/ /\ cells[Len(cells)].xt = "elif_invalid"
        /\ Pushed(cells, cells', Len(cells) - 1) /\ Len(cells') = Len(cells)
        /\ cells'[Len(cells)] = Frame("then_end", k)
     \/ /\ Pushed(cells, cells', Len(cells)) /\ Len(cells') = Len(cells) + 2
        /\ cells'[Len(cells) + 1].xt = "nop"
        /\ cells'[Len(cells) + 2] = Frame("then_end", k)
  /\ UNCHANGED <<aux, loopInd, phase>>
  /\ JoinTests \/ ~TestsAtJoin(n)

LEMMA CellsOpen ==
  ASSUME StackInv, phase = "compile"
  PROVE  /\ cells # <<>> /\ Nested(cells) /\ Len(cells) \in Nat \ {0}
         /\ Top = cells[Len(cells)] /\ Top \in Frames /\ Top.meta \in Metas
         /\ Top.xt = "semicolon" <=> Len(cells) = 1
<1>1. cells # <<>> /\ Nested(cells) BY DEF StackInv, CellsInv
<1> QED BY <1>1, TopFrame DEF Top

LEMMA ThenIs ==
  ASSUME StackInv, Then
  PROVE  \E n \in Nat, k \in Metas : ThenStep(n, k)
<1>1. phase = "compile" BY DEF Then, Token
<1>2. args # <<>> /\ Len(args) \in Nat \ {0} BY DEF Then, StackInv, ArgsIn
<1>3. PICK n \in Nat : n = Len(args) - 1
  <2>1. Len(args) - 1 \in Nat BY <1>2
  <2> QED BY <2>1
<1> DEFINE continued == Top.xt = "elif_invalid"
           m == IF continued THEN Top.meta ELSE Meta(n, 0)
           beg == CondBranchBeg(n, m)
           base == IF continued THEN Front(cells)
                   ELSE Append(cells, Frame("nop", Meta(0, 0)))
<1>4. /\ code' = beg.code /\ args' = Barrier(n)
      /\ cells' = Append(base, Frame("then_end", beg.meta))
      /\ UNCHANGED <<aux, loopInd, phase>>
      /\ JoinTests \/ ~TestsAtJoin(n)
  BY <1>3 DEF Then, Branching
<1>5. m \in Metas
  <2>1. Meta(n, 0) \in Metas BY MetaIs
  <2> QED BY <1>1, <2>1, CellsOpen
<1>6. /\ ReservedLast(code, beg.code, beg.meta)
      /\ Len(beg.code) < Len(code) =>
           code # <<>> /\ Last(code).op = "cset" /\ Last(code).reg = n
  <2> HIDE DEF m
  <2> QED BY <1>5, CondBranch DEF StackInv
<1> HIDE DEF beg
<1>7. PICK k \in Metas : k = beg.meta BY <1>6 DEF ReservedLast
<1>8. PICK f \in Frames : f = Frame("then_end", k) /\ f.xt = "then_end"
  BY <1>7, FrameIs DEF Kinds, BranchFrames
<1>9. /\ cells # <<>> /\ Nested(cells) /\ Last(cells) = cells[Len(cells)]
      /\ Last(cells) = Top
  BY <1>1, CellsOpen DEF Top
<1>10. CASE continued
  <2>1. cells' = Append(Front(cells), f) BY <1>4, <1>7, <1>8, <1>10
  <2>2. Last(cells).xt \in BranchFrames /\ f.xt \in BranchFrames
    BY <1>8, <1>9, <1>10 DEF BranchFrames
  <2>3. /\ Pushed(cells, cells', Len(cells) - 1) /\ Len(cells') = Len(cells)
        /\ cells'[Len(cells)] = f
    BY <1>9, <2>1, <2>2, ReplaceTop
  <2>4. ThenStep(n, k)
    BY <1>2, <1>3, <1>4, <1>6, <1>7, <1>8, <1>9, <1>10, <2>3 DEF ThenStep
  <2> QED BY <2>4
<1>11. CASE ~continued
  <2>1. PICK g \in Frames : g = Frame("nop", Meta(0, 0)) /\ g.xt = "nop"
    <3>1. Meta(0, 0) \in Metas BY MetaIs
    <3> QED BY <3>1, FrameIs DEF Kinds
  <2>2. cells' = Append(Append(cells, g), f) BY <1>4, <1>7, <1>8, <1>11, <2>1
  <2>3. f.xt \in BranchFrames BY <1>8 DEF BranchFrames
  <2>4. /\ Pushed(cells, cells', Len(cells)) /\ Len(cells') = Len(cells) + 2
        /\ cells'[Len(cells) + 1] = g /\ cells'[Len(cells) + 2] = f
    <3>1. cells # <<>> /\ Nested(cells) /\ g.xt = "nop" BY <1>9, <2>1
    <3>2. cells' = PushedTwo(cells, g, f) BY <2>2 DEF PushedTwo
    <3> QED BY <2>3, <3>1, <3>2, PushTwo
  <2>5. ThenStep(n, k)
    BY <1>2, <1>3, <1>4, <1>6, <1>7, <1>8, <2>1, <2>4 DEF ThenStep
  <2> QED BY <2>5
<1> QED BY <1>10, <1>11

LEMMA ThenInv ==
  ASSUME StackInv, Then
  PROVE  StackInv'
<1>1. PICK n \in Nat, k \in Metas : ThenStep(n, k) BY ThenIs
<1>2. PICK m : Pushed(cells, cells', m) BY <1>1 DEF ThenStep
<1>3. IsSeq(code') /\ args' = Barrier(n) /\ loopInd' = loopInd
  BY <1>1 DEF ThenStep, ReservedLast
<1> QED BY <1>2, <1>3, PushSteps

LEMMA ClosedIs ==
  ASSUME StackInv, phase = "compile"
  PROVE  Closed \in Metas /\ Closed.off = Len(code) + 1
<1>1. PICK m \in Metas : m = Top.meta BY CellsOpen
<1>2. PICK n \in Nat : n = Len(code) BY SeqParts DEF StackInv
<1>3. Len(args) \in Nat BY DEF StackInv, ArgsIn
<1>4. PICK off \in Nat : off = n + 1 BY <1>2
<1>5. PICK out \in Nat : out = IF m.hasOut THEN m.out ELSE Len(args) BY <1>3 DEF Metas
<1>6. Closed = [m EXCEPT !.hasOut = TRUE, !.off = off, !.out = out]
  BY <1>1, <1>2, <1>4, <1>5 DEF Closed
<1>7. Closed \in Metas /\ Closed.off = off BY <1>6 DEF Metas
<1> QED BY <1>2, <1>4, <1>7

\* What `else' and `elif' do.
CloseStep(k) ==
  /\ Top.xt = "then_end"
  /\ code' = Patch(Append(code, Placeholder), {Top}, Len(code) + 2)
  /\ args' = Barrier(Top.meta.inp)
  /\ k.off = Len(code) + 1
  /\ Pushed(cells, cells', Len(cells) - 1)
  /\ \/ Len(cells') = Len(cells) /\ cells'[Len(cells)] = Frame("else_end", k)
     \/ /\ Len(cells') = Len(cells) + 1 /\ cells'[Len(cells)] = Frame("cond_chain_end", k)
        /\ cells'[Len(cells) + 1] = Frame("elif_invalid", k)
  /\ UNCHANGED <<aux, loopInd, phase>>

LEMMA ElseIs ==
  ASSUME StackInv, Else
  PROVE  phase = "compile" /\ \E k \in Metas : CloseStep(k)
<1>1. phase = "compile" BY DEF Else, Token
<1>2. PICK k \in Metas : k = Closed /\ k.off = Len(code) + 1 BY <1>1, ClosedIs
<1>3. PICK f \in Frames : f = Frame("else_end", k) /\ f.xt = "else_end"
  BY <1>2, FrameIs DEF Kinds, BranchFrames
<1>4. cells' = Append(Front(cells), f) BY <1>2, <1>3 DEF Else
<1>5. Last(cells).xt = "then_end" BY DEF Else, CloseBranch, Top
<1>6. /\ Pushed(cells, cells', Len(cells) - 1) /\ Len(cells') = Len(cells)
      /\ cells'[Len(cells)] = f
  <2>1. Last(cells).xt \in BranchFrames /\ f.xt \in BranchFrames
    BY <1>3, <1>5 DEF BranchFrames
  <2>2. cells # <<>> /\ Nested(cells) BY <1>1, CellsOpen
  <2> QED BY <1>4, <2>1, <2>2, ReplaceTop
<1>7. CloseStep(k)
  BY <1>2, <1>3, <1>6 DEF CloseStep, Else, CloseBranch, Branching
<1> QED BY <1>1, <1>7

LEMMA ElifIs ==
  ASSUME StackInv, Elif
  PROVE  phase = "compile" /\ \E k \in Metas : CloseStep(k)
<1>1. phase = "compile" BY DEF Elif, Token
<1>2. PICK k \in Metas : k = Closed /\ k.off = Len(code) + 1 BY <1>1, ClosedIs
<1>3. PICK f \in Frames : f = Frame("cond_chain_end", k) /\ f.xt = "cond_chain_end"
  BY <1>2, FrameIs DEF Kinds, BranchFrames
<1>4. PICK g \in Frames : g = Frame("elif_invalid", k) /\ g.xt = "elif_invalid"
  BY <1>2, FrameIs DEF Kinds, BranchFrames
<1>5. cells' = ToppedByTwo(cells, f, g) BY <1>2, <1>3, <1>4 DEF Elif, ToppedByTwo
<1>6. Last(cells).xt = "then_end" BY DEF Elif, CloseBranch, Top
<1>7. /\ Pushed(cells, cells', Len(cells) - 1) /\ Len(cells') = Len(cells) + 1
      /\ cells'[Len(cells)] = f /\ cells'[Len(cells) + 1] = g
  <2>1. Last(cells).xt \in BranchFrames /\ g.xt \in BranchFrames
    BY <1>4, <1>6 DEF BranchFrames
  <2>2. cells # <<>> /\ Nested(cells) BY <1>1, CellsOpen
  <2> QED BY <1>3, <1>5, <2>1, <2>2, ReplaceTopByTwo
<1>8. CloseStep(k)
  BY <1>2, <1>3, <1>4, <1>7 DEF CloseStep, Elif, CloseBranch, Branching
<1> QED BY <1>1, <1>8

LEMMA CloseInv ==
  ASSUME StackInv, phase = "compile", NEW k \in Metas, CloseStep(k)
  PROVE  StackInv'
<1>1. PICK n \in Nat : args' = Barrier(n)
  <2>1. Top.meta.inp \in Nat BY CellsOpen DEF Metas
  <2> QED BY <2>1 DEF CloseStep
<1>2. IsSeq(code')
  <2>1. IsSeq(Append(code, Placeholder)) BY AppendParts DEF StackInv
  <2> QED BY <2>1, PatchParts DEF CloseStep
<1>3. Pushed(cells, cells', Len(cells) - 1) /\ loopInd' = loopInd BY DEF CloseStep
<1> QED BY <1>1, <1>2, <1>3, PushSteps

\* What `end' of a conditional does.
EndStep(first) ==
  /\ first \in 2 .. Len(cells) - 1 /\ cells[first].xt = "nop"
  /\ \A i \in first + 1 .. Len(cells) : cells[i].xt \in BranchFrames
  /\ code' = Patch(code, {cells[i] : i \in first + 1 .. Len(cells)}, Len(code) + 1)
  /\ args' = Barrier(Len(args))
  /\ Pushed(cells, cells', first - 1) /\ Len(cells') = first - 1
  /\ UNCHANGED <<aux, loopInd, phase>>

LEMMA EndBranchIs ==
  ASSUME StackInv, EndBranch
  PROVE  phase = "compile" /\ \E first : EndStep(first)
<1>1. phase = "compile" BY DEF EndBranch, Token
<1>2. PICK first : first = LastOf(cells, "nop") OBVIOUS
<1>3. cells # <<>> /\ Nested(cells) /\ Last(cells).xt \in BranchFrames
  BY <1>1, CellsOpen DEF EndBranch, Top, BranchFrames
<1>4. /\ code' = Patch(code, {cells[i] : i \in first + 1 .. Len(cells)}, Len(code) + 1)
      /\ args' = Barrier(Len(args))
      /\ cells' = SubSeq(cells, 1, first - 1)
      /\ UNCHANGED <<aux, loopInd, phase>>
  BY <1>2 DEF EndBranch, Branching
<1>5. /\ Pushed(cells, cells', first - 1) /\ Len(cells') = first - 1
      /\ first \in 2 .. Len(cells) - 1 /\ cells[first].xt = "nop"
      /\ \A i \in first + 1 .. Len(cells) : cells[i].xt \in BranchFrames
  BY <1>2, <1>3, <1>4, TakeBranch
<1>6. EndStep(first) BY <1>4, <1>5 DEF EndStep
<1> QED BY <1>1, <1>6

LEMMA EndBranchInv ==
  ASSUME StackInv, EndBranch
  PROVE  StackInv'
<1>1. PICK first : EndStep(first) BY EndBranchIs
<1>2. IsSeq(code') BY <1>1, PatchParts DEF StackInv, EndStep
<1>3. Len(args) \in Nat BY DEF StackInv, ArgsIn
<1>4. Pushed(cells, cells', first - 1) /\ loopInd' = loopInd /\ args' = Barrier(Len(args))
  BY <1>1 DEF EndStep
<1> QED BY <1>2, <1>3, <1>4, PushSteps

-----------------------------------------------------------------------------
(* Loops *)

PushedFrames(cs, f, g) == cs \o <<f, g>>

\* A loop starts, above a frame with the enclosing one.
LEMMA OpenLoop ==
  ASSUME NEW cs, Nested(cs), cs # <<>>, NEW ind, Linked(cs, ind),
         NEW f \in Frames, f.xt = "loop_frame_end", f.meta.off = ind,
         NEW g \in Frames, g.xt = "loop_end", NEW ds, ds = PushedFrames(cs, f, g)
  PROVE  /\ Nested(ds) /\ ds # <<>> /\ Linked(ds, Len(cs) + 2)
         /\ Len(ds) = Len(cs) + 2 /\ ds[Len(cs) + 2] = g
         /\ \A i \in 1 .. Len(cs) : ds[i] = cs[i]
         /\ LoopsOf(ds) = LoopsOf(cs) \cup {Len(cs) + 2}
         /\ ds[Len(cs) + 1].xt = "loop_frame_end"
<1>1. PICK n \in Nat : n = Len(cs) /\ n > 0 /\ cs \in Seq(Frames) /\ DOMAIN cs = 1 .. n
  BY TopFrame DEF Nested
<1>2. /\ ds \in Seq(Frames) /\ Len(ds) = n + 2 /\ DOMAIN ds = 1 .. n + 2
      /\ ds[n + 1] = f /\ ds[n + 2] = g /\ \A i \in 1 .. n : ds[i] = cs[i]
  BY <1>1 DEF PushedFrames
<1>3. ASSUME NEW i \in DOMAIN ds
      PROVE  /\ ds[i].xt = "semicolon" <=> i = 1
             /\ ds[i].xt \in BranchFrames => ds[i - 1].xt \in {"nop", "cond_chain_end"}
             /\ ds[i].xt = "loop_end" => ds[i - 1].xt = "loop_frame_end"
  <2>1. CASE i = n + 1 BY <1>1, <1>2, <2>1 DEF BranchFrames
  <2>2. CASE i = n + 2
    <3>1. i - 1 = n + 1 BY <2>2
    <3> QED BY <1>1, <1>2, <2>2, <3>1 DEF BranchFrames
  <2>3. CASE i \in 1 .. n
    <3>1. i \in DOMAIN cs /\ ds[i] = cs[i] BY <1>1, <1>2, <2>3
    <3>2. CASE i = 1
      <4>1. cs[i].xt = "semicolon" BY <3>1, <3>2 DEF Nested
      <4> QED BY <3>1, <3>2, <4>1 DEF BranchFrames
    <3>3. CASE i # 1
      <4>1. ds[i - 1] = cs[i - 1] BY <1>1, <1>2, <2>3, <3>3
      <4> QED BY <3>1, <3>3, <4>1 DEF Nested
    <3> QED BY <3>2, <3>3
  <2> QED BY <1>1, <1>2, <2>1, <2>2, <2>3
<1>4. Nested(ds) /\ ds # <<>> BY <1>1, <1>2, <1>3 DEF Nested
<1>5. LoopsOf(ds) = LoopsOf(cs) \cup {n + 2} /\ LoopsOf(cs) \subseteq 1 .. n
  BY <1>1, <1>2 DEF LoopsOf
<1>6. ASSUME NEW i \in LoopsOf(ds), \A j \in LoopsOf(ds) : j <= i PROVE n + 2 = i
  <2>1. n + 2 <= i BY <1>5, <1>6
  <2>2. i \in 1 .. n \/ i = n + 2 BY <1>5
  <2> QED BY <2>1, <2>2
<1>7. ASSUME NEW i \in LoopsOf(ds), NEW j \in LoopsOf(ds), j < i,
             \A k \in LoopsOf(ds) : ~(j < k /\ k < i)
      PROVE  ds[i - 1].meta.off = j
  <2>1. CASE i = n + 2
    <3>1. j \in LoopsOf(cs) /\ \A k \in LoopsOf(cs) : k <= j
      BY <1>1, <1>5, <1>7, <2>1
    <3>2. ind = j BY <3>1 DEF Linked
    <3>3. ds[i - 1] = f BY <1>1, <1>2, <2>1
    <3> QED BY <3>2, <3>3
  <2>2. CASE i \in LoopsOf(cs)
    <3>1. j \in LoopsOf(cs) /\ \A k \in LoopsOf(cs) : ~(j < k /\ k < i)
      BY <1>1, <1>5, <1>7, <2>2
    <3>2. cs[i - 1].meta.off = j BY <1>7, <2>2, <3>1 DEF Linked
    <3>3. i - 1 \in 1 .. n BY <1>1, <1>5, <1>7, <2>2, <3>1
    <3> QED BY <1>2, <3>2, <3>3
  <2> QED BY <1>5, <2>1, <2>2
<1>8. Linked(ds, n + 2) BY <1>6, <1>7 DEF Linked
<1> QED BY <1>1, <1>2, <1>4, <1>5, <1>8

WithoutTwo(cs) == SubSeq(cs, 1, Len(cs) - 2)

\* A loop ends: the frame below it leads to the enclosing one.
LEMMA CloseLoop ==
  ASSUME NEW cs, Nested(cs), cs # <<>>, NEW ind, Linked(cs, ind),
         Last(cs).xt = "loop_end", NEW ds, ds = WithoutTwo(cs)
  PROVE  /\ Nested(ds) /\ ds # <<>> /\ Linked(ds, cs[Len(cs) - 1].meta.off)
         /\ cs[Len(cs) - 1].meta.off \in Nat
         /\ Len(cs) \in Nat /\ Len(cs) > 2 /\ Len(ds) = Len(cs) - 2
         /\ \A i \in 1 .. Len(ds) : ds[i] = cs[i]
         /\ LoopsOf(cs) = LoopsOf(ds) \cup {Len(cs)} /\ LoopsOf(ds) \subseteq 1 .. Len(cs) - 2
         /\ cs[Len(cs) - 1].xt = "loop_frame_end" /\ ind = Len(cs)
<1>1. PICK n \in Nat : n = Len(cs) /\ n > 0 /\ cs \in Seq(Frames) /\ DOMAIN cs = 1 .. n
  BY TopFrame DEF Nested
<1>2. cs[n].xt = "loop_end" /\ cs[n - 1].xt = "loop_frame_end" BY <1>1 DEF Last, Nested
<1>3. n > 2
  <2>1. cs[1].xt = "semicolon" BY <1>1 DEF Nested
  <2>2. n # 1 /\ n - 1 # 1 BY <1>2, <2>1
  <2> QED BY <1>1, <2>2
<1>4. /\ ds \in Seq(Frames) /\ Len(ds) = n - 2 /\ DOMAIN ds = 1 .. n - 2
      /\ \A i \in 1 .. n - 2 : ds[i] = cs[i]
  BY <1>1, <1>3 DEF WithoutTwo
<1>5. ASSUME NEW i \in DOMAIN ds
      PROVE  /\ ds[i].xt = "semicolon" <=> i = 1
             /\ ds[i].xt \in BranchFrames => ds[i - 1].xt \in {"nop", "cond_chain_end"}
             /\ ds[i].xt = "loop_end" => ds[i - 1].xt = "loop_frame_end"
  <2>1. i \in DOMAIN cs /\ ds[i] = cs[i] BY <1>1, <1>3, <1>4
  <2>2. CASE i = 1
    <3>1. cs[i].xt = "semicolon" BY <2>1, <2>2 DEF Nested
    <3> QED BY <2>1, <2>2, <3>1 DEF BranchFrames
  <2>3. CASE i # 1
    <3>1. ds[i - 1] = cs[i - 1] BY <1>1, <1>3, <1>4, <2>3
    <3> QED BY <2>1, <2>3, <3>1 DEF Nested
  <2> QED BY <2>2, <2>3
<1>6. Nested(ds) /\ ds # <<>> BY <1>3, <1>4, <1>5 DEF Nested
<1>7. LoopsOf(cs) = LoopsOf(ds) \cup {n} /\ LoopsOf(ds) \subseteq 1 .. n - 2
  <2>1. \A i \in 1 .. n : i \in 1 .. n - 2 \/ i = n - 1 \/ i = n BY <1>3
  <2> QED BY <1>1, <1>2, <1>3, <1>4, <2>1 DEF LoopsOf
<1>8. cs[n - 1].meta.off \in Nat
  <2>1. cs[n - 1] \in Frames BY <1>1, <1>3
  <2> QED BY <2>1 DEF Frames, Metas
<1>9. ind = n
  <2>1. n \in LoopsOf(cs) /\ \A j \in LoopsOf(cs) : j <= n BY <1>1, <1>3, <1>7
  <2> QED BY <2>1 DEF Linked
<1>10. ASSUME NEW i \in LoopsOf(ds), \A j \in LoopsOf(ds) : j <= i
       PROVE  cs[n - 1].meta.off = i
  <2>1. i < n /\ \A k \in LoopsOf(cs) : ~(i < k /\ k < n) BY <1>1, <1>3, <1>7, <1>10
  <2>2. i \in LoopsOf(cs) /\ n \in LoopsOf(cs) BY <1>7
  <2> QED BY <2>1, <2>2 DEF Linked
<1>11. ASSUME NEW i \in LoopsOf(ds), NEW j \in LoopsOf(ds), j < i,
              \A k \in LoopsOf(ds) : ~(j < k /\ k < i)
       PROVE  ds[i - 1].meta.off = j
  <2>1. i \in LoopsOf(cs) /\ j \in LoopsOf(cs) BY <1>7
  <2>2. \A k \in LoopsOf(cs) : ~(j < k /\ k < i) BY <1>1, <1>3, <1>7, <1>11
  <2>3. cs[i - 1].meta.off = j BY <1>11, <2>1, <2>2 DEF Linked
  <2>4. i - 1 \in 1 .. n - 2 BY <1>3, <1>7, <1>11
  <2> QED BY <1>4, <2>3, <2>4
<1>12. Linked(ds, cs[n - 1].meta.off) BY <1>10, <1>11 DEF Linked
<1> QED BY <1>1, <1>2, <1>3, <1>4, <1>6, <1>7, <1>8, <1>9, <1>12

\* LOOP_IND is a loop as long as one is open.
LEMMA LoopIndIs ==
  ASSUME StackInv, InLoop
  PROVE  loopInd \in LoopsOf(cells) /\ LoopMeta \in Metas
<1>1. LoopsOf(cells) \subseteq Nat /\ LoopsOf(cells) # {} /\ Len(cells) \in Nat
      /\ \A i \in LoopsOf(cells) : i <= Len(cells)
  BY DEF InLoop, LoopsOf, StackInv, CellsInv, Nested
<1>2. PICK n \in LoopsOf(cells) : \A m \in LoopsOf(cells) : m <= n
  BY <1>1, GreatestNatural
<1>3. loopInd = n BY <1>2 DEF StackInv, CellsInv, Linked
<1>4. cells[n] \in Frames BY DEF LoopsOf, StackInv, CellsInv, Nested
<1> QED BY <1>3, <1>4 DEF Frames, LoopMeta

LEMMA LoopIs ==
  ASSUME StackInv, Loop
  PROVE  /\ phase = "compile" /\ UNCHANGED <<code, phase>> /\ args' = Barrier(Len(args))
         /\ Nested(cells') /\ cells' # <<>> /\ Linked(cells', loopInd')
         /\ loopInd' = Len(cells) + 2 /\ Len(cells) \in Nat /\ Len(cells') = Len(cells) + 2
         /\ \A i \in 1 .. Len(cells) : cells'[i] = cells[i]
         /\ cells'[Len(cells) + 1].xt = "loop_frame_end"
         /\ cells'[Len(cells) + 2].xt = "loop_end"
         /\ cells'[Len(cells) + 2].meta.off = Len(code) + 1
         /\ LoopsOf(cells') = LoopsOf(cells) \cup {Len(cells) + 2}
         /\ aux' = Append(aux, Frame("nop", Meta(0, 0)))
<1>1. phase = "compile" BY DEF Loop, Token
<1>2. PICK m \in Metas : m = Meta(0, loopInd) /\ m.off = loopInd
  BY MetaIs DEF StackInv, CellsInv
<1>3. PICK k \in Metas : k = Meta(Len(args), Len(code) + 1) /\ k.off = Len(code) + 1
  <2>1. Len(args) \in Nat /\ Len(code) \in Nat BY SeqParts DEF StackInv, ArgsIn
  <2>2. Len(code) + 1 \in Nat BY <2>1
  <2> QED BY <2>1, <2>2, MetaIs
<1>4. PICK f \in Frames : f = Frame("loop_frame_end", m) /\ f.xt = "loop_frame_end"
                          /\ f.meta = m
  BY FrameIs DEF Kinds
<1>5. PICK g \in Frames : g = Frame("loop_end", k) /\ g.xt = "loop_end" /\ g.meta = k
  BY FrameIs DEF Kinds
<1>6. /\ cells' = cells \o <<f, g>> /\ loopInd' = Len(cells) + 2
      /\ aux' = Append(aux, Frame("nop", Meta(0, 0)))
      /\ UNCHANGED <<code, phase>> /\ args' = Barrier(Len(args))
  BY <1>2, <1>3, <1>4, <1>5 DEF Loop, LoopFrames, Looping
<1>7. cells # <<>> /\ Nested(cells) /\ Len(cells) \in Nat /\ Linked(cells, loopInd)
  BY <1>1, CellsOpen DEF StackInv, CellsInv
<1>8. /\ Nested(cells') /\ cells' # <<>> /\ Linked(cells', Len(cells) + 2)
      /\ Len(cells') = Len(cells) + 2 /\ cells'[Len(cells) + 2] = g
      /\ \A i \in 1 .. Len(cells) : cells'[i] = cells[i]
      /\ LoopsOf(cells') = LoopsOf(cells) \cup {Len(cells) + 2}
      /\ cells'[Len(cells) + 1].xt = "loop_frame_end"
  <2>1. f.meta.off = loopInd BY <1>2, <1>4
  <2>2. cells' = PushedFrames(cells, f, g) BY <1>6 DEF PushedFrames
  <2> QED BY <1>4, <1>5, <1>7, <2>1, <2>2, OpenLoop
<1> QED BY <1>1, <1>3, <1>5, <1>6, <1>7, <1>8

LEMMA LoopInv ==
  ASSUME StackInv, Loop
  PROVE  StackInv'
<1>1. Len(args) \in Nat BY DEF StackInv, ArgsIn
<1>2. /\ UNCHANGED code /\ args' = Barrier(Len(args)) /\ Nested(cells') /\ cells' # <<>>
      /\ Linked(cells', loopInd') /\ loopInd' \in Nat
  BY LoopIs
<1> QED BY <1>1, <1>2, BranchSteps DEF StackInv

\* What `leave' and `.while' do.
AuxStep(x, n, k) ==
  /\ x \in {"leave_end", "while_end"} /\ loopInd \in LoopsOf(cells)
  /\ ReservedLast(code, code', k)
  /\ Len(code') < Len(code) =>
       /\ code # <<>> /\ Last(code).op = "cset" /\ Last(code).reg = n
       /\ JoinTests \/ ~TestsAtJoin(n)
  /\ aux' = Append(aux, Frame(x, k))
  /\ args' = Barrier(n)
  /\ UNCHANGED <<cells, loopInd, phase>>

LEMMA LeaveIs ==
  ASSUME StackInv, Leave
  PROVE  phase = "compile" /\ \E n \in Nat, k \in Metas : AuxStep("leave_end", n, k)
<1>1. phase = "compile" /\ InLoop /\ LoopMeta.inp = Len(args) /\ Len(args) \in Nat
  BY DEF Leave, AuxOfLoop, Token, StackInv, ArgsIn
<1>2. PICK n \in Nat : n = Len(code) BY SeqParts DEF StackInv
<1>3. PICK k \in Metas : k = Meta(0, n + 1) /\ k.off = n + 1
  <2>1. n + 1 \in Nat OBVIOUS
  <2> QED BY <2>1, MetaIs
<1>4. code' = Append(code, Placeholder) BY DEF Leave
<1>5. ReservedLast(code, code', k) BY <1>2, <1>3, <1>4, CondBranchNew DEF StackInv
<1>6. Len(code') = n + 1 BY <1>2, <1>4, AppendParts DEF StackInv
<1>7. AuxStep("leave_end", Len(args), k)
  BY <1>1, <1>2, <1>3, <1>5, <1>6, LoopIndIs DEF AuxStep, Leave, Looping
<1> QED BY <1>1, <1>7

LEMMA WhileIs ==
  ASSUME StackInv, While
  PROVE  phase = "compile" /\ \E n \in Nat, k \in Metas : AuxStep("while_end", n, k)
<1>1. phase = "compile" /\ InLoop BY DEF While, AuxOfLoop, Token
<1>2. loopInd \in LoopsOf(cells) /\ LoopMeta \in Metas BY <1>1, LoopIndIs
<1>3. PICK n \in Nat : n = LoopMeta.inp BY <1>2 DEF Metas
<1>4. Len(args) - 1 = n
  <2>1. Len(args) = n + 1 BY <1>3 DEF While
  <2> QED BY <2>1
<1> DEFINE beg == CondBranchBeg(n, LoopMeta)
<1>5. /\ code' = beg.code /\ aux' = Append(aux, Frame("while_end", beg.meta))
      /\ args' = Barrier(n) /\ UNCHANGED <<cells, loopInd, phase>>
      /\ JoinTests \/ ~TestsAtJoin(n)
  BY <1>3, <1>4 DEF While, Looping
<1>6. /\ ReservedLast(code, beg.code, beg.meta)
      /\ Len(beg.code) < Len(code) =>
           code # <<>> /\ Last(code).op = "cset" /\ Last(code).reg = n
  BY <1>2, CondBranch DEF StackInv
<1> HIDE DEF beg
<1>7. PICK k \in Metas : k = beg.meta BY <1>6 DEF ReservedLast
<1>8. AuxStep("while_end", n, k) BY <1>2, <1>5, <1>6, <1>7 DEF AuxStep
<1> QED BY <1>1, <1>8

LEMMA AuxInv ==
  ASSUME StackInv, phase = "compile", NEW x, NEW n \in Nat, NEW k, AuxStep(x, n, k)
  PROVE  StackInv'
<1>1. IsSeq(code') /\ args' = Barrier(n) /\ UNCHANGED <<cells, loopInd>>
  BY DEF AuxStep, ReservedLast
<1>2. cells # <<>> BY CellsOpen
<1> QED BY <1>1, <1>2, BranchSteps DEF StackInv, CellsInv

LEMMA AgainInv ==
  ASSUME StackInv, Again
  PROVE  StackInv'
<1>1. phase = "compile" /\ Len(args) \in Nat BY DEF Again, AuxOfLoop, Token, StackInv, ArgsIn
<1>2. IsSeq(code') BY AppendParts DEF Again, StackInv
<1>3. args' = Barrier(Len(args)) /\ UNCHANGED <<cells, loopInd>> BY DEF Again
<1>4. cells # <<>> BY <1>1, CellsOpen
<1> QED BY <1>1, <1>2, <1>3, <1>4, BranchSteps DEF StackInv, CellsInv

LEMMA EndLoopIs ==
  ASSUME StackInv, EndLoop
  PROVE  /\ phase = "compile" /\ Last(cells).xt = "loop_end" /\ cells # <<>>
         /\ Nested(cells') /\ cells' # <<>> /\ Linked(cells', loopInd') /\ loopInd' \in Nat
         /\ Len(cells) \in Nat /\ Len(cells) > 2 /\ Len(cells') = Len(cells) - 2
         /\ \A i \in 1 .. Len(cells') : cells'[i] = cells[i]
         /\ LoopsOf(cells) = LoopsOf(cells') \cup {Len(cells)}
         /\ LoopsOf(cells') \subseteq 1 .. Len(cells) - 2
         /\ cells[Len(cells) - 1].xt = "loop_frame_end"
<1>1. /\ phase = "compile" /\ cells' = WithoutTwo(cells)
      /\ loopInd' = cells[Len(cells) - 1].meta.off /\ Last(cells).xt = "loop_end"
  BY DEF EndLoop, Token, Top, WithoutTwo
<1>2. cells # <<>> /\ Nested(cells) /\ Linked(cells, loopInd)
  BY <1>1, CellsOpen DEF StackInv, CellsInv
<1> QED BY <1>1, <1>2, CloseLoop

LEMMA EndLoopInv ==
  ASSUME StackInv, EndLoop
  PROVE  StackInv'
<1>1. Len(args) \in Nat BY DEF StackInv, ArgsIn
<1>2. IsSeq(code')
  <2>1. IsSeq(Append(code, Branch(Top.meta.off))) BY AppendParts DEF StackInv
  <2> QED BY <2>1, PatchParts DEF EndLoop
<1>3. args' = Barrier(Len(args)) BY DEF EndLoop
<1>4. Nested(cells') /\ cells' # <<>> /\ Linked(cells', loopInd') /\ loopInd' \in Nat
  BY EndLoopIs
<1> QED BY <1>1, <1>2, <1>3, <1>4, BranchSteps

-----------------------------------------------------------------------------
(* Words *)

LEMMA ReturnInv ==
  ASSUME StackInv, Return
  PROVE  StackInv'
<1>1. IsSeq(code') BY AppendParts DEF Return, StackInv
<1>2. ArgsIn(args', code')
  <2>1. args' \in Seq(Args) /\ Len(args') = 0 BY DEF Return
  <2> QED BY <2>1 DEF ArgsIn
<1>3. UNCHANGED <<cells, loopInd, phase>> BY DEF Return, Straight
<1> QED BY <1>1, <1>2, <1>3, ValueSteps

LEMMA EndWordIs ==
  ASSUME StackInv, EndWord
  PROVE  /\ phase = "compile" /\ phase' = "run" /\ Len(cells) = 1 /\ cells' = <<>>
         /\ Nested(cells) /\ cells[1].xt = "semicolon"
<1>1. phase = "compile" /\ phase' = "run" /\ Top.xt = "semicolon" /\ cells' = Front(cells)
  BY DEF EndWord, Token
<1>2. Len(cells) = 1 /\ Nested(cells) /\ cells[1].xt = "semicolon" BY <1>1, CellsOpen
<1>3. cells' = <<>>
  <2>1. cells \in Seq(Frames) BY <1>2 DEF Nested
  <2>2. SubSeq(cells, 1, Len(cells) - 1) = <<>> BY <1>2, <2>1
  <2> QED BY <1>1, <2>2 DEF Front
<1> QED BY <1>1, <1>2, <1>3

LEMMA NoFrames ==
  ASSUME NEW ind
  PROVE  Nested(<<>>) /\ Linked(<<>>, ind) /\ LoopsOf(<<>>) = {}
<1>1. LoopsOf(<<>>) = {} BY DEF LoopsOf
<1> QED BY <1>1 DEF Nested, Linked

LEMMA EndWordInv ==
  ASSUME StackInv, EndWord
  PROVE  StackInv'
<1>1. PICK x : code' = Append(code, x) /\ args' = args /\ loopInd' = loopInd
  BY DEF EndWord
<1>2. IsSeq(code') /\ ArgsIn(args', code') BY <1>1, ArgsAppendCode DEF StackInv
<1>3. CellsInv'
  <2>1. phase' = "run" /\ cells' = <<>> BY EndWordIs
  <2> QED BY <1>1, <2>1, NoFrames DEF CellsInv, StackInv
<1> QED BY <1>2, <1>3 DEF StackInv

\* The stack of a new word.
LEMMA NewWord ==
  ASSUME NEW cs, cs = <<Frame("semicolon", Meta(0, 0))>>, NEW ind
  PROVE  /\ Nested(cs) /\ Linked(cs, ind) /\ LoopsOf(cs) = {} /\ cs # <<>>
         /\ Len(cs) = 1 /\ cs[1].xt = "semicolon"
<1>1. PICK f \in Frames : f = Frame("semicolon", Meta(0, 0)) /\ f.xt = "semicolon"
  <2>1. Meta(0, 0) \in Metas BY MetaIs
  <2> QED BY <2>1, FrameIs DEF Kinds
<1>2. cs \in Seq(Frames) /\ DOMAIN cs = {1} /\ cs[1] = f /\ Len(cs) = 1 /\ cs # <<>>
  BY <1>1
<1>3. LoopsOf(cs) = {} BY <1>1, <1>2 DEF LoopsOf
<1>4. Nested(cs) BY <1>1, <1>2 DEF Nested, BranchFrames
<1> QED BY <1>1, <1>2, <1>3, <1>4 DEF Linked

LEMMA NothingCompiled ==
  ASSUME NEW c, c = <<>>, NEW ar, ar = <<>>
  PROVE  IsSeq(c) /\ ArgsIn(ar, c)
<1>1. ar \in Seq(Args) /\ Len(ar) = 0 OBVIOUS
<1> QED BY <1>1, EmptyParts DEF ArgsIn

LEMMA FailInv ==
  ASSUME StackInv, Fail
  PROVE  StackInv'
<1>1. IsSeq(code') /\ ArgsIn(args', code') BY NothingCompiled DEF Fail
<1>2. cells' = <<Frame("semicolon", Meta(0, 0))>> /\ loopInd' \in Nat
  BY DEF Fail, StackInv, CellsInv
<1>3. CellsInv' BY <1>2, NewWord DEF CellsInv
<1> QED BY <1>1, <1>3 DEF StackInv

\* A word which runs is not compiled any more.
LEMMA RunSteps ==
  ASSUME SourceStep \/ MachStep \/ Both
  PROVE  UNCHANGED compVars /\ phase = "run" /\ phase' \in {"run", "done"}
BY DEF SourceStep, MachStep, Both, Running

LEMMA RunInv ==
  ASSUME StackInv, SourceStep \/ MachStep \/ Both
  PROVE  StackInv'
<1>1. UNCHANGED compVars /\ phase' # "compile" BY RunSteps
<1>2. IsSeq(code') /\ ArgsIn(args', code') BY <1>1 DEF StackInv, compVars
<1>3. CellsInv' BY <1>1 DEF StackInv, CellsInv, compVars
<1> QED BY <1>2, <1>3 DEF StackInv

LEMMA StackInvInvariant == Spec => []StackInv
<1>1. Init => StackInv
  <2> SUFFICES ASSUME Init PROVE StackInv OBVIOUS
  <2>1. IsSeq(code) /\ ArgsIn(args, code) BY NothingCompiled DEF Init
  <2>2. cells = <<Frame("semicolon", Meta(0, 0))>> /\ loopInd = 0 BY DEF Init
  <2>3. CellsInv BY <2>2, NewWord DEF CellsInv
  <2> QED BY <2>1, <2>3 DEF StackInv
<1>2. StackInv /\ [Next]_vars => StackInv'
  <2> SUFFICES ASSUME StackInv, [Next]_vars PROVE StackInv' OBVIOUS
  <2>1. CASE Load BY <2>1, LoadInv
  <2>2. CASE Store BY <2>2, StoreInv
  <2>3. CASE Constant(0) \/ Constant(1) BY <2>3, ConstantInv
  <2>4. CASE EqZero BY <2>4, EqZeroInv
  <2>5. CASE Equal BY <2>5, EqualInv
  <2>6. CASE Then BY <2>6, ThenInv
  <2>7. CASE Else BY <2>7, ElseIs, CloseInv
  <2>8. CASE Elif BY <2>8, ElifIs, CloseInv
  <2>9. CASE EndBranch BY <2>9, EndBranchInv
  <2>10. CASE Loop BY <2>10, LoopInv
  <2>11. CASE Leave BY <2>11, LeaveIs, AuxInv
  <2>12. CASE While BY <2>12, WhileIs, AuxInv
  <2>13. CASE Again BY <2>13, AgainInv
  <2>14. CASE EndLoop BY <2>14, EndLoopInv
  <2>15. CASE Return BY <2>15, ReturnInv
  <2>16. CASE EndWord BY <2>16, EndWordInv
  <2>17. CASE Fail BY <2>17, FailInv
  <2>18. CASE SourceStep \/ MachStep \/ Both BY <2>18, RunInv
  <2>19. CASE UNCHANGED vars
    <3>1. UNCHANGED <<code, args, cells, loopInd, phase>> BY <2>19 DEF vars, compVars
    <3>2. CellsInv' BY <3>1 DEF StackInv, CellsInv
    <3> QED BY <3>1, <3>2 DEF StackInv
  <2> QED BY <2>1, <2>2, <2>3, <2>4, <2>5, <2>6, <2>7, <2>8, <2>9, <2>10, <2>11, <2>12,
             <2>13, <2>14, <2>15, <2>16, <2>17, <2>18, <2>19 DEF Next, Compile
<1> QED BY <1>1, <1>2, PTL DEF Spec

\* lang.af, .loop_frame_init, .loop_frame_end_xt: however words nest loops, and
\* whatever was given up in the middle of some, LOOP_IND is the innermost open
\* loop and the frames lead outwards.
THEOREM LoopsAreLinked == Spec => []InnermostLoop
<1>1. StackInv => InnermostLoop
  <2> SUFFICES ASSUME StackInv PROVE InnermostLoop OBVIOUS
  <2>1. Linked(cells, loopInd) BY DEF StackInv, CellsInv
  <2> QED BY <2>1 DEF Linked, LoopsOf, InnermostLoop
<1> QED BY <1>1, StackInvInvariant, PTL

-----------------------------------------------------------------------------
(* What is reserved *)

\* Frames which patch the instruction they reserved.  That of a condition of an
\* `elif' which is not known yet patches nothing: the frame below it does.
Patchers == {"then_end", "else_end", "cond_chain_end"}
AuxFrames == [xt : {"nop", "leave_end", "while_end"}, meta : Metas]

\* Above what was left on LOOP_AUX by words given up, there is one nop for each
\* open loop, and nothing below the first of them.
Marks(cs, ax, base, g) ==
  /\ base \in 0 .. Len(ax)
  /\ g \in [LoopsOf(cs) -> base + 1 .. Len(ax)]
  /\ \A i, j \in LoopsOf(cs) : i < j => g[i] < g[j]
  /\ \A k \in base + 1 .. Len(ax) : ax[k].xt = "nop" => \E i \in LoopsOf(cs) : g[i] = k
  /\ \A i \in LoopsOf(cs) : ax[g[i]].xt = "nop"
  /\ base < Len(ax) => ax[base + 1].xt = "nop"

\* Frames hold what is reserved, and all of it.
Held(c, cs, ax, base) ==
  /\ \A i \in DOMAIN cs : cs[i].xt \in BranchFrames => Reserved(c, cs[i].meta.off)
  /\ \A k \in base + 1 .. Len(ax) : ax[k].xt # "nop" => Reserved(c, ax[k].meta.off)
  /\ \A p \in 1 .. Len(c) : c[p].op = "brk" =>
       \/ \E i \in DOMAIN cs : cs[i].xt \in Patchers /\ cs[i].meta.off = p
       \/ \E k \in base + 1 .. Len(ax) : ax[k].xt # "nop" /\ ax[k].meta.off = p

Tracked(c, cs, ax) == \E base, g : Marks(cs, ax, base, g) /\ Held(c, cs, ax, base)

\* No branch and no loop leads beyond n.
LabelsIn(c, cs, n) ==
  /\ \A p \in 1 .. Len(c) : "to" \in DOMAIN c[p] => c[p].to \in 1 .. n
  /\ \A i \in LoopsOf(cs) : cs[i].meta.off \in 1 .. n

\* In particular, none leads behind a constant which may be folded.
Labels(c, cs, ar) ==
  /\ LabelsIn(c, cs, Len(c) + 1)
  /\ \A i \in 1 .. Len(ar) : Known(ar[i]) => LabelsIn(c, cs, ar[i].ceil)

PatchInv ==
  /\ aux \in Seq(AuxFrames)
  /\ phase = "compile" => Tracked(code, cells, aux) /\ Labels(code, cells, args)
  /\ AllPatched

LEMMA LabelsMore ==
  ASSUME NEW c, NEW cs, NEW n \in Nat, NEW m \in Nat, n <= m, LabelsIn(c, cs, n)
  PROVE  LabelsIn(c, cs, m)
BY DEF LabelsIn

\* A step of the code which keeps what is reserved.
Keeps(c, d) == \A p \in 1 .. Len(c) : Reserved(c, p) => Reserved(d, p)

\* The stack is pushed on its first n frames, and those above patched nothing or
\* were patched.
Sharing(cs, ds, n) ==
  /\ Len(cs) \in Nat /\ DOMAIN cs = 1 .. Len(cs)
  /\ Len(ds) \in Nat /\ DOMAIN ds = 1 .. Len(ds)
  /\ n \in Nat /\ n <= Len(cs) /\ n <= Len(ds)
  /\ \A i \in 1 .. n : ds[i] = cs[i]

ReservedAbove(d, ds, n) ==
  \A i \in n + 1 .. Len(ds) : ds[i].xt \in BranchFrames => Reserved(d, ds[i].meta.off)

BrkAbove(c, d, cs, ds, n) ==
  \A p \in 1 .. Len(d) : d[p].op = "brk" =>
    \/ \E i \in n + 1 .. Len(ds) : ds[i].xt \in Patchers /\ ds[i].meta.off = p
    \/ /\ p \in 1 .. Len(c) /\ c[p].op = "brk"
       /\ \A i \in n + 1 .. Len(cs) : cs[i].xt \in Patchers => cs[i].meta.off # p

LEMMA HeldPushed ==
  ASSUME NEW c, NEW d, NEW cs, NEW ds, NEW ax, NEW base, NEW n,
         Held(c, cs, ax, base), Keeps(c, d), Sharing(cs, ds, n),
         ReservedAbove(d, ds, n), BrkAbove(c, d, cs, ds, n)
  PROVE  Held(d, ds, ax, base)
<1>0. /\ Len(cs) \in Nat /\ DOMAIN cs = 1 .. Len(cs)
      /\ Len(ds) \in Nat /\ DOMAIN ds = 1 .. Len(ds)
      /\ n \in Nat /\ n <= Len(cs) /\ n <= Len(ds)
      /\ \A i \in 1 .. n : ds[i] = cs[i]
  BY DEF Sharing
<1>1. \A p : Reserved(c, p) => Reserved(d, p) BY DEF Keeps, Reserved
<1>2. ASSUME NEW i \in DOMAIN ds, ds[i].xt \in BranchFrames
      PROVE  Reserved(d, ds[i].meta.off)
  <2>1. CASE i \in n + 1 .. Len(ds) BY <1>2, <2>1 DEF ReservedAbove
  <2>2. CASE i \in 1 .. n
    <3>1. i \in DOMAIN cs /\ ds[i] = cs[i] BY <1>0, <2>2
    <3> QED BY <1>1, <1>2, <3>1 DEF Held
  <2> QED BY <1>0, <1>2, <2>1, <2>2
<1>3. \A k \in base + 1 .. Len(ax) : ax[k].xt # "nop" => Reserved(d, ax[k].meta.off)
  BY <1>1 DEF Held
<1>4. ASSUME NEW p \in 1 .. Len(d), d[p].op = "brk"
      PROVE  \/ \E i \in DOMAIN ds : ds[i].xt \in Patchers /\ ds[i].meta.off = p
             \/ \E k \in base + 1 .. Len(ax) : ax[k].xt # "nop" /\ ax[k].meta.off = p
  <2>1. CASE \E i \in n + 1 .. Len(ds) : ds[i].xt \in Patchers /\ ds[i].meta.off = p
    <3>1. PICK i \in n + 1 .. Len(ds) : ds[i].xt \in Patchers /\ ds[i].meta.off = p
      BY <2>1
    <3>2. i \in DOMAIN ds BY <1>0, <3>1
    <3> QED BY <3>1, <3>2
  <2>2. CASE /\ p \in 1 .. Len(c) /\ c[p].op = "brk"
             /\ \A i \in n + 1 .. Len(cs) : cs[i].xt \in Patchers => cs[i].meta.off # p
    <3>1. CASE \E i \in DOMAIN cs : cs[i].xt \in Patchers /\ cs[i].meta.off = p
      <4>1. PICK i \in DOMAIN cs : cs[i].xt \in Patchers /\ cs[i].meta.off = p BY <3>1
      <4>2. i \in 1 .. n BY <1>0, <2>2, <4>1
      <4>3. i \in DOMAIN ds /\ ds[i] = cs[i] BY <1>0, <4>2
      <4> QED BY <4>1, <4>3
    <3>2. CASE \E k \in base + 1 .. Len(ax) : ax[k].xt # "nop" /\ ax[k].meta.off = p
      BY <3>2
    <3> QED BY <2>2, <3>1, <3>2 DEF Held
  <2> QED BY <1>4, <2>1, <2>2 DEF BrkAbove
<1> QED BY <1>2, <1>3, <1>4 DEF Held

\* No place is reserved anew.
NoNewBrk(c, d) ==
  \A p \in 1 .. Len(d) : d[p].op = "brk" => p \in 1 .. Len(c) /\ c[p].op = "brk"

LEMMA HeldKept ==
  ASSUME NEW c, NEW d, NEW cs, NEW ax, NEW base,
         Held(c, cs, ax, base), Keeps(c, d), NoNewBrk(c, d)
  PROVE  Held(d, cs, ax, base)
<1>1. \A p : Reserved(c, p) => Reserved(d, p) BY DEF Keeps, Reserved
<1>2. \A p \in 1 .. Len(d) : d[p].op = "brk" => p \in 1 .. Len(c) /\ c[p].op = "brk"
  BY DEF NoNewBrk
<1> QED BY <1>1, <1>2 DEF Held

LEMMA MarksSame ==
  ASSUME NEW cs, NEW ds, NEW ax, NEW base, NEW g, Marks(cs, ax, base, g),
         LoopsOf(ds) = LoopsOf(cs)
  PROVE  Marks(ds, ax, base, g)
BY DEF Marks

LEMMA LabelsSame ==
  ASSUME NEW c, NEW cs, NEW ds, NEW n, LabelsIn(c, cs, n), LoopsOf(ds) = LoopsOf(cs),
         \A i \in LoopsOf(cs) : ds[i] = cs[i]
  PROVE  LabelsIn(c, ds, n)
BY DEF LabelsIn

\* Code which grows on its first floor instructions, while only constants are
\* taken back.
Regrown(c, d, floor) ==
  /\ IsSeq(c) /\ IsSeq(d) /\ floor \in 0 .. Len(c) /\ floor <= Len(d)
  /\ \A p \in 1 .. floor : d[p] = c[p]
  /\ \A p \in floor + 1 .. Len(c) : c[p].op = "mov"

LEMMA RegrownKeeps ==
  ASSUME NEW c, NEW d, NEW floor, Regrown(c, d, floor)
  PROVE  Keeps(c, d)
<1>1. Len(c) \in Nat /\ Len(d) \in Nat /\ floor \in 0 .. Len(c) /\ floor <= Len(d)
  BY SeqParts DEF Regrown
<1>2. ASSUME NEW p \in 1 .. Len(c), Reserved(c, p) PROVE Reserved(d, p)
  <2>1. p \in 1 .. floor
    <3>1. c[p].op # "mov" BY <1>2 DEF Reserved
    <3> QED BY <1>1, <3>1 DEF Regrown
  <2>2. d[p] = c[p] /\ (p >= 2 => d[p - 1] = c[p - 1]) BY <1>1, <2>1 DEF Regrown
  <2> QED BY <1>1, <1>2, <2>1, <2>2 DEF Reserved, Fusable
<1> QED BY <1>2 DEF Keeps

\* An instruction which neither branches nor waits for it.
Plain(x) == x.op # "brk" /\ "to" \notin DOMAIN x

\* A step which adds plain instructions.
LEMMA ValueTracked ==
  ASSUME StackInv, PatchInv, phase = "compile", UNCHANGED <<cells, aux, phase>>,
         NEW floor, Regrown(code, code', floor),
         \A p \in floor + 1 .. Len(code') : Plain(code'[p]),
         LabelsIn(code, cells, Len(code') + 1),
         \A i \in 1 .. Len(args') : Known(args'[i]) => LabelsIn(code, cells, args'[i].ceil)
  PROVE  PatchInv'
<1>1. /\ Len(code) \in Nat /\ Len(code') \in Nat
      /\ floor \in 0 .. Len(code) /\ floor <= Len(code')
  BY SeqParts DEF Regrown
<1>2. ASSUME NEW p \in 1 .. Len(code')
      PROVE  Plain(code'[p]) \/ (p \in 1 .. Len(code) /\ code'[p] = code[p])
  <2>1. CASE p \in 1 .. floor BY <1>1, <2>1 DEF Regrown
  <2>2. CASE p \in floor + 1 .. Len(code') BY <2>2
  <2> QED BY <1>1, <2>1, <2>2
<1>3. ASSUME NEW n, LabelsIn(code, cells, n) PROVE LabelsIn(code', cells, n)
  BY <1>2, <1>3 DEF LabelsIn, Plain
<1>4. Labels(code', cells', args') BY <1>3 DEF Labels
<1>5. Tracked(code', cells', aux')
  <2>1. PICK base, g : Marks(cells, aux, base, g) /\ Held(code, cells, aux, base)
    BY DEF PatchInv, Tracked
  <2>3. ASSUME NEW p \in 1 .. Len(code'), code'[p].op = "brk"
        PROVE  p \in 1 .. Len(code) /\ code[p].op = "brk"
    BY <1>2, <2>3 DEF Plain
  <2>4. Held(code', cells, aux, base)
    <3>1. Keeps(code, code') BY RegrownKeeps
    <3>2. NoNewBrk(code, code') BY <2>3 DEF NoNewBrk
    <3> QED BY <2>1, <3>1, <3>2, HeldKept
  <2> QED BY <2>1, <2>4 DEF Tracked
<1>6. AllPatched' BY DEF AllPatched
<1> QED BY <1>4, <1>5, <1>6 DEF PatchInv

LEMMA PlainOnes ==
  /\ \A r, n : Plain(Mov(r, n)) /\ Mov(r, n).op = "mov"
  /\ \A r, n : Plain(CmpImm(r, n))
  /\ \A r, n : Plain(CmpReg(r, n))
  /\ \A r, c : Plain(Cset(r, c))
<1>1. \A r, n : Plain(Mov(r, n)) /\ Mov(r, n).op = "mov" BY DEF Plain, Mov
<1>2. \A r, n : Plain(CmpImm(r, n)) BY DEF Plain, CmpImm
<1>3. \A r, n : Plain(CmpReg(r, n)) BY DEF Plain, CmpReg
<1>4. \A r, c : Plain(Cset(r, c)) BY DEF Plain, Cset
<1> QED BY <1>1, <1>2, <1>3, <1>4

LEMMA PlainAccess ==
  ASSUME NEW op, op # "brk", NEW r
  PROVE  Plain(Access(op, r))
BY DEF Plain, Access

\* Code to which one instruction is added.
Grown(c, x, d) ==
  /\ d = Append(c, x) /\ Regrown(c, d, Len(c)) /\ Len(d) = Len(c) + 1 /\ Len(c) \in Nat
  /\ IsSeq(d) /\ d[Len(c) + 1] = x

LEMMA RegrownByOne ==
  ASSUME NEW c, IsSeq(c), NEW x, NEW d, d = Append(c, x)
  PROVE  Grown(c, x, d)
<1>1. PICK n \in Nat : n = Len(c) BY SeqParts
<1>2. /\ IsSeq(d) /\ Len(d) = n + 1 /\ d[n + 1] = x /\ \A p \in 1 .. n : d[p] = c[p]
  BY <1>1, AppendParts
<1> QED BY <1>1, <1>2 DEF Regrown, Grown

LEMMA Regrowing ==
  ASSUME NEW c, IsSeq(c), NEW x
  PROVE  \E d : Grown(c, x, d)
<1>1. PICK d : d = Append(c, x) OBVIOUS
<1> QED BY <1>1, RegrownByOne

\* One plain instruction is added, and no constant.
LEMMA AppendTracked ==
  ASSUME StackInv, PatchInv, phase = "compile", UNCHANGED <<cells, aux, phase>>,
         NEW x, Plain(x), code' = Append(code, x),
         \A i \in 1 .. Len(args') : Known(args'[i]) =>
           args'[i] = Imm(args'[i].num, Len(code))
           \/ (i \in 1 .. Len(args) /\ args'[i] = args[i])
  PROVE  PatchInv'
<1>1. PICK n \in Nat :
        /\ n = Len(code) /\ Regrown(code, code', n) /\ Len(code') = n + 1
        /\ code'[n + 1] = x
  <2>1. IsSeq(code) BY DEF StackInv
  <2>2. PICK d : d = code' /\ Grown(code, x, d) BY <2>1, RegrownByOne
  <2> QED BY <2>2 DEF Grown
<1>2. \A p \in n + 1 .. Len(code') : Plain(code'[p]) BY <1>1
<1>3. LabelsIn(code, cells, n + 1) BY <1>1 DEF PatchInv, Labels
<1>4. LabelsIn(code, cells, Len(code') + 1)
  <2>1. n + 1 \in Nat /\ n + 2 \in Nat /\ n + 1 <= n + 2 OBVIOUS
  <2>2. LabelsIn(code, cells, n + 2) BY <1>3, <2>1, LabelsMore
  <2>3. Len(code') + 1 = n + 2 BY <1>1
  <2> QED BY <2>2, <2>3
<1>5. ASSUME NEW i \in 1 .. Len(args'), Known(args'[i])
      PROVE  LabelsIn(code, cells, args'[i].ceil)
  <2>1. CASE args'[i] = Imm(args'[i].num, Len(code))
    <3>1. args'[i].ceil = n + 1 BY <1>1, <2>1 DEF Imm
    <3> QED BY <1>3, <3>1
  <2>2. CASE i \in 1 .. Len(args) /\ args'[i] = args[i]
    BY <1>5, <2>2 DEF PatchInv, Labels
  <2> QED BY <1>5, <2>1, <2>2
<1> QED BY <1>1, <1>2, <1>4, <1>5, ValueTracked

LEMMA LoadTracked ==
  ASSUME StackInv, PatchInv, Load
  PROVE  PatchInv'
<1>1. phase = "compile" /\ UNCHANGED <<cells, aux, phase>> BY DEF Load, Token, Straight
<1>2. PICK x : Plain(x) /\ code' = Append(code, x) BY PlainAccess DEF Load
<1>3. ASSUME NEW i \in 1 .. Len(args'), Known(args'[i])
      PROVE  i \in 1 .. Len(args) /\ args'[i] = args[i]
  <2>1. args \in Seq(Args) /\ args' = Append(args, Unknown) BY DEF Load, StackInv, ArgsIn
  <2>2. CASE i = Len(args) + 1
    <3>1. args'[i] = Unknown BY <2>1, <2>2
    <3> QED BY <1>3, <3>1, UnknownIsArg
  <2>3. CASE i \in 1 .. Len(args) BY <2>1, <2>3
  <2> QED BY <2>1, <2>2, <2>3
<1> QED BY <1>1, <1>2, <1>3, AppendTracked

LEMMA StoreTracked ==
  ASSUME StackInv, PatchInv, Store
  PROVE  PatchInv'
<1>1. phase = "compile" /\ UNCHANGED <<cells, aux, phase>> BY DEF Store, Token, Straight
<1>2. PICK x : Plain(x) /\ code' = Append(code, x) BY PlainAccess DEF Store
<1>3. ASSUME NEW i \in 1 .. Len(args') PROVE i \in 1 .. Len(args) /\ args'[i] = args[i]
  <2>1. ArgsIn(args, code) /\ Len(args) - 1 \in 0 .. Len(args) /\ Len(args) \in Nat
    BY DEF Store, StackInv, ArgsIn
  <2>2. args' = SubSeq(args, 1, Len(args) - 1) BY DEF Store, Front
  <2>3. /\ Len(args') = Len(args) - 1
        /\ \A j \in 1 .. Len(args) - 1 : args'[j] = args[j]
    BY <2>1, <2>2, ArgsPrefix
  <2> QED BY <2>1, <2>3
<1> QED BY <1>1, <1>2, <1>3, AppendTracked

LEMMA ConstantTracked ==
  ASSUME StackInv, PatchInv, NEW n \in Nat, Constant(n)
  PROVE  PatchInv'
<1>1. phase = "compile" /\ UNCHANGED <<cells, aux, phase>>
  BY DEF Constant, Token, Straight
<1>2. PICK x : Plain(x) /\ code' = Append(code, x) BY PlainOnes DEF Constant
<1>3. ASSUME NEW i \in 1 .. Len(args'), Known(args'[i])
      PROVE  \/ args'[i] = Imm(args'[i].num, Len(code))
             \/ i \in 1 .. Len(args) /\ args'[i] = args[i]
  <2>1. args \in Seq(Args) /\ args' = Append(args, Imm(n, Len(code)))
    BY DEF Constant, StackInv, ArgsIn
  <2>2. CASE i = Len(args) + 1
    <3>1. args'[i] = Imm(n, Len(code)) BY <2>1, <2>2
    <3>2. args'[i].num = n BY <3>1 DEF Imm
    <3> QED BY <3>1, <3>2
  <2>3. CASE i \in 1 .. Len(args) BY <2>1, <2>3
  <2> QED BY <2>1, <2>2, <2>3
<1> QED BY <1>1, <1>2, <1>3, AppendTracked

LEMMA ReturnTracked ==
  ASSUME StackInv, PatchInv, Return
  PROVE  PatchInv'
<1>1. phase = "compile" /\ UNCHANGED <<cells, aux, phase>> BY DEF Return, Token, Straight
<1>2. PICK x : Plain(x) /\ code' = Append(code, x) BY PlainAccess DEF Return
<1>3. \A i \in 1 .. Len(args') : FALSE
  <2>1. args' = <<>> BY DEF Return
  <2> QED BY <2>1
<1> QED BY <1>1, <1>2, <1>3, AppendTracked

\* Constants down to floor are taken back.
LEMMA FoldDoneTracked ==
  ASSUME StackInv, PatchInv, phase = "compile", UNCHANGED <<cells, aux, phase>>,
         NEW floor \in 0 .. Len(code), NEW r \in 0 .. Len(args), NEW n \in Nat,
         \A p \in floor + 1 .. Len(code) : code[p].op = "mov",
         LabelsIn(code, cells, floor + 1), FoldDone(floor, r, n)
  PROVE  PatchInv'
<1> DEFINE c == SubSeq(code, 1, floor)
           bs == SubSeq(args, 1, r)
<1>1. /\ IsSeq(code) /\ ArgsIn(args, code) /\ Len(args) \in Nat /\ floor \in Nat
      /\ Len(code) \in Nat
  BY SeqParts DEF StackInv, ArgsIn
<1>2. IsSeq(c) /\ Len(c) = floor /\ \A p \in 1 .. floor : c[p] = code[p]
  BY <1>1, PrefixParts
<1>3. ArgsIn(bs, code) /\ Len(bs) = r /\ \A i \in 1 .. r : bs[i] = args[i]
  BY <1>1, ArgsPrefix
<1>4. code' = Append(c, Mov(r, n)) /\ args' = Append(bs, Imm(n, floor)) BY DEF FoldDone
<1> HIDE DEF c, bs
<1>5. /\ IsSeq(code') /\ Len(code') = floor + 1 /\ code'[floor + 1] = Mov(r, n)
      /\ \A p \in 1 .. floor : code'[p] = code[p]
  BY <1>2, <1>4, AppendParts
<1>6. Regrown(code, code', floor) BY <1>1, <1>5 DEF Regrown
<1>7. \A p \in floor + 1 .. Len(code') : Plain(code'[p])
  <2>1. Plain(code'[floor + 1]) BY <1>5, PlainOnes
  <2> QED BY <1>1, <1>5, <2>1
<1>8. LabelsIn(code, cells, Len(code') + 1)
  <2>1. floor + 1 \in Nat /\ floor + 2 \in Nat /\ floor + 1 <= floor + 2 BY <1>1
  <2>2. LabelsIn(code, cells, floor + 2) BY <2>1, LabelsMore
  <2>3. Len(code') + 1 = floor + 2 BY <1>1, <1>5
  <2> QED BY <2>2, <2>3
<1>9. ASSUME NEW i \in 1 .. Len(args'), Known(args'[i])
      PROVE  LabelsIn(code, cells, args'[i].ceil)
  <2>1. bs \in Seq(Args) BY <1>3 DEF ArgsIn
  <2>2. CASE i = r + 1
    <3>1. args'[i] = Imm(n, floor) BY <1>3, <1>4, <2>1, <2>2
    <3>2. args'[i].ceil = floor + 1 BY <3>1 DEF Imm
    <3> QED BY <3>2
  <2>3. CASE i \in 1 .. r
    <3>1. args'[i] = bs[i] BY <1>3, <1>4, <2>1, <2>3
    <3>2. i \in 1 .. Len(args) /\ args'[i] = args[i] BY <1>1, <1>3, <2>3, <3>1
    <3> QED BY <1>9, <3>2 DEF PatchInv, Labels
  <2>4. Len(args') = r + 1 BY <1>3, <1>4, <2>1
  <2> QED BY <1>1, <2>2, <2>3, <2>4
<1> QED BY <1>6, <1>7, <1>8, <1>9, ValueTracked

WithPair(c, x, y) == c \o <<x, y>>

LEMMA PairAdded ==
  ASSUME NEW c, IsSeq(c), NEW n \in Nat, n = Len(c), NEW x, NEW y,
         NEW d, d = WithPair(c, x, y)
  PROVE  /\ IsSeq(d) /\ Len(d) = n + 2 /\ d[n + 1] = x /\ d[n + 2] = y
         /\ \A p \in 1 .. n : d[p] = c[p]
<1>1. PICK S : c \in Seq(S) BY DEF IsSeq
<1> DEFINE R == S \cup {x, y}
<1>2. c \in Seq(R) /\ <<x, y>> \in Seq(R) BY <1>1
<1>3. d \in Seq(R) BY <1>2 DEF WithPair
<1>4. IsSeq(d) BY <1>3 DEF IsSeq
<1> QED BY <1>2, <1>4 DEF WithPair

LEMMA CompareIntoTracked ==
  ASSUME StackInv, PatchInv, phase = "compile", UNCHANGED <<cells, aux, phase>>,
         NEW floor \in 0 .. Len(code), NEW r \in 0 .. Len(args), NEW cmp, Plain(cmp),
         \A p \in floor + 1 .. Len(code) : code[p].op = "mov",
         LabelsIn(code, cells, floor + 1), CompareInto(floor, r, cmp)
  PROVE  PatchInv'
<1> DEFINE c == SubSeq(code, 1, floor)
           bs == SubSeq(args, 1, r)
           more == <<cmp, Cset(r, "eq")>>
<1>1. /\ IsSeq(code) /\ ArgsIn(args, code) /\ Len(args) \in Nat /\ floor \in Nat
      /\ Len(code) \in Nat
  BY SeqParts DEF StackInv, ArgsIn
<1>2. IsSeq(c) /\ Len(c) = floor /\ \A p \in 1 .. floor : c[p] = code[p]
  BY <1>1, PrefixParts
<1>3. ArgsIn(bs, code) /\ Len(bs) = r /\ \A i \in 1 .. r : bs[i] = args[i]
  BY <1>1, ArgsPrefix
<1>5. code' = c \o more /\ args' = Append(bs, Unknown) BY DEF CompareInto
<1> HIDE DEF c, bs, more
<1>6. /\ IsSeq(code') /\ Len(code') = floor + 2
      /\ code'[floor + 1] = cmp /\ code'[floor + 2] = Cset(r, "eq")
      /\ \A p \in 1 .. floor : code'[p] = code[p]
  <2>1. code' = WithPair(c, cmp, Cset(r, "eq")) BY <1>5 DEF more, WithPair
  <2>2. /\ IsSeq(code') /\ Len(code') = floor + 2
        /\ code'[floor + 1] = cmp /\ code'[floor + 2] = Cset(r, "eq")
        /\ \A p \in 1 .. floor : code'[p] = c[p]
    BY <1>1, <1>2, <2>1, PairAdded
  <2> QED BY <1>2, <2>2
<1>7. Regrown(code, code', floor) BY <1>1, <1>6 DEF Regrown
<1>8. ASSUME NEW p \in floor + 1 .. Len(code') PROVE Plain(code'[p])
  <2>1. Plain(code'[floor + 1]) /\ Plain(code'[floor + 2]) BY <1>6, PlainOnes
  <2>2. p = floor + 1 \/ p = floor + 2 BY <1>1, <1>6
  <2> QED BY <2>1, <2>2
<1>9. LabelsIn(code, cells, Len(code') + 1)
  <2>1. floor + 1 \in Nat /\ floor + 3 \in Nat /\ floor + 1 <= floor + 3 BY <1>1
  <2>2. LabelsIn(code, cells, floor + 3) BY <2>1, LabelsMore
  <2>3. Len(code') + 1 = floor + 3 BY <1>1, <1>6
  <2> QED BY <2>2, <2>3
<1>10. ASSUME NEW i \in 1 .. Len(args'), Known(args'[i])
       PROVE  LabelsIn(code, cells, args'[i].ceil)
  <2>1. bs \in Seq(Args) BY <1>3 DEF ArgsIn
  <2>2. CASE i = r + 1
    <3>1. args'[i] = Unknown BY <1>3, <1>5, <2>1, <2>2
    <3> QED BY <1>10, <3>1, UnknownIsArg
  <2>3. CASE i \in 1 .. r
    <3>1. args'[i] = bs[i] BY <1>3, <1>5, <2>1, <2>3
    <3>2. i \in 1 .. Len(args) /\ args'[i] = args[i] BY <1>1, <1>3, <2>3, <3>1
    <3> QED BY <1>10, <3>2 DEF PatchInv, Labels
  <2>4. Len(args') = r + 1 BY <1>3, <1>5, <2>1
  <2> QED BY <1>1, <2>2, <2>3, <2>4
<1> QED BY <1>7, <1>8, <1>9, <1>10, ValueTracked

LEMMA EqZeroTracked ==
  ASSUME StackInv, PatchInv, EqZero
  PROVE  PatchInv'
<1>0. /\ phase = "compile" /\ UNCHANGED <<cells, aux, phase>>
      /\ Len(code) \in Nat /\ Len(args) \in Nat \ {0}
      /\ LabelsIn(code, cells, Len(code) + 1)
  BY SeqParts DEF StackInv, ArgsIn, EqZero, Token, Straight, PatchInv, Labels
<1> DEFINE n == Len(args)
           floor == args[n].floor
<1>1. n - 1 \in 0 .. Len(args) BY <1>0
<1>2. CASE Folds(args[n], Len(code))
  <2>1. /\ floor = Len(code) - 1 /\ floor \in 0 .. Len(code) /\ floor + 1 = Len(code)
        /\ args[n].ceil = Len(code) /\ Known(args[n])
    BY <1>0, <1>2, FoldsLast
  <2>2. code[Len(code)].op = "mov" /\ LabelsIn(code, cells, Len(code))
    BY <1>0, <2>1 DEF StackInv, ArgsIn, InCode, PatchInv, Labels
  <2>3. PICK b : FoldDone(floor, n - 1, Bool(b)) BY <1>2 DEF EqZero, Last
  <2> HIDE DEF floor, n
  <2>4. \A p \in floor + 1 .. Len(code) : code[p].op = "mov" BY <1>0, <2>1, <2>2
  <2> QED BY <1>0, <1>1, <2>1, <2>2, <2>3, <2>4, BoolIsNat, FoldDoneTracked
<1>3. CASE ~Folds(args[n], Len(code))
  <2>1. PICK cmp : CompareInto(Len(code), n - 1, cmp) /\ Plain(cmp)
    BY <1>3, PlainOnes DEF EqZero, Last
  <2>2. Len(code) \in 0 .. Len(code) /\ \A p \in Len(code) + 1 .. Len(code) : FALSE
    BY <1>0
  <2> QED BY <1>0, <1>1, <2>1, <2>2, CompareIntoTracked
<1> QED BY <1>2, <1>3

LEMMA EqualTracked ==
  ASSUME StackInv, PatchInv, Equal
  PROVE  PatchInv'
<1>0. /\ phase = "compile" /\ UNCHANGED <<cells, aux, phase>>
      /\ Len(code) \in Nat /\ Len(args) \in Nat /\ Len(args) >= 2
      /\ LabelsIn(code, cells, Len(code) + 1)
  BY SeqParts DEF StackInv, ArgsIn, Equal, Token, Straight, PatchInv, Labels
<1> DEFINE r == Len(args) - 2
           lhs == args[r + 1]
           rhs == args[r + 2]
<1>1. r \in 0 .. Len(args) /\ r + 1 \in 1 .. Len(args) /\ r + 2 \in 1 .. Len(args)
  BY <1>0
<1>2. CASE ~Folds(rhs, Len(code))
  <2>1. PICK cmp : CompareInto(Len(code), r, cmp) /\ Plain(cmp)
    BY <1>2, PlainOnes DEF Equal
  <2>2. Len(code) \in 0 .. Len(code) /\ \A p \in Len(code) + 1 .. Len(code) : FALSE
    BY <1>0
  <2> QED BY <1>0, <1>1, <2>1, <2>2, CompareIntoTracked
<1>3. CASE Folds(rhs, Len(code))
  <2>1. /\ rhs.floor = Len(code) - 1 /\ rhs.floor \in 0 .. Len(code)
        /\ rhs.floor + 1 = Len(code) /\ rhs.ceil = Len(code) /\ Known(rhs)
    <3>1. Len(code) \in 0 .. Len(code) BY <1>0
    <3>2. Known(rhs) /\ rhs.floor = Len(code) - 1 /\ Len(code) > 0 /\ rhs.ceil = Len(code)
      BY <1>1, <1>3, <3>1, FoldsLast
    <3> HIDE DEF rhs
    <3> QED BY <1>0, <3>2
  <2>2. code[Len(code)].op = "mov" /\ LabelsIn(code, cells, Len(code))
    BY <1>0, <1>1, <2>1 DEF StackInv, ArgsIn, InCode, PatchInv, Labels
  <2>3. CASE Folds(lhs, rhs.floor)
    <3>1. /\ lhs.floor = rhs.floor - 1 /\ lhs.floor \in 0 .. Len(code)
          /\ lhs.floor + 1 = Len(code) - 1 /\ lhs.ceil = Len(code) - 1 /\ Known(lhs)
          /\ Len(code) >= 2
      <4>1. Known(lhs) /\ lhs.floor = rhs.floor - 1 /\ rhs.floor > 0 /\ lhs.ceil = rhs.floor
        BY <1>1, <2>1, <2>3, FoldsLast
      <4> HIDE DEF lhs, rhs
      <4> QED BY <1>0, <2>1, <4>1
    <3>2. code[Len(code) - 1].op = "mov" /\ LabelsIn(code, cells, Len(code) - 1)
      <4>1. InCode(args, r + 1, code) /\ LabelsIn(code, cells, lhs.ceil)
        BY <1>0, <1>1, <3>1 DEF StackInv, ArgsIn, PatchInv, Labels
      <4> QED BY <3>1, <4>1 DEF InCode
    <3>3. PICK b : FoldDone(lhs.floor, r, Bool(b)) BY <1>3, <2>3 DEF Equal
    <3> HIDE DEF lhs, rhs, r
    <3>4. ASSUME NEW p \in lhs.floor + 1 .. Len(code) PROVE code[p].op = "mov"
      <4>1. p = Len(code) \/ p = Len(code) - 1 BY <1>0, <3>1
      <4> QED BY <2>2, <3>2, <4>1
    <3> QED BY <1>0, <1>1, <3>1, <3>2, <3>3, <3>4, BoolIsNat, FoldDoneTracked
  <2>4. CASE ~Folds(lhs, rhs.floor)
    <3>1. PICK cmp : CompareInto(rhs.floor, r, cmp) /\ Plain(cmp)
      BY <1>3, <2>4, PlainOnes DEF Equal
    <3> HIDE DEF lhs, rhs, r
    <3>2. \A p \in rhs.floor + 1 .. Len(code) : code[p].op = "mov" BY <1>0, <2>1, <2>2
    <3> QED BY <1>0, <1>1, <2>1, <2>2, <3>1, <3>2, CompareIntoTracked
  <2> QED BY <2>3, <2>4
<1> QED BY <1>2, <1>3

LEMMA ResolvedIs ==
  ASSUME NEW f, f.meta \in Metas, NEW to
  PROVE  /\ Resolved(f, to).op \in {"cbz", "cbnz", "b.cond", "b"}
         /\ Resolved(f, to).to = to
<1>1. f.meta.type \in {"cbz", "cbnz", "b.cond"} BY DEF Metas
<1>2. CASE f.xt \in {"then_end", "while_end"} BY <1>1, <1>2 DEF Resolved
<1>3. CASE f.xt \notin {"then_end", "while_end"} BY <1>3 DEF Resolved, Branch
<1> QED BY <1>2, <1>3

LEMMA PatchKeeps ==
  ASSUME NEW c, IsSeq(c), NEW fs, \A f \in fs : f.meta \in Metas, NEW to,
         NEW d, d = Patch(c, fs, to)
  PROVE  /\ IsSeq(d) /\ Len(d) = Len(c) /\ Keeps(c, d)
         /\ \A p \in 1 .. Len(d) : d[p].op = "brk" =>
              c[p].op = "brk" /\ \A f \in fs : f.meta.off # p
         /\ \A p \in 1 .. Len(d) : d[p] = c[p] \/ d[p].to = to
<1>1. /\ IsSeq(d) /\ Len(d) = Len(c)
      /\ \A p \in 1 .. Len(c) :
           \/ d[p] = c[p] /\ \A f \in fs : f.meta.off # p
           \/ \E f \in fs : f.meta.off = p /\ d[p] = Resolved(f, to)
  BY PatchParts
<1>2. Len(c) \in Nat BY SeqParts
<1>3. ASSUME NEW p \in 1 .. Len(c)
      PROVE  \/ d[p] = c[p] /\ \A f \in fs : f.meta.off # p
             \/ d[p].op \in {"cbz", "cbnz", "b.cond", "b"} /\ d[p].to = to
  <2>1. CASE \E f \in fs : f.meta.off = p /\ d[p] = Resolved(f, to)
    <3>1. PICK f \in fs : d[p] = Resolved(f, to) BY <2>1
    <3> QED BY <3>1, ResolvedIs
  <2> QED BY <1>1, <2>1
<1>4. ASSUME NEW p \in 1 .. Len(c), Reserved(c, p) PROVE Reserved(d, p)
  <2>1. d[p].op # "mov" BY <1>3, <1>4 DEF Reserved
  <2>2. ASSUME Fusable(d, p) PROVE FALSE
    <3>1. PICK r : p >= 2 /\ d[p - 1] = CmpImm(r, 0) /\ d[p] = Cset(r, "eq")
      BY <2>2 DEF Fusable
    <3>2. CmpImm(r, 0).op = "cmp_imm" /\ Cset(r, "eq").op = "cset" BY DEF CmpImm, Cset
    <3>3. p - 1 \in 1 .. Len(c) BY <1>2, <3>1
    <3>4. d[p - 1] = c[p - 1] BY <1>3, <3>1, <3>2, <3>3
    <3>5. d[p] = c[p] BY <1>3, <3>1, <3>2
    <3>6. Fusable(c, p) BY <3>1, <3>4, <3>5 DEF Fusable
    <3> QED BY <1>4, <3>6 DEF Reserved
  <2> QED BY <1>1, <2>1, <2>2 DEF Reserved
<1>5. Keeps(c, d) BY <1>4 DEF Keeps
<1>6. \A p \in 1 .. Len(d) : d[p].op = "brk" =>
        c[p].op = "brk" /\ \A f \in fs : f.meta.off # p
  BY <1>1, <1>3
<1>7. \A p \in 1 .. Len(d) : d[p] = c[p] \/ d[p].to = to BY <1>1, <1>3
<1> QED BY <1>1, <1>5, <1>6, <1>7

\* A branch is reserved at the end: nothing leads behind a compare which is
\* taken back, unless it was just before a join.
LEMMA ReservedLabels ==
  ASSUME IsSeq(code), LabelsIn(code, cells, Len(code) + 1), NEW d, NEW k,
         ReservedLast(code, d, k), Len(d) < Len(code) => ~Labelled,
         DOMAIN cells = 1 .. Len(cells)
  PROVE  LabelsIn(d, cells, Len(d) + 1)
<1>1. PICK n \in Nat : n = Len(code) /\ DOMAIN code = 1 .. n BY SeqParts
<1>2. PICK m \in Nat : m = Len(d) /\ m >= n - 1 /\ m >= 1
  <2>1. IsSeq(d) /\ Len(d) >= Len(code) - 1 /\ Len(d) \in 1 .. Len(d)
    BY DEF ReservedLast, Reserved
  <2>2. Len(d) \in Nat BY <2>1, SeqParts
  <2> QED BY <1>1, <2>1, <2>2
<1>3. LabelsIn(code, cells, m + 1)
  <2>1. CASE m >= n
    <3>1. n + 1 \in Nat /\ m + 1 \in Nat /\ n + 1 <= m + 1 BY <2>1
    <3> QED BY <1>1, <3>1, LabelsMore
  <2>2. CASE m = n - 1
    <3>1. ~Labelled BY <1>1, <1>2, <2>2
    <3>2. ASSUME NEW p \in 1 .. Len(code), "to" \in DOMAIN code[p]
          PROVE  code[p].to \in 1 .. n
      <4>1. code[p].to \in 1 .. n + 1 BY <1>1, <3>2 DEF LabelsIn
      <4>2. code[p].to # n + 1 BY <1>1, <3>1, <3>2 DEF Labelled
      <4> QED BY <4>1, <4>2
    <3>3. ASSUME NEW i \in LoopsOf(cells) PROVE cells[i].meta.off \in 1 .. n
      <4>1. cells[i].meta.off \in 1 .. n + 1 BY <1>1 DEF LabelsIn
      <4>2. cells[i].meta.off # n + 1 BY <1>1, <3>1 DEF Labelled, LoopsOf
      <4> QED BY <4>1, <4>2
    <3>4. m + 1 = n BY <2>2
    <3> QED BY <3>2, <3>3, <3>4 DEF LabelsIn
  <2> QED BY <1>2, <2>1, <2>2
<1>4. ASSUME NEW p \in 1 .. m, "to" \in DOMAIN d[p] PROVE d[p].to \in 1 .. m + 1
  <2>1. "to" \notin DOMAIN Placeholder BY DEF Placeholder
  <2>2. p \in 1 .. n /\ d[p] = code[p]
    <3>1. CASE p = m BY <1>1, <1>2, <1>4, <2>1, <3>1 DEF ReservedLast
    <3>2. CASE p \in 1 .. m - 1 BY <1>1, <1>2, <3>2 DEF ReservedLast
    <3> QED BY <3>1, <3>2
  <2> QED BY <1>1, <1>3, <1>4, <2>2 DEF LabelsIn
<1> QED BY <1>2, <1>3, <1>4 DEF LabelsIn

LEMMA NoneKnown ==
  ASSUME NEW n \in Nat, NEW c, NEW cs, NEW ar, ar = Barrier(n), LabelsIn(c, cs, Len(c) + 1)
  PROVE  Labels(c, cs, ar)
<1>1. \A i \in 1 .. Len(ar) : ~Known(ar[i]) BY BarrierArgs
<1> QED BY <1>1 DEF Labels

\* A step which changes the frames of conditionals, and forgets the arguments.
LEMMA PushTracked ==
  ASSUME StackInv, PatchInv, phase = "compile", UNCHANGED <<aux, phase>>,
         NEW n \in Nat, args' = Barrier(n), NEW m, Pushed(cells, cells', m),
         Keeps(code, code'), LabelsIn(code', cells, Len(code') + 1),
         \A i \in m + 1 .. Len(cells') :
           cells'[i].xt \in BranchFrames => Reserved(code', cells'[i].meta.off),
         \A p \in 1 .. Len(code') : code'[p].op = "brk" =>
           \/ \E i \in m + 1 .. Len(cells') :
                cells'[i].xt \in Patchers /\ cells'[i].meta.off = p
           \/ /\ p \in 1 .. Len(code) /\ code[p].op = "brk"
              /\ \A i \in m + 1 .. Len(cells) :
                   cells[i].xt \in Patchers => cells[i].meta.off # p
  PROVE  PatchInv'
<1>1. /\ Nested(cells) /\ Nested(cells') /\ LoopsOf(cells') = LoopsOf(cells)
  BY PushFrames DEF StackInv, CellsInv
<1>2. /\ Len(cells) \in Nat /\ DOMAIN cells = 1 .. Len(cells)
      /\ Len(cells') \in Nat /\ DOMAIN cells' = 1 .. Len(cells')
      /\ m \in Nat /\ m <= Len(cells) /\ m <= Len(cells')
      /\ \A i \in 1 .. m : cells'[i] = cells[i]
  <2>1. Len(cells) \in Nat /\ DOMAIN cells = 1 .. Len(cells) BY <1>1 DEF Nested
  <2>2. Len(cells') \in Nat /\ DOMAIN cells' = 1 .. Len(cells') BY <1>1 DEF Nested
  <2> QED BY <2>1, <2>2 DEF Pushed
<1>3. \A i \in LoopsOf(cells) : cells'[i] = cells[i]
  BY <1>2 DEF LoopsOf, Pushed
<1>4. Labels(code', cells', args') BY <1>1, <1>3, LabelsSame, NoneKnown
<1>5. Tracked(code', cells', aux')
  <2>1. PICK base, g : Marks(cells, aux, base, g) /\ Held(code, cells, aux, base)
    BY DEF PatchInv, Tracked
  <2>2. Sharing(cells, cells', m) BY <1>2 DEF Sharing
  <2>5. ReservedAbove(code', cells', m) BY DEF ReservedAbove
  <2>6. BrkAbove(code, code', cells, cells', m) BY DEF BrkAbove
  <2>3. Held(code', cells', aux, base) BY <2>1, <2>2, <2>5, <2>6, HeldPushed
  <2>4. Marks(cells', aux, base, g) BY <1>1, <2>1, MarksSame
  <2> QED BY <2>3, <2>4 DEF Tracked
<1>6. AllPatched' BY DEF AllPatched
<1> QED BY <1>4, <1>5, <1>6 DEF PatchInv

LEMMA ThenTracked ==
  ASSUME StackInv, PatchInv, Then, JoinTests = FALSE
  PROVE  PatchInv'
<1>1. phase = "compile" BY DEF Then, Token
<1>2. PICK n \in Nat, k \in Metas : ThenStep(n, k) BY ThenIs
<1>3. UNCHANGED <<aux, phase>> /\ args' = Barrier(n) BY <1>2 DEF ThenStep
<1>4. Nested(cells) /\ Len(cells) \in Nat \ {0} BY <1>1, CellsOpen
<1>5. PICK m : /\ m \in Nat /\ Pushed(cells, cells', m)
               /\ \A i \in m + 1 .. Len(cells) : cells[i].xt \notin Patchers
               /\ m < Len(cells') /\ cells'[Len(cells')] = Frame("then_end", k)
               /\ \A i \in m + 1 .. Len(cells') : i = Len(cells') \/ cells'[i].xt = "nop"
  <2>1. CASE /\ cells[Len(cells)].xt = "elif_invalid"
             /\ Pushed(cells, cells', Len(cells) - 1) /\ Len(cells') = Len(cells)
             /\ cells'[Len(cells)] = Frame("then_end", k)
    <3>1. Len(cells) - 1 \in Nat /\ (Len(cells) - 1) + 1 = Len(cells) BY <1>4
    <3>2. \A i \in (Len(cells) - 1) + 1 .. Len(cells) : i = Len(cells) BY <1>4
    <3> QED BY <1>4, <2>1, <3>1, <3>2 DEF Patchers
  <2>2. CASE /\ Pushed(cells, cells', Len(cells)) /\ Len(cells') = Len(cells) + 2
             /\ cells'[Len(cells) + 1].xt = "nop"
             /\ cells'[Len(cells) + 2] = Frame("then_end", k)
    <3>1. \A i \in Len(cells) + 1 .. Len(cells) + 2 :
            i = Len(cells) + 1 \/ i = Len(cells) + 2
      BY <1>4
    <3> QED BY <1>4, <2>2, <3>1
  <2> QED BY <1>2, <2>1, <2>2 DEF ThenStep
<1>6. /\ cells'[Len(cells')].xt = "then_end" /\ cells'[Len(cells')].meta = k
      /\ Len(cells') \in m + 1 .. Len(cells')
  <2>1. "then_end" \in Kinds BY DEF Kinds, BranchFrames
  <2>2. Len(cells') \in Nat BY <1>5 DEF Pushed
  <2> QED BY <1>5, <2>1, <2>2, FrameIs
<1>7. ReservedLast(code, code', k) BY <1>2 DEF ThenStep
<1>8. Keeps(code, code') BY <1>7 DEF ReservedLast, Keeps
<1>9. LabelsIn(code', cells, Len(code') + 1)
  <2>1. Len(code') < Len(code) => ~Labelled BY <1>2 DEF ThenStep, TestsAtJoin
  <2>2. DOMAIN cells = 1 .. Len(cells) BY <1>4 DEF Nested
  <2>3. IsSeq(code) /\ LabelsIn(code, cells, Len(code) + 1)
    BY <1>1 DEF StackInv, PatchInv, Labels
  <2> QED BY <1>7, <2>1, <2>2, <2>3, ReservedLabels
<1>10. ASSUME NEW i \in m + 1 .. Len(cells'), cells'[i].xt \in BranchFrames
       PROVE  Reserved(code', cells'[i].meta.off)
  <2>1. i = Len(cells') BY <1>5, <1>10 DEF BranchFrames
  <2> QED BY <1>6, <1>7, <2>1 DEF ReservedLast
<1>11. ASSUME NEW p \in 1 .. Len(code'), code'[p].op = "brk"
       PROVE  \/ \E i \in m + 1 .. Len(cells') :
                   cells'[i].xt \in Patchers /\ cells'[i].meta.off = p
              \/ /\ p \in 1 .. Len(code) /\ code[p].op = "brk"
                 /\ \A i \in m + 1 .. Len(cells) :
                      cells[i].xt \in Patchers => cells[i].meta.off # p
  <2>1. CASE p = Len(code')
    <3>1. cells'[Len(cells')].xt \in Patchers BY <1>6 DEF Patchers
    <3>2. cells'[Len(cells')].meta.off = p BY <1>6, <1>7, <2>1 DEF ReservedLast
    <3> QED BY <1>6, <3>1, <3>2
  <2>2. CASE p # Len(code')
    <3>1. Len(code') \in Nat BY <1>7, SeqParts DEF ReservedLast
    <3>2. p \in 1 .. Len(code') - 1 BY <2>2, <3>1
    <3>3. p \in 1 .. Len(code) /\ code'[p] = code[p] BY <1>7, <3>2 DEF ReservedLast
    <3> QED BY <1>5, <1>11, <3>3
  <2> QED BY <2>1, <2>2
<1> QED BY <1>1, <1>3, <1>5, <1>8, <1>9, <1>10, <1>11, PushTracked

LEMMA CloseTracked ==
  ASSUME StackInv, PatchInv, phase = "compile", NEW k \in Metas, CloseStep(k)
  PROVE  PatchInv'
<1> DEFINE L == Len(cells)
<1>1. /\ cells # <<>> /\ Nested(cells) /\ L \in Nat \ {0} /\ Top = cells[L]
      /\ Top.meta \in Metas
  BY CellsOpen
<1>2. PICK n \in Nat : args' = Barrier(n)
  <2>1. Top.meta.inp \in Nat BY <1>1 DEF Metas
  <2> QED BY <2>1 DEF CloseStep
<1>3. UNCHANGED <<aux, phase>> /\ k.off = Len(code) + 1 BY DEF CloseStep
<1>4. PICK m \in Nat : m = L - 1 /\ Pushed(cells, cells', m)
  <2>1. L - 1 \in Nat BY <1>1
  <2> QED BY <2>1 DEF CloseStep
<1>17. IsSeq(code) BY DEF StackInv
<1>19. PICK c : Grown(code, Placeholder, c) BY <1>17, Regrowing
<1>18. /\ c = Append(code, Placeholder)
       /\ Regrown(code, c, Len(code)) /\ Len(c) = Len(code) + 1 /\ Len(code) \in Nat
       /\ IsSeq(c) /\ c[Len(code) + 1] = Placeholder
  BY <1>19 DEF Grown
<1>5. /\ Regrown(code, c, Len(code)) /\ Len(c) = Len(code) + 1 /\ Len(code) \in Nat
      /\ IsSeq(c) /\ c[Len(code) + 1] = Placeholder
      /\ \A p \in 1 .. Len(code) : c[p] = code[p]
  BY <1>18 DEF Regrown
<1>6. Reserved(c, Len(code) + 1) BY <1>5, BrkIsBrk DEF Reserved, Fusable
<1>7. /\ IsSeq(code') /\ Len(code') = Len(code) + 1 /\ Keeps(c, code')
      /\ \A p \in 1 .. Len(code') : code'[p].op = "brk" =>
           c[p].op = "brk" /\ Top.meta.off # p
      /\ \A p \in 1 .. Len(code') : code'[p] = c[p] \/ code'[p].to = Len(code) + 2
  <2>1. PICK fs : fs = {Top} OBVIOUS
  <2>2. code' = Patch(c, fs, Len(code) + 2) BY <1>18, <2>1 DEF CloseStep
  <2>3. \A f \in fs : f.meta \in Metas BY <1>1, <2>1
  <2>4. Top \in fs BY <2>1
  <2>0. IsSeq(c) BY <1>5
  <2>5. /\ IsSeq(code') /\ Len(code') = Len(c) /\ Keeps(c, code')
        /\ \A p \in 1 .. Len(code') : code'[p].op = "brk" =>
             c[p].op = "brk" /\ \A f \in fs : f.meta.off # p
        /\ \A p \in 1 .. Len(code') : code'[p] = c[p] \/ code'[p].to = Len(code) + 2
    BY <2>0, <2>2, <2>3, PatchKeeps
  <2> QED BY <1>5, <2>4, <2>5
<1>8. Keeps(code, code')
  <2>1. Keeps(code, c) BY <1>5, RegrownKeeps
  <2> QED BY <1>5, <1>7, <2>1 DEF Keeps
<1>9. LabelsIn(code', cells, Len(code') + 1)
  <2>1. LabelsIn(code, cells, Len(code) + 2)
    <3>1. LabelsIn(code, cells, Len(code) + 1) BY DEF PatchInv, Labels
    <3>2. /\ Len(code) + 1 \in Nat /\ Len(code) + 2 \in Nat
          /\ Len(code) + 1 <= Len(code) + 2
      BY <1>5
    <3> QED BY <3>1, <3>2, LabelsMore
  <2>2. ASSUME NEW p \in 1 .. Len(code'), "to" \in DOMAIN code'[p]
        PROVE  code'[p].to \in 1 .. Len(code) + 2
    <3>1. CASE code'[p].to = Len(code) + 2 BY <1>5, <3>1
    <3>2. CASE code'[p] = c[p]
      <4>1. "to" \notin DOMAIN Placeholder BY DEF Placeholder
      <4>2. p # Len(code) + 1 BY <1>5, <2>2, <3>2, <4>1
      <4>3. p \in 1 .. Len(code) /\ code'[p] = code[p] BY <1>5, <1>7, <3>2, <4>2
      <4> QED BY <2>1, <2>2, <4>3 DEF LabelsIn
    <3> QED BY <1>7, <3>1, <3>2
  <2>3. Len(code') + 1 = Len(code) + 2 BY <1>5, <1>7
  <2> QED BY <2>1, <2>2, <2>3 DEF LabelsIn
<1>10. \A x \in Kinds : Frame(x, k).xt = x /\ Frame(x, k).meta = k BY FrameIs
<1>11. /\ \A i \in m + 1 .. Len(cells') : cells'[i].meta = k
       /\ L \in m + 1 .. Len(cells') /\ cells'[L].xt \in {"else_end", "cond_chain_end"}
  <2>1. {"else_end", "cond_chain_end", "elif_invalid"} \subseteq Kinds
    BY DEF Kinds, BranchFrames
  <2>2. CASE Len(cells') = Len(cells) /\ cells'[Len(cells)] = Frame("else_end", k)
    <3>1. \A i \in m + 1 .. Len(cells') : i = L BY <1>1, <1>4, <2>2
    <3>2. L \in m + 1 .. Len(cells') BY <1>1, <1>4, <2>2
    <3> QED BY <1>10, <2>1, <2>2, <3>1, <3>2
  <2>3. CASE /\ Len(cells') = Len(cells) + 1
             /\ cells'[Len(cells)] = Frame("cond_chain_end", k)
             /\ cells'[Len(cells) + 1] = Frame("elif_invalid", k)
    <3>1. \A i \in m + 1 .. Len(cells') : i = L \/ i = L + 1 BY <1>1, <1>4, <2>3
    <3>2. L \in m + 1 .. Len(cells') BY <1>1, <1>4, <2>3
    <3> QED BY <1>10, <2>1, <2>3, <3>1, <3>2
  <2> QED BY <2>2, <2>3 DEF CloseStep
<1>12. ASSUME NEW i \in m + 1 .. Len(cells') PROVE Reserved(code', cells'[i].meta.off)
  <2>1. Len(code) + 1 \in 1 .. Len(c) BY <1>5
  <2> QED BY <1>3, <1>6, <1>7, <1>11, <2>1 DEF Keeps
<1>13. ASSUME NEW p \in 1 .. Len(code'), code'[p].op = "brk"
       PROVE  \/ \E i \in m + 1 .. Len(cells') :
                   cells'[i].xt \in Patchers /\ cells'[i].meta.off = p
              \/ /\ p \in 1 .. Len(code) /\ code[p].op = "brk"
                 /\ \A i \in m + 1 .. Len(cells) :
                      cells[i].xt \in Patchers => cells[i].meta.off # p
  <2>1. CASE p = Len(code) + 1 BY <1>3, <1>11, <2>1 DEF Patchers
  <2>2. CASE p \in 1 .. Len(code)
    <3>1. c[p].op = "brk" /\ cells[L].meta.off # p BY <1>1, <1>7, <1>13
    <3>2. \A i \in m + 1 .. Len(cells) : i = L BY <1>1, <1>4
    <3> QED BY <1>5, <2>2, <3>1, <3>2
  <2> QED BY <1>5, <1>7, <2>1, <2>2
<1> QED BY <1>2, <1>3, <1>4, <1>8, <1>9, <1>12, <1>13, PushTracked

LEMMA EndBranchTracked ==
  ASSUME StackInv, PatchInv, EndBranch
  PROVE  PatchInv'
<1>1. PICK first : phase = "compile" /\ EndStep(first) BY EndBranchIs
<1> DEFINE fs == {cells[i] : i \in first + 1 .. Len(cells)}
<1>2. /\ cells \in Seq(Frames) /\ Len(cells) \in Nat /\ first \in 2 .. Len(cells) - 1
      /\ cells[first].xt = "nop" /\ Len(args) \in Nat
  BY <1>1 DEF EndStep, StackInv, CellsInv, Nested, ArgsIn
<1>3. \A f \in fs : f.meta \in Metas
  <2>1. \A i \in first + 1 .. Len(cells) : cells[i] \in Frames BY <1>2
  <2> QED BY <2>1 DEF Frames
<1>4. code' = Patch(code, fs, Len(code) + 1) BY <1>1 DEF EndStep
<1>5. \A i \in first + 1 .. Len(cells) : cells[i] \in fs OBVIOUS
<1> HIDE DEF fs
<1>6. /\ Len(code') = Len(code) /\ Keeps(code, code')
      /\ \A p \in 1 .. Len(code') : code'[p].op = "brk" =>
           code[p].op = "brk" /\ \A f \in fs : f.meta.off # p
      /\ \A p \in 1 .. Len(code') : code'[p] = code[p] \/ code'[p].to = Len(code) + 1
      /\ Len(code) \in Nat
  BY <1>3, <1>4, PatchKeeps, SeqParts DEF StackInv
<1>7. LabelsIn(code', cells, Len(code') + 1)
  <2>1. LabelsIn(code, cells, Len(code) + 1) BY <1>1 DEF PatchInv, Labels
  <2>2. ASSUME NEW p \in 1 .. Len(code'), "to" \in DOMAIN code'[p]
        PROVE  code'[p].to \in 1 .. Len(code) + 1
    BY <1>6, <2>1, <2>2 DEF LabelsIn
  <2> QED BY <1>6, <2>1, <2>2 DEF LabelsIn
<1>8. PICK m \in Nat : m = first - 1 /\ Pushed(cells, cells', m) /\ Len(cells') = m
  <2>1. first - 1 \in Nat BY <1>2
  <2> QED BY <1>1, <2>1 DEF EndStep
<1>9. \A i \in m + 1 .. Len(cells') : FALSE BY <1>8
<1>10. ASSUME NEW p \in 1 .. Len(code'), code'[p].op = "brk"
       PROVE  /\ p \in 1 .. Len(code) /\ code[p].op = "brk"
              /\ \A i \in m + 1 .. Len(cells) :
                   cells[i].xt \in Patchers => cells[i].meta.off # p
  <2>1. p \in 1 .. Len(code) /\ code[p].op = "brk" /\ \A f \in fs : f.meta.off # p
    BY <1>6, <1>10
  <2>2. ASSUME NEW i \in m + 1 .. Len(cells), cells[i].xt \in Patchers
        PROVE  cells[i].meta.off # p
    <3>1. i # first BY <1>2, <2>2 DEF Patchers
    <3>2. i \in first + 1 .. Len(cells) BY <1>2, <1>8, <3>1
    <3> QED BY <1>5, <2>1, <3>2
  <2> QED BY <2>1, <2>2
<1>11. UNCHANGED <<aux, phase>> /\ args' = Barrier(Len(args)) BY <1>1 DEF EndStep
<1> QED BY <1>1, <1>2, <1>6, <1>7, <1>8, <1>9, <1>10, <1>11, PushTracked

\* A nop is pushed on LOOP_AUX for the loop which starts.
LEMMA MarkLoop ==
  ASSUME NEW cs, NEW ds, NEW ax \in Seq(AuxFrames), NEW f \in AuxFrames, f.xt = "nop",
         NEW bx, bx = Append(ax, f), NEW base, NEW g, Marks(cs, ax, base, g), NEW n \in Nat,
         LoopsOf(cs) \subseteq 1 .. n, LoopsOf(ds) = LoopsOf(cs) \cup {n + 2}
  PROVE  \E h : Marks(ds, bx, base, h)
<1>1. PICK m \in Nat : m = Len(ax) OBVIOUS
<1>2. /\ bx \in Seq(AuxFrames) /\ Len(bx) = m + 1 /\ bx[m + 1] = f
      /\ \A k \in 1 .. m : bx[k] = ax[k]
  BY <1>1
<1>3. base \in 0 .. m /\ g \in [LoopsOf(cs) -> base + 1 .. m] BY <1>1 DEF Marks
<1> DEFINE h == [i \in LoopsOf(ds) |-> IF i = n + 2 THEN m + 1 ELSE g[i]]
<1>4. \A i \in LoopsOf(ds) : (i = n + 2 /\ h[i] = m + 1) \/ (i \in LoopsOf(cs) /\ h[i] = g[i])
  OBVIOUS
<1>5. h \in [LoopsOf(ds) -> base + 1 .. m + 1]
  <2>1. \A i \in LoopsOf(cs) : g[i] \in base + 1 .. m + 1 BY <1>3
  <2>2. m + 1 \in base + 1 .. m + 1 BY <1>3
  <2> QED BY <2>1, <2>2, <1>4
<1> HIDE DEF h
<1>6. ASSUME NEW i \in LoopsOf(ds), NEW j \in LoopsOf(ds), i < j PROVE h[i] < h[j]
  <2>1. i \in LoopsOf(cs) /\ h[i] = g[i] BY <1>4, <1>6
  <2>2. g[i] \in base + 1 .. m BY <1>3, <2>1
  <2>3. CASE j = n + 2
    <3>1. PICK a \in Nat, b \in Nat : a = g[i] /\ b = h[j] /\ a <= m /\ b = m + 1
      <4>1. j \notin LoopsOf(cs) BY <2>3
      <4>2. h[j] = m + 1 BY <1>4, <4>1
      <4>3. base \in Nat /\ g[i] \in Nat /\ g[i] <= m BY <1>3, <2>2
      <4> QED BY <4>2, <4>3
    <3> QED BY <2>1, <3>1
  <2>4. CASE j # n + 2 BY <1>4, <1>6, <2>1, <2>4 DEF Marks
  <2> QED BY <2>3, <2>4
<1>7. ASSUME NEW k \in base + 1 .. m + 1, bx[k].xt = "nop"
      PROVE  \E i \in LoopsOf(ds) : h[i] = k
  <2>1. CASE k = m + 1
    <3>1. n + 2 \in LoopsOf(ds) /\ h[n + 2] = m + 1 BY <1>4
    <3> QED BY <2>1, <3>1
  <2>2. CASE k \in base + 1 .. m
    <3>1. bx[k] = ax[k] BY <1>2, <1>3, <2>2
    <3>2. PICK i \in LoopsOf(cs) : g[i] = k BY <1>1, <1>7, <2>2, <3>1 DEF Marks
    <3>3. i \in LoopsOf(ds) /\ h[i] = g[i] BY <1>4
    <3> QED BY <3>2, <3>3
  <2> QED BY <1>3, <2>1, <2>2
<1>8. ASSUME NEW i \in LoopsOf(ds) PROVE bx[h[i]].xt = "nop"
  <2>1. CASE i = n + 2 BY <1>2, <1>4, <2>1
  <2>2. CASE i \in LoopsOf(cs) /\ h[i] = g[i]
    <3>1. g[i] \in 1 .. m /\ ax[g[i]].xt = "nop" BY <1>3, <2>2 DEF Marks
    <3> QED BY <1>2, <2>2, <3>1
  <2> QED BY <1>4, <2>1, <2>2
<1>9. bx[base + 1].xt = "nop"
  <2>1. CASE base = m BY <1>2, <2>1
  <2>2. CASE base < m BY <1>1, <1>2, <1>3, <2>2 DEF Marks
  <2> QED BY <1>1, <1>3, <1>7, <2>1, <2>2
<1>10. base \in 0 .. m + 1 BY <1>3
<1>11. Marks(ds, bx, base, h) BY <1>2, <1>5, <1>6, <1>7, <1>8, <1>9, <1>10 DEF Marks
<1> QED BY <1>11

LEMMA AuxFrameIs ==
  ASSUME NEW xt \in {"nop", "leave_end", "while_end"}, NEW m \in Metas
  PROVE  Frame(xt, m) \in AuxFrames /\ Frame(xt, m).xt = xt /\ Frame(xt, m).meta = m
BY DEF Frame, AuxFrames

LEMMA LoopTracked ==
  ASSUME StackInv, PatchInv, Loop
  PROVE  PatchInv'
<1>1. /\ phase = "compile" /\ UNCHANGED <<code, phase>> /\ args' = Barrier(Len(args))
      /\ Len(cells) \in Nat /\ Len(cells') = Len(cells) + 2
      /\ \A i \in 1 .. Len(cells) : cells'[i] = cells[i]
      /\ cells'[Len(cells) + 1].xt = "loop_frame_end"
      /\ cells'[Len(cells) + 2].xt = "loop_end"
      /\ cells'[Len(cells) + 2].meta.off = Len(code) + 1
      /\ LoopsOf(cells') = LoopsOf(cells) \cup {Len(cells) + 2}
      /\ aux' = Append(aux, Frame("nop", Meta(0, 0)))
  BY LoopIs
<1>2. /\ DOMAIN cells = 1 .. Len(cells) /\ DOMAIN cells' = 1 .. Len(cells')
      /\ LoopsOf(cells) \subseteq 1 .. Len(cells)
  <2>1. Nested(cells) /\ Nested(cells') BY LoopIs DEF StackInv, CellsInv
  <2> QED BY <2>1 DEF Nested, LoopsOf
<1>3. PICK f \in AuxFrames : f = Frame("nop", Meta(0, 0)) /\ f.xt = "nop"
  <2>1. Meta(0, 0) \in Metas BY MetaIs
  <2> QED BY <2>1, AuxFrameIs
<1>4. PICK n \in Nat : n = Len(code) /\ IsSeq(code) BY SeqParts DEF StackInv
<1>5. Labels(code, cells', args')
  <2>1. LabelsIn(code, cells, n + 1) BY <1>1, <1>4 DEF PatchInv, Labels
  <2>2. ASSUME NEW i \in LoopsOf(cells') PROVE cells'[i].meta.off \in 1 .. n + 1
    <3>1. CASE i = Len(cells) + 2 BY <1>1, <1>4, <3>1
    <3>2. CASE i \in LoopsOf(cells)
      <4>1. cells'[i] = cells[i] BY <1>1, <1>2, <3>2
      <4> QED BY <2>1, <3>2, <4>1 DEF LabelsIn
    <3> QED BY <1>1, <3>1, <3>2
  <2>3. LabelsIn(code, cells', Len(code) + 1) BY <1>4, <2>1, <2>2 DEF LabelsIn
  <2>4. Len(args) \in Nat BY DEF StackInv, ArgsIn
  <2> QED BY <1>1, <2>3, <2>4, NoneKnown
<1>6. aux \in Seq(AuxFrames) /\ aux' = Append(aux, f) BY <1>1, <1>3 DEF PatchInv
<1>7. PICK base, g : Marks(cells, aux, base, g) /\ Held(code, cells, aux, base)
  BY <1>1 DEF PatchInv, Tracked
<1>8. PICK h : Marks(cells', aux', base, h) BY <1>1, <1>2, <1>3, <1>6, <1>7, MarkLoop
<1>9. Held(code, cells', aux, base)
  <2>1. Keeps(code, code) BY DEF Keeps
  <2>2. ASSUME NEW i \in Len(cells) + 1 .. Len(cells') PROVE cells'[i].xt \notin BranchFrames
    <3>1. i = Len(cells) + 1 \/ i = Len(cells) + 2 BY <1>1
    <3> QED BY <1>1, <3>1 DEF BranchFrames
  <2>3. \A i \in Len(cells) + 1 .. Len(cells) : FALSE BY <1>1
  <2>4. BrkAbove(code, code, cells, cells', Len(cells)) BY <2>3 DEF BrkAbove
  <2>5. ReservedAbove(code, cells', Len(cells)) BY <2>2 DEF ReservedAbove
  <2>6. Sharing(cells, cells', Len(cells)) BY <1>1, <1>2, <1>4 DEF Sharing
  <2> QED BY <1>7, <2>1, <2>4, <2>5, <2>6, HeldPushed
<1>10. Held(code, cells', aux', base)
  <2>1. PICK m \in Nat : m = Len(aux) /\ base \in 0 .. m BY <1>6, <1>7 DEF Marks
  <2>2. Len(aux') = m + 1 /\ aux'[m + 1] = f /\ \A k \in 1 .. m : aux'[k] = aux[k]
    BY <1>6, <2>1
  <2>3. \A k \in base + 1 .. Len(aux') : aux'[k].xt # "nop" =>
          k \in base + 1 .. m /\ aux'[k] = aux[k]
    <3>1. \A k \in base + 1 .. m + 1 : k = m + 1 \/ (k \in 1 .. m /\ k \in base + 1 .. m)
      BY <2>1
    <3> QED BY <1>3, <2>2, <3>1
  <2>4. \A k \in base + 1 .. m : k \in base + 1 .. Len(aux') /\ aux'[k] = aux[k]
    BY <2>1, <2>2
  <2> QED BY <1>9, <2>1, <2>3, <2>4 DEF Held
<1>11. Tracked(code', cells', aux') BY <1>1, <1>8, <1>10 DEF Tracked
<1>12. aux' \in Seq(AuxFrames) BY <1>6
<1>13. AllPatched' BY <1>1 DEF AllPatched
<1> QED BY <1>1, <1>5, <1>11, <1>12, <1>13 DEF PatchInv

\* What leaves a loop is kept above the nop of the loop.
LEMMA HeldAux ==
  ASSUME NEW c, NEW d, NEW cs, NEW ax \in Seq(AuxFrames), NEW f \in AuxFrames,
         f.xt # "nop", NEW bx, bx = Append(ax, f), NEW base \in 0 .. Len(ax),
         Held(c, cs, ax, base), ReservedLast(c, d, f.meta)
  PROVE  Held(d, cs, bx, base)
<1>1. PICK m \in Nat : m = Len(ax) OBVIOUS
<1>2. Len(bx) = m + 1 /\ bx[m + 1] = f /\ \A k \in 1 .. m : bx[k] = ax[k] BY <1>1
<1>3. /\ IsSeq(d) /\ Reserved(d, f.meta.off) /\ f.meta.off = Len(d)
      /\ \A p : Reserved(c, p) => Reserved(d, p)
      /\ \A p \in 1 .. Len(d) - 1 : p \in 1 .. Len(c) /\ d[p] = c[p]
  BY DEF ReservedLast, Reserved
<1>4. Len(d) \in Nat BY <1>3, SeqParts
<1>5. \A k \in base + 1 .. m + 1 : k = m + 1 \/ (k \in base + 1 .. m /\ bx[k] = ax[k])
  <2>1. \A k \in base + 1 .. m + 1 : k = m + 1 \/ (k \in 1 .. m /\ k \in base + 1 .. m)
    BY <1>1
  <2> QED BY <1>2, <2>1
<1>6. \A i \in DOMAIN cs : cs[i].xt \in BranchFrames => Reserved(d, cs[i].meta.off)
  BY <1>3 DEF Held
<1>7. ASSUME NEW k \in base + 1 .. Len(bx), bx[k].xt # "nop"
      PROVE  Reserved(d, bx[k].meta.off)
  <2>1. CASE k = m + 1 BY <1>2, <1>3, <2>1
  <2>2. CASE k \in base + 1 .. m /\ bx[k] = ax[k] BY <1>1, <1>3, <1>7, <2>2 DEF Held
  <2> QED BY <1>2, <1>5, <2>1, <2>2
<1>8. ASSUME NEW p \in 1 .. Len(d), d[p].op = "brk"
      PROVE  \/ \E i \in DOMAIN cs : cs[i].xt \in Patchers /\ cs[i].meta.off = p
             \/ \E k \in base + 1 .. Len(bx) : bx[k].xt # "nop" /\ bx[k].meta.off = p
  <2>1. CASE p = Len(d)
    <3>1. m + 1 \in base + 1 .. Len(bx) BY <1>1, <1>2
    <3> QED BY <1>2, <1>3, <2>1, <3>1
  <2>2. CASE p \in 1 .. Len(d) - 1
    <3>1. p \in 1 .. Len(c) /\ c[p].op = "brk" BY <1>3, <1>8, <2>2
    <3>2. CASE \E k \in base + 1 .. Len(ax) : ax[k].xt # "nop" /\ ax[k].meta.off = p
      <4>1. PICK k \in base + 1 .. m : ax[k].xt # "nop" /\ ax[k].meta.off = p
        BY <1>1, <3>2
      <4>2. k \in base + 1 .. Len(bx) /\ bx[k] = ax[k] BY <1>1, <1>2, <4>1
      <4> QED BY <4>1, <4>2
    <3> QED BY <3>1, <3>2 DEF Held
  <2> QED BY <1>4, <2>1, <2>2
<1> QED BY <1>6, <1>7, <1>8 DEF Held

LEMMA MarksAux ==
  ASSUME NEW cs, NEW ax \in Seq(AuxFrames), NEW f \in AuxFrames, f.xt # "nop",
         NEW bx, bx = Append(ax, f), NEW base, NEW g, Marks(cs, ax, base, g),
         LoopsOf(cs) # {}
  PROVE  Marks(cs, bx, base, g)
<1>1. PICK m \in Nat : m = Len(ax) OBVIOUS
<1>2. Len(bx) = m + 1 /\ bx[m + 1] = f /\ \A k \in 1 .. m : bx[k] = ax[k] BY <1>1
<1>3. base \in 0 .. m /\ g \in [LoopsOf(cs) -> base + 1 .. m] BY <1>1 DEF Marks
<1>4. base < m /\ base \in 0 .. m + 1
  <2>1. PICK i \in LoopsOf(cs) : g[i] \in base + 1 .. m BY <1>3
  <2> QED BY <1>3, <2>1
<1>5. g \in [LoopsOf(cs) -> base + 1 .. m + 1]
  <2>1. \A i \in LoopsOf(cs) : g[i] \in base + 1 .. m + 1 BY <1>3
  <2> QED BY <1>3, <2>1
<1>6. ASSUME NEW k \in base + 1 .. m + 1, bx[k].xt = "nop"
      PROVE  \E i \in LoopsOf(cs) : g[i] = k
  <2>1. k # m + 1 BY <1>2, <1>6
  <2>2. k \in base + 1 .. m /\ k \in 1 .. m BY <1>3, <2>1
  <2> QED BY <1>1, <1>2, <1>6, <2>2 DEF Marks
<1>7. ASSUME NEW i \in LoopsOf(cs) PROVE bx[g[i]].xt = "nop"
  <2>1. g[i] \in 1 .. m BY <1>3
  <2> QED BY <1>2, <2>1 DEF Marks
<1>8. bx[base + 1].xt = "nop" BY <1>1, <1>2, <1>3, <1>4 DEF Marks
<1> QED BY <1>2, <1>4, <1>5, <1>6, <1>7, <1>8 DEF Marks

LEMMA AuxTracked ==
  ASSUME StackInv, PatchInv, phase = "compile", JoinTests = FALSE,
         NEW x, NEW n \in Nat, NEW k \in Metas, AuxStep(x, n, k)
  PROVE  PatchInv'
<1>1. /\ x \in {"leave_end", "while_end"} /\ LoopsOf(cells) # {}
      /\ ReservedLast(code, code', k) /\ aux' = Append(aux, Frame(x, k))
      /\ args' = Barrier(n) /\ UNCHANGED <<cells, loopInd, phase>>
      /\ Len(code') < Len(code) => ~Labelled
  BY DEF AuxStep, TestsAtJoin
<1>2. PICK f \in AuxFrames : f = Frame(x, k) /\ f.xt # "nop" /\ f.meta = k
  BY <1>1, AuxFrameIs
<1>3. aux \in Seq(AuxFrames) /\ aux' = Append(aux, f) BY <1>1, <1>2 DEF PatchInv
<1>4. aux' \in Seq(AuxFrames) BY <1>3
<1>5. Tracked(code', cells', aux')
  <2>1. PICK base, g : Marks(cells, aux, base, g) /\ Held(code, cells, aux, base)
    BY DEF PatchInv, Tracked
  <2>2. base \in 0 .. Len(aux) BY <2>1 DEF Marks
  <2>3. Held(code', cells, aux', base)
    <3>1. ReservedLast(code, code', f.meta) /\ f.xt # "nop" BY <1>1, <1>2
    <3>2. aux \in Seq(AuxFrames) /\ aux' = Append(aux, f) BY <1>3
    <3> QED BY <2>1, <2>2, <3>1, <3>2, HeldAux
  <2>4. Marks(cells, aux', base, g) BY <1>1, <1>2, <1>3, <2>1, MarksAux
  <2> QED BY <1>1, <2>3, <2>4 DEF Tracked
<1>6. Labels(code', cells', args')
  <2>1. IsSeq(code) /\ LabelsIn(code, cells, Len(code) + 1) /\ DOMAIN cells = 1 .. Len(cells)
    BY DEF StackInv, CellsInv, Nested, PatchInv, Labels
  <2>2. LabelsIn(code', cells, Len(code') + 1) BY <1>1, <2>1, ReservedLabels
  <2> QED BY <1>1, <2>2, NoneKnown
<1>7. AllPatched' BY <1>1 DEF AllPatched
<1> QED BY <1>4, <1>5, <1>6, <1>7 DEF PatchInv

LEMMA AgainTracked ==
  ASSUME StackInv, PatchInv, Again
  PROVE  PatchInv'
<1>1. /\ phase = "compile" /\ InLoop /\ args' = Barrier(Len(args)) /\ Len(args) \in Nat
      /\ UNCHANGED <<cells, aux, phase>>
  BY DEF Again, AuxOfLoop, Token, Looping, StackInv, ArgsIn
<1>2. PICK x : x = Branch(LoopMeta.off) /\ code' = Append(code, x) BY DEF Again
<1>3. x.op # "brk" /\ x.to = LoopMeta.off BY <1>2 DEF Branch
<1>4. PICK n \in Nat :
        /\ n = Len(code) /\ Regrown(code, code', n) /\ Len(code') = n + 1
        /\ code'[n + 1] = x /\ \A p \in 1 .. n : code'[p] = code[p]
  <2>1. IsSeq(code) BY DEF StackInv
  <2>0. PICK d : Grown(code, x, d) BY <2>1, Regrowing
  <2>2. /\ d = Append(code, x)
        /\ Regrown(code, d, Len(code)) /\ Len(d) = Len(code) + 1
        /\ Len(code) \in Nat /\ IsSeq(d) /\ d[Len(code) + 1] = x
    BY <2>0 DEF Grown
  <2>3. code' = d BY <1>2, <2>2
  <2>4. \A p \in 1 .. Len(code) : d[p] = code[p] BY <2>2 DEF Regrown
  <2> QED BY <2>2, <2>3, <2>4
<1>5. LabelsIn(code, cells, n + 1) BY <1>1, <1>4 DEF PatchInv, Labels
<1>6. x.to \in 1 .. n + 1
  <2>1. cells[loopInd].meta.off \in 1 .. n + 1 BY <1>1, <1>5, LoopIndIs DEF LabelsIn
  <2> QED BY <1>3, <2>1 DEF LoopMeta
<1>7. Labels(code', cells', args')
  <2>1. LabelsIn(code, cells, n + 2)
    <3>1. n + 1 \in Nat /\ n + 2 \in Nat /\ n + 1 <= n + 2 OBVIOUS
    <3> QED BY <1>5, <3>1, LabelsMore
  <2>2. ASSUME NEW p \in 1 .. n + 1, "to" \in DOMAIN code'[p]
        PROVE  code'[p].to \in 1 .. n + 2
    <3>1. CASE p = n + 1 BY <1>4, <1>6, <3>1
    <3>2. CASE p \in 1 .. n BY <1>4, <2>1, <2>2, <3>2 DEF LabelsIn
    <3> QED BY <3>1, <3>2
  <2>3. LabelsIn(code', cells, Len(code') + 1)
    <3>1. Len(code') + 1 = n + 2 BY <1>4
    <3> QED BY <1>4, <2>1, <2>2, <3>1 DEF LabelsIn
  <2> QED BY <1>1, <2>3, NoneKnown
<1>8. Tracked(code', cells', aux')
  <2>1. PICK base, g : Marks(cells, aux, base, g) /\ Held(code, cells, aux, base)
    BY <1>1 DEF PatchInv, Tracked
  <2>3. Keeps(code, code') BY <1>4, RegrownKeeps
  <2>6. ASSUME NEW p \in 1 .. Len(code'), code'[p].op = "brk"
        PROVE  p \in 1 .. Len(code) /\ code[p].op = "brk"
    <3>1. p # n + 1 BY <1>3, <1>4, <2>6
    <3>2. p \in 1 .. n BY <1>4, <2>6, <3>1
    <3> QED BY <1>4, <2>6, <3>2
  <2>7. NoNewBrk(code, code') BY <2>6 DEF NoNewBrk
  <2>8. Held(code', cells, aux, base) BY <2>1, <2>3, <2>7, HeldKept
  <2> QED BY <1>1, <2>1, <2>8 DEF Tracked
<1>9. AllPatched' BY <1>1 DEF AllPatched
<1> QED BY <1>1, <1>7, <1>8, <1>9 DEF PatchInv

\* The end of a loop takes its nop from LOOP_AUX and what is above.
Below(ax, first) == SubSeq(ax, 1, first - 1)

LEMMA BelowParts ==
  ASSUME NEW ax \in Seq(AuxFrames), NEW first \in 1 .. Len(ax), NEW bx, bx = Below(ax, first)
  PROVE  /\ bx \in Seq(AuxFrames) /\ Len(bx) = first - 1
         /\ \A k \in 1 .. first - 1 : bx[k] = ax[k]
<1>1. first - 1 \in 0 .. Len(ax) OBVIOUS
<1> QED BY <1>1 DEF Below

LEMMA LastNop ==
  ASSUME NEW cs, NEW ds, NEW ax \in Seq(AuxFrames), NEW base, NEW g, Marks(cs, ax, base, g),
         NEW n \in Nat, LoopsOf(cs) = LoopsOf(ds) \cup {n}, LoopsOf(ds) \subseteq 1 .. n - 2
  PROVE  /\ LastOf(ax, "nop") = g[n] /\ g[n] \in base + 1 .. Len(ax) /\ base \in Nat
         /\ ax[g[n]].xt = "nop"
         /\ \A k \in g[n] + 1 .. Len(ax) : ax[k].xt # "nop"
<1>1. PICK m \in Nat : m = Len(ax) /\ DOMAIN ax = 1 .. m OBVIOUS
<1>2. base \in 0 .. m /\ g \in [LoopsOf(cs) -> base + 1 .. m] BY <1>1 DEF Marks
<1>3. n \in LoopsOf(cs) /\ g[n] \in base + 1 .. m /\ ax[g[n]].xt = "nop"
  BY <1>2 DEF Marks
<1>4. ASSUME NEW k \in 1 .. m, ax[k].xt = "nop" PROVE k <= g[n]
  <2>1. CASE k <= base BY <1>2, <1>3, <2>1
  <2>2. CASE k > base
    <3>1. k \in base + 1 .. Len(ax) BY <1>1, <1>2, <2>2
    <3>2. PICK i \in LoopsOf(cs) : g[i] = k BY <1>4, <3>1 DEF Marks
    <3>3. i = n \/ i < n BY <3>2
    <3>4. CASE i < n
      <4>1. g[i] < g[n] BY <1>3, <3>4 DEF Marks
      <4> QED BY <1>2, <1>3, <3>2, <4>1
    <3> QED BY <1>2, <1>3, <3>2, <3>3, <3>4
  <2> QED BY <1>2, <2>1, <2>2
<1>5. LastOf(ax, "nop") = g[n]
  <2> DEFINE S == {k \in DOMAIN ax : ax[k].xt = "nop"}
  <2>1. S \subseteq Nat BY <1>1
  <2>2. g[n] \in S BY <1>1, <1>2, <1>3
  <2>3. \A k \in S : k <= g[n] BY <1>1, <1>4
  <2>4. LastOf(ax, "nop") = Max(S) BY DEF LastOf
  <2> HIDE DEF S
  <2> QED BY <2>1, <2>2, <2>3, <2>4, MaxIs
<1>6. ASSUME NEW k \in g[n] + 1 .. m PROVE ax[k].xt # "nop"
  <2>1. k \in 1 .. m /\ ~(k <= g[n]) BY <1>2, <1>3
  <2> QED BY <1>4, <2>1
<1> QED BY <1>1, <1>2, <1>3, <1>5, <1>6

LEMMA UnmarkLoop ==
  ASSUME NEW cs, NEW ds, NEW ax \in Seq(AuxFrames), NEW base, NEW g, Marks(cs, ax, base, g),
         NEW n \in Nat, LoopsOf(cs) = LoopsOf(ds) \cup {n}, LoopsOf(ds) \subseteq 1 .. n - 2,
         NEW bx, bx = Below(ax, g[n])
  PROVE  \E h : Marks(ds, bx, base, h)
<1>1. PICK m \in Nat : m = Len(ax) OBVIOUS
<1>2. /\ g[n] \in base + 1 .. m /\ base \in Nat /\ base <= m
      /\ g \in [LoopsOf(cs) -> base + 1 .. m]
  <2>1. g[n] \in base + 1 .. m /\ base \in Nat BY <1>1, LastNop, SMTT(30)
  <2> QED BY <1>1, <2>1 DEF Marks
<1>3. PICK f \in 1 .. m : f = g[n] BY <1>2
<1>4. /\ bx \in Seq(AuxFrames) /\ Len(bx) = f - 1
      /\ \A k \in 1 .. f - 1 : bx[k] = ax[k]
  BY <1>1, <1>3, BelowParts
<1> DEFINE h == [i \in LoopsOf(ds) |-> g[i]]
<1>5. \A i \in LoopsOf(ds) : i \in LoopsOf(cs) /\ h[i] = g[i] OBVIOUS
<1>6. ASSUME NEW i \in LoopsOf(ds) PROVE g[i] \in base + 1 .. f - 1
  <2>1. i \in LoopsOf(cs) /\ n \in LoopsOf(cs) /\ i < n OBVIOUS
  <2>2. g[i] < g[n] BY <2>1 DEF Marks
  <2> QED BY <1>2, <1>3, <2>1, <2>2
<1>7. h \in [LoopsOf(ds) -> base + 1 .. f - 1] BY <1>6
<1> HIDE DEF h
<1>8. ASSUME NEW i \in LoopsOf(ds), NEW j \in LoopsOf(ds), i < j PROVE h[i] < h[j]
  BY <1>5, <1>8 DEF Marks
<1>9. ASSUME NEW k \in base + 1 .. f - 1, bx[k].xt = "nop"
      PROVE  \E i \in LoopsOf(ds) : h[i] = k
  <2>1. k \in base + 1 .. m /\ bx[k] = ax[k] BY <1>2, <1>3, <1>4
  <2>2. PICK i \in LoopsOf(cs) : g[i] = k BY <1>1, <1>9, <2>1 DEF Marks
  <2>3. i # n BY <1>2, <1>3, <2>2
  <2> QED BY <1>5, <2>2, <2>3
<1>10. ASSUME NEW i \in LoopsOf(ds) PROVE bx[h[i]].xt = "nop"
  <2>1. h[i] = g[i] /\ g[i] \in 1 .. f - 1 BY <1>2, <1>5, <1>6
  <2>2. ax[g[i]].xt = "nop" BY <1>5 DEF Marks
  <2> QED BY <1>4, <2>1, <2>2
<1>11. ASSUME base < f - 1 PROVE bx[base + 1].xt = "nop"
  <2>1. base + 1 \in 1 .. f - 1 /\ base < m BY <1>2, <1>3, <1>11
  <2>2. ax[base + 1].xt = "nop" BY <1>1, <2>1 DEF Marks
  <2> QED BY <1>4, <2>1, <2>2
<1>12. base \in 0 .. f - 1 BY <1>2, <1>3
<1>13. Marks(ds, bx, base, h) BY <1>4, <1>7, <1>8, <1>9, <1>10, <1>11, <1>12 DEF Marks
<1> QED BY <1>13

\* What was reserved to leave the loop is patched, the rest is held as before.
UpTo(ax, bx, f, base) ==
  /\ ax \in Seq(AuxFrames) /\ base \in Nat /\ f \in base + 1 .. Len(ax)
  /\ ax[f].xt = "nop" /\ bx \in Seq(AuxFrames) /\ Len(bx) = f - 1
  /\ \A k \in 1 .. f - 1 : bx[k] = ax[k]

WithoutLoop(cs, ds, n) ==
  /\ n \in Nat /\ n > 2 /\ DOMAIN cs = 1 .. n /\ DOMAIN ds = 1 .. n - 2
  /\ \A i \in 1 .. n - 2 : ds[i] = cs[i]
  /\ cs[n].xt = "loop_end" /\ cs[n - 1].xt = "loop_frame_end"

BrkBelow(c, d, ax, f) ==
  \A p \in 1 .. Len(d) : d[p].op = "brk" =>
    /\ p \in 1 .. Len(c) /\ c[p].op = "brk"
    /\ \A k \in f + 1 .. Len(ax) : ax[k].meta.off # p

LEMMA HeldLoop ==
  ASSUME NEW c, NEW d, NEW cs, NEW ds, NEW ax, NEW base, Held(c, cs, ax, base),
         NEW f, NEW bx, UpTo(ax, bx, f, base), NEW n, WithoutLoop(cs, ds, n),
         Keeps(c, d), BrkBelow(c, d, ax, f)
  PROVE  Held(d, ds, bx, base)
<1>7. /\ ax \in Seq(AuxFrames) /\ base \in Nat /\ f \in base + 1 .. Len(ax)
      /\ ax[f].xt = "nop" /\ bx \in Seq(AuxFrames)
      /\ \A k \in 1 .. f - 1 : bx[k] = ax[k]
  BY DEF UpTo
<1>8. /\ n \in Nat /\ n > 2 /\ DOMAIN cs = 1 .. n /\ DOMAIN ds = 1 .. n - 2
      /\ \A i \in 1 .. n - 2 : ds[i] = cs[i]
      /\ cs[n].xt = "loop_end" /\ cs[n - 1].xt = "loop_frame_end"
  BY DEF WithoutLoop
<1>9. \A p : Reserved(c, p) => Reserved(d, p) BY DEF Keeps, Reserved
<1>1. PICK m \in Nat : m = Len(ax) BY <1>7
<1>2. Len(bx) = f - 1 BY DEF UpTo
<1>3. \A k \in base + 1 .. f - 1 : k \in base + 1 .. Len(ax) /\ bx[k] = ax[k]
  BY <1>1, <1>7
<1>4. ASSUME NEW i \in DOMAIN ds, ds[i].xt \in BranchFrames
      PROVE  Reserved(d, ds[i].meta.off)
  <2>1. i \in DOMAIN cs /\ ds[i] = cs[i] BY <1>4, <1>8
  <2> QED BY <1>4, <1>9, <2>1 DEF Held
<1>5. ASSUME NEW k \in base + 1 .. Len(bx), bx[k].xt # "nop"
      PROVE  Reserved(d, bx[k].meta.off)
  <2>1. k \in base + 1 .. Len(ax) /\ bx[k] = ax[k] BY <1>2, <1>3, <1>5
  <2> QED BY <1>5, <1>9, <2>1 DEF Held
<1>6. ASSUME NEW p \in 1 .. Len(d), d[p].op = "brk"
      PROVE  \/ \E i \in DOMAIN ds : ds[i].xt \in Patchers /\ ds[i].meta.off = p
             \/ \E k \in base + 1 .. Len(bx) : bx[k].xt # "nop" /\ bx[k].meta.off = p
  <2>1. /\ p \in 1 .. Len(c) /\ c[p].op = "brk"
        /\ \A k \in f + 1 .. Len(ax) : ax[k].meta.off # p
    BY <1>6 DEF BrkBelow
  <2>2. CASE \E i \in DOMAIN cs : cs[i].xt \in Patchers /\ cs[i].meta.off = p
    <3>1. PICK i \in 1 .. n : cs[i].xt \in Patchers /\ cs[i].meta.off = p BY <1>8, <2>2
    <3>2. i # n /\ i # n - 1 BY <1>8, <3>1 DEF Patchers
    <3>3. i \in 1 .. n - 2 BY <1>8, <3>1, <3>2
    <3>4. i \in DOMAIN ds /\ ds[i] = cs[i] BY <1>8, <3>3
    <3> QED BY <3>1, <3>4
  <2>3. CASE \E k \in base + 1 .. Len(ax) : ax[k].xt # "nop" /\ ax[k].meta.off = p
    <3>1. PICK k \in base + 1 .. m : ax[k].xt # "nop" /\ ax[k].meta.off = p
      BY <1>1, <2>3
    <3>2. k # f /\ k \notin f + 1 .. m BY <1>1, <1>7, <2>1, <3>1
    <3>3. k \in base + 1 .. f - 1 BY <1>1, <1>7, <3>1, <3>2
    <3>4. k \in base + 1 .. Len(bx) /\ bx[k] = ax[k] BY <1>2, <1>3, <3>3
    <3> QED BY <3>1, <3>4
  <2> QED BY <1>6, <2>1, <2>2, <2>3 DEF Held
<1> QED BY <1>4, <1>5, <1>6 DEF Held

LEMMA EndLoopTracked ==
  ASSUME StackInv, PatchInv, EndLoop
  PROVE  PatchInv'
<1>1. /\ phase = "compile" /\ args' = Barrier(Len(args)) /\ Len(args) \in Nat
      /\ UNCHANGED phase
  BY DEF EndLoop, Token, Looping, StackInv, ArgsIn
<1>2. PICK n \in Nat : n = Len(cells) /\ n > 2 BY EndLoopIs
<1>3. /\ Nested(cells) /\ Nested(cells') /\ Len(cells') = n - 2
      /\ \A i \in 1 .. n - 2 : cells'[i] = cells[i]
      /\ LoopsOf(cells) = LoopsOf(cells') \cup {n} /\ LoopsOf(cells') \subseteq 1 .. n - 2
      /\ cells[n].xt = "loop_end" /\ cells[n - 1].xt = "loop_frame_end"
  BY <1>2, EndLoopIs DEF StackInv, CellsInv, Last
<1>4. DOMAIN cells = 1 .. n /\ DOMAIN cells' = 1 .. n - 2
  BY <1>2, <1>3 DEF Nested
<1>5. PICK base, g : Marks(cells, aux, base, g) /\ Held(code, cells, aux, base)
  BY <1>1 DEF PatchInv, Tracked
<1>6. aux \in Seq(AuxFrames) BY DEF PatchInv
<1>7. PICK f \in base + 1 .. Len(aux) :
        /\ f = LastOf(aux, "nop") /\ f = g[n] /\ base \in Nat /\ aux[f].xt = "nop"
        /\ \A k \in f + 1 .. Len(aux) : aux[k].xt # "nop"
  BY <1>3, <1>5, <1>6, LastNop
<1>8. aux' = Below(aux, f) BY <1>7 DEF EndLoop, Below
<1>9. PICK m \in Nat : m = Len(code) /\ IsSeq(code) BY SeqParts DEF StackInv
<1>10. PICK c, x :
         /\ x = Branch(Top.meta.off) /\ c = Append(code, x) /\ IsSeq(c)
         /\ Regrown(code, c, m) /\ Len(c) = m + 1 /\ c[m + 1] = x
  <2>1. PICK x : x = Branch(Top.meta.off) OBVIOUS
  <2>2. PICK c : Grown(code, x, c) BY <1>9, Regrowing
  <2> QED BY <1>9, <2>1, <2>2 DEF Grown
<1>11. \A p \in 1 .. m : c[p] = code[p] BY <1>9, <1>10 DEF Regrown
<1> DEFINE fs == {aux[k] : k \in f + 1 .. Len(aux)}
<1>12. code' = Patch(c, fs, m + 2) BY <1>7, <1>9, <1>10 DEF EndLoop, LoopExit
<1>13. \A k \in f + 1 .. Len(aux) : aux[k] \in fs OBVIOUS
<1>14. \A h \in fs : h.meta \in Metas
  <2>1. PICK l \in Nat : l = Len(aux) BY <1>6
  <2>2. \A k \in f + 1 .. l : aux[k] \in AuxFrames BY <1>6, <1>7, <2>1
  <2> QED BY <2>1, <2>2 DEF AuxFrames
<1> HIDE DEF fs
<1>15. /\ IsSeq(code') /\ Len(code') = m + 1 /\ Keeps(c, code')
       /\ \A p \in 1 .. m + 1 : code'[p].op = "brk" =>
            c[p].op = "brk" /\ \A h \in fs : h.meta.off # p
       /\ \A p \in 1 .. m + 1 : code'[p] = c[p] \/ code'[p].to = m + 2
  <2>1. IsSeq(c) /\ Len(c) = m + 1 BY <1>10
  <2>2. /\ IsSeq(code') /\ Len(code') = Len(c) /\ Keeps(c, code')
        /\ \A p \in 1 .. Len(code') : code'[p].op = "brk" =>
             c[p].op = "brk" /\ \A h \in fs : h.meta.off # p
        /\ \A p \in 1 .. Len(code') : code'[p] = c[p] \/ code'[p].to = m + 2
    BY <1>12, <1>14, <2>1, PatchKeeps
  <2> QED BY <2>1, <2>2
<1>16. ASSUME NEW p, Reserved(code, p) PROVE Reserved(code', p)
  <2>1. Keeps(code, c) BY <1>10, RegrownKeeps
  <2>2. p \in 1 .. m /\ Reserved(c, p) BY <1>9, <1>16, <2>1 DEF Keeps, Reserved
  <2>3. p \in 1 .. Len(c) BY <2>2 DEF Reserved
  <2> QED BY <1>15, <2>2, <2>3 DEF Keeps
<1>17. x.op # "brk" /\ x.to = cells[n].meta.off
  <2>1. Top = cells[n] BY <1>2 DEF Top, Last
  <2> QED BY <1>10, <2>1 DEF Branch
<1>18. ASSUME NEW p \in 1 .. Len(code'), code'[p].op = "brk"
       PROVE  /\ p \in 1 .. Len(code) /\ code[p].op = "brk"
              /\ \A k \in f + 1 .. Len(aux) : aux[k].meta.off # p
  <2>1. p \in 1 .. m + 1 /\ c[p].op = "brk" /\ \A h \in fs : h.meta.off # p
    BY <1>15, <1>18
  <2>2. p # m + 1 BY <1>10, <1>17, <2>1
  <2>3. p \in 1 .. m /\ code[p].op = "brk" BY <1>11, <2>1, <2>2
  <2> QED BY <1>9, <1>13, <2>1, <2>3
<1>19. /\ aux' \in Seq(AuxFrames) /\ Len(aux') = f - 1
       /\ \A k \in 1 .. f - 1 : aux'[k] = aux[k]
  <2>1. f \in 1 .. Len(aux) BY <1>7
  <2> QED BY <1>6, <1>8, <2>1, BelowParts
<1>20. Tracked(code', cells', aux')
  <2>1. PICK h : Marks(cells', aux', base, h)
    <3>1. aux' = Below(aux, g[n]) BY <1>7, <1>8
    <3> QED BY <1>3, <1>5, <1>6, <3>1, UnmarkLoop
  <2>2. Held(code', cells', aux', base)
    <3>1. UpTo(aux, aux', f, base) BY <1>6, <1>7, <1>19 DEF UpTo
    <3>2. WithoutLoop(cells, cells', n) BY <1>2, <1>3, <1>4 DEF WithoutLoop
    <3>3. Keeps(code, code') BY <1>16 DEF Keeps
    <3>4. BrkBelow(code, code', aux, f) BY <1>18 DEF BrkBelow
    <3> QED BY <1>5, <3>1, <3>2, <3>3, <3>4, HeldLoop
  <2> QED BY <2>1, <2>2 DEF Tracked
<1>21. LabelsIn(code, cells, m + 2)
  <2>1. LabelsIn(code, cells, m + 1) BY <1>1, <1>9 DEF PatchInv, Labels
  <2>2. m + 1 \in Nat /\ m + 2 \in Nat /\ m + 1 <= m + 2 OBVIOUS
  <2> QED BY <2>1, <2>2, LabelsMore
<1>22. Labels(code', cells', args')
  <2>1. ASSUME NEW p \in 1 .. Len(code'), "to" \in DOMAIN code'[p]
        PROVE  code'[p].to \in 1 .. m + 2
    <3>1. p \in 1 .. m + 1 BY <1>15
    <3>2. CASE code'[p].to = m + 2 BY <3>2
    <3>3. CASE code'[p] = c[p] /\ p \in 1 .. m
      <4>1. code'[p] = code[p] BY <1>11, <3>3
      <4> QED BY <1>9, <1>21, <2>1, <3>3, <4>1 DEF LabelsIn
    <3>4. CASE code'[p] = c[p] /\ p = m + 1
      <4>1. n \in LoopsOf(cells) BY <1>3
      <4>2. code'[p].to = cells[n].meta.off BY <1>10, <1>17, <3>4
      <4> QED BY <1>21, <4>1, <4>2 DEF LabelsIn
    <3> QED BY <1>15, <3>1, <3>2, <3>3, <3>4
  <2>2. ASSUME NEW i \in LoopsOf(cells') PROVE cells'[i].meta.off \in 1 .. m + 2
    <3>1. i \in LoopsOf(cells) /\ cells'[i] = cells[i] BY <1>3
    <3> QED BY <1>21, <3>1 DEF LabelsIn
  <2>3. Len(code') + 1 = m + 2 BY <1>15
  <2>4. LabelsIn(code', cells', Len(code') + 1) BY <2>1, <2>2, <2>3 DEF LabelsIn
  <2> QED BY <1>1, <2>4, NoneKnown
<1>23. AllPatched' BY <1>1 DEF AllPatched
<1> QED BY <1>1, <1>20, <1>22, <1>19, <1>23 DEF PatchInv

-----------------------------------------------------------------------------
(* Words *)

\* No loop is open and no frame left: all is patched.
LEMMA NothingHeld ==
  ASSUME NEW c, IsSeq(c), NEW cs, NEW ax \in Seq(AuxFrames), Tracked(c, cs, ax),
         DOMAIN cs = {1}, cs[1].xt = "semicolon"
  PROVE  \A p \in 1 .. Len(c) : c[p].op # "brk"
<1>1. PICK base, g : Marks(cs, ax, base, g) /\ Held(c, cs, ax, base) BY DEF Tracked
<1>2. PICK m \in Nat : m = Len(ax) OBVIOUS
<1>3. LoopsOf(cs) = {} BY DEF LoopsOf
<1>4. base = m
  <2>1. base \in 0 .. m /\ (base < m => ax[base + 1].xt = "nop") BY <1>1, <1>2 DEF Marks
  <2>2. base < m => base + 1 \in base + 1 .. m BY <2>1
  <2>3. \A k \in base + 1 .. m : ax[k].xt # "nop" BY <1>1, <1>2, <1>3 DEF Marks
  <2> QED BY <2>1, <2>2, <2>3
<1>5. \A k \in base + 1 .. Len(ax) : FALSE BY <1>2, <1>4
<1>6. \A i \in DOMAIN cs : cs[i].xt \notin Patchers BY DEF Patchers
<1> QED BY <1>1, <1>5, <1>6 DEF Held

LEMMA EndWordTracked ==
  ASSUME StackInv, PatchInv, EndWord
  PROVE  PatchInv'
<1>1. phase = "compile" /\ phase' = "run" /\ DOMAIN cells = {1} /\ cells[1].xt = "semicolon"
  <2>1. /\ phase = "compile" /\ phase' = "run" /\ Len(cells) = 1 /\ Nested(cells)
        /\ cells[1].xt = "semicolon"
    BY EndWordIs
  <2>2. DOMAIN cells = 1 .. 1 BY <2>1 DEF Nested
  <2> QED BY <2>1, <2>2
<1>2. aux \in Seq(AuxFrames) /\ aux' = aux BY DEF PatchInv, EndWord
<1>3. PICK n \in Nat : n = Len(code) /\ IsSeq(code) BY SeqParts DEF StackInv
<1>4. \A p \in 1 .. n : code[p].op # "brk"
  <2>1. Tracked(code, cells, aux) BY <1>1 DEF PatchInv
  <2> QED BY <1>1, <1>2, <1>3, <2>1, NothingHeld
<1>5. PICK x : x = Access("ret", 0) BY DEF EndWord
<1>6. Plain(x) BY <1>5, PlainAccess
<1>7. PICK c : c = Append(code, x) /\ IsSeq(c) /\ Regrown(code, c, n) /\ Len(c) = n + 1
               /\ c[n + 1] = x
  <2>1. PICK c : Grown(code, x, c) BY <1>3, Regrowing
  <2> QED BY <1>3, <2>1 DEF Grown
<1>8. code' = c BY <1>5, <1>7 DEF EndWord
<1>9. DOMAIN c = 1 .. n + 1 /\ \A p \in 1 .. n : c[p] = code[p]
  <2>1. DOMAIN c = 1 .. n + 1 BY <1>7, SeqParts
  <2> QED BY <1>3, <1>7, <2>1 DEF Regrown
<1>10. ASSUME NEW p \in 1 .. n + 1
       PROVE  c[p].op # "brk" /\ ("to" \in DOMAIN c[p] => c[p].to \in 1 .. n + 1)
  <2>1. CASE p = n + 1 BY <1>6, <1>7, <2>1 DEF Plain
  <2>2. CASE p \in 1 .. n
    <3>1. LabelsIn(code, cells, n + 1) BY <1>1, <1>3 DEF PatchInv, Labels
    <3>2. "to" \in DOMAIN code[p] => code[p].to \in 1 .. n + 1
      BY <1>3, <2>2, <3>1 DEF LabelsIn
    <3> QED BY <1>4, <1>9, <2>2, <3>2
  <2> QED BY <2>1, <2>2
<1>11. AllPatched' BY <1>8, <1>9, <1>10 DEF AllPatched
<1> QED BY <1>1, <1>2, <1>11 DEF PatchInv

\* A word given up leaves what it pushed on LOOP_AUX there, and holds nothing.
LEMMA NothingReserved ==
  ASSUME NEW c, c = <<>>, NEW cs, cs = <<Frame("semicolon", Meta(0, 0))>>,
         NEW ax \in Seq(AuxFrames), NEW ar, ar = <<>>
  PROVE  Tracked(c, cs, ax) /\ Labels(c, cs, ar)
<1>1. PICK m \in Nat : m = Len(ax) OBVIOUS
<1>2. LoopsOf(cs) = {} /\ Len(cs) = 1 /\ cs[1].xt = "semicolon" /\ Nested(cs)
  BY NewWord
<1>3. Marks(cs, ax, m, [i \in LoopsOf(cs) |-> 0]) BY <1>1, <1>2 DEF Marks
<1>4. Len(c) = 0 /\ Len(ar) = 0 BY EmptyParts
<1>5. Held(c, cs, ax, m)
  <2>1. DOMAIN cs = 1 .. 1 BY <1>2 DEF Nested
  <2>2. \A i \in DOMAIN cs : cs[i].xt \notin BranchFrames BY <1>2, <2>1 DEF BranchFrames
  <2>3. \A k \in m + 1 .. Len(ax) : FALSE BY <1>1
  <2>4. \A p \in 1 .. Len(c) : FALSE BY <1>4
  <2> QED BY <2>2, <2>3, <2>4 DEF Held
<1>6. Tracked(c, cs, ax) BY <1>3, <1>5 DEF Tracked
<1>7. \A p \in 1 .. Len(c) : FALSE BY <1>4
<1>8. \A i \in 1 .. Len(ar) : FALSE BY <1>4
<1> QED BY <1>2, <1>6, <1>7, <1>8 DEF Labels, LabelsIn

LEMMA FailTracked ==
  ASSUME StackInv, PatchInv, Fail
  PROVE  PatchInv'
<1>1. /\ code' = <<>> /\ args' = <<>> /\ aux' = aux /\ aux \in Seq(AuxFrames)
      /\ cells' = <<Frame("semicolon", Meta(0, 0))>> /\ phase' = "compile"
  BY DEF Fail, PatchInv
<1>2. Tracked(code', cells', aux') /\ Labels(code', cells', args')
  BY <1>1, NothingReserved
<1>3. AllPatched' BY <1>1 DEF AllPatched
<1> QED BY <1>1, <1>2, <1>3 DEF PatchInv

\* A step which compiles nothing.
LEMMA SamePatched ==
  ASSUME PatchInv, UNCHANGED <<code, args, cells, aux>>,
         phase' = phase \/ (phase = "run" /\ phase' \in {"run", "done"})
  PROVE  PatchInv'
<1>1. phase' = "compile" => Tracked(code', cells', aux') /\ Labels(code', cells', args')
  BY DEF PatchInv
<1>2. AllPatched' BY DEF PatchInv, AllPatched
<1> QED BY <1>1, <1>2 DEF PatchInv

\* lang.af, .cond_branch_patch and .comp_branch_patch: everything reserved is
\* patched by the end of the word and branches stay inside it, as long as no
\* program tests what was compared just before a join.  Such a test is fused
\* with the compare, and a jump to the join then leads behind it, even out of the
\* word; Control_join.cfg shows what such a word then does.
THEOREM EverythingIsPatched ==
  ASSUME JoinTests = FALSE
  PROVE  Spec => []AllPatched
<1>1. Init => PatchInv
  <2> SUFFICES ASSUME Init PROVE PatchInv OBVIOUS
  <2>1. /\ code = <<>> /\ args = <<>> /\ aux = <<>> /\ phase = "compile"
        /\ cells = <<Frame("semicolon", Meta(0, 0))>>
    BY DEF Init
  <2>2. aux \in Seq(AuxFrames) BY <2>1
  <2>3. Tracked(code, cells, aux) /\ Labels(code, cells, args)
    BY <2>1, <2>2, NothingReserved
  <2>4. AllPatched BY <2>1 DEF AllPatched
  <2> QED BY <2>2, <2>3, <2>4 DEF PatchInv
<1>2. StackInv /\ PatchInv /\ [Next]_vars => PatchInv'
  <2> SUFFICES ASSUME StackInv, PatchInv, [Next]_vars PROVE PatchInv' OBVIOUS
  <2>1. CASE Load BY <2>1, LoadTracked
  <2>2. CASE Store BY <2>2, StoreTracked
  <2>3. CASE Constant(0) \/ Constant(1) BY <2>3, ConstantTracked
  <2>4. CASE EqZero BY <2>4, EqZeroTracked
  <2>5. CASE Equal BY <2>5, EqualTracked
  <2>6. CASE Then BY <2>6, ThenTracked
  <2>7. CASE Else BY <2>7, ElseIs, CloseTracked
  <2>8. CASE Elif BY <2>8, ElifIs, CloseTracked
  <2>9. CASE EndBranch BY <2>9, EndBranchTracked
  <2>10. CASE Loop BY <2>10, LoopTracked
  <2>11. CASE Leave BY <2>11, LeaveIs, AuxTracked
  <2>12. CASE While BY <2>12, WhileIs, AuxTracked
  <2>13. CASE Again BY <2>13, AgainTracked
  <2>14. CASE EndLoop BY <2>14, EndLoopTracked
  <2>15. CASE Return BY <2>15, ReturnTracked
  <2>16. CASE EndWord BY <2>16, EndWordTracked
  <2>17. CASE Fail BY <2>17, FailTracked
  <2>18. CASE SourceStep \/ MachStep \/ Both
    <3>1. UNCHANGED <<code, args, cells, aux>> BY <2>18, RunSteps DEF compVars
    <3>2. phase = "run" /\ phase' \in {"run", "done"} BY <2>18, RunSteps
    <3> QED BY <3>1, <3>2, SamePatched
  <2>19. CASE UNCHANGED vars
    <3>1. UNCHANGED <<code, args, cells, aux>> /\ phase' = phase
      BY <2>19 DEF vars, compVars
    <3> QED BY <3>1, SamePatched
  <2> QED BY <2>1, <2>2, <2>3, <2>4, <2>5, <2>6, <2>7, <2>8, <2>9, <2>10, <2>11, <2>12,
             <2>13, <2>14, <2>15, <2>16, <2>17, <2>18, <2>19 DEF Next, Compile
<1>3. PatchInv => AllPatched BY DEF PatchInv
<1> QED BY <1>1, <1>2, <1>3, StackInvInvariant, PTL DEF Spec
=============================================================================
