----------------------------- MODULE CodeProofs -----------------------------
(***************************************************************************)
(* What is compiled, given up or fixed never touches the code which was    *)
(* copied to be executed, for any programs, numbers of registers and sizes *)
(* of frames (ExecIsWritten).                                              *)
(*                                                                         *)
(* Finished words end at the frontier, valid_instr_len; the word being     *)
(* compiled, everything to be fixed in it included, is above.              *)
(*                                                                         *)
(* A finished word has no placeholder left, branches only forward and in   *)
(* itself, and calls only words: as long as words return to where they     *)
(* were called, the processor meets nothing it traps on (NothingTraps).    *)
(***************************************************************************)
EXTENDS Code, Basics, FiniteSetTheorems

Fields == {"w", "err", "len", "prologue", "inner", "fixes", "locfix", "homes", "fpOff",
           "saved", "alloca", "loads", "calls"}

\* Fixups of instructions above v, up to n.
Places(fs, v, n) == IsSeq(fs) /\ \A i \in 1 .. Len(fs) : fs[i].at \in v + 1 .. n

\* A word which is being compiled, and where its prologue is reserved.
Above(d, v, n) ==
  /\ DOMAIN d = Fields
  /\ d.prologue \in v + 1 .. n /\ d.inner = d.prologue + PrologueLen /\ d.inner <= n + 1
  /\ d.saved \in 0 .. LastStable

\* The same, with its fixups.
InDef(d, v, n) == Above(d, v, n) /\ Places(d.fixes, v, n) /\ Places(d.locfix, v, n)

\* Finished words are below the frontier.
WordsInside ==
  /\ IsSeq(words)
  /\ \A w \in 1 .. Len(words) :
       words[w].prologue \in 1 .. valid /\ words[w].ret \in words[w].prologue .. valid

\* So is the code which was copied.
Copied ==
  /\ IsSeq(write) /\ IsSeq(exec) /\ valid \in 0 .. Len(write) /\ Len(exec) <= valid
  /\ \A i \in 1 .. Len(exec) : exec[i] = write[i]

Layout == Copied /\ WordsInside /\ (def # NoDef => InDef(def, valid, Len(write)))

-----------------------------------------------------------------------------
(* Sequences of instructions *)

LEMMA OnePart ==
  ASSUME NEW a
  PROVE  IsSeq(<<a>>) /\ Len(<<a>>) = 1 /\ <<a>>[1] = a
<1>1. <<a>> \in Seq({a}) OBVIOUS
<1> QED BY <1>1 DEF IsSeq

LEMMA ThreeParts ==
  ASSUME NEW a, NEW b, NEW c
  PROVE  IsSeq(<<a, b, c>>) /\ Len(<<a, b, c>>) = 3
<1>1. <<a, b, c>> \in Seq({a, b, c}) OBVIOUS
<1> QED BY <1>1 DEF IsSeq

LEMMA FourParts ==
  ASSUME NEW a, NEW b, NEW c, NEW d
  PROVE  IsSeq(<<a, b, c, d>>) /\ Len(<<a, b, c, d>>) = 4
<1>1. <<a, b, c, d>> \in Seq({a, b, c, d}) OBVIOUS
<1> QED BY <1>1 DEF IsSeq

\* Instructions are replaced, never added or removed.
LEMMA PatchedParts ==
  ASSUME NEW c, IsSeq(c), NEW d, d = [i \in DOMAIN c |-> d[i]]
  PROVE  IsSeq(d) /\ Len(d) = Len(c)
<1>1. PICK n \in Nat : n = Len(c) /\ DOMAIN c = 1 .. n BY SeqParts
<1>2. d = [i \in 1 .. n |-> d[i]] BY <1>1
<1>3. IsSeq(d) /\ Len(d) = n BY <1>2, FunctionIsSeq
<1> QED BY <1>1, <1>3

LEMMA PlacesMore ==
  ASSUME NEW fs, NEW v \in Nat, NEW n \in Nat, NEW m \in Nat, n <= m, Places(fs, v, n)
  PROVE  Places(fs, v, m)
BY DEF Places

LEMMA PlacesAppend ==
  ASSUME NEW fs, NEW v \in Nat, NEW n \in Nat, NEW m \in Nat, n <= m, Places(fs, v, n),
         NEW f, f.at \in v + 1 .. m, NEW gs, gs = Append(fs, f)
  PROVE  Places(gs, v, m)
<1>1. PICK l \in Nat : l = Len(fs) BY SeqParts DEF Places
<1>2. /\ IsSeq(gs) /\ Len(gs) = l + 1 /\ gs[l + 1] = f /\ \A i \in 1 .. l : gs[i] = fs[i]
  BY <1>1, AppendParts DEF Places
<1>3. \A i \in 1 .. l + 1 : i = l + 1 \/ i \in 1 .. l OBVIOUS
<1> QED BY <1>1, <1>2, <1>3 DEF Places

LEMMA PrologueLenIs == PrologueLen \in Nat /\ PrologueLen >= 3
<1>1. StableRegs \in Nat BY CodeAssumption
<1>2. Even(StableRegs) \in Nat BY <1>1 DEF Even
<1>3. PICK k \in Nat : k = Even(StableRegs) BY <1>2
<1>4. k \div 2 \in Nat BY <1>3
<1> QED BY <1>3, <1>4 DEF PrologueLen

-----------------------------------------------------------------------------
(* The copy *)

\* comp_code_sync copies finished code only.
LEMMA SyncedIs ==
  ASSUME Copied, NEW e, e = Synced
  PROVE  /\ IsSeq(e) /\ Len(e) = valid /\ valid \in Nat
         /\ \A i \in 1 .. valid : e[i] = write[i]
<1>1. PICK n \in Nat, m \in Nat :
        /\ n = Len(exec) /\ m = Len(write) /\ n <= valid /\ valid \in 0 .. m
        /\ valid \in Nat
  BY SeqParts DEF Copied
<1>2. PICK t : t = SubSeq(write, Len(exec) + 1, valid) /\ e = exec \o t
  BY DEF Synced
<1>3. t = [i \in 1 .. valid - n |-> write[n + i]]
  <2>1. PICK S : write \in Seq(S) BY DEF Copied, IsSeq
  <2> QED BY <1>1, <1>2, <2>1
<1>4. IsSeq(t) /\ Len(t) = valid - n
  <2>1. valid - n \in Nat BY <1>1
  <2>2. t = [i \in 1 .. valid - n |-> t[i]] BY <1>3
  <2> QED BY <2>1, <2>2, FunctionIsSeq
<1>5. \A i \in 1 .. valid - n : t[i] = write[n + i] BY <1>3
<1>6. /\ IsSeq(e) /\ Len(e) = n + (valid - n)
      /\ \A i \in 1 .. n : e[i] = exec[i]
      /\ \A i \in 1 .. valid - n : e[n + i] = t[i]
  <2>1. IsSeq(exec) /\ IsSeq(t) /\ e = exec \o t BY <1>2, <1>4 DEF Copied
  <2>2. /\ IsSeq(e) /\ Len(e) = Len(exec) + Len(t)
        /\ \A i \in 1 .. Len(exec) : e[i] = exec[i]
        /\ \A i \in 1 .. Len(t) : e[Len(exec) + i] = t[i]
    BY <2>1, ConcatParts
  <2> QED BY <1>1, <1>4, <2>2
<1>7. ASSUME NEW i \in 1 .. valid PROVE e[i] = write[i]
  <2>1. CASE i \in 1 .. n BY <1>1, <1>6, <2>1 DEF Copied
  <2>2. CASE i \in n + 1 .. valid
    <3>1. PICK j \in 1 .. valid - n : i = n + j
      <4>1. i - n \in 1 .. valid - n /\ i = n + (i - n) BY <1>1, <2>2
      <4> QED BY <4>1
    <3> QED BY <1>5, <1>6, <3>1
  <2> QED BY <1>1, <2>1, <2>2
<1>8. Len(e) = valid /\ valid \in Nat BY <1>1, <1>6
<1> QED BY <1>6, <1>7, <1>8

LEMMA SyncedCopied ==
  ASSUME Copied, NEW e, e = exec \/ e = Synced
  PROVE  /\ IsSeq(e) /\ Len(e) <= valid
         /\ \A i \in 1 .. Len(e) : e[i] = write[i]
<1>1. CASE e = exec BY <1>1 DEF Copied
<1>2. CASE e = Synced BY <1>2, SyncedIs
<1> QED BY <1>1, <1>2

\* Code grows at its end.
LEMMA WrittenCopied ==
  ASSUME Copied, NEW c, IsSeq(c), write' = write \o c, UNCHANGED valid,
         exec' = exec \/ exec' = Synced
  PROVE  Copied' /\ Len(write') = Len(write) + Len(c) /\ Len(write) \in Nat /\ Len(c) \in Nat
<1>1. Len(write) \in Nat /\ Len(c) \in Nat BY SeqParts DEF Copied
<1>2. /\ IsSeq(write') /\ Len(write') = Len(write) + Len(c)
      /\ \A i \in 1 .. Len(write) : write'[i] = write[i]
  BY ConcatParts DEF Copied
<1>3. /\ IsSeq(exec') /\ Len(exec') <= valid
      /\ \A i \in 1 .. Len(exec') : exec'[i] = write[i]
  BY SyncedCopied
<1>4. valid \in 0 .. Len(write) BY DEF Copied
<1>5. Len(exec') \in Nat BY <1>3, SeqParts
<1>6. \A i \in 1 .. Len(exec') : exec'[i] = write'[i] BY <1>1, <1>2, <1>3, <1>4, <1>5
<1>7. valid' \in 0 .. Len(write') /\ Len(exec') <= valid' BY <1>1, <1>2, <1>3, <1>4
<1> QED BY <1>1, <1>2, <1>3, <1>6, <1>7 DEF Copied

-----------------------------------------------------------------------------
(* Compilation *)

\* The word being compiled, with new fixups up to n.
Grown(d, n) ==
  /\ DOMAIN d = Fields
  /\ d.prologue = def.prologue /\ d.inner = def.inner /\ d.saved = def.saved
  /\ Places(d.fixes, valid, n) /\ Places(d.locfix, valid, n)

\* What every operation of the compiler shows.
Emitted(c, d) == IsSeq(c) /\ Emit(c, d) /\ Grown(d, Len(write) + Len(c))

LEMMA Lengths ==
  ASSUME Layout
  PROVE  /\ IsSeq(write) /\ Len(write) \in Nat /\ valid \in Nat /\ valid <= Len(write)
         /\ Next1 = Len(write) + 1
<1>1. IsSeq(write) /\ valid \in 0 .. Len(write) BY DEF Layout, Copied
<1>2. Len(write) \in Nat BY <1>1, SeqParts
<1> QED BY <1>1, <1>2 DEF Next1

LEMMA EmittedLayout ==
  ASSUME Layout, def # NoDef, NEW c, NEW d, Emitted(c, d), UNCHANGED <<valid, words>>,
         exec' = exec \/ exec' = Synced
  PROVE  Layout'
<1>1. Copied BY DEF Layout
<1>2. IsSeq(c) /\ write' = write \o c BY DEF Emitted, Emit
<1>3. Copied' /\ Len(write') = Len(write) + Len(c) /\ Len(write) \in Nat /\ Len(c) \in Nat
  BY <1>1, <1>2, WrittenCopied
<1>4. WordsInside' BY DEF Layout, WordsInside
<1>5. /\ DOMAIN def' = Fields
      /\ def'.prologue = def.prologue /\ def'.inner = def.inner /\ def'.saved = def.saved
      /\ def'.fixes = d.fixes /\ def'.locfix = d.locfix
  BY DEF Emitted, Emit, Grown, Fields
<1>6. Places(def'.fixes, valid, Len(write')) /\ Places(def'.locfix, valid, Len(write'))
  BY <1>3, <1>5 DEF Emitted, Grown
<1>7. Above(def', valid, Len(write'))
  <2>1. Above(def, valid, Len(write)) BY DEF Layout, InDef
  <2>2. PICK n \in Nat, m \in Nat : n = Len(write) /\ m = Len(write') /\ n <= m
    BY <1>3
  <2>3. PrologueLen \in Nat /\ valid \in Nat BY Lengths, PrologueLenIs
  <2> QED BY <1>5, <2>1, <2>2, <2>3 DEF Above
<1> QED BY <1>3, <1>4, <1>6, <1>7 DEF Layout, InDef

\* The word itself is what it was before the operation.
LEMMA SameGrown ==
  ASSUME Layout, def # NoDef, NEW n \in Nat, Len(write) <= n
  PROVE  Grown(def, n)
<1>1. Len(write) \in Nat /\ valid \in Nat BY Lengths
<1>2. InDef(def, valid, Len(write)) BY DEF Layout
<1>3. Places(def.fixes, valid, n) /\ Places(def.locfix, valid, n)
  BY <1>1, <1>2, PlacesMore DEF InDef
<1> QED BY <1>2, <1>3 DEF Grown, InDef, Above

\* A fixup is added for one of the instructions added.
LEMMA FixGrown ==
  ASSUME Layout, NEW m \in Nat, NEW n \in Nat, m <= n, NEW d, Grown(d, m),
         NEW f, f.at \in valid + 1 .. n
  PROVE  Grown([d EXCEPT !.fixes = Append(@, f)], n)
<1>1. valid \in Nat BY Lengths
<1>2. PICK e : e = [d EXCEPT !.fixes = Append(@, f)] OBVIOUS
<1>3. /\ DOMAIN e = Fields /\ e.prologue = d.prologue /\ e.inner = d.inner
      /\ e.saved = d.saved /\ e.locfix = d.locfix /\ e.fixes = Append(d.fixes, f)
  BY <1>2 DEF Grown, Fields
<1>4. Places(e.fixes, valid, n) BY <1>1, <1>3, PlacesAppend DEF Grown
<1>5. Places(e.locfix, valid, n) BY <1>1, <1>3, PlacesMore DEF Grown
<1>6. Grown(e, n) BY <1>3, <1>4, <1>5 DEF Grown
<1> QED BY <1>2, <1>6

LEMMA LocFixGrown ==
  ASSUME Layout, NEW m \in Nat, NEW n \in Nat, m <= n, NEW d, Grown(d, m),
         NEW f, f.at \in valid + 1 .. n
  PROVE  Grown([d EXCEPT !.locfix = Append(@, f)], n)
<1>1. valid \in Nat BY Lengths
<1>2. PICK e : e = [d EXCEPT !.locfix = Append(@, f)] OBVIOUS
<1>3. /\ DOMAIN e = Fields /\ e.prologue = d.prologue /\ e.inner = d.inner
      /\ e.saved = d.saved /\ e.fixes = d.fixes /\ e.locfix = Append(d.locfix, f)
  BY <1>2 DEF Grown, Fields
<1>4. Places(e.locfix, valid, n) BY <1>1, <1>3, PlacesAppend DEF Grown
<1>5. Places(e.fixes, valid, n) BY <1>1, <1>3, PlacesMore DEF Grown
<1>6. Grown(e, n) BY <1>3, <1>4, <1>5 DEF Grown
<1> QED BY <1>2, <1>6

\* What is known of a word besides.
LEMMA FlagGrown ==
  ASSUME NEW n, NEW d, Grown(d, n), NEW b
  PROVE  /\ Grown([d EXCEPT !.calls = b], n) /\ Grown([d EXCEPT !.alloca = b], n)
         /\ Grown([d EXCEPT !.loads = b], n)
<1>1. ASSUME NEW e, e = [d EXCEPT !.calls = b] PROVE Grown(e, n)
  <2>1. /\ DOMAIN e = Fields /\ e.prologue = d.prologue /\ e.inner = d.inner
        /\ e.saved = d.saved /\ e.fixes = d.fixes /\ e.locfix = d.locfix
    BY <1>1 DEF Grown, Fields
  <2> QED BY <2>1 DEF Grown
<1>2. ASSUME NEW e, e = [d EXCEPT !.alloca = b] PROVE Grown(e, n)
  <2>1. /\ DOMAIN e = Fields /\ e.prologue = d.prologue /\ e.inner = d.inner
        /\ e.saved = d.saved /\ e.fixes = d.fixes /\ e.locfix = d.locfix
    BY <1>2 DEF Grown, Fields
  <2> QED BY <2>1 DEF Grown
<1>3. ASSUME NEW e, e = [d EXCEPT !.loads = b] PROVE Grown(e, n)
  <2>1. /\ DOMAIN e = Fields /\ e.prologue = d.prologue /\ e.inner = d.inner
        /\ e.saved = d.saved /\ e.fixes = d.fixes /\ e.locfix = d.locfix
    BY <1>3 DEF Grown, Fields
  <2> QED BY <2>1 DEF Grown
<1> QED BY <1>1, <1>2, <1>3

-----------------------------------------------------------------------------
(* What is emitted *)

LEMMA Joined ==
  ASSUME NEW s, IsSeq(s), NEW t, IsSeq(t), NEW r, r = s \o t
  PROVE  IsSeq(r) /\ Len(r) = Len(s) + Len(t) /\ Len(s) \in Nat /\ Len(t) \in Nat
BY ConcatParts, SeqParts

LEMMA Ended ==
  ASSUME NEW s, IsSeq(s), NEW x, NEW r, r = Append(s, x)
  PROVE  IsSeq(r) /\ Len(r) = Len(s) + 1 /\ Len(s) \in Nat
BY AppendParts, SeqParts

LEMMA ImmToRegIsSeq ==
  ASSUME NEW r, NEW v
  PROVE  IsSeq(ImmToReg(r, v))
<1>1. Lanes \in Nat BY CodeAssumption
<1>2. Cardinality(MovedLanes(v)) \in Nat
  <2>1. IsFiniteSet(0 .. Lanes - 1)
    <3>1. 0 \in Int /\ Lanes - 1 \in Int BY <1>1
    <3> QED BY <3>1, FS_Interval
  <2>2. MovedLanes(v) \subseteq 0 .. Lanes - 1 \/ MovedLanes(v) = {0} BY DEF MovedLanes
  <2>3. IsFiniteSet(MovedLanes(v)) BY <2>1, <2>2, FS_Subset, FS_Singleton
  <2> QED BY <2>3, FS_CardinalityType
<1>3. PICK s : s = ImmToReg(r, v) OBVIOUS
<1>4. s = [n \in 1 .. Cardinality(MovedLanes(v)) |-> s[n]] BY <1>3 DEF ImmToReg
<1> QED BY <1>2, <1>3, <1>4, FunctionIsSeq

LEMMA PageAddrIsSeq ==
  ASSUME NEW r, NEW at, NEW adr
  PROVE  IsSeq(PageAddr(r, at, adr)) /\ IsSeq(PageLoad(r, at, adr))
<1>1. CASE adr % AdrPage = 0 BY <1>1, OnePart, PairParts DEF PageAddr, PageLoad
<1>2. CASE adr % AdrPage # 0 BY <1>2, PairParts DEF PageAddr, PageLoad
<1> QED BY <1>1, <1>2

LEMMA ZeroErrIsSeq ==
  ASSUME NEW d
  PROVE  IsSeq(ZeroErr(d))
<1>1. CASE d.err >= 0 BY <1>1, OnePart DEF ZeroErr
<1>2. CASE ~(d.err >= 0) BY <1>2, EmptyParts DEF ZeroErr
<1> QED BY <1>1, <1>2

\* The fixup of a try is for one of its instructions.
LEMMA TryCodeIs ==
  ASSUME NEW tar, NEW src, NEW at \in Nat, NEW t, t = TryCode(tar, src, at)
  PROVE  /\ IsSeq(t.code) /\ Len(t.code) \in Nat /\ t.fix.at \in at .. at + Len(t.code) - 1
<1>1. CASE tar = src
  <2>1. t.code = <<Brk("try")>> /\ t.fix.at = at BY <1>1 DEF TryCode, Fix
  <2>2. IsSeq(t.code) /\ Len(t.code) = 1 BY <2>1, OnePart
  <2> QED BY <2>1, <2>2
<1>2. CASE tar # src /\ tar > src
  <2>1. t.code = <<MovReg(tar, src), Brk("try")>> /\ t.fix.at = at + 1
    BY <1>2 DEF TryCode, Fix
  <2>2. IsSeq(t.code) /\ Len(t.code) = 2 BY <2>1, PairParts
  <2> QED BY <2>1, <2>2
<1>3. CASE tar # src /\ ~(tar > src)
  <2>1. /\ t.code = <<CompareBranch("cbz", src, 3), MovReg(tar, src), Brk("throw")>>
        /\ t.fix.at = at + 2
    BY <1>3 DEF TryCode, Fix
  <2>2. IsSeq(t.code) /\ Len(t.code) = 3 BY <2>1, ThreeParts
  <2> QED BY <2>1, <2>2
<1> QED BY <1>1, <1>2, <1>3

\* A call, with its try.
LEMMA WithTryIs ==
  ASSUME Layout, NEW c, IsSeq(c), NEW err, NEW d, Grown(d, Len(write) + Len(c)),
         WithTry(c, err, d)
  PROVE  \E b, e : Emitted(b, e)
<1>1. Len(write) \in Nat /\ Len(c) \in Nat /\ valid \in Nat /\ valid <= Len(write)
      /\ Next1 = Len(write) + 1
  BY Lengths, SeqParts
<1>2. PICK t : t = TryCode(d.err, err, Next1 + Len(c)) OBVIOUS
<1>3. IsSeq(t.code) /\ Len(t.code) \in Nat
      /\ t.fix.at \in Next1 + Len(c) .. Next1 + Len(c) + Len(t.code) - 1
  <2>1. Next1 + Len(c) \in Nat BY <1>1
  <2> QED BY <1>2, <2>1, TryCodeIs
<1>4. CASE d.err >= 0 /\ err >= 0
  <2>1. PICK b : b = c \o t.code OBVIOUS
  <2>2. IsSeq(b) /\ Len(b) = Len(c) + Len(t.code) BY <1>3, <2>1, Joined
  <2>3. PICK e : e = [d EXCEPT !.fixes = Append(@, t.fix)] OBVIOUS
  <2>4. Emit(b, e) BY <1>2, <1>4, <2>1, <2>3 DEF WithTry
  <2>5. Grown(e, Len(write) + Len(b))
    <3>1. PICK m \in Nat, n \in Nat :
            /\ m = Len(write) + Len(c) /\ n = Len(write) + Len(b) /\ m <= n
            /\ t.fix.at \in valid + 1 .. n
      <4>1. PICK w \in Nat, l \in Nat, k \in Nat :
              w = Len(write) /\ l = Len(c) /\ k = Len(t.code)
        BY <1>1, <1>3
      <4>2. /\ t.fix.at \in w + 1 + l .. w + 1 + l + k - 1 /\ Len(b) = l + k
            /\ valid \in Nat /\ valid <= w
        BY <1>1, <1>3, <2>2, <4>1
      <4>3. w + l \in Nat /\ w + (l + k) \in Nat /\ w + l <= w + (l + k)
        OBVIOUS
      <4>4. t.fix.at \in valid + 1 .. w + (l + k) BY <4>2
      <4> QED BY <4>1, <4>2, <4>3, <4>4
    <3>2. Grown(d, m) BY <3>1
    <3> QED BY <2>3, <3>1, <3>2, FixGrown
  <2> QED BY <2>2, <2>4, <2>5 DEF Emitted
<1>5. CASE ~(d.err >= 0 /\ err >= 0)
  <2>1. Emit(c, d) BY <1>5 DEF WithTry
  <2> QED BY <2>1 DEF Emitted
<1> QED BY <1>4, <1>5

LEMMA MaybeIs ==
  ASSUME NEW c, IsSeq(c), NEW b, b = Maybe(c)
  PROVE  IsSeq(b) /\ Len(b) = Len(c) + 1 /\ Len(c) \in Nat
<1>1. PICK o : o = <<I("b.cond", 0, 0, ImmSigned(Len(c) + 1, 19))>> /\ b = o \o c
  BY DEF Maybe
<1>2. IsSeq(o) /\ Len(o) = 1 BY <1>1, OnePart
<1>3. IsSeq(b) /\ Len(b) = Len(o) + Len(c) /\ Len(c) \in Nat BY <1>1, <1>2, Joined
<1> QED BY <1>2, <1>3

\* What is copied of a finished word.
LEMMA InlinedIsSeq ==
  ASSUME Layout, NEW w \in DOMAIN words
  PROVE  IsSeq(Inlined(w))
<1>1. /\ words[w].prologue \in 1 .. valid /\ words[w].ret \in words[w].prologue .. valid
      /\ valid \in Nat /\ IsSeq(write) /\ valid <= Len(write) /\ Len(write) \in Nat
  BY Lengths, SeqParts DEF Layout, WordsInside
<1>2. PICK p \in Nat \ {0}, q \in Nat :
        /\ p = words[w].prologue /\ q = words[w].ret - 1 /\ q - p + 1 \in Nat
        /\ q <= Len(write)
  <2>1. /\ words[w].prologue \in Nat \ {0} /\ words[w].ret - 1 \in Nat
        /\ words[w].ret - 1 - words[w].prologue + 1 \in Nat /\ words[w].ret - 1 <= Len(write)
    BY <1>1
  <2> QED BY <2>1
<1>3. PICK t : t = SubSeq(write, p, q) OBVIOUS
<1>4. t = [i \in 1 .. q - p + 1 |-> t[i]] /\ DOMAIN t = 1 .. q - p + 1
  <2>1. PICK S : write \in Seq(S) BY <1>1 DEF IsSeq
  <2>2. PICK n \in Nat : n = Len(write) /\ q <= n BY <1>1, <1>2
  <2>3. p \in Nat \ {0} /\ q \in Nat /\ q - p + 1 \in Nat BY <1>2
  <2>4. Len(t) = q - p + 1 /\ t \in Seq(S) BY <1>3, <2>1, <2>2, <2>3
  <2> QED BY <2>4
<1>5. PICK s : /\ s = Inlined(w)
               /\ s = [i \in DOMAIN t |->
                        IF def.err < 0 /\ t[i].tag = <<"throw">>
                        THEN Tagged(t[i], <<"none">>) ELSE t[i]]
  BY <1>2, <1>3 DEF Inlined
<1>6. s = [i \in 1 .. q - p + 1 |-> s[i]] BY <1>4, <1>5
<1> QED BY <1>2, <1>5, <1>6, FunctionIsSeq

-----------------------------------------------------------------------------
(* The operations of the compiler *)

\* Emit, without a fixup.
LEMMA PlainEmitted ==
  ASSUME Layout, def # NoDef, NEW c, IsSeq(c), NEW d, Emit(c, d),
         Grown(d, Len(write)) \/ d = def
  PROVE  \E b, e : Emitted(b, e)
<1>1. PICK w \in Nat, l \in Nat : w = Len(write) /\ l = Len(c) BY Lengths, SeqParts
<1>2. Grown(d, Len(write) + Len(c))
  <2>1. w + l \in Nat /\ w <= w + l OBVIOUS
  <2>2. CASE d = def BY <1>1, <2>1, <2>2, SameGrown
  <2>3. CASE Grown(d, Len(write))
    <3>1. valid \in Nat BY Lengths
    <3> QED BY <1>1, <2>1, <2>3, <3>1, PlacesMore DEF Grown
  <2> QED BY <2>2, <2>3
<1> QED BY <1>2 DEF Emitted

\* Emit, with a fixup of the last instruction, for a local or a branch.
LEMMA LocFixEmitted ==
  ASSUME Layout, def # NoDef, NEW c, IsSeq(c), Len(c) >= 1,
         NEW f, f.at = Len(write) + Len(c), Emit(c, [def EXCEPT !.locfix = Append(@, f)])
  PROVE  \E b, e : Emitted(b, e)
<1>1. PICK w \in Nat, l \in Nat : w = Len(write) /\ l = Len(c) BY Lengths, SeqParts
<1>2. w + l \in Nat /\ w <= w + l /\ f.at \in valid + 1 .. w + l BY <1>1, Lengths
<1>3. w <= w BY <1>1
<1>4. Grown(def, w) BY <1>1, <1>3, SameGrown
<1>5. PICK d : d = [def EXCEPT !.locfix = Append(@, f)] /\ Emit(c, d) OBVIOUS
<1>6. Grown(d, w + l) BY <1>2, <1>4, <1>5, LocFixGrown
<1> QED BY <1>1, <1>5, <1>6 DEF Emitted

LEMMA FixEmitted ==
  ASSUME Layout, def # NoDef, NEW c, IsSeq(c), Len(c) >= 1,
         NEW f, f.at = Len(write) + Len(c), Emit(c, [def EXCEPT !.fixes = Append(@, f)])
  PROVE  \E b, e : Emitted(b, e)
<1>1. PICK w \in Nat, l \in Nat : w = Len(write) /\ l = Len(c) BY Lengths, SeqParts
<1>2. w + l \in Nat /\ w <= w + l /\ f.at \in valid + 1 .. w + l BY <1>1, Lengths
<1>3. w <= w BY <1>1
<1>4. Grown(def, w) BY <1>1, <1>3, SameGrown
<1>5. PICK d : d = [def EXCEPT !.fixes = Append(@, f)] /\ Emit(c, d) OBVIOUS
<1>6. Grown(d, w + l) BY <1>2, <1>4, <1>5, FixGrown
<1> QED BY <1>1, <1>5, <1>6 DEF Emitted

LEMMA SetLocalEmitted ==
  ASSUME Layout, def # NoDef, NEW k, NEW v, SetLocal(k, v)
  PROVE  \E b, e : Emitted(b, e)
<1>1. PICK c : c = ImmToReg(ArgReg, v) /\ IsSeq(c) BY ImmToRegIsSeq
<1>2. PICK b : b = Append(c, Brk("reloc")) OBVIOUS
<1>3. PICK f : f = LocFix("reloc", Next1 + Len(c), k, ArgReg) OBVIOUS
<1>4. IsSeq(b) /\ Len(b) = Len(c) + 1 /\ Len(c) \in Nat BY <1>1, <1>2, Ended
<1>5. f.at = Next1 + Len(c) BY <1>3 DEF LocFix
<1>6. Len(b) >= 1 /\ f.at = Len(write) + Len(b) BY <1>4, <1>5, Lengths
<1>7. Emit(b, [def EXCEPT !.locfix = Append(@, f)]) BY <1>1, <1>2, <1>3 DEF SetLocal
<1> QED BY <1>4, <1>6, <1>7, LocFixEmitted

LEMMA ParamEmitted ==
  ASSUME Layout, def # NoDef, NEW k, Param(k) \/ GetLocal(k)
  PROVE  \E b, e : Emitted(b, e)
<1>1. CASE Param(k)
  <2>1. PICK b : b = <<Brk("reloc")>> /\ IsSeq(b) /\ Len(b) = 1 BY OnePart
  <2>2. PICK f : f = LocFix("reloc", Next1, k, k - 1) OBVIOUS
  <2>3. f.at = Len(write) + Len(b) /\ Len(b) >= 1 BY <2>1, <2>2, Lengths DEF LocFix
  <2>4. Emit(b, [def EXCEPT !.locfix = Append(@, f)]) BY <1>1, <2>1, <2>2 DEF Param
  <2> QED BY <2>1, <2>3, <2>4, LocFixEmitted
<1>2. CASE GetLocal(k)
  <2>1. PICK b : b = <<Brk("read")>> /\ IsSeq(b) /\ Len(b) = 1 BY OnePart
  <2>2. PICK f : f = LocFix("read", Next1, k, ArgReg) OBVIOUS
  <2>3. f.at = Len(write) + Len(b) /\ Len(b) >= 1 BY <2>1, <2>2, Lengths DEF LocFix
  <2>4. Emit(b, [def EXCEPT !.locfix = Append(@, f)]) BY <1>2, <2>1, <2>2 DEF GetLocal
  <2> QED BY <2>1, <2>3, <2>4, LocFixEmitted
<1> QED BY <1>1, <1>2

LEMMA AllocaEmitted ==
  ASSUME Layout, def # NoDef, (\E n : AllocaConst(n)) \/ AllocaDynamic
  PROVE  \E b, e : Emitted(b, e)
<1>1. PICK d : d = [def EXCEPT !.alloca = TRUE] OBVIOUS
<1>2. Grown(d, Len(write))
  <2>1. Len(write) \in Nat /\ Len(write) <= Len(write) BY Lengths
  <2>2. Grown(def, Len(write)) BY <2>1, SameGrown
  <2> QED BY <1>1, <2>2, FlagGrown
<1>3. ASSUME NEW n, AllocaConst(n) PROVE \E b, e : Emitted(b, e)
  <2>1. PICK c : c = <<SubImm(ArgReg, SP, Even(n)), AddImm(SP, ArgReg, 0)>> /\ IsSeq(c)
    BY PairParts
  <2>2. Emit(c, d) BY <1>1, <1>3, <2>1 DEF AllocaConst
  <2> QED BY <1>2, <2>1, <2>2, PlainEmitted
<1>4. CASE AllocaDynamic
  <2>1. PICK c : /\ c = <<I("subx", ArgReg, SP, ArgReg), I("and", ArgReg, ArgReg, 0),
                         AddImm(SP, ArgReg, 0)>>
                 /\ IsSeq(c)
    BY ThreeParts
  <2>2. Emit(c, d) BY <1>1, <1>4, <2>1 DEF AllocaDynamic
  <2> QED BY <1>2, <2>1, <2>2, PlainEmitted
<1> QED BY <1>3, <1>4

LEMMA LoadAddrEmitted ==
  ASSUME Layout, def # NoDef, NEW adr, LoadAddr(adr)
  PROVE  \E b, e : Emitted(b, e)
<1>1. PICK d : d = [def EXCEPT !.loads = TRUE] OBVIOUS
<1>2. Grown(d, Len(write))
  <2>1. Len(write) \in Nat /\ Len(write) <= Len(write) BY Lengths
  <2>2. Grown(def, Len(write)) BY <2>1, SameGrown
  <2> QED BY <1>1, <2>2, FlagGrown
<1>3. PICK c : c = PageAddr(ArgReg, Next1, adr) /\ IsSeq(c) BY PageAddrIsSeq
<1>4. Emit(c, d) BY <1>1, <1>3 DEF LoadAddr
<1> QED BY <1>2, <1>3, <1>4, PlainEmitted

\* Whatever is called.
LEMMA CalledEmitted ==
  ASSUME Layout, def # NoDef, NEW c, IsSeq(c), NEW err, NEW d,
         d = def \/ d = [def EXCEPT !.calls = TRUE], WithTry(c, err, d)
  PROVE  \E b, e : Emitted(b, e)
<1>1. PICK w \in Nat, l \in Nat : w = Len(write) /\ l = Len(c) BY Lengths, SeqParts
<1>2. w + l \in Nat /\ w <= w + l OBVIOUS
<1>3. Grown(def, w + l) BY <1>1, <1>2, SameGrown
<1>4. Grown(d, w + l) BY <1>3, FlagGrown
<1> QED BY <1>1, <1>4, WithTryIs

LEMMA CallEmitted ==
  ASSUME Layout, def # NoDef, NEW w \in DOMAIN words, Call(w)
  PROVE  (\E b, e : Emitted(b, e)) /\ (exec' = exec \/ exec' = Synced)
<1>1. CASE words[w].inlinable
  <2>1. WithTry(Inlined(w), words[w].err, def) /\ exec' = exec BY <1>1 DEF Call
  <2>2. IsSeq(Inlined(w)) BY InlinedIsSeq
  <2> QED BY <2>1, <2>2, CalledEmitted
<1>2. CASE ~words[w].inlinable
  <2>1. PICK c : c = <<BranchLink(words[w].prologue - Next1)>> /\ IsSeq(c) BY OnePart
  <2>2. PICK d : d = [def EXCEPT !.calls = TRUE] OBVIOUS
  <2>3. WithTry(c, words[w].err, d) /\ (exec' = exec \/ exec' = Synced)
    BY <1>2, <2>1, <2>2 DEF Call, EnsureReady
  <2> QED BY <2>1, <2>2, <2>3, CalledEmitted
<1> QED BY <1>1, <1>2

LEMMA CallIntrinEmitted ==
  ASSUME Layout, def # NoDef, CallIntrin
  PROVE  \E b, e : Emitted(b, e)
<1>1. PICK beg : /\ beg = <<MovReg(0, Ctx), SubImm(SP, SP, 2), AddImm(1, SP, 0)>>
                 /\ IsSeq(beg)
  BY ThreeParts
<1>2. PICK end : /\ end = <<I("blr", GotReg, 0, 0), AddImm(SP, SP, 2), MovReg(1, 0),
                           Tagged(LoadUnscaled(0, SP, -2), <<"out">>)>>
                 /\ IsSeq(end)
  BY FourParts
<1>3. PICK load : load = PageLoad(GotReg, Next1 + Len(beg), Got) /\ IsSeq(load)
  BY PageAddrIsSeq
<1>4. PICK most : most = beg \o load OBVIOUS
<1>5. PICK c : c = most \o end OBVIOUS
<1>6. IsSeq(most) BY <1>1, <1>3, <1>4, Joined
<1>7. IsSeq(c) BY <1>2, <1>5, <1>6, Joined
<1>8. PICK d : d = [def EXCEPT !.calls = TRUE] OBVIOUS
<1>9. WithTry(c, 1, d) BY <1>1, <1>2, <1>3, <1>4, <1>5, <1>8 DEF CallIntrin
<1> QED BY <1>7, <1>8, <1>9, CalledEmitted

LEMMA RetEmitted ==
  ASSUME Layout, def # NoDef, Ret
  PROVE  \E b, e : Emitted(b, e)
<1>1. PICK z : z = ZeroErr(def) /\ IsSeq(z) BY ZeroErrIsSeq
<1>2. PICK c : c = Append(z, Brk("ret")) OBVIOUS
<1>3. IsSeq(c) BY <1>1, <1>2, Ended
<1>4. PICK b : b = Maybe(c) OBVIOUS
<1>5. IsSeq(b) /\ Len(b) = Len(c) + 1 /\ Len(c) \in Nat BY <1>3, <1>4, MaybeIs
<1>6. PICK f : f = Fix("ret", Next1 + Len(c), 0) OBVIOUS
<1>7. f.at = Next1 + Len(c) BY <1>6 DEF Fix
<1>8. f.at = Len(write) + Len(b) /\ Len(b) >= 1 BY <1>5, <1>7, Lengths
<1>9. Emit(b, [def EXCEPT !.fixes = Append(@, f)])
  BY <1>1, <1>2, <1>4, <1>6 DEF Ret
<1> QED BY <1>5, <1>8, <1>9, FixEmitted

LEMMA ThrowEmitted ==
  ASSUME Layout, def # NoDef, Throw
  PROVE  \E b, e : Emitted(b, e)
<1>1. PICK imm : imm = ImmToReg(0, Thrown) /\ IsSeq(imm) BY ImmToRegIsSeq
<1>2. PICK mov : mov = (IF def.err # 0 THEN <<MovReg(def.err, 0)>> ELSE <<>>) OBVIOUS
<1>3. IsSeq(mov)
  <2>1. CASE def.err # 0 BY <1>2, <2>1, OnePart
  <2>2. CASE def.err = 0 BY <1>2, <2>2, EmptyParts
  <2> QED BY <2>1, <2>2
<1>4. PICK brk : brk = <<Tagged(Brk("throw"), <<"throw">>)>> /\ IsSeq(brk) BY OnePart
<1>5. PICK most : most = imm \o mov OBVIOUS
<1>6. PICK c : c = most \o brk OBVIOUS
<1>7. IsSeq(most) BY <1>1, <1>3, <1>5, Joined
<1>8. IsSeq(c) BY <1>4, <1>6, <1>7, Joined
<1>9. PICK b : b = Maybe(c) OBVIOUS
<1>10. IsSeq(b) /\ Len(b) = Len(c) + 1 /\ Len(c) \in Nat BY <1>8, <1>9, MaybeIs
<1>11. PICK f : f = Fix("throw", Next1 + Len(c), 0) OBVIOUS
<1>12. f.at = Next1 + Len(c) BY <1>11 DEF Fix
<1>13. f.at = Len(write) + Len(b) /\ Len(b) >= 1 BY <1>10, <1>12, Lengths
<1>14. Emit(b, [def EXCEPT !.fixes = Append(@, f)])
  BY <1>1, <1>2, <1>4, <1>5, <1>6, <1>9, <1>11 DEF Throw
<1> QED BY <1>10, <1>13, <1>14, FixEmitted

\* A call of itself and, if it may fail, its try.
RecurFixes(d, fixes) == [d EXCEPT !.calls = TRUE, !.fixes = @ \o fixes]

LEMMA PlacesConcat ==
  ASSUME NEW fs, NEW v \in Nat, NEW n \in Nat, NEW m \in Nat, n <= m, Places(fs, v, n),
         NEW ts, Places(ts, v, m), NEW gs, gs = fs \o ts
  PROVE  Places(gs, v, m)
<1>1. PICK l \in Nat, k \in Nat : l = Len(fs) /\ k = Len(ts) BY SeqParts DEF Places
<1>2. /\ IsSeq(gs) /\ Len(gs) = l + k /\ \A i \in 1 .. l : gs[i] = fs[i]
      /\ \A i \in 1 .. k : gs[l + i] = ts[i]
  BY <1>1, ConcatParts DEF Places
<1>3. ASSUME NEW i \in 1 .. l + k PROVE gs[i].at \in v + 1 .. m
  <2>1. CASE i \in 1 .. l BY <1>1, <1>2, <2>1 DEF Places
  <2>2. CASE i \in l + 1 .. l + k
    <3>1. PICK j \in 1 .. k : i = l + j
      <4>1. i - l \in 1 .. k /\ i = l + (i - l) BY <2>2
      <4> QED BY <4>1
    <3> QED BY <1>1, <1>2, <3>1 DEF Places
  <2> QED BY <1>1, <2>1, <2>2
<1> QED BY <1>2, <1>3 DEF Places

LEMMA RecurGrown ==
  ASSUME Layout, def # NoDef, NEW n \in Nat, Len(write) <= n,
         NEW ts, Places(ts, valid, n), NEW d, d = RecurFixes(def, ts)
  PROVE  Grown(d, n)
<1>1. Len(write) \in Nat /\ Len(write) <= Len(write) /\ valid \in Nat BY Lengths
<1>2. Grown(def, Len(write)) BY <1>1, SameGrown
<1>3. /\ DOMAIN d = Fields /\ d.prologue = def.prologue /\ d.inner = def.inner
      /\ d.saved = def.saved /\ d.locfix = def.locfix /\ d.fixes = def.fixes \o ts
  BY <1>2 DEF RecurFixes, Grown, Fields
<1>4. Places(d.fixes, valid, n)
  <2>1. PICK gs : gs = def.fixes \o ts OBVIOUS
  <2>2. Places(def.fixes, valid, Len(write)) BY <1>2 DEF Grown
  <2>3. Places(gs, valid, n) BY <1>1, <2>1, <2>2, PlacesConcat
  <2> QED BY <1>3, <2>1, <2>3
<1>5. Places(d.locfix, valid, n) BY <1>1, <1>2, <1>3, PlacesMore DEF Grown
<1> QED BY <1>3, <1>4, <1>5 DEF Grown

LEMMA RecurEmitted ==
  ASSUME Layout, def # NoDef, Recur
  PROVE  \E b, e : Emitted(b, e)
<1>1. PICK w \in Nat : w = Len(write) /\ Next1 = w + 1 /\ valid \in Nat /\ valid <= w
  BY Lengths
<1>2. PICK t : t = TryCode(def.err, def.err, Next1 + 2) OBVIOUS
<1>3. PICK f : f = Fix("recur", Next1 + 1, 0) OBVIOUS
<1>15. f.at = w + 2
  <2>1. f.at = Next1 + 1 BY <1>3 DEF Fix
  <2> QED BY <1>1, <2>1
<1>4. PICK r : r = <<Brk("recur")>> /\ IsSeq(r) /\ Len(r) = 1 BY OnePart
<1>5. PICK c : c = (IF def.err >= 0 THEN r \o t.code ELSE r) OBVIOUS
<1>6. PICK ts : ts = (IF def.err >= 0 THEN <<f, t.fix>> ELSE <<f>>) OBVIOUS
<1>7. PICK b : b = Maybe(c) OBVIOUS
<1>8. PICK d : d = RecurFixes(def, ts) OBVIOUS
<1>9. Emit(b, d)
  BY <1>2, <1>3, <1>4, <1>5, <1>6, <1>7, <1>8 DEF Recur, RecurFixes
<1>10. IsSeq(b) /\ Len(b) \in Nat /\ Places(ts, valid, w + Len(b))
  <2>1. CASE def.err >= 0
    <3>1. PICK k \in Nat : /\ IsSeq(t.code) /\ Len(t.code) = k
                           /\ t.fix.at \in w + 3 .. w + 3 + k - 1
      <4>1. Next1 + 2 \in Nat /\ Next1 + 2 = w + 3 BY <1>1
      <4>2. /\ IsSeq(t.code) /\ Len(t.code) \in Nat
            /\ t.fix.at \in w + 3 .. w + 3 + Len(t.code) - 1
        BY <1>2, <4>1, TryCodeIs
      <4> QED BY <4>2
    <3>2. c = r \o t.code BY <1>5, <2>1
    <3>3. IsSeq(c) /\ Len(c) = 1 + k
      <4>1. PICK u : u = t.code /\ IsSeq(u) /\ Len(u) = k /\ c = r \o u BY <3>1, <3>2
      <4>2. IsSeq(c) /\ Len(c) = Len(r) + Len(u) BY <1>4, <4>1, Joined
      <4> QED BY <1>4, <4>1, <4>2
    <3>4. IsSeq(b) /\ Len(b) = k + 2 BY <1>7, <3>3, MaybeIs
    <3>5. ts = <<f, t.fix>> BY <1>6, <2>1
    <3>6. IsSeq(ts) /\ Len(ts) = 2 /\ ts[1] = f /\ ts[2] = t.fix BY <3>5, PairParts
    <3>7. ASSUME NEW i \in 1 .. 2 PROVE ts[i].at \in valid + 1 .. w + (k + 2)
      <4>1. CASE i = 1 BY <1>1, <1>15, <3>1, <3>6, <4>1
      <4>2. CASE i = 2 BY <1>1, <3>1, <3>6, <4>2
      <4> QED BY <4>1, <4>2
    <3> QED BY <3>4, <3>6, <3>7 DEF Places
  <2>2. CASE ~(def.err >= 0)
    <3>1. c = r BY <1>5, <2>2
    <3>2. IsSeq(b) /\ Len(b) = 2
      <4>1. IsSeq(c) /\ Len(c) = 1 BY <1>4, <3>1
      <4>2. IsSeq(b) /\ Len(b) = Len(c) + 1 BY <1>7, <4>1, MaybeIs
      <4> QED BY <4>1, <4>2
    <3>3. ts = <<f>> BY <1>6, <2>2
    <3>4. IsSeq(ts) /\ Len(ts) = 1 /\ ts[1] = f BY <3>3, OnePart
    <3>5. \A i \in 1 .. 1 : ts[i].at \in valid + 1 .. w + 2 BY <1>1, <1>15, <3>4
    <3> QED BY <3>2, <3>4, <3>5 DEF Places
  <2> QED BY <2>1, <2>2
<1>11. PICK l \in Nat : l = Len(b) BY <1>10
<1>12. w + l \in Nat /\ w <= w + l OBVIOUS
<1>13. Grown(d, w + l) BY <1>1, <1>8, <1>10, <1>11, <1>12, RecurGrown
<1> QED BY <1>1, <1>9, <1>10, <1>11, <1>13 DEF Emitted

LEMMA CompileEmitted ==
  ASSUME Layout, NEW t \in Tokens, Compile(t)
  PROVE  /\ def # NoDef /\ \E b, e : Emitted(b, e)
         /\ UNCHANGED <<valid, words>> /\ (exec' = exec \/ exec' = Synced)
<1>1. def # NoDef BY DEF Tokens
<1>2. /\ \E b, e : Emitted(b, e)
      /\ UNCHANGED <<valid, words>> /\ (exec' = exec \/ exec' = Synced)
  <2>1. CASE SetLocal(t[2], t[3]) BY <1>1, <2>1, SetLocalEmitted DEF SetLocal, Straight
  <2>2. CASE Param(t[2]) \/ GetLocal(t[2])
    BY <1>1, <2>2, ParamEmitted DEF Param, GetLocal, Straight
  <2>3. CASE AllocaConst(t[2]) \/ AllocaDynamic
    BY <1>1, <2>3, AllocaEmitted DEF AllocaConst, AllocaDynamic, Straight
  <2>4. CASE LoadAddr(t[2]) BY <1>1, <2>4, LoadAddrEmitted DEF LoadAddr, Straight
  <2>5. CASE t[2] \in DOMAIN words /\ Call(t[2]) BY <1>1, <2>5, CallEmitted DEF Call
  <2>6. CASE CallIntrin BY <1>1, <2>6, CallIntrinEmitted DEF CallIntrin, Straight
  <2>7. CASE Recur BY <1>1, <2>7, RecurEmitted DEF Recur, Straight
  <2>8. CASE Ret BY <1>1, <2>8, RetEmitted DEF Ret, Straight
  <2>9. CASE Throw BY <1>1, <2>9, ThrowEmitted DEF Throw, Straight
  <2> QED BY <2>1, <2>2, <2>3, <2>4, <2>5, <2>6, <2>7, <2>8, <2>9 DEF Compile
<1> QED BY <1>1, <1>2

LEMMA CompileLayout ==
  ASSUME Layout, NEW t \in Tokens, Compile(t)
  PROVE  Layout'
BY CompileEmitted, EmittedLayout

LEMMA BeginLayout ==
  ASSUME Layout, NEW err, Begin(err)
  PROVE  Layout'
<1>1. PICK w \in Nat, l \in Nat :
        /\ w = Len(write) /\ l = PrologueLen /\ valid \in Nat /\ valid <= w
  BY Lengths, PrologueLenIs
<1>2. PICK c : c = [n \in 1 .. PrologueLen |-> Brk("prologue")] /\ write' = write \o c
  BY DEF Begin
<1>3. c = [n \in 1 .. l |-> c[n]] BY <1>1, <1>2
<1>4. IsSeq(c) /\ Len(c) = l BY <1>3, FunctionIsSeq
<1>5. Copied' /\ Len(write') = w + l
  <2>1. Copied /\ UNCHANGED <<valid, exec>> BY DEF Layout, Begin
  <2>2. Copied' /\ Len(write') = Len(write) + Len(c) BY <1>2, <1>4, <2>1, WrittenCopied
  <2> QED BY <1>1, <1>4, <2>2
<1>6. WordsInside' BY DEF Layout, WordsInside, Begin
<1>7. InDef(def', valid', w + l)
  <2>1. /\ DOMAIN def' = Fields /\ def'.prologue = w + 1 /\ def'.inner = w + 1 + l
        /\ def'.saved = 0 /\ def'.fixes = <<>> /\ def'.locfix = <<>>
    BY <1>1 DEF Begin, Fields
  <2>2. IsSeq(<<>>) /\ \A i \in 1 .. Len(<<>>) : FALSE BY EmptyParts
  <2>3. Places(def'.fixes, valid', w + l) /\ Places(def'.locfix, valid', w + l)
    BY <2>1, <2>2 DEF Places
  <2>4. 0 \in 0 .. LastStable BY CodeAssumption DEF LastStable, FirstStable
  <2>5. valid' = valid /\ l >= 3 BY <1>1, PrologueLenIs DEF Begin
  <2>6. w + 1 \in valid' + 1 .. w + l /\ w + 1 + l <= w + l + 1 BY <1>1, <2>5
  <2> QED BY <1>1, <2>1, <2>3, <2>4, <2>6 DEF InDef, Above
<1> QED BY <1>5, <1>6, <1>7 DEF Layout

-----------------------------------------------------------------------------
(* The end of a word: locals *)

\* The loop of asm_fixup_locals.
LEMMA LocalsFixed ==
  ASSUME NEW s, NEW fs, IsSeq(fs), NEW f, f = FixingLocals(s, fs)
  PROVE  f[0] = s /\ \A n \in 1 .. Len(fs) : f[n] = FixLocal(f[n - 1], fs[n])
<1>1. PICK l \in Nat : l = Len(fs) BY SeqParts
<1> DEFINE Upto(g, n) == /\ g = [m \in 0 .. n |-> g[m]] /\ g[0] = s
                         /\ \A i \in 1 .. n : g[i] = FixLocal(g[i - 1], fs[i])
           S == {n \in 0 .. l : \E g : Upto(g, n)}
<1>2. 0 \in S
  <2>1. Upto([m \in 0 .. 0 |-> s], 0) OBVIOUS
  <2> HIDE DEF Upto
  <2> QED BY <2>1
<1>3. ASSUME NEW n \in 0 .. l - 1, n \in S PROVE n + 1 \in S
  <2>1. PICK g : Upto(g, n)
    <3> HIDE DEF Upto
    <3> QED BY <1>3
  <2>2. PICK h : h = [m \in 0 .. n + 1 |->
                       IF m = n + 1 THEN FixLocal(g[n], fs[n + 1]) ELSE g[m]]
    OBVIOUS
  <2>3. h = [m \in 0 .. n + 1 |-> h[m]] BY <2>2
  <2>4. \A m \in 0 .. n : h[m] = g[m] BY <2>2
  <2>5. h[n + 1] = FixLocal(g[n], fs[n + 1]) BY <2>2
  <2>6. ASSUME NEW i \in 1 .. n + 1 PROVE h[i] = FixLocal(h[i - 1], fs[i])
    <3>1. CASE i = n + 1
      <4>1. i - 1 = n /\ n \in 0 .. n BY <3>1
      <4>2. h[i - 1] = g[n] BY <2>4, <4>1
      <4> QED BY <2>5, <3>1, <4>2
    <3>2. CASE i \in 1 .. n
      <4>1. h[i] = g[i] /\ h[i - 1] = g[i - 1] BY <2>4, <3>2
      <4> QED BY <2>1, <3>2, <4>1
    <3> QED BY <3>1, <3>2
  <2>7. h[0] = s BY <2>1, <2>4
  <2>8. Upto(h, n + 1) BY <2>3, <2>6, <2>7
  <2>9. n + 1 \in 0 .. l BY <1>1
  <2> HIDE DEF Upto
  <2> QED BY <2>8, <2>9
<1>4. l \in S
  <2> HIDE DEF S
  <2>1. \A n \in 0 .. l : n \in S BY <1>2, <1>3, InductTo
  <2> QED BY <2>1
<1>5. PICK g : Upto(g, l) BY <1>4
<1>6. g = [n \in 0 .. Len(fs) |->
            IF n = 0 THEN s ELSE FixLocal(g[n - 1], fs[n])]
  BY <1>1, <1>5
<1>7. f = [n \in 0 .. Len(fs) |->
            IF n = 0 THEN s ELSE FixLocal(f[n - 1], fs[n])]
  BY <1>6 DEF FixingLocals
<1> QED BY <1>1, <1>7

\* The code and the word while locals are fixed.
Homing(s, n) ==
  /\ IsSeq(s.code) /\ Len(s.code) = n
  /\ \A i \in 1 .. valid : s.code[i] = write[i]
  /\ Above(s.d, valid, n) /\ s.d.fixes = def.fixes

LEMMA ResolveAbove ==
  ASSUME NEW v \in Nat, NEW n \in Nat, NEW d, Above(d, v, n), NEW k, NEW e, e = Resolve(d, k)
  PROVE  Above(e, v, n) /\ e.fixes = d.fixes
<1>1. StableRegs \in Nat /\ StableRegs >= 1 BY CodeAssumption
<1>2. CASE d.homes[k] # <<"unknown">> BY <1>2 DEF Resolve
<1>3. CASE d.homes[k] = <<"unknown">> /\ d.saved < LastStable
  <2>1. PICK r : r = IF d.saved = 0 THEN FirstStable ELSE d.saved + 1 OBVIOUS
  <2>2. e = [d EXCEPT !.saved = r, !.homes[k] = <<"reg", r>>]
    BY <1>3, <2>1 DEF Resolve
  <2>3. /\ DOMAIN e = Fields /\ e.prologue = d.prologue /\ e.inner = d.inner
        /\ e.fixes = d.fixes /\ e.saved = r
    BY <2>2 DEF Above, Fields
  <2>4. r \in 0 .. LastStable
    BY <1>1, <1>3, <2>1 DEF Above, LastStable, FirstStable
  <2> QED BY <2>3, <2>4 DEF Above
<1>4. CASE d.homes[k] = <<"unknown">> /\ ~(d.saved < LastStable)
  <2>1. PICK o : o = IF d.fpOff = 0 THEN RecordSize ELSE d.fpOff OBVIOUS
  <2>2. e = [d EXCEPT !.fpOff = o + 1, !.homes[k] = <<"mem", o>>]
    BY <1>4, <2>1 DEF Resolve
  <2>3. /\ DOMAIN e = Fields /\ e.prologue = d.prologue /\ e.inner = d.inner
        /\ e.fixes = d.fixes /\ e.saved = d.saved
    BY <2>2 DEF Above, Fields
  <2> QED BY <2>3 DEF Above
<1> QED BY <1>2, <1>3, <1>4

LEMMA FixLocalHoming ==
  ASSUME valid \in Nat, NEW n \in Nat, NEW s, Homing(s, n),
         NEW fix, fix.at \in valid + 1 .. n, NEW t, t = FixLocal(s, fix)
  PROVE  Homing(t, n)
<1>1. PICK d : d = Resolve(s.d, fix.loc) OBVIOUS
<1>2. Above(d, valid, n) /\ d.fixes = def.fixes
  BY <1>1, ResolveAbove DEF Homing
<1>3. PICK x, e :
        /\ t = [code |-> [s.code EXCEPT ![fix.at] = x], d |-> e]
        /\ \/ e = d
           \/ e = s.d
           \/ fix.at = s.d.inner /\ e = [s.d EXCEPT !.prologue = @ + 1, !.inner = @ + 1]
  <2>1. CASE fix.type = "read" BY <1>1, <2>1 DEF FixLocal
  <2>2. CASE fix.type # "read" /\ Confirmed(s.d, fix.loc) BY <1>1, <2>2 DEF FixLocal
  <2>3. CASE fix.type # "read" /\ ~Confirmed(s.d, fix.loc) /\ fix.at = s.d.inner
    BY <1>1, <2>3 DEF FixLocal
  <2>4. CASE fix.type # "read" /\ ~Confirmed(s.d, fix.loc) /\ fix.at # s.d.inner
    BY <1>1, <2>4 DEF FixLocal
  <2> QED BY <2>1, <2>2, <2>3, <2>4
<1>4. PICK c : c = [s.code EXCEPT ![fix.at] = x] OBVIOUS
<1>5. t.code = c /\ t.d = e BY <1>3, <1>4
<1>6. /\ IsSeq(c) /\ Len(c) = n /\ \A i \in 1 .. n : i # fix.at => c[i] = s.code[i]
  <2>1. PICK a : a = s.code /\ IsSeq(a) /\ Len(a) = n BY DEF Homing
  <2>2. c = [a EXCEPT ![fix.at] = x] BY <1>4, <2>1
  <2>3. c = [i \in DOMAIN a |-> c[i]] BY <2>2
  <2>4. IsSeq(a) BY <2>1
  <2>5. IsSeq(c) /\ Len(c) = Len(a) /\ DOMAIN a = 1 .. Len(a)
    BY <2>3, <2>4, PatchedParts, SeqParts
  <2>6. \A i \in DOMAIN a : i # fix.at => c[i] = a[i] BY <2>2
  <2> QED BY <2>1, <2>5, <2>6
<1>7. \A i \in 1 .. valid : c[i] = write[i] BY <1>6 DEF Homing
<1>8. Above(e, valid, n) /\ e.fixes = def.fixes
  <2>1. CASE e = d BY <1>2, <2>1
  <2>2. CASE e = s.d BY <2>2 DEF Homing
  <2>3. CASE fix.at = s.d.inner /\ e = [s.d EXCEPT !.prologue = @ + 1, !.inner = @ + 1]
    <3>1. Above(s.d, valid, n) /\ s.d.fixes = def.fixes BY DEF Homing
    <3>2. /\ DOMAIN e = Fields /\ e.prologue = s.d.prologue + 1
          /\ e.inner = s.d.inner + 1 /\ e.fixes = s.d.fixes /\ e.saved = s.d.saved
      BY <2>3, <3>1 DEF Above, Fields
    <3>3. PICK p \in Nat, l \in Nat :
            /\ p = s.d.prologue /\ l = PrologueLen /\ l >= 3 /\ s.d.inner = p + l
            /\ p \in valid + 1 .. n
      BY <3>1, PrologueLenIs DEF Above
    <3>4. p + l <= n BY <2>3, <3>3
    <3>5. e.prologue \in valid + 1 .. n /\ e.inner = e.prologue + l /\ e.inner <= n + 1
      BY <3>2, <3>3, <3>4
    <3> QED BY <3>1, <3>2, <3>3, <3>5 DEF Above
  <2> QED BY <1>3, <2>1, <2>2, <2>3
<1> QED BY <1>5, <1>6, <1>7, <1>8 DEF Homing

LEMMA LocalsHoming ==
  ASSUME valid \in Nat, NEW n \in Nat, NEW s, Homing(s, n),
         NEW fs, Places(fs, valid, n), NEW t, t = FixingLocals(s, fs)[Len(fs)]
  PROVE  Homing(t, n)
<1>1. IsSeq(fs) /\ \A i \in 1 .. Len(fs) : fs[i].at \in valid + 1 .. n BY DEF Places
<1>2. PICK l \in Nat : l = Len(fs) BY <1>1, SeqParts
<1>3. PICK f : f = FixingLocals(s, fs) OBVIOUS
<1>4. f[0] = s /\ \A i \in 1 .. Len(fs) : f[i] = FixLocal(f[i - 1], fs[i])
  BY <1>1, <1>3, LocalsFixed
<1> DEFINE S == {i \in 0 .. l : Homing(f[i], n)}
<1>5. 0 \in S BY <1>4
<1>6. \A i \in 0 .. l - 1 : i \in S => i + 1 \in S
  <2> SUFFICES ASSUME NEW i \in 0 .. l - 1, Homing(f[i], n) PROVE Homing(f[i + 1], n)
    OBVIOUS
  <2>1. PICK j \in 1 .. Len(fs) : j = i + 1 /\ j - 1 = i BY <1>2
  <2>2. PICK fix : fix = fs[j] /\ fix.at \in valid + 1 .. n BY <1>1, <2>1
  <2>3. f[j] = FixLocal(f[i], fix) BY <1>4, <2>1, <2>2
  <2>4. Homing(f[j], n) BY <2>2, <2>3, FixLocalHoming
  <2> QED BY <2>1, <2>4
<1>7. l \in S
  <2> HIDE DEF S
  <2>1. \A i \in 0 .. l : i \in S BY <1>5, <1>6, InductTo
  <2> QED BY <2>1
<1> QED BY <1>2, <1>3, <1>7

-----------------------------------------------------------------------------
(* The end of a word: branches *)

\* The loop of asm_fixup.
LEMMA BranchesFixed ==
  ASSUME NEW s, NEW fs, IsSeq(fs), NEW p, NEW q, NEW f, f = FixingBranches(s, fs, p, q)
  PROVE  f[0] = s /\ \A n \in 1 .. Len(fs) : f[n] = FixBranch(f[n - 1], fs[n], p, q)
<1>1. PICK l \in Nat : l = Len(fs) BY SeqParts
<1> DEFINE Upto(g, n) == /\ g = [m \in 0 .. n |-> g[m]] /\ g[0] = s
                         /\ \A i \in 1 .. n : g[i] = FixBranch(g[i - 1], fs[i], p, q)
           S == {n \in 0 .. l : \E g : Upto(g, n)}
<1>2. 0 \in S
  <2>1. Upto([m \in 0 .. 0 |-> s], 0) OBVIOUS
  <2> HIDE DEF Upto
  <2> QED BY <2>1
<1>3. ASSUME NEW n \in 0 .. l - 1, n \in S PROVE n + 1 \in S
  <2>1. PICK g : Upto(g, n)
    <3> HIDE DEF Upto
    <3> QED BY <1>3
  <2>2. PICK h : h = [m \in 0 .. n + 1 |->
                       IF m = n + 1 THEN FixBranch(g[n], fs[n + 1], p, q) ELSE g[m]]
    OBVIOUS
  <2>3. h = [m \in 0 .. n + 1 |-> h[m]] BY <2>2
  <2>4. \A m \in 0 .. n : h[m] = g[m] BY <2>2
  <2>5. h[n + 1] = FixBranch(g[n], fs[n + 1], p, q) BY <2>2
  <2>6. ASSUME NEW i \in 1 .. n + 1 PROVE h[i] = FixBranch(h[i - 1], fs[i], p, q)
    <3>1. CASE i = n + 1
      <4>1. i - 1 = n /\ n \in 0 .. n BY <3>1
      <4>2. h[i - 1] = g[n] BY <2>4, <4>1
      <4> QED BY <2>5, <3>1, <4>2
    <3>2. CASE i \in 1 .. n
      <4>1. h[i] = g[i] /\ h[i - 1] = g[i - 1] BY <2>4, <3>2
      <4> QED BY <2>1, <3>2, <4>1
    <3> QED BY <3>1, <3>2
  <2>7. h[0] = s BY <2>1, <2>4
  <2>8. Upto(h, n + 1) BY <2>3, <2>6, <2>7
  <2>9. n + 1 \in 0 .. l BY <1>1
  <2> HIDE DEF Upto
  <2> QED BY <2>8, <2>9
<1>4. l \in S
  <2> HIDE DEF S
  <2>1. \A n \in 0 .. l : n \in S BY <1>2, <1>3, InductTo
  <2> QED BY <2>1
<1>5. PICK g : Upto(g, l) BY <1>4
<1>6. g = [n \in 0 .. Len(fs) |->
            IF n = 0 THEN s ELSE FixBranch(g[n - 1], fs[n], p, q)]
  BY <1>1, <1>5
<1>7. f = [n \in 0 .. Len(fs) |->
            IF n = 0 THEN s ELSE FixBranch(f[n - 1], fs[n], p, q)]
  BY <1>6 DEF FixingBranches
<1> QED BY <1>1, <1>7

\* The code of a word which ends at n, over what is finished.
Finishing(c, n) == IsSeq(c) /\ Len(c) = n /\ \A i \in 1 .. valid : c[i] = write[i]

LEMMA FixBranchFinishing ==
  ASSUME valid \in Nat, NEW n \in Nat, valid <= n, NEW c, Finishing(c, n), NEW fix,
         fix.at \in valid + 1 .. n, NEW p, NEW q, NEW d, d = FixBranch(c, fix, p, q)
  PROVE  Finishing(d, n)
<1>1. IsSeq(c) /\ Len(c) = n BY DEF Finishing
<1>2. d = [i \in DOMAIN c |-> d[i]] BY DEF FixBranch
<1>3. \A i \in DOMAIN c : i # fix.at => d[i] = c[i] BY DEF FixBranch
<1>4. IsSeq(d) /\ Len(d) = Len(c) /\ DOMAIN c = 1 .. Len(c)
  BY <1>1, <1>2, PatchedParts, SeqParts
<1>5. \A i \in 1 .. valid : i \in DOMAIN c /\ i # fix.at BY <1>1, <1>4
<1>6. \A i \in 1 .. valid : d[i] = write[i] BY <1>3, <1>5 DEF Finishing
<1> QED BY <1>1, <1>4, <1>6 DEF Finishing

LEMMA BranchesFinishing ==
  ASSUME valid \in Nat, NEW n \in Nat, valid <= n, NEW c, Finishing(c, n), NEW fs,
         Places(fs, valid, n), NEW p, NEW q, NEW d, d = FixingBranches(c, fs, p, q)[Len(fs)]
  PROVE  Finishing(d, n)
<1>1. IsSeq(fs) /\ \A i \in 1 .. Len(fs) : fs[i].at \in valid + 1 .. n BY DEF Places
<1>2. PICK l \in Nat : l = Len(fs) BY <1>1, SeqParts
<1>3. PICK f : f = FixingBranches(c, fs, p, q) OBVIOUS
<1>4. f[0] = c /\ \A i \in 1 .. Len(fs) : f[i] = FixBranch(f[i - 1], fs[i], p, q)
  BY <1>1, <1>3, BranchesFixed
<1> DEFINE S == {i \in 0 .. l : Finishing(f[i], n)}
<1>5. 0 \in S BY <1>4
<1>6. \A i \in 0 .. l - 1 : i \in S => i + 1 \in S
  <2> SUFFICES ASSUME NEW i \in 0 .. l - 1, Finishing(f[i], n) PROVE Finishing(f[i + 1], n)
    OBVIOUS
  <2>1. PICK j \in 1 .. Len(fs) : j = i + 1 /\ j - 1 = i BY <1>2
  <2>2. PICK fix : fix = fs[j] /\ fix.at \in valid + 1 .. n BY <1>1, <2>1
  <2>3. f[j] = FixBranch(f[i], fix, p, q) BY <1>4, <2>1, <2>2
  <2>4. Finishing(f[j], n) BY <2>2, <2>3, FixBranchFinishing
  <2> QED BY <2>1, <2>4
<1>7. l \in S
  <2> HIDE DEF S
  <2>1. \A i \in 0 .. l : i \in S BY <1>5, <1>6, InductTo
  <2> QED BY <2>1
<1> QED BY <1>2, <1>3, <1>7

-----------------------------------------------------------------------------
(* The end of a word: its frame *)

\* The number of pairs of saved registers, and whether one is left over.
LEMMA SavedIs ==
  ASSUME NEW saved \in 0 .. LastStable, NEW pairs, pairs = SavedPairs(saved)
  PROVE  \E k \in Nat :
           /\ DOMAIN pairs = 1 .. k /\ Len(pairs) = k
           /\ k + (IF SavedSingle(saved) THEN 1 ELSE 0) + 3 <= PrologueLen
<1>1. StableRegs \in Nat /\ StableRegs >= 1 BY CodeAssumption
<1>2. PICK l \in Nat : l = PrologueLen /\ l >= 3 BY PrologueLenIs
<1>3. CASE saved < FirstStable
  <2>1. pairs = <<>> /\ ~SavedSingle(saved) BY <1>3 DEF SavedPairs, SavedSingle, FirstStable
  <2>2. DOMAIN pairs = 1 .. 0 /\ Len(pairs) = 0 BY <2>1
  <2> QED BY <1>2, <2>1, <2>2
<1>4. CASE saved >= FirstStable
  <2>1. PICK m \in Nat : m = saved - FirstStable + 1 /\ m >= 1 /\ m <= StableRegs
    BY <1>1, <1>4 DEF LastStable, FirstStable
  <2>2. PICK k \in Nat : k = m \div 2 BY <2>1
  <2>3. pairs = [n \in 1 .. k |-> saved - 2 * (n - 1)]
    BY <1>4, <2>1, <2>2 DEF SavedPairs, FirstStable
  <2>4. pairs = [n \in 1 .. k |-> pairs[n]] /\ DOMAIN pairs = 1 .. k BY <2>3
  <2>5. Len(pairs) = k BY <2>4, FunctionIsSeq
  <2>6. SavedSingle(saved) => (m - 1) % 2 = 0
    BY <2>1 DEF SavedSingle, FirstStable
  <2>7. l = 3 + (StableRegs + (StableRegs % 2)) \div 2 BY <1>2 DEF PrologueLen, Even
  <2>8. k + 3 <= l BY <1>1, <2>1, <2>2, <2>7
  <2>9. (m - 1) % 2 = 0 => k + 4 <= l BY <1>1, <2>1, <2>2, <2>7
  <2>10. CASE SavedSingle(saved)
    <3>1. k + (IF SavedSingle(saved) THEN 1 ELSE 0) + 3 <= PrologueLen
      BY <1>2, <2>6, <2>9, <2>10
    <3> QED BY <2>4, <2>5, <3>1
  <2>11. CASE ~SavedSingle(saved)
    <3>1. k + (IF SavedSingle(saved) THEN 1 ELSE 0) + 3 <= PrologueLen
      BY <1>2, <2>8, <2>11
    <3> QED BY <2>4, <2>5, <3>1
  <2> QED BY <2>10, <2>11
<1> QED BY <1>1, <1>3, <1>4 DEF LastStable, FirstStable

LEMMA FramePushIs ==
  ASSUME NEW off
  PROVE  /\ IsSeq(FramePush(off)) /\ Len(FramePush(off)) \in 2 .. 3 /\ IsSeq(FramePop(off))
<1>1. CASE off <= PairMax
  <2>1. IsSeq(FramePop(off)) BY <1>1, OnePart DEF FramePop
  <2>2. IsSeq(FramePush(off)) /\ Len(FramePush(off)) = 2 BY <1>1, PairParts DEF FramePush
  <2> QED BY <2>1, <2>2
<1>2. CASE ~(off <= PairMax)
  <2>1. IsSeq(FramePop(off)) BY <1>2, PairParts DEF FramePop
  <2>2. IsSeq(FramePush(off)) /\ Len(FramePush(off)) = 3 BY <1>2, ThreeParts DEF FramePush
  <2> QED BY <2>1, <2>2
<1> QED BY <1>1, <1>2

\* The prologue fits into the space which is reserved for it.
LEMMA PrologueFits ==
  ASSUME NEW d, d.saved \in 0 .. LastStable, NEW p, p = Prologue(d)
  PROVE  IsSeq(p) /\ Len(p) \in 0 .. PrologueLen
<1>1. PICK pairs : pairs = SavedPairs(d.saved) OBVIOUS
<1>2. PICK k \in Nat :
        /\ DOMAIN pairs = 1 .. k
        /\ k + (IF SavedSingle(d.saved) THEN 1 ELSE 0) + 3 <= PrologueLen
  BY <1>1, SavedIs
<1>3. PICK a : a = IF SavedSingle(d.saved) THEN <<StorePre(FirstStable, -2)>> ELSE <<>>
  OBVIOUS
<1>4. PICK b : b = [n \in DOMAIN pairs |->
                     LET r == pairs[Len(pairs) + 1 - n] IN Pair("stp!", r - 1, r, -2)]
  OBVIOUS
<1>5. PICK c : c = IF HasFrame(d) THEN FramePush(FrameSize(d)) ELSE <<>> OBVIOUS
<1>6. PICK q : q = a \o b OBVIOUS
<1>7. p = q \o c BY <1>1, <1>3, <1>4, <1>5, <1>6 DEF Prologue
<1>8. IsSeq(a) /\ Len(a) = IF SavedSingle(d.saved) THEN 1 ELSE 0
  <2>1. CASE SavedSingle(d.saved) BY <1>3, <2>1, OnePart
  <2>2. CASE ~SavedSingle(d.saved) BY <1>3, <2>2, EmptyParts
  <2> QED BY <2>1, <2>2
<1>9. IsSeq(b) /\ Len(b) = k
  <2>1. b = [n \in 1 .. k |-> b[n]] BY <1>2, <1>4
  <2> QED BY <2>1, FunctionIsSeq
<1>10. IsSeq(c) /\ Len(c) \in 0 .. 3
  <2>1. CASE HasFrame(d) BY <1>5, <2>1, FramePushIs
  <2>2. CASE ~HasFrame(d) BY <1>5, <2>2, EmptyParts
  <2> QED BY <2>1, <2>2
<1>11. IsSeq(q) /\ Len(q) = Len(a) + Len(b) BY <1>6, <1>8, <1>9, Joined
<1>12. IsSeq(p) /\ Len(p) = Len(q) + Len(c) BY <1>7, <1>10, <1>11, Joined
<1>13. PICK l \in Nat : l = PrologueLen BY PrologueLenIs
<1>14. PICK x \in 0 .. 1 : x = Len(a) /\ x = IF SavedSingle(d.saved) THEN 1 ELSE 0 BY <1>8
<1>15. x + k + 3 <= l
  <2>1. k + x + 3 <= l BY <1>2, <1>13, <1>14
  <2> QED BY <2>1
<1>16. Len(q) = x + k BY <1>9, <1>11, <1>14
<1>17. PICK z \in 0 .. 3 : z = Len(c) BY <1>10
<1>18. Len(p) = x + k + z BY <1>12, <1>16, <1>17
<1>19. x + k + z \in 0 .. l BY <1>13, <1>15
<1> QED BY <1>12, <1>13, <1>18, <1>19

LEMMA EpilogueIsSeq ==
  ASSUME NEW d, d.saved \in 0 .. LastStable
  PROVE  IsSeq(Epilogue(d))
<1>1. PICK pairs : pairs = SavedPairs(d.saved) OBVIOUS
<1>2. PICK k \in Nat : DOMAIN pairs = 1 .. k BY <1>1, SavedIs
<1>3. PICK a : a = IF HasFrame(d) /\ d.alloca THEN <<AddImm(SP, FP, 0)>> ELSE <<>> OBVIOUS
<1>4. PICK b : b = IF HasFrame(d) THEN FramePop(FrameSize(d)) ELSE <<>> OBVIOUS
<1>5. PICK c : c = [n \in DOMAIN pairs |-> Pair("ldp!", pairs[n] - 1, pairs[n], 2)] OBVIOUS
<1>6. PICK e : e = IF SavedSingle(d.saved) THEN <<LoadPost(FirstStable, 2)>> ELSE <<>>
  OBVIOUS
<1>7. PICK q : q = a \o b OBVIOUS
<1>8. PICK r : r = q \o c OBVIOUS
<1>9. PICK s : s = r \o e OBVIOUS
<1>10. s = Epilogue(d) BY <1>1, <1>3, <1>4, <1>5, <1>6, <1>7, <1>8, <1>9 DEF Epilogue
<1>11. IsSeq(a)
  <2>1. CASE HasFrame(d) /\ d.alloca BY <1>3, <2>1, OnePart
  <2>2. CASE ~(HasFrame(d) /\ d.alloca) BY <1>3, <2>2, EmptyParts
  <2> QED BY <2>1, <2>2
<1>12. IsSeq(b)
  <2>1. CASE HasFrame(d) BY <1>4, <2>1, FramePushIs
  <2>2. CASE ~HasFrame(d) BY <1>4, <2>2, EmptyParts
  <2> QED BY <2>1, <2>2
<1>13. IsSeq(c)
  <2>1. c = [n \in 1 .. k |-> c[n]] BY <1>2, <1>5
  <2> QED BY <2>1, FunctionIsSeq
<1>14. IsSeq(e)
  <2>1. CASE SavedSingle(d.saved) BY <1>6, <2>1, OnePart
  <2>2. CASE ~SavedSingle(d.saved) BY <1>6, <2>2, EmptyParts
  <2> QED BY <2>1, <2>2
<1>15. IsSeq(q) BY <1>7, <1>11, <1>12, Joined
<1>16. IsSeq(r) BY <1>8, <1>13, <1>15, Joined
<1>17. IsSeq(s) BY <1>9, <1>14, <1>16, Joined
<1> QED BY <1>10, <1>17

-----------------------------------------------------------------------------
(* The steps *)

\* Before locals are fixed.
LEMMA EndStarts ==
  ASSUME Layout, def # NoDef, NEW zero, zero = ZeroErr(def),
         NEW s, s = [code |-> write \o zero, d |-> def]
  PROVE  \E n \in Nat : /\ Homing(s, n) /\ n = Len(write) + Len(zero) /\ Len(write) <= n
                       /\ IsSeq(zero) /\ Len(zero) \in Nat
<1>1. PICK w \in Nat : w = Len(write) /\ valid \in Nat /\ valid <= w /\ IsSeq(write)
  BY Lengths
<1>2. InDef(def, valid, w) BY <1>1 DEF Layout
<1>3. IsSeq(zero) BY ZeroErrIsSeq
<1>4. PICK start : start = write \o zero OBVIOUS
<1>5. IsSeq(start) /\ Len(start) = Len(write) + Len(zero) /\ Len(zero) \in Nat
  BY <1>1, <1>3, <1>4, Joined
<1>6. PICK k \in Nat, n \in Nat : k = Len(zero) /\ n = w + k /\ w <= n
  <2>1. PICK k \in Nat : k = Len(zero) BY <1>5
  <2>2. w + k \in Nat /\ w <= w + k OBVIOUS
  <2> QED BY <2>1, <2>2
<1>7. Homing(s, n)
  <2>1. s.code = start /\ s.d = def BY <1>4
  <2>2. \A i \in 1 .. Len(write) : start[i] = write[i] BY <1>1, <1>3, <1>4, ConcatParts
  <2>3. \A i \in 1 .. valid : start[i] = write[i] BY <1>1, <2>2
  <2>4. PrologueLen \in Nat BY PrologueLenIs
  <2>5. Above(def, valid, n) BY <1>1, <1>2, <1>6, <2>4 DEF InDef, Above
  <2>6. Len(start) = n BY <1>1, <1>5, <1>6
  <2> QED BY <1>5, <2>1, <2>3, <2>5, <2>6 DEF Homing
<1> QED BY <1>1, <1>3, <1>6, <1>7

\* Where the prologue begins, before the body.
LEMMA EndBegins ==
  ASSUME Layout, NEW n \in Nat, NEW d, Above(d, valid, n), NEW pro, pro = Prologue(d),
         NEW beg, beg = d.inner - Len(pro)
  PROVE  /\ IsSeq(pro) /\ Len(pro) \in Nat /\ beg \in valid + 1 .. n + 1
         /\ d.inner = beg + Len(pro) /\ d.inner <= n + 1
<1>1. valid \in Nat BY Lengths
<1>2. IsSeq(pro) /\ Len(pro) \in 0 .. PrologueLen BY PrologueFits DEF Above
<1>3. PICK p \in Nat, l \in Nat, k \in Nat :
        /\ p = d.prologue /\ l = PrologueLen /\ k = Len(pro) /\ k <= l /\ d.inner = p + l
        /\ p >= valid + 1 /\ p + l <= n + 1
  <2>1. PrologueLen \in Nat BY PrologueLenIs
  <2>2. Len(pro) \in Nat /\ Len(pro) <= PrologueLen BY <1>2, <2>1
  <2>3. d.prologue \in valid + 1 .. n /\ d.inner = d.prologue + PrologueLen
        /\ d.inner <= n + 1
    BY DEF Above
  <2>4. d.prologue \in Nat /\ d.prologue >= valid + 1 BY <1>1, <2>3
  <2> QED BY <2>1, <2>2, <2>3, <2>4
<1>4. d.inner = p + l /\ Len(pro) = k BY <1>3
<1>5. beg = p + l - k BY <1>4
<1>6. PICK v \in Nat : v = valid BY <1>1
<1>7. p >= v + 1 /\ p + l <= n + 1 /\ k <= l BY <1>3, <1>6
<1>8. p + l - k \in v + 1 .. n + 1 /\ p + l = (p + l - k) + k BY <1>7
<1>9. beg \in v + 1 .. n + 1 BY <1>5, <1>8
<1>10. beg \in valid + 1 .. n + 1 BY <1>6, <1>9
<1>11. d.inner = beg + Len(pro) BY <1>4, <1>5, <1>8
<1>12. d.inner <= n + 1 BY DEF Above
<1>13. Len(pro) \in Nat BY <1>4
<1> QED BY <1>2, <1>10, <1>11, <1>12, <1>13

LEMMA EndLayout ==
  ASSUME Layout, End
  PROVE  Layout'
<1>1. PICK w \in Nat : w = Len(write) /\ valid \in Nat /\ valid <= w /\ IsSeq(write)
  BY Lengths
<1>2. def # NoDef BY DEF End
<1>3. InDef(def, valid, w) BY <1>1, <1>2 DEF Layout
<1>4. PICK zero : zero = ZeroErr(def) OBVIOUS
<1>5. PICK s : s = [code |-> write \o zero, d |-> def] OBVIOUS
<1>6. PICK n \in Nat : Homing(s, n) /\ w <= n BY <1>1, <1>2, <1>4, <1>5, EndStarts
<1>9. PICK body : body = FixingLocals(s, def.locfix)[Len(def.locfix)] OBVIOUS
<1>10. Homing(body, n)
  <2>1. Places(def.locfix, valid, n) BY <1>1, <1>3, <1>6, PlacesMore DEF InDef
  <2> QED BY <1>1, <1>6, <1>9, <2>1, LocalsHoming
<1>11. PICK d : d = body.d /\ Above(d, valid, n) /\ d.fixes = def.fixes
  BY <1>10 DEF Homing
<1>12. PICK pro : pro = Prologue(d) OBVIOUS
<1>13. PICK beg : beg = d.inner - Len(pro) OBVIOUS
<1>14. beg \in valid + 1 .. n + 1 BY <1>11, <1>12, <1>13, EndBegins
<1>15. PICK epi : epi = Len(body.code) + 1 OBVIOUS
<1>16. PICK a : a = body.code /\ IsSeq(a) /\ Len(a) = n
                /\ \A i \in 1 .. valid : a[i] = write[i]
  BY <1>10 DEF Homing
<1>17. PICK fill : fill = [i \in DOMAIN body.code |->
                            IF i \in beg .. d.inner - 1
                            THEN pro[i - beg + 1] ELSE body.code[i]]
  OBVIOUS
<1>18. Finishing(fill, n)
  <2>1. fill = [i \in DOMAIN a |-> fill[i]] BY <1>16, <1>17
  <2>2. IsSeq(a) /\ Len(a) = n BY <1>16
  <2>3. IsSeq(fill) /\ Len(fill) = n /\ DOMAIN a = 1 .. n
    BY <2>1, <2>2, PatchedParts, SeqParts
  <2>4. \A i \in 1 .. valid : i \notin beg .. d.inner - 1 /\ i \in 1 .. n
    BY <1>1, <1>6, <1>14
  <2>5. \A i \in 1 .. valid : fill[i] = a[i] BY <1>16, <1>17, <2>3, <2>4
  <2>6. \A i \in 1 .. valid : a[i] = write[i] BY <1>16
  <2> QED BY <2>3, <2>5, <2>6 DEF Finishing
<1>19. PICK after : after = Append(Epilogue(d), RetInstr) OBVIOUS
<1>20. IsSeq(after) /\ Len(after) \in Nat /\ Len(after) >= 1
  <2>1. PICK e : e = Epilogue(d) /\ IsSeq(e) BY <1>11, EpilogueIsSeq DEF Above
  <2>2. after = Append(e, RetInstr) BY <1>19, <2>1
  <2>3. IsSeq(e) BY <2>1
  <2>4. IsSeq(after) /\ Len(after) = Len(e) + 1 /\ Len(e) \in Nat BY <2>2, <2>3, Ended
  <2> QED BY <2>4
<1>21. PICK code : code = fill \o after OBVIOUS
<1>22. PICK m \in Nat : Finishing(code, m) /\ m >= n + 1
  <2>1. IsSeq(fill) /\ Len(fill) = n /\ \A i \in 1 .. valid : fill[i] = write[i]
    BY <1>18 DEF Finishing
  <2>2. IsSeq(code) /\ Len(code) = Len(fill) + Len(after) BY <1>20, <1>21, <2>1, Joined
  <2>3. \A i \in 1 .. Len(fill) : code[i] = fill[i] BY <1>20, <1>21, <2>1, ConcatParts
  <2>4. \A i \in 1 .. valid : i \in 1 .. n BY <1>1, <1>6
  <2>5. \A i \in 1 .. valid : code[i] = write[i] BY <2>1, <2>3, <2>4
  <2>6. PICK k \in Nat : k = Len(after) /\ k >= 1 BY <1>20
  <2>7. Len(code) = n + k BY <2>1, <2>2, <2>6
  <2>8. n + k \in Nat /\ n + k >= n + 1 BY <2>6
  <2> QED BY <2>2, <2>5, <2>7, <2>8 DEF Finishing
<1>23. /\ write' = FixingBranches(code, d.fixes, beg, epi)[Len(d.fixes)]
       /\ valid' = Len(code)
       /\ words' = Append(words,
            [err |-> d.err, prologue |-> beg, ret |-> Len(code), ceil |-> Len(code) + 1,
             leaf |-> ~d.calls, inlinable |-> Inlinable(d, epi)])
  BY <1>4, <1>5, <1>9, <1>11, <1>12, <1>13, <1>15, <1>17, <1>19, <1>21 DEF End
<1>24. def' = NoDef /\ exec' = exec BY DEF End
<1>25. Finishing(write', m)
  <2>1. Places(d.fixes, valid, w) BY <1>3, <1>11 DEF InDef
  <2>2. w <= m /\ valid <= m BY <1>1, <1>6, <1>22
  <2>3. Places(d.fixes, valid, m) BY <1>1, <2>1, <2>2, PlacesMore
  <2> QED BY <1>1, <1>22, <1>23, <2>2, <2>3, BranchesFinishing
<1>26. valid' = m BY <1>22, <1>23 DEF Finishing
<1>27. Copied'
  <2>1. /\ IsSeq(exec) /\ Len(exec) <= valid /\ \A i \in 1 .. Len(exec) : exec[i] = write[i]
    BY DEF Layout, Copied
  <2>2. Len(exec) \in Nat BY <2>1, SeqParts
  <2>3. /\ IsSeq(write') /\ Len(write') = m
        /\ \A i \in 1 .. valid : write'[i] = write[i]
    BY <1>25 DEF Finishing
  <2>4. \A i \in 1 .. Len(exec) : exec[i] = write'[i] BY <1>1, <2>1, <2>2, <2>3
  <2>5. Len(exec) <= m BY <1>1, <1>6, <1>22, <2>1, <2>2
  <2> QED BY <1>24, <1>26, <2>1, <2>3, <2>4, <2>5 DEF Copied
<1>28. WordsInside'
  <2>1. /\ IsSeq(words)
        /\ \A i \in 1 .. Len(words) :
             words[i].prologue \in 1 .. valid /\ words[i].ret \in words[i].prologue .. valid
    BY DEF Layout, WordsInside
  <2>2. PICK rec : /\ words' = Append(words, rec) /\ rec.prologue = beg /\ rec.ret = m
    BY <1>22, <1>23 DEF Finishing
  <2>3. PICK k \in Nat : k = Len(words) BY <2>1, SeqParts
  <2>4. /\ IsSeq(words') /\ Len(words') = k + 1 /\ words'[k + 1] = rec
        /\ \A i \in 1 .. k : words'[i] = words[i]
    BY <2>1, <2>2, <2>3, AppendParts
  <2>5. beg \in 1 .. m /\ m \in beg .. m BY <1>1, <1>14, <1>22
  <2>6. \A i \in 1 .. k : words[i].prologue \in 1 .. m /\ words[i].ret \in words[i].prologue .. m
    BY <1>1, <1>6, <1>22, <2>1, <2>3
  <2>7. ASSUME NEW i \in 1 .. k + 1
        PROVE  words'[i].prologue \in 1 .. m /\ words'[i].ret \in words'[i].prologue .. m
    <3>1. CASE i = k + 1 BY <2>2, <2>4, <2>5, <3>1
    <3>2. CASE i \in 1 .. k BY <2>4, <2>6, <3>2
    <3> QED BY <3>1, <3>2
  <2> QED BY <1>26, <2>4, <2>7 DEF WordsInside
<1> QED BY <1>24, <1>27, <1>28 DEF Layout

LEMMA SyncLayout ==
  ASSUME Layout, exec' = exec \/ exec' = Synced, UNCHANGED <<write, valid, words, def>>
  PROVE  Layout'
<1>1. Copied BY DEF Layout
<1>2. /\ IsSeq(exec') /\ Len(exec') <= valid
      /\ \A i \in 1 .. Len(exec') : exec'[i] = write[i]
  BY <1>1, SyncedCopied
<1>3. Copied' BY <1>1, <1>2 DEF Copied
<1>4. WordsInside' BY DEF Layout, WordsInside
<1> QED BY <1>3, <1>4 DEF Layout, InDef, Above, Places

LEMMA NextLayout ==
  ASSUME Layout, [Next]_vars
  PROVE  Layout'
<1>1. CASE \E err \in {-1, 0, 1} : Begin(err) BY <1>1, BeginLayout
<1>2. CASE \E t \in Tokens : Compile(t) BY <1>2, CompileLayout
<1>3. CASE \E w \in DOMAIN words : Run(w)
  <2>1. exec' = exec \/ exec' = Synced BY <1>3 DEF Run, EnsureReady
  <2>2. UNCHANGED <<write, valid, words, def>> BY <1>3 DEF Run
  <2> QED BY <2>1, <2>2, SyncLayout
<1>4. CASE End BY <1>4, EndLayout
<1>5. CASE Fail
  <2>1. UNCHANGED <<write, exec, valid, words>> /\ def' = NoDef
    BY <1>5 DEF Fail, heapVars
  <2>2. Copied' BY <2>1 DEF Layout, Copied
  <2>3. WordsInside' BY <2>1 DEF Layout, WordsInside
  <2> QED BY <2>1, <2>2, <2>3 DEF Layout
<1>6. CASE Step
  <2>1. UNCHANGED <<write, exec, valid, words, def>>
    BY <1>6 DEF Step, heapVars, Compute, StoreLocal, Push, Pop, Branch, CallWord,
                TooDeep, CallOut, Return
  <2> QED BY <2>1, SyncLayout
<1>7. CASE UNCHANGED vars
  <2>1. UNCHANGED <<write, exec, valid, words, def>> BY <1>7 DEF vars
  <2> QED BY <2>1, SyncLayout
<1> QED BY <1>1, <1>2, <1>3, <1>4, <1>5, <1>6, <1>7 DEF Next

LEMMA InitLayout == Init => Layout
<1> SUFFICES ASSUME Init PROVE Layout OBVIOUS
<1>1. write = <<>> /\ exec = <<>> /\ valid = 0 /\ words = <<>> /\ def = NoDef BY DEF Init
<1>2. IsSeq(<<>>) /\ Len(<<>>) = 0 BY EmptyParts
<1> QED BY <1>1, <1>2 DEF Layout, Copied, WordsInside

LEMMA LayoutMeansWritten == Layout => ExecIsWritten
<1> SUFFICES ASSUME Layout PROVE ExecIsWritten OBVIOUS
<1>1. /\ IsSeq(write) /\ IsSeq(exec) /\ Len(exec) <= valid /\ valid \in 0 .. Len(write)
      /\ \A i \in 1 .. Len(exec) : exec[i] = write[i]
  BY DEF Layout, Copied
<1>2. Len(write) \in Nat /\ Len(exec) \in Nat BY <1>1, SeqParts
<1>3. PICK n \in 0 .. Len(write) : n = Len(exec) BY <1>1, <1>2
<1>4. PICK t : t = SubSeq(write, 1, n) OBVIOUS
<1>5. IsSeq(t) /\ Len(t) = n /\ \A i \in 1 .. n : t[i] = write[i]
  BY <1>1, <1>4, PrefixParts
<1>6. exec = t
  <2>1. IsSeq(exec) /\ IsSeq(t) /\ Len(exec) = Len(t) BY <1>1, <1>3, <1>5
  <2>2. \A i \in 1 .. Len(exec) : exec[i] = t[i] BY <1>1, <1>3, <1>5
  <2> QED BY <2>1, <2>2, SameSeq
<1> QED BY <1>3, <1>4, <1>6 DEF ExecIsWritten

\* What is executed is what was compiled: no finished instruction which was copied is
\* patched, overwritten or missed, whatever is compiled, given up, fixed up or run in
\* between, for any programs and sizes (comp_code_sync, comp_code_ensure_sym_ready,
\* asm_fixup, asm_fixup_locals, asm_fixup_sym_prologue and interp_rewind).
THEOREM CopiedCodeStays == Spec => []ExecIsWritten
<1>1. Init => Layout BY InitLayout
<1>2. Layout /\ [Next]_vars => Layout' BY NextLayout
<1>3. Layout => ExecIsWritten BY LayoutMeansWritten
<1> QED BY <1>1, <1>2, <1>3, PTL DEF Spec

-----------------------------------------------------------------------------
(* Offsets of branches *)

\* For a divisor and a number which is not negative, a remainder is what it is said to be.
LEMMA RemainderOf ==
  ASSUME NEW b \in Nat, NEW q \in Int, NEW r \in Nat, r < b, NEW a \in Int, a = b * q + r
  PROVE  a % b = r
<1>1. b >= 1 OBVIOUS
<1>2. PICK x \in Int, y \in Nat : y = a % b /\ a = b * x + y /\ y < b
  <2>1. a \div b \in Int /\ a % b \in Nat /\ a % b < b BY <1>1
  <2>2. PICK x \in Int, y \in Nat : x = a \div b /\ y = a % b BY <2>1
  <2>3. a = b * x + y BY <1>1, <2>2
  <2> QED BY <2>1, <2>2, <2>3
<1>3. ~(y < r)
  <2>1. SUFFICES ASSUME y < r PROVE FALSE OBVIOUS
  <2>2. r - y = b * (x - q) BY <1>2
  <2>3. r - y \in Int /\ x - q \in Int /\ 0 < r - y /\ r - y < b BY <2>1
  <2> QED BY <2>2, <2>3, NoSmallMultiple
<1>4. ~(r < y)
  <2>1. SUFFICES ASSUME r < y PROVE FALSE OBVIOUS
  <2>2. y - r = b * (q - x) BY <1>2
  <2>3. y - r \in Int /\ q - x \in Int /\ 0 < y - r /\ y - r < b BY <1>2, <2>1
  <2> QED BY <2>2, <2>3, NoSmallMultiple
<1> QED BY <1>2, <1>3, <1>4

\* The processor takes an immediate for what the compiler meant, if it fits: what
\* imm_signed makes sure of.
LEMMA SignedField ==
  ASSUME NEW k \in Nat, NEW h, h = 2 ^ k, NEW bits, bits = k + 1,
         NEW v \in Int, -h <= v, v < h
  PROVE  Signed(ImmSigned(v, bits), bits) = v
<1>1. h \in Nat /\ h >= 1 /\ 2 ^ bits = 2 * h BY PowerNext, PowerPositive
<1>2. bits - 1 = k OBVIOUS
<1>3. PICK m \in Nat : m = 2 * h /\ m = 2 ^ bits BY <1>1
<1>4. CASE v >= 0
  <2>1. v % m = v
    <3>1. v = m * 0 + v /\ v \in Nat /\ v < m BY <1>1, <1>3, <1>4
    <3> QED BY <3>1, RemainderOf
  <2>2. ImmSigned(v, bits) = v BY <1>3, <2>1 DEF ImmSigned
  <2>3. Signed(v, bits) = v BY <1>1, <1>2 DEF Signed
  <2> QED BY <2>2, <2>3
<1>5. CASE v < 0
  <2>1. v % m = v + m
    <3>1. v = m * (-1) + (v + m) /\ v + m \in Nat /\ v + m < m BY <1>1, <1>3, <1>5
    <3> QED BY <3>1, RemainderOf
  <2>2. ImmSigned(v, bits) = v + m BY <1>3, <2>1 DEF ImmSigned
  <2>3. v + m >= h /\ v + m - m = v BY <1>1, <1>3
  <2>4. Signed(v + m, bits) = v BY <1>1, <1>2, <1>3, <2>3 DEF Signed
  <2> QED BY <2>2, <2>4
<1> QED BY <1>4, <1>5

\* What conditional and unconditional branches reach, in instructions.
NearReach == 2 ^ 18
FarReach == 2 ^ 25

LEMMA Reaches ==
  /\ NearReach \in Nat /\ FarReach \in Nat /\ NearReach > 3
  /\ \A v \in Int : -NearReach <= v /\ v < NearReach => Signed(ImmSigned(v, 19), 19) = v
  /\ \A v \in Int : -FarReach <= v /\ v < FarReach => Signed(ImmSigned(v, 26), 26) = v
<1>1. NearReach \in Nat /\ FarReach \in Nat BY PowerPositive DEF NearReach, FarReach
<1>2. NearReach > 3
  <2> DEFINE S == {n \in Nat : 2 ^ n > n}
  <2>1. 0 \in S BY PowerZero
  <2>2. ASSUME NEW n \in Nat, n \in S PROVE n + 1 \in S
    <3>1. PICK p \in Nat : p = 2 ^ n /\ p > n BY <2>2, PowerPositive
    <3>2. 2 ^ (n + 1) = 2 * p BY <3>1, PowerNext
    <3>3. 2 * p > n + 1 BY <3>1
    <3> QED BY <3>2, <3>3
  <2> HIDE DEF S
  <2>3. \A n \in Nat : n \in S BY <2>1, <2>2, Induct
  <2>4. 18 \in S BY <2>3
  <2>5. 2 ^ 18 > 18 BY <2>4 DEF S
  <2>6. PICK p \in Nat : p = 2 ^ 18 /\ p > 18 BY <2>5, PowerPositive
  <2>7. p > 3 BY <2>6
  <2> QED BY <2>6, <2>7 DEF NearReach
<1>3. ASSUME NEW v \in Int, -NearReach <= v, v < NearReach
      PROVE  Signed(ImmSigned(v, 19), 19) = v
  <2>1. NearReach = 2 ^ 18 /\ 19 = 18 + 1 /\ 18 \in Nat BY DEF NearReach
  <2> QED BY <1>3, <2>1, SignedField
<1>4. ASSUME NEW v \in Int, -FarReach <= v, v < FarReach
      PROVE  Signed(ImmSigned(v, 26), 26) = v
  <2>1. FarReach = 2 ^ 25 /\ 26 = 25 + 1 /\ 25 \in Nat BY DEF FarReach
  <2> QED BY <1>4, <2>1, SignedField
<1> QED BY <1>1, <1>2, <1>3, <1>4

-----------------------------------------------------------------------------
(* Instructions which do not run away *)

Jumps == {"b", "cbz", "cbnz", "b.cond"}
Off(i) == Signed(i.imm, IF i.op \in {"b", "bl"} THEN 26 ELSE 19)
IsInstr(i) == "op" \in DOMAIN i /\ "imm" \in DOMAIN i

\* An instruction at p which is no placeholder, whose branches go forward and no
\* further than hi, and whose calls are of T.
Lands(i, p, hi, T) ==
  /\ IsInstr(i) /\ i.op # "brk"
  /\ i.op \in Jumps => Off(i) \in 1 .. hi - p
  /\ i.op = "bl" => p + Off(i) \in T

\* The same of the first n words.
Prologues(n) == {words[w].prologue : w \in 1 .. n}
Fine(i, p, hi, n) == Lands(i, p, hi, Prologues(n))

\* One which goes nowhere.
Plain(i) == IsInstr(i) /\ i.op \notin {"brk", "bl"} \cup Jumps
AllPlain(c) == \A j \in 1 .. Len(c) : Plain(c[j])

\* Code to be placed after w, with fixups for A.
Fits(c, w, A) ==
  \A j \in 1 .. Len(c) :
    Fine(c[j], w + j, w + Len(c) + 1, Len(words)) \/ w + j \in A

\* Code with no calls.
Linkless(c) == \A j \in 1 .. Len(c) : c[j].op # "bl"

LEMMA FineMore ==
  ASSUME NEW i, NEW p \in Int, NEW hi \in Int, NEW n \in Nat, Fine(i, p, hi, n),
         NEW hj \in Int, hi <= hj, NEW m \in Nat, n <= m
  PROVE  Fine(i, p, hj, m)
<1>1. ASSUME i.op \in Jumps PROVE Off(i) \in 1 .. hj - p
  <2>1. Off(i) \in 1 .. hi - p BY <1>1 DEF Fine, Lands
  <2> QED BY <2>1
<1>2. Prologues(n) \subseteq Prologues(m)
  <2>1. \A w \in 1 .. n : w \in 1 .. m OBVIOUS
  <2> QED BY <2>1 DEF Prologues
<1> QED BY <1>1, <1>2 DEF Fine, Lands

LEMMA PlainFits ==
  ASSUME NEW c, AllPlain(c), NEW w, NEW A
  PROVE  Fits(c, w, A) /\ Linkless(c)
BY DEF AllPlain, Plain, Fits, Fine, Lands, Linkless

LEMMA FitsJoined ==
  ASSUME Len(words) \in Nat, NEW s, IsSeq(s), NEW t, IsSeq(t), NEW w \in Nat, NEW v,
         v = w + Len(s), NEW A, Fits(s, w, A), Fits(t, v, A), NEW r, r = s \o t
  PROVE  Fits(r, w, A)
<1>1. PICK l \in Nat, k \in Nat : l = Len(s) /\ k = Len(t) BY SeqParts
<1>2. /\ Len(r) = l + k
      /\ \A j \in 1 .. l : r[j] = s[j]
      /\ \A j \in 1 .. k : r[l + j] = t[j]
  BY <1>1, ConcatParts
<1>3. ASSUME NEW j \in 1 .. l + k
      PROVE  Fine(r[j], w + j, w + (l + k) + 1, Len(words)) \/ w + j \in A
  <2>1. CASE j \in 1 .. l
    <3>1. Fine(s[j], w + j, w + l + 1, Len(words)) \/ w + j \in A BY <1>1, <2>1 DEF Fits
    <3>2. /\ w + j \in Int /\ w + l + 1 \in Int /\ w + (l + k) + 1 \in Int
          /\ w + l + 1 <= w + (l + k) + 1 /\ Len(words) <= Len(words)
      BY <2>1
    <3> QED BY <1>2, <2>1, <3>1, <3>2, FineMore
  <2>2. CASE j \in l + 1 .. l + k
    <3>1. PICK i \in 1 .. k : j = l + i
      <4>1. j - l \in 1 .. k /\ j = l + (j - l) BY <2>2
      <4> QED BY <4>1
    <3>2. Fine(t[i], v + i, v + k + 1, Len(words)) \/ v + i \in A BY <1>1 DEF Fits
    <3>3. v + i = w + j /\ v + k + 1 = w + (l + k) + 1 BY <1>1, <3>1
    <3> QED BY <1>2, <3>1, <3>2, <3>3
  <2> QED BY <1>1, <2>1, <2>2
<1> QED BY <1>2, <1>3 DEF Fits

LEMMA LinklessJoined ==
  ASSUME NEW s, IsSeq(s), NEW t, IsSeq(t), NEW r, r = s \o t
  PROVE  Linkless(s) /\ Linkless(t) => Linkless(r)
<1> SUFFICES ASSUME Linkless(s), Linkless(t) PROVE Linkless(r) OBVIOUS
<1>1. PICK l \in Nat, k \in Nat : l = Len(s) /\ k = Len(t) BY SeqParts
<1>2. /\ Len(r) = l + k
      /\ \A j \in 1 .. l : r[j] = s[j]
      /\ \A j \in 1 .. k : r[l + j] = t[j]
  BY <1>1, ConcatParts
<1>3. ASSUME NEW j \in 1 .. l + k PROVE r[j].op # "bl"
  <2>1. CASE j \in 1 .. l BY <1>1, <1>2, <2>1 DEF Linkless
  <2>2. CASE j \in l + 1 .. l + k
    <3>1. PICK i \in 1 .. k : j = l + i
      <4>1. j - l \in 1 .. k /\ j = l + (j - l) BY <2>2
      <4> QED BY <4>1
    <3> QED BY <1>1, <1>2, <3>1 DEF Linkless
  <2> QED BY <1>1, <2>1, <2>2
<1> QED BY <1>2, <1>3 DEF Linkless

LEMMA PlainJoined ==
  ASSUME NEW s, IsSeq(s), NEW t, IsSeq(t), NEW r, r = s \o t, AllPlain(s), AllPlain(t)
  PROVE  AllPlain(r)
<1>1. PICK l \in Nat, k \in Nat : l = Len(s) /\ k = Len(t) BY SeqParts
<1>2. /\ Len(r) = l + k
      /\ \A j \in 1 .. l : r[j] = s[j]
      /\ \A j \in 1 .. k : r[l + j] = t[j]
  BY <1>1, ConcatParts
<1>3. ASSUME NEW j \in 1 .. l + k PROVE Plain(r[j])
  <2>1. CASE j \in 1 .. l BY <1>1, <1>2, <2>1 DEF AllPlain
  <2>2. CASE j \in l + 1 .. l + k
    <3>1. PICK i \in 1 .. k : j = l + i
      <4>1. j - l \in 1 .. k /\ j = l + (j - l) BY <2>2
      <4> QED BY <4>1
    <3> QED BY <1>1, <1>2, <3>1 DEF AllPlain
  <2> QED BY <1>1, <2>1, <2>2
<1> QED BY <1>2, <1>3 DEF AllPlain

\* A placeholder at the end of plain code.
LEMMA MarkedFits ==
  ASSUME NEW c, IsSeq(c), AllPlain(c), NEW x, x.op # "bl", NEW b, b = Append(c, x),
         NEW w, NEW A, w + (Len(c) + 1) \in A
  PROVE  Fits(b, w, A) /\ Linkless(b)
<1>1. PICK l \in Nat : l = Len(c) BY SeqParts
<1>2. Len(b) = l + 1 /\ b[l + 1] = x /\ \A j \in 1 .. l : b[j] = c[j] BY <1>1, AppendParts
<1>3. \A j \in 1 .. l + 1 : j = l + 1 \/ j \in 1 .. l OBVIOUS
<1>4. \A j \in 1 .. l : Plain(b[j]) BY <1>1, <1>2 DEF AllPlain
<1> QED BY <1>1, <1>2, <1>3, <1>4 DEF Plain, Fits, Fine, Lands, Linkless

LEMMA InstrIs ==
  ASSUME NEW op, NEW r, NEW s, NEW imm, NEW i, i = I(op, r, s, imm)
  PROVE  IsInstr(i) /\ i.op = op /\ i.imm = imm
BY DEF I, IsInstr

LEMMA TaggedIs ==
  ASSUME NEW i, IsInstr(i), NEW t, NEW j, j = Tagged(i, t)
  PROVE  IsInstr(j) /\ j.op = i.op /\ j.imm = i.imm
<1>1. DOMAIN j = DOMAIN i /\ \A x \in DOMAIN i : x # "tag" => j[x] = i[x] BY DEF Tagged
<1> QED BY <1>1 DEF IsInstr

\* The instructions which compute or move something.
PlainOps ==
  {"add", "sub", "subx", "and", "mov", "eor", "movz", "movn", "movk", "adrp", "ldr", "ldur",
   "str", "blr", "nop", "stp", "stp!", "str!", "ldp", "ldp!", "ldr!", "ret"}

LEMMA PlainIs ==
  ASSUME NEW op \in PlainOps, NEW r, NEW s, NEW imm, NEW i, i = I(op, r, s, imm)
  PROVE  Plain(i) /\ \A t : Plain(Tagged(i, t))
<1>1. IsInstr(i) /\ i.op = op BY InstrIs
<1>2. op \notin {"brk", "bl"} \cup Jumps BY DEF PlainOps, Jumps
<1>3. \A t : IsInstr(Tagged(i, t)) /\ Tagged(i, t).op = op BY <1>1, TaggedIs
<1> QED BY <1>1, <1>2, <1>3 DEF Plain

LEMMA PlainOne ==
  ASSUME NEW i, Plain(i), NEW c, c = <<i>>
  PROVE  IsSeq(c) /\ Len(c) = 1 /\ AllPlain(c)
BY OnePart DEF AllPlain

LEMMA PlainTwo ==
  ASSUME NEW i, Plain(i), NEW j, Plain(j), NEW c, c = <<i, j>>
  PROVE  IsSeq(c) /\ Len(c) = 2 /\ AllPlain(c)
<1>1. IsSeq(c) /\ Len(c) = 2 /\ c[1] = i /\ c[2] = j BY PairParts
<1>2. \A x \in 1 .. 2 : x = 1 \/ x = 2 OBVIOUS
<1> QED BY <1>1, <1>2 DEF AllPlain

LEMMA PlainThree ==
  ASSUME NEW i, Plain(i), NEW j, Plain(j), NEW k, Plain(k), NEW c, c = <<i, j, k>>
  PROVE  IsSeq(c) /\ Len(c) = 3 /\ AllPlain(c)
<1>1. IsSeq(c) /\ Len(c) = 3 BY ThreeParts
<1>2. c[1] = i /\ c[2] = j /\ c[3] = k OBVIOUS
<1>3. \A x \in 1 .. 3 : x = 1 \/ x = 2 \/ x = 3 OBVIOUS
<1> QED BY <1>1, <1>2, <1>3 DEF AllPlain

LEMMA PlainFour ==
  ASSUME NEW i, Plain(i), NEW j, Plain(j), NEW k, Plain(k), NEW l, Plain(l),
         NEW c, c = <<i, j, k, l>>
  PROVE  IsSeq(c) /\ Len(c) = 4 /\ AllPlain(c)
<1>1. IsSeq(c) /\ Len(c) = 4 BY FourParts
<1>2. c[1] = i /\ c[2] = j /\ c[3] = k /\ c[4] = l OBVIOUS
<1>3. \A x \in 1 .. 4 : x = 1 \/ x = 2 \/ x = 3 \/ x = 4 OBVIOUS
<1> QED BY <1>1, <1>2, <1>3 DEF AllPlain

LEMMA PlainNone == IsSeq(<<>>) /\ Len(<<>>) = 0 /\ AllPlain(<<>>)
BY EmptyParts DEF AllPlain

LEMMA MovLanePlain ==
  ASSUME NEW r, NEW v, NEW n
  PROVE  Plain(MovLane(r, v, n)) /\ \A t : Plain(Tagged(MovLane(r, v, n), t))
<1>1. PICK hw : hw = CHOOSE h \in MovedLanes(v) :
                       Cardinality({k \in MovedLanes(v) : k < h}) = n - 1
  OBVIOUS
<1>2. PICK op, imm : op \in PlainOps /\ MovLane(r, v, n) = I(op, r, hw, imm)
  <2>1. CASE n > 1
    <3>1. MovLane(r, v, n) = I("movk", r, hw, Lane(v, hw)) BY <1>1, <2>1 DEF MovLane
    <3> QED BY <3>1 DEF PlainOps
  <2>2. CASE ~(n > 1) /\ v < 0
    <3>1. MovLane(r, v, n) = I("movn", r, hw, LaneMax - Lane(v, hw))
      BY <1>1, <2>2 DEF MovLane
    <3> QED BY <3>1 DEF PlainOps
  <2>3. CASE ~(n > 1) /\ ~(v < 0)
    <3>1. MovLane(r, v, n) = I("movz", r, hw, Lane(v, hw)) BY <1>1, <2>3 DEF MovLane
    <3> QED BY <3>1 DEF PlainOps
  <2> QED BY <2>1, <2>2, <2>3
<1> QED BY <1>2, PlainIs

LEMMA ImmToRegPlain ==
  ASSUME NEW r, NEW v
  PROVE  AllPlain(ImmToReg(r, v))
<1>1. PICK c : c = ImmToReg(r, v) /\ IsSeq(c) BY ImmToRegIsSeq
<1>2. PICK n : n = Cardinality(MovedLanes(v)) OBVIOUS
<1>3. c = [j \in 1 .. n |->
            IF j = n THEN Tagged(MovLane(r, v, j), <<"imm", v>>) ELSE MovLane(r, v, j)]
  BY <1>1, <1>2 DEF ImmToReg
<1>4. DOMAIN c = 1 .. Len(c) BY <1>1, SeqParts
<1>5. ASSUME NEW j \in DOMAIN c PROVE Plain(c[j])
  <2>1. c[j] = MovLane(r, v, j) \/ c[j] = Tagged(MovLane(r, v, j), <<"imm", v>>) BY <1>3
  <2> QED BY <2>1, MovLanePlain
<1> QED BY <1>1, <1>4, <1>5 DEF AllPlain

LEMMA PageAddrPlain ==
  ASSUME NEW r, NEW at, NEW adr
  PROVE  AllPlain(PageAddr(r, at, adr)) /\ AllPlain(PageLoad(r, at, adr))
<1>1. Plain(Adrp(r, at, adr)) /\ Plain(Tagged(Adrp(r, at, adr), <<"imm", adr>>))
  <2>1. "adrp" \in PlainOps BY DEF PlainOps
  <2> QED BY <2>1, PlainIs DEF Adrp
<1>2. /\ Plain(Tagged(AddImm(r, r, adr % AdrPage), <<"imm", adr>>))
      /\ Plain(LoadScaled(r, r, adr % AdrPage))
  <2>1. "add" \in PlainOps /\ "ldr" \in PlainOps BY DEF PlainOps
  <2> QED BY <2>1, PlainIs DEF AddImm, LoadScaled
<1>3. AllPlain(PageLoad(r, at, adr)) BY <1>1, <1>2, PlainTwo DEF PageLoad
<1>4. CASE adr % AdrPage = 0 BY <1>1, <1>3, <1>4, PlainOne DEF PageAddr
<1>5. CASE adr % AdrPage # 0 BY <1>1, <1>2, <1>3, <1>5, PlainTwo DEF PageAddr
<1> QED BY <1>4, <1>5

LEMMA ZeroErrPlain ==
  ASSUME NEW d
  PROVE  AllPlain(ZeroErr(d))
<1>1. CASE d.err >= 0
  <2>1. "eor" \in PlainOps BY DEF PlainOps
  <2>2. Plain(ZeroReg(d.err)) BY <2>1, PlainIs DEF ZeroReg
  <2> QED BY <1>1, <2>2, PlainOne DEF ZeroErr
<1>2. CASE ~(d.err >= 0) BY <1>2, PlainNone DEF ZeroErr
<1> QED BY <1>1, <1>2

\* The branch over code which may not be run ends after it.
LEMMA MaybeFits ==
  ASSUME Len(words) \in Nat, NEW c, IsSeq(c), Len(c) + 1 < NearReach, NEW w \in Nat, NEW A,
         Fits(c, w + 1, A), NEW b, b = Maybe(c)
  PROVE  Fits(b, w, A) /\ (Linkless(c) => Linkless(b))
<1>1. PICK l \in Nat : l = Len(c) BY SeqParts
<1>2. PICK i : i = I("b.cond", 0, 0, ImmSigned(l + 1, 19)) OBVIOUS
<1>3. PICK o : o = <<i>> /\ IsSeq(o) /\ Len(o) = 1 /\ o[1] = i BY OnePart
<1>4. b = o \o c BY <1>1, <1>2, <1>3 DEF Maybe
<1>5. IsInstr(i) /\ i.op = "b.cond" /\ i.imm = ImmSigned(l + 1, 19) BY <1>2, InstrIs
<1>6. Off(i) = l + 1
  <2>1. l + 1 \in Int /\ -NearReach <= l + 1 /\ l + 1 < NearReach BY <1>1, Reaches
  <2>2. Signed(ImmSigned(l + 1, 19), 19) = l + 1 BY <2>1, Reaches
  <2> QED BY <1>5, <2>2 DEF Off
<1>7. IsSeq(b) /\ Len(b) = l + 1 /\ b[1] = i /\ \A j \in 1 .. l : b[1 + j] = c[j]
  BY <1>1, <1>3, <1>4, ConcatParts
<1>8. ASSUME NEW j \in 1 .. l + 1
      PROVE  Fine(b[j], w + j, w + (l + 1) + 1, Len(words)) \/ w + j \in A
  <2>1. CASE j = 1
    <3>1. l + 1 \in 1 .. (w + (l + 1) + 1) - (w + 1) BY <1>1
    <3> QED BY <1>5, <1>6, <1>7, <2>1, <3>1 DEF Fine, Lands
  <2>2. CASE j \in 2 .. l + 1
    <3>1. PICK k \in 1 .. l : j = 1 + k
      <4>1. j - 1 \in 1 .. l /\ j = 1 + (j - 1) BY <1>1, <2>2
      <4> QED BY <4>1
    <3>2. Fine(c[k], w + 1 + k, w + 1 + l + 1, Len(words)) \/ w + 1 + k \in A
      BY <1>1 DEF Fits
    <3>3. w + 1 + k = w + j /\ w + 1 + l + 1 = w + (l + 1) + 1 BY <1>1, <3>1
    <3> QED BY <1>7, <3>1, <3>2, <3>3
  <2> QED BY <1>1, <2>1, <2>2
<1>9. Linkless(o) BY <1>3, <1>5 DEF Linkless
<1>10. Linkless(c) => Linkless(b) BY <1>3, <1>4, <1>9, LinklessJoined
<1> QED BY <1>7, <1>8, <1>10 DEF Fits

LEMMA BrkIs ==
  ASSUME NEW x
  PROVE  Brk(x).op = "brk"
BY DEF Brk, I

\* A try goes on after itself, or to where its fixup says.
LEMMA TryFits ==
  ASSUME Len(words) \in Nat, NEW tar, NEW src, NEW w \in Nat, NEW t,
         t = TryCode(tar, src, w + 1), NEW A, t.fix.at \in A
  PROVE  Fits(t.code, w, A) /\ Linkless(t.code) /\ t.fix.type # "recur"
<1>1. PICK mov : mov = MovReg(tar, src) /\ Plain(mov)
  <2>1. "mov" \in PlainOps BY DEF PlainOps
  <2> QED BY <2>1, PlainIs DEF MovReg
<1>2. CASE tar = src
  <2>1. /\ t.code = <<Brk("try")>> /\ t.fix.at = w + 1 /\ t.fix.type = "try"
    BY <1>2 DEF TryCode, Fix
  <2>2. IsSeq(t.code) /\ Len(t.code) = 1 /\ t.code[1] = Brk("try") BY <2>1, OnePart
  <2>3. \A j \in 1 .. 1 : w + j = t.fix.at /\ t.code[j].op = "brk" BY <2>1, <2>2, BrkIs
  <2> QED BY <2>1, <2>2, <2>3 DEF Fits, Linkless
<1>3. CASE tar # src /\ tar > src
  <2>1. t.code = <<mov, Brk("try")>> /\ t.fix.at = w + 1 + 1 /\ t.fix.type = "try"
    BY <1>1, <1>3 DEF TryCode, Fix
  <2>2. PICK o : o = <<mov>> /\ IsSeq(o) /\ AllPlain(o) /\ Len(o) = 1 BY <1>1, PlainOne
  <2>3. t.code = Append(o, Brk("try")) BY <2>1, <2>2
  <2>4. w + (Len(o) + 1) \in A
    <3>1. w + (1 + 1) = w + 1 + 1 OBVIOUS
    <3> QED BY <2>1, <2>2, <3>1
  <2> QED BY <2>1, <2>2, <2>3, <2>4, BrkIs, MarkedFits
<1>4. CASE tar # src /\ ~(tar > src)
  <2>1. PICK i : i = CompareBranch("cbz", src, 3) OBVIOUS
  <2>2. /\ t.code = <<i, mov, Brk("throw")>> /\ t.fix.at = w + 1 + 2
        /\ t.fix.type = "throw"
    BY <1>1, <1>4, <2>1 DEF TryCode, Fix
  <2>3. IsInstr(i) /\ i.op = "cbz" /\ i.imm = ImmSigned(3, 19)
    BY <2>1, InstrIs DEF CompareBranch
  <2>4. Off(i) = 3
    <3>1. 3 \in Int /\ -NearReach <= 3 /\ 3 < NearReach BY Reaches
    <3>2. Signed(ImmSigned(3, 19), 19) = 3 BY <3>1, Reaches
    <3> QED BY <2>3, <3>2 DEF Off
  <2>5. /\ IsSeq(t.code) /\ Len(t.code) = 3
        /\ t.code[1] = i /\ t.code[2] = mov /\ t.code[3] = Brk("throw")
    <3>1. PICK b : b = Brk("throw") OBVIOUS
    <3>2. PICK c : c = <<i, mov, b>> OBVIOUS
    <3>3. IsSeq(c) /\ Len(c) = 3 BY <3>2, ThreeParts
    <3>4. c[1] = i /\ c[2] = mov /\ c[3] = b BY <3>2
    <3>5. c = t.code BY <2>2, <3>1, <3>2
    <3> QED BY <3>1, <3>3, <3>4, <3>5
  <2>6. Fine(i, w + 1, w + 3 + 1, Len(words))
    <3>1. 3 \in 1 .. (w + 3 + 1) - (w + 1) OBVIOUS
    <3> QED BY <2>3, <2>4, <3>1 DEF Fine, Lands
  <2>7. Fine(mov, w + 2, w + 3 + 1, Len(words)) /\ mov.op # "bl" BY <1>1 DEF Plain, Fine, Lands
  <2>8. w + 3 \in A
    <3>1. w + 1 + 2 = w + 3 OBVIOUS
    <3> QED BY <2>2, <3>1
  <2>9. \A j \in 1 .. 3 : j = 1 \/ j = 2 \/ j = 3 OBVIOUS
  <2>10. \A j \in 1 .. 3 : Fine(t.code[j], w + j, w + 3 + 1, Len(words)) \/ w + j \in A
    BY <2>5, <2>6, <2>7, <2>8, <2>9
  <2>11. \A j \in 1 .. 3 : t.code[j].op # "bl" BY <2>3, <2>5, <2>7, <2>9, BrkIs
  <2> QED BY <2>2, <2>5, <2>10, <2>11 DEF Fits, Linkless
<1> QED BY <1>2, <1>3, <1>4

-----------------------------------------------------------------------------
(* Finished words and the word which is compiled *)

\* What imm_signed refuses otherwise: calls reach the words, and branches what is in
\* the same word.
Near ==
  /\ Len(write) < FarReach
  /\ \A w \in 1 .. Len(words) : words[w].ret - words[w].prologue < NearReach
  /\ def # NoDef => Len(write) - def.prologue < NearReach

\* A finished word stays in itself until it returns, and calls words only.
Whole(v) ==
  /\ \A p \in words[v].prologue .. words[v].ret :
       /\ Fine(write[p], p, words[v].ret, v)
       /\ words[v].inlinable => write[p].op # "bl"
  /\ write[words[v].ret].op = "ret" /\ words[v].ceil = words[v].ret + 1
  /\ \A u \in 1 .. v - 1 : words[u].ret < words[v].prologue

WordsWhole == \A v \in 1 .. Len(words) : Whole(v)

\* Where something is still to be fixed.
Ats(d) ==
  {d.fixes[i].at : i \in 1 .. Len(d.fixes)} \cup {d.locfix[i].at : i \in 1 .. Len(d.locfix)}

NoRecur(d) == \A i \in 1 .. Len(d.fixes) : d.fixes[i].type # "recur"

\* The body of the word which is compiled.
Body(c, lo, hi, A) ==
  \A p \in lo .. hi : Fine(c[p], p, hi + 1, Len(words)) \/ p \in A

BodyFits ==
  /\ Body(write, def.inner, Len(write), Ats(def))
  /\ ~def.calls =>
       NoRecur(def) /\ \A p \in def.inner .. Len(write) : write[p].op # "bl"

Open == def # NoDef => BodyFits

\* What is copied of a word stays in the copy.
LEMMA InlinedFits ==
  ASSUME Layout, WordsWhole, NEW w \in 1 .. Len(words), words[w].inlinable,
         NEW at \in Nat, NEW A
  PROVE  Fits(Inlined(w), at, A) /\ Linkless(Inlined(w))
<1>1. /\ words[w].prologue \in 1 .. valid /\ words[w].ret \in words[w].prologue .. valid
      /\ valid \in Nat /\ IsSeq(write) /\ valid <= Len(write) /\ Len(write) \in Nat
      /\ Len(words) \in Nat
  BY Lengths, SeqParts DEF Layout, WordsInside
<1>2. PICK p \in Nat \ {0}, q \in Nat, e \in Nat :
        /\ p = words[w].prologue /\ q = words[w].ret - 1 /\ q - p + 1 \in Nat
        /\ q <= Len(write) /\ e = words[w].ret /\ e = q + 1
  <2>1. PICK p \in Nat, e \in Nat, v \in Nat, n \in Nat :
          /\ p = words[w].prologue /\ e = words[w].ret /\ v = valid /\ n = Len(write)
          /\ p >= 1 /\ p <= e /\ e <= v /\ v <= n
    <3>1. words[w].prologue \in Nat /\ words[w].prologue >= 1 BY <1>1
    <3>2. words[w].ret \in Nat /\ words[w].prologue <= words[w].ret /\ words[w].ret <= valid
      BY <1>1, <3>1
    <3> QED BY <1>1, <3>1, <3>2
  <2>2. /\ p \in Nat /\ e \in Nat /\ v \in Nat /\ n \in Nat
        /\ p >= 1 /\ p <= e /\ e <= v /\ v <= n
    BY <2>1
  <2>3. p \in Nat \ {0} /\ e - 1 \in Nat BY <2>2
  <2>4. e - 1 - p + 1 \in Nat /\ e - 1 <= n /\ e = e - 1 + 1 BY <2>2
  <2> QED BY <2>1, <2>3, <2>4
<1>3. PICK t : t = SubSeq(write, p, q) OBVIOUS
<1>4. PICK l \in Nat : /\ l = q - p + 1 /\ DOMAIN t = 1 .. l
                       /\ \A j \in 1 .. l : t[j] = write[p + j - 1]
  <2>1. PICK S : write \in Seq(S) BY <1>1 DEF IsSeq
  <2>2. PICK n \in Nat : n = Len(write) /\ q <= n BY <1>1, <1>2
  <2>3. p \in Nat \ {0} /\ q \in Nat /\ q - p + 1 \in Nat BY <1>2
  <2>4. Len(t) = q - p + 1 /\ t \in Seq(S) /\ \A j \in 1 .. q - p + 1 : t[j] = write[p + j - 1]
    BY <1>3, <2>1, <2>2, <2>3
  <2> QED BY <2>3, <2>4
<1>8. l = q - p + 1 /\ e = q + 1 /\ p \in Nat /\ q \in Nat /\ e \in Nat /\ l \in Nat /\ p >= 1
  <2>1. l = q - p + 1 BY <1>4
  <2>2. e = q + 1 BY <1>2
  <2>3. p \in Nat /\ q \in Nat /\ e \in Nat /\ l \in Nat OBVIOUS
  <2>4. p >= 1 OBVIOUS
  <2> QED BY <2>1, <2>2, <2>3, <2>4
<1>5. PICK s : /\ s = Inlined(w)
               /\ s = [i \in DOMAIN t |->
                        IF def.err < 0 /\ t[i].tag = <<"throw">>
                        THEN Tagged(t[i], <<"none">>) ELSE t[i]]
  BY <1>2, <1>3 DEF Inlined
<1>6. Len(s) = l
  <2>1. s = [i \in 1 .. l |-> s[i]] BY <1>4, <1>5
  <2> QED BY <2>1, FunctionIsSeq
<1>7. ASSUME NEW j \in 1 .. l
      PROVE  Fine(s[j], at + j, at + l + 1, Len(words)) /\ s[j].op # "bl"
  <2>1. PICK x \in Nat : x = p + j - 1 /\ x \in words[w].prologue .. words[w].ret /\ x <= q
    <3>1. p + j - 1 \in Nat /\ p + j - 1 >= p /\ p + j - 1 <= q BY <1>8
    <3>2. p + j - 1 \in p .. e BY <1>8, <3>1
    <3> QED BY <1>2, <3>1, <3>2
  <2>2. PICK i : i = write[x] /\ Fine(i, x, e, w) /\ i.op # "bl"
    <3>1. Whole(w) BY DEF WordsWhole
    <3>2. Fine(write[x], x, words[w].ret, w) /\ write[x].op # "bl" BY <2>1, <3>1 DEF Whole
    <3>3. e = words[w].ret BY <1>2
    <3> QED BY <3>2, <3>3
  <2>3. t[j] = i BY <1>4, <2>1, <2>2
  <2>4. s[j] = i \/ s[j] = Tagged(i, <<"none">>) BY <1>4, <1>5, <2>3
  <2>5. IsInstr(i) BY <2>2 DEF Fine, Lands
  <2>6. IsInstr(s[j]) /\ s[j].op = i.op /\ s[j].imm = i.imm BY <2>4, <2>5, TaggedIs
  <2>7. Off(s[j]) = Off(i) BY <2>6 DEF Off
  <2>8. ASSUME i.op \in Jumps PROVE Off(i) \in 1 .. (at + l + 1) - (at + j)
    <3>1. Off(i) \in 1 .. e - x BY <2>2, <2>8 DEF Fine, Lands
    <3>2. x = p + j - 1 BY <2>1
    <3>3. e - x = (at + l + 1) - (at + j) BY <1>8, <3>2
    <3> QED BY <3>1, <3>3
  <2> QED BY <2>2, <2>6, <2>7, <2>8 DEF Fine, Lands
<1> QED BY <1>5, <1>6, <1>7 DEF Fits, Linkless

-----------------------------------------------------------------------------
(* What an operation of the compiler adds to the body *)

\* Fixups are added, for instructions of the body.
Onward(d) ==
  /\ DOMAIN d = Fields /\ IsSeq(d.fixes) /\ IsSeq(d.locfix)
  /\ d.prologue = def.prologue /\ d.inner = def.inner /\ Ats(def) \subseteq Ats(d)
  /\ ~d.calls => ~def.calls /\ NoRecur(d)

Compiled(c, d) ==
  /\ IsSeq(c) /\ Emit(c, d) /\ Onward(d)
  /\ Fits(c, Len(write), Ats(d)) /\ (~d.calls => Linkless(c))

LEMMA CompiledOpen ==
  ASSUME Layout, def # NoDef, BodyFits, NEW c, NEW d, Compiled(c, d), UNCHANGED words
  PROVE  BodyFits'
<1>1. PICK n \in Nat, l \in Nat, k \in Nat :
        /\ n = Len(write) /\ l = Len(c) /\ k = Len(words)
  BY Lengths, SeqParts DEF Compiled, Layout, WordsInside
<1>2. /\ write' = write \o c /\ Len(write') = n + l
      /\ \A i \in 1 .. n : write'[i] = write[i]
      /\ \A i \in 1 .. l : write'[n + i] = c[i]
  <2>1. IsSeq(write) /\ IsSeq(c) /\ write' = write \o c BY Lengths DEF Compiled, Emit
  <2> QED BY <1>1, <2>1, ConcatParts
<1>3. /\ def'.inner = def.inner /\ def'.calls = d.calls
      /\ def'.fixes = d.fixes /\ def'.locfix = d.locfix
  <2>1. def' = [d EXCEPT !.len = @ + 1] /\ DOMAIN d = Fields BY DEF Compiled, Emit, Onward
  <2>2. d.inner = def.inner BY DEF Compiled, Onward
  <2> QED BY <2>1, <2>2 DEF Fields
<1>4. Ats(def') = Ats(d) BY <1>3 DEF Ats
<1>5. PICK lo \in Nat : lo = def.inner /\ lo >= 1
  <2>1. Above(def, valid, Len(write)) /\ valid \in Nat BY Lengths DEF Layout, InDef
  <2>2. PrologueLen \in Nat BY PrologueLenIs
  <2>3. def.prologue \in Nat /\ def.prologue >= 1 /\ def.inner = def.prologue + PrologueLen
    BY <1>1, <2>1 DEF Above
  <2> QED BY <2>2, <2>3
<1>6. ASSUME NEW p \in lo .. n + l
      PROVE  \/ p \in 1 .. n
             \/ \E j \in 1 .. l : p = n + j
  <2>1. p \in 1 .. n \/ p \in n + 1 .. n + l BY <1>1, <1>5, <1>6
  <2>2. ASSUME p \in n + 1 .. n + l PROVE \E j \in 1 .. l : p = n + j
    <3>1. p - n \in 1 .. l /\ p = n + (p - n) BY <1>1, <2>2
    <3> QED BY <3>1
  <2> QED BY <2>1, <2>2
<1>7. ASSUME NEW p \in lo .. n + l
      PROVE  Fine(write'[p], p, n + l + 1, k) \/ p \in Ats(d)
  <2>1. CASE p \in 1 .. n
    <3>1. Fine(write[p], p, n + 1, k) \/ p \in Ats(def)
      <4>1. p \in lo .. n BY <1>1, <1>5, <2>1
      <4> QED BY <1>1, <1>5, <4>1 DEF BodyFits, Body
    <3>2. Ats(def) \subseteq Ats(d) BY DEF Compiled, Onward
    <3>3. p \in Int /\ n + 1 \in Int /\ n + l + 1 \in Int /\ n + 1 <= n + l + 1 /\ k <= k
      BY <1>1
    <3>4. Fine(write[p], p, n + 1, k) => Fine(write[p], p, n + l + 1, k)
      BY <1>1, <3>3, FineMore
    <3> QED BY <1>2, <2>1, <3>1, <3>2, <3>4
  <2>2. ASSUME NEW j \in 1 .. l, p = n + j PROVE Fine(write'[p], p, n + l + 1, k) \/ p \in Ats(d)
    <3>1. Fine(c[j], n + j, n + l + 1, k) \/ n + j \in Ats(d)
      BY <1>1, <2>2 DEF Compiled, Fits
    <3> QED BY <1>2, <2>2, <3>1
  <2> QED BY <1>6, <2>1, <2>2
<1>8. ASSUME ~d.calls PROVE NoRecur(def') /\ \A p \in lo .. n + l : write'[p].op # "bl"
  <2>1. ~def.calls /\ NoRecur(d) /\ Linkless(c) BY <1>8 DEF Compiled, Onward
  <2>2. NoRecur(def') BY <1>3, <2>1 DEF NoRecur
  <2>3. ASSUME NEW p \in lo .. n + l PROVE write'[p].op # "bl"
    <3>1. CASE p \in 1 .. n
      <4>1. p \in lo .. n BY <1>1, <1>5, <3>1
      <4>2. write[p].op # "bl" BY <1>1, <1>5, <2>1, <4>1 DEF BodyFits
      <4> QED BY <1>2, <3>1, <4>2
    <3>2. ASSUME NEW j \in 1 .. l, p = n + j PROVE write'[p].op # "bl"
      BY <1>1, <1>2, <2>1, <3>2 DEF Linkless
    <3> QED BY <1>6, <3>1, <3>2
  <2> QED BY <2>2, <2>3
<1>9. Len(words') = k /\ words' = words BY <1>1
<1>10. Body(write, def.inner, Len(write), Ats(def))'
  <2>1. (\A p \in lo .. n + l : Fine(write[p], p, n + l + 1, k) \/ p \in Ats(def))'
    BY <1>4, <1>7, <1>9 DEF Fine, Lands, Prologues
  <2>2. def'.inner = lo /\ Len(write') = n + l /\ Len(words') = k BY <1>2, <1>3, <1>5, <1>9
  <2> QED BY <2>1, <2>2 DEF Body
<1> QED BY <1>2, <1>3, <1>5, <1>8, <1>10 DEF BodyFits

\* The word as it is, and with what is known of it besides.
LEMMA DefOnward ==
  ASSUME Layout, def # NoDef, BodyFits
  PROVE  Onward(def)
<1>1. DOMAIN def = Fields /\ IsSeq(def.fixes) /\ IsSeq(def.locfix)
  BY DEF Layout, InDef, Above, Places
<1> QED BY <1>1 DEF Onward, BodyFits

LEMMA FlagOnward ==
  ASSUME NEW d, Onward(d), NEW b
  PROVE  /\ Onward([d EXCEPT !.alloca = b]) /\ Onward([d EXCEPT !.loads = b])
         /\ Onward([d EXCEPT !.calls = TRUE]) /\ [d EXCEPT !.calls = TRUE].calls
<1>1. ASSUME NEW e, e = [d EXCEPT !.alloca = b] \/ e = [d EXCEPT !.loads = b] PROVE Onward(e)
  <2>1. /\ DOMAIN e = Fields /\ e.prologue = d.prologue /\ e.inner = d.inner
        /\ e.calls = d.calls /\ e.fixes = d.fixes /\ e.locfix = d.locfix
    BY <1>1 DEF Onward, Fields
  <2>2. Ats(e) = Ats(d) /\ (NoRecur(e) <=> NoRecur(d)) BY <2>1 DEF Ats, NoRecur
  <2> QED BY <2>1, <2>2 DEF Onward
<1>2. ASSUME NEW e, e = [d EXCEPT !.calls = TRUE] PROVE Onward(e) /\ e.calls
  <2>1. /\ DOMAIN e = Fields /\ e.prologue = d.prologue /\ e.inner = d.inner
        /\ e.calls = TRUE /\ e.fixes = d.fixes /\ e.locfix = d.locfix
    BY <1>2 DEF Onward, Fields
  <2>2. Ats(e) = Ats(d) BY <2>1 DEF Ats
  <2> QED BY <2>1, <2>2 DEF Onward
<1> QED BY <1>1, <1>2

LEMMA FixOnward ==
  ASSUME NEW d, Onward(d), NEW f, f.type # "recur" \/ d.calls,
         NEW e, e = [d EXCEPT !.fixes = Append(@, f)]
  PROVE  Onward(e) /\ f.at \in Ats(e) /\ Ats(d) \subseteq Ats(e) /\ e.calls = d.calls
<1>1. /\ DOMAIN e = Fields /\ e.prologue = d.prologue /\ e.inner = d.inner
      /\ e.calls = d.calls /\ e.locfix = d.locfix /\ e.fixes = Append(d.fixes, f)
  BY DEF Onward, Fields
<1>2. PICK l \in Nat : l = Len(d.fixes) /\ IsSeq(d.fixes) BY SeqParts DEF Onward
<1>3. /\ IsSeq(e.fixes) /\ Len(e.fixes) = l + 1 /\ e.fixes[l + 1] = f
      /\ \A i \in 1 .. l : e.fixes[i] = d.fixes[i]
  BY <1>1, <1>2, AppendParts
<1>4. l + 1 \in 1 .. l + 1 /\ \A i \in 1 .. l : i \in 1 .. l + 1 OBVIOUS
<1>5. f.at \in Ats(e) BY <1>3, <1>4 DEF Ats
<1>6. Ats(d) \subseteq Ats(e) BY <1>1, <1>2, <1>3, <1>4 DEF Ats
<1>7. ASSUME ~e.calls PROVE ~def.calls /\ NoRecur(e)
  <2>1. ~def.calls /\ NoRecur(d) /\ f.type # "recur" BY <1>1, <1>7 DEF Onward
  <2>2. \A i \in 1 .. l + 1 : i = l + 1 \/ i \in 1 .. l OBVIOUS
  <2> QED BY <1>2, <1>3, <2>1, <2>2 DEF NoRecur
<1> QED BY <1>1, <1>3, <1>5, <1>6, <1>7 DEF Onward

LEMMA LocFixOnward ==
  ASSUME NEW d, Onward(d), NEW f, NEW e, e = [d EXCEPT !.locfix = Append(@, f)]
  PROVE  Onward(e) /\ f.at \in Ats(e) /\ e.calls = d.calls
<1>1. /\ DOMAIN e = Fields /\ e.prologue = d.prologue /\ e.inner = d.inner
      /\ e.calls = d.calls /\ e.fixes = d.fixes /\ e.locfix = Append(d.locfix, f)
  BY DEF Onward, Fields
<1>2. PICK l \in Nat : l = Len(d.locfix) /\ IsSeq(d.locfix) BY SeqParts DEF Onward
<1>3. /\ IsSeq(e.locfix) /\ Len(e.locfix) = l + 1 /\ e.locfix[l + 1] = f
      /\ \A i \in 1 .. l : e.locfix[i] = d.locfix[i]
  BY <1>1, <1>2, AppendParts
<1>4. l + 1 \in 1 .. l + 1 /\ \A i \in 1 .. l : i \in 1 .. l + 1 OBVIOUS
<1>5. f.at \in Ats(e) BY <1>3, <1>4 DEF Ats
<1>6. Ats(d) \subseteq Ats(e) BY <1>1, <1>2, <1>3, <1>4 DEF Ats
<1>7. NoRecur(d) <=> NoRecur(e) BY <1>1 DEF NoRecur
<1> QED BY <1>1, <1>3, <1>5, <1>6, <1>7 DEF Onward

\* What is emitted is in reach, or imm_signed refuses it.
LEMMA EmittedNear ==
  ASSUME Layout, def # NoDef, Near', NEW c, IsSeq(c), NEW d, Emit(c, d), Onward(d)
  PROVE  Len(c) < NearReach /\ Len(write) < FarReach
<1>1. PICK n \in Nat, l \in Nat, f \in Nat, g \in Nat :
        n = Len(write) /\ l = Len(c) /\ f = FarReach /\ g = NearReach
  BY Lengths, SeqParts, Reaches
<1>2. Len(write') = n + l
  <2>1. IsSeq(write) /\ write' = write \o c BY Lengths DEF Emit
  <2> QED BY <1>1, <2>1, ConcatParts
<1>3. def'.prologue = def.prologue /\ def' # NoDef
  <2>1. def' = [d EXCEPT !.len = @ + 1] /\ DOMAIN d = Fields /\ d.prologue = def.prologue
    BY DEF Emit, Onward
  <2>2. DOMAIN def' = Fields /\ def'.prologue = def.prologue BY <2>1 DEF Fields
  <2>3. "err" \in DOMAIN def' /\ "err" \notin DOMAIN NoDef BY <2>2 DEF Fields, NoDef
  <2> QED BY <2>2, <2>3
<1>4. PICK p \in Nat : p = def.prologue /\ p <= n
  <2>1. Above(def, valid, n) /\ valid \in Nat BY <1>1, Lengths DEF Layout, InDef
  <2> QED BY <2>1 DEF Above
<1>5. n + l < f /\ n + l - p < g BY <1>1, <1>2, <1>3, <1>4 DEF Near
<1> QED BY <1>1, <1>4, <1>5

-----------------------------------------------------------------------------
(* What each operation of the compiler adds *)

\* Plain code, with a fixup of its last instruction or none.
LEMMA PlainCompiled ==
  ASSUME NEW c, IsSeq(c), AllPlain(c), NEW d, Onward(d), Emit(c, d)
  PROVE  Compiled(c, d)
BY PlainFits DEF Compiled

LEMMA LocFixCompiled ==
  ASSUME Layout, def # NoDef, BodyFits, NEW c, IsSeq(c), AllPlain(c), NEW x, NEW b,
         b = Append(c, Brk(x)), NEW f, f.at = Next1 + Len(c),
         Emit(b, [def EXCEPT !.locfix = Append(@, f)])
  PROVE  \E s, d : Compiled(s, d)
<1>1. PICK d : d = [def EXCEPT !.locfix = Append(@, f)] OBVIOUS
<1>2. Onward(d) /\ f.at \in Ats(d) BY <1>1, DefOnward, LocFixOnward
<1>3. PICK n \in Nat, l \in Nat : n = Len(write) /\ l = Len(c) /\ Next1 = n + 1
  BY Lengths, SeqParts
<1>4. n + (l + 1) \in Ats(d)
  <2>1. n + (l + 1) = n + 1 + l BY <1>3
  <2> QED BY <1>2, <1>3, <2>1
<1>5. Fits(b, n, Ats(d)) /\ Linkless(b) BY <1>3, <1>4, BrkIs, MarkedFits
<1>6. IsSeq(b) BY AppendParts
<1> QED BY <1>1, <1>2, <1>3, <1>5, <1>6 DEF Compiled

LEMMA SetLocalCompiled ==
  ASSUME Layout, def # NoDef, BodyFits, NEW k, NEW v, SetLocal(k, v)
  PROVE  \E s, d : Compiled(s, d)
<1>1. PICK c : c = ImmToReg(ArgReg, v) /\ IsSeq(c) /\ AllPlain(c)
  BY ImmToRegIsSeq, ImmToRegPlain
<1>2. PICK b : b = Append(c, Brk("reloc")) OBVIOUS
<1>3. PICK f : f = LocFix("reloc", Next1 + Len(c), k, ArgReg) OBVIOUS
<1>4. f.at = Next1 + Len(c) BY <1>3 DEF LocFix
<1>5. Emit(b, [def EXCEPT !.locfix = Append(@, f)]) BY <1>1, <1>2, <1>3 DEF SetLocal
<1> QED BY <1>1, <1>2, <1>4, <1>5, LocFixCompiled

LEMMA ParamCompiled ==
  ASSUME Layout, def # NoDef, BodyFits, NEW k, Param(k) \/ GetLocal(k)
  PROVE  \E s, d : Compiled(s, d)
<1>1. PICK c : c = <<>> /\ IsSeq(c) /\ AllPlain(c) /\ Len(c) = 0 BY PlainNone
<1>2. PICK n \in Nat : Next1 = n BY Lengths
<1>3. Next1 = Next1 + Len(c) BY <1>1, <1>2
<1>4. CASE Param(k)
  <2>1. PICK b : b = Append(c, Brk("reloc")) OBVIOUS
  <2>2. b = <<Brk("reloc")>>
    <3>1. PICK x : x = Brk("reloc") OBVIOUS
    <3>2. Append(<<>>, x) = <<x>> OBVIOUS
    <3> QED BY <1>1, <2>1, <3>1, <3>2
  <2>3. PICK f : f = LocFix("reloc", Next1, k, k - 1) OBVIOUS
  <2>4. f.at = Next1 + Len(c) BY <1>3, <2>3 DEF LocFix
  <2>5. Emit(b, [def EXCEPT !.locfix = Append(@, f)]) BY <1>4, <2>2, <2>3 DEF Param
  <2> QED BY <1>1, <2>1, <2>4, <2>5, LocFixCompiled
<1>5. CASE GetLocal(k)
  <2>1. PICK b : b = Append(c, Brk("read")) OBVIOUS
  <2>2. b = <<Brk("read")>>
    <3>1. PICK x : x = Brk("read") OBVIOUS
    <3>2. Append(<<>>, x) = <<x>> OBVIOUS
    <3> QED BY <1>1, <2>1, <3>1, <3>2
  <2>3. PICK f : f = LocFix("read", Next1, k, ArgReg) OBVIOUS
  <2>4. f.at = Next1 + Len(c) BY <1>3, <2>3 DEF LocFix
  <2>5. Emit(b, [def EXCEPT !.locfix = Append(@, f)]) BY <1>5, <2>2, <2>3 DEF GetLocal
  <2> QED BY <1>1, <2>1, <2>4, <2>5, LocFixCompiled
<1> QED BY <1>4, <1>5

LEMMA AllocaCompiled ==
  ASSUME Layout, def # NoDef, BodyFits, (\E n : AllocaConst(n)) \/ AllocaDynamic
  PROVE  \E s, d : Compiled(s, d)
<1>1. PICK d : d = [def EXCEPT !.alloca = TRUE] /\ Onward(d) BY DefOnward, FlagOnward
<1>2. Plain(AddImm(SP, ArgReg, 0))
  <2>1. "add" \in PlainOps BY DEF PlainOps
  <2> QED BY <2>1, PlainIs DEF AddImm
<1>3. ASSUME NEW n, AllocaConst(n) PROVE \E s, e : Compiled(s, e)
  <2>1. Plain(SubImm(ArgReg, SP, Even(n)))
    <3>1. "sub" \in PlainOps BY DEF PlainOps
    <3> QED BY <3>1, PlainIs DEF SubImm
  <2>2. PICK c : /\ c = <<SubImm(ArgReg, SP, Even(n)), AddImm(SP, ArgReg, 0)>>
                 /\ IsSeq(c) /\ AllPlain(c)
    BY <1>2, <2>1, PlainTwo
  <2>3. Emit(c, d) BY <1>1, <1>3, <2>2 DEF AllocaConst
  <2> QED BY <1>1, <2>2, <2>3, PlainCompiled
<1>4. CASE AllocaDynamic
  <2>1. Plain(I("subx", ArgReg, SP, ArgReg)) /\ Plain(I("and", ArgReg, ArgReg, 0))
    <3>1. "subx" \in PlainOps /\ "and" \in PlainOps BY DEF PlainOps
    <3> QED BY <3>1, PlainIs
  <2>2. PICK c : /\ c = <<I("subx", ArgReg, SP, ArgReg), I("and", ArgReg, ArgReg, 0),
                         AddImm(SP, ArgReg, 0)>>
                 /\ IsSeq(c) /\ AllPlain(c)
    BY <1>2, <2>1, PlainThree
  <2>3. Emit(c, d) BY <1>1, <1>4, <2>2 DEF AllocaDynamic
  <2> QED BY <1>1, <2>2, <2>3, PlainCompiled
<1> QED BY <1>3, <1>4

LEMMA LoadAddrCompiled ==
  ASSUME Layout, def # NoDef, BodyFits, NEW adr, LoadAddr(adr)
  PROVE  \E s, d : Compiled(s, d)
<1>1. PICK d : d = [def EXCEPT !.loads = TRUE] /\ Onward(d) BY DefOnward, FlagOnward
<1>2. PICK c : c = PageAddr(ArgReg, Next1, adr) /\ IsSeq(c) /\ AllPlain(c)
  BY PageAddrIsSeq, PageAddrPlain
<1>3. Emit(c, d) BY <1>1, <1>2 DEF LoadAddr
<1> QED BY <1>1, <1>2, <1>3, PlainCompiled

\* Code which calls or is copied, and its try.
LEMMA WithTryCompiled ==
  ASSUME Layout, NEW c, IsSeq(c), NEW err, NEW d, Onward(d),
         \A A : Fits(c, Len(write), A), ~d.calls => Linkless(c), WithTry(c, err, d)
  PROVE  \E s, e : Compiled(s, e)
<1>1. PICK n \in Nat, l \in Nat :
        n = Len(write) /\ l = Len(c) /\ Next1 = n + 1 /\ Len(words) \in Nat
  BY Lengths, SeqParts DEF Layout, WordsInside
<1>2. PICK t : t = TryCode(d.err, err, Next1 + Len(c)) OBVIOUS
<1>3. CASE d.err >= 0 /\ err >= 0
  <2>1. PICK w \in Nat : w = n + l /\ Next1 + Len(c) = w + 1
    <3>1. n + l \in Nat /\ n + 1 + l = n + l + 1 BY <1>1
    <3> QED BY <1>1, <3>1
  <2>2. t = TryCode(d.err, err, w + 1) BY <1>2, <2>1
  <2>3. w + 1 \in Nat OBVIOUS
  <2>4. IsSeq(t.code) BY <2>2, <2>3, TryCodeIs
  <2>5. PICK b : b = c \o t.code OBVIOUS
  <2>6. PICK e : e = [d EXCEPT !.fixes = Append(@, t.fix)] OBVIOUS
  <2>7. Emit(b, e) BY <1>2, <1>3, <2>5, <2>6 DEF WithTry
  <2>8. t.fix.type # "recur"
    <3>1. t.fix.at \in {t.fix.at} OBVIOUS
    <3> QED BY <1>1, <2>2, <3>1, TryFits
  <2>9. Onward(e) /\ t.fix.at \in Ats(e) /\ e.calls = d.calls BY <2>6, <2>8, FixOnward
  <2>10. Fits(t.code, w, Ats(e)) /\ Linkless(t.code) BY <1>1, <2>2, <2>9, TryFits
  <2>11. Fits(b, n, Ats(e))
    <3>1. Fits(c, n, Ats(e)) /\ w = n + Len(c) BY <1>1, <2>1
    <3> QED BY <1>1, <2>4, <2>5, <2>10, <3>1, FitsJoined
  <2>12. ~e.calls => Linkless(b) BY <2>4, <2>5, <2>9, <2>10, LinklessJoined
  <2>13. IsSeq(b) BY <2>4, <2>5, Joined
  <2> QED BY <1>1, <2>7, <2>9, <2>11, <2>12, <2>13 DEF Compiled
<1>4. CASE ~(d.err >= 0 /\ err >= 0)
  <2>1. Emit(c, d) BY <1>4 DEF WithTry
  <2> QED BY <2>1 DEF Compiled
<1> QED BY <1>3, <1>4

LEMMA CallCompiled ==
  ASSUME Layout, WordsWhole, def # NoDef, BodyFits, Near', NEW w \in DOMAIN words, Call(w)
  PROVE  \E s, d : Compiled(s, d)
<1>1. Onward(def) BY DefOnward
<1>2. DOMAIN words = 1 .. Len(words) /\ Len(words) \in Nat
  BY SeqParts DEF Layout, WordsInside
<1>3. PICK n \in Nat, l \in Nat :
        n = Len(write) /\ Next1 = n + 1 /\ l = Len(words) /\ valid \in 0 .. n
  <2>1. valid \in 0 .. Len(write) BY DEF Layout, Copied
  <2> QED BY <1>2, <2>1, Lengths
<1>4. CASE words[w].inlinable
  <2>1. WithTry(Inlined(w), words[w].err, def) BY <1>4 DEF Call
  <2>2. IsSeq(Inlined(w)) BY InlinedIsSeq
  <2>3. (\A A : Fits(Inlined(w), n, A)) /\ Linkless(Inlined(w))
    BY <1>2, <1>3, <1>4, InlinedFits
  <2> QED BY <1>1, <1>3, <2>1, <2>2, <2>3, WithTryCompiled
<1>5. CASE ~words[w].inlinable
  <2>1. PICK i : i = BranchLink(words[w].prologue - Next1) OBVIOUS
  <2>2. PICK c : c = <<i>> /\ IsSeq(c) /\ Len(c) = 1 /\ c[1] = i BY OnePart
  <2>3. PICK d : d = [def EXCEPT !.calls = TRUE] /\ Onward(d) /\ d.calls
    BY <1>1, FlagOnward
  <2>4. WithTry(c, words[w].err, d) BY <1>5, <2>1, <2>2, <2>3 DEF Call
  <2>5. PICK p \in Nat : p = words[w].prologue /\ p >= 1 /\ p <= n
    <3>1. words[w].prologue \in 1 .. valid BY <1>2 DEF Layout, WordsInside
    <3> QED BY <1>3, <3>1
  <2>6. n < FarReach
    <3>1. (\E s, e : IsSeq(s) /\ Emit(s, e) /\ Onward(e)) => n < FarReach
      BY <1>3, EmittedNear
    <3>2. CASE ~(d.err >= 0 /\ words[w].err >= 0)
      <4>1. Emit(c, d) BY <2>4, <3>2 DEF WithTry
      <4> QED BY <2>2, <2>3, <3>1, <4>1
    <3>3. CASE d.err >= 0 /\ words[w].err >= 0
      <4>1. PICK t : t = TryCode(d.err, words[w].err, Next1 + Len(c)) OBVIOUS
      <4>2. PICK b : b = c \o t.code OBVIOUS
      <4>3. PICK e : e = [d EXCEPT !.fixes = Append(@, t.fix)] OBVIOUS
      <4>4. Emit(b, e) BY <2>4, <3>3, <4>1, <4>2, <4>3 DEF WithTry
      <4>5. Next1 + Len(c) \in Nat BY <1>3, <2>2
      <4>6. IsSeq(t.code) BY <4>1, <4>5, TryCodeIs
      <4>7. IsSeq(b) BY <2>2, <4>2, <4>6, Joined
      <4>8. Onward(e) BY <2>3, <4>3, FixOnward
      <4> QED BY <3>1, <4>4, <4>7, <4>8
    <3> QED BY <3>2, <3>3
  <2>7. IsInstr(i) /\ i.op = "bl" /\ i.imm = ImmSigned(p - (n + 1), 26)
    BY <1>3, <2>1, <2>5, InstrIs DEF BranchLink
  <2>8. Off(i) = p - (n + 1)
    <3>1. PICK f \in Nat : f = FarReach BY Reaches
    <3>2. p - (n + 1) \in Int /\ -f <= p - (n + 1) /\ p - (n + 1) < f BY <2>5, <2>6, <3>1
    <3>3. Signed(ImmSigned(p - (n + 1), 26), 26) = p - (n + 1) BY <3>1, <3>2, Reaches
    <3> QED BY <2>7, <3>3 DEF Off
  <2>9. Fine(i, n + 1, n + 1 + 1, l)
    <3>1. n + 1 + (p - (n + 1)) = p BY <2>5
    <3>2. n + 1 + Off(i) \in Prologues(l)
      BY <1>2, <1>3, <2>5, <2>8, <3>1 DEF Prologues
    <3>3. i.op # "brk" /\ i.op \notin Jumps BY <2>7 DEF Jumps
    <3> QED BY <2>7, <3>2, <3>3 DEF Fine, Lands
  <2>10. \A A : Fits(c, n, A)
    <3>1. \A j \in 1 .. 1 : j = 1 OBVIOUS
    <3> QED BY <1>3, <2>2, <2>9, <3>1 DEF Fits
  <2> QED BY <1>3, <2>2, <2>3, <2>4, <2>10, WithTryCompiled
<1> QED BY <1>4, <1>5

LEMMA CallIntrinCompiled ==
  ASSUME Layout, def # NoDef, BodyFits, CallIntrin
  PROVE  \E s, d : Compiled(s, d)
<1> DEFINE out == LoadUnscaled(0, SP, -2)
<1>1. /\ Plain(MovReg(0, Ctx)) /\ Plain(MovReg(1, 0)) /\ Plain(SubImm(SP, SP, 2))
      /\ Plain(AddImm(1, SP, 0)) /\ Plain(AddImm(SP, SP, 2))
      /\ Plain(I("blr", GotReg, 0, 0)) /\ Plain(Tagged(out, <<"out">>))
  <2>1. /\ "mov" \in PlainOps /\ "sub" \in PlainOps /\ "add" \in PlainOps
        /\ "blr" \in PlainOps /\ "ldur" \in PlainOps
    BY DEF PlainOps
  <2> QED BY <2>1, PlainIs DEF MovReg, SubImm, AddImm, LoadUnscaled
<1>2. PICK beg : /\ beg = <<MovReg(0, Ctx), SubImm(SP, SP, 2), AddImm(1, SP, 0)>>
                 /\ IsSeq(beg) /\ AllPlain(beg)
  BY <1>1, PlainThree
<1>3. PICK end : end = <<I("blr", GotReg, 0, 0), AddImm(SP, SP, 2), MovReg(1, 0),
                        Tagged(out, <<"out">>)>>
  OBVIOUS
<1>4. IsSeq(end) /\ AllPlain(end)
  <2> HIDE DEF out
  <2> QED BY <1>1, <1>3, PlainFour
<1>7. PICK load : load = PageLoad(GotReg, Next1 + Len(beg), Got) /\ IsSeq(load) /\ AllPlain(load)
  BY PageAddrIsSeq, PageAddrPlain
<1>8. PICK most : most = beg \o load OBVIOUS
<1>9. IsSeq(most) /\ AllPlain(most)
  <2>1. IsSeq(beg) /\ AllPlain(beg) /\ IsSeq(load) /\ AllPlain(load) BY <1>2, <1>7
  <2> QED BY <1>8, <2>1, PlainJoined, Joined
<1>10. PICK c : c = most \o end OBVIOUS
<1>11. IsSeq(c) /\ AllPlain(c) BY <1>4, <1>9, <1>10, PlainJoined, Joined
<1>12. PICK d : d = [def EXCEPT !.calls = TRUE] /\ Onward(d) BY DefOnward, FlagOnward
<1>13. WithTry(c, 1, d) BY <1>2, <1>3, <1>7, <1>8, <1>10, <1>12 DEF CallIntrin
<1>14. (\A A : Fits(c, Len(write), A)) /\ Linkless(c) BY <1>11, PlainFits
<1> QED BY <1>11, <1>12, <1>13, <1>14, WithTryCompiled

\* Code which is gone over or ends with an exit.
LEMMA ExitCompiled ==
  ASSUME Layout, def # NoDef, BodyFits, Near', NEW c, IsSeq(c), AllPlain(c),
         NEW x, x.op # "bl", NEW e, e = Append(c, x),
         NEW f, f.at = Next1 + Len(e), f.type # "recur",
         Emit(Maybe(e), [def EXCEPT !.fixes = Append(@, f)])
  PROVE  \E s, d : Compiled(s, d)
<1>1. PICK n \in Nat, l \in Nat :
        n = Len(write) /\ l = Len(c) /\ Next1 = n + 1 /\ Len(words) \in Nat
  BY Lengths, SeqParts DEF Layout, WordsInside
<1>2. PICK d : d = [def EXCEPT !.fixes = Append(@, f)] OBVIOUS
<1>3. Onward(d) /\ f.at \in Ats(d) BY <1>2, DefOnward, FixOnward
<1>4. IsSeq(e) /\ Len(e) = l + 1 BY <1>1, Ended
<1>5. n + 1 \in Nat /\ (n + 1) + (l + 1) \in Ats(d) BY <1>1, <1>3, <1>4
<1>6. Fits(e, n + 1, Ats(d)) /\ Linkless(e) BY <1>1, <1>5, MarkedFits
<1>7. PICK b : b = Maybe(e) /\ IsSeq(b) /\ Len(b) = Len(e) + 1 BY <1>4, MaybeIs
<1>8. Emit(b, d) BY <1>2, <1>7
<1>9. Len(e) + 1 < NearReach BY <1>3, <1>7, <1>8, EmittedNear
<1>10. Fits(b, n, Ats(d)) /\ Linkless(b) BY <1>1, <1>4, <1>6, <1>7, <1>9, MaybeFits
<1> QED BY <1>1, <1>3, <1>7, <1>8, <1>10 DEF Compiled

LEMMA RetCompiled ==
  ASSUME Layout, def # NoDef, BodyFits, Near', Ret
  PROVE  \E s, d : Compiled(s, d)
<1>1. PICK z : z = ZeroErr(def) /\ IsSeq(z) /\ AllPlain(z) BY ZeroErrIsSeq, ZeroErrPlain
<1>2. PICK x : x = Brk("ret") /\ x.op = "brk" BY BrkIs
<1>3. PICK c : c = Append(z, x) OBVIOUS
<1>4. PICK f : f = Fix("ret", Next1 + Len(c), 0) OBVIOUS
<1>5. f.at = Next1 + Len(c) /\ f.type = "ret" BY <1>4 DEF Fix
<1>6. Emit(Maybe(c), [def EXCEPT !.fixes = Append(@, f)])
  BY <1>1, <1>2, <1>3, <1>4 DEF Ret
<1> QED BY <1>1, <1>2, <1>3, <1>5, <1>6, ExitCompiled

LEMMA ThrowCompiled ==
  ASSUME Layout, def # NoDef, BodyFits, Near', Throw
  PROVE  \E s, d : Compiled(s, d)
<1>1. PICK imm : imm = ImmToReg(0, Thrown) /\ IsSeq(imm) /\ AllPlain(imm)
  BY ImmToRegIsSeq, ImmToRegPlain
<1>2. PICK mov : mov = (IF def.err # 0 THEN <<MovReg(def.err, 0)>> ELSE <<>>) OBVIOUS
<1>3. IsSeq(mov) /\ AllPlain(mov)
  <2>1. CASE def.err # 0
    <3>1. "mov" \in PlainOps BY DEF PlainOps
    <3>2. Plain(MovReg(def.err, 0)) BY <3>1, PlainIs DEF MovReg
    <3> QED BY <1>2, <2>1, <3>2, PlainOne
  <2>2. CASE def.err = 0 BY <1>2, <2>2, PlainNone
  <2> QED BY <2>1, <2>2
<1>12. PICK most : most = imm \o mov OBVIOUS
<1>4. IsSeq(most) /\ AllPlain(most) BY <1>1, <1>3, <1>12, PlainJoined, Joined
<1>5. PICK x : x = Tagged(Brk("throw"), <<"throw">>) OBVIOUS
<1>6. x.op = "brk"
  <2>1. IsInstr(Brk("throw")) /\ Brk("throw").op = "brk" BY InstrIs DEF Brk
  <2> QED BY <1>5, <2>1, TaggedIs
<1>7. PICK c : c = Append(most, x) OBVIOUS
<1>8. c = imm \o mov \o <<x>>
  <2>1. PICK S : most \in Seq(S) BY <1>4 DEF IsSeq
  <2>2. PICK o : o = <<x>> /\ IsSeq(o) /\ Len(o) = 1 /\ o[1] = x BY OnePart
  <2>3. PICK r : r = most \o o OBVIOUS
  <2>4. PICK k \in Nat : k = Len(most) BY <1>4, SeqParts
  <2>5. /\ IsSeq(r) /\ Len(r) = k + 1 /\ r[k + 1] = x
        /\ \A i \in 1 .. k : r[i] = most[i]
    BY <1>4, <2>2, <2>3, <2>4, ConcatParts
  <2>6. /\ IsSeq(c) /\ Len(c) = k + 1 /\ c[k + 1] = x
        /\ \A i \in 1 .. k : c[i] = most[i]
    BY <1>4, <1>7, <2>4, AppendParts
  <2>7. \A i \in 1 .. k + 1 : i = k + 1 \/ i \in 1 .. k BY <2>4
  <2>8. c = r BY <2>5, <2>6, <2>7, SameSeq
  <2> QED BY <1>12, <2>2, <2>3, <2>8
<1>9. PICK f : f = Fix("throw", Next1 + Len(c), 0) OBVIOUS
<1>10. f.at = Next1 + Len(c) /\ f.type = "throw" BY <1>9 DEF Fix
<1>11. Emit(Maybe(c), [def EXCEPT !.fixes = Append(@, f)])
  BY <1>1, <1>2, <1>5, <1>8, <1>9 DEF Throw
<1> QED BY <1>4, <1>6, <1>7, <1>10, <1>11, ExitCompiled

LEMMA RecurOnward ==
  ASSUME Layout, def # NoDef, BodyFits, NEW ts, IsSeq(ts), NEW d, d = RecurFixes(def, ts)
  PROVE  Onward(d) /\ d.calls /\ \A i \in 1 .. Len(ts) : ts[i].at \in Ats(d)
<1>1. Onward(def) BY DefOnward
<1>2. /\ DOMAIN d = Fields /\ d.prologue = def.prologue /\ d.inner = def.inner
      /\ d.calls = TRUE /\ d.locfix = def.locfix /\ d.fixes = def.fixes \o ts
  BY <1>1 DEF RecurFixes, Onward, Fields
<1>3. PICK l \in Nat, k \in Nat : l = Len(def.fixes) /\ k = Len(ts)
  BY <1>1, SeqParts DEF Onward
<1>4. /\ IsSeq(d.fixes) /\ Len(d.fixes) = l + k
      /\ \A i \in 1 .. l : d.fixes[i] = def.fixes[i]
      /\ \A i \in 1 .. k : d.fixes[l + i] = ts[i]
  <2>1. IsSeq(def.fixes) BY <1>1 DEF Onward
  <2> QED BY <1>2, <1>3, <2>1, ConcatParts
<1>5. /\ \A i \in 1 .. l : i \in 1 .. l + k
      /\ \A i \in 1 .. k : l + i \in 1 .. l + k
  BY <1>3
<1>6. Ats(def) \subseteq Ats(d) BY <1>2, <1>3, <1>4, <1>5 DEF Ats
<1>7. \A i \in 1 .. k : ts[i].at \in Ats(d) BY <1>4, <1>5 DEF Ats
<1> QED BY <1>1, <1>2, <1>3, <1>4, <1>6, <1>7 DEF Onward

LEMMA RecurCompiled ==
  ASSUME Layout, def # NoDef, BodyFits, Near', Recur
  PROVE  \E s, d : Compiled(s, d)
<1>1. PICK w \in Nat : w = Len(write) /\ Next1 = w + 1 /\ Len(words) \in Nat
  BY Lengths, SeqParts DEF Layout, WordsInside
<1>2. PICK t : t = TryCode(def.err, def.err, Next1 + 2) OBVIOUS
<1>3. PICK f : f = Fix("recur", Next1 + 1, 0) OBVIOUS
<1>4. f.at = Next1 + 1 BY <1>3 DEF Fix
<1>5. PICK x : x = Brk("recur") /\ x.op = "brk" BY BrkIs
<1>6. PICK r : r = <<x>> /\ IsSeq(r) /\ Len(r) = 1 /\ r[1] = x BY OnePart
<1>7. PICK c : c = (IF def.err >= 0 THEN r \o t.code ELSE r) OBVIOUS
<1>8. PICK ts : ts = (IF def.err >= 0 THEN <<f, t.fix>> ELSE <<f>>) OBVIOUS
<1>9. PICK b : b = Maybe(c) OBVIOUS
<1>10. PICK d : d = RecurFixes(def, ts) OBVIOUS
<1>11. Emit(b, d)
  BY <1>2, <1>3, <1>5, <1>6, <1>7, <1>8, <1>9, <1>10 DEF Recur, RecurFixes
<1>12. PICK v \in Nat : v = w + 1 OBVIOUS
<1>13. PICK u \in Nat : u = v + 1 OBVIOUS
<1>14. t = TryCode(def.err, def.err, u + 1) /\ f.at = v + 1
  <2>1. Next1 + 2 = u + 1 /\ Next1 + 1 = v + 1 BY <1>1, <1>12, <1>13
  <2> QED BY <1>2, <1>4, <2>1
<1>15. IsSeq(c) /\ Onward(d) /\ Fits(c, v, Ats(d)) /\ d.calls
  <2>1. CASE def.err >= 0
    <3>1. ts = <<f, t.fix>> BY <1>8, <2>1
    <3>2. IsSeq(ts) /\ Len(ts) = 2 /\ ts[1] = f /\ ts[2] = t.fix BY <3>1, PairParts
    <3>3. Onward(d) /\ d.calls /\ \A i \in 1 .. 2 : ts[i].at \in Ats(d)
      BY <1>10, <3>2, RecurOnward
    <3>4. f.at \in Ats(d) /\ t.fix.at \in Ats(d) BY <3>2, <3>3
    <3>5. Fits(t.code, u, Ats(d)) BY <1>1, <1>14, <3>4, TryFits
    <3>6. IsSeq(t.code)
      <4>1. u + 1 \in Nat OBVIOUS
      <4> QED BY <1>14, <4>1, TryCodeIs
    <3>7. Fits(r, v, Ats(d))
      <4>1. \A j \in 1 .. 1 : j = 1 OBVIOUS
      <4> QED BY <1>6, <1>14, <3>4, <4>1 DEF Fits
    <3>8. c = r \o t.code BY <1>7, <2>1
    <3>9. u = v + Len(r) BY <1>6, <1>13
    <3>10. Fits(c, v, Ats(d)) BY <1>1, <1>6, <3>5, <3>6, <3>7, <3>8, <3>9, FitsJoined
    <3>11. IsSeq(c) BY <1>6, <3>6, <3>8, Joined
    <3> QED BY <3>3, <3>10, <3>11
  <2>2. CASE ~(def.err >= 0)
    <3>1. ts = <<f>> BY <1>8, <2>2
    <3>2. IsSeq(ts) /\ Len(ts) = 1 /\ ts[1] = f BY <3>1, OnePart
    <3>3. Onward(d) /\ d.calls /\ \A i \in 1 .. 1 : ts[i].at \in Ats(d)
      BY <1>10, <3>2, RecurOnward
    <3>4. f.at \in Ats(d) BY <3>2, <3>3
    <3>5. c = r BY <1>7, <2>2
    <3>6. \A j \in 1 .. 1 : j = 1 OBVIOUS
    <3>7. Fits(c, v, Ats(d)) BY <1>6, <1>14, <3>4, <3>5, <3>6 DEF Fits
    <3> QED BY <1>6, <3>3, <3>5, <3>7
  <2> QED BY <2>1, <2>2
<1>16. IsSeq(b) /\ Len(b) = Len(c) + 1 BY <1>9, <1>15, MaybeIs
<1>17. Len(c) + 1 < NearReach BY <1>11, <1>15, <1>16, EmittedNear
<1>18. Fits(b, w, Ats(d)) BY <1>1, <1>9, <1>12, <1>15, <1>17, MaybeFits
<1> QED BY <1>1, <1>11, <1>15, <1>16, <1>18 DEF Compiled

\* Whatever is compiled.
LEMMA CompileOpen ==
  ASSUME Layout, WordsWhole, Open, Near', NEW t \in Tokens, Compile(t)
  PROVE  Open' /\ UNCHANGED <<valid, words, pc>> /\ pc = 0
<1>1. def # NoDef /\ pc = 0 BY DEF Tokens
<1>2. BodyFits BY <1>1 DEF Open
<1>3. (\E s, d : Compiled(s, d)) /\ UNCHANGED <<valid, words, pc>>
  <2>1. CASE SetLocal(t[2], t[3])
    BY <1>1, <1>2, <2>1, SetLocalCompiled DEF SetLocal, Straight, machVars
  <2>2. CASE Param(t[2]) \/ GetLocal(t[2])
    BY <1>1, <1>2, <2>2, ParamCompiled DEF Param, GetLocal, Straight, machVars
  <2>3. CASE AllocaConst(t[2]) \/ AllocaDynamic
    BY <1>1, <1>2, <2>3, AllocaCompiled DEF AllocaConst, AllocaDynamic, Straight, machVars
  <2>4. CASE LoadAddr(t[2])
    BY <1>1, <1>2, <2>4, LoadAddrCompiled DEF LoadAddr, Straight, machVars
  <2>5. CASE t[2] \in DOMAIN words /\ Call(t[2])
    BY <1>1, <1>2, <2>5, CallCompiled DEF Call, machVars
  <2>6. CASE CallIntrin
    BY <1>1, <1>2, <2>6, CallIntrinCompiled DEF CallIntrin, Straight, machVars
  <2>7. CASE Recur BY <1>1, <1>2, <2>7, RecurCompiled DEF Recur, Straight, machVars
  <2>8. CASE Ret BY <1>1, <1>2, <2>8, RetCompiled DEF Ret, Straight, machVars
  <2>9. CASE Throw BY <1>1, <1>2, <2>9, ThrowCompiled DEF Throw, Straight, machVars
  <2> QED BY <2>1, <2>2, <2>3, <2>4, <2>5, <2>6, <2>7, <2>8, <2>9 DEF Compile
<1>4. BodyFits' BY <1>1, <1>2, <1>3, CompiledOpen
<1> QED BY <1>1, <1>3, <1>4 DEF Open

-----------------------------------------------------------------------------
(* The end of a word *)

\* The code and the word while locals are fixed.
Settled(s, n, A) ==
  /\ Homing(s, n) /\ s.d.calls = def.calls
  /\ Body(s.code, s.d.inner, n, A)
  /\ ~def.calls => \A p \in s.d.inner .. n : s.code[p].op # "bl"

LEMMA ResolveKeeps ==
  ASSUME NEW d, DOMAIN d = Fields, NEW k, NEW e, e = Resolve(d, k)
  PROVE  e.calls = d.calls /\ e.inner = d.inner
<1>1. CASE d.homes[k] # <<"unknown">> BY <1>1 DEF Resolve
<1>2. CASE d.homes[k] = <<"unknown">> /\ d.saved < LastStable
  <2>1. PICK r : r = IF d.saved = 0 THEN FirstStable ELSE d.saved + 1 OBVIOUS
  <2>2. e = [d EXCEPT !.saved = r, !.homes[k] = <<"reg", r>>]
    BY <1>2, <2>1 DEF Resolve
  <2> QED BY <2>2 DEF Fields
<1>3. CASE d.homes[k] = <<"unknown">> /\ ~(d.saved < LastStable)
  <2>1. PICK o : o = IF d.fpOff = 0 THEN RecordSize ELSE d.fpOff OBVIOUS
  <2>2. e = [d EXCEPT !.fpOff = o + 1, !.homes[k] = <<"mem", o>>]
    BY <1>3, <2>1 DEF Resolve
  <2> QED BY <2>2 DEF Fields
<1> QED BY <1>1, <1>2, <1>3

LEMMA LocalPlain ==
  ASSUME NEW d, NEW k, NEW r
  PROVE  Plain(LocalRead(d, k, r)) /\ Plain(LocalWrite(d, k, r)) /\ Plain(Nop)
<1>1. "mov" \in PlainOps /\ "ldr" \in PlainOps /\ "str" \in PlainOps /\ "nop" \in PlainOps
  BY DEF PlainOps
<1>2. Plain(Nop) BY <1>1, PlainIs DEF Nop
<1>3. Plain(LocalRead(d, k, r))
  <2>1. \A t : /\ Plain(Tagged(MovReg(r, d.homes[k][2]), t))
               /\ Plain(Tagged(LoadScaled(r, FP, d.homes[k][2]), t))
    BY <1>1, PlainIs DEF MovReg, LoadScaled
  <2> QED BY <2>1 DEF LocalRead
<1>4. Plain(LocalWrite(d, k, r))
  <2>1. \A t : /\ Plain(Tagged(MovReg(d.homes[k][2], r), t))
               /\ Plain(Tagged(Store(r, FP, d.homes[k][2]), t))
    BY <1>1, PlainIs DEF MovReg, Store
  <2> QED BY <2>1 DEF LocalWrite
<1> QED BY <1>2, <1>3, <1>4

\* An instruction is replaced by one which goes nowhere, or left to the prologue.
LEMMA FixLocalSettles ==
  ASSUME valid \in Nat, NEW n \in Nat, NEW A, NEW s, Settled(s, n, A),
         NEW fix, fix.at \in valid + 1 .. n, NEW t, t = FixLocal(s, fix)
  PROVE  Settled(t, n, A \ {fix.at})
<1>1. Homing(s, n) /\ Homing(t, n) BY FixLocalHoming DEF Settled
<1>2. PICK d : d = Resolve(s.d, fix.loc) OBVIOUS
<1>3. DOMAIN s.d = Fields BY <1>1 DEF Homing, Above
<1>4. d.calls = s.d.calls /\ d.inner = s.d.inner BY <1>2, <1>3, ResolveKeeps
<1>5. PICK x, e :
        /\ t = [code |-> [s.code EXCEPT ![fix.at] = x], d |-> e]
        /\ \/ e = d /\ Plain(x)
           \/ e = s.d /\ Plain(x)
           \/ fix.at = s.d.inner /\ e = [s.d EXCEPT !.prologue = @ + 1, !.inner = @ + 1]
  <2>1. CASE fix.type = "read" BY <1>2, <2>1, LocalPlain DEF FixLocal
  <2>2. CASE fix.type # "read" /\ Confirmed(s.d, fix.loc)
    BY <1>2, <2>2, LocalPlain DEF FixLocal
  <2>3. CASE fix.type # "read" /\ ~Confirmed(s.d, fix.loc) /\ fix.at = s.d.inner
    BY <1>2, <2>3 DEF FixLocal
  <2>4. CASE fix.type # "read" /\ ~Confirmed(s.d, fix.loc) /\ fix.at # s.d.inner
    BY <1>2, <2>4, LocalPlain DEF FixLocal
  <2> QED BY <2>1, <2>2, <2>3, <2>4
<1>6. t.d = e /\ t.code = [s.code EXCEPT ![fix.at] = x] BY <1>5
<1>7. PICK lo \in Int : lo = s.d.inner /\ lo >= 1
  <2>1. Above(s.d, valid, n) BY <1>1 DEF Homing
  <2>2. PrologueLen \in Nat BY PrologueLenIs
  <2> QED BY <2>1, <2>2 DEF Above
<1>8. /\ e.calls = s.d.calls
      /\ \/ e.inner = lo /\ Plain(x)
         \/ e.inner = lo + 1 /\ fix.at = lo
  <2>1. CASE (e = d \/ e = s.d) /\ Plain(x) BY <1>4, <1>7, <2>1
  <2>2. CASE fix.at = s.d.inner /\ e = [s.d EXCEPT !.prologue = @ + 1, !.inner = @ + 1]
    <3>1. e.calls = s.d.calls /\ e.inner = s.d.inner + 1 BY <1>3, <2>2 DEF Fields
    <3> QED BY <1>7, <2>2, <3>1
  <2> QED BY <1>5, <2>1, <2>2
<1>9. DOMAIN s.code = 1 .. n BY <1>1, SeqParts DEF Homing
<1>10. ASSUME NEW p \in e.inner .. n
       PROVE  /\ p \in lo .. n
              /\ \/ p # fix.at /\ t.code[p] = s.code[p]
                 \/ p = fix.at /\ Plain(t.code[p])
  <2>1. p \in lo .. n /\ p \in 1 .. n BY <1>7, <1>8
  <2>2. p = fix.at => Plain(x)
    <3>1. CASE e.inner = lo + 1 /\ fix.at = lo
      <4>1. p # fix.at BY <1>7, <3>1
      <4> QED BY <4>1
    <3> QED BY <1>8, <3>1
  <2> QED BY <1>6, <1>9, <2>1, <2>2
<1>11. Body(t.code, t.d.inner, n, A \ {fix.at})
  <2>1. ASSUME NEW p \in e.inner .. n
        PROVE  Fine(t.code[p], p, n + 1, Len(words)) \/ p \in A \ {fix.at}
    <3>1. CASE p # fix.at /\ t.code[p] = s.code[p]
      <4>1. Fine(s.code[p], p, n + 1, Len(words)) \/ p \in A
        BY <1>7, <1>10 DEF Settled, Body
      <4> QED BY <3>1, <4>1
    <3>2. CASE p = fix.at /\ Plain(t.code[p]) BY <3>2 DEF Plain, Fine, Lands
    <3> QED BY <1>10, <3>1, <3>2
  <2> QED BY <1>6, <2>1 DEF Body
<1>12. ASSUME ~def.calls, NEW p \in t.d.inner .. n PROVE t.code[p].op # "bl"
  <2>1. p \in e.inner .. n BY <1>6, <1>12
  <2>2. CASE p # fix.at /\ t.code[p] = s.code[p]
    BY <1>7, <1>10, <1>12, <2>1, <2>2 DEF Settled
  <2>3. CASE p = fix.at /\ Plain(t.code[p]) BY <2>3 DEF Plain
  <2> QED BY <1>10, <2>1, <2>2, <2>3
<1>13. t.d.calls = def.calls BY <1>6, <1>8 DEF Settled
<1> QED BY <1>1, <1>11, <1>12, <1>13 DEF Settled

LEMMA SettledMore ==
  ASSUME NEW s, NEW n, NEW A, Settled(s, n, A), NEW B, A \subseteq B
  PROVE  Settled(s, n, B)
BY DEF Settled, Body

\* What is left to be fixed after the first i.
Left(fs, i) == {fs[j].at : j \in i + 1 .. Len(fs)}

LEMMA LocalsSettled ==
  ASSUME valid \in Nat, NEW n \in Nat, NEW B, NEW fs, Places(fs, valid, n),
         NEW s, Settled(s, n, B \cup Left(fs, 0)),
         NEW t, t = FixingLocals(s, fs)[Len(fs)]
  PROVE  Settled(t, n, B)
<1>1. IsSeq(fs) /\ \A i \in 1 .. Len(fs) : fs[i].at \in valid + 1 .. n BY DEF Places
<1>2. PICK l \in Nat : l = Len(fs) BY <1>1, SeqParts
<1>3. PICK f : f = FixingLocals(s, fs) OBVIOUS
<1>4. f[0] = s /\ \A i \in 1 .. Len(fs) : f[i] = FixLocal(f[i - 1], fs[i])
  BY <1>1, <1>3, LocalsFixed
<1> DEFINE S == {i \in 0 .. l : Settled(f[i], n, B \cup Left(fs, i))}
<1>5. 0 \in S BY <1>4
<1>6. \A i \in 0 .. l - 1 : i \in S => i + 1 \in S
  <2> SUFFICES ASSUME NEW i \in 0 .. l - 1, Settled(f[i], n, B \cup Left(fs, i))
               PROVE  Settled(f[i + 1], n, B \cup Left(fs, i + 1))
    OBVIOUS
  <2>1. PICK j \in 1 .. Len(fs) : j = i + 1 /\ j - 1 = i BY <1>2
  <2>2. PICK fix : fix = fs[j] /\ fix.at \in valid + 1 .. n BY <1>1, <2>1
  <2>3. f[j] = FixLocal(f[i], fix) BY <1>4, <2>1, <2>2
  <2>4. PICK C : C = B \cup Left(fs, i) OBVIOUS
  <2>5. Settled(f[j], n, C \ {fix.at}) BY <2>2, <2>3, <2>4, FixLocalSettles
  <2>6. C \ {fix.at} \subseteq B \cup Left(fs, j)
    <3>1. ASSUME NEW x \in i + 1 .. l, fs[x].at # fix.at PROVE x \in j + 1 .. l
      <4>1. x # j BY <2>2, <3>1
      <4> QED BY <1>2, <2>1, <4>1
    <3> QED BY <1>2, <2>4, <3>1 DEF Left
  <2>7. Settled(f[j], n, B \cup Left(fs, j)) BY <2>5, <2>6, SettledMore
  <2> QED BY <2>1, <2>7
<1>7. l \in S
  <2> HIDE DEF S
  <2>1. \A i \in 0 .. l : i \in S BY <1>5, <1>6, InductTo
  <2> QED BY <2>1
<1>8. Left(fs, l) = {}
  <2>1. l + 1 .. l = {} OBVIOUS
  <2> QED BY <1>2, <2>1 DEF Left
<1>9. B \cup Left(fs, l) = B BY <1>8
<1> QED BY <1>2, <1>3, <1>7, <1>9

\* The code of a word from lo to its end hi, which may call T, while branches are
\* fixed.
Tied(c, lo, hi, T, A) ==
  /\ IsSeq(c) /\ Len(c) = hi
  /\ \A p \in lo .. hi : Lands(c[p], p, hi, T) \/ p \in A

LEMMA TiedMore ==
  ASSUME NEW c, NEW lo, NEW hi, NEW T, NEW A, Tied(c, lo, hi, T, A), NEW B, A \subseteq B
  PROVE  Tied(c, lo, hi, T, B)
BY DEF Tied

\* A word from lo to hi whose body ends before epi, in reach.
Spans(lo, epi, hi, T) ==
  /\ lo \in Nat /\ epi \in Nat /\ hi \in Nat /\ lo >= 1 /\ epi <= hi /\ lo \in T
  /\ hi < FarReach /\ hi - lo < NearReach

\* The only difference, and no call unless the word calls itself.
OnlyAt(t, c, hi, fix) ==
  /\ \A p \in 1 .. hi : p # fix.at => t[p] = c[p]
  /\ fix.type # "recur" => t[fix.at].op # "bl"

\* A branch goes to the end of the body, or the word calls itself.
LEMMA FixBranchTies ==
  ASSUME NEW lo, NEW epi, NEW hi, NEW T, Spans(lo, epi, hi, T), NEW A, NEW c, Tied(c, lo, hi, T, A),
         NEW fix, fix.at \in 1 .. epi - 1, NEW t, t = FixBranch(c, fix, lo, epi)
  PROVE  Tied(t, lo, hi, T, A \ {fix.at}) /\ OnlyAt(t, c, hi, fix)
<1>0. /\ lo \in Nat /\ epi \in Nat /\ hi \in Nat /\ lo >= 1 /\ epi <= hi /\ lo \in T
       /\ hi < FarReach /\ hi - lo < NearReach
  BY DEF Spans
<1>1. PICK at \in Nat : at = fix.at /\ at >= 1 /\ at < epi BY <1>0
<1>2. PICK f \in Nat, g \in Nat : f = FarReach /\ g = NearReach BY Reaches
<1>3. PICK instr :
        instr = CASE fix.type = "recur" -> BranchLink(lo - at)
                  [] fix.type = "try" -> CompareBranch("cbnz", fix.reg, epi - at)
                  [] OTHER -> BranchTo(epi - at)
  OBVIOUS
<1>4. t = [c EXCEPT ![at] = Tagged(instr, c[at].tag)]
  BY <1>1, <1>3 DEF FixBranch
<1>5. IsSeq(c) /\ Len(c) = hi /\ DOMAIN c = 1 .. hi BY SeqParts DEF Tied
<1>6. at \in 1 .. hi BY <1>1, <1>0
<1>7. PICK x : x = Tagged(instr, c[at].tag) OBVIOUS
<1>8. t[at] = x /\ \A p \in 1 .. hi : p # at => t[p] = c[p] BY <1>4, <1>5, <1>6, <1>7
<1>9. IsSeq(t) /\ Len(t) = hi
  <2>1. t = [i \in DOMAIN c |-> t[i]] BY <1>4
  <2> QED BY <1>5, <2>1, PatchedParts
<1>10. (at >= lo => Lands(x, at, hi, T)) /\ (fix.type # "recur" => x.op # "bl")
  <2>1. CASE fix.type = "recur"
    <3>1. instr = I("bl", 0, 0, ImmSigned(lo - at, 26)) BY <1>3, <2>1 DEF BranchLink
    <3>2. IsInstr(instr) /\ instr.op = "bl" /\ instr.imm = ImmSigned(lo - at, 26)
      BY <3>1, InstrIs
    <3>3. IsInstr(x) /\ x.op = "bl" /\ x.imm = ImmSigned(lo - at, 26)
      BY <1>7, <3>2, TaggedIs
    <3>4. ASSUME at >= lo PROVE Lands(x, at, hi, T)
      <4>1. lo - at \in Int /\ -f <= lo - at /\ lo - at < f
        <5>1. hi < f /\ at <= hi BY <1>1, <1>2, <1>0
        <5> QED BY <1>1, <1>0, <3>4, <5>1
      <4>2. Signed(ImmSigned(lo - at, 26), 26) = lo - at BY <1>2, <4>1, Reaches
      <4>3. Off(x) = lo - at BY <3>3, <4>2 DEF Off
      <4>4. at + (lo - at) = lo BY <1>1, <1>0
      <4>5. at + Off(x) \in T BY <1>0, <4>3, <4>4
      <4>6. x.op # "brk" /\ x.op \notin Jumps BY <3>3 DEF Jumps
      <4> QED BY <3>3, <4>5, <4>6 DEF Lands
    <3> QED BY <2>1, <3>4
  <2>2. CASE fix.type = "try"
    <3>1. instr = I("cbnz", fix.reg, 0, ImmSigned(epi - at, 19))
      BY <1>3, <2>2 DEF CompareBranch
    <3>2. IsInstr(instr) /\ instr.op = "cbnz" /\ instr.imm = ImmSigned(epi - at, 19)
      BY <3>1, InstrIs
    <3>3. IsInstr(x) /\ x.op = "cbnz" /\ x.imm = ImmSigned(epi - at, 19)
      BY <1>7, <3>2, TaggedIs
    <3>4. ASSUME at >= lo PROVE Lands(x, at, hi, T)
      <4>1. epi - at \in Int /\ -g <= epi - at /\ epi - at < g
        <5>1. hi - lo < g BY <1>2, <1>0
        <5>2. epi - at <= hi - lo BY <1>1, <1>0, <3>4
        <5>3. epi - at >= 0 /\ epi - at \in Int BY <1>1, <1>0
        <5> QED BY <1>2, <1>0, <5>1, <5>2, <5>3
      <4>2. Signed(ImmSigned(epi - at, 19), 19) = epi - at BY <1>2, <4>1, Reaches
      <4>3. Off(x) = epi - at BY <3>3, <4>2 DEF Off
      <4>4. epi - at \in 1 .. hi - at BY <1>1, <1>0
      <4> QED BY <3>3, <4>3, <4>4 DEF Lands
    <3> QED BY <3>3, <3>4
  <2>3. CASE fix.type # "recur" /\ fix.type # "try"
    <3>1. instr = I("b", 0, 0, ImmSigned(epi - at, 26)) BY <1>3, <2>3 DEF BranchTo
    <3>2. IsInstr(instr) /\ instr.op = "b" /\ instr.imm = ImmSigned(epi - at, 26)
      BY <3>1, InstrIs
    <3>3. IsInstr(x) /\ x.op = "b" /\ x.imm = ImmSigned(epi - at, 26)
      BY <1>7, <3>2, TaggedIs
    <3>4. Lands(x, at, hi, T)
      <4>1. epi - at \in Int /\ -f <= epi - at /\ epi - at < f
        <5>1. hi < f BY <1>2, <1>0
        <5> QED BY <1>1, <1>2, <1>0, <5>1
      <4>2. Signed(ImmSigned(epi - at, 26), 26) = epi - at BY <1>2, <4>1, Reaches
      <4>3. Off(x) = epi - at BY <3>3, <4>2 DEF Off
      <4>4. epi - at \in 1 .. hi - at BY <1>1, <1>0
      <4> QED BY <3>3, <4>3, <4>4 DEF Lands
    <3> QED BY <3>3, <3>4
  <2> QED BY <2>1, <2>2, <2>3
<1>11. ASSUME NEW p \in lo .. hi PROVE Lands(t[p], p, hi, T) \/ p \in A \ {at}
  <2>1. CASE p = at BY <1>8, <1>10, <2>1
  <2>2. CASE p # at
    <3>1. p \in 1 .. hi BY <1>0
    <3>2. CASE p \in 1 .. hi
      <4>1. t[p] = c[p] BY <1>8, <2>2, <3>2
      <4> QED BY <2>2, <4>1 DEF Tied
    <3> QED BY <3>1, <3>2
  <2> QED BY <2>1, <2>2
<1>12. OnlyAt(t, c, hi, fix) BY <1>1, <1>8, <1>10 DEF OnlyAt
<1> QED BY <1>1, <1>9, <1>11, <1>12 DEF Tied

\* All of the branches, and what they leave alone.
Branched(t, c, lo, epi, hi, T, fs) ==
  /\ Tied(t, lo, hi, T, {})
  /\ \A p \in epi .. hi : t[p] = c[p]
  /\ ((\A i \in 1 .. Len(fs) : fs[i].type # "recur") /\ (\A p \in lo .. hi : c[p].op # "bl"))
       => \A p \in lo .. hi : t[p].op # "bl"

LEMMA BranchesTied ==
  ASSUME NEW lo, NEW epi, NEW hi, NEW T, Spans(lo, epi, hi, T),
         NEW fs, Places(fs, valid, epi - 1), valid \in Nat,
         NEW c, Tied(c, lo, hi, T, Left(fs, 0)),
         NEW t, t = FixingBranches(c, fs, lo, epi)[Len(fs)]
  PROVE  Branched(t, c, lo, epi, hi, T, fs)
<1>0. lo \in Nat /\ epi \in Nat /\ hi \in Nat /\ lo >= 1 /\ epi <= hi BY DEF Spans
<1>1. IsSeq(fs) /\ \A i \in 1 .. Len(fs) : fs[i].at \in 1 .. epi - 1
  <2>1. \A x \in valid + 1 .. epi - 1 : x \in 1 .. epi - 1 BY <1>0
  <2> QED BY <2>1 DEF Places
<1>2. PICK l \in Nat : l = Len(fs) BY <1>1, SeqParts
<1>3. PICK f : f = FixingBranches(c, fs, lo, epi) OBVIOUS
<1>4. f[0] = c /\ \A i \in 1 .. Len(fs) : f[i] = FixBranch(f[i - 1], fs[i], lo, epi)
  BY <1>1, <1>3, BranchesFixed
<1> DEFINE Linked == ~((\A i \in 1 .. Len(fs) : fs[i].type # "recur")
                         /\ (\A p \in lo .. hi : c[p].op # "bl"))
           Done(i) == /\ Tied(f[i], lo, hi, T, Left(fs, i))
                      /\ \A p \in epi .. hi : f[i][p] = c[p]
                      /\ Linked \/ \A p \in lo .. hi : f[i][p].op # "bl"
           S == {i \in 0 .. l : Done(i)}
<1>5. Done(0) BY <1>4
<1>6. ASSUME NEW i \in 0 .. l - 1, Done(i) PROVE Done(i + 1)
  <2>1. PICK j \in 1 .. Len(fs) : j = i + 1 /\ j - 1 = i BY <1>2
  <2>2. PICK fix : fix = fs[j] /\ fix.at \in 1 .. epi - 1 BY <1>1, <2>1
  <2>3. PICK a, b : a = f[i] /\ b = f[j] OBVIOUS
  <2>4. b = FixBranch(a, fix, lo, epi) BY <1>4, <2>1, <2>2, <2>3
  <2>5. PICK C : C = Left(fs, i) OBVIOUS
  <2>6. Tied(a, lo, hi, T, C) BY <1>6, <2>3, <2>5
  <2>7. Tied(b, lo, hi, T, C \ {fix.at}) /\ OnlyAt(b, a, hi, fix)
    <3>1. fix.at \in 1 .. epi - 1 BY <2>2
    <3> QED BY <2>4, <2>6, <3>1, FixBranchTies
  <2>8. C \ {fix.at} \subseteq Left(fs, j)
    <3>1. ASSUME NEW x \in i + 1 .. Len(fs), fs[x].at # fix.at PROVE x \in j + 1 .. Len(fs)
      <4>1. x # j BY <2>2, <3>1
      <4> QED BY <1>2, <2>1, <4>1
    <3> QED BY <2>5, <3>1 DEF Left
  <2>9. Tied(b, lo, hi, T, Left(fs, j)) BY <2>7, <2>8, TiedMore
  <2>10. \A p \in epi .. hi : b[p] = c[p]
    <3>1. ASSUME NEW p \in epi .. hi PROVE b[p] = c[p]
      <4>1. fix.at < epi /\ fix.at >= 1 /\ fix.at \in Int BY <1>0, <2>2
      <4>2. p \in 1 .. hi /\ p # fix.at BY <1>0, <4>1
      <4>3. b[p] = a[p] BY <2>7, <4>2 DEF OnlyAt
      <4> QED BY <1>6, <2>3, <4>3
    <3> QED BY <3>1
  <2>11. Linked \/ \A p \in lo .. hi : b[p].op # "bl"
    <3> SUFFICES ASSUME ~Linked, NEW p \in lo .. hi PROVE b[p].op # "bl" OBVIOUS
    <3>1. a[p].op # "bl" /\ fix.type # "recur" BY <1>6, <2>2, <2>3
    <3>2. p \in 1 .. hi BY <1>0
    <3> QED BY <2>7, <3>1, <3>2 DEF OnlyAt
  <2> QED BY <2>1, <2>3, <2>9, <2>10, <2>11
<1>7. Done(l)
  <2> HIDE DEF Done
  <2>1. 0 \in S /\ \A i \in 0 .. l - 1 : i \in S => i + 1 \in S BY <1>5, <1>6
  <2>2. l \in S
    <3> HIDE DEF S
    <3>1. \A i \in 0 .. l : i \in S BY <2>1, InductTo
    <3> QED BY <3>1
  <2> QED BY <2>2
<1>8. Left(fs, l) = {}
  <2>1. l + 1 .. l = {} OBVIOUS
  <2> QED BY <1>2, <2>1 DEF Left
<1>9. f[l] = t BY <1>2, <1>3
<1> QED BY <1>7, <1>8, <1>9 DEF Branched

\* Prologues and epilogues go nowhere.
LEMMA FramePlain ==
  ASSUME NEW off
  PROVE  /\ IsSeq(FramePush(off)) /\ AllPlain(FramePush(off))
         /\ IsSeq(FramePop(off)) /\ AllPlain(FramePop(off))
<1>1. \A op \in PlainOps : \A r, s, imm : Plain(I(op, r, s, imm)) BY PlainIs
<1>2. "add" \in PlainOps /\ "sub" \in PlainOps /\ "stp!" \in PlainOps /\ "stp" \in PlainOps
      /\ "ldp!" \in PlainOps /\ "ldp" \in PlainOps
  BY DEF PlainOps
<1>3. /\ Plain(Pair("stp!", FP, LR, -off)) /\ Plain(AddImm(FP, SP, 0))
      /\ Plain(SubImm(SP, SP, off)) /\ Plain(Pair("stp", FP, LR, 0))
      /\ Plain(Pair("ldp!", FP, LR, off)) /\ Plain(AddImm(SP, SP, off))
      /\ Plain(Pair("ldp", FP, LR, 0))
  BY <1>1, <1>2 DEF Pair, AddImm, SubImm
<1>4. IsSeq(FramePush(off)) /\ AllPlain(FramePush(off))
  <2>1. CASE off <= PairMax BY <1>3, <2>1, PlainTwo DEF FramePush
  <2>2. CASE ~(off <= PairMax) BY <1>3, <2>2, PlainThree DEF FramePush
  <2> QED BY <2>1, <2>2
<1>5. IsSeq(FramePop(off)) /\ AllPlain(FramePop(off))
  <2>1. CASE off <= PairMax BY <1>3, <2>1, PlainOne DEF FramePop
  <2>2. CASE ~(off <= PairMax) BY <1>3, <2>2, PlainTwo DEF FramePop
  <2> QED BY <2>1, <2>2
<1> QED BY <1>4, <1>5

LEMMA PrologueGoesNowhere ==
  ASSUME NEW d, d.saved \in 0 .. LastStable, NEW p, p = Prologue(d)
  PROVE  AllPlain(p)
<1>1. PICK pairs : pairs = SavedPairs(d.saved) OBVIOUS
<1>2. PICK k \in Nat : DOMAIN pairs = 1 .. k BY <1>1, SavedIs
<1>3. PICK a : a = IF SavedSingle(d.saved) THEN <<StorePre(FirstStable, -2)>> ELSE <<>>
  OBVIOUS
<1>4. PICK b : b = [n \in DOMAIN pairs |->
                     LET r == pairs[Len(pairs) + 1 - n] IN Pair("stp!", r - 1, r, -2)]
  OBVIOUS
<1>5. PICK c : c = IF HasFrame(d) THEN FramePush(FrameSize(d)) ELSE <<>> OBVIOUS
<1>6. PICK q : q = a \o b OBVIOUS
<1>7. p = q \o c BY <1>1, <1>3, <1>4, <1>5, <1>6 DEF Prologue
<1>8. IsSeq(a) /\ AllPlain(a)
  <2>1. "str!" \in PlainOps BY DEF PlainOps
  <2>2. Plain(StorePre(FirstStable, -2)) BY <2>1, PlainIs DEF StorePre
  <2>3. CASE SavedSingle(d.saved) BY <1>3, <2>2, <2>3, PlainOne
  <2>4. CASE ~SavedSingle(d.saved) BY <1>3, <2>4, PlainNone
  <2> QED BY <2>3, <2>4
<1>9. IsSeq(b) /\ Len(b) = k
  <2>1. b = [n \in 1 .. k |-> b[n]] BY <1>2, <1>4
  <2> QED BY <2>1, FunctionIsSeq
<1>10. AllPlain(b)
  <2>1. "stp!" \in PlainOps BY DEF PlainOps
  <2>2. \A r, s, off : Plain(Pair("stp!", r, s, off)) BY <2>1, PlainIs DEF Pair
  <2>3. \A n \in 1 .. k : Plain(b[n]) BY <1>2, <1>4, <2>2
  <2> QED BY <1>9, <2>3 DEF AllPlain
<1>11. IsSeq(c) /\ AllPlain(c)
  <2>1. CASE HasFrame(d) BY <1>5, <2>1, FramePlain
  <2>2. CASE ~HasFrame(d) BY <1>5, <2>2, PlainNone
  <2> QED BY <2>1, <2>2
<1>12. IsSeq(q) BY <1>6, <1>8, <1>9, Joined
<1>13. AllPlain(q) BY <1>6, <1>8, <1>9, <1>10, PlainJoined
<1> QED BY <1>7, <1>11, <1>12, <1>13, PlainJoined

LEMMA EpilogueGoesNowhere ==
  ASSUME NEW d, d.saved \in 0 .. LastStable, NEW p, p = Epilogue(d)
  PROVE  AllPlain(p)
<1>1. PICK pairs : pairs = SavedPairs(d.saved) OBVIOUS
<1>2. PICK k \in Nat : DOMAIN pairs = 1 .. k BY <1>1, SavedIs
<1>3. PICK a : a = IF HasFrame(d) /\ d.alloca THEN <<AddImm(SP, FP, 0)>> ELSE <<>> OBVIOUS
<1>4. PICK b : b = IF HasFrame(d) THEN FramePop(FrameSize(d)) ELSE <<>> OBVIOUS
<1>5. PICK c : c = [n \in DOMAIN pairs |-> Pair("ldp!", pairs[n] - 1, pairs[n], 2)] OBVIOUS
<1>6. PICK e : e = IF SavedSingle(d.saved) THEN <<LoadPost(FirstStable, 2)>> ELSE <<>>
  OBVIOUS
<1>7. PICK q : q = a \o b OBVIOUS
<1>8. PICK r : r = q \o c OBVIOUS
<1>9. p = r \o e BY <1>1, <1>3, <1>4, <1>5, <1>6, <1>7, <1>8 DEF Epilogue
<1>10. "add" \in PlainOps /\ "ldp!" \in PlainOps /\ "ldr!" \in PlainOps BY DEF PlainOps
<1>11. IsSeq(a) /\ AllPlain(a)
  <2>1. Plain(AddImm(SP, FP, 0)) BY <1>10, PlainIs DEF AddImm
  <2>2. CASE HasFrame(d) /\ d.alloca BY <1>3, <2>1, <2>2, PlainOne
  <2>3. CASE ~(HasFrame(d) /\ d.alloca) BY <1>3, <2>3, PlainNone
  <2> QED BY <2>2, <2>3
<1>12. IsSeq(b) /\ AllPlain(b)
  <2>1. CASE HasFrame(d) BY <1>4, <2>1, FramePlain
  <2>2. CASE ~HasFrame(d) BY <1>4, <2>2, PlainNone
  <2> QED BY <2>1, <2>2
<1>13. IsSeq(c) /\ Len(c) = k
  <2>1. c = [n \in 1 .. k |-> c[n]] BY <1>2, <1>5
  <2> QED BY <2>1, FunctionIsSeq
<1>14. AllPlain(c)
  <2>1. \A x, s, off : Plain(Pair("ldp!", x, s, off)) BY <1>10, PlainIs DEF Pair
  <2>2. \A n \in 1 .. k : Plain(c[n]) BY <1>2, <1>5, <2>1
  <2> QED BY <1>13, <2>2 DEF AllPlain
<1>15. IsSeq(e) /\ AllPlain(e)
  <2>1. Plain(LoadPost(FirstStable, 2)) BY <1>10, PlainIs DEF LoadPost
  <2>2. CASE SavedSingle(d.saved) BY <1>6, <2>1, <2>2, PlainOne
  <2>3. CASE ~SavedSingle(d.saved) BY <1>6, <2>3, PlainNone
  <2> QED BY <2>2, <2>3
<1>16. IsSeq(q) /\ AllPlain(q) BY <1>7, <1>11, <1>12, Joined, PlainJoined
<1>17. IsSeq(r) /\ AllPlain(r) BY <1>8, <1>13, <1>14, <1>16, Joined, PlainJoined
<1> QED BY <1>9, <1>15, <1>17, PlainJoined

\* The zeroed error goes nowhere either.
LEMMA SettledStart ==
  ASSUME Layout, def # NoDef, BodyFits, NEW zero, zero = ZeroErr(def),
         NEW s, s = [code |-> write \o zero, d |-> def]
  PROVE  \E n \in Nat : /\ Settled(s, n, Ats(def)) /\ n = Len(write) + Len(zero)
                       /\ Len(write) <= n
<1>1. PICK n \in Nat : /\ Homing(s, n) /\ n = Len(write) + Len(zero) /\ Len(write) <= n
                       /\ IsSeq(zero) /\ Len(zero) \in Nat
  BY EndStarts
<1>2. AllPlain(zero) BY ZeroErrPlain
<1>3. PICK w \in Nat, l \in Nat, k \in Nat :
        /\ w = Len(write) /\ l = Len(zero) /\ k = Len(words) /\ n = w + l
  BY <1>1, Lengths, SeqParts DEF Layout, WordsInside
<1>4. PICK c : c = write \o zero OBVIOUS
<1>5. /\ \A i \in 1 .. w : c[i] = write[i]
      /\ \A i \in 1 .. l : c[w + i] = zero[i]
  <2>1. IsSeq(write) /\ IsSeq(zero) BY <1>1, Lengths
  <2> QED BY <1>3, <1>4, <2>1, ConcatParts
<1>6. PICK lo \in Nat : lo = def.inner /\ lo >= 1
  <2>1. Above(def, valid, Len(write)) /\ valid \in Nat BY Lengths DEF Layout, InDef
  <2>2. PrologueLen \in Nat BY PrologueLenIs
  <2>3. def.prologue \in Nat /\ def.prologue >= 1 /\ def.inner = def.prologue + PrologueLen
    BY <1>3, <2>1 DEF Above
  <2> QED BY <2>2, <2>3
<1>7. ASSUME NEW p \in lo .. n
      PROVE  \/ p \in 1 .. w /\ p \in lo .. w /\ c[p] = write[p]
             \/ Plain(c[p])
  <2>1. p \in lo .. w \/ p \in w + 1 .. w + l BY <1>3, <1>6, <1>7
  <2>2. CASE p \in lo .. w
    <3>1. p \in 1 .. w BY <1>6, <2>2
    <3> QED BY <1>5, <2>2, <3>1
  <2>3. CASE p \in w + 1 .. w + l
    <3>1. PICK j \in 1 .. l : p = w + j
      <4>1. p - w \in 1 .. l /\ p = w + (p - w) BY <2>3
      <4> QED BY <4>1
    <3>2. Plain(zero[j]) BY <1>2, <1>3, <3>1 DEF AllPlain
    <3> QED BY <1>5, <3>1, <3>2
  <2> QED BY <2>1, <2>2, <2>3
<1>8. ASSUME NEW p \in lo .. n
      PROVE  Fine(c[p], p, n + 1, k) \/ p \in Ats(def)
  <2>1. CASE p \in 1 .. w /\ p \in lo .. w /\ c[p] = write[p]
    <3>1. Fine(write[p], p, w + 1, k) \/ p \in Ats(def)
      BY <1>3, <1>6, <2>1 DEF BodyFits, Body
    <3>2. p \in Int /\ w + 1 \in Int /\ n + 1 \in Int /\ w + 1 <= n + 1 /\ k <= k BY <1>3
    <3>3. Fine(write[p], p, w + 1, k) => Fine(write[p], p, n + 1, k) BY <3>2, FineMore
    <3> QED BY <2>1, <3>1, <3>3
  <2>2. CASE Plain(c[p]) BY <2>2 DEF Plain, Fine, Lands
  <2> QED BY <1>7, <2>1, <2>2
<1>9. ASSUME ~def.calls, NEW p \in lo .. n PROVE c[p].op # "bl"
  <2>1. CASE p \in lo .. w /\ c[p] = write[p] BY <1>3, <1>6, <1>9, <2>1 DEF BodyFits
  <2>2. CASE Plain(c[p]) BY <2>2 DEF Plain
  <2> QED BY <1>7, <2>1, <2>2
<1>10. s.code = c /\ s.d = def BY <1>4
<1>11. Body(s.code, s.d.inner, n, Ats(def)) BY <1>3, <1>6, <1>8, <1>10 DEF Body
<1>12. Settled(s, n, Ats(def)) BY <1>1, <1>6, <1>9, <1>10, <1>11 DEF Settled
<1> QED BY <1>1, <1>12


\* Finished words stay as they are.
LEMMA WholeKept ==
  ASSUME Layout, WordsWhole, NEW v \in 1 .. Len(words),
         \A i \in 1 .. valid : write'[i] = write[i],
         \A i \in 1 .. Len(words) : words'[i] = words[i]
  PROVE  Whole(v)'
<1>1. PICK k \in Nat : k = Len(words) /\ v \in 1 .. k
  BY SeqParts DEF Layout, WordsInside
<1>2. words'[v] = words[v] /\ \A u \in 1 .. v : words'[u] = words[u]
  <2>1. \A u \in 1 .. v : u \in 1 .. k BY <1>1
  <2> QED BY <1>1, <2>1
<1>3. Prologues(v)' = Prologues(v)
  <2>1. \A u \in 1 .. v : words'[u].prologue = words[u].prologue BY <1>2
  <2> QED BY <2>1 DEF Prologues
<1>4. PICK a, b : a = words[v].prologue /\ b = words[v].ret /\ valid \in Nat
                  /\ a \in 1 .. valid /\ b \in a .. valid
  BY Lengths DEF Layout, WordsInside
<1>5. \A p \in a .. b : p \in 1 .. valid BY <1>4
<1>6. \A p \in a .. b : write'[p] = write[p] BY <1>5
<1>7. Whole(v) BY DEF WordsWhole
<1>8. \A p \in a .. b : Lands(write[p], p, b, Prologues(v)) BY <1>4, <1>7 DEF Whole, Fine
<1>9. ASSUME NEW p \in a .. b
      PROVE  /\ Lands(write'[p], p, b, Prologues(v)')
             /\ words[v].inlinable => write'[p].op # "bl"
  BY <1>3, <1>4, <1>6, <1>7, <1>8 DEF Whole
<1>10. write'[b].op = "ret" /\ words[v].ceil = b + 1
  <2>1. b \in a .. b BY <1>4
  <2> QED BY <1>4, <1>6, <1>7, <2>1 DEF Whole
<1>11. \A u \in 1 .. v - 1 : words'[u].ret < a
  <2>1. \A u \in 1 .. v - 1 : u \in 1 .. v BY <1>1
  <2>2. \A u \in 1 .. v - 1 : words'[u] = words[u] BY <1>2, <2>1
  <2>3. \A u \in 1 .. v - 1 : words[u].ret < a BY <1>4, <1>7 DEF Whole
  <2> QED BY <2>2, <2>3
<1> QED BY <1>2, <1>4, <1>9, <1>10, <1>11 DEF Whole, Fine

\* Code with its prologue, from beg to inner.
Filled(c, pro, beg, inner) ==
  [i \in DOMAIN c |-> IF i \in beg .. inner - 1 THEN pro[i - beg + 1] ELSE c[i]]

\* The code of a word, with its prologue and its epilogue.
Wrapped(s, n, pro, beg, after, code) ==
  /\ IsSeq(pro) /\ AllPlain(pro) /\ IsSeq(after) /\ AllPlain(after) /\ Len(after) >= 1
  /\ beg \in valid + 1 .. n + 1 /\ s.d.inner = beg + Len(pro) /\ s.d.inner <= n + 1
  /\ code = Filled(s.code, pro, beg, s.d.inner) \o after

\* The code from beg to its end m, before its branches are fixed.
Held(code, beg, m, T, A, last) ==
  /\ Tied(code, beg, m, T, A) /\ Finishing(code, m) /\ code[m] = last
  /\ ~def.calls => \A p \in beg .. m : code[p].op # "bl"

LEMMA FilledTied ==
  ASSUME valid \in Nat, NEW n \in Nat, NEW s, NEW A, Settled(s, n, A),
         NEW pro, NEW beg, NEW after, NEW code, Wrapped(s, n, pro, beg, after, code),
         NEW k, k = Len(after), NEW T, Prologues(Len(words)) \subseteq T
  PROVE  Held(code, beg, n + k, T, A, after[k])
<1>1. PICK body : body = s.code /\ IsSeq(body) /\ Len(body) = n BY DEF Settled, Homing
<1>2. DOMAIN body = 1 .. n /\ k \in Nat /\ k >= 1 /\ IsSeq(after) /\ AllPlain(after)
  BY <1>1, SeqParts DEF Wrapped
<1>3. PICK l \in Nat, lo \in Nat :
        /\ l = Len(pro) /\ lo = s.d.inner /\ lo = beg + l /\ lo <= n + 1
        /\ beg \in valid + 1 .. n + 1 /\ AllPlain(pro)
  <2>1. PICK l \in Nat : l = Len(pro) /\ AllPlain(pro) BY SeqParts DEF Wrapped
  <2>2. beg \in valid + 1 .. n + 1 /\ s.d.inner = beg + l /\ s.d.inner <= n + 1
    BY <2>1 DEF Wrapped
  <2>3. beg + l \in Nat BY <2>2
  <2> QED BY <2>1, <2>2, <2>3
<1> DEFINE fill == Filled(s.code, pro, beg, s.d.inner)
<1>12. code = fill \o after BY DEF Wrapped
<1>4. fill = [i \in 1 .. n |-> IF i \in beg .. lo - 1 THEN pro[i - beg + 1] ELSE body[i]]
  BY <1>1, <1>2, <1>3 DEF Filled
<1> HIDE DEF fill
<1>5. IsSeq(fill) /\ Len(fill) = n
  <2>1. fill = [i \in 1 .. n |-> fill[i]] BY <1>4
  <2> QED BY <2>1, FunctionIsSeq
<1>6. /\ IsSeq(code) /\ Len(code) = n + k
      /\ \A i \in 1 .. n : code[i] = fill[i]
      /\ \A i \in 1 .. k : code[n + i] = after[i]
  <2>1. PICK h : h = fill /\ IsSeq(h) /\ Len(h) = n /\ code = h \o after BY <1>5, <1>12
  <2>2. /\ IsSeq(code) /\ Len(code) = Len(h) + Len(after)
        /\ \A i \in 1 .. Len(h) : code[i] = h[i]
        /\ \A i \in 1 .. Len(after) : code[Len(h) + i] = after[i]
    <3>1. IsSeq(h) /\ IsSeq(after) /\ code = h \o after BY <1>2, <2>1
    <3> QED BY <3>1, ConcatParts
  <2>3. PICK x \in Nat : x = Len(after) /\ x = k BY <1>2
  <2> QED BY <2>1, <2>2, <2>3
<1>7. ASSUME NEW p \in beg .. n + k
      PROVE  \/ Plain(code[p])
             \/ p \in lo .. n /\ code[p] = body[p]
  <2>1. p \in beg .. lo - 1 \/ p \in lo .. n \/ p \in n + 1 .. n + k BY <1>2, <1>3, <1>7
  <2>2. CASE p \in beg .. lo - 1
    <3>1. PICK j \in 1 .. l : j = p - beg + 1
      <4>1. p - beg + 1 \in 1 .. l BY <1>3, <2>2
      <4> QED BY <4>1
    <3>2. p \in 1 .. n BY <1>3, <2>2
    <3>3. code[p] = pro[j] BY <1>4, <1>6, <2>2, <3>1, <3>2
    <3>4. Plain(pro[j]) BY <1>3, <3>1 DEF AllPlain
    <3> QED BY <3>3, <3>4
  <2>3. CASE p \in lo .. n
    <3>1. p \in 1 .. n /\ p \notin beg .. lo - 1 BY <1>3, <2>3
    <3> QED BY <1>4, <1>6, <2>3, <3>1
  <2>4. CASE p \in n + 1 .. n + k
    <3>1. PICK j \in 1 .. k : p = n + j
      <4>1. p - n \in 1 .. k /\ p = n + (p - n) BY <1>2, <2>4
      <4> QED BY <4>1
    <3>2. Plain(after[j]) BY <1>2, <3>1 DEF AllPlain
    <3> QED BY <1>6, <3>1, <3>2
  <2> QED BY <2>1, <2>2, <2>3, <2>4
<1>8. ASSUME NEW p \in beg .. n + k PROVE Lands(code[p], p, n + k, T) \/ p \in A
  <2>1. CASE Plain(code[p]) BY <2>1 DEF Plain, Lands
  <2>2. CASE p \in lo .. n /\ code[p] = body[p]
    <3>1. Fine(body[p], p, n + 1, Len(words)) \/ p \in A
      BY <1>1, <1>3, <2>2 DEF Settled, Body
    <3>2. ASSUME Fine(body[p], p, n + 1, Len(words)) PROVE Lands(body[p], p, n + k, T)
      <4>1. PICK i : i = body[p] /\ Lands(i, p, n + 1, Prologues(Len(words)))
        BY <3>2 DEF Fine
      <4>2. ASSUME i.op \in Jumps PROVE Off(i) \in 1 .. n + k - p
        <5>1. Off(i) \in 1 .. n + 1 - p BY <4>1, <4>2 DEF Lands
        <5>2. n + 1 - p <= n + k - p /\ p \in Int BY <1>2, <2>2
        <5> QED BY <1>2, <5>1, <5>2
      <4> QED BY <4>1, <4>2 DEF Lands
    <3> QED BY <2>2, <3>1, <3>2
  <2> QED BY <1>7, <2>1, <2>2
<1>9. ASSUME ~def.calls, NEW p \in beg .. n + k PROVE code[p].op # "bl"
  <2>1. CASE Plain(code[p]) BY <2>1 DEF Plain
  <2>2. CASE p \in lo .. n /\ code[p] = body[p]
    BY <1>1, <1>3, <1>9, <2>2 DEF Settled
  <2> QED BY <1>7, <2>1, <2>2
<1>10. code[n + k] = after[k]
  <2>1. k \in 1 .. k BY <1>2
  <2> QED BY <1>6, <2>1
<1>11. ASSUME NEW i \in 1 .. valid PROVE code[i] = write[i]
  <2>1. i \in 1 .. n /\ i \notin beg .. lo - 1 BY <1>3
  <2>2. code[i] = body[i] BY <1>4, <1>6, <2>1
  <2>3. body[i] = write[i] BY <1>1 DEF Settled, Homing
  <2> QED BY <2>2, <2>3
<1> QED BY <1>6, <1>8, <1>9, <1>10, <1>11 DEF Tied, Finishing, Held

\* The end of a word in its parts.
FixedBody ==
  FixingLocals([code |-> write \o ZeroErr(def), d |-> def], def.locfix)[Len(def.locfix)]
Start(b) == b.d.inner - Len(Prologue(b.d))
Full(b) ==
  Filled(b.code, Prologue(b.d), Start(b), b.d.inner) \o Append(Epilogue(b.d), RetInstr)
Entry(b) ==
  [err |-> b.d.err, prologue |-> Start(b), ret |-> Len(Full(b)), ceil |-> Len(Full(b)) + 1,
   leaf |-> ~b.d.calls, inlinable |-> Inlinable(b.d, Len(b.code) + 1)]

LEMMA EndIs ==
  ASSUME End, NEW b, b = FixedBody
  PROVE  /\ write' = FixingBranches(Full(b), b.d.fixes, Start(b), Len(b.code) + 1)[Len(b.d.fixes)]
         /\ words' = Append(words, Entry(b)) /\ def' = NoDef
BY DEF End, FixedBody, Full, Entry, Start, Filled

\* A word which is finished.
LEMMA EndWhole ==
  ASSUME Layout, WordsWhole, Open, Near', End
  PROVE  WordsWhole' /\ def' = NoDef
<1>1. PICK w \in Nat : w = Len(write) /\ valid \in Nat /\ valid <= w /\ IsSeq(write)
  BY Lengths
<1>2. def # NoDef BY DEF End
<1>3. InDef(def, valid, w) /\ BodyFits BY <1>1, <1>2 DEF Layout, Open
<1>4. PICK zero : zero = ZeroErr(def) OBVIOUS
<1>5. PICK s : s = [code |-> write \o zero, d |-> def] OBVIOUS
<1>6. PICK n \in Nat : Settled(s, n, Ats(def)) /\ w <= n
  BY <1>1, <1>2, <1>3, <1>4, <1>5, SettledStart
<1>7. PICK body : body = FixingLocals(s, def.locfix)[Len(def.locfix)] OBVIOUS
<1>8. PICK B : B = Left(def.fixes, 0) OBVIOUS
<1>9. Settled(body, n, B)
  <2>1. Ats(def) = B \cup Left(def.locfix, 0)
    <3>1. 0 + 1 = 1 OBVIOUS
    <3> QED BY <1>8, <3>1 DEF Ats, Left
  <2>2. Places(def.locfix, valid, n) BY <1>1, <1>3, <1>6, PlacesMore DEF InDef
  <2> QED BY <1>1, <1>6, <1>7, <2>1, <2>2, LocalsSettled
<1>10. PICK d : d = body.d OBVIOUS
<1>11. Above(d, valid, n) /\ d.fixes = def.fixes /\ d.calls = def.calls
  BY <1>9, <1>10 DEF Settled, Homing
<1>12. PICK pro : pro = Prologue(d) OBVIOUS
<1>13. PICK beg : beg = d.inner - Len(pro) OBVIOUS
<1>14. /\ IsSeq(pro) /\ Len(pro) \in Nat /\ beg \in valid + 1 .. n + 1
       /\ d.inner = beg + Len(pro) /\ d.inner <= n + 1
  BY <1>11, <1>12, <1>13, EndBegins
<1>15. AllPlain(pro) BY <1>11, <1>12, PrologueGoesNowhere DEF Above
<1>16. PICK epi : epi = Len(body.code) + 1 OBVIOUS
<1>17. epi = n + 1 BY <1>9, <1>16 DEF Settled, Homing
<1>18. PICK fill : fill = Filled(body.code, pro, beg, d.inner) OBVIOUS
<1>19. PICK after : after = Append(Epilogue(d), RetInstr) OBVIOUS
<1>20. /\ IsSeq(after) /\ Len(after) \in Nat /\ Len(after) >= 1 /\ AllPlain(after)
       /\ after[Len(after)] = RetInstr
  <2>1. PICK e : e = Epilogue(d) OBVIOUS
  <2>2. d.saved \in 0 .. LastStable BY <1>11 DEF Above
  <2>3. IsSeq(e) /\ AllPlain(e) BY <2>1, <2>2, EpilogueIsSeq, EpilogueGoesNowhere
  <2>4. PICK l \in Nat : l = Len(e) BY <2>3, SeqParts
  <2>5. /\ IsSeq(after) /\ Len(after) = l + 1 /\ after[l + 1] = RetInstr
        /\ \A i \in 1 .. l : after[i] = e[i]
    BY <1>19, <2>1, <2>3, <2>4, AppendParts
  <2>6. "ret" \in PlainOps BY DEF PlainOps
  <2>7. Plain(RetInstr) BY <2>6, PlainIs DEF RetInstr
  <2>8. \A j \in 1 .. l + 1 : j = l + 1 \/ j \in 1 .. l OBVIOUS
  <2>9. AllPlain(after) BY <2>3, <2>4, <2>5, <2>7, <2>8 DEF AllPlain
  <2> QED BY <2>4, <2>5, <2>9
<1>21. PICK code : code = fill \o after OBVIOUS
<1>22. PICK k \in Nat, m \in Nat : k = Len(after) /\ m = n + k /\ m >= n + 1
  <2>1. PICK k \in Nat : k = Len(after) /\ k >= 1 BY <1>20
  <2>2. n + k \in Nat /\ n + k >= n + 1 BY <2>1
  <2> QED BY <2>1, <2>2
<1>23. PICK c \in Nat : c = Len(words) /\ IsSeq(words) BY SeqParts DEF Layout, WordsInside
<1>24. PICK T : T = Prologues(c) \cup {beg} OBVIOUS
<1>25. /\ Tied(code, beg, m, T, B) /\ Finishing(code, m) /\ code[m] = RetInstr
       /\ ~def.calls => \A p \in beg .. m : code[p].op # "bl"
  <2>2. Prologues(Len(words)) \subseteq T BY <1>23, <1>24
  <2>3. k >= 1 /\ after[k] = RetInstr BY <1>20, <1>22
  <2>4. valid \in Nat BY <1>1
  <2>5. body.d.inner = d.inner BY <1>10
  <2>6. Wrapped(body, n, pro, beg, after, code)
    BY <1>14, <1>15, <1>18, <1>20, <1>21, <2>5 DEF Wrapped
  <2>7. k = Len(after) BY <1>22
  <2>8. Held(code, beg, n + k, T, B, after[k])
    BY <1>6, <1>9, <2>2, <2>4, <2>6, <2>7, FilledTied
  <2>9. m = n + k BY <1>22
  <2> QED BY <2>3, <2>8, <2>9 DEF Held
<1>26. PICK rec : rec = Entry(body) OBVIOUS
<1>27. /\ write' = FixingBranches(code, d.fixes, beg, epi)[Len(d.fixes)]
       /\ words' = Append(words, rec) /\ def' = NoDef
       /\ rec.prologue = beg /\ rec.ret = Len(code) /\ rec.ceil = Len(code) + 1
       /\ rec.inlinable = Inlinable(d, epi)
  <2>1. body = FixedBody BY <1>4, <1>5, <1>7 DEF FixedBody
  <2>2. beg = Start(body) BY <1>10, <1>12, <1>13 DEF Start
  <2>3. code = Full(body) BY <1>10, <1>12, <1>18, <1>19, <1>21, <2>2 DEF Full
  <2>4. epi = Len(body.code) + 1 /\ d = body.d BY <1>10, <1>16
  <2>5. /\ rec.prologue = beg /\ rec.ret = Len(code) /\ rec.ceil = Len(code) + 1
        /\ rec.inlinable = Inlinable(d, epi)
    BY <1>26, <2>2, <2>3, <2>4 DEF Entry
  <2>6. /\ write' = FixingBranches(Full(body), body.d.fixes, Start(body),
                                    Len(body.code) + 1)[Len(body.d.fixes)]
        /\ words' = Append(words, Entry(body)) /\ def' = NoDef
    BY <2>1, EndIs
  <2> QED BY <1>26, <2>2, <2>3, <2>4, <2>5, <2>6
<1>28. /\ rec.prologue = beg /\ rec.ret = m /\ rec.ceil = m + 1
       /\ rec.inlinable => ~def.calls
  <2>1. Len(code) = m BY <1>25 DEF Tied
  <2> QED BY <1>11, <1>27, <2>1 DEF Inlinable
<1>29. /\ Len(words') = c + 1 /\ words'[c + 1] = rec
       /\ \A i \in 1 .. c : words'[i] = words[i]
  BY <1>23, <1>27, AppendParts
<1>30. Finishing(write', m) /\ Places(d.fixes, valid, epi - 1)
  <2>1. Places(d.fixes, valid, w) BY <1>3, <1>11 DEF InDef
  <2>2. epi - 1 = n /\ valid <= m /\ n <= m BY <1>1, <1>6, <1>17, <1>22
  <2>3. Places(d.fixes, valid, n) BY <1>1, <1>6, <2>1, PlacesMore
  <2>4. Places(d.fixes, valid, m) BY <1>1, <2>2, <2>3, PlacesMore
  <2> QED BY <1>1, <1>25, <1>27, <2>2, <2>3, <2>4, BranchesFinishing
<1>31. Len(write') = m /\ \A i \in 1 .. valid : write'[i] = write[i] BY <1>30 DEF Finishing
<1>32. Spans(beg, epi, m, T)
  <2>1. beg \in Nat /\ beg >= 1 /\ epi \in Nat /\ epi <= m BY <1>1, <1>14, <1>17, <1>22
  <2>2. beg \in T BY <1>24
  <2>3. m < FarReach BY <1>31 DEF Near
  <2>4. m - beg < NearReach
    <3>1. c + 1 \in 1 .. c + 1 OBVIOUS
    <3>2. words'[c + 1].ret - words'[c + 1].prologue < NearReach' BY <1>29, <3>1 DEF Near
    <3> QED BY <1>28, <1>29, <3>2 DEF NearReach
  <2> QED BY <2>1, <2>2, <2>3, <2>4 DEF Spans
<1>33. PICK t : t = write' OBVIOUS
<1>34. Branched(t, code, beg, epi, m, T, d.fixes)
  <2>1. valid \in Nat BY <1>1
  <2>2. Places(d.fixes, valid, epi - 1) BY <1>30
  <2>3. t = FixingBranches(code, d.fixes, beg, epi)[Len(d.fixes)] BY <1>27, <1>33
  <2>4. Tied(code, beg, m, T, Left(d.fixes, 0))
    <3>1. B = Left(d.fixes, 0) BY <1>8, <1>11
    <3> QED BY <1>25, <3>1
  <2> QED BY <1>32, <2>1, <2>2, <2>3, <2>4, BranchesTied
<1>35. t[m].op = "ret"
  <2>1. m \in epi .. m BY <1>17, <1>22
  <2>2. RetInstr.op = "ret" BY DEF RetInstr, I
  <2> QED BY <1>25, <1>34, <2>1, <2>2 DEF Branched
<1>36. rec.inlinable => \A p \in beg .. m : t[p].op # "bl"
  <2>1. ~def.calls => NoRecur(def) BY <1>3 DEF BodyFits
  <2>2. ~def.calls => \A i \in 1 .. Len(d.fixes) : d.fixes[i].type # "recur"
    BY <1>11, <2>1 DEF NoRecur
  <2> QED BY <1>25, <1>28, <1>34, <2>2 DEF Branched
<1>37. ASSUME NEW v \in 1 .. c PROVE Whole(v)' BY <1>23, <1>29, <1>31, WholeKept
<1>38. Whole(c + 1)'
  <2>1. Prologues(c + 1)' = T
    <3>1. \A u \in 1 .. c + 1 : u = c + 1 \/ u \in 1 .. c OBVIOUS
    <3>2. \A u \in 1 .. c : u \in 1 .. c + 1 OBVIOUS
    <3>3. c + 1 \in 1 .. c + 1 OBVIOUS
    <3>4. \A u \in 1 .. c : words'[u].prologue = words[u].prologue BY <1>29
    <3>5. words'[c + 1].prologue = beg BY <1>28, <1>29
    <3> QED BY <1>24, <3>1, <3>2, <3>3, <3>4, <3>5 DEF Prologues
  <2>2. \A p \in beg .. m : Lands(write'[p], p, m, T) BY <1>33, <1>34 DEF Tied, Branched
  <2>3. \A u \in 1 .. (c + 1) - 1 : words'[u].ret < beg
    <3>1. ASSUME NEW u \in 1 .. c PROVE words[u].ret < beg
      <4>1. words[u].prologue \in 1 .. valid /\ words[u].ret \in words[u].prologue .. valid
        BY <1>23 DEF Layout, WordsInside
      <4> QED BY <1>1, <1>14, <4>1
    <3>2. (c + 1) - 1 = c OBVIOUS
    <3> QED BY <1>29, <3>1, <3>2
  <2>4. PICK x : x = words'[c + 1] /\ x.prologue = beg /\ x.ret = m /\ x.ceil = m + 1
                 /\ x.inlinable = rec.inlinable
    BY <1>28, <1>29
  <2>5. \A p \in beg .. m :
          /\ Lands(write'[p], p, m, Prologues(c + 1)')
          /\ x.inlinable => write'[p].op # "bl"
    BY <1>33, <1>36, <2>1, <2>2, <2>4
  <2>6. write'[m].op = "ret" BY <1>33, <1>35
  <2> QED BY <2>3, <2>4, <2>5, <2>6 DEF Whole, Fine
<1>39. \A v \in 1 .. c + 1 : v = c + 1 \/ v \in 1 .. c OBVIOUS
<1> QED BY <1>27, <1>29, <1>37, <1>38, <1>39 DEF WordsWhole


-----------------------------------------------------------------------------
(* The machine *)

\* An instruction of a finished word which was copied.
Inside(w, p) ==
  /\ w \in 1 .. Len(words) /\ words[w].ret <= Len(exec)
  /\ p \in words[w].prologue .. words[w].ret

\* Every call in progress is in its word, and so is where it returns to.
Calls(s) ==
  /\ IsSeq(s) /\ Len(s) >= 1
  /\ \A k \in 1 .. Len(s) : "w" \in DOMAIN s[k] /\ "ret" \in DOMAIN s[k]
  /\ \A k \in 2 .. Len(s) : Inside(s[k - 1].w, s[k].ret)

Runs(s, p) == Calls(s) /\ Inside(s[Len(s)].w, p)

Within == pc # 0 => Runs(acts, pc)

LEMMA ActIs ==
  ASSUME NEW w, NEW ret, NEW regs
  PROVE  /\ "w" \in DOMAIN Act(w, ret, regs) /\ "ret" \in DOMAIN Act(w, ret, regs)
         /\ Act(w, ret, regs).w = w /\ Act(w, ret, regs).ret = ret
BY DEF Act

\* What the machine is at.
LEMMA CurrentIs ==
  ASSUME Layout, WordsWhole, Within, pc # 0, NEW w, w = acts[Len(acts)].w
  PROVE  /\ Running /\ w \in 1 .. Len(words) /\ Len(words) \in Nat /\ pc \in Nat
         /\ words[w].prologue \in Nat /\ words[w].ret \in Nat
         /\ pc \in words[w].prologue .. words[w].ret /\ words[w].ret <= Len(exec)
         /\ Cur = write[pc] /\ Fine(Cur, pc, words[w].ret, w)
         /\ Cur.op # "ret" => Inside(w, pc + 1)
<1>1. Inside(w, pc) BY DEF Within, Runs
<1>2. PICK v \in Nat, k \in Nat, e \in Nat :
        /\ v = valid /\ k = Len(words) /\ e = Len(exec)
        /\ IsSeq(exec) /\ \A i \in 1 .. e : exec[i] = write[i]
  BY Lengths, SeqParts DEF Layout, WordsInside, Copied
<1>3. w \in 1 .. k BY <1>1, <1>2 DEF Inside
<1>4. PICK a \in Nat, b \in Nat :
        a = words[w].prologue /\ b = words[w].ret /\ a >= 1 /\ b <= e
  <2>1. words[w].prologue \in 1 .. v /\ words[w].ret \in words[w].prologue .. v
    BY <1>2, <1>3 DEF Layout, WordsInside
  <2>2. words[w].prologue \in Nat /\ words[w].ret \in Nat /\ words[w].prologue >= 1 BY <2>1
  <2> QED BY <1>1, <1>2, <2>2 DEF Inside
<1>5. pc \in a .. b BY <1>1, <1>4 DEF Inside
<1>6. pc \in 1 .. e /\ pc \in Nat BY <1>4, <1>5
<1>7. Running
  <2>1. DOMAIN exec = 1 .. e BY <1>2, SeqParts
  <2> QED BY <1>6, <2>1 DEF Running
<1>8. Cur = write[pc] BY <1>2, <1>6 DEF Cur
<1>9. Whole(w) BY <1>2, <1>3 DEF WordsWhole
<1>10. Fine(Cur, pc, b, w) BY <1>4, <1>5, <1>8, <1>9 DEF Whole
<1>11. ASSUME Cur.op # "ret" PROVE Inside(w, pc + 1)
  <2>1. write[b].op = "ret" BY <1>4, <1>9 DEF Whole
  <2>2. pc # b BY <1>8, <1>11, <2>1
  <2>3. pc + 1 \in a .. b BY <1>4, <1>5, <2>2
  <2> QED BY <1>2, <1>3, <1>4, <2>3 DEF Inside
<1> QED BY <1>2, <1>3, <1>4, <1>5, <1>6, <1>7, <1>8, <1>10, <1>11

LEMMA WithinMeansNoTrap ==
  ASSUME Layout, WordsWhole, Within
  PROVE  NoTrap
<1> SUFFICES ASSUME pc # 0
             PROVE  /\ Running /\ Cur.op # "brk"
                    /\ Cur.op = "bl" =>
                         \E w \in DOMAIN words : words[w].prologue = pc + Signed(Cur.imm, 26)
  BY DEF NoTrap
<1>1. PICK w : w = acts[Len(acts)].w OBVIOUS
<1>2. PICK k \in Nat : k = Len(words) /\ DOMAIN words = 1 .. k
  BY SeqParts DEF Layout, WordsInside
<1>3. Running /\ w \in 1 .. k /\ Fine(Cur, pc, words[w].ret, w) BY <1>1, <1>2, CurrentIs
<1>4. PICK i : i = Cur /\ i.op # "brk" /\ (i.op = "bl" => pc + Off(i) \in Prologues(w))
  BY <1>3 DEF Fine, Lands
<1>5. ASSUME i.op = "bl"
      PROVE  \E u \in DOMAIN words : words[u].prologue = pc + Signed(i.imm, 26)
  <2>1. Off(i) = Signed(i.imm, 26) BY <1>5 DEF Off
  <2>2. PICK u \in 1 .. w : words[u].prologue = pc + Off(i) BY <1>4, <1>5 DEF Prologues
  <2>3. u \in 1 .. k BY <1>3, <2>2
  <2> QED BY <1>2, <2>1, <2>2, <2>3
<1> QED BY <1>3, <1>4, <1>5

\* Words have prologues of their own, and end in order.
LEMMA WordsApart ==
  ASSUME Layout, WordsWhole, NEW u \in 1 .. Len(words), NEW w \in 1 .. Len(words)
  PROVE  /\ words[u].prologue = words[w].prologue => u = w
         /\ u <= w => words[u].ret <= words[w].ret
<1>1. PICK k \in Nat : k = Len(words) /\ u \in 1 .. k /\ w \in 1 .. k
  BY SeqParts DEF Layout, WordsInside
<1>2. ASSUME NEW x \in 1 .. k
      PROVE  /\ words[x].prologue \in Nat /\ words[x].ret \in Nat
             /\ words[x].prologue <= words[x].ret
             /\ \A y \in 1 .. x - 1 : words[y].ret < words[x].prologue
  <2>1. words[x].prologue \in 1 .. valid /\ words[x].ret \in words[x].prologue .. valid
        /\ valid \in Nat
    BY <1>1, Lengths DEF Layout, WordsInside
  <2>2. Whole(x) BY <1>1 DEF WordsWhole
  <2> QED BY <2>1, <2>2 DEF Whole
<1>3. CASE u < w
  <2>1. u \in 1 .. w - 1 BY <1>1, <1>3
  <2>2. words[u].ret < words[w].prologue BY <1>1, <1>2, <2>1
  <2> QED BY <1>1, <1>2, <1>3, <2>2
<1>4. CASE w < u
  <2>1. w \in 1 .. u - 1 BY <1>1, <1>4
  <2>2. words[w].ret < words[u].prologue BY <1>1, <1>2, <2>1
  <2>3. ~(u <= w) BY <1>1, <1>4
  <2> QED BY <1>1, <1>2, <2>2, <2>3
<1>5. CASE u = w BY <1>1, <1>2, <1>5
<1> QED BY <1>1, <1>3, <1>4, <1>5

\* A step which goes on, in the same call.
LEMMA GoesOn ==
  ASSUME Layout, WordsWhole, Within, pc # 0, Cur.op # "ret", pc' = pc + 1,
         UNCHANGED <<exec, words>>,
         \/ acts' = acts
         \/ \E v : Assign(v)
  PROVE  Within'
<1>1. PICK n \in Nat : n = Len(acts) /\ n >= 1 /\ DOMAIN acts = 1 .. n /\ IsSeq(acts)
  BY SeqParts DEF Within, Runs, Calls
<1>2. Inside(acts[n].w, pc + 1) BY <1>1, CurrentIs
<1>3. /\ IsSeq(acts') /\ Len(acts') = n
      /\ \A k \in 1 .. n : /\ DOMAIN acts'[k] = DOMAIN acts[k]
                           /\ acts'[k].w = acts[k].w /\ acts'[k].ret = acts[k].ret
  <2>1. CASE acts' = acts BY <1>1, <2>1
  <2>2. ASSUME NEW v, acts' = [acts EXCEPT ![Len(acts)].locals[<<Cur.tag[2], Cur.tag[3]>>] = v]
        PROVE  /\ IsSeq(acts') /\ Len(acts') = n
               /\ \A k \in 1 .. n : /\ DOMAIN acts'[k] = DOMAIN acts[k]
                                    /\ acts'[k].w = acts[k].w /\ acts'[k].ret = acts[k].ret
    <3>1. PICK x : acts' = [acts EXCEPT ![n] = [acts[n] EXCEPT !.locals = x]]
      BY <1>1, <2>2
    <3>2. PICK t : t = acts' /\ t = [acts EXCEPT ![n] = [acts[n] EXCEPT !.locals = x]]
      BY <3>1
    <3>3. t = [k \in DOMAIN acts |-> t[k]] BY <3>2
    <3>4. IsSeq(t) /\ Len(t) = n BY <1>1, <3>3, PatchedParts
    <3>5. \A k \in 1 .. n : "w" \in DOMAIN acts[k] /\ "ret" \in DOMAIN acts[k]
      BY <1>1 DEF Within, Runs, Calls
    <3>6. \A k \in 1 .. n : t[k] = IF k = n THEN [acts[n] EXCEPT !.locals = x] ELSE acts[k]
      BY <1>1, <3>2
    <3>7. ASSUME NEW k \in 1 .. n
          PROVE  DOMAIN t[k] = DOMAIN acts[k] /\ t[k].w = acts[k].w /\ t[k].ret = acts[k].ret
      <4>1. PICK a : a = acts[k] /\ "w" \in DOMAIN a /\ "ret" \in DOMAIN a BY <3>5
      <4>2. t[k] = a \/ t[k] = [a EXCEPT !.locals = x] BY <3>6, <4>1
      <4> QED BY <4>1, <4>2
    <3> QED BY <3>2, <3>4, <3>7
  <2> QED BY <2>1, <2>2 DEF Assign
<1>4. \A k \in 1 .. n : "w" \in DOMAIN acts'[k] /\ "ret" \in DOMAIN acts'[k]
  BY <1>1, <1>3 DEF Within, Runs, Calls
<1>6. ASSUME NEW k \in 2 .. n PROVE Inside(acts[k - 1].w, acts[k].ret)'
  <2>1. k \in 1 .. n /\ k - 1 \in 1 .. n BY <1>1
  <2>2. Inside(acts[k - 1].w, acts[k].ret) BY <1>1 DEF Within, Runs, Calls
  <2> QED BY <1>3, <2>1, <2>2 DEF Inside
<1>7. Inside(acts[n].w, pc)'
  <2>1. n \in 1 .. n BY <1>1
  <2>2. acts'[n].w = acts[n].w BY <1>3, <2>1
  <2> QED BY <1>2, <2>2 DEF Inside
<1>8. Calls(acts)' BY <1>1, <1>3, <1>4, <1>6 DEF Calls
<1> QED BY <1>3, <1>7, <1>8 DEF Within, Runs


\* The step is one of a running word.
LEMMA StepRuns ==
  ASSUME Layout, Step
  PROVE  pc # 0 /\ Running /\ UNCHANGED <<write, exec, valid, words, def>>
<1>1. Running /\ UNCHANGED <<write, exec, valid, words, def>>
  BY DEF Step, heapVars, Op, Compute, StoreLocal, Push, Pop, Branch, CallWord,
         TooDeep, CallOut, Return
<1>2. IsSeq(exec) BY DEF Layout, Copied
<1>3. DOMAIN exec = 1 .. Len(exec) BY <1>2, SeqParts
<1>4. pc # 0 BY <1>1, <1>3 DEF Running
<1> QED BY <1>1, <1>4

LEMMA BranchWithin ==
  ASSUME Layout, WordsWhole, Within, pc # 0, Branch, UNCHANGED <<exec, words>>
  PROVE  Within'
<1>1. acts' = acts /\ Cur.op \in {"b", "cbz", "cbnz", "b.cond", "nop"} BY DEF Branch, Op
<1>2. PICK i : i = Cur OBVIOUS
<1>3. pc' = pc + 1 \/ (i.op \in Jumps /\ pc' = pc + Off(i))
  <2>1. PICK taken \in BOOLEAN :
          /\ i.op = "nop" => ~taken
          /\ pc' = IF taken THEN pc + Signed(i.imm, IF i.op = "b" THEN 26 ELSE 19) ELSE pc + 1
    BY <1>2 DEF Branch, Goto
  <2>2. i.op = "nop" \/ i.op \in Jumps BY <1>1, <1>2 DEF Jumps
  <2>3. i.op \in Jumps => Off(i) = Signed(i.imm, IF i.op = "b" THEN 26 ELSE 19)
    BY DEF Jumps, Off
  <2> QED BY <2>1, <2>2, <2>3
<1>4. CASE pc' = pc + 1 BY <1>1, <1>4, GoesOn
<1>5. CASE i.op \in Jumps /\ pc' = pc + Off(i)
  <2>1. PICK w : w = acts[Len(acts)].w OBVIOUS
  <2>2. PICK a, b, p \in Nat :
          /\ a = words[w].prologue /\ b = words[w].ret /\ p = pc /\ a \in Nat /\ b \in Nat
          /\ p \in a .. b /\ Fine(i, p, b, w)
    BY <1>2, <2>1, CurrentIs
  <2>3. Off(i) \in 1 .. b - p BY <1>5, <2>2 DEF Fine, Lands
  <2>4. p + Off(i) \in a .. b BY <2>2, <2>3
  <2>5. Inside(w, pc') BY <1>5, <2>1, <2>2, <2>4 DEF Within, Runs, Inside
  <2>6. Calls(acts) BY DEF Within, Runs
  <2>7. Calls(acts)' BY <1>1, <2>6 DEF Calls, Inside
  <2>8. Inside(acts[Len(acts)].w, pc)' BY <1>1, <2>1, <2>5 DEF Inside
  <2> QED BY <2>7, <2>8 DEF Within, Runs
<1> QED BY <1>3, <1>4, <1>5

LEMMA CallWithin ==
  ASSUME Layout, WordsWhole, Within, pc # 0, CallWord, UNCHANGED <<exec, words>>
  PROVE  Within'
<1>1. PICK to : to = pc + Signed(Cur.imm, 26) OBVIOUS
<1>2. Cur.op = "bl" BY DEF CallWord, Op
<1>3. PICK x : x = acts[Len(acts)].w OBVIOUS
<1>4. PICK k \in Nat : k = Len(words) /\ DOMAIN words = 1 .. k
  BY SeqParts DEF Layout, WordsInside
<1>5. PICK w : /\ w = CHOOSE i \in 0 .. Len(words) :
                         IF \E j \in DOMAIN words : words[j].prologue = to
                         THEN i > 0 /\ words[i].prologue = to ELSE i = 0
               /\ w > 0 /\ pc' = to /\ acts' = Append(acts, Act(w, pc + 1, reg))
  BY <1>1 DEF CallWord, Goto
<1>6. PICK u \in 1 .. k : u <= x /\ words[u].prologue = to /\ x \in 1 .. k
  <2>1. x \in 1 .. k /\ Fine(Cur, pc, words[x].ret, x) BY <1>3, <1>4, CurrentIs
  <2>2. to = pc + Off(Cur) BY <1>1, <1>2 DEF Off
  <2>3. to \in Prologues(x) BY <1>2, <2>1, <2>2 DEF Fine, Lands
  <2>4. PICK u \in 1 .. x : words[u].prologue = to BY <2>3 DEF Prologues
  <2>5. u \in 1 .. k /\ u <= x BY <2>1, <2>4
  <2> QED BY <2>1, <2>4, <2>5
<1>7. w \in 1 .. k /\ words[w].prologue = to
  <2>1. u \in 0 .. k /\ u > 0 /\ u \in DOMAIN words BY <1>4, <1>6
  <2>2. \E i \in 0 .. k : i > 0 /\ words[i].prologue = to BY <1>6, <2>1
  <2>3. \E j \in DOMAIN words : words[j].prologue = to BY <1>6, <2>1
  <2>4. w = CHOOSE i \in 0 .. k : i > 0 /\ words[i].prologue = to BY <1>4, <1>5, <2>3
  <2>5. w \in 0 .. k /\ w > 0 /\ words[w].prologue = to BY <2>2, <2>4
  <2> QED BY <2>5
<1>8. w = u BY <1>4, <1>6, <1>7, WordsApart
<1>9. words[w].ret <= Len(exec) /\ to \in words[w].prologue .. words[w].ret
  <2>1. words[u].ret <= words[x].ret BY <1>4, <1>6, WordsApart
  <2>2. words[x].ret <= Len(exec) BY <1>3 DEF Within, Runs, Inside
  <2>3. PICK a \in Nat, b \in Nat, c \in Nat, e \in Nat :
          /\ a = words[u].prologue /\ b = words[u].ret /\ c = words[x].ret /\ e = Len(exec)
          /\ a <= b
    <3>1. \A y \in 1 .. k : words[y].prologue \in 1 .. valid
                           /\ words[y].ret \in words[y].prologue .. valid
      BY <1>4 DEF Layout, WordsInside
    <3>2. \A y \in 1 .. k : words[y].prologue \in Nat /\ words[y].ret \in Nat
                           /\ words[y].prologue <= words[y].ret
      BY <3>1
    <3>3. Len(exec) \in Nat BY SeqParts DEF Layout, Copied
    <3> QED BY <1>6, <3>2, <3>3
  <2>4. b <= e /\ a \in a .. b BY <2>1, <2>2, <2>3
  <2> QED BY <1>6, <1>8, <2>3, <2>4
<1>10. Inside(w, to) BY <1>4, <1>7, <1>9 DEF Inside
<1>21. PICK act : act = Act(w, pc + 1, reg) OBVIOUS
<1>11. PICK n \in Nat :
         /\ n = Len(acts) /\ n >= 1 /\ IsSeq(acts) /\ act = Act(w, pc + 1, reg)
         /\ \A j \in 1 .. n : "w" \in DOMAIN acts[j] /\ "ret" \in DOMAIN acts[j]
         /\ \A j \in 2 .. n : Inside(acts[j - 1].w, acts[j].ret)
  <2>1. IsSeq(acts) /\ Len(acts) \in Nat BY SeqParts DEF Within, Runs, Calls
  <2> QED BY <1>21, <2>1 DEF Within, Runs, Calls
<1>12. Inside(x, pc + 1) BY <1>2, <1>3, CurrentIs
<1>13. /\ "w" \in DOMAIN act /\ "ret" \in DOMAIN act /\ act.w = w /\ act.ret = pc + 1
  BY <1>11, ActIs
<1>14. /\ IsSeq(acts') /\ Len(acts') = n + 1 /\ acts'[n + 1] = act
       /\ \A j \in 1 .. n : acts'[j] = acts[j]
  BY <1>5, <1>11, AppendParts
<1>15. \A j \in 1 .. n + 1 : j = n + 1 \/ j \in 1 .. n OBVIOUS
<1>16. \A j \in 1 .. n + 1 : "w" \in DOMAIN acts'[j] /\ "ret" \in DOMAIN acts'[j]
  BY <1>11, <1>13, <1>14, <1>15
<1>17. ASSUME NEW j \in 2 .. n + 1 PROVE Inside(acts[j - 1].w, acts[j].ret)'
  <2>1. CASE j = n + 1
    <3>1. j - 1 = n /\ n \in 1 .. n BY <1>11, <2>1
    <3>2. acts'[j - 1].w = x /\ acts'[j].ret = pc + 1 BY <1>3, <1>11, <1>13, <1>14, <2>1, <3>1
    <3> QED BY <1>12, <3>2 DEF Inside
  <2>2. CASE j # n + 1
    <3>1. j \in 2 .. n /\ j - 1 \in 1 .. n /\ j \in 1 .. n BY <1>17, <2>2
    <3>2. acts'[j - 1] = acts[j - 1] /\ acts'[j] = acts[j] BY <1>14, <3>1
    <3>3. Inside(acts[j - 1].w, acts[j].ret) BY <1>11, <3>1
    <3> QED BY <3>2, <3>3 DEF Inside
  <2> QED BY <2>1, <2>2
<1>18. Calls(acts)'
  <2>1. n + 1 >= 1 OBVIOUS
  <2> QED BY <1>14, <1>16, <1>17, <2>1 DEF Calls
<1>19. Inside(acts[Len(acts)].w, pc)' BY <1>5, <1>10, <1>13, <1>14 DEF Inside
<1> QED BY <1>18, <1>19 DEF Within, Runs

LEMMA ReturnWithin ==
  ASSUME Layout, WordsWhole, Within, pc # 0, Return, FramesRestored, UNCHANGED <<exec, words>>
  PROVE  Within'
<1>1. PICK n \in Nat :
        /\ n = Len(acts) /\ n >= 1 /\ IsSeq(acts)
        /\ \A j \in 1 .. n : "w" \in DOMAIN acts[j] /\ "ret" \in DOMAIN acts[j]
        /\ \A j \in 2 .. n : Inside(acts[j - 1].w, acts[j].ret)
  <2>1. IsSeq(acts) /\ Len(acts) \in Nat BY SeqParts DEF Within, Runs, Calls
  <2> QED BY <2>1 DEF Within, Runs, Calls
<1>2. CASE n = 1
  <2>1. pc' = 0 BY <1>1, <1>2 DEF Return, Idle
  <2> QED BY <2>1 DEF Within
<1>3. CASE n # 1
  <2>1. pc' = reg[LR] /\ acts' = Front(acts) BY <1>1, <1>3 DEF Return, Goto
  <2>2. reg[LR] = acts[n].ret
    <3>1. AtReturn BY DEF Return, AtReturn
    <3> QED BY <1>1, <3>1 DEF FramesRestored, Top, Last
  <2>3. PICK m \in Nat : m = n - 1 /\ m >= 1 /\ n = m + 1
    <3>1. n - 1 \in Nat /\ n - 1 >= 1 /\ n = (n - 1) + 1 BY <1>1, <1>3
    <3> QED BY <3>1
  <2>4. PICK s : s = acts' /\ s = SubSeq(acts, 1, m) BY <1>1, <2>1, <2>3 DEF Front
  <2>5. IsSeq(s) /\ Len(s) = m /\ \A j \in 1 .. m : s[j] = acts[j]
    <3>1. m \in 0 .. Len(acts) BY <1>1, <2>3
    <3> QED BY <1>1, <2>4, <3>1, PrefixParts
  <2>6. \A j \in 1 .. m : "w" \in DOMAIN s[j] /\ "ret" \in DOMAIN s[j]
    <3>1. \A j \in 1 .. m : j \in 1 .. n BY <2>3
    <3> QED BY <1>1, <2>5, <3>1
  <2>7. ASSUME NEW j \in 2 .. m PROVE Inside(acts[j - 1].w, acts[j].ret)'
    <3>1. j \in 2 .. n /\ j - 1 \in 1 .. m /\ j \in 1 .. m BY <2>3, <2>7
    <3>2. acts'[j - 1] = acts[j - 1] /\ acts'[j] = acts[j] BY <2>4, <2>5, <3>1
    <3>3. Inside(acts[j - 1].w, acts[j].ret) BY <1>1, <3>1
    <3> QED BY <3>2, <3>3 DEF Inside
  <2>8. Calls(acts)' BY <2>3, <2>4, <2>5, <2>6, <2>7 DEF Calls
  <2>9. Inside(acts[Len(acts)].w, pc)'
    <3>1. n \in 2 .. n /\ n - 1 = m /\ m \in 1 .. m BY <1>3, <2>3
    <3>2. Inside(acts[m].w, acts[n].ret) BY <1>1, <3>1
    <3>3. acts'[m] = acts[m] /\ Len(acts') = m BY <2>4, <2>5, <3>1
    <3> QED BY <2>1, <2>2, <3>2, <3>3 DEF Inside
  <2> QED BY <2>8, <2>9 DEF Within, Runs
<1> QED BY <1>2, <1>3

\* No instruction leaves the words in progress, if calls return to where they were.
LEMMA StepWithin ==
  ASSUME Layout, WordsWhole, Within, Step, FramesRestored
  PROVE  Within'
<1>1. pc # 0 /\ UNCHANGED <<exec, words>> BY StepRuns
<1>2. CASE Compute
  <2>1. Cur.op # "ret" BY <1>2 DEF Compute, Op, ToRegister
  <2>2. pc' = pc + 1 /\ \E v : Assign(v) BY <1>2 DEF Compute, Fallthrough, Goto
  <2> QED BY <1>1, <2>1, <2>2, GoesOn
<1>3. CASE StoreLocal
  <2>1. Cur.op # "ret" BY <1>3 DEF StoreLocal, Op
  <2>2. pc' = pc + 1 /\ \E v : Assign(v) BY <1>3 DEF StoreLocal, Fallthrough, Goto
  <2> QED BY <1>1, <2>1, <2>2, GoesOn
<1>4. CASE Push \/ Pop \/ CallOut
  <2>1. Cur.op # "ret" BY <1>4 DEF Push, Pop, CallOut, Op
  <2>2. pc' = pc + 1 /\ acts' = acts BY <1>4 DEF Push, Pop, CallOut, Fallthrough, Goto
  <2> QED BY <1>1, <2>1, <2>2, GoesOn
<1>5. CASE Branch BY <1>1, <1>5, BranchWithin
<1>6. CASE CallWord BY <1>1, <1>6, CallWithin
<1>7. CASE TooDeep BY <1>7 DEF TooDeep, Idle, Within
<1>8. CASE Return BY <1>1, <1>8, ReturnWithin
<1> QED BY <1>2, <1>3, <1>4, <1>5, <1>6, <1>7, <1>8 DEF Step


-----------------------------------------------------------------------------
(* The steps *)

CodeInv == Layout /\ WordsWhole /\ Open /\ Within

\* Below the frontier nothing changes, and words stay, while one is compiled.
LEMMA AllKept ==
  ASSUME Layout, WordsWhole, NEW c, IsSeq(c), write' = write \o c, UNCHANGED words
  PROVE  WordsWhole'
<1>1. PICK w \in Nat : w = Len(write) /\ valid \in Nat /\ valid <= w /\ IsSeq(write)
  BY Lengths
<1>2. \A i \in 1 .. w : write'[i] = write[i] BY <1>1, ConcatParts
<1>3. \A i \in 1 .. valid : write'[i] = write[i] BY <1>1, <1>2
<1>4. \A v \in 1 .. Len(words) : Whole(v)' BY <1>3, WholeKept
<1> QED BY <1>4 DEF WordsWhole

LEMMA CompileWhole ==
  ASSUME Layout, WordsWhole, Open, Near', NEW t \in Tokens, Compile(t)
  PROVE  WordsWhole'
<1>1. \E c, d : Emitted(c, d) /\ UNCHANGED words BY CompileEmitted
<1> QED BY <1>1, AllKept DEF Emitted, Emit

LEMMA BeginInv ==
  ASSUME CodeInv, NEW err, Begin(err)
  PROVE  WordsWhole' /\ Open' /\ Within'
<1>1. PICK c : c = [n \in 1 .. PrologueLen |-> Brk("prologue")] OBVIOUS
<1>2. PICK l \in Nat, w \in Nat : l = PrologueLen /\ w = Len(write) /\ IsSeq(write)
  BY PrologueLenIs, Lengths DEF CodeInv
<1>3. IsSeq(c) /\ Len(c) = l
  <2>1. c = [n \in 1 .. l |-> c[n]] BY <1>1, <1>2
  <2> QED BY <2>1, FunctionIsSeq
<1>4. write' = write \o c /\ UNCHANGED words BY <1>1 DEF Begin
<1>5. WordsWhole' BY <1>3, <1>4, AllKept DEF CodeInv
<1>6. Len(write') = w + l BY <1>2, <1>3, <1>4, ConcatParts
<1>7. /\ def'.inner = w + 1 + l /\ def'.fixes = <<>> /\ def'.locfix = <<>>
  BY <1>2 DEF Begin
<1>8. \A p \in w + 1 + l .. w + l : FALSE BY <1>2
<1>9. BodyFits'
  <2>1. Body(write, def.inner, Len(write), Ats(def))' BY <1>6, <1>7, <1>8 DEF Body
  <2>2. NoRecur(def)' BY <1>7, EmptyParts DEF NoRecur
  <2>3. \A p \in def'.inner .. Len(write') : FALSE BY <1>6, <1>7, <1>8
  <2> QED BY <2>1, <2>2, <2>3 DEF BodyFits
<1>10. pc' = 0 BY DEF Begin, machVars
<1> QED BY <1>5, <1>9, <1>10 DEF Open, Within

LEMMA RunInv ==
  ASSUME CodeInv, NEW w \in DOMAIN words, Run(w)
  PROVE  WordsWhole' /\ Open' /\ Within'
<1>1. UNCHANGED <<write, valid, words, def>> BY DEF Run
<1>2. WordsWhole'
  BY <1>1 DEF CodeInv, WordsWhole, Whole, Fine, Lands, Prologues
<1>3. Open' BY <1>1 DEF CodeInv, Open, BodyFits, Body, Fine, Lands, Prologues
<1>4. PICK k \in Nat : k = Len(words) /\ DOMAIN words = 1 .. k
  BY SeqParts DEF CodeInv, Layout, WordsInside
<1>5. PICK a \in Nat, b \in Nat, v \in Nat :
        /\ a = words[w].prologue /\ b = words[w].ret /\ v = valid /\ a <= b /\ b <= v
        /\ words[w].ceil = b + 1
  <2>1. words[w].prologue \in 1 .. valid /\ words[w].ret \in words[w].prologue .. valid
        /\ valid \in Nat
    BY <1>4, Lengths DEF CodeInv, Layout, WordsInside
  <2>2. Whole(w) BY <1>4 DEF CodeInv, WordsWhole
  <2> QED BY <2>1, <2>2 DEF Whole
<1>6. Len(exec') \in Nat /\ b <= Len(exec')
  <2>1. CASE Ready(w)
    <3>1. exec' = exec BY <2>1 DEF Run, EnsureReady
    <3>2. Len(exec) \in Nat BY SeqParts DEF CodeInv, Layout, Copied
    <3>3. Len(exec) >= (b + 1) - 1 BY <1>5, <2>1 DEF Ready
    <3> QED BY <1>5, <3>1, <3>2, <3>3
  <2>2. CASE ~Ready(w)
    <3>1. exec' = Synced BY <2>2 DEF Run, EnsureReady
    <3>2. Len(Synced) = valid BY SyncedIs DEF CodeInv, Layout
    <3> QED BY <1>5, <3>1, <3>2
  <2> QED BY <2>1, <2>2
<1>7. PICK act : act = Act(w, 0, Caller) /\ "w" \in DOMAIN act /\ "ret" \in DOMAIN act /\ act.w = w
  BY ActIs
<1>8. acts' = <<act>> /\ pc' = a BY <1>5, <1>7 DEF Run
<1>9. IsSeq(acts') /\ Len(acts') = 1 /\ acts'[1] = act BY <1>8, OnePart
<1>10. Inside(w, a)'
  <2>1. a \in a .. b BY <1>5
  <2> QED BY <1>1, <1>4, <1>5, <1>6, <2>1 DEF Inside
<1>11. Calls(acts)'
  <2>1. \A j \in 1 .. 1 : j = 1 OBVIOUS
  <2>2. \A j \in 2 .. 1 : FALSE OBVIOUS
  <2> QED BY <1>7, <1>9, <2>1, <2>2 DEF Calls
<1>12. Inside(acts[Len(acts)].w, pc)' BY <1>7, <1>8, <1>9, <1>10
<1> QED BY <1>2, <1>3, <1>11, <1>12 DEF Within, Runs

LEMMA NextInv ==
  ASSUME CodeInv, Near', FramesRestored, [Next]_vars
  PROVE  CodeInv'
<1>1. Layout' BY NextLayout DEF CodeInv
<1>2. WordsWhole' /\ Open' /\ Within'
  <2>1. CASE \E err \in {-1, 0, 1} : Begin(err) BY <2>1, BeginInv
  <2>2. ASSUME NEW t \in Tokens, Compile(t) PROVE WordsWhole' /\ Open' /\ Within'
    <3>1. WordsWhole' BY <2>2, CompileWhole DEF CodeInv
    <3>2. Open' /\ pc' = 0 BY <2>2, CompileOpen DEF CodeInv
    <3> QED BY <3>1, <3>2 DEF Within
  <2>3. ASSUME NEW w \in DOMAIN words, Run(w) PROVE WordsWhole' /\ Open' /\ Within'
    BY <2>3, RunInv
  <2>4. CASE End
    <3>1. WordsWhole' /\ def' = NoDef BY <2>4, EndWhole DEF CodeInv
    <3>2. pc' = 0 BY <2>4 DEF End, machVars
    <3> QED BY <3>1, <3>2 DEF Open, Within
  <2>5. CASE Fail
    <3>1. UNCHANGED <<write, words>> /\ def' = NoDef /\ pc' = 0
      BY <2>5 DEF Fail, heapVars, machVars
    <3>2. WordsWhole' BY <3>1 DEF CodeInv, WordsWhole, Whole, Fine, Lands, Prologues
    <3> QED BY <3>1, <3>2 DEF Open, Within
  <2>6. CASE Step
    <3>1. UNCHANGED <<write, words, def>> BY <2>6, StepRuns DEF CodeInv
    <3>2. WordsWhole' BY <3>1 DEF CodeInv, WordsWhole, Whole, Fine, Lands, Prologues
    <3>3. Open' BY <3>1 DEF CodeInv, Open, BodyFits, Body, Fine, Lands, Prologues
    <3>4. Within' BY <2>6, StepWithin DEF CodeInv
    <3> QED BY <3>2, <3>3, <3>4
  <2>7. CASE UNCHANGED vars
    <3>1. UNCHANGED <<write, exec, words, def, pc, acts>> BY <2>7 DEF vars
    <3>2. WordsWhole' BY <3>1 DEF CodeInv, WordsWhole, Whole, Fine, Lands, Prologues
    <3>3. Open' BY <3>1 DEF CodeInv, Open, BodyFits, Body, Fine, Lands, Prologues
    <3>4. Within' BY <3>1 DEF CodeInv, Within, Runs, Calls, Inside
    <3> QED BY <3>2, <3>3, <3>4
  <2> QED BY <2>1, <2>2, <2>3, <2>4, <2>5, <2>6, <2>7 DEF Next
<1> QED BY <1>1, <1>2 DEF CodeInv

LEMMA InitInv == Init => CodeInv
<1> SUFFICES ASSUME Init PROVE CodeInv OBVIOUS
<1>1. Layout BY InitLayout
<1>2. words = <<>> /\ def = NoDef /\ pc = 0 BY DEF Init
<1>3. \A v \in 1 .. Len(words) : FALSE BY <1>2, EmptyParts
<1> QED BY <1>1, <1>2, <1>3 DEF CodeInv, WordsWhole, Open, Within

\* The processor never leaves finished code which was copied, nor finds a placeholder or
\* a call of what is not a word, for any programs, numbers of registers and sizes of
\* frames: whatever is compiled, given up, inlined, fixed up or copied.  It holds as long
\* as words return to where they were called (FramesRestored, which is checked), and
\* branches are in reach (Near, which imm_signed makes sure of).
THEOREM NothingTraps == Spec /\ []Near /\ []FramesRestored => []NoTrap
<1>1. Init => CodeInv BY InitInv
<1>2. CodeInv /\ Near' /\ FramesRestored /\ [Next]_vars => CodeInv' BY NextInv
<1>3. CodeInv => NoTrap BY WithinMeansNoTrap DEF CodeInv
<1> QED BY <1>1, <1>2, <1>3, PTL DEF Spec
=============================================================================
