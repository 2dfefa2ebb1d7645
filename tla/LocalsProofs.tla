---------------------------- MODULE LocalsProofs ----------------------------
(***************************************************************************)
(* What the register tracking of module Locals guarantees for any number   *)
(* of registers, any set of locals and any callees.                        *)
(***************************************************************************)
EXTENDS Locals, FiniteSetTheorems, WellFoundedInduction, TLAPS

-----------------------------------------------------------------------------
(* Registers and finite sets *)

\* Among finitely many registers one is the highest, so LastHolder and the
\* source of PushFromReg are well defined.
LEMMA HighestExists ==
  ASSUME NEW S \in SUBSET Regs, S # {}
  PROVE  \E r \in S : \A q \in S : q <= r
<1> DEFINE T == {n \in Nat : \E r \in S : n = NRegs - r}
           R == {ss \in Nat \X Nat : ss[1] < ss[2]}
<1>1. IsWellFoundedOn(R, Nat)
  BY NatLessThanWellFounded DEF OpToRel
<1>2. \A r \in S : r \in Int /\ NRegs - r \in T
  BY NumAssumption DEF Regs
<1>3. T \subseteq Nat /\ T # {}
  BY <1>2
<1>4. PICK x \in T : \A y \in T : ~ (<<y, x>> \in R)
  <2> HIDE DEF T, R
  <2> QED BY <1>1, <1>3, WFMin
<1>5. PICK r \in S : x = NRegs - r
  OBVIOUS
<1>6. ASSUME NEW q \in S PROVE q <= r
  <2>1. NRegs - q \in T
    BY <1>2
  <2>2. ~ (NRegs - q < x)
    BY <1>4, <2>1
  <2> QED BY <1>2, <1>5, <2>2, NumAssumption
<1> QED BY <1>6

\* And one is the lowest.
LEMMA LowestExists ==
  ASSUME NEW S \in SUBSET Nat, S # {}
  PROVE  \E r \in S : \A q \in S : r <= q
<1> DEFINE R == {ss \in Nat \X Nat : ss[1] < ss[2]}
<1>1. IsWellFoundedOn(R, Nat)
  BY NatLessThanWellFounded DEF OpToRel
<1>2. PICK x \in S : \A y \in S : ~ (<<y, x>> \in R)
  <2> HIDE DEF R
  <2> QED BY <1>1, WFMin
<1>3. ASSUME NEW q \in S PROVE x <= q
  <2>1. ~ (q < x)
    BY <1>2
  <2>2. q \in Nat /\ x \in Nat
    OBVIOUS
  <2> QED BY <2>1, <2>2
<1> QED BY <1>3

LEMMA HighestHolder ==
  ASSUME TypeOK, NEW l \in Local, Holders(l) # {}
  PROVE  LastHolder(l) \in Regs /\ args[LastHolder(l)] = l
<1>1. Holders(l) \in SUBSET Regs
  BY DEF Holders
<1>2. \E r \in Holders(l) : \A q \in Holders(l) : q <= r
  BY <1>1, HighestExists
<1>3. LastHolder(l) \in Holders(l)
  BY <1>2 DEF LastHolder
<1> QED BY <1>3 DEF Holders

\* The number of earlier entries of a group of relocs.
LEMMA RankType ==
  ASSUME TypeOK, NEW L \in SUBSET Local, NEW l \in Local
  PROVE  /\ Cardinality(L) \in Nat
         /\ Reloc(l, L) \in Fixup
         /\ Reloc(l, L).loc = l
         /\ Reloc(l, L).confirmed = read[l]
<1>1. IsFiniteSet(L)
  BY FS_Subset, DataAssumption
<1>2. Cardinality(L) \in Nat
  BY <1>1, FS_CardinalityType
<1> DEFINE M == {m \in L : LastHolder(m) < LastHolder(l)}
<1>3. Cardinality(M) \in Nat
  BY <1>1, FS_Subset, FS_CardinalityType
<1>4. nfix + Cardinality(M) \in Nat
  BY <1>3, NumAssumption DEF TypeOK
<1> QED
  BY <1>2, <1>4 DEF Reloc, Fixup, TypeOK

LEMMA OrphansType ==
  ASSUME NEW S
  PROVE  Orphans(S) \in SUBSET Local /\ \A l \in Orphans(S) : Holders(l) # {}
BY DEF Orphans

\* Relocating locals which are in registers keeps the types of the fixups and
\* of the homes.
LEMMA RelocateType ==
  ASSUME TypeOK, NEW L \in SUBSET Local, \A l \in L : Holders(l) # {}, Relocate(L)
  PROVE  /\ nfix' \in 0 .. MaxFix
         /\ fix' \subseteq Fixup
         /\ pending' \in [Local -> SUBSET Nat]
         /\ home' \in [Local -> Value]
<1>1. Cardinality(L) \in Nat
  BY FS_Subset, FS_CardinalityType, DataAssumption
<1>2. ASSUME NEW l \in L
      PROVE  Reloc(l, L) \in Fixup /\ LastHolder(l) \in Regs
  BY RankType, HighestHolder
<1>3. nfix' \in 0 .. MaxFix
  BY <1>1, NumAssumption DEF Relocate, TypeOK
<1>4. fix' \subseteq Fixup
  BY <1>2 DEF Relocate, TypeOK
<1>5. pending' \in [Local -> SUBSET Nat]
  BY <1>2 DEF Relocate, TypeOK, Fixup
<1>6. home' \in [Local -> Value]
  BY <1>2 DEF Relocate, TypeOK
<1> QED BY <1>3, <1>4, <1>5, <1>6

LEMMA ForgetType ==
  ASSUME TypeOK, NEW S, Forget(S)
  PROVE  /\ nfix' \in 0 .. MaxFix
         /\ fix' \subseteq Fixup
         /\ pending' \in [Local -> SUBSET Nat]
         /\ home' \in [Local -> Value]
         /\ stable' \in [Local -> BOOLEAN]
<1>1. Relocate(Orphans(S)) /\ stable' = [l \in Local |-> stable[l] \/ l \in Orphans(S)]
  BY DEF Forget
<1> QED BY <1>1, OrphansType, RelocateType DEF TypeOK

-----------------------------------------------------------------------------
(* Type correctness *)

\* What the actions of the compiler leave alone.
LEMMA CompilingType ==
  ASSUME TypeOK, Compiling
  PROVE  /\ phase' \in {"compile", "fixup", "done", "rejected"}
         /\ pos' \in Nat /\ volRegs' \subseteq Regs
         /\ saved' \in 0 .. NSaved /\ mem' \in Nat
         /\ location' \in [Local -> Location]
BY DEF Compiling, TypeOK, resolveVars

LEMMA PushType ==
  ASSUME TypeOK, NEW v \in Value, PushImm(v) \/ AllocReg(v)
  PROVE  TypeOK'
<1>1. Compiling /\ Forget({argLen}) /\ argLen < NRegs /\ argLen' = argLen + 1
  BY DEF PushImm, AllocReg
<1>2. argLen \in Regs /\ argLen' \in 0 .. NRegs
  BY <1>1, NumAssumption DEF Regs, TypeOK
<1>3. args' \in [Regs -> Arg] /\ reg' \in [Regs -> Value]
  BY <1>2 DEF PushImm, AllocReg, TypeOK, Arg
<1>4. clobber' \subseteq Regs /\ written' \subseteq Regs
  BY <1>2 DEF PushImm, AllocReg, Clobber, TypeOK
<1>5. UNCHANGED <<declared, read, used, val>>
  BY DEF PushImm, AllocReg
<1> QED BY <1>1, <1>2, <1>3, <1>4, <1>5, ForgetType, CompilingType DEF TypeOK

LEMMA PushHeldType ==
  ASSUME TypeOK, NEW l \in Local, PushHeld(l)
  PROVE  TypeOK'
<1>1. argLen' \in 0 .. NRegs
  BY NumAssumption DEF PushHeld, TypeOK
<1> QED BY <1>1, CompilingType DEF PushHeld, TypeOK, fixVars, machineVars

\* The register a mov copies from.
LEMMA SourceOfMov ==
  ASSUME TypeOK, NEW l \in Local, Holders(l) # {}
  PROVE  LET src == CHOOSE q \in Holders(l) : \A p \in Holders(l) : q <= p
         IN  src \in Regs /\ args[src] = l
<1> DEFINE src == CHOOSE q \in Holders(l) : \A p \in Holders(l) : q <= p
<1>1. Holders(l) \in SUBSET Regs /\ Holders(l) \in SUBSET Nat
  BY DEF Holders, Regs
<1>2. \E q \in Holders(l) : \A p \in Holders(l) : q <= p
  BY <1>1, LowestExists
<1>3. src \in Holders(l)
  BY <1>2
<1> QED BY <1>3 DEF Holders

LEMMA PushFromRegType ==
  ASSUME TypeOK, NEW l \in Local, PushFromReg(l)
  PROVE  TypeOK'
<1>1. Compiling /\ Forget({argLen}) /\ argLen < NRegs /\ argLen' = argLen + 1
  BY DEF PushFromReg
<1>2. argLen \in Regs /\ argLen' \in 0 .. NRegs
  BY <1>1, NumAssumption DEF Regs, TypeOK
<1>3. args' \in [Regs -> Arg] /\ used' \in [Local -> BOOLEAN]
  BY <1>2 DEF PushFromReg, TypeOK, Arg
<1>4. reg' \in [Regs -> Value]
  BY <1>2, SourceOfMov DEF PushFromReg, TypeOK
<1>5. clobber' \subseteq Regs /\ written' \subseteq Regs
  BY <1>2 DEF PushFromReg, Clobber, TypeOK
<1>6. UNCHANGED <<declared, read, val>>
  BY DEF PushFromReg
<1> QED BY <1>1, <1>2, <1>3, <1>4, <1>5, <1>6, ForgetType, CompilingType DEF TypeOK

LEMMA PushFromHomeType ==
  ASSUME TypeOK, NEW l \in Local, PushFromHome(l)
  PROVE  TypeOK'
<1> DEFINE lost == Orphans({argLen})
<1>1. Cardinality(lost) \in Nat
  BY OrphansType, FS_Subset, FS_CardinalityType, DataAssumption
<1>2. ASSUME NEW m \in lost
      PROVE  m \in Local /\ Reloc(m, lost) \in Fixup /\ LastHolder(m) \in Regs
  BY OrphansType, RankType, HighestHolder
<1>3. argLen \in Regs /\ argLen' \in 0 .. NRegs
  BY NumAssumption DEF PushFromHome, Regs, TypeOK
<1>4. nfix' \in 0 .. MaxFix /\ nfix + Cardinality(lost) \in Nat
  BY <1>1, NumAssumption DEF PushFromHome, TypeOK
<1>5. fix' \subseteq Fixup
  <2>1. ASSUME NEW f \in fix
        PROVE  [f EXCEPT !.confirmed = @ \/ (f.type = "reloc" /\ f.ord \in pending[l])]
                 \in Fixup
    BY DEF TypeOK, Fixup
  <2>2. [type |-> "read", loc |-> l, confirmed |-> TRUE,
         ord |-> nfix + Cardinality(lost)] \in Fixup
    BY <1>4 DEF Fixup
  <2> QED BY <1>2, <2>1, <2>2 DEF PushFromHome
<1>6. pending' \in [Local -> SUBSET Nat]
  <2>1. \A m \in lost : Reloc(m, lost).ord \in Nat BY <1>2 DEF Fixup
  <2>2. /\ pending \in [Local -> SUBSET Nat]
        /\ pending' = [m \in Local |->
             IF m = l THEN {}
             ELSE pending[m] \cup (IF m \in lost THEN {Reloc(m, lost).ord} ELSE {})]
    BY DEF PushFromHome, TypeOK
  <2> HIDE DEF lost
  <2>3. ASSUME NEW m \in Local PROVE pending'[m] \in SUBSET Nat
    <3>1. pending[m] \in SUBSET Nat BY <2>2
    <3>2. CASE m = l BY <2>2, <3>2
    <3>3. CASE m # l /\ m \in lost
      <4>1. pending'[m] = pending[m] \cup {Reloc(m, lost).ord} BY <2>2, <3>3
      <4> QED BY <2>1, <3>1, <3>3, <4>1
    <3>4. CASE m # l /\ m \notin lost
      <4>1. pending'[m] = pending[m] \cup {} BY <2>2, <3>4
      <4> QED BY <3>1, <4>1
    <3> QED BY <3>2, <3>3, <3>4
  <2> QED BY <2>2, <2>3
<1>7. home' \in [Local -> Value] /\ reg' \in [Regs -> Value]
  BY <1>2, <1>3 DEF PushFromHome, TypeOK
<1>8. /\ args' \in [Regs -> Arg] /\ used' \in [Local -> BOOLEAN]
      /\ read' \in [Local -> BOOLEAN] /\ stable' \in [Local -> BOOLEAN]
  BY <1>3, OrphansType DEF PushFromHome, TypeOK, Arg
<1>9. clobber' \subseteq Regs /\ written' \subseteq Regs
  BY <1>3 DEF PushFromHome, Clobber, TypeOK
<1>10. Compiling /\ UNCHANGED <<declared, val>>
  BY DEF PushFromHome
<1> QED
  BY <1>3, <1>4, <1>5, <1>6, <1>7, <1>8, <1>9, <1>10, CompilingType DEF TypeOK

LEMMA AssignFromType ==
  ASSUME TypeOK, NEW l \in Local, NEW r \in Regs, AssignFrom(l, r),
         argLen' \in 0 .. NRegs
  PROVE  TypeOK'
<1> DEFINE lost == Orphans({r}) \ {l}
<1>1. lost \in SUBSET Local /\ \A m \in lost : Holders(m) # {}
  BY OrphansType
<1>2. Relocate(lost) /\ Compiling
  BY DEF AssignFrom
<1>3. stable' \in [Local -> BOOLEAN] /\ val' \in [Local -> Value]
  BY <1>1 DEF AssignFrom, Reassigned, TypeOK
<1>4. args' \in [Regs -> Arg]
  BY DEF AssignFrom, TypeOK, Arg
<1>5. declared' \subseteq Local
  BY DEF AssignFrom, TypeOK
<1>6. UNCHANGED <<read, used, clobber, reg, written>>
  BY DEF AssignFrom
<1>7. /\ nfix' \in 0 .. MaxFix /\ fix' \subseteq Fixup
      /\ pending' \in [Local -> SUBSET Nat] /\ home' \in [Local -> Value]
  <2> HIDE DEF lost
  <2> QED BY <1>1, <1>2, RelocateType
<1> QED
  BY <1>2, <1>3, <1>4, <1>5, <1>6, <1>7, CompilingType DEF TypeOK

LEMMA AssignType ==
  ASSUME TypeOK, NEW l \in Local, NEW r \in Regs, Pop(l) \/ AssignBelow(l, r)
  PROVE  TypeOK'
<1>1. CASE Pop(l)
  <2>1. argLen - 1 \in Regs /\ argLen' \in 0 .. NRegs
    BY <1>1, NumAssumption DEF Pop, TypeOK, Regs
  <2> QED BY <1>1, <2>1, AssignFromType DEF Pop
<1>2. CASE AssignBelow(l, r)
  BY <1>2, AssignFromType DEF AssignBelow, TypeOK
<1> QED BY <1>1, <1>2

LEMMA CompareIntoType ==
  ASSUME TypeOK, NEW l \in Local, NEW v \in Value, CompareInto(l, v)
  PROVE  TypeOK'
<1> DEFINE r == argLen - 2
           lost == Orphans({r})
<1>1. Cardinality(lost) \in Nat
  BY OrphansType, FS_Subset, FS_CardinalityType, DataAssumption
<1>2. ASSUME NEW m \in lost
      PROVE  m \in Local /\ Reloc(m, lost) \in Fixup
  BY OrphansType, RankType
<1>3. r \in Regs /\ argLen' \in 0 .. NRegs
  BY NumAssumption DEF CompareInto, Regs, TypeOK
<1>4. nfix' \in 0 .. MaxFix
  BY <1>1, NumAssumption DEF CompareInto, TypeOK
<1>5. fix' \subseteq Fixup /\ pending' \in [Local -> SUBSET Nat]
  <2>1. /\ fix' = fix \cup {Reloc(m, lost) : m \in lost}
        /\ pending' = [m \in Local |->
             pending[m] \cup (IF m \in lost THEN {Reloc(m, lost).ord} ELSE {})]
    BY DEF CompareInto
  <2> HIDE DEF lost
  <2> QED BY <1>2, <2>1 DEF TypeOK, Fixup
<1>6. home' \in [Local -> Value] /\ reg' \in [Regs -> Value] /\ val' \in [Local -> Value]
  BY <1>3 DEF CompareInto, TypeOK
<1>7. args' \in [Regs -> Arg] /\ stable' \in [Local -> BOOLEAN]
  <2>1. args' \in [Regs -> Arg]
    BY DEF CompareInto, TypeOK, Arg
  <2>2. stable' \in [Local -> BOOLEAN]
    BY DEF CompareInto, TypeOK, Reassigned
  <2> QED BY <2>1, <2>2
<1>8. clobber' \subseteq Regs /\ written' \subseteq Regs
  BY <1>3 DEF CompareInto, Clobber, TypeOK
<1>9. Compiling /\ UNCHANGED <<declared, read, used>>
  BY DEF CompareInto
<1> QED
  BY <1>3, <1>4, <1>5, <1>6, <1>7, <1>8, <1>9, CompilingType DEF TypeOK

LEMMA DiscardType ==
  ASSUME TypeOK, NEW n \in Regs, Discard(n)
  PROVE  TypeOK'
<1>1. argLen' \in 0 .. NRegs /\ Compiling
  BY NumAssumption DEF Discard, Regs
<1> QED
  BY <1>1, CompilingType
  DEF Discard, TypeOK, localVars, fixVars, machineVars

\* The operations which compute: one register is forgotten and rewritten.
LEMMA OperationType ==
  ASSUME TypeOK, NEW v \in Value, NEW junk \in Value,
         UnOp(v) \/ BinOp(v) \/ FoldRight(v, junk)
  PROVE  TypeOK'
<1>1. PICK r \in Regs :
        /\ Compiling /\ Forget({r}) /\ Clobber({r})
        /\ argLen' \in 0 .. NRegs
  <2>1. CASE UnOp(v)
    <3>1. argLen - 1 \in Regs /\ argLen' \in 0 .. NRegs
      BY <2>1, NumAssumption DEF UnOp, TypeOK, Regs
    <3> QED BY <2>1, <3>1 DEF UnOp
  <2>2. CASE BinOp(v) \/ FoldRight(v, junk)
    <3>1. argLen - 2 \in Regs /\ argLen' \in 0 .. NRegs
      BY <2>2, NumAssumption DEF BinOp, FoldRight, TypeOK, Regs
    <3> QED BY <2>2, <3>1 DEF BinOp, FoldRight
  <2> QED BY <2>1, <2>2
<1>2. args' \in [Regs -> Arg] /\ reg' \in [Regs -> Value]
  BY DEF UnOp, BinOp, FoldRight, TypeOK, Arg
<1>3. clobber' \subseteq Regs /\ written' \subseteq Regs
  BY <1>1 DEF Clobber, TypeOK
<1>4. UNCHANGED <<declared, read, used, val>>
  BY DEF UnOp, BinOp, FoldRight
<1> QED BY <1>1, <1>2, <1>3, <1>4, ForgetType, CompilingType DEF TypeOK

\* The operations which only replace constants.
LEMMA ConstantType ==
  ASSUME TypeOK, NEW v \in Value, NEW junk \in Value,
         AllocaConst(v) \/ FoldBoth(v, junk)
  PROVE  TypeOK'
<1>1. argLen' \in 0 .. NRegs /\ Compiling
  BY NumAssumption DEF AllocaConst, FoldBoth, TypeOK
<1>2. args' \in [Regs -> Arg] /\ reg' \in [Regs -> Value]
  <2>1. CASE AllocaConst(v)
    BY <2>1 DEF AllocaConst, TypeOK, Arg
  <2>2. CASE FoldBoth(v, junk)
    BY <2>2 DEF FoldBoth, TypeOK, Arg
  <2> QED BY <2>1, <2>2
<1>3. clobber' \subseteq Regs /\ written' \subseteq Regs
  <2>1. CASE AllocaConst(v)
    <3>1. argLen - 1 \in Regs
      BY <2>1, NumAssumption DEF AllocaConst, TypeOK, Regs
    <3> QED BY <2>1, <3>1 DEF AllocaConst, TypeOK
  <2>2. CASE FoldBoth(v, junk)
    <3>1. argLen - 2 \in Regs
      BY <2>2, NumAssumption DEF FoldBoth, TypeOK, Regs
    <3> QED BY <2>2, <3>1 DEF FoldBoth, Clobber, TypeOK
  <2> QED BY <2>1, <2>2
<1>4. UNCHANGED <<localVars, fixVars, home, val>>
  BY DEF AllocaConst, FoldBoth
<1> QED BY <1>1, <1>2, <1>3, <1>4, CompilingType DEF TypeOK, localVars, fixVars

LEMMA BarrierType ==
  ASSUME TypeOK, Barrier
  PROVE  TypeOK'
<1>1. args' \in [Regs -> Arg]
  BY DEF Barrier, Arg
<1> QED BY <1>1, ForgetType, CompilingType DEF Barrier, TypeOK

LEMMA TryRegsType ==
  ASSUME NEW src \in Regs, NEW r \in [Regs -> Value]
  PROVE  /\ TryRegs(src, r) \in [Regs -> Value]
         /\ HasErr => TryWrites(src) \subseteq Regs
<1>1. HasErr => ErrReg \in Regs
  BY NumAssumption, SignatureAssumption DEF ErrReg, Regs
<1>2. TryRegs(src, r) \in [Regs -> Value]
  BY DEF TryRegs
<1> QED BY <1>1, <1>2 DEF TryWrites

LEMMA CallWithType ==
  ASSUME TypeOK,
         NEW inp, NEW out \in 0 .. NRegs, NEW clob \in SUBSET Regs,
         NEW try \in BOOLEAN, try => HasErr /\ out > 0,
         CallWith(inp, out, clob, try)
  PROVE  TypeOK'
<1>1. Compiling /\ Forget(clob) /\ UNCHANGED <<declared, read, used, val>>
  BY DEF CallWith
<1>2. argLen' \in 0 .. NRegs
  BY NumAssumption DEF CallWith
<1>3. args' \in [Regs -> Arg]
  BY DEF CallWith, Forgotten, TypeOK, Arg
<1>4. try => out - 1 \in Regs
  BY NumAssumption DEF Regs
<1>5. reg' \in [Regs -> Value]
  <2>1. PICK f \in [clob -> Value] :
          LET after == [r \in Regs |-> IF r \in clob THEN f[r] ELSE reg[r]]
          IN  reg' = IF try THEN TryRegs(out - 1, after) ELSE after
    BY DEF CallWith
  <2> DEFINE after == [r \in Regs |-> IF r \in clob THEN f[r] ELSE reg[r]]
  <2>2. after \in [Regs -> Value]
    BY DEF TypeOK
  <2> HIDE DEF after
  <2>3. try => TryRegs(out - 1, after) \in [Regs -> Value]
    BY <1>4, <2>2, TryRegsType
  <2>4. reg' = IF try THEN TryRegs(out - 1, after) ELSE after
    BY <2>1 DEF after
  <2> QED BY <2>2, <2>3, <2>4
<1>6. try => TryWrites(out - 1) \subseteq Regs
  BY <1>4, TryRegsType DEF TypeOK
<1>7. clobber' \subseteq Regs /\ written' \subseteq Regs
  BY <1>6 DEF CallWith, TypeOK
<1> QED BY <1>1, <1>2, <1>3, <1>5, <1>7, ForgetType, CompilingType DEF TypeOK

LEMMA CallType ==
  ASSUME TypeOK, (\E k \in Callee : Call(k)) \/ Recur
                 \/ (\E n \in 0 .. NRegs : CallRaw(n))
  PROVE  TypeOK'
<1>1. ASSUME NEW k \in Callee, Call(k) PROVE TypeOK'
  <2>1. /\ k.out \in 0 .. NRegs /\ k.clobber \in SUBSET Regs /\ k.err \in BOOLEAN
        /\ k.err => k.out > 0
    BY SignatureAssumption DEF CalleeType
  <2>2. (AutoTry /\ k.err) \in BOOLEAN /\ (AutoTry /\ k.err => HasErr /\ k.out > 0)
    BY <2>1, SignatureAssumption
  <2> QED BY <1>1, <2>1, <2>2, CallWithType DEF Call
<1>2. CASE Recur
  BY <1>2, CallWithType, NumAssumption, SignatureAssumption DEF Recur
<1>3. ASSUME NEW n \in 0 .. NRegs, CallRaw(n) PROVE TypeOK'
  BY <1>3, CallWithType DEF CallRaw
<1> QED BY <1>1, <1>2, <1>3

LEMMA TryType ==
  ASSUME TypeOK, Try
  PROVE  TypeOK'
<1>1. argLen - 1 \in Regs /\ argLen' \in 0 .. NRegs /\ Compiling
  BY NumAssumption DEF Try, TypeOK, Regs
<1>2. reg' \in [Regs -> Value] /\ written' \subseteq Regs
  BY <1>1, TryRegsType DEF Try, TypeOK
<1> QED BY <1>1, <1>2, CompilingType DEF Try, TypeOK, localVars, fixVars

LEMMA EndType ==
  ASSUME TypeOK, End
  PROVE  TypeOK'
<1>1. HasErr => ErrReg \in Regs
  BY NumAssumption, SignatureAssumption DEF ErrReg, Regs
<1>2. argLen = OutLen \/ HasErr
  BY DEF End, ReturnsOutputs
<1>3. clobber' \subseteq Regs /\ written' \subseteq Regs /\ volRegs' \subseteq Regs
  BY <1>1, <1>2 DEF End, TypeOK, FreeRegs
<1>4. reg' \in [Regs -> Value]
  BY DataAssumption DEF End, TypeOK
<1>5. argLen' \in 0 .. NRegs /\ phase' = "fixup"
  BY NumAssumption DEF End
<1> QED
  BY <1>3, <1>4, <1>5 DEF End, TypeOK, localVars, fixVars

LEMMA ResolveType ==
  ASSUME TypeOK, NEW l, Resolve(l)
  PROVE  /\ location' \in [Local -> Location] /\ volRegs' \subseteq Regs
         /\ clobber' \subseteq Regs /\ saved' \in 0 .. NSaved /\ mem' \in Nat
<1> DEFINE Put(loc) == location' = [location EXCEPT ![l] = loc]
<1>1. ASSUME NEW loc \in Location, Put(loc)
      PROVE  location' \in [Local -> Location]
  BY <1>1 DEF TypeOK
<1> HIDE DEF Put
<1>2. CASE UNCHANGED <<location, volRegs, clobber, saved, mem>>
  BY <1>2 DEF TypeOK
<1>3. ASSUME NEW r \in volRegs, Put([kind |-> "vol", num |-> r]),
             volRegs' = volRegs \ {r}, clobber' = clobber \cup {r},
             UNCHANGED <<saved, mem>>
      PROVE  /\ location' \in [Local -> Location] /\ volRegs' \subseteq Regs
             /\ clobber' \subseteq Regs /\ saved' \in 0 .. NSaved /\ mem' \in Nat
  <2>1. [kind |-> "vol", num |-> r] \in Location
    BY DEF TypeOK, Regs, Location
  <2> QED BY <1>1, <1>3, <2>1 DEF TypeOK
<1>4. CASE /\ Put([kind |-> "saved", num |-> saved]) /\ saved < NSaved
           /\ saved' = saved + 1 /\ UNCHANGED <<volRegs, clobber, mem>>
  <2>1. [kind |-> "saved", num |-> saved] \in Location
    BY NumAssumption DEF TypeOK, Location
  <2> QED BY <1>1, <1>4, <2>1, NumAssumption DEF TypeOK
<1>5. CASE /\ Put([kind |-> "mem", num |-> mem])
           /\ mem' = mem + 1 /\ UNCHANGED <<volRegs, clobber, saved>>
  <2>1. [kind |-> "mem", num |-> mem] \in Location
    BY DEF TypeOK, Location
  <2> QED BY <1>1, <1>5, <2>1 DEF TypeOK
<1> QED BY <1>2, <1>3, <1>4, <1>5 DEF Resolve, Put

LEMMA Fixup1Type ==
  ASSUME TypeOK, Fixup1
  PROVE  TypeOK'
<1>1. /\ location' \in [Local -> Location] /\ volRegs' \subseteq Regs
      /\ clobber' \subseteq Regs /\ saved' \in 0 .. NSaved /\ mem' \in Nat
  <2>1. CASE At(pos).confirmed
    BY <2>1, ResolveType DEF Fixup1
  <2>2. CASE ~ At(pos).confirmed
    BY <2>2 DEF Fixup1, TypeOK
  <2> QED BY <2>1, <2>2
<1>2. pos' \in Nat
  BY DEF Fixup1, TypeOK
<1> QED
  BY <1>1, <1>2 DEF Fixup1, TypeOK, argVars, localVars, fixVars, machineVars

LEMMA FinishType ==
  ASSUME TypeOK, Finish
  PROVE  TypeOK'
BY DEF Finish, TypeOK, argVars, localVars, fixVars, machineVars

LEMMA NextType ==
  ASSUME TypeOK, Next
  PROVE  TypeOK'
<1>1. ASSUME NEW v \in Value, PushImm(v) \/ AllocReg(v) \/ UnOp(v) \/ BinOp(v)
                               \/ AllocaConst(v)
      PROVE  TypeOK'
  BY <1>1, PushType, OperationType, ConstantType
<1>2. ASSUME NEW v \in Value, NEW junk \in Value,
             FoldBoth(v, junk) \/ FoldRight(v, junk)
      PROVE  TypeOK'
  BY <1>2, OperationType, ConstantType
<1>3. ASSUME NEW l \in Local,
             PushHeld(l) \/ PushFromReg(l) \/ PushFromHome(l) \/ Pop(l)
      PROVE  TypeOK'
  <2>1. CASE Pop(l)
    <3>1. argLen - 1 \in Regs
      BY <2>1, NumAssumption DEF Pop, TypeOK, Regs
    <3> QED BY <2>1, <3>1, AssignType
  <2> QED BY <1>3, <2>1, PushHeldType, PushFromRegType, PushFromHomeType
<1>4. ASSUME NEW l \in Local, NEW r \in Regs, AssignBelow(l, r) PROVE TypeOK'
  BY <1>4, AssignType
<1>5. ASSUME NEW l \in Local, NEW v \in Value, CompareInto(l, v) PROVE TypeOK'
  BY <1>5, CompareIntoType
<1>6. ASSUME NEW n \in Regs, Discard(n) PROVE TypeOK'
  BY <1>6, DiscardType
<1>7. CASE Barrier
  BY <1>7, BarrierType
<1>8. CASE (\E k \in Callee : Call(k)) \/ Recur \/ (\E n \in 0 .. NRegs : CallRaw(n))
  BY <1>8, CallType
<1>9. CASE Try
  BY <1>9, TryType
<1>10. CASE End \/ Fixup1 \/ Finish
  BY <1>10, EndType, Fixup1Type, FinishType
<1> QED
  BY <1>1, <1>2, <1>3, <1>4, <1>5, <1>6, <1>7, <1>8, <1>9, <1>10 DEF Next, Compile

\* The parameters which `->' pushes are no more than the parameters.
LEMMA PushableBound ==
  Cardinality(Named) \in 0 .. NRegs
<1>1. IsFiniteSet(InpRegs) /\ Cardinality(InpRegs) = InpLen
  BY FS_Interval, NumAssumption DEF InpRegs
<1> DEFINE index == [l \in Named |-> CHOOSE i \in InpRegs : Param[i] = l]
<1>2. ASSUME NEW l \in Named PROVE index[l] \in InpRegs /\ Param[index[l]] = l
  <2>1. \E i \in InpRegs : Param[i] = l
    BY DEF Named
  <2> QED BY <2>1
<1>3. index \in Injection(Named, InpRegs)
  BY <1>2 DEF Injection, IsInjective
<1>4. IsFiniteSet(Named) /\ Cardinality(Named) <= InpLen
  <2> HIDE DEF index
  <2> QED BY <1>1, <1>3, FS_Injection
<1> QED BY <1>4, FS_CardinalityType, NumAssumption

LEMMA InitType == Init => TypeOK
<1> SUFFICES ASSUME Init PROVE TypeOK
  OBVIOUS
<1>1. IsFiniteSet(Named) /\ Cardinality(Named) \in Nat
  BY FS_Subset, FS_CardinalityType, DataAssumption DEF Named
<1>2. args \in [Regs -> Arg]
  BY SignatureAssumption DEF Init, Arg, InpRegs
<1>3. val \in [Local -> Value]
  <2>1. ASSUME NEW l \in Named
        PROVE  reg[CHOOSE i \in InpRegs : Param[i] = l] \in Value
    <3>1. \E i \in InpRegs : Param[i] = l
      BY <2>1 DEF Named
    <3>2. (CHOOSE i \in InpRegs : Param[i] = l) \in Regs
      BY <3>1, NumAssumption DEF InpRegs, Regs
    <3> QED BY <3>2 DEF Init
  <2> QED BY <2>1 DEF Init
<1>4. argLen \in 0 .. NRegs
  BY PushableBound, NumAssumption DEF Init
<1>5. declared \subseteq Local /\ used \in [Local -> BOOLEAN]
  BY DEF Init, Named
<1> QED
  BY <1>2, <1>3, <1>4, <1>5, NumAssumption DEF Init, TypeOK, Location

\* Every reachable state has the types of the declarations.
THEOREM TypeCorrect == Spec => []TypeOK
<1>1. TypeOK /\ [Next]_vars => TypeOK'
  <2>1. CASE UNCHANGED vars
    BY <2>1 DEF TypeOK, vars, argVars, localVars, fixVars, resolveVars, machineVars
  <2> QED BY <2>1, NextType
<1> QED BY <1>1, InitType, PTL DEF Spec

-----------------------------------------------------------------------------
(* The machine agrees with the compiler, in a program which stays clear of   *)
(* the two places where it does not: `try' into a register above the one it  *)
(* tests, and `=:' or `<>:' with a local on the right.                       *)

\* A relocation writes the value the local has.
LEMMA RelocateTracked ==
  ASSUME TypeOK, Tracked, phase = "compile",
         NEW L \in SUBSET Local, \A l \in L : Holders(l) # {}, Relocate(L)
  PROVE  \A l \in Local : stable[l] \/ l \in L => home'[l] = val[l]
<1> TAKE l \in Local
<1>1. CASE l \in L
  <2>1. LastHolder(l) \in Regs /\ args[LastHolder(l)] = l
    BY <1>1, HighestHolder
  <2>2. reg[LastHolder(l)] = val[l]
    BY <2>1 DEF Tracked
  <2> QED BY <1>1, <2>2 DEF Relocate
<1>2. CASE l \notin L
  BY <1>2 DEF Relocate, Tracked
<1> QED BY <1>1, <1>2

LEMMA ForgetTracked ==
  ASSUME TypeOK, Tracked, phase = "compile", NEW S, Forget(S)
  PROVE  \A l \in Local : stable'[l] => home'[l] = val[l]
<1>1. \A l \in Local : stable[l] \/ l \in Orphans(S) => home'[l] = val[l]
  BY OrphansType, RelocateTracked DEF Forget
<1> QED BY <1>1 DEF Forget

\* What a step must show when it assigns no local.
LEMMA TrackedAfter ==
  ASSUME TypeOK, Tracked, phase = "compile", UNCHANGED val,
         \A l \in Local : stable'[l] => home'[l] = val[l],
         \A r \in Regs : \/ args'[r] = Unknown
                         \/ args'[r] = args[r] /\ reg'[r] = reg[r]
                         \/ args'[r] \in Value /\ reg'[r] = args'[r]
                         \/ args'[r] \in Local /\ reg'[r] = val[args'[r]]
  PROVE  Tracked'
BY DataAssumption DEF Tracked

LEMMA PushTracked ==
  ASSUME TypeOK, Tracked, NEW v \in Value, PushImm(v) \/ AllocReg(v)
  PROVE  Tracked'
<1>1. phase = "compile" /\ Forget({argLen}) /\ UNCHANGED val
  BY DEF PushImm, AllocReg, Compiling
<1>2. \A r \in Regs : \/ args'[r] = Unknown
                      \/ args'[r] = args[r] /\ reg'[r] = reg[r]
                      \/ args'[r] \in Value /\ reg'[r] = args'[r]
  BY DEF PushImm, AllocReg, TypeOK
<1> QED BY <1>1, <1>2, ForgetTracked, TrackedAfter

LEMMA PushFromRegTracked ==
  ASSUME TypeOK, Tracked, NEW l \in Local, PushFromReg(l)
  PROVE  Tracked' /\ reg'[argLen] = val[l]
<1> DEFINE src == CHOOSE q \in Holders(l) : \A p \in Holders(l) : q <= p
<1>1. phase = "compile" /\ Forget({argLen}) /\ UNCHANGED val /\ Holders(l) # {}
  BY DEF PushFromReg, Compiling
<1>2. src \in Regs /\ args[src] = l
  BY <1>1, SourceOfMov
<1>3. reg[src] = val[l]
  BY <1>1, <1>2 DEF Tracked
<1>4. args' = [args EXCEPT ![argLen] = l] /\ reg' = [reg EXCEPT ![argLen] = reg[src]]
  BY DEF PushFromReg
<1>5. argLen \in Regs
  BY NumAssumption DEF PushFromReg, TypeOK, Regs
<1> HIDE DEF src
<1>6. reg'[argLen] = val[l]
  BY <1>3, <1>4, <1>5 DEF TypeOK
<1>7. \A r \in Regs : \/ args'[r] = args[r] /\ reg'[r] = reg[r]
                      \/ args'[r] \in Local /\ reg'[r] = val[args'[r]]
  BY <1>3, <1>4 DEF TypeOK
<1> QED BY <1>1, <1>6, <1>7, ForgetTracked, TrackedAfter

LEMMA PushFromHomeTracked ==
  ASSUME TypeOK, Tracked, NEW l \in Local, PushFromHome(l)
  PROVE  Tracked' /\ reg'[argLen] = val[l]
<1> DEFINE lost == Orphans({argLen})
<1>1. phase = "compile" /\ UNCHANGED val /\ stable[l]
  BY DEF PushFromHome, Compiling
<1>2. home[l] = val[l]
  BY <1>1 DEF Tracked
<1>3. ASSUME NEW m \in Local, stable'[m] PROVE home'[m] = val[m]
  <2>1. CASE m \in lost
    <3>1. LastHolder(m) \in Regs /\ args[LastHolder(m)] = m
      BY <2>1, OrphansType, HighestHolder
    <3>2. reg[LastHolder(m)] = val[m]
      BY <1>1, <3>1 DEF Tracked
    <3> QED BY <2>1, <3>2 DEF PushFromHome
  <2>2. CASE m \notin lost
    BY <1>1, <1>3, <2>2 DEF PushFromHome, Tracked
  <2> QED BY <2>1, <2>2
<1>4. args' = [args EXCEPT ![argLen] = l] /\ reg' = [reg EXCEPT ![argLen] = home[l]]
  BY DEF PushFromHome
<1>5. argLen \in Regs
  BY NumAssumption DEF PushFromHome, TypeOK, Regs
<1>6. reg'[argLen] = val[l]
  BY <1>2, <1>4, <1>5 DEF TypeOK
<1>7. \A r \in Regs : \/ args'[r] = args[r] /\ reg'[r] = reg[r]
                      \/ args'[r] \in Local /\ reg'[r] = val[args'[r]]
  BY <1>2, <1>4 DEF TypeOK
<1> QED BY <1>1, <1>3, <1>6, <1>7, TrackedAfter

LEMMA AssignTracked ==
  ASSUME TypeOK, Tracked, NEW l \in Local, NEW r \in Regs, AssignFrom(l, r)
  PROVE  Tracked'
<1> DEFINE lost == Orphans({r}) \ {l}
<1>1. phase = "compile" /\ phase' = "compile" /\ Relocate(lost)
  BY DEF AssignFrom, Compiling, resolveVars
<1>2. lost \in SUBSET Local /\ \A m \in lost : Holders(m) # {}
  BY OrphansType
<1>3. \A m \in Local : stable[m] \/ m \in lost => home'[m] = val[m]
  <2> HIDE DEF lost
  <2> QED BY <1>1, <1>2, RelocateTracked
<1>4. \A m \in Local : stable'[m] => home'[m] = val'[m]
  BY <1>3 DEF AssignFrom, Reassigned, TypeOK
<1>5. \A q \in Regs : args'[q] \in Local => reg'[q] = val'[args'[q]]
  BY <1>1, DataAssumption DEF AssignFrom, TypeOK, Tracked
<1>6. \A q \in Regs : args'[q] \in Value => reg'[q] = args'[q]
  BY <1>1, DataAssumption DEF AssignFrom, TypeOK, Tracked
<1> QED BY <1>4, <1>5, <1>6 DEF Tracked

LEMMA PushHeldTracked ==
  ASSUME TypeOK, Tracked, NEW l \in Local, PushHeld(l)
  PROVE  Tracked' /\ reg'[argLen] = val[l]
<1>1. argLen \in Regs /\ phase = "compile" /\ args[argLen] = l
  BY NumAssumption DEF PushHeld, Compiling, TypeOK, Regs
<1>2. UNCHANGED <<args, stable, reg, home, val>>
  BY DEF PushHeld, machineVars
<1> QED BY <1>1, <1>2 DEF Tracked

LEMMA OperationTracked ==
  ASSUME TypeOK, Tracked, NEW v \in Value, NEW junk \in Value,
         UnOp(v) \/ BinOp(v) \/ FoldRight(v, junk)
  PROVE  Tracked'
<1>1. PICK r \in {argLen - 1, argLen - 2} :
        /\ Forget({r}) /\ phase = "compile" /\ UNCHANGED val
        /\ \/ args' = [args EXCEPT ![r] = Unknown] /\ reg' = [reg EXCEPT ![r] = v]
           \/ /\ args' = [args EXCEPT ![r] = Unknown, ![r + 1] = Unknown]
              /\ reg' = [reg EXCEPT ![r] = v, ![r + 1] = junk]
  BY DEF UnOp, BinOp, FoldRight, Compiling
<1>2. \A q \in Regs : args'[q] = Unknown \/ (args'[q] = args[q] /\ reg'[q] = reg[q])
  BY <1>1 DEF TypeOK
<1> QED BY <1>1, <1>2, ForgetTracked, TrackedAfter

LEMMA ConstantTracked ==
  ASSUME TypeOK, Tracked, NEW v \in Value, NEW junk \in Value,
         AllocaConst(v) \/ FoldBoth(v, junk)
  PROVE  Tracked'
<1>1. phase = "compile" /\ UNCHANGED <<stable, home, val>>
  BY DEF AllocaConst, FoldBoth, Compiling, localVars
<1>2. \A q \in Regs : \/ args'[q] = Unknown
                      \/ args'[q] = args[q] /\ reg'[q] = reg[q]
                      \/ args'[q] \in Value /\ reg'[q] = args'[q]
  <2>1. CASE AllocaConst(v)
    BY <2>1 DEF AllocaConst, TypeOK
  <2>2. CASE FoldBoth(v, junk)
    <3>1. argLen - 2 # argLen - 2 + 1
      BY DEF TypeOK
    <3> QED BY <2>2, <3>1 DEF FoldBoth, TypeOK
  <2> QED BY <2>1, <2>2
<1>3. \A l \in Local : stable'[l] => home'[l] = val[l]
  BY <1>1 DEF Tracked
<1> QED BY <1>1, <1>2, <1>3, TrackedAfter

LEMMA BarrierTracked ==
  ASSUME TypeOK, Tracked, Barrier
  PROVE  Tracked'
<1>1. phase = "compile" /\ Forget(Regs) /\ UNCHANGED val
  BY DEF Barrier, Compiling
<1>2. \A r \in Regs : args'[r] = Unknown
  BY DEF Barrier
<1> QED BY <1>1, <1>2, ForgetTracked, TrackedAfter

LEMMA CallWithTracked ==
  ASSUME TypeOK, Tracked, ErrReg <= 0,
         NEW inp, NEW out \in 0 .. NRegs, NEW clob \in SUBSET Regs,
         NEW try \in BOOLEAN, try => out > 0,
         CallWith(inp, out, clob, try)
  PROVE  Tracked'
<1>1. phase = "compile" /\ Forget(clob) /\ UNCHANGED val
  BY DEF CallWith, Compiling
<1>2. PICK f \in [clob -> Value] :
        LET after == [r \in Regs |-> IF r \in clob THEN f[r] ELSE reg[r]]
        IN  reg' = IF try THEN TryRegs(out - 1, after) ELSE after
  BY DEF CallWith
<1>3. reg' = [r \in Regs |-> IF r \in clob THEN f[r] ELSE reg[r]]
  <2>1. try => ~ (ErrReg > out - 1)
    BY NumAssumption DEF ErrReg
  <2> QED BY <1>2, <2>1 DEF TryRegs
<1>4. \A r \in Regs : args'[r] = Unknown \/ (args'[r] = args[r] /\ reg'[r] = reg[r])
  BY <1>3 DEF CallWith, Forgotten
<1> QED BY <1>1, <1>4, ForgetTracked, TrackedAfter

LEMMA CallTracked ==
  ASSUME TypeOK, Tracked, ErrReg <= 0,
         (\E k \in Callee : Call(k)) \/ Recur \/ (\E n \in 0 .. NRegs : CallRaw(n))
  PROVE  Tracked'
<1>1. ASSUME NEW k \in Callee, Call(k) PROVE Tracked'
  <2>1. /\ k.out \in 0 .. NRegs /\ k.clobber \in SUBSET Regs
        /\ (AutoTry /\ k.err) \in BOOLEAN /\ (AutoTry /\ k.err => k.out > 0)
    BY SignatureAssumption DEF CalleeType
  <2> QED BY <1>1, <2>1, CallWithTracked DEF Call
<1>2. CASE Recur
  BY <1>2, CallWithTracked, NumAssumption, SignatureAssumption DEF Recur
<1>3. ASSUME NEW n \in 0 .. NRegs, CallRaw(n) PROVE Tracked'
  BY <1>3, CallWithTracked DEF CallRaw
<1> QED BY <1>1, <1>2, <1>3

LEMMA TryTracked ==
  ASSUME TypeOK, Tracked, ErrReg <= 0, Try
  PROVE  Tracked'
<1>1. phase = "compile" /\ UNCHANGED <<args, stable, home, val>>
  BY DEF Try, Compiling, localVars
<1>2. reg' = reg
  BY NumAssumption DEF Try, TryRegs, TypeOK, ErrReg
<1> QED BY <1>1, <1>2 DEF Tracked

LEMMA NextTracked ==
  ASSUME TypeOK, Tracked, ErrReg <= 0, CompareInPlace = {}, Next
  PROVE  Tracked'
<1>1. ASSUME NEW v \in Value, PushImm(v) \/ AllocReg(v) \/ UnOp(v) \/ BinOp(v)
                               \/ AllocaConst(v)
      PROVE  Tracked'
  BY <1>1, PushTracked, OperationTracked, ConstantTracked
<1>2. ASSUME NEW v \in Value, NEW junk \in Value,
             FoldBoth(v, junk) \/ FoldRight(v, junk)
      PROVE  Tracked'
  BY <1>2, OperationTracked, ConstantTracked
<1>3. ASSUME NEW l \in Local,
             PushHeld(l) \/ PushFromReg(l) \/ PushFromHome(l) \/ Pop(l)
      PROVE  Tracked'
  <2>1. CASE Pop(l)
    <3>1. argLen - 1 \in Regs
      BY <2>1, NumAssumption DEF Pop, TypeOK, Regs
    <3> QED BY <2>1, <3>1, AssignTracked DEF Pop
  <2> QED BY <1>3, <2>1, PushHeldTracked, PushFromRegTracked, PushFromHomeTracked
<1>4. ASSUME NEW l \in Local, NEW r \in Regs, AssignBelow(l, r) PROVE Tracked'
  BY <1>4, AssignTracked DEF AssignBelow
<1>5. ASSUME NEW l \in Local, NEW v \in Value, CompareInto(l, v) PROVE Tracked'
  BY <1>5 DEF CompareInto
<1>6. ASSUME NEW n \in Regs, Discard(n) PROVE Tracked'
  BY <1>6 DEF Discard, Compiling, localVars, machineVars, Tracked
<1>7. CASE Barrier
  BY <1>7, BarrierTracked
<1>8. CASE (\E k \in Callee : Call(k)) \/ Recur \/ (\E n \in 0 .. NRegs : CallRaw(n))
  BY <1>8, CallTracked
<1>9. CASE Try
  BY <1>9, TryTracked
<1>10. CASE End \/ Fixup1 \/ Finish
  BY <1>10 DEF End, Fixup1, Finish, Tracked
<1> QED
  BY <1>1, <1>2, <1>3, <1>4, <1>5, <1>6, <1>7, <1>8, <1>9, <1>10 DEF Next, Compile

LEMMA InitTracked == Init => Tracked
<1> SUFFICES ASSUME Init PROVE Tracked
  OBVIOUS
<1>1. ASSUME NEW r \in Regs, args[r] \in Local PROVE reg[r] = val[args[r]]
  <2>1. r \in InpRegs /\ Param[r] = args[r]
    BY <1>1, DataAssumption DEF Init
  <2>2. args[r] \in Named
    BY <1>1, <2>1 DEF Named
  <2>3. r = CHOOSE i \in InpRegs : Param[i] = args[r]
    BY <1>1, <2>1, SignatureAssumption, DataAssumption
  <2> QED BY <1>1, <2>2, <2>3 DEF Init
<1>2. \A r \in Regs : args[r] \notin Value
  BY SignatureAssumption, DataAssumption DEF Init
<1> QED BY <1>1, <1>2 DEF Tracked, Init

\* The values in the registers and homes are those the compiler tracks.
THEOREM MachineTracked ==
  ASSUME ErrReg <= 0, CompareInPlace = {}
  PROVE  Spec => []Tracked
<1>1. TypeOK /\ Tracked /\ [Next]_vars => Tracked'
  <2>1. CASE UNCHANGED vars
    BY <2>1 DEF Tracked, vars, argVars, localVars, resolveVars, machineVars
  <2> QED BY <2>1, NextTracked
<1> QED BY <1>1, InitTracked, TypeCorrect, PTL DEF Spec

\* Mentioning a local always pushes the value last assigned to it.
THEOREM PushesValue ==
  ASSUME ErrReg <= 0, CompareInPlace = {}
  PROVE  Spec => PushGivesValue
<1> DEFINE Step == \A l \in Local : PushHeld(l) \/ PushFromReg(l) \/ PushFromHome(l)
                                      => reg'[argLen] = val[l]
<1>1. TypeOK /\ Tracked => Step
  BY PushHeldTracked, PushFromRegTracked, PushFromHomeTracked
<1>2. PushGivesValue <=> [][Step]_vars
  BY DEF PushGivesValue
<1> HIDE DEF Step
<1> QED BY <1>1, <1>2, TypeCorrect, MachineTracked, PTL

-----------------------------------------------------------------------------
(* No local is lost, when every callee clobbers its outputs.  A callee which *)
(* returns an input in place does not.                                       *)

OutputsClobbered == \A k \in Callee : 0 .. k.out - 1 \subseteq k.clobber

LEMMA ForgetKeepsPlace ==
  ASSUME TypeOK, LocalHasPlace, UNCHANGED declared,
         NEW S, Forget(S),
         \A r \in Regs \ S : args[r] \in Local => args'[r] = args[r]
  PROVE  LocalHasPlace'
<1> SUFFICES ASSUME NEW l \in declared, ~stable'[l]
             PROVE  \E r \in Regs : args'[r] = l
  BY DEF LocalHasPlace, Holders
<1>1. l \in Local /\ ~stable[l] /\ l \notin Orphans(S)
  BY DEF Forget, TypeOK
<1>2. Holders(l) # {} /\ ~ (Holders(l) \subseteq S)
  BY <1>1 DEF LocalHasPlace, Orphans
<1>3. PICK r \in Regs \ S : args[r] = l
  BY <1>2 DEF Holders
<1> QED BY <1>1, <1>3

LEMMA AssignKeepsPlace ==
  ASSUME TypeOK, LocalHasPlace, NEW l \in Local, NEW r \in Regs, AssignFrom(l, r)
  PROVE  LocalHasPlace'
<1>1. args'[r] = l
  BY DEF AssignFrom
<1>2. ASSUME NEW m \in declared, m # l, ~stable'[m]
      PROVE  \E q \in Regs : args'[q] = m
  <2>1. m \in Local /\ ~stable[m] /\ m \notin Orphans({r})
    BY <1>2 DEF AssignFrom, Reassigned, TypeOK
  <2>2. Holders(m) # {} /\ ~ (Holders(m) \subseteq {r})
    BY <2>1 DEF LocalHasPlace, Orphans
  <2>3. PICK q \in Regs \ {r} : args[q] = m
    BY <2>2 DEF Holders
  <2> QED BY <1>2, <2>3 DEF AssignFrom
<1> QED BY <1>1, <1>2 DEF AssignFrom, LocalHasPlace, Holders

LEMMA NextKeepsPlace ==
  ASSUME TypeOK, LocalHasPlace, OutputsClobbered, Next
  PROVE  LocalHasPlace'
<1>1. ASSUME NEW v \in Value, PushImm(v) \/ AllocReg(v) \/ UnOp(v) \/ BinOp(v)
      PROVE  LocalHasPlace'
  <2>1. PICK r \in {argLen, argLen - 1, argLen - 2} :
          /\ Forget({r}) /\ UNCHANGED declared
          /\ \A q \in Regs \ {r} : args'[q] = args[q]
    BY <1>1 DEF PushImm, AllocReg, UnOp, BinOp, TypeOK
  <2> QED BY <2>1, ForgetKeepsPlace
<1>2. ASSUME NEW v \in Value, NEW junk \in Value, FoldRight(v, junk)
      PROVE  LocalHasPlace'
  <2>1. Forget({argLen - 2}) /\ UNCHANGED declared
    BY <1>2 DEF FoldRight
  <2>2. \A q \in Regs \ {argLen - 2} : args[q] \in Local => args'[q] = args[q]
    BY <1>2, DataAssumption DEF FoldRight, TypeOK
  <2> QED BY <2>1, <2>2, ForgetKeepsPlace
<1>3. ASSUME NEW v \in Value, NEW junk \in Value,
             AllocaConst(v) \/ FoldBoth(v, junk)
      PROVE  LocalHasPlace'
  <2>1. UNCHANGED <<declared, stable>>
    BY <1>3 DEF AllocaConst, FoldBoth, localVars
  <2>2. \A q \in Regs : args[q] \in Local => args'[q] = args[q]
    <3>1. CASE AllocaConst(v)
      BY <3>1, DataAssumption DEF AllocaConst, TypeOK
    <3>2. CASE FoldBoth(v, junk)
      BY <3>2, DataAssumption DEF FoldBoth, TypeOK
    <3> QED BY <1>3, <3>1, <3>2
  <2> QED BY <2>1, <2>2 DEF LocalHasPlace, Holders, TypeOK
<1>4. ASSUME NEW l \in Local, PushHeld(l) PROVE LocalHasPlace'
  BY <1>4 DEF PushHeld, LocalHasPlace, Holders
<1>5. ASSUME NEW l \in Local, PushFromReg(l) PROVE LocalHasPlace'
  <2>1. /\ Forget({argLen}) /\ UNCHANGED declared
        /\ \A q \in Regs \ {argLen} : args'[q] = args[q]
    BY <1>5 DEF PushFromReg, TypeOK
  <2> QED BY <2>1, ForgetKeepsPlace
<1>6. ASSUME NEW l \in Local, PushFromHome(l) PROVE LocalHasPlace'
  <2>1. UNCHANGED declared /\ \A q \in Regs \ {argLen} : args'[q] = args[q]
    BY <1>6 DEF PushFromHome, TypeOK
  <2>2. stable' = [m \in Local |-> stable[m] \/ m \in Orphans({argLen})]
    BY <1>6 DEF PushFromHome
  <2>3. ASSUME NEW m \in declared, ~stable'[m]
        PROVE  \E q \in Regs : args'[q] = m
    <3>1. m \in Local /\ ~stable[m] /\ m \notin Orphans({argLen})
      BY <2>2, <2>3 DEF TypeOK
    <3>2. Holders(m) # {} /\ ~ (Holders(m) \subseteq {argLen})
      BY <3>1 DEF LocalHasPlace, Orphans
    <3>3. PICK q \in Regs \ {argLen} : args[q] = m
      BY <3>2 DEF Holders
    <3> QED BY <2>1, <3>3
  <2> QED BY <2>1, <2>3 DEF LocalHasPlace, Holders
<1>7. ASSUME NEW l \in Local, Pop(l) PROVE LocalHasPlace'
  <2>1. argLen - 1 \in Regs
    BY <1>7, NumAssumption DEF Pop, TypeOK, Regs
  <2> QED BY <1>7, <2>1, AssignKeepsPlace DEF Pop
<1>8. ASSUME NEW l \in Local, NEW r \in Regs, AssignBelow(l, r) PROVE LocalHasPlace'
  BY <1>8, AssignKeepsPlace DEF AssignBelow
<1>9. ASSUME NEW l \in Local, NEW v \in Value, CompareInto(l, v) PROVE LocalHasPlace'
  <2> DEFINE r == argLen - 2
  <2>1. r \in Regs /\ UNCHANGED declared
    BY <1>9, NumAssumption DEF CompareInto, Regs, TypeOK
  <2>2. args'[r] = l
    BY <1>9, <2>1 DEF CompareInto
  <2>3. ASSUME NEW m \in declared, m # l, ~stable'[m]
        PROVE  \E q \in Regs : args'[q] = m
    <3>1. m \in Local /\ ~stable[m] /\ m \notin Orphans({r})
      BY <1>9, <2>3 DEF CompareInto, Reassigned, TypeOK
    <3>2. Holders(m) # {} /\ ~ (Holders(m) \subseteq {r})
      BY <3>1 DEF LocalHasPlace, Orphans
    <3>3. PICK q \in Regs \ {r} : args[q] = m
      BY <3>2 DEF Holders
    <3> QED BY <1>9, <2>3, <3>3 DEF CompareInto
  <2> QED BY <2>1, <2>2, <2>3 DEF LocalHasPlace, Holders
<1>10. ASSUME NEW n \in Regs, Discard(n) PROVE LocalHasPlace'
  BY <1>10 DEF Discard, localVars, LocalHasPlace, Holders
<1>11. CASE Barrier
  BY <1>11, ForgetKeepsPlace DEF Barrier
<1>12. ASSUME NEW inp, NEW out \in 0 .. NRegs, NEW clob \in SUBSET Regs, NEW try,
              0 .. out - 1 \subseteq clob, CallWith(inp, out, clob, try)
       PROVE  LocalHasPlace'
  <2>1. /\ Forget(clob) /\ UNCHANGED declared
        /\ \A r \in Regs \ clob : args'[r] = args[r]
    BY <1>12 DEF CallWith, Forgotten
  <2> QED BY <2>1, ForgetKeepsPlace
<1>13. ASSUME NEW k \in Callee, Call(k) PROVE LocalHasPlace'
  BY <1>12, <1>13, SignatureAssumption DEF Call, CalleeType, OutputsClobbered
<1>14. ASSUME NEW n \in 0 .. NRegs, Recur \/ CallRaw(n) PROVE LocalHasPlace'
  <2>1. 0 .. n - 1 \subseteq Regs /\ 0 .. OutLen - 1 \subseteq Regs
    BY NumAssumption DEF Regs
  <2> QED BY <1>12, <1>14, <2>1, NumAssumption DEF Recur, CallRaw
<1>15. CASE Try \/ End \/ Fixup1 \/ Finish
  BY <1>15
  DEF Try, End, Fixup1, Finish, localVars, argVars, LocalHasPlace, Holders
<1>16. CASE Recur
  BY <1>14, <1>16, NumAssumption
<1> QED
  BY <1>1, <1>2, <1>3, <1>4, <1>5, <1>6, <1>7, <1>8, <1>9, <1>10, <1>11, <1>13,
     <1>14, <1>15, <1>16
  DEF Next, Compile

\* Every declared local is in a register or has an up-to-date home.
THEOREM LocalsHavePlaces ==
  ASSUME OutputsClobbered
  PROVE  Spec => []LocalHasPlace
<1>1. Init => LocalHasPlace
  <2> SUFFICES ASSUME Init, NEW l \in declared PROVE Holders(l) # {}
    BY DEF LocalHasPlace
  <2>1. PICK i \in InpRegs : Param[i] = l
    BY DEF Init, Named
  <2>2. i \in Regs /\ args[i] = l
    BY <2>1, NumAssumption DEF Init, InpRegs, Regs
  <2> QED BY <2>2 DEF Holders
<1>2. TypeOK /\ LocalHasPlace /\ [Next]_vars => LocalHasPlace'
  <2>1. CASE UNCHANGED vars
    BY <2>1 DEF LocalHasPlace, Holders, vars, argVars, localVars
  <2> QED BY <2>1, NextKeepsPlace
<1> QED BY <1>1, <1>2, TypeCorrect, PTL DEF Spec

-----------------------------------------------------------------------------
(* No relocation that a read depends on becomes a nop.                       *)

LEMMA RelocateConfirmed ==
  ASSUME TypeOK, RelocsConfirmed, UNCHANGED read,
         NEW L \in SUBSET Local,
         fix' = fix \cup {Reloc(l, L) : l \in L},
         pending' = [l \in Local |->
           pending[l] \cup (IF l \in L THEN {Reloc(l, L).ord} ELSE {})]
  PROVE  RelocsConfirmed'
<1> SUFFICES ASSUME NEW f \in fix', f.type = "reloc", ~f.confirmed
             PROVE  ~read[f.loc] /\ f.ord \in pending'[f.loc]
  BY DEF RelocsConfirmed
<1>1. CASE f \in fix
  <2>1. f.loc \in Local
    BY <1>1 DEF TypeOK, Fixup
  <2> QED BY <1>1, <2>1 DEF RelocsConfirmed
<1>2. ASSUME NEW l \in L, f = Reloc(l, L)
      PROVE  ~read[f.loc] /\ f.ord \in pending'[f.loc]
  <2>1. f.loc = l /\ f.confirmed = read[l]
    BY <1>2, RankType
  <2> QED BY <1>2, <2>1
<1> QED BY <1>1, <1>2

LEMMA ForgetConfirmed ==
  ASSUME TypeOK, RelocsConfirmed, UNCHANGED read, NEW S, Forget(S)
  PROVE  RelocsConfirmed'
BY OrphansType, RelocateConfirmed DEF Forget, Relocate

LEMMA PushFromHomeConfirmed ==
  ASSUME TypeOK, RelocsConfirmed, NEW l \in Local, PushFromHome(l)
  PROVE  RelocsConfirmed'
<1> DEFINE lost == Orphans({argLen})
           Confirmed(f) ==
             [f EXCEPT !.confirmed = @ \/ (f.type = "reloc" /\ f.ord \in pending[l])]
           Read == [type |-> "read", loc |-> l, confirmed |-> TRUE,
                    ord |-> nfix + Cardinality(lost)]
<1>1. /\ fix' = {Confirmed(f) : f \in fix} \cup {Reloc(m, lost) : m \in lost}
                  \cup {Read}
      /\ pending' = [m \in Local |->
           IF m = l THEN {}
           ELSE pending[m] \cup (IF m \in lost THEN {Reloc(m, lost).ord} ELSE {})]
      /\ read' = [read EXCEPT ![l] = TRUE]
      /\ Holders(l) = {}
  BY DEF PushFromHome
<1>2. lost \in SUBSET Local /\ l \notin lost
  BY <1>1, OrphansType
<1> HIDE DEF lost
<1> SUFFICES ASSUME NEW g \in fix', g.type = "reloc", ~g.confirmed
             PROVE  ~read'[g.loc] /\ g.ord \in pending'[g.loc]
  BY DEF RelocsConfirmed
<1>3. g # Read
  OBVIOUS
<1>4. ASSUME NEW f \in fix, g = Confirmed(f)
      PROVE  ~read'[g.loc] /\ g.ord \in pending'[g.loc]
  <2>1. /\ f.type = "reloc" /\ f.loc \in Local /\ f.loc = g.loc /\ f.ord = g.ord
        /\ ~f.confirmed /\ f.ord \notin pending[l]
    BY <1>4 DEF TypeOK, Fixup
  <2>2. ~read[f.loc] /\ f.ord \in pending[f.loc]
    BY <2>1 DEF RelocsConfirmed
  <2>3. f.loc # l
    BY <2>1, <2>2
  <2> QED BY <1>1, <2>1, <2>2, <2>3 DEF TypeOK
<1>5. ASSUME NEW m \in lost, g = Reloc(m, lost)
      PROVE  ~read'[g.loc] /\ g.ord \in pending'[g.loc]
  <2>1. g.loc = m /\ g.confirmed = read[m] /\ m \in Local /\ m # l
    BY <1>2, <1>5, RankType
  <2> QED BY <1>1, <1>5, <2>1 DEF TypeOK
<1> QED BY <1>1, <1>3, <1>4, <1>5

LEMMA NextConfirmed ==
  ASSUME TypeOK, RelocsConfirmed, Next
  PROVE  RelocsConfirmed'
<1>1. ASSUME NEW v \in Value, NEW junk \in Value,
             \/ PushImm(v) \/ AllocReg(v) \/ UnOp(v) \/ BinOp(v)
             \/ FoldRight(v, junk)
      PROVE  RelocsConfirmed'
  <2>1. UNCHANGED read /\ \E S : Forget(S)
    BY <1>1 DEF PushImm, AllocReg, UnOp, BinOp, FoldRight
  <2> QED BY <2>1, ForgetConfirmed
<1>2. ASSUME NEW v \in Value, NEW junk \in Value,
             AllocaConst(v) \/ FoldBoth(v, junk)
      PROVE  RelocsConfirmed'
  BY <1>2 DEF AllocaConst, FoldBoth, localVars, fixVars, RelocsConfirmed
<1>3. ASSUME NEW l \in Local, PushHeld(l) \/ PushFromReg(l)
      PROVE  RelocsConfirmed'
  <2>1. CASE PushHeld(l)
    BY <2>1 DEF PushHeld, fixVars, RelocsConfirmed
  <2>2. CASE PushFromReg(l)
    BY <2>2, ForgetConfirmed DEF PushFromReg
  <2> QED BY <1>3, <2>1, <2>2
<1>4. ASSUME NEW l \in Local, PushFromHome(l) PROVE RelocsConfirmed'
  BY <1>4, PushFromHomeConfirmed
<1>5. ASSUME NEW l \in Local, NEW r, AssignFrom(l, r) PROVE RelocsConfirmed'
  <2> DEFINE lost == Orphans({r}) \ {l}
  <2>1. lost \in SUBSET Local /\ Relocate(lost) /\ UNCHANGED read
    BY <1>5, OrphansType DEF AssignFrom
  <2> HIDE DEF lost
  <2> QED BY <2>1, RelocateConfirmed DEF Relocate
<1>6. ASSUME NEW l \in Local, NEW v \in Value, CompareInto(l, v)
      PROVE  RelocsConfirmed'
  <2> DEFINE lost == Orphans({argLen - 2})
  <2>1. /\ fix' = fix \cup {Reloc(m, lost) : m \in lost} /\ UNCHANGED read
        /\ pending' = [m \in Local |->
             pending[m] \cup (IF m \in lost THEN {Reloc(m, lost).ord} ELSE {})]
    BY <1>6 DEF CompareInto
  <2>2. lost \in SUBSET Local
    BY OrphansType
  <2> HIDE DEF lost
  <2> QED BY <2>1, <2>2, RelocateConfirmed
<1>7. CASE Barrier
  BY <1>7, ForgetConfirmed DEF Barrier
<1>8. ASSUME NEW inp, NEW out, NEW clob, NEW try, CallWith(inp, out, clob, try)
      PROVE  RelocsConfirmed'
  BY <1>8, ForgetConfirmed DEF CallWith
<1>9. ASSUME Try \/ End \/ Fixup1 \/ Finish \/ \E n \in Regs : Discard(n)
      PROVE  RelocsConfirmed'
  BY <1>9
  DEF Try, End, Fixup1, Finish, Discard, localVars, fixVars, RelocsConfirmed
<1>10. CASE Compile
  <2>1. CASE \E v \in Value : PushImm(v) \/ AllocReg(v) \/ UnOp(v) \/ BinOp(v)
                                \/ AllocaConst(v)
    BY <2>1, <1>1, <1>2
  <2>2. CASE \E v, junk \in Value : FoldBoth(v, junk) \/ FoldRight(v, junk)
    BY <2>2, <1>1, <1>2
  <2>3. CASE \E l \in Local : \/ PushHeld(l) \/ PushFromReg(l)
                               \/ PushFromHome(l) \/ Pop(l)
    BY <2>3, <1>3, <1>4, <1>5 DEF Pop
  <2>4. CASE \E l \in Local, r \in Regs : AssignBelow(l, r)
    BY <2>4, <1>5 DEF AssignBelow
  <2>5. CASE \E l \in Local, v \in Value : CompareInto(l, v)
    BY <2>5, <1>6
  <2>6. CASE \/ \E k \in Callee : Call(k)
             \/ Recur
             \/ \E n \in 0 .. NRegs : CallRaw(n)
    BY <2>6, <1>8 DEF Call, Recur, CallRaw
  <2> QED
    BY <1>10, <1>7, <1>9, <2>1, <2>2, <2>3, <2>4, <2>5, <2>6 DEF Compile
<1> QED BY <1>9, <1>10 DEF Next

\* A relocation left unconfirmed is of a local never read from its home.
THEOREM RelocationsConfirmed == Spec => []RelocsConfirmed
<1>1. Init => RelocsConfirmed
  BY DEF Init, RelocsConfirmed
<1>2. TypeOK /\ RelocsConfirmed /\ [Next]_vars => RelocsConfirmed'
  <2>1. CASE UNCHANGED vars
    BY <2>1 DEF RelocsConfirmed, vars, localVars, fixVars
  <2> QED BY <2>1, NextConfirmed
<1> QED BY <1>1, <1>2, TypeCorrect, PTL DEF Spec

-----------------------------------------------------------------------------
(* Finished words: the clobbers they announce to their callers are complete,   *)
(* and the homes of their locals are apart from each other and from every     *)
(* register their code writes.                                                *)

(* Clobbers.  While the word is compiled, two of its writes are not among    *)
(* them: to the error register, which joins them at the end, and of          *)
(* AllocaConst, whose register has been clobbered by the load of a constant. *)

ErrRegs == IF HasErr THEN {ErrReg} ELSE {}

ClobbersTracked ==
  /\ \A r \in Regs : args[r] \in Value => r \in clobber
  /\ written \subseteq clobber \cup ErrRegs
  /\ phase # "compile" => written \subseteq clobber
  /\ \A l \in Local : location[l] # Unknown /\ location[l].kind = "vol"
                        => location[l].num \in clobber

\* What an operation of the compiler must show.
LEMMA ClobbersAfter ==
  ASSUME ClobbersTracked, Compiling, clobber \subseteq clobber',
         written' \subseteq written \cup clobber' \cup ErrRegs,
         \A r \in Regs : args'[r] \in Value => args'[r] = args[r] \/ r \in clobber'
  PROVE  ClobbersTracked'
BY DEF ClobbersTracked, Compiling, resolveVars, ErrRegs, ErrReg

\* Operations which clobber the one register they write.
LEMMA ClobberOneTracked ==
  ASSUME TypeOK, ClobbersTracked, NEW r, Compiling, Clobber({r}),
         \A q \in Regs : args'[q] \in Value => args'[q] = args[q] \/ q = r
  PROVE  ClobbersTracked'
BY ClobbersAfter DEF Clobber

LEMMA PushClobbers ==
  ASSUME TypeOK, ClobbersTracked, NEW v \in Value, NEW l \in Local,
         PushImm(v) \/ AllocReg(v) \/ PushFromReg(l) \/ PushFromHome(l)
  PROVE  ClobbersTracked'
<1>1. Compiling /\ Clobber({argLen})
  BY DEF PushImm, AllocReg, PushFromReg, PushFromHome
<1>2. \A q \in Regs : args'[q] = args[q] \/ q = argLen
  BY DEF PushImm, AllocReg, PushFromReg, PushFromHome, TypeOK
<1> QED BY <1>1, <1>2, ClobberOneTracked

LEMMA OperationClobbers ==
  ASSUME TypeOK, ClobbersTracked, NEW v \in Value, NEW junk \in Value,
         UnOp(v) \/ BinOp(v) \/ FoldBoth(v, junk) \/ FoldRight(v, junk)
  PROVE  ClobbersTracked'
<1>1. PICK r \in {argLen - 1, argLen - 2} :
        /\ Compiling /\ Clobber({r})
        /\ \E w \in {Unknown, v} :
             \/ args' = [args EXCEPT ![r] = w]
             \/ args' = [args EXCEPT ![r] = w, ![r + 1] = Unknown]
  BY DEF UnOp, BinOp, FoldBoth, FoldRight
<1>2. \A q \in Regs : args'[q] \in Value => args'[q] = args[q] \/ q = r
  BY <1>1, DataAssumption DEF TypeOK
<1> QED BY <1>1, <1>2, ClobberOneTracked

LEMMA AllocaClobbers ==
  ASSUME TypeOK, ClobbersTracked, NEW v \in Value, AllocaConst(v)
  PROVE  ClobbersTracked'
<1> DEFINE r == argLen - 1
<1>1. r \in Regs
  BY NumAssumption DEF AllocaConst, TypeOK, Regs
<1>2. r \in clobber
  BY <1>1 DEF AllocaConst, ClobbersTracked
<1>3. Compiling /\ clobber' = clobber /\ written' = written \cup {r}
  BY DEF AllocaConst
<1>4. \A q \in Regs : args'[q] \in Value => args'[q] = args[q]
  BY DataAssumption DEF AllocaConst, TypeOK
<1> QED BY <1>2, <1>3, <1>4, ClobbersAfter

LEMMA AssignClobbers ==
  ASSUME TypeOK, ClobbersTracked, NEW l \in Local, NEW r \in Regs, AssignFrom(l, r)
  PROVE  ClobbersTracked'
<1>1. Compiling /\ UNCHANGED <<clobber, written>>
  BY DEF AssignFrom
<1>2. \A q \in Regs : args'[q] \in Value => args'[q] = args[q]
  BY DataAssumption DEF AssignFrom, TypeOK
<1> QED BY <1>1, <1>2, ClobbersAfter

LEMMA CompareClobbers ==
  ASSUME TypeOK, ClobbersTracked, NEW l \in Local, NEW v \in Value, CompareInto(l, v)
  PROVE  ClobbersTracked'
<1>1. Compiling /\ Clobber({argLen - 2})
  BY DEF CompareInto
<1>2. \A q \in Regs : args'[q] \in Value => args'[q] = args[q] \/ q = argLen - 2
  BY DataAssumption DEF CompareInto, TypeOK
<1> QED BY <1>1, <1>2, ClobberOneTracked

\* A moved error is written to the error register and nowhere else.
LEMMA CallClobbers ==
  ASSUME TypeOK, ClobbersTracked, NEW inp, NEW out, NEW clob \in SUBSET Regs,
         NEW try \in BOOLEAN, try => HasErr, CallWith(inp, out, clob, try)
  PROVE  ClobbersTracked'
<1>1. Compiling /\ clobber' = clobber \cup clob
  BY DEF CallWith
<1>2. written' \subseteq written \cup clob \cup ErrRegs
  BY DEF CallWith, TryWrites, ErrRegs
<1>3. \A q \in Regs : args'[q] \in Value => args'[q] = args[q]
  BY DataAssumption DEF CallWith, Forgotten
<1> QED BY <1>1, <1>2, <1>3, ClobbersAfter

LEMMA EndClobbers ==
  ASSUME TypeOK, ClobbersTracked, End
  PROVE  ClobbersTracked'
<1>1. argLen = OutLen \/ HasErr
  BY DEF End, ReturnsOutputs
<1>2. /\ clobber' = clobber \cup ErrRegs
      /\ written' \subseteq written \cup ErrRegs
  BY <1>1 DEF End, ErrRegs
<1>3. written' \subseteq clobber'
  BY <1>2 DEF ClobbersTracked
<1>4. UNCHANGED <<args, location>>
  BY DEF End
<1> QED BY <1>2, <1>3, <1>4 DEF ClobbersTracked

\* A home taken from the argument registers becomes a clobber.
LEMMA ResolveClobbers ==
  ASSUME TypeOK, ClobbersTracked, NEW l, Resolve(l)
  PROVE  /\ clobber \subseteq clobber'
         /\ \A m \in Local : location'[m] # Unknown /\ location'[m].kind = "vol"
                               => location'[m].num \in clobber'
<1>1. CASE UNCHANGED <<location, clobber>>
  BY <1>1 DEF ClobbersTracked
<1>2. ASSUME NEW r, location' = [location EXCEPT ![l] = [kind |-> "vol", num |-> r]],
             clobber' = clobber \cup {r}
      PROVE  /\ clobber \subseteq clobber'
             /\ \A m \in Local : location'[m] # Unknown /\ location'[m].kind = "vol"
                                   => location'[m].num \in clobber'
  BY <1>2 DEF ClobbersTracked, TypeOK
<1>3. ASSUME NEW kind \in {"saved", "mem"}, NEW n,
             location' = [location EXCEPT ![l] = [kind |-> kind, num |-> n]],
             clobber' = clobber
      PROVE  /\ clobber \subseteq clobber'
             /\ \A m \in Local : location'[m] # Unknown /\ location'[m].kind = "vol"
                                   => location'[m].num \in clobber'
  BY <1>3 DEF ClobbersTracked, TypeOK
<1> QED BY <1>1, <1>2, <1>3 DEF Resolve

LEMMA NextClobbers ==
  ASSUME TypeOK, ClobbersTracked, Next
  PROVE  ClobbersTracked'
<1>1. ASSUME NEW v \in Value, PushImm(v) \/ AllocReg(v) \/ UnOp(v) \/ BinOp(v)
                               \/ AllocaConst(v)
      PROVE  ClobbersTracked'
  <2>1. CASE PushImm(v) \/ AllocReg(v)
    <3>1. Compiling /\ Clobber({argLen})
      BY <2>1 DEF PushImm, AllocReg
    <3>2. \A q \in Regs : args'[q] = args[q] \/ q = argLen
      BY <2>1 DEF PushImm, AllocReg, TypeOK
    <3> QED BY <3>1, <3>2, ClobberOneTracked
  <2> QED BY <1>1, <2>1, OperationClobbers, AllocaClobbers
<1>2. ASSUME NEW v \in Value, NEW junk \in Value,
             FoldBoth(v, junk) \/ FoldRight(v, junk)
      PROVE  ClobbersTracked'
  BY <1>2, OperationClobbers
<1>3. ASSUME NEW l \in Local,
             PushHeld(l) \/ PushFromReg(l) \/ PushFromHome(l) \/ Pop(l)
      PROVE  ClobbersTracked'
  <2>1. CASE PushHeld(l)
    <3>1. Compiling /\ UNCHANGED <<args, clobber, written>>
      BY <2>1 DEF PushHeld, machineVars
    <3> QED BY <3>1, ClobbersAfter
  <2>2. CASE PushFromReg(l) \/ PushFromHome(l)
    BY <2>2, DataAssumption, PushClobbers
  <2>3. CASE Pop(l)
    <3>1. argLen - 1 \in Regs
      BY <2>3, NumAssumption DEF Pop, TypeOK, Regs
    <3> QED BY <2>3, <3>1, AssignClobbers DEF Pop
  <2> QED BY <1>3, <2>1, <2>2, <2>3
<1>4. ASSUME NEW l \in Local, NEW r \in Regs, AssignBelow(l, r) PROVE ClobbersTracked'
  BY <1>4, AssignClobbers DEF AssignBelow
<1>5. ASSUME NEW l \in Local, NEW v \in Value, CompareInto(l, v)
      PROVE  ClobbersTracked'
  BY <1>5, CompareClobbers
<1>6. ASSUME NEW n \in Regs, Discard(n) PROVE ClobbersTracked'
  <2>1. Compiling /\ UNCHANGED <<args, clobber, written>>
    BY <1>6 DEF Discard, machineVars
  <2> QED BY <2>1, ClobbersAfter
<1>7. CASE Barrier
  <2>1. Compiling /\ UNCHANGED <<clobber, written>> /\ \A r \in Regs : args'[r] = Unknown
    BY <1>7 DEF Barrier
  <2> QED BY <2>1, DataAssumption, ClobbersAfter
<1>8. ASSUME NEW k \in Callee, Call(k) PROVE ClobbersTracked'
  BY <1>8, CallClobbers, SignatureAssumption DEF Call, CalleeType
<1>9. CASE Recur
  BY <1>9, CallClobbers, SignatureAssumption DEF Recur
<1>10. ASSUME NEW n \in 0 .. NRegs, CallRaw(n) PROVE ClobbersTracked'
  BY <1>10, CallClobbers DEF CallRaw
<1>11. CASE Try
  <2>1. Compiling /\ UNCHANGED <<args, clobber>> /\ written' \subseteq written \cup ErrRegs
    BY <1>11 DEF Try, TryWrites, ErrRegs
  <2> QED BY <2>1, ClobbersAfter
<1>12. CASE End
  BY <1>12, EndClobbers
<1>13. CASE Fixup1
  <2>1. UNCHANGED <<args, written>> /\ phase = "fixup"
    BY <1>13 DEF Fixup1, argVars, machineVars
  <2>2. /\ clobber \subseteq clobber'
        /\ \A m \in Local : location'[m] # Unknown /\ location'[m].kind = "vol"
                              => location'[m].num \in clobber'
    <3>1. CASE At(pos).confirmed
      BY <1>13, <3>1, ResolveClobbers DEF Fixup1
    <3>2. CASE ~ At(pos).confirmed
      BY <1>13, <3>2 DEF Fixup1, ClobbersTracked
    <3> QED BY <3>1, <3>2
  <2> QED BY <2>1, <2>2 DEF ClobbersTracked, ErrRegs, ErrReg
<1>14. CASE Finish
  BY <1>14 DEF Finish, argVars, machineVars, ClobbersTracked, ErrRegs, ErrReg
<1> QED
  BY <1>1, <1>2, <1>3, <1>4, <1>5, <1>6, <1>7, <1>8, <1>9, <1>10, <1>11, <1>12,
     <1>13, <1>14
  DEF Next, Compile

LEMMA ClobbersInvariant == Spec => []ClobbersTracked
<1>1. Init => ClobbersTracked
  BY SignatureAssumption, DataAssumption DEF Init, ClobbersTracked
<1>2. TypeOK /\ ClobbersTracked /\ [Next]_vars => ClobbersTracked'
  <2>1. CASE UNCHANGED vars
    BY <2>1
    DEF ClobbersTracked, ErrRegs, ErrReg, vars, argVars, resolveVars, machineVars
  <2> QED BY <2>1, NextClobbers
<1> QED BY <1>1, <1>2, TypeCorrect, PTL DEF Spec

\* The clobbers a finished word announces are all the argument registers its
\* code may write, the homes of its locals included, so that its callers may
\* keep their locals in the others (comp_before_append_call relies on it).
THEOREM ClobbersAnnounced == Spec => []ClobbersComplete
<1>1. ClobbersTracked => ClobbersComplete
  BY DEF ClobbersTracked, ClobbersComplete
<1> QED BY <1>1, ClobbersInvariant, PTL

-----------------------------------------------------------------------------
(* Homes.  The three kinds are handed out one by one: argument registers     *)
(* which are neither parameters nor clobbers, then callee-saved registers    *)
(* and memory slots in order.                                                *)

\* The place loc is not among those still to be handed out.
Taken(loc, free, s, m) ==
  \/ /\ loc.kind = "vol" /\ loc.num \in Regs \ free
     /\ loc.num \notin written \cup InpRegs
  \/ loc.kind = "saved" /\ loc.num < s
  \/ loc.kind = "mem" /\ loc.num < m

HomesTracked ==
  /\ \A l, m \in Local :
       location[l] # Unknown /\ location[m] = location[l] => m = l
  /\ \A l \in Local :
       location[l] # Unknown => Taken(location[l], volRegs, saved, mem)
  /\ phase = "compile" => \A l \in Local : location[l] = Unknown
  /\ phase # "compile" => volRegs \cap (written \cup InpRegs) = {}

\* A step which hands out loc, which was not taken.
LEMMA HandOut ==
  ASSUME TypeOK, HomesTracked, phase # "compile", UNCHANGED <<written, phase>>,
         NEW l, NEW loc \in Location,
         ~Taken(loc, volRegs, saved, mem), Taken(loc, volRegs', saved', mem'),
         location' = [location EXCEPT ![l] = loc],
         volRegs' \subseteq volRegs,
         saved' = saved \/ saved' = saved + 1, mem' = mem \/ mem' = mem + 1
  PROVE  HomesTracked'
<1>1. ASSUME NEW m \in Local, location[m] # Unknown
      PROVE  /\ Taken(location[m], volRegs, saved, mem)
             /\ Taken(location[m], volRegs', saved', mem')
  <2>1. Taken(location[m], volRegs, saved, mem)
    BY <1>1 DEF HomesTracked
  <2>2. location[m] \in [kind : {"vol", "saved", "mem"}, num : Nat]
    BY <1>1 DEF TypeOK, Location
  <2>3. saved \in Nat /\ mem \in Nat
    BY NumAssumption DEF TypeOK
  <2> QED BY <2>1, <2>2, <2>3 DEF Taken
<1>2. ASSUME NEW m \in Local
      PROVE  location'[m] = location[m] \/ (m = l /\ location'[m] = loc)
  BY DEF TypeOK
<1>3. ASSUME NEW m \in Local, location'[m] # Unknown
      PROVE  Taken(location'[m], volRegs', saved', mem')
  BY <1>1, <1>2, <1>3
<1>4. ASSUME NEW m \in Local, NEW n \in Local,
             location'[m] # Unknown, location'[n] = location'[m]
      PROVE  n = m
  BY <1>1, <1>2, <1>4 DEF HomesTracked
<1>5. volRegs' \cap (written' \cup InpRegs) = {}
  BY DEF HomesTracked
<1> QED BY <1>3, <1>4, <1>5 DEF HomesTracked, Taken

LEMMA ResolveHomes ==
  ASSUME TypeOK, HomesTracked, phase # "compile", UNCHANGED <<written, phase>>,
         NEW l, Resolve(l)
  PROVE  HomesTracked'
<1>1. CASE UNCHANGED <<location, volRegs, clobber, saved, mem>>
  BY <1>1 DEF HomesTracked, Taken
<1>2. ASSUME NEW r \in volRegs,
             location' = [location EXCEPT ![l] = [kind |-> "vol", num |-> r]],
             volRegs' = volRegs \ {r}, UNCHANGED <<saved, mem>>
      PROVE  HomesTracked'
  <2> DEFINE loc == [kind |-> "vol", num |-> r]
  <2>1. loc \in Location
    BY DEF TypeOK, Regs, Location
  <2>2. r \notin written \cup InpRegs /\ r \in Regs
    BY DEF HomesTracked, TypeOK
  <2>3. ~Taken(loc, volRegs, saved, mem) /\ Taken(loc, volRegs', saved', mem')
    BY <1>2, <2>2 DEF Taken
  <2> QED BY <1>2, <2>1, <2>3, HandOut
<1>3. ASSUME location' = [location EXCEPT ![l] = [kind |-> "saved", num |-> saved]],
             saved' = saved + 1, UNCHANGED <<volRegs, mem>>
      PROVE  HomesTracked'
  <2> DEFINE loc == [kind |-> "saved", num |-> saved]
  <2>1. loc \in Location /\ saved \in Nat
    BY NumAssumption DEF TypeOK, Location
  <2>2. ~Taken(loc, volRegs, saved, mem) /\ Taken(loc, volRegs', saved', mem')
    BY <1>3, <2>1 DEF Taken
  <2> QED BY <1>3, <2>1, <2>2, HandOut
<1>4. ASSUME location' = [location EXCEPT ![l] = [kind |-> "mem", num |-> mem]],
             mem' = mem + 1, UNCHANGED <<volRegs, saved>>
      PROVE  HomesTracked'
  <2> DEFINE loc == [kind |-> "mem", num |-> mem]
  <2>1. loc \in Location /\ mem \in Nat
    BY DEF TypeOK, Location
  <2>2. ~Taken(loc, volRegs, saved, mem) /\ Taken(loc, volRegs', saved', mem')
    BY <1>4, <2>1 DEF Taken
  <2> QED BY <1>4, <2>1, <2>2, HandOut
<1> QED BY <1>1, <1>2, <1>3, <1>4 DEF Resolve

LEMMA NextHomes ==
  ASSUME TypeOK, ClobbersTracked, HomesTracked, Next
  PROVE  HomesTracked'
<1>1. CASE Compile
  <2>1. Compiling
    BY <1>1
    DEF Compile, PushImm, AllocReg, UnOp, BinOp, AllocaConst, FoldBoth, FoldRight,
        PushHeld, PushFromReg, PushFromHome, Pop, AssignBelow, AssignFrom,
        CompareInto, Discard, Barrier, Call, Recur, CallRaw, CallWith, Try
  <2> QED BY <2>1 DEF Compiling, resolveVars, HomesTracked
<1>2. CASE End
  <2>1. \A l \in Local : location'[l] = Unknown
    BY <1>2 DEF End, HomesTracked
  <2>2. written' \subseteq clobber'
    BY <1>2, EndClobbers DEF ClobbersTracked, End
  <2>3. volRegs' = FreeRegs(clobber') /\ phase' = "fixup"
    BY <1>2 DEF End
  <2> QED BY <2>1, <2>2, <2>3 DEF HomesTracked, FreeRegs
<1>3. CASE Fixup1
  <2>1. phase = "fixup" /\ UNCHANGED <<phase, written>>
    BY <1>3 DEF Fixup1, machineVars
  <2>2. CASE At(pos).confirmed
    BY <1>3, <2>1, <2>2, ResolveHomes DEF Fixup1
  <2>3. CASE ~ At(pos).confirmed
    BY <1>3, <2>1, <2>3 DEF Fixup1, HomesTracked, Taken
  <2> QED BY <2>2, <2>3
<1>4. CASE Finish
  BY <1>4 DEF Finish, machineVars, HomesTracked, Taken
<1> QED BY <1>1, <1>2, <1>3, <1>4 DEF Next

\* No two locals share a home, and a home in an argument register is neither
\* written by the code of the word nor one of its parameters.
THEOREM HomesApart == Spec => []HomesSafe
<1>1. Init => HomesTracked
  BY DEF Init, HomesTracked
<1>2. TypeOK /\ ClobbersTracked /\ HomesTracked /\ [Next]_vars => HomesTracked'
  <2>1. CASE UNCHANGED vars
    BY <2>1 DEF HomesTracked, Taken, vars, resolveVars, machineVars
  <2> QED BY <2>1, NextHomes
<1>3. HomesTracked => HomesSafe
  BY DEF HomesTracked, HomesSafe, Taken
<1> QED BY <1>1, <1>2, <1>3, TypeCorrect, ClobbersInvariant, PTL DEF Spec
=============================================================================
