---- MODULE Code ----
(* Code assembly and the code heaps: prologues and epilogues found out after   *)
(* the body, local homes in registers and frames, fixups of branches, inlining *)
(* by copying, addresses relative to the instruction, and the copy of finished *)
(* code which is executed.  The machine runs finished words beside the meaning *)
(* of their source.                                                            *)
EXTENDS Integers, SequencesExt

CONSTANTS
  Families,   \* kinds of programs: for each word [errs, body], where body has the
              \* tokens of each place, as <<name, operands>>
  Local,      \* numbers of named locals
  StableRegs, \* ASM_STABLE_REG_LEN
  PairMax,    \* ASM_MAX_LOAD_STORE_PAIR_OFF, in cells
  Scale,      \* 2 ^ ASM_ADD_SUB_SCALE bytes, in cells
  InlineLen,  \* ASM_INLINABLE_INSTR_LEN
  Lanes,      \* lanes of a machine word, and their width
  LaneBits,
  AdrPage,    \* reach of the low bits of an address, in instructions
  Got,        \* address of the entry of an intrinsic
  Depth       \* bound on calls in progress

ASSUME CodeAssumption ==
  /\ Local \subseteq Nat /\ StableRegs \in Nat \ {0} /\ PairMax \in Nat \ {0}
  /\ Scale \in Nat \ {0} /\ InlineLen \in Nat /\ Depth \in Nat \ {0}
  /\ Lanes \in Nat \ {0} /\ LaneBits \in Nat \ {0} /\ AdrPage \in Nat \ {0}
  /\ Got \in Nat

VARIABLES
  family, \* what may be compiled
  write,  \* code_write
  exec,   \* code_exec
  valid,  \* valid_instr_len
  words,  \* finished words
  def,    \* the word being compiled, with its Comp_ctx
  pc,     \* machine: 0 when nothing runs
  reg,
  mem,
  acts,   \* meaning: what each call in progress must find at its end
  raised  \* meaning: the error on its way

heapVars == <<write, exec, valid>>
machVars == <<pc, reg, mem, acts, raised>>
vars == <<family, write, exec, valid, words, def, pc, reg, mem, acts, raised>>

----
(* Registers and instructions. *)

ArgReg == 2    \* x0 and x1 hold errors, x2 the argument at hand
GotReg == 8    \* ASM_SCRATCH_REG_8
FirstStable == 19
LastStable == FirstStable + StableRegs - 1
Ctx == 28
FP == 29
LR == 30
SP == 31
Stable == FirstStable .. LastStable
Regs == {0, 1, ArgReg, GotReg, Ctx, FP, LR, SP} \cup Stable

RecordSize == 2                     \* ASM_FRAME_RECORD_SIZE, in cells
StackTop == 1000
OutVal == 77                        \* what an intrinsic returns
Thrown == 1

I(op, r, s, imm) == [op |-> op, r |-> r, s |-> s, imm |-> imm, tag |-> <<"none">>]

\* The meaning of an instruction in the source.
Tagged(instr, tag) == [instr EXCEPT !.tag = tag]

\* imm_signed and its use by the processor.
ImmSigned(v, bits) == v % 2 ^ bits
Signed(field, bits) ==
  IF field >= 2 ^ (bits - 1) THEN field - 2 ^ bits ELSE field

Brk(code) == I("brk", code, 0, 0)
Nop == I("nop", 0, 0, 0)
RetInstr == I("ret", LR, 0, 0)
AddImm(r, s, imm) == I("add", r, s, imm)
SubImm(r, s, imm) == I("sub", r, s, imm)
MovReg(r, s) == I("mov", r, s, 0)
ZeroReg(r) == I("eor", r, r, 0)
Store(r, s, off) == I("str", r, s, off)
LoadScaled(r, s, off) == I("ldr", r, s, off)
LoadUnscaled(r, s, off) == I("ldur", r, s, ImmSigned(off, 9))
StorePre(r, off) == I("str!", r, 0, ImmSigned(off, 9))
LoadPost(r, off) == I("ldr!", r, 0, ImmSigned(off, 9))
Pair(op, r, s, off) == I(op, r, s, ImmSigned(off, 7))
BranchTo(off) == I("b", 0, 0, ImmSigned(off, 26))
BranchLink(off) == I("bl", 0, 0, ImmSigned(off, 26))
CompareBranch(op, r, off) == I(op, r, 0, ImmSigned(off, 19))

WordBits == Lanes * LaneBits
Imm == -(2 ^ (WordBits - 1)) .. 2 ^ (WordBits - 1) - 1

\* One 16-bit lane of a value.
Lane(v, hw) == (v \div 2 ^ (hw * LaneBits)) % 2 ^ LaneBits
LaneMax == 2 ^ LaneBits - 1
LaneIsDefault(neg, lane) == lane = IF neg THEN LaneMax ELSE 0

\* The lanes which need an instruction, at least one.
MovedLanes(v) ==
  LET moved == {hw \in 0 .. Lanes - 1 : ~LaneIsDefault(v < 0, Lane(v, hw))}
  IN  IF moved = {} THEN {0} ELSE moved

\* The n-th instruction of a value: `movz' or `movn' for the first lane, `movk'
\* for the rest.
MovLane(r, v, n) ==
  LET hw == CHOOSE h \in MovedLanes(v) :
              Cardinality({k \in MovedLanes(v) : k < h}) = n - 1
  IN  IF n > 1 THEN I("movk", r, hw, Lane(v, hw))
      ELSE IF v < 0 THEN I("movn", r, hw, LaneMax - Lane(v, hw))
      ELSE I("movz", r, hw, Lane(v, hw))

\* asm_append_imm_to_reg.
ImmToReg(r, v) ==
  [n \in 1 .. Cardinality(MovedLanes(v)) |->
    IF n = Cardinality(MovedLanes(v))
    THEN Tagged(MovLane(r, v, n), <<"imm", v>>) ELSE MovLane(r, v, n)]

\* asm_append_adrp, for the instruction at `at'.
Adrp(r, at, adr) ==
  I("adrp", r, 0, ImmSigned((adr \div AdrPage) - (at \div AdrPage), 21))

\* asm_append_page_addr: no `add' for the beginning of a page.
PageAddr(r, at, adr) ==
  IF adr % AdrPage = 0
  THEN <<Tagged(Adrp(r, at, adr), <<"imm", adr>>)>>
  ELSE <<Adrp(r, at, adr), Tagged(AddImm(r, r, adr % AdrPage), <<"imm", adr>>)>>

PageLoad(r, at, adr) == <<Adrp(r, at, adr), LoadScaled(r, r, adr % AdrPage)>>

----
(* Frames. *)

Even(n) == n + (n % 2)             \* asm_align_sp_off

AlignUp(n, size) == ((n + size - 1) \div size) * size

\* asm_sp_off: what `add' and `sub' can encode.
SpOff(off) == IF Even(off) < Scale THEN Even(off) ELSE AlignUp(Even(off), Scale)

PrologueLen == 3 + Even(StableRegs) \div 2

HasFrame(d) == d.calls \/ SpOff(d.fpOff) > 0 \/ d.alloca
FrameSize(d) == IF SpOff(d.fpOff) > 0 THEN SpOff(d.fpOff) ELSE RecordSize

\* The saved registers in the order in which the prologue is filled, from its
\* end: pairs from the last one down, a single one for the first.
SavedPairs(saved) ==
  IF saved < FirstStable THEN <<>>
  ELSE [n \in 1 .. (saved - FirstStable + 1) \div 2 |-> saved - 2 * (n - 1)]
SavedSingle(saved) == saved >= FirstStable /\ (saved - FirstStable) % 2 = 0

FramePush(off) ==
  IF off <= PairMax
  THEN <<Pair("stp!", FP, LR, -off), AddImm(FP, SP, 0)>>
  ELSE <<SubImm(SP, SP, off), Pair("stp", FP, LR, 0), AddImm(FP, SP, 0)>>

FramePop(off) ==
  IF off <= PairMax
  THEN <<Pair("ldp!", FP, LR, off)>>
  ELSE <<AddImm(SP, SP, off), Pair("ldp", FP, LR, 0)>>

\* asm_fixup_sym_prologue.
Prologue(d) ==
  LET pairs == SavedPairs(d.saved) IN
  (IF SavedSingle(d.saved) THEN <<StorePre(FirstStable, -2)>> ELSE <<>>)
  \o [n \in DOMAIN pairs |->
       LET r == pairs[Len(pairs) + 1 - n] IN Pair("stp!", r - 1, r, -2)]
  \o (IF HasFrame(d) THEN FramePush(FrameSize(d)) ELSE <<>>)

\* Mutant: an allocation on the stack is not undone.
EpilogueKeepsAlloca(d) ==
  LET pairs == SavedPairs(d.saved) IN
  (IF HasFrame(d) THEN FramePop(FrameSize(d)) ELSE <<>>)
  \o [n \in DOMAIN pairs |-> Pair("ldp!", pairs[n] - 1, pairs[n], 2)]
  \o (IF SavedSingle(d.saved) THEN <<LoadPost(FirstStable, 2)>> ELSE <<>>)

\* asm_append_sym_epilogue.
Epilogue(d) ==
  LET pairs == SavedPairs(d.saved) IN
  (IF HasFrame(d) /\ d.alloca THEN <<AddImm(SP, FP, 0)>> ELSE <<>>)
  \o (IF HasFrame(d) THEN FramePop(FrameSize(d)) ELSE <<>>)
  \o [n \in DOMAIN pairs |-> Pair("ldp!", pairs[n] - 1, pairs[n], 2)]
  \o (IF SavedSingle(d.saved) THEN <<LoadPost(FirstStable, 2)>> ELSE <<>>)

----
(* Compilation. *)

NoDef == [w |-> 0, len |-> 0]

\* asm_sym_beg, after comp_ctx_trunc.
Begin(err) ==
  /\ pc = 0 /\ def = NoDef /\ Len(words) < Len(family)
  /\ err \in family[Len(words) + 1].errs
  /\ write' = write \o [n \in 1 .. PrologueLen |-> Brk("prologue")]
  /\ def' = [w |-> Len(words) + 1, err |-> err, len |-> 0,
             prologue |-> Len(write) + 1, inner |-> Len(write) + 1 + PrologueLen,
             fixes |-> <<>>, locfix |-> <<>>,
             homes |-> [k \in Local |-> <<"unknown">>], fpOff |-> 0, saved |-> 0,
             alloca |-> FALSE, loads |-> FALSE, calls |-> FALSE]
  /\ UNCHANGED <<family, exec, valid, words, machVars>>

\* The tokens which may come next.
Tokens ==
  IF pc = 0 /\ def # NoDef /\ def.len < Len(family[def.w].body)
  THEN family[def.w].body[def.len + 1] ELSE {}

Next1 == Len(write) + 1     \* comp_code_next_prog_counter

Emit(code, d) ==
  /\ write' = write \o code
  /\ def' = [d EXCEPT !.len = @ + 1]

Straight == UNCHANGED <<family, exec, valid, words, machVars>>

LocFix(type, at, k, r) == [type |-> type, at |-> at, loc |-> k, reg |-> r]
Fix(type, at, r) == [type |-> type, at |-> at, reg |-> r]

\* A constant assigned to a local, whose register is taken at once.
SetLocal(k, v) ==
  /\ LET code == ImmToReg(ArgReg, v) IN
     Emit(Append(code, Brk("reloc")),
          [def EXCEPT !.locfix =
             Append(@, LocFix("reloc", Next1 + Len(code), k, ArgReg))])
  /\ Straight

\* A parameter whose register is taken before anything else is compiled.
Param(k) ==
  /\ k - 1 \in {0, 1} /\ Next1 = def.inner + Len(def.locfix)
  /\ Emit(<<Brk("reloc")>>,
          [def EXCEPT !.locfix = Append(@, LocFix("reloc", Next1, k, k - 1))])
  /\ Straight

Assigned(k) == \E i \in DOMAIN def.locfix : def.locfix[i].loc = k

\* comp_append_local_read.
GetLocal(k) ==
  /\ Assigned(k)
  /\ Emit(<<Brk("read")>>,
          [def EXCEPT !.locfix = Append(@, LocFix("read", Next1, k, ArgReg))])
  /\ Straight

\* comp_alloca_const and comp_alloca_dynamic, the size in the argument.
AllocaConst(n) ==
  /\ Emit(<<SubImm(ArgReg, SP, Even(n)), AddImm(SP, ArgReg, 0)>>,
          [def EXCEPT !.alloca = TRUE])
  /\ Straight

AllocaDynamic ==
  /\ Last(write) = Brk("read")
  /\ Emit(<<I("subx", ArgReg, SP, ArgReg), I("and", ArgReg, ArgReg, 0),
            AddImm(SP, ArgReg, 0)>>,
          [def EXCEPT !.alloca = TRUE])
  /\ Straight

\* comp_append_page_addr.
LoadAddr(adr) ==
  /\ Emit(PageAddr(ArgReg, Next1, adr), [def EXCEPT !.loads = TRUE])
  /\ Straight

\* Mutant: the branch over a throw is too short.
TryCodeShort(tar, src, at) ==
  IF tar = src
  THEN [code |-> <<Brk("try")>>, fix |-> Fix("try", at, tar)]
  ELSE IF tar > src
  THEN [code |-> <<MovReg(tar, src), Brk("try")>>, fix |-> Fix("try", at + 1, tar)]
  ELSE [code |-> <<CompareBranch("cbz", src, 2), MovReg(tar, src), Brk("throw")>>,
        fix |-> Fix("throw", at + 2, tar)]

\* asm_append_try at `at': the code, and the fixup it needs.
TryCode(tar, src, at) ==
  IF tar = src
  THEN [code |-> <<Brk("try")>>, fix |-> Fix("try", at, tar)]
  ELSE IF tar > src
  THEN [code |-> <<MovReg(tar, src), Brk("try")>>, fix |-> Fix("try", at + 1, tar)]
  ELSE [code |-> <<CompareBranch("cbz", src, 3), MovReg(tar, src), Brk("throw")>>,
        fix |-> Fix("throw", at + 2, tar)]

\* What follows a call: comp_append_auto_try if both words have errors.
WithTry(code, calleeErr, d) ==
  LET try == TryCode(d.err, calleeErr, Next1 + Len(code)) IN
  IF d.err >= 0 /\ calleeErr >= 0
  THEN Emit(code \o try.code, [d EXCEPT !.fixes = Append(@, try.fix)])
  ELSE Emit(code, d)

Ready(w) == Len(exec) >= words[w].ceil - 1

\* Mutant: unfinished code is copied as well.
SyncedAll == exec \o SubSeq(write, Len(exec) + 1, Len(write))

\* comp_code_sync.
Synced == exec \o SubSeq(write, Len(exec) + 1, valid)

\* comp_code_ensure_sym_ready.
EnsureReady(w) == exec' = IF Ready(w) THEN exec ELSE Synced

\* asm_inline_sym.  To a word without an error that of another is a value.
Inlined(w) ==
  LET code == SubSeq(write, words[w].prologue, words[w].ret - 1) IN
  [i \in DOMAIN code |->
    IF def.err < 0 /\ code[i].tag = <<"throw">>
    THEN Tagged(code[i], <<"none">>) ELSE code[i]]

\* comp_append_call_norm.
Call(w) ==
  /\ IF words[w].inlinable
     THEN WithTry(Inlined(w), words[w].err, def) /\ UNCHANGED exec
     ELSE /\ WithTry(<<BranchLink(words[w].prologue - Next1)>>, words[w].err,
                     [def EXCEPT !.calls = TRUE])
          /\ EnsureReady(w)
  /\ UNCHANGED <<family, valid, words, machVars>>

\* comp_append_call_intrin, of an intrinsic with an output and an error.
CallIntrin ==
  /\ LET beg == <<MovReg(0, Ctx), SubImm(SP, SP, 2), AddImm(1, SP, 0)>>
         end == <<I("blr", GotReg, 0, 0), AddImm(SP, SP, 2), MovReg(1, 0),
                  Tagged(LoadUnscaled(0, SP, -2), <<"out">>)>>
     IN  WithTry(beg \o PageLoad(GotReg, Next1 + Len(beg), Got) \o end, 1,
                 [def EXCEPT !.calls = TRUE])
  /\ Straight

\* `.then ... end' around an exit: a branch which may be taken.
Maybe(code) == <<I("b.cond", 0, 0, ImmSigned(Len(code) + 1, 19))>> \o code

ZeroErr(d) == IF d.err >= 0 THEN <<ZeroReg(d.err)>> ELSE <<>>

Recur ==
  /\ LET try == TryCode(def.err, def.err, Next1 + 2)
         code == IF def.err >= 0 THEN <<Brk("recur")>> \o try.code ELSE <<Brk("recur")>>
         fix == Fix("recur", Next1 + 1, 0)
     IN  Emit(Maybe(code),
              [def EXCEPT !.calls = TRUE,
                          !.fixes = @ \o (IF def.err >= 0 THEN <<fix, try.fix>>
                                                          ELSE <<fix>>)])
  /\ Straight

\* comp_append_ret, after comp_before_append_ret.
Ret ==
  /\ LET code == Append(ZeroErr(def), Brk("ret")) IN
     Emit(Maybe(code),
          [def EXCEPT !.fixes = Append(@, Fix("ret", Next1 + Len(code), 0))])
  /\ Straight

\* comp_append_throw of an error in the first register.
Throw ==
  /\ def.err >= 0
  /\ LET code == ImmToReg(0, Thrown)
                 \o (IF def.err # 0 THEN <<MovReg(def.err, 0)>> ELSE <<>>)
                 \o <<Tagged(Brk("throw"), <<"throw">>)>>
     IN  Emit(Maybe(code),
              [def EXCEPT !.fixes = Append(@, Fix("throw", Next1 + Len(code), 0))])
  /\ Straight

Compile(t) ==
  \/ t[1] = "set" /\ SetLocal(t[2], t[3])
  \/ t[1] = "param" /\ Param(t[2])
  \/ t[1] = "get" /\ GetLocal(t[2])
  \/ t[1] = "alloca" /\ AllocaConst(t[2])
  \/ t[1] = "alloca_dynamic" /\ AllocaDynamic
  \/ t[1] = "adr" /\ LoadAddr(t[2])
  \/ t[1] = "call" /\ t[2] \in DOMAIN words /\ Call(t[2])
  \/ t[1] = "intrin" /\ CallIntrin
  \/ t[1] = "recur" /\ Recur
  \/ t[1] = "ret" /\ Ret
  \/ t[1] = "throw" /\ Throw

----
(* The end of a word. *)

\* A read confirms the relocations before and after it.
Confirmed(d, k) ==
  \E i \in DOMAIN d.locfix : d.locfix[i].type = "read" /\ d.locfix[i].loc = k

\* Mutant: the first callee-saved register is taken for granted.
ResolveFirst(d, k) ==
  IF d.homes[k] # <<"unknown">> THEN d
  ELSE IF d.saved <= LastStable
  THEN [d EXCEPT !.saved = FirstStable, !.homes[k] = <<"reg", FirstStable>>]
  ELSE LET off == IF d.fpOff = 0 THEN RecordSize ELSE d.fpOff
       IN  [d EXCEPT !.fpOff = off + 1, !.homes[k] = <<"mem", off>>]

\* asm_resolve_local_location and comp_local_alloc_mem, when no volatile register
\* is left.
Resolve(d, k) ==
  IF d.homes[k] # <<"unknown">> THEN d
  ELSE IF d.saved < LastStable
  THEN LET r == IF d.saved = 0 THEN FirstStable ELSE d.saved + 1
       IN  [d EXCEPT !.saved = r, !.homes[k] = <<"reg", r>>]
  ELSE LET off == IF d.fpOff = 0 THEN RecordSize ELSE d.fpOff
       IN  [d EXCEPT !.fpOff = off + 1, !.homes[k] = <<"mem", off>>]

LocalRead(d, k, r) ==
  Tagged(IF d.homes[k][1] = "reg" THEN MovReg(r, d.homes[k][2])
         ELSE LoadScaled(r, FP, d.homes[k][2]), <<"read", d.w, k>>)

LocalWrite(d, k, r) ==
  Tagged(IF d.homes[k][1] = "reg" THEN MovReg(d.homes[k][2], r)
         ELSE Store(r, FP, d.homes[k][2]), <<"write", d.w, k>>)

\* Mutant: an unneeded write is skipped wherever it is.
FixLocalSkips(s, fix) ==
  LET d == Resolve(s.d, fix.loc) IN
  IF fix.type = "read"
  THEN [code |-> [s.code EXCEPT ![fix.at] = LocalRead(d, fix.loc, fix.reg)], d |-> d]
  ELSE IF Confirmed(s.d, fix.loc)
  THEN [code |-> [s.code EXCEPT ![fix.at] = LocalWrite(d, fix.loc, fix.reg)], d |-> d]
  ELSE [code |-> [s.code EXCEPT ![fix.at] = Brk("prologue")],
        d |-> [s.d EXCEPT !.prologue = @ + 1, !.inner = @ + 1]]

\* asm_fixup_locals, for one fixup.
FixLocal(s, fix) ==
  LET d == Resolve(s.d, fix.loc) IN
  IF fix.type = "read"
  THEN [code |-> [s.code EXCEPT ![fix.at] = LocalRead(d, fix.loc, fix.reg)], d |-> d]
  ELSE IF Confirmed(s.d, fix.loc)
  THEN [code |-> [s.code EXCEPT ![fix.at] = LocalWrite(d, fix.loc, fix.reg)], d |-> d]
  ELSE IF fix.at = s.d.inner  \* asm_skipped_prologue_instr
  THEN [code |-> [s.code EXCEPT ![fix.at] = Brk("prologue")],
        d |-> [s.d EXCEPT !.prologue = @ + 1, !.inner = @ + 1]]
  ELSE [code |-> [s.code EXCEPT ![fix.at] = Nop], d |-> s.d]

\* asm_fixup_locals: the code and the word after each of the fixups.
FixingLocals(s, fixes) ==
  LET fixed[n \in 0 .. Len(fixes)] ==
        IF n = 0 THEN s ELSE FixLocal(fixed[n - 1], fixes[n])
  IN  fixed

\* Mutant: the offset to the epilogue has the wrong sign.
FixBranchBack(code, fix, pro, epi) ==
  LET instr == CASE fix.type = "recur" -> BranchLink(pro - fix.at)
                 [] fix.type = "try" -> CompareBranch("cbnz", fix.reg, epi - fix.at)
                 [] OTHER -> BranchTo(fix.at - epi)
  IN  [code EXCEPT ![fix.at] = Tagged(instr, @.tag)]

\* asm_fixup, for one fixup of a word which begins at pro and ends at epi.
FixBranch(code, fix, pro, epi) ==
  LET instr == CASE fix.type = "recur" -> BranchLink(pro - fix.at)
                 [] fix.type = "try" -> CompareBranch("cbnz", fix.reg, epi - fix.at)
                 [] OTHER -> BranchTo(epi - fix.at)
  IN  [code EXCEPT ![fix.at] = Tagged(instr, @.tag)]

\* asm_fixup: the code after each of the fixups.
FixingBranches(code, fixes, pro, epi) ==
  LET fixed[n \in 0 .. Len(fixes)] ==
        IF n = 0 THEN code ELSE FixBranch(fixed[n - 1], fixes[n], pro, epi)
  IN  fixed

\* Mutant: code with addresses relative to the instruction is copied.
InlinableLoads(d, epi) == ~d.calls /\ epi - d.inner <= InlineLen

\* sym_auto_inlinable.
Inlinable(d, epi) == ~d.loads /\ ~d.calls /\ epi - d.inner <= InlineLen

\* intrin_semicolon with asm_sym_end.
End ==
  /\ pc = 0 /\ def # NoDef /\ def.len = Len(family[def.w].body)
  /\ LET body == FixingLocals([code |-> write \o ZeroErr(def), d |-> def],
                              def.locfix)[Len(def.locfix)]
         d == body.d
         pro == Prologue(d)
         beg == d.inner - Len(pro)
         epi == Len(body.code) + 1
         code == [i \in DOMAIN body.code |->
                   IF i \in beg .. d.inner - 1 THEN pro[i - beg + 1] ELSE body.code[i]]
                 \o Append(Epilogue(d), RetInstr)
     IN  /\ write' = FixingBranches(code, d.fixes, beg, epi)[Len(d.fixes)]
         /\ valid' = Len(code)
         /\ words' = Append(words,
              [err |-> d.err, prologue |-> beg, ret |-> Len(code),
               ceil |-> Len(code) + 1, leaf |-> ~d.calls,
               inlinable |-> Inlinable(d, epi)])
  /\ def' = NoDef
  /\ UNCHANGED <<family, exec, machVars>>

\* interp_rewind: the instructions stay.  At most one failure between two
\* finished words, after the first token.
Fail ==
  /\ pc = 0 /\ def.len = 1 /\ valid > 0 /\ def.prologue = valid + 1
  /\ def' = NoDef
  /\ UNCHANGED <<family, heapVars, words, machVars>>

----
(* The machine, and what the source means. *)

Idle ==
  /\ pc' = 0 /\ acts' = <<>> /\ raised' = 0
  /\ reg' = [r \in Regs |-> 0] /\ mem' = <<>>

Act(w, ret, regs) ==
  [w |-> w, ret |-> ret, sp |-> regs[SP], fp |-> regs[FP],
   stable |-> [r \in Stable |-> regs[r]],
   locals |-> [x \in (DOMAIN family) \X Local |-> 0]]

Caller == [r \in Regs |-> IF r = SP THEN StackTop ELSE IF r = LR THEN 0 ELSE r]

\* interp_call_norm and asm_call_norm; what the caller has in its registers is
\* told apart by their numbers.  Of a program only the last word is run, at the
\* end or while the next one is compiled.
Run(w) ==
  /\ pc = 0 /\ w = Len(words)
  /\ def.len = 0 /\ (def = NoDef => Len(words) = Len(family))
  /\ EnsureReady(w)
  /\ pc' = words[w].prologue
  /\ reg' = Caller
  /\ acts' = <<Act(w, 0, Caller)>>
  /\ raised' = 0
  /\ UNCHANGED <<family, write, valid, words, def, mem>>

Running == pc \in DOMAIN exec
Cur == exec[pc]
Top == Last(acts)
Op(ops) == Running /\ Cur.op \in ops
\* Memory never written holds its own address.
Content(a) == IF a \in DOMAIN mem THEN mem[a] ELSE a
Goto(to) == pc' = to
Fallthrough == Goto(pc + 1)

SignedWord(v) == Signed(v % 2 ^ WordBits, WordBits)

\* What the instruction puts into its register.
Result ==
  LET r == reg[Cur.r]
      s == reg[Cur.s]
      at(hw) == 2 ^ (hw * LaneBits)
  IN  CASE Cur.op = "add" -> s + Cur.imm
        [] Cur.op = "sub" -> s - Cur.imm
        [] Cur.op = "subx" -> s - r
        [] Cur.op = "and" -> r - (r % 2)
        [] Cur.op = "mov" -> s
        [] Cur.op = "eor" -> 0
        [] Cur.op = "movz" -> Cur.imm * at(Cur.s)
        [] Cur.op = "movn" -> -1 - Cur.imm * at(Cur.s)
        [] Cur.op = "movk" -> SignedWord(r + (Cur.imm - Lane(r, Cur.s)) * at(Cur.s))
        [] Cur.op = "adrp" -> (pc \div AdrPage + Signed(Cur.imm, 21)) * AdrPage
        [] Cur.op = "ldr" -> Content(s + Cur.imm)
        [] Cur.op = "ldur" -> Content(s + Signed(Cur.imm, 9))

ToRegister ==
  {"add", "sub", "subx", "and", "mov", "eor", "movz", "movn", "movk", "adrp",
   "ldr", "ldur"}

\* An assignment of the source.
Assign(v) ==
  acts' = IF Cur.tag[1] = "write"
          THEN [acts EXCEPT ![Len(acts)].locals[<<Cur.tag[2], Cur.tag[3]>>] = v]
          ELSE acts

Compute ==
  /\ Op(ToRegister)
  /\ reg' = [reg EXCEPT ![Cur.r] = Result]
  /\ Assign(reg[Cur.s])
  /\ Fallthrough
  /\ UNCHANGED <<family, heapVars, words, def, mem, raised>>

StoreLocal ==
  /\ Op({"str"})
  /\ mem' = (reg[Cur.s] + Cur.imm :> reg[Cur.r]) @@ mem
  /\ Assign(reg[Cur.r])
  /\ Fallthrough
  /\ UNCHANGED <<family, heapVars, words, def, reg, raised>>

\* Stores and loads which move the stack pointer, before or after.
Push ==
  /\ Op({"stp!", "stp", "str!"})
  /\ LET off == Signed(Cur.imm, IF Cur.op = "str!" THEN 9 ELSE 7)
         sp == reg[SP] + off
     IN  /\ mem' = IF Cur.op = "str!" THEN (sp :> reg[Cur.r]) @@ mem
                   ELSE (sp :> reg[Cur.r] @@ sp + 1 :> reg[Cur.s]) @@ mem
         /\ reg' = IF Cur.op = "stp" THEN reg ELSE [reg EXCEPT ![SP] = sp]
  /\ Fallthrough
  /\ UNCHANGED <<family, heapVars, words, def, acts, raised>>

Pop ==
  /\ Op({"ldp!", "ldp", "ldr!"})
  /\ LET off == Signed(Cur.imm, IF Cur.op = "ldr!" THEN 9 ELSE 7)
         sp == reg[SP] + IF Cur.op = "ldp" THEN off ELSE 0
     IN  reg' = [r \in Regs |->
           IF r = Cur.r THEN Content(sp)
           ELSE IF r = Cur.s /\ Cur.op # "ldr!" THEN Content(sp + 1)
           ELSE IF r = SP /\ Cur.op # "ldp" THEN sp + off
           ELSE reg[r]]
  /\ Fallthrough
  /\ UNCHANGED <<family, heapVars, words, def, mem, acts, raised>>

\* A branch whose condition is in the program may go either way.
Branch ==
  /\ Op({"b", "cbz", "cbnz", "b.cond", "nop"})
  /\ \E taken \in BOOLEAN :
       /\ CASE Cur.op = "b" -> taken
            [] Cur.op = "nop" -> ~taken
            [] Cur.op = "cbz" -> taken <=> reg[Cur.r] = 0
            [] Cur.op = "cbnz" -> taken <=> reg[Cur.r] # 0
            [] Cur.op = "b.cond" -> TRUE
       /\ Goto(IF taken
               THEN pc + Signed(Cur.imm, IF Cur.op = "b" THEN 26 ELSE 19)
               ELSE pc + 1)
  /\ raised' = IF Cur.tag = <<"throw">> THEN Thrown ELSE raised
  /\ UNCHANGED <<family, heapVars, words, def, reg, mem, acts>>

CallWord ==
  /\ Op({"bl"}) /\ Len(acts) < Depth
  /\ LET to == pc + Signed(Cur.imm, 26)
         w == CHOOSE i \in 0 .. Len(words) :
                IF \E j \in DOMAIN words : words[j].prologue = to
                THEN i > 0 /\ words[i].prologue = to ELSE i = 0
     IN  /\ w > 0
         /\ Goto(to)
         /\ reg' = [reg EXCEPT ![LR] = pc + 1]
         /\ acts' = Append(acts, Act(w, pc + 1, reg))
  /\ raised' = 0
  /\ UNCHANGED <<family, heapVars, words, def, mem>>

TooDeep ==
  /\ Op({"bl"}) /\ Len(acts) = Depth
  /\ Idle
  /\ UNCHANGED <<family, heapVars, words, def>>

\* An intrinsic stores its output where it is told to, returns an error or none,
\* and leaves nothing in the volatile registers and below the stack.
CallOut ==
  /\ Op({"blr"})
  /\ \E err \in {0, Thrown} :
       /\ mem' = (reg[1] :> OutVal)
                 @@ Restrict(mem, {a \in DOMAIN mem : a >= reg[SP]})
       /\ reg' = [reg EXCEPT ![0] = err, ![1] = 0, ![ArgReg] = 0, ![GotReg] = 0,
                             ![LR] = pc + 1]
       /\ raised' = err
  /\ Fallthrough
  /\ UNCHANGED <<family, heapVars, words, def, acts>>

Return ==
  /\ Op({"ret"})
  /\ IF Len(acts) = 1 THEN Idle
     ELSE /\ Goto(reg[LR])
          /\ acts' = Front(acts)
          /\ raised' = IF words[Top.w].err >= 0 THEN raised ELSE 0
          /\ UNCHANGED <<reg, mem>>
  /\ UNCHANGED <<family, heapVars, words, def>>

Step ==
  \/ Compute \/ StoreLocal \/ Push \/ Pop \/ Branch \/ CallWord \/ TooDeep
  \/ CallOut \/ Return

----
Init ==
  /\ family \in Families
  /\ write = <<>> /\ exec = <<>> /\ valid = 0
  /\ words = <<>> /\ def = NoDef
  /\ pc = 0 /\ acts = <<>> /\ raised = 0
  /\ reg = [r \in Regs |-> 0] /\ mem = <<>>

Next ==
  \/ \E err \in {-1, 0, 1} : Begin(err)
  \/ \E t \in Tokens : Compile(t)
  \/ \E w \in DOMAIN words : Run(w)
  \/ End \/ Fail
  \/ Step

Spec == Init /\ [][Next]_vars

\* The processor does not stop between two instructions.
FairSpec == Spec /\ WF_vars(Step)

----
(* Properties. *)

\* The executable heap holds what is in the writable one, so that no finished
\* instruction is patched after it was copied, whatever is compiled, given up or
\* run in between (comp_code_sync).
ExecIsWritten == Len(exec) <= Len(write) /\ exec = SubSeq(write, 1, Len(exec))

\* Nothing runs into a placeholder, out of the code which was copied, or into a
\* call of something which is not a word.
NoTrap ==
  pc # 0 =>
    /\ Running /\ Cur.op # "brk"
    /\ Cur.op = "bl" =>
         \E w \in DOMAIN words : words[w].prologue = pc + Signed(Cur.imm, 26)

AtReturn == Op({"ret"})

\* A word returns to its call, with the stack, the frame and the callee-saved
\* registers of the caller, whatever it saved, allocated, called or inlined.
FramesRestored ==
  AtReturn =>
    /\ reg[LR] = Top.ret /\ reg[SP] = Top.sp /\ reg[FP] = Top.fp
    /\ \A r \in Stable : reg[r] = Top.stable[r]

\* Reading a local gives what was last assigned to it in this call, over calls,
\* recursion, allocation on the stack and inlined words with locals of their own.
LocalsKept ==
  Running /\ Cur.tag[1] = "read" => Result = Top.locals[<<Cur.tag[2], Cur.tag[3]>>]

\* Constants, addresses of data and outputs of intrinsics arrive in registers as
\* they are in the source, in the word and wherever it is inlined.
ValuesArrive ==
  Running =>
    /\ Cur.tag[1] = "imm" => Result = Cur.tag[2]
    /\ Cur.tag[1] = "out" => Result = OutVal
    /\ Cur.op = "blr" => reg[Cur.r] = Got

\* A word with an error goes no further with an error on its way, and returns
\* the error, or none, in the register its callers look at.
ErrorsPropagate ==
  Running /\ words[Top.w].err >= 0 =>
    /\ Cur.tag[1] \in {"imm", "read", "write"} => raised = 0
    /\ AtReturn => reg[words[Top.w].err] = raised

\* A word without loops returns, whatever branches it takes: no branch goes back,
\* or to an instruction which does not follow.
Terminates == pc # 0 ~> pc = 0

====
