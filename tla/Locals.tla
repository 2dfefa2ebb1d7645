------------------------------- MODULE Locals -------------------------------
(***************************************************************************)
(* The register calling convention of the compiler: how the compilation    *)
(* context of one word (comp/comp_cc_reg.c) tracks which local, or which   *)
(* constant, each argument register holds, and when it relocates a local   *)
(* from the argument registers to its stable home.                         *)
(*                                                                         *)
(* The compiler makes a single forward pass, so that the code it emits is  *)
(* never looked at again.  The model runs the emitted code along with the  *)
(* compilation: `reg', `home' and `val' are the machine, everything else   *)
(* is the compiler.  One behaviour is one straight-line path through one   *)
(* word, from its first token to the end of its fixups.  A `{ a b }' with  *)
(* several names is one step per name, as in the loop of intrin_brace.     *)
(*                                                                         *)
(* Whether a constant may still be folded depends on where its code is,    *)
(* which is not modelled here (Control does); a fold may succeed or not.   *)
(***************************************************************************)
EXTENDS Integers, FiniteSets

CONSTANTS
  NRegs,      \* ASM_ARG_LEN_MAX: argument registers x0 .. x(NRegs-1)
  NSaved,     \* callee-saved registers usable as homes (x19 .. x27)
  Local,      \* names of the word's locals
  Value,      \* machine words, 0 among them
  Unknown,    \* COMP_ARG_UNKNOWN, LOC_UNKNOWN, and the discarded parameter `_'
  InpLen,     \* sym->inp_len
  OutLen,     \* sym->out_len
  HasErr,     \* sym->has_err: the last output is an error
  AutoTry,    \* ctx->auto_try: that output is named `err'
  Param,      \* Param[i] is the local declared for input parameter i
  Callee,     \* finished words: [inp, out, err, clobber]
  CompareInPlace, \* the locals the program names after `=:' or `<>:'
  Slop,       \* ctx->slop: sloppy code is accepted
  MaxFix      \* bound on the fixups of a word

Regs    == 0 .. NRegs - 1
InpRegs == 0 .. InpLen - 1

\* asm_sym_err_reg of the word being compiled, -1 if it has no error output.
ErrReg == IF HasErr THEN OutLen - 1 ELSE -1

CalleeType == [inp : 0 .. NRegs, out : 0 .. NRegs, err : BOOLEAN,
               clobber : SUBSET Regs]

ASSUME NumAssumption ==
  /\ NRegs \in Nat /\ NSaved \in Nat /\ MaxFix \in Nat
  /\ InpLen \in 0 .. NRegs /\ OutLen \in 0 .. NRegs

ASSUME DataAssumption ==
  /\ 0 \in Value /\ Unknown \notin Value /\ Unknown \notin Local
  /\ Local \cap Value = {} /\ IsFiniteSet(Local)
  /\ CompareInPlace \subseteq Local

ASSUME SignatureAssumption ==
  /\ HasErr \in BOOLEAN /\ AutoTry \in BOOLEAN /\ Slop \in BOOLEAN
  /\ HasErr => OutLen > 0
  /\ AutoTry => HasErr
  /\ Param \in [InpRegs -> Local \cup {Unknown}]
  /\ \A i, j \in InpRegs : Param[i] = Param[j] /\ Param[i] # Unknown => i = j
  /\ Callee \subseteq CalleeType
  /\ \A k \in Callee : k.err => k.out > 0

VARIABLES
  \* the compilation context (Comp_ctx and its Sym)
  args,      \* what each argument register holds, as far as is known
  argLen,    \* arguments available to the next word
  declared,  \* the names in local_dict
  stable,    \* Local.stable: the home has the latest value
  read,      \* Local.read: some read of the home was emitted
  used,      \* Local.used: the name was mentioned
  pending,   \* the relocs reachable from Local.reloc, by their ordinal
  fix,       \* loc_fix, as a set of entries with their ordinal
  nfix,      \* its length
  clobber,   \* sym->clobber
  \* its last phase, asm_fixup_locals
  phase,     \* "compile", "fixup", "done" or "rejected"
  pos,       \* the next fixup to resolve
  volRegs,   \* vol_regs: argument registers still free for homes
  saved,     \* how many callee-saved registers are taken (saved_reg)
  mem,       \* how many memory slots are taken (fp_off)
  location,  \* Local.location
  \* the machine, running the code emitted so far
  reg,       \* argument registers
  home,      \* stable homes, one cell per local
  val,       \* the value last assigned to each local in the source program
  written    \* the argument registers the emitted code may write

argVars     == <<args, argLen>>
localVars   == <<declared, stable, read, used, pending>>
fixVars     == <<fix, nfix>>
resolveVars == <<phase, pos, volRegs, saved, mem, location>>
machineVars == <<reg, home, val, written>>
vars == <<argVars, localVars, fixVars, clobber, resolveVars, machineVars>>

Arg      == Local \cup Value \cup {Unknown}
Location == [kind : {"vol", "saved", "mem"}, num : Nat] \cup {Unknown}
Fixup    == [type : {"read", "reloc"}, loc : Local, ord : Nat,
             confirmed : BOOLEAN]

-----------------------------------------------------------------------------
(* Losing registers *)

\* comp_local_has_arg, as the set of registers.
Holders(l) == {r \in Regs : args[r] = l}

\* As Orphans, by a compiler which forgets that a local may be in two registers.
OrphansHeldOnce(S) ==
  {l \in Local : ~stable[l] /\ \E r \in S : Holders(l) = {r}}

\* The locals whose only copy is in the registers S (comp_forget_reg).
Orphans(S) == {l \in Local : ~stable[l] /\ Holders(l) # {} /\ Holders(l) \subseteq S}

\* comp_forget_regs goes up: an orphan is saved from the last of its registers.
LastHolder(l) == CHOOSE r \in Holders(l) : \A q \in Holders(l) : q <= r

\* As Reloc, by a compiler which never confirms in advance.
RelocTentative(l, L) ==
  [type |-> "reloc", loc |-> l, confirmed |-> FALSE,
   ord |-> nfix + Cardinality({m \in L : LastHolder(m) < LastHolder(l)})]

Reloc(l, L) ==
  [type |-> "reloc", loc |-> l,
   ord |-> nfix + Cardinality({m \in L : LastHolder(m) < LastHolder(l)}),
   confirmed |-> read[l]]

\* comp_append_local_reloc_from_reg for each local of L: a placeholder which
\* writes the home, if it is confirmed, is linked in front of the others.  The
\* machine makes the write at once; RelocsConfirmed is what justifies it.
Relocate(L) ==
  /\ nfix + Cardinality(L) <= MaxFix
  /\ nfix' = nfix + Cardinality(L)
  /\ fix' = fix \cup {Reloc(l, L) : l \in L}
  /\ pending' = [l \in Local |->
       pending[l] \cup (IF l \in L THEN {Reloc(l, L).ord} ELSE {})]
  /\ home' = [l \in Local |-> IF l \in L THEN reg[LastHolder(l)] ELSE home[l]]

\* comp_forget_regs: relocate what would be lost.  The actions which use it
\* say what `args' becomes.
Forget(S) ==
  /\ Relocate(Orphans(S))
  /\ stable' = [l \in Local |-> stable[l] \/ l \in Orphans(S)]

\* As Forgotten, by a compiler which keeps the old association.
ForgottenNot(S) == args

Forgotten(S) == [r \in Regs |-> IF r \in S THEN Unknown ELSE args[r]]

\* As Clobber, without comp_register_clobber.
ClobberUntold(S) == clobber' = clobber /\ written' = written \cup S

\* comp_register_clobber and the instructions it announces.
Clobber(S) == clobber' = clobber \cup S /\ written' = written \cup S

Compiling == phase = "compile" /\ UNCHANGED resolveVars

-----------------------------------------------------------------------------
(* Beginning a word: comp_ctx_trunc, then interp_parse_params.  With `->'    *)
(* instead of `--' the parameters are arguments already, but for trailing    *)
(* discards, which are not pushed.                                           *)

Named    == {Param[i] : i \in InpRegs} \cap Local
Pushable == \E n \in 0 .. InpLen :
              \A i \in InpRegs : (Param[i] \in Local) <=> (i < n)

Init ==
  /\ args = [r \in Regs |-> IF r \in InpRegs THEN Param[r] ELSE Unknown]
  /\ \E push \in BOOLEAN :
       /\ push => Pushable
       /\ argLen = IF push THEN Cardinality(Named) ELSE 0
       /\ used = [l \in Local |-> push /\ l \in Named]
  /\ declared = Named
  /\ stable = [l \in Local |-> FALSE]
  /\ read = [l \in Local |-> FALSE]
  /\ pending = [l \in Local |-> {}]
  /\ fix = {} /\ nfix = 0
  /\ clobber = {}
  /\ phase = "compile" /\ pos = 0
  /\ volRegs = {} /\ saved = 0 /\ mem = 0
  /\ location = [l \in Local |-> Unknown]
  /\ reg \in [Regs -> Value]
  /\ home \in [Local -> Value]
  /\ val = [l \in Local |->
              IF l \in Named THEN reg[CHOOSE i \in InpRegs : Param[i] = l]
              ELSE home[l]]
  /\ written = {}

-----------------------------------------------------------------------------
(* Pushing arguments *)

\* As AllocReg, without asm_validate_arg_reg.
AllocRegUnchecked(v) ==
  LET r == argLen IN
  /\ Compiling
  /\ Forget({r})
  /\ args' = [args EXCEPT ![r] = Unknown]
  /\ argLen' = argLen + 1
  /\ Clobber({r})
  /\ reg' = [reg EXCEPT ![r] = v]
  /\ UNCHANGED <<declared, read, used, val>>

\* comp_append_push_imm.
PushImm(n) ==
  LET r == argLen IN
  /\ Compiling
  /\ r < NRegs
  /\ Forget({r})
  /\ args' = [args EXCEPT ![r] = n]
  /\ argLen' = argLen + 1
  /\ Clobber({r})
  /\ reg' = [reg EXCEPT ![r] = n]
  /\ UNCHANGED <<declared, read, used, val>>

\* comp_append_push_from_local, when the next register already holds the
\* local: no instruction is emitted.
PushHeld(l) ==
  /\ Compiling
  /\ l \in declared
  /\ argLen < NRegs
  /\ args[argLen] = l
  /\ argLen' = argLen + 1
  /\ used' = [used EXCEPT ![l] = TRUE]
  /\ UNCHANGED <<args, declared, stable, read, pending, fixVars, clobber,
                 machineVars>>

\* The same, when another register holds it: a mov.
PushFromReg(l) ==
  LET r == argLen
      src == CHOOSE q \in Holders(l) : \A p \in Holders(l) : q <= p IN
  /\ Compiling
  /\ l \in declared
  /\ r < NRegs
  /\ args[r] # l /\ Holders(l) # {}
  /\ Forget({r})
  /\ args' = [args EXCEPT ![r] = l]
  /\ argLen' = argLen + 1
  /\ used' = [used EXCEPT ![l] = TRUE]
  /\ Clobber({r})
  /\ reg' = [reg EXCEPT ![r] = reg[src]]
  /\ UNCHANGED <<declared, read, val>>

\* The same, when no register holds it (comp_append_local_read): every reloc
\* linked from the local is confirmed, and so will be the later ones.  A local
\* which is not stable either is refused with "value not initialized".
PushFromHome(l) ==
  LET r == argLen
      lost == Orphans({r})
      Confirmed(f) ==
        [f EXCEPT !.confirmed = @ \/ (f.type = "reloc" /\ f.ord \in pending[l])] IN
  /\ Compiling
  /\ l \in declared
  /\ r < NRegs
  /\ Holders(l) = {} /\ stable[l]
  /\ nfix + Cardinality(lost) < MaxFix
  /\ nfix' = nfix + Cardinality(lost) + 1
  /\ fix' = {Confirmed(f) : f \in fix} \cup {Reloc(m, lost) : m \in lost}
              \cup {[type |-> "read", loc |-> l, confirmed |-> TRUE,
                     ord |-> nfix + Cardinality(lost)]}
  /\ pending' = [m \in Local |->
       IF m = l THEN {}
       ELSE pending[m] \cup (IF m \in lost THEN {Reloc(m, lost).ord} ELSE {})]
  /\ stable' = [m \in Local |-> stable[m] \/ m \in lost]
  /\ read' = [read EXCEPT ![l] = TRUE]
  /\ used' = [used EXCEPT ![l] = TRUE]
  /\ args' = [args EXCEPT ![r] = l]
  /\ argLen' = argLen + 1
  /\ Clobber({r})
  /\ home' = [m \in Local |-> IF m \in lost THEN reg[LastHolder(m)] ELSE home[m]]
  /\ reg' = [reg EXCEPT ![r] = home[l]]
  /\ UNCHANGED <<declared, val>>

\* comp_alloc_next_reg, and an instruction which writes the register.
AllocReg(v) ==
  LET r == argLen IN
  /\ Compiling
  /\ r < NRegs
  /\ Forget({r})
  /\ args' = [args EXCEPT ![r] = Unknown]
  /\ argLen' = argLen + 1
  /\ Clobber({r})
  /\ reg' = [reg EXCEPT ![r] = v]
  /\ UNCHANGED <<declared, read, used, val>>

-----------------------------------------------------------------------------
(* Assigning locals *)

\* As Reassigned, by a compiler which does not clear the flag.
ReassignedStable(l, lost) == [m \in Local |-> stable[m] \/ m \in lost]

\* The new home of a reassigned local is not up to date, whatever it was.
Reassigned(l, lost) == [m \in Local |-> (stable[m] \/ m \in lost) /\ m # l]

\* comp_local_get_or_make and comp_assign_local_from_reg: the local leaves its
\* other registers, and the one which was in this register may be relocated.
AssignFrom(l, r) ==
  LET lost == Orphans({r}) \ {l} IN
  /\ Compiling
  /\ r < argLen
  /\ declared' = declared \cup {l}
  /\ Relocate(lost)
  /\ stable' = Reassigned(l, lost)
  /\ args' = [q \in Regs |-> IF q = r THEN l
                             ELSE IF args[q] = l THEN Unknown ELSE args[q]]
  /\ val' = [val EXCEPT ![l] = reg[r]]
  /\ UNCHANGED <<read, used, clobber, reg, written>>

\* `{ l }', comp_pop_into_local.
Pop(l) == argLen > 0 /\ AssignFrom(l, argLen - 1) /\ argLen' = argLen - 1

\* A name of `{ l -- }', counted from below; comp_assign_local_from_reg.
AssignBelow(l, r) == AssignFrom(l, r) /\ UNCHANGED argLen

\* `{ _ }' drops the last argument, `{ -- }' all of them; the registers keep
\* their contents.
Discard(n) ==
  /\ Compiling
  /\ n < argLen
  /\ argLen' = n
  /\ UNCHANGED <<args, localVars, fixVars, clobber, machineVars>>

\* `=: l' and `<>: l' (.comp_loc_mut_cmp_imm when the right side is not
\* folded): l has just been pushed above the right side in r.  The compare is
\* emitted first, the register it wrote is reallocated afterwards.
CompareInto(l, v) ==
  LET r == argLen - 2
      written_reg == [reg EXCEPT ![r] = v]
      lost == Orphans({r}) IN
  /\ Compiling
  /\ l \in CompareInPlace
  /\ argLen >= 2 /\ args[argLen - 1] = l
  /\ nfix + Cardinality(lost) <= MaxFix
  /\ nfix' = nfix + Cardinality(lost)
  /\ fix' = fix \cup {Reloc(m, lost) : m \in lost}
  /\ pending' = [m \in Local |->
       pending[m] \cup (IF m \in lost THEN {Reloc(m, lost).ord} ELSE {})]
  /\ home' = [m \in Local |-> IF m \in lost THEN written_reg[r] ELSE home[m]]
  /\ stable' = Reassigned(l, lost)
  /\ reg' = written_reg
  /\ Clobber({r})
  /\ args' = [q \in Regs |-> IF q = r THEN l
                             ELSE IF args[q] = l THEN Unknown ELSE args[q]]
  /\ argLen' = r
  /\ val' = [val EXCEPT ![l] = v]
  /\ UNCHANGED <<declared, read, used>>

-----------------------------------------------------------------------------
(* Operations on arguments *)

\* .comp_args1_reg and an instruction: `.inc', `.negate', and comp_alloca of a
\* size which is not constant.
UnOp(v) ==
  LET r == argLen - 1 IN
  /\ Compiling
  /\ argLen >= 1
  /\ Forget({r})
  /\ args' = [args EXCEPT ![r] = Unknown]
  /\ Clobber({r})
  /\ reg' = [reg EXCEPT ![r] = v]
  /\ UNCHANGED <<argLen, declared, read, used, val>>

\* comp_alloca of a constant: the constant goes, its register gets an address.
AllocaConst(v) ==
  LET r == argLen - 1 IN
  /\ Compiling
  /\ argLen >= 1 /\ args[r] \in Value
  /\ args' = [args EXCEPT ![r] = Unknown]
  /\ reg' = [reg EXCEPT ![r] = v]
  /\ written' = written \cup {r}
  /\ UNCHANGED <<argLen, localVars, fixVars, clobber, home, val>>

\* .comp_args2_arith_reg: `+', `.and', and also the in-place `+: l', which
\* pushes l, operates and pops into l.
BinOp(v) ==
  LET r == argLen - 2 IN
  /\ Compiling
  /\ argLen >= 2
  /\ Forget({r})
  /\ args' = [args EXCEPT ![r] = Unknown]
  /\ argLen' = argLen - 1
  /\ Clobber({r})
  /\ reg' = [reg EXCEPT ![r] = v]
  /\ UNCHANGED <<declared, read, used, val>>

\* comp_args_fold consumed both constants, .cf_fold_done loads the result n.
\* What is left in the upper register is what was there before its constant.
FoldBoth(n, junk) ==
  LET r == argLen - 2 IN
  /\ Compiling
  /\ argLen >= 2 /\ args[r] \in Value /\ args[r + 1] \in Value
  /\ args' = [args EXCEPT ![r] = n, ![r + 1] = Unknown]
  /\ argLen' = argLen - 1
  /\ Clobber({r})
  /\ reg' = [reg EXCEPT ![r] = n, ![r + 1] = junk]
  /\ UNCHANGED <<localVars, fixVars, home, val>>

\* comp_args_fold consumed the right side only, .cf_fold2_partial_or_fallback
\* emits an instruction with an immediate operand.
FoldRight(v, junk) ==
  LET r == argLen - 2 IN
  /\ Compiling
  /\ argLen >= 2 /\ args[r + 1] \in Value
  /\ Forget({r})
  /\ args' = [args EXCEPT ![r] = Unknown, ![r + 1] = Unknown]
  /\ argLen' = argLen - 1
  /\ Clobber({r})
  /\ reg' = [reg EXCEPT ![r] = v, ![r + 1] = junk]
  /\ UNCHANGED <<declared, read, used, val>>

\* comp_barrier, at every branch and label.
Barrier ==
  /\ Compiling
  /\ Forget(Regs)
  /\ args' = [r \in Regs |-> Unknown]
  /\ UNCHANGED <<argLen, declared, read, used, clobber, reg, val, written>>

-----------------------------------------------------------------------------
(* Calls and errors.  The machine follows the path without an error: on the  *)
(* other one the word returns at once.                                       *)

\* asm_append_try, when the error in src turns out to be zero.  A move to a
\* higher error register is made on both paths, one to a lower register only
\* when there is an error.
TryRegs(src, r) == IF ErrReg > src THEN [r EXCEPT ![ErrReg] = r[src]] ELSE r
TryWrites(src)  == IF ErrReg = src THEN {} ELSE {ErrReg}

\* comp_before_append_call, the call and comp_after_append_call.  A callee
\* leaves the registers it does not clobber as they are.
CallWith(inp, out, clob, try) ==
  /\ Compiling
  /\ argLen = inp
  /\ Forget(clob)
  /\ args' = Forgotten(clob \cup 0 .. out - 1)
  /\ argLen' = IF try THEN out - 1 ELSE out
  /\ clobber' = clobber \cup clob
  /\ written' = written \cup clob \cup (IF try THEN TryWrites(out - 1) ELSE {})
  /\ \E f \in [clob -> Value] :
       LET after == [r \in Regs |-> IF r \in clob THEN f[r] ELSE reg[r]] IN
       /\ try => after[out - 1] = 0
       /\ reg' = IF try THEN TryRegs(out - 1, after) ELSE after
  /\ UNCHANGED <<declared, read, used, val>>

\* comp_append_call_sym.
Call(k) == CallWith(k.inp, k.out, k.clobber, AutoTry /\ k.err)

\* intrin_recur: its own clobbers are not known yet, so it takes them all.
Recur == CallWith(InpLen, OutLen, Regs, AutoTry)

\* `.call' of an address, and `[ n .comp_args_set ]' for its outputs.
CallRaw(n) == argLen > 0 /\ CallWith(argLen, n, Regs, FALSE)

\* comp_append_try.
Try ==
  LET src == argLen - 1 IN
  /\ Compiling
  /\ HasErr
  /\ argLen > 0
  /\ reg[src] = 0
  /\ argLen' = src
  /\ reg' = TryRegs(src, reg)
  /\ written' = written \cup TryWrites(src)
  /\ UNCHANGED <<args, localVars, fixVars, clobber, home, val>>

-----------------------------------------------------------------------------
(* Ending a word *)

\* What comp_before_append_ret accepts: all outputs, or all but the error,
\* which is then zeroed; an explicit zero error is refused as redundant.
ReturnsOutputs ==
  \/ argLen = OutLen /\ ~(HasErr /\ args[ErrReg] = 0)
  \/ HasErr /\ argLen = OutLen - 1

\* As FreeRegs, by a compiler which forgets the parameters.
FreeRegsWithInputs(clob) == Regs \ clob

\* asm_remaining_vol_regs.
FreeRegs(clob) == (Regs \ clob) \ InpRegs

\* intrin_semicolon up to asm_fixup_locals: the error register joins the
\* clobbers, and what is left of the registers may be used for homes.  The
\* word may be refused already.
End ==
  /\ phase = "compile"
  /\ ReturnsOutputs
  /\ argLen' = 0
  /\ written' = written \cup (IF argLen = OutLen THEN {} ELSE {ErrReg})
  /\ clobber' = clobber \cup (IF HasErr THEN {ErrReg} ELSE {})
  /\ volRegs' = FreeRegs(clobber')
  /\ phase' = "fixup"
  /\ reg' = IF argLen = OutLen THEN reg ELSE [reg EXCEPT ![ErrReg] = 0]
  /\ UNCHANGED <<args, localVars, fixVars, pos, saved, mem, location, home, val>>

At(ord) == CHOOSE f \in fix : f.ord = ord

\* asm_resolve_local_location: the lowest free argument register, which
\* becomes a clobber, else a callee-saved register, else memory.
Resolve(l) ==
  \/ /\ location[l] # Unknown
     /\ UNCHANGED <<location, volRegs, clobber, saved, mem>>
  \/ /\ location[l] = Unknown /\ volRegs # {}
     /\ \E r \in volRegs :
          /\ \A q \in volRegs : r <= q
          /\ location' = [location EXCEPT ![l] = [kind |-> "vol", num |-> r]]
          /\ volRegs' = volRegs \ {r}
          /\ clobber' = clobber \cup {r}
     /\ UNCHANGED <<saved, mem>>
  \/ /\ location[l] = Unknown /\ volRegs = {} /\ saved < NSaved
     /\ location' = [location EXCEPT ![l] = [kind |-> "saved", num |-> saved]]
     /\ saved' = saved + 1
     /\ UNCHANGED <<volRegs, clobber, mem>>
  \/ /\ location[l] = Unknown /\ volRegs = {} /\ saved = NSaved
     /\ location' = [location EXCEPT ![l] = [kind |-> "mem", num |-> mem]]
     /\ mem' = mem + 1
     /\ UNCHANGED <<volRegs, clobber, saved>>

\* One turn of the loop in asm_fixup_locals.  A reloc which nothing confirmed
\* becomes a nop and needs no location.
Fixup1 ==
  /\ phase = "fixup" /\ pos < nfix
  /\ pos' = pos + 1
  /\ IF At(pos).confirmed THEN Resolve(At(pos).loc)
     ELSE UNCHANGED <<location, volRegs, clobber, saved, mem>>
  /\ UNCHANGED <<phase, argVars, localVars, fixVars, machineVars>>

\* comp_check_unused_locals, at the end of comp_sym_end.
Finish ==
  /\ phase = "fixup" /\ pos = nfix
  /\ phase' = IF Slop \/ \A l \in declared : used[l] \/ location[l] # Unknown
              THEN "done" ELSE "rejected"
  /\ UNCHANGED <<argVars, localVars, fixVars, clobber, pos, volRegs, saved, mem,
                 location, machineVars>>

-----------------------------------------------------------------------------
Compile ==
  \/ \E v \in Value : PushImm(v) \/ AllocReg(v) \/ UnOp(v) \/ BinOp(v)
                        \/ AllocaConst(v)
  \/ \E v, junk \in Value : FoldBoth(v, junk) \/ FoldRight(v, junk)
  \/ \E l \in Local : PushHeld(l) \/ PushFromReg(l) \/ PushFromHome(l) \/ Pop(l)
  \/ \E l \in Local, r \in Regs : AssignBelow(l, r)
  \/ \E l \in Local, v \in Value : CompareInto(l, v)
  \/ \E n \in Regs : Discard(n)
  \/ Barrier
  \/ \E k \in Callee : Call(k)
  \/ Recur
  \/ \E n \in 0 .. NRegs : CallRaw(n)
  \/ Try

Next == Compile \/ End \/ Fixup1 \/ Finish

Spec == Init /\ [][Next]_vars

-----------------------------------------------------------------------------
(* Properties *)

\* The types; the argument count stays within the argument registers.
TypeOK ==
  /\ args \in [Regs -> Arg] /\ argLen \in 0 .. NRegs
  /\ declared \subseteq Local
  /\ stable \in [Local -> BOOLEAN] /\ read \in [Local -> BOOLEAN]
  /\ used \in [Local -> BOOLEAN] /\ pending \in [Local -> SUBSET Nat]
  /\ fix \subseteq Fixup /\ nfix \in 0 .. MaxFix
  /\ clobber \subseteq Regs
  /\ phase \in {"compile", "fixup", "done", "rejected"}
  /\ pos \in Nat /\ volRegs \subseteq Regs /\ saved \in 0 .. NSaved /\ mem \in Nat
  /\ location \in [Local -> Location]
  /\ reg \in [Regs -> Value] /\ home \in [Local -> Value]
  /\ val \in [Local -> Value] /\ written \subseteq Regs

\* What the compiler believes is what the machine has: a register associated
\* with a local or a constant holds its value, and the home of a stable local
\* holds the value last assigned to it.  Every later read depends on it, until
\* the word returns.
Tracked ==
  phase = "compile" =>
  /\ \A r \in Regs : args[r] \in Local => reg[r] = val[args[r]]
  /\ \A r \in Regs : args[r] \in Value => reg[r] = args[r]
  /\ \A l \in Local : stable[l] => home[l] = val[l]

\* comp_cc_reg.h:58: a local either has some argument registers or has been
\* relocated, so that no declared local is ever out of reach.
LocalHasPlace == \A l \in declared : stable[l] \/ Holders(l) # {}

\* comp_cc_reg.h:18: mentioning a local copies its value into the next argument
\* register, whichever of three ways the compiler finds to do it.
PushGivesValue ==
  [][\A l \in Local : PushHeld(l) \/ PushFromReg(l) \/ PushFromHome(l)
                        => reg'[argLen] = val[l]]_vars

\* A relocation which is not confirmed yet belongs to a local never read from
\* its home, and is still linked from it, so that a read will confirm it: no
\* read finds a home whose write has become a nop.
RelocsConfirmed ==
  \A f \in fix : f.type = "reloc" /\ ~f.confirmed
                   => ~read[f.loc] /\ f.ord \in pending[f.loc]

\* The homes of a finished word: no two locals share one, and one in an
\* argument register is not written by the code of the word, nor a parameter.
HomesSafe ==
  \A l \in Local : location[l] # Unknown =>
    /\ \A m \in Local : location[m] = location[l] => m = l
    /\ location[l].kind = "vol" => location[l].num \notin written \cup InpRegs

\* The clobbers a finished word promises its callers are all the argument
\* registers its code may write, homes included.
ClobbersComplete ==
  phase \in {"done", "rejected"} =>
    /\ written \subseteq clobber
    /\ \A l \in Local : location[l] # Unknown /\ location[l].kind = "vol"
                          => location[l].num \in clobber
=============================================================================
