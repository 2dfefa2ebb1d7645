------------------------------ MODULE Control ------------------------------
(***************************************************************************)
(* Control structures (forth/lang.af, "Conditionals" and "Loops"): how     *)
(* `.then else elif loop .while leave again end' turn into branches.       *)
(*                                                                         *)
(* A word is compiled token by token.  Branches forward are reserved and   *)
(* patched later, by the frames left on the cells and on LOOP_AUX; the     *)
(* compiler also folds constants and fuses compares into branches, by      *)
(* looking at what it emitted last.  The finished word is then run beside  *)
(* its source, whose meaning (Goal) is read off the nesting of the tokens  *)
(* alone: both have to access memory at the same places with the same      *)
(* arguments.                                                              *)
(*                                                                         *)
(* Locals are module Locals; here a mention of one is a load, since the    *)
(* barriers of this module forget where it was.                            *)
(***************************************************************************)
EXTENDS Integers, Sequences, SequencesExt, FiniteSetsExt

CONSTANTS
  Family,     \* kinds of programs: their tokens, how many outputs a word has
              \* (out_len), and a bound on the tokens of all words begun
  Value,      \* machine words
  JoinTests,  \* programs test a compare made just before a join
  MaxArgs     \* bound on arguments, at most ASM_ARG_LEN_MAX

ASSUME ControlAssumption ==
  /\ \A f \in Family : f.out \in Nat /\ f.max \in Nat
  /\ {0, 1} \subseteq Value /\ JoinTests \in BOOLEAN /\ MaxArgs \in Nat

VARIABLES
  family,   \* the kind of program
  src,      \* the tokens of the current word so far
  spent,    \* how many tokens were in words given up
  code,     \* its instructions, from comp->code.code_write
  args,     \* comp.ctx.args up to arg_len: the constants in registers
  cells,    \* STACK, the control stack: frames, one for a token and its meta
  aux,      \* LOOP_AUX
  loopInd,  \* LOOP_IND, an index into cells
  phase,    \* "compile", "run" or "done"
  goal,     \* where each token leads to when it jumps
  at,       \* the next token to be executed
  stk,      \* the arguments of the source
  pc,       \* the next instruction
  reg,      \* x0, x1, ...
  equal     \* the Z flag

compVars == <<src, code, args, cells, aux, loopInd>>
sourceVars == <<at, stk>>
machVars == <<pc, reg, equal>>
vars == <<family, spent, phase, goal, compVars, sourceVars, machVars>>

Reg == 0 .. MaxArgs - 1
Bool(b) == IF b THEN 1 ELSE 0

-----------------------------------------------------------------------------
(* Instructions.  Branches name their target rather than its distance.       *)

Mov(r, n)    == [op |-> "mov", reg |-> r, num |-> n]
CmpImm(r, n) == [op |-> "cmp_imm", reg |-> r, num |-> n]
CmpReg(r, s) == [op |-> "cmp_reg", reg |-> r, rhs |-> s]
Cset(r, c)   == [op |-> "cset", reg |-> r, cond |-> c]
Branch(to)   == [op |-> "b", to |-> to]
Placeholder  == [op |-> "brk"]

\* What can be observed of a word, and which token it was compiled from.
Access(op, r) == [op |-> op, reg |-> r, token |-> Len(src) + 1]

\* An argument which is a known constant: its value, and the instruction which
\* loads it, after floor and up to ceil (Comp_arg_imm).
Imm(n, floor) == [imm |-> TRUE, num |-> n, floor |-> floor, ceil |-> floor + 1]
Unknown == [imm |-> FALSE, num |-> 0, floor |-> 0, ceil |-> 0]

\* As Barrier, keeping what is known.
BarrierKeeps(n) == [i \in 1 .. n |-> IF i <= Len(args) THEN args[i] ELSE Unknown]

\* The first n arguments after .comp_barrier.
Barrier(n) == [i \in 1 .. n |-> Unknown]

-----------------------------------------------------------------------------
(* Control metadata *)

Meta(inp, off) == [inp |-> inp, hasOut |-> FALSE, out |-> 0,
                   type |-> "cbz", cond |-> "eq", off |-> off]

\* A frame is a token for `end' to call, with its meta.
Frame(xt, meta) == [xt |-> xt, meta |-> meta]

Top == Last(cells)
InLoop == \E i \in DOMAIN cells : cells[i].xt = "loop_end"
LoopMeta == cells[loopInd].meta

\* What replaces the instruction reserved for a frame once its target is known:
\* .asm_cond_branch or .asm_branch.
Resolved(f, to) ==
  IF f.xt \in {"then_end", "while_end"}
  THEN [op |-> f.meta.type, reg |-> f.meta.inp, cond |-> f.meta.cond, to |-> to]
  ELSE Branch(to)

\* As Patch, of the frame patched first only.
PatchTop(c, fs, to) ==
  [i \in DOMAIN c |->
     IF \E f \in fs : f.meta.off = i /\ \A g \in fs : g.meta.off <= i
     THEN Resolved(CHOOSE f \in fs : f.meta.off = i, to) ELSE c[i]]

\* .cond_branch_patch and .comp_branch_patch, for all of some frames.
Patch(c, fs, to) ==
  [i \in DOMAIN c |->
     IF \E f \in fs : f.meta.off = i
     THEN Resolved(CHOOSE f \in fs : f.meta.off = i, to) ELSE c[i]]

\* The index of the last frame of fs for xt.
LastOf(fs, xt) == Max({i \in DOMAIN fs : fs[i].xt = xt})

\* Branches to the next instruction to be emitted.
Labelled ==
  \/ \E i \in DOMAIN code : "to" \in DOMAIN code[i] /\ code[i].to = Len(code) + 1
  \/ \E i \in DOMAIN cells : cells[i].xt = "loop_end" /\ cells[i].meta.off = Len(code) + 1

\* .cond_branch_beg: the code and the meta for a branch on register pred.  A
\* compare with zero for equality becomes cbnz, the cset of another compare is
\* replaced by a conditional branch when patched.
CondBranchBeg(pred, meta) ==
  LET n == Len(code) IN
  IF n >= 2 /\ code[n - 1] = CmpImm(pred, 0) /\ code[n] = Cset(pred, "eq")
  THEN [code |-> Append(SubSeq(code, 1, n - 2), Placeholder),
        meta |-> [meta EXCEPT !.type = "cbnz", !.off = n - 1]]
  ELSE IF n >= 1 /\ code[n].op = "cset" /\ code[n].reg = pred
  THEN [code |-> code,
        meta |-> [meta EXCEPT !.type = "b.cond", !.off = n,
                              !.cond = IF code[n].cond = "eq" THEN "ne" ELSE "eq"]]
  ELSE [code |-> Append(code, Placeholder),
        meta |-> [meta EXCEPT !.type = "cbz", !.off = n + 1]]

\* Programs which test what was compared just before a join.
TestsAtJoin(pred) ==
  /\ Labelled /\ code # <<>>
  /\ Last(code).op = "cset" /\ Last(code).reg = pred

-----------------------------------------------------------------------------
(* Compiling values *)

\* The next token of the word is t.
Token(t) ==
  /\ phase = "compile" /\ t \in family.tokens
  /\ spent + Len(src) < family.max
  /\ src' = Append(src, t)
  /\ UNCHANGED <<family, spent>>

Straight == UNCHANGED <<cells, aux, loopInd, phase, goal, sourceVars, machVars>>

\* A mention of a local, or any word which loads its value into the next
\* register.
Load ==
  /\ Token("load") /\ Len(args) < MaxArgs
  /\ code' = Append(code, Access("load", Len(args)))
  /\ args' = Append(args, Unknown)
  /\ Straight

\* A word which stores the last argument.
Store ==
  /\ Token("store") /\ args # <<>>
  /\ code' = Append(code, Access("store", Len(args) - 1))
  /\ args' = Front(args)
  /\ Straight

\* comp_append_push_imm.
Constant(n) ==
  /\ Token(IF n = 0 THEN "0" ELSE "1") /\ Len(args) < MaxArgs
  /\ code' = Append(code, Mov(Len(args), n))
  /\ args' = Append(args, Imm(n, Len(code)))
  /\ Straight

\* comp_args_fold: a constant can be taken back if nothing was emitted since.
Folds(arg, len) == arg.imm /\ arg.ceil = len

\* .cf_fold_done: the result of a fold takes the place of its arguments.
FoldDone(floor, r, n) ==
  /\ code' = Append(SubSeq(code, 1, floor), Mov(r, n))
  /\ args' = Append(SubSeq(args, 1, r), Imm(n, floor))

\* A compare into the register it compares first.
CompareInto(floor, r, cmp) ==
  /\ code' = SubSeq(code, 1, floor) \o <<cmp, Cset(r, "eq")>>
  /\ args' = Append(SubSeq(args, 1, r), Unknown)

\* `=0'.
EqZero ==
  /\ Token("=0") /\ args # <<>>
  /\ LET r == Len(args) - 1  arg == Last(args) IN
     IF Folds(arg, Len(code))
     THEN FoldDone(arg.floor, r, Bool(arg.num = 0))
     ELSE CompareInto(Len(code), r, CmpImm(r, 0))
  /\ Straight

\* `=': both arguments folded, the right one, or none.
Equal ==
  /\ Token("=") /\ Len(args) >= 2
  /\ LET r == Len(args) - 2  lhs == args[r + 1]  rhs == args[r + 2] IN
     IF Folds(rhs, Len(code))
     THEN IF Folds(lhs, rhs.floor)
          THEN FoldDone(lhs.floor, r, Bool(lhs.num = rhs.num))
          ELSE CompareInto(rhs.floor, r, CmpImm(r, rhs.num))
     ELSE CompareInto(Len(code), r, CmpReg(r, r + 1))
  /\ Straight

-----------------------------------------------------------------------------
(* Conditionals *)

Branching == UNCHANGED <<aux, loopInd, phase, goal, sourceVars, machVars>>

\* `.then', bare or after the predicate of an `elif'.
Then ==
  /\ Token("then") /\ args # <<>>
  /\ JoinTests \/ ~TestsAtJoin(Len(args) - 1)
  /\ LET len == Len(args) - 1
         continued == Top.xt = "elif_invalid"
         beg == CondBranchBeg(len, IF continued THEN Top.meta ELSE Meta(len, 0))
         base == IF continued THEN Front(cells)
                 ELSE Append(cells, Frame("nop", Meta(0, 0)))
     IN /\ continued => len = Top.meta.inp
        /\ code' = beg.code
        /\ args' = Barrier(len)
        /\ cells' = Append(base, Frame("then_end", beg.meta))
  /\ Branching

\* The frame of a branch closed by `else' or `elif': its outputs are those of
\* the whole conditional, and it stands for the jump at the end of the branch.
Closed == [Top.meta EXCEPT !.hasOut = TRUE, !.off = Len(code) + 1,
             !.out = IF Top.meta.hasOut THEN @ ELSE Len(args)]

\* The branch ends in a jump, its predicate leads behind the jump, and the next
\* branch starts with the same inputs.
CloseBranch ==
  /\ Top.xt = "then_end"
  /\ Top.meta.hasOut => Len(args) = Top.meta.out
  /\ code' = Patch(Append(code, Placeholder), {Top}, Len(code) + 2)
  /\ args' = Barrier(Top.meta.inp)

Else ==
  /\ Token("else")
  /\ CloseBranch
  /\ cells' = Append(Front(cells), Frame("else_end", Closed))
  /\ Branching

Elif ==
  /\ Token("elif")
  /\ CloseBranch
  /\ cells' = Front(cells) \o <<Frame("cond_chain_end", Closed),
                                Frame("elif_invalid", Closed)>>
  /\ Branching

\* `end' of a conditional: .then_end_xt or .else_end_xt, then the jumps of the
\* `elif's, each calling `end' again, down to the nop.
EndBranch ==
  LET first == LastOf(cells, "nop") IN
  /\ Token("end")
  /\ \/ /\ Top.xt = "then_end"
        /\ Len(args) = Top.meta.inp
        /\ Top.meta.hasOut => Len(args) = Top.meta.out
     \/ Top.xt = "else_end" /\ Len(args) = Top.meta.out
  /\ code' = Patch(code, {cells[i] : i \in first + 1 .. Len(cells)}, Len(code) + 1)
  /\ args' = Barrier(Len(args))
  /\ cells' = SubSeq(cells, 1, first - 1)
  /\ Branching

-----------------------------------------------------------------------------
(* Loops *)

Looping == UNCHANGED <<phase, goal, sourceVars, machVars>>

\* As LoopFrames, without the previous loop.
LoopFramesUnlinked ==
  <<Frame("loop_frame_end", Meta(0, 0)),
    Frame("loop_end", Meta(Len(args), Len(code) + 1))>>

\* .loop_frame_init and the frame of `loop': its own meta is the beginning of
\* the loop, the frame below keeps the previous LOOP_IND.
LoopFrames ==
  <<Frame("loop_frame_end", Meta(0, loopInd)),
    Frame("loop_end", Meta(Len(args), Len(code) + 1))>>

\* `loop'.
Loop ==
  /\ Token("loop")
  /\ cells' = cells \o LoopFrames
  /\ loopInd' = Len(cells) + 2
  /\ aux' = Append(aux, Frame("nop", Meta(0, 0)))
  /\ args' = Barrier(Len(args))
  /\ UNCHANGED code
  /\ Looping

\* `leave', `.while' and `again' find their loop by LOOP_IND.  Programs use
\* them inside loops only.
AuxOfLoop(t) == Token(t) /\ loopInd # 0 /\ InLoop

Leave ==
  /\ AuxOfLoop("leave")
  /\ Len(args) = LoopMeta.inp
  /\ code' = Append(code, Placeholder)
  /\ aux' = Append(aux, Frame("leave_end", Meta(0, Len(code) + 1)))
  /\ args' = Barrier(Len(args))
  /\ UNCHANGED <<cells, loopInd>>
  /\ Looping

While ==
  /\ AuxOfLoop("while")
  /\ Len(args) = LoopMeta.inp + 1
  /\ JoinTests \/ ~TestsAtJoin(Len(args) - 1)
  /\ LET beg == CondBranchBeg(LoopMeta.inp, LoopMeta) IN
     /\ code' = beg.code
     /\ aux' = Append(aux, Frame("while_end", beg.meta))
  /\ args' = Barrier(LoopMeta.inp)
  /\ UNCHANGED <<cells, loopInd>>
  /\ Looping

Again ==
  /\ AuxOfLoop("again")
  /\ Len(args) = LoopMeta.inp
  /\ code' = Append(code, Branch(LoopMeta.off))
  /\ args' = Barrier(Len(args))
  /\ UNCHANGED <<cells, aux, loopInd>>
  /\ Looping

\* As LoopExit, before the jump back.
LoopExitEarly == Len(code) + 1

\* What leaves a loop goes behind its jump back.
LoopExit == Len(code) + 2

\* `end' of a loop: .loop_end_xt jumps back, .loop_frame_end_xt patches what
\* leaves the loop, down to its nop, and goes back to the enclosing loop.
EndLoop ==
  LET first == LastOf(aux, "nop")
      leaving == {aux[i] : i \in first + 1 .. Len(aux)}
  IN
  /\ Token("end") /\ Top.xt = "loop_end"
  /\ Len(args) = Top.meta.inp
  /\ code' = Patch(Append(code, Branch(Top.meta.off)), leaving, LoopExit)
  /\ aux' = SubSeq(aux, 1, first - 1)
  /\ loopInd' = cells[Len(cells) - 1].meta.off
  /\ cells' = SubSeq(cells, 1, Len(cells) - 2)
  /\ args' = Barrier(Len(args))
  /\ Looping

-----------------------------------------------------------------------------
(* The meaning of a word *)

\* The structures open after the first i tokens, innermost last, each with the
\* token which opened it; "elif" until its own predicate is tested.
Opened(tokens) ==
  LET open[i \in 0 .. Len(tokens)] ==
        IF i = 0 THEN <<[kind |-> "word", from |-> 0]>>
        ELSE LET s == open[i - 1]  t == tokens[i] IN
             IF t = "loop" \/ (t = "then" /\ Last(s).kind # "elif")
             THEN Append(s, [kind |-> t, from |-> i])
             ELSE IF t \in {"then", "elif", "else"}
             THEN Append(Front(s), [Last(s) EXCEPT !.kind = t])
             ELSE IF t = "end" THEN Front(s) ELSE s
  IN open

\* Where each token leads to when it jumps: a false predicate to the next
\* branch, the end of a branch to the end of its conditional, the end of a loop
\* to its beginning, and what leaves a loop behind its end.
Goals(tokens) ==
  LET open == Opened(tokens)
      n == Len(tokens)
      Of(i) == IF tokens[i] = "end" THEN Last(open[i - 1]).from ELSE Last(open[i]).from
      EndOf(c) == CHOOSE j \in 1 .. n : tokens[j] = "end" /\ Of(j) = c
      NextOf(i) == Min({j \in i + 1 .. n : /\ tokens[j] \in {"elif", "else", "end"}
                                           /\ Of(j) = Of(i)})
      LoopOf(i) == Max({f.from : f \in {g \in ToSet(open[i]) : g.kind = "loop"}})
  IN [i \in 1 .. n |->
        CASE tokens[i] = "then" ->
               NextOf(i) + (IF tokens[NextOf(i)] = "end" THEN 0 ELSE 1)
          [] tokens[i] \in {"elif", "else"} -> EndOf(Of(i))
          [] tokens[i] \in {"leave", "while"} -> EndOf(LoopOf(i)) + 1
          [] tokens[i] = "again" -> LoopOf(i)
          [] tokens[i] = "end" /\ Last(open[i - 1]).kind = "loop" -> Of(i)
          [] OTHER -> i + 1]

\* `.ret'; what follows it is dead.
Return ==
  /\ Token("ret") /\ Len(args) = family.out
  /\ code' = Append(code, Access("ret", 0))
  /\ args' = <<>>
  /\ Straight

\* `end' of the word.  The word is called at once.
EndWord ==
  /\ Token("end") /\ Top.xt = "semicolon"
  /\ Len(args) = family.out
  /\ code' = Append(code, Access("ret", 0))
  /\ cells' = Front(cells)
  /\ phase' = "run"
  /\ goal' = Goals(src')
  /\ at' = 1 /\ pc' = 1
  /\ UNCHANGED <<args, aux, loopInd, stk, reg, equal>>

\* Any token may be refused, or be followed by an error: interp_rewind takes
\* back the code and the cells, and nobody the variables of lang.af.
Fail ==
  /\ phase = "compile" /\ src # <<>>
  /\ spent' = spent + Len(src)
  /\ src' = <<>> /\ code' = <<>> /\ args' = <<>>
  /\ cells' = <<Frame("semicolon", Meta(0, 0))>>
  /\ UNCHANGED <<family, aux, loopInd, phase, goal, sourceVars, machVars>>

-----------------------------------------------------------------------------
(* Running the word and its source *)

Running == phase = "run" /\ UNCHANGED <<family, spent, goal, compVars>>

Accesses == {"load", "store", "ret"}
SourceWaits == src[at] \in Accesses \/ at = Len(src)
MachWaits == pc \in DOMAIN code /\ code[pc].op \in Accesses

\* The source goes on up to its next access.
SourceStep ==
  LET t == src[at] IN
  /\ Running /\ ~SourceWaits
  /\ at' = IF t \in {"elif", "else", "end", "leave", "again"}
              \/ (t \in {"then", "while"} /\ Last(stk) = 0)
           THEN goal[at] ELSE at + 1
  /\ stk' = CASE t = "0" -> Append(stk, 0)
              [] t = "1" -> Append(stk, 1)
              [] t = "=0" -> Append(Front(stk), Bool(Last(stk) = 0))
              [] t = "=" -> Append(SubSeq(stk, 1, Len(stk) - 2),
                                   Bool(stk[Len(stk) - 1] = Last(stk)))
              [] t \in {"then", "while"} -> Front(stk)
              [] OTHER -> stk
  /\ UNCHANGED <<phase, machVars>>

\* So does the machine.
Taken(i) == CASE i.op = "b" -> TRUE
              [] i.op = "cbz" -> reg[i.reg] = 0
              [] i.op = "cbnz" -> reg[i.reg] # 0
              [] i.op = "b.cond" -> equal = (i.cond = "eq")
              [] OTHER -> FALSE

MachStep ==
  LET i == code[pc] IN
  /\ Running /\ SourceWaits
  /\ ~MachWaits /\ pc \in DOMAIN code /\ i # Placeholder
  /\ pc' = IF Taken(i) THEN i.to ELSE pc + 1
  /\ reg' = CASE i.op = "mov" -> [reg EXCEPT ![i.reg] = i.num]
              [] i.op = "cset" -> [reg EXCEPT ![i.reg] = Bool(equal = (i.cond = "eq"))]
              [] OTHER -> reg
  /\ equal' = CASE i.op = "cmp_imm" -> reg[i.reg] = i.num
                [] i.op = "cmp_reg" -> reg[i.reg] = reg[i.rhs]
                [] OTHER -> equal
  /\ UNCHANGED <<phase, sourceVars>>

\* Both access memory, or both return.
Both ==
  LET i == code[pc] IN
  /\ Running /\ SourceWaits /\ MachWaits /\ i.token = at
  /\ \/ /\ i.op = "load"
        /\ \E v \in Value : /\ stk' = Append(stk, v)
                            /\ reg' = [reg EXCEPT ![i.reg] = v]
        /\ at' = at + 1 /\ pc' = pc + 1
        /\ UNCHANGED phase
     \/ /\ i.op = "store"
        /\ stk' = Front(stk)
        /\ at' = at + 1 /\ pc' = pc + 1
        /\ UNCHANGED <<phase, reg>>
     \/ /\ i.op = "ret"
        /\ phase' = "done"
        /\ UNCHANGED <<at, stk, pc, reg>>
  /\ UNCHANGED equal

-----------------------------------------------------------------------------
Init ==
  /\ family \in Family
  /\ src = <<>> /\ spent = 0 /\ code = <<>> /\ args = <<>>
  /\ cells = <<Frame("semicolon", Meta(0, 0))>>
  /\ aux = <<>> /\ loopInd = 0
  /\ phase = "compile" /\ goal = <<>>
  /\ at = 0 /\ stk = <<>>
  /\ pc = 0 /\ reg = [r \in Reg |-> 0] /\ equal = FALSE

Compile ==
  \/ Load \/ Store \/ Constant(0) \/ Constant(1) \/ EqZero \/ Equal
  \/ Then \/ Else \/ Elif \/ EndBranch
  \/ Loop \/ Leave \/ While \/ Again \/ EndLoop
  \/ Return \/ EndWord \/ Fail

Next == Compile \/ SourceStep \/ MachStep \/ Both

\* Words which run are not suspended.
Spec == Init /\ [][Next]_vars
FairSpec == Spec /\ WF_vars(MachStep)

-----------------------------------------------------------------------------
(* Properties *)

\* lang.af:1917, 4117: structures do what they say.  Wherever the word accesses
\* memory or returns, its source does the same, with the same arguments in the
\* same registers.
Agree ==
  phase = "run" /\ SourceWaits /\ MachWaits =>
    LET i == code[pc] IN
    /\ i.token = at
    /\ i.op = "load" => i.reg = Len(stk)
    /\ i.op = "store" => i.reg = Len(stk) - 1
    /\ i.op = "ret" => Len(stk) = family.out
    /\ \A a \in DOMAIN stk : reg[a - 1] = stk[a]

\* Everything reserved is patched by the end of the word, and branches stay
\* inside it.
AllPatched ==
  phase # "compile" => \A i \in DOMAIN code :
    /\ code[i].op # "brk"
    /\ "to" \in DOMAIN code[i] => code[i].to \in DOMAIN code

\* LOOP_IND is the innermost open loop, and the frames lead outwards, whatever
\* was left there by words given up.
InnermostLoop ==
  LET loops == {i \in DOMAIN cells : cells[i].xt = "loop_end"} IN
  /\ \A i \in loops : (\A j \in loops : j <= i) => loopInd = i
  /\ \A i, j \in loops :
       j < i /\ (\A k \in loops : ~(j < k /\ k < i)) => cells[i - 1].meta.off = j

\* A word does not stay in a loop its source leaves.
Follows == phase = "run" /\ SourceWaits ~> phase = "run" /\ MachWaits
=============================================================================
