--------------------------- MODULE SessionProofs ---------------------------
(***************************************************************************)
(* What module Session guarantees for any number of names, files, symbols  *)
(* and cells.                                                              *)
(***************************************************************************)
EXTENDS Session, SequenceTheorems, FiniteSetTheorems, TLAPS

-----------------------------------------------------------------------------
(* Types *)

Module == File \cup {Stdin}

LEMMA FrontType ==
  ASSUME NEW m \in Seq(Module), m # <<>>
  PROVE  /\ Front(m) \in Seq(Module)
         /\ Len(Front(m)) = Len(m) - 1
         /\ \A i \in 1 .. Len(m) - 1 : Front(m)[i] = m[i]
<1>1. Len(m) \in Nat /\ Len(m) > 0
  BY EmptySeq
<1>2. \A i \in 1 .. Len(m) - 1 : m[i] \in Module
  BY <1>1, ElementOfSeq
<1>3. Front(m) = SubSeq(m, 1, Len(m) - 1)
  BY DEF Front
<1> DEFINE n == Len(m) - 1
           t == SubSeq(m, 1, n)
<1>4. n \in Int /\ n >= 0 /\ 1 \in Int /\ n - 1 + 1 = n
  BY <1>1
<1>5. /\ t \in Seq(Module)
      /\ Len(t) = IF 1 <= n THEN n - 1 + 1 ELSE 0
      /\ \A i \in 1 .. n - 1 + 1 : t[i] = m[1 + i - 1]
  BY <1>2, <1>4, SubSeqProperties
<1>6. Len(t) = n
  <2> HIDE DEF n, t
  <2> QED BY <1>4, <1>5
<1>7. \A i \in 1 .. n : t[i] = m[i]
  <2> HIDE DEF n, t
  <2>1. \A i \in 1 .. n : 1 + i - 1 = i
    BY <1>4
  <2> QED BY <1>4, <1>5, <2>1
<1> QED BY <1>3, <1>5, <1>6, <1>7

LEMMA NoCtxType == NoCtx \in Ctx
BY SessionAssumption DEF NoCtx, Ctx

LEMMA SnapshotType ==
  ASSUME NEW c \in Ctx, NEW l \in 0 .. MaxCells, NEW t \in 0 .. MaxSyms,
         Snapshot(c, l, t)
  PROVE  snap' \in [ctx : Ctx, len : 0 .. MaxCells, top : 0 .. MaxSyms]
BY DEF Snapshot

LEMMA DictSetType ==
  ASSUME dict \subseteq Entry, NEW s, NEW n \in Name, NEW v \in Slots,
         DictSet(dict, s, n, v)
  PROVE  dict' \subseteq Entry
<1>1. \A e \in Entry : [e EXCEPT !.val = v] \in Entry
  BY DEF Entry
<1>2. [key |-> v, val |-> v, hash |-> n] \in Entry
  BY DEF Entry
<1> QED BY <1>1, <1>2 DEF DictSet

LEMMA BeginType ==
  ASSUME TypeOK, NEW n \in Name, Begin(n)
  PROVE  TypeOK'
<1>1. /\ top + 1 \in Slots /\ top' \in 0 .. MaxSyms
      /\ defs + 1 \in 0 .. MaxDefs /\ defs' \in 0 .. MaxDefs
  BY SessionAssumption DEF Begin, TypeOK, Slots
<1>2. slot' \in [Slots -> Sym]
  <2>1. [name |-> n, id |-> defs + 1] \in Sym
    BY <1>1 DEF Sym
  <2> QED BY <2>1 DEF Begin, TypeOK
<1>3. ctx' \in Ctx
  BY <1>1 DEF Begin, Ctx, Slots
<1>4. snap' \in [ctx : Ctx, len : 0 .. MaxCells, top : 0 .. MaxSyms]
  BY SnapshotType DEF Begin, TypeOK
<1>5. /\ cell' \in [1 .. MaxCells -> {"semicolon", "other"}]
      /\ len' \in 0 .. MaxCells /\ error' \in {"none", "error", "quit"}
  <2>1. CASE len < MaxCells /\ cell' = [cell EXCEPT ![len + 1] = "semicolon"]
             /\ len' = len + 1 /\ UNCHANGED error
    BY <2>1, SessionAssumption DEF TypeOK
  <2>2. CASE error' = "error" /\ UNCHANGED cellVars
    BY <2>2 DEF TypeOK, cellVars
  <2> QED BY <2>1, <2>2 DEF Begin
<1>6. UNCHANGED <<dict, modules, imports>>
  BY DEF Begin, modVars
<1> QED BY <1>1, <1>2, <1>3, <1>4, <1>5, <1>6 DEF TypeOK

LEMMA SemicolonType ==
  ASSUME TypeOK, ctx.sym # 0, len > 0, slot[ctx.sym].name \in Name, SemicolonOk
  PROVE  /\ ctx' \in Ctx /\ dict' \subseteq Entry
         /\ snap' \in [ctx : Ctx, len : 0 .. MaxCells, top : 0 .. MaxSyms]
         /\ error' \in {"none", "error", "quit"}
<1>1. ctx.sym \in Slots
  BY DEF TypeOK, Ctx, Slots
<1>2. len - 1 \in 0 .. MaxCells /\ top \in 0 .. MaxSyms
  BY SessionAssumption DEF TypeOK
<1>3. snap' \in [ctx : Ctx, len : 0 .. MaxCells, top : 0 .. MaxSyms]
  BY <1>2, NoCtxType, SnapshotType DEF SemicolonOk
<1>4. dict' \subseteq Entry
  BY <1>1, DictSetType DEF SemicolonOk, TypeOK
<1> QED BY <1>3, <1>4, NoCtxType DEF SemicolonOk, TypeOK

\* The type invariant, with what makes it inductive: the current symbol, and
\* the one a rewind would make current, have names.
Types ==
  /\ TypeOK
  /\ ctx.sym # 0 => slot[ctx.sym].name \in Name
  /\ snap.ctx.sym # 0 => slot[snap.ctx.sym].name \in Name

\* Steps which leave the symbols and the snapshot alone.
LEMMA PlainType ==
  ASSUME Types, UNCHANGED <<slot, top, defs, dict, snap>>,
         ctx' \in Ctx, ctx'.sym = ctx.sym,
         cell' \in [1 .. MaxCells -> {"semicolon", "other"}],
         len' \in 0 .. MaxCells,
         modules' \in Seq(Module), imports' \subseteq File,
         error' \in {"none", "error", "quit"}
  PROVE  Types'
BY DEF Types, TypeOK, Module

\* Steps which go back to the snapshot.
LEMMA RewindType ==
  ASSUME Types, ctx' = [snap.ctx EXCEPT !.locals = FALSE], top' = snap.top,
         len' \in 0 .. MaxCells, modules' \in Seq(Module),
         error' \in {"none", "error", "quit"},
         UNCHANGED <<slot, dict, defs, cell, snap, imports>>
  PROVE  Types'
<1>1. ctx' \in Ctx /\ ctx'.sym = snap.ctx.sym
  BY DEF Types, TypeOK, Ctx
<1> QED BY <1>1 DEF Types, TypeOK, Module

\* Steps which take a snapshot and leave the symbols alone.
LEMMA SnapType ==
  ASSUME Types, Snapshot(ctx, len, top), modules' \in Seq(Module),
         imports' \subseteq File, error' \in {"none", "error", "quit"},
         UNCHANGED <<slot, top, defs, dict, cell, len, ctx>>
  PROVE  Types'
<1>1. snap' \in [ctx : Ctx, len : 0 .. MaxCells, top : 0 .. MaxSyms]
  BY SnapshotType DEF Types, TypeOK
<1>2. snap'.ctx = ctx
  BY DEF Snapshot
<1> QED BY <1>1, <1>2 DEF Types, TypeOK, Module

LEMMA NextType ==
  ASSUME Types, Next
  PROVE  Types'
<1> USE DEF Module
<1>1. ASSUME NEW n \in Name, Begin(n) PROVE Types'
  <2>1. TypeOK'
    BY <1>1, BeginType DEF Types
  <2>2. /\ slot' = [slot EXCEPT ![top + 1] = [name |-> n, id |-> defs + 1]]
        /\ ctx'.sym = top + 1 /\ snap'.ctx.sym = 0 /\ top + 1 \in Slots
    BY <1>1, SessionAssumption DEF Begin, Snapshot, Types, TypeOK, Slots
  <2> QED BY <2>1, <2>2 DEF Types, TypeOK
<1>2. ASSUME NEW n \in Name, Extern(n) PROVE Types'
  <2>1. /\ top + 1 \in Slots /\ top' \in 0 .. MaxSyms
        /\ defs + 1 \in 0 .. MaxDefs /\ defs' \in 0 .. MaxDefs
    BY <1>2, SessionAssumption DEF Extern, Types, TypeOK, Slots
  <2>2. [name |-> n, id |-> defs + 1] \in Sym
    BY <2>1 DEF Sym
  <2>3. slot' = [slot EXCEPT ![top + 1] = [name |-> n, id |-> defs + 1]]
    BY <1>2 DEF Extern
  <2>4. slot' \in [Slots -> Sym]
    BY <2>2, <2>3 DEF Types, TypeOK
  <2>5. dict' \subseteq Entry
    BY <1>2, <2>1, DictSetType DEF Extern, Types, TypeOK
  <2>6. UNCHANGED <<cell, len, ctx, snap, modules, imports, error>>
    BY <1>2 DEF Extern, cellVars, modVars
  <2>7. TypeOK'
    BY <2>1, <2>4, <2>5, <2>6 DEF Types, TypeOK
  <2>8. \A i \in Slots : slot[i].name \in Name => slot'[i].name \in Name
    BY <2>3 DEF Types, TypeOK
  <2>9. ctx.sym \in 0 .. MaxSyms /\ snap.ctx.sym \in 0 .. MaxSyms
    BY DEF Types, TypeOK, Ctx
  <2> QED BY <2>6, <2>7, <2>8, <2>9 DEF Types, Slots
<1>3. CASE BeginFull
  BY <1>3, SnapType DEF BeginFull, symVars, cellVars, modVars, Types, TypeOK
<1>4. CASE DeclareLocal \/ Redefine
  <2>1. ctx' \in Ctx /\ ctx'.sym = ctx.sym
    BY <1>4 DEF DeclareLocal, Redefine, Types, TypeOK, Ctx
  <2>2. UNCHANGED <<symVars, cellVars, snap, modVars, error>>
    BY <1>4 DEF DeclareLocal, Redefine
  <2> QED BY <2>1, <2>2, PlainType DEF symVars, cellVars, modVars, Types, TypeOK
<1>5. CASE End
  <2>1. len' \in 0 .. MaxCells /\ UNCHANGED <<slot, top, defs, cell, modules, imports>>
    BY <1>5, SessionAssumption DEF End, modVars, Types, TypeOK
  <2>2. CASE ctx.sym # 0 /\ SemicolonOk
    <3>1. /\ ctx' \in Ctx /\ dict' \subseteq Entry
          /\ snap' \in [ctx : Ctx, len : 0 .. MaxCells, top : 0 .. MaxSyms]
          /\ error' \in {"none", "error", "quit"}
      BY <1>5, <2>2, SemicolonType DEF End, Types
    <3>2. ctx'.sym = 0 /\ snap'.ctx.sym = 0
      BY <2>2 DEF SemicolonOk, Snapshot, NoCtx
    <3> QED BY <2>1, <3>1, <3>2 DEF Types, TypeOK
  <2>3. CASE error' = "error" /\ UNCHANGED <<ctx, snap, dict>>
    BY <2>1, <2>3, PlainType DEF Types, TypeOK
  <2> QED BY <1>5, <2>2, <2>3 DEF End
<1>6. CASE PushCell \/ PopCell
  <2>1. /\ len' \in 0 .. MaxCells
        /\ cell' \in [1 .. MaxCells -> {"semicolon", "other"}]
    <3>1. /\ MaxCells \in Nat /\ len \in 0 .. MaxCells
          /\ cell \in [1 .. MaxCells -> {"semicolon", "other"}]
      BY SessionAssumption DEF Types, TypeOK
    <3>2. CASE PushCell
      <4>1. len < MaxCells /\ len' = len + 1 /\ cell' = [cell EXCEPT ![len + 1] = "other"]
        BY <3>2 DEF PushCell
      <4> QED BY <3>1, <4>1
    <3>3. CASE PopCell
      <4>1. len > 0 /\ len' = len - 1 /\ cell' = cell BY <3>3 DEF PopCell
      <4> QED BY <3>1, <4>1
    <3> QED BY <1>6, <3>2, <3>3
  <2>2. UNCHANGED <<symVars, ctx, snap, modVars, error>>
    BY <1>6 DEF PushCell, PopCell
  <2> QED BY <2>1, <2>2, PlainType DEF symVars, modVars, Types, TypeOK
<1>7. ASSUME NEW f \in File \cup {Stdin}, Import(f) PROVE Types'
  <2>1. Snapshot(ctx, len, top) /\ UNCHANGED <<symVars, cellVars, ctx>>
    BY <1>7 DEF Import
  <2>2. Append(modules, f) \in Seq(Module)
    BY AppendProperties DEF Types, TypeOK
  <2>3. /\ modules' \in Seq(Module) /\ imports' \subseteq File
        /\ error' \in {"none", "error", "quit"}
    BY <1>7, <2>2 DEF Import, modVars, Types, TypeOK
  <2> QED BY <2>1, <2>3, SnapType DEF symVars, cellVars
<1>8. CASE Leave
  <2>1. modules' \in Seq(Module)
    BY <1>8, FrontType DEF Leave, Running, Types, TypeOK
  <2>2. UNCHANGED <<imports, symVars, cellVars, ctx, snap, error>>
    BY <1>8 DEF Leave
  <2> QED BY <2>1, <2>2, PlainType DEF symVars, cellVars, Types, TypeOK
<1>9. CASE Fail \/ Quit
  <2>1. error' \in {"error", "quit"} /\ UNCHANGED <<symVars, cellVars, ctx, snap, modVars>>
    BY <1>9 DEF Fail, Quit
  <2> QED BY <2>1, PlainType DEF symVars, cellVars, modVars, Types, TypeOK
<1>10. CASE Report
  BY <1>10, RewindType, SessionAssumption DEF Report, modVars, Types, TypeOK
<1>11. CASE Unwind
  <2>1. modules' \in Seq(Module)
    BY <1>11, FrontType DEF Unwind, Types, TypeOK
  <2> QED BY <1>11, <2>1, RewindType DEF Unwind, Rewind, Types, TypeOK
<1> QED
  BY <1>1, <1>2, <1>3, <1>4, <1>5, <1>6, <1>7, <1>8, <1>9, <1>10, <1>11 DEF Next

LEMMA TypesInvariant == Spec => []Types
<1>1. Init => Types
  <2> SUFFICES ASSUME Init PROVE Types
    OBVIOUS
  <2>1. slot \in [Slots -> Sym]
    BY SessionAssumption DEF Init, Sym
  <2>2. modules \in Seq(Module)
    BY EmptySeq DEF Init
  <2> QED
    BY <2>1, <2>2, NoCtxType, SessionAssumption
    DEF Init, Types, TypeOK, Module, NoCtx
<1>2. Types /\ [Next]_vars => Types'
  <2>1. CASE UNCHANGED vars
    BY <2>1 DEF Types, TypeOK, vars, symVars, cellVars, modVars
  <2> QED BY <2>1, NextType
<1> QED BY <1>1, <1>2, PTL DEF Spec

\* Every reachable state has the types of the declarations: the lengths stay
\* within the arrays, and standard input is never registered as a file.
THEOREM SessionTypes == Spec => []TypeOK
<1>1. Types => TypeOK
  BY DEF Types
<1> QED BY <1>1, TypesInvariant, PTL

-----------------------------------------------------------------------------
(* Errors, in programs which import no files inside definitions.             *)

\* The snapshot is outside of any definition.
Outside == snap.ctx.sym = 0

LEMMA OutsideInvariant ==
  ASSUME ~EarlyImport
  PROVE  Spec => []Outside
<1>1. Init => Outside
  BY DEF Init, Outside, NoCtx
<1>2. ASSUME Outside, Next PROVE Outside'
  <2>1. CASE snap' = snap
    BY <1>2, <2>1 DEF Outside
  <2>2. CASE \E l, t : Snapshot(ctx, l, t) /\ ctx.sym = 0
    BY <2>2 DEF Outside, Snapshot
  <2>3. CASE \E l, t : Snapshot(NoCtx, l, t)
    BY <2>3 DEF Outside, Snapshot, NoCtx
  <2> QED
    BY <1>2, <2>1, <2>2, <2>3
    DEF Next, Begin, BeginFull, DeclareLocal, Redefine, End, SemicolonOk, Extern,
        PushCell, PopCell, Import, Leave, Fail, Quit, Report, Unwind, Rewind
<1>3. Outside /\ UNCHANGED vars => Outside'
  BY DEF Outside, vars
<1> QED BY <1>1, <1>2, <1>3, PTL DEF Spec

\* Whoever goes on after an error is outside of any definition.
THEOREM ErrorsLeaveDefinitions ==
  ASSUME ~EarlyImport
  PROVE  Spec => ErrorEndsDefinition
<1> DEFINE Step == error # "none" /\ error' = "none" => ctx'.sym = 0
<1>1. Types /\ Outside /\ [Next]_vars => [Step]_vars
  <2> SUFFICES ASSUME Types, Outside, Next, error # "none", error' = "none"
               PROVE  ctx'.sym = 0
    OBVIOUS
  <2>1. Report \/ Unwind
    BY DEF Next, Begin, BeginFull, DeclareLocal, Redefine, End, Extern, PushCell,
           PopCell, Import, Leave, Fail, Quit, Running
  <2>2. ctx' = [snap.ctx EXCEPT !.locals = FALSE]
    BY <2>1 DEF Report, Unwind, Rewind
  <2> QED BY <2>2 DEF Outside, Types, TypeOK, Ctx
<1>2. ErrorEndsDefinition <=> [][Step]_vars
  BY DEF ErrorEndsDefinition
<1> HIDE DEF Step
<1> QED BY <1>1, <1>2, TypesInvariant, OutsideInvariant, PTL DEF Spec

-----------------------------------------------------------------------------
(* Finished words, in programs which declare no externs and import no files  *)
(* inside definitions.                                                       *)

\* Steps which leave the dictionary and the snapshot alone.
LEMMA AboveAfter ==
  ASSUME Types, FinishedKept, UNCHANGED <<dict, snap>>,
         \/ ctx'.sym = ctx.sym /\ top' = top
         \/ ctx'.sym = 0 /\ top' = snap.top
  PROVE  FinishedKept'
BY DEF FinishedKept, Types, TypeOK

\* Steps which take a snapshot and leave the symbols alone.
LEMMA AboveSnapshot ==
  ASSUME Types, FinishedKept, ctx.sym = 0, Snapshot(ctx, len, top),
         UNCHANGED <<dict, ctx, top>>
  PROVE  FinishedKept'
<1>1. snap'.top = top
  BY DEF Snapshot
<1>2. \A e \in dict : e.key <= top /\ e.val <= top
  BY DEF FinishedKept, Types, TypeOK, Entry, Slots
<1> QED BY <1>1, <1>2 DEF FinishedKept, Types, TypeOK

LEMMA BeginAbove ==
  ASSUME Types, FinishedKept, NEW n \in Name, Begin(n)
  PROVE  FinishedKept'
<1>1. /\ snap'.top = top /\ dict' = dict
      /\ ctx'.sym = top + 1 /\ top' = top + 1
  BY DEF Begin, Snapshot
<1>2. \A e \in dict : e.key <= top /\ e.val <= top
  BY DEF FinishedKept, Types, TypeOK, Entry, Slots
<1> QED BY <1>1, <1>2 DEF FinishedKept, Types, TypeOK

\* Finishing a word puts it below the snapshot at once.
LEMMA SemicolonAbove ==
  ASSUME Types, FinishedKept, ctx.sym # 0, SemicolonOk, UNCHANGED top
  PROVE  FinishedKept'
<1>1. snap'.top = top /\ ctx'.sym = 0
  BY DEF SemicolonOk, Snapshot, NoCtx
<1>2. \A e \in dict : e.key <= top /\ e.val <= top
  BY DEF FinishedKept, Types, TypeOK, Entry, Slots
<1>3. ctx.sym <= top
  BY DEF FinishedKept
<1>4. \A e \in dict' : e.key <= top /\ e.val <= top
  <2>1. CASE UNCHANGED dict
    BY <1>2, <2>1
  <2>2. CASE DictSet(dict, slot, slot[ctx.sym].name, ctx.sym)
    <3>1. ASSUME NEW e \in dict
          PROVE  LET f == [e EXCEPT !.val = ctx.sym]
                 IN  f.key <= top /\ f.val <= top
      BY <1>2, <1>3 DEF Types, TypeOK, Entry
    <3>2. LET f == [key |-> ctx.sym, val |-> ctx.sym, hash |-> slot[ctx.sym].name]
          IN  f.key <= top /\ f.val <= top
      BY <1>3
    <3> QED BY <1>2, <2>2, <3>1, <3>2 DEF DictSet
  <2> QED BY <2>1, <2>2 DEF SemicolonOk
<1> QED BY <1>1, <1>4 DEF FinishedKept, Types, TypeOK

LEMMA NextAbove ==
  ASSUME Types, FinishedKept, Outside, ExternName = {}, ~EarlyImport, Next
  PROVE  FinishedKept'
<1>1. ASSUME NEW n \in Name, Begin(n) \/ Extern(n) PROVE FinishedKept'
  BY <1>1, BeginAbove DEF Extern
<1>2. CASE BeginFull
  BY <1>2, AboveSnapshot DEF BeginFull, symVars
<1>3. CASE DeclareLocal \/ Redefine
  <2>1. ctx'.sym = ctx.sym /\ UNCHANGED <<symVars, snap>>
    BY <1>3 DEF DeclareLocal, Redefine, Types, TypeOK, Ctx
  <2> QED BY <2>1, AboveAfter DEF symVars
<1>4. CASE End
  <2>1. UNCHANGED top
    BY <1>4 DEF End
  <2>2. CASE ctx.sym # 0 /\ SemicolonOk
    BY <2>1, <2>2, SemicolonAbove
  <2>3. CASE UNCHANGED <<ctx, snap, dict>>
    BY <2>1, <2>3, AboveAfter
  <2> QED BY <1>4, <2>2, <2>3 DEF End
<1>5. CASE PushCell \/ PopCell \/ Leave \/ Fail \/ Quit
  <2>1. UNCHANGED <<symVars, ctx, snap>>
    BY <1>5 DEF PushCell, PopCell, Leave, Fail, Quit
  <2> QED BY <2>1, AboveAfter DEF symVars
<1>6. ASSUME NEW f \in File \cup {Stdin}, Import(f) PROVE FinishedKept'
  BY <1>6, AboveSnapshot DEF Import, symVars
<1>7. CASE Report \/ Unwind
  <2>1. /\ ctx' = [snap.ctx EXCEPT !.locals = FALSE] /\ top' = snap.top
        /\ UNCHANGED <<dict, snap>>
    BY <1>7 DEF Report, Unwind, Rewind
  <2>2. ctx'.sym = 0
    BY <2>1 DEF Outside, Types, TypeOK, Ctx
  <2> QED BY <2>1, <2>2, AboveAfter
<1> QED BY <1>1, <1>2, <1>3, <1>4, <1>5, <1>6, <1>7 DEF Next

\* No rewind reaches a finished word (interp_rewind, intrin_semicolon).
THEOREM WordsBelowSnapshot ==
  ASSUME ExternName = {}, ~EarlyImport
  PROVE  Spec => []FinishedKept
<1>1. Init => FinishedKept
  BY DEF Init, FinishedKept, NoCtx
<1>2. Types /\ Outside /\ FinishedKept /\ [Next]_vars => FinishedKept'
  <2>1. CASE UNCHANGED vars
    BY <2>1 DEF FinishedKept, vars, symVars
  <2> QED BY <2>1, NextAbove
<1> QED BY <1>1, <1>2, TypesInvariant, OutsideInvariant, PTL DEF Spec

-----------------------------------------------------------------------------
(* Imports *)

\* Files are only left.
LEMMA FrontOnce ==
  ASSUME Types, ReadOnce, modules # <<>>, modules' = Front(modules),
         UNCHANGED imports
  PROVE  ReadOnce'
<1>1. modules \in Seq(Module)
  BY DEF Types, TypeOK, Module
<1>2. /\ Len(modules') = Len(modules) - 1 /\ Len(modules) \in Nat
      /\ \A i \in 1 .. Len(modules) - 1 : modules'[i] = modules[i]
  BY <1>1, FrontType, LenProperties
<1>3. \A i \in 1 .. Len(modules) - 1 : i \in 1 .. Len(modules)
  BY <1>2
<1> QED BY <1>2, <1>3 DEF ReadOnce

\* A file which is entered was not entered before.
LEMMA EnterOnce ==
  ASSUME Types, ReadOnce, NEW f \in File \cup {Stdin}, f \notin imports,
         modules' = Append(modules, f), imports' = imports \cup ({f} \cap File)
  PROVE  ReadOnce'
<1>1. modules \in Seq(Module) /\ Len(modules) \in Nat /\ f \in Module
  BY LenProperties DEF Types, TypeOK, Module
<1>2. /\ Len(modules') = Len(modules) + 1
      /\ \A i \in 1 .. Len(modules) : modules'[i] = modules[i]
      /\ modules'[Len(modules) + 1] = f
  BY <1>1, AppendProperties
<1> SUFFICES ASSUME NEW i \in 1 .. Len(modules'), NEW j \in 1 .. Len(modules'),
                    modules'[i] \in File
             PROVE  /\ modules'[i] \in imports'
                    /\ modules'[i] = modules'[j] => i = j
  BY DEF ReadOnce
<1>3. /\ i \in 1 .. Len(modules) \/ i = Len(modules) + 1
      /\ j \in 1 .. Len(modules) \/ j = Len(modules) + 1
  BY <1>1, <1>2
<1>4. \A k \in 1 .. Len(modules) : modules[k] \in File => modules[k] # f
  BY DEF ReadOnce
<1> QED BY <1>2, <1>3, <1>4 DEF ReadOnce

\* However files import each other, none is read inside itself, and none is
\* read which is not registered (interp_import).
THEOREM FilesReadOnce == Spec => []ReadOnce
<1>1. Init => ReadOnce
  BY DEF Init, ReadOnce
<1>2. Types /\ ReadOnce /\ [Next]_vars => ReadOnce'
  <2> SUFFICES ASSUME Types, ReadOnce, [Next]_vars PROVE ReadOnce'
    OBVIOUS
  <2>1. CASE UNCHANGED modVars
    BY <2>1 DEF ReadOnce, modVars
  <2>2. ASSUME NEW f \in File \cup {Stdin}, Import(f) PROVE ReadOnce'
    <3>1. CASE f \notin imports /\ modules' = Append(modules, f)
               /\ imports' = imports \cup ({f} \cap File)
      BY <3>1, EnterOnce
    <3> QED BY <2>1, <2>2, <3>1 DEF Import, modVars
  <2>3. CASE Leave \/ Unwind
    BY <2>3, FrontOnce DEF Leave, Unwind, Running
  <2>4. CASE UNCHANGED vars
    BY <2>1, <2>4 DEF vars
  <2> QED
    BY <2>1, <2>2, <2>3, <2>4
    DEF Next, Begin, BeginFull, DeclareLocal, Redefine, End, Extern, PushCell,
        PopCell, Fail, Quit, Report
<1> QED BY <1>1, <1>2, TypesInvariant, PTL DEF Spec

-----------------------------------------------------------------------------
(* Cells, in programs which import no files inside definitions. *)

\* The cells a rewind would keep finish nothing.
KeptCells == \A i \in 1 .. snap.len : cell[i] # "semicolon"

\* Outside of definitions there is nothing to finish; inside, the token is the
\* first cell above the snapshot.
TokenPlaced ==
  error = "none" =>
    IF ctx.sym = 0
    THEN \A i \in 1 .. len : cell[i] # "semicolon"
    ELSE /\ snap.len < len
         /\ \A i \in 1 .. len : cell[i] = "semicolon" <=> i = snap.len + 1

CellsPlaced == KeptCells /\ TokenPlaced

LEMMA BeginPlaced ==
  ASSUME Types, CellsPlaced, NEW n \in Name, Begin(n)
  PROVE  CellsPlaced'
<1>1. /\ snap'.len = len /\ ctx'.sym = top + 1 /\ ctx'.sym # 0
      /\ \A i \in 1 .. len : cell[i] # "semicolon"
      /\ len \in 0 .. MaxCells /\ MaxCells \in Nat
  BY SessionAssumption DEF Begin, Snapshot, Running, CellsPlaced, TokenPlaced,
                           Types, TypeOK
<1>2. CASE error' = "error" /\ UNCHANGED cellVars
  BY <1>1, <1>2 DEF CellsPlaced, KeptCells, TokenPlaced, cellVars
<1>3. CASE len < MaxCells /\ cell' = [cell EXCEPT ![len + 1] = "semicolon"]
           /\ len' = len + 1
  <2>1. /\ \A i \in 1 .. len : cell'[i] # "semicolon"
        /\ cell'[len + 1] = "semicolon"
    BY <1>1, <1>3 DEF Types, TypeOK
  <2> QED BY <1>1, <1>3, <2>1 DEF CellsPlaced, KeptCells, TokenPlaced
<1> QED BY <1>2, <1>3 DEF Begin

LEMMA EndPlaced ==
  ASSUME Types, CellsPlaced, End
  PROVE  CellsPlaced'
<1>1. /\ error = "none" /\ len' = len - 1 /\ cell' = cell /\ len > 0
      /\ cell[len] = "semicolon" /\ len \in Nat
  BY DEF End, Running, Types, TypeOK
<1>2. CASE ctx.sym # 0 /\ SemicolonOk
  <2>1. snap'.len = len - 1 /\ ctx'.sym = 0
    BY <1>2 DEF SemicolonOk, Snapshot, NoCtx
  <2>2. len = snap.len + 1
    BY <1>1, <1>2 DEF CellsPlaced, TokenPlaced
  <2>3. \A i \in 1 .. len - 1 : cell[i] # "semicolon"
    BY <1>1, <2>2 DEF CellsPlaced, KeptCells, Types, TypeOK
  <2> QED BY <1>1, <2>1, <2>3 DEF CellsPlaced, KeptCells, TokenPlaced
<1>3. CASE error' = "error" /\ UNCHANGED <<ctx, snap, dict>>
  BY <1>1, <1>3 DEF CellsPlaced, KeptCells, TokenPlaced
<1> QED BY <1>2, <1>3 DEF End

\* Steps which take a snapshot outside of definitions.
LEMMA SnapPlaced ==
  ASSUME Types, CellsPlaced, error = "none", ctx.sym = 0,
         Snapshot(ctx, len, top), UNCHANGED <<ctx, cell, len>>
  PROVE  CellsPlaced'
BY DEF CellsPlaced, KeptCells, TokenPlaced, Snapshot, Types, TypeOK

LEMMA NextPlaced ==
  ASSUME Types, Outside, CellsPlaced, ~EarlyImport, Next
  PROVE  CellsPlaced'
<1>1. ASSUME NEW n \in Name, Begin(n) \/ Extern(n) PROVE CellsPlaced'
  <2>1. CASE Begin(n)
    BY <2>1, BeginPlaced
  <2>2. CASE Extern(n)
    BY <2>2 DEF Extern, cellVars, CellsPlaced, KeptCells, TokenPlaced
  <2> QED BY <1>1, <2>1, <2>2
<1>2. CASE BeginFull
  <2>1. error' = "error" /\ snap'.len = len /\ error = "none" /\ ctx.sym = 0
        /\ UNCHANGED <<cell, len>>
    BY <1>2 DEF BeginFull, Snapshot, Running, cellVars
  <2> QED BY <2>1 DEF CellsPlaced, KeptCells, TokenPlaced
<1>3. CASE DeclareLocal \/ Redefine
  <2>1. ctx'.sym = ctx.sym /\ UNCHANGED <<cellVars, snap, error>>
    BY <1>3 DEF DeclareLocal, Redefine, Types, TypeOK, Ctx
  <2> QED BY <2>1 DEF CellsPlaced, KeptCells, TokenPlaced, cellVars
<1>4. CASE End
  BY <1>4, EndPlaced
<1>5. CASE PushCell
  <2>1. /\ error = "none" /\ UNCHANGED <<ctx, snap, error>>
        /\ len' = len + 1 /\ len \in Nat /\ snap.len \in Nat
        /\ len + 1 \in 1 .. MaxCells
        /\ \A i \in 1 .. MaxCells :
             cell'[i] = IF i = len + 1 THEN "other" ELSE cell[i]
    BY <1>5, SessionAssumption DEF PushCell, Running, Types, TypeOK
  <2>2. KeptCells'
    BY <2>1, SessionAssumption DEF CellsPlaced, KeptCells, Types, TypeOK
  <2>3. TokenPlaced'
    BY <2>1, SessionAssumption DEF CellsPlaced, TokenPlaced, Types, TypeOK
  <2> QED BY <2>2, <2>3 DEF CellsPlaced
<1>6. CASE PopCell
  <2>1. /\ len' = len - 1 /\ len > 0 /\ cell[len] # "semicolon" /\ len \in Nat
        /\ snap.len \in Nat /\ UNCHANGED <<cell, ctx, snap, error>>
    BY <1>6 DEF PopCell, Types, TypeOK
  <2> QED BY <2>1 DEF CellsPlaced, KeptCells, TokenPlaced
<1>7. ASSUME NEW f \in File \cup {Stdin}, Import(f) PROVE CellsPlaced'
  BY <1>7, SnapPlaced DEF Import, cellVars
<1>8. CASE Leave \/ Fail \/ Quit
  BY <1>8
  DEF Leave, Fail, Quit, cellVars, CellsPlaced, KeptCells, TokenPlaced
<1>9. CASE Report \/ Unwind
  <2>1. /\ ctx' = [snap.ctx EXCEPT !.locals = FALSE]
        /\ len' = 0 \/ len' = snap.len
        /\ UNCHANGED <<cell, snap>>
    BY <1>9 DEF Report, Unwind, Rewind
  <2>2. ctx'.sym = 0
    BY <2>1 DEF Outside, Types, TypeOK, Ctx
  <2> QED BY <2>1, <2>2 DEF CellsPlaced, KeptCells, TokenPlaced
<1> QED BY <1>1, <1>2, <1>3, <1>4, <1>5, <1>6, <1>7, <1>8, <1>9 DEF Next

\* Where the token is, counted.
LEMMA PlacedMatch ==
  ASSUME Types, CellsPlaced
  PROVE  CellsMatch
<1> DEFINE tokens == {i \in 1 .. len : cell[i] = "semicolon"}
<1>1. CASE error # "none"
  BY <1>1 DEF CellsMatch
<1>2. CASE error = "none" /\ ctx.sym = 0
  <2>1. tokens = {}
    BY <1>2 DEF CellsPlaced, TokenPlaced
  <2> QED BY <1>2, <2>1, FS_EmptySet DEF CellsMatch
<1>3. CASE error = "none" /\ ctx.sym # 0
  <2>1. tokens = {snap.len + 1}
    BY <1>3 DEF CellsPlaced, TokenPlaced, Types, TypeOK
  <2> QED BY <1>3, <2>1, FS_Singleton DEF CellsMatch
<1> QED BY <1>1, <1>2, <1>3

\* `end' finds the token of the open definition, and no token but that, however
\* errors rewind the cells and the compiler (interp_snapshot, interp_rewind).
THEOREM TokensMatchDefinitions ==
  ASSUME ~EarlyImport
  PROVE  Spec => []CellsMatch
<1>1. Init => CellsPlaced
  BY DEF Init, CellsPlaced, KeptCells, TokenPlaced, NoCtx
<1>2. Types /\ Outside /\ CellsPlaced /\ [Next]_vars => CellsPlaced'
  <2>1. CASE UNCHANGED vars
    BY <2>1 DEF CellsPlaced, KeptCells, TokenPlaced, vars, cellVars
  <2> QED BY <2>1, NextPlaced
<1>3. Types /\ CellsPlaced => CellsMatch
  BY PlacedMatch
<1> QED BY <1>1, <1>2, <1>3, TypesInvariant, OutsideInvariant, PTL DEF Spec

-----------------------------------------------------------------------------
(* The interpreter implements Wordlist: whatever is begun, abandoned,         *)
(* imported or rewound, a name leads to the word finished last under it.      *)
(* For programs which declare no externs and import no files inside           *)
(* definitions.                                                               *)

\* The dictionary reads as it was written: no slot under an entry was reused.
Readable ==
  \A e \in dict : slot[e.key].name = e.hash /\ slot[e.val].name = e.hash

\* No name has two entries.
Distinct == \A e, f \in dict : e.hash = f.hash => e = f

\* The symbol being defined is younger than all finished ones.
Youngest ==
  /\ \A e \in dict : slot[e.val].id <= defs
  /\ ctx.sym # 0 => /\ defs > 0 /\ slot[ctx.sym].id = defs
                    /\ \A e \in dict : slot[e.val].id < defs

Kept == Types /\ FinishedKept /\ Readable /\ Distinct /\ Youngest

WordsNow == [n \in Name |-> Lookup(n)]

-----------------------------------------------------------------------------
LEMMA BelowTop ==
  ASSUME Kept, NEW e \in dict
  PROVE  /\ e \in Entry /\ e.key \in Slots /\ e.val \in Slots /\ e.hash \in Name
         /\ e.key <= top /\ e.val <= top /\ e.key # top + 1 /\ e.val # top + 1
<1>1. e \in Entry /\ e.key \in Slots /\ e.val \in Slots /\ e.hash \in Name
  BY DEF Kept, Types, TypeOK, Entry
<1>2. /\ e.key <= snap.top /\ e.val <= snap.top /\ snap.top <= top
      /\ snap.top \in Nat /\ top \in Nat /\ e.key \in Nat /\ e.val \in Nat
  BY <1>1 DEF Kept, FinishedKept, Types, TypeOK, Slots
<1> QED BY <1>1, <1>2

\* Steps which change no symbol under the dictionary change no word.
LEMMA SameWords ==
  ASSUME Kept, dict' = dict,
         \A e \in dict : slot'[e.key] = slot[e.key] /\ slot'[e.val] = slot[e.val]
  PROVE  Readable' /\ Distinct' /\ WordsNow' = WordsNow
<1>1. Readable' /\ Distinct'
  BY DEF Kept, Readable, Distinct
<1>2. \A n : Matching(n)' = Matching(n) /\ Matching(n) \subseteq dict
  BY DEF Matching
<1>3. \A n : Lookup(n)' = Lookup(n)
  BY <1>2 DEF Lookup
<1> QED BY <1>1, <1>3 DEF WordsNow

LEMMA BeginKept ==
  ASSUME Kept, NEW n \in Name, Begin(n)
  PROVE  Readable' /\ Distinct' /\ Youngest' /\ WordsNow' = WordsNow
<1>1. /\ dict' = dict /\ ctx'.sym = top + 1 /\ defs' = defs + 1 /\ defs \in Nat
      /\ top + 1 \in Slots
      /\ slot' = [slot EXCEPT ![top + 1] = [name |-> n, id |-> defs + 1]]
  BY SessionAssumption DEF Begin, Kept, Types, TypeOK, Slots
<1>2. slot'[top + 1].id = defs + 1
  BY <1>1 DEF Kept, Types, TypeOK
<1>3. \A e \in dict : slot'[e.key] = slot[e.key] /\ slot'[e.val] = slot[e.val]
  BY <1>1, BelowTop DEF Kept, Types, TypeOK
<1>4. \A e \in dict : slot[e.val].id \in Nat
  BY BelowTop DEF Kept, Types, TypeOK, Sym
<1>5. Youngest'
  BY <1>1, <1>2, <1>3, <1>4 DEF Kept, Youngest
<1> QED BY <1>1, <1>3, <1>5, SameWords

-----------------------------------------------------------------------------
(* Finishing a word *)

\* dict_set, when names read as they were written.
LEMMA DictSetKept ==
  ASSUME Kept, NEW v \in Slots, NEW n \in Name, slot[v].name = n,
         slot' = slot, DictSet(dict, slot, n, v)
  PROVE  /\ Readable' /\ Distinct'
         /\ \A m \in Name \ {n} : Matching(m)' = Matching(m)
         /\ \A e \in Matching(n)' : e.val = v
         /\ Matching(n)' # {}
         /\ \A e \in dict' : e \in dict \/ e.val = v
<1> DEFINE matching == {e \in dict : slot[e.key].name = n}
<1>1. matching = {e \in dict : e.hash = n}
  BY DEF Kept, Readable
<1>2. CASE \E e \in matching : dict' = (dict \ {e}) \cup {[e EXCEPT !.val = v]}
  <2>1. PICK e \in matching : dict' = (dict \ {e}) \cup {[e EXCEPT !.val = v]}
    BY <1>2
  <2> DEFINE f == [e EXCEPT !.val = v]
  <2>2. e \in dict /\ e.hash = n /\ slot[e.key].name = n
    BY <1>1
  <2>3. f.key = e.key /\ f.hash = n /\ f.val = v
    BY <2>2, BelowTop DEF Entry
  <2>4. dict' = (dict \ {e}) \cup {f}
    BY <2>1
  <2>5. \A g \in dict \ {e} : g.hash # n /\ slot[g.key].name # n
    BY <2>2 DEF Kept, Distinct, Readable
  <2> HIDE DEF f, matching
  <2>6. Readable' /\ Distinct'
    BY <2>2, <2>3, <2>4, <2>5 DEF Kept, Readable, Distinct
  <2>7. \A m \in Name \ {n} : Matching(m)' = Matching(m)
    BY <2>2, <2>3, <2>4 DEF Matching
  <2>8. Matching(n)' = {f}
    BY <2>2, <2>3, <2>4, <2>5 DEF Matching
  <2> QED BY <2>3, <2>4, <2>6, <2>7, <2>8
<1>3. CASE /\ \A e \in matching : e.hash # n
           /\ dict' = dict \cup {[key |-> v, val |-> v, hash |-> n]}
  <2> DEFINE f == [key |-> v, val |-> v, hash |-> n]
  <2>1. f.key = v /\ f.hash = n /\ f.val = v
    OBVIOUS
  <2>2. dict' = dict \cup {f}
    BY <1>3
  <2>3. \A g \in dict : g.hash # n /\ slot[g.key].name # n
    BY <1>1, <1>3 DEF Kept, Readable
  <2> HIDE DEF f, matching
  <2>4. Readable' /\ Distinct'
    BY <2>1, <2>2, <2>3 DEF Kept, Readable, Distinct
  <2>5. \A m \in Name \ {n} : Matching(m)' = Matching(m)
    BY <2>1, <2>2 DEF Matching
  <2>6. Matching(n)' = {f}
    BY <2>1, <2>2, <2>3 DEF Matching
  <2> QED BY <2>1, <2>2, <2>4, <2>5, <2>6
<1> QED BY <1>2, <1>3 DEF DictSet

\* The end of a definition is the only step of the wordlist.
LEMMA SemicolonKept ==
  ASSUME Kept, ctx.sym # 0, SemicolonOk, UNCHANGED <<slot, defs>>
  PROVE  /\ Readable' /\ Distinct' /\ Youngest'
         /\ [Words!Next]_WordsNow
<1>1. /\ ctx'.sym = 0 /\ ctx.sym \in Slots /\ slot[ctx.sym].name \in Name
      /\ defs \in 1 .. MaxDefs /\ slot[ctx.sym].id = defs
  BY DEF SemicolonOk, NoCtx, Kept, Youngest, Types, TypeOK, Ctx, Slots
<1>2. CASE UNCHANGED dict
  <2>1. Readable' /\ Distinct' /\ WordsNow' = WordsNow
    BY <1>2, SameWords
  <2>2. Youngest'
    BY <1>1, <1>2 DEF Kept, Youngest
  <2> QED BY <2>1, <2>2
<1>3. CASE DictSet(dict, slot, slot[ctx.sym].name, ctx.sym)
  <2>0. PICK n \in Name : n = slot[ctx.sym].name
    BY <1>1
  <2>1. /\ Readable' /\ Distinct'
        /\ \A m \in Name \ {n} : Matching(m)' = Matching(m)
        /\ \A e \in Matching(n)' : e.val = ctx.sym
        /\ Matching(n)' # {}
        /\ \A e \in dict' : e \in dict \/ e.val = ctx.sym
    BY <1>1, <1>3, <2>0, DictSetKept
  <2>2. Youngest'
    BY <1>1, <2>1 DEF Kept, Youngest
  <2>3. Lookup(n)' = {defs}
    BY <1>1, <2>1 DEF Lookup
  <2>4. \A m \in Name \ {n} : Lookup(m)' = Lookup(m)
    BY <2>1 DEF Lookup
  <2>5. \A m \in Name : \A d \in WordsNow[m] : d < defs
    BY DEF WordsNow, Lookup, Matching, Kept, Youngest
  <2>6. WordsNow' = [WordsNow EXCEPT ![n] = {defs}]
    BY <1>1, <2>3, <2>4 DEF WordsNow
  <2>7. Words!Define(n, defs)
    BY <2>5, <2>6 DEF Words!Define, WordsNow
  <2> QED BY <1>1, <2>1, <2>2, <2>7 DEF Words!Next
<1> QED BY <1>2, <1>3 DEF SemicolonOk

-----------------------------------------------------------------------------
\* Steps which leave the symbols alone, or rewind.
LEMMA QuietKept ==
  ASSUME Kept, UNCHANGED <<slot, dict, defs>>, ctx'.sym \in {0, ctx.sym}
  PROVE  Readable' /\ Distinct' /\ Youngest' /\ WordsNow' = WordsNow
<1>1. Readable' /\ Distinct' /\ WordsNow' = WordsNow
  BY SameWords
<1>2. Youngest'
  BY DEF Kept, Youngest
<1> QED BY <1>1, <1>2

LEMMA NextKept ==
  ASSUME Kept, Outside, ExternName = {}, [Next]_vars
  PROVE  Readable' /\ Distinct' /\ Youngest' /\ [Words!Next]_WordsNow
<1>1. ASSUME NEW n \in Name, Begin(n) \/ Extern(n)
      PROVE  Readable' /\ Distinct' /\ Youngest' /\ [Words!Next]_WordsNow
  BY <1>1, BeginKept DEF Extern
<1>2. CASE End
  <2>1. UNCHANGED <<slot, defs>>
    BY <1>2 DEF End
  <2>2. CASE ctx.sym # 0 /\ SemicolonOk
    BY <2>1, <2>2, SemicolonKept
  <2>3. CASE UNCHANGED <<ctx, snap, dict>>
    BY <2>1, <2>3, QuietKept
  <2> QED BY <1>2, <2>2, <2>3 DEF End
<1>3. CASE /\ UNCHANGED <<slot, dict, defs>>
           /\ \/ ctx' = ctx \/ DeclareLocal \/ Redefine
              \/ ctx' = [snap.ctx EXCEPT !.locals = FALSE]
  <2>1. ctx'.sym \in {0, ctx.sym}
    BY <1>3
    DEF DeclareLocal, Redefine, Outside, Kept, Types, TypeOK, Ctx
  <2> QED BY <1>3, <2>1, QuietKept
<1>4. ASSUME NEW f \in File \cup {Stdin}, Import(f)
      PROVE  UNCHANGED <<slot, dict, defs, ctx>>
  BY <1>4 DEF Import, symVars
<1>5. CASE UNCHANGED vars
  BY <1>3, <1>5 DEF vars, symVars
<1>6. CASE BeginFull \/ PushCell \/ PopCell \/ Leave \/ Fail \/ Quit
  <2>1. UNCHANGED <<slot, dict, defs, ctx>>
    BY <1>6 DEF BeginFull, PushCell, PopCell, Leave, Fail, Quit, symVars
  <2> QED BY <1>3, <2>1
<1>7. CASE DeclareLocal \/ Redefine
  BY <1>3, <1>7 DEF DeclareLocal, Redefine, symVars
<1>8. CASE Report \/ Unwind
  BY <1>3, <1>8 DEF Report, Unwind, Rewind
<1> QED BY <1>1, <1>2, <1>3, <1>4, <1>5, <1>6, <1>7, <1>8 DEF Next

\* The interpreter implements the wordlist: a finished word stays what it is
\* until another of that name is finished (dict_set, interp_rewind,
\* intrin_semicolon).
THEOREM WordsStay ==
  ASSUME ExternName = {}, ~EarlyImport
  PROVE  Spec => WordsKept
<1>1. Init => Readable /\ Distinct /\ Youngest
  BY DEF Init, Readable, Distinct, Youngest, NoCtx
<1>2. Init => Words!Init
  BY DEF Init, Words!Init, Lookup, Matching
<1>3. /\ Types /\ Outside /\ FinishedKept /\ Readable /\ Distinct /\ Youngest
      /\ [Next]_vars
      => Readable' /\ Distinct' /\ Youngest' /\ [Words!Next]_WordsNow
  BY NextKept DEF Kept
<1>4. Spec => []FinishedKept
  BY WordsBelowSnapshot
<1>5. WordsKept <=> Words!Init /\ [][Words!Next]_WordsNow
  BY DEF WordsKept, Words!Spec, WordsNow
<1> QED
  BY <1>1, <1>2, <1>3, <1>4, <1>5, TypesInvariant, OutsideInvariant, PTL DEF Spec
=============================================================================
