------------------------------ MODULE Session ------------------------------
(***************************************************************************)
(* The interpreter session (comp/interp_internal.c, comp/intrin.c): words  *)
(* begun and finished, the symbol list and the dictionary, imports nested  *)
(* in each other, and the single snapshot to which an error takes          *)
(* everything back.                                                        *)
(*                                                                         *)
(* A program is any order of the operations below.  Any of them may end in *)
(* an error (Fail), which leaves the modules one by one until a terminal   *)
(* or a program catches it.  One wordlist is modelled of the two, which    *)
(* share the symbol list.  Symbols and cells are arrays, since rewinding   *)
(* moves their tops and leaves their contents.                             *)
(***************************************************************************)
EXTENDS Integers, Sequences, FiniteSets, SequencesExt

CONSTANTS
  Name,        \* names a program gives to words
  File,        \* files a program may import
  Stdin,       \* standard input, /dev/stdin
  Terminal,    \* standard input is a terminal
  Slop,        \* interp->slop, inherited by every module
  ExternName,  \* names declared by `extern:'
  EarlyImport, \* programs import files inside unfinished definitions
  Catches,     \* programs handle errors of `.use'
  None,        \* no symbol
  MaxSyms,     \* capacity of the symbol list
  MaxCells,    \* capacity of the cell stack
  MaxDefs,     \* bound on symbols ever pushed
  MaxDepth     \* bound on nested imports

ASSUME SessionAssumption ==
  /\ MaxSyms \in Nat /\ MaxCells \in Nat /\ MaxDefs \in Nat /\ MaxDepth \in Nat
  /\ Stdin \notin File /\ None \notin Name /\ ExternName \subseteq Name
  /\ {Terminal, Slop, EarlyImport, Catches} \subseteq BOOLEAN

VARIABLES
  slot,     \* the array behind interp->syms: who was put there last
  top,      \* the length of interp->syms
  dict,     \* dict_exec: entries [key, val], both slots, [hash] a name
  cell,     \* the array behind interp->cells
  len,      \* its length
  ctx,      \* comp.ctx: current symbol, whether it has locals, redefining
  snap,     \* interp->snap
  modules,  \* the chain of interp->module, outermost first
  imports,  \* interp->imports
  error,    \* the error being returned, or "none"
  defs      \* how many symbols were ever pushed

symVars == <<slot, top, dict, defs>>
cellVars == <<cell, len>>
modVars == <<modules, imports>>
vars == <<symVars, cellVars, ctx, snap, modVars, error>>

Slots == 1 .. MaxSyms
Sym   == [name : Name \cup {None}, id : 0 .. MaxDefs]
Ctx   == [sym : 0 .. MaxSyms, locals : BOOLEAN, redefining : BOOLEAN]
Entry == [key : Slots, val : Slots, hash : Name]

\* comp_ctx_trunc.
NoCtx == [sym |-> 0, locals |-> FALSE, redefining |-> FALSE]

Running == error = "none" /\ modules # <<>>

-----------------------------------------------------------------------------
(* Snapshots and dictionaries *)

\* interp_snapshot.  It refuses a context which has locals.
Snapshot(c, l, t) == snap' = [ctx |-> c, len |-> l, top |-> t]

\* As Rewind, without the cells.
RewindKeepingCells ==
  /\ ctx' = [snap.ctx EXCEPT !.locals = FALSE]
  /\ top' = snap.top
  /\ len' = len

\* interp_rewind.
Rewind ==
  /\ ctx' = [snap.ctx EXCEPT !.locals = FALSE]
  /\ top' = snap.top
  /\ len' = snap.len

\* The entries whose key reads as n now.  The key is a pointer into a slot.
Matching(n) == {e \in dict : slot[e.key].name = n}

\* As DictSet, by a table which does not look for the key.
DictSetAdds(d, s, n, v) == dict' = d \cup {[key |-> v, val |-> v, hash |-> n]}

\* dict_set in the dictionary d of the symbols s.  A matching entry keeps its
\* key and gets the new value.  It is certain to be met on the way to a free
\* entry only if it was inserted under that name.
DictSet(d, s, n, v) ==
  LET matching == {e \in d : s[e.key].name = n} IN
  \/ \E e \in matching : dict' = (d \ {e}) \cup {[e EXCEPT !.val = v]}
  \/ /\ \A e \in matching : e.hash # n
     /\ dict' = d \cup {[key |-> v, val |-> v, hash |-> n]}

\* interp_validate_redefinition refuses: the name is taken, and nothing allows
\* to take it again.
Refused(n, redefining) ==
  /\ ~Slop /\ ~redefining /\ Matching(n) # {}
  /\ modules # <<>> => ~(Last(modules) = Stdin /\ Terminal)

-----------------------------------------------------------------------------
(* Defining words *)

\* As Begin, by an interpreter which takes the snapshot after the new symbol.
BeginSnapshotLate(n) ==
  /\ Running /\ ctx.sym = 0
  /\ top < MaxSyms /\ defs < MaxDefs
  /\ slot' = [slot EXCEPT ![top + 1] = [name |-> n, id |-> defs + 1]]
  /\ top' = top + 1
  /\ defs' = defs + 1
  /\ \E locals \in BOOLEAN :
       ctx' = [sym |-> top + 1, locals |-> locals, redefining |-> FALSE]
  /\ Snapshot([ctx' EXCEPT !.locals = FALSE], len, top + 1)
  /\ len < MaxCells
  /\ cell' = [cell EXCEPT ![len + 1] = "semicolon"]
  /\ len' = len + 1
  /\ UNCHANGED <<dict, modVars, error>>

\* `fun:'.  The snapshot comes first, then the symbol, which no dictionary
\* mentions yet, then the parameters, some of which may be locals, then the
\* execution token for `end'.  The parameters or the cell may be refused.
Begin(n) ==
  /\ Running /\ ctx.sym = 0
  /\ Snapshot(ctx, len, top)
  /\ top < MaxSyms /\ defs < MaxDefs
  /\ slot' = [slot EXCEPT ![top + 1] = [name |-> n, id |-> defs + 1]]
  /\ top' = top + 1
  /\ defs' = defs + 1
  /\ \E locals \in BOOLEAN :
       ctx' = [sym |-> top + 1, locals |-> locals, redefining |-> FALSE]
  /\ \/ /\ len < MaxCells
        /\ cell' = [cell EXCEPT ![len + 1] = "semicolon"]
        /\ len' = len + 1
        /\ UNCHANGED error
     \/ error' = "error" /\ UNCHANGED cellVars
  /\ UNCHANGED <<dict, modVars>>

\* The same, when the symbol list is full.
BeginFull ==
  /\ Running /\ ctx.sym = 0 /\ top = MaxSyms
  /\ Snapshot(ctx, len, top)
  /\ error' = "error"
  /\ UNCHANGED <<symVars, cellVars, ctx, modVars>>

\* A name in braces becomes a local of the current word.
DeclareLocal ==
  /\ Running /\ ctx.sym # 0
  /\ ctx' = [ctx EXCEPT !.locals = TRUE]
  /\ UNCHANGED <<symVars, cellVars, snap, modVars, error>>

\* `.redefine'.
Redefine ==
  /\ Running /\ ctx.sym # 0
  /\ ctx' = [ctx EXCEPT !.redefining = TRUE]
  /\ UNCHANGED <<symVars, cellVars, snap, modVars, error>>

\* As SemicolonOk, without its snapshot.
SemicolonUnsnapped ==
  LET n == slot[ctx.sym].name IN
  /\ ctx' = NoCtx
  /\ IF Refused(n, ctx.redefining)
     THEN error' = "error" /\ UNCHANGED dict
     ELSE DictSet(dict, slot, n, ctx.sym) /\ UNCHANGED error
  /\ UNCHANGED snap

\* The end of intrin_semicolon: the snapshot keeps the symbol even if its name
\* is then refused.
SemicolonOk ==
  LET n == slot[ctx.sym].name IN
  /\ ctx' = NoCtx
  /\ Snapshot(NoCtx, len - 1, top)
  /\ IF Refused(n, ctx.redefining)
     THEN error' = "error" /\ UNCHANGED dict
     ELSE DictSet(dict, slot, n, ctx.sym) /\ UNCHANGED error

\* `end' when the token on the cells is that of `;': intrin_end pops it and
\* calls intrin_semicolon, which may refuse the word (its outputs, its name, an
\* unused local), and always does outside a definition.
End ==
  /\ Running
  /\ len > 0 /\ cell[len] = "semicolon"
  /\ len' = len - 1
  /\ \/ ctx.sym # 0 /\ SemicolonOk
     \/ error' = "error" /\ UNCHANGED <<ctx, snap, dict>>
  /\ UNCHANGED <<slot, top, defs, cell, modVars>>

\* `extern:', interp_extern_fun: the symbol is visible at once, and there is no
\* snapshot.
Extern(n) ==
  /\ Running /\ n \in ExternName
  /\ ~Refused(n, ctx.redefining)
  /\ top < MaxSyms /\ defs < MaxDefs
  /\ slot' = [slot EXCEPT ![top + 1] = [name |-> n, id |-> defs + 1]]
  /\ top' = top + 1
  /\ defs' = defs + 1
  /\ DictSet(dict, slot', n, top + 1)
  /\ UNCHANGED <<cellVars, ctx, snap, modVars, error>>

-----------------------------------------------------------------------------
(* Cells: numbers, and the tokens and addresses of control structures.  No   *)
(* program takes the token of its own definition away.                       *)

PushCell ==
  /\ Running /\ len < MaxCells
  /\ cell' = [cell EXCEPT ![len + 1] = "other"]
  /\ len' = len + 1
  /\ UNCHANGED <<symVars, ctx, snap, modVars, error>>

PopCell ==
  /\ Running /\ len > 0 /\ cell[len] # "semicolon"
  /\ len' = len - 1
  /\ UNCHANGED <<cell, symVars, ctx, snap, modVars, error>>

-----------------------------------------------------------------------------
(* Imports and errors *)

\* As Import, by an interpreter which does not register the file.
ImportUnregistered(f) ==
  /\ error = "none" /\ Len(modules) < MaxDepth
  /\ f \notin imports
  /\ ctx.sym = 0 \/ EarlyImport
  /\ ~ctx.locals
  /\ Snapshot(ctx, len, top)
  /\ modules' = Append(modules, f)
  /\ UNCHANGED <<imports, symVars, cellVars, ctx, error>>

\* As Import, by an interpreter which registers its standard input too.
ImportStdinOnce(f) ==
  /\ error = "none" /\ Len(modules) < MaxDepth
  /\ ctx.sym = 0 \/ EarlyImport
  /\ ~ctx.locals
  /\ Snapshot(ctx, len, top)
  /\ IF f \in imports THEN UNCHANGED modVars
     ELSE modules' = Append(modules, f) /\ imports' = imports \cup {f}
  /\ UNCHANGED <<symVars, cellVars, ctx, error>>

\* interp_import, by `use'' or from the command line: the snapshot is refused
\* if there are locals.  A file is registered before it is interpreted, and is
\* not read again; it may be missing, which nobody handles here.
Import(f) ==
  /\ error = "none" /\ Len(modules) < MaxDepth
  /\ ctx.sym = 0 \/ EarlyImport
  /\ ~ctx.locals
  /\ Snapshot(ctx, len, top)
  /\ \/ f \in imports /\ UNCHANGED <<modVars, error>>
     \/ /\ f \notin imports
        /\ modules' = Append(modules, f)
        /\ imports' = imports \cup ({f} \cap File)
        /\ UNCHANGED error
     \/ f \in File \ imports /\ error' = "error" /\ UNCHANGED modVars
  /\ UNCHANGED <<symVars, cellVars, ctx>>

\* The end of a file, or of the input; an open definition stays open.
Leave ==
  /\ Running
  /\ modules' = Front(modules)
  /\ UNCHANGED <<imports, symVars, cellVars, ctx, snap, error>>

\* Any operation may fail before it changes anything.
Fail ==
  /\ Running
  /\ error' = "error"
  /\ UNCHANGED <<symVars, cellVars, ctx, snap, modVars>>

\* `.quit'.
Quit ==
  /\ Running /\ ctx.sym = 0
  /\ error' = "quit"
  /\ UNCHANGED <<symVars, cellVars, ctx, snap, modVars>>

\* interp_on_tty_err: report, rewind, drop all cells and read on.
Report ==
  /\ error # "none" /\ modules # <<>>
  /\ Last(modules) = Stdin /\ Terminal
  /\ ctx' = [snap.ctx EXCEPT !.locals = FALSE]
  /\ top' = snap.top
  /\ len' = 0
  /\ error' = "none"
  /\ UNCHANGED <<slot, dict, defs, cell, snap, modVars>>

\* As Unwind, by an interpreter which stays in the module.
UnwindInPlace ==
  /\ error # "none" /\ modules # <<>>
  /\ ~(Last(modules) = Stdin /\ Terminal)
  /\ Rewind
  /\ UNCHANGED <<modVars, error, slot, dict, defs, cell, snap>>

\* The last lines of interp_import after an error.  The word which called
\* `.use' may handle the error, which ends it; the command line does not.
Unwind ==
  /\ error # "none" /\ modules # <<>>
  /\ ~(Last(modules) = Stdin /\ Terminal)
  /\ Rewind
  /\ modules' = Front(modules)
  /\ error' \in {error} \cup (IF Catches /\ Len(modules) > 1 THEN {"none"} ELSE {})
  /\ UNCHANGED <<imports, slot, dict, defs, cell, snap>>

-----------------------------------------------------------------------------
Init ==
  /\ slot = [s \in Slots |-> [name |-> None, id |-> 0]] /\ top = 0
  /\ dict = {} /\ defs = 0
  /\ cell = [i \in 1 .. MaxCells |-> "other"] /\ len = 0
  /\ ctx = NoCtx
  /\ snap = [ctx |-> NoCtx, len |-> 0, top |-> 0]
  /\ modules = <<>> /\ imports = {}
  /\ error = "none"

Next ==
  \/ \E n \in Name : Begin(n) \/ Extern(n)
  \/ BeginFull \/ DeclareLocal \/ Redefine \/ End
  \/ PushCell \/ PopCell
  \/ \E f \in File \cup {Stdin} : Import(f)
  \/ Leave \/ Fail \/ Quit \/ Report \/ Unwind

Spec == Init /\ [][Next]_vars

\* An error is returned through C functions, which do not wait for anything.
FairSpec == Spec /\ WF_vars(Report) /\ WF_vars(Unwind)

-----------------------------------------------------------------------------
(* Properties *)

\* The types of the variables.
TypeOK ==
  /\ slot \in [Slots -> Sym] /\ top \in 0 .. MaxSyms
  /\ dict \subseteq Entry /\ defs \in 0 .. MaxDefs
  /\ cell \in [1 .. MaxCells -> {"semicolon", "other"}] /\ len \in 0 .. MaxCells
  /\ ctx \in Ctx
  /\ snap \in [ctx : Ctx, len : 0 .. MaxCells, top : 0 .. MaxSyms]
  /\ modules \in Seq(File \cup {Stdin}) /\ imports \subseteq File
  /\ error \in {"none", "error", "quit"}

\* dict_get: what a name may lead to, by the symbols in the slots now.
Lookup(n) == {slot[e.val].id : e \in Matching(n)}

\* A finished word stays what it is until another of that name is finished,
\* whatever is begun, abandoned, imported or rewound (interp_rewind, the key
\* pointers of dict_set).
Words == INSTANCE Wordlist WITH Def <- 1 .. MaxDefs,
                                 words <- [n \in Name |-> Lookup(n)]
WordsKept == Words!Spec

\* intrin.c:53: a word is not visible while it is being defined.
NotYetVisible ==
  ctx.sym # 0 => \A e \in dict : e.val # ctx.sym

\* A rewind can only drop symbols no dictionary leads to: what is finished is
\* below the snapshot, the unfinished symbol is above it.
FinishedKept ==
  /\ \A e \in dict : e.key <= snap.top /\ e.val <= snap.top
  /\ snap.top <= top
  /\ ctx.sym # 0 => snap.top < ctx.sym /\ ctx.sym <= top

\* An open definition is on the cells exactly once, for `end' to finish it, and
\* nothing on the cells would finish a definition which is not open: rewinding
\* the cells and rewinding the compiler agree.
CellsMatch ==
  error = "none" =>
    Cardinality({i \in 1 .. len : cell[i] = "semicolon"})
      = IF ctx.sym = 0 THEN 0 ELSE 1

\* interp_internal.c:58: whoever goes on after an error is out of the
\* definition in which it occurred.
ErrorEndsDefinition ==
  [][error # "none" /\ error' = "none" => ctx'.sym = 0]_vars

\* Cyclic imports end: a file is not read inside itself, nor read at all
\* without being registered.
ReadOnce ==
  \A i, j \in 1 .. Len(modules) : modules[i] \in File =>
    /\ modules[i] \in imports
    /\ modules[i] = modules[j] => i = j

\* An error is reported or handled, or ends the program: it never stays inside
\* a module.
ErrorSurfaces == error # "none" ~> (error = "none" \/ modules = <<>>)
=============================================================================
