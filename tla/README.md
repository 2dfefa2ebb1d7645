# Specifications of astil_forth

astil_forth is a self-hosted Forth for arm64 macOS: a C program which reads
words, compiles them straight to machine code in one forward pass, and runs
them. Most of the language (`src/forth/lang.af`) is itself written as
compile-time words on top of a small set of intrinsics. This directory holds
TLA+ modules of its core logic, configurations with which TLC checks them on
small instances, and proofs which TLAPS checks for every instance.

## The system

| part | source | state | operations | correct when |
|---|---|---|---|---|
| register and local tracking | `comp/comp_cc_reg.c`, `intrin_cc_reg.c`, emitters in `lang.af` | `Comp_ctx`: `args`, `arg_len`, locals, fixups, clobbers | push, pop, assign, call, try, fold, barrier | a register or home holds what the compiler believes it holds |
| homes and fixups of locals | `comp/arch_arm64_cc_reg.c` | free registers, locations | `asm_fixup_locals` | homes are apart; the announced clobbers are complete; no needed write is dropped |
| interpreter session | `comp/interp_internal.c`, `intrin.c` | symbols, dictionaries, cells, snapshot, modules, imports | `fun:`, `end`, `extern:`, `use'`, `.quit`, errors | finished words survive everything; an error leads to a consistent state |
| hash tables | `clib/hash_table_common.c`, `dict.c`, `map.c` | slots, bits, length | set, get, truncate, rehash | a table is a map |
| sets | `clib/set.c` | as tables, without values | add, has | a set has what was added |
| code assembly | `comp/arch_arm64.c` | instruction list, fixups | prologue, epilogue, inlining | a finished word keeps frames, locals, values and errors |
| code and data heaps | `comp/comp.c` | two code heaps, frontier, data, slots of linked names | append, sync, allocate, register | executed code is what was written; allocations are apart |
| control structures | `lang.af` | cells with addresses and tokens | if, loops, patching | every path behaves as the source says |
| executables | `comp/mach_o.c`, `clib/mach_codesign.c`, `main.c` | a buffer, the file | validate, lay out, sign, write | the file does what the session did |
| threads and contexts | `forth/pthread.af`, `lang.af`, `examples/` | contexts, arenas, descriptors | spawn, detach, join, accept, close | memory has one user, and outlives it |
| exceptions | `comp/mach_exc.c`, `clib/mach_exc.c` | context register of another thread | handle | a fault never leads to a second one |
| reader, formats, libraries | the rest | | | |

How they interact. `interp_loop` reads a word and either executes it or appends
a call to the current word. Compile-time words call back into the compiler
through intrinsics, so that any sequence of compiler operations may be met,
not only those a grammar would produce. The interpreter and the compiler share
the cells (control structures leave addresses and tokens there), the symbol
list and one snapshot, to which every error takes all of them back.
Dictionaries point into the symbol list, with keys and with values.

What is hard: a single pass, so that a decision (no instruction, because the
register has it already; a placeholder, because the home may not be needed)
depends on everything before and is confirmed by what comes after; errors at
any point of nested imports and definitions; pointers into arrays which are
truncated and reused. There is no concurrency in the compiler itself; programs
have threads, and bad accesses are handled on a thread of their own.

The compiled code is relative to the instruction everywhere. Hence an executable
is the sections of the heaps at the same distances, a rewritten word is found by
its old callers where it was, and copying instructions (inlining) is allowed
only for those which mean the same elsewhere.

`PROJECT.json` lists the components in detail and the hazards line by line.

## Modules

| module | models | checked by |
|---|---|---|
| `Locals` | one straight-line path through one word, compiler and machine together | `MCLocals` |
| `LocalsProofs` | theorems about `Locals` | TLAPS |
| `Session` | interpreter session | `MCSession` |
| `Wordlist` | what a session promises: names lead to the word last finished | property of `Session` |
| `SessionProofs` | theorems about `Session`, with the refinement of `Wordlist` | TLAPS |
| `Control` | one word with branches and loops, compiled and then run beside its source | `MCControl` |
| `ControlProofs` | theorems about `Control` | TLAPS |
| `HashTable` | hash tables and sets, slot by slot | itself |
| `Map` | what a hash table promises | property of `HashTable` |
| `HashTableProofs` | theorems about `HashTable`, with the refinement of `Map` | TLAPS |
| `Code` | words assembled into the code heaps, and the processor which runs them | `MCCode` |
| `CodeProofs` | theorems about `Code` | TLAPS |
| `Image` | data and linked names of a session, and the executable made of it | `MCImage` |
| `ImageProofs` | theorems about `Image` | TLAPS |
| `Threads` | contexts and threads of two programs, and faults | `MCThreads` |
| `ThreadsProofs` | theorems about `Threads` | TLAPS |
| `Basics` | lemmas about numbers and sequences which several of the others use | TLAPS |

### Locals

The variables are in three groups. The compilation context keeps the names of
`Comp_ctx` (`args`, `argLen`, and of each local `stable`, `read`, `used`, and
the relocations linked from it, `pending`). The last phase has the state of
`asm_fixup_locals`. The machine (`reg`, `home`, `val`, `written`) runs each
instruction when it is emitted; `val` is what the source program assigned last.

An action is one compiler operation with everything it calls: `PushFromHome`,
for example, is `comp_append_push_from_local` with the relocation of what the
next register held, the confirmation of earlier relocations and the load.
Reading order: `Forget` and `Relocate` say what happens to locals which lose
their registers, the pushes and assignments use them, `CallWith` is shared by
the four ways to call, `End`, `Fixup1` and `Finish` are `intrin_semicolon`.
A relocation writes its home in the model at once. In the code it is a
placeholder which becomes a nop unless something reads the home later;
`RelocsConfirmed` is why the difference cannot be observed.

Abstractions. A machine word is 0 or another value; an arithmetic result is any
word. Positions of instructions are left out, so that a fold which the code may
refuse because of them is a possibility here. An error from `try` leaves the
word, so that the path which goes on is the one without. Discarded are
`throw`, `comp_args_set` called by metaprograms by hand, and branches: a
barrier is modelled, the join of two paths is not.

### Session

`slot`/`top` and `cell`/`len` are the arrays of symbols and cells with their
lengths, since `span_rewind` moves a top and leaves the contents. An entry of
`dict` has the two pointers of the code, `key` and `val`, and the name under
which it was inserted, which decides where the table looks for it. `modules` is
the chain of `interp->module`, `error` the `Err` on its way up. `Fail` is any
of the errors an operation returns before changing anything; errors after a
change are disjuncts of the operation.

### Control

A word is any sequence of tokens of one of the kinds in `MCControl`, as far as
the compiler accepts it. `cells` and `aux` are the two control stacks of
`lang.af`, one frame for a token with its meta; `code` is the list of
instructions, in which a branch names its target. The barrier, the fold and the
peephole are those of the code, since what they may look at, and when they have
to forget, is what is hard here.

The meaning of the word does not come from the compiler. `Opened` nests the
tokens, `Goals` says where each of them leads. When the word is finished it
runs beside its source: each goes on up to its next access to memory or return,
where `Agree` compares them. `Follows` says that the machine gets there. A value
loaded is any of `Value`, so that every path is taken.

`Fail` gives a word up at any token, and leaves `aux` and `loopInd` as the code
does. `.ret` is an instruction here; in the code it is a branch to the epilogue,
patched at the end. Two-register and immediate compares are modelled with the
condition `eq`; all other compares end in the same `cset`. A mention of a local
always loads it, as it does after a barrier; joins of locals are left out.

### HashTable

The table has the fields of `Hash_table`; a slot with a clear bit is `Nil`. The
assertions of the code are the field `ok`. `Probe` computes modulo `2 ^ Width`
as `Ind` does. `kind` says whether the table is a dictionary or a set; a set is
added to only, and its members have the one value `InSet`.

### Code

Where `Locals` asks what the compiler believes, `Code` asks what the processor
gets. A word is reserved (`Begin`), filled token by token (`Compile`), and fixed
up and closed in one step (`End`): homes, the prologue written backwards into
the reserved space, the epilogue, then every branch. `write`, `exec` and `valid`
are `code_write`, `code_exec` and `valid_instr_len`; `def` holds what is kept
about the word being compiled. Instructions are records with the operands of the
encoding, and offsets pass through fields of its signed widths.

`Run` calls a finished word. From there `Step` is the processor: registers,
memory in cells, one instruction per step. Beside it, `acts` has for each call
what it must find at its end, and `raised` the error the source has on its way.
An instruction carries as `tag` what the source means by it (a read of a local,
a constant, a throw); no action of the compiler looks at it.

Abstractions. Homes in volatile registers are left out: `Locals` is about those.
The sizes of allocations are encodable. Memory is cells, so that `PairMax` and
`Scale` are in cells. A condition in the program goes either way. At most one
definition is given up between two finished ones, after its first token, and
only the word finished last is run; `Depth` bounds the calls in progress, beyond
which the run is abandoned.

### Image

`code`, `externs`, `dataTop` are the sections of `Comp_heap`; their places in it
(`OffCode` to `OffCells`, with the guards) are those of the struct. A session
compiles words from groups of instructions, allocates data, registers linked
names, fails, and at the end builds one executable. An instruction which loads
an address has both the distance in its fields and, as `of`, what the source
named. The file is a buffer with parts at offsets; every segment, section, load
command and signature is laid out by the arithmetic of `compile_mach_executable`,
with the real sizes of the header structs. `Asserted` are its `try_assert`s.

The loader is external: `Mapped` finds what is at an address of the loaded
image, `Chain` follows the fixups from slot to slot as the format says. Writing
is a sequence of steps, any of which may fail, the last after the whole file is
there.

`RoomAssumption` is about the constants only: the headers fit a page, and the
tables of the linker, with every slot taken by the longest name a `Word_str`
holds, end below the shared region. In the code the headers take 1104 of 16384
bytes and the tables a quarter of a megabyte of the half gigabyte left there.

Abstractions. A page is nine instructions or two slots, so that every section
can be full. What a full heap or table of slots does (the process stops) is a
guard. `Sessions` says what one session may do; a session with all of it would
show nothing the four do not. Hashes are values.

### Threads

The actions are those of `examples/threads.af` and `examples/http_echo.af`, and
of the words of `pthread.af` and `lang.af` they use; `program` says which runs.
A thread has a place, its context register (`ctx`, with `saved` on its stack),
the mapping it uses and the error it holds. A mapping is a context with room for
a number of texts or closures; `.os_err` takes one if there is room, and is a
static text otherwise. What is free or unmapped has no contents. Every call of
the system may be refused at every time; `Deinit` keeps the mapping (`lost`) if
it is.

The server depends on its clients, who are part of the environment: `client` is
what the client of each connection has done, and `Client` what it may do next, with
no fairness. `.read_req` reads once, so that `Read` needs that the client sent
something or left (`Said`); a client which sends nothing is waited for without a
limit of time. `Answer` may find the connection full. `Waits` says in which calls a
thread depends on its client. `Break` is a read or a write which fails, which may
happen whether the thread waits or not. Nothing suppresses `SIGPIPE` on a
connection, so that writing to a client which left may end the process.

`Fault` is a bad access in the code of a program; the other threads go on until
`Handle`, on the thread of the exceptions, has read through the context register
of the faulting one. Only if that is an interpreter (`InterpValid`, from
`interp_valid`) is more of it read, for one of the `Diagnoses`. With the register
calling convention the handler reports and gives up, so that the process ends
(`report`).

Abstractions. What a client does before it is served makes no difference before, so
that `Client` moves only then. Which worker gets a connection is any idle one. `strerror`, whose
buffer is the library's, is left out. Descriptors are reused as soon as closed.

## Runs

| run | question | bounds |
|---|---|---|
| `locals_values` | does the machine agree with the compiler? `Tracked`, `LocalHasPlace`, `PushGivesValue` | 3 registers, 2 locals, 2 words, 2 inputs, fallible word, 2 fixups |
| `locals_homes` | are homes and clobbers right? `RelocsConfirmed`, `HomesSafe`, `ClobbersComplete` | 3 registers of which at most 1 free for homes, 1 callee-saved register, so that all kinds of home occur; 1 word; 4 fixups |
| `session_words` | do finished words survive? `WordsKept`, `FinishedKept`, `CellsMatch`, `ErrorEndsDefinition` | 2 names, 1 file and the terminal, 3 symbols, 4 definitions, 2 cells, depth 2 |
| `session_imports` | do imports end, do errors surface? `ReadOnce`, `ErrorSurfaces` | 2 files and the terminal, depth 3, externs, imports inside definitions |
| `session_extern` | a disagreement, below | 2 symbols |
| `control` | do structures do what they say? `Agree`, `AllPatched`, `Follows`, `InnermostLoop` | 3 registers, 2 values, words of 8 tokens with compares or loops, 9 with nested loops, 11 with chains of `elif` |
| `control_join` | a disagreement, below | words of 9 tokens |
| `table` | is a table, dictionary or set, a map? `IsMap`, `RoomLeft`, `ProbesReachAll` | 4 keys with hashes 0, 3, 7 in every way, capacities 4 and 8, 5-bit indices |
| `code` | does the processor do what the source says? `ExecIsWritten`, `NoTrap`, `FramesRestored`, `LocalsKept`, `ValuesArrive`, `ErrorsPropagate`, `Terminates` | programs of up to 3 words in 7 families, 4 locals, 3 callee-saved registers, 4 lanes of 2 bits, 3 calls in progress |
| `code_large` | a disagreement, below | as `code`, pair instructions reach 2 cells |
| `image` | does the file do what the session did? `LoadsHere`, `LoadsThere`, `DataApart`, `SegmentsApart`, `Signed`, `NoAssertion`, `ResultTold`, `TypeOK` | 9 instructions, 2 slots, 3 allocations, 2 names, pages of 9 instructions |
| `threads` | is memory kept for whom it is, and given back, whatever clients do? `MemoryIntact`, `OneUser`, `OneCloser`, `Released` | 2 threads beside the main one, 3 mappings of 2, 1 and no rooms, 2 descriptors |

Three registers are enough for a local to be in several, for two to compete for
one, and for a callee to leave some alone. Three symbols and four definitions
are enough for a slot to be reused while a dictionary points at it. Three of
four keys make a table grow, with any of them colliding before and after; the
triangular numbers first overflow a 5-bit index at 6, inside the range of
`ProbesReachAll`.

Three callee-saved registers and up to four locals make a word save none, one, a
pair, or a pair and one, and put the fourth home in the frame; the third word of
`code` inlines a word which inlined another. The
values of a machine word of four lanes include every pattern of default and
other lanes, with either sign. Nine instructions fill a page, so that the code,
the slots and the data of `image` each meet their guard, which is where the
layout can go wrong. In `threads` one mapping has room for a closure and a text,
one for a closure only, one for neither; two children are enough for one to be
leaked while the other is joined, two descriptors for one to be reused while the
other is served. Two workers and the accepting thread interleave freely.

Passing runs leave out what is known to fail: `locals_values` has no `=:`, no
callee returning its input and no error register above the tested one;
`session_words` has no `extern:` and no import inside a definition; `control` has
no test of a compare which was made just before a join (`TestsAtJoin`), and its
programs use `leave`, `.while` and `again` inside loops only, so that the check of
`.loop_frame_adr`, which a stale `LOOP_IND` passes, is not reached; the frames of
`code` are reached by one pair instruction. `session_extern`, `control_join` and
`code_large` add exactly one of these each. `locals_homes` has all of its kind.

Eight tokens are enough for both branches of a conditional around a fold or a
fusion, for a loop left in two ways, for a word given up inside a loop before
another; eleven for a chain of two `elif`s with `else`.

Deadlock is not checked where the system may stop: a finished word, a program
whose input ended, an executable which is written, threads which all ended.

Fairness. `session_imports` assumes weak fairness of `Report` and `Unwind`. Both
are the tail of a C function with an error in hand, which returns without
waiting for anything. `control` assumes it of `MachStep`: a processor executes
the next instruction. `code` assumes it of `Step` for the same reason. `threads`
assumes that the main thread, each other thread and the handler of exceptions go
on when they can: they are scheduled by the system. A thread which waits for its
client (`Waits`) is not assumed to go on, and nothing is assumed of clients: they
need not connect, send, take an answer or leave. Hence what `Released` says: what
stays mapped or open for ever belongs to a thread which waits for its own client,
for ever, or a call which gives it back was refused, or the process ended. A join
waits for a child, which waits for nobody. Of the
other calls it is assumed that they return, not that they succeed: standard error
takes what is written to it, files are local, and signals interrupt a call only
finitely often. No fairness is assumed of the program or of the terminal.

## Disagreements between the code and its documents

Each of the first three has a run which must find it.

- `session_extern`: after an error, an extern declared since the snapshot makes
  the next word visible while it is being defined.
- `control_join`: `.cond_branch_beg` fuses the last compare into a branch even
  if it was made on one of two joining paths; the other path skips the test.
  The shortest word is `a b .then =0 end .then … end`.
- `code_large`: a frame of more than 504 bytes is released by `add sp` before
  the frame record is loaded from `[sp]`, so that the word returns to whatever
  is above its frame (`arch_arm64.c:958`).

The next four are found by a passing run when one constant of it is changed, and
the theorems below name the condition each of them breaks:

- `locals_values` with `OutLen = 2`, `PushGivesValue`: `asm_append_try`
  (`arch_arm64_cc_reg.c:251`) moves an error up to a higher error register on
  the successful path too; a local there is lost.
- `locals_values` with `CompareInPlace <- AB`, `PushGivesValue`: `=:` and `<>:`
  (`lang.af:3091`) reallocate the register after overwriting it.
- `locals_values` with `Callee <- All`, which adds a word that returns its
  input and clobbers nothing, `LocalHasPlace`: outputs which are not clobbers
  take registers from locals without relocating them (`comp_cc_reg.c:723`); the
  local is then refused as uninitialised.
- `session_words` with `EarlyImport = TRUE`, `FinishedKept` and
  `ErrorEndsDefinition`: an import
  inside a definition without locals moves the snapshot into it
  (`interp_internal.c:593`); a later error goes back there.

Seen while reading, and not in a model:

- at a terminal `.quit` is reported like an error and ignored
  (`interp_internal.c:488`); a file whose import failed stays registered
  (`interp_internal.c:583`); `LOOP_IND` survives errors, so that a stray `leave`
  is not always refused;
- `validate_callees_can_compile` looks at the callees of the entry but not at
  the entry, which may itself be forbidden in executables (`sym.h:64`);
- the overflow of a number is checked for the multiplication by the radix and
  not for the addition of the digit (`read.c:225`);
- `map_has_impl` (`map.c:28`) returns an index as a boolean, which is true for
  what is missing; nothing calls it, `map_has` compares;
- the server does not suppress `SIGPIPE` as `io.af:529` offers, so that a client
  which leaves before it is answered may end it; and a silent one keeps a thread and
  its memory for ever (`http_echo.af:18`), as `threads` has it;
- `catch_mach_exception_raise_state` says that the state of the thread is
  modified to recover; with the register calling convention nothing is.

## Proofs

### Locals

For any number of registers, locals, values, callees and fixups:

| theorem | states | assumes, beside the assumptions of `Locals` |
|---|---|---|
| `TypeCorrect` | `Spec => []TypeOK` | |
| `MachineTracked` | `Spec => []Tracked` | no error register above the first one, no comparison in place |
| `PushesValue` | `Spec => PushGivesValue` | the same |
| `LocalsHavePlaces` | `Spec => []LocalHasPlace` | callees clobber their outputs |
| `RelocationsConfirmed` | `Spec => []RelocsConfirmed` | |
| `ClobbersAnnounced` | `Spec => []ClobbersComplete` | |
| `HomesApart` | `Spec => []HomesSafe` | |

The first three of the disagreements which need another constant show that the
assumptions are needed: each violates the one it is about.

The argument. `Tracked` is inductive relative to `TypeOK`: every action either
leaves a register alone, or forgets it before writing it, and forgetting
relocates a local exactly when its last register goes. The lemmas about
`Orphans` and `LastHolder` say that a relocated home gets the value of the
local, because its last register is associated with it. `PushGivesValue` then
follows from `Tracked` in each of the three ways to push. `LocalHasPlace` needs
that a local which loses a register is an orphan of what is lost or has another
one. `RelocsConfirmed` is inductive together with `TypeOK`.

`ClobbersComplete` speaks of finished words only; `ClobbersTracked` says of every
state that the registers written so far, those which hold constants and the
homes given out are among the clobbers, except for the error register, which
`End` adds. `HomesSafe` is the part about homes
already given of `HomesTracked`, whose other part says that what is still free
was given to nobody: without it, the next home could be one in use.

### Session

For any number of names, files, symbols, cells and nested imports:

| theorem | states | assumes, beside the assumption of `Session` |
|---|---|---|
| `SessionTypes` | `Spec => []TypeOK` | |
| `FilesReadOnce` | `Spec => []ReadOnce` | |
| `ErrorsLeaveDefinitions` | `Spec => ErrorEndsDefinition` | no import inside a definition |
| `TokensMatchDefinitions` | `Spec => []CellsMatch` | the same |
| `WordsBelowSnapshot` | `Spec => []FinishedKept` | the same, no externs |
| `WordsStay` | `Spec => WordsKept`, the refinement | the same, no externs |

An early import puts the snapshot into a definition, an extern is put above it
(`session_extern`).

The argument. `Types` adds to `TypeOK` that the current symbol and the one in the
snapshot have names. `Outside`, that the snapshot is outside of definitions, is
what the assumption about imports buys. `CellsMatch` counts, and says nothing
during an error; `CellsPlaced` says where the token is, the first cell above the
snapshot, and that no cell a rewind would keep is one. For the refinement, an
entry still reads as the name it was inserted under (`Readable`) because
`FinishedKept` keeps its slots from being reused; then at most one entry matches
a name (`Distinct`), and `dict_set` replaces it. `Youngest` is the guard of
`Define`: the word being finished is newer than all others.

### Control

For any programs, tokens, values and number of arguments:

| theorem | states | assumes, beside the assumption of `Control` |
|---|---|---|
| `LoopsAreLinked` | `Spec => []InnermostLoop` | |
| `EverythingIsPatched` | `Spec => []AllPatched` | no test of a compare made just before a join |

The disagreement `control_join` violates `Agree`; a jump to the join of such a
word may even lead out of it, which is why the second theorem has to exclude it.

The argument. `StackInv` says that the frames of the control stack nest in one
of the ways `Nested` lists, that the loops among them are linked from `loopInd`
outwards, and that constants in argument registers point at instructions which
are there. For the second theorem `PatchInv` says where what is reserved is kept:
every instruction which is reserved and not patched is the `inp` of a frame, or of
an auxiliary frame above the mark of its loop (`Marks`, `Held`), and whatever
shortens the code, a fold or a fusion, does not shorten it below a label
(`Labels`). At the end both stacks are empty, hence nothing is left reserved.

### HashTable

For any keys, values, hashes, and any width of the index (32 in the code):

| theorem | states | assumes, beside the assumption of `HashTable` |
|---|---|---|
| `ProbesReachEverySlot` | `Spec => []ProbesReachAll` | |
| `RoomStaysLeft` | `Spec => []RoomLeft` | |
| `TableIsMap` | `Spec => IsMap`, the refinement | |

The assumption of the module is that the first capacity is a power of two, at
least 4, below the limit of the index.

The argument. Two of the first `2^n` triangular numbers which are congruent modulo
`2^n` have equal indices: twice their difference is a product of two factors of
different parity, one of which has to have all the twos (`Triangle`, `Apart`).
Distinct probes of as many as there are slots reach every slot, by counting. The
overflow of the index does not matter since `2^n` divides `2^Width`. Powers of two
are had from the library's count of the subsets of a set (`Basics`). `Table` is the
invariant of a table with memory: a key is in one slot, no slot before it on its
way is free (`OnTheWay`), and `len` counts the used ones. Rehashing moves slot by
slot (`HasMoved`); a lookup then finds what was set because the free slot ends
every search.

### Code

For any programs, locals, registers, frames and sizes, `CopiedCodeStays` states
`Spec => []ExecIsWritten`. The argument. `Layout` says that all words finished are
at or below the frontier `valid` and that everything a definition may still patch,
its branches, its homes, its prologue and the space reserved for it, is above; each
step of the compiler grows the code at its end (`Grown`, `Emitted`), and what an
error takes back ends at the frontier.

`NothingTraps` states `Spec /\ []Near /\ []FramesRestored => []NoTrap`, with these
two conditions. `FramesRestored`, that a word returns with the stack and the link
it was called with, stays model-checked: without it a `ret` may go anywhere. `Near`
says that the code is below `2^25` instructions and a word below `2^18`, the ranges
of the immediates of branches; beyond them `imm_signed` refuses to encode the
instruction, and the program ends.

The argument, `CodeInv == Layout /\ WordsWhole /\ Open /\ Within`:

- `WordsWhole`: every instruction of a finished word is one the processor goes on
  from (`Fine`): no placeholder, a branch leads forward and not past the `ret`, a
  call leads to the start of a word not later than this one; inlinable words call
  nothing.
- `Open`: in the word being compiled the same holds except where a fixup is kept
  (`Ats`): for `recur`, `ret`, `try`, `throw` and the reads and writes of locals.
  `LocalsSettled` and `BranchesTied` show that fixing replaces each of these by what
  is fine, so a word which is finished is whole (`EndWhole`). Inlining copies what
  is fine, with branches only inside the copy and no calls (`InlinedFits`).
- `Within`: the processor is in a finished word, and so is the return of every call
  in progress; a step stays within (`BranchWithin`, `CallWithin`, `ReturnWithin`),
  from which `NoTrap` follows.
- Branches are kept as the bits of signed fields of 19 and 26 bits: a number which
  fits is had back from its bits (`SignedField`, `Reaches`).

### Image

For any sizes of the heaps, of pages, of allocations and of names:

| theorem | states | assumes, beside the assumptions of `Image` |
|---|---|---|
| `TypesHold` | `Spec => []TypeOK` | |
| `DataStaysApart` | `Spec => []DataApart` | |
| `LoadsStayHere` | `Spec => []LoadsHere` | |
| `LoadsStayThere` | `Spec => []LoadsThere` | |
| `SegmentsFollow` | every segment ends before the next one begins, in the file and in memory, and begins at a page | each section fits its heap |
| `SegmentsStayApart` | `Spec => []SegmentsApart` | |
| `SignedPageByPage` | `Spec => []Signed` | |
| `NothingIsRefused` | `Spec => []NoAssertion` | |
| `ResultIsTold` | `Spec => []ResultTold` | |

The argument. `DataApart` alone is not inductive: allocations are only below the
top of the heap as long as their addresses and sizes are numbers, which
`DataInv` adds. A new allocation begins at the top rounded up, hence behind all
others. `CodeIs` says of every instruction that, if it loads, it is the load of an
allocation, of a registered name or of an intrinsic from where it is; inlining
keeps it because what loads is not inlined, and errors because they take neither
code nor names back. `SlotsAre` has the two directions in which names and slots
belong to each other. `ImageIs` remembers that what was written was built.

`SegmentsFollow` is arithmetic: rounding up to a page stays below the guard, which
begins at a page (`AlignUpBelow`). The rest follows what is appended: a buffer is
`Packed` if each part begins where the one before ends, and `Put` and `PutAll`
keep it so. `LinkeditIs`, `CommandsAre`, `FileIs` and `SignatureIs` give the parts
of each section by their index, from which `Signed` is read off.
`NothingIsRefused` goes through `Asserted` check by check; only the two which
compare with a size of the system need `RoomAssumption`.

`LoadsStayThere` is about the loaded file and puts three things together. What can
run: `WordIs` says that a branch of a word lands on the start of a word among its
callees, and `StandsAlone`, which `BuiltIs` remembers of the entry, that there is a
set of words with the entry which is closed under callees and calls no intrinsic
(`AllowedStandsAlone`, from what `CalleesOf` collects); so all that is `Reached`
is in that set. Where it is: a part which the buffer `Holds` is found at its offset
because a `Packed` buffer has one part at each (`StoredIs`), and segments in order
map it to one address (`InSegment`), hence `CodeMapped`, `DataMapped` and
`SlotsMapped`; the tables of the linker are read the same way (`LinkTables`), and the
chain visits the slots one after the other (`ChainIs`), each naming its import
(`ImportedIs`). What it reads: the file moves code, data and slots by the same
distance, a multiple of the reach of the low bits of an address (`ShiftIs`), hence an
instruction reads what it read before, moved (`LoadMoves`).

### Threads

For any number of threads, mappings, rooms and descriptors:

| theorem | states | assumes, beside the assumption of `Threads` |
|---|---|---|
| `MemoryIsIntact` | `Spec => []MemoryIntact` | |
| `ConnectionsHaveOneCloser` | `Spec => []OneCloser` | |
| `MemoryHasOneUser` | `Spec => OneUser` | |

The argument. `Inv` says who holds which mapping at which place of the program
(`Held`): the child it was made for until it is joined, the main thread before
the start and after the join. From that, writing to and unmapping memory which
is one's own disturbs nobody. For the server, `FdsOk` says which thread is to
close a descriptor at each place of the accepting thread and of the workers. Each
action is shown to keep the part of `Inv` about the thread which moves and,
because holders are distinct, those about all others. `OneUser` is an action
property; each disjunct of `Next` is shown to satisfy it under `Inv`.

What `MemoryIntact` says of texts, closures and contexts follows from `Inv`
(`Undisturbed`). What it says of the handler is an invariant of its own,
`Diagnosed`, together with `Selves`: the context of a thread never has itself as
its `self`, since mapping sets none and nothing else writes it (`KeepsSelf`, for
every step). Hence what passes `InterpValid` is the main context.

### Induction

The library's induction theorems take an operator, which the provers installed
here cannot instantiate. `Basics` states induction with sets instead: a set which
has 0 and the successor of each of its members has every number (`Induct`,
`InductTo`), since a set of numbers has a least member (`LeastNatural`). That a
recursive function is what its equation says follows with the set of all `n` up to
which some function satisfies the equation. So the recursive functions of `Total`
and `Rehash` have lemmas for every length.

### Only model-checked

That words do what their source says (`Control.Agree`; `FramesRestored`,
`LocalsKept`, `ValuesArrive`, `ErrorsPropagate` of `Code`), and all liveness
(`Follows`, `Terminates`, `Released`, `ErrorSurfaces`), which is out of the reach
of the prover.

`FramesRestored` needs more than `CodeInv`: what each instruction of a word, of the
bodies inlined into it too, leaves on the stack, and that frames fit the immediate
of the pair instructions. The other properties of `Code` compare what the compiler
believes of registers with what the processor has in them, on every path, and rest
on it.

## Not modelled

The bits of instructions beyond their signed fields, the reader, number parsing,
formatting and the Forth libraries (sequential or pure input and output); the
metaprogrammed emitters of `lang.af` beyond arithmetic, comparison, calls and
control structures; unwinding and the older stack calling convention, kept
behind a build flag; locks and conditions, which are only declared. Joins of
locals assigned on one path only.

## Plan

1. `Locals`, its proofs, `Session`, `HashTable` with sets, `Control`: done.
2. `Code`, `Image`, the data and layout proofs of `Image`, `Threads`: done.
3. Proofs about `Threads`, `Control`, the frontier of `Code` and that nothing traps,
   `HashTable` with its refinement, and the layout, the loads, the signature and
   the loading of `Image`: done.
4. `FramesRestored` of `Code`, from the depth of the stack at each instruction, and
   `ErrorsPropagate` from what is known of the register of errors at each.
5. Joins of locals; `throw` and `try` as branches of `Control`.
