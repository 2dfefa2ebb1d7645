---- MODULE Image ----
(* Executables: what a session leaves in the sections of Comp_heap, and the    *)
(* Mach-O file which places the same sections at the same distances, so that   *)
(* the code runs unchanged.  The system which loads the file is modelled from  *)
(* what the file relies on.                                                    *)
EXTENDS Integers, SequencesExt

CONSTANTS
  Names, NameLen, \* names in linked libraries, and their lengths
  MaxName,        \* the longest name a Word_str holds
  Page,           \* MEM_PAGE
  AdrPage,        \* reach of the low bits of an address
  SigPage,        \* MCS_PAGE_SIZE
  InstrSize,      \* sizeof(Instr)
  CellSize,       \* sizeof(U64)
  CodeLen,        \* INSTR_HEAP_LEN
  DataLen,        \* bytes of the data heap
  ArenaLen,       \* MAIN_ARENA_LEN
  CellsLen,       \* bytes of Comp_heap.cells
  HeapBase,       \* where the system placed Comp_heap
  PageZero,       \* size of __PAGEZERO
  SharedBase,     \* SHARED_REGION_BASE
  IdLen,          \* length of the identifier of the signature
  Sessions,       \* kinds of sessions: [ops, names, data, signatures, len], with the
                  \* operations, the linked names, the <<size, align>> of data, the
                  \* <<outputs, has an error>> of words, and a bound on instructions
  MaxRegions      \* bound on allocations

Divides(a, b) == b % a = 0

ASSUME ImageAssumption ==
  /\ {Page, AdrPage, SigPage, InstrSize, CellSize} \subseteq Nat \ {0}
  /\ Divides(2, CellSize) /\ CodeLen \in Nat
  /\ \A n \in {AdrPage, SigPage, InstrSize, CellSize} : Divides(n, Page)
  /\ \A n \in {CodeLen * InstrSize, DataLen, HeapBase, PageZero, ArenaLen, CellsLen} :
       n \in Nat /\ Divides(Page, n)
  /\ ArenaLen > 0 /\ CellsLen > 0
  /\ SharedBase \in Nat /\ IdLen \in Nat
  /\ NameLen \in [Names -> Nat \ {0}]
  /\ MaxName \in Nat /\ \A n \in Names : NameLen[n] <= MaxName
  /\ \A s \in Sessions : /\ s.names \subseteq Names /\ s.len \in 0 .. CodeLen
                         /\ s.data \subseteq (Nat \ {0}) \X (Nat \ {0})
  /\ MaxRegions \in Nat

VARIABLES
  session,  \* what is done in this session
  code,     \* code_write
  execLen,  \* instructions of code_exec
  valid,    \* valid_instr_len
  words,    \* finished words
  def,      \* the word being compiled
  externs,  \* Comp_syms of the linked names
  declared, \* names with a word declared by extern_fun
  dataTop,  \* length of data
  regions,  \* allocations, as the program knows them
  image,    \* the executable built, or the error
  disk      \* the file at the output path

codeVars == <<code, execLen, valid, words, def>>
vars == <<session, code, execLen, valid, words, def, externs, declared, dataTop, regions,
          image, disk>>

NoDef == [floor |-> 0]
NoImage == [result |-> "none"]
Defining == def # NoDef
Idle == image = NoImage

AlignUp(n, a) == ((n + a - 1) \div a) * a
AlignPage(n) == AlignUp(n, Page)

----
(* Comp_heap. *)

OffCode == Page
(* Mutant: no guard behind the code. *)
OffDataNoGuard == OffCode + CodeLen * InstrSize

OffData == OffCode + CodeLen * InstrSize + Page
OffExterns == OffData + DataLen + Page
OffIntrins == OffExterns + Page + Page
OffArena == OffIntrins + Page + Page
OffCells == OffArena + ArenaLen + Page

SlotCap == Page \div CellSize
InstrAdr(i) == HeapBase + OffCode + (i - 1) * InstrSize
DataAdr(o) == HeapBase + OffData + o
SlotAdr(k) == HeapBase + OffExterns + (k - 1) * CellSize
IntrinAdr == HeapBase + OffIntrins

----
(* Instructions.  "of" of a load is what the source of the word names. *)

Other == [op |-> "other"]
Ret == [op |-> "ret"]
Branch(off) == [op |-> "bl", off |-> off]
LoadAt(i, adr, of) ==
  [op |-> "load", pages |-> adr \div AdrPage - InstrAdr(i) \div AdrPage,
   low |-> adr % AdrPage, of |-> of]

(* The address an instruction at adr reads, wherever the code was placed. *)
ReadBy(instr, adr) == (adr \div AdrPage + instr.pages) * AdrPage + instr.low

Next1 == Len(code) + 1
Append1(instrs) == code' = code \o instrs

----
(* Names in linked libraries. *)

Find(n) == IF n \in DOMAIN externs.inds THEN externs.inds[n] ELSE 0

(* Mutant: a name known already is registered again. *)
RegisteredAgain(n) ==
  [names |-> Append(externs.names, n), addrs |-> Append(externs.addrs, n),
   inds |-> [m \in DOMAIN externs.inds \cup {n} |->
               IF m = n THEN Len(externs.names) + 1 ELSE externs.inds[m]]]

Registered(n) ==
  IF Find(n) # 0 THEN externs
  ELSE [names |-> Append(externs.names, n), addrs |-> Append(externs.addrs, n),
        inds |-> [m \in DOMAIN externs.inds \cup {n} |->
                    IF m = n THEN Len(externs.names) + 1 ELSE externs.inds[m]]]

(* The stack of slots is full: the process stops. *)
HasSlot(n) == Find(n) # 0 \/ Len(externs.names) < SlotCap

LoadSlot(syms, n) == LoadAt(Next1, SlotAdr(syms.inds[n]), [kind |-> "extern", name |-> n])

----
(* Words.  They are compiled one instruction group at a time; a full code heap *)
(* stops the process.                                                          *)

Fits(n) == Len(code) + n + 1 <= session.len

Begin ==
  /\ Idle /\ ~Defining /\ Fits(1)
  /\ def' = [floor |-> Next1, callees |-> {}, interpOnly |-> FALSE, loads |-> FALSE]
  /\ Append1(<<Other>>)
  /\ UNCHANGED <<execLen, valid, words, externs, declared, dataTop, regions, image, disk>>

Compiling(instrs, d) ==
  /\ Idle /\ Defining /\ Fits(Len(instrs))
  /\ Append1(instrs)
  /\ def' = d
  /\ UNCHANGED <<execLen, words, valid, dataTop, regions, image, disk>>

Calls(callee) == [def EXCEPT !.callees = @ \cup {callee}]

(* sym_auto_interp_only comes before the call is made or inlined. *)
Marked(d, mark) == [d EXCEPT !.interpOnly = @ \/ mark]

(* Mutant: addresses relative to the instruction are copied too. *)
InlinableLoads(w) == w.callees = {}

Inlinable(w) == ~w.loads /\ w.callees = {}

CallWord(k) ==
  LET w == words[k]
      body == SubSeq(code, w.first, w.ret - 1) IN
  /\ Idle /\ Defining
  /\ IF Inlinable(w)
     THEN Compiling(body, Marked(def, w.interpOnly)) /\ execLen' = execLen
     ELSE /\ Fits(1)
          /\ Append1(<<Branch(w.first - Next1)>>)
          /\ def' = Marked(Calls([kind |-> "word", word |-> k]), w.interpOnly)
          /\ execLen' = IF w.ret <= execLen THEN execLen ELSE valid
          /\ UNCHANGED <<words, valid, dataTop, regions, image, disk>>
  /\ UNCHANGED <<externs, declared>>

CallIntrin ==
  /\ Compiling(<<LoadAt(Next1, IntrinAdr, [kind |-> "intrin"])>>,
               Marked(Calls([kind |-> "intrin"]), TRUE))
  /\ UNCHANGED <<externs, declared>>

CallExtern(n) ==
  /\ n \in declared
  /\ Compiling(<<LoadSlot(externs, n)>>, Calls([kind |-> "extern", name |-> n]))
  /\ UNCHANGED <<externs, declared>>

ExternAdr(n) ==
  /\ HasSlot(n)
  /\ externs' = Registered(n)
  /\ Compiling(<<LoadSlot(externs', n)>>, [def EXCEPT !.loads = TRUE])
  /\ UNCHANGED declared

LoadData(r) ==
  /\ Compiling(<<LoadAt(Next1, DataAdr(r.at), [kind |-> "data", at |-> r.at])>>,
               [def EXCEPT !.loads = TRUE])
  /\ UNCHANGED <<externs, declared>>

(* .interp_only, also from the word which yields the interpreter. *)
InterpOnly ==
  /\ Compiling(<<Other>>, [def EXCEPT !.interpOnly = TRUE])
  /\ ~def.interpOnly
  /\ UNCHANGED <<externs, declared>>

Recur ==
  /\ Compiling(<<[op |-> "recur"]>>, Calls([kind |-> "word", word |-> Len(words) + 1]))
  /\ UNCHANGED <<externs, declared>>

(* A word without calls needs no frame record: what was reserved is skipped. *)
First(d) == IF d.callees = {} THEN d.floor + 1 ELSE d.floor

FixRecur(instrs) ==
  [i \in DOMAIN instrs |->
     IF i > def.floor /\ instrs[i].op = "recur" THEN Branch(First(def) - i) ELSE instrs[i]]

End(s) ==
  /\ Idle /\ Defining
  /\ code' = Append(FixRecur(code), Ret)
  /\ valid' = Next1
  /\ words' = Append(words,
       [first |-> First(def), ret |-> Next1, callees |-> def.callees,
        interpOnly |-> def.interpOnly, loads |-> def.loads, sig |-> s])
  /\ def' = NoDef
  /\ UNCHANGED <<execLen, externs, declared, dataTop, regions, image, disk>>

(* The error of a definition takes neither its code nor its names back. *)
Fail ==
  /\ Idle /\ Defining
  /\ def' = NoDef
  /\ UNCHANGED <<code, execLen, valid, words, externs, declared, dataTop, regions,
                 image, disk>>

ExternFun(n) ==
  /\ Idle /\ ~Defining /\ n \notin declared /\ HasSlot(n)
  /\ externs' = Registered(n)
  /\ declared' = declared \cup {n}
  /\ UNCHANGED <<code, execLen, valid, words, def, dataTop, regions, image, disk>>

----
(* The data heap. *)

(* Mutant: the size is compared with the whole heap. *)
AllocDataOver(size, align) ==
  LET at == AlignUp(dataTop, align) IN
  /\ Idle /\ Cardinality(regions) < MaxRegions
  /\ at <= DataLen /\ size <= DataLen
  /\ dataTop' = at + size
  /\ regions' = regions \cup {[at |-> at, size |-> size, align |-> align]}
  /\ UNCHANGED <<code, execLen, valid, words, def, externs, declared, image, disk>>

AllocData(size, align) ==
  LET at == AlignUp(dataTop, align) IN
  /\ Idle /\ Cardinality(regions) < MaxRegions
  /\ at <= DataLen /\ size <= DataLen - at
  /\ dataTop' = at + size
  /\ regions' = regions \cup {[at |-> at, size |-> size, align |-> align]}
  /\ UNCHANGED <<code, execLen, valid, words, def, externs, declared, image, disk>>

----
(* Which words may be compiled: everything the callees of the entry reach. *)

CalleesOf[k \in Nat] ==
  UNION {{c} \cup (IF c.kind = "word" /\ c.word \in 1 .. k - 1 THEN CalleesOf[c.word] ELSE {}) :
           c \in words[k].callees}

InterpreterOnly(c) ==
  c.kind = "intrin" \/ (c.kind = "word" /\ words[c.word].interpOnly)

CalleesCanCompile(k) == \A c \in CalleesOf[k] : ~InterpreterOnly(c)

ValidMain(k) == words[k].sig = <<1, FALSE>>

----
(* The file.  Sizes of the headers are those of the structs. *)

SegCmd == 72
Sect == 80
LinkCmd == 16
DylinkerCmd == 32
DylibCmd == 56
MainCmd == 24
BuildCmd == 24
FixHead == 28
FixImg == 20
FixSeg == 24
FixImport == 4
FixUnit == CellSize \div 2 \* the chain counts in halves of a cell
SigHead == 12
SigIndex == 8
SigDir == 88
SigHash == 32
HeadSize == 32
CmdSize == 7 * SegCmd + 5 * Sect + DylinkerCmd + DylibCmd + LinkCmd + MainCmd
             + BuildCmd + LinkCmd

TextVm == PageZero
CodeFile == AlignPage(HeadSize + CmdSize)
CodeVm == TextVm + CodeFile

(* Where a section of Comp_heap is in the image. *)
SectionVm(off) == CodeVm + off - OffCode

(* Mutant: no guard behind the cells. *)
LinkVmNoGuard == SectionVm(OffCells) + AlignPage(CellsLen)

LinkVm == SectionVm(OffCells) + AlignPage(CellsLen) + Page

Segment(name, vm, vmsize, file, filesize, sects) ==
  [cmd |-> "segment", size |-> SegCmd + sects * Sect, name |-> name, vm |-> vm,
   vmsize |-> vmsize, file |-> file, filesize |-> filesize]

TextSegment(size) == Segment("TEXT", TextVm, size, 0, size, 1)
DataSegment(file, size) == Segment("DATA", SectionVm(OffData), size, file, size, 1)
GotSegment(file, size) == Segment("DATA_CONST", SectionVm(OffExterns), size, file, size, 1)
ArenaSegment(file) == Segment("ARENA", SectionVm(OffArena), AlignPage(ArenaLen), file, 0, 1)
CellsSegment(file) == Segment("CELLS", SectionVm(OffCells), AlignPage(CellsLen), file, 0, 1)
LinkSegment(file, len) == Segment("LINKEDIT", LinkVm, AlignPage(len), file, len, 0)

Segments(codeLen, dataLen, gotLen, linkLen) ==
  LET textSize == AlignPage(CodeFile + codeLen)
      dataSize == AlignPage(dataLen)
      gotSize == AlignPage(gotLen)
      linkFile == textSize + dataSize + gotSize IN
  << Segment("PAGEZERO", 0, PageZero, 0, 0, 0),
     TextSegment(textSize), DataSegment(textSize, dataSize),
     GotSegment(textSize + dataSize, gotSize), ArenaSegment(linkFile), CellsSegment(linkFile),
     LinkSegment(linkFile, linkLen) >>

(* A buffer: its length and what was appended where. *)
EmptyBuf == [len |-> 0, parts |-> <<>>]
Put(buf, size, what) ==
  [len |-> buf.len + size,
   parts |-> Append(buf.parts, [at |-> buf.len, size |-> size, what |-> what])]
PadTo(buf, len) == Put(buf, len - buf.len, [kind |-> "pad"])

(* The sum of the first n sizes. *)
Total(sizes, n) ==
  LET sum[i \in Nat] == IF i = 0 THEN 0 ELSE sum[i - 1] + sizes[i] IN sum[n]

(* Each item is put behind those before it. *)
PutAll(buf, items) ==
  LET sizes == [i \in DOMAIN items |-> items[i].size] IN
  [len |-> buf.len + Total(sizes, Len(items)),
   parts |-> buf.parts \o [i \in DOMAIN items |->
     [at |-> buf.len + Total(sizes, i - 1), size |-> items[i].size, what |-> items[i].what]]]

GotEntry(k) ==
  [size |-> CellSize,
   what |-> [kind |-> "bind", ordinal |-> k - 1,
             next |-> IF k = Len(externs.names) THEN 0 ELSE 2]]
GotSection == [k \in 1 .. Len(externs.addrs) |-> GotEntry(k)]

(* Every name is stored with an underscore before it and a null after it. *)
NameSize(n) == 1 + NameLen[n] + 1
(* Mutant: the underscore is not counted. *)
NamePosShort(k) ==
  1 + Total([i \in DOMAIN externs.names |-> NameLen[externs.names[i]] + 1], k - 1)

NamePos(k) ==
  1 + Total([i \in DOMAIN externs.names |-> NameSize(externs.names[i])], k - 1)

ImportsOff == FixHead + FixImg + FixSeg
SymbolsOff == ImportsOff + FixImport * Len(externs.addrs)

(* The most that the tables of the linker take: every slot names an import,   *)
(* and every name is the longest one.                                          *)
LinkMax == ImportsOff + FixImport * SlotCap + 1 + (MaxName + 2) * SlotCap

(* The headers fit the page before the code, and the tables of the linker end *)
(* below the shared region.                                                    *)
ASSUME RoomAssumption == HeadSize + CmdSize <= Page /\ LinkVm + AlignPage(LinkMax) <= SharedBase

Linkedit ==
  LET n == Len(externs.names) IN
  PutAll(EmptyBuf,
    << [size |-> FixHead, what |-> [kind |-> "head", starts |-> FixHead,
          imports |-> ImportsOff, symbols |-> SymbolsOff, count |-> n]],
       [size |-> FixImg, what |-> [kind |-> "starts", got |-> IF n = 0 THEN 0 ELSE FixImg]],
       [size |-> FixSeg, what |-> [kind |-> "chain",
          segment |-> SectionVm(OffExterns) - TextVm, start |-> 0]] >>
    \o [k \in 1 .. n |-> [size |-> FixImport, what |-> [kind |-> "import", pos |-> NamePos(k)]]]
    \o << [size |-> 1, what |-> [kind |-> "pad"]] >>
    \o [k \in 1 .. n |-> [size |-> NameSize(externs.names[k]),
                          what |-> [kind |-> "name", name |-> externs.names[k]]]])

(* Mutant: the null of the identifier is not counted. *)
SignatureSizeShort(len) == SigHead + SigIndex + SigDir + IdLen + (len \div SigPage) * SigHash

SignatureSize(len) == SigHead + SigIndex + SigDir + IdLen + 1 + (len \div SigPage) * SigHash

Signature(len) ==
  << [size |-> SigHead, what |-> [kind |-> "pad"]],
     [size |-> SigIndex, what |-> [kind |-> "pad"]],
     [size |-> SigDir, what |-> [kind |-> "directory", limit |-> len]],
     [size |-> IdLen + 1, what |-> [kind |-> "pad"]] >>
  \o [p \in 1 .. (len + SigPage - 1) \div SigPage |->
        [size |-> SigHash, what |-> [kind |-> "hash", from |-> (p - 1) * SigPage]]]

Commands(segs, entry, sigFile) ==
  segs \o
  << [cmd |-> "dylinker", size |-> DylinkerCmd], [cmd |-> "dylib", size |-> DylibCmd],
     [cmd |-> "fixups", size |-> LinkCmd, off |-> segs[7].file, len |-> segs[7].filesize],
     [cmd |-> "main", size |-> MainCmd, off |-> CodeFile + (words[entry].first - 1) * InstrSize],
     [cmd |-> "build", size |-> BuildCmd],
     [cmd |-> "signature", size |-> LinkCmd, off |-> sigFile, len |-> SignatureSize(sigFile)] >>

(* try_assert in compile_mach_executable. *)
Asserted(segs, link, sigFile, cmds) ==
  /\ \A i \in 2 .. 6 : \A n \in {segs[i].vm, segs[i].vmsize, segs[i].file} : Divides(Page, n)
  /\ CodeVm + segs[2].vmsize <= segs[3].vm
  /\ \A i \in 3 .. 4 : segs[i].vm + segs[i].vmsize <= segs[i + 1].vm
  /\ LinkVm + segs[7].vmsize <= SharedBase
  /\ Total([i \in DOMAIN cmds |-> cmds[i].size], Len(cmds)) = CmdSize
  /\ link.parts[Len(externs.names) + 4].at = SymbolsOff
  /\ Divides(SigPage, sigFile)

File(segs, link, cmds, codeLen, sigFile) ==
  LET head == PutAll(EmptyBuf, << [size |-> HeadSize, what |-> [kind |-> "pad"]] >>
                       \o [i \in DOMAIN cmds |-> [size |-> cmds[i].size,
                                                  what |-> [kind |-> "command", command |-> cmds[i]]]])
      text == PutAll(PadTo(head, CodeFile),
                [i \in 1 .. codeLen |-> [size |-> InstrSize, what |-> [kind |-> "instr", at |-> i]]])
      data == Put(PadTo(text, segs[3].file), dataTop, [kind |-> "data"])
      got == PutAll(PadTo(data, segs[4].file), GotSection)
      tail == PutAll(PadTo(got, segs[7].file),
                [i \in DOMAIN link.parts |-> [size |-> link.parts[i].size, what |-> link.parts[i].what]]) IN
  PutAll(PadTo(tail, sigFile), Signature(sigFile))

Executable(entry, codeLen) ==
  LET link == Linkedit
      segs == Segments(codeLen * InstrSize, dataTop, Len(externs.addrs) * CellSize, link.len)
      sigFile == segs[7].file + AlignPage(link.len)
      cmds == Commands(segs, entry, sigFile) IN
  LET file == File(segs, link, cmds, codeLen, sigFile) IN
  IF Asserted(segs, link, sigFile, cmds) /\ \A part \in ToSet(file.parts) : part.size >= 0
  THEN [result |-> "built", cmds |-> cmds, file |-> file]
  ELSE [result |-> "assertion"]

Synced == IF valid > execLen THEN valid ELSE execLen

(* The file is opened only when the image is built; every later step may fail. *)
WriteSteps == {"open", "write", "flush", "chmod", "close"}

(* Mutant: the result of flushing is dropped. *)
WriteFileUnflushed(entry, failing) ==
  LET opened == "open" \notin failing
      written == opened /\ failing \cap {"write", "flush"} = {}
      marked == opened /\ {"write", "chmod"} \cap failing = {} IN
  /\ disk' = [whole |-> IF opened THEN written ELSE disk.whole,
              mode |-> IF marked THEN "755" ELSE disk.mode]
  /\ image' = IF marked /\ "close" \notin failing
              THEN [result |-> "built", entry |-> entry] ELSE [result |-> "not written"]

WriteFile(entry, failing) ==
  LET opened == "open" \notin failing
      written == opened /\ failing \cap {"write", "flush"} = {}
      marked == written /\ "chmod" \notin failing IN
  /\ disk' = [whole |-> IF opened THEN written ELSE disk.whole,
              mode |-> IF marked THEN "755" ELSE disk.mode]
  /\ image' = IF marked /\ "close" \notin failing
              THEN [result |-> "built", entry |-> entry] ELSE [result |-> "not written"]

CompileExecutable(entry) ==
  /\ Idle
  /\ execLen' = IF ValidMain(entry) THEN Synced ELSE execLen
  /\ LET built == Executable(entry, Synced)
         refused == IF ~ValidMain(entry) THEN "invalid"
                    ELSE IF ~CalleesCanCompile(entry) THEN "interpreter only"
                    ELSE built.result IN
     IF refused # "built" THEN image' = [result |-> refused] /\ UNCHANGED disk
     ELSE \E failing \in SUBSET WriteSteps : WriteFile(entry, failing)
  /\ UNCHANGED <<code, valid, words, def, externs, declared, dataTop, regions>>

----
Init ==
  /\ session \in Sessions
  /\ code = <<>> /\ execLen = 0 /\ valid = 0 /\ words = <<>> /\ def = NoDef
  /\ externs = [names |-> <<>>, addrs |-> <<>>, inds |-> <<>>]
  /\ declared = {} /\ dataTop = 0 /\ regions = {}
  /\ image = NoImage
  /\ disk \in [whole : {TRUE}, mode : {"644", "755"}]

Does(op) == op \in session.ops

Next ==
  /\ \/ Begin
     \/ Does("fail") /\ Fail
     \/ Does("intrin") /\ CallIntrin
     \/ Does("interp") /\ InterpOnly
     \/ Does("recur") /\ Recur
     \/ \E k \in DOMAIN words : CallWord(k) \/ CompileExecutable(k)
     \/ \E n \in session.names : ExternAdr(n) \/ ExternFun(n) \/ CallExtern(n)
     \/ \E r \in regions : LoadData(r)
     \/ \E s \in session.signatures : End(s)
     \/ \E d \in session.data : AllocData(d[1], d[2])
  /\ UNCHANGED session

Spec == Init /\ [][Next]_vars

----
(* Loading the file: segments are mapped, and the chain of the linker is       *)
(* followed from slot to slot, each naming an import.                          *)

PartsAt(file, off) == {p \in ToSet(file.parts) : p.at <= off /\ off < p.at + p.size}

(* What is stored at an offset of the file, and how far into it. *)
Stored(file, off) ==
  IF PartsAt(file, off) = {} THEN [what |-> [kind |-> "nothing"], rest |-> 0]
  ELSE LET p == CHOOSE p \in PartsAt(file, off) : TRUE IN [what |-> p.what, rest |-> off - p.at]

Command(img, cmd) == CHOOSE c \in ToSet(img.cmds) : c.cmd = cmd

SegmentsAt(img, adr) ==
  {c \in ToSet(img.cmds) : c.cmd = "segment" /\ c.vm <= adr /\ adr < c.vm + c.vmsize}

Mapped(img, adr) ==
  IF Cardinality(SegmentsAt(img, adr)) # 1 THEN [what |-> [kind |-> "nothing"], rest |-> 0]
  ELSE LET c == CHOOSE c \in SegmentsAt(img, adr) : TRUE IN
       IF adr - c.vm < c.filesize THEN Stored(img.file, c.file + adr - c.vm)
       ELSE [what |-> [kind |-> "zeros"], rest |-> 0]

LinkHead(img) == Stored(img.file, Command(img, "fixups").off).what
LinkPart(img, off) == Stored(img.file, Command(img, "fixups").off + off)

Imported(img, ordinal) ==
  LET head == LinkHead(img)
      import == LinkPart(img, head.imports + FixImport * ordinal).what
      name == LinkPart(img, head.symbols + import.pos) IN
  IF name.rest = 0 /\ name.what.kind = "name" THEN name.what.name ELSE "none"

ChainStart(img) ==
  LET starts == LinkPart(img, LinkHead(img).starts).what
      chain == LinkPart(img, LinkHead(img).starts + starts.got).what IN
  IF starts.got = 0 THEN 0 ELSE TextVm + chain.segment + chain.start

(* The addresses in the chain, 0 behind its end. *)
Chain(img) ==
  LET next(adr) == Mapped(img, adr).what.next
      at[k \in 1 .. SlotCap] ==
        IF k = 1 THEN ChainStart(img)
        ELSE IF at[k - 1] = 0 \/ next(at[k - 1]) = 0 THEN 0
        ELSE at[k - 1] + next(at[k - 1]) * FixUnit IN
  Range(at) \ {0}

Loaded(img, adr) ==
  IF adr \in Chain(img)
  THEN [what |-> [kind |-> "extern", name |-> Imported(img, Mapped(img, adr).what.ordinal)],
        rest |-> 0]
  ELSE Mapped(img, adr)

----
(* What runs: the entry and every word a branch of it reaches. *)

Body(k) == words[k].first .. words[k].ret
Targets(k) == {i + code[i].off : i \in {j \in Body(k) : code[j].op = "bl"}}
Starts(i) == {k \in DOMAIN words : words[k].first = i}
Reached(entry) ==
  LET upTo[n \in Nat] ==
        IF n = 0 THEN {entry}
        ELSE upTo[n - 1] \cup UNION {Starts(i) : i \in UNION {Targets(k) : k \in upTo[n - 1]}} IN
  upTo[Len(words)]

----
(* Properties. *)

Built == image.result = "built"

(* The executable is a function of its entry and of the code it holds. *)
Written == Executable(image.entry, execLen)

(* Types, and what comp.h asks of Comp_syms: a name has one slot, which holds  *)
(* its address, whatever failed after it was registered.                       *)
TypeOK ==
  /\ Len(code) <= CodeLen /\ execLen <= valid /\ valid <= Len(code)
  /\ dataTop \in 0 .. DataLen
  /\ externs.inds \in [ToSet(externs.names) -> 1 .. SlotCap]
  /\ \A n \in DOMAIN externs.inds : externs.names[externs.inds[n]] = n
  /\ externs.addrs = externs.names /\ Len(externs.names) = Cardinality(DOMAIN externs.inds)
  /\ declared \subseteq DOMAIN externs.inds
  /\ image.result \in {"none", "invalid", "interpreter only", "built", "not written",
                       "assertion"}

(* An address in an instruction is the address of what the source named, for  *)
(* the place where the instruction is: copies made by inlining included.       *)
LoadsHere ==
  \A i \in DOMAIN code : code[i].op = "load" =>
    LET adr == ReadBy(code[i], InstrAdr(i)) of == code[i].of IN
    CASE of.kind = "intrin" -> adr = IntrinAdr
      [] of.kind = "data" -> adr = DataAdr(of.at)
      [] of.kind = "extern" ->
           \E k \in DOMAIN externs.addrs : adr = SlotAdr(k) /\ externs.addrs[k] = of.name

(* The allocations of the program are aligned, inside the heap, and share no  *)
(* byte.                                                                       *)
DataApart ==
  /\ \A r \in regions : Divides(r.align, r.at) /\ r.at + r.size <= dataTop
  /\ dataTop <= DataLen
  /\ \A r, q \in regions : r = q \/ r.at + r.size <= q.at \/ q.at + q.size <= r.at

(* In the loaded executable everything which can run is the code of finished  *)
(* words, branches land on words, and each address in it yields the same data *)
(* or the linked name of the source; intrinsics, which are not in the file,    *)
(* are named by none.                                                          *)
LoadsThere ==
  Built =>
    LET img == Written IN
    /\ Stored(img.file, Command(img, "main").off).what
         = [kind |-> "instr", at |-> words[image.entry].first]
    /\ \A k \in Reached(image.entry) :
         /\ \A i \in Targets(k) : Starts(i) # {}
         /\ \A i \in Body(k) :
              LET at == CodeVm + (i - 1) * InstrSize
                  got == Loaded(img, ReadBy(code[i], at)) IN
              /\ Mapped(img, at).what = [kind |-> "instr", at |-> i]
              /\ code[i].op = "load" =>
                   CASE code[i].of.kind = "intrin" -> FALSE
                     [] code[i].of.kind = "data" ->
                          got = [what |-> [kind |-> "data"], rest |-> code[i].of.at]
                     [] code[i].of.kind = "extern" ->
                          got = [what |-> code[i].of, rest |-> 0]

(* Segments share no address and no byte of the file, start at pages, stay    *)
(* below the shared region, and leave the guards around arena and cells        *)
(* without memory.                                                             *)
SegmentsOf(img) == {i \in DOMAIN img.cmds : img.cmds[i].cmd = "segment"}
SegmentsApart ==
  Built =>
    LET img == Written
        seg(i) == img.cmds[i] IN
    /\ \A i, j \in SegmentsOf(img) : i < j =>
         /\ seg(i).vm + seg(i).vmsize <= seg(j).vm
         /\ seg(i).file + seg(i).filesize <= seg(j).file
    /\ \A i \in SegmentsOf(img) :
         /\ Divides(Page, seg(i).vm) /\ Divides(Page, seg(i).file)
         /\ seg(i).vm + seg(i).vmsize <= SharedBase
         /\ seg(i).filesize <= seg(i).vmsize
    /\ \A off \in {OffArena - Page, OffCells - Page, OffCells + CellsLen} :
         SegmentsAt(img, SectionVm(off)) = {}
    /\ \A off \in {OffArena, OffArena + ArenaLen - 1, OffCells, OffCells + CellsLen - 1} :
         Mapped(img, SectionVm(off)).what.kind = "zeros"

(* The sizes announced in the headers are those written, and the signature    *)
(* has one hash for every page of everything before it.                        *)
Signed ==
  Built =>
    LET img == Written
        sig == Command(img, "signature") IN
    /\ sig.off + sig.len = img.file.len
    /\ \A off \in {n * SigPage : n \in 0 .. (sig.off - 1) \div SigPage} :
         Cardinality({p \in ToSet(img.file.parts) :
                        p.at >= sig.off /\ p.what = [kind |-> "hash", from |-> off]}) = 1
    /\ Divides(SigPage, sig.off)
    /\ Command(img, "fixups").off + Command(img, "fixups").len <= sig.off

(* However full the heaps are, an allowed entry is never refused by one of the *)
(* compiler's own checks of the layout.                                        *)
NoAssertion == image.result # "assertion"

(* Success is reported only with the whole file in place and executable, and  *)
(* a build which is refused leaves the previous file as it was.                *)
ResultTold ==
  /\ Built => disk = [whole |-> TRUE, mode |-> "755"]
  /\ image.result \in {"invalid", "interpreter only", "assertion"} => disk.whole
====
