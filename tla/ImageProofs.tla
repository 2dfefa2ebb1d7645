---- MODULE ImageProofs ----
(* Proofs about Image, for every size of the heaps: types, allocations of the  *)
(* data heap which share nothing, instructions which read what the source      *)
(* named, segments which follow each other, the signature of every page, that  *)
(* no check of the layout refuses a build, and that the loaded executable does *)
(* what was compiled.                                                          *)
EXTENDS Image, Basics

Region == [at : Nat, size : Nat \ {0}, align : Nat \ {0}]

(* Inductive: the allocations end where the heap says it is used up to. *)
DataInv ==
  /\ session \in Sessions
  /\ dataTop \in Nat
  /\ regions \subseteq Region
  /\ DataApart

LEMMA AlignUpAligns ==
  ASSUME NEW n \in Nat, NEW a \in Nat \ {0}
  PROVE /\ AlignUp(n, a) \in Nat
        /\ AlignUp(n, a) >= n
        /\ Divides(a, AlignUp(n, a))
<1> DEFINE q == (n + a - 1) \div a
<1>1. q \in Nat BY SMT
<1>2. q * a \in Nat BY <1>1, SMT
<1>3. ((n + a - 1) \div a) * a >= n BY SMT
<1>4. (q * a) % a = 0
  <2> HIDE DEF q
  <2> QED BY <1>1, SMT
<1> QED BY <1>2, <1>3, <1>4 DEF AlignUp, Divides

LEMMA DataInvInit == Init => DataInv
<1> SUFFICES ASSUME Init PROVE DataInv OBVIOUS
<1> USE DEF Init
<1>1. DataLen \in Nat BY ImageAssumption
<1>2. DataApart BY <1>1 DEF DataApart
<1> QED BY <1>2 DEF DataInv

LEMMA AllocDataKeeps ==
  ASSUME DataInv, NEW d \in session.data, AllocData(d[1], d[2]), UNCHANGED session
  PROVE DataInv'
<1> DEFINE size == d[1]
           align == d[2]
           at == AlignUp(dataTop, align)
           new == [at |-> at, size |-> size, align |-> align]
<1>1. size \in Nat \ {0} /\ align \in Nat \ {0}
  <2>1. session.data \subseteq (Nat \ {0}) \X (Nat \ {0})
    BY ImageAssumption DEF DataInv
  <2> QED BY <2>1
<1>2. at \in Nat /\ at >= dataTop /\ Divides(align, at)
  BY <1>1, AlignUpAligns DEF DataInv
<1>3. at <= DataLen /\ size <= DataLen - at /\ dataTop' = at + size
      /\ regions' = regions \cup {new}
  BY DEF AllocData
<1> HIDE DEF size, align
<1>4. DataLen \in Nat BY ImageAssumption
<1> HIDE DEF at
<1>5. dataTop' \in Nat /\ dataTop' <= DataLen /\ dataTop' >= dataTop
  BY <1>1, <1>2, <1>3, <1>4 DEF DataInv
<1>6. new \in Region /\ new.at = at /\ new.size = size /\ new.align = align
  BY <1>1, <1>2 DEF Region
<1> HIDE DEF new
<1>7. \A r \in regions' : Divides(r.align, r.at) /\ r.at + r.size <= dataTop'
  <2> SUFFICES ASSUME NEW r \in regions' PROVE Divides(r.align, r.at) /\ r.at + r.size <= dataTop'
    OBVIOUS
  <2>1. CASE r = new BY <2>1, <1>2, <1>3, <1>6
  <2>2. CASE r \in regions
    <3>1. Divides(r.align, r.at) /\ r.at + r.size <= dataTop BY <2>2 DEF DataInv, DataApart
    <3>2. r.at \in Nat /\ r.size \in Nat BY <2>2 DEF DataInv, Region
    <3> QED BY <3>1, <3>2, <1>5 DEF DataInv
  <2> QED BY <2>1, <2>2, <1>3
<1>8. \A r, q \in regions' : r = q \/ r.at + r.size <= q.at \/ q.at + q.size <= r.at
  <2>1. \A r \in regions : r.at + r.size <= new.at
    <3> SUFFICES ASSUME NEW r \in regions PROVE r.at + r.size <= new.at OBVIOUS
    <3>1. r.at + r.size <= dataTop BY DEF DataInv, DataApart
    <3>2. r.at \in Nat /\ r.size \in Nat BY DEF DataInv, Region
    <3> QED BY <3>1, <3>2, <1>2, <1>6 DEF DataInv
  <2> QED BY <2>1, <1>3 DEF DataInv, DataApart
<1>9. regions' \subseteq Region BY <1>3, <1>6 DEF DataInv
<1> QED BY <1>5, <1>7, <1>8, <1>9 DEF DataInv, DataApart

LEMMA OthersKeep ==
  ASSUME DataInv, UNCHANGED <<session, dataTop, regions>>
  PROVE DataInv'
BY DEF DataInv, DataApart

LEMMA DataInvNext == DataInv /\ [Next]_vars => DataInv'
<1> SUFFICES ASSUME DataInv, [Next]_vars PROVE DataInv' OBVIOUS
<1>1. CASE UNCHANGED vars BY <1>1, OthersKeep DEF vars
<1>2. CASE Next
  <2>0. UNCHANGED session BY <1>2 DEF Next
  <2> USE <2>0
  <2>1. CASE Begin BY <2>1, OthersKeep DEF Begin
  <2>2. CASE Fail BY <2>2, OthersKeep DEF Fail
  <2>3. CASE CallIntrin BY <2>3, OthersKeep DEF CallIntrin, Compiling
  <2>4. CASE InterpOnly BY <2>4, OthersKeep DEF InterpOnly, Compiling
  <2>5. CASE Recur BY <2>5, OthersKeep DEF Recur, Compiling
  <2>6. ASSUME NEW k \in DOMAIN words, CallWord(k) PROVE DataInv'
    BY <2>6, OthersKeep DEF CallWord, Compiling
  <2>7. ASSUME NEW k \in DOMAIN words, CompileExecutable(k) PROVE DataInv'
    BY <2>7, OthersKeep DEF CompileExecutable
  <2>8. ASSUME NEW n \in session.names, ExternAdr(n) PROVE DataInv'
    BY <2>8, OthersKeep DEF ExternAdr, Compiling
  <2>9. ASSUME NEW n \in session.names, ExternFun(n) PROVE DataInv'
    BY <2>9, OthersKeep DEF ExternFun
  <2>10. ASSUME NEW n \in session.names, CallExtern(n) PROVE DataInv'
    BY <2>10, OthersKeep DEF CallExtern, Compiling
  <2>11. ASSUME NEW r \in regions, LoadData(r) PROVE DataInv'
    BY <2>11, OthersKeep DEF LoadData, Compiling
  <2>12. ASSUME NEW s \in session.signatures, End(s) PROVE DataInv'
    BY <2>12, OthersKeep DEF End
  <2>13. ASSUME NEW d \in session.data, AllocData(d[1], d[2]) PROVE DataInv'
    BY <2>13, AllocDataKeeps
  <2> QED
    BY <1>2, <2>1, <2>2, <2>3, <2>4, <2>5, <2>6, <2>7, <2>8, <2>9, <2>10, <2>11,
       <2>12, <2>13 DEF Next
<1> QED BY <1>1, <1>2

(* Whatever is allocated, in whatever sizes and alignments, allocations are    *)
(* aligned, inside the data heap and apart from each other (comp_alloc_data).  *)
THEOREM DataStaysApart == Spec => []DataApart
<1>1. DataInv => DataApart BY DEF DataInv
<1> QED BY <1>1, DataInvInit, DataInvNext, PTL DEF Spec

----
(* Layout. *)

LEMMA AlignUpBelow ==
  ASSUME NEW n \in Nat, NEW a \in Nat \ {0}, NEW m \in Nat, Divides(a, m), n <= m
  PROVE AlignUp(n, a) <= m
<1> DEFINE j == m \div a
           q == (n + a - 1) \div a
<1>1. j \in Nat BY SMT
<1>2. q \in Nat BY SMT
<1>3. m % a = 0 BY DEF Divides
<1>4. m = j * a BY <1>3, SMT
<1>5. q * a <= n + a - 1 BY SMT
<1>6. q * a < j * a + a
  <2> HIDE DEF q, j
  <2> QED BY <1>1, <1>2, <1>4, <1>5, SMT
<1>7. q <= j
  <2> HIDE DEF q, j
  <2>1. CASE q >= j + 1
    <3>1. q * a >= (j + 1) * a BY <2>1, <1>1, <1>2, SMT
    <3>2. (j + 1) * a = j * a + a BY <1>1, SMT
    <3> QED BY <3>1, <3>2, <1>6, <1>1, <1>2, SMT
  <2> QED BY <2>1, <1>1, <1>2, SMT
<1>8. q * a <= j * a
  <2> HIDE DEF q, j
  <2> QED BY <1>1, <1>2, <1>7, SMT
<1> QED
  <2>1. AlignUp(n, a) = q * a BY DEF AlignUp
  <2> HIDE DEF q, j
  <2> QED BY <1>4, <1>8, <2>1

LEMMA DividesPlus ==
  ASSUME NEW a \in Nat \ {0}, NEW m \in Nat, NEW n \in Nat, Divides(a, m), Divides(a, n)
  PROVE  Divides(a, m + n)
<1> DEFINE i == m \div a
           j == n \div a
<1>1. m % a = 0 /\ n % a = 0 BY DEF Divides
<1>2. i \in Nat /\ j \in Nat BY SMT
<1>3. m = i * a BY <1>1, SMT
<1>4. n = j * a BY <1>1, SMT
<1> HIDE DEF i, j
<1>5. (i + j) * a = m + n BY <1>2, <1>3, <1>4, SMT
<1>6. ((i + j) * a) % a = 0
  <2>1. PICK k \in Nat : k = i + j BY <1>2
  <2>2. (k * a) % a = 0 BY SMT
  <2> QED BY <2>1, <2>2
<1> QED BY <1>5, <1>6 DEF Divides

(* The segments of every executable follow each other in memory and in the    *)
(* file, however full the heaps are, and start at pages: what                  *)
(* compile_mach_executable asserts of them holds by the layout of Comp_heap.   *)
THEOREM SegmentsFollow ==
  ASSUME NEW codeLen \in Nat, codeLen <= CodeLen * InstrSize,
         NEW dataLen \in Nat, dataLen <= DataLen,
         NEW gotLen \in Nat, gotLen <= Page,
         NEW linkLen \in Nat
  PROVE  LET segs == Segments(codeLen, dataLen, gotLen, linkLen) IN
         /\ \A i \in 1 .. 6 :
              /\ segs[i].vm + segs[i].vmsize <= segs[i + 1].vm
              /\ segs[i].file + segs[i].filesize <= segs[i + 1].file
         /\ \A i \in 1 .. 7 :
              /\ segs[i].vm \in Nat /\ segs[i].vmsize \in Nat
              /\ segs[i].file \in Nat /\ segs[i].filesize \in Nat
              /\ Divides(Page, segs[i].vm) /\ Divides(Page, segs[i].vmsize)
              /\ Divides(Page, segs[i].file)
              /\ segs[i].filesize <= segs[i].vmsize
<1> DEFINE C == CodeLen * InstrSize
           textSize == AlignPage(CodeFile + codeLen)
           dataSize == AlignPage(dataLen)
           gotSize == AlignPage(gotLen)
           arenaSize == AlignPage(ArenaLen)
           cellsSize == AlignPage(CellsLen)
           linkSize == AlignPage(linkLen)
           segs == Segments(codeLen, dataLen, gotLen, linkLen)
<1>1. /\ Page \in Nat \ {0} /\ C \in Nat /\ Divides(Page, C)
      /\ DataLen \in Nat /\ Divides(Page, DataLen)
      /\ CellsLen \in Nat /\ Divides(Page, CellsLen)
      /\ ArenaLen \in Nat /\ Divides(Page, ArenaLen) /\ PageZero \in Nat
  BY ImageAssumption
<1>2. HeadSize + CmdSize \in Nat /\ HeadSize + CmdSize > 0
  BY DEF HeadSize, CmdSize, SegCmd, Sect, LinkCmd, DylinkerCmd, DylibCmd, MainCmd, BuildCmd
<1>3. Divides(Page, Page)
  <2>1. Page % Page = 0 BY <1>1, SMT
  <2> QED BY <2>1 DEF Divides
<1>4. CodeFile \in Nat /\ Divides(Page, CodeFile)
  BY <1>1, <1>2, AlignUpAligns DEF CodeFile, AlignPage
<1> HIDE DEF C
<1>5. textSize \in Nat /\ textSize <= CodeFile + C
  <2>1. CodeFile + codeLen \in Nat /\ CodeFile + codeLen <= CodeFile + C /\ CodeFile + C \in Nat
    BY <1>1, <1>4 DEF C
  <2>2. Divides(Page, CodeFile + C) BY <1>1, <1>4, DividesPlus
  <2> HIDE DEF C
  <2> QED BY <1>1, <2>1, <2>2, AlignUpBelow, AlignUpAligns DEF AlignPage
<1>6. dataSize \in Nat /\ dataSize <= DataLen
  BY <1>1, AlignUpBelow, AlignUpAligns DEF AlignPage
<1>7. gotSize \in Nat /\ gotSize <= Page
  BY <1>1, <1>3, AlignUpBelow, AlignUpAligns DEF AlignPage
<1>8. /\ arenaSize \in Nat /\ arenaSize <= ArenaLen
      /\ cellsSize \in Nat /\ linkSize \in Nat
  <2>1. arenaSize \in Nat BY <1>1, AlignUpAligns DEF AlignPage
  <2>2. arenaSize <= ArenaLen BY <1>1, AlignUpBelow DEF AlignPage
  <2>3. cellsSize \in Nat BY <1>1, AlignUpAligns DEF AlignPage
  <2>4. linkSize \in Nat BY <1>1, AlignUpAligns DEF AlignPage
  <2> QED BY <2>1, <2>2, <2>3, <2>4
<1> HIDE DEF textSize, dataSize, gotSize, arenaSize, cellsSize, linkSize
<1>9. /\ CodeVm = PageZero + CodeFile
      /\ SectionVm(OffData) = CodeVm + C + Page
      /\ SectionVm(OffExterns) = SectionVm(OffData) + DataLen + Page
      /\ SectionVm(OffArena) = SectionVm(OffExterns) + 4 * Page
      /\ SectionVm(OffCells) = SectionVm(OffArena) + ArenaLen + Page
      /\ LinkVm = SectionVm(OffCells) + cellsSize + Page
  <2>1. CodeVm \in Nat /\ OffCode \in Nat BY <1>1, <1>4 DEF CodeVm, TextVm, OffCode
  <2> QED
    BY <1>1, <1>4, <1>8, <2>1
    DEF CodeVm, TextVm, SectionVm, OffCode, OffData, OffExterns, OffIntrins, OffArena,
        OffCells, LinkVm, C, cellsSize
<1>10. segs =
        << Segment("PAGEZERO", 0, PageZero, 0, 0, 0),
           Segment("TEXT", PageZero, textSize, 0, textSize, 1),
           Segment("DATA", SectionVm(OffData), dataSize, textSize, dataSize, 1),
           Segment("DATA_CONST", SectionVm(OffExterns), gotSize, textSize + dataSize, gotSize, 1),
           Segment("ARENA", SectionVm(OffArena), arenaSize, textSize + dataSize + gotSize, 0, 1),
           Segment("CELLS", SectionVm(OffCells), cellsSize, textSize + dataSize + gotSize, 0, 1),
           Segment("LINKEDIT", LinkVm, linkSize, textSize + dataSize + gotSize, linkLen, 0) >>
  BY DEF Segments, TextSegment, DataSegment, GotSegment, ArenaSegment, CellsSegment,
     LinkSegment, TextVm, textSize, dataSize, gotSize, arenaSize, cellsSize, linkSize
<1> DEFINE data == SectionVm(OffData)
           externsVm == SectionVm(OffExterns)
           arena == SectionVm(OffArena)
           cells == SectionVm(OffCells)
<1>11. /\ CodeVm \in Nat /\ data \in Nat /\ externsVm \in Nat /\ arena \in Nat /\ cells \in Nat
       /\ LinkVm \in Nat
  BY <1>1, <1>4, <1>8, <1>9
<1>12. /\ PageZero + textSize <= data /\ data + dataSize <= externsVm
       /\ externsVm + gotSize <= arena /\ arena + arenaSize <= cells
       /\ cells + cellsSize <= LinkVm
  BY <1>1, <1>4, <1>5, <1>6, <1>7, <1>8, <1>9, <1>11
<1>13. Divides(Page, 0)
  <2>1. 0 % Page = 0 BY <1>1, SMT
  <2> QED BY <2>1 DEF Divides
<1>14. /\ Divides(Page, PageZero) /\ Divides(Page, textSize) /\ Divides(Page, dataSize)
       /\ Divides(Page, gotSize) /\ Divides(Page, arenaSize) /\ Divides(Page, cellsSize)
       /\ Divides(Page, linkSize) /\ linkLen <= linkSize
  <2>1. CodeFile + codeLen \in Nat BY <1>4
  <2> QED
    BY <1>1, <2>1, ImageAssumption, AlignUpAligns
    DEF AlignPage, textSize, dataSize, gotSize, arenaSize, cellsSize, linkSize
<1>15. Divides(Page, data)
  <2>1. Divides(Page, CodeVm) BY <1>1, <1>4, <1>9, <1>14, DividesPlus
  <2>2. Divides(Page, CodeVm + C) BY <2>1, <1>1, <1>11, DividesPlus
  <2> QED BY <2>2, <1>1, <1>3, <1>9, <1>11, DividesPlus DEF data
<1>16. Divides(Page, externsVm)
  <2>1. Divides(Page, data + DataLen) BY <1>1, <1>11, <1>15, DividesPlus
  <2>2. data + DataLen \in Nat BY <1>1, <1>11
  <2> QED BY <2>1, <2>2, <1>1, <1>3, <1>9, DividesPlus DEF data, externsVm
<1>17. Divides(Page, arena)
  <2>1. Divides(Page, Page + Page) /\ Page + Page \in Nat BY <1>1, <1>3, DividesPlus
  <2>2. Divides(Page, Page + Page + (Page + Page)) /\ Page + Page + (Page + Page) \in Nat
    BY <2>1, <1>1, DividesPlus
  <2>3. PICK four \in Nat : four = Page + Page + (Page + Page) BY <2>2
  <2>4. arena = externsVm + four BY <1>1, <1>9, <1>11, <2>3 DEF externsVm, arena
  <2>5. externsVm \in Nat BY <1>11
  <2>6. Divides(Page, four) BY <2>2, <2>3
  <2> HIDE DEF externsVm, arena
  <2>7. Divides(Page, externsVm + four) BY <2>5, <2>6, <1>1, <1>16, DividesPlus
  <2> QED BY <2>4, <2>7
<1>18. Divides(Page, cells)
  <2>1. Divides(Page, arena + ArenaLen) BY <1>1, <1>11, <1>17, DividesPlus
  <2>2. arena + ArenaLen \in Nat BY <1>1, <1>11
  <2> QED BY <2>1, <2>2, <1>1, <1>3, <1>9, DividesPlus DEF arena, cells
<1>19. Divides(Page, LinkVm)
  <2>1. Divides(Page, cells + cellsSize) BY <1>1, <1>8, <1>11, <1>14, <1>18, DividesPlus
  <2>2. cells + cellsSize \in Nat BY <1>8, <1>11
  <2> QED BY <2>1, <2>2, <1>1, <1>3, <1>9, DividesPlus DEF cells
<1>20. /\ Divides(Page, textSize + dataSize) /\ textSize + dataSize \in Nat
       /\ Divides(Page, textSize + dataSize + gotSize) /\ textSize + dataSize + gotSize \in Nat
  <2>1. Divides(Page, textSize + dataSize) /\ textSize + dataSize \in Nat
    BY <1>1, <1>5, <1>6, <1>14, DividesPlus
  <2>2. PICK n \in Nat : n = textSize + dataSize BY <2>1
  <2>3. Divides(Page, n) BY <2>1, <2>2
  <2>4. Divides(Page, n + gotSize) /\ n + gotSize \in Nat
    BY <2>3, <1>1, <1>7, <1>14, DividesPlus
  <2> QED BY <2>1, <2>2, <2>4
<1> HIDE DEF segs, data, externsVm, arena, cells
<1>21. ASSUME NEW i \in 1 .. 6
       PROVE  /\ segs[i].vm + segs[i].vmsize <= segs[i + 1].vm
              /\ segs[i].file + segs[i].filesize <= segs[i + 1].file
  <2> USE DEF Segment, data, externsVm, arena, cells
  <2>1. CASE i = 1 BY <2>1, <1>1, <1>10
  <2>2. CASE i = 2 BY <2>2, <1>5, <1>10, <1>12
  <2>3. CASE i = 3 BY <2>3, <1>5, <1>6, <1>10, <1>12
  <2>4. CASE i = 4 BY <2>4, <1>5, <1>6, <1>7, <1>10, <1>12
  <2>5. CASE i = 5 BY <2>5, <1>5, <1>6, <1>7, <1>10, <1>12
  <2>6. CASE i = 6 BY <2>6, <1>5, <1>6, <1>7, <1>10, <1>12
  <2> QED BY <2>1, <2>2, <2>3, <2>4, <2>5, <2>6
<1>22. ASSUME NEW i \in 1 .. 7
       PROVE  /\ segs[i].vm \in Nat /\ segs[i].vmsize \in Nat
              /\ segs[i].file \in Nat /\ segs[i].filesize \in Nat
              /\ Divides(Page, segs[i].vm) /\ Divides(Page, segs[i].vmsize)
              /\ Divides(Page, segs[i].file)
              /\ segs[i].filesize <= segs[i].vmsize
  <2> USE DEF Segment, data, externsVm, arena, cells
  <2>1. CASE i = 1 BY <2>1, <1>1, <1>10, <1>13, <1>14
  <2>2. CASE i = 2 BY <2>2, <1>1, <1>5, <1>10, <1>13, <1>14
  <2>3. CASE i = 3 BY <2>3, <1>5, <1>6, <1>10, <1>11, <1>14, <1>15
  <2>4. CASE i = 4 BY <2>4, <1>7, <1>10, <1>11, <1>14, <1>16, <1>20
  <2>5. CASE i = 5 BY <2>5, <1>8, <1>10, <1>11, <1>14, <1>17, <1>20
  <2>6. CASE i = 6 BY <2>6, <1>8, <1>10, <1>11, <1>14, <1>18, <1>20
  <2>7. CASE i = 7 BY <2>7, <1>8, <1>10, <1>11, <1>14, <1>19, <1>20
  <2> QED BY <2>1, <2>2, <2>3, <2>4, <2>5, <2>6, <2>7
<1> QED BY <1>21, <1>22 DEF segs

----
(* What the compiler leaves behind. *)

DefFields == {"floor", "callees", "interpOnly", "loads"}

WordNo(k) == [kind |-> "word", word |-> k]
Intrin == [kind |-> "intrin"]

(* A load which reads, where it is, what the source named. *)
LoadOf(instr, i, syms, rs) ==
  \/ instr = LoadAt(i, IntrinAdr, Intrin)
  \/ \E r \in rs : instr = LoadAt(i, DataAdr(r.at), [kind |-> "data", at |-> r.at])
  \/ \E n \in DOMAIN syms.inds :
       instr = LoadAt(i, SlotAdr(syms.inds[n]), [kind |-> "extern", name |-> n])

Known(instr, i, syms, rs) ==
  \/ instr \in {Other, Ret, [op |-> "recur"]}
  \/ \E off \in Int : instr = Branch(off)
  \/ LoadOf(instr, i, syms, rs)

(* What a word says of itself covers its instruction at i. *)
Covered(instr, i, ws, callees, loads) ==
  /\ instr.op = "bl" => \E j \in DOMAIN ws : /\ i + instr.off = ws[j].first
                                             /\ WordNo(j) \in callees
  /\ instr.op = "load" => loads = TRUE \/ callees # {}
  /\ instr.op = "load" /\ instr.of = Intrin => Intrin \in callees

(* Finished words follow each other, and call those before them or themselves. *)
WordIs(k) ==
  LET w == words[k] IN
  /\ w.first \in Nat /\ w.ret \in Nat /\ 1 <= w.first /\ w.first <= w.ret /\ w.ret <= valid
  /\ \A j \in 1 .. k - 1 : words[j].ret < w.first
  /\ \A c \in w.callees : c.kind = "word" => c.word \in 1 .. k
  /\ \A i \in w.first .. w.ret :
       code[i].op # "recur" /\ Covered(code[i], i, words, w.callees, w.loads)

(* The word being compiled, which has room for its last instruction. *)
DefIs ==
  def = NoDef \/
  /\ DOMAIN def = DefFields /\ def.floor \in valid + 1 .. Len(code)
  /\ Len(code) < session.len /\ code[def.floor] = Other
  /\ \A c \in def.callees : c.kind = "word" => c.word \in 1 .. Len(words) + 1
  /\ \A i \in def.floor .. Len(code) :
       /\ Covered(code[i], i, words, def.callees, def.loads)
       /\ code[i].op = "recur" => WordNo(Len(words) + 1) \in def.callees

CodeIs ==
  /\ IsSeq(code) /\ Len(code) <= session.len
  /\ execLen \in Nat /\ valid \in Nat /\ execLen <= valid /\ valid <= Len(code)
  /\ IsSeq(words) /\ \A k \in DOMAIN words : WordIs(k)
  /\ DefIs
  /\ \A i \in DOMAIN code : Known(code[i], i, externs, regions)

(* A linked name has one slot, found by its name. *)
SlotsAre ==
  /\ IsSeq(externs.names) /\ externs.addrs = externs.names /\ Len(externs.names) <= SlotCap
  /\ \A k \in 1 .. Len(externs.names) : externs.names[k] \in Names
  /\ externs.inds = [n \in DOMAIN externs.inds |-> externs.inds[n]]
  /\ \A n \in DOMAIN externs.inds : /\ externs.inds[n] \in 1 .. Len(externs.names)
                                    /\ externs.names[externs.inds[n]] = n
  /\ \A k \in 1 .. Len(externs.names) : /\ externs.names[k] \in DOMAIN externs.inds
                                        /\ externs.inds[externs.names[k]] = k
  /\ declared \subseteq DOMAIN externs.inds

SessionLen == session \in Sessions /\ session.len \in Nat /\ session.len <= CodeLen

LEMMA DefIsDef ==
  ASSUME DOMAIN def = DefFields
  PROVE  def # NoDef
<1>1. "callees" \in DOMAIN def BY DEF DefFields
<1>2. "callees" \notin DOMAIN NoDef BY DEF NoDef
<1> QED BY <1>1, <1>2

LEMMA WordsStayThere ==
  ASSUME CodeIs, NEW k \in DOMAIN words, valid' \in Nat, valid <= valid',
         \A j \in DOMAIN words : j \in DOMAIN words' /\ words'[j] = words[j],
         \A i \in 1 .. valid : code'[i] = code[i]
  PROVE  WordIs(k)'
<1>1. k \in 1 .. Len(words) /\ k \in Nat /\ DOMAIN words = 1 .. Len(words) /\ Len(words) \in Nat
  BY SeqParts DEF CodeIs
<1>2. WordIs(k) /\ valid \in Nat BY DEF CodeIs
<1>3. PICK w : w = words[k] OBVIOUS
<1>4. w = words'[k] BY <1>3
<1>5. \A i \in w.first .. w.ret : code'[i] = code[i] BY <1>2, <1>3 DEF WordIs
<1>6. \A i \in w.first .. w.ret :
        code'[i].op # "recur" /\ Covered(code'[i], i, words', w.callees, w.loads)
  BY <1>2, <1>3, <1>5 DEF WordIs, Covered
<1>7. w.ret <= valid' BY <1>2, <1>3 DEF WordIs
<1>8. \A j \in 1 .. k - 1 : words'[j].ret < w.first
  <2>1. \A j \in 1 .. k - 1 : j \in DOMAIN words BY <1>1
  <2> QED BY <2>1, <1>2, <1>3 DEF WordIs
<1> QED BY <1>2, <1>3, <1>4, <1>6, <1>7, <1>8 DEF WordIs

(* Slots are only added. *)
SlotsKept ==
  \A n \in DOMAIN externs.inds : /\ n \in DOMAIN externs'.inds
                                 /\ externs'.inds[n] = externs.inds[n]

LEMMA KnownStays ==
  ASSUME NEW instr, NEW i, SlotsKept, regions \subseteq regions',
         Known(instr, i, externs, regions)
  PROVE  Known(instr, i, externs', regions')
<1>1. LoadOf(instr, i, externs, regions) => LoadOf(instr, i, externs', regions')
  BY DEF LoadOf, SlotsKept
<1> QED BY <1>1 DEF Known

LEMMA SeqLength ==
  ASSUME CodeIs
  PROVE  /\ Len(code) \in Nat /\ DOMAIN code = 1 .. Len(code)
         /\ Len(words) \in Nat /\ DOMAIN words = 1 .. Len(words)
BY SeqParts DEF CodeIs

(* Steps which leave code and words alone. *)
LEMMA CodeKept ==
  ASSUME CodeIs, UNCHANGED <<session, code, valid, words>>,
         execLen' \in Nat, execLen' <= valid, SlotsKept, regions \subseteq regions',
         def' = def \/ def' = NoDef
  PROVE  CodeIs'
<1>1. \A i \in DOMAIN code : Known(code[i], i, externs', regions')
  BY KnownStays DEF CodeIs
<1>2. valid \in Nat BY DEF CodeIs
<1>3. ASSUME NEW k \in DOMAIN words PROVE WordIs(k)'
  BY <1>2, WordsStayThere
<1>4. DefIs'
  <2>1. CASE def' = NoDef BY <2>1 DEF DefIs
  <2>2. CASE def' = def BY <2>2 DEF CodeIs, DefIs, Covered
  <2> QED BY <2>1, <2>2
<1> QED BY <1>1, <1>3, <1>4 DEF CodeIs

(* Steps which compile into the current word. *)
LEMMA Appending ==
  ASSUME CodeIs, NEW instrs, IsSeq(instrs), UNCHANGED <<session, valid, words>>,
         session.len \in Nat, Len(code) + Len(instrs) + 1 <= session.len,
         code' = code \o instrs, def # NoDef,
         DOMAIN def' = DefFields, def'.floor = def.floor, def.callees \subseteq def'.callees,
         def.loads = TRUE => def'.loads = TRUE,
         \A c \in def'.callees : c.kind = "word" => c.word \in 1 .. Len(words) + 1,
         execLen' \in Nat, execLen' <= valid, SlotsKept, regions \subseteq regions',
         \A i \in 1 .. Len(instrs) :
           /\ Known(instrs[i], Len(code) + i, externs', regions')
           /\ Covered(instrs[i], Len(code) + i, words, def'.callees, def'.loads)
           /\ instrs[i].op = "recur" => WordNo(Len(words) + 1) \in def'.callees
  PROVE  CodeIs'
<1>1. /\ Len(code) \in Nat /\ DOMAIN code = 1 .. Len(code)
      /\ Len(words) \in Nat /\ DOMAIN words = 1 .. Len(words)
      /\ Len(instrs) \in Nat
  BY SeqLength, SeqParts
<1>2. /\ IsSeq(code') /\ Len(code') = Len(code) + Len(instrs)
      /\ \A i \in 1 .. Len(code) : code'[i] = code[i]
      /\ \A i \in 1 .. Len(instrs) : code'[Len(code) + i] = instrs[i]
  <2>1. PICK r : r = code \o instrs OBVIOUS
  <2> QED BY <2>1, ConcatParts DEF CodeIs
<1>3. Len(code') \in Nat /\ DOMAIN code' = 1 .. Len(code')
  BY <1>2, SeqParts
<1>4. valid \in Nat /\ valid <= Len(code) BY DEF CodeIs
<1>5. ASSUME NEW k \in DOMAIN words PROVE WordIs(k)'
  BY <1>1, <1>2, <1>4, WordsStayThere
<1>6. ASSUME NEW i \in 1 .. Len(code')
      PROVE  i \in 1 .. Len(code) \/ \E j \in 1 .. Len(instrs) : i = Len(code) + j
  <2>1. CASE i <= Len(code) BY <2>1, <1>1
  <2>2. CASE i > Len(code)
    <3>1. i - Len(code) \in 1 .. Len(instrs) BY <2>2, <1>1, <1>2
    <3>2. i = Len(code) + (i - Len(code)) BY <1>1
    <3> QED BY <3>1, <3>2
  <2> QED BY <2>1, <2>2, <1>1
<1>7. ASSUME NEW i \in 1 .. Len(code') PROVE Known(code'[i], i, externs', regions')
  <2>1. CASE i \in 1 .. Len(code)
    <3>1. Known(code[i], i, externs, regions) BY <2>1, <1>1 DEF CodeIs
    <3>2. Known(code[i], i, externs', regions') BY <3>1, KnownStays
    <3> QED BY <3>2, <2>1, <1>2
  <2>2. CASE \E j \in 1 .. Len(instrs) : i = Len(code) + j BY <2>2, <1>2
  <2> QED BY <2>1, <2>2, <1>6
<1>8. DefIs'
  <2>1. /\ def.floor \in valid + 1 .. Len(code) /\ code[def.floor] = Other
        /\ \A i \in def.floor .. Len(code) :
             /\ Covered(code[i], i, words, def.callees, def.loads)
             /\ code[i].op = "recur" => WordNo(Len(words) + 1) \in def.callees
    BY DEF CodeIs, DefIs
  <2>2. /\ def'.floor \in valid + 1 .. Len(code') /\ code'[def'.floor] = Other
        /\ Len(code') < session.len
    BY <2>1, <1>1, <1>2, <1>4
  <2>3. ASSUME NEW i \in def'.floor .. Len(code')
        PROVE  /\ Covered(code'[i], i, words, def'.callees, def'.loads)
               /\ code'[i].op = "recur" => WordNo(Len(words) + 1) \in def'.callees
    <3>1. i \in 1 .. Len(code') BY <2>2, <1>4
    <3>2. CASE i \in 1 .. Len(code)
      <4>1. i \in def.floor .. Len(code) BY <3>2, <2>1, <1>4
      <4>2. /\ Covered(code[i], i, words, def.callees, def.loads)
            /\ code[i].op = "recur" => WordNo(Len(words) + 1) \in def.callees
        BY <2>1, <4>1
      <4>3. code'[i] = code[i] BY <1>2, <3>2
      <4> QED BY <4>2, <4>3 DEF Covered
    <3>3. CASE \E j \in 1 .. Len(instrs) : i = Len(code) + j BY <3>3, <1>2
    <3> QED BY <3>1, <3>2, <3>3, <1>6
  <2> QED BY <2>2, <2>3 DEF DefIs, Covered
<1> QED BY <1>2, <1>3, <1>4, <1>5, <1>7, <1>8 DEF CodeIs

LEMMA OneParts ==
  ASSUME NEW x
  PROVE  IsSeq(<<x>>) /\ Len(<<x>>) = 1 /\ <<x>>[1] = x
<1>1. <<x>> \in Seq({x}) OBVIOUS
<1> QED BY <1>1 DEF IsSeq

LEMMA CompilingOne ==
  ASSUME CodeIs, SessionLen, NEW x, NEW d, Compiling(<<x>>, d), session' = session,
         DOMAIN d = DefFields, d.floor = def.floor, def.callees \subseteq d.callees,
         def.loads = TRUE => d.loads = TRUE,
         \A c \in d.callees : c.kind = "word" => c.word \in 1 .. Len(words) + 1,
         SlotsKept,
         Known(x, Len(code) + 1, externs', regions),
         Covered(x, Len(code) + 1, words, d.callees, d.loads),
         x.op = "recur" => WordNo(Len(words) + 1) \in d.callees
  PROVE  CodeIs'
<1>1. PICK instrs : instrs = <<x>> OBVIOUS
<1>2. IsSeq(instrs) /\ Len(instrs) = 1 /\ instrs[1] = x BY <1>1, OneParts
<1>3. /\ def # NoDef /\ Len(code) + Len(instrs) + 1 <= session.len
      /\ code' = code \o instrs /\ def' = d
      /\ UNCHANGED <<execLen, words, valid, regions>>
  BY <1>1 DEF Compiling, Defining, Fits, Append1
<1>4. session.len \in Nat BY DEF SessionLen
<1>5. execLen \in Nat /\ execLen <= valid BY DEF CodeIs
<1>6. \A i \in 1 .. Len(instrs) :
        /\ Known(instrs[i], Len(code) + i, externs', regions')
        /\ Covered(instrs[i], Len(code) + i, words, def'.callees, def'.loads)
        /\ instrs[i].op = "recur" => WordNo(Len(words) + 1) \in def'.callees
  <2>1. \A i \in 1 .. Len(instrs) : i = 1 BY <1>2
  <2> QED BY <2>1, <1>2, <1>3
<1>7. /\ DOMAIN def' = DefFields /\ def'.floor = def.floor /\ def.callees \subseteq def'.callees
      /\ def.loads = TRUE => def'.loads = TRUE
      /\ \A c \in def'.callees : c.kind = "word" => c.word \in 1 .. Len(words) + 1
  BY <1>3
<1>8. UNCHANGED <<session, valid, words>> /\ regions \subseteq regions'
      /\ execLen' \in Nat /\ execLen' <= valid
  BY <1>3, <1>5
<1> QED BY <1>2, <1>3, <1>4, <1>6, <1>7, <1>8, Appending

LEMMA DefDomain ==
  ASSUME CodeIs, def # NoDef
  PROVE  /\ DOMAIN def = DefFields
         /\ \A c \in def.callees : c.kind = "word" => c.word \in 1 .. Len(words) + 1
BY DEF CodeIs, DefIs

LEMMA CallsIs ==
  ASSUME NEW c, DOMAIN def = DefFields
  PROVE  /\ DOMAIN Calls(c) = DefFields
         /\ Calls(c).floor = def.floor /\ Calls(c).callees = def.callees \cup {c}
         /\ Calls(c).loads = def.loads
BY DEF Calls, DefFields

LEMMA MarkedIs ==
  ASSUME NEW d, DOMAIN d = DefFields, NEW mark
  PROVE  /\ DOMAIN Marked(d, mark) = DefFields
         /\ Marked(d, mark).floor = d.floor /\ Marked(d, mark).callees = d.callees
         /\ Marked(d, mark).loads = d.loads
BY DEF Marked, DefFields

LEMMA LoadCovered ==
  ASSUME NEW i, NEW adr, NEW of, NEW callees, NEW loads,
         loads = TRUE \/ callees # {}, of = Intrin => Intrin \in callees
  PROVE  /\ Covered(LoadAt(i, adr, of), i, words, callees, loads)
         /\ LoadAt(i, adr, of).op # "recur"
BY DEF Covered, LoadAt

LEMMA CallIntrinKeeps ==
  ASSUME CodeIs, SessionLen, CallIntrin, session' = session
  PROVE  CodeIs'
<1>1. def # NoDef BY DEF CallIntrin, Compiling, Defining
<1>2. PICK called : called = Calls(Intrin) OBVIOUS
<1>3. PICK d : d = Marked(called, TRUE) OBVIOUS
<1>4. PICK x : x = LoadAt(Len(code) + 1, IntrinAdr, Intrin) OBVIOUS
<1>5. Compiling(<<x>>, d) BY <1>2, <1>3, <1>4 DEF CallIntrin, Next1, Intrin
<1>6. /\ DOMAIN d = DefFields /\ d.floor = def.floor
      /\ d.callees = def.callees \cup {Intrin} /\ d.loads = def.loads
  <2>1. DOMAIN def = DefFields BY <1>1, DefDomain
  <2>2. /\ DOMAIN called = DefFields /\ called.floor = def.floor
        /\ called.callees = def.callees \cup {Intrin} /\ called.loads = def.loads
    BY <2>1, <1>2, CallsIs
  <2> QED BY <2>2, <1>3, MarkedIs
<1>7. \A c \in d.callees : c.kind = "word" => c.word \in 1 .. Len(words) + 1
  BY <1>1, <1>6, DefDomain DEF Intrin
<1>8. Covered(x, Len(code) + 1, words, d.callees, d.loads) /\ x.op # "recur"
  BY <1>4, <1>6, LoadCovered
<1>9. SlotsKept BY DEF CallIntrin, SlotsKept
<1>10. Known(x, Len(code) + 1, externs', regions) BY <1>4 DEF Known, LoadOf
<1> QED BY <1>5, <1>6, <1>7, <1>8, <1>9, <1>10, CompilingOne

LEMMA SlotKnown ==
  ASSUME SlotsAre, NEW n \in DOMAIN externs.inds
  PROVE  LoadOf(LoadAt(Next1, SlotAdr(externs.inds[n]), [kind |-> "extern", name |-> n]),
                Next1, externs, regions)
BY DEF LoadOf

LEMMA CallExternKeeps ==
  ASSUME CodeIs, SessionLen, SlotsAre, NEW n, CallExtern(n), session' = session
  PROVE  CodeIs'
<1> DEFINE of == [kind |-> "extern", name |-> n]
<1>1. def # NoDef BY DEF CallExtern, Compiling, Defining
<1>2. PICK d : d = Calls(of) OBVIOUS
<1>3. PICK x : x = LoadAt(Len(code) + 1, SlotAdr(externs.inds[n]), of) OBVIOUS
<1>4. Compiling(<<x>>, d) BY <1>2, <1>3 DEF CallExtern, LoadSlot, Next1
<1>5. /\ DOMAIN d = DefFields /\ d.floor = def.floor
      /\ d.callees = def.callees \cup {of} /\ d.loads = def.loads
  BY <1>1, <1>2, DefDomain, CallsIs
<1>6. \A c \in d.callees : c.kind = "word" => c.word \in 1 .. Len(words) + 1
  BY <1>1, <1>5, DefDomain
<1>7. Covered(x, Len(code) + 1, words, d.callees, d.loads) /\ x.op # "recur"
  <2>1. of # Intrin
    <3>1. of.kind # Intrin.kind BY DEF Intrin
    <3> QED BY <3>1
  <2> HIDE DEF of
  <2> QED BY <2>1, <1>3, <1>5, LoadCovered
<1>8. SlotsKept BY DEF CallExtern, SlotsKept
<1>9. n \in DOMAIN externs.inds BY DEF CallExtern, SlotsAre
<1>10. Known(x, Len(code) + 1, externs', regions)
  BY <1>3, <1>9 DEF Known, LoadOf, CallExtern
<1> HIDE DEF of
<1> QED BY <1>4, <1>5, <1>6, <1>7, <1>8, <1>10, CompilingOne

LEMMA SlotCapIs == SlotCap \in Nat
<1>1. Page \in Nat /\ CellSize \in Nat \ {0} BY ImageAssumption
<1> QED BY <1>1, SMT DEF SlotCap

LEMMA RegisterKeeps ==
  ASSUME SlotsAre, NEW n \in Names, HasSlot(n), externs' = Registered(n),
         declared' \subseteq declared \cup {n}
  PROVE  SlotsAre' /\ SlotsKept /\ n \in DOMAIN externs'.inds
<1>1. IsSeq(externs.names) /\ Len(externs.names) \in Nat
      /\ DOMAIN externs.names = 1 .. Len(externs.names)
  BY SeqParts DEF SlotsAre
<1>2. CASE Find(n) # 0
  <2>1. n \in DOMAIN externs.inds BY <1>2 DEF Find
  <2>2. externs' = externs BY <1>2 DEF Registered
  <2> QED BY <2>1, <2>2 DEF SlotsAre, SlotsKept
<1>3. CASE Find(n) = 0
  <2>1. n \notin DOMAIN externs.inds BY <1>1, <1>3 DEF Find, SlotsAre
  <2>2. PICK names : names = externs.names OBVIOUS
  <2>3. PICK inds : inds = externs.inds OBVIOUS
  <2>4. PICK names1 : names1 = Append(names, n) OBVIOUS
  <2>5. PICK inds1 : inds1 = [m \in DOMAIN inds \cup {n} |->
                                IF m = n THEN Len(names) + 1 ELSE inds[m]]
    OBVIOUS
  <2>6. externs' = [names |-> names1, addrs |-> names1, inds |-> inds1]
    BY <1>3, <2>2, <2>3, <2>4, <2>5 DEF Registered, SlotsAre
  <2>7. externs'.names = names1 /\ externs'.addrs = names1 /\ externs'.inds = inds1
    BY <2>6
  <2>8. /\ IsSeq(names1) /\ Len(names1) = Len(names) + 1 /\ names1[Len(names) + 1] = n
        /\ \A i \in 1 .. Len(names) : names1[i] = names[i]
    BY <1>1, <2>2, <2>4, AppendParts
  <2>9. Len(names1) <= SlotCap
    BY <1>1, <1>3, <2>2, <2>8, SlotCapIs DEF HasSlot
  <2>10. DOMAIN inds1 = DOMAIN inds \cup {n} /\ inds1 = [m \in DOMAIN inds1 |-> inds1[m]]
    BY <2>5
  <2>11. inds1[n] = Len(names) + 1 /\ \A m \in DOMAIN inds : inds1[m] = inds[m]
    BY <2>1, <2>3, <2>5
  <2>12. ASSUME NEW m \in DOMAIN inds1 PROVE inds1[m] \in 1 .. Len(names1) /\ names1[inds1[m]] = m
    BY <1>1, <2>2, <2>3, <2>8, <2>10, <2>11 DEF SlotsAre
  <2>13. ASSUME NEW k \in 1 .. Len(names1)
         PROVE  names1[k] \in DOMAIN inds1 /\ inds1[names1[k]] = k
    BY <1>1, <2>2, <2>3, <2>8, <2>10, <2>11 DEF SlotsAre
  <2>14. declared' \subseteq DOMAIN inds1 BY <2>3, <2>10 DEF SlotsAre
  <2>15. ASSUME NEW k \in 1 .. Len(names1) PROVE names1[k] \in Names
    <3>1. CASE k = Len(names) + 1 BY <2>8, <3>1
    <3>2. CASE k # Len(names) + 1
      <4>1. k \in 1 .. Len(names) BY <1>1, <2>2, <2>8, <3>2
      <4> QED BY <4>1, <1>1, <2>2, <2>8 DEF SlotsAre
    <3> QED BY <3>1, <3>2
  <2> QED BY <2>3, <2>7, <2>8, <2>9, <2>10, <2>11, <2>12, <2>13, <2>14, <2>15
          DEF SlotsAre, SlotsKept
<1> QED BY <1>2, <1>3

LEMMA ExternAdrKeeps ==
  ASSUME CodeIs, SessionLen, SlotsAre, NEW n \in Names, ExternAdr(n), session' = session
  PROVE  CodeIs' /\ SlotsAre'
<1> DEFINE of == [kind |-> "extern", name |-> n]
<1>1. def # NoDef BY DEF ExternAdr, Compiling, Defining
<1>2. PICK d : d = [def EXCEPT !.loads = TRUE] OBVIOUS
<1>3. PICK x : x = LoadAt(Len(code) + 1, SlotAdr(externs'.inds[n]), of) OBVIOUS
<1>4. Compiling(<<x>>, d) BY <1>2, <1>3 DEF ExternAdr, LoadSlot, Next1
<1>5. /\ DOMAIN d = DefFields /\ d.floor = def.floor
      /\ d.callees = def.callees /\ d.loads = TRUE
  <2>1. DOMAIN def = DefFields BY <1>1, DefDomain
  <2> QED BY <2>1, <1>2 DEF DefFields
<1>6. \A c \in d.callees : c.kind = "word" => c.word \in 1 .. Len(words) + 1
  BY <1>1, <1>5, DefDomain
<1>7. Covered(x, Len(code) + 1, words, d.callees, d.loads) /\ x.op # "recur"
  <2>1. of # Intrin
    <3>1. of.kind # Intrin.kind BY DEF Intrin
    <3> QED BY <3>1
  <2> HIDE DEF of
  <2> QED BY <2>1, <1>3, <1>5, LoadCovered
<1>8. SlotsAre' /\ SlotsKept /\ n \in DOMAIN externs'.inds
  BY RegisterKeeps DEF ExternAdr
<1>9. Known(x, Len(code) + 1, externs', regions)
  BY <1>3, <1>8 DEF Known, LoadOf
<1> HIDE DEF of
<1>10. CodeIs' BY <1>4, <1>5, <1>6, <1>7, <1>8, <1>9, CompilingOne
<1> QED BY <1>8, <1>10

LEMMA LoadDataKeeps ==
  ASSUME CodeIs, SessionLen, NEW r \in regions, LoadData(r), session' = session
  PROVE  CodeIs'
<1> DEFINE of == [kind |-> "data", at |-> r.at]
<1>1. def # NoDef BY DEF LoadData, Compiling, Defining
<1>2. PICK d : d = [def EXCEPT !.loads = TRUE] OBVIOUS
<1>3. PICK x : x = LoadAt(Len(code) + 1, DataAdr(r.at), of) OBVIOUS
<1>4. Compiling(<<x>>, d) BY <1>2, <1>3 DEF LoadData, Next1
<1>5. /\ DOMAIN d = DefFields /\ d.floor = def.floor
      /\ d.callees = def.callees /\ d.loads = TRUE
  <2>1. DOMAIN def = DefFields BY <1>1, DefDomain
  <2> QED BY <2>1, <1>2 DEF DefFields
<1>6. \A c \in d.callees : c.kind = "word" => c.word \in 1 .. Len(words) + 1
  BY <1>1, <1>5, DefDomain
<1>7. Covered(x, Len(code) + 1, words, d.callees, d.loads) /\ x.op # "recur"
  <2>1. of # Intrin
    <3>1. of.kind # Intrin.kind BY DEF Intrin
    <3> QED BY <3>1
  <2> HIDE DEF of
  <2> QED BY <2>1, <1>3, <1>5, LoadCovered
<1>8. SlotsKept BY DEF LoadData, SlotsKept
<1>9. Known(x, Len(code) + 1, externs', regions) BY <1>3 DEF Known, LoadOf
<1> HIDE DEF of
<1> QED BY <1>4, <1>5, <1>6, <1>7, <1>8, <1>9, CompilingOne

LEMMA InterpOnlyKeeps ==
  ASSUME CodeIs, SessionLen, InterpOnly, session' = session
  PROVE  CodeIs'
<1>1. def # NoDef BY DEF InterpOnly, Compiling, Defining
<1>2. PICK d : d = [def EXCEPT !.interpOnly = TRUE] OBVIOUS
<1>3. Compiling(<<Other>>, d) BY <1>2 DEF InterpOnly
<1>4. /\ DOMAIN d = DefFields /\ d.floor = def.floor
      /\ d.callees = def.callees /\ d.loads = def.loads
  <2>1. DOMAIN def = DefFields BY <1>1, DefDomain
  <2> QED BY <2>1, <1>2 DEF DefFields
<1>5. \A c \in d.callees : c.kind = "word" => c.word \in 1 .. Len(words) + 1
  BY <1>1, <1>4, DefDomain
<1>6. Covered(Other, Len(code) + 1, words, d.callees, d.loads) /\ Other.op # "recur"
  BY DEF Covered, Other
<1>7. SlotsKept BY DEF InterpOnly, SlotsKept
<1>8. Known(Other, Len(code) + 1, externs', regions) BY DEF Known
<1> QED BY <1>3, <1>4, <1>5, <1>6, <1>7, <1>8, CompilingOne

LEMMA RecurKeeps ==
  ASSUME CodeIs, SessionLen, Recur, session' = session
  PROVE  CodeIs'
<1>1. def # NoDef BY DEF Recur, Compiling, Defining
<1>2. PICK c : c = WordNo(Len(words) + 1) OBVIOUS
<1>3. PICK d : d = Calls(c) OBVIOUS
<1>4. PICK x : x = [op |-> "recur"] OBVIOUS
<1>5. Compiling(<<x>>, d) BY <1>2, <1>3, <1>4 DEF Recur, WordNo
<1>6. /\ DOMAIN d = DefFields /\ d.floor = def.floor
      /\ d.callees = def.callees \cup {c} /\ d.loads = def.loads
  BY <1>1, <1>3, DefDomain, CallsIs
<1>7. \A callee \in d.callees : callee.kind = "word" => callee.word \in 1 .. Len(words) + 1
  BY <1>1, <1>2, <1>6, DefDomain, SeqLength DEF WordNo
<1>8. Covered(x, Len(code) + 1, words, d.callees, d.loads) BY <1>4 DEF Covered
<1>9. WordNo(Len(words) + 1) \in d.callees BY <1>2, <1>6
<1>10. SlotsKept BY DEF Recur, SlotsKept
<1>11. Known(x, Len(code) + 1, externs', regions) BY <1>4 DEF Known
<1> QED BY <1>5, <1>6, <1>7, <1>8, <1>9, <1>10, <1>11, CompilingOne

LEMMA BeginKeeps ==
  ASSUME CodeIs, SessionLen, Begin, session' = session
  PROVE  CodeIs'
<1>1. /\ Len(code) \in Nat /\ DOMAIN code = 1 .. Len(code)
      /\ Len(words) \in Nat /\ DOMAIN words = 1 .. Len(words)
  BY SeqLength
<1>2. PICK d : d = [floor |-> Len(code) + 1, callees |-> {}, interpOnly |-> FALSE,
                    loads |-> FALSE]
  OBVIOUS
<1>3. PICK instrs : instrs = <<Other>> OBVIOUS
<1>4. IsSeq(instrs) /\ Len(instrs) = 1 /\ instrs[1] = Other BY <1>3, OneParts
<1>5. /\ def' = d /\ code' = code \o instrs /\ Len(code) + 1 + 1 <= session.len
      /\ UNCHANGED <<execLen, valid, words, externs, regions>>
  BY <1>2, <1>3 DEF Begin, Fits, Next1, Append1
<1>6. /\ IsSeq(code') /\ Len(code') = Len(code) + 1
      /\ \A i \in 1 .. Len(code) : code'[i] = code[i]
      /\ code'[Len(code) + 1] = Other
  <2>1. PICK r : r = code \o instrs OBVIOUS
  <2>2. /\ IsSeq(r) /\ Len(r) = Len(code) + Len(instrs)
        /\ \A i \in 1 .. Len(code) : r[i] = code[i]
        /\ \A i \in 1 .. Len(instrs) : r[Len(code) + i] = instrs[i]
    <3>1. IsSeq(code) /\ IsSeq(instrs) BY <1>4 DEF CodeIs
    <3> QED BY <3>1, <2>1, ConcatParts
  <2>3. 1 \in 1 .. Len(instrs) BY <1>4
  <2>4. r[Len(code) + 1] = Other BY <2>2, <2>3, <1>4
  <2> QED BY <2>1, <2>2, <2>4, <1>4, <1>5
<1>7. DOMAIN code' = 1 .. Len(code) + 1 BY <1>6, SeqParts
<1>8. execLen \in Nat /\ valid \in Nat /\ execLen <= valid /\ valid <= Len(code)
  BY DEF CodeIs
<1>9. ASSUME NEW k \in DOMAIN words PROVE WordIs(k)'
  BY <1>1, <1>5, <1>6, <1>8, WordsStayThere
<1>10. ASSUME NEW i \in DOMAIN code' PROVE Known(code'[i], i, externs, regions)
  <2>1. CASE i \in 1 .. Len(code) BY <2>1, <1>1, <1>6 DEF CodeIs
  <2>2. CASE i = Len(code) + 1 BY <2>2, <1>6 DEF Known
  <2> QED BY <2>1, <2>2, <1>1, <1>7
<1>11. DefIs'
  <2>1. /\ DOMAIN d = DefFields /\ d.floor = Len(code) + 1 /\ d.callees = {} /\ d.loads = FALSE
    BY <1>2 DEF DefFields
  <2>2. \A i \in Len(code) + 1 .. Len(code') : code'[i] = Other BY <1>1, <1>6
  <2>3. \A i \in Len(code) + 1 .. Len(code') :
          /\ Covered(code'[i], i, words, {}, FALSE)
          /\ code'[i].op # "recur"
    BY <2>2 DEF Covered, Other
  <2>4. session.len \in Nat BY DEF SessionLen
  <2>5. d.floor \in valid + 1 .. Len(code') /\ Len(code') < session.len
    BY <1>1, <1>5, <1>6, <1>8, <2>1, <2>4
  <2> QED BY <2>1, <2>3, <2>5, <1>5, <1>6 DEF DefIs, Covered
<1>12. Len(code') <= session.len /\ valid <= Len(code')
  <2>1. session.len \in Nat BY DEF SessionLen
  <2> QED BY <2>1, <1>1, <1>5, <1>6, <1>8
<1>13. IsSeq(words) BY DEF CodeIs
<1> QED BY <1>5, <1>6, <1>8, <1>9, <1>10, <1>11, <1>12, <1>13 DEF CodeIs

(* Instructions of an inlined word read nothing and branch nowhere. *)
LEMMA InlinedIs ==
  ASSUME CodeIs, NEW k \in DOMAIN words, Inlinable(words[k]),
         NEW i \in words[k].first .. words[k].ret
  PROVE  code[i] \in {Other, Ret}
<1>1. WordIs(k) /\ valid \in Nat /\ valid <= Len(code) BY DEF CodeIs
<1>2. PICK w : w = words[k] OBVIOUS
<1>3. i \in DOMAIN code BY <1>1, SeqLength DEF WordIs
<1>4. PICK x : x = code[i] OBVIOUS
<1>5. x.op # "recur" /\ Covered(x, i, words, w.callees, w.loads) BY <1>1, <1>2, <1>4 DEF WordIs
<1>6. w.callees = {} /\ w.loads # TRUE BY <1>2 DEF Inlinable
<1>7. x.op # "bl" /\ x.op # "load" BY <1>5, <1>6 DEF Covered
<1>8. Known(x, i, externs, regions) BY <1>3, <1>4 DEF CodeIs
<1>9. x \in {Other, Ret}
  <2>1. ~ LoadOf(x, i, externs, regions) BY <1>7 DEF LoadOf, LoadAt
  <2>2. \A off \in Int : x # Branch(off) BY <1>7 DEF Branch
  <2>3. x # [op |-> "recur"] BY <1>5
  <2> QED BY <1>8, <2>1, <2>2, <2>3 DEF Known
<1> QED BY <1>4, <1>9

LEMMA InliningKeeps ==
  ASSUME CodeIs, SessionLen, NEW k \in DOMAIN words, CallWord(k), Inlinable(words[k]),
         session' = session
  PROVE  CodeIs'
<1>1. PICK w : w = words[k] OBVIOUS
<1>2. PICK body : body = SubSeq(code, w.first, w.ret - 1) OBVIOUS
<1>3. PICK mark, d : mark = w.interpOnly /\ d = Marked(def, mark) OBVIOUS
<1>4. Compiling(body, d) /\ execLen' = execLen /\ externs' = externs
  BY <1>1, <1>2, <1>3 DEF CallWord
<1>5. def # NoDef BY <1>4 DEF Compiling, Defining
<1>6. /\ DOMAIN d = DefFields /\ d.floor = def.floor /\ d.callees = def.callees
      /\ d.loads = def.loads
  <2>1. DOMAIN def = DefFields BY <1>5, DefDomain
  <2> QED BY <2>1, <1>3 DEF Marked, DefFields
<1>7. /\ w.first \in Nat /\ w.ret \in Nat /\ 1 <= w.first /\ w.first <= w.ret
      /\ w.ret <= Len(code) /\ Len(code) \in Nat
  <2>1. WordIs(k) /\ valid \in Nat /\ valid <= Len(code) BY DEF CodeIs
  <2> QED BY <2>1, <1>1, SeqLength DEF WordIs
<1>8. /\ IsSeq(body) /\ Len(body) \in Nat
      /\ \A i \in 1 .. Len(body) : body[i] = code[w.first + i - 1]
      /\ Len(body) = w.ret - w.first
  <2>1. PICK S : code \in Seq(S) BY DEF CodeIs, IsSeq
  <2>2. PICK n : n = w.ret - 1 OBVIOUS
  <2>3. w.first \in 1 .. Len(code) + 1 /\ n \in w.first - 1 .. Len(code) BY <2>2, <1>7
  <2>4. /\ body \in Seq(S) /\ Len(body) = n - w.first + 1
        /\ \A i \in 1 .. n - w.first + 1 : body[i] = code[w.first + i - 1]
    <3>1. PICK m : m = w.first OBVIOUS
    <3>2. m \in Int /\ n \in Int /\ \A i \in m .. n : code[i] \in S
      BY <2>1, <2>3, <3>1, <1>7
    <3>3. body = SubSeq(code, m, n) BY <2>2, <3>1, <1>2
    <3>4. /\ body \in Seq(S)
          /\ Len(body) = IF m <= n THEN n - m + 1 ELSE 0
          /\ \A i \in 1 .. n - m + 1 : body[i] = code[m + i - 1]
      BY <3>2, <3>3, SubSeqProperties
    <3> QED BY <2>3, <3>1, <3>2, <3>4, <1>7
  <2> QED BY <2>2, <2>4, <1>7, SeqIsSeq
<1>9. ASSUME NEW i \in 1 .. Len(body) PROVE body[i] \in {Other, Ret}
  <2>1. w.first + i - 1 \in w.first .. w.ret BY <1>7, <1>8
  <2> QED BY <2>1, <1>1, <1>8, InlinedIs
<1>10. ASSUME NEW i \in 1 .. Len(body)
       PROVE  /\ Known(body[i], Len(code) + i, externs', regions')
              /\ Covered(body[i], Len(code) + i, words, d.callees, d.loads)
              /\ body[i].op # "recur"
  BY <1>9 DEF Known, Covered, Other, Ret
<1>11. SlotsKept BY <1>4 DEF SlotsKept
<1>12. /\ Len(code) + Len(body) + 1 <= session.len /\ code' = code \o body /\ def' = d
       /\ UNCHANGED <<valid, words, regions>>
  BY <1>4 DEF Compiling, Fits, Append1
<1>13. session.len \in Nat /\ execLen \in Nat /\ execLen <= valid
  BY DEF SessionLen, CodeIs
<1>14. \A c \in d.callees : c.kind = "word" => c.word \in 1 .. Len(words) + 1
  BY <1>5, <1>6, DefDomain
<1>15. UNCHANGED <<session, valid, words>> /\ execLen' \in Nat /\ execLen' <= valid
       /\ regions \subseteq regions'
  BY <1>4, <1>12, <1>13
<1>16. /\ DOMAIN def' = DefFields /\ def'.floor = def.floor /\ def.callees \subseteq def'.callees
       /\ def.loads = TRUE => def'.loads = TRUE
       /\ \A c \in def'.callees : c.kind = "word" => c.word \in 1 .. Len(words) + 1
  BY <1>6, <1>12, <1>14
<1>17. \A i \in 1 .. Len(body) :
         /\ Known(body[i], Len(code) + i, externs', regions')
         /\ Covered(body[i], Len(code) + i, words, def'.callees, def'.loads)
         /\ body[i].op = "recur" => WordNo(Len(words) + 1) \in def'.callees
  BY <1>10, <1>12
<1> QED BY <1>5, <1>8, <1>11, <1>12, <1>13, <1>15, <1>16, <1>17, Appending

LEMMA BranchingKeeps ==
  ASSUME CodeIs, SessionLen, NEW k \in DOMAIN words, CallWord(k), ~ Inlinable(words[k]),
         session' = session
  PROVE  CodeIs'
<1>1. PICK w : w = words[k] OBVIOUS
<1>2. PICK x : x = Branch(w.first - (Len(code) + 1)) OBVIOUS
<1>3. PICK instrs : instrs = <<x>> OBVIOUS
<1>4. PICK called : called = Calls(WordNo(k)) OBVIOUS
<1>5. PICK mark, d : mark = w.interpOnly /\ d = Marked(called, mark) OBVIOUS
<1>6. /\ def # NoDef /\ Len(code) + 1 + 1 <= session.len /\ code' = code \o instrs /\ def' = d
      /\ execLen' = IF w.ret <= execLen THEN execLen ELSE valid
      /\ UNCHANGED <<words, valid, regions, externs>>
  BY <1>1, <1>2, <1>3, <1>4, <1>5 DEF CallWord, Defining, Fits, Append1, Next1, WordNo
<1>7. DOMAIN def = DefFields BY <1>6, DefDomain
<1>8. /\ DOMAIN d = DefFields /\ d.floor = def.floor
      /\ d.callees = def.callees \cup {WordNo(k)} /\ d.loads = def.loads
  <2>1. /\ DOMAIN called = DefFields /\ called.floor = def.floor
        /\ called.callees = def.callees \cup {WordNo(k)} /\ called.loads = def.loads
    BY <1>7, <1>4, CallsIs
  <2> QED BY <2>1, <1>5 DEF Marked, DefFields
<1>9. IsSeq(instrs) /\ Len(instrs) = 1 /\ instrs[1] = x BY <1>3, OneParts
<1>10. /\ Len(code) \in Nat /\ k \in 1 .. Len(words) /\ Len(words) \in Nat /\ w.first \in Nat
  <2>1. WordIs(k) BY DEF CodeIs
  <2> QED BY <2>1, <1>1, SeqLength DEF WordIs
<1>11. \A c \in d.callees : c.kind = "word" => c.word \in 1 .. Len(words) + 1
  BY <1>6, <1>8, <1>10, DefDomain DEF WordNo
<1>12. Covered(x, Len(code) + 1, words, d.callees, d.loads) /\ x.op # "recur"
  <2>1. x.op = "bl" /\ x.off = w.first - (Len(code) + 1) BY <1>2 DEF Branch
  <2>2. Len(code) + 1 + x.off = w.first BY <2>1, <1>10
  <2>3. WordNo(k) \in d.callees BY <1>8
  <2> QED BY <2>1, <2>2, <2>3, <1>1 DEF Covered
<1>13. Known(x, Len(code) + 1, externs', regions')
  <2>1. w.first - (Len(code) + 1) \in Int BY <1>10
  <2> QED BY <2>1, <1>2 DEF Known
<1>14. SlotsKept BY <1>6 DEF SlotsKept
<1>15. session.len \in Nat /\ execLen \in Nat /\ execLen <= valid /\ valid \in Nat
  BY DEF SessionLen, CodeIs
<1>16. UNCHANGED <<session, valid, words>> /\ execLen' \in Nat /\ execLen' <= valid
       /\ regions \subseteq regions' /\ Len(code) + Len(instrs) + 1 <= session.len
  BY <1>6, <1>9, <1>15
<1>17. /\ DOMAIN def' = DefFields /\ def'.floor = def.floor /\ def.callees \subseteq def'.callees
       /\ def.loads = TRUE => def'.loads = TRUE
       /\ \A c \in def'.callees : c.kind = "word" => c.word \in 1 .. Len(words) + 1
  BY <1>6, <1>8, <1>11
<1>18. \A i \in 1 .. Len(instrs) :
         /\ Known(instrs[i], Len(code) + i, externs', regions')
         /\ Covered(instrs[i], Len(code) + i, words, def'.callees, def'.loads)
         /\ instrs[i].op = "recur" => WordNo(Len(words) + 1) \in def'.callees
  <2>1. \A i \in 1 .. Len(instrs) : i = 1 BY <1>9
  <2> QED BY <2>1, <1>6, <1>9, <1>12, <1>13
<1> QED BY <1>6, <1>9, <1>14, <1>15, <1>16, <1>17, <1>18, Appending

LEMMA FixRecurParts ==
  ASSUME NEW s, IsSeq(s), NEW fixed, fixed = FixRecur(s)
  PROVE  /\ IsSeq(fixed) /\ Len(fixed) = Len(s)
         /\ \A i \in 1 .. Len(s) :
              fixed[i] = IF i > def.floor /\ s[i].op = "recur" THEN Branch(First(def) - i)
                         ELSE s[i]
<1>1. Len(s) \in Nat /\ DOMAIN s = 1 .. Len(s) BY SeqParts
<1>2. fixed = [i \in 1 .. Len(s) |->
                 IF i > def.floor /\ s[i].op = "recur" THEN Branch(First(def) - i) ELSE s[i]]
  BY <1>1 DEF FixRecur
<1>3. fixed = [i \in 1 .. Len(s) |-> fixed[i]] BY <1>2
<1>4. IsSeq(fixed) /\ Len(fixed) = Len(s)
  <2>1. PICK n \in Nat : n = Len(s) BY <1>1
  <2> QED BY <1>3, <2>1, FunctionIsSeq
<1> QED BY <1>2, <1>4

(* What an ended word says of itself holds for its instructions, also for the  *)
(* calls of itself which are patched only now.                                 *)
LEMMA EndedIs ==
  ASSUME CodeIs, def # NoDef, NEW s, NEW n, n = Len(words) + 1, NEW w,
         w = [first |-> First(def), ret |-> Next1, callees |-> def.callees,
              interpOnly |-> def.interpOnly, loads |-> def.loads, sig |-> s],
         NEW fixed, fixed = FixRecur(code)
  PROVE  /\ w.first \in def.floor .. Len(code) + 1 /\ w.ret = Len(code) + 1
         /\ w.callees = def.callees /\ w.loads = def.loads
         /\ \A i \in w.first .. Len(code) :
              LET x == fixed[i] IN
              /\ x.op # "recur"
              /\ \/ Covered(x, i, words, w.callees, w.loads)
                 \/ x.op = "bl" /\ i + x.off = w.first /\ WordNo(n) \in w.callees
<1>1. /\ Len(code) \in Nat /\ DOMAIN code = 1 .. Len(code)
      /\ valid \in Nat /\ valid <= Len(code)
  BY SeqLength DEF CodeIs
<1>2. /\ def.floor \in valid + 1 .. Len(code) /\ code[def.floor] = Other
      /\ \A i \in def.floor .. Len(code) :
           /\ Covered(code[i], i, words, def.callees, def.loads)
           /\ code[i].op = "recur" => WordNo(Len(words) + 1) \in def.callees
  BY DEF CodeIs, DefIs
<1>3. /\ w.first = First(def) /\ w.ret = Len(code) + 1
      /\ w.callees = def.callees /\ w.loads = def.loads
  BY DEF Next1
<1>4. w.first \in def.floor .. Len(code) + 1 BY <1>1, <1>2, <1>3 DEF First
<1>5. ASSUME NEW i \in w.first .. Len(code)
      PROVE  LET x == fixed[i] IN
             /\ x.op # "recur"
             /\ \/ Covered(x, i, words, w.callees, w.loads)
                \/ x.op = "bl" /\ i + x.off = w.first /\ WordNo(n) \in w.callees
  <2>1. i \in 1 .. Len(code) /\ i \in def.floor .. Len(code) /\ i \in Nat
    BY <1>1, <1>2, <1>4
  <2>2. fixed[i] = IF i > def.floor /\ code[i].op = "recur" THEN Branch(First(def) - i)
                   ELSE code[i]
    <3>1. IsSeq(code) BY DEF CodeIs
    <3> QED BY <2>1, <3>1, FixRecurParts
  <2>3. CASE i > def.floor /\ code[i].op = "recur"
    <3>1. fixed[i].op = "bl" /\ fixed[i].off = w.first - i
      BY <2>2, <2>3, <1>3 DEF Branch
    <3>2. i + (w.first - i) = w.first BY <2>1, <1>1, <1>2, <1>4
    <3>3. WordNo(n) \in w.callees BY <2>1, <2>3, <1>2, <1>3
    <3> QED BY <3>1, <3>2, <3>3
  <2>4. CASE ~ (i > def.floor /\ code[i].op = "recur")
    <3>1. fixed[i] = code[i] BY <2>2, <2>4
    <3>2. code[i].op # "recur"
      <4>1. CASE i = def.floor BY <4>1, <1>2 DEF Other
      <4>2. CASE i > def.floor BY <4>2, <2>4
      <4> QED BY <4>1, <4>2, <2>1, <1>1, <1>2
    <3>3. Covered(code[i], i, words, w.callees, w.loads) BY <2>1, <1>2, <1>3
    <3> QED BY <3>1, <3>2, <3>3
  <2> QED BY <2>3, <2>4
<1> QED BY <1>3, <1>4, <1>5

LEMMA EndKeeps ==
  ASSUME CodeIs, SessionLen, NEW s, End(s), session' = session
  PROVE  CodeIs'
<1>1. /\ Len(code) \in Nat /\ DOMAIN code = 1 .. Len(code)
      /\ Len(words) \in Nat /\ DOMAIN words = 1 .. Len(words)
      /\ IsSeq(code) /\ IsSeq(words)
      /\ execLen \in Nat /\ valid \in Nat /\ execLen <= valid /\ valid <= Len(code)
      /\ session.len \in Nat
  BY SeqLength DEF CodeIs, SessionLen
<1>2. PICK w : w = [first |-> First(def), ret |-> Next1, callees |-> def.callees,
                    interpOnly |-> def.interpOnly, loads |-> def.loads, sig |-> s]
  OBVIOUS
<1>3. PICK fixed : fixed = FixRecur(code) OBVIOUS
<1>4. PICK n : n = Len(words) + 1 OBVIOUS
<1>5. /\ def # NoDef /\ code' = Append(fixed, Ret) /\ valid' = Len(code) + 1
      /\ words' = Append(words, w) /\ def' = NoDef
      /\ UNCHANGED <<execLen, externs, regions>>
  BY <1>2, <1>3 DEF End, Defining, Next1
<1>6. /\ IsSeq(fixed) /\ Len(fixed) = Len(code)
      /\ \A i \in 1 .. Len(code) :
           fixed[i] = IF i > def.floor /\ code[i].op = "recur" THEN Branch(First(def) - i)
                      ELSE code[i]
  BY <1>1, <1>3, FixRecurParts
<1>7. /\ IsSeq(code') /\ Len(code') = Len(code) + 1
      /\ \A i \in 1 .. Len(code) : code'[i] = fixed[i]
      /\ code'[Len(code) + 1] = Ret
  <2>1. PICK r : r = Append(fixed, Ret) OBVIOUS
  <2>2. /\ IsSeq(r) /\ Len(r) = Len(fixed) + 1
        /\ \A i \in 1 .. Len(fixed) : r[i] = fixed[i]
        /\ r[Len(fixed) + 1] = Ret
    BY <2>1, <1>6, AppendParts
  <2> QED BY <2>1, <2>2, <1>5, <1>6
<1>8. /\ IsSeq(words') /\ Len(words') = n /\ n \in Nat
      /\ \A j \in 1 .. Len(words) : words'[j] = words[j]
      /\ words'[n] = w
  <2>1. PICK r : r = Append(words, w) OBVIOUS
  <2>2. /\ IsSeq(r) /\ Len(r) = Len(words) + 1
        /\ \A j \in 1 .. Len(words) : r[j] = words[j]
        /\ r[Len(words) + 1] = w
    BY <2>1, <1>1, AppendParts
  <2> QED BY <2>1, <2>2, <1>1, <1>4, <1>5
<1>9. DOMAIN code' = 1 .. Len(code) + 1 /\ DOMAIN words' = 1 .. n
  BY <1>7, <1>8, SeqParts
<1>10. /\ def.floor \in valid + 1 .. Len(code) /\ Len(code) < session.len
       /\ \A c \in def.callees : c.kind = "word" => c.word \in 1 .. n
  BY <1>4, <1>5 DEF CodeIs, DefIs
<1>11. ASSUME NEW i \in 1 .. valid PROVE code'[i] = code[i]
  <2>1. i \in 1 .. Len(code) /\ ~ (i > def.floor) BY <1>1, <1>10
  <2> QED BY <2>1, <1>6, <1>7
<1>12. ASSUME NEW k \in DOMAIN words PROVE WordIs(k)'
  <2>1. valid' \in Nat /\ valid <= valid' BY <1>1, <1>5
  <2>2. \A j \in DOMAIN words : j \in DOMAIN words' /\ words'[j] = words[j]
    BY <1>1, <1>4, <1>8, <1>9
  <2> QED BY <2>1, <2>2, <1>11, WordsStayThere
<1>13. /\ w.first \in def.floor .. Len(code) + 1 /\ w.ret = Len(code) + 1
       /\ w.callees = def.callees /\ w.loads = def.loads
       /\ \A i \in w.first .. Len(code) :
            LET x == fixed[i] IN
            /\ x.op # "recur"
            /\ \/ Covered(x, i, words, w.callees, w.loads)
               \/ x.op = "bl" /\ i + x.off = w.first /\ WordNo(n) \in w.callees
  BY <1>2, <1>3, <1>4, <1>5, EndedIs
<1>14. ASSUME NEW i \in w.first .. w.ret
       PROVE  code'[i].op # "recur" /\ Covered(code'[i], i, words', w.callees, w.loads)
  <2>1. CASE i = Len(code) + 1 BY <2>1, <1>7 DEF Ret, Covered
  <2>2. CASE i \in w.first .. Len(code)
    <3>1. PICK x : x = fixed[i] OBVIOUS
    <3>2. code'[i] = x BY <3>1, <2>2, <1>1, <1>7, <1>10, <1>13
    <3>3. /\ x.op # "recur"
          /\ \/ Covered(x, i, words, w.callees, w.loads)
             \/ x.op = "bl" /\ i + x.off = w.first /\ WordNo(n) \in w.callees
      BY <3>1, <2>2, <1>13
    <3>4. CASE Covered(x, i, words, w.callees, w.loads)
      <4>1. \A j \in DOMAIN words : j \in DOMAIN words' /\ words'[j] = words[j]
        BY <1>1, <1>4, <1>8, <1>9
      <4> QED BY <4>1, <3>2, <3>3, <3>4 DEF Covered
    <3>5. CASE x.op = "bl" /\ i + x.off = w.first /\ WordNo(n) \in w.callees
      <4>1. n \in DOMAIN words' BY <1>1, <1>4, <1>9
      <4> QED BY <4>1, <3>2, <3>5, <1>8 DEF Covered
    <3> QED BY <3>3, <3>4, <3>5
  <2> QED BY <2>1, <2>2, <1>1, <1>10, <1>13
<1>15. WordIs(n)'
  <2>1. /\ w.first \in Nat /\ w.ret \in Nat /\ 1 <= w.first /\ w.first <= w.ret
        /\ w.ret <= valid'
    BY <1>1, <1>5, <1>10, <1>13
  <2>2. ASSUME NEW j \in 1 .. n - 1 PROVE words'[j].ret < w.first
    <3>1. j \in DOMAIN words /\ words'[j] = words[j] BY <1>1, <1>4, <1>8
    <3>2. words[j].ret \in Nat /\ words[j].ret <= valid BY <3>1 DEF CodeIs, WordIs
    <3> QED BY <3>1, <3>2, <1>1, <1>10, <1>13
  <2> QED BY <2>1, <2>2, <1>8, <1>10, <1>13, <1>14 DEF WordIs
<1>16. ASSUME NEW k \in DOMAIN words' PROVE WordIs(k)'
  <2>1. CASE k = n BY <2>1, <1>15
  <2>2. CASE k \in DOMAIN words BY <2>2, <1>12
  <2> QED BY <2>1, <2>2, <1>1, <1>4, <1>9
<1>17. ASSUME NEW i \in DOMAIN code' PROVE Known(code'[i], i, externs, regions)
  <2>1. CASE i = Len(code) + 1 BY <2>1, <1>7 DEF Known
  <2>2. CASE i \in 1 .. Len(code)
    <3>1. CASE i > def.floor /\ code[i].op = "recur"
      <4>1. code'[i] = Branch(First(def) - i) BY <3>1, <2>2, <1>6, <1>7
      <4>2. First(def) - i \in Int BY <2>2, <1>1, <1>10 DEF First
      <4> QED BY <4>1, <4>2 DEF Known
    <3>2. CASE ~ (i > def.floor /\ code[i].op = "recur")
      <4>1. code'[i] = code[i] BY <3>2, <2>2, <1>6, <1>7
      <4> QED BY <4>1, <2>2, <1>1 DEF CodeIs
    <3> QED BY <3>1, <3>2
  <2> QED BY <2>1, <2>2, <1>1, <1>9
<1>18. DefIs' BY <1>5 DEF DefIs
<1>19. Len(code') <= session.len /\ valid' \in Nat /\ execLen <= valid' /\ valid' <= Len(code')
  BY <1>1, <1>5, <1>7, <1>10
<1> QED BY <1>1, <1>5, <1>7, <1>8, <1>16, <1>17, <1>18, <1>19 DEF CodeIs

(* The file depends on nothing which building it changes. *)
LEMMA LinkeditSame ==
  ASSUME externs' = externs
  PROVE  Linkedit' = Linkedit /\ GotSection' = GotSection
BY DEF Linkedit, ImportsOff, SymbolsOff, NamePos, NameSize, GotSection, GotEntry

LEMMA ExecutableSame ==
  ASSUME NEW k, NEW n, words' = words, externs' = externs, dataTop' = dataTop
  PROVE  Executable(k, n)' = Executable(k, n)
<1>1. Linkedit' = Linkedit /\ GotSection' = GotSection BY LinkeditSame
<1>2. ASSUME NEW segs, NEW e, NEW file PROVE Commands(segs, e, file)' = Commands(segs, e, file)
  BY DEF Commands
<1>3. ASSUME NEW segs, NEW link, NEW file, NEW cmds
      PROVE  Asserted(segs, link, file, cmds)' <=> Asserted(segs, link, file, cmds)
  BY DEF Asserted, SymbolsOff
<1>4. ASSUME NEW segs, NEW link, NEW cmds, NEW len, NEW file
      PROVE  File(segs, link, cmds, len, file)' = File(segs, link, cmds, len, file)
  BY <1>1 DEF File
<1> QED BY <1>1, <1>2, <1>3, <1>4 DEF Executable

----
(* Which words an allowed entry reaches. *)

CalleesStep(f, k) ==
  UNION {{c} \cup (IF c.kind = "word" /\ c.word \in 1 .. k - 1 THEN f[c.word] ELSE {}) :
           c \in words[k].callees}

LEMMA StepSame ==
  ASSUME NEW f, NEW g, NEW k, \A j \in 1 .. k - 1 : f[j] = g[j]
  PROVE  CalleesStep(f, k) = CalleesStep(g, k)
<1>1. ASSUME NEW c
      PROVE  (IF c.kind = "word" /\ c.word \in 1 .. k - 1 THEN f[c.word] ELSE {}) =
             (IF c.kind = "word" /\ c.word \in 1 .. k - 1 THEN g[c.word] ELSE {})
  OBVIOUS
<1> QED BY <1>1 DEF CalleesStep

LEMMA CalleesAre == \A k \in Nat : CalleesOf[k] = CalleesStep(CalleesOf, k)
<1> DEFINE Upto(g, n) == /\ g = [m \in 0 .. n |-> g[m]]
                         /\ \A m \in 0 .. n : g[m] = CalleesStep(g, m)
           S == {n \in Nat : \E g : Upto(g, n)}
<1>1. 0 \in S
  <2>1. PICK x : x = CalleesStep([m \in 0 .. 0 |-> {}], 0) OBVIOUS
  <2>2. PICK g : g = [m \in 0 .. 0 |-> x] OBVIOUS
  <2>3. CalleesStep(g, 0) = x
    <3>1. \A j \in 1 .. 0 - 1 : g[j] = [m \in 0 .. 0 |-> {}][j] OBVIOUS
    <3> QED BY <3>1, <2>1, StepSame
  <2>4. Upto(g, 0) BY <2>2, <2>3
  <2> HIDE DEF Upto
  <2> QED BY <2>4
<1>2. ASSUME NEW n \in Nat, n \in S PROVE n + 1 \in S
  <2>1. PICK g : Upto(g, n)
    <3> HIDE DEF Upto
    <3> QED BY <1>2
  <2>2. PICK x : x = CalleesStep(g, n + 1) OBVIOUS
  <2>3. PICK h : h = [m \in 0 .. n + 1 |-> IF m = n + 1 THEN x ELSE g[m]] OBVIOUS
  <2>4. \A m \in 0 .. n : h[m] = g[m] BY <2>3
  <2>5. h[n + 1] = x BY <2>3
  <2>6. h = [m \in 0 .. n + 1 |-> h[m]] BY <2>3
  <2>7. ASSUME NEW m \in 0 .. n + 1 PROVE h[m] = CalleesStep(h, m)
    <3>1. \A j \in 1 .. m - 1 : h[j] = g[j] BY <2>4
    <3>2. CalleesStep(h, m) = CalleesStep(g, m) BY <3>1, StepSame
    <3>3. CASE m = n + 1 BY <3>2, <3>3, <2>2, <2>5
    <3>4. CASE m \in 0 .. n
      <4>1. g[m] = CalleesStep(g, m) BY <3>4, <2>1
      <4> QED BY <4>1, <3>2, <3>4, <2>4
    <3> QED BY <3>3, <3>4
  <2>8. Upto(h, n + 1) BY <2>6, <2>7
  <2> HIDE DEF Upto
  <2> QED BY <2>8
<1>3. ASSUME NEW n \in Nat PROVE \E g : Upto(g, n)
  <2>1. n \in S
    <3> HIDE DEF S
    <3> QED BY <1>1, <1>2, Induct
  <2> HIDE DEF Upto
  <2> QED BY <2>1
<1>4. ASSUME NEW n \in Nat, NEW k \in Nat, k >= n, NEW g, NEW h, Upto(g, n), Upto(h, k)
      PROVE  \A m \in 0 .. n : g[m] = h[m]
  <2> DEFINE T == {m \in 0 .. n : \A j \in 0 .. m : g[j] = h[j]}
  <2>1. \A m \in 0 .. n : g[m] = CalleesStep(g, m) /\ h[m] = CalleesStep(h, m)
    <3>1. \A m \in 0 .. n : m \in 0 .. k BY <1>4
    <3> QED BY <3>1, <1>4
  <2>2. 0 \in T
    <3>1. \A j \in 1 .. 0 - 1 : g[j] = h[j] OBVIOUS
    <3>2. CalleesStep(g, 0) = CalleesStep(h, 0) BY <3>1, StepSame
    <3>3. g[0] = h[0]
      <4>1. 0 \in 0 .. n OBVIOUS
      <4> QED BY <4>1, <3>2, <2>1
    <3> QED BY <3>3
  <2>3. ASSUME NEW m \in 0 .. n - 1, m \in T PROVE m + 1 \in T
    <3>1. m + 1 \in 0 .. n OBVIOUS
    <3>2. \A j \in 0 .. m : g[j] = h[j] BY <2>3
    <3>3. \A j \in 1 .. (m + 1) - 1 : g[j] = h[j] BY <3>2
    <3>4. CalleesStep(g, m + 1) = CalleesStep(h, m + 1) BY <3>3, StepSame
    <3>5. g[m + 1] = h[m + 1] BY <3>1, <3>4, <2>1
    <3>6. \A j \in 0 .. m + 1 : j \in 0 .. m \/ j = m + 1 OBVIOUS
    <3> QED BY <3>1, <3>2, <3>5, <3>6
  <2>4. \A m \in 0 .. n : m \in T
    <3> HIDE DEF T
    <3> QED BY <2>2, <2>3, InductTo
  <2>5. ASSUME NEW m \in 0 .. n PROVE g[m] = h[m]
    <3>1. m \in T /\ m \in 0 .. m BY <2>4
    <3> QED BY <3>1
  <2> QED BY <2>5
<1> DEFINE At(n) == CHOOSE g : Upto(g, n)
<1>5. ASSUME NEW n \in Nat PROVE Upto(At(n), n)
  <2> HIDE DEF Upto
  <2> QED BY <1>3
<1> HIDE DEF At
<1>6. PICK f : f = [n \in Nat |-> At(n)[n]] OBVIOUS
<1>7. ASSUME NEW n \in Nat PROVE f[n] = CalleesStep(f, n)
  <2>1. PICK g : g = At(n) OBVIOUS
  <2>2. Upto(g, n) BY <1>5, <2>1
  <2>3. g[n] = CalleesStep(g, n)
    <3>1. n \in 0 .. n OBVIOUS
    <3> QED BY <3>1, <2>2
  <2>4. ASSUME NEW j \in 1 .. n - 1 PROVE f[j] = g[j]
    <3>1. PICK h : h = At(j) OBVIOUS
    <3>2. j \in Nat /\ n >= j /\ j \in 0 .. j OBVIOUS
    <3>3. Upto(h, j) BY <3>1, <3>2, <1>5
    <3>4. h[j] = g[j]
      <4> HIDE DEF Upto
      <4>1. \A m \in 0 .. j : h[m] = g[m] BY <3>2, <3>3, <2>2, <1>4
      <4> QED BY <4>1, <3>2
    <3> QED BY <3>1, <3>2, <3>4, <1>6
  <2>5. CalleesStep(f, n) = CalleesStep(g, n) BY <2>4, StepSame
  <2> QED BY <2>1, <2>3, <2>5, <1>6
<1>8. f = [k \in Nat |-> CalleesStep(f, k)] BY <1>6, <1>7
<1>9. \E g : g = [k \in Nat |-> UNION {{c} \cup (IF c.kind = "word" /\ c.word \in 1 .. k - 1 THEN g[c.word] ELSE {}) :
           c \in words[k].callees}]
  BY <1>8 DEF CalleesStep
<1>10. CalleesOf = [k \in Nat |-> UNION {{c} \cup (IF c.kind = "word" /\ c.word \in 1 .. k - 1 THEN CalleesOf[c.word] ELSE {}) :
           c \in words[k].callees}]
  BY <1>9 DEF CalleesOf
<1> HIDE DEF CalleesOf
<1> QED BY <1>10 DEF CalleesStep

LEMMA WordsCalled ==
  ASSUME CodeIs, NEW k \in DOMAIN words, NEW j, WordNo(j) \in words[k].callees
  PROVE  j \in 1 .. k /\ j \in DOMAIN words
<1>1. WordIs(k) BY DEF CodeIs
<1>2. PICK c : c = WordNo(j) OBVIOUS
<1>3. c.kind = "word" /\ c.word = j BY <1>2 DEF WordNo
<1>4. j \in 1 .. k BY <1>1, <1>2, <1>3 DEF WordIs
<1>5. DOMAIN words = 1 .. Len(words) /\ Len(words) \in Nat BY SeqLength
<1> QED BY <1>4, <1>5

(* What a callee calls is called. *)
LEMMA CalleesClosed ==
  ASSUME CodeIs
  PROVE  \A k \in DOMAIN words :
           /\ words[k].callees \subseteq CalleesOf[k]
           /\ \A j : WordNo(j) \in CalleesOf[k] =>
                j \in DOMAIN words /\ words[j].callees \subseteq CalleesOf[k]
<1> DEFINE P(k) == \A j : WordNo(j) \in CalleesOf[k] =>
                     j \in DOMAIN words /\ words[j].callees \subseteq CalleesOf[k]
           S == {n \in Nat : \A k \in DOMAIN words : k <= n => P(k)}
<1>1. DOMAIN words = 1 .. Len(words) /\ Len(words) \in Nat BY SeqLength
<1>2. ASSUME NEW k \in DOMAIN words
      PROVE  /\ words[k].callees \subseteq CalleesOf[k]
             /\ \A c \in words[k].callees :
                  c.kind = "word" /\ c.word \in 1 .. k - 1 => CalleesOf[c.word] \subseteq CalleesOf[k]
             /\ \A d \in CalleesOf[k] :
                  \/ d \in words[k].callees
                  \/ \E c \in words[k].callees :
                       c.kind = "word" /\ c.word \in 1 .. k - 1 /\ d \in CalleesOf[c.word]
  <2>1. k \in Nat BY <1>1
  <2>2. CalleesOf[k] = CalleesStep(CalleesOf, k) BY <2>1, CalleesAre
  <2>3. PICK f : f = CalleesOf OBVIOUS
  <2>4. f[k] = UNION {{c} \cup (IF c.kind = "word" /\ c.word \in 1 .. k - 1 THEN f[c.word] ELSE {}) :
                       c \in words[k].callees}
    BY <2>2, <2>3 DEF CalleesStep
  <2>5. words[k].callees \subseteq f[k] BY <2>4
  <2>6. \A c \in words[k].callees :
          c.kind = "word" /\ c.word \in 1 .. k - 1 => f[c.word] \subseteq f[k]
    BY <2>4
  <2>7. \A d \in f[k] :
          \/ d \in words[k].callees
          \/ \E c \in words[k].callees :
               c.kind = "word" /\ c.word \in 1 .. k - 1 /\ d \in f[c.word]
    BY <2>4
  <2> QED BY <2>3, <2>5, <2>6, <2>7
<1>3. ASSUME NEW k \in DOMAIN words, \A m \in DOMAIN words : m < k => P(m),
             NEW j, WordNo(j) \in CalleesOf[k]
      PROVE  j \in DOMAIN words /\ words[j].callees \subseteq CalleesOf[k]
  <2>1. CASE WordNo(j) \in words[k].callees
    <3>1. j \in 1 .. k /\ j \in DOMAIN words BY <2>1, WordsCalled
    <3>2. CASE j = k BY <3>1, <3>2, <1>2
    <3>3. CASE j # k
      <4>1. j \in 1 .. k - 1 BY <3>1, <3>3, <1>1
      <4>2. WordNo(j).kind = "word" /\ WordNo(j).word = j BY DEF WordNo
      <4>3. CalleesOf[j] \subseteq CalleesOf[k] BY <2>1, <4>1, <4>2, <1>2
      <4>4. words[j].callees \subseteq CalleesOf[j] BY <3>1, <1>2
      <4> QED BY <3>1, <4>3, <4>4
    <3> QED BY <3>2, <3>3
  <2>2. CASE \E c \in words[k].callees :
               c.kind = "word" /\ c.word \in 1 .. k - 1 /\ WordNo(j) \in CalleesOf[c.word]
    <3>1. PICK c \in words[k].callees :
            c.kind = "word" /\ c.word \in 1 .. k - 1 /\ WordNo(j) \in CalleesOf[c.word]
      BY <2>2
    <3>2. c.word \in DOMAIN words /\ c.word < k BY <3>1, <1>1
    <3>3. j \in DOMAIN words /\ words[j].callees \subseteq CalleesOf[c.word]
      BY <3>1, <3>2, <1>3
    <3>4. CalleesOf[c.word] \subseteq CalleesOf[k] BY <3>1, <1>2
    <3> QED BY <3>3, <3>4
  <2> QED BY <2>1, <2>2, <1>2, <1>3
<1> HIDE DEF P
<1>4. 0 \in S
  <2>1. \A k \in DOMAIN words : ~(k <= 0) BY <1>1
  <2> QED BY <2>1
<1>5. ASSUME NEW n \in Nat, n \in S PROVE n + 1 \in S
  <2>1. ASSUME NEW k \in DOMAIN words, k <= n + 1 PROVE P(k)
    <3>1. \A m \in DOMAIN words : m < k => P(m)
      <4>1. \A m \in DOMAIN words : m < k => m <= n BY <2>1, <1>1
      <4> QED BY <4>1, <1>5
    <3> QED BY <3>1, <1>3 DEF P
  <2> QED BY <2>1
<1>6. \A n \in Nat : n \in S
  <2> HIDE DEF S
  <2> QED BY <1>4, <1>5, Induct
<1>7. ASSUME NEW k \in DOMAIN words PROVE P(k)
  <2>1. k \in S /\ k \in Nat /\ k <= k BY <1>1, <1>6
  <2> QED BY <2>1
<1> QED BY <1>2, <1>7 DEF P

(* Words which call no intrinsic and only each other, the entry among them. *)
Closed(entry, ws) ==
  /\ ws \subseteq DOMAIN words /\ entry \in ws
  /\ \A k \in ws : /\ Intrin \notin words[k].callees
                   /\ \A j : WordNo(j) \in words[k].callees => j \in ws

StandsAlone(entry) == \E ws : Closed(entry, ws)

LEMMA AllowedStandsAlone ==
  ASSUME CodeIs, NEW entry \in DOMAIN words, CalleesCanCompile(entry)
  PROVE  StandsAlone(entry)
<1>1. PICK all : all = CalleesOf[entry] OBVIOUS
<1>2. PICK ws : ws = {k \in DOMAIN words : k = entry \/ WordNo(k) \in all} OBVIOUS
<1>3. Intrin \notin all
  <2>1. Intrin.kind = "intrin" BY DEF Intrin
  <2>2. \A c \in all : ~InterpreterOnly(c) BY <1>1 DEF CalleesCanCompile
  <2> QED BY <2>1, <2>2 DEF InterpreterOnly
<1>4. ASSUME NEW k \in ws PROVE words[k].callees \subseteq all
  BY <1>1, <1>2, CalleesClosed
<1>5. ASSUME NEW k \in ws, NEW j, WordNo(j) \in words[k].callees PROVE j \in ws
  <2>1. k \in DOMAIN words BY <1>2
  <2>2. j \in DOMAIN words BY <2>1, <1>5, WordsCalled
  <2> QED BY <2>2, <1>2, <1>4, <1>5
<1>6. Closed(entry, ws) BY <1>2, <1>3, <1>4, <1>5 DEF Closed
<1> QED BY <1>6 DEF StandsAlone

----
(* What building leaves behind.  After it nothing is done any more. *)

BuiltIs ==
  /\ image.result = "built" /\ image.entry \in DOMAIN words
  /\ disk = [whole |-> TRUE, mode |-> "755"]
  /\ Executable(image.entry, execLen).result = "built"
  /\ execLen = valid /\ StandsAlone(image.entry)

ImageIs ==
  \/ Idle /\ disk.whole = TRUE
  \/ image.result \in {"invalid", "interpreter only", "assertion"} /\ disk.whole = TRUE
  \/ image.result = "not written"
  \/ BuiltIs

LEMMA IdleKeeps ==
  ASSUME ImageIs, Idle, UNCHANGED <<image, disk>>
  PROVE  ImageIs'
<1>1. image.result = "none" BY DEF Idle, NoImage
<1>2. disk.whole = TRUE BY <1>1 DEF ImageIs, BuiltIs
<1> QED BY <1>2 DEF ImageIs, Idle

LEMMA WrittenIs ==
  ASSUME NEW entry, NEW failing, WriteFile(entry, failing)
  PROVE  \/ image'.result = "not written"
         \/ /\ image' = [result |-> "built", entry |-> entry]
            /\ disk' = [whole |-> TRUE, mode |-> "755"]
<1> DEFINE opened == "open" \notin failing
           written == opened /\ failing \cap {"write", "flush"} = {}
           marked == written /\ "chmod" \notin failing
<1>1. /\ disk' = [whole |-> IF opened THEN written ELSE disk.whole,
                  mode |-> IF marked THEN "755" ELSE disk.mode]
      /\ image' = IF marked /\ "close" \notin failing
                  THEN [result |-> "built", entry |-> entry] ELSE [result |-> "not written"]
  BY DEF WriteFile
<1>2. marked => written /\ opened OBVIOUS
<1> HIDE DEF marked, written, opened
<1>3. CASE marked /\ "close" \notin failing
  <2>1. image' = [result |-> "built", entry |-> entry] BY <1>1, <1>3
  <2>2. (IF opened THEN written ELSE disk.whole) = TRUE BY <1>2, <1>3
  <2>3. disk' = [whole |-> TRUE, mode |-> "755"] BY <2>2, <1>1, <1>3
  <2> QED BY <2>1, <2>3
<1>4. CASE ~ (marked /\ "close" \notin failing) BY <1>1, <1>4
<1> QED BY <1>3, <1>4

LEMMA ResultIs ==
  ASSUME NEW k, NEW n
  PROVE  Executable(k, n).result \in {"built", "assertion"}
BY DEF Executable

LEMMA CompileExecutableKeeps ==
  ASSUME ImageIs, CodeIs, NEW entry \in DOMAIN words, CompileExecutable(entry)
  PROVE  ImageIs'
<1>1. disk.whole = TRUE
  <2>1. image.result = "none" BY DEF CompileExecutable, Idle, NoImage
  <2> QED BY <2>1 DEF ImageIs, BuiltIs
<1>2. PICK n : n = execLen' OBVIOUS
<1>3. UNCHANGED <<words, externs, dataTop>> BY DEF CompileExecutable
<1>4. Executable(entry, n)' = Executable(entry, n) BY <1>3, ExecutableSame
<1>5. PICK result : result = Executable(entry, Synced).result OBVIOUS
<1>6. PICK refused :
        /\ refused = IF ~ValidMain(entry) THEN "invalid"
                     ELSE IF ~CalleesCanCompile(entry) THEN "interpreter only"
                     ELSE result
        /\ IF refused # "built" THEN image' = [result |-> refused] /\ UNCHANGED disk
           ELSE \E failing \in SUBSET WriteSteps : WriteFile(entry, failing)
  BY <1>5 DEF CompileExecutable
<1>7. refused \in {"invalid", "interpreter only", "built", "assertion"}
  BY <1>5, <1>6, ResultIs
<1>8. CASE refused # "built"
  <2>1. image' = [result |-> refused] /\ UNCHANGED disk BY <1>6, <1>8
  <2>2. image'.result = refused BY <2>1
  <2> QED BY <2>1, <2>2, <1>1, <1>7, <1>8 DEF ImageIs
<1>9. CASE refused = "built"
  <2>1. PICK failing \in SUBSET WriteSteps : WriteFile(entry, failing) BY <1>6, <1>9
  <2>2. CASE image'.result = "not written" BY <2>2 DEF ImageIs
  <2>3. CASE /\ image' = [result |-> "built", entry |-> entry]
             /\ disk' = [whole |-> TRUE, mode |-> "755"]
    <3>1. ValidMain(entry) /\ CalleesCanCompile(entry) /\ result = "built" BY <1>6, <1>9
    <3>2. n = Synced BY <1>2, <3>1 DEF CompileExecutable
    <3>3. Executable(entry, n).result = "built" BY <3>1, <3>2, <1>5
    <3>4. Executable(entry, n)'.result = "built" BY <3>3, <1>4
    <3>5. image'.result = "built" /\ image'.entry = entry BY <2>3
    <3>6. Executable(image.entry, execLen)' = Executable(entry, n)'
      <4>1. image' = [result |-> "built", entry |-> entry] /\ execLen' = n BY <2>3, <1>2
      <4> QED BY <4>1
    <3>7. execLen' = valid'
      <4>1. execLen \in Nat /\ valid \in Nat /\ execLen <= valid BY DEF CodeIs
      <4>2. Synced = valid BY <4>1 DEF Synced
      <4>3. valid' = valid BY DEF CompileExecutable
      <4> QED BY <4>2, <4>3, <3>2, <1>2
    <3>8. StandsAlone(image.entry)'
      <4>1. PICK ws : Closed(entry, ws) BY <3>1, AllowedStandsAlone DEF StandsAlone
      <4>2. Closed(image.entry, ws)' BY <4>1, <3>5, <1>3 DEF Closed
      <4> QED BY <4>2 DEF StandsAlone
    <3> QED BY <2>3, <3>4, <3>5, <3>6, <3>7, <3>8, <1>3 DEF ImageIs, BuiltIs
  <2> QED BY <2>1, <2>2, <2>3, WrittenIs
<1> QED BY <1>8, <1>9

----
(* The invariant. *)

Inv == DataInv /\ SessionLen /\ CodeIs /\ SlotsAre /\ ImageIs

LEMMA SessionIs ==
  ASSUME session \in Sessions
  PROVE  SessionLen
BY ImageAssumption DEF SessionLen

LEMMA InvInit == Init => Inv
<1> SUFFICES ASSUME Init PROVE Inv OBVIOUS
<1>1. DataInv BY DataInvInit
<1>2. SessionLen BY SessionIs DEF Init
<1>3. IsSeq(<<>>) /\ Len(<<>>) = 0 BY EmptyParts
<1>4. DOMAIN <<>> = {} OBVIOUS
<1>5. CodeIs
  <2>1. code = <<>> /\ words = <<>> /\ execLen = 0 /\ valid = 0 /\ def = NoDef BY DEF Init
  <2>2. \A k \in DOMAIN words : FALSE BY <2>1
  <2>3. \A k \in DOMAIN code : FALSE BY <2>1
  <2>4. DefIs BY <2>1 DEF DefIs
  <2>5. Len(code) <= session.len BY <1>2, <1>3, <2>1 DEF SessionLen
  <2> QED BY <1>3, <2>1, <2>2, <2>3, <2>4, <2>5 DEF CodeIs
<1>6. SlotsAre
  <2>1. externs = [names |-> <<>>, addrs |-> <<>>, inds |-> <<>>] /\ declared = {} BY DEF Init
  <2>2. externs.names = <<>> /\ externs.addrs = <<>> /\ externs.inds = <<>> BY <2>1
  <2>3. \A n \in DOMAIN externs.inds : FALSE BY <2>2
  <2>4. \A k \in 1 .. Len(externs.names) : FALSE BY <1>3, <2>2
  <2>5. externs.inds = [n \in DOMAIN externs.inds |-> externs.inds[n]] BY <2>2
  <2>6. Len(externs.names) <= SlotCap BY <1>3, <2>2, SlotCapIs
  <2> QED BY <1>3, <2>1, <2>2, <2>3, <2>4, <2>5, <2>6 DEF SlotsAre
<1>7. ImageIs
  <2>1. image = NoImage /\ disk \in [whole : {TRUE}, mode : {"644", "755"}] BY DEF Init
  <2> QED BY <2>1 DEF ImageIs, Idle
<1> QED BY <1>1, <1>2, <1>5, <1>6, <1>7 DEF Inv

LEMMA SlotsStay ==
  ASSUME SlotsAre, UNCHANGED <<externs, declared>>
  PROVE  SlotsAre' /\ SlotsKept
BY DEF SlotsAre, SlotsKept

LEMMA InvNext == Inv /\ [Next]_vars => Inv'
<1> SUFFICES ASSUME Inv, [Next]_vars PROVE Inv' OBVIOUS
<1>1. DataInv' BY DataInvNext DEF Inv
<1>2. SessionLen'
  <2>1. session' \in Sessions BY <1>1 DEF DataInv
  <2> QED BY <2>1, ImageAssumption DEF SessionLen
<1>3. CodeIs /\ SlotsAre /\ SessionLen /\ ImageIs BY DEF Inv
<1>4. execLen \in Nat /\ execLen <= valid BY DEF Inv, CodeIs
<1> USE <1>3
<1> HIDE DEF Inv
<1>5. CASE UNCHANGED vars
  <2>1. /\ UNCHANGED <<session, code, execLen, valid, words, def, externs, declared, regions>>
        /\ UNCHANGED <<image, disk, dataTop>>
    BY <1>5 DEF vars
  <2>2. SlotsAre' /\ SlotsKept BY <2>1, SlotsStay
  <2>3. CodeIs' BY <2>1, <2>2, <1>4, CodeKept
  <2>4. ImageIs'
    <3>1. CASE BuiltIs
      <4>1. image'.entry = image.entry /\ execLen' = execLen BY <2>1
      <4>2. PICK k, n : k = image.entry /\ n = execLen OBVIOUS
      <4>3. Executable(k, n)' = Executable(k, n) BY <2>1, ExecutableSame
      <4>4. Executable(image.entry, execLen)' = Executable(k, n)'
        <5>1. PICK img : img = image OBVIOUS
        <5>2. image' = img /\ execLen' = n /\ img.entry = k BY <2>1, <4>2, <5>1
        <5> QED BY <5>2
      <4>5. Executable(k, n).result = "built" BY <3>1, <4>2 DEF BuiltIs
      <4>6. StandsAlone(image.entry)'
        <5>1. PICK ws : Closed(image.entry, ws) BY <3>1 DEF BuiltIs, StandsAlone
        <5>2. Closed(image.entry, ws)' BY <5>1, <4>1, <2>1 DEF Closed
        <5> QED BY <5>2 DEF StandsAlone
      <4>7. execLen' = valid' BY <3>1, <2>1 DEF BuiltIs
      <4> QED BY <3>1, <2>1, <4>3, <4>4, <4>5, <4>6, <4>7 DEF ImageIs, BuiltIs
    <3>2. CASE ~ BuiltIs BY <3>2, <2>1 DEF ImageIs, Idle
    <3> QED BY <3>1, <3>2
  <2> QED BY <1>1, <1>2, <2>2, <2>3, <2>4 DEF Inv
<1>6. CASE Next
  <2>1. session' = session BY <1>6 DEF Next
  <2>0. session.names \subseteq Names BY ImageAssumption DEF SessionLen
  <2> USE <2>0, <2>1
  <2>2. CASE Begin
    <3>1. UNCHANGED <<externs, declared, image, disk>> /\ Idle BY <2>2 DEF Begin
    <3> QED BY <3>1, <2>2, <1>1, <1>2, SlotsStay, BeginKeeps, IdleKeeps DEF Inv
  <2>3. CASE Fail
    <3>1. /\ UNCHANGED <<externs, declared, image, disk>> /\ Idle
          /\ UNCHANGED <<session, code, valid, words, execLen, regions>> /\ def' = NoDef
      BY <2>3 DEF Fail
    <3>2. CodeIs' BY <3>1, <1>4, SlotsStay, CodeKept
    <3> QED BY <3>1, <3>2, <1>1, <1>2, SlotsStay, IdleKeeps DEF Inv
  <2>4. CASE CallIntrin
    <3>1. UNCHANGED <<externs, declared, image, disk>> /\ Idle
      BY <2>4 DEF CallIntrin, Compiling
    <3> QED BY <3>1, <2>4, <1>1, <1>2, SlotsStay, CallIntrinKeeps, IdleKeeps DEF Inv
  <2>5. CASE InterpOnly
    <3>1. UNCHANGED <<externs, declared, image, disk>> /\ Idle
      BY <2>5 DEF InterpOnly, Compiling
    <3> QED BY <3>1, <2>5, <1>1, <1>2, SlotsStay, InterpOnlyKeeps, IdleKeeps DEF Inv
  <2>6. CASE Recur
    <3>1. UNCHANGED <<externs, declared, image, disk>> /\ Idle
      BY <2>6 DEF Recur, Compiling
    <3> QED BY <3>1, <2>6, <1>1, <1>2, SlotsStay, RecurKeeps, IdleKeeps DEF Inv
  <2>7. ASSUME NEW k \in DOMAIN words, CallWord(k) PROVE Inv'
    <3>1. UNCHANGED <<externs, declared, image, disk>> /\ Idle
      BY <2>7 DEF CallWord, Compiling
    <3>2. CodeIs'
      <4>1. CASE Inlinable(words[k]) BY <2>7, <4>1, InliningKeeps
      <4>2. CASE ~ Inlinable(words[k]) BY <2>7, <4>2, BranchingKeeps
      <4> QED BY <4>1, <4>2
    <3> QED BY <3>1, <3>2, <1>1, <1>2, SlotsStay, IdleKeeps DEF Inv
  <2>8. ASSUME NEW k \in DOMAIN words, CompileExecutable(k) PROVE Inv'
    <3>1. UNCHANGED <<session, code, valid, words, def, externs, declared, regions>>
      BY <2>8 DEF CompileExecutable
    <3>2. execLen' \in Nat /\ execLen' <= valid
      <4>1. valid \in Nat BY DEF CodeIs
      <4>2. execLen' = Synced \/ execLen' = execLen BY <2>8 DEF CompileExecutable
      <4> QED BY <4>1, <4>2, <1>4 DEF Synced
    <3>3. CodeIs'
      <4>1. SlotsKept /\ regions \subseteq regions' BY <3>1, SlotsStay
      <4> QED BY <3>1, <3>2, <4>1, CodeKept
    <3>4. ImageIs' BY <2>8, CompileExecutableKeeps
    <3> QED BY <3>1, <3>3, <3>4, <1>1, <1>2, SlotsStay DEF Inv
  <2>9. ASSUME NEW n \in session.names, ExternAdr(n) PROVE Inv'
    <3>1. UNCHANGED <<image, disk>> /\ Idle BY <2>9 DEF ExternAdr, Compiling
    <3>2. CodeIs' /\ SlotsAre' BY <2>9, ExternAdrKeeps
    <3> QED BY <3>1, <3>2, <1>1, <1>2, IdleKeeps DEF Inv
  <2>10. ASSUME NEW n \in session.names, ExternFun(n) PROVE Inv'
    <3>1. /\ UNCHANGED <<image, disk>> /\ Idle
          /\ UNCHANGED <<code, execLen, valid, words, def, regions>>
          /\ HasSlot(n) /\ externs' = Registered(n) /\ declared' = declared \cup {n}
      BY <2>10 DEF ExternFun
    <3>2. SlotsAre' /\ SlotsKept BY <3>1, RegisterKeeps
    <3>3. regions \subseteq regions' /\ execLen' \in Nat /\ execLen' <= valid BY <3>1, <1>4
    <3>4. CodeIs' BY <3>1, <3>2, <3>3, CodeKept
    <3> QED BY <3>1, <3>2, <3>4, <1>1, <1>2, IdleKeeps DEF Inv
  <2>11. ASSUME NEW n \in session.names, CallExtern(n) PROVE Inv'
    <3>1. UNCHANGED <<externs, declared, image, disk>> /\ Idle
      BY <2>11 DEF CallExtern, Compiling
    <3> QED BY <3>1, <2>11, <1>1, <1>2, SlotsStay, CallExternKeeps, IdleKeeps DEF Inv
  <2>12. ASSUME NEW r \in regions, LoadData(r) PROVE Inv'
    <3>1. UNCHANGED <<externs, declared, image, disk>> /\ Idle
      BY <2>12 DEF LoadData, Compiling
    <3> QED BY <3>1, <2>12, <1>1, <1>2, SlotsStay, LoadDataKeeps, IdleKeeps DEF Inv
  <2>13. ASSUME NEW s \in session.signatures, End(s) PROVE Inv'
    <3>1. UNCHANGED <<externs, declared, image, disk>> /\ Idle BY <2>13 DEF End
    <3> QED BY <3>1, <2>13, <1>1, <1>2, SlotsStay, EndKeeps, IdleKeeps DEF Inv
  <2>14. ASSUME NEW d \in session.data, AllocData(d[1], d[2]) PROVE Inv'
    <3>1. /\ UNCHANGED <<externs, declared, image, disk>> /\ Idle
          /\ UNCHANGED <<code, execLen, valid, words, def>> /\ regions \subseteq regions'
      BY <2>14 DEF AllocData
    <3>2. CodeIs' BY <3>1, <1>4, SlotsStay, CodeKept
    <3> QED BY <3>1, <3>2, <1>1, <1>2, SlotsStay, IdleKeeps DEF Inv
  <2> QED
    BY <1>6, <2>2, <2>3, <2>4, <2>5, <2>6, <2>7, <2>8, <2>9, <2>10, <2>11, <2>12, <2>13, <2>14
    DEF Next
<1> QED BY <1>5, <1>6

LEMMA AlwaysInv == Spec => []Inv
BY InvInit, InvNext, PTL DEF Spec

----
(* The theorems. *)

LEMMA NamesCounted ==
  ASSUME SlotsAre
  PROVE  /\ Len(externs.names) = Cardinality(DOMAIN externs.inds)
         /\ DOMAIN externs.inds = ToSet(externs.names)
<1>1. PICK names : names = externs.names OBVIOUS
<1>2. PICK inds : inds = externs.inds OBVIOUS
<1>3. IsSeq(names) BY <1>1 DEF SlotsAre
<1>4. Len(names) \in Nat /\ DOMAIN names = 1 .. Len(names) BY <1>3, SeqParts
<1>5. /\ \A n \in DOMAIN inds : inds[n] \in 1 .. Len(names) /\ names[inds[n]] = n
      /\ \A k \in 1 .. Len(names) : names[k] \in DOMAIN inds /\ inds[names[k]] = k
  BY <1>1, <1>2 DEF SlotsAre
<1>6. DOMAIN inds = ToSet(names) BY <1>4, <1>5 DEF ToSet
<1>7. Cardinality(DOMAIN inds) = Len(names)
  <2> DEFINE f == [k \in 1 .. Len(names) |-> names[k]]
  <2>1. f \in Bijection(1 .. Len(names), DOMAIN inds)
    BY <1>5 DEF Bijection, Injection, Surjection, IsInjective
  <2>2. ExistsBijection(1 .. Len(names), DOMAIN inds) BY <2>1 DEF ExistsBijection
  <2>3. IsFiniteSet(1 .. Len(names)) /\ Cardinality(1 .. Len(names)) = Len(names)
    <3>1. PICK n \in Nat : n = Len(names) BY <1>4
    <3>2. IsFiniteSet(1 .. n) /\ Cardinality(1 .. n) = IF 1 > n THEN 0 ELSE n - 1 + 1
      BY FS_Interval
    <3> QED BY <3>1, <3>2
  <2> QED BY <2>2, <2>3, FS_Bijection
<1> QED BY <1>1, <1>2, <1>6, <1>7

LEMMA InvTypes == Inv => TypeOK
<1> SUFFICES ASSUME Inv PROVE TypeOK OBVIOUS
<1>1. DataInv /\ SessionLen /\ CodeIs /\ SlotsAre /\ ImageIs BY DEF Inv
<1>2. Len(code) <= CodeLen /\ execLen <= valid /\ valid <= Len(code)
  <2>1. CodeLen \in Nat BY ImageAssumption
  <2>2. Len(code) \in Nat BY <1>1, SeqLength
  <2> QED BY <1>1, <2>1, <2>2 DEF CodeIs, SessionLen
<1>3. dataTop \in 0 .. DataLen
  <2>1. DataLen \in Nat BY ImageAssumption
  <2> QED BY <1>1, <2>1 DEF DataInv, DataApart
<1>4. Len(externs.names) \in Nat /\ Len(externs.names) <= SlotCap
  BY <1>1, SeqParts DEF SlotsAre
<1>5. /\ Len(externs.names) = Cardinality(DOMAIN externs.inds)
      /\ DOMAIN externs.inds = ToSet(externs.names)
  BY <1>1, NamesCounted
<1>6. externs.inds \in [ToSet(externs.names) -> 1 .. SlotCap]
  <2>1. PICK inds, S : inds = externs.inds /\ S = ToSet(externs.names) OBVIOUS
  <2>2. inds = [n \in S |-> inds[n]] BY <1>1, <1>5, <2>1 DEF SlotsAre
  <2>3. \A n \in S : inds[n] \in 1 .. SlotCap BY <1>1, <1>4, <1>5, <2>1, SlotCapIs DEF SlotsAre
  <2> QED BY <2>1, <2>2, <2>3
<1>7. image.result \in {"none", "invalid", "interpreter only", "built", "not written",
                        "assertion"}
  <2>1. CASE Idle
    <3>1. image.result = "none" BY <2>1 DEF Idle, NoImage
    <3> QED BY <3>1
  <2>2. CASE ~ Idle
    <3>1. image.result \in {"invalid", "interpreter only", "assertion"}
          \/ image.result = "not written" \/ image.result = "built"
      BY <1>1, <2>2 DEF ImageIs, BuiltIs
    <3> QED BY <3>1
  <2> QED BY <2>1, <2>2
<1> QED BY <1>1, <1>2, <1>3, <1>5, <1>6, <1>7 DEF TypeOK, SlotsAre

(* Whatever is compiled, linked, allocated or built, and whatever fails on the *)
(* way, the heaps stay within their sizes, no more code is executable than was *)
(* finished, and every linked name has one slot, which holds its address       *)
(* (asm_append_instr, comp_code_sync, comp_register_dysym).                    *)
THEOREM TypesHold == Spec => []TypeOK
BY AlwaysInv, InvTypes, PTL

LEMMA AddressesAre ==
  /\ IntrinAdr \in Nat
  /\ \A o \in Nat : DataAdr(o) \in Nat
  /\ \A k \in Nat \ {0} : SlotAdr(k) \in Nat
  /\ \A i \in Nat \ {0} : InstrAdr(i) \in Nat
<1>1. /\ Page \in Nat /\ CodeLen * InstrSize \in Nat /\ DataLen \in Nat /\ HeapBase \in Nat
      /\ CellSize \in Nat /\ InstrSize \in Nat
  BY ImageAssumption
<1>2. OffCode \in Nat /\ OffData \in Nat /\ OffExterns \in Nat /\ OffIntrins \in Nat
  BY <1>1 DEF OffCode, OffData, OffExterns, OffIntrins
<1>3. \A k \in Nat \ {0} : (k - 1) * CellSize \in Nat /\ (k - 1) * InstrSize \in Nat
  <2> TAKE k \in Nat \ {0}
  <2>1. k - 1 \in Nat OBVIOUS
  <2> QED BY <1>1, <2>1
<1> QED BY <1>1, <1>2, <1>3 DEF IntrinAdr, DataAdr, SlotAdr, InstrAdr

LEMMA LoadReads ==
  ASSUME NEW i \in Nat \ {0}, NEW adr \in Nat, NEW of
  PROVE  /\ LoadAt(i, adr, of).of = of
         /\ ReadBy(LoadAt(i, adr, of), InstrAdr(i)) = adr
<1>1. PICK p \in Nat \ {0} : p = AdrPage BY ImageAssumption
<1>2. PICK here \in Nat : here = InstrAdr(i) BY AddressesAre
<1>3. PICK a : a = adr \div p OBVIOUS
<1>4. PICK h : h = here \div p OBVIOUS
<1>5. a \in Int /\ h \in Int BY <1>3, <1>4, SMT
<1>6. a * p + (adr % p) = adr
  <2>1. PICK r : r = adr % p OBVIOUS
  <2>2. adr = p * a + r /\ r \in Nat
    <3>1. p >= 1 /\ p \in Nat OBVIOUS
    <3> QED BY <3>1, <1>3, <2>1, Euclid
  <2>3. p * a = a * p BY <1>5
  <2> QED BY <2>1, <2>2, <2>3, <1>5
<1>7. PICK x : x = LoadAt(i, adr, of) OBVIOUS
<1>8. x.pages = a - h /\ x.low = adr % p /\ x.of = of
  BY <1>1, <1>2, <1>3, <1>4, <1>7 DEF LoadAt
<1>9. h + (a - h) = a BY <1>5
<1>10. ReadBy(x, here) = (h + (a - h)) * p + (adr % p)
  <2>1. ReadBy(x, here) = (h + x.pages) * p + x.low BY <1>1, <1>4 DEF ReadBy
  <2> QED BY <2>1, <1>8
<1> QED BY <1>2, <1>6, <1>7, <1>8, <1>9, <1>10

LEMMA InvLoads == Inv => LoadsHere
<1> SUFFICES ASSUME Inv, NEW i \in DOMAIN code, code[i].op = "load"
             PROVE  LET adr == ReadBy(code[i], InstrAdr(i)) of == code[i].of IN
                    CASE of.kind = "intrin" -> adr = IntrinAdr
                      [] of.kind = "data" -> adr = DataAdr(of.at)
                      [] of.kind = "extern" ->
                           \E k \in DOMAIN externs.addrs :
                             adr = SlotAdr(k) /\ externs.addrs[k] = of.name
  BY DEF LoadsHere
<1>1. CodeIs /\ SlotsAre /\ DataInv BY DEF Inv
<1>2. i \in Nat \ {0} BY <1>1, SeqLength
<1>3. PICK x : x = code[i] OBVIOUS
<1>4. PICK of : of = x.of OBVIOUS
<1>5. PICK adr : adr = ReadBy(x, InstrAdr(i)) OBVIOUS
<1>6. LoadOf(x, i, externs, regions)
  <2>1. Known(x, i, externs, regions) BY <1>1, <1>3 DEF CodeIs
  <2> QED BY <2>1, <1>3 DEF Known, Other, Ret, Branch
<1>7. CASE x = LoadAt(i, IntrinAdr, Intrin)
  <2>1. of = Intrin /\ adr = IntrinAdr BY <1>2, <1>4, <1>5, <1>7, AddressesAre, LoadReads
  <2>2. of.kind = "intrin" BY <2>1 DEF Intrin
  <2> QED BY <2>1, <2>2, <1>3, <1>4, <1>5
<1>8. CASE \E r \in regions : x = LoadAt(i, DataAdr(r.at), [kind |-> "data", at |-> r.at])
  <2>1. PICK r \in regions : x = LoadAt(i, DataAdr(r.at), [kind |-> "data", at |-> r.at])
    BY <1>8
  <2>2. PICK o : o = [kind |-> "data", at |-> r.at] OBVIOUS
  <2>3. PICK there \in Nat : there = DataAdr(r.at)
    <3>1. r.at \in Nat BY <1>1 DEF DataInv, Region
    <3> QED BY <3>1, AddressesAre
  <2>4. of = o /\ adr = there BY <1>2, <1>4, <1>5, <2>1, <2>2, <2>3, LoadReads
  <2>5. of.kind = "data" /\ of.at = r.at BY <2>2, <2>4
  <2> QED BY <2>3, <2>4, <2>5, <1>3, <1>4, <1>5
<1>9. CASE \E n \in DOMAIN externs.inds :
             x = LoadAt(i, SlotAdr(externs.inds[n]), [kind |-> "extern", name |-> n])
  <2>1. PICK n \in DOMAIN externs.inds :
          x = LoadAt(i, SlotAdr(externs.inds[n]), [kind |-> "extern", name |-> n])
    BY <1>9
  <2>2. PICK o : o = [kind |-> "extern", name |-> n] OBVIOUS
  <2>3. PICK k : k = externs.inds[n] OBVIOUS
  <2>4. k \in DOMAIN externs.addrs /\ k \in Nat \ {0} /\ externs.addrs[k] = n
    <3>1. k \in 1 .. Len(externs.names) /\ externs.names[k] = n BY <1>1, <2>3 DEF SlotsAre
    <3>2. DOMAIN externs.names = 1 .. Len(externs.names) /\ Len(externs.names) \in Nat
      BY <1>1, SeqParts DEF SlotsAre
    <3> QED BY <3>1, <3>2, <1>1 DEF SlotsAre
  <2>5. PICK there \in Nat : there = SlotAdr(k) BY <2>4, AddressesAre
  <2>6. of = o /\ adr = there BY <1>2, <1>4, <1>5, <2>1, <2>2, <2>3, <2>5, LoadReads
  <2>7. of.kind = "extern" /\ of.name = n BY <2>2, <2>6
  <2> QED BY <2>4, <2>5, <2>6, <2>7, <1>3, <1>4, <1>5
<1> QED BY <1>6, <1>7, <1>8, <1>9 DEF LoadOf

(* Every load in the code heap reads, where it is, the intrinsic, the data or  *)
(* the slot of the linked name which the source named, whatever was inlined    *)
(* before it (asm_append_adrp, comp_inline_sym, asm_append_dysym_load).        *)
THEOREM LoadsStayHere == Spec => []LoadsHere
BY AlwaysInv, InvLoads, PTL

(* A build reported as done left the whole file, executable; one refused       *)
(* before the file was opened left the file which was there                    *)
(* (compile_mach_executable_to).                                               *)
THEOREM ResultIsTold == Spec => []ResultTold
<1>1. ASSUME Inv PROVE ResultTold
  <2>1. ImageIs BY <1>1 DEF Inv
  <2>2. CASE Idle
    <3>1. image.result = "none" BY <2>2 DEF Idle, NoImage
    <3> QED BY <3>1 DEF ResultTold, Built
  <2>3. CASE ~ Idle BY <2>1, <2>3 DEF ImageIs, BuiltIs, ResultTold, Built
  <2> QED BY <2>2, <2>3
<1> QED BY <1>1, AlwaysInv, PTL

----
(* Sums and buffers. *)

LEMMA TotalIs ==
  ASSUME NEW f
  PROVE  Total(f, 0) = 0 /\ \A i \in Nat : Total(f, i + 1) = Total(f, i) + f[i + 1]
<1> DEFINE Upto(g, n) == /\ g = [m \in 0 .. n |-> g[m]] /\ g[0] = 0
                         /\ \A m \in 0 .. n - 1 : g[m + 1] = g[m] + f[m + 1]
           S == {n \in Nat : \E g : Upto(g, n)}
<1>1. 0 \in S
  <2>1. Upto([m \in 0 .. 0 |-> 0], 0) OBVIOUS
  <2> HIDE DEF Upto
  <2> QED BY <2>1
<1>2. ASSUME NEW n \in Nat, n \in S PROVE n + 1 \in S
  <2>1. PICK g : Upto(g, n)
    <3> HIDE DEF Upto
    <3> QED BY <1>2
  <2>2. PICK x : x = g[n] + f[n + 1] OBVIOUS
  <2>3. PICK h : h = [m \in 0 .. n + 1 |-> IF m = n + 1 THEN x ELSE g[m]] OBVIOUS
  <2>4. \A m \in 0 .. n : h[m] = g[m] BY <2>3
  <2>5. h[n + 1] = x BY <2>3
  <2>6. h = [m \in 0 .. n + 1 |-> h[m]] BY <2>3
  <2>7. ASSUME NEW m \in 0 .. (n + 1) - 1 PROVE h[m + 1] = h[m] + f[m + 1]
    <3>1. CASE m = n BY <3>1, <2>2, <2>4, <2>5
    <3>2. CASE m \in 0 .. n - 1
      <4>1. g[m + 1] = g[m] + f[m + 1] BY <3>2, <2>1
      <4>2. m \in 0 .. n /\ m + 1 \in 0 .. n BY <3>2
      <4> QED BY <4>1, <4>2, <2>4
    <3> QED BY <3>1, <3>2
  <2>8. h[0] = 0 BY <2>1, <2>4
  <2>9. Upto(h, n + 1) BY <2>6, <2>7, <2>8
  <2> HIDE DEF Upto
  <2> QED BY <2>9
<1>3. ASSUME NEW n \in Nat PROVE \E g : Upto(g, n)
  <2>1. n \in S
    <3> HIDE DEF S
    <3> QED BY <1>1, <1>2, Induct
  <2> HIDE DEF Upto
  <2> QED BY <2>1
<1>4. ASSUME NEW n \in Nat, NEW k \in Nat, k >= n, NEW g, NEW h, Upto(g, n), Upto(h, k)
      PROVE  \A m \in 0 .. n : g[m] = h[m]
  <2> DEFINE T == {m \in 0 .. n : g[m] = h[m]}
  <2>1. 0 \in T BY <1>4
  <2>2. ASSUME NEW m \in 0 .. n - 1, m \in T PROVE m + 1 \in T
    <3>1. g[m + 1] = g[m] + f[m + 1] BY <1>4
    <3>2. h[m + 1] = h[m] + f[m + 1]
      <4>1. m \in 0 .. k - 1 BY <1>4
      <4> QED BY <4>1, <1>4
    <3> QED BY <3>1, <3>2, <2>2
  <2>3. \A m \in 0 .. n : m \in T
    <3> HIDE DEF T
    <3> QED BY <2>1, <2>2, InductTo
  <2> QED BY <2>3
<1> DEFINE At(n) == CHOOSE g : Upto(g, n)
<1>5. ASSUME NEW n \in Nat PROVE Upto(At(n), n)
  <2> HIDE DEF Upto
  <2> QED BY <1>3
<1> HIDE DEF At
<1>6. PICK sum : sum = [n \in Nat |-> At(n)[n]] OBVIOUS
<1>7. sum[0] = 0 BY <1>5, <1>6
<1>8. ASSUME NEW n \in Nat PROVE sum[n + 1] = sum[n] + f[n + 1]
  <2>1. PICK o \in Nat : o = n + 1 OBVIOUS
  <2>2. PICK g : g = At(n) OBVIOUS
  <2>3. PICK h : h = At(o) OBVIOUS
  <2>4. Upto(g, n) /\ Upto(h, o) BY <1>5, <2>1, <2>2, <2>3
  <2>5. \A m \in 0 .. n : g[m] = h[m]
    <3> HIDE DEF Upto
    <3> QED BY <1>4, <2>1, <2>4
  <2>6. h[n + 1] = h[n] + f[n + 1]
    <3>1. \A m \in 0 .. o - 1 : h[m + 1] = h[m] + f[m + 1] BY <2>4
    <3>2. n \in 0 .. o - 1 BY <2>1
    <3> QED BY <3>1, <3>2
  <2>7. g[n] = h[n] BY <2>5
  <2> QED BY <1>6, <2>1, <2>2, <2>3, <2>6, <2>7
<1>9. sum = [i \in Nat |-> IF i = 0 THEN 0 ELSE sum[i - 1] + f[i]]
  <2>1. ASSUME NEW i \in Nat PROVE sum[i] = IF i = 0 THEN 0 ELSE sum[i - 1] + f[i]
    <3>1. CASE i = 0 BY <3>1, <1>7
    <3>2. CASE i # 0
      <4>1. i - 1 \in Nat /\ (i - 1) + 1 = i BY <3>2
      <4> QED BY <4>1, <3>2, <1>8
    <3> QED BY <3>1, <3>2
  <2> QED BY <2>1, <1>6
<1> DEFINE Sum[i \in Nat] == IF i = 0 THEN 0 ELSE Sum[i - 1] + f[i]
<1>10. Sum = [i \in Nat |-> IF i = 0 THEN 0 ELSE Sum[i - 1] + f[i]] BY <1>9
<1>11. ASSUME NEW n PROVE Total(f, n) = Sum[n] BY DEF Total
<1> HIDE DEF Sum
<1>12. Sum[0] = 0 BY <1>10
<1>13. ASSUME NEW i \in Nat PROVE Sum[i + 1] = Sum[i] + f[i + 1]
  <2>1. i + 1 \in Nat /\ i + 1 # 0 /\ (i + 1) - 1 = i OBVIOUS
  <2> QED BY <2>1, <1>10
<1> QED BY <1>11, <1>12, <1>13

LEMMA TotalNat ==
  ASSUME NEW f, NEW n \in Nat, \A i \in 1 .. n : f[i] \in Nat
  PROVE  \A m \in 0 .. n : Total(f, m) \in Nat
<1> DEFINE S == {m \in 0 .. n : Total(f, m) \in Nat}
<1>1. 0 \in S BY TotalIs
<1>2. ASSUME NEW m \in 0 .. n - 1, m \in S PROVE m + 1 \in S
  <2>1. m \in Nat /\ m + 1 \in 1 .. n OBVIOUS
  <2>2. Total(f, m + 1) = Total(f, m) + f[m + 1] BY <2>1, TotalIs
  <2>3. f[m + 1] \in Nat BY <2>1
  <2>4. Total(f, m) \in Nat BY <1>2
  <2> QED BY <2>1, <2>2, <2>3, <2>4
<1>3. \A m \in 0 .. n : m \in S
  <2> HIDE DEF S
  <2> QED BY <1>1, <1>2, InductTo
<1> QED BY <1>3

(* The sum of sizes with a bound. *)
LEMMA TotalBelow ==
  ASSUME NEW f, NEW k \in Nat, NEW n \in Nat, NEW b \in Nat,
         \A i \in 1 .. n : f[k + i] \in Nat /\ f[k + i] <= b, Total(f, k) \in Nat
  PROVE  Total(f, k + n) \in Nat /\ Total(f, k + n) <= Total(f, k) + n * b
<1> DEFINE S == {m \in 0 .. n : Total(f, k + m) \in Nat
                                /\ Total(f, k + m) <= Total(f, k) + m * b}
<1>1. 0 \in S
  <2>1. k + 0 = k /\ 0 * b = 0 OBVIOUS
  <2> QED BY <2>1
<1>2. ASSUME NEW m \in 0 .. n - 1, m \in S PROVE m + 1 \in S
  <2>1. m \in Nat /\ m + 1 \in 1 .. n /\ k + m \in Nat /\ (k + m) + 1 = k + (m + 1) OBVIOUS
  <2>2. Total(f, (k + m) + 1) = Total(f, k + m) + f[(k + m) + 1] BY <2>1, TotalIs
  <2>3. f[k + (m + 1)] \in Nat /\ f[k + (m + 1)] <= b BY <2>1
  <2>4. Total(f, k + m) \in Nat /\ Total(f, k + m) <= Total(f, k) + m * b BY <1>2
  <2>5. m * b \in Nat /\ (m + 1) * b = m * b + b BY <2>1
  <2> QED BY <2>1, <2>2, <2>3, <2>4, <2>5
<1>3. \A m \in 0 .. n : m \in S
  <2> HIDE DEF S
  <2> QED BY <1>1, <1>2, InductTo
<1>4. n \in S BY <1>3
<1> QED BY <1>4

(* Nothing lies between the parts of a buffer. *)
Packed(buf) ==
  /\ IsSeq(buf.parts) /\ buf.len \in Nat
  /\ \A i \in 1 .. Len(buf.parts) :
       LET p == buf.parts[i] IN
       /\ p.at \in Nat /\ p.size \in Nat
       /\ p.at + p.size = IF i = Len(buf.parts) THEN buf.len ELSE buf.parts[i + 1].at

LEMMA PutIs ==
  ASSUME NEW buf, Packed(buf), NEW size \in Nat, NEW what, NEW r, r = Put(buf, size, what)
  PROVE  /\ Packed(r) /\ r.len = buf.len + size /\ Len(r.parts) = Len(buf.parts) + 1
         /\ \A i \in 1 .. Len(buf.parts) : r.parts[i] = buf.parts[i]
         /\ r.parts[Len(buf.parts) + 1] = [at |-> buf.len, size |-> size, what |-> what]
<1>1. PICK parts : parts = buf.parts OBVIOUS
<1>2. IsSeq(parts) /\ Len(parts) \in Nat /\ buf.len \in Nat BY <1>1, SeqParts DEF Packed
<1>3. PICK new : new = [at |-> buf.len, size |-> size, what |-> what] OBVIOUS
<1>4. PICK more : more = Append(parts, new) OBVIOUS
<1>5. r.len = buf.len + size /\ r.parts = more BY <1>1, <1>3, <1>4 DEF Put
<1>6. /\ IsSeq(more) /\ Len(more) = Len(parts) + 1
      /\ \A i \in 1 .. Len(parts) : more[i] = parts[i]
      /\ more[Len(parts) + 1] = new
  BY <1>2, <1>4, AppendParts
<1>7. ASSUME NEW i \in 1 .. Len(more)
      PROVE  LET p == more[i] IN
             /\ p.at \in Nat /\ p.size \in Nat
             /\ p.at + p.size = IF i = Len(more) THEN buf.len + size ELSE more[i + 1].at
  <2>1. CASE i = Len(parts) + 1 BY <2>1, <1>2, <1>3, <1>6
  <2>2. CASE i \in 1 .. Len(parts)
    <3>1. PICK p : p = parts[i] OBVIOUS
    <3>2. more[i] = p BY <3>1, <2>2, <1>6
    <3>3. /\ p.at \in Nat /\ p.size \in Nat
          /\ p.at + p.size = IF i = Len(parts) THEN buf.len ELSE parts[i + 1].at
      BY <3>1, <2>2, <1>1 DEF Packed
    <3>4. CASE i = Len(parts)
      <4>1. more[i + 1].at = buf.len BY <3>4, <1>3, <1>6
      <4> QED BY <4>1, <3>2, <3>3, <3>4, <1>2, <1>6
    <3>5. CASE i # Len(parts)
      <4>1. i + 1 \in 1 .. Len(parts) BY <3>5, <2>2, <1>2
      <4>2. more[i + 1] = parts[i + 1] BY <4>1, <1>6
      <4> QED BY <4>2, <3>2, <3>3, <3>5, <2>2, <1>2, <1>6
    <3> QED BY <3>4, <3>5
  <2> QED BY <2>1, <2>2, <1>2, <1>6
<1>8. Packed(r) BY <1>2, <1>5, <1>6, <1>7 DEF Packed
<1> QED BY <1>1, <1>3, <1>5, <1>6, <1>8

(* The sizes of items. *)
SizesOf(items) == [i \in DOMAIN items |-> items[i].size]

SizedItems(items) == \A i \in 1 .. Len(items) : items[i].size \in Nat

(* r is buf with the items one behind the other. *)
Followed(buf, items, r) ==
  /\ r.len = buf.len + Total(SizesOf(items), Len(items))
  /\ Len(r.parts) = Len(buf.parts) + Len(items)
  /\ \A i \in 1 .. Len(buf.parts) : r.parts[i] = buf.parts[i]
  /\ \A i \in 1 .. Len(items) :
       r.parts[Len(buf.parts) + i] =
         [at |-> buf.len + Total(SizesOf(items), i - 1), size |-> items[i].size,
          what |-> items[i].what]

LEMMA PutAllIs ==
  ASSUME NEW buf, Packed(buf), NEW items, IsSeq(items), SizedItems(items),
         NEW r, r = PutAll(buf, items)
  PROVE  Packed(r) /\ Followed(buf, items, r)
<1>1. PICK parts : parts = buf.parts OBVIOUS
<1>2. IsSeq(parts) /\ Len(parts) \in Nat /\ buf.len \in Nat BY <1>1, SeqParts DEF Packed
<1>3. PICK n \in Nat : n = Len(items) BY SeqParts
<1>4. DOMAIN items = 1 .. n BY <1>3, SeqParts
<1>5. PICK f : f = SizesOf(items) OBVIOUS
<1>6. /\ \A i \in 1 .. n : f[i] = items[i].size
      /\ \A i \in 1 .. n : items[i].size \in Nat
  BY <1>3, <1>4, <1>5 DEF SizesOf, SizedItems
<1>7. \A m \in 0 .. n : Total(f, m) \in Nat BY <1>3, <1>6, TotalNat
<1>8. PICK new : new = [i \in 1 .. n |-> [at |-> buf.len + Total(f, i - 1),
                                          size |-> items[i].size, what |-> items[i].what]]
  OBVIOUS
<1>9. IsSeq(new) /\ Len(new) = n
  <2>1. new = [i \in 1 .. n |-> new[i]] BY <1>8
  <2> QED BY <2>1, FunctionIsSeq
<1>10. PICK more : more = parts \o new OBVIOUS
<1>11. r.len = buf.len + Total(f, n) /\ r.parts = more
  <2>1. f = [i \in DOMAIN items |-> items[i].size] BY <1>5 DEF SizesOf
  <2>2. new = [i \in DOMAIN items |-> [at |-> buf.len + Total(f, i - 1),
                                      size |-> items[i].size, what |-> items[i].what]]
    BY <1>4, <1>8
  <2>3. r = [len |-> buf.len + Total(f, Len(items)), parts |-> buf.parts \o new]
    BY <2>1, <2>2 DEF PutAll
  <2> QED BY <2>3, <1>1, <1>3, <1>10
<1>12. /\ IsSeq(more) /\ Len(more) = Len(parts) + n
       /\ \A i \in 1 .. Len(parts) : more[i] = parts[i]
       /\ \A i \in 1 .. n : more[Len(parts) + i] = new[i]
  <2>1. /\ IsSeq(more) /\ Len(more) = Len(parts) + Len(new)
        /\ \A i \in 1 .. Len(parts) : more[i] = parts[i]
        /\ \A i \in 1 .. Len(new) : more[Len(parts) + i] = new[i]
    <3>1. IsSeq(parts) /\ IsSeq(new) BY <1>2, <1>9
    <3> QED BY <3>1, <1>10, ConcatParts
  <2> QED BY <2>1, <1>9
<1>13. ASSUME NEW i \in 1 .. n
       PROVE  LET p == new[i] IN
              /\ p.at \in Nat /\ p.size \in Nat /\ p.at = buf.len + Total(f, i - 1)
              /\ p.at + p.size = buf.len + Total(f, i)
  <2>1. PICK j \in 0 .. n : j = i - 1 /\ i = j + 1 OBVIOUS
  <2>2. Total(f, i) = Total(f, j) + f[i] BY <2>1, TotalIs
  <2>3. Total(f, j) \in Nat /\ Total(f, i) \in Nat BY <1>7, <2>1
  <2>4. f[i] = items[i].size /\ items[i].size \in Nat BY <1>3, <1>6
  <2>5. new[i].at = buf.len + Total(f, j) /\ new[i].size = items[i].size BY <1>8, <2>1
  <2>6. PICK p : p = new[i] OBVIOUS
  <2>7. PICK len \in Nat, x \in Nat, y \in Nat, z \in Nat :
          /\ len = buf.len /\ x = Total(f, j) /\ y = Total(f, i) /\ z = items[i].size
          /\ y = x + z
    BY <2>2, <2>3, <2>4, <1>2
  <2>8. p.at = len + x /\ p.size = z BY <2>5, <2>6, <2>7
  <2>9. p.at \in Nat /\ p.size \in Nat /\ p.at + p.size = len + y BY <2>7, <2>8
  <2> QED BY <2>1, <2>6, <2>7, <2>8, <2>9
<1>14. ASSUME NEW i \in 1 .. Len(more)
       PROVE  LET p == more[i] IN
              /\ p.at \in Nat /\ p.size \in Nat
              /\ p.at + p.size = IF i = Len(more) THEN buf.len + Total(f, n)
                                 ELSE more[i + 1].at
  <2>1. CASE i \in 1 .. Len(parts)
    <3>1. PICK p : p = parts[i] OBVIOUS
    <3>2. more[i] = p BY <3>1, <2>1, <1>12
    <3>3. /\ p.at \in Nat /\ p.size \in Nat
          /\ p.at + p.size = IF i = Len(parts) THEN buf.len ELSE parts[i + 1].at
      BY <3>1, <2>1, <1>1 DEF Packed
    <3>4. CASE i = Len(parts) /\ n = 0
      <4>1. Total(f, n) = 0 BY <3>4, TotalIs
      <4> QED BY <4>1, <3>2, <3>3, <3>4, <1>2, <1>12
    <3>5. CASE i = Len(parts) /\ n # 0
      <4>1. 1 \in 1 .. n BY <3>5
      <4>2. more[Len(parts) + 1] = new[1] BY <4>1, <1>12
      <4>3. new[1].at = buf.len + Total(f, 0) BY <4>1, <1>13
      <4>4. Total(f, 0) = 0 BY TotalIs
      <4>5. more[i + 1].at = buf.len BY <4>2, <4>3, <4>4, <3>5, <1>2
      <4>6. i # Len(more) BY <3>5, <1>2, <1>12
      <4> QED BY <4>5, <4>6, <3>2, <3>3, <3>5
    <3>6. CASE i # Len(parts)
      <4>1. i + 1 \in 1 .. Len(parts) BY <3>6, <2>1, <1>2
      <4>2. more[i + 1] = parts[i + 1] BY <4>1, <1>12
      <4>3. i # Len(more) BY <4>1, <1>2, <1>12
      <4> QED BY <4>2, <4>3, <3>2, <3>3, <3>6
    <3> QED BY <3>4, <3>5, <3>6
  <2>2. CASE i \notin 1 .. Len(parts)
    <3>1. PICK j \in 1 .. n : i = Len(parts) + j
      <4>1. i - Len(parts) \in 1 .. n /\ i = Len(parts) + (i - Len(parts))
        BY <2>2, <1>2, <1>12
      <4> QED BY <4>1
    <3>2. PICK p : p = new[j] OBVIOUS
    <3>3. more[i] = p BY <3>1, <3>2, <1>12
    <3>4. p.at \in Nat /\ p.size \in Nat /\ p.at + p.size = buf.len + Total(f, j)
      BY <3>2, <1>13
    <3>5. CASE j = n
      <4>1. i = Len(more) BY <3>1, <3>5, <1>12
      <4> QED BY <4>1, <3>3, <3>4, <3>5
    <3>6. CASE j # n
      <4>1. PICK k \in 1 .. n : k = j + 1 /\ k - 1 = j BY <3>6
      <4>2. i + 1 = Len(parts) + k BY <3>1, <4>1, <1>2
      <4>3. more[i + 1] = new[k] BY <4>1, <4>2, <1>12
      <4>4. new[k].at = buf.len + Total(f, j) BY <4>1, <1>13
      <4>5. i # Len(more) BY <3>1, <3>6, <1>2, <1>12
      <4> QED BY <4>3, <4>4, <4>5, <3>3, <3>4
    <3> QED BY <3>5, <3>6
  <2> QED BY <2>1, <2>2
<1>15. r.len \in Nat
  <2>1. Total(f, n) \in Nat BY <1>7
  <2> QED BY <2>1, <1>2, <1>11
<1>16. Packed(r) BY <1>11, <1>12, <1>14, <1>15 DEF Packed
<1>17. \A i \in 1 .. n : r.parts[Len(parts) + i] =
         [at |-> buf.len + Total(f, i - 1), size |-> items[i].size, what |-> items[i].what]
  BY <1>8, <1>11, <1>12
<1> QED BY <1>1, <1>3, <1>5, <1>11, <1>12, <1>16, <1>17 DEF Followed

LEMMA TripleParts ==
  ASSUME NEW a, NEW b, NEW c, NEW s, s = <<a, b, c>>
  PROVE  IsSeq(s) /\ Len(s) = 3 /\ s[1] = a /\ s[2] = b /\ s[3] = c
<1>1. s \in Seq({a, b, c}) OBVIOUS
<1> QED BY <1>1 DEF IsSeq

LEMMA EmptyPacked == Packed(EmptyBuf) /\ EmptyBuf.len = 0 /\ Len(EmptyBuf.parts) = 0
<1>1. PICK parts : parts = <<>> OBVIOUS
<1>2. IsSeq(parts) /\ Len(parts) = 0 BY <1>1, EmptyParts
<1>3. EmptyBuf.len = 0 /\ EmptyBuf.parts = parts BY <1>1 DEF EmptyBuf
<1> QED BY <1>2, <1>3 DEF Packed

LEMMA NameSizeIs ==
  ASSUME NEW m \in Names
  PROVE  /\ NameLen[m] \in Nat \ {0} /\ NameSize(m) \in Nat
         /\ \A b \in Nat : NameLen[m] <= b => NameSize(m) <= b + 2
<1>1. NameLen[m] \in Nat \ {0} BY ImageAssumption
<1> QED BY <1>1 DEF NameSize

Slots(n) == n = Len(externs.names)

HeadRecord(n) == [kind |-> "head", starts |-> FixHead, imports |-> ImportsOff,
                  symbols |-> SymbolsOff, count |-> n]
StartsRecord(n) == [kind |-> "starts", got |-> IF n = 0 THEN 0 ELSE FixImg]
ChainRecord == [kind |-> "chain", segment |-> SectionVm(OffExterns) - TextVm, start |-> 0]

(* The items of the section of the linker, by their places. *)
ItemsAre(items, n) ==
  /\ Linkedit = PutAll(EmptyBuf, items)
  /\ IsSeq(items) /\ Len(items) = n + n + 4
  /\ items[1].size = FixHead /\ items[1].what.kind = "head"
  /\ items[2].size = FixImg /\ items[2].what.kind = "starts"
  /\ items[3].size = FixSeg /\ items[3].what.kind = "chain"
  /\ items[1].what = HeadRecord(n) /\ items[2].what = StartsRecord(n)
  /\ items[3].what = ChainRecord
  /\ \A k \in 1 .. n : items[3 + k] =
       [size |-> FixImport, what |-> [kind |-> "import", pos |-> NamePos(k)]]
  /\ items[n + 4].size = 1 /\ items[n + 4].what.kind = "pad"
  /\ \A k \in 1 .. n : items[n + 4 + k] =
       [size |-> NameSize(externs.names[k]),
        what |-> [kind |-> "name", name |-> externs.names[k]]]

LEMMA LinkItems ==
  ASSUME SlotsAre, NEW n \in Nat, Slots(n)
  PROVE  \E items : ItemsAre(items, n)
<1>0. n = Len(externs.names) BY DEF Slots
<1>1. PICK x : x = [size |-> FixHead, what |-> [kind |-> "head", starts |-> FixHead,
                     imports |-> ImportsOff, symbols |-> SymbolsOff, count |-> n]]
  OBVIOUS
<1>2. PICK y : y = [size |-> FixImg,
                    what |-> [kind |-> "starts", got |-> IF n = 0 THEN 0 ELSE FixImg]]
  OBVIOUS
<1>3. PICK z : z = [size |-> FixSeg, what |-> [kind |-> "chain",
                     segment |-> SectionVm(OffExterns) - TextVm, start |-> 0]]
  OBVIOUS
<1>4. PICK p : p = [size |-> 1, what |-> [kind |-> "pad"]] OBVIOUS
<1>5. PICK heads : heads = <<x, y, z>> OBVIOUS
<1>6. PICK imports : imports = [k \in 1 .. n |->
                [size |-> FixImport, what |-> [kind |-> "import", pos |-> NamePos(k)]]]
  OBVIOUS
<1>7. PICK pads : pads = <<p>> OBVIOUS
<1>8. PICK names : names = [k \in 1 .. n |->
                [size |-> NameSize(externs.names[k]),
                 what |-> [kind |-> "name", name |-> externs.names[k]]]]
  OBVIOUS
<1>9. Linkedit = PutAll(EmptyBuf, ((heads \o imports) \o pads) \o names)
  BY <1>0, <1>1, <1>2, <1>3, <1>4, <1>5, <1>6, <1>7, <1>8 DEF Linkedit
<1>10. IsSeq(heads) /\ Len(heads) = 3 /\ heads[1] = x /\ heads[2] = y /\ heads[3] = z
  BY <1>5, TripleParts
<1>11. IsSeq(imports) /\ Len(imports) = n
  <2>1. imports = [k \in 1 .. n |-> imports[k]] BY <1>6
  <2> QED BY <2>1, FunctionIsSeq
<1>12. IsSeq(pads) /\ Len(pads) = 1 /\ pads[1] = p BY <1>7, OneParts
<1>13. IsSeq(names) /\ Len(names) = n
  <2>1. names = [k \in 1 .. n |-> names[k]] BY <1>8
  <2> QED BY <2>1, FunctionIsSeq
<1>14. PICK s : s = heads \o imports OBVIOUS
<1>15. PICK t : t = s \o pads OBVIOUS
<1>16. PICK items : items = t \o names OBVIOUS
<1>17. /\ IsSeq(s) /\ Len(s) = 3 + n
       /\ s[1] = x /\ s[2] = y /\ s[3] = z
       /\ \A k \in 1 .. n : s[3 + k] = imports[k]
  <2>1. /\ IsSeq(s) /\ Len(s) = Len(heads) + Len(imports)
        /\ \A i \in 1 .. Len(heads) : s[i] = heads[i]
        /\ \A i \in 1 .. Len(imports) : s[Len(heads) + i] = imports[i]
    <3>1. IsSeq(heads) /\ IsSeq(imports) BY <1>10, <1>11
    <3> QED BY <3>1, <1>14, ConcatParts
  <2>2. 1 \in 1 .. 3 /\ 2 \in 1 .. 3 /\ 3 \in 1 .. 3 OBVIOUS
  <2> QED BY <2>1, <2>2, <1>10, <1>11
<1>18. /\ IsSeq(t) /\ Len(t) = n + 4
       /\ \A i \in 1 .. n + 3 : t[i] = s[i]
       /\ t[n + 4] = p
  <2>1. /\ IsSeq(t) /\ Len(t) = Len(s) + Len(pads)
        /\ \A i \in 1 .. Len(s) : t[i] = s[i]
        /\ \A i \in 1 .. Len(pads) : t[Len(s) + i] = pads[i]
    <3>1. IsSeq(s) /\ IsSeq(pads) BY <1>17, <1>12
    <3> QED BY <3>1, <1>15, ConcatParts
  <2>2. 1 \in 1 .. Len(pads) BY <1>12
  <2>3. t[Len(s) + 1] = p BY <2>1, <2>2, <1>12
  <2>4. Len(s) + 1 = n + 4 /\ Len(s) = n + 3 BY <1>17
  <2> QED BY <2>1, <2>3, <2>4, <1>12
<1>19. /\ IsSeq(items) /\ Len(items) = n + 4 + n
       /\ \A i \in 1 .. n + 4 : items[i] = t[i]
       /\ \A k \in 1 .. n : items[n + 4 + k] = names[k]
  <2>1. /\ IsSeq(items) /\ Len(items) = Len(t) + Len(names)
        /\ \A i \in 1 .. Len(t) : items[i] = t[i]
        /\ \A i \in 1 .. Len(names) : items[Len(t) + i] = names[i]
    <3>1. IsSeq(t) /\ IsSeq(names) BY <1>18, <1>13
    <3> QED BY <3>1, <1>16, ConcatParts
  <2> QED BY <2>1, <1>13, <1>18
<1>20. items[1] = x /\ items[2] = y /\ items[3] = z /\ items[n + 4] = p
  <2>1. /\ 1 \in 1 .. n + 4 /\ 2 \in 1 .. n + 4 /\ 3 \in 1 .. n + 4 /\ n + 4 \in 1 .. n + 4
        /\ 1 \in 1 .. n + 3 /\ 2 \in 1 .. n + 3 /\ 3 \in 1 .. n + 3
    OBVIOUS
  <2>2. ASSUME NEW i \in {1, 2, 3} PROVE items[i] = s[i]
    <3>1. i \in 1 .. n + 3 /\ i \in 1 .. n + 4 BY <2>1
    <3> QED BY <3>1, <1>18, <1>19
  <2>3. s[1] = x /\ s[2] = y /\ s[3] = z BY <1>17
  <2>7. items[1] = s[1] /\ items[2] = s[2] /\ items[3] = s[3] BY <2>2
  <2>8. items[1] = x /\ items[2] = y /\ items[3] = z BY <2>3, <2>7
  <2>4. PICK k : k = n + 4 OBVIOUS
  <2>5. k \in 1 .. n + 4 BY <2>1, <2>4
  <2>6. items[k] = t[k] /\ t[k] = p BY <2>4, <2>5, <1>18, <1>19
  <2>9. items[n + 4] = p BY <2>4, <2>6
  <2> QED BY <2>8, <2>9
<1>21. ASSUME NEW k \in 1 .. n PROVE items[3 + k] = imports[k]
  <2>1. PICK i : i = 3 + k OBVIOUS
  <2>2. i \in 1 .. n + 3 /\ i \in 1 .. n + 4 BY <2>1
  <2>3. items[i] = s[i] BY <2>2, <1>18, <1>19
  <2> QED BY <2>1, <2>3, <1>17
<1>22. Linkedit = PutAll(EmptyBuf, items) BY <1>9, <1>14, <1>15, <1>16
<1>23. /\ x.size = FixHead /\ x.what.kind = "head" /\ y.size = FixImg
       /\ y.what.kind = "starts" /\ z.size = FixSeg /\ z.what.kind = "chain"
       /\ p.size = 1 /\ p.what.kind = "pad"
  BY <1>1, <1>2, <1>3, <1>4
<1>24. \A k \in 1 .. n : items[3 + k] =
         [size |-> FixImport, what |-> [kind |-> "import", pos |-> NamePos(k)]]
  BY <1>6, <1>21
<1>25. \A k \in 1 .. n : items[n + 4 + k] =
         [size |-> NameSize(externs.names[k]),
          what |-> [kind |-> "name", name |-> externs.names[k]]]
  BY <1>8, <1>19
<1>26. Len(items) = n + n + 4 BY <1>19
<1>27. /\ x.what = HeadRecord(n) /\ y.what = StartsRecord(n) /\ z.what = ChainRecord
  BY <1>1, <1>2, <1>3 DEF HeadRecord, StartsRecord, ChainRecord
<1>28. ItemsAre(items, n)
  BY <1>19, <1>20, <1>22, <1>23, <1>24, <1>25, <1>26, <1>27 DEF ItemsAre
<1> QED BY <1>28

(* The section of the linker is as long as its parts, and its names start      *)
(* where its header says.                                                      *)
LEMMA LinkeditIs ==
  ASSUME SlotsAre, NEW n \in Nat, Slots(n), NEW link, link = Linkedit
  PROVE  /\ Packed(link) /\ Len(link.parts) = n + n + 4
         /\ link.parts[n + 4].at = SymbolsOff /\ link.parts[1].at = 0
         /\ \A i \in 1 .. Len(link.parts) : link.parts[i].what.kind # "hash"
         /\ \A b \in Nat : (\A m \in Names : NameLen[m] <= b) =>
              link.len <= 73 + n * 4 + n * (b + 2)
<1>0. PICK items : ItemsAre(items, n) BY LinkItems
<1>1. /\ Linkedit = PutAll(EmptyBuf, items)
      /\ IsSeq(items) /\ Len(items) = n + n + 4
      /\ items[1].size = FixHead /\ items[1].what.kind = "head"
      /\ items[2].size = FixImg /\ items[2].what.kind = "starts"
      /\ items[3].size = FixSeg /\ items[3].what.kind = "chain"
      /\ \A k \in 1 .. n : items[3 + k] =
           [size |-> FixImport, what |-> [kind |-> "import", pos |-> NamePos(k)]]
      /\ items[n + 4].size = 1 /\ items[n + 4].what.kind = "pad"
      /\ \A k \in 1 .. n : items[n + 4 + k] =
           [size |-> NameSize(externs.names[k]),
            what |-> [kind |-> "name", name |-> externs.names[k]]]
  BY <1>0 DEF ItemsAre
<1>2. PICK f : f = SizesOf(items) OBVIOUS
<1>3. \A i \in 1 .. n + n + 4 : f[i] = items[i].size BY <1>1, <1>2, SeqParts DEF SizesOf
<1>4. f[1] = 28 /\ f[2] = 20 /\ f[3] = 24 /\ f[n + 4] = 1
  <2>1. /\ 1 \in 1 .. n + n + 4 /\ 2 \in 1 .. n + n + 4 /\ 3 \in 1 .. n + n + 4
        /\ n + 4 \in 1 .. n + n + 4
    OBVIOUS
  <2> QED BY <2>1, <1>1, <1>3 DEF FixHead, FixImg, FixSeg
<1>5. ASSUME NEW k \in 1 .. n PROVE f[3 + k] = 4 /\ items[3 + k].what.kind = "import"
  <2>1. PICK i : i = 3 + k OBVIOUS
  <2>2. PICK what : what = [kind |-> "import", pos |-> NamePos(k)] OBVIOUS
  <2>3. items[i] = [size |-> FixImport, what |-> what] BY <2>1, <2>2, <1>1
  <2>4. i \in 1 .. n + n + 4 BY <2>1
  <2>5. f[i] = FixImport /\ items[i].what = what BY <2>3, <2>4, <1>3
  <2>6. what.kind = "import" BY <2>2
  <2> QED BY <2>1, <2>5, <2>6 DEF FixImport
<1>6. ASSUME NEW k \in 1 .. n
      PROVE  /\ f[n + 4 + k] = NameSize(externs.names[k]) /\ f[n + 4 + k] \in Nat
             /\ externs.names[k] \in Names /\ items[n + 4 + k].what.kind = "name"
  <2>1. PICK i : i = n + 4 + k OBVIOUS
  <2>2. PICK name : name = externs.names[k] OBVIOUS
  <2>3. PICK what : what = [kind |-> "name", name |-> name] OBVIOUS
  <2>4. items[i] = [size |-> NameSize(name), what |-> what] BY <2>1, <2>2, <2>3, <1>1
  <2>5. i \in 1 .. n + n + 4 BY <2>1
  <2>6. f[i] = NameSize(name) /\ items[i].what = what BY <2>4, <2>5, <1>3
  <2>7. name \in Names BY <2>2 DEF SlotsAre, Slots
  <2>8. NameSize(name) \in Nat BY <2>7, NameSizeIs
  <2>9. what.kind = "name" BY <2>3
  <2> QED BY <2>1, <2>2, <2>6, <2>7, <2>8, <2>9
<1>7. ASSUME NEW i \in 1 .. n + n + 4 PROVE f[i] \in Nat /\ items[i].what.kind # "hash"
  <2>1. CASE i \in {1, 2, 3, n + 4} BY <2>1, <1>1, <1>4
  <2>2. CASE i \in 4 .. n + 3
    <3>1. PICK k \in 1 .. n : i = 3 + k
      <4>1. i - 3 \in 1 .. n /\ i = 3 + (i - 3) BY <2>2
      <4> QED BY <4>1
    <3> QED BY <3>1, <1>5
  <2>3. CASE i \in n + 5 .. n + n + 4
    <3>1. PICK k \in 1 .. n : i = n + 4 + k
      <4>1. PICK k : k = i - (n + 4) OBVIOUS
      <4>2. k \in 1 .. n /\ i = n + 4 + k BY <2>3, <4>1
      <4> QED BY <4>2
    <3> QED BY <3>1, <1>6
  <2>4. i \in {1, 2, 3, n + 4} \/ i \in 4 .. n + 3 \/ i \in n + 5 .. n + n + 4 OBVIOUS
  <2> QED BY <2>1, <2>2, <2>3, <2>4
<1>8. \A i \in 1 .. Len(items) : items[i].size \in Nat BY <1>1, <1>3, <1>7
<1>9. PICK m \in Nat : m = n + n + 4 OBVIOUS
<1>10. /\ Packed(link) /\ link.len = Total(f, m) /\ Len(link.parts) = m
       /\ \A i \in 1 .. m : link.parts[i].at = Total(f, i - 1)
                             /\ link.parts[i].what = items[i].what
  <2>1. PICK buf : buf = EmptyBuf OBVIOUS
  <2>2. Packed(buf) /\ buf.len = 0 /\ Len(buf.parts) = 0 BY <2>1, EmptyPacked
  <2>3. PICK r : r = PutAll(buf, items) OBVIOUS
  <2>4. /\ Packed(r) /\ r.len = buf.len + Total(SizesOf(items), Len(items))
        /\ Len(r.parts) = Len(buf.parts) + Len(items)
        /\ \A i \in 1 .. Len(items) :
             r.parts[Len(buf.parts) + i] =
               [at |-> buf.len + Total(SizesOf(items), i - 1), size |-> items[i].size,
                what |-> items[i].what]
    <3>1. IsSeq(items) BY <1>1
    <3>2. Packed(buf) BY <2>2
    <3>3. SizedItems(items) BY <1>8 DEF SizedItems
    <3>4. Packed(r) /\ Followed(buf, items, r) BY <3>1, <3>2, <3>3, <2>3, PutAllIs
    <3> QED BY <3>4 DEF Followed
  <2>5. \A i \in 0 .. m : Total(f, i) \in Nat BY <1>7, <1>9, TotalNat
  <2>6. ASSUME NEW i \in 1 .. m PROVE 0 + i = i /\ 0 + Total(f, i - 1) = Total(f, i - 1)
    <3>1. Total(f, i - 1) \in Nat BY <2>5
    <3> QED BY <3>1
  <2>7. 0 + Total(f, m) = Total(f, m) BY <2>5
  <2>8. Len(items) = m /\ 0 + m = m BY <1>1, <1>9
  <2>9. ASSUME NEW i \in 1 .. m
        PROVE  r.parts[i].at = Total(f, i - 1) /\ r.parts[i].what = items[i].what
    <3>1. PICK part : part = r.parts[i] OBVIOUS
    <3>2. part = [at |-> 0 + Total(f, i - 1), size |-> items[i].size, what |-> items[i].what]
      <4>1. i \in 1 .. Len(items) /\ Len(buf.parts) + i = i BY <2>2, <2>6, <2>8
      <4> QED BY <4>1, <3>1, <2>2, <2>4, <1>2
    <3>3. part.at = 0 + Total(f, i - 1) /\ part.what = items[i].what BY <3>2
    <3> QED BY <3>1, <3>3, <2>6
  <2>10. Packed(r) /\ r.len = Total(f, m) /\ Len(r.parts) = m BY <2>2, <2>4, <2>7, <2>8, <1>2
  <2>11. link = r BY <1>1, <2>1, <2>3
  <2> QED BY <2>9, <2>10, <2>11
<1>11. Total(f, 3) = 72
  <2>1. Total(f, 0) = 0 /\ Total(f, 0 + 1) = Total(f, 0) + f[0 + 1]
        /\ Total(f, 1 + 1) = Total(f, 1) + f[1 + 1] /\ Total(f, 2 + 1) = Total(f, 2) + f[2 + 1]
    BY TotalIs
  <2> QED BY <2>1, <1>4
<1>12. Total(f, n + 3) = 72 + n * 4
  <2> DEFINE S == {i \in 0 .. n : Total(f, 3 + i) = 72 + i * 4}
  <2>1. 0 \in S BY <1>11
  <2>2. ASSUME NEW i \in 0 .. n - 1, i \in S PROVE i + 1 \in S
    <3>1. PICK k : k = 3 + i OBVIOUS
    <3>2. k \in Nat /\ i + 1 \in 1 .. n /\ 3 + (i + 1) = k + 1 BY <3>1
    <3>3. Total(f, k + 1) = Total(f, k) + f[k + 1] BY <3>2, TotalIs
    <3>4. f[3 + (i + 1)] = 4 BY <3>2, <1>5
    <3>5. Total(f, k) = 72 + i * 4 BY <2>2, <3>1
    <3> QED BY <3>2, <3>3, <3>4, <3>5
  <2>3. \A i \in 0 .. n : i \in S
    <3> HIDE DEF S
    <3> QED BY <2>1, <2>2, InductTo
  <2>4. n \in S /\ 3 + n = n + 3 BY <2>3
  <2> QED BY <2>4
<1>13. SymbolsOff = 72 + n * 4
  <2>1. Len(externs.addrs) = n BY DEF SlotsAre, Slots
  <2> QED BY <2>1 DEF SymbolsOff, ImportsOff, FixHead, FixImg, FixSeg, FixImport
<1>14. link.parts[n + 4].at = SymbolsOff
  <2>1. PICK i : i = n + 4 OBVIOUS
  <2>2. i \in 1 .. m /\ i - 1 = n + 3 BY <2>1, <1>9
  <2>3. link.parts[i].at = Total(f, i - 1) BY <2>2, <1>10
  <2> QED BY <2>1, <2>2, <2>3, <1>12, <1>13
<1>15. ASSUME NEW i \in 1 .. m PROVE link.parts[i].what.kind # "hash"
  <2>1. link.parts[i].what = items[i].what BY <1>10
  <2>2. items[i].what.kind # "hash" BY <1>7, <1>9
  <2> QED BY <2>1, <2>2
<1>16. ASSUME NEW b \in Nat, \A name \in Names : NameLen[name] <= b
       PROVE  link.len <= 73 + n * 4 + n * (b + 2)
  <2>1. Total(f, n + 4) = 73 + n * 4
    <3>1. PICK k \in Nat : k = n + 3 OBVIOUS
    <3>2. Total(f, k + 1) = Total(f, k) + f[k + 1] BY TotalIs
    <3>3. k + 1 = n + 4 BY <3>1
    <3> QED BY <3>1, <3>2, <3>3, <1>4, <1>12
  <2>2. PICK k \in Nat : k = n + 4 OBVIOUS
  <2>3. PICK c \in Nat : c = b + 2 OBVIOUS
  <2>4. \A i \in 1 .. n : f[k + i] \in Nat /\ f[k + i] <= c
    BY <1>6, <1>16, <2>2, <2>3, NameSizeIs
  <2>5. Total(f, k) \in Nat BY <2>1, <2>2
  <2>6. Total(f, k + n) <= Total(f, k) + n * c BY <2>4, <2>5, TotalBelow
  <2>7. k + n = m BY <1>9, <2>2
  <2> QED BY <2>1, <2>2, <2>3, <2>6, <2>7, <1>10
<1>17. link.parts[1].at = 0
  <2>1. 1 \in 1 .. m /\ 1 - 1 = 0 BY <1>9
  <2>2. link.parts[1].at = Total(f, 1 - 1) BY <2>1, <1>10
  <2>3. Total(f, 0) = 0 BY TotalIs
  <2> QED BY <2>1, <2>2, <2>3
<1> QED BY <1>9, <1>10, <1>14, <1>15, <1>16, <1>17

----
(* The segments of an executable which was built. *)

(* What holds of neighbours holds of any two segments. *)
LEMMA OrderedApart ==
  ASSUME NEW segs,
         \A i \in 1 .. 7 : /\ segs[i].vm \in Nat /\ segs[i].vmsize \in Nat
                           /\ segs[i].file \in Nat /\ segs[i].filesize \in Nat,
         \A i \in 1 .. 6 : /\ segs[i].vm + segs[i].vmsize <= segs[i + 1].vm
                           /\ segs[i].file + segs[i].filesize <= segs[i + 1].file
  PROVE  \A i, j \in 1 .. 7 : i < j =>
           /\ segs[i].vm + segs[i].vmsize <= segs[j].vm
           /\ segs[i].file + segs[i].filesize <= segs[j].file
<1> DEFINE Before(i, j) == /\ segs[i].vm + segs[i].vmsize <= segs[j].vm
                           /\ segs[i].file + segs[i].filesize <= segs[j].file
           S == {d \in 0 .. 5 : \A i \in 1 .. 7 : i + d + 1 <= 7 => Before(i, i + d + 1)}
<1>1. ASSUME NEW i \in 1 .. 6 PROVE Before(i, i + 1) OBVIOUS
<1>2. ASSUME NEW i \in 1 .. 7, NEW j \in 1 .. 7, NEW k \in 1 .. 7, Before(i, j), Before(j, k)
      PROVE  Before(i, k)
  BY <1>2, SMTT(30)
<1> HIDE DEF Before
<1>3. 0 \in S
  <2>1. ASSUME NEW i \in 1 .. 7, i + 0 + 1 <= 7 PROVE Before(i, i + 0 + 1)
    <3>1. i \in 1 .. 6 /\ i + 0 + 1 = i + 1 BY <2>1
    <3> QED BY <3>1, <1>1
  <2> QED BY <2>1
<1>4. ASSUME NEW d \in 0 .. 5 - 1, d \in S PROVE d + 1 \in S
  <2>1. ASSUME NEW i \in 1 .. 7, i + (d + 1) + 1 <= 7 PROVE Before(i, i + (d + 1) + 1)
    <3>1. PICK j : j = i + d + 1 OBVIOUS
    <3>2. j \in 1 .. 6 /\ j \in 1 .. 7 /\ j + 1 \in 1 .. 7 /\ i + (d + 1) + 1 = j + 1
      BY <2>1, <3>1
    <3>3. Before(i, j) BY <1>4, <3>1, <3>2
    <3>4. Before(j, j + 1) BY <3>2, <1>1
    <3>5. Before(i, j + 1) BY <3>2, <3>3, <3>4, <1>2
    <3> QED BY <3>2, <3>5
  <2> QED BY <2>1
<1>5. \A d \in 0 .. 5 : d \in S
  <2> HIDE DEF S
  <2> QED BY <1>3, <1>4, InductTo
<1>6. ASSUME NEW i \in 1 .. 7, NEW j \in 1 .. 7, i < j PROVE Before(i, j)
  <2>1. PICK d : d = j - i - 1 OBVIOUS
  <2>2. d \in 0 .. 5 /\ i + d + 1 = j /\ i + d + 1 <= 7 BY <1>6, <2>1
  <2>3. Before(i, i + d + 1) BY <2>2, <1>5
  <2> QED BY <2>2, <2>3
<1> QED BY <1>6 DEF Before

(* Arena and cells have a page without a segment before and behind them. *)
LEMMA PlacesAre ==
  /\ SectionVm(OffExterns) \in Nat /\ SectionVm(OffArena) \in Nat /\ SectionVm(OffCells) \in Nat
  /\ SectionVm(OffArena) = SectionVm(OffExterns) + 4 * Page
  /\ SectionVm(OffCells) = SectionVm(OffArena) + ArenaLen + Page
  /\ LinkVm = SectionVm(OffCells) + CellsLen + Page
  /\ AlignPage(ArenaLen) = ArenaLen /\ AlignPage(CellsLen) = CellsLen
  /\ SectionVm(OffArena - Page) = SectionVm(OffArena) - Page
  /\ SectionVm(OffCells - Page) = SectionVm(OffCells) - Page
  /\ SectionVm(OffCells + CellsLen) = SectionVm(OffCells) + CellsLen
  /\ SectionVm(OffArena + ArenaLen - 1) = SectionVm(OffArena) + ArenaLen - 1
  /\ SectionVm(OffCells + CellsLen - 1) = SectionVm(OffCells) + CellsLen - 1
<1>1. /\ Page \in Nat \ {0} /\ CodeLen * InstrSize \in Nat /\ DataLen \in Nat
      /\ CellsLen \in Nat /\ Divides(Page, CellsLen)
      /\ ArenaLen \in Nat /\ Divides(Page, ArenaLen) /\ PageZero \in Nat
  BY ImageAssumption
<1>2. HeadSize + CmdSize \in Nat
  BY DEF HeadSize, CmdSize, SegCmd, Sect, LinkCmd, DylinkerCmd, DylibCmd, MainCmd, BuildCmd
<1>3. CodeFile \in Nat BY <1>1, <1>2, AlignUpAligns DEF CodeFile, AlignPage
<1>4. AlignPage(ArenaLen) = ArenaLen
  <2>1. AlignPage(ArenaLen) \in Nat /\ AlignPage(ArenaLen) >= ArenaLen
    BY <1>1, AlignUpAligns DEF AlignPage
  <2>2. AlignPage(ArenaLen) <= ArenaLen BY <1>1, AlignUpBelow DEF AlignPage
  <2> QED BY <1>1, <2>1, <2>2
<1>5. AlignPage(CellsLen) = CellsLen
  <2>1. AlignPage(CellsLen) \in Nat /\ AlignPage(CellsLen) >= CellsLen
    BY <1>1, AlignUpAligns DEF AlignPage
  <2>2. AlignPage(CellsLen) <= CellsLen BY <1>1, AlignUpBelow DEF AlignPage
  <2> QED BY <1>1, <2>1, <2>2
<1>6. PICK code_ \in Nat : code_ = CodeLen * InstrSize BY <1>1
<1>7. /\ CodeVm = PageZero + CodeFile /\ OffCode = Page
      /\ OffExterns = OffCode + code_ + Page + DataLen + Page
      /\ OffArena = OffExterns + 4 * Page
      /\ OffCells = OffArena + ArenaLen + Page
  BY <1>1, <1>6 DEF CodeVm, TextVm, OffCode, OffData, OffExterns, OffIntrins, OffArena, OffCells
<1>8. OffExterns \in Nat /\ OffArena \in Nat /\ OffCells \in Nat /\ OffExterns >= OffCode
      /\ OffCode \in Nat /\ CodeVm \in Nat
  BY <1>1, <1>3, <1>6, <1>7
<1>9. \A off : SectionVm(off) = CodeVm + off - OffCode BY DEF SectionVm
<1>10. LinkVm = SectionVm(OffCells) + CellsLen + Page BY <1>5 DEF LinkVm
<1> QED BY <1>1, <1>4, <1>5, <1>7, <1>8, <1>9, <1>10

LEMMA SegmentIs ==
  ASSUME NEW name, NEW vm, NEW vmsize, NEW file, NEW filesize, NEW sects
  PROVE  LET s == Segment(name, vm, vmsize, file, filesize, sects) IN
         /\ s.cmd = "segment" /\ s.vm = vm /\ s.vmsize = vmsize /\ s.filesize = filesize
         /\ s.file = file /\ s.size = SegCmd + sects * Sect
BY DEF Segment

LEMMA SegmentsAre ==
  ASSUME NEW codeLen, NEW dataLen, NEW gotLen, NEW linkLen,
         NEW textSize, textSize = AlignPage(CodeFile + codeLen), NEW segs,
         segs = Segments(codeLen, dataLen, gotLen, linkLen)
  PROVE  /\ Len(segs) = 7 /\ IsSeq(segs)
         /\ \A i \in 1 .. 7 : segs[i].cmd = "segment"
         /\ segs[1].size = SegCmd /\ segs[7].size = SegCmd
         /\ \A i \in 2 .. 6 : segs[i].size = SegCmd + Sect
         /\ segs[2].vm = TextVm /\ segs[2].vmsize = textSize
         /\ segs[2].file = 0 /\ segs[2].filesize = textSize
         /\ segs[3].vm = SectionVm(OffData) /\ segs[3].file = textSize
         /\ segs[3].vmsize = AlignPage(dataLen) /\ segs[3].filesize = AlignPage(dataLen)
         /\ segs[4].vm = SectionVm(OffExterns) /\ segs[4].vmsize = AlignPage(gotLen)
         /\ segs[4].filesize = AlignPage(gotLen)
         /\ segs[4].file = textSize + AlignPage(dataLen)
         /\ segs[5].vm = SectionVm(OffArena) /\ segs[5].vmsize = AlignPage(ArenaLen)
         /\ segs[5].filesize = 0
         /\ segs[6].vm = SectionVm(OffCells) /\ segs[6].vmsize = AlignPage(CellsLen)
         /\ segs[6].filesize = 0 /\ segs[7].vm = LinkVm /\ segs[7].filesize = linkLen
         /\ segs[7].vmsize = AlignPage(linkLen)
         /\ segs[7].file = textSize + AlignPage(dataLen) + AlignPage(gotLen)
<1>1. PICK dataSize, gotSize, tail :
        /\ dataSize = AlignPage(dataLen) /\ gotSize = AlignPage(gotLen)
        /\ tail = textSize + dataSize + gotSize
  OBVIOUS
<1>2. PICK a, b, c, d, e, f, g :
        /\ a = Segment("PAGEZERO", 0, PageZero, 0, 0, 0)
        /\ b = TextSegment(textSize) /\ c = DataSegment(textSize, dataSize)
        /\ d = GotSegment(textSize + dataSize, gotSize) /\ e = ArenaSegment(tail)
        /\ f = CellsSegment(tail) /\ g = LinkSegment(tail, linkLen)
  OBVIOUS
<1>3. a.cmd = "segment" /\ a.size = SegCmd + 0 * Sect BY <1>2, SegmentIs
<1>4. /\ b.cmd = "segment" /\ b.size = SegCmd + 1 * Sect /\ b.vm = TextVm
      /\ b.vmsize = textSize /\ b.file = 0 /\ b.filesize = textSize
  BY <1>2, SegmentIs DEF TextSegment
<1>5. /\ c.cmd = "segment" /\ c.size = SegCmd + 1 * Sect /\ c.vm = SectionVm(OffData)
      /\ c.file = textSize /\ c.vmsize = dataSize /\ c.filesize = dataSize
  BY <1>2, SegmentIs DEF DataSegment
<1>6. /\ d.cmd = "segment" /\ d.size = SegCmd + 1 * Sect /\ d.vm = SectionVm(OffExterns)
      /\ d.vmsize = gotSize /\ d.filesize = gotSize /\ d.file = textSize + dataSize
  BY <1>2, SegmentIs DEF GotSegment
<1>7. /\ e.cmd = "segment" /\ e.size = SegCmd + 1 * Sect /\ e.vm = SectionVm(OffArena)
      /\ e.vmsize = AlignPage(ArenaLen) /\ e.filesize = 0
  BY <1>2, SegmentIs DEF ArenaSegment
<1>8. /\ f.cmd = "segment" /\ f.size = SegCmd + 1 * Sect /\ f.vm = SectionVm(OffCells)
      /\ f.vmsize = AlignPage(CellsLen) /\ f.filesize = 0
  BY <1>2, SegmentIs DEF CellsSegment
<1>9. /\ g.cmd = "segment" /\ g.size = SegCmd + 0 * Sect /\ g.vm = LinkVm
      /\ g.vmsize = AlignPage(linkLen) /\ g.file = tail /\ g.filesize = linkLen
  BY <1>2, SegmentIs DEF LinkSegment
<1>10. segs = <<a, b, c, d, e, f, g>>
  <2>1. segs = << Segment("PAGEZERO", 0, PageZero, 0, 0, 0), TextSegment(textSize),
                  DataSegment(textSize, dataSize), GotSegment(textSize + dataSize, gotSize),
                  ArenaSegment(tail), CellsSegment(tail), LinkSegment(tail, linkLen) >>
    BY <1>1 DEF Segments
  <2> QED BY <2>1, <1>2
<1>11. segs \in Seq({a, b, c, d, e, f, g}) /\ Len(segs) = 7 BY <1>10
<1>12. IsSeq(segs) BY <1>11, SeqIsSeq
<1>13. /\ segs[1] = a /\ segs[2] = b /\ segs[3] = c /\ segs[4] = d /\ segs[5] = e
       /\ segs[6] = f /\ segs[7] = g
  BY <1>10
<1>14. \A i \in 1 .. 7 : i = 1 \/ i = 2 \/ i = 3 \/ i = 4 \/ i = 5 \/ i = 6 \/ i = 7 OBVIOUS
<1>15. \A i \in 2 .. 6 : i = 2 \/ i = 3 \/ i = 4 \/ i = 5 \/ i = 6 OBVIOUS
<1>16. SegCmd + 0 * Sect = SegCmd /\ SegCmd + 1 * Sect = SegCmd + Sect BY DEF SegCmd, Sect
<1>17. \A i \in 1 .. 7 : segs[i].cmd = "segment"
  BY <1>3, <1>4, <1>5, <1>6, <1>7, <1>8, <1>9, <1>13, <1>14
<1>18. /\ segs[1].size = SegCmd /\ segs[7].size = SegCmd
       /\ \A i \in 2 .. 6 : segs[i].size = SegCmd + Sect
  BY <1>3, <1>4, <1>5, <1>6, <1>7, <1>8, <1>9, <1>13, <1>15, <1>16
<1> QED BY <1>1, <1>4, <1>5, <1>6, <1>7, <1>8, <1>9, <1>11, <1>12, <1>13, <1>17, <1>18

(* The commands by their places; those which are looked for are there once. *)
LEMMA CommandsAre ==
  ASSUME NEW segs, IsSeq(segs), Len(segs) = 7, \A i \in 1 .. 7 : segs[i].cmd = "segment",
         NEW entry, NEW sigFile, NEW cmds, cmds = Commands(segs, entry, sigFile)
  PROVE  /\ IsSeq(cmds) /\ DOMAIN cmds = 1 .. 13 /\ Len(cmds) = 13
         /\ \A i \in 1 .. 7 : cmds[i] = segs[i]
         /\ \A i \in 1 .. 13 : /\ cmds[i].cmd = "segment" => i \in 1 .. 7
                               /\ cmds[i].cmd = "fixups" => i = 10
                               /\ cmds[i].cmd = "main" => i = 11
                               /\ cmds[i].cmd = "signature" => i = 13
         /\ cmds[10].cmd = "fixups" /\ cmds[13].cmd = "signature"
         /\ cmds[10].off = segs[7].file /\ cmds[10].len = segs[7].filesize
         /\ cmds[11].cmd = "main"
         /\ cmds[11].off = CodeFile + (words[entry].first - 1) * InstrSize
         /\ cmds[13].off = sigFile /\ cmds[13].len = SignatureSize(sigFile)
         /\ cmds[8].size = DylinkerCmd /\ cmds[9].size = DylibCmd /\ cmds[10].size = LinkCmd
         /\ cmds[11].size = MainCmd /\ cmds[12].size = BuildCmd /\ cmds[13].size = LinkCmd
<1>1. PICK a, b, c, d, e, f, rest :
        /\ a = [cmd |-> "dylinker", size |-> DylinkerCmd]
        /\ b = [cmd |-> "dylib", size |-> DylibCmd]
        /\ c = [cmd |-> "fixups", size |-> LinkCmd, off |-> segs[7].file,
                len |-> segs[7].filesize]
        /\ d = [cmd |-> "main", size |-> MainCmd,
                off |-> CodeFile + (words[entry].first - 1) * InstrSize]
        /\ e = [cmd |-> "build", size |-> BuildCmd]
        /\ f = [cmd |-> "signature", size |-> LinkCmd, off |-> sigFile,
                len |-> SignatureSize(sigFile)]
        /\ rest = <<a, b, c, d, e, f>>
  OBVIOUS
<1>2. cmds = segs \o rest BY <1>1 DEF Commands
<1>3. rest \in Seq({a, b, c, d, e, f}) /\ Len(rest) = 6 BY <1>1
<1>4. IsSeq(rest) BY <1>3, SeqIsSeq
<1>5. rest[1] = a /\ rest[2] = b /\ rest[3] = c /\ rest[4] = d /\ rest[5] = e /\ rest[6] = f
  BY <1>1
<1>6. /\ a.cmd = "dylinker" /\ b.cmd = "dylib" /\ c.cmd = "fixups" /\ d.cmd = "main"
      /\ e.cmd = "build" /\ f.cmd = "signature"
      /\ c.off = segs[7].file /\ c.len = segs[7].filesize
      /\ f.off = sigFile /\ f.len = SignatureSize(sigFile)
      /\ a.size = DylinkerCmd /\ b.size = DylibCmd /\ c.size = LinkCmd /\ d.size = MainCmd
      /\ e.size = BuildCmd /\ f.size = LinkCmd
      /\ d.off = CodeFile + (words[entry].first - 1) * InstrSize
  BY <1>1
<1>7. /\ IsSeq(cmds) /\ Len(cmds) = 13
      /\ \A i \in 1 .. 7 : cmds[i] = segs[i]
      /\ \A i \in 1 .. 6 : cmds[7 + i] = rest[i]
  <2>1. PICK base, more : base = segs /\ more = base \o rest OBVIOUS
  <2>2. IsSeq(base) /\ more = base \o rest BY <2>1
  <2>3. /\ IsSeq(more) /\ Len(more) = Len(base) + Len(rest)
        /\ \A i \in 1 .. Len(base) : more[i] = base[i]
        /\ \A i \in 1 .. Len(rest) : more[Len(base) + i] = rest[i]
    BY <1>4, <2>2, ConcatParts, SMTT(30)
  <2>4. more = cmds BY <1>2, <2>1
  <2>5. Len(base) = 7 /\ base = segs BY <2>1
  <2>6. Len(rest) = 6 BY <1>3
  <2>7. IsSeq(cmds) /\ Len(cmds) = 13 BY <2>3, <2>4, <2>5, <2>6
  <2>8. \A i \in 1 .. 7 : cmds[i] = segs[i] BY <2>3, <2>4, <2>5
  <2>9. \A i \in 1 .. 6 : cmds[7 + i] = rest[i] BY <2>3, <2>4, <2>5, <2>6
  <2> QED BY <2>7, <2>8, <2>9
<1>8. DOMAIN cmds = 1 .. 13 BY <1>7, SeqParts
<1>9. /\ cmds[8] = a /\ cmds[9] = b /\ cmds[10] = c /\ cmds[11] = d /\ cmds[12] = e
      /\ cmds[13] = f
  <2>1. /\ 7 + 1 = 8 /\ 7 + 2 = 9 /\ 7 + 3 = 10 /\ 7 + 4 = 11 /\ 7 + 5 = 12 /\ 7 + 6 = 13
        /\ 1 \in 1 .. 6 /\ 2 \in 1 .. 6 /\ 3 \in 1 .. 6 /\ 4 \in 1 .. 6 /\ 5 \in 1 .. 6
        /\ 6 \in 1 .. 6
    OBVIOUS
  <2> QED BY <2>1, <1>5, <1>7
<1>10. \A i \in 1 .. 13 : i \in 1 .. 7 \/ i \in {8, 9, 10, 11, 12, 13} OBVIOUS
<1> QED BY <1>6, <1>7, <1>8, <1>9, <1>10

(* What an executable which was built consists of. *)
LEMMA BuiltParts ==
  ASSUME NEW entry, NEW len, NEW img, img = Executable(entry, len), img.result = "built",
         NEW link, link = Linkedit,
         NEW segs, segs = Segments(len * InstrSize, dataTop, Len(externs.addrs) * CellSize,
                                   link.len),
         NEW sigFile, sigFile = segs[7].file + AlignPage(link.len),
         NEW cmds, cmds = Commands(segs, entry, sigFile)
  PROVE  /\ Asserted(segs, link, sigFile, cmds) /\ img.cmds = cmds
         /\ img.file = File(segs, link, cmds, len, sigFile)
         /\ \A part \in ToSet(img.file.parts) : part.size >= 0
<1>1. PICK file : file = File(segs, link, cmds, len, sigFile) OBVIOUS
<1>2. img = IF Asserted(segs, link, sigFile, cmds) /\ \A part \in ToSet(file.parts) : part.size >= 0
            THEN [result |-> "built", cmds |-> cmds, file |-> file]
            ELSE [result |-> "assertion"]
  BY <1>1 DEF Executable
<1>3. Asserted(segs, link, sigFile, cmds) /\ \A part \in ToSet(file.parts) : part.size >= 0
  <2> SUFFICES ASSUME img = [result |-> "assertion"] PROVE FALSE BY <1>2
  <2>1. img.result = "assertion" OBVIOUS
  <2> QED BY <2>1
<1>4. img = [result |-> "built", cmds |-> cmds, file |-> file] BY <1>2, <1>3
<1>5. img.cmds = cmds /\ img.file = file BY <1>4
<1>6. img.file = File(segs, link, cmds, len, sigFile) BY <1>1, <1>5
<1> QED BY <1>1, <1>3, <1>5, <1>6

(* The heaps are never longer than the sections reserved for them. *)
LEMMA CodeFits ==
  ASSUME CodeIs, SessionLen
  PROVE  /\ execLen \in Nat /\ execLen <= CodeLen
         /\ Synced \in Nat /\ Synced <= CodeLen
<1>1. CodeLen \in Nat BY ImageAssumption
<1>2. Len(code) \in Nat BY SeqParts DEF CodeIs
<1>3. /\ execLen \in Nat /\ valid \in Nat /\ execLen <= valid /\ valid <= Len(code)
      /\ Len(code) <= session.len
  BY DEF CodeIs
<1>4. session.len \in Nat /\ session.len <= CodeLen BY DEF SessionLen
<1>5. execLen <= CodeLen /\ valid <= CodeLen BY <1>1, <1>2, <1>3, <1>4
<1> QED BY <1>3, <1>5 DEF Synced

LEMMA LengthsFit ==
  ASSUME SlotsAre, DataInv, NEW len \in Nat, len <= CodeLen
  PROVE  /\ len * InstrSize \in Nat /\ len * InstrSize <= CodeLen * InstrSize
         /\ dataTop \in Nat /\ dataTop <= DataLen
         /\ Len(externs.addrs) * CellSize \in Nat /\ Len(externs.addrs) * CellSize <= Page
<1>1. len * InstrSize \in Nat /\ len * InstrSize <= CodeLen * InstrSize
  <2>1. CodeLen \in Nat /\ InstrSize \in Nat BY ImageAssumption
  <2> QED BY <2>1
<1>2. dataTop \in Nat /\ dataTop <= DataLen BY DEF DataInv, DataApart
<1>3. Len(externs.addrs) * CellSize \in Nat /\ Len(externs.addrs) * CellSize <= Page
  <2>1. PICK n \in Nat : n = Len(externs.addrs) BY SeqParts DEF SlotsAre
  <2>2. n <= SlotCap BY <2>1 DEF SlotsAre
  <2>3. CellSize \in Nat /\ CellSize >= 1 /\ Page \in Nat BY ImageAssumption
  <2>4. PICK q \in Nat, r \in Nat : q = Page \div CellSize /\ Page = CellSize * q + r
    BY <2>3, Euclid
  <2>5. n <= q BY <2>2, <2>4 DEF SlotCap
  <2>6. n * CellSize \in Nat /\ n * CellSize <= CellSize * q /\ CellSize * q \in Nat
    BY <2>3, <2>5
  <2>7. n * CellSize <= Page BY <2>3, <2>4, <2>6
  <2> QED BY <2>1, <2>6, <2>7
<1> QED BY <1>1, <1>2, <1>3

(* Where the segments of an executable lie. *)
LEMMA SegmentsLie ==
  ASSUME NEW codeLen \in Nat, codeLen <= CodeLen * InstrSize,
         NEW dataLen \in Nat, dataLen <= DataLen,
         NEW gotLen \in Nat, gotLen <= Page, NEW linkLen \in Nat,
         NEW segs, segs = Segments(codeLen, dataLen, gotLen, linkLen)
  PROVE  /\ \A i, j \in 1 .. 7 : i < j =>
              /\ segs[i].vm + segs[i].vmsize <= segs[j].vm
              /\ segs[i].file + segs[i].filesize <= segs[j].file
         /\ \A i \in 1 .. 7 :
              /\ segs[i].vm \in Nat /\ segs[i].vmsize \in Nat
              /\ segs[i].file \in Nat /\ segs[i].filesize \in Nat
              /\ Divides(Page, segs[i].vm) /\ Divides(Page, segs[i].vmsize)
              /\ Divides(Page, segs[i].file)
              /\ segs[i].filesize <= segs[i].vmsize
         /\ segs[4].vmsize <= Page
<1>1. /\ \A i \in 1 .. 6 :
           /\ segs[i].vm + segs[i].vmsize <= segs[i + 1].vm
           /\ segs[i].file + segs[i].filesize <= segs[i + 1].file
      /\ \A i \in 1 .. 7 :
           /\ segs[i].vm \in Nat /\ segs[i].vmsize \in Nat
           /\ segs[i].file \in Nat /\ segs[i].filesize \in Nat
           /\ Divides(Page, segs[i].vm) /\ Divides(Page, segs[i].vmsize)
           /\ Divides(Page, segs[i].file)
           /\ segs[i].filesize <= segs[i].vmsize
  BY SegmentsFollow
<1>2. segs[4].vmsize <= Page
  <2>1. PICK textSize : textSize = AlignPage(CodeFile + codeLen) OBVIOUS
  <2>2. segs[4].vmsize = AlignPage(gotLen) BY <2>1, SegmentsAre
  <2>3. Page \in Nat \ {0} BY ImageAssumption
  <2>4. Divides(Page, Page)
    <3>1. Page % Page = 0 BY <2>3, SMT
    <3> QED BY <3>1 DEF Divides
  <2> QED BY <2>2, <2>3, <2>4, AlignUpBelow DEF AlignPage
<1> QED BY <1>1, <1>2, OrderedApart

(* What is mapped at an address: the segment it lies in, and nothing between. *)
SegmentsInOrder(img, cmds) ==
  /\ img.cmds = cmds /\ DOMAIN cmds = 1 .. 13
  /\ \A i \in 1 .. 13 : cmds[i].cmd = "segment" <=> i \in 1 .. 7
  /\ \A i \in 1 .. 7 : cmds[i].vm \in Nat /\ cmds[i].vmsize \in Nat
  /\ \A i, j \in 1 .. 7 : i < j => cmds[i].vm + cmds[i].vmsize <= cmds[j].vm

LEMMA SegmentsFound ==
  ASSUME NEW img, NEW cmds, SegmentsInOrder(img, cmds), NEW adr \in Int
  PROVE  /\ \A i \in 1 .. 6 : cmds[i].vm + cmds[i].vmsize <= adr /\ adr < cmds[i + 1].vm =>
              SegmentsAt(img, adr) = {}
         /\ \A i \in 1 .. 7 : cmds[i].vm <= adr /\ adr < cmds[i].vm + cmds[i].vmsize =>
              SegmentsAt(img, adr) = {cmds[i]}
<1>0. /\ img.cmds = cmds /\ DOMAIN cmds = 1 .. 13
      /\ \A i \in 1 .. 13 : cmds[i].cmd = "segment" <=> i \in 1 .. 7
      /\ \A i \in 1 .. 7 : cmds[i].vm \in Nat /\ cmds[i].vmsize \in Nat
      /\ \A i, j \in 1 .. 7 : i < j => cmds[i].vm + cmds[i].vmsize <= cmds[j].vm
  BY DEF SegmentsInOrder
<1>1. SegmentsAt(img, adr) =
        {cmds[i] : i \in {k \in 1 .. 7 : cmds[k].vm <= adr /\ adr < cmds[k].vm + cmds[k].vmsize}}
  BY <1>0 DEF SegmentsAt, ToSet
<1>2. ASSUME NEW i \in 1 .. 6, cmds[i].vm + cmds[i].vmsize <= adr, adr < cmds[i + 1].vm,
             NEW k \in 1 .. 7, cmds[k].vm <= adr, adr < cmds[k].vm + cmds[k].vmsize
      PROVE  FALSE
  <2>1. i \in 1 .. 7 /\ i + 1 \in 1 .. 7 OBVIOUS
  <2>2. CASE k < i BY <2>1, <2>2, <1>0, <1>2
  <2>3. CASE k = i BY <2>1, <2>3, <1>0, <1>2
  <2>4. CASE k = i + 1 BY <2>1, <2>4, <1>0, <1>2
  <2>5. CASE k > i + 1 BY <2>1, <2>5, <1>0, <1>2
  <2> QED BY <2>2, <2>3, <2>4, <2>5
<1>3. ASSUME NEW i \in 1 .. 7, cmds[i].vm <= adr, adr < cmds[i].vm + cmds[i].vmsize,
             NEW k \in 1 .. 7, cmds[k].vm <= adr, adr < cmds[k].vm + cmds[k].vmsize
      PROVE  k = i
  <2>1. CASE k < i BY <2>1, <1>0, <1>3
  <2>2. CASE k > i BY <2>2, <1>0, <1>3
  <2> QED BY <2>1, <2>2
<1> QED BY <1>1, <1>2, <1>0, <1>3

LEMMA ZerosMapped ==
  ASSUME NEW img, NEW adr, NEW c, SegmentsAt(img, adr) = {c}, c.vm \in Int, adr \in Int,
         c.vm <= adr, c.filesize = 0
  PROVE  Mapped(img, adr).what.kind = "zeros"
<1>1. Cardinality(SegmentsAt(img, adr)) = 1 BY FS_Singleton
<1>2. (CHOOSE s \in SegmentsAt(img, adr) : TRUE) = c OBVIOUS
<1>3. ~(adr - c.vm < c.filesize) OBVIOUS
<1>4. Mapped(img, adr) = [what |-> [kind |-> "zeros"], rest |-> 0]
  BY <1>1, <1>2, <1>3 DEF Mapped
<1>5. PICK zeros : zeros = [kind |-> "zeros"] OBVIOUS
<1>6. PICK r : r = [what |-> zeros, rest |-> 0] OBVIOUS
<1>7. r.what = zeros /\ zeros.kind = "zeros" BY <1>5, <1>6
<1>8. Mapped(img, adr) = r BY <1>4, <1>5, <1>6
<1> QED BY <1>7, <1>8

(* What SegmentsApart says of addresses, for segments in order. *)
LEMMA GuardsAre ==
  ASSUME NEW img, NEW cmds, SegmentsInOrder(img, cmds),
         cmds[4].vm = SectionVm(OffExterns), cmds[4].vmsize <= Page,
         cmds[5].vm = SectionVm(OffArena), cmds[5].vmsize = AlignPage(ArenaLen),
         cmds[5].filesize = 0,
         cmds[6].vm = SectionVm(OffCells), cmds[6].vmsize = AlignPage(CellsLen),
         cmds[6].filesize = 0, cmds[7].vm = LinkVm
  PROVE  /\ \A off \in {OffArena - Page, OffCells - Page, OffCells + CellsLen} :
              SegmentsAt(img, SectionVm(off)) = {}
         /\ \A off \in {OffArena, OffArena + ArenaLen - 1, OffCells, OffCells + CellsLen - 1} :
              Mapped(img, SectionVm(off)).what.kind = "zeros"
<1>1. /\ Page \in Nat \ {0} /\ ArenaLen \in Nat /\ CellsLen \in Nat
      /\ ArenaLen > 0 /\ CellsLen > 0
  BY ImageAssumption
<1>2. PICK got \in Nat, arena \in Nat, cells \in Nat :
        /\ got = SectionVm(OffExterns) /\ arena = SectionVm(OffArena)
        /\ cells = SectionVm(OffCells) /\ arena = got + 4 * Page
        /\ cells = arena + ArenaLen + Page /\ LinkVm = cells + CellsLen + Page
        /\ SectionVm(OffArena - Page) = arena - Page
        /\ SectionVm(OffCells - Page) = cells - Page
        /\ SectionVm(OffCells + CellsLen) = cells + CellsLen
        /\ SectionVm(OffArena + ArenaLen - 1) = arena + ArenaLen - 1
        /\ SectionVm(OffCells + CellsLen - 1) = cells + CellsLen - 1
  BY PlacesAre
<1>3. /\ cmds[4].vm = got /\ cmds[4].vmsize \in Nat /\ cmds[4].vmsize <= Page
      /\ cmds[5].vm = arena /\ cmds[5].vmsize = ArenaLen
      /\ cmds[6].vm = cells /\ cmds[6].vmsize = CellsLen
      /\ cmds[7].vm = cells + CellsLen + Page
  BY <1>2, PlacesAre DEF SegmentsInOrder
<1>4. ASSUME NEW adr \in Int, NEW i \in 1 .. 6,
             cmds[i].vm + cmds[i].vmsize <= adr, adr < cmds[i + 1].vm
      PROVE  SegmentsAt(img, adr) = {}
  BY <1>4, SegmentsFound
<1>5. ASSUME NEW adr \in Int, NEW i \in 1 .. 7, i \in {5, 6},
             cmds[i].vm <= adr, adr < cmds[i].vm + cmds[i].vmsize
      PROVE  Mapped(img, adr).what.kind = "zeros"
  <2>1. SegmentsAt(img, adr) = {cmds[i]} BY <1>5, SegmentsFound
  <2>2. cmds[i].filesize = 0 /\ cmds[i].vm \in Int BY <1>5 DEF SegmentsInOrder
  <2> QED BY <2>1, <2>2, <1>5, ZerosMapped
<1>6. SegmentsAt(img, arena - Page) = {}
  <2>1. /\ cmds[4].vm + cmds[4].vmsize <= arena - Page /\ arena - Page < cmds[4 + 1].vm
        /\ arena - Page \in Int
    BY <1>1, <1>2, <1>3
  <2> QED BY <2>1, <1>4
<1>7. SegmentsAt(img, cells - Page) = {}
  <2>1. /\ cmds[5].vm + cmds[5].vmsize <= cells - Page /\ cells - Page < cmds[5 + 1].vm
        /\ cells - Page \in Int
    BY <1>1, <1>2, <1>3
  <2> QED BY <2>1, <1>4
<1>8. SegmentsAt(img, cells + CellsLen) = {}
  <2>1. /\ cmds[6].vm + cmds[6].vmsize <= cells + CellsLen
        /\ cells + CellsLen < cmds[6 + 1].vm /\ cells + CellsLen \in Int
    BY <1>1, <1>2, <1>3
  <2> QED BY <2>1, <1>4
<1>9. \A adr \in {arena, arena + ArenaLen - 1, cells, cells + CellsLen - 1} :
        Mapped(img, adr).what.kind = "zeros"
  <2>1. /\ cmds[5].vm <= arena /\ arena < cmds[5].vm + cmds[5].vmsize /\ arena \in Int
        /\ cmds[5].vm <= arena + ArenaLen - 1 /\ arena + ArenaLen - 1 \in Int
        /\ arena + ArenaLen - 1 < cmds[5].vm + cmds[5].vmsize
    BY <1>1, <1>3
  <2>2. /\ cmds[6].vm <= cells /\ cells < cmds[6].vm + cmds[6].vmsize /\ cells \in Int
        /\ cmds[6].vm <= cells + CellsLen - 1 /\ cells + CellsLen - 1 \in Int
        /\ cells + CellsLen - 1 < cmds[6].vm + cmds[6].vmsize
    BY <1>1, <1>3
  <2> QED BY <2>1, <2>2, <1>5
<1> QED BY <1>2, <1>6, <1>7, <1>8, <1>9

LEMMA InvSegments == Inv => SegmentsApart
<1> SUFFICES ASSUME Inv, Built PROVE SegmentsApart BY DEF SegmentsApart
<1>1. CodeIs /\ SlotsAre /\ SessionLen /\ DataInv BY DEF Inv
<1>2. Executable(image.entry, execLen).result = "built"
  <2>1. ImageIs /\ image.result = "built" BY DEF Inv, Built
  <2>2. BuiltIs BY <2>1 DEF ImageIs, Idle, NoImage
  <2> QED BY <2>2 DEF BuiltIs
<1>3. PICK img : img = Executable(image.entry, execLen) /\ img = Written BY DEF Written
<1>4. PICK link : link = Linkedit OBVIOUS
<1>5. PICK codeLen, dataLen, gotLen, linkLen :
        /\ codeLen = execLen * InstrSize /\ dataLen = dataTop
        /\ gotLen = Len(externs.addrs) * CellSize /\ linkLen = link.len
  OBVIOUS
<1>6. PICK segs : segs = Segments(codeLen, dataLen, gotLen, linkLen) OBVIOUS
<1>7. PICK sigFile : sigFile = segs[7].file + AlignPage(link.len) OBVIOUS
<1>8. PICK cmds : cmds = Commands(segs, image.entry, sigFile) OBVIOUS
<1>9. Asserted(segs, link, sigFile, cmds) /\ img.cmds = cmds
  <2>1. segs = Segments(execLen * InstrSize, dataTop, Len(externs.addrs) * CellSize, link.len)
    BY <1>5, <1>6
  <2>2. PICK entry, len : entry = image.entry /\ len = execLen OBVIOUS
  <2>3. img = Executable(entry, len) /\ img.result = "built" BY <2>2, <1>2, <1>3
  <2>4. segs = Segments(len * InstrSize, dataTop, Len(externs.addrs) * CellSize, link.len)
    BY <2>1, <2>2
  <2>5. cmds = Commands(segs, entry, sigFile) BY <2>2, <1>8
  <2> QED BY <2>3, <2>4, <2>5, <1>4, <1>7, BuiltParts
<1>10. linkLen \in Nat
  <2>1. PICK n : Slots(n) BY DEF Slots
  <2>2. n \in Nat
    <3>1. n = Len(externs.names) BY <2>1 DEF Slots
    <3>2. Len(externs.names) \in Nat BY <1>1, SeqParts DEF SlotsAre
    <3> QED BY <3>1, <3>2
  <2>3. Packed(link) BY <2>1, <2>2, <1>1, <1>4, LinkeditIs
  <2> QED BY <2>3, <1>5 DEF Packed
<1>11. /\ codeLen \in Nat /\ codeLen <= CodeLen * InstrSize
       /\ dataLen \in Nat /\ dataLen <= DataLen /\ gotLen \in Nat /\ gotLen <= Page
  <2>1. execLen \in Nat /\ execLen <= CodeLen BY <1>1, CodeFits
  <2> QED BY <2>1, <1>1, <1>5, LengthsFit
<1>12. /\ \A i, j \in 1 .. 7 : i < j =>
            /\ segs[i].vm + segs[i].vmsize <= segs[j].vm
            /\ segs[i].file + segs[i].filesize <= segs[j].file
       /\ \A i \in 1 .. 7 :
            /\ segs[i].vm \in Nat /\ segs[i].vmsize \in Nat
            /\ segs[i].file \in Nat /\ segs[i].filesize \in Nat
            /\ Divides(Page, segs[i].vm) /\ Divides(Page, segs[i].file)
            /\ segs[i].filesize <= segs[i].vmsize
       /\ segs[4].vmsize <= Page
  BY <1>6, <1>10, <1>11, SegmentsLie
<1>13. /\ Len(segs) = 7 /\ IsSeq(segs)
       /\ \A i \in 1 .. 7 : segs[i].cmd = "segment"
       /\ segs[4].vm = SectionVm(OffExterns)
       /\ segs[5].vm = SectionVm(OffArena) /\ segs[5].vmsize = AlignPage(ArenaLen)
       /\ segs[5].filesize = 0
       /\ segs[6].vm = SectionVm(OffCells) /\ segs[6].vmsize = AlignPage(CellsLen)
       /\ segs[6].filesize = 0 /\ segs[7].vm = LinkVm
  BY <1>6, SegmentsAre
<1>14. /\ DOMAIN cmds = 1 .. 13
       /\ \A i \in 1 .. 7 : cmds[i] = segs[i]
       /\ \A i \in 1 .. 13 : cmds[i].cmd = "segment" => i \in 1 .. 7
  BY <1>8, <1>13, CommandsAre
<1>15. \A i \in 1 .. 13 : cmds[i].cmd = "segment" <=> i \in 1 .. 7 BY <1>13, <1>14
<1>16. SegmentsOf(img) = 1 .. 7 BY <1>9, <1>14, <1>15 DEF SegmentsOf
<1>17. ASSUME NEW i \in 1 .. 7 PROVE segs[i].vm + segs[i].vmsize <= SharedBase
  <2>1. LinkVm + segs[7].vmsize <= SharedBase BY <1>9 DEF Asserted
  <2>2. SharedBase \in Nat BY ImageAssumption
  <2>3. CASE i = 7 BY <2>1, <2>3, <1>13
  <2>4. CASE i # 7
    <3>1. i < 7 BY <2>4
    <3>2. segs[i].vm + segs[i].vmsize <= segs[7].vm BY <3>1, <1>12
    <3>3. /\ segs[i].vm \in Nat /\ segs[i].vmsize \in Nat /\ segs[7].vm \in Nat
          /\ segs[7].vmsize \in Nat /\ segs[7].vm = LinkVm
      BY <1>12, <1>13
    <3> QED BY <3>2, <3>3, <2>1, <2>2
  <2> QED BY <2>3, <2>4
<1>18. /\ \A i, j \in 1 .. 7 : i < j =>
            /\ cmds[i].vm + cmds[i].vmsize <= cmds[j].vm
            /\ cmds[i].file + cmds[i].filesize <= cmds[j].file
       /\ \A i \in 1 .. 7 :
            /\ Divides(Page, cmds[i].vm) /\ Divides(Page, cmds[i].file)
            /\ cmds[i].vm + cmds[i].vmsize <= SharedBase
            /\ cmds[i].filesize <= cmds[i].vmsize
            /\ cmds[i].vm \in Nat /\ cmds[i].vmsize \in Nat
  BY <1>12, <1>14, <1>17
<1>19. /\ \A off \in {OffArena - Page, OffCells - Page, OffCells + CellsLen} :
            SegmentsAt(img, SectionVm(off)) = {}
       /\ \A off \in {OffArena, OffArena + ArenaLen - 1, OffCells, OffCells + CellsLen - 1} :
            Mapped(img, SectionVm(off)).what.kind = "zeros"
  <2>1. cmds[4] = segs[4] /\ cmds[5] = segs[5] /\ cmds[6] = segs[6] /\ cmds[7] = segs[7]
    <3>1. 4 \in 1 .. 7 /\ 5 \in 1 .. 7 /\ 6 \in 1 .. 7 /\ 7 \in 1 .. 7 OBVIOUS
    <3> QED BY <3>1, <1>14
  <2>2. /\ cmds[4].vm = SectionVm(OffExterns) /\ cmds[4].vmsize <= Page
        /\ cmds[5].vm = SectionVm(OffArena) /\ cmds[5].vmsize = AlignPage(ArenaLen)
        /\ cmds[5].filesize = 0
        /\ cmds[6].vm = SectionVm(OffCells) /\ cmds[6].vmsize = AlignPage(CellsLen)
        /\ cmds[6].filesize = 0 /\ cmds[7].vm = LinkVm
    BY <2>1, <1>12, <1>13
  <2>3. \A i, j \in 1 .. 7 : i < j => cmds[i].vm + cmds[i].vmsize <= cmds[j].vm BY <1>18
  <2>4. \A i \in 1 .. 7 : cmds[i].vm \in Nat /\ cmds[i].vmsize \in Nat BY <1>18
  <2>5. DOMAIN cmds = 1 .. 13 BY <1>14
  <2>6. img.cmds = cmds BY <1>9
  <2>7. \A i \in 1 .. 13 : cmds[i].cmd = "segment" <=> i \in 1 .. 7 BY <1>15
  <2>8. SegmentsInOrder(img, cmds) BY <2>3, <2>4, <2>5, <2>6, <2>7 DEF SegmentsInOrder
  <2> QED BY <2>2, <2>8, GuardsAre
<1> QED BY <1>3, <1>9, <1>16, <1>18, <1>19 DEF SegmentsApart

(* Whatever the session compiled and allocated, the segments of an executable *)
(* which was built share no address and no byte of the file, start at pages,  *)
(* end below the shared region, and leave the guards of arena and cells       *)
(* unmapped.                                                                  *)
THEOREM SegmentsStayApart == Spec => []SegmentsApart
BY AlwaysInv, InvSegments, PTL

----
(* The file: its parts follow each other, and only the signature has hashes. *)

Plain(buf) == \A i \in 1 .. Len(buf.parts) : buf.parts[i].what.kind # "hash"

PlainItems(items) ==
  \A i \in 1 .. Len(items) : items[i].size \in Nat /\ items[i].what.kind # "hash"

LEMMA PutAllPlain ==
  ASSUME NEW buf, Packed(buf), Plain(buf), NEW items, IsSeq(items), PlainItems(items),
         NEW r, r = PutAll(buf, items)
  PROVE  /\ Packed(r) /\ Plain(r)
         /\ r.len = buf.len + Total(SizesOf(items), Len(items))
<1>1. PICK n \in Nat, m \in Nat : n = Len(buf.parts) /\ m = Len(items)
  BY SeqParts DEF Packed
<1>2. /\ Packed(r) /\ r.len = buf.len + Total(SizesOf(items), Len(items))
      /\ Len(r.parts) = n + m
      /\ \A i \in 1 .. n : r.parts[i] = buf.parts[i]
      /\ \A i \in 1 .. m :
           r.parts[n + i] = [at |-> buf.len + Total(SizesOf(items), i - 1),
                             size |-> items[i].size, what |-> items[i].what]
  <2>1. SizedItems(items) BY DEF PlainItems, SizedItems
  <2>0. Packed(r) /\ Followed(buf, items, r) BY <2>1, PutAllIs
  <2>2. /\ Packed(r) /\ r.len = buf.len + Total(SizesOf(items), Len(items))
        /\ Len(r.parts) = Len(buf.parts) + Len(items)
        /\ \A i \in 1 .. Len(buf.parts) : r.parts[i] = buf.parts[i]
        /\ \A i \in 1 .. Len(items) :
             r.parts[Len(buf.parts) + i] =
               [at |-> buf.len + Total(SizesOf(items), i - 1), size |-> items[i].size,
                what |-> items[i].what]
    BY <2>0 DEF Followed
  <2>3. Len(r.parts) = n + m /\ \A i \in 1 .. n : r.parts[i] = buf.parts[i] BY <2>2, <1>1
  <2>4. ASSUME NEW i \in 1 .. m
        PROVE  r.parts[n + i] = [at |-> buf.len + Total(SizesOf(items), i - 1),
                                 size |-> items[i].size, what |-> items[i].what]
    <3>1. PICK parts, len : parts = buf.parts /\ len = Len(items) OBVIOUS
    <3>2. i \in 1 .. len /\ n = Len(parts) BY <3>1, <1>1
    <3> QED BY <3>1, <3>2, <2>2
  <2> QED BY <2>2, <2>3, <2>4
<1>3. ASSUME NEW i \in 1 .. n + m PROVE r.parts[i].what.kind # "hash"
  <2>1. CASE i \in 1 .. n
    <3>1. r.parts[i] = buf.parts[i] BY <2>1, <1>2
    <3>2. buf.parts[i].what.kind # "hash" BY <2>1, <1>1 DEF Plain
    <3> QED BY <3>1, <3>2
  <2>2. CASE i \notin 1 .. n
    <3>1. PICK j \in 1 .. m : i = n + j
      <4>1. i - n \in 1 .. m /\ i = n + (i - n) BY <2>2
      <4> QED BY <4>1
    <3>2. PICK part, what : part = r.parts[i] /\ what = items[j].what OBVIOUS
    <3>3. part = [at |-> buf.len + Total(SizesOf(items), j - 1), size |-> items[j].size,
                  what |-> what]
      BY <3>1, <3>2, <1>2
    <3>4. part.what = what BY <3>3
    <3>5. items[j].what.kind # "hash" BY <1>1 DEF PlainItems
    <3> QED BY <3>2, <3>4, <3>5
  <2> QED BY <2>1, <2>2
<1> QED BY <1>2, <1>3 DEF Plain

LEMMA PutPlain ==
  ASSUME NEW buf, Packed(buf), Plain(buf), NEW size \in Nat, NEW what, what.kind # "hash",
         NEW r, r = Put(buf, size, what)
  PROVE  Packed(r) /\ Plain(r) /\ r.len = buf.len + size
<1>1. PICK n \in Nat : n = Len(buf.parts) BY SeqParts DEF Packed
<1>2. /\ Packed(r) /\ r.len = buf.len + size /\ Len(r.parts) = n + 1
      /\ \A i \in 1 .. n : r.parts[i] = buf.parts[i]
      /\ r.parts[n + 1] = [at |-> buf.len, size |-> size, what |-> what]
  BY <1>1, PutIs
<1>3. ASSUME NEW i \in 1 .. n + 1 PROVE r.parts[i].what.kind # "hash"
  <2>1. CASE i \in 1 .. n
    <3>1. r.parts[i] = buf.parts[i] BY <2>1, <1>2
    <3>2. buf.parts[i].what.kind # "hash" BY <2>1, <1>1 DEF Plain
    <3> QED BY <3>1, <3>2
  <2>2. CASE i = n + 1
    <3>1. r.parts[i].what = what BY <2>2, <1>2
    <3> QED BY <3>1
  <2> QED BY <2>1, <2>2
<1> QED BY <1>2, <1>3 DEF Plain

LEMMA PadIs ==
  ASSUME NEW buf, Packed(buf), Plain(buf), NEW len \in Nat, buf.len <= len,
         NEW r, r = PadTo(buf, len)
  PROVE  Packed(r) /\ Plain(r) /\ r.len = len
<1>1. buf.len \in Nat BY DEF Packed
<1>2. PICK size \in Nat : size = len - buf.len BY <1>1
<1>3. PICK what : what = [kind |-> "pad"] OBVIOUS
<1>4. what.kind # "hash" BY <1>3
<1>5. r = Put(buf, size, what) BY <1>2, <1>3 DEF PadTo
<1>6. Packed(r) /\ Plain(r) /\ r.len = buf.len + size BY <1>4, <1>5, PutPlain
<1> QED BY <1>1, <1>2, <1>6

Same(f, n, b) == \A i \in 1 .. n : f[i] = b

LEMMA TotalSame ==
  ASSUME NEW f, NEW n \in Nat, NEW b \in Nat, Same(f, n, b)
  PROVE  Total(f, n) = n * b
<1> DEFINE S == {m \in 0 .. n : Total(f, m) = m * b}
<1>1. 0 \in S
  <2>1. Total(f, 0) = 0 /\ 0 * b = 0 BY TotalIs
  <2> QED BY <2>1
<1>2. ASSUME NEW m \in 0 .. n - 1, m \in S PROVE m + 1 \in S
  <2>1. m \in Nat /\ m + 1 \in 1 .. n OBVIOUS
  <2>2. Total(f, m + 1) = Total(f, m) + f[m + 1] BY <2>1, TotalIs
  <2>3. f[m + 1] = b BY <2>1 DEF Same
  <2>4. Total(f, m) = m * b BY <1>2
  <2>5. (m + 1) * b = m * b + b BY <2>1
  <2> QED BY <2>1, <2>2, <2>3, <2>4, <2>5
<1>3. \A m \in 0 .. n : m \in S
  <2> HIDE DEF S
  <2> QED BY <1>1, <1>2, InductTo
<1> QED BY <1>3

Behind(g, f, n) == \A i \in 1 .. n : g[i + 1] = f[i] /\ f[i] \in Nat

LEMMA TotalBehind ==
  ASSUME NEW g, NEW f, NEW n \in Nat, Behind(g, f, n), g[1] \in Nat
  PROVE  Total(g, n + 1) = g[1] + Total(f, n)
<1> DEFINE S == {m \in 0 .. n : Total(g, m + 1) = g[1] + Total(f, m) /\ Total(f, m) \in Nat}
<1>1. 0 \in S
  <2>1. Total(f, 0) = 0 /\ Total(g, 0) = 0 /\ Total(g, 0 + 1) = Total(g, 0) + g[0 + 1]
    BY TotalIs
  <2> QED BY <2>1
<1>2. ASSUME NEW m \in 0 .. n - 1, m \in S PROVE m + 1 \in S
  <2>1. m \in Nat /\ m + 1 \in 1 .. n /\ m + 1 \in Nat OBVIOUS
  <2>2. Total(f, m + 1) = Total(f, m) + f[m + 1] BY <2>1, TotalIs
  <2>3. Total(g, (m + 1) + 1) = Total(g, m + 1) + g[(m + 1) + 1] BY <2>1, TotalIs
  <2>4. g[(m + 1) + 1] = f[m + 1] /\ f[m + 1] \in Nat BY <2>1 DEF Behind
  <2>5. Total(g, m + 1) = g[1] + Total(f, m) /\ Total(f, m) \in Nat BY <1>2
  <2> QED BY <2>1, <2>2, <2>3, <2>4, <2>5
<1>3. \A m \in 0 .. n : m \in S
  <2> HIDE DEF S
  <2> QED BY <1>1, <1>2, InductTo
<1> QED BY <1>3

(* The sections of the file. *)
LEMMA HeadIs ==
  ASSUME NEW cmds, IsSeq(cmds), \A i \in DOMAIN cmds : cmds[i].size \in Nat,
         NEW head,
         head = PutAll(EmptyBuf, << [size |-> HeadSize, what |-> [kind |-> "pad"]] >>
                  \o [i \in DOMAIN cmds |-> [size |-> cmds[i].size,
                                             what |-> [kind |-> "command", command |-> cmds[i]]]])
  PROVE  Packed(head) /\ Plain(head) /\ head.len = HeadSize + Total(SizesOf(cmds), Len(cmds))
<1>1. PICK n \in Nat : n = Len(cmds) BY SeqParts
<1>2. DOMAIN cmds = 1 .. n BY <1>1, SeqParts
<1>3. PICK x : x = [size |-> HeadSize, what |-> [kind |-> "pad"]] OBVIOUS
<1>4. x.size = HeadSize /\ x.what.kind = "pad" BY <1>3
<1>5. PICK s : s = <<x>> OBVIOUS
<1>6. IsSeq(s) /\ Len(s) = 1 /\ s[1] = x BY <1>5, OneParts
<1>7. PICK t : t = [i \in 1 .. n |-> [size |-> cmds[i].size,
                                      what |-> [kind |-> "command", command |-> cmds[i]]]]
  OBVIOUS
<1>8. IsSeq(t) /\ Len(t) = n
  <2>1. t = [i \in 1 .. n |-> t[i]] BY <1>7
  <2> QED BY <2>1, FunctionIsSeq
<1>9. ASSUME NEW i \in 1 .. n PROVE t[i].size = cmds[i].size /\ t[i].what.kind = "command"
  <2>1. PICK c, size : c = cmds[i] /\ size = cmds[i].size OBVIOUS
  <2>2. PICK what : what = [kind |-> "command", command |-> c] OBVIOUS
  <2>3. t[i] = [size |-> size, what |-> what] BY <2>1, <2>2, <1>7
  <2>4. t[i].size = size /\ t[i].what = what BY <2>3
  <2>5. what.kind = "command" BY <2>2
  <2> QED BY <2>1, <2>4, <2>5
<1>10. PICK items : items = s \o t OBVIOUS
<1>11. /\ IsSeq(items) /\ Len(items) = 1 + n /\ items[1] = x
       /\ \A i \in 1 .. n : items[1 + i] = t[i]
  <2>1. /\ IsSeq(items) /\ Len(items) = Len(s) + Len(t)
        /\ \A i \in 1 .. Len(s) : items[i] = s[i]
        /\ \A i \in 1 .. Len(t) : items[Len(s) + i] = t[i]
    <3>1. IsSeq(s) /\ IsSeq(t) BY <1>6, <1>8
    <3> QED BY <3>1, <1>10, ConcatParts
  <2>2. 1 \in 1 .. 1 OBVIOUS
  <2> QED BY <2>1, <2>2, <1>6, <1>8
<1>12. head = PutAll(EmptyBuf, items) BY <1>2, <1>3, <1>5, <1>7, <1>10
<1>13. ASSUME NEW i \in 1 .. 1 + n
       PROVE  items[i].size \in Nat /\ items[i].what.kind # "hash"
  <2>1. CASE i = 1 BY <2>1, <1>4, <1>11 DEF HeadSize
  <2>2. CASE i # 1
    <3>1. PICK j \in 1 .. n : i = 1 + j
      <4>1. i - 1 \in 1 .. n /\ i = 1 + (i - 1) BY <2>2
      <4> QED BY <4>1
    <3>2. items[i] = t[j] BY <3>1, <1>11
    <3>3. cmds[j].size \in Nat BY <1>2
    <3> QED BY <3>2, <3>3, <1>9
  <2> QED BY <2>1, <2>2
<1>14. PlainItems(items) BY <1>11, <1>13 DEF PlainItems
<1>15. PICK buf : buf = EmptyBuf OBVIOUS
<1>16. Packed(buf) /\ Plain(buf) /\ buf.len = 0 BY <1>15, EmptyPacked DEF Plain
<1>17. PICK g, f : g = SizesOf(items) /\ f = SizesOf(cmds) OBVIOUS
<1>18. Packed(head) /\ Plain(head) /\ head.len = buf.len + Total(g, Len(items))
  <2>1. PICK r : r = head OBVIOUS
  <2>2. r = PutAll(buf, items) BY <2>1, <1>12, <1>15
  <2>3. IsSeq(items) /\ Packed(buf) /\ Plain(buf) BY <1>11, <1>16
  <2>4. Packed(r) /\ Plain(r) /\ r.len = buf.len + Total(SizesOf(items), Len(items))
    BY <2>2, <2>3, <1>14, PutAllPlain
  <2> QED BY <2>1, <2>4, <1>17
<1>19. g[1] = HeadSize /\ Behind(g, f, n)
  <2>1. DOMAIN items = 1 .. 1 + n BY <1>11, SeqParts
  <2>2. \A i \in 1 .. 1 + n : g[i] = items[i].size BY <2>1, <1>17 DEF SizesOf
  <2>3. \A i \in 1 .. n : f[i] = cmds[i].size BY <1>2, <1>17 DEF SizesOf
  <2>4. ASSUME NEW i \in 1 .. n PROVE g[i + 1] = f[i] /\ f[i] \in Nat
    <3>1. i + 1 = 1 + i /\ i + 1 \in 1 .. 1 + n OBVIOUS
    <3>2. g[i + 1] = items[1 + i].size BY <3>1, <2>2
    <3>3. cmds[i].size \in Nat BY <1>2
    <3> QED BY <3>2, <3>3, <2>3, <1>9, <1>11
  <2>5. 1 \in 1 .. 1 + n OBVIOUS
  <2> QED BY <2>2, <2>4, <2>5, <1>4, <1>11 DEF Behind
<1>20. Total(g, n + 1) = HeadSize + Total(f, n)
  <2>1. g[1] \in Nat BY <1>19 DEF HeadSize
  <2> QED BY <2>1, <1>19, TotalBehind
<1>21. Total(f, n) \in Nat
  <2>1. \A i \in 1 .. n : f[i] \in Nat BY <1>19 DEF Behind
  <2>2. \A i \in 0 .. n : Total(f, i) \in Nat BY <2>1, TotalNat
  <2> QED BY <2>2
<1>22. head.len = HeadSize + Total(f, n)
  <2>1. Len(items) = n + 1 BY <1>11
  <2> QED BY <2>1, <1>16, <1>18, <1>20, <1>21 DEF HeadSize
<1> QED BY <1>1, <1>17, <1>18, <1>22

(* Items which are all as long as each other. *)
LEMMA EqualItems ==
  ASSUME NEW buf, Packed(buf), Plain(buf), NEW n \in Nat, NEW b \in Nat, NEW items,
         IsSeq(items), Len(items) = n,
         \A i \in 1 .. n : items[i].size = b /\ items[i].what.kind # "hash",
         NEW r, r = PutAll(buf, items)
  PROVE  Packed(r) /\ Plain(r) /\ r.len = buf.len + n * b
<1>1. PlainItems(items) BY DEF PlainItems
<1>2. PICK f, m : f = SizesOf(items) /\ m = Len(items) OBVIOUS
<1>3. Packed(r) /\ Plain(r) /\ r.len = buf.len + Total(f, m) BY <1>1, <1>2, PutAllPlain
<1>4. Same(f, n, b)
  <2>1. DOMAIN items = 1 .. n BY SeqParts
  <2> QED BY <2>1, <1>2 DEF Same, SizesOf
<1>5. Total(f, n) = n * b BY <1>4, TotalSame
<1> QED BY <1>2, <1>3, <1>5

LEMMA TextIs ==
  ASSUME NEW buf, Packed(buf), Plain(buf), NEW n \in Nat, NEW r,
         r = PutAll(buf, [i \in 1 .. n |-> [size |-> InstrSize,
                                            what |-> [kind |-> "instr", at |-> i]]])
  PROVE  Packed(r) /\ Plain(r) /\ r.len = buf.len + n * InstrSize
<1>1. PICK items : items = [i \in 1 .. n |-> [size |-> InstrSize,
                                             what |-> [kind |-> "instr", at |-> i]]]
  OBVIOUS
<1>2. IsSeq(items) /\ Len(items) = n
  <2>1. items = [i \in 1 .. n |-> items[i]] BY <1>1
  <2> QED BY <2>1, FunctionIsSeq
<1>3. ASSUME NEW i \in 1 .. n PROVE items[i].size = InstrSize /\ items[i].what.kind # "hash"
  <2>1. PICK what : what = [kind |-> "instr", at |-> i] OBVIOUS
  <2>2. items[i] = [size |-> InstrSize, what |-> what] BY <2>1, <1>1
  <2>3. items[i].size = InstrSize /\ items[i].what = what BY <2>2
  <2>4. what.kind = "instr" BY <2>1
  <2> QED BY <2>3, <2>4
<1>4. r = PutAll(buf, items) BY <1>1
<1>5. InstrSize \in Nat BY ImageAssumption
<1> QED BY <1>2, <1>3, <1>4, <1>5, EqualItems

LEMMA GotIs ==
  ASSUME SlotsAre, NEW buf, Packed(buf), Plain(buf), NEW r, r = PutAll(buf, GotSection)
  PROVE  Packed(r) /\ Plain(r) /\ r.len = buf.len + Len(externs.addrs) * CellSize
<1>1. PICK n \in Nat : n = Len(externs.addrs) BY SeqParts DEF SlotsAre
<1>2. PICK items : items = GotSection OBVIOUS
<1>3. items = [k \in 1 .. n |-> GotEntry(k)] BY <1>1, <1>2 DEF GotSection
<1>4. IsSeq(items) /\ Len(items) = n
  <2>1. items = [i \in 1 .. n |-> items[i]] BY <1>3
  <2> QED BY <2>1, FunctionIsSeq
<1>5. ASSUME NEW i \in 1 .. n PROVE items[i].size = CellSize /\ items[i].what.kind # "hash"
  <2>1. PICK what : what = [kind |-> "bind", ordinal |-> i - 1,
                            next |-> IF i = Len(externs.names) THEN 0 ELSE 2]
    OBVIOUS
  <2>2. items[i] = [size |-> CellSize, what |-> what]
    <3>1. items[i] = GotEntry(i) BY <1>3
    <3> QED BY <3>1, <2>1 DEF GotEntry
  <2>3. items[i].size = CellSize /\ items[i].what = what BY <2>2
  <2>4. what.kind = "bind" BY <2>1
  <2> QED BY <2>3, <2>4
<1>6. CellSize \in Nat BY ImageAssumption
<1>7. r = PutAll(buf, items) BY <1>2
<1>8. Packed(r) /\ Plain(r) /\ r.len = buf.len + n * CellSize
  BY <1>4, <1>5, <1>6, <1>7, EqualItems
<1> QED BY <1>1, <1>8

(* The sizes of the parts of a buffer which starts at 0 add up to its length. *)
LEMMA PackedTotal ==
  ASSUME NEW buf, Packed(buf), NEW n \in Nat, n = Len(buf.parts), n > 0, buf.parts[1].at = 0,
         NEW f, \A i \in 1 .. n : f[i] = buf.parts[i].size
  PROVE  /\ Total(f, n) = buf.len
         /\ \A m \in 1 .. n : Total(f, m - 1) = buf.parts[m].at
<1> DEFINE S == {m \in 0 .. n : Total(f, m) = IF m = n THEN buf.len ELSE buf.parts[m + 1].at}
<1>1. \A i \in 1 .. n : /\ buf.parts[i].at \in Nat /\ buf.parts[i].size \in Nat
                        /\ buf.parts[i].at + buf.parts[i].size =
                             IF i = n THEN buf.len ELSE buf.parts[i + 1].at
  BY DEF Packed
<1>2. 0 \in S
  <2>1. Total(f, 0) = 0 BY TotalIs
  <2>2. 0 # n /\ buf.parts[0 + 1].at = 0 OBVIOUS
  <2> QED BY <2>1, <2>2
<1>3. ASSUME NEW m \in 0 .. n - 1, m \in S PROVE m + 1 \in S
  <2>1. PICK k : k = m + 1 OBVIOUS
  <2>2. m \in Nat /\ k \in 1 .. n /\ m # n BY <2>1
  <2>3. Total(f, m + 1) = Total(f, m) + f[m + 1] BY <2>2, TotalIs
  <2>4. Total(f, m) = buf.parts[k].at BY <1>3, <2>1, <2>2
  <2>5. f[k] = buf.parts[k].size BY <2>2
  <2>6. Total(f, k) = IF k = n THEN buf.len ELSE buf.parts[k + 1].at
    BY <2>1, <2>2, <2>3, <2>4, <2>5, <1>1
  <2> QED BY <2>1, <2>2, <2>6
<1>4. \A m \in 0 .. n : m \in S
  <2> HIDE DEF S
  <2> QED BY <1>2, <1>3, InductTo
<1>5. n \in S BY <1>4
<1>6. ASSUME NEW m \in 1 .. n PROVE Total(f, m - 1) = buf.parts[m].at
  <2>1. PICK k : k = m - 1 /\ k + 1 = m /\ k \in 0 .. n /\ k # n OBVIOUS
  <2>2. k \in S BY <2>1, <1>4
  <2> QED BY <2>1, <2>2
<1> QED BY <1>5, <1>6

CopiesOf(link) ==
  [i \in DOMAIN link.parts |-> [size |-> link.parts[i].size, what |-> link.parts[i].what]]

LEMMA TailIs ==
  ASSUME NEW link, Packed(link), Plain(link), Len(link.parts) > 0, link.parts[1].at = 0,
         NEW buf, Packed(buf), Plain(buf), NEW r,
         r = PutAll(buf, CopiesOf(link))
  PROVE  Packed(r) /\ Plain(r) /\ r.len = buf.len + link.len
<1>1. PICK parts : parts = link.parts OBVIOUS
<1>2. IsSeq(parts) BY <1>1 DEF Packed
<1>3. PICK n \in Nat : n = Len(parts) /\ DOMAIN parts = 1 .. n BY <1>2, SeqParts
<1>4. PICK items : items = [i \in 1 .. n |-> [size |-> parts[i].size, what |-> parts[i].what]]
  OBVIOUS
<1>5. r = PutAll(buf, items) BY <1>1, <1>3, <1>4 DEF CopiesOf
<1>6. IsSeq(items) /\ Len(items) = n
  <2>1. items = [i \in 1 .. n |-> items[i]] BY <1>4
  <2> QED BY <2>1, FunctionIsSeq
<1>7. ASSUME NEW i \in 1 .. n
      PROVE  items[i].size = parts[i].size /\ items[i].what = parts[i].what
  <2>1. PICK size, what : size = parts[i].size /\ what = parts[i].what OBVIOUS
  <2>2. items[i] = [size |-> size, what |-> what] BY <2>1, <1>4
  <2> QED BY <2>1, <2>2
<1>8. ASSUME NEW i \in 1 .. n
      PROVE  items[i].size \in Nat /\ items[i].what.kind # "hash"
  <2>1. parts[i].size \in Nat BY <1>1, <1>3 DEF Packed
  <2>2. parts[i].what.kind # "hash" BY <1>1, <1>3 DEF Plain
  <2> QED BY <2>1, <2>2, <1>7
<1>9. PlainItems(items) BY <1>6, <1>8 DEF PlainItems
<1>10. PICK f : f = SizesOf(items) OBVIOUS
<1>11. Packed(r) /\ Plain(r) /\ r.len = buf.len + Total(f, n)
  BY <1>5, <1>6, <1>9, <1>10, PutAllPlain
<1>12. Total(f, n) = link.len
  <2>1. DOMAIN items = 1 .. n BY <1>6, SeqParts
  <2>2. \A i \in 1 .. n : f[i] = link.parts[i].size BY <2>1, <1>1, <1>7, <1>10 DEF SizesOf
  <2>3. n = Len(link.parts) /\ n > 0 BY <1>1, <1>3
  <2> QED BY <2>2, <2>3, PackedTotal
<1> QED BY <1>11, <1>12

LEMMA DividesThrough ==
  ASSUME NEW a \in Nat \ {0}, NEW b \in Nat \ {0}, NEW c \in Nat, Divides(a, b), Divides(b, c)
  PROVE  Divides(a, c)
<1>1. a \in Nat /\ b \in Nat /\ a >= 1 /\ b >= 1 OBVIOUS
<1>2. PICK p \in Nat, r \in Nat : p = b \div a /\ r = b % a /\ b = a * p + r /\ r < a
  BY <1>1, Euclid
<1>3. PICK q \in Nat, s \in Nat : q = c \div b /\ s = c % b /\ c = b * q + s /\ s < b
  BY <1>1, Euclid
<1>4. b = a * p /\ c = b * q
  <2>1. b % a = 0 /\ c % b = 0 BY DEF Divides
  <2> QED BY <2>1, <1>1, <1>2, <1>3
<1>5. PICK k \in Nat : k = p * q OBVIOUS
<1>6. c = a * k + 0
  <2>1. c = (a * p) * q BY <1>4
  <2>2. (a * p) * q = a * (p * q) BY SMT
  <2> QED BY <2>1, <2>2, <1>5
<1>7. c % a = 0 BY <1>1, <1>5, <1>6, Remainder
<1> QED BY <1>7 DEF Divides

Sized(cmds) ==
  /\ cmds[1].size = SegCmd /\ cmds[2].size = SegCmd + Sect /\ cmds[3].size = SegCmd + Sect
  /\ cmds[4].size = SegCmd + Sect /\ cmds[5].size = SegCmd + Sect
  /\ cmds[6].size = SegCmd + Sect /\ cmds[7].size = SegCmd
  /\ cmds[8].size = DylinkerCmd /\ cmds[9].size = DylibCmd /\ cmds[10].size = LinkCmd
  /\ cmds[11].size = MainCmd /\ cmds[12].size = BuildCmd /\ cmds[13].size = LinkCmd

(* The commands are as long as the header announces. *)
LEMMA CommandsTotal ==
  ASSUME NEW cmds, Sized(cmds), NEW f, \A i \in 1 .. 13 : f[i] = cmds[i].size
  PROVE  Total(f, 13) = CmdSize
<1>1. /\ f[0 + 1] = 72 /\ f[1 + 1] = 152 /\ f[2 + 1] = 152 /\ f[3 + 1] = 152
      /\ f[4 + 1] = 152 /\ f[5 + 1] = 152 /\ f[6 + 1] = 72 /\ f[7 + 1] = 32
      /\ f[8 + 1] = 56 /\ f[9 + 1] = 16 /\ f[10 + 1] = 24 /\ f[11 + 1] = 24
      /\ f[12 + 1] = 16
  <2>1. /\ cmds[1].size = 72 /\ cmds[2].size = 152 /\ cmds[3].size = 152
        /\ cmds[4].size = 152 /\ cmds[5].size = 152 /\ cmds[6].size = 152
        /\ cmds[7].size = 72 /\ cmds[8].size = 32 /\ cmds[9].size = 56
        /\ cmds[10].size = 16 /\ cmds[11].size = 24 /\ cmds[12].size = 24
        /\ cmds[13].size = 16
    BY DEF Sized, SegCmd, Sect, DylinkerCmd, DylibCmd, LinkCmd, MainCmd, BuildCmd
  <2>2. \A i \in 0 .. 12 : f[i + 1] = cmds[i + 1].size OBVIOUS
  <2> QED BY <2>1, <2>2
<1>2. \A i \in Nat : Total(f, i + 1) = Total(f, i) + f[i + 1] BY TotalIs
<1>3. Total(f, 0) = 0 BY TotalIs
<1>4. Total(f, 0 + 1) = 72 /\ Total(f, 1 + 1) = 224 /\ Total(f, 2 + 1) = 376
  <2>1. Total(f, 0 + 1) = Total(f, 0) + f[0 + 1] /\ Total(f, 1 + 1) = Total(f, 1) + f[1 + 1]
        /\ Total(f, 2 + 1) = Total(f, 2) + f[2 + 1]
    BY <1>2
  <2>2. Total(f, 1) = 72 BY <2>1, <1>1, <1>3
  <2>3. Total(f, 2) = 224 BY <2>1, <2>2, <1>1
  <2> QED BY <2>1, <2>2, <2>3, <1>1
<1>5. Total(f, 3 + 1) = 528 /\ Total(f, 4 + 1) = 680 /\ Total(f, 5 + 1) = 832
  BY <1>1, <1>2, <1>4
<1>6. Total(f, 6 + 1) = 904 /\ Total(f, 7 + 1) = 936 /\ Total(f, 8 + 1) = 992
  BY <1>1, <1>2, <1>5
<1>7. Total(f, 9 + 1) = 1008 /\ Total(f, 10 + 1) = 1032 /\ Total(f, 11 + 1) = 1056
  BY <1>1, <1>2, <1>6
<1>8. Total(f, 12 + 1) = 1072 BY <1>1, <1>2, <1>7
<1> QED BY <1>8 DEF CmdSize, SegCmd, Sect, DylinkerCmd, DylibCmd, LinkCmd, MainCmd, BuildCmd

(* Every section of the file starts where its segment says, which is behind   *)
(* the section before it; the signature is behind all of them.                 *)
HeadFits(cmds) ==
  /\ IsSeq(cmds) /\ \A i \in DOMAIN cmds : cmds[i].size \in Nat
  /\ HeadSize + Total(SizesOf(cmds), Len(cmds)) <= CodeFile

LinkFits(link) ==
  Packed(link) /\ Plain(link) /\ Len(link.parts) > 0 /\ link.parts[1].at = 0

SectionsFit(segs, link, len, sigFile) ==
  /\ segs[3].file \in Nat /\ segs[4].file \in Nat /\ segs[7].file \in Nat
  /\ CodeFile + len * InstrSize <= segs[3].file
  /\ segs[3].file + dataTop <= segs[4].file
  /\ segs[4].file + Len(externs.addrs) * CellSize <= segs[7].file
  /\ segs[7].file + link.len <= sigFile

----
(* What is put into a buffer stays where it is. *)

Holds(buf, at, size, what) ==
  \E i \in 1 .. Len(buf.parts) : /\ buf.parts[i].at = at /\ buf.parts[i].size = size
                                 /\ buf.parts[i].what = what

(* b goes on where a ends. *)
Grows(a, b) ==
  Len(a.parts) <= Len(b.parts) /\ \A i \in 1 .. Len(a.parts) : b.parts[i] = a.parts[i]

LEMMA HeldOn ==
  ASSUME NEW a, Packed(a), NEW b, Packed(b), Grows(a, b), NEW at, NEW size, NEW what,
         Holds(a, at, size, what)
  PROVE  Holds(b, at, size, what)
<1>1. PICK i \in 1 .. Len(a.parts) :
        a.parts[i].at = at /\ a.parts[i].size = size /\ a.parts[i].what = what
  BY DEF Holds
<1>2. PICK n \in Nat, m \in Nat : n = Len(a.parts) /\ m = Len(b.parts)
  BY SeqParts DEF Packed
<1>3. i \in 1 .. Len(b.parts) BY <1>2 DEF Grows
<1>4. b.parts[i] = a.parts[i] BY DEF Grows
<1> QED BY <1>1, <1>3, <1>4 DEF Holds

LEMMA GrowsOn ==
  ASSUME NEW a, Packed(a), NEW b, Packed(b), NEW c, Packed(c), Grows(a, b), Grows(b, c)
  PROVE  Grows(a, c)
<1>1. PICK n \in Nat, m \in Nat, k \in Nat :
        n = Len(a.parts) /\ m = Len(b.parts) /\ k = Len(c.parts)
  BY SeqParts DEF Packed
<1>2. n <= m /\ m <= k BY <1>1 DEF Grows
<1>3. ASSUME NEW i \in 1 .. n PROVE c.parts[i] = a.parts[i]
  <2>1. i \in 1 .. m BY <1>2
  <2>2. b.parts[i] = a.parts[i] BY <1>1 DEF Grows
  <2>3. c.parts[i] = b.parts[i] BY <2>1, <1>1 DEF Grows
  <2> QED BY <2>2, <2>3
<1> QED BY <1>1, <1>2, <1>3 DEF Grows

LEMMA PutGrows ==
  ASSUME NEW buf, Packed(buf), NEW size \in Nat, NEW what, NEW r, r = Put(buf, size, what)
  PROVE  Packed(r) /\ Grows(buf, r) /\ Holds(r, buf.len, size, what)
<1>1. PICK n \in Nat : n = Len(buf.parts) BY SeqParts DEF Packed
<1>2. /\ Packed(r) /\ Len(r.parts) = n + 1
      /\ \A i \in 1 .. n : r.parts[i] = buf.parts[i]
      /\ r.parts[n + 1] = [at |-> buf.len, size |-> size, what |-> what]
  BY <1>1, PutIs
<1>3. Grows(buf, r) BY <1>1, <1>2 DEF Grows
<1>4. PICK p : p = r.parts[n + 1] OBVIOUS
<1>5. p.at = buf.len /\ p.size = size /\ p.what = what BY <1>2, <1>4
<1>6. PICK i : i = n + 1 /\ i \in 1 .. n + 1 OBVIOUS
<1>7. i \in 1 .. Len(r.parts) BY <1>2, <1>6
<1>8. r.parts[i] = p BY <1>4, <1>6
<1>9. Holds(r, buf.len, size, what) BY <1>5, <1>7, <1>8 DEF Holds
<1> QED BY <1>2, <1>3, <1>9

LEMMA PadGrows ==
  ASSUME NEW buf, Packed(buf), NEW len \in Nat, buf.len <= len, NEW r, r = PadTo(buf, len)
  PROVE  Packed(r) /\ Grows(buf, r)
<1>1. buf.len \in Nat BY DEF Packed
<1>2. PICK size \in Nat : size = len - buf.len BY <1>1
<1>3. PICK what : what = [kind |-> "pad"] OBVIOUS
<1>4. r = Put(buf, size, what) BY <1>2, <1>3 DEF PadTo
<1> QED BY <1>4, PutGrows

(* The items are there, each behind those before it. *)
HoldsAll(r, at, items) ==
  \A i \in 1 .. Len(items) :
    Holds(r, at + Total(SizesOf(items), i - 1), items[i].size, items[i].what)

LEMMA PutAllGrows ==
  ASSUME NEW buf, Packed(buf), NEW items, IsSeq(items), SizedItems(items),
         NEW r, r = PutAll(buf, items)
  PROVE  Packed(r) /\ Grows(buf, r) /\ HoldsAll(r, buf.len, items)
<1>1. PICK n \in Nat : n = Len(buf.parts) BY SeqParts DEF Packed
<1>2. PICK m \in Nat : m = Len(items) BY SeqParts
<1>3. Packed(r) /\ Followed(buf, items, r) BY PutAllIs
<1>4. PICK parts : parts = r.parts OBVIOUS
<1>5. /\ Len(parts) = n + m /\ \A i \in 1 .. n : parts[i] = buf.parts[i]
      /\ \A i \in 1 .. m :
           parts[n + i] = [at |-> buf.len + Total(SizesOf(items), i - 1),
                           size |-> items[i].size, what |-> items[i].what]
  BY <1>1, <1>2, <1>3, <1>4 DEF Followed
<1>6. Grows(buf, r) BY <1>1, <1>4, <1>5 DEF Grows
<1>7. ASSUME NEW i \in 1 .. m
      PROVE  Holds(r, buf.len + Total(SizesOf(items), i - 1), items[i].size, items[i].what)
  <2>1. PICK at, size, what : /\ at = buf.len + Total(SizesOf(items), i - 1)
                              /\ size = items[i].size /\ what = items[i].what
    OBVIOUS
  <2>2. PICK p : p = parts[n + i] OBVIOUS
  <2>3. p = [at |-> at, size |-> size, what |-> what] BY <2>1, <2>2, <1>5
  <2>4. p.at = at /\ p.size = size /\ p.what = what BY <2>3
  <2>5. PICK j : j = n + i /\ j \in 1 .. n + m OBVIOUS
  <2>6. j \in 1 .. Len(r.parts) BY <2>5, <1>4, <1>5
  <2>7. r.parts[j] = p BY <2>2, <2>5, <1>4
  <2>8. Holds(r, at, size, what) BY <2>4, <2>6, <2>7 DEF Holds
  <2> QED BY <2>1, <2>8
<1>8. HoldsAll(r, buf.len, items) BY <1>2, <1>7 DEF HoldsAll
<1> QED BY <1>3, <1>6, <1>8

(* Items which are as long as each other. *)
LEMMA EqualHeld ==
  ASSUME NEW r, NEW at, NEW n \in Nat, NEW b \in Nat, NEW items, IsSeq(items), Len(items) = n,
         \A i \in 1 .. n : items[i].size = b, HoldsAll(r, at, items)
  PROVE  \A i \in 1 .. n : Holds(r, at + (i - 1) * b, b, items[i].what)
<1> SUFFICES ASSUME NEW i \in 1 .. n PROVE Holds(r, at + (i - 1) * b, b, items[i].what)
  OBVIOUS
<1>1. PICK f : f = SizesOf(items) OBVIOUS
<1>2. DOMAIN items = 1 .. n BY SeqParts
<1>3. PICK m \in Nat : m = i - 1 OBVIOUS
<1>4. Same(f, m, b)
  <2>1. \A j \in 1 .. m : j \in 1 .. n BY <1>3
  <2> QED BY <2>1, <1>1, <1>2 DEF Same, SizesOf
<1>5. Total(f, i - 1) = (i - 1) * b BY <1>3, <1>4, TotalSame
<1>6. Holds(r, at + Total(f, i - 1), items[i].size, items[i].what) BY <1>1 DEF HoldsAll
<1>7. items[i].size = b OBVIOUS
<1> QED BY <1>5, <1>6, <1>7

----
(* What the file holds, and where. *)

Instr(i) == [kind |-> "instr", at |-> i]
TextHeld(buf, n) ==
  \A i \in 1 .. n : Holds(buf, CodeFile + (i - 1) * InstrSize, InstrSize, Instr(i))

DataHeld(buf, at) == Holds(buf, at, dataTop, [kind |-> "data"])

GotHeld(buf, at) ==
  \A k \in 1 .. Len(externs.names) : Holds(buf, at + (k - 1) * CellSize, CellSize, GotEntry(k).what)

LinkHeld(buf, at, link) ==
  \A j \in 1 .. Len(link.parts) :
    Holds(buf, at + link.parts[j].at, link.parts[j].size, link.parts[j].what)

LEMMA TextPut ==
  ASSUME NEW buf, Packed(buf), buf.len = CodeFile, NEW n \in Nat, NEW r,
         r = PutAll(buf, [i \in 1 .. n |-> [size |-> InstrSize,
                                            what |-> [kind |-> "instr", at |-> i]]])
  PROVE  Packed(r) /\ Grows(buf, r) /\ TextHeld(r, n)
<1>1. PICK items : items = [i \in 1 .. n |-> [size |-> InstrSize,
                                             what |-> [kind |-> "instr", at |-> i]]]
  OBVIOUS
<1>2. IsSeq(items) /\ Len(items) = n
  <2>1. items = [i \in 1 .. n |-> items[i]] BY <1>1
  <2> QED BY <2>1, FunctionIsSeq
<1>3. ASSUME NEW i \in 1 .. n PROVE items[i].size = InstrSize /\ items[i].what = Instr(i)
  <2>1. PICK what : what = Instr(i) OBVIOUS
  <2>2. items[i] = [size |-> InstrSize, what |-> what] BY <2>1, <1>1 DEF Instr
  <2> QED BY <2>1, <2>2
<1>4. r = PutAll(buf, items) BY <1>1
<1>5. InstrSize \in Nat BY ImageAssumption
<1>6. SizedItems(items) BY <1>2, <1>3, <1>5 DEF SizedItems
<1>7. Packed(r) /\ Grows(buf, r) /\ HoldsAll(r, buf.len, items)
  BY <1>2, <1>4, <1>6, PutAllGrows
<1>8. PICK at : at = CodeFile OBVIOUS
<1>9. HoldsAll(r, at, items) BY <1>7, <1>8
<1>10. \A i \in 1 .. n : Holds(r, at + (i - 1) * InstrSize, InstrSize, items[i].what)
  BY <1>2, <1>3, <1>5, <1>9, EqualHeld
<1>11. TextHeld(r, n) BY <1>3, <1>8, <1>10 DEF TextHeld
<1> QED BY <1>7, <1>11

LEMMA GotPut ==
  ASSUME SlotsAre, NEW buf, Packed(buf), NEW r, r = PutAll(buf, GotSection)
  PROVE  Packed(r) /\ Grows(buf, r) /\ GotHeld(r, buf.len)
<1>1. PICK n \in Nat : n = Len(externs.addrs) BY SeqParts DEF SlotsAre
<1>2. PICK items : items = GotSection OBVIOUS
<1>3. items = [k \in 1 .. n |-> GotEntry(k)] BY <1>1, <1>2 DEF GotSection
<1>4. IsSeq(items) /\ Len(items) = n
  <2>1. items = [i \in 1 .. n |-> items[i]] BY <1>3
  <2> QED BY <2>1, FunctionIsSeq
<1>5. ASSUME NEW i \in 1 .. n
      PROVE  items[i].size = CellSize /\ items[i].what = GotEntry(i).what
  <2>1. PICK what : what = [kind |-> "bind", ordinal |-> i - 1,
                            next |-> IF i = Len(externs.names) THEN 0 ELSE 2]
    OBVIOUS
  <2>2. PICK e : e = GotEntry(i) OBVIOUS
  <2>3. e = [size |-> CellSize, what |-> what] BY <2>1, <2>2 DEF GotEntry
  <2>4. e.size = CellSize BY <2>3
  <2> QED BY <2>2, <2>4, <1>3
<1>6. CellSize \in Nat BY ImageAssumption
<1>7. SizedItems(items) BY <1>4, <1>5, <1>6 DEF SizedItems
<1>8. Packed(r) /\ Grows(buf, r) /\ HoldsAll(r, buf.len, items)
  BY <1>2, <1>4, <1>7, PutAllGrows
<1>9. PICK at : at = buf.len OBVIOUS
<1>10. HoldsAll(r, at, items) BY <1>8, <1>9
<1>11. \A i \in 1 .. n : Holds(r, at + (i - 1) * CellSize, CellSize, items[i].what)
  BY <1>4, <1>5, <1>6, <1>10, EqualHeld
<1>12. n = Len(externs.names) BY <1>1 DEF SlotsAre
<1>13. GotHeld(r, at) BY <1>5, <1>11, <1>12 DEF GotHeld
<1> QED BY <1>8, <1>9, <1>13

LEMMA LinkPut ==
  ASSUME NEW link, LinkFits(link), NEW buf, Packed(buf), NEW r,
         r = PutAll(buf, CopiesOf(link))
  PROVE  Packed(r) /\ Grows(buf, r) /\ LinkHeld(r, buf.len, link)
<1>0. Packed(link) /\ Len(link.parts) > 0 /\ link.parts[1].at = 0 BY DEF LinkFits
<1>1. PICK parts : parts = link.parts OBVIOUS
<1>2. IsSeq(parts) BY <1>0, <1>1 DEF Packed
<1>3. PICK n \in Nat : n = Len(parts) /\ DOMAIN parts = 1 .. n BY <1>2, SeqParts
<1>4. PICK items : items = [i \in 1 .. n |-> [size |-> parts[i].size, what |-> parts[i].what]]
  OBVIOUS
<1>5. r = PutAll(buf, items) BY <1>1, <1>3, <1>4 DEF CopiesOf
<1>6. IsSeq(items) /\ Len(items) = n
  <2>1. items = [i \in 1 .. n |-> items[i]] BY <1>4
  <2> QED BY <2>1, FunctionIsSeq
<1>7. ASSUME NEW i \in 1 .. n
      PROVE  items[i].size = parts[i].size /\ items[i].what = parts[i].what
  <2>1. PICK size, what : size = parts[i].size /\ what = parts[i].what OBVIOUS
  <2>2. items[i] = [size |-> size, what |-> what] BY <2>1, <1>4
  <2> QED BY <2>1, <2>2
<1>8. SizedItems(items)
  <2>1. \A i \in 1 .. n : parts[i].size \in Nat BY <1>0, <1>1, <1>3 DEF Packed
  <2> QED BY <2>1, <1>6, <1>7 DEF SizedItems
<1>9. Packed(r) /\ Grows(buf, r) /\ HoldsAll(r, buf.len, items)
  BY <1>5, <1>6, <1>8, PutAllGrows
<1>10. PICK f : f = SizesOf(items) OBVIOUS
<1>11. \A m \in 1 .. n : Total(f, m - 1) = parts[m].at
  <2>1. DOMAIN items = 1 .. n BY <1>6, SeqParts
  <2>2. \A i \in 1 .. n : f[i] = link.parts[i].size BY <2>1, <1>1, <1>7, <1>10 DEF SizesOf
  <2>3. n = Len(link.parts) /\ n > 0 BY <1>0, <1>1, <1>3
  <2> QED BY <2>2, <2>3, <1>0, <1>1, PackedTotal
<1>12. ASSUME NEW i \in 1 .. n
       PROVE  Holds(r, buf.len + parts[i].at, parts[i].size, parts[i].what)
  <2>1. Holds(r, buf.len + Total(f, i - 1), items[i].size, items[i].what)
    BY <1>6, <1>9, <1>10 DEF HoldsAll
  <2> QED BY <2>1, <1>7, <1>11
<1>13. LinkHeld(r, buf.len, link) BY <1>1, <1>3, <1>12 DEF LinkHeld
<1> QED BY <1>9, <1>13

Contents(buf, segs, link, n) ==
  /\ TextHeld(buf, n) /\ DataHeld(buf, segs[3].file)
  /\ GotHeld(buf, segs[4].file) /\ LinkHeld(buf, segs[7].file, link)

LEMMA TextOn ==
  ASSUME NEW a, Packed(a), NEW b, Packed(b), Grows(a, b), NEW n, TextHeld(a, n)
  PROVE  TextHeld(b, n)
BY HeldOn DEF TextHeld

LEMMA DataOn ==
  ASSUME NEW a, Packed(a), NEW b, Packed(b), Grows(a, b), NEW at, DataHeld(a, at)
  PROVE  DataHeld(b, at)
BY HeldOn DEF DataHeld

LEMMA GotOn ==
  ASSUME NEW a, Packed(a), NEW b, Packed(b), Grows(a, b), NEW at, GotHeld(a, at)
  PROVE  GotHeld(b, at)
BY HeldOn DEF GotHeld

LEMMA LinkOn ==
  ASSUME NEW a, Packed(a), NEW b, Packed(b), Grows(a, b), NEW at, NEW link,
         LinkHeld(a, at, link)
  PROVE  LinkHeld(b, at, link)
BY HeldOn DEF LinkHeld

LEMMA FileIs ==
  ASSUME SlotsAre, dataTop \in Nat, CodeFile \in Nat,
         NEW segs, NEW link, LinkFits(link), NEW cmds, HeadFits(cmds),
         NEW n \in Nat, NEW sigFile \in Nat, SectionsFit(segs, link, n, sigFile),
         NEW file, file = File(segs, link, cmds, n, sigFile)
  PROVE  \E tail : /\ Packed(tail) /\ Plain(tail) /\ tail.len = sigFile
                   /\ file = PutAll(tail, Signature(sigFile)) /\ Contents(tail, segs, link, n)
<1>1. PICK b1 : b1 = PutAll(EmptyBuf, << [size |-> HeadSize, what |-> [kind |-> "pad"]] >>
                  \o [i \in DOMAIN cmds |-> [size |-> cmds[i].size,
                                             what |-> [kind |-> "command", command |-> cmds[i]]]])
  OBVIOUS
<1>2. PICK b2 : b2 = PadTo(b1, CodeFile) OBVIOUS
<1>3. PICK b3 : b3 = PutAll(b2, [i \in 1 .. n |-> [size |-> InstrSize,
                                                   what |-> [kind |-> "instr", at |-> i]]])
  OBVIOUS
<1>4. PICK b4 : b4 = PadTo(b3, segs[3].file) OBVIOUS
<1>5. PICK b5 : b5 = Put(b4, dataTop, [kind |-> "data"]) OBVIOUS
<1>6. PICK b6 : b6 = PadTo(b5, segs[4].file) OBVIOUS
<1>7. PICK b7 : b7 = PutAll(b6, GotSection) OBVIOUS
<1>8. PICK b8 : b8 = PadTo(b7, segs[7].file) OBVIOUS
<1>9. PICK b9 : b9 = PutAll(b8, CopiesOf(link)) OBVIOUS
<1>10. PICK tail : tail = PadTo(b9, sigFile) OBVIOUS
<1>11. file = PutAll(tail, Signature(sigFile))
  BY <1>1, <1>2, <1>3, <1>4, <1>5, <1>6, <1>7, <1>8, <1>9, <1>10
  DEF File, CopiesOf
<1>12. Packed(b1) /\ Plain(b1) /\ b1.len <= CodeFile
  <2>1. IsSeq(cmds) /\ \A i \in DOMAIN cmds : cmds[i].size \in Nat BY DEF HeadFits
  <2>2. Packed(b1) /\ Plain(b1) /\ b1.len = HeadSize + Total(SizesOf(cmds), Len(cmds))
    BY <2>1, <1>1, HeadIs
  <2> QED BY <2>2 DEF HeadFits
<1>13. Packed(b2) /\ Plain(b2) /\ b2.len = CodeFile BY <1>2, <1>12, PadIs
<1>14. Packed(b3) /\ Plain(b3) /\ b3.len <= segs[3].file
  <2>1. Packed(b3) /\ Plain(b3) /\ b3.len = b2.len + n * InstrSize BY <1>3, <1>13, TextIs
  <2> QED BY <2>1, <1>13 DEF SectionsFit
<1>15. PICK at : at = segs[3].file /\ at \in Nat BY DEF SectionsFit
<1>16. Packed(b4) /\ Plain(b4) /\ b4.len = at
  <2>1. b4 = PadTo(b3, at) /\ b3.len <= at BY <1>4, <1>14, <1>15
  <2> QED BY <2>1, <1>14, <1>15, PadIs
<1>17. Packed(b5) /\ Plain(b5) /\ b5.len <= segs[4].file
  <2>1. PICK what : what = [kind |-> "data"] OBVIOUS
  <2>2. what.kind # "hash" BY <2>1
  <2>3. b5 = Put(b4, dataTop, what) BY <2>1, <1>5
  <2>4. Packed(b5) /\ Plain(b5) /\ b5.len = b4.len + dataTop BY <2>2, <2>3, <1>16, PutPlain
  <2> QED BY <2>4, <1>15, <1>16 DEF SectionsFit
<1>18. PICK got : got = segs[4].file /\ got \in Nat BY DEF SectionsFit
<1>19. Packed(b6) /\ Plain(b6) /\ b6.len = got
  <2>1. b6 = PadTo(b5, got) /\ b5.len <= got BY <1>6, <1>17, <1>18
  <2> QED BY <2>1, <1>17, <1>18, PadIs
<1>20. Packed(b7) /\ Plain(b7) /\ b7.len <= segs[7].file
  <2>1. Packed(b7) /\ Plain(b7) /\ b7.len = b6.len + Len(externs.addrs) * CellSize
    BY <1>7, <1>19, GotIs
  <2> QED BY <2>1, <1>18, <1>19 DEF SectionsFit
<1>21. PICK off : off = segs[7].file /\ off \in Nat BY DEF SectionsFit
<1>22. Packed(b8) /\ Plain(b8) /\ b8.len = off
  <2>1. b8 = PadTo(b7, off) /\ b7.len <= off BY <1>8, <1>20, <1>21
  <2> QED BY <2>1, <1>20, <1>21, PadIs
<1>23. Packed(b9) /\ Plain(b9) /\ b9.len <= sigFile
  <2>1. Packed(link) /\ Plain(link) /\ Len(link.parts) > 0 /\ link.parts[1].at = 0
    BY DEF LinkFits
  <2>2. Packed(b9) /\ Plain(b9) /\ b9.len = b8.len + link.len BY <2>1, <1>9, <1>22, TailIs
  <2> QED BY <2>2, <1>21, <1>22 DEF SectionsFit
<1>24. Packed(tail) /\ Plain(tail) /\ tail.len = sigFile BY <1>10, <1>23, PadIs
<1>25. TextHeld(b3, n) /\ Grows(b3, b4)
  <2>1. Packed(b3) /\ TextHeld(b3, n) BY <1>3, <1>13, TextPut
  <2>2. b4 = PadTo(b3, at) /\ b3.len <= at BY <1>4, <1>14, <1>15
  <2>3. Grows(b3, b4) BY <2>2, <1>14, <1>15, PadGrows
  <2> QED BY <2>1, <2>3
<1>26. DataHeld(b5, at) /\ Grows(b4, b5) /\ Grows(b5, b6)
  <2>1. PICK what : what = [kind |-> "data"] OBVIOUS
  <2>2. b5 = Put(b4, dataTop, what) BY <2>1, <1>5
  <2>3. Grows(b4, b5) /\ Holds(b5, b4.len, dataTop, what) BY <2>2, <1>16, PutGrows
  <2>4. b6 = PadTo(b5, got) /\ b5.len <= got BY <1>6, <1>17, <1>18
  <2>5. Grows(b5, b6) BY <2>4, <1>17, <1>18, PadGrows
  <2> QED BY <2>1, <2>3, <2>5, <1>16 DEF DataHeld
<1>27. GotHeld(b7, got) /\ Grows(b6, b7) /\ Grows(b7, b8)
  <2>1. Grows(b6, b7) /\ GotHeld(b7, b6.len) BY <1>7, <1>19, GotPut
  <2>2. b8 = PadTo(b7, off) /\ b7.len <= off BY <1>8, <1>20, <1>21
  <2>3. Grows(b7, b8) BY <2>2, <1>20, <1>21, PadGrows
  <2> QED BY <2>1, <2>3, <1>19
<1>28. LinkHeld(b9, off, link) /\ Grows(b8, b9) /\ Grows(b9, tail)
  <2>1. Grows(b8, b9) /\ LinkHeld(b9, b8.len, link) BY <1>9, <1>22, LinkPut
  <2>2. Grows(b9, tail) BY <1>10, <1>23, PadGrows
  <2> QED BY <2>1, <2>2, <1>22
<1>29. LinkHeld(tail, off, link) BY <1>23, <1>24, <1>28, LinkOn
<1>30. GotHeld(tail, got)
  <2>1. GotHeld(b8, got) BY <1>20, <1>22, <1>27, GotOn
  <2>2. GotHeld(b9, got) BY <2>1, <1>22, <1>23, <1>28, GotOn
  <2> QED BY <2>2, <1>23, <1>24, <1>28, GotOn
<1>31. Grows(b6, tail)
  <2>1. Grows(b6, b8) BY <1>19, <1>20, <1>22, <1>27, GrowsOn
  <2>2. Grows(b6, b9) BY <2>1, <1>19, <1>22, <1>23, <1>28, GrowsOn
  <2> QED BY <2>2, <1>19, <1>23, <1>24, <1>28, GrowsOn
<1>32. DataHeld(tail, at)
  <2>1. DataHeld(b6, at) BY <1>17, <1>19, <1>26, DataOn
  <2> QED BY <2>1, <1>19, <1>24, <1>31, DataOn
<1>33. TextHeld(tail, n)
  <2>1. Grows(b4, b6) BY <1>16, <1>17, <1>19, <1>26, GrowsOn
  <2>2. TextHeld(b4, n) BY <1>14, <1>16, <1>25, TextOn
  <2>3. TextHeld(b6, n) BY <2>1, <2>2, <1>16, <1>19, TextOn
  <2> QED BY <2>3, <1>19, <1>24, <1>31, TextOn
<1>34. Contents(tail, segs, link, n)
  BY <1>15, <1>18, <1>21, <1>29, <1>30, <1>32, <1>33 DEF Contents
<1> QED BY <1>11, <1>24, <1>34

(* The signature: a hash for every page before it. *)
LEMMA PagesOf ==
  ASSUME NEW len \in Nat, len > 0, Divides(SigPage, len)
  PROVE  \E n \in Nat : /\ len = n * SigPage /\ n = len \div SigPage
                        /\ n = (len + SigPage - 1) \div SigPage
                        /\ n - 1 = (len - 1) \div SigPage
<1>1. PICK b \in Nat : b = SigPage /\ b >= 1 BY ImageAssumption
<1>2. PICK q \in Nat, r \in Nat : q = len \div b /\ r = len % b /\ len = b * q + r /\ r < b
  BY <1>1, Euclid
<1>3. r = 0 BY <1>1, <1>2 DEF Divides
<1>4. len + b - 1 \in Nat /\ len - 1 \in Nat BY <1>1
<1>5. PICK p \in Nat, s \in Nat : p = (len + b - 1) \div b /\ len + b - 1 = b * p + s /\ s < b
  BY <1>1, <1>4, Euclid
<1>6. PICK m \in Nat, t \in Nat : m = (len - 1) \div b /\ len - 1 = b * m + t /\ t < b
  BY <1>1, <1>4, Euclid
<1>7. p = q
  <2>1. b * (p - q) = b - 1 - s
    <3>1. PICK x \in Nat, y \in Nat : x = b * p /\ y = b * q OBVIOUS
    <3>2. b * (p - q) = x - y BY <3>1
    <3>3. x = len + b - 1 - s /\ y = len BY <3>1, <1>1, <1>2, <1>3, <1>5
    <3> QED BY <3>2, <3>3, <1>5
  <2>2. CASE p > q
    <3>1. b * (p - q) >= b BY <2>2, <1>1
    <3> QED BY <3>1, <2>1, <1>1, <1>5
  <2>3. CASE p < q
    <3>1. b * (p - q) <= 0 - b BY <2>3, <1>1
    <3> QED BY <3>1, <2>1, <1>1, <1>5
  <2> QED BY <2>2, <2>3
<1>8. m = q - 1
  <2>1. b * (q - m) = t + 1
    <3>1. PICK x \in Nat, y \in Nat : x = b * m /\ y = b * q OBVIOUS
    <3>2. b * (q - m) = y - x BY <3>1
    <3>3. x = len - 1 - t /\ y = len BY <3>1, <1>2, <1>3, <1>6
    <3> QED BY <3>2, <3>3, <1>6
  <2>2. CASE m >= q
    <3>1. b * (q - m) <= 0 BY <2>2, <1>1
    <3> QED BY <3>1, <2>1, <1>6
  <2>3. CASE m < q - 1
    <3>1. b * (q - m) >= b * 2 BY <2>3, <1>1
    <3> QED BY <3>1, <2>1, <1>1, <1>6
  <2> QED BY <2>2, <2>3
<1>9. len = q * b BY <1>1, <1>2, <1>3
<1> QED BY <1>1, <1>2, <1>5, <1>6, <1>7, <1>8, <1>9

LEMMA SignatureItems ==
  ASSUME NEW len \in Nat, NEW n \in Nat, n = (len + SigPage - 1) \div SigPage
  PROVE  \E items :
           /\ items = Signature(len) /\ IsSeq(items) /\ Len(items) = n + 4
           /\ items[1].size = SigHead /\ items[1].what.kind = "pad"
           /\ items[2].size = SigIndex /\ items[2].what.kind = "pad"
           /\ items[3].size = SigDir /\ items[3].what.kind = "directory"
           /\ items[4].size = IdLen + 1 /\ items[4].what.kind = "pad"
           /\ \A p \in 1 .. n :
                /\ items[4 + p].size = SigHash
                /\ items[4 + p].what = [kind |-> "hash", from |-> (p - 1) * SigPage]
<1>1. PICK a, b, c, d :
        /\ a = [size |-> SigHead, what |-> [kind |-> "pad"]]
        /\ b = [size |-> SigIndex, what |-> [kind |-> "pad"]]
        /\ c = [size |-> SigDir, what |-> [kind |-> "directory", limit |-> len]]
        /\ d = [size |-> IdLen + 1, what |-> [kind |-> "pad"]]
  OBVIOUS
<1>2. PICK s : s = <<a, b, c, d>> OBVIOUS
<1>3. PICK t : t = [p \in 1 .. n |->
                 [size |-> SigHash, what |-> [kind |-> "hash", from |-> (p - 1) * SigPage]]]
  OBVIOUS
<1>4. PICK items : items = s \o t OBVIOUS
<1>5. Signature(len) = items BY <1>1, <1>2, <1>3, <1>4 DEF Signature
<1>6. IsSeq(s) /\ Len(s) = 4 /\ s[1] = a /\ s[2] = b /\ s[3] = c /\ s[4] = d
  <2>1. s \in Seq({a, b, c, d}) BY <1>2
  <2> QED BY <2>1, <1>2, SeqIsSeq
<1>7. IsSeq(t) /\ Len(t) = n
  <2>1. t = [p \in 1 .. n |-> t[p]] BY <1>3
  <2> QED BY <2>1, FunctionIsSeq
<1>8. /\ IsSeq(items) /\ Len(items) = Len(s) + Len(t)
      /\ \A i \in 1 .. Len(s) : items[i] = s[i]
      /\ \A i \in 1 .. Len(t) : items[Len(s) + i] = t[i]
  <2>1. IsSeq(s) /\ IsSeq(t) BY <1>6, <1>7
  <2> QED BY <2>1, <1>4, ConcatParts
<1>9. items[1] = a /\ items[2] = b /\ items[3] = c /\ items[4] = d
  <2>1. 1 \in 1 .. 4 /\ 2 \in 1 .. 4 /\ 3 \in 1 .. 4 /\ 4 \in 1 .. 4 OBVIOUS
  <2> QED BY <2>1, <1>6, <1>8
<1>10. Len(items) = n + 4 BY <1>6, <1>7, <1>8
<1>11. ASSUME NEW p \in 1 .. n
       PROVE  /\ items[4 + p].size = SigHash
              /\ items[4 + p].what = [kind |-> "hash", from |-> (p - 1) * SigPage]
  <2>1. PICK what : what = [kind |-> "hash", from |-> (p - 1) * SigPage] OBVIOUS
  <2>2. PICK item : item = items[4 + p] OBVIOUS
  <2>3. item = t[p] BY <2>2, <1>6, <1>7, <1>8
  <2>4. item = [size |-> SigHash, what |-> what] BY <2>1, <2>3, <1>3
  <2>5. item.size = SigHash /\ item.what = what BY <2>4
  <2> QED BY <2>1, <2>2, <2>5
<1>12. /\ a.size = SigHead /\ a.what.kind = "pad" /\ b.size = SigIndex /\ b.what.kind = "pad"
       /\ c.size = SigDir /\ c.what.kind = "directory"
       /\ d.size = IdLen + 1 /\ d.what.kind = "pad"
  BY <1>1
<1> QED BY <1>5, <1>8, <1>9, <1>10, <1>11, <1>12

(* Of every page before the signature there is one hash. *)
Hashed(file, len) ==
  \A k \in 0 .. (len - 1) \div SigPage : \E i \in 1 .. Len(file.parts) :
    /\ file.parts[i].at >= len
    /\ file.parts[i].what = [kind |-> "hash", from |-> k * SigPage]
    /\ \A j \in 1 .. Len(file.parts) :
         file.parts[j].what = [kind |-> "hash", from |-> k * SigPage] => j = i

LEMMA SignatureIs ==
  ASSUME NEW tail, Packed(tail), Plain(tail), NEW len \in Nat, len > 0, tail.len = len,
         Divides(SigPage, len),
         NEW file, file = PutAll(tail, Signature(len))
  PROVE  /\ Packed(file) /\ file.len = len + SignatureSize(len) /\ Hashed(file, len)
         /\ Grows(tail, file)
<1>1. PICK n \in Nat : /\ len = n * SigPage /\ n = len \div SigPage
                       /\ n = (len + SigPage - 1) \div SigPage
                       /\ n - 1 = (len - 1) \div SigPage
  BY PagesOf
<1>2. PICK items :
        /\ items = Signature(len) /\ IsSeq(items) /\ Len(items) = n + 4
        /\ items[1].size = SigHead /\ items[1].what.kind = "pad"
        /\ items[2].size = SigIndex /\ items[2].what.kind = "pad"
        /\ items[3].size = SigDir /\ items[3].what.kind = "directory"
        /\ items[4].size = IdLen + 1 /\ items[4].what.kind = "pad"
        /\ \A p \in 1 .. n :
             /\ items[4 + p].size = SigHash
             /\ items[4 + p].what = [kind |-> "hash", from |-> (p - 1) * SigPage]
  BY <1>1, SignatureItems
<1>3. IdLen \in Nat /\ SigPage \in Nat /\ SigPage >= 1 BY ImageAssumption
<1>4. PICK f : f = SizesOf(items) OBVIOUS
<1>5. DOMAIN items = 1 .. n + 4 BY <1>2, SeqParts
<1>6. \A i \in 1 .. n + 4 : f[i] = items[i].size BY <1>4, <1>5 DEF SizesOf
<1>7. \A i \in 1 .. n + 4 : i \in {1, 2, 3, 4} \/ \E p \in 1 .. n : i = 4 + p
  <2>1. ASSUME NEW i \in 1 .. n + 4, i \notin {1, 2, 3, 4} PROVE \E p \in 1 .. n : i = 4 + p
    <3>1. i - 4 \in 1 .. n /\ i = 4 + (i - 4) BY <2>1
    <3> QED BY <3>1
  <2> QED BY <2>1
<1>8. \A i \in 1 .. n + 4 : items[i].size \in Nat
  <2>1. \A i \in {1, 2, 3, 4} : items[i].size \in Nat
    BY <1>2, <1>3 DEF SigHead, SigIndex, SigDir
  <2>2. SigHash \in Nat BY DEF SigHash
  <2>3. \A p \in 1 .. n : items[4 + p].size \in Nat BY <2>2, <1>2
  <2> QED BY <2>1, <2>3, <1>7
<1>9. Total(f, 4) = SigHead + SigIndex + SigDir + IdLen + 1
  <2>1. /\ Total(f, 0) = 0 /\ Total(f, 0 + 1) = Total(f, 0) + f[0 + 1]
        /\ Total(f, 1 + 1) = Total(f, 1) + f[1 + 1] /\ Total(f, 2 + 1) = Total(f, 2) + f[2 + 1]
        /\ Total(f, 3 + 1) = Total(f, 3) + f[3 + 1]
    BY TotalIs
  <2>2. f[1] = 12 /\ f[2] = 8 /\ f[3] = 88 /\ f[4] = IdLen + 1
    <3>1. 1 \in 1 .. n + 4 /\ 2 \in 1 .. n + 4 /\ 3 \in 1 .. n + 4 /\ 4 \in 1 .. n + 4 OBVIOUS
    <3> QED BY <3>1, <1>2, <1>6 DEF SigHead, SigIndex, SigDir
  <2> QED BY <2>1, <2>2, <1>3 DEF SigHead, SigIndex, SigDir
<1>10. Total(f, 4 + n) = Total(f, 4) + n * SigHash
  <2> DEFINE S == {i \in 0 .. n : Total(f, 4 + i) = Total(f, 4) + i * 32}
  <2>1. Total(f, 4) \in Nat BY <1>3, <1>9 DEF SigHead, SigIndex, SigDir
  <2>2. 0 \in S BY <2>1
  <2>3. ASSUME NEW i \in 0 .. n - 1, i \in S PROVE i + 1 \in S
    <3>1. PICK k : k = 4 + i OBVIOUS
    <3>2. k \in Nat /\ i + 1 \in 1 .. n /\ 4 + (i + 1) = k + 1 /\ k + 1 \in 1 .. n + 4 BY <3>1
    <3>3. Total(f, k + 1) = Total(f, k) + f[k + 1] BY <3>2, TotalIs
    <3>4. items[4 + (i + 1)].size = 32 BY <3>2, <1>2 DEF SigHash
    <3>5. f[k + 1] = 32 BY <3>2, <3>4, <1>6
    <3>6. Total(f, k) = Total(f, 4) + i * 32 BY <2>3, <3>1
    <3> QED BY <3>2, <3>3, <3>5, <3>6, <2>1
  <2>4. \A i \in 0 .. n : i \in S
    <3> HIDE DEF S
    <3> QED BY <2>2, <2>3, InductTo
  <2>5. n \in S BY <2>4
  <2> QED BY <2>5 DEF SigHash
<1>11. PICK m \in Nat : m = Len(tail.parts) BY SeqParts DEF Packed
<1>12. /\ Packed(file) /\ file.len = len + Total(f, n + 4) /\ Len(file.parts) = m + (n + 4)
       /\ \A i \in 1 .. m : file.parts[i] = tail.parts[i]
       /\ \A i \in 1 .. n + 4 : /\ file.parts[m + i].at = len + Total(f, i - 1)
                                /\ file.parts[m + i].what = items[i].what
  <2>1. SizedItems(items) BY <1>2, <1>8 DEF SizedItems
  <2>2. IsSeq(items) /\ file = PutAll(tail, items) BY <1>2
  <2>0. Packed(file) /\ Followed(tail, items, file) BY <2>1, <2>2, PutAllIs
  <2>3. /\ Packed(file) /\ file.len = tail.len + Total(SizesOf(items), Len(items))
        /\ Len(file.parts) = Len(tail.parts) + Len(items)
        /\ \A i \in 1 .. Len(tail.parts) : file.parts[i] = tail.parts[i]
        /\ \A i \in 1 .. Len(items) :
             file.parts[Len(tail.parts) + i] =
               [at |-> tail.len + Total(SizesOf(items), i - 1), size |-> items[i].size,
                what |-> items[i].what]
    BY <2>0 DEF Followed
  <2>4. ASSUME NEW i \in 1 .. n + 4
        PROVE  /\ file.parts[m + i].at = len + Total(f, i - 1)
               /\ file.parts[m + i].what = items[i].what
    <3>1. PICK part : part = file.parts[m + i] OBVIOUS
    <3>2. PICK parts, count : parts = tail.parts /\ count = Len(items) OBVIOUS
    <3>3. i \in 1 .. count /\ m = Len(parts) BY <3>2, <1>2, <1>11
    <3>4. part = [at |-> tail.len + Total(SizesOf(items), i - 1), size |-> items[i].size,
                  what |-> items[i].what]
      BY <3>1, <3>2, <3>3, <2>3
    <3>5. /\ part.at = tail.len + Total(SizesOf(items), i - 1)
          /\ part.what = items[i].what
      BY <3>4
    <3> QED BY <3>1, <3>5, <1>4
  <2>5. Len(items) = n + 4 BY <1>2
  <2> QED BY <2>3, <2>4, <2>5, <1>4, <1>11
<1>13. file.len = len + SignatureSize(len)
  <2>1. n + 4 = 4 + n OBVIOUS
  <2>2. SignatureSize(len) = SigHead + SigIndex + SigDir + IdLen + 1 + n * SigHash
    BY <1>1 DEF SignatureSize
  <2> QED BY <2>1, <2>2, <1>9, <1>10, <1>12
<1>14. \A i \in 0 .. n + 4 : Total(f, i) \in Nat
  <2>1. \A i \in 1 .. n + 4 : f[i] \in Nat BY <1>6, <1>8
  <2>2. n + 4 \in Nat OBVIOUS
  <2> QED BY <2>1, <2>2, TotalNat
<1>15. ASSUME NEW k \in 0 .. n - 1, NEW j \in 1 .. m + (n + 4),
              file.parts[j].what = [kind |-> "hash", from |-> k * SigPage]
       PROVE  j = m + (4 + (k + 1))
  <2>1. PICK what : what = file.parts[j].what OBVIOUS
  <2>2. what.kind = "hash" /\ what.from = k * SigPage
    <3>1. what = [kind |-> "hash", from |-> k * SigPage] BY <2>1, <1>15
    <3> QED BY <3>1
  <2>3. j \notin 1 .. m
    <3>1. SUFFICES ASSUME j \in 1 .. m PROVE FALSE OBVIOUS
    <3>2. file.parts[j] = tail.parts[j] BY <3>1, <1>12
    <3>3. tail.parts[j].what.kind # "hash" BY <3>1, <1>11 DEF Plain
    <3> QED BY <3>2, <3>3, <2>1, <2>2
  <2>4. PICK i \in 1 .. n + 4 : j = m + i
    <3>1. j - m \in 1 .. n + 4 /\ j = m + (j - m) BY <2>3
    <3> QED BY <3>1
  <2>5. items[i].what = what BY <2>1, <2>4, <1>12
  <2>6. i \notin {1, 2, 3, 4} BY <2>2, <2>5, <1>2
  <2>7. PICK p \in 1 .. n : i = 4 + p BY <2>6, <1>7
  <2>8. what.from = (p - 1) * SigPage
    <3>1. what = [kind |-> "hash", from |-> (p - 1) * SigPage] BY <2>5, <2>7, <1>2
    <3> QED BY <3>1
  <2>9. PICK b \in Nat, q \in Nat : b = SigPage /\ b >= 1 /\ q = p - 1 BY <1>3
  <2>10. q * b = k * b BY <2>2, <2>8, <2>9
  <2>11. q = k
    <3>1. CASE q < k
      <4>1. (k - q) * b >= b /\ (k - q) * b = k * b - q * b BY <3>1, <2>9
      <4> QED BY <4>1, <2>9, <2>10
    <3>2. CASE q > k
      <4>1. (q - k) * b >= b /\ (q - k) * b = q * b - k * b BY <3>2, <2>9
      <4> QED BY <4>1, <2>9, <2>10
    <3> QED BY <3>1, <3>2
  <2> QED BY <2>4, <2>7, <2>9, <2>11
<1>16. ASSUME NEW k \in 0 .. n - 1
       PROVE  \E i \in 1 .. Len(file.parts) :
                /\ file.parts[i].at >= len
                /\ file.parts[i].what = [kind |-> "hash", from |-> k * SigPage]
                /\ \A j \in 1 .. Len(file.parts) :
                     file.parts[j].what = [kind |-> "hash", from |-> k * SigPage] => j = i
  <2>1. PICK p \in 1 .. n : p = k + 1 /\ p - 1 = k OBVIOUS
  <2>2. PICK t \in 1 .. n + 4 : t = 4 + p OBVIOUS
  <2>3. PICK i : i = m + t OBVIOUS
  <2>4. i \in 1 .. Len(file.parts) BY <2>2, <2>3, <1>12
  <2>5. file.parts[i].at = len + Total(f, t - 1) /\ file.parts[i].what = items[t].what
    BY <2>2, <2>3, <1>12
  <2>6. t - 1 \in 0 .. n + 4 /\ Total(f, t - 1) \in Nat BY <1>14
  <2>7. items[t].what = [kind |-> "hash", from |-> k * SigPage] BY <2>1, <2>2, <1>2
  <2>8. \A j \in 1 .. Len(file.parts) :
          file.parts[j].what = [kind |-> "hash", from |-> k * SigPage] => j = i
    BY <2>1, <2>2, <2>3, <1>12, <1>15
  <2>9. file.parts[i].at >= len BY <2>5, <2>6
  <2> QED BY <2>4, <2>5, <2>7, <2>8, <2>9
<1>17. Hashed(file, len) BY <1>1, <1>16 DEF Hashed
<1>18. Grows(tail, file)
  <2>1. m <= Len(file.parts)
    <3>1. PICK total : total = Len(file.parts) OBVIOUS
    <3>2. total = m + (n + 4) BY <3>1, <1>12
    <3>3. m <= total BY <3>2
    <3> QED BY <3>1, <3>3
  <2>2. Len(tail.parts) <= Len(file.parts) BY <2>1, <1>11
  <2>3. \A i \in 1 .. Len(tail.parts) : file.parts[i] = tail.parts[i] BY <1>11, <1>12
  <2> QED BY <2>2, <2>3 DEF Grows
<1> QED BY <1>1, <1>12, <1>13, <1>17, <1>18

----
(* The executable as a whole. *)

Layout(len, entry, link, segs, sigFile, cmds) ==
  /\ link = Linkedit
  /\ segs = Segments(len * InstrSize, dataTop, Len(externs.addrs) * CellSize, link.len)
  /\ sigFile = segs[7].file + AlignPage(link.len)
  /\ cmds = Commands(segs, entry, sigFile)

LEMMA LayoutSegments ==
  ASSUME SlotsAre, DataInv, NEW len \in Nat, len <= CodeLen, NEW entry, NEW link, NEW segs,
         NEW sigFile, NEW cmds, Layout(len, entry, link, segs, sigFile, cmds)
  PROVE  /\ Packed(link) /\ Plain(link) /\ Len(link.parts) > 0 /\ link.parts[1].at = 0
         /\ link.parts[Len(externs.names) + 4].at = SymbolsOff
         /\ \A i \in 1 .. 7 :
              /\ segs[i].vm \in Nat /\ segs[i].vmsize \in Nat
              /\ segs[i].file \in Nat /\ segs[i].filesize \in Nat
              /\ Divides(Page, segs[i].vm) /\ Divides(Page, segs[i].vmsize)
              /\ Divides(Page, segs[i].file)
         /\ \A i \in 1 .. 6 : segs[i].vm + segs[i].vmsize <= segs[i + 1].vm
         /\ Len(segs) = 7 /\ IsSeq(segs) /\ \A i \in 1 .. 7 : segs[i].cmd = "segment"
         /\ segs[1].size = SegCmd /\ segs[7].size = SegCmd
         /\ \A i \in 2 .. 6 : segs[i].size = SegCmd + Sect
         /\ segs[2].vmsize = AlignPage(CodeFile + len * InstrSize)
         /\ segs[3].vm = SectionVm(OffData) /\ segs[7].vm = LinkVm
         /\ segs[7].vmsize = AlignPage(link.len) /\ segs[7].filesize = link.len
         /\ CodeFile \in Nat /\ CodeFile > 0
         /\ CodeFile + len * InstrSize <= segs[3].file
         /\ segs[3].file + dataTop <= segs[4].file
         /\ segs[4].file + Len(externs.addrs) * CellSize <= segs[7].file
         /\ dataTop \in Nat /\ AlignPage(link.len) \in Nat /\ AlignPage(link.len) >= link.len
         /\ Divides(Page, AlignPage(link.len))
<1>1. PICK n : Slots(n) /\ n \in Nat
  <2>1. Len(externs.names) \in Nat BY SeqParts DEF SlotsAre
  <2> QED BY <2>1 DEF Slots
<1>2. /\ Packed(link) /\ Len(link.parts) = n + n + 4 /\ link.parts[1].at = 0
      /\ link.parts[n + 4].at = SymbolsOff
      /\ \A i \in 1 .. Len(link.parts) : link.parts[i].what.kind # "hash"
  <2>1. link = Linkedit BY DEF Layout
  <2> QED BY <2>1, <1>1, LinkeditIs
<1>3. PICK linkLen \in Nat : linkLen = link.len BY <1>2 DEF Packed
<1>4. PICK codeLen \in Nat, dataLen \in Nat, gotLen \in Nat :
        /\ codeLen = len * InstrSize /\ codeLen <= CodeLen * InstrSize
        /\ dataLen = dataTop /\ dataLen <= DataLen
        /\ gotLen = Len(externs.addrs) * CellSize /\ gotLen <= Page
  BY LengthsFit
<1>5. segs = Segments(codeLen, dataLen, gotLen, linkLen) BY <1>3, <1>4 DEF Layout
<1>6. /\ \A i, j \in 1 .. 7 : i < j => segs[i].vm + segs[i].vmsize <= segs[j].vm
      /\ \A i \in 1 .. 7 :
           /\ segs[i].vm \in Nat /\ segs[i].vmsize \in Nat
           /\ segs[i].file \in Nat /\ segs[i].filesize \in Nat
           /\ Divides(Page, segs[i].vm) /\ Divides(Page, segs[i].vmsize)
           /\ Divides(Page, segs[i].file)
  BY <1>4, <1>5, SegmentsLie
<1>7. PICK textSize : textSize = AlignPage(CodeFile + codeLen) OBVIOUS
<1>8. /\ Len(segs) = 7 /\ IsSeq(segs) /\ \A i \in 1 .. 7 : segs[i].cmd = "segment"
      /\ segs[1].size = SegCmd /\ segs[7].size = SegCmd
      /\ \A i \in 2 .. 6 : segs[i].size = SegCmd + Sect
      /\ segs[2].vmsize = textSize
      /\ segs[3].vm = SectionVm(OffData) /\ segs[3].file = textSize
      /\ segs[4].file = textSize + AlignPage(dataLen)
      /\ segs[7].vm = LinkVm /\ segs[7].filesize = linkLen
      /\ segs[7].vmsize = AlignPage(linkLen)
      /\ segs[7].file = textSize + AlignPage(dataLen) + AlignPage(gotLen)
  BY <1>5, <1>7, SegmentsAre
<1>9. Page \in Nat \ {0} BY ImageAssumption
<1>10. CodeFile \in Nat /\ CodeFile > 0
  <2>1. HeadSize + CmdSize \in Nat /\ HeadSize + CmdSize > 0
    BY DEF HeadSize, CmdSize, SegCmd, Sect, LinkCmd, DylinkerCmd, DylibCmd, MainCmd, BuildCmd
  <2>2. PICK size \in Nat : size = HeadSize + CmdSize /\ size > 0 BY <2>1
  <2>3. AlignUp(size, Page) \in Nat /\ AlignUp(size, Page) >= size BY <1>9, AlignUpAligns
  <2> QED BY <2>2, <2>3 DEF CodeFile, AlignPage
<1>11. /\ textSize \in Nat /\ textSize >= CodeFile + codeLen
       /\ AlignPage(dataLen) \in Nat /\ AlignPage(dataLen) >= dataLen
       /\ AlignPage(gotLen) \in Nat /\ AlignPage(gotLen) >= gotLen
       /\ AlignPage(linkLen) \in Nat /\ AlignPage(linkLen) >= linkLen
       /\ Divides(Page, AlignPage(linkLen))
  <2>1. CodeFile + codeLen \in Nat BY <1>10
  <2> QED BY <2>1, <1>7, <1>9, AlignUpAligns DEF AlignPage
<1>12. /\ CodeFile + codeLen <= segs[3].file /\ segs[3].file + dataLen <= segs[4].file
       /\ segs[4].file + gotLen <= segs[7].file
  BY <1>8, <1>10, <1>11
<1>13. \A i \in 1 .. 6 : segs[i].vm + segs[i].vmsize <= segs[i + 1].vm
  <2>1. \A i \in 1 .. 6 : i \in 1 .. 7 /\ i + 1 \in 1 .. 7 /\ i < i + 1 OBVIOUS
  <2> QED BY <2>1, <1>6
<1>14. n = Len(externs.names) /\ n + n + 4 > 0 BY <1>1 DEF Slots
<1> QED BY <1>2, <1>3, <1>4, <1>6, <1>7, <1>8, <1>10, <1>11, <1>12, <1>13, <1>14 DEF Plain

LEMMA LayoutCommands ==
  ASSUME SlotsAre, DataInv, NEW len \in Nat, len <= CodeLen, NEW entry, NEW link, NEW segs,
         NEW sigFile, NEW cmds, Layout(len, entry, link, segs, sigFile, cmds)
  PROVE  /\ sigFile \in Nat /\ sigFile > 0 /\ Divides(SigPage, sigFile)
         /\ segs[7].file + link.len <= sigFile
         /\ IsSeq(cmds) /\ Len(cmds) = 13 /\ Sized(cmds)
<1>1. /\ Len(segs) = 7 /\ IsSeq(segs) /\ \A i \in 1 .. 7 : segs[i].cmd = "segment"
      /\ segs[1].size = SegCmd /\ segs[7].size = SegCmd
      /\ \A i \in 2 .. 6 : segs[i].size = SegCmd + Sect
      /\ \A i \in 1 .. 7 : segs[i].file \in Nat /\ Divides(Page, segs[i].file)
      /\ CodeFile \in Nat /\ CodeFile > 0
  BY LayoutSegments
<1>2. /\ CodeFile + len * InstrSize <= segs[3].file
      /\ segs[3].file + dataTop <= segs[4].file
      /\ segs[4].file + Len(externs.addrs) * CellSize <= segs[7].file
      /\ Packed(link) /\ AlignPage(link.len) \in Nat /\ AlignPage(link.len) >= link.len
      /\ Divides(Page, AlignPage(link.len))
  BY LayoutSegments
<1>3. /\ len * InstrSize \in Nat /\ dataTop \in Nat /\ Len(externs.addrs) * CellSize \in Nat
  BY LengthsFit
<1>4. PICK text \in Nat, data \in Nat, got \in Nat :
        text = len * InstrSize /\ data = dataTop /\ got = Len(externs.addrs) * CellSize
  BY <1>3
<1>5. PICK x \in Nat, y \in Nat, z \in Nat :
        x = segs[3].file /\ y = segs[4].file /\ z = segs[7].file
  BY <1>1
<1>6. z > 0
  <2>1. CodeFile + text <= x /\ x + data <= y /\ y + got <= z BY <1>2, <1>4, <1>5
  <2> QED BY <2>1, <1>1
<1>7. PICK rest \in Nat : rest = AlignPage(link.len) BY <1>2
<1>8. sigFile = z + rest BY <1>5, <1>7 DEF Layout
<1>9. Divides(SigPage, sigFile)
  <2>1. SigPage \in Nat \ {0} /\ Page \in Nat \ {0} /\ Divides(SigPage, Page)
    BY ImageAssumption
  <2>2. Divides(Page, z) /\ Divides(Page, rest) BY <1>1, <1>2, <1>5, <1>7
  <2>3. Divides(Page, z + rest) /\ z + rest \in Nat BY <2>1, <2>2, DividesPlus
  <2>4. Divides(Page, sigFile) /\ sigFile \in Nat BY <2>3, <1>8
  <2> QED BY <2>1, <2>4, DividesThrough
<1>10. segs[7].file + link.len <= sigFile
  <2>1. link.len \in Nat /\ rest >= link.len BY <1>2, <1>7 DEF Packed
  <2> QED BY <2>1, <1>5, <1>8
<1>11. /\ IsSeq(cmds) /\ DOMAIN cmds = 1 .. 13 /\ Len(cmds) = 13
       /\ \A i \in 1 .. 7 : cmds[i] = segs[i]
       /\ cmds[8].size = DylinkerCmd /\ cmds[9].size = DylibCmd /\ cmds[10].size = LinkCmd
       /\ cmds[11].size = MainCmd /\ cmds[12].size = BuildCmd /\ cmds[13].size = LinkCmd
  <2>1. cmds = Commands(segs, entry, sigFile) BY DEF Layout
  <2> QED BY <2>1, <1>1, CommandsAre
<1>12. Sized(cmds)
  <2>1. \A i \in 1 .. 7 : cmds[i].size = segs[i].size BY <1>11
  <2>2. \A i \in 2 .. 6 : i \in 1 .. 7 OBVIOUS
  <2>3. cmds[1].size = SegCmd /\ cmds[7].size = SegCmd BY <2>1, <1>1
  <2>4. \A i \in 2 .. 6 : cmds[i].size = SegCmd + Sect BY <2>1, <2>2, <1>1
  <2>5. 2 \in 2 .. 6 /\ 3 \in 2 .. 6 /\ 4 \in 2 .. 6 /\ 5 \in 2 .. 6 /\ 6 \in 2 .. 6 OBVIOUS
  <2> QED BY <2>3, <2>4, <2>5, <1>11 DEF Sized
<1> QED BY <1>6, <1>8, <1>9, <1>10, <1>11, <1>12

(* The file of an executable. *)
LEMMA LayoutFile ==
  ASSUME SlotsAre, DataInv, NEW len \in Nat, len <= CodeLen, NEW entry, NEW link, NEW segs,
         NEW sigFile, NEW cmds, Layout(len, entry, link, segs, sigFile, cmds),
         NEW file, file = File(segs, link, cmds, len, sigFile)
  PROVE  /\ Total(SizesOf(cmds), Len(cmds)) = CmdSize
         /\ Packed(file) /\ file.len = sigFile + SignatureSize(sigFile)
         /\ Hashed(file, sigFile) /\ Contents(file, segs, link, len)
<1>1. /\ sigFile \in Nat /\ sigFile > 0 /\ Divides(SigPage, sigFile)
      /\ segs[7].file + link.len <= sigFile
      /\ IsSeq(cmds) /\ Len(cmds) = 13 /\ Sized(cmds)
  BY LayoutCommands
<1>2. DOMAIN cmds = 1 .. 13 BY <1>1, SeqParts
<1>3. PICK f : f = SizesOf(cmds) /\ f = [i \in DOMAIN cmds |-> cmds[i].size] BY DEF SizesOf
<1>4. \A i \in 1 .. 13 : f[i] = cmds[i].size BY <1>2, <1>3
<1>5. Total(f, 13) = CmdSize BY <1>1, <1>4, CommandsTotal
<1>6. \A i \in 1 .. 13 : cmds[i].size \in Nat
  <2>1. \A i \in 1 .. 13 : i \in {1, 2, 3, 4, 5, 6, 7, 8, 9, 10, 11, 12, 13} OBVIOUS
  <2>2. /\ SegCmd \in Nat /\ SegCmd + Sect \in Nat /\ DylinkerCmd \in Nat /\ DylibCmd \in Nat
        /\ LinkCmd \in Nat /\ MainCmd \in Nat /\ BuildCmd \in Nat
    BY DEF SegCmd, Sect, DylinkerCmd, DylibCmd, LinkCmd, MainCmd, BuildCmd
  <2> QED BY <2>1, <2>2, <1>1 DEF Sized
<1>7. HeadSize + Total(SizesOf(cmds), Len(cmds)) <= CodeFile
  <2>1. HeadSize + CmdSize \in Nat
    BY DEF HeadSize, CmdSize, SegCmd, Sect, LinkCmd, DylinkerCmd, DylibCmd, MainCmd, BuildCmd
  <2>2. PICK size \in Nat : size = HeadSize + CmdSize BY <2>1
  <2>3. Page \in Nat \ {0} BY ImageAssumption
  <2>4. AlignUp(size, Page) \in Nat /\ AlignUp(size, Page) >= size BY <2>3, AlignUpAligns
  <2> QED BY <2>2, <2>4, <1>1, <1>3, <1>5 DEF CodeFile, AlignPage
<1>8. /\ Packed(link) /\ Plain(link) /\ Len(link.parts) > 0 /\ link.parts[1].at = 0
      /\ segs[3].file \in Nat /\ segs[4].file \in Nat /\ segs[7].file \in Nat
      /\ CodeFile \in Nat /\ dataTop \in Nat
      /\ CodeFile + len * InstrSize <= segs[3].file
      /\ segs[3].file + dataTop <= segs[4].file
      /\ segs[4].file + Len(externs.addrs) * CellSize <= segs[7].file
  <2>1. 3 \in 1 .. 7 /\ 4 \in 1 .. 7 /\ 7 \in 1 .. 7 OBVIOUS
  <2>2. \A i \in 1 .. 7 : segs[i].file \in Nat BY LayoutSegments
  <2>3. /\ Packed(link) /\ Plain(link) /\ Len(link.parts) > 0 /\ link.parts[1].at = 0
        /\ CodeFile \in Nat /\ dataTop \in Nat
        /\ CodeFile + len * InstrSize <= segs[3].file
        /\ segs[3].file + dataTop <= segs[4].file
        /\ segs[4].file + Len(externs.addrs) * CellSize <= segs[7].file
    BY LayoutSegments
  <2> QED BY <2>1, <2>2, <2>3
<1>9. \A i \in DOMAIN cmds : cmds[i].size \in Nat BY <1>2, <1>6
<1>10. HeadFits(cmds) BY <1>1, <1>7, <1>9 DEF HeadFits
<1>11. LinkFits(link) BY <1>8 DEF LinkFits
<1>12. SectionsFit(segs, link, len, sigFile) BY <1>1, <1>8 DEF SectionsFit
<1>13. PICK tail : /\ Packed(tail) /\ Plain(tail) /\ tail.len = sigFile
                   /\ file = PutAll(tail, Signature(sigFile))
                   /\ Contents(tail, segs, link, len)
  BY <1>1, <1>8, <1>10, <1>11, <1>12, FileIs, SMTT(30)
<1>14. /\ Packed(file) /\ file.len = sigFile + SignatureSize(sigFile)
       /\ Hashed(file, sigFile) /\ Grows(tail, file)
  BY <1>1, <1>13, SignatureIs
<1>15. Contents(file, segs, link, len)
  BY <1>13, <1>14, TextOn, DataOn, GotOn, LinkOn DEF Contents
<1> QED BY <1>1, <1>3, <1>5, <1>14, <1>15

(* A command which is there once is found. *)
OnlyAt(cmds, i, c) ==
  cmds[i].cmd = c /\ \A j \in 1 .. 13 : cmds[j].cmd = c => j = i

LEMMA CommandFound ==
  ASSUME NEW img, NEW cmds, img.cmds = cmds, DOMAIN cmds = 1 .. 13, NEW i \in 1 .. 13, NEW c,
         OnlyAt(cmds, i, c)
  PROVE  Command(img, c) = cmds[i]
<1>1. ToSet(cmds) = {cmds[j] : j \in 1 .. 13} BY DEF ToSet
<1>2. cmds[i] \in ToSet(cmds) BY <1>1
<1>3. \A d \in ToSet(cmds) : d.cmd = c => d = cmds[i] BY <1>1 DEF OnlyAt
<1>4. (CHOOSE d \in ToSet(cmds) : d.cmd = c) = cmds[i] BY <1>2, <1>3 DEF OnlyAt
<1> QED BY <1>4 DEF Command

LEMMA BuiltLayout ==
  ASSUME NEW entry, NEW len, NEW img, img = Executable(entry, len), img.result = "built",
         NEW link, NEW segs, NEW sigFile, NEW cmds,
         Layout(len, entry, link, segs, sigFile, cmds)
  PROVE  img.cmds = cmds /\ img.file = File(segs, link, cmds, len, sigFile)
<1>1. link = Linkedit BY DEF Layout
<1>2. segs = Segments(len * InstrSize, dataTop, Len(externs.addrs) * CellSize, link.len)
  BY DEF Layout
<1>3. sigFile = segs[7].file + AlignPage(link.len) BY DEF Layout
<1>4. cmds = Commands(segs, entry, sigFile) BY DEF Layout
<1> QED BY <1>1, <1>2, <1>3, <1>4, BuiltParts

LEMMA InvSigned == Inv => Signed
<1> SUFFICES ASSUME Inv, Built PROVE Signed BY DEF Signed
<1>1. SlotsAre /\ DataInv /\ execLen \in Nat /\ execLen <= CodeLen BY CodeFits DEF Inv
<1>2. Executable(image.entry, execLen).result = "built"
  <2>1. ImageIs /\ image.result = "built" BY DEF Inv, Built
  <2>2. BuiltIs BY <2>1 DEF ImageIs, Idle, NoImage
  <2> QED BY <2>2 DEF BuiltIs
<1>3. PICK entry, len : entry = image.entry /\ len = execLen OBVIOUS
<1>4. PICK img : img = Executable(entry, len) /\ img = Written BY <1>3 DEF Written
<1>5. img.result = "built" BY <1>2, <1>3, <1>4
<1>6. PICK link : link = Linkedit OBVIOUS
<1>7. PICK segs :
        segs = Segments(len * InstrSize, dataTop, Len(externs.addrs) * CellSize, link.len)
  OBVIOUS
<1>8. PICK sigFile : sigFile = segs[7].file + AlignPage(link.len) OBVIOUS
<1>9. PICK cmds : cmds = Commands(segs, entry, sigFile) OBVIOUS
<1>10. Layout(len, entry, link, segs, sigFile, cmds) BY <1>6, <1>7, <1>8, <1>9 DEF Layout
<1>11. img.cmds = cmds /\ img.file = File(segs, link, cmds, len, sigFile)
  <2>1. img = Executable(entry, len) BY <1>4
  <2> QED BY <2>1, <1>5, <1>10, BuiltLayout
<1>12. PICK file : file = img.file /\ file = File(segs, link, cmds, len, sigFile) BY <1>11
<1>13. len \in Nat /\ len <= CodeLen BY <1>1, <1>3
<1>14. /\ Packed(file) /\ file.len = sigFile + SignatureSize(sigFile)
       /\ Hashed(file, sigFile)
  <2>1. file = File(segs, link, cmds, len, sigFile) BY <1>12
  <2>2. SlotsAre /\ DataInv BY <1>1
  <2> QED BY <2>1, <2>2, <1>10, <1>13, LayoutFile
<1>15. /\ sigFile \in Nat /\ Divides(SigPage, sigFile) /\ segs[7].file + link.len <= sigFile
  BY <1>1, <1>10, <1>13, LayoutCommands
<1>16. /\ DOMAIN cmds = 1 .. 13
       /\ \A i \in 1 .. 13 : /\ cmds[i].cmd = "fixups" => i = 10
                             /\ cmds[i].cmd = "signature" => i = 13
       /\ cmds[10].cmd = "fixups" /\ cmds[13].cmd = "signature"
       /\ cmds[10].off = segs[7].file /\ cmds[10].len = link.len
       /\ cmds[13].off = sigFile /\ cmds[13].len = SignatureSize(sigFile)
  <2>1. /\ IsSeq(segs) /\ Len(segs) = 7 /\ \A i \in 1 .. 7 : segs[i].cmd = "segment"
        /\ segs[7].filesize = link.len
    BY <1>1, <1>10, <1>13, LayoutSegments
  <2> QED BY <2>1, <1>9, CommandsAre
<1>17. PICK sig, fix : sig = cmds[13] /\ fix = cmds[10] OBVIOUS
<1>18. Command(img, "signature") = sig
  <2>1. PICK i \in 1 .. 13 : i = 13 OBVIOUS
  <2>2. PICK c : c = "signature" OBVIOUS
  <2>3. OnlyAt(cmds, i, c) BY <2>1, <2>2, <1>16 DEF OnlyAt
  <2>4. img.cmds = cmds /\ DOMAIN cmds = 1 .. 13 BY <1>11, <1>16
  <2>5. Command(img, c) = cmds[i] BY <2>3, <2>4, CommandFound
  <2> QED BY <2>1, <2>2, <2>5, <1>17
<1>19. Command(img, "fixups") = fix
  <2>1. PICK i \in 1 .. 13 : i = 10 OBVIOUS
  <2>2. PICK c : c = "fixups" OBVIOUS
  <2>3. OnlyAt(cmds, i, c) BY <2>1, <2>2, <1>16 DEF OnlyAt
  <2>4. img.cmds = cmds /\ DOMAIN cmds = 1 .. 13 BY <1>11, <1>16
  <2>5. Command(img, c) = cmds[i] BY <2>3, <2>4, CommandFound
  <2> QED BY <2>1, <2>2, <2>5, <1>17
<1>20. sig.off = sigFile /\ sig.len = SignatureSize(sigFile)
       /\ fix.off + fix.len <= sig.off
  BY <1>15, <1>16, <1>17
<1>21. ASSUME NEW k \in 0 .. (sigFile - 1) \div SigPage
       PROVE  Cardinality({p \in ToSet(file.parts) :
                p.at >= sigFile /\ p.what = [kind |-> "hash", from |-> k * SigPage]}) = 1
  <2>1. PICK what : what = [kind |-> "hash", from |-> k * SigPage] OBVIOUS
  <2>2. PICK i \in 1 .. Len(file.parts) :
          /\ file.parts[i].at >= sigFile /\ file.parts[i].what = what
          /\ \A j \in 1 .. Len(file.parts) : file.parts[j].what = what => j = i
    BY <2>1, <1>14 DEF Hashed
  <2>3. PICK parts : parts = file.parts OBVIOUS
  <2>4. DOMAIN parts = 1 .. Len(parts) BY <2>3, <1>14, SeqParts DEF Packed
  <2>5. {p \in ToSet(parts) : p.at >= sigFile /\ p.what = what} = {parts[i]}
    BY <2>2, <2>3, <2>4 DEF ToSet
  <2>6. PICK one : one = parts[i] OBVIOUS
  <2>7. Cardinality({one}) = 1 BY FS_Singleton
  <2>8. {p \in ToSet(file.parts) :
           p.at >= sigFile /\ p.what = [kind |-> "hash", from |-> k * SigPage]} = {one}
    BY <2>1, <2>3, <2>5, <2>6
  <2> QED BY <2>7, <2>8
<1>22. \A off \in {n * SigPage : n \in 0 .. (sigFile - 1) \div SigPage} :
         Cardinality({p \in ToSet(file.parts) :
                        p.at >= sigFile /\ p.what = [kind |-> "hash", from |-> off]}) = 1
  BY <1>21
<1> QED BY <1>4, <1>12, <1>14, <1>15, <1>18, <1>19, <1>20, <1>22 DEF Signed

(* An executable which was built is as long as its headers say, and signed    *)
(* page by page up to the signature.                                           *)
THEOREM SignedPageByPage == Spec => []Signed
BY AlwaysInv, InvSigned, PTL

----
(* No build is refused by a check of the layout. *)

LEMMA LinkFitsRoom ==
  ASSUME SlotsAre, NEW link, link = Linkedit
  PROVE  LinkVm + AlignPage(link.len) <= SharedBase
<1>1. PICK n \in Nat : Slots(n) /\ n = Len(externs.names)
  <2>1. Len(externs.names) \in Nat BY SeqParts DEF SlotsAre
  <2> QED BY <2>1 DEF Slots
<1>2. Packed(link) /\ link.len <= 73 + n * 4 + n * (MaxName + 2)
  <2>1. MaxName \in Nat /\ \A m \in Names : NameLen[m] <= MaxName BY ImageAssumption
  <2>2. Slots(n) BY <1>1
  <2> QED BY <2>1, <2>2, LinkeditIs
<1>3. n <= SlotCap /\ SlotCap \in Nat BY <1>1, SlotCapIs DEF SlotsAre
<1>4. PICK len \in Nat : len = link.len BY <1>2 DEF Packed
<1>5. PICK max \in Nat : max = LinkMax /\ len <= max
  <2>1. PICK c \in Nat, b \in Nat : c = MaxName + 2 /\ b = SlotCap BY <1>3, ImageAssumption
  <2>2. n * c \in Nat /\ b * c \in Nat /\ c * b \in Nat /\ n * c <= c * b BY <1>3, <2>1
  <2>3. LinkMax = 73 + 4 * b + c * b
    BY <2>1, <2>2 DEF LinkMax, ImportsOff, FixHead, FixImg, FixSeg, FixImport
  <2>4. len <= 73 + n * 4 + n * c BY <1>2, <1>4, <2>1
  <2> QED BY <1>3, <2>1, <2>2, <2>3, <2>4
<1>6. AlignPage(len) \in Nat /\ AlignPage(len) <= AlignPage(max)
  <2>1. Page \in Nat \ {0} BY ImageAssumption
  <2>2. PICK top : top = AlignUp(max, Page) OBVIOUS
  <2>3. top \in Nat /\ top >= max /\ Divides(Page, top) BY <2>1, <2>2, AlignUpAligns
  <2>4. AlignUp(len, Page) <= top /\ AlignUp(len, Page) \in Nat
    BY <1>5, <2>1, <2>3, AlignUpAligns, AlignUpBelow
  <2> QED BY <2>2, <2>4 DEF AlignPage
<1>7. LinkVm + AlignPage(max) <= SharedBase BY <1>5, RoomAssumption
<1>8. LinkVm \in Nat /\ SharedBase \in Nat /\ AlignPage(max) \in Nat
  <2>1. CellsLen \in Nat /\ Page \in Nat \ {0} /\ SharedBase \in Nat BY ImageAssumption
  <2>2. LinkVm = SectionVm(OffCells) + CellsLen + Page /\ SectionVm(OffCells) \in Nat
    BY PlacesAre
  <2>3. AlignPage(max) \in Nat BY <2>1, AlignUpAligns DEF AlignPage
  <2> QED BY <2>1, <2>2, <2>3
<1> QED BY <1>4, <1>6, <1>7, <1>8

(* The code behind the headers ends before the data. *)
LEMMA TextFits ==
  ASSUME NEW len \in Nat, len <= CodeLen
  PROVE  CodeVm + AlignPage(CodeFile + len * InstrSize) <= SectionVm(OffData)
<1>1. Page \in Nat \ {0} /\ CodeLen \in Nat /\ InstrSize \in Nat /\ PageZero \in Nat
  BY ImageAssumption
<1>2. PICK full \in Nat : full = CodeLen * InstrSize /\ Divides(Page, full)
  BY ImageAssumption
<1>3. PICK size \in Nat : size = len * InstrSize /\ size <= full BY <1>1, <1>2
<1>4. CodeFile \in Nat /\ CodeFile <= Page
  <2>1. HeadSize + CmdSize \in Nat
    BY DEF HeadSize, CmdSize, SegCmd, Sect, LinkCmd, DylinkerCmd, DylibCmd, MainCmd, BuildCmd
  <2>2. PICK head \in Nat : head = HeadSize + CmdSize BY <2>1
  <2>3. head <= Page BY <2>2, RoomAssumption
  <2>4. Divides(Page, Page) BY <1>1 DEF Divides
  <2>5. AlignUp(head, Page) <= Page /\ AlignUp(head, Page) \in Nat
    BY <1>1, <2>3, <2>4, AlignUpBelow, AlignUpAligns
  <2> QED BY <2>2, <2>5 DEF CodeFile, AlignPage
<1>5. Divides(Page, full + Page)
  <2>1. Divides(Page, Page) BY <1>1 DEF Divides
  <2> QED BY <1>1, <1>2, <2>1, DividesPlus
<1>6. PICK all \in Nat : all = CodeFile + size /\ all <= full + Page BY <1>1, <1>3, <1>4
<1>7. AlignUp(all, Page) <= full + Page /\ AlignUp(all, Page) \in Nat
  <2>1. full + Page \in Nat BY <1>1
  <2> QED BY <1>1, <1>5, <1>6, <2>1, AlignUpBelow, AlignUpAligns
<1>8. CodeVm \in Nat BY <1>1, <1>4 DEF CodeVm, TextVm
<1>9. SectionVm(OffData) = CodeVm + full + Page
  BY <1>1, <1>2, <1>8 DEF SectionVm, OffData, OffCode
<1> QED BY <1>1, <1>3, <1>6, <1>7, <1>8, <1>9 DEF AlignPage

LEMMA LayoutAsserted ==
  ASSUME SlotsAre, DataInv, NEW len \in Nat, len <= CodeLen, NEW entry, NEW link, NEW segs,
         NEW sigFile, NEW cmds, Layout(len, entry, link, segs, sigFile, cmds)
  PROVE  Asserted(segs, link, sigFile, cmds)
<1>1. /\ \A i \in 1 .. 7 : /\ Divides(Page, segs[i].vm) /\ Divides(Page, segs[i].vmsize)
                           /\ Divides(Page, segs[i].file)
      /\ \A i \in 1 .. 6 : segs[i].vm + segs[i].vmsize <= segs[i + 1].vm
      /\ segs[2].vmsize = AlignPage(CodeFile + len * InstrSize)
      /\ segs[3].vm = SectionVm(OffData) /\ segs[7].vmsize = AlignPage(link.len)
      /\ link.parts[Len(externs.names) + 4].at = SymbolsOff
  BY LayoutSegments
<1>2. \A i \in 2 .. 6 : \A n \in {segs[i].vm, segs[i].vmsize, segs[i].file} : Divides(Page, n)
  <2>1. \A i \in 2 .. 6 : i \in 1 .. 7 OBVIOUS
  <2> QED BY <1>1, <2>1
<1>3. CodeVm + segs[2].vmsize <= segs[3].vm BY <1>1, TextFits
<1>4. \A i \in 3 .. 4 : segs[i].vm + segs[i].vmsize <= segs[i + 1].vm
  <2>1. \A i \in 3 .. 4 : i \in 1 .. 6 OBVIOUS
  <2> QED BY <1>1, <2>1
<1>5. LinkVm + segs[7].vmsize <= SharedBase
  <2>1. link = Linkedit BY DEF Layout
  <2>2. LinkVm + AlignPage(link.len) <= SharedBase BY <2>1, LinkFitsRoom
  <2> QED BY <1>1, <2>2
<1>6. Total([i \in DOMAIN cmds |-> cmds[i].size], Len(cmds)) = CmdSize
  <2>1. PICK file : file = File(segs, link, cmds, len, sigFile) OBVIOUS
  <2>2. Total(SizesOf(cmds), Len(cmds)) = CmdSize BY <2>1, LayoutFile
  <2> QED BY <2>2 DEF SizesOf
<1>7. Divides(SigPage, sigFile) BY LayoutCommands
<1> QED BY <1>1, <1>2, <1>3, <1>4, <1>5, <1>6, <1>7 DEF Asserted

LEMMA ExecutableBuilt ==
  ASSUME SlotsAre, DataInv, NEW len \in Nat, len <= CodeLen, NEW entry
  PROVE  Executable(entry, len).result = "built"
<1>1. PICK link : link = Linkedit OBVIOUS
<1>2. PICK segs :
        segs = Segments(len * InstrSize, dataTop, Len(externs.addrs) * CellSize, link.len)
  OBVIOUS
<1>3. PICK sigFile : sigFile = segs[7].file + AlignPage(link.len) OBVIOUS
<1>4. PICK cmds : cmds = Commands(segs, entry, sigFile) OBVIOUS
<1>5. PICK file : file = File(segs, link, cmds, len, sigFile) OBVIOUS
<1>6. Layout(len, entry, link, segs, sigFile, cmds) BY <1>1, <1>2, <1>3, <1>4 DEF Layout
<1>7. Asserted(segs, link, sigFile, cmds) BY <1>6, LayoutAsserted
<1>8. Packed(file) BY <1>5, <1>6, LayoutFile
<1>9. \A part \in ToSet(file.parts) : part.size >= 0
  <2>1. PICK parts : parts = file.parts OBVIOUS
  <2>2. /\ DOMAIN parts = 1 .. Len(parts)
        /\ \A i \in 1 .. Len(parts) : parts[i].size \in Nat
    BY <1>8, <2>1, SeqParts DEF Packed
  <2> QED BY <2>1, <2>2 DEF ToSet
<1>10. Executable(entry, len) = [result |-> "built", cmds |-> cmds, file |-> file]
  BY <1>1, <1>2, <1>3, <1>4, <1>5, <1>7, <1>9 DEF Executable
<1> QED BY <1>10

LEMMA NoAssertionNext == Inv /\ NoAssertion /\ [Next]_vars => NoAssertion'
<1> SUFFICES ASSUME Inv, NoAssertion, [Next]_vars PROVE NoAssertion' OBVIOUS
<1>1. CASE UNCHANGED image BY <1>1 DEF NoAssertion
<1>2. ASSUME NEW k \in DOMAIN words, CompileExecutable(k) PROVE NoAssertion'
  <2>1. Synced \in Nat /\ Synced <= CodeLen BY CodeFits DEF Inv
  <2>2. PICK n \in Nat : n = Synced /\ n <= CodeLen BY <2>1
  <2>3. Executable(k, n).result = "built" BY <2>2, ExecutableBuilt DEF Inv
  <2>4. PICK result : result = Executable(k, Synced).result OBVIOUS
  <2>5. PICK refused :
          /\ refused = IF ~ValidMain(k) THEN "invalid"
                       ELSE IF ~CalleesCanCompile(k) THEN "interpreter only"
                       ELSE result
          /\ IF refused # "built" THEN image' = [result |-> refused] /\ UNCHANGED disk
             ELSE \E failing \in SUBSET WriteSteps : WriteFile(k, failing)
    BY <1>2, <2>4 DEF CompileExecutable
  <2>6. result = "built" BY <2>2, <2>3, <2>4
  <2>7. CASE refused # "built"
    <3>1. refused \in {"invalid", "interpreter only"} BY <2>5, <2>6, <2>7
    <3>2. image' = [result |-> refused] BY <2>5, <2>7
    <3>3. image'.result = refused BY <3>2
    <3> QED BY <3>1, <3>3 DEF NoAssertion
  <2>8. CASE refused = "built"
    <3>1. PICK failing \in SUBSET WriteSteps : WriteFile(k, failing) BY <2>5, <2>8
    <3>2. image'.result = "not written" \/ image' = [result |-> "built", entry |-> k]
      BY <3>1, WrittenIs
    <3>3. CASE image'.result = "not written" BY <3>3 DEF NoAssertion
    <3>4. CASE image' = [result |-> "built", entry |-> k]
      <4>1. image'.result = "built" BY <3>4
      <4> QED BY <4>1 DEF NoAssertion
    <3> QED BY <3>2, <3>3, <3>4
  <2> QED BY <2>7, <2>8
<1>3. UNCHANGED image \/ \E k \in DOMAIN words : CompileExecutable(k)
  BY DEF Next, vars, Begin, Fail, CallIntrin, InterpOnly, Recur, CallWord, ExternAdr,
         ExternFun, CallExtern, LoadData, End, AllocData, Compiling
<1> QED BY <1>1, <1>2, <1>3

(* However full the heaps are, no allowed entry is refused by a check of the  *)
(* layout: the checks of compile_mach_executable cannot fail.                  *)
THEOREM NothingIsRefused == Spec => []NoAssertion
<1>1. Init => NoAssertion BY DEF Init, NoAssertion, NoImage
<1> QED BY <1>1, AlwaysInv, NoAssertionNext, PTL DEF Spec

----
(* The loaded executable: what can run is code of finished words. *)

(* A branch lands on the start of one word. *)
LEMMA OneStart ==
  ASSUME CodeIs, NEW k \in DOMAIN words
  PROVE  Starts(words[k].first) = {k}
<1>1. DOMAIN words = 1 .. Len(words) /\ Len(words) \in Nat BY SeqLength
<1>2. ASSUME NEW j \in DOMAIN words, NEW m \in DOMAIN words, j < m
      PROVE  words[j].first # words[m].first
  <2>1. WordIs(j) /\ WordIs(m) BY DEF CodeIs
  <2>2. j \in 1 .. m - 1 BY <1>1, <1>2
  <2>3. words[j].ret < words[m].first BY <2>1, <2>2 DEF WordIs
  <2>4. words[j].first \in Nat /\ words[j].ret \in Nat /\ words[m].first \in Nat
        /\ words[j].first <= words[j].ret
    BY <2>1 DEF WordIs
  <2> QED BY <2>3, <2>4
<1>3. \A j \in DOMAIN words : j < k \/ j = k \/ k < j BY <1>1
<1>4. \A j \in DOMAIN words : words[j].first = words[k].first => j = k BY <1>2, <1>3
<1> QED BY <1>4 DEF Starts

LEMMA TargetsStart ==
  ASSUME CodeIs, NEW entry, NEW ws, Closed(entry, ws), NEW k \in ws, NEW i \in Targets(k)
  PROVE  Starts(i) # {} /\ Starts(i) \subseteq ws
<1>1. k \in DOMAIN words BY DEF Closed
<1>2. PICK j \in Body(k) : code[j].op = "bl" /\ i = j + code[j].off BY DEF Targets
<1>3. WordIs(k) BY <1>1 DEF CodeIs
<1>4. PICK x : x = code[j] OBVIOUS
<1>5. Covered(x, j, words, words[k].callees, words[k].loads)
  BY <1>2, <1>3, <1>4 DEF WordIs, Body
<1>6. PICK m \in DOMAIN words : i = words[m].first /\ WordNo(m) \in words[k].callees
  BY <1>2, <1>4, <1>5 DEF Covered
<1>7. Starts(i) = {m} BY <1>6, OneStart
<1>8. m \in ws BY <1>6 DEF Closed
<1> QED BY <1>7, <1>8

LEMMA ReachedStays ==
  ASSUME CodeIs, NEW entry, NEW ws, Closed(entry, ws)
  PROVE  Reached(entry) \subseteq ws
<1> DEFINE Step(X) == X \cup UNION {Starts(i) : i \in UNION {Targets(k) : k \in X}}
<1>1. \A X \in SUBSET ws : Step(X) \in SUBSET ws
  <2> SUFFICES ASSUME NEW X \in SUBSET ws, NEW m \in Step(X) PROVE m \in ws OBVIOUS
  <2>1. CASE m \in X BY <2>1
  <2>2. CASE m \notin X
    <3>1. PICK k \in X : \E i \in Targets(k) : m \in Starts(i) BY <2>2
    <3>2. PICK i \in Targets(k) : m \in Starts(i) BY <3>1
    <3>3. k \in ws OBVIOUS
    <3>4. Starts(i) \subseteq ws BY <3>2, <3>3, TargetsStart
    <3> QED BY <3>2, <3>4
  <2> QED BY <2>1, <2>2
<1> HIDE DEF Step
<1>2. PICK G : G = [X \in SUBSET ws |-> Step(X)] OBVIOUS
<1>3. G \in [SUBSET ws -> SUBSET ws] BY <1>1, <1>2
<1>4. {entry} \in SUBSET ws BY DEF Closed
<1>5. PICK f \in [Nat -> SUBSET ws] : f = [n \in Nat |-> IF n = 0 THEN {entry} ELSE G[f[n - 1]]]
  <2>1. PICK f : Repeats(f, SUBSET ws, {entry}, G) BY <1>3, <1>4, Iterated
  <2> QED BY <2>1 DEF Repeats
<1>6. f = [n \in Nat |-> IF n = 0 THEN {entry} ELSE Step(f[n - 1])]
  <2>1. ASSUME NEW n \in Nat PROVE f[n] = IF n = 0 THEN {entry} ELSE Step(f[n - 1])
    <3>1. CASE n = 0 BY <3>1, <1>5
    <3>2. CASE n # 0
      <4>1. n - 1 \in Nat BY <3>2
      <4>2. f[n - 1] \in SUBSET ws BY <4>1
      <4>3. f[n] = G[f[n - 1]] BY <3>2, <1>5
      <4> QED BY <4>2, <4>3, <3>2, <1>2
    <3> QED BY <3>1, <3>2
  <2> QED BY <2>1
<1> DEFINE UpTo[n \in Nat] == IF n = 0 THEN {entry} ELSE Step(UpTo[n - 1])
<1>7. UpTo = [n \in Nat |-> IF n = 0 THEN {entry} ELSE Step(UpTo[n - 1])] BY <1>6
<1>8. Reached(entry) = UpTo[Len(words)] BY DEF Reached, Step
<1> HIDE DEF UpTo
<1>9. \A n \in Nat : UpTo[n] \in SUBSET ws
  <2> DEFINE T == {n \in Nat : UpTo[n] \in SUBSET ws}
  <2>1. 0 \in T BY <1>4, <1>7
  <2>2. ASSUME NEW n \in Nat, n \in T PROVE n + 1 \in T
    <3>1. n + 1 \in Nat /\ n + 1 # 0 /\ (n + 1) - 1 = n OBVIOUS
    <3>2. UpTo[n + 1] = Step(UpTo[n]) BY <3>1, <1>7
    <3> QED BY <3>2, <2>2, <1>1
  <2>3. \A n \in Nat : n \in T
    <3> HIDE DEF T
    <3> QED BY <2>1, <2>2, Induct
  <2> QED BY <2>3
<1>10. Len(words) \in Nat BY SeqLength
<1> QED BY <1>8, <1>9, <1>10

----
(* What is found at an offset of the file. *)

LEMMA PartsFollow ==
  ASSUME NEW buf, Packed(buf), NEW i \in 1 .. Len(buf.parts), NEW j \in 1 .. Len(buf.parts),
         i < j
  PROVE  buf.parts[i].at + buf.parts[i].size <= buf.parts[j].at
<1>1. PICK n \in Nat : n = Len(buf.parts) BY SeqParts DEF Packed
<1>2. PICK p : p = buf.parts OBVIOUS
<1>3. \A k \in 1 .. n : /\ p[k].at \in Nat /\ p[k].size \in Nat
                        /\ k # n => p[k].at + p[k].size = p[k + 1].at
  BY <1>1, <1>2 DEF Packed
<1>4. PICK end \in Nat : end = p[i].at + p[i].size
  <2>1. i \in 1 .. n BY <1>1
  <2>2. p[i].at \in Nat /\ p[i].size \in Nat BY <2>1, <1>3
  <2> QED BY <2>2
<1> DEFINE S == {d \in 0 .. n : i + 1 + d <= n => end <= p[i + 1 + d].at}
<1>5. 0 \in S BY <1>1, <1>3, <1>4
<1>6. ASSUME NEW d \in 0 .. n - 1, d \in S PROVE d + 1 \in S
  <2>1. PICK k : k = i + 1 + d OBVIOUS
  <2>2. k \in Nat /\ k >= 1 /\ i + 1 + (d + 1) = k + 1 BY <2>1, <1>1
  <2>3. CASE k + 1 > n BY <2>2, <2>3
  <2>4. CASE k + 1 <= n
    <3>1. k \in 1 .. n /\ k # n /\ end <= p[k].at BY <2>1, <2>2, <2>4, <1>6
    <3>2. p[k].at \in Nat /\ p[k].size \in Nat /\ p[k].at + p[k].size = p[k + 1].at
      BY <3>1, <1>3
    <3>3. end <= p[k + 1].at BY <3>1, <3>2, <1>4
    <3> QED BY <3>3, <2>2
  <2> QED BY <2>2, <2>3, <2>4
<1>7. \A d \in 0 .. n : d \in S
  <2> HIDE DEF S
  <2> QED BY <1>5, <1>6, InductTo
<1>8. PICK d : d = j - i - 1 OBVIOUS
<1>9. d \in 0 .. n /\ i + 1 + d = j /\ j <= n BY <1>1, <1>8
<1>10. end <= p[j].at BY <1>7, <1>9
<1> QED BY <1>2, <1>4, <1>10

LEMMA StoredIs ==
  ASSUME NEW file, Packed(file), NEW at, NEW size, NEW what, Holds(file, at, size, what),
         NEW off \in Int, at <= off, off < at + size
  PROVE  Stored(file, off) = [what |-> what, rest |-> off - at]
<1>1. PICK p : p = file.parts OBVIOUS
<1>2. PICK n \in Nat : n = Len(p) /\ DOMAIN p = 1 .. n BY <1>1, SeqParts DEF Packed
<1>3. PICK i \in 1 .. n : p[i].at = at /\ p[i].size = size /\ p[i].what = what
  BY <1>1, <1>2 DEF Holds
<1>4. \A k \in 1 .. n : p[k].at \in Nat /\ p[k].size \in Nat BY <1>1, <1>2 DEF Packed
<1>5. ASSUME NEW k \in 1 .. n, p[k].at <= off, off < p[k].at + p[k].size PROVE k = i
  <2>1. CASE k < i
    <3>1. p[k].at + p[k].size <= p[i].at BY <2>1, <1>1, <1>2, PartsFollow
    <3> QED BY <3>1, <1>3, <1>4, <1>5
  <2>2. CASE i < k
    <3>1. p[i].at + p[i].size <= p[k].at BY <2>2, <1>1, <1>2, PartsFollow
    <3> QED BY <3>1, <1>3, <1>4, <1>5
  <2> QED BY <2>1, <2>2
<1>6. PICK q : q = p[i] OBVIOUS
<1>7. q.at = at /\ q.size = size /\ q.what = what BY <1>3, <1>6
<1>8. PartsAt(file, off) = {q}
  <2>1. ToSet(p) = {p[k] : k \in 1 .. n} BY <1>2 DEF ToSet
  <2>2. q \in ToSet(p) BY <2>1, <1>6
  <2>3. \A r \in ToSet(p) : r.at <= off /\ off < r.at + r.size => r = q
    BY <2>1, <1>5, <1>6
  <2> QED BY <2>2, <2>3, <1>1, <1>7 DEF PartsAt
<1>9. (CHOOSE r \in PartsAt(file, off) : TRUE) = q BY <1>8
<1>10. PartsAt(file, off) # {} BY <1>8
<1>11. Stored(file, off) = [what |-> q.what, rest |-> off - q.at]
  BY <1>9, <1>10 DEF Stored
<1> QED BY <1>7, <1>11

(* What is mapped in a segment is what the file holds for it. *)
LEMMA MappedIs ==
  ASSUME NEW img, NEW c, NEW adr \in Int, SegmentsAt(img, adr) = {c}, c.vm \in Int,
         adr - c.vm < c.filesize
  PROVE  Mapped(img, adr) = Stored(img.file, c.file + adr - c.vm)
<1>1. Cardinality(SegmentsAt(img, adr)) = 1 BY FS_Singleton
<1>2. (CHOOSE s \in SegmentsAt(img, adr) : TRUE) = c OBVIOUS
<1> QED BY <1>1, <1>2 DEF Mapped

ImageOf(img, cmds, file) == SegmentsInOrder(img, cmds) /\ img.file = file /\ Packed(file)

Placed(c, vm, start, full) ==
  c.vm = vm /\ c.file = start /\ c.filesize = full /\ full <= c.vmsize

Maps(img, adr, what, off) == Mapped(img, adr) = [what |-> what, rest |-> off]

(* What a segment maps: part of the file, as far as it is stored there. *)
LEMMA InSegment ==
  ASSUME NEW img, NEW cmds, NEW file, ImageOf(img, cmds, file), NEW i \in 1 .. 7,
         NEW vm \in Nat, NEW start \in Nat, NEW full \in Nat, Placed(cmds[i], vm, start, full),
         NEW rel \in Nat, NEW at, at = start + rel, NEW size \in Nat, NEW what,
         Holds(file, at, size, what), rel + size <= full,
         NEW off \in Nat, off < size
  PROVE  Maps(img, vm + rel + off, what, off)
<1>0. PICK c : c = cmds[i] OBVIOUS
<1>1. PICK adr \in Nat : adr = vm + rel + off OBVIOUS
<1>2. /\ c.vmsize \in Nat /\ c.vm = vm /\ c.file = start /\ c.filesize = full
      /\ full <= c.vmsize /\ SegmentsInOrder(img, cmds) /\ img.file = file /\ Packed(file)
  BY <1>0 DEF ImageOf, Placed, SegmentsInOrder
<1>3. cmds[i].vm <= adr /\ adr < cmds[i].vm + cmds[i].vmsize BY <1>0, <1>1, <1>2
<1>4. adr \in Int BY <1>1
<1>5. SegmentsAt(img, adr) = {c} BY <1>0, <1>2, <1>3, <1>4, SegmentsFound
<1>6. adr - c.vm < c.filesize /\ c.vm \in Int BY <1>1, <1>2
<1>7. Mapped(img, adr) = Stored(img.file, c.file + adr - c.vm) BY <1>4, <1>5, <1>6, MappedIs
<1>8. c.file + adr - c.vm = at + off /\ at \in Nat BY <1>1, <1>2
<1>9. PICK o : o = at + off OBVIOUS
<1>10. o \in Int /\ at <= o /\ o < at + size /\ o - at = off BY <1>8, <1>9
<1>11. Stored(file, o) = [what |-> what, rest |-> o - at] BY <1>2, <1>10, StoredIs
<1> QED BY <1>1, <1>2, <1>7, <1>8, <1>9, <1>10, <1>11 DEF Maps

(* Where the sections which are stored are. *)
SectionsLie(segs, n) ==
  /\ segs[2].vm = TextVm /\ segs[2].file = 0 /\ segs[2].filesize = segs[2].vmsize
  /\ CodeFile + n * InstrSize <= segs[2].filesize
  /\ segs[3].vm = SectionVm(OffData) /\ segs[3].filesize = segs[3].vmsize
  /\ dataTop <= segs[3].filesize
  /\ segs[4].vm = SectionVm(OffExterns) /\ segs[4].filesize = segs[4].vmsize
  /\ Len(externs.addrs) * CellSize <= segs[4].filesize

LEMMA LayoutSections ==
  ASSUME SlotsAre, DataInv, NEW len \in Nat, len <= CodeLen, NEW entry, NEW link, NEW segs,
         NEW sigFile, NEW cmds, Layout(len, entry, link, segs, sigFile, cmds)
  PROVE  SectionsLie(segs, len)
<1>1. PICK codeLen \in Nat, dataLen \in Nat, gotLen \in Nat :
        /\ codeLen = len * InstrSize /\ dataLen = dataTop
        /\ gotLen = Len(externs.addrs) * CellSize
  BY LengthsFit
<1>2. PICK linkLen : linkLen = link.len OBVIOUS
<1>3. segs = Segments(codeLen, dataLen, gotLen, linkLen) BY <1>1, <1>2 DEF Layout
<1>4. PICK textSize : textSize = AlignPage(CodeFile + codeLen) OBVIOUS
<1>5. /\ segs[2].vm = TextVm /\ segs[2].vmsize = textSize
      /\ segs[2].file = 0 /\ segs[2].filesize = textSize
      /\ segs[3].vm = SectionVm(OffData)
      /\ segs[3].vmsize = AlignPage(dataLen) /\ segs[3].filesize = AlignPage(dataLen)
      /\ segs[4].vm = SectionVm(OffExterns) /\ segs[4].vmsize = AlignPage(gotLen)
      /\ segs[4].filesize = AlignPage(gotLen)
  BY <1>3, <1>4, SegmentsAre
<1>6. Page \in Nat \ {0} BY ImageAssumption
<1>7. CodeFile \in Nat BY LayoutSegments
<1>8. textSize >= CodeFile + codeLen /\ AlignPage(dataLen) >= dataLen
      /\ AlignPage(gotLen) >= gotLen
  <2>1. CodeFile + codeLen \in Nat BY <1>7
  <2> QED BY <2>1, <1>4, <1>6, AlignUpAligns DEF AlignPage
<1>9. CodeFile + codeLen <= segs[2].filesize /\ dataLen <= segs[3].filesize
      /\ gotLen <= segs[4].filesize
  <2>1. textSize \in Nat /\ AlignPage(dataLen) \in Nat /\ AlignPage(gotLen) \in Nat
    <3>1. CodeFile + codeLen \in Nat BY <1>7
    <3> QED BY <3>1, <1>4, <1>6, AlignUpAligns DEF AlignPage
  <2> QED BY <2>1, <1>5, <1>7, <1>8
<1> QED BY <1>1, <1>5, <1>9 DEF SectionsLie

LEMMA LayoutInOrder ==
  ASSUME SlotsAre, DataInv, NEW len \in Nat, len <= CodeLen, NEW entry, NEW link, NEW segs,
         NEW sigFile, NEW cmds, Layout(len, entry, link, segs, sigFile, cmds),
         NEW img, img.cmds = cmds
  PROVE  /\ SegmentsInOrder(img, cmds)
         /\ \A i \in 1 .. 7 : /\ cmds[i] = segs[i] /\ segs[i].vm \in Nat /\ segs[i].vmsize \in Nat
                              /\ segs[i].file \in Nat /\ segs[i].filesize \in Nat
<1>1. PICK codeLen \in Nat, dataLen \in Nat, gotLen \in Nat :
        /\ codeLen = len * InstrSize /\ codeLen <= CodeLen * InstrSize
        /\ dataLen = dataTop /\ dataLen <= DataLen
        /\ gotLen = Len(externs.addrs) * CellSize /\ gotLen <= Page
  BY LengthsFit
<1>2. Packed(link) BY LayoutSegments
<1>3. PICK linkLen \in Nat : linkLen = link.len BY <1>2 DEF Packed
<1>4. segs = Segments(codeLen, dataLen, gotLen, linkLen) BY <1>1, <1>3 DEF Layout
<1>5. /\ \A i, j \in 1 .. 7 : i < j => segs[i].vm + segs[i].vmsize <= segs[j].vm
      /\ \A i \in 1 .. 7 :
           /\ segs[i].vm \in Nat /\ segs[i].vmsize \in Nat
           /\ segs[i].file \in Nat /\ segs[i].filesize \in Nat
  BY <1>1, <1>4, SegmentsLie
<1>6. IsSeq(segs) /\ Len(segs) = 7 /\ \A i \in 1 .. 7 : segs[i].cmd = "segment"
  BY LayoutSegments
<1>7. /\ DOMAIN cmds = 1 .. 13
      /\ \A i \in 1 .. 7 : cmds[i] = segs[i]
      /\ \A i \in 1 .. 13 : cmds[i].cmd = "segment" => i \in 1 .. 7
  <2>1. cmds = Commands(segs, entry, sigFile) BY DEF Layout
  <2> QED BY <2>1, <1>6, CommandsAre
<1>8. \A i \in 1 .. 13 : cmds[i].cmd = "segment" <=> i \in 1 .. 7 BY <1>6, <1>7
<1>9. SegmentsInOrder(img, cmds)
  <2>1. \A i \in 1 .. 7 : cmds[i].vm \in Nat /\ cmds[i].vmsize \in Nat BY <1>5, <1>7
  <2>2. \A i, j \in 1 .. 7 : i < j => cmds[i].vm + cmds[i].vmsize <= cmds[j].vm
    BY <1>5, <1>7
  <2> QED BY <2>1, <2>2, <1>7, <1>8 DEF SegmentsInOrder
<1> QED BY <1>5, <1>7, <1>9

----
(* What the loaded executable has where. *)

CodeMapped(img, n) ==
  \A i \in 1 .. n : Mapped(img, CodeVm + (i - 1) * InstrSize) = [what |-> Instr(i), rest |-> 0]
DataMapped(img) ==
  \A o \in 0 .. dataTop - 1 :
    Mapped(img, SectionVm(OffData) + o) = [what |-> [kind |-> "data"], rest |-> o]
SlotsMapped(img) ==
  \A k \in 1 .. Len(externs.names) :
    Mapped(img, SectionVm(OffExterns) + (k - 1) * CellSize)
      = [what |-> GotEntry(k).what, rest |-> 0]

LEMMA BuiltMaps ==
  ASSUME SlotsAre, DataInv, NEW len \in Nat, len <= CodeLen, NEW entry, NEW link, NEW segs,
         NEW sigFile, NEW cmds, Layout(len, entry, link, segs, sigFile, cmds),
         NEW img, img.cmds = cmds, img.file = File(segs, link, cmds, len, sigFile)
  PROVE  CodeMapped(img, len) /\ DataMapped(img) /\ SlotsMapped(img)
<1>1. PICK file : file = img.file /\ file = File(segs, link, cmds, len, sigFile) OBVIOUS
<1>2. Packed(file) /\ Contents(file, segs, link, len) BY <1>1, LayoutFile
<1>3. /\ SegmentsInOrder(img, cmds)
      /\ \A i \in 1 .. 7 : /\ cmds[i] = segs[i] /\ segs[i].vm \in Nat /\ segs[i].vmsize \in Nat
                           /\ segs[i].file \in Nat /\ segs[i].filesize \in Nat
  BY LayoutInOrder
<1>4. SectionsLie(segs, len) BY LayoutSections
<1>5. CodeFile \in Nat BY LayoutSegments
<1>6. InstrSize \in Nat \ {0} /\ CellSize \in Nat \ {0} /\ PageZero \in Nat BY ImageAssumption
<1>7. dataTop \in Nat BY LengthsFit
<1>8. ImageOf(img, cmds, file) BY <1>1, <1>2, <1>3 DEF ImageOf
<1>9. ASSUME NEW i \in 1 .. len
      PROVE  Mapped(img, CodeVm + (i - 1) * InstrSize) = [what |-> Instr(i), rest |-> 0]
  <2>1. PICK t \in 1 .. 7 : t = 2 OBVIOUS
  <2>2. PICK c : c = cmds[t] OBVIOUS
  <2>3. c = segs[2] /\ c.vm \in Nat /\ c.filesize \in Nat /\ c.file \in Nat
    BY <2>1, <2>2, <1>3
  <2>4. PICK vm \in Nat, full \in Nat, start \in Nat :
          c.vm = vm /\ c.filesize = full /\ c.file = start /\ full <= c.vmsize
          /\ vm = PageZero /\ start = 0 /\ CodeFile + len * InstrSize <= full
    BY <2>3, <1>4, <1>6 DEF SectionsLie, TextVm
  <2>5. PICK skip \in Nat : skip = (i - 1) * InstrSize /\ skip + InstrSize <= len * InstrSize
    <3>1. i - 1 \in Nat /\ (i - 1) + 1 <= len BY SMT
    <3>2. PICK j \in Nat : j = i - 1 /\ j + 1 <= len BY <3>1
    <3>3. j * InstrSize \in Nat /\ (j + 1) * InstrSize <= len * InstrSize
          /\ (j + 1) * InstrSize = j * InstrSize + InstrSize
      BY <3>2, <1>6
    <3> QED BY <3>2, <3>3
  <2>6. PICK rel \in Nat : rel = CodeFile + skip BY <1>5
  <2>7. PICK what : what = Instr(i) OBVIOUS
  <2>8. Holds(file, CodeFile + skip, InstrSize, what)
    BY <1>2, <2>5, <2>7 DEF Contents, TextHeld
  <2>9. Holds(file, start + rel, InstrSize, what)
    <3>1. start + rel = CodeFile + skip BY <2>4, <2>6, <1>5
    <3> QED BY <3>1, <2>8
  <2>10. rel + InstrSize <= full
    <3>1. PICK all \in Nat : all = len * InstrSize BY <1>6
    <3> QED BY <3>1, <2>4, <2>5, <2>6, <1>5, <1>6
  <2>11. PICK z \in Nat : z = 0 OBVIOUS
  <2>12. PICK at : at = start + rel OBVIOUS
  <2>13. Maps(img, vm + rel + z, what, z)
    <3>1. InstrSize \in Nat /\ z < InstrSize BY <2>11, <1>6
    <3>2. Holds(file, at, InstrSize, what) BY <2>9, <2>12
    <3>3. Placed(cmds[t], vm, start, full) BY <2>2, <2>4 DEF Placed
    <3> QED BY <3>1, <3>2, <3>3, <1>8, <2>10, <2>12, InSegment
  <2>14. vm + rel + z = CodeVm + (i - 1) * InstrSize
    BY <2>4, <2>5, <2>6, <2>11, <1>5, <1>6 DEF CodeVm, TextVm
  <2> QED BY <2>7, <2>11, <2>13, <2>14 DEF Maps
<1>10. ASSUME NEW o \in 0 .. dataTop - 1
      PROVE  Mapped(img, SectionVm(OffData) + o) = [what |-> [kind |-> "data"], rest |-> o]
  <2>1. PICK t \in 1 .. 7 : t = 3 OBVIOUS
  <2>2. PICK c : c = cmds[t] OBVIOUS
  <2>3. c = segs[3] /\ c.vm \in Nat /\ c.filesize \in Nat /\ c.file \in Nat
    BY <2>1, <2>2, <1>3
  <2>4. PICK vm \in Nat, full \in Nat, start \in Nat :
          c.vm = vm /\ c.filesize = full /\ c.file = start /\ full <= c.vmsize
          /\ vm = SectionVm(OffData) /\ dataTop <= full /\ start = segs[3].file
    BY <2>3, <1>4 DEF SectionsLie
  <2>5. PICK what : what = [kind |-> "data"] OBVIOUS
  <2>6. PICK rel \in Nat : rel = 0 OBVIOUS
  <2>7. PICK at : at = start + rel OBVIOUS
  <2>8. Holds(file, at, dataTop, what)
    <3>1. at = segs[3].file BY <2>4, <2>6, <2>7
    <3> QED BY <3>1, <2>5, <1>2 DEF Contents, DataHeld
  <2>9. o \in Nat /\ o < dataTop /\ rel + dataTop <= full BY <2>4, <2>6, <1>7
  <2>10. Maps(img, vm + rel + o, what, o)
    <3>1. Placed(cmds[t], vm, start, full) BY <2>2, <2>4 DEF Placed
    <3> QED BY <3>1, <1>7, <1>8, <2>6, <2>8, <2>9, <2>7, InSegment
  <2>11. vm + rel + o = SectionVm(OffData) + o BY <2>4, <2>6, <2>9
  <2> QED BY <2>5, <2>10, <2>11 DEF Maps
<1>11. ASSUME NEW k \in 1 .. Len(externs.names)
       PROVE  Mapped(img, SectionVm(OffExterns) + (k - 1) * CellSize)
                = [what |-> GotEntry(k).what, rest |-> 0]
  <2>1. PICK t \in 1 .. 7 : t = 4 OBVIOUS
  <2>2. PICK c : c = cmds[t] OBVIOUS
  <2>3. c = segs[4] /\ c.vm \in Nat /\ c.filesize \in Nat /\ c.file \in Nat
    BY <2>1, <2>2, <1>3
  <2>4. PICK vm \in Nat, full \in Nat, start \in Nat :
          c.vm = vm /\ c.filesize = full /\ c.file = start /\ full <= c.vmsize
          /\ vm = SectionVm(OffExterns) /\ start = segs[4].file
          /\ Len(externs.addrs) * CellSize <= full
    BY <2>3, <1>4 DEF SectionsLie
  <2>5. PICK m \in Nat : m = Len(externs.names) /\ m * CellSize <= full
    <3>1. Len(externs.names) \in Nat /\ externs.addrs = externs.names BY SeqParts DEF SlotsAre
    <3> QED BY <3>1, <2>4
  <2>6. PICK rel \in Nat : rel = (k - 1) * CellSize /\ rel + CellSize <= full
    <3>1. PICK j \in Nat : j = k - 1 /\ j + 1 <= m BY <2>5
    <3>2. PICK b \in Nat : b = CellSize BY <1>6
    <3>3. PICK x \in Nat, y \in Nat : x = j * b /\ y = m * b /\ x + b <= y
      <4>1. j * b \in Nat /\ m * b \in Nat /\ (j + 1) * b <= m * b
            /\ (j + 1) * b = j * b + b
        BY <3>1
      <4> QED BY <4>1
    <3>4. x = (k - 1) * CellSize BY <3>1, <3>2, <3>3
    <3>5. y <= full BY <3>2, <3>3, <2>5
    <3>6. x + CellSize <= full BY <3>2, <3>3, <3>5
    <3> QED BY <3>4, <3>6
  <2>7. PICK what : what = GotEntry(k).what OBVIOUS
  <2>8. PICK at : at = start + rel OBVIOUS
  <2>9. Holds(file, at, CellSize, what)
    BY <1>2, <2>4, <2>6, <2>7, <2>8 DEF Contents, GotHeld
  <2>10. PICK z \in Nat : z = 0 OBVIOUS
  <2>11. Maps(img, vm + rel + z, what, z)
    <3>1. CellSize \in Nat /\ z < CellSize BY <2>10, <1>6
    <3>2. Placed(cmds[t], vm, start, full) BY <2>2, <2>4 DEF Placed
    <3> QED BY <3>1, <3>2, <1>8, <2>6, <2>8, <2>9, InSegment
  <2>12. vm + rel + z = SectionVm(OffExterns) + (k - 1) * CellSize BY <2>4, <2>6, <2>10
  <2> QED BY <2>7, <2>10, <2>11, <2>12 DEF Maps
<1>12. CodeMapped(img, len) BY <1>9 DEF CodeMapped
<1>13. DataMapped(img) BY <1>10 DEF DataMapped
<1>14. SlotsMapped(img) BY <1>11 DEF SlotsMapped
<1> QED BY <1>12, <1>13, <1>14

----
(* The tables of the linker. *)

(* Where the items of the section start. *)
LEMMA LinkTotals ==
  ASSUME SlotsAre, NEW n \in Nat, Slots(n), NEW items, ItemsAre(items, n),
         NEW f, f = SizesOf(items)
  PROVE  /\ Total(f, 0) = 0 /\ Total(f, 1) = FixHead /\ Total(f, 2) = FixHead + FixImg
         /\ \A k \in 1 .. n : Total(f, 2 + k) = ImportsOff + FixImport * (k - 1)
         /\ \A k \in 1 .. n : Total(f, n + 3 + k) = SymbolsOff + NamePos(k)
<1>1. /\ IsSeq(items) /\ Len(items) = n + n + 4
      /\ items[1].size = 28 /\ items[2].size = 20 /\ items[3].size = 24
      /\ items[n + 4].size = 1
  BY DEF ItemsAre, FixHead, FixImg, FixSeg
<1>2. \A i \in 1 .. n + n + 4 : f[i] = items[i].size BY <1>1, SeqParts DEF SizesOf
<1>3. f[1] = 28 /\ f[2] = 20 /\ f[3] = 24 /\ f[n + 4] = 1
  <2>1. /\ 1 \in 1 .. n + n + 4 /\ 2 \in 1 .. n + n + 4 /\ 3 \in 1 .. n + n + 4
        /\ n + 4 \in 1 .. n + n + 4
    OBVIOUS
  <2> QED BY <2>1, <1>1, <1>2
<1>4. ASSUME NEW k \in 1 .. n PROVE f[3 + k] = 4
  <2>1. PICK i : i = 3 + k OBVIOUS
  <2>2. PICK what : what = [kind |-> "import", pos |-> NamePos(k)] OBVIOUS
  <2>3. items[i] = [size |-> FixImport, what |-> what] BY <2>1, <2>2 DEF ItemsAre
  <2>4. items[i].size = 4 BY <2>3 DEF FixImport
  <2>5. i \in 1 .. n + n + 4 BY <2>1
  <2> QED BY <2>1, <2>4, <2>5, <1>2
<1>5. PICK g : g = [i \in DOMAIN externs.names |-> NameSize(externs.names[i])] OBVIOUS
<1>6. n = Len(externs.names) /\ DOMAIN externs.names = 1 .. n
  BY SeqParts DEF SlotsAre, Slots
<1>7. ASSUME NEW k \in 1 .. n PROVE f[n + 4 + k] = g[k] /\ g[k] \in Nat
  <2>1. PICK i : i = n + 4 + k OBVIOUS
  <2>2. PICK what, size : /\ what = [kind |-> "name", name |-> externs.names[k]]
                          /\ size = NameSize(externs.names[k])
    OBVIOUS
  <2>3. items[i] = [size |-> size, what |-> what] BY <2>1, <2>2 DEF ItemsAre
  <2>4. items[i].size = size BY <2>3
  <2>5. i \in 1 .. n + n + 4 BY <2>1
  <2>6. g[k] = size BY <2>2, <1>5, <1>6
  <2>7. externs.names[k] \in Names BY <1>6 DEF SlotsAre
  <2>8. size \in Nat BY <2>2, <2>7, NameSizeIs
  <2> QED BY <2>1, <2>4, <2>5, <2>6, <2>8, <1>2
<1>8. Total(f, 0) = 0 /\ Total(f, 1) = 28 /\ Total(f, 2) = 48 /\ Total(f, 3) = 72
  <2>1. Total(f, 0) = 0 /\ Total(f, 0 + 1) = Total(f, 0) + f[0 + 1]
        /\ Total(f, 1 + 1) = Total(f, 1) + f[1 + 1] /\ Total(f, 2 + 1) = Total(f, 2) + f[2 + 1]
    BY TotalIs
  <2> QED BY <2>1, <1>3
<1>9. \A i \in 0 .. n : Total(f, 3 + i) = 72 + i * 4
  <2> DEFINE S == {i \in 0 .. n : Total(f, 3 + i) = 72 + i * 4}
  <2>1. 0 \in S BY <1>8
  <2>2. ASSUME NEW i \in 0 .. n - 1, i \in S PROVE i + 1 \in S
    <3>1. PICK k : k = 3 + i OBVIOUS
    <3>2. k \in Nat /\ i + 1 \in 1 .. n /\ 3 + (i + 1) = k + 1 BY <3>1
    <3>3. Total(f, k + 1) = Total(f, k) + f[k + 1] BY <3>2, TotalIs
    <3>4. f[3 + (i + 1)] = 4 BY <3>2, <1>4
    <3>5. Total(f, k) = 72 + i * 4 BY <2>2, <3>1
    <3> QED BY <3>2, <3>3, <3>4, <3>5
  <2>3. \A i \in 0 .. n : i \in S
    <3> HIDE DEF S
    <3> QED BY <2>1, <2>2, InductTo
  <2> QED BY <2>3
<1>10. Total(f, n + 4) = 73 + n * 4
  <2>1. PICK k \in Nat : k = n + 3 OBVIOUS
  <2>2. Total(f, k + 1) = Total(f, k) + f[k + 1] BY TotalIs
  <2>3. k + 1 = n + 4 /\ 3 + n = k /\ n \in 0 .. n BY <2>1
  <2>4. Total(f, 3 + n) = 72 + n * 4 BY <2>3, <1>9
  <2> QED BY <2>2, <2>3, <2>4, <1>3
<1>11. \A i \in 0 .. n : Total(g, i) \in Nat BY <1>7, TotalNat
<1>12. \A i \in 0 .. n : Total(f, n + 4 + i) = 73 + n * 4 + Total(g, i)
  <2> DEFINE S == {i \in 0 .. n : Total(f, n + 4 + i) = 73 + n * 4 + Total(g, i)}
  <2>1. 0 \in S
    <3>1. Total(g, 0) = 0 BY TotalIs
    <3>2. n + 4 + 0 = n + 4 OBVIOUS
    <3> QED BY <3>1, <3>2, <1>10
  <2>2. ASSUME NEW i \in 0 .. n - 1, i \in S PROVE i + 1 \in S
    <3>1. PICK k : k = n + 4 + i OBVIOUS
    <3>2. k \in Nat /\ i \in Nat /\ i + 1 \in 1 .. n /\ n + 4 + (i + 1) = k + 1 BY <3>1
    <3>3. Total(f, k + 1) = Total(f, k) + f[k + 1] BY <3>2, TotalIs
    <3>4. Total(g, i + 1) = Total(g, i) + g[i + 1] BY <3>2, TotalIs
    <3>5. f[n + 4 + (i + 1)] = g[i + 1] /\ g[i + 1] \in Nat BY <3>2, <1>7
    <3>6. Total(f, k) = 73 + n * 4 + Total(g, i) BY <2>2, <3>1
    <3>7. Total(g, i) \in Nat BY <1>11
    <3> QED BY <3>2, <3>3, <3>4, <3>5, <3>6, <3>7
  <2>3. \A i \in 0 .. n : i \in S
    <3> HIDE DEF S
    <3> QED BY <2>1, <2>2, InductTo
  <2> QED BY <2>3
<1>13. ImportsOff = 72 /\ SymbolsOff = 72 + n * 4
  <2>1. Len(externs.addrs) = n BY DEF SlotsAre, Slots
  <2> QED BY <2>1 DEF SymbolsOff, ImportsOff, FixHead, FixImg, FixSeg, FixImport
<1>14. ASSUME NEW k \in 1 .. n PROVE Total(f, 2 + k) = ImportsOff + FixImport * (k - 1)
  <2>1. PICK j : j = k - 1 OBVIOUS
  <2>2. j \in 0 .. n /\ 3 + j = 2 + k BY <2>1
  <2>3. Total(f, 3 + j) = 72 + j * 4 BY <2>2, <1>9
  <2> QED BY <2>1, <2>2, <2>3, <1>13 DEF FixImport
<1>15. ASSUME NEW k \in 1 .. n PROVE Total(f, n + 3 + k) = SymbolsOff + NamePos(k)
  <2>1. PICK j : j = k - 1 OBVIOUS
  <2>2. j \in 0 .. n /\ n + 4 + j = n + 3 + k BY <2>1
  <2>3. Total(f, n + 4 + j) = 73 + n * 4 + Total(g, j) BY <2>2, <1>12
  <2>4. NamePos(k) = 1 + Total(g, j) BY <2>1, <1>5 DEF NamePos
  <2>5. Total(g, j) \in Nat BY <2>2, <1>11
  <2> QED BY <2>2, <2>3, <2>4, <2>5, <1>13
<1> QED BY <1>8, <1>14, <1>15 DEF FixHead, FixImg

LEMMA PositionsNat ==
  ASSUME SlotsAre, NEW n \in Nat, Slots(n), NEW k \in 1 .. n
  PROVE  NamePos(k) \in Nat
<1>1. PICK g : g = [i \in DOMAIN externs.names |-> NameSize(externs.names[i])] OBVIOUS
<1>2. n = Len(externs.names) /\ DOMAIN externs.names = 1 .. n
  BY SeqParts DEF SlotsAre, Slots
<1>3. \A i \in 1 .. n : g[i] \in Nat
  <2>1. \A i \in 1 .. n : g[i] = NameSize(externs.names[i]) BY <1>1, <1>2
  <2>2. \A i \in 1 .. n : externs.names[i] \in Names BY <1>2 DEF SlotsAre
  <2> QED BY <2>1, <2>2, NameSizeIs
<1>4. \A i \in 0 .. n : Total(g, i) \in Nat BY <1>3, TotalNat
<1>5. PICK j \in 0 .. n : j = k - 1 OBVIOUS
<1>6. Total(g, j) \in Nat BY <1>4
<1>7. NamePos(k) = 1 + Total(g, j) BY <1>1, <1>5 DEF NamePos
<1> QED BY <1>6, <1>7

LEMMA LinkItemsHeld ==
  ASSUME SlotsAre, NEW n \in Nat, Slots(n), NEW items, ItemsAre(items, n),
         NEW link, link = Linkedit
  PROVE  HoldsAll(link, 0, items)
<1>1. /\ link = PutAll(EmptyBuf, items) /\ IsSeq(items) /\ Len(items) = n + n + 4
      /\ items[1].size = 28 /\ items[2].size = 20 /\ items[3].size = 24
      /\ items[n + 4].size = 1
  BY DEF ItemsAre, FixHead, FixImg, FixSeg
<1>2. ASSUME NEW k \in 1 .. n PROVE items[3 + k].size = 4
  <2>1. PICK i : i = 3 + k OBVIOUS
  <2>2. PICK what : what = [kind |-> "import", pos |-> NamePos(k)] OBVIOUS
  <2>3. items[i] = [size |-> FixImport, what |-> what] BY <2>1, <2>2 DEF ItemsAre
  <2>4. items[i].size = 4 BY <2>3 DEF FixImport
  <2> QED BY <2>1, <2>4
<1>3. ASSUME NEW k \in 1 .. n PROVE items[n + 4 + k].size \in Nat
  <2>1. PICK i : i = n + 4 + k OBVIOUS
  <2>2. PICK what, size : /\ what = [kind |-> "name", name |-> externs.names[k]]
                          /\ size = NameSize(externs.names[k])
    OBVIOUS
  <2>3. items[i] = [size |-> size, what |-> what] BY <2>1, <2>2 DEF ItemsAre
  <2>4. items[i].size = size BY <2>3
  <2>5. externs.names[k] \in Names BY DEF SlotsAre, Slots
  <2>6. size \in Nat BY <2>2, <2>5, NameSizeIs
  <2> QED BY <2>1, <2>4, <2>6
<1>4. ASSUME NEW i \in 1 .. n + n + 4 PROVE items[i].size \in Nat
  <2>1. CASE i \in {1, 2, 3, n + 4} BY <2>1, <1>1
  <2>2. CASE i \in 4 .. n + 3
    <3>1. PICK k \in 1 .. n : i = 3 + k
      <4>1. i - 3 \in 1 .. n /\ i = 3 + (i - 3) BY <2>2
      <4> QED BY <4>1
    <3>2. items[i].size = 4 BY <3>1, <1>2
    <3> QED BY <3>2
  <2>3. CASE i \in n + 5 .. n + n + 4
    <3>1. PICK k \in 1 .. n : i = n + 4 + k
      <4>1. i - (n + 4) \in 1 .. n /\ i = n + 4 + (i - (n + 4)) BY <2>3
      <4> QED BY <4>1
    <3> QED BY <3>1, <1>3
  <2> QED BY <2>1, <2>2, <2>3
<1>5. SizedItems(items) BY <1>1, <1>4 DEF SizedItems
<1>6. PICK buf : buf = EmptyBuf OBVIOUS
<1>7. Packed(buf) /\ buf.len = 0 BY <1>6, EmptyPacked
<1>8. link = PutAll(buf, items) BY <1>1, <1>6
<1>9. HoldsAll(link, buf.len, items) BY <1>1, <1>5, <1>7, <1>8, PutAllGrows
<1> QED BY <1>7, <1>9

(* What the section holds is found from where it starts in the file. *)
FileHas(img, file, base, link) ==
  /\ img.file = file /\ Packed(file) /\ Command(img, "fixups").off = base
  /\ LinkHeld(file, base, link)

LEMMA LinkPartIs ==
  ASSUME NEW img, NEW file, NEW base \in Nat, NEW link, FileHas(img, file, base, link),
         NEW at \in Nat, NEW size \in Nat \ {0}, NEW what, Holds(link, at, size, what)
  PROVE  LinkPart(img, at) = [what |-> what, rest |-> 0]
<1>1. PICK j \in 1 .. Len(link.parts) :
        link.parts[j].at = at /\ link.parts[j].size = size /\ link.parts[j].what = what
  BY DEF Holds
<1>2. Holds(file, base + at, size, what) BY <1>1 DEF FileHas, LinkHeld
<1>3. PICK there \in Nat : there = base + at OBVIOUS
<1>4. there \in Int /\ there <= there /\ there < there + size /\ there - there = 0 OBVIOUS
<1>5. Packed(file) /\ Holds(file, there, size, what) BY <1>2, <1>3 DEF FileHas
<1>6. Stored(file, there) = [what |-> what, rest |-> there - there] BY <1>4, <1>5, StoredIs
<1> QED BY <1>3, <1>4, <1>6 DEF LinkPart, FileHas

Import(k) == [kind |-> "import", pos |-> NamePos(k)]
NameAt(k) == [kind |-> "name", name |-> externs.names[k]]

LinkTables(img, n) ==
  /\ LinkHead(img) = HeadRecord(n)
  /\ LinkPart(img, FixHead).what = StartsRecord(n)
  /\ LinkPart(img, FixHead + FixImg).what = ChainRecord
  /\ \A k \in 1 .. n : LinkPart(img, ImportsOff + FixImport * (k - 1)).what = Import(k)
  /\ \A k \in 1 .. n :
       LinkPart(img, SymbolsOff + NamePos(k)) = [what |-> NameAt(k), rest |-> 0]

LEMMA LinkTablesAre ==
  ASSUME SlotsAre, NEW n \in Nat, Slots(n), NEW link, link = Linkedit,
         NEW img, NEW file, NEW base \in Nat, FileHas(img, file, base, link)
  PROVE  LinkTables(img, n)
<1>1. PICK items : ItemsAre(items, n) BY LinkItems
<1>2. PICK f : f = SizesOf(items) OBVIOUS
<1>3. /\ Total(f, 0) = 0 /\ Total(f, 1) = FixHead /\ Total(f, 2) = FixHead + FixImg
      /\ \A k \in 1 .. n : Total(f, 2 + k) = ImportsOff + FixImport * (k - 1)
      /\ \A k \in 1 .. n : Total(f, n + 3 + k) = SymbolsOff + NamePos(k)
  BY <1>1, <1>2, LinkTotals
<1>4. HoldsAll(link, 0, items) BY <1>1, LinkItemsHeld
<1>5. Len(items) = n + n + 4 BY <1>1 DEF ItemsAre
<1>6. ASSUME NEW i \in 1 .. n + n + 4, NEW at \in Nat, Total(f, i - 1) = at,
             NEW size \in Nat \ {0}, items[i].size = size, NEW what, items[i].what = what
      PROVE  LinkPart(img, at) = [what |-> what, rest |-> 0]
  <2>1. Holds(link, 0 + Total(f, i - 1), items[i].size, items[i].what)
    BY <1>2, <1>4, <1>5 DEF HoldsAll
  <2>2. 0 + Total(f, i - 1) = at BY <1>6
  <2>3. Holds(link, at, size, what) BY <2>1, <2>2, <1>6
  <2> QED BY <2>3, LinkPartIs
<1>7. LinkHead(img) = HeadRecord(n)
  <2>1. PICK i \in 1 .. n + n + 4 : i = 1 OBVIOUS
  <2>2. PICK at \in Nat : at = 0 OBVIOUS
  <2>3. PICK what : what = HeadRecord(n) OBVIOUS
  <2>4. Total(f, i - 1) = at
    <3>1. i - 1 = 0 BY <2>1
    <3> QED BY <3>1, <2>2, <1>3
  <2>5. items[i].size = 28 /\ items[i].what = what
    BY <1>1, <2>1, <2>3 DEF ItemsAre, FixHead
  <2>6. LinkPart(img, at) = [what |-> what, rest |-> 0] BY <2>4, <2>5, <1>6
  <2>7. base + at = base BY <2>2
  <2>8. LinkPart(img, at) = Stored(file, base) BY <2>7 DEF LinkPart, FileHas
  <2>9. Stored(file, base).what = what BY <2>6, <2>8
  <2> QED BY <2>3, <2>9 DEF LinkHead, FileHas
<1>8. LinkPart(img, FixHead).what = StartsRecord(n)
  <2>1. PICK i \in 1 .. n + n + 4 : i = 2 OBVIOUS
  <2>2. PICK at \in Nat : at = FixHead BY DEF FixHead
  <2>3. PICK what : what = StartsRecord(n) OBVIOUS
  <2>4. Total(f, i - 1) = at
    <3>1. i - 1 = 1 BY <2>1
    <3> QED BY <3>1, <2>2, <1>3
  <2>5. items[i].size = 20 /\ items[i].what = what
    BY <1>1, <2>1, <2>3 DEF ItemsAre, FixImg
  <2>6. LinkPart(img, at) = [what |-> what, rest |-> 0] BY <2>4, <2>5, <1>6
  <2>7. LinkPart(img, at).what = what BY <2>6
  <2> QED BY <2>2, <2>3, <2>7
<1>9. LinkPart(img, FixHead + FixImg).what = ChainRecord
  <2>1. PICK i \in 1 .. n + n + 4 : i = 3 OBVIOUS
  <2>2. PICK at \in Nat : at = FixHead + FixImg BY DEF FixHead, FixImg
  <2>3. PICK what : what = ChainRecord OBVIOUS
  <2>4. Total(f, i - 1) = at
    <3>1. i - 1 = 2 BY <2>1
    <3> QED BY <3>1, <2>2, <1>3
  <2>5. items[i].size = 24 /\ items[i].what = what
    BY <1>1, <2>1, <2>3 DEF ItemsAre, FixSeg
  <2>6. LinkPart(img, at) = [what |-> what, rest |-> 0] BY <2>4, <2>5, <1>6
  <2>7. LinkPart(img, at).what = what BY <2>6
  <2> QED BY <2>2, <2>3, <2>7
<1>10. ImportsOff \in Nat /\ SymbolsOff \in Nat
  <2>1. Len(externs.addrs) = n BY DEF SlotsAre, Slots
  <2> QED BY <2>1 DEF SymbolsOff, ImportsOff, FixHead, FixImg, FixSeg, FixImport
<1>11. ASSUME NEW k \in 1 .. n
       PROVE  LinkPart(img, ImportsOff + FixImport * (k - 1)).what = Import(k)
  <2>1. PICK i \in 1 .. n + n + 4 : i = 3 + k OBVIOUS
  <2>2. PICK at \in Nat : at = ImportsOff + FixImport * (k - 1)
    <3>1. k - 1 \in Nat OBVIOUS
    <3>2. FixImport * (k - 1) \in Nat BY <3>1 DEF FixImport
    <3> QED BY <3>2, <1>10
  <2>3. PICK what : what = Import(k) OBVIOUS
  <2>4. Total(f, i - 1) = at
    <3>1. i - 1 = 2 + k BY <2>1
    <3> QED BY <3>1, <2>2, <1>3
  <2>5. items[i].size = 4 /\ items[i].what = what
    <3>1. items[i] = [size |-> FixImport, what |-> what]
      BY <1>1, <2>1, <2>3 DEF ItemsAre, Import
    <3> QED BY <3>1 DEF FixImport
  <2>6. LinkPart(img, at) = [what |-> what, rest |-> 0] BY <2>4, <2>5, <1>6
  <2>7. LinkPart(img, at).what = what BY <2>6
  <2> QED BY <2>2, <2>3, <2>7
<1>12. ASSUME NEW k \in 1 .. n
       PROVE  LinkPart(img, SymbolsOff + NamePos(k)) = [what |-> NameAt(k), rest |-> 0]
  <2>1. PICK i \in 1 .. n + n + 4 : i = n + 4 + k OBVIOUS
  <2>2. PICK size \in Nat \ {0} : size = NameSize(externs.names[k])
    <3>1. externs.names[k] \in Names BY DEF SlotsAre, Slots
    <3>2. NameLen[externs.names[k]] \in Nat BY <3>1, ImageAssumption
    <3> QED BY <3>2 DEF NameSize
  <2>3. PICK what : what = NameAt(k) OBVIOUS
  <2>4. PICK at \in Nat : at = SymbolsOff + NamePos(k)
    <3>1. NamePos(k) \in Nat BY PositionsNat
    <3> QED BY <3>1, <1>10
  <2>5. Total(f, i - 1) = at
    <3>1. i - 1 = n + 3 + k BY <2>1
    <3> QED BY <3>1, <2>4, <1>3
  <2>6. items[i].size = size /\ items[i].what = what
    <3>1. items[i] = [size |-> size, what |-> what]
      BY <1>1, <2>1, <2>2, <2>3 DEF ItemsAre, NameAt
    <3> QED BY <3>1
  <2>7. LinkPart(img, at) = [what |-> what, rest |-> 0] BY <2>5, <2>6, <1>6
  <2> QED BY <2>3, <2>4, <2>7
<1> QED BY <1>7, <1>8, <1>9, <1>11, <1>12 DEF LinkTables

LEMMA ImportedIs ==
  ASSUME NEW img, NEW n \in Nat, LinkTables(img, n), NEW k \in 1 .. n
  PROVE  Imported(img, k - 1) = externs.names[k]
<1>1. PICK head : head = LinkHead(img) OBVIOUS
<1>2. head.imports = ImportsOff /\ head.symbols = SymbolsOff
  BY <1>1 DEF LinkTables, HeadRecord
<1>3. PICK import : import = LinkPart(img, ImportsOff + FixImport * (k - 1)).what OBVIOUS
<1>4. import.pos = NamePos(k)
  <2>1. import = Import(k) BY <1>3 DEF LinkTables
  <2> QED BY <2>1 DEF Import
<1>5. PICK name : name = LinkPart(img, SymbolsOff + NamePos(k)) OBVIOUS
<1>6. PICK what : what = NameAt(k) OBVIOUS
<1>7. name.rest = 0 /\ name.what = what
  <2>1. name = [what |-> what, rest |-> 0] BY <1>5, <1>6 DEF LinkTables
  <2> QED BY <2>1
<1>8. what.kind = "name" /\ what.name = externs.names[k] BY <1>6 DEF NameAt
<1>9. import = LinkPart(img, head.imports + FixImport * (k - 1)).what BY <1>2, <1>3
<1>10. name = LinkPart(img, head.symbols + import.pos) BY <1>2, <1>4, <1>5
<1>11. Imported(img, k - 1) =
         IF name.rest = 0 /\ name.what.kind = "name" THEN name.what.name ELSE "none"
  BY <1>1, <1>9, <1>10 DEF Imported
<1> QED BY <1>7, <1>8, <1>11

LEMMA ChainStartIs ==
  ASSUME NEW img, NEW n \in Nat, LinkTables(img, n)
  PROVE  ChainStart(img) = IF n = 0 THEN 0 ELSE SectionVm(OffExterns)
<1>1. LinkHead(img).starts = FixHead BY DEF LinkTables, HeadRecord
<1>2. PICK starts : starts = LinkPart(img, FixHead).what OBVIOUS
<1>3. starts.got = IF n = 0 THEN 0 ELSE FixImg BY <1>2 DEF LinkTables, StartsRecord
<1>4. PICK chain : chain = LinkPart(img, FixHead + starts.got).what OBVIOUS
<1>5. ChainStart(img) = IF starts.got = 0 THEN 0 ELSE TextVm + chain.segment + chain.start
  BY <1>1, <1>2, <1>4 DEF ChainStart
<1>6. CASE n = 0 BY <1>3, <1>5, <1>6
<1>7. CASE n # 0
  <2>1. starts.got = FixImg /\ starts.got # 0 BY <1>3, <1>7 DEF FixImg
  <2>2. chain = ChainRecord BY <2>1, <1>4 DEF LinkTables
  <2>3. chain.segment = SectionVm(OffExterns) - TextVm /\ chain.start = 0
    BY <2>2 DEF ChainRecord
  <2>4. SectionVm(OffExterns) \in Nat /\ TextVm \in Nat
    BY PlacesAre, ImageAssumption DEF TextVm
  <2>5. TextVm + chain.segment + chain.start = SectionVm(OffExterns) BY <2>3, <2>4
  <2> QED BY <2>1, <2>5, <1>5, <1>7
<1> QED BY <1>6, <1>7

----
(* The chain through the slots. *)

SlotVm(k) == SectionVm(OffExterns) + (k - 1) * CellSize

LEMMA SlotVmIs ==
  /\ \A k \in Nat \ {0} : SlotVm(k) \in Nat /\ SlotVm(k) # 0
  /\ \A k \in Nat \ {0} : SlotVm(k + 1) = SlotVm(k) + 2 * FixUnit
  /\ SlotVm(1) = SectionVm(OffExterns)
<1>1. PICK base \in Nat : base = SectionVm(OffExterns) /\ base > 0
  <2>1. Page \in Nat \ {0} /\ CodeLen * InstrSize \in Nat /\ DataLen \in Nat /\ PageZero \in Nat
    BY ImageAssumption
  <2>2. HeadSize + CmdSize \in Nat
    BY DEF HeadSize, CmdSize, SegCmd, Sect, LinkCmd, DylinkerCmd, DylibCmd, MainCmd, BuildCmd
  <2>3. CodeFile \in Nat BY <2>1, <2>2, AlignUpAligns DEF CodeFile, AlignPage
  <2>4. PICK code_ \in Nat : code_ = CodeLen * InstrSize BY <2>1
  <2>5. SectionVm(OffExterns) = PageZero + CodeFile + code_ + Page + DataLen + Page
    BY <2>1, <2>3, <2>4 DEF SectionVm, CodeVm, TextVm, OffCode, OffData, OffExterns
  <2> QED BY <2>1, <2>3, <2>4, <2>5
<1>2. PICK cell \in Nat : cell = CellSize /\ 2 * FixUnit = cell
  <2>1. CellSize \in Nat \ {0} /\ CellSize % 2 = 0 BY ImageAssumption DEF Divides
  <2>2. PICK cell \in Nat : cell = CellSize /\ cell % 2 = 0 BY <2>1
  <2>3. 2 * (cell \div 2) = cell BY <2>2
  <2> QED BY <2>2, <2>3 DEF FixUnit
<1>3. ASSUME NEW k \in Nat \ {0}
      PROVE  /\ SlotVm(k) \in Nat /\ SlotVm(k) # 0 /\ SlotVm(k + 1) = SlotVm(k) + 2 * FixUnit
  <2>1. PICK j \in Nat : j = k - 1 /\ (k + 1) - 1 = j + 1 OBVIOUS
  <2>2. PICK x \in Nat : x = j * cell /\ (j + 1) * cell = x + cell OBVIOUS
  <2>3. SlotVm(k) = base + x /\ SlotVm(k + 1) = base + (x + cell)
    BY <1>1, <1>2, <2>1, <2>2 DEF SlotVm
  <2> QED BY <1>1, <1>2, <2>3
<1>4. SlotVm(1) = SectionVm(OffExterns) BY <1>1, <1>2 DEF SlotVm
<1> QED BY <1>3, <1>4

LEMMA SlotEntry ==
  ASSUME NEW img, SlotsMapped(img), NEW n \in Nat, Slots(n), NEW k \in 1 .. n
  PROVE  /\ Mapped(img, SlotVm(k)).what.next = IF k = n THEN 0 ELSE 2
         /\ Mapped(img, SlotVm(k)).what.ordinal = k - 1
<1>1. n = Len(externs.names) BY DEF Slots
<1>2. PICK what : what = [kind |-> "bind", ordinal |-> k - 1,
                          next |-> IF k = Len(externs.names) THEN 0 ELSE 2]
  OBVIOUS
<1>3. GotEntry(k).what = what
  <2>1. PICK e : e = GotEntry(k) OBVIOUS
  <2>2. e = [size |-> CellSize, what |-> what] BY <1>2, <2>1 DEF GotEntry
  <2>3. e.what = what BY <2>2
  <2> QED BY <2>1, <2>3
<1>4. PICK got : got = Mapped(img, SlotVm(k)) OBVIOUS
<1>5. got = [what |-> what, rest |-> 0] BY <1>1, <1>3, <1>4 DEF SlotsMapped, SlotVm
<1>6. got.what = what BY <1>5
<1>7. what.next = (IF k = n THEN 0 ELSE 2) /\ what.ordinal = k - 1 BY <1>1, <1>2
<1> QED BY <1>4, <1>6, <1>7

ChainStep(img, f, k) ==
  IF k = 1 THEN ChainStart(img)
  ELSE IF f[k - 1] = 0 \/ Mapped(img, f[k - 1]).what.next = 0 THEN 0
  ELSE f[k - 1] + Mapped(img, f[k - 1]).what.next * FixUnit

LEMMA ChainIs ==
  ASSUME SlotsAre, NEW n \in Nat, Slots(n), NEW img, SlotsMapped(img), LinkTables(img, n)
  PROVE  Chain(img) = {SlotVm(k) : k \in 1 .. n}
<1>1. n <= SlotCap /\ SlotCap \in Nat BY SlotCapIs DEF SlotsAre, Slots
<1>2. PICK h : h = [k \in 1 .. SlotCap |-> IF k <= n THEN SlotVm(k) ELSE 0] OBVIOUS
<1>3. ASSUME NEW k \in 1 .. SlotCap PROVE h[k] = ChainStep(img, h, k)
  <2>1. CASE k = 1
    <3>1. ChainStep(img, h, k) = IF n = 0 THEN 0 ELSE SectionVm(OffExterns)
      BY <2>1, ChainStartIs DEF ChainStep
    <3>2. h[k] = IF 1 <= n THEN SlotVm(1) ELSE 0 BY <2>1, <1>2
    <3> QED BY <3>1, <3>2, SlotVmIs
  <2>2. CASE k # 1
    <3>1. PICK j : j = k - 1 OBVIOUS
    <3>2. j \in 1 .. SlotCap /\ j \in Nat \ {0} /\ k = j + 1 BY <3>1, <2>2, <1>1
    <3>3. PICK a : a = h[j] OBVIOUS
    <3>4. ChainStep(img, h, k) =
            IF a = 0 \/ Mapped(img, a).what.next = 0 THEN 0
            ELSE a + Mapped(img, a).what.next * FixUnit
      BY <2>2, <3>1, <3>3 DEF ChainStep
    <3>5. CASE j > n
      <4>1. a = 0 BY <3>2, <3>3, <3>5, <1>2
      <4>2. h[k] = 0 BY <3>2, <3>5, <1>2
      <4> QED BY <4>1, <4>2, <3>4
    <3>6. CASE j = n
      <4>1. a = SlotVm(j) /\ h[k] = 0 BY <3>2, <3>3, <3>6, <1>2
      <4>2. j \in 1 .. n BY <3>2, <3>6
      <4>3. Mapped(img, a).what.next = 0 BY <4>1, <4>2, <3>6, SlotEntry
      <4> QED BY <4>1, <4>3, <3>4
    <3>7. CASE j < n
      <4>1. a = SlotVm(j) /\ h[k] = SlotVm(k) BY <3>2, <3>3, <3>7, <1>2
      <4>2. j \in 1 .. n /\ j # n BY <3>2, <3>7
      <4>3. Mapped(img, a).what.next = 2 BY <4>1, <4>2, SlotEntry
      <4>4. a # 0 /\ SlotVm(k) = a + 2 * FixUnit BY <4>1, <3>2, SlotVmIs
      <4> QED BY <4>1, <4>3, <4>4, <3>4
    <3> QED BY <3>2, <3>5, <3>6, <3>7
  <2> QED BY <2>1, <2>2
<1>4. h = [k \in 1 .. SlotCap |-> ChainStep(img, h, k)] BY <1>2, <1>3
<1> DEFINE At[k \in 1 .. SlotCap] ==
      IF k = 1 THEN ChainStart(img)
      ELSE IF At[k - 1] = 0 \/ Mapped(img, At[k - 1]).what.next = 0 THEN 0
      ELSE At[k - 1] + Mapped(img, At[k - 1]).what.next * FixUnit
<1>5. At = [k \in 1 .. SlotCap |-> ChainStep(img, At, k)] BY <1>4 DEF ChainStep
<1>6. Chain(img) = Range(At) \ {0} BY DEF Chain
<1> HIDE DEF At
<1>7. DOMAIN At = 1 .. SlotCap /\ \A k \in 1 .. SlotCap : At[k] = ChainStep(img, At, k)
  BY <1>5
<1>8. \A k \in 1 .. SlotCap : At[k] = h[k]
  <2> DEFINE S == {k \in 0 .. SlotCap : k # 0 => At[k] = h[k]}
  <2>1. 0 \in S BY <1>1
  <2>2. ASSUME NEW k \in 0 .. SlotCap - 1, k \in S PROVE k + 1 \in S
    <3>1. PICK m : m = k + 1 OBVIOUS
    <3>2. m \in 1 .. SlotCap /\ m \in 0 .. SlotCap /\ m - 1 = k /\ (m = 1 <=> k = 0)
      BY <3>1, <1>1
    <3>3. ChainStep(img, At, m) = ChainStep(img, h, m)
      <4>1. CASE m = 1 BY <4>1 DEF ChainStep
      <4>2. CASE m # 1
        <5>1. At[m - 1] = h[m - 1] BY <4>2, <3>2, <2>2
        <5> QED BY <5>1 DEF ChainStep
      <4> QED BY <4>1, <4>2
    <3>4. At[m] = h[m] BY <3>2, <3>3, <1>3, <1>7
    <3> QED BY <3>1, <3>2, <3>4
  <2>3. \A k \in 0 .. SlotCap : k \in S
    <3> HIDE DEF S
    <3> QED BY <2>1, <2>2, <1>1, InductTo
  <2> QED BY <2>3, <1>1
<1>9. Range(At) = {h[k] : k \in 1 .. SlotCap} BY <1>7, <1>8 DEF Range
<1>10. \A k \in 1 .. n : k \in 1 .. SlotCap /\ h[k] = SlotVm(k) /\ SlotVm(k) # 0
  BY <1>1, <1>2, SlotVmIs
<1>11. \A k \in 1 .. SlotCap : h[k] # 0 => k \in 1 .. n /\ h[k] = SlotVm(k)
  <2> TAKE k \in 1 .. SlotCap
  <2>1. CASE k <= n BY <2>1, <1>2
  <2>2. CASE ~ (k <= n) BY <2>2, <1>2
  <2> QED BY <2>1, <2>2
<1> QED BY <1>6, <1>9, <1>10, <1>11

----
(* The code moved with everything it reads. *)

Moved(a, b, p, t) == b = a + p * t
QuotientMoved(a, b, p, t) == b \div p = a \div p + t

LEMMA QuotientMoves ==
  ASSUME NEW p \in Nat, p >= 1, NEW a \in Nat, NEW b \in Nat, NEW t \in Int, Moved(a, b, p, t)
  PROVE  QuotientMoved(a, b, p, t)
<1>1. PICK q \in Nat, r \in Nat : q = a \div p /\ a = p * q + r /\ r < p BY Euclid
<1>2. PICK u \in Nat, s \in Nat : u = b \div p /\ b = p * u + s /\ s < p BY Euclid
<1>3. PICK d \in Int : d = u - q - t OBVIOUS
<1>4. p * d = r - s
  <2>1. PICK x \in Int, y \in Int, z \in Int :
          x = p * u /\ y = p * q /\ z = p * t /\ p * d = x - y - z
    <3>1. p * (u - q - t) = p * u - p * q - p * t OBVIOUS
    <3>2. p * u \in Int /\ p * q \in Int /\ p * t \in Int OBVIOUS
    <3> QED BY <3>1, <3>2, <1>3
  <2>2. b = x + s /\ a = y + r /\ b = a + z BY <2>1, <1>1, <1>2 DEF Moved
  <2> QED BY <2>1, <2>2
<1>5. PICK m : m = r - s /\ m \in Int OBVIOUS
<1>6. ~(0 < m)
  <2> SUFFICES ASSUME 0 < m PROVE FALSE OBVIOUS
  <2>1. m < p /\ m = p * d BY <1>1, <1>2, <1>4, <1>5
  <2> QED BY <2>1, <1>5, NoSmallMultiple
<1>7. ~(m < 0)
  <2> SUFFICES ASSUME m < 0 PROVE FALSE OBVIOUS
  <2>1. PICK k \in Int, e \in Int : k = 0 - m /\ e = 0 - d BY <1>5
  <2>2. 0 < k /\ k < p BY <2>1, <1>1, <1>2, <1>5
  <2>3. k = p * e
    <3>1. p * (0 - d) = 0 - p * d OBVIOUS
    <3> QED BY <3>1, <2>1, <1>4, <1>5
  <2> QED BY <2>2, <2>3, NoSmallMultiple
<1>8. p * d = 0 BY <1>4, <1>5, <1>6, <1>7
<1>9. d = 0
  <2>1. CASE d >= 1
    <3>1. p * d >= 1 BY <2>1
    <3> QED BY <3>1, <1>8
  <2>2. CASE d <= -1
    <3>1. p * d <= -1 BY <2>2
    <3> QED BY <3>1, <1>8
  <2> QED BY <2>1, <2>2
<1>10. u = q + t BY <1>3, <1>9
<1>11. q = a \div p /\ u = b \div p BY <1>1, <1>2
<1>12. b \div p = a \div p + t BY <1>10, <1>11
<1> QED BY <1>12 DEF QuotientMoved

(* The distance is a multiple of the reach of the low bits. *)
LEMMA ShiftIs ==
  \E t \in Int : CodeVm - HeapBase - OffCode = AdrPage * t
<1>1. PICK page \in Nat : page = Page /\ page >= 1 BY ImageAssumption
<1>2. PICK p \in Nat : p = AdrPage /\ p >= 1 /\ page % p = 0
  BY <1>1, ImageAssumption DEF Divides
<1>3. PICK m \in Nat : page = p * m
  <2>1. PICK r \in Nat : r = page % p /\ \E q \in Nat : page = p * q + r BY <1>1, <1>2, Euclid
  <2>2. r = 0 BY <2>1, <1>2
  <2>3. PICK q \in Nat : page = p * q + r BY <2>1
  <2>4. PICK y \in Nat : y = p * q OBVIOUS
  <2>5. page = y BY <2>2, <2>3, <2>4
  <2> QED BY <2>4, <2>5
<1>4. ASSUME NEW a \in Nat, Divides(Page, a) PROVE \E x \in Nat : a = page * x
  <2>1. PICK q \in Nat, r \in Nat : q = a \div page /\ r = a % page /\ a = page * q + r
    BY <1>1, Euclid
  <2>2. r = 0
    <3>1. r = a % page BY <2>1
    <3> QED BY <3>1, <1>1, <1>4 DEF Divides
  <2>3. a = page * q + r BY <2>1
  <2>4. PICK y \in Nat : y = page * q OBVIOUS
  <2>5. a = y BY <2>2, <2>3, <2>4
  <2> QED BY <2>4, <2>5
<1>5. HeapBase \in Nat /\ Divides(Page, HeapBase) /\ PageZero \in Nat /\ Divides(Page, PageZero)
  BY ImageAssumption
<1>6. CodeFile \in Nat /\ Divides(Page, CodeFile)
  <2>1. HeadSize + CmdSize \in Nat
    BY DEF HeadSize, CmdSize, SegCmd, Sect, LinkCmd, DylinkerCmd, DylibCmd, MainCmd, BuildCmd
  <2>2. Page \in Nat \ {0} BY ImageAssumption
  <2> QED BY <2>1, <2>2, AlignUpAligns DEF CodeFile, AlignPage
<1>7. PICK x \in Nat, y \in Nat, z \in Nat :
        HeapBase = page * x /\ PageZero = page * y /\ CodeFile = page * z
  <2>1. \E x \in Nat : HeapBase = page * x BY <1>4, <1>5
  <2>2. \E y \in Nat : PageZero = page * y BY <1>4, <1>5
  <2>3. \E z \in Nat : CodeFile = page * z BY <1>4, <1>6
  <2> QED BY <2>1, <2>2, <2>3
<1>8. CodeVm - HeapBase - OffCode = page * y + page * z - page * x - page
  BY <1>1, <1>7 DEF CodeVm, TextVm, OffCode
<1>9. PICK w \in Int : w = y + z - x - 1 OBVIOUS
<1>10. page * w = page * y + page * z - page * x - page
  <2>1. page * (y + z - x - 1) = page * y + page * z - page * x - page OBVIOUS
  <2> QED BY <2>1, <1>9
<1>11. page * w = p * (m * w)
  <2>1. (p * m) * w = p * (m * w) OBVIOUS
  <2> QED BY <2>1, <1>3
<1>12. PICK t \in Int : t = m * w OBVIOUS
<1>13. CodeVm - HeapBase - OffCode = p * t BY <1>8, <1>10, <1>11, <1>12
<1> QED BY <1>2, <1>13

(* What an instruction reads in the loaded executable. *)
LEMMA LoadMoves ==
  ASSUME NEW i \in Nat \ {0}, NEW adr \in Nat, NEW of
  PROVE  ReadBy(LoadAt(i, adr, of), CodeVm + (i - 1) * InstrSize)
           = adr + (CodeVm - HeapBase - OffCode)
<1>1. PICK p \in Nat : p = AdrPage /\ p >= 1 BY ImageAssumption
<1>2. PICK here \in Nat : here = InstrAdr(i) BY AddressesAre
<1>3. PICK t \in Int : CodeVm - HeapBase - OffCode = p * t BY <1>1, ShiftIs
<1>4. PICK shift \in Int : shift = p * t /\ shift = CodeVm - HeapBase - OffCode BY <1>3
<1>5. PICK there \in Nat : there = CodeVm + (i - 1) * InstrSize /\ there = here + shift
  <2>1. PageZero \in Nat /\ HeapBase \in Nat /\ Page \in Nat /\ InstrSize \in Nat
    BY ImageAssumption
  <2>2. CodeFile \in Nat
    <3>1. HeadSize + CmdSize \in Nat
      BY DEF HeadSize, CmdSize, SegCmd, Sect, LinkCmd, DylinkerCmd, DylibCmd, MainCmd, BuildCmd
    <3>2. Page \in Nat \ {0} BY ImageAssumption
    <3> QED BY <3>1, <3>2, AlignUpAligns DEF CodeFile, AlignPage
  <2>3. PICK skip \in Nat : skip = (i - 1) * InstrSize
    <3>1. i - 1 \in Nat OBVIOUS
    <3> QED BY <3>1, <2>1
  <2>4. CodeVm \in Nat /\ OffCode \in Nat BY <2>1, <2>2 DEF CodeVm, TextVm, OffCode
  <2>5. here = HeapBase + OffCode + skip BY <1>2, <2>3 DEF InstrAdr
  <2>6. CodeVm + skip = here + shift BY <2>1, <2>4, <2>5, <1>4
  <2> QED BY <2>3, <2>4, <2>6
<1>6. PICK a \in Int, h \in Int : a = adr \div p /\ h = here \div p
  <2>1. adr \div p \in Int /\ here \div p \in Int BY <1>1, <1>2
  <2> QED BY <2>1
<1>7. there \div p = h + t
  <2>1. Moved(here, there, p, t) BY <1>4, <1>5 DEF Moved
  <2>2. QuotientMoved(here, there, p, t) BY <2>1, <1>1, QuotientMoves
  <2> QED BY <2>2, <1>6 DEF QuotientMoved
<1>8. PICK low \in Nat : low = adr % p /\ adr = p * a + low
  <2>1. PICK q \in Nat, r \in Nat : q = adr \div p /\ r = adr % p /\ adr = p * q + r
    BY <1>1, Euclid
  <2> QED BY <2>1, <1>6
<1>9. PICK x : x = LoadAt(i, adr, of) OBVIOUS
<1>10. x.pages = a - h /\ x.low = low
  BY <1>1, <1>2, <1>6, <1>8, <1>9 DEF LoadAt
<1>11. ReadBy(x, there) = (h + t + (a - h)) * p + low
  <2>1. ReadBy(x, there) = (h + t + x.pages) * p + x.low BY <1>1, <1>7 DEF ReadBy
  <2> QED BY <2>1, <1>10
<1>12. h + t + (a - h) = a + t BY <1>6
<1>13. (a + t) * p = p * a + shift
  <2>1. (a + t) * p = p * a + p * t OBVIOUS
  <2> QED BY <2>1, <1>4
<1>14. p * a \in Int OBVIOUS
<1>15. ReadBy(x, there) = adr + shift BY <1>8, <1>11, <1>12, <1>13, <1>14
<1> QED BY <1>4, <1>5, <1>9, <1>15


----
(* What an executable which was built holds when it is loaded. *)

(* Where data and slots are, moved with the code. *)
LEMMA AddressesMove ==
  /\ \A o \in Nat : DataAdr(o) + (CodeVm - HeapBase - OffCode) = SectionVm(OffData) + o
  /\ \A k \in Nat \ {0} : SlotAdr(k) + (CodeVm - HeapBase - OffCode) = SlotVm(k)
  /\ \A k \in Nat \ {0} : SlotVm(k) >= SectionVm(OffData) + DataLen
  /\ SectionVm(OffData) \in Nat
<1>1. /\ Page \in Nat \ {0} /\ CodeLen * InstrSize \in Nat /\ DataLen \in Nat
      /\ PageZero \in Nat /\ HeapBase \in Nat /\ CellSize \in Nat
  BY ImageAssumption
<1>2. CodeFile \in Nat
  <2>1. HeadSize + CmdSize \in Nat
    BY DEF HeadSize, CmdSize, SegCmd, Sect, LinkCmd, DylinkerCmd, DylibCmd, MainCmd, BuildCmd
  <2> QED BY <1>1, <2>1, AlignUpAligns DEF CodeFile, AlignPage
<1>3. PICK code_ \in Nat : code_ = CodeLen * InstrSize BY <1>1
<1>4. PICK vm \in Nat, off \in Nat, data \in Nat, slots \in Nat :
        /\ vm = CodeVm /\ off = OffCode /\ data = OffData /\ slots = OffExterns
        /\ slots = data + DataLen + Page /\ data = off + code_ + Page
  <2>1. PICK page \in Nat, zero \in Nat, file \in Nat, room \in Nat :
          page = Page /\ zero = PageZero /\ file = CodeFile /\ room = DataLen
    BY <1>1, <1>2
  <2>2. CodeVm = zero + file /\ OffCode = page BY <2>1 DEF CodeVm, TextVm, OffCode
  <2>3. OffData = page + code_ + page BY <1>3, <2>1 DEF OffCode, OffData
  <2>4. OffExterns = page + code_ + page + room + page BY <2>1, <2>3 DEF OffExterns
  <2>5. PICK data \in Nat : data = page + code_ + page OBVIOUS
  <2>6. PICK slots \in Nat : slots = data + room + page OBVIOUS
  <2>7. zero + file \in Nat OBVIOUS
  <2> QED BY <2>1, <2>2, <2>3, <2>4, <2>5, <2>6, <2>7
<1>5. SectionVm(OffData) = vm + data - off /\ SectionVm(OffExterns) = vm + slots - off
  BY <1>4 DEF SectionVm
<1>6. ASSUME NEW o \in Nat
      PROVE  DataAdr(o) + (CodeVm - HeapBase - OffCode) = SectionVm(OffData) + o
  <2>1. DataAdr(o) = HeapBase + data + o BY <1>4 DEF DataAdr
  <2> QED BY <2>1, <1>1, <1>4, <1>5
<1>7. ASSUME NEW k \in Nat \ {0}
      PROVE  /\ SlotAdr(k) + (CodeVm - HeapBase - OffCode) = SlotVm(k)
             /\ SlotVm(k) >= SectionVm(OffData) + DataLen
  <2>1. PICK skip \in Nat : skip = (k - 1) * CellSize
    <3>1. k - 1 \in Nat OBVIOUS
    <3> QED BY <3>1, <1>1
  <2>2. SlotAdr(k) = HeapBase + slots + skip BY <2>1, <1>4 DEF SlotAdr
  <2>3. SlotVm(k) = vm + slots - off + skip BY <2>1, <1>5 DEF SlotVm
  <2> QED BY <2>2, <2>3, <1>1, <1>4, <1>5
<1>8. SectionVm(OffData) \in Nat BY <1>1, <1>3, <1>4, <1>5
<1> QED BY <1>6, <1>7, <1>8

(* All that the loaded executable is made of. *)
LoadedAs(img, len, n) ==
  CodeMapped(img, len) /\ DataMapped(img) /\ SlotsMapped(img) /\ LinkTables(img, n)

LEMMA DataLoaded ==
  ASSUME SlotsAre, DataInv, NEW len, NEW n \in Nat, Slots(n), NEW img, LoadedAs(img, len, n),
         NEW r \in regions
  PROVE  Loaded(img, DataAdr(r.at) + (CodeVm - HeapBase - OffCode))
           = [what |-> [kind |-> "data"], rest |-> r.at]
<1>1. PICK o \in Nat, size \in Nat \ {0} : o = r.at /\ size = r.size
  BY DEF DataInv, Region
<1>2. o + size <= dataTop /\ dataTop \in Nat /\ dataTop <= DataLen
  BY <1>1 DEF DataInv, DataApart
<1>3. PICK adr : adr = SectionVm(OffData) + o OBVIOUS
<1>4. DataAdr(r.at) + (CodeVm - HeapBase - OffCode) = adr BY <1>1, <1>3, AddressesMove
<1>5. Chain(img) = {SlotVm(k) : k \in 1 .. n} BY ChainIs DEF LoadedAs
<1>6. adr \notin Chain(img)
  <2> SUFFICES ASSUME NEW k \in 1 .. n, adr = SlotVm(k) PROVE FALSE BY <1>5
  <2>1. SlotVm(k) >= SectionVm(OffData) + DataLen /\ SectionVm(OffData) \in Nat
    <3>1. k \in Nat \ {0} OBVIOUS
    <3> QED BY <3>1, AddressesMove
  <2>2. PICK base \in Nat : base = SectionVm(OffData) BY <2>1
  <2>3. DataLen \in Nat BY ImageAssumption
  <2>4. base + o >= base + DataLen BY <2>1, <2>2, <1>3
  <2> QED BY <2>3, <2>4, <1>2
<1>7. Loaded(img, adr) = Mapped(img, adr) BY <1>6 DEF Loaded
<1>8. o \in 0 .. dataTop - 1 BY <1>2
<1>9. Mapped(img, adr) = [what |-> [kind |-> "data"], rest |-> o]
  BY <1>3, <1>8 DEF LoadedAs, DataMapped
<1> QED BY <1>1, <1>4, <1>7, <1>9

LEMMA SlotLoaded ==
  ASSUME SlotsAre, NEW len, NEW n \in Nat, Slots(n), NEW img, LoadedAs(img, len, n),
         NEW k \in 1 .. n
  PROVE  Loaded(img, SlotAdr(k) + (CodeVm - HeapBase - OffCode))
           = [what |-> [kind |-> "extern", name |-> externs.names[k]], rest |-> 0]
<1>1. SlotAdr(k) + (CodeVm - HeapBase - OffCode) = SlotVm(k)
  <2>1. k \in Nat \ {0} OBVIOUS
  <2> QED BY <2>1, AddressesMove
<1>2. Chain(img) = {SlotVm(j) : j \in 1 .. n} BY ChainIs DEF LoadedAs
<1>3. SlotVm(k) \in Chain(img) BY <1>2
<1>4. Mapped(img, SlotVm(k)).what.ordinal = k - 1 BY SlotEntry DEF LoadedAs
<1>5. Imported(img, k - 1) = externs.names[k] BY ImportedIs DEF LoadedAs
<1> QED BY <1>1, <1>3, <1>4, <1>5 DEF Loaded


LEMMA BuiltLoads ==
  ASSUME CodeIs, SessionLen, SlotsAre, DataInv, BuiltIs, NEW n \in Nat, Slots(n),
         NEW img, img = Written
  PROVE  /\ LoadedAs(img, execLen, n)
         /\ Stored(img.file, Command(img, "main").off).what = Instr(words[image.entry].first)
<1>1. execLen \in Nat /\ execLen <= CodeLen BY CodeFits
<1>2. PICK entry, len : entry = image.entry /\ len = execLen OBVIOUS
<1>3. img = Executable(entry, len) /\ img.result = "built" BY <1>2 DEF Written, BuiltIs
<1>4. PICK link : link = Linkedit OBVIOUS
<1>5. PICK segs :
        segs = Segments(len * InstrSize, dataTop, Len(externs.addrs) * CellSize, link.len)
  OBVIOUS
<1>6. PICK sigFile : sigFile = segs[7].file + AlignPage(link.len) OBVIOUS
<1>7. PICK cmds : cmds = Commands(segs, entry, sigFile) OBVIOUS
<1>8. Layout(len, entry, link, segs, sigFile, cmds) BY <1>4, <1>5, <1>6, <1>7 DEF Layout
<1>9. img.cmds = cmds /\ img.file = File(segs, link, cmds, len, sigFile)
  BY <1>3, <1>8, BuiltLayout
<1>10. PICK file : file = img.file /\ file = File(segs, link, cmds, len, sigFile) BY <1>9
<1>11. len \in Nat /\ len <= CodeLen BY <1>1, <1>2
<1>12. Packed(file) /\ Contents(file, segs, link, len)
  <2>1. file = File(segs, link, cmds, len, sigFile) BY <1>10
  <2> QED BY <2>1, <1>8, <1>11, LayoutFile
<1>13. CodeMapped(img, len) /\ DataMapped(img) /\ SlotsMapped(img)
  BY <1>8, <1>9, <1>11, BuiltMaps
<1>14. /\ IsSeq(segs) /\ Len(segs) = 7 /\ \A i \in 1 .. 7 : segs[i].cmd = "segment"
       /\ \A i \in 1 .. 7 : segs[i].file \in Nat
       /\ CodeFile \in Nat
  BY <1>8, <1>11, LayoutSegments
<1>15. /\ DOMAIN cmds = 1 .. 13
       /\ \A i \in 1 .. 13 : /\ cmds[i].cmd = "fixups" => i = 10
                             /\ cmds[i].cmd = "main" => i = 11
       /\ cmds[10].cmd = "fixups" /\ cmds[11].cmd = "main"
       /\ cmds[10].off = segs[7].file
       /\ cmds[11].off = CodeFile + (words[entry].first - 1) * InstrSize
  BY <1>7, <1>14, CommandsAre
<1>16. Command(img, "fixups").off = segs[7].file
  <2>1. PICK i \in 1 .. 13 : i = 10 OBVIOUS
  <2>2. PICK c : c = "fixups" OBVIOUS
  <2>3. OnlyAt(cmds, i, c) BY <2>1, <2>2, <1>15 DEF OnlyAt
  <2>4. img.cmds = cmds /\ DOMAIN cmds = 1 .. 13 BY <1>9, <1>15
  <2>5. Command(img, c) = cmds[i] BY <2>3, <2>4, CommandFound
  <2> QED BY <2>1, <2>2, <2>5, <1>15
<1>17. Command(img, "main").off = CodeFile + (words[entry].first - 1) * InstrSize
  <2>1. PICK i \in 1 .. 13 : i = 11 OBVIOUS
  <2>2. PICK c : c = "main" OBVIOUS
  <2>3. OnlyAt(cmds, i, c) BY <2>1, <2>2, <1>15 DEF OnlyAt
  <2>4. img.cmds = cmds /\ DOMAIN cmds = 1 .. 13 BY <1>9, <1>15
  <2>5. Command(img, c) = cmds[i] BY <2>3, <2>4, CommandFound
  <2> QED BY <2>1, <2>2, <2>5, <1>15
<1>18. LinkTables(img, n)
  <2>1. PICK t \in 1 .. 7 : t = 7 OBVIOUS
  <2>2. PICK base \in Nat : base = segs[7].file
    <3>1. segs[t].file \in Nat BY <1>14
    <3> QED BY <3>1, <2>1
  <2>3. LinkHeld(file, base, link) BY <1>12, <2>2 DEF Contents
  <2>4. FileHas(img, file, base, link) BY <2>2, <2>3, <1>10, <1>12, <1>16 DEF FileHas
  <2> QED BY <2>4, <1>4, LinkTablesAre
<1>19. Stored(img.file, Command(img, "main").off).what = Instr(words[entry].first)
  <2>1. PICK i \in 1 .. len : i = words[entry].first
    <3>1. entry \in DOMAIN words /\ execLen = valid BY <1>2 DEF BuiltIs
    <3>2. WordIs(entry) BY <3>1 DEF CodeIs
    <3>3. PICK w : w = words[entry] OBVIOUS
    <3>4. w.first \in Nat /\ w.ret \in Nat /\ 1 <= w.first /\ w.first <= w.ret /\ w.ret <= valid
      BY <3>2, <3>3 DEF WordIs
    <3>5. w.first \in 1 .. len BY <3>1, <3>4, <1>2, <1>11
    <3> QED BY <3>3, <3>5
  <2>2. PICK at : at = CodeFile + (i - 1) * InstrSize OBVIOUS
  <2>3. PICK what : what = Instr(i) OBVIOUS
  <2>4. Holds(file, at, InstrSize, what) BY <2>2, <2>3, <1>12 DEF Contents, TextHeld
  <2>5. InstrSize \in Nat \ {0} BY ImageAssumption
  <2>6. at \in Int /\ at <= at /\ at < at + InstrSize
    <3>1. i - 1 \in Nat /\ InstrSize \in Nat BY <2>5
    <3>2. PICK skip \in Nat : skip = (i - 1) * InstrSize BY <3>1
    <3>3. at \in Nat BY <3>2, <2>2, <1>14
    <3> QED BY <3>3, <2>5
  <2>7. Stored(file, at) = [what |-> what, rest |-> at - at] BY <2>4, <2>6, <1>12, StoredIs
  <2>8. Stored(file, at).what = what BY <2>7
  <2>9. Command(img, "main").off = at BY <1>17, <2>1, <2>2
  <2> QED BY <2>1, <2>3, <2>8, <2>9, <1>10
<1> QED BY <1>2, <1>13, <1>18, <1>19 DEF LoadedAs

LEMMA InvLoadsThere == Inv => LoadsThere
<1> SUFFICES ASSUME Inv, Built PROVE LoadsThere BY DEF LoadsThere
<1>1. CodeIs /\ SessionLen /\ SlotsAre /\ DataInv BY DEF Inv
<1>2. BuiltIs
  <2>1. ImageIs /\ image.result = "built" BY DEF Inv, Built
  <2> QED BY <2>1 DEF ImageIs, Idle, NoImage
<1>3. PICK n : n \in Nat /\ Slots(n)
  <2>1. Len(externs.names) \in Nat BY <1>1, SeqParts DEF SlotsAre
  <2> QED BY <2>1 DEF Slots
<1>4. PICK img : img = Written OBVIOUS
<1>5. /\ LoadedAs(img, execLen, n)
      /\ Stored(img.file, Command(img, "main").off).what = Instr(words[image.entry].first)
  BY <1>1, <1>2, <1>3, <1>4, BuiltLoads
<1>6. PICK ws : Closed(image.entry, ws) BY <1>2 DEF BuiltIs, StandsAlone
<1>7. Reached(image.entry) \subseteq ws BY <1>1, <1>6, ReachedStays
<1>8. ASSUME NEW k \in ws, NEW i \in Targets(k) PROVE Starts(i) # {}
  BY <1>1, <1>6, <1>8, TargetsStart
<1>9. ASSUME NEW k \in ws, NEW i \in Body(k)
      PROVE  /\ i \in 1 .. execLen /\ i \in DOMAIN code
             /\ code[i].op = "load" => code[i].of # Intrin
  <2>1. k \in DOMAIN words /\ Intrin \notin words[k].callees BY <1>6 DEF Closed
  <2>2. WordIs(k) BY <1>1, <2>1 DEF CodeIs
  <2>3. PICK w : w = words[k] OBVIOUS
  <2>4. /\ w.first \in Nat /\ w.ret \in Nat /\ 1 <= w.first /\ w.ret <= valid
        /\ i \in w.first .. w.ret /\ Covered(code[i], i, words, w.callees, w.loads)
    BY <2>2, <2>3 DEF WordIs, Body
  <2>5. execLen = valid /\ valid \in Nat /\ valid <= Len(code) BY <1>1, <1>2 DEF BuiltIs, CodeIs
  <2>6. DOMAIN code = 1 .. Len(code) /\ Len(code) \in Nat BY <1>1, SeqLength
  <2>7. i \in 1 .. execLen /\ i \in DOMAIN code BY <2>4, <2>5, <2>6
  <2>8. code[i].op = "load" => code[i].of # Intrin BY <2>1, <2>3, <2>4 DEF Covered
  <2> QED BY <2>7, <2>8
<1>10. ASSUME NEW i \in 1 .. execLen
       PROVE  Mapped(img, CodeVm + (i - 1) * InstrSize).what = [kind |-> "instr", at |-> i]
  <2>1. Mapped(img, CodeVm + (i - 1) * InstrSize) = [what |-> Instr(i), rest |-> 0]
    BY <1>5 DEF LoadedAs, CodeMapped
  <2> QED BY <2>1 DEF Instr
<1>11. ASSUME NEW i \in DOMAIN code, code[i].op = "load", code[i].of # Intrin, NEW got,
              got = Loaded(img, ReadBy(code[i], CodeVm + (i - 1) * InstrSize))
       PROVE  CASE code[i].of.kind = "intrin" -> FALSE
                [] code[i].of.kind = "data" ->
                     got = [what |-> [kind |-> "data"], rest |-> code[i].of.at]
                [] code[i].of.kind = "extern" -> got = [what |-> code[i].of, rest |-> 0]
  <2>1. i \in Nat \ {0} BY <1>1, SeqLength
  <2>2. PICK x : x = code[i] OBVIOUS
  <2>3. PICK of : of = x.of OBVIOUS
  <2>4. LoadOf(x, i, externs, regions)
    <3>1. Known(x, i, externs, regions) BY <1>1, <2>2 DEF CodeIs
    <3> QED BY <3>1, <2>2, <1>11 DEF Known, Other, Ret, Branch
  <2>5. x # LoadAt(i, IntrinAdr, Intrin)
    <3>1. LoadAt(i, IntrinAdr, Intrin).of = Intrin BY <2>1, AddressesAre, LoadReads
    <3> QED BY <3>1, <2>2, <1>11
  <2>6. CASE \E r \in regions : x = LoadAt(i, DataAdr(r.at), [kind |-> "data", at |-> r.at])
    <3>1. PICK r \in regions : x = LoadAt(i, DataAdr(r.at), [kind |-> "data", at |-> r.at])
      BY <2>6
    <3>2. PICK o : o = [kind |-> "data", at |-> r.at] OBVIOUS
    <3>3. PICK there \in Nat : there = DataAdr(r.at)
      <4>1. r.at \in Nat BY <1>1 DEF DataInv, Region
      <4> QED BY <4>1, AddressesAre
    <3>4. of = o /\ ReadBy(x, CodeVm + (i - 1) * InstrSize)
                      = DataAdr(r.at) + (CodeVm - HeapBase - OffCode)
      BY <2>1, <2>3, <3>1, <3>2, <3>3, LoadReads, LoadMoves
    <3>5. of.kind = "data" /\ of.at = r.at BY <3>2, <3>4
    <3>6. got = [what |-> [kind |-> "data"], rest |-> r.at]
      BY <2>2, <3>4, <1>1, <1>3, <1>5, <1>11, DataLoaded
    <3> QED BY <3>5, <3>6, <2>2, <2>3
  <2>7. CASE \E m \in DOMAIN externs.inds :
               x = LoadAt(i, SlotAdr(externs.inds[m]), [kind |-> "extern", name |-> m])
    <3>1. PICK m \in DOMAIN externs.inds :
            x = LoadAt(i, SlotAdr(externs.inds[m]), [kind |-> "extern", name |-> m])
      BY <2>7
    <3>2. PICK o : o = [kind |-> "extern", name |-> m] OBVIOUS
    <3>3. PICK k : k = externs.inds[m] OBVIOUS
    <3>4. k \in 1 .. n /\ k \in Nat \ {0} /\ externs.names[k] = m
      BY <1>1, <1>3, <3>3 DEF SlotsAre, Slots
    <3>5. PICK there \in Nat : there = SlotAdr(k) BY <3>4, AddressesAre
    <3>6. of = o /\ ReadBy(x, CodeVm + (i - 1) * InstrSize)
                      = SlotAdr(k) + (CodeVm - HeapBase - OffCode)
      BY <2>1, <2>3, <3>1, <3>2, <3>3, <3>5, LoadReads, LoadMoves
    <3>7. of.kind = "extern" BY <3>2, <3>6
    <3>8. got = [what |-> o, rest |-> 0]
      BY <2>2, <3>2, <3>4, <3>6, <1>1, <1>3, <1>5, <1>11, SlotLoaded
    <3> QED BY <3>6, <3>7, <3>8, <2>2, <2>3
  <2> QED BY <2>4, <2>5, <2>6, <2>7 DEF LoadOf
<1>12. Stored(img.file, Command(img, "main").off).what
         = [kind |-> "instr", at |-> words[image.entry].first]
  BY <1>5 DEF Instr
<1>13. ASSUME NEW k \in Reached(image.entry)
       PROVE  /\ \A i \in Targets(k) : Starts(i) # {}
              /\ \A i \in Body(k) :
                   LET at == CodeVm + (i - 1) * InstrSize
                       got == Loaded(img, ReadBy(code[i], at)) IN
                   /\ Mapped(img, at).what = [kind |-> "instr", at |-> i]
                   /\ code[i].op = "load" =>
                        CASE code[i].of.kind = "intrin" -> FALSE
                          [] code[i].of.kind = "data" ->
                               got = [what |-> [kind |-> "data"], rest |-> code[i].of.at]
                          [] code[i].of.kind = "extern" -> got = [what |-> code[i].of, rest |-> 0]
  <2>1. k \in ws BY <1>7
  <2>2. \A i \in Targets(k) : Starts(i) # {} BY <2>1, <1>8
  <2>3. \A i \in Body(k) : /\ i \in 1 .. execLen /\ i \in DOMAIN code
                           /\ code[i].op = "load" => code[i].of # Intrin
    BY <2>1, <1>9
  <2> QED BY <2>2, <2>3, <1>10, <1>11
<1> QED BY <1>4, <1>12, <1>13 DEF LoadsThere

(* In a loaded executable everything which can run from its entry is code of   *)
(* finished words, each branch lands on a word, and each address in the code   *)
(* yields the data or the linked name which the source named; the intrinsics,  *)
(* which the file has not, are named by none (compile_mach_executable,         *)
(* validate_callees_can_compile, asm_append_adrp).                             *)
THEOREM LoadsStayThere == Spec => []LoadsThere
BY AlwaysInv, InvLoadsThere, PTL
=============================================================================
