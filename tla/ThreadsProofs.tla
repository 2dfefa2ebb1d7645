---- MODULE ThreadsProofs ----
(* Proofs about Threads: for any number of threads, connections and mappings,  *)
(* memory is used by one thread at a time and never after it was unmapped, and *)
(* each connection has one closer.                                             *)
EXTENDS Threads, TLAPS

Contexts == Maps \cup {Interp}
RoomOf(c) == IF c = Interp THEN MainRoom ELSE Room[c]

Pcs ==
  {"init", "spawn", "unspawned", "wait", "joined", "not joined", "cleanup", "end",
   "idle", "start", "run", "return", "done", "faulted",
   "accept", "accepted", "refused", "log", "serve", "answer", "unserved", "close", "leave"}

Errs ==
  {Nil, Static} \cup [kind : {"text"}, ctx : Contexts, cell : Nat, says : Threads \X Pcs]

ThreadRec ==
  [pc : Pcs, ctx : Contexts \cup {None}, saved : Contexts \cup {None},
   mem : Maps \cup {None}, run : Nat, err : Errs, fd : Fds \cup {None}]

(* A context which is mapped: its texts and closures are below its top. *)
Fields == {"mapped", "self", "top", "inout", "cells"}
MappedShape(m, room) ==
  /\ m = [f \in Fields |-> m[f]] /\ m.mapped = TRUE
  /\ m.cells = [k \in 1 .. room |-> m.cells[k]]
  /\ m.top \in Nat \ {0}

IsMaps(f) == f = [c \in Contexts |-> f[c]]

Shapes ==
  /\ program \in {"threads", "echo"}
  /\ thread \in [Threads -> ThreadRec]
  /\ cur \in Kids
  /\ child \in [Kids -> [mem : Maps \cup {None}, ok : BOOLEAN]]
  /\ IsMaps(maps)
  /\ \A c \in Maps : maps[c] = Unmapped \/ MappedShape(maps[c], Room[c])
  /\ MappedShape(maps[Interp], MainRoom)
  /\ fds \in [Fds -> Kids \cup {None}]

----
(* Who holds which memory. *)

MainPc == thread[Main].pc

(* The parent is done with child i. *)
Freed(i) == MainPc = "end" \/ (MainPc = "cleanup" /\ i < cur)

Holds(i) ==
  IF program = "threads" THEN thread[i].pc # "idle" \/ (child[i].ok /\ ~Freed(i))
  ELSE thread[i].mem # None
HeldBy(i) == IF program = "threads" THEN child[i].mem ELSE thread[i].mem

(* What is held is mapped, and held once. *)
Held ==
  /\ \A i \in Kids : Holds(i) => HeldBy(i) \in Maps /\ maps[HeldBy(i)] # Unmapped
  /\ \A i, j \in Kids : Holds(i) /\ Holds(j) /\ i # j => HeldBy(i) # HeldBy(j)

(* A text is below the top of its context. *)
WrittenIn(m, err) ==
  /\ m[err.ctx] # Unmapped
  /\ err.cell \in 1 .. RoomOf(err.ctx) /\ err.cell < m[err.ctx].top
  /\ m[err.ctx].cells[err.cell] = err.says
Written(err) == WrittenIn(maps, err)

TextIn(t, c) == thread[t].err.kind = "text" => thread[t].err.ctx = c /\ Written(thread[t].err)

----
(* threads.af *)

Spawning == {"init", "spawn", "unspawned", "faulted"}

ParentOk ==
  /\ MainPc \in Spawning \cup {"wait", "joined", "not joined", "cleanup", "end"}
  /\ MainPc \notin {"unspawned", "joined", "not joined"} => thread[Main].err = Nil
  /\ MainPc \in {"unspawned", "not joined"} => TextIn(Main, Interp)
  /\ MainPc \in {"spawn", "unspawned", "joined", "not joined"} => child[cur].ok
  /\ MainPc = "joined" =>
       /\ TextIn(Main, child[cur].mem)
       /\ thread[Main].err = Nil => maps[child[cur].mem].inout = <<"size", cur>>

(* What the parent has not come to, and what it has waited for. *)
Turned(i) ==
  /\ MainPc \in Spawning /\ i >= cur => thread[i].pc = "idle"
  /\ MainPc \in Spawning /\ i > cur => ~child[i].ok
  /\ MainPc \in {"init", "faulted"} /\ i = cur => ~child[i].ok
  /\ MainPc \in {"wait", "joined", "not joined"} /\ i < cur /\ child[i].ok => thread[i].pc = "idle"
  /\ MainPc = "joined" /\ i = cur => thread[i].pc = "idle"
  /\ MainPc \in {"cleanup", "end"} /\ child[i].ok => thread[i].pc = "idle"

Closure(t) ==
  LET m == thread[t].mem IN
  /\ thread[t].run \in 1 .. RoomOf(m) /\ thread[t].run < maps[m].top
  /\ maps[m].cells[thread[t].run] = [inp |-> m, ctx |-> m]

ChildOk(t) ==
  /\ thread[t].pc \in {"idle", "start", "run", "return", "done", "faulted"}
  /\ thread[t].pc = "idle" => thread[t] = Idle
  /\ thread[t].pc # "idle" => thread[t].mem = child[t].mem
  /\ thread[t].pc \in {"start", "done"} => thread[t].ctx = None
  /\ thread[t].pc \in {"run", "return", "faulted"} =>
       thread[t].ctx = thread[t].mem /\ thread[t].saved = None
  /\ thread[t].pc = "start" => Closure(t)
  /\ thread[t].pc \notin {"return", "done"} => thread[t].err = Nil
  /\ thread[t].pc \in {"return", "done"} =>
       /\ TextIn(t, thread[t].mem)
       /\ thread[t].err = Nil => maps[thread[t].mem].inout = <<"size", t>>

ThreadsOk ==
  /\ ParentOk
  /\ \A i \in Kids : ChildOk(i) /\ Turned(i)
  /\ \A fd \in Fds : fds[fd] = None

----
(* http_echo.af *)

AccepterOk ==
  /\ MainPc \in {"accept", "accepted", "refused", "log", "faulted"}
  /\ MainPc \in {"accept", "accepted", "faulted"} => thread[Main].err = Nil
  /\ TextIn(Main, Interp)

WorkerOk(t) ==
  /\ thread[t].pc \in {"idle", "start", "serve", "answer", "unserved", "close", "log", "leave", "faulted"}
  /\ thread[t].pc = "idle" => thread[t] = Idle
  /\ thread[t].pc \in {"start", "unserved"} => thread[t].ctx = None /\ thread[t].mem = None
  /\ thread[t].pc \in {"serve", "answer", "close", "log", "faulted"} =>
       thread[t].mem # None /\ thread[t].ctx = thread[t].mem /\ thread[t].saved = None
  /\ thread[t].pc = "leave" => thread[t].mem # None /\ thread[t].ctx = None
  /\ thread[t].pc \notin {"unserved", "close", "log"} => thread[t].err = Nil
  /\ TextIn(t, thread[t].mem)

(* A connection is of the main thread before its worker runs, then of the worker. *)
FdsOk ==
  /\ Owes(Main) => /\ thread[Main].fd \in Fds /\ fds[thread[Main].fd] \in Kids
                   /\ thread[fds[thread[Main].fd]].pc = "idle"
  /\ \A t \in Kids : Owes(t) => thread[t].fd \in Fds /\ fds[thread[t].fd] = t
  /\ \A fd \in Fds : fds[fd] # None => \E t \in Threads : Owes(t) /\ thread[t].fd = fd

EchoOk ==
  /\ AccepterOk
  /\ \A t \in Kids : WorkerOk(t)
  /\ FdsOk

Inv ==
  /\ Shapes
  /\ thread[Main].ctx = Interp
  /\ Held
  /\ program = "threads" => ThreadsOk
  /\ program = "echo" => EchoOk
----
(* What the operators on memory do. *)

(* Nothing below the top of a context changes. *)
Grows(m, n, room) ==
  /\ MappedShape(n, room)
  /\ n.top >= m.top
  /\ \A k \in 1 .. room : k < m.top => n.cells[k] = m.cells[k]

LEMMA ContextTypes ==
  /\ Kids \subseteq Nat \ {0} /\ Main \in Threads /\ Main \notin Kids /\ Kids \subseteq Threads
  /\ \A t \in Threads : t # Main => t \in Kids
  /\ Contexts \subseteq Int /\ None \notin Contexts /\ Interp \in Contexts /\ Interp \notin Maps
  /\ None \notin Maps /\ None \notin Fds /\ None \notin Kids
  /\ \A c \in Maps : c \in Contexts /\ RoomOf(c) = Room[c] /\ RoomOf(c) \in Nat
  /\ RoomOf(Interp) = MainRoom /\ MainRoom \in Nat
BY ThreadsAssumption DEF Kids, Threads, Main, Contexts, Maps, Interp, None, RoomOf

LEMMA NilStatic ==
  /\ Nil \in Errs /\ Static \in Errs /\ Nil.kind # "text" /\ Static.kind # "text"
  /\ Static # Nil
BY DEF Errs, Nil, Static

LEMMA Allocates ==
  ASSUME NEW c \in Contexts, IsMaps(maps),
         MappedShape(maps[c], RoomOf(c)), HasRoom(c), NEW val
  PROVE  LET new == Allocated(c, val) IN
         /\ IsMaps(new)
         /\ \A x \in Contexts \ {c} : new[x] = maps[x]
         /\ Grows(maps[c], new[c], RoomOf(c))
         /\ new[c].top = maps[c].top + 1
         /\ new[c].inout = maps[c].inout /\ new[c].self = maps[c].self
         /\ maps[c].top \in 1 .. RoomOf(c)
         /\ new[c].cells[maps[c].top] = val
<1> DEFINE room == RoomOf(c)
           m == maps[c]
           n == Allocated(c, val)[c]
           cells == [m.cells EXCEPT ![m.top] = val]
<1>0. MappedShape(m, room) OBVIOUS
<1>2. m.top \in 1 .. room BY <1>0 DEF HasRoom, MappedShape
<1>3. n = [m EXCEPT !.cells = cells, !.top = m.top + 1] BY DEF Allocated, IsMaps
<1>5. /\ IsMaps(Allocated(c, val))
      /\ \A x \in Contexts \ {c} : Allocated(c, val)[x] = maps[x]
  BY DEF Allocated, IsMaps
<1> HIDE DEF n, m, room, cells
<1>4. cells = [k \in 1 .. room |-> IF k = m.top THEN val ELSE m.cells[k]]
  BY <1>0 DEF MappedShape, cells
<1>6. /\ n.top = m.top + 1 /\ n.inout = m.inout /\ n.self = m.self /\ n.cells = cells
      /\ n.mapped = TRUE /\ n = [x \in Fields |-> n[x]]
  BY <1>0, <1>3 DEF MappedShape, Fields
<1>7. MappedShape(n, room)
  <2>1. cells = [k \in 1 .. room |-> cells[k]] BY <1>4
  <2>2. n.top \in Nat \ {0} BY <1>0, <1>6 DEF MappedShape
  <2> QED BY <1>6, <2>1, <2>2 DEF MappedShape
<1>8. Grows(m, n, room)
  <2>1. m.top \in Nat BY <1>0 DEF MappedShape
  <2> QED BY <2>1, <1>4, <1>6, <1>7 DEF Grows
<1>9. n.cells[m.top] = val BY <1>2, <1>4, <1>6
<1> QED BY <1>2, <1>5, <1>6, <1>8, <1>9 DEF n, m, room

LEMMA Mapped ==
  ASSUME NEW m, NEW room, MappedShape(m, room)
  PROVE  m # Unmapped /\ m.mapped = TRUE
BY DEF MappedShape, Unmapped

LEMMA ShapeOf ==
  ASSUME Shapes, NEW c \in Contexts, maps[c] # Unmapped
  PROVE  MappedShape(maps[c], RoomOf(c))
BY ContextTypes DEF Shapes, Contexts

LEMMA NewContext ==
  ASSUME NEW self, NEW room \in Nat
  PROVE  MappedShape(Ctx(self, room), room) /\ Ctx(self, room).self = self
<1> DEFINE m == Ctx(self, room)
           cells == [k \in 1 .. room |-> None]
<1>1. m = [mapped |-> TRUE, self |-> self, top |-> 1, inout |-> None, cells |-> cells]
  BY DEF Ctx
<1>2. cells = [k \in 1 .. room |-> cells[k]] OBVIOUS
<1> HIDE DEF m, cells
<1>3. m = [f \in Fields |-> m[f]] BY <1>1 DEF Fields
<1>4. m.self = self /\ m.mapped = TRUE /\ m.cells = cells /\ m.top = 1 BY <1>1
<1>5. m.cells = [k \in 1 .. room |-> m.cells[k]] BY <1>2, <1>4
<1>6. MappedShape(m, room) BY <1>3, <1>4, <1>5 DEF MappedShape
<1> QED BY <1>4, <1>6 DEF m

(* A text stays as long as its context only grows. *)
LEMMA TextStays ==
  ASSUME NEW t \in Threads, NEW c \in Contexts, TextIn(t, c),
         thread'[t].err = thread[t].err,
         maps'[c] = maps[c] \/ Grows(maps[c], maps'[c], RoomOf(c)),
         Shapes
  PROVE  TextIn(t, c)'
<1> SUFFICES ASSUME thread[t].err.kind = "text"
             PROVE  thread[t].err.ctx = c /\ WrittenIn(maps', thread[t].err)
  BY DEF TextIn, Written
<1>1. thread[t].err.ctx = c /\ WrittenIn(maps, thread[t].err) BY DEF TextIn, Written
<1>2. CASE maps'[c] = maps[c] BY <1>1, <1>2 DEF WrittenIn
<1>3. CASE Grows(maps[c], maps'[c], RoomOf(c))
  <2>1. maps'[c] # Unmapped BY <1>3, Mapped DEF Grows
  <2>2. maps[c].top \in Nat BY <1>1, ShapeOf DEF WrittenIn, MappedShape
  <2>3. maps'[c].top \in Nat BY <1>3 DEF Grows, MappedShape
  <2>4. RoomOf(c) \in Nat BY ContextTypes DEF Contexts
  <2> QED BY <1>1, <1>3, <2>1, <2>2, <2>3, <2>4 DEF Grows, WrittenIn
<1> QED BY <1>2, <1>3

LEMMA BecomesTypes ==
  ASSUME Shapes, NEW t \in Threads, NEW rec \in ThreadRec, Becomes(t, rec)
  PROVE  /\ thread' \in [Threads -> ThreadRec]
         /\ thread'[t] = rec
         /\ \A u \in Threads \ {t} : thread'[u] = thread[u]
BY DEF Becomes, Shapes

LEMMA GotoTypes ==
  ASSUME Shapes, NEW t \in Threads, NEW pc \in Pcs, NEW err \in Errs
  PROVE  LET rec == Goto(t, pc, err) IN
         /\ rec \in ThreadRec /\ rec.pc = pc /\ rec.err = err
         /\ rec.ctx = thread[t].ctx /\ rec.saved = thread[t].saved /\ rec.mem = thread[t].mem
         /\ rec.run = thread[t].run /\ rec.fd = thread[t].fd
BY DEF Goto, Shapes, ThreadRec

(* .os_err adds to the context of its thread, and its text is written there. *)
LEMMA OsErrWrites ==
  ASSUME Shapes, NEW t \in Threads, NEW pc \in Pcs, OsErr(t, pc),
         NEW c \in Contexts, c = thread[t].ctx, maps[c] # Unmapped
  PROVE  /\ IsMaps(maps)'
         /\ \A x \in Contexts \ {c} : maps'[x] = maps[x]
         /\ Grows(maps[c], maps'[c], RoomOf(c)) /\ maps'[c].inout = maps[c].inout
         /\ thread' \in [Threads -> ThreadRec]
         /\ \A u \in Threads \ {t} : thread'[u] = thread[u]
         /\ thread'[t].pc = pc /\ thread'[t].err # Nil
         /\ thread'[t].ctx = thread[t].ctx /\ thread'[t].saved = thread[t].saved
         /\ thread'[t].mem = thread[t].mem /\ thread'[t].run = thread[t].run
         /\ thread'[t].fd = thread[t].fd
         /\ TextIn(t, c)'
<1>1. MappedShape(maps[c], RoomOf(c)) BY ShapeOf
<1>2. IsMaps(maps) BY DEF Shapes
<1>3. CASE HasRoom(c)
  <2> DEFINE at == maps[c].top
             says == <<t, pc>>
             err == Text(c, says)
             new == Allocated(c, says)
  <2>1. Becomes(t, Goto(t, pc, err)) /\ maps' = new BY <1>3 DEF OsErr
  <2>2. /\ IsMaps(new)
        /\ \A x \in Contexts \ {c} : new[x] = maps[x]
        /\ Grows(maps[c], new[c], RoomOf(c))
        /\ new[c].inout = maps[c].inout
    BY <1>1, <1>2, <1>3, Allocates
  <2>3. new[c].top = at + 1 /\ at \in 1 .. RoomOf(c)
    BY <1>1, <1>2, <1>3, Allocates
  <2>4. new[c].cells[at] = says
    BY <1>1, <1>2, <1>3, Allocates
  <2>5. at \in Nat /\ at < new[c].top
    <3>1. RoomOf(c) \in Nat BY ContextTypes DEF Contexts
    <3> HIDE DEF new, at
    <3> QED BY <2>3, <3>1
  <2>6. says \in Threads \X Pcs OBVIOUS
  <2>7. err = [kind |-> "text", ctx |-> c, cell |-> at, says |-> says] BY DEF Text
  <2> HIDE DEF err, new, says, at
  <2>8. err \in Errs BY <2>5, <2>6, <2>7 DEF Errs
  <2>9. err # Nil /\ err.ctx = c /\ err.cell = at /\ err.says = says BY <2>7 DEF Nil
  <2>10. Goto(t, pc, err) \in ThreadRec BY <2>8, GotoTypes
  <2>11. thread'[t] = Goto(t, pc, err) /\ thread' \in [Threads -> ThreadRec]
         /\ \A u \in Threads \ {t} : thread'[u] = thread[u]
    BY <2>1, <2>10, BecomesTypes
  <2>12. /\ thread'[t].pc = pc /\ thread'[t].err = err
         /\ thread'[t].ctx = thread[t].ctx /\ thread'[t].saved = thread[t].saved
         /\ thread'[t].mem = thread[t].mem /\ thread'[t].run = thread[t].run
         /\ thread'[t].fd = thread[t].fd
    BY <2>8, <2>11, GotoTypes
  <2>13. new[c] # Unmapped BY <2>2, Mapped DEF Grows
  <2>14. WrittenIn(maps', err)
    BY <2>1, <2>3, <2>4, <2>5, <2>9, <2>13 DEF WrittenIn
  <2>15. TextIn(t, c)' BY <2>9, <2>12, <2>14 DEF TextIn, Written
  <2>16. IsMaps(maps)' BY <2>1, <2>2 DEF IsMaps
  <2> QED BY <2>1, <2>2, <2>9, <2>11, <2>12, <2>15, <2>16
<1>4. CASE ~HasRoom(c)
  <2>1. Becomes(t, Goto(t, pc, Static)) /\ maps' = maps BY <1>4 DEF OsErr
  <2>2. Goto(t, pc, Static) \in ThreadRec BY NilStatic, GotoTypes
  <2>3. thread'[t] = Goto(t, pc, Static) /\ thread' \in [Threads -> ThreadRec]
        /\ \A u \in Threads \ {t} : thread'[u] = thread[u]
    BY <2>1, <2>2, BecomesTypes
  <2>4. Grows(maps[c], maps'[c], RoomOf(c))
    <3>1. maps[c].top \in Nat BY <1>1 DEF MappedShape
    <3> QED BY <1>1, <2>1, <3>1 DEF Grows
  <2>5. thread'[t].err = Static BY <2>3, NilStatic, GotoTypes
  <2>6. TextIn(t, c)' BY <2>5, NilStatic DEF TextIn
  <2> QED BY <1>2, <2>1, <2>3, <2>4, <2>5, <2>6, NilStatic, GotoTypes
<1> QED BY <1>3, <1>4
----
(* The program with joined threads. *)

ThreadsInv ==
  /\ Shapes /\ program = "threads"
  /\ thread[Main].ctx = Interp
  /\ Held
  /\ ThreadsOk

(* Memory in use is changed by its user only, in this step. *)
OneUserStep ==
  \A t \in Threads : Runs(t) /\ maps'[MemoryOf(t)] # maps[MemoryOf(t)]
                     => thread'[t] # thread[t]

LEMMA ChildMemory ==
  ASSUME ThreadsInv, NEW t \in Kids, thread[t].pc # "idle"
  PROVE  /\ thread[t].mem = child[t].mem /\ thread[t].mem \in Maps
         /\ MappedShape(maps[thread[t].mem], Room[thread[t].mem])
         /\ Holds(t)
<1>1. thread[t].mem = child[t].mem BY DEF ThreadsInv, ThreadsOk, ChildOk
<1>2. Holds(t) /\ HeldBy(t) = child[t].mem BY DEF ThreadsInv, Holds, HeldBy
<1>3. child[t].mem \in Maps /\ maps[child[t].mem] # Unmapped
  BY <1>2 DEF ThreadsInv, Held
<1>4. MappedShape(maps[child[t].mem], RoomOf(child[t].mem))
  BY <1>3, ShapeOf, ContextTypes DEF ThreadsInv
<1> QED BY <1>1, <1>2, <1>3, <1>4, ContextTypes

LEMMA ChildStays ==
  ASSUME ThreadsInv, NEW t \in Kids, thread'[t] = thread[t], child'[t].mem = child[t].mem,
         thread[t].pc # "idle" => maps'[child[t].mem] = maps[child[t].mem]
  PROVE  ChildOk(t)'
<1>1. ChildOk(t) BY DEF ThreadsInv, ThreadsOk
<1>2. CASE thread[t].pc = "idle" BY <1>1, <1>2 DEF ChildOk, Idle
<1>3. CASE thread[t].pc # "idle"
  <2>1. thread[t].mem = child[t].mem /\ thread[t].mem \in Contexts
    BY <1>3, ChildMemory, ContextTypes
  <2>2. maps'[thread[t].mem] = maps[thread[t].mem] BY <1>3, <2>1
  <2>3. TextIn(t, thread[t].mem) => TextIn(t, thread[t].mem)'
    BY <2>1, <2>2, TextStays, ContextTypes DEF ThreadsInv
  <2>4. Closure(t) => Closure(t)' BY <2>2 DEF Closure, RoomOf
  <2> QED BY <1>1, <1>3, <2>1, <2>2, <2>3, <2>4 DEF ChildOk
<1> QED BY <1>2, <1>3

LEMMA HeldStays ==
  ASSUME Held, \A i \in Kids : Holds(i)' => /\ Holds(i) /\ HeldBy(i)' = HeldBy(i)
                                            /\ maps'[HeldBy(i)] # Unmapped
  PROVE  Held'
BY DEF Held

LEMMA TurnTypes ==
  ASSUME ThreadsInv, NEW pc \in {"init", "wait", "cleanup"}, Turn(pc)
  PROVE  /\ cur' \in Kids
         /\ thread' \in [Threads -> ThreadRec]
         /\ \A u \in Kids : thread'[u] = thread[u]
         /\ thread'[Main].err = Nil /\ thread'[Main].ctx = Interp
         /\ \/ cur' = cur + 1 /\ MainPc' = pc
            \/ /\ cur = Children /\ cur' = 1
               /\ MainPc' = IF pc = "init" THEN "wait" ELSE IF pc = "wait" THEN "cleanup" ELSE "end"
<1>1. cur \in 1 .. Children /\ Children \in Nat \ {0} /\ thread[Main].ctx = Interp /\ Shapes
  BY ThreadsAssumption DEF ThreadsInv, Shapes, Kids
<1>2. Main \in Threads /\ Nil \in Errs BY ContextTypes, NilStatic
<1>3. CASE cur < Children
  <2>1. cur' = cur + 1 /\ Becomes(Main, Goto(Main, pc, Nil)) BY <1>3 DEF Turn
  <2>2. cur' \in Kids BY <1>1, <1>3, <2>1 DEF Kids
  <2>3. pc \in Pcs BY DEF Pcs
  <2>4. thread' \in [Threads -> ThreadRec] /\ thread'[Main] = Goto(Main, pc, Nil)
        /\ \A u \in Threads \ {Main} : thread'[u] = thread[u]
    BY <1>1, <1>2, <2>1, <2>3, GotoTypes, BecomesTypes
  <2> QED BY <1>1, <1>2, <2>1, <2>2, <2>3, <2>4, GotoTypes, ContextTypes DEF MainPc
<1>4. CASE ~(cur < Children)
  <2>1. cur' = 1 /\ Becomes(Main, Goto(Main, Following(pc), Nil)) BY <1>4 DEF Turn
  <2>2. cur' \in Kids BY <1>1, <2>1 DEF Kids
  <2>3. Following(pc) = IF pc = "init" THEN "wait" ELSE IF pc = "wait" THEN "cleanup" ELSE "end"
    <3>1. CASE pc = "init" BY <3>1 DEF Following
    <3>2. CASE pc = "wait" BY <3>2 DEF Following
    <3>3. CASE pc = "cleanup" BY <3>3 DEF Following
    <3> QED BY <3>1, <3>2, <3>3
  <2>4. Following(pc) \in Pcs BY <2>3 DEF Pcs
  <2>5. cur = Children BY <1>1, <1>4
  <2>6. thread' \in [Threads -> ThreadRec] /\ thread'[Main] = Goto(Main, Following(pc), Nil)
        /\ \A u \in Threads \ {Main} : thread'[u] = thread[u]
    BY <1>1, <1>2, <2>1, <2>4, GotoTypes, BecomesTypes
  <2>7. /\ thread'[Main].pc = Following(pc) /\ thread'[Main].err = Nil
        /\ thread'[Main].ctx = thread[Main].ctx
    BY <1>1, <1>2, <2>4, <2>6, GotoTypes
  <2> QED BY <1>1, <2>1, <2>2, <2>3, <2>5, <2>6, <2>7, ContextTypes DEF MainPc
<1> QED BY <1>3, <1>4

(* What turns the parent to, as TurnTypes gives it. *)
AfterLast(pc) == IF pc = "init" THEN "wait" ELSE IF pc = "wait" THEN "cleanup" ELSE "end"
Turns(pc) ==
  /\ pc \in {"init", "wait", "cleanup"}
  /\ cur \in Kids /\ cur' \in Kids
  /\ pc = "init" => MainPc \in {"init", "unspawned"}
  /\ pc = "wait" => MainPc \in {"wait", "joined", "not joined"}
  /\ pc = "cleanup" => MainPc = "cleanup"
  /\ \/ cur' = cur + 1 /\ MainPc' = pc
     \/ cur = Children /\ cur' = 1 /\ MainPc' = AfterLast(pc)

LEMMA KidsBound ==
  Children \in Nat /\ \A i \in Kids : i \in Nat \ {0} /\ i <= Children
<1>1. Children \in Nat BY ThreadsAssumption
<1> QED BY <1>1 DEF Kids

LEMMA TurnFrees ==
  ASSUME NEW pc, Turns(pc), NEW i \in Kids
  PROVE  /\ Freed(i) => Freed(i)'
         /\ pc = "cleanup" /\ i = cur => Freed(i)'
<1>1. i \in Nat \ {0} /\ i <= Children /\ cur \in Nat \ {0} /\ Children \in Nat
  BY KidsBound DEF Turns
<1>2. CASE pc = "init" BY <1>2 DEF Turns, Freed
<1>3. CASE pc = "wait" BY <1>3 DEF Turns, Freed
<1>4. CASE pc = "cleanup" BY <1>1, <1>4 DEF Turns, Freed, AfterLast
<1> QED BY <1>2, <1>3, <1>4 DEF Turns

LEMMA TurnTurns ==
  ASSUME NEW pc, Turns(pc), NEW i \in Kids, Turned(i), thread'[i] = thread[i],
         child'[i].ok => child[i].ok,
         pc = "init" /\ i = cur => ~child'[i].ok,
         pc = "wait" /\ i = cur /\ child'[i].ok => thread[i].pc = "idle"
  PROVE  Turned(i)'
<1>1. i \in Nat \ {0} /\ i <= Children /\ cur \in Nat \ {0} /\ Children \in Nat
  BY KidsBound DEF Turns
<1>2. CASE pc = "init"
  <2>1. CASE cur' = cur + 1 /\ MainPc' = "init"
    <3>1. i >= cur' \/ i > cur' => i >= cur /\ i > cur BY <1>1, <2>1
    <3>2. MainPc \in Spawning BY <1>2 DEF Turns, Spawning
    <3>3. i >= cur' \/ i > cur' => thread[i].pc = "idle" /\ ~child[i].ok
      BY <3>1, <3>2 DEF Turned
    <3>4. i = cur' => i >= cur' BY <1>1, <2>1
    <3> QED BY <2>1, <3>3, <3>4 DEF Turned
  <2>2. CASE cur = Children /\ cur' = 1 /\ MainPc' = "wait"
    <3>1. ~(i < cur') BY <1>1, <2>2
    <3> QED BY <2>2, <3>1 DEF Turned, Spawning
  <2> QED BY <1>2, <2>1, <2>2 DEF Turns, AfterLast
<1>3. CASE pc = "wait"
  <2>0. child'[i].ok /\ i <= cur => thread[i].pc = "idle"
    <3>1. i <= cur => i < cur \/ i = cur BY <1>1
    <3> QED BY <1>3, <3>1 DEF Turns, Turned
  <2>1. CASE cur' = cur + 1 /\ MainPc' = "wait"
    <3>1. i < cur' => i <= cur BY <1>1, <2>1
    <3> QED BY <2>0, <2>1, <3>1 DEF Turned, Spawning
  <2>2. CASE cur = Children /\ cur' = 1 /\ MainPc' = "cleanup"
    <3>1. i <= cur BY <1>1, <2>2
    <3> QED BY <2>0, <2>2, <3>1 DEF Turned, Spawning
  <2> QED BY <1>3, <2>1, <2>2 DEF Turns, AfterLast
<1>4. CASE pc = "cleanup"
  <2>1. MainPc = "cleanup" /\ MainPc' \in {"cleanup", "end"} BY <1>4 DEF Turns, AfterLast
  <2> QED BY <2>1 DEF Turned, Spawning
<1> QED BY <1>2, <1>3, <1>4 DEF Turns

(* A turn to the next child or phase, when the memory of the current child may *)
(* have been unmapped.                                                         *)
LEMMA ParentTurns ==
  ASSUME ThreadsInv, NEW pc \in {"init", "wait", "cleanup"}, Turn(pc),
         NEW c \in Kids, c = cur,
         pc = "init" => MainPc \in {"init", "unspawned"},
         pc = "wait" => MainPc \in {"wait", "joined", "not joined"},
         pc = "cleanup" => MainPc = "cleanup",
         UNCHANGED <<program, fds>>,
         child' \in [Kids -> [mem : Maps \cup {None}, ok : BOOLEAN]],
         \A i \in Kids : child'[i].mem = child[i].mem /\ (child'[i].ok => child[i].ok),
         pc = "init" => ~child'[c].ok,
         pc = "wait" /\ child'[c].ok => thread[c].pc = "idle",
         IsMaps(maps)',
         \A x \in Contexts : \/ maps'[x] = maps[x]
                             \/ /\ x = child[c].mem /\ x \in Maps /\ maps'[x] = Unmapped
                                /\ pc # "wait" /\ Holds(c) /\ thread[c].pc = "idle"
  PROVE  ThreadsInv' /\ OneUserStep
<1>1. /\ cur' \in Kids
      /\ thread' \in [Threads -> ThreadRec]
      /\ \A u \in Kids : thread'[u] = thread[u]
      /\ thread'[Main].err = Nil /\ thread'[Main].ctx = Interp
      /\ \/ cur' = cur + 1 /\ MainPc' = pc
         \/ cur = Children /\ cur' = 1 /\ MainPc' = AfterLast(pc)
  BY TurnTypes DEF AfterLast
<1>2. program = "threads" /\ Shapes BY DEF ThreadsInv
<1>t. Turns(pc) BY <1>1 DEF Turns
<1>3. Shapes'
  <2>1. maps'[Interp] = maps[Interp] /\ \A x \in Maps : maps'[x] = maps[x] \/ maps'[x] = Unmapped
    BY ContextTypes
  <2> QED BY <1>1, <1>2, <2>1 DEF Shapes
<1>4. ASSUME NEW i \in Kids, Holds(i)' PROVE Holds(i) /\ HeldBy(i)' = HeldBy(i)
  <2>1. thread[i].pc # "idle" \/ (child[i].ok /\ ~Freed(i)')
    BY <1>1, <1>2, <1>4 DEF Holds
  <2>2. Freed(i) => Freed(i)' BY <1>t, TurnFrees
  <2> QED BY <1>2, <2>1, <2>2 DEF Holds, HeldBy
<1>5. Holds(c)' => thread[c].pc # "idle" \/ pc = "wait"
  <2>1. pc = "cleanup" => Freed(c)' BY <1>t, TurnFrees
  <2>2. Holds(c)' => thread'[c].pc # "idle" \/ (child'[c].ok /\ ~Freed(c)')
    BY <1>2 DEF Holds
  <2> QED BY <1>1, <2>1, <2>2
<1>6. ASSUME NEW i \in Kids, Holds(i)' PROVE maps'[HeldBy(i)] = maps[HeldBy(i)]
  <2>1. HeldBy(i) \in Contexts /\ HeldBy(i) = child[i].mem
    BY <1>2, <1>4, <1>6, ContextTypes DEF ThreadsInv, Held, HeldBy
  <2>2. CASE maps'[HeldBy(i)] # maps[HeldBy(i)]
    <3>1. HeldBy(i) = child[c].mem /\ Holds(c) /\ thread[c].pc = "idle" /\ pc # "wait"
      BY <2>1, <2>2
    <3>2. HeldBy(c) = child[c].mem BY <1>2 DEF HeldBy
    <3>3. i = c
      <4>1. Holds(i) /\ Holds(c) /\ HeldBy(i) = HeldBy(c) BY <1>4, <1>6, <3>1, <3>2
      <4> QED BY <4>1 DEF ThreadsInv, Held
    <3>4. ~Holds(c)' BY <1>5, <3>1
    <3> QED BY <1>6, <3>3, <3>4
  <2> QED BY <2>2
<1>7. Held'
  <2>1. \A i \in Kids : Holds(i)' => maps'[HeldBy(i)] # Unmapped
    BY <1>4, <1>6 DEF ThreadsInv, Held
  <2> QED BY <1>4, <2>1, HeldStays DEF ThreadsInv
<1>8. \A t \in Kids : thread[t].pc # "idle" => maps'[child[t].mem] = maps[child[t].mem]
  <2> SUFFICES ASSUME NEW t \in Kids, thread[t].pc # "idle"
               PROVE  maps'[child[t].mem] = maps[child[t].mem]
    OBVIOUS
  <2>1. Holds(t)' BY <1>1, <1>2 DEF Holds
  <2>2. HeldBy(t) = child[t].mem BY <1>2 DEF HeldBy
  <2> QED BY <1>6, <2>1, <2>2
<1>9. \A t \in Kids : ChildOk(t)' BY <1>1, <1>8, ChildStays
<1>10. ASSUME NEW i \in Kids PROVE Turned(i)'
  <2>1. Turned(i) BY DEF ThreadsInv, ThreadsOk
  <2> QED BY <1>1, <1>t, <2>1, TurnTurns
<1>11. ParentOk'
  <2>1. MainPc' \in {"init", "wait", "cleanup", "end"} BY <1>1 DEF AfterLast
  <2> QED BY <1>1, <2>1 DEF ParentOk, Spawning
<1>12. \A fd \in Fds : fds'[fd] = None BY DEF ThreadsInv, ThreadsOk
<1>13. OneUserStep
  <2> SUFFICES ASSUME NEW t \in Threads, Runs(t)
               PROVE  maps'[MemoryOf(t)] = maps[MemoryOf(t)]
    BY DEF OneUserStep
  <2>1. CASE t = Main BY <2>1, ContextTypes DEF MemoryOf
  <2>2. CASE t \in Kids
    <3>1. thread[t].pc # "idle" /\ MemoryOf(t) = thread[t].mem
      BY <2>2, ContextTypes DEF Runs, MemoryOf
    <3>2. thread[t].mem = child[t].mem BY <2>2, <3>1, ChildMemory
    <3>3. PICK mem : mem = MemoryOf(t) OBVIOUS
    <3>4. mem = child[t].mem BY <3>1, <3>2, <3>3
    <3>5. maps'[child[t].mem] = maps[child[t].mem] BY <1>8, <2>2, <3>1
    <3> QED BY <3>3, <3>4, <3>5
  <2> QED BY <2>1, <2>2, ContextTypes
<1> QED BY <1>1, <1>2, <1>3, <1>7, <1>9, <1>10, <1>11, <1>12, <1>13 DEF ThreadsInv, ThreadsOk

LEMMA RecordTypes ==
  ASSUME NEW rec \in ThreadRec, NEW c \in Contexts
  PROVE  LET new == Pushed(rec, c) IN
         /\ new \in ThreadRec /\ new.ctx = c /\ new.saved = rec.ctx
         /\ new.pc = rec.pc /\ new.mem = rec.mem /\ new.run = rec.run
         /\ new.err = rec.err /\ new.fd = rec.fd
BY DEF Pushed, ThreadRec

(* A thread's record with another place in the program. *)
Placed(rec, pc) == [rec EXCEPT !.pc = pc]

LEMMA PcTypes ==
  ASSUME NEW rec \in ThreadRec, NEW pc \in Pcs, NEW new, new = Placed(rec, pc)
  PROVE  /\ new \in ThreadRec /\ new.ctx = rec.ctx /\ new.saved = rec.saved
         /\ new.pc = pc /\ new.mem = rec.mem /\ new.run = rec.run
         /\ new.err = rec.err /\ new.fd = rec.fd
BY DEF Placed, ThreadRec

LEMMA ReturnTypes ==
  ASSUME NEW rec \in ThreadRec, NEW pc \in Pcs, NEW new, new = Placed(Popped(rec), pc)
  PROVE  /\ new \in ThreadRec /\ new.ctx = rec.saved /\ new.saved = None
         /\ new.pc = pc /\ new.mem = rec.mem /\ new.run = rec.run
         /\ new.err = rec.err /\ new.fd = rec.fd
<1>1. Popped(rec) \in ThreadRec /\ Popped(rec).ctx = rec.saved /\ Popped(rec).saved = None
      /\ Popped(rec).mem = rec.mem /\ Popped(rec).run = rec.run
      /\ Popped(rec).err = rec.err /\ Popped(rec).fd = rec.fd
  BY DEF Popped, ThreadRec
<1> QED BY <1>1, PcTypes

LEMMA StoresInout ==
  ASSUME NEW f, NEW c \in Contexts, IsMaps(f), MappedShape(f[c], RoomOf(c)), NEW val
  PROVE  LET new == [f EXCEPT ![c].inout = val] IN
         /\ IsMaps(new)
         /\ \A x \in Contexts \ {c} : new[x] = f[x]
         /\ Grows(f[c], new[c], RoomOf(c))
         /\ new[c].inout = val /\ new[c].self = f[c].self
         /\ new[c].cells = f[c].cells /\ new[c].top = f[c].top
<1> DEFINE room == RoomOf(c)
           m == f[c]
           n == [f EXCEPT ![c].inout = val][c]
<1>0. MappedShape(m, room) OBVIOUS
<1>1. n = [m EXCEPT !.inout = val] BY DEF IsMaps
<1>2. /\ IsMaps([f EXCEPT ![c].inout = val])
      /\ \A x \in Contexts \ {c} : [f EXCEPT ![c].inout = val][x] = f[x]
  BY DEF IsMaps
<1> HIDE DEF n, m, room
<1>3. /\ n.top = m.top /\ n.inout = val /\ n.self = m.self /\ n.cells = m.cells
      /\ n.mapped = TRUE /\ n = [x \in Fields |-> n[x]]
  BY <1>0, <1>1 DEF MappedShape, Fields
<1>4. m.cells = [k \in 1 .. room |-> m.cells[k]] /\ m.top \in Nat \ {0}
  BY <1>0 DEF MappedShape
<1>5. MappedShape(n, room) BY <1>3, <1>4 DEF MappedShape
<1>6. Grows(m, n, room) BY <1>3, <1>4, <1>5 DEF Grows
<1> QED BY <1>2, <1>3, <1>6 DEF n, m, room

(* A step of a child which changes its own memory at most. *)
LEMMA ChildSteps ==
  ASSUME ThreadsInv, NEW t \in Kids, thread[t].pc # "idle",
         UNCHANGED <<program, cur, child, fds>>,
         thread' \in [Threads -> ThreadRec],
         \A u \in Threads \ {t} : thread'[u] = thread[u],
         thread'[t] # thread[t], thread'[t].pc # "idle", ChildOk(t)',
         IsMaps(maps)',
         \A x \in Contexts \ {thread[t].mem} : maps'[x] = maps[x],
         MappedShape(maps'[thread[t].mem], Room[thread[t].mem])
  PROVE  ThreadsInv' /\ OneUserStep
<1> DEFINE mem == thread[t].mem
<1>1. /\ mem = child[t].mem /\ mem \in Maps /\ Holds(t) BY ChildMemory
<1>2. program = "threads" /\ Shapes /\ Held /\ ThreadsOk /\ thread[Main].ctx = Interp
  BY DEF ThreadsInv
<1>3. thread'[Main] = thread[Main] BY ContextTypes
<1>4. Shapes'
  <2>1. \A x \in Maps : maps'[x] = Unmapped \/ MappedShape(maps'[x], Room[x])
    BY <1>1, <1>2, ContextTypes DEF Shapes
  <2>2. MappedShape(maps'[Interp], MainRoom) BY <1>1, <1>2, ContextTypes DEF Shapes
  <2> QED BY <1>2, <2>1, <2>2 DEF Shapes
<1>5. Held'
  <2>1. ASSUME NEW i \in Kids, Holds(i)'
        PROVE  Holds(i) /\ HeldBy(i)' = HeldBy(i) /\ maps'[HeldBy(i)] # Unmapped
    <3>1. Freed(i)' <=> Freed(i) BY <1>3 DEF Freed, MainPc
    <3>2. Holds(i) /\ HeldBy(i)' = HeldBy(i)
      BY <1>2, <2>1, <3>1, ContextTypes DEF Holds, HeldBy
    <3>3. HeldBy(i) \in Maps /\ maps[HeldBy(i)] # Unmapped BY <1>2, <3>2 DEF Held
    <3>4. maps'[HeldBy(i)] # Unmapped
      BY <1>1, <3>3, Mapped, ContextTypes
    <3> QED BY <3>2, <3>4
  <2> QED BY <1>2, <2>1, HeldStays
<1>6. ASSUME NEW u \in Kids, u # t, Holds(u) PROVE child[u].mem # mem
  <2>1. HeldBy(u) = child[u].mem /\ HeldBy(t) = mem BY <1>1, <1>2 DEF HeldBy
  <2> QED BY <1>1, <1>2, <1>6, <2>1 DEF Held
<1>7. ASSUME NEW u \in Kids PROVE ChildOk(u)'
  <2>1. CASE u = t BY <2>1
  <2>2. CASE u # t
    <3>1. thread[u].pc # "idle" => child[u].mem \in Contexts /\ Holds(u)
      BY ChildMemory, ContextTypes
    <3>2. thread[u].pc # "idle" => maps'[child[u].mem] = maps[child[u].mem]
      BY <1>6, <2>2, <3>1
    <3> QED BY <2>2, <3>2, ChildStays, ContextTypes
  <2> QED BY <2>1, <2>2
<1>8. ASSUME NEW u \in Kids PROVE Turned(u)'
  <2>1. thread'[u].pc = "idle" <=> thread[u].pc = "idle" BY ContextTypes
  <2>2. Turned(u) BY <1>2 DEF ThreadsOk
  <2> QED BY <1>3, <2>1, <2>2 DEF Turned, MainPc
<1>9. ParentOk'
  <2>1. ParentOk BY <1>2 DEF ThreadsOk
  <2>2. TextIn(Main, Interp) => TextIn(Main, Interp)'
    BY <1>1, <1>2, <1>3, TextStays, ContextTypes
  <2>3. CASE MainPc = "joined"
    <3>0. PICK c \in Kids : c = cur BY <1>2 DEF Shapes
    <3>1. child[c].ok /\ thread[c].pc = "idle" BY <1>2, <2>1, <2>3, <3>0 DEF ParentOk, ThreadsOk, Turned
    <3>2. Holds(c) /\ HeldBy(c) = child[c].mem
      BY <1>2, <2>3, <3>1 DEF Holds, HeldBy, Freed
    <3>3. child[c].mem # mem /\ child[c].mem \in Contexts
      BY <1>2, <1>6, <3>1, <3>2, ContextTypes DEF Held
    <3>4. maps'[child[c].mem] = maps[child[c].mem] BY <3>3
    <3>5. TextIn(Main, child[c].mem) => TextIn(Main, child[c].mem)'
      BY <1>2, <1>3, <3>3, <3>4, TextStays, ContextTypes
    <3> QED BY <1>3, <2>1, <2>3, <3>0, <3>4, <3>5 DEF ParentOk, MainPc
  <2>4. CASE MainPc # "joined" BY <1>3, <2>1, <2>2, <2>4 DEF ParentOk, MainPc
  <2> QED BY <2>3, <2>4
<1>10. OneUserStep
  <2> SUFFICES ASSUME NEW u \in Threads, u # t, Runs(u)
               PROVE  maps'[MemoryOf(u)] = maps[MemoryOf(u)]
    BY DEF OneUserStep
  <2>1. CASE u = Main BY <1>1, <2>1, ContextTypes DEF MemoryOf
  <2>2. CASE u \in Kids
    <3>1. thread[u].pc # "idle" /\ MemoryOf(u) = thread[u].mem
      BY <2>2, ContextTypes DEF Runs, MemoryOf
    <3>2. thread[u].mem = child[u].mem /\ thread[u].mem \in Contexts /\ Holds(u)
      BY <2>2, <3>1, ChildMemory, ContextTypes
    <3> QED BY <1>6, <2>2, <3>1, <3>2
  <2> QED BY <2>1, <2>2, ContextTypes
<1>11. \A fd \in Fds : fds'[fd] = None BY <1>2 DEF ThreadsOk
<1> QED BY <1>2, <1>3, <1>4, <1>5, <1>7, <1>8, <1>9, <1>10, <1>11 DEF ThreadsInv, ThreadsOk

LEMMA TrampolineInv ==
  ASSUME ThreadsInv, NEW t \in Kids, Trampoline(t)
  PROVE  ThreadsInv' /\ OneUserStep
<1> DEFINE m == thread[t].mem
           rec == Pushed(Goto(t, "run", Nil), m)
<1>1. thread[t].pc = "start" /\ UNCHANGED <<program, cur, child, maps, fds>>
  BY DEF Trampoline, At
<1>2. ChildOk(t) /\ Shapes BY DEF ThreadsInv, ThreadsOk
<1>3. m = child[t].mem /\ m \in Contexts /\ MappedShape(maps[m], Room[m])
  BY <1>1, ChildMemory, ContextTypes
<1>4. Becomes(t, rec) BY <1>1, <1>2 DEF Trampoline, ChildOk, Closure
<1>5. /\ rec \in ThreadRec /\ rec.pc = "run" /\ rec.ctx = m /\ rec.saved = thread[t].ctx
      /\ rec.mem = m /\ rec.err = Nil
  <2> DEFINE g == Goto(t, "run", Nil)
  <2>1. "run" \in Pcs /\ t \in Threads BY ContextTypes DEF Pcs
  <2>2. /\ g \in ThreadRec /\ g.pc = "run" /\ g.err = Nil
        /\ g.ctx = thread[t].ctx /\ g.mem = m
    BY <1>2, <2>1, GotoTypes, NilStatic
  <2> HIDE DEF g, m
  <2> QED BY <1>3, <2>1, <2>2, RecordTypes DEF rec, g
<1> HIDE DEF rec
<1>6. /\ thread' \in [Threads -> ThreadRec] /\ thread'[t] = rec
      /\ \A u \in Threads \ {t} : thread'[u] = thread[u]
  BY <1>2, <1>4, <1>5, BecomesTypes, ContextTypes
<1>7. thread[t].ctx = None BY <1>1, <1>2 DEF ChildOk
<1>8. ChildOk(t)' BY <1>1, <1>3, <1>5, <1>6, <1>7 DEF ChildOk
<1>9. IsMaps(maps)' BY <1>1, <1>2 DEF Shapes, IsMaps
<1>10. thread'[t] # thread[t] BY <1>1, <1>5, <1>6
<1> QED BY <1>1, <1>3, <1>5, <1>6, <1>8, <1>9, <1>10, ChildSteps

LEMMA RunChildInv ==
  ASSUME ThreadsInv, NEW t \in Kids, RunChild(t)
  PROVE  ThreadsInv' /\ OneUserStep
<1>0. PICK m \in Maps : m = thread[t].mem BY ChildMemory DEF RunChild, At
<1>1. thread[t].pc = "run" /\ UNCHANGED <<program, cur, child, fds>>
  BY DEF RunChild, At
<1>2. ChildOk(t) /\ Shapes BY DEF ThreadsInv, ThreadsOk
<1>3. m = child[t].mem /\ m \in Contexts /\ MappedShape(maps[m], RoomOf(m)) /\ RoomOf(m) = Room[m]
  BY <1>0, <1>1, ChildMemory, ContextTypes
<1>4. IsMaps(maps) BY <1>2 DEF Shapes
<1>5. "return" \in Pcs /\ t \in Threads BY ContextTypes DEF Pcs
<1>6. thread[t].ctx = m /\ thread[t].saved = None BY <1>0, <1>1, <1>2 DEF ChildOk
<1>7. CASE /\ maps' = [maps EXCEPT ![m].inout = <<"size", t>>]
           /\ Becomes(t, Goto(t, "return", Nil))
  <2>1. /\ IsMaps(maps)'
        /\ \A x \in Contexts \ {m} : maps'[x] = maps[x]
        /\ Grows(maps[m], maps'[m], RoomOf(m))
        /\ maps'[m].inout = <<"size", t>>
    <3> DEFINE new == [maps EXCEPT ![m].inout = <<"size", t>>]
    <3>1. /\ IsMaps(new)
          /\ \A x \in Contexts \ {m} : new[x] = maps[x]
          /\ Grows(maps[m], new[m], RoomOf(m))
          /\ new[m].inout = <<"size", t>>
      <4>1. m \in Contexts /\ MappedShape(maps[m], RoomOf(m)) BY <1>3
      <4> QED BY <4>1, <1>4, StoresInout
    <3>2. maps' = new BY <1>7
    <3> HIDE DEF new
    <3> QED BY <3>1, <3>2 DEF IsMaps
  <2>2. Goto(t, "return", Nil) \in ThreadRec BY <1>2, <1>5, GotoTypes, NilStatic
  <2>3. /\ thread' \in [Threads -> ThreadRec] /\ thread'[t] = Goto(t, "return", Nil)
        /\ \A u \in Threads \ {t} : thread'[u] = thread[u]
    BY <1>2, <1>5, <1>7, <2>2, BecomesTypes
  <2>4. /\ thread'[t].pc = "return" /\ thread'[t].err = Nil /\ thread'[t].mem = m
        /\ thread'[t].ctx = m /\ thread'[t].saved = None
    BY <1>0, <1>2, <1>5, <1>6, <2>3, GotoTypes, NilStatic
  <2>5. ChildOk(t)' BY <1>1, <1>3, <2>1, <2>4, NilStatic DEF ChildOk, TextIn
  <2>6. MappedShape(maps'[m], Room[m]) BY <1>3, <2>1 DEF Grows
  <2>7. thread'[t] # thread[t] /\ thread'[t].pc # "idle" BY <1>1, <2>4
  <2> QED BY <1>0, <1>1, <2>1, <2>3, <2>5, <2>6, <2>7, ChildSteps
<1>8. CASE OsErr(t, "return")
  <2>0. maps[m] # Unmapped BY <1>3, Mapped
  <2>1. /\ IsMaps(maps)'
        /\ \A x \in Contexts \ {m} : maps'[x] = maps[x]
        /\ Grows(maps[m], maps'[m], RoomOf(m))
        /\ thread' \in [Threads -> ThreadRec]
        /\ \A u \in Threads \ {t} : thread'[u] = thread[u]
    BY <1>2, <1>3, <1>5, <1>6, <1>8, <2>0, OsErrWrites
  <2>2. /\ thread'[t].pc = "return" /\ thread'[t].err # Nil /\ thread'[t].mem = m
        /\ thread'[t].ctx = m /\ thread'[t].saved = None
        /\ TextIn(t, m)'
    BY <1>0, <1>2, <1>3, <1>5, <1>6, <1>8, <2>0, OsErrWrites
  <2>3. ChildOk(t)' BY <1>1, <1>3, <2>2 DEF ChildOk, TextIn
  <2>4. MappedShape(maps'[m], Room[m]) BY <1>3, <2>1 DEF Grows
  <2>5. thread'[t] # thread[t] /\ thread'[t].pc # "idle" BY <1>1, <2>2
  <2> QED BY <1>0, <1>1, <2>1, <2>3, <2>4, <2>5, ChildSteps
<1> QED BY <1>0, <1>7, <1>8 DEF RunChild

LEMMA ReturnInv ==
  ASSUME ThreadsInv, NEW t \in Kids, Return(t)
  PROVE  ThreadsInv' /\ OneUserStep
<1> DEFINE rec == [Popped(thread[t]) EXCEPT !.pc = "done"]
<1>0. PICK m \in Maps : m = thread[t].mem BY ChildMemory DEF Return, At
<1>1. /\ thread[t].pc = "return" /\ UNCHANGED <<program, cur, child, maps, fds>>
      /\ Becomes(t, rec)
  BY DEF Return, At
<1>2. ChildOk(t) /\ Shapes BY DEF ThreadsInv, ThreadsOk
<1>3. m = child[t].mem /\ m \in Contexts /\ MappedShape(maps[m], Room[m])
  BY <1>0, <1>1, ChildMemory, ContextTypes
<1>4. "done" \in Pcs /\ t \in Threads /\ thread[t] \in ThreadRec /\ Interp \in Contexts
  BY <1>2, ContextTypes DEF Pcs, Shapes
<1>5. /\ rec \in ThreadRec /\ rec.pc = "done" /\ rec.ctx = thread[t].saved
      /\ rec.mem = m /\ rec.err = thread[t].err
  <2>1. rec = Placed(Popped(thread[t]), "done") BY DEF Placed
  <2> HIDE DEF rec
  <2> QED BY <1>0, <1>4, <2>1, ReturnTypes
<1> HIDE DEF rec
<1>6. /\ thread' \in [Threads -> ThreadRec] /\ thread'[t] = rec
      /\ \A u \in Threads \ {t} : thread'[u] = thread[u]
  BY <1>1, <1>2, <1>4, <1>5, BecomesTypes
<1>7. thread[t].saved = None BY <1>1, <1>2 DEF ChildOk
<1>8. TextIn(t, m)'
  <2>1. TextIn(t, m) BY <1>0, <1>1, <1>2 DEF ChildOk
  <2> QED BY <1>1, <1>2, <1>3, <1>4, <1>5, <1>6, <2>1, TextStays
<1>9. ChildOk(t)'
  <2>1. thread[t].err = Nil => maps[m].inout = <<"size", t>> BY <1>0, <1>1, <1>2 DEF ChildOk
  <2> QED BY <1>1, <1>3, <1>5, <1>6, <1>7, <1>8, <2>1 DEF ChildOk
<1>10. IsMaps(maps)' BY <1>1, <1>2 DEF Shapes, IsMaps
<1>11. thread'[t] # thread[t] /\ thread'[t].pc # "idle" BY <1>1, <1>5, <1>6
<1> QED BY <1>0, <1>1, <1>3, <1>6, <1>9, <1>10, <1>11, ChildSteps

LEMMA ChildFaultInv ==
  ASSUME ThreadsInv, NEW t \in Kids, Fault(t)
  PROVE  ThreadsInv' /\ OneUserStep
<1> DEFINE rec == [thread[t] EXCEPT !.pc = "faulted"]
<1>2. ChildOk(t) /\ Shapes BY DEF ThreadsInv, ThreadsOk
<1>1. /\ thread[t].pc = "run" /\ UNCHANGED <<program, cur, child, maps, fds>>
      /\ Becomes(t, rec)
  BY <1>2 DEF Fault, ChildOk
<1>0. PICK m \in Maps : m = thread[t].mem BY <1>1, ChildMemory
<1>3. m = child[t].mem /\ m \in Contexts /\ MappedShape(maps[m], Room[m])
  BY <1>0, <1>1, ChildMemory, ContextTypes
<1>4. "faulted" \in Pcs /\ t \in Threads /\ thread[t] \in ThreadRec /\ Interp \in Contexts
  BY <1>2, ContextTypes DEF Pcs, Shapes
<1>5. /\ rec \in ThreadRec /\ rec.pc = "faulted" /\ rec.ctx = thread[t].ctx
      /\ rec.mem = m /\ rec.err = thread[t].err /\ rec.saved = thread[t].saved
  <2>1. rec = Placed(thread[t], "faulted") BY DEF Placed
  <2> HIDE DEF rec
  <2> QED BY <1>0, <1>4, <2>1, PcTypes
<1> HIDE DEF rec
<1>6. /\ thread' \in [Threads -> ThreadRec] /\ thread'[t] = rec
      /\ \A u \in Threads \ {t} : thread'[u] = thread[u]
  BY <1>1, <1>2, <1>4, <1>5, BecomesTypes
<1>7. ChildOk(t)' BY <1>0, <1>1, <1>2, <1>3, <1>5, <1>6 DEF ChildOk
<1>8. IsMaps(maps)' BY <1>1, <1>2 DEF Shapes, IsMaps
<1>9. thread'[t] # thread[t] /\ thread'[t].pc # "idle" BY <1>1, <1>5, <1>6
<1> QED BY <1>0, <1>1, <1>3, <1>6, <1>7, <1>8, <1>9, ChildSteps

LEMMA DeinitMaps ==
  ASSUME IsMaps(maps), NEW m \in Contexts, Deinit(m)
  PROVE  /\ IsMaps(maps)'
         /\ \A x \in Contexts : maps'[x] = maps[x] \/ (x = m /\ maps'[x] = Unmapped)
<1>1. CASE maps' = [maps EXCEPT ![m] = Unmapped] BY <1>1 DEF IsMaps
<1>2. CASE maps' = maps BY <1>2 DEF IsMaps
<1> QED BY <1>1, <1>2 DEF Deinit

(* What the parent knows of the child it is at. *)
LEMMA AtChild ==
  ASSUME ThreadsInv
  PROVE  \E c \in Kids :
           /\ c = cur /\ child[c] \in [mem : Maps \cup {None}, ok : BOOLEAN]
           /\ Turned(c) /\ ChildOk(c)
           /\ ~Freed(c) \/ MainPc = "end"
           /\ MainPc # "end" /\ child[c].ok =>
                /\ Holds(c) /\ child[c].mem \in Maps /\ child[c].mem \in Contexts
                /\ MappedShape(maps[child[c].mem], RoomOf(child[c].mem))
<1>1. PICK c \in Kids : c = cur BY DEF ThreadsInv, Shapes
<1>2. child[c] \in [mem : Maps \cup {None}, ok : BOOLEAN] /\ Turned(c) /\ ChildOk(c)
  BY DEF ThreadsInv, ThreadsOk, Shapes
<1>3. ~Freed(c) \/ MainPc = "end"
  <2>1. ~(c < cur) BY <1>1, KidsBound
  <2> QED BY <2>1 DEF Freed
<1>4. ASSUME MainPc # "end", child[c].ok
      PROVE  /\ Holds(c) /\ child[c].mem \in Maps /\ child[c].mem \in Contexts
             /\ MappedShape(maps[child[c].mem], RoomOf(child[c].mem))
  <2>1. Holds(c) /\ HeldBy(c) = child[c].mem BY <1>3, <1>4 DEF ThreadsInv, Holds, HeldBy
  <2>2. child[c].mem \in Maps /\ maps[child[c].mem] # Unmapped BY <2>1 DEF ThreadsInv, Held
  <2> QED BY <2>1, <2>2, ShapeOf, ContextTypes DEF ThreadsInv
<1> QED BY <1>1, <1>2, <1>3, <1>4

LEMMA SkipInv ==
  ASSUME ThreadsInv, NEW pc \in {"wait", "cleanup"}, Skip(pc)
  PROVE  ThreadsInv' /\ OneUserStep
<1>0. PICK c \in Kids : c = cur BY AtChild
<1>1. /\ MainPc = pc /\ ~child[c].ok /\ Turn(pc)
      /\ UNCHANGED <<program, child, maps, fds>>
  BY <1>0 DEF Skip, At, MainPc
<1>2. child \in [Kids -> [mem : Maps \cup {None}, ok : BOOLEAN]] /\ IsMaps(maps)
  BY DEF ThreadsInv, Shapes
<1>3. IsMaps(maps)' BY <1>1, <1>2 DEF IsMaps
<1> QED BY <1>0, <1>1, <1>2, <1>3, ParentTurns

LEMMA JoinedInv ==
  ASSUME ThreadsInv, Joined
  PROVE  ThreadsInv' /\ OneUserStep
<1>0. PICK c \in Kids : c = cur /\ Turned(c) BY AtChild
<1>1. MainPc = "joined" /\ Turn("wait") /\ UNCHANGED <<program, child, maps, fds>>
  BY DEF Joined, At, MainPc
<1>2. child \in [Kids -> [mem : Maps \cup {None}, ok : BOOLEAN]] /\ IsMaps(maps)
  BY DEF ThreadsInv, Shapes
<1>3. IsMaps(maps)' BY <1>1, <1>2 DEF IsMaps
<1>4. thread[c].pc = "idle" BY <1>0, <1>1 DEF Turned
<1> QED BY <1>0, <1>1, <1>2, <1>3, <1>4, ParentTurns

LEMMA GivesUp ==
  ASSUME ThreadsInv, NEW c \in Kids, child' = [child EXCEPT ![c].ok = FALSE]
  PROVE  /\ child' \in [Kids -> [mem : Maps \cup {None}, ok : BOOLEAN]]
         /\ \A i \in Kids : child'[i].mem = child[i].mem /\ (child'[i].ok => child[i].ok)
         /\ ~child'[c].ok
<1>1. child \in [Kids -> [mem : Maps \cup {None}, ok : BOOLEAN]]
  BY DEF ThreadsInv, Shapes
<1> QED BY <1>1

LEMMA NotJoinedInv ==
  ASSUME ThreadsInv, NotJoined
  PROVE  ThreadsInv' /\ OneUserStep
<1>0. PICK c \in Kids : c = cur BY AtChild
<1>1. /\ MainPc = "not joined" /\ Turn("wait") /\ UNCHANGED <<program, maps, fds>>
      /\ child' = [child EXCEPT ![c].ok = FALSE]
  BY <1>0 DEF NotJoined, At, MainPc
<1>2. IsMaps(maps) BY DEF ThreadsInv, Shapes
<1>3. IsMaps(maps)' BY <1>1, <1>2 DEF IsMaps
<1>4. /\ child' \in [Kids -> [mem : Maps \cup {None}, ok : BOOLEAN]]
      /\ \A i \in Kids : child'[i].mem = child[i].mem /\ (child'[i].ok => child[i].ok)
      /\ ~child'[c].ok
  BY <1>1, GivesUp
<1> QED BY <1>0, <1>1, <1>3, <1>4, ParentTurns

LEMMA UnspawnedInv ==
  ASSUME ThreadsInv, Unspawned
  PROVE  ThreadsInv' /\ OneUserStep
<1>1. MainPc = "unspawned" BY DEF Unspawned, At, MainPc
<1>0. PICK c \in Kids :
        /\ c = cur /\ Turned(c) /\ child[c].ok
        /\ Holds(c) /\ child[c].mem \in Maps /\ child[c].mem \in Contexts
  BY <1>1, AtChild DEF ThreadsInv, ThreadsOk, ParentOk
<1>2. /\ Turn("init") /\ UNCHANGED <<program, fds>> /\ Deinit(child[c].mem)
      /\ child' = [child EXCEPT ![c].ok = FALSE]
  BY <1>0 DEF Unspawned
<1>3. IsMaps(maps) BY DEF ThreadsInv, Shapes
<1>4. /\ IsMaps(maps)'
      /\ \A x \in Contexts : maps'[x] = maps[x] \/ (x = child[c].mem /\ maps'[x] = Unmapped)
  BY <1>0, <1>2, <1>3, DeinitMaps
<1>5. /\ child' \in [Kids -> [mem : Maps \cup {None}, ok : BOOLEAN]]
      /\ \A i \in Kids : child'[i].mem = child[i].mem /\ (child'[i].ok => child[i].ok)
      /\ ~child'[c].ok
  BY <1>2, GivesUp
<1>6. thread[c].pc = "idle"
  <2>1. c >= cur BY <1>0, KidsBound
  <2> QED BY <1>0, <1>1, <2>1 DEF Turned, Spawning
<1>7. \A x \in Contexts : \/ maps'[x] = maps[x]
                          \/ /\ x = child[c].mem /\ x \in Maps /\ maps'[x] = Unmapped
                             /\ Holds(c) /\ thread[c].pc = "idle"
  BY <1>0, <1>4, <1>6
<1>8. /\ Turn("init") /\ UNCHANGED <<program, fds>> /\ c = cur
      /\ MainPc \in {"init", "unspawned"} /\ IsMaps(maps)'
  BY <1>0, <1>1, <1>2, <1>4
<1> QED BY <1>5, <1>7, <1>8, ParentTurns

LEMMA CleanupInv ==
  ASSUME ThreadsInv, Cleanup
  PROVE  ThreadsInv' /\ OneUserStep
<1>1. MainPc = "cleanup" /\ child[cur].ok BY DEF Cleanup, At, MainPc
<1>0. PICK c \in Kids :
        /\ c = cur /\ Turned(c) /\ child[c].ok
        /\ Holds(c) /\ child[c].mem \in Maps /\ child[c].mem \in Contexts
  BY <1>1, AtChild
<1>2. Turn("cleanup") /\ UNCHANGED <<program, child, fds>> /\ Deinit(child[c].mem)
  BY <1>0 DEF Cleanup
<1>3. IsMaps(maps) /\ child \in [Kids -> [mem : Maps \cup {None}, ok : BOOLEAN]]
  BY DEF ThreadsInv, Shapes
<1>4. /\ IsMaps(maps)'
      /\ \A x \in Contexts : maps'[x] = maps[x] \/ (x = child[c].mem /\ maps'[x] = Unmapped)
  BY <1>0, <1>2, <1>3, DeinitMaps
<1>5. thread[c].pc = "idle" BY <1>0, <1>1 DEF Turned
<1>6. \A x \in Contexts : \/ maps'[x] = maps[x]
                          \/ /\ x = child[c].mem /\ x \in Maps /\ maps'[x] = Unmapped
                             /\ Holds(c) /\ thread[c].pc = "idle"
  BY <1>0, <1>4, <1>5
<1>7. /\ child' \in [Kids -> [mem : Maps \cup {None}, ok : BOOLEAN]]
      /\ \A i \in Kids : child'[i].mem = child[i].mem /\ (child'[i].ok => child[i].ok)
  BY <1>2, <1>3
<1>8. /\ Turn("cleanup") /\ UNCHANGED <<program, fds>> /\ c = cur
      /\ MainPc = "cleanup" /\ IsMaps(maps)'
  BY <1>0, <1>1, <1>2, <1>4
<1> QED BY <1>6, <1>7, <1>8, ParentTurns

(* A step of the parent before a child runs, or about one it could not join.   *)
LEMMA MainSteps ==
  ASSUME ThreadsInv, NEW c \in Kids, UNCHANGED <<program, cur, child, fds>>,
         thread' \in [Threads -> ThreadRec],
         \A u \in Kids : thread'[u] = thread[u],
         thread'[Main].ctx = Interp, thread'[Main] # thread[Main],
         IsMaps(maps)',
         \A x \in Maps : \/ maps'[x] = maps[x]
                         \/ /\ x = child[c].mem /\ Holds(c) /\ thread[c].pc = "idle"
                            /\ MappedShape(maps'[x], Room[x]),
         MappedShape(maps'[Interp], MainRoom),
         MainPc \notin {"cleanup", "end"}, MainPc' \notin {"cleanup", "end"},
         ParentOk', \A i \in Kids : Turned(i)'
  PROVE  ThreadsInv' /\ OneUserStep
<1>1. program = "threads" /\ Shapes /\ Held /\ ThreadsOk BY DEF ThreadsInv
<1>2. Shapes' BY <1>1 DEF Shapes
<1>3. Held'
  <2>1. ASSUME NEW i \in Kids, Holds(i)'
        PROVE  Holds(i) /\ HeldBy(i)' = HeldBy(i) /\ maps'[HeldBy(i)] # Unmapped
    <3>1. ~Freed(i) /\ ~Freed(i)' BY DEF Freed
    <3>2. Holds(i) /\ HeldBy(i)' = HeldBy(i) BY <1>1, <2>1, <3>1 DEF Holds, HeldBy
    <3>3. HeldBy(i) \in Maps /\ maps[HeldBy(i)] # Unmapped BY <1>1, <3>2 DEF Held
    <3> QED BY <3>2, <3>3, Mapped
  <2> QED BY <1>1, <2>1, HeldStays
<1>4. ASSUME NEW u \in Kids, thread[u].pc # "idle"
      PROVE  maps'[child[u].mem] = maps[child[u].mem] /\ thread[u].mem = child[u].mem
  <2>1. Holds(u) /\ thread[u].mem = child[u].mem /\ child[u].mem \in Maps
    BY <1>4, ChildMemory
  <2>2. HeldBy(u) = child[u].mem /\ HeldBy(c) = child[c].mem BY <1>1 DEF HeldBy
  <2>3. Holds(c) /\ thread[c].pc = "idle" => child[u].mem # child[c].mem
    BY <1>1, <1>4, <2>1, <2>2 DEF Held
  <2> QED BY <2>1, <2>3
<1>5. \A u \in Kids : ChildOk(u)' BY <1>4, ChildStays
<1>6. OneUserStep
  <2> SUFFICES ASSUME NEW u \in Kids, Runs(u)
               PROVE  maps'[MemoryOf(u)] = maps[MemoryOf(u)]
    BY ContextTypes DEF OneUserStep
  <2>1. thread[u].pc # "idle" /\ MemoryOf(u) = thread[u].mem
    BY ContextTypes DEF Runs, MemoryOf
  <2> QED BY <1>4, <2>1
<1>7. \A fd \in Fds : fds'[fd] = None BY <1>1 DEF ThreadsOk
<1> QED BY <1>1, <1>2, <1>3, <1>5, <1>6, <1>7 DEF ThreadsInv, ThreadsOk

LEMMA MainFaultInv ==
  ASSUME ThreadsInv, Fault(Main)
  PROVE  ThreadsInv' /\ OneUserStep
<1> DEFINE rec == [thread[Main] EXCEPT !.pc = "faulted"]
<1>1. Shapes /\ ParentOk /\ thread[Main].ctx = Interp /\ \A i \in Kids : Turned(i)
  BY DEF ThreadsInv, ThreadsOk
<1>2. /\ MainPc = "init" /\ UNCHANGED <<program, cur, child, maps, fds>>
      /\ Becomes(Main, rec)
  BY <1>1 DEF Fault, MainPc, ParentOk, Spawning
<1>3. "faulted" \in Pcs /\ Main \in Threads /\ thread[Main] \in ThreadRec /\ Interp \in Contexts
  BY <1>1, ContextTypes DEF Pcs, Shapes
<1>4. /\ rec \in ThreadRec /\ rec.pc = "faulted" /\ rec.ctx = Interp
      /\ rec.err = thread[Main].err
  <2>1. rec = Placed(thread[Main], "faulted") BY DEF Placed
  <2> HIDE DEF rec
  <2> QED BY <1>1, <1>3, <2>1, PcTypes
<1> HIDE DEF rec
<1>5. /\ thread' \in [Threads -> ThreadRec] /\ thread'[Main] = rec
      /\ \A u \in Kids : thread'[u] = thread[u]
  BY <1>1, <1>2, <1>3, <1>4, BecomesTypes, ContextTypes
<1>6. MainPc' = "faulted" BY <1>4, <1>5 DEF MainPc
<1>7. ParentOk' BY <1>1, <1>2, <1>4, <1>5, <1>6 DEF ParentOk, Spawning
<1>8. \A i \in Kids : Turned(i)' BY <1>1, <1>2, <1>5, <1>6 DEF Turned, Spawning
<1>9. IsMaps(maps)' /\ MappedShape(maps'[Interp], MainRoom) /\ \A x \in Maps : maps'[x] = maps[x]
  BY <1>1, <1>2 DEF Shapes, IsMaps
<1>10. thread'[Main] # thread[Main] BY <1>2, <1>6 DEF MainPc
<1>11. 1 \in Kids BY ThreadsAssumption DEF Kids
<1>12. MainPc \notin {"cleanup", "end"} /\ MainPc' \notin {"cleanup", "end"} BY <1>2, <1>6
<1> QED BY <1>2, <1>4, <1>5, <1>7, <1>8, <1>9, <1>10, <1>11, <1>12, MainSteps

LEMMA InitChildInv ==
  ASSUME ThreadsInv, InitChild
  PROVE  ThreadsInv' /\ OneUserStep
<1>1. MainPc = "init" /\ UNCHANGED <<program, fds>> BY DEF InitChild, At, MainPc
<1>0. PICK c \in Kids : c = cur /\ Turned(c) /\ ChildOk(c) BY AtChild
<1>2. /\ program = "threads" /\ Shapes /\ Held /\ ThreadsOk /\ thread[Main].ctx = Interp
      /\ IsMaps(maps) /\ child \in [Kids -> [mem : Maps \cup {None}, ok : BOOLEAN]]
  BY DEF ThreadsInv, Shapes
<1>3. CASE child' = [child EXCEPT ![c].ok = FALSE] /\ Turn("init") /\ UNCHANGED maps
  <2>1. IsMaps(maps)' BY <1>2, <1>3 DEF IsMaps
  <2>2. /\ child' \in [Kids -> [mem : Maps \cup {None}, ok : BOOLEAN]]
        /\ \A i \in Kids : child'[i].mem = child[i].mem /\ (child'[i].ok => child[i].ok)
        /\ ~child'[c].ok
    BY <1>3, GivesUp
  <2> QED BY <1>0, <1>1, <1>3, <2>1, <2>2, ParentTurns
<1>4. ASSUME NEW m \in Maps, InitCtx(m), child' = [child EXCEPT ![c] = [mem |-> m, ok |-> TRUE]],
             Becomes(Main, Goto(Main, "spawn", Nil)), UNCHANGED cur
      PROVE  ThreadsInv' /\ OneUserStep
  <2>1. /\ maps[m] = Unmapped /\ IsMaps(maps)' /\ MappedShape(maps'[m], Room[m])
        /\ \A x \in Contexts \ {m} : maps'[x] = maps[x]
    <3> DEFINE new == Ctx(None, Room[m])
    <3>1. maps[m] = Unmapped /\ maps' = [maps EXCEPT ![m] = new]
      BY <1>2, <1>4, Mapped DEF InitCtx, Shapes
    <3>2. m \in Contexts BY ContextTypes
    <3>3. MappedShape(new, Room[m]) BY NewContext, ContextTypes
    <3> HIDE DEF new
    <3> QED BY <1>2, <3>1, <3>2, <3>3 DEF IsMaps
  <2>2. child' \in [Kids -> [mem : Maps \cup {None}, ok : BOOLEAN]]
        /\ child'[c].mem = m /\ child'[c].ok /\ \A i \in Kids \ {c} : child'[i] = child[i]
    BY <1>2, <1>4
  <2>3. "spawn" \in Pcs /\ Main \in Threads BY ContextTypes DEF Pcs
  <2>4. Goto(Main, "spawn", Nil) \in ThreadRec BY <1>2, <2>3, GotoTypes, NilStatic
  <2>5. /\ thread' \in [Threads -> ThreadRec] /\ thread'[Main] = Goto(Main, "spawn", Nil)
        /\ \A u \in Kids : thread'[u] = thread[u]
    BY <1>2, <1>4, <2>3, <2>4, BecomesTypes, ContextTypes
  <2>6. MainPc' = "spawn" /\ thread'[Main].err = Nil /\ thread'[Main].ctx = Interp
    BY <1>2, <2>3, <2>5, GotoTypes, NilStatic DEF MainPc
  <2>7. thread[c].pc = "idle"
    <3>1. c >= cur BY <1>0, KidsBound
    <3> QED BY <1>0, <1>1, <3>1 DEF Turned, Spawning
  <2>8. Shapes'
    <3>1. maps'[Interp] = maps[Interp] BY <2>1, ContextTypes
    <3>2. \A x \in Maps : maps'[x] = Unmapped \/ MappedShape(maps'[x], Room[x])
      BY <1>2, <2>1, ContextTypes DEF Shapes
    <3> QED BY <1>1, <1>2, <1>4, <2>1, <2>2, <2>5, <3>1, <3>2 DEF Shapes
  <2>9. ASSUME NEW i \in Kids, i # c, Holds(i)'
        PROVE  /\ Holds(i) /\ HeldBy(i)' = child[i].mem /\ HeldBy(i) = child[i].mem
               /\ child[i].mem \in Maps /\ child[i].mem # m
               /\ maps'[child[i].mem] = maps[child[i].mem]
    <3>1. ~Freed(i) BY <1>1 DEF Freed
    <3>2. Holds(i) BY <1>1, <1>2, <2>2, <2>5, <2>9, <3>1 DEF Holds
    <3>3. HeldBy(i)' = child[i].mem /\ HeldBy(i) = child[i].mem
      BY <1>1, <1>2, <2>2, <2>9 DEF HeldBy
    <3> QED BY <1>2, <2>1, <3>2, <3>3, ContextTypes DEF Held
  <2>10. HeldBy(c)' = m BY <1>1, <1>2, <2>2 DEF HeldBy
  <2>11. Held'
    <3>1. maps'[m] # Unmapped BY <2>1, Mapped
    <3>2. ASSUME NEW i \in Kids, Holds(i)'
          PROVE  HeldBy(i)' \in Maps /\ maps'[HeldBy(i)'] # Unmapped
      BY <1>2, <2>9, <2>10, <3>1, <3>2 DEF Held
    <3>3. ASSUME NEW i \in Kids, NEW j \in Kids, Holds(i)', Holds(j)', i # j
          PROVE  HeldBy(i)' # HeldBy(j)'
      BY <1>2, <2>9, <2>10, <3>3 DEF Held
    <3> QED BY <3>2, <3>3 DEF Held
  <2>12. ASSUME NEW t \in Kids, thread[t].pc # "idle"
         PROVE  /\ t # c /\ thread[t].mem = child[t].mem
                /\ maps'[child[t].mem] = maps[child[t].mem]
    <3>1. t # c BY <2>7, <2>12
    <3>2. Holds(t)' BY <1>1, <1>2, <2>5, <2>12 DEF Holds
    <3> QED BY <2>9, <2>12, <3>1, <3>2, ChildMemory
  <2>13. ASSUME NEW t \in Kids PROVE ChildOk(t)'
    <3>1. CASE t = c
      <4>1. thread[c] = Idle BY <1>0, <2>7 DEF ChildOk
      <4> QED BY <2>5, <3>1, <4>1 DEF ChildOk, Idle
    <3>2. CASE t # c BY <2>2, <2>5, <2>12, <3>2, ChildStays
    <3> QED BY <3>1, <3>2
  <2>14. ASSUME NEW i \in Kids PROVE Turned(i)'
    <3>1. Turned(i) /\ (i > cur => i # c)
      BY <1>0, <1>2, KidsBound DEF ThreadsOk
    <3> QED BY <1>1, <1>4, <2>2, <2>5, <2>6, <3>1 DEF Turned, Spawning
  <2>15. ParentOk' BY <1>0, <1>4, <2>2, <2>6 DEF ParentOk, Spawning
  <2>16. OneUserStep
    <3> SUFFICES ASSUME NEW u \in Threads, Runs(u)
                 PROVE  maps'[MemoryOf(u)] = maps[MemoryOf(u)]
      BY DEF OneUserStep
    <3>1. CASE u = Main BY <2>1, <3>1, ContextTypes DEF MemoryOf
    <3>2. CASE u \in Kids
      <4>1. thread[u].pc # "idle" /\ MemoryOf(u) = thread[u].mem
        BY <3>2, ContextTypes DEF Runs, MemoryOf
      <4> QED BY <2>12, <3>2, <4>1
    <3> QED BY <3>1, <3>2, ContextTypes
  <2>17. \A fd \in Fds : fds'[fd] = None BY <1>1, <1>2 DEF ThreadsOk
  <2> QED BY <1>1, <1>2, <2>6, <2>8, <2>11, <2>13, <2>14, <2>15, <2>16, <2>17 DEF ThreadsInv, ThreadsOk
<1> QED BY <1>0, <1>3, <1>4 DEF InitChild

LEMMA IdleTypes ==
  Idle \in ThreadRec /\ Idle.pc = "idle" /\ Idle.ctx = None /\ Idle.mem = None /\ Idle.err = Nil
BY NilStatic DEF Idle, ThreadRec, Pcs, None

LEMMA JoinInv ==
  ASSUME ThreadsInv, Join
  PROVE  ThreadsInv' /\ OneUserStep
<1>0. MainPc = "wait" /\ UNCHANGED <<program, cur, child, fds>> BY DEF Join, At, MainPc
<1>1. PICK c \in Kids : /\ c = cur /\ child[c].ok /\ Turned(c) /\ ChildOk(c)
                        /\ child[c].mem \in Maps /\ child[c].mem \in Contexts
                        /\ MappedShape(maps[child[c].mem], RoomOf(child[c].mem))
  BY <1>0, AtChild DEF Join
<1>2. /\ program = "threads" /\ Shapes /\ Held /\ ThreadsOk /\ thread[Main].ctx = Interp
      /\ IsMaps(maps) /\ ParentOk
  BY DEF ThreadsInv, Shapes, ThreadsOk
<1>3. Main \in Threads /\ Main # c /\ c \in Threads /\ Interp \in Contexts BY ContextTypes
<1>4. CASE /\ thread[c].pc = "done"
           /\ thread' = [thread EXCEPT ![Main] = Goto(Main, "joined", thread[c].err), ![c] = Idle]
           /\ UNCHANGED maps
  <2> DEFINE rec == Goto(Main, "joined", thread[c].err)
  <2>1. "joined" \in Pcs /\ thread[c].err \in Errs BY <1>2, <1>3 DEF Pcs, Shapes, ThreadRec
  <2>2. rec \in ThreadRec /\ rec.pc = "joined" /\ rec.err = thread[c].err /\ rec.ctx = Interp
    BY <1>2, <1>3, <2>1, GotoTypes
  <2> HIDE DEF rec
  <2>3. /\ thread' \in [Threads -> ThreadRec] /\ thread'[Main] = rec /\ thread'[c] = Idle
        /\ \A u \in Threads : u # Main /\ u # c => thread'[u] = thread[u]
    BY <1>2, <1>3, <1>4, <2>2, IdleTypes DEF Shapes, rec
  <2>4. MainPc' = "joined" BY <2>2, <2>3 DEF MainPc
  <2>5. Shapes' BY <1>0, <1>2, <1>4, <2>3 DEF Shapes, IsMaps
  <2>6. \A i \in Kids : thread'[i].pc # "idle" => thread'[i] = thread[i]
    BY <2>3, IdleTypes, ContextTypes
  <2>7. Held'
    <3>1. ASSUME NEW i \in Kids, Holds(i)'
          PROVE  Holds(i) /\ HeldBy(i)' = HeldBy(i) /\ maps'[HeldBy(i)] # Unmapped
      <4>1. ~Freed(i) /\ ~Freed(i)' BY <1>0, <2>4 DEF Freed
      <4>2. Holds(i) /\ HeldBy(i)' = HeldBy(i) BY <1>0, <1>2, <2>6, <3>1, <4>1 DEF Holds, HeldBy
      <4> QED BY <1>2, <1>4, <4>2 DEF Held
    <3> QED BY <1>2, <3>1, HeldStays
  <2>8. ASSUME NEW u \in Kids PROVE ChildOk(u)'
    <3>1. CASE u = c BY <2>3, <3>1, IdleTypes DEF ChildOk
    <3>2. CASE u # c
      <4>1. thread'[u] = thread[u] BY <2>3, <3>2, ContextTypes
      <4> QED BY <1>0, <1>4, <4>1, ChildStays
    <3> QED BY <3>1, <3>2
  <2>9. ASSUME NEW u \in Kids PROVE Turned(u)'
    <3>1. Turned(u) BY <1>2 DEF ThreadsOk
    <3>2. thread[u].pc = "idle" \/ u = c => thread'[u].pc = "idle"
      BY <2>3, IdleTypes, ContextTypes
    <3> QED BY <1>0, <1>1, <2>4, <3>1, <3>2 DEF Turned, Spawning
  <2>10. ParentOk'
    <3>1. TextIn(c, child[c].mem) /\ (thread[c].err = Nil => maps[child[c].mem].inout = <<"size", c>>)
      BY <1>1, <1>4 DEF ChildOk
    <3>2. TextIn(Main, child[c].mem)'
      BY <1>0, <1>4, <2>2, <2>3, <3>1 DEF TextIn, Written
    <3> QED BY <1>0, <1>1, <1>4, <2>2, <2>3, <2>4, <3>1, <3>2 DEF ParentOk, Spawning
  <2>11. OneUserStep BY <1>4 DEF OneUserStep
  <2>12. \A fd \in Fds : fds'[fd] = None BY <1>0, <1>2 DEF ThreadsOk
  <2> QED BY <1>0, <1>2, <2>2, <2>3, <2>5, <2>7, <2>8, <2>9, <2>10, <2>11, <2>12 DEF ThreadsInv, ThreadsOk
<1>5. CASE OsErr(Main, "not joined")
  <2>1. "not joined" \in Pcs BY DEF Pcs
  <2>2. maps[Interp] # Unmapped /\ RoomOf(Interp) = MainRoom BY <1>2, Mapped, ContextTypes DEF Shapes
  <2>3. /\ IsMaps(maps)'
        /\ \A x \in Contexts \ {Interp} : maps'[x] = maps[x]
        /\ Grows(maps[Interp], maps'[Interp], RoomOf(Interp))
        /\ thread' \in [Threads -> ThreadRec]
        /\ \A u \in Threads \ {Main} : thread'[u] = thread[u]
        /\ thread'[Main].pc = "not joined" /\ thread'[Main].ctx = Interp
        /\ TextIn(Main, Interp)'
    BY <1>2, <1>3, <1>5, <2>1, <2>2, OsErrWrites
  <2>4. MainPc' = "not joined" BY <2>3 DEF MainPc
  <2>5. MappedShape(maps'[Interp], MainRoom) BY <2>2, <2>3 DEF Grows
  <2>6. \A x \in Maps : maps'[x] = maps[x] BY <2>3, ContextTypes
  <2>7. \A u \in Kids : thread'[u] = thread[u] BY <2>3, ContextTypes
  <2>8. \A i \in Kids : Turned(i)'
    BY <1>0, <1>2, <2>4, <2>7 DEF Turned, Spawning, ThreadsOk
  <2>9. ParentOk' BY <1>0, <1>1, <2>3, <2>4 DEF ParentOk, Spawning
  <2>10. thread'[Main] # thread[Main] BY <1>0, <2>4 DEF MainPc
  <2>11. MainPc \notin {"cleanup", "end"} /\ MainPc' \notin {"cleanup", "end"} BY <1>0, <2>4
  <2> QED BY <1>0, <2>3, <2>5, <2>6, <2>7, <2>8, <2>9, <2>10, <2>11, MainSteps
<1> QED BY <1>1, <1>4, <1>5 DEF Join

(* The closure of a new thread, and what the parent told the child. *)
Closed(m, val, told) == [Allocated(m, val) EXCEPT ![m].inout = told]

LEMMA Closes ==
  ASSUME Shapes, NEW m \in Maps, maps[m] # Unmapped, HasRoom(m), NEW val, NEW told
  PROVE  LET new == Closed(m, val, told) IN
         /\ IsMaps(new)
         /\ \A x \in Contexts \ {m} : new[x] = maps[x]
         /\ MappedShape(new[m], Room[m])
         /\ maps[m].top \in 1 .. RoomOf(m) /\ maps[m].top \in Nat /\ maps[m].top < new[m].top
         /\ new[m].cells[maps[m].top] = val /\ new[m].self = maps[m].self
<1> DEFINE f == Allocated(m, val)
           new == Closed(m, val, told)
           at == maps[m].top
<1>1. m \in Contexts /\ RoomOf(m) = Room[m] /\ RoomOf(m) \in Nat BY ContextTypes
<1>2. MappedShape(maps[m], RoomOf(m)) /\ IsMaps(maps) BY <1>1, ShapeOf DEF Shapes
<1>3. /\ IsMaps(f) /\ \A x \in Contexts \ {m} : f[x] = maps[x]
      /\ Grows(maps[m], f[m], RoomOf(m))
  BY <1>1, <1>2, Allocates
<1>4. f[m].top = at + 1 /\ at \in 1 .. RoomOf(m) /\ f[m].cells[at] = val
  BY <1>1, <1>2, Allocates
<1>12. f[m].self = maps[m].self BY <1>1, <1>2, Allocates
<1>5. MappedShape(f[m], RoomOf(m)) BY <1>3 DEF Grows
<1> HIDE DEF f, at
<1>6. new = [f EXCEPT ![m].inout = told] BY DEF new, f, Closed
<1>7. /\ IsMaps([f EXCEPT ![m].inout = told])
      /\ \A x \in Contexts \ {m} : [f EXCEPT ![m].inout = told][x] = f[x]
      /\ Grows(f[m], [f EXCEPT ![m].inout = told][m], RoomOf(m))
      /\ [f EXCEPT ![m].inout = told][m].cells = f[m].cells
      /\ [f EXCEPT ![m].inout = told][m].top = f[m].top
      /\ [f EXCEPT ![m].inout = told][m].self = f[m].self
  BY <1>1, <1>3, <1>5, StoresInout
<1> HIDE DEF new
<1>8. /\ IsMaps(new)
      /\ \A x \in Contexts \ {m} : new[x] = f[x]
      /\ Grows(f[m], new[m], RoomOf(m))
      /\ new[m].cells = f[m].cells /\ new[m].top = f[m].top
      /\ new[m].self = maps[m].self
  BY <1>6, <1>7, <1>12
<1>9. MappedShape(new[m], Room[m]) BY <1>1, <1>8 DEF Grows
<1>10. at \in Nat /\ at < new[m].top BY <1>1, <1>4, <1>8
<1>11. \A x \in Contexts \ {m} : new[x] = maps[x] BY <1>3, <1>8
<1> QED BY <1>4, <1>8, <1>9, <1>10, <1>11 DEF new, at

(* A text which fits is written, below the top. *)
LEMMA WritesText ==
  ASSUME Shapes, NEW t \in Threads, NEW pc \in Pcs, NEW c \in Contexts, HasRoom(c),
         maps[c] # Unmapped
  PROVE  LET says == <<t, pc>>
             err == Text(c, says)
             new == Allocated(c, says)[c] IN
         /\ err \in Errs /\ err # Nil /\ err.ctx = c
         /\ Grows(maps[c], new, RoomOf(c))
         /\ \A f : f[c] = new => WrittenIn(f, err)
<1> DEFINE at == maps[c].top
           says == <<t, pc>>
           err == Text(c, says)
           new == Allocated(c, says)[c]
<1>1. MappedShape(maps[c], RoomOf(c)) /\ IsMaps(maps) BY ShapeOf DEF Shapes
<1>2. Grows(maps[c], new, RoomOf(c)) BY <1>1, Allocates
<1>3. new.top = at + 1 /\ at \in 1 .. RoomOf(c) /\ new.cells[at] = says
  BY <1>1, Allocates
<1>4. says \in Threads \X Pcs OBVIOUS
<1>5. err = [kind |-> "text", ctx |-> c, cell |-> at, says |-> says] BY DEF Text
<1> HIDE DEF err, new, says, at
<1>6. at \in Nat /\ at < new.top
  <2>1. RoomOf(c) \in Nat BY ContextTypes DEF Contexts
  <2> QED BY <1>3, <2>1
<1>7. err \in Errs BY <1>4, <1>5, <1>6 DEF Errs
<1>8. err # Nil /\ err.ctx = c /\ err.cell = at /\ err.says = says BY <1>5 DEF Nil
<1>9. new # Unmapped BY <1>2, Mapped DEF Grows
<1>10. ASSUME NEW f, f[c] = new PROVE WrittenIn(f, err)
  BY <1>3, <1>6, <1>8, <1>9, <1>10 DEF WrittenIn
<1> QED BY <1>2, <1>7, <1>8, <1>10 DEF err, new, says, at

(* Spawning a thread failed: the parent has a text and the memory of the child. *)
LEMMA NotSpawned ==
  ASSUME ThreadsInv, NEW c \in Kids, c = cur, MainPc = "spawn",
         UNCHANGED <<program, cur, child, fds>>,
         NEW err \in Errs, Becomes(Main, Goto(Main, "unspawned", err)),
         err.kind = "text" => err.ctx = Interp /\ WrittenIn(maps', err),
         IsMaps(maps)',
         \A x \in Maps : \/ maps'[x] = maps[x]
                         \/ x = child[c].mem /\ MappedShape(maps'[x], Room[x]),
         MappedShape(maps'[Interp], MainRoom)
  PROVE  ThreadsInv' /\ OneUserStep
<1>1. Shapes /\ ThreadsOk /\ ParentOk /\ thread[Main].ctx = Interp BY DEF ThreadsInv, ThreadsOk
<1>2. "unspawned" \in Pcs /\ Main \in Threads BY ContextTypes DEF Pcs
<1>3. Goto(Main, "unspawned", err) \in ThreadRec BY <1>1, <1>2, GotoTypes
<1>4. /\ thread' \in [Threads -> ThreadRec] /\ thread'[Main] = Goto(Main, "unspawned", err)
      /\ \A u \in Kids : thread'[u] = thread[u]
  BY <1>1, <1>2, <1>3, BecomesTypes, ContextTypes
<1>5. MainPc' = "unspawned" /\ thread'[Main].err = err /\ thread'[Main].ctx = Interp
  BY <1>1, <1>2, <1>4, GotoTypes DEF MainPc
<1>6. child[c].ok /\ Holds(c) /\ Turned(c) BY <1>1, AtChild DEF ParentOk
<1>7. thread[c].pc = "idle"
  <2>1. c >= cur BY KidsBound
  <2> QED BY <1>6, <2>1 DEF Turned, Spawning
<1>8. TextIn(Main, Interp)' BY <1>5 DEF TextIn, Written
<1>9. ParentOk' BY <1>5, <1>6, <1>8 DEF ParentOk, Spawning
<1>10. \A i \in Kids : Turned(i)' BY <1>1, <1>4, <1>5 DEF Turned, Spawning, ThreadsOk
<1>11. thread'[Main] # thread[Main] BY <1>5 DEF MainPc
<1>12. MainPc \notin {"cleanup", "end"} /\ MainPc' \notin {"cleanup", "end"} BY <1>5
<1> HIDE DEF MainPc
<1> QED BY <1>4, <1>5, <1>6, <1>7, <1>9, <1>10, <1>11, <1>12, MainSteps

LEMMA SpawnCtxInv ==
  ASSUME ThreadsInv, SpawnCtx
  PROVE  ThreadsInv' /\ OneUserStep
<1>1. MainPc = "spawn" /\ UNCHANGED <<program, child, fds>> BY DEF SpawnCtx, At, MainPc
<1>2. /\ program = "threads" /\ Shapes /\ Held /\ ThreadsOk /\ ParentOk
      /\ thread[Main].ctx = Interp /\ IsMaps(maps)
  BY DEF ThreadsInv, ThreadsOk, Shapes
<1>3. PICK c \in Kids : c = cur /\ Turned(c) /\ ChildOk(c) /\ child[c].ok /\ Holds(c)
                       /\ child[c].mem \in Maps /\ child[c].mem \in Contexts
                       /\ MappedShape(maps[child[c].mem], RoomOf(child[c].mem))
  BY <1>1, <1>2, AtChild DEF ParentOk
<1>4. PICK m \in Maps : m = child[c].mem /\ MappedShape(maps[m], RoomOf(m)) BY <1>3
<1> DEFINE val == [inp |-> m, ctx |-> m]
           told == <<"path", c>>
           closed == Closed(m, val, told)
           says == <<Main, "unspawned">>
<1>5. HasRoom(m) =>
        /\ IsMaps(closed)
        /\ \A x \in Contexts \ {m} : closed[x] = maps[x]
        /\ MappedShape(closed[m], Room[m])
        /\ maps[m].top \in 1 .. RoomOf(m) /\ maps[m].top \in Nat /\ maps[m].top < closed[m].top
        /\ closed[m].cells[maps[m].top] = val
  <2>1. maps[m] # Unmapped BY <1>4, Mapped
  <2> HIDE DEF val, told
  <2> QED BY <1>2, <2>1, Closes DEF closed
<1>6. \/ /\ HasRoom(m) /\ maps' = closed
         /\ IF cur < Children THEN cur' = cur + 1 ELSE cur' = 1
         /\ thread' = [thread EXCEPT
              ![Main].pc = IF cur < Children THEN "init" ELSE "wait",
              ![c] = [Idle EXCEPT !.pc = "start", !.mem = m, !.run = maps[m].top]]
      \/ /\ HasRoom(m) /\ HasRoom(Interp)
         /\ Becomes(Main, Goto(Main, "unspawned", Text(Interp, says)))
         /\ maps' = [closed EXCEPT ![Interp] = Allocated(Interp, says)[Interp]]
         /\ UNCHANGED cur
      \/ /\ Becomes(Main, Goto(Main, "unspawned", Static))
         /\ maps' = IF HasRoom(m) THEN closed ELSE maps
         /\ UNCHANGED cur
  BY <1>3, <1>4 DEF SpawnCtx, Closed
<1> HIDE DEF closed, told
<1>7. "unspawned" \in Pcs /\ Main \in Threads /\ Interp \in Contexts /\ m \in Contexts
      /\ Interp # m /\ RoomOf(Interp) = MainRoom /\ RoomOf(m) = Room[m]
      /\ \A x \in Maps : x \in Contexts /\ x # Interp
  BY ContextTypes DEF Pcs
<1>8. MappedShape(maps[Interp], MainRoom) BY <1>2 DEF Shapes
<1>9. CASE /\ HasRoom(m) /\ HasRoom(Interp)
           /\ Becomes(Main, Goto(Main, "unspawned", Text(Interp, says)))
           /\ maps' = [closed EXCEPT ![Interp] = Allocated(Interp, says)[Interp]]
           /\ UNCHANGED cur
  <2> DEFINE err == Text(Interp, says)
             new == Allocated(Interp, says)[Interp]
  <2>1. /\ err \in Errs /\ err # Nil /\ err.ctx = Interp
        /\ Grows(maps[Interp], new, RoomOf(Interp))
        /\ \A f : f[Interp] = new => WrittenIn(f, err)
    BY <1>2, <1>7, <1>8, <1>9, Mapped, WritesText
  <2>2. /\ maps' = [closed EXCEPT ![Interp] = new]
        /\ Becomes(Main, Goto(Main, "unspawned", err))
    BY <1>9
  <2> HIDE DEF err, new, says
  <2>3. IsMaps(maps)' /\ maps'[Interp] = new /\ \A x \in Maps : maps'[x] = closed[x]
    BY <1>5, <1>7, <1>9, <2>2 DEF IsMaps
  <2>4. MappedShape(maps'[Interp], MainRoom) BY <1>7, <2>1, <2>3 DEF Grows
  <2>5. \A x \in Maps : \/ maps'[x] = maps[x]
                        \/ x = child[c].mem /\ MappedShape(maps'[x], Room[x])
    BY <1>4, <1>5, <1>7, <1>9, <2>3
  <2>6. err.kind = "text" => err.ctx = Interp /\ WrittenIn(maps', err)
    BY <2>1, <2>3
  <2> QED BY <1>1, <1>3, <1>9, <2>1, <2>2, <2>3, <2>4, <2>5, <2>6, NotSpawned
<1>10. CASE /\ Becomes(Main, Goto(Main, "unspawned", Static))
            /\ maps' = IF HasRoom(m) THEN closed ELSE maps
            /\ UNCHANGED cur
  <2>1. IsMaps(maps)' BY <1>2, <1>5, <1>10 DEF IsMaps
  <2>2. \A x \in Maps : \/ maps'[x] = maps[x]
                        \/ x = child[c].mem /\ MappedShape(maps'[x], Room[x])
    BY <1>4, <1>5, <1>7, <1>10
  <2>3. MappedShape(maps'[Interp], MainRoom) BY <1>5, <1>7, <1>8, <1>10
  <2> QED BY <1>1, <1>3, <1>10, <2>1, <2>2, <2>3, NilStatic, NotSpawned
<1>11. CASE /\ HasRoom(m) /\ maps' = closed
            /\ IF cur < Children THEN cur' = cur + 1 ELSE cur' = 1
            /\ thread' = [thread EXCEPT
                 ![Main].pc = IF cur < Children THEN "init" ELSE "wait",
                 ![c] = [Idle EXCEPT !.pc = "start", !.mem = m, !.run = maps[m].top]]
  <2> DEFINE next == IF cur < Children THEN "init" ELSE "wait"
             rec == [thread[Main] EXCEPT !.pc = next]
             at == maps[m].top
             kid == [Idle EXCEPT !.pc = "start", !.mem = m, !.run = at]
  <2>1. /\ kid \in ThreadRec /\ kid.pc = "start" /\ kid.mem = m /\ kid.run = at
        /\ kid.ctx = None /\ kid.err = Nil
    BY <1>5, <1>11, NilStatic DEF Idle, ThreadRec, Pcs, None
  <2>2. rec \in ThreadRec /\ rec.pc = next /\ rec.ctx = Interp /\ rec.err = Nil
    <3>1. next \in Pcs /\ thread[Main] \in ThreadRec /\ thread[Main].err = Nil
      BY <1>1, <1>2, <1>7 DEF Pcs, Shapes, ParentOk
    <3>2. rec = Placed(thread[Main], next) BY DEF Placed
    <3>3. thread[Main].ctx = Interp BY <1>2, <1>7
    <3> HIDE DEF next, rec
    <3> QED BY <3>1, <3>2, <3>3, PcTypes
  <2>3. Main # c /\ c \in Threads BY ContextTypes
  <2>4. thread' = [thread EXCEPT ![Main] = rec, ![c] = kid]
    BY <1>2, <1>7, <1>11, <2>3 DEF Shapes
  <2> HIDE DEF rec, kid, next, at, val
  <2>5. /\ thread' \in [Threads -> ThreadRec] /\ thread'[Main] = rec /\ thread'[c] = kid
        /\ \A u \in Threads : u # Main /\ u # c => thread'[u] = thread[u]
    BY <1>2, <1>7, <2>1, <2>2, <2>3, <2>4 DEF Shapes
  <2>6. MainPc' = next BY <2>2, <2>5 DEF MainPc
  <2>7. /\ cur' \in Kids
        /\ \/ cur' = cur + 1 /\ next = "init"
           \/ cur = Children /\ cur' = 1 /\ next = "wait"
    <3>1. Children \in Nat \ {0} /\ cur \in 1 .. Children BY <1>3, ThreadsAssumption DEF Kids
    <3>2. CASE cur < Children BY <1>11, <3>1, <3>2 DEF Kids, next
    <3>3. CASE ~(cur < Children) BY <1>11, <3>1, <3>3 DEF Kids, next
    <3> QED BY <3>2, <3>3
  <2>8. IsMaps(maps)' /\ maps'[m] = closed[m] /\ \A x \in Contexts \ {m} : maps'[x] = maps[x]
    BY <1>5, <1>11 DEF IsMaps
  <2>9. MappedShape(maps'[m], Room[m]) BY <1>5, <1>11, <2>8
  <2>10. maps'[Interp] = maps[Interp] BY <1>7, <2>8
  <2>11. Shapes'
    <3>1. \A x \in Maps : maps'[x] = Unmapped \/ MappedShape(maps'[x], Room[x])
      BY <1>2, <1>7, <2>8, <2>9 DEF Shapes
    <3>2. fds' \in [Fds -> Kids \cup {None}]
          /\ child' \in [Kids -> [mem : Maps \cup {None}, ok : BOOLEAN]] /\ program' = "threads"
      BY <1>1, <1>2 DEF Shapes
    <3> QED BY <2>5, <2>7, <2>8, <2>10, <1>8, <3>1, <3>2 DEF Shapes
  <2>12. thread[c].pc = "idle"
    <3>1. c >= cur BY <1>3, KidsBound
    <3> QED BY <1>1, <1>3, <3>1 DEF Turned, Spawning
  <2>13. Held'
    <3>1. ASSUME NEW i \in Kids, Holds(i)'
          PROVE  Holds(i) /\ HeldBy(i)' = HeldBy(i) /\ maps'[HeldBy(i)] # Unmapped
      <4>1. ~Freed(i) /\ ~Freed(i)' BY <1>1, <2>6, <2>7 DEF Freed
      <4>2. HeldBy(i)' = HeldBy(i) BY <1>1, <1>2 DEF HeldBy
      <4>3. Holds(i)
        <5>1. CASE i = c BY <1>3, <5>1
        <5>2. CASE i # c
          <6>1. thread'[i] = thread[i] BY <2>5, <5>2, ContextTypes
          <6> QED BY <1>1, <1>2, <3>1, <4>1, <6>1 DEF Holds
        <5> QED BY <5>1, <5>2
      <4>4. HeldBy(i) \in Maps /\ maps[HeldBy(i)] # Unmapped BY <1>2, <4>3 DEF Held
      <4>5. maps'[HeldBy(i)] # Unmapped BY <1>7, <2>8, <2>9, <4>4, Mapped
      <4> QED BY <4>2, <4>3, <4>5
    <3> QED BY <1>2, <3>1, HeldStays
  <2>14. ASSUME NEW u \in Kids, thread[u].pc # "idle"
         PROVE  /\ u # c /\ thread[u].mem = child[u].mem /\ child[u].mem # m
                /\ maps'[child[u].mem] = maps[child[u].mem]
    <3>1. u # c BY <2>12, <2>14
    <3>2. Holds(u) /\ thread[u].mem = child[u].mem /\ child[u].mem \in Maps
      BY <2>14, ChildMemory
    <3>3. HeldBy(u) = child[u].mem /\ HeldBy(c) = m BY <1>2, <1>4 DEF HeldBy
    <3>4. child[u].mem # m BY <1>2, <1>3, <3>1, <3>2, <3>3 DEF Held
    <3> QED BY <1>7, <2>8, <3>1, <3>2, <3>4
  <2>15. ASSUME NEW u \in Kids PROVE ChildOk(u)'
    <3>1. CASE u = c
      <4>1. Closure(c)'
        <5>1. thread'[c].mem = m /\ thread'[c].run = at BY <2>1, <2>5
        <5>2. at \in 1 .. RoomOf(m) /\ at < maps'[m].top /\ maps'[m].cells[at] = val
          BY <1>5, <1>11, <2>8 DEF at
        <5> QED BY <5>1, <5>2 DEF Closure, val, RoomOf
      <4>2. thread'[c].mem = child'[c].mem BY <1>1, <1>4, <2>1, <2>5
      <4> QED BY <2>1, <2>5, <3>1, <4>1, <4>2 DEF ChildOk
    <3>2. CASE u # c
      <4>1. thread'[u] = thread[u] BY <2>5, <3>2, ContextTypes
      <4> QED BY <1>1, <2>14, <4>1, ChildStays
    <3> QED BY <3>1, <3>2
  <2>16. ASSUME NEW u \in Kids PROVE Turned(u)'
    <3>1. Turned(u) /\ u \in Nat \ {0} /\ cur \in Nat \ {0} /\ u <= Children
      BY <1>2, <1>3, KidsBound DEF ThreadsOk
    <3>2. CASE cur' = cur + 1 /\ next = "init"
      <4>1. u >= cur' => u > cur /\ u >= cur /\ u # c BY <1>3, <3>1, <3>2
      <4>2. u > cur' \/ u = cur' => u >= cur' BY <3>1, <3>2
      <4>3. u >= cur' => thread[u].pc = "idle" /\ ~child[u].ok
        BY <1>1, <3>1, <4>1 DEF Turned, Spawning
      <4>4. u >= cur' => thread'[u] = thread[u] BY <2>5, <4>1, ContextTypes
      <4> QED BY <1>1, <2>6, <3>2, <4>2, <4>3, <4>4 DEF Turned
    <3>3. CASE cur' = 1 /\ next = "wait"
      <4>1. ~(u < cur') BY <3>1, <3>3
      <4> QED BY <2>6, <3>3, <4>1 DEF Turned, Spawning
    <3> QED BY <2>7, <3>2, <3>3
  <2>17. ParentOk'
    <3>1. MainPc' \in {"init", "wait"} BY <2>6, <2>7
    <3> QED BY <2>2, <2>5, <3>1 DEF ParentOk, Spawning
  <2>18. OneUserStep
    <3> SUFFICES ASSUME NEW u \in Threads, Runs(u)
                 PROVE  maps'[MemoryOf(u)] = maps[MemoryOf(u)]
      BY DEF OneUserStep
    <3>1. CASE u = Main BY <2>10, <3>1 DEF MemoryOf
    <3>2. CASE u \in Kids
      <4>1. thread[u].pc # "idle" /\ MemoryOf(u) = thread[u].mem
        BY <3>2, ContextTypes DEF Runs, MemoryOf
      <4> QED BY <2>14, <3>2, <4>1
    <3> QED BY <3>1, <3>2, ContextTypes
  <2>19. \A fd \in Fds : fds'[fd] = None BY <1>1, <1>2 DEF ThreadsOk
  <2>20. thread'[Main].ctx = Interp /\ program' = "threads" BY <1>1, <1>2, <2>2, <2>5
  <2> QED BY <2>11, <2>13, <2>15, <2>16, <2>17, <2>18, <2>19, <2>20 DEF ThreadsInv, ThreadsOk
<1> QED BY <1>6, <1>9, <1>10, <1>11

LEMMA ThreadsStutter ==
  ASSUME ThreadsInv, UNCHANGED <<program, thread, cur, child, maps, lost, fds>>
  PROVE  ThreadsInv' /\ OneUserStep
<1>1. Shapes' BY DEF ThreadsInv, Shapes, IsMaps
<1>2. Held' BY DEF ThreadsInv, Held, Holds, HeldBy, Freed, MainPc
<1>3. ParentOk' BY DEF ThreadsInv, ThreadsOk, ParentOk, MainPc, TextIn, Written, WrittenIn
<1>4. ASSUME NEW i \in Kids PROVE ChildOk(i)' BY ChildStays
<1>5. ASSUME NEW i \in Kids PROVE Turned(i)' BY DEF ThreadsInv, ThreadsOk, Turned, MainPc
<1>6. OneUserStep BY DEF OneUserStep
<1> QED BY <1>1, <1>2, <1>3, <1>4, <1>5, <1>6 DEF ThreadsInv, ThreadsOk

LEMMA ThreadsNext ==
  ASSUME ThreadsInv, Next
  PROVE  ThreadsInv' /\ OneUserStep
<1>1. /\ program = "threads" /\ Shapes /\ ThreadsOk
      /\ MainPc \in {"init", "spawn", "unspawned", "wait", "joined", "not joined", "cleanup", "end", "faulted"}
      /\ \A t \in Kids : thread[t].pc \in {"idle", "start", "run", "return", "done", "faulted"}
  BY DEF ThreadsInv, ThreadsOk, ParentOk, ChildOk, Spawning
<1>2. CASE InitChild \/ SpawnCtx \/ Unspawned \/ Join \/ Joined \/ NotJoined \/ Cleanup
  BY <1>2, InitChildInv, SpawnCtxInv, UnspawnedInv, JoinInv, JoinedInv, NotJoinedInv, CleanupInv
<1>3. CASE \E pc \in {"wait", "cleanup"} : Skip(pc) BY <1>3, SkipInv
<1>4. CASE Log \/ SpawnDetached \/ Refused \/ Accept \/ NotAccepted
  BY <1>1, <1>4 DEF Log, SpawnDetached, Refused, Accept, NotAccepted, At, MainPc
<1>5. ASSUME NEW t \in Kids, Child(t) PROVE ThreadsInv' /\ OneUserStep
  <2>1. CASE Trampoline(t) \/ RunChild(t) \/ Return(t)
    BY <2>1, TrampolineInv, RunChildInv, ReturnInv
  <2>2. CASE Handler(t) BY <1>1, <2>2 DEF Handler
  <2>3. CASE Unserved(t) \/ Read(t) \/ Answer(t) \/ CloseConn(t) \/ LogServed(t) \/ Leave(t)
    BY <1>1, <2>3 DEF Unserved, Read, Answer, CloseConn, LogServed, Leave, At
  <2> QED BY <1>5, <2>1, <2>2, <2>3 DEF Child
<1>6. ASSUME NEW t \in Threads, Fault(t) PROVE ThreadsInv' /\ OneUserStep
  BY <1>6, MainFaultInv, ChildFaultInv, ContextTypes
<1>7. ASSUME NEW t \in Threads, Handle(t) PROVE ThreadsInv' /\ OneUserStep
  <2>1. UNCHANGED <<program, thread, cur, child, maps, lost, fds>> BY <1>7 DEF Handle
  <2> QED BY <2>1, ThreadsStutter
<1>8. ASSUME NEW t \in Kids, Break(t) PROVE ThreadsInv' /\ OneUserStep
  BY <1>1, <1>8 DEF Break, At
<1>9. ASSUME NEW fd \in Fds, Client(fd) PROVE ThreadsInv' /\ OneUserStep
  <2>1. UNCHANGED <<program, thread, cur, child, maps, lost, fds>> BY <1>9 DEF Client
  <2> QED BY <2>1, ThreadsStutter
<1> QED BY <1>2, <1>3, <1>4, <1>5, <1>6, <1>7, <1>8, <1>9 DEF Next, Parent
----
(* The program with detached threads. *)

EchoInv ==
  /\ Shapes /\ program = "echo"
  /\ thread[Main].ctx = Interp
  /\ Held
  /\ EchoOk

LEMMA WorkerMemory ==
  ASSUME EchoInv, NEW t \in Kids, thread[t].mem # None
  PROVE  /\ thread[t].mem \in Maps /\ thread[t].mem \in Contexts
         /\ MappedShape(maps[thread[t].mem], RoomOf(thread[t].mem))
         /\ \A u \in Kids : u # t => thread[u].mem # thread[t].mem
<1>1. Holds(t) /\ HeldBy(t) = thread[t].mem BY DEF EchoInv, Holds, HeldBy
<1>2. thread[t].mem \in Maps /\ maps[thread[t].mem] # Unmapped BY <1>1 DEF EchoInv, Held
<1>3. \A u \in Kids : u # t => thread[u].mem # thread[t].mem
  BY <1>1 DEF EchoInv, Held, Holds, HeldBy
<1> QED BY <1>2, <1>3, ShapeOf, ContextTypes DEF EchoInv

LEMMA WorkerStays ==
  ASSUME EchoInv, NEW t \in Kids, thread'[t] = thread[t],
         thread[t].mem # None => maps'[thread[t].mem] = maps[thread[t].mem]
  PROVE  WorkerOk(t)'
<1>1. WorkerOk(t) BY DEF EchoInv, EchoOk
<1>2. TextIn(t, thread[t].mem) => TextIn(t, thread[t].mem)'
  <2>1. CASE thread[t].mem = None
    <3>1. ASSUME thread[t].err.kind = "text" PROVE thread[t].err.ctx # None
      BY <3>1, ContextTypes, NilStatic DEF EchoInv, Shapes, ThreadRec, Errs
    <3> QED BY <2>1, <3>1 DEF TextIn
  <2>2. CASE thread[t].mem # None
    BY <2>2, WorkerMemory, TextStays, ContextTypes DEF EchoInv
  <2> QED BY <2>1, <2>2
<1> QED BY <1>1, <1>2 DEF WorkerOk, Idle

(* A step of the accepting thread which leaves the workers alone. *)
LEMMA AccepterSteps ==
  ASSUME EchoInv, UNCHANGED <<program, cur, child>>,
         thread' \in [Threads -> ThreadRec],
         \A u \in Kids : thread'[u] = thread[u],
         thread'[Main].ctx = Interp, thread'[Main] # thread[Main],
         IsMaps(maps)', \A x \in Maps : maps'[x] = maps[x],
         MappedShape(maps'[Interp], MainRoom),
         fds' \in [Fds -> Kids \cup {None}],
         AccepterOk', FdsOk'
  PROVE  EchoInv' /\ OneUserStep
<1>1. program = "echo" /\ Shapes /\ Held /\ EchoOk BY DEF EchoInv
<1>2. Shapes' BY <1>1 DEF Shapes
<1>3. Held' BY <1>1 DEF Held, Holds, HeldBy
<1>4. ASSUME NEW u \in Kids PROVE WorkerOk(u)'
  BY <1>1, WorkerStays, WorkerMemory
<1>5. OneUserStep
  <2> SUFFICES ASSUME NEW u \in Kids, Runs(u)
               PROVE  maps'[MemoryOf(u)] = maps[MemoryOf(u)]
    BY ContextTypes DEF OneUserStep
  <2>1. MemoryOf(u) = thread[u].mem /\ thread[u].mem # None BY ContextTypes DEF Runs, MemoryOf
  <2> QED BY <2>1, WorkerMemory
<1> QED BY <1>1, <1>2, <1>3, <1>4, <1>5 DEF EchoInv, EchoOk

(* A step of a worker: it uses its own memory, or what was not mapped. *)
UsesOwn(t) ==
  /\ \A x \in Maps : /\ maps'[x] = Unmapped \/ MappedShape(maps'[x], Room[x])
                     /\ maps'[x] # maps[x] => x = thread[t].mem \/ maps[x] = Unmapped
  /\ thread'[t].mem # None =>
       /\ thread'[t].mem \in Maps /\ maps'[thread'[t].mem] # Unmapped
       /\ thread'[t].mem = thread[t].mem \/ maps[thread'[t].mem] = Unmapped

LEMMA WorkerSteps ==
  ASSUME EchoInv, NEW t \in Kids, UNCHANGED <<program, cur, child>>,
         thread' \in [Threads -> ThreadRec],
         \A u \in Threads \ {t} : thread'[u] = thread[u], thread'[t] # thread[t],
         IsMaps(maps)', maps'[Interp] = maps[Interp],
         UsesOwn(t),
         fds' \in [Fds -> Kids \cup {None}],
         WorkerOk(t)', FdsOk'
  PROVE  EchoInv' /\ OneUserStep
<1>1. program = "echo" /\ Shapes /\ Held /\ EchoOk /\ thread[Main].ctx = Interp BY DEF EchoInv
<1>2. thread'[Main] = thread[Main] BY ContextTypes
<1>0. \A x \in Maps : /\ maps'[x] = Unmapped \/ MappedShape(maps'[x], Room[x])
                      /\ maps'[x] # maps[x] => x = thread[t].mem \/ maps[x] = Unmapped
  BY DEF UsesOwn
<1>3. Shapes'
  <2>1. MappedShape(maps'[Interp], MainRoom) BY <1>1 DEF Shapes
  <2> QED BY <1>0, <1>1, <2>1 DEF Shapes
<1>4. ASSUME NEW u \in Kids, u # t, thread[u].mem # None
      PROVE  /\ thread'[u] = thread[u] /\ thread[u].mem \in Maps
             /\ maps'[thread[u].mem] = maps[thread[u].mem]
             /\ maps[thread[u].mem] # Unmapped
  <2>1. /\ thread[u].mem \in Maps /\ MappedShape(maps[thread[u].mem], RoomOf(thread[u].mem))
        /\ thread[t].mem # thread[u].mem
    BY <1>4, WorkerMemory
  <2>2. maps[thread[u].mem] # Unmapped BY <2>1, Mapped
  <2>3. thread'[u] = thread[u] BY <1>4, ContextTypes
  <2> QED BY <1>0, <2>1, <2>2, <2>3
<1>5. Held'
  <2>1. \A i \in Kids : (Holds(i)' <=> thread'[i].mem # None) /\ HeldBy(i)' = thread'[i].mem
    BY <1>1 DEF Holds, HeldBy
  <2>2. \A i \in Kids : i # t => thread'[i] = thread[i] BY ContextTypes
  <2>3. ASSUME NEW i \in Kids, thread'[i].mem # None
        PROVE  thread'[i].mem \in Maps /\ maps'[thread'[i].mem] # Unmapped
    BY <1>4, <2>2, <2>3 DEF UsesOwn
  <2>4. ASSUME NEW i \in Kids, NEW j \in Kids, i # j,
               thread'[i].mem # None, thread'[j].mem # None
        PROVE  thread'[i].mem # thread'[j].mem
    <3>1. ASSUME NEW u \in Kids, u # t, thread'[u].mem # None, thread'[t].mem # None
          PROVE  thread'[u].mem # thread'[t].mem
      <4>1. CASE thread'[t].mem = thread[t].mem
        BY <2>2, <3>1, <4>1, WorkerMemory
      <4>2. CASE maps[thread'[t].mem] = Unmapped
        BY <1>4, <2>2, <3>1, <4>2
      <4> QED BY <3>1, <4>1, <4>2 DEF UsesOwn
    <3>2. CASE i # t /\ j # t BY <2>2, <2>4, <3>2, WorkerMemory
    <3> QED BY <2>4, <3>1, <3>2
  <2> QED BY <2>1, <2>3, <2>4 DEF Held
<1>6. ASSUME NEW u \in Kids PROVE WorkerOk(u)'
  <2>1. CASE u = t BY <2>1
  <2>2. CASE u # t
    <3>1. thread'[u] = thread[u] BY <2>2, ContextTypes
    <3> QED BY <1>4, <2>2, <3>1, WorkerStays
  <2> QED BY <2>1, <2>2
<1>7. AccepterOk'
  <2>1. TextIn(Main, Interp) => TextIn(Main, Interp)'
    BY <1>1, <1>2, TextStays, ContextTypes
  <2> QED BY <1>1, <1>2, <2>1 DEF EchoOk, AccepterOk, MainPc
<1>8. OneUserStep
  <2> SUFFICES ASSUME NEW u \in Threads, u # t, Runs(u)
               PROVE  maps'[MemoryOf(u)] = maps[MemoryOf(u)]
    BY DEF OneUserStep
  <2>1. CASE u = Main BY <2>1 DEF MemoryOf
  <2>2. CASE u \in Kids
    <3>1. MemoryOf(u) = thread[u].mem /\ thread[u].mem # None
      BY <2>2, ContextTypes DEF Runs, MemoryOf
    <3> QED BY <1>4, <2>2, <3>1
  <2> QED BY <2>1, <2>2, ContextTypes
<1> QED BY <1>1, <1>2, <1>3, <1>5, <1>6, <1>7, <1>8 DEF EchoInv, EchoOk

(* No connection is opened or closed. *)
LEMMA FdsStay ==
  ASSUME FdsOk, fds' = fds,
         \A u \in Threads : (Owes(u)' <=> Owes(u)) /\ (Owes(u) => thread'[u].fd = thread[u].fd),
         \A u \in Kids : thread[u].pc = "idle" => thread'[u].pc = "idle"
  PROVE  FdsOk'
<1>1. Main \in Threads /\ \A u \in Kids : u \in Threads BY ContextTypes
<1>2. Owes(Main)' => /\ thread'[Main].fd \in Fds /\ fds'[thread'[Main].fd] \in Kids
                     /\ thread'[fds'[thread'[Main].fd]].pc = "idle"
  BY <1>1 DEF FdsOk
<1>3. \A u \in Kids : Owes(u)' => thread'[u].fd \in Fds /\ fds'[thread'[u].fd] = u
  BY <1>1 DEF FdsOk
<1>4. \A fd \in Fds : fds'[fd] # None => \E u \in Threads : Owes(u)' /\ thread'[u].fd = fd
  BY DEF FdsOk
<1> QED BY <1>2, <1>3, <1>4 DEF FdsOk

(* No two threads owe closing the same connection. *)
LEMMA OneOwes ==
  ASSUME FdsOk, NEW t \in Threads, NEW u \in Threads, t # u, Owes(t), Owes(u)
  PROVE  thread[t].fd # thread[u].fd
<1>1. ASSUME NEW k \in Kids, Owes(k), Owes(Main) PROVE thread[k].fd # thread[Main].fd
  <2>1. thread[fds[thread[Main].fd]].pc = "idle" BY <1>1 DEF FdsOk
  <2>2. fds[thread[k].fd] = k BY <1>1 DEF FdsOk
  <2>3. k # Main BY ContextTypes
  <2>4. thread[k].pc # "idle" BY <1>1, <2>3 DEF Owes
  <2> QED BY <2>1, <2>2, <2>4
<1>2. CASE t = Main BY <1>1, <1>2, ContextTypes
<1>3. CASE u = Main BY <1>1, <1>3, ContextTypes
<1>4. CASE t # Main /\ u # Main
  <2>1. t \in Kids /\ u \in Kids BY <1>4, ContextTypes
  <2>2. fds[thread[t].fd] = t /\ fds[thread[u].fd] = u BY <2>1 DEF FdsOk
  <2> QED BY <2>2
<1> QED BY <1>2, <1>3, <1>4

(* A thread which owes closing a connection closes it. *)
LEMMA FdsClose ==
  ASSUME FdsOk, NEW t \in Threads, Owes(t), fds' = [fds EXCEPT ![thread[t].fd] = None],
         fds \in [Fds -> Kids \cup {None}], program' = program,
         \A u \in Threads \ {t} : thread'[u] = thread[u], ~Owes(t)'
  PROVE  FdsOk' /\ fds' \in [Fds -> Kids \cup {None}]
<1>1. Main \in Threads /\ None \notin Kids /\ Main \notin Kids
      /\ \A u \in Threads : u \in Kids <=> u # Main
  BY ContextTypes
<1>2. \A u \in Threads \ {t} : Owes(u)' <=> Owes(u) BY DEF Owes
<1>3. PICK fd \in Fds : fd = thread[t].fd /\ fds[fd] \in Kids BY <1>1 DEF FdsOk
<1>4. fds'[fd] = None /\ \A f \in Fds \ {fd} : fds'[f] = fds[f] BY <1>3
<1>5. ASSUME NEW u \in Threads \ {t}, Owes(u) PROVE thread[u].fd # fd
  BY <1>3, <1>5, OneOwes
<1>6. ASSUME Owes(Main)'
      PROVE  /\ thread'[Main].fd \in Fds /\ fds'[thread'[Main].fd] \in Kids
             /\ thread'[fds'[thread'[Main].fd]].pc = "idle"
  <2>1. Main # t /\ Owes(Main) /\ thread'[Main] = thread[Main] BY <1>1, <1>2, <1>6
  <2>2. thread[Main].fd # fd /\ thread[Main].fd \in Fds /\ fds[thread[Main].fd] \in Kids
        /\ thread[fds[thread[Main].fd]].pc = "idle"
    BY <1>1, <1>5, <2>1 DEF FdsOk
  <2>3. fds[thread[Main].fd] # t BY <2>1, <2>2 DEF Owes
  <2>4. PICK w \in Kids : w = fds[thread[Main].fd] BY <2>2
  <2>5. thread'[w] = thread[w] BY <2>3, <2>4, ContextTypes
  <2>6. fds'[thread[Main].fd] = w BY <1>4, <2>2, <2>4
  <2> QED BY <2>1, <2>2, <2>4, <2>5, <2>6
<1>7. ASSUME NEW u \in Kids, Owes(u)'
      PROVE  thread'[u].fd \in Fds /\ fds'[thread'[u].fd] = u
  <2>1. u # t /\ u \in Threads \ {t} /\ Owes(u) /\ thread'[u] = thread[u]
    BY <1>1, <1>2, <1>7, ContextTypes
  <2> QED BY <1>4, <1>5, <2>1 DEF FdsOk
<1>8. ASSUME NEW f \in Fds, fds'[f] # None
      PROVE  \E u \in Threads : Owes(u)' /\ thread'[u].fd = f
  <2>1. f # fd /\ fds[f] # None BY <1>4, <1>8
  <2>2. PICK u \in Threads : Owes(u) /\ thread[u].fd = f BY <2>1 DEF FdsOk
  <2>3. u # t BY <1>3, <2>1, <2>2
  <2> QED BY <1>2, <2>2, <2>3
<1>9. fds' \in [Fds -> Kids \cup {None}] BY <1>3
<1> QED BY <1>6, <1>7, <1>8, <1>9 DEF FdsOk

LEMMA FdTypes ==
  ASSUME NEW rec \in ThreadRec, NEW fd \in Fds \cup {None}
  PROVE  LET new == [rec EXCEPT !.fd = fd] IN
         /\ new \in ThreadRec /\ new.fd = fd /\ new.pc = rec.pc /\ new.ctx = rec.ctx
         /\ new.saved = rec.saved /\ new.mem = rec.mem /\ new.run = rec.run /\ new.err = rec.err
BY DEF ThreadRec

(* .net_accept_loop_threaded starts each turn with empty memory. *)
LEMMA Rewinds ==
  ASSUME EchoInv
  PROVE  /\ IsMaps(Rewound) /\ \A x \in Maps : Rewound[x] = maps[x]
         /\ Rewound[Interp] = Ctx(Interp, MainRoom)
         /\ MappedShape(Rewound[Interp], MainRoom)
<1> DEFINE new == Ctx(Interp, MainRoom)
<1>1. MappedShape(new, MainRoom) BY NewContext, ContextTypes
<1>2. IsMaps(maps) BY DEF EchoInv, Shapes
<1> HIDE DEF new
<1>3. Rewound = [maps EXCEPT ![Interp] = new] BY DEF Rewound, new
<1> QED BY <1>1, <1>2, <1>3, ContextTypes DEF IsMaps, new

(* Only the main thread may owe anything new. *)
LEMMA MainOwes ==
  ASSUME EchoInv, program' = "echo", \A u \in Kids : thread'[u] = thread[u]
  PROVE  \A u \in Kids : Owes(u)' <=> Owes(u)
BY ContextTypes DEF EchoInv, Owes

LEMMA AcceptInv ==
  ASSUME EchoInv, Accept
  PROVE  EchoInv' /\ OneUserStep
<1>1. /\ MainPc = "accept" /\ maps' = Rewound /\ UNCHANGED <<program, cur, child>>
  BY DEF Accept, At, MainPc
<1>2. PICK fd \in Fds, w \in Kids :
        /\ fds[fd] = None /\ thread[w].pc = "idle" /\ w \notin {fds[f] : f \in Fds}
        /\ fds' = [fds EXCEPT ![fd] = w]
        /\ Becomes(Main, [Goto(Main, "accepted", Nil) EXCEPT !.fd = fd])
  BY DEF Accept
<1>3. Shapes /\ program = "echo" /\ AccepterOk /\ FdsOk /\ thread[Main].ctx = Interp
  BY DEF EchoInv, EchoOk
<1> DEFINE go == Goto(Main, "accepted", Nil)
           rec == [go EXCEPT !.fd = fd]
<1>4. Main \in Threads /\ "accepted" \in Pcs /\ None \notin Kids BY ContextTypes DEF Pcs
<1>5. go \in ThreadRec /\ go.pc = "accepted" /\ go.err = Nil /\ go.ctx = Interp
  BY <1>3, <1>4, GotoTypes, NilStatic
<1> HIDE DEF go
<1>6. rec \in ThreadRec /\ rec.pc = "accepted" /\ rec.err = Nil /\ rec.ctx = Interp /\ rec.fd = fd
  BY <1>5, FdTypes
<1>7. Becomes(Main, rec) BY <1>2 DEF go
<1> HIDE DEF rec
<1>8. /\ thread' \in [Threads -> ThreadRec] /\ thread'[Main] = rec
      /\ \A u \in Kids : thread'[u] = thread[u]
  BY <1>3, <1>4, <1>6, <1>7, BecomesTypes, ContextTypes
<1>9. /\ IsMaps(maps)' /\ MappedShape(maps'[Interp], MainRoom)
      /\ \A x \in Maps : maps'[x] = maps[x]
  BY <1>1, Rewinds DEF IsMaps
<1>10. AccepterOk' BY <1>6, <1>8, NilStatic DEF AccepterOk, MainPc, TextIn
<1>11. fds \in [Fds -> Kids \cup {None}] BY <1>3 DEF Shapes
<1>12. fds' \in [Fds -> Kids \cup {None}] /\ fds'[fd] = w /\ \A f \in Fds \ {fd} : fds'[f] = fds[f]
  BY <1>2, <1>11
<1>13. FdsOk'
  <2>1. Owes(Main)' /\ ~Owes(Main) BY <1>1, <1>6, <1>8 DEF Owes, MainPc
  <2>2. \A u \in Kids : Owes(u)' <=> Owes(u) BY <1>1, <1>3, <1>8, MainOwes
  <2>3. /\ thread'[Main].fd \in Fds /\ fds'[thread'[Main].fd] \in Kids
        /\ thread'[fds'[thread'[Main].fd]].pc = "idle"
    BY <1>2, <1>6, <1>8, <1>12
  <2>4. ASSUME NEW u \in Kids, Owes(u)'
        PROVE  thread'[u].fd \in Fds /\ fds'[thread'[u].fd] = u
    <3>1. thread[u].fd \in Fds /\ fds[thread[u].fd] = u BY <1>3, <2>2, <2>4 DEF FdsOk
    <3>2. thread[u].fd # fd BY <1>2, <1>4, <3>1
    <3> QED BY <1>8, <1>12, <3>1, <3>2
  <2>5. ASSUME NEW f \in Fds, fds'[f] # None
        PROVE  \E u \in Threads : Owes(u)' /\ thread'[u].fd = f
    <3>1. CASE f = fd BY <1>4, <1>6, <1>8, <2>1, <3>1
    <3>2. CASE f # fd
      <4>1. PICK u \in Threads : Owes(u) /\ thread[u].fd = f BY <1>3, <1>12, <2>5, <3>2 DEF FdsOk
      <4>2. u \in Kids BY <2>1, <4>1, ContextTypes
      <4> QED BY <1>8, <2>2, <4>1, <4>2
    <3> QED BY <3>1, <3>2
  <2> QED BY <2>3, <2>4, <2>5 DEF FdsOk
<1>14. thread'[Main] # thread[Main] BY <1>1, <1>6, <1>8 DEF MainPc
<1> QED BY <1>1, <1>6, <1>8, <1>9, <1>10, <1>12, <1>13, <1>14, AccepterSteps

LEMMA NotAcceptedInv ==
  ASSUME EchoInv, NotAccepted
  PROVE  EchoInv' /\ OneUserStep
<1> DEFINE says == <<Main, "log">>
           err == [Text(Interp, says) EXCEPT !.cell = 1]
           new == [Rewound EXCEPT ![Interp].cells[1] = says, ![Interp].top = 2]
           told == IF MainRoom = 0 THEN Static ELSE err
<1>1. /\ MainPc = "accept" /\ UNCHANGED <<program, cur, child, fds>>
      /\ maps' = IF MainRoom = 0 THEN Rewound ELSE new
      /\ Becomes(Main, Goto(Main, "log", told))
  BY DEF NotAccepted, At, MainPc
<1>2. Shapes /\ program = "echo" /\ AccepterOk /\ FdsOk /\ thread[Main].ctx = Interp
  BY DEF EchoInv, EchoOk
<1>3. Main \in Threads /\ "log" \in Pcs /\ Interp \in Contexts /\ MainRoom \in Nat
      /\ RoomOf(Interp) = MainRoom
  BY ContextTypes DEF Pcs
<1>4. /\ IsMaps(Rewound) /\ \A x \in Maps : Rewound[x] = maps[x]
      /\ Rewound[Interp] = Ctx(Interp, MainRoom) /\ MappedShape(Rewound[Interp], MainRoom)
  BY Rewinds
<1>5. err = [kind |-> "text", ctx |-> Interp, cell |-> 1, says |-> says] BY DEF Text
<1>6. err \in Errs BY <1>3, <1>5 DEF Errs
<1>7. err.kind = "text" /\ err.ctx = Interp /\ err.cell = 1 /\ err.says = says BY <1>5
<1>8. MainRoom # 0 => /\ IsMaps(new) /\ \A x \in Maps : new[x] = maps[x]
                      /\ MappedShape(new[Interp], MainRoom) /\ WrittenIn(new, err)
  <2> DEFINE m == Rewound[Interp]
             cells == [m.cells EXCEPT ![1] = says]
             n == new[Interp]
  <2>1. n = [m EXCEPT !.cells = cells, !.top = 2] /\ IsMaps(new) /\ \A x \in Maps : new[x] = maps[x]
    BY <1>3, <1>4, ContextTypes DEF IsMaps
  <2>2. MappedShape(m, MainRoom) BY <1>4
  <2> HIDE DEF n, m, says, err
  <2>3. cells = [k \in 1 .. MainRoom |-> IF k = 1 THEN says ELSE m.cells[k]]
    BY <2>2 DEF MappedShape
  <2> HIDE DEF cells
  <2>4. n.top = 2 /\ n.cells = cells /\ n.mapped = TRUE /\ n = [x \in Fields |-> n[x]]
    BY <2>1, <2>2 DEF MappedShape, Fields
  <2>5. MappedShape(n, MainRoom)
    <3>1. cells = [k \in 1 .. MainRoom |-> cells[k]] BY <2>3
    <3> QED BY <2>4, <3>1 DEF MappedShape
  <2>6. MainRoom # 0 => 1 \in 1 .. MainRoom BY <1>3
  <2>7. MainRoom # 0 => WrittenIn(new, err)
    <3>1. n # Unmapped BY <2>5, Mapped
    <3>2. MainRoom # 0 => cells[1] = says BY <2>3, <2>6
    <3> HIDE DEF new
    <3> QED BY <1>3, <1>7, <2>4, <2>6, <3>1, <3>2 DEF WrittenIn, n
  <2> QED BY <2>1, <2>5, <2>7 DEF n
<1> HIDE DEF new, err, says
<1>9. told \in Errs /\ (told.kind = "text" => MainRoom # 0 /\ told = err) BY <1>6, NilStatic
<1> HIDE DEF told
<1>10. Goto(Main, "log", told) \in ThreadRec BY <1>2, <1>3, <1>9, GotoTypes
<1>11. /\ thread' \in [Threads -> ThreadRec] /\ thread'[Main] = Goto(Main, "log", told)
       /\ \A u \in Kids : thread'[u] = thread[u]
  BY <1>1, <1>2, <1>3, <1>10, BecomesTypes, ContextTypes
<1>12. MainPc' = "log" /\ thread'[Main].err = told /\ thread'[Main].ctx = Interp
  BY <1>2, <1>3, <1>9, <1>11, GotoTypes DEF MainPc
<1>13. /\ IsMaps(maps)' /\ MappedShape(maps'[Interp], MainRoom)
       /\ \A x \in Maps : maps'[x] = maps[x]
  BY <1>1, <1>4, <1>8 DEF IsMaps
<1>14. AccepterOk'
  <2>1. TextIn(Main, Interp)' BY <1>1, <1>7, <1>8, <1>9, <1>12 DEF TextIn, Written
  <2> QED BY <1>12, <2>1 DEF AccepterOk
<1>15. FdsOk'
  <2>1. ~Owes(Main) /\ ~Owes(Main)' BY <1>1, <1>12 DEF Owes, MainPc
  <2>2. \A u \in Kids : Owes(u)' <=> Owes(u) BY <1>1, <1>2, <1>11, MainOwes
  <2> QED BY <1>1, <1>2, <1>11, <2>1, <2>2, FdsStay, ContextTypes
<1>16. thread'[Main] # thread[Main] BY <1>1, <1>12 DEF MainPc
<1>17. fds' \in [Fds -> Kids \cup {None}] BY <1>1, <1>2 DEF Shapes
<1> QED BY <1>1, <1>11, <1>12, <1>13, <1>14, <1>15, <1>16, <1>17, AccepterSteps

(* The accepting thread goes on without using its memory. *)
LEMMA AccepterGoes ==
  ASSUME EchoInv, UNCHANGED <<program, cur, child, maps>>,
         NEW rec \in ThreadRec, Becomes(Main, rec), rec.ctx = Interp, rec.pc # MainPc,
         rec.pc \in {"accept", "accepted", "refused", "log", "faulted"}, rec.err = Nil,
         fds' \in [Fds -> Kids \cup {None}], FdsOk'
  PROVE  EchoInv' /\ OneUserStep
<1>1. Shapes /\ program = "echo" BY DEF EchoInv
<1>2. /\ thread' \in [Threads -> ThreadRec] /\ thread'[Main] = rec
      /\ \A u \in Kids : thread'[u] = thread[u]
  BY <1>1, BecomesTypes, ContextTypes
<1>3. /\ IsMaps(maps)' /\ MappedShape(maps'[Interp], MainRoom)
      /\ \A x \in Maps : maps'[x] = maps[x]
  BY <1>1 DEF Shapes, IsMaps
<1>4. AccepterOk' BY <1>2, NilStatic DEF AccepterOk, MainPc, TextIn
<1>5. thread'[Main] # thread[Main] BY <1>2 DEF MainPc
<1> QED BY <1>2, <1>3, <1>4, <1>5, AccepterSteps

LEMMA LogInv ==
  ASSUME EchoInv, Log
  PROVE  EchoInv' /\ OneUserStep
<1> DEFINE rec == Goto(Main, "accept", Nil)
<1>1. /\ MainPc = "log" /\ UNCHANGED <<program, cur, child, maps, fds>> /\ Becomes(Main, rec)
  BY DEF Log, At, MainPc
<1>2. Shapes /\ program = "echo" /\ FdsOk /\ thread[Main].ctx = Interp
      /\ fds \in [Fds -> Kids \cup {None}]
  BY DEF EchoInv, EchoOk, Shapes
<1>3. Main \in Threads /\ "accept" \in Pcs BY ContextTypes DEF Pcs
<1>4. rec \in ThreadRec /\ rec.pc = "accept" /\ rec.err = Nil /\ rec.ctx = Interp
  BY <1>2, <1>3, GotoTypes, NilStatic
<1> HIDE DEF rec
<1>5. thread'[Main] = rec /\ \A u \in Kids : thread'[u] = thread[u]
  BY <1>1, <1>2, <1>3, <1>4, BecomesTypes, ContextTypes
<1>6. FdsOk'
  <2>1. ~Owes(Main) /\ ~Owes(Main)' BY <1>1, <1>4, <1>5 DEF Owes, MainPc
  <2>2. \A u \in Kids : Owes(u)' <=> Owes(u) BY <1>1, <1>2, <1>5, MainOwes
  <2> QED BY <1>1, <1>2, <1>5, <2>1, <2>2, FdsStay, ContextTypes
<1> QED BY <1>1, <1>2, <1>4, <1>6, AccepterGoes

LEMMA AccepterFaultInv ==
  ASSUME EchoInv, Fault(Main)
  PROVE  EchoInv' /\ OneUserStep
<1> DEFINE rec == [thread[Main] EXCEPT !.pc = "faulted"]
<1>2. Shapes /\ program = "echo" /\ FdsOk /\ AccepterOk /\ thread[Main].ctx = Interp
      /\ fds \in [Fds -> Kids \cup {None}]
  BY DEF EchoInv, EchoOk, Shapes
<1>1. /\ MainPc = "accept" /\ UNCHANGED <<program, cur, child, maps, fds>> /\ Becomes(Main, rec)
  BY <1>2 DEF Fault, AccepterOk, MainPc
<1>3. Main \in Threads /\ "faulted" \in Pcs /\ thread[Main] \in ThreadRec /\ Interp \in Contexts
  BY <1>2, ContextTypes DEF Pcs, Shapes
<1>4. rec \in ThreadRec /\ rec.pc = "faulted" /\ rec.err = Nil /\ rec.ctx = Interp
  <2>1. thread[Main].err = Nil BY <1>1, <1>2 DEF AccepterOk
  <2>2. rec = Placed(thread[Main], "faulted") BY DEF Placed
  <2>3. thread[Main].ctx = Interp BY <1>2
  <2> HIDE DEF rec
  <2> QED BY <1>3, <2>1, <2>2, <2>3, PcTypes
<1> HIDE DEF rec
<1>5. thread'[Main] = rec /\ \A u \in Kids : thread'[u] = thread[u]
  BY <1>1, <1>2, <1>3, <1>4, BecomesTypes, ContextTypes
<1>6. FdsOk'
  <2>1. ~Owes(Main) /\ ~Owes(Main)' BY <1>1, <1>4, <1>5 DEF Owes, MainPc
  <2>2. \A u \in Kids : Owes(u)' <=> Owes(u) BY <1>1, <1>2, <1>5, MainOwes
  <2> QED BY <1>1, <1>2, <1>5, <2>1, <2>2, FdsStay, ContextTypes
<1> QED BY <1>1, <1>2, <1>4, <1>6, AccepterGoes

LEMMA RefusedInv ==
  ASSUME EchoInv, Refused
  PROVE  EchoInv' /\ OneUserStep
<1> DEFINE go == Goto(Main, "accept", Nil)
           rec == [go EXCEPT !.fd = None]
<1>1. /\ MainPc = "refused" /\ UNCHANGED <<program, cur, child, maps>> /\ Becomes(Main, rec)
      /\ fds' = [fds EXCEPT ![thread[Main].fd] = None]
  BY DEF Refused, At, MainPc, Close
<1>2. Shapes /\ program = "echo" /\ FdsOk /\ thread[Main].ctx = Interp
      /\ fds \in [Fds -> Kids \cup {None}]
  BY DEF EchoInv, EchoOk, Shapes
<1>3. Main \in Threads /\ "accept" \in Pcs BY ContextTypes DEF Pcs
<1>4. go \in ThreadRec /\ go.pc = "accept" /\ go.err = Nil /\ go.ctx = Interp
  BY <1>2, <1>3, GotoTypes, NilStatic
<1> HIDE DEF go
<1>5. rec \in ThreadRec /\ rec.pc = "accept" /\ rec.err = Nil /\ rec.ctx = Interp
  BY <1>4, FdTypes
<1> HIDE DEF rec
<1>6. thread'[Main] = rec /\ \A u \in Threads \ {Main} : thread'[u] = thread[u]
  BY <1>1, <1>2, <1>3, <1>5, BecomesTypes
<1>7. Owes(Main) /\ ~Owes(Main)' BY <1>1, <1>5, <1>6 DEF Owes, MainPc
<1>8. FdsOk' /\ fds' \in [Fds -> Kids \cup {None}]
  BY <1>1, <1>2, <1>3, <1>6, <1>7, FdsClose
<1> QED BY <1>1, <1>5, <1>8, AccepterGoes

LEMMA SpawnDetachedInv ==
  ASSUME EchoInv, SpawnDetached
  PROVE  EchoInv' /\ OneUserStep
<1>1. MainPc = "accepted" /\ UNCHANGED <<program, cur, child, fds>>
  BY DEF SpawnDetached, At, MainPc
<1>2. /\ Shapes /\ program = "echo" /\ FdsOk /\ AccepterOk /\ thread[Main].ctx = Interp /\ EchoOk
      /\ fds \in [Fds -> Kids \cup {None}] /\ IsMaps(maps) /\ Held
      /\ thread \in [Threads -> ThreadRec]
  BY DEF EchoInv, EchoOk, Shapes
<1>3. Main \in Threads /\ "refused" \in Pcs /\ "accept" \in Pcs /\ Interp \in Contexts
      /\ RoomOf(Interp) = MainRoom
  BY ContextTypes DEF Pcs
<1>4. Owes(Main) BY <1>1 DEF Owes, MainPc
<1>5. PICK fd \in Fds, w \in Kids : /\ fd = thread[Main].fd /\ fds[fd] = w
                                    /\ thread[w].pc = "idle"
  BY <1>2, <1>4 DEF FdsOk
<1>6. CASE thread' = Spawned("accept", None) /\ UNCHANGED maps
  <2> DEFINE go == [thread[Main] EXCEPT !.pc = "accept"]
             rec == [go EXCEPT !.fd = None]
             new == [Idle EXCEPT !.pc = "start", !.fd = fd]
  <2>1. go \in ThreadRec /\ go.pc = "accept" /\ go.err = Nil /\ go.ctx = Interp
    <3>1. thread[Main].err = Nil /\ thread[Main] \in ThreadRec BY <1>1, <1>2, <1>3 DEF AccepterOk
    <3>2. /\ go \in ThreadRec /\ go.pc = "accept" /\ go.ctx = thread[Main].ctx
          /\ go.err = thread[Main].err
      <4>1. go = Placed(thread[Main], "accept") BY DEF Placed
      <4> HIDE DEF go
      <4> QED BY <1>3, <3>1, <4>1, PcTypes
    <3> QED BY <1>2, <3>1, <3>2
  <2>2. rec \in ThreadRec /\ rec.pc = "accept" /\ rec.err = Nil /\ rec.ctx = Interp
    <3> HIDE DEF go
    <3> QED BY <2>1, FdTypes
  <2>3. /\ new \in ThreadRec /\ new.pc = "start" /\ new.fd = fd /\ new.ctx = None
        /\ new.mem = None /\ new.err = Nil
    BY NilStatic DEF Idle, ThreadRec, Pcs, None
  <2>4. w \in Threads /\ w # Main BY ContextTypes
  <2>5. thread' = [thread EXCEPT ![Main] = rec, ![w] = new]
    BY <1>2, <1>3, <1>5, <1>6, <2>4 DEF Spawned, Detached
  <2> HIDE DEF rec, new, go
  <2>6. /\ thread' \in [Threads -> ThreadRec] /\ thread'[Main] = rec /\ thread'[w] = new
        /\ \A u \in Threads : u # Main /\ u # w => thread'[u] = thread[u]
    BY <1>2, <1>3, <2>2, <2>3, <2>4, <2>5
  <2>7. Shapes' BY <1>1, <1>2, <1>6, <2>6 DEF Shapes, IsMaps
  <2>8. WorkerOk(w) BY <1>2 DEF EchoOk
  <2>9. thread[w].mem = None BY <1>5, <2>8, IdleTypes DEF WorkerOk
  <2>10. \A u \in Kids : thread'[u].mem = thread[u].mem
    BY <2>3, <2>6, <2>9, ContextTypes
  <2>11. Held' BY <1>1, <1>2, <1>6, <2>10 DEF Held, Holds, HeldBy
  <2>12. ASSUME NEW u \in Kids PROVE WorkerOk(u)'
    <3>1. CASE u = w BY <2>3, <2>6, <3>1, NilStatic DEF WorkerOk, TextIn
    <3>2. CASE u # w
      <4>1. thread'[u] = thread[u] BY <2>6, <3>2, ContextTypes
      <4> QED BY <1>6, <4>1, WorkerStays
    <3> QED BY <3>1, <3>2
  <2>13. AccepterOk' BY <2>2, <2>6, NilStatic DEF AccepterOk, MainPc, TextIn
  <2>14. FdsOk'
    <3>1. ~Owes(Main)' BY <2>2, <2>6 DEF Owes
    <3>2. Owes(w)' /\ thread'[w].fd = fd BY <1>1, <1>2, <2>3, <2>4, <2>6 DEF Owes
    <3>3. \A u \in Kids : u # w => thread'[u] = thread[u] BY <2>6, ContextTypes
    <3>4. \A u \in Kids : u # w => (Owes(u)' <=> Owes(u)) BY <1>1, <3>3 DEF Owes
    <3>5. ASSUME NEW u \in Kids, Owes(u)'
          PROVE  thread'[u].fd \in Fds /\ fds'[thread'[u].fd] = u
      BY <1>1, <1>2, <1>5, <3>2, <3>3, <3>4, <3>5 DEF FdsOk
    <3>6. ASSUME NEW f \in Fds, fds'[f] # None
          PROVE  \E u \in Threads : Owes(u)' /\ thread'[u].fd = f
      <4>1. CASE f = fd BY <2>4, <3>2, <4>1
      <4>2. CASE f # fd
        <5>1. PICK u \in Threads : Owes(u) /\ thread[u].fd = f BY <1>1, <1>2, <3>6 DEF FdsOk
        <5>2. u \in Kids BY <1>5, <4>2, <5>1, ContextTypes
        <5>3. u # w BY <1>5, <2>4, <5>1 DEF Owes
        <5> QED BY <3>3, <3>4, <5>1, <5>2, <5>3
      <4> QED BY <4>1, <4>2
    <3> QED BY <3>1, <3>5, <3>6 DEF FdsOk
  <2>15. OneUserStep BY <1>6 DEF OneUserStep
  <2> QED BY <1>1, <1>2, <2>2, <2>6, <2>7, <2>11, <2>12, <2>13, <2>14, <2>15 DEF EchoInv, EchoOk
<1>7. CASE OsErr(Main, "refused")
  <2>1. maps[Interp] # Unmapped BY <1>2, Mapped DEF Shapes
  <2>2. /\ IsMaps(maps)'
        /\ \A x \in Contexts \ {Interp} : maps'[x] = maps[x]
        /\ Grows(maps[Interp], maps'[Interp], RoomOf(Interp))
        /\ thread' \in [Threads -> ThreadRec]
        /\ \A u \in Threads \ {Main} : thread'[u] = thread[u]
    BY <1>2, <1>3, <1>7, <2>1, OsErrWrites
  <2>3. /\ thread'[Main].pc = "refused" /\ thread'[Main].ctx = Interp
        /\ thread'[Main].fd = thread[Main].fd /\ TextIn(Main, Interp)'
    BY <1>2, <1>3, <1>7, <2>1, OsErrWrites
  <2>4. \A u \in Kids : thread'[u] = thread[u] BY <2>2, ContextTypes
  <2>5. MappedShape(maps'[Interp], MainRoom) BY <1>3, <2>2 DEF Grows
  <2>6. \A x \in Maps : maps'[x] = maps[x] BY <2>2, ContextTypes
  <2>7. AccepterOk' BY <2>3 DEF AccepterOk, MainPc
  <2>8. FdsOk'
    <3>1. Owes(Main)' BY <2>3 DEF Owes
    <3>2. \A u \in Kids : Owes(u)' <=> Owes(u) BY <1>1, <1>2, <2>4, MainOwes
    <3> QED BY <1>1, <1>2, <1>4, <2>3, <2>4, <3>1, <3>2, FdsStay, ContextTypes
  <2>9. thread'[Main] # thread[Main] BY <1>1, <2>3 DEF MainPc
  <2> QED BY <1>1, <1>2, <2>2, <2>3, <2>4, <2>5, <2>6, <2>7, <2>8, <2>9, AccepterSteps
<1> QED BY <1>6, <1>7 DEF SpawnDetached

(* A worker goes on without changing its memory; it may close its connection.  *)
LEMMA WorkerGoes ==
  ASSUME EchoInv, NEW t \in Kids, UNCHANGED <<program, cur, child, maps>>,
         NEW rec \in ThreadRec, Becomes(t, rec), rec # thread[t],
         rec.mem \in {None, thread[t].mem},
         fds' \in [Fds -> Kids \cup {None}], WorkerOk(t)', FdsOk'
  PROVE  EchoInv' /\ OneUserStep
<1>1. Shapes /\ t \in Threads BY ContextTypes DEF EchoInv
<1>2. /\ thread' \in [Threads -> ThreadRec] /\ thread'[t] = rec
      /\ \A u \in Threads \ {t} : thread'[u] = thread[u]
  BY <1>1, BecomesTypes
<1>3. /\ IsMaps(maps)' /\ maps'[Interp] = maps[Interp]
      /\ \A x \in Maps : /\ maps'[x] = Unmapped \/ MappedShape(maps'[x], Room[x])
                         /\ maps'[x] # maps[x] => x = thread[t].mem \/ maps[x] = Unmapped
  BY <1>1 DEF Shapes, IsMaps
<1>4. thread'[t].mem # None =>
        /\ thread'[t].mem \in Maps /\ maps'[thread'[t].mem] # Unmapped
        /\ thread'[t].mem = thread[t].mem \/ maps[thread'[t].mem] = Unmapped
  BY <1>2, WorkerMemory, Mapped
<1>5. UsesOwn(t) BY <1>3, <1>4 DEF UsesOwn
<1>6. IsMaps(maps)' /\ maps'[Interp] = maps[Interp] BY <1>3
<1>7. thread'[t] # thread[t] BY <1>2
<1> QED BY <1>2, <1>5, <1>6, <1>7, WorkerSteps

LEMMA WorkerFdsStay ==
  ASSUME EchoInv, NEW t \in Kids, UNCHANGED <<program, fds>>,
         \A u \in Threads \ {t} : thread'[u] = thread[u], thread[t].pc # "idle",
         Owes(t)' <=> Owes(t), Owes(t) => thread'[t].fd = thread[t].fd
  PROVE  FdsOk'
<1>1. \A u \in Threads \ {t} : Owes(u)' <=> Owes(u) BY DEF Owes
<1>2. \A u \in Kids : thread[u].pc = "idle" => thread'[u].pc = "idle" BY ContextTypes
<1> QED BY <1>1, <1>2, FdsStay DEF EchoInv, EchoOk

LEMMA HandlerInv ==
  ASSUME EchoInv, NEW t \in Kids, Handler(t)
  PROVE  EchoInv' /\ OneUserStep
<1>1. thread[t].pc = "start" /\ UNCHANGED <<program, cur, child, fds>> BY DEF Handler, At
<1>2. /\ Shapes /\ program = "echo" /\ WorkerOk(t) /\ IsMaps(maps) /\ t # Main /\ t \in Threads
      /\ fds \in [Fds -> Kids \cup {None}]
  BY ContextTypes DEF EchoInv, EchoOk, Shapes
<1>3. thread[t].ctx = None /\ thread[t].mem = None BY <1>1, <1>2 DEF WorkerOk
<1>4. "serve" \in Pcs /\ "unserved" \in Pcs BY DEF Pcs
<1>5. ASSUME NEW m \in Maps, InitCtx(m), Becomes(t, Pushed([Goto(t, "serve", Nil) EXCEPT !.mem = m], m))
      PROVE  EchoInv' /\ OneUserStep
  <2> DEFINE go == Goto(t, "serve", Nil)
             at == [go EXCEPT !.mem = m]
             rec == Pushed(at, m)
  <2>0. m \in Contexts /\ m # None BY ContextTypes
  <2>1. go \in ThreadRec /\ go.pc = "serve" /\ go.err = Nil /\ go.ctx = None /\ go.fd = thread[t].fd
    BY <1>2, <1>3, <1>4, GotoTypes, NilStatic
  <2> HIDE DEF go
  <2>2. at \in ThreadRec /\ at.pc = "serve" /\ at.err = Nil /\ at.ctx = None /\ at.mem = m
        /\ at.fd = thread[t].fd
    BY <2>1 DEF ThreadRec
  <2> HIDE DEF at
  <2>3. rec \in ThreadRec /\ rec.pc = "serve" /\ rec.err = Nil /\ rec.ctx = m /\ rec.mem = m
        /\ rec.fd = thread[t].fd /\ rec.saved = None
    BY <1>4, <2>0, <2>2, RecordTypes
  <2>4. Becomes(t, rec) BY <1>5 DEF go, at
  <2> HIDE DEF rec
  <2>5. /\ thread' \in [Threads -> ThreadRec] /\ thread'[t] = rec
        /\ \A u \in Threads \ {t} : thread'[u] = thread[u]
    BY <1>2, <2>3, <2>4, BecomesTypes
  <2>6. /\ maps[m] = Unmapped /\ IsMaps(maps)' /\ MappedShape(maps'[m], Room[m])
        /\ \A x \in Contexts \ {m} : maps'[x] = maps[x]
    <3> DEFINE new == Ctx(None, Room[m])
    <3>1. maps[m] = Unmapped /\ maps' = [maps EXCEPT ![m] = new]
      BY <1>2, <1>5, Mapped DEF InitCtx, Shapes
    <3>2. MappedShape(new, Room[m]) BY NewContext, ContextTypes
    <3> HIDE DEF new
    <3> QED BY <1>2, <2>0, <3>1, <3>2 DEF IsMaps
  <2>7. maps'[Interp] = maps[Interp] BY <2>6, ContextTypes
  <2>8. \A x \in Maps : /\ maps'[x] = Unmapped \/ MappedShape(maps'[x], Room[x])
                        /\ maps'[x] # maps[x] => x = thread[t].mem \/ maps[x] = Unmapped
    BY <1>2, <2>6, ContextTypes DEF Shapes
  <2>9. maps'[m] # Unmapped BY <2>6, Mapped
  <2>10. WorkerOk(t)' BY <2>0, <2>3, <2>5, NilStatic DEF WorkerOk, TextIn
  <2>11. FdsOk'
    <3>1. Owes(t) /\ Owes(t)' BY <1>1, <1>2, <2>3, <2>5 DEF Owes
    <3> QED BY <1>1, <2>3, <2>5, <3>1, WorkerFdsStay
  <2>12. thread'[t] # thread[t] BY <1>1, <2>3, <2>5
  <2>13. UsesOwn(t) BY <2>3, <2>5, <2>6, <2>8, <2>9 DEF UsesOwn
  <2>14. IsMaps(maps)' /\ fds' \in [Fds -> Kids \cup {None}] BY <1>1, <1>2, <2>6
  <2> QED BY <1>1, <2>5, <2>7, <2>10, <2>11, <2>12, <2>13, <2>14, WorkerSteps
<1>6. CASE Becomes(t, Goto(t, "unserved", Static)) /\ UNCHANGED maps
  <2> DEFINE rec == Goto(t, "unserved", Static)
  <2>1. rec \in ThreadRec /\ rec.pc = "unserved" /\ rec.err = Static /\ rec.ctx = None
        /\ rec.mem = None /\ rec.fd = thread[t].fd
    BY <1>2, <1>3, <1>4, GotoTypes, NilStatic
  <2> HIDE DEF rec
  <2>2. thread'[t] = rec /\ \A u \in Threads \ {t} : thread'[u] = thread[u]
    BY <1>2, <1>6, <2>1, BecomesTypes DEF rec
  <2>3. WorkerOk(t)' BY <2>1, <2>2, NilStatic DEF WorkerOk, TextIn
  <2>4. FdsOk'
    <3>1. Owes(t) /\ Owes(t)' BY <1>1, <1>2, <2>1, <2>2 DEF Owes
    <3> QED BY <1>1, <2>1, <2>2, <3>1, WorkerFdsStay
  <2> QED BY <1>1, <1>2, <1>6, <2>1, <2>3, <2>4, WorkerGoes DEF rec
<1> QED BY <1>5, <1>6 DEF Handler

LEMMA UnservedInv ==
  ASSUME EchoInv, NEW t \in Kids, Unserved(t)
  PROVE  EchoInv' /\ OneUserStep
<1>1. /\ thread[t].pc = "unserved" /\ UNCHANGED <<program, cur, child, maps>>
      /\ Becomes(t, Idle) /\ fds' = [fds EXCEPT ![thread[t].fd] = None]
  BY DEF Unserved, At, Close
<1>2. /\ Shapes /\ program = "echo" /\ FdsOk /\ t # Main /\ t \in Threads
      /\ fds \in [Fds -> Kids \cup {None}]
  BY ContextTypes DEF EchoInv, EchoOk, Shapes
<1>3. thread'[t] = Idle /\ \A u \in Threads \ {t} : thread'[u] = thread[u]
  BY <1>1, <1>2, IdleTypes, BecomesTypes
<1>4. Owes(t) /\ ~Owes(t)' BY <1>1, <1>2, <1>3, IdleTypes DEF Owes
<1>5. FdsOk' /\ fds' \in [Fds -> Kids \cup {None}]
  BY <1>1, <1>2, <1>3, <1>4, FdsClose
<1>6. WorkerOk(t)' BY <1>3, IdleTypes, NilStatic DEF WorkerOk, TextIn
<1> QED BY <1>1, <1>5, <1>6, IdleTypes, WorkerGoes

(* A worker goes on to the next of its places while it serves.                 *)
LEMMA ServingGoes ==
  ASSUME EchoInv, NEW t \in Kids, thread[t].pc \in {"serve", "answer"},
         NEW pc \in {"answer", "close"}, pc # thread[t].pc,
         Becomes(t, Goto(t, pc, Nil)), UNCHANGED <<program, cur, child, maps, fds>>
  PROVE  EchoInv' /\ OneUserStep
<1> DEFINE rec == Goto(t, pc, Nil)
<1>1. /\ Shapes /\ program = "echo" /\ WorkerOk(t) /\ t # Main /\ t \in Threads
      /\ fds \in [Fds -> Kids \cup {None}] /\ pc \in Pcs
  BY ContextTypes DEF EchoInv, EchoOk, Shapes, Pcs
<1>2. thread[t].mem # None /\ thread[t].ctx = thread[t].mem /\ thread[t].saved = None
  BY <1>1 DEF WorkerOk
<1>3. /\ rec \in ThreadRec /\ rec.pc = pc /\ rec.err = Nil /\ rec.ctx = thread[t].mem
      /\ rec.mem = thread[t].mem /\ rec.fd = thread[t].fd /\ rec.saved = None
  BY <1>1, <1>2, GotoTypes, NilStatic
<1> HIDE DEF rec
<1>4. Becomes(t, rec) BY DEF rec
<1>5. thread'[t] = rec /\ \A u \in Threads \ {t} : thread'[u] = thread[u]
  BY <1>1, <1>3, <1>4, BecomesTypes
<1>6. WorkerOk(t)' BY <1>2, <1>3, <1>5, NilStatic DEF WorkerOk, TextIn
<1>7. FdsOk'
  <2>1. Owes(t) /\ Owes(t)' BY <1>1, <1>3, <1>5 DEF Owes
  <2> QED BY <1>1, <1>3, <1>5, <2>1, WorkerFdsStay
<1>8. rec # thread[t] BY <1>3
<1> QED BY <1>1, <1>3, <1>4, <1>6, <1>7, <1>8, WorkerGoes

LEMMA ReadInv ==
  ASSUME EchoInv, NEW t \in Kids, Read(t)
  PROVE  EchoInv' /\ OneUserStep
<1>1. /\ thread[t].pc = "serve" /\ Becomes(t, Goto(t, "answer", Nil))
      /\ UNCHANGED <<program, cur, child, maps, fds>>
  BY DEF Read, At
<1> QED BY <1>1, ServingGoes

LEMMA BreakInv ==
  ASSUME EchoInv, NEW t \in Kids, Break(t)
  PROVE  EchoInv' /\ OneUserStep
<1>1. thread[t].pc \in {"serve", "answer"} /\ UNCHANGED <<program, cur, child, fds>>
  BY DEF Break, At
<1>2. /\ Shapes /\ program = "echo" /\ WorkerOk(t) /\ IsMaps(maps) /\ t # Main /\ t \in Threads
      /\ fds \in [Fds -> Kids \cup {None}] /\ "close" \in Pcs
  BY ContextTypes DEF EchoInv, EchoOk, Shapes, Pcs
<1>3. thread[t].mem # None /\ thread[t].ctx = thread[t].mem /\ thread[t].saved = None
  BY <1>1, <1>2 DEF WorkerOk
<1>4. PICK m \in Maps : m = thread[t].mem /\ m \in Contexts /\ MappedShape(maps[m], RoomOf(m))
  BY <1>3, WorkerMemory
<1>5. OsErr(t, "close") BY DEF Break
<1>6. maps[m] # Unmapped BY <1>4, Mapped
<1>7. /\ IsMaps(maps)'
      /\ \A x \in Contexts \ {m} : maps'[x] = maps[x]
      /\ Grows(maps[m], maps'[m], RoomOf(m))
      /\ thread' \in [Threads -> ThreadRec]
      /\ \A u \in Threads \ {t} : thread'[u] = thread[u]
  BY <1>2, <1>3, <1>4, <1>5, <1>6, OsErrWrites
<1>8. /\ thread'[t].pc = "close" /\ thread'[t].mem = m /\ thread'[t].fd = thread[t].fd
      /\ thread'[t].ctx = m /\ thread'[t].saved = None
      /\ TextIn(t, m)'
  BY <1>2, <1>3, <1>4, <1>5, <1>6, OsErrWrites
<1>9. RoomOf(m) = Room[m] /\ m # Interp /\ m # None BY ContextTypes
<1>10. MappedShape(maps'[m], Room[m]) BY <1>7, <1>9 DEF Grows
<1>11. maps'[m] # Unmapped BY <1>10, Mapped
<1>12. maps'[Interp] = maps[Interp] BY <1>7, <1>9, ContextTypes
<1>13. ASSUME NEW x \in Maps
       PROVE  /\ maps'[x] = Unmapped \/ MappedShape(maps'[x], Room[x])
              /\ maps'[x] # maps[x] => x = thread[t].mem \/ maps[x] = Unmapped
  BY <1>2, <1>4, <1>7, <1>10, ContextTypes DEF Shapes
<1>14. WorkerOk(t)' BY <1>8, <1>9 DEF WorkerOk, TextIn
<1>15. FdsOk'
  <2>1. Owes(t) /\ Owes(t)' BY <1>1, <1>2, <1>8 DEF Owes
  <2> QED BY <1>1, <1>7, <1>8, <2>1, WorkerFdsStay
<1>16. thread'[t] # thread[t] BY <1>1, <1>8
<1>17. UsesOwn(t)
  <2>1. thread'[t].mem = m /\ m \in Maps /\ maps'[m] # Unmapped /\ m = thread[t].mem
    BY <1>4, <1>8, <1>11
  <2> QED BY <1>13, <2>1 DEF UsesOwn
<1>18. /\ IsMaps(maps)' /\ fds' \in [Fds -> Kids \cup {None}]
       /\ thread' \in [Threads -> ThreadRec]
       /\ \A u \in Threads \ {t} : thread'[u] = thread[u]
  BY <1>1, <1>2, <1>7
<1> QED BY <1>1, <1>12, <1>14, <1>15, <1>16, <1>17, <1>18, WorkerSteps

LEMMA CloseConnInv ==
  ASSUME EchoInv, NEW t \in Kids, CloseConn(t)
  PROVE  EchoInv' /\ OneUserStep
<1> DEFINE go == Goto(t, "log", thread[t].err)
           rec == [go EXCEPT !.fd = None]
<1>1. /\ thread[t].pc = "close" /\ UNCHANGED <<program, cur, child, maps>>
      /\ Becomes(t, rec) /\ fds' = [fds EXCEPT ![thread[t].fd] = None]
  BY DEF CloseConn, At, Close
<1>2. /\ Shapes /\ program = "echo" /\ FdsOk /\ WorkerOk(t) /\ t # Main /\ t \in Threads
      /\ fds \in [Fds -> Kids \cup {None}] /\ "log" \in Pcs /\ thread[t].err \in Errs
  BY ContextTypes DEF EchoInv, EchoOk, Shapes, Pcs, ThreadRec
<1>3. thread[t].mem # None /\ thread[t].ctx = thread[t].mem /\ thread[t].saved = None
  BY <1>1, <1>2 DEF WorkerOk
<1>4. PICK m \in Maps : m = thread[t].mem /\ m \in Contexts
  BY <1>3, WorkerMemory
<1>5. /\ go \in ThreadRec /\ go.pc = "log" /\ go.err = thread[t].err /\ go.ctx = m /\ go.mem = m
      /\ go.saved = None
  BY <1>2, <1>3, <1>4, GotoTypes
<1> HIDE DEF go
<1>6. /\ rec \in ThreadRec /\ rec.pc = "log" /\ rec.err = thread[t].err /\ rec.ctx = m
      /\ rec.mem = m /\ rec.saved = None
  BY <1>5, FdTypes
<1> HIDE DEF rec
<1>7. thread'[t] = rec /\ \A u \in Threads \ {t} : thread'[u] = thread[u]
  BY <1>1, <1>2, <1>6, BecomesTypes
<1>8. Owes(t) /\ ~Owes(t)' BY <1>1, <1>2, <1>6, <1>7 DEF Owes
<1>9. FdsOk' /\ fds' \in [Fds -> Kids \cup {None}]
  BY <1>1, <1>2, <1>7, <1>8, FdsClose
<1>10. TextIn(t, m)'
  <2>1. TextIn(t, m) BY <1>2, <1>4 DEF WorkerOk
  <2> QED BY <1>1, <1>2, <1>4, <1>6, <1>7, <2>1, TextStays
<1>11. WorkerOk(t)'
  <2>1. m # None BY ContextTypes
  <2> QED BY <1>6, <1>7, <1>10, <2>1 DEF WorkerOk, TextIn
<1>12. rec # thread[t] BY <1>1, <1>6
<1> QED BY <1>1, <1>4, <1>6, <1>9, <1>11, <1>12, WorkerGoes

LEMMA PoppedTypes ==
  ASSUME NEW rec \in ThreadRec
  PROVE  LET new == Popped(rec) IN
         /\ new \in ThreadRec /\ new.ctx = rec.saved /\ new.saved = None
         /\ new.pc = rec.pc /\ new.mem = rec.mem /\ new.err = rec.err
BY DEF Popped, ThreadRec

LEMMA LogServedInv ==
  ASSUME EchoInv, NEW t \in Kids, LogServed(t)
  PROVE  EchoInv' /\ OneUserStep
<1> DEFINE go == Goto(t, "leave", Nil)
           rec == Popped(go)
<1>1. /\ thread[t].pc = "log" /\ UNCHANGED <<program, cur, child, maps, fds>> /\ Becomes(t, rec)
  BY DEF LogServed, At
<1>2. /\ Shapes /\ program = "echo" /\ FdsOk /\ WorkerOk(t) /\ t # Main /\ t \in Threads
      /\ fds \in [Fds -> Kids \cup {None}] /\ "leave" \in Pcs
  BY ContextTypes DEF EchoInv, EchoOk, Shapes, Pcs
<1>3. thread[t].mem # None /\ thread[t].ctx = thread[t].mem /\ thread[t].saved = None
  BY <1>1, <1>2 DEF WorkerOk
<1>5. /\ go \in ThreadRec /\ go.pc = "leave" /\ go.err = Nil /\ go.mem = thread[t].mem
      /\ go.saved = None
  BY <1>2, <1>3, GotoTypes, NilStatic
<1> HIDE DEF go
<1>6. /\ rec \in ThreadRec /\ rec.pc = "leave" /\ rec.err = Nil /\ rec.ctx = None
      /\ rec.mem = thread[t].mem
  BY <1>5, PoppedTypes
<1> HIDE DEF rec
<1>7. thread'[t] = rec /\ \A u \in Threads \ {t} : thread'[u] = thread[u]
  BY <1>1, <1>2, <1>6, BecomesTypes
<1>8. FdsOk'
  <2>1. ~Owes(t) /\ ~Owes(t)' BY <1>1, <1>2, <1>6, <1>7 DEF Owes
  <2> QED BY <1>1, <1>7, <2>1, WorkerFdsStay
<1>9. WorkerOk(t)' BY <1>3, <1>6, <1>7, NilStatic DEF WorkerOk, TextIn
<1>10. rec # thread[t] BY <1>1, <1>6
<1> QED BY <1>1, <1>2, <1>6, <1>8, <1>9, <1>10, WorkerGoes

LEMMA LeaveInv ==
  ASSUME EchoInv, NEW t \in Kids, Leave(t)
  PROVE  EchoInv' /\ OneUserStep
<1>1. /\ thread[t].pc = "leave" /\ UNCHANGED <<program, cur, child, fds>>
      /\ Becomes(t, Idle) /\ Deinit(thread[t].mem)
  BY DEF Leave, At
<1>2. /\ Shapes /\ program = "echo" /\ FdsOk /\ WorkerOk(t) /\ t # Main /\ t \in Threads
      /\ fds \in [Fds -> Kids \cup {None}] /\ IsMaps(maps)
  BY ContextTypes DEF EchoInv, EchoOk, Shapes
<1>3. thread[t].mem # None BY <1>1, <1>2 DEF WorkerOk
<1>4. PICK m \in Maps : m = thread[t].mem /\ m \in Contexts
  BY <1>3, WorkerMemory
<1>5. /\ thread'[t] = Idle /\ thread' \in [Threads -> ThreadRec]
      /\ \A u \in Threads \ {t} : thread'[u] = thread[u]
  BY <1>1, <1>2, IdleTypes, BecomesTypes
<1>6. /\ IsMaps(maps)'
      /\ \A x \in Contexts : maps'[x] = maps[x] \/ (x = m /\ maps'[x] = Unmapped)
  BY <1>1, <1>2, <1>4, DeinitMaps
<1>7. maps'[Interp] = maps[Interp] BY <1>6, ContextTypes
<1>8. UsesOwn(t)
  <2>1. \A x \in Maps : maps'[x] = maps[x] \/ (x = m /\ maps'[x] = Unmapped)
    BY <1>6, ContextTypes
  <2>2. \A x \in Maps : maps[x] = Unmapped \/ MappedShape(maps[x], Room[x]) BY <1>2 DEF Shapes
  <2> QED BY <1>4, <1>5, <2>1, <2>2, IdleTypes DEF UsesOwn
<1>9. FdsOk'
  <2>1. ~Owes(t) /\ ~Owes(t)' BY <1>1, <1>2, <1>5, IdleTypes DEF Owes
  <2> QED BY <1>1, <1>5, <2>1, WorkerFdsStay
<1>10. WorkerOk(t)' BY <1>5, IdleTypes, NilStatic DEF WorkerOk, TextIn
<1>11. thread'[t] # thread[t] BY <1>1, <1>5, IdleTypes
<1>12. IsMaps(maps)' /\ fds' \in [Fds -> Kids \cup {None}] BY <1>1, <1>2, <1>6
<1> QED BY <1>1, <1>5, <1>7, <1>8, <1>9, <1>10, <1>11, <1>12, WorkerSteps

LEMMA WorkerFaultInv ==
  ASSUME EchoInv, NEW t \in Kids, Fault(t)
  PROVE  EchoInv' /\ OneUserStep
<1> DEFINE rec == [thread[t] EXCEPT !.pc = "faulted"]
<1>2. /\ Shapes /\ program = "echo" /\ FdsOk /\ WorkerOk(t) /\ t # Main /\ t \in Threads
      /\ fds \in [Fds -> Kids \cup {None}] /\ "faulted" \in Pcs /\ thread[t] \in ThreadRec
      /\ Interp \in Contexts
  BY ContextTypes DEF EchoInv, EchoOk, Shapes, Pcs
<1>1. /\ thread[t].pc \in {"serve", "answer"} /\ Becomes(t, rec)
      /\ UNCHANGED <<program, cur, child, maps, fds>>
  BY <1>2 DEF Fault, WorkerOk
<1>3. /\ thread[t].mem # None /\ thread[t].ctx = thread[t].mem /\ thread[t].saved = None
      /\ thread[t].err = Nil
  BY <1>1, <1>2 DEF WorkerOk
<1>4. /\ rec \in ThreadRec /\ rec.pc = "faulted" /\ rec.ctx = thread[t].ctx
      /\ rec.mem = thread[t].mem /\ rec.err = thread[t].err /\ rec.saved = thread[t].saved
      /\ rec.fd = thread[t].fd
  <2>1. "faulted" \in Pcs /\ thread[t] \in ThreadRec /\ Interp \in Contexts BY <1>2
  <2>2. rec = Placed(thread[t], "faulted") BY DEF Placed
  <2> HIDE DEF rec
  <2> QED BY <2>1, <2>2, PcTypes
<1> HIDE DEF rec
<1>5. thread'[t] = rec /\ \A u \in Threads \ {t} : thread'[u] = thread[u]
  BY <1>1, <1>2, <1>4, BecomesTypes
<1>6. FdsOk'
  <2>1. Owes(t) /\ Owes(t)' BY <1>1, <1>2, <1>4, <1>5 DEF Owes
  <2> QED BY <1>1, <1>4, <1>5, <2>1, WorkerFdsStay
<1>7. WorkerOk(t)' BY <1>3, <1>4, <1>5, NilStatic DEF WorkerOk, TextIn
<1>8. rec # thread[t] BY <1>1, <1>4
<1> QED BY <1>1, <1>2, <1>4, <1>6, <1>7, <1>8, WorkerGoes

LEMMA EchoStutter ==
  ASSUME EchoInv, UNCHANGED <<program, thread, cur, child, maps, lost, fds>>
  PROVE  EchoInv' /\ OneUserStep
<1>1. Shapes' BY DEF EchoInv, Shapes, IsMaps
<1>2. Held' BY DEF EchoInv, Held, Holds, HeldBy
<1>3. AccepterOk' BY DEF EchoInv, EchoOk, AccepterOk, MainPc, TextIn, Written, WrittenIn
<1>4. ASSUME NEW i \in Kids PROVE WorkerOk(i)' BY WorkerStays
<1>5. FdsOk'
  <2>1. \A u \in Threads : Owes(u)' <=> Owes(u) BY DEF Owes
  <2> QED BY <2>1, FdsStay DEF EchoInv, EchoOk
<1>6. OneUserStep BY DEF OneUserStep
<1> QED BY <1>1, <1>2, <1>3, <1>4, <1>5, <1>6 DEF EchoInv, EchoOk

LEMMA AnswerInv ==
  ASSUME EchoInv, NEW t \in Kids, Answer(t)
  PROVE  EchoInv' /\ OneUserStep
<1>1. thread[t].pc = "answer" /\ UNCHANGED <<program, cur, child, maps, lost, fds>>
  BY DEF Answer, At
<1>2. CASE Becomes(t, Goto(t, "close", Nil)) BY <1>1, <1>2, ServingGoes
<1>3. CASE UNCHANGED thread BY <1>1, <1>3, EchoStutter
<1> QED BY <1>2, <1>3 DEF Answer

LEMMA EchoNext ==
  ASSUME EchoInv, Next
  PROVE  EchoInv' /\ OneUserStep
<1>1. /\ program = "echo" /\ MainPc \in {"accept", "accepted", "refused", "log", "faulted"}
      /\ \A t \in Kids : thread[t].pc \in
           {"idle", "start", "serve", "answer", "unserved", "close", "log", "leave", "faulted"}
  BY DEF EchoInv, EchoOk, AccepterOk, WorkerOk
<1>2. CASE InitChild \/ SpawnCtx \/ Unspawned \/ Join \/ Joined \/ NotJoined \/ Cleanup
  BY <1>1, <1>2 DEF InitChild, SpawnCtx, Unspawned, Join, Joined, NotJoined, Cleanup, At, MainPc
<1>3. CASE \E pc \in {"wait", "cleanup"} : Skip(pc) BY <1>1, <1>3 DEF Skip, At, MainPc
<1>4. CASE Log \/ SpawnDetached \/ Refused \/ Accept \/ NotAccepted
  BY <1>4, LogInv, SpawnDetachedInv, RefusedInv, AcceptInv, NotAcceptedInv
<1>5. ASSUME NEW t \in Kids, Child(t) PROVE EchoInv' /\ OneUserStep
  <2>1. CASE Trampoline(t) BY <1>1, <2>1 DEF Trampoline
  <2>2. CASE RunChild(t) \/ Return(t) BY <1>1, <2>2 DEF RunChild, Return, At
  <2>3. CASE Handler(t) \/ Unserved(t) \/ Read(t) \/ Answer(t)
    BY <2>3, HandlerInv, UnservedInv, ReadInv, AnswerInv
  <2>4. CASE CloseConn(t) \/ LogServed(t) \/ Leave(t)
    BY <2>4, CloseConnInv, LogServedInv, LeaveInv
  <2> QED BY <1>5, <2>1, <2>2, <2>3, <2>4 DEF Child
<1>6. ASSUME NEW t \in Threads, Fault(t) PROVE EchoInv' /\ OneUserStep
  BY <1>6, AccepterFaultInv, WorkerFaultInv, ContextTypes
<1>7. ASSUME NEW t \in Threads, Handle(t) PROVE EchoInv' /\ OneUserStep
  <2>1. UNCHANGED <<program, thread, cur, child, maps, lost, fds>> BY <1>7 DEF Handle
  <2> QED BY <2>1, EchoStutter
<1>8. ASSUME NEW t \in Kids, Break(t) PROVE EchoInv' /\ OneUserStep
  BY <1>8, BreakInv
<1>9. ASSUME NEW fd \in Fds, Client(fd) PROVE EchoInv' /\ OneUserStep
  <2>1. UNCHANGED <<program, thread, cur, child, maps, lost, fds>> BY <1>9 DEF Client
  <2> QED BY <2>1, EchoStutter
<1> QED BY <1>2, <1>3, <1>4, <1>5, <1>6, <1>7, <1>8, <1>9 DEF Next, Parent
----
(* Both programs *)

LEMMA InvSplit ==
  /\ Inv <=> ThreadsInv \/ EchoInv
  /\ Inv' <=> ThreadsInv' \/ EchoInv'
<1>1. Inv <=> ThreadsInv \/ EchoInv BY DEF Inv, ThreadsInv, EchoInv, Shapes
<1>2. Inv' <=> ThreadsInv' \/ EchoInv' BY DEF Inv, ThreadsInv, EchoInv, Shapes
<1> QED BY <1>1, <1>2

LEMMA InitInv == Init => Inv
<1> SUFFICES ASSUME Init PROVE Inv OBVIOUS
<1> DEFINE pc == IF program = "threads" THEN "init" ELSE "accept"
           main == [Idle EXCEPT !.ctx = Interp, !.pc = pc]
           arena == Ctx(Interp, MainRoom)
<1>1. program \in {"threads", "echo"} BY ThreadsAssumption DEF Init
<1>2. main \in ThreadRec /\ main.pc = pc /\ main.ctx = Interp /\ main.err = Nil
  BY NilStatic DEF Idle, ThreadRec, Pcs, None, Contexts
<1>3. MappedShape(arena, MainRoom) BY NewContext, ContextTypes
<1> HIDE DEF main, arena
<1>4. /\ thread \in [Threads -> ThreadRec] /\ thread[Main] = main
      /\ \A u \in Kids : thread[u] = Idle
  <2>1. thread = [t \in Threads |-> IF t = Main THEN main ELSE Idle] BY DEF Init, main
  <2> QED BY <1>2, <2>1, IdleTypes, ContextTypes
<1>5. MainPc = pc BY <1>2, <1>4 DEF MainPc
<1>6. /\ IsMaps(maps) /\ maps[Interp] = arena /\ \A x \in Maps : maps[x] = Unmapped
  <2>1. maps = [c \in Contexts |-> IF c = Interp THEN arena ELSE Unmapped]
    BY DEF Init, arena, Contexts
  <2> QED BY <2>1, ContextTypes DEF IsMaps
<1>7. /\ child \in [Kids -> [mem : Maps \cup {None}, ok : BOOLEAN]]
      /\ \A i \in Kids : ~child[i].ok
  BY DEF Init, None
<1>8. cur \in Kids BY ThreadsAssumption DEF Init, Kids
<1>9. /\ fds \in [Fds -> Kids \cup {None}] /\ \A fd \in Fds : fds[fd] = None
  BY DEF Init
<1>10. Shapes BY <1>1, <1>3, <1>4, <1>6, <1>7, <1>8, <1>9 DEF Shapes
<1>11. \A i \in Kids : ~Holds(i) BY <1>1, <1>4, <1>7, IdleTypes DEF Holds
<1>12. Held BY <1>11 DEF Held
<1>13. CASE program = "threads"
  <2>1. ParentOk BY <1>2, <1>4, <1>5, <1>13 DEF ParentOk, Spawning
  <2>2. \A i \in Kids : ChildOk(i) BY <1>4, IdleTypes DEF ChildOk
  <2>3. \A i \in Kids : Turned(i) BY <1>4, <1>5, <1>7, <1>13, IdleTypes DEF Turned, Spawning
  <2> QED BY <1>2, <1>4, <1>9, <1>10, <1>12, <1>13, <2>1, <2>2, <2>3 DEF Inv, ThreadsOk
<1>14. CASE program = "echo"
  <2>1. AccepterOk BY <1>2, <1>4, <1>5, <1>14, NilStatic DEF AccepterOk, TextIn
  <2>2. \A i \in Kids : WorkerOk(i) BY <1>4, IdleTypes, NilStatic DEF WorkerOk, TextIn
  <2>3. ~Owes(Main) BY <1>5, <1>14 DEF Owes, MainPc
  <2>4. \A i \in Kids : ~Owes(i) BY <1>4, IdleTypes, ContextTypes DEF Owes
  <2>5. FdsOk BY <1>9, <2>3, <2>4 DEF FdsOk
  <2> QED BY <1>2, <1>4, <1>10, <1>12, <1>14, <2>1, <2>2, <2>5 DEF Inv, EchoOk
<1> QED BY <1>1, <1>13, <1>14

LEMMA NextInv ==
  ASSUME Inv, [Next]_vars
  PROVE  Inv' /\ OneUserStep
<1>1. CASE Next
  <2>1. CASE ThreadsInv BY <1>1, <2>1, ThreadsNext, InvSplit
  <2>2. CASE EchoInv BY <1>1, <2>2, EchoNext, InvSplit
  <2> QED BY <2>1, <2>2, InvSplit
<1>2. CASE UNCHANGED vars
  <2>1. UNCHANGED <<program, thread, cur, child, maps, lost, fds>> BY <1>2 DEF vars
  <2>2. CASE ThreadsInv BY <2>1, <2>2, ThreadsStutter, InvSplit
  <2>3. CASE EchoInv BY <2>1, <2>3, EchoStutter, InvSplit
  <2> QED BY <2>2, <2>3, InvSplit
<1> QED BY <1>1, <1>2

LEMMA TextIntact ==
  ASSUME Shapes, NEW t \in Threads, NEW c, TextIn(t, c)
  PROVE  Intact(thread[t].err)
<1> SUFFICES ASSUME thread[t].err.kind = "text"
             PROVE  /\ maps[thread[t].err.ctx].mapped
                    /\ maps[thread[t].err.ctx].cells[thread[t].err.cell] = thread[t].err.says
  BY DEF Intact
<1>1. thread[t].err \in Errs BY DEF Shapes, ThreadRec
<1>2. thread[t].err.ctx \in Contexts BY <1>1, NilStatic DEF Errs
<1>3. /\ maps[thread[t].err.ctx] # Unmapped
      /\ maps[thread[t].err.ctx].cells[thread[t].err.cell] = thread[t].err.says
  BY DEF TextIn, Written, WrittenIn
<1> QED BY <1>2, <1>3, ShapeOf, Mapped

LEMMA NoText ==
  ASSUME NEW err, err = Nil
  PROVE  Intact(err)
BY NilStatic DEF Intact

(* What MemoryIntact says of texts, closures and ambient contexts. *)
Undisturbed ==
  /\ \A t \in Threads :
       /\ Intact(thread[t].err)
       /\ thread[t].ctx # None => maps[thread[t].ctx].mapped
       /\ thread[t].pc \in {"idle", "start", "unserved", "leave", "done"} => thread[t].ctx = None
       /\ program = "threads" /\ thread[t].pc = "start" =>
            LET m == thread[t].mem IN
            maps[m].mapped /\ maps[m].cells[thread[t].run] = [inp |-> m, ctx |-> m]
  /\ thread[Main].pc = "joined" /\ thread[Main].err = Nil =>
       maps[child[cur].mem].inout = <<"size", cur>>

LEMMA ThreadsIntact ==
  ASSUME ThreadsInv
  PROVE  Undisturbed
<1>1. /\ Shapes /\ ThreadsOk /\ ParentOk /\ program = "threads" /\ thread[Main].ctx = Interp
      /\ \A i \in Kids : ChildOk(i)
  BY DEF ThreadsInv, ThreadsOk
<1>2. maps[Interp].mapped BY <1>1, Mapped DEF Shapes
<1>3. Intact(thread[Main].err)
  <2>1. CASE MainPc \in {"unspawned", "not joined", "joined"}
    BY <1>1, <2>1, TextIntact, ContextTypes DEF ParentOk
  <2>2. CASE MainPc \notin {"unspawned", "not joined", "joined"}
    BY <1>1, <2>2, NoText DEF ParentOk
  <2> QED BY <2>1, <2>2
<1>4. ASSUME NEW t \in Kids
      PROVE  /\ Intact(thread[t].err)
             /\ thread[t].ctx # None => maps[thread[t].ctx].mapped
             /\ thread[t].pc \in {"idle", "start", "unserved", "leave", "done"} => thread[t].ctx = None
             /\ thread[t].pc = "start" =>
                  LET m == thread[t].mem IN
                  maps[m].mapped /\ maps[m].cells[thread[t].run] = [inp |-> m, ctx |-> m]
  <2>0. ChildOk(t) /\ t \in Threads BY <1>1, ContextTypes
  <2>1. CASE thread[t].pc = "idle" BY <2>0, <2>1, IdleTypes, NoText DEF ChildOk
  <2>2. CASE thread[t].pc # "idle"
    <3>1. maps[thread[t].mem].mapped BY <2>2, ChildMemory, Mapped
    <3>2. Intact(thread[t].err)
      <4>1. CASE thread[t].pc \in {"return", "done"} BY <1>1, <2>0, <4>1, TextIntact DEF ChildOk
      <4>2. CASE thread[t].pc \notin {"return", "done"} BY <2>0, <4>2, NoText DEF ChildOk
      <4> QED BY <4>1, <4>2
    <3>3. thread[t].ctx # None => maps[thread[t].ctx].mapped BY <2>0, <2>2, <3>1 DEF ChildOk
    <3>4. thread[t].pc \in {"start", "unserved", "leave", "done"} => thread[t].ctx = None
      BY <2>0 DEF ChildOk
    <3>5. thread[t].pc = "start" =>
            maps[thread[t].mem].cells[thread[t].run] = [inp |-> thread[t].mem, ctx |-> thread[t].mem]
      BY <2>0 DEF ChildOk, Closure
    <3> QED BY <2>2, <3>1, <3>2, <3>3, <3>4, <3>5
  <2> QED BY <2>1, <2>2
<1>5. MainPc \notin {"idle", "start", "unserved", "leave", "done"} BY <1>1 DEF ParentOk, Spawning
<1>6. ASSUME NEW t \in Threads
      PROVE  /\ Intact(thread[t].err)
             /\ thread[t].ctx # None => maps[thread[t].ctx].mapped
             /\ thread[t].pc \in {"idle", "start", "unserved", "leave", "done"} => thread[t].ctx = None
             /\ thread[t].pc = "start" =>
                  LET m == thread[t].mem IN
                  maps[m].mapped /\ maps[m].cells[thread[t].run] = [inp |-> m, ctx |-> m]
  <2>1. CASE t = Main BY <1>1, <1>2, <1>3, <1>5, <2>1 DEF MainPc
  <2>2. CASE t \in Kids BY <1>4, <2>2
  <2> QED BY <2>1, <2>2, ContextTypes
<1>7. thread[Main].pc = "joined" /\ thread[Main].err = Nil =>
        maps[child[cur].mem].inout = <<"size", cur>>
  BY <1>1 DEF ParentOk, MainPc
<1> QED BY <1>6, <1>7 DEF Undisturbed

LEMMA EchoIntact ==
  ASSUME EchoInv
  PROVE  Undisturbed
<1>1. /\ Shapes /\ AccepterOk /\ program = "echo" /\ thread[Main].ctx = Interp
      /\ \A i \in Kids : WorkerOk(i)
  BY DEF EchoInv, EchoOk
<1>2. maps[Interp].mapped BY <1>1, Mapped DEF Shapes
<1>3. Intact(thread[Main].err) BY <1>1, TextIntact, ContextTypes DEF AccepterOk
<1>4. ASSUME NEW t \in Kids
      PROVE  /\ Intact(thread[t].err)
             /\ thread[t].ctx # None => maps[thread[t].ctx].mapped
             /\ thread[t].pc \in {"idle", "start", "unserved", "leave", "done"} => thread[t].ctx = None
  <2>0. WorkerOk(t) /\ t \in Threads BY <1>1, ContextTypes
  <2>1. Intact(thread[t].err) BY <1>1, <2>0, TextIntact DEF WorkerOk
  <2>2. thread[t].ctx # None => thread[t].ctx = thread[t].mem BY <2>0, IdleTypes DEF WorkerOk
  <2>3. thread[t].ctx # None => maps[thread[t].ctx].mapped BY <2>2, WorkerMemory, Mapped
  <2>4. thread[t].pc \in {"idle", "start", "unserved", "leave", "done"} => thread[t].ctx = None
    BY <2>0, IdleTypes DEF WorkerOk
  <2> QED BY <2>1, <2>3, <2>4
<1>5. MainPc \notin {"idle", "start", "unserved", "leave", "done"} BY <1>1 DEF AccepterOk
<1>6. ASSUME NEW t \in Threads
      PROVE  /\ Intact(thread[t].err)
             /\ thread[t].ctx # None => maps[thread[t].ctx].mapped
             /\ thread[t].pc \in {"idle", "start", "unserved", "leave", "done"} => thread[t].ctx = None
  <2>1. CASE t = Main BY <1>1, <1>2, <1>3, <1>5, <2>1 DEF MainPc
  <2>2. CASE t \in Kids BY <1>4, <2>2
  <2> QED BY <2>1, <2>2, ContextTypes
<1>7. thread[Main].pc # "joined" BY <1>1 DEF AccepterOk, MainPc
<1> QED BY <1>1, <1>6, <1>7 DEF Undisturbed

----
(* The handler of exceptions *)

(* Contexts of threads are not interpreters. *)
Selves == \A c \in Maps : maps[c] # Unmapped => maps[c].self = None

Diagnosed ==
  report \in Diagnoses => \E t \in Threads : thread[t].pc = "faulted" /\ thread[t].ctx = Interp

(* A mapping is unmapped, made, or keeps whose it is. *)
KeepsSelf ==
  \A c \in Maps : \/ maps'[c] = maps[c]
                  \/ maps'[c] = Unmapped
                  \/ maps'[c].self = None
                  \/ maps[c] # Unmapped /\ maps'[c].self = maps[c].self

LEMMA InitCtxSelf ==
  ASSUME Shapes, NEW m \in Maps, InitCtx(m)
  PROVE  KeepsSelf
<1>1. maps' = [maps EXCEPT ![m] = Ctx(None, Room[m])] /\ IsMaps(maps) /\ m \in Contexts
  BY ContextTypes DEF InitCtx, Shapes
<1>2. Ctx(None, Room[m]).self = None BY NewContext, ContextTypes
<1> HIDE DEF Ctx
<1>3. \A c \in Contexts : maps'[c] = maps[c] \/ maps'[c] = Ctx(None, Room[m])
  BY <1>1 DEF IsMaps
<1> QED BY <1>2, <1>3, ContextTypes DEF KeepsSelf

LEMMA DeinitSelf ==
  ASSUME Shapes, NEW m \in Maps, Deinit(m)
  PROVE  KeepsSelf
<1>1. IsMaps(maps) /\ m \in Contexts BY ContextTypes DEF Shapes
<1> QED BY <1>1, DeinitMaps, ContextTypes DEF KeepsSelf

LEMMA OsErrSelf ==
  ASSUME Shapes, NEW t \in Threads, NEW pc, OsErr(t, pc),
         NEW c \in Contexts, c = thread[t].ctx, maps[c] # Unmapped
  PROVE  KeepsSelf
<1>1. IsMaps(maps) /\ MappedShape(maps[c], RoomOf(c)) BY ShapeOf DEF Shapes
<1>2. CASE HasRoom(c)
  <2>1. maps' = Allocated(c, <<t, pc>>) BY <1>2 DEF OsErr
  <2>2. /\ maps'[c].self = maps[c].self
        /\ \A x \in Contexts \ {c} : maps'[x] = maps[x]
    BY <1>1, <1>2, <2>1, Allocates
  <2> QED BY <2>2, ContextTypes DEF KeepsSelf
<1>3. CASE ~HasRoom(c) BY <1>3 DEF OsErr, KeepsSelf
<1> QED BY <1>2, <1>3

LEMMA SpawnCtxSelf ==
  ASSUME ThreadsInv, SpawnCtx
  PROVE  KeepsSelf
<1>1. MainPc = "spawn" BY DEF SpawnCtx, At, MainPc
<1>2. Shapes /\ ParentOk BY DEF ThreadsInv, ThreadsOk
<1>3. PICK m \in Maps : m = child[cur].mem /\ maps[m] # Unmapped
  BY <1>1, <1>2, AtChild, Mapped DEF ParentOk
<1> DEFINE closed == Closed(m, [inp |-> m, ctx |-> m], <<"path", cur>>)
<1>4. \/ HasRoom(m) /\ maps' = closed
      \/ HasRoom(m) /\ \E new : maps' = [closed EXCEPT ![Interp] = new]
      \/ maps' = IF HasRoom(m) THEN closed ELSE maps
  BY <1>3 DEF SpawnCtx, Closed
<1>5. HasRoom(m) => /\ \A x \in Contexts \ {m} : closed[x] = maps[x]
                    /\ closed[m].self = maps[m].self
                    /\ IsMaps(closed)
  BY <1>2, <1>3, Closes
<1> HIDE DEF closed
<1>6. CASE HasRoom(m)
  <2>1. \A x \in Maps : maps'[x] = closed[x] BY <1>4, <1>5, <1>6, ContextTypes DEF IsMaps
  <2> QED BY <1>3, <1>5, <1>6, <2>1, ContextTypes DEF KeepsSelf
<1>7. CASE ~HasRoom(m) BY <1>4, <1>7 DEF KeepsSelf
<1> QED BY <1>6, <1>7

LEMMA ThreadsSelf ==
  ASSUME ThreadsInv, Next
  PROVE  KeepsSelf
<1>1. /\ program = "threads" /\ Shapes /\ ThreadsOk /\ Main \in Threads
      /\ \A t \in Kids : ChildOk(t) /\ t \in Threads
  BY ContextTypes DEF ThreadsInv, ThreadsOk
<1>2. CASE UNCHANGED maps BY <1>2 DEF KeepsSelf
<1>3. CASE InitChild BY <1>1, <1>2, <1>3, InitCtxSelf DEF InitChild
<1>4. CASE SpawnCtx BY <1>4, SpawnCtxSelf
<1>5. CASE Unspawned \/ Cleanup
  <2>1. child[cur].ok /\ MainPc \in {"unspawned", "cleanup"} /\ Deinit(child[cur].mem)
    BY <1>1, <1>5 DEF Unspawned, Cleanup, At, MainPc, ThreadsOk, ParentOk
  <2>2. child[cur].mem \in Maps BY <1>1, <2>1, AtChild
  <2> QED BY <1>1, <2>1, <2>2, DeinitSelf
<1>6. CASE Join
  <2>1. thread[Main].ctx = Interp /\ maps[Interp] # Unmapped /\ Interp \in Contexts
    BY <1>1, Mapped, ContextTypes DEF ThreadsInv, Shapes
  <2> QED BY <1>1, <1>2, <1>6, <2>1, OsErrSelf DEF Join
<1>7. CASE Joined \/ NotJoined \/ \E pc \in {"wait", "cleanup"} : Skip(pc)
  BY <1>2, <1>7 DEF Joined, NotJoined, Skip
<1>8. CASE Log \/ SpawnDetached \/ Refused \/ Accept \/ NotAccepted
  BY <1>1, <1>8 DEF Log, SpawnDetached, Refused, Accept, NotAccepted, At, MainPc, ThreadsOk,
                    ParentOk, Spawning
<1>9. ASSUME NEW t \in Kids, Child(t) \/ Break(t) PROVE KeepsSelf
  <2>1. CASE Trampoline(t) \/ Return(t) BY <1>2, <2>1 DEF Trampoline, Return
  <2>2. CASE RunChild(t)
    <3>1. thread[t].pc = "run" BY <2>2 DEF RunChild, At
    <3>2. PICK m \in Maps : /\ m = thread[t].mem /\ m \in Contexts /\ maps[m] # Unmapped
                            /\ MappedShape(maps[m], RoomOf(m))
      BY <3>1, ChildMemory, Mapped, ContextTypes
    <3>3. CASE maps' = [maps EXCEPT ![m].inout = <<"size", t>>]
      <4>1. IsMaps(maps) BY <1>1 DEF Shapes
      <4>2. /\ maps'[m].self = maps[m].self
            /\ \A x \in Contexts \ {m} : maps'[x] = maps[x]
        BY <3>2, <3>3, <4>1, StoresInout
      <4> QED BY <3>2, <4>2, ContextTypes DEF KeepsSelf
    <3>4. CASE OsErr(t, "return")
      <4>1. thread[t].ctx = m BY <1>1, <3>1, <3>2 DEF ChildOk
      <4> QED BY <1>1, <3>2, <3>4, <4>1, OsErrSelf
    <3> QED BY <2>2, <3>2, <3>3, <3>4 DEF RunChild
  <2>3. thread[t].pc \in {"idle", "start", "run", "return", "done", "faulted"}
    BY <1>1 DEF ChildOk
  <2>4. CASE Handler(t) BY <1>1, <2>4 DEF Handler
  <2>5. CASE Unserved(t) \/ Read(t) \/ Answer(t) \/ CloseConn(t) \/ LogServed(t) \/ Leave(t) \/ Break(t)
    BY <2>3, <2>5 DEF Unserved, Read, Answer, CloseConn, LogServed, Leave, Break, At
  <2> QED BY <1>9, <2>1, <2>2, <2>4, <2>5 DEF Child
<1>10. ASSUME NEW t \in Threads, Fault(t) \/ Handle(t) PROVE KeepsSelf
  BY <1>2, <1>10 DEF Fault, Handle
<1>11. ASSUME NEW fd \in Fds, Client(fd) PROVE KeepsSelf BY <1>2, <1>11 DEF Client
<1> QED BY <1>3, <1>4, <1>5, <1>6, <1>7, <1>8, <1>9, <1>10, <1>11 DEF Next, Parent

LEMMA EchoSelf ==
  ASSUME EchoInv, Next
  PROVE  KeepsSelf
<1>1. /\ program = "echo" /\ Shapes /\ AccepterOk /\ Main \in Threads
      /\ \A t \in Kids : WorkerOk(t) /\ t \in Threads
      /\ thread[Main].ctx = Interp /\ maps[Interp] # Unmapped /\ Interp \in Contexts
  BY ContextTypes, Mapped DEF EchoInv, EchoOk, Shapes
<1>2. CASE UNCHANGED maps BY <1>2 DEF KeepsSelf
<1>3. CASE InitChild \/ SpawnCtx \/ Unspawned \/ Join \/ Joined \/ NotJoined \/ Cleanup
  BY <1>1, <1>3 DEF InitChild, SpawnCtx, Unspawned, Join, Joined, NotJoined, Cleanup, At,
                    MainPc, AccepterOk
<1>4. CASE Log \/ Refused \/ \E pc \in {"wait", "cleanup"} : Skip(pc)
  BY <1>2, <1>4 DEF Log, Refused, Skip
<1>5. CASE SpawnDetached
  <2>1. CASE OsErr(Main, "refused") BY <1>1, <2>1, OsErrSelf
  <2> QED BY <1>2, <1>5, <2>1 DEF SpawnDetached
<1>6. CASE Accept BY <1>6, Rewinds DEF Accept, KeepsSelf
<1>7. CASE NotAccepted
  <2>1. IsMaps(Rewound) /\ \A x \in Maps : Rewound[x] = maps[x] BY Rewinds
  <2>2. \A x \in Maps : x \in Contexts /\ x # Interp BY ContextTypes
  <2> HIDE DEF Rewound
  <2>3. \/ maps' = Rewound
        \/ maps' = [Rewound EXCEPT ![Interp].cells[1] = <<Main, "log">>, ![Interp].top = 2]
    BY <1>7 DEF NotAccepted
  <2>4. \A x \in Maps : maps'[x] = Rewound[x] BY <2>1, <2>2, <2>3 DEF IsMaps
  <2> QED BY <2>1, <2>4 DEF KeepsSelf
<1>8. ASSUME NEW t \in Kids, Child(t) \/ Break(t) PROVE KeepsSelf
  <2>1. CASE Trampoline(t) \/ Unserved(t) \/ Read(t) \/ Answer(t) \/ CloseConn(t) \/ LogServed(t)
    BY <1>2, <2>1 DEF Trampoline, Unserved, Read, Answer, CloseConn, LogServed
  <2>2. CASE RunChild(t) \/ Return(t) BY <1>1, <2>2 DEF RunChild, Return, At, WorkerOk
  <2>3. CASE Handler(t) BY <1>1, <1>2, <2>3, InitCtxSelf DEF Handler
  <2>4. CASE Leave(t)
    <3>1. thread[t].mem # None /\ Deinit(thread[t].mem) BY <1>1, <2>4 DEF Leave, At, WorkerOk
    <3> QED BY <1>1, <3>1, WorkerMemory, DeinitSelf
  <2>5. CASE Break(t)
    <3>1. thread[t].pc \in {"serve", "answer"} /\ OsErr(t, "close") BY <2>5 DEF Break, At
    <3>2. thread[t].mem # None /\ thread[t].ctx = thread[t].mem BY <1>1, <3>1 DEF WorkerOk
    <3>3. PICK m \in Contexts : m = thread[t].ctx /\ maps[m] # Unmapped
      BY <3>2, WorkerMemory, Mapped
    <3> QED BY <1>1, <3>1, <3>3, OsErrSelf
  <2> QED BY <1>8, <2>1, <2>2, <2>3, <2>4, <2>5 DEF Child
<1>9. ASSUME NEW t \in Threads, Fault(t) \/ Handle(t) PROVE KeepsSelf
  BY <1>2, <1>9 DEF Fault, Handle
<1>10. ASSUME NEW fd \in Fds, Client(fd) PROVE KeepsSelf BY <1>2, <1>10 DEF Client
<1> QED BY <1>3, <1>4, <1>5, <1>6, <1>7, <1>8, <1>9, <1>10 DEF Next, Parent

LEMMA NextReports ==
  ASSUME Next, ~\E t \in Threads : Handle(t)
  PROVE  report' \in {"none", "killed"}
<1>1. CASE Parent \/ Accept \/ NotAccepted
  BY <1>1 DEF Parent, Accept, NotAccepted, InitChild, SpawnCtx, Unspawned, Join, Joined, NotJoined,
              Cleanup, Skip, Log, SpawnDetached, Refused, At
<1>2. ASSUME NEW t \in Kids, Child(t) \/ Break(t) PROVE report' \in {"none", "killed"}
  BY <1>2 DEF Child, Break, Trampoline, RunChild, Return, Handler, Unserved, Read, Answer,
              CloseConn, LogServed, Leave, At
<1>3. ASSUME NEW fd \in Fds, Client(fd) PROVE report' \in {"none", "killed"}
  BY <1>3 DEF Client
<1>4. ASSUME NEW t \in Threads, Fault(t) PROVE report' \in {"none", "killed"}
  BY <1>4 DEF Fault
<1> QED BY <1>1, <1>2, <1>3, <1>4 DEF Next

LEMMA InitSelves ==
  ASSUME Init
  PROVE  Selves /\ Diagnosed
<1>1. \A m \in Maps : maps[m] = Unmapped BY ContextTypes DEF Init, Contexts
<1> QED BY <1>1 DEF Init, Selves, Diagnosed, Diagnoses

LEMMA ContextsStay ==
  ASSUME Selves, KeepsSelf
  PROVE  Selves'
BY DEF Selves, KeepsSelf

(* Who is stopped in the main context has the interpreter, and nobody else. *)
LEMMA HandleDiagnoses ==
  ASSUME Undisturbed, Inv, Selves, NEW t \in Threads, Handle(t)
  PROVE  Diagnosed'
<1> SUFFICES ASSUME report' \in Diagnoses
             PROVE  thread'[t].pc = "faulted" /\ thread'[t].ctx = Interp
  BY DEF Diagnosed, Diagnoses
<1>1. thread' = thread /\ thread[t].pc = "faulted" BY DEF Handle, At
<1>2. InterpValid(thread[t].ctx) BY DEF Handle, Diagnoses
<1>3. thread[t].ctx # None /\ maps[thread[t].ctx].self = thread[t].ctx
  BY <1>2 DEF InterpValid
<1>4. maps[thread[t].ctx].mapped BY <1>3 DEF Undisturbed
<1>5. thread[t].ctx \in Maps \cup {None, Interp}
  BY InvSplit DEF ThreadsInv, EchoInv, Shapes, ThreadRec, Contexts
<1>6. maps[thread[t].ctx] # Unmapped BY <1>4 DEF Unmapped
<1>7. thread[t].ctx \notin Maps BY <1>3, <1>6 DEF Selves
<1> QED BY <1>1, <1>3, <1>5, <1>7

LEMMA SelvesNext ==
  ASSUME Inv, Undisturbed, Selves, Diagnosed, [Next]_vars
  PROVE  Selves' /\ Diagnosed'
<1>1. CASE UNCHANGED vars
  BY <1>1 DEF vars, Selves, Diagnosed
<1>2. CASE Next
  <2>1. Selves' BY <1>2, InvSplit, ThreadsSelf, EchoSelf, ContextsStay
  <2>2. CASE \E t \in Threads : Handle(t) BY <2>1, <2>2, HandleDiagnoses
  <2>3. CASE ~\E t \in Threads : Handle(t)
    <3>1. report' \in {"none", "killed"} BY <1>2, <2>3, NextReports
    <3> QED BY <2>1, <3>1 DEF Diagnosed, Diagnoses
  <2> QED BY <2>1, <2>2, <2>3
<1> QED BY <1>1, <1>2

----
LEMMA OneCloserFromInv ==
  ASSUME Inv
  PROVE  OneCloser
<1>1. CASE ThreadsInv
  <2>1. \A t \in Threads : ~Owes(t)
    BY <1>1 DEF ThreadsInv, ThreadsOk, ParentOk, MainPc, Spawning, Owes
  <2>2. \A fd \in Fds : fds[fd] = None BY <1>1 DEF ThreadsInv, ThreadsOk
  <2> QED BY <2>1, <2>2 DEF OneCloser
<1>2. CASE EchoInv
  <2>1. FdsOk BY <1>2 DEF EchoInv, EchoOk
  <2>2. ASSUME NEW t \in Threads, Owes(t)
        PROVE  fds[thread[t].fd] \in IF t = Main THEN Kids ELSE {t}
    <3>1. CASE t = Main BY <2>1, <2>2, <3>1 DEF FdsOk
    <3>2. CASE t # Main
      <4>1. t \in Kids BY <3>2, ContextTypes
      <4> QED BY <2>1, <2>2, <3>2, <4>1 DEF FdsOk
    <3> QED BY <3>1, <3>2
  <2>3. ASSUME NEW fd \in Fds, fds[fd] # None
        PROVE  \E t \in Threads : /\ Owes(t) /\ thread[t].fd = fd
                                  /\ \A u \in Threads \ {t} : Owes(u) => thread[u].fd # fd
    <3>1. PICK t \in Threads : Owes(t) /\ thread[t].fd = fd BY <2>1, <2>3 DEF FdsOk
    <3>2. \A u \in Threads \ {t} : Owes(u) => thread[u].fd # fd BY <2>1, <3>1, OneOwes
    <3> QED BY <3>1, <3>2
  <2> QED BY <2>2, <2>3 DEF OneCloser
<1> QED BY <1>1, <1>2, InvSplit

(* Whoever runs, each memory is held once and mapped, children do what they    *)
(* were started for, and each descriptor has one thread to close it.           *)
THEOREM InvInvariant == Spec => []Inv
<1>1. Inv /\ [Next]_vars => Inv' BY NextInv
<1> QED BY <1>1, InitInv, PTL DEF Spec

(* Texts of errors, closures and ambient contexts are there whenever a thread  *)
(* reads them, however threads and failures interleave.  The handler reads an  *)
(* interpreter for no thread but one which has the main context.               *)
THEOREM MemoryIsIntact == Spec => []MemoryIntact
<1>1. Inv => Undisturbed BY InvSplit, ThreadsIntact, EchoIntact
<1>2. Init => Selves /\ Diagnosed BY InitSelves
<1>3. Inv /\ Selves /\ Diagnosed /\ [Next]_vars => (Selves /\ Diagnosed)'
  BY <1>1, SelvesNext
<1>4. Undisturbed /\ Diagnosed => MemoryIntact BY DEF Undisturbed, Diagnosed, MemoryIntact
<1> QED BY <1>1, <1>2, <1>3, <1>4, InvInvariant, PTL DEF Spec

(* Every open connection has exactly one thread which closes it.               *)
THEOREM ConnectionsHaveOneCloser == Spec => []OneCloser
<1>1. Inv => OneCloser BY OneCloserFromInv
<1> QED BY <1>1, InvInvariant, PTL

(* The memory of a thread is changed by its own steps only.                    *)
THEOREM MemoryHasOneUser == Spec => OneUser
<1>1. Inv /\ [Next]_vars => [OneUserStep]_vars BY NextInv
<1>2. OneUser <=> [][OneUserStep]_vars BY DEF OneUser, OneUserStep
<1> QED BY <1>1, <1>2, InvInvariant, PTL DEF Spec
====
