---- MODULE Threads ----
(* Threads with ambient contexts: what forth/pthread.af and the contexts of    *)
(* lang.af promise the programs which use them, here the two of examples/: one *)
(* with joinable threads on memory of their parent (threads.af), one with      *)
(* detached threads on memory of their own (http_echo.af).  A bad access is    *)
(* handled by one more thread (mach_exc.c).                                    *)
EXTENDS Integers

CONSTANTS
  Children, \* number of threads beside the main one
  Fds,      \* descriptors of connections
  Room,     \* what may be mapped: room for texts and closures of each mapping
  MainRoom, \* the same for the main arena
  Programs  \* which programs are run

None == 0
Main == 0
Interp == -1 \* the main context: the interpreter, over the main arena

Kids == 1 .. Children
Threads == {Main} \cup Kids
Maps == DOMAIN Room

ASSUME ThreadsAssumption ==
  /\ Children \in Nat \ {0} /\ MainRoom \in Nat
  /\ Fds \subseteq Nat \ {0} /\ Maps \subseteq Nat \ {0} /\ Room \in [Maps -> Nat]
  /\ Programs \subseteq {"threads", "echo"}

VARIABLES
  program, \* the program which is run
  thread,  \* for each thread where it is, its context register, its locals
  cur,     \* threads.af: the child the main thread is at
  child,   \* threads.af: the memory of each child, and whether it is in use
  maps,    \* contexts and what they allocated
  lost,    \* mappings which stay for ever
  fds,     \* open connections, with the thread they were accepted for
  client,  \* what the client of each has done
  report   \* what the handler of exceptions said

vars == <<program, thread, cur, child, maps, lost, fds, client, report>>

----
(* Contexts are at the floor of the memory they allocate from. *)

Ctx(self, room) ==
  [mapped |-> TRUE, self |-> self, top |-> 1, inout |-> None,
   cells |-> [k \in 1 .. room |-> None]]
Unmapped == [mapped |-> FALSE]

HasRoom(c) == maps[c].top \in DOMAIN maps[c].cells
Allocated(c, val) == [maps EXCEPT ![c].cells[maps[c].top] = val, ![c].top = @ + 1]

Nil == [kind |-> "nil"]
Static == [kind |-> "static"]
Text(c, says) == [kind |-> "text", ctx |-> c, cell |-> maps[c].top, says |-> says]

Intact(err) ==
  err.kind = "text" => maps[err.ctx].mapped /\ maps[err.ctx].cells[err.cell] = err.says

(* .stack_init_ctx may fail, with a static text. *)
InitCtx(m) == ~maps[m].mapped /\ maps' = [maps EXCEPT ![m] = Ctx(None, Room[m])]

(* .stack_deinit may fail, with a static text. *)
Deinit(m) ==
  \/ maps' = [maps EXCEPT ![m] = Unmapped] /\ UNCHANGED lost
  \/ lost' = lost \cup {m} /\ UNCHANGED maps

----
(* Threads. *)

At(t, pc) == report = "none" /\ thread[t].pc = pc
Becomes(t, rec) == thread' = [thread EXCEPT ![t] = rec]
Goto(t, pc, err) == [thread[t] EXCEPT !.pc = pc, !.err = err]

Idle == [pc |-> "idle", ctx |-> None, saved |-> None, mem |-> None, run |-> 0,
         err |-> Nil, fd |-> None]

(* .os_err: the text of an error is formatted by .errf into the ambient        *)
(* context, and is never an error itself; it is read at pc.                    *)
OsErr(t, pc) ==
  LET c == thread[t].ctx IN
  IF HasRoom(c)
  THEN Becomes(t, Goto(t, pc, Text(c, <<t, pc>>))) /\ maps' = Allocated(c, <<t, pc>>)
  ELSE Becomes(t, Goto(t, pc, Static)) /\ UNCHANGED maps

(* .with_ctx ... end *)
Pushed(rec, c) == [rec EXCEPT !.saved = rec.ctx, !.ctx = c]
(* Mutant: the end does not restore the register. *)
PoppedNot(rec) == rec

Popped(rec) == [rec EXCEPT !.ctx = rec.saved, !.saved = None]

----
(* threads.af: the parent spawns each child, waits for each, frees the memory  *)
(* of each.                                                                    *)

Following(pc) ==
  CASE pc = "init" -> "wait"
    [] pc = "wait" -> "cleanup"
    [] pc = "cleanup" -> "end"

(* Done with a child: the next one, or the next of the three phases. *)
Turn(pc) ==
  IF cur < Children THEN cur' = cur + 1 /\ Becomes(Main, Goto(Main, pc, Nil))
  ELSE cur' = 1 /\ Becomes(Main, Goto(Main, Following(pc), Nil))

Skip(pc) ==
  /\ pc \in {"wait", "cleanup"} /\ At(Main, pc) /\ ~child[cur].ok
  /\ Turn(pc)
  /\ UNCHANGED <<program, child, maps, lost, fds, client, report>>

(* .spawn *)
InitChild ==
  /\ At(Main, "init")
  /\ \/ \E m \in Maps : /\ InitCtx(m)
                        /\ child' = [child EXCEPT ![cur] = [mem |-> m, ok |-> TRUE]]
                        /\ Becomes(Main, Goto(Main, "spawn", Nil))
                        /\ UNCHANGED cur
     \/ child' = [child EXCEPT ![cur].ok = FALSE] /\ Turn("init") /\ UNCHANGED maps
  /\ UNCHANGED <<program, lost, fds, client, report>>

(* .thread_spawn_ctx: a closure in the memory of the child, then the thread.   *)
(* The parent formats what it is told into its own memory.                     *)
SpawnCtx ==
  LET m == child[cur].mem
      closed == [Allocated(m, [inp |-> m, ctx |-> m]) EXCEPT ![m].inout = <<"path", cur>>] IN
  /\ At(Main, "spawn")
  /\ \/ /\ HasRoom(m)
        /\ maps' = closed
        /\ IF cur < Children THEN cur' = cur + 1 ELSE cur' = 1
        /\ thread' = [thread EXCEPT
             ![Main].pc = IF cur < Children THEN "init" ELSE "wait",
             ![cur] = [Idle EXCEPT !.pc = "start", !.mem = m, !.run = maps[m].top]]
     \/ /\ HasRoom(m) /\ HasRoom(Interp)
        /\ Becomes(Main, Goto(Main, "unspawned", Text(Interp, <<Main, "unspawned">>)))
        /\ maps' = [closed EXCEPT ![Interp] = Allocated(Interp, <<Main, "unspawned">>)[Interp]]
        /\ UNCHANGED cur
     \/ /\ ~(HasRoom(m) /\ HasRoom(Interp))
        /\ Becomes(Main, Goto(Main, "unspawned", Static))
        /\ maps' = IF HasRoom(m) THEN closed ELSE maps
        /\ UNCHANGED cur
  /\ UNCHANGED <<program, child, lost, fds, client, report>>

Unspawned ==
  /\ At(Main, "unspawned")
  /\ Deinit(child[cur].mem)
  /\ child' = [child EXCEPT ![cur].ok = FALSE]
  /\ Turn("init")
  /\ UNCHANGED <<program, fds, client, report>>

(* .wait: pthread_join may fail, whatever the thread does. *)
Join ==
  /\ At(Main, "wait") /\ child[cur].ok
  /\ \/ /\ thread[cur].pc = "done"
        /\ thread' = [thread EXCEPT ![Main] = Goto(Main, "joined", thread[cur].err),
                                    ![cur] = Idle]
        /\ UNCHANGED maps
     \/ OsErr(Main, "not joined")
  /\ UNCHANGED <<program, cur, child, lost, fds, client, report>>

Joined ==
  /\ At(Main, "joined")
  /\ Turn("wait")
  /\ UNCHANGED <<program, child, maps, lost, fds, client, report>>

(* Mutant: a failed join counts as one. *)
NotJoinedFrees ==
  /\ At(Main, "not joined")
  /\ Turn("wait")
  /\ UNCHANGED <<program, child, maps, lost, fds, client, report>>

(* The memory is leaked, since the child may still run. *)
NotJoined ==
  /\ At(Main, "not joined")
  /\ child' = [child EXCEPT ![cur].ok = FALSE]
  /\ lost' = lost \cup {child[cur].mem}
  /\ Turn("wait")
  /\ UNCHANGED <<program, maps, fds, client, report>>

Cleanup ==
  /\ At(Main, "cleanup") /\ child[cur].ok
  /\ Deinit(child[cur].mem)
  /\ Turn("cleanup")
  /\ UNCHANGED <<program, child, fds, client, report>>

(* .thread_run_with_ctx *)
Trampoline(t) ==
  LET run == maps[thread[t].mem].cells[thread[t].run] IN
  /\ program = "threads" /\ At(t, "start")
  /\ Becomes(t, Pushed(Goto(t, "run", Nil), run.ctx))
  /\ UNCHANGED <<program, cur, child, maps, lost, fds, client, report>>

(* .child: it stores its result, or returns a text in its own memory. *)
RunChild(t) ==
  /\ At(t, "run")
  /\ \/ /\ maps' = [maps EXCEPT ![thread[t].mem].inout = <<"size", t>>]
        /\ Becomes(t, Goto(t, "return", Nil))
     \/ OsErr(t, "return")
  /\ UNCHANGED <<program, cur, child, lost, fds, client, report>>

Return(t) ==
  /\ At(t, "return")
  /\ Becomes(t, [Popped(thread[t]) EXCEPT !.pc = "done"])
  /\ UNCHANGED <<program, cur, child, maps, lost, fds, client, report>>

----
(* http_echo.af *)

(* .conn_close: the descriptor is free even when closing fails. *)
Close(fd) ==
  /\ fds' = [fds EXCEPT ![fd] = None]
  /\ client' = [client EXCEPT ![fd] = "quiet"]

(* .net_accept_loop_threaded rewinds its memory on every turn; what is free     *)
(* has no contents.                                                            *)
Rewound == [maps EXCEPT ![Interp] = Ctx(Interp, MainRoom)]

Accept ==
  /\ At(Main, "accept")
  /\ \E fd \in Fds, w \in Kids :
       /\ fds[fd] = None /\ thread[w].pc = "idle" /\ w \notin {fds[f] : f \in Fds}
       /\ fds' = [fds EXCEPT ![fd] = w]
       /\ Becomes(Main, [Goto(Main, "accepted", Nil) EXCEPT !.fd = fd])
  /\ maps' = Rewound
  /\ UNCHANGED <<program, cur, child, lost, client, report>>

NotAccepted ==
  /\ At(Main, "accept")
  /\ maps' = IF MainRoom = 0 THEN Rewound
             ELSE [Rewound EXCEPT ![Interp].cells[1] = <<Main, "log">>, ![Interp].top = 2]
  /\ Becomes(Main, Goto(Main, "log", IF MainRoom = 0 THEN Static
                                     ELSE [Text(Interp, <<Main, "log">>) EXCEPT !.cell = 1]))
  /\ UNCHANGED <<program, cur, child, lost, fds, client, report>>

Log ==
  /\ At(Main, "log")
  /\ Becomes(Main, Goto(Main, "accept", Nil))
  /\ UNCHANGED <<program, cur, child, maps, lost, fds, client, report>>

Detached == [Idle EXCEPT !.pc = "start", !.fd = thread[Main].fd]
Spawned(pc, fd) == [thread EXCEPT ![Main].pc = pc, ![Main].fd = fd,
                                  ![fds[thread[Main].fd]] = Detached]

(* Mutant: after the thread was created, an error of cleaning up is returned. *)
SpawnDetachedTold ==
  /\ At(Main, "accepted")
  /\ \/ /\ thread' = Spawned("accept", None)
        /\ UNCHANGED maps
     \/ /\ thread' = Spawned("refused", thread[Main].fd)
        /\ UNCHANGED maps
     \/ OsErr(Main, "refused")
  /\ UNCHANGED <<program, cur, child, lost, fds, client, report>>

(* .thread_spawn_detached: the attributes or the thread may be refused. *)
SpawnDetached ==
  /\ At(Main, "accepted")
  /\ \/ /\ thread' = Spawned("accept", None)
        /\ UNCHANGED maps
     \/ OsErr(Main, "refused")
  /\ UNCHANGED <<program, cur, child, lost, fds, client, report>>

Refused ==
  /\ At(Main, "refused")
  /\ Close(thread[Main].fd)
  /\ Becomes(Main, [Goto(Main, "accept", Nil) EXCEPT !.fd = None])
  /\ UNCHANGED <<program, cur, child, maps, lost, report>>

(* .handle_conn *)
Handler(t) ==
  /\ program = "echo" /\ At(t, "start")
  /\ \/ \E m \in Maps : /\ InitCtx(m)
                        /\ Becomes(t, Pushed([Goto(t, "serve", Nil) EXCEPT !.mem = m], m))
     \/ Becomes(t, Goto(t, "unserved", Static)) /\ UNCHANGED maps
  /\ UNCHANGED <<program, cur, child, lost, fds, client, report>>

Unserved(t) ==
  /\ At(t, "unserved")
  /\ Close(thread[t].fd)
  /\ Becomes(t, Idle)
  /\ UNCHANGED <<program, cur, child, maps, lost, report>>

(* .respond_conn reads once, .read_req, which waits for the client to send      *)
(* something or to leave; without a request it answers as well.                 *)
Said(t) == client[thread[t].fd]

(* Mutant: all of the request is read, up to its end. *)
ReadToEnd(t) ==
  /\ At(t, "serve") /\ Said(t) = "left"
  /\ Becomes(t, Goto(t, "answer", Nil))
  /\ UNCHANGED <<program, cur, child, maps, lost, fds, client, report>>

Read(t) ==
  /\ At(t, "serve") /\ Said(t) # "quiet"
  /\ Becomes(t, Goto(t, "answer", Nil))
  /\ UNCHANGED <<program, cur, child, maps, lost, fds, client, report>>

(* To write to a client which left may end the process, by a signal.           *)
Answer(t) ==
  /\ At(t, "answer")
  /\ \/ Becomes(t, Goto(t, "close", Nil)) /\ UNCHANGED report
     \/ Said(t) = "left" /\ report' = "killed" /\ UNCHANGED thread
  /\ UNCHANGED <<program, cur, child, maps, lost, fds, client>>

(* Reading and writing may fail at every time.                                 *)
Break(t) ==
  /\ At(t, "serve") \/ At(t, "answer")
  /\ OsErr(t, "close")
  /\ UNCHANGED <<program, cur, child, lost, fds, client, report>>

(* The thread is in a call which returns when its client does something: sends  *)
(* a request, takes the answer off a connection which is full, or leaves.       *)
Waits(t) ==
  \/ thread[t].pc = "serve" /\ Said(t) = "quiet"
  \/ thread[t].pc = "answer" /\ Said(t) \in {"quiet", "sent"}

CloseConn(t) ==
  /\ At(t, "close")
  /\ Close(thread[t].fd)
  /\ Becomes(t, [Goto(t, "log", thread[t].err) EXCEPT !.fd = None])
  /\ UNCHANGED <<program, cur, child, maps, lost, report>>

LogServed(t) ==
  /\ t # Main /\ At(t, "log")
  /\ Becomes(t, Popped(Goto(t, "leave", Nil)))
  /\ UNCHANGED <<program, cur, child, maps, lost, fds, client, report>>

Leave(t) ==
  /\ At(t, "leave")
  /\ Deinit(thread[t].mem)
  /\ Becomes(t, Idle)
  /\ UNCHANGED <<program, cur, child, fds, client, report>>

(* A client sends its request, takes the answer, or leaves; it need do neither. *)
(* What it does before it is served makes no difference until then.             *)
Client(fd) ==
  /\ report = "none"
  /\ \E t \in Kids : thread[t].fd = fd /\ thread[t].pc \in {"serve", "answer"}
  /\ \/ client[fd] = "quiet" /\ client' = [client EXCEPT ![fd] = "sent"]
     \/ client[fd] = "sent" /\ client' = [client EXCEPT ![fd] = "takes"]
     \/ client[fd] # "left" /\ client' = [client EXCEPT ![fd] = "left"]
  /\ UNCHANGED <<program, thread, cur, child, maps, lost, fds, report>>

----
(* Bad accesses of the code of the programs.  The thread is stopped, the others *)
(* go on until the handler has answered; nothing is recovered.                  *)

Fault(t) ==
  /\ report = "none" /\ thread[t].pc \in {"init", "accept", "run", "serve", "answer"}
  /\ Becomes(t, [thread[t] EXCEPT !.pc = "faulted"])
  /\ UNCHANGED <<program, cur, child, maps, lost, fds, client, report>>

(* interp_valid: the context must be its own before more of it is read. *)
InterpValid(c) == c # None /\ maps[c].self = c

(* What is said after the code, the heap and the cells of an interpreter were   *)
(* read.                                                                       *)
Diagnoses == {"no bad access", "bad access", "underflow", "overflow"}

Handle(t) ==
  /\ At(t, "faulted")
  /\ IF InterpValid(thread[t].ctx)
     THEN \E said \in Diagnoses : report' = said
     ELSE report' = "no interpreter"
  /\ UNCHANGED <<program, thread, cur, child, maps, lost, fds, client>>

----
Init ==
  /\ program \in Programs
  /\ thread = [t \in Threads |->
       IF t = Main THEN [Idle EXCEPT !.ctx = Interp,
                           !.pc = IF program = "threads" THEN "init" ELSE "accept"]
       ELSE Idle]
  /\ cur = 1
  /\ child = [i \in Kids |-> [mem |-> None, ok |-> FALSE]]
  /\ maps = [c \in Maps \cup {Interp} |-> IF c = Interp THEN Ctx(Interp, MainRoom) ELSE Unmapped]
  /\ lost = {}
  /\ fds = [fd \in Fds |-> None]
  /\ client = [fd \in Fds |-> "quiet"]
  /\ report = "none"

(* What the main thread does without waiting for clients. *)
Parent ==
  \/ InitChild \/ SpawnCtx \/ Unspawned \/ Join \/ Joined \/ NotJoined \/ Cleanup
  \/ \E pc \in {"wait", "cleanup"} : Skip(pc)
  \/ Log \/ SpawnDetached \/ Refused

Child(t) ==
  \/ Trampoline(t) \/ RunChild(t) \/ Return(t)
  \/ Handler(t) \/ Unserved(t) \/ Read(t) \/ Answer(t)
  \/ CloseConn(t) \/ LogServed(t) \/ Leave(t)

Next ==
  \/ Parent \/ Accept \/ NotAccepted
  \/ \E t \in Kids : Child(t) \/ Break(t)
  \/ \E fd \in Fds : Client(fd)
  \/ \E t \in Threads : Fault(t) \/ Handle(t)

Spec == Init /\ [][Next]_vars

(* Threads are scheduled, exceptions delivered, and calls return which wait for  *)
(* nobody.  Nobody has to connect; a client which did may be silent for ever,   *)
(* and then the thread which serves it waits for ever.                          *)
FairSpec ==
  /\ Spec
  /\ WF_vars(Parent)
  /\ \A t \in Kids : WF_vars(~Waits(t) /\ Child(t))
  /\ \A t \in Threads : WF_vars(Handle(t))

----
(* Properties. *)

(* Whatever fails and in which order threads run: each text of an error is     *)
(* read before its memory is reused or unmapped, by another thread as well; a  *)
(* new thread finds its closure as it was written; the ambient context of a    *)
(* thread is always there, and foreign code gets its register back.  What the   *)
(* handler says of an interpreter it read there, and nowhere else.              *)
MemoryIntact ==
  /\ \A t \in Threads :
       /\ Intact(thread[t].err)
       /\ thread[t].ctx # None => maps[thread[t].ctx].mapped
       /\ thread[t].pc \in {"idle", "start", "unserved", "leave", "done"} => thread[t].ctx = None
       /\ program = "threads" /\ thread[t].pc = "start" =>
            LET m == thread[t].mem IN
            maps[m].mapped /\ maps[m].cells[thread[t].run] = [inp |-> m, ctx |-> m]
  /\ thread[Main].pc = "joined" /\ thread[Main].err = Nil =>
       maps[child[cur].mem].inout = <<"size", cur>>
  /\ report \in Diagnoses =>
       \E t \in Threads : thread[t].pc = "faulted" /\ thread[t].ctx = Interp

(* Every open connection is closed by exactly one thread, the worker or the    *)
(* accepting one, and nobody uses a descriptor which was closed or reused.     *)
Owes(t) ==
  \/ t = Main /\ thread[t].pc \in {"accepted", "refused"}
  \/ t # Main /\ program = "echo" /\ thread[t].pc \in {"start", "serve", "answer", "close", "unserved"}
  \/ t # Main /\ program = "echo" /\ thread[t].pc = "faulted"
OneCloser ==
  /\ \A t \in Threads : Owes(t) =>
       fds[thread[t].fd] \in IF t = Main THEN Kids ELSE {t}
  /\ \A fd \in Fds : fds[fd] # None =>
       \E t \in Threads : Owes(t) /\ thread[t].fd = fd
                          /\ \A u \in Threads \ {t} : Owes(u) => thread[u].fd # fd

(* From the start of a thread to its end, or for ever when it is not joined,   *)
(* its memory is changed and unmapped by nobody else.                          *)
MemoryOf(t) == IF t = Main THEN Interp ELSE thread[t].mem
Runs(t) == MemoryOf(t) # None /\ thread[t].pc \notin {"idle", "done"}
OneUser ==
  [][\A t \in Threads : Runs(t) /\ maps'[MemoryOf(t)] # maps[MemoryOf(t)]
                        => thread'[t] # thread[t]]_vars

(* Whatever stays mapped for ever is what a join or the unmapping failed for,   *)
(* or the memory of a thread whose own client neither sends a request and takes *)
(* the answer nor leaves; the same holds of a connection which stays open.  The *)
(* client need not leave to be answered.  Only the end of the process, by a bad *)
(* access or a signal, leaves more behind.                                     *)
Ended == report # "none"
Released ==
  /\ \A m \in Maps :
       <>[](maps[m].mapped /\ m \notin lost)
         => <>[](Ended \/ \E t \in Kids : thread[t].mem = m /\ Waits(t))
  /\ \A fd \in Fds, w \in Kids :
       <>[](fds[fd] = w) => <>[](Ended \/ (thread[w].fd = fd /\ Waits(w)))
====
