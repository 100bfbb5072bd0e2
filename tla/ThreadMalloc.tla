---------------------------- MODULE ThreadMalloc ----------------------------
(***************************************************************************)
(* The per-thread allocator of the compiler library and the COM objects    *)
(* that live on it: lib/DxcSupport/dxcmem.cpp (the TLS slot, the scope     *)
(* class DxcThreadMalloc, operator new and delete), the reference counting *)
(* of include/dxc/Support/microcom.h, the streams of                       *)
(* lib/DxcSupport/FileIOHelper.cpp, and the library's attach and detach in *)
(* tools/clang/tools/dxcompiler/DXCompiler.cpp.                            *)
(*                                                                         *)
(* A thread runs client code, methods of objects, and Release.  Its stack  *)
(* holds the calls in progress; a method runs client code again when it    *)
(* calls back (an include handler, an events handler).  The client keeps   *)
(* COM's rules: it uses an object only with a reference of its own, keeps  *)
(* that reference during the call, and does not run two methods of one     *)
(* object at the same time; AddRef and Release may run at any time.        *)
(*                                                                         *)
(* Several steps of one thread are separate actions wherever another       *)
(* thread, or a nested call, can see the state between them.               *)
(***************************************************************************)
EXTENDS Integers, Sequences, FiniteSets, SequencesExt

CONSTANTS
  Threads,    \* the client's threads
  Loader,     \* the thread that attaches and detaches the library
  Mallocs,    \* the client's IMalloc objects, for DxcCreateInstance2
  Defaults,   \* the process mallocs DxcCoGetMalloc can return, one per call
  Objects,    \* slots for the library's COM objects
  None,       \* nullptr
  MaxRefs,    \* bound: references to one object
  MaxScopes,  \* bound: calls in progress on one thread, Releases apart
  MaxInits    \* bound: DxcInitThreadMalloc calls

ASSUME ThreadMallocAssumption ==
  /\ Loader \in Threads
  /\ Mallocs \cap Defaults = {}
  /\ None \notin Mallocs \cup Defaults \cup Objects
  /\ "process" \notin Mallocs
  /\ IsFiniteSet(Threads) /\ IsFiniteSet(Objects)
  /\ MaxRefs \in Nat /\ MaxScopes \in Nat /\ MaxInits \in Nat

VARIABLES
  defaultMalloc,  \* g_pDefaultMalloc
  tlsReady,       \* g_ThreadMallocTls # nullptr
  dll,            \* how far attach or detach has come
  attempts,       \* DxcInitThreadMalloc calls so far
  inits,          \* history: the calls that succeeded, per default malloc
  tls,            \* the IMalloc in each thread's slot
  mref,           \* m_dwRef of each IMalloc
  owned,          \* the client mallocs the client still holds
  obj,            \* the COM objects
  held,           \* references to objects held by the client code of a thread
  stack,          \* calls in progress on each thread
  heap,           \* blocks allocated and not yet freed, per heap
  misfreed        \* history: blocks given to the Free of another heap

libVars    == <<defaultMalloc, tlsReady, dll, attempts, inits>>
heapVars   == <<heap, misfreed>>
vars == <<libVars, tls, mref, owned, obj, held, stack, heapVars>>

AllMallocs == Mallocs \cup Defaults

\* Every process malloc serves the one process heap, as CoTaskMemAlloc does,
\* which operator new falls back to without an IMalloc.
Heaps     == {"process"} \cup Mallocs
HeapOf(m) == IF m \in Mallocs THEN m ELSE "process"

Blocks == ({"object", "buffer"} \X Objects) \cup {<<"globals", None>>}

\* An object: the class says whether its methods and its Release use the TLS
\* slot (DXC_MICROCOM_TM_...) or, as streams do, only m_pMalloc.  buffer stands
\* for the memory its members own, member for a CComPtr to another object.
NoObject == [state |-> "free", stream |-> FALSE, malloc |-> None, dwRef |-> 0,
             buffer |-> FALSE, member |-> None]

\* A call in progress: malloc and prior are the fields p and pPrior of its
\* DxcThreadMalloc, scoped says that this scope is open.
Frame(op, o, m, prior, scoped, step) ==
  [op |-> op, obj |-> o, malloc |-> m, prior |-> prior, scoped |-> scoped, step |-> step]

Init ==
  /\ defaultMalloc = None /\ tlsReady = FALSE /\ dll = "down" /\ attempts = 0
  /\ inits = [d \in Defaults |-> 0]
  /\ tls = [t \in Threads |-> None]
  /\ mref = [m \in AllMallocs |-> IF m \in Mallocs THEN 1 ELSE 0]
  /\ owned = Mallocs
  /\ obj = [o \in Objects |-> NoObject]
  /\ held = [t \in Threads |-> [o \in Objects |-> 0]]
  /\ stack = [t \in Threads |-> <<>>]
  /\ heap = [h \in Heaps |-> {}] /\ misfreed = {}

-----------------------------------------------------------------------------
(* Vocabulary.                                                             *)

Top(t)  == Last(stack[t])
Push(t, f) == stack' = [stack EXCEPT ![t] = Append(@, f)]
Pop(t)     == stack' = [stack EXCEPT ![t] = Front(@)]
SetTop(t, f) == stack' = [stack EXCEPT ![t][Len(stack[t])] = f]

\* Client code runs at the bottom of the stack and in callbacks from a method.
InClient(t) == dll = "up" /\ (stack[t] # <<>> => Top(t).op = "method")
InMethod(t) == stack[t] # <<>> /\ Top(t).op = "method"
InBody(t)   == stack[t] # <<>> /\ Top(t).op \in {"create", "method"}
InRelease(t, step) == stack[t] # <<>> /\ Top(t).op = "release" /\ Top(t).step = step

Calls(t, o) == {k \in DOMAIN stack[t] : stack[t][k].op = "method" /\ stack[t][k].obj = o}

\* References of a thread that no call of its own depends on.
Spare(t, o) == held[t][o] - Cardinality(Calls(t, o))

Alloc(h, b) == heap' = [heap EXCEPT ![h] = @ \cup {b}] /\ UNCHANGED misfreed
Free(h, b) ==
  /\ heap' = [heap EXCEPT ![h] = @ \ {b}]
  /\ misfreed' = IF b \in heap[h] THEN misfreed ELSE misfreed \cup {b}

-----------------------------------------------------------------------------
(* dxcmem.cpp, and the attach and detach of the library.                   *)

ThreadQuiet == \A t \in Threads : stack[t] = <<>>

\* DxcInitThreadMalloc: takes over the default malloc of an earlier call, or
\* asks for one; allocating the TLS object may fail.
InitThreadMalloc ==
  /\ dll = "down" /\ attempts < MaxInits /\ attempts' = attempts + 1
  /\ \E d \in Defaults :
       /\ IF defaultMalloc # None THEN d = defaultMalloc ELSE mref[d] = 0 /\ inits[d] = 0
       /\ \/ /\ mref' = [mref EXCEPT ![d] = @ + 1]
             /\ inits' = [inits EXCEPT ![d] = @ + 1]
             /\ defaultMalloc' = d /\ tlsReady' = TRUE
             /\ dll' = "attach.default"
          \/ /\ defaultMalloc' = None
             /\ UNCHANGED <<mref, inits, tlsReady, dll>>
  /\ UNCHANGED <<tls, owned, obj, held, stack, heapVars>>

SetThreadMallocToDefaultMut ==                                \* mutant
  /\ \/ dll = "attach.default" /\ dll' = "attach.setup"
     \/ dll = "detach.default" /\ dll' = "detach.free"
  /\ tls' = [tls EXCEPT ![Loader] = defaultMalloc]
  /\ UNCHANGED <<defaultMalloc, tlsReady, attempts, inits, mref, owned, obj, held, stack, heapVars>>
\* DxcSetThreadMallocToDefault, at the start of attach and of detach.
SetThreadMallocToDefault ==
  /\ \/ dll = "attach.default" /\ dll' = "attach.setup"
     \/ dll = "detach.default" /\ dll' = "detach.free"
  /\ tls' = [tls EXCEPT ![Loader] = defaultMalloc]
  /\ mref' = [mref EXCEPT ![defaultMalloc] = @ + 1]
  /\ UNCHANGED <<defaultMalloc, tlsReady, attempts, inits, owned, obj, held, stack, heapVars>>

\* The rest of InitMaybeFail allocates the option table and the file system
\* with operator new; when a part of it fails, the others are cleaned up.
SetupGlobals ==
  /\ dll = "attach.setup"
  /\ \/ dll' = "attach.clear" /\ Alloc(HeapOf(tls[Loader]), <<"globals", None>>)
     \/ dll' = "attach.undo" /\ UNCHANGED heapVars
  /\ UNCHANGED <<defaultMalloc, tlsReady, attempts, inits, tls, mref, owned, obj, held, stack>>

\* DllShutdown, once the client has let go of everything.
Detach ==
  /\ dll = "up" /\ ThreadQuiet /\ \A o \in Objects : obj[o].state = "free"
  /\ dll' = "detach.default"
  /\ UNCHANGED <<defaultMalloc, tlsReady, attempts, inits, tls, mref, owned, obj, held, stack, heapVars>>

FreeGlobals ==
  /\ dll = "detach.free" /\ dll' = "detach.clear"
  /\ Free(HeapOf(tls[Loader]), <<"globals", None>>)
  /\ UNCHANGED <<defaultMalloc, tlsReady, attempts, inits, tls, mref, owned, obj, held, stack>>

\* DxcClearThreadMalloc.
ClearThreadMalloc ==
  /\ \/ dll = "attach.clear" /\ dll' = "up"
     \/ dll \in {"attach.undo", "detach.clear"} /\ dll' = "cleanup"
  /\ tls' = [tls EXCEPT ![Loader] = None]
  /\ mref' = [mref EXCEPT ![tls[Loader]] = @ - 1]
  /\ UNCHANGED <<defaultMalloc, tlsReady, attempts, inits, owned, obj, held, stack, heapVars>>

\* DxcCleanupThreadMalloc: the default malloc stays.
CleanupThreadMalloc ==
  /\ dll = "cleanup" /\ dll' = "down" /\ tlsReady' = FALSE
  /\ UNCHANGED <<defaultMalloc, attempts, inits, tls, mref, owned, obj, held, stack, heapVars>>

-----------------------------------------------------------------------------
(* Calls into the library.                                                 *)

\* DxcCreateInstance and DxcCreateInstance2 open a scope on the default malloc
\* or on the client's.
CreateInstance(t) ==
  /\ InClient(t) /\ Len(stack[t]) < MaxScopes
  /\ \E m \in owned \cup {defaultMalloc} :
       /\ Push(t, Frame("create", None, m, tls[t], TRUE, "body"))
       /\ tls' = [tls EXCEPT ![t] = m]
  /\ UNCHANGED <<libVars, mref, owned, obj, held, heapVars>>

CallMut(t) ==                                                 \* mutant
  /\ InClient(t) /\ Len(stack[t]) < MaxScopes
  /\ \E o \in Objects :
       /\ Spare(t, o) > 0 /\ ~obj[o].stream
       /\ \A u \in Threads \ {t} : Calls(u, o) = {}
       /\ Push(t, Frame("method", o, tls[t], tls[t], TRUE, "body"))
  /\ UNCHANGED <<libVars, tls, mref, owned, obj, held, heapVars>>
\* A method of an object opens a scope on m_pMalloc.
Call(t) ==
  /\ InClient(t) /\ Len(stack[t]) < MaxScopes
  /\ \E o \in Objects :
       /\ Spare(t, o) > 0 /\ ~obj[o].stream
       /\ \A u \in Threads \ {t} : Calls(u, o) = {}
       /\ Push(t, Frame("method", o, obj[o].malloc, tls[t], TRUE, "body"))
       /\ tls' = [tls EXCEPT ![t] = obj[o].malloc]
  /\ UNCHANGED <<libVars, mref, owned, obj, held, heapVars>>

\* The call returns: the scope's destructor restores the prior malloc.
Return(t) ==
  /\ InBody(t)
  /\ tls' = [tls EXCEPT ![t] = Top(t).prior]
  /\ Pop(t)
  /\ UNCHANGED <<libVars, mref, owned, obj, held, heapVars>>

NewRefsMut(m, c) == <<mref, IF c = None THEN obj ELSE [obj EXCEPT ![c].dwRef = @ + 1]>>  \* mutant
\* The references a new object takes: on its malloc and on its source.
NewRefs(m, c) == <<[mref EXCEPT ![m] = @ + 1],
                   IF c = None THEN obj ELSE [obj EXCEPT ![c].dwRef = @ + 1]>>

\* The body creates an object on the malloc of the thread and returns it; a
\* reader stream or a result holds on to another object.
NewObject(t) ==
  /\ InBody(t)
  /\ \E n \in Objects, stream \in BOOLEAN, c \in Objects \cup {None} :
       /\ obj[n].state = "free"
       /\ c # None => c # n /\ held[t][c] > 0 /\ obj[c].dwRef < MaxRefs
       /\ LET refs == NewRefs(tls[t], c)
          IN  /\ mref' = refs[1]
              /\ obj' = [refs[2] EXCEPT ![n] =
                           [state |-> "live", stream |-> stream, malloc |-> tls[t],
                            dwRef |-> 1, buffer |-> FALSE, member |-> c]]
       /\ held' = [held EXCEPT ![t][n] = @ + 1]
       /\ Alloc(HeapOf(tls[t]), <<"object", n>>)
  /\ UNCHANGED <<libVars, tls, owned, stack>>

\* A method grows a container of its object with operator new (DxcNew).
GrowBuffer(t) ==
  LET o == Top(t).obj
  IN  /\ InMethod(t) /\ ~obj[o].buffer
      /\ obj' = [obj EXCEPT ![o].buffer = TRUE]
      /\ Alloc(HeapOf(tls[t]), <<"buffer", o>>)
      /\ UNCHANGED <<libVars, tls, mref, owned, held, stack>>

\* A method keeps an object it was given (a library's blob, an events handler).
StoreMember(t) ==
  LET o == Top(t).obj
  IN  /\ InMethod(t) /\ obj[o].member = None
      /\ \E c \in Objects \ {o} :
           /\ held[t][c] > 0 /\ obj[c].dwRef < MaxRefs
           /\ obj' = [obj EXCEPT ![o].member = c, ![c].dwRef = @ + 1]
      /\ UNCHANGED <<libVars, tls, mref, owned, held, stack, heapVars>>

\* A stream writes without a scope, to memory of its m_pMalloc.
StreamWrite(t) ==
  /\ InClient(t)
  /\ \E o \in Objects :
       /\ held[t][o] > 0 /\ obj[o].stream /\ ~obj[o].buffer
       /\ obj' = [obj EXCEPT ![o].buffer = TRUE]
       /\ Alloc(HeapOf(obj[o].malloc), <<"buffer", o>>)
  /\ UNCHANGED <<libVars, tls, mref, owned, held, stack>>

-----------------------------------------------------------------------------
(* References.                                                             *)

ClientAddRef(t) ==
  /\ InClient(t)
  /\ \E o \in Objects :
       /\ held[t][o] > 0 /\ obj[o].dwRef < MaxRefs
       /\ obj' = [obj EXCEPT ![o].dwRef = @ + 1]
       /\ held' = [held EXCEPT ![t][o] = @ + 1]
  /\ UNCHANGED <<libVars, tls, mref, owned, stack, heapVars>>

\* The client passes a reference to another thread.
HandOver(t) ==
  /\ InClient(t)
  /\ \E o \in Objects, u \in Threads \ {t} :
       /\ Spare(t, o) > 0
       /\ held' = [held EXCEPT ![t][o] = @ - 1, ![u][o] = @ + 1]
  /\ UNCHANGED <<libVars, tls, mref, owned, obj, stack, heapVars>>

\* The client lets go of a malloc it is not just creating an object on.
ClientReleaseMalloc ==
  \E m \in owned :
    /\ \A t \in Threads : \A k \in DOMAIN stack[t] :
         stack[t][k].op # "create" \/ stack[t][k].malloc # m
    /\ owned' = owned \ {m}
    /\ mref' = [mref EXCEPT ![m] = @ - 1]
    /\ UNCHANGED <<libVars, tls, obj, held, stack, heapVars>>

ReleaseMut(t, c, objects) ==                                  \* mutant
  /\ obj' = [objects EXCEPT ![c].dwRef = @ - 1]
  /\ IF objects[c].dwRef = 0
     THEN Push(t, Frame("release", c, None, None, FALSE, "enter"))
     ELSE UNCHANGED stack
\* Release: the atomic decrement, whose result alone decides who destroys.
Release(t, c, objects) ==
  /\ obj' = [objects EXCEPT ![c].dwRef = @ - 1]
  /\ IF objects[c].dwRef = 1
     THEN Push(t, Frame("release", c, None, None, FALSE, "enter"))
     ELSE UNCHANGED stack

ClientRelease(t) ==
  /\ InClient(t)
  /\ \E o \in Objects :
       /\ Spare(t, o) > 0
       /\ held' = [held EXCEPT ![t][o] = @ - 1]
       /\ Release(t, o, obj)
  /\ UNCHANGED <<libVars, tls, mref, owned, heapVars>>

\* pTmp(m_pMalloc), and the scope M(pTmp) except for streams.
EnterDestroyMut(t) ==                                         \* mutant
  LET o == Top(t).obj
      m == obj[o].malloc
  IN  /\ InRelease(t, "enter")
      /\ IF obj[o].stream
         THEN /\ SetTop(t, Frame("release", o, m, None, FALSE, "members"))
              /\ UNCHANGED tls
         ELSE /\ SetTop(t, Frame("release", o, m, tls[t], TRUE, "members"))
              /\ tls' = [tls EXCEPT ![t] = m]
      /\ UNCHANGED <<libVars, mref, owned, obj, held, heapVars>>
EnterDestroy(t) ==
  LET o == Top(t).obj
      m == obj[o].malloc
  IN  /\ InRelease(t, "enter")
      /\ mref' = [mref EXCEPT ![m] = @ + 1]
      /\ IF obj[o].stream
         THEN /\ SetTop(t, Frame("release", o, m, None, FALSE, "members"))
              /\ UNCHANGED tls
         ELSE /\ SetTop(t, Frame("release", o, m, tls[t], TRUE, "members"))
              /\ tls' = [tls EXCEPT ![t] = m]
      /\ UNCHANGED <<libVars, owned, obj, held, heapVars>>

\* A method, or the destructor, frees what a container of the object owns:
\* with operator delete (DxcDelete), or on m_pMalloc for a stream.
FreeBuffer(t) ==
  LET o == Top(t).obj
  IN  /\ InMethod(t) \/ InRelease(t, "members")
      /\ obj[o].buffer
      /\ obj' = [obj EXCEPT ![o].buffer = FALSE]
      /\ Free(HeapOf(IF obj[o].stream THEN obj[o].malloc ELSE tls[t]), <<"buffer", o>>)
      /\ UNCHANGED <<libVars, tls, mref, owned, held, stack>>

\* A method, or the destructor, releases a member, which may destroy it.
ReleaseMember(t) ==
  LET o == Top(t).obj
      c == obj[o].member
  IN  /\ InMethod(t) \/ InRelease(t, "members")
      /\ c # None
      /\ Release(t, c, [obj EXCEPT ![o].member = None])
      /\ UNCHANGED <<libVars, tls, mref, owned, held, heapVars>>

\* The last member to be destroyed is m_pMalloc.
ReleaseOwnMalloc(t) ==
  LET f == Top(t)
  IN  /\ InRelease(t, "members")
      /\ ~obj[f.obj].buffer /\ obj[f.obj].member = None
      /\ mref' = [mref EXCEPT ![obj[f.obj].malloc] = @ - 1]
      /\ obj' = [obj EXCEPT ![f.obj].state = "destroyed", ![f.obj].malloc = None]
      /\ SetTop(t, [f EXCEPT !.step = "free"])
      /\ UNCHANGED <<libVars, tls, owned, held, heapVars>>

\* pTmp->Free(this).
FreeThis(t) ==
  LET f == Top(t)
  IN  /\ InRelease(t, "free")
      /\ Free(HeapOf(f.malloc), <<"object", f.obj>>)
      /\ obj' = [obj EXCEPT ![f.obj] = NoObject]
      /\ SetTop(t, [f EXCEPT !.obj = None, !.step = IF f.scoped THEN "restore" ELSE "drop"])
      /\ UNCHANGED <<libVars, tls, mref, owned, held>>

RestoreTlsMut(t) ==                                           \* mutant
  /\ InRelease(t, "restore")
  /\ SetTop(t, [Top(t) EXCEPT !.scoped = FALSE, !.step = "drop"])
  /\ UNCHANGED <<libVars, tls, mref, owned, obj, held, heapVars>>
\* The locals of Release go in reverse order: the scope M first, ...
RestoreTls(t) ==
  /\ InRelease(t, "restore")
  /\ tls' = [tls EXCEPT ![t] = Top(t).prior]
  /\ SetTop(t, [Top(t) EXCEPT !.scoped = FALSE, !.step = "drop"])
  /\ UNCHANGED <<libVars, mref, owned, obj, held, heapVars>>

\* ... then pTmp, perhaps the last reference to the malloc.
DropTmp(t) ==
  /\ InRelease(t, "drop")
  /\ mref' = [mref EXCEPT ![Top(t).malloc] = @ - 1]
  /\ Pop(t)
  /\ UNCHANGED <<libVars, tls, owned, obj, held, heapVars>>

-----------------------------------------------------------------------------
Library ==
  \/ InitThreadMalloc \/ SetThreadMallocToDefault \/ SetupGlobals
  \/ ClearThreadMalloc \/ CleanupThreadMalloc \/ Detach \/ FreeGlobals

Client(t) ==
  \/ CreateInstance(t) \/ Call(t) \/ StreamWrite(t)
  \/ ClientAddRef(t) \/ HandOver(t) \/ ClientRelease(t)

Body(t) ==
  \/ NewObject(t) \/ GrowBuffer(t) \/ StoreMember(t) \/ Return(t)

\* Code that runs on its own once a Release has started; a method may also
\* empty its members, but need not.
Destroying(t) ==
  \/ EnterDestroy(t) \/ FreeBuffer(t) \/ ReleaseMember(t) \/ ReleaseOwnMalloc(t)
  \/ FreeThis(t) \/ RestoreTls(t) \/ DropTmp(t)

Next ==
  \/ Library \/ ClientReleaseMalloc
  \/ \E t \in Threads : Client(t) \/ Body(t) \/ Destroying(t)

\* A thread inside Release waits for nothing and is scheduled again.
Fairness ==
  \A t \in Threads :
    WF_vars(stack[t] # <<>> /\ Top(t).op = "release" /\ Destroying(t))

Spec == Init /\ [][Next]_vars /\ Fairness

-----------------------------------------------------------------------------
(* Correctness.                                                            *)

Frames(t) == {stack[t][k] : k \in DOMAIN stack[t]}

TypeOK ==
  /\ defaultMalloc \in Defaults \cup {None}
  /\ tlsReady \in BOOLEAN
  /\ attempts \in 0 .. MaxInits
  /\ inits \in [Defaults -> Nat]
  /\ tls \in [Threads -> AllMallocs \cup {None}]
  /\ mref \in [AllMallocs -> Nat]
  /\ owned \subseteq Mallocs
  /\ obj \in [Objects -> [state : {"free", "live", "destroyed"}, stream : BOOLEAN,
                          malloc : AllMallocs \cup {None}, dwRef : Nat,
                          buffer : BOOLEAN, member : Objects \cup {None}]]
  /\ held \in [Threads -> [Objects -> Nat]]
  /\ \A t \in Threads : Frames(t) \subseteq
       [op : {"create", "method", "release"}, obj : Objects \cup {None},
        malloc : AllMallocs \cup {None}, prior : AllMallocs \cup {None},
        scoped : BOOLEAN, step : {"body", "enter", "members", "free", "restore", "drop"}]
  /\ heap \in [Heaps -> SUBSET Blocks]
  /\ misfreed \subseteq Blocks

\* Every reference count is the number of references there are.  For an
\* object, those of the clients and of other objects; for a malloc, those of
\* the client, of m_pMalloc, of Releases in progress, of the loader's slot and
\* of the initialisations, which never give theirs back.
ClientRefs(o) == UNION {{t} \X (1 .. held[t][o]) : t \in Threads}
MemberRefs(o) == {p \in Objects : obj[p].member = o}
OwnedBy(m)    == {o \in Objects : obj[o].malloc = m}
Pending(t, m) == {k \in DOMAIN stack[t] :
                   /\ stack[t][k].op = "release" /\ stack[t][k].step # "enter"
                   /\ stack[t][k].malloc = m}
Releases(m)   == UNION {{t} \X Pending(t, m) : t \in Threads}
LoaderHolds(m) == dll \in {"attach.setup", "attach.undo", "attach.clear",
                           "detach.free", "detach.clear"} /\ m = defaultMalloc

RefsExact ==
  /\ TypeOK
  /\ \A o \in Objects :
       obj[o].dwRef = Cardinality(ClientRefs(o)) + Cardinality(MemberRefs(o))
  /\ \A m \in AllMallocs :
       mref[m] = Cardinality(OwnedBy(m)) + Cardinality(Releases(m))
                   + (IF m \in owned THEN 1 ELSE 0)
                   + (IF LoaderHolds(m) THEN 1 ELSE 0)
                   + (IF m \in Defaults THEN inits[m] ELSE 0)

\* Raw pointers stay good: whatever IMalloc a thread would allocate with, now
\* or when it returns from a call, is alive; so is every object that a call or
\* a member refers to; and a malloc does not go while it has blocks out.
InUseAlive ==
  /\ \A t \in Threads :
       /\ tls[t] # None => mref[tls[t]] > 0
       /\ \A f \in Frames(t) :
            /\ f.scoped => /\ f.prior # None => mref[f.prior] > 0
                           /\ mref[f.malloc] > 0
            /\ f.op = "method" => obj[f.obj].state = "live" /\ obj[f.obj].dwRef > 0
            /\ f.step \in {"enter", "members"} => obj[f.obj].state = "live"
  /\ \A o \in Objects : obj[o].member # None => obj[obj[o].member].state = "live"
  /\ \A m \in Mallocs : heap[m] # {} => mref[m] > 0

\* Memory is freed by the malloc that allocated it, whichever malloc the
\* thread was using when the last reference went; nothing is freed twice or
\* left behind.
FreedWhereAllocated ==
  /\ misfreed = {}
  /\ \A o \in Objects, h \in Heaps :
       /\ <<"object", o>> \in heap[h] => obj[o].state # "free"
       /\ <<"buffer", o>> \in heap[h] => obj[o].buffer
  /\ dll = "down" => heap["process"] = {}

\* The scopes of a thread nest: each saves the malloc of the one below, and
\* the slot holds the malloc of the innermost one, nothing when there is none
\* (but what attach and detach put there).
Outside(t) ==
  IF t = Loader /\ LoaderHolds(defaultMalloc) THEN defaultMalloc ELSE None

\* m is what the open scopes of t below position k have put into the slot.
IsInnermost(t, k, m) ==
  LET open == {j \in 1 .. k - 1 : stack[t][j].scoped}
  IN  \/ open = {} /\ m = Outside(t)
      \/ \E j \in open : m = stack[t][j].malloc /\ \A l \in open : l <= j

ScopesNest ==
  \A t \in Threads :
    /\ IsInnermost(t, Len(stack[t]) + 1, tls[t])
    /\ \A k \in DOMAIN stack[t] :
         stack[t][k].scoped => IsInnermost(t, k, stack[t][k].prior)

\* An object without references is destroyed and its memory is given back.
Drained ==
  \A o \in Objects :
    obj[o].state = "live" /\ obj[o].dwRef = 0 ~> obj[o].state = "free"

\* While the library is attached, the default malloc is there to be used.
DefaultUsable ==
  (dll # "down" => tlsReady /\ defaultMalloc # None)
    /\ (defaultMalloc # None => mref[defaultMalloc] > 0)
=============================================================================
