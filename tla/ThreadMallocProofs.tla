------------------------- MODULE ThreadMallocProofs -------------------------
(***************************************************************************)
(* Theorems about ThreadMalloc, for any finite number of threads and       *)
(* objects, any mallocs, and any bounds.                                   *)
(***************************************************************************)
EXTENDS ThreadMalloc, FiniteSetTheorems, TLAPS

FrameType ==
  [op : {"create", "method", "release"}, obj : Objects \cup {None},
   malloc : AllMallocs \cup {None}, prior : AllMallocs \cup {None},
   scoped : BOOLEAN, step : {"body", "enter", "members", "free", "restore", "drop"}]

TypesOK ==
  /\ TypeOK
  /\ stack \in [Threads -> Seq(FrameType)]
  /\ dll \in {"down", "attach.default", "attach.setup", "attach.undo", "attach.clear", "up",
              "detach.default", "detach.free", "detach.clear", "cleanup"}

\* What a call in progress knows of its malloc and of its object.
Dying == {"enter", "members", "free"}

FrameOK(f) ==
  /\ f.op = "create" => /\ f.step = "body" /\ f.scoped /\ f.malloc \in AllMallocs
                        /\ f.malloc \in owned \cup {defaultMalloc}
  /\ f.op = "method" => /\ f.step = "body" /\ f.scoped /\ f.obj \in Objects
                        /\ obj[f.obj].state = "live" /\ ~obj[f.obj].stream
                        /\ f.malloc = obj[f.obj].malloc
  /\ f.op = "release" <=> f.step # "body"
  /\ f.step \in Dying => f.obj \in Objects /\ obj[f.obj].dwRef = 0
  /\ f.step = "enter" => ~f.scoped /\ obj[f.obj].state = "live"
  /\ f.step = "members" => /\ obj[f.obj].state = "live" /\ f.malloc = obj[f.obj].malloc
                           /\ f.scoped = ~obj[f.obj].stream
  /\ f.step = "free" => obj[f.obj].state = "destroyed"
  /\ f.step = "restore" => f.scoped
  /\ f.step = "drop" => ~f.scoped
  /\ f.step \notin {"body", "enter"} => f.malloc \in AllMallocs

FramesOK == \A t \in Threads : \A k \in DOMAIN stack[t] : FrameOK(stack[t][k])

\* An object is destroyed by one Release only, and none is left half destroyed.
OneDestroyer ==
  \A t, u \in Threads : \A j \in DOMAIN stack[t], k \in DOMAIN stack[u] :
    stack[t][j].step \in Dying /\ stack[u][k].step \in Dying /\ stack[t][j].obj = stack[u][k].obj
      => t = u /\ j = k

Buried ==
  \A o \in Objects : obj[o].state = "destroyed" =>
    \E t \in Threads : \E k \in DOMAIN stack[t] :
      stack[t][k].step = "free" /\ stack[t][k].obj = o

ObjectOK(x) ==
  /\ x.state = "live" => x.malloc \in AllMallocs
  /\ x.state # "live" => /\ x.malloc = None /\ x.member = None
                         /\ ~x.buffer /\ x.dwRef = 0

ObjectsOK == \A o \in Objects : ObjectOK(obj[o])

\* The references that RefsExact counts.
ObjectCounts ==
  \A o \in Objects :
    obj[o].dwRef = Cardinality(ClientRefs(o)) + Cardinality(MemberRefs(o))
MallocCounts ==
  \A m \in AllMallocs :
    mref[m] = Cardinality(OwnedBy(m)) + Cardinality(Releases(m))
                + (IF m \in owned THEN 1 ELSE 0)
                + (IF LoaderHolds(m) THEN 1 ELSE 0)
                + (IF m \in Defaults THEN inits[m] ELSE 0)

\* The client keeps a reference for each method that it runs.
CallsHeld ==
  \A t \in Threads, o \in Objects : Cardinality(Calls(t, o)) <= held[t][o]

\* Nothing runs, and nothing is left, unless the library is attached.
Quiet ==
  dll # "up" => /\ \A t \in Threads : stack[t] = <<>>
                /\ \A o \in Objects : obj[o].state = "free"

LibraryOK ==
  /\ dll # "down" => tlsReady /\ defaultMalloc # None
  /\ defaultMalloc # None => inits[defaultMalloc] > 0

\* Where every block is.
HeapsOK ==
  /\ misfreed = {}
  /\ \A h \in Heaps : <<"globals", None>> \in heap[h] <=>
       h = "process" /\ dll \in {"attach.clear", "up", "detach.default", "detach.free"}
  /\ \A o \in Objects, h \in Heaps :
       <<"buffer", o>> \in heap[h] <=> obj[o].buffer /\ h = HeapOf(obj[o].malloc)
  /\ \A o \in Objects, h \in Heaps :
       /\ obj[o].state = "free" => <<"object", o>> \notin heap[h]
       /\ obj[o].state = "live" =>
            (<<"object", o>> \in heap[h] <=> h = HeapOf(obj[o].malloc))
  /\ \A t \in Threads : \A k \in DOMAIN stack[t] : stack[t][k].step = "free" =>
       \A h \in Heaps : <<"object", stack[t][k].obj>> \in heap[h] <=>
                          h = HeapOf(stack[t][k].malloc)

IInv ==
  /\ TypesOK /\ FramesOK /\ OneDestroyer /\ Buried /\ ObjectsOK
  /\ ObjectCounts /\ MallocCounts /\ CallsHeld /\ Quiet /\ LibraryOK
  /\ HeapsOK /\ ScopesNest

-----------------------------------------------------------------------------
(* Counting.                                                               *)

LEMMA CountAdd ==
  ASSUME NEW S, IsFiniteSet(S), NEW x, x \notin S, NEW T, T = S \cup {x}
  PROVE  Cardinality(T) = Cardinality(S) + 1 /\ Cardinality(S) \in Nat
BY FS_AddElement, FS_CardinalityType

LEMMA CountRemove ==
  ASSUME NEW S, IsFiniteSet(S), NEW x \in S, NEW T, T = S \ {x}
  PROVE  Cardinality(S) = Cardinality(T) + 1 /\ Cardinality(T) \in Nat
<1>1. IsFiniteSet(T) /\ Cardinality(T) = Cardinality(S) - 1
  BY FS_RemoveElement
<1>2. Cardinality(S) \in Nat /\ Cardinality(T) \in Nat
  BY <1>1, FS_CardinalityType
<1> QED BY <1>1, <1>2

\* A set with an element counts.
LEMMA CountSome ==
  ASSUME NEW S, IsFiniteSet(S), NEW x \in S
  PROVE  Cardinality(S) \in Nat /\ Cardinality(S) > 0
BY FS_EmptySet, FS_CardinalityType

LEMMA FinitePairs ==
  ASSUME NEW K, \A t \in Threads : IsFiniteSet(K[t])
  PROVE  IsFiniteSet(UNION {{t} \X K[t] : t \in Threads})
<1> DEFINE S == {{t} \X K[t] : t \in Threads}
           f == [t \in Threads |-> {t} \X K[t]]
<1>1. IsFiniteSet(S)
  <2>1. f \in Surjection(Threads, S)
    BY DEF Surjection
  <2> HIDE DEF f, S
  <2> QED BY <2>1, FS_Surjection, ThreadMallocAssumption
<1>2. ASSUME NEW t \in Threads
      PROVE  IsFiniteSet({t} \X K[t])
  <2> DEFINE g == [k \in K[t] |-> <<t, k>>]
             T == {t} \X K[t]
  <2>1. g \in Surjection(K[t], T)
    BY DEF Surjection
  <2>2. IsFiniteSet(K[t])
    OBVIOUS
  <2> HIDE DEF g, T
  <2>3. IsFiniteSet(T)
    BY <2>1, <2>2, FS_Surjection
  <2> QED BY <2>3 DEF T
<1>3. \A T \in S : IsFiniteSet(T)
  BY <1>2
<1> HIDE DEF S
<1>4. IsFiniteSet(UNION S)
  BY <1>1, <1>3, FS_UNION
<1> QED BY <1>4 DEF S

LEMMA Finite ==
  ASSUME TypesOK
  PROVE  /\ \A o \in Objects : IsFiniteSet(ClientRefs(o)) /\ IsFiniteSet(MemberRefs(o))
         /\ \A m : IsFiniteSet(OwnedBy(m)) /\ IsFiniteSet(Releases(m))
         /\ \A t \in Threads : \A o : IsFiniteSet(Calls(t, o))
<1>1. ASSUME NEW t \in Threads
      PROVE  IsFiniteSet(DOMAIN stack[t])
  <2>1. DOMAIN stack[t] = 1 .. Len(stack[t]) /\ Len(stack[t]) \in Nat
    BY DEF TypesOK
  <2>2. IsFiniteSet(1 .. Len(stack[t]))
    BY <2>1, FS_Interval
  <2> QED BY <2>1, <2>2
<1>2. ASSUME NEW o \in Objects
      PROVE  IsFiniteSet(ClientRefs(o)) /\ IsFiniteSet(MemberRefs(o))
  <2> DEFINE K == [t \in Threads |-> 1 .. held[t][o]]
  <2>1. \A t \in Threads : IsFiniteSet(K[t])
    BY FS_Interval DEF TypesOK, TypeOK
  <2>2. ClientRefs(o) = UNION {{t} \X K[t] : t \in Threads}
    BY DEF ClientRefs
  <2> HIDE DEF K
  <2>3. IsFiniteSet(ClientRefs(o))
    BY <2>1, <2>2, FinitePairs
  <2>4. IsFiniteSet(MemberRefs(o))
    BY FS_Subset, ThreadMallocAssumption DEF MemberRefs
  <2> QED BY <2>3, <2>4
<1>3. ASSUME NEW m
      PROVE  IsFiniteSet(OwnedBy(m)) /\ IsFiniteSet(Releases(m))
  <2> DEFINE K == [t \in Threads |-> Pending(t, m)]
  <2>1. \A t \in Threads : IsFiniteSet(K[t])
    BY <1>1, FS_Subset DEF Pending
  <2>2. Releases(m) = UNION {{t} \X K[t] : t \in Threads}
    BY DEF Releases
  <2> HIDE DEF K
  <2>3. IsFiniteSet(Releases(m))
    BY <2>1, <2>2, FinitePairs
  <2>4. IsFiniteSet(OwnedBy(m))
    BY FS_Subset, ThreadMallocAssumption DEF OwnedBy
  <2> QED BY <2>3, <2>4
<1>4. \A t \in Threads : \A o : IsFiniteSet(Calls(t, o))
  BY <1>1, FS_Subset DEF Calls
<1> QED BY <1>2, <1>3, <1>4

\* The members of the two sets of pairs.
LEMMA PairsOf ==
  /\ \A o \in Objects : \A x : x \in ClientRefs(o) <=>
       \E t \in Threads : \E n \in 1 .. held[t][o] : x = <<t, n>>
  /\ \A o \in Objects : \A x : x \in ClientRefs(o)' <=>
       \E t \in Threads : \E n \in 1 .. held'[t][o] : x = <<t, n>>
  /\ \A m : \A x : x \in Releases(m) <=>
       \E t \in Threads : \E k \in DOMAIN stack[t] :
         /\ stack[t][k].op = "release" /\ stack[t][k].step # "enter"
         /\ stack[t][k].malloc = m /\ x = <<t, k>>
<1>1. ASSUME NEW o \in Objects, NEW x
      PROVE  x \in ClientRefs(o) <=>
               \E t \in Threads : \E n \in 1 .. held[t][o] : x = <<t, n>>
  BY DEF ClientRefs
<1>2. ASSUME NEW m, NEW x
      PROVE  x \in Releases(m) <=>
               \E t \in Threads : \E k \in DOMAIN stack[t] :
                 /\ stack[t][k].op = "release" /\ stack[t][k].step # "enter"
                 /\ stack[t][k].malloc = m /\ x = <<t, k>>
  BY DEF Releases, Pending
<1>3. ASSUME NEW o \in Objects, NEW x
      PROVE  x \in ClientRefs(o)' <=>
               \E t \in Threads : \E n \in 1 .. held'[t][o] : x = <<t, n>>
  BY DEF ClientRefs
<1> QED BY <1>1, <1>2, <1>3

\* Who has a reference keeps its object or malloc alive.
LEMMA ObjectAlive ==
  ASSUME TypesOK, ObjectsOK, ObjectCounts, NEW o \in Objects,
         (\E t \in Threads : held[t][o] > 0) \/ (\E p \in Objects : obj[p].member = o)
  PROVE  obj[o].dwRef > 0 /\ obj[o].state = "live"
<1>1. ClientRefs(o) # {} \/ MemberRefs(o) # {}
  <2>1. ASSUME NEW t \in Threads, held[t][o] > 0
        PROVE  ClientRefs(o) # {}
    <3>1. 1 \in 1 .. held[t][o]
      BY <2>1 DEF TypesOK, TypeOK
    <3>2. <<t, 1>> \in ClientRefs(o)
      BY <3>1 DEF ClientRefs
    <3> QED BY <3>2
  <2> QED BY <2>1 DEF MemberRefs
<1>2. /\ Cardinality(ClientRefs(o)) \in Nat /\ Cardinality(MemberRefs(o)) \in Nat
      /\ Cardinality(ClientRefs(o)) > 0 \/ Cardinality(MemberRefs(o)) > 0
  BY <1>1, Finite, FS_EmptySet, FS_CardinalityType
<1>3. obj[o].dwRef > 0
  BY <1>2 DEF ObjectCounts
<1>4. obj[o].state = "live"
  BY <1>3 DEF ObjectsOK, ObjectOK
<1> QED BY <1>3, <1>4

LEMMA MallocAlive ==
  ASSUME TypesOK, LibraryOK, MallocCounts, NEW m \in AllMallocs,
         \/ m \in owned \/ m = defaultMalloc
         \/ \E o \in Objects : obj[o].malloc = m
         \/ \E t \in Threads : \E k \in DOMAIN stack[t] :
              /\ stack[t][k].op = "release" /\ stack[t][k].step # "enter"
              /\ stack[t][k].malloc = m
  PROVE  mref[m] > 0
<1>1. /\ Cardinality(OwnedBy(m)) \in Nat /\ Cardinality(Releases(m)) \in Nat
      /\ OwnedBy(m) # {} => Cardinality(OwnedBy(m)) > 0
      /\ Releases(m) # {} => Cardinality(Releases(m)) > 0
  BY Finite, FS_EmptySet, FS_CardinalityType
<1>2. m \in owned \/ m = defaultMalloc \/ OwnedBy(m) # {} \/ Releases(m) # {}
  BY PairsOf DEF OwnedBy
<1>3. m \in Defaults => inits[m] \in Nat
  BY DEF TypesOK, TypeOK
<1>4. m = defaultMalloc => m \in Defaults /\ inits[m] > 0
  BY ThreadMallocAssumption DEF TypesOK, TypeOK, LibraryOK, AllMallocs
<1> QED BY <1>1, <1>2, <1>3, <1>4 DEF MallocCounts

\* A method runs on an object that is alive.
LEMMA MethodAlive ==
  ASSUME TypesOK, ObjectsOK, ObjectCounts, CallsHeld,
         NEW t \in Threads, NEW k \in DOMAIN stack[t], stack[t][k].op = "method",
         stack[t][k].obj \in Objects
  PROVE  obj[stack[t][k].obj].dwRef > 0 /\ held[t][stack[t][k].obj] > 0
<1> DEFINE o == stack[t][k].obj
<1>1. k \in Calls(t, o)
  BY DEF Calls
<1>2. Cardinality(Calls(t, o)) > 0 /\ Cardinality(Calls(t, o)) \in Nat
  BY <1>1, Finite, CountSome
<1>3. held[t][o] \in Nat
  BY DEF TypesOK, TypeOK
<1>4. held[t][o] > 0
  BY <1>2, <1>3 DEF CallsHeld
<1> QED BY <1>4, ObjectAlive

-----------------------------------------------------------------------------
(* What a step changes, and how the counts follow.                         *)

Tick(b) == IF b THEN 1 ELSE 0

\* Two sets that differ at one element at most.
LEMMA CountChange ==
  ASSUME NEW S, NEW T, IsFiniteSet(S), NEW x, S \ {x} = T \ {x}
  PROVE  /\ Cardinality(T) = Cardinality(S) + Tick(x \in T) - Tick(x \in S)
         /\ Cardinality(S) \in Nat /\ Cardinality(T) \in Nat
         /\ IsFiniteSet(T)
<1>1. CASE x \in T /\ x \notin S
  <2>1. T = S \cup {x}
    BY <1>1
  <2>2. Cardinality(T) = Cardinality(S) + 1 /\ Cardinality(S) \in Nat /\ IsFiniteSet(T)
    BY <1>1, <2>1, CountAdd, FS_AddElement
  <2> QED BY <1>1, <2>2 DEF Tick
<1>2. CASE x \notin T /\ x \in S
  <2>1. T = S \ {x}
    BY <1>2
  <2>2. Cardinality(S) = Cardinality(T) + 1 /\ Cardinality(T) \in Nat /\ IsFiniteSet(T)
    BY <1>2, <2>1, CountRemove, FS_RemoveElement
  <2> QED BY <1>2, <2>2 DEF Tick
<1>3. CASE x \in T <=> x \in S
  <2>1. T = S
    BY <1>3
  <2>2. Cardinality(S) \in Nat
    BY FS_CardinalityType
  <2> QED BY <1>3, <2>1, <2>2 DEF Tick
<1> QED BY <1>1, <1>2, <1>3

\* References of the clients.
GainsRef(t, o) == held' = [held EXCEPT ![t][o] = @ + 1]

LEMMA HeldUp ==
  ASSUME TypesOK, NEW t \in Threads, NEW o \in Objects, GainsRef(t, o)
  PROVE  /\ held' \in [Threads -> [Objects -> Nat]]
         /\ \A u \in Threads, q \in Objects : held'[u][q] = held[u][q] + Tick(u = t /\ q = o)
         /\ \A q \in Objects : Cardinality(ClientRefs(q)') = Cardinality(ClientRefs(q)) + Tick(q = o)
<1>1. held \in [Threads -> [Objects -> Nat]]
  BY DEF TypesOK, TypeOK
<1>2. /\ held' \in [Threads -> [Objects -> Nat]]
      /\ \A u \in Threads, q \in Objects : held'[u][q] = held[u][q] + Tick(u = t /\ q = o)
  BY <1>1 DEF Tick, GainsRef
<1>3. ASSUME NEW q \in Objects
      PROVE  Cardinality(ClientRefs(q)') = Cardinality(ClientRefs(q)) + Tick(q = o)
  <2>1. CASE q # o
    <3>1. \A u \in Threads : held'[u][q] = held[u][q]
      BY <1>1, <1>2, <2>1 DEF Tick
    <3>2. ClientRefs(q)' = ClientRefs(q)
      BY <3>1 DEF ClientRefs
    <3>3. Cardinality(ClientRefs(q)) \in Nat
      BY Finite, FS_CardinalityType
    <3> QED BY <2>1, <3>2, <3>3 DEF Tick
  <2>2. CASE q = o
    <3> DEFINE x == <<t, held[t][o] + 1>>
    <3>1. ASSUME NEW u \in Threads, NEW n
          PROVE  (n \in 1 .. held'[u][o]) <=> (n \in 1 .. held[u][o]) \/ <<u, n>> = x
      <4>1. CASE u = t
        <5>1. held'[u][o] = held[u][o] + 1 /\ held[u][o] \in Nat
          BY <1>1, <1>2, <4>1 DEF Tick
        <5>2. <<u, n>> = x <=> n = held[u][o] + 1
          BY <4>1
        <5> HIDE DEF x
        <5> QED BY <5>1, <5>2
      <4>2. CASE u # t
        <5>1. held'[u][o] = held[u][o] /\ <<u, n>> # x
          BY <1>1, <1>2, <4>2 DEF Tick
        <5> QED BY <5>1
      <4> QED BY <4>1, <4>2
    <3>2. x \notin ClientRefs(o)
      BY <1>1 DEF ClientRefs
    <3>3. ClientRefs(o)' = ClientRefs(o) \cup {x}
      BY <3>1 DEF ClientRefs
    <3> HIDE DEF x
    <3>4. IsFiniteSet(ClientRefs(o))
      BY Finite
    <3> QED BY <2>2, <3>2, <3>3, <3>4, CountAdd DEF Tick
  <2> QED BY <2>1, <2>2
<1> QED BY <1>2, <1>3

LEMMA HeldDown ==
  ASSUME TypesOK, NEW t \in Threads, NEW o \in Objects, held[t][o] > 0,
         held' = [held EXCEPT ![t][o] = @ - 1]
  PROVE  /\ held' \in [Threads -> [Objects -> Nat]]
         /\ \A u \in Threads, q \in Objects : held'[u][q] = held[u][q] - Tick(u = t /\ q = o)
         /\ \A q \in Objects : Cardinality(ClientRefs(q)') = Cardinality(ClientRefs(q)) - Tick(q = o)
<1>1. held \in [Threads -> [Objects -> Nat]]
  BY DEF TypesOK, TypeOK
<1>2. /\ held' \in [Threads -> [Objects -> Nat]]
      /\ \A u \in Threads, q \in Objects : held'[u][q] = held[u][q] - Tick(u = t /\ q = o)
  BY <1>1 DEF Tick
<1>3. ASSUME NEW q \in Objects
      PROVE  Cardinality(ClientRefs(q)') = Cardinality(ClientRefs(q)) - Tick(q = o)
  <2>1. CASE q # o
    <3>1. \A u \in Threads : held'[u][q] = held[u][q]
      BY <1>1, <1>2, <2>1 DEF Tick
    <3>2. ClientRefs(q)' = ClientRefs(q)
      BY <3>1 DEF ClientRefs
    <3>3. Cardinality(ClientRefs(q)) \in Nat
      BY Finite, FS_CardinalityType
    <3> QED BY <2>1, <3>2, <3>3 DEF Tick
  <2>2. CASE q = o
    <3> DEFINE x == <<t, held[t][o]>>
    <3>1. ASSUME NEW u \in Threads, NEW n
          PROVE  (n \in 1 .. held'[u][o]) <=> (n \in 1 .. held[u][o]) /\ <<u, n>> # x
      BY <1>1, <1>2 DEF Tick
    <3>2. x \in ClientRefs(o)
      BY <1>1 DEF ClientRefs
    <3>3. ClientRefs(o)' = ClientRefs(o) \ {x}
      BY <3>1 DEF ClientRefs
    <3> HIDE DEF x
    <3>4. IsFiniteSet(ClientRefs(o))
      BY Finite
    <3> QED BY <2>2, <3>2, <3>3, <3>4, CountRemove DEF Tick
  <2> QED BY <2>1, <2>2
<1> QED BY <1>2, <1>3

LEMMA HeldOver ==
  ASSUME TypesOK, NEW t \in Threads, NEW u \in Threads \ {t}, NEW o \in Objects, held[t][o] > 0,
         held' = [held EXCEPT ![t][o] = @ - 1, ![u][o] = @ + 1]
  PROVE  /\ held' \in [Threads -> [Objects -> Nat]]
         /\ \A v \in Threads, q \in Objects : held'[v][q] >= held[v][q] - Tick(v = t /\ q = o)
         /\ \A q \in Objects : Cardinality(ClientRefs(q)') = Cardinality(ClientRefs(q))
<1>1. held \in [Threads -> [Objects -> Nat]]
  BY DEF TypesOK, TypeOK
<1>2. /\ held' \in [Threads -> [Objects -> Nat]]
      /\ \A v \in Threads, q \in Objects : held'[v][q] =
           held[v][q] - Tick(v = t /\ q = o) + Tick(v = u /\ q = o)
  <2>1. /\ held' \in [Threads -> [Objects -> Nat]]
        /\ held'[t] = [held[t] EXCEPT ![o] = held[t][o] - 1]
        /\ held'[u] = [held[u] EXCEPT ![o] = held[u][o] + 1]
        /\ \A v \in Threads : v # t /\ v # u => held'[v] = held[v]
    <3> DEFINE h == [held EXCEPT ![t][o] = @ - 1]
    <3>1. /\ h \in [Threads -> [Objects -> Int]]
          /\ h[t] = [held[t] EXCEPT ![o] = held[t][o] - 1]
          /\ \A v \in Threads \ {t} : h[v] = held[v]
      BY <1>1
    <3>2. h[t][o] \in Nat /\ h \in [Threads -> [Objects -> Nat]]
      BY <1>1, <3>1
    <3>3. held' = [h EXCEPT ![u][o] = @ + 1]
      OBVIOUS
    <3> HIDE DEF h
    <3>4. held' \in [Threads -> [Objects -> Nat]]
      <4>1. held' = [h EXCEPT ![u] = [h[u] EXCEPT ![o] = h[u][o] + 1]]
        BY <3>3
      <4>2. [h[u] EXCEPT ![o] = h[u][o] + 1] \in [Objects -> Nat]
        BY <3>2
      <4> QED BY <3>2, <4>1, <4>2
    <3>5. /\ held'[u] = [h[u] EXCEPT ![o] = h[u][o] + 1]
          /\ \A v \in Threads \ {u} : held'[v] = h[v]
      BY <3>2, <3>3
    <3> QED BY <3>1, <3>4, <3>5
  <2> SUFFICES ASSUME NEW v \in Threads, NEW q \in Objects
               PROVE  held'[v][q] = held[v][q] - Tick(v = t /\ q = o) + Tick(v = u /\ q = o)
    BY <2>1
  <2>2. held[v][q] \in Nat
    BY <1>1
  <2>3. CASE v = t
    <3>1. held'[v][q] = IF q = o THEN held[v][q] - 1 ELSE held[v][q]
      BY <1>1, <2>1, <2>3
    <3> QED BY <2>2, <2>3, <3>1 DEF Tick
  <2>4. CASE v = u
    <3>1. held'[v][q] = IF q = o THEN held[v][q] + 1 ELSE held[v][q]
      BY <1>1, <2>1, <2>4
    <3> QED BY <2>2, <2>4, <3>1 DEF Tick
  <2>5. CASE v # t /\ v # u
    BY <2>1, <2>2, <2>5 DEF Tick
  <2> QED BY <2>3, <2>4, <2>5
<1>3. ASSUME NEW q \in Objects
      PROVE  Cardinality(ClientRefs(q)') = Cardinality(ClientRefs(q))
  <2>1. CASE q # o
    <3>1. \A v \in Threads : held'[v][q] = held[v][q]
      BY <1>1, <1>2, <2>1 DEF Tick
    <3>2. ClientRefs(q)' = ClientRefs(q)
      BY <3>1 DEF ClientRefs
    <3> QED BY <3>2
  <2>2. CASE q = o
    <3> DEFINE x == <<t, held[t][o]>>  y == <<u, held[u][o] + 1>>
               S == ClientRefs(o) \ {x}
    <3>1. ASSUME NEW v \in Threads, NEW n
          PROVE  (n \in 1 .. held'[v][o]) <=>
                   ((n \in 1 .. held[v][o]) /\ <<v, n>> # x) \/ <<v, n>> = y
      <4>1. CASE v = t
        <5>1. held'[v][o] = held[v][o] - 1 /\ held[v][o] \in Nat
          BY <1>1, <1>2, <4>1 DEF Tick
        <5>2. <<v, n>> # y /\ (<<v, n>> # x <=> n # held[v][o])
          BY <4>1
        <5> HIDE DEF x, y
        <5> QED BY <5>1, <5>2
      <4>2. CASE v = u
        <5>1. held'[v][o] = held[v][o] + 1 /\ held[v][o] \in Nat
          BY <1>1, <1>2, <4>2 DEF Tick
        <5>2. <<v, n>> # x /\ (<<v, n>> = y <=> n = held[v][o] + 1)
          BY <4>2
        <5> HIDE DEF x, y
        <5> QED BY <5>1, <5>2
      <4>3. CASE v # t /\ v # u
        <5>1. held'[v][o] = held[v][o]
          BY <1>1, <1>2, <4>3 DEF Tick
        <5>2. <<v, n>> # x /\ <<v, n>> # y
          BY <4>3
        <5> QED BY <5>1, <5>2
      <4> QED BY <4>1, <4>2, <4>3
    <3>2. x \in ClientRefs(o) /\ y \notin ClientRefs(o)
      <4>1. held[t][o] \in 1 .. held[t][o] /\ held[u][o] + 1 \notin 1 .. held[u][o]
        BY <1>1
      <4>2. x \in ClientRefs(o)
        BY <4>1 DEF ClientRefs
      <4>3. ~\E v \in Threads : \E n \in 1 .. held[v][o] : y = <<v, n>>
        BY <4>1
      <4> HIDE DEF y
      <4>4. y \in ClientRefs(o) <=> \E v \in Threads : \E n \in 1 .. held[v][o] : y = <<v, n>>
        BY PairsOf
      <4> QED BY <4>2, <4>3, <4>4
    <3>3. ClientRefs(o)' = S \cup {y}
      <4>1. \A z : z \in ClientRefs(o)' <=> \E v \in Threads : \E n \in 1 .. held'[v][o] : z = <<v, n>>
        BY PairsOf
      <4>2. \A z : z \in ClientRefs(o) <=> \E v \in Threads : \E n \in 1 .. held[v][o] : z = <<v, n>>
        BY PairsOf
      <4>3. \E v \in Threads : \E n \in 1 .. held'[v][o] : y = <<v, n>>
        BY <3>1
      <4> HIDE DEF x, y
      <4>4. ASSUME NEW z, z # y
            PROVE  z \in ClientRefs(o)' <=> z \in ClientRefs(o) /\ z # x
        <5>1. ASSUME NEW v \in Threads, NEW n, z = <<v, n>>
              PROVE  n \in 1 .. held'[v][o] <=> n \in 1 .. held[v][o] /\ z # x
          BY <3>1, <4>4, <5>1
        <5>2. \A v \in Threads : \A n : z = <<v, n>> =>
                (n \in 1 .. held'[v][o] <=> n \in 1 .. held[v][o] /\ z # x)
          BY <5>1
        <5>3. z \in ClientRefs(o)' <=> \E v \in Threads : \E n \in 1 .. held'[v][o] : z = <<v, n>>
          BY <4>1
        <5>4. z \in ClientRefs(o) <=> \E v \in Threads : \E n \in 1 .. held[v][o] : z = <<v, n>>
          BY <4>2
        <5> QED BY <5>2, <5>3, <5>4, Zenon
      <4>5. y \in ClientRefs(o)'
        BY <4>1, <4>3
      <4> QED BY <4>4, <4>5
    <3> HIDE DEF x, y
    <3>4. IsFiniteSet(ClientRefs(o))
      BY Finite
    <3>5. IsFiniteSet(S) /\ y \notin S
      BY <3>2, <3>4, FS_RemoveElement
    <3> HIDE DEF S
    <3>6. Cardinality(ClientRefs(o)') = Cardinality(S) + 1
      BY <3>3, <3>5, CountAdd
    <3>7. Cardinality(ClientRefs(o)) = Cardinality(S) + 1
      BY <3>2, <3>4, CountRemove DEF S
    <3> QED BY <2>2, <3>6, <3>7
  <2> QED BY <2>1, <2>2
<1>4. \A v \in Threads, q \in Objects : held'[v][q] >= held[v][q] - Tick(v = t /\ q = o)
  BY <1>1, <1>2 DEF Tick
<1> QED BY <1>2, <1>3, <1>4

\* References from objects: to a member, and to the malloc.
LEMMA MembersChange ==
  ASSUME TypesOK, NEW o \in Objects,
         \A p \in Objects \ {o} : obj'[p].member = obj[p].member
  PROVE  \A q \in Objects :
           /\ Cardinality(MemberRefs(q)') =
                Cardinality(MemberRefs(q)) + Tick(q = obj'[o].member) - Tick(q = obj[o].member)
           /\ Cardinality(MemberRefs(q)) \in Nat /\ Cardinality(MemberRefs(q)') \in Nat
<1> SUFFICES ASSUME NEW q \in Objects
             PROVE  /\ Cardinality(MemberRefs(q)') =
                         Cardinality(MemberRefs(q)) + Tick(q = obj'[o].member) - Tick(q = obj[o].member)
                    /\ Cardinality(MemberRefs(q)) \in Nat /\ Cardinality(MemberRefs(q)') \in Nat
  OBVIOUS
<1>1. MemberRefs(q) \ {o} = MemberRefs(q)' \ {o} /\ IsFiniteSet(MemberRefs(q))
  BY Finite DEF MemberRefs
<1>2. (o \in MemberRefs(q) <=> q = obj[o].member) /\ (o \in MemberRefs(q)' <=> q = obj'[o].member)
  BY DEF MemberRefs
<1> QED BY <1>1, <1>2, CountChange DEF Tick

LEMMA OwnersChange ==
  ASSUME TypesOK, NEW o \in Objects,
         \A p \in Objects \ {o} : obj'[p].malloc = obj[p].malloc
  PROVE  \A m : /\ Cardinality(OwnedBy(m)') =
                     Cardinality(OwnedBy(m)) + Tick(m = obj'[o].malloc) - Tick(m = obj[o].malloc)
                /\ Cardinality(OwnedBy(m)) \in Nat /\ Cardinality(OwnedBy(m)') \in Nat
<1> SUFFICES ASSUME NEW m
             PROVE  /\ Cardinality(OwnedBy(m)') =
                         Cardinality(OwnedBy(m)) + Tick(m = obj'[o].malloc) - Tick(m = obj[o].malloc)
                    /\ Cardinality(OwnedBy(m)) \in Nat /\ Cardinality(OwnedBy(m)') \in Nat
  OBVIOUS
<1>1. OwnedBy(m) \ {o} = OwnedBy(m)' \ {o} /\ IsFiniteSet(OwnedBy(m))
  BY Finite DEF OwnedBy
<1>2. (o \in OwnedBy(m) <=> m = obj[o].malloc) /\ (o \in OwnedBy(m)' <=> m = obj'[o].malloc)
  BY DEF OwnedBy
<1>3. /\ Cardinality(OwnedBy(m)') =
           Cardinality(OwnedBy(m)) + Tick(o \in OwnedBy(m)') - Tick(o \in OwnedBy(m))
      /\ Cardinality(OwnedBy(m)) \in Nat /\ Cardinality(OwnedBy(m)') \in Nat
  BY <1>1, CountChange
<1> QED BY <1>2, <1>3 DEF Tick

\* The stacks differ at one position at most: position n of thread t.
Elsewhere(t, n) ==
  /\ stack' \in [Threads -> Seq(FrameType)]
  /\ \A u \in Threads : \A k : (u = t => k # n) =>
       /\ k \in DOMAIN stack'[u] <=> k \in DOMAIN stack[u]
       /\ k \in DOMAIN stack[u] => stack'[u][k] = stack[u][k]

Pends(f, m) == f.op = "release" /\ f.step # "enter" /\ f.malloc = m

LEMMA ReleasesChange ==
  ASSUME TypesOK, NEW t \in Threads, NEW n, Elsewhere(t, n)
  PROVE  \A m : /\ Cardinality(Releases(m)') = Cardinality(Releases(m))
                     + Tick(n \in DOMAIN stack'[t] /\ Pends(stack'[t][n], m))
                     - Tick(n \in DOMAIN stack[t] /\ Pends(stack[t][n], m))
                /\ Cardinality(Releases(m)) \in Nat /\ Cardinality(Releases(m)') \in Nat
<1> SUFFICES ASSUME NEW m
             PROVE  /\ Cardinality(Releases(m)') = Cardinality(Releases(m))
                         + Tick(n \in DOMAIN stack'[t] /\ Pends(stack'[t][n], m))
                         - Tick(n \in DOMAIN stack[t] /\ Pends(stack[t][n], m))
                    /\ Cardinality(Releases(m)) \in Nat /\ Cardinality(Releases(m)') \in Nat
  OBVIOUS
<1> DEFINE x == <<t, n>>
<1>1. /\ \A y : y \in Releases(m) <=>
           \E u \in Threads : \E k \in DOMAIN stack[u] : Pends(stack[u][k], m) /\ y = <<u, k>>
      /\ \A y : y \in Releases(m)' <=>
           \E u \in Threads : \E k \in DOMAIN stack'[u] : Pends(stack'[u][k], m) /\ y = <<u, k>>
  BY DEF Releases, Pending, Pends
<1>2. \A u \in Threads : \A k : <<u, k>> # x =>
        (k \in DOMAIN stack'[u] /\ Pends(stack'[u][k], m) <=> k \in DOMAIN stack[u] /\ Pends(stack[u][k], m))
  BY DEF Elsewhere
<1>3. Releases(m) \ {x} = Releases(m)' \ {x}
  <2>1. \A u \in Threads : \A k : <<u, k>> \in Releases(m) <=> k \in DOMAIN stack[u] /\ Pends(stack[u][k], m)
    BY <1>1
  <2>2. \A u \in Threads : \A k : <<u, k>> \in Releases(m)' <=> k \in DOMAIN stack'[u] /\ Pends(stack'[u][k], m)
    BY <1>1
  <2> HIDE DEF x
  <2>3. ASSUME NEW y, y # x
        PROVE  y \in Releases(m) <=> y \in Releases(m)'
    BY <1>1, <1>2, <2>1, <2>2, <2>3
  <2> QED BY <2>3
<1>4. /\ x \in Releases(m) <=> n \in DOMAIN stack[t] /\ Pends(stack[t][n], m)
      /\ x \in Releases(m)' <=> n \in DOMAIN stack'[t] /\ Pends(stack'[t][n], m)
  BY <1>1
<1>5. IsFiniteSet(Releases(m))
  BY Finite
<1> HIDE DEF x
<1>6. /\ Cardinality(Releases(m)') =
           Cardinality(Releases(m)) + Tick(x \in Releases(m)') - Tick(x \in Releases(m))
      /\ Cardinality(Releases(m)) \in Nat /\ Cardinality(Releases(m)') \in Nat
  BY <1>3, <1>5, CountChange
<1> QED BY <1>4, <1>6 DEF Tick

LEMMA CallsChange ==
  ASSUME TypesOK, NEW t \in Threads, NEW n, Elsewhere(t, n)
  PROVE  /\ \A u \in Threads \ {t} : \A o : Calls(u, o)' = Calls(u, o)
         /\ \A o : /\ Cardinality(Calls(t, o)') = Cardinality(Calls(t, o))
                        + Tick(n \in DOMAIN stack'[t] /\ stack'[t][n].op = "method" /\ stack'[t][n].obj = o)
                        - Tick(n \in DOMAIN stack[t] /\ stack[t][n].op = "method" /\ stack[t][n].obj = o)
                   /\ Cardinality(Calls(t, o)) \in Nat /\ Cardinality(Calls(t, o)') \in Nat
<1>1. \A u \in Threads \ {t} : \A o : Calls(u, o)' = Calls(u, o)
  BY DEF Elsewhere, Calls
<1>2. ASSUME NEW o
      PROVE  /\ Cardinality(Calls(t, o)') = Cardinality(Calls(t, o))
                  + Tick(n \in DOMAIN stack'[t] /\ stack'[t][n].op = "method" /\ stack'[t][n].obj = o)
                  - Tick(n \in DOMAIN stack[t] /\ stack[t][n].op = "method" /\ stack[t][n].obj = o)
             /\ Cardinality(Calls(t, o)) \in Nat /\ Cardinality(Calls(t, o)') \in Nat
  <2>1. Calls(t, o) \ {n} = Calls(t, o)' \ {n}
    BY DEF Elsewhere, Calls
  <2>2. /\ n \in Calls(t, o) <=> n \in DOMAIN stack[t] /\ stack[t][n].op = "method" /\ stack[t][n].obj = o
        /\ n \in Calls(t, o)' <=> n \in DOMAIN stack'[t] /\ stack'[t][n].op = "method" /\ stack'[t][n].obj = o
    BY DEF Calls
  <2>3. IsFiniteSet(Calls(t, o))
    BY Finite
  <2>4. /\ Cardinality(Calls(t, o)') =
             Cardinality(Calls(t, o)) + Tick(n \in Calls(t, o)') - Tick(n \in Calls(t, o))
        /\ Cardinality(Calls(t, o)) \in Nat /\ Cardinality(Calls(t, o)') \in Nat
    BY <2>1, <2>3, CountChange
  <2> QED BY <2>2, <2>4 DEF Tick
<1> QED BY <1>1, <1>2

-----------------------------------------------------------------------------
(* The stacks.                                                             *)

LEMMA Pushed ==
  ASSUME TypesOK, NEW t \in Threads, NEW f \in FrameType, Push(t, f)
  PROVE  /\ Elsewhere(t, Len(stack[t]) + 1) /\ Len(stack[t]) \in Nat
         /\ DOMAIN stack[t] = 1 .. Len(stack[t]) /\ Len(stack'[t]) = Len(stack[t]) + 1
         /\ DOMAIN stack'[t] = 1 .. Len(stack[t]) + 1
         /\ stack'[t][Len(stack[t]) + 1] = f
<1>1. stack \in [Threads -> Seq(FrameType)]
  BY DEF TypesOK
<1>2. stack' = [stack EXCEPT ![t] = Append(stack[t], f)]
  BY DEF Push
<1>3. stack[t] \in Seq(FrameType)
  BY <1>1
<1>4. /\ Append(stack[t], f) \in Seq(FrameType) /\ Len(Append(stack[t], f)) = Len(stack[t]) + 1
      /\ \A k \in 1 .. Len(stack[t]) : Append(stack[t], f)[k] = stack[t][k]
      /\ Append(stack[t], f)[Len(stack[t]) + 1] = f
      /\ DOMAIN Append(stack[t], f) = 1 .. Len(stack[t]) + 1
      /\ DOMAIN stack[t] = 1 .. Len(stack[t]) /\ Len(stack[t]) \in Nat
  BY <1>3
<1>5. stack' \in [Threads -> Seq(FrameType)] /\ stack'[t] = Append(stack[t], f)
      /\ \A u \in Threads \ {t} : stack'[u] = stack[u]
  <2> DEFINE s == Append(stack[t], f)
  <2>1. stack' = [stack EXCEPT ![t] = s] /\ s \in Seq(FrameType)
    BY <1>2, <1>4
  <2> HIDE DEF s
  <2>2. stack' \in [Threads -> Seq(FrameType)] /\ stack'[t] = s
        /\ \A u \in Threads \ {t} : stack'[u] = stack[u]
    BY <1>1, <2>1
  <2> QED BY <2>2 DEF s
<1>6. Elsewhere(t, Len(stack[t]) + 1)
  <2> SUFFICES ASSUME NEW u \in Threads, NEW k, u = t => k # Len(stack[t]) + 1
               PROVE  /\ k \in DOMAIN stack'[u] <=> k \in DOMAIN stack[u]
                      /\ k \in DOMAIN stack[u] => stack'[u][k] = stack[u][k]
    BY <1>5 DEF Elsewhere
  <2>1. CASE u # t
    BY <1>5, <2>1
  <2>2. CASE u = t
    <3> DEFINE s == Append(stack[t], f)
    <3>1. /\ \A j \in 1 .. Len(stack[t]) : s[j] = stack[t][j]
          /\ DOMAIN s = 1 .. Len(stack[t]) + 1 /\ stack'[u] = s
          /\ DOMAIN stack[u] = 1 .. Len(stack[t]) /\ Len(stack[t]) \in Nat
      BY <1>4, <1>5, <2>2
    <3> HIDE DEF s
    <3> QED BY <2>2, <3>1
  <2> QED BY <2>1, <2>2
<1> QED BY <1>4, <1>5, <1>6

LEMMA TopSet ==
  ASSUME TypesOK, NEW t \in Threads, NEW f \in FrameType, stack[t] # <<>>, SetTop(t, f)
  PROVE  /\ Elsewhere(t, Len(stack[t])) /\ Len(stack[t]) \in Nat \ {0}
         /\ DOMAIN stack[t] = 1 .. Len(stack[t]) /\ Len(stack'[t]) = Len(stack[t])
         /\ DOMAIN stack'[t] = 1 .. Len(stack[t])
         /\ stack'[t][Len(stack[t])] = f
<1>1. stack \in [Threads -> Seq(FrameType)]
  BY DEF TypesOK
<1>2. stack' = [stack EXCEPT ![t] = [stack[t] EXCEPT ![Len(stack[t])] = f]]
  BY DEF SetTop
<1>3. stack[t] \in Seq(FrameType) /\ Len(stack[t]) \in Nat \ {0}
      /\ DOMAIN stack[t] = 1 .. Len(stack[t])
  BY <1>1
<1> DEFINE s == [stack[t] EXCEPT ![Len(stack[t])] = f]
<1>4. /\ s \in Seq(FrameType) /\ Len(s) = Len(stack[t])
      /\ \A k \in 1 .. Len(stack[t]) : k # Len(stack[t]) => s[k] = stack[t][k]
      /\ s[Len(stack[t])] = f
      /\ DOMAIN s = 1 .. Len(stack[t])
  BY <1>3
<1>5. stack' \in [Threads -> Seq(FrameType)] /\ stack'[t] = s
      /\ \A u \in Threads \ {t} : stack'[u] = stack[u]
  BY <1>1, <1>2, <1>4
<1> HIDE DEF s
<1> QED BY <1>3, <1>4, <1>5 DEF Elsewhere

LEMMA Popped ==
  ASSUME TypesOK, NEW t \in Threads, stack[t] # <<>>, Pop(t)
  PROVE  /\ Elsewhere(t, Len(stack[t])) /\ Len(stack[t]) \in Nat \ {0}
         /\ DOMAIN stack[t] = 1 .. Len(stack[t]) /\ Len(stack'[t]) = Len(stack[t]) - 1
         /\ DOMAIN stack'[t] = 1 .. Len(stack[t]) - 1
<1>1. stack \in [Threads -> Seq(FrameType)]
  BY DEF TypesOK
<1>2. stack' = [stack EXCEPT ![t] = SubSeq(stack[t], 1, Len(stack[t]) - 1)]
  BY DEF Pop, Front
<1>3. stack[t] \in Seq(FrameType) /\ Len(stack[t]) \in Nat \ {0}
      /\ DOMAIN stack[t] = 1 .. Len(stack[t])
  BY <1>1
<1> DEFINE s == SubSeq(stack[t], 1, Len(stack[t]) - 1)
<1>4. /\ s \in Seq(FrameType) /\ Len(s) = Len(stack[t]) - 1
      /\ \A k \in 1 .. Len(stack[t]) - 1 : s[k] = stack[t][k]
      /\ DOMAIN s = 1 .. Len(stack[t]) - 1
  BY <1>3
<1>5. stack' \in [Threads -> Seq(FrameType)] /\ stack'[t] = s
      /\ \A u \in Threads \ {t} : stack'[u] = stack[u]
  BY <1>1, <1>2, <1>4
<1> HIDE DEF s
<1> QED BY <1>3, <1>4, <1>5 DEF Elsewhere

LEMMA SameStacks ==
  ASSUME TypesOK, UNCHANGED stack
  PROVE  \A t \in Threads : Elsewhere(t, 0) /\ 0 \notin DOMAIN stack[t] /\ 0 \notin DOMAIN stack'[t]
BY DEF TypesOK, Elsewhere

LEMMA TopOf ==
  ASSUME TypesOK, FramesOK, NEW t \in Threads, stack[t] # <<>>
  PROVE  /\ Len(stack[t]) \in DOMAIN stack[t] /\ Len(stack[t]) \in Nat \ {0}
         /\ Top(t) = stack[t][Len(stack[t])] /\ Top(t) \in FrameType /\ FrameOK(Top(t))
<1>1. stack[t] \in Seq(FrameType)
  BY DEF TypesOK
<1>2. Len(stack[t]) \in DOMAIN stack[t] /\ Len(stack[t]) \in Nat \ {0}
  BY <1>1
<1> QED BY <1>1, <1>2 DEF Top, Last, FramesOK

\* What a frame relies on in its object.
Kept(o) ==
  /\ obj'[o].state = obj[o].state /\ obj'[o].stream = obj[o].stream
  /\ obj'[o].malloc = obj[o].malloc
  /\ obj[o].dwRef = 0 => obj'[o].dwRef = 0

LEMMA FramesStep ==
  ASSUME TypesOK, FramesOK, NEW t \in Threads, NEW n, Elsewhere(t, n),
         \A u \in Threads : \A k \in DOMAIN stack[u] : (u = t => k # n) =>
           /\ stack[u][k].op = "create" => stack[u][k].malloc \in owned' \cup {defaultMalloc'}
           /\ stack[u][k].op = "method" => Kept(stack[u][k].obj)
           /\ stack[u][k].step \in Dying => Kept(stack[u][k].obj),
         NEW g, n \in DOMAIN stack'[t] => stack'[t][n] = g /\ FrameOK(g)'
  PROVE  FramesOK'
<1> SUFFICES ASSUME NEW u \in Threads, NEW k \in DOMAIN stack'[u], NEW f, f = stack'[u][k]
             PROVE  FrameOK(f)'
  BY DEF FramesOK, FrameOK
<1>1. CASE u = t /\ k = n
  BY <1>1 DEF FrameOK
<1>2. CASE u = t => k # n
  <2>1. k \in DOMAIN stack[u] /\ f = stack[u][k]
    BY <1>2 DEF Elsewhere
  <2>2. FrameOK(f)
    BY <2>1 DEF FramesOK
  <2> QED BY <1>2, <2>1, <2>2 DEF FrameOK, Kept, Dying
<1> QED BY <1>1, <1>2

-----------------------------------------------------------------------------
(* The scopes.                                                             *)

LEMMA TopScope ==
  ASSUME TypesOK, ScopesNest, NEW t \in Threads
  PROVE  /\ IsInnermost(t, Len(stack[t]) + 1, tls[t])
         /\ stack[t] # <<>> =>
              /\ Top(t).scoped => IsInnermost(t, Len(stack[t]), Top(t).prior) /\ tls[t] = Top(t).malloc
              /\ ~Top(t).scoped => IsInnermost(t, Len(stack[t]), tls[t])
<1> DEFINE n == Len(stack[t])
<1>1. IsInnermost(t, n + 1, tls[t])
  BY DEF ScopesNest
<1>2. ASSUME stack[t] # <<>>
      PROVE  /\ Top(t).scoped => IsInnermost(t, n, Top(t).prior) /\ tls[t] = Top(t).malloc
             /\ ~Top(t).scoped => IsInnermost(t, n, tls[t])
  <2>1. stack[t] \in Seq(FrameType)
    BY DEF TypesOK
  <2>2. n \in Nat \ {0} /\ n \in DOMAIN stack[t] /\ Top(t) = stack[t][n]
    BY <1>2, <2>1 DEF Top, Last
  <2>3. 1 .. (n + 1) - 1 = (1 .. n - 1) \cup {n} /\ \A j \in 1 .. n - 1 : j < n
    BY <2>2
  <2> HIDE DEF n
  <2>4. CASE Top(t).scoped
    <3>1. IsInnermost(t, n, Top(t).prior)
      BY <2>2, <2>4 DEF ScopesNest
    <3>2. tls[t] = Top(t).malloc
      BY <1>1, <2>2, <2>3, <2>4 DEF IsInnermost
    <3> QED BY <2>4, <3>1, <3>2
  <2>5. CASE ~Top(t).scoped
    <3>1. {j \in 1 .. (n + 1) - 1 : stack[t][j].scoped} = {j \in 1 .. n - 1 : stack[t][j].scoped}
      BY <2>2, <2>3, <2>5
    <3> QED BY <1>1, <2>5, <3>1 DEF IsInnermost
  <2> QED BY <2>4, <2>5
<1> QED BY <1>1, <1>2

\* Only the frames below a position matter.
LEMMA InnermostKept ==
  ASSUME NEW t \in Threads, NEW k, NEW m, IsInnermost(t, k, m), Outside(t)' = Outside(t),
         \A j \in 1 .. k - 1 : stack'[t][j].scoped = stack[t][j].scoped
                               /\ stack'[t][j].malloc = stack[t][j].malloc
  PROVE  \A p : p = m => IsInnermost(t, k, p)'
<1>1. {j \in 1 .. k - 1 : stack'[t][j].scoped} = {j \in 1 .. k - 1 : stack[t][j].scoped}
  OBVIOUS
<1> QED BY <1>1 DEF IsInnermost

\* The scopes of the next state, without a primed argument.
LEMMA ScopesFrom ==
  ASSUME \A u \in Threads :
           /\ \A l, p : l = Len(stack'[u]) + 1 /\ p = tls'[u] => IsInnermost(u, l, p)'
           /\ \A k \in DOMAIN stack'[u] : \A p :
                stack'[u][k].scoped /\ p = stack'[u][k].prior => IsInnermost(u, k, p)'
  PROVE  ScopesNest'
<1> SUFFICES ASSUME NEW u \in Threads
             PROVE  /\ IsInnermost(u, Len(stack[u]) + 1, tls[u])'
                    /\ \A k \in DOMAIN stack'[u] :
                         stack'[u][k].scoped => IsInnermost(u, k, stack[u][k].prior)'
  BY DEF ScopesNest
<1>1. IsInnermost(u, Len(stack[u]) + 1, tls[u])'
  <2>1. \A l, p : l = Len(stack'[u]) + 1 /\ p = tls'[u] =>
          LET open == {j \in 1 .. l - 1 : stack'[u][j].scoped}
          IN  \/ open = {} /\ p = Outside(u)'
              \/ \E j \in open : p = stack'[u][j].malloc /\ \A i \in open : i <= j
    BY DEF IsInnermost
  <2> DEFINE l == Len(stack'[u]) + 1
             open == {j \in 1 .. l - 1 : stack'[u][j].scoped}
  <2>2. \/ open = {} /\ tls'[u] = Outside(u)'
        \/ \E j \in open : tls'[u] = stack'[u][j].malloc /\ \A i \in open : i <= j
    BY <2>1
  <2> QED BY <2>2 DEF IsInnermost
<1>2. ASSUME NEW k \in DOMAIN stack'[u], stack'[u][k].scoped
      PROVE  IsInnermost(u, k, stack[u][k].prior)'
  BY <1>2 DEF IsInnermost
<1> QED BY <1>1, <1>2

LEMMA ScopesStep ==
  ASSUME TypesOK, ScopesNest, NEW t \in Threads, NEW n \in Nat \ {0}, Elsewhere(t, n),
         n \in {Len(stack[t]), Len(stack[t]) + 1},
         UNCHANGED <<dll, defaultMalloc>>, \A u \in Threads \ {t} : tls'[u] = tls[u],
         NEW m, IsInnermost(t, n, m),
         \/ /\ Len(stack'[t]) = n /\ stack'[t][n].scoped
            /\ stack'[t][n].prior = m /\ tls'[t] = stack'[t][n].malloc
         \/ Len(stack'[t]) = n /\ ~stack'[t][n].scoped /\ tls'[t] = m
         \/ Len(stack'[t]) = n - 1 /\ tls'[t] = m
  PROVE  ScopesNest'
<1>1. \A u \in Threads : Outside(u)' = Outside(u)
  BY DEF Outside, LoaderHolds
<1>2. \A u \in Threads : /\ stack[u] \in Seq(FrameType) /\ stack'[u] \in Seq(FrameType)
  BY DEF TypesOK, Elsewhere
<1>3. \A u \in Threads \ {t} : Len(stack'[u]) = Len(stack[u]) /\ stack'[u] = stack[u]
  <2> SUFFICES ASSUME NEW u \in Threads \ {t}
               PROVE  Len(stack'[u]) = Len(stack[u]) /\ stack'[u] = stack[u]
    OBVIOUS
  <2>1. DOMAIN stack'[u] = DOMAIN stack[u] /\ \A k \in DOMAIN stack[u] : stack'[u][k] = stack[u][k]
    BY DEF Elsewhere
  <2>2. /\ DOMAIN stack[u] = 1 .. Len(stack[u]) /\ Len(stack[u]) \in Nat
        /\ DOMAIN stack'[u] = 1 .. Len(stack'[u]) /\ Len(stack'[u]) \in Nat
        /\ stack[u] = [k \in DOMAIN stack[u] |-> stack[u][k]]
        /\ stack'[u] = [k \in DOMAIN stack'[u] |-> stack'[u][k]]
    BY <1>2
  <2> QED BY <2>1, <2>2
<1>4. /\ Len(stack[t]) \in Nat /\ DOMAIN stack[t] = 1 .. Len(stack[t])
      /\ Len(stack'[t]) \in Nat /\ DOMAIN stack'[t] = 1 .. Len(stack'[t])
  BY <1>2
<1>5. \A k \in 1 .. n - 1 : k \in DOMAIN stack[t] /\ k # n /\ stack'[t][k] = stack[t][k]
  <2> SUFFICES ASSUME NEW k \in 1 .. n - 1
               PROVE  k \in DOMAIN stack[t] /\ k # n /\ stack'[t][k] = stack[t][k]
    OBVIOUS
  <2>1. k \in DOMAIN stack[t] /\ k # n
    BY <1>4
  <2> QED BY <2>1 DEF Elsewhere
<1>6. ASSUME NEW u \in Threads \ {t}
      PROVE  /\ \A l, p : l = Len(stack'[u]) + 1 /\ p = tls'[u] => IsInnermost(u, l, p)'
             /\ \A k \in DOMAIN stack'[u] : \A p :
                  stack'[u][k].scoped /\ p = stack'[u][k].prior => IsInnermost(u, k, p)'
  <2>1. stack'[u] = stack[u] /\ tls'[u] = tls[u] /\ Outside(u)' = Outside(u)
    BY <1>1, <1>3
  <2>2. ASSUME NEW l, NEW p, l = Len(stack'[u]) + 1, p = tls'[u]
        PROVE  IsInnermost(u, l, p)'
    <3>1. IsInnermost(u, l, p)
      BY <2>1, <2>2 DEF ScopesNest
    <3> QED BY <2>1, <3>1, InnermostKept
  <2>3. ASSUME NEW k \in DOMAIN stack'[u], NEW p, stack'[u][k].scoped, p = stack'[u][k].prior
        PROVE  IsInnermost(u, k, p)'
    <3>1. IsInnermost(u, k, p)
      BY <2>1, <2>3 DEF ScopesNest
    <3> QED BY <2>1, <3>1, InnermostKept
  <2> QED BY <2>2, <2>3
<1>7. \A p : p = m => IsInnermost(t, n, p)'
  BY <1>1, <1>5, InnermostKept
<1>8. ASSUME NEW k \in DOMAIN stack'[t], stack'[t][k].scoped, NEW p, p = stack'[t][k].prior
      PROVE  IsInnermost(t, k, p)'
  <2>1. CASE k = n
    <3>1. p = m
      BY <1>4, <1>8, <2>1
    <3> QED BY <1>7, <2>1, <3>1
  <2>2. CASE k # n
    <3>1. k \in 1 .. n - 1
      BY <1>4, <2>2
    <3>2. IsInnermost(t, k, p)
      BY <1>5, <1>8, <3>1 DEF ScopesNest
    <3>3. \A j \in 1 .. k - 1 : j \in 1 .. n - 1
      BY <3>1
    <3> QED BY <1>1, <1>5, <3>2, <3>3, InnermostKept
  <2> QED BY <2>1, <2>2
<1>9. ASSUME NEW p, p = tls'[t], NEW l, l = Len(stack'[t]) + 1
      PROVE  IsInnermost(t, l, p)'
  <2>1. CASE Len(stack'[t]) = n /\ stack'[t][n].scoped
    <3>1. l - 1 = n /\ n \in 1 .. l - 1 /\ \A j \in 1 .. l - 1 : j <= n
      BY <1>9, <2>1
    <3>2. p = stack'[t][n].malloc
      BY <1>9, <2>1
    <3> QED BY <2>1, <3>1, <3>2 DEF IsInnermost
  <2>2. CASE Len(stack'[t]) = n /\ ~stack'[t][n].scoped
    <3>1. p = m
      BY <1>9, <2>2
    <3>2. 1 .. l - 1 = (1 .. n - 1) \cup {n}
      BY <1>9, <2>2
    <3>3. {j \in 1 .. l - 1 : stack'[t][j].scoped} = {j \in 1 .. n - 1 : stack'[t][j].scoped}
      BY <2>2, <3>2
    <3> QED BY <1>7, <3>1, <3>3 DEF IsInnermost
  <2>3. CASE Len(stack'[t]) = n - 1
    <3>1. p = m /\ l = n
      BY <1>9, <2>3
    <3> QED BY <1>7, <3>1
  <2> QED BY <2>1, <2>2, <2>3
<1>10. ASSUME NEW u \in Threads
       PROVE  /\ \A l, p : l = Len(stack'[u]) + 1 /\ p = tls'[u] => IsInnermost(u, l, p)'
              /\ \A k \in DOMAIN stack'[u] : \A p :
                   stack'[u][k].scoped /\ p = stack'[u][k].prior => IsInnermost(u, k, p)'
  <2>1. CASE u = t
    BY <1>8, <1>9, <2>1
  <2>2. CASE u # t
    BY <1>6, <2>2
  <2> QED BY <2>1, <2>2
<1> QED BY <1>10, ScopesFrom

-----------------------------------------------------------------------------
(* How each part of the invariant follows from what a step changes.        *)

LEMMA DestroyerStep ==
  ASSUME OneDestroyer, NEW t \in Threads, NEW n, Elsewhere(t, n),
         n \in DOMAIN stack'[t] /\ stack'[t][n].step \in Dying =>
           \/ n \in DOMAIN stack[t] /\ stack[t][n].step \in Dying /\ stack[t][n].obj = stack'[t][n].obj
           \/ \A u \in Threads : \A k \in DOMAIN stack[u] :
                stack[u][k].step \in Dying => stack[u][k].obj # stack'[t][n].obj
  PROVE  OneDestroyer'
<1> DEFINE dies(u, k, o) == k \in DOMAIN stack[u] /\ stack[u][k].step \in Dying /\ stack[u][k].obj = o
           dies2(u, k, o) == k \in DOMAIN stack'[u] /\ stack'[u][k].step \in Dying /\ stack'[u][k].obj = o
<1>1. \A u, v \in Threads : \A o, j, k : dies(u, j, o) /\ dies(v, k, o) => u = v /\ j = k
  BY DEF OneDestroyer
<1>2. \A u \in Threads : \A o, k : (u = t => k # n) => (dies2(u, k, o) <=> dies(u, k, o))
  BY DEF Elsewhere
<1>3. \A o : dies2(t, n, o) => dies(t, n, o) \/ \A u \in Threads : \A k : ~dies(u, k, o)
  OBVIOUS
<1>4. (\A u, v \in Threads : \A o, j, k : dies2(u, j, o) /\ dies2(v, k, o) => u = v /\ j = k)
        => OneDestroyer'
  BY DEF OneDestroyer
<1> HIDE DEF dies, dies2
<1> QED BY <1>1, <1>2, <1>3, <1>4

LEMMA BuriedStep ==
  ASSUME Buried, NEW t \in Threads, NEW n, Elsewhere(t, n),
         \A o \in Objects : obj'[o].state = "destroyed" =>
           \/ n \in DOMAIN stack'[t] /\ stack'[t][n].step = "free" /\ stack'[t][n].obj = o
           \/ /\ obj[o].state = "destroyed"
              /\ n \in DOMAIN stack[t] /\ stack[t][n].step = "free" => stack[t][n].obj # o
  PROVE  Buried'
<1> SUFFICES ASSUME NEW o \in Objects, obj'[o].state = "destroyed"
             PROVE  \E u \in Threads : \E k \in DOMAIN stack'[u] :
                      stack'[u][k].step = "free" /\ stack'[u][k].obj = o
  BY DEF Buried
<1>1. CASE n \in DOMAIN stack'[t] /\ stack'[t][n].step = "free" /\ stack'[t][n].obj = o
  BY <1>1
<1>2. CASE /\ obj[o].state = "destroyed"
           /\ n \in DOMAIN stack[t] /\ stack[t][n].step = "free" => stack[t][n].obj # o
  <2>1. PICK u \in Threads : \E k \in DOMAIN stack[u] : stack[u][k].step = "free" /\ stack[u][k].obj = o
    BY <1>2 DEF Buried
  <2>2. PICK k \in DOMAIN stack[u] : stack[u][k].step = "free" /\ stack[u][k].obj = o
    BY <2>1
  <2>3. u = t => k # n
    BY <1>2, <2>2
  <2> QED BY <2>2, <2>3 DEF Elsewhere
<1> QED BY <1>1, <1>2

\* The counts follow the references of the object o, of the frame at position n
\* of thread t, and of the client.
MrefFollows(t, n, o) ==
  /\ \A p \in Objects \ {o} : obj'[p].malloc = obj[p].malloc
  /\ \A m \in AllMallocs :
       mref'[m] = mref[m] + Tick(m = obj'[o].malloc) - Tick(m = obj[o].malloc)
                   + Tick(n \in DOMAIN stack'[t] /\ Pends(stack'[t][n], m))
                   - Tick(n \in DOMAIN stack[t] /\ Pends(stack[t][n], m))
                   + Tick(m \in owned') - Tick(m \in owned)

LEMMA MallocsStep ==
  ASSUME TypesOK, MallocCounts, NEW t \in Threads, NEW n, Elsewhere(t, n), NEW o \in Objects,
         UNCHANGED libVars, MrefFollows(t, n, o)
  PROVE  MallocCounts'
<1> SUFFICES ASSUME NEW m \in AllMallocs
             PROVE  mref'[m] = Cardinality(OwnedBy(m)') + Cardinality(Releases(m)')
                       + (IF m \in owned' THEN 1 ELSE 0)
                       + (IF LoaderHolds(m)' THEN 1 ELSE 0)
                       + (IF m \in Defaults THEN inits'[m] ELSE 0)
  BY DEF MallocCounts
<1>1. /\ Cardinality(OwnedBy(m)') =
           Cardinality(OwnedBy(m)) + Tick(m = obj'[o].malloc) - Tick(m = obj[o].malloc)
      /\ Cardinality(OwnedBy(m)) \in Nat /\ Cardinality(OwnedBy(m)') \in Nat
  BY OwnersChange DEF MrefFollows
<1>2. /\ Cardinality(Releases(m)') = Cardinality(Releases(m))
           + Tick(n \in DOMAIN stack'[t] /\ Pends(stack'[t][n], m))
           - Tick(n \in DOMAIN stack[t] /\ Pends(stack[t][n], m))
      /\ Cardinality(Releases(m)) \in Nat /\ Cardinality(Releases(m)') \in Nat
  BY ReleasesChange
<1>3. /\ (LoaderHolds(m)' <=> LoaderHolds(m)) /\ inits' = inits
      /\ m \in Defaults => inits[m] \in Nat
  BY DEF LoaderHolds, libVars, TypesOK, TypeOK
<1>4. mref[m] = Cardinality(OwnedBy(m)) + Cardinality(Releases(m)) + Tick(m \in owned)
                  + Tick(LoaderHolds(m)) + (IF m \in Defaults THEN inits[m] ELSE 0)
  BY DEF MallocCounts, Tick
<1>5. \A b : Tick(b) \in Int
  BY DEF Tick
<1>6. mref'[m] = Cardinality(OwnedBy(m)') + Cardinality(Releases(m)') + Tick(m \in owned')
                  + Tick(LoaderHolds(m)) + (IF m \in Defaults THEN inits[m] ELSE 0)
  BY <1>1, <1>2, <1>3, <1>4, <1>5 DEF MrefFollows
<1> QED BY <1>3, <1>6 DEF Tick

LEMMA MallocsStepAside ==
  ASSUME TypesOK, MallocCounts, NEW t \in Threads, NEW n, Elsewhere(t, n),
         \A p \in Objects : obj'[p].malloc = obj[p].malloc,
         UNCHANGED libVars,
         \A m \in AllMallocs :
           mref'[m] = mref[m]
                       + Tick(n \in DOMAIN stack'[t] /\ Pends(stack'[t][n], m))
                       - Tick(n \in DOMAIN stack[t] /\ Pends(stack[t][n], m))
                       + Tick(m \in owned') - Tick(m \in owned)
  PROVE  MallocCounts'
<1> SUFFICES ASSUME NEW m \in AllMallocs
             PROVE  mref'[m] = Cardinality(OwnedBy(m)') + Cardinality(Releases(m)')
                       + (IF m \in owned' THEN 1 ELSE 0)
                       + (IF LoaderHolds(m)' THEN 1 ELSE 0)
                       + (IF m \in Defaults THEN inits'[m] ELSE 0)
  BY DEF MallocCounts
<1>1. OwnedBy(m)' = OwnedBy(m) /\ Cardinality(OwnedBy(m)) \in Nat
  BY Finite, FS_CardinalityType DEF OwnedBy
<1>2. /\ Cardinality(Releases(m)') = Cardinality(Releases(m))
           + Tick(n \in DOMAIN stack'[t] /\ Pends(stack'[t][n], m))
           - Tick(n \in DOMAIN stack[t] /\ Pends(stack[t][n], m))
      /\ Cardinality(Releases(m)) \in Nat /\ Cardinality(Releases(m)') \in Nat
  BY ReleasesChange
<1>3. /\ (LoaderHolds(m)' <=> LoaderHolds(m)) /\ inits' = inits
      /\ m \in Defaults => inits[m] \in Nat
  BY DEF LoaderHolds, libVars, TypesOK, TypeOK
<1>4. mref[m] = Cardinality(OwnedBy(m)) + Cardinality(Releases(m)) + Tick(m \in owned)
                  + Tick(LoaderHolds(m)) + (IF m \in Defaults THEN inits[m] ELSE 0)
  BY DEF MallocCounts, Tick
<1>5. \A b : Tick(b) \in Int
  BY DEF Tick
<1>6. mref'[m] = Cardinality(OwnedBy(m)) + Cardinality(Releases(m)') + Tick(m \in owned')
                  + Tick(LoaderHolds(m)) + (IF m \in Defaults THEN inits[m] ELSE 0)
  BY <1>1, <1>2, <1>3, <1>4, <1>5
<1> QED BY <1>1, <1>3, <1>6 DEF Tick

LEMMA CallsHeldStep ==
  ASSUME TypesOK, CallsHeld, NEW t \in Threads, NEW n, Elsewhere(t, n),
         held' \in [Threads -> [Objects -> Nat]],
         \A u \in Threads \ {t}, o \in Objects : held'[u][o] >= held[u][o],
         \A o \in Objects :
           held[t][o] + Tick(n \in DOMAIN stack'[t] /\ stack'[t][n].op = "method" /\ stack'[t][n].obj = o)
             - Tick(n \in DOMAIN stack[t] /\ stack[t][n].op = "method" /\ stack[t][n].obj = o)
             <= held'[t][o]
           \/ Cardinality(Calls(t, o)') <= held'[t][o]
  PROVE  CallsHeld'
<1> SUFFICES ASSUME NEW u \in Threads, NEW o \in Objects
             PROVE  Cardinality(Calls(u, o)') <= held'[u][o]
  BY DEF CallsHeld
<1>1. held[u][o] \in Nat /\ held'[u][o] \in Nat /\ Cardinality(Calls(u, o)) <= held[u][o]
  BY DEF TypesOK, TypeOK, CallsHeld
<1>2. CASE u # t
  <2>1. Calls(u, o)' = Calls(u, o) /\ Cardinality(Calls(u, o)) \in Nat
    BY <1>2, CallsChange, Finite, FS_CardinalityType
  <2> QED BY <1>1, <1>2, <2>1
<1>3. CASE u = t
  <2>1. \A b : Tick(b) \in Int
    BY DEF Tick
  <2>2. /\ Cardinality(Calls(t, o)') = Cardinality(Calls(t, o))
             + Tick(n \in DOMAIN stack'[t] /\ stack'[t][n].op = "method" /\ stack'[t][n].obj = o)
             - Tick(n \in DOMAIN stack[t] /\ stack[t][n].op = "method" /\ stack[t][n].obj = o)
        /\ Cardinality(Calls(t, o)) \in Nat /\ Cardinality(Calls(t, o)') \in Nat
    BY CallsChange
  <2> QED BY <1>1, <1>3, <2>1, <2>2
<1> QED BY <1>2, <1>3

LEMMA HeapsSame ==
  ASSUME HeapsOK, NEW t \in Threads, NEW n, Elsewhere(t, n), UNCHANGED <<heapVars, dll>>,
         \A o \in Objects : /\ obj'[o].state = obj[o].state /\ obj'[o].buffer = obj[o].buffer
                            /\ obj'[o].malloc = obj[o].malloc,
         n \in DOMAIN stack'[t] => stack'[t][n].step # "free"
  PROVE  HeapsOK'
<1>1. heap' = heap /\ misfreed' = misfreed /\ dll' = dll
  BY DEF heapVars
<1>2. ASSUME NEW u \in Threads, NEW k \in DOMAIN stack'[u], stack'[u][k].step = "free"
      PROVE  \A h \in Heaps : <<"object", stack'[u][k].obj>> \in heap[h] <=>
                                h = HeapOf(stack'[u][k].malloc)
  <2>1. k \in DOMAIN stack[u] /\ stack'[u][k] = stack[u][k]
    BY <1>2 DEF Elsewhere
  <2> QED BY <1>2, <2>1 DEF HeapsOK
<1>3. ASSUME NEW o \in Objects, NEW h \in Heaps
      PROVE  /\ <<"buffer", o>> \in heap'[h] <=> obj'[o].buffer /\ h = HeapOf(obj'[o].malloc)
             /\ obj'[o].state = "free" => <<"object", o>> \notin heap'[h]
             /\ obj'[o].state = "live" =>
                  (<<"object", o>> \in heap'[h] <=> h = HeapOf(obj'[o].malloc))
  <2>1. /\ obj'[o].state = obj[o].state /\ obj'[o].buffer = obj[o].buffer
        /\ HeapOf(obj'[o].malloc) = HeapOf(obj[o].malloc) /\ heap' = heap
    BY <1>1
  <2>2. /\ <<"buffer", o>> \in heap[h] <=> obj[o].buffer /\ h = HeapOf(obj[o].malloc)
        /\ obj[o].state = "free" => <<"object", o>> \notin heap[h]
        /\ obj[o].state = "live" => (<<"object", o>> \in heap[h] <=> h = HeapOf(obj[o].malloc))
    BY DEF HeapsOK
  <2> QED BY <2>1, <2>2
<1>5. /\ misfreed' = {}
      /\ \A h \in Heaps : <<"globals", None>> \in heap'[h] <=>
           h = "process" /\ dll' \in {"attach.clear", "up", "detach.default", "detach.free"}
  BY <1>1 DEF HeapsOK
<1> QED BY <1>1, <1>2, <1>3, <1>5 DEF HeapsOK

\* Steps that neither make, destroy nor fill an object.
LEMMA ThreadStep ==
  ASSUME IInv, NEW t \in Threads, NEW n, Elsewhere(t, n), dll = "up",
         UNCHANGED <<libVars, heapVars>>,
         \A o \in Objects : /\ obj'[o].state = obj[o].state /\ obj'[o].buffer = obj[o].buffer
                            /\ obj'[o].malloc = obj[o].malloc,
         n \in DOMAIN stack'[t] => stack'[t][n].step # "free",
         n \in DOMAIN stack[t] => stack[t][n].step # "free",
         n \in DOMAIN stack'[t] /\ stack'[t][n].step \in Dying =>
           \/ n \in DOMAIN stack[t] /\ stack[t][n].step \in Dying /\ stack[t][n].obj = stack'[t][n].obj
           \/ \A u \in Threads : \A k \in DOMAIN stack[u] :
                stack[u][k].step \in Dying => stack[u][k].obj # stack'[t][n].obj,
         TypeOK', FramesOK', ObjectsOK', ObjectCounts', MallocCounts', CallsHeld', ScopesNest'
  PROVE  IInv'
<1>1. TypesOK'
  BY DEF IInv, TypesOK, libVars, Elsewhere
<1>2. OneDestroyer'
  BY DestroyerStep DEF IInv
<1>3. Buried'
  BY BuriedStep DEF IInv
<1>4. Quiet' /\ LibraryOK'
  BY DEF IInv, Quiet, LibraryOK, libVars
<1>5. HeapsOK'
  BY HeapsSame DEF IInv, libVars
<1> QED BY <1>1, <1>2, <1>3, <1>4, <1>5 DEF IInv

LEMMA InUp ==
  ASSUME IInv, NEW t \in Threads, InClient(t) \/ stack[t] # <<>>
  PROVE  dll = "up" /\ defaultMalloc \in Defaults
<1>1. dll = "up"
  BY DEF IInv, Quiet, InClient
<1> QED BY <1>1 DEF IInv, LibraryOK, TypesOK, TypeOK

\* Nobody's references change.
LEMMA ObjectsSame ==
  ASSUME IInv, UNCHANGED <<obj, held>>
  PROVE  /\ ObjectsOK' /\ ObjectCounts'
         /\ \A o \in Objects : /\ Kept(o) /\ obj'[o].state = obj[o].state
                               /\ obj'[o].buffer = obj[o].buffer
         /\ \A p \in Objects : obj'[p].malloc = obj[p].malloc
BY DEF IInv, ObjectsOK, ObjectOK, ObjectCounts, ClientRefs, MemberRefs, Kept

-----------------------------------------------------------------------------
(* The steps: scopes.                                                      *)

\* A step that only opens or closes a scope, at position n.
LEMMA ScopeStep ==
  ASSUME IInv, NEW t \in Threads, NEW n \in Nat \ {0}, Elsewhere(t, n), dll = "up",
         n \in {Len(stack[t]), Len(stack[t]) + 1},
         UNCHANGED <<libVars, mref, owned, obj, held, heapVars>>,
         tls' \in [Threads -> AllMallocs \cup {None}],
         NEW m, tls' = [tls EXCEPT ![t] = m],
         NEW p, IsInnermost(t, n, p),
         \/ /\ Len(stack'[t]) = n /\ stack'[t][n].scoped
            /\ stack'[t][n].prior = p /\ m = stack'[t][n].malloc
         \/ Len(stack'[t]) = n /\ ~stack'[t][n].scoped /\ m = p
         \/ Len(stack'[t]) = n - 1 /\ m = p,
         n \in DOMAIN stack'[t] => FrameOK(stack'[t][n]) /\ stack'[t][n].step \notin Dying,
         n \in DOMAIN stack[t] => stack[t][n].step # "free",
         \A a \in AllMallocs : (n \in DOMAIN stack'[t] /\ Pends(stack'[t][n], a))
                                 <=> (n \in DOMAIN stack[t] /\ Pends(stack[t][n], a)),
         CallsHeld'
  PROVE  IInv'
<1>1. tls'[t] = m /\ \A u \in Threads \ {t} : tls'[u] = tls[u]
  BY DEF IInv, TypesOK, TypeOK
<1>2. ScopesNest'
  <2>1. UNCHANGED <<dll, defaultMalloc>> /\ TypesOK /\ ScopesNest
    BY DEF libVars, IInv
  <2> QED BY <1>1, <2>1, ScopesStep
<1>3. TypeOK'
  <2>1. \A u \in Threads : Frames(u)' \subseteq FrameType
    BY DEF Elsewhere, Frames
  <2> QED BY <2>1 DEF IInv, TypesOK, TypeOK, libVars, heapVars, FrameType
<1>4. FramesOK'
  <2> PICK g : g = stack'[t][n]
    OBVIOUS
  <2>1. n \in DOMAIN stack'[t] => FrameOK(g)'
    BY DEF FrameOK, libVars
  <2>2. \A u \in Threads : \A k \in DOMAIN stack[u] : (u = t => k # n) =>
           /\ stack[u][k].op = "create" => stack[u][k].malloc \in owned' \cup {defaultMalloc'}
           /\ stack[u][k].op = "method" => Kept(stack[u][k].obj)
           /\ stack[u][k].step \in Dying => Kept(stack[u][k].obj)
    BY DEF IInv, FramesOK, FrameOK, Kept, libVars
  <2>3. TypesOK /\ FramesOK
    BY DEF IInv
  <2> QED BY <2>1, <2>2, <2>3, FramesStep
<1>5. MallocCounts'
  <2>1. \A a \in AllMallocs : mref[a] \in Nat
    BY DEF IInv, TypesOK, TypeOK
  <2>2. \A a \in AllMallocs :
          /\ Tick(n \in DOMAIN stack'[t] /\ Pends(stack'[t][n], a))
               = Tick(n \in DOMAIN stack[t] /\ Pends(stack[t][n], a))
          /\ Tick(n \in DOMAIN stack[t] /\ Pends(stack[t][n], a)) \in Int
          /\ Tick(a \in owned') = Tick(a \in owned) /\ Tick(a \in owned) \in Int
    BY DEF Tick
  <2>3. \A a \in AllMallocs :
           mref'[a] = mref[a]
                       + Tick(n \in DOMAIN stack'[t] /\ Pends(stack'[t][n], a))
                       - Tick(n \in DOMAIN stack[t] /\ Pends(stack[t][n], a))
                       + Tick(a \in owned') - Tick(a \in owned)
    BY <2>1, <2>2
  <2> QED BY <2>3, ObjectsSame, MallocsStepAside DEF IInv
<1> QED BY <1>2, <1>3, <1>4, <1>5, ObjectsSame, ThreadStep DEF Dying

LEMMA CreateInstanceInv ==
  ASSUME IInv, NEW t \in Threads, CreateInstance(t)
  PROVE  IInv'
<1>1. PICK m \in owned \cup {defaultMalloc} :
        /\ Push(t, Frame("create", None, m, tls[t], TRUE, "body"))
        /\ tls' = [tls EXCEPT ![t] = m]
  BY DEF CreateInstance
<1>2. UNCHANGED <<libVars, mref, owned, obj, held, heapVars>> /\ InClient(t)
  BY DEF CreateInstance
<1>3. dll = "up" /\ m \in AllMallocs
  BY <1>2, InUp DEF IInv, TypesOK, TypeOK, AllMallocs
<1>4. /\ tls' \in [Threads -> AllMallocs \cup {None}] /\ tls[t] \in AllMallocs \cup {None}
  BY <1>1, <1>3 DEF IInv, TypesOK, TypeOK
<1> DEFINE f == Frame("create", None, m, tls[t], TRUE, "body")
           n == Len(stack[t]) + 1
<1>5. f \in FrameType /\ FrameOK(f)
  BY <1>3, <1>4 DEF Frame, FrameType, FrameOK, Dying
<1>6. /\ f.scoped /\ f.prior = tls[t] /\ f.malloc = m /\ f.op = "create" /\ f.step = "body"
  BY DEF Frame
<1> HIDE DEF f
<1>7. /\ Elsewhere(t, n) /\ Len(stack[t]) \in Nat /\ stack'[t][n] = f
      /\ DOMAIN stack[t] = 1 .. Len(stack[t]) /\ Len(stack'[t]) = n
      /\ n \in Nat \ {0} /\ n \notin DOMAIN stack[t]
  <2>1. TypesOK /\ Push(t, f)
    BY <1>1 DEF f, IInv
  <2> QED BY <1>5, <2>1, Pushed
<1>8. IsInnermost(t, n, tls[t])
  BY TopScope DEF IInv
<1> HIDE DEF n
<1>9. CallsHeld'
  <2>1. \A o : Calls(t, o)' = Calls(t, o)
    BY <1>6, <1>7 DEF Elsewhere, Calls
  <2>2. \A u \in Threads \ {t} : \A o : Calls(u, o)' = Calls(u, o)
    BY <1>7, CallsChange DEF IInv
  <2> QED BY <1>2, <2>1, <2>2 DEF IInv, CallsHeld
<1>10. \A a \in AllMallocs : (n \in DOMAIN stack'[t] /\ Pends(stack'[t][n], a))
                               <=> (n \in DOMAIN stack[t] /\ Pends(stack[t][n], a))
  BY <1>6, <1>7 DEF Pends
<1>11. FrameOK(stack'[t][n]) /\ stack'[t][n].step \notin Dying
  BY <1>5, <1>6, <1>7 DEF Dying
<1> QED
  BY <1>1, <1>2, <1>3, <1>4, <1>6, <1>7, <1>8, <1>9, <1>10, <1>11, ScopeStep DEF n

LEMMA CallInv ==
  ASSUME IInv, NEW t \in Threads, Call(t)
  PROVE  IInv'
<1>1. PICK o \in Objects :
        /\ Spare(t, o) > 0 /\ ~obj[o].stream
        /\ Push(t, Frame("method", o, obj[o].malloc, tls[t], TRUE, "body"))
        /\ tls' = [tls EXCEPT ![t] = obj[o].malloc]
  BY DEF Call
<1>2. UNCHANGED <<libVars, mref, owned, obj, held, heapVars>> /\ InClient(t)
  BY DEF Call
<1>a. held[t][o] \in Nat /\ Cardinality(Calls(t, o)) \in Nat
  BY Finite, FS_CardinalityType DEF IInv, TypesOK, TypeOK
<1>b. held[t][o] > 0
  BY <1>1, <1>a DEF Spare
<1>c. obj[o].state = "live"
  BY <1>b, ObjectAlive DEF IInv
<1>3. dll = "up" /\ obj[o].malloc \in AllMallocs
  BY <1>2, <1>c, InUp DEF IInv, ObjectsOK, ObjectOK
<1>4. /\ tls' \in [Threads -> AllMallocs \cup {None}] /\ tls[t] \in AllMallocs \cup {None}
  BY <1>1, <1>3 DEF IInv, TypesOK, TypeOK
<1> DEFINE f == Frame("method", o, obj[o].malloc, tls[t], TRUE, "body")
           n == Len(stack[t]) + 1
<1>5. f \in FrameType /\ FrameOK(f)
  BY <1>1, <1>3, <1>4, <1>c DEF Frame, FrameType, FrameOK, Dying
<1>6. /\ f.scoped /\ f.prior = tls[t] /\ f.malloc = obj[o].malloc /\ f.op = "method"
      /\ f.step = "body" /\ f.obj = o
  BY DEF Frame
<1> HIDE DEF f
<1>7. /\ Elsewhere(t, n) /\ Len(stack[t]) \in Nat /\ stack'[t][n] = f
      /\ DOMAIN stack[t] = 1 .. Len(stack[t]) /\ Len(stack'[t]) = n
      /\ n \in Nat \ {0} /\ n \notin DOMAIN stack[t]
  <2>1. TypesOK /\ Push(t, f)
    BY <1>1 DEF f, IInv
  <2> QED BY <1>5, <2>1, Pushed
<1>8. IsInnermost(t, n, tls[t])
  BY TopScope DEF IInv
<1> HIDE DEF n
<1>9. CallsHeld'
  <2>1. \A u \in Threads \ {t} : \A q : Calls(u, q)' = Calls(u, q)
    BY <1>7, CallsChange DEF IInv
  <2>2. \A q : q # o => Calls(t, q)' = Calls(t, q)
    BY <1>6, <1>7 DEF Elsewhere, Calls
  <2>3. Calls(t, o)' \ {n} = Calls(t, o) \ {n} /\ n \notin Calls(t, o)
    BY <1>7 DEF Elsewhere, Calls
  <2>4. Cardinality(Calls(t, o)') <= Cardinality(Calls(t, o)) + 1
    <3>1. IsFiniteSet(Calls(t, o))
      BY Finite DEF IInv
    <3>2. /\ Cardinality(Calls(t, o)') = Cardinality(Calls(t, o))
               + Tick(n \in Calls(t, o)') - Tick(n \in Calls(t, o))
          /\ Cardinality(Calls(t, o)) \in Nat /\ Cardinality(Calls(t, o)') \in Nat
      BY <2>3, <3>1, CountChange
    <3> QED BY <3>2 DEF Tick
  <2>5. Cardinality(Calls(t, o)') <= held[t][o]
    <3>1. Cardinality(Calls(t, o)') \in Nat
      BY <2>3, Finite, CountChange DEF IInv
    <3> QED BY <1>1, <1>a, <2>4, <3>1 DEF Spare
  <2> QED BY <1>2, <2>1, <2>2, <2>5 DEF IInv, CallsHeld
<1>10. \A a \in AllMallocs : (n \in DOMAIN stack'[t] /\ Pends(stack'[t][n], a))
                               <=> (n \in DOMAIN stack[t] /\ Pends(stack[t][n], a))
  BY <1>6, <1>7 DEF Pends
<1>11. FrameOK(stack'[t][n]) /\ stack'[t][n].step \notin Dying
  BY <1>5, <1>6, <1>7 DEF Dying
<1> QED
  BY <1>1, <1>2, <1>3, <1>4, <1>6, <1>7, <1>8, <1>9, <1>10, <1>11, ScopeStep DEF n

LEMMA ReturnInv ==
  ASSUME IInv, NEW t \in Threads, Return(t)
  PROVE  IInv'
<1> DEFINE n == Len(stack[t])
           f == Top(t)
<1>1. /\ stack[t] # <<>> /\ f.op \in {"create", "method"} /\ tls' = [tls EXCEPT ![t] = f.prior]
      /\ Pop(t) /\ UNCHANGED <<libVars, mref, owned, obj, held, heapVars>>
  BY DEF Return, InBody
<1>2. /\ n \in DOMAIN stack[t] /\ n \in Nat \ {0} /\ f = stack[t][n]
      /\ f \in FrameType /\ FrameOK(f)
  BY <1>1, TopOf DEF IInv
<1>3. dll = "up"
  BY <1>1, InUp
<1> HIDE DEF f
<1>4. f.scoped /\ f.step = "body" /\ f.op # "release" /\ f.prior \in AllMallocs \cup {None}
  BY <1>1, <1>2 DEF FrameOK, FrameType
<1>5. tls' \in [Threads -> AllMallocs \cup {None}]
  BY <1>1, <1>4 DEF IInv, TypesOK, TypeOK
<1>6. /\ Elsewhere(t, n) /\ Len(stack'[t]) = n - 1 /\ n \notin DOMAIN stack'[t]
  BY <1>1, <1>2, Popped DEF IInv
<1>7. IsInnermost(t, n, f.prior)
  BY <1>1, <1>4, TopScope DEF f, IInv
<1> HIDE DEF n
<1>8. CallsHeld'
  <2>1. \A b : Tick(b) \in {0, 1}
    BY DEF Tick
  <2>2. \A o \in Objects :
          /\ Cardinality(Calls(t, o)') <= Cardinality(Calls(t, o))
          /\ Cardinality(Calls(t, o)') \in Nat /\ Cardinality(Calls(t, o)) \in Nat
    <3> SUFFICES ASSUME NEW o \in Objects
                 PROVE  /\ Cardinality(Calls(t, o)') <= Cardinality(Calls(t, o))
                        /\ Cardinality(Calls(t, o)') \in Nat /\ Cardinality(Calls(t, o)) \in Nat
      OBVIOUS
    <3>1. Calls(t, o)' \ {n} = Calls(t, o) \ {n} /\ n \notin Calls(t, o)'
      BY <1>6 DEF Elsewhere, Calls
    <3>2. /\ Cardinality(Calls(t, o)') = Cardinality(Calls(t, o))
               + Tick(n \in Calls(t, o)') - Tick(n \in Calls(t, o))
          /\ Cardinality(Calls(t, o)) \in Nat /\ Cardinality(Calls(t, o)') \in Nat
      BY <3>1, Finite, CountChange DEF IInv
    <3> QED BY <3>1, <3>2 DEF Tick
  <2>3. \A u \in Threads \ {t} : \A q : Calls(u, q)' = Calls(u, q)
    BY <1>6, CallsChange DEF IInv
  <2>4. \A o \in Objects : held[t][o] \in Nat
    BY DEF IInv, TypesOK, TypeOK
  <2>5. \A o \in Objects : Cardinality(Calls(t, o)') <= held[t][o]
    BY <2>2, <2>4 DEF IInv, CallsHeld
  <2> QED BY <1>1, <2>3, <2>5 DEF IInv, CallsHeld
<1>9. \A a \in AllMallocs : (n \in DOMAIN stack'[t] /\ Pends(stack'[t][n], a))
                              <=> (n \in DOMAIN stack[t] /\ Pends(stack[t][n], a))
  BY <1>2, <1>4, <1>6 DEF Pends
<1> QED
  BY <1>1, <1>2, <1>3, <1>4, <1>5, <1>6, <1>7, <1>8, <1>9, ScopeStep DEF n

LEMMA RestoreTlsInv ==
  ASSUME IInv, NEW t \in Threads, RestoreTls(t)
  PROVE  IInv'
<1> DEFINE n == Len(stack[t])
           f == Top(t)
           g == [f EXCEPT !.scoped = FALSE, !.step = "drop"]
<1>1. /\ stack[t] # <<>> /\ f.op = "release" /\ f.step = "restore"
      /\ tls' = [tls EXCEPT ![t] = f.prior] /\ SetTop(t, g)
      /\ UNCHANGED <<libVars, mref, owned, obj, held, heapVars>>
  BY DEF RestoreTls, InRelease
<1>2. /\ n \in DOMAIN stack[t] /\ n \in Nat \ {0} /\ f = stack[t][n]
      /\ f \in FrameType /\ FrameOK(f)
  BY <1>1, TopOf DEF IInv
<1>3. dll = "up"
  BY <1>1, InUp
<1> HIDE DEF f
<1>4. f.scoped /\ f.prior \in AllMallocs \cup {None}
  BY <1>1, <1>2 DEF FrameOK, FrameType
<1>5. tls' \in [Threads -> AllMallocs \cup {None}]
  BY <1>1, <1>4 DEF IInv, TypesOK, TypeOK
<1>6. /\ g \in FrameType /\ g.op = "release" /\ g.step = "drop" /\ ~g.scoped
      /\ g.malloc = f.malloc /\ g.malloc \in AllMallocs
  BY <1>1, <1>2 DEF FrameType, FrameOK
<1> HIDE DEF g
<1>7. FrameOK(g) /\ g.step \notin Dying
  BY <1>6 DEF FrameOK, Dying
<1>8. /\ Elsewhere(t, n) /\ Len(stack'[t]) = n /\ n \in DOMAIN stack'[t] /\ stack'[t][n] = g
  <2>1. TypesOK
    BY DEF IInv
  <2> QED BY <1>1, <1>2, <1>6, <2>1, TopSet
<1>9. IsInnermost(t, n, f.prior)
  BY <1>1, <1>4, TopScope DEF f, IInv
<1> HIDE DEF n
<1>10. CallsHeld'
  <2>1. \A u \in Threads : \A q : Calls(u, q)' = Calls(u, q)
    BY <1>1, <1>2, <1>6, <1>8 DEF Elsewhere, Calls
  <2> QED BY <1>1, <2>1 DEF IInv, CallsHeld
<1>11. \A a \in AllMallocs : (n \in DOMAIN stack'[t] /\ Pends(stack'[t][n], a))
                               <=> (n \in DOMAIN stack[t] /\ Pends(stack[t][n], a))
  BY <1>1, <1>2, <1>6, <1>8 DEF Pends
<1> QED
  BY <1>1, <1>2, <1>3, <1>5, <1>6, <1>7, <1>8, <1>9, <1>10, <1>11, ScopeStep DEF n

-----------------------------------------------------------------------------
(* The steps: references.                                                  *)

ObjType ==
  [state : {"free", "live", "destroyed"}, stream : BOOLEAN, malloc : AllMallocs \cup {None},
   dwRef : Nat, buffer : BOOLEAN, member : Objects \cup {None}]

\* One field of a record, the others as they were.
LEMMA RefsOf ==
  ASSUME NEW x \in ObjType, NEW d \in Nat, NEW y, y = [x EXCEPT !.dwRef = d]
  PROVE  /\ y \in ObjType /\ y.dwRef = d /\ y.state = x.state /\ y.stream = x.stream
         /\ y.malloc = x.malloc /\ y.buffer = x.buffer /\ y.member = x.member
BY DEF ObjType

LEMMA MemberOf ==
  ASSUME NEW x \in ObjType, NEW c \in Objects \cup {None}, NEW y, y = [x EXCEPT !.member = c]
  PROVE  /\ y \in ObjType /\ y.member = c /\ y.state = x.state /\ y.stream = x.stream
         /\ y.malloc = x.malloc /\ y.buffer = x.buffer /\ y.dwRef = x.dwRef
BY DEF ObjType

LEMMA BufferOf ==
  ASSUME NEW x \in ObjType, NEW b \in BOOLEAN, NEW y, y = [x EXCEPT !.buffer = b]
  PROVE  /\ y \in ObjType /\ y.buffer = b /\ y.state = x.state /\ y.stream = x.stream
         /\ y.malloc = x.malloc /\ y.member = x.member /\ y.dwRef = x.dwRef
BY DEF ObjType

LEMMA ObjTyped ==
  ASSUME IInv
  PROVE  obj \in [Objects -> ObjType]
BY DEF IInv, TypesOK, TypeOK, ObjType

\* The frames when no call begins, ends or goes on.
LEMMA FramesSame ==
  ASSUME IInv, UNCHANGED <<stack, defaultMalloc>>,
         \A u \in Threads : \A k \in DOMAIN stack[u] :
           /\ stack[u][k].op = "create" => stack[u][k].malloc \in owned' \cup {defaultMalloc}
           /\ stack[u][k].op = "method" => Kept(stack[u][k].obj)
           /\ stack[u][k].step \in Dying => Kept(stack[u][k].obj)
  PROVE  FramesOK'
<1> SUFFICES ASSUME NEW u \in Threads, NEW k \in DOMAIN stack'[u], NEW x, x = stack'[u][k]
             PROVE  FrameOK(x)'
  BY DEF FramesOK
<1>1. k \in DOMAIN stack[u] /\ x = stack[u][k]
  OBVIOUS
<1>2. FrameOK(x)
  BY <1>1 DEF IInv, FramesOK
<1>3. x.op = "create" => x.malloc \in owned' \cup {defaultMalloc'}
  BY <1>1
<1>4. x.op = "method" \/ x.step \in Dying =>
        /\ obj'[x.obj].state = obj[x.obj].state /\ obj'[x.obj].stream = obj[x.obj].stream
        /\ obj'[x.obj].malloc = obj[x.obj].malloc /\ (obj[x.obj].dwRef = 0 => obj'[x.obj].dwRef = 0)
  BY <1>1 DEF Kept
<1>5. defaultMalloc' = defaultMalloc
  OBVIOUS
<1>6. /\ x.op = "create" => /\ x.step = "body" /\ x.scoped /\ x.malloc \in AllMallocs
                            /\ x.malloc \in owned' \cup {defaultMalloc'}
      /\ x.op = "release" <=> x.step # "body"
      /\ x.step = "restore" => x.scoped
      /\ x.step = "drop" => ~x.scoped
      /\ x.step \notin {"body", "enter"} => x.malloc \in AllMallocs
  BY <1>2, <1>3 DEF FrameOK
<1>7. x.op = "method" => /\ x.step = "body" /\ x.scoped /\ x.obj \in Objects
                         /\ obj'[x.obj].state = "live" /\ ~obj'[x.obj].stream
                         /\ x.malloc = obj'[x.obj].malloc
  BY <1>2, <1>4 DEF FrameOK
<1>8. /\ x.step \in Dying => x.obj \in Objects /\ obj'[x.obj].dwRef = 0
      /\ x.step = "enter" => ~x.scoped /\ obj'[x.obj].state = "live"
      /\ x.step = "free" => obj'[x.obj].state = "destroyed"
  BY <1>2, <1>4 DEF FrameOK, Dying
<1>9. x.step = "members" => /\ obj'[x.obj].state = "live" /\ x.malloc = obj'[x.obj].malloc
                            /\ x.scoped = ~obj'[x.obj].stream
  BY <1>2, <1>4 DEF FrameOK, Dying
<1> HIDE <1>2, <1>3, <1>4
<1> QED BY <1>5, <1>6, <1>7, <1>8, <1>9 DEF FrameOK

LEMMA ScopesSame ==
  ASSUME ScopesNest, UNCHANGED <<stack, tls, dll, defaultMalloc>>
  PROVE  ScopesNest'
<1>1. \A t \in Threads : Outside(t)' = Outside(t)
  BY DEF Outside, LoaderHolds
<1>2. ASSUME NEW t \in Threads, NEW k, NEW m, IsInnermost(t, k, m)
      PROVE  IsInnermost(t, k, m)'
  BY <1>1, <1>2 DEF IsInnermost
<1>3. ASSUME NEW t \in Threads
      PROVE  IsInnermost(t, Len(stack[t]) + 1, tls[t])'
  <2>1. stack'[t] = stack[t] /\ tls'[t] = tls[t] /\ IsInnermost(t, Len(stack[t]) + 1, tls[t])
    BY DEF ScopesNest
  <2>2. PICK n : n = Len(stack[t]) + 1
    OBVIOUS
  <2>3. PICK m : m = tls[t]
    OBVIOUS
  <2>4. IsInnermost(t, n, m)'
    BY <2>1, <2>2, <2>3, <1>2
  <2> QED BY <2>1, <2>2, <2>3, <2>4
<1>4. ASSUME NEW t \in Threads, NEW k \in DOMAIN stack'[t], stack'[t][k].scoped
      PROVE  IsInnermost(t, k, stack[t][k].prior)'
  <2>1. stack'[t] = stack[t] /\ IsInnermost(t, k, stack[t][k].prior)
    BY <1>4 DEF ScopesNest
  <2>2. PICK m : m = stack[t][k].prior
    OBVIOUS
  <2>3. IsInnermost(t, k, m)'
    BY <2>1, <2>2, <1>2
  <2> QED BY <2>1, <2>2, <2>3
<1> QED BY <1>3, <1>4 DEF ScopesNest

LEMMA CallsSame ==
  ASSUME UNCHANGED stack
  PROVE  /\ \A u \in Threads : \A q : Calls(u, q)' = Calls(u, q)
         /\ \A m : Releases(m)' = Releases(m)
         /\ \A u \in Threads : Frames(u)' = Frames(u)
BY DEF Calls, Releases, Pending, Frames

\* The objects that calls rely on are among the objects.
LEMMA FrameObjects ==
  ASSUME IInv, NEW u \in Threads, NEW k \in DOMAIN stack[u]
  PROVE  /\ FrameOK(stack[u][k])
         /\ stack[u][k].op = "method" \/ stack[u][k].step \in Dying => stack[u][k].obj \in Objects
         /\ stack[u][k].op = "create" => stack[u][k].malloc \in owned \cup {defaultMalloc}
BY DEF IInv, FramesOK, FrameOK

\* A step of the clients with the references they hold; calls go on.
LEMMA HoldStep ==
  ASSUME IInv, NEW t \in Threads, dll = "up",
         UNCHANGED <<libVars, tls, mref, owned, stack, heapVars>>,
         obj' \in [Objects -> ObjType], held' \in [Threads -> [Objects -> Nat]],
         \A p \in Objects : /\ obj'[p].state = obj[p].state /\ obj'[p].stream = obj[p].stream
                            /\ obj'[p].malloc = obj[p].malloc /\ obj'[p].buffer = obj[p].buffer
                            /\ obj[p].dwRef = 0 => obj'[p].dwRef = 0
                            /\ obj[p].state # "live" => obj'[p].member = obj[p].member,
         ObjectCounts',
         \A u \in Threads, q \in Objects : Cardinality(Calls(u, q)) <= held'[u][q]
  PROVE  IInv'
<1>1. TypeOK'
  BY CallsSame DEF IInv, TypesOK, TypeOK, ObjType, libVars, heapVars
<1>2. FramesOK'
  BY FrameObjects, FramesSame DEF Kept, libVars
<1>3. ObjectsOK'
  BY DEF IInv, ObjectsOK, ObjectOK
<1>4. CallsHeld'
  BY CallsSame DEF CallsHeld
<1>5. MallocCounts' /\ ScopesNest'
  BY CallsSame, ScopesSame DEF MallocCounts, OwnedBy, LoaderHolds, libVars, IInv
<1>6. TypesOK
  BY DEF IInv
<1>7. Elsewhere(t, 0) /\ 0 \notin DOMAIN stack[t] /\ 0 \notin DOMAIN stack'[t]
  BY <1>6, SameStacks
<1> QED BY <1>1, <1>2, <1>3, <1>4, <1>5, <1>7, ThreadStep

LEMMA ClientAddRefInv ==
  ASSUME IInv, NEW t \in Threads, ClientAddRef(t)
  PROVE  IInv'
<1>1. PICK o \in Objects :
        /\ held[t][o] > 0
        /\ obj' = [obj EXCEPT ![o].dwRef = @ + 1]
        /\ held' = [held EXCEPT ![t][o] = @ + 1]
  BY DEF ClientAddRef
<1>2. UNCHANGED <<libVars, tls, mref, owned, stack, heapVars>> /\ InClient(t) /\ TypesOK
  BY DEF ClientAddRef, IInv
<1>3. /\ held' \in [Threads -> [Objects -> Nat]]
      /\ \A u \in Threads, q \in Objects : held'[u][q] = held[u][q] + Tick(u = t /\ q = o)
      /\ \A q \in Objects : Cardinality(ClientRefs(q)') = Cardinality(ClientRefs(q)) + Tick(q = o)
  <2>1. GainsRef(t, o)
    BY <1>1 DEF GainsRef
  <2> QED BY <1>2, <2>1, HeldUp
<1>4. obj \in [Objects -> ObjType] /\ obj[o].dwRef \in Nat /\ obj[o].dwRef > 0 /\ obj[o].state = "live"
  BY <1>1, ObjTyped, ObjectAlive DEF ObjType, IInv
<1>5. /\ obj'[o] = [obj[o] EXCEPT !.dwRef = obj[o].dwRef + 1]
      /\ \A p \in Objects \ {o} : obj'[p] = obj[p]
      /\ obj' = [obj EXCEPT ![o] = obj'[o]]
  BY <1>1, <1>4
<1>6. /\ obj'[o] \in ObjType /\ obj'[o].dwRef = obj[o].dwRef + 1 /\ obj'[o].state = obj[o].state
      /\ obj'[o].stream = obj[o].stream /\ obj'[o].malloc = obj[o].malloc
      /\ obj'[o].buffer = obj[o].buffer /\ obj'[o].member = obj[o].member
  <2>1. obj[o] \in ObjType /\ obj[o].dwRef + 1 \in Nat
    BY <1>4
  <2> QED BY <1>5, <2>1, RefsOf
<1>7. obj' \in [Objects -> ObjType]
  BY <1>4, <1>5, <1>6
<1>8. ObjectCounts'
  <2> SUFFICES ASSUME NEW q \in Objects
               PROVE  obj'[q].dwRef = Cardinality(ClientRefs(q)') + Cardinality(MemberRefs(q)')
    BY DEF ObjectCounts
  <2>1. MemberRefs(q)' = MemberRefs(q)
    BY <1>5, <1>6 DEF MemberRefs
  <2>2. Cardinality(ClientRefs(q)) \in Nat /\ Cardinality(MemberRefs(q)) \in Nat
    BY <1>2, Finite, FS_CardinalityType
  <2>3. obj[q].dwRef = Cardinality(ClientRefs(q)) + Cardinality(MemberRefs(q))
    BY DEF IInv, ObjectCounts
  <2>4. Cardinality(ClientRefs(q)') = Cardinality(ClientRefs(q)) + (IF q = o THEN 1 ELSE 0)
    BY <1>3 DEF Tick
  <2>5. obj'[q].dwRef = obj[q].dwRef + (IF q = o THEN 1 ELSE 0)
    <3>1. CASE q = o
      BY <1>6, <3>1
    <3>2. CASE q # o
      BY <1>5, <2>2, <2>3, <3>2
    <3> QED BY <3>1, <3>2
  <2> QED BY <2>1, <2>2, <2>3, <2>4, <2>5
<1>9. \A u \in Threads, q \in Objects : Cardinality(Calls(u, q)) <= held'[u][q]
  <2> SUFFICES ASSUME NEW u \in Threads, NEW q \in Objects
               PROVE  Cardinality(Calls(u, q)) <= held'[u][q]
    OBVIOUS
  <2>1. Cardinality(Calls(u, q)) \in Nat
    BY <1>2, Finite, FS_CardinalityType
  <2>2. held[u][q] \in Nat
    BY <1>2 DEF TypesOK, TypeOK
  <2>3. held'[u][q] = held[u][q] \/ held'[u][q] = held[u][q] + 1
    BY <1>3, <2>2 DEF Tick
  <2>4. Cardinality(Calls(u, q)) <= held[u][q]
    BY DEF IInv, CallsHeld
  <2>5. CASE held'[u][q] = held[u][q]
    BY <2>4, <2>5
  <2>6. CASE held'[u][q] = held[u][q] + 1
    BY <2>1, <2>2, <2>4, <2>6
  <2> QED BY <2>3, <2>5, <2>6
<1>10. dll = "up"
  BY <1>2, InUp
<1>11. \A p \in Objects : /\ obj'[p].state = obj[p].state /\ obj'[p].stream = obj[p].stream
                          /\ obj'[p].malloc = obj[p].malloc /\ obj'[p].buffer = obj[p].buffer
                          /\ obj[p].dwRef = 0 => obj'[p].dwRef = 0
                          /\ obj[p].state # "live" => obj'[p].member = obj[p].member
  <2> TAKE p \in Objects
  <2>1. CASE p = o
    BY <1>4, <1>6, <2>1
  <2>2. CASE p # o
    BY <1>5, <2>2
  <2> QED BY <2>1, <2>2
<1> QED BY <1>2, <1>3, <1>7, <1>8, <1>9, <1>10, <1>11, HoldStep

LEMMA HandOverInv ==
  ASSUME IInv, NEW t \in Threads, HandOver(t)
  PROVE  IInv'
<1>1. PICK o \in Objects, u \in Threads \ {t} :
        /\ Spare(t, o) > 0
        /\ held' = [held EXCEPT ![t][o] = @ - 1, ![u][o] = @ + 1]
  BY DEF HandOver
<1>2. UNCHANGED <<libVars, tls, mref, owned, obj, stack, heapVars>> /\ InClient(t) /\ TypesOK
  BY DEF HandOver, IInv
<1>3. \A v \in Threads, q \in Objects :
        /\ held[v][q] \in Nat /\ Cardinality(Calls(v, q)) \in Nat
        /\ Cardinality(Calls(v, q)) <= held[v][q]
  BY <1>2, Finite, FS_CardinalityType DEF IInv, CallsHeld, TypesOK, TypeOK
<1>4. held[t][o] > 0 /\ Cardinality(Calls(t, o)) <= held[t][o] - 1
  BY <1>1, <1>3 DEF Spare
<1>5. /\ held' \in [Threads -> [Objects -> Nat]]
      /\ \A v \in Threads, q \in Objects : held'[v][q] >= held[v][q] - Tick(v = t /\ q = o)
      /\ \A q \in Objects : Cardinality(ClientRefs(q)') = Cardinality(ClientRefs(q))
  BY <1>1, <1>2, <1>4, HeldOver
<1>6. ObjectCounts'
  BY <1>2, <1>5 DEF ObjectCounts, MemberRefs, IInv
<1>7. \A v \in Threads, q \in Objects : Cardinality(Calls(v, q)) <= held'[v][q]
  <2> SUFFICES ASSUME NEW v \in Threads, NEW q \in Objects
               PROVE  Cardinality(Calls(v, q)) <= held'[v][q]
    OBVIOUS
  <2>1. held'[v][q] \in Nat
    BY <1>5
  <2> QED BY <1>3, <1>4, <1>5, <2>1 DEF Tick
<1>8. dll = "up"
  BY <1>2, InUp
<1> QED BY <1>2, <1>5, <1>6, <1>7, <1>8, ObjTyped, HoldStep

LEMMA StoreMemberInv ==
  ASSUME IInv, NEW t \in Threads, StoreMember(t)
  PROVE  IInv'
<1> DEFINE o == Top(t).obj
<1>1. PICK c \in Objects \ {o} :
        /\ held[t][c] > 0
        /\ obj' = [obj EXCEPT ![o].member = c, ![c].dwRef = @ + 1]
  BY DEF StoreMember
<1>2. /\ UNCHANGED <<libVars, tls, mref, owned, held, stack, heapVars>> /\ TypesOK
      /\ stack[t] # <<>> /\ Top(t).op = "method" /\ obj[o].member = None
  BY DEF StoreMember, InMethod, IInv
<1>3. o \in Objects /\ obj[o].state = "live" /\ obj[o].dwRef > 0 /\ dll = "up"
  <2>1. /\ Len(stack[t]) \in DOMAIN stack[t] /\ Top(t) = stack[t][Len(stack[t])] /\ FrameOK(Top(t))
    BY <1>2, TopOf DEF IInv
  <2>2. o \in Objects /\ obj[o].state = "live"
    BY <1>2, <2>1 DEF FrameOK
  <2> QED BY <1>2, <2>1, <2>2, MethodAlive, InUp DEF IInv
<1> HIDE DEF o
<1>4. obj \in [Objects -> ObjType] /\ obj[c].dwRef \in Nat /\ obj[c].dwRef > 0 /\ obj[c].state = "live"
  BY <1>1, ObjTyped, ObjectAlive DEF ObjType, IInv
<1>5. /\ obj'[o] = [obj[o] EXCEPT !.member = c]
      /\ obj'[c] = [obj[c] EXCEPT !.dwRef = obj[c].dwRef + 1]
      /\ \A p \in Objects \ {o, c} : obj'[p] = obj[p]
      /\ obj' = [obj EXCEPT ![o] = obj'[o], ![c] = obj'[c]]
  BY <1>1, <1>3, <1>4
<1>6. /\ obj'[c] \in ObjType /\ obj'[c].dwRef = obj[c].dwRef + 1 /\ obj'[c].state = obj[c].state
      /\ obj'[c].stream = obj[c].stream /\ obj'[c].malloc = obj[c].malloc
      /\ obj'[c].buffer = obj[c].buffer /\ obj'[c].member = obj[c].member
  BY <1>4, <1>5, RefsOf
<1>7. /\ obj'[o] \in ObjType /\ obj'[o].dwRef = obj[o].dwRef /\ obj'[o].state = obj[o].state
      /\ obj'[o].stream = obj[o].stream /\ obj'[o].malloc = obj[o].malloc
      /\ obj'[o].buffer = obj[o].buffer /\ obj'[o].member = c
  BY <1>3, <1>4, <1>5, MemberOf
<1>8. obj' \in [Objects -> ObjType]
  BY <1>4, <1>5, <1>6, <1>7
<1>9. ObjectCounts'
  <2> SUFFICES ASSUME NEW q \in Objects
               PROVE  obj'[q].dwRef = Cardinality(ClientRefs(q)') + Cardinality(MemberRefs(q)')
    BY DEF ObjectCounts
  <2>1. ClientRefs(q)' = ClientRefs(q) /\ Cardinality(ClientRefs(q)) \in Nat
    BY <1>2, Finite, FS_CardinalityType DEF ClientRefs
  <2>2. /\ Cardinality(MemberRefs(q)') =
             Cardinality(MemberRefs(q)) + Tick(q = obj'[o].member) - Tick(q = obj[o].member)
        /\ Cardinality(MemberRefs(q)) \in Nat /\ Cardinality(MemberRefs(q)') \in Nat
    <3>1. \A p \in Objects \ {o} : obj'[p].member = obj[p].member
      BY <1>5, <1>6
    <3> QED BY <1>2, <1>3, <3>1, MembersChange
  <2>3. q # None
    BY ThreadMallocAssumption
  <2>4. obj[q].dwRef = Cardinality(ClientRefs(q)) + Cardinality(MemberRefs(q))
    BY DEF IInv, ObjectCounts
  <2>5. obj'[q].dwRef = obj[q].dwRef + Tick(q = c)
    BY <1>1, <1>3, <1>4, <1>5, <1>6, <1>7, <2>1, <2>2, <2>4 DEF Tick
  <2> QED BY <1>2, <1>7, <2>1, <2>2, <2>3, <2>4, <2>5 DEF Tick
<1>10. \A u \in Threads, q \in Objects : Cardinality(Calls(u, q)) <= held'[u][q]
  BY <1>2 DEF IInv, CallsHeld
<1>11. held' \in [Threads -> [Objects -> Nat]]
  BY <1>2 DEF TypesOK, TypeOK
<1>12. \A p \in Objects : /\ obj'[p].state = obj[p].state /\ obj'[p].stream = obj[p].stream
                          /\ obj'[p].malloc = obj[p].malloc /\ obj'[p].buffer = obj[p].buffer
                          /\ obj[p].dwRef = 0 => obj'[p].dwRef = 0
                          /\ obj[p].state # "live" => obj'[p].member = obj[p].member
  <2> TAKE p \in Objects
  <2>1. CASE p = o
    BY <1>3, <1>7, <2>1
  <2>2. CASE p = c
    BY <1>4, <1>6, <2>2
  <2>3. CASE p # o /\ p # c
    BY <1>5, <2>3
  <2> QED BY <2>1, <2>2, <2>3
<1> QED BY <1>2, <1>3, <1>8, <1>9, <1>10, <1>11, <1>12, HoldStep

\* The objects after a Release.
LEMMA Released ==
  ASSUME NEW objects \in [Objects -> ObjType], NEW t \in Threads, NEW c \in Objects,
         Release(t, c, objects), objects[c].dwRef > 0
  PROVE  /\ obj' \in [Objects -> ObjType] /\ objects[c].dwRef \in Nat
         /\ \A p \in Objects \ {c} : obj'[p] = objects[p]
         /\ obj'[c].dwRef = objects[c].dwRef - 1 /\ obj'[c].state = objects[c].state
         /\ obj'[c].stream = objects[c].stream /\ obj'[c].malloc = objects[c].malloc
         /\ obj'[c].buffer = objects[c].buffer /\ obj'[c].member = objects[c].member
<1>1. objects[c] \in ObjType /\ objects[c].dwRef \in Nat /\ objects[c].dwRef - 1 \in Nat
  BY DEF ObjType
<1>2. obj' = [objects EXCEPT ![c].dwRef = @ - 1]
  BY DEF Release
<1>3. /\ obj'[c] = [objects[c] EXCEPT !.dwRef = objects[c].dwRef - 1]
      /\ \A p \in Objects \ {c} : obj'[p] = objects[p]
      /\ obj' = [objects EXCEPT ![c] = obj'[c]]
  BY <1>2
<1>4. /\ obj'[c] \in ObjType /\ obj'[c].dwRef = objects[c].dwRef - 1
      /\ obj'[c].state = objects[c].state
      /\ obj'[c].stream = objects[c].stream /\ obj'[c].malloc = objects[c].malloc
      /\ obj'[c].buffer = objects[c].buffer /\ obj'[c].member = objects[c].member
  BY <1>1, <1>3, RefsOf
<1>5. obj' \in [Objects -> ObjType]
  BY <1>3, <1>4
<1> QED BY <1>1, <1>3, <1>4, <1>5

\* A Release that leaves references, or begins to destroy the object.
LEMMA ReleaseStep ==
  ASSUME IInv, NEW t \in Threads, dll = "up", NEW c \in Objects,
         NEW objects \in [Objects -> ObjType], Release(t, c, objects), objects[c].dwRef > 0,
         UNCHANGED <<libVars, tls, mref, owned, heapVars>>,
         held' \in [Threads -> [Objects -> Nat]],
         \A p \in Objects : /\ objects[p].state = obj[p].state /\ objects[p].stream = obj[p].stream
                            /\ objects[p].malloc = obj[p].malloc
                            /\ objects[p].buffer = obj[p].buffer /\ objects[p].dwRef = obj[p].dwRef
                            /\ ObjectOK(objects[p]),
         ObjectCounts',
         \A u \in Threads, q \in Objects : Cardinality(Calls(u, q)) <= held'[u][q]
  PROVE  IInv'
<1>1. /\ obj' \in [Objects -> ObjType] /\ objects[c].dwRef \in Nat
      /\ \A p \in Objects \ {c} : obj'[p] = objects[p]
      /\ obj'[c].dwRef = objects[c].dwRef - 1 /\ obj'[c].state = objects[c].state
      /\ obj'[c].stream = objects[c].stream /\ obj'[c].malloc = objects[c].malloc
      /\ obj'[c].buffer = objects[c].buffer /\ obj'[c].member = objects[c].member
  BY Released
<1>2. /\ obj[c].state = "live" /\ obj[c].dwRef = objects[c].dwRef /\ obj'[c].state = "live"
  BY <1>1 DEF ObjectOK
<1>3. \A p \in Objects : /\ obj'[p].state = obj[p].state /\ obj'[p].stream = obj[p].stream
                         /\ obj'[p].malloc = obj[p].malloc /\ obj'[p].buffer = obj[p].buffer
                         /\ obj[p].dwRef = 0 => obj'[p].dwRef = 0
                         /\ ObjectOK(obj'[p])
  <2> TAKE p \in Objects
  <2>1. CASE p = c
    BY <1>1, <1>2, <2>1 DEF ObjectOK
  <2>2. CASE p # c
    BY <1>1, <2>2
  <2> QED BY <2>1, <2>2
<1>4. TypesOK /\ ObjectsOK'
  BY <1>3 DEF IInv, ObjectsOK, ObjectOK
<1>5. CASE objects[c].dwRef # 1
  <2>1. UNCHANGED stack
    BY <1>5 DEF Release
  <2>2. TypeOK'
    BY <1>1, <2>1, CallsSame DEF IInv, TypesOK, TypeOK, ObjType, libVars, heapVars
  <2>3. FramesOK'
    BY <1>3, <2>1, FrameObjects, FramesSame DEF Kept, libVars
  <2>4. CallsHeld'
    BY <2>1, CallsSame DEF CallsHeld
  <2>5. MallocCounts' /\ ScopesNest'
    BY <1>3, <2>1, CallsSame, ScopesSame DEF MallocCounts, OwnedBy, LoaderHolds, libVars, IInv
  <2>6. Elsewhere(t, 0) /\ 0 \notin DOMAIN stack[t] /\ 0 \notin DOMAIN stack'[t]
    BY <1>4, <2>1, SameStacks
  <2> QED BY <1>3, <1>4, <2>2, <2>3, <2>4, <2>5, <2>6, ThreadStep
<1>6. CASE objects[c].dwRef = 1
  <2> DEFINE f == Frame("release", c, None, None, FALSE, "enter")
             n == Len(stack[t]) + 1
  <2>1. Push(t, f)
    BY <1>6 DEF Release
  <2>2. /\ f \in FrameType /\ f.op = "release" /\ f.obj = c /\ f.step = "enter" /\ ~f.scoped
    BY DEF Frame, FrameType
  <2>3. FrameOK(f)'
    BY <1>1, <1>2, <1>6 DEF Frame, FrameOK, Dying
  <2> HIDE DEF f
  <2>4. /\ Elsewhere(t, n) /\ Len(stack[t]) \in Nat /\ stack'[t][n] = f
        /\ DOMAIN stack[t] = 1 .. Len(stack[t]) /\ Len(stack'[t]) = n
        /\ n \in Nat \ {0} /\ n \notin DOMAIN stack[t] /\ n \in DOMAIN stack'[t]
    BY <1>4, <2>1, <2>2, Pushed
  <2>5. IsInnermost(t, n, tls[t])
    BY TopScope DEF IInv
  <2>a. ScopesNest'
    <3>1. n \in {Len(stack[t]), Len(stack[t]) + 1} /\ ScopesNest /\ UNCHANGED <<dll, defaultMalloc>>
          /\ tls' = tls
      BY DEF IInv, libVars
    <3> HIDE DEF n
    <3> QED BY <1>4, <2>2, <2>4, <2>5, <3>1, ScopesStep
  <2> HIDE DEF n
  <2>6. TypeOK'
    <3>1. \A u \in Threads : Frames(u)' \subseteq FrameType
      BY <2>4 DEF Elsewhere, Frames
    <3> QED BY <1>1, <3>1 DEF IInv, TypesOK, TypeOK, libVars, heapVars, FrameType, ObjType
  <2>7. FramesOK'
    <3>1. \A u \in Threads : \A k \in DOMAIN stack[u] : (u = t => k # n) =>
             /\ stack[u][k].op = "create" => stack[u][k].malloc \in owned' \cup {defaultMalloc'}
             /\ stack[u][k].op = "method" => Kept(stack[u][k].obj)
             /\ stack[u][k].step \in Dying => Kept(stack[u][k].obj)
      BY <1>3, FrameObjects DEF Kept, libVars
    <3> QED BY <1>4, <2>3, <2>4, <3>1, FramesStep DEF IInv
  <2>8. CallsHeld'
    <3>1. ASSUME NEW u \in Threads, NEW q
          PROVE  Calls(u, q)' = Calls(u, q)
      <4>1. ASSUME NEW k
            PROVE  (k \in DOMAIN stack'[u] /\ stack'[u][k].op = "method" /\ stack'[u][k].obj = q)
                     <=> (k \in DOMAIN stack[u] /\ stack[u][k].op = "method" /\ stack[u][k].obj = q)
        <5>1. CASE u = t /\ k = n
          BY <2>2, <2>4, <5>1
        <5>2. CASE u = t => k # n
          BY <2>4, <5>2 DEF Elsewhere
        <5> QED BY <5>1, <5>2
      <4> QED BY <4>1 DEF Calls
    <3> QED BY <3>1 DEF CallsHeld
  <2>9. MallocCounts'
    <3>1. \A m : Releases(m)' = Releases(m)
      <4>1. ASSUME NEW u \in Threads, NEW m, NEW k
            PROVE  k \in Pending(u, m)' <=> k \in Pending(u, m)
        <5>1. CASE u = t /\ k = n
          BY <2>2, <2>4, <5>1 DEF Pending
        <5>2. CASE u = t => k # n
          <6>1. /\ k \in DOMAIN stack'[u] <=> k \in DOMAIN stack[u]
                /\ k \in DOMAIN stack[u] => stack'[u][k] = stack[u][k]
            BY <2>4, <5>2 DEF Elsewhere
          <6> QED BY <6>1 DEF Pending
        <5> QED BY <5>1, <5>2
      <4>2. ASSUME NEW u \in Threads, NEW m
            PROVE  Pending(u, m)' = Pending(u, m)
        <5>1. Pending(u, m)' \subseteq Pending(u, m) /\ Pending(u, m) \subseteq Pending(u, m)'
          BY <4>1
        <5> QED BY <5>1
      <4> QED BY <4>2 DEF Releases
    <3> QED BY <1>3, <3>1 DEF MallocCounts, OwnedBy, LoaderHolds, libVars, IInv
  <2>10. \A u \in Threads : \A k \in DOMAIN stack[u] :
           stack[u][k].step \in Dying => stack[u][k].obj # c
    BY <1>2, <1>6 DEF IInv, FramesOK, FrameOK
  <2> QED BY <1>3, <1>4, <2>2, <2>4, <2>6, <2>7, <2>8, <2>9, <2>10, <2>a, ThreadStep
<1> QED BY <1>5, <1>6

LEMMA ClientReleaseInv ==
  ASSUME IInv, NEW t \in Threads, ClientRelease(t)
  PROVE  IInv'
<1>1. PICK o \in Objects :
        /\ Spare(t, o) > 0
        /\ held' = [held EXCEPT ![t][o] = @ - 1]
        /\ Release(t, o, obj)
  BY DEF ClientRelease
<1>2. UNCHANGED <<libVars, tls, mref, owned, heapVars>> /\ InClient(t) /\ TypesOK
  BY DEF ClientRelease, IInv
<1>3. \A v \in Threads, q \in Objects :
        /\ held[v][q] \in Nat /\ Cardinality(Calls(v, q)) \in Nat
        /\ Cardinality(Calls(v, q)) <= held[v][q]
  BY <1>2, Finite, FS_CardinalityType DEF IInv, CallsHeld, TypesOK, TypeOK
<1>4. held[t][o] > 0 /\ Cardinality(Calls(t, o)) <= held[t][o] - 1
  BY <1>1, <1>3 DEF Spare
<1>5. /\ held' \in [Threads -> [Objects -> Nat]]
      /\ \A u \in Threads, q \in Objects : held'[u][q] = held[u][q] - Tick(u = t /\ q = o)
      /\ \A q \in Objects : Cardinality(ClientRefs(q)') = Cardinality(ClientRefs(q)) - Tick(q = o)
  BY <1>1, <1>2, <1>4, HeldDown
<1>6. obj \in [Objects -> ObjType] /\ obj[o].dwRef > 0
  BY <1>4, ObjTyped, ObjectAlive DEF IInv
<1>7. /\ obj[o].dwRef \in Nat
      /\ \A p \in Objects \ {o} : obj'[p] = obj[p]
      /\ obj'[o].dwRef = obj[o].dwRef - 1 /\ obj'[o].member = obj[o].member
  BY <1>1, <1>6, Released
<1>8. ObjectCounts'
  <2> SUFFICES ASSUME NEW q \in Objects
               PROVE  obj'[q].dwRef = Cardinality(ClientRefs(q)') + Cardinality(MemberRefs(q)')
    BY DEF ObjectCounts
  <2>1. MemberRefs(q)' = MemberRefs(q)
    BY <1>7 DEF MemberRefs
  <2>2. /\ Cardinality(ClientRefs(q)) \in Nat /\ Cardinality(MemberRefs(q)) \in Nat
        /\ Cardinality(ClientRefs(q)') = Cardinality(ClientRefs(q)) - (IF q = o THEN 1 ELSE 0)
    BY <1>2, <1>5, Finite, FS_CardinalityType DEF Tick
  <2>3. obj[q].dwRef = Cardinality(ClientRefs(q)) + Cardinality(MemberRefs(q))
    BY DEF IInv, ObjectCounts
  <2>4. CASE q = o
    BY <1>7, <2>1, <2>2, <2>3, <2>4
  <2>5. CASE q # o
    BY <1>7, <2>1, <2>2, <2>3, <2>5
  <2> QED BY <2>4, <2>5
<1>9. \A v \in Threads, q \in Objects : Cardinality(Calls(v, q)) <= held'[v][q]
  <2> SUFFICES ASSUME NEW v \in Threads, NEW q \in Objects
               PROVE  Cardinality(Calls(v, q)) <= held'[v][q]
    OBVIOUS
  <2> QED BY <1>3, <1>4, <1>5 DEF Tick
<1>10. dll = "up"
  BY <1>2, InUp
<1>11. \A p \in Objects : ObjectOK(obj[p])
  BY DEF IInv, ObjectsOK
<1> QED BY <1>1, <1>2, <1>5, <1>6, <1>8, <1>9, <1>10, <1>11, ReleaseStep

\* The code at the top works on an object that is alive.
LEMMA AtWork ==
  ASSUME IInv, NEW t \in Threads, InMethod(t) \/ InRelease(t, "members")
  PROVE  /\ Top(t).obj \in Objects /\ obj[Top(t).obj].state = "live"
         /\ obj[Top(t).obj].malloc \in AllMallocs
         /\ Top(t).malloc = obj[Top(t).obj].malloc
         /\ InMethod(t) => obj[Top(t).obj].dwRef > 0 /\ ~obj[Top(t).obj].stream
         /\ ~obj[Top(t).obj].stream => tls[t] = obj[Top(t).obj].malloc
         /\ dll = "up" /\ stack[t] # <<>>
<1>1. stack[t] # <<>>
  BY DEF InMethod, InRelease
<1>2. /\ Len(stack[t]) \in DOMAIN stack[t] /\ Top(t) = stack[t][Len(stack[t])] /\ FrameOK(Top(t))
  BY <1>1, TopOf DEF IInv
<1>3. /\ Top(t).obj \in Objects /\ obj[Top(t).obj].state = "live"
      /\ Top(t).malloc = obj[Top(t).obj].malloc
      /\ InMethod(t) => ~obj[Top(t).obj].stream
      /\ ~obj[Top(t).obj].stream => Top(t).scoped
  BY <1>2 DEF FrameOK, InMethod, InRelease, Dying
<1>4. obj[Top(t).obj].malloc \in AllMallocs
  BY <1>3 DEF IInv, ObjectsOK, ObjectOK
<1>5. InMethod(t) => obj[Top(t).obj].dwRef > 0
  BY <1>2, <1>3, MethodAlive DEF IInv, InMethod
<1>6. ~obj[Top(t).obj].stream => tls[t] = obj[Top(t).obj].malloc
  BY <1>1, <1>3, TopScope DEF IInv
<1> QED BY <1>1, <1>3, <1>4, <1>5, <1>6, InUp

LEMMA ReleaseMemberInv ==
  ASSUME IInv, NEW t \in Threads, ReleaseMember(t)
  PROVE  IInv'
<1> DEFINE o == Top(t).obj
           c == obj[o].member
           objects == [obj EXCEPT ![o].member = None]
<1>1. /\ InMethod(t) \/ InRelease(t, "members")
      /\ c # None /\ Release(t, c, objects)
      /\ UNCHANGED <<libVars, tls, mref, owned, held, heapVars>> /\ TypesOK
  BY DEF ReleaseMember, IInv
<1>2. o \in Objects /\ obj[o].state = "live" /\ dll = "up"
  BY <1>1, AtWork
<1> HIDE DEF o
<1>3. /\ obj \in [Objects -> ObjType] /\ obj[o] \in ObjType /\ c \in Objects
  BY <1>1, <1>2, ObjTyped DEF ObjType
<1>4. obj[c].dwRef > 0 /\ obj[c].state = "live"
  BY <1>2, <1>3, ObjectAlive DEF IInv
<1>5. /\ objects[o] = [obj[o] EXCEPT !.member = None]
      /\ \A p \in Objects \ {o} : objects[p] = obj[p]
      /\ objects = [obj EXCEPT ![o] = objects[o]]
  BY <1>2, <1>3
<1> HIDE DEF objects
<1>6. /\ objects[o] \in ObjType /\ objects[o].dwRef = obj[o].dwRef /\ objects[o].state = obj[o].state
      /\ objects[o].stream = obj[o].stream /\ objects[o].malloc = obj[o].malloc
      /\ objects[o].buffer = obj[o].buffer /\ objects[o].member = None
  BY <1>3, <1>5, MemberOf
<1>7. objects \in [Objects -> ObjType]
  BY <1>2, <1>3, <1>5, <1>6
<1>8. \A p \in Objects : /\ objects[p].state = obj[p].state /\ objects[p].stream = obj[p].stream
                         /\ objects[p].malloc = obj[p].malloc
                         /\ objects[p].buffer = obj[p].buffer /\ objects[p].dwRef = obj[p].dwRef
                         /\ ObjectOK(objects[p])
  <2> TAKE p \in Objects
  <2>1. ObjectOK(obj[p])
    BY DEF IInv, ObjectsOK
  <2>2. CASE p = o
    BY <1>2, <1>6, <2>1, <2>2 DEF ObjectOK
  <2>3. CASE p # o
    BY <1>5, <2>1, <2>3
  <2> QED BY <2>2, <2>3
<1>9. objects[c].dwRef = obj[c].dwRef
  BY <1>3, <1>8
<1>10. /\ objects[c].dwRef \in Nat /\ \A p \in Objects \ {c} : obj'[p] = objects[p]
       /\ obj'[c].dwRef = objects[c].dwRef - 1 /\ obj'[c].member = objects[c].member
  <2> HIDE DEF c
  <2> QED BY <1>1, <1>3, <1>4, <1>7, <1>9, Released
<1>11. ObjectCounts'
  <2> SUFFICES ASSUME NEW q \in Objects
               PROVE  obj'[q].dwRef = Cardinality(ClientRefs(q)') + Cardinality(MemberRefs(q)')
    BY DEF ObjectCounts
  <2>1. ClientRefs(q)' = ClientRefs(q) /\ Cardinality(ClientRefs(q)) \in Nat
    BY <1>1, Finite, FS_CardinalityType DEF ClientRefs
  <2>2. obj'[o].member = None
    BY <1>2, <1>6, <1>10
  <2>3. /\ Cardinality(MemberRefs(q)') =
             Cardinality(MemberRefs(q)) + Tick(q = obj'[o].member) - Tick(q = obj[o].member)
        /\ Cardinality(MemberRefs(q)) \in Nat /\ Cardinality(MemberRefs(q)') \in Nat
    <3>1. \A p \in Objects \ {o} : obj'[p].member = obj[p].member
      <4> TAKE p \in Objects \ {o}
      <4> QED BY <1>3, <1>5, <1>10
    <3> QED BY <1>1, <1>2, <3>1, MembersChange
  <2>4. q # None
    BY ThreadMallocAssumption
  <2>5. obj[q].dwRef = Cardinality(ClientRefs(q)) + Cardinality(MemberRefs(q))
    BY DEF IInv, ObjectCounts
  <2>6. obj'[q].dwRef = obj[q].dwRef - (IF q = c THEN 1 ELSE 0)
    <3>1. CASE q = c
      BY <1>9, <1>10, <3>1
    <3>2. CASE q # c
      BY <1>8, <1>10, <2>1, <2>3, <2>5, <3>2
    <3> QED BY <3>1, <3>2
  <2>7. Cardinality(MemberRefs(q)') = Cardinality(MemberRefs(q)) - (IF q = c THEN 1 ELSE 0)
    BY <2>2, <2>3, <2>4 DEF Tick
  <2> QED BY <2>1, <2>3, <2>5, <2>6, <2>7
<1>12. \A u \in Threads, q \in Objects : Cardinality(Calls(u, q)) <= held'[u][q]
  BY <1>1 DEF IInv, CallsHeld
<1>13. held' \in [Threads -> [Objects -> Nat]]
  BY <1>1 DEF TypesOK, TypeOK
<1> HIDE DEF c
<1> QED BY <1>1, <1>2, <1>3, <1>4, <1>7, <1>8, <1>9, <1>11, <1>12, <1>13, ReleaseStep

\* AddRef and Release of a malloc.
LEMMA MrefUp ==
  ASSUME TypesOK, NEW m \in AllMallocs, mref' = [mref EXCEPT ![m] = @ + 1]
  PROVE  /\ mref' \in [AllMallocs -> Nat]
         /\ \A a \in AllMallocs : mref[a] \in Nat /\ mref'[a] = mref[a] + Tick(a = m)
BY DEF TypesOK, TypeOK, Tick

LEMMA MrefDown ==
  ASSUME TypesOK, NEW m \in AllMallocs, mref[m] > 0, mref' = [mref EXCEPT ![m] = @ - 1]
  PROVE  /\ mref' \in [AllMallocs -> Nat]
         /\ \A a \in AllMallocs : mref[a] \in Nat /\ mref'[a] = mref[a] - Tick(a = m)
BY DEF TypesOK, TypeOK, Tick

\* The references of the malloc m, when only Releases come and go.
LEMMA MallocsOfReleases ==
  ASSUME IInv, NEW t \in Threads, NEW n, Elsewhere(t, n), UNCHANGED <<libVars, owned>>,
         \A p \in Objects : obj'[p].malloc = obj[p].malloc,
         \A a \in AllMallocs :
           mref'[a] = mref[a] + Tick(n \in DOMAIN stack'[t] /\ Pends(stack'[t][n], a))
                              - Tick(n \in DOMAIN stack[t] /\ Pends(stack[t][n], a))
  PROVE  MallocCounts'
<1>1. \A a \in AllMallocs : mref[a] \in Nat
  BY DEF IInv, TypesOK, TypeOK
<1>2. \A a \in AllMallocs :
        /\ Tick(n \in DOMAIN stack'[t] /\ Pends(stack'[t][n], a)) \in Int
        /\ Tick(n \in DOMAIN stack[t] /\ Pends(stack[t][n], a)) \in Int
        /\ Tick(a \in owned') = Tick(a \in owned) /\ Tick(a \in owned) \in Int
  BY DEF Tick
<1>3. \A a \in AllMallocs :
        mref'[a] = mref[a] + Tick(n \in DOMAIN stack'[t] /\ Pends(stack'[t][n], a))
                           - Tick(n \in DOMAIN stack[t] /\ Pends(stack[t][n], a))
                           + Tick(a \in owned') - Tick(a \in owned)
  BY <1>1, <1>2
<1> QED BY <1>3, MallocsStepAside DEF IInv

LEMMA EnterDestroyInv ==
  ASSUME IInv, NEW t \in Threads, EnterDestroy(t)
  PROVE  IInv'
<1> DEFINE n == Len(stack[t])
           f == Top(t)
           o == f.obj
           m == obj[o].malloc
<1>1. /\ stack[t] # <<>> /\ f.op = "release" /\ f.step = "enter"
      /\ mref' = [mref EXCEPT ![m] = @ + 1]
      /\ UNCHANGED <<libVars, owned, obj, held, heapVars>> /\ TypesOK
  BY DEF EnterDestroy, InRelease, IInv
<1>2. /\ n \in DOMAIN stack[t] /\ n \in Nat \ {0} /\ f = stack[t][n]
      /\ f \in FrameType /\ FrameOK(f) /\ dll = "up"
  BY <1>1, TopOf, InUp DEF IInv
<1>3. /\ o \in Objects /\ obj[o].dwRef = 0 /\ obj[o].state = "live" /\ ~f.scoped
  BY <1>1, <1>2 DEF FrameOK, Dying
<1>4. m \in AllMallocs /\ tls[t] \in AllMallocs \cup {None} /\ obj[o].stream \in BOOLEAN
  BY <1>1, <1>3 DEF IInv, ObjectsOK, ObjectOK, TypesOK, TypeOK
<1>5. PICK g \in FrameType :
        /\ SetTop(t, g) /\ g.op = "release" /\ g.step = "members" /\ g.obj = o /\ g.malloc = m
        /\ g.scoped = ~obj[o].stream
        /\ g.scoped => g.prior = tls[t] /\ tls' = [tls EXCEPT ![t] = m]
        /\ ~g.scoped => tls' = tls
  <2>1. CASE obj[o].stream
    <3> DEFINE g == Frame("release", o, m, None, FALSE, "members")
    <3>1. SetTop(t, g) /\ tls' = tls
      BY <2>1 DEF EnterDestroy
    <3>2. /\ g \in FrameType /\ g.op = "release" /\ g.step = "members" /\ g.obj = o
          /\ g.malloc = m /\ g.scoped = FALSE
      BY <1>3, <1>4 DEF Frame, FrameType
    <3> HIDE DEF g, m, o
    <3> QED BY <2>1, <3>1, <3>2
  <2>2. CASE ~obj[o].stream
    <3> DEFINE g == Frame("release", o, m, tls[t], TRUE, "members")
    <3>1. SetTop(t, g) /\ tls' = [tls EXCEPT ![t] = m]
      BY <2>2 DEF EnterDestroy
    <3>2. /\ g \in FrameType /\ g.op = "release" /\ g.step = "members" /\ g.obj = o
          /\ g.malloc = m /\ g.scoped = TRUE /\ g.prior = tls[t]
      BY <1>3, <1>4 DEF Frame, FrameType
    <3> HIDE DEF g, m, o
    <3> QED BY <1>4, <2>2, <3>1, <3>2
  <2> QED BY <1>4, <2>1, <2>2
<1>6. IsInnermost(t, n, tls[t])
  BY <1>1, <1>3, TopScope DEF IInv
<1> HIDE DEF f
<1>7. FrameOK(g)
  BY <1>3, <1>4, <1>5 DEF FrameOK, Dying
<1>8. /\ Elsewhere(t, n) /\ Len(stack'[t]) = n /\ n \in DOMAIN stack'[t] /\ stack'[t][n] = g
  BY <1>1, <1>2, <1>5, TopSet
<1> HIDE DEF o, m
<1>9. tls' \in [Threads -> AllMallocs \cup {None}] /\ \A u \in Threads \ {t} : tls'[u] = tls[u]
      /\ g.scoped => tls'[t] = m
  BY <1>1, <1>4, <1>5 DEF TypesOK, TypeOK
<1>10. ScopesNest'
  <2>1. n \in {Len(stack[t]), Len(stack[t]) + 1} /\ ScopesNest /\ UNCHANGED <<dll, defaultMalloc>>
    BY <1>1 DEF IInv, libVars
  <2> HIDE DEF n
  <2> QED BY <1>1, <1>2, <1>5, <1>6, <1>8, <1>9, <2>1, ScopesStep
<1> HIDE DEF n
<1>11. /\ mref' \in [AllMallocs -> Nat]
       /\ \A a \in AllMallocs : mref[a] \in Nat /\ mref'[a] = mref[a] + Tick(a = m)
  BY <1>1, <1>4, MrefUp
<1>12. MallocCounts'
  <2>1. \A a \in AllMallocs :
          /\ Tick(n \in DOMAIN stack'[t] /\ Pends(stack'[t][n], a)) = Tick(a = m)
          /\ Tick(n \in DOMAIN stack[t] /\ Pends(stack[t][n], a)) = 0
          /\ Tick(a = m) \in Int
    BY <1>1, <1>2, <1>5, <1>8 DEF Pends, Tick
  <2>2. \A a \in AllMallocs :
          mref'[a] = mref[a] + Tick(n \in DOMAIN stack'[t] /\ Pends(stack'[t][n], a))
                             - Tick(n \in DOMAIN stack[t] /\ Pends(stack[t][n], a))
    BY <1>11, <2>1
  <2> QED BY <1>1, <1>8, <2>2, ObjectsSame, MallocsOfReleases
<1>13. TypeOK'
  <2>1. \A u \in Threads : Frames(u)' \subseteq FrameType
    BY <1>8 DEF Elsewhere, Frames
  <2> QED BY <1>1, <1>9, <1>11, <2>1 DEF TypesOK, TypeOK, libVars, heapVars, FrameType
<1>14. FramesOK'
  <2>1. FrameOK(g)'
    BY <1>1, <1>7 DEF FrameOK, libVars
  <2>2. \A u \in Threads : \A k \in DOMAIN stack[u] : (u = t => k # n) =>
           /\ stack[u][k].op = "create" => stack[u][k].malloc \in owned' \cup {defaultMalloc'}
           /\ stack[u][k].op = "method" => Kept(stack[u][k].obj)
           /\ stack[u][k].step \in Dying => Kept(stack[u][k].obj)
    BY <1>1, FrameObjects, ObjectsSame DEF libVars
  <2> QED BY <1>1, <1>8, <2>1, <2>2, FramesStep DEF IInv
<1>15. CallsHeld'
  <2>1. \A u \in Threads : \A q : Calls(u, q)' = Calls(u, q)
    BY <1>1, <1>2, <1>5, <1>8 DEF Elsewhere, Calls
  <2> QED BY <1>1, <2>1 DEF IInv, CallsHeld
<1>16. stack[t][n].step \in Dying /\ stack[t][n].obj = stack'[t][n].obj
       /\ stack[t][n].step # "free" /\ stack'[t][n].step # "free"
  BY <1>1, <1>2, <1>5, <1>8 DEF Dying, o
<1> QED
  BY <1>1, <1>2, <1>8, <1>10, <1>12, <1>13, <1>14, <1>15, <1>16, ObjectsSame, ThreadStep

\* The methods in progress, when the frame that changes is not one.
LEMMA CallsKept ==
  ASSUME NEW t \in Threads, NEW n, Elsewhere(t, n),
         n \in DOMAIN stack[t] => stack[t][n].op # "method",
         n \in DOMAIN stack'[t] => stack'[t][n].op # "method"
  PROVE  \A u \in Threads : \A q : Calls(u, q)' = Calls(u, q)
<1> SUFFICES ASSUME NEW u \in Threads, NEW q
             PROVE  Calls(u, q)' = Calls(u, q)
  OBVIOUS
<1>1. ASSUME NEW k
      PROVE  k \in Calls(u, q)' <=> k \in Calls(u, q)
  <2>1. CASE u = t /\ k = n
    BY <2>1 DEF Calls
  <2>2. CASE u = t => k # n
    <3>1. /\ k \in DOMAIN stack'[u] <=> k \in DOMAIN stack[u]
          /\ k \in DOMAIN stack[u] => stack'[u][k] = stack[u][k]
      BY <2>2 DEF Elsewhere
    <3> QED BY <3>1 DEF Calls
  <2> QED BY <2>1, <2>2
<1>2. Calls(u, q)' \subseteq Calls(u, q) /\ Calls(u, q) \subseteq Calls(u, q)'
  BY <1>1
<1> QED BY <1>2

LEMMA DropTmpInv ==
  ASSUME IInv, NEW t \in Threads, DropTmp(t)
  PROVE  IInv'
<1> DEFINE n == Len(stack[t])
           f == Top(t)
           m == f.malloc
<1>1. /\ stack[t] # <<>> /\ f.op = "release" /\ f.step = "drop"
      /\ mref' = [mref EXCEPT ![m] = @ - 1] /\ Pop(t)
      /\ UNCHANGED <<libVars, tls, owned, obj, held, heapVars>> /\ TypesOK
  BY DEF DropTmp, InRelease, IInv
<1>2. /\ n \in DOMAIN stack[t] /\ n \in Nat \ {0} /\ f = stack[t][n]
      /\ f \in FrameType /\ FrameOK(f) /\ dll = "up"
  BY <1>1, TopOf, InUp DEF IInv
<1>3. m \in AllMallocs /\ ~f.scoped
  BY <1>1, <1>2 DEF FrameOK
<1>4. IsInnermost(t, n, tls[t])
  BY <1>1, <1>3, TopScope DEF IInv
<1> HIDE DEF f
<1>5. mref[m] > 0
  <2>1. stack[t][n].op = "release" /\ stack[t][n].step # "enter" /\ stack[t][n].malloc = m
    BY <1>1, <1>2
  <2> HIDE DEF m, n
  <2> QED BY <1>2, <1>3, <2>1, MallocAlive DEF IInv
<1>6. /\ Elsewhere(t, n) /\ Len(stack'[t]) = n - 1 /\ n \notin DOMAIN stack'[t]
  BY <1>1, <1>2, Popped
<1>7. ScopesNest'
  <2>1. n \in {Len(stack[t]), Len(stack[t]) + 1} /\ ScopesNest /\ UNCHANGED <<dll, defaultMalloc>>
        /\ tls' = tls
    BY <1>1 DEF IInv, libVars
  <2> HIDE DEF n
  <2> QED BY <1>1, <1>2, <1>4, <1>6, <2>1, ScopesStep
<1> HIDE DEF n, m
<1>8. /\ mref' \in [AllMallocs -> Nat]
      /\ \A a \in AllMallocs : mref[a] \in Nat /\ mref'[a] = mref[a] - Tick(a = m)
  BY <1>1, <1>3, <1>5, MrefDown
<1>9. MallocCounts'
  <2>1. \A a \in AllMallocs :
          /\ Tick(n \in DOMAIN stack'[t] /\ Pends(stack'[t][n], a)) = 0
          /\ Tick(n \in DOMAIN stack[t] /\ Pends(stack[t][n], a)) = Tick(a = m)
          /\ Tick(a = m) \in Int
    BY <1>1, <1>2, <1>6 DEF Pends, Tick, m
  <2>2. \A a \in AllMallocs :
          mref'[a] = mref[a] + Tick(n \in DOMAIN stack'[t] /\ Pends(stack'[t][n], a))
                             - Tick(n \in DOMAIN stack[t] /\ Pends(stack[t][n], a))
    BY <1>8, <2>1
  <2> QED BY <1>1, <1>6, <2>2, ObjectsSame, MallocsOfReleases
<1>10. TypeOK'
  <2>1. \A u \in Threads : Frames(u)' \subseteq FrameType
    BY <1>6 DEF Elsewhere, Frames
  <2> QED BY <1>1, <1>8, <2>1 DEF TypesOK, TypeOK, libVars, heapVars, FrameType
<1>11. FramesOK'
  <2>1. \A u \in Threads : \A k \in DOMAIN stack[u] : (u = t => k # n) =>
           /\ stack[u][k].op = "create" => stack[u][k].malloc \in owned' \cup {defaultMalloc'}
           /\ stack[u][k].op = "method" => Kept(stack[u][k].obj)
           /\ stack[u][k].step \in Dying => Kept(stack[u][k].obj)
    BY <1>1, FrameObjects, ObjectsSame DEF libVars
  <2> QED BY <1>1, <1>6, <2>1, FramesStep DEF IInv
<1>12. CallsHeld'
  <2>1. stack[t][n].op # "method"
    BY <1>1, <1>2
  <2>2. \A u \in Threads : \A q : Calls(u, q)' = Calls(u, q)
    BY <1>6, <2>1, CallsKept
  <2> QED BY <1>1, <2>2 DEF IInv, CallsHeld
<1>13. stack[t][n].step # "free"
  BY <1>1, <1>2
<1> QED
  BY <1>1, <1>2, <1>6, <1>7, <1>9, <1>10, <1>11, <1>12, <1>13, ObjectsSame, ThreadStep

LEMMA ClientReleaseMallocInv ==
  ASSUME IInv, ClientReleaseMalloc
  PROVE  IInv'
<1>1. PICK m \in owned :
        /\ \A t \in Threads : \A k \in DOMAIN stack[t] :
             stack[t][k].op # "create" \/ stack[t][k].malloc # m
        /\ owned' = owned \ {m}
        /\ mref' = [mref EXCEPT ![m] = @ - 1]
        /\ UNCHANGED <<libVars, tls, obj, held, stack, heapVars>>
  BY DEF ClientReleaseMalloc
<1>2. m \in AllMallocs /\ owned \subseteq Mallocs /\ TypesOK
  BY DEF IInv, TypesOK, TypeOK, AllMallocs
<1>3. mref[m] > 0
  BY <1>2, MallocAlive DEF IInv
<1>4. /\ mref' \in [AllMallocs -> Nat]
      /\ \A a \in AllMallocs : mref[a] \in Nat /\ mref'[a] = mref[a] - Tick(a = m)
  BY <1>1, <1>2, <1>3, MrefDown
<1>5. \A u \in Threads : Frames(u)' \subseteq FrameType
  BY <1>1, <1>2 DEF Frames, TypesOK
<1>6. TypesOK'
  BY <1>1, <1>2, <1>4, <1>5 DEF TypesOK, TypeOK, libVars, heapVars, FrameType
<1>7. FramesOK'
  <2>1. \A u \in Threads : \A k \in DOMAIN stack[u] :
          stack[u][k].op = "create" => stack[u][k].malloc \in owned' \cup {defaultMalloc}
    BY <1>1, FrameObjects
  <2>2. UNCHANGED <<stack, defaultMalloc>>
    BY <1>1 DEF libVars
  <2>3. \A o : Kept(o)
    BY <1>1 DEF Kept
  <2> QED BY <2>1, <2>2, <2>3, FramesSame
<1>8. OneDestroyer' /\ Buried' /\ ObjectsOK' /\ ObjectCounts' /\ CallsHeld'
  BY <1>1, ObjectsSame, CallsSame DEF IInv, OneDestroyer, Buried, CallsHeld
<1>9. Quiet' /\ LibraryOK' /\ HeapsOK'
  BY <1>1 DEF IInv, Quiet, LibraryOK, HeapsOK, libVars, heapVars
<1>10. ScopesNest'
  BY <1>1, ScopesSame DEF IInv, libVars
<1>11. MallocCounts'
  <2>1. Elsewhere(Loader, 0) /\ 0 \notin DOMAIN stack[Loader] /\ 0 \notin DOMAIN stack'[Loader]
        /\ Loader \in Threads
    BY <1>1, <1>2, SameStacks, ThreadMallocAssumption
  <2>2. \A a \in AllMallocs :
          /\ Tick(0 \in DOMAIN stack'[Loader] /\ Pends(stack'[Loader][0], a)) = 0
          /\ Tick(0 \in DOMAIN stack[Loader] /\ Pends(stack[Loader][0], a)) = 0
    BY <2>1 DEF Tick
  <2>3. \A a \in AllMallocs : mref'[a] = mref[a] + Tick(a \in owned') - Tick(a \in owned)
    BY <1>1, <1>4 DEF Tick
  <2>4. \A a \in AllMallocs : mref[a] \in Nat /\ Tick(a \in owned') \in Int /\ Tick(a \in owned) \in Int
    BY <1>4 DEF Tick
  <2>5. \A a \in AllMallocs :
          mref'[a] = mref[a] + Tick(0 \in DOMAIN stack'[Loader] /\ Pends(stack'[Loader][0], a))
                             - Tick(0 \in DOMAIN stack[Loader] /\ Pends(stack[Loader][0], a))
                             + Tick(a \in owned') - Tick(a \in owned)
    BY <2>2, <2>3, <2>4
  <2>6. \A p \in Objects : obj'[p].malloc = obj[p].malloc
    BY <1>1
  <2> QED BY <1>1, <1>2, <2>1, <2>5, <2>6, MallocsStepAside DEF IInv
<1> QED BY <1>6, <1>7, <1>8, <1>9, <1>10, <1>11 DEF IInv

-----------------------------------------------------------------------------
(* The steps: memory.                                                      *)

LEMMA Allocated ==
  ASSUME TypesOK, NEW h \in Heaps, NEW b \in Blocks, Alloc(h, b)
  PROVE  /\ heap' \in [Heaps -> SUBSET Blocks] /\ misfreed' = misfreed
         /\ \A g \in Heaps : \A c : c \in heap'[g] <=> c \in heap[g] \/ (g = h /\ c = b)
BY DEF Alloc, TypesOK, TypeOK

LEMMA Freed ==
  ASSUME TypesOK, NEW h \in Heaps, NEW b \in heap[h], Free(h, b)
  PROVE  /\ heap' \in [Heaps -> SUBSET Blocks] /\ misfreed' = misfreed
         /\ \A g \in Heaps : \A c : c \in heap'[g] <=> c \in heap[g] /\ ~(g = h /\ c = b)
BY DEF Free, TypesOK, TypeOK

\* The block of a buffer comes or goes with the buffer.
LEMMA BufferStep ==
  ASSUME IInv, NEW t \in Threads, dll = "up", NEW o \in Objects, NEW b \in BOOLEAN,
         obj[o].state = "live", obj' = [obj EXCEPT ![o].buffer = b],
         UNCHANGED <<libVars, tls, mref, owned, held, stack>>,
         heap' \in [Heaps -> SUBSET Blocks], misfreed' = misfreed,
         \A g \in Heaps : \A c : c # <<"buffer", o>> => (c \in heap'[g] <=> c \in heap[g]),
         \A g \in Heaps : <<"buffer", o>> \in heap'[g] <=> b /\ g = HeapOf(obj[o].malloc)
  PROVE  IInv'
<1>1. obj \in [Objects -> ObjType] /\ obj[o] \in ObjType
  BY ObjTyped
<1>2. /\ obj'[o] = [obj[o] EXCEPT !.buffer = b]
      /\ \A p \in Objects \ {o} : obj'[p] = obj[p]
      /\ obj' = [obj EXCEPT ![o] = obj'[o]]
  BY <1>1
<1>3. /\ obj'[o] \in ObjType /\ obj'[o].dwRef = obj[o].dwRef /\ obj'[o].state = obj[o].state
      /\ obj'[o].stream = obj[o].stream /\ obj'[o].malloc = obj[o].malloc
      /\ obj'[o].buffer = b /\ obj'[o].member = obj[o].member
  BY <1>1, <1>2, BufferOf
<1>4. obj' \in [Objects -> ObjType]
  BY <1>1, <1>2, <1>3
<1>5. \A p \in Objects : /\ obj'[p].state = obj[p].state /\ obj'[p].stream = obj[p].stream
                         /\ obj'[p].malloc = obj[p].malloc /\ obj'[p].dwRef = obj[p].dwRef
                         /\ obj'[p].member = obj[p].member
  <2> TAKE p \in Objects
  <2>1. CASE p = o
    BY <1>3, <2>1
  <2>2. CASE p # o
    BY <1>2, <2>2
  <2> QED BY <2>1, <2>2
<1>6. TypesOK'
  <2>1. TypeOK'
    BY <1>4, CallsSame DEF IInv, TypesOK, TypeOK, ObjType, libVars
  <2> QED BY <2>1 DEF IInv, TypesOK, libVars
<1>7. FramesOK'
  BY <1>5, FrameObjects, FramesSame DEF Kept, libVars
<1>8. OneDestroyer' /\ Buried' /\ Quiet' /\ LibraryOK'
  BY <1>5 DEF IInv, OneDestroyer, Buried, Quiet, LibraryOK, libVars
<1>9. ObjectsOK'
  <2> SUFFICES ASSUME NEW p \in Objects, NEW x, x = obj'[p]
               PROVE  ObjectOK(x)
    BY DEF ObjectsOK, ObjectOK
  <2>1. ObjectOK(obj[p])
    BY DEF IInv, ObjectsOK
  <2>2. CASE p = o
    BY <1>3, <2>1, <2>2 DEF ObjectOK
  <2>3. CASE p # o
    BY <1>2, <2>1, <2>3
  <2> QED BY <2>2, <2>3
<1>10. ObjectCounts' /\ MallocCounts' /\ CallsHeld' /\ ScopesNest'
  <2>1. \A p \in Objects : MemberRefs(p)' = MemberRefs(p) /\ ClientRefs(p)' = ClientRefs(p)
    BY <1>5 DEF MemberRefs, ClientRefs
  <2>2. \A m : OwnedBy(m)' = OwnedBy(m)
    BY <1>5 DEF OwnedBy
  <2>3. ObjectCounts'
    BY <1>5, <2>1 DEF IInv, ObjectCounts
  <2>4. MallocCounts'
    BY <2>2, CallsSame DEF IInv, MallocCounts, LoaderHolds, libVars
  <2> QED BY <2>3, <2>4, CallsSame, ScopesSame DEF IInv, CallsHeld, libVars
<1>11. HeapsOK'
  <2>1. ASSUME NEW p \in Objects, NEW h \in Heaps
        PROVE  /\ <<"buffer", p>> \in heap'[h] <=> obj'[p].buffer /\ h = HeapOf(obj'[p].malloc)
               /\ obj'[p].state = "free" => <<"object", p>> \notin heap'[h]
               /\ obj'[p].state = "live" =>
                    (<<"object", p>> \in heap'[h] <=> h = HeapOf(obj'[p].malloc))
    <3>1. /\ <<"buffer", p>> \in heap[h] <=> obj[p].buffer /\ h = HeapOf(obj[p].malloc)
          /\ obj[p].state = "free" => <<"object", p>> \notin heap[h]
          /\ obj[p].state = "live" => (<<"object", p>> \in heap[h] <=> h = HeapOf(obj[p].malloc))
      BY DEF IInv, HeapsOK
    <3>2. <<"object", p>> \in heap'[h] <=> <<"object", p>> \in heap[h]
      OBVIOUS
    <3>3. HeapOf(obj'[p].malloc) = HeapOf(obj[p].malloc)
      BY <1>5
    <3>4. <<"buffer", p>> \in heap'[h] <=> obj'[p].buffer /\ h = HeapOf(obj[p].malloc)
      <4>1. CASE p = o
        BY <1>3, <4>1
      <4>2. CASE p # o
        <5>1. <<"buffer", p>> \in heap'[h] <=> <<"buffer", p>> \in heap[h]
          BY <4>2
        <5> QED BY <1>2, <3>1, <4>2, <5>1
      <4> QED BY <4>1, <4>2
    <3> QED BY <1>5, <3>1, <3>2, <3>3, <3>4
  <2>2. \A h \in Heaps : <<"globals", None>> \in heap'[h] <=>
          h = "process" /\ dll' \in {"attach.clear", "up", "detach.default", "detach.free"}
    <3> TAKE h \in Heaps
    <3>1. <<"globals", None>> \in heap'[h] <=> <<"globals", None>> \in heap[h]
      OBVIOUS
    <3> QED BY <3>1 DEF IInv, HeapsOK, libVars
  <2>3. ASSUME NEW u \in Threads, NEW k \in DOMAIN stack[u], stack[u][k].step = "free", NEW h \in Heaps
        PROVE  <<"object", stack[u][k].obj>> \in heap'[h] <=> h = HeapOf(stack[u][k].malloc)
    <3>1. <<"object", stack[u][k].obj>> \in heap'[h] <=> <<"object", stack[u][k].obj>> \in heap[h]
      OBVIOUS
    <3> QED BY <2>3, <3>1 DEF IInv, HeapsOK
  <2>4. misfreed' = {} /\ stack' = stack
    BY DEF IInv, HeapsOK
  <2>5. \A u \in Threads : \A k \in DOMAIN stack'[u] : stack'[u][k].step = "free" =>
          \A h \in Heaps : <<"object", stack'[u][k].obj>> \in heap'[h] <=>
                             h = HeapOf(stack'[u][k].malloc)
    BY <2>3, <2>4
  <2> QED BY <2>1, <2>2, <2>4, <2>5 DEF HeapsOK
<1> QED BY <1>6, <1>7, <1>8, <1>9, <1>10, <1>11 DEF IInv

LEMMA BufferBlocks ==
  ASSUME IInv, NEW o \in Objects, NEW m, m = obj[o].malloc
  PROVE  /\ HeapOf(m) \in Heaps /\ <<"buffer", o>> \in Blocks /\ TypesOK
         /\ \A g \in Heaps : <<"buffer", o>> \in heap[g] <=> obj[o].buffer /\ g = HeapOf(m)
BY DEF IInv, HeapsOK, HeapOf, Heaps, Blocks

LEMMA GrowBufferInv ==
  ASSUME IInv, NEW t \in Threads, GrowBuffer(t)
  PROVE  IInv'
<1> DEFINE o == Top(t).obj
<1>1. /\ InMethod(t) /\ ~obj[o].buffer /\ obj' = [obj EXCEPT ![o].buffer = TRUE]
      /\ Alloc(HeapOf(tls[t]), <<"buffer", o>>)
      /\ UNCHANGED <<libVars, tls, mref, owned, held, stack>>
  BY DEF GrowBuffer
<1>2. o \in Objects /\ obj[o].state = "live" /\ tls[t] = obj[o].malloc /\ dll = "up"
  BY <1>1, AtWork
<1> HIDE DEF o
<1>3. /\ HeapOf(tls[t]) \in Heaps /\ <<"buffer", o>> \in Blocks /\ TypesOK
      /\ \A g \in Heaps : <<"buffer", o>> \in heap[g] <=> obj[o].buffer /\ g = HeapOf(tls[t])
  BY <1>2, BufferBlocks
<1>4. /\ heap' \in [Heaps -> SUBSET Blocks] /\ misfreed' = misfreed
      /\ \A g \in Heaps : \A c : c \in heap'[g] <=> c \in heap[g] \/ (g = HeapOf(tls[t]) /\ c = <<"buffer", o>>)
  BY <1>1, <1>3, Allocated
<1> QED BY <1>1, <1>2, <1>3, <1>4, BufferStep

LEMMA StreamWriteInv ==
  ASSUME IInv, NEW t \in Threads, StreamWrite(t)
  PROVE  IInv'
<1>1. PICK o \in Objects :
        /\ held[t][o] > 0 /\ obj[o].stream /\ ~obj[o].buffer
        /\ obj' = [obj EXCEPT ![o].buffer = TRUE]
        /\ Alloc(HeapOf(obj[o].malloc), <<"buffer", o>>)
  BY DEF StreamWrite
<1>2. InClient(t) /\ UNCHANGED <<libVars, tls, mref, owned, held, stack>>
  BY DEF StreamWrite
<1>3. obj[o].state = "live" /\ dll = "up"
  BY <1>1, <1>2, ObjectAlive, InUp DEF IInv
<1> DEFINE m == obj[o].malloc
<1>4. /\ HeapOf(m) \in Heaps /\ <<"buffer", o>> \in Blocks /\ TypesOK
      /\ \A g \in Heaps : <<"buffer", o>> \in heap[g] <=> obj[o].buffer /\ g = HeapOf(m)
  BY BufferBlocks
<1>5. /\ heap' \in [Heaps -> SUBSET Blocks] /\ misfreed' = misfreed
      /\ \A g \in Heaps : \A c : c \in heap'[g] <=> c \in heap[g] \/ (g = HeapOf(m) /\ c = <<"buffer", o>>)
  BY <1>1, <1>4, Allocated
<1> QED BY <1>1, <1>2, <1>3, <1>4, <1>5, BufferStep

LEMMA FreeBufferInv ==
  ASSUME IInv, NEW t \in Threads, FreeBuffer(t)
  PROVE  IInv'
<1> DEFINE o == Top(t).obj
           m == obj[o].malloc
<1>1. /\ InMethod(t) \/ InRelease(t, "members")
      /\ obj[o].buffer /\ obj' = [obj EXCEPT ![o].buffer = FALSE]
      /\ Free(HeapOf(IF obj[o].stream THEN m ELSE tls[t]), <<"buffer", o>>)
      /\ UNCHANGED <<libVars, tls, mref, owned, held, stack>>
  BY DEF FreeBuffer
<1>2. /\ o \in Objects /\ obj[o].state = "live" /\ (~obj[o].stream => tls[t] = m) /\ dll = "up"
  BY <1>1, AtWork
<1>3. (IF obj[o].stream THEN m ELSE tls[t]) = m
  BY <1>2
<1> HIDE DEF o
<1>4. /\ HeapOf(m) \in Heaps /\ <<"buffer", o>> \in Blocks /\ TypesOK
      /\ \A g \in Heaps : <<"buffer", o>> \in heap[g] <=> obj[o].buffer /\ g = HeapOf(m)
  BY <1>2, BufferBlocks
<1>5. Free(HeapOf(m), <<"buffer", o>>) /\ <<"buffer", o>> \in heap[HeapOf(m)]
  BY <1>1, <1>3, <1>4
<1>6. /\ heap' \in [Heaps -> SUBSET Blocks] /\ misfreed' = misfreed
      /\ \A g \in Heaps : \A c : c \in heap'[g] <=> c \in heap[g] /\ ~(g = HeapOf(m) /\ c = <<"buffer", o>>)
  BY <1>4, <1>5, Freed
<1>7. /\ \A g \in Heaps : \A c : c # <<"buffer", o>> => (c \in heap'[g] <=> c \in heap[g])
      /\ \A g \in Heaps : <<"buffer", o>> \in heap'[g] <=> FALSE /\ g = HeapOf(obj[o].malloc)
  BY <1>4, <1>6
<1> QED BY <1>1, <1>2, <1>6, <1>7, BufferStep

\* Nobody else works on an object that is being destroyed.
LEMMA DestroyedAlone ==
  ASSUME IInv, NEW t \in Threads, NEW n \in DOMAIN stack[t], stack[t][n].step \in Dying,
         NEW o, o = stack[t][n].obj
  PROVE  /\ o \in Objects /\ obj[o].dwRef = 0
         /\ \A u \in Threads : \A k \in DOMAIN stack[u] : (u = t => k # n) =>
              (stack[u][k].op = "method" \/ stack[u][k].step \in Dying => stack[u][k].obj # o)
<1>1. o \in Objects /\ obj[o].dwRef = 0
  BY FrameObjects DEF FrameOK
<1>2. ASSUME NEW u \in Threads, NEW k \in DOMAIN stack[u], u = t => k # n, stack[u][k].obj = o
      PROVE  stack[u][k].op # "method" /\ stack[u][k].step \notin Dying
  <2>1. stack[u][k].step \notin Dying
    BY <1>2 DEF IInv, OneDestroyer
  <2>2. ASSUME stack[u][k].op = "method" PROVE FALSE
    <3>1. obj[stack[u][k].obj].dwRef > 0
      BY <1>1, <1>2, <2>2, MethodAlive DEF IInv
    <3> QED BY <1>1, <1>2, <3>1
  <2> QED BY <2>1, <2>2
<1> QED BY <1>1, <1>2

LEMMA ReleaseOwnMallocInv ==
  ASSUME IInv, NEW t \in Threads, ReleaseOwnMalloc(t)
  PROVE  IInv'
<1> DEFINE n == Len(stack[t])
           f == Top(t)
           o == f.obj
           m == obj[o].malloc
<1>1. /\ InRelease(t, "members") /\ stack[t] # <<>> /\ f.op = "release" /\ f.step = "members"
      /\ ~obj[o].buffer /\ obj[o].member = None
      /\ mref' = [mref EXCEPT ![m] = @ - 1]
      /\ obj' = [obj EXCEPT ![o].state = "destroyed", ![o].malloc = None]
      /\ SetTop(t, [f EXCEPT !.step = "free"])
      /\ UNCHANGED <<libVars, tls, owned, held, heapVars>> /\ TypesOK
  BY DEF ReleaseOwnMalloc, InRelease, IInv
<1>2. /\ n \in DOMAIN stack[t] /\ n \in Nat \ {0} /\ f = stack[t][n]
      /\ f \in FrameType /\ FrameOK(f)
  BY <1>1, TopOf DEF IInv
<1>3. /\ o \in Objects /\ obj[o].state = "live" /\ m \in AllMallocs /\ f.malloc = m /\ dll = "up"
  BY <1>1, AtWork
<1>4. /\ obj[o].dwRef = 0
      /\ \A u \in Threads : \A k \in DOMAIN stack[u] : (u = t => k # n) =>
           (stack[u][k].op = "method" \/ stack[u][k].step \in Dying => stack[u][k].obj # o)
  <2>1. f.step \in Dying
    BY <1>1 DEF Dying
  <2> QED BY <1>2, <2>1, DestroyedAlone
<1>5. PICK p : IsInnermost(t, n, p) /\ (f.scoped => p = f.prior /\ tls[t] = f.malloc)
                 /\ (~f.scoped => p = tls[t])
  <2>1. CASE f.scoped
    <3>1. IsInnermost(t, n, f.prior) /\ tls[t] = f.malloc
      BY <1>1, <2>1, TopScope DEF IInv
    <3> QED BY <2>1, <3>1
  <2>2. CASE ~f.scoped
    <3>1. IsInnermost(t, n, tls[t])
      BY <1>1, <2>2, TopScope DEF IInv
    <3> QED BY <2>2, <3>1
  <2> QED BY <2>1, <2>2
<1> HIDE DEF f
<1>6. PICK g \in FrameType :
        /\ SetTop(t, g) /\ g.op = "release" /\ g.step = "free" /\ g.obj = o /\ g.malloc = m
        /\ g.scoped = f.scoped /\ g.prior = f.prior
  <2> DEFINE x == [f EXCEPT !.step = "free"]
  <2>1. /\ x \in FrameType /\ x.op = "release" /\ x.step = "free" /\ x.obj = o /\ x.malloc = m
        /\ x.scoped = f.scoped /\ x.prior = f.prior
    BY <1>1, <1>2, <1>3 DEF FrameType
  <2>2. SetTop(t, x)
    BY <1>1
  <2> HIDE DEF x, o, m
  <2> QED BY <2>1, <2>2
<1>7. /\ Elsewhere(t, n) /\ Len(stack'[t]) = n /\ n \in DOMAIN stack'[t] /\ stack'[t][n] = g
  BY <1>1, <1>2, <1>6, TopSet
<1>8. ScopesNest'
  <2>1. n \in {Len(stack[t]), Len(stack[t]) + 1} /\ ScopesNest /\ UNCHANGED <<dll, defaultMalloc>>
        /\ tls' = tls
    BY <1>1 DEF IInv, libVars
  <2>2. \/ /\ Len(stack'[t]) = n /\ stack'[t][n].scoped
           /\ stack'[t][n].prior = p /\ tls'[t] = stack'[t][n].malloc
        \/ Len(stack'[t]) = n /\ ~stack'[t][n].scoped /\ tls'[t] = p
    BY <1>3, <1>5, <1>6, <1>7, <2>1
  <2>3. \A u \in Threads \ {t} : tls'[u] = tls[u]
    BY <2>1
  <2> HIDE DEF n
  <2> QED BY <1>1, <1>2, <1>5, <1>7, <2>1, <2>2, <2>3, ScopesStep
<1> HIDE DEF n, o, m
<1>9. mref[m] > 0
  BY <1>1, <1>3, MallocAlive DEF IInv, m
<1>10. /\ mref' \in [AllMallocs -> Nat]
       /\ \A a \in AllMallocs : mref[a] \in Nat /\ mref'[a] = mref[a] - Tick(a = m)
  BY <1>1, <1>3, <1>9, MrefDown
<1>11. /\ obj' \in [Objects -> ObjType] /\ \A q \in Objects \ {o} : obj'[q] = obj[q]
       /\ obj'[o].state = "destroyed" /\ obj'[o].malloc = None /\ obj'[o].dwRef = obj[o].dwRef
       /\ obj'[o].buffer = obj[o].buffer /\ obj'[o].member = obj[o].member
  <2>1. obj \in [Objects -> ObjType] /\ obj[o] \in ObjType
    BY <1>3, ObjTyped
  <2> DEFINE x == [obj[o] EXCEPT !.state = "destroyed", !.malloc = None]
  <2>2. obj' = [obj EXCEPT ![o] = x]
    BY <1>1, <1>3, <2>1
  <2>3. /\ x \in ObjType /\ x.state = "destroyed" /\ x.malloc = None /\ x.dwRef = obj[o].dwRef
        /\ x.buffer = obj[o].buffer /\ x.member = obj[o].member
    BY <2>1 DEF ObjType
  <2> HIDE DEF x
  <2> QED BY <1>3, <2>1, <2>2, <2>3
<1>12. TypesOK'
  <2>1. \A u \in Threads : Frames(u)' \subseteq FrameType
    BY <1>7 DEF Elsewhere, Frames
  <2>2. stack' \in [Threads -> Seq(FrameType)]
    BY <1>7 DEF Elsewhere
  <2> QED BY <1>1, <1>10, <1>11, <2>1, <2>2 DEF TypesOK, TypeOK, libVars, heapVars, FrameType, ObjType
<1>13. FramesOK'
  <2>1. FrameOK(g)'
    BY <1>3, <1>4, <1>6, <1>11 DEF FrameOK, Dying
  <2>2. \A u \in Threads : \A k \in DOMAIN stack[u] : (u = t => k # n) =>
           /\ stack[u][k].op = "create" => stack[u][k].malloc \in owned' \cup {defaultMalloc'}
           /\ stack[u][k].op = "method" => Kept(stack[u][k].obj)
           /\ stack[u][k].step \in Dying => Kept(stack[u][k].obj)
    BY <1>1, <1>4, <1>11, FrameObjects DEF libVars, Kept
  <2> QED BY <1>1, <1>7, <2>1, <2>2, FramesStep DEF IInv
<1>14. OneDestroyer'
  <2>1. stack[t][n].step \in Dying /\ stack[t][n].obj = stack'[t][n].obj
    BY <1>1, <1>2, <1>6, <1>7 DEF Dying, o
  <2> QED BY <1>2, <1>7, <2>1, DestroyerStep DEF IInv
<1>15. Buried'
  <2>1. stack[t][n].step # "free"
    BY <1>1, <1>2
  <2>2. \A q \in Objects : obj'[q].state = "destroyed" =>
          \/ n \in DOMAIN stack'[t] /\ stack'[t][n].step = "free" /\ stack'[t][n].obj = q
          \/ /\ obj[q].state = "destroyed"
             /\ n \in DOMAIN stack[t] /\ stack[t][n].step = "free" => stack[t][n].obj # q
    BY <1>6, <1>7, <1>11, <2>1
  <2> QED BY <1>7, <2>2, BuriedStep DEF IInv
<1>16. ObjectsOK'
  BY <1>1, <1>4, <1>11 DEF IInv, ObjectsOK, ObjectOK
<1>17. ObjectCounts'
  <2>1. \A q \in Objects : obj'[q].member = obj[q].member /\ obj'[q].dwRef = obj[q].dwRef
    BY <1>11
  <2>2. \A q \in Objects : MemberRefs(q)' = MemberRefs(q) /\ ClientRefs(q)' = ClientRefs(q)
    BY <1>1, <2>1 DEF MemberRefs, ClientRefs
  <2> QED BY <2>1, <2>2 DEF IInv, ObjectCounts
<1>18. MallocCounts'
  <2>1. \A a \in AllMallocs :
          /\ Tick(n \in DOMAIN stack'[t] /\ Pends(stack'[t][n], a)) = Tick(a = m)
          /\ Tick(n \in DOMAIN stack[t] /\ Pends(stack[t][n], a)) = Tick(a = m)
          /\ Tick(a = m) \in Int /\ Tick(a \in owned) \in Int /\ Tick(a \in owned') = Tick(a \in owned)
          /\ Tick(a = obj[o].malloc) = Tick(a = m) /\ Tick(a = obj'[o].malloc) = 0
    BY <1>1, <1>2, <1>3, <1>6, <1>7, <1>11, ThreadMallocAssumption DEF Pends, Tick, m, AllMallocs
  <2>2. \A a \in AllMallocs :
          mref'[a] = mref[a] + Tick(a = obj'[o].malloc) - Tick(a = obj[o].malloc)
                      + Tick(n \in DOMAIN stack'[t] /\ Pends(stack'[t][n], a))
                      - Tick(n \in DOMAIN stack[t] /\ Pends(stack[t][n], a))
                      + Tick(a \in owned') - Tick(a \in owned)
    BY <1>10, <2>1
  <2>3. \A q \in Objects \ {o} : obj'[q].malloc = obj[q].malloc
    BY <1>11
  <2>4. UNCHANGED libVars /\ MallocCounts
    BY <1>1 DEF IInv
  <2>5. MrefFollows(t, n, o)
    BY <2>2, <2>3 DEF MrefFollows
  <2> QED BY <1>1, <1>3, <1>7, <2>4, <2>5, MallocsStep
<1>19. CallsHeld'
  <2>1. stack[t][n].op # "method"
    BY <1>1, <1>2
  <2>2. \A u \in Threads : \A q : Calls(u, q)' = Calls(u, q)
    BY <1>6, <1>7, <2>1, CallsKept
  <2> QED BY <1>1, <2>2 DEF IInv, CallsHeld
<1>20. Quiet' /\ LibraryOK'
  BY <1>1, <1>3 DEF IInv, Quiet, LibraryOK, libVars
<1>21. HeapsOK'
  <2>1. heap' = heap /\ misfreed' = misfreed /\ dll' = dll
    BY <1>1 DEF heapVars, libVars
  <2>2. ASSUME NEW q \in Objects, NEW h \in Heaps
        PROVE  /\ <<"buffer", q>> \in heap'[h] <=> obj'[q].buffer /\ h = HeapOf(obj'[q].malloc)
               /\ obj'[q].state = "free" => <<"object", q>> \notin heap'[h]
               /\ obj'[q].state = "live" =>
                    (<<"object", q>> \in heap'[h] <=> h = HeapOf(obj'[q].malloc))
    <3>1. /\ <<"buffer", q>> \in heap[h] <=> obj[q].buffer /\ h = HeapOf(obj[q].malloc)
          /\ obj[q].state = "free" => <<"object", q>> \notin heap[h]
          /\ obj[q].state = "live" => (<<"object", q>> \in heap[h] <=> h = HeapOf(obj[q].malloc))
      BY DEF IInv, HeapsOK
    <3>2. CASE q = o
      BY <1>1, <1>11, <2>1, <3>1, <3>2
    <3>3. CASE q # o
      BY <1>11, <2>1, <3>1, <3>3
    <3> QED BY <3>2, <3>3
  <2>3. ASSUME NEW u \in Threads, NEW k \in DOMAIN stack'[u], stack'[u][k].step = "free"
        PROVE  \A h \in Heaps : <<"object", stack'[u][k].obj>> \in heap'[h] <=>
                                  h = HeapOf(stack'[u][k].malloc)
    <3>1. CASE u = t /\ k = n
      BY <1>3, <1>6, <1>7, <2>1, <3>1 DEF IInv, HeapsOK, m
    <3>2. CASE u = t => k # n
      <4>1. k \in DOMAIN stack[u] /\ stack'[u][k] = stack[u][k]
        BY <1>7, <3>2 DEF Elsewhere
      <4> QED BY <2>1, <2>3, <4>1 DEF IInv, HeapsOK
    <3> QED BY <3>1, <3>2
  <2>4. /\ misfreed' = {}
        /\ \A h \in Heaps : <<"globals", None>> \in heap'[h] <=>
             h = "process" /\ dll' \in {"attach.clear", "up", "detach.default", "detach.free"}
    BY <2>1 DEF IInv, HeapsOK
  <2> QED BY <2>2, <2>3, <2>4 DEF HeapsOK
<1> QED BY <1>8, <1>12, <1>13, <1>14, <1>15, <1>16, <1>17, <1>18, <1>19, <1>20, <1>21 DEF IInv

LEMMA FreeThisInv ==
  ASSUME IInv, NEW t \in Threads, FreeThis(t)
  PROVE  IInv'
<1> DEFINE n == Len(stack[t])
           f == Top(t)
<1>1. /\ stack[t] # <<>> /\ f.op = "release" /\ f.step = "free"
      /\ Free(HeapOf(f.malloc), <<"object", f.obj>>)
      /\ obj' = [obj EXCEPT ![f.obj] = NoObject]
      /\ SetTop(t, [f EXCEPT !.obj = None, !.step = IF f.scoped THEN "restore" ELSE "drop"])
      /\ UNCHANGED <<libVars, tls, mref, owned, held>> /\ TypesOK
  BY DEF FreeThis, InRelease, IInv
<1>2. /\ n \in DOMAIN stack[t] /\ n \in Nat \ {0} /\ f = stack[t][n]
      /\ f \in FrameType /\ FrameOK(f) /\ dll = "up"
  BY <1>1, TopOf, InUp DEF IInv
<1>3. PICK o \in Objects : o = f.obj
  BY <1>1, <1>2 DEF FrameOK, Dying
<1>4. /\ obj[o].dwRef = 0 /\ obj[o].state = "destroyed" /\ f.malloc \in AllMallocs
      /\ \A u \in Threads : \A k \in DOMAIN stack[u] : (u = t => k # n) =>
           (stack[u][k].op = "method" \/ stack[u][k].step \in Dying => stack[u][k].obj # o)
  <2>1. f.step \in Dying
    BY <1>1 DEF Dying
  <2>2. obj[o].state = "destroyed" /\ f.malloc \in AllMallocs
    BY <1>1, <1>2, <1>3 DEF FrameOK
  <2> QED BY <1>2, <1>3, <2>1, <2>2, DestroyedAlone
<1>5. obj[o].malloc = None /\ obj[o].member = None /\ ~obj[o].buffer
  BY <1>4 DEF IInv, ObjectsOK, ObjectOK
<1>6. PICK p : IsInnermost(t, n, p) /\ (f.scoped => p = f.prior /\ tls[t] = f.malloc)
                 /\ (~f.scoped => p = tls[t])
  <2>1. CASE f.scoped
    <3>1. IsInnermost(t, n, f.prior) /\ tls[t] = f.malloc
      BY <1>1, <2>1, TopScope DEF IInv
    <3> QED BY <2>1, <3>1
  <2>2. CASE ~f.scoped
    <3>1. IsInnermost(t, n, tls[t])
      BY <1>1, <2>2, TopScope DEF IInv
    <3> QED BY <2>2, <3>1
  <2> QED BY <2>1, <2>2
<1> HIDE DEF f
<1>7. PICK g \in FrameType :
        /\ SetTop(t, g) /\ g.op = "release" /\ g.malloc = f.malloc
        /\ g.scoped = f.scoped /\ g.prior = f.prior
        /\ g.step = IF f.scoped THEN "restore" ELSE "drop"
  <2> DEFINE x == [f EXCEPT !.obj = None, !.step = IF f.scoped THEN "restore" ELSE "drop"]
  <2>1. /\ x \in FrameType /\ x.op = "release" /\ x.malloc = f.malloc
        /\ x.scoped = f.scoped /\ x.prior = f.prior
        /\ x.step = IF f.scoped THEN "restore" ELSE "drop"
    BY <1>1, <1>2 DEF FrameType
  <2>2. SetTop(t, x)
    BY <1>1
  <2> HIDE DEF x
  <2> QED BY <2>1, <2>2
<1>8. /\ Elsewhere(t, n) /\ Len(stack'[t]) = n /\ n \in DOMAIN stack'[t] /\ stack'[t][n] = g
  BY <1>1, <1>2, <1>7, TopSet
<1>9. ScopesNest'
  <2>1. n \in {Len(stack[t]), Len(stack[t]) + 1} /\ ScopesNest /\ UNCHANGED <<dll, defaultMalloc>>
        /\ tls' = tls
    BY <1>1 DEF IInv, libVars
  <2>2. \/ /\ Len(stack'[t]) = n /\ stack'[t][n].scoped
           /\ stack'[t][n].prior = p /\ tls'[t] = stack'[t][n].malloc
        \/ Len(stack'[t]) = n /\ ~stack'[t][n].scoped /\ tls'[t] = p
    BY <1>6, <1>7, <1>8, <2>1
  <2>3. \A u \in Threads \ {t} : tls'[u] = tls[u]
    BY <2>1
  <2> HIDE DEF n
  <2> QED BY <1>1, <1>2, <1>6, <1>8, <2>1, <2>2, <2>3, ScopesStep
<1> HIDE DEF n
<1>10. /\ obj' \in [Objects -> ObjType] /\ \A q \in Objects \ {o} : obj'[q] = obj[q]
       /\ obj'[o] = NoObject
  <2>1. obj \in [Objects -> ObjType] /\ NoObject \in ObjType /\ obj' = [obj EXCEPT ![o] = NoObject]
    BY <1>1, <1>3, ObjTyped DEF ObjType, NoObject
  <2> QED BY <2>1
<1>11. /\ obj'[o].state = "free" /\ obj'[o].malloc = None /\ obj'[o].dwRef = 0
       /\ obj'[o].buffer = FALSE /\ obj'[o].member = None
  BY <1>10 DEF NoObject
<1>12. /\ heap' \in [Heaps -> SUBSET Blocks] /\ misfreed' = misfreed
       /\ \A h \in Heaps : <<"object", o>> \in heap[h] <=> h = HeapOf(f.malloc)
       /\ \A h \in Heaps : \A c : c \in heap'[h] <=>
            c \in heap[h] /\ ~(h = HeapOf(f.malloc) /\ c = <<"object", o>>)
  <2>1. \A h \in Heaps : <<"object", o>> \in heap[h] <=> h = HeapOf(f.malloc)
    BY <1>1, <1>2, <1>3 DEF IInv, HeapsOK
  <2>2. HeapOf(f.malloc) \in Heaps /\ Free(HeapOf(f.malloc), <<"object", o>>)
    BY <1>1, <1>3 DEF HeapOf, Heaps
  <2> QED BY <1>1, <2>1, <2>2, Freed
<1>13. TypesOK'
  <2>1. \A u \in Threads : Frames(u)' \subseteq FrameType
    BY <1>8 DEF Elsewhere, Frames
  <2>2. stack' \in [Threads -> Seq(FrameType)]
    BY <1>8 DEF Elsewhere
  <2> QED BY <1>1, <1>10, <1>12, <2>1, <2>2 DEF TypesOK, TypeOK, libVars, FrameType, ObjType
<1>14. FramesOK'
  <2>1. FrameOK(g)'
    BY <1>4, <1>7 DEF FrameOK, Dying
  <2>2. \A u \in Threads : \A k \in DOMAIN stack[u] : (u = t => k # n) =>
           /\ stack[u][k].op = "create" => stack[u][k].malloc \in owned' \cup {defaultMalloc'}
           /\ stack[u][k].op = "method" => Kept(stack[u][k].obj)
           /\ stack[u][k].step \in Dying => Kept(stack[u][k].obj)
    BY <1>1, <1>4, <1>10, FrameObjects DEF libVars, Kept
  <2> QED BY <1>1, <1>8, <2>1, <2>2, FramesStep DEF IInv
<1>15. OneDestroyer'
  <2>1. stack'[t][n].step \notin Dying
    BY <1>7, <1>8 DEF Dying
  <2> QED BY <1>8, <2>1, DestroyerStep DEF IInv
<1>16. Buried'
  <2>1. \A q \in Objects : obj'[q].state = "destroyed" =>
          /\ obj[q].state = "destroyed"
          /\ n \in DOMAIN stack[t] /\ stack[t][n].step = "free" => stack[t][n].obj # q
    BY <1>2, <1>3, <1>10, <1>11
  <2> QED BY <1>8, <2>1, BuriedStep DEF IInv
<1>17. ObjectsOK'
  <2> SUFFICES ASSUME NEW q \in Objects, NEW x, x = obj'[q]
               PROVE  ObjectOK(x)
    BY DEF ObjectsOK, ObjectOK
  <2>1. CASE q = o
    BY <1>11, <2>1 DEF ObjectOK
  <2>2. CASE q # o
    BY <1>10, <2>2 DEF IInv, ObjectsOK
  <2> QED BY <2>1, <2>2
<1>18. ObjectCounts'
  <2>1. \A q \in Objects : obj'[q].member = obj[q].member /\ obj'[q].dwRef = obj[q].dwRef
    BY <1>4, <1>5, <1>10, <1>11
  <2>2. \A q \in Objects : MemberRefs(q)' = MemberRefs(q) /\ ClientRefs(q)' = ClientRefs(q)
    BY <1>1, <2>1 DEF MemberRefs, ClientRefs
  <2> QED BY <2>1, <2>2 DEF IInv, ObjectCounts
<1>19. MallocCounts'
  <2>1. \A a \in AllMallocs :
          /\ Tick(n \in DOMAIN stack'[t] /\ Pends(stack'[t][n], a)) = Tick(a = f.malloc)
          /\ Tick(n \in DOMAIN stack[t] /\ Pends(stack[t][n], a)) = Tick(a = f.malloc)
          /\ Tick(a = f.malloc) \in Int
    BY <1>1, <1>2, <1>7, <1>8 DEF Pends, Tick
  <2>2. \A a \in AllMallocs : mref[a] \in Nat /\ mref'[a] = mref[a]
    BY <1>1 DEF TypesOK, TypeOK
  <2>3. \A a \in AllMallocs :
          mref'[a] = mref[a] + Tick(n \in DOMAIN stack'[t] /\ Pends(stack'[t][n], a))
                             - Tick(n \in DOMAIN stack[t] /\ Pends(stack[t][n], a))
    BY <2>1, <2>2
  <2>4. \A q \in Objects : obj'[q].malloc = obj[q].malloc
    BY <1>5, <1>10, <1>11
  <2> QED BY <1>1, <1>8, <2>3, <2>4, MallocsOfReleases
<1>20. CallsHeld'
  <2>1. stack[t][n].op # "method"
    BY <1>1, <1>2
  <2>2. \A u \in Threads : \A q : Calls(u, q)' = Calls(u, q)
    BY <1>7, <1>8, <2>1, CallsKept
  <2> QED BY <1>1, <2>2 DEF IInv, CallsHeld
<1>21. Quiet' /\ LibraryOK'
  BY <1>1, <1>2 DEF IInv, Quiet, LibraryOK, libVars
<1>22. HeapsOK'
  <2>1. ASSUME NEW q \in Objects, NEW h \in Heaps
        PROVE  /\ <<"buffer", q>> \in heap'[h] <=> obj'[q].buffer /\ h = HeapOf(obj'[q].malloc)
               /\ obj'[q].state = "free" => <<"object", q>> \notin heap'[h]
               /\ obj'[q].state = "live" =>
                    (<<"object", q>> \in heap'[h] <=> h = HeapOf(obj'[q].malloc))
    <3>1. /\ <<"buffer", q>> \in heap[h] <=> obj[q].buffer /\ h = HeapOf(obj[q].malloc)
          /\ obj[q].state = "free" => <<"object", q>> \notin heap[h]
          /\ obj[q].state = "live" => (<<"object", q>> \in heap[h] <=> h = HeapOf(obj[q].malloc))
      BY DEF IInv, HeapsOK
    <3>2. /\ <<"buffer", q>> \in heap'[h] <=> <<"buffer", q>> \in heap[h]
          /\ <<"object", q>> \in heap'[h] => <<"object", q>> \in heap[h]
          /\ q # o => (<<"object", q>> \in heap'[h] <=> <<"object", q>> \in heap[h])
          /\ <<"object", o>> \notin heap'[h]
      BY <1>12
    <3>3. CASE q = o
      BY <1>5, <1>11, <3>1, <3>2, <3>3
    <3>4. CASE q # o
      BY <1>10, <3>1, <3>2, <3>4
    <3> QED BY <3>3, <3>4
  <2>2. ASSUME NEW u \in Threads, NEW k \in DOMAIN stack'[u], stack'[u][k].step = "free"
        PROVE  \A h \in Heaps : <<"object", stack'[u][k].obj>> \in heap'[h] <=>
                                  h = HeapOf(stack'[u][k].malloc)
    <3>1. CASE u = t /\ k = n
      BY <1>7, <1>8, <2>2, <3>1
    <3>2. CASE u = t => k # n
      <4>1. k \in DOMAIN stack[u] /\ stack'[u][k] = stack[u][k]
        BY <1>8, <3>2 DEF Elsewhere
      <4>2. stack[u][k].obj # o
        BY <1>4, <2>2, <3>2, <4>1 DEF Dying
      <4>3. \A h \in Heaps : <<"object", stack[u][k].obj>> \in heap'[h] <=>
                               <<"object", stack[u][k].obj>> \in heap[h]
        BY <1>12, <4>2
      <4> QED BY <2>2, <4>1, <4>3 DEF IInv, HeapsOK
    <3> QED BY <3>1, <3>2
  <2>3. misfreed' = {}
    BY <1>12 DEF IInv, HeapsOK
  <2>4. \A h \in Heaps : <<"globals", None>> \in heap'[h] <=>
          h = "process" /\ dll' \in {"attach.clear", "up", "detach.default", "detach.free"}
    <3> TAKE h \in Heaps
    <3>1. <<"globals", None>> \in heap'[h] <=> <<"globals", None>> \in heap[h]
      BY <1>12
    <3> QED BY <1>1, <3>1 DEF IInv, HeapsOK, libVars
  <2> QED BY <2>1, <2>2, <2>3, <2>4 DEF HeapsOK
<1> QED BY <1>9, <1>13, <1>14, <1>15, <1>16, <1>17, <1>18, <1>19, <1>20, <1>21, <1>22 DEF IInv

LEMMA NewObjectInv ==
  ASSUME IInv, NEW t \in Threads, NewObject(t)
  PROVE  IInv'
<1>1. /\ InBody(t) /\ UNCHANGED <<libVars, tls, owned, stack>> /\ TypesOK /\ stack[t] # <<>>
  BY DEF NewObject, InBody, IInv
<1>2. PICK m : m = tls[t]
  OBVIOUS
<1>3. PICK n \in Objects, stream \in BOOLEAN, c \in Objects \cup {None} :
        /\ obj[n].state = "free"
        /\ c # None => c # n /\ held[t][c] > 0 /\ obj[c].dwRef < MaxRefs
        /\ mref' = NewRefs(m, c)[1]
        /\ obj' = [NewRefs(m, c)[2] EXCEPT ![n] =
                     [state |-> "live", stream |-> stream, malloc |-> m,
                      dwRef |-> 1, buffer |-> FALSE, member |-> c]]
        /\ held' = [held EXCEPT ![t][n] = @ + 1]
        /\ Alloc(HeapOf(m), <<"object", n>>)
  BY <1>2 DEF NewObject
<1>4. m \in AllMallocs /\ dll = "up"
  <2>1. /\ Top(t).op \in {"create", "method"} /\ FrameOK(Top(t))
    BY <1>1, TopOf DEF InBody, IInv
  <2>2. Top(t).scoped /\ (Top(t).op = "create" => Top(t).malloc \in AllMallocs)
    BY <2>1 DEF FrameOK
  <2>3. Top(t).op = "method" => Top(t).malloc \in AllMallocs
    <3>1. Top(t).op = "method" => InMethod(t)
      BY <1>1 DEF InMethod
    <3> QED BY <3>1, AtWork
  <2>4. m = Top(t).malloc
    BY <1>1, <1>2, <2>2, TopScope DEF IInv
  <2> QED BY <1>1, <2>1, <2>2, <2>3, <2>4, InUp
<1>5. /\ obj[n].malloc = None /\ obj[n].member = None /\ ~obj[n].buffer /\ obj[n].dwRef = 0
      /\ \A u \in Threads : ~(held[u][n] > 0)
      /\ \A p \in Objects : obj[p].member # n
  <2>1. ObjectOK(obj[n])
    BY DEF IInv, ObjectsOK
  <2> QED BY <1>3, <2>1, ObjectAlive DEF IInv, ObjectOK
<1>6. c # None => c \in Objects /\ c # n /\ obj[c].state = "live" /\ obj[c].dwRef > 0
  BY <1>3, ObjectAlive DEF IInv
<1>7. /\ mref' \in [AllMallocs -> Nat]
      /\ \A a \in AllMallocs : mref[a] \in Nat /\ mref'[a] = mref[a] + Tick(a = m)
  <2>1. mref' = [mref EXCEPT ![m] = @ + 1]
    BY <1>3 DEF NewRefs
  <2> QED BY <1>1, <1>4, <2>1, MrefUp
<1> DEFINE x == [state |-> "live", stream |-> stream, malloc |-> m,
                 dwRef |-> 1, buffer |-> FALSE, member |-> c]
<1>8. /\ x \in ObjType /\ x.state = "live" /\ x.malloc = m /\ x.dwRef = 1 /\ ~x.buffer /\ x.member = c
      /\ obj \in [Objects -> ObjType]
  BY <1>4, ObjTyped DEF ObjType
<1>9. /\ obj' \in [Objects -> ObjType] /\ obj'[n] = x
      /\ \A q \in Objects \ {n} :
           /\ obj'[q].state = obj[q].state /\ obj'[q].stream = obj[q].stream
           /\ obj'[q].malloc = obj[q].malloc /\ obj'[q].buffer = obj[q].buffer
           /\ obj'[q].member = obj[q].member
           /\ obj'[q].dwRef = obj[q].dwRef + (IF q = c THEN 1 ELSE 0)
  <2>1. CASE c = None
    <3>1. obj' = [obj EXCEPT ![n] = x]
      BY <1>3, <2>1 DEF NewRefs
    <3> HIDE DEF x
    <3>2. /\ obj' \in [Objects -> ObjType] /\ obj'[n] = x /\ \A q \in Objects \ {n} : obj'[q] = obj[q]
      BY <1>8, <3>1
    <3>3. \A q \in Objects : q # c /\ obj[q].dwRef \in Nat
      BY <1>8, <2>1, ThreadMallocAssumption DEF ObjType
    <3> QED BY <3>2, <3>3
  <2>2. CASE c # None
    <3> DEFINE b == [obj EXCEPT ![c].dwRef = @ + 1]
    <3>1. obj' = [b EXCEPT ![n] = x]
      BY <1>3, <2>2 DEF NewRefs
    <3>2. obj[c] \in ObjType /\ obj[c].dwRef + 1 \in Nat /\ c \in Objects
      BY <1>6, <1>8, <2>2 DEF ObjType
    <3>3. b = [obj EXCEPT ![c] = b[c]] /\ b[c] = [obj[c] EXCEPT !.dwRef = obj[c].dwRef + 1]
          /\ \A q \in Objects \ {c} : b[q] = obj[q]
      BY <1>8, <3>2
    <3> HIDE DEF b, x
    <3>4. /\ b[c] \in ObjType /\ b[c].dwRef = obj[c].dwRef + 1 /\ b[c].state = obj[c].state
          /\ b[c].stream = obj[c].stream /\ b[c].malloc = obj[c].malloc
          /\ b[c].buffer = obj[c].buffer /\ b[c].member = obj[c].member
      BY <3>2, <3>3, RefsOf
    <3>5. b \in [Objects -> ObjType]
      BY <1>8, <3>2, <3>3, <3>4
    <3>6. /\ obj' \in [Objects -> ObjType] /\ obj'[n] = x /\ \A q \in Objects \ {n} : obj'[q] = b[q]
      BY <1>8, <3>1, <3>5
    <3>7. \A q \in Objects : obj[q].dwRef \in Nat
      BY <1>8 DEF ObjType
    <3>8. ASSUME NEW q \in Objects \ {n}
          PROVE  /\ obj'[q].state = obj[q].state /\ obj'[q].stream = obj[q].stream
                 /\ obj'[q].malloc = obj[q].malloc /\ obj'[q].buffer = obj[q].buffer
                 /\ obj'[q].member = obj[q].member
                 /\ obj'[q].dwRef = obj[q].dwRef + (IF q = c THEN 1 ELSE 0)
      <4>1. CASE q = c
        BY <3>4, <3>6, <4>1
      <4>2. CASE q # c
        BY <3>3, <3>6, <3>7, <4>2
      <4> QED BY <4>1, <4>2
    <3> QED BY <3>6, <3>8
  <2> QED BY <2>1, <2>2
<1> HIDE DEF x
<1>10. /\ held' \in [Threads -> [Objects -> Nat]]
       /\ \A u \in Threads, q \in Objects : held'[u][q] = held[u][q] + Tick(u = t /\ q = n)
       /\ \A q \in Objects : Cardinality(ClientRefs(q)') = Cardinality(ClientRefs(q)) + Tick(q = n)
  <2>1. GainsRef(t, n)
    BY <1>3 DEF GainsRef
  <2> QED BY <1>1, <2>1, HeldUp
<1>11. /\ HeapOf(m) \in Heaps /\ <<"object", n>> \in Blocks
       /\ heap' \in [Heaps -> SUBSET Blocks] /\ misfreed' = misfreed
       /\ \A h \in Heaps : \A d : d \in heap'[h] <=> d \in heap[h] \/ (h = HeapOf(m) /\ d = <<"object", n>>)
  <2>1. HeapOf(m) \in Heaps /\ <<"object", n>> \in Blocks
    BY DEF HeapOf, Heaps, Blocks
  <2> QED BY <1>1, <1>3, <2>1, Allocated
<1>12. TypesOK'
  <2>1. TypeOK'
    BY <1>1, <1>7, <1>9, <1>10, <1>11, CallsSame DEF TypesOK, TypeOK, libVars, ObjType
  <2> QED BY <1>1, <2>1 DEF TypesOK, libVars
<1>13. FramesOK'
  <2>1. ASSUME NEW u \in Threads, NEW k \in DOMAIN stack[u],
               stack[u][k].op = "method" \/ stack[u][k].step \in Dying
        PROVE  Kept(stack[u][k].obj)
    <3>1. stack[u][k].obj \in Objects /\ obj[stack[u][k].obj].state # "free"
      BY <2>1, FrameObjects DEF FrameOK, Dying
    <3>2. PICK q \in Objects \ {n} : q = stack[u][k].obj
      BY <1>3, <3>1
    <3>3. obj[q].dwRef = 0 => obj'[q].dwRef = 0
      <4>1. CASE q = c
        BY <1>6, <4>1, ThreadMallocAssumption
      <4>2. CASE q # c
        BY <1>9, <4>2
      <4> QED BY <4>1, <4>2
    <3> QED BY <1>9, <3>2, <3>3 DEF Kept
  <2>2. \A u \in Threads : \A k \in DOMAIN stack[u] :
           stack[u][k].op = "create" => stack[u][k].malloc \in owned' \cup {defaultMalloc}
    BY <1>1, FrameObjects
  <2>3. UNCHANGED <<stack, defaultMalloc>>
    BY <1>1 DEF libVars
  <2> QED BY <2>1, <2>2, <2>3, FramesSame
<1>14. OneDestroyer' /\ Buried' /\ Quiet' /\ LibraryOK'
  BY <1>1, <1>4, <1>8, <1>9 DEF IInv, OneDestroyer, Buried, Quiet, LibraryOK, libVars
<1>15. ObjectsOK'
  <2> SUFFICES ASSUME NEW q \in Objects, NEW y, y = obj'[q]
               PROVE  ObjectOK(y)
    BY DEF ObjectsOK, ObjectOK
  <2>1. CASE q = n
    BY <1>4, <1>8, <1>9, <2>1 DEF ObjectOK
  <2>2. CASE q # n
    <3>1. ObjectOK(obj[q])
      BY DEF IInv, ObjectsOK
    <3>2. obj[q].dwRef = 0 => obj'[q].dwRef = 0
      <4>1. CASE q = c
        BY <1>6, <4>1, ThreadMallocAssumption
      <4>2. CASE q # c
        BY <1>9, <2>2, <4>2
      <4> QED BY <4>1, <4>2
    <3>3. obj[q].state # "live" => obj'[q].dwRef = 0
      BY <3>1, <3>2 DEF ObjectOK
    <3> QED BY <1>9, <2>2, <3>1, <3>3 DEF ObjectOK
  <2> QED BY <2>1, <2>2
<1>16. ObjectCounts'
  <2> SUFFICES ASSUME NEW q \in Objects
               PROVE  obj'[q].dwRef = Cardinality(ClientRefs(q)') + Cardinality(MemberRefs(q)')
    BY DEF ObjectCounts
  <2>1. /\ Cardinality(MemberRefs(q)') =
             Cardinality(MemberRefs(q)) + Tick(q = obj'[n].member) - Tick(q = obj[n].member)
        /\ Cardinality(MemberRefs(q)) \in Nat /\ Cardinality(MemberRefs(q)') \in Nat
    <3>1. \A p \in Objects \ {n} : obj'[p].member = obj[p].member
      BY <1>9
    <3> QED BY <1>1, <3>1, MembersChange
  <2>2. obj'[n].member = c /\ obj[n].member = None /\ obj'[n].dwRef = 1 /\ q # None
    BY <1>5, <1>8, <1>9, ThreadMallocAssumption
  <2>3. Cardinality(ClientRefs(q)) \in Nat
    BY <1>1, Finite, FS_CardinalityType
  <2>4. obj[q].dwRef = Cardinality(ClientRefs(q)) + Cardinality(MemberRefs(q))
    BY DEF IInv, ObjectCounts
  <2>5. /\ Cardinality(MemberRefs(q)') = Cardinality(MemberRefs(q)) + (IF q = c THEN 1 ELSE 0)
        /\ Cardinality(ClientRefs(q)') = Cardinality(ClientRefs(q)) + (IF q = n THEN 1 ELSE 0)
    BY <1>10, <2>1, <2>2 DEF Tick
  <2>6. CASE q = n
    <3>1. q # c
      BY <1>6, <2>2, <2>6
    <3>2. Cardinality(ClientRefs(q)) = 0 /\ Cardinality(MemberRefs(q)) = 0
      BY <1>5, <2>1, <2>3, <2>4, <2>6
    <3> QED BY <2>2, <2>5, <2>6, <3>1, <3>2
  <2>7. CASE q # n
    BY <1>9, <2>1, <2>3, <2>4, <2>5, <2>7
  <2> QED BY <2>6, <2>7
<1>17. MallocCounts'
  <2>1. Elsewhere(t, 0) /\ 0 \notin DOMAIN stack[t] /\ 0 \notin DOMAIN stack'[t]
    BY <1>1, SameStacks
  <2>2. \A a \in AllMallocs :
          /\ Tick(0 \in DOMAIN stack'[t] /\ Pends(stack'[t][0], a)) = 0
          /\ Tick(0 \in DOMAIN stack[t] /\ Pends(stack[t][0], a)) = 0
          /\ Tick(a = m) \in Int /\ Tick(a \in owned) \in Int /\ Tick(a \in owned') = Tick(a \in owned)
          /\ Tick(a = obj[n].malloc) = 0 /\ Tick(a = obj'[n].malloc) = Tick(a = m)
    BY <1>1, <1>5, <1>8, <1>9, <2>1, ThreadMallocAssumption DEF Tick, AllMallocs
  <2>3. \A a \in AllMallocs :
          mref'[a] = mref[a] + Tick(a = obj'[n].malloc) - Tick(a = obj[n].malloc)
                      + Tick(0 \in DOMAIN stack'[t] /\ Pends(stack'[t][0], a))
                      - Tick(0 \in DOMAIN stack[t] /\ Pends(stack[t][0], a))
                      + Tick(a \in owned') - Tick(a \in owned)
    BY <1>7, <2>2
  <2>4. MrefFollows(t, 0, n)
    BY <1>9, <2>3 DEF MrefFollows
  <2>5. UNCHANGED libVars /\ MallocCounts
    BY <1>1 DEF IInv
  <2> QED BY <1>1, <2>1, <2>4, <2>5, MallocsStep
<1>18. CallsHeld'
  <2> SUFFICES ASSUME NEW u \in Threads, NEW q \in Objects
               PROVE  Cardinality(Calls(u, q)') <= held'[u][q]
    BY DEF CallsHeld
  <2>1. Calls(u, q)' = Calls(u, q) /\ Cardinality(Calls(u, q)) \in Nat
    BY <1>1, CallsSame, Finite, FS_CardinalityType
  <2>2. held[u][q] \in Nat
    BY <1>1 DEF TypesOK, TypeOK
  <2>3. held'[u][q] = held[u][q] \/ held'[u][q] = held[u][q] + 1
    BY <1>10, <2>2 DEF Tick
  <2>4. Cardinality(Calls(u, q)) <= held[u][q]
    BY DEF IInv, CallsHeld
  <2> QED BY <2>1, <2>2, <2>3, <2>4
<1>19. ScopesNest'
  BY <1>1, ScopesSame DEF IInv, libVars
<1>20. HeapsOK'
  <2>1. ASSUME NEW q \in Objects, NEW h \in Heaps
        PROVE  /\ <<"buffer", q>> \in heap'[h] <=> obj'[q].buffer /\ h = HeapOf(obj'[q].malloc)
               /\ obj'[q].state = "free" => <<"object", q>> \notin heap'[h]
               /\ obj'[q].state = "live" =>
                    (<<"object", q>> \in heap'[h] <=> h = HeapOf(obj'[q].malloc))
    <3>1. /\ <<"buffer", q>> \in heap[h] <=> obj[q].buffer /\ h = HeapOf(obj[q].malloc)
          /\ obj[q].state = "free" => <<"object", q>> \notin heap[h]
          /\ obj[q].state = "live" => (<<"object", q>> \in heap[h] <=> h = HeapOf(obj[q].malloc))
      BY DEF IInv, HeapsOK
    <3>2. /\ <<"buffer", q>> \in heap'[h] <=> <<"buffer", q>> \in heap[h]
          /\ q # n => (<<"object", q>> \in heap'[h] <=> <<"object", q>> \in heap[h])
          /\ q = n => (<<"object", q>> \in heap'[h] <=> <<"object", q>> \in heap[h] \/ h = HeapOf(m))
      BY <1>11
    <3>3. CASE q = n
      BY <1>3, <1>5, <1>8, <1>9, <3>1, <3>2, <3>3
    <3>4. CASE q # n
      <4>1. HeapOf(obj'[q].malloc) = HeapOf(obj[q].malloc)
        BY <1>9, <3>4
      <4> QED BY <1>9, <3>1, <3>2, <3>4, <4>1
    <3> QED BY <3>3, <3>4
  <2>2. ASSUME NEW u \in Threads, NEW k \in DOMAIN stack'[u], stack'[u][k].step = "free"
        PROVE  \A h \in Heaps : <<"object", stack'[u][k].obj>> \in heap'[h] <=>
                                  h = HeapOf(stack'[u][k].malloc)
    <3>1. k \in DOMAIN stack[u] /\ stack'[u][k] = stack[u][k]
      BY <1>1, <2>2
    <3>2. stack[u][k].obj # n
      BY <1>3, <2>2, <3>1, FrameObjects DEF FrameOK
    <3>3. \A h \in Heaps : <<"object", stack[u][k].obj>> \in heap'[h] <=>
                             <<"object", stack[u][k].obj>> \in heap[h]
      BY <1>11, <3>2
    <3> QED BY <2>2, <3>1, <3>3 DEF IInv, HeapsOK
  <2>3. misfreed' = {}
    BY <1>11 DEF IInv, HeapsOK
  <2>4. \A h \in Heaps : <<"globals", None>> \in heap'[h] <=>
          h = "process" /\ dll' \in {"attach.clear", "up", "detach.default", "detach.free"}
    <3> TAKE h \in Heaps
    <3>1. <<"globals", None>> \in heap'[h] <=> <<"globals", None>> \in heap[h]
      BY <1>11
    <3> QED BY <1>1, <3>1 DEF IInv, HeapsOK, libVars
  <2> QED BY <2>1, <2>2, <2>3, <2>4 DEF HeapsOK
<1> QED BY <1>12, <1>13, <1>14, <1>15, <1>16, <1>17, <1>18, <1>19, <1>20 DEF IInv

-----------------------------------------------------------------------------
(* The steps: attach and detach.                                           *)

\* With no call in progress the slots are what attach and detach made them.
LEMMA QuietSlots ==
  ASSUME TypesOK, ScopesNest, \A t \in Threads : stack[t] = <<>>
  PROVE  \A t \in Threads : tls[t] = Outside(t)
<1> SUFFICES ASSUME NEW t \in Threads
             PROVE  tls[t] = Outside(t)
  OBVIOUS
<1>1. Len(stack[t]) = 0
  OBVIOUS
<1>2. IsInnermost(t, Len(stack[t]) + 1, tls[t])
  BY DEF ScopesNest
<1>3. 1 .. (Len(stack[t]) + 1) - 1 = {}
  BY <1>1
<1> QED BY <1>2, <1>3 DEF IsInnermost

LEMMA SlotsQuiet ==
  ASSUME \A t \in Threads : stack'[t] = <<>> /\ tls'[t] = Outside(t)'
  PROVE  ScopesNest'
<1> SUFFICES ASSUME NEW t \in Threads
             PROVE  /\ IsInnermost(t, Len(stack[t]) + 1, tls[t])'
                    /\ \A k \in DOMAIN stack'[t] :
                         stack'[t][k].scoped => IsInnermost(t, k, stack[t][k].prior)'
  BY DEF ScopesNest
<1>1. Len(stack'[t]) = 0 /\ DOMAIN stack'[t] = {}
  OBVIOUS
<1>2. {j \in 1 .. (Len(stack'[t]) + 1) - 1 : stack'[t][j].scoped} = {}
  BY <1>1
<1>3. IsInnermost(t, Len(stack[t]) + 1, tls[t])'
  BY <1>2 DEF IsInnermost
<1> QED BY <1>1, <1>3

Attached == {"attach.clear", "up", "detach.default", "detach.free"}

\* The library keeps its references to the malloc a.
LibraryRefs(a) == Tick(LoaderHolds(a)) + (IF a \in Defaults THEN inits[a] ELSE 0)

LEMMA LibraryRefsInt ==
  ASSUME TypesOK
  PROVE  \A a \in AllMallocs : LibraryRefs(a) \in Nat
BY DEF LibraryRefs, Tick, TypesOK, TypeOK

LEMMA LibraryStep ==
  ASSUME IInv, UNCHANGED <<obj, held, stack, owned>>,
         \A t \in Threads : stack[t] = <<>>, \A o \in Objects : obj[o].state = "free",
         TypesOK', LibraryOK', HeapsOK',
         \A t \in Threads : tls'[t] = Outside(t)',
         \A a \in AllMallocs : mref'[a] = mref[a] + LibraryRefs(a)' - LibraryRefs(a)
  PROVE  IInv'
<1>1. FramesOK' /\ OneDestroyer' /\ Buried'
  BY DEF IInv, FramesOK, OneDestroyer, Buried
<1>2. ObjectsOK' /\ ObjectCounts' /\ CallsHeld'
  BY ObjectsSame, CallsSame DEF IInv, CallsHeld
<1>3. Quiet' /\ ScopesNest'
  BY SlotsQuiet DEF Quiet
<1>4. MallocCounts'
  <2> SUFFICES ASSUME NEW m \in AllMallocs
               PROVE  mref'[m] = Cardinality(OwnedBy(m)') + Cardinality(Releases(m)')
                         + (IF m \in owned' THEN 1 ELSE 0)
                         + (IF LoaderHolds(m)' THEN 1 ELSE 0)
                         + (IF m \in Defaults THEN inits'[m] ELSE 0)
    BY DEF MallocCounts
  <2>1. OwnedBy(m)' = OwnedBy(m) /\ Releases(m)' = Releases(m)
    BY CallsSame DEF OwnedBy
  <2>2. Cardinality(OwnedBy(m)) \in Nat /\ Cardinality(Releases(m)) \in Nat
    BY Finite, FS_CardinalityType DEF IInv
  <2>3. LibraryRefs(m) \in Nat /\ LibraryRefs(m)' \in Nat
    <3>1. LibraryRefs(m) \in Nat
      BY LibraryRefsInt DEF IInv
    <3>2. inits' \in [Defaults -> Nat]
      BY DEF TypesOK, TypeOK
    <3>3. Tick(LoaderHolds(m)') \in Nat
      BY DEF Tick
    <3>4. LibraryRefs(m)' = Tick(LoaderHolds(m)') + (IF m \in Defaults THEN inits'[m] ELSE 0)
      BY DEF LibraryRefs, Tick
    <3> QED BY <3>1, <3>2, <3>3, <3>4
  <2>4. mref[m] = Cardinality(OwnedBy(m)) + Cardinality(Releases(m))
                    + Tick(m \in owned) + LibraryRefs(m)
    <3>1. mref[m] = Cardinality(OwnedBy(m)) + Cardinality(Releases(m))
                      + Tick(m \in owned) + Tick(LoaderHolds(m))
                      + (IF m \in Defaults THEN inits[m] ELSE 0)
      BY DEF IInv, MallocCounts, Tick
    <3>2. Tick(m \in owned) \in Nat /\ Tick(LoaderHolds(m)) \in Nat
          /\ (IF m \in Defaults THEN inits[m] ELSE 0) \in Nat
      BY DEF Tick, IInv, TypesOK, TypeOK
    <3> QED BY <2>2, <3>1, <3>2 DEF LibraryRefs
  <2>5. Tick(m \in owned) \in Nat
    BY DEF Tick
  <2>6. mref'[m] = Cardinality(OwnedBy(m)) + Cardinality(Releases(m))
                     + Tick(m \in owned) + LibraryRefs(m)'
    BY <2>2, <2>3, <2>4, <2>5
  <2>7. LibraryRefs(m)' = Tick(LoaderHolds(m)') + (IF m \in Defaults THEN inits'[m] ELSE 0)
        /\ Tick(LoaderHolds(m)') \in Nat /\ (IF m \in Defaults THEN inits'[m] ELSE 0) \in Nat
    BY DEF LibraryRefs, Tick, TypesOK, TypeOK
  <2> QED BY <2>1, <2>2, <2>5, <2>6, <2>7 DEF Tick
<1> QED BY <1>1, <1>2, <1>3, <1>4 DEF IInv

\* Steps that leave memory alone.
LEMMA LibraryHeaps ==
  ASSUME HeapsOK, UNCHANGED <<obj, stack, heapVars>>, dll \in Attached <=> dll' \in Attached
  PROVE  HeapsOK'
BY DEF HeapsOK, Attached, heapVars

\* Before attach is over, and from detach on, nothing is there.
LEMMA DownQuiet ==
  ASSUME IInv, dll # "up" \/ (ThreadQuiet /\ \A o \in Objects : obj[o].state = "free")
  PROVE  /\ \A t \in Threads : stack[t] = <<>> /\ tls[t] = Outside(t)
         /\ \A o \in Objects : obj[o].state = "free"
<1>1. /\ \A t \in Threads : stack[t] = <<>>
      /\ \A o \in Objects : obj[o].state = "free"
  BY DEF IInv, Quiet, ThreadQuiet
<1> QED BY <1>1, QuietSlots DEF IInv

LEMMA LibraryTypes ==
  ASSUME IInv, UNCHANGED <<obj, held, stack, owned>>,
         defaultMalloc' \in Defaults \cup {None}, tlsReady' \in BOOLEAN,
         attempts' \in 0 .. MaxInits, inits' \in [Defaults -> Nat],
         dll' \in {"down", "attach.default", "attach.setup", "attach.undo", "attach.clear", "up",
                   "detach.default", "detach.free", "detach.clear", "cleanup"},
         tls' \in [Threads -> AllMallocs \cup {None}], mref' \in [AllMallocs -> Nat],
         heap' \in [Heaps -> SUBSET Blocks], misfreed' = misfreed
  PROVE  TypesOK'
BY CallsSame DEF IInv, TypesOK, TypeOK

LEMMA LibraryNow ==
  ASSUME IInv
  PROVE  /\ defaultMalloc \in Defaults \cup {None} /\ tlsReady \in BOOLEAN
         /\ attempts \in 0 .. MaxInits /\ inits \in [Defaults -> Nat]
         /\ tls \in [Threads -> AllMallocs \cup {None}] /\ mref \in [AllMallocs -> Nat]
         /\ heap \in [Heaps -> SUBSET Blocks] /\ TypesOK
         /\ Loader \in Threads /\ Defaults \subseteq AllMallocs /\ None \notin AllMallocs
         /\ dll # "down" => tlsReady /\ defaultMalloc \in Defaults
         /\ defaultMalloc # None => inits[defaultMalloc] > 0
BY ThreadMallocAssumption DEF IInv, TypesOK, TypeOK, LibraryOK, AllMallocs

\* The loader's own scope comes and goes with its phase.
Held == {"attach.setup", "attach.undo", "attach.clear", "detach.free", "detach.clear"}

LEMMA OutsideIs ==
  /\ \A t : Outside(t) = IF t = Loader /\ dll \in Held THEN defaultMalloc ELSE None
  /\ \A t : Outside(t)' = IF t = Loader /\ dll' \in Held THEN defaultMalloc' ELSE None
  /\ \A a : LoaderHolds(a) <=> dll \in Held /\ a = defaultMalloc
  /\ \A a : LoaderHolds(a)' <=> dll' \in Held /\ a = defaultMalloc'
BY DEF Outside, LoaderHolds, Held

LEMMA InitThreadMallocInv ==
  ASSUME IInv, InitThreadMalloc
  PROVE  IInv'
<1>1. /\ dll = "down" /\ attempts' = attempts + 1 /\ attempts < MaxInits
      /\ UNCHANGED <<tls, owned, obj, held, stack, heapVars>>
  BY DEF InitThreadMalloc
<1>2. PICK d \in Defaults :
        /\ IF defaultMalloc # None THEN d = defaultMalloc ELSE mref[d] = 0 /\ inits[d] = 0
        /\ \/ /\ mref' = [mref EXCEPT ![d] = @ + 1]
              /\ inits' = [inits EXCEPT ![d] = @ + 1]
              /\ defaultMalloc' = d /\ tlsReady' = TRUE
              /\ dll' = "attach.default"
           \/ /\ defaultMalloc' = None
              /\ UNCHANGED <<mref, inits, tlsReady, dll>>
  BY DEF InitThreadMalloc
<1>3. /\ \A t \in Threads : stack[t] = <<>> /\ tls[t] = Outside(t)
      /\ \A o \in Objects : obj[o].state = "free"
  BY <1>1, DownQuiet
<1>4. dll' \in {"down", "attach.default"}
  BY <1>1, <1>2
<1>5. HeapsOK'
  <2>1. dll \notin Attached /\ dll' \notin Attached
    BY <1>1, <1>4 DEF Attached
  <2> QED BY <1>1, <2>1, LibraryHeaps DEF IInv
<1>6. \A t \in Threads : tls'[t] = Outside(t)'
  BY <1>1, <1>3, <1>4, OutsideIs DEF Held
<1>7. attempts' \in 0 .. MaxInits
  BY <1>1, LibraryNow, ThreadMallocAssumption
<1>8. \A a \in AllMallocs : ~LoaderHolds(a) /\ ~LoaderHolds(a)'
  BY <1>1, <1>4, OutsideIs DEF Held
<1>9. /\ inits' \in [Defaults -> Nat] /\ mref' \in [AllMallocs -> Nat]
      /\ \A a \in AllMallocs : mref'[a] = mref[a] + LibraryRefs(a)' - LibraryRefs(a)
      /\ LibraryOK'
  <2>1. CASE UNCHANGED <<mref, inits, tlsReady, dll>> /\ defaultMalloc' = None
    <3>1. inits \in [Defaults -> Nat] /\ mref \in [AllMallocs -> Nat]
      BY LibraryNow
    <3>2. \A a \in AllMallocs : LibraryRefs(a)' = LibraryRefs(a) /\ LibraryRefs(a) \in Nat
      <4> TAKE a \in AllMallocs
      <4>1. (Tick(LoaderHolds(a)))' = 0 /\ Tick(LoaderHolds(a)) = 0
        BY <1>8 DEF Tick
      <4>2. LibraryRefs(a) \in Nat
        BY LibraryNow, LibraryRefsInt
      <4> QED BY <2>1, <4>1, <4>2 DEF LibraryRefs
    <3>3. LibraryOK'
      BY <1>1, <2>1 DEF LibraryOK
    <3> QED BY <2>1, <3>1, <3>2, <3>3
  <2>2. CASE /\ mref' = [mref EXCEPT ![d] = @ + 1]
             /\ inits' = [inits EXCEPT ![d] = @ + 1]
             /\ defaultMalloc' = d /\ tlsReady' = TRUE
             /\ dll' = "attach.default"
    <3>1. inits \in [Defaults -> Nat] /\ mref \in [AllMallocs -> Nat] /\ d \in AllMallocs
      BY LibraryNow
    <3>2. inits' \in [Defaults -> Nat] /\ mref' \in [AllMallocs -> Nat] /\ inits'[d] = inits[d] + 1
      BY <2>2, <3>1
    <3>3. LibraryOK'
      BY <2>2, <3>1, <3>2, ThreadMallocAssumption DEF LibraryOK
    <3>4. ASSUME NEW a \in AllMallocs
          PROVE  mref'[a] = mref[a] + LibraryRefs(a)' - LibraryRefs(a)
      <4>1. (Tick(LoaderHolds(a)))' = 0 /\ Tick(LoaderHolds(a)) = 0
        BY <1>8 DEF Tick
      <4>2. /\ LibraryRefs(a) = 0 + (IF a \in Defaults THEN inits[a] ELSE 0)
            /\ LibraryRefs(a)' = 0 + (IF a \in Defaults THEN inits'[a] ELSE 0)
        BY <4>1 DEF LibraryRefs
      <4>3. CASE a = d
        BY <2>2, <3>1, <4>2, <4>3
      <4>4. CASE a # d
        BY <2>2, <3>1, <4>2, <4>4
      <4> QED BY <4>3, <4>4
    <3> QED BY <3>2, <3>3, <3>4
  <2> QED BY <1>2, <2>1, <2>2
<1>10. /\ defaultMalloc' \in Defaults \cup {None} /\ tlsReady' \in BOOLEAN
       /\ tls' \in [Threads -> AllMallocs \cup {None}]
       /\ heap' \in [Heaps -> SUBSET Blocks] /\ misfreed' = misfreed
  BY <1>1, <1>2, LibraryNow DEF heapVars
<1>11. TypesOK'
  BY <1>1, <1>4, <1>7, <1>9, <1>10, LibraryTypes
<1> QED BY <1>1, <1>3, <1>5, <1>6, <1>9, <1>11, LibraryStep

LEMMA SetThreadMallocToDefaultInv ==
  ASSUME IInv, SetThreadMallocToDefault
  PROVE  IInv'
<1>1. /\ \/ dll = "attach.default" /\ dll' = "attach.setup"
         \/ dll = "detach.default" /\ dll' = "detach.free"
      /\ tls' = [tls EXCEPT ![Loader] = defaultMalloc]
      /\ mref' = [mref EXCEPT ![defaultMalloc] = @ + 1]
      /\ UNCHANGED <<defaultMalloc, tlsReady, attempts, inits, owned, obj, held, stack, heapVars>>
  BY DEF SetThreadMallocToDefault
<1>2. /\ \A t \in Threads : stack[t] = <<>> /\ tls[t] = Outside(t)
      /\ \A o \in Objects : obj[o].state = "free"
  BY <1>1, DownQuiet
<1>3. /\ defaultMalloc \in Defaults /\ defaultMalloc \in AllMallocs /\ tlsReady /\ Loader \in Threads
      /\ inits \in [Defaults -> Nat] /\ mref \in [AllMallocs -> Nat]
      /\ tls \in [Threads -> AllMallocs \cup {None}]
  BY <1>1, LibraryNow
<1>4. HeapsOK'
  <2>1. dll \in Attached <=> dll' \in Attached
    BY <1>1 DEF Attached
  <2> QED BY <1>1, <2>1, LibraryHeaps DEF IInv
<1>5. dll \notin Held /\ dll' \in Held
  BY <1>1 DEF Held
<1>6. \A t \in Threads : tls'[t] = Outside(t)'
  BY <1>1, <1>2, <1>3, <1>5, OutsideIs
<1>7. mref' \in [AllMallocs -> Nat] /\ tls' \in [Threads -> AllMallocs \cup {None}]
  BY <1>1, <1>3
<1>8. ASSUME NEW a \in AllMallocs
      PROVE  mref'[a] = mref[a] + LibraryRefs(a)' - LibraryRefs(a)
  <2>1. (Tick(LoaderHolds(a)))' = Tick(a = defaultMalloc) /\ Tick(LoaderHolds(a)) = 0
    BY <1>1, <1>5, OutsideIs DEF Tick
  <2>2. /\ LibraryRefs(a) = 0 + (IF a \in Defaults THEN inits[a] ELSE 0)
        /\ LibraryRefs(a)' = Tick(a = defaultMalloc) + (IF a \in Defaults THEN inits[a] ELSE 0)
    BY <1>1, <2>1 DEF LibraryRefs
  <2>3. mref'[a] = mref[a] + Tick(a = defaultMalloc)
    BY <1>1, <1>3 DEF Tick
  <2>4. mref[a] \in Nat /\ Tick(a = defaultMalloc) \in Nat
        /\ (IF a \in Defaults THEN inits[a] ELSE 0) \in Nat
    BY <1>3 DEF Tick
  <2> QED BY <2>2, <2>3, <2>4
<1>9. LibraryOK'
  BY <1>1 DEF IInv, LibraryOK
<1>10. TypesOK'
  <2>1. /\ defaultMalloc' \in Defaults \cup {None} /\ tlsReady' \in BOOLEAN
        /\ attempts' \in 0 .. MaxInits /\ inits' \in [Defaults -> Nat]
        /\ heap' \in [Heaps -> SUBSET Blocks] /\ misfreed' = misfreed
    BY <1>1, LibraryNow DEF heapVars
  <2> QED BY <1>1, <1>7, <2>1, LibraryTypes
<1> QED BY <1>1, <1>2, <1>4, <1>6, <1>8, <1>9, <1>10, LibraryStep

LEMMA ClearThreadMallocInv ==
  ASSUME IInv, ClearThreadMalloc
  PROVE  IInv'
<1>1. /\ \/ dll = "attach.clear" /\ dll' = "up"
         \/ dll \in {"attach.undo", "detach.clear"} /\ dll' = "cleanup"
      /\ tls' = [tls EXCEPT ![Loader] = None]
      /\ mref' = [mref EXCEPT ![tls[Loader]] = @ - 1]
      /\ UNCHANGED <<defaultMalloc, tlsReady, attempts, inits, owned, obj, held, stack, heapVars>>
  BY DEF ClearThreadMalloc
<1>2. /\ \A t \in Threads : stack[t] = <<>> /\ tls[t] = Outside(t)
      /\ \A o \in Objects : obj[o].state = "free"
  BY <1>1, DownQuiet
<1>3. /\ defaultMalloc \in Defaults /\ defaultMalloc \in AllMallocs /\ tlsReady /\ Loader \in Threads
      /\ inits \in [Defaults -> Nat] /\ mref \in [AllMallocs -> Nat]
      /\ tls \in [Threads -> AllMallocs \cup {None}]
  BY <1>1, LibraryNow
<1>4. HeapsOK'
  <2>1. dll \in Attached <=> dll' \in Attached
    BY <1>1 DEF Attached
  <2> QED BY <1>1, <2>1, LibraryHeaps DEF IInv
<1>5. dll \in Held /\ dll' \notin Held
  BY <1>1 DEF Held
<1>6. tls[Loader] = defaultMalloc /\ \A t \in Threads : tls'[t] = Outside(t)'
  BY <1>1, <1>2, <1>3, <1>5, OutsideIs
<1>7. mref[defaultMalloc] > 0
  BY <1>3, MallocAlive DEF IInv
<1>8. mref' \in [AllMallocs -> Nat] /\ tls' \in [Threads -> AllMallocs \cup {None}]
  BY <1>1, <1>3, <1>6, <1>7
<1>9. ASSUME NEW a \in AllMallocs
      PROVE  mref'[a] = mref[a] + LibraryRefs(a)' - LibraryRefs(a)
  <2>1. (Tick(LoaderHolds(a)))' = 0 /\ Tick(LoaderHolds(a)) = Tick(a = defaultMalloc)
    BY <1>1, <1>5, OutsideIs DEF Tick
  <2>2. /\ LibraryRefs(a) = Tick(a = defaultMalloc) + (IF a \in Defaults THEN inits[a] ELSE 0)
        /\ LibraryRefs(a)' = 0 + (IF a \in Defaults THEN inits[a] ELSE 0)
    BY <1>1, <2>1 DEF LibraryRefs
  <2>3. mref'[a] = mref[a] - Tick(a = defaultMalloc)
    BY <1>1, <1>3, <1>6 DEF Tick
  <2>4. mref[a] \in Nat /\ Tick(a = defaultMalloc) \in Nat
        /\ (IF a \in Defaults THEN inits[a] ELSE 0) \in Nat
    BY <1>3 DEF Tick
  <2> QED BY <2>2, <2>3, <2>4
<1>10. LibraryOK'
  BY <1>1 DEF IInv, LibraryOK
<1>11. TypesOK'
  <2>1. /\ defaultMalloc' \in Defaults \cup {None} /\ tlsReady' \in BOOLEAN
        /\ attempts' \in 0 .. MaxInits /\ inits' \in [Defaults -> Nat]
        /\ heap' \in [Heaps -> SUBSET Blocks] /\ misfreed' = misfreed
    BY <1>1, LibraryNow DEF heapVars
  <2> QED BY <1>1, <1>8, <2>1, LibraryTypes
<1> QED BY <1>1, <1>2, <1>4, <1>6, <1>9, <1>10, <1>11, LibraryStep

\* Steps that only move attach or detach on, and perhaps allocate or free.
LEMMA PhaseStep ==
  ASSUME IInv, UNCHANGED <<defaultMalloc, attempts, inits, tls, mref, owned, obj, held, stack>>,
         dll # "up" \/ (ThreadQuiet /\ \A o \in Objects : obj[o].state = "free"),
         dll' \in {"down", "attach.clear", "attach.undo", "detach.default", "detach.clear"},
         dll \in Held <=> dll' \in Held,
         tlsReady' \in BOOLEAN, dll' # "down" => tlsReady' /\ defaultMalloc # None,
         heap' \in [Heaps -> SUBSET Blocks], misfreed' = misfreed, HeapsOK'
  PROVE  IInv'
<1>1. /\ \A t \in Threads : stack[t] = <<>> /\ tls[t] = Outside(t)
      /\ \A o \in Objects : obj[o].state = "free"
  BY DownQuiet
<1>2. \A t \in Threads : tls'[t] = Outside(t)'
  BY <1>1, OutsideIs
<1>3. mref \in [AllMallocs -> Nat] /\ inits \in [Defaults -> Nat] /\ TypesOK
  BY LibraryNow
<1>4. ASSUME NEW a \in AllMallocs
      PROVE  mref'[a] = mref[a] + LibraryRefs(a)' - LibraryRefs(a)
  <2>1. LoaderHolds(a)' <=> LoaderHolds(a)
    BY OutsideIs
  <2>2. (Tick(LoaderHolds(a)))' = Tick(LoaderHolds(a))
    BY <2>1 DEF Tick
  <2>3. LibraryRefs(a)' = LibraryRefs(a)
    BY <2>2 DEF LibraryRefs
  <2>4. LibraryRefs(a) \in Nat /\ mref[a] \in Nat
    BY <1>3, LibraryRefsInt
  <2> QED BY <2>3, <2>4
<1>5. LibraryOK'
  BY DEF IInv, LibraryOK
<1>6. TypesOK'
  <2>1. /\ defaultMalloc' \in Defaults \cup {None} /\ attempts' \in 0 .. MaxInits
        /\ inits' \in [Defaults -> Nat] /\ mref' \in [AllMallocs -> Nat]
        /\ tls' \in [Threads -> AllMallocs \cup {None}]
    BY LibraryNow
  <2> QED BY <2>1, LibraryTypes
<1> QED BY <1>1, <1>2, <1>4, <1>5, <1>6, LibraryStep

LEMMA DetachInv ==
  ASSUME IInv, Detach
  PROVE  IInv'
<1>1. /\ dll = "up" /\ ThreadQuiet /\ \A o \in Objects : obj[o].state = "free"
      /\ dll' = "detach.default"
      /\ UNCHANGED <<defaultMalloc, tlsReady, attempts, inits, tls, mref, owned, obj, held, stack, heapVars>>
  BY DEF Detach
<1>2. HeapsOK'
  <2>1. dll \in Attached <=> dll' \in Attached
    BY <1>1 DEF Attached
  <2> QED BY <1>1, <2>1, LibraryHeaps DEF IInv
<1>3. /\ dll \in Held <=> dll' \in Held
      /\ tlsReady' \in BOOLEAN /\ tlsReady' /\ defaultMalloc # None
      /\ heap' \in [Heaps -> SUBSET Blocks] /\ misfreed' = misfreed
  BY <1>1, LibraryNow, ThreadMallocAssumption DEF Held, heapVars
<1> QED BY <1>1, <1>2, <1>3, PhaseStep

LEMMA CleanupThreadMallocInv ==
  ASSUME IInv, CleanupThreadMalloc
  PROVE  IInv'
<1>1. /\ dll = "cleanup" /\ dll' = "down" /\ tlsReady' = FALSE
      /\ UNCHANGED <<defaultMalloc, attempts, inits, tls, mref, owned, obj, held, stack, heapVars>>
  BY DEF CleanupThreadMalloc
<1>2. HeapsOK'
  <2>1. dll \in Attached <=> dll' \in Attached
    BY <1>1 DEF Attached
  <2> QED BY <1>1, <2>1, LibraryHeaps DEF IInv
<1>3. /\ dll \in Held <=> dll' \in Held
      /\ heap' \in [Heaps -> SUBSET Blocks] /\ misfreed' = misfreed
  BY <1>1, LibraryNow DEF Held, heapVars
<1> QED BY <1>1, <1>2, <1>3, PhaseStep

\* The loader's slot holds the default malloc, which is on the process heap.
LEMMA LoaderHeap ==
  ASSUME IInv, dll \in Held
  PROVE  HeapOf(tls[Loader]) = "process" /\ "process" \in Heaps /\ <<"globals", None>> \in Blocks
<1>1. dll # "up" /\ dll # "down"
  BY DEF Held
<1>2. tls[Loader] = defaultMalloc /\ defaultMalloc \in Defaults
  BY <1>1, DownQuiet, LibraryNow, OutsideIs
<1> QED BY <1>2, ThreadMallocAssumption DEF HeapOf, Heaps, Blocks

LEMMA SetupGlobalsInv ==
  ASSUME IInv, SetupGlobals
  PROVE  IInv'
<1>1. /\ dll = "attach.setup"
      /\ \/ dll' = "attach.clear" /\ Alloc(HeapOf(tls[Loader]), <<"globals", None>>)
         \/ dll' = "attach.undo" /\ UNCHANGED heapVars
      /\ UNCHANGED <<defaultMalloc, tlsReady, attempts, inits, tls, mref, owned, obj, held, stack>>
  BY DEF SetupGlobals
<1>2. /\ heap' \in [Heaps -> SUBSET Blocks] /\ misfreed' = misfreed /\ HeapsOK'
  <2>1. CASE dll' = "attach.undo" /\ UNCHANGED heapVars
    <3>1. dll \in Attached <=> dll' \in Attached
      BY <1>1, <2>1 DEF Attached
    <3>2. HeapsOK'
      BY <1>1, <2>1, <3>1, LibraryHeaps DEF IInv
    <3> QED BY <2>1, <3>2, LibraryNow DEF heapVars
  <2>2. CASE dll' = "attach.clear" /\ Alloc(HeapOf(tls[Loader]), <<"globals", None>>)
    <3>1. HeapOf(tls[Loader]) = "process" /\ "process" \in Heaps /\ <<"globals", None>> \in Blocks
      BY <1>1, LoaderHeap DEF Held
    <3>2. /\ heap' \in [Heaps -> SUBSET Blocks] /\ misfreed' = misfreed
          /\ \A g \in Heaps : \A c : c \in heap'[g] <=>
               c \in heap[g] \/ (g = "process" /\ c = <<"globals", None>>)
      BY <2>2, <3>1, LibraryNow, Allocated
    <3>3. \A g \in Heaps : <<"globals", None>> \notin heap[g]
      BY <1>1 DEF IInv, HeapsOK
    <3>4. HeapsOK'
      BY <1>1, <2>2, <3>2, <3>3 DEF IInv, HeapsOK
    <3> QED BY <3>2, <3>4
  <2> QED BY <1>1, <2>1, <2>2
<1>3. /\ dll \in Held <=> dll' \in Held
      /\ tlsReady' \in BOOLEAN /\ tlsReady' /\ defaultMalloc # None
  BY <1>1, LibraryNow, ThreadMallocAssumption DEF Held
<1> QED BY <1>1, <1>2, <1>3, PhaseStep

LEMMA FreeGlobalsInv ==
  ASSUME IInv, FreeGlobals
  PROVE  IInv'
<1>1. /\ dll = "detach.free" /\ dll' = "detach.clear"
      /\ Free(HeapOf(tls[Loader]), <<"globals", None>>)
      /\ UNCHANGED <<defaultMalloc, tlsReady, attempts, inits, tls, mref, owned, obj, held, stack>>
  BY DEF FreeGlobals
<1>2. /\ heap' \in [Heaps -> SUBSET Blocks] /\ misfreed' = misfreed /\ HeapsOK'
  <2>1. HeapOf(tls[Loader]) = "process" /\ "process" \in Heaps /\ <<"globals", None>> \in Blocks
    BY <1>1, LoaderHeap DEF Held
  <2>2. <<"globals", None>> \in heap["process"]
    BY <1>1, <2>1 DEF IInv, HeapsOK
  <2>3. /\ heap' \in [Heaps -> SUBSET Blocks] /\ misfreed' = misfreed
        /\ \A g \in Heaps : \A c : c \in heap'[g] <=>
             c \in heap[g] /\ ~(g = "process" /\ c = <<"globals", None>>)
    BY <1>1, <2>1, <2>2, LibraryNow, Freed
  <2>4. HeapsOK'
    BY <1>1, <2>3 DEF IInv, HeapsOK
  <2> QED BY <2>3, <2>4
<1>3. /\ dll \in Held <=> dll' \in Held
      /\ tlsReady' \in BOOLEAN /\ tlsReady' /\ defaultMalloc # None
  BY <1>1, LibraryNow, ThreadMallocAssumption DEF Held
<1> QED BY <1>1, <1>2, <1>3, PhaseStep

-----------------------------------------------------------------------------
(* The specification keeps the invariant.                                  *)

LEMMA InitInv ==
  ASSUME Init
  PROVE  IInv
<1>1. /\ defaultMalloc = None /\ tlsReady = FALSE /\ dll = "down" /\ attempts = 0
      /\ inits = [d \in Defaults |-> 0]
      /\ tls = [t \in Threads |-> None]
      /\ mref = [m \in AllMallocs |-> IF m \in Mallocs THEN 1 ELSE 0]
      /\ owned = Mallocs
      /\ obj = [o \in Objects |-> NoObject]
      /\ held = [t \in Threads |-> [o \in Objects |-> 0]]
      /\ stack = [t \in Threads |-> <<>>]
      /\ heap = [h \in Heaps |-> {}] /\ misfreed = {}
  BY DEF Init
<1>2. TypesOK
  <2>1. TypeOK
    <3>1. \A t \in Threads : Frames(t) = {}
      BY <1>1 DEF Frames
    <3>2. attempts \in 0 .. MaxInits
      BY <1>1, ThreadMallocAssumption
    <3>3. inits \in [Defaults -> Nat] /\ held \in [Threads -> [Objects -> Nat]]
      BY <1>1
    <3>4. /\ tls \in [Threads -> AllMallocs \cup {None}] /\ mref \in [AllMallocs -> Nat]
          /\ heap \in [Heaps -> SUBSET Blocks]
      BY <1>1
    <3>5. obj \in [Objects -> ObjType]
      <4>1. NoObject \in ObjType
        BY DEF NoObject, ObjType
      <4> QED BY <1>1, <4>1
    <3> QED BY <1>1, <3>1, <3>2, <3>3, <3>4, <3>5 DEF TypeOK, ObjType
  <2> QED BY <1>1, <2>1 DEF TypesOK
<1>3. FramesOK /\ OneDestroyer /\ Buried /\ ObjectsOK /\ Quiet /\ LibraryOK /\ HeapsOK
  BY <1>1 DEF FramesOK, OneDestroyer, Buried, ObjectsOK, ObjectOK, Quiet, LibraryOK, HeapsOK, NoObject
<1>4. CallsHeld
  <2>1. ASSUME NEW t \in Threads, NEW o \in Objects
        PROVE  Cardinality(Calls(t, o)) <= held[t][o]
    <3>1. Calls(t, o) = {} /\ held[t][o] = 0
      BY <1>1 DEF Calls
    <3>2. Cardinality(Calls(t, o)) = 0
      BY <3>1, FS_EmptySet
    <3> QED BY <3>1, <3>2
  <2> QED BY <2>1 DEF CallsHeld
<1>5. ObjectCounts
  <2> SUFFICES ASSUME NEW o \in Objects
               PROVE  obj[o].dwRef = Cardinality(ClientRefs(o)) + Cardinality(MemberRefs(o))
    BY DEF ObjectCounts
  <2>1. ClientRefs(o) = {}
    <3>1. \A t \in Threads : held[t][o] = 0
      BY <1>1
    <3> QED BY <3>1 DEF ClientRefs
  <2>2. MemberRefs(o) = {}
    BY <1>1, ThreadMallocAssumption DEF MemberRefs, NoObject
  <2> QED BY <1>1, <2>1, <2>2, FS_EmptySet DEF NoObject
<1>6. MallocCounts
  <2> SUFFICES ASSUME NEW m \in AllMallocs
               PROVE  mref[m] = Cardinality(OwnedBy(m)) + Cardinality(Releases(m))
                                  + (IF m \in owned THEN 1 ELSE 0)
                                  + (IF LoaderHolds(m) THEN 1 ELSE 0)
                                  + (IF m \in Defaults THEN inits[m] ELSE 0)
    BY DEF MallocCounts
  <2>1. OwnedBy(m) = {} /\ Releases(m) = {}
    BY <1>1, ThreadMallocAssumption DEF OwnedBy, Releases, Pending, NoObject, AllMallocs
  <2>2. ~LoaderHolds(m)
    BY <1>1, OutsideIs DEF Held
  <2> QED BY <1>1, <2>1, <2>2, FS_EmptySet
<1>7. ScopesNest
  <2>1. \A t \in Threads : Len(stack[t]) = 0 /\ DOMAIN stack[t] = {} /\ Outside(t) = None
    BY <1>1, OutsideIs DEF Held
  <2>2. ASSUME NEW t \in Threads
        PROVE  IsInnermost(t, Len(stack[t]) + 1, tls[t])
    <3>1. {j \in 1 .. (Len(stack[t]) + 1) - 1 : stack[t][j].scoped} = {}
      BY <2>1
    <3> QED BY <1>1, <2>1, <3>1 DEF IsInnermost
  <2> QED BY <2>1, <2>2 DEF ScopesNest
<1> QED BY <1>2, <1>3, <1>4, <1>5, <1>6, <1>7 DEF IInv

LEMMA StutterInv ==
  ASSUME IInv, UNCHANGED vars
  PROVE  IInv'
<1>1. UNCHANGED <<defaultMalloc, tlsReady, dll, attempts, inits, tls, mref, owned, obj, held,
                  stack, heap, misfreed>>
  BY DEF vars, libVars, heapVars
<1>2. TypesOK' /\ ScopesNest'
  BY <1>1, CallsSame, ScopesSame DEF IInv, TypesOK, TypeOK
<1>3. FramesOK' /\ OneDestroyer' /\ Buried' /\ ObjectsOK' /\ Quiet' /\ LibraryOK' /\ HeapsOK'
  BY <1>1 DEF IInv, FramesOK, FrameOK, OneDestroyer, Buried, ObjectsOK, ObjectOK, Quiet,
              LibraryOK, HeapsOK
<1>4. ObjectCounts' /\ CallsHeld'
  BY <1>1, ObjectsSame, CallsSame DEF IInv, CallsHeld
<1>5. MallocCounts'
  BY <1>1, CallsSame DEF IInv, MallocCounts, OwnedBy, LoaderHolds
<1> QED BY <1>2, <1>3, <1>4, <1>5 DEF IInv

LEMMA NextInv ==
  ASSUME IInv, [Next]_vars
  PROVE  IInv'
<1>1. CASE Library
  BY <1>1, InitThreadMallocInv, SetThreadMallocToDefaultInv, SetupGlobalsInv, ClearThreadMallocInv,
     CleanupThreadMallocInv, DetachInv, FreeGlobalsInv DEF Library
<1>2. CASE ClientReleaseMalloc
  BY <1>2, ClientReleaseMallocInv
<1>3. ASSUME NEW t \in Threads, Client(t)
      PROVE  IInv'
  BY <1>3, CreateInstanceInv, CallInv, StreamWriteInv, ClientAddRefInv, HandOverInv,
     ClientReleaseInv DEF Client
<1>4. ASSUME NEW t \in Threads, Body(t)
      PROVE  IInv'
  BY <1>4, NewObjectInv, GrowBufferInv, StoreMemberInv, ReturnInv DEF Body
<1>5. ASSUME NEW t \in Threads, Destroying(t)
      PROVE  IInv'
  BY <1>5, EnterDestroyInv, FreeBufferInv, ReleaseMemberInv, ReleaseOwnMallocInv, FreeThisInv,
     RestoreTlsInv, DropTmpInv DEF Destroying
<1>6. CASE UNCHANGED vars
  BY <1>6, StutterInv
<1> QED BY <1>1, <1>2, <1>3, <1>4, <1>5, <1>6 DEF Next

\* The invariant that the theorems below rest on: what each call in progress
\* knows of its malloc and its object, one destroyer for each object, the
\* exact counts, and the place of every block.
THEOREM Invariance == Spec => []IInv
<1>1. Init => IInv
  BY InitInv
<1>2. IInv /\ [Next]_vars => IInv'
  BY NextInv
<1> QED BY <1>1, <1>2, PTL DEF Spec

-----------------------------------------------------------------------------
(* The properties.                                                         *)

\* What the scopes of a thread have put into its slot is alive.
LEMMA InnermostAlive ==
  ASSUME IInv, NEW t \in Threads, NEW k \in 1 .. Len(stack[t]) + 1, NEW m,
         IsInnermost(t, k, m), m # None
  PROVE  m \in AllMallocs /\ mref[m] > 0
<1>1. TypesOK /\ LibraryOK /\ MallocCounts /\ Len(stack[t]) \in Nat
  BY DEF IInv, TypesOK
<1>2. CASE m = Outside(t)
  <2>1. m = defaultMalloc /\ m \in AllMallocs
    BY <1>2, OutsideIs, LibraryNow
  <2> QED BY <1>1, <2>1, MallocAlive
<1>3. CASE m # Outside(t)
  <2>1. PICK j \in 1 .. k - 1 : stack[t][j].scoped /\ m = stack[t][j].malloc
    BY <1>3 DEF IsInnermost
  <2>2. j \in DOMAIN stack[t]
    BY <1>1, <2>1
  <2>3. FrameOK(stack[t][j]) /\ stack[t][j].op \in {"create", "method", "release"}
    <3>1. FrameOK(stack[t][j]) /\ stack[t] \in Seq(FrameType)
      BY <2>2 DEF IInv, FramesOK, TypesOK
    <3>2. stack[t][j] \in FrameType
      BY <2>2, <3>1
    <3> QED BY <3>1, <3>2 DEF FrameType
  <2>4. m \in AllMallocs /\ mref[m] > 0
    <3>1. CASE stack[t][j].op = "create"
      BY <1>1, <2>1, <2>3, <3>1, MallocAlive DEF FrameOK
    <3>2. CASE stack[t][j].op = "method"
      <4>1. stack[t][j].obj \in Objects /\ obj[stack[t][j].obj].malloc = m
            /\ obj[stack[t][j].obj].state = "live"
        BY <2>1, <2>3, <3>2 DEF FrameOK
      <4>2. m \in AllMallocs
        BY <4>1 DEF IInv, ObjectsOK, ObjectOK
      <4> QED BY <1>1, <4>1, <4>2, MallocAlive
    <3>3. CASE stack[t][j].op = "release"
      <4>1. stack[t][j].step # "enter" /\ m \in AllMallocs
        BY <2>1, <2>3, <3>3 DEF FrameOK
      <4> QED BY <1>1, <2>1, <2>2, <3>3, <4>1, MallocAlive
    <3> QED BY <2>3, <3>1, <3>2, <3>3
  <2> QED BY <2>4
<1> QED BY <1>2, <1>3

\* A client malloc with blocks out has a reference.
LEMMA HeapAlive ==
  ASSUME IInv, NEW m \in Mallocs, heap[m] # {}
  PROVE  mref[m] > 0
<1>1. /\ m \in Heaps /\ m \in AllMallocs /\ m # "process"
      /\ \A a : HeapOf(a) = m <=> a = m
      /\ TypesOK /\ LibraryOK /\ MallocCounts
  BY ThreadMallocAssumption DEF Heaps, AllMallocs, HeapOf, IInv
<1>2. PICK b \in heap[m] : b \in Blocks
  BY <1>1, LibraryNow
<1>3. b # <<"globals", None>>
  BY <1>1, <1>2 DEF IInv, HeapsOK
<1>4. PICK o \in Objects : b = <<"object", o>> \/ b = <<"buffer", o>>
  BY <1>2, <1>3 DEF Blocks
<1>5. CASE b = <<"buffer", o>>
  <2>1. obj[o].malloc = m
    BY <1>1, <1>2, <1>5 DEF IInv, HeapsOK
  <2> QED BY <1>1, <2>1, MallocAlive
<1>6. CASE b = <<"object", o>>
  <2>1. obj[o].state \in {"live", "destroyed"}
    BY <1>1, <1>2, <1>6 DEF IInv, HeapsOK, TypesOK, TypeOK
  <2>2. CASE obj[o].state = "live"
    <3>1. obj[o].malloc = m
      BY <1>1, <1>2, <1>6, <2>2 DEF IInv, HeapsOK
    <3> QED BY <1>1, <3>1, MallocAlive
  <2>3. CASE obj[o].state = "destroyed"
    <3>1. PICK t \in Threads : \E k \in DOMAIN stack[t] :
            stack[t][k].step = "free" /\ stack[t][k].obj = o
      BY <2>3 DEF IInv, Buried
    <3>2. PICK k \in DOMAIN stack[t] : stack[t][k].step = "free" /\ stack[t][k].obj = o
      BY <3>1
    <3>3. stack[t][k].malloc = m
      BY <1>1, <1>2, <1>6, <3>2 DEF IInv, HeapsOK
    <3>4. stack[t][k].op = "release" /\ stack[t][k].step # "enter"
      BY <3>2 DEF IInv, FramesOK, FrameOK
    <3> QED BY <1>1, <3>2, <3>3, <3>4, MallocAlive
  <2> QED BY <2>1, <2>2, <2>3
<1> QED BY <1>4, <1>5, <1>6

\* The counts of include/dxc/Support/microcom.h are exact: dwRef of an object
\* is the number of references to it, and m_dwRef of a malloc the number of
\* those that keep it, at every point between two steps of any threads.
THEOREM CountsAreExact == Spec => []RefsExact
<1>1. IInv => RefsExact
  BY DEF IInv, TypesOK, RefsExact, ObjectCounts, MallocCounts
<1> QED BY <1>1, Invariance, PTL

\* The raw pointers of dxcmem.cpp stay good: the malloc in a thread's slot,
\* and every one that a scope will put back, has a reference; so have the
\* objects that methods run on and members point to; and a client's malloc
\* outlives its blocks.
THEOREM PointersStayGood == Spec => []InUseAlive
<1>1. ASSUME IInv
      PROVE  InUseAlive
  <2>1. ASSUME NEW t \in Threads
        PROVE  tls[t] # None => mref[tls[t]] > 0
    <3>1. IsInnermost(t, Len(stack[t]) + 1, tls[t]) /\ Len(stack[t]) + 1 \in 1 .. Len(stack[t]) + 1
      BY <1>1 DEF IInv, ScopesNest, TypesOK
    <3> QED BY <1>1, <3>1, InnermostAlive
  <2>2. ASSUME NEW t \in Threads, NEW f \in Frames(t)
        PROVE  /\ f.scoped => /\ f.prior # None => mref[f.prior] > 0
                              /\ mref[f.malloc] > 0
               /\ f.op = "method" => obj[f.obj].state = "live" /\ obj[f.obj].dwRef > 0
               /\ f.step \in {"enter", "members"} => obj[f.obj].state = "live"
    <3>1. PICK k \in DOMAIN stack[t] : f = stack[t][k]
      BY DEF Frames
    <3>2. /\ FrameOK(f) /\ stack[t] \in Seq(FrameType) /\ k \in 1 .. Len(stack[t])
          /\ k \in 1 .. Len(stack[t]) + 1 /\ k + 1 \in 1 .. Len(stack[t]) + 1
          /\ TypesOK /\ ObjectsOK /\ ObjectCounts /\ CallsHeld
      BY <1>1, <3>1 DEF IInv, FramesOK, TypesOK
    <3>3. f.scoped => (f.prior # None => mref[f.prior] > 0)
      BY <1>1, <3>1, <3>2, InnermostAlive DEF IInv, ScopesNest
    <3>4. f.scoped => mref[f.malloc] > 0
      <4>1. f.scoped => IsInnermost(t, k + 1, f.malloc)
        BY <3>1, <3>2 DEF IsInnermost
      <4>2. f.scoped => f.malloc # None
        <5>1. f.scoped => f.malloc \in AllMallocs
          <6>1. f.op \in {"create", "method", "release"}
            <7>1. f \in FrameType
              BY <3>1, <3>2
            <7> QED BY <7>1 DEF FrameType
          <6>2. f.op = "method" => f.malloc \in AllMallocs
            BY <3>2 DEF FrameOK, ObjectsOK, ObjectOK
          <6> QED BY <3>2, <6>1, <6>2 DEF FrameOK
        <5> QED BY <5>1, <1>1, LibraryNow
      <4> QED BY <1>1, <3>2, <4>1, <4>2, InnermostAlive
    <3>5. f.op = "method" => obj[f.obj].state = "live" /\ obj[f.obj].dwRef > 0
      BY <3>1, <3>2, MethodAlive DEF FrameOK
    <3> QED BY <3>2, <3>3, <3>4, <3>5 DEF FrameOK
  <2>3. ASSUME NEW o \in Objects, obj[o].member # None
        PROVE  obj[obj[o].member].state = "live"
    <3>1. obj[o].member \in Objects
      BY <1>1, <2>3 DEF IInv, TypesOK, TypeOK
    <3> QED BY <1>1, <3>1, ObjectAlive DEF IInv
  <2> QED BY <1>1, <2>1, <2>2, <2>3, HeapAlive DEF InUseAlive
<1> QED BY <1>1, Invariance, PTL

\* Every Free of Release and of the containers reaches the heap its block is
\* from, whatever the slot of the thread that releases last holds; nothing is
\* freed twice, and after detach nothing is left.
THEOREM FreedAtHome == Spec => []FreedWhereAllocated
<1>1. ASSUME IInv
      PROVE  FreedWhereAllocated
  <2>1. misfreed = {}
    BY <1>1 DEF IInv, HeapsOK
  <2>2. ASSUME NEW o \in Objects, NEW h \in Heaps
        PROVE  /\ <<"object", o>> \in heap[h] => obj[o].state # "free"
               /\ <<"buffer", o>> \in heap[h] => obj[o].buffer
    BY <1>1 DEF IInv, HeapsOK
  <2>3. ASSUME dll = "down"
        PROVE  heap["process"] = {}
    <3>1. "process" \in Heaps /\ heap["process"] \subseteq Blocks
      BY <1>1, LibraryNow DEF Heaps
    <3>2. \A o \in Objects : obj[o].state = "free" /\ ~obj[o].buffer
      BY <1>1, <2>3 DEF IInv, Quiet, ObjectsOK, ObjectOK
    <3>3. \A b \in Blocks : b \notin heap["process"]
      BY <1>1, <2>2, <2>3, <3>1, <3>2 DEF IInv, HeapsOK, Blocks
    <3> QED BY <3>1, <3>3
  <2> QED BY <2>1, <2>2, <2>3 DEF FreedWhereAllocated
<1> QED BY <1>1, Invariance, PTL

\* The DxcThreadMalloc scopes of a thread nest, through callbacks and through
\* Releases: each restores what was in the slot when it was opened.
THEOREM ScopesAreNested == Spec => []ScopesNest
<1>1. IInv => ScopesNest
  BY DEF IInv
<1> QED BY <1>1, Invariance, PTL

\* From DxcInitThreadMalloc to DxcCleanupThreadMalloc there is a default
\* malloc, and it never loses its last reference, also over several attaches.
THEOREM DefaultIsUsable == Spec => []DefaultUsable
<1>1. ASSUME IInv
      PROVE  DefaultUsable
  <2>1. ASSUME defaultMalloc # None
        PROVE  mref[defaultMalloc] > 0
    <3>1. defaultMalloc \in AllMallocs
      BY <1>1, <2>1, LibraryNow
    <3> QED BY <1>1, <3>1, MallocAlive DEF IInv
  <2> QED BY <1>1, <2>1 DEF IInv, LibraryOK, DefaultUsable
<1> QED BY <1>1, Invariance, PTL
=============================================================================
