----------------------- MODULE ResourceRegistersProofs -----------------------
(***************************************************************************)
(* Theorems about ResourceRegisters, for any number of resources, any      *)
(* width of a register index, and every mixture of declarations, binding   *)
(* table, unused resources and default space.  Two cases are set aside     *)
(* where the code departs from what it asserts: a declared range that runs *)
(* past UINT_MAX (AllowWrap) and a module given to the validator with a    *)
(* resource on register UINT_MAX (AllowSentinel).                          *)
(***************************************************************************)
EXTENDS ResourceRegisters, SequenceTheorems, TLAPS

(* The inductive invariant.                                                *)

\* Resources that have a register: UINT_MAX, as a register, looks like none.
Placed(r) == r \in auto \/ IsAllocated(r)
SpanOf(r) == Span(r, res[r].lowerBound, UpperBound(r))

\* What the loop of this stage has gone over.
Passed == {list[k] : k \in {n \in DOMAIN list : n < i}}
Early == {"bindingTable", "gather", "remove", "legalize"}

TypesOK ==
  /\ TypeOK
  /\ list \in Seq(Ids)
  /\ isLib \in BOOLEAN /\ legacy \in BOOLEAN /\ autoSpace \in AutoSpaces

ListOK ==
  /\ \A j, k \in DOMAIN list : list[j] = list[k] => j = k
  /\ pc \in {"bindingTable", "gather", "remove"} => list = [k \in Ids |-> k]
  /\ pc \notin {"bindingTable", "gather", "remove"} =>
       \A k \in DOMAIN list : res[list[k]].id = k - 1

BoundsOK ==
  \A r \in Ids : Placed(r) => WithinRange(res[r]) /\ res[r].space \in Spaces

StageOK ==
  /\ pc \in Early \/ ~Allocates =>
       taken = NoSpans /\ errors = {} /\ auto = {} /\ unbounded = [s \in Spaces |-> NoRes]
  /\ pc = "explicit" => auto = {}
  /\ pc = "auto" => Allocates /\ auto \subseteq Passed
  /\ auto \subseteq Listed
  /\ pc \in {"validate", "validated"} => errors = {}

\* The allocators of a space stay in step.
InStep ==
  \A s \in Spaces :
    /\ Disjoint(reserved[s]) /\ Disjoint(taken[s])
    /\ Covered(taken[s]) \subseteq Covered(reserved[s])

\* A span is taken for a listed resource, and is where the resource is.
TakenSound ==
  \A s \in Spaces : \A x \in taken[s] :
    /\ x.element \in Listed /\ Placed(x.element)
    /\ res[x.element].space = s /\ x = SpanOf(x.element)
    /\ pc = "explicit" => x.element \in Passed

UnboundedSound ==
  \A s \in Spaces : unbounded[s] # NoRes =>
    /\ unbounded[s] \in Listed /\ Placed(unbounded[s])
    /\ IsUnbounded(unbounded[s]) /\ res[unbounded[s]].space = s
    /\ pc = "explicit" => unbounded[s] \in Passed

\* Unless there are errors, every resource gone over has its span.
TakenComplete ==
  errors = {} =>
    /\ pc = "explicit" =>
         \A r \in Passed : IsAllocated(r) => SpanOf(r) \in taken[res[r].space]
    /\ pc = "auto" =>
         /\ \A r \in Listed : Placed(r) => SpanOf(r) \in taken[res[r].space]
         /\ \A r \in Passed : Placed(r)

\* Under legacy reservation, resources are reserved whether used or not.
InReserved(r) == Window(r) \subseteq Covered(reserved[res[r].space])
Gathered ==
  legacy =>
    /\ pc = "gather" => \A r \in Passed : IsAllocated(r) => InReserved(r)
    /\ pc \notin {"bindingTable", "gather"} => \A r \in Ids : IsAllocated(r) => InReserved(r)

\* An error names resources that do not move any more.
ErrorsSound ==
  \A r \in Ids :
    /\ <<"overlap", r>> \in errors =>
         IsAllocated(r) /\ \E q \in Listed : IsAllocated(q) /\ Clash(r, q)
    /\ <<"unbounded", r>> \in errors =>
         /\ \E q \in Listed \ {r} : /\ Placed(q) /\ IsUnbounded(q)
                                    /\ res[r].space \in {res[q].space, UintMax}
         /\ pc = "explicit" => IsAllocated(r)
         /\ pc = "auto" => IsAllocated(r) \/ r \in Passed

\* What the validator looks at, and where it thinks that a resource is.  It
\* is one short for an unbounded resource on register 0, which makes a
\* difference only beside a resource on UINT_MAX.
Examined(r) == ~isLib \/ IsAllocated(r)
CheckSpan(r) ==
  Span(r, res[r].lowerBound, ValidatorEnd(res[r].lowerBound, res[r].rangeSize))
CheckClash(r, q) ==
  /\ r # q /\ res[r].space = res[q].space
  /\ Overlaps(CheckSpan(r), CheckSpan(q).start, CheckSpan(q).end)

Examinable ==
  /\ \A r \in Listed : Examined(r) => WithinRange(res[r]) /\ res[r].space \in Spaces
  /\ \/ \A r \in Listed : Examined(r) => IsAllocated(r)
     \/ \A r, q \in Listed : ~Clash(r, q)

\* What the validator has gone over: it is done with all at the end.
Checked == IF pc = "validated" THEN Listed ELSE Passed

CheckedSound ==
  /\ pc \notin {"validate", "validated"} => checked = NoSpans /\ rejected = {}
  /\ pc \in {"validate", "validated"} =>
       /\ Examinable
       /\ \A s \in Spaces : \A x \in checked[s] :
            /\ x.element \in Checked /\ Examined(x.element)
            /\ res[x.element].space = s /\ x = CheckSpan(x.element)
       /\ \A s \in Spaces : Disjoint(checked[s])
       /\ \A r \in Checked : Examined(r) =>
            r \in rejected \/ CheckSpan(r) \in checked[res[r].space]
       /\ \A r \in rejected :
            /\ r \in Checked /\ Examined(r)
            /\ \E q \in Checked : Examined(q) /\ CheckClash(r, q)

IInv ==
  /\ TypesOK /\ ListOK /\ BoundsOK /\ StageOK /\ InStep
  /\ TakenSound /\ UnboundedSound /\ TakenComplete /\ Gathered /\ ErrorsSound
  /\ CheckedSound /\ LegacyRespected /\ BindingsDisjoint

-----------------------------------------------------------------------------
(* Sets of spans.                                                          *)

\* A window is free exactly when none of its indices is covered.
LEMMA FreeIffUncovered ==
  ASSUME NEW S \in SUBSET SpanType, Disjoint(S),
         NEW lo \in Index, NEW hi \in Index, lo <= hi
  PROVE  FreeWindow(S, lo, hi) <=> (lo .. hi) \cap Covered(S) = {}
<1> USE ResourceAssumption DEF Index
<1>1. ASSUME FreeWindow(S, lo, hi), NEW n \in lo .. hi, n \in Covered(S)
      PROVE  FALSE
  <2>1. PICK s \in S : s.start <= n /\ n <= s.end
    BY <1>1 DEF Covered
  <2>2. ~Overlaps(s, lo, hi)
    BY <1>1 DEF FreeWindow
  <2> QED BY <1>1, <2>1, <2>2 DEF Overlaps, SpanType
<1>2. ASSUME NEW s \in S, Overlaps(s, lo, hi)
      PROVE  (lo .. hi) \cap Covered(S) # {}
  <2> DEFINE n == IF lo <= s.start THEN s.start ELSE lo
  <2>1. s.start \in Index /\ s.end \in Index /\ s.start <= s.end
    BY DEF SpanType, Disjoint
  <2>2. n \in lo .. hi /\ s.start <= n /\ n <= s.end
    BY <1>2, <2>1 DEF Overlaps
  <2>3. n \in Covered(S)
    BY <2>1, <2>2 DEF Covered
  <2> QED BY <2>2, <2>3
<1> QED BY <1>1, <1>2 DEF FreeWindow

LEMMA CoveredWith ==
  ASSUME NEW S, NEW r, NEW lo \in Index, NEW hi \in Index
  PROVE  Covered(S \cup {Span(r, lo, hi)}) = Covered(S) \cup (lo .. hi)
<1> DEFINE x == Span(r, lo, hi)
<1> USE ResourceAssumption DEF Index
<1>1. x.start = lo /\ x.end = hi
  BY DEF Span
<1>2. ASSUME NEW n \in Index
      PROVE  (\E s \in S \cup {x} : s.start <= n /\ n <= s.end)
               <=> (\E s \in S : s.start <= n /\ n <= s.end) \/ n \in lo .. hi
  <2> HIDE DEF x
  <2> QED BY <1>1
<1>3. lo .. hi \subseteq Index
  OBVIOUS
<1> HIDE DEF x
<1> QED BY <1>2, <1>3 DEF Covered, x

LEMMA InsertKeeps ==
  ASSUME NEW S \in SUBSET SpanType, Disjoint(S), NEW r \in Ids,
         NEW lo \in Index, NEW hi \in Index, lo <= hi, FreeWindow(S, lo, hi)
  PROVE  /\ Span(r, lo, hi) \in SpanType
         /\ Disjoint(S \cup {Span(r, lo, hi)})
         /\ Covered(S \cup {Span(r, lo, hi)}) = Covered(S) \cup (lo .. hi)
<1> USE ResourceAssumption DEF Index
<1>1. Span(r, lo, hi) \in SpanType
  BY DEF Span, SpanType
<1>2. Disjoint(S \cup {Span(r, lo, hi)})
  BY DEF Disjoint, FreeWindow, Overlaps, Precedes, Span, SpanType
<1>3. Covered(S \cup {Span(r, lo, hi)}) = Covered(S) \cup (lo .. hi)
  BY CoveredWith
<1> QED BY <1>1, <1>2, <1>3

\* The hull of a window and of what it hits: disjoint from the rest, and
\* nothing covered is given up.
LEMMA HullKeeps ==
  ASSUME NEW S \in SUBSET SpanType, Disjoint(S), NEW r \in Ids,
         NEW lo \in Index, NEW hi \in Index, lo <= hi,
         NEW a \in Index, NEW b \in Index, IsHull(Hit(S, lo, hi), lo, hi, a, b)
  PROVE  LET T == (S \ Hit(S, lo, hi)) \cup {Span(r, a, b)}
         IN  /\ T \in SUBSET SpanType /\ Disjoint(T)
             /\ Covered(S) \cup (lo .. hi) \subseteq Covered(T)
<1> DEFINE T == (S \ Hit(S, lo, hi)) \cup {Span(r, a, b)}
<1> USE ResourceAssumption DEF Index
<1>1. a <= lo /\ hi <= b /\ \A s \in Hit(S, lo, hi) : a <= s.start /\ s.end <= b
  BY DEF IsHull
<1>2. T \in SUBSET SpanType
  BY DEF Span, SpanType
<1>3. ASSUME NEW t \in S \ Hit(S, lo, hi)
      PROVE  t.end < a \/ b < t.start
  <2>1. t.end < lo \/ hi < t.start
    BY DEF Hit, Overlaps
  <2>2. t.start \in Index /\ t.end \in Index /\ t.start <= t.end
    BY DEF SpanType, Disjoint
  <2>3. CASE t.end < lo
    <3>1. CASE a = lo
      BY <2>3, <3>1
    <3>2. CASE a # lo
      <4>1. PICK s \in Hit(S, lo, hi) : a = s.start
        BY <3>2 DEF IsHull
      <4>2. s \in S /\ s # t /\ s.end >= lo /\ s.start \in Index /\ s.end \in Index
        BY DEF Hit, Overlaps, SpanType
      <4>3. t.end < s.start \/ s.end < t.start
        BY <4>2 DEF Disjoint, Precedes
      <4> QED BY <2>2, <2>3, <4>1, <4>2, <4>3
    <3> QED BY <3>1, <3>2
  <2>4. CASE hi < t.start
    <3>1. CASE b = hi
      BY <2>4, <3>1
    <3>2. CASE b # hi
      <4>1. PICK s \in Hit(S, lo, hi) : b = s.end
        BY <3>2 DEF IsHull
      <4>2. s \in S /\ s # t /\ s.start <= hi /\ s.start \in Index /\ s.end \in Index
        BY DEF Hit, Overlaps, SpanType
      <4>3. t.end < s.start \/ s.end < t.start
        BY <4>2 DEF Disjoint, Precedes
      <4> QED BY <2>2, <2>4, <4>1, <4>2, <4>3
    <3> QED BY <3>1, <3>2
  <2> QED BY <2>1, <2>3, <2>4
<1>4. Disjoint(T)
  BY <1>1, <1>3 DEF Disjoint, Precedes, Span, SpanType
<1>5. ASSUME NEW n \in Covered(S) \cup (lo .. hi)
      PROVE  n \in Covered(T)
  <2>1. CASE n \in a .. b
    BY <2>1, CoveredWith
  <2>2. CASE n \notin a .. b
    <3>0. n \in 0 .. UintMax
      BY DEF Covered
    <3>1. PICK s \in S : s.start <= n /\ n <= s.end
      BY <1>1, <2>2, <3>0 DEF Covered
    <3>2. s \notin Hit(S, lo, hi)
      BY <1>1, <2>2, <3>0, <3>1 DEF SpanType
    <3> QED BY <3>0, <3>1, <3>2 DEF Covered
  <2> QED BY <2>1, <2>2
<1> QED BY <1>2, <1>4, <1>5

-----------------------------------------------------------------------------
(* Resources.                                                              *)

LEMMA Ranges ==
  ASSUME TypesOK, NEW r \in Ids
  PROVE  /\ r \in 1 .. N /\ r # NoRes
         /\ res[r].lowerBound \in 0 .. UintMax /\ res[r].rangeSize \in 1 .. UintMax
         /\ res[r].space \in Spaces \cup {UintMax}
  BY ResourceAssumption DEF TypesOK, TypeOK, Ids, NoRes, Index

\* A resource within the registers has a proper window.
LEMMA Upper ==
  ASSUME TypesOK, NEW r \in Ids, WithinRange(res[r])
  PROVE  /\ UpperBound(r) \in 0 .. UintMax /\ res[r].lowerBound <= UpperBound(r)
         /\ ~IsUnbounded(r) => UpperBound(r) = res[r].lowerBound + (res[r].rangeSize - 1)
         /\ IsUnbounded(r) => UpperBound(r) = UintMax
  BY Ranges, ResourceAssumption DEF UpperBound, IsUnbounded, AddIndex, WithinRange

\* What is said of a resource stays while its record does.
LEMMA SameResource ==
  ASSUME NEW r, res'[r] = res[r]
  PROVE  /\ IsAllocated(r)' = IsAllocated(r) /\ IsUnbounded(r)' = IsUnbounded(r)
         /\ UpperBound(r)' = UpperBound(r) /\ Window(r)' = Window(r)
         /\ SpanOf(r)' = SpanOf(r) /\ CheckSpan(r)' = CheckSpan(r)
         /\ WithinRange(res[r])' = WithinRange(res[r])
  BY DEF IsAllocated, IsUnbounded, UpperBound, Window, SpanOf, CheckSpan, WithinRange

LEMMA InitInv ==
  ASSUME Init, ~AllowWrap, ~AllowSentinel
  PROVE  IInv
<1> USE ResourceAssumption
<1>1. /\ list = [k \in Ids |-> k] /\ list \in Seq(Ids) /\ Len(list) = N /\ DOMAIN list = Ids
      /\ isLib \in BOOLEAN /\ legacy \in BOOLEAN /\ autoSpace \in AutoSpaces
      /\ reserved = NoSpans /\ taken = NoSpans /\ checked = NoSpans
      /\ unbounded = [s \in Spaces |-> NoRes]
      /\ errors = {} /\ rejected = {} /\ auto = {} /\ i = 1
  <2>1. Common /\ legacy \in BOOLEAN
    BY DEF Init, InitCompile, InitValidate
  <2>2. DOMAIN list = 1 .. N /\ \A k \in 1 .. N : list[k] \in Ids
    BY <2>1 DEF Common, Ids
  <2>3. list \in Seq(Ids) /\ Len(list) = N
    BY <2>1, <2>2 DEF Common, Ids
  <2> QED BY <2>1, <2>2, <2>3 DEF Common, Ids
<1>2. \A d \in Declared : /\ d = Resource(d.lowerBound, d.rangeSize, d.space, 0)
                          /\ d.lowerBound \in 0 .. UintMax /\ d.rangeSize \in 1 .. UintMax
                          /\ d.space \in DeclSpaces \cup {UintMax}
                          /\ d.lowerBound # UintMax => d.space \in DeclSpaces
  BY DEF Declared, Resource
<1>3. PICK decl \in [Ids -> Declared] :
        /\ res = [r \in Ids |-> [decl[r] EXCEPT !.id = r - 1]]
        /\ \A r \in Ids : decl[r].lowerBound = UintMax \/ WithinRange(decl[r])
        /\ pc = "validate" => \A r \in Ids : decl[r].lowerBound # UintMax
        /\ pc \in {"bindingTable", "validate"}
  <2>1. CASE InitCompile
    BY <2>1 DEF InitCompile, InitValidate
  <2>2. CASE InitValidate
    <3>1. PICK decl \in [Ids -> {d \in Declared : d.space # UintMax /\ WithinRange(d)}] :
            /\ \A r \in Ids : decl[r].lowerBound # UintMax
            /\ res = [r \in Ids |-> [decl[r] EXCEPT !.id = r - 1]]
      BY <2>2 DEF InitValidate
    <3>2. decl \in [Ids -> Declared] /\ \A r \in Ids : WithinRange(decl[r])
      BY <3>1
    <3> QED BY <2>2, <3>1, <3>2 DEF InitValidate
  <2> QED BY <2>1, <2>2 DEF Init
<1>4. \A r \in Ids :
        /\ res[r] = Resource(decl[r].lowerBound, decl[r].rangeSize, decl[r].space, r - 1)
        /\ res[r].lowerBound = decl[r].lowerBound /\ res[r].rangeSize = decl[r].rangeSize
        /\ res[r].space = decl[r].space /\ res[r].id = r - 1
  BY <1>2, <1>3 DEF Resource
<1>5. TypesOK
  <2>1. res \in [Ids -> [lowerBound : Index, rangeSize : 1 .. UintMax,
                         space : Spaces \cup {UintMax}, id : 0 .. N - 1]]
    BY <1>2, <1>3, <1>4 DEF Resource, Index, Spaces, Ids
  <2>2. /\ \A k \in DOMAIN list : list[k] \in Ids
        /\ Len(list) <= N
        /\ pc \in {"bindingTable", "gather", "remove", "legalize", "explicit", "auto",
                   "validate", "failed", "validated"}
        /\ i \in 1 .. N + 1
    BY <1>1, <1>3 DEF Ids
  <2> QED BY <1>1, <2>1, <2>2 DEF TypesOK, TypeOK, NoSpans
<1>6. ListOK
  BY <1>1, <1>4 DEF ListOK
<1>7. BoundsOK
  BY <1>1, <1>2, <1>3, <1>4 DEF BoundsOK, Placed, IsAllocated, WithinRange, Spaces
<1>8. StageOK
  BY <1>1, <1>3 DEF StageOK
<1>9. InStep
  BY <1>1 DEF InStep, NoSpans, Disjoint
<1>10. TakenSound /\ UnboundedSound /\ Gathered /\ ErrorsSound /\ TakenComplete
  BY <1>1, <1>3 DEF TakenSound, UnboundedSound, Gathered, ErrorsSound, TakenComplete, NoSpans, InitCompile, InitValidate, Init
<1>11. CheckedSound
  <2>1. pc = "validate" => Examinable
    BY <1>1, <1>3, <1>4, <1>7 DEF Examinable, Examined, IsAllocated, BoundsOK, Placed, Listed
  <2> QED BY <1>1, <1>3, <2>1 DEF CheckedSound, Checked, Passed, NoSpans, Disjoint
<1>12. LegacyRespected /\ BindingsDisjoint
  BY <1>1 DEF LegacyRespected, BindingsDisjoint
<1> QED BY <1>5, <1>6, <1>7, <1>8, <1>9, <1>10, <1>11, <1>12 DEF IInv

-----------------------------------------------------------------------------
(* Positions in the list.                                                  *)

LEMMA Positions ==
  ASSUME TypesOK
  PROVE  /\ Listed \subseteq Ids /\ Passed \subseteq Listed
         /\ DOMAIN list = 1 .. Len(list) /\ Len(list) \in Nat
         /\ i > Len(list) => Passed = Listed
         /\ i = 1 => Passed = {}
  BY DEF TypesOK, TypeOK, Listed, Passed

LEMMA Advancing ==
  ASSUME TypesOK, ListOK, i <= Len(list), i' = i + 1, UNCHANGED list
  PROVE  /\ Passed' = Passed \cup {list[i]} /\ list[i] \notin Passed
         /\ list[i] \in Listed /\ list[i] \in Ids /\ i' \in 1 .. N + 1
         /\ Listed' = Listed
<1> USE DEF TypesOK, TypeOK
<1>1. i \in 1 .. Len(list) /\ Len(list) <= N /\ DOMAIN list = 1 .. Len(list) /\ Len(list) \in Nat
  OBVIOUS
<1>2. {n \in DOMAIN list : n < i + 1} = {n \in DOMAIN list : n < i} \cup {i}
  BY <1>1
<1>3. Passed' = {list[k] : k \in {n \in DOMAIN list : n < i + 1}}
  BY DEF Passed
<1>4. list[i] \notin Passed
  <2> SUFFICES ASSUME NEW k \in DOMAIN list, k < i, list[k] = list[i]
               PROVE  FALSE
    BY DEF Passed
  <2>1. k = i
    BY <1>1 DEF ListOK
  <2> QED BY <1>1, <2>1
<1>5. i' \in 1 .. N + 1
  BY <1>1, ResourceAssumption
<1> QED BY <1>1, <1>2, <1>3, <1>4, <1>5 DEF Passed, Listed

-----------------------------------------------------------------------------
(* Operations on the allocators.                                           *)

LEMMA ForceInsert ==
  ASSUME TypesOK, InStep, NEW r \in Ids, NEW sp \in Spaces,
         NEW lo \in Index, NEW hi \in Index, lo <= hi,
         ForceInsertReserved(sp, r, lo, hi)
  PROVE  /\ reserved' \in [Spaces -> SUBSET SpanType]
         /\ \A s \in Spaces : Disjoint(reserved'[s]) /\ Covered(reserved[s]) \subseteq Covered(reserved'[s])
         /\ lo .. hi \subseteq Covered(reserved'[sp])
<1>1. PICK a \in Index, b \in Index :
        /\ IsHull(Hit(reserved[sp], lo, hi), lo, hi, a, b)
        /\ reserved' = [reserved EXCEPT ![sp] = (@ \ Hit(reserved[sp], lo, hi)) \cup {Span(r, a, b)}]
  BY DEF ForceInsertReserved
<1>2. reserved \in [Spaces -> SUBSET SpanType] /\ \A s \in Spaces : Disjoint(reserved[s])
  BY DEF TypesOK, TypeOK, InStep
<1> DEFINE T == (reserved[sp] \ Hit(reserved[sp], lo, hi)) \cup {Span(r, a, b)}
<1>3. /\ T \in SUBSET SpanType /\ Disjoint(T)
      /\ Covered(reserved[sp]) \cup (lo .. hi) \subseteq Covered(T)
  BY <1>1, <1>2, HullKeeps
<1>4. reserved' = [reserved EXCEPT ![sp] = T]
  BY <1>1
<1> HIDE DEF T
<1> QED BY <1>2, <1>3, <1>4

LEMMA InsertFree ==
  ASSUME NEW S \in [Spaces -> SUBSET SpanType], NEW sp \in Spaces, NEW r \in Ids,
         NEW lo \in Index, NEW hi \in Index, lo <= hi, Disjoint(S[sp]),
         FreeWindow(S[sp], lo, hi)
  PROVE  LET T == Inserted(S, sp, r, lo, hi)
         IN  /\ T \in [Spaces -> SUBSET SpanType]
             /\ T[sp] = S[sp] \cup {Span(r, lo, hi)}
             /\ \A s \in Spaces : s # sp => T[s] = S[s]
             /\ Disjoint(T[sp]) /\ Covered(T[sp]) = Covered(S[sp]) \cup (lo .. hi)
<1>1. S[sp] \in SUBSET SpanType
  OBVIOUS
<1>2. Inserted(S, sp, r, lo, hi) = [S EXCEPT ![sp] = S[sp] \cup {Span(r, lo, hi)}]
  BY DEF Inserted
<1>3. /\ Span(r, lo, hi) \in SpanType
      /\ Disjoint(S[sp] \cup {Span(r, lo, hi)})
      /\ Covered(S[sp] \cup {Span(r, lo, hi)}) = Covered(S[sp]) \cup (lo .. hi)
  BY <1>1, InsertKeeps
<1> QED BY <1>1, <1>2, <1>3

\* A window free in the reserved registers is free in the taken ones.
LEMMA FreeInBoth ==
  ASSUME TypesOK, InStep, NEW sp \in Spaces, NEW lo \in Index, NEW hi \in Index,
         lo <= hi, FreeWindow(reserved[sp], lo, hi)
  PROVE  FreeWindow(taken[sp], lo, hi)
<1>1. /\ reserved[sp] \in SUBSET SpanType /\ taken[sp] \in SUBSET SpanType
      /\ Disjoint(reserved[sp]) /\ Disjoint(taken[sp])
      /\ Covered(taken[sp]) \subseteq Covered(reserved[sp])
  BY DEF TypesOK, TypeOK, InStep
<1> QED BY <1>1, FreeIffUncovered

-----------------------------------------------------------------------------
(* The actions.                                                            *)

\* Before the first loop of AllocateRegisters nothing has been decided.
LEMMA EarlyStep ==
  ASSUME StageOK, CheckedSound, pc \in Early, pc' \in Early \cup {"explicit"},
         pc' = "explicit" => Passed' = {},
         UNCHANGED <<inputs, taken, unbounded, errors, checked, rejected, auto>>
  PROVE  /\ taken = NoSpans
         /\ StageOK' /\ TakenSound' /\ UnboundedSound' /\ TakenComplete' /\ ErrorsSound'
         /\ CheckedSound' /\ LegacyRespected' /\ BindingsDisjoint'
<1>1. /\ taken' = NoSpans /\ errors' = {} /\ auto' = {}
      /\ unbounded' = [s \in Spaces |-> NoRes] /\ checked' = NoSpans /\ rejected' = {}
  BY DEF StageOK, CheckedSound, Early
<1>2. StageOK'
  BY <1>1 DEF StageOK, Early
<1>3. TakenSound' /\ UnboundedSound' /\ TakenComplete' /\ ErrorsSound'
  BY <1>1 DEF TakenSound, UnboundedSound, TakenComplete, ErrorsSound, NoSpans, Early
<1>4. CheckedSound' /\ LegacyRespected' /\ BindingsDisjoint'
  BY <1>1 DEF CheckedSound, LegacyRespected, BindingsDisjoint, Early
<1> QED BY <1>1, <1>2, <1>3, <1>4

LEMMA ApplyBindingTableInv ==
  ASSUME IInv, ~AllowWrap, ApplyBindingTable
  PROVE  IInv'
<1> USE ResourceAssumption DEF IInv
<1>0. PICK bound \in SUBSET Bindable :
        \E index \in [bound -> 0 .. UintMax - 1], space \in [bound -> DeclSpaces] :
          /\ res' = [r \in Ids |->
                      IF r \in bound
                      THEN [res[r] EXCEPT !.lowerBound = index[r], !.space = space[r]]
                      ELSE res[r]]
          /\ \A r \in bound : WithinRange(res'[r])
  BY DEF ApplyBindingTable
<1>1. PICK index \in [bound -> 0 .. UintMax - 1], space \in [bound -> DeclSpaces] :
        /\ res' = [r \in Ids |->
                    IF r \in bound
                    THEN [res[r] EXCEPT !.lowerBound = index[r], !.space = space[r]]
                    ELSE res[r]]
        /\ \A r \in bound : WithinRange(res'[r])
  BY <1>0
<1>2. /\ pc = "bindingTable" /\ pc' = "gather" /\ i' = 1
      /\ UNCHANGED <<inputs, list, reserved, taken, unbounded, errors, checked, rejected, auto>>
  BY DEF ApplyBindingTable, Goto
<1>3. taken = NoSpans /\ errors = {} /\ auto = {} /\ unbounded = [s \in Spaces |-> NoRes]
  BY <1>2 DEF StageOK, Early
<1>4. \A r \in Ids :
        IF r \in bound
        THEN /\ res'[r].lowerBound \in 0 .. UintMax - 1 /\ res'[r].space \in DeclSpaces
             /\ res'[r] \in [lowerBound : Index, rangeSize : 1 .. UintMax,
                             space : Spaces \cup {UintMax}, id : 0 .. N - 1]
             /\ res'[r].id = res[r].id
        ELSE res'[r] = res[r]
  <2> SUFFICES ASSUME NEW r \in Ids, r \in bound
               PROVE  /\ res'[r].lowerBound \in 0 .. UintMax - 1 /\ res'[r].space \in DeclSpaces
                      /\ res'[r] \in [lowerBound : Index, rangeSize : 1 .. UintMax,
                                      space : Spaces \cup {UintMax}, id : 0 .. N - 1]
                      /\ res'[r].id = res[r].id
    BY <1>1
  <2>1. /\ res'[r] = [res[r] EXCEPT !.lowerBound = index[r], !.space = space[r]]
        /\ index[r] \in 0 .. UintMax - 1 /\ space[r] \in DeclSpaces
    BY <1>1
  <2>2. res[r] \in [lowerBound : Index, rangeSize : 1 .. UintMax,
                   space : Spaces \cup {UintMax}, id : 0 .. N - 1]
    BY DEF TypesOK, TypeOK
  <2>3. index[r] \in Index /\ space[r] \in Spaces \cup {UintMax}
    BY <2>1 DEF Spaces, Index
  <2> HIDE DEF IInv
  <2>4. res'[r] \in [lowerBound : Index, rangeSize : 1 .. UintMax,
                    space : Spaces \cup {UintMax}, id : 0 .. N - 1]
    BY <2>1, <2>2, <2>3
  <2>5. res'[r].lowerBound = index[r] /\ res'[r].space = space[r] /\ res'[r].id = res[r].id
    BY <2>1, <2>2
  <2> QED BY <2>1, <2>4, <2>5
<1>5. TypesOK'
  <2>1. res' \in [Ids -> [lowerBound : Index, rangeSize : 1 .. UintMax,
                         space : Spaces \cup {UintMax}, id : 0 .. N - 1]]
    BY <1>1, <1>4 DEF TypesOK, TypeOK
  <2> QED BY <1>2, <2>1 DEF TypesOK, TypeOK, inputs
<1>6. ListOK'
  BY <1>2 DEF ListOK
<1>7. BoundsOK'
  <2> SUFFICES ASSUME NEW r \in Ids, Placed(r)'
               PROVE  WithinRange(res[r])' /\ res'[r].space \in Spaces
    BY DEF BoundsOK
  <2>1. CASE r \in bound
    BY <1>1, <1>4, <2>1 DEF WithinRange, Spaces
  <2>2. CASE r \notin bound
    BY <1>2, <1>3, <1>4, <2>2, SameResource DEF BoundsOK, Placed
  <2> QED BY <2>1, <2>2
<1>8. InStep'
  BY <1>2 DEF InStep
<1>9. Gathered'
  BY <1>2, Positions DEF Gathered, Passed, TypesOK, TypeOK
<1> QED BY <1>2, <1>5, <1>6, <1>7, <1>8, <1>9, EarlyStep DEF Early

LEMMA GatherReservedInv ==
  ASSUME IInv, ~AllowWrap, GatherReserved
  PROVE  IInv'
<1> DEFINE r == list[i]
<1>1. /\ pc = "gather" /\ legacy /\ pc' = pc /\ i <= Len(list) /\ i' = i + 1
      /\ UNCHANGED <<inputs, res, list, taken, unbounded, errors, checked, rejected, auto>>
      /\ IF IsAllocated(r)
         THEN ForceInsertReserved(res[r].space, r, res[r].lowerBound, UpperBound(r))
         ELSE UNCHANGED reserved
  BY DEF GatherReserved, At, Advance
<1> HIDE DEF r
<1> USE DEF IInv
<1>2. /\ Passed' = Passed \cup {r} /\ r \in Ids /\ i' \in 1 .. N + 1
  BY <1>1, Advancing DEF r
<1>3. /\ reserved' \in [Spaces -> SUBSET SpanType]
      /\ \A s \in Spaces : /\ Disjoint(reserved'[s])
                          /\ Covered(reserved[s]) \subseteq Covered(reserved'[s])
      /\ IsAllocated(r) => Window(r) \subseteq Covered(reserved'[res[r].space])
  <2>1. CASE IsAllocated(r)
    <3>1. WithinRange(res[r]) /\ res[r].space \in Spaces
      BY <1>2, <2>1 DEF BoundsOK, Placed
    <3>2. res[r].lowerBound \in Index /\ UpperBound(r) \in Index /\ res[r].lowerBound <= UpperBound(r)
      BY <1>2, <3>1, Upper, Ranges DEF Index
    <3> QED BY <1>1, <1>2, <2>1, <3>1, <3>2, ForceInsert DEF Window
  <2>2. CASE ~IsAllocated(r)
    BY <1>1, <2>2 DEF TypesOK, TypeOK, InStep
  <2> QED BY <2>1, <2>2
<1>4. TypesOK' /\ ListOK' /\ BoundsOK'
  BY <1>1, <1>2, <1>3 DEF TypesOK, TypeOK, ListOK, BoundsOK, Placed, IsAllocated, WithinRange, inputs
<1>5. InStep'
  BY <1>1, <1>3 DEF InStep
<1>6. Gathered'
  <2> SUFFICES ASSUME NEW q \in Passed \cup {r}, IsAllocated(q)
               PROVE  Window(q) \subseteq Covered(reserved'[res[q].space])
    BY <1>1, <1>2 DEF Gathered, InReserved, IsAllocated, Window, UpperBound, IsUnbounded
  <2>1. q \in Ids /\ res[q].space \in Spaces
    BY <1>2, Positions DEF BoundsOK, Placed
  <2> QED BY <1>1, <1>3, <2>1 DEF Gathered, InReserved
<1> QED BY <1>1, <1>4, <1>5, <1>6, EarlyStep DEF Early

LEMMA GatherDoneInv ==
  ASSUME IInv, GatherDone
  PROVE  IInv'
<1> USE DEF IInv
<1>1. /\ pc = "gather" /\ pc' = "remove" /\ i' = 1
      /\ legacy => i > Len(list)
      /\ UNCHANGED <<inputs, res, list, reserved, taken, unbounded, errors, checked, rejected, auto>>
  BY DEF GatherDone, Past, Goto
<1>2. legacy => Passed = Ids
  <2>1. list = [k \in Ids |-> k]
    BY <1>1 DEF ListOK
  <2>2. Listed = Ids
    BY <2>1 DEF Listed
  <2> QED BY <1>1, <2>2, Positions
<1>3. TypesOK' /\ ListOK' /\ BoundsOK' /\ InStep'
  BY <1>1, ResourceAssumption DEF TypesOK, TypeOK, ListOK, BoundsOK, InStep, Placed, IsAllocated, WithinRange, inputs
<1>4. Gathered'
  BY <1>1, <1>2 DEF Gathered, InReserved, IsAllocated, Window, UpperBound, IsUnbounded, inputs
<1> QED BY <1>1, <1>3, <1>4, EarlyStep DEF Early

\* The list that remains, and the new numbers.
LEMMA RemoveUnusedInv ==
  ASSUME IInv, NEW stage, NEW next, RemoveUnused(stage, next),
         \/ stage = "remove" /\ next = "legalize"
         \/ stage = "legalize" /\ next = "explicit"
  PROVE  IInv'
<1> USE DEF IInv
<1>1. /\ pc = stage /\ pc' = next /\ i' = 1 /\ pc \in Early /\ pc' \in Early \cup {"explicit"}
      /\ pc \notin {"bindingTable", "gather"} /\ pc' \notin {"bindingTable", "gather", "remove"}
      /\ UNCHANGED <<inputs, reserved, taken, unbounded, errors, checked, rejected, auto>>
  BY DEF RemoveUnused, Goto, Early
<1>2. PICK n \in 0 .. Len(list) : \E used \in [1 .. n -> DOMAIN list] :
        /\ \A j, k \in 1 .. n : j < k => used[j] < used[k]
        /\ list' = [k \in 1 .. n |-> list[used[k]]]
        /\ res' = Renumbered(list')
  BY DEF RemoveUnused
<1>3. PICK used \in [1 .. n -> DOMAIN list] :
        /\ \A j, k \in 1 .. n : j < k => used[j] < used[k]
        /\ list' = [k \in 1 .. n |-> list[used[k]]]
        /\ res' = Renumbered(list')
  BY <1>2
<1>4. /\ Len(list) \in Nat /\ Len(list) <= N /\ DOMAIN list = 1 .. Len(list) /\ n \in Nat
      /\ \A k \in DOMAIN list : list[k] \in Ids
  BY <1>2, Positions DEF TypesOK, TypeOK
<1>5. /\ list' \in Seq(Ids) /\ Len(list') = n /\ DOMAIN list' = 1 .. n
      /\ \A k \in 1 .. n : list'[k] = list[used[k]] /\ list'[k] \in Ids
  <2>1. \A k \in 1 .. n : list[used[k]] \in Ids
    BY <1>3, <1>4
  <2> QED BY <1>3, <1>4, <2>1
<1>6. \A j, k \in 1 .. n : list'[j] = list'[k] => j = k
  <2> SUFFICES ASSUME NEW j \in 1 .. n, NEW k \in 1 .. n, list'[j] = list'[k]
               PROVE  j = k
    OBVIOUS
  <2>1. used[j] = used[k]
    BY <1>3, <1>5 DEF ListOK
  <2> QED BY <1>3, <1>4, <2>1
<1>7. /\ \A r \in Ids : /\ res'[r].lowerBound = res[r].lowerBound
                        /\ res'[r].rangeSize = res[r].rangeSize
                        /\ res'[r].space = res[r].space
      /\ \A k \in 1 .. n : res'[list'[k]].id = k - 1
      /\ res' \in [Ids -> [lowerBound : Index, rangeSize : 1 .. UintMax,
                           space : Spaces \cup {UintMax}, id : 0 .. N - 1]]
  <2>1. res \in [Ids -> [lowerBound : Index, rangeSize : 1 .. UintMax,
                        space : Spaces \cup {UintMax}, id : 0 .. N - 1]]
    BY DEF TypesOK, TypeOK
  <2>2. \A r \in Ids :
          res'[r] = IF \E k \in 1 .. n : list'[k] = r
                    THEN [res[r] EXCEPT !.id = (CHOOSE k \in 1 .. n : list'[k] = r) - 1]
                    ELSE res[r]
    BY <1>3, <1>5 DEF Renumbered
  <2>3. \A k \in 1 .. n : (CHOOSE j \in 1 .. n : list'[j] = list'[k]) = k
    BY <1>6
  <2>4. \A k \in 1 .. n : /\ res'[list'[k]] = [res[list'[k]] EXCEPT !.id = k - 1]
                         /\ k - 1 \in 0 .. N - 1
    <3> SUFFICES ASSUME NEW k \in 1 .. n
                 PROVE  /\ res'[list'[k]] = [res[list'[k]] EXCEPT !.id = k - 1]
                        /\ k - 1 \in 0 .. N - 1
      OBVIOUS
    <3>1. k - 1 \in 0 .. N - 1
      BY <1>2, <1>4, ResourceAssumption
    <3>2. list'[k] \in Ids /\ \E j \in 1 .. n : list'[j] = list'[k]
      BY <1>5
    <3> QED BY <2>2, <2>3, <3>1, <3>2
  <2>5. ASSUME NEW r \in Ids
        PROVE  \/ res'[r] = res[r]
               \/ \E k \in 1 .. n : r = list'[k] /\ res'[r] = [res[r] EXCEPT !.id = k - 1]
    BY <2>2, <2>4
  <2>6. ASSUME NEW r \in Ids
        PROVE  res'[r] \in [lowerBound : Index, rangeSize : 1 .. UintMax,
                            space : Spaces \cup {UintMax}, id : 0 .. N - 1]
    <3>1. res[r] \in [lowerBound : Index, rangeSize : 1 .. UintMax,
                     space : Spaces \cup {UintMax}, id : 0 .. N - 1]
      BY <2>1
    <3> QED BY <2>4, <2>5, <3>1
  <2>7. res' \in [Ids -> [lowerBound : Index, rangeSize : 1 .. UintMax,
                         space : Spaces \cup {UintMax}, id : 0 .. N - 1]]
    <3>1. DOMAIN res' = Ids /\ res' = [r \in Ids |-> res'[r]]
      BY <1>3 DEF Renumbered
    <3> QED BY <2>6, <3>1
  <2>8. \A r \in Ids : /\ res'[r].lowerBound = res[r].lowerBound
                      /\ res'[r].rangeSize = res[r].rangeSize
                      /\ res'[r].space = res[r].space
    <3> SUFFICES ASSUME NEW r \in Ids
                 PROVE  /\ res'[r].lowerBound = res[r].lowerBound
                        /\ res'[r].rangeSize = res[r].rangeSize
                        /\ res'[r].space = res[r].space
      OBVIOUS
    <3>1. res[r] \in [lowerBound : Index, rangeSize : 1 .. UintMax,
                     space : Spaces \cup {UintMax}, id : 0 .. N - 1]
      BY <2>1
    <3> QED BY <2>5, <3>1
  <2>9. \A k \in 1 .. n : res'[list'[k]].id = k - 1
    <3> SUFFICES ASSUME NEW k \in 1 .. n
                 PROVE  res'[list'[k]].id = k - 1
      OBVIOUS
    <3>1. res[list'[k]] \in [lowerBound : Index, rangeSize : 1 .. UintMax,
                            space : Spaces \cup {UintMax}, id : 0 .. N - 1]
      BY <1>5, <2>1
    <3> QED BY <2>4, <3>1
  <2> QED BY <2>7, <2>8, <2>9
<1>8. TypesOK'
  <2>1. Len(list') <= N /\ \A k \in DOMAIN list' : list'[k] \in Ids
    BY <1>2, <1>4, <1>5, ResourceAssumption
  <2>2. i' \in 1 .. N + 1 /\ pc' \in {"legalize", "explicit"}
    BY <1>1, ResourceAssumption
  <2> QED BY <1>1, <1>5, <1>7, <2>1, <2>2 DEF TypesOK, TypeOK, inputs
<1>9. ListOK'
  BY <1>1, <1>5, <1>6, <1>7 DEF ListOK
<1>10. BoundsOK' /\ InStep'
  BY <1>1, <1>7 DEF BoundsOK, InStep, Placed, IsAllocated, WithinRange
<1>11. Gathered'
  BY <1>1, <1>7 DEF Gathered, InReserved, IsAllocated, Window, UpperBound, IsUnbounded, inputs
<1>12. Passed' = {}
  BY <1>1, <1>8 DEF Passed, TypesOK, TypeOK
<1> QED BY <1>1, <1>8, <1>9, <1>10, <1>11, <1>12, EarlyStep

\* Two resources clash exactly when the span of one overlaps the other's window.
LEMMA ClashIff ==
  ASSUME TypesOK, NEW r \in Ids, NEW q \in Ids, r # q, res[r].space = res[q].space,
         WithinRange(res[r]), WithinRange(res[q])
  PROVE  Clash(r, q) <=> Overlaps(SpanOf(q), res[r].lowerBound, UpperBound(r))
<1> DEFINE a == res[r].lowerBound  b == UpperBound(r)
           c == res[q].lowerBound  d == UpperBound(q)
<1>1. /\ a \in Int /\ b \in Int /\ c \in Int /\ d \in Int /\ a <= b /\ c <= d
  BY Upper, Ranges, ResourceAssumption
<1>2. Overlaps(SpanOf(q), a, b) <=> ~(d < a) /\ ~(b < c)
  BY DEF Overlaps, SpanOf, Span
<1>3. Clash(r, q) <=> (a .. b) \cap (c .. d) # {}
  BY DEF Clash, Window
<1> HIDE DEF a, b, c, d
<1>4. ASSUME ~(d < a), ~(b < c)
      PROVE  (a .. b) \cap (c .. d) # {}
  <2> DEFINE n == IF a <= c THEN c ELSE a
  <2>1. n \in a .. b /\ n \in c .. d
    BY <1>1, <1>4
  <2> QED BY <2>1
<1>5. ASSUME NEW n \in (a .. b) \cap (c .. d)
      PROVE  ~(d < a) /\ ~(b < c)
  BY <1>1
<1> QED BY <1>2, <1>3, <1>4, <1>5 DEF a, b

\* The loops of AllocateRegisters leave the validator's part alone.
LEMMA NotChecking ==
  ASSUME CheckedSound, pc \notin {"validate", "validated"}, pc' = pc,
         UNCHANGED <<checked, rejected>>
  PROVE  CheckedSound' /\ BindingsDisjoint'
  BY DEF CheckedSound, BindingsDisjoint

LEMMA ReserveExplicitInv ==
  ASSUME IInv, ReserveExplicit
  PROVE  IInv'
<1> DEFINE r == list[i]
           sp == res[r].space
           lo == res[r].lowerBound
           hi == UpperBound(r)
           second == IsUnbounded(r) /\ unbounded[sp] # NoRes
           conflict == ~second /\ ~FreeWindow(taken[sp], lo, hi)
<1>1. /\ pc = "explicit" /\ pc' = pc /\ Allocates /\ i <= Len(list) /\ i' = i + 1
      /\ UNCHANGED <<inputs, res, list, checked, rejected, auto>>
      /\ ~IsAllocated(r) => UNCHANGED <<reserved, taken, unbounded, errors>>
      /\ IsAllocated(r) =>
           /\ errors' = errors \cup (IF second THEN {<<"unbounded", r>>} ELSE {})
                              \cup (IF conflict THEN {<<"overlap", r>>} ELSE {})
           /\ IF second THEN UNCHANGED taken ELSE taken' = Inserted(taken, sp, r, lo, hi)
           /\ IF IsUnbounded(r) /\ ~second /\ ~conflict
              THEN unbounded' = [unbounded EXCEPT ![sp] = r]
              ELSE UNCHANGED unbounded
           /\ IF conflict THEN UNCHANGED reserved ELSE ForceInsertReserved(sp, r, lo, hi)
  BY DEF ReserveExplicit, At, Advance, Conflicts
<1> USE DEF IInv
<1>2. /\ Passed' = Passed \cup {r} /\ r \in Ids /\ i' \in 1 .. N + 1
      /\ r \notin Passed /\ r \in Listed /\ Listed' = Listed
  BY <1>1, Advancing
<1>3. auto = {} /\ auto' = {}
  BY <1>1 DEF StageOK
<1>4. IsAllocated(r) =>
        /\ WithinRange(res[r]) /\ sp \in Spaces
        /\ lo \in Index /\ hi \in Index /\ lo <= hi
  BY <1>2, Upper, Ranges DEF BoundsOK, Placed, Index
<1> HIDE DEF r, sp, lo, hi, IInv
<1>5. /\ reserved' \in [Spaces -> SUBSET SpanType]
      /\ \A s \in Spaces : /\ Disjoint(reserved'[s])
                          /\ Covered(reserved[s]) \subseteq Covered(reserved'[s])
      /\ IsAllocated(r) /\ ~conflict => lo .. hi \subseteq Covered(reserved'[sp])
  <2>1. CASE IsAllocated(r) /\ ~conflict
    BY <1>1, <1>2, <1>4, <2>1, ForceInsert DEF IInv
  <2>2. CASE ~IsAllocated(r) \/ conflict
    BY <1>1, <2>2 DEF TypesOK, TypeOK, InStep, IInv
  <2> QED BY <2>1, <2>2
\* The span goes in only where the window is free.
<1>6. \/ /\ taken' = taken /\ unbounded' = unbounded
         /\ IsAllocated(r) => errors' # {}
      \/ /\ IsAllocated(r) /\ ~second /\ ~conflict /\ errors' = errors
         /\ taken' \in [Spaces -> SUBSET SpanType]
         /\ taken'[sp] = taken[sp] \cup {Span(r, lo, hi)}
         /\ \A s \in Spaces : s # sp => taken'[s] = taken[s]
         /\ Disjoint(taken'[sp]) /\ Covered(taken'[sp]) = Covered(taken[sp]) \cup (lo .. hi)
         /\ unbounded' = IF IsUnbounded(r) THEN [unbounded EXCEPT ![sp] = r] ELSE unbounded
  <2>1. CASE ~IsAllocated(r)
    BY <1>1, <2>1
  <2>2. CASE IsAllocated(r) /\ second
    BY <1>1, <2>2
  <2>3. CASE IsAllocated(r) /\ conflict
    BY <1>1, <2>3 DEF Inserted
  <2>4. CASE IsAllocated(r) /\ ~second /\ ~conflict
    <3>1. FreeWindow(taken[sp], lo, hi) /\ taken' = Inserted(taken, sp, r, lo, hi)
      BY <1>1, <2>4
    <3>2. taken \in [Spaces -> SUBSET SpanType] /\ Disjoint(taken[sp])
      BY <1>4, <2>4 DEF IInv, TypesOK, TypeOK, InStep
    <3>3. errors' = errors
      BY <1>1, <2>4
    <3> QED BY <1>1, <1>2, <1>4, <2>4, <3>1, <3>2, <3>3, InsertFree
  <2> QED BY <2>1, <2>2, <2>3, <2>4
<1>7. TypesOK'
  <2>1. taken' \in [Spaces -> SUBSET SpanType] /\ unbounded' \in [Spaces -> Ids \cup {NoRes}]
    BY <1>2, <1>4, <1>6 DEF IInv, TypesOK, TypeOK
  <2>2. errors' \subseteq {"unbounded", "overlap", "noRoom"} \X Ids
    BY <1>1, <1>2 DEF IInv, TypesOK, TypeOK
  <2> QED BY <1>1, <1>2, <1>5, <2>1, <2>2 DEF IInv, TypesOK, TypeOK, inputs
<1>8. ListOK' /\ BoundsOK' /\ StageOK'
  BY <1>1, <1>2, <1>3 DEF IInv, ListOK, BoundsOK, StageOK, Placed, IsAllocated, WithinRange, Early, Allocates, inputs
<1>9. InStep'
  BY <1>4, <1>5, <1>6 DEF IInv, InStep
<1>10. \A q : /\ Placed(q)' = Placed(q) /\ SpanOf(q)' = SpanOf(q) /\ IsUnbounded(q)' = IsUnbounded(q)
             /\ IsAllocated(q)' = IsAllocated(q) /\ Window(q)' = Window(q)
  BY <1>1, SameResource DEF Placed
<1>11. SpanOf(r) = Span(r, lo, hi)
  BY DEF SpanOf, lo, hi
<1>12. TakenSound'
  <2> SUFFICES ASSUME NEW s \in Spaces, NEW x \in taken'[s]
               PROVE  /\ x.element \in Listed /\ Placed(x.element)
                      /\ res[x.element].space = s /\ x = SpanOf(x.element)
                      /\ x.element \in Passed \cup {r}
    BY <1>1, <1>2, <1>10 DEF TakenSound
  <2>1. CASE x \in taken[s]
    BY <1>1, <2>1 DEF IInv, TakenSound
  <2>2. CASE x \notin taken[s]
    <3>1. IsAllocated(r) /\ s = sp /\ x = Span(r, lo, hi)
      BY <1>6, <2>2
    <3>2. x.element = r
      BY <3>1 DEF Span
    <3> QED BY <1>2, <1>11, <3>1, <3>2 DEF Placed, sp
  <2> QED BY <2>1, <2>2
<1>13. UnboundedSound'
  <2> SUFFICES ASSUME NEW s \in Spaces, unbounded'[s] # NoRes
               PROVE  /\ unbounded'[s] \in Listed /\ Placed(unbounded'[s])
                      /\ IsUnbounded(unbounded'[s]) /\ res[unbounded'[s]].space = s
                      /\ unbounded'[s] \in Passed \cup {r}
    BY <1>1, <1>2, <1>10 DEF UnboundedSound
  <2>1. CASE unbounded'[s] = unbounded[s]
    BY <1>1, <2>1 DEF IInv, UnboundedSound
  <2>2. CASE unbounded'[s] # unbounded[s]
    <3>1. IsAllocated(r) /\ IsUnbounded(r) /\ s = sp /\ unbounded'[s] = r
      BY <1>6, <2>2 DEF IInv, TypesOK, TypeOK
    <3> QED BY <1>2, <3>1 DEF Placed, sp
  <2> QED BY <2>1, <2>2
<1>14. TakenComplete'
  <2> SUFFICES ASSUME errors' = {}, NEW q \in Passed \cup {r}, IsAllocated(q)
               PROVE  SpanOf(q) \in taken'[res[q].space]
    BY <1>1, <1>2, <1>10 DEF TakenComplete
  <2>1. errors = {}
    BY <1>1, <1>6
  <2>2. CASE q \in Passed
    <3>1. SpanOf(q) \in taken[res[q].space] /\ res[q].space \in Spaces
      BY <1>1, <2>1, <2>2, Positions DEF IInv, TakenComplete, BoundsOK, Placed
    <3> QED BY <1>6, <3>1
  <2>3. CASE q = r
    BY <1>6, <1>11, <2>3 DEF sp
  <2> QED BY <2>2, <2>3
<1>15. Gathered'
  <2> SUFFICES ASSUME legacy, NEW q \in Ids, IsAllocated(q)
               PROVE  Window(q) \subseteq Covered(reserved'[res[q].space])
    BY <1>1, <1>10 DEF Gathered, InReserved, inputs
  <2>1. Window(q) \subseteq Covered(reserved[res[q].space]) /\ res[q].space \in Spaces
    BY <1>1 DEF IInv, Gathered, InReserved, BoundsOK, Placed
  <2> QED BY <1>5, <2>1
<1>16. ErrorsSound'
  <2>1. \A q \in Ids, p \in Ids : Clash(p, q)' = Clash(p, q)
    BY <1>1, <1>10 DEF Clash
  <2>2. ASSUME conflict, IsAllocated(r)
        PROVE  \E q \in Listed : IsAllocated(q) /\ Clash(r, q)
    <3>1. PICK x \in taken[sp] : Overlaps(x, lo, hi)
      BY <2>2 DEF FreeWindow
    <3>2. /\ x.element \in Passed /\ x.element \in Listed /\ Placed(x.element)
          /\ res[x.element].space = sp /\ x = SpanOf(x.element)
      BY <1>1, <1>4, <2>2 DEF IInv, TakenSound
    <3>3. x.element \in Ids /\ x.element # r /\ IsAllocated(x.element) /\ WithinRange(res[x.element])
      BY <1>2, <1>3, <3>2, Positions DEF IInv, Placed, BoundsOK
    <3>4. Clash(r, x.element)
      BY <1>2, <1>4, <2>2, <3>1, <3>2, <3>3, ClashIff DEF IInv, sp, lo, hi
    <3> QED BY <3>2, <3>3, <3>4
  <2>3. ASSUME second, IsAllocated(r)
        PROVE  \E q \in Listed \ {r} : /\ Placed(q) /\ IsUnbounded(q)
                                       /\ res[r].space \in {res[q].space, UintMax}
    BY <1>1, <1>2, <1>4, <2>3 DEF IInv, UnboundedSound, sp
  <2>4. \A q \in Ids : /\ <<"overlap", q>> \in errors' =>
                            <<"overlap", q>> \in errors \/ (q = r /\ conflict /\ IsAllocated(r))
                      /\ <<"unbounded", q>> \in errors' =>
                            <<"unbounded", q>> \in errors \/ (q = r /\ second /\ IsAllocated(r))
    BY <1>1
  <2> HIDE DEF second, conflict
  <2> SUFFICES ASSUME NEW q \in Ids
               PROVE /\ <<"overlap", q>> \in errors' =>
                          IsAllocated(q) /\ \E p \in Listed : IsAllocated(p) /\ Clash(q, p)
                     /\ <<"unbounded", q>> \in errors' =>
                          /\ \E p \in Listed \ {q} : /\ Placed(p) /\ IsUnbounded(p)
                                                     /\ res[q].space \in {res[p].space, UintMax}
                          /\ IsAllocated(q)
    BY <1>1, <1>2, <1>10, <2>1, Positions DEF IInv, ErrorsSound
  <2> QED BY <1>1, <2>2, <2>3, <2>4 DEF IInv, ErrorsSound
<1>17. CheckedSound' /\ LegacyRespected' /\ BindingsDisjoint'
  BY <1>1, <1>3, NotChecking DEF IInv, LegacyRespected
<1> QED BY <1>7, <1>8, <1>9, <1>12, <1>13, <1>14, <1>15, <1>16, <1>17 DEF IInv

\* A resource that gets registers free in the reserved set.
LEMMA BindAtInv ==
  ASSUME IInv, pc = "auto", pc' = pc, i <= Len(list), i' = i + 1,
         UNCHANGED <<inputs, list, checked, rejected>>,
         NEW r, r = list[i], ~IsAllocated(r),
         NEW sp \in Spaces, NEW lo \in Index, NEW hi \in Index, lo <= hi,
         IF IsUnbounded(r) THEN hi = UintMax ELSE hi = lo + (res[r].rangeSize - 1),
         FreeWindow(reserved[sp], lo, hi), BindAt(r, sp, lo, hi)
  PROVE  IInv'
<1>1. /\ reserved' = Inserted(reserved, sp, r, lo, hi)
      /\ taken' = Inserted(taken, sp, r, lo, hi)
      /\ unbounded' = IF IsUnbounded(r) THEN [unbounded EXCEPT ![sp] = r] ELSE unbounded
      /\ res' = [res EXCEPT ![r].lowerBound = lo, ![r].space = sp]
      /\ auto' = auto \cup {r} /\ errors' = errors
  BY DEF BindAt
<1>2. /\ Passed' = Passed \cup {r} /\ r \in Ids /\ i' \in 1 .. N + 1
      /\ r \notin Passed /\ r \in Listed /\ Listed' = Listed
  BY Advancing DEF IInv
<1>3. ~Placed(r) /\ auto \subseteq Passed /\ Allocates
  BY <1>2 DEF IInv, StageOK, Placed
<1>4. /\ reserved \in [Spaces -> SUBSET SpanType] /\ taken \in [Spaces -> SUBSET SpanType]
      /\ Disjoint(reserved[sp]) /\ Disjoint(taken[sp])
  BY DEF IInv, TypesOK, TypeOK, InStep
<1>5. /\ reserved' \in [Spaces -> SUBSET SpanType]
      /\ \A s \in Spaces : s # sp => reserved'[s] = reserved[s]
      /\ Disjoint(reserved'[sp]) /\ Covered(reserved'[sp]) = Covered(reserved[sp]) \cup (lo .. hi)
  <2>1. reserved' = Inserted(reserved, sp, r, lo, hi) /\ r \in Ids
    BY <1>1, <1>2
  <2> QED BY <1>4, <2>1, InsertFree
<1>6. /\ taken' \in [Spaces -> SUBSET SpanType]
      /\ taken'[sp] = taken[sp] \cup {Span(r, lo, hi)}
      /\ \A s \in Spaces : s # sp => taken'[s] = taken[s]
      /\ Disjoint(taken'[sp]) /\ Covered(taken'[sp]) = Covered(taken[sp]) \cup (lo .. hi)
  <2>1. FreeWindow(taken[sp], lo, hi)
    BY FreeInBoth DEF IInv
  <2>2. taken' = Inserted(taken, sp, r, lo, hi) /\ r \in Ids
    BY <1>1, <1>2
  <2> DEFINE T == Inserted(taken, sp, r, lo, hi)
  <2>3. /\ T \in [Spaces -> SUBSET SpanType]
        /\ T[sp] = taken[sp] \cup {Span(r, lo, hi)}
        /\ \A s \in Spaces : s # sp => T[s] = taken[s]
        /\ Disjoint(T[sp]) /\ Covered(T[sp]) = Covered(taken[sp]) \cup (lo .. hi)
    <3>1. taken \in [Spaces -> SUBSET SpanType] /\ Disjoint(taken[sp]) /\ r \in Ids /\ lo <= hi
      BY <1>4, <2>2
    <3> QED BY ONLY <3>1, <2>1, InsertFree, sp \in Spaces, lo \in Index, hi \in Index
  <2> HIDE DEF T
  <2> QED BY <2>2, <2>3 DEF T
\* The record of r, and the records of the others.
<1>7. /\ res' \in [Ids -> [lowerBound : Index, rangeSize : 1 .. UintMax,
                           space : Spaces \cup {UintMax}, id : 0 .. N - 1]]
      /\ \A q \in Ids \ {r} : res'[q] = res[q]
      /\ \A q \in Ids : res'[q].id = res[q].id
      /\ res'[r].lowerBound = lo /\ res'[r].space = sp /\ res'[r].rangeSize = res[r].rangeSize
  <2>1. res \in [Ids -> [lowerBound : Index, rangeSize : 1 .. UintMax,
                        space : Spaces \cup {UintMax}, id : 0 .. N - 1]]
    BY DEF IInv, TypesOK, TypeOK
  <2>2. /\ res'[r] = [res[r] EXCEPT !.lowerBound = lo, !.space = sp]
        /\ \A q \in Ids \ {r} : res'[q] = res[q]
        /\ DOMAIN res' = Ids /\ res' = [q \in Ids |-> res'[q]]
    BY <1>1, <1>2, <2>1
  <2>3. res[r] \in [lowerBound : Index, rangeSize : 1 .. UintMax,
                   space : Spaces \cup {UintMax}, id : 0 .. N - 1]
    BY <1>2, <2>1
  <2>4. /\ res'[r] \in [lowerBound : Index, rangeSize : 1 .. UintMax,
                        space : Spaces \cup {UintMax}, id : 0 .. N - 1]
        /\ res'[r].lowerBound = lo /\ res'[r].space = sp
        /\ res'[r].rangeSize = res[r].rangeSize /\ res'[r].id = res[r].id
    BY <2>2, <2>3
  <2>5. res' \in [Ids -> [lowerBound : Index, rangeSize : 1 .. UintMax,
                         space : Spaces \cup {UintMax}, id : 0 .. N - 1]]
    BY <2>1, <2>2, <2>4
  <2> QED BY <2>2, <2>4, <2>5
<1>8. WithinRange(res[r])' /\ UpperBound(r)' = hi /\ SpanOf(r)' = Span(r, lo, hi)
      /\ Window(r)' = lo .. hi /\ IsUnbounded(r)' = IsUnbounded(r)
  <2>1. lo \in 0 .. UintMax /\ hi \in 0 .. UintMax /\ res[r].rangeSize \in 1 .. UintMax
    BY <1>2, Ranges DEF IInv, Index
  <2>2. WithinRange(res[r])' /\ UpperBound(r)' = hi /\ IsUnbounded(r)' = IsUnbounded(r)
    BY <1>7, <2>1, ResourceAssumption DEF WithinRange, UpperBound, IsUnbounded, AddIndex
  <2> QED BY <1>7, <2>2 DEF SpanOf, Window
<1>9. \A q \in Ids \ {r} :
        /\ Placed(q)' = Placed(q) /\ SpanOf(q)' = SpanOf(q) /\ IsUnbounded(q)' = IsUnbounded(q)
        /\ IsAllocated(q)' = IsAllocated(q) /\ Window(q)' = Window(q)
        /\ WithinRange(res[q])' = WithinRange(res[q])
  BY <1>1, <1>7, SameResource DEF Placed
<1>10. \A q \in Ids, p \in Ids : q # r /\ p # r => Clash(p, q)' = Clash(p, q)
  BY <1>7, <1>9 DEF Clash
<1>11. TypesOK'
  <2>1. unbounded' \in [Spaces -> Ids \cup {NoRes}] /\ auto' \subseteq Ids
    BY <1>1, <1>2 DEF IInv, TypesOK, TypeOK
  <2> QED BY <1>1, <1>2, <1>5, <1>6, <1>7, <2>1 DEF IInv, TypesOK, TypeOK, inputs
<1>12. ListOK'
  <2>1. \A k \in DOMAIN list : list[k] \in Ids
    BY DEF IInv, TypesOK, TypeOK
  <2> QED BY <1>7, <2>1 DEF IInv, ListOK
<1>13. BoundsOK'
  BY <1>7, <1>8, <1>9 DEF IInv, BoundsOK
<1>14. StageOK'
  BY <1>1, <1>2, <1>3 DEF IInv, StageOK, Early, Allocates, inputs
<1>15. InStep'
  <2> SUFFICES ASSUME NEW s \in Spaces
               PROVE  /\ Disjoint(reserved'[s]) /\ Disjoint(taken'[s])
                      /\ Covered(taken'[s]) \subseteq Covered(reserved'[s])
    BY DEF InStep
  <2>1. Disjoint(reserved[s]) /\ Disjoint(taken[s]) /\ Covered(taken[s]) \subseteq Covered(reserved[s])
    BY DEF IInv, InStep
  <2> QED BY <1>5, <1>6, <2>1
<1>16. TakenSound'
  <2> SUFFICES ASSUME NEW s \in Spaces, NEW x \in taken'[s]
               PROVE  /\ x.element \in Listed /\ Placed(x.element)'
                      /\ res'[x.element].space = s /\ x = SpanOf(x.element)'
    BY <1>2 DEF TakenSound
  <2>1. CASE x \in taken[s]
    <3>1. /\ x.element \in Listed /\ Placed(x.element)
          /\ res[x.element].space = s /\ x = SpanOf(x.element)
      BY <2>1 DEF IInv, TakenSound
    <3>2. x.element \in Ids \ {r}
      BY <1>3, <3>1, Positions DEF IInv
    <3> QED BY <1>7, <1>9, <3>1, <3>2
  <2>2. CASE x \notin taken[s]
    <3>1. s = sp /\ x = Span(r, lo, hi)
      BY <1>6, <2>2
    <3>2. x.element = r
      BY <3>1 DEF Span
    <3>3. Placed(r)'
      BY <1>1 DEF Placed
    <3> QED BY <1>2, <1>7, <1>8, <3>1, <3>2, <3>3
  <2> QED BY <2>1, <2>2
<1>17. UnboundedSound'
  <2> SUFFICES ASSUME NEW s \in Spaces, NEW q, q = unbounded'[s], q # NoRes
               PROVE  /\ q \in Listed /\ Placed(q)'
                      /\ IsUnbounded(q)' /\ res'[q].space = s
    <3>1. pc' # "explicit"
      OBVIOUS
    <3>2. \A s \in Spaces : \A q : q = unbounded'[s] /\ q # NoRes =>
            /\ q \in Listed' /\ (q \in auto' \/ res'[q].lowerBound # UintMax)
            /\ res'[q].rangeSize = UintMax /\ res'[q].space = s
      BY <1>2 DEF Placed, IsAllocated, IsUnbounded
    <3> QED BY <3>1, <3>2 DEF UnboundedSound, Placed, IsAllocated, IsUnbounded
  <2>1. CASE q = unbounded[s]
    <3>1. q \in Listed /\ Placed(q) /\ IsUnbounded(q) /\ res[q].space = s
      BY <2>1 DEF IInv, UnboundedSound
    <3>2. q \in Ids \ {r}
      BY <1>3, <3>1, Positions DEF IInv
    <3> QED BY <1>7, <1>9, <3>1, <3>2
  <2>2. CASE q # unbounded[s]
    <3>1. IsUnbounded(r) /\ s = sp /\ q = r
      BY <1>1, <2>2 DEF IInv, TypesOK, TypeOK
    <3>2. Placed(r)'
      BY <1>1 DEF Placed
    <3> QED BY <1>2, <1>7, <1>8, <3>1, <3>2
  <2> QED BY <2>1, <2>2
<1>18. TakenComplete'
  <2> SUFFICES ASSUME errors = {}
               PROVE  /\ \A q \in Listed : Placed(q)' => SpanOf(q)' \in taken'[res'[q].space]
                      /\ \A q \in Passed \cup {r} : Placed(q)'
    BY <1>1, <1>2 DEF TakenComplete
  <2>1. Placed(r)' /\ SpanOf(r)' \in taken'[res'[r].space]
    BY <1>1, <1>6, <1>7, <1>8 DEF Placed
  <2>2. ASSUME NEW q \in Listed, q # r, Placed(q)'
        PROVE  SpanOf(q)' \in taken'[res'[q].space]
    <3>1. q \in Ids \ {r} /\ Placed(q)
      BY <1>9, <2>2, Positions DEF IInv
    <3>2. SpanOf(q) \in taken[res[q].space] /\ res[q].space \in Spaces
      BY <2>2, <3>1 DEF IInv, TakenComplete, BoundsOK
    <3> QED BY <1>6, <1>7, <1>9, <3>1, <3>2
  <2>3. ASSUME NEW q \in Passed
        PROVE  Placed(q)'
    <3>1. q \in Ids \ {r}
      BY <1>2, Positions DEF IInv
    <3> QED BY <1>9, <3>1 DEF IInv, TakenComplete
  <2> QED BY <2>1, <2>2, <2>3
<1>19. Gathered'
  <2> SUFFICES ASSUME legacy, NEW q \in Ids, IsAllocated(q)'
               PROVE  Window(q)' \subseteq Covered(reserved'[res'[q].space])
    BY DEF Gathered, InReserved, inputs
  <2>1. CASE q = r
    BY <1>5, <1>7, <1>8, <2>1
  <2>2. CASE q # r
    <3>1. Window(q) \subseteq Covered(reserved[res[q].space]) /\ res[q].space \in Spaces
      BY <1>9, <2>2 DEF IInv, Gathered, InReserved, BoundsOK, Placed
    <3> QED BY <1>5, <1>7, <1>9, <2>2, <3>1
  <2> QED BY <2>1, <2>2
<1>20. ErrorsSound'
  <2> SUFFICES ASSUME NEW q \in Ids
               PROVE  /\ <<"overlap", q>> \in errors =>
                           IsAllocated(q)' /\ \E p \in Listed : IsAllocated(p)' /\ Clash(q, p)'
                      /\ <<"unbounded", q>> \in errors =>
                           /\ \E p \in Listed \ {q} : /\ Placed(p)' /\ IsUnbounded(p)'
                                                      /\ res'[q].space \in {res'[p].space, UintMax}
                           /\ IsAllocated(q)' \/ q \in Passed \cup {r}
    BY <1>1, <1>2 DEF ErrorsSound
  <2>1. ASSUME <<"overlap", q>> \in errors
        PROVE  IsAllocated(q)' /\ \E p \in Listed : IsAllocated(p)' /\ Clash(q, p)'
    <3>1. IsAllocated(q) /\ \E p \in Listed : IsAllocated(p) /\ Clash(q, p)
      BY <2>1 DEF IInv, ErrorsSound
    <3>2. PICK p \in Listed : IsAllocated(p) /\ Clash(q, p)
      BY <3>1
    <3>3. q # r /\ p # r /\ p \in Ids
      BY <3>1, <3>2, Positions DEF IInv
    <3> QED BY <1>9, <1>10, <3>1, <3>2, <3>3
  <2>2. ASSUME <<"unbounded", q>> \in errors
        PROVE  /\ \E p \in Listed \ {q} : /\ Placed(p)' /\ IsUnbounded(p)'
                                          /\ res'[q].space \in {res'[p].space, UintMax}
               /\ IsAllocated(q)' \/ q \in Passed \cup {r}
    <3>1. q # r /\ (IsAllocated(q) \/ q \in Passed)
      BY <1>2, <2>2 DEF IInv, ErrorsSound
    <3>2. PICK p \in Listed \ {q} : /\ Placed(p) /\ IsUnbounded(p)
                                   /\ res[q].space \in {res[p].space, UintMax}
      BY <2>2 DEF IInv, ErrorsSound
    <3>3. p # r /\ p \in Ids
      BY <1>3, <3>2, Positions DEF IInv
    <3> QED BY <1>7, <1>9, <3>1, <3>2, <3>3
  <2> QED BY <2>1, <2>2
<1>21. LegacyRespected'
  <2> SUFFICES ASSUME legacy, NEW p \in auto \cup {r}, NEW q \in Ids \ Listed,
                      IsAllocated(q)', Clash(p, q)'
               PROVE  FALSE
    BY <1>1, <1>2 DEF LegacyRespected, inputs
  <2>1. q # r /\ IsAllocated(q) /\ p \in Ids
    BY <1>2, <1>3, <1>9, Positions DEF IInv
  <2>2. CASE p # r
    BY <1>10, <2>1, <2>2 DEF IInv, LegacyRespected
  <2>3. CASE p = r
    <3>1. res[q].space = sp /\ (lo .. hi) \cap Window(q) # {}
      BY <1>7, <1>8, <1>9, <2>1, <2>3 DEF Clash
    <3>2. Window(q) \subseteq Covered(reserved[sp])
      BY <2>1, <3>1 DEF IInv, Gathered, InReserved
    <3>3. (lo .. hi) \cap Covered(reserved[sp]) = {}
      BY <1>4, FreeIffUncovered
    <3> QED BY <3>1, <3>2, <3>3
  <2> QED BY <2>2, <2>3
<1>22. CheckedSound' /\ BindingsDisjoint'
  BY NotChecking DEF IInv
<1> QED BY <1>11, <1>12, <1>13, <1>14, <1>15, <1>16, <1>17, <1>18, <1>19, <1>20, <1>21, <1>22 DEF IInv

\* A resource that has a register, or cannot get one.
LEMMA PassByInv ==
  ASSUME IInv, pc = "auto", pc' = pc, i <= Len(list), i' = i + 1,
         UNCHANGED <<inputs, res, list, reserved, taken, unbounded, checked, rejected, auto>>,
         NEW r, r = list[i],
         \/ IsAllocated(r) /\ errors' = errors
         \/ errors' = errors \cup {<<"noRoom", r>>}
         \/ /\ errors' = errors \cup {<<"unbounded", r>>}
            /\ \E q \in Listed \ {r} : /\ Placed(q) /\ IsUnbounded(q)
                                       /\ res[r].space \in {res[q].space, UintMax}
  PROVE  IInv'
<1>1. /\ Passed' = Passed \cup {r} /\ r \in Ids /\ i' \in 1 .. N + 1 /\ Listed' = Listed
  BY Advancing DEF IInv
<1>2. /\ \A q : /\ Placed(q)' = Placed(q) /\ SpanOf(q)' = SpanOf(q) /\ IsUnbounded(q)' = IsUnbounded(q)
                /\ IsAllocated(q)' = IsAllocated(q) /\ Window(q)' = Window(q)
      /\ \A q, p : Clash(p, q)' = Clash(p, q)
  BY SameResource DEF Placed, Clash
<1>3. TypesOK'
  <2>1. errors' \subseteq {"unbounded", "overlap", "noRoom"} \X Ids
    BY <1>1 DEF IInv, TypesOK, TypeOK
  <2> QED BY <1>1, <2>1 DEF IInv, TypesOK, TypeOK, inputs
<1>4. ListOK' /\ BoundsOK' /\ InStep'
  BY <1>2 DEF IInv, ListOK, BoundsOK, InStep, WithinRange
<1>5. StageOK'
  BY <1>1 DEF IInv, StageOK, Early, Allocates, inputs
<1>6. TakenSound' /\ UnboundedSound'
  BY <1>1, <1>2 DEF IInv, TakenSound, UnboundedSound
<1>7. TakenComplete'
  BY <1>1, <1>2 DEF IInv, TakenComplete, Placed
<1>8. Gathered'
  BY <1>2 DEF IInv, Gathered, InReserved, inputs
<1>9. ErrorsSound'
  <2> SUFFICES ASSUME NEW q \in Ids
               PROVE  /\ <<"overlap", q>> \in errors' =>
                           IsAllocated(q) /\ \E p \in Listed : IsAllocated(p) /\ Clash(q, p)
                      /\ <<"unbounded", q>> \in errors' =>
                           /\ \E p \in Listed \ {q} : /\ Placed(p) /\ IsUnbounded(p)
                                                      /\ res[q].space \in {res[p].space, UintMax}
                           /\ IsAllocated(q) \/ q \in Passed \cup {r}
    BY <1>1, <1>2 DEF ErrorsSound
  <2> QED BY DEF IInv, ErrorsSound
<1>10. LegacyRespected'
  BY <1>1, <1>2 DEF IInv, LegacyRespected, inputs
<1>11. CheckedSound' /\ BindingsDisjoint'
  BY NotChecking DEF IInv
<1> QED BY <1>3, <1>4, <1>5, <1>6, <1>7, <1>8, <1>9, <1>10, <1>11 DEF IInv

LEMMA AllocateAutoInv ==
  ASSUME IInv, AllocateAuto
  PROVE  IInv'
<1> DEFINE r  == list[i]
           sp == IF res[r].space = UintMax THEN DefaultSpace ELSE res[r].space
<1>1. /\ pc = "auto" /\ pc' = pc /\ i <= Len(list) /\ i' = i + 1
      /\ UNCHANGED <<inputs, list, checked, rejected>>
      /\ \/ /\ IsAllocated(r)
            /\ UNCHANGED <<reserved, taken, unbounded, errors, res, auto>>
         \/ /\ ~IsAllocated(r) /\ IsUnbounded(r) /\ unbounded[sp] # NoRes
            /\ CannotBind("unbounded", r)
         \/ /\ ~IsAllocated(r) /\ IsUnbounded(r)
            /\ \E p \in Index : IsFirstTail(reserved[sp], p, 1) /\ BindAt(r, sp, p, UintMax)
         \/ CannotBind("noRoom", r)
         \/ /\ ~IsAllocated(r) /\ ~IsUnbounded(r)
            /\ \E p \in Index :
                 /\ IsFirstFit(reserved[sp], p, 0, res[r].rangeSize, 1)
                 /\ BindAt(r, sp, p, p + (res[r].rangeSize - 1))
  BY DEF AllocateAuto, At, Advance
<1>2. r \in Ids /\ r \notin Passed /\ auto \subseteq Passed /\ r = list[i]
  BY <1>1, Advancing DEF IInv, StageOK
<1> HIDE DEF r
<1>3. sp \in Spaces
  BY <1>2, Ranges DEF IInv, TypesOK, DefaultSpace, Spaces
<1>4. sp = res[r].space \/ res[r].space = UintMax
  OBVIOUS
<1> HIDE DEF sp
<1>5. CASE IsAllocated(r) /\ UNCHANGED <<reserved, taken, unbounded, errors, res, auto>>
  BY <1>1, <1>2, <1>5, PassByInv
<1>6. CASE ~IsAllocated(r) /\ unbounded[sp] # NoRes /\ CannotBind("unbounded", r)
  <2>1. /\ unbounded[sp] \in Listed \ {r} /\ Placed(unbounded[sp])
        /\ IsUnbounded(unbounded[sp]) /\ res[r].space \in {res[unbounded[sp]].space, UintMax}
    BY <1>2, <1>3, <1>4, <1>6 DEF IInv, UnboundedSound, Placed
  <2>2. /\ errors' = errors \cup {<<"unbounded", r>>}
        /\ UNCHANGED <<reserved, taken, unbounded, res, auto>>
    BY <1>6 DEF CannotBind
  <2> QED BY <1>1, <1>2, <2>1, <2>2, PassByInv
<1>7. CASE CannotBind("noRoom", r)
  <2>1. /\ errors' = errors \cup {<<"noRoom", r>>}
        /\ UNCHANGED <<reserved, taken, unbounded, res, auto>>
    BY <1>7 DEF CannotBind
  <2> QED BY <1>1, <1>2, <2>1, PassByInv
<1>8. ASSUME ~IsAllocated(r), IsUnbounded(r), NEW p \in Index,
             IsFirstTail(reserved[sp], p, 1), BindAt(r, sp, p, UintMax)
      PROVE  IInv'
  <2>1. UintMax \in Index /\ p <= UintMax /\ FreeWindow(reserved[sp], p, UintMax)
    BY <1>8, ResourceAssumption DEF IsFirstTail, FitsToMax, Index
  <2> QED BY <1>1, <1>2, <1>3, <1>8, <2>1, BindAtInv
<1>9. ASSUME ~IsAllocated(r), ~IsUnbounded(r), NEW p \in Index,
             IsFirstFit(reserved[sp], p, 0, res[r].rangeSize, 1),
             BindAt(r, sp, p, p + (res[r].rangeSize - 1))
      PROVE  IInv'
  <2> DEFINE hi == p + (res[r].rangeSize - 1)
  <2>1. res[r].rangeSize \in 1 .. UintMax
    BY <1>2, Ranges DEF IInv
  <2>2. hi \in Index /\ p <= hi /\ FreeWindow(reserved[sp], p, hi)
    BY <1>9, <2>1, ResourceAssumption DEF IsFirstFit, Fits, Index
  <2>3. BindAt(r, sp, p, hi) /\ hi = p + (res[r].rangeSize - 1)
    BY <1>9
  <2> HIDE DEF hi
  <2> QED BY <1>1, <1>2, <1>3, <1>9, <2>2, <2>3, BindAtInv
<1> QED BY <1>1, <1>5, <1>6, <1>7, <1>8, <1>9

\* Resources that all have their span are apart, as the spans are.
LEMMA SpansApart ==
  ASSUME IInv, NEW r \in Listed, NEW q \in Listed, Placed(r), Placed(q),
         SpanOf(r) \in taken[res[r].space], SpanOf(q) \in taken[res[q].space]
  PROVE  ~Clash(r, q)
<1> SUFFICES ASSUME r # q, res[r].space = res[q].space
             PROVE  ~Clash(r, q)
  BY DEF Clash
<1>1. /\ r \in Ids /\ q \in Ids /\ WithinRange(res[r]) /\ WithinRange(res[q])
      /\ res[r].space \in Spaces
  BY Positions DEF IInv, BoundsOK
<1>2. SpanOf(r) = SpanOf(q) \/ Precedes(SpanOf(r), SpanOf(q)) \/ Precedes(SpanOf(q), SpanOf(r))
  BY <1>1 DEF IInv, InStep, Disjoint
<1>3. ~Overlaps(SpanOf(q), res[r].lowerBound, UpperBound(r))
  BY <1>2 DEF SpanOf, Span, Precedes, Overlaps
<1> QED BY <1>1, <1>3, ClashIff DEF IInv

\* What a change of stage keeps, whatever the stage.
LEMMA StageKeeps ==
  ASSUME IInv, StageDone
  PROVE  /\ TypesOK' /\ ListOK' /\ BoundsOK' /\ InStep' /\ Gathered' /\ LegacyRespected'
         /\ \A r : /\ Placed(r)' = Placed(r) /\ IsUnbounded(r)' = IsUnbounded(r)
                   /\ IsAllocated(r)' = IsAllocated(r) /\ SpanOf(r)' = SpanOf(r)
                   /\ Examined(r)' = Examined(r) /\ CheckSpan(r)' = CheckSpan(r)
         /\ \A r, q : Clash(r, q)' = Clash(r, q) /\ CheckClash(r, q)' = CheckClash(r, q)
         /\ pc # "explicit" => Passed = Listed
         /\ Listed' = Listed /\ Passed' = {} /\ (Allocates' <=> Allocates) /\ pc' \notin {"explicit"} \cup Early
<1>1. /\ UNCHANGED <<inputs, res, list, reserved, taken, unbounded, errors, checked, rejected, auto>>
      /\ i' = 1 /\ pc \in {"explicit", "auto", "validate"}
      /\ pc' \in {"auto", "validate", "failed", "validated"}
      /\ pc # "explicit" => i > Len(list)
  BY DEF StageDone, Past, Goto
<1>2. TypesOK'
  BY <1>1, ResourceAssumption DEF IInv, TypesOK, TypeOK, inputs
<1>3. /\ \A r : /\ Placed(r)' = Placed(r) /\ IsUnbounded(r)' = IsUnbounded(r)
                /\ IsAllocated(r)' = IsAllocated(r) /\ SpanOf(r)' = SpanOf(r)
                /\ Examined(r)' = Examined(r) /\ CheckSpan(r)' = CheckSpan(r)
                /\ Window(r)' = Window(r)
      /\ \A r, q : Clash(r, q)' = Clash(r, q)
      /\ \A r, q : CheckClash(r, q)' = CheckClash(r, q)
  <2>1. \A r : res'[r] = res[r]
    BY <1>1
  <2>2. \A r : /\ IsUnbounded(r)' = IsUnbounded(r) /\ IsAllocated(r)' = IsAllocated(r)
               /\ SpanOf(r)' = SpanOf(r) /\ CheckSpan(r)' = CheckSpan(r)
               /\ Window(r)' = Window(r)
    BY <2>1, SameResource
  <2> QED BY <1>1, <2>2 DEF Placed, Examined, Clash, CheckClash, inputs
<1>4. ListOK' /\ BoundsOK' /\ InStep'
  BY <1>1, <1>3 DEF IInv, ListOK, BoundsOK, InStep, WithinRange
<1>5. Gathered'
  BY <1>1, <1>3 DEF IInv, Gathered, InReserved, inputs
<1>6. LegacyRespected'
  BY <1>1, <1>3 DEF IInv, LegacyRespected, Listed, inputs
<1>7. Listed' = Listed /\ (pc # "explicit" => Passed = Listed)
  BY <1>1, Positions DEF IInv, Listed
<1>8. Passed' = {}
  BY <1>1, <1>2 DEF Passed, TypesOK, TypeOK
<1> QED BY <1>1, <1>2, <1>3, <1>4, <1>5, <1>6, <1>7, <1>8 DEF Allocates, inputs, Early

LEMMA StageDoneInv ==
  ASSUME IInv, StageDone
  PROVE  IInv'
<1>1. UNCHANGED <<inputs, res, list, reserved, taken, unbounded, errors, checked, rejected, auto>>
  BY DEF StageDone
<1>2. /\ TypesOK' /\ ListOK' /\ BoundsOK' /\ InStep' /\ Gathered' /\ LegacyRespected'
      /\ \A r : /\ Placed(r)' = Placed(r) /\ IsUnbounded(r)' = IsUnbounded(r)
                /\ IsAllocated(r)' = IsAllocated(r) /\ SpanOf(r)' = SpanOf(r)
                /\ Examined(r)' = Examined(r) /\ CheckSpan(r)' = CheckSpan(r)
      /\ \A r, q : Clash(r, q)' = Clash(r, q) /\ CheckClash(r, q)' = CheckClash(r, q)
      /\ Listed' = Listed /\ Passed' = {} /\ (Allocates' <=> Allocates)
      /\ pc # "explicit" => Passed = Listed
      /\ pc' \notin {"explicit"} \cup Early
  BY StageKeeps
<1>3. TakenSound' /\ UnboundedSound'
  BY <1>1, <1>2 DEF IInv, TakenSound, UnboundedSound
\* The first loop is done, and the second begins.
<1>4. CASE pc = "explicit" /\ pc' = "auto" /\ Allocates /\ i > Len(list)
  <2>1. auto = {} /\ Passed = Listed
    BY <1>4, Positions DEF IInv, StageOK
  <2>2. StageOK'
    BY <1>1, <1>2, <1>4, <2>1 DEF StageOK, Early
  <2>3. TakenComplete'
    BY <1>1, <1>2, <1>4, <2>1 DEF IInv, TakenComplete, Placed
  <2>4. ErrorsSound'
    BY <1>1, <1>2, <1>4 DEF IInv, ErrorsSound
  <2>5. CheckedSound' /\ BindingsDisjoint'
    BY <1>1, <1>4 DEF IInv, CheckedSound, BindingsDisjoint
  <2> QED BY <1>2, <1>3, <2>2, <2>3, <2>4, <2>5 DEF IInv
\* A library that keeps its resources as they are.
<1>5. CASE pc = "explicit" /\ pc' = "validate" /\ ~Allocates
  <2>1. taken = NoSpans /\ errors = {} /\ auto = {} /\ isLib
    BY <1>5 DEF IInv, StageOK, Allocates
  <2>2. StageOK'
    BY <1>1, <1>2, <1>5, <2>1 DEF IInv, StageOK, Early
  <2>3. TakenComplete' /\ ErrorsSound' /\ BindingsDisjoint'
    BY <1>1, <1>2, <1>5, <2>1 DEF TakenComplete, ErrorsSound, BindingsDisjoint
  <2>4. Examinable
    BY <2>1, Positions DEF IInv, Examinable, Examined, BoundsOK, Placed
  <2>5. CheckedSound'
    <3>1. Examinable'
      BY <1>1, <1>2, <2>4 DEF Examinable, WithinRange
    <3>2. Checked' = {} /\ checked' = NoSpans /\ rejected' = {}
      BY <1>1, <1>2, <1>5 DEF IInv, CheckedSound, Checked
    <3> QED BY <1>5, <3>1, <3>2 DEF CheckedSound, NoSpans, Disjoint
  <2> QED BY <1>2, <1>3, <2>2, <2>3, <2>5 DEF IInv
\* Every resource is bound.
<1>6. CASE pc = "auto" /\ pc' = "validate" /\ errors = {}
  <2>1. \A r \in Listed : Placed(r) /\ SpanOf(r) \in taken[res[r].space]
    BY <1>2, <1>6 DEF IInv, TakenComplete
  <2>2. \A r, q \in Listed : ~Clash(r, q)
    BY <2>1, SpansApart
  <2>3. StageOK'
    BY <1>1, <1>2, <1>6 DEF IInv, StageOK, Early
  <2>4. TakenComplete' /\ ErrorsSound'
    BY <1>1, <1>2, <1>6 DEF TakenComplete, ErrorsSound
  <2>5. BindingsDisjoint'
    BY <1>2, <2>2 DEF BindingsDisjoint
  <2>6. CheckedSound'
    <3>1. Examinable
      BY <2>1, <2>2, Positions DEF IInv, Examinable, BoundsOK
    <3>2. Examinable'
      BY <1>1, <1>2, <3>1 DEF Examinable, WithinRange
    <3>3. Checked' = {} /\ checked' = NoSpans /\ rejected' = {}
      BY <1>1, <1>2, <1>6 DEF IInv, CheckedSound, Checked
    <3> QED BY <1>6, <3>2, <3>3 DEF CheckedSound, NoSpans, Disjoint
  <2> QED BY <1>2, <1>3, <2>3, <2>4, <2>5, <2>6 DEF IInv
<1>7. CASE pc = "auto" /\ pc' = "failed" /\ errors # {}
  <2>1. StageOK'
    BY <1>1, <1>2, <1>7 DEF IInv, StageOK, Early
  <2>2. TakenComplete' /\ BindingsDisjoint' /\ CheckedSound'
    BY <1>1, <1>7 DEF IInv, TakenComplete, BindingsDisjoint, CheckedSound
  <2>3. ErrorsSound'
    BY <1>1, <1>2, <1>7 DEF IInv, ErrorsSound
  <2> QED BY <1>2, <1>3, <2>1, <2>2, <2>3 DEF IInv
<1>8. CASE pc = "validate" /\ pc' = "validated"
  <2>1. Checked' = Checked
    BY <1>2, <1>8 DEF Checked
  <2>2. StageOK'
    BY <1>1, <1>2, <1>8 DEF IInv, StageOK, Early
  <2>3. TakenComplete'
    BY <1>8 DEF TakenComplete
  <2>4. ErrorsSound'
    BY <1>1, <1>2, <1>8 DEF IInv, ErrorsSound
  <2>5. BindingsDisjoint'
    BY <1>1, <1>2, <1>8 DEF IInv, BindingsDisjoint
  <2>6. Examinable'
    BY <1>1, <1>2, <1>8 DEF IInv, CheckedSound, Examinable, WithinRange
  <2>7. CheckedSound'
    BY <1>1, <1>2, <1>8, <2>1, <2>6 DEF IInv, CheckedSound
  <2> QED BY <1>2, <1>3, <2>2, <2>3, <2>4, <2>5, <2>7 DEF IInv
<1> QED BY <1>4, <1>5, <1>6, <1>7, <1>8 DEF StageDone, Past, Goto

-----------------------------------------------------------------------------
(* The validator.                                                          *)

\* The end that the validator computes is the resource's own, or one short.
LEMMA CheckEnd ==
  ASSUME TypesOK, NEW r \in Ids, WithinRange(res[r])
  PROVE  /\ CheckSpan(r).start = res[r].lowerBound /\ CheckSpan(r).end \in Index
         /\ CheckSpan(r).element = r
         /\ res[r].lowerBound <= CheckSpan(r).end
         /\ \/ CheckSpan(r).end = UpperBound(r)
            \/ /\ res[r].lowerBound = 0 /\ UpperBound(r) = UintMax
               /\ CheckSpan(r).end = UintMax - 1
<1> DEFINE lo == res[r].lowerBound  size == res[r].rangeSize
<1>1. lo \in 0 .. UintMax /\ size \in 1 .. UintMax /\ UintMax \in Nat \ {0}
  BY Ranges, ResourceAssumption
<1>2. size = UintMax \/ lo + (size - 1) <= UintMax
  BY DEF WithinRange
<1>3. UpperBound(r) = IF size = UintMax THEN UintMax ELSE AddIndex(lo, size - 1)
  BY DEF UpperBound, IsUnbounded
<1>4. CheckSpan(r) = Span(r, lo, ValidatorEnd(lo, size))
  BY DEF CheckSpan
<1> HIDE DEF lo, size
<1>5. CheckSpan(r).start = lo /\ CheckSpan(r).element = r
      /\ CheckSpan(r).end = ValidatorEnd(lo, size)
  BY <1>4 DEF Span
<1>6. /\ ValidatorEnd(lo, size) \in 0 .. UintMax /\ lo <= ValidatorEnd(lo, size)
      /\ \/ ValidatorEnd(lo, size) = UpperBound(r)
         \/ lo = 0 /\ UpperBound(r) = UintMax /\ ValidatorEnd(lo, size) = UintMax - 1
  BY <1>1, <1>2, <1>3 DEF ValidatorEnd, AddIndex
<1> QED BY <1>5, <1>6 DEF Index, lo

\* The one register that the validator may leave out makes no difference
\* between resources of which none is on UINT_MAX, nor between resources that
\* are apart.
LEMMA CheckClashIff ==
  ASSUME TypesOK, NEW r \in Ids, NEW q \in Ids, WithinRange(res[r]), WithinRange(res[q])
  PROVE  /\ CheckClash(r, q) => Clash(r, q)
         /\ IsAllocated(r) /\ IsAllocated(q) /\ Clash(r, q) => CheckClash(r, q)
<1> SUFFICES ASSUME r # q, res[r].space = res[q].space
             PROVE  /\ CheckClash(r, q) => Clash(r, q)
                    /\ IsAllocated(r) /\ IsAllocated(q) /\ Clash(r, q) => CheckClash(r, q)
  BY DEF Clash, CheckClash
<1> DEFINE a == res[r].lowerBound  b == UpperBound(r)  e == CheckSpan(r).end
           c == res[q].lowerBound  d == UpperBound(q)  f == CheckSpan(q).end
<1>1. /\ a \in 0 .. UintMax /\ b \in 0 .. UintMax /\ c \in 0 .. UintMax /\ d \in 0 .. UintMax
      /\ e \in 0 .. UintMax /\ f \in 0 .. UintMax /\ UintMax \in Nat \ {0}
      /\ a <= b /\ c <= d /\ a <= e /\ c <= f
      /\ e = b \/ (a = 0 /\ b = UintMax /\ e = UintMax - 1)
      /\ f = d \/ (c = 0 /\ d = UintMax /\ f = UintMax - 1)
  BY Upper, Ranges, CheckEnd, ResourceAssumption DEF Index
<1>2. Clash(r, q) <=> ~(d < a) /\ ~(b < c)
  BY ClashIff DEF Overlaps, SpanOf, Span
<1>3. CheckClash(r, q) <=> ~(e < c) /\ ~(f < a)
  BY CheckEnd DEF CheckClash, Overlaps
<1>4. IsAllocated(r) /\ IsAllocated(q) => a # UintMax /\ c # UintMax
  BY DEF IsAllocated
<1> HIDE DEF a, b, c, d, e, f
<1> QED BY <1>1, <1>2, <1>3, <1>4

LEMMA ValidateInv ==
  ASSUME IInv, Validate
  PROVE  IInv'
<1> DEFINE r  == list[i]
           sp == res[r].space
           lo == res[r].lowerBound
           hi == CheckSpan(r).end
<1>1. /\ pc = "validate" /\ pc' = pc /\ i <= Len(list) /\ i' = i + 1
      /\ UNCHANGED <<inputs, res, list, reserved, taken, unbounded, errors, auto>>
  BY DEF Validate, At, Advance
<1>2. IF isLib /\ ~IsAllocated(r)
      THEN UNCHANGED <<checked, rejected>>
      ELSE /\ checked' = Inserted(checked, sp, r, lo, hi)
           /\ rejected' = IF FreeWindow(checked[sp], lo, hi) THEN rejected ELSE rejected \cup {r}
  BY DEF Validate, CheckSpan, Span
<1>3. /\ Passed' = Passed \cup {r} /\ r \in Ids /\ i' \in 1 .. N + 1
      /\ r \notin Passed /\ r \in Listed /\ Listed' = Listed
      /\ Passed \subseteq Listed /\ Listed \subseteq Ids
  BY <1>1, Advancing, Positions DEF IInv
<1> HIDE DEF r
<1>4. Checked = Passed /\ Checked' = Passed \cup {r}
  BY <1>1, <1>3 DEF Checked
<1>5. /\ Examinable
      /\ checked \in [Spaces -> SUBSET SpanType] /\ rejected \subseteq Ids
      /\ \A s \in Spaces : \A x \in checked[s] :
           /\ x.element \in Passed /\ Examined(x.element)
           /\ res[x.element].space = s /\ x = CheckSpan(x.element)
      /\ \A s \in Spaces : Disjoint(checked[s])
      /\ \A q \in Passed : Examined(q) =>
           q \in rejected \/ CheckSpan(q) \in checked[res[q].space]
      /\ \A q \in rejected : /\ q \in Passed /\ Examined(q)
                             /\ \E p \in Passed : Examined(p) /\ CheckClash(q, p)
  BY <1>1, <1>4 DEF IInv, CheckedSound, TypesOK, TypeOK
<1>6. /\ \A q : /\ Placed(q)' = Placed(q) /\ IsUnbounded(q)' = IsUnbounded(q)
                /\ IsAllocated(q)' = IsAllocated(q) /\ SpanOf(q)' = SpanOf(q)
                /\ Examined(q)' = Examined(q) /\ CheckSpan(q)' = CheckSpan(q)
                /\ Window(q)' = Window(q)
      /\ \A q, p : Clash(q, p)' = Clash(q, p)
      /\ \A q, p : CheckClash(q, p)' = CheckClash(q, p)
  <2>1. \A q : res'[q] = res[q]
    BY <1>1
  <2>2. \A q : /\ IsUnbounded(q)' = IsUnbounded(q) /\ IsAllocated(q)' = IsAllocated(q)
               /\ SpanOf(q)' = SpanOf(q) /\ CheckSpan(q)' = CheckSpan(q)
               /\ Window(q)' = Window(q)
    BY <2>1, SameResource
  <2> QED BY <1>1, <2>2 DEF Placed, Examined, Clash, CheckClash, inputs
<1>7. Examined(r) <=> ~(isLib /\ ~IsAllocated(r))
  BY DEF Examined
\* The span is inserted, or the resource is reported.
<1>8. \/ /\ checked' = checked /\ rejected' = rejected /\ ~Examined(r)
      \/ /\ checked' = checked /\ rejected' = rejected \cup {r} /\ Examined(r)
         /\ \E p \in Passed : Examined(p) /\ CheckClash(r, p)
      \/ /\ rejected' = rejected /\ Examined(r) /\ sp \in Spaces
         /\ checked' \in [Spaces -> SUBSET SpanType]
         /\ checked'[sp] = checked[sp] \cup {CheckSpan(r)}
         /\ \A s \in Spaces : s # sp => checked'[s] = checked[s]
         /\ Disjoint(checked'[sp])
  <2>1. CASE ~Examined(r)
    BY <1>2, <1>7, <2>1
  <2>2. CASE Examined(r)
    <3>1. WithinRange(res[r]) /\ sp \in Spaces
      BY <1>3, <1>5, <2>2 DEF Examinable
    <3>2. /\ CheckSpan(r) = Span(r, lo, hi) /\ CheckSpan(r).start = lo
          /\ lo \in Index /\ hi \in Index /\ lo <= hi
      <4>1. CheckSpan(r) = Span(r, lo, hi)
        BY DEF CheckSpan, Span
      <4> QED BY <1>3, <3>1, <4>1, CheckEnd, Ranges DEF IInv, Index
    <3> HIDE DEF hi, lo, sp
    <3>3. CASE FreeWindow(checked[sp], lo, hi)
      <4>1. checked' = Inserted(checked, sp, r, lo, hi) /\ rejected' = rejected
        BY <1>2, <1>7, <2>2, <3>3
      <4> QED BY <1>3, <1>5, <2>2, <3>1, <3>2, <3>3, <4>1, InsertFree
    <3>4. CASE ~FreeWindow(checked[sp], lo, hi)
      <4>1. checked' = checked /\ rejected' = rejected \cup {r}
        BY <1>2, <1>7, <2>2, <3>4 DEF Inserted
      <4>2. PICK x \in checked[sp] : Overlaps(x, lo, hi)
        BY <3>4 DEF FreeWindow
      <4>3. /\ x.element \in Passed /\ Examined(x.element)
            /\ res[x.element].space = sp /\ x = CheckSpan(x.element)
        BY <1>5, <3>1
      <4>4. CheckClash(r, x.element)
        BY <1>3, <3>2, <4>2, <4>3 DEF CheckClash, Overlaps, sp, lo, hi
      <4> QED BY <2>2, <4>1, <4>3, <4>4
    <3> QED BY <3>3, <3>4
  <2> QED BY <2>1, <2>2
<1> HIDE DEF hi, lo
<1>9. TypesOK'
  <2>1. checked' \in [Spaces -> SUBSET SpanType] /\ rejected' \subseteq Ids
    BY <1>3, <1>5, <1>8
  <2> QED BY <1>1, <1>3, <2>1 DEF IInv, TypesOK, TypeOK, inputs
<1>10. ListOK' /\ BoundsOK' /\ InStep' /\ StageOK'
  BY <1>1, <1>3, <1>6 DEF IInv, ListOK, BoundsOK, InStep, StageOK, Early, Allocates, WithinRange, inputs
<1>11. TakenSound' /\ UnboundedSound' /\ TakenComplete' /\ Gathered' /\ ErrorsSound'
  BY <1>1, <1>3, <1>6 DEF IInv, TakenSound, UnboundedSound, TakenComplete, Gathered, InReserved, ErrorsSound, inputs
<1>12. LegacyRespected' /\ BindingsDisjoint'
  BY <1>1, <1>3, <1>6 DEF IInv, LegacyRespected, BindingsDisjoint, inputs
<1>13. CheckedSound'
  <2>1. Examinable'
    BY <1>1, <1>3, <1>5, <1>6 DEF Examinable, WithinRange
  <2>2. ASSUME NEW s \in Spaces, NEW x \in checked'[s]
        PROVE  /\ x.element \in Passed \cup {r} /\ Examined(x.element)
               /\ res[x.element].space = s /\ x = CheckSpan(x.element)
    <3>1. CASE x \in checked[s]
      BY <1>5, <3>1
    <3>2. CASE x \notin checked[s]
      <4>1. Examined(r) /\ s = sp /\ x = CheckSpan(r)
        BY <1>8, <3>2
      <4>2. x.element = r
        BY <4>1 DEF CheckSpan, Span
      <4> QED BY <4>1, <4>2
    <3> QED BY <3>1, <3>2
  <2>3. \A s \in Spaces : Disjoint(checked'[s])
    BY <1>5, <1>8
  <2>4. ASSUME NEW q \in Passed \cup {r}, Examined(q)
        PROVE  q \in rejected' \/ CheckSpan(q) \in checked'[res[q].space]
    <3>1. res[q].space \in Spaces
      BY <1>3, <1>5, <2>4 DEF Examinable
    <3>2. CASE q \in Passed
      BY <1>5, <1>8, <2>4, <3>1, <3>2
    <3>3. CASE q = r
      BY <1>8, <2>4, <3>3
    <3> QED BY <3>2, <3>3
  <2>5. \A q \in rejected' : /\ q \in Passed \cup {r} /\ Examined(q)
                            /\ \E p \in Passed \cup {r} : Examined(p) /\ CheckClash(q, p)
    BY <1>5, <1>8
  <2> HIDE DEF sp
  <2> QED BY <1>1, <1>4, <1>6, <2>1, <2>2, <2>3, <2>4, <2>5 DEF CheckedSound
<1> QED BY <1>9, <1>10, <1>11, <1>12, <1>13 DEF IInv

-----------------------------------------------------------------------------
(* The theorems.                                                           *)

LEMMA NextInv ==
  ASSUME IInv, [Next]_vars, ~AllowWrap
  PROVE  IInv'
<1>1. CASE ApplyBindingTable
  BY <1>1, ApplyBindingTableInv
<1>2. CASE GatherReserved
  BY <1>2, GatherReservedInv
<1>3. CASE GatherDone
  BY <1>3, GatherDoneInv
<1>4. CASE RemoveUnusedFirst
  BY <1>4, RemoveUnusedInv DEF RemoveUnusedFirst
<1>5. CASE RemoveUnusedAgain
  BY <1>5, RemoveUnusedInv DEF RemoveUnusedAgain
<1>6. CASE ReserveExplicit
  BY <1>6, ReserveExplicitInv
<1>7. CASE AllocateAuto
  BY <1>7, AllocateAutoInv
<1>8. CASE Validate
  BY <1>8, ValidateInv
<1>9. CASE StageDone
  BY <1>9, StageDoneInv
<1>10. CASE UNCHANGED vars
  <2>1. /\ UNCHANGED <<isLib, legacy, autoSpace>>
        /\ UNCHANGED <<res, list, reserved, taken, unbounded, errors, checked, rejected, auto, pc, i>>
    BY <1>10 DEF vars
  <2>2. \A r : /\ Placed(r)' = Placed(r) /\ IsUnbounded(r)' = IsUnbounded(r)
               /\ IsAllocated(r)' = IsAllocated(r) /\ SpanOf(r)' = SpanOf(r)
               /\ CheckSpan(r)' = CheckSpan(r) /\ Window(r)' = Window(r)
               /\ WithinRange(res[r])' = WithinRange(res[r])
               /\ Examined(r)' = Examined(r)
    BY <2>1, SameResource DEF Placed, Examined
  <2>3. /\ \A r, q : Clash(r, q)' = Clash(r, q)
        /\ \A r, q : CheckClash(r, q)' = CheckClash(r, q)
        /\ Passed' = Passed /\ Listed' = Listed /\ Checked' = Checked
        /\ Allocates' = Allocates
    BY <2>1, <2>2 DEF Clash, CheckClash, Passed, Listed, Checked, Allocates
  <2>4. TypesOK' /\ ListOK' /\ BoundsOK' /\ StageOK' /\ InStep'
    BY <2>1, <2>2, <2>3 DEF IInv, TypesOK, TypeOK, ListOK, BoundsOK, StageOK, InStep
  <2>5. TakenSound' /\ UnboundedSound' /\ TakenComplete' /\ Gathered'
    BY <2>1, <2>2, <2>3 DEF IInv, TakenSound, UnboundedSound, TakenComplete, Gathered, InReserved
  <2>6. ErrorsSound' /\ LegacyRespected' /\ BindingsDisjoint'
    BY <2>1, <2>2, <2>3 DEF IInv, ErrorsSound, LegacyRespected, BindingsDisjoint
  <2>7. Examinable' = Examinable
    BY <2>1, <2>2, <2>3 DEF Examinable
  <2>8. CheckedSound'
    BY <2>1, <2>2, <2>3, <2>7 DEF IInv, CheckedSound
  <2> QED BY <2>4, <2>5, <2>6, <2>8 DEF IInv
<1> QED BY <1>1, <1>2, <1>3, <1>4, <1>5, <1>6, <1>7, <1>8, <1>9, <1>10 DEF Next, Stopped

LEMMA Invariance ==
  ASSUME ~AllowWrap, ~AllowSentinel
  PROVE  Spec => []IInv
<1>1. Init => IInv
  BY InitInv
<1>2. IInv /\ [Next]_vars => IInv'
  BY NextInv
<1> QED BY <1>1, <1>2, PTL DEF Spec

\* Every variable stays of its type, the two allocators of a space are sets of
\* disjoint spans, and whatever AllocateRegisters has taken is reserved: the
\* second of its two asserted Inserts cannot fail after a successful search.
THEOREM AllocatorsInStep ==
  ASSUME ~AllowWrap, ~AllowSentinel
  PROVE  Spec => []AllocatorsAgree
<1>1. IInv => AllocatorsAgree
  BY DEF IInv, TypesOK, InStep, AllocatorsAgree
<1> QED BY <1>1, Invariance, PTL

\* When DxilLowerCreateHandleForLib ends without an error, no two resources of
\* a class have a register of a space in common.
THEOREM BindingsAreDisjoint ==
  ASSUME ~AllowWrap, ~AllowSentinel
  PROVE  Spec => []BindingsDisjoint
<1>1. IInv => BindingsDisjoint
  BY DEF IInv
<1> QED BY <1>1, Invariance, PTL

\* Under -flegacy-resource-reservation, AllocateRegisters never gives a
\* register of a resource that GatherReservedRegisters saw and that has left
\* the module since.
THEOREM LegacyIsRespected ==
  ASSUME ~AllowWrap, ~AllowSentinel
  PROVE  Spec => []LegacyRespected
<1>1. IInv => LegacyRespected
  BY DEF IInv
<1> QED BY <1>1, Invariance, PTL

\* Every overlap that AllocateRegisters reports is one, and it finds fault with
\* an unbounded resource only where the space has another.
THEOREM ErrorsAreJustified ==
  ASSUME ~AllowWrap, ~AllowSentinel
  PROVE  Spec => []ErrorsJustified
<1>1. IInv => ErrorsJustified
  <2> SUFFICES ASSUME IInv, NEW r \in Ids
               PROVE  /\ <<"overlap", r>> \in errors => \E q \in Listed : Clash(r, q)
                      /\ <<"unbounded", r>> \in errors =>
                           \E q \in Listed \ {r} : /\ IsUnbounded(q)
                                                   /\ res[r].space \in {res[q].space, UintMax}
    BY DEF ErrorsJustified
  <2> QED BY DEF IInv, ErrorsSound
<1> QED BY <1>1, Invariance, PTL

\* ValidateResourceOverlap rejects a module exactly when two of the resources
\* that it looks at share a register, and the IDs number the list densely.
THEOREM ValidatorIsExact ==
  ASSUME ~AllowWrap, ~AllowSentinel
  PROVE  Spec => []ValidatorExact
<1>1. ASSUME IInv, pc = "validated"
      PROVE  rejected # {} <=> \E r, q \in {x \in Listed : Examined(x)} : Clash(r, q)
  <2>1. /\ Examinable
        /\ \A s \in Spaces : Disjoint(checked[s])
        /\ \A r \in Listed : Examined(r) =>
             r \in rejected \/ CheckSpan(r) \in checked[res[r].space]
        /\ \A r \in rejected :
             /\ r \in Listed /\ Examined(r)
             /\ \E q \in Listed : Examined(q) /\ CheckClash(r, q)
    BY <1>1 DEF IInv, CheckedSound, Checked
  <2>2. \A r \in Listed : Examined(r) =>
          r \in Ids /\ WithinRange(res[r]) /\ res[r].space \in Spaces
    BY <1>1, <2>1, Positions DEF IInv, Examinable
  <2>3. ASSUME NEW r \in rejected
        PROVE  \E p, q \in {x \in Listed : Examined(x)} : Clash(p, q)
    <3>1. PICK q \in Listed : Examined(q) /\ CheckClash(r, q)
      BY <2>1
    <3>2. r \in Listed /\ Examined(r)
      BY <2>1
    <3>3. Clash(r, q)
      BY <1>1, <2>2, <3>1, <3>2, CheckClashIff DEF IInv
    <3> QED BY <3>1, <3>2, <3>3
  <2>4. ASSUME NEW r \in {x \in Listed : Examined(x)}, NEW q \in {x \in Listed : Examined(x)},
               Clash(r, q)
        PROVE  r \in rejected \/ q \in rejected
    <3>1. IsAllocated(r) /\ IsAllocated(q)
      BY <2>1, <2>4 DEF Examinable
    <3>2. CheckClash(r, q)
      BY <1>1, <2>2, <2>4, <3>1, CheckClashIff DEF IInv
    <3>3. r # q /\ res[r].space = res[q].space /\ Overlaps(CheckSpan(r), CheckSpan(q).start, CheckSpan(q).end)
      BY <3>2 DEF CheckClash
    <3>4. CheckSpan(r).element = r /\ CheckSpan(q).element = q
      BY DEF CheckSpan, Span
    <3>5. ~(Precedes(CheckSpan(r), CheckSpan(q)) \/ Precedes(CheckSpan(q), CheckSpan(r)))
      BY <3>3 DEF Overlaps, Precedes
    <3> QED BY <2>1, <2>2, <3>3, <3>4, <3>5 DEF Disjoint
  <2> QED BY <2>3, <2>4
<1>2. IInv => ValidatorExact
  BY <1>1 DEF IInv, ListOK, ValidatorExact, Examined
<1> QED BY <1>2, Invariance, PTL

\* The records alone, which need no assumption on the declarations.
Records ==
  /\ res \in [Ids -> [lowerBound : Int, rangeSize : Int, space : Int, id : Int]]
  /\ autoSpace \in Int

LEMMA RecordsInit == Init => Records
<1> SUFFICES ASSUME Init PROVE Records
  OBVIOUS
<1> USE ResourceAssumption
<1>1. autoSpace \in Int
  BY DEF Init, InitCompile, InitValidate, Common
<1>2. \A d \in Declared : d \in [lowerBound : Int, rangeSize : Int, space : Int, id : Int]
  BY DEF Declared, Resource
<1>3. PICK decl \in [Ids -> Declared] : res = [r \in Ids |-> [decl[r] EXCEPT !.id = r - 1]]
  <2>1. CASE InitCompile
    BY <2>1 DEF InitCompile
  <2>2. CASE InitValidate
    BY <2>2 DEF InitValidate
  <2> QED BY <2>1, <2>2 DEF Init
<1>4. ASSUME NEW r \in Ids
      PROVE  res[r] \in [lowerBound : Int, rangeSize : Int, space : Int, id : Int]
  <2>1. decl[r] \in [lowerBound : Int, rangeSize : Int, space : Int, id : Int]
    BY <1>2
  <2>2. res[r] = [decl[r] EXCEPT !.id = r - 1] /\ r - 1 \in Int
    BY <1>3 DEF Ids
  <2> QED BY <2>1, <2>2
<1> QED BY <1>1, <1>3, <1>4 DEF Records

\* One step: the records stay records, and a register that is given stays.
LEMMA RecordsStep ==
  ASSUME Records, [Next]_vars
  PROVE  /\ Records'
         /\ \A r \in Ids : IsAllocated(r) =>
              res'[r].lowerBound = res[r].lowerBound /\ res'[r].space = res[r].space
<1> DEFINE Rec == [lowerBound : Int, rangeSize : Int, space : Int, id : Int]
           Kept(r) == IsAllocated(r) =>
                        res'[r].lowerBound = res[r].lowerBound /\ res'[r].space = res[r].space
<1> USE ResourceAssumption
<1>1. /\ \A r \in Ids : res[r] \in Rec
      /\ autoSpace \in Int /\ autoSpace' = autoSpace
      /\ res = [r \in Ids |-> res[r]] /\ DOMAIN res = Ids
  BY DEF Records, Next, vars, inputs, ApplyBindingTable, GatherReserved, GatherDone,
         RemoveUnusedFirst, RemoveUnusedAgain, RemoveUnused, ReserveExplicit, AllocateAuto,
         Validate, StageDone, Stopped
<1>2. ASSUME res' = [r \in Ids |-> res'[r]], \A r \in Ids : res'[r] \in Rec /\ Kept(r)
      PROVE  Records' /\ \A r \in Ids : Kept(r)
  BY <1>1, <1>2 DEF Records
<1>3. CASE UNCHANGED res
  BY <1>1, <1>3 DEF Records
<1>4. CASE ApplyBindingTable
  <2>1. PICK bound \in SUBSET Bindable :
          \E index \in [bound -> 0 .. UintMax - 1], space \in [bound -> DeclSpaces] :
            res' = [r \in Ids |->
                     IF r \in bound
                     THEN [res[r] EXCEPT !.lowerBound = index[r], !.space = space[r]]
                     ELSE res[r]]
    BY <1>4 DEF ApplyBindingTable
  <2>2. PICK index \in [bound -> 0 .. UintMax - 1], space \in [bound -> DeclSpaces] :
            res' = [r \in Ids |->
                     IF r \in bound
                     THEN [res[r] EXCEPT !.lowerBound = index[r], !.space = space[r]]
                     ELSE res[r]]
    BY <2>1
  <2>3. ASSUME NEW r \in Ids
        PROVE  res'[r] \in Rec /\ Kept(r)
    <3>1. CASE r \in bound
      <4>1. /\ res'[r] = [res[r] EXCEPT !.lowerBound = index[r], !.space = space[r]]
            /\ ~IsAllocated(r)
        BY <2>2, <3>1 DEF Bindable
      <4>2. index[r] \in 0 .. UintMax - 1 /\ space[r] \in DeclSpaces
        BY <2>2, <3>1
      <4>3. (0 .. UintMax - 1) \subseteq Int /\ DeclSpaces \subseteq 0 .. UintMax - 1
        BY ResourceAssumption
      <4>4. index[r] \in Int /\ space[r] \in Int
        BY <4>2, <4>3
      <4> QED BY <1>1, <4>1, <4>4
    <3>2. CASE r \notin bound
      BY <1>1, <2>2, <3>2
    <3> QED BY <3>1, <3>2
  <2>4. res' = [r \in Ids |-> res'[r]]
    BY <2>2
  <2> QED BY <1>2, <2>3, <2>4
<1>5. ASSUME NEW stage, NEW next, RemoveUnused(stage, next)
      PROVE  Records' /\ \A r \in Ids : Kept(r)
  <2>1. res' = Renumbered(list') /\ \E n \in Nat : DOMAIN list' = 1 .. n
    <3>1. PICK n \in 0 .. Len(list) : \E used \in [1 .. n -> DOMAIN list] :
            /\ list' = [k \in 1 .. n |-> list[used[k]]] /\ res' = Renumbered(list')
      BY <1>5 DEF RemoveUnused
    <3> QED BY <3>1
  <2>2. ASSUME NEW r \in Ids
        PROVE  res'[r] \in Rec /\ Kept(r)
    <3>0. (\E k \in DOMAIN list' : list'[k] = r) =>
             (CHOOSE k \in DOMAIN list' : list'[k] = r) \in DOMAIN list'
      OBVIOUS
    <3>1. \/ res'[r] = res[r]
          \/ \E k \in DOMAIN list' : res'[r] = [res[r] EXCEPT !.id = k - 1]
      BY <2>1, <3>0 DEF Renumbered
    <3>2. \A k \in DOMAIN list' : k - 1 \in Int
      BY <2>1
    <3> QED BY <1>1, <3>1, <3>2
  <2>3. res' = [r \in Ids |-> res'[r]]
    BY <2>1 DEF Renumbered
  <2> QED BY <1>2, <2>2, <2>3
<1>6. CASE AllocateAuto
  <2> DEFINE q  == list[i]
             sp == IF res[q].space = UintMax THEN DefaultSpace ELSE res[q].space
  <2>1. \/ UNCHANGED res
        \/ ~IsAllocated(q) /\ \E p \in Index : \E hi : BindAt(q, sp, p, hi)
    BY <1>6 DEF AllocateAuto, CannotBind
  <2>2. ASSUME ~IsAllocated(q), NEW p \in Index, NEW hi, BindAt(q, sp, p, hi)
        PROVE  Records' /\ \A r \in Ids : Kept(r)
    <3>1. res' = [res EXCEPT ![q].lowerBound = p, ![q].space = sp] /\ p \in Int
      BY <2>2 DEF BindAt, Index
    <3> HIDE DEF q
    <3>2. ASSUME NEW r \in Ids
          PROVE  res'[r] \in Rec /\ Kept(r)
      <4>1. CASE r = q
        <5>1. sp \in Int
          BY <1>1, <4>1 DEF DefaultSpace
        <5> HIDE DEF sp
        <5>2. res'[r] = [res[r] EXCEPT !.lowerBound = p, !.space = sp]
          BY <1>1, <3>1, <4>1
        <5> QED BY <1>1, <2>2, <3>1, <4>1, <5>1, <5>2
      <4>2. CASE r # q
        BY <1>1, <3>1, <4>2
      <4> QED BY <4>1, <4>2
    <3>3. res' = [r \in Ids |-> res'[r]]
      BY <1>1, <3>1
    <3> QED BY <1>2, <3>2, <3>3
  <2> QED BY <1>3, <2>1, <2>2
<1> QED BY <1>3, <1>4, <1>5, <1>6
        DEF Next, vars, GatherReserved, GatherDone, RemoveUnusedFirst, RemoveUnusedAgain,
            ReserveExplicit, Validate, StageDone, Stopped

\* Neither the binding table nor AllocateRegisters moves a resource that has a
\* register already; this one needs no assumption on the declarations.
THEOREM BindingsAreKept == Spec => BindingsKept
<1>1. Spec => []Records
  BY RecordsInit, RecordsStep, PTL DEF Spec
<1>2. Records /\ [Next]_vars =>
        [\A r \in Ids : IsAllocated(r) =>
           /\ res'[r].lowerBound = res[r].lowerBound
           /\ res'[r].space = res[r].space]_vars
  BY RecordsStep
<1> QED BY <1>1, <1>2, PTL DEF Spec, BindingsKept
=============================================================================
