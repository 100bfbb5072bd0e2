-------------------------- MODULE ResourceRegisters --------------------------
(***************************************************************************)
(* How DxilLowerCreateHandleForLib::runOnModule gives registers to the     *)
(* resources of a module (lib/HLSL/DxilCondenseResources.cpp), and how the *)
(* validator judges the outcome (lib/DxilValidation/DxilValidation.cpp).   *)
(*                                                                         *)
(* The four resource classes run the same template on separate lists and   *)
(* separate allocators; the model follows one class.  Each register space  *)
(* has its SpanAllocator over 0 .. UINT_MAX, used here through what        *)
(* SpanStore specifies of it.  UINT_MAX is also the code's "not allocated" *)
(* lower bound, "unbounded" range size and "no space yet".                 *)
(***************************************************************************)
EXTENDS Integers, Sequences, FiniteSets

CONSTANTS
  UintMax,       \* UINT_MAX
  N,             \* the resources are 1 .. N, in declaration order
  RangeSizes,    \* range sizes that declarations have (UintMax: unbounded)
  DeclSpaces,    \* register spaces that declarations and bindings name
  AutoSpaces,    \* values of -auto-binding-space (UintMax: not given)
  AllowWrap,     \* whether a declared range may run past UINT_MAX
  AllowSentinel  \* whether a module given to the validator may bind UINT_MAX

ASSUME ResourceAssumption ==
  /\ UintMax \in Nat \ {0} /\ N \in Nat \ {0}
  /\ RangeSizes \subseteq 1 .. UintMax
  /\ DeclSpaces \subseteq 0 .. UintMax - 1
  /\ AutoSpaces \subseteq 0 .. UintMax
  /\ AllowWrap \in BOOLEAN /\ AllowSentinel \in BOOLEAN

Ids    == 1 .. N
NoRes  == 0
Spaces == DeclSpaces \cup AutoSpaces \cup {0}

INSTANCE SpanOps WITH
  Min <- 0, Max <- UintMax, IndexMax <- UintMax, Elems <- Ids, NoElem <- NoRes,
  Sizes <- RangeSizes, Aligns <- {1}

VARIABLES
  res,        \* each resource's m_LowerBound, m_RangeSize, m_SpaceID, m_ID
  list,       \* the class's resource list in the module, in order
  isLib,      \* the shader model is a library
  legacy,     \* -flegacy-resource-reservation
  autoSpace,  \* DM.GetAutoBindingSpace()
  reserved,   \* ReservedRegisters: spans per space
  taken,      \* SAlloc: spans per space
  unbounded,  \* SAlloc: GetUnbounded() per space
  errors,     \* <<kind, resource>> of every error emitted on a global
  checked,    \* the validator's allocators: spans per space
  rejected,   \* the resources the validator found to overlap
  auto,       \* history: the resources the pass has bound itself
  pc, i       \* the stage of the pass, and the list position it has reached

vars == <<res, list, isLib, legacy, autoSpace, reserved, taken, unbounded, errors,
          checked, rejected, auto, pc, i>>

-----------------------------------------------------------------------------
(* DxilResourceBase.                                                       *)

IsAllocated(r) == res[r].lowerBound # UintMax
IsUnbounded(r) == res[r].rangeSize = UintMax

\* m_LowerBound + m_RangeSize - 1, in unsigned arithmetic.
UpperBound(r) ==
  IF IsUnbounded(r) THEN UintMax
  ELSE AddIndex(res[r].lowerBound, res[r].rangeSize - 1)

Resource(lb, size, space, id) ==
  [lowerBound |-> lb, rangeSize |-> size, space |-> space, id |-> id]

\* Declarations: an explicit register comes with a space (0 when none is
\* written); without one the space may be given or left to the compiler.  The
\* front end rejects unbounded resources under legacy reservation.
Declared ==
  {Resource(lb, size, sp, 0) : lb \in 0 .. UintMax - 1, size \in RangeSizes, sp \in DeclSpaces}
    \cup {Resource(UintMax, size, sp, 0) : size \in RangeSizes, sp \in DeclSpaces \cup {UintMax}}

WithinRange(d) == d.rangeSize = UintMax \/ d.lowerBound + (d.rangeSize - 1) <= UintMax

NoSpans == [s \in Spaces |-> {}]

Common ==
  /\ list = [k \in Ids |-> k]
  /\ isLib \in BOOLEAN
  /\ autoSpace \in AutoSpaces
  /\ reserved = NoSpans /\ taken = NoSpans /\ checked = NoSpans
  /\ unbounded = [s \in Spaces |-> NoRes]
  /\ errors = {} /\ rejected = {} /\ auto = {}
  /\ i = 1

\* A module from the front end, or from the linker, enters the pass.
InitCompile ==
  /\ \E decl \in [Ids -> Declared] :
       /\ \A r \in Ids : \/ AllowWrap
                         \/ decl[r].lowerBound = UintMax
                         \/ WithinRange(decl[r])
       /\ res = [r \in Ids |-> [decl[r] EXCEPT !.id = r - 1]]
  /\ legacy \in BOOLEAN
  /\ legacy => \A r \in Ids : ~IsUnbounded(r)
  /\ Common
  /\ pc = "bindingTable"

\* A module of any origin, all its resources bound, is given to the validator.
InitValidate ==
  /\ \E decl \in [Ids -> {d \in Declared : d.space # UintMax /\ WithinRange(d)}] :
       /\ \A r \in Ids : AllowSentinel \/ decl[r].lowerBound # UintMax
       /\ res = [r \in Ids |-> [decl[r] EXCEPT !.id = r - 1]]
  /\ legacy = FALSE
  /\ Common
  /\ pc = "validate"

Init == InitCompile \/ InitValidate

-----------------------------------------------------------------------------
(* The stages of runOnModule.                                              *)

inputs == <<isLib, legacy, autoSpace>>

Goto(stage) == pc' = stage /\ i' = 1

\* Stages that walk the list: the resource at hand, and the move to the next.
At(stage) == pc = stage /\ i <= Len(list)
Advance   == i' = i + 1 /\ pc' = pc
Past(stage, next) == pc = stage /\ i > Len(list) /\ Goto(next)

Inserted(S, sp, r, lo, hi) ==
  IF FreeWindow(S[sp], lo, hi) THEN [S EXCEPT ![sp] = @ \cup {Span(r, lo, hi)}] ELSE S

ForceInsertReservedMut(sp, r, lo, hi) ==                      \* mutant
  reserved' = Inserted(reserved, sp, r, lo, hi)
\* ReservedRegisters.Get(sp).ForceInsertAndClobber(r, lo, hi).
ForceInsertReserved(sp, r, lo, hi) ==
  LET hit == Hit(reserved[sp], lo, hi)
  IN  \E a, b \in Index :
        /\ IsHull(hit, lo, hi, a, b)
        /\ reserved' = [reserved EXCEPT ![sp] = (@ \ hit) \cup {Span(r, a, b)}]

BindableMut == Ids                                            \* mutant
Bindable == {r \in Ids : ~IsAllocated(r)}

\* The binding table gives some of the unallocated resources a register.
ApplyBindingTable ==
  /\ pc = "bindingTable"
  /\ \E bound \in SUBSET Bindable :
     \E index \in [bound -> 0 .. UintMax - 1], space \in [bound -> DeclSpaces] :
       /\ res' = [r \in Ids |->
                    IF r \in bound
                    THEN [res[r] EXCEPT !.lowerBound = index[r], !.space = space[r]]
                    ELSE res[r]]
       /\ \A r \in bound : AllowWrap \/ WithinRange(res'[r])
  /\ Goto("gather")
  /\ UNCHANGED <<inputs, list, reserved, taken, unbounded, errors, checked, rejected, auto>>

\* GatherReservedRegisters, while unused resources are still in the list.
GatherReserved ==
  LET r == list[i]
  IN  /\ At("gather") /\ legacy /\ Advance
      /\ IF IsAllocated(r)
         THEN ForceInsertReserved(res[r].space, r, res[r].lowerBound, UpperBound(r))
         ELSE UNCHANGED reserved
      /\ UNCHANGED <<inputs, res, list, taken, unbounded, errors, checked, rejected, auto>>

GatherDoneMut ==                                              \* mutant
  /\ pc = "gather" /\ Goto("remove")
  /\ UNCHANGED <<inputs, res, list, reserved, taken, unbounded, errors, checked, rejected, auto>>
GatherDone ==
  /\ Past("gather", "remove") \/ (pc = "gather" /\ ~legacy /\ Goto("remove"))
  /\ UNCHANGED <<inputs, res, list, reserved, taken, unbounded, errors, checked, rejected, auto>>

\* RemoveResourcesWithUnusedSymbols: resources without users leave the list
\* and the others are renumbered.  It runs again when LegalizeResources has
\* changed something, which may have removed more users.
Renumbered(kept) ==
  [r \in Ids |-> IF \E k \in DOMAIN kept : kept[k] = r
                 THEN [res[r] EXCEPT !.id = (CHOOSE k \in DOMAIN kept : kept[k] = r) - 1]
                 ELSE res[r]]

RemoveUnused(stage, next) ==
  /\ pc = stage
  /\ \E n \in 0 .. Len(list) : \E used \in [1 .. n -> DOMAIN list] :
       /\ \A j, k \in 1 .. n : j < k => used[j] < used[k]
       /\ list' = [k \in 1 .. n |-> list[used[k]]]
       /\ res' = Renumbered(list')
  /\ Goto(next)
  /\ UNCHANGED <<inputs, reserved, taken, unbounded, errors, checked, rejected, auto>>

RemoveUnusedFirst == RemoveUnused("remove", "legalize")
RemoveUnusedAgain == RemoveUnused("legalize", "explicit")

\* AllocateRegisters leaves libraries alone unless a space was given.
Allocates == ~(isLib /\ autoSpace = UintMax)
DefaultSpace == IF autoSpace = UintMax THEN 0 ELSE autoSpace

ConflictsMut(sp, lo, hi) == ~FreeWindow(reserved[sp], lo, hi)  \* mutant
Conflicts(sp, lo, hi) == ~FreeWindow(taken[sp], lo, hi)

\* First loop of AllocateRegisters: take the registers that the declarations
\* ask for.  A second unbounded resource of a space is an error, but is still
\* reserved.
ReserveExplicit ==
  LET r  == list[i]
      sp == res[r].space
      lo == res[r].lowerBound
      hi == UpperBound(r)
      secondUnbounded == IsUnbounded(r) /\ unbounded[sp] # NoRes
      conflict        == ~secondUnbounded /\ Conflicts(sp, lo, hi)
  IN  /\ At("explicit") /\ Allocates /\ Advance
      /\ IF ~IsAllocated(r)
         THEN UNCHANGED <<reserved, taken, unbounded, errors>>
         ELSE /\ errors' = errors \cup (IF secondUnbounded THEN {<<"unbounded", r>>} ELSE {})
                                  \cup (IF conflict THEN {<<"overlap", r>>} ELSE {})
              /\ IF secondUnbounded THEN UNCHANGED taken
                 ELSE taken' = Inserted(taken, sp, r, lo, hi)
              /\ IF IsUnbounded(r) /\ ~secondUnbounded /\ ~conflict
                 THEN unbounded' = [unbounded EXCEPT ![sp] = r]
                 ELSE UNCHANGED unbounded
              /\ IF conflict THEN UNCHANGED reserved
                 ELSE ForceInsertReserved(sp, r, lo, hi)
      /\ UNCHANGED <<inputs, res, list, checked, rejected, auto>>

\* Second loop: first fit among the reserved registers, or beyond the last of
\* them for an unbounded resource.
BindAtMut(r, sp, lo, hi) ==                                   \* mutant
  /\ taken' = Inserted(taken, sp, r, lo, hi)
  /\ res' = [res EXCEPT ![r].lowerBound = lo, ![r].space = sp]
  /\ auto' = auto \cup {r}
  /\ UNCHANGED <<errors, reserved, unbounded>>
BindAt(r, sp, lo, hi) ==
  /\ reserved' = Inserted(reserved, sp, r, lo, hi)
  /\ taken' = Inserted(taken, sp, r, lo, hi)
  /\ unbounded' = IF IsUnbounded(r) THEN [unbounded EXCEPT ![sp] = r] ELSE unbounded
  /\ res' = [res EXCEPT ![r].lowerBound = lo, ![r].space = sp]
  /\ auto' = auto \cup {r}
  /\ UNCHANGED errors

CannotBind(kind, r) ==
  /\ errors' = errors \cup {<<kind, r>>}
  /\ UNCHANGED <<reserved, taken, unbounded, res, auto>>

AllocateAuto ==
  LET r  == list[i]
      sp == IF res[r].space = UintMax THEN DefaultSpace ELSE res[r].space
  IN  /\ At("auto") /\ Advance
      /\ \/ /\ IsAllocated(r)
            /\ UNCHANGED <<reserved, taken, unbounded, errors, res, auto>>
         \/ /\ ~IsAllocated(r) /\ IsUnbounded(r) /\ unbounded[sp] # NoRes
            /\ CannotBind("unbounded", r)
         \/ /\ ~IsAllocated(r) /\ IsUnbounded(r) /\ unbounded[sp] = NoRes
            /\ \/ \E p \in Index : IsFirstTail(reserved[sp], p, 1) /\ BindAt(r, sp, p, UintMax)
               \/ NoTail(reserved[sp], 1) /\ CannotBind("noRoom", r)
         \/ /\ ~IsAllocated(r) /\ ~IsUnbounded(r)
            /\ \/ \E p \in Index :
                    /\ IsFirstFit(reserved[sp], p, 0, res[r].rangeSize, 1)
                    /\ BindAt(r, sp, p, p + (res[r].rangeSize - 1))
               \/ NoFit(reserved[sp], 0, res[r].rangeSize, 1) /\ CannotBind("noRoom", r)
      /\ UNCHANGED <<inputs, list, checked, rejected>>

\* With errors the compilation fails; otherwise the validator runs.
StageDone ==
  /\ \/ Allocates /\ Past("explicit", "auto")
     \/ pc = "explicit" /\ ~Allocates /\ Goto("validate")
     \/ errors = {} /\ Past("auto", "validate")
     \/ errors # {} /\ Past("auto", "failed")
     \/ Past("validate", "validated")
  /\ UNCHANGED <<inputs, res, list, reserved, taken, unbounded, errors, checked, rejected, auto>>

\* ValidateResourceOverlap recomputes the end of the range by itself.
ValidatorEndMut2(base, size) == AddIndex(base, size - 1)      \* mutant
ValidatorEnd(base, size) ==
  LET end == AddIndex(base, size - 1)
  IN  IF end < base THEN size ELSE end

Validate ==
  LET r   == list[i]
      sp  == res[r].space
      lo  == res[r].lowerBound
      hi  == ValidatorEnd(lo, res[r].rangeSize)
  IN  /\ At("validate") /\ Advance
      /\ IF isLib /\ ~IsAllocated(r)
         THEN UNCHANGED <<checked, rejected>>
         ELSE /\ checked' = Inserted(checked, sp, r, lo, hi)
              /\ rejected' = IF FreeWindow(checked[sp], lo, hi) THEN rejected
                             ELSE rejected \cup {r}
      /\ UNCHANGED <<inputs, res, list, reserved, taken, unbounded, errors, auto>>

Stopped == pc \in {"failed", "validated"} /\ UNCHANGED vars

Next ==
  \/ ApplyBindingTable \/ GatherReserved \/ GatherDone
  \/ RemoveUnusedFirst \/ RemoveUnusedAgain
  \/ ReserveExplicit \/ AllocateAuto \/ Validate \/ StageDone
  \/ Stopped

Spec == Init /\ [][Next]_vars

-----------------------------------------------------------------------------
(* Correctness.                                                            *)

Listed == {list[k] : k \in DOMAIN list}

\* The registers of a resource, and whether two resources share one.
Window(r) == res[r].lowerBound .. UpperBound(r)
Clash(r, q) ==
  /\ r # q /\ res[r].space = res[q].space
  /\ Window(r) \cap Window(q) # {}

TypeOK ==
  /\ res \in [Ids -> [lowerBound : Index, rangeSize : 1 .. UintMax,
                      space : Spaces \cup {UintMax}, id : 0 .. N - 1]]
  /\ \A k \in DOMAIN list : list[k] \in Ids
  /\ Len(list) <= N
  /\ reserved \in [Spaces -> SUBSET SpanType]
  /\ taken \in [Spaces -> SUBSET SpanType]
  /\ checked \in [Spaces -> SUBSET SpanType]
  /\ unbounded \in [Spaces -> Ids \cup {NoRes}]
  /\ errors \subseteq {"unbounded", "overlap", "noRoom"} \X Ids
  /\ rejected \subseteq Ids /\ auto \subseteq Ids
  /\ pc \in {"bindingTable", "gather", "remove", "legalize", "explicit", "auto",
             "validate", "failed", "validated"}
  /\ i \in 1 .. N + 1

\* The two allocators of a space stay in step: each is disjoint, and whatever
\* the class has taken is also reserved.  This is why the two asserted Inserts
\* of the second loop cannot fail after one successful search.
AllocatorsAgree ==
  /\ TypeOK
  /\ \A s \in Spaces :
       /\ Disjoint(reserved[s]) /\ Disjoint(taken[s])
       /\ Covered(taken[s]) \subseteq Covered(reserved[s])

\* A module that the pass binds without an error has no two resources on one
\* register of a space, whatever mixture of declarations, binding table,
\* unused resources and default space it started from.
BindingsDisjoint ==
  pc \in {"validate", "validated"} /\ errors = {} /\ taken # NoSpans =>
    \A r, q \in Listed : ~Clash(r, q)

\* Under legacy reservation, resources that are not used still keep their
\* registers: no automatic binding lands on one of them.
LegacyRespected ==
  legacy => \A r \in auto, q \in Ids \ Listed :
              IsAllocated(q) => ~Clash(r, q)

\* An error is reported only for a resource that really cannot be bound: an
\* overlap names a resource that clashes with another one, and there is a
\* second unbounded resource in the space.
ErrorsJustified ==
  \A r \in Ids :
    /\ <<"overlap", r>> \in errors => \E q \in Listed : Clash(r, q)
    /\ <<"unbounded", r>> \in errors =>
         \E q \in Listed \ {r} : /\ IsUnbounded(q)
                                 /\ res[r].space \in {res[q].space, UintMax}

\* The validator reports an overlap exactly when there is one, and the IDs it
\* wants dense number the list; so it accepts every module that the pass has
\* bound.
ValidatorExact ==
  /\ pc = "validated" =>
       (rejected # {} <=> \E r, q \in {x \in Listed : ~isLib \/ IsAllocated(x)} : Clash(r, q))
  /\ pc \notin {"bindingTable", "gather", "remove"} =>
       \A k \in DOMAIN list : res[list[k]].id = k - 1

\* A register is given once: neither the binding table nor the allocator moves
\* a resource that already has one.
BindingsKept ==
  [][\A r \in Ids : IsAllocated(r) =>
        /\ res'[r].lowerBound = res[r].lowerBound
        /\ res'[r].space = res[r].space]_vars
=============================================================================
