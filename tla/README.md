# TLA+ models of the DirectX Shader Compiler

DXC compiles HLSL to DXIL.  Most of it is a compiler: it transforms programs,
and the correctness of a transformation is the equivalence of programs, which a
model checker does not decide.  Around and inside the compiler there are parts
that keep *state* over a sequence of calls, share it between threads, or
allocate from a bounded resource.  Those parts are modelled here, from the code.

Paths are relative to the repository.  All runs are `tlc -config X.cfg M`, all
proofs `tlapm M.tla`; `PROJECT.json` lists them, maps each definition to
its source lines, and names for each checked property a mutation of the model
that the property detects.

## 1. Inventory

| Component | Where | State it keeps | Operations | What makes it correct |
|---|---|---|---|---|
| Span allocator | `include/dxc/HLSL/DxilSpanAllocator.h` | ordered set of spans, cached first free index, full flag, the unbounded element | Find, FindForUnbounded, Allocate, AllocateUnbounded, Insert, ForceInsertAndClobber, SetUnbounded | spans never overlap, caches never run ahead, first fit, space never lost, every loop ends |
| Resource register allocation | `lib/HLSL/DxilCondenseResources.cpp`, `lib/DXIL/DxilResourceBase.cpp`, `lib/DxcBindingTable` | resources with register, space, size and ID; two span allocators per class and space | binding table, gather reserved, remove unused (twice), reserve explicit, allocate | no two resources on one register, errors justified, legacy reservations kept, IDs dense |
| Validator, resource ranges | `lib/DxilValidation/DxilValidation.cpp` | a span allocator per class and space | ValidateResourceOverlap | reports an overlap exactly when there is one |
| Thread allocator, COM objects | `lib/DxcSupport/dxcmem.cpp`, `include/dxc/Support/microcom.h`, `tools/clang/tools/dxcompiler/DXCompiler.cpp`, `dxcapi.cpp` | default malloc, TLS slot per thread, reference counts, members | attach, detach, DxcThreadMalloc scopes, AddRef, Release, operator new and delete | no dangling raw pointer, memory freed where allocated, scopes nest, objects destroyed once and eventually |
| Container builder | `lib/DxilContainer/DxcContainerBuilder.cpp` | list of parts, loaded container, three flags | Load, AddPart, RemovePart, SerializeContainer | order of the list, valid layout, root signatures checked, digest only when earned |
| Container format | `lib/DxilContainer/DxilContainer.cpp` | none | IsValidDxilContainer, part lookup | accepts what the builder writes |
| Memory streams (growing, fixed, read only) | `lib/DxcSupport/FileIOHelper.cpp` | buffer, offset, size, capacity | Read, Write, Seek, SetSize, Reserve, Detach | each behaves as a file of bytes that grows with zeroes |
| Signature allocator | `include/dxc/HLSL/DxilSignatureAllocator.inl`, `lib/HLSL/DxilPackSignatureElement.cpp` | registers with component and conflict flags | PackGreedy, PackOptimized, PackPrefixStable, PlaceElement | no overlap or illegal order, nothing left out that fits, clip and cull distances in two rows |
| Validator, signatures | `lib/DxilValidation/DxilValidation.cpp` | a signature allocator per stream | ValidateSignatureOverlap | refuses an element exactly when it conflicts with an earlier one |
| Linker | `lib/HLSL/DxilLinker.cpp`, `tools/clang/tools/dxcompiler/dxclinker.cpp` | registered and attached libraries, functions by name, what has been loaded | RegisterLibrary, Link (attach, collect, load, clone) | a link takes exactly what is needed, fails exactly when it must, whatever was linked before |
| Wave sensitivity analysis | `lib/HLSL/WaveSensitivityAnalysis.cpp` | two work lists, a result per instruction and block, undecided phis | one analysis per function | nothing missed, no false alarm, ends |
| Include file system | `tools/clang/tools/dxcompiler/dxcfilesystem.cpp` | table of opened files, special handles, search entries | open, read, seek, stat, close, callbacks into the include handler | handles stay good, a file is loaded once, the table is bounded |
| Control dependence, view ID state | `lib/HLSL/ControlDependence.cpp`, `ComputeViewIdState.cpp` | work lists and marks | one analysis per function | the result is the least fixpoint |
| Root signature validator | `lib/DxilRootSignature` | register ranges | Verify | overlap detection |
| Assembler, reflection, RDAT, PDB, PIX passes, DIA | `lib/DxilContainer`, `lib/DxilPdbInfo`, `lib/DxilPIXPasses`, `lib/DxilDia` | byte layouts, instrumentation | - | layout |
| Front end, code generation, lowering, optimizer, SPIR-V, DXBC converter, raytracing fallback | `tools/clang`, `lib/HLSL`, `projects/dxilconv`, `lib/DxrFallback` | ASTs and IR | program transformations | semantic equivalence |
| Tools | `tools/clang/tools`, `dxc_batch` | - | sequential use of the above | - |
| LLVM, Clang, miniz | - | vendored | - | - |

**How they interact.**  The resource allocator and the validator are clients of
the span allocator; the validator judges what the allocator produced and is
written independently of it.  Every COM method (of the container builder, the
compiler, the linker, the utilities) runs in a `DxcThreadMalloc` scope and
allocates on the malloc that scope put in the TLS slot.  The container builder
writes through a memory stream and calls the validator, for the root signature
only.  Callbacks leave the library (include handler, container events handler)
in the middle of a method, on the same thread, and may enter it again.
The signature allocator is written once and used twice, by the packing passes and
by the validator, which places what the compiler packed in another order.  The
linker keeps the libraries of a client between links, in one `LLVMContext`, and
changes them while it links.

**Where it is hard.**  Reference counts and the TLS slot are the shared state of
concurrent callers.  The register allocator combines three sources of bindings in five
stages.  The span allocator's caches are not updated by all operations.  UINT_MAX means
three things and sums wrap.  The container builder can fail in the middle of
a load and its flags cache properties of a list that other calls change.  The
signature allocator keeps rules about pairs of elements as flags per component, and
undoes and repeats trial placements.  The linker loads bodies lazily, in one of its two
rounds only, and what one link loads or hides is there for the next.  The wave
analysis revises results in an order given by work lists, around cycles of phis.

## 2. Modules

```
SpanOps  <- SpanStore       (abstract: one step per call)
   ^          ^
   |          | Implements
   +-- SpanAllocator <- MCSpanAllocator, SpanAllocatorProofs
   +-- ResourceRegisters <- MCResourceRegisters, ResourceRegistersProofs
ThreadMalloc <- MCThreadMalloc, ThreadMallocProofs
PartTable (abstract) <- ContainerBuilder <- MCContainerBuilder, ContainerBuilderProofs
ByteFile (abstract) <- MemoryStream <- MCMemoryStream, MemoryStreamProofs
SignatureAllocator <- MCSignatureAllocator, SignatureAllocatorProofs
WaveSensitivity <- MCWaveSensitivity, WaveSensitivityProofs
Linker <- MCLinker, LinkerProofs
```

### SpanOps, SpanStore, SpanAllocator

`SpanOps` has the index arithmetic of the class (`Align`, `UpdatePos`, `IncPos`,
with additions wrapped at `IndexMax`), the ordering of the `std::set`, and the
reference notions "first fit" and "no fit".  `SpanStore` is what clients may
rely on: each call is one step, allocation takes the least aligned free window.
`SpanAllocator` has `m_Spans`, `m_FirstFree`, `m_AllocationFull`, `m_Unbounded` and
one action per public operation.  An operation that ends in a loop performs its prefix
and then one iteration per step: `ScanStep` (private `Find`), `AdvanceStep`
(`AdvanceFirstFree`), `ClobberStep`.  Where the tree decides which of several
overlapping spans `emplace` reports, the model lets it be any of them.

### ResourceRegisters

One resource class (the four are independent instances of one template).  The
stages of `DxilLowerCreateHandleForLib::runOnModule` are the values of `pc`;
stages that loop over the resource list take one resource per step.  The span
allocators are sets of spans per space, used through what `SpanStore` specifies.
Any subset of resources may be unused, at both removals, since use is decided
by code that is not modelled.  `InitValidate` gives the validator a module of
any origin.  `UintMax` stands for UINT_MAX in all its three meanings.

### ThreadMalloc

Each thread has a stack of calls in progress.  A frame keeps the fields of its
`DxcThreadMalloc` (`p`, `pPrior`).  `Release` is split after the atomic
decrement, after the scope opens, around each member's destruction, at `Free`,
at the end of the scope and at the end of `pTmp`, since other threads and nested
destructions can see each of these states.  Objects are of two kinds, those with
`DXC_MICROCOM_TM_ADDREF_RELEASE_IMPL` and streams and blobs, whose Release
leaves the TLS slot alone.  `heap` records where each block was allocated and
`misfreed` any block given to another heap.

The operators are the Windows build's, which overrides `operator new` and
`delete` with `DxcNew` and `DxcDelete` (`DXCompiler.cpp:32-52`); on Unix the
buffers of containers live on the C++ heap and only the objects are concerned.
What is assumed of clients is COM's contract: a thread uses an object only with
a reference of its own, keeps it during the call, runs no two methods of an
object at once (AddRef and Release excepted), and lets go of all objects before
the library is detached.

A repeated `DxcInitThreadMalloc` that fails releases one reference and forgets
the default malloc; references of earlier attaches are then never returned.
The history variable `inits` keeps the books of that.

### PartTable, ContainerBuilder

`ContainerBuilder` has the list of parts, the loaded container, the three
members set by `Init`, and the progress of `Load` (one part per step, so that a
failure can strike between any two).  A part is an identifier and an opaque blob with a size.
`Laid` is the container as `SerializeContainer` writes it (sizes, offset table),
`IsValid` is `IsValidDxilContainer`, `Verdict` the validator's root signature
check with `Compatible` for the comparison of root signature and PSV.
`HashAndUpdate` and `LoadDone` model which hash function, if any, matches.
Results can be loaded into a new builder.  A container that the validator refused is
still in the result; when it is loaded, its root signature counts as the
container's own and is not validated again.

`PartTable` is the abstract builder: a table with one blob per identifier.

### ByteFile, MemoryStream

`MemoryStream` has the three stream classes, told apart by `kind`, with
`m_offset`, `m_size`, `m_allocSize` and the cells of the buffer; `Junk` is
what fresh memory holds.  Each operation is one action, since a stream is used
by one thread at a time.  Sums of `Seek` and the doubling of `Grow` wrap as ULONGs do
(`lseek` in `dxcfilesystem.cpp` steps back by wrapping).  Two things are assumed of
callers: no write ends past the largest ULONG, and no reservation is below the
size.  `ByteFile` is the file they see: contents, length, position, result.
`SetSize` beyond the capacity succeeds without changing the size, and `ByteFile`
allows for that (`Answer`).

### SignatureAllocator

`regs` is `m_Registers`: per row the interpolation mode, the data width and, per
component, the flags of what is there and of what may not come there.
`PlaceElement`, `RowConflict` and `ColConflict` are the functions of that name; `FindNext` is
the search for a place.  `PackPrefixStable` places one declared element per step, clip and
cull distances in an allocator of two rows and, through placeholders (`HolderRows`), in the
real one.  `Declare` collects a signature for the optimized strategy, whose groups
(`phase`) are then packed one per step: sorted elements (`PackGroup`) and the two ways to
pack clip and cull distances (`PackTwoRows`, `PackPairOfRows`).  Then the
validator places everything once more in the order of declaration.  It does the same
to signatures that no packer made (`ValidateForeign`).  What is legal is
said without flags, pair by pair, in `Compatible`.  `SignatureAssumption` has
interpolation modes in all elements or in none: signature lowering
(`lib/HLSL/HLSignatureLower.cpp:255`) sets or clears them by the kind of signature.  A signature
made elsewhere might mix them; it is outside the model, as the register takes
an element without mode only before the others.

`AllowApart` and `AllowWildRead` let in the two cases where the code departs from
what it says it does (section 5).

### WaveSensitivity

`prog` is what the analysis reads of a function: control flow graph, order of
blocks, operands, phis, wave operations.  `inst` and `block` are the maps `InstState`
and `BBState` and `instWork`, `blockWork` the two lists.  A step visits one user of a
popped instruction, one instruction of a popped block, or one successor of a branch
that became sensitive (`spread`), so that the results other steps find in between are
seen as in the code.  The rounds over undecided phis are `ResolvePhi` and
`EndRound`, the decision that breaks a tie is `ForcePhi`.  The order of users
and of undecided phis is left open, since it is that of a use list or a set of
pointers.

### Linker

`lib` and `attached` are `m_LibMap` and `m_attachedLibs`, `table` the
`m_functionNameMap`.  `loaded`, `usage` and `hidden` are what a link leaves in the
libraries: bodies read, globals noted, linkage made internal.  `call` is the
`Link` in progress; its arguments are a record, and libraries are attached one
per step.  The work list is a set from which any element is taken.  `LinkShader`,
`LinkAll`, `LinkShaders` and `LinkExports` begin the four kinds of link,
`AddFunction`, `SkipFunction` and `MissFunction` are one round of the loop,
`BuildGlobalUsage` the turn to the initializers, and the `Job` actions the
outcome.  `undefined` is the state after the clone of a body that was never read.

A library is its function names with callees, globals used, shaders and
initializers.  A compiled source has at most one initializer, whose calls
stay in its own source: the front end makes one, and refuses others' functions
(`LibWellFormed`).  Calls to functions not marked [noinline] have gone by then.

`Needed` says what a link must take without a work list or rounds: the least set with
the roots that is closed under callees and initializers.  `Reason` lists what a
client can see in its libraries that makes a link impossible.

## 3. Runs

| Run | Shows | Bounds |
|---|---|---|
| `span_allocator` | `SpansDisjoint`, `FirstFreeSound`, `FullSound`; `NeverFreed`; `Implements` (SpanStore); `CallsReturn` | indices 1..4 of 0..4, so every addition near the end wraps; sizes and alignments 1 and 3; two elements. Four indices hold up to four spans, gaps of size 1 and 2, and all collisions |
| `resource_registers` | `AllocatorsAgree`, `BindingsDisjoint`, `LegacyRespected`, `ErrorsJustified`, `ValidatorExact`; `BindingsKept` | three resources on registers 0..3 (3 = UINT_MAX) of two spaces, sizes 1, 2, unbounded. Three resources are one declared, one removed, one automatic |
| `thread_malloc` | `RefsExact`, `InUseAlive`, `FreedWhereAllocated`, `ScopesNest` | two threads, two objects, one client malloc and the default, two references per object, two calls deep: one object inside another, one thread racing the other |
| `thread_malloc_drain` | `DefaultUsable`; `Drained` | two threads, two objects, two process mallocs, two attaches (repeated, failing, undone), one call deep |
| `container_builder` | `PartsInOrder`, `OutputValid`, `RootSignatureChecked`, `DigestEarned`; `LoadExact`, `OrderKept`; `Implements` (PartTable) | three loaded containers (complete; private data first; duplicate part), five identifiers, six ways to add |
| `memory_stream` | `Implements` (ByteFile) | ULONGs 0..5, two byte values, calls of 0 to 2 bytes. Capacities 1, 2, 4 and 5 all occur, doublings that wrap too |
| `signature_allocator` | `PackedLegal`, `ValidatorExact`, `ClipTwoRows`, `FailsOnlyWhenFull`, `PredictionHolds` | three registers, signatures of up to four elements of every kind, up to three elements of foreign signatures; a two-row element beside two others fills three registers in every way |
| `wave_sensitivity` | `ResultClosed`, `NoFalseAlarm`, `AllDecided`; `NeverReverts`; `Terminates` | some 1300 functions over a conditional, a loop, a conditional in a loop and a loop in a loop, with every choice of operands and wave operation |
| `linker` | `TableExact`, `LinkExact`, `VerdictExact`; `Returns` | five libraries under three names, lists of up to three, all kinds of link, any number of links. Two libraries call each other, two clash, three have initializers, a resource has two types, versions differ or are missing |
| `signature_apart`, `wave_phi`, `linker_load` | the disagreements of section 5 | - |

Deadlock is checked except in `ThreadMalloc`, where a library that was detached
or failed to attach stays so, in `SignatureAllocator` and `WaveSensitivity`, which
end, and in `Linker`, where nothing is said to follow undefined behaviour.

Type invariants are proved for `SpanAllocator`, `ResourceRegisters`, `ThreadMalloc`, `MemoryStream`, `WaveSensitivity` and
`Linker`; in `ResourceRegisters`, `ThreadMalloc`, `SignatureAllocator` and `ContainerBuilder`
they are conjuncts of `AllocatorsAgree`, `RefsExact`, `PackedLegal` and `OutputValid`.

**Fairness.**  `SpanAllocator`: weak fairness of `Step`, a loop iteration of a
thread that never blocks; none of callers.  `ThreadMalloc`: weak fairness of the
steps of a thread inside `Release`, which waits for nothing.  `WaveSensitivity`: weak
fairness of `Next`, the steps of one sequential function.  `Linker`: weak fairness of
`LinkStep`, the steps of a `Link` on its caller's thread, which waits for nothing; none of
the client's calls.  The other modules have no liveness properties and no fairness.

## 4. Proofs

Proved with TLAPS for every value of the constants allowed by the assumptions
`IndexRange`, `InputRange`, `ResourceAssumption`, `ThreadMallocAssumption`,
`BuilderAssumption`, `StreamAssumption`, `SignatureAssumption`, `ProgramAssumption` and
`LinkerAssumption`.

**SpanAllocatorProofs.**  `TypeCorrect`, `Disjointness`, `CacheSound` (`FirstFreeSound`),
`FlagSound` (`FullSound`) and `SpaceConserved` (`NeverFreed`).  None of
the invariants is inductive.  `IInv` adds what holds inside each loop: in
a scan, that the iterator is a stored span (`ScanOK`); while advancing, that
everything up to the iterator's end is taken (`AdvanceOK`); while clobbering,
that the new span is well-formed and covers what was erased (`ClobberOK`).
The lemmas `UpdatePosRange` and `IncPosRange` bound the wrapped arithmetic.
Each action has a lemma, and `NextInv` puts them together.  `ImplementsStore`
(`Implements`): every loop, when it ends, has done in one step what `SpanStore` asks for.
`CallFacts` says what the loop has established so far in terms of the spans its call
began with: which positions a search has ruled out, what a forced insertion has erased.
`UpdatePosLeast` and `IncPosLeast` say that the two helpers return the least aligned
position although they compute with wrapping.

**ResourceRegistersProofs.**  For any number of resources and any `UintMax`:
`AllocatorsInStep` (`AllocatorsAgree`), `BindingsAreDisjoint`, `LegacyIsRespected`,
`ErrorsAreJustified`, `ValidatorIsExact` and `BindingsAreKept` (`BindingsKept`).  All but the
last assume that `AllowWrap` and `AllowSentinel` are off, the two cases of section 5 in which the
properties fail.  `IInv` relates the spans to the resources, in both directions: a
taken span is that of a listed resource, where that now is (`TakenSound`,
`UnboundedSound`); without errors each resource that the current loop has passed has its span
(`TakenComplete`); what the legacy reservation must keep is reserved (`Gathered`); an error
names resources that do not move any more (`ErrorsSound`).  `CheckedSound` does the same for
the validator, whose spans can be one short of the resource (`CheckSpan`); that this makes
no difference is the last step of `ValidatorIsExact`.  `InsertFree` and `FreeInBoth` are the lemmas about
an allocation: a window that the reserved spans leave free is free of the taken ones.

**ThreadMallocProofs.**  For any finite sets of threads and objects and any bounds:
`CountsAreExact` (`RefsExact`), `PointersStayGood` (`InUseAlive`), `FreedAtHome`
(`FreedWhereAllocated`), `ScopesAreNested` (`ScopesNest`) and `DefaultIsUsable`
(`DefaultUsable`).  `IInv` says what a call in progress knows at each of its steps
(`FrameOK`); that one `Release` destroys an object, and every half-destroyed object has it
(`OneDestroyer`, `Buried`); the counts (`ObjectCounts`, `MallocCounts`); that the methods
running on an object are backed by references of their threads (`CallsHeld`); that
detaching finds nothing in use (`Quiet`); what `inits` owes the default malloc
(`LibraryOK`); and the place of every block (`HeapsOK`).  The counts are cardinalities of
sets of holders, so each action is shown to add or remove one holder where it adds
or subtracts one.

**ContainerBuilderProofs.**  `OrderInvariant`: `PartsInOrder`, inductive
together with the types of the lists (`IInv`).  It rests on what `InsertAt` and `RemoveAt` do to
a sequence (`InsertBeforeLast`, `RemoveClosesGap`).  `RootSignatureSafety`:
`RootSignatureChecked`, through `ClientChecked` (a root signature that does not
come from the loaded container has set `m_RequireValidation`) and `ResultFits` (a result lasts
no longer than the state it was made from); it uses `PartsInOrder`, since only
with unique identifiers does the validator look at the part the layout keeps.
`LayoutCorrect` (`OutputValid`) and `DigestCorrect` (`DigestEarned`) follow from `LInv`, which
adds that a result is the layout of the parts (`ResultLaid`) and that its digest goes with
`validated` (`DigestFollows`).  The layout is made of sums over all earlier parts, so
`PositionsAligned` and `LaidValid` go by induction on the number of parts: `EveryNatural`
is induction for a set of naturals, obtained from well-founded minima.
`ImplementsTable` (`Implements`) shows each action to be a step of `PartTable`;
`OrderIsKept` (`OrderKept`) compares the public parts before and after
a step (`PublicFront`, `PublicLonger`, `PublicPrefixes`); `LoadIsExact` (`LoadExact`)
says of the loop over a loaded container what it has added so far (`Progress`).  The assumption
asks that the set of identifiers is finite and that `None` is no layout.

**MemoryStreamProofs.**  `TypeCorrect` (`TypeOK`, which is inductive as it stands) and
`StreamIsFile`: without gaps inside the buffer each stream implements
`ByteFile`.  One lemma per operation shows that it is a step of `ByteFile` under
`TypeOK`; `WriteAllowed` does so for all writes at once, from what the buffer
holds before the copy: the old bytes below the size, zeroes in the gap.

**SignatureAllocatorProofs.**  For any number of registers, any elements and any places of
foreign ones: `PackerInvariant`, `ValidatorIsExact` (`ValidatorExact`), `LegalWhileTogether`,
`PackedIsLegal` (`PackedLegal`), `ClipsInTwoRows` (`ClipTwoRows`), `LeftOutOnlyWhenFull`
(`FailsOnlyWhenFull`), `PlacesAreFinal`, `PredictionInside` and `PredictionIsKept`
(`PredictionHolds`).  `PackedIsLegal` and `ClipsInTwoRows` assume
that `AllowApart` is off; `LegalWhileTogether` does not, and says what is left of them
in the code as it is: both hold as long as a second row held that an element of two rows
needs is behind the first (`Together`), so under the optimized strategy always.  In the same way
`PredictionIsKept` assumes that `AllowWildRead` is off, and `PredictionInside` says what is left
without: the prediction holds while `startRow` is 0.
The heart is `Holds`: a register is, flag by flag, what the elements on its row amount to.  From it
`TakenExactly` (what the conflict tests accept is what is compatible with every element) and
`PlacedHolds` (placing such an element keeps it).  `FindNextResult`, `PackGreedyGood`,
`PlaceRowGood` and `TwoRowsGood` carry this through the searches and the loops, whose
states are obtained with `EveryNatural`; sorting is used only as giving each element of the
group once (`SortedResult`).  `PackerInv` then says what each strategy has
placed: under the optimized one the groups whose turn is to come have no places; under the
prefix-stable one the real registers hold the other elements and the placeholders, and the
clip/cull elements lie in the rows held as they lie in the allocator of two rows
(`PrefixIs`).  `JudgeInv` is the same for the validator's registers.

`LeftOutOnlyWhenFull` rests on `FullInv`: an element that was passed over has no place left
(`NoPlace`: each place inside meets another element or a row held).  `PackGreedyShut` gets
this from the search for the rows from `startRow` on; the rows below are full, because the elements of
four columns are packed without a gap (`PackGreedyStacked`: first fit puts each right
above the last).  That what is in the way stays there is `PlacesAreFinal`, an action property, and
that sorting drops no element is a pigeonhole argument (`SortedEvery`).  For `PredictionHolds`, a
pair of rows copied into two registers and the same pair in place accept the same elements at
the same places (`PairTakes`), so FindNext, being the lexicographic minimum
(`FindNextFirst`), finds the same in both (`PairFind`), and the two packings go the same way
step by step (`Alike`, `PackGreedyAlike`); `Foretold` keeps the outcome.

**WaveSensitivityProofs.**  For every function: `TypeCorrect`, `ResultComplete`
(`ResultClosed`), `SensitivityStays` (`NeverReverts`), `EverythingDecided` (`AllDecided`) and
`NothingInVain` (`NoFalseAlarm`).  `IInv` says that every
sensitive instruction has a reason that a new visit finds again (`Justified`), and that
what is sensitive has passed it on or is still on a list or being visited
(`UsersCovered`, `BlocksCovered`, `BranchesCovered`).  The first gives `NeverReverts`,
since a visit assigns what it finds; the others give `ResultClosed` when the lists are empty
(`Quiet`).  `Kept` is carried along in every step, as each part needs that no reason is
withdrawn.  `EverythingDecided`: an undecided instruction is still to be visited or has an
operand that is undecided or on the list (`Undecided`), and an undecided phi with incoming blocks is
always in the set of the current phase (`PhisWaiting`, `Settled`); what is undecided in the end
would be a cycle of operands without such a phi, which `ProgramAssumption` excludes as the code does
("They must all contain a phi").  `NothingInVain`: every set that holds the wave operations
and is closed under `InfectedBy` explains all results so far (`Explained`), and `Reached` is such a
set, since each step adds an instruction or changes nothing (`ReachedClosed`).

**LinkerProofs.**  For all libraries and requests: `TypeCorrect`, `TableCorrect`
(`TableExact`), `LinkCorrect` (`LinkExact`) and `CalleesKept` (`CallsLinked`).  `IInv`
has two directions.  Nothing unneeded: whatever is added or on the work list
is in every complete set (`Justified`).  Nothing missing: roots and callees of loaded functions
are added, on the list, or allowed to stay undefined (`RootsIn`, `CalleesIn`), and in the
second round no further initializer becomes due (`CtorsIn`).  That last part is where
`LibWellFormed` is used: an initializer and what it calls are in one source, which has no
other initializer.  When the list is empty the added functions are complete and
in every complete set, so they are `Needed`.  `VerdictCorrect` (`VerdictExact`) rests on
`VInv`: the attached libraries agree, an error that was reported has its reason, all that the
first round loads is defined or wanted, and the second round stays in libraries whose
use is known.

**Only model-checked.**  Liveness (`CallsReturn`, `Drained`, `Terminates`, `Returns`), since
ENABLED and fairness are outside what the prover does, and the disagreements of section 5, which are
counterexamples; every other invariant and action property of the runs has its theorem.  The library's induction theorems take an
operator and cannot be used; what needs induction here is stated for sets of naturals.

## 5. Disagreements found

Three runs exhibit them.

- `signature_apart`: the second row held for clip and cull distances is searched
  with a row number where a number of rows is meant, so it may lie apart from the first,
  and a two-row element then covers the row between.
- `wave_phi`: a phi that is decided before the branch into it becomes sensitive is
  not looked at again, and stays not sensitive.
- `linker_load`: the functions that an initializer calls are cloned without having been
  loaded, unless something else in this or an earlier link loads them.

Others were met on the way and are kept out of the runs by constants, or are
part of what the abstract specification allows:

- An explicit register close to UINT_MAX with a larger array makes
  `GetUpperBound` wrap, against the assertion of `SpanAllocator::Insert` (`AllowWrap`).
- UINT_MAX as a register is "no register" to `IsAllocated`, and the validator ends an
  unbounded range at register 0 one short of it, so that it misses an overlap there: with
  `AllowSentinel = TRUE` and `N = 2`, `ValidatorExact` fails.
- `PackOptimized` reads past the last register when it looks for a pair of rows
  for indexed clip and cull distances: with `AllowWildRead = TRUE`, `PredictionHolds` fails.
- `MemoryStream::Write` clears the gap before the position only when it has to grow
  the buffer; otherwise the file gets bytes that nobody wrote: with `AllowGap = TRUE`,
  `Implements` fails.
- `AddPart` then `RemovePart` of a root signature leaves `m_RequireValidation` set, and
  `SerializeContainer` refuses the container for lacking one.  `PartTable` lets
  `Build` refuse.
- A link with -export-shaders-only makes the other functions of a registered library
  internal for good, and a later link does not export them.  `LinkExact` and `Reason` say so
  through `hidden`.
- A library without a version passes unreported behind one that has a version, and is
  reported when it comes first (`VersionsConflict`).

## 6. Not modelled

The include file system, control dependence with view ID state, and the root signature
validator are candidates (section 7).  The rows of section 1 below them are not: IR
transformations, parsing, layouts and vendored code, by far the most of the
repository.  Inside the modelled components:

- the rewriting of handles in `DxilCondenseResources.cpp`;
- the choice of the class in `DxcCreateInstance`, error texts, the contents of parts;
- the four streams of a geometry shader (independent signature allocators), the packings
  that number rows in one loop, the placeholder for SV_ViewID in the validator;
- of the linker: types, metadata, declarations of DXIL operations, the renaming of
  exports, errors in options, the validation of the result, globals that are no
  resources defined twice, and libraries that a linker made, which may have several
  initializers.  `DetachLib` has no caller.

## 7. Plan

1. *Next modules*: `ArgsFileSystem` (handles, table limit, re-entry through the
   include handler); `ControlDependence` against its definition on all graphs of
   three or four blocks; the register ranges of the root signature validator.
2. *Composition*: the container builder over the memory stream; one method of
   `ThreadMalloc` with an include handler of `ArgsFileSystem`.
3. *Proofs*: the safety properties of the modules of items 1 and 2.  Those of the present modules
   are proved.
