-------------------------- MODULE ContainerBuilder --------------------------
(***************************************************************************)
(* DxcContainerBuilder (lib/DxilContainer/DxcContainerBuilder.cpp): a      *)
(* DXIL container is loaded part by part, parts are added and removed, and *)
(* a new container is laid out, its root signature checked and its digest  *)
(* computed.  IsValidDxilContainer (lib/DxilContainer/DxilContainer.cpp)   *)
(* judges the layout.                                                      *)
(*                                                                         *)
(* One client drives the builder, one call after the other; a fresh        *)
(* builder may be given the container that the previous call returned.     *)
(***************************************************************************)
EXTENDS Integers, Sequences, FiniteSets, SequencesExt

CONSTANTS
  FourCCs,      \* part identifiers
  DXIL, PSV0, RTS0, PRIV,  \* program, pipeline state, root signature, private
  Changeable,   \* those that AddPart and RemovePart accept
  Blobs,        \* contents of parts
  SizeOf,       \* their sizes in bytes
  Compatible,   \* <<root signature, PSV or None>> that the validator accepts
  Sources,      \* containers from other tools: parts and digest
  Added,        \* <<identifier, blob>> the client calls AddPart with
  None,         \* nullptr; as AddPart's blob also one that is a container
  MaxSize       \* DxilContainerMaxSize

Digests == {"none", "retail", "debug"}
Layouts == [size : Nat, offsets : Seq(Nat), parts : Seq([fourCC : FourCCs, blob : Blobs]),
            digest : Digests]

ASSUME BuilderAssumption ==
  /\ IsFiniteSet(FourCCs) /\ {DXIL, PSV0, RTS0, PRIV} \subseteq FourCCs
  /\ Changeable \subseteq FourCCs /\ {RTS0, PRIV} \subseteq Changeable
  /\ {DXIL, PSV0} \cap Changeable = {}
  /\ None \notin Blobs /\ None \notin Layouts
  /\ \A s \in Sources : /\ s.parts \in Seq([fourCC : FourCCs, blob : Blobs])
                        /\ s.digest \in Digests
  /\ SizeOf \in [Blobs -> Nat]
  /\ Added \subseteq FourCCs \X (Blobs \cup {None})
  /\ MaxSize \in Nat

VARIABLES
  parts,              \* m_parts; pinned: the blob is memory of m_pContainer
  container,          \* m_pContainer
  requireValidation,  \* m_RequireValidation
  hasPrivate,         \* m_HasPrivateData
  hashFunction,       \* m_HashFunction
  loading,            \* the part Load's loop is at; 0 when it is not running
  before,             \* history: parts before the Load in progress; None: Load failed
  result,             \* the container and status of the last call, or None
  ret                 \* the HRESULT of the last call

vars == <<parts, container, requireValidation, hasPrivate, hashFunction, loading,
          before, result, ret>>

Part == [fourCC : FourCCs, blob : Blobs, pinned : BOOLEAN]

NewBuilder ==
  /\ parts = <<>> /\ container = None
  /\ requireValidation = FALSE /\ hasPrivate = FALSE /\ hashFunction = "none"
  /\ loading = 0 /\ before = <<>>

Init == NewBuilder /\ result = None /\ ret = "S_OK"

-----------------------------------------------------------------------------
(* The layout of a container: header, offset table, parts.                 *)

HeaderSize     == 32
OffsetSize     == 4
PartHeaderSize == 8

TableEnd(n)   == HeaderSize + OffsetSize * n
Extent(ps, k) == PartHeaderSize + SizeOf[ps[k].blob]

ContainerSizeMut(ps) ==                                       \* mutant
  MapThenSumSet(LAMBDA k : SizeOf[ps[k].blob], DOMAIN ps)
    + HeaderSize + OffsetSize * Len(ps) + PartHeaderSize * (Len(ps) - 1)
\* ComputeContainerSize and GetDxilContainerSizeFromParts.
ContainerSize(ps) ==
  MapThenSumSet(LAMBDA k : SizeOf[ps[k].blob], DOMAIN ps)
    + HeaderSize + OffsetSize * Len(ps) + PartHeaderSize * Len(ps)

\* UpdateOffsetTable.
Offsets(ps) ==
  LET offset[k \in 1 .. Len(ps)] ==
        IF k = 1 THEN TableEnd(Len(ps)) ELSE offset[k - 1] + Extent(ps, k - 1)
  IN  [k \in DOMAIN ps |-> offset[k]]

\* A container in memory: the header's fields, the table, the parts one after
\* the other behind it, and the hash function its digest agrees with.
Laid(ps, digest) ==
  [size |-> ContainerSize(ps), offsets |-> Offsets(ps),
   parts |-> [k \in DOMAIN ps |-> [fourCC |-> ps[k].fourCC, blob |-> ps[k].blob]],
   digest |-> digest]

\* IsValidDxilContainer, with the memory the container is in as its length.
IsValid(c) ==
  LET n == Len(c.offsets)
      begin[k \in 1 .. n + 1] ==
        IF k = 1 THEN TableEnd(n) ELSE begin[k - 1] + Extent(c.parts, k - 1)
  IN  /\ c.size <= MaxSize
      /\ TableEnd(n) <= c.size
      /\ \A k \in 1 .. n : /\ c.offsets[k] <= c.size - PartHeaderSize
                           /\ c.offsets[k] = begin[k]
                           /\ c.offsets[k] + Extent(c.parts, k) <= c.size
      /\ begin[n + 1] = c.size

HasPart(ps, f) == \E k \in DOMAIN ps : ps[k].fourCC = f
BlobOf(ps, f)  == IF HasPart(ps, f)
                  THEN ps[CHOOSE k \in DOMAIN ps : ps[k].fourCC = f].blob
                  ELSE None

\* runRootSignatureValidation of the validator.
Verdict(ps) ==
  IF ~HasPart(ps, RTS0) \/ (HasPart(ps, DXIL) /\ ~HasPart(ps, PSV0))
  THEN "DXC_E_MISSING_PART"
  ELSE IF <<BlobOf(ps, RTS0), IF HasPart(ps, DXIL) THEN BlobOf(ps, PSV0) ELSE None>> \in Compatible
       THEN "S_OK" ELSE "DXC_E_INCORRECT_ROOT_SIGNATURE"

-----------------------------------------------------------------------------
(* Calls.                                                                  *)

Idle == loading = 0

\* The find_if of the private AddPart.
IsNew(f) == ~HasPart(parts, f)

InsertedMut(ps, p) ==                                        \* mutant
  IF ps # <<>> THEN InsertAt(ps, Len(ps), p) ELSE Append(ps, p)
InsertedMut2(ps, p) ==                                        \* mutant
  IF hasPrivate THEN ReplaceAt(ps, Len(ps), p) ELSE Append(ps, p)
\* The private AddPart keeps private data at the end.
Inserted(ps, p) == IF hasPrivate THEN InsertAt(ps, Len(ps), p) ELSE Append(ps, p)

AddToList(p) ==
  /\ parts' = Inserted(parts, p)
  /\ hasPrivate' = (hasPrivate \/ p.fourCC = PRIV)

Fails(hr) ==
  /\ ret' = hr /\ result' = None
  /\ UNCHANGED <<parts, container, requireValidation, hasPrivate, hashFunction, loading, before>>

\* A new builder takes the place of the old one.
Renew ==
  /\ Idle
  /\ parts' = <<>> /\ container' = None
  /\ requireValidation' = FALSE /\ hasPrivate' = FALSE /\ hashFunction' = "none"
  /\ before' = <<>> /\ result' = None /\ ret' = "S_OK"
  /\ UNCHANGED loading

\* Load keeps the container, then walks its parts.  It refuses an argument that
\* is no container, and a second container.
Load ==
  /\ Idle
  /\ \/ /\ container = None
        /\ \E s \in Sources : container' = Laid(s.parts, s.digest)
        /\ loading' = 1 /\ before' = parts /\ result' = None
        /\ UNCHANGED <<parts, requireValidation, hasPrivate, hashFunction, ret>>
     \/ Fails("E_INVALIDARG")

\* A new builder loads what the last call returned.
Reload ==
  /\ Idle /\ result # None
  /\ container' = result.container /\ loading' = 1 /\ result' = None
  /\ parts' = <<>> /\ before' = <<>>
  /\ requireValidation' = FALSE /\ hasPrivate' = FALSE /\ hashFunction' = "none"
  /\ UNCHANGED ret

LoadFails(hr) ==
  /\ loading' = 0 /\ before' = None /\ ret' = hr
  /\ UNCHANGED <<parts, hasPrivate>>

LoadPartMut ==                                                \* mutant
  /\ ~Idle /\ loading \in DOMAIN container.parts
  /\ LET p == container.parts[loading]
     IN  IF HasPart(parts, p.fourCC) THEN UNCHANGED <<parts, hasPrivate>>
         ELSE AddToList([fourCC |-> p.fourCC, blob |-> p.blob, pinned |-> TRUE])
  /\ loading' = loading + 1
  /\ UNCHANGED <<container, requireValidation, hashFunction, before, result, ret>>
\* An iteration of the loop: a part already there ends Load with an error, as
\* does a failed allocation, and leaves what was added before.
LoadPart ==
  /\ ~Idle /\ loading \in DOMAIN container.parts
  /\ LET p == container.parts[loading]
     IN  \/ /\ IsNew(p.fourCC)
            /\ AddToList([fourCC |-> p.fourCC, blob |-> p.blob, pinned |-> TRUE])
            /\ loading' = loading + 1
            /\ UNCHANGED <<before, ret>>
         \/ ~IsNew(p.fourCC) /\ LoadFails("DXC_E_DUPLICATE_PART")
         \/ LoadFails("E_OUTOFMEMORY")
  /\ UNCHANGED <<container, requireValidation, hashFunction, result>>

\* DetermineHashFunctionFromContainerContents.
LoadDone ==
  /\ ~Idle /\ loading = Len(container.parts) + 1
  /\ hashFunction' = container.digest
  /\ loading' = 0 /\ before' = <<>> /\ ret' = "S_OK"
  /\ UNCHANGED <<parts, container, requireValidation, hasPrivate, result>>

NeedsValidationMut(f) == requireValidation                    \* mutant
NeedsValidation(f) == requireValidation \/ f = RTS0

AddPart ==
  /\ Idle
  /\ \E f \in FourCCs, b \in Blobs \cup {None} :
       /\ <<f, b>> \in Added
       /\ \/ /\ f \notin Changeable \/ b = None
             /\ Fails("E_INVALIDARG")
          \/ /\ f \in Changeable /\ b # None /\ ~IsNew(f)
             /\ Fails("DXC_E_DUPLICATE_PART")
          \/ /\ f \in Changeable /\ b # None /\ IsNew(f)
             /\ AddToList([fourCC |-> f, blob |-> b, pinned |-> FALSE])
             /\ requireValidation' = NeedsValidation(f)
             /\ ret' = "S_OK" /\ result' = None
             /\ UNCHANGED <<container, hashFunction, loading, before>>

FlagAfterMut(f) == hasPrivate                                 \* mutant
FlagAfter(f) == hasPrivate /\ f # PRIV

RemovePart ==
  /\ Idle
  /\ \E f \in FourCCs :
       \/ f \notin Changeable /\ Fails("E_INVALIDARG")
       \/ f \in Changeable /\ ~HasPart(parts, f) /\ Fails("DXC_E_MISSING_PART")
       \/ \E k \in DOMAIN parts :
            /\ f \in Changeable /\ parts[k].fourCC = f
            /\ parts' = RemoveAt(parts, k)
            /\ hasPrivate' = FlagAfter(f)
            /\ ret' = "S_OK" /\ result' = None
            /\ UNCHANGED <<container, requireValidation, hashFunction, loading, before>>

HashAndUpdateMut(status) == hashFunction                      \* mutant
\* Only a container that has not been refused gets a digest.
HashAndUpdate(status) == IF status = "S_OK" THEN hashFunction ELSE "none"

\* The result holds the container even when the validator refuses it; without
\* memory or without a validator there is no result.
SerializeContainer ==
  /\ Idle
  /\ \/ LET status == IF requireValidation THEN Verdict(parts) ELSE "S_OK"
        IN  /\ result' = [container |-> Laid(parts, HashAndUpdate(status)), status |-> status]
            /\ ret' = "S_OK"
            /\ UNCHANGED <<parts, container, requireValidation, hasPrivate, hashFunction,
                           loading, before>>
     \/ Fails("E_FAIL")

Next ==
  \/ Renew \/ Load \/ Reload \/ LoadPart \/ LoadDone
  \/ AddPart \/ RemovePart \/ SerializeContainer

Spec == Init /\ [][Next]_vars

-----------------------------------------------------------------------------
(* Correctness.                                                            *)

TypeOK ==
  /\ parts \in Seq(Part) /\ Len(parts) <= Cardinality(FourCCs)
  /\ before \in Seq(Part) \cup {None}
  /\ container \in Layouts \cup {None}
  /\ requireValidation \in BOOLEAN /\ hasPrivate \in BOOLEAN
  /\ hashFunction \in Digests
  /\ loading \in Nat /\ (loading # 0 => container # None)
  /\ result \in [container : Layouts,
                 status : {"S_OK", "DXC_E_MISSING_PART", "DXC_E_INCORRECT_ROOT_SIGNATURE"}]
                \cup {None}
  /\ ret \in {"S_OK", "E_INVALIDARG", "E_OUTOFMEMORY", "E_FAIL",
             "DXC_E_DUPLICATE_PART", "DXC_E_MISSING_PART"}

\* No identifier occurs twice, and the flag says whether the list ends with
\* private data, so that the insertion before the last part never puts another
\* part behind it and never runs before the start of the list.
PartsInOrder ==
  /\ \A j, k \in DOMAIN parts : parts[j].fourCC = parts[k].fourCC => j = k
  /\ hasPrivate <=> HasPart(parts, PRIV)
  /\ hasPrivate => Last(parts).fourCC = PRIV

\* Every container the builder returns satisfies IsValidDxilContainer: the
\* size computed before the writing, the offset table and the bytes agree.
\* The parts are aligned if those behind which others are written have aligned
\* sizes, private data being allowed any size.
OutputValid ==
  /\ TypeOK
  /\ result # None =>
       LET c == result.container
       IN  /\ c.size <= MaxSize => IsValid(c)
           /\ (\A k \in DOMAIN c.parts : c.parts[k].fourCC # PRIV => SizeOf[c.parts[k].blob] % 4 = 0)
                => \A k \in DOMAIN c.offsets : c.offsets[k] % 4 = 0

\* A root signature that the client supplied is in no accepted container in
\* which it does not fit the shader, whatever else was removed or added.
RootSignatureChecked ==
  result # None /\ result.status = "S_OK" =>
    \A k \in DOMAIN parts :
      parts[k].fourCC = RTS0 /\ ~parts[k].pinned => Verdict(result.container.parts) = "S_OK"

\* A digest appears only on an accepted container, and says of the result what
\* the loaded container's digest said of that one.
DigestEarned ==
  result # None =>
    /\ result.container.digest # "none" =>
         /\ result.status = "S_OK"
         /\ container # None /\ container.digest = result.container.digest
    /\ result.status = "S_OK" /\ container # None /\ before # None =>
         result.container.digest = container.digest

\* The identifiers and blobs of the parts other than private data, in their order.
Bare(p) == [fourCC |-> p.fourCC, blob |-> p.blob]
Public(ps) ==
  LET public[k \in 0 .. Len(ps)] ==
        IF k = 0 THEN <<>>
        ELSE IF ps[k].fourCC = PRIV THEN public[k - 1] ELSE Append(public[k - 1], Bare(ps[k]))
  IN  public[Len(ps)]

\* Load adds every part of the container behind the parts there were, private
\* data last; it stops at a part only if that part is there already or memory
\* is short.  What a builder returned is therefore loaded back unchanged.
LoadExact ==
  [][loading # 0 /\ loading' = 0 =>
       LET read == SubSeq(container.parts, 1, loading - 1)
       IN  /\ ret' = "S_OK" =>
                /\ read = container.parts
                /\ Public(parts') = Public(before) \o Public(read)
                /\ BlobOf(parts', PRIV) = IF HasPart(read, PRIV) THEN BlobOf(read, PRIV)
                                          ELSE BlobOf(before, PRIV)
           /\ ret' = "DXC_E_DUPLICATE_PART" =>
                \/ \E p \in ToSet(before), q \in ToSet(container.parts) : p.fourCC = q.fourCC
                \/ \E j, k \in DOMAIN container.parts :
                     j # k /\ container.parts[j].fourCC = container.parts[k].fourCC]_vars

\* No call reorders the public parts: it adds one at the end or takes one out.
OrderKept ==
  [][parts' # <<>> =>
       LET old == Public(parts)
           new == Public(parts')
       IN  \/ new = old
           \/ Front(new) = old
           \/ \E k \in DOMAIN old : new = RemoveAt(old, k)]_vars

\* The builder is the table of its parts.
Table(ps) == [f \in FourCCs |-> BlobOf(ps, f)]

Abstract == INSTANCE PartTable WITH
  table <- Table(parts),
  delivered <- IF result = None THEN None ELSE Table(result.container.parts)

Implements == Abstract!Spec
=============================================================================
