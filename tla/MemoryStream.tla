---------------------------- MODULE MemoryStream ----------------------------
(***************************************************************************)
(* The three streams of lib/DxcSupport/FileIOHelper.cpp: MemoryStream,     *)
(* which owns a buffer that grows; FixedSizeMemoryStream, over a buffer of *)
(* the caller; ReadOnlyBlobStream, over a blob.                            *)
(***************************************************************************)
EXTENDS Integers

CONSTANTS
  UlongMax,  \* the largest ULONG
  Byte,      \* values of a byte
  Zero,      \* the byte 0
  Junk,      \* what freshly allocated memory holds
  Lengths,   \* how many bytes a call reads or writes
  AllowGap   \* whether a write may leave a gap inside the allocated buffer

ASSUME StreamAssumption ==
  /\ UlongMax \in Nat /\ Lengths \subseteq 0 .. UlongMax
  /\ Zero \in Byte /\ Junk \notin Byte
  /\ AllowGap \in BOOLEAN

VARIABLES
  kind,       \* which of the three classes
  memory,     \* the buffer: a cell for each position below allocSize
  offset,     \* m_offset
  size,       \* m_size
  allocSize,  \* m_allocSize (of the other two classes: the buffer's size)
  ret         \* result of the last call: HRESULT, a number, bytes

vars == <<kind, memory, offset, size, allocSize, ret>>

Counts == 0 .. UlongMax
Kinds  == {"memory", "fixed", "readOnly"}
Bytes(n) == [0 .. n - 1 -> Byte]
NoBytes == [k \in {} |-> Zero]
Result(hr, count, data) == [hr |-> hr, count |-> count, data |-> data]

Least(a, b)    == IF a < b THEN a ELSE b
Greatest(a, b) == IF a < b THEN b ELSE a
Ulong(x) == x % (UlongMax + 1)

\* A MemoryStream starts empty, the others on what they are given.
Init ==
  /\ kind \in Kinds
  /\ size \in (IF kind = "memory" THEN {0} ELSE Counts)
  /\ allocSize = size /\ offset = 0
  /\ memory \in Bytes(size)
  /\ ret = Result("none", 0, NoBytes)

Fail(hr) ==
  /\ ret' = Result(hr, 0, NoBytes)
  /\ UNCHANGED <<kind, memory, offset, size, allocSize>>

-----------------------------------------------------------------------------
(* Allocation.                                                             *)

\* Alloc and Realloc: what was there stays, up to the new size.
Resized(n) == [k \in 0 .. n - 1 |-> IF k < allocSize THEN memory[k] ELSE Junk]

\* Grow at least doubles the buffer (unless the double does not fit a ULONG).
TargetSize(n) == Greatest(n, Ulong(allocSize * 2))

\* memset(m_pMemory + from, 0, to - from).
Zeroed(mem, from, to) ==
  [k \in DOMAIN mem |-> IF from <= k /\ k < to THEN Zero ELSE mem[k]]

\* memcpy(m_pMemory + at, data, n).
Copied(mem, at, data, n) ==
  [k \in DOMAIN mem |-> IF at <= k /\ k < at + n THEN data[k - at] ELSE mem[k]]

\* The builder and the assembler reserve on a stream that is still empty; a
\* reservation below the size is not made.
ReserveMemory(n) ==
  /\ kind = "memory" /\ n >= size
  /\ \/ Fail("E_OUTOFMEMORY")
     \/ /\ memory' = Resized(n) /\ allocSize' = n
        /\ ret' = Result("S_OK", 0, NoBytes)
        /\ UNCHANGED <<kind, offset, size>>

ReserveFixed(n) ==
  /\ kind = "fixed"
  /\ \/ n > size /\ Fail("E_BOUNDS")
     \/ /\ n <= size
        /\ ret' = Result("S_OK", 0, NoBytes)
        /\ UNCHANGED <<kind, memory, offset, size, allocSize>>

Reserve(n) == ReserveMemory(n) \/ ReserveFixed(n)

-----------------------------------------------------------------------------
(* ISequentialStream.                                                      *)

\* Only MemoryStream can be positioned behind its end, and tests for it.
Read(n) ==
  LET got == Least(n, size - offset)
  IN  \/ /\ offset > size /\ Fail("S_FALSE")
      \/ /\ offset <= size
         /\ ret' = Result(IF got = n THEN "S_OK" ELSE "S_FALSE", got,
                          [k \in 0 .. got - 1 |-> memory[offset + k]])
         /\ offset' = offset + got
         /\ UNCHANGED <<kind, memory, size, allocSize>>

\* The bytes of a gap between size and offset are cleared when the buffer
\* grows, and only then.
StoreGrowingMut(data, n) ==                                   \* mutant
  LET target == TargetSize(offset + n)
  IN  /\ memory' = Copied(Resized(target), offset, data, n)
      /\ allocSize' = target
StoreGrowing(data, n) ==
  LET target == TargetSize(offset + n)
  IN  /\ memory' = Copied(Zeroed(Resized(target), size, offset), offset, data, n)
      /\ allocSize' = target

StoreInPlace(data, n) ==
  /\ memory' = Copied(memory, offset, data, n)
  /\ UNCHANGED allocSize

\* m_offset + cb is taken to fit a ULONG: no user gets near the end of one.
WriteMemory(data, n) ==
  LET grows == offset + n > allocSize
  IN  /\ kind = "memory" /\ offset + n <= UlongMax
      /\ AllowGap \/ offset <= size \/ grows
      /\ \/ grows /\ Fail("E_OUTOFMEMORY")
         \/ /\ IF grows THEN StoreGrowing(data, n) ELSE StoreInPlace(data, n)
            /\ offset' = offset + n
            /\ size' = Greatest(size, offset + n)
            /\ ret' = Result("S_OK", n, NoBytes)
            /\ UNCHANGED kind

\* A buffer of fixed size takes what fits.
WriteFixed(data, n) ==
  LET put == Least(n, size - offset)
  IN  /\ kind = "fixed"
      /\ StoreInPlace(data, put)
      /\ offset' = offset + put
      /\ ret' = Result(IF put = n THEN "S_OK" ELSE "S_FALSE", put, NoBytes)
      /\ UNCHANGED <<kind, size>>

WriteReadOnly == kind = "readOnly" /\ Fail("STG_E_ACCESSDENIED")

-----------------------------------------------------------------------------
(* IStream.                                                                *)

\* The requested size v may exceed a ULONG (u.HighPart # 0).  A MemoryStream
\* asked for more than it has allocated grows, but keeps its size.
SetSize(v) ==
  \/ kind # "memory" /\ Fail("STG_E_ACCESSDENIED")
  \/ kind = "memory" /\ v > UlongMax /\ Fail("E_OUTOFMEMORY")
  \/ /\ kind = "memory" /\ v <= UlongMax /\ v > allocSize
     /\ \/ Fail("E_OUTOFMEMORY")
        \/ /\ memory' = Resized(TargetSize(allocSize))
           /\ allocSize' = TargetSize(allocSize)
           /\ ret' = Result("S_OK", 0, NoBytes)
           /\ UNCHANGED <<kind, offset, size>>
  \/ /\ kind = "memory" /\ v <= allocSize
     /\ memory' = Zeroed(memory, size, v)
     /\ offset' = IF v < size THEN Least(offset, v) ELSE offset
     /\ size' = v
     /\ ret' = Result("S_OK", 0, NoBytes)
     /\ UNCHANGED <<kind, allocSize>>

Origins == {"SET", "CUR", "END", "other"}
Base(origin) == CASE origin = "CUR" -> offset [] origin = "END" -> size [] OTHER -> 0

\* ReadOnlyBlobStream does not implicitly extend.
EndRefused(target) == kind = "readOnly" /\ target > size

\* The distance is a 64 bit number; only its low half is used, and a high half
\* other than 0 (a negative number, too) is refused.  The sum is a ULONG, which
\* is how lseek of dxcfilesystem.cpp goes back: by a low half near the maximum.
Seek(distance, origin) ==
  LET target == Ulong(distance + Base(origin))
  IN  IF kind = "fixed" THEN Fail("E_NOTIMPL")
      ELSE IF distance \notin Counts THEN Fail("E_FAIL")
      ELSE IF origin = "other" THEN Fail("STG_E_INVALIDFUNCTION")
      ELSE IF EndRefused(target) THEN Fail("E_FAIL")
      ELSE /\ offset' = target
           /\ ret' = Result("S_OK", target, NoBytes)
           /\ UNCHANGED <<kind, memory, size, allocSize>>

Stat ==
  /\ ret' = Result("S_OK", size, NoBytes)
  /\ UNCHANGED <<kind, memory, offset, size, allocSize>>

\* Detach hands the buffer out and starts over.
Contents == [k \in 0 .. size - 1 |-> memory[k]]
Detach ==
  /\ kind # "readOnly"
  /\ ret' = Result("S_OK", 0, Contents)
  /\ memory' = NoBytes /\ offset' = 0 /\ size' = 0 /\ allocSize' = 0
  /\ UNCHANGED kind

Next ==
  \/ \E n \in Counts : Reserve(n)
  \/ \E n \in Lengths : Read(n)
  \/ \E n \in Lengths : \E data \in Bytes(n) :
       WriteMemory(data, n) \/ WriteFixed(data, n)
  \/ WriteReadOnly
  \/ \E v \in 0 .. UlongMax + 1 : SetSize(v)
  \/ \E distance \in -1 .. UlongMax + 1, origin \in Origins : Seek(distance, origin)
  \/ Stat \/ Detach

Spec == Init /\ [][Next]_vars

-----------------------------------------------------------------------------
(* Correctness.                                                            *)

\* Offsets, sizes and cells have their types, and no call reaches outside the
\* buffer: the size stays within it, and so does the position of the two
\* streams that subtract it from the size without a test.
TypeOK ==
  /\ kind \in Kinds
  /\ offset \in Counts /\ size \in Counts /\ allocSize \in Counts
  /\ memory \in [0 .. allocSize - 1 -> Byte \cup {Junk}]
  /\ size <= allocSize
  /\ kind # "memory" => offset <= size

\* Every stream is a file of bytes: reads return what was written last, gaps
\* are zeroes, failed calls have no effect, and results tell what was done.
File == INSTANCE ByteFile WITH content <- Contents, length <- size, pos <- offset
Implements == File!Spec
=============================================================================
