-------------------------- MODULE MemoryStreamProofs --------------------------
(***************************************************************************)
(* Proofs about MemoryStream, for every ULONG width, byte set and set of   *)
(* lengths: type correctness with the bounds of the buffer, and the        *)
(* implementation of ByteFile.                                             *)
(***************************************************************************)
EXTENDS MemoryStream, TLAPS

-----------------------------------------------------------------------------
(* Arithmetic and buffers.                                                 *)

\* A sum of two numbers is cut to a ULONG.
LEMMA UlongType ==
  ASSUME NEW x \in Nat
  PROVE  Ulong(x) \in Counts
BY StreamAssumption DEF Ulong, Counts

\* Grow asks for at least the size it was given, and for no more than a ULONG.
LEMMA TargetSizeRange ==
  ASSUME TypeOK, NEW n \in Counts
  PROVE  TargetSize(n) \in Counts /\ n <= TargetSize(n)
<1>1. Ulong(allocSize * 2) \in Counts
  BY UlongType, StreamAssumption DEF TypeOK, Counts
<1>. QED  BY <1>1, StreamAssumption DEF TargetSize, Greatest, Counts

\* A buffer of n cells, each of them written or fresh.
Cells(n) == [0 .. n - 1 -> Byte \cup {Junk}]

\* Realloc, memset and memcpy keep a buffer a buffer.
LEMMA ResizedType ==
  ASSUME TypeOK, NEW n \in Counts
  PROVE  Resized(n) \in Cells(n)
BY StreamAssumption DEF TypeOK, Resized, Cells, Counts

LEMMA ZeroedType ==
  ASSUME NEW n, NEW mem \in Cells(n), NEW from, NEW to
  PROVE  Zeroed(mem, from, to) \in Cells(n)
BY StreamAssumption DEF Zeroed, Cells

LEMMA CopiedType ==
  ASSUME NEW n \in Nat, NEW mem \in Cells(n), NEW at \in Nat, NEW m \in Nat, NEW l \in Nat,
         m <= l, NEW data \in Bytes(l)
  PROVE  Copied(mem, at, data, m) \in Cells(n)
<1>1. ASSUME NEW k \in 0 .. n - 1, at <= k, k < at + m
      PROVE  data[k - at] \in Byte
  <2>1. k - at \in 0 .. l - 1
    BY <1>1
  <2>. QED  BY <2>1 DEF Bytes
<1>. QED  BY <1>1 DEF Copied, Cells

-----------------------------------------------------------------------------
(* Type correctness.                                                       *)

LEMMA InitType == Init => TypeOK
BY StreamAssumption DEF Init, TypeOK, Kinds, Counts, Bytes

LEMMA WriteMemoryType ==
  ASSUME TypeOK, NEW n \in Lengths, NEW data \in Bytes(n), WriteMemory(data, n)
  PROVE  TypeOK'
<1>. n \in Nat /\ offset \in Nat /\ size \in Nat /\ allocSize \in Nat /\ UlongMax \in Nat
  BY StreamAssumption DEF TypeOK, Counts
<1>. DEFINE target == TargetSize(offset + n)
<1>1. CASE Fail("E_OUTOFMEMORY")
  BY <1>1 DEF Fail, TypeOK
<1>2. CASE ~Fail("E_OUTOFMEMORY")
  <2>. /\ kind = "memory" /\ kind' = kind /\ offset + n <= UlongMax
       /\ offset' = offset + n /\ size' = Greatest(size, offset + n)
    BY <1>2 DEF WriteMemory
  <2>1. CASE offset + n > allocSize
    <3>1. target \in Counts /\ offset + n <= target
      BY TargetSizeRange DEF Counts
    <3>2. Zeroed(Resized(target), size, offset) \in Cells(target)
      BY <3>1, ResizedType, ZeroedType
    <3>3. Copied(Zeroed(Resized(target), size, offset), offset, data, n) \in Cells(target)
      BY <3>1, <3>2, CopiedType DEF Counts
    <3>4. memory' \in Cells(target) /\ allocSize' = target
      BY <1>2, <2>1, <3>3 DEF WriteMemory, StoreGrowing
    <3>. HIDE DEF target
    <3>. QED  BY <2>1, <3>1, <3>4 DEF TypeOK, Cells, Greatest, Counts
  <2>2. CASE ~(offset + n > allocSize)
    <3>1. Copied(memory, offset, data, n) \in Cells(allocSize)
      BY CopiedType DEF TypeOK, Cells
    <3>2. memory' \in Cells(allocSize) /\ allocSize' = allocSize
      BY <1>2, <2>2, <3>1 DEF WriteMemory, StoreInPlace
    <3>. QED  BY <2>2, <3>2 DEF TypeOK, Cells, Greatest, Counts
  <2>. QED  BY <2>1, <2>2
<1>. QED  BY <1>1, <1>2

LEMMA WriteFixedType ==
  ASSUME TypeOK, NEW n \in Lengths, NEW data \in Bytes(n), WriteFixed(data, n)
  PROVE  TypeOK'
<1>. DEFINE put == Least(n, size - offset)
<1>1. n \in Nat /\ put \in Nat /\ put <= n /\ offset + put <= size
  BY StreamAssumption DEF TypeOK, Counts, WriteFixed, Least
<1>2. Copied(memory, offset, data, put) \in Cells(allocSize)
  BY <1>1, CopiedType DEF TypeOK, Cells, Counts
<1>3. /\ memory' \in Cells(allocSize) /\ offset' = offset + put
      /\ UNCHANGED <<kind, size, allocSize>>
  BY <1>2 DEF WriteFixed, StoreInPlace
<1>. HIDE DEF put
<1>. QED  BY <1>1, <1>3, StreamAssumption DEF TypeOK, Cells, Counts

LEMMA SetSizeType ==
  ASSUME TypeOK, NEW v \in 0 .. UlongMax + 1, SetSize(v)
  PROVE  TypeOK'
<1>1. CASE \E hr : Fail(hr)
  BY <1>1 DEF Fail, TypeOK
<1>2. ASSUME memory' = Resized(TargetSize(allocSize)), allocSize' = TargetSize(allocSize),
             UNCHANGED <<kind, offset, size>>
      PROVE  TypeOK'
  <2>1. allocSize' \in Counts /\ allocSize <= allocSize'
    BY <1>2, TargetSizeRange DEF TypeOK
  <2>2. memory' \in Cells(allocSize')
    BY <1>2, <2>1, ResizedType
  <2>. QED  BY <1>2, <2>1, <2>2, StreamAssumption DEF TypeOK, Cells, Counts
<1>3. ASSUME kind = "memory", v <= allocSize, memory' = Zeroed(memory, size, v),
             offset' = IF v < size THEN Least(offset, v) ELSE offset, size' = v,
             UNCHANGED <<kind, allocSize>>
      PROVE  TypeOK'
  <2>1. memory' \in Cells(allocSize)
    BY <1>3, ZeroedType DEF TypeOK, Cells
  <2>. QED  BY <1>3, <2>1, StreamAssumption DEF TypeOK, Cells, Counts, Least
<1>. QED  BY <1>1, <1>2, <1>3 DEF SetSize

LEMMA SeekType ==
  ASSUME TypeOK, NEW distance \in -1 .. UlongMax + 1, NEW origin \in Origins,
         Seek(distance, origin)
  PROVE  TypeOK'
<1>. DEFINE target == Ulong(distance + Base(origin))
<1>1. CASE \E hr : Fail(hr)
  BY <1>1 DEF Fail, TypeOK
<1>2. CASE ~\E hr : Fail(hr)
  <2>1. /\ kind # "fixed" /\ distance \in Counts /\ ~EndRefused(target)
        /\ offset' = target /\ UNCHANGED <<kind, memory, size, allocSize>>
    BY <1>2 DEF Seek
  <2>2. distance + Base(origin) \in Nat
    BY <2>1, StreamAssumption DEF Base, TypeOK, Counts
  <2>3. target \in Counts
    BY <2>2, UlongType
  <2>. HIDE DEF target
  <2>. QED  BY <2>1, <2>3, StreamAssumption DEF TypeOK, EndRefused, Kinds, Counts
<1>. QED  BY <1>1, <1>2

LEMMA StepType ==
  ASSUME TypeOK, [Next]_vars
  PROVE  TypeOK'
<1>1. ASSUME NEW n \in Counts, Reserve(n)
      PROVE  TypeOK'
  <2>1. CASE \E hr : Fail(hr)
    BY <2>1 DEF Fail, TypeOK
  <2>2. ASSUME n >= size, memory' = Resized(n), allocSize' = n, kind = "memory",
               UNCHANGED <<kind, offset, size>>
        PROVE  TypeOK'
    BY <2>2, ResizedType, StreamAssumption DEF TypeOK, Cells, Counts
  <2>3. CASE UNCHANGED <<kind, memory, offset, size, allocSize>>
    BY <2>3 DEF TypeOK
  <2>. QED  BY <1>1, <2>1, <2>2, <2>3 DEF Reserve, ReserveMemory, ReserveFixed
<1>2. ASSUME NEW n \in Lengths, Read(n)
      PROVE  TypeOK'
  <2>1. CASE offset > size
    BY <1>2, <2>1, StreamAssumption DEF Read, Fail, TypeOK, Counts
  <2>2. CASE offset <= size
    <3>1. offset' \in 0 .. size /\ UNCHANGED <<kind, memory, size, allocSize>>
      BY <1>2, <2>2, StreamAssumption DEF Read, TypeOK, Counts, Least
    <3>. QED  BY <3>1, StreamAssumption DEF TypeOK, Counts
  <2>. QED  BY <2>1, <2>2, StreamAssumption DEF TypeOK, Counts
<1>3. CASE WriteReadOnly \/ Stat \/ UNCHANGED vars
  BY <1>3 DEF WriteReadOnly, Stat, Fail, vars, TypeOK
<1>4. CASE Detach
  BY <1>4, StreamAssumption DEF Detach, TypeOK, Counts, NoBytes
<1>. QED  BY <1>1, <1>2, <1>3, <1>4, WriteMemoryType, WriteFixedType, SetSizeType, SeekType
          DEF Next

\* No sequence of calls takes the size out of the buffer, nor the position of a
\* fixed or read only stream past its size.
THEOREM TypeCorrect == Spec => []TypeOK
BY InitType, StepType, PTL DEF Spec

-----------------------------------------------------------------------------
(* Every call does what ByteFile allows.                                   *)

\* The bytes of a buffer that keeps its first cells.
LEMMA SameContents ==
  ASSUME size' = size, \A k \in 0 .. size - 1 : memory'[k] = memory[k]
  PROVE  Contents' = Contents
BY DEF Contents

LEMMA FailAllowed ==
  ASSUME NEW hr \in File!Failures, Fail(hr)
  PROVE  File!Fail
<1>1. Contents' = Contents
  BY SameContents DEF Fail
<1>. QED  BY <1>1 DEF Fail, File!Fail, Result, File!Result, NoBytes, File!NoBytes

LEMMA AnswerAllowed ==
  ASSUME NEW count \in {0, size}, ret' = Result("S_OK", count, NoBytes),
         Contents' = Contents, size' = size, offset' = offset
  PROVE  File!Answer
BY DEF File!Answer, Result, File!Result, NoBytes, File!NoBytes

LEMMA ReserveAllowed ==
  ASSUME TypeOK, NEW n \in Counts, Reserve(n)
  PROVE  File!Answer \/ File!Fail
<1>1. CASE \E hr \in File!Failures : Fail(hr)
  BY <1>1, FailAllowed
<1>2. ASSUME n >= size, memory' = Resized(n), ret' = Result("S_OK", 0, NoBytes),
             UNCHANGED <<kind, offset, size>>
      PROVE  File!Answer
  <2>1. \A k \in 0 .. size - 1 : memory'[k] = memory[k]
    BY <1>2, StreamAssumption DEF Resized, TypeOK, Counts
  <2>. QED  BY <1>2, <2>1, SameContents, AnswerAllowed
<1>3. ASSUME ret' = Result("S_OK", 0, NoBytes),
             UNCHANGED <<kind, memory, offset, size, allocSize>>
      PROVE  File!Answer
  BY <1>3, SameContents, AnswerAllowed
<1>. QED  BY <1>1, <1>2, <1>3 DEF Reserve, ReserveMemory, ReserveFixed, File!Failures

LEMMA ReadAllowed ==
  ASSUME TypeOK, NEW n \in Lengths, Read(n)
  PROVE  File!Read(n) \/ File!Fail
<1>. DEFINE got == Least(n, size - offset)
<1>1. CASE offset > size
  BY <1>1, FailAllowed, StreamAssumption DEF Read, TypeOK, Counts, File!Failures
<1>2. CASE offset <= size
  <2>1. /\ ret' = Result(IF got = n THEN "S_OK" ELSE "S_FALSE", got,
                         [k \in 0 .. got - 1 |-> memory[offset + k]])
        /\ offset' = offset + got
        /\ UNCHANGED <<kind, memory, size, allocSize>>
    BY <1>2, StreamAssumption DEF Read, TypeOK, Counts
  <2>2. got \in Nat /\ got <= n /\ offset + got <= size
    BY <1>2, StreamAssumption DEF TypeOK, Counts, Least
  <2>3. got = File!Least(n, size - offset)
    BY DEF Least, File!Least
  <2>4. ~(offset > size)
    BY <1>2 DEF TypeOK, Counts
  <2>. HIDE DEF got
  <2>5. \A k \in 0 .. got - 1 : Contents[offset + k] = memory[offset + k]
    BY <2>2 DEF Contents, TypeOK, Counts
  <2>6. [k \in 0 .. got - 1 |-> Contents[offset + k]]
          = [k \in 0 .. got - 1 |-> memory[offset + k]]
    BY <2>5
  <2>7. Contents' = Contents
    BY <2>1, SameContents
  <2>. QED  BY <1>2, <2>1, <2>3, <2>4, <2>6, <2>7 DEF File!Read, Result, File!Result
<1>. QED  BY <1>1, <1>2 DEF TypeOK, Counts

\* What the file holds after `put' bytes were stored over a buffer whose gap, if
\* there is one, was cleared.
LEMMA WriteAllowed ==
  ASSUME TypeOK, NEW n \in Nat, NEW data, NEW put \in 0 .. n,
         NEW mem, NEW m \in Nat, DOMAIN mem = 0 .. m - 1,
         offset + put <= m, size <= m,
         \A k \in 0 .. size - 1 : mem[k] = memory[k],
         \A k \in size .. offset - 1 : mem[k] = Zero,
         memory' = Copied(mem, offset, data, put),
         size' = Greatest(size, offset + put), offset' = offset + put,
         ret' = Result(IF put = n THEN "S_OK" ELSE "S_FALSE", put, NoBytes)
  PROVE  File!Write(data, n)
<1>. offset \in Nat /\ size \in Nat
  BY DEF TypeOK, Counts
<1>. DEFINE Cell(k) == IF offset <= k /\ k < offset + put THEN data[k - offset]
                       ELSE IF k < size THEN Contents[k] ELSE Zero
<1>1. size' \in Nat /\ size' <= m /\ size' >= size /\ size' >= offset + put
        /\ (size' = size \/ size' = offset + put)
  BY DEF Greatest
<1>2. ASSUME NEW k \in 0 .. size' - 1
      PROVE  memory'[k] = Cell(k)
  <2>1. k \in DOMAIN mem
    BY <1>1
  <2>2. memory'[k] = IF offset <= k /\ k < offset + put THEN data[k - offset] ELSE mem[k]
    BY <2>1 DEF Copied
  <2>3. CASE offset <= k /\ k < offset + put
    BY <2>2, <2>3
  <2>4. CASE ~(offset <= k /\ k < offset + put) /\ k < size
    BY <2>2, <2>4 DEF Contents
  <2>5. CASE ~(offset <= k /\ k < offset + put) /\ ~(k < size)
    <3>1. k \in size .. offset - 1
      BY <1>1, <2>5
    <3>. QED  BY <2>2, <2>5, <3>1
  <2>. QED  BY <2>3, <2>4, <2>5
<1>3. Contents' = [k \in 0 .. size' - 1 |-> Cell(k)]
  BY <1>2 DEF Contents
<1>4. size' = File!Greatest(size, offset + put)
  BY DEF Greatest, File!Greatest
<1>. QED  BY <1>3, <1>4 DEF File!Write, Result, File!Result, NoBytes, File!NoBytes

LEMMA WriteMemoryAllowed ==
  ASSUME TypeOK, ~AllowGap, NEW n \in Lengths, NEW data \in Bytes(n), WriteMemory(data, n)
  PROVE  File!Write(data, n) \/ File!Fail
<1>. n \in Nat /\ offset \in Nat /\ size \in Nat /\ allocSize \in Nat /\ UlongMax \in Nat
  BY StreamAssumption DEF TypeOK, Counts
<1>. DEFINE target == TargetSize(offset + n)
<1>1. CASE Fail("E_OUTOFMEMORY")
  BY <1>1, FailAllowed DEF File!Failures
<1>2. CASE ~Fail("E_OUTOFMEMORY")
  <2>1. /\ offset + n <= UlongMax /\ (offset <= size \/ offset + n > allocSize)
        /\ offset' = offset + n /\ size' = Greatest(size, offset + n)
        /\ ret' = Result(IF n = n THEN "S_OK" ELSE "S_FALSE", n, NoBytes)
    BY <1>2 DEF WriteMemory
  <2>2. CASE offset + n > allocSize
    <3>. DEFINE mem == Zeroed(Resized(target), size, offset)
    <3>1. target \in Nat /\ offset + n <= target
      BY <2>1, TargetSizeRange DEF Counts
    <3>2. memory' = Copied(mem, offset, data, n)
      BY <1>2, <2>2 DEF WriteMemory, StoreGrowing
    <3>3. size <= target
      BY <2>2, <3>1 DEF TypeOK
    <3>. HIDE DEF target
    <3>4. DOMAIN mem = 0 .. target - 1
      BY DEF Zeroed, Resized
    <3>5. \A k \in 0 .. size - 1 : mem[k] = memory[k]
      BY <3>1, <3>3 DEF Zeroed, Resized, TypeOK
    <3>6. \A k \in size .. offset - 1 : mem[k] = Zero
      BY <3>1 DEF Zeroed, Resized
    <3>. HIDE DEF mem
    <3>. QED  BY <2>1, <3>1, <3>2, <3>3, <3>4, <3>5, <3>6, WriteAllowed
  <2>3. CASE ~(offset + n > allocSize)
    <3>1. memory' = Copied(memory, offset, data, n)
      BY <1>2, <2>3 DEF WriteMemory, StoreInPlace
    <3>2. DOMAIN memory = 0 .. allocSize - 1 /\ size <= allocSize /\ offset <= size
      BY <2>1, <2>3 DEF TypeOK
    <3>3. \A k \in size .. offset - 1 : memory[k] = Zero
      BY <3>2
    <3>. QED  BY <2>1, <2>3, <3>1, <3>2, <3>3, WriteAllowed
  <2>. QED  BY <2>2, <2>3
<1>. QED  BY <1>1, <1>2

LEMMA WriteFixedAllowed ==
  ASSUME TypeOK, NEW n \in Lengths, NEW data \in Bytes(n), WriteFixed(data, n)
  PROVE  File!Write(data, n)
<1>. DEFINE put == Least(n, size - offset)
<1>. n \in Nat /\ offset \in Nat /\ size \in Nat /\ allocSize \in Nat
  BY StreamAssumption DEF TypeOK, Counts
<1>1. put \in 0 .. n /\ offset + put <= size /\ size <= allocSize
  BY DEF WriteFixed, TypeOK, Least
<1>2. /\ memory' = Copied(memory, offset, data, put) /\ offset' = offset + put
      /\ ret' = Result(IF put = n THEN "S_OK" ELSE "S_FALSE", put, NoBytes)
      /\ size' = size
  BY DEF WriteFixed, StoreInPlace
<1>. HIDE DEF put
<1>3. size' = Greatest(size, offset + put)
  BY <1>1, <1>2 DEF Greatest
<1>4. DOMAIN memory = 0 .. allocSize - 1
  BY DEF TypeOK
<1>5. \A k \in size .. offset - 1 : memory[k] = Zero
  BY <1>1
<1>. QED  BY <1>1, <1>2, <1>3, <1>4, <1>5, WriteAllowed

LEMMA SetSizeAllowed ==
  ASSUME TypeOK, NEW v \in 0 .. UlongMax + 1, SetSize(v)
  PROVE  File!Answer \/ File!Fail \/ (v \in Counts /\ File!SetSize(v))
<1>. offset \in Nat /\ size \in Nat /\ allocSize \in Nat /\ UlongMax \in Nat
  BY StreamAssumption DEF TypeOK, Counts
<1>1. CASE \E hr \in File!Failures : Fail(hr)
  BY <1>1, FailAllowed
<1>2. ASSUME memory' = Resized(TargetSize(allocSize)), ret' = Result("S_OK", 0, NoBytes),
             UNCHANGED <<kind, offset, size>>
      PROVE  File!Answer
  <2>. DEFINE target == TargetSize(allocSize)
  <2>1. target \in Nat /\ allocSize <= target
    BY TargetSizeRange DEF TypeOK, Counts
  <2>. HIDE DEF target
  <2>2. \A k \in 0 .. size - 1 : memory'[k] = memory[k]
    BY <1>2, <2>1 DEF Resized, TypeOK, target
  <2>. QED  BY <1>2, <2>2, SameContents, AnswerAllowed
<1>3. ASSUME v <= allocSize, memory' = Zeroed(memory, size, v), size' = v,
             offset' = IF v < size THEN Least(offset, v) ELSE offset,
             ret' = Result("S_OK", 0, NoBytes)
      PROVE  v \in Counts /\ File!SetSize(v)
  <2>1. v \in Counts /\ v \in Nat
    BY <1>3 DEF TypeOK, Counts
  <2>2. ASSUME NEW k \in 0 .. v - 1
        PROVE  memory'[k] = IF k < size THEN Contents[k] ELSE Zero
    BY <1>3, <2>1 DEF Zeroed, Contents, TypeOK
  <2>3. Contents' = [k \in 0 .. v - 1 |-> IF k < size THEN Contents[k] ELSE Zero]
    BY <1>3, <2>2 DEF Contents
  <2>. QED  BY <1>3, <2>1, <2>3
            DEF File!SetSize, Result, File!Result, NoBytes, File!NoBytes, Least, File!Least
<1>. QED  BY <1>1, <1>2, <1>3 DEF SetSize, File!Failures

LEMMA SeekAllowed ==
  ASSUME TypeOK, NEW distance \in -1 .. UlongMax + 1, NEW origin \in Origins,
         Seek(distance, origin)
  PROVE  File!Fail \/ \E to \in Counts : File!Seek(to)
<1>. DEFINE target == Ulong(distance + Base(origin))
<1>1. CASE \E hr \in File!Failures : Fail(hr)
  BY <1>1, FailAllowed
<1>2. CASE ~\E hr \in File!Failures : Fail(hr)
  <2>1. /\ distance \in Counts /\ offset' = target /\ ret' = Result("S_OK", target, NoBytes)
        /\ UNCHANGED <<kind, memory, size, allocSize>>
    BY <1>2 DEF Seek, File!Failures
  <2>2. distance + Base(origin) \in Nat
    BY <2>1, StreamAssumption DEF Base, TypeOK, Counts
  <2>3. target \in Counts
    BY <2>2, UlongType
  <2>4. Contents' = Contents
    BY <2>1, SameContents
  <2>5. File!Seek(target)
    BY <2>1, <2>4 DEF File!Seek, Result, File!Result, NoBytes, File!NoBytes
  <2>. QED  BY <2>3, <2>5
<1>. QED  BY <1>1, <1>2

LEMMA StepAllowed ==
  ASSUME TypeOK, ~AllowGap, [Next]_vars
  PROVE  [File!Next]_(File!vars)
<1>1. ASSUME NEW n \in Counts, Reserve(n)
      PROVE  File!Next
  BY <1>1, ReserveAllowed DEF File!Next
<1>2. ASSUME NEW n \in Lengths, Read(n)
      PROVE  File!Next
  BY <1>2, ReadAllowed DEF File!Next
<1>3. ASSUME NEW n \in Lengths, NEW data \in Bytes(n), WriteMemory(data, n) \/ WriteFixed(data, n)
      PROVE  File!Next
  <2>1. data \in File!Bytes(n)
    BY DEF Bytes, File!Bytes
  <2>. QED  BY <1>3, <2>1, WriteMemoryAllowed, WriteFixedAllowed DEF File!Next
<1>4. CASE WriteReadOnly
  BY <1>4, FailAllowed DEF WriteReadOnly, File!Next, File!Failures
<1>5. ASSUME NEW v \in 0 .. UlongMax + 1, SetSize(v)
      PROVE  File!Next
  BY <1>5, SetSizeAllowed DEF File!Next, File!Counts, Counts
<1>6. ASSUME NEW distance \in -1 .. UlongMax + 1, NEW origin \in Origins, Seek(distance, origin)
      PROVE  File!Next
  BY <1>6, SeekAllowed DEF File!Next, File!Counts, Counts
<1>7. CASE Stat
  BY <1>7, SameContents, AnswerAllowed DEF Stat, File!Next
<1>8. CASE Detach
  <2>1. Contents' = NoBytes
    BY <1>8 DEF Detach, Contents, NoBytes
  <2>. QED  BY <1>8, <2>1 DEF Detach, File!Detach, File!Next, Result, File!Result,
                              NoBytes, File!NoBytes
<1>9. CASE UNCHANGED vars
  BY <1>9, SameContents DEF vars, File!vars
<1>. QED  BY <1>1, <1>2, <1>3, <1>4, <1>5, <1>6, <1>7, <1>8, <1>9 DEF Next

LEMMA InitAllowed == Init => File!Init
<1>. SUFFICES ASSUME Init PROVE File!Init
  OBVIOUS
<1>1. size \in Counts /\ Contents \in Bytes(size)
  BY StreamAssumption DEF Init, Contents, Bytes, Counts
<1>. QED  BY <1>1 DEF Init, File!Init, File!Counts, Counts, File!Bytes, Bytes, Result,
                      File!Result, NoBytes, File!NoBytes

\* As long as no write leaves a gap inside the allocated buffer, each of the
\* three streams is a file of bytes.
THEOREM StreamIsFile == ~AllowGap => (Spec => Implements)
<1>. SUFFICES ASSUME ~AllowGap PROVE Spec => Implements
  OBVIOUS
<1>1. TypeOK /\ [Next]_vars => [File!Next]_(File!vars)
  BY StepAllowed
<1>. QED  BY <1>1, InitAllowed, TypeCorrect, PTL DEF Spec, Implements, File!Spec
=============================================================================
