------------------------------ MODULE ByteFile ------------------------------
(***************************************************************************)
(* What the users of the streams of lib/DxcSupport/FileIOHelper.cpp rely   *)
(* on: a file of bytes with a position.  Every call is one step.  A call   *)
(* that fails changes nothing but its result; a write may be cut short,    *)
(* and then says so.                                                       *)
(***************************************************************************)
EXTENDS Integers

CONSTANTS
  UlongMax,  \* the largest ULONG
  Byte,      \* values of a byte
  Zero,      \* the byte 0
  Lengths    \* how many bytes a call reads or writes

VARIABLES
  content,   \* the bytes, by their positions 0 .. length - 1
  length,
  pos,       \* where the next Read or Write starts; may be past the end
  ret        \* result of the last call: HRESULT, a number, bytes

vars == <<content, length, pos, ret>>

Counts  == 0 .. UlongMax
Bytes(n) == [0 .. n - 1 -> Byte]
NoBytes == [k \in {} |-> Zero]

Result(hr, count, data) == [hr |-> hr, count |-> count, data |-> data]
Failures == {"S_FALSE", "E_FAIL", "E_OUTOFMEMORY", "E_BOUNDS", "E_NOTIMPL",
             "STG_E_ACCESSDENIED", "STG_E_INVALIDFUNCTION"}

Least(a, b)    == IF a < b THEN a ELSE b
Greatest(a, b) == IF a < b THEN b ELSE a

Init ==
  /\ length \in Counts /\ content \in Bytes(length) /\ pos = 0
  /\ ret = Result("none", 0, NoBytes)

\* The bytes that are there, and S_OK when they are all that was asked for.
Read(n) ==
  LET left == IF pos > length THEN 0 ELSE length - pos
      got  == Least(n, left)
  IN  /\ ret' = Result(IF got = n /\ pos <= length THEN "S_OK" ELSE "S_FALSE", got,
                       [k \in 0 .. got - 1 |-> content[pos + k]])
      /\ pos' = pos + got
      /\ UNCHANGED <<content, length>>

\* `put' bytes are stored at the position; a gap before it is filled with
\* zeroes.  S_OK exactly when the whole of the data was stored.
Write(data, n) ==
  \E put \in 0 .. n :
    /\ length' = Greatest(length, pos + put)
    /\ content' = [k \in 0 .. length' - 1 |->
                     IF pos <= k /\ k < pos + put THEN data[k - pos]
                     ELSE IF k < length THEN content[k] ELSE Zero]
    /\ pos' = pos + put
    /\ ret' = Result(IF put = n THEN "S_OK" ELSE "S_FALSE", put, NoBytes)

Seek(to) ==
  /\ pos' = to
  /\ ret' = Result("S_OK", to, NoBytes)
  /\ UNCHANGED <<content, length>>

\* The position never ends up behind the end of a file that was cut.
SetSize(n) ==
  /\ length' = n
  /\ content' = [k \in 0 .. n - 1 |-> IF k < length THEN content[k] ELSE Zero]
  /\ pos' = IF n < length THEN Least(pos, n) ELSE pos
  /\ ret' = Result("S_OK", 0, NoBytes)

\* The bytes go to the caller.
Detach ==
  /\ length' = 0 /\ content' = NoBytes /\ pos' = 0
  /\ ret' = Result("S_OK", 0, content)

\* Stat, Reserve, and a SetSize that the stream does not carry out.
Answer ==
  /\ \E count \in {0, length} : ret' = Result("S_OK", count, NoBytes)
  /\ UNCHANGED <<content, length, pos>>

Fail ==
  /\ \E hr \in Failures : ret' = Result(hr, 0, NoBytes)
  /\ UNCHANGED <<content, length, pos>>

Next ==
  \/ \E n \in Lengths : Read(n)
  \/ \E n \in Lengths : \E data \in Bytes(n) : Write(data, n)
  \/ \E to \in Counts : Seek(to)
  \/ \E n \in Counts : SetSize(n)
  \/ Detach \/ Answer \/ Fail

Spec == Init /\ [][Next]_vars
=============================================================================
