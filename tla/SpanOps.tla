------------------------------- MODULE SpanOps -------------------------------
(***************************************************************************)
(* The index arithmetic and the ordered-set vocabulary of                  *)
(* SpanAllocator<T_index, T_element> (include/dxc/HLSL/DxilSpanAllocator.h)*)
(* and the reference notion "the least aligned window that is free".       *)
(*                                                                         *)
(* T_index is `unsigned`; IndexMax is its largest value.  Additions that   *)
(* the code performs on two indices are wrapped by AddIndex.               *)
(***************************************************************************)
EXTENDS Integers

CONSTANTS
  Min, Max,   \* m_Min, m_Max: the inclusive range the allocator manages
  IndexMax,   \* UINT_MAX of T_index
  Elems,      \* the elements (T_element) that spans can belong to
  NoElem,     \* nullptr
  Sizes,      \* the sizes and alignments callers ask for
  Aligns

ASSUME IndexRange ==
  /\ Min \in Nat /\ Max \in Nat /\ IndexMax \in Nat \ {0}
  /\ Min <= Max /\ Max <= IndexMax

Index == 0 .. IndexMax

\* DXASSERT_NOMSG(size) in Find and Allocate rules out a size of 0; an
\* alignment of 0 or 1 asks for none.
ASSUME InputRange ==
  /\ Sizes \subseteq Index \ {0}
  /\ Aligns \subseteq Index
  /\ NoElem \notin Elems

-----------------------------------------------------------------------------
(* Spans and the std::set that holds them.                                 *)

SpanType == [element : Elems, start : Index, end : Index]

Span(e, lo, hi) == [element |-> e, start |-> lo, end |-> hi]

\* a < b on spans; two spans neither of which precedes the other are
\* "equivalent" keys of the std::set, i.e. they overlap.
Precedes(a, b) == a.end < b.start

OverlapsMut(s, lo, hi) == ~(s.end <= lo) /\ ~(hi <= s.start)   \* mutant
Overlaps(s, lo, hi) == ~(s.end < lo) /\ ~(hi < s.start)

FreeWindow(S, lo, hi) == \A s \in S : ~Overlaps(s, lo, hi)

\* m_Spans.lower_bound(Span(nullptr, lo, _)): the first span not before lo.
IsLowerBound(S, s, lo) ==
  /\ s \in S
  /\ ~(s.end < lo)
  /\ \A t \in S : t.end < lo \/ t = s \/ Precedes(s, t)

\* ++it
IsNextMut(S, it, n) == n \in S /\ n = it                       \* mutant
IsNext(S, it, n) ==
  /\ n \in S
  /\ Precedes(it, n)
  /\ \A t \in S : Precedes(it, t) => t = n \/ Precedes(n, t)

\* m_Spans.crbegin()
IsLast(S, s) ==
  /\ s \in S
  /\ \A t \in S : t = s \/ Precedes(t, s)

\* The key order is a real order on the members: they are within
\* [m_Min, m_Max] and any two of them are disjoint.
Disjoint(S) ==
  /\ \A s \in S : Min <= s.start /\ s.start <= s.end /\ s.end <= Max
  /\ \A s, t \in S : s = t \/ Precedes(s, t) \/ Precedes(t, s)

Covered(S) == {i \in Min .. Max : \E s \in S : s.start <= i /\ i <= s.end}

-----------------------------------------------------------------------------
(* Index arithmetic.  NoPos is "the bool helper returned false".           *)

NoPos == -1

AddIndex(a, b) == IF a + b > IndexMax THEN (a + b) - (IndexMax + 1) ELSE a + b

Align(pos, align) ==
  LET rem == IF 1 < align THEN pos % align ELSE 0
  IN  IF rem # 0 THEN AddIndex(pos, align - rem) ELSE pos

UpdatePos(pos, size, align) ==
  IF size - 1 > Max - Min \/ pos < Min \/ pos > Max - (size - 1)
  THEN NoPos
  ELSE LET aligned == Align(pos, align)
       IN  IF aligned < pos \/ aligned > Max - (size - 1)
           THEN NoPos          \* overflow on alignment, or will not fit
           ELSE aligned

IncPos(pos, inc, size, align) ==
  IF AddIndex(pos, inc) < pos
  THEN NoPos                   \* overflow
  ELSE UpdatePos(AddIndex(pos, inc), size, align)

\* A call and its arguments (0 or NoElem where the operation has none).
CallType == [op : {"None", "Find", "FindForUnbounded", "Allocate",
                   "AllocateUnbounded", "Insert", "ForceInsertAndClobber",
                   "SetUnbounded"},
             element : Elems \cup {NoElem}, size : Index, align : Index,
             start : Index, end : Index]

Call(op, e, size, align, lo, hi) ==
  [op |-> op, element |-> e, size |-> size, align |-> align, start |-> lo, end |-> hi]

NoCall == Call("None", NoElem, 0, 0, 0, 0)

\* The calls clients make.  `start` is the position a Find begins at; Insert
\* and ForceInsertAndClobber assert Min <= start <= end <= Max.
Windows == {w \in (Min .. Max) \X (Min .. Max) : w[1] <= w[2]}

Calls ==
  {Call("Find", NoElem, z, a, p, 0) : z \in Sizes, a \in Aligns, p \in Index}
    \cup {Call("FindForUnbounded", NoElem, 0, a, 0, 0) : a \in Aligns}
    \cup {Call("Allocate", e, z, a, 0, 0) : e \in Elems, z \in Sizes, a \in Aligns}
    \cup {Call("AllocateUnbounded", e, 0, a, 0, 0) : e \in Elems, a \in Aligns}
    \cup {Call(op, e, 0, 0, w[1], w[2]) :
            op \in {"Insert", "ForceInsertAndClobber"}, e \in Elems, w \in Windows}
    \cup {Call("SetUnbounded", e, 0, 0, 0, 0) : e \in Elems}

\* Private Find's loop condition: too little room between pos and the span s.
BlocksMut(s, pos, size) == s.start < pos \/ s.start - pos <= size   \* mutant
Blocks(s, pos, size) == s.start < pos \/ s.start - pos < size

\* ForceInsertAndClobber's span n grown over the span s it collided with.
HullMut(n, s) == [n EXCEPT !.start = IF s.start < @ THEN s.start ELSE @]   \* mutant
Hull(n, s) == [n EXCEPT !.start = IF s.start < @ THEN s.start ELSE @,
                        !.end   = IF @ < s.end THEN s.end ELSE @]

\* What ForceInsertAndClobber leaves: [a, b] is the hull of [lo, hi] and of the
\* spans of S that overlap it, which it replaces.
Hit(S, lo, hi) == {s \in S : Overlaps(s, lo, hi)}

IsHull(H, lo, hi, a, b) ==
  /\ a \in {lo} \cup {s.start : s \in H} /\ a <= lo
  /\ b \in {hi} \cup {s.end : s \in H} /\ hi <= b
  /\ \A s \in H : a <= s.start /\ s.end <= b

\* What a call hands back: the bool, the position written through `pos`, and
\* for Insert the conflicting element; the call it answers is kept with it.
\* A failed call leaves a meaningless `pos` behind, which no caller reads.
Result == [call : CallType, ok : BOOLEAN, pos : Index \cup {NoPos},
           element : Elems \cup {NoElem}]

Success(c, p)  == [call |-> c, ok |-> TRUE,  pos |-> p,     element |-> NoElem]
Failure(c)     == [call |-> c, ok |-> FALSE, pos |-> NoPos, element |-> NoElem]
Conflict(c, s) == [call |-> c, ok |-> FALSE, pos |-> NoPos, element |-> s.element]
NoResult == Failure(NoCall)   \* the caller has read the last result

-----------------------------------------------------------------------------
(* Reference definitions, independent of how the code searches.            *)

Aligned(p, align) == align <= 1 \/ p % align = 0

Fits(S, p, size, align) ==
  /\ p \in Min .. Max
  /\ p + (size - 1) <= Max
  /\ Aligned(p, align)
  /\ FreeWindow(S, p, p + (size - 1))

IsFirstFit(S, p, from, size, align) ==
  /\ from <= p
  /\ Fits(S, p, size, align)
  /\ \A q \in Min .. Max : from <= q /\ q < p => ~Fits(S, q, size, align)

NoFit(S, from, size, align) ==
  \A q \in Min .. Max : from <= q => ~Fits(S, q, size, align)

\* The least aligned position with everything up to Max free.
FitsToMax(S, p, align) ==
  /\ p \in Min .. Max
  /\ Aligned(p, align)
  /\ FreeWindow(S, p, Max)

IsFirstTail(S, p, align) ==
  /\ FitsToMax(S, p, align)
  /\ \A q \in Min .. Max : q < p => ~FitsToMax(S, q, align)

NoTail(S, align) == \A q \in Min .. Max : ~FitsToMax(S, q, align)
=============================================================================
