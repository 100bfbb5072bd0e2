---------------------------- MODULE SpanAllocator ----------------------------
(***************************************************************************)
(* SpanAllocator<T_index, T_element>, include/dxc/HLSL/DxilSpanAllocator.h *)
(* One action per public operation; an operation that ends in a loop only  *)
(* performs its straight-line prefix and leaves the loop to ScanStep (the  *)
(* private Find), AdvanceStep (AdvanceFirstFree) or ClobberStep (the loop  *)
(* of ForceInsertAndClobber), one iteration per step.                      *)
(*                                                                         *)
(* The class is not synchronised and its clients are sequential, so a call *)
(* starts only when the previous one has returned and its result has been  *)
(* read (pc = "idle").                                                     *)
(*                                                                         *)
(* The spans live in a std::set ordered by `end < other.start`.  When a    *)
(* new span overlaps several members, which of them emplace returns        *)
(* depends on the standard library's tree walk: the model lets it be any.  *)
(***************************************************************************)
EXTENDS SpanOps

VARIABLES
  spans,      \* m_Spans
  firstFree,  \* m_FirstFree
  full,       \* m_AllocationFull
  unbounded,  \* m_Unbounded
  pc,         \* "idle", the loop that the current call is in, or "done"
  call,       \* the current call
  it,         \* the loop's iterator: the span it points at
  new,        \* the span that the current call is placing
  ret,        \* its result, until the caller has read it
  spans0      \* history: m_Spans when the current call was made

vars == <<spans, firstFree, full, unbounded, pc, call, it, new, ret, spans0>>

NoSpan == Span(NoElem, 0, 0)

TypeOK ==
  /\ spans \subseteq SpanType /\ spans0 \subseteq SpanType
  /\ firstFree \in Index
  /\ full \in BOOLEAN
  /\ unbounded \in Elems \cup {NoElem}
  /\ pc \in {"idle", "scan", "advance", "clobber", "done"}
  /\ call \in CallType
  /\ it \in SpanType \cup {NoSpan}
  /\ new \in SpanType \cup {NoSpan}
  /\ ret \in Result

Init ==
  /\ spans = {} /\ spans0 = {}
  /\ firstFree = Min
  /\ full = FALSE
  /\ unbounded = NoElem
  /\ pc = "idle"
  /\ call = NoCall
  /\ it = NoSpan /\ new = NoSpan
  /\ ret = NoResult

-----------------------------------------------------------------------------
(* Entering a loop, going round it, and returning from a call.             *)

Goto(loop, c, i, n) ==
  /\ pc' = loop
  /\ call' = c
  /\ it' = i
  /\ new' = n
  /\ spans0' = IF pc = "idle" THEN spans ELSE spans0
  /\ UNCHANGED ret

Return(r) ==
  /\ pc' = "done"
  /\ call' = NoCall
  /\ it' = NoSpan
  /\ new' = NoSpan
  /\ spans0' = {}
  /\ ret' = r

\* The way out of a call that has stored the span s: AllocateUnbounded calls
\* SetUnbounded once its Insert has come back.
ReturnStored(c, s) ==
  /\ Return(Success(c, s.start))
  /\ unbounded' = IF c.op = "AllocateUnbounded" THEN c.element ELSE unbounded

HoldsFirstFreeMut(s) == s.start >= firstFree                  \* mutant
HoldsFirstFree(s) == s.start <= firstFree /\ firstFree <= s.end

\* A successful emplace followed by AdvanceFirstFree(it), whose loop is
\* entered only when the new span holds the first free index.
EmplaceAndAdvance(c, s) ==
  /\ spans' = spans \cup {s}
  /\ IF HoldsFirstFree(s)
     THEN Goto("advance", c, s, s) /\ UNCHANGED unbounded
     ELSE ReturnStored(c, s)
  /\ UNCHANGED <<firstFree, full>>

Keep == UNCHANGED <<spans, firstFree, full, unbounded>>

-----------------------------------------------------------------------------
(* The public operations.                                                  *)

\* The test `size - 1 > m_Max - m_Min` that Find and Allocate start with is
\* repeated by UpdatePos.
Find(c) ==
  LET pos == UpdatePos(IF c.start < firstFree THEN firstFree ELSE c.start,
                       c.size, c.align)
      end == pos + (c.size - 1)
  IN  \/ pos = NoPos /\ Return(Failure(c)) /\ Keep
      \/ /\ pos # NoPos
         /\ FreeWindow(spans, pos, end)   \* lower_bound is end() or beyond `end`
         /\ Return(Success(c, pos)) /\ Keep
      \/ /\ pos # NoPos
         /\ \E next \in spans :
              /\ IsLowerBound(spans, next, pos)
              /\ ~(end < next.start)
              /\ Goto("scan", c, next, NoSpan)
         /\ Keep

FindForUnbounded(c) ==
  LET Found(p) == Return(IF p = NoPos THEN Failure(c) ELSE Success(c, p))
  IN  /\ \/ spans = {} /\ Found(UpdatePos(Min, 1, c.align))
         \/ \E last \in spans :
              IsLast(spans, last) /\ Found(IncPos(last.end, 1, 1, c.align))
      /\ Keep

Allocate(c) ==
  LET pos == UpdatePos(firstFree, c.size, c.align)
      end == pos + (c.size - 1)
  IN  \/ /\ full \/ pos = NoPos
         /\ Return(Failure(c)) /\ Keep
      \/ /\ ~full /\ pos # NoPos
         /\ FreeWindow(spans, pos, end)
         /\ EmplaceAndAdvance(c, Span(c.element, pos, end))
      \/ /\ ~full /\ pos # NoPos
         /\ \E s \in spans : Overlaps(s, pos, end) /\ Goto("scan", c, s, NoSpan)
         /\ Keep

\* The code asserts that its Insert meets no conflict, and returns false in a
\* build without assertions.
AllocateUnbounded(c) ==
  LET Place(p) ==
        IF p # NoPos /\ FreeWindow(spans, p, Max)
        THEN EmplaceAndAdvance(c, Span(c.element, p, Max))
        ELSE Return(Failure(c)) /\ Keep
  IN  \/ full /\ Return(Failure(c)) /\ Keep
      \/ ~full /\ spans = {} /\ Place(UpdatePos(Min, 1, c.align))
      \/ /\ ~full
         /\ \E last \in spans :
              IsLast(spans, last) /\ Place(IncPos(last.end, 1, 1, c.align))

Insert(c) ==
  \/ /\ FreeWindow(spans, c.start, c.end)
     /\ EmplaceAndAdvance(c, Span(c.element, c.start, c.end))
  \/ /\ \E s \in spans : Overlaps(s, c.start, c.end) /\ Return(Conflict(c, s))
     /\ Keep

ForceInsertAndClobber(c) ==
  /\ Goto("clobber", c, NoSpan, Span(c.element, c.start, c.end))
  /\ Keep

SetUnbounded(c) ==
  /\ unbounded' = c.element
  /\ Return(Success(c, 0))
  /\ UNCHANGED <<spans, firstFree, full>>

-----------------------------------------------------------------------------
(* The loops, one iteration per step.                                      *)

\* Private Find: move past `it`; stop at the first gap of the right size.
\* When Allocate called it, the span is stored by a second emplace, which
\* leaves m_FirstFree where it was.
ScanStep ==
  LET pos == IncPos(it.end, 1, call.size, call.align)
      end == pos + (call.size - 1)
  IN  /\ pc = "scan"
      /\ \/ pos = NoPos /\ Return(Failure(call)) /\ UNCHANGED spans
         \/ /\ pos # NoPos
            /\ \E n \in spans :
                 /\ IsNext(spans, it, n) /\ Blocks(n, pos, call.size)
                 /\ Goto("scan", call, n, NoSpan)
            /\ UNCHANGED spans
         \/ /\ pos # NoPos
            /\ \A s \in spans : Precedes(it, s) => ~Blocks(s, pos, call.size)
            /\ call.op = "Find"
            /\ Return(Success(call, pos)) /\ UNCHANGED spans
         \/ /\ pos # NoPos
            /\ \A s \in spans : Precedes(it, s) => ~Blocks(s, pos, call.size)
            /\ call.op = "Allocate"
            /\ IF FreeWindow(spans, pos, end)
               THEN /\ spans' = spans \cup {Span(call.element, pos, end)}
                    /\ Return(Success(call, pos))
               ELSE Return(Failure(call)) /\ UNCHANGED spans
      /\ UNCHANGED <<firstFree, full, unbounded>>

\* ++it has reached a span that begins past the new m_FirstFree.
GapBeforeMut(s) == FALSE                                      \* mutant
GapBefore(s) == it.end + 1 < s.start

AdvanceStep ==
  /\ pc = "advance"
  /\ \/ /\ it.end >= Max
        /\ full' = TRUE
        /\ ReturnStored(call, new)
        /\ UNCHANGED firstFree
     \/ /\ it.end < Max
        /\ firstFree' = it.end + 1
        /\ \E n \in spans :
             /\ IsNext(spans, it, n)
             /\ ~GapBefore(n)
             /\ Goto("advance", call, n, new)
        /\ UNCHANGED <<full, unbounded>>
     \/ /\ it.end < Max
        /\ firstFree' = it.end + 1
        /\ \A s \in spans : Precedes(it, s) => GapBefore(s)
        /\ ReturnStored(call, new)
        /\ UNCHANGED full
  /\ UNCHANGED spans

\* Replace one overlapping span at a time by growing the new one over it.
\* Neither m_FirstFree nor m_AllocationFull follows.
ClobberStep ==
  /\ pc = "clobber"
  /\ \/ /\ FreeWindow(spans, new.start, new.end)
        /\ spans' = spans \cup {new}
        /\ Return(Success(call, call.start))
     \/ \E s \in spans :
          /\ Overlaps(s, new.start, new.end)
          /\ spans' = spans \ {s}
          /\ Goto("clobber", call, NoSpan, Hull(new, s))
  /\ UNCHANGED <<firstFree, full, unbounded>>

-----------------------------------------------------------------------------
ReadResult ==
  /\ pc = "done"
  /\ pc' = "idle"
  /\ ret' = NoResult
  /\ Keep
  /\ UNCHANGED <<call, it, new, spans0>>

Begin(c) ==
  /\ pc = "idle"
  /\ \/ c.op = "Find" /\ Find(c)
     \/ c.op = "FindForUnbounded" /\ FindForUnbounded(c)
     \/ c.op = "Allocate" /\ Allocate(c)
     \/ c.op = "AllocateUnbounded" /\ AllocateUnbounded(c)
     \/ c.op = "Insert" /\ Insert(c)
     \/ c.op = "ForceInsertAndClobber" /\ ForceInsertAndClobber(c)
     \/ c.op = "SetUnbounded" /\ SetUnbounded(c)

Step == ScanStep \/ AdvanceStep \/ ClobberStep

Next == (\E c \in Calls : Begin(c)) \/ Step \/ ReadResult

\* A call in progress is a thread inside a loop that never blocks, so its
\* next iteration is eventually taken.  No fairness is assumed of callers.
Spec == Init /\ [][Next]_vars /\ WF_vars(Step)

-----------------------------------------------------------------------------
(* Correctness.                                                            *)

\* The stored spans lie in [m_Min, m_Max] and never overlap.  Every search of
\* the class relies on it, and the comparator cannot enforce it by itself.
SpansDisjoint == Disjoint(spans)

\* What is taken: the stored spans and, inside ForceInsertAndClobber, the
\* span that is absorbing those already erased.
Taken == Covered(spans) \cup (IF pc = "clobber" THEN new.start .. new.end ELSE {})

\* m_FirstFree may lag behind (Allocate after a collision and
\* ForceInsertAndClobber do not advance it) but never runs ahead: no index
\* below it is free, so Find and Allocate may start there.
FirstFreeSound ==
  /\ Min <= firstFree /\ firstFree <= Max
  /\ \A i \in Min .. Max : i < firstFree => i \in Taken

\* m_AllocationFull is set only when nothing is free, so that Allocate and
\* AllocateUnbounded may give up without looking.
FullSound == full => \A i \in Min .. Max : i \in Taken

\* Reserved space is never given back: no operation un-covers an index that
\* was covered ("conserving the spans they represented").
NeverFreed == [][Taken \subseteq Taken']_vars

\* The class implements the abstract store: every call behaves as one step of
\* SpanStore at the moment it returns; in particular Find and Allocate are
\* first fit, and fail only when no aligned position is free.
Store == INSTANCE SpanStore WITH
           spans <- IF pc \in {"idle", "done"} THEN spans ELSE spans0
Implements == Store!Spec

\* Every call returns: each loop terminates whatever the spans are.
CallsReturn == pc \in {"scan", "advance", "clobber"} ~> pc = "done"
=============================================================================
