------------------------- MODULE SpanAllocatorProofs -------------------------
(***************************************************************************)
(* Proofs about SpanAllocator, for every range, element set, size and      *)
(* alignment: type correctness, disjointness of the spans, soundness of    *)
(* the first-free index and of the full flag, and refinement of SpanStore. *)
(***************************************************************************)
EXTENDS SpanAllocator, TLAPS

-----------------------------------------------------------------------------
(* Index arithmetic.                                                       *)

\* Align returns an index: the wrapped sum stays within T_index.
LEMMA AlignType ==
  ASSUME NEW pos \in Index, NEW align \in Index
  PROVE  Align(pos, align) \in Index
<1>1. CASE 1 < align
  <2>1. pos % align \in 0 .. align - 1
    BY <1>1 DEF Index
  <2>. DEFINE rem == pos % align
  <2>2. rem \in Int /\ 0 <= rem /\ rem < align
    BY <2>1, <1>1 DEF Index
  <2>3. CASE rem # 0
    <3>1. Align(pos, align) = AddIndex(pos, align - rem)
      BY <1>1, <2>3 DEF Align
    <3>. HIDE DEF rem
    <3>2. AddIndex(pos, align - rem) \in Index
      BY <2>2, <2>3, IndexRange DEF AddIndex, Index
    <3>. QED  BY <3>1, <3>2
  <2>4. CASE rem = 0
    BY <1>1, <2>4 DEF Align
  <2>. QED  BY <2>3, <2>4
<1>2. CASE ~(1 < align)
  BY <1>2 DEF Align
<1>. QED  BY <1>1, <1>2

\* UpdatePos fails or moves the position forward to one at which `size`
\* indices fit before Max.
LEMMA UpdatePosRange ==
  ASSUME NEW pos \in Index, NEW size \in Index \ {0}, NEW align \in Index,
         UpdatePos(pos, size, align) # NoPos
  PROVE  LET p == UpdatePos(pos, size, align)
         IN  p \in Index /\ Min <= p /\ pos <= p /\ p + (size - 1) <= Max
<1>. DEFINE a == Align(pos, align)
<1>1. a \in Index
  BY AlignType
<1>2. UpdatePos(pos, size, align) = a /\ ~(pos < Min) /\ ~(a < pos)
        /\ ~(a > Max - (size - 1))
  BY DEF UpdatePos
<1>. HIDE DEF a
<1>. QED  BY <1>1, <1>2, IndexRange DEF Index

\* UpdatePos returns NoPos or an index.
LEMMA UpdatePosType ==
  ASSUME NEW pos \in Index, NEW size \in Index \ {0}, NEW align \in Index
  PROVE  UpdatePos(pos, size, align) \in Index \cup {NoPos}
BY UpdatePosRange

\* IncPos by one fails or moves strictly beyond the position it started from.
LEMMA IncPosRange ==
  ASSUME NEW pos \in Index, NEW size \in Index \ {0}, NEW align \in Index,
         IncPos(pos, 1, size, align) # NoPos
  PROVE  LET p == IncPos(pos, 1, size, align)
         IN  p \in Index /\ Min <= p /\ pos < p /\ p + (size - 1) <= Max
<1>. DEFINE n == AddIndex(pos, 1)
<1>1. n \in Index /\ (n < pos \/ n = pos + 1)
  BY IndexRange DEF AddIndex, Index
<1>2. ~(n < pos) /\ IncPos(pos, 1, size, align) = UpdatePos(n, size, align)
  BY DEF IncPos
<1>. HIDE DEF n
<1>3. n = pos + 1
  BY <1>1, <1>2
<1>. QED  BY <1>1, <1>2, <1>3, UpdatePosRange, IndexRange DEF Index

-----------------------------------------------------------------------------
(* Sets of spans.                                                          *)

\* Adding a span in a free window keeps the spans disjoint.
LEMMA AddDisjoint ==
  ASSUME NEW S \in SUBSET SpanType, Disjoint(S), NEW s \in SpanType,
         Min <= s.start, s.start <= s.end, s.end <= Max,
         FreeWindow(S, s.start, s.end)
  PROVE  Disjoint(S \cup {s})
BY DEF Disjoint, FreeWindow, Overlaps, Precedes, SpanType

\* Erasing a span keeps the others disjoint.
LEMMA RemoveDisjoint ==
  ASSUME NEW S, Disjoint(S), NEW s
  PROVE  Disjoint(S \ {s})
BY DEF Disjoint


\* What is covered stays covered when a span is added.
LEMMA AddCovered ==
  ASSUME NEW S, NEW s
  PROVE  Covered(S) \subseteq Covered(S \cup {s})
BY DEF Covered

-----------------------------------------------------------------------------
(* The inductive invariant.  SpansDisjoint, FirstFreeSound and FullSound    *)
(* are not inductive alone: they need what holds inside each loop.          *)

\* The iterator of the private Find points at a member of the set.
ScanOK ==
  /\ it \in spans
  /\ call.size # 0
  /\ call.op \in {"Find", "Allocate"}
  /\ call.op = "Allocate" => call.element \in Elems

\* AdvanceFirstFree walks a solid prefix: nothing is free up to the end of
\* the span it has reached.
AdvanceOK ==
  /\ it \in spans
  /\ new \in SpanType
  /\ \A i \in Min .. it.end : i \in Covered(spans)

\* The growing span of ForceInsertAndClobber lies in the managed range.
ClobberOK ==
  /\ new \in SpanType
  /\ Min <= new.start /\ new.start <= new.end /\ new.end <= Max

LoopOK ==
  /\ pc = "scan" => ScanOK
  /\ pc = "advance" => AdvanceOK
  /\ pc = "clobber" => ClobberOK

IInv == TypeOK /\ SpansDisjoint /\ FirstFreeSound /\ FullSound /\ LoopOK

\* The fields of a call that its operation reads.
LEMMA CallArgs ==
  ASSUME NEW c \in Calls
  PROVE  /\ c \in CallType
         /\ c.op \in {"Find", "Allocate"} => c.size # 0
         /\ c.op \notin {"Find", "FindForUnbounded"} => c.element \in Elems
         /\ c.op \in {"Insert", "ForceInsertAndClobber"} =>
              Min <= c.start /\ c.start <= c.end /\ c.end <= Max
<1>. c.op \in {"Find", "FindForUnbounded", "Allocate", "AllocateUnbounded",
                 "Insert", "ForceInsertAndClobber", "SetUnbounded"}
  BY DEF Calls, Call
<1>1. CASE c.op = "Find"
  <2>1. PICK z \in Sizes, a \in Aligns, p \in Index :
               c = Call("Find", NoElem, z, a, p, 0)
    BY <1>1 DEF Calls, Call
  <2>. QED
    BY <2>1, InputRange, IndexRange DEF Call, CallType, Index
<1>2. CASE c.op = "FindForUnbounded"
  <2>1. PICK a \in Aligns : c = Call("FindForUnbounded", NoElem, 0, a, 0, 0)
    BY <1>2 DEF Calls, Call
  <2>. QED
    BY <2>1, InputRange, IndexRange DEF Call, CallType, Index
<1>3. CASE c.op = "Allocate"
  <2>1. PICK e \in Elems, z \in Sizes, a \in Aligns :
               c = Call("Allocate", e, z, a, 0, 0)
    BY <1>3 DEF Calls, Call
  <2>. QED
    BY <2>1, InputRange, IndexRange DEF Call, CallType, Index
<1>4. CASE c.op = "AllocateUnbounded"
  <2>1. PICK e \in Elems, a \in Aligns :
               c = Call("AllocateUnbounded", e, 0, a, 0, 0)
    BY <1>4 DEF Calls, Call
  <2>. QED
    BY <2>1, InputRange, IndexRange DEF Call, CallType, Index
<1>5. CASE c.op \in {"Insert", "ForceInsertAndClobber"}
  <2>1. PICK e \in Elems, w \in Windows : c = Call(c.op, e, 0, 0, w[1], w[2])
    BY <1>5 DEF Calls, Call
  <2>2. w[1] \in Min .. Max /\ w[2] \in Min .. Max /\ w[1] <= w[2]
    BY DEF Windows
  <2>. QED
    BY <1>5, <2>1, <2>2, IndexRange DEF Call, CallType, Index
<1>6. CASE c.op = "SetUnbounded"
  <2>1. PICK e \in Elems : c = Call("SetUnbounded", e, 0, 0, 0, 0)
    BY <1>6 DEF Calls, Call
  <2>. QED
    BY <2>1, IndexRange DEF Call, CallType, Index
<1>. QED  BY <1>1, <1>2, <1>3, <1>4, <1>5, <1>6

\* The absent call is a call record.
LEMMA NoCallType == NoCall \in CallType
BY IndexRange DEF NoCall, Call, CallType, Index

\* The results that the operations build are results.
LEMMA ResultType ==
  ASSUME NEW c \in CallType
  PROVE  /\ NoResult \in Result
         /\ Failure(c) \in Result
         /\ \A p \in Index : Success(c, p) \in Result
         /\ \A s \in SpanType : Conflict(c, s) \in Result
<1>. QED
  BY NoCallType DEF NoResult, Result, Failure, Success, Conflict, SpanType

\* The initial state satisfies the invariant.
LEMMA InitInv ==
  ASSUME Init
  PROVE  IInv
<1>1. NoCall \in CallType /\ NoResult \in Result
  BY NoCallType, ResultType
<1>2. TypeOK
  <2>1. Min \in Index
    BY IndexRange DEF Index
  <2>. QED  BY <1>1, <2>1 DEF Init, TypeOK
<1>3. SpansDisjoint /\ FullSound /\ LoopOK
  BY DEF Init, SpansDisjoint, Disjoint, FullSound, LoopOK
<1>4. FirstFreeSound
  BY IndexRange DEF Init, FirstFreeSound
<1>. QED  BY <1>2, <1>3, <1>4 DEF IInv

\* Returning without touching the allocator preserves the invariant.
LEMMA ReturnInv ==
  ASSUME IInv, pc # "clobber", NEW r \in Result, Return(r), Keep
  PROVE  IInv'
<1>1. TypeOK'
  BY NoCallType DEF IInv, TypeOK, Return, Keep
<1>2. SpansDisjoint' /\ LoopOK'
  BY DEF IInv, SpansDisjoint, Disjoint, LoopOK, Return, Keep
<1>3. Taken' = Taken
  BY DEF Taken, Return, Keep, Covered
<1>4. FirstFreeSound' /\ FullSound'
  BY <1>3 DEF IInv, FirstFreeSound, FullSound, Keep
<1>. QED  BY <1>1, <1>2, <1>4 DEF IInv

\* Entering the private Find at a member of the set preserves the invariant.
LEMMA EnterScanInv ==
  ASSUME IInv, pc # "clobber", NEW c \in CallType, NEW s \in spans,
         c.size # 0, c.op \in {"Find", "Allocate"},
         c.op = "Allocate" => c.element \in Elems,
         Goto("scan", c, s, NoSpan), Keep
  PROVE  IInv'
<1>1. TypeOK'
  BY DEF IInv, TypeOK, Goto, Keep
<1>2. SpansDisjoint' /\ LoopOK'
  BY DEF IInv, SpansDisjoint, Disjoint, LoopOK, ScanOK, Goto, Keep
<1>3. Taken' = Taken
  BY DEF Taken, Goto, Keep, Covered
<1>4. FirstFreeSound' /\ FullSound'
  BY <1>3 DEF IInv, FirstFreeSound, FullSound, Keep
<1>. QED  BY <1>1, <1>2, <1>4 DEF IInv

\* Storing a span in a free window preserves the invariant, whether or not
\* AdvanceFirstFree then has anything to do.
LEMMA EmplaceInv ==
  ASSUME IInv, pc = "idle", NEW c \in CallType, NEW s \in SpanType,
         c.element \in Elems,
         Min <= s.start, s.start <= s.end, s.end <= Max,
         FreeWindow(spans, s.start, s.end),
         EmplaceAndAdvance(c, s)
  PROVE  IInv'
<1>1. spans' = spans \cup {s} /\ firstFree' = firstFree /\ full' = full
  BY DEF EmplaceAndAdvance
<1>2. SpansDisjoint'
  <2>1. Disjoint(spans) /\ spans \in SUBSET SpanType
    BY DEF IInv, TypeOK, SpansDisjoint
  <2>2. Disjoint(spans \cup {s})
    BY <2>1, AddDisjoint
  <2>. QED  BY <1>1, <2>2 DEF SpansDisjoint, Disjoint
<1>3. Taken \subseteq Taken'
  <2>1. Taken = Covered(spans)
    BY DEF Taken
  <2>2. Covered(spans) \subseteq Covered(spans')
    BY <1>1, AddCovered
  <2>3. Covered(spans') \subseteq Taken'
    BY DEF Taken, Covered
  <2>. QED  BY <2>1, <2>2, <2>3
<1>4. FirstFreeSound' /\ FullSound'
  BY <1>1, <1>3 DEF IInv, FirstFreeSound, FullSound
<1>5. CASE HoldsFirstFree(s)
  <2>1. Goto("advance", c, s, s) /\ UNCHANGED unbounded
    BY <1>5 DEF EmplaceAndAdvance
  <2>2. TypeOK'
    BY <1>1, <2>1 DEF IInv, TypeOK, Goto
  <2>3. \A i \in Min .. s.end : i \in Covered(spans')
    <3>. SUFFICES ASSUME NEW i \in Min .. s.end
                  PROVE  i \in Covered(spans')
      OBVIOUS
    <3>1. i \in Min .. Max
      BY IndexRange DEF SpanType, Index
    <3>2. CASE i < firstFree
      BY <3>1, <3>2, <1>1, AddCovered DEF IInv, FirstFreeSound, Taken, TypeOK
    <3>3. CASE ~(i < firstFree)
      <4>1. s.start <= i /\ i <= s.end
        BY <1>5, <3>3, IndexRange DEF HoldsFirstFree, IInv, TypeOK, SpanType, Index
      <4>. QED  BY <4>1, <3>1, <1>1 DEF Covered
    <3>. QED  BY <3>2, <3>3
  <2>4. LoopOK'
    BY <1>1, <2>1, <2>3 DEF LoopOK, AdvanceOK, Covered, Goto
  <2>. QED  BY <1>2, <1>4, <2>2, <2>4 DEF IInv
<1>6. CASE ~HoldsFirstFree(s)
  <2>1. ReturnStored(c, s)
    BY <1>6 DEF EmplaceAndAdvance
  <2>2. Success(c, s.start) \in Result /\ NoCall \in CallType
    BY NoCallType, ResultType DEF SpanType
  <2>3. TypeOK'
    BY <1>1, <2>1, <2>2 DEF IInv, TypeOK, ReturnStored, Return
  <2>4. LoopOK'
    BY <2>1 DEF LoopOK, ReturnStored, Return
  <2>. QED  BY <1>2, <1>4, <2>3, <2>4 DEF IInv
<1>. QED  BY <1>5, <1>6


-----------------------------------------------------------------------------
(* One lemma per operation and per loop.                                   *)

LEMMA FindInv ==
  ASSUME IInv, pc = "idle", NEW c \in Calls, c.op = "Find", Find(c)
  PROVE  IInv'
<1>. DEFINE from == IF c.start < firstFree THEN firstFree ELSE c.start
            pos  == UpdatePos(from, c.size, c.align)
            end  == pos + (c.size - 1)
<1>1. c \in CallType /\ c.size # 0
  BY CallArgs
<1>2. from \in Index /\ c.size \in Index \ {0} /\ c.align \in Index
  BY <1>1 DEF IInv, TypeOK, CallType
<1>3. pos \in Index \cup {NoPos}
  BY <1>2, UpdatePosType
<1>4. CASE pos = NoPos /\ Return(Failure(c)) /\ Keep
  BY <1>1, <1>4, ResultType, ReturnInv
<1>5. CASE pos # NoPos /\ Return(Success(c, pos)) /\ Keep
  BY <1>1, <1>3, <1>5, ResultType, ReturnInv
<1>6. CASE /\ pos # NoPos
           /\ \E next \in spans :
                /\ IsLowerBound(spans, next, pos)
                /\ ~(end < next.start)
                /\ Goto("scan", c, next, NoSpan)
           /\ Keep
  BY <1>1, <1>6, EnterScanInv
<1>. QED  BY <1>4, <1>5, <1>6 DEF Find

LEMMA FindForUnboundedInv ==
  ASSUME IInv, pc = "idle", NEW c \in Calls, FindForUnbounded(c)
  PROVE  IInv'
<1>1. c \in CallType /\ c.align \in Index
  BY CallArgs DEF CallType
<1>2. ASSUME NEW p \in Index \cup {NoPos},
             Return(IF p = NoPos THEN Failure(c) ELSE Success(c, p)), Keep
      PROVE  IInv'
  <2>1. (IF p = NoPos THEN Failure(c) ELSE Success(c, p)) \in Result
    BY <1>1, ResultType
  <2>. QED  BY <1>2, <2>1, ReturnInv
<1>3. Min \in Index /\ 1 \in Index \ {0}
  BY IndexRange DEF Index
<1>4. UpdatePos(Min, 1, c.align) \in Index \cup {NoPos}
  BY <1>1, <1>3, UpdatePosType
<1>5. \A last \in spans : IncPos(last.end, 1, 1, c.align) \in Index \cup {NoPos}
  BY <1>1, <1>3, IncPosRange DEF IInv, TypeOK, SpanType
<1>. QED  BY <1>2, <1>4, <1>5 DEF FindForUnbounded

LEMMA AllocateInv ==
  ASSUME IInv, pc = "idle", NEW c \in Calls, c.op = "Allocate", Allocate(c)
  PROVE  IInv'
<1>. DEFINE pos == UpdatePos(firstFree, c.size, c.align)
            end == pos + (c.size - 1)
<1>1. c \in CallType /\ c.size # 0 /\ c.element \in Elems
  BY CallArgs
<1>2. firstFree \in Index /\ c.size \in Index \ {0} /\ c.align \in Index
  BY <1>1 DEF IInv, TypeOK, CallType
<1>3. pos # NoPos => pos \in Index /\ Min <= pos /\ end <= Max
  BY <1>2, UpdatePosRange
<1>4. CASE Return(Failure(c)) /\ Keep
  BY <1>1, <1>4, ResultType, ReturnInv
<1>5. CASE /\ pos # NoPos
           /\ FreeWindow(spans, pos, end)
           /\ EmplaceAndAdvance(c, Span(c.element, pos, end))
  <2>. HIDE DEF pos
  <2>1. pos \in Index /\ end \in Index /\ Min <= pos /\ pos <= end /\ end <= Max
    BY <1>2, <1>3, <1>5, IndexRange DEF Index
  <2>. HIDE DEF end
  <2>2. /\ Span(c.element, pos, end) \in SpanType
        /\ Span(c.element, pos, end).start = pos
        /\ Span(c.element, pos, end).end = end
    BY <1>1, <2>1 DEF Span, SpanType
  <2>. QED  BY <1>1, <1>5, <2>1, <2>2, EmplaceInv
<1>6. CASE /\ \E s \in spans : Overlaps(s, pos, end) /\ Goto("scan", c, s, NoSpan)
           /\ Keep
  BY <1>1, <1>6, EnterScanInv
<1>. QED  BY <1>4, <1>5, <1>6 DEF Allocate

LEMMA AllocateUnboundedInv ==
  ASSUME IInv, pc = "idle", NEW c \in Calls, c.op = "AllocateUnbounded",
         AllocateUnbounded(c)
  PROVE  IInv'
<1>1. c \in CallType /\ c.element \in Elems /\ c.align \in Index
  BY CallArgs DEF CallType
<1>2. CASE Return(Failure(c)) /\ Keep
  BY <1>1, <1>2, ResultType, ReturnInv
<1>3. ASSUME NEW p \in Index, Min <= p, p <= Max, FreeWindow(spans, p, Max),
             EmplaceAndAdvance(c, Span(c.element, p, Max))
      PROVE  IInv'
  <2>1. /\ Span(c.element, p, Max) \in SpanType
        /\ Span(c.element, p, Max).start = p
        /\ Span(c.element, p, Max).end = Max
    BY <1>1, IndexRange DEF Span, SpanType, Index
  <2>. QED  BY <1>1, <1>3, <2>1, IndexRange, EmplaceInv
<1>4. Min \in Index /\ 1 \in Index \ {0}
  BY IndexRange DEF Index
<1>5. ASSUME NEW p, p # NoPos, FreeWindow(spans, p, Max),
             EmplaceAndAdvance(c, Span(c.element, p, Max)),
             \/ p = UpdatePos(Min, 1, c.align)
             \/ \E last \in spans : p = IncPos(last.end, 1, 1, c.align)
      PROVE  IInv'
  <2>1. p \in Index /\ Min <= p /\ p <= Max
    BY <1>1, <1>4, <1>5, UpdatePosRange, IncPosRange, IndexRange
       DEF IInv, TypeOK, SpanType, Index
  <2>. QED  BY <1>3, <1>5, <2>1
<1>. QED  BY <1>2, <1>5 DEF AllocateUnbounded

LEMMA InsertInv ==
  ASSUME IInv, pc = "idle", NEW c \in Calls, c.op = "Insert", Insert(c)
  PROVE  IInv'
<1>1. /\ c \in CallType /\ c.element \in Elems
      /\ Min <= c.start /\ c.start <= c.end /\ c.end <= Max
  BY CallArgs
<1>2. CASE /\ FreeWindow(spans, c.start, c.end)
           /\ EmplaceAndAdvance(c, Span(c.element, c.start, c.end))
  <2>1. /\ Span(c.element, c.start, c.end) \in SpanType
        /\ Span(c.element, c.start, c.end).start = c.start
        /\ Span(c.element, c.start, c.end).end = c.end
    BY <1>1 DEF Span, SpanType, CallType
  <2>. QED  BY <1>1, <1>2, <2>1, EmplaceInv
<1>3. CASE /\ \E s \in spans : Overlaps(s, c.start, c.end) /\ Return(Conflict(c, s))
           /\ Keep
  BY <1>1, <1>3, ResultType, ReturnInv DEF IInv, TypeOK
<1>. QED  BY <1>2, <1>3 DEF Insert

LEMMA ForceInsertInv ==
  ASSUME IInv, pc = "idle", NEW c \in Calls, c.op = "ForceInsertAndClobber",
         ForceInsertAndClobber(c)
  PROVE  IInv'
<1>. DEFINE s == Span(c.element, c.start, c.end)
<1>1. /\ c \in CallType /\ c.element \in Elems
      /\ Min <= c.start /\ c.start <= c.end /\ c.end <= Max
  BY CallArgs
<1>2. s \in SpanType /\ s.start = c.start /\ s.end = c.end
  BY <1>1 DEF Span, SpanType, CallType
<1>3. Goto("clobber", c, NoSpan, s) /\ Keep
  BY DEF ForceInsertAndClobber
<1>. HIDE DEF s
<1>4. TypeOK' /\ SpansDisjoint' /\ LoopOK'
  BY <1>1, <1>2, <1>3 DEF IInv, TypeOK, SpansDisjoint, Disjoint, LoopOK, ClobberOK, Goto, Keep
<1>5. Taken \subseteq Taken'
  BY <1>3 DEF Taken, Covered, Goto, Keep
<1>6. FirstFreeSound' /\ FullSound'
  BY <1>3, <1>5 DEF IInv, FirstFreeSound, FullSound, Keep
<1>. QED  BY <1>4, <1>6 DEF IInv

LEMMA SetUnboundedInv ==
  ASSUME IInv, pc = "idle", NEW c \in Calls, c.op = "SetUnbounded",
         SetUnbounded(c)
  PROVE  IInv'
<1>1. c \in CallType /\ c.element \in Elems /\ Success(c, 0) \in Result
  BY CallArgs, ResultType, IndexRange DEF Index
<1>2. TypeOK' /\ SpansDisjoint' /\ LoopOK'
  BY <1>1, NoCallType
     DEF SetUnbounded, Return, IInv, TypeOK, SpansDisjoint, Disjoint, LoopOK
<1>3. Taken' = Taken /\ firstFree' = firstFree /\ full' = full
  BY DEF SetUnbounded, Return, Taken, Covered
<1>4. FirstFreeSound' /\ FullSound'
  BY <1>3 DEF IInv, FirstFreeSound, FullSound
<1>. QED  BY <1>2, <1>4 DEF IInv


LEMMA ScanStepInv ==
  ASSUME IInv, ScanStep
  PROVE  IInv'
<1>. DEFINE pos == IncPos(it.end, 1, call.size, call.align)
            end == pos + (call.size - 1)
            s   == Span(call.element, pos, end)
<1>1. pc = "scan" /\ ScanOK /\ call \in CallType
  BY DEF ScanStep, IInv, TypeOK, LoopOK
<1>2. it.end \in Index /\ call.size \in Index \ {0} /\ call.align \in Index
  BY <1>1 DEF ScanOK, CallType, IInv, TypeOK, SpanType
<1>3. pos # NoPos => pos \in Index /\ Min <= pos /\ end <= Max
  BY <1>2, IncPosRange
<1>4. UNCHANGED <<firstFree, full, unbounded>>
  BY DEF ScanStep
<1>5. CASE Return(Failure(call)) /\ UNCHANGED spans
  BY <1>1, <1>4, <1>5, ResultType, ReturnInv DEF Keep
<1>6. CASE /\ \E n \in spans : Goto("scan", call, n, NoSpan)
           /\ UNCHANGED spans
  BY <1>1, <1>4, <1>6, EnterScanInv DEF ScanOK, Keep
<1>7. CASE pos # NoPos /\ Return(Success(call, pos)) /\ UNCHANGED spans
  BY <1>1, <1>3, <1>4, <1>7, ResultType, ReturnInv DEF Keep
<1>8. CASE /\ pos # NoPos /\ call.op = "Allocate"
           /\ FreeWindow(spans, pos, end)
           /\ spans' = spans \cup {s}
           /\ Return(Success(call, pos))
  <2>. HIDE DEF pos
  <2>1. pos \in Index /\ end \in Index /\ Min <= pos /\ pos <= end /\ end <= Max
    BY <1>2, <1>3, <1>8, IndexRange DEF Index
  <2>. HIDE DEF end
  <2>2. s \in SpanType /\ s.start = pos /\ s.end = end
    BY <1>1, <1>8, <2>1 DEF ScanOK, Span, SpanType
  <2>. HIDE DEF s
  <2>3. Disjoint(spans \cup {s})
    BY <1>8, <2>1, <2>2, AddDisjoint DEF IInv, TypeOK, SpansDisjoint
  <2>4. TypeOK'
    BY <1>1, <1>4, <1>8, <2>1, <2>2, NoCallType, ResultType DEF IInv, TypeOK, Return
  <2>5. SpansDisjoint' /\ LoopOK'
    BY <1>8, <2>3 DEF SpansDisjoint, Disjoint, LoopOK, Return
  <2>6. Taken \subseteq Taken'
    BY <1>1, <1>8, AddCovered DEF Taken, Covered, Return
  <2>7. FirstFreeSound' /\ FullSound'
    BY <1>4, <2>6 DEF IInv, FirstFreeSound, FullSound
  <2>. QED  BY <2>4, <2>5, <2>7 DEF IInv
<1>. QED  BY <1>5, <1>6, <1>7, <1>8 DEF ScanStep

LEMMA AdvanceStepInv ==
  ASSUME IInv, AdvanceStep
  PROVE  IInv'
<1>1. /\ pc = "advance" /\ AdvanceOK /\ spans' = spans
      /\ call \in CallType /\ it \in SpanType
  BY DEF AdvanceStep, IInv, TypeOK, LoopOK, AdvanceOK
<1>2. it.end \in Nat /\ it.end <= IndexMax /\ new.start \in Index
  BY <1>1, IndexRange DEF AdvanceOK, SpanType, Index
<1>3. Taken = Covered(spans)
  BY <1>1 DEF Taken
<1>4. SpansDisjoint'
  BY <1>1 DEF IInv, SpansDisjoint, Disjoint
<1>5. Taken' = Taken /\ Covered(spans)' = Covered(spans)
  BY <1>1 DEF AdvanceStep, Taken, Covered, ReturnStored, Return, Goto
<1>6. Min <= it.end
  BY <1>1, IndexRange DEF IInv, SpansDisjoint, Disjoint, AdvanceOK, SpanType, Index
<1>7. CASE /\ it.end >= Max
           /\ full' = TRUE
           /\ ReturnStored(call, new)
           /\ UNCHANGED firstFree
  <2>1. TypeOK' /\ LoopOK'
    BY <1>1, <1>2, <1>7, NoCallType, ResultType
       DEF IInv, TypeOK, LoopOK, ReturnStored, Return, CallType
  <2>2. FirstFreeSound'
    BY <1>5, <1>7 DEF IInv, FirstFreeSound
  <2>3. FullSound'
    BY <1>1, <1>2, <1>3, <1>5, <1>7, IndexRange DEF FullSound, AdvanceOK
  <2>. QED  BY <1>4, <2>1, <2>2, <2>3 DEF IInv
<1>8. ASSUME it.end < Max, firstFree' = it.end + 1
      PROVE  firstFree' \in Index /\ FirstFreeSound'
  <2>1. firstFree' \in Index /\ Min <= firstFree' /\ firstFree' <= Max
    BY <1>2, <1>6, <1>8, IndexRange DEF Index
  <2>2. \A i \in Min .. Max : i < firstFree' => i \in Taken'
    BY <1>1, <1>2, <1>3, <1>5, <1>8, IndexRange DEF AdvanceOK
  <2>. QED  BY <2>1, <2>2 DEF FirstFreeSound
<1>9. CASE /\ it.end < Max
           /\ firstFree' = it.end + 1
           /\ \E n \in spans :
                /\ IsNext(spans, it, n)
                /\ ~GapBefore(n)
                /\ Goto("advance", call, n, new)
           /\ UNCHANGED <<full, unbounded>>
  <2>1. PICK n \in spans :
               /\ IsNext(spans, it, n)
               /\ ~GapBefore(n)
               /\ Goto("advance", call, n, new)
    BY <1>9
  <2>2. n \in SpanType
    BY DEF IInv, TypeOK
  <2>3. n.start \in Nat /\ n.end \in Nat /\ n.start <= it.end + 1 /\ n.end <= Max
    BY <1>2, <2>1, <2>2, IndexRange
       DEF SpanType, Index, GapBefore, IInv, SpansDisjoint, Disjoint
  <2>4. \A i \in Min .. n.end : i \in Covered(spans)
    <3>. SUFFICES ASSUME NEW i \in Min .. n.end
                  PROVE  i \in Covered(spans)
      OBVIOUS
    <3>1. CASE i <= it.end
      BY <1>1, <1>2, <3>1, IndexRange DEF AdvanceOK
    <3>2. CASE ~(i <= it.end)
      <4>1. n.start <= i /\ i <= n.end /\ i \in Min .. Max
        BY <1>2, <2>3, <3>2, IndexRange
      <4>. QED  BY <4>1 DEF Covered
    <3>. QED  BY <3>1, <3>2
  <2>5. TypeOK'
    BY <1>1, <1>8, <1>9, <2>1, <2>2 DEF IInv, TypeOK, Goto
  <2>6. LoopOK'
    BY <1>1, <1>5, <2>1, <2>4 DEF LoopOK, AdvanceOK, Goto
  <2>7. FullSound'
    BY <1>5, <1>9 DEF IInv, FullSound
  <2>. QED  BY <1>4, <1>8, <1>9, <2>5, <2>6, <2>7 DEF IInv
<1>10. CASE /\ it.end < Max
            /\ firstFree' = it.end + 1
            /\ ReturnStored(call, new)
            /\ UNCHANGED full
  <2>1. TypeOK' /\ LoopOK'
    BY <1>1, <1>2, <1>8, <1>10, NoCallType, ResultType
       DEF IInv, TypeOK, LoopOK, ReturnStored, Return, CallType
  <2>2. FullSound'
    BY <1>5, <1>10 DEF IInv, FullSound
  <2>. QED  BY <1>4, <1>8, <1>10, <2>1, <2>2 DEF IInv
<1>. QED  BY <1>7, <1>9, <1>10 DEF AdvanceStep

\* Growing the clobbering span keeps it in range and covers what is erased.
LEMMA HullRange ==
  ASSUME NEW n \in SpanType, NEW s \in SpanType,
         Min <= n.start, n.start <= n.end, n.end <= Max,
         Min <= s.start, s.start <= s.end, s.end <= Max
  PROVE  /\ Hull(n, s) \in SpanType
         /\ Min <= Hull(n, s).start /\ Hull(n, s).start <= Hull(n, s).end
         /\ Hull(n, s).end <= Max
         /\ Hull(n, s).start <= n.start /\ Hull(n, s).start <= s.start
         /\ n.end <= Hull(n, s).end /\ s.end <= Hull(n, s).end
<1>1. /\ n.start \in Int /\ n.end \in Int /\ s.start \in Int /\ s.end \in Int
  BY DEF SpanType, Index
<1>2. /\ Hull(n, s).start = IF s.start < n.start THEN s.start ELSE n.start
      /\ Hull(n, s).end = IF n.end < s.end THEN s.end ELSE n.end
  BY DEF Hull, SpanType
<1>3. Hull(n, s) \in SpanType
  BY DEF Hull, SpanType
<1>. QED  BY <1>1, <1>2, <1>3, IndexRange


LEMMA ClobberStepInv ==
  ASSUME IInv, ClobberStep
  PROVE  IInv' /\ Taken \subseteq Taken'
<1>1. /\ pc = "clobber" /\ ClobberOK /\ call \in CallType
      /\ UNCHANGED <<firstFree, full, unbounded>>
  BY DEF ClobberStep, IInv, TypeOK, LoopOK
<1>2. SpansDisjoint' /\ TypeOK' /\ LoopOK' /\ Taken \subseteq Taken'
  <2>1. CASE /\ FreeWindow(spans, new.start, new.end)
             /\ spans' = spans \cup {new}
             /\ Return(Success(call, call.start))
    <3>1. Disjoint(spans \cup {new})
      BY <1>1, <2>1, AddDisjoint DEF ClobberOK, IInv, TypeOK, SpansDisjoint
    <3>2. Success(call, call.start) \in Result
      BY <1>1, ResultType DEF CallType
    <3>3. TypeOK'
      BY <1>1, <2>1, <3>2, NoCallType DEF ClobberOK, IInv, TypeOK, Return
    <3>4. SpansDisjoint' /\ LoopOK'
      BY <2>1, <3>1 DEF SpansDisjoint, Disjoint, LoopOK, Return
    <3>5. new.start .. new.end \subseteq Covered(spans')
      BY <1>1, <2>1, IndexRange DEF ClobberOK, SpanType, Index, Covered
    <3>6. Covered(spans) \subseteq Covered(spans') /\ Taken' = Covered(spans')
      BY <2>1, AddCovered DEF Taken, Covered, Return
    <3>7. Taken \subseteq Taken'
      BY <1>1, <3>5, <3>6 DEF Taken
    <3>. QED  BY <3>3, <3>4, <3>7
  <2>2. ASSUME NEW s \in spans,
               spans' = spans \ {s},
               Goto("clobber", call, NoSpan, Hull(new, s))
        PROVE  SpansDisjoint' /\ TypeOK' /\ LoopOK' /\ Taken \subseteq Taken'
    <3>1. s \in SpanType /\ Min <= s.start /\ s.start <= s.end /\ s.end <= Max
      BY DEF IInv, TypeOK, SpansDisjoint, Disjoint
    <3>2. /\ Hull(new, s) \in SpanType
          /\ Min <= Hull(new, s).start /\ Hull(new, s).start <= Hull(new, s).end
          /\ Hull(new, s).end <= Max
          /\ Hull(new, s).start <= new.start /\ Hull(new, s).start <= s.start
          /\ new.end <= Hull(new, s).end /\ s.end <= Hull(new, s).end
      BY <1>1, <3>1, HullRange DEF ClobberOK
    <3>3. SpansDisjoint'
      BY <2>2, RemoveDisjoint DEF IInv, SpansDisjoint, Disjoint
    <3>4. TypeOK' /\ LoopOK'
      BY <1>1, <2>2, <3>2 DEF IInv, TypeOK, LoopOK, ClobberOK, Goto
    <3>. DEFINE h == Hull(new, s)
    <3>5. h \in SpanType /\ Taken' = Covered(spans') \cup (h.start .. h.end)
      BY <2>2, <3>2 DEF Taken, Covered, Goto
    <3>. HIDE DEF h
    <3>6. ASSUME NEW i \in Covered(spans)  PROVE i \in Taken'
      <4>1. PICK t \in spans : i \in Min .. Max /\ t.start <= i /\ i <= t.end
        BY DEF Covered
      <4>2. CASE t = s
        <5>1. h.start <= s.start /\ s.end <= h.end
          BY <3>2 DEF h
        <5>2. i \in Int /\ h.start \in Int /\ h.end \in Int /\ s.start \in Int /\ s.end \in Int
          BY <3>1, <3>5, <4>1, IndexRange DEF SpanType, Index
        <5>. QED  BY <3>5, <4>1, <4>2, <5>1, <5>2
      <4>3. CASE t # s
        BY <2>2, <3>5, <4>1, <4>3 DEF Covered
      <4>. QED  BY <4>2, <4>3
    <3>7. ASSUME NEW i \in new.start .. new.end  PROVE i \in Taken'
      <4>1. h.start <= new.start /\ new.end <= h.end
        BY <3>2 DEF h
      <4>2. new.start \in Int /\ new.end \in Int /\ h.start \in Int /\ h.end \in Int
        BY <1>1, <3>5, IndexRange DEF ClobberOK, SpanType, Index
      <4>. QED  BY <3>5, <4>1, <4>2
    <3>8. Taken \subseteq Taken'
      BY <1>1, <3>6, <3>7 DEF Taken
    <3>. QED  BY <3>3, <3>4, <3>8
  <2>. QED  BY <2>1, <2>2 DEF ClobberStep
<1>3. FirstFreeSound' /\ FullSound'
  BY <1>1, <1>2 DEF IInv, FirstFreeSound, FullSound
<1>. QED  BY <1>2, <1>3 DEF IInv

\* Reading the result preserves the invariant.
LEMMA ReadResultInv ==
  ASSUME IInv, ReadResult
  PROVE  IInv'
<1>1. TypeOK' /\ SpansDisjoint' /\ LoopOK'
  BY NoCallType, ResultType
     DEF ReadResult, Keep, IInv, TypeOK, SpansDisjoint, Disjoint, LoopOK
<1>2. Taken' = Taken /\ firstFree' = firstFree /\ full' = full
  BY DEF ReadResult, Keep, Taken, Covered
<1>3. FirstFreeSound' /\ FullSound'
  BY <1>2 DEF IInv, FirstFreeSound, FullSound
<1>. QED  BY <1>1, <1>3 DEF IInv

\* A stuttering step preserves the invariant.
LEMMA StutterInv ==
  ASSUME IInv, UNCHANGED vars
  PROVE  IInv'
<1>1. TypeOK' /\ SpansDisjoint' /\ FirstFreeSound' /\ FullSound'
  BY DEF IInv, vars, TypeOK, SpansDisjoint, Disjoint, FirstFreeSound, FullSound,
         Taken, Covered
<1>2. LoopOK'
  BY DEF IInv, vars, LoopOK, ScanOK, AdvanceOK, ClobberOK, Covered
<1>. QED  BY <1>1, <1>2 DEF IInv

\* Every step of the allocator preserves the invariant.
LEMMA NextInv ==
  ASSUME IInv, [Next]_vars
  PROVE  IInv'
<1>1. ASSUME NEW c \in Calls, Begin(c)  PROVE IInv'
  <2>1. pc = "idle"
    BY <1>1 DEF Begin
  <2>2. CASE c.op = "Find" /\ Find(c)
    BY <2>1, <2>2, FindInv
  <2>3. CASE FindForUnbounded(c)
    BY <2>1, <2>3, FindForUnboundedInv
  <2>4. CASE c.op = "Allocate" /\ Allocate(c)
    BY <2>1, <2>4, AllocateInv
  <2>5. CASE c.op = "AllocateUnbounded" /\ AllocateUnbounded(c)
    BY <2>1, <2>5, AllocateUnboundedInv
  <2>6. CASE c.op = "Insert" /\ Insert(c)
    BY <2>1, <2>6, InsertInv
  <2>7. CASE c.op = "ForceInsertAndClobber" /\ ForceInsertAndClobber(c)
    BY <2>1, <2>7, ForceInsertInv
  <2>8. CASE c.op = "SetUnbounded" /\ SetUnbounded(c)
    BY <2>1, <2>8, SetUnboundedInv
  <2>. QED
    BY <1>1, <2>2, <2>3, <2>4, <2>5, <2>6, <2>7, <2>8 DEF Begin
<1>. QED
  BY <1>1, ScanStepInv, AdvanceStepInv, ClobberStepInv, ReadResultInv, StutterInv
     DEF Next, Step

-----------------------------------------------------------------------------
(* Theorems.                                                               *)

\* The inductive invariant holds in every reachable state.
THEOREM Invariance == Spec => []IInv
<1>1. Init => IInv
  BY InitInv
<1>2. IInv /\ [Next]_vars => IInv'
  BY NextInv
<1>. QED  BY <1>1, <1>2, PTL DEF Spec

\* Every variable keeps its type: in particular m_FirstFree never leaves
\* T_index and no span wraps, whatever sizes and alignments callers ask for.
THEOREM TypeCorrect == Spec => []TypeOK
<1>1. IInv => TypeOK
  BY DEF IInv
<1>. QED  BY <1>1, Invariance, PTL

\* The stored spans never overlap and never leave [m_Min, m_Max].
THEOREM Disjointness == Spec => []SpansDisjoint
<1>1. IInv => SpansDisjoint
  BY DEF IInv
<1>. QED  BY <1>1, Invariance, PTL

\* m_FirstFree never runs ahead of the first free index, although
\* ForceInsertAndClobber and Allocate do not always update it.
THEOREM CacheSound == Spec => []FirstFreeSound
<1>1. IInv => FirstFreeSound
  BY DEF IInv
<1>. QED  BY <1>1, Invariance, PTL

\* m_AllocationFull is set only when nothing is free.
THEOREM FlagSound == Spec => []FullSound
<1>1. IInv => FullSound
  BY DEF IInv
<1>. QED  BY <1>1, Invariance, PTL

\* Outside the clobbering loop, a step that keeps the stored spans keeps what
\* they cover.
LEMMA GrowingTaken ==
  ASSUME pc # "clobber", spans \subseteq spans'
  PROVE  Taken \subseteq Taken'
BY DEF Taken, Covered

\* Only ClobberStep erases spans.
LEMMA GrowingSpans ==
  ASSUME (\E c \in Calls : Begin(c)) \/ ScanStep \/ AdvanceStep \/ ReadResult
  PROVE  pc # "clobber" /\ spans \subseteq spans'
<1>1. ASSUME NEW c \in Calls, Begin(c)  PROVE pc # "clobber" /\ spans \subseteq spans'
  <2>1. pc = "idle"
    BY <1>1 DEF Begin
  <2>2. CASE Find(c) \/ FindForUnbounded(c) \/ SetUnbounded(c)
    BY <2>1, <2>2 DEF Find, FindForUnbounded, SetUnbounded, Keep
  <2>3. CASE Allocate(c) \/ AllocateUnbounded(c)
    BY <2>1, <2>3 DEF Allocate, AllocateUnbounded, EmplaceAndAdvance, Keep
  <2>4. CASE Insert(c) \/ ForceInsertAndClobber(c)
    BY <2>1, <2>4 DEF Insert, ForceInsertAndClobber, EmplaceAndAdvance, Keep
  <2>. QED  BY <1>1, <2>2, <2>3, <2>4 DEF Begin
<1>2. ASSUME ScanStep  PROVE pc # "clobber" /\ spans \subseteq spans'
  BY <1>2 DEF ScanStep
<1>3. ASSUME AdvanceStep \/ ReadResult  PROVE pc # "clobber" /\ spans \subseteq spans'
  BY <1>3 DEF AdvanceStep, ReadResult, Keep
<1>. QED  BY <1>1, <1>2, <1>3

\* No operation gives reserved space back: ForceInsertAndClobber conserves
\* what the spans it erases covered, at every iteration.
THEOREM SpaceConserved == Spec => NeverFreed
<1>1. IInv /\ [Next]_vars => [Taken \subseteq Taken']_vars
  <2>. SUFFICES ASSUME IInv, Next  PROVE Taken \subseteq Taken'
    OBVIOUS
  <2>1. CASE ClobberStep
    BY <2>1, ClobberStepInv
  <2>2. CASE (\E c \in Calls : Begin(c)) \/ ScanStep \/ AdvanceStep \/ ReadResult
    BY <2>2, GrowingSpans, GrowingTaken
  <2>. QED  BY <2>1, <2>2 DEF Next, Step
<1>. QED  BY <1>1, Invariance, PTL DEF Spec, NeverFreed

-----------------------------------------------------------------------------
(* Alignment: UpdatePos and IncPos return the least aligned position.      *)

LEMMA Multiple ==
  ASSUME NEW a \in Int, NEW n \in Int, n > 0, a % n = 0
  PROVE  \E q \in Int : a = n * q
OBVIOUS

\* Between two neighbouring multiples there is no other.
LEMMA NextFactor ==
  ASSUME NEW n \in Int, n > 0, NEW j \in Int, NEW k \in Int, NEW r \in Int,
         0 < r, r < n, n * k >= n * j + r
  PROVE  n * k >= n * j + n
<1>1. k > j
  <2>1. SUFFICES ASSUME ~(k > j) PROVE FALSE
    OBVIOUS
  <2>2. j - k >= 0 /\ n * (j - k) >= 0
    BY <2>1
  <2>3. n * (j - k) = n * j - n * k
    OBVIOUS
  <2> QED BY <2>2, <2>3
<1>2. k - (j + 1) >= 0 /\ n * (k - (j + 1)) >= 0
  BY <1>1
<1>3. n * (k - (j + 1)) = n * k - n * j - n
  OBVIOUS
<1> QED BY <1>2, <1>3

LEMMA ModTimes ==
  ASSUME NEW n \in Int, n > 0, NEW j \in Int
  PROVE  (n * j) % n = 0
OBVIOUS

LEMMA ModSmall ==
  ASSUME NEW a \in Int, NEW n \in Int, n > 0
  PROVE  \E r \in 0 .. n - 1 : r = a % n /\ (a - r) % n = 0
<1>1. a % n \in 0 .. n - 1
  OBVIOUS
<1>2. a % n = a - n * (a \div n)
  OBVIOUS
<1>3. PICK q \in Int : q = a \div n
  OBVIOUS
<1>4. PICK r \in 0 .. n - 1 : r = a % n
  BY <1>1
<1>5. r = a - n * q
  BY <1>2, <1>3, <1>4
<1> DEFINE m == n * q
<1>6. m \in Int /\ m % n = 0
  BY ModTimes
<1>7. r = a - m
  BY <1>5
<1> HIDE DEF m
<1>8. a - r = m
  BY <1>6, <1>7
<1>9. (a - r) % n = 0
  BY <1>6, <1>8, Zenon
<1> QED BY <1>4, <1>9

LEMMA ModAdd ==
  ASSUME NEW a \in Int, NEW n \in Int, n > 0, a % n = 0
  PROVE  (a + n) % n = 0
<1>1. PICK q \in Int : a = n * q
  BY Multiple
<1>2. q + 1 \in Int /\ a + n = n * (q + 1)
  BY <1>1
<1>3. (n * (q + 1)) % n = 0
  BY <1>2, ModTimes
<1> QED BY <1>2, <1>3, Zenon

LEMMA NextMultiple ==
  ASSUME NEW pos \in Nat, NEW n \in Nat, n > 1, pos % n # 0
  PROVE  \E r \in 1 .. n - 1 :
           /\ r = pos % n
           /\ (pos + (n - r)) % n = 0
           /\ \A q \in Nat : q >= pos /\ q % n = 0 => q >= pos + (n - r)
<1>0. pos \in Int /\ n \in Int /\ n > 0
  OBVIOUS
<1>1. PICK r \in 0 .. n - 1 : r = pos % n /\ (pos - r) % n = 0
  BY <1>0, ModSmall, Zenon
<1> DEFINE m == pos - r
<1>2. r # 0
  BY <1>1, Zenon
<1>3. r \in 1 .. n - 1 /\ m \in Int /\ m = pos - r
  BY <1>1, <1>2
<1>4. m % n = 0
  BY <1>1
<1> HIDE DEF m
<1>5. (m + n) % n = 0
  BY <1>3, <1>4, ModAdd
<1>6. m + n = pos + (n - r)
  BY <1>3
<1>7. (pos + (n - r)) % n = 0
  BY <1>5, <1>6, Zenon
<1>8. ASSUME NEW q \in Nat, q >= pos, q % n = 0
      PROVE  q >= pos + (n - r)
  <2>1. PICK j \in Int : m = n * j
    BY <1>3, <1>4, Multiple
  <2>2. PICK k \in Int : q = n * k
    <3>1. q \in Int
      BY <1>8
    <3> QED BY <1>0, <1>8, <3>1, Multiple, Zenon
  <2> DEFINE x == n * j
             y == n * k
  <2>3. y >= x + r
    BY <1>3, <1>8, <2>1, <2>2
  <2>4. y >= x + n
    BY <1>3, <2>3, NextFactor
  <2>5. x \in Int /\ y \in Int /\ m = x /\ q = y
    BY <2>1, <2>2
  <2> HIDE DEF x, y
  <2> QED BY <1>3, <2>4, <2>5
<1> QED BY <1>1, <1>3, <1>7, <1>8, Zenon

\* UpdatePos returns the least aligned position from pos on at which the
\* request fits before Max, if there is one.
LEMMA UpdatePosLeast ==
  ASSUME NEW pos \in Index, Min <= pos, NEW size \in Index \ {0}, NEW align \in Index
  PROVE  LET p == UpdatePos(pos, size, align)
         IN  /\ p # NoPos => Aligned(p, align)
             /\ \A q \in Min .. Max : pos <= q /\ q + (size - 1) <= Max /\ Aligned(q, align) =>
                  p # NoPos /\ p <= q
<1> DEFINE a == Align(pos, align)
<1>0. pos \in Nat /\ size \in Nat /\ size >= 1 /\ align \in Nat /\ align <= IndexMax
        /\ pos <= IndexMax /\ Min \in Nat /\ Max \in Nat /\ IndexMax \in Nat /\ Max <= IndexMax
  BY IndexRange DEF Index
<1>1. a \in Nat
  BY AlignType DEF Index
<1>2. /\ a >= pos => Aligned(a, align)
      /\ \A q \in Min .. Max : pos <= q /\ Aligned(q, align) => pos <= a /\ a <= q
  <2>1. CASE 1 < align /\ pos % align # 0
    <3>1. align > 1
      BY <1>0, <2>1
    <3>2. PICK r \in 1 .. align - 1 :
            /\ r = pos % align
            /\ (pos + (align - r)) % align = 0
            /\ \A q \in Nat : q >= pos /\ q % align = 0 => q >= pos + (align - r)
      BY <1>0, <2>1, <3>1, NextMultiple, Zenon
    <3>4. a = AddIndex(pos, align - r)
      BY <2>1, <3>2, Zenon DEF Align
    <3> HIDE DEF a
    <3>5. a >= pos => a = pos + (align - r)
      BY <1>0, <3>2, <3>4 DEF AddIndex
    <3>6. ASSUME NEW q \in Min .. Max, pos <= q, Aligned(q, align)
          PROVE  pos <= a /\ a <= q
      <4>1. q \in Nat /\ q % align = 0
        BY <1>0, <2>1, <3>6 DEF Aligned
      <4>2. q >= pos + (align - r)
        BY <4>1, <3>2, <3>6
      <4> QED BY <1>0, <3>2, <4>1, <4>2, <3>4 DEF AddIndex
    <3> QED BY <3>2, <3>5, <3>6 DEF Aligned
  <2>2. CASE ~(1 < align) \/ pos % align = 0
    <3>1. a = pos
      BY <2>2 DEF Align
    <3>2. Aligned(pos, align)
      BY <1>0, <2>2 DEF Aligned
    <3> HIDE DEF a
    <3> QED BY <3>1, <3>2, <1>0
  <2> QED BY <2>1, <2>2
<1>3. UpdatePos(pos, size, align) =
        IF size - 1 > Max - Min \/ pos < Min \/ pos > Max - (size - 1)
        THEN NoPos ELSE IF a < pos \/ a > Max - (size - 1) THEN NoPos ELSE a
  BY DEF UpdatePos
<1> HIDE DEF a
<1>4. PICK p : p = UpdatePos(pos, size, align)
  OBVIOUS
<1>5. p # NoPos => p = a /\ a >= pos
  BY <1>0, <1>1, <1>3, <1>4
<1>6. ASSUME NEW q \in Min .. Max, pos <= q, q + (size - 1) <= Max, Aligned(q, align)
      PROVE  p # NoPos /\ p <= q
  <2>1. pos <= a /\ a <= q
    BY <1>2, <1>6
  <2>2. p = a
    BY <1>0, <1>1, <1>3, <1>4, <1>6, <2>1
  <2> QED BY <1>0, <1>1, <2>1, <2>2 DEF NoPos
<1> QED BY <1>2, <1>4, <1>5, <1>6

LEMMA IncPosLeast ==
  ASSUME NEW pos \in Index, Min <= pos, NEW size \in Index \ {0}, NEW align \in Index
  PROVE  LET p == IncPos(pos, 1, size, align)
         IN  /\ p # NoPos => Aligned(p, align)
             /\ \A q \in Min .. Max : pos < q /\ q + (size - 1) <= Max /\ Aligned(q, align) =>
                  p # NoPos /\ p <= q
<1>1. CASE pos = IndexMax
  <2>1. AddIndex(pos, 1) < pos
    BY <1>1, IndexRange DEF AddIndex, Index
  <2>2. IncPos(pos, 1, size, align) = NoPos
    BY <2>1 DEF IncPos
  <2>3. \A q \in Min .. Max : ~(pos < q)
    BY <1>1, IndexRange DEF Index
  <2> QED BY <2>2, <2>3
<1>2. CASE pos # IndexMax
  <2>1. AddIndex(pos, 1) = pos + 1 /\ pos + 1 \in Index /\ Min <= pos + 1 /\ pos \in Nat
    BY <1>2, IndexRange DEF AddIndex, Index
  <2>2. IncPos(pos, 1, size, align) = UpdatePos(pos + 1, size, align)
    BY <2>1 DEF IncPos
  <2>3. \A q \in Min .. Max : pos < q => pos + 1 <= q
    BY <2>1, IndexRange
  <2>4. PICK p : p = UpdatePos(pos + 1, size, align)
    OBVIOUS
  <2>5. /\ p # NoPos => Aligned(p, align)
        /\ \A q \in Min .. Max : pos + 1 <= q /\ q + (size - 1) <= Max /\ Aligned(q, align) =>
                  p # NoPos /\ p <= q
    BY <2>1, <2>4, UpdatePosLeast
  <2> QED BY <2>2, <2>3, <2>4, <2>5
<1> QED BY <1>1, <1>2

-----------------------------------------------------------------------------
(* Refinement of SpanStore: what the loops have established so far about the
   call in progress, in terms of the spans that it started from.           *)

From(c) == IF c.op = "Find" THEN c.start ELSE Min

\* The search of `c` has passed every position up to i, and none fits.
Passed(c, i) ==
  \A q \in Min .. Max : From(c) <= q /\ q <= i => ~Fits(spans, q, c.size, c.align)

ScanFacts == spans0 = spans /\ From(call) <= it.end /\ Passed(call, it.end)

\* The span s is what the call c must store, given the spans S.
MustStore(S, c, s) ==
  \/ /\ c.op = "Allocate"
     /\ IsFirstFit(S, s.start, Min, c.size, c.align)
     /\ s = Span(c.element, s.start, s.start + (c.size - 1))
  \/ /\ c.op = "AllocateUnbounded"
     /\ IsFirstTail(S, s.start, c.align)
     /\ s = Span(c.element, s.start, Max)
  \/ /\ c.op = "Insert"
     /\ FreeWindow(S, c.start, c.end)
     /\ s = Span(c.element, c.start, c.end)

AdvanceFacts == spans = spans0 \cup {new} /\ MustStore(spans0, call, new)

\* The erased spans collided with the window asked for, and the growing span
\* is the hull of them all.
ClobberFacts ==
  /\ call.op = "ForceInsertAndClobber"
  /\ spans \subseteq spans0 /\ Disjoint(spans0)
  /\ spans0 \ spans \subseteq Hit(spans0, call.start, call.end)
  /\ IsHull(spans0 \ spans, call.start, call.end, new.start, new.end)
  /\ new.element = call.element

CallFacts ==
  /\ pc = "done" <=> ret # NoResult
  /\ pc \in {"scan", "advance", "clobber"} => call \in Calls
  /\ pc = "scan" => ScanFacts
  /\ pc = "advance" => AdvanceFacts
  /\ pc = "clobber" => ClobberFacts

\* The spans that SpanStore sees.
Abs == IF pc \in {"idle", "done"} THEN spans ELSE spans0

\* The reference definitions are those of SpanStore.
LEMMA StoreOps ==
  /\ \A S, p, f, z, a : Store!IsFirstFit(S, p, f, z, a) = IsFirstFit(S, p, f, z, a)
  /\ \A S, f, z, a : Store!NoFit(S, f, z, a) = NoFit(S, f, z, a)
  /\ \A S, p, a : Store!IsFirstTail(S, p, a) = IsFirstTail(S, p, a)
  /\ \A S, a : Store!NoTail(S, a) = NoTail(S, a)
<1>1. \A s, lo, hi : Store!Overlaps(s, lo, hi) = Overlaps(s, lo, hi)
  BY Zenon DEF Store!Overlaps, Overlaps
<1>2. \A S, lo, hi : Store!FreeWindow(S, lo, hi) = FreeWindow(S, lo, hi)
  BY <1>1, Zenon DEF Store!FreeWindow, FreeWindow
<1>3. \A p, a : Store!Aligned(p, a) = Aligned(p, a)
  BY Zenon DEF Store!Aligned, Aligned
<1>4. \A S, p, z, a : Store!Fits(S, p, z, a) = Fits(S, p, z, a)
  BY <1>2, <1>3, Zenon DEF Store!Fits, Fits
<1>5. \A S, p, a : Store!FitsToMax(S, p, a) = FitsToMax(S, p, a)
  BY <1>2, <1>3, Zenon DEF Store!FitsToMax, FitsToMax
<1>6. \A S, p, f, z, a : Store!IsFirstFit(S, p, f, z, a) = IsFirstFit(S, p, f, z, a)
  BY <1>4 DEF Store!IsFirstFit, IsFirstFit
<1>7. \A S, f, z, a : Store!NoFit(S, f, z, a) = NoFit(S, f, z, a)
  BY <1>4, Zenon DEF Store!NoFit, NoFit
<1>8. \A S, p, a : Store!IsFirstTail(S, p, a) = IsFirstTail(S, p, a)
  BY <1>5, Zenon DEF Store!IsFirstTail, IsFirstTail
<1>9. \A S, a : Store!NoTail(S, a) = NoTail(S, a)
  BY <1>5, Zenon DEF Store!NoTail, NoTail
<1> QED BY <1>6, <1>7, <1>8, <1>9

LEMMA StoreSets ==
  /\ Store!Index = Index /\ Store!CallType = CallType /\ Store!NoResult = NoResult
  /\ \A c, p : Store!Success(c, p) = Success(c, p)
  /\ \A c : Store!Failure(c) = Failure(c)
  /\ \A c, s : Store!Conflict(c, s) = Conflict(c, s)
  /\ \A e, lo, hi : Store!Span(e, lo, hi) = Span(e, lo, hi)
  /\ \A S, lo, hi : Store!FreeWindow(S, lo, hi) = FreeWindow(S, lo, hi)
  /\ \A s, lo, hi : Store!Overlaps(s, lo, hi) = Overlaps(s, lo, hi)
  /\ \A S, lo, hi : Store!Hit(S, lo, hi) = Hit(S, lo, hi)
  /\ \A H, lo, hi, a, b : Store!IsHull(H, lo, hi, a, b) = IsHull(H, lo, hi, a, b)
<1>1. Store!Index = Index /\ Store!CallType = CallType
  BY Zenon DEF Store!Index, Index, Store!CallType, CallType
<1>2. /\ \A c, p : Store!Success(c, p) = Success(c, p)
      /\ \A c : Store!Failure(c) = Failure(c)
      /\ \A c, s : Store!Conflict(c, s) = Conflict(c, s)
      /\ \A e, lo, hi : Store!Span(e, lo, hi) = Span(e, lo, hi)
  BY Zenon DEF Store!Success, Success, Store!Failure, Failure, Store!Conflict, Conflict,
         Store!Span, Span, Store!NoPos, NoPos
<1>3. Store!NoResult = NoResult
  BY <1>2, Zenon DEF Store!NoResult, NoResult, Store!NoCall, NoCall, Store!Call, Call
<1>4. \A s, lo, hi : Store!Overlaps(s, lo, hi) = Overlaps(s, lo, hi)
  BY Zenon DEF Store!Overlaps, Overlaps
<1>5. \A S, lo, hi : Store!FreeWindow(S, lo, hi) = FreeWindow(S, lo, hi)
  BY <1>4, Zenon DEF Store!FreeWindow, FreeWindow
<1>6. \A S, lo, hi : Store!Hit(S, lo, hi) = Hit(S, lo, hi)
  BY <1>4, Zenon DEF Store!Hit, Hit
<1>7. \A H, lo, hi, a, b : Store!IsHull(H, lo, hi, a, b) = IsHull(H, lo, hi, a, b)
  BY Zenon DEF Store!IsHull, IsHull
<1> QED BY <1>1, <1>2, <1>3, <1>4, <1>5, <1>6, <1>7

\* A step that answers a call in one of the ways that SpanStore allows.
Answers(c) ==
  \/ /\ c.op = "Find"
     /\ \/ \E p \in Index : IsFirstFit(Abs, p, c.start, c.size, c.align) /\ ret' = Success(c, p)
        \/ NoFit(Abs, c.start, c.size, c.align) /\ ret' = Failure(c)
     /\ Abs' = Abs /\ unbounded' = unbounded
  \/ /\ c.op = "FindForUnbounded"
     /\ \/ \E p \in Index : IsFirstTail(Abs, p, c.align) /\ ret' = Success(c, p)
        \/ NoTail(Abs, c.align) /\ ret' = Failure(c)
     /\ Abs' = Abs /\ unbounded' = unbounded
  \/ /\ c.op = "Allocate"
     /\ \/ \E p \in Index :
             /\ IsFirstFit(Abs, p, Min, c.size, c.align)
             /\ Abs' = Abs \cup {Span(c.element, p, p + (c.size - 1))}
             /\ ret' = Success(c, p)
        \/ NoFit(Abs, Min, c.size, c.align) /\ ret' = Failure(c) /\ Abs' = Abs
     /\ unbounded' = unbounded
  \/ /\ c.op = "AllocateUnbounded"
     /\ \/ \E p \in Index :
             /\ IsFirstTail(Abs, p, c.align)
             /\ Abs' = Abs \cup {Span(c.element, p, Max)}
             /\ unbounded' = c.element
             /\ ret' = Success(c, p)
        \/ NoTail(Abs, c.align) /\ ret' = Failure(c) /\ Abs' = Abs /\ unbounded' = unbounded
  \/ /\ c.op = "Insert"
     /\ \/ /\ FreeWindow(Abs, c.start, c.end)
           /\ Abs' = Abs \cup {Span(c.element, c.start, c.end)}
           /\ ret' = Success(c, c.start)
        \/ /\ \E s \in Abs : Overlaps(s, c.start, c.end) /\ ret' = Conflict(c, s)
           /\ Abs' = Abs
     /\ unbounded' = unbounded
  \/ /\ c.op = "ForceInsertAndClobber"
     /\ \E lo, hi \in Index :
          /\ IsHull(Hit(Abs, c.start, c.end), c.start, c.end, lo, hi)
          /\ Abs' = (Abs \ Hit(Abs, c.start, c.end)) \cup {Span(c.element, lo, hi)}
     /\ ret' = Success(c, c.start)
     /\ unbounded' = unbounded
  \/ /\ c.op = "SetUnbounded"
     /\ unbounded' = c.element
     /\ ret' = Success(c, 0)
     /\ Abs' = Abs

LEMMA AnswersStep ==
  ASSUME NEW c \in CallType, Answers(c), ret = NoResult
  PROVE  Store!Next
<1>1. ret'.call = c
  BY DEF Answers, Success, Failure, Conflict
<1>2. SUFFICES \/ c.op = "Find" /\ Store!Find(c)
               \/ c.op = "FindForUnbounded" /\ Store!FindForUnbounded(c)
               \/ c.op = "Allocate" /\ Store!Allocate(c)
               \/ c.op = "AllocateUnbounded" /\ Store!AllocateUnbounded(c)
               \/ c.op = "Insert" /\ Store!Insert(c)
               \/ c.op = "ForceInsertAndClobber" /\ Store!ForceInsertAndClobber(c)
               \/ c.op = "SetUnbounded" /\ Store!SetUnbounded(c)
  BY <1>1, StoreSets, Zenon DEF Store!Next
<1> DEFINE A == Abs
           B == Abs'
<1>3. /\ A = IF pc \in {"idle", "done"} THEN spans ELSE spans0
      /\ B = IF pc' \in {"idle", "done"} THEN spans' ELSE spans0'
  BY DEF Abs
<1>4. CASE c.op = "Find"
  <2>1. /\ \/ \E p \in Index : IsFirstFit(A, p, c.start, c.size, c.align) /\ ret' = Success(c, p)
           \/ NoFit(A, c.start, c.size, c.align) /\ ret' = Failure(c)
        /\ B = A /\ unbounded' = unbounded
    BY <1>4 DEF Answers
  <2> HIDE DEF A, B
  <2>2. Store!Find(c)
    BY <1>3, <2>1, StoreSets, StoreOps, Zenon DEF Store!Find
  <2> QED BY <1>4, <2>2
<1>5. CASE c.op = "FindForUnbounded"
  <2>1. /\ \/ \E p \in Index : IsFirstTail(A, p, c.align) /\ ret' = Success(c, p)
           \/ NoTail(A, c.align) /\ ret' = Failure(c)
        /\ B = A /\ unbounded' = unbounded
    BY <1>5 DEF Answers
  <2> HIDE DEF A, B
  <2>2. Store!FindForUnbounded(c)
    BY <1>3, <2>1, StoreSets, StoreOps, Zenon DEF Store!FindForUnbounded
  <2> QED BY <1>5, <2>2
<1>6. CASE c.op = "Allocate"
  <2>1. /\ \/ \E p \in Index :
                /\ IsFirstFit(A, p, Min, c.size, c.align)
                /\ B = A \cup {Span(c.element, p, p + (c.size - 1))}
                /\ ret' = Success(c, p)
           \/ NoFit(A, Min, c.size, c.align) /\ ret' = Failure(c) /\ B = A
        /\ unbounded' = unbounded
    BY <1>6 DEF Answers
  <2> HIDE DEF A, B
  <2>2. Store!Allocate(c)
    BY <1>3, <2>1, StoreSets, StoreOps, Zenon DEF Store!Allocate
  <2> QED BY <1>6, <2>2
<1>7. CASE c.op = "AllocateUnbounded"
  <2>1. \/ \E p \in Index :
             /\ IsFirstTail(A, p, c.align)
             /\ B = A \cup {Span(c.element, p, Max)}
             /\ unbounded' = c.element
             /\ ret' = Success(c, p)
        \/ NoTail(A, c.align) /\ ret' = Failure(c) /\ B = A /\ unbounded' = unbounded
    BY <1>7 DEF Answers
  <2> HIDE DEF A, B
  <2>2. Store!AllocateUnbounded(c)
    BY <1>3, <2>1, StoreSets, StoreOps, Zenon DEF Store!AllocateUnbounded
  <2> QED BY <1>7, <2>2
<1>8. CASE c.op = "Insert"
  <2>1. /\ \/ /\ FreeWindow(A, c.start, c.end)
              /\ B = A \cup {Span(c.element, c.start, c.end)}
              /\ ret' = Success(c, c.start)
           \/ /\ \E s \in A : Overlaps(s, c.start, c.end) /\ ret' = Conflict(c, s)
              /\ B = A
        /\ unbounded' = unbounded
    BY <1>8 DEF Answers
  <2> HIDE DEF A, B
  <2>2. Store!Insert(c)
    BY <1>3, <2>1, StoreSets, Zenon DEF Store!Insert
  <2> QED BY <1>8, <2>2
<1>9. CASE c.op = "ForceInsertAndClobber"
  <2>1. /\ \E lo, hi \in Index :
             /\ IsHull(Hit(A, c.start, c.end), c.start, c.end, lo, hi)
             /\ B = (A \ Hit(A, c.start, c.end)) \cup {Span(c.element, lo, hi)}
        /\ ret' = Success(c, c.start)
        /\ unbounded' = unbounded
    BY <1>9 DEF Answers
  <2> HIDE DEF A, B
  <2>2. Store!ForceInsertAndClobber(c)
    BY <1>3, <2>1, StoreSets, Zenon DEF Store!ForceInsertAndClobber
  <2> QED BY <1>9, <2>2
<1>10. CASE c.op = "SetUnbounded"
  <2>1. unbounded' = c.element /\ ret' = Success(c, 0) /\ B = A
    BY <1>10 DEF Answers
  <2> HIDE DEF A, B
  <2>2. Store!SetUnbounded(c)
    BY <1>3, <2>1, StoreSets, Zenon DEF Store!SetUnbounded
  <2> QED BY <1>10, <2>2
<1> QED BY <1>4, <1>5, <1>6, <1>7, <1>8, <1>9, <1>10 DEF Answers

-----------------------------------------------------------------------------
(* What the searches skip.                                                 *)

\* A window that reaches a span is not free.
LEMMA Blocked ==
  ASSUME NEW S \in SUBSET SpanType, NEW s \in S, NEW q \in Int, NEW size \in Index \ {0},
         NEW align, q <= s.end, s.start <= q + (size - 1)
  PROVE  ~Fits(S, q, size, align)
BY IndexRange DEF SpanType, Index, Fits, FreeWindow, Overlaps

\* Nothing fits where something is stored.
LEMMA TakenUnfit ==
  ASSUME NEW S \in SUBSET SpanType, NEW q \in Covered(S), NEW size \in Index \ {0}, NEW align
  PROVE  ~Fits(S, q, size, align) /\ ~FitsToMax(S, q, align)
<1>1. PICK s \in S : q \in Min .. Max /\ s.start <= q /\ q <= s.end
  BY DEF Covered
<1>2. s.start \in Int /\ s.end \in Int /\ size \in Nat /\ size >= 1
        /\ q \in Int /\ Max \in Int /\ q <= Max
  BY <1>1, IndexRange DEF SpanType, Index
<1>3. ~Fits(S, q, size, align)
  BY <1>1, <1>2 DEF Fits, FreeWindow, Overlaps
<1>4. ~FitsToMax(S, q, align)
  BY <1>1, <1>2 DEF FitsToMax, FreeWindow, Overlaps
<1> QED BY <1>3, <1>4

\* Starting at m_FirstFree misses no window.
LEMMA StartOfSearch ==
  ASSUME IInv, pc = "idle", NEW start \in Index, NEW size \in Index \ {0}, NEW align \in Index,
         NEW from, from = IF start < firstFree THEN firstFree ELSE start,
         NEW pos, pos = UpdatePos(from, size, align)
  PROVE  /\ pos # NoPos => /\ pos \in Index /\ pos \in Min .. Max /\ pos + (size - 1) <= Max
                           /\ from <= pos /\ start <= pos /\ Aligned(pos, align)
         /\ \A q \in Min .. Max : start <= q /\ Fits(spans, q, size, align) =>
              pos # NoPos /\ pos <= q
<1>1. /\ firstFree \in Index /\ Min <= firstFree
      /\ \A i \in Min .. Max : i < firstFree => i \in Covered(spans)
      /\ spans \in SUBSET SpanType
  BY DEF IInv, TypeOK, FirstFreeSound, Taken
<1>2. from \in Index /\ Min <= from /\ start <= from
  BY <1>1, IndexRange DEF Index
<1>3. ASSUME pos # NoPos
      PROVE  /\ pos \in Index /\ pos \in Min .. Max /\ pos + (size - 1) <= Max
             /\ from <= pos /\ start <= pos /\ Aligned(pos, align)
  <2>1. pos \in Index /\ Min <= pos /\ from <= pos /\ pos + (size - 1) <= Max
    BY <1>2, <1>3, UpdatePosRange
  <2>2. Aligned(pos, align)
    BY <1>2, <1>3, UpdatePosLeast
  <2> QED BY <1>2, <2>1, <2>2, IndexRange DEF Index
<1>4. ASSUME NEW q \in Min .. Max, start <= q, Fits(spans, q, size, align)
      PROVE  pos # NoPos /\ pos <= q
  <2>1. ~(q < firstFree)
    BY <1>1, <1>4, TakenUnfit
  <2>2. from <= q
    BY <1>1, <1>4, <2>1, IndexRange DEF Index
  <2>3. q + (size - 1) <= Max /\ Aligned(q, align)
    BY <1>4 DEF Fits
  <2> QED BY <1>2, <2>2, <2>3, UpdatePosLeast
<1> QED BY <1>3, <1>4

\* So does going on behind a span.
LEMMA GoingOn ==
  ASSUME IInv, NEW i \in spans, NEW size \in Index \ {0}, NEW align \in Index,
         NEW pos, pos = IncPos(i.end, 1, size, align)
  PROVE  /\ pos # NoPos => /\ pos \in Index /\ pos \in Min .. Max /\ pos + (size - 1) <= Max
                           /\ i.end < pos /\ Aligned(pos, align)
         /\ \A q \in Min .. Max :
              i.end < q /\ q + (size - 1) <= Max /\ Aligned(q, align) => pos # NoPos /\ pos <= q
<1>1. i.end \in Index /\ Min <= i.end
  BY IndexRange DEF IInv, TypeOK, SpansDisjoint, Disjoint, SpanType, Index
<1>2. ASSUME pos # NoPos
      PROVE  /\ pos \in Index /\ pos \in Min .. Max /\ pos + (size - 1) <= Max
             /\ i.end < pos /\ Aligned(pos, align)
  <2>1. pos \in Index /\ Min <= pos /\ i.end < pos /\ pos + (size - 1) <= Max
    BY <1>1, <1>2, IncPosRange
  <2>2. Aligned(pos, align)
    BY <1>1, <1>2, IncPosLeast
  <2> QED BY <2>1, <2>2, IndexRange DEF Index
<1>3. \A q \in Min .. Max :
        i.end < q /\ q + (size - 1) <= Max /\ Aligned(q, align) => pos # NoPos /\ pos <= q
  BY <1>1, IncPosLeast
<1> QED BY <1>2, <1>3

\* The place behind the last span is the first tail.
LEMMA TailSearch ==
  ASSUME IInv, NEW align \in Index, NEW pos,
         \/ spans = {} /\ pos = UpdatePos(Min, 1, align)
         \/ \E last \in spans : IsLast(spans, last) /\ pos = IncPos(last.end, 1, 1, align)
  PROVE  /\ pos # NoPos => pos \in Index /\ IsFirstTail(spans, pos, align)
         /\ pos = NoPos => NoTail(spans, align)
<1>0. 1 \in Index \ {0} /\ Min \in Index /\ Max \in Index /\ spans \in SUBSET SpanType
  BY IndexRange DEF Index, IInv, TypeOK
<1>1. CASE spans = {} /\ pos = UpdatePos(Min, 1, align)
  <2>1. pos # NoPos => pos \in Index /\ Min <= pos /\ pos + (1 - 1) <= Max /\ Aligned(pos, align)
    BY <1>0, <1>1, UpdatePosRange, UpdatePosLeast, IndexRange
  <2>2. \A q \in Min .. Max : Min <= q /\ q + (1 - 1) <= Max /\ Aligned(q, align) =>
                                pos # NoPos /\ pos <= q
    BY <1>0, <1>1, UpdatePosLeast, IndexRange
  <2>3. \A q \in Min .. Max : FitsToMax(spans, q, align) => pos # NoPos /\ pos <= q
    BY <2>2, IndexRange DEF FitsToMax
  <2>4. pos # NoPos => FitsToMax(spans, pos, align)
    BY <1>1, <2>1, IndexRange DEF FitsToMax, FreeWindow, Index
  <2> QED BY <2>1, <2>3, <2>4, IndexRange DEF IsFirstTail, NoTail, Index
<1>2. ASSUME NEW last \in spans, IsLast(spans, last), pos = IncPos(last.end, 1, 1, align)
      PROVE  /\ pos # NoPos => pos \in Index /\ IsFirstTail(spans, pos, align)
             /\ pos = NoPos => NoTail(spans, align)
  <2>1. /\ pos # NoPos => /\ pos \in Index /\ pos \in Min .. Max
                          /\ last.end < pos /\ Aligned(pos, align)
        /\ \A q \in Min .. Max :
              last.end < q /\ q + (1 - 1) <= Max /\ Aligned(q, align) => pos # NoPos /\ pos <= q
    BY <1>0, <1>2, GoingOn
  <2>2. /\ last.start \in Int /\ last.end \in Int /\ last.start <= last.end /\ last.end <= Max
    BY IndexRange DEF IInv, TypeOK, SpansDisjoint, Disjoint, SpanType, Index
  <2>3. ASSUME NEW q \in Min .. Max, FitsToMax(spans, q, align)
        PROVE  pos # NoPos /\ pos <= q
    <3>1. last.end < q
      BY <2>2, <2>3, IndexRange DEF FitsToMax, FreeWindow, Overlaps
    <3> QED BY <2>1, <2>3, <3>1, IndexRange DEF FitsToMax
  <2>4. ASSUME pos # NoPos
        PROVE  FitsToMax(spans, pos, align)
    <3>1. \A s \in spans : s.end \in Int /\ s.start \in Int /\ s.start <= s.end /\ s.end <= last.end
      BY <1>2, <2>2 DEF IsLast, Precedes, IInv, TypeOK, SpansDisjoint, Disjoint, SpanType, Index
    <3>2. pos \in Int
      BY <2>1, <2>4
    <3>3. FreeWindow(spans, pos, Max)
      BY <2>1, <2>2, <2>4, <3>1, <3>2 DEF FreeWindow, Overlaps
    <3> QED BY <2>1, <2>4, <3>3 DEF FitsToMax
  <2> QED BY <2>1, <2>3, <2>4, IndexRange DEF IsFirstTail, NoTail, Index
<1> QED BY <1>1, <1>2

-----------------------------------------------------------------------------
(* Each action is a step of SpanStore, or none that it sees.               *)

StoreStep == Store!Next \/ (Abs' = Abs /\ unbounded' = unbounded /\ ret' = ret)

LEMMA RealCall ==
  ASSUME NEW c \in Calls
  PROVE  c \in CallType /\ c # NoCall /\ c.op # "None"
<1>1. c.op # "None"
  BY DEF Calls, Call
<1> QED BY <1>1, CallArgs DEF NoCall, Call

\* Returning ends the call.
LEMMA Returning ==
  ASSUME NEW c \in Calls, NEW r, r.call = c, Return(r)
  PROVE  CallFacts' /\ Abs' = spans' /\ ret' = r
<1>1. r # NoResult
  BY RealCall DEF NoResult, Failure
<1>2. pc' = "done" /\ ret' = r
  BY DEF Return
<1> QED BY <1>1, <1>2 DEF CallFacts, Abs

\* Storing what must be stored answers the call, now or at the end of
\* AdvanceFirstFree.
LEMMA Storing ==
  ASSUME NEW c \in Calls, NEW s, MustStore(Abs, c, s), s.start \in Index, Abs' = Abs \cup {s},
         ret' = Success(c, s.start),
         unbounded' = IF c.op = "AllocateUnbounded" THEN c.element ELSE unbounded
  PROVE  Answers(c)
<1>1. CASE c.op = "Allocate"
  <2>1. IsFirstFit(Abs, s.start, Min, c.size, c.align)
          /\ s = Span(c.element, s.start, s.start + (c.size - 1))
    BY <1>1 DEF MustStore
  <2> HIDE DEF Abs
  <2> QED BY <1>1, <2>1 DEF Answers
<1>2. CASE c.op = "AllocateUnbounded"
  <2>1. IsFirstTail(Abs, s.start, c.align) /\ s = Span(c.element, s.start, Max)
    BY <1>2 DEF MustStore
  <2> QED BY <1>2, <2>1 DEF Answers
<1>3. CASE c.op = "Insert"
  <2>1. FreeWindow(Abs, c.start, c.end) /\ s = Span(c.element, c.start, c.end)
    BY <1>3 DEF MustStore
  <2>2. s.start = c.start
    BY <2>1 DEF Span
  <2> QED BY <1>3, <2>1, <2>2 DEF Answers
<1> QED BY <1>1, <1>2, <1>3 DEF MustStore

LEMMA EmplaceStep ==
  ASSUME CallFacts, pc = "idle", NEW c \in Calls, NEW s, MustStore(spans, c, s),
         s.start \in Index, EmplaceAndAdvance(c, s)
  PROVE  CallFacts' /\ StoreStep
<1>1. Abs = spans /\ ret = NoResult /\ spans' = spans \cup {s}
  BY DEF Abs, CallFacts, EmplaceAndAdvance
<1>2. CASE HoldsFirstFree(s)
  <2>1. Goto("advance", c, s, s) /\ unbounded' = unbounded
    BY <1>2 DEF EmplaceAndAdvance
  <2>2. /\ pc' = "advance" /\ call' = c /\ new' = s /\ spans0' = spans /\ ret' = NoResult
    BY <1>1, <2>1 DEF Goto
  <2>3. AdvanceFacts'
    BY <1>1, <2>2 DEF AdvanceFacts, MustStore, IsFirstFit, IsFirstTail, Fits, FitsToMax, FreeWindow
  <2>4. CallFacts'
    BY <2>2, <2>3 DEF CallFacts
  <2>5. Abs' = Abs
    BY <1>1, <2>2 DEF Abs
  <2> QED BY <1>1, <2>1, <2>2, <2>4, <2>5 DEF StoreStep
<1>3. CASE ~HoldsFirstFree(s)
  <2>1. /\ Return(Success(c, s.start))
        /\ unbounded' = IF c.op = "AllocateUnbounded" THEN c.element ELSE unbounded
    BY <1>3 DEF EmplaceAndAdvance, ReturnStored
  <2>2. Success(c, s.start).call = c
    BY DEF Success
  <2>3. CallFacts' /\ Abs' = spans' /\ ret' = Success(c, s.start)
    BY <2>1, <2>2, Returning
  <2>4. Answers(c)
    BY <1>1, <2>1, <2>3, Storing
  <2> QED BY <1>1, <2>3, <2>4, RealCall, AnswersStep DEF StoreStep
<1> QED BY <1>2, <1>3

\* A call that changes nothing answers at once.
LEMMA AnswerNow ==
  ASSUME CallFacts, pc # "done", NEW c \in Calls, NEW r, r.call = c, Return(r), Answers(c)
  PROVE  CallFacts' /\ StoreStep
<1>1. ret = NoResult
  BY DEF CallFacts
<1>2. CallFacts'
  BY Returning
<1> QED BY <1>1, <1>2, RealCall, AnswersStep DEF StoreStep

LEMMA EnterScan ==
  ASSUME CallFacts, pc \in {"idle", "scan"}, NEW c \in Calls, NEW n \in spans,
         pc = "scan" => spans0 = spans, From(c) <= n.end, Passed(c, n.end),
         Goto("scan", c, n, NoSpan), Keep
  PROVE  CallFacts' /\ StoreStep
<1>1. /\ pc' = "scan" /\ call' = c /\ it' = n /\ spans0' = spans /\ ret' = ret /\ ret = NoResult
      /\ spans' = spans /\ unbounded' = unbounded
  BY DEF Goto, Keep, CallFacts
<1>2. \A q \in Min .. Max : From(c) <= q /\ q <= n.end => ~Fits(spans', q, c.size, c.align)
  BY <1>1 DEF Passed
<1>3. ScanFacts'
  BY <1>1, <1>2 DEF ScanFacts, Passed, From
<1>4. CallFacts'
  BY <1>1, <1>3 DEF CallFacts
<1>5. Abs' = Abs
  BY <1>1 DEF Abs
<1> QED BY <1>1, <1>4, <1>5 DEF StoreStep

LEMMA FindStep ==
  ASSUME IInv, CallFacts, pc = "idle", NEW c \in Calls, c.op = "Find", Find(c)
  PROVE  CallFacts' /\ StoreStep
<1> DEFINE from == IF c.start < firstFree THEN firstFree ELSE c.start
<1>0. c.start \in Index /\ c.size \in Index \ {0} /\ c.align \in Index /\ c \in CallType
  BY CallArgs DEF CallType
<1>1. PICK pos : pos = UpdatePos(from, c.size, c.align)
  OBVIOUS
<1>2. /\ pos # NoPos => /\ pos \in Index /\ pos \in Min .. Max /\ pos + (c.size - 1) <= Max
                        /\ from <= pos /\ c.start <= pos /\ Aligned(pos, c.align)
      /\ \A q \in Min .. Max : c.start <= q /\ Fits(spans, q, c.size, c.align) =>
           pos # NoPos /\ pos <= q
  BY <1>0, <1>1, StartOfSearch
<1>3. Abs = spans
  BY DEF Abs
<1>4. CASE pos = NoPos /\ Return(Failure(c)) /\ Keep
  <2>1. NoFit(spans, c.start, c.size, c.align)
    BY <1>2, <1>4 DEF NoFit
  <2>2. Failure(c).call = c
    BY DEF Failure
  <2>3. Abs' = spans' /\ ret' = Failure(c) /\ spans' = spans /\ unbounded' = unbounded
    BY <1>4, <2>2, Returning DEF Keep
  <2>4. Answers(c)
    BY <1>3, <2>1, <2>3 DEF Answers
  <2> QED BY <1>4, <2>2, <2>4, AnswerNow
<1>5. CASE pos # NoPos /\ FreeWindow(spans, pos, pos + (c.size - 1))
             /\ Return(Success(c, pos)) /\ Keep
  <2>1. pos \in Index /\ IsFirstFit(spans, pos, c.start, c.size, c.align)
    <3>1. Fits(spans, pos, c.size, c.align)
      BY <1>2, <1>5 DEF Fits
    <3>2. \A q \in Min .. Max : q < pos => ~(pos <= q)
      BY <1>2, <1>5, IndexRange DEF Index
    <3> QED BY <1>2, <1>5, <3>1, <3>2 DEF IsFirstFit
  <2>2. Success(c, pos).call = c
    BY DEF Success
  <2>3. Abs' = spans' /\ ret' = Success(c, pos) /\ spans' = spans /\ unbounded' = unbounded
    BY <1>5, <2>2, Returning DEF Keep
  <2>4. Answers(c)
    BY <1>3, <2>1, <2>3 DEF Answers
  <2> QED BY <1>5, <2>2, <2>4, AnswerNow
<1>6. ASSUME pos # NoPos, Keep,
             NEW next \in spans, ~(next.end < pos), ~(pos + (c.size - 1) < next.start),
             Goto("scan", c, next, NoSpan)
      PROVE  CallFacts' /\ StoreStep
  <2>1. spans \in SUBSET SpanType /\ next.start \in Int /\ next.end \in Int
    BY IndexRange DEF IInv, TypeOK, SpanType, Index
  <2>2. ASSUME NEW q \in Min .. Max, From(c) <= q, q <= next.end, Fits(spans, q, c.size, c.align)
        PROVE  FALSE
    <3>1. pos <= q /\ pos \in Int /\ q \in Int /\ c.size \in Int
      BY <1>0, <1>2, <2>2, <1>6, IndexRange DEF From, Index
    <3>2. next.start <= q + (c.size - 1)
      BY <1>6, <2>1, <3>1
    <3> QED BY <1>0, <2>1, <2>2, <3>1, <3>2, Blocked
  <2>3. Passed(c, next.end)
    BY <2>2 DEF Passed
  <2>4. From(c) <= next.end
    BY <1>0, <1>2, <1>6, <2>1, IndexRange DEF From, Index
  <2> QED BY <1>6, <2>3, <2>4, EnterScan
<1>7. \/ pos = NoPos /\ Return(Failure(c)) /\ Keep
      \/ pos # NoPos /\ FreeWindow(spans, pos, pos + (c.size - 1)) /\ Return(Success(c, pos)) /\ Keep
      \/ /\ pos # NoPos
         /\ \E next \in spans : /\ ~(next.end < pos) /\ ~(pos + (c.size - 1) < next.start)
                                /\ Goto("scan", c, next, NoSpan)
         /\ Keep
  BY <1>1 DEF Find, IsLowerBound
<1> QED BY <1>4, <1>5, <1>6, <1>7

LEMMA FindForUnboundedStep ==
  ASSUME IInv, CallFacts, pc = "idle", NEW c \in Calls, c.op = "FindForUnbounded",
         FindForUnbounded(c)
  PROVE  CallFacts' /\ StoreStep
<1>0. c.align \in Index
  BY CallArgs DEF CallType
<1>1. PICK pos : /\ \/ spans = {} /\ pos = UpdatePos(Min, 1, c.align)
                    \/ \E last \in spans : IsLast(spans, last) /\ pos = IncPos(last.end, 1, 1, c.align)
                 /\ Return(IF pos = NoPos THEN Failure(c) ELSE Success(c, pos))
                 /\ Keep
  BY DEF FindForUnbounded
<1>2. /\ pos # NoPos => pos \in Index /\ IsFirstTail(spans, pos, c.align)
      /\ pos = NoPos => NoTail(spans, c.align)
  BY <1>0, <1>1, TailSearch
<1>3. PICK r : r = IF pos = NoPos THEN Failure(c) ELSE Success(c, pos)
  OBVIOUS
<1>4. r.call = c /\ Return(r)
  BY <1>1, <1>3 DEF Failure, Success
<1>5. Abs' = spans' /\ ret' = r /\ spans' = spans /\ unbounded' = unbounded /\ Abs = spans
  BY <1>1, <1>4, Returning DEF Keep, Abs
<1>6. Answers(c)
  BY <1>2, <1>3, <1>5 DEF Answers
<1> QED BY <1>4, <1>6, AnswerNow

LEMMA AllocateStep ==
  ASSUME IInv, CallFacts, pc = "idle", NEW c \in Calls, c.op = "Allocate", Allocate(c)
  PROVE  CallFacts' /\ StoreStep
<1>0. /\ c.size \in Index \ {0} /\ c.align \in Index /\ c \in CallType
      /\ Min \in Index /\ firstFree = (IF Min < firstFree THEN firstFree ELSE Min)
      /\ spans \in SUBSET SpanType
  BY CallArgs, IndexRange DEF CallType, IInv, FirstFreeSound, TypeOK, Index
<1>1. PICK pos : pos = UpdatePos(firstFree, c.size, c.align)
  OBVIOUS
<1>2. /\ pos # NoPos => /\ pos \in Index /\ pos \in Min .. Max /\ pos + (c.size - 1) <= Max
                        /\ Min <= pos /\ Aligned(pos, c.align)
      /\ \A q \in Min .. Max : Min <= q /\ Fits(spans, q, c.size, c.align) =>
           pos # NoPos /\ pos <= q
  BY <1>0, <1>1, StartOfSearch
<1>3. Abs = spans
  BY DEF Abs
<1>4. CASE (full \/ pos = NoPos) /\ Return(Failure(c)) /\ Keep
  <2>1. NoFit(spans, Min, c.size, c.align)
    <3>1. CASE full
      <4>1. \A q \in Min .. Max : q \in Covered(spans)
        BY <3>1 DEF IInv, FullSound, Taken
      <4> QED BY <1>0, <4>1, TakenUnfit DEF NoFit
    <3>2. CASE pos = NoPos
      BY <1>2, <3>2 DEF NoFit
    <3> QED BY <1>4, <3>1, <3>2
  <2>2. Failure(c).call = c
    BY DEF Failure
  <2>3. Abs' = spans' /\ ret' = Failure(c) /\ spans' = spans /\ unbounded' = unbounded
    BY <1>4, <2>2, Returning DEF Keep
  <2>4. Answers(c)
    BY <1>3, <2>1, <2>3 DEF Answers
  <2> QED BY <1>4, <2>2, <2>4, AnswerNow
<1>5. CASE /\ pos # NoPos
           /\ FreeWindow(spans, pos, pos + (c.size - 1))
           /\ EmplaceAndAdvance(c, Span(c.element, pos, pos + (c.size - 1)))
  <2>1. pos \in Index /\ IsFirstFit(spans, pos, Min, c.size, c.align)
    <3>1. Fits(spans, pos, c.size, c.align)
      BY <1>2, <1>5 DEF Fits
    <3>2. \A q \in Min .. Max : q < pos => ~(pos <= q)
      BY <1>2, <1>5, IndexRange DEF Index
    <3> QED BY <1>2, <1>5, <3>1, <3>2 DEF IsFirstFit
  <2>2. PICK s : s = Span(c.element, pos, pos + (c.size - 1))
    OBVIOUS
  <2>3. s.start = pos
    BY <2>2 DEF Span
  <2>4. MustStore(spans, c, s)
    BY <2>1, <2>2, <2>3 DEF MustStore
  <2> QED BY <1>5, <2>1, <2>2, <2>3, <2>4, EmplaceStep
<1>6. ASSUME pos # NoPos, Keep,
             NEW s \in spans, Overlaps(s, pos, pos + (c.size - 1)), Goto("scan", c, s, NoSpan)
      PROVE  CallFacts' /\ StoreStep
  <2>1. s.start \in Int /\ s.end \in Int /\ ~(pos + (c.size - 1) < s.start)
    BY <1>6, IndexRange DEF IInv, TypeOK, SpanType, Index, Overlaps
  <2>2. ASSUME NEW q \in Min .. Max, From(c) <= q, q <= s.end, Fits(spans, q, c.size, c.align)
        PROVE  FALSE
    <3>1. pos <= q /\ pos \in Int /\ q \in Int /\ c.size \in Int
      BY <1>0, <1>2, <2>2, <1>6, IndexRange DEF Index
    <3>2. s.start <= q + (c.size - 1)
      BY <2>1, <3>1
    <3> QED BY <1>0, <2>1, <2>2, <3>1, <3>2, Blocked
  <2>3. Passed(c, s.end)
    BY <2>2 DEF Passed
  <2>4. From(c) <= s.end
    BY <2>1, IndexRange DEF From, IInv, SpansDisjoint, Disjoint
  <2> QED BY <1>6, <2>3, <2>4, EnterScan
<1>7. \/ (full \/ pos = NoPos) /\ Return(Failure(c)) /\ Keep
      \/ /\ pos # NoPos
         /\ FreeWindow(spans, pos, pos + (c.size - 1))
         /\ EmplaceAndAdvance(c, Span(c.element, pos, pos + (c.size - 1)))
      \/ /\ pos # NoPos
         /\ \E s \in spans : Overlaps(s, pos, pos + (c.size - 1)) /\ Goto("scan", c, s, NoSpan)
         /\ Keep
  BY <1>1 DEF Allocate
<1> QED BY <1>4, <1>5, <1>6, <1>7

LEMMA AllocateUnboundedStep ==
  ASSUME IInv, CallFacts, pc = "idle", NEW c \in Calls, c.op = "AllocateUnbounded",
         AllocateUnbounded(c)
  PROVE  CallFacts' /\ StoreStep
<1>0. c.align \in Index /\ spans \in SUBSET SpanType /\ 1 \in Index \ {0}
  BY CallArgs, IndexRange DEF CallType, IInv, TypeOK, Index
<1>1. ASSUME NoTail(spans, c.align), Return(Failure(c)), Keep
      PROVE  CallFacts' /\ StoreStep
  <2>1. Failure(c).call = c
    BY DEF Failure
  <2>2. Abs' = spans' /\ ret' = Failure(c) /\ spans' = spans /\ unbounded' = unbounded
          /\ Abs = spans
    BY <1>1, <2>1, Returning DEF Keep, Abs
  <2>3. Answers(c)
    BY <1>1, <2>2 DEF Answers
  <2> QED BY <1>1, <2>1, <2>3, AnswerNow
<1>2. CASE full /\ Return(Failure(c)) /\ Keep
  <2>1. \A q \in Min .. Max : q \in Covered(spans)
    BY <1>2 DEF IInv, FullSound, Taken
  <2>2. NoTail(spans, c.align)
    BY <1>0, <2>1, TakenUnfit DEF NoTail
  <2> QED BY <1>1, <1>2, <2>2
<1>3. ASSUME NEW pos,
             \/ spans = {} /\ pos = UpdatePos(Min, 1, c.align)
             \/ \E last \in spans : IsLast(spans, last) /\ pos = IncPos(last.end, 1, 1, c.align),
             IF pos # NoPos /\ FreeWindow(spans, pos, Max)
             THEN EmplaceAndAdvance(c, Span(c.element, pos, Max))
             ELSE Return(Failure(c)) /\ Keep
      PROVE  CallFacts' /\ StoreStep
  <2>1. /\ pos # NoPos => pos \in Index /\ IsFirstTail(spans, pos, c.align)
        /\ pos = NoPos => NoTail(spans, c.align)
    BY <1>0, <1>3, TailSearch
  <2>2. CASE pos = NoPos
    BY <1>1, <1>3, <2>1, <2>2
  <2>3. CASE pos # NoPos
    <3>1. FreeWindow(spans, pos, Max)
      BY <2>1, <2>3 DEF IsFirstTail, FitsToMax
    <3>2. PICK s : s = Span(c.element, pos, Max)
      OBVIOUS
    <3>3. s.start = pos /\ EmplaceAndAdvance(c, s)
      BY <1>3, <2>3, <3>1, <3>2 DEF Span
    <3>4. MustStore(spans, c, s)
      BY <2>1, <2>3, <3>2, <3>3 DEF MustStore
    <3> QED BY <2>1, <2>3, <3>3, <3>4, EmplaceStep
  <2> QED BY <2>2, <2>3
<1>4. \/ full /\ Return(Failure(c)) /\ Keep
      \/ \E pos : /\ \/ spans = {} /\ pos = UpdatePos(Min, 1, c.align)
                     \/ \E last \in spans : IsLast(spans, last) /\ pos = IncPos(last.end, 1, 1, c.align)
                  /\ IF pos # NoPos /\ FreeWindow(spans, pos, Max)
                     THEN EmplaceAndAdvance(c, Span(c.element, pos, Max))
                     ELSE Return(Failure(c)) /\ Keep
  BY Zenon DEF AllocateUnbounded
<1> QED BY <1>2, <1>3, <1>4

LEMMA InsertStep ==
  ASSUME IInv, CallFacts, pc = "idle", NEW c \in Calls, c.op = "Insert", Insert(c)
  PROVE  CallFacts' /\ StoreStep
<1>0. c.start \in Index
  BY CallArgs DEF CallType
<1>1. CASE /\ FreeWindow(spans, c.start, c.end)
           /\ EmplaceAndAdvance(c, Span(c.element, c.start, c.end))
  <2>1. PICK s : s = Span(c.element, c.start, c.end)
    OBVIOUS
  <2>2. s.start = c.start /\ MustStore(spans, c, s)
    BY <1>1, <2>1 DEF MustStore, Span
  <2> QED BY <1>0, <1>1, <2>1, <2>2, EmplaceStep
<1>2. ASSUME NEW s \in spans, Overlaps(s, c.start, c.end), Return(Conflict(c, s)), Keep
      PROVE  CallFacts' /\ StoreStep
  <2>1. Conflict(c, s).call = c
    BY DEF Conflict
  <2>2. Abs' = spans' /\ ret' = Conflict(c, s) /\ spans' = spans /\ unbounded' = unbounded
          /\ Abs = spans
    BY <1>2, <2>1, Returning DEF Keep, Abs
  <2>3. Answers(c)
    BY <1>2, <2>2 DEF Answers
  <2> QED BY <1>2, <2>1, <2>3, AnswerNow
<1> QED BY <1>1, <1>2 DEF Insert

LEMMA ForceInsertStep ==
  ASSUME IInv, CallFacts, pc = "idle", NEW c \in Calls, c.op = "ForceInsertAndClobber",
         ForceInsertAndClobber(c)
  PROVE  CallFacts' /\ StoreStep
<1>0. c.start \in Int /\ c.end \in Int
  BY CallArgs, IndexRange DEF CallType, Index
<1>1. /\ pc' = "clobber" /\ call' = c /\ new' = Span(c.element, c.start, c.end)
      /\ spans0' = spans /\ ret' = ret /\ spans' = spans /\ unbounded' = unbounded /\ ret = NoResult
  BY DEF ForceInsertAndClobber, Goto, Keep, CallFacts
<1>2. new'.start = c.start /\ new'.end = c.end /\ new'.element = c.element
  BY <1>1 DEF Span
<1>3. Disjoint(spans)
  BY DEF IInv, SpansDisjoint
<1>4. spans0' \ spans' = {} /\ spans' \subseteq spans0' /\ Disjoint(spans0)'
  BY <1>1, <1>3 DEF Disjoint
<1>5. IsHull({}, c.start, c.end, c.start, c.end)
  BY <1>0 DEF IsHull
<1>6. IsHull(spans0 \ spans, call.start, call.end, new.start, new.end)'
  BY <1>1, <1>2, <1>4, <1>5 DEF IsHull
<1>7. ClobberFacts'
  BY <1>1, <1>2, <1>4, <1>6 DEF ClobberFacts
<1>8. CallFacts'
  BY <1>1, <1>7 DEF CallFacts
<1>9. Abs' = Abs
  BY <1>1 DEF Abs
<1> QED BY <1>1, <1>8, <1>9 DEF StoreStep

LEMMA SetUnboundedStep ==
  ASSUME CallFacts, pc = "idle", NEW c \in Calls, c.op = "SetUnbounded", SetUnbounded(c)
  PROVE  CallFacts' /\ StoreStep
<1>1. Success(c, 0).call = c /\ Return(Success(c, 0))
  BY DEF Success, SetUnbounded
<1>2. Abs' = spans' /\ ret' = Success(c, 0) /\ spans' = spans /\ unbounded' = c.element
        /\ Abs = spans
  BY <1>1, Returning DEF SetUnbounded, Abs
<1>3. Answers(c)
  BY <1>2 DEF Answers
<1> QED BY <1>1, <1>3, AnswerNow

LEMMA ScanStepStep ==
  ASSUME IInv, CallFacts, ScanStep
  PROVE  CallFacts' /\ StoreStep
<1>0. /\ pc = "scan" /\ call \in Calls /\ call.op \in {"Find", "Allocate"} /\ it \in spans
      /\ spans0 = spans /\ Passed(call, it.end) /\ spans \in SUBSET SpanType
      /\ call.size \in Index \ {0} /\ call.align \in Index /\ From(call) <= it.end
      /\ UNCHANGED <<firstFree, full, unbounded>> /\ ret = NoResult
  BY CallArgs DEF ScanStep, CallFacts, ScanFacts, IInv, LoopOK, ScanOK, TypeOK, CallType, Keep
<1>1. PICK pos : pos = IncPos(it.end, 1, call.size, call.align)
  OBVIOUS
<1>2. /\ pos # NoPos => /\ pos \in Index /\ pos \in Min .. Max /\ pos + (call.size - 1) <= Max
                        /\ it.end < pos /\ Aligned(pos, call.align)
      /\ \A q \in Min .. Max :
           it.end < q /\ q + (call.size - 1) <= Max /\ Aligned(q, call.align) =>
             pos # NoPos /\ pos <= q
  BY <1>0, <1>1, GoingOn
<1>3. \A q \in Min .. Max : From(call) <= q /\ Fits(spans, q, call.size, call.align) =>
        pos # NoPos /\ pos <= q
  <2> SUFFICES ASSUME NEW q \in Min .. Max, From(call) <= q, Fits(spans, q, call.size, call.align)
               PROVE  pos # NoPos /\ pos <= q
    OBVIOUS
  <2>1. ~(q <= it.end)
    BY <1>0 DEF Passed
  <2>2. it.end < q
    BY <1>0, <2>1, IndexRange DEF SpanType, Index
  <2>3. q + (call.size - 1) <= Max /\ Aligned(q, call.align)
    BY DEF Fits
  <2> QED BY <1>2, <2>2, <2>3
<1>4. Abs = spans
  BY <1>0 DEF Abs
<1>5. CASE Return(Failure(call)) /\ spans' = spans /\ pos = NoPos
  <2>1. Failure(call).call = call
    BY DEF Failure
  <2>2. Abs' = spans' /\ ret' = Failure(call) /\ spans' = spans
    BY <1>0, <1>5, <2>1, Returning
  <2>3. NoFit(spans, From(call), call.size, call.align)
    BY <1>3, <1>5 DEF NoFit
  <2>4. Answers(call)
    BY <1>0, <1>4, <2>2, <2>3 DEF Answers, From
  <2> QED BY <1>0, <1>5, <2>1, <2>4, AnswerNow
<1>6. ASSUME NEW n \in spans, pos # NoPos, IsNext(spans, it, n), Blocks(n, pos, call.size),
             Goto("scan", call, n, NoSpan), spans' = spans
      PROVE  CallFacts' /\ StoreStep
  <2>1. /\ n.start \in Int /\ n.end \in Int /\ pos \in Int /\ call.size \in Int
        /\ n.start <= pos + (call.size - 1)
    BY <1>0, <1>2, <1>6, IndexRange DEF Blocks, SpanType, Index
  <2>2. ASSUME NEW q \in Min .. Max, From(call) <= q, q <= n.end,
               Fits(spans, q, call.size, call.align)
        PROVE  FALSE
    <3>1. pos <= q /\ q \in Int
      BY <1>3, <2>2, IndexRange
    <3>2. n.start <= q + (call.size - 1)
      BY <2>1, <3>1
    <3> QED BY <1>0, <2>1, <2>2, <3>1, <3>2, Blocked
  <2>3. Passed(call, n.end)
    BY <2>2 DEF Passed
  <2>4. From(call) <= n.end
    <3>1. From(call) \in Int /\ it.end \in Int /\ n.start <= n.end /\ it.end < n.start
      BY <1>0, <1>6, CallArgs, IndexRange
         DEF From, CallType, SpanType, Index, IsNext, Precedes, IInv, SpansDisjoint, Disjoint
    <3> QED BY <1>0, <2>1, <3>1
  <2>5. Keep
    BY <1>0, <1>6 DEF Keep
  <2> QED BY <1>0, <1>6, <2>3, <2>4, <2>5, EnterScan
<1>7. ASSUME pos # NoPos, \A s \in spans : Precedes(it, s) => ~Blocks(s, pos, call.size)
      PROVE  /\ FreeWindow(spans, pos, pos + (call.size - 1))
             /\ IsFirstFit(spans, pos, From(call), call.size, call.align)
  <2>1. FreeWindow(spans, pos, pos + (call.size - 1))
    <3> SUFFICES ASSUME NEW s \in spans PROVE ~Overlaps(s, pos, pos + (call.size - 1))
      BY DEF FreeWindow
    <3>1. /\ s.start \in Int /\ s.end \in Int /\ it.start \in Int /\ it.end \in Int
          /\ pos \in Int /\ call.size \in Int /\ it.end < pos
      BY <1>0, <1>2, <1>7, IndexRange DEF SpanType, Index
    <3>2. CASE Precedes(it, s)
      <4>1. ~(s.start < pos) /\ ~(s.start - pos < call.size)
        BY <1>7, <3>2 DEF Blocks
      <4> QED BY <3>1, <4>1 DEF Overlaps
    <3>3. CASE s = it \/ Precedes(s, it)
      <4>1. s.end <= it.end
        BY <1>0, <3>1, <3>3 DEF Precedes, IInv, SpansDisjoint, Disjoint
      <4> QED BY <3>1, <4>1 DEF Overlaps
    <3> QED BY <1>0, <3>2, <3>3 DEF IInv, SpansDisjoint, Disjoint
  <2>2. Fits(spans, pos, call.size, call.align)
    BY <1>2, <1>7, <2>1 DEF Fits
  <2>3. From(call) <= pos
    <3>1. From(call) \in Int /\ it.end \in Int /\ pos \in Int
      BY <1>0, <1>2, <1>7, CallArgs, IndexRange DEF From, CallType, SpanType, Index
    <3> QED BY <1>0, <1>2, <1>7, <3>1
  <2>4. \A q \in Min .. Max : q < pos => ~(pos <= q)
    BY <1>2, <1>7, IndexRange DEF Index
  <2> QED BY <1>3, <2>1, <2>2, <2>3, <2>4 DEF IsFirstFit
<1>8. CASE /\ pos # NoPos /\ \A s \in spans : Precedes(it, s) => ~Blocks(s, pos, call.size)
           /\ call.op = "Find"
           /\ Return(Success(call, pos)) /\ spans' = spans
  <2>1. Success(call, pos).call = call
    BY DEF Success
  <2>2. Abs' = spans' /\ ret' = Success(call, pos)
    BY <1>0, <1>8, <2>1, Returning
  <2>3. IsFirstFit(spans, pos, call.start, call.size, call.align) /\ pos \in Index
    BY <1>2, <1>7, <1>8 DEF From
  <2>4. Answers(call)
    BY <1>0, <1>4, <1>8, <2>2, <2>3 DEF Answers
  <2> QED BY <1>0, <1>8, <2>1, <2>4, AnswerNow
<1>9. CASE /\ pos # NoPos /\ \A s \in spans : Precedes(it, s) => ~Blocks(s, pos, call.size)
           /\ call.op = "Allocate"
           /\ IF FreeWindow(spans, pos, pos + (call.size - 1))
              THEN /\ spans' = spans \cup {Span(call.element, pos, pos + (call.size - 1))}
                   /\ Return(Success(call, pos))
              ELSE Return(Failure(call)) /\ UNCHANGED spans
  <2>1. Success(call, pos).call = call
    BY DEF Success
  <2>2. /\ FreeWindow(spans, pos, pos + (call.size - 1))
        /\ IsFirstFit(spans, pos, Min, call.size, call.align) /\ pos \in Index
    BY <1>2, <1>7, <1>9 DEF From
  <2>3. /\ spans' = spans \cup {Span(call.element, pos, pos + (call.size - 1))}
        /\ Return(Success(call, pos))
    BY <1>9, <2>2
  <2>4. Abs' = spans' /\ ret' = Success(call, pos)
    BY <1>0, <2>1, <2>3, Returning
  <2>5. Answers(call)
    BY <1>0, <1>4, <1>9, <2>2, <2>3, <2>4 DEF Answers
  <2> QED BY <1>0, <2>1, <2>3, <2>5, AnswerNow
<1>10. \/ Return(Failure(call)) /\ spans' = spans /\ pos = NoPos
       \/ \E n \in spans : /\ pos # NoPos /\ IsNext(spans, it, n) /\ Blocks(n, pos, call.size)
                           /\ Goto("scan", call, n, NoSpan) /\ spans' = spans
       \/ /\ pos # NoPos /\ \A s \in spans : Precedes(it, s) => ~Blocks(s, pos, call.size)
          /\ call.op = "Find"
          /\ Return(Success(call, pos)) /\ spans' = spans
       \/ /\ pos # NoPos /\ \A s \in spans : Precedes(it, s) => ~Blocks(s, pos, call.size)
          /\ call.op = "Allocate"
          /\ IF FreeWindow(spans, pos, pos + (call.size - 1))
             THEN /\ spans' = spans \cup {Span(call.element, pos, pos + (call.size - 1))}
                  /\ Return(Success(call, pos))
             ELSE Return(Failure(call)) /\ UNCHANGED spans
  BY <1>1, Zenon DEF ScanStep
<1> QED BY <1>5, <1>6, <1>8, <1>9, <1>10

LEMMA AdvanceStepStep ==
  ASSUME IInv, CallFacts, AdvanceStep
  PROVE  CallFacts' /\ StoreStep
<1>0. /\ pc = "advance" /\ call \in Calls /\ ret = NoResult
      /\ spans = spans0 \cup {new} /\ MustStore(spans0, call, new)
      /\ spans' = spans /\ new.start \in Index /\ Abs = spans0
  BY DEF AdvanceStep, CallFacts, AdvanceFacts, IInv, LoopOK, AdvanceOK, SpanType, Abs
<1>1. CASE ReturnStored(call, new)
  <2>1. /\ Return(Success(call, new.start)) /\ Success(call, new.start).call = call
        /\ unbounded' = IF call.op = "AllocateUnbounded" THEN call.element ELSE unbounded
    BY <1>1 DEF ReturnStored, Success
  <2>2. Abs' = spans' /\ ret' = Success(call, new.start)
    BY <1>0, <2>1, Returning
  <2>3. Answers(call)
    BY <1>0, <2>1, <2>2, Storing
  <2> QED BY <1>0, <2>1, <2>3, AnswerNow
<1>2. ASSUME NEW n \in spans, Goto("advance", call, n, new), unbounded' = unbounded
      PROVE  CallFacts' /\ StoreStep
  <2>1. /\ pc' = "advance" /\ call' = call /\ new' = new /\ spans0' = spans0 /\ ret' = ret
    BY <1>0, <1>2 DEF Goto
  <2>2. AdvanceFacts'
    BY <1>0, <2>1 DEF AdvanceFacts, MustStore, IsFirstFit, IsFirstTail, Fits, FitsToMax, FreeWindow
  <2>3. CallFacts'
    BY <1>0, <2>1, <2>2 DEF CallFacts
  <2>4. Abs' = Abs
    BY <1>0, <2>1 DEF Abs
  <2> QED BY <1>2, <2>1, <2>3, <2>4 DEF StoreStep
<1> QED BY <1>1, <1>2 DEF AdvanceStep

\* What collides with the grown span collides with the window asked for: a
\* span between the two would overlap one of those erased.
LEMMA OnlyHits ==
  ASSUME NEW S \in SUBSET SpanType, Disjoint(S), NEW H \in SUBSET S,
         NEW lo \in Int, NEW hi \in Int, lo <= hi, H \subseteq Hit(S, lo, hi),
         NEW a \in Int, NEW b \in Int, IsHull(H, lo, hi, a, b),
         NEW s \in S \ H, Overlaps(s, a, b)
  PROVE  Overlaps(s, lo, hi)
<1>1. \A t \in S : t.start \in Int /\ t.end \in Int /\ t.start <= t.end
  BY IndexRange DEF SpanType, Index, Disjoint
<1>2. ASSUME s.end < lo
      PROVE  FALSE
  <2>1. PICK t \in H : a = t.start
    BY <1>1, <1>2 DEF IsHull, Overlaps
  <2>2. t.start <= s.end /\ s.end < t.end
    BY <1>1, <1>2, <2>1 DEF Overlaps, Hit
  <2>3. Precedes(s, t) \/ Precedes(t, s)
    BY DEF Disjoint
  <2> QED BY <1>1, <2>2, <2>3 DEF Precedes
<1>3. ASSUME hi < s.start
      PROVE  FALSE
  <2>1. PICK t \in H : b = t.end
    BY <1>1, <1>3 DEF IsHull, Overlaps
  <2>2. s.start <= t.end /\ t.start < s.start
    BY <1>1, <1>3, <2>1 DEF Overlaps, Hit
  <2>3. Precedes(s, t) \/ Precedes(t, s)
    BY DEF Disjoint
  <2> QED BY <1>1, <2>2, <2>3 DEF Precedes
<1> QED BY <1>2, <1>3 DEF Overlaps

LEMMA HullGrows ==
  ASSUME NEW H, H \subseteq SpanType, NEW lo \in Int, NEW hi \in Int,
         NEW n \in SpanType, NEW s \in SpanType, NEW G, G = H \cup {s},
         IsHull(H, lo, hi, n.start, n.end)
  PROVE  IsHull(G, lo, hi, Hull(n, s).start, Hull(n, s).end) /\ Hull(n, s).element = n.element
<1>1. /\ n.start \in Int /\ n.end \in Int /\ s.start \in Int /\ s.end \in Int
      /\ \A t \in H : t.start \in Int /\ t.end \in Int
  BY IndexRange DEF SpanType, Index
<1>2. /\ Hull(n, s).start = IF s.start < n.start THEN s.start ELSE n.start
      /\ Hull(n, s).end = IF n.end < s.end THEN s.end ELSE n.end
      /\ Hull(n, s).element = n.element
  BY DEF Hull, SpanType
<1>3. PICK a, b : a = Hull(n, s).start /\ b = Hull(n, s).end
  OBVIOUS
<1>4. a \in Int /\ b \in Int /\ a <= n.start /\ a <= s.start /\ n.end <= b /\ s.end <= b
  BY <1>1, <1>2, <1>3
<1>5. a \in {lo} \cup {t.start : t \in G} /\ b \in {hi} \cup {t.end : t \in G}
  BY <1>1, <1>2, <1>3 DEF IsHull
<1>6. a <= lo /\ hi <= b /\ \A t \in G : a <= t.start /\ t.end <= b
  BY <1>1, <1>4 DEF IsHull
<1>7. IsHull(G, lo, hi, a, b)
  BY <1>5, <1>6 DEF IsHull
<1> QED BY <1>2, <1>3, <1>7

LEMMA ClobberStepStep ==
  ASSUME IInv, CallFacts, ClobberStep
  PROVE  CallFacts' /\ StoreStep
<1> DEFINE E == spans0 \ spans
<1>0. /\ pc = "clobber" /\ call \in Calls /\ ret = NoResult /\ new \in SpanType
      /\ call.op = "ForceInsertAndClobber" /\ unbounded' = unbounded /\ Abs = spans0
      /\ spans0 \in SUBSET SpanType /\ spans \subseteq spans0 /\ Disjoint(spans0)
      /\ E \subseteq Hit(spans0, call.start, call.end)
      /\ IsHull(E, call.start, call.end, new.start, new.end)
      /\ new.element = call.element
      /\ new.start \in Index /\ new.end \in Index
  BY DEF ClobberStep, CallFacts, ClobberFacts, IInv, TypeOK, LoopOK, ClobberOK, SpanType, Abs
<1>1. call.start \in Int /\ call.end \in Int /\ call.start <= call.end /\ new.start \in Int
        /\ new.end \in Int
  BY <1>0, CallArgs, IndexRange DEF CallType, Index
<1>2. E \in SUBSET spans0 /\ E \in SUBSET SpanType
  BY <1>0
<1>3. CASE FreeWindow(spans, new.start, new.end) /\ spans' = spans \cup {new}
             /\ Return(Success(call, call.start))
  <2>1. Success(call, call.start).call = call
    BY DEF Success
  <2>2. Abs' = spans' /\ ret' = Success(call, call.start)
    BY <1>0, <1>3, <2>1, Returning
  <2>3. Hit(spans0, call.start, call.end) = E
    <3>1. ASSUME NEW s \in spans
          PROVE  ~Overlaps(s, call.start, call.end)
      <4>1. ~Overlaps(s, new.start, new.end) /\ s.start \in Int /\ s.end \in Int
        BY <1>0, <1>3, IndexRange DEF FreeWindow, SpanType, Index
      <4>2. new.start <= call.start /\ call.end <= new.end
        BY <1>0 DEF IsHull
      <4> QED BY <1>1, <4>1, <4>2 DEF Overlaps
    <3> QED BY <1>0, <3>1 DEF Hit
  <2>4. new = Span(call.element, new.start, new.end)
    BY <1>0 DEF Span, SpanType
  <2>5. spans' = (spans0 \ E) \cup {Span(call.element, new.start, new.end)}
    BY <1>0, <1>3, <2>4
  <2> HIDE DEF E
  <2>6. Answers(call)
    BY <1>0, <2>2, <2>3, <2>5 DEF Answers
  <2> QED BY <1>0, <1>3, <2>1, <2>6, AnswerNow
<1>4. ASSUME NEW s \in spans, Overlaps(s, new.start, new.end), spans' = spans \ {s},
             Goto("clobber", call, NoSpan, Hull(new, s))
      PROVE  CallFacts' /\ StoreStep
  <2>1. /\ pc' = "clobber" /\ call' = call /\ new' = Hull(new, s) /\ spans0' = spans0 /\ ret' = ret
    BY <1>0, <1>4 DEF Goto
  <2>2. s \in spans0 /\ s \in SpanType /\ s \in spans0 \ E
    BY <1>0, <1>4
  <2>3. Overlaps(s, call.start, call.end)
    <3> HIDE DEF E
    <3> QED BY <1>0, <1>1, <1>2, <1>4, <2>2, OnlyHits
  <2>4. spans0 \ spans' = E \cup {s} /\ spans' \subseteq spans0
    BY <1>0, <1>4
  <2>5. E \cup {s} \subseteq Hit(spans0, call.start, call.end)
    BY <1>0, <2>2, <2>3 DEF Hit
  <2>6. IsHull(E \cup {s}, call.start, call.end, new'.start, new'.end)
        /\ new'.element = call.element
    <3>1. E \subseteq SpanType /\ new \in SpanType /\ s \in SpanType
      BY <1>0, <1>2, <2>2
    <3>2. PICK G : G = E \cup {s}
      OBVIOUS
    <3> HIDE DEF E
    <3>3. call.start \in Int /\ call.end \in Int
            /\ IsHull(E, call.start, call.end, new.start, new.end)
      BY <1>0, <1>1
    <3>4. /\ IsHull(G, call.start, call.end, Hull(new, s).start, Hull(new, s).end)
          /\ Hull(new, s).element = new.element
      BY <3>1, <3>2, <3>3, HullGrows
    <3> QED BY <1>0, <2>1, <3>2, <3>4
  <2> HIDE DEF E
  <2>7. ClobberFacts'
    BY <1>0, <2>1, <2>4, <2>5, <2>6 DEF ClobberFacts, IsHull, Hit, Disjoint
  <2>8. CallFacts'
    BY <1>0, <2>1, <2>7 DEF CallFacts
  <2>9. Abs' = Abs
    BY <1>0, <2>1 DEF Abs
  <2> QED BY <1>0, <2>1, <2>8, <2>9 DEF StoreStep
<1> QED BY <1>3, <1>4 DEF ClobberStep

LEMMA ReadResultStep ==
  ASSUME IInv, CallFacts, ReadResult
  PROVE  CallFacts' /\ StoreStep
<1>1. /\ pc = "done" /\ pc' = "idle" /\ ret # NoResult /\ ret' = NoResult
      /\ spans' = spans /\ unbounded' = unbounded
  BY DEF ReadResult, Keep, CallFacts
<1>2. CallFacts'
  BY <1>1 DEF CallFacts
<1>3. Store!ReadResult
  <2>1. Abs' = Abs
    BY <1>1 DEF Abs
  <2>2. (IF pc \in {"idle", "done"} THEN spans ELSE spans0)' =
          (IF pc \in {"idle", "done"} THEN spans ELSE spans0)
    BY <1>1
  <2> QED BY <1>1, <2>2, StoreSets DEF Store!ReadResult
<1> QED BY <1>2, <1>3 DEF StoreStep, Store!Next

LEMMA StutterStep ==
  ASSUME CallFacts, UNCHANGED vars
  PROVE  CallFacts' /\ StoreStep
<1>1. ScanFacts => ScanFacts'
  BY DEF vars, ScanFacts, Passed, From, Fits, FreeWindow
<1>2. AdvanceFacts => AdvanceFacts'
  BY DEF vars, AdvanceFacts, MustStore, IsFirstFit, IsFirstTail, Fits, FitsToMax, FreeWindow
<1>3. ClobberFacts => ClobberFacts'
  BY DEF vars, ClobberFacts, IsHull, Hit, Disjoint
<1>4. CallFacts'
  BY <1>1, <1>2, <1>3 DEF CallFacts, vars
<1> QED BY <1>4 DEF StoreStep, Abs, vars

LEMMA NextStep ==
  ASSUME IInv, CallFacts, [Next]_vars
  PROVE  CallFacts' /\ StoreStep
<1>1. ASSUME NEW c \in Calls, Begin(c)
      PROVE  CallFacts' /\ StoreStep
  <2>1. pc = "idle"
    BY <1>1 DEF Begin
  <2>2. CASE c.op = "Find" /\ Find(c)
    BY <2>1, <2>2, FindStep
  <2>3. CASE c.op = "FindForUnbounded" /\ FindForUnbounded(c)
    BY <2>1, <2>3, FindForUnboundedStep
  <2>4. CASE c.op = "Allocate" /\ Allocate(c)
    BY <2>1, <2>4, AllocateStep
  <2>5. CASE c.op = "AllocateUnbounded" /\ AllocateUnbounded(c)
    BY <2>1, <2>5, AllocateUnboundedStep
  <2>6. CASE c.op = "Insert" /\ Insert(c)
    BY <2>1, <2>6, InsertStep
  <2>7. CASE c.op = "ForceInsertAndClobber" /\ ForceInsertAndClobber(c)
    BY <2>1, <2>7, ForceInsertStep
  <2>8. CASE c.op = "SetUnbounded" /\ SetUnbounded(c)
    BY <2>1, <2>8, SetUnboundedStep
  <2>. QED  BY <1>1, <2>2, <2>3, <2>4, <2>5, <2>6, <2>7, <2>8 DEF Begin
<1>. QED
  BY <1>1, ScanStepStep, AdvanceStepStep, ClobberStepStep, ReadResultStep, StutterStep
     DEF Next, Step

\* The class implements SpanStore: Find and Allocate are first fit and fail only
\* when nothing fits, in spite of a cache that lags and a search that skips
\* spans; ForceInsertAndClobber leaves the hull of what it collided with.
THEOREM ImplementsStore == Spec => Implements
<1>1. Init => Store!Init /\ CallFacts
  BY StoreSets DEF Init, Store!Init, CallFacts
<1>2. IInv /\ CallFacts /\ [Next]_vars => CallFacts' /\ [Store!Next]_(Store!vars)
  <2>1. SUFFICES ASSUME IInv, CallFacts, [Next]_vars
                 PROVE  CallFacts' /\ [Store!Next]_(Store!vars)
    OBVIOUS
  <2>2. CallFacts' /\ StoreStep
    BY <2>1, NextStep
  <2> QED BY <2>2 DEF StoreStep, Store!vars, Abs
<1> QED BY <1>1, <1>2, Invariance, PTL DEF Spec, Implements, Store!Spec
=============================================================================
