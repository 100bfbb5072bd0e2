------------------------------ MODULE SpanStore ------------------------------
(***************************************************************************)
(* What SpanAllocator promises its clients, with no search, no cached      *)
(* first-free index and no "full" flag: every call is one step on a set of *)
(* disjoint spans.  Allocation is first fit: the least aligned position at *)
(* which the whole request is free, and failure only when there is none.   *)
(***************************************************************************)
EXTENDS SpanOps

VARIABLES
  spans,       \* the allocated spans
  unbounded,   \* the element recorded as the unbounded one, or NoElem
  ret          \* the result of the last call, until the caller reads it

vars == <<spans, unbounded, ret>>

Init ==
  /\ spans = {}
  /\ unbounded = NoElem
  /\ ret = NoResult

Find(c) ==
  /\ \/ \E p \in Index :
          /\ IsFirstFit(spans, p, c.start, c.size, c.align)
          /\ ret' = Success(c, p)
     \/ NoFit(spans, c.start, c.size, c.align) /\ ret' = Failure(c)
  /\ UNCHANGED <<spans, unbounded>>

FindForUnbounded(c) ==
  /\ \/ \E p \in Index : IsFirstTail(spans, p, c.align) /\ ret' = Success(c, p)
     \/ NoTail(spans, c.align) /\ ret' = Failure(c)
  /\ UNCHANGED <<spans, unbounded>>

Allocate(c) ==
  /\ \/ \E p \in Index :
          /\ IsFirstFit(spans, p, Min, c.size, c.align)
          /\ spans' = spans \cup {Span(c.element, p, p + (c.size - 1))}
          /\ ret' = Success(c, p)
     \/ /\ NoFit(spans, Min, c.size, c.align)
        /\ ret' = Failure(c)
        /\ UNCHANGED spans
  /\ UNCHANGED unbounded

AllocateUnbounded(c) ==
  \/ \E p \in Index :
       /\ IsFirstTail(spans, p, c.align)
       /\ spans' = spans \cup {Span(c.element, p, Max)}
       /\ unbounded' = c.element
       /\ ret' = Success(c, p)
  \/ /\ NoTail(spans, c.align)
     /\ ret' = Failure(c)
     /\ UNCHANGED <<spans, unbounded>>

Insert(c) ==
  /\ \/ /\ FreeWindow(spans, c.start, c.end)
        /\ spans' = spans \cup {Span(c.element, c.start, c.end)}
        /\ ret' = Success(c, c.start)
     \/ /\ \E s \in spans : Overlaps(s, c.start, c.end) /\ ret' = Conflict(c, s)
        /\ UNCHANGED spans
  /\ UNCHANGED unbounded

\* The spans that overlap the new one are replaced by the hull of them all.
ForceInsertAndClobber(c) ==
  LET hit == Hit(spans, c.start, c.end)
  IN  /\ \E lo, hi \in Index :
           /\ IsHull(hit, c.start, c.end, lo, hi)
           /\ spans' = (spans \ hit) \cup {Span(c.element, lo, hi)}
      /\ ret' = Success(c, c.start)
      /\ UNCHANGED unbounded

SetUnbounded(c) ==
  /\ unbounded' = c.element
  /\ ret' = Success(c, 0)
  /\ UNCHANGED spans

ReadResult ==
  /\ ret # NoResult
  /\ ret' = NoResult
  /\ UNCHANGED <<spans, unbounded>>

\* The call that a step performs is the one its result answers.
Next ==
  \/ ReadResult
  \/ LET c == ret'.call
     IN  /\ ret = NoResult
         /\ c \in CallType
         /\ \/ c.op = "Find" /\ Find(c)
            \/ c.op = "FindForUnbounded" /\ FindForUnbounded(c)
            \/ c.op = "Allocate" /\ Allocate(c)
            \/ c.op = "AllocateUnbounded" /\ AllocateUnbounded(c)
            \/ c.op = "Insert" /\ Insert(c)
            \/ c.op = "ForceInsertAndClobber" /\ ForceInsertAndClobber(c)
            \/ c.op = "SetUnbounded" /\ SetUnbounded(c)

Spec == Init /\ [][Next]_vars
=============================================================================
