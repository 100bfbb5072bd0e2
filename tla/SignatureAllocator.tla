------------------------- MODULE SignatureAllocator -------------------------
(***************************************************************************)
(* Packing of signature elements into registers of four components         *)
(* (DxilSignatureAllocator): the prefix-stable strategy, which places each *)
(* element as it comes, the optimized one, which sorts and groups them     *)
(* first, and the validator, which places the result once more, in the     *)
(* order of declaration, to find conflicts.                                *)
(***************************************************************************)
EXTENDS Integers, Sequences, FiniteSets, SequencesExt, FiniteSetsExt

CONSTANTS
  NumRegisters,  \* rows of a signature, 32 in the code
  Shapes,        \* the elements a shader may declare
  Foreign,       \* shape and place of the elements of modules made elsewhere
  MaxElements,   \* bound: elements of a packed signature
  MaxForeign,    \* bound: elements of a signature made elsewhere
  None,          \* not allocated
  AllowApart,    \* may the second clip/cull row land apart from the first?
  AllowWildRead  \* may PackOptimized look past the last register?

Kinds == {"arb", "sv", "sgv", "tess", "clip"}
Undefined == 0
Element == [kind : Kinds, rows : 1 .. 2, cols : 1 .. 4, interp : Nat, width : Nat]

Place == [row : Nat, col : Nat]
Declared == Shapes \cup {f.shape : f \in Foreign}

\* Only tessellation factors, clip/cull distances and arbitrary elements have
\* several rows; a signature has interpolation modes throughout or nowhere.
ASSUME SignatureAssumption ==
  /\ NumRegisters \in Nat \ {0} /\ MaxElements \in Nat /\ MaxForeign \in Nat
  /\ Declared \subseteq Element
  /\ \A e \in Declared :
       /\ e.rows = 1 \/ e.kind \notin {"sv", "sgv"}
       /\ e.width # Undefined
  /\ \A e, f \in Declared : e.interp = Undefined => f.interp = Undefined
  /\ {f.at : f \in Foreign} \subseteq Place /\ None \notin Place
  /\ AllowApart \in BOOLEAN /\ AllowWildRead \in BOOLEAN

VARIABLES
  strategy,    \* "prefix", "optimized", or "foreign"
  phase,       \* where the strategy is, or "validate", "done"
  elems, loc,  \* the elements in order of declaration, and their places
  regs,        \* m_Registers
  rowsUsed,    \* the result of the call
  start,       \* startRow of PackOptimized
  predicted,   \* PackOptimized found a pair of rows for the clip/cull elements
  clip,        \* prefix-stable: clipcullAllocator and its placeholders
  judge        \* the validator: next element, registers, placed and refused
vars == <<strategy, phase, elems, loc, regs, rowsUsed, start, predicted, clip, judge>>

-----------------------------------------------------------------------------
(* One register.                                                           *)

Columns == 0 .. 3
\* A component is occupied by a kind, or records the kinds it is closed to.
EmptyRegister ==
  [comp |-> [c \in Columns |-> [used |-> FALSE, kinds |-> {}]],
   interp |-> Undefined, index |-> {}, fixed |-> FALSE, width |-> Undefined]
Registers(n) == [r \in 0 .. n - 1 |-> EmptyRegister]

GetIndexFlags(row, rows) ==
  (IF row > 0 THEN {"up"} ELSE {}) \cup (IF row < rows - 1 THEN {"down"} ELSE {})

ConflictsWithIndexed == {"sgv", "sv"}
SystemValues == {"sv", "tess", "clip"}
GetConflictFlagsLeft(k) ==
  CASE k = "arb" -> SystemValues \cup {"sgv"}
    [] k \in SystemValues -> {"sgv"}
    [] k = "sgv" -> {}
GetConflictFlagsRightMut(k) == IF k = "sgv" THEN SystemValues ELSE {"arb"}  \* mutant
GetConflictFlagsRight(k) ==
  CASE k = "sgv" -> SystemValues \cup {"arb"}
    [] k \in SystemValues -> {"arb"}
    [] k = "arb" -> {}

Open(reg, e, c) == ~reg.comp[c].used /\ e.kind \notin reg.comp[c].kinds
Span(col, e) == col .. col + e.cols - 1
HasRoom(reg, e) == \E col \in 0 .. 4 - e.cols : \A c \in Span(col, e) : Open(reg, e, c)

\* DetectRowConflict of a register, but for the room.
ClashesMut(reg, e, i) ==                                     \* mutant
  \/ reg.index # {} /\ e.kind \in ConflictsWithIndexed
  \/ e.kind = "tess" /\ ~ reg.index \subseteq GetIndexFlags(i, e.rows)
  \/ reg.interp \notin {Undefined, e.interp}
  \/ reg.width \notin {Undefined, e.width}
Clashes(reg, e, i) ==
  LET index == GetIndexFlags(i, e.rows) IN
  \/ reg.index # {} /\ e.kind \in ConflictsWithIndexed
  \/ reg.fixed /\ ~ index \subseteq reg.index
  \/ e.kind = "tess" /\ ~ reg.index \subseteq index
  \/ reg.interp \notin {Undefined, e.interp}
  \/ reg.width \notin {Undefined, e.width}

CompAfter(comp, c, e, col) ==
  CASE comp.used -> comp
    [] ~comp.used /\ c \in Span(col, e) -> [used |-> TRUE, kinds |-> {e.kind}]
    [] ~comp.used /\ c < col -> [comp EXCEPT !.kinds = @ \cup GetConflictFlagsLeft(e.kind)]
    [] ~comp.used /\ c >= col + e.cols -> [comp EXCEPT !.kinds = @ \cup GetConflictFlagsRight(e.kind)]
Occupy(reg, e, i, col) ==
  LET index == reg.index \cup GetIndexFlags(i, e.rows) IN
  [comp |-> [c \in Columns |-> CompAfter(reg.comp[c], c, e, col)],
   interp |-> e.interp, index |-> index, width |-> e.width,
   fixed |-> reg.fixed \/ e.kind \in ConflictsWithIndexed \cup {"tess"}]

-----------------------------------------------------------------------------
(* An allocator: a function from rows to registers.                        *)

\* DetectRowConflict: the first row that objects, and why.
RowConflict(rs, e, row) ==
  LET Bad == {i \in 0 .. e.rows - 1 : Clashes(rs[row + i], e, i) \/ ~HasRoom(rs[row + i], e)} IN
  IF row + e.rows > Cardinality(DOMAIN rs) THEN "fit"
  ELSE IF Bad = {} THEN "none"
  ELSE IF Clashes(rs[row + Min(Bad)], e, Min(Bad)) THEN "clash" ELSE "room"
ColConflict(rs, e, row, col) ==
  \/ col + e.cols > 4
  \/ \E i \in 0 .. e.rows - 1, c \in Span(col, e) : ~Open(rs[row + i], e, c)

PlaceElement(rs, e, at) ==
  [r \in DOMAIN rs |-> IF r \in at.row .. at.row + e.rows - 1
                       THEN Occupy(rs[r], e, r - at.row, at.col) ELSE rs[r]]

\* FindNext: rows first, then columns.
LastRowMut(startRow, numRows, e) == startRow + numRows - e.rows - 1  \* mutant
LastRow(startRow, numRows, e) == startRow + numRows - e.rows
FindNext(rs, e, startRow, numRows, startCol) ==
  LET Places == {p \in [row : startRow .. LastRow(startRow, numRows, e), col : startCol .. 4 - e.cols] :
                   RowConflict(rs, e, p.row) = "none" /\ ~ColConflict(rs, e, p.row, p.col)}
      Before(p, q) == p.row < q.row \/ (p.row = q.row /\ p.col <= q.col)
  IN  IF Places = {} THEN None ELSE CHOOSE p \in Places : \A q \in Places : Before(p, q)

\* What FindNext returns beside the place: the row after the element.
RowsAfter(e, at) == IF at = None THEN 0 ELSE at.row + e.rows
PlaceAt(rs, e, at) == IF at = None THEN rs ELSE PlaceElement(rs, e, at)
Larger(a, b) == IF a > b THEN a ELSE b

\* Element i goes to at, in the state t of an allocator.
PackAt(t, i, at) ==
  [regs |-> PlaceAt(t.regs, elems[i], at), loc |-> [t.loc EXCEPT ![i] = at],
   used |-> Larger(t.used, RowsAfter(elems[i], at))]
PackOne(t, i, startRow, numRows, startCol) ==
  PackAt(t, i, FindNext(t.regs, elems[i], startRow, numRows, startCol))

\* PackGreedy for the elements ids of elems, from the state s of an allocator.
PackGreedy(s, ids, startRow, numRows, startCol) ==
  LET packed[k \in 0 .. Len(ids)] ==
        IF k = 0 THEN s ELSE PackOne(packed[k - 1], ids[k], startRow, numRows, startCol)
  IN  packed[Len(ids)]

-----------------------------------------------------------------------------
NoClip == [regs |-> Registers(2), held |-> <<>>, indexed |-> FALSE]
Init ==
  /\ strategy \in {"prefix", "optimized", "foreign"}
  /\ phase = IF strategy = "foreign" THEN "validate" ELSE "declare"
  /\ elems = <<>> /\ loc = <<>> /\ regs = Registers(NumRegisters)
  /\ rowsUsed = 0 /\ start = 0 /\ predicted = FALSE /\ clip = NoClip
  /\ judge = [next |-> 1, regs |-> Registers(NumRegisters), placed |-> {}, refused |-> {}, clipRows |-> {}]

(* PackPrefixStable: the iteration of its loop for the next element.       *)
Declares(e) == phase = "declare" /\ Len(elems) < MaxElements /\ elems' = Append(elems, e)

PackNext(e, startCol) ==
  /\ \E at \in {FindNext(regs, e, 0, NumRegisters, startCol)} :
       /\ loc' = Append(loc, at)
       /\ regs' = PlaceAt(regs, e, at)
       /\ rowsUsed' = Larger(rowsUsed, RowsAfter(e, at))
  /\ UNCHANGED clip

FailElement == loc' = Append(loc, None) /\ UNCHANGED <<regs, rowsUsed>>

\* The rows searched for a placeholder: anywhere, or behind the first one.
NextRows == <<clip.held[1] + 1, clip.held[1] + 2>>
HolderRows(indexed) == IF indexed /\ clip.held # <<>> THEN NextRows ELSE <<0, NumRegisters>>
Adjacent(held) == held[1] + 1 = held[2]
PlaceClipMut(e, at, held, indexed) ==                        \* mutant
  /\ clip' = [regs |-> PlaceElement(clip.regs, e, at), held |-> held, indexed |-> indexed]
  /\ loc' = Append(loc, at)
PlaceClip(e, at, held, indexed) ==
  /\ clip' = [regs |-> PlaceElement(clip.regs, e, at), held |-> held, indexed |-> indexed]
  /\ loc' = Append(loc, [row |-> held[at.row + 1], col |-> at.col])

\* The placeholder element, four columns wide.
Holder(e, indexed) == [e EXCEPT !.rows = IF indexed /\ clip.held = <<>> THEN 2 ELSE 1, !.cols = 4]

PackClip(e) ==
  LET indexed == clip.indexed \/ e.rows > 1
      holder  == Holder(e, indexed)
      rows    == HolderRows(indexed)
  IN
  \E at \in {FindNext(clip.regs, e, 0, 2, 0)}, place \in {FindNext(regs, holder, rows[1], rows[2], 0)} :
    LET heldAfter == clip.held \o [i \in 1 .. holder.rows |-> place.row + i - 1] IN
    \/ /\ \/ at = None
          \/ e.rows > 1 /\ ~clip.indexed /\ Len(clip.held) = 2 /\ ~Adjacent(clip.held)
       /\ FailElement /\ UNCHANGED clip
    \/ /\ at # None /\ RowsAfter(e, at) <= Len(clip.held)
       /\ e.rows > 1 /\ ~clip.indexed => Adjacent(clip.held)
       /\ PlaceClip(e, at, clip.held, indexed)
       /\ UNCHANGED <<regs, rowsUsed>>
    \/ /\ at # None /\ RowsAfter(e, at) > Len(clip.held)
       /\ \/ /\ place = None
             /\ FailElement /\ clip' = [clip EXCEPT !.indexed = indexed]
          \/ /\ place # None
             /\ ~AllowApart /\ indexed => Adjacent(heldAfter)
             /\ regs' = PlaceElement(regs, holder, place)
             /\ rowsUsed' = Larger(rowsUsed, RowsAfter(holder, place))
             /\ PlaceClip(e, at, heldAfter, indexed)

PackPrefixStable(e) ==
  /\ strategy = "prefix" /\ Declares(e)
  /\ \/ e.kind = "clip" /\ PackClip(e)
     \/ e.kind = "tess" /\ e.rows > 1 /\ PackNext(e, 3)
     \/ e.kind # "clip" /\ ~(e.kind = "tess" /\ e.rows > 1) /\ PackNext(e, 0)
  /\ UNCHANGED <<strategy, phase, start, predicted, judge>>

(* PackOptimized: the elements are collected, then packed group by group.  *)
Declare(e) ==
  /\ strategy = "optimized" /\ Declares(e) /\ loc' = Append(loc, None)
  /\ UNCHANGED <<strategy, phase, regs, rowsUsed, start, predicted, clip, judge>>

PhaseAfter == [declare |-> "vec4", vec4 |-> "tess", tess |-> "arb", arb |-> "sv",
               sv |-> "clip", clip |-> "sgv", sgv |-> "packed"]
InGroup(e, group) ==
  CASE group = "vec4" -> e.kind \in {"arb", "sv"} /\ e.cols = 4
    [] group = "tess" -> e.kind = "tess" /\ e.rows > 1
    [] group = "arb"  -> e.kind = "arb" /\ e.cols < 4
    [] group = "sv"   -> (e.kind = "sv" /\ e.cols < 4) \/ (e.kind = "tess" /\ e.rows = 1)
    [] group \in {"clip", "sgv"} -> e.kind = group
CmpElementsLess(i, j) ==
  LET a == elems[i] b == elems[j] IN
  \/ a.interp < b.interp
  \/ a.interp = b.interp /\ a.rows > b.rows
  \/ a.interp = b.interp /\ a.rows = b.rows /\ a.cols > b.cols
  \/ a.interp = b.interp /\ a.rows = b.rows /\ a.cols = b.cols /\ i < j
Sorted(S) ==
  CHOOSE s \in [1 .. Cardinality(S) -> S] :
    \A j, k \in DOMAIN s : j < k => CmpElementsLess(s[j], s[k])
GroupSet(group) == {i \in DOMAIN elems : InGroup(elems[i], group)}
Group(group) == Sorted(GroupSet(group))

Packed(s) == \E t \in {s} : regs' = t.regs /\ loc' = t.loc /\ rowsUsed' = t.used
Here == [regs |-> regs, loc |-> loc, used |-> rowsUsed]

BeginOptimized ==
  /\ strategy = "optimized" /\ phase = "declare" /\ phase' = "vec4"
  /\ UNCHANGED <<strategy, elems, loc, regs, rowsUsed, start, predicted, clip, judge>>

PackGroup ==
  /\ phase \in {"vec4", "tess", "arb", "sv", "sgv"} /\ phase' = PhaseAfter[phase]
  /\ Packed(PackGreedy(Here, Group(phase), start, NumRegisters, IF phase = "tess" THEN 3 ELSE 0))
  /\ start' = IF phase = "vec4" THEN Larger(start, rowsUsed') ELSE start
  /\ UNCHANGED <<strategy, elems, predicted, clip, judge>>

\* Clip/cull elements of one row: packed into two registers of their own, then
\* each of these goes, as one element, where it fits.
InRow(places, k) == Sorted({i \in GroupSet("clip") : places[i] # None /\ places[i].row = k})
Offset(row, k) ==
  LET offset[j \in 0 .. k] == IF j = 0 THEN 0 ELSE offset[j - 1] + elems[row[j]].cols
  IN  offset[k]
PlaceRow(s, row, at) ==
  LET placed[k \in 0 .. Len(row)] ==
        IF k = 0 THEN s
        ELSE PackAt(placed[k - 1], row[k], [row |-> at.row, col |-> at.col + Offset(row, k - 1)])
  IN  IF at = None THEN s ELSE placed[Len(row)]
Whole(row) == [elems[row[1]] EXCEPT !.rows = 1, !.cols = Offset(row, Len(row))]
PackRow(s, row) ==
  IF row = <<>> THEN s
  ELSE PlaceRow(s, row, FindNext(s.regs, Whole(row), start, NumRegisters, 0))
PackTwoRows ==
  /\ \E pre \in {PackGreedy([regs |-> Registers(2), loc |-> loc, used |-> 0], Group("clip"), 0, 2, 0).loc} :
       Packed(PackRow(PackRow(Here, InRow(pre, 0)), InRow(pre, 1)))
  /\ UNCHANGED predicted

\* Otherwise: the first pair of adjacent rows that takes them all.  startRow
\* may have moved, so that the pairs can lie past the last register, where
\* wild is what the memory there looks like.
WildRegisters == {EmptyRegister, [EmptyRegister EXCEPT !.interp = -1]}
RowPair(row, wild) == [k \in 0 .. 1 |-> IF row + k < NumRegisters THEN regs[row + k] ELSE wild]
TakesClipMut(rs) ==                                          \* mutant
  PackGreedy([regs |-> rs, loc |-> loc, used |-> 0], Group("clip"), 0, 2, 0).loc[Last(Group("clip"))] # None
TakesClip(rs) ==
  \E trial \in {PackGreedy([regs |-> rs, loc |-> loc, used |-> 0], Group("clip"), 0, 2, 0).loc} :
    \A i \in DOMAIN elems : InGroup(elems[i], "clip") => trial[i] # None

PackPairOfRows ==
  \E wild \in WildRegisters :
  \E pairs \in {{row \in start .. start + NumRegisters - 2 : TakesClip(RowPair(row, wild))}} :
    /\ \/ AllowWildRead \/ start = 0
       \/ \E row \in pairs : row + 1 < NumRegisters
    /\ \/ pairs = {} /\ UNCHANGED <<regs, loc, predicted>>
       \/ /\ pairs # {}
          /\ \E s \in {PackGreedy(Here, Group("clip"), Min(pairs), 2, 0)} : regs' = s.regs /\ loc' = s.loc
          /\ predicted' = TRUE
    /\ UNCHANGED rowsUsed

PackClipCull ==
  /\ phase = "clip" /\ phase' = "sgv"
  /\ IF \E i \in DOMAIN elems : elems[i].kind = "clip" /\ elems[i].rows > 1
     THEN PackPairOfRows ELSE PackTwoRows
  /\ UNCHANGED <<strategy, elems, start, clip, judge>>

-----------------------------------------------------------------------------
(* ValidateSignature.                                                      *)

BeginValidate ==
  /\ phase = IF strategy = "prefix" THEN "declare" ELSE "packed"
  /\ phase' = "validate"
  /\ UNCHANGED <<strategy, elems, loc, regs, rowsUsed, start, predicted, clip, judge>>

\* ValidateSignatureOverlap: a register short of room is asked for the column.
Accepts(rs, e, at) ==
  RowConflict(rs, e, at.row) \in {"none", "room"} /\ ~ColConflict(rs, e, at.row, at.col)

Judged(e, at) ==
  LET i == judge.next
      rows == judge.clipRows \cup
                (IF e.kind = "clip" THEN at.row .. at.row + e.rows - 1 ELSE {})
  IN  IF at = None THEN [judge EXCEPT !.next = i + 1]
      ELSE IF Accepts(judge.regs, e, at)
      THEN [next |-> i + 1, regs |-> PlaceElement(judge.regs, e, at), placed |-> judge.placed \cup {i},
            refused |-> judge.refused, clipRows |-> rows]
      ELSE [judge EXCEPT !.next = i + 1, !.refused = @ \cup {i}, !.clipRows = rows]

ValidateElement ==
  /\ phase = "validate" /\ strategy # "foreign" /\ judge.next \in DOMAIN elems
  /\ judge' = Judged(elems[judge.next], loc[judge.next])
  /\ phase' = IF judge'.next \in DOMAIN elems THEN phase ELSE "done"
  /\ UNCHANGED <<strategy, elems, loc, regs, rowsUsed, start, predicted, clip>>

ValidateForeign(e, at) ==
  /\ phase = "validate" /\ strategy = "foreign" /\ Len(elems) < MaxForeign
  /\ elems' = Append(elems, e) /\ loc' = Append(loc, at)
  /\ judge' = Judged(e, at)
  /\ UNCHANGED <<strategy, phase, regs, rowsUsed, start, predicted, clip>>

Next ==
  \/ \E e \in Shapes : PackPrefixStable(e) \/ Declare(e)
  \/ BeginOptimized \/ PackGroup \/ PackClipCull
  \/ BeginValidate \/ ValidateElement
  \/ \E f \in Foreign : ValidateForeign(f.shape, f.at)

Spec == Init /\ [][Next]_vars

-----------------------------------------------------------------------------
(* What a signature must satisfy, said of pairs of elements e at p, f at q. *)

RowsOf(e, p) == p.row .. p.row + e.rows - 1
IndexAt(e, p, row) == GetIndexFlags(row - p.row, e.rows)
Rank(k) == CASE k = "arb" -> 0 [] k \in SystemValues -> 1 [] k = "sgv" -> 2

\* Arbitrary values lie left of system values, and these left of generated ones.
Ordered(e, p, f, q) == p.col < q.col => Rank(e.kind) <= Rank(f.kind)
\* Indexing: none beside a system or generated value; beside a tessellation
\* factor only along its own rows.
Indexable(e, p, f, q, row) ==
  /\ e.kind \in ConflictsWithIndexed => IndexAt(f, q, row) = {}
  /\ e.kind = "tess" => IndexAt(f, q, row) \subseteq IndexAt(e, p, row)
Compatible(e, p, f, q) ==
  \A row \in RowsOf(e, p) \cap RowsOf(f, q) :
    /\ Span(p.col, e) \cap Span(q.col, f) = {}
    /\ e.interp = f.interp /\ e.width = f.width
    /\ Ordered(e, p, f, q) /\ Ordered(f, q, e, p)
    /\ Indexable(e, p, f, q, row) /\ Indexable(f, q, e, p, row)
Inside(e, p) == p.row + e.rows <= NumRegisters /\ p.col + e.cols <= 4
CompatibleWith(S, e, p) == Inside(e, p) /\ \A j \in S : Compatible(e, p, elems[j], loc[j])

Located == {i \in DOMAIN loc : loc[i] # None}
Clips == {i \in Located : elems[i].kind = "clip"}
AllRows(S) == UNION {RowsOf(elems[i], loc[i]) : i \in S}
Packer == strategy # "foreign"
Finished == strategy = "prefix" \/ (Packer /\ phase \in {"packed", "validate", "done"})

TypeOK ==
  /\ elems \in Seq(Element) /\ DOMAIN loc = DOMAIN elems
  /\ DOMAIN regs = 0 .. NumRegisters - 1
  /\ rowsUsed \in 0 .. NumRegisters /\ start \in 0 .. NumRegisters
  /\ Len(clip.held) <= 2 /\ judge.next \in 1 .. Len(elems) + 1

\* Whatever the strategy, no two packed elements are in each other's way:
\* the flags kept per component amount to the rules for pairs.
PackedLegal ==
  /\ TypeOK
  /\ Packer => \A i \in Located : CompatibleWith(Located \ {i}, elems[i], loc[i])

\* The validator refuses an element exactly when it conflicts with one it has
\* accepted, in whatever order the elements come.
ValidatorExact ==
  \A i \in judge.placed \cup judge.refused :
    i \in judge.placed <=>
      CompatibleWith({j \in judge.placed : j < i}, elems[i], loc[i])

\* Clip and cull distances share two registers, however many elements there
\* are, and under the prefix-stable strategy nothing else is in these.
ClipTwoRows ==
  Packer =>
    /\ Cardinality(AllRows(Clips)) <= 2
    /\ strategy = "prefix" =>
         /\ AllRows(Clips) \subseteq ToSet(clip.held)
         /\ AllRows(Located \ Clips) \cap ToSet(clip.held) = {}

\* An element is left out only if no place is compatible with the others (and
\* with the rows held for clip and cull distances).
FailsOnlyWhenFull ==
  Finished => \A i \in DOMAIN elems \ Located :
    elems[i].kind = "clip" \/ (elems[i].kind = "tess" /\ elems[i].rows > 1) \/
    \A row \in 0 .. NumRegisters - 1, col \in Columns :
      LET p == [row |-> row, col |-> col] IN
      ~ /\ CompatibleWith(Located, elems[i], p)
        /\ RowsOf(elems[i], p) \cap ToSet(clip.held) = {}

\* The assertion of PackOptimized: a pair of rows that takes the clip/cull
\* elements in the trial takes them.
PredictionHolds ==
  predicted => \A i \in DOMAIN elems : elems[i].kind = "clip" => loc[i] # None

=============================================================================
