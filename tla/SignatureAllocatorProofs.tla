---------------------- MODULE SignatureAllocatorProofs ----------------------
(***************************************************************************)
(* Proofs about SignatureAllocator: what the flags kept per component      *)
(* amount to, what the searches find, and from these that no two packed    *)
(* elements get in each other's way, that clip and cull distances have two *)
(* rows of their own, that the validator refuses exactly the conflicting   *)
(* elements, that the trial of PackOptimized tells what the packing does,  *)
(* and that an element is left out only for want of a place.               *)
(***************************************************************************)
EXTENDS SignatureAllocator, FiniteSetTheorems, NaturalsInduction, SequenceTheorems, TLAPS

-----------------------------------------------------------------------------
(* Items: an element at a place, under some name.                           *)

Modeless == \E e \in Declared : e.interp = Undefined
\* What may be placed: a declared element, or one put in its place.
Shape == {e \in Element : /\ e.rows = 1 \/ e.kind \notin {"sv", "sgv"}
                          /\ e.width # Undefined
                          /\ e.interp = Undefined <=> Modeless}
Item == [id : Int, shape : Shape, at : Place]

\* What a shader declares may be placed.
LEMMA DeclaredShapes == Declared \subseteq Shape
BY SignatureAssumption DEF Shape, Modeless

On(X, r) == {x \in X : r \in RowsOf(x.shape, x.at)}
\* The rules for a pair, on one row.
Agree(e, p, f, q, row) ==
  /\ Span(p.col, e) \cap Span(q.col, f) = {}
  /\ e.interp = f.interp /\ e.width = f.width
  /\ Ordered(e, p, f, q) /\ Ordered(f, q, e, p)
  /\ Indexable(e, p, f, q, row) /\ Indexable(f, q, e, p, row)

\* Compatible elements agree on every row both lie on.
LEMMA CompatibleRows ==
  ASSUME NEW e, NEW p, NEW f, NEW q
  PROVE  Compatible(e, p, f, q) <=> \A row \in RowsOf(e, p) \cap RowsOf(f, q) : Agree(e, p, f, q, row)
BY DEF Compatible, Agree

\* The flags of a component say what may not lie there.
LEMMA FlagsByRank ==
  ASSUME NEW k \in Kinds, NEW m \in Kinds
  PROVE  /\ m \in GetConflictFlagsLeft(k) <=> Rank(m) > Rank(k)
         /\ m \in GetConflictFlagsRight(k) <=> Rank(m) < Rank(k)
         /\ Rank(k) \in Nat
<1>1. k \in {"arb", "sv", "sgv", "tess", "clip"} /\ m \in {"arb", "sv", "sgv", "tess", "clip"}
  BY DEF Kinds
<1> QED  BY <1>1 DEF GetConflictFlagsLeft, GetConflictFlagsRight, Rank, SystemValues

Shuts(y, k, c) ==
  \/ c < y.at.col /\ Rank(k) > Rank(y.shape.kind)
  \/ c >= y.at.col + y.shape.cols /\ Rank(k) < Rank(y.shape.kind)

Flags == {"up", "down"}
Register == [comp : [Columns -> [used : BOOLEAN, kinds : SUBSET Kinds]],
             interp : Nat, index : SUBSET Flags, fixed : BOOLEAN, width : Nat]
\* Register reg is that of row r when the items Y lie there.
HoldsRow(reg, Y, r) ==
  /\ reg \in Register
  /\ \A c \in Columns : reg.comp[c].used <=> \E y \in Y : c \in Span(y.at.col, y.shape)
  /\ \A c \in Columns, k \in Kinds :
       ~reg.comp[c].used => (k \in reg.comp[c].kinds <=> \E y \in Y : Shuts(y, k, c))
  /\ \A f \in Flags : f \in reg.index <=> \E y \in Y : f \in IndexAt(y.shape, y.at, r)
  /\ reg.fixed <=> \E y \in Y : y.shape.kind \in {"sgv", "sv", "tess"}
  /\ Y = {} => reg.interp = Undefined /\ reg.width = Undefined
  /\ \A y \in Y : reg.interp = y.shape.interp /\ reg.width = y.shape.width

\* Items that lie on row r, inside its columns, and agree.
Row(Y, r) ==
  /\ Y \subseteq Item
  /\ \A y \in Y : r \in RowsOf(y.shape, y.at) /\ y.at.col + y.shape.cols <= 4
  /\ \A y, z \in Y : y # z => Agree(y.shape, y.at, z.shape, z.at, r)

\* The index flags of an element on a row.
LEMMA FlagsType ==
  ASSUME NEW e, NEW p, NEW r
  PROVE  IndexAt(e, p, r) \subseteq Flags /\ GetIndexFlags(r - p.row, e.rows) = IndexAt(e, p, r)
BY DEF IndexAt, GetIndexFlags, Flags

\* The parts of an element.
LEMMA ShapeType ==
  ASSUME NEW e \in Shape
  PROVE  /\ e.kind \in Kinds /\ e.rows \in 1 .. 2 /\ e.cols \in 1 .. 4 /\ e.interp \in Nat /\ e.width \in Nat
         /\ e.width # 0 /\ (e.interp = 0 <=> Modeless) /\ (e.kind \in {"sv", "sgv"} => e.rows = 1)
BY DEF Shape, Element, Undefined

\* System and generated values have one row, and no index flags.
LEMMA PlainFlags ==
  ASSUME NEW e \in Shape, NEW p \in Place, NEW r \in RowsOf(e, p), e.kind \in {"sv", "sgv"}
  PROVE  IndexAt(e, p, r) = {}
<1>1. e.rows = 1 /\ p.row \in Nat
  BY ShapeType DEF Place
<1>2. r - p.row = 0
  BY <1>1 DEF RowsOf
<1> QED  BY <1>1, <1>2 DEF IndexAt, GetIndexFlags

\* A new element is taken exactly if it agrees with all items on the row.
LEMMA OpenColumns ==
  ASSUME NEW reg, NEW Y, NEW r \in Nat, HoldsRow(reg, Y, r), Row(Y, r),
         NEW e \in Shape, NEW p \in Place, p.col + e.cols <= 4
  PROVE  (\A c \in Span(p.col, e) : Open(reg, e, c))
           <=> \A y \in Y : /\ Span(p.col, e) \cap Span(y.at.col, y.shape) = {}
                            /\ Ordered(e, p, y.shape, y.at) /\ Ordered(y.shape, y.at, e, p)
<1>1. p.col \in Nat /\ e.cols \in 1 .. 4 /\ e.kind \in Kinds /\ Rank(e.kind) \in Nat
  BY ShapeType, FlagsByRank DEF Place
<1>2. Span(p.col, e) \subseteq Columns /\ p.col \in Span(p.col, e)
  BY <1>1 DEF Span, Columns
<1>3. ASSUME NEW y \in Y
      PROVE  /\ y.at.col \in Nat /\ y.shape.cols \in 1 .. 4 /\ Rank(y.shape.kind) \in Nat
             /\ y.at.col + y.shape.cols <= 4
  BY ShapeType, FlagsByRank DEF Row, Item, Place
<1>4. ASSUME \A c \in Span(p.col, e) : Open(reg, e, c), NEW y \in Y
      PROVE  /\ Span(p.col, e) \cap Span(y.at.col, y.shape) = {}
             /\ Ordered(e, p, y.shape, y.at) /\ Ordered(y.shape, y.at, e, p)
  <2>1. \A c \in Span(p.col, e) : c \notin Span(y.at.col, y.shape)
    BY <1>2, <1>4 DEF Open, HoldsRow
  <2>2. ~Shuts(y, e.kind, p.col)
    BY <1>1, <1>2, <1>4 DEF Open, HoldsRow
  <2>3. y.at.col \notin Span(p.col, e)
    <3>1. y.at.col \in Span(y.at.col, y.shape)
      BY <1>3 DEF Span
    <3> QED  BY <2>1, <3>1
  <2>4. p.col < y.at.col \/ p.col >= y.at.col + y.shape.cols
    <3>1. p.col \notin Span(y.at.col, y.shape)
      BY <1>2, <2>1
    <3> QED  BY <1>1, <1>3, <3>1 DEF Span
  <2> QED  BY <1>1, <1>3, <2>1, <2>2, <2>4 DEF Shuts, Ordered
<1>5. ASSUME \A y \in Y : /\ Span(p.col, e) \cap Span(y.at.col, y.shape) = {}
                          /\ Ordered(e, p, y.shape, y.at) /\ Ordered(y.shape, y.at, e, p),
             NEW c \in Span(p.col, e)
      PROVE  Open(reg, e, c)
  <2>1. c \in Columns /\ ~reg.comp[c].used
    BY <1>2, <1>5 DEF HoldsRow
  <2>2. ASSUME NEW y \in Y PROVE ~Shuts(y, e.kind, c)
    <3>1. /\ \A d \in Span(p.col, e) : d \notin Span(y.at.col, y.shape)
          /\ Ordered(e, p, y.shape, y.at) /\ Ordered(y.shape, y.at, e, p)
      BY <1>5
    <3>2. p.col <= c /\ c <= p.col + e.cols - 1 /\ c \in Nat
      BY <1>1 DEF Span
    <3>3. p.col < y.at.col => p.col + e.cols <= y.at.col
      <4>1. SUFFICES ASSUME p.col < y.at.col, y.at.col <= p.col + e.cols - 1 PROVE FALSE
        BY <1>1, <1>3
      <4>2. y.at.col \in Span(p.col, e) /\ y.at.col \in Span(y.at.col, y.shape)
        BY <1>1, <1>3, <4>1 DEF Span
      <4> QED  BY <3>1, <4>2
    <3>4. p.col >= y.at.col => p.col >= y.at.col + y.shape.cols
      <4>1. SUFFICES ASSUME p.col >= y.at.col, p.col <= y.at.col + y.shape.cols - 1 PROVE FALSE
        BY <1>1, <1>3
      <4>2. p.col \in Span(y.at.col, y.shape)
        BY <1>1, <1>3, <4>1 DEF Span
      <4> QED  BY <1>2, <3>1, <4>2
    <3>5. CASE p.col < y.at.col
      <4>1. Rank(e.kind) <= Rank(y.shape.kind) /\ c < y.at.col
        BY <1>1, <1>3, <3>1, <3>2, <3>3, <3>5 DEF Ordered
      <4> QED  BY <1>1, <1>3, <3>2, <4>1 DEF Shuts
    <3>6. CASE p.col >= y.at.col
      <4>1. y.at.col < p.col /\ c >= y.at.col + y.shape.cols
        BY <1>1, <1>3, <3>2, <3>4, <3>6
      <4>2. Rank(y.shape.kind) <= Rank(e.kind)
        BY <3>1, <4>1 DEF Ordered
      <4> QED  BY <1>1, <1>3, <3>2, <4>1, <4>2 DEF Shuts
    <3> QED  BY <1>1, <1>3, <3>5, <3>6
  <2>3. e.kind \notin reg.comp[c].kinds
    BY <1>1, <2>1, <2>2 DEF HoldsRow
  <2> QED  BY <2>1, <2>3 DEF Open
<1> QED  BY <1>4, <1>5

\* The flags, modes and widths of the row.
LEMMA NoClash ==
  ASSUME NEW reg, NEW Y, NEW r \in Nat, HoldsRow(reg, Y, r), Row(Y, r),
         NEW e \in Shape, NEW p \in Place, r \in RowsOf(e, p)
  PROVE  ~Clashes(reg, e, r - p.row)
           <=> \A y \in Y : /\ e.interp = y.shape.interp /\ e.width = y.shape.width
                            /\ Indexable(e, p, y.shape, y.at, r) /\ Indexable(y.shape, y.at, e, p, r)
<1> DEFINE mine == IndexAt(e, p, r)
           Its(y) == IndexAt(y.shape, y.at, r)
<1>1. /\ mine \subseteq Flags /\ GetIndexFlags(r - p.row, e.rows) = mine
      /\ \A y \in Y : Its(y) \subseteq Flags
  BY FlagsType
<1>2. \A f \in Flags : f \in reg.index <=> \E y \in Y : f \in Its(y)
  BY DEF HoldsRow
<1>3. reg.index \subseteq Flags /\ reg.interp \in Nat /\ reg.width \in Nat /\ reg.fixed \in BOOLEAN
  BY DEF HoldsRow, Register
<1>4. e.kind \in {"sv", "sgv"} => mine = {}
  BY PlainFlags
<1>5. ASSUME NEW y \in Y
      PROVE  /\ y.shape \in Shape /\ y.shape.kind \in Kinds
             /\ y.shape.kind \in {"sv", "sgv"} => Its(y) = {}
             /\ y.shape.interp = reg.interp /\ y.shape.width = reg.width
             /\ \A z \in Y : z # y => /\ y.shape.kind \in {"sv", "sgv"} => Its(z) = {}
                                      /\ y.shape.kind = "tess" => Its(z) \subseteq Its(y)
  <2>1. y.shape \in Shape /\ y.at \in Place /\ r \in RowsOf(y.shape, y.at)
    BY DEF Row, Item
  <2>2. ASSUME NEW z \in Y, z # y
        PROVE  /\ y.shape.kind \in {"sv", "sgv"} => Its(z) = {}
               /\ y.shape.kind = "tess" => Its(z) \subseteq Its(y)
    <3>1. Indexable(y.shape, y.at, z.shape, z.at, r)
      BY <2>2 DEF Row, Agree
    <3> QED  BY <3>1 DEF Indexable, ConflictsWithIndexed
  <2> QED  BY <2>1, <2>2, PlainFlags, ShapeType DEF HoldsRow
<1> HIDE DEF mine, Its
<1>6. Clashes(reg, e, r - p.row) <=>
        \/ reg.index # {} /\ e.kind \in {"sv", "sgv"}
        \/ reg.fixed /\ ~ mine \subseteq reg.index
        \/ e.kind = "tess" /\ ~ reg.index \subseteq mine
        \/ reg.interp \notin {Undefined, e.interp}
        \/ reg.width \notin {Undefined, e.width}
  BY <1>1 DEF Clashes, ConflictsWithIndexed
<1>7. \A y \in Y : /\ Indexable(e, p, y.shape, y.at, r) <=>
                        /\ e.kind \in {"sv", "sgv"} => Its(y) = {}
                        /\ e.kind = "tess" => Its(y) \subseteq mine
                   /\ Indexable(y.shape, y.at, e, p, r) <=>
                        /\ y.shape.kind \in {"sv", "sgv"} => mine = {}
                        /\ y.shape.kind = "tess" => mine \subseteq Its(y)
  BY DEF Indexable, ConflictsWithIndexed, mine, Its
<1>8. reg.fixed <=> \E y \in Y : y.shape.kind \in {"sgv", "sv", "tess"}
  BY DEF HoldsRow
<1>9. \A y \in Y : Its(y) \subseteq reg.index
  BY <1>1, <1>2
<1>10. ASSUME NEW y \in Y, y.shape.kind \in {"sv", "sgv"} PROVE reg.index = {}
  <2>1. \A z \in Y : Its(z) = {}
    BY <1>5, <1>10
  <2> QED  BY <1>2, <1>3, <2>1
<1>11. ASSUME NEW y \in Y, y.shape.kind = "tess" PROVE reg.index = Its(y)
  <2>1. \A z \in Y : Its(z) \subseteq Its(y)
    BY <1>5, <1>11
  <2> QED  BY <1>2, <1>3, <1>9, <2>1
<1>12. e.interp \in Nat /\ e.width \in Nat /\ e.width # 0 /\ (e.interp = 0 <=> Modeless) /\ e.kind \in Kinds
  BY ShapeType
<1>13. ASSUME ~Clashes(reg, e, r - p.row), NEW y \in Y
       PROVE  /\ e.interp = y.shape.interp /\ e.width = y.shape.width
              /\ Indexable(e, p, y.shape, y.at, r) /\ Indexable(y.shape, y.at, e, p, r)
  <2>1. /\ e.kind \in {"sv", "sgv"} => reg.index = {}
        /\ reg.fixed => mine \subseteq reg.index
        /\ e.kind = "tess" => reg.index \subseteq mine
        /\ reg.interp = 0 \/ reg.interp = e.interp
        /\ reg.width = 0 \/ reg.width = e.width
    BY <1>6, <1>13 DEF Undefined
  <2>2. e.width = y.shape.width
    BY <1>5, <2>1, ShapeType
  <2>3. e.interp = y.shape.interp
    BY <1>5, <1>12, <2>1, ShapeType
  <2>4. Indexable(e, p, y.shape, y.at, r)
    BY <1>7, <1>9, <2>1
  <2>5. y.shape.kind \in {"sv", "sgv"} => mine = {}
    BY <1>8, <1>10, <2>1
  <2>6. y.shape.kind = "tess" => mine \subseteq Its(y)
    BY <1>8, <1>11, <2>1
  <2> QED  BY <1>7, <2>2, <2>3, <2>4, <2>5, <2>6
<1>14. ASSUME \A y \in Y : /\ e.interp = y.shape.interp /\ e.width = y.shape.width
                           /\ Indexable(e, p, y.shape, y.at, r) /\ Indexable(y.shape, y.at, e, p, r)
       PROVE  ~Clashes(reg, e, r - p.row)
  <2>1. e.kind \in {"sv", "sgv"} => reg.index = {}
    BY <1>2, <1>3, <1>7, <1>14
  <2>2. reg.fixed => mine \subseteq reg.index
    <3>1. SUFFICES ASSUME reg.fixed PROVE mine \subseteq reg.index
      OBVIOUS
    <3>2. PICK y \in Y : y.shape.kind \in {"sgv", "sv", "tess"}
      BY <1>8, <3>1
    <3> QED  BY <1>7, <1>9, <1>14, <3>2
  <2>3. e.kind = "tess" => reg.index \subseteq mine
    BY <1>2, <1>3, <1>7, <1>14
  <2>4. reg.interp \in {Undefined, e.interp} /\ reg.width \in {Undefined, e.width}
    BY <1>5, <1>14 DEF HoldsRow
  <2> QED  BY <1>6, <2>1, <2>2, <2>3, <2>4
<1> QED  BY <1>13, <1>14

\* Together: what the allocator takes on a row agrees with what lies there.
LEMMA RowAccepts ==
  ASSUME NEW reg, NEW Y, NEW r \in Nat, HoldsRow(reg, Y, r), Row(Y, r),
         NEW e \in Shape, NEW p \in Place, p.col + e.cols <= 4, r \in RowsOf(e, p)
  PROVE  ~Clashes(reg, e, r - p.row) /\ (\A c \in Span(p.col, e) : Open(reg, e, c))
           <=> \A y \in Y : Agree(e, p, y.shape, y.at, r)
<1>1. ~Clashes(reg, e, r - p.row)
           <=> \A y \in Y : /\ e.interp = y.shape.interp /\ e.width = y.shape.width
                            /\ Indexable(e, p, y.shape, y.at, r) /\ Indexable(y.shape, y.at, e, p, r)
  BY NoClash
<1>2. (\A c \in Span(p.col, e) : Open(reg, e, c))
           <=> \A y \in Y : /\ Span(p.col, e) \cap Span(y.at.col, y.shape) = {}
                            /\ Ordered(e, p, y.shape, y.at) /\ Ordered(y.shape, y.at, e, p)
  BY OpenColumns
<1> QED  BY <1>1, <1>2 DEF Agree

\* Agreement does not depend on the order of the two.
LEMMA AgreeSymmetric ==
  ASSUME NEW e, NEW p, NEW f, NEW q, NEW r, Agree(e, p, f, q, r) PROVE Agree(f, q, e, p, r)
BY DEF Agree

\* The register after a new item is that of all items.
LEMMA RowOccupied ==
  ASSUME NEW reg, NEW Y, NEW r \in Nat, HoldsRow(reg, Y, r), Row(Y, r),
         NEW x \in Item, x.at.col + x.shape.cols <= 4, r \in RowsOf(x.shape, x.at),
         \A y \in Y : Agree(x.shape, x.at, y.shape, y.at, r)
  PROVE  /\ HoldsRow(Occupy(reg, x.shape, r - x.at.row, x.at.col), Y \cup {x}, r)
         /\ Row(Y \cup {x}, r)
<1> DEFINE e == x.shape
           p == x.at
           Z == Y \cup {x}
           new == Occupy(reg, e, r - p.row, p.col)
<1>1. /\ e \in Shape /\ p \in Place /\ p.col \in Nat /\ e.cols \in 1 .. 4 /\ e.kind \in Kinds
      /\ e.interp \in Nat /\ e.width \in Nat /\ Rank(e.kind) \in Nat /\ p.col + e.cols <= 4
  BY ShapeType, FlagsByRank DEF Item, Place
<1>2. Span(p.col, e) \subseteq Columns /\ \A c \in Columns : c \in Int /\ (c \in Span(p.col, e) <=> (c >= p.col /\ c < p.col + e.cols))
  BY <1>1 DEF Span, Columns
<1>3. GetIndexFlags(r - p.row, e.rows) = IndexAt(e, p, r) /\ IndexAt(e, p, r) \subseteq Flags
  BY FlagsType
<1>4. /\ reg \in Register
      /\ \A c \in Columns : reg.comp[c] \in [used : BOOLEAN, kinds : SUBSET Kinds]
      /\ reg.index \subseteq Flags /\ reg.fixed \in BOOLEAN
  BY DEF HoldsRow, Register
<1>5. \A c \in Span(p.col, e) : Open(reg, e, c)
  BY <1>1, RowAccepts
<1>6. /\ new.interp = e.interp /\ new.width = e.width
      /\ new.index = reg.index \cup IndexAt(e, p, r)
      /\ new.fixed = (reg.fixed \/ e.kind \in ConflictsWithIndexed \cup {"tess"})
  BY <1>3 DEF Occupy
<1>7. ASSUME NEW c \in Columns
      PROVE  /\ c \in Span(p.col, e) => new.comp[c] = [used |-> TRUE, kinds |-> {e.kind}] /\ ~reg.comp[c].used
             /\ c \notin Span(p.col, e) => new.comp[c].used = reg.comp[c].used
             /\ c \notin Span(p.col, e) /\ reg.comp[c].used => new.comp[c] = reg.comp[c]
             /\ c \notin Span(p.col, e) /\ ~reg.comp[c].used =>
                  new.comp[c] = [used |-> FALSE,
                                 kinds |-> reg.comp[c].kinds \cup
                                   (IF c < p.col THEN GetConflictFlagsLeft(e.kind)
                                                 ELSE GetConflictFlagsRight(e.kind))]
  <2> DEFINE k == reg.comp[c]
  <2>1. new.comp[c] = CASE k.used -> k
       [] ~k.used /\ c \in Span(p.col, e) -> [used |-> TRUE, kinds |-> {e.kind}]
       [] ~k.used /\ c < p.col -> [k EXCEPT !.kinds = @ \cup GetConflictFlagsLeft(e.kind)]
       [] ~k.used /\ c >= p.col + e.cols -> [k EXCEPT !.kinds = @ \cup GetConflictFlagsRight(e.kind)]
    <3>1. new.comp[c] = CompAfter(k, c, e, p.col)
      BY DEF Occupy
    <3> QED  BY <3>1 DEF CompAfter
  <2>2. k \in [used : BOOLEAN, kinds : SUBSET Kinds]
    BY <1>4
  <2>3. c \in Span(p.col, e) => ~k.used
    BY <1>5 DEF Open
  <2>4. (c \in Span(p.col, e) <=> (c >= p.col /\ c < p.col + e.cols)) /\ c \in Int
    BY <1>2
  <2> HIDE DEF new, k, e, p
  <2>5. CASE c \in Span(p.col, e)
    <3>1. ~k.used /\ ~(c < p.col) /\ ~(c >= p.col + e.cols)
      BY <1>1, <2>3, <2>4, <2>5
    <3>2. new.comp[c] = [used |-> TRUE, kinds |-> {e.kind}]
      BY <2>1, <2>5, <3>1
    <3> QED  BY <2>5, <3>1, <3>2 DEF k
  <2>6. CASE c \notin Span(p.col, e) /\ k.used
    BY <1>1, <2>1, <2>2, <2>4, <2>6 DEF k
  <2>7. CASE c \notin Span(p.col, e) /\ ~k.used /\ c < p.col
    <3>1. new.comp[c] = [k EXCEPT !.kinds = @ \cup GetConflictFlagsLeft(e.kind)]
      BY <1>1, <2>1, <2>4, <2>7
    <3> QED  BY <2>2, <2>7, <3>1 DEF k
  <2>8. CASE c \notin Span(p.col, e) /\ ~k.used /\ c >= p.col + e.cols
    <3>1. new.comp[c] = [k EXCEPT !.kinds = @ \cup GetConflictFlagsRight(e.kind)] /\ ~(c < p.col)
      BY <1>1, <2>1, <2>4, <2>8
    <3> QED  BY <2>2, <2>8, <3>1 DEF k
  <2> QED  BY <1>1, <2>4, <2>5, <2>6, <2>7, <2>8 DEF k
<1> HIDE DEF new
<1>8. \A k \in Kinds : \A c \in Columns \ Span(p.col, e) :
        (IF c < p.col THEN k \in GetConflictFlagsLeft(e.kind) ELSE k \in GetConflictFlagsRight(e.kind))
          <=> Shuts(x, k, c)
  BY <1>1, <1>2, FlagsByRank DEF Shuts
<1>9. new \in Register
  <2>1. \A c \in Columns : new.comp[c] \in [used : BOOLEAN, kinds : SUBSET Kinds]
    <3> TAKE c \in Columns
    <3>1. GetConflictFlagsLeft(e.kind) \subseteq Kinds /\ GetConflictFlagsRight(e.kind) \subseteq Kinds
      BY <1>1 DEF GetConflictFlagsLeft, GetConflictFlagsRight, Kinds, SystemValues
    <3>2. reg.comp[c] \in [used : BOOLEAN, kinds : SUBSET Kinds]
      BY <1>4
    <3>3. CASE c \in Span(p.col, e)
      <4>1. new.comp[c] = [used |-> TRUE, kinds |-> {e.kind}] /\ e.kind \in Kinds
        BY <1>1, <1>7, <3>3
      <4> QED  BY <4>1
    <3>4. CASE c \notin Span(p.col, e) /\ reg.comp[c].used
      BY <1>7, <3>2, <3>4
    <3>5. CASE c \notin Span(p.col, e) /\ ~reg.comp[c].used
      <4>1. PICK A \in SUBSET Kinds : new.comp[c] = [used |-> FALSE, kinds |-> reg.comp[c].kinds \cup A]
        BY <1>7, <3>1, <3>5
      <4>2. reg.comp[c].kinds \in SUBSET Kinds
        BY <3>2
      <4>3. reg.comp[c].kinds \cup A \in SUBSET Kinds
        BY <4>2
      <4> QED  BY <4>1, <4>3
    <3> QED  BY <3>2, <3>3, <3>4, <3>5
  <2>2. new = [comp |-> new.comp, interp |-> new.interp, index |-> new.index, fixed |-> new.fixed, width |-> new.width]
    BY DEF new, Occupy
  <2>3. new.comp \in [Columns -> [used : BOOLEAN, kinds : SUBSET Kinds]]
    <3>1. new.comp = [c \in Columns |-> CompAfter(reg.comp[c], c, e, p.col)]
      BY DEF new, Occupy
    <3> QED  BY <2>1, <3>1
  <2> QED  BY <1>1, <1>3, <1>4, <1>6, <2>2, <2>3 DEF Register
<1>10. ASSUME NEW c \in Columns PROVE new.comp[c].used <=> \E y \in Z : c \in Span(y.at.col, y.shape)
  <2>1. reg.comp[c].used <=> \E y \in Y : c \in Span(y.at.col, y.shape)
    BY DEF HoldsRow
  <2>2. x \in Z /\ Y \subseteq Z /\ Z = Y \cup {x}
    OBVIOUS
  <2>3. CASE c \in Span(p.col, e)
    <3>1. new.comp[c].used
      <4>1. new.comp[c] = [used |-> TRUE, kinds |-> {e.kind}]
        BY <1>7, <2>3
      <4> QED  BY <4>1
    <3> QED  BY <2>2, <2>3, <3>1
  <2>4. CASE c \notin Span(p.col, e)
    <3>1. new.comp[c].used = reg.comp[c].used
      BY <1>7, <2>4
    <3> QED  BY <2>1, <2>2, <2>4, <3>1
  <2> QED  BY <2>3, <2>4
<1>11. ASSUME NEW c \in Columns, NEW k \in Kinds, ~new.comp[c].used
       PROVE  k \in new.comp[c].kinds <=> \E y \in Z : Shuts(y, k, c)
  <2>1. c \notin Span(p.col, e) /\ ~reg.comp[c].used
    <3>1. c \notin Span(p.col, e)
      <4>1. SUFFICES ASSUME c \in Span(p.col, e) PROVE new.comp[c].used
        BY <1>11
      <4>2. new.comp[c] = [used |-> TRUE, kinds |-> {e.kind}]
        BY <1>7, <4>1
      <4> QED  BY <4>2
    <3>2. new.comp[c].used = reg.comp[c].used
      BY <1>7, <3>1
    <3> QED  BY <1>11, <3>1, <3>2
  <2>2. k \in reg.comp[c].kinds <=> \E y \in Y : Shuts(y, k, c)
    BY <2>1 DEF HoldsRow
  <2>3. k \in new.comp[c].kinds <=> (k \in reg.comp[c].kinds \/ Shuts(x, k, c))
    <3>1. new.comp[c] = [used |-> FALSE,
                         kinds |-> reg.comp[c].kinds \cup
                           (IF c < p.col THEN GetConflictFlagsLeft(e.kind)
                                         ELSE GetConflictFlagsRight(e.kind))]
      BY <1>7, <2>1
    <3>2. (IF c < p.col THEN k \in GetConflictFlagsLeft(e.kind) ELSE k \in GetConflictFlagsRight(e.kind))
            <=> Shuts(x, k, c)
      BY <1>8, <2>1
    <3>3. new.comp[c].kinds = reg.comp[c].kinds \cup
                           (IF c < p.col THEN GetConflictFlagsLeft(e.kind)
                                         ELSE GetConflictFlagsRight(e.kind))
      BY <3>1
    <3> HIDE DEF e, p
    <3> QED  BY <3>2, <3>3
  <2> QED  BY <2>2, <2>3
<1>12. \A f \in Flags : f \in new.index <=> \E y \in Z : f \in IndexAt(y.shape, y.at, r)
  BY <1>6 DEF HoldsRow
<1>13. new.fixed <=> \E y \in Z : y.shape.kind \in {"sgv", "sv", "tess"}
  BY <1>6 DEF HoldsRow, ConflictsWithIndexed
<1>14. \A y \in Z : new.interp = y.shape.interp /\ new.width = y.shape.width
  BY <1>6 DEF Agree
<1>15. Row(Z, r)
  <2>1. ASSUME NEW y \in Z, NEW z \in Z, y # z PROVE Agree(y.shape, y.at, z.shape, z.at, r)
    BY <2>1, AgreeSymmetric DEF Row
  <2> QED  BY <2>1 DEF Row
<1> QED  BY <1>9, <1>10, <1>11, <1>12, <1>13, <1>14, <1>15 DEF HoldsRow, new

-----------------------------------------------------------------------------
(* An allocator of n rows.                                                  *)

Within(x, n) == x.at.row + x.shape.rows <= n /\ x.at.col + x.shape.cols <= 4
\* The registers rs are what the items X make of n empty ones.
Holds(rs, n, X) ==
  /\ DOMAIN rs = 0 .. n - 1 /\ X \subseteq Item /\ \A x \in X : Within(x, n)
  /\ \A r \in 0 .. n - 1 : HoldsRow(rs[r], On(X, r), r) /\ Row(On(X, r), r)

\* What the allocator looks at in the rows of e at p.
Taken(rs, n, e, p) ==
  /\ p.row + e.rows <= n /\ p.col + e.cols <= 4
  /\ \A r \in RowsOf(e, p) :
       ~Clashes(rs[r], e, r - p.row) /\ \A c \in Span(p.col, e) : Open(rs[r], e, c)

\* The rows of an element, counted from its place and from row 0.
LEMMA Rows ==
  ASSUME NEW e, e.rows \in 1 .. 2, NEW p \in Place, NEW n \in Nat, p.row + e.rows <= n
  PROVE  /\ \A r \in RowsOf(e, p) : r \in 0 .. n - 1 /\ r - p.row \in 0 .. e.rows - 1 /\ p.row + (r - p.row) = r
         /\ \A i \in 0 .. e.rows - 1 : p.row + i \in RowsOf(e, p) /\ (p.row + i) - p.row = i
<1>1. p.row \in Nat
  BY DEF Place
<1> QED  BY <1>1 DEF RowsOf

\* No two items are in each other's way.
LEMMA HoldsLegal ==
  ASSUME NEW rs, NEW n \in Nat, NEW X, Holds(rs, n, X), NEW x \in X, NEW y \in X, x # y
  PROVE  Compatible(x.shape, x.at, y.shape, y.at)
<1>1. SUFFICES ASSUME NEW r \in RowsOf(x.shape, x.at) \cap RowsOf(y.shape, y.at)
               PROVE  Agree(x.shape, x.at, y.shape, y.at, r)
  BY CompatibleRows
<1>2. x.shape \in Shape /\ x.at \in Place /\ x.at.row + x.shape.rows <= n
  BY DEF Holds, Item, Within
<1>3. r \in 0 .. n - 1
  BY <1>2, Rows, ShapeType
<1>4. x \in On(X, r) /\ y \in On(X, r) /\ Row(On(X, r), r)
  BY <1>3 DEF Holds, On
<1> QED  BY <1>4 DEF Row

\* Taken means compatible with every item.
LEMMA TakenExactly ==
  ASSUME NEW rs, NEW n \in Nat, NEW X, Holds(rs, n, X), NEW e \in Shape, NEW p \in Place
  PROVE  Taken(rs, n, e, p) <=>
           /\ p.row + e.rows <= n /\ p.col + e.cols <= 4
           /\ \A x \in X : Compatible(e, p, x.shape, x.at)
<1> SUFFICES ASSUME p.row + e.rows <= n, p.col + e.cols <= 4
             PROVE  (\A r \in RowsOf(e, p) :
                       ~Clashes(rs[r], e, r - p.row) /\ \A c \in Span(p.col, e) : Open(rs[r], e, c))
                    <=> \A x \in X : Compatible(e, p, x.shape, x.at)
  BY DEF Taken
<1>1. \A r \in RowsOf(e, p) : r \in 0 .. n - 1
  BY Rows, ShapeType
<1>2. ASSUME NEW r \in RowsOf(e, p)
      PROVE  (~Clashes(rs[r], e, r - p.row) /\ \A c \in Span(p.col, e) : Open(rs[r], e, c))
               <=> \A x \in On(X, r) : Agree(e, p, x.shape, x.at, r)
  <2>1. HoldsRow(rs[r], On(X, r), r) /\ Row(On(X, r), r) /\ r \in Nat
    BY <1>1, <1>2 DEF Holds
  <2> QED  BY <2>1, RowAccepts
<1>3. (\A r \in RowsOf(e, p) : \A x \in On(X, r) : Agree(e, p, x.shape, x.at, r))
        <=> \A x \in X : Compatible(e, p, x.shape, x.at)
  BY CompatibleRows DEF On
<1> QED  BY <1>2, <1>3

\* Placing what is taken.
LEMMA PlacedHolds ==
  ASSUME NEW rs, NEW n \in Nat, NEW X, Holds(rs, n, X), NEW x \in Item, Taken(rs, n, x.shape, x.at)
  PROVE  Holds(PlaceElement(rs, x.shape, x.at), n, X \cup {x})
<1> DEFINE e == x.shape
           p == x.at
           new == PlaceElement(rs, e, p)
<1>1. e \in Shape /\ p \in Place /\ Within(x, n) /\ e.rows \in 1 .. 2
  BY ShapeType DEF Item, Within, Taken
<1>2. \A r \in RowsOf(e, p) : r \in 0 .. n - 1
  BY <1>1, Rows DEF Within
<1>3. \A y \in X : Compatible(e, p, y.shape, y.at)
  BY <1>1, TakenExactly
<1>4. DOMAIN new = 0 .. n - 1
  BY DEF PlaceElement, Holds
<1>5. ASSUME NEW r \in 0 .. n - 1
      PROVE  HoldsRow(new[r], On(X \cup {x}, r), r) /\ Row(On(X \cup {x}, r), r)
  <2>1. HoldsRow(rs[r], On(X, r), r) /\ Row(On(X, r), r)
    BY DEF Holds
  <2>2. CASE r \in RowsOf(e, p)
    <3>1. new[r] = Occupy(rs[r], e, r - p.row, p.col)
      BY <2>2 DEF PlaceElement, RowsOf, Holds
    <3>2. On(X \cup {x}, r) = On(X, r) \cup {x}
      BY <2>2 DEF On
    <3>3. \A y \in On(X, r) : Agree(e, p, y.shape, y.at, r)
      BY <1>3, <2>2, CompatibleRows DEF On
    <3>4. r \in Nat /\ p.col + e.cols <= 4
      BY <1>1 DEF Within
    <3> HIDE DEF new
    <3>5. /\ HoldsRow(Occupy(rs[r], x.shape, r - x.at.row, x.at.col), On(X, r) \cup {x}, r)
          /\ Row(On(X, r) \cup {x}, r)
      BY ONLY <2>1, <2>2, <3>3, <3>4, x \in Item, RowOccupied
    <3> QED  BY <3>1, <3>2, <3>5
  <2>3. CASE r \notin RowsOf(e, p)
    <3>1. new[r] = rs[r]
      BY <2>3 DEF PlaceElement, RowsOf, Holds
    <3>2. On(X \cup {x}, r) = On(X, r)
      BY <2>3 DEF On
    <3> HIDE DEF new
    <3> QED  BY <2>1, <3>1, <3>2
  <2> QED  BY <2>2, <2>3
<1> HIDE DEF new
<1>6. X \cup {x} \subseteq Item /\ \A y \in X \cup {x} : Within(y, n)
  BY <1>1 DEF Holds
<1>7. Holds(new, n, X \cup {x})
  BY <1>4, <1>5, <1>6 DEF Holds
<1> QED  BY <1>7 DEF new

\* Empty registers hold nothing.
LEMMA EmptyHolds == ASSUME NEW n \in Nat PROVE Holds(Registers(n), n, {})
<1>1. DOMAIN Registers(n) = 0 .. n - 1 /\ \A r \in 0 .. n - 1 : Registers(n)[r] = EmptyRegister
  BY DEF Registers
<1>2. \A r : On({}, r) = {}
  BY DEF On
<1>3. EmptyRegister \in Register
  <2>1. [c \in Columns |-> [used |-> FALSE, kinds |-> {}]] \in [Columns -> [used : BOOLEAN, kinds : SUBSET Kinds]]
    OBVIOUS
  <2> QED  BY <2>1 DEF EmptyRegister, Register, Undefined
<1>4. \A r : HoldsRow(EmptyRegister, {}, r)
  BY <1>3 DEF HoldsRow, EmptyRegister
<1>5. \A r : Row({}, r)
  BY DEF Row
<1> QED  BY <1>1, <1>2, <1>4, <1>5 DEF Holds

\* The number of rows, as RowConflict counts them.
LEMMA RowCount ==
  ASSUME NEW rs, NEW n \in Nat, DOMAIN rs = 0 .. n - 1 PROVE Cardinality(DOMAIN rs) = n
<1>1. Cardinality(0 .. n - 1) = IF 0 > n - 1 THEN 0 ELSE (n - 1) - 0 + 1
  BY FS_Interval
<1> QED  BY <1>1

\* DetectRowConflict and DetectColConflict, and how the validator uses them.
LEMMA ConflictFree ==
  ASSUME NEW rs, NEW n \in Nat, DOMAIN rs = 0 .. n - 1,
         NEW e, e.rows \in 1 .. 2, e.cols \in Nat \ {0}, NEW p \in Place
  PROVE  /\ RowConflict(rs, e, p.row) = "none" /\ ~ColConflict(rs, e, p.row, p.col) <=> Taken(rs, n, e, p)
         /\ Accepts(rs, e, p) <=> Taken(rs, n, e, p)
<1>0. p.row \in Nat /\ p.col \in Nat /\ Cardinality(DOMAIN rs) = n
  BY RowCount DEF Place
<1> DEFINE Bad == {i \in 0 .. e.rows - 1 : Clashes(rs[p.row + i], e, i) \/ ~HasRoom(rs[p.row + i], e)}
           Closed(i) == \E c \in Span(p.col, e) : ~Open(rs[p.row + i], e, c)
<1>1. RowConflict(rs, e, p.row) = IF p.row + e.rows > n THEN "fit"
         ELSE IF Bad = {} THEN "none"
         ELSE IF Clashes(rs[p.row + Min(Bad)], e, Min(Bad)) THEN "clash" ELSE "room"
  BY <1>0 DEF RowConflict
<1>2. ColConflict(rs, e, p.row, p.col) <=> p.col + e.cols > 4 \/ \E i \in 0 .. e.rows - 1 : Closed(i)
  BY DEF ColConflict
<1>3. Bad # {} => Min(Bad) \in Bad
  <2>1. Bad \subseteq {0, 1}
    OBVIOUS
  <2> HIDE DEF Bad
  <2>2. Bad # {} => \E m \in Bad : \A k \in Bad : m <= k
    <3>1. CASE 0 \in Bad
      BY <2>1, <3>1
    <3>2. CASE 0 \notin Bad
      <4>1. Bad # {} => Bad = {1}
        BY <2>1, <3>2
      <4> QED  BY <4>1
    <3> QED  BY <3>1, <3>2
  <2> QED  BY <2>2 DEF Min
<1>4. Taken(rs, n, e, p) <=>
        /\ p.row + e.rows <= n /\ p.col + e.cols <= 4
        /\ \A i \in 0 .. e.rows - 1 : ~Clashes(rs[p.row + i], e, i) /\ ~Closed(i)
  <2>1. \A i \in 0 .. e.rows - 1 : p.row + i \in RowsOf(e, p) /\ (p.row + i) - p.row = i
    <3> TAKE i \in 0 .. e.rows - 1
    <3>1. i \in Int /\ 0 <= i /\ i <= e.rows - 1 /\ e.rows \in Int
      OBVIOUS
    <3> QED  BY <1>0, <3>1 DEF RowsOf
  <2>2. \A r \in RowsOf(e, p) : r - p.row \in 0 .. e.rows - 1 /\ p.row + (r - p.row) = r
    BY <1>0 DEF RowsOf
  <2>3. ASSUME Taken(rs, n, e, p), NEW i \in 0 .. e.rows - 1
        PROVE  ~Clashes(rs[p.row + i], e, i) /\ ~Closed(i)
    BY <2>1, <2>3 DEF Taken
  <2>4. ASSUME \A i \in 0 .. e.rows - 1 : ~Clashes(rs[p.row + i], e, i) /\ ~Closed(i), NEW r \in RowsOf(e, p)
        PROVE  ~Clashes(rs[r], e, r - p.row) /\ \A c \in Span(p.col, e) : Open(rs[r], e, c)
    BY <2>2, <2>4
  <2> QED  BY <2>3, <2>4 DEF Taken
<1>5. ASSUME p.col + e.cols <= 4, NEW i \in 0 .. e.rows - 1, ~Closed(i) PROVE HasRoom(rs[p.row + i], e)
  <2>1. p.col \in 0 .. 4 - e.cols
    BY <1>0, <1>5
  <2> QED  BY <1>5, <2>1 DEF HasRoom
<1> HIDE DEF Closed
<1>6. Bad = {} <=> \A i \in 0 .. e.rows - 1 : ~Clashes(rs[p.row + i], e, i) /\ HasRoom(rs[p.row + i], e)
  OBVIOUS
<1>7. ~(p.row + e.rows > n) <=> p.row + e.rows <= n
  BY <1>0
<1>8. ~(p.col + e.cols > 4) <=> p.col + e.cols <= 4
  BY <1>0
<1>9. Taken(rs, n, e, p) => RowConflict(rs, e, p.row) = "none" /\ ~ColConflict(rs, e, p.row, p.col)
  BY <1>1, <1>2, <1>4, <1>5, <1>6, <1>7, <1>8
<1>10. ASSUME RowConflict(rs, e, p.row) \in {"none", "room"}, ~ColConflict(rs, e, p.row, p.col)
       PROVE  Taken(rs, n, e, p)
  <2>1. p.row + e.rows <= n /\ p.col + e.cols <= 4 /\ \A i \in 0 .. e.rows - 1 : ~Closed(i)
    BY <1>1, <1>2, <1>7, <1>8, <1>10
  <2>2. \A i \in 0 .. e.rows - 1 : HasRoom(rs[p.row + i], e)
    BY <1>5, <2>1
  <2>3. Bad # {} => Clashes(rs[p.row + Min(Bad)], e, Min(Bad))
    BY <1>3, <2>2
  <2>4. Bad = {}
    BY <1>1, <1>7, <1>10, <2>1, <2>3
  <2> QED  BY <1>4, <1>6, <2>1, <2>4
<1> QED  BY <1>9, <1>10 DEF Accepts

-----------------------------------------------------------------------------
(* FindNext.                                                                *)

\* A set of naturals has a least one.
LEMMA NatMin ==
  ASSUME NEW S \in SUBSET Nat, S # {}
  PROVE  \E m \in S : \A k \in S : m <= k
<1>1. PICK m \in S : \A k \in S : ~(<<k, m>> \in OpToRel(<, Nat))
  BY NatLessThanWellFounded, WFMin
<1>2. ASSUME NEW k \in S PROVE m <= k
  <2>1. k \in Nat /\ m \in Nat
    OBVIOUS
  <2>2. SUFFICES ASSUME k < m PROVE FALSE
    BY <2>1
  <2>3. <<k, m>> \in OpToRel(<, Nat)
    BY <2>1, <2>2 DEF OpToRel
  <2> QED  BY <1>1, <2>3
<1> QED  BY <1>2

\* Induction over the naturals, for a set rather than an operator.
LEMMA EveryNatural ==
  ASSUME NEW T, 0 \in T, \A n \in Nat : n \in T => n + 1 \in T
  PROVE  Nat \subseteq T
<1> SUFFICES ASSUME Nat \ T # {} PROVE FALSE
  OBVIOUS
<1>1. PICK x \in Nat \ T : \A y \in Nat \ T : x <= y
  BY NatMin
<1>2. x # 0 /\ x - 1 \in Nat /\ (x - 1) + 1 = x
  OBVIOUS
<1>3. x - 1 \in T
  <2>1. ~(x <= x - 1)
    OBVIOUS
  <2> QED  BY <1>1, <1>2, <2>1
<1> QED  BY <1>2, <1>3

\* The first place that the allocator takes, among the rows and columns asked for.
Asked(e, p, startRow, numRows, startCol) ==
  /\ p.row \in startRow .. startRow + numRows - e.rows
  /\ p.col \in startCol .. 4 - e.cols

\* FindNext gives the first place taken of those asked for, by rows and then by
\* columns, or none is.
LEMMA FindNextFirst ==
  ASSUME NEW rs, NEW n \in Nat, DOMAIN rs = 0 .. n - 1, NEW e \in Shape,
         NEW startRow \in Nat, NEW numRows \in Nat, NEW startCol \in Nat
  PROVE  LET at == FindNext(rs, e, startRow, numRows, startCol) IN
         /\ at = None => \A p \in Place : Asked(e, p, startRow, numRows, startCol) => ~Taken(rs, n, e, p)
         /\ at # None =>
              /\ at \in Place /\ Taken(rs, n, e, at) /\ Asked(e, at, startRow, numRows, startCol)
              /\ \A p \in Place : Asked(e, p, startRow, numRows, startCol) /\ Taken(rs, n, e, p) =>
                   at.row < p.row \/ (at.row = p.row /\ at.col <= p.col)
<1> DEFINE at == FindNext(rs, e, startRow, numRows, startCol)
           Places == {p \in [row : startRow .. LastRow(startRow, numRows, e), col : startCol .. 4 - e.cols] :
                        RowConflict(rs, e, p.row) = "none" /\ ~ColConflict(rs, e, p.row, p.col)}
           Before(p, q) == p.row < q.row \/ (p.row = q.row /\ p.col <= q.col)
<1>0. e.rows \in 1 .. 2 /\ e.cols \in 1 .. 4
  BY ShapeType
<1>1. at = IF Places = {} THEN None ELSE CHOOSE p \in Places : \A q \in Places : Before(p, q)
  BY DEF FindNext
<1>2. ASSUME NEW p \in Place
      PROVE  p \in Places <=> Asked(e, p, startRow, numRows, startCol) /\ Taken(rs, n, e, p)
  <2>1. RowConflict(rs, e, p.row) = "none" /\ ~ColConflict(rs, e, p.row, p.col) <=> Taken(rs, n, e, p)
    BY <1>0, ConflictFree
  <2>2. p = [row |-> p.row, col |-> p.col]
    BY DEF Place
  <2>3. p \in [row : startRow .. LastRow(startRow, numRows, e), col : startCol .. 4 - e.cols]
          <=> Asked(e, p, startRow, numRows, startCol)
    BY <2>2 DEF Asked, LastRow
  <2> QED  BY <2>1, <2>3
<1>3. Places \subseteq Place
  <2>1. startRow .. LastRow(startRow, numRows, e) \subseteq Nat /\ startCol .. 4 - e.cols \subseteq Nat
    BY <1>0 DEF LastRow
  <2> QED  BY <2>1 DEF Place
<1> HIDE DEF Places
<1>4. ASSUME Places # {} PROVE \E p \in Places : \A q \in Places : Before(p, q)
  <2> DEFINE Rs == {p.row : p \in Places}
  <2>1. Rs \in SUBSET Nat /\ Rs # {}
    BY <1>3, <1>4 DEF Place
  <2>2. PICK r \in Rs : \A k \in Rs : r <= k
    BY <2>1, NatMin
  <2> DEFINE Cs == {p.col : p \in {q \in Places : q.row = r}}
  <2>3. Cs \in SUBSET Nat /\ Cs # {}
    BY <1>3, <2>2 DEF Place
  <2>4. PICK c \in Cs : \A k \in Cs : c <= k
    BY <2>3, NatMin
  <2>5. PICK p \in Places : p.row = r /\ p.col = c
    BY <2>4
  <2>6. ASSUME NEW q \in Places PROVE Before(p, q)
    <3>1. q.row \in Rs /\ q.row \in Nat /\ r \in Nat /\ r <= q.row /\ (q.row = r => q.col \in Cs)
      BY <1>3, <2>1, <2>2 DEF Place
    <3> QED  BY <2>4, <2>5, <3>1
  <2> QED  BY <2>6
<1>5. CASE Places = {}
  BY <1>1, <1>2, <1>5
<1>6. CASE Places # {}
  <2>1. at \in Places /\ \A q \in Places : Before(at, q)
    BY <1>1, <1>4, <1>6
  <2>2. at \in Place /\ at # None
    BY <1>3, <2>1, SignatureAssumption
  <2>3. \A q \in Places : q \in Place
    BY <1>3
  <2>4. \A p \in Place : p \in Places => at.row < p.row \/ (at.row = p.row /\ at.col <= p.col)
    BY <2>1
  <2> HIDE DEF at
  <2> QED  BY <1>2, <2>1, <2>2, <2>4 DEF at
<1> QED  BY <1>5, <1>6

\* Of the order, most proofs need the rows only.
LEMMA FindNextResult ==
  ASSUME NEW rs, NEW n \in Nat, DOMAIN rs = 0 .. n - 1, NEW e \in Shape,
         NEW startRow \in Nat, NEW numRows \in Nat, NEW startCol \in Nat
  PROVE  LET at == FindNext(rs, e, startRow, numRows, startCol) IN
         /\ at = None => \A p \in Place : Asked(e, p, startRow, numRows, startCol) => ~Taken(rs, n, e, p)
         /\ at # None =>
              /\ at \in Place /\ Taken(rs, n, e, at) /\ Asked(e, at, startRow, numRows, startCol)
              /\ \A p \in Place : Asked(e, p, startRow, numRows, startCol) /\ Taken(rs, n, e, p) => at.row <= p.row
<1> DEFINE at == FindNext(rs, e, startRow, numRows, startCol)
<1>1. /\ at = None => \A p \in Place : Asked(e, p, startRow, numRows, startCol) => ~Taken(rs, n, e, p)
      /\ at # None =>
           /\ at \in Place /\ Taken(rs, n, e, at) /\ Asked(e, at, startRow, numRows, startCol)
           /\ \A p \in Place : Asked(e, p, startRow, numRows, startCol) /\ Taken(rs, n, e, p) =>
                at.row < p.row \/ (at.row = p.row /\ at.col <= p.col)
  BY FindNextFirst
<1> HIDE DEF at
<1>2. \A p, q \in Place : p.row \in Nat /\ q.row \in Nat /\ (p.row < q.row \/ p.row = q.row => p.row <= q.row)
  BY DEF Place
<1> QED  BY <1>1, <1>2 DEF at

-----------------------------------------------------------------------------
(* Sorting the elements of a group.                                         *)

\* CmpElementsLess is a strict order in which any two elements compare.
LEMMA LessOrder ==
  ASSUME elems \in Seq(Shape), NEW i \in DOMAIN elems, NEW j \in DOMAIN elems, NEW k \in DOMAIN elems
  PROVE  /\ ~CmpElementsLess(i, i)
         /\ CmpElementsLess(i, j) /\ CmpElementsLess(j, k) => CmpElementsLess(i, k)
         /\ i # j => CmpElementsLess(i, j) \/ CmpElementsLess(j, i)
<1>1. \A h \in DOMAIN elems : /\ elems[h].interp \in Nat /\ elems[h].rows \in Nat /\ elems[h].cols \in Nat
                              /\ h \in Nat
  BY ShapeType
<1>2. PICK a \in Nat : a = elems[i].interp
  BY <1>1
<1>3. PICK a2 \in Nat : a2 = elems[i].rows
  BY <1>1
<1>4. PICK a3 \in Nat : a3 = elems[i].cols
  BY <1>1
<1>5. PICK b \in Nat : b = elems[j].interp
  BY <1>1
<1>6. PICK b2 \in Nat : b2 = elems[j].rows
  BY <1>1
<1>7. PICK b3 \in Nat : b3 = elems[j].cols
  BY <1>1
<1>8. PICK c \in Nat : c = elems[k].interp
  BY <1>1
<1>9. PICK c2 \in Nat : c2 = elems[k].rows
  BY <1>1
<1>10. PICK c3 \in Nat : c3 = elems[k].cols
  BY <1>1
<1>11. i \in Nat /\ j \in Nat /\ k \in Nat
  BY <1>1
<1>12. CmpElementsLess(i, j) <=>
         \/ a < b \/ (a = b /\ a2 > b2) \/ (a = b /\ a2 = b2 /\ a3 > b3) \/ (a = b /\ a2 = b2 /\ a3 = b3 /\ i < j)
  BY <1>2, <1>3, <1>4, <1>5, <1>6, <1>7 DEF CmpElementsLess
<1>13. CmpElementsLess(j, i) <=>
         \/ b < a \/ (b = a /\ b2 > a2) \/ (b = a /\ b2 = a2 /\ b3 > a3) \/ (b = a /\ b2 = a2 /\ b3 = a3 /\ j < i)
  BY <1>2, <1>3, <1>4, <1>5, <1>6, <1>7 DEF CmpElementsLess
<1>14. CmpElementsLess(j, k) <=>
         \/ b < c \/ (b = c /\ b2 > c2) \/ (b = c /\ b2 = c2 /\ b3 > c3) \/ (b = c /\ b2 = c2 /\ b3 = c3 /\ j < k)
  BY <1>5, <1>6, <1>7, <1>8, <1>9, <1>10 DEF CmpElementsLess
<1>15. CmpElementsLess(i, k) <=>
         \/ a < c \/ (a = c /\ a2 > c2) \/ (a = c /\ a2 = c2 /\ a3 > c3) \/ (a = c /\ a2 = c2 /\ a3 = c3 /\ i < k)
  BY <1>2, <1>3, <1>4, <1>8, <1>9, <1>10 DEF CmpElementsLess
<1>16. ~CmpElementsLess(i, i)
  BY <1>2, <1>3, <1>4, <1>11 DEF CmpElementsLess
<1>17. CmpElementsLess(i, j) /\ CmpElementsLess(j, k) => CmpElementsLess(i, k)
  BY ONLY <1>11, <1>12, <1>14, <1>15, a \in Nat, a2 \in Nat, a3 \in Nat, b \in Nat, b2 \in Nat, b3 \in Nat,
          c \in Nat, c2 \in Nat, c3 \in Nat
<1>18. i # j => CmpElementsLess(i, j) \/ CmpElementsLess(j, i)
  BY ONLY <1>11, <1>12, <1>13, a \in Nat, a2 \in Nat, a3 \in Nat, b \in Nat, b2 \in Nat, b3 \in Nat
<1> QED  BY <1>16, <1>17, <1>18

Increasing(s, n) == \A j, k \in 1 .. n : j < k => CmpElementsLess(s[j], s[k])

\* Some element of a finite group comes last.
LEMMA GreatestExists ==
  ASSUME elems \in Seq(Shape), NEW S \in SUBSET DOMAIN elems, IsFiniteSet(S), S # {}
  PROVE  \E m \in S : \A k \in S \ {m} : CmpElementsLess(k, m)
<1> DEFINE T == {n \in Nat : \A U \in SUBSET DOMAIN elems :
                   IsFiniteSet(U) /\ Cardinality(U) = n /\ U # {} =>
                     \E m \in U : \A k \in U \ {m} : CmpElementsLess(k, m)}
<1>1. 0 \in T
  BY FS_EmptySet
<1>2. ASSUME NEW n \in Nat, n \in T PROVE n + 1 \in T
  <2>1. SUFFICES ASSUME NEW U \in SUBSET DOMAIN elems, IsFiniteSet(U), Cardinality(U) = n + 1, U # {}
                 PROVE  \E m \in U : \A k \in U \ {m} : CmpElementsLess(k, m)
    OBVIOUS
  <2>2. PICK x \in U : TRUE
    BY <2>1
  <2> DEFINE V == U \ {x}
  <2>3. IsFiniteSet(V) /\ Cardinality(V) = n /\ V \in SUBSET DOMAIN elems
    <3>1. IsFiniteSet(V) /\ Cardinality(V) = Cardinality(U) - 1
      BY <2>1, FS_RemoveElement
    <3> QED  BY <2>1, <3>1
  <2>4. CASE V = {}
    BY <2>2, <2>4
  <2>5. CASE V # {}
    <3>1. PICK m \in V : \A k \in V \ {m} : CmpElementsLess(k, m)
      BY <1>2, <2>3, <2>5
    <3>2. m \in U /\ m # x /\ m \in DOMAIN elems /\ x \in DOMAIN elems
      OBVIOUS
    <3>3. CASE CmpElementsLess(x, m)
      <4>1. \A k \in U \ {m} : CmpElementsLess(k, m)
        BY <3>1, <3>3
      <4> QED  BY <3>2, <4>1
    <3>4. CASE CmpElementsLess(m, x)
      <4>1. ASSUME NEW k \in U \ {x} PROVE CmpElementsLess(k, x)
        <5>1. k = m \/ (k \in DOMAIN elems /\ CmpElementsLess(k, m))
          BY <3>1
        <5> QED  BY <3>2, <3>4, <5>1, LessOrder
      <4> QED  BY <4>1
    <3> QED  BY <3>2, <3>3, <3>4, LessOrder
  <2> QED  BY <2>4, <2>5
<1> HIDE DEF T
<1>3. Cardinality(S) \in T
  BY <1>1, <1>2, EveryNatural, FS_CardinalityType
<1> QED  BY <1>3 DEF T

\* A finite group can be sorted.
LEMMA SortedExists ==
  ASSUME elems \in Seq(Shape), NEW S \in SUBSET DOMAIN elems, IsFiniteSet(S)
  PROVE  \E s \in [1 .. Cardinality(S) -> S] : Increasing(s, Cardinality(S))
<1> DEFINE T == {n \in Nat : \A U \in SUBSET DOMAIN elems :
                   IsFiniteSet(U) /\ Cardinality(U) = n => \E s \in [1 .. n -> U] : Increasing(s, n)}
<1>1. 0 \in T
  <2>1. SUFFICES ASSUME NEW U \in SUBSET DOMAIN elems PROVE \E s \in [1 .. 0 -> U] : Increasing(s, 0)
    OBVIOUS
  <2>2. [i \in 1 .. 0 |-> i] \in [1 .. 0 -> U] /\ \A s : Increasing(s, 0)
    BY DEF Increasing
  <2> QED  BY <2>2
<1>2. ASSUME NEW n \in Nat, n \in T PROVE n + 1 \in T
  <2>1. SUFFICES ASSUME NEW U \in SUBSET DOMAIN elems, IsFiniteSet(U), Cardinality(U) = n + 1
                 PROVE  \E s \in [1 .. n + 1 -> U] : Increasing(s, n + 1)
    OBVIOUS
  <2>2. U # {}
    BY <2>1, FS_EmptySet
  <2>3. PICK m \in U : \A k \in U \ {m} : CmpElementsLess(k, m)
    BY <2>1, <2>2, GreatestExists
  <2> DEFINE V == U \ {m}
  <2>4. IsFiniteSet(V) /\ Cardinality(V) = n /\ V \in SUBSET DOMAIN elems
    <3>1. IsFiniteSet(V) /\ Cardinality(V) = Cardinality(U) - 1
      BY <2>1, FS_RemoveElement
    <3> QED  BY <2>1, <3>1
  <2>5. PICK s \in [1 .. n -> V] : Increasing(s, n)
    BY <1>2, <2>4
  <2> DEFINE t == [i \in 1 .. n + 1 |-> IF i = n + 1 THEN m ELSE s[i]]
  <2>6. ASSUME NEW i \in 1 .. n + 1
        PROVE  /\ i = n + 1 => t[i] = m
               /\ i # n + 1 => i \in 1 .. n /\ t[i] = s[i] /\ s[i] \in V
    <3>1. i # n + 1 => i \in 1 .. n
      OBVIOUS
    <3> QED  BY <3>1
  <2>7. t \in [1 .. n + 1 -> U]
    BY <2>6
  <2> HIDE DEF t
  <2>8. ASSUME NEW j \in 1 .. n + 1, NEW k \in 1 .. n + 1, j < k PROVE CmpElementsLess(t[j], t[k])
    <3>1. j # n + 1
      BY <2>8
    <3>2. CASE k = n + 1
      <4>1. t[j] = s[j] /\ s[j] \in U \ {m}
        BY <2>6, <3>1
      <4>2. t[k] = m
        BY <2>6, <3>2
      <4> QED  BY <2>3, <4>1, <4>2
    <3>3. CASE k # n + 1
      BY <2>5, <2>6, <2>8, <3>1, <3>3 DEF Increasing
    <3> QED  BY <3>2, <3>3
  <2> QED  BY <2>7, <2>8 DEF Increasing
<1> HIDE DEF T
<1>3. Cardinality(S) \in T
  BY <1>1, <1>2, EveryNatural, FS_CardinalityType
<1> QED  BY <1>3 DEF T

\* The elements of S, each once.
LEMMA SortedResult ==
  ASSUME elems \in Seq(Shape), NEW S \in SUBSET DOMAIN elems
  PROVE  /\ Sorted(S) \in Seq(S) /\ Sorted(S) \in [1 .. Cardinality(S) -> S]
         /\ \A j, k \in DOMAIN Sorted(S) : j # k => Sorted(S)[j] # Sorted(S)[k]
<1>1. IsFiniteSet(S)
  <2>1. IsFiniteSet(DOMAIN elems)
    <3>1. DOMAIN elems = 1 .. Len(elems) /\ Len(elems) \in Nat
      OBVIOUS
    <3> QED  BY <3>1, FS_Interval
  <2> QED  BY <2>1, FS_Subset
<1> DEFINE n == Cardinality(S)
<1>2. n \in Nat
  BY <1>1, FS_CardinalityType
<1>3. PICK s \in [1 .. n -> S] : Increasing(s, n)
  BY <1>1, SortedExists
<1> HIDE DEF n
<1>4. Sorted(S) = CHOOSE x \in [1 .. n -> S] : \A j, k \in DOMAIN x : j < k => CmpElementsLess(x[j], x[k])
  BY DEF Sorted, n
<1>5. \A j, k \in DOMAIN s : j < k => CmpElementsLess(s[j], s[k])
  BY <1>3 DEF Increasing
<1>6. /\ Sorted(S) \in [1 .. n -> S]
      /\ \A j, k \in DOMAIN Sorted(S) : j < k => CmpElementsLess(Sorted(S)[j], Sorted(S)[k])
  BY <1>4, <1>5
<1>7. Sorted(S) \in Seq(S)
  BY <1>2, <1>6
<1>8. ASSUME NEW j \in DOMAIN Sorted(S), NEW k \in DOMAIN Sorted(S), j # k PROVE Sorted(S)[j] # Sorted(S)[k]
  <2>1. Sorted(S)[j] \in DOMAIN elems /\ j \in Int /\ k \in Int
    BY <1>6
  <2>2. j < k \/ k < j
    BY <1>8, <2>1
  <2>3. CmpElementsLess(Sorted(S)[j], Sorted(S)[k]) \/ CmpElementsLess(Sorted(S)[k], Sorted(S)[j])
    BY <1>6, <2>2
  <2> QED  BY <2>1, <2>3, LessOrder
<1> QED  BY <1>6, <1>7, <1>8 DEF n

-----------------------------------------------------------------------------
(* The states of an allocator.                                              *)

ItemsOf(places, S) == {[id |-> i, shape |-> elems[i], at |-> places[i]] : i \in {j \in S : places[j] # None}}
\* The n registers of t hold the elements of S that have a place.
Good(t, n, S) ==
  /\ t.loc \in [DOMAIN elems -> Place \cup {None}]
  /\ t.used \in 0 .. n
  /\ Holds(t.regs, n, ItemsOf(t.loc, S))

\* The items after one more element has a place.
LEMMA ItemsOfPlaced ==
  ASSUME NEW S \in SUBSET DOMAIN elems, NEW places \in [DOMAIN elems -> Place \cup {None}], NEW i \in S,
         places[i] = None, NEW at \in Place
  PROVE  ItemsOf([places EXCEPT ![i] = at], S)
           = ItemsOf(places, S) \cup {[id |-> i, shape |-> elems[i], at |-> at]}
<1> DEFINE new == [places EXCEPT ![i] = at]
           It(p, j) == [id |-> j, shape |-> elems[j], at |-> p[j]]
<1>1. at # None
  BY SignatureAssumption
<1>2. new[i] = at /\ \A j \in S \ {i} : new[j] = places[j]
  OBVIOUS
<1> HIDE DEF new
<1>3. {j \in S : new[j] # None} = {j \in S : places[j] # None} \cup {i}
  BY <1>1, <1>2
<1>4. \A j \in S : places[j] # None => It(new, j) = It(places, j)
  BY <1>2
<1>5. It(new, i) = [id |-> i, shape |-> elems[i], at |-> at]
  BY <1>2
<1>6. ItemsOf(new, S) = {It(new, j) : j \in {k \in S : new[k] # None}}
  BY DEF ItemsOf
<1>7. ItemsOf(places, S) = {It(places, j) : j \in {k \in S : places[k] # None}}
  BY DEF ItemsOf
<1> HIDE DEF It
<1>8. ItemsOf(new, S) = ItemsOf(places, S) \cup {It(new, i)}
  BY <1>3, <1>4, <1>6, <1>7
<1> QED  BY <1>5, <1>8 DEF new

\* The larger of two bounded numbers.
LEMMA LargerBounds ==
  ASSUME NEW n \in Nat, NEW a \in 0 .. n, NEW b \in 0 .. n
  PROVE  Larger(a, b) \in 0 .. n /\ (b = 0 => Larger(a, b) = a)
BY DEF Larger

\* The places of u are those of t, but for the one of element i.
Moved(t, u, i, at) == \A j \in DOMAIN elems : u.loc[j] = IF j = i THEN at ELSE t.loc[j]

\* Placing an element that has no place where it is taken.
LEMMA PackAtGood ==
  ASSUME elems \in Seq(Shape), NEW n \in Nat, NEW S \in SUBSET DOMAIN elems, NEW i \in S,
         NEW t, Good(t, n, S), t.loc[i] = None, NEW at \in Place, Taken(t.regs, n, elems[i], at)
  PROVE  /\ Good(PackAt(t, i, at), n, S)
         /\ Moved(t, PackAt(t, i, at), i, at)
<1> DEFINE x == [id |-> i, shape |-> elems[i], at |-> at]
           u == PackAt(t, i, at)
<1>1. elems[i] \in Shape /\ i \in Int /\ at # None /\ elems[i].rows \in 1 .. 2
  BY SignatureAssumption, ShapeType
<1>2. x \in Item /\ x.shape = elems[i] /\ x.at = at
  BY <1>1 DEF Item
<1>3. /\ u.regs = PlaceElement(t.regs, elems[i], at)
      /\ u.loc = [t.loc EXCEPT ![i] = at]
      /\ u.used = Larger(t.used, at.row + elems[i].rows)
  BY <1>1 DEF PackAt, PlaceAt, RowsAfter
<1>4. Holds(PlaceElement(t.regs, elems[i], at), n, ItemsOf(t.loc, S) \cup {x})
  <2> HIDE DEF x
  <2>1. Taken(t.regs, n, x.shape, x.at) /\ Holds(t.regs, n, ItemsOf(t.loc, S))
    BY <1>2 DEF Good
  <2>2. Holds(PlaceElement(t.regs, x.shape, x.at), n, ItemsOf(t.loc, S) \cup {x})
    BY ONLY <1>2, <2>1, n \in Nat, PlacedHolds
  <2> QED  BY <1>2, <2>2
<1>5. ItemsOf(u.loc, S) = ItemsOf(t.loc, S) \cup {x}
  <2>1. t.loc \in [DOMAIN elems -> Place \cup {None}]
    BY DEF Good
  <2>2. ItemsOf([t.loc EXCEPT ![i] = at], S) = ItemsOf(t.loc, S) \cup {x}
    BY ONLY <2>1, ItemsOfPlaced, S \in SUBSET DOMAIN elems, i \in S, t.loc[i] = None, at \in Place
  <2> HIDE DEF u, x
  <2> QED  BY <1>3, <2>2
<1>6. u.loc \in [DOMAIN elems -> Place \cup {None}]
  BY <1>3 DEF Good
<1>7. u.used \in 0 .. n
  <2>1. at.row \in Nat /\ at.row + elems[i].rows <= n
    BY DEF Place, Taken
  <2>2. at.row + elems[i].rows \in 0 .. n
    BY <1>1, <2>1
  <2>3. t.used \in 0 .. n
    BY DEF Good
  <2>4. Larger(t.used, at.row + elems[i].rows) \in 0 .. n
    BY <2>2, <2>3, LargerBounds
  <2> HIDE DEF u
  <2> QED  BY <1>3, <2>4
<1> HIDE DEF u, x
<1>8. Good(u, n, S)
  BY <1>3, <1>4, <1>5, <1>6, <1>7 DEF Good
<1>9. \A j \in DOMAIN elems : u.loc[j] = IF j = i THEN at ELSE t.loc[j]
  <2>1. t.loc \in [DOMAIN elems -> Place \cup {None}]
    BY DEF Good
  <2> QED  BY <1>3, <2>1
<1> QED  BY <1>8, <1>9 DEF u, Moved

\* An element left out changes nothing.
LEMMA PackAtNone ==
  ASSUME NEW n \in Nat, NEW S \in SUBSET DOMAIN elems, NEW i \in S,
         NEW t, Good(t, n, S), t.loc[i] = None
  PROVE  Good(PackAt(t, i, None), n, S) /\ PackAt(t, i, None).loc = t.loc
<1> DEFINE u == PackAt(t, i, None)
<1>1. u.regs = t.regs /\ u.loc = [t.loc EXCEPT ![i] = None] /\ u.used = Larger(t.used, 0)
  BY DEF PackAt, PlaceAt, RowsAfter
<1>2. u.loc = t.loc
  BY <1>1 DEF Good
<1>3. u.used = t.used
  BY <1>1, LargerBounds DEF Good
<1> QED  BY <1>1, <1>2, <1>3 DEF Good

-----------------------------------------------------------------------------
(* PackGreedy.                                                              *)

PackedFn(f, s, ids, startRow, numRows, startCol) ==
  f = [k \in 0 .. Len(ids) |-> IF k = 0 THEN s ELSE PackOne(f[k - 1], ids[k], startRow, numRows, startCol)]
\* f lists the states of the first n steps.
PackedIn(f, n, s, ids, startRow, numRows, startCol) ==
  f[0] = s /\ \A k \in 1 .. n : f[k] = PackOne(f[k - 1], ids[k], startRow, numRows, startCol)

\* PackGreedy ends in the last of its states.
LEMMA PackGreedyIs ==
  ASSUME NEW s, NEW ids, NEW startRow, NEW numRows, NEW startCol
  PROVE  PackGreedy(s, ids, startRow, numRows, startCol)
           = (CHOOSE f : PackedFn(f, s, ids, startRow, numRows, startCol))[Len(ids)]
BY DEF PackGreedy, PackedFn

\* The states PackGreedy goes through exist.
LEMMA PackGreedyRuns ==
  ASSUME NEW s, NEW ids, Len(ids) \in Nat, NEW startRow, NEW numRows, NEW startCol
  PROVE  \E f : /\ PackedIn(f, Len(ids), s, ids, startRow, numRows, startCol)
                /\ PackGreedy(s, ids, startRow, numRows, startCol) = f[Len(ids)]
<1> DEFINE n == Len(ids)
           Step(t, k) == PackOne(t, ids[k], startRow, numRows, startCol)
           In(f, m) == f[0] = s /\ \A k \in 1 .. m : f[k] = Step(f[k - 1], k)
           T == {m \in Nat : \E f : In(f, m)}
<1> HIDE DEF Step
<1>1. 0 \in T
  <2>1. In([k \in {0} |-> s], 0)
    OBVIOUS
  <2> QED  BY <2>1
<1>2. ASSUME NEW m \in Nat, m \in T PROVE m + 1 \in T
  <2>1. PICK f : In(f, m)
    BY <1>2
  <2> DEFINE g == [k \in 0 .. m + 1 |-> IF k = m + 1 THEN Step(f[m], m + 1) ELSE f[k]]
  <2>2. g[0] = s
    BY <2>1
  <2>3. ASSUME NEW k \in 1 .. m + 1 PROVE g[k] = Step(g[k - 1], k)
    <3>1. k - 1 \in 0 .. m + 1 /\ k \in 0 .. m + 1 /\ k - 1 # m + 1 /\ g[k - 1] = f[k - 1]
      OBVIOUS
    <3>2. CASE k = m + 1
      <4>1. k - 1 = m
        BY <3>2
      <4> QED  BY <3>1, <3>2, <4>1
    <3>3. CASE k # m + 1
      <4>1. k \in 1 .. m
        BY <3>3
      <4>2. f[k] = Step(f[k - 1], k)
        BY <2>1, <4>1
      <4> QED  BY <3>1, <3>3, <4>2
    <3> QED  BY <3>2, <3>3
  <2> HIDE DEF g
  <2> QED  BY <2>2, <2>3
<1> HIDE DEF T
<1>3. n \in T
  BY <1>1, <1>2, EveryNatural
<1>4. PICK f : In(f, n)
  BY <1>3 DEF T
<1> DEFINE g == [k \in 0 .. n |-> f[k]]
           Fn(h) == h = [k \in 0 .. n |-> IF k = 0 THEN s ELSE Step(h[k - 1], k)]
<1>5. Fn(g)
  <2> DEFINE h == [k \in 0 .. n |-> IF k = 0 THEN s ELSE Step(g[k - 1], k)]
  <2>1. ASSUME NEW k \in 0 .. n PROVE g[k] = h[k]
    <3>1. CASE k = 0
      BY <1>4, <3>1
    <3>2. CASE k # 0
      <4>1. k \in 1 .. n /\ k - 1 \in 0 .. n
        BY <3>2
      <4>2. f[k] = Step(f[k - 1], k)
        BY <1>4, <4>1
      <4> QED  BY <3>2, <4>1, <4>2
    <3> QED  BY <3>1, <3>2
  <2>2. g = h
    BY <2>1
  <2> QED  BY <2>2
<1>6. \A h : Fn(h) <=> PackedFn(h, s, ids, startRow, numRows, startCol)
  BY DEF PackedFn, Step
<1>7. PICK c : PackedFn(c, s, ids, startRow, numRows, startCol) /\ PackGreedy(s, ids, startRow, numRows, startCol) = c[n]
  <2>1. PackedFn(CHOOSE c : PackedFn(c, s, ids, startRow, numRows, startCol), s, ids, startRow, numRows, startCol)
    BY <1>5, <1>6
  <2> QED  BY <2>1, PackGreedyIs
<1>8. In(c, n)
  <2>1. \A k \in 0 .. n : c[k] = IF k = 0 THEN s ELSE Step(c[k - 1], k)
    BY <1>6, <1>7
  <2>2. 0 \in 0 .. n /\ \A k \in 1 .. n : k \in 0 .. n /\ k # 0
    OBVIOUS
  <2> HIDE DEF n
  <2> QED  BY <2>1, <2>2
<1>9. PackedIn(c, n, s, ids, startRow, numRows, startCol)
  BY <1>8 DEF PackedIn, Step
<1> QED  BY <1>7, <1>9

\* Beside the elements D, the places of t are those of s; the elements of D lie
\* in the rows lo .. hi, as far as they have a place.
Grown(s, t, D, lo, hi) ==
  /\ \A i \in DOMAIN elems \ D : t.loc[i] = s.loc[i]
  /\ \A i \in DOMAIN elems \cap D : t.loc[i] # None => RowsOf(elems[i], t.loc[i]) \subseteq lo .. hi

Distinct(ids) == \A j, k \in DOMAIN ids : j # k => ids[j] # ids[k]

\* PackNext keeps the registers what the places make them.
LEMMA PackOneGood ==
  ASSUME elems \in Seq(Shape), NEW n \in Nat, NEW S \in SUBSET DOMAIN elems, NEW i \in S,
         NEW t, Good(t, n, S), t.loc[i] = None,
         NEW startRow \in Nat, NEW numRows \in Nat, NEW startCol \in Nat
  PROVE  LET u == PackOne(t, i, startRow, numRows, startCol) IN
         /\ Good(u, n, S)
         /\ \A j \in DOMAIN elems \ {i} : u.loc[j] = t.loc[j]
         /\ u.loc[i] # None => RowsOf(elems[i], u.loc[i]) \subseteq startRow .. startRow + numRows - 1
<1> DEFINE at == FindNext(t.regs, elems[i], startRow, numRows, startCol)
           u == PackOne(t, i, startRow, numRows, startCol)
<1>1. u = PackAt(t, i, at)
  BY DEF PackOne
<1>2. elems[i] \in Shape /\ i \in DOMAIN elems /\ DOMAIN t.regs = 0 .. n - 1
  BY DEF Good, Holds
<1>3. at # None => /\ at \in Place /\ Taken(t.regs, n, elems[i], at)
                   /\ Asked(elems[i], at, startRow, numRows, startCol)
  BY <1>2, FindNextResult
<1>4. t.loc \in [DOMAIN elems -> Place \cup {None}]
  BY DEF Good
<1> HIDE DEF at, u
<1>5. CASE at = None
  <2>1. Good(u, n, S) /\ u.loc = t.loc
    BY <1>1, <1>5, PackAtNone
  <2> QED  BY <2>1 DEF u
<1>6. CASE at # None
  <2>0. at \in Place /\ Taken(t.regs, n, elems[i], at)
    BY <1>3, <1>6
  <2>1. Good(u, n, S) /\ Moved(t, u, i, at)
    BY ONLY <1>1, <2>0, PackAtGood, elems \in Seq(Shape), n \in Nat, S \in SUBSET DOMAIN elems, i \in S,
            Good(t, n, S), t.loc[i] = None
  <2>2. u.loc[i] = at /\ \A j \in DOMAIN elems \ {i} : u.loc[j] = t.loc[j]
    BY <1>2, <2>1 DEF Moved
  <2>3. RowsOf(elems[i], at) \subseteq startRow .. startRow + numRows - 1
    <3>1. at.row \in Nat /\ at.row \in startRow .. startRow + numRows - elems[i].rows /\ elems[i].rows \in 1 .. 2
      BY <1>2, <1>3, <1>6, ShapeType DEF Asked, Place
    <3> QED  BY <3>1 DEF RowsOf
  <2> QED  BY <2>1, <2>2, <2>3 DEF u
<1> QED  BY <1>5, <1>6

\* In each of the states f the registers hold the elements of S, and the ids
\* whose turn is to come have no place.
StatesGood(f, ids, n, S, s, D, startRow, hi) ==
  \A k \in 0 .. Len(ids) :
    /\ Good(f[k], n, S) /\ Grown(s, f[k], D, startRow, hi)
    /\ \A j \in k + 1 .. Len(ids) : f[k].loc[ids[j]] = None

\* So does every step of PackGreedy, which moves only the elements it is given.
LEMMA PackGreedyStates ==
  ASSUME elems \in Seq(Shape), NEW n \in Nat, NEW S \in SUBSET DOMAIN elems, NEW D \in SUBSET S,
         NEW ids \in Seq(D), Distinct(ids), NEW s, Good(s, n, S), \A i \in D : s.loc[i] = None,
         NEW startRow \in Nat, NEW numRows \in Nat, NEW startCol \in Nat,
         NEW f, PackedIn(f, Len(ids), s, ids, startRow, numRows, startCol)
  PROVE  StatesGood(f, ids, n, S, s, D, startRow, startRow + numRows - 1)
<1> DEFINE hi == startRow + numRows - 1
           m == Len(ids)
<1>1. PackedIn(f, m, s, ids, startRow, numRows, startCol)
  OBVIOUS
<1>2. m \in Nat /\ DOMAIN ids = 1 .. m /\ \A k \in 1 .. m : ids[k] \in D
  OBVIOUS
<1> HIDE DEF m
<1> DEFINE T == {k \in Nat : k <= m =>
                    /\ Good(f[k], n, S) /\ Grown(s, f[k], D, startRow, hi)
                    /\ \A j \in k + 1 .. m : f[k].loc[ids[j]] = None}
<1>3. 0 \in T
  <2>1. f[0] = s
    BY <1>1 DEF PackedIn
  <2>2. Grown(s, s, D, startRow, hi)
    BY DEF Grown
  <2> QED  BY <1>2, <2>1, <2>2
<1>4. ASSUME NEW k \in Nat, k \in T PROVE k + 1 \in T
  <2>1. SUFFICES ASSUME k + 1 <= m
                 PROVE  /\ Good(f[k + 1], n, S) /\ Grown(s, f[k + 1], D, startRow, hi)
                        /\ \A j \in (k + 1) + 1 .. m : f[k + 1].loc[ids[j]] = None
    OBVIOUS
  <2>2. /\ Good(f[k], n, S) /\ Grown(s, f[k], D, startRow, hi)
        /\ \A j \in k + 1 .. m : f[k].loc[ids[j]] = None
    BY <1>2, <1>4, <2>1
  <2>3. k + 1 \in 1 .. m /\ k + 1 \in k + 1 .. m /\ (k + 1) - 1 = k
    <3>1. m \in Nat
      BY <1>2
    <3> QED  BY ONLY <2>1, <3>1, k \in Nat
  <2> DEFINE i == ids[k + 1]
  <2>4. i \in D /\ i \in S /\ i \in DOMAIN elems /\ f[k].loc[i] = None
    BY <1>2, <2>2, <2>3
  <2>5. f[k + 1] = PackOne(f[k], i, startRow, numRows, startCol)
    <3>1. f[k + 1] = PackOne(f[(k + 1) - 1], ids[k + 1], startRow, numRows, startCol)
      BY ONLY <1>1, <2>3 DEF PackedIn
    <3> QED  BY ONLY <2>3, <3>1
  <2> HIDE DEF i
  <2>6. /\ Good(f[k + 1], n, S)
        /\ \A j \in DOMAIN elems \ {i} : f[k + 1].loc[j] = f[k].loc[j]
        /\ f[k + 1].loc[i] # None => RowsOf(elems[i], f[k + 1].loc[i]) \subseteq startRow .. hi
    <3> DEFINE t == f[k]
               u == PackOne(t, i, startRow, numRows, startCol)
    <3>1. Good(t, n, S) /\ t.loc[i] = None
      BY <2>2, <2>4
    <3> HIDE DEF t
    <3>2. /\ Good(u, n, S)
          /\ \A j \in DOMAIN elems \ {i} : u.loc[j] = t.loc[j]
          /\ u.loc[i] # None => RowsOf(elems[i], u.loc[i]) \subseteq startRow .. startRow + numRows - 1
      BY ONLY <2>4, <3>1, PackOneGood, elems \in Seq(Shape), n \in Nat, S \in SUBSET DOMAIN elems,
              startRow \in Nat, numRows \in Nat, startCol \in Nat
    <3> HIDE DEF u
    <3> QED  BY <2>5, <3>2 DEF t, u
  <2>7. Grown(s, f[k + 1], D, startRow, hi)
    <3>1. \A j \in DOMAIN elems \ D : f[k + 1].loc[j] = s.loc[j]
      BY <2>2, <2>4, <2>6 DEF Grown
    <3>2. ASSUME NEW j \in DOMAIN elems \cap D, f[k + 1].loc[j] # None
          PROVE  RowsOf(elems[j], f[k + 1].loc[j]) \subseteq startRow .. hi
      <4>1. CASE j = i
        BY <2>6, <3>2, <4>1
      <4>2. CASE j # i
        BY <2>2, <2>6, <3>2, <4>2 DEF Grown
      <4> QED  BY <4>1, <4>2
    <3> QED  BY <3>1, <3>2 DEF Grown
  <2>8. ASSUME NEW j \in (k + 1) + 1 .. m PROVE f[k + 1].loc[ids[j]] = None
    <3>1. j \in 1 .. m /\ j \in k + 1 .. m /\ j # k + 1
      BY <1>2
    <3>2. ids[j] \in D /\ ids[j] # i /\ f[k].loc[ids[j]] = None
      BY <1>2, <2>2, <2>3, <3>1 DEF Distinct, i
    <3> QED  BY <2>6, <3>2
  <2> QED  BY <2>6, <2>7, <2>8
<1> HIDE DEF T
<1>5. Nat \subseteq T
  BY <1>3, <1>4, EveryNatural
<1>6. ASSUME NEW k \in 0 .. m
      PROVE  /\ Good(f[k], n, S) /\ Grown(s, f[k], D, startRow, hi)
             /\ \A j \in k + 1 .. m : f[k].loc[ids[j]] = None
  <2>1. k \in T /\ k <= m
    BY <1>2, <1>5
  <2> QED  BY <2>1 DEF T
<1> QED  BY <1>6 DEF m, StatesGood

\* The same of the last state.
LEMMA PackGreedyGood ==
  ASSUME elems \in Seq(Shape), NEW n \in Nat, NEW S \in SUBSET DOMAIN elems, NEW D \in SUBSET S,
         NEW ids \in Seq(D), Distinct(ids), NEW s, Good(s, n, S), \A i \in D : s.loc[i] = None,
         NEW startRow \in Nat, NEW numRows \in Nat, NEW startCol \in Nat
  PROVE  LET t == PackGreedy(s, ids, startRow, numRows, startCol) IN
         Good(t, n, S) /\ Grown(s, t, D, startRow, startRow + numRows - 1)
<1>1. Len(ids) \in Nat /\ Len(ids) \in 0 .. Len(ids)
  OBVIOUS
<1>2. PICK f : /\ PackedIn(f, Len(ids), s, ids, startRow, numRows, startCol)
               /\ PackGreedy(s, ids, startRow, numRows, startCol) = f[Len(ids)]
  BY <1>1, PackGreedyRuns
<1>3. StatesGood(f, ids, n, S, s, D, startRow, startRow + numRows - 1)
  BY ONLY <1>2, PackGreedyStates, elems \in Seq(Shape), n \in Nat, S \in SUBSET DOMAIN elems, D \in SUBSET S,
     ids \in Seq(D), Distinct(ids), Good(s, n, S), \A i \in D : s.loc[i] = None,
     startRow \in Nat, numRows \in Nat, startCol \in Nat
<1>4. Good(f[Len(ids)], n, S) /\ Grown(s, f[Len(ids)], D, startRow, startRow + numRows - 1)
  BY ONLY <1>1, <1>3 DEF StatesGood
<1> QED  BY ONLY <1>2, <1>4

-----------------------------------------------------------------------------
(* The columns of a row of clip/cull elements.                              *)

OffsetFn(f, row, k) == f = [j \in 0 .. k |-> IF j = 0 THEN 0 ELSE f[j - 1] + elems[row[j]].cols]

\* An offset is the last of a list of sums.
LEMMA OffsetIs ==
  ASSUME NEW row, NEW k
  PROVE  Offset(row, k) = (CHOOSE f : OffsetFn(f, row, k))[k]
BY DEF Offset, OffsetFn

\* The sums, one after the other.
LEMMA OffsetRuns ==
  ASSUME NEW row, NEW n \in Nat
  PROVE  /\ Offset(row, 0) = 0
         /\ \A k \in 1 .. n : Offset(row, k) = Offset(row, k - 1) + elems[row[k]].cols
<1> DEFINE Step(v, k) == v + elems[row[k]].cols
           In(f, m) == f[0] = 0 /\ \A k \in 1 .. m : f[k] = Step(f[k - 1], k)
           T == {m \in Nat : \E f : In(f, m)}
<1> HIDE DEF Step
<1>1. 0 \in T
  <2>1. In([k \in {0} |-> 0], 0)
    OBVIOUS
  <2> QED  BY <2>1
<1>2. ASSUME NEW m \in Nat, m \in T PROVE m + 1 \in T
  <2>1. PICK f : In(f, m)
    BY <1>2
  <2> DEFINE g == [k \in 0 .. m + 1 |-> IF k = m + 1 THEN Step(f[m], m + 1) ELSE f[k]]
  <2>2. g[0] = 0
    BY <2>1
  <2>3. ASSUME NEW k \in 1 .. m + 1 PROVE g[k] = Step(g[k - 1], k)
    <3>1. k - 1 \in 0 .. m + 1 /\ k \in 0 .. m + 1 /\ k - 1 # m + 1 /\ g[k - 1] = f[k - 1]
      OBVIOUS
    <3>2. CASE k = m + 1
      <4>1. k - 1 = m
        BY <3>2
      <4> QED  BY <3>1, <3>2, <4>1
    <3>3. CASE k # m + 1
      <4>1. k \in 1 .. m
        BY <3>3
      <4>2. f[k] = Step(f[k - 1], k)
        BY <2>1, <4>1
      <4> QED  BY <3>1, <3>3, <4>2
    <3> QED  BY <3>2, <3>3
  <2> HIDE DEF g
  <2> QED  BY <2>2, <2>3
<1> HIDE DEF T
<1>3. n \in T
  BY <1>1, <1>2, EveryNatural
<1>4. PICK f : In(f, n)
  BY <1>3 DEF T
<1>5. ASSUME NEW m \in 0 .. n PROVE Offset(row, m) = f[m]
  <2> DEFINE g == [k \in 0 .. m |-> f[k]]
             Fn(h) == h = [k \in 0 .. m |-> IF k = 0 THEN 0 ELSE Step(h[k - 1], k)]
  <2>1. Fn(g)
    <3> DEFINE h == [k \in 0 .. m |-> IF k = 0 THEN 0 ELSE Step(g[k - 1], k)]
    <3>1. ASSUME NEW k \in 0 .. m PROVE g[k] = h[k]
      <4>1. CASE k = 0
        BY <1>4, <4>1
      <4>2. CASE k # 0
        <5>1. k \in 1 .. n /\ k - 1 \in 0 .. m
          BY <4>2
        <5>2. f[k] = Step(f[k - 1], k)
          BY <1>4, <5>1
        <5> QED  BY <4>2, <5>1, <5>2
      <4> QED  BY <4>1, <4>2
    <3>2. g = h
      BY <3>1
    <3> QED  BY <3>2
  <2>2. \A h : Fn(h) <=> OffsetFn(h, row, m)
    BY DEF OffsetFn, Step
  <2>3. PICK c : OffsetFn(c, row, m) /\ Offset(row, m) = c[m]
    <3>1. OffsetFn(CHOOSE c : OffsetFn(c, row, m), row, m)
      BY <2>1, <2>2
    <3> QED  BY <3>1, OffsetIs
  <2>4. \A k \in 0 .. m : c[k] = IF k = 0 THEN 0 ELSE Step(c[k - 1], k)
    BY <2>2, <2>3
  <2> DEFINE V == {k \in Nat : k <= m => c[k] = f[k]}
  <2>5. 0 \in V
    BY <1>4, <2>4
  <2>6. ASSUME NEW k \in Nat, k \in V PROVE k + 1 \in V
    <3>1. SUFFICES ASSUME k + 1 <= m PROVE c[k + 1] = f[k + 1]
      OBVIOUS
    <3>2. k + 1 \in 0 .. m /\ k + 1 \in 1 .. n /\ (k + 1) - 1 = k /\ k + 1 # 0 /\ c[k] = f[k]
      BY <2>6, <3>1
    <3>3. c[k + 1] = Step(c[k], k + 1)
      BY <2>4, <3>2
    <3>4. f[k + 1] = Step(f[k], k + 1)
      BY <1>4, <3>2
    <3> QED  BY <3>2, <3>3, <3>4
  <2> HIDE DEF V
  <2>7. m \in V
    BY <2>5, <2>6, EveryNatural
  <2> QED  BY <2>3, <2>7 DEF V
<1>6. 0 \in 0 .. n /\ \A k \in 1 .. n : k \in 0 .. n /\ k - 1 \in 0 .. n
  OBVIOUS
<1>7. Offset(row, 0) = 0
  BY <1>4, <1>5, <1>6
<1>8. ASSUME NEW k \in 1 .. n PROVE Offset(row, k) = Offset(row, k - 1) + elems[row[k]].cols
  <2>1. Offset(row, k) = f[k] /\ Offset(row, k - 1) = f[k - 1]
    BY <1>5, <1>6
  <2>2. f[k] = Step(f[k - 1], k)
    BY <1>4
  <2> QED  BY <2>1, <2>2 DEF Step
<1> QED  BY <1>7, <1>8

PlacedFn(f, s, row, at) ==
  f = [k \in 0 .. Len(row) |->
         IF k = 0 THEN s
         ELSE PackAt(f[k - 1], row[k], [row |-> at.row, col |-> at.col + Offset(row, k - 1)])]

\* PlaceRow ends in the last of its states.
LEMMA PlaceRowIs ==
  ASSUME NEW s, NEW row, NEW at, at # None
  PROVE  PlaceRow(s, row, at) = (CHOOSE f : PlacedFn(f, s, row, at))[Len(row)]
BY DEF PlaceRow, PlacedFn

\* The states PlaceRow goes through exist.
LEMMA PlaceRowRuns ==
  ASSUME NEW s, NEW row, Len(row) \in Nat, NEW at, at # None
  PROVE  \E f : /\ f[0] = s
                /\ \A k \in 1 .. Len(row) :
                     f[k] = PackAt(f[k - 1], row[k], [row |-> at.row, col |-> at.col + Offset(row, k - 1)])
                /\ PlaceRow(s, row, at) = f[Len(row)]
<1> DEFINE n == Len(row)
           Step(t, k) == PackAt(t, row[k], [row |-> at.row, col |-> at.col + Offset(row, k - 1)])
           In(f, m) == f[0] = s /\ \A k \in 1 .. m : f[k] = Step(f[k - 1], k)
           T == {m \in Nat : \E f : In(f, m)}
<1> HIDE DEF Step
<1>1. 0 \in T
  <2>1. In([k \in {0} |-> s], 0)
    OBVIOUS
  <2> QED  BY <2>1
<1>2. ASSUME NEW m \in Nat, m \in T PROVE m + 1 \in T
  <2>1. PICK f : In(f, m)
    BY <1>2
  <2> DEFINE g == [k \in 0 .. m + 1 |-> IF k = m + 1 THEN Step(f[m], m + 1) ELSE f[k]]
  <2>2. g[0] = s
    BY <2>1
  <2>3. ASSUME NEW k \in 1 .. m + 1 PROVE g[k] = Step(g[k - 1], k)
    <3>1. k - 1 \in 0 .. m + 1 /\ k \in 0 .. m + 1 /\ k - 1 # m + 1 /\ g[k - 1] = f[k - 1]
      OBVIOUS
    <3>2. CASE k = m + 1
      <4>1. k - 1 = m
        BY <3>2
      <4> QED  BY <3>1, <3>2, <4>1
    <3>3. CASE k # m + 1
      <4>1. k \in 1 .. m
        BY <3>3
      <4>2. f[k] = Step(f[k - 1], k)
        BY <2>1, <4>1
      <4> QED  BY <3>1, <3>3, <4>2
    <3> QED  BY <3>2, <3>3
  <2> HIDE DEF g
  <2> QED  BY <2>2, <2>3
<1> HIDE DEF T
<1>3. n \in T
  BY <1>1, <1>2, EveryNatural
<1>4. PICK f : In(f, n)
  BY <1>3 DEF T
<1> DEFINE g == [k \in 0 .. n |-> f[k]]
           Fn(h) == h = [k \in 0 .. n |-> IF k = 0 THEN s ELSE Step(h[k - 1], k)]
<1>5. Fn(g)
  <2> DEFINE h == [k \in 0 .. n |-> IF k = 0 THEN s ELSE Step(g[k - 1], k)]
  <2>1. ASSUME NEW k \in 0 .. n PROVE g[k] = h[k]
    <3>1. CASE k = 0
      BY <1>4, <3>1
    <3>2. CASE k # 0
      <4>1. k \in 1 .. n /\ k - 1 \in 0 .. n
        BY <3>2
      <4>2. f[k] = Step(f[k - 1], k)
        BY <1>4, <4>1
      <4> QED  BY <3>2, <4>1, <4>2
    <3> QED  BY <3>1, <3>2
  <2>2. g = h
    BY <2>1
  <2> QED  BY <2>2
<1>6. \A h : Fn(h) <=> PlacedFn(h, s, row, at)
  BY DEF PlacedFn, Step
<1>7. PICK c : PlacedFn(c, s, row, at) /\ PlaceRow(s, row, at) = c[n]
  <2>1. PlacedFn(CHOOSE c : PlacedFn(c, s, row, at), s, row, at)
    BY <1>5, <1>6
  <2> QED  BY <2>1, PlaceRowIs
<1>8. In(c, n)
  <2>1. \A k \in 0 .. n : c[k] = IF k = 0 THEN s ELSE Step(c[k - 1], k)
    BY <1>6, <1>7
  <2>2. 0 \in 0 .. n /\ \A k \in 1 .. n : k \in 0 .. n /\ k # 0
    OBVIOUS
  <2> HIDE DEF n
  <2> QED  BY <2>1, <2>2
<1> QED  BY <1>7, <1>8 DEF Step

\* One-row elements that all lie on row r.
Lined(places, row, r) ==
  \A k \in DOMAIN row : places[row[k]] # None /\ places[row[k]].row = r /\ elems[row[k]].rows = 1

SameModes(row) ==
  \A j, k \in DOMAIN row :
    elems[row[j]].interp = elems[row[k]].interp /\ elems[row[j]].width = elems[row[k]].width

\* The elements of one row need no more than its columns.
LEMMA RowFits ==
  ASSUME elems \in Seq(Shape), NEW rs, NEW n \in Nat, NEW S \in SUBSET DOMAIN elems,
         NEW places \in [DOMAIN elems -> Place \cup {None}], Holds(rs, n, ItemsOf(places, S)),
         NEW row \in Seq(S), Distinct(row), NEW r, Lined(places, row, r)
  PROVE  /\ \A k \in 0 .. Len(row) : Offset(row, k) \in 0 .. 4
         /\ \A k \in 1 .. Len(row) : Offset(row, k) \in Nat \ {0}
         /\ SameModes(row)
<1> DEFINE m == Len(row)
           Part(k) == Span(places[row[k]].col, elems[row[k]])
           It(k) == [id |-> row[k], shape |-> elems[row[k]], at |-> places[row[k]]]
<1>1. m \in Nat /\ DOMAIN row = 1 .. m /\ \A k \in 1 .. m : row[k] \in S
  OBVIOUS
<1> HIDE DEF m
<1>2. ASSUME NEW k \in 1 .. m
      PROVE  /\ It(k) \in ItemsOf(places, S)
             /\ elems[row[k]] \in Shape /\ places[row[k]] \in Place /\ elems[row[k]].rows = 1
             /\ places[row[k]].row = r /\ places[row[k]].col + elems[row[k]].cols <= 4
             /\ r \in RowsOf(elems[row[k]], places[row[k]])
  <2>1. row[k] \in S /\ row[k] \in DOMAIN elems /\ places[row[k]] # None /\ places[row[k]].row = r
        /\ elems[row[k]].rows = 1
    BY <1>1 DEF Lined
  <2>2. It(k) \in ItemsOf(places, S)
    BY <2>1 DEF ItemsOf
  <2>3. elems[row[k]] \in Shape /\ places[row[k]] \in Place
    BY <2>1
  <2>4. It(k).shape = elems[row[k]] /\ It(k).at = places[row[k]] /\ Within(It(k), n)
    BY <2>2 DEF Holds
  <2>5. r \in Nat
    BY <2>1, <2>3 DEF Place
  <2> QED  BY <2>1, <2>2, <2>3, <2>4, <2>5 DEF Within, RowsOf
<1>3. ASSUME NEW j \in 1 .. m, NEW k \in 1 .. m, j # k
      PROVE  /\ Part(j) \cap Part(k) = {}
             /\ elems[row[j]].interp = elems[row[k]].interp /\ elems[row[j]].width = elems[row[k]].width
  <2>1. It(j).id # It(k).id
    BY <1>1, <1>3 DEF Distinct
  <2>2. It(j) # It(k) /\ It(j) \in ItemsOf(places, S) /\ It(k) \in ItemsOf(places, S)
    BY <1>2, <2>1
  <2>3. Compatible(It(j).shape, It(j).at, It(k).shape, It(k).at)
    <3> HIDE DEF It
    <3> QED  BY <2>2, HoldsLegal
  <2>4. r \in RowsOf(It(j).shape, It(j).at) \cap RowsOf(It(k).shape, It(k).at)
    BY <1>2
  <2> QED  BY <2>3, <2>4 DEF Compatible
<1>4. \A j, k \in 1 .. m : elems[row[j]].interp = elems[row[k]].interp /\ elems[row[j]].width = elems[row[k]].width
  BY <1>3
<1>5. /\ Offset(row, 0) = 0
      /\ \A k \in 1 .. m : Offset(row, k) = Offset(row, k - 1) + elems[row[k]].cols
  BY <1>1, OffsetRuns
<1>6. ASSUME NEW k \in 1 .. m
      PROVE  /\ Part(k) \subseteq 0 .. 3 /\ IsFiniteSet(Part(k))
             /\ Cardinality(Part(k)) = elems[row[k]].cols /\ elems[row[k]].cols \in 1 .. 4
  <2> DEFINE c == places[row[k]].col
             w == elems[row[k]].cols
  <2>1. c \in Nat /\ w \in 1 .. 4 /\ c + w <= 4
    BY <1>2, ShapeType DEF Place
  <2>2. Part(k) = c .. c + w - 1
    BY DEF Span
  <2> HIDE DEF c, w
  <2>3. c .. c + w - 1 \subseteq 0 .. 3
    BY <2>1
  <2>4. IsFiniteSet(c .. c + w - 1) /\ Cardinality(c .. c + w - 1) = w
    <3>1. c \in Int /\ c + w - 1 \in Int /\ ~(c > c + w - 1)
      BY <2>1
    <3>2. IsFiniteSet(c .. c + w - 1) /\ Cardinality(c .. c + w - 1) = (c + w - 1) - c + 1
      BY <3>1, FS_Interval
    <3> QED  BY <2>1, <3>2
  <2> QED  BY <2>1, <2>2, <2>3, <2>4 DEF w
<1> DEFINE Cols(k) == UNION {Part(j) : j \in 1 .. k}
           T == {k \in Nat : k <= m => IsFiniteSet(Cols(k)) /\ Cardinality(Cols(k)) = Offset(row, k)}
<1>7. 0 \in T
  <2>1. Cols(0) = {}
    OBVIOUS
  <2> QED  BY <1>5, <2>1, FS_EmptySet
<1>8. ASSUME NEW k \in Nat, k \in T PROVE k + 1 \in T
  <2>1. SUFFICES ASSUME k + 1 <= m
                 PROVE  IsFiniteSet(Cols(k + 1)) /\ Cardinality(Cols(k + 1)) = Offset(row, k + 1)
    OBVIOUS
  <2>2. IsFiniteSet(Cols(k)) /\ Cardinality(Cols(k)) = Offset(row, k)
    BY <1>1, <1>8, <2>1
  <2>3. k + 1 \in 1 .. m /\ (k + 1) - 1 = k /\ \A j \in 1 .. k : j \in 1 .. m /\ j # k + 1
    BY <1>1, <2>1
  <2>4. Cols(k + 1) = Cols(k) \cup Part(k + 1)
    <3>1. 1 .. k + 1 = (1 .. k) \cup {k + 1}
      OBVIOUS
    <3> HIDE DEF Part
    <3> QED  BY <3>1
  <2>5. Cols(k) \cap Part(k + 1) = {}
    <3>1. \A j \in 1 .. k : Part(j) \cap Part(k + 1) = {}
      BY <1>3, <2>3
    <3> HIDE DEF Part
    <3> QED  BY <3>1
  <2>6. IsFiniteSet(Part(k + 1)) /\ Cardinality(Part(k + 1)) = elems[row[k + 1]].cols /\ elems[row[k + 1]].cols \in 1 .. 4
    BY <1>6, <2>3
  <2> HIDE DEF Cols, Part
  <2>7. Cardinality(Cols(k)) \in Nat
    BY <2>2, FS_CardinalityType
  <2>8. /\ IsFiniteSet(Cols(k) \cup Part(k + 1))
        /\ Cardinality(Cols(k) \cup Part(k + 1))
             = Cardinality(Cols(k)) + Cardinality(Part(k + 1)) - Cardinality(Cols(k) \cap Part(k + 1))
    BY ONLY <2>2, <2>6, FS_Union
  <2>9. Cardinality(Cols(k) \cap Part(k + 1)) = 0
    BY <2>5, FS_EmptySet
  <2>10. Offset(row, k + 1) = Offset(row, k) + elems[row[k + 1]].cols
    BY <1>5, <2>3
  <2>11. Cardinality(Cols(k) \cup Part(k + 1)) = Offset(row, k + 1)
    BY <2>2, <2>6, <2>7, <2>8, <2>9, <2>10
  <2> QED  BY <2>4, <2>8, <2>11
<1> HIDE DEF T
<1>9. ASSUME NEW k \in 0 .. m PROVE Offset(row, k) \in 0 .. 4
  <2>1. k \in Nat /\ k <= m
    BY <1>1
  <2>2. IsFiniteSet(Cols(k)) /\ Cardinality(Cols(k)) = Offset(row, k)
    <3>1. k \in T
      BY <1>7, <1>8, <2>1, EveryNatural
    <3> QED  BY <2>1, <3>1 DEF T
  <2>3. Cols(k) \subseteq 0 .. 3
    <3>1. \A j \in 1 .. k : j \in 1 .. m
      BY <1>1
    <3>2. \A j \in 1 .. k : Part(j) \subseteq 0 .. 3
      BY <1>6, <3>1
    <3> HIDE DEF Part
    <3> QED  BY <3>2
  <2> HIDE DEF Cols
  <2>4. IsFiniteSet(0 .. 3) /\ Cardinality(0 .. 3) = 4
    <3>1. 0 \in Int /\ 3 \in Int
      OBVIOUS
    <3>2. IsFiniteSet(0 .. 3) /\ Cardinality(0 .. 3) = IF 0 > 3 THEN 0 ELSE 3 - 0 + 1
      BY ONLY <3>1, FS_Interval
    <3> QED  BY ONLY <3>2
  <2>5. Cardinality(Cols(k)) <= 4 /\ Cardinality(Cols(k)) \in Nat
    BY <2>2, <2>3, <2>4, FS_Subset, FS_CardinalityType
  <2> QED  BY <2>2, <2>5
<1>10. ASSUME NEW k \in 1 .. m PROVE Offset(row, k) \in Nat \ {0}
  <2>1. k - 1 \in 0 .. m
    BY <1>1
  <2>2. Offset(row, k - 1) \in 0 .. 4
    BY <1>9, <2>1
  <2>3. Offset(row, k) = Offset(row, k - 1) + elems[row[k]].cols
    BY <1>5
  <2>4. elems[row[k]].cols \in 1 .. 4
    <3>1. elems[row[k]] \in Shape
      BY <1>2
    <3> QED  BY <3>1, ShapeType
  <2>5. PICK a \in 0 .. 4 : a = Offset(row, k - 1)
    BY <2>2
  <2>6. PICK b \in 1 .. 4 : b = elems[row[k]].cols
    BY <2>4
  <2>7. Offset(row, k) = a + b
    BY <2>3, <2>5, <2>6
  <2>8. a + b \in Nat \ {0}
    BY ONLY a \in 0 .. 4, b \in 1 .. 4
  <2> QED  BY <2>7, <2>8
<1> QED  BY <1>1, <1>4, <1>9, <1>10 DEF m, SameModes

\* Clip/cull elements of one row with the modes of m.
Slim(e, m) == e \in Shape /\ e.kind = "clip" /\ e.rows = 1 /\ e.interp = m.interp /\ e.width = m.width

\* An element of one row has no index flags.
LEMMA NoFlags ==
  ASSUME NEW e \in Shape, NEW p \in Place, NEW r, e.rows = 1, r \in RowsOf(e, p)
  PROVE  r = p.row /\ IndexAt(e, p, r) = {}
<1>1. p.row \in Nat
  BY DEF Place
<1>2. r = p.row
  BY <1>1 DEF RowsOf
<1> QED  BY <1>1, <1>2 DEF IndexAt, GetIndexFlags

\* Part of a row takes the place of the whole.
LEMMA Narrow ==
  ASSUME NEW w, NEW e, Slim(w, w), Slim(e, w), NEW at \in Place, NEW p \in Place,
         p.row = at.row, at.col <= p.col, p.col + e.cols <= at.col + w.cols,
         NEW f \in Shape, NEW q \in Place, Compatible(w, at, f, q)
  PROVE  Compatible(e, p, f, q)
<1>1. SUFFICES ASSUME NEW r \in RowsOf(e, p) \cap RowsOf(f, q) PROVE Agree(e, p, f, q, r)
  BY CompatibleRows
<1>2. /\ e \in Shape /\ e.rows = 1 /\ e.kind = "clip" /\ w \in Shape /\ w.rows = 1 /\ w.kind = "clip"
      /\ e.interp = w.interp /\ e.width = w.width
  BY DEF Slim
<1>3. r = p.row /\ r = at.row /\ IndexAt(e, p, r) = {} /\ r \in RowsOf(w, at) /\ IndexAt(w, at, r) = {}
  <2>1. r = p.row /\ IndexAt(e, p, r) = {}
    BY <1>2, NoFlags
  <2>2. r \in RowsOf(w, at)
    BY <1>2, <2>1 DEF RowsOf, Place
  <2> QED  BY <1>2, <2>1, <2>2, NoFlags
<1>4. Agree(w, at, f, q, r)
  BY <1>1, <1>3, CompatibleRows
<1>5. /\ at.col \in Nat /\ p.col \in Nat /\ q.col \in Nat /\ e.cols \in 1 .. 4 /\ w.cols \in 1 .. 4 /\ f.cols \in 1 .. 4
  BY <1>2, ShapeType DEF Place
<1>6. Span(at.col, w) \cap Span(q.col, f) = {}
  BY <1>4 DEF Agree
<1>7. Span(p.col, e) \subseteq Span(at.col, w)
  BY <1>5 DEF Span
<1>8. q.col < at.col \/ q.col >= at.col + w.cols
  <2>1. q.col \in Span(q.col, f)
    BY <1>5 DEF Span
  <2>2. q.col \notin Span(at.col, w)
    BY <1>6, <2>1
  <2> QED  BY <1>5, <2>2 DEF Span
<1>9. (p.col < q.col <=> at.col < q.col) /\ (q.col < p.col <=> q.col < at.col)
  BY <1>5, <1>8
<1>10. Ordered(e, p, f, q) /\ Ordered(f, q, e, p)
  BY <1>2, <1>4, <1>9 DEF Agree, Ordered
<1>11. Indexable(e, p, f, q, r) /\ Indexable(f, q, e, p, r)
  BY <1>2, <1>3, <1>4 DEF Agree, Indexable
<1> QED  BY <1>2, <1>4, <1>6, <1>7, <1>10, <1>11 DEF Agree

\* Parts of a row that do not overlap.
LEMMA Beside ==
  ASSUME NEW e, NEW f, Slim(e, e), Slim(f, e), NEW p \in Place, NEW q \in Place,
         p.col + e.cols <= q.col \/ q.col + f.cols <= p.col
  PROVE  Compatible(e, p, f, q)
<1>1. SUFFICES ASSUME NEW r \in RowsOf(e, p) \cap RowsOf(f, q) PROVE Agree(e, p, f, q, r)
  BY CompatibleRows
<1>2. /\ e \in Shape /\ e.rows = 1 /\ e.kind = "clip" /\ f \in Shape /\ f.rows = 1 /\ f.kind = "clip"
      /\ e.interp = f.interp /\ e.width = f.width
  BY DEF Slim
<1>3. IndexAt(e, p, r) = {} /\ IndexAt(f, q, r) = {}
  BY <1>2, NoFlags
<1>4. p.col \in Nat /\ q.col \in Nat /\ e.cols \in 1 .. 4 /\ f.cols \in 1 .. 4
  BY <1>2, ShapeType DEF Place
<1>5. Span(p.col, e) \cap Span(q.col, f) = {}
  BY <1>4 DEF Span
<1>6. Ordered(e, p, f, q) /\ Ordered(f, q, e, p)
  BY <1>2 DEF Ordered, Rank, SystemValues
<1>7. Indexable(e, p, f, q, r) /\ Indexable(f, q, e, p, r)
  BY <1>2, <1>3 DEF Indexable
<1> QED  BY <1>2, <1>5, <1>6, <1>7 DEF Agree

\* Compatibility does not depend on the order of the two.
LEMMA CompatibleSymmetric ==
  ASSUME NEW e, NEW p, NEW f, NEW q, Compatible(e, p, f, q) PROVE Compatible(f, q, e, p)
BY DEF Compatible

\* The element that stands for a row.
LEMMA WholeSlim ==
  ASSUME elems \in Seq(Shape), NEW row \in Seq(DOMAIN elems), row # <<>>,
         elems[row[1]].kind = "clip", elems[row[1]].rows = 1, Offset(row, Len(row)) \in 1 .. 4
  PROVE  /\ Slim(Whole(row), elems[row[1]]) /\ Slim(Whole(row), Whole(row))
         /\ Whole(row).cols = Offset(row, Len(row))
         /\ Whole(row).interp = elems[row[1]].interp /\ Whole(row).width = elems[row[1]].width
<1> DEFINE e == elems[row[1]]
           w == Whole(row)
<1>1. row[1] \in DOMAIN elems
  <2>1. 1 \in DOMAIN row
    OBVIOUS
  <2> QED  BY <2>1
<1>2. e \in Shape
  BY <1>1
<1>3. w = [e EXCEPT !.rows = 1, !.cols = Offset(row, Len(row))]
  BY DEF Whole
<1> HIDE DEF w, e
<1>4. e \in [kind : Kinds, rows : 1 .. 2, cols : 1 .. 4, interp : Nat, width : Nat]
      /\ e.width # Undefined /\ (e.interp = Undefined <=> Modeless)
  BY <1>2 DEF Shape, Element
<1>5. PICK c \in 1 .. 4 : c = Offset(row, Len(row))
  OBVIOUS
<1>6. /\ w.kind = e.kind /\ w.rows = 1 /\ w.cols = c /\ w.interp = e.interp /\ w.width = e.width
      /\ w = [kind |-> e.kind, rows |-> 1, cols |-> c, interp |-> e.interp, width |-> e.width]
  BY <1>3, <1>4, <1>5
<1>7. w \in Element
  BY <1>4, <1>6 DEF Element
<1>8. w \in Shape /\ w.kind = "clip"
  BY <1>4, <1>6, <1>7 DEF Shape, e
<1>9. Slim(w, e) /\ Slim(w, w)
  BY <1>6, <1>8 DEF Slim
<1> QED  BY <1>5, <1>6, <1>9 DEF w, e

\* An element has rows and columns.
LEMMA ShapeSize ==
  ASSUME NEW e \in Shape PROVE e.cols \in Nat \ {0} /\ e.rows \in Nat \ {0}
<1>1. e.cols \in 1 .. 4 /\ e.rows \in 1 .. 2
  BY ShapeType
<1> QED  BY <1>1

\* Offsets grow along a row.
LEMMA OffsetMonotone ==
  ASSUME elems \in Seq(Shape), NEW row \in Seq(DOMAIN elems), \A k \in 0 .. Len(row) : Offset(row, k) \in Nat
  PROVE  \A j, k \in 0 .. Len(row) : j <= k => Offset(row, j) <= Offset(row, k)
<1> DEFINE m == Len(row)
<1>1. m \in Nat /\ \A k \in 1 .. m : row[k] \in DOMAIN elems
  OBVIOUS
<1>2. \A k \in 1 .. m : Offset(row, k) = Offset(row, k - 1) + elems[row[k]].cols
  BY <1>1, OffsetRuns
<1>3. \A k \in 1 .. m : elems[row[k]].cols \in Nat
  <2> TAKE k \in 1 .. m
  <2>1. elems[row[k]] \in Shape
    BY <1>1
  <2> QED  BY <2>1, ShapeSize
<1> HIDE DEF m
<1>4. SUFFICES ASSUME NEW j \in 0 .. m PROVE \A k \in 0 .. m : j <= k => Offset(row, j) <= Offset(row, k)
  BY DEF m
<1> DEFINE T == {k \in Nat : k <= m /\ j <= k => Offset(row, j) <= Offset(row, k)}
<1>5. 0 \in T
  BY <1>4 DEF m
<1>6. ASSUME NEW k \in Nat, k \in T PROVE k + 1 \in T
  <2>1. SUFFICES ASSUME k + 1 <= m, j <= k + 1 PROVE Offset(row, j) <= Offset(row, k + 1)
    OBVIOUS
  <2>2. k + 1 \in 1 .. m /\ k + 1 \in 0 .. m /\ k \in 0 .. m /\ (k + 1) - 1 = k
    <3>1. m \in Nat
      BY <1>1
    <3> QED  BY ONLY <2>1, <3>1, k \in Nat
  <2>3. PICK a \in Nat : a = Offset(row, k)
    BY <2>2 DEF m
  <2>4. PICK b \in Nat : b = elems[row[k + 1]].cols
    BY <1>3, <2>2
  <2>5. PICK c \in Nat : c = Offset(row, j)
    BY <1>4 DEF m
  <2>6. Offset(row, k + 1) = a + b
    BY <1>2, <2>2, <2>3, <2>4
  <2>7. CASE j <= k
    <3>1. c <= a
      BY <1>6, <2>2, <2>3, <2>5, <2>7
    <3> QED  BY <2>5, <2>6, <3>1
  <2>8. CASE j = k + 1
    <3>1. a + b <= a + b
      OBVIOUS
    <3> QED  BY <2>6, <2>8, <3>1
  <2> QED  BY <2>1, <2>7, <2>8
<1> HIDE DEF T
<1>7. ASSUME NEW k \in 0 .. m, j <= k PROVE Offset(row, j) <= Offset(row, k)
  <2>1. k \in T
    <3>1. k \in Nat
      BY <1>1
    <3> QED  BY <1>5, <1>6, <3>1, EveryNatural
  <2>2. k \in Nat /\ k <= m
    BY <1>1
  <2> QED  BY <1>7, <2>1, <2>2 DEF T
<1> QED  BY <1>7

\* A row placed where the whole of it fits.
LEMMA PlaceRowGood ==
  ASSUME elems \in Seq(Shape), NEW n \in Nat, NEW S \in SUBSET DOMAIN elems, NEW D \in SUBSET S,
         NEW row \in Seq(D), Distinct(row), row # <<>>, NEW t, Good(t, n, S), \A i \in D : t.loc[i] = None,
         \A k \in 0 .. Len(row) : Offset(row, k) \in 0 .. 4,
         NEW w, Slim(w, w), w.cols = Offset(row, Len(row)), \A k \in DOMAIN row : Slim(elems[row[k]], w),
         NEW at \in Place, Taken(t.regs, n, w, at)
  PROVE  Good(PlaceRow(t, row, at), n, S) /\ Grown(t, PlaceRow(t, row, at), D, at.row, at.row)
<1> DEFINE m == Len(row)
           P(k) == [row |-> at.row, col |-> at.col + Offset(row, k - 1)]
<1>1. m \in Nat /\ DOMAIN row = 1 .. m /\ \A k \in 1 .. m : row[k] \in D /\ row[k] \in S /\ row[k] \in DOMAIN elems
  OBVIOUS
<1>2. PICK f : /\ f[0] = t
               /\ \A k \in 1 .. m : f[k] = PackAt(f[k - 1], row[k], P(k))
               /\ PlaceRow(t, row, at) = f[m]
  <2>1. at # None /\ m \in Nat
    BY <1>1, SignatureAssumption
  <2> QED  BY <2>1, PlaceRowRuns
<1>3. /\ \A k \in 0 .. m : Offset(row, k) \in Nat
      /\ \A j, k \in 0 .. m : j <= k => Offset(row, j) <= Offset(row, k)
  <2>1. row \in Seq(DOMAIN elems) /\ \A k \in 0 .. m : Offset(row, k) \in Nat
    OBVIOUS
  <2> QED  BY <2>1, OffsetMonotone
<1>4. \A k \in 1 .. m : Offset(row, k) = Offset(row, k - 1) + elems[row[k]].cols
  BY <1>1, OffsetRuns
<1>5. /\ w \in Shape /\ w.rows = 1 /\ at.row \in Nat /\ at.col \in Nat
      /\ at.row + 1 <= n /\ at.col + w.cols <= 4 /\ w.cols \in Nat
  <2>1. w \in Shape /\ w.rows = 1
    BY DEF Slim
  <2>2. w.cols \in Nat
    BY <2>1, ShapeSize
  <2>3. at.row \in Nat /\ at.col \in Nat
    BY DEF Place
  <2>4. at.row + w.rows <= n /\ at.col + w.cols <= 4
    BY DEF Taken
  <2> QED  BY ONLY <2>1, <2>2, <2>3, <2>4
<1>6. w.cols = Offset(row, m)
  OBVIOUS
<1> HIDE DEF m
<1>7. ASSUME NEW k \in 1 .. m
      PROVE  /\ P(k) \in Place /\ P(k).row = at.row /\ P(k).col = at.col + Offset(row, k - 1)
             /\ elems[row[k]] \in Shape /\ elems[row[k]].rows = 1 /\ Slim(elems[row[k]], w)
             /\ P(k).col + elems[row[k]].cols = at.col + Offset(row, k)
             /\ at.col <= P(k).col /\ P(k).col + elems[row[k]].cols <= at.col + w.cols
  <2>1. k - 1 \in 0 .. m /\ k \in 0 .. m /\ m \in 0 .. m /\ k <= m /\ k \in DOMAIN row
    BY <1>1
  <2>2. PICK a \in Nat : a = Offset(row, k - 1)
    BY <1>3, <2>1
  <2>3. PICK b \in Nat : b = Offset(row, k)
    BY <1>3, <2>1
  <2>4. Slim(elems[row[k]], w) /\ elems[row[k]] \in Shape /\ elems[row[k]].rows = 1
    BY <2>1 DEF Slim
  <2>5. PICK c \in Nat : c = elems[row[k]].cols
    BY <2>4, ShapeSize
  <2>6. b = a + c /\ b <= w.cols
    BY <1>3, <1>4, <1>6, <2>1, <2>2, <2>3, <2>5
  <2>7. P(k).row = at.row /\ P(k).col = at.col + a
    BY <2>2
  <2>8. P(k) \in Place
    BY <1>5, <2>2 DEF Place
  <2> HIDE DEF P
  <2>9. P(k).col + elems[row[k]].cols = at.col + Offset(row, k)
    <3>1. PICK q \in Nat : q = at.col
      BY <1>5
    <3>2. q + a + c = q + b
      BY <2>6
    <3> QED  BY <2>3, <2>5, <2>7, <3>1, <3>2
  <2>10. at.col <= P(k).col
    BY <1>5, <2>7
  <2>11. P(k).col + elems[row[k]].cols <= at.col + w.cols
    <3>1. at.col + b <= at.col + w.cols
      BY <1>5, <2>6
    <3> QED  BY <2>3, <2>9, <3>1
  <2> QED  BY <2>2, <2>4, <2>7, <2>8, <2>9, <2>10, <2>11
<1> HIDE DEF P
<1> DEFINE T == {k \in Nat : k <= m =>
                    /\ Good(f[k], n, S) /\ Grown(t, f[k], D, at.row, at.row)
                    /\ \A j \in 1 .. m : f[k].loc[row[j]] = IF j <= k THEN P(j) ELSE None
                    /\ \A i \in S : (\A j \in 1 .. m : i # row[j]) => f[k].loc[i] = t.loc[i]}
<1>8. 0 \in T
  <2>1. Grown(t, t, D, at.row, at.row)
    BY DEF Grown
  <2>2. \A j \in 1 .. m : t.loc[row[j]] = None /\ ~(j <= 0)
    BY <1>1
  <2> QED  BY <1>2, <2>1, <2>2
<1>9. ASSUME NEW k \in Nat, k \in T PROVE k + 1 \in T
  <2> DEFINE u == f[k]
             i == row[k + 1]
             e == elems[i]
             p == P(k + 1)
  <2>1. SUFFICES ASSUME k + 1 <= m
                 PROVE  /\ Good(f[k + 1], n, S) /\ Grown(t, f[k + 1], D, at.row, at.row)
                        /\ \A j \in 1 .. m : f[k + 1].loc[row[j]] = IF j <= k + 1 THEN P(j) ELSE None
                        /\ \A h \in S : (\A j \in 1 .. m : h # row[j]) => f[k + 1].loc[h] = t.loc[h]
    OBVIOUS
  <2>2. /\ Good(u, n, S) /\ Grown(t, u, D, at.row, at.row)
        /\ \A j \in 1 .. m : u.loc[row[j]] = IF j <= k THEN P(j) ELSE None
        /\ \A h \in S : (\A j \in 1 .. m : h # row[j]) => u.loc[h] = t.loc[h]
    BY <1>1, <1>9, <2>1
  <2>3. k + 1 \in 1 .. m /\ (k + 1) - 1 = k /\ k \in 0 .. m /\ ~(k + 1 <= k)
    BY <1>1, <2>1
  <2>4. /\ i \in D /\ i \in S /\ i \in DOMAIN elems /\ u.loc[i] = None
        /\ p \in Place /\ e \in Shape /\ e.rows = 1 /\ Slim(e, w)
        /\ p.row = at.row /\ p.col = at.col + Offset(row, k) /\ at.col <= p.col
        /\ p.col + e.cols <= at.col + w.cols
    BY <1>1, <1>7, <2>2, <2>3
  <2>5. f[k + 1] = PackAt(u, i, p)
    BY <1>2, <2>3
  <2>6. Taken(u.regs, n, e, p)
    <3>1. p.row + e.rows <= n /\ p.col + e.cols <= 4
      <4>1. p.row + e.rows <= n
        BY <1>5, <2>4
      <4>2. PICK c \in Nat : c = p.col
        BY <2>4 DEF Place
      <4>3. PICK d \in Nat : d = e.cols
        BY <2>4, ShapeSize
      <4>4. c + d <= at.col + w.cols
        BY <2>4, <4>2, <4>3
      <4>5. c + d <= 4
        BY <1>5, <4>4
      <4> QED  BY <4>1, <4>2, <4>3, <4>5
    <3>2. ASSUME NEW x \in ItemsOf(u.loc, S) PROVE Compatible(e, p, x.shape, x.at)
      <4>1. PICK h \in S : u.loc[h] # None /\ x = [id |-> h, shape |-> elems[h], at |-> u.loc[h]]
        BY DEF ItemsOf
      <4>2. x.shape = elems[h] /\ x.at = u.loc[h]
        BY <4>1
      <4>3. CASE \E j \in 1 .. m : h = row[j]
        <5>1. PICK j \in 1 .. m : h = row[j]
          BY <4>3
        <5>2. j <= k /\ u.loc[h] = P(j)
          BY <2>2, <4>1, <5>1
        <5>3. /\ P(j) \in Place /\ Slim(elems[h], w) /\ P(j).col + elems[h].cols = at.col + Offset(row, j)
          BY <1>7, <5>1
        <5>4. at.col + Offset(row, j) <= at.col + Offset(row, k)
          <6>1. j \in 0 .. m
            BY <1>1
          <6>2. PICK a \in Nat : a = Offset(row, j)
            BY <1>3, <6>1
          <6>3. PICK b \in Nat : b = Offset(row, k)
            BY <1>3, <2>3
          <6>4. a <= b
            BY <1>3, <2>3, <5>2, <6>1, <6>2, <6>3
          <6> QED  BY <1>5, <6>2, <6>3, <6>4
        <5>5. P(j).col + elems[h].cols <= p.col
          BY <2>4, <5>3, <5>4
        <5>6. Slim(e, e) /\ Slim(elems[h], e)
          BY <2>4, <5>3 DEF Slim
        <5> HIDE DEF e, p
        <5>7. Compatible(e, p, elems[h], P(j))
          BY <2>4, <5>3, <5>5, <5>6, Beside
        <5> QED  BY <4>2, <5>2, <5>7
      <4>4. CASE ~ \E j \in 1 .. m : h = row[j]
        <5>1. u.loc[h] = t.loc[h]
          BY <2>2, <4>4
        <5>2. x \in ItemsOf(t.loc, S)
          BY <4>1, <5>1 DEF ItemsOf
        <5>3. Compatible(w, at, x.shape, x.at) /\ x.shape \in Shape /\ x.at \in Place
          <6>1. Holds(t.regs, n, ItemsOf(t.loc, S))
            BY DEF Good
          <6>2. x \in Item
            BY <5>2, <6>1 DEF Holds
          <6>3. \A y \in ItemsOf(t.loc, S) : Compatible(w, at, y.shape, y.at)
            BY <1>5, <6>1, TakenExactly
          <6> QED  BY <5>2, <6>2, <6>3 DEF Item
        <5> HIDE DEF e, p
        <5> QED  BY <2>4, <5>3, Narrow
      <4> QED  BY <4>3, <4>4
    <3>3. Holds(u.regs, n, ItemsOf(u.loc, S))
      BY <2>2 DEF Good
    <3> HIDE DEF u, e, p
    <3> QED  BY <2>4, <3>1, <3>2, <3>3, TakenExactly
  <2>7. Good(f[k + 1], n, S) /\ Moved(u, f[k + 1], i, p)
    <3>0. i \in S /\ u.loc[i] = None /\ p \in Place /\ Good(u, n, S) /\ Taken(u.regs, n, elems[i], p)
      BY <2>2, <2>4, <2>6
    <3> HIDE DEF T, u, i, p, e
    <3>1. /\ Good(PackAt(u, i, p), n, S)
          /\ Moved(u, PackAt(u, i, p), i, p)
      BY ONLY <3>0, PackAtGood, elems \in Seq(Shape), n \in Nat, S \in SUBSET DOMAIN elems
    <3> QED  BY <2>5, <3>1
  <2>8. f[k + 1].loc[i] = p /\ \A h \in DOMAIN elems \ {i} : f[k + 1].loc[h] = u.loc[h]
    <3> HIDE DEF u, i, p
    <3> QED  BY <2>4, <2>7 DEF Moved
  <2>9. Grown(t, f[k + 1], D, at.row, at.row)
    <3>1. \A h \in DOMAIN elems \ D : f[k + 1].loc[h] = t.loc[h]
      <4> HIDE DEF u, i, p
      <4> QED  BY <2>2, <2>4, <2>8 DEF Grown
    <3>2. ASSUME NEW h \in DOMAIN elems \cap D, f[k + 1].loc[h] # None
          PROVE  RowsOf(elems[h], f[k + 1].loc[h]) \subseteq at.row .. at.row
      <4>1. CASE h = i
        <5>1. f[k + 1].loc[h] = p /\ elems[h] = e
          BY <2>8, <4>1
        <5>2. p.row .. p.row + e.rows - 1 = at.row .. at.row
          BY <1>5, <2>4
        <5> QED  BY <5>1, <5>2 DEF RowsOf
      <4>2. CASE h # i
        <5> HIDE DEF u, i, p
        <5> QED  BY <2>2, <2>8, <3>2, <4>2 DEF Grown
      <4> QED  BY <4>1, <4>2
    <3> QED  BY <3>1, <3>2 DEF Grown
  <2>10. ASSUME NEW j \in 1 .. m PROVE f[k + 1].loc[row[j]] = IF j <= k + 1 THEN P(j) ELSE None
    <3>1. CASE j = k + 1
      BY <2>8, <3>1
    <3>2. CASE j # k + 1
      <4>1. row[j] # i /\ row[j] \in DOMAIN elems
        BY <1>1, <2>3, <3>2 DEF Distinct
      <4>2. f[k + 1].loc[row[j]] = IF j <= k THEN P(j) ELSE None
        BY <2>2, <2>8, <4>1
      <4>3. j <= k <=> j <= k + 1
        BY <3>2
      <4> QED  BY <4>2, <4>3
    <3> QED  BY <3>1, <3>2
  <2>11. \A h \in S : (\A j \in 1 .. m : h # row[j]) => f[k + 1].loc[h] = t.loc[h]
    <3>1. \A h \in S : (\A j \in 1 .. m : h # row[j]) => h # i /\ h \in DOMAIN elems
      BY <2>3
    <3> HIDE DEF i, u
    <3> QED  BY <2>2, <2>8, <3>1
  <2> QED  BY <2>7, <2>9, <2>10, <2>11
<1> HIDE DEF T
<1>10. m \in T
  BY <1>1, <1>8, <1>9, EveryNatural
<1>11. Good(f[m], n, S) /\ Grown(t, f[m], D, at.row, at.row)
  BY <1>1, <1>10 DEF T
<1> QED  BY <1>2, <1>11

\* A row of clip/cull elements goes to one row, or nowhere.
LEMMA PackRowGood ==
  ASSUME elems \in Seq(Shape), start \in Nat,
         NEW S \in SUBSET DOMAIN elems, NEW D \in SUBSET S, NEW row \in Seq(D), Distinct(row),
         NEW t, Good(t, NumRegisters, S), \A i \in D : t.loc[i] = None,
         \A k \in 0 .. Len(row) : Offset(row, k) \in 0 .. 4,
         \A k \in 1 .. Len(row) : Offset(row, k) \in Nat \ {0},
         \A k \in DOMAIN row : /\ elems[row[k]].kind = "clip" /\ elems[row[k]].rows = 1
                               /\ elems[row[k]].interp = elems[row[1]].interp
                               /\ elems[row[k]].width = elems[row[1]].width
  PROVE  \E r \in Nat : Good(PackRow(t, row), NumRegisters, S) /\ Grown(t, PackRow(t, row), D, r, r)
<1>0. NumRegisters \in Nat
  BY SignatureAssumption
<1>1. ASSUME NEW r \in Nat PROVE Good(t, NumRegisters, S) /\ Grown(t, t, D, r, r)
  BY DEF Grown
<1>2. CASE row = <<>>
  <2>1. PackRow(t, row) = t
    BY <1>2 DEF PackRow
  <2> QED  BY <1>1, <2>1
<1>3. CASE row # <<>>
  <2> DEFINE w == Whole(row)
             at == FindNext(t.regs, w, start, NumRegisters, 0)
  <2>1. PackRow(t, row) = PlaceRow(t, row, at)
    BY <1>3 DEF PackRow
  <2>2. Len(row) \in Nat /\ Len(row) # 0 /\ DOMAIN row = 1 .. Len(row) /\ row \in Seq(DOMAIN elems)
    BY <1>3
  <2>3. 1 \in DOMAIN row /\ Len(row) \in 0 .. Len(row) /\ Len(row) \in 1 .. Len(row)
    BY <2>2
  <2>4. Offset(row, Len(row)) \in 1 .. 4
    <3>1. Offset(row, Len(row)) \in 0 .. 4 /\ Offset(row, Len(row)) \in Nat \ {0}
      BY <2>3
    <3> QED  BY <3>1
  <2>5. /\ Slim(w, elems[row[1]]) /\ Slim(w, w) /\ w.cols = Offset(row, Len(row))
        /\ w.interp = elems[row[1]].interp /\ w.width = elems[row[1]].width
    BY <1>3, <2>2, <2>3, <2>4, WholeSlim
  <2> HIDE DEF w
  <2>6. \A k \in DOMAIN row : Slim(elems[row[k]], w)
    <3>1. \A k \in DOMAIN row : elems[row[k]] \in Shape
      OBVIOUS
    <3> QED  BY <2>5, <3>1 DEF Slim
  <2>7. w \in Shape /\ DOMAIN t.regs = 0 .. NumRegisters - 1
    BY <2>5 DEF Slim, Good, Holds
  <2>8. at # None => at \in Place /\ Taken(t.regs, NumRegisters, w, at)
    BY <1>0, <2>7, FindNextResult
  <2> HIDE DEF at
  <2>9. CASE at = None
    <3>1. PlaceRow(t, row, at) = t
      BY <2>9 DEF PlaceRow
    <3> QED  BY <1>1, <2>1, <3>1
  <2>10. CASE at # None
    <3>1. at \in Place /\ Taken(t.regs, NumRegisters, w, at) /\ at.row \in Nat
      BY <2>8, <2>10 DEF Place
    <3>2. Good(PlaceRow(t, row, at), NumRegisters, S) /\ Grown(t, PlaceRow(t, row, at), D, at.row, at.row)
      BY <1>0, <1>3, <2>5, <2>6, <3>1, PlaceRowGood
    <3> QED  BY <2>1, <3>1, <3>2
  <2> QED  BY <2>9, <2>10
<1> QED  BY <1>2, <1>3

\* A step that places clip/cull elements only, in the rows r1 and r2.
ClipsMoved(t, r1, r2) ==
  /\ Good(t, NumRegisters, DOMAIN elems)
  /\ \A i \in DOMAIN elems \ GroupSet("clip") : t.loc[i] = loc[i]
  /\ \A i \in GroupSet("clip") : t.loc[i] # None => RowsOf(elems[i], t.loc[i]) \subseteq {r1, r2}
\* No clip/cull element has a place yet, or several rows.
ClipsFree == \A i \in GroupSet("clip") : loc[i] = None /\ elems[i].rows = 1

\* The clip/cull elements of one row each, in two rows.
LEMMA TwoRowsGood ==
  ASSUME elems \in Seq(Shape), start \in Nat, NEW h, Good(h, NumRegisters, DOMAIN elems), h.loc = loc,
         ClipsFree,
         NEW pre, pre = PackGreedy([regs |-> Registers(2), loc |-> loc, used |-> 0], Group("clip"), 0, 2, 0).loc
  PROVE  \E r1, r2 \in Nat : ClipsMoved(PackRow(PackRow(h, InRow(pre, 0)), InRow(pre, 1)), r1, r2)
<1>0. \A i \in GroupSet("clip") : loc[i] = None /\ elems[i].rows = 1
  BY DEF ClipsFree
<1> DEFINE C == GroupSet("clip")
           s == [regs |-> Registers(2), loc |-> loc, used |-> 0]
           D(k) == {i \in C : pre[i] # None /\ pre[i].row = k}
<1>1. C \in SUBSET DOMAIN elems /\ \A i \in C : elems[i].kind = "clip"
  BY DEF GroupSet, InGroup
<1>2. loc \in [DOMAIN elems -> Place \cup {None}]
  BY DEF Good
<1>3. Good(s, 2, C)
  <2>1. ItemsOf(loc, C) = {}
    BY <1>0 DEF ItemsOf
  <2>2. Holds(Registers(2), 2, {})
    BY EmptyHolds
  <2>3. s.loc = loc /\ s.regs = Registers(2) /\ s.used = 0 /\ 0 \in 0 .. 2
    OBVIOUS
  <2> HIDE DEF s, C
  <2> QED  BY <1>2, <2>1, <2>2, <2>3 DEF Good
<1>4. Group("clip") \in Seq(C) /\ Distinct(Group("clip"))
  BY <1>1, SortedResult DEF Group, Distinct
<1> DEFINE u == PackGreedy(s, Group("clip"), 0, 2, 0)
<1>5. Good(u, 2, C)
  <2>1. \A i \in C : s.loc[i] = None
    BY <1>0
  <2> HIDE DEF s, C
  <2> QED  BY <1>1, <1>3, <1>4, <2>1, PackGreedyGood
<1>6. /\ pre = u.loc
      /\ pre \in [DOMAIN elems -> Place \cup {None}] /\ Holds(u.regs, 2, ItemsOf(pre, C))
  BY <1>5 DEF Good
<1> HIDE DEF C, s, u
<1>7. ASSUME NEW k \in 0 .. 1
      PROVE  LET row == InRow(pre, k) IN
             /\ row \in Seq(D(k)) /\ Distinct(row) /\ D(k) \in SUBSET C
             /\ \A j \in 0 .. Len(row) : Offset(row, j) \in 0 .. 4
             /\ \A j \in 1 .. Len(row) : Offset(row, j) \in Nat \ {0}
             /\ \A j \in DOMAIN row : /\ elems[row[j]].kind = "clip" /\ elems[row[j]].rows = 1
                                      /\ elems[row[j]].interp = elems[row[1]].interp
                                      /\ elems[row[j]].width = elems[row[1]].width
  <2> DEFINE row == InRow(pre, k)
  <2>1. D(k) \in SUBSET C /\ D(k) \in SUBSET DOMAIN elems
    BY <1>1
  <2>2. row = Sorted(D(k))
    BY DEF InRow, C
  <2>3. row \in Seq(D(k)) /\ Distinct(row)
    BY <2>1, <2>2, SortedResult DEF Distinct
  <2>4. \A j \in DOMAIN row : row[j] \in D(k)
    BY <2>3
  <2>5. row \in Seq(C) /\ \A j \in DOMAIN row : pre[row[j]] # None /\ pre[row[j]].row = k /\ elems[row[j]].rows = 1
                                                /\ elems[row[j]].kind = "clip"
    BY <1>0, <1>1, <2>1, <2>3, <2>4 DEF C
  <2> HIDE DEF row, D
  <2>6. /\ \A j \in 0 .. Len(row) : Offset(row, j) \in 0 .. 4
        /\ \A j \in 1 .. Len(row) : Offset(row, j) \in Nat \ {0}
        /\ SameModes(row)
    <3>1. Lined(pre, row, k)
      BY <2>5 DEF Lined
    <3>2. row \in Seq(C) /\ 2 \in Nat
      BY <2>5
    <3>3. PICK rs : Holds(rs, 2, ItemsOf(pre, C))
      BY <1>6
    <3>4. Distinct(row) /\ C \in SUBSET DOMAIN elems /\ pre \in [DOMAIN elems -> Place \cup {None}]
      BY <1>1, <1>6, <2>3
    <3>5. \A j \in 0 .. Len(row) : Offset(row, j) \in 0 .. 4
      BY ONLY elems \in Seq(Shape), <3>1, <3>2, <3>3, <3>4, RowFits
    <3>6. \A j \in 1 .. Len(row) : Offset(row, j) \in Nat \ {0}
      BY ONLY elems \in Seq(Shape), <3>1, <3>2, <3>3, <3>4, RowFits
    <3>7. SameModes(row)
      BY ONLY elems \in Seq(Shape), <3>1, <3>2, <3>3, <3>4, RowFits
    <3> QED  BY <3>5, <3>6, <3>7
  <2>7. \A j \in DOMAIN row : 1 \in DOMAIN row
    BY <2>3
  <2>8. \A j \in DOMAIN row : /\ elems[row[j]].interp = elems[row[1]].interp
                              /\ elems[row[j]].width = elems[row[1]].width
    BY <2>6, <2>7 DEF SameModes
  <2> QED  BY <2>1, <2>3, <2>5, <2>6, <2>8 DEF row
<1> DEFINE t1 == PackRow(h, InRow(pre, 0))
           t2 == PackRow(t1, InRow(pre, 1))
<1>8. D(0) \in SUBSET DOMAIN elems /\ D(1) \in SUBSET DOMAIN elems /\ D(0) \cap D(1) = {} /\ 0 \in 0 .. 1 /\ 1 \in 0 .. 1
      /\ D(0) \in SUBSET C /\ D(1) \in SUBSET C
  BY <1>1
<1>9. \A i \in C : loc[i] = None
  BY <1>0 DEF C
<1> HIDE DEF D
<1>10. PICK r1 \in Nat : Good(t1, NumRegisters, DOMAIN elems) /\ Grown(h, t1, D(0), r1, r1)
  <2> DEFINE row == InRow(pre, 0)
  <2>1. /\ row \in Seq(D(0)) /\ Distinct(row)
        /\ \A j \in 0 .. Len(row) : Offset(row, j) \in 0 .. 4
        /\ \A j \in 1 .. Len(row) : Offset(row, j) \in Nat \ {0}
        /\ \A j \in DOMAIN row : /\ elems[row[j]].kind = "clip" /\ elems[row[j]].rows = 1
                                 /\ elems[row[j]].interp = elems[row[1]].interp
                                 /\ elems[row[j]].width = elems[row[1]].width
    BY <1>7, <1>8
  <2>2. \A i \in D(0) : h.loc[i] = None
    BY <1>8, <1>9
  <2> HIDE DEF row
  <2>3. \E r \in Nat : Good(PackRow(h, row), NumRegisters, DOMAIN elems) /\ Grown(h, PackRow(h, row), D(0), r, r)
    BY <1>8, <2>1, <2>2, PackRowGood
  <2> QED  BY <2>3 DEF row
<1>11. /\ \A i \in DOMAIN elems \ D(0) : t1.loc[i] = loc[i]
       /\ \A i \in D(0) : t1.loc[i] # None => RowsOf(elems[i], t1.loc[i]) \subseteq {r1}
  <2>1. \A i \in DOMAIN elems \ D(0) : t1.loc[i] = loc[i]
    BY <1>10 DEF Grown
  <2>2. r1 .. r1 = {r1}
    OBVIOUS
  <2>3. \A i \in D(0) : t1.loc[i] # None => RowsOf(elems[i], t1.loc[i]) \subseteq r1 .. r1
    BY <1>8, <1>10 DEF Grown
  <2> QED  BY <2>1, <2>2, <2>3
<1> HIDE DEF t1
<1>12. PICK r2 \in Nat : Good(t2, NumRegisters, DOMAIN elems) /\ Grown(t1, t2, D(1), r2, r2)
  <2> DEFINE row == InRow(pre, 1)
  <2>1. /\ row \in Seq(D(1)) /\ Distinct(row)
        /\ \A j \in 0 .. Len(row) : Offset(row, j) \in 0 .. 4
        /\ \A j \in 1 .. Len(row) : Offset(row, j) \in Nat \ {0}
        /\ \A j \in DOMAIN row : /\ elems[row[j]].kind = "clip" /\ elems[row[j]].rows = 1
                                 /\ elems[row[j]].interp = elems[row[1]].interp
                                 /\ elems[row[j]].width = elems[row[1]].width
    BY <1>7, <1>8
  <2>2. \A i \in D(1) : t1.loc[i] = None
    BY <1>8, <1>9, <1>11
  <2> HIDE DEF row
  <2>3. \E r \in Nat : Good(PackRow(t1, row), NumRegisters, DOMAIN elems) /\ Grown(t1, PackRow(t1, row), D(1), r, r)
    BY <1>8, <1>10, <2>1, <2>2, PackRowGood
  <2> QED  BY <2>3 DEF row
<1>13. /\ \A i \in DOMAIN elems \ D(1) : t2.loc[i] = t1.loc[i]
       /\ \A i \in D(1) : t2.loc[i] # None => RowsOf(elems[i], t2.loc[i]) \subseteq {r2}
  <2>1. \A i \in DOMAIN elems \ D(1) : t2.loc[i] = t1.loc[i]
    BY <1>12 DEF Grown
  <2>2. r2 .. r2 = {r2}
    OBVIOUS
  <2>3. \A i \in D(1) : t2.loc[i] # None => RowsOf(elems[i], t2.loc[i]) \subseteq r2 .. r2
    BY <1>8, <1>12 DEF Grown
  <2> QED  BY <2>1, <2>2, <2>3
<1> HIDE DEF t2
<1>14. \A i \in DOMAIN elems \ C : t2.loc[i] = loc[i]
  BY <1>8, <1>11, <1>13
<1>15. ASSUME NEW i \in C, t2.loc[i] # None PROVE RowsOf(elems[i], t2.loc[i]) \subseteq {r1, r2}
  <2>1. i \in DOMAIN elems
    BY <1>1
  <2>2. CASE i \in D(1)
    BY <1>13, <1>15, <2>2
  <2>3. CASE i \notin D(1)
    <3>1. t2.loc[i] = t1.loc[i]
      BY <1>13, <2>1, <2>3
    <3>2. t1.loc[i] # None
      BY <1>15, <3>1
    <3>3. i \in D(0)
      <4>1. SUFFICES ASSUME i \notin D(0) PROVE FALSE
        OBVIOUS
      <4>2. t1.loc[i] = loc[i]
        BY <1>11, <2>1, <4>1
      <4>3. loc[i] = None
        BY <1>9, <1>15
      <4> QED  BY <3>2, <4>2, <4>3
    <3>4. RowsOf(elems[i], t1.loc[i]) \subseteq {r1}
      BY <1>11, <3>2, <3>3
    <3>5. RowsOf(elems[i], t2.loc[i]) \subseteq {r1}
      BY <3>1, <3>4
    <3> QED  BY <3>5
  <2> QED  BY <2>2, <2>3
<1> QED  BY <1>12, <1>14, <1>15 DEF t1, t2, C, ClipsMoved

-----------------------------------------------------------------------------
(* The inductive invariant.                                                 *)

Its(es, places, S) == {[id |-> i, shape |-> es[i], at |-> places[i]] : i \in {j \in S : places[j] # None}}

Typed ==
  /\ elems \in Seq(Shape) /\ loc \in Seq(Place \cup {None}) /\ Len(loc) = Len(elems)
  /\ rowsUsed \in 0 .. NumRegisters /\ start \in 0 .. NumRegisters
  /\ DOMAIN regs = 0 .. NumRegisters - 1

Groups == {"vec4", "tess", "arb", "sv", "clip", "sgv"}
PhaseRank == [declare |-> 0, vec4 |-> 1, tess |-> 2, arb |-> 3, sv |-> 4, clip |-> 5, sgv |-> 6,
              packed |-> 7, validate |-> 8, done |-> 9]
Phases == {"declare", "vec4", "tess", "arb", "sv", "clip", "sgv", "packed", "validate", "done"}
Staged ==
  /\ strategy \in {"prefix", "optimized", "foreign"}
  /\ strategy = "prefix" => phase \in {"declare", "validate", "done"}
  /\ strategy = "optimized" => phase \in Phases
  /\ strategy = "foreign" => phase = "validate"
  /\ strategy # "prefix" => clip = NoClip

ClipsOf(es) == {i \in DOMAIN es : es[i].kind = "clip"}
OthersOf(es) == {i \in DOMAIN es : es[i].kind # "clip"}

\* PackOptimized: a group has places only when its turn is past, and the
\* clip/cull elements lie in two rows.
ClipsWithin(r1, r2) ==
  \A i \in ClipsOf(elems) : loc[i] # None => RowsOf(elems[i], loc[i]) \subseteq {r1, r2}
OptimizedHolds ==
  /\ Holds(regs, NumRegisters, Its(elems, loc, DOMAIN elems))
  /\ phase = "declare" => \A i \in DOMAIN elems : loc[i] = None
  /\ \A g \in Groups : PhaseRank[g] >= PhaseRank[phase] => \A i \in GroupSet(g) : loc[i] = None
  /\ \E r1, r2 \in Nat : ClipsWithin(r1, r2)

\* PackPrefixStable: the registers hold the other elements, and the items H
\* that stand for the rows held; clipcullAllocator holds the clip/cull elements
\* at the places pre, each row of which is one of the rows held.
PrefixIs(es, ls, rs, cl, H, pre) ==
  /\ Holds(rs, NumRegisters, Its(es, ls, OthersOf(es)) \cup H)
  /\ H \subseteq Item /\ \A h \in H : h.id = 0 /\ h.shape.cols = 4 /\ Within(h, NumRegisters)
  /\ \A r \in Nat : (\E k \in 1 .. Len(cl.held) : cl.held[k] = r) <=> \E h \in H : r \in RowsOf(h.shape, h.at)
  /\ cl = [regs |-> cl.regs, held |-> cl.held, indexed |-> cl.indexed]
  /\ cl.held \in Seq(Nat) /\ Len(cl.held) <= 2 /\ (Len(cl.held) = 2 => cl.held[1] # cl.held[2])
  /\ pre \in [Nat -> Place \cup {None}]
  /\ \A i \in Nat : pre[i] # None <=> (i \in ClipsOf(es) /\ ls[i] # None)
  /\ Holds(cl.regs, 2, Its(es, pre, ClipsOf(es)))
  /\ \A i \in ClipsOf(es) : ls[i] # None =>
       /\ pre[i].row + es[i].rows <= Len(cl.held)
       /\ ls[i] = [row |-> cl.held[pre[i].row + 1], col |-> pre[i].col]
       /\ es[i].rows > 1 => cl.indexed
  /\ cl.indexed \in BOOLEAN
  /\ ~AllowApart /\ cl.indexed /\ Len(cl.held) = 2 => Adjacent(cl.held)
PrefixHolds(H, pre) == PrefixIs(elems, loc, regs, clip, H, pre)

PackerInv ==
  /\ Typed /\ Staged
  /\ strategy = "optimized" => OptimizedHolds
  /\ strategy = "prefix" => \E H, pre : PrefixHolds(H, pre)

\* Good, said with Its.
LEMMA GoodIs ==
  ASSUME NEW t, NEW n, NEW S
  PROVE  Good(t, n, S) <=> /\ t.loc \in [DOMAIN elems -> Place \cup {None}]
                           /\ t.used \in 0 .. n
                           /\ Holds(t.regs, n, Its(elems, t.loc, S))
BY DEF Good, ItemsOf, Its

\* One more element.
Longer(es, es2, e, ps, ps2, at) ==
  /\ DOMAIN es2 = DOMAIN es \cup {Len(es) + 1} /\ Len(es) + 1 \notin DOMAIN es
  /\ \A i \in DOMAIN es : es2[i] = es[i] /\ ps2[i] = ps[i] /\ i # Len(es) + 1
  /\ es2[Len(es) + 1] = e /\ ps2[Len(es) + 1] = at

\* Appending an element and its place.
LEMMA AppendLonger ==
  ASSUME NEW es, NEW e, NEW ps, NEW at, es \in Seq(Shape), e \in Shape, ps \in Seq(Place \cup {None}),
         Len(ps) = Len(es), at \in Place \cup {None}
  PROVE  /\ Longer(es, Append(es, e), e, ps, Append(ps, at), at)
         /\ Append(es, e) \in Seq(Shape) /\ Append(ps, at) \in Seq(Place \cup {None})
         /\ Len(Append(ps, at)) = Len(Append(es, e)) /\ Len(es) + 1 \in Nat
<1>1. Len(es) \in Nat /\ DOMAIN es = 1 .. Len(es) /\ DOMAIN ps = 1 .. Len(es)
  OBVIOUS
<1>2. /\ Append(es, e) \in Seq(Shape) /\ Append(ps, at) \in Seq(Place \cup {None})
      /\ Len(Append(es, e)) = Len(es) + 1 /\ Len(Append(ps, at)) = Len(es) + 1
  OBVIOUS
<1>3. DOMAIN Append(es, e) = 1 .. Len(es) + 1
  BY <1>2
<1>4. 1 .. Len(es) + 1 = (1 .. Len(es)) \cup {Len(es) + 1}
  BY <1>1
<1>5. \A i \in DOMAIN es : i # Len(es) + 1 /\ Append(es, e)[i] = es[i] /\ Append(ps, at)[i] = ps[i]
  BY <1>1
<1>6. Append(es, e)[Len(es) + 1] = e /\ Append(ps, at)[Len(es) + 1] = at
  BY <1>1
<1> QED  BY <1>1, <1>2, <1>3, <1>4, <1>5, <1>6 DEF Longer

\* The items after appending.
LEMMA ItsLonger ==
  ASSUME NEW es, NEW es2, NEW e, NEW ps, NEW ps2, NEW at, Longer(es, es2, e, ps, ps2, at), NEW S \in SUBSET DOMAIN es
  PROVE  /\ Its(es2, ps2, S) = Its(es, ps, S)
         /\ at = None => Its(es2, ps2, S \cup {Len(es) + 1}) = Its(es, ps, S)
         /\ at # None => Its(es2, ps2, S \cup {Len(es) + 1})
                           = Its(es, ps, S) \cup {[id |-> Len(es) + 1, shape |-> e, at |-> at]}
<1> DEFINE m == Len(es) + 1
           F(i) == [id |-> i, shape |-> es[i], at |-> ps[i]]
           G(i) == [id |-> i, shape |-> es2[i], at |-> ps2[i]]
<1>1. \A i \in S : F(i) = G(i) /\ ps2[i] = ps[i] /\ i # m
  BY DEF Longer
<1>2. G(m) = [id |-> m, shape |-> e, at |-> at] /\ ps2[m] = at
  BY DEF Longer
<1>3. /\ Its(es, ps, S) = {F(i) : i \in {j \in S : ps[j] # None}}
      /\ \A U : Its(es2, ps2, U) = {G(i) : i \in {j \in U : ps2[j] # None}}
  BY DEF Its
<1> HIDE DEF F, G, m
<1>4. {j \in S : ps2[j] # None} = {j \in S : ps[j] # None}
  BY <1>1
<1>5. Its(es2, ps2, S) = Its(es, ps, S)
  BY <1>1, <1>3, <1>4
<1>6. at = None => {j \in S \cup {m} : ps2[j] # None} = {j \in S : ps[j] # None}
  BY <1>1, <1>2
<1>7. at # None => {j \in S \cup {m} : ps2[j] # None} = {j \in S : ps[j] # None} \cup {m}
  BY <1>1, <1>2
<1>8. at = None => Its(es2, ps2, S \cup {m}) = Its(es, ps, S)
  BY <1>1, <1>3, <1>6
<1>9. at # None => Its(es2, ps2, S \cup {m}) = Its(es, ps, S) \cup {G(m)}
  BY <1>1, <1>3, <1>7
<1> QED  BY <1>2, <1>5, <1>8, <1>9 DEF m

\* The clip/cull elements and the others after appending.
LEMMA KindsLonger ==
  ASSUME NEW es, NEW es2, NEW e, NEW ps, NEW ps2, NEW at, Longer(es, es2, e, ps, ps2, at)
  PROVE  /\ e.kind = "clip" => ClipsOf(es2) = ClipsOf(es) \cup {Len(es) + 1} /\ OthersOf(es2) = OthersOf(es)
         /\ e.kind # "clip" => ClipsOf(es2) = ClipsOf(es) /\ OthersOf(es2) = OthersOf(es) \cup {Len(es) + 1}
         /\ ClipsOf(es) \in SUBSET DOMAIN es /\ OthersOf(es) \in SUBSET DOMAIN es
BY DEF Longer, ClipsOf, OthersOf

\* An element of another kind finds its place, or none.
LEMMA PrefixOther ==
  ASSUME Typed, NEW H, NEW pre, PrefixHolds(H, pre), NEW e \in Shape, e.kind # "clip",
         elems' = Append(elems, e), NEW startCol \in Nat, PackNext(e, startCol)
  PROVE  /\ PrefixHolds(H, pre)'
         /\ elems' \in Seq(Shape) /\ loc' \in Seq(Place \cup {None}) /\ Len(loc') = Len(elems')
         /\ rowsUsed' \in 0 .. NumRegisters /\ DOMAIN regs' = 0 .. NumRegisters - 1
<1>0. NumRegisters \in Nat /\ None \notin Place
  BY SignatureAssumption
<1>1. PICK at : /\ at = FindNext(regs, e, 0, NumRegisters, startCol)
                /\ loc' = Append(loc, at) /\ regs' = PlaceAt(regs, e, at)
                /\ rowsUsed' = Larger(rowsUsed, RowsAfter(e, at))
  BY DEF PackNext
<1>2. clip' = clip
  BY DEF PackNext
<1>3. at # None => at \in Place /\ Taken(regs, NumRegisters, e, at)
  <2>1. DOMAIN regs = 0 .. NumRegisters - 1
    BY DEF Typed
  <2> QED  BY <1>0, <1>1, <2>1, FindNextResult
<1>4. /\ Longer(elems, elems', e, loc, loc', at)
      /\ elems' \in Seq(Shape) /\ loc' \in Seq(Place \cup {None}) /\ Len(loc') = Len(elems') /\ Len(elems) + 1 \in Nat
  <2>1. elems \in Seq(Shape) /\ e \in Shape /\ loc \in Seq(Place \cup {None}) /\ Len(loc) = Len(elems) /\ at \in Place \cup {None}
    BY <1>3 DEF Typed
  <2> QED  BY <1>1, <2>1, AppendLonger
<1> DEFINE m == Len(elems) + 1
           x == [id |-> m, shape |-> e, at |-> at]
           X == Its(elems, loc, OthersOf(elems)) \cup H
<1>5. ClipsOf(elems') = ClipsOf(elems) /\ OthersOf(elems') = OthersOf(elems) \cup {m}
      /\ ClipsOf(elems) \in SUBSET DOMAIN elems /\ OthersOf(elems) \in SUBSET DOMAIN elems
  BY <1>4, KindsLonger
<1>6. /\ at = None => Its(elems', loc', OthersOf(elems')) = Its(elems, loc, OthersOf(elems))
      /\ at # None => Its(elems', loc', OthersOf(elems')) = Its(elems, loc, OthersOf(elems)) \cup {x}
  BY <1>4, <1>5, ItsLonger
<1>7. Holds(regs, NumRegisters, X)
  BY DEF PrefixHolds, PrefixIs
<1> HIDE DEF X, x, m
<1>8. Holds(regs', NumRegisters, Its(elems', loc', OthersOf(elems')) \cup H)
  <2>1. CASE at = None
    <3>1. regs' = regs
      BY <1>1, <2>1 DEF PlaceAt
    <3> QED  BY <1>6, <1>7, <2>1, <3>1 DEF X
  <2>2. CASE at # None
    <3>1. x \in Item /\ x.shape = e /\ x.at = at
      BY <1>3, <1>4, <2>2 DEF x, Item, m
    <3>2. Taken(regs, NumRegisters, x.shape, x.at)
      BY <1>3, <2>2, <3>1
    <3>3. Holds(PlaceElement(regs, x.shape, x.at), NumRegisters, X \cup {x})
      BY <1>0, <1>7, <3>1, <3>2, PlacedHolds
    <3>4. regs' = PlaceElement(regs, x.shape, x.at)
      BY <1>1, <2>2, <3>1 DEF PlaceAt
    <3>5. Its(elems', loc', OthersOf(elems')) \cup H = X \cup {x}
      BY <1>6, <2>2 DEF X
    <3> QED  BY <3>3, <3>4, <3>5
  <2> QED  BY <2>1, <2>2
<1>9. rowsUsed' \in 0 .. NumRegisters
  <2>1. RowsAfter(e, at) \in 0 .. NumRegisters
    <3>1. CASE at = None
      BY <1>0, <3>1 DEF RowsAfter
    <3>2. CASE at # None
      <4>1. at.row \in Nat /\ e.rows \in Nat /\ at.row + e.rows <= NumRegisters
        BY <1>3, <3>2, ShapeSize DEF Place, Taken
      <4>2. at.row + e.rows \in 0 .. NumRegisters
        BY <1>0, <4>1
      <4> QED  BY <3>2, <4>2 DEF RowsAfter
    <3> QED  BY <3>1, <3>2
  <2> QED  BY <1>0, <1>1, <2>1, LargerBounds DEF Typed
<1>10. \A i \in Nat : pre[i] # None <=> (i \in ClipsOf(elems') /\ loc'[i] # None)
  <2>1. \A i \in DOMAIN elems : loc'[i] = loc[i]
    BY <1>4 DEF Longer
  <2> QED  BY <1>5, <2>1 DEF PrefixHolds, PrefixIs
<1>11. Its(elems', pre, ClipsOf(elems')) = Its(elems, pre, ClipsOf(elems))
  <2>1. \A i \in ClipsOf(elems) : elems'[i] = elems[i]
    BY <1>4, <1>5 DEF Longer
  <2> QED  BY <1>5, <2>1 DEF Its
<1>12. \A i \in ClipsOf(elems') : loc'[i] # None =>
         /\ pre[i].row + elems'[i].rows <= Len(clip.held)
         /\ loc'[i] = [row |-> clip.held[pre[i].row + 1], col |-> pre[i].col]
         /\ elems'[i].rows > 1 => clip.indexed
  <2>1. \A i \in ClipsOf(elems') : i \in ClipsOf(elems) /\ elems'[i] = elems[i] /\ loc'[i] = loc[i]
    BY <1>4, <1>5 DEF Longer
  <2> QED  BY <2>1 DEF PrefixHolds, PrefixIs
<1>13. PrefixIs(elems', loc', regs', clip, H, pre)
  <2>1. PrefixIs(elems, loc, regs, clip, H, pre)
    BY DEF PrefixHolds
  <2> QED  BY ONLY <1>8, <1>10, <1>11, <1>12, <2>1 DEF PrefixIs
<1>14. DOMAIN regs' = 0 .. NumRegisters - 1
  BY <1>8 DEF Holds
<1> QED  BY <1>2, <1>4, <1>9, <1>13, <1>14 DEF PrefixHolds

\* A clip/cull element without place; the rows held may count as indexed now.
LEMMA PrefixFails ==
  ASSUME Typed, NEW H, NEW pre, PrefixHolds(H, pre), NEW e \in Shape, e.kind = "clip",
         elems' = Append(elems, e), FailElement, NEW b \in BOOLEAN, clip' = [clip EXCEPT !.indexed = b],
         clip.indexed => b, b = clip.indexed \/ Len(clip.held) < 2
  PROVE  /\ PrefixHolds(H, pre)'
         /\ elems' \in Seq(Shape) /\ loc' \in Seq(Place \cup {None}) /\ Len(loc') = Len(elems')
<1>1. loc' = Append(loc, None) /\ regs' = regs
  BY DEF FailElement
<1>2. /\ Longer(elems, elems', e, loc, loc', None)
      /\ elems' \in Seq(Shape) /\ loc' \in Seq(Place \cup {None}) /\ Len(loc') = Len(elems')
  <2>1. elems \in Seq(Shape) /\ e \in Shape /\ loc \in Seq(Place \cup {None}) /\ Len(loc) = Len(elems) /\ None \in Place \cup {None}
    BY DEF Typed
  <2> QED  BY <1>1, <2>1, AppendLonger
<1> DEFINE m == Len(elems) + 1
<1>3. ClipsOf(elems') = ClipsOf(elems) \cup {m} /\ OthersOf(elems') = OthersOf(elems)
      /\ ClipsOf(elems) \in SUBSET DOMAIN elems /\ OthersOf(elems) \in SUBSET DOMAIN elems
  BY <1>2, KindsLonger
<1>4. loc'[m] = None /\ m \notin ClipsOf(elems) /\ \A i \in DOMAIN elems : elems'[i] = elems[i] /\ loc'[i] = loc[i]
  BY <1>2, <1>3 DEF Longer
<1>5. m \in Nat
  BY DEF Typed
<1> HIDE DEF m
<1>6. Its(elems', loc', OthersOf(elems')) = Its(elems, loc, OthersOf(elems))
  <2>1. Its(elems', loc', OthersOf(elems)) = Its(elems, loc, OthersOf(elems))
    <3>1. \A i \in OthersOf(elems) : elems'[i] = elems[i] /\ loc'[i] = loc[i]
      BY <1>3, <1>4
    <3> QED  BY <3>1 DEF Its
  <2> QED  BY <1>3, <2>1
<1>7. pre[m] = None
  BY <1>4, <1>5 DEF PrefixHolds, PrefixIs
<1>8. Its(elems', pre, ClipsOf(elems')) = Its(elems, pre, ClipsOf(elems))
  <2>1. {j \in ClipsOf(elems') : pre[j] # None} = {j \in ClipsOf(elems) : pre[j] # None}
    BY <1>3, <1>7
  <2>2. \A i \in ClipsOf(elems) : elems'[i] = elems[i]
    BY <1>3, <1>4
  <2> QED  BY <2>1, <2>2 DEF Its
<1>9. \A i \in Nat : pre[i] # None <=> (i \in ClipsOf(elems') /\ loc'[i] # None)
  BY <1>3, <1>4, <1>7 DEF PrefixHolds, PrefixIs
<1>10. clip'.regs = clip.regs /\ clip'.held = clip.held /\ clip'.indexed = b
       /\ clip' = [regs |-> clip.regs, held |-> clip.held, indexed |-> b]
  BY DEF PrefixHolds, PrefixIs
<1>11. \A i \in ClipsOf(elems') : loc'[i] # None =>
         /\ pre[i].row + elems'[i].rows <= Len(clip.held)
         /\ loc'[i] = [row |-> clip.held[pre[i].row + 1], col |-> pre[i].col]
         /\ elems'[i].rows > 1 => b
  <2>1. \A i \in ClipsOf(elems') : loc'[i] # None => i \in ClipsOf(elems) /\ elems'[i] = elems[i] /\ loc'[i] = loc[i]
    BY <1>3, <1>4
  <2> QED  BY <2>1 DEF PrefixHolds, PrefixIs
<1>12. ~AllowApart /\ b /\ Len(clip.held) = 2 => Adjacent(clip.held)
  <2>1. Len(clip.held) = 2 => ~(Len(clip.held) < 2)
    OBVIOUS
  <2> QED  BY <2>1 DEF PrefixHolds, PrefixIs
<1>13. PrefixIs(elems', loc', regs, clip', H, pre)
  <2>1. PrefixIs(elems, loc, regs, clip, H, pre)
    BY DEF PrefixHolds
  <2>2. Holds(regs, NumRegisters, Its(elems', loc', OthersOf(elems')) \cup H) /\ Holds(clip.regs, 2, Its(elems', pre, ClipsOf(elems')))
    BY <1>6, <1>8, <2>1 DEF PrefixIs
  <2>3. clip' = [regs |-> clip'.regs, held |-> clip'.held, indexed |-> clip'.indexed] /\ b \in BOOLEAN
    BY <1>10
  <2>4. pre \in [Nat -> Place \cup {None}] /\ \A i \in Nat : pre[i] # None <=> (i \in ClipsOf(elems') /\ loc'[i] # None)
    BY <1>9, <2>1 DEF PrefixIs
  <2>5. /\ H \subseteq Item /\ \A h \in H : h.id = 0 /\ h.shape.cols = 4 /\ Within(h, NumRegisters)
        /\ \A r \in Nat : (\E k \in 1 .. Len(clip.held) : clip.held[k] = r) <=> \E h \in H : r \in RowsOf(h.shape, h.at)
        /\ clip.held \in Seq(Nat) /\ Len(clip.held) <= 2 /\ (Len(clip.held) = 2 => clip.held[1] # clip.held[2])
    BY <2>1 DEF PrefixIs
  <2>6. PICK c : c = clip' /\ c.regs = clip.regs /\ c.held = clip.held /\ c.indexed = b
    BY <1>10
  <2>7. /\ \A r \in Nat : (\E k \in 1 .. Len(c.held) : c.held[k] = r) <=> \E h \in H : r \in RowsOf(h.shape, h.at)
        /\ c.held \in Seq(Nat) /\ Len(c.held) <= 2 /\ (Len(c.held) = 2 => c.held[1] # c.held[2])
    BY <2>5, <2>6
  <2>8. \A i \in ClipsOf(elems') : loc'[i] # None =>
         /\ pre[i].row + elems'[i].rows <= Len(c.held)
         /\ loc'[i] = [row |-> c.held[pre[i].row + 1], col |-> pre[i].col]
         /\ elems'[i].rows > 1 => c.indexed
    BY <1>11, <2>6
  <2>9. c.indexed \in BOOLEAN /\ (~AllowApart /\ c.indexed /\ Len(c.held) = 2 => Adjacent(c.held))
    BY <1>12, <2>3, <2>6
  <2>10. Holds(c.regs, 2, Its(elems', pre, ClipsOf(elems'))) /\ c = [regs |-> c.regs, held |-> c.held, indexed |-> c.indexed]
    BY <2>2, <2>3, <2>6
  <2>11. PrefixIs(elems', loc', regs, c, H, pre)
    BY ONLY <2>2, <2>4, <2>5, <2>7, <2>8, <2>9, <2>10 DEF PrefixIs
  <2> QED  BY <2>6, <2>11
<1> QED  BY <1>1, <1>2, <1>13 DEF PrefixHolds

\* The rows held after held, for the items H.
HeldBy(held, H) ==
  /\ held \in Seq(Nat) /\ Len(held) <= 2 /\ (Len(held) = 2 => held[1] # held[2])
  /\ H \subseteq Item /\ \A h \in H : h.id = 0 /\ h.shape.cols = 4 /\ Within(h, NumRegisters)
  /\ \A r \in Nat : (\E k \in 1 .. Len(held) : held[k] = r) <=> \E h \in H : r \in RowsOf(h.shape, h.at)

\* A clip/cull element finds its place; the rows held may be more than before.
LEMMA PrefixPlaces ==
  ASSUME Typed, NEW H, NEW pre, PrefixHolds(H, pre), NEW e \in Shape, e.kind = "clip",
         elems' = Append(elems, e), NEW at \in Place, Taken(clip.regs, 2, e, at),
         NEW held, NEW H2, HeldBy(held, H2), Len(clip.held) <= Len(held),
         \A k \in 1 .. Len(clip.held) : held[k] = clip.held[k],
         at.row + e.rows <= Len(held), NEW b \in BOOLEAN, clip.indexed => b, e.rows > 1 => b,
         ~AllowApart /\ b /\ Len(held) = 2 => Adjacent(held),
         Holds(regs', NumRegisters, Its(elems, loc, OthersOf(elems)) \cup H2),
         PlaceClip(e, at, held, b)
  PROVE  /\ \E pre2 : PrefixHolds(H2, pre2)'
         /\ elems' \in Seq(Shape) /\ loc' \in Seq(Place \cup {None}) /\ Len(loc') = Len(elems')
<1> DEFINE p == [row |-> held[at.row + 1], col |-> at.col]
           m == Len(elems) + 1
           x == [id |-> m, shape |-> e, at |-> at]
           pre2 == [pre EXCEPT ![m] = at]
           X == Its(elems, pre, ClipsOf(elems))
<1>0. None \notin Place /\ m \in Nat
  BY SignatureAssumption DEF Typed
<1>1. /\ clip' = [regs |-> PlaceElement(clip.regs, e, at), held |-> held, indexed |-> b]
      /\ loc' = Append(loc, p)
  BY DEF PlaceClip
<1>2. at.row \in Nat /\ at.col \in Nat /\ e.rows \in Nat \ {0} /\ held \in Seq(Nat) /\ Len(held) \in Nat
  BY ShapeSize DEF Place, HeldBy
<1>3. at.row + 1 \in 1 .. Len(held)
  BY <1>2
<1>4. p \in Place
  <2>1. held[at.row + 1] \in Nat
    BY <1>2, <1>3
  <2> QED  BY <1>2, <2>1 DEF Place
<1>5. /\ Longer(elems, elems', e, loc, loc', p)
      /\ elems' \in Seq(Shape) /\ loc' \in Seq(Place \cup {None}) /\ Len(loc') = Len(elems')
  <2>1. elems \in Seq(Shape) /\ e \in Shape /\ loc \in Seq(Place \cup {None}) /\ Len(loc) = Len(elems) /\ p \in Place \cup {None}
    BY <1>4 DEF Typed
  <2> HIDE DEF p
  <2> QED  BY <1>1, <2>1, AppendLonger
<1>6. ClipsOf(elems') = ClipsOf(elems) \cup {m} /\ OthersOf(elems') = OthersOf(elems)
      /\ ClipsOf(elems) \in SUBSET DOMAIN elems /\ OthersOf(elems) \in SUBSET DOMAIN elems
  BY <1>5, KindsLonger
<1>7. loc'[m] = p /\ elems'[m] = e /\ m \notin DOMAIN elems
      /\ \A i \in DOMAIN elems : elems'[i] = elems[i] /\ loc'[i] = loc[i] /\ i # m /\ i \in Nat
  <2>1. \A i \in DOMAIN elems : i \in Nat
    BY DEF Typed
  <2> HIDE DEF p
  <2> QED  BY <1>5, <2>1 DEF Longer
<1>8. PrefixIs(elems, loc, regs, clip, H, pre)
  BY DEF PrefixHolds
<1>9. /\ pre2 \in [Nat -> Place \cup {None}] /\ pre2[m] = at /\ \A i \in Nat \ {m} : pre2[i] = pre[i]
  BY <1>0, <1>8 DEF PrefixIs
<1> HIDE DEF m, p, x, pre2, X
<1>10. Holds(clip'.regs, 2, Its(elems', pre2, ClipsOf(elems')))
  <2>1. x \in Item /\ x.shape = e /\ x.at = at
    BY <1>0 DEF x, Item
  <2>2. Holds(clip.regs, 2, X) /\ Taken(clip.regs, 2, x.shape, x.at) /\ 2 \in Nat
    BY <1>8, <2>1 DEF PrefixIs, X
  <2>3. Holds(PlaceElement(clip.regs, x.shape, x.at), 2, X \cup {x})
    BY ONLY <2>1, <2>2, PlacedHolds
  <2>4. Longer(elems, elems', e, pre, pre2, at)
    <3>1. Longer(elems, elems', e, loc, loc', p)
      BY <1>5
    <3>2. \A i \in DOMAIN elems : pre2[i] = pre[i]
      BY <1>7, <1>9
    <3>3. pre2[Len(elems) + 1] = at
      BY <1>9 DEF m
    <3> QED  BY ONLY <3>1, <3>2, <3>3 DEF Longer
  <2>5. Its(elems', pre2, ClipsOf(elems) \cup {m}) = X \cup {x}
    <3>1. at # None
      BY <1>0
    <3>2. ClipsOf(elems) \in SUBSET DOMAIN elems
      BY <1>6
    <3>3. Its(elems', pre2, ClipsOf(elems) \cup {Len(elems) + 1})
            = Its(elems, pre, ClipsOf(elems)) \cup {[id |-> Len(elems) + 1, shape |-> e, at |-> at]}
      BY ONLY <2>4, <3>1, <3>2, ItsLonger
    <3> QED  BY ONLY <3>3 DEF X, x, m
  <2>6. clip'.regs = PlaceElement(clip.regs, e, at)
    BY <1>1
  <2> QED  BY <1>6, <2>1, <2>3, <2>5, <2>6
<1>11. Holds(regs', NumRegisters, Its(elems', loc', OthersOf(elems')) \cup H2)
  <2>1. Its(elems', loc', OthersOf(elems)) = Its(elems, loc, OthersOf(elems))
    <3>1. \A i \in OthersOf(elems) : elems'[i] = elems[i] /\ loc'[i] = loc[i]
      BY <1>6, <1>7
    <3> QED  BY <3>1 DEF Its
  <2> QED  BY <1>6, <2>1
<1>12. \A i \in Nat : pre2[i] # None <=> (i \in ClipsOf(elems') /\ loc'[i] # None)
  <2> TAKE i \in Nat
  <2>1. CASE i = m
    BY <1>0, <1>4, <1>6, <1>7, <1>9, <2>1
  <2>2. CASE i # m
    <3>1. pre2[i] = pre[i] /\ (i \in ClipsOf(elems') <=> i \in ClipsOf(elems))
      BY <1>6, <1>9, <2>2
    <3>2. i \in ClipsOf(elems) => loc'[i] = loc[i]
      BY <1>6, <1>7
    <3>3. pre[i] # None <=> (i \in ClipsOf(elems) /\ loc[i] # None)
      BY <1>8 DEF PrefixIs
    <3> QED  BY <3>1, <3>2, <3>3
  <2> QED  BY <2>1, <2>2
<1>13. ASSUME NEW i \in ClipsOf(elems'), loc'[i] # None
       PROVE  /\ pre2[i].row + elems'[i].rows <= Len(held)
              /\ loc'[i] = [row |-> held[pre2[i].row + 1], col |-> pre2[i].col]
              /\ elems'[i].rows > 1 => b
  <2>1. CASE i = m
    BY <1>7, <1>9, <2>1 DEF p
  <2>2. CASE i # m
    <3>1. i \in ClipsOf(elems) /\ i \in DOMAIN elems /\ i \in Nat /\ elems'[i] = elems[i] /\ loc'[i] = loc[i] /\ pre2[i] = pre[i]
      BY <1>6, <1>7, <1>9, <2>2
    <3>2. /\ pre[i].row + elems[i].rows <= Len(clip.held)
          /\ loc[i] = [row |-> clip.held[pre[i].row + 1], col |-> pre[i].col]
          /\ elems[i].rows > 1 => clip.indexed
      BY <1>8, <1>13, <3>1 DEF PrefixIs
    <3>3. pre[i] \in Place /\ elems[i].rows \in Nat \ {0} /\ Len(clip.held) \in Nat
      <4>1. elems[i] \in Shape
        BY <3>1 DEF Typed
      <4>2. pre[i] # None /\ pre \in [Nat -> Place \cup {None}] /\ clip.held \in Seq(Nat)
        BY <1>8, <1>13, <3>1 DEF PrefixIs
      <4> QED  BY <3>1, <4>1, <4>2, ShapeSize
    <3>4. pre[i].row \in Nat
      BY <3>3 DEF Place
    <3>5. PICK q \in Nat : q = pre[i].row
      BY <3>4
    <3>6. PICK n \in Nat \ {0} : n = elems[i].rows
      BY <3>3
    <3>7. q + n <= Len(clip.held) /\ q + 1 \in 1 .. Len(clip.held) /\ q + n <= Len(held)
      <4>1. PICK a \in Nat : a = Len(clip.held)
        BY <3>3
      <4>2. PICK d \in Nat : d = Len(held)
        BY <1>2
      <4>3. q + n <= a
        BY ONLY <3>2, <3>5, <3>6, <4>1
      <4>4. a <= d
        BY <4>1, <4>2
      <4>5. q + 1 \in 1 .. a /\ q + n <= d
        BY ONLY <4>3, <4>4, q \in Nat, n \in Nat \ {0}, a \in Nat, d \in Nat
      <4> QED  BY <4>1, <4>2, <4>3, <4>5
    <3>8. held[q + 1] = clip.held[q + 1]
      BY <3>7
    <3> QED  BY <3>1, <3>2, <3>5, <3>6, <3>7, <3>8
  <2> QED  BY <2>1, <2>2
<1>14. PICK c : c = clip'
  OBVIOUS
<1>15. c.held = held /\ c.indexed = b /\ c = [regs |-> c.regs, held |-> c.held, indexed |-> c.indexed]
  BY <1>1, <1>14
<1>16. PrefixIs(elems', loc', regs', c, H2, pre2)
  <2>1. /\ \A i \in ClipsOf(elems') : loc'[i] # None =>
             /\ pre2[i].row + elems'[i].rows <= Len(c.held)
             /\ loc'[i] = [row |-> c.held[pre2[i].row + 1], col |-> pre2[i].col]
             /\ elems'[i].rows > 1 => c.indexed
    BY <1>13, <1>15
  <2>2. c.indexed \in BOOLEAN /\ (~AllowApart /\ c.indexed /\ Len(c.held) = 2 => Adjacent(c.held))
    BY <1>15
  <2>3. HeldBy(c.held, H2)
    BY <1>15
  <2>4. Holds(c.regs, 2, Its(elems', pre2, ClipsOf(elems')))
    BY <1>10, <1>14
  <2>5. pre2 \in [Nat -> Place \cup {None}]
    BY <1>9
  <2> QED  BY ONLY <1>11, <1>12, <1>15, <2>1, <2>2, <2>3, <2>4, <2>5 DEF PrefixIs, HeldBy
<1> QED  BY <1>5, <1>14, <1>16 DEF PrefixHolds

\* A placeholder is an element like any other.
LEMMA HolderShape ==
  ASSUME NEW e \in Shape, e.kind = "clip", NEW b
  PROVE  /\ Holder(e, b) \in Shape /\ Holder(e, b).cols = 4
         /\ Holder(e, b).rows = IF b /\ clip.held = <<>> THEN 2 ELSE 1
<1> DEFINE n == IF b /\ clip.held = <<>> THEN 2 ELSE 1
<1>1. e \in Element
  BY DEF Shape
<1>2. n \in 1 .. 2 /\ 4 \in 1 .. 4
  OBVIOUS
<1>3. Holder(e, b) = [e EXCEPT !.rows = n, !.cols = 4]
  BY DEF Holder
<1> HIDE DEF n
<1>4. /\ Holder(e, b) \in Element /\ Holder(e, b).kind = "clip" /\ Holder(e, b).width = e.width
      /\ Holder(e, b).interp = e.interp /\ Holder(e, b).cols = 4 /\ Holder(e, b).rows = n
  BY <1>1, <1>2, <1>3 DEF Element
<1> QED  BY <1>4 DEF Shape, n

\* After is held, and the n rows at q.
Extended(held, q, n, after) ==
  /\ after \in Seq(Nat) /\ Len(after) = Len(held) + n
  /\ \A k \in 1 .. Len(held) : after[k] = held[k]
  /\ \A r \in Nat : (\E k \in 1 .. Len(after) : after[k] = r)
                      <=> (\E k \in 1 .. Len(held) : held[k] = r) \/ r \in q .. q + n - 1
  /\ Len(held) = 0 /\ n = 2 => after[1] = q /\ after[2] = q + 1
  /\ Len(held) = 1 => after[1] = held[1] /\ after[2] = q

\* The rows held, extended.
LEMMA LongerHeld ==
  ASSUME NEW held, held \in Seq(Nat), NEW q \in Nat, NEW n \in 1 .. 2, Len(held) + n <= 2,
         NEW after, after = held \o [i \in 1 .. n |-> q + i - 1]
  PROVE  Extended(held, q, n, after)
<1> DEFINE s == [i \in 1 .. n |-> q + i - 1]
<1>1. s \in Seq(Nat) /\ Len(s) = n /\ \A i \in 1 .. n : s[i] = q + i - 1
  OBVIOUS
<1>2. Len(held) \in Nat
  OBVIOUS
<1> HIDE DEF s
<1>3. after = held \o s
  BY DEF s
<1>4. after \in Seq(Nat) /\ Len(after) = Len(held) + n
  BY <1>1, <1>3
<1>5. \A k \in 1 .. Len(held) : after[k] = held[k]
  BY <1>1, <1>3
<1>6. \A i \in 1 .. n : after[Len(held) + i] = q + i - 1
  BY <1>1, <1>3
<1>7. ASSUME NEW r \in Nat
      PROVE  (\E k \in 1 .. Len(after) : after[k] = r)
               <=> (\E k \in 1 .. Len(held) : held[k] = r) \/ r \in q .. q + n - 1
  <2>1. ASSUME NEW k \in 1 .. Len(after), after[k] = r
        PROVE  (\E j \in 1 .. Len(held) : held[j] = r) \/ r \in q .. q + n - 1
    <3>1. CASE k <= Len(held)
      <4>1. k \in 1 .. Len(held)
        BY <1>2, <1>4, <3>1
      <4> QED  BY <1>5, <2>1, <4>1
    <3>2. CASE ~(k <= Len(held))
      <4>1. PICK i \in 1 .. n : k = Len(held) + i
        BY <1>2, <1>4, <3>2
      <4>2. r = q + i - 1
        BY <1>6, <2>1, <4>1
      <4> QED  BY <4>2
    <3> QED  BY <3>1, <3>2
  <2>2. ASSUME NEW k \in 1 .. Len(held), held[k] = r
        PROVE  \E j \in 1 .. Len(after) : after[j] = r
    <3>1. k \in 1 .. Len(after)
      BY <1>2, <1>4
    <3> QED  BY <1>5, <2>2, <3>1
  <2>3. ASSUME r \in q .. q + n - 1
        PROVE  \E j \in 1 .. Len(after) : after[j] = r
    <3>1. PICK i \in 1 .. n : r = q + i - 1
      <4>1. r - q + 1 \in 1 .. n /\ r = q + (r - q + 1) - 1
        BY <2>3
      <4> QED  BY <4>1
    <3>2. Len(held) + i \in 1 .. Len(after)
      BY <1>2, <1>4
    <3> QED  BY <1>6, <3>1, <3>2
  <2> QED  BY <2>1, <2>2, <2>3
<1>8. Len(held) = 0 /\ n = 2 => after[1] = q /\ after[2] = q + 1
  <2> SUFFICES ASSUME Len(held) = 0, n = 2 PROVE after[1] = q /\ after[2] = q + 1
    OBVIOUS
  <2>1. after[0 + 1] = q + 1 - 1 /\ after[0 + 2] = q + 2 - 1
    BY <1>6
  <2> QED  BY <2>1
<1>9. Len(held) = 1 => after[1] = held[1] /\ after[2] = q
  <2> SUFFICES ASSUME Len(held) = 1 PROVE after[1] = held[1] /\ after[2] = q
    OBVIOUS
  <2>1. after[1] = held[1] /\ after[1 + 1] = q + 1 - 1
    BY <1>5, <1>6
  <2> QED  BY <2>1
<1> QED  BY ONLY <1>4, <1>5, <1>7, <1>8, <1>9 DEF Extended

\* A row of four columns is free or taken as a whole.
LEMMA WholeRows ==
  ASSUME NEW e, NEW p, NEW f, NEW q, e \in Shape, f \in Shape, p \in Place, q \in Place, e.cols = 4,
         p.col + e.cols <= 4, q.col + f.cols <= 4, Compatible(e, p, f, q)
  PROVE  RowsOf(e, p) \cap RowsOf(f, q) = {}
<1> SUFFICES ASSUME NEW r \in RowsOf(e, p) \cap RowsOf(f, q) PROVE FALSE
  OBVIOUS
<1>1. Span(p.col, e) \cap Span(q.col, f) = {}
  BY DEF Compatible
<1>2. f.cols \in Nat \ {0} /\ p.col \in Nat /\ q.col \in Nat
  BY ShapeSize DEF Place
<1>3. q.col \in Span(p.col, e) /\ q.col \in Span(q.col, f)
  BY <1>2 DEF Span
<1> QED  BY <1>1, <1>3

\* More rows held.
LEMMA MoreHeld ==
  ASSUME NEW H, NEW pre, PrefixHolds(H, pre), NumRegisters \in Nat,
         NEW f \in Shape, f.cols = 4, NEW place \in Place, Taken(regs, NumRegisters, f, place),
         Len(clip.held) + f.rows <= 2,
         NEW after, after = clip.held \o [i \in 1 .. f.rows |-> place.row + i - 1]
  PROVE  \E H2 : /\ HeldBy(after, H2)
                 /\ Holds(PlaceElement(regs, f, place), NumRegisters, Its(elems, loc, OthersOf(elems)) \cup H2)
<1> DEFINE x == [id |-> 0, shape |-> f, at |-> place]
           H2 == H \cup {x}
           X == Its(elems, loc, OthersOf(elems)) \cup H
<1>1. x \in Item /\ x.shape = f /\ x.at = place /\ x.id = 0
  BY DEF Item
<1>2. /\ Holds(regs, NumRegisters, X) /\ HeldBy(clip.held, H)
  BY DEF PrefixHolds, PrefixIs, HeldBy
<1>3. f.rows \in 1 .. 2 /\ place.row \in Nat /\ place.col \in Nat
  BY ShapeType DEF Place
<1> HIDE DEF x, X
<1>4. Holds(PlaceElement(regs, f, place), NumRegisters, X \cup {x})
  <2>1. Taken(regs, NumRegisters, x.shape, x.at) /\ Holds(regs, NumRegisters, X)
    BY <1>1, <1>2
  <2>2. Holds(PlaceElement(regs, x.shape, x.at), NumRegisters, X \cup {x})
    BY ONLY <1>1, <2>1, NumRegisters \in Nat, PlacedHolds
  <2> QED  BY <1>1, <2>2
<1>5. /\ after \in Seq(Nat) /\ Len(after) = Len(clip.held) + f.rows
      /\ \A k \in 1 .. Len(clip.held) : after[k] = clip.held[k]
      /\ \A r \in Nat : (\E k \in 1 .. Len(after) : after[k] = r)
                          <=> (\E k \in 1 .. Len(clip.held) : clip.held[k] = r) \/ r \in place.row .. place.row + f.rows - 1
      /\ Len(clip.held) = 0 /\ f.rows = 2 => after[1] = place.row /\ after[2] = place.row + 1
      /\ Len(clip.held) = 1 => after[1] = clip.held[1] /\ after[2] = place.row
  <2>1. clip.held \in Seq(Nat)
    BY <1>2 DEF HeldBy
  <2>2. Extended(clip.held, place.row, f.rows, after)
    BY <1>3, <2>1, LongerHeld
  <2> QED  BY ONLY <2>2 DEF Extended
<1>6. \A r \in Nat : (\E k \in 1 .. Len(after) : after[k] = r) <=> \E h \in H2 : r \in RowsOf(h.shape, h.at)
  <2> TAKE r \in Nat
  <2>1. (\E k \in 1 .. Len(clip.held) : clip.held[k] = r) <=> \E h \in H : r \in RowsOf(h.shape, h.at)
    BY <1>2 DEF HeldBy
  <2>2. r \in place.row .. place.row + f.rows - 1 <=> r \in RowsOf(x.shape, x.at)
    BY <1>1 DEF RowsOf
  <2>3. (\E k \in 1 .. Len(after) : after[k] = r)
          <=> (\E k \in 1 .. Len(clip.held) : clip.held[k] = r) \/ r \in place.row .. place.row + f.rows - 1
    BY <1>5
  <2> QED  BY <2>1, <2>2, <2>3
<1>7. H2 \subseteq Item /\ \A h \in H2 : h.id = 0 /\ h.shape.cols = 4 /\ Within(h, NumRegisters)
  <2>1. Within(x, NumRegisters)
    BY <1>1 DEF Within, Taken
  <2> QED  BY <1>1, <1>2, <2>1 DEF HeldBy
<1>8. Len(after) = 2 => after[1] # after[2]
  <2> SUFFICES ASSUME Len(after) = 2 PROVE after[1] # after[2]
    OBVIOUS
  <2>1. Len(clip.held) \in Nat
    BY <1>2 DEF HeldBy
  <2>2. CASE Len(clip.held) = 0
    <3>1. f.rows = 2
      BY <1>3, <1>5, <2>2
    <3>2. after[1] = place.row /\ after[2] = place.row + 1
      BY <1>5, <2>2, <3>1
    <3> QED  BY <1>3, <3>2
  <2>3. CASE Len(clip.held) = 1
    <3>1. after[1] = clip.held[1] /\ after[2] = place.row
      BY <1>5, <2>3
    <3>2. PICK h \in H : clip.held[1] \in RowsOf(h.shape, h.at)
      <4>1. clip.held[1] \in Nat /\ 1 \in 1 .. Len(clip.held)
        BY <1>2, <2>3 DEF HeldBy
      <4> QED  BY <1>2, <4>1 DEF HeldBy
    <3>3. h \in X /\ h.shape \in Shape /\ h.at \in Place /\ h.at.col + h.shape.cols <= 4
      BY <1>2, <3>2 DEF X, HeldBy, Item, Within
    <3>4. Compatible(f, place, h.shape, h.at) /\ place.col + f.cols <= 4
      BY <1>2, <3>3, TakenExactly
    <3>5. RowsOf(f, place) \cap RowsOf(h.shape, h.at) = {}
      BY <3>3, <3>4, WholeRows
    <3>6. place.row \in RowsOf(f, place)
      BY <1>3 DEF RowsOf
    <3> QED  BY <3>1, <3>2, <3>5, <3>6
  <2>4. Len(clip.held) = 0 \/ Len(clip.held) = 1
    <3>1. PICK a \in Nat, b \in 1 .. 2 : a = Len(clip.held) /\ b = f.rows
      BY <1>3, <2>1
    <3>2. a + b <= 2
      BY <3>1
    <3>3. a = 0 \/ a = 1
      BY <3>2
    <3> QED  BY <3>1, <3>3
  <2> QED  BY <2>2, <2>3, <2>4
<1>9. HeldBy(after, H2)
  <2>1. Len(after) <= 2
    BY <1>5
  <2> HIDE DEF H2
  <2> QED  BY <1>5, <1>6, <1>7, <1>8, <2>1 DEF HeldBy
<1>10. Its(elems, loc, OthersOf(elems)) \cup H2 = X \cup {x}
  BY DEF X
<1> QED  BY <1>4, <1>9, <1>10

\* Without a row held, clipcullAllocator is empty, and the first row is taken.
LEMMA FirstRow ==
  ASSUME NEW H, NEW pre, PrefixHolds(H, pre), elems \in Seq(Shape), Len(clip.held) = 0,
         NEW e \in Shape, e.rows = 1, NEW at, at = FindNext(clip.regs, e, 0, 2, 0), at # None
  PROVE  at.row = 0
<1> DEFINE X == Its(elems, pre, ClipsOf(elems))
           p == [row |-> 0, col |-> 0]
<1>1. /\ Holds(clip.regs, 2, X) /\ DOMAIN clip.regs = 0 .. 2 - 1
      /\ pre \in [Nat -> Place \cup {None}]
      /\ \A i \in Nat : pre[i] # None <=> (i \in ClipsOf(elems) /\ loc[i] # None)
      /\ \A i \in ClipsOf(elems) : loc[i] # None => pre[i].row + elems[i].rows <= Len(clip.held)
  BY DEF PrefixHolds, PrefixIs, Holds
<1>2. {i \in ClipsOf(elems) : pre[i] # None} = {}
  <2> SUFFICES ASSUME NEW i \in ClipsOf(elems), pre[i] # None PROVE FALSE
    OBVIOUS
  <2>1. i \in DOMAIN elems /\ elems[i] \in Shape /\ i \in Nat
    BY DEF ClipsOf
  <2>2. pre[i] \in Place /\ pre[i].row + elems[i].rows <= 0
    BY <1>1, <2>1
  <2>3. pre[i].row \in Nat /\ elems[i].rows \in Nat \ {0}
    BY <2>1, <2>2, ShapeSize DEF Place
  <2> QED  BY <2>2, <2>3
<1>3. X = {}
  BY <1>2 DEF Its
<1>4. p \in Place /\ p.row = 0 /\ p.col = 0
  BY DEF Place
<1>5. e.cols \in 1 .. 4
  BY ShapeType
<1> HIDE DEF p, X
<1>6. Taken(clip.regs, 2, e, p)
  <2>1. Holds(clip.regs, 2, {}) /\ p.row + e.rows <= 2 /\ p.col + e.cols <= 4 /\ 2 \in Nat
    BY <1>1, <1>3, <1>4, <1>5
  <2>2. \A x \in {} : Compatible(e, p, x.shape, x.at)
    OBVIOUS
  <2> QED  BY ONLY e \in Shape, <1>4, <2>1, <2>2, TakenExactly
<1>7. Asked(e, p, 0, 2, 0)
  BY <1>4, <1>5 DEF Asked
<1>8. at \in Place /\ \A q \in Place : Asked(e, q, 0, 2, 0) /\ Taken(clip.regs, 2, e, q) => at.row <= q.row
  <2>1. DOMAIN clip.regs = 0 .. 2 - 1 /\ 0 \in Nat /\ 2 \in Nat
    BY <1>1
  <2> QED  BY ONLY e \in Shape, <2>1, at = FindNext(clip.regs, e, 0, 2, 0), at # None, FindNextResult
<1>9. at.row <= 0 /\ at.row \in Nat
  BY <1>4, <1>6, <1>7, <1>8 DEF Place
<1> QED  BY <1>9

\* The rows searched for a placeholder.
LEMMA HolderRowsType ==
  ASSUME NEW H, NEW pre, PrefixHolds(H, pre), NEW b
  PROVE  HolderRows(b)[1] \in Nat /\ HolderRows(b)[2] \in Nat
<1>1. clip.held \in Seq(Nat) /\ NumRegisters \in Nat
  BY SignatureAssumption DEF PrefixHolds, PrefixIs
<1>2. clip.held # <<>> => clip.held[1] \in Nat
  BY <1>1
<1> QED  BY <1>1, <1>2 DEF HolderRows, NextRows

\* The iteration for a clip/cull element.
LEMMA PrefixClip ==
  ASSUME Typed, NEW H, NEW pre, PrefixHolds(H, pre), NEW e \in Shape, e.kind = "clip",
         elems' = Append(elems, e), PackClip(e)
  PROVE  /\ \E H2, pre2 : PrefixHolds(H2, pre2)'
         /\ elems' \in Seq(Shape) /\ loc' \in Seq(Place \cup {None}) /\ Len(loc') = Len(elems')
         /\ rowsUsed' \in 0 .. NumRegisters /\ DOMAIN regs' = 0 .. NumRegisters - 1
<1> DEFINE b == clip.indexed \/ e.rows > 1
           f == Holder(e, b)
<1>0. /\ NumRegisters \in Nat /\ None \notin Place /\ DOMAIN regs = 0 .. NumRegisters - 1
      /\ rowsUsed \in 0 .. NumRegisters /\ elems \in Seq(Shape)
  BY SignatureAssumption DEF Typed
<1>1. PICK at, place :
        /\ at = FindNext(clip.regs, e, 0, 2, 0)
        /\ place = FindNext(regs, f, HolderRows(b)[1], HolderRows(b)[2], 0)
        /\ LET heldAfter == clip.held \o [i \in 1 .. f.rows |-> place.row + i - 1] IN
           \/ /\ \/ at = None
                 \/ e.rows > 1 /\ ~clip.indexed /\ Len(clip.held) = 2 /\ ~Adjacent(clip.held)
              /\ FailElement /\ UNCHANGED clip
           \/ /\ at # None /\ RowsAfter(e, at) <= Len(clip.held)
              /\ e.rows > 1 /\ ~clip.indexed => Adjacent(clip.held)
              /\ PlaceClip(e, at, clip.held, b)
              /\ UNCHANGED <<regs, rowsUsed>>
           \/ /\ at # None /\ RowsAfter(e, at) > Len(clip.held)
              /\ \/ /\ place = None
                    /\ FailElement /\ clip' = [clip EXCEPT !.indexed = b]
                 \/ /\ place # None
                    /\ ~AllowApart /\ b => Adjacent(heldAfter)
                    /\ regs' = PlaceElement(regs, f, place)
                    /\ rowsUsed' = Larger(rowsUsed, RowsAfter(f, place))
                    /\ PlaceClip(e, at, heldAfter, b)
  BY DEF PackClip
<1>2. /\ clip = [regs |-> clip.regs, held |-> clip.held, indexed |-> clip.indexed]
      /\ clip.indexed \in BOOLEAN /\ HeldBy(clip.held, H) /\ clip.held \in Seq(Nat) /\ Len(clip.held) \in Nat
      /\ DOMAIN clip.regs = 0 .. 2 - 1
      /\ Holds(regs, NumRegisters, Its(elems, loc, OthersOf(elems)) \cup H)
      /\ ~AllowApart /\ clip.indexed /\ Len(clip.held) = 2 => Adjacent(clip.held)
  <2>1. PrefixIs(elems, loc, regs, clip, H, pre)
    BY DEF PrefixHolds
  <2>2. HeldBy(clip.held, H) /\ clip.held \in Seq(Nat)
    BY ONLY <2>1 DEF PrefixIs, HeldBy
  <2>3. Len(clip.held) \in Nat
    BY <2>2
  <2>4. Holds(clip.regs, 2, Its(elems, pre, ClipsOf(elems)))
    BY ONLY <2>1 DEF PrefixIs
  <2>5. DOMAIN clip.regs = 0 .. 2 - 1
    BY ONLY <2>4 DEF Holds
  <2>6. clip = [regs |-> clip.regs, held |-> clip.held, indexed |-> clip.indexed]
    BY ONLY <2>1 DEF PrefixIs
  <2>7. /\ clip.indexed \in BOOLEAN
        /\ Holds(regs, NumRegisters, Its(elems, loc, OthersOf(elems)) \cup H)
        /\ ~AllowApart /\ clip.indexed /\ Len(clip.held) = 2 => Adjacent(clip.held)
    BY ONLY <2>1 DEF PrefixIs
  <2> QED  BY ONLY <2>2, <2>3, <2>5, <2>6, <2>7
<1>3. b \in BOOLEAN /\ (clip.indexed => b) /\ (e.rows > 1 => b)
  BY <1>2
<1>4. f \in Shape /\ f.cols = 4 /\ f.rows = IF b /\ clip.held = <<>> THEN 2 ELSE 1
  BY HolderShape
<1>5. at # None => at \in Place /\ Taken(clip.regs, 2, e, at) /\ RowsAfter(e, at) = at.row + e.rows
  <2>1. at # None => at \in Place /\ Taken(clip.regs, 2, e, at)
    BY <1>1, <1>2, FindNextResult
  <2> QED  BY <2>1 DEF RowsAfter
<1>6. place # None => place \in Place /\ Taken(regs, NumRegisters, f, place)
  <2>1. HolderRows(b)[1] \in Nat /\ HolderRows(b)[2] \in Nat
    BY HolderRowsType
  <2> HIDE DEF f, b
  <2> QED  BY <1>0, <1>1, <1>4, <2>1, FindNextResult
<1>7. e.rows \in 1 .. 2 /\ (at # None => at.row \in Nat)
  BY <1>5, ShapeType DEF Place
<1> DEFINE heldAfter == clip.held \o [i \in 1 .. f.rows |-> place.row + i - 1]
<1>8. CASE /\ \/ at = None
              \/ e.rows > 1 /\ ~clip.indexed /\ Len(clip.held) = 2 /\ ~Adjacent(clip.held)
           /\ FailElement /\ UNCHANGED clip
  <2>1. clip' = [clip EXCEPT !.indexed = clip.indexed]
    BY <1>2, <1>8
  <2>2. /\ PrefixHolds(H, pre)'
        /\ elems' \in Seq(Shape) /\ loc' \in Seq(Place \cup {None}) /\ Len(loc') = Len(elems')
    BY <1>2, <1>8, <2>1, PrefixFails
  <2>3. regs' = regs /\ rowsUsed' = rowsUsed
    BY <1>8 DEF FailElement
  <2> QED  BY <1>0, <2>2, <2>3
<1>9. CASE /\ at # None /\ RowsAfter(e, at) <= Len(clip.held)
           /\ e.rows > 1 /\ ~clip.indexed => Adjacent(clip.held)
           /\ PlaceClip(e, at, clip.held, b)
           /\ UNCHANGED <<regs, rowsUsed>>
  <2>1. ~AllowApart /\ b /\ Len(clip.held) = 2 => Adjacent(clip.held)
    BY <1>2, <1>9
  <2>2. at.row + e.rows <= Len(clip.held) /\ Len(clip.held) <= Len(clip.held)
    BY <1>2, <1>5, <1>9
  <2>3. Holds(regs', NumRegisters, Its(elems, loc, OthersOf(elems)) \cup H)
    BY <1>2, <1>9
  <2>4. /\ \E pre2 : PrefixHolds(H, pre2)'
        /\ elems' \in Seq(Shape) /\ loc' \in Seq(Place \cup {None}) /\ Len(loc') = Len(elems')
    <3>1. at \in Place /\ Taken(clip.regs, 2, e, at) /\ PlaceClip(e, at, clip.held, b)
      BY <1>5, <1>9
    <3> HIDE DEF b
    <3> QED  BY <1>2, <1>3, <2>1, <2>2, <2>3, <3>1, PrefixPlaces
  <2> QED  BY <1>0, <1>9, <2>4
<1>10. CASE /\ at # None /\ RowsAfter(e, at) > Len(clip.held)
            /\ place = None /\ FailElement /\ clip' = [clip EXCEPT !.indexed = b]
  <2>1. Len(clip.held) < 2
    <3>1. at.row + e.rows <= 2 /\ at.row + e.rows > Len(clip.held)
      BY <1>5, <1>10 DEF Taken
    <3> QED  BY <1>2, <1>7, <1>10, <3>1
  <2>2. /\ PrefixHolds(H, pre)'
        /\ elems' \in Seq(Shape) /\ loc' \in Seq(Place \cup {None}) /\ Len(loc') = Len(elems')
    <3>1. clip' = [clip EXCEPT !.indexed = b] /\ FailElement
      BY <1>10
    <3>2. b = clip.indexed \/ Len(clip.held) < 2
      BY <2>1
    <3> HIDE DEF b
    <3> QED  BY <1>3, <3>1, <3>2, PrefixFails
  <2>3. regs' = regs /\ rowsUsed' = rowsUsed
    BY <1>10 DEF FailElement
  <2> QED  BY <1>0, <2>2, <2>3
<1>11. CASE /\ at # None /\ RowsAfter(e, at) > Len(clip.held) /\ place # None
            /\ ~AllowApart /\ b => Adjacent(heldAfter)
            /\ regs' = PlaceElement(regs, f, place)
            /\ rowsUsed' = Larger(rowsUsed, RowsAfter(f, place))
            /\ PlaceClip(e, at, heldAfter, b)
  <2>1. at.row + e.rows <= 2 /\ at.row + e.rows > Len(clip.held) /\ at \in Place /\ Taken(clip.regs, 2, e, at)
    BY <1>5, <1>11 DEF Taken
  <2>2. Len(clip.held) \in {0, 1} /\ at.row + e.rows \in 1 .. 2
    <3>1. PICK n \in Nat : n = at.row + e.rows
      BY <1>7, <1>11
    <3>2. PICK a \in Nat : a = Len(clip.held)
      BY <1>2
    <3>3. n <= 2 /\ n > a
      BY <2>1, <3>1, <3>2
    <3>4. a \in {0, 1} /\ n \in 1 .. 2
      BY <3>3
    <3> QED  BY <3>1, <3>2, <3>4
  <2>3. f.rows \in 1 .. 2 /\ (f.rows = 2 => Len(clip.held) = 0)
    BY <1>4
  <2>a. Len(clip.held) + f.rows <= 2
    <3>1. PICK n \in 1 .. 2 : n = f.rows
      BY <2>3
    <3> HIDE DEF f
    <3>2. n = 2 => Len(clip.held) = 0
      BY <2>3, <3>1
    <3>3. Len(clip.held) + n <= 2
      <4>1. PICK a \in {0, 1} : a = Len(clip.held)
        BY <2>2
      <4>2. a + n <= 2
        <5>1. n = 2 => a = 0
          BY ONLY <3>2, <4>1
        <5>2. n = 1 \/ n = 2
          OBVIOUS
        <5>3. a = 0 \/ a = 1
          OBVIOUS
        <5> QED  BY ONLY <5>1, <5>2, <5>3
      <4> QED  BY <4>1, <4>2
    <3> QED  BY <3>1, <3>3
  <2>4. PICK H2 : /\ HeldBy(heldAfter, H2)
                  /\ Holds(PlaceElement(regs, f, place), NumRegisters, Its(elems, loc, OthersOf(elems)) \cup H2)
    <3>1. place \in Place /\ Taken(regs, NumRegisters, f, place)
      BY <1>6, <1>11
    <3>2. Len(clip.held) + f.rows <= 2
      BY <2>a
    <3> HIDE DEF f
    <3> QED  BY <1>0, <1>4, <3>1, <3>2, MoreHeld
  <2>5. Extended(clip.held, place.row, f.rows, heldAfter)
    <3>1. place.row \in Nat
      BY <1>6, <1>11 DEF Place
    <3>2. Len(clip.held) + f.rows <= 2
      BY <2>a
    <3> HIDE DEF f
    <3> QED  BY <1>2, <2>3, <3>1, <3>2, LongerHeld
  <2> HIDE DEF heldAfter
  <2>6. Len(heldAfter) = Len(clip.held) + f.rows /\ \A k \in 1 .. Len(clip.held) : heldAfter[k] = clip.held[k]
    BY ONLY <2>5 DEF Extended
  <2>7. at.row + e.rows <= Len(heldAfter)
    <3>1. CASE Len(clip.held) = 1
      BY <2>2, <2>3, <2>6, <3>1
    <3>2. CASE Len(clip.held) = 0 /\ b
      <4>1. clip.held = <<>>
        BY <1>2, <3>2
      <4> QED  BY <1>4, <2>2, <2>6, <3>2, <4>1
    <3>3. CASE Len(clip.held) = 0 /\ ~b
      <4>1. e.rows = 1
        BY <1>7, <3>3
      <4>2. at.row = 0
        BY <1>0, <1>1, <1>11, <3>3, <4>1, FirstRow
      <4> QED  BY <2>3, <2>6, <3>3, <4>1, <4>2
    <3> QED  BY <2>2, <3>1, <3>2, <3>3
  <2>8. ~AllowApart /\ b /\ Len(heldAfter) = 2 => Adjacent(heldAfter)
    BY <1>11
  <2>9. /\ \E pre2 : PrefixHolds(H2, pre2)'
        /\ elems' \in Seq(Shape) /\ loc' \in Seq(Place \cup {None}) /\ Len(loc') = Len(elems')
    <3>1. Len(clip.held) <= Len(heldAfter)
      BY <1>2, <2>3, <2>6
    <3>2. Holds(regs', NumRegisters, Its(elems, loc, OthersOf(elems)) \cup H2)
      BY <1>11, <2>4
    <3>3. PlaceClip(e, at, heldAfter, b)
      BY <1>11
    <3> HIDE DEF b
    <3> QED  BY <1>3, <2>1, <2>4, <2>6, <2>7, <2>8, <3>1, <3>2, <3>3, PrefixPlaces
  <2>10. rowsUsed' \in 0 .. NumRegisters
    <3>1. RowsAfter(f, place) \in 0 .. NumRegisters
      <4>1. place.row \in Nat /\ place.row + f.rows <= NumRegisters
        BY <1>6, <1>11 DEF Place, Taken
      <4>2. place.row + f.rows \in 0 .. NumRegisters
        BY <1>0, <2>3, <4>1
      <4> QED  BY <1>11, <4>2 DEF RowsAfter
    <3> QED  BY <1>0, <1>11, <3>1, LargerBounds
  <2>11. DOMAIN regs' = 0 .. NumRegisters - 1
    BY <1>11, <2>4 DEF Holds
  <2> QED  BY <2>9, <2>10, <2>11
<1>12. QED
  <2> HIDE DEF b, f, heldAfter
  <2> QED  BY <1>1, <1>8, <1>9, <1>10, <1>11 DEF heldAfter

-----------------------------------------------------------------------------
(* The steps of PackOptimized.                                              *)
\* No element belongs to two groups.
LEMMA GroupsApart ==
  ASSUME NEW e \in Shape, NEW g \in Groups, NEW h \in Groups, InGroup(e, g), InGroup(e, h)
  PROVE  g = h
<1>1. /\ InGroup(e, "vec4") <=> e.kind \in {"arb", "sv"} /\ e.cols = 4
      /\ InGroup(e, "tess") <=> e.kind = "tess" /\ e.rows > 1
      /\ InGroup(e, "arb") <=> e.kind = "arb" /\ e.cols < 4
      /\ InGroup(e, "sv") <=> (e.kind = "sv" /\ e.cols < 4) \/ (e.kind = "tess" /\ e.rows = 1)
      /\ InGroup(e, "clip") <=> e.kind = "clip"
      /\ InGroup(e, "sgv") <=> e.kind = "sgv"
  BY DEF InGroup
<1>2. ~(e.cols = 4 /\ e.cols < 4) /\ ~(e.rows > 1 /\ e.rows = 1)
  BY ShapeType
<1>3. \A k \in Groups : k = "vec4" \/ k = "tess" \/ k = "arb" \/ k = "sv" \/ k = "clip" \/ k = "sgv"
  BY DEF Groups
<1> QED  BY <1>1, <1>2, <1>3

\* The group of the clip/cull elements is all of them.
LEMMA ClipGroup ==
  ASSUME elems \in Seq(Shape) PROVE GroupSet("clip") = ClipsOf(elems)
BY DEF GroupSet, ClipsOf, InGroup

\* The allocator of PackOptimized, as an allocator state.
LEMMA HereGood ==
  ASSUME Typed, OptimizedHolds
  PROVE  /\ Good(Here, NumRegisters, DOMAIN elems)
         /\ Here.loc = loc /\ Here.regs = regs /\ Here.used = rowsUsed
<1>1. Here.loc = loc /\ Here.regs = regs /\ Here.used = rowsUsed
  BY DEF Here
<1>2. loc \in [DOMAIN elems -> Place \cup {None}]
  BY DEF Typed
<1>3. rowsUsed \in 0 .. NumRegisters
  BY DEF Typed
<1>4. Holds(regs, NumRegisters, Its(elems, loc, DOMAIN elems))
  BY DEF OptimizedHolds
<1> QED  BY <1>1, <1>2, <1>3, <1>4, GoodIs

\* The allocator after a step that places elements of the group g only.
LEMMA Stepped ==
  ASSUME Typed, OptimizedHolds, phase \in Groups, NEW g \in Groups, g = phase, UNCHANGED elems,
         NEW t, Good(t, NumRegisters, DOMAIN elems), regs' = t.regs, loc' = t.loc,
         \A i \in DOMAIN elems \ GroupSet(g) : t.loc[i] = loc[i],
         phase' \in Phases, PhaseRank[phase] < PhaseRank[phase'],
         g = "clip" => \E r1, r2 \in Nat : \A i \in GroupSet("clip") :
                            t.loc[i] # None => RowsOf(elems[i], t.loc[i]) \subseteq {r1, r2}
  PROVE  /\ OptimizedHolds'
         /\ elems' \in Seq(Shape) /\ loc' \in Seq(Place \cup {None}) /\ Len(loc') = Len(elems')
         /\ DOMAIN regs' = 0 .. NumRegisters - 1
<1>1. /\ t.loc \in [DOMAIN elems -> Place \cup {None}]
      /\ Holds(t.regs, NumRegisters, Its(elems, t.loc, DOMAIN elems))
  BY GoodIs
<1>2. elems \in Seq(Shape) /\ Len(elems) \in Nat /\ DOMAIN elems = 1 .. Len(elems)
  BY DEF Typed
<1>3. loc' \in Seq(Place \cup {None}) /\ Len(loc') = Len(elems')
  <2>1. loc' \in [1 .. Len(elems) -> Place \cup {None}]
    BY <1>1, <1>2
  <2> QED  BY <1>2, <2>1
<1>4. DOMAIN regs' = 0 .. NumRegisters - 1
  BY <1>1 DEF Holds
<1>5. \A h \in Groups : GroupSet(h)' = GroupSet(h)
  BY DEF GroupSet
<1>6. phase' # "declare"
  BY DEF PhaseRank, Groups
<1>7. ASSUME NEW h \in Groups, PhaseRank[h] >= PhaseRank[phase'], NEW i \in GroupSet(h)
      PROVE  loc'[i] = None
  <2>1. PhaseRank[h] >= PhaseRank[phase] /\ h # g
    BY <1>7 DEF PhaseRank, Groups, Phases
  <2>2. i \in DOMAIN elems /\ i \notin GroupSet(g)
    BY <1>2, <2>1, GroupsApart DEF GroupSet
  <2>3. loc[i] = None
    BY <2>1 DEF OptimizedHolds
  <2> QED  BY <2>2, <2>3
<1>8. \E r1, r2 \in Nat : ClipsWithin(r1, r2)'
  <2>1. CASE g = "clip"
    <3>1. PICK r1, r2 \in Nat : \A i \in GroupSet("clip") :
                            t.loc[i] # None => RowsOf(elems[i], t.loc[i]) \subseteq {r1, r2}
      BY <2>1
    <3>2. ClipsWithin(r1, r2)'
      BY <1>2, <3>1, ClipGroup DEF ClipsWithin
    <3> QED  BY <3>2
  <2>2. CASE g # "clip"
    <3>1. PICK r1, r2 \in Nat : ClipsWithin(r1, r2)
      BY DEF OptimizedHolds
    <3>2. \A i \in ClipsOf(elems) : i \in DOMAIN elems \ GroupSet(g)
      <4>1. "clip" \in Groups
        BY DEF Groups
      <4>2. \A i \in GroupSet("clip") : i \in DOMAIN elems \ GroupSet(g)
        BY <1>2, <2>2, <4>1, GroupsApart DEF GroupSet
      <4> QED  BY <1>2, <4>2, ClipGroup
    <3>3. ClipsWithin(r1, r2)'
      BY <3>1, <3>2 DEF ClipsWithin
    <3> QED  BY <3>3
  <2> QED  BY <2>1, <2>2
<1>9. OptimizedHolds'
  <2>1. Holds(regs', NumRegisters, Its(elems', loc', DOMAIN elems'))
    BY <1>1
  <2>2. \A h \in Groups : PhaseRank[h] >= PhaseRank[phase'] => \A i \in GroupSet(h)' : loc'[i] = None
    BY <1>5, <1>7
  <2> QED  BY <1>6, <1>8, <2>1, <2>2 DEF OptimizedHolds
<1> QED  BY <1>2, <1>3, <1>4, <1>9

\* The elements of the group g, which have no place yet.
GroupReady(g) ==
  /\ GroupSet(g) \in SUBSET DOMAIN elems
  /\ Group(g) \in Seq(GroupSet(g)) /\ Distinct(Group(g))
  /\ Good(Here, NumRegisters, DOMAIN elems) /\ Here.loc = loc
  /\ \A i \in GroupSet(g) : Here.loc[i] = None

\* When its turn comes a group is ready.
LEMMA GroupIsReady ==
  ASSUME Typed, OptimizedHolds, phase \in Groups PROVE GroupReady(phase)
<1>1. elems \in Seq(Shape)
  BY DEF Typed
<1>2. GroupSet(phase) \in SUBSET DOMAIN elems
  BY DEF GroupSet
<1>3. Group(phase) \in Seq(GroupSet(phase)) /\ Distinct(Group(phase))
  BY <1>1, <1>2, SortedResult DEF Group, Distinct
<1>4. Good(Here, NumRegisters, DOMAIN elems) /\ Here.loc = loc
  BY HereGood
<1>5. \A i \in GroupSet(phase) : Here.loc[i] = None
  <2>1. PhaseRank[phase] >= PhaseRank[phase]
    BY DEF PhaseRank, Groups
  <2> QED  BY <1>4, <2>1 DEF OptimizedHolds
<1> QED  BY <1>2, <1>3, <1>4, <1>5 DEF GroupReady

\* What packing a group moves.
StartCol(g) == IF g = "tess" THEN 3 ELSE 0
GroupMoved(t) ==
  /\ t = PackGreedy(Here, Group(phase), start, NumRegisters, StartCol(phase))
  /\ regs' = t.regs /\ loc' = t.loc /\ rowsUsed' = t.used
  /\ Good(t, NumRegisters, DOMAIN elems)
  /\ \A i \in DOMAIN elems \ GroupSet(phase) : t.loc[i] = loc[i]
\* The step that packs a group moves that group only.
LEMMA PackGroupMoves ==
  ASSUME Typed, OptimizedHolds, PackGroup
  PROVE  /\ phase \in Groups /\ phase # "clip" /\ phase' = PhaseAfter[phase] /\ phase' \in Phases
         /\ PhaseRank[phase] < PhaseRank[phase'] /\ UNCHANGED elems
         /\ \E t : GroupMoved(t)
<1>0. NumRegisters \in Nat /\ elems \in Seq(Shape) /\ start \in Nat
  BY SignatureAssumption DEF Typed
<1>1. /\ phase \in Groups /\ phase # "clip" /\ phase' = PhaseAfter[phase] /\ phase' \in Phases
      /\ PhaseRank[phase] < PhaseRank[phase']
  BY DEF PackGroup, Groups, Phases, PhaseAfter, PhaseRank
<1> DEFINE t == PackGreedy(Here, Group(phase), start, NumRegisters, StartCol(phase))
<1>2. regs' = t.regs /\ loc' = t.loc /\ rowsUsed' = t.used
  BY DEF PackGroup, Packed, StartCol
<1>3. StartCol(phase) \in Nat
  BY DEF StartCol
<1>4. GroupReady(phase)
  BY <1>1, GroupIsReady
<1>5. Good(t, NumRegisters, DOMAIN elems) /\ Grown(Here, t, GroupSet(phase), start, start + NumRegisters - 1)
  <2>1. DOMAIN elems \in SUBSET DOMAIN elems
    OBVIOUS
  <2> QED  BY <1>0, <1>3, <1>4, <2>1, PackGreedyGood DEF GroupReady
<1>6. UNCHANGED elems
  BY DEF PackGroup
<1> HIDE DEF t
<1>7. \A i \in DOMAIN elems \ GroupSet(phase) : t.loc[i] = loc[i]
  BY <1>4, <1>5 DEF Grown, GroupReady
<1>8. GroupMoved(t)
  BY <1>2, <1>5, <1>7 DEF GroupMoved, t
<1> QED  BY <1>1, <1>6, <1>8

\* The step that packs a group.
LEMMA PackGroupStep ==
  ASSUME Typed, OptimizedHolds, PackGroup
  PROVE  /\ OptimizedHolds' /\ Typed' /\ phase' \in Phases
<1>0. NumRegisters \in Nat /\ start \in 0 .. NumRegisters
  BY SignatureAssumption DEF Typed
<1>1. /\ phase \in Groups /\ phase # "clip" /\ phase' \in Phases
      /\ PhaseRank[phase] < PhaseRank[phase'] /\ UNCHANGED elems
  BY PackGroupMoves
<1>2. PICK t : /\ regs' = t.regs /\ loc' = t.loc /\ rowsUsed' = t.used
               /\ Good(t, NumRegisters, DOMAIN elems)
               /\ \A i \in DOMAIN elems \ GroupSet(phase) : t.loc[i] = loc[i]
  BY PackGroupMoves DEF GroupMoved
<1>3. /\ OptimizedHolds'
      /\ elems' \in Seq(Shape) /\ loc' \in Seq(Place \cup {None}) /\ Len(loc') = Len(elems')
      /\ DOMAIN regs' = 0 .. NumRegisters - 1
  BY <1>1, <1>2, Stepped
<1>4. rowsUsed' \in 0 .. NumRegisters
  BY <1>2 DEF Good
<1>5. start' \in 0 .. NumRegisters
  <2>1. start' = Larger(start, rowsUsed') \/ start' = start
    BY DEF PackGroup
  <2> QED  BY <1>0, <1>4, <2>1, LargerBounds
<1> QED  BY <1>1, <1>3, <1>4, <1>5 DEF Typed

\* The step that packs the clip/cull elements, given what it moves.
LEMMA ClipsStepped ==
  ASSUME Typed, OptimizedHolds, phase = "clip", phase' = "sgv", UNCHANGED <<elems, start>>,
         NEW t, NEW r1 \in Nat, NEW r2 \in Nat, ClipsMoved(t, r1, r2), regs' = t.regs, loc' = t.loc,
         rowsUsed' \in {t.used, rowsUsed}
  PROVE  OptimizedHolds' /\ Typed'
<1>1. /\ Good(t, NumRegisters, DOMAIN elems)
      /\ \A i \in DOMAIN elems \ GroupSet("clip") : t.loc[i] = loc[i]
      /\ \A i \in GroupSet("clip") : t.loc[i] # None => RowsOf(elems[i], t.loc[i]) \subseteq {r1, r2}
  BY DEF ClipsMoved
<1>2. phase \in Groups /\ "clip" \in Groups /\ phase' \in Phases /\ PhaseRank[phase] < PhaseRank[phase']
  BY DEF Groups, Phases, PhaseRank
<1>3. /\ OptimizedHolds'
      /\ elems' \in Seq(Shape) /\ loc' \in Seq(Place \cup {None}) /\ Len(loc') = Len(elems')
      /\ DOMAIN regs' = 0 .. NumRegisters - 1
  BY <1>1, <1>2, Stepped
<1>4. rowsUsed' \in 0 .. NumRegisters
  BY <1>1 DEF Good, Typed
<1> QED  BY <1>3, <1>4 DEF Typed

\* What packing the clip/cull elements moves, either way.
ClipCullMoved(t, r1, r2) ==
  ClipsMoved(t, r1, r2) /\ regs' = t.regs /\ loc' = t.loc /\ rowsUsed' \in {t.used, rowsUsed}
\* It moves the clip/cull elements only.
LEMMA PackClipCullMoves ==
  ASSUME Typed, OptimizedHolds, PackClipCull
  PROVE  \E t : \E r1, r2 \in Nat : ClipCullMoved(t, r1, r2)
<1>0. NumRegisters \in Nat /\ elems \in Seq(Shape) /\ start \in Nat /\ start \in 0 .. NumRegisters
  BY SignatureAssumption DEF Typed
<1>1. phase = "clip" /\ phase' = "sgv" /\ phase' \in Phases /\ UNCHANGED <<elems, start>>
  BY DEF PackClipCull, Phases
<1>2. Good(Here, NumRegisters, DOMAIN elems) /\ Here.loc = loc /\ Here.regs = regs /\ Here.used = rowsUsed
  BY HereGood
<1>3. \A i \in GroupSet("clip") : loc[i] = None
  <2>1. PhaseRank["clip"] >= PhaseRank[phase] /\ "clip" \in Groups
    BY <1>1 DEF PhaseRank, Groups
  <2> QED  BY <2>1 DEF OptimizedHolds
<1>4. CASE PackPairOfRows
  <2>1. PICK pairs : /\ pairs \subseteq start .. start + NumRegisters - 2
                     /\ \/ pairs = {} /\ UNCHANGED <<regs, loc, predicted>>
                        \/ /\ pairs # {}
                           /\ \E s \in {PackGreedy(Here, Group("clip"), Min(pairs), 2, 0)} : regs' = s.regs /\ loc' = s.loc
                     /\ rowsUsed' = rowsUsed
    BY <1>4 DEF PackPairOfRows
  <2>2. CASE pairs = {} /\ UNCHANGED <<regs, loc>>
    <3>1. regs' = Here.regs /\ loc' = Here.loc /\ rowsUsed' \in {Here.used, rowsUsed}
      BY <1>2, <2>1, <2>2
    <3>2. \A i \in GroupSet("clip") : Here.loc[i] # None => RowsOf(elems[i], Here.loc[i]) \subseteq {0, 0}
      BY <1>2, <1>3
    <3>3. \A i \in DOMAIN elems \ GroupSet("clip") : Here.loc[i] = loc[i]
      BY <1>2
    <3>4. 0 \in Nat
      OBVIOUS
    <3>5. ClipsMoved(Here, 0, 0)
      BY ONLY <1>2, <3>2, <3>3 DEF ClipsMoved
    <3> QED  BY <3>1, <3>4, <3>5 DEF ClipCullMoved
  <2>3. CASE pairs # {} /\ \E s \in {PackGreedy(Here, Group("clip"), Min(pairs), 2, 0)} : regs' = s.regs /\ loc' = s.loc
    <3>1. Min(pairs) \in Nat
      <4>1. pairs \in SUBSET Nat
        BY <1>0, <2>1
      <4>2. \E m \in pairs : \A k \in pairs : m <= k
        BY <2>3, <4>1, NatMin
      <4> QED  BY <4>1, <4>2 DEF Min
    <3>2. PICK r \in Nat : r = Min(pairs)
      BY <3>1
    <3> DEFINE t == PackGreedy(Here, Group("clip"), r, 2, 0)
    <3>3. regs' = t.regs /\ loc' = t.loc
      BY <2>3, <3>2
    <3>4. GroupSet("clip") \in SUBSET DOMAIN elems
      BY DEF GroupSet
    <3>5. Group("clip") \in Seq(GroupSet("clip")) /\ Distinct(Group("clip"))
      BY <1>0, <3>4, SortedResult DEF Group, Distinct
    <3>6. Good(t, NumRegisters, DOMAIN elems) /\ Grown(Here, t, GroupSet("clip"), r, r + 2 - 1)
      <4>1. DOMAIN elems \in SUBSET DOMAIN elems /\ 0 \in Nat /\ 2 \in Nat
        OBVIOUS
      <4>2. \A i \in GroupSet("clip") : Here.loc[i] = None
        BY <1>2, <1>3
      <4> QED  BY <1>0, <1>2, <3>4, <3>5, <4>1, <4>2, PackGreedyGood
    <3> HIDE DEF t
    <3>7. \A i \in DOMAIN elems \ GroupSet("clip") : t.loc[i] = loc[i]
      BY <1>2, <3>6 DEF Grown
    <3>8. r .. r + 2 - 1 = {r, r + 1} /\ r + 1 \in Nat
      OBVIOUS
    <3>9. \A i \in GroupSet("clip") : t.loc[i] # None => RowsOf(elems[i], t.loc[i]) \subseteq {r, r + 1}
      BY <3>4, <3>6, <3>8 DEF Grown
    <3>10. rowsUsed' \in {t.used, rowsUsed}
      BY <2>1
    <3>11. ClipsMoved(t, r, r + 1)
      BY ONLY <3>6, <3>7, <3>9 DEF ClipsMoved
    <3> QED  BY <3>3, <3>8, <3>10, <3>11 DEF ClipCullMoved
  <2>4. QED
    BY <2>1, <2>2, <2>3
<1>5. CASE PackTwoRows /\ ~\E i \in DOMAIN elems : elems[i].kind = "clip" /\ elems[i].rows > 1
  <2>1. PICK pre : /\ pre = PackGreedy([regs |-> Registers(2), loc |-> loc, used |-> 0], Group("clip"), 0, 2, 0).loc
                   /\ Packed(PackRow(PackRow(Here, InRow(pre, 0)), InRow(pre, 1)))
    BY <1>5 DEF PackTwoRows
  <2> DEFINE t == PackRow(PackRow(Here, InRow(pre, 0)), InRow(pre, 1))
  <2>2. regs' = t.regs /\ loc' = t.loc /\ rowsUsed' \in {t.used, rowsUsed}
    BY <2>1 DEF Packed
  <2>3. ClipsFree
    <3>1. \A i \in GroupSet("clip") : i \in DOMAIN elems /\ elems[i].kind = "clip" /\ elems[i].rows \in 1 .. 2
      BY <1>0, ShapeType DEF GroupSet, InGroup
    <3> QED  BY <1>3, <1>5, <3>1 DEF ClipsFree
  <2>4. PICK r1, r2 \in Nat : ClipsMoved(t, r1, r2)
    <3>1. elems \in Seq(Shape) /\ start \in Nat /\ Good(Here, NumRegisters, DOMAIN elems) /\ Here.loc = loc
      BY <1>0, <1>2
    <3>2. pre = PackGreedy([regs |-> Registers(2), loc |-> loc, used |-> 0], Group("clip"), 0, 2, 0).loc
      BY <2>1
    <3> QED  BY ONLY <2>3, <3>1, <3>2, TwoRowsGood
  <2> HIDE DEF t
  <2> QED  BY <2>2, <2>4 DEF ClipCullMoved
<1> QED  BY <1>4, <1>5 DEF PackClipCull

\* The step that packs the clip/cull elements.
LEMMA PackClipCullStep ==
  ASSUME Typed, OptimizedHolds, PackClipCull
  PROVE  /\ OptimizedHolds' /\ Typed' /\ phase' \in Phases
<1>1. phase = "clip" /\ phase' = "sgv" /\ phase' \in Phases /\ UNCHANGED <<elems, start>>
  BY DEF PackClipCull, Phases
<1>2. PICK t : \E r1, r2 \in Nat : ClipCullMoved(t, r1, r2)
  BY PackClipCullMoves
<1>3. PICK r1, r2 \in Nat : ClipCullMoved(t, r1, r2)
  BY <1>2
<1>4. ClipsMoved(t, r1, r2) /\ regs' = t.regs /\ loc' = t.loc /\ rowsUsed' \in {t.used, rowsUsed}
  BY <1>3 DEF ClipCullMoved
<1> QED  BY <1>1, <1>4, ClipsStepped

-----------------------------------------------------------------------------
(* The invariant of the packers.                                            *)
\* The first state.
LEMMA PackerInit ==
  ASSUME Init PROVE PackerInv
<1>0. NumRegisters \in Nat \ {0} /\ None \notin Place
  BY SignatureAssumption
<1>1. /\ elems = <<>> /\ loc = <<>> /\ regs = Registers(NumRegisters) /\ rowsUsed = 0 /\ start = 0 /\ clip = NoClip
      /\ strategy \in {"prefix", "optimized", "foreign"}
      /\ phase = IF strategy = "foreign" THEN "validate" ELSE "declare"
  BY DEF Init
<1>2. DOMAIN regs = 0 .. NumRegisters - 1
  BY <1>1 DEF Registers
<1>3. Typed
  <2>1. <<>> \in Seq(Shape) /\ <<>> \in Seq(Place \cup {None}) /\ Len(<<>>) = 0
    OBVIOUS
  <2> QED  BY <1>0, <1>1, <1>2, <2>1 DEF Typed
<1>4. Staged
  BY <1>1 DEF Staged, Phases
<1>5. Holds(regs, NumRegisters, {})
  BY <1>0, <1>1, EmptyHolds
<1>6. DOMAIN elems = {} /\ \A S : S \subseteq DOMAIN elems => Its(elems, loc, S) = {}
  <2>1. DOMAIN elems = {}
    BY <1>1
  <2>2. Its(elems, loc, {}) = {}
    BY DEF Its
  <2> QED  BY <2>1, <2>2
<1>7. OptimizedHolds
  <2>1. ClipsWithin(0, 0)
    BY <1>6 DEF ClipsWithin, ClipsOf
  <2>2. \A g : GroupSet(g) = {}
    BY <1>6 DEF GroupSet
  <2> QED  BY <1>5, <1>6, <2>1, <2>2 DEF OptimizedHolds
<1>8. \E H, pre : PrefixHolds(H, pre)
  <2> DEFINE pre == [i \in Nat |-> None]
  <2>1. ClipsOf(elems) = {} /\ OthersOf(elems) = {}
    BY <1>6 DEF ClipsOf, OthersOf
  <2>2. clip.regs = Registers(2) /\ clip.held = <<>> /\ clip.indexed = FALSE /\ clip = [regs |-> clip.regs, held |-> clip.held, indexed |-> clip.indexed]
    BY <1>1 DEF NoClip
  <2>3. clip.held \in Seq(Nat) /\ Len(clip.held) = 0
    BY <2>2
  <2>4. Holds(clip.regs, 2, {})
    BY <2>2, EmptyHolds
  <2>5. Its(elems, pre, {}) = {} /\ Its(elems, loc, {}) = {}
    BY DEF Its
  <2>6. pre \in [Nat -> Place \cup {None}] /\ \A i \in Nat : pre[i] = None
    OBVIOUS
  <2> HIDE DEF pre
  <2>7. Holds(regs, NumRegisters, Its(elems, loc, OthersOf(elems)) \cup {}) /\ Holds(clip.regs, 2, Its(elems, pre, ClipsOf(elems)))
    BY <1>5, <2>1, <2>4, <2>5
  <2>8. \A r \in Nat : (\E k \in 1 .. Len(clip.held) : clip.held[k] = r) <=> \E h \in {} : r \in RowsOf(h.shape, h.at)
    BY <2>3
  <2>9. PrefixIs(elems, loc, regs, clip, {}, pre)
    <3>1. Len(clip.held) <= 2 /\ (Len(clip.held) = 2 => clip.held[1] # clip.held[2]) /\ clip.indexed \in BOOLEAN
          /\ (~AllowApart /\ clip.indexed /\ Len(clip.held) = 2 => Adjacent(clip.held))
      <4>1. clip.indexed \in BOOLEAN
        BY <2>2
      <4>2. ~(Len(clip.held) = 2) /\ Len(clip.held) <= 2
        BY <2>3
      <4> QED  BY <4>1, <4>2
    <3>2. \A i \in Nat : pre[i] # None <=> (i \in ClipsOf(elems) /\ loc[i] # None)
      BY <2>1, <2>6
    <3>3. {} \subseteq Item /\ \A h \in {} : h.id = 0 /\ h.shape.cols = 4 /\ Within(h, NumRegisters)
      OBVIOUS
    <3>4. \A i \in ClipsOf(elems) : loc[i] # None =>
             /\ pre[i].row + elems[i].rows <= Len(clip.held)
             /\ loc[i] = [row |-> clip.held[pre[i].row + 1], col |-> pre[i].col]
             /\ elems[i].rows > 1 => clip.indexed
      BY <2>1
    <3> QED  BY ONLY <2>2, <2>3, <2>6, <2>7, <2>8, <3>1, <3>2, <3>3, <3>4 DEF PrefixIs
  <2> QED  BY <2>9 DEF PrefixHolds
<1> QED  BY <1>3, <1>4, <1>7, <1>8 DEF PackerInv

\* Steps that change neither elements, places nor registers.
LEMMA PackerUnchanged ==
  ASSUME PackerInv, UNCHANGED <<strategy, elems, loc, regs, rowsUsed, start, clip>>,
         Staged', strategy = "optimized" => phase' \in {phase, "validate", "done"} \/ (phase = "declare" /\ phase' = "vec4")
  PROVE  PackerInv'
<1>1. Typed'
  BY DEF PackerInv, Typed
<1>2. ASSUME NEW H, NEW pre, PrefixHolds(H, pre) PROVE PrefixHolds(H, pre)'
  BY <1>2 DEF PackerInv, PrefixHolds
<1>3. CASE strategy = "optimized"
  <2>1. OptimizedHolds /\ phase \in Phases
    BY <1>3 DEF PackerInv, Staged
  <2>2. phase' = "declare" => phase = "declare"
    BY <1>3
  <2>3. \A g \in Groups : PhaseRank[g] >= PhaseRank[phase'] => PhaseRank[g] >= PhaseRank[phase]
    <3>1. CASE phase' = phase
      BY <3>1
    <3>2. CASE phase' = "vec4" /\ phase = "declare"
      BY <3>2 DEF PhaseRank, Groups
    <3>3. CASE phase' \in {"validate", "done"}
      BY <3>3 DEF PhaseRank, Groups
    <3> QED  BY <1>3, <3>1, <3>2, <3>3
  <2>4. \A g \in Groups : GroupSet(g)' = GroupSet(g)
    BY DEF GroupSet
  <2>5. \A r1, r2 \in Nat : ClipsWithin(r1, r2) => ClipsWithin(r1, r2)'
    BY DEF ClipsWithin
  <2>6. OptimizedHolds'
    BY <2>1, <2>2, <2>3, <2>4, <2>5 DEF OptimizedHolds
  <2> QED  BY <1>1, <1>3, <2>6 DEF PackerInv
<1>4. CASE strategy # "optimized"
  BY <1>1, <1>2, <1>4 DEF PackerInv
<1> QED  BY <1>3, <1>4

\* The iteration of PackPrefixStable.
LEMMA PackPrefixStableStep ==
  ASSUME PackerInv, NEW e \in Shapes, PackPrefixStable(e) PROVE PackerInv'
<1>0. /\ strategy = "prefix" /\ phase = "declare" /\ elems' = Append(elems, e) /\ e \in Shape
      /\ UNCHANGED <<strategy, phase, start>> /\ Typed /\ Staged
  BY DeclaredShapes DEF PackPrefixStable, Declares, PackerInv, Declared
<1>1. PICK H, pre : PrefixHolds(H, pre)
  BY <1>0 DEF PackerInv
<1>2. /\ \E H2, pre2 : PrefixHolds(H2, pre2)'
      /\ elems' \in Seq(Shape) /\ loc' \in Seq(Place \cup {None}) /\ Len(loc') = Len(elems')
      /\ rowsUsed' \in 0 .. NumRegisters /\ DOMAIN regs' = 0 .. NumRegisters - 1
  <2>1. CASE e.kind = "clip" /\ PackClip(e)
    BY <1>0, <1>1, <2>1, PrefixClip
  <2>2. ASSUME e.kind # "clip", NEW c \in Nat, PackNext(e, c)
        PROVE  /\ PrefixHolds(H, pre)'
               /\ elems' \in Seq(Shape) /\ loc' \in Seq(Place \cup {None}) /\ Len(loc') = Len(elems')
               /\ rowsUsed' \in 0 .. NumRegisters /\ DOMAIN regs' = 0 .. NumRegisters - 1
    BY <1>0, <1>1, <2>2, PrefixOther
  <2>3. CASE e.kind = "tess" /\ PackNext(e, 3)
    BY <2>2, <2>3
  <2>4. CASE e.kind # "clip" /\ PackNext(e, 0)
    BY <2>2, <2>4
  <2> QED  BY <2>1, <2>3, <2>4 DEF PackPrefixStable
<1>3. Typed' /\ Staged'
  BY <1>0, <1>2 DEF Typed, Staged
<1> QED  BY <1>0, <1>2, <1>3 DEF PackerInv

\* The step that collects an element.
LEMMA DeclareStep ==
  ASSUME PackerInv, NEW e \in Shapes, Declare(e) PROVE PackerInv'
<1>0. /\ strategy = "optimized" /\ phase = "declare" /\ elems' = Append(elems, e) /\ e \in Shape /\ loc' = Append(loc, None)
      /\ UNCHANGED <<strategy, phase, regs, rowsUsed, start, clip>> /\ Typed /\ Staged /\ OptimizedHolds
      /\ NumRegisters \in Nat
  BY DeclaredShapes, SignatureAssumption DEF Declare, Declares, PackerInv, Declared
<1>1. /\ Longer(elems, elems', e, loc, loc', None)
      /\ elems' \in Seq(Shape) /\ loc' \in Seq(Place \cup {None}) /\ Len(loc') = Len(elems')
  <2>1. elems \in Seq(Shape) /\ e \in Shape /\ loc \in Seq(Place \cup {None}) /\ Len(loc) = Len(elems) /\ None \in Place \cup {None}
    BY <1>0 DEF Typed
  <2> QED  BY <1>0, <2>1, AppendLonger
<1>2. \A i \in DOMAIN elems' : loc'[i] = None
  <2>1. \A i \in DOMAIN elems : loc'[i] = None
    BY <1>0, <1>1 DEF OptimizedHolds, Longer
  <2> QED  BY <1>1, <2>1 DEF Longer
<1>3. Its(elems', loc', DOMAIN elems') = {} /\ Its(elems, loc, DOMAIN elems) = {}
  BY <1>0, <1>2 DEF Its, OptimizedHolds
<1>4. Holds(regs', NumRegisters, Its(elems', loc', DOMAIN elems'))
  BY <1>0, <1>3 DEF OptimizedHolds
<1>5. OptimizedHolds'
  <2>1. \A g \in Groups : \A i \in GroupSet(g)' : loc'[i] = None
    BY <1>2 DEF GroupSet
  <2>2. ClipsWithin(0, 0)'
    BY <1>2 DEF ClipsWithin, ClipsOf
  <2> QED  BY <1>2, <1>4, <2>1, <2>2 DEF OptimizedHolds
<1>6. Typed' /\ Staged'
  BY <1>0, <1>1 DEF Typed, Staged
<1> QED  BY <1>0, <1>5, <1>6 DEF PackerInv

\* The groups have a phase each, under one strategy only.
LEMMA OnlyOptimized ==
  ASSUME Staged, phase \in Groups PROVE strategy = "optimized"
BY DEF Staged, Groups

\* Every step keeps the invariant.
LEMMA PackerNext ==
  ASSUME PackerInv, [Next]_vars PROVE PackerInv'
<1>0. Typed /\ Staged
  BY DEF PackerInv
<1>1. CASE \E e \in Shapes : PackPrefixStable(e)
  BY <1>1, PackPrefixStableStep
<1>2. CASE \E e \in Shapes : Declare(e)
  BY <1>2, DeclareStep
<1>3. CASE BeginOptimized
  <2>1. Staged'
    BY <1>0, <1>3 DEF BeginOptimized, Staged, Phases
  <2> QED  BY <1>3, <2>1, PackerUnchanged DEF BeginOptimized
<1>4. CASE PackGroup \/ PackClipCull
  <2>1. phase \in Groups /\ UNCHANGED <<strategy, clip>>
    BY <1>4 DEF PackGroup, PackClipCull, Groups
  <2>2. strategy = "optimized" /\ OptimizedHolds
    BY <1>0, <2>1, OnlyOptimized DEF PackerInv
  <2>3. OptimizedHolds' /\ Typed' /\ phase' \in Phases
    BY <1>0, <1>4, <2>2, PackGroupStep, PackClipCullStep
  <2>4. Staged'
    BY <1>0, <2>1, <2>2, <2>3 DEF Staged
  <2> QED  BY <2>1, <2>2, <2>3, <2>4 DEF PackerInv
<1>5. CASE BeginValidate
  <2>1. Staged'
    BY <1>0, <1>5 DEF BeginValidate, Staged, Phases
  <2> QED  BY <1>5, <2>1, PackerUnchanged DEF BeginValidate
<1>6. CASE ValidateElement
  <2>1. strategy # "foreign" /\ phase = "validate" /\ phase' \in {"validate", "done"}
        /\ UNCHANGED <<strategy, elems, loc, regs, rowsUsed, start, clip>>
    BY <1>6 DEF ValidateElement
  <2>2. Staged'
    BY <1>0, <2>1 DEF Staged, Phases
  <2> QED  BY <2>1, <2>2, PackerUnchanged
<1>7. CASE \E f \in Foreign : ValidateForeign(f.shape, f.at)
  <2>1. PICK f \in Foreign : ValidateForeign(f.shape, f.at)
    BY <1>7
  <2>2. /\ strategy = "foreign" /\ elems' = Append(elems, f.shape) /\ loc' = Append(loc, f.at)
        /\ UNCHANGED <<strategy, phase, regs, rowsUsed, start, clip>>
    BY <2>1 DEF ValidateForeign
  <2>3. f.shape \in Shape /\ f.at \in Place \cup {None}
    BY DeclaredShapes, SignatureAssumption DEF Declared
  <2>4. elems' \in Seq(Shape) /\ loc' \in Seq(Place \cup {None}) /\ Len(loc') = Len(elems')
    <3>1. elems \in Seq(Shape) /\ loc \in Seq(Place \cup {None}) /\ Len(loc) = Len(elems)
      BY <1>0 DEF Typed
    <3> QED  BY <2>2, <2>3, <3>1, AppendLonger
  <2>5. Typed' /\ Staged'
    BY <1>0, <2>2, <2>4 DEF Typed, Staged
  <2> QED  BY <2>2, <2>5 DEF PackerInv
<1>8. CASE UNCHANGED vars
  <2>1. UNCHANGED <<strategy, phase, elems, loc, regs, rowsUsed, start, clip>>
    BY <1>8 DEF vars
  <2>2. Staged'
    BY <1>0, <2>1 DEF Staged
  <2> QED  BY <2>1, <2>2, PackerUnchanged
<1> QED  BY <1>1, <1>2, <1>3, <1>4, <1>5, <1>6, <1>7, <1>8 DEF Next

\* Under every strategy the registers hold what the places of the elements make
\* of empty ones.
THEOREM PackerInvariant == Spec => []PackerInv
<1>1. Init => PackerInv
  BY PackerInit
<1>2. PackerInv /\ [Next]_vars => PackerInv'
  BY PackerNext
<1> QED  BY <1>1, <1>2, PTL DEF Spec

-----------------------------------------------------------------------------
(* The validator.                                                           *)
Exact(es, ls, placed, refused) ==
  \A i \in placed \cup refused :
    i \in placed <=> /\ Inside(es[i], ls[i])
                     /\ \A k \in {k \in placed : k < i} : Compatible(es[i], ls[i], es[k], ls[k])
JudgeIs(es, ls, next, rs, placed, refused) ==
  /\ next \in 1 .. Len(es) + 1
  /\ placed \cup refused \subseteq {i \in DOMAIN es : i < next /\ ls[i] # None}
  /\ Holds(rs, NumRegisters, Its(es, ls, placed))
  /\ Exact(es, ls, placed, refused)

\* The items of one more element.
LEMMA ItsMore ==
  ASSUME NEW es, NEW ls, NEW S, NEW i, ls[i] # None
  PROVE  Its(es, ls, S \cup {i}) = Its(es, ls, S) \cup {[id |-> i, shape |-> es[i], at |-> ls[i]]}
<1>1. {j \in S \cup {i} : ls[j] # None} = {j \in S : ls[j] # None} \cup {i}
  OBVIOUS
<1> QED  BY <1>1 DEF Its

\* Judging an element that has no place changes nothing but the turn.
LEMMA NextTurn ==
  ASSUME NEW es, NEW ls, NEW i, NEW rs, NEW P, NEW Q, es \in Seq(Shape), i \in DOMAIN es,
         JudgeIs(es, ls, i, rs, P, Q)
  PROVE  JudgeIs(es, ls, i + 1, rs, P, Q)
<1>1. Len(es) \in Nat /\ DOMAIN es = 1 .. Len(es) /\ i \in Nat
  OBVIOUS
<1>2. i + 1 \in 1 .. Len(es) + 1 /\ \A j \in DOMAIN es : j < i => j < i + 1
  BY <1>1
<1> QED  BY <1>2 DEF JudgeIs

\* A place is accepted if it is compatible with the items so far.
LEMMA AcceptsExactly ==
  ASSUME NumRegisters \in Nat,
         NEW es, NEW ls, NEW i, NEW rs, NEW P, NEW Q, es \in Seq(Shape), ls \in Seq(Place \cup {None}), Len(ls) = Len(es),
         i \in DOMAIN es, ls[i] # None, JudgeIs(es, ls, i, rs, P, Q)
  PROVE  /\ Accepts(rs, es[i], ls[i]) <=> Taken(rs, NumRegisters, es[i], ls[i])
         /\ Accepts(rs, es[i], ls[i])
              <=> Inside(es[i], ls[i]) /\ \A k \in P : Compatible(es[i], ls[i], es[k], ls[k])
<1> DEFINE X == Its(es, ls, P)
<1>1. Holds(rs, NumRegisters, X) /\ P \subseteq {k \in DOMAIN es : k < i /\ ls[k] # None}
  BY DEF JudgeIs
<1>2. es[i] \in Shape /\ ls[i] \in Place
  OBVIOUS
<1>3. PICK e \in Shape : e = es[i]
  BY <1>2
<1>4. PICK p \in Place : p = ls[i]
  BY <1>2
<1> HIDE DEF X
<1>5. Taken(rs, NumRegisters, e, p) <=>
           /\ p.row + e.rows <= NumRegisters /\ p.col + e.cols <= 4
           /\ \A x \in X : Compatible(e, p, x.shape, x.at)
  BY ONLY <1>1, NumRegisters \in Nat, e \in Shape, p \in Place, TakenExactly
<1>6. (\A x \in X : Compatible(e, p, x.shape, x.at)) <=> \A k \in P : Compatible(e, p, es[k], ls[k])
  <2>1. ASSUME NEW k \in P PROVE [id |-> k, shape |-> es[k], at |-> ls[k]] \in X
    BY <1>1 DEF X, Its
  <2>2. ASSUME NEW x \in X PROVE \E k \in P : x.shape = es[k] /\ x.at = ls[k]
    BY DEF X, Its
  <2>3. ASSUME \A x \in X : Compatible(e, p, x.shape, x.at), NEW k \in P PROVE Compatible(e, p, es[k], ls[k])
    <3>1. PICK x \in X : x.shape = es[k] /\ x.at = ls[k]
      BY <2>1
    <3> QED  BY <2>3, <3>1
  <2>4. ASSUME \A k \in P : Compatible(e, p, es[k], ls[k]), NEW x \in X PROVE Compatible(e, p, x.shape, x.at)
    BY <2>2, <2>4
  <2> QED  BY <2>3, <2>4
<1>7. Accepts(rs, e, p) <=> Taken(rs, NumRegisters, e, p)
  <2>1. DOMAIN rs = 0 .. NumRegisters - 1
    BY <1>1 DEF Holds
  <2>2. e.rows \in 1 .. 2 /\ e.cols \in Nat \ {0}
    BY ShapeType
  <2> QED  BY ONLY NumRegisters \in Nat, p \in Place, <2>1, <2>2, ConflictFree
<1> QED  BY <1>3, <1>4, <1>5, <1>6, <1>7 DEF Inside

\* The element judged next: accepted.
LEMMA JudgedPlaced ==
  ASSUME NumRegisters \in Nat,
         NEW es, NEW ls, NEW i, NEW rs, NEW P, NEW Q, es \in Seq(Shape), ls \in Seq(Place \cup {None}), Len(ls) = Len(es),
         i \in DOMAIN es, ls[i] # None, JudgeIs(es, ls, i, rs, P, Q), Accepts(rs, es[i], ls[i])
  PROVE  JudgeIs(es, ls, i + 1, PlaceElement(rs, es[i], ls[i]), P \cup {i}, Q)
<1> DEFINE x == [id |-> i, shape |-> es[i], at |-> ls[i]]
           rs2 == PlaceElement(rs, es[i], ls[i])
<1>0. JudgeIs(es, ls, i + 1, rs, P, Q)
  BY NextTurn
<1>1. /\ i + 1 \in 1 .. Len(es) + 1 /\ i \in Nat /\ i < i + 1
      /\ P \cup Q \subseteq {k \in DOMAIN es : k < i + 1 /\ ls[k] # None}
      /\ P \cup Q \subseteq {k \in DOMAIN es : k < i /\ ls[k] # None}
  BY <1>0 DEF JudgeIs
<1>2. Holds(rs2, NumRegisters, Its(es, ls, P \cup {i}))
  <2>1. x \in Item /\ x.shape = es[i] /\ x.at = ls[i]
    BY <1>1 DEF Item
  <2>2. Taken(rs, NumRegisters, es[i], ls[i])
    BY AcceptsExactly
  <2>3. Holds(rs, NumRegisters, Its(es, ls, P))
    BY DEF JudgeIs
  <2> HIDE DEF x
  <2>4. Taken(rs, NumRegisters, x.shape, x.at)
    BY <2>1, <2>2
  <2>5. Holds(PlaceElement(rs, x.shape, x.at), NumRegisters, Its(es, ls, P) \cup {x})
    BY ONLY <2>1, <2>3, <2>4, NumRegisters \in Nat, PlacedHolds
  <2>6. Its(es, ls, P \cup {i}) = Its(es, ls, P) \cup {x}
    BY ItsMore DEF x
  <2> QED  BY <2>1, <2>5, <2>6
<1>3. Exact(es, ls, P \cup {i}, Q)
  <2>1. \A k \in P \cup Q : k < i /\ k # i /\ k \in Nat /\ ~(i < k)
    BY <1>1
  <2>2. \A k \in P \cup Q : {m \in P \cup {i} : m < k} = {m \in P : m < k}
    BY <2>1
  <2>3. {m \in P \cup {i} : m < i} = P
    BY <1>1, <2>1
  <2>4. Inside(es[i], ls[i]) /\ \A k \in P : Compatible(es[i], ls[i], es[k], ls[k])
    BY AcceptsExactly
  <2>5. Exact(es, ls, P, Q)
    BY DEF JudgeIs
  <2>6. ASSUME NEW k \in P \cup Q
        PROVE  k \in P \cup {i} <=> /\ Inside(es[k], ls[k])
                     /\ \A m \in {m \in P \cup {i} : m < k} : Compatible(es[k], ls[k], es[m], ls[m])
    <3>1. k \in P \cup {i} <=> k \in P
      BY <2>1
    <3> QED  BY <2>2, <2>5, <3>1 DEF Exact
  <2>7. i \in P \cup {i} <=> /\ Inside(es[i], ls[i])
                     /\ \A m \in {m \in P \cup {i} : m < i} : Compatible(es[i], ls[i], es[m], ls[m])
    BY <2>3, <2>4
  <2> QED  BY <2>6, <2>7 DEF Exact
<1>4. (P \cup {i}) \cup Q \subseteq {k \in DOMAIN es : k < i + 1 /\ ls[k] # None}
  BY <1>1
<1> HIDE DEF rs2
<1>5. JudgeIs(es, ls, i + 1, rs2, P \cup {i}, Q)
  BY ONLY <1>1, <1>2, <1>3, <1>4 DEF JudgeIs
<1> QED  BY <1>5 DEF rs2

\* The element judged next: refused.
LEMMA JudgedRefused ==
  ASSUME NumRegisters \in Nat,
         NEW es, NEW ls, NEW i, NEW rs, NEW P, NEW Q, es \in Seq(Shape), ls \in Seq(Place \cup {None}), Len(ls) = Len(es),
         i \in DOMAIN es, ls[i] # None, JudgeIs(es, ls, i, rs, P, Q), ~Accepts(rs, es[i], ls[i])
  PROVE  JudgeIs(es, ls, i + 1, rs, P, Q \cup {i})
<1>0. JudgeIs(es, ls, i + 1, rs, P, Q)
  BY NextTurn
<1>1. /\ i + 1 \in 1 .. Len(es) + 1 /\ i \in Nat /\ i < i + 1
      /\ P \cup Q \subseteq {k \in DOMAIN es : k < i + 1 /\ ls[k] # None}
      /\ P \cup Q \subseteq {k \in DOMAIN es : k < i /\ ls[k] # None}
  BY <1>0 DEF JudgeIs
<1>2. Holds(rs, NumRegisters, Its(es, ls, P))
  BY DEF JudgeIs
<1>3. Exact(es, ls, P, Q \cup {i})
  <2>1. i \notin P /\ {m \in P : m < i} = P
    BY <1>1
  <2>2. ~(Inside(es[i], ls[i]) /\ \A k \in P : Compatible(es[i], ls[i], es[k], ls[k]))
    BY AcceptsExactly
  <2>3. Exact(es, ls, P, Q)
    BY DEF JudgeIs
  <2> QED  BY <2>1, <2>2, <2>3 DEF Exact
<1>4. P \cup (Q \cup {i}) \subseteq {k \in DOMAIN es : k < i + 1 /\ ls[k] # None}
  BY <1>1
<1> QED  BY ONLY <1>1, <1>2, <1>3, <1>4 DEF JudgeIs

JudgeHolds(es, ls, j) ==
  /\ JudgeIs(es, ls, j.next, j.regs, j.placed, j.refused)
  /\ j = [next |-> j.next, regs |-> j.regs, placed |-> j.placed, refused |-> j.refused, clipRows |-> j.clipRows]

\* The validator's turn.
LEMMA JudgedHolds ==
  ASSUME NumRegisters \in Nat,
         NEW es, NEW ls, es \in Seq(Shape), ls \in Seq(Place \cup {None}), Len(ls) = Len(es),
         judge.next \in DOMAIN es, JudgeHolds(es, ls, judge)
  PROVE  /\ JudgeHolds(es, ls, Judged(es[judge.next], ls[judge.next]))
         /\ Judged(es[judge.next], ls[judge.next]).next = judge.next + 1
<1> DEFINE i == judge.next
           at == ls[i]
           j == Judged(es[i], at)
           rows == judge.clipRows \cup
                (IF es[i].kind = "clip" THEN at.row .. at.row + es[i].rows - 1 ELSE {})
<1>1. /\ JudgeIs(es, ls, i, judge.regs, judge.placed, judge.refused)
      /\ judge = [next |-> judge.next, regs |-> judge.regs, placed |-> judge.placed, refused |-> judge.refused,
                  clipRows |-> judge.clipRows]
  BY DEF JudgeHolds
<1>2. CASE at = None
  <2>1. j = [next |-> i + 1, regs |-> judge.regs, placed |-> judge.placed, refused |-> judge.refused,
             clipRows |-> judge.clipRows]
    BY <1>1, <1>2 DEF Judged
  <2>2. JudgeIs(es, ls, i + 1, judge.regs, judge.placed, judge.refused)
    BY <1>1, NextTurn
  <2> HIDE DEF j
  <2>3. PICK g : g = j
    OBVIOUS
  <2>4. JudgeHolds(es, ls, g) /\ g.next = i + 1
    BY <2>1, <2>2, <2>3 DEF JudgeHolds
  <2> QED  BY <2>3, <2>4 DEF j
<1>3. CASE at # None /\ Accepts(judge.regs, es[i], at)
  <2>1. j = [next |-> i + 1, regs |-> PlaceElement(judge.regs, es[i], at), placed |-> judge.placed \cup {i},
             refused |-> judge.refused, clipRows |-> rows]
    BY <1>3 DEF Judged
  <2>2. JudgeIs(es, ls, i + 1, PlaceElement(judge.regs, es[i], at), judge.placed \cup {i}, judge.refused)
    BY <1>1, <1>3, JudgedPlaced
  <2> HIDE DEF j, rows
  <2>3. PICK g : g = j
    OBVIOUS
  <2>4. JudgeHolds(es, ls, g) /\ g.next = i + 1
    BY <2>1, <2>2, <2>3 DEF JudgeHolds
  <2> QED  BY <2>3, <2>4 DEF j
<1>4. CASE at # None /\ ~Accepts(judge.regs, es[i], at)
  <2>1. j = [next |-> i + 1, regs |-> judge.regs, placed |-> judge.placed,
             refused |-> judge.refused \cup {i}, clipRows |-> rows]
    BY <1>1, <1>4 DEF Judged
  <2>2. JudgeIs(es, ls, i + 1, judge.regs, judge.placed, judge.refused \cup {i})
    BY <1>1, <1>4, JudgedRefused
  <2> HIDE DEF j, rows
  <2>3. PICK g : g = j
    OBVIOUS
  <2>4. JudgeHolds(es, ls, g) /\ g.next = i + 1
    BY <2>1, <2>2, <2>3 DEF JudgeHolds
  <2> QED  BY <2>3, <2>4 DEF j
<1> QED  BY <1>2, <1>3, <1>4

\* One more element to judge.
LEMMA JudgeLonger ==
  ASSUME NEW es, NEW ls, es \in Seq(Shape), ls \in Seq(Place \cup {None}), Len(ls) = Len(es),
         NEW e \in Shape, NEW at \in Place \cup {None}, JudgeHolds(es, ls, judge)
  PROVE  JudgeHolds(Append(es, e), Append(ls, at), judge)
<1> DEFINE es2 == Append(es, e)
           ls2 == Append(ls, at)
           P == judge.placed
           Q == judge.refused
<1>1. Longer(es, es2, e, ls, ls2, at) /\ Len(es2) = Len(es) + 1 /\ Len(es) \in Nat
  BY AppendLonger
<1>2. JudgeIs(es, ls, judge.next, judge.regs, P, Q)
  BY DEF JudgeHolds
<1> HIDE DEF es2, ls2, P, Q
<1>3. P \cup Q \subseteq DOMAIN es /\ \A i \in P \cup Q : es2[i] = es[i] /\ ls2[i] = ls[i] /\ i \in DOMAIN es2
  BY <1>1, <1>2 DEF JudgeIs, Longer
<1>4. Its(es2, ls2, P) = Its(es, ls, P)
  <2>1. \A i \in P : es2[i] = es[i] /\ ls2[i] = ls[i]
    BY <1>3
  <2> QED  BY <2>1 DEF Its
<1>5. Exact(es2, ls2, P, Q)
  BY <1>2, <1>3 DEF JudgeIs, Exact
<1>6. judge.next \in 1 .. Len(es2) + 1
  BY <1>1, <1>2 DEF JudgeIs
<1>7. P \cup Q \subseteq {i \in DOMAIN es2 : i < judge.next /\ ls2[i] # None}
  BY <1>2, <1>3 DEF JudgeIs
<1>8. Holds(judge.regs, NumRegisters, Its(es2, ls2, P))
  BY <1>2, <1>4 DEF JudgeIs
<1>9. JudgeIs(es2, ls2, judge.next, judge.regs, P, Q)
  BY ONLY <1>5, <1>6, <1>7, <1>8 DEF JudgeIs
<1> QED  BY <1>9 DEF JudgeHolds, es2, ls2, P, Q

\* Before the validator's first turn, the places do not matter.
LEMMA JudgeFirst ==
  ASSUME NEW es, NEW ls, es \in Seq(Shape), NEW es2, NEW ls2, es2 \in Seq(Shape),
         JudgeHolds(es, ls, judge), judge.next = 1, judge.placed = {}, judge.refused = {}
  PROVE  JudgeHolds(es2, ls2, judge)
<1>1. JudgeIs(es, ls, 1, judge.regs, {}, {})
  BY DEF JudgeHolds
<1>2. Its(es, ls, {}) = {} /\ Its(es2, ls2, {}) = {}
  BY DEF Its
<1>3. 1 \in 1 .. Len(es2) + 1
  <2>1. Len(es2) \in Nat
    OBVIOUS
  <2> QED  BY <2>1
<1>4. JudgeIs(es2, ls2, 1, judge.regs, {}, {})
  BY <1>1, <1>2, <1>3 DEF JudgeIs, Exact
<1> QED  BY <1>4 DEF JudgeHolds

JudgeInv ==
  /\ JudgeHolds(elems, loc, judge)
  /\ phase \notin {"validate", "done"} => judge.placed = {} /\ judge.refused = {} /\ judge.next = 1
  /\ strategy = "foreign" => judge.next = Len(elems) + 1

\* The validator starts with empty registers.
LEMMA JudgeInit ==
  ASSUME Init PROVE JudgeInv
<1>0. NumRegisters \in Nat
  BY SignatureAssumption
<1>1. /\ elems = <<>> /\ loc = <<>>
      /\ judge = [next |-> 1, regs |-> Registers(NumRegisters), placed |-> {}, refused |-> {}, clipRows |-> {}]
  BY DEF Init
<1>2. Holds(judge.regs, NumRegisters, {})
  BY <1>0, <1>1, EmptyHolds
<1>3. Its(elems, loc, {}) = {} /\ Len(elems) = 0
  BY <1>1 DEF Its
<1>4. JudgeIs(elems, loc, judge.next, judge.regs, judge.placed, judge.refused)
  <2>1. judge.placed = {} /\ judge.refused = {} /\ judge.next = 1 /\ 1 \in 1 .. Len(elems) + 1
    BY <1>1, <1>3
  <2> QED  BY <1>2, <1>3, <2>1 DEF JudgeIs, Exact
<1>5. JudgeHolds(elems, loc, judge)
  BY <1>1, <1>4 DEF JudgeHolds
<1> QED  BY <1>1, <1>3, <1>5 DEF JudgeInv

\* Every step keeps what the validator's registers hold.
LEMMA JudgeNext ==
  ASSUME PackerInv, PackerInv', JudgeInv, [Next]_vars PROVE JudgeInv'
<1>0. /\ elems \in Seq(Shape) /\ loc \in Seq(Place \cup {None}) /\ Len(loc) = Len(elems)
      /\ elems' \in Seq(Shape) /\ NumRegisters \in Nat /\ Staged
  BY SignatureAssumption DEF PackerInv, Typed
<1>1. CASE \/ \E e \in Shapes : PackPrefixStable(e) \/ Declare(e)
           \/ BeginOptimized \/ PackGroup \/ PackClipCull
  <2>1. phase \notin {"validate", "done"} /\ strategy' = strategy /\ judge' = judge
    BY <1>1 DEF PackPrefixStable, Declare, Declares, BeginOptimized, PackGroup, PackClipCull
  <2>2. strategy # "foreign"
    BY <1>0, <2>1 DEF Staged
  <2>3. JudgeHolds(elems, loc, judge) /\ judge.next = 1 /\ judge.placed = {} /\ judge.refused = {}
    BY <2>1 DEF JudgeInv
  <2>4. JudgeHolds(elems', loc', judge)
    BY <1>0, <2>3, JudgeFirst
  <2> QED  BY <2>1, <2>2, <2>3, <2>4 DEF JudgeInv
<1>2. CASE BeginValidate \/ UNCHANGED vars
  BY <1>2 DEF BeginValidate, vars, JudgeInv
<1>3. CASE ValidateElement
  <2>1. /\ judge.next \in DOMAIN elems /\ judge' = Judged(elems[judge.next], loc[judge.next])
        /\ phase = "validate" /\ phase' \in {"validate", "done"} /\ strategy # "foreign" /\ UNCHANGED <<strategy, elems, loc>>
    BY <1>3 DEF ValidateElement
  <2>2. JudgeHolds(elems, loc, judge)
    BY DEF JudgeInv
  <2>3. JudgeHolds(elems, loc, Judged(elems[judge.next], loc[judge.next]))
    BY ONLY <1>0, <2>1, <2>2, JudgedHolds
  <2> QED  BY <2>1, <2>3 DEF JudgeInv
<1>4. CASE \E f \in Foreign : ValidateForeign(f.shape, f.at)
  <2>1. PICK f \in Foreign : ValidateForeign(f.shape, f.at)
    BY <1>4
  <2>2. PICK e \in Shape, at \in Place \cup {None} : e = f.shape /\ at = f.at
    BY DeclaredShapes, SignatureAssumption DEF Declared
  <2>3. /\ strategy = "foreign" /\ phase = "validate" /\ elems' = Append(elems, e) /\ loc' = Append(loc, at)
        /\ UNCHANGED <<strategy, phase>> /\ judge' = Judged(e, at)
    BY <2>1, <2>2 DEF ValidateForeign
  <2> DEFINE es == Append(elems, e)
             ls == Append(loc, at)
  <2>4. JudgeHolds(es, ls, judge)
    BY <1>0, JudgeLonger DEF JudgeInv
  <2>5. judge.next = Len(elems) + 1
    BY <2>3 DEF JudgeInv
  <2>6. /\ es \in Seq(Shape) /\ ls \in Seq(Place \cup {None}) /\ Len(ls) = Len(es) /\ Len(es) = Len(elems) + 1
        /\ judge.next \in DOMAIN es /\ es[judge.next] = e /\ ls[judge.next] = at
    BY <1>0, <2>5
  <2> HIDE DEF es, ls
  <2>7. /\ JudgeHolds(es, ls, Judged(es[judge.next], ls[judge.next]))
        /\ Judged(es[judge.next], ls[judge.next]).next = judge.next + 1
    BY <1>0, <2>4, <2>6, JudgedHolds
  <2>8. JudgeHolds(elems', loc', judge') /\ judge'.next = judge.next + 1 /\ Len(elems') = Len(elems) + 1
    BY <2>3, <2>6, <2>7 DEF es, ls
  <2> QED  BY <2>3, <2>5, <2>8 DEF JudgeInv
<1> QED  BY <1>1, <1>2, <1>3, <1>4 DEF Next

-----------------------------------------------------------------------------
(* Placed elements do not get in each other's way.                          *)
\* The rows held are one behind the other where an element of two rows is.
Together == clip.indexed /\ Len(clip.held) = 2 => Adjacent(clip.held)
Mine == {i \in DOMAIN elems : loc[i] # None}
Legal(i, j) == Compatible(elems[i], loc[i], elems[j], loc[j])

\* The elements that have a place.
LEMMA LocatedIs ==
  ASSUME Typed PROVE Located = Mine /\ Clips = {i \in Mine : elems[i].kind = "clip"}
                     /\ \A i \in Mine : elems[i] \in Shape /\ loc[i] \in Place /\ i \in Nat
BY DEF Typed, Located, Mine, Clips

\* Elements whose items one allocator holds.
LEMMA ItemsLegal ==
  ASSUME NEW rs, NEW n \in Nat, NEW es, NEW ls, NEW S, NEW Z, Holds(rs, n, Its(es, ls, S) \cup Z),
         NEW i \in S, ls[i] # None
  PROVE  /\ ls[i].row + es[i].rows <= n /\ ls[i].col + es[i].cols <= 4
         /\ \A j \in S \ {i} : ls[j] # None => Compatible(es[i], ls[i], es[j], ls[j])
         /\ \A z \in Z : z.shape \in Shape /\ z.at \in Place /\ z.id # i =>
                           Compatible(es[i], ls[i], z.shape, z.at)
<1> DEFINE X == Its(es, ls, S) \cup Z
           x(j) == [id |-> j, shape |-> es[j], at |-> ls[j]]
<1>1. \A j \in S : ls[j] # None => x(j) \in X
  BY DEF Its
<1>2. x(i).shape = es[i] /\ x(i).at = ls[i] /\ x(i).id = i
  OBVIOUS
<1>3. Within(x(i), n)
  BY <1>1 DEF Holds
<1>4. ASSUME NEW j \in S \ {i}, ls[j] # None PROVE Compatible(es[i], ls[i], es[j], ls[j])
  <2>1. x(i) # x(j) /\ x(i) \in X /\ x(j) \in X
    <3>1. x(i).id = i /\ x(j).id = j
      OBVIOUS
    <3> QED  BY <1>1, <1>4, <3>1
  <2>2. PICK a, b : a = x(i) /\ b = x(j)
    OBVIOUS
  <2>3. a.shape = es[i] /\ a.at = ls[i] /\ b.shape = es[j] /\ b.at = ls[j]
    BY <2>2
  <2> HIDE DEF x, X
  <2>4. Holds(rs, n, X)
    BY DEF X
  <2>5. Compatible(a.shape, a.at, b.shape, b.at)
    BY <2>1, <2>2, <2>4, HoldsLegal
  <2> QED  BY <2>3, <2>5
<1>5. ASSUME NEW z \in Z, z.id # i PROVE Compatible(es[i], ls[i], z.shape, z.at)
  <2>1. x(i) # z /\ x(i) \in X /\ z \in X
    BY <1>1, <1>2, <1>5
  <2>2. PICK a : a = x(i)
    OBVIOUS
  <2>3. a.shape = es[i] /\ a.at = ls[i]
    BY <2>2
  <2> HIDE DEF x, X
  <2>4. Holds(rs, n, X)
    BY DEF X
  <2>5. Compatible(a.shape, a.at, z.shape, z.at)
    BY <2>1, <2>2, <2>4, HoldsLegal
  <2> QED  BY <2>3, <2>5
<1> QED  BY <1>2, <1>3, <1>4, <1>5 DEF Within

\* PackOptimized: every two placed elements.
LEMMA OptimizedLegal ==
  ASSUME Typed, OptimizedHolds, NEW i \in Mine
  PROVE  Inside(elems[i], loc[i]) /\ \A j \in Mine \ {i} : Legal(i, j)
<1>1. Holds(regs, NumRegisters, Its(elems, loc, DOMAIN elems) \cup {}) /\ NumRegisters \in Nat
  BY SignatureAssumption DEF OptimizedHolds
<1>2. i \in DOMAIN elems /\ loc[i] # None
  BY DEF Mine
<1>3. /\ loc[i].row + elems[i].rows <= NumRegisters /\ loc[i].col + elems[i].cols <= 4
      /\ \A j \in DOMAIN elems \ {i} : loc[j] # None => Compatible(elems[i], loc[i], elems[j], loc[j])
  BY <1>1, <1>2, ItemsLegal
<1> QED  BY <1>3 DEF Mine, Legal, Inside

\* The rows of a clip/cull element are rows held, in the order of pre.
HeldRow(held, e, p, q, r) ==
  \E k \in RowsOf(e, q) : /\ k + 1 \in 1 .. Len(held) /\ held[k + 1] = r /\ r \in Nat /\ k \in Nat
                          /\ r - p.row = k - q.row
\* Every row of a clip/cull element is a row held.
LEMMA ClipRow ==
  ASSUME Typed, Together, NEW H, NEW pre, PrefixHolds(H, pre), NEW i \in Mine, elems[i].kind = "clip",
         NEW r \in RowsOf(elems[i], loc[i])
  PROVE  /\ HeldRow(clip.held, elems[i], loc[i], pre[i], r)
         /\ loc[i].col = pre[i].col
<1>1. /\ i \in ClipsOf(elems) /\ loc[i] # None /\ elems[i] \in Shape /\ i \in Nat /\ loc[i] \in Place
  BY LocatedIs DEF ClipsOf, Mine
<1>2. /\ pre[i].row + elems[i].rows <= Len(clip.held)
      /\ loc[i] = [row |-> clip.held[pre[i].row + 1], col |-> pre[i].col]
      /\ elems[i].rows > 1 => clip.indexed
      /\ pre[i] \in Place /\ clip.held \in Seq(Nat) /\ Len(clip.held) <= 2
  BY <1>1 DEF PrefixHolds, PrefixIs
<1>3. elems[i].rows \in 1 .. 2 /\ pre[i].row \in Nat /\ Len(clip.held) \in Nat
  BY <1>1, <1>2, ShapeType DEF Place
<1>4. PICK q \in Nat, n \in 1 .. 2, p \in Nat, m \in Nat :
        q = pre[i].row /\ n = elems[i].rows /\ p = loc[i].row /\ m = Len(clip.held)
  BY <1>1, <1>3 DEF Place
<1>5. q + n <= m /\ m <= 2 /\ p = clip.held[q + 1] /\ r \in p .. p + n - 1
  BY <1>2, <1>4 DEF RowsOf
<1>6. loc[i].col = pre[i].col
  BY <1>2
<1>7. CASE r = p
  <2>1. q \in RowsOf(elems[i], pre[i])
    BY <1>4 DEF RowsOf
  <2>2. q + 1 \in 1 .. m
    BY <1>5
  <2>3. r - p = q - q /\ r \in Nat
    BY <1>7
  <2> QED  BY <1>4, <1>5, <1>6, <1>7, <2>1, <2>2, <2>3 DEF HeldRow
<1>8. CASE r # p
  <2>1. r = p + 1 /\ n = 2 /\ q = 0 /\ m = 2
    BY <1>5, <1>8
  <2>2. clip.held[1] + 1 = clip.held[2]
    <3>1. Adjacent(clip.held)
      BY <1>2, <1>4, <2>1 DEF Together
    <3> QED  BY <3>1 DEF Adjacent
  <2>3. p = clip.held[1] /\ r = clip.held[2] /\ r - p = 1 - q
    BY <1>5, <2>1, <2>2
  <2>4. 1 \in RowsOf(elems[i], pre[i]) /\ 1 + 1 \in 1 .. Len(clip.held) /\ clip.held[1 + 1] = r /\ r \in Nat
    BY <1>4, <2>1, <2>3 DEF RowsOf
  <2>5. r - loc[i].row = 1 - pre[i].row
    BY <1>4, <2>3
  <2> QED  BY <1>6, <2>4, <2>5 DEF HeldRow
<1> QED  BY <1>7, <1>8

\* Two clip/cull elements.
LEMMA ClipPair ==
  ASSUME Typed, Together, NEW H, NEW pre, PrefixHolds(H, pre), NEW i \in Mine, NEW j \in Mine, i # j,
         elems[i].kind = "clip", elems[j].kind = "clip"
  PROVE  Legal(i, j)
<1> SUFFICES ASSUME NEW r \in RowsOf(elems[i], loc[i]) \cap RowsOf(elems[j], loc[j])
             PROVE  Agree(elems[i], loc[i], elems[j], loc[j], r)
  BY CompatibleRows DEF Legal
<1>1. /\ HeldRow(clip.held, elems[i], loc[i], pre[i], r) /\ loc[i].col = pre[i].col
      /\ HeldRow(clip.held, elems[j], loc[j], pre[j], r) /\ loc[j].col = pre[j].col
  BY ClipRow
<1>2. PICK k \in RowsOf(elems[i], pre[i]) : /\ k + 1 \in 1 .. Len(clip.held) /\ clip.held[k + 1] = r /\ k \in Nat
                                            /\ r - loc[i].row = k - pre[i].row
  BY <1>1 DEF HeldRow
<1>3. PICK l \in RowsOf(elems[j], pre[j]) : /\ l + 1 \in 1 .. Len(clip.held) /\ clip.held[l + 1] = r /\ l \in Nat
                                            /\ r - loc[j].row = l - pre[j].row
  BY <1>1 DEF HeldRow
<1>4. /\ clip.held \in Seq(Nat) /\ Len(clip.held) <= 2 /\ (Len(clip.held) = 2 => clip.held[1] # clip.held[2])
      /\ Holds(clip.regs, 2, Its(elems, pre, ClipsOf(elems)) \cup {})
      /\ \A m \in Nat : pre[m] # None <=> (m \in ClipsOf(elems) /\ loc[m] # None)
  BY DEF PrefixHolds, PrefixIs
<1>5. k = l
  <2>1. PICK m \in Nat : m = Len(clip.held)
    BY <1>4
  <2>2. k + 1 <= m /\ l + 1 <= m /\ m <= 2
    BY <1>2, <1>3, <1>4, <2>1
  <2>3. clip.held[k + 1] = clip.held[l + 1] /\ k \in Nat /\ l \in Nat
    BY <1>2, <1>3
  <2>4. k \in {0, 1} /\ l \in {0, 1} /\ (k = 1 \/ l = 1 => m = 2)
    BY ONLY <2>2, <2>3, m \in Nat
  <2>5. k = 1 \/ l = 1 => clip.held[1] # clip.held[2]
    BY ONLY <1>4, <2>1, <2>4
  <2>6. (k = 0 => k + 1 = 1) /\ (k = 1 => k + 1 = 2) /\ (l = 0 => l + 1 = 1) /\ (l = 1 => l + 1 = 2)
    OBVIOUS
  <2> QED  BY ONLY <2>3, <2>4, <2>5, <2>6
<1>6. i \in ClipsOf(elems) /\ j \in ClipsOf(elems) /\ pre[i] # None /\ pre[j] # None
  <2>1. i \in ClipsOf(elems) /\ j \in ClipsOf(elems) /\ i \in Nat /\ j \in Nat /\ loc[i] # None /\ loc[j] # None
    BY LocatedIs DEF Mine, ClipsOf
  <2> QED  BY <1>4, <2>1
<1>7. Compatible(elems[i], pre[i], elems[j], pre[j])
  <2>1. 2 \in Nat /\ j \in ClipsOf(elems) \ {i}
    BY <1>6
  <2>2. \A m \in ClipsOf(elems) \ {i} : pre[m] # None => Compatible(elems[i], pre[i], elems[m], pre[m])
    BY <1>4, <1>6, <2>1, ItemsLegal
  <2> QED  BY <1>6, <2>1, <2>2
<1>8. Agree(elems[i], pre[i], elems[j], pre[j], k)
  BY <1>2, <1>3, <1>5, <1>7, CompatibleRows
<1> QED  BY <1>1, <1>2, <1>3, <1>5, <1>8 DEF Agree, Ordered, Indexable, IndexAt

\* The rows held are free of other elements.
LEMMA OtherRows ==
  ASSUME Typed, NEW H, NEW pre, PrefixHolds(H, pre), NEW i \in Mine, elems[i].kind # "clip",
         NEW k \in 1 .. Len(clip.held)
  PROVE  clip.held[k] \notin RowsOf(elems[i], loc[i])
<1>1. /\ Holds(regs, NumRegisters, Its(elems, loc, OthersOf(elems)) \cup H) /\ HeldBy(clip.held, H)
  BY DEF PrefixHolds, PrefixIs, HeldBy
<1>2. clip.held[k] \in Nat
  BY <1>1 DEF HeldBy
<1>3. PICK h \in H : clip.held[k] \in RowsOf(h.shape, h.at)
  BY <1>1, <1>2 DEF HeldBy
<1>4. h.shape \in Shape /\ h.at \in Place /\ h.shape.cols = 4 /\ h.at.col + h.shape.cols <= 4
  BY <1>1 DEF HeldBy, Item, Within
<1>5. i \in OthersOf(elems) /\ loc[i] # None /\ elems[i] \in Shape /\ loc[i] \in Place /\ NumRegisters \in Nat
  BY LocatedIs, SignatureAssumption DEF Mine, OthersOf
<1>6. loc[i].col + elems[i].cols <= 4
  BY <1>1, <1>5, ItemsLegal
<1>7. Compatible(elems[i], loc[i], h.shape, h.at)
  <2>1. h.id # i
    <3>1. h.id = 0 /\ i # 0
      BY <1>1 DEF HeldBy, Typed, Mine
    <3> QED  BY <3>1
  <2>2. \A z \in H : z.shape \in Shape /\ z.at \in Place /\ z.id # i => Compatible(elems[i], loc[i], z.shape, z.at)
    BY <1>1, <1>5, ItemsLegal
  <2> QED  BY <1>4, <2>1, <2>2
<1>8. Compatible(h.shape, h.at, elems[i], loc[i])
  BY <1>7, CompatibleSymmetric
<1>9. RowsOf(h.shape, h.at) \cap RowsOf(elems[i], loc[i]) = {}
  BY <1>4, <1>5, <1>6, <1>8, WholeRows
<1> QED  BY <1>3, <1>9

\* PackPrefixStable: every two placed elements.
LEMMA PrefixLegal ==
  ASSUME Typed, Together, NEW H, NEW pre, PrefixHolds(H, pre), NEW i \in Mine
  PROVE  Inside(elems[i], loc[i]) /\ \A j \in Mine \ {i} : Legal(i, j)
<1>1. /\ Holds(regs, NumRegisters, Its(elems, loc, OthersOf(elems)) \cup H) /\ HeldBy(clip.held, H)
      /\ Holds(clip.regs, 2, Its(elems, pre, ClipsOf(elems)) \cup {})
      /\ \A m \in Nat : pre[m] # None <=> (m \in ClipsOf(elems) /\ loc[m] # None)
  BY DEF PrefixHolds, PrefixIs, HeldBy
<1>2. /\ NumRegisters \in Nat /\ loc[i] # None /\ i \in Nat /\ elems[i] \in Shape /\ loc[i] \in Place
      /\ (i \in OthersOf(elems) <=> elems[i].kind # "clip") /\ (i \in ClipsOf(elems) <=> elems[i].kind = "clip")
  BY LocatedIs, SignatureAssumption DEF Mine, OthersOf, ClipsOf
<1>3. ASSUME NEW j \in Mine, NEW k \in Mine, elems[j].kind = "clip", elems[k].kind # "clip"
      PROVE  RowsOf(elems[j], loc[j]) \cap RowsOf(elems[k], loc[k]) = {}
  <2> SUFFICES ASSUME NEW r \in RowsOf(elems[j], loc[j]), r \in RowsOf(elems[k], loc[k]) PROVE FALSE
    OBVIOUS
  <2>1. HeldRow(clip.held, elems[j], loc[j], pre[j], r)
    BY <1>3, ClipRow
  <2>2. PICK m \in 1 .. Len(clip.held) : clip.held[m] = r
    BY <2>1 DEF HeldRow
  <2> QED  BY <1>3, <2>2, OtherRows
<1>4. CASE elems[i].kind = "clip"
  <2>1. ASSUME NEW j \in Mine \ {i} PROVE Legal(i, j)
    <3>1. CASE elems[j].kind = "clip"
      BY <1>4, <3>1, ClipPair
    <3>2. CASE elems[j].kind # "clip"
      BY <1>3, <1>4, <3>2 DEF Legal, Compatible
    <3> QED  BY <3>1, <3>2
  <2>2. loc[i].row + elems[i].rows <= NumRegisters
    <3> DEFINE last == loc[i].row + elems[i].rows - 1
    <3>1. loc[i].row \in Nat /\ elems[i].rows \in 1 .. 2
      BY <1>2, ShapeType DEF Place
    <3>2. last \in RowsOf(elems[i], loc[i]) /\ last \in Nat
      BY <3>1 DEF RowsOf
    <3>3. HeldRow(clip.held, elems[i], loc[i], pre[i], last)
      BY <1>4, <3>2, ClipRow
    <3>4. PICK m \in 1 .. Len(clip.held) : clip.held[m] = last
      BY <3>3 DEF HeldRow
    <3>5. PICK h \in H : last \in RowsOf(h.shape, h.at)
      BY <1>1, <3>2, <3>4 DEF HeldBy
    <3>6. h.at.row + h.shape.rows <= NumRegisters /\ h.at.row \in Nat /\ h.shape.rows \in 1 .. 2
      BY <1>1, ShapeType DEF HeldBy, Within, Item, Place
    <3>7. last < NumRegisters
      BY <1>2, <3>2, <3>5, <3>6 DEF RowsOf
    <3> QED  BY <1>2, <3>1, <3>7
  <2>3. loc[i].col + elems[i].cols <= 4
    <3>1. loc[i].col = pre[i].col
      <4>1. loc[i].row \in RowsOf(elems[i], loc[i])
        BY <1>2, ShapeType DEF RowsOf, Place
      <4> QED  BY <1>4, <4>1, ClipRow
    <3>2. i \in ClipsOf(elems) /\ pre[i] # None /\ 2 \in Nat
      BY <1>1, <1>2, <1>4
    <3>3. pre[i].col + elems[i].cols <= 4
      BY <1>1, <3>2, ItemsLegal
    <3> QED  BY <3>1, <3>3
  <2> QED  BY <2>1, <2>2, <2>3 DEF Inside
<1>5. CASE elems[i].kind # "clip"
  <2>1. /\ loc[i].row + elems[i].rows <= NumRegisters /\ loc[i].col + elems[i].cols <= 4
        /\ \A j \in OthersOf(elems) \ {i} : loc[j] # None => Compatible(elems[i], loc[i], elems[j], loc[j])
    BY <1>1, <1>2, <1>5, ItemsLegal
  <2>2. ASSUME NEW j \in Mine \ {i} PROVE Legal(i, j)
    <3>1. CASE elems[j].kind = "clip"
      BY <1>3, <1>5, <3>1 DEF Legal, Compatible
    <3>2. CASE elems[j].kind # "clip"
      <4>1. j \in OthersOf(elems) \ {i} /\ loc[j] # None
        BY <3>2 DEF Mine, OthersOf
      <4> QED  BY <2>1, <4>1 DEF Legal
    <3> QED  BY <3>1, <3>2
  <2> QED  BY <2>1, <2>2 DEF Inside
<1> QED  BY <1>4, <1>5

-----------------------------------------------------------------------------
(* What the runs check.                                                     *)
SignatureInv == PackerInv /\ JudgeInv

\* The invariant: what the registers hold under each strategy, and what the
\* validator's registers hold.
THEOREM SignatureInvariant == Spec => []SignatureInv
<1>1. Init => SignatureInv
  BY PackerInit, JudgeInit DEF SignatureInv
<1>2. SignatureInv /\ [Next]_vars => SignatureInv'
  BY PackerNext, JudgeNext DEF SignatureInv
<1> QED  BY <1>1, <1>2, PTL DEF Spec

\* At most two rows are held.
LEMMA HeldLength ==
  ASSUME PackerInv PROVE clip.held \in Seq(Nat) /\ Len(clip.held) \in Nat /\ Len(clip.held) <= 2
<1>1. CASE strategy = "prefix"
  <2>1. PICK H, pre : PrefixHolds(H, pre)
    BY <1>1 DEF PackerInv
  <2>2. clip.held \in Seq(Nat) /\ Len(clip.held) <= 2
    BY <2>1 DEF PrefixHolds, PrefixIs
  <2> QED  BY <2>2
<1>2. CASE strategy # "prefix"
  <2>1. clip.held = <<>>
    BY <1>2 DEF PackerInv, Staged, NoClip
  <2> QED  BY <2>1
<1> QED  BY <1>1, <1>2

\* Type correctness.
LEMMA SignatureTypes ==
  ASSUME SignatureInv PROVE TypeOK
<1>1. Typed /\ Len(clip.held) <= 2
  BY HeldLength DEF SignatureInv, PackerInv
<1>2. elems \in Seq(Element)
  <2>1. Shape \subseteq Element
    BY DEF Shape
  <2> QED  BY <1>1, <2>1 DEF Typed
<1>3. judge.next \in 1 .. Len(elems) + 1
  BY DEF SignatureInv, JudgeInv, JudgeHolds, JudgeIs
<1> QED  BY <1>1, <1>2, <1>3 DEF TypeOK, Typed

\* ValidateSignature refuses an element exactly if it conflicts with one it
\* has accepted, whatever the elements, their places and their order.
THEOREM ValidatorIsExact == Spec => []ValidatorExact
<1>1. SignatureInv => ValidatorExact
  <2> SUFFICES ASSUME SignatureInv, NEW i \in judge.placed \cup judge.refused
               PROVE  i \in judge.placed <=> CompatibleWith({j \in judge.placed : j < i}, elems[i], loc[i])
    BY DEF ValidatorExact
  <2>1. Exact(elems, loc, judge.placed, judge.refused)
    BY DEF SignatureInv, JudgeInv, JudgeHolds, JudgeIs
  <2> QED  BY <2>1 DEF Exact, CompatibleWith
<1> QED  BY <1>1, SignatureInvariant, PTL

\* No two packed elements in each other's way.
LEMMA TogetherLegal ==
  ASSUME SignatureInv, Together PROVE PackedLegal
<1>1. Typed /\ Staged /\ Located = Mine
  BY LocatedIs DEF SignatureInv, PackerInv
<1>2. ASSUME Packer, NEW i \in Mine PROVE Inside(elems[i], loc[i]) /\ \A j \in Mine \ {i} : Legal(i, j)
  <2>1. CASE strategy = "prefix"
    <3>1. PICK H, pre : PrefixHolds(H, pre)
      BY <2>1 DEF SignatureInv, PackerInv
    <3> QED  BY <1>1, <3>1, PrefixLegal
  <2>2. CASE strategy = "optimized"
    BY <1>1, <2>2, OptimizedLegal DEF SignatureInv, PackerInv
  <2> QED  BY <1>1, <1>2, <2>1, <2>2 DEF Packer, Staged
<1>3. TypeOK
  BY SignatureTypes
<1> QED  BY <1>1, <1>2, <1>3 DEF PackedLegal, CompatibleWith, Legal

\* Two numbers at most.
LEMMA AtMostTwo ==
  ASSUME NEW a, NEW b, NEW S, S \subseteq {a, b} PROVE Cardinality(S) <= 2
<1>1. IsFiniteSet({a}) /\ Cardinality({a}) = 1
  BY FS_Singleton
<1>2. IsFiniteSet({a} \cup {b}) /\ Cardinality({a} \cup {b}) \in {1, 2}
  BY <1>1, FS_AddElement
<1>3. {a, b} = {a} \cup {b}
  OBVIOUS
<1>4. IsFiniteSet({a, b}) /\ Cardinality({a, b}) <= 2 /\ Cardinality({a, b}) \in Nat
  BY <1>2, <1>3
<1>5. Cardinality(S) <= Cardinality({a, b}) /\ Cardinality(S) \in Nat
  BY <1>4, FS_Subset, FS_CardinalityType
<1> QED  BY <1>4, <1>5

\* Two rows for clip and cull distances.
LEMMA TogetherTwoRows ==
  ASSUME SignatureInv, Together PROVE ClipTwoRows
<1>0. /\ Typed /\ Staged /\ Located = Mine /\ Clips = {i \in Mine : elems[i].kind = "clip"}
  BY LocatedIs DEF SignatureInv, PackerInv
<1>1. ASSUME strategy = "optimized" PROVE Cardinality(AllRows(Clips)) <= 2
  <2>1. PICK r1, r2 \in Nat : ClipsWithin(r1, r2)
    BY <1>1 DEF SignatureInv, PackerInv, OptimizedHolds
  <2>2. \A i \in Clips : RowsOf(elems[i], loc[i]) \subseteq {r1, r2}
    BY <1>0, <2>1 DEF ClipsWithin, ClipsOf, Mine
  <2>3. AllRows(Clips) \subseteq {r1, r2}
    BY <2>2 DEF AllRows
  <2> QED  BY <2>3, AtMostTwo
<1>2. ASSUME strategy = "prefix"
      PROVE  /\ Cardinality(AllRows(Clips)) <= 2
             /\ AllRows(Clips) \subseteq ToSet(clip.held)
             /\ AllRows(Located \ Clips) \cap ToSet(clip.held) = {}
  <2>1. PICK H, pre : PrefixHolds(H, pre)
    BY <1>2 DEF SignatureInv, PackerInv
  <2>2. clip.held \in Seq(Nat) /\ Len(clip.held) <= 2 /\ Len(clip.held) \in Nat
    BY <2>1 DEF PrefixHolds, PrefixIs
  <2>3. ToSet(clip.held) = {clip.held[k] : k \in 1 .. Len(clip.held)}
    BY <2>2 DEF ToSet
  <2>4. ASSUME NEW i \in Clips, NEW r \in RowsOf(elems[i], loc[i]) PROVE r \in ToSet(clip.held)
    <3>1. HeldRow(clip.held, elems[i], loc[i], pre[i], r)
      BY <1>0, <2>1, ClipRow
    <3> QED  BY <2>3, <3>1 DEF HeldRow
  <2>5. AllRows(Clips) \subseteq ToSet(clip.held)
    BY <2>4 DEF AllRows
  <2>6. ASSUME NEW i \in Located \ Clips, NEW r \in RowsOf(elems[i], loc[i]) PROVE r \notin ToSet(clip.held)
    BY <1>0, <2>1, <2>3, OtherRows
  <2>7. AllRows(Located \ Clips) \cap ToSet(clip.held) = {}
    BY <2>6 DEF AllRows
  <2>8. ToSet(clip.held) \subseteq {clip.held[1], clip.held[2]}
    <3>1. \A k \in 1 .. Len(clip.held) : k = 1 \/ k = 2
      BY <2>2
    <3> QED  BY <2>3, <3>1
  <2>9. Cardinality(AllRows(Clips)) <= 2
    BY <2>5, <2>8, AtMostTwo
  <2> QED  BY <2>5, <2>7, <2>9
<1> QED  BY <1>0, <1>1, <1>2 DEF ClipTwoRows, Packer, Staged

\* Whatever the code does with the second row of the clip and cull distances:
\* as long as that row is behind the first one, or only elements of one row use
\* them, no packed element is in another's way, and the clip and cull distances
\* have two rows of their own.  PackOptimized always gets there.
THEOREM LegalWhileTogether == Spec => [](Together => PackedLegal /\ ClipTwoRows)
<1>1. SignatureInv => (Together => PackedLegal /\ ClipTwoRows)
  BY TogetherLegal, TogetherTwoRows
<1> QED  BY <1>1, SignatureInvariant, PTL

\* The rows held are together unless the code lets them be apart.
LEMMA TogetherUnlessApart ==
  ASSUME SignatureInv, ~AllowApart PROVE Together
<1>1. CASE strategy = "prefix"
  <2>1. PICK H, pre : PrefixHolds(H, pre)
    BY <1>1 DEF SignatureInv, PackerInv
  <2>2. ~AllowApart /\ clip.indexed /\ Len(clip.held) = 2 => Adjacent(clip.held)
    BY <2>1 DEF PrefixHolds, PrefixIs
  <2> QED  BY <2>2 DEF Together
<1>2. CASE strategy # "prefix"
  <2>1. clip = NoClip
    BY <1>2 DEF SignatureInv, PackerInv, Staged
  <2>2. Len(clip.held) = 0
    BY <2>1 DEF NoClip
  <2> QED  BY <2>2 DEF Together
<1> QED  BY <1>1, <1>2

\* Where a second row apart from the first is not accepted, this is the rule.
THEOREM PackedIsLegal == ASSUME ~AllowApart PROVE Spec => []PackedLegal
<1>1. SignatureInv => PackedLegal
  BY TogetherUnlessApart, TogetherLegal
<1> QED  BY <1>1, SignatureInvariant, PTL

\* And so is this.
THEOREM ClipsInTwoRows == ASSUME ~AllowApart PROVE Spec => []ClipTwoRows
<1>1. SignatureInv => ClipTwoRows
  BY TogetherUnlessApart, TogetherTwoRows
<1> QED  BY <1>1, SignatureInvariant, PTL

-----------------------------------------------------------------------------
(* The trial of PackOptimized, and the packing it predicts.                 *)

\* The rows r and r + 1 of rs.
Pair(rs, r) == [k \in 0 .. 1 |-> rs[r + k]]
Down(p, r) == [row |-> r + p.row, col |-> p.col]

\* A pair of rows, taken out, accepts what it accepts in its place.
LEMMA PairTakes ==
  ASSUME NEW rs, NEW n \in Nat, NEW r \in Nat, r + 2 <= n, NEW e \in Shape, NEW p \in Place, p.row + e.rows <= 2
  PROVE  Taken(Pair(rs, r), 2, e, p) <=> Taken(rs, n, e, Down(p, r))
<1> DEFINE q == Down(p, r)
<1>1. PICK a \in Nat, m \in 1 .. 2 : a = p.row /\ m = e.rows
  BY ShapeType DEF Place
<1>2. q.row = r + a /\ q.col = p.col
  BY <1>1 DEF Down
<1> HIDE DEF q
<1>3. \A x \in RowsOf(e, p) : /\ r + x \in RowsOf(e, q) /\ (r + x) - q.row = x - p.row
                              /\ Pair(rs, r)[x] = rs[r + x]
  <2>1. ASSUME NEW x \in a .. a + m - 1 PROVE r + x \in r + a .. r + a + m - 1 /\ (r + x) - (r + a) = x - a /\ x \in 0 .. 1
    BY <1>1
  <2> QED  BY <1>1, <1>2, <2>1 DEF RowsOf, Pair
<1>4. \A y \in RowsOf(e, q) : \E x \in RowsOf(e, p) : y = r + x
  <2>1. ASSUME NEW y \in r + a .. r + a + m - 1 PROVE y - r \in a .. a + m - 1 /\ y = r + (y - r)
    BY <1>1
  <2> QED  BY <1>1, <1>2, <2>1 DEF RowsOf
<1>5. Span(q.col, e) = Span(p.col, e)
  BY <1>2
<1>6. p.row + e.rows <= 2 /\ q.row + e.rows <= n
  BY <1>1, <1>2
<1>7. (\A x \in RowsOf(e, p) : ~Clashes(Pair(rs, r)[x], e, x - p.row) /\ \A c \in Span(p.col, e) : Open(Pair(rs, r)[x], e, c))
        <=> (\A y \in RowsOf(e, q) : ~Clashes(rs[y], e, y - q.row) /\ \A c \in Span(q.col, e) : Open(rs[y], e, c))
  BY <1>3, <1>4, <1>5
<1>8. p.col + e.cols <= 4 <=> q.col + e.cols <= 4
  BY <1>2
<1>9. Taken(Pair(rs, r), 2, e, p) <=> Taken(rs, n, e, q)
  BY <1>6, <1>7, <1>8 DEF Taken
<1> QED  BY <1>9 DEF q

\* What is asked of a pair is what is asked of its rows.
LEMMA PairAsked ==
  ASSUME NEW r \in Nat, NEW e \in Shape, NEW p \in Place
  PROVE  /\ Asked(e, p, 0, 2, 0) <=> Asked(e, Down(p, r), r, 2, 0)
         /\ Asked(e, p, 0, 2, 0) => p.row + e.rows <= 2
         /\ Down(p, r) \in Place
<1>1. PICK a \in Nat, c \in Nat, m \in 1 .. 2, w \in 1 .. 4 : a = p.row /\ c = p.col /\ m = e.rows /\ w = e.cols
  BY ShapeType DEF Place
<1>2. Down(p, r).row = r + a /\ Down(p, r).col = c /\ Down(p, r) \in Place
  BY <1>1 DEF Down, Place
<1>3. (a \in 0 .. 0 + 2 - m <=> r + a \in r .. r + 2 - m) /\ (a \in 0 .. 0 + 2 - m => a + m <= 2)
  OBVIOUS
<1> QED  BY <1>1, <1>2, <1>3 DEF Asked

\* A place among those asked for is one of the pair.
LEMMA PairPlace ==
  ASSUME NEW r \in Nat, NEW e \in Shape, NEW q \in Place, Asked(e, q, r, 2, 0)
  PROVE  \E p \in Place : q = Down(p, r)
<1>1. PICK b \in Nat, c \in Nat, m \in 1 .. 2 : b = q.row /\ c = q.col /\ m = e.rows /\ q = [row |-> b, col |-> c]
  BY ShapeType DEF Place
<1>2. b >= r
  BY <1>1 DEF Asked
<1> DEFINE p == [row |-> b - r, col |-> c]
<1>3. p \in Place /\ q = Down(p, r)
  BY <1>1, <1>2 DEF Place, Down
<1> QED  BY <1>3

\* FindNext finds the same in the pair.
LEMMA PairFind ==
  ASSUME NEW rs, NEW n \in Nat, DOMAIN rs = 0 .. n - 1, NEW r \in Nat, r + 2 <= n, NEW e \in Shape
  PROVE  LET at == FindNext(Pair(rs, r), e, 0, 2, 0)
             bt == FindNext(rs, e, r, 2, 0)
         IN  /\ at = None <=> bt = None
             /\ at # None => at \in Place /\ bt = Down(at, r) /\ at.row + e.rows <= 2
<1> DEFINE at == FindNext(Pair(rs, r), e, 0, 2, 0)
           bt == FindNext(rs, e, r, 2, 0)
<1>0. DOMAIN Pair(rs, r) = 0 .. 2 - 1 /\ 2 \in Nat /\ 0 \in Nat
  BY DEF Pair
<1>1. /\ at = None => \A p \in Place : Asked(e, p, 0, 2, 0) => ~Taken(Pair(rs, r), 2, e, p)
      /\ at # None =>
           /\ at \in Place /\ Taken(Pair(rs, r), 2, e, at) /\ Asked(e, at, 0, 2, 0)
           /\ \A p \in Place : Asked(e, p, 0, 2, 0) /\ Taken(Pair(rs, r), 2, e, p) =>
                at.row < p.row \/ (at.row = p.row /\ at.col <= p.col)
  BY <1>0, FindNextFirst
<1>2. /\ bt = None => \A q \in Place : Asked(e, q, r, 2, 0) => ~Taken(rs, n, e, q)
      /\ bt # None =>
           /\ bt \in Place /\ Taken(rs, n, e, bt) /\ Asked(e, bt, r, 2, 0)
           /\ \A q \in Place : Asked(e, q, r, 2, 0) /\ Taken(rs, n, e, q) =>
                bt.row < q.row \/ (bt.row = q.row /\ bt.col <= q.col)
  BY <1>0, FindNextFirst
<1> HIDE DEF at, bt
<1>3. \A p \in Place : /\ Asked(e, p, 0, 2, 0) /\ Taken(Pair(rs, r), 2, e, p)
                            <=> Asked(e, Down(p, r), r, 2, 0) /\ Taken(rs, n, e, Down(p, r))
                       /\ Down(p, r) \in Place
  BY PairTakes, PairAsked
<1>4. at = None <=> bt = None
  <2>1. at # None => bt # None
    BY <1>1, <1>2, <1>3
  <2>2. ASSUME bt # None PROVE at # None
    <3>1. PICK p \in Place : bt = Down(p, r)
      BY <1>2, <2>2, PairPlace
    <3> QED  BY <1>1, <1>2, <1>3, <2>2, <3>1
  <2> QED  BY <2>1, <2>2
<1>5. ASSUME at # None PROVE bt = Down(at, r) /\ at.row + e.rows <= 2
  <2>1. bt # None /\ at \in Place /\ bt \in Place
    BY <1>1, <1>2, <1>4, <1>5
  <2>2. PICK p \in Place : bt = Down(p, r)
    BY <1>2, <2>1, PairPlace
  <2>3. Asked(e, p, 0, 2, 0) /\ Taken(Pair(rs, r), 2, e, p)
    BY <1>2, <1>3, <2>1, <2>2
  <2>4. Asked(e, Down(at, r), r, 2, 0) /\ Taken(rs, n, e, Down(at, r)) /\ Down(at, r) \in Place
    BY <1>1, <1>3, <1>5, <2>1
  <2>5. at.row < p.row \/ (at.row = p.row /\ at.col <= p.col)
    BY <1>1, <1>5, <2>3
  <2>6. bt.row < Down(at, r).row \/ (bt.row = Down(at, r).row /\ bt.col <= Down(at, r).col)
    BY <1>2, <2>1, <2>4
  <2>7. bt.row = r + p.row /\ bt.col = p.col /\ Down(at, r).row = r + at.row /\ Down(at, r).col = at.col
    BY <2>2 DEF Down
  <2>8. PICK a \in Nat, c \in Nat, a2 \in Nat, c2 \in Nat : a = at.row /\ c = at.col /\ a2 = p.row /\ c2 = p.col
    BY <2>1 DEF Place
  <2>9. (a < a2 \/ (a = a2 /\ c <= c2)) /\ (r + a2 < r + a \/ (r + a2 = r + a /\ c2 <= c))
    BY <2>5, <2>6, <2>7, <2>8
  <2>10. a = a2 /\ c = c2
    BY ONLY <2>9, r \in Nat, a \in Nat, a2 \in Nat, c \in Nat, c2 \in Nat
  <2>11. bt = Down(at, r)
    BY <2>2, <2>8, <2>10 DEF Down
  <2> QED  BY <1>1, <1>5, <2>1, <2>11, PairAsked
<1> QED  BY <1>1, <1>4, <1>5 DEF at, bt

\* Placing keeps the pair a pair of the registers.
LEMMA PairPlaced ==
  ASSUME NEW rs, NEW n \in Nat, DOMAIN rs = 0 .. n - 1, NEW r \in Nat, r + 2 <= n, NEW e \in Shape,
         NEW p \in Place
  PROVE  Pair(PlaceElement(rs, e, Down(p, r)), r) = PlaceElement(Pair(rs, r), e, p)
<1>1. PICK a \in Nat, m \in 1 .. 2 : a = p.row /\ m = e.rows
  BY ShapeType DEF Place
<1>2. Down(p, r).row = r + a /\ Down(p, r).col = p.col
  BY <1>1 DEF Down
<1>3. ASSUME NEW k \in 0 .. 1
      PROVE  PlaceElement(rs, e, Down(p, r))[r + k] = PlaceElement(Pair(rs, r), e, p)[k]
  <2>1. r + k \in 0 .. n - 1 /\ k \in DOMAIN Pair(rs, r)
    BY DEF Pair
  <2>2. Pair(rs, r)[k] = rs[r + k]
    BY DEF Pair
  <2>3. (r + k \in r + a .. r + a + m - 1 <=> k \in a .. a + m - 1) /\ (r + k) - (r + a) = k - a
    BY ONLY r \in Nat, a \in Nat, m \in 1 .. 2, k \in 0 .. 1
  <2>4. PlaceElement(rs, e, Down(p, r))[r + k] =
          IF r + k \in r + a .. r + a + m - 1 THEN Occupy(rs[r + k], e, (r + k) - (r + a), p.col) ELSE rs[r + k]
    BY <1>1, <1>2, <2>1 DEF PlaceElement
  <2>5. PlaceElement(Pair(rs, r), e, p)[k] =
          IF k \in a .. a + m - 1 THEN Occupy(rs[r + k], e, k - a, p.col) ELSE rs[r + k]
    BY <1>1, <2>1, <2>2 DEF PlaceElement
  <2> QED  BY <2>3, <2>4, <2>5
<1>4. DOMAIN PlaceElement(Pair(rs, r), e, p) = 0 .. 1
  BY DEF PlaceElement, Pair
<1>5. PlaceElement(Pair(rs, r), e, p) = [k \in 0 .. 1 |-> PlaceElement(Pair(rs, r), e, p)[k]]
  BY <1>4 DEF PlaceElement
<1> QED  BY <1>3, <1>5 DEF Pair

\* The trial u is where the allocator t is, but for its rows.
Alike(t, u, r) ==
  /\ DOMAIN t.regs = 0 .. NumRegisters - 1 /\ u.regs = Pair(t.regs, r)
  /\ DOMAIN t.loc = DOMAIN elems /\ DOMAIN u.loc = DOMAIN elems
  /\ \A i \in DOMAIN elems : t.loc[i] = None <=> u.loc[i] = None

\* One element finds a place in both or in neither.
LEMMA PackOneAlike ==
  ASSUME elems \in Seq(Shape), NEW r \in Nat, r + 2 <= NumRegisters, NEW t, NEW u, Alike(t, u, r),
         NEW i \in DOMAIN elems
  PROVE  Alike(PackOne(t, i, r, 2, 0), PackOne(u, i, 0, 2, 0), r)
<1> DEFINE e == elems[i]
           at == FindNext(Pair(t.regs, r), e, 0, 2, 0)
           bt == FindNext(t.regs, e, r, 2, 0)
           t2 == PackOne(t, i, r, 2, 0)
           u2 == PackOne(u, i, 0, 2, 0)
<1>0. /\ NumRegisters \in Nat /\ e \in Shape /\ DOMAIN t.regs = 0 .. NumRegisters - 1 /\ None \notin Place
      /\ u.regs = Pair(t.regs, r)
  BY SignatureAssumption DEF Alike
<1>1. (at = None <=> bt = None) /\ (at # None => at \in Place /\ bt = Down(at, r))
  BY <1>0, PairFind
<1>2. /\ t2.regs = PlaceAt(t.regs, e, bt) /\ t2.loc = [t.loc EXCEPT ![i] = bt]
      /\ u2.regs = PlaceAt(Pair(t.regs, r), e, at) /\ u2.loc = [u.loc EXCEPT ![i] = at]
  BY <1>0 DEF PackOne, PackAt
<1> HIDE DEF at, bt, t2, u2, e
<1>3. /\ DOMAIN t2.regs = 0 .. NumRegisters - 1
      /\ u2.regs = Pair(t2.regs, r)
  <2>1. CASE at = None
    BY <1>0, <1>1, <1>2, <2>1 DEF PlaceAt
  <2>2. CASE at # None
    <3>1. /\ t2.regs = PlaceElement(t.regs, e, Down(at, r)) /\ at \in Place
          /\ u2.regs = PlaceElement(Pair(t.regs, r), e, at)
      BY <1>1, <1>2, <2>2 DEF PlaceAt
    <3>2. Pair(PlaceElement(t.regs, e, Down(at, r)), r) = PlaceElement(Pair(t.regs, r), e, at)
      BY <1>0, <3>1, PairPlaced
    <3>3. DOMAIN PlaceElement(t.regs, e, Down(at, r)) = 0 .. NumRegisters - 1
      BY <1>0 DEF PlaceElement
    <3> QED  BY <3>1, <3>2, <3>3
  <2> QED  BY <2>1, <2>2
<1>4. /\ DOMAIN t2.loc = DOMAIN elems /\ DOMAIN u2.loc = DOMAIN elems
      /\ \A j \in DOMAIN elems : t2.loc[j] = None <=> u2.loc[j] = None
  BY <1>1, <1>2 DEF Alike
<1>5. Alike(t2, u2, r)
  BY <1>3, <1>4 DEF Alike
<1> QED  BY <1>5 DEF t2, u2

\* So in the end the same elements have places.
LEMMA PackGreedyAlike ==
  ASSUME elems \in Seq(Shape), NEW r \in Nat, r + 2 <= NumRegisters, NEW t, NEW u, Alike(t, u, r),
         NEW ids \in Seq(DOMAIN elems)
  PROVE  Alike(PackGreedy(t, ids, r, 2, 0), PackGreedy(u, ids, 0, 2, 0), r)
<1> DEFINE m == Len(ids)
<1>1. m \in Nat /\ \A k \in 1 .. m : ids[k] \in DOMAIN elems
  OBVIOUS
<1>2. PICK f : PackedIn(f, m, t, ids, r, 2, 0) /\ PackGreedy(t, ids, r, 2, 0) = f[m]
  BY <1>1, PackGreedyRuns
<1>3. PICK g : PackedIn(g, m, u, ids, 0, 2, 0) /\ PackGreedy(u, ids, 0, 2, 0) = g[m]
  BY <1>1, PackGreedyRuns
<1> HIDE DEF m
<1> DEFINE T == {k \in Nat : k <= m => Alike(f[k], g[k], r)}
<1>4. 0 \in T
  BY <1>2, <1>3 DEF PackedIn
<1>5. ASSUME NEW k \in Nat, k \in T PROVE k + 1 \in T
  <2>1. SUFFICES ASSUME k + 1 <= m PROVE Alike(f[k + 1], g[k + 1], r)
    OBVIOUS
  <2>2. k <= m /\ k + 1 \in 1 .. m /\ (k + 1) - 1 = k
    BY ONLY <1>1, <2>1, k \in Nat
  <2>3. Alike(f[k], g[k], r)
    BY <1>5, <2>2
  <2>4. ids[k + 1] \in DOMAIN elems
    BY <1>1, <2>2
  <2>5. f[k + 1] = PackOne(f[k], ids[k + 1], r, 2, 0)
    <3>1. f[k + 1] = PackOne(f[(k + 1) - 1], ids[k + 1], r, 2, 0)
      BY ONLY <1>2, <2>2 DEF PackedIn
    <3> QED  BY ONLY <2>2, <3>1
  <2>6. g[k + 1] = PackOne(g[k], ids[k + 1], 0, 2, 0)
    <3>1. g[k + 1] = PackOne(g[(k + 1) - 1], ids[k + 1], 0, 2, 0)
      BY ONLY <1>3, <2>2 DEF PackedIn
    <3> QED  BY ONLY <2>2, <3>1
  <2>7. Alike(PackOne(f[k], ids[k + 1], r, 2, 0), PackOne(g[k], ids[k + 1], 0, 2, 0), r)
    BY <2>3, <2>4, PackOneAlike
  <2> QED  BY ONLY <2>5, <2>6, <2>7
<1> HIDE DEF T
<1>6. m \in T
  BY <1>1, <1>4, <1>5, EveryNatural
<1>7. Alike(f[m], g[m], r)
  BY <1>1, <1>6 DEF T
<1> QED  BY ONLY <1>2, <1>3, <1>7

\* The invariant: what the trial found stays so.
ClipsPlaced(es, ls) == \A i \in ClipsOf(es) : ls[i] # None
\* The search for the pair cannot pass the last register.
WithinReach == ~AllowWildRead \/ start = 0
Foretold ==
  predicted => /\ strategy = "optimized" /\ phase \in {"sgv", "packed", "validate", "done"}
               /\ WithinReach => ClipsPlaced(elems, loc)

\* The pair chosen lies inside, and takes every clip/cull element.
LEMMA PairChosen ==
  ASSUME WithinReach, Typed, OptimizedHolds, phase = "clip", PackPairOfRows, predicted' # predicted
  PROVE  predicted' = TRUE /\ ClipsPlaced(elems, loc')
<1>0. NumRegisters \in Nat /\ elems \in Seq(Shape) /\ start \in Nat /\ start \in 0 .. NumRegisters
  BY SignatureAssumption DEF Typed
<1>1. PICK wild, pairs :
        /\ pairs = {row \in start .. start + NumRegisters - 2 : TakesClip(RowPair(row, wild))}
        /\ start = 0 \/ \E row \in pairs : row + 1 < NumRegisters
        /\ pairs # {} /\ predicted' = TRUE
        /\ loc' = PackGreedy(Here, Group("clip"), Min(pairs), 2, 0).loc
  BY DEF PackPairOfRows, WithinReach
<1>2. PICK r \in Nat : r \in pairs /\ r = Min(pairs) /\ \A k \in pairs : r <= k
  <2>1. pairs \in SUBSET Nat
    BY <1>0, <1>1
  <2>2. \E m \in pairs : \A k \in pairs : m <= k
    BY <1>1, <2>1, NatMin
  <2> QED  BY <2>1, <2>2 DEF Min
<1>3. r + 2 <= NumRegisters
  <2>1. CASE start = 0
    <3>1. r \in 0 .. 0 + NumRegisters - 2
      BY <1>1, <1>2, <2>1
    <3> QED  BY <1>0, <3>1
  <2>2. ASSUME NEW row \in pairs, row + 1 < NumRegisters PROVE r + 2 <= NumRegisters
    <3>1. r <= row /\ row \in Int
      BY <1>0, <1>1, <1>2
    <3> QED  BY <1>0, <2>2, <3>1
  <2> QED  BY <1>1, <2>1, <2>2
<1>4. RowPair(r, wild) = Pair(regs, r)
  <2>1. \A k \in 0 .. 1 : r + k < NumRegisters
    BY <1>0, <1>3
  <2> QED  BY <2>1 DEF RowPair, Pair
<1> DEFINE trial == [regs |-> Pair(regs, r), loc |-> loc, used |-> 0]
           u == PackGreedy(trial, Group("clip"), 0, 2, 0)
           t == PackGreedy(Here, Group("clip"), r, 2, 0)
<1>5. \A i \in DOMAIN elems : InGroup(elems[i], "clip") => u.loc[i] # None
  <2>1. TakesClip(Pair(regs, r))
    BY <1>1, <1>2, <1>4
  <2> QED  BY <2>1 DEF TakesClip
<1>6. Alike(Here, trial, r)
  <2>1. Here.loc = loc /\ Here.regs = regs /\ trial.regs = Pair(regs, r) /\ trial.loc = loc
    BY DEF Here
  <2>2. DOMAIN regs = 0 .. NumRegisters - 1 /\ DOMAIN loc = DOMAIN elems
    BY DEF Typed
  <2> HIDE DEF trial
  <2> QED  BY <2>1, <2>2 DEF Alike
<1>7. Group("clip") \in Seq(DOMAIN elems)
  <2>1. GroupSet("clip") \in SUBSET DOMAIN elems
    BY DEF GroupSet
  <2>2. Group("clip") \in Seq(GroupSet("clip"))
    BY <1>0, <2>1, SortedResult DEF Group
  <2> QED  BY <2>1, <2>2
<1>8. Alike(t, u, r)
  <2> HIDE DEF trial
  <2> QED  BY <1>0, <1>3, <1>6, <1>7, PackGreedyAlike
<1>9. loc' = t.loc
  BY <1>1, <1>2
<1> HIDE DEF t, u
<1>10. \A i \in ClipsOf(elems) : i \in DOMAIN elems /\ InGroup(elems[i], "clip")
  BY DEF ClipsOf, InGroup
<1>11. \A i \in ClipsOf(elems) : t.loc[i] # None
  BY <1>5, <1>8, <1>10 DEF Alike
<1> QED  BY <1>1, <1>9, <1>11 DEF ClipsPlaced

-----------------------------------------------------------------------------
(* A place, once given, is final.                                           *)

Kept(es, ls, es2, ls2) ==
  /\ DOMAIN es \subseteq DOMAIN es2
  /\ \A i \in DOMAIN es : es2[i] = es[i] /\ (ls[i] # None => ls2[i] = ls[i])
\* The rows held stay held.
HeldKept(held, held2) == \A k \in 1 .. Len(held) : k \in 1 .. Len(held2) /\ held2[k] = held[k]

\* Appending keeps.
LEMMA AppendKeeps ==
  ASSUME NEW e \in Shape, NEW at \in Place \cup {None}, Typed, elems' = Append(elems, e), loc' = Append(loc, at)
  PROVE  Kept(elems, loc, elems', loc') /\ Longer(elems, elems', e, loc, loc', at)
<1>1. Longer(elems, elems', e, loc, loc', at)
  BY AppendLonger DEF Typed
<1> QED  BY <1>1 DEF Longer, Kept

\* The rows searched, and the rows held after one more placeholder.
LEMMA MoreRowsHeld ==
  ASSUME NEW held \in Seq(Nat), NEW r \in Nat, NEW n \in 1 .. 2
  PROVE  HeldKept(held, held \o [i \in 1 .. n |-> r + i - 1])
<1>1. [i \in 1 .. n |-> r + i - 1] \in Seq(Nat)
  OBVIOUS
<1>2. PICK x \in Seq(Nat) : x = [i \in 1 .. n |-> r + i - 1]
  BY <1>1
<1>3. HeldKept(held, held \o x)
  BY DEF HeldKept
<1> QED  BY <1>2, <1>3

\* An iteration for a clip/cull element appends one, and perhaps rows held.
LEMMA ClipAppends ==
  ASSUME PackerInv, strategy = "prefix", NEW e \in Shape, e.kind = "clip", PackClip(e)
  PROVE  (\E at : loc' = Append(loc, at)) /\ HeldKept(clip.held, clip'.held)
<1>1. PICK H, pre : PrefixHolds(H, pre)
  BY DEF PackerInv
<1>2. /\ clip.held \in Seq(Nat) /\ NumRegisters \in Nat /\ DOMAIN regs = 0 .. NumRegisters - 1
      /\ clip = [regs |-> clip.regs, held |-> clip.held, indexed |-> clip.indexed]
  BY <1>1, SignatureAssumption DEF PrefixHolds, PrefixIs, PackerInv, Typed
<1>3. HeldKept(clip.held, clip.held)
  BY DEF HeldKept
<1> DEFINE b == clip.indexed \/ e.rows > 1
           f == Holder(e, b)
<1>4. PICK at, place :
        LET heldAfter == clip.held \o [i \in 1 .. f.rows |-> place.row + i - 1] IN
        /\ place = FindNext(regs, f, HolderRows(b)[1], HolderRows(b)[2], 0)
        /\ \/ FailElement /\ clip' = clip
           \/ FailElement /\ clip' = [clip EXCEPT !.indexed = b]
           \/ PlaceClip(e, at, clip.held, b)
           \/ place # None /\ PlaceClip(e, at, heldAfter, b)
  BY DEF PackClip
<1>5. f \in Shape /\ HolderRows(b)[1] \in Nat /\ HolderRows(b)[2] \in Nat
  BY <1>1, HolderShape, HolderRowsType
<1> HIDE DEF b, f
<1>6. CASE FailElement /\ clip'.held = clip.held
  BY <1>3, <1>6 DEF FailElement
<1>7. FailElement /\ (clip' = clip \/ clip' = [clip EXCEPT !.indexed = b]) => clip'.held = clip.held
  BY <1>2
<1>8. CASE PlaceClip(e, at, clip.held, b)
  BY <1>3, <1>8 DEF PlaceClip
<1>9. CASE place # None /\ PlaceClip(e, at, clip.held \o [i \in 1 .. f.rows |-> place.row + i - 1], b)
  <2>1. place \in Place
    BY <1>2, <1>4, <1>5, <1>9, FindNextResult
  <2>2. place.row \in Nat /\ f.rows \in 1 .. 2
    BY <1>5, <2>1, ShapeType DEF Place
  <2>3. HeldKept(clip.held, clip.held \o [i \in 1 .. f.rows |-> place.row + i - 1])
    BY <1>2, <2>2, MoreRowsHeld
  <2> QED  BY <1>9, <2>3 DEF PlaceClip
<1> QED  BY <1>4, <1>6, <1>7, <1>8, <1>9

\* An iteration of PackPrefixStable appends an element and perhaps rows held.
LEMMA PrefixAppends ==
  ASSUME PackerInv, NEW e \in Shapes, PackPrefixStable(e)
  PROVE  /\ elems' = Append(elems, e) /\ e \in Shape
         /\ \E at : loc' = Append(loc, at)
         /\ HeldKept(clip.held, clip'.held)
<1>0. strategy = "prefix" /\ elems' = Append(elems, e) /\ e \in Shape
  BY DeclaredShapes DEF PackPrefixStable, Declares, Declared
<1>1. CASE e.kind = "clip" /\ PackClip(e)
  BY <1>0, <1>1, ClipAppends
<1>2. CASE PackNext(e, 3) \/ PackNext(e, 0)
  BY <1>0, <1>2 DEF PackNext, HeldKept
<1> QED  BY <1>1, <1>2 DEF PackPrefixStable

\* No step takes back or moves a place, or a row held.
LEMMA StepKeeps ==
  ASSUME PackerInv, [Next]_vars
  PROVE  Kept(elems, loc, elems', loc') /\ HeldKept(clip.held, clip'.held) /\ strategy' = strategy
<1>0. Typed /\ Staged /\ PackerInv' /\ Typed'
  BY PackerNext DEF PackerInv
<1>1. HeldKept(clip.held, clip.held)
  BY DEF HeldKept
<1>2. ASSUME NEW e \in Shape, NEW at, elems' = Append(elems, e), loc' = Append(loc, at)
      PROVE  Kept(elems, loc, elems', loc')
  <2>1. /\ loc \in Seq(Place \cup {None}) /\ Len(loc) = Len(elems) /\ elems \in Seq(Shape)
        /\ loc' \in Seq(Place \cup {None}) /\ Len(loc') = Len(elems')
    BY <1>0 DEF Typed
  <2>2. loc'[Len(loc')] = at /\ Len(loc') = Len(loc) + 1 /\ Len(loc) \in Nat
    BY <1>2, <2>1
  <2>3. at \in Place \cup {None}
    BY <2>1, <2>2
  <2> QED  BY <1>0, <1>2, <2>3, AppendKeeps
<1>3. ASSUME NEW e \in Shapes, PackPrefixStable(e) PROVE Kept(elems, loc, elems', loc') /\ HeldKept(clip.held, clip'.held)
  BY <1>2, <1>3, PrefixAppends
<1>4. ASSUME NEW e \in Shapes, Declare(e) PROVE Kept(elems, loc, elems', loc')
  <2>1. e \in Shape
    BY DeclaredShapes DEF Declared
  <2> QED  BY <1>2, <1>4, <2>1 DEF Declare, Declares
<1>5. CASE PackGroup \/ PackClipCull
  <2>1. phase \in Groups /\ UNCHANGED <<strategy, clip, elems>> /\ elems \in Seq(Shape)
    BY <1>0, <1>5 DEF PackGroup, PackClipCull, Groups, Typed
  <2>2. OptimizedHolds
    BY <1>0, <2>1, OnlyOptimized DEF PackerInv
  <2>3. \A i \in GroupSet(phase) : loc[i] = None
    BY <1>0, <2>1, <2>2, GroupIsReady DEF GroupReady
  <2>4. \A i \in DOMAIN elems \ GroupSet(phase) : loc'[i] = loc[i]
    <3>1. CASE PackGroup
      BY <1>0, <2>2, <3>1, PackGroupMoves DEF GroupMoved
    <3>2. CASE PackClipCull
      <4>1. phase = "clip"
        BY <3>2 DEF PackClipCull
      <4> QED  BY <1>0, <2>2, <3>2, <4>1, PackClipCullMoves DEF ClipCullMoved, ClipsMoved
    <3> QED  BY <1>5, <3>1, <3>2
  <2>5. Kept(elems, loc, elems', loc')
    BY <2>1, <2>3, <2>4 DEF Kept
  <2> QED  BY <1>1, <2>1, <2>5
<1>6. ASSUME NEW f \in Foreign, ValidateForeign(f.shape, f.at) PROVE Kept(elems, loc, elems', loc')
  <2>1. f.shape \in Shape
    BY DeclaredShapes DEF Declared
  <2> QED  BY <1>2, <1>6, <2>1 DEF ValidateForeign
<1>7. UNCHANGED <<elems, loc>> => Kept(elems, loc, elems', loc')
  BY DEF Kept
<1>8. CASE BeginOptimized \/ BeginValidate \/ ValidateElement \/ UNCHANGED vars
  BY <1>1, <1>7, <1>8 DEF BeginOptimized, BeginValidate, ValidateElement, vars
<1>9. CASE \E e \in Shapes : PackPrefixStable(e)
  BY <1>3, <1>9 DEF PackPrefixStable
<1>10. CASE \E e \in Shapes : Declare(e)
  BY <1>1, <1>4, <1>10 DEF Declare
<1>11. CASE \E f \in Foreign : ValidateForeign(f.shape, f.at)
  BY <1>1, <1>6, <1>11 DEF ValidateForeign
<1> QED  BY <1>5, <1>8, <1>9, <1>10, <1>11 DEF Next

\* A place, once given, is final, and so is a row held: neither the packers nor
\* the validator ever move or drop an element.
THEOREM PlacesAreFinal ==
  Spec => [][Kept(elems, loc, elems', loc') /\ HeldKept(clip.held, clip'.held)]_vars
<1>1. PackerInv /\ [Next]_vars => [Kept(elems, loc, elems', loc') /\ HeldKept(clip.held, clip'.held)]_vars
  BY StepKeeps
<1> QED  BY <1>1, PackerInvariant, PTL DEF Spec

-----------------------------------------------------------------------------
(* What the trial found.                                                    *)

\* The first steps have found nothing, and what is found stays so.
LEMMA ForetoldNext ==
  ASSUME PackerInv, Foretold, [Next]_vars PROVE Foretold'
<1>0. Typed /\ Staged /\ Kept(elems, loc, elems', loc') /\ strategy' = strategy
  BY StepKeeps DEF PackerInv
<1>1. SUFFICES ASSUME predicted'
               PROVE  /\ strategy = "optimized" /\ phase' \in {"sgv", "packed", "validate", "done"}
                      /\ start' = start
                      /\ WithinReach => ClipsPlaced(elems', loc')
  BY <1>0 DEF Foretold, WithinReach
<1>2. CASE predicted # predicted'
  <2>1. PackClipCull /\ PackPairOfRows
    BY <1>2 DEF Next, vars, PackPrefixStable, Declare, BeginOptimized, PackGroup, PackClipCull, PackTwoRows,
                BeginValidate, ValidateElement, ValidateForeign
  <2>2. phase = "clip" /\ phase' = "sgv" /\ UNCHANGED <<elems, start>>
    BY <2>1 DEF PackClipCull
  <2>3. phase \in Groups
    BY <2>2 DEF Groups
  <2>4. strategy = "optimized" /\ OptimizedHolds
    BY <1>0, <2>3, OnlyOptimized DEF PackerInv
  <2>5. WithinReach => ClipsPlaced(elems, loc')
    BY <1>0, <1>2, <2>1, <2>2, <2>4, PairChosen
  <2> QED  BY <2>2, <2>4, <2>5
<1>3. CASE predicted = predicted'
  <2>1. /\ strategy = "optimized" /\ phase \in {"sgv", "packed", "validate", "done"}
        /\ WithinReach => ClipsPlaced(elems, loc)
    BY <1>1, <1>3 DEF Foretold
  <2>2. phase' \in {"sgv", "packed", "validate", "done"} /\ UNCHANGED <<elems, start>>
    BY <2>1 DEF Next, vars, PackPrefixStable, Declares, Declare, BeginOptimized, PackGroup, PhaseAfter, PackClipCull,
                BeginValidate, ValidateElement, ValidateForeign
  <2>3. ClipsPlaced(elems, loc) => ClipsPlaced(elems', loc')
    BY <1>0, <2>2 DEF ClipsPlaced, ClipsOf, Kept
  <2> QED  BY <2>1, <2>2, <2>3
<1> QED  BY <1>2, <1>3

\* What is foretold is so in every state.
LEMMA ForetoldInvariant == Spec => []Foretold
<1>1. Init => Foretold
  BY DEF Init, Foretold
<1>2. PackerInv /\ Foretold /\ [Next]_vars => Foretold'
  BY ForetoldNext
<1> QED  BY <1>1, <1>2, PackerInvariant, PTL DEF Spec

\* The assertion of PackOptimized: what the trial in two spare registers finds
\* for a pair of rows is what happens there.  It holds if startRow has not moved
\* (no element of four columns was packed in front), whatever the memory past the registers.
THEOREM PredictionInside == Spec => [](start = 0 => PredictionHolds)
<1>1. Foretold => (start = 0 => PredictionHolds)
  BY DEF Foretold, WithinReach, ClipsPlaced, ClipsOf, PredictionHolds
<1> QED  BY <1>1, ForetoldInvariant, PTL

\* It holds of every signature if the search for the pair never takes a pair
\* that is not inside the registers.
THEOREM PredictionIsKept == ASSUME ~AllowWildRead PROVE Spec => []PredictionHolds
<1>1. Foretold => PredictionHolds
  BY DEF Foretold, WithinReach, ClipsPlaced, ClipsOf, PredictionHolds
<1> QED  BY <1>1, ForetoldInvariant, PTL

-----------------------------------------------------------------------------
(* What a search did not find.                                              *)

\* An element of S with a place is in the way of e at p.
Meets(es, ls, S, e, p) == \E j \in S : ls[j] # None /\ ~Compatible(e, p, es[j], ls[j])

\* A place that is not taken meets an element that is held.
LEMMA NotTakenMeets ==
  ASSUME NEW n \in Nat, NEW S \in SUBSET DOMAIN elems, NEW t, Good(t, n, S), NEW e \in Shape, NEW p \in Place,
         p.row + e.rows <= n, p.col + e.cols <= 4
  PROVE  Taken(t.regs, n, e, p) <=> ~Meets(elems, t.loc, S, e, p)
<1>1. Holds(t.regs, n, ItemsOf(t.loc, S))
  BY DEF Good
<1>2. Taken(t.regs, n, e, p) <=> \A x \in ItemsOf(t.loc, S) : Compatible(e, p, x.shape, x.at)
  BY <1>1, TakenExactly
<1>3. (\A x \in ItemsOf(t.loc, S) : Compatible(e, p, x.shape, x.at))
        <=> \A j \in S : t.loc[j] # None => Compatible(e, p, elems[j], t.loc[j])
  <2> DEFINE It(j) == [id |-> j, shape |-> elems[j], at |-> t.loc[j]]
  <2>1. ItemsOf(t.loc, S) = {It(j) : j \in {k \in S : t.loc[k] # None}}
    BY DEF ItemsOf
  <2>2. \A j : It(j).shape = elems[j] /\ It(j).at = t.loc[j]
    OBVIOUS
  <2> HIDE DEF It
  <2> QED  BY <2>1, <2>2
<1> QED  BY <1>2, <1>3 DEF Meets

\* No place in the rows asked for is left to e.
Shut(t, n, S, e, startRow, startCol) ==
  \A p \in Place : /\ p.row >= startRow /\ p.row + e.rows <= n
                   /\ p.col >= startCol /\ p.col + e.cols <= 4
                   => Meets(elems, t.loc, S, e, p)

\* An element that PackNext leaves out.
LEMMA PackOneShut ==
  ASSUME elems \in Seq(Shape), NEW n \in Nat, NEW S \in SUBSET DOMAIN elems, NEW i \in S,
         NEW t, Good(t, n, S), NEW startRow \in Nat, NEW numRows \in Nat, n <= startRow + numRows, NEW startCol \in Nat,
         PackOne(t, i, startRow, numRows, startCol).loc[i] = None
  PROVE  Shut(t, n, S, elems[i], startRow, startCol)
<1> DEFINE e == elems[i]
           at == FindNext(t.regs, e, startRow, numRows, startCol)
<1>1. e \in Shape /\ DOMAIN t.regs = 0 .. n - 1 /\ t.loc \in [DOMAIN elems -> Place \cup {None}]
  BY DEF Good, Holds
<1>2. at = None
  BY <1>1 DEF PackOne, PackAt
<1>3. \A p \in Place : Asked(e, p, startRow, numRows, startCol) => ~Taken(t.regs, n, e, p)
  BY <1>1, <1>2, FindNextResult
<1> SUFFICES ASSUME NEW p \in Place, p.row >= startRow, p.row + e.rows <= n, p.col >= startCol, p.col + e.cols <= 4
             PROVE  Meets(elems, t.loc, S, e, p)
  BY DEF Shut
<1> HIDE DEF e
<1>4. PICK a \in Nat, c \in Nat, m \in 1 .. 2, w \in 1 .. 4 : a = p.row /\ c = p.col /\ m = e.rows /\ w = e.cols
  BY <1>1, ShapeType DEF Place
<1>5. a \in startRow .. startRow + numRows - m /\ c \in startCol .. 4 - w
  <2>1. a >= startRow /\ a + m <= n /\ c >= startCol /\ c + w <= 4
    BY <1>4
  <2> QED  BY ONLY <2>1, n <= startRow + numRows, a \in Nat, c \in Nat, m \in 1 .. 2, w \in 1 .. 4, n \in Nat,
              startRow \in Nat, numRows \in Nat, startCol \in Nat
<1>6. Asked(e, p, startRow, numRows, startCol)
  BY <1>4, <1>5 DEF Asked
<1> QED  BY <1>1, <1>3, <1>6, NotTakenMeets

\* What is in the way stays in the way.
LEMMA MeetsKept ==
  ASSUME NEW S, NEW t, NEW u, \A j \in S : t.loc[j] # None => u.loc[j] = t.loc[j],
         NEW n, NEW e, NEW startRow, NEW startCol, Shut(t, n, S, e, startRow, startCol)
  PROVE  Shut(u, n, S, e, startRow, startCol)
BY DEF Shut, Meets

\* Every element that PackGreedy leaves out.
LEMMA PackGreedyShut ==
  ASSUME elems \in Seq(Shape), NEW n \in Nat, NEW S \in SUBSET DOMAIN elems, NEW D \in SUBSET S,
         NEW ids \in Seq(D), Distinct(ids), NEW s, Good(s, n, S), \A i \in D : s.loc[i] = None,
         NEW startRow \in Nat, NEW numRows \in Nat, n <= startRow + numRows, NEW startCol \in Nat
  PROVE  LET t == PackGreedy(s, ids, startRow, numRows, startCol) IN
         \A k \in DOMAIN ids : t.loc[ids[k]] = None => Shut(t, n, S, elems[ids[k]], startRow, startCol)
<1> DEFINE m == Len(ids)
<1>1. m \in Nat /\ DOMAIN ids = 1 .. m /\ \A k \in 1 .. m : ids[k] \in D
  OBVIOUS
<1>2. PICK f : /\ PackedIn(f, Len(ids), s, ids, startRow, numRows, startCol)
               /\ PackGreedy(s, ids, startRow, numRows, startCol) = f[m]
  BY <1>1, PackGreedyRuns
<1>3. StatesGood(f, ids, n, S, s, D, startRow, startRow + numRows - 1)
  BY ONLY <1>2, PackGreedyStates, elems \in Seq(Shape), n \in Nat, S \in SUBSET DOMAIN elems, D \in SUBSET S,
     ids \in Seq(D), Distinct(ids), Good(s, n, S), \A i \in D : s.loc[i] = None,
     startRow \in Nat, numRows \in Nat, startCol \in Nat
<1>4. PackedIn(f, m, s, ids, startRow, numRows, startCol)
  BY <1>2
<1>5. \A k \in 0 .. m : Good(f[k], n, S) /\ \A j \in k + 1 .. m : f[k].loc[ids[j]] = None
  BY <1>3 DEF StatesGood
<1> HIDE DEF m
<1> DEFINE T == {k \in Nat : k <= m => \A j \in 1 .. k : f[k].loc[ids[j]] = None
                                          => Shut(f[k], n, S, elems[ids[j]], startRow, startCol)}
<1>6. 0 \in T
  OBVIOUS
<1>7. ASSUME NEW k \in Nat, k \in T PROVE k + 1 \in T
  <2>1. SUFFICES ASSUME k + 1 <= m, NEW j \in 1 .. k + 1, f[k + 1].loc[ids[j]] = None
                 PROVE  Shut(f[k + 1], n, S, elems[ids[j]], startRow, startCol)
    OBVIOUS
  <2>2. /\ k <= m /\ k \in 0 .. m /\ k + 1 \in 0 .. m /\ k + 1 \in 1 .. m /\ (k + 1) - 1 = k /\ k + 1 \in k + 1 .. m
        /\ j \in 1 .. m /\ (j = k + 1 \/ j \in 1 .. k)
    BY ONLY <1>1, <2>1, k \in Nat, j \in 1 .. k + 1
  <2>3. Good(f[k], n, S) /\ f[k].loc[ids[k + 1]] = None
    BY ONLY <1>5, <2>2
  <2> DEFINE i == ids[k + 1]
             u == PackOne(f[k], i, startRow, numRows, startCol)
  <2>4. f[k + 1] = u
    <3>1. f[k + 1] = PackOne(f[(k + 1) - 1], ids[k + 1], startRow, numRows, startCol)
      BY ONLY <1>4, <2>2 DEF PackedIn
    <3> QED  BY ONLY <2>2, <3>1
  <2>5. i \in D /\ i \in S /\ ids[j] \in S
    BY <1>1, <2>2
  <2> HIDE DEF i
  <2>6. \A x \in DOMAIN elems \ {i} : u.loc[x] = f[k].loc[x]
    <3>1. f[k].loc[i] = None
      BY <2>3 DEF i
    <3>2. PICK t : t = f[k]
      OBVIOUS
    <3>3. Good(t, n, S) /\ t.loc[i] = None
      BY <2>3, <3>1, <3>2
    <3> DEFINE v == PackOne(t, i, startRow, numRows, startCol)
    <3>4. /\ Good(v, n, S)
          /\ \A x \in DOMAIN elems \ {i} : v.loc[x] = t.loc[x]
          /\ v.loc[i] # None => RowsOf(elems[i], v.loc[i]) \subseteq startRow .. startRow + numRows - 1
      BY ONLY <2>5, <3>3, PackOneGood, elems \in Seq(Shape), n \in Nat, S \in SUBSET DOMAIN elems,
              startRow \in Nat, numRows \in Nat, startCol \in Nat
    <3> HIDE DEF v
    <3> QED  BY <3>2, <3>4 DEF u, v
  <2> HIDE DEF u
  <2>7. \A x \in S : f[k].loc[x] # None => f[k + 1].loc[x] = f[k].loc[x]
    <3>1. f[k].loc[i] = None
      BY <2>3 DEF i
    <3> QED  BY <2>4, <2>6, <3>1
  <2>8. CASE j = k + 1
    <3>1. PackOne(f[k], i, startRow, numRows, startCol).loc[i] = None /\ ids[j] = i
      BY <2>1, <2>4, <2>8 DEF i, u
    <3>2. Shut(f[k], n, S, elems[i], startRow, startCol)
      BY <2>3, <2>5, <3>1, PackOneShut
    <3>3. Shut(f[k + 1], n, S, elems[i], startRow, startCol)
      BY ONLY <2>7, <3>2, MeetsKept
    <3> QED  BY <3>1, <3>3
  <2>9. CASE j \in 1 .. k
    <3>1. f[k].loc[ids[j]] = None
      <4>1. SUFFICES ASSUME f[k].loc[ids[j]] # None PROVE FALSE
        OBVIOUS
      <4>2. f[k + 1].loc[ids[j]] = f[k].loc[ids[j]]
        BY <2>5, <2>7, <4>1
      <4> QED  BY <2>1, <4>1, <4>2
    <3>2. Shut(f[k], n, S, elems[ids[j]], startRow, startCol)
      BY <1>7, <2>2, <2>9, <3>1
    <3> QED  BY ONLY <2>7, <3>2, MeetsKept
  <2> QED  BY <2>2, <2>8, <2>9
<1> HIDE DEF T
<1>8. m \in T
  BY <1>1, <1>6, <1>7, EveryNatural
<1>9. \A j \in 1 .. m : f[m].loc[ids[j]] = None => Shut(f[m], n, S, elems[ids[j]], startRow, startCol)
  BY <1>1, <1>8 DEF T
<1> QED  BY <1>1, <1>2, <1>9

-----------------------------------------------------------------------------
(* Elements of four columns are packed without a gap.                       *)

\* Row r is full: an element of S of four columns lies on it.
FullRow(es, ls, S, r) == \E j \in S : ls[j] # None /\ r \in RowsOf(es[j], ls[j]) /\ es[j].cols = 4
\* The elements of S fill the rows below n, and no other.
Stacked(t, S) ==
  /\ \A r \in 0 .. t.used - 1 : FullRow(elems, t.loc, S, r)
  /\ \A j \in S : t.loc[j] # None => t.loc[j].row + elems[j].rows <= t.used

\* Nothing lies beside an element of four columns.
LEMMA FullRowMeets ==
  ASSUME elems \in Seq(Shape), NEW n \in Nat, NEW S \in SUBSET DOMAIN elems, NEW t, Good(t, n, S),
         NEW e \in Shape, NEW p \in Place, p.col + e.cols <= 4, NEW r \in RowsOf(e, p), FullRow(elems, t.loc, S, r)
  PROVE  Meets(elems, t.loc, S, e, p)
<1>1. PICK j \in S : t.loc[j] # None /\ r \in RowsOf(elems[j], t.loc[j]) /\ elems[j].cols = 4
  BY DEF FullRow
<1>2. elems[j] \in Shape /\ t.loc[j] \in Place
  BY <1>1 DEF Good
<1>3. t.loc[j].col + elems[j].cols <= 4
  <2> DEFINE x == [id |-> j, shape |-> elems[j], at |-> t.loc[j]]
  <2>1. x \in ItemsOf(t.loc, S)
    BY <1>1 DEF ItemsOf
  <2>2. Within(x, n)
    BY <2>1 DEF Good, Holds
  <2> QED  BY <2>2 DEF Within
<1>4. ~Compatible(e, p, elems[j], t.loc[j])
  <2>1. SUFFICES ASSUME Compatible(e, p, elems[j], t.loc[j]) PROVE FALSE
    OBVIOUS
  <2>2. Compatible(elems[j], t.loc[j], e, p)
    BY <2>1, CompatibleSymmetric
  <2>3. RowsOf(elems[j], t.loc[j]) \cap RowsOf(e, p) = {}
    BY <1>1, <1>2, <1>3, <2>2, WholeRows
  <2> QED  BY <1>1, <2>3
<1> QED  BY <1>1, <1>4 DEF Meets

\* Above the rows used there is room.
LEMMA FreeRows ==
  ASSUME elems \in Seq(Shape), NEW n \in Nat, NEW S \in SUBSET DOMAIN elems, NEW t, Good(t, n, S), Stacked(t, S),
         NEW e \in Shape, t.used + e.rows <= n
  PROVE  Taken(t.regs, n, e, [row |-> t.used, col |-> 0])
<1> DEFINE p == [row |-> t.used, col |-> 0]
<1>1. t.used \in Nat /\ p \in Place /\ p.row = t.used /\ p.col = 0
  BY DEF Good, Place
<1>2. e.cols \in 1 .. 4 /\ e.rows \in 1 .. 2
  BY ShapeType
<1> HIDE DEF p
<1>3. ~Meets(elems, t.loc, S, e, p)
  <2>1. SUFFICES ASSUME NEW j \in S, t.loc[j] # None PROVE Compatible(e, p, elems[j], t.loc[j])
    BY DEF Meets
  <2>2. elems[j] \in Shape /\ t.loc[j] \in Place
    BY <2>1 DEF Good
  <2>3. PICK a \in Nat, m \in 1 .. 2, k \in 1 .. 2, u \in Nat : a = t.loc[j].row /\ m = elems[j].rows /\ k = e.rows /\ u = t.used
    BY <1>1, <1>2, <2>2, ShapeType DEF Place
  <2>4. a + m <= u
    BY <2>1, <2>3 DEF Stacked
  <2>5. (u .. u + k - 1) \cap (a .. a + m - 1) = {}
    BY ONLY <2>4, a \in Nat, m \in 1 .. 2, k \in 1 .. 2, u \in Nat
  <2>6. RowsOf(e, p) \cap RowsOf(elems[j], t.loc[j]) = {}
    BY <1>1, <2>3, <2>5 DEF RowsOf
  <2> QED  BY <2>6 DEF Compatible
<1>4. p.row + e.rows <= n /\ p.col + e.cols <= 4
  BY <1>1, <1>2
<1>5. Taken(t.regs, n, e, p)
  BY <1>1, <1>3, <1>4, NotTakenMeets
<1> QED  BY <1>5 DEF p

\* The next element of four columns goes right above.
LEMMA PackOneStacked ==
  ASSUME elems \in Seq(Shape), NEW n \in Nat, NEW S \in SUBSET DOMAIN elems, NEW i \in S,
         NEW t, Good(t, n, S), t.loc[i] = None, Stacked(t, S), elems[i].cols = 4
  PROVE  Stacked(PackOne(t, i, 0, n, 0), S)
<1> DEFINE e == elems[i]
           at == FindNext(t.regs, e, 0, n, 0)
           u == PackOne(t, i, 0, n, 0)
<1>0. /\ e \in Shape /\ i \in DOMAIN elems /\ e.cols = 4 /\ e.rows \in 1 .. 2 /\ t.used \in Nat
      /\ DOMAIN t.regs = 0 .. n - 1 /\ t.loc \in [DOMAIN elems -> Place \cup {None}] /\ 0 \in Nat
  BY ShapeType DEF Good, Holds
<1>1. /\ u.loc = [t.loc EXCEPT ![i] = at]
      /\ u.used = Larger(t.used, RowsAfter(e, at))
  BY DEF PackOne, PackAt
<1>2. at # None =>
        /\ at \in Place /\ Taken(t.regs, n, e, at) /\ Asked(e, at, 0, n, 0)
        /\ \A p \in Place : Asked(e, p, 0, n, 0) /\ Taken(t.regs, n, e, p) => at.row <= p.row
  BY <1>0, FindNextResult
<1> HIDE DEF at, u, e
<1>3. CASE at = None
  <2>1. u.loc = t.loc /\ u.used = t.used
    <3>1. Larger(t.used, 0) = t.used
      BY <1>0 DEF Larger
    <3> QED  BY <1>0, <1>1, <1>3, <3>1 DEF RowsAfter
  <2>2. Stacked(u, S)
    BY <2>1 DEF Stacked
  <2> QED  BY <2>2 DEF u
<1>4. CASE at # None
  <2>1. at \in Place /\ at.row + e.rows <= n /\ at.col + e.cols <= 4 /\ Taken(t.regs, n, e, at)
    BY <1>2, <1>4 DEF Taken
  <2>2. PICK a \in Nat, m \in 1 .. 2, b \in Nat : a = at.row /\ m = e.rows /\ b = t.used
    BY <1>0, <2>1 DEF Place
  <2>3. a \in RowsOf(e, at)
    BY <2>2 DEF RowsOf
  <2>4. a >= b
    <3>1. SUFFICES ASSUME a < b PROVE FALSE
      BY <2>2
    <3>2. a \in 0 .. t.used - 1
      BY <2>2, <3>1
    <3>3. FullRow(elems, t.loc, S, a)
      BY <3>2 DEF Stacked
    <3>4. Meets(elems, t.loc, S, e, at)
      BY <1>0, <2>1, <2>3, <3>3, FullRowMeets
    <3> QED  BY <1>0, <2>1, <3>4, NotTakenMeets
  <2>5. a <= b
    <3>1. b + m <= n
      BY <2>1, <2>2, <2>4
    <3> DEFINE p == [row |-> b, col |-> 0]
    <3>2. Taken(t.regs, n, e, p)
      BY <1>0, <2>2, <3>1, FreeRows
    <3>3. p \in Place /\ p.row = b /\ p.col = 0
      BY DEF Place
    <3> HIDE DEF p
    <3>4. b \in 0 .. 0 + n - m /\ 0 \in 0 .. 4 - 4
      BY ONLY <3>1, b \in Nat, n \in Nat, m \in 1 .. 2
    <3>5. Asked(e, p, 0, n, 0)
      BY <1>0, <2>2, <3>3, <3>4 DEF Asked
    <3> QED  BY <1>2, <1>4, <2>2, <3>2, <3>3, <3>5
  <2>6. a = b
    BY <2>4, <2>5
  <2>7. u.used = b + m
    <3>1. RowsAfter(e, at) = b + m
      BY <1>4, <2>2, <2>6 DEF RowsAfter
    <3>2. Larger(b, b + m) = b + m
      BY DEF Larger
    <3> QED  BY <1>1, <2>2, <3>1, <3>2
  <2>8. u.loc[i] = at /\ \A j \in S : t.loc[j] # None => u.loc[j] = t.loc[j]
    BY <1>0, <1>1
  <2>9. ASSUME NEW r \in 0 .. u.used - 1 PROVE FullRow(elems, u.loc, S, r)
    <3>1. CASE r \in 0 .. b - 1
      <4>1. FullRow(elems, t.loc, S, r)
        BY <2>2, <3>1 DEF Stacked
      <4> QED  BY <2>8, <4>1 DEF FullRow
    <3>2. CASE r \in b .. b + m - 1
      <4>1. r \in RowsOf(e, at)
        BY <2>2, <2>6, <3>2 DEF RowsOf
      <4>2. u.loc[i] # None /\ r \in RowsOf(elems[i], u.loc[i]) /\ elems[i].cols = 4
        BY <1>4, <2>8, <4>1 DEF e
      <4> QED  BY <4>2 DEF FullRow
    <3>3. r \in 0 .. b - 1 \/ r \in b .. b + m - 1
      BY <2>7
    <3> QED  BY <3>1, <3>2, <3>3
  <2>10. ASSUME NEW j \in S, u.loc[j] # None PROVE u.loc[j].row + elems[j].rows <= u.used
    <3>1. CASE j = i
      <4>1. u.loc[j] = at /\ elems[j] = e
        BY <2>8, <3>1 DEF e
      <4>2. at.row + e.rows = b + m
        BY <2>2, <2>6
      <4> QED  BY <2>7, <4>1, <4>2
    <3>2. CASE j # i
      <4>1. u.loc[j] = t.loc[j] /\ j \in DOMAIN elems
        BY <1>0, <1>1, <3>2
      <4>2. t.loc[j] # None /\ t.loc[j] \in Place /\ elems[j] \in Shape
        BY <1>0, <2>10, <4>1
      <4>3. PICK c \in Nat, k \in 1 .. 2 : c = t.loc[j].row /\ k = elems[j].rows
        BY <4>2, ShapeType DEF Place
      <4>4. c + k <= b
        BY <2>2, <4>2, <4>3 DEF Stacked
      <4>5. c + k <= b + m
        BY ONLY <4>4, c \in Nat, k \in 1 .. 2, b \in Nat, m \in 1 .. 2
      <4> QED  BY <2>7, <4>1, <4>3, <4>5
    <3> QED  BY <3>1, <3>2
  <2>11. Stacked(u, S)
    BY <2>9, <2>10 DEF Stacked
  <2> QED  BY <2>11 DEF u
<1> QED  BY <1>3, <1>4

\* So PackGreedy leaves the rows used full.
LEMMA PackGreedyStacked ==
  ASSUME elems \in Seq(Shape), NEW n \in Nat, NEW S \in SUBSET DOMAIN elems, NEW D \in SUBSET S,
         NEW ids \in Seq(D), Distinct(ids), NEW s, Good(s, n, S), \A i \in D : s.loc[i] = None /\ elems[i].cols = 4,
         Stacked(s, S)
  PROVE  Stacked(PackGreedy(s, ids, 0, n, 0), S)
<1> DEFINE m == Len(ids)
<1>1. m \in Nat /\ (\A k \in 1 .. m : ids[k] \in D) /\ 0 \in Nat /\ \A i \in D : s.loc[i] = None
  OBVIOUS
<1>2. PICK f : PackedIn(f, Len(ids), s, ids, 0, n, 0) /\ PackGreedy(s, ids, 0, n, 0) = f[m]
  BY <1>1, PackGreedyRuns
<1>3. StatesGood(f, ids, n, S, s, D, 0, 0 + n - 1)
  BY ONLY <1>1, <1>2, PackGreedyStates, elems \in Seq(Shape), n \in Nat, S \in SUBSET DOMAIN elems, D \in SUBSET S,
     ids \in Seq(D), Distinct(ids), Good(s, n, S)
<1>4. PackedIn(f, m, s, ids, 0, n, 0)
  BY <1>2
<1>5. \A k \in 0 .. m : Good(f[k], n, S) /\ \A j \in k + 1 .. m : f[k].loc[ids[j]] = None
  BY <1>3 DEF StatesGood
<1> HIDE DEF m
<1> DEFINE T == {k \in Nat : k <= m => Stacked(f[k], S)}
<1>6. 0 \in T
  BY <1>4 DEF PackedIn
<1>7. ASSUME NEW k \in Nat, k \in T PROVE k + 1 \in T
  <2>1. SUFFICES ASSUME k + 1 <= m PROVE Stacked(f[k + 1], S)
    OBVIOUS
  <2>2. k <= m /\ k \in 0 .. m /\ k + 1 \in 1 .. m /\ (k + 1) - 1 = k /\ k + 1 \in k + 1 .. m
    BY ONLY <1>1, <2>1, k \in Nat
  <2>3. Good(f[k], n, S) /\ f[k].loc[ids[k + 1]] = None
    BY ONLY <1>5, <2>2
  <2>4. f[k + 1] = PackOne(f[k], ids[k + 1], 0, n, 0)
    <3>1. f[k + 1] = PackOne(f[(k + 1) - 1], ids[k + 1], 0, n, 0)
      BY ONLY <1>4, <2>2 DEF PackedIn
    <3> QED  BY ONLY <2>2, <3>1
  <2>5. ids[k + 1] \in S /\ elems[ids[k + 1]].cols = 4 /\ Stacked(f[k], S)
    BY <1>1, <1>7, <2>2
  <2>6. Stacked(PackOne(f[k], ids[k + 1], 0, n, 0), S)
    BY <2>3, <2>5, PackOneStacked
  <2> QED  BY <2>4, <2>6
<1> HIDE DEF T
<1>8. m \in T
  BY <1>1, <1>6, <1>7, EveryNatural
<1>9. Stacked(f[m], S)
  BY <1>1, <1>8 DEF T
<1> QED  BY ONLY <1>2, <1>9

\* Sorting drops no element.
LEMMA SortedEvery ==
  ASSUME elems \in Seq(Shape), NEW S \in SUBSET DOMAIN elems, NEW i \in S
  PROVE  \E k \in DOMAIN Sorted(S) : Sorted(S)[k] = i
<1> DEFINE n == Cardinality(S)
           s == Sorted(S)
<1>1. IsFiniteSet(S)
  <2>1. DOMAIN elems = 1 .. Len(elems) /\ Len(elems) \in Nat
    OBVIOUS
  <2>2. IsFiniteSet(DOMAIN elems)
    BY <2>1, FS_Interval
  <2> QED  BY <2>2, FS_Subset
<1>2. n \in Nat
  BY <1>1, FS_CardinalityType
<1>3. s \in [1 .. n -> S] /\ \A j, k \in DOMAIN s : j # k => s[j] # s[k]
  BY SortedResult
<1>4. IsFiniteSet(S \ {i}) /\ Cardinality(S \ {i}) = n - 1
  BY <1>1, FS_RemoveElement
<1>5. IsFiniteSet(1 .. n) /\ Cardinality(1 .. n) = n
  BY <1>2, FS_Interval
<1> HIDE DEF n, s
<1>6. SUFFICES ASSUME \A k \in 1 .. n : s[k] # i PROVE FALSE
  BY <1>3 DEF s
<1>7. s \in [1 .. n -> S \ {i}]
  BY <1>3, <1>6
<1>8. Cardinality(S \ {i}) < Cardinality(1 .. n)
  BY <1>2, <1>4, <1>5
<1>9. \E j, k \in 1 .. n : j # k /\ s[j] = s[k]
  <2> DEFINE A == 1 .. n
             B == S \ {i}
  <2>1. IsFiniteSet(A) /\ IsFiniteSet(B) /\ Cardinality(B) < Cardinality(A) /\ s \in [A -> B]
    BY <1>4, <1>5, <1>7, <1>8
  <2> HIDE DEF A, B
  <2>2. \E j, k \in A : j # k /\ s[j] = s[k]
    BY ONLY <2>1, FS_PigeonHole
  <2> QED  BY <2>2 DEF A
<1> QED  BY <1>3, <1>9

-----------------------------------------------------------------------------
(* Elements without a place.                                                *)

\* The elements placed in any column that takes them, and the groups of these.
Searched(e) == e.kind # "clip" /\ ~(e.kind = "tess" /\ e.rows > 1)
SearchedGroups == {"vec4", "arb", "sv", "sgv"}
\* No place inside the registers is left to e.
HeldMeets(held, e, p) == \E k \in 1 .. Len(held) : held[k] \in RowsOf(e, p)
NoPlace(es, ls, held, e) ==
  \A p \in Place : Inside(e, p) => Meets(es, ls, DOMAIN es, e, p) \/ HeldMeets(held, e, p)

\* An element is left out only if there was no place for it, when its turn
\* came; under PackOptimized the rows below startRow are full.
PrefixFull(es, ls, held) ==
  \A i \in DOMAIN es : Searched(es[i]) /\ ls[i] = None => NoPlace(es, ls, held, es[i])
GroupFull(g) == \A i \in GroupSet(g) : loc[i] = None => NoPlace(elems, loc, <<>>, elems[i])
OptimizedFull ==
  /\ phase \in {"declare", "vec4"} => start = 0 /\ rowsUsed = 0
  /\ \A r \in 0 .. start - 1 : FullRow(elems, loc, DOMAIN elems, r)
  /\ \A g \in SearchedGroups : PhaseRank[g] < PhaseRank[phase] => GroupFull(g)
FullInv ==
  /\ strategy = "prefix" => PrefixFull(elems, loc, clip.held)
  /\ strategy = "optimized" => OptimizedFull

\* What has no place left will not find one later.
LEMMA NoPlaceKept ==
  ASSUME NEW es, NEW ls, NEW es2, NEW ls2, Kept(es, ls, es2, ls2),
         NEW held, NEW held2, HeldKept(held, held2), NEW e, NoPlace(es, ls, held, e)
  PROVE  NoPlace(es2, ls2, held2, e)
<1> SUFFICES ASSUME NEW p \in Place, Inside(e, p)
             PROVE  Meets(es2, ls2, DOMAIN es2, e, p) \/ HeldMeets(held2, e, p)
  BY DEF NoPlace
<1>1. Meets(es, ls, DOMAIN es, e, p) => Meets(es2, ls2, DOMAIN es2, e, p)
  BY DEF Meets, Kept
<1>2. HeldMeets(held, e, p) => HeldMeets(held2, e, p)
  BY DEF HeldMeets, HeldKept
<1> QED  BY <1>1, <1>2 DEF NoPlace

\* A full row stays full.
LEMMA FullRowKept ==
  ASSUME NEW es, NEW ls, NEW es2, NEW ls2, Kept(es, ls, es2, ls2), NEW r, FullRow(es, ls, DOMAIN es, r)
  PROVE  FullRow(es2, ls2, DOMAIN es2, r)
BY DEF FullRow, Kept

\* An element of PackPrefixStable that finds no place.
LEMMA PrefixLeftOut ==
  ASSUME Typed, NEW H, NEW pre, PrefixHolds(H, pre), NEW e \in Shape,
         elems' = Append(elems, e), PackNext(e, 0), loc'[Len(elems) + 1] = None, Searched(e)
  PROVE  NoPlace(elems', loc', clip.held, e)
<1>0. NumRegisters \in Nat /\ 0 \in Nat /\ None \notin Place /\ DOMAIN regs = 0 .. NumRegisters - 1
  BY SignatureAssumption DEF Typed
<1>1. PICK at : at = FindNext(regs, e, 0, NumRegisters, 0) /\ loc' = Append(loc, at)
  BY DEF PackNext
<1>2. /\ at = None => \A p \in Place : Asked(e, p, 0, NumRegisters, 0) => ~Taken(regs, NumRegisters, e, p)
      /\ at \in Place \cup {None}
  BY <1>0, <1>1, FindNextResult
<1>3. Longer(elems, elems', e, loc, loc', at)
  BY <1>1, <1>2, AppendLonger DEF Typed
<1>4. at = None
  BY <1>3 DEF Longer
<1> SUFFICES ASSUME NEW p \in Place, Inside(e, p), ~Meets(elems', loc', DOMAIN elems', e, p), ~HeldMeets(clip.held, e, p)
             PROVE  FALSE
  BY DEF NoPlace
<1> DEFINE X == Its(elems, loc, OthersOf(elems))
<1>5. Holds(regs, NumRegisters, X \cup H)
  BY DEF PrefixHolds, PrefixIs
<1>6. \A j \in DOMAIN elems : loc[j] # None => Compatible(e, p, elems[j], loc[j])
  <2>1. SUFFICES ASSUME NEW j \in DOMAIN elems, loc[j] # None PROVE Compatible(e, p, elems[j], loc[j])
    OBVIOUS
  <2>2. j \in DOMAIN elems' /\ elems'[j] = elems[j] /\ loc'[j] = loc[j]
    BY <1>3 DEF Longer
  <2> QED  BY <2>1, <2>2 DEF Meets
<1>7. \A x \in X : Compatible(e, p, x.shape, x.at)
  <2> DEFINE It(j) == [id |-> j, shape |-> elems[j], at |-> loc[j]]
  <2>1. X = {It(j) : j \in {k \in OthersOf(elems) : loc[k] # None}}
    BY DEF Its
  <2>2. (\A j : It(j).shape = elems[j] /\ It(j).at = loc[j]) /\ OthersOf(elems) \subseteq DOMAIN elems
    BY DEF OthersOf
  <2> HIDE DEF It, X
  <2> QED  BY <1>6, <2>1, <2>2
<1>8. \A h \in H : Compatible(e, p, h.shape, h.at)
  <2>1. SUFFICES ASSUME NEW h \in H, NEW r \in RowsOf(e, p) \cap RowsOf(h.shape, h.at) PROVE FALSE
    BY DEF Compatible
  <2>2. r \in Nat
    <3>1. p.row \in Nat /\ e.rows \in 1 .. 2
      BY ShapeType DEF Place
    <3> QED  BY <2>1, <3>1 DEF RowsOf
  <2>3. \E k \in 1 .. Len(clip.held) : clip.held[k] = r
    BY <2>1, <2>2 DEF PrefixHolds, PrefixIs
  <2> QED  BY <2>1, <2>3 DEF HeldMeets
<1> HIDE DEF X
<1>9. p.row + e.rows <= NumRegisters /\ p.col + e.cols <= 4
  BY DEF Inside
<1>10. Taken(regs, NumRegisters, e, p)
  <2>1. \A x \in X \cup H : Compatible(e, p, x.shape, x.at)
    BY <1>7, <1>8
  <2> QED  BY <1>0, <1>5, <1>9, <2>1, TakenExactly
<1>11. Asked(e, p, 0, NumRegisters, 0)
  <2>1. PICK a \in Nat, c \in Nat, m \in 1 .. 2, w \in 1 .. 4 : a = p.row /\ c = p.col /\ m = e.rows /\ w = e.cols
    BY ShapeType DEF Place
  <2>2. a + m <= NumRegisters /\ c + w <= 4
    BY <1>9, <2>1
  <2>3. a \in 0 .. 0 + NumRegisters - m /\ c \in 0 .. 4 - w
    <3>1. PICK n \in Nat : n = NumRegisters
      BY <1>0
    <3>2. a + m <= n /\ c + w <= 4
      BY <2>2, <3>1
    <3>3. a \in 0 .. 0 + n - m /\ c \in 0 .. 4 - w
      BY ONLY <3>2, n \in Nat, a \in Nat, c \in Nat, m \in 1 .. 2, w \in 1 .. 4
    <3> QED  BY <3>1, <3>3
  <2> QED  BY <2>1, <2>3 DEF Asked
<1> QED  BY <1>2, <1>4, <1>10, <1>11

\* The steps under the prefix-stable strategy.
LEMMA PrefixFullNext ==
  ASSUME PackerInv, strategy = "prefix", PrefixFull(elems, loc, clip.held), [Next]_vars
  PROVE  PrefixFull(elems', loc', clip'.held)
<1>0. Typed /\ Staged /\ Kept(elems, loc, elems', loc') /\ HeldKept(clip.held, clip'.held)
  BY StepKeeps DEF PackerInv
<1>1. ASSUME NEW i \in DOMAIN elems, Searched(elems'[i]), loc'[i] = None PROVE NoPlace(elems', loc', clip'.held, elems'[i])
  <2>1. elems'[i] = elems[i] /\ loc[i] = None
    BY <1>0, <1>1 DEF Kept
  <2>2. NoPlace(elems, loc, clip.held, elems[i])
    BY <1>1, <2>1 DEF PrefixFull
  <2>3. NoPlace(elems', loc', clip'.held, elems[i])
    BY ONLY <1>0, <2>2, NoPlaceKept
  <2> QED  BY <2>1, <2>3
<1>2. CASE elems' = elems
  BY <1>1, <1>2 DEF PrefixFull
<1>3. ASSUME NEW e \in Shapes, PackPrefixStable(e) PROVE PrefixFull(elems', loc', clip'.held)
  <2>1. elems' = Append(elems, e) /\ e \in Shape
    BY <1>3, PrefixAppends
  <2>2. DOMAIN elems' = DOMAIN elems \cup {Len(elems) + 1} /\ elems'[Len(elems) + 1] = e
    BY <1>0, <2>1 DEF Typed
  <2>3. ASSUME Searched(e), loc'[Len(elems) + 1] = None PROVE NoPlace(elems', loc', clip'.held, e)
    <3>1. PackNext(e, 0)
      BY <1>3, <2>3 DEF PackPrefixStable, Searched
    <3>2. PICK H, pre : PrefixHolds(H, pre)
      BY DEF PackerInv
    <3>3. NoPlace(elems', loc', clip.held, e)
      BY ONLY <1>0, <2>1, <2>3, <3>1, <3>2, PrefixLeftOut
    <3> QED  BY <3>1, <3>3 DEF PackNext
  <2> QED  BY <1>1, <2>2, <2>3 DEF PrefixFull
<1>4. elems' = elems \/ \E e \in Shapes : PackPrefixStable(e)
  BY DEF Next, vars, Declare, BeginOptimized, PackGroup, PackClipCull, BeginValidate, ValidateElement, ValidateForeign
<1> QED  BY <1>2, <1>3, <1>4

-----------------------------------------------------------------------------
(* What PackOptimized leaves out.                                           *)

\* Every element is in a group, and PackOptimized searches all columns for the
\* groups of the elements it may place anywhere.
LEMMA EveryGroup ==
  ASSUME NEW e \in Shape
  PROVE  /\ \E g \in Groups : InGroup(e, g)
         /\ Searched(e) => \E g \in SearchedGroups : InGroup(e, g)
<1>1. /\ InGroup(e, "vec4") <=> e.kind \in {"arb", "sv"} /\ e.cols = 4
      /\ InGroup(e, "tess") <=> e.kind = "tess" /\ e.rows > 1
      /\ InGroup(e, "arb") <=> e.kind = "arb" /\ e.cols < 4
      /\ InGroup(e, "sv") <=> (e.kind = "sv" /\ e.cols < 4) \/ (e.kind = "tess" /\ e.rows = 1)
      /\ InGroup(e, "clip") <=> e.kind = "clip"
      /\ InGroup(e, "sgv") <=> e.kind = "sgv"
  BY DEF InGroup
<1>2. (e.cols = 4 \/ e.cols < 4) /\ (e.rows > 1 \/ e.rows = 1)
  BY ShapeType
<1>3. e.kind = "arb" \/ e.kind = "sv" \/ e.kind = "sgv" \/ e.kind = "tess" \/ e.kind = "clip"
  BY DEF Shape, Element, Kinds
<1>4. /\ Groups = {"vec4", "tess", "arb", "sv", "clip", "sgv"}
      /\ SearchedGroups = {"vec4", "arb", "sv", "sgv"}
      /\ Searched(e) <=> e.kind # "clip" /\ ~(e.kind = "tess" /\ e.rows > 1)
  BY DEF Groups, SearchedGroups, Searched
<1>5. CASE e.kind = "arb"
  BY <1>1, <1>2, <1>4, <1>5
<1>6. CASE e.kind = "sv"
  BY <1>1, <1>2, <1>4, <1>6
<1>7. CASE e.kind = "sgv"
  BY <1>1, <1>4, <1>7
<1>8. CASE e.kind = "tess"
  BY <1>1, <1>2, <1>4, <1>8
<1>9. CASE e.kind = "clip"
  BY <1>1, <1>4, <1>9
<1> QED  BY <1>3, <1>5, <1>6, <1>7, <1>8, <1>9

\* What a step that packs a searched group leaves out.
LEMMA GroupLeftOut ==
  ASSUME PackerInv, OptimizedHolds, OptimizedFull, PackGroup, phase \in SearchedGroups,
         NEW i \in GroupSet(phase), loc'[i] = None
  PROVE  NoPlace(elems, loc', <<>>, elems[i])
<1>0. /\ Typed /\ NumRegisters \in Nat /\ 0 \in Nat /\ elems \in Seq(Shape) /\ start \in Nat
      /\ NumRegisters <= start + NumRegisters /\ DOMAIN elems \in SUBSET DOMAIN elems
  BY SignatureAssumption DEF PackerInv, Typed
<1>1. phase \in Groups /\ elems' = elems /\ Kept(elems, loc, elems', loc') /\ StartCol(phase) = 0
  <2>1. Next
    BY DEF Next
  <2>2. Kept(elems, loc, elems', loc')
    BY <2>1, StepKeeps
  <2> QED  BY <2>2 DEF PackGroup, SearchedGroups, Groups, StartCol
<1>2. GroupReady(phase)
  BY <1>0, <1>1, GroupIsReady
<1>3. PICK t : GroupMoved(t)
  BY <1>0, PackGroupMoves
<1> DEFINE D == GroupSet(phase)
           ids == Group(phase)
           S == DOMAIN elems
<1>4. /\ D \in SUBSET S /\ ids \in Seq(D) /\ Distinct(ids) /\ Good(Here, NumRegisters, S)
      /\ \A j \in D : Here.loc[j] = None
  BY <1>2 DEF GroupReady
<1>5. t = PackGreedy(Here, ids, start, NumRegisters, 0) /\ loc' = t.loc /\ Good(t, NumRegisters, S)
  BY <1>1, <1>3 DEF GroupMoved
<1>6. PICK k \in DOMAIN ids : ids[k] = i
  BY <1>0, <1>4, SortedEvery DEF Group
<1> HIDE DEF D, ids, S
<1>7. \A j \in DOMAIN ids : t.loc[ids[j]] = None => Shut(t, NumRegisters, S, elems[ids[j]], start, 0)
  BY ONLY <1>0, <1>4, <1>5, PackGreedyShut DEF S
<1>8. Shut(t, NumRegisters, S, elems[i], start, 0)
  BY <1>5, <1>6, <1>7
<1> SUFFICES ASSUME NEW p \in Place, Inside(elems[i], p) PROVE Meets(elems, loc', DOMAIN elems, elems[i], p)
  BY DEF NoPlace
<1>9. elems[i] \in Shape /\ p.row \in Nat /\ p.col \in Nat
  BY <1>0, <1>4 DEF S, D, Place
<1>10. p.row + elems[i].rows <= NumRegisters /\ p.col + elems[i].cols <= 4
  BY DEF Inside
<1>11. CASE p.row >= start
  BY <1>5, <1>8, <1>9, <1>10, <1>11 DEF Shut, S
<1>12. CASE p.row < start
  <2>1. p.row \in 0 .. start - 1
    BY <1>0, <1>9, <1>12
  <2>2. FullRow(elems, loc, DOMAIN elems, p.row)
    BY <2>1 DEF OptimizedFull
  <2>3. FullRow(elems', loc', DOMAIN elems', p.row)
    BY ONLY <1>1, <2>2, FullRowKept
  <2>4. FullRow(elems, t.loc, S, p.row)
    BY <1>1, <1>5, <2>3 DEF S
  <2>5. p.row \in RowsOf(elems[i], p)
    BY <1>9, ShapeType DEF RowsOf
  <2>6. Meets(elems, t.loc, S, elems[i], p)
    BY ONLY <1>0, <1>5, <1>9, <1>10, <2>4, <2>5, FullRowMeets, p \in Place DEF S
  <2> QED  BY <1>5, <2>6 DEF S
<1> QED  BY <1>0, <1>9, <1>11, <1>12

\* The rows below startRow once a group is packed.
LEMMA StartFull ==
  ASSUME PackerInv, OptimizedHolds, OptimizedFull, PackGroup
  PROVE  \A r \in 0 .. start' - 1 : FullRow(elems', loc', DOMAIN elems', r)
<1>0. /\ Typed /\ NumRegisters \in Nat /\ elems \in Seq(Shape) /\ 0 \in Nat
      /\ phase \in Groups /\ elems' = elems /\ Kept(elems, loc, elems', loc')
  <2>1. Next
    BY DEF Next
  <2>2. Kept(elems, loc, elems', loc')
    BY <2>1, StepKeeps
  <2> QED  BY <2>2, SignatureAssumption DEF PackerInv, Typed, PackGroup, Groups
<1>1. CASE phase # "vec4"
  <2>1. start' = start
    BY <1>1 DEF PackGroup
  <2>2. ASSUME NEW r \in 0 .. start - 1 PROVE FullRow(elems', loc', DOMAIN elems', r)
    <3>1. FullRow(elems, loc, DOMAIN elems, r)
      BY <2>2 DEF OptimizedFull
    <3> QED  BY ONLY <1>0, <3>1, FullRowKept
  <2> QED  BY <2>1, <2>2
<1>2. CASE phase = "vec4"
  <2> DEFINE D == GroupSet(phase)
             ids == Group(phase)
             S == DOMAIN elems
  <2>1. start = 0 /\ rowsUsed = 0 /\ StartCol(phase) = 0
    BY <1>2 DEF OptimizedFull, StartCol
  <2>2. GroupReady(phase)
    BY <1>0, GroupIsReady
  <2>3. /\ D \in SUBSET S /\ ids \in Seq(D) /\ Distinct(ids) /\ Good(Here, NumRegisters, S)
        /\ Here.loc = loc /\ \A j \in D : Here.loc[j] = None
    BY <2>2 DEF GroupReady
  <2>4. PICK t : GroupMoved(t)
    BY <1>0, PackGroupMoves
  <2>5. t = PackGreedy(Here, ids, 0, NumRegisters, 0) /\ loc' = t.loc /\ rowsUsed' = t.used /\ Good(t, NumRegisters, S)
    BY <2>1, <2>4 DEF GroupMoved
  <2>6. \A j \in S : loc[j] = None
    <3>1. SUFFICES ASSUME NEW j \in S PROVE loc[j] = None
      OBVIOUS
    <3>2. elems[j] \in Shape
      BY <1>0
    <3>3. PICK g \in Groups : InGroup(elems[j], g)
      BY <3>2, EveryGroup
    <3>4. j \in GroupSet(g)
      BY <3>3 DEF GroupSet
    <3>5. PhaseRank[g] >= PhaseRank[phase]
      BY <1>2 DEF PhaseRank, Groups
    <3> QED  BY <3>4, <3>5 DEF OptimizedHolds
  <2>7. Stacked(Here, S)
    <3>1. Here.used = 0
      BY <2>1 DEF Here
    <3> QED  BY <2>3, <2>6, <3>1 DEF Stacked
  <2>8. \A j \in D : elems[j].cols = 4
    BY <1>2 DEF GroupSet, InGroup
  <2> HIDE DEF ids, D
  <2>9. Stacked(PackGreedy(Here, ids, 0, NumRegisters, 0), S)
    <3>1. \A j \in D : Here.loc[j] = None /\ elems[j].cols = 4
      BY <2>3, <2>8
    <3>2. S \in SUBSET DOMAIN elems
      OBVIOUS
    <3> HIDE DEF S
    <3> QED  BY ONLY <1>0, <2>3, <2>7, <3>1, <3>2, PackGreedyStacked
  <2>10. start' = t.used
    <3>1. start' = Larger(0, t.used) /\ t.used \in Nat
      BY <1>2, <2>1, <2>5 DEF PackGroup, Good
    <3> QED  BY <3>1 DEF Larger
  <2> QED  BY <1>0, <2>5, <2>9, <2>10 DEF Stacked
<1> QED  BY <1>1, <1>2

\* The steps under the optimized strategy.
LEMMA OptimizedFullNext ==
  ASSUME PackerInv, strategy = "optimized", OptimizedFull, [Next]_vars PROVE OptimizedFull'
<1>0. /\ Typed /\ Staged /\ OptimizedHolds /\ Kept(elems, loc, elems', loc') /\ HeldKept(<<>>, <<>>)
  <2>1. Kept(elems, loc, elems', loc')
    BY StepKeeps
  <2> QED  BY <2>1 DEF PackerInv, HeldKept
<1>1. ASSUME elems' = elems, NEW g, GroupFull(g) PROVE GroupFull(g)'
  <2>1. SUFFICES ASSUME NEW i \in GroupSet(g), loc'[i] = None PROVE NoPlace(elems', loc', <<>>, elems[i])
    BY <1>1 DEF GroupFull, GroupSet
  <2>2. loc[i] = None
    BY <1>0, <2>1 DEF Kept, GroupSet
  <2>3. NoPlace(elems, loc, <<>>, elems[i])
    BY <1>1, <2>1, <2>2 DEF GroupFull
  <2> QED  BY ONLY <1>0, <2>3, NoPlaceKept
<1>2. ASSUME start' = start PROVE \A r \in 0 .. start' - 1 : FullRow(elems', loc', DOMAIN elems', r)
  <2>1. SUFFICES ASSUME NEW r \in 0 .. start - 1 PROVE FullRow(elems', loc', DOMAIN elems', r)
    BY <1>2
  <2>2. FullRow(elems, loc, DOMAIN elems, r)
    BY <2>1 DEF OptimizedFull
  <2> QED  BY ONLY <1>0, <2>2, FullRowKept
<1>3. ASSUME UNCHANGED <<start, rowsUsed>>, phase' \in {"declare", "vec4"}, phase \in {"declare", "vec4"}
      PROVE  OptimizedFull'
  <2>1. start' = 0 /\ rowsUsed' = 0
    BY <1>3 DEF OptimizedFull
  <2>2. \A g \in SearchedGroups : ~(PhaseRank[g] < PhaseRank[phase'])
    BY <1>3 DEF PhaseRank, SearchedGroups
  <2> QED  BY <1>2, <1>3, <2>1, <2>2 DEF OptimizedFull
<1>4. ASSUME UNCHANGED <<start, elems>>, phase \notin {"declare", "vec4"},
             phase' = phase \/ (phase \notin SearchedGroups /\ phase' \in Phases /\ phase \in Phases
                                /\ (phase' = PhaseAfter[phase] \/ phase \in {"packed", "validate"}) /\ phase' \notin {"declare", "vec4"})
      PROVE  OptimizedFull'
  <2>1. \A g \in SearchedGroups : PhaseRank[g] < PhaseRank[phase'] => PhaseRank[g] < PhaseRank[phase]
    <3>1. CASE phase' = phase
      BY <3>1
    <3>2. CASE phase \in {"packed", "validate"}
      BY <3>2 DEF PhaseRank, SearchedGroups
    <3>3. CASE phase \in {"tess", "clip"} /\ phase' = PhaseAfter[phase]
      BY <3>3 DEF PhaseRank, SearchedGroups, PhaseAfter
    <3>4. CASE phase = "done" 
      BY <3>4 DEF PhaseRank, SearchedGroups
    <3> QED  BY <1>4, <3>1, <3>2, <3>3, <3>4 DEF Phases, SearchedGroups
  <2>2. phase' \notin {"declare", "vec4"}
    BY <1>4
  <2>3. \A g \in SearchedGroups : PhaseRank[g] < PhaseRank[phase'] => GroupFull(g)'
    BY <1>1, <1>4, <2>1 DEF OptimizedFull
  <2> QED  BY <1>2, <1>4, <2>2, <2>3 DEF OptimizedFull
<1>5. CASE \E e \in Shapes : Declare(e)
  BY <1>3, <1>5 DEF Declare, Declares
<1>6. CASE BeginOptimized
  BY <1>3, <1>6 DEF BeginOptimized
<1>7. CASE PackGroup
  <2>1. /\ phase \in {"vec4", "tess", "arb", "sv", "sgv"} /\ phase' = PhaseAfter[phase] /\ elems' = elems
    BY <1>7 DEF PackGroup
  <2>2. \A g \in SearchedGroups : PhaseRank[g] < PhaseRank[phase'] => PhaseRank[g] < PhaseRank[phase] \/ g = phase
    BY <2>1 DEF PhaseRank, SearchedGroups, PhaseAfter
  <2>3. ASSUME NEW g \in SearchedGroups, g = phase PROVE GroupFull(g)'
    <3>1. ASSUME NEW i \in GroupSet(g), loc'[i] = None PROVE NoPlace(elems, loc', <<>>, elems[i])
      <4>1. OptimizedHolds /\ phase \in SearchedGroups /\ i \in GroupSet(phase)
        BY <1>0, <2>3, <3>1
      <4> QED  BY ONLY <1>7, <3>1, <4>1, PackerInv, OptimizedFull, GroupLeftOut
    <3> QED  BY <2>1, <3>1 DEF GroupFull, GroupSet
  <2>4. \A g \in SearchedGroups : PhaseRank[g] < PhaseRank[phase'] => GroupFull(g)'
    BY <1>1, <2>1, <2>2, <2>3 DEF OptimizedFull
  <2>5. phase' \notin {"declare", "vec4"}
    BY <2>1 DEF PhaseAfter
  <2>6. \A r \in 0 .. start' - 1 : FullRow(elems', loc', DOMAIN elems', r)
    BY <1>0, <1>7, StartFull
  <2> QED  BY <2>4, <2>5, <2>6 DEF OptimizedFull
<1>8. CASE PackClipCull
  BY <1>4, <1>8 DEF PackClipCull, SearchedGroups, Phases, PhaseAfter
<1>9. CASE BeginValidate
  BY <1>4, <1>9 DEF BeginValidate, SearchedGroups, Phases
<1>10. CASE ValidateElement
  BY <1>4, <1>10 DEF ValidateElement, SearchedGroups, Phases
<1>11. CASE UNCHANGED vars
  <2>1. CASE phase \in {"declare", "vec4"}
    BY <1>3, <1>11, <2>1 DEF vars
  <2>2. CASE phase \notin {"declare", "vec4"}
    BY <1>4, <1>11, <2>2 DEF vars
  <2> QED  BY <2>1, <2>2
<1>12. ~(\E e \in Shapes : PackPrefixStable(e)) /\ ~(\E f \in Foreign : ValidateForeign(f.shape, f.at))
  BY DEF PackPrefixStable, ValidateForeign
<1> QED  BY <1>5, <1>6, <1>7, <1>8, <1>9, <1>10, <1>11, <1>12 DEF Next

\* An element is left out only if no place was compatible with the others, of
\* any kind, and with the rows held: the searches miss no place, and what is in
\* the way of an element never moves.
THEOREM LeftOutOnlyWhenFull == Spec => []FailsOnlyWhenFull
<1>1. Init => FullInv
  <2> SUFFICES ASSUME Init PROVE FullInv
    OBVIOUS
  <2>1. elems = <<>> /\ start = 0 /\ rowsUsed = 0
    BY DEF Init
  <2>2. strategy # "foreign" => \A g \in SearchedGroups : ~(PhaseRank[g] < PhaseRank[phase])
    BY DEF Init, PhaseRank, SearchedGroups
  <2> QED  BY <2>1, <2>2 DEF FullInv, PrefixFull, OptimizedFull
<1>2. PackerInv /\ FullInv /\ [Next]_vars => FullInv'
  <2> SUFFICES ASSUME PackerInv, FullInv, [Next]_vars PROVE FullInv'
    OBVIOUS
  <2>1. strategy' = strategy
    BY StepKeeps
  <2>2. strategy = "prefix" => PrefixFull(elems', loc', clip'.held)
    BY PrefixFullNext DEF FullInv
  <2>3. strategy = "optimized" => OptimizedFull'
    BY OptimizedFullNext DEF FullInv
  <2> QED  BY <2>1, <2>2, <2>3 DEF FullInv
<1>3. PackerInv /\ FullInv => FailsOnlyWhenFull
  <2> SUFFICES ASSUME PackerInv, FullInv, Finished, NEW i \in DOMAIN elems \ Located, Searched(elems[i]),
                      NEW row \in 0 .. NumRegisters - 1, NEW col \in Columns, NEW p, p = [row |-> row, col |-> col],
                      CompatibleWith(Located, elems[i], p), RowsOf(elems[i], p) \cap ToSet(clip.held) = {}
               PROVE  FALSE
    BY DEF FailsOnlyWhenFull, Searched
  <2>1. Typed /\ Staged /\ elems \in Seq(Shape)
    BY DEF PackerInv, Typed
  <2>2. p \in Place /\ Inside(elems[i], p) /\ \A j \in DOMAIN elems : loc[j] # None => Compatible(elems[i], p, elems[j], loc[j])
    <3>1. p \in Place
      BY DEF Columns, Place
    <3>2. \A j \in DOMAIN elems : loc[j] # None => j \in Located
      BY <2>1 DEF Located, Typed
    <3> QED  BY <3>1, <3>2 DEF CompatibleWith
  <2>3. ~Meets(elems, loc, DOMAIN elems, elems[i], p)
    BY <2>2 DEF Meets
  <2>4. ~HeldMeets(clip.held, elems[i], p)
    <3>1. clip.held \in Seq(Nat)
      BY HeldLength
    <3>2. \A k \in 1 .. Len(clip.held) : clip.held[k] \in ToSet(clip.held)
      BY <3>1 DEF ToSet
    <3> QED  BY <3>2 DEF HeldMeets
  <2>5. loc[i] = None
    BY <2>1 DEF Located, Typed
  <2>6. CASE strategy = "prefix"
    <3>1. NoPlace(elems, loc, clip.held, elems[i])
      BY <2>5, <2>6 DEF FullInv, PrefixFull
    <3> QED  BY <2>2, <2>3, <2>4, <3>1 DEF NoPlace
  <2>7. CASE strategy # "prefix"
    <3>1. strategy = "optimized" /\ phase \in {"packed", "validate", "done"} /\ clip.held = <<>>
      BY <2>1, <2>7 DEF Finished, Packer, Staged, NoClip
    <3>2. PICK g \in SearchedGroups : InGroup(elems[i], g)
      BY <2>1, EveryGroup
    <3>3. i \in GroupSet(g) /\ PhaseRank[g] < PhaseRank[phase]
      BY <3>1, <3>2 DEF GroupSet, PhaseRank, SearchedGroups
    <3>4. NoPlace(elems, loc, <<>>, elems[i])
      BY <2>5, <3>1, <3>3 DEF FullInv, OptimizedFull, GroupFull
    <3> QED  BY <2>2, <2>3, <2>4, <3>1, <3>4 DEF NoPlace
  <2> QED  BY <2>6, <2>7
<1> QED  BY <1>1, <1>2, <1>3, PackerInvariant, PTL DEF Spec

=============================================================================
