------------------------- MODULE MCWaveSensitivity -------------------------
\* Functions over four control flow graphs.  A block has a phi if it is a join,
\* an ordinary instruction or a wave operation in some blocks, and a terminator.
EXTENDS WaveSensitivity, Functions

\* No block but those of A is on every way from the entry to b: dominators.
Reaches(g, a, b, without) ==
  LET Grow(S, k) == S \cup UNION {ToSet(g.succ[x]) \ without : x \in S}
  IN  b \in FoldLeft(Grow, {a} \ without, g.order)
Dominates(g, a, b) == a = b \/ ~Reaches(g, g.order[1], b, {a})
Preds(g, b) == {a \in ToSet(g.order) : b \in ToSet(g.succ[a])}
Joins(g) == {b \in ToSet(g.order) : Cardinality(Preds(g, b)) > 1}
Branches(g) == {b \in ToSet(g.order) : Len(g.succ[b]) > 1}

Phi(b) == <<b, "phi">>
Op(b) == <<b, "op">>
Term(b) == <<b, "term">>
Values(g) == {Phi(b) : b \in Joins(g)} \cup {Op(b) : b \in g.ops}
\* Values at hand at the end of b.
AtEnd(g, b) == {v \in Values(g) : Dominates(g, v[1], b)}
AtMostOne(S) == {{}} \cup {{v} : v \in S}

\* Each phi has a constant from its first predecessor, a value or a constant
\* from the other; each branch and instruction has at most one operand.
Operands(g) ==
  LET B == ToSet(g.order)
      end == [b \in B |-> AtEnd(g, b)]
      Args(S, Avail) == {f \in [S -> AtMostOne(Values(g))] : \A b \in S : f[b] \subseteq Avail[b]}
  IN  Args(Joins(g), [b \in B |-> UNION {end[a] : a \in Preds(g, b)}])
        \X Args(g.ops, [b \in B |-> end[b] \ {Op(b)}])
        \X Args(Branches(g), end)
Program(g, waveBlock, o) ==
  LET B == ToSet(g.order)
      insts == Values(g) \cup {Term(b) : b \in B}
  IN  [order |-> g.order, succ |-> g.succ, insts |-> insts,
       block |-> [i \in insts |-> i[1]],
       pos |-> [i \in insts |-> CASE i[2] = "phi" -> 1 [] i[2] = "op" -> 2 [] i[2] = "term" -> 3],
       args |-> [i \in insts |->
                   CASE i[2] = "phi" -> o[1][i[1]]
                     [] i[2] = "op" -> IF i[1] = waveBlock THEN {} ELSE o[2][i[1]]
                     [] i[2] = "term" -> IF i[1] \in Branches(g) THEN o[3][i[1]] ELSE {}],
       wave |-> {Op(waveBlock)}, phis |-> {Phi(b) : b \in Joins(g)},
       term |-> [b \in B |-> Term(b)],
       incoming |-> [i \in {Phi(b) : b \in Joins(g)} |-> Preds(g, i[1])]]
ProgramsOver(g) == {Program(g, w, o) : w \in g.ops, o \in Operands(g)}

\* A conditional; a loop; a conditional inside a loop; a loop inside a loop.
Diamond == [order |-> <<1, 2, 3, 4>>, succ |-> <<<<2, 3>>, <<4>>, <<4>>, <<>>>>, ops |-> {1, 2, 4}]
Loop == [order |-> <<1, 2, 3, 4>>, succ |-> <<<<2>>, <<3, 4>>, <<2>>, <<>>>>, ops |-> {2, 3, 4}]
LoopIf == [order |-> <<1, 2, 3, 4, 5, 6>>,
           succ |-> <<<<2>>, <<3, 4>>, <<4>>, <<5, 6>>, <<2>>, <<>>>>, ops |-> {3, 5}]
LoopLoop == [order |-> <<1, 2, 3, 4, 5>>, succ |-> <<<<2>>, <<3, 5>>, <<3, 4>>, <<2>>, <<>>>>, ops |-> {3, 5}]
MCPrograms == UNION {ProgramsOver(g) : g \in {Diamond, Loop, LoopIf, LoopLoop}}
=============================================================================
