-------------------------- MODULE WaveSensitivity --------------------------
(***************************************************************************)
(* Which instructions of a function depend on wave operations              *)
(* (WaveSensitivityAnalyzer): two work lists, of instructions and of       *)
(* blocks, and a treatment of phis whose cycles the lists alone leave      *)
(* undecided.  The validator refuses gradients of sensitive values.        *)
(***************************************************************************)
EXTENDS Naturals, Sequences, FiniteSets, SequencesExt

CONSTANT Programs  \* the functions analysed: control flow graph and operands

\* What the analysis reads of a function: its blocks in order, the entry
\* first; successors; instructions with block, position and operands that are
\* instructions; wave operations; terminators; phis with incoming blocks.  A
\* cycle of operands holds a phi: SSA, in blocks that can be reached.
Joining(p) == {i \in p.phis : p.incoming[i] # {}}
WellFormed(p) ==
  LET B == ToSet(p.order) IN
  /\ IsFiniteSet(p.insts)
  /\ p.order \in Seq(B) /\ Len(p.order) > 0
  /\ p.succ \in [B -> Seq(B)]
  /\ p.block \in [p.insts -> B] /\ p.pos \in [p.insts -> Nat]
  /\ p.args \in [p.insts -> SUBSET p.insts]
  /\ p.wave \subseteq p.insts /\ p.phis \subseteq p.insts
  /\ p.term \in [B -> p.insts]
  /\ \A b \in B : p.block[p.term[b]] = b /\ p.term[b] \notin p.phis
  /\ p.incoming \in [p.phis -> SUBSET B]
  /\ \A S \in SUBSET (p.insts \ Joining(p)) : S # {} => \E i \in S : p.args[i] \cap S = {}

ASSUME ProgramAssumption == \A p \in Programs : WellFormed(p)

VARIABLES
  prog,         \* the function
  inst, block,  \* InstState, BBState: "unknown" (not in the map), "no", "yes"
  instWork, blockWork,  \* InstWorkList, BBWorkList
  unknownPhis,  \* UnknownPhis, as a set: known ones are skipped
  visiting,     \* instructions that VisitInst is still to be called for
  sweep,        \* ... because they are in one block, to be taken in its order
  spread,       \* the loop of UpdateInst over the successors of a terminator
  phase,        \* "analyze", "resolve" and "force" phis, "last" analysis, "done"
  deferred, resolved  \* DeferredPhis, ResolvedPhi
lists == <<instWork, blockWork>>
phases == <<phase, deferred, resolved>>
vars == <<prog, inst, block, lists, unknownPhis, visiting, sweep, spread, phases>>

-----------------------------------------------------------------------------
Blocks == ToSet(prog.order)
Insts == prog.insts
States == {"unknown", "no", "yes"}
Terminators == {prog.term[b] : b \in Blocks}
Users(i) == {u \in Insts : i \in prog.args[u]}
InstsOf(b) == {i \in Insts : prog.block[i] = b}
NoSpread == [from |-> prog.order[1], ws |-> "no", rest |-> <<>>]

\* properlyDominates of the post-dominator tree: without b, no way from a
\* leads out of the function.
PostDominates(b, a) ==
  /\ a # b
  /\ \E S \in SUBSET (Blocks \ {b}) :
       /\ a \in S
       /\ \A x \in S : prog.succ[x] # <<>> /\ ToSet(prog.succ[x]) \subseteq S \cup {b}

-----------------------------------------------------------------------------
Init ==
  /\ prog \in Programs
  /\ inst = [i \in Insts |-> "unknown"]
  /\ block = [b \in Blocks |-> IF b = prog.order[1] THEN "no" ELSE "unknown"]
  /\ instWork = <<>> /\ blockWork = Reverse(prog.order)
  /\ unknownPhis = {} /\ visiting = {} /\ sweep = FALSE /\ spread = NoSpread
  /\ phase = "analyze" /\ deferred = {} /\ resolved = FALSE

\* A block already known to be sensitive stays so: the 'any pred' rule.
NeedsUpdateMut(b, ws) == block[b] # ws                       \* mutant
NeedsUpdateMut2(b, ws) == block[b] = "unknown"               \* mutant
NeedsUpdate(b, ws) == block[b] # ws /\ block[b] # "yes"
UpdateBlock(b, ws) ==
  IF NeedsUpdate(b, ws)
  THEN block' = [block EXCEPT ![b] = ws] /\ blockWork' = Append(blockWork, b)
  ELSE UNCHANGED <<block, blockWork>>

ChangesMut(i, ws) == TRUE                                    \* mutant
Changes(i, ws) == inst[i] # ws
UpdateInst(i, ws) ==
  IF Changes(i, ws)
  THEN /\ inst' = [inst EXCEPT ![i] = ws]
       /\ instWork' = Append(instWork, i)
       /\ spread' = IF i \in Terminators
                    THEN LET b == prog.block[i] IN [from |-> b, ws |-> ws, rest |-> prog.succ[b]]
                    ELSE NoSpread
  ELSE UNCHANGED <<inst, instWork, spread>>

\* The loop of UpdateInst over the successors, one at a time.
SpreadStateMut(b, from, ws) == ws                            \* mutant
SpreadState(b, from, ws) == IF PostDominates(b, from) THEN "no" ELSE ws
Spread ==
  /\ spread.rest # <<>>
  /\ UpdateBlock(Head(spread.rest), SpreadState(Head(spread.rest), spread.from, spread.ws))
  /\ spread' = [spread EXCEPT !.rest = Tail(@)]
  /\ UNCHANGED <<prog, inst, instWork, unknownPhis, visiting, sweep, phases>>

PhiControlled(i) ==
  i \in prog.phis /\ \E b \in prog.incoming[i] : inst[prog.term[b]] = "yes"
Sensitive(i) ==
  \/ i \in prog.wave \/ block[prog.block[i]] = "yes" \/ PhiControlled(i)
  \/ \E a \in prog.args[i] : inst[a] = "yes"
AllArgsNot(i) == \A a \in prog.args[i] : inst[a] = "no"

\* Analyze() is at the top of its loops.
Analyzing == phase \in {"analyze", "last"} /\ spread.rest = <<>>
Idle == Analyzing /\ visiting = {}

\* A block is swept from its first instruction, users come in any order.
Visit(i) ==
  /\ Analyzing /\ i \in visiting
  /\ sweep => \A j \in visiting : prog.pos[i] <= prog.pos[j]
  /\ visiting' = visiting \ {i}
  /\ IF Sensitive(i) THEN UpdateInst(i, "yes")
     ELSE IF AllArgsNot(i) THEN UpdateInst(i, "no")
     ELSE UNCHANGED <<inst, instWork, spread>>
  \* A phi that is decided at once may enter too, but is skipped later.
  /\ unknownPhis' = IF i \in prog.phis /\ inst[i] = "unknown" /\ ~Sensitive(i)
                       /\ prog.incoming[i] # {}
                    THEN unknownPhis \cup {i} ELSE unknownPhis
  /\ UNCHANGED <<prog, block, blockWork, sweep, phases>>

PopInst ==
  /\ Idle /\ instWork # <<>>
  /\ visiting' = Users(Last(instWork)) /\ sweep' = FALSE
  /\ instWork' = Front(instWork)
  /\ UNCHANGED <<prog, inst, block, blockWork, unknownPhis, spread, phases>>

PopBlock ==
  /\ Idle /\ instWork = <<>> /\ blockWork # <<>>
  /\ visiting' = InstsOf(Last(blockWork)) /\ sweep' = TRUE
  /\ blockWork' = Front(blockWork)
  /\ UNCHANGED <<prog, inst, block, instWork, unknownPhis, spread, phases>>

-----------------------------------------------------------------------------
(* Analyze(Function): phis left undecided.                                 *)

EndAnalysis ==
  /\ Idle /\ instWork = <<>> /\ blockWork = <<>>
  /\ phase' = IF phase = "last" \/ unknownPhis = {} THEN "done" ELSE "resolve"
  /\ deferred' = {} /\ resolved' = FALSE
  /\ UNCHANGED <<prog, inst, block, lists, unknownPhis, visiting, sweep, spread>>

AllPredsVisited(i) == \A b \in prog.incoming[i] : block[b] # "unknown"
ResolvePhi(i) ==
  /\ phase = "resolve" /\ i \in unknownPhis
  /\ unknownPhis' = unknownPhis \ {i}
  /\ IF inst[i] = "unknown" /\ AllPredsVisited(i)
     THEN UpdateInst(i, "no") /\ resolved' = TRUE /\ UNCHANGED deferred
     ELSE /\ deferred' = IF inst[i] = "unknown" THEN deferred \cup {i} ELSE deferred
          /\ UNCHANGED <<inst, instWork, spread, resolved>>
  /\ UNCHANGED <<prog, block, blockWork, visiting, sweep, phase>>

\* A round that resolves nothing ends the loop.
AfterRoundMut == IF resolved THEN "analyze" ELSE "last"      \* mutant
AfterRound == IF resolved THEN "analyze" ELSE "force"
EndRound ==
  /\ phase = "resolve" /\ unknownPhis = {}
  /\ unknownPhis' = deferred /\ phase' = AfterRound
  /\ UNCHANGED <<prog, inst, block, lists, visiting, sweep, spread, deferred, resolved>>

\* What remains is cycles of which each holds a phi.
ForcePhi(i) ==
  /\ phase = "force" /\ i \in unknownPhis
  /\ unknownPhis' = unknownPhis \ {i}
  /\ IF inst[i] = "unknown" THEN UpdateInst(i, "no") ELSE UNCHANGED <<inst, instWork, spread>>
  /\ UNCHANGED <<prog, block, blockWork, visiting, sweep, phases>>

LastAnalysis ==
  /\ phase = "force" /\ unknownPhis = {} /\ phase' = "last"
  /\ UNCHANGED <<prog, inst, block, lists, unknownPhis, visiting, sweep, spread, deferred, resolved>>

Next ==
  \/ Spread \/ PopInst \/ PopBlock \/ EndAnalysis \/ EndRound \/ LastAnalysis
  \/ \E i \in Insts : Visit(i) \/ ResolvePhi(i) \/ ForcePhi(i)

Spec == Init /\ [][Next]_vars
\* One thread runs the analysis to its end.
FairSpec == Spec /\ WF_vars(Next)

-----------------------------------------------------------------------------
TypeOK ==
  /\ prog \in Programs
  /\ inst \in [Insts -> States] /\ block \in [Blocks -> States]
  /\ instWork \in Seq(Insts) /\ blockWork \in Seq(Blocks)
  /\ unknownPhis \subseteq prog.phis /\ deferred \subseteq prog.phis
  /\ visiting \subseteq Insts /\ sweep \in BOOLEAN /\ resolved \in BOOLEAN
  /\ spread \in [from : Blocks, ws : States, rest : Seq(Blocks)]
  /\ phase \in {"analyze", "resolve", "force", "last", "done"}

\* Nothing sensitive is missed: a user of a sensitive value, an instruction of
\* a sensitive block, and a block entered by a sensitive branch that it does
\* not post-dominate are sensitive in the end (the rules for phis and control
\* flow are PhiControlClosed).
ResultClosed ==
  phase = "done" =>
    /\ \A i \in Insts : inst[i] = "yes" => \A u \in Users(i) : inst[u] = "yes"
    /\ \A i \in Insts : block[prog.block[i]] = "yes" => inst[i] = "yes"
    /\ \A b \in Blocks : inst[prog.term[b]] = "yes" =>
         \A s \in ToSet(prog.succ[b]) : PostDominates(s, b) \/ block[s] = "yes"

\* The rule that a phi is sensitive to the branches into it.
PhiControlClosed ==
  phase = "done" => \A i \in prog.phis : PhiControlled(i) => inst[i] = "yes"

\* Instructions and blocks that pass sensitivity on, in one step and in many.
InfectedBy(S) ==
  LET blks == {prog.block[i] : i \in S \cap Terminators}
      hit == {b \in Blocks : \E a \in blks : b \in ToSet(prog.succ[a]) /\ ~PostDominates(b, a)}
  IN  {i \in Insts : \/ prog.args[i] \cap S # {}
                     \/ prog.block[i] \in hit
                     \/ i \in prog.phis /\ prog.incoming[i] \cap blks # {}}
Infect(S) == S \cup InfectedBy(S)
Reached ==
  LET reached[k \in 0 .. Cardinality(Insts)] ==
        IF k = 0 THEN prog.wave ELSE Infect(reached[k - 1])
  IN  reached[Cardinality(Insts)]

\* No false alarm: what is found sensitive depends on a wave operation, so no
\* valid gradient is refused.
NoFalseAlarm == phase = "done" => \A i \in Insts : inst[i] = "yes" => i \in Reached

\* The assertions: in the end every instruction has a result; an undecided phi
\* has no sensitive operand.
AllDecided ==
  /\ phase = "done" => \A i \in Insts : inst[i] # "unknown"
  /\ phase = "resolve" => \A i \in unknownPhis :
       inst[i] = "unknown" => \A a \in prog.args[i] : inst[a] # "yes"

\* Sensitivity is never taken back, although every re-evaluation of an
\* instruction assigns the result it then finds.
NeverReverts ==
  [][/\ \A i \in Insts : inst[i] = "yes" => inst'[i] = "yes"
     /\ \A b \in Blocks : block[b] = "yes" => block'[b] = "yes"]_vars

\* The analysis ends.
Terminates == <>(phase = "done")
=============================================================================
