----------------------- MODULE WaveSensitivityProofs -----------------------
(***************************************************************************)
(* For every set of functions: types, that a result once sensitive stays   *)
(* so, that the result is closed under operands, blocks and branches, that *)
(* every instruction gets one, and that none is sensitive in vain.         *)
(***************************************************************************)
EXTENDS WaveSensitivity, SequenceTheorems, NaturalsInduction, FiniteSetTheorems, TLAPS

(* Work lists as sets.                                                     *)

\* What stands in a list is in its set.
LEMMA EntryOf ==
  ASSUME NEW S, NEW s \in Seq(S), NEW k \in 1 .. Len(s) PROVE s[k] \in ToSet(s)
BY DEF ToSet

\* Pushing adds one entry.
LEMMA PushEntry ==
  ASSUME NEW S, NEW s \in Seq(S), NEW x \in S
  PROVE  Append(s, x) \in Seq(S) /\ ToSet(s) \subseteq ToSet(Append(s, x)) /\ x \in ToSet(Append(s, x))
<1>1. Append(s, x) \in Seq(S) /\ Len(Append(s, x)) = Len(s) + 1
  OBVIOUS
<1>2. \A k \in 1 .. Len(s) : Append(s, x)[k] = s[k]
  OBVIOUS
<1>3. Append(s, x)[Len(s) + 1] = x
  OBVIOUS
<1> QED  BY <1>1, <1>2, <1>3 DEF ToSet

\* Popping removes at most the entry popped.
LEMMA PopEntry ==
  ASSUME NEW S, NEW s \in Seq(S), s # <<>>
  PROVE  /\ Front(s) \in Seq(S) /\ Last(s) \in S
         /\ \A x \in ToSet(s) : x = Last(s) \/ x \in ToSet(Front(s))
<1>1. Len(s) \in Nat /\ Len(s) >= 1 /\ s[Len(s)] \in S
  OBVIOUS
<1>5. \A k \in 1 .. Len(s) - 1 : s[k] \in S
  OBVIOUS
<1>6. PICK n \in Nat : n = Len(s) - 1
  BY <1>1
<1>7. /\ Front(s) \in Seq(S)
      /\ Len(Front(s)) = IF 1 <= n THEN n - 1 + 1 ELSE 0
      /\ \A k \in 1 .. n - 1 + 1 : Front(s)[k] = s[1 + k - 1]
  BY <1>5, <1>6, SubSeqProperties DEF Front
<1>2. Front(s) \in Seq(S) /\ Len(Front(s)) = Len(s) - 1
  BY <1>6, <1>7
<1>3. \A k \in 1 .. Len(s) - 1 : Front(s)[k] = s[k]
  BY <1>6, <1>7
<1>4. ASSUME NEW x \in ToSet(s) PROVE x = Last(s) \/ x \in ToSet(Front(s))
  <2>1. PICK k \in 1 .. Len(s) : x = s[k]
    BY DEF ToSet
  <2>2. CASE k = Len(s)
    BY <2>1, <2>2 DEF Last
  <2>3. CASE k # Len(s)
    <3>1. k \in 1 .. Len(Front(s)) /\ x = Front(s)[k]
      BY <1>1, <1>2, <1>3, <2>1, <2>3
    <3> QED  BY <1>2, <3>1 DEF ToSet
  <2> QED  BY <2>2, <2>3
<1> QED  BY <1>1, <1>2, <1>4 DEF Last

\* So does taking the head.
LEMMA TakeHead ==
  ASSUME NEW S, NEW s \in Seq(S), s # <<>>
  PROVE  /\ Head(s) \in S /\ Tail(s) \in Seq(S)
         /\ \A x \in ToSet(s) : x = Head(s) \/ x \in ToSet(Tail(s))
<1>1. Len(s) \in Nat /\ Len(s) >= 1 /\ Head(s) \in S /\ Head(s) = s[1]
  OBVIOUS
<1>2. Tail(s) \in Seq(S) /\ Len(Tail(s)) = Len(s) - 1
  OBVIOUS
<1>3. \A k \in 2 .. Len(s) : k - 1 \in 1 .. Len(Tail(s)) /\ s[k] = Tail(s)[k - 1]
  BY <1>1, <1>2
<1>4. ASSUME NEW x \in ToSet(s) PROVE x = Head(s) \/ x \in ToSet(Tail(s))
  <2>1. PICK k \in 1 .. Len(s) : x = s[k]
    BY DEF ToSet
  <2>2. CASE k = 1
    BY <1>1, <2>1, <2>2
  <2>3. CASE k # 1
    <3>1. k - 1 \in 1 .. Len(Tail(s)) /\ x = Tail(s)[k - 1]
      BY <1>1, <1>3, <2>1, <2>3
    <3> QED  BY <1>2, <3>1, EntryOf
  <2> QED  BY <2>2, <2>3
<1> QED  BY <1>1, <1>2, <1>4

LEMMA ReverseType == ASSUME NEW S, NEW s \in Seq(S) PROVE Reverse(s) \in Seq(S)
<1>1. Len(s) \in Nat /\ \A k \in 1 .. Len(s) : s[k] \in S
  OBVIOUS
<1>2. \A k \in 1 .. Len(s) : (Len(s) - k) + 1 \in 1 .. Len(s)
  BY <1>1
<1>3. Reverse(s) \in [1 .. Len(s) -> S]
  BY <1>1, <1>2 DEF Reverse
<1> QED  BY <1>1, <1>3

\* The function analysed is well formed.
LEMMA ProgramForm ==
  ASSUME prog \in Programs
  PROVE  /\ prog.order \in Seq(Blocks) /\ prog.order[1] \in Blocks
         /\ prog.succ \in [Blocks -> Seq(Blocks)]
         /\ prog.block \in [Insts -> Blocks] /\ prog.args \in [Insts -> SUBSET Insts]
         /\ prog.wave \subseteq Insts /\ prog.phis \subseteq Insts
         /\ prog.term \in [Blocks -> Insts]
         /\ \A b \in Blocks : prog.block[prog.term[b]] = b /\ prog.term[b] \notin prog.phis
         /\ prog.incoming \in [prog.phis -> SUBSET Blocks]
<1>1. WellFormed(prog)
  BY ProgramAssumption
<1>2. prog.order[1] \in ToSet(prog.order)
  BY <1>1 DEF WellFormed, ToSet
<1> QED  BY <1>1, <1>2 DEF WellFormed, Blocks, Insts

-----------------------------------------------------------------------------
(* The invariant.                                                          *)

\* What is sensitive has a reason, which a re-evaluation will find again.
Justified == \A i \in Insts : inst[i] = "yes" => Sensitive(i)

\* A user of a sensitive value is sensitive, or will be visited.
UsersCovered ==
  \A i \in Insts : inst[i] = "yes" =>
    i \in ToSet(instWork) \/ \A u \in Users(i) : inst[u] = "yes" \/ u \in visiting

\* So is an instruction of a sensitive block.
BlocksCovered ==
  \A i \in Insts : block[prog.block[i]] = "yes" =>
    inst[i] = "yes" \/ i \in visiting \/ prog.block[i] \in ToSet(blockWork)

\* A sensitive branch has passed on to its successors, or is about to.
Owed(b, s) == spread.from = b /\ spread.ws = "yes" /\ s \in ToSet(spread.rest)
BranchesCovered ==
  \A b \in Blocks : inst[prog.term[b]] = "yes" =>
    \A s \in ToSet(prog.succ[b]) : PostDominates(s, b) \/ block[s] = "yes" \/ Owed(b, s)

\* Between analyses no successor is owed anything; at the end nothing is left.
Quiet ==
  /\ phase \in {"resolve", "force", "done"} => spread.rest = <<>>
  /\ phase = "done" => instWork = <<>> /\ blockWork = <<>> /\ visiting = {}

IInv == TypeOK /\ Justified /\ UsersCovered /\ BlocksCovered /\ BranchesCovered /\ Quiet

LEMMA InitInv == Init => IInv
<1> SUFFICES ASSUME Init PROVE IInv
  OBVIOUS
<1>1. prog \in Programs
  BY DEF Init
<1> USE ProgramForm, <1>1
<1>2. blockWork \in Seq(Blocks)
  BY ReverseType, blockWork = Reverse(prog.order) DEF Init
<1>9. spread \in [from : Blocks, ws : States, rest : Seq(Blocks)]
  <2>1. spread = NoSpread /\ <<>> \in Seq(Blocks)
    BY DEF Init
  <2> QED  BY <2>1 DEF NoSpread, States
<1>3. TypeOK
  <2>1. inst \in [Insts -> States] /\ block \in [Blocks -> States]
    BY DEF Init, States
  <2>2. instWork \in Seq(Insts) /\ visiting = {} /\ sweep = FALSE /\ resolved = FALSE
    BY DEF Init
  <2>3. unknownPhis = {} /\ deferred = {} /\ phase = "analyze"
    BY DEF Init
  <2> QED  BY ONLY <1>1, <1>2, <1>9, <2>1, <2>2, <2>3 DEF TypeOK
<1>4. \A i \in Insts : inst[i] # "yes"
  BY DEF Init
<1>5. \A b \in Blocks : block[b] # "yes"
  BY DEF Init
<1>6. Justified /\ UsersCovered
  BY <1>4 DEF Justified, UsersCovered
<1>7. BlocksCovered
  BY <1>5 DEF BlocksCovered
<1>8. BranchesCovered
  BY <1>4 DEF BranchesCovered
<1> QED  BY <1>3, <1>6, <1>7, <1>8 DEF IInv, Quiet, Init

-----------------------------------------------------------------------------
(* What UpdateInst and UpdateBlock do.                                     *)

\* An update that takes no sensitivity back, with nothing owed before it.
LEMMA UpdateInstEffect ==
  ASSUME TypeOK, NEW i \in Insts, NEW ws \in {"no", "yes"}, UpdateInst(i, ws),
         inst[i] = "yes" => ws = "yes", spread.rest = <<>>
  PROVE  /\ inst' \in [Insts -> States] /\ instWork' \in Seq(Insts)
         /\ spread' \in [from : Blocks, ws : States, rest : Seq(Blocks)]
         /\ inst'[i] = ws /\ \A j \in Insts \ {i} : inst'[j] = inst[j]
         /\ ToSet(instWork) \subseteq ToSet(instWork')
         /\ inst'[i] = inst[i] \/ i \in ToSet(instWork')
         /\ inst'[i] = inst[i] => spread' = spread
         /\ inst'[i] # inst[i] /\ i \in Terminators =>
              spread' = [from |-> prog.block[i], ws |-> ws, rest |-> prog.succ[prog.block[i]]]
         /\ i \notin Terminators => spread'.rest = <<>>
<1> USE ProgramForm DEF TypeOK, States
<1>1. CASE ~Changes(i, ws)
  BY <1>1 DEF UpdateInst, Changes
<1>2. CASE Changes(i, ws)
  <2>1. /\ inst' = [inst EXCEPT ![i] = ws] /\ instWork' = Append(instWork, i)
    BY <1>2 DEF UpdateInst
  <2>2. instWork' \in Seq(Insts) /\ ToSet(instWork) \subseteq ToSet(instWork') /\ i \in ToSet(instWork')
    BY <2>1, PushEntry
  <2>3. CASE i \in Terminators
    <3>1. spread' = [from |-> prog.block[i], ws |-> ws, rest |-> prog.succ[prog.block[i]]]
      BY <1>2, <2>3 DEF UpdateInst
    <3> QED  BY <1>2, <2>1, <2>2, <2>3, <3>1 DEF Changes
  <2>4. CASE i \notin Terminators
    <3>1. spread' = NoSpread
      BY <1>2, <2>4 DEF UpdateInst
    <3> QED  BY <1>2, <2>1, <2>2, <2>4, <3>1 DEF Changes, NoSpread
  <2> QED  BY <2>3, <2>4
<1> QED  BY <1>1, <1>2

LEMMA UpdateBlockEffect ==
  ASSUME TypeOK, NEW b \in Blocks, NEW ws \in States, UpdateBlock(b, ws)
  PROVE  /\ block' \in [Blocks -> States] /\ blockWork' \in Seq(Blocks)
         /\ ToSet(blockWork) \subseteq ToSet(blockWork')
         /\ \A c \in Blocks : block[c] = "yes" => block'[c] = "yes"
         /\ \A c \in Blocks : block'[c] = "yes" => block[c] = "yes" \/ c \in ToSet(blockWork')
         /\ ws = "yes" => block'[b] = "yes"
<1> USE DEF TypeOK
<1>1. CASE NeedsUpdate(b, ws)
  <2>1. block' = [block EXCEPT ![b] = ws] /\ blockWork' = Append(blockWork, b) /\ block[b] # "yes"
    BY <1>1 DEF UpdateBlock, NeedsUpdate
  <2>2. blockWork' \in Seq(Blocks) /\ ToSet(blockWork) \subseteq ToSet(blockWork') /\ b \in ToSet(blockWork')
    BY <2>1, PushEntry
  <2> QED  BY <2>1, <2>2
<1>2. CASE ~NeedsUpdate(b, ws)
  BY <1>2 DEF UpdateBlock, NeedsUpdate
<1> QED  BY <1>1, <1>2

\* Reasons do not go away while sensitivity only grows.
LEMMA ReasonsStay ==
  ASSUME TypeOK, TypeOK', prog' = prog, NEW i \in Insts, Sensitive(i),
         \A j \in Insts : inst[j] = "yes" => inst'[j] = "yes",
         \A b \in Blocks : block[b] = "yes" => block'[b] = "yes"
  PROVE  Sensitive(i)'
<1>1. prog \in Programs
  BY DEF TypeOK
<1> USE ProgramForm, <1>1
<1>2. CASE i \in prog.wave \/ block[prog.block[i]] = "yes"
  BY <1>2 DEF Sensitive
<1>3. CASE PhiControlled(i)
  BY <1>3 DEF Sensitive, PhiControlled
<1>4. CASE \E a \in prog.args[i] : inst[a] = "yes"
  BY <1>4 DEF Sensitive
<1> QED  BY <1>2, <1>3, <1>4 DEF Sensitive

\* The operators that depend on the function alone keep their values.
LEMMA Frame ==
  ASSUME prog' = prog
  PROVE  /\ Insts' = Insts /\ Blocks' = Blocks /\ Terminators' = Terminators
         /\ \A i : Users(i)' = Users(i)
         /\ \A s, b : PostDominates(s, b)' <=> PostDominates(s, b)
BY DEF Insts, Blocks, Terminators, Users, PostDominates

\* No sensitivity is taken back.
Kept ==
  /\ \A i \in Insts : inst[i] = "yes" => inst'[i] = "yes"
  /\ \A b \in Blocks : block[b] = "yes" => block'[b] = "yes"

LEMMA ReasonsKept ==
  ASSUME TypeOK, TypeOK', prog' = prog, Justified, Kept,
         \A i \in Insts : inst'[i] = "yes" => inst[i] = "yes" \/ Sensitive(i)
  PROVE  Justified'
BY ReasonsStay, Frame DEF Justified, Kept

\* An update of an instruction keeps the debts of branches.
LEMMA UpdateKeepsBranches ==
  ASSUME TypeOK, BranchesCovered, prog' = prog, block' = block, spread.rest = <<>>,
         NEW i \in Insts, NEW ws \in {"no", "yes"}, UpdateInst(i, ws),
         inst[i] = "yes" => ws = "yes"
  PROVE  BranchesCovered'
<1>0. prog \in Programs
  BY DEF TypeOK
<1> USE <1>0, ProgramForm, Frame
<1>1. SUFFICES ASSUME NEW b \in Blocks, inst'[prog.term[b]] = "yes",
                      NEW s \in ToSet(prog.succ[b]), ~PostDominates(s, b), block[s] # "yes"
               PROVE  Owed(b, s)'
  BY DEF BranchesCovered
<1>2. prog.term[b] \in Insts /\ ToSet(spread.rest) = {}
  BY DEF ToSet
<1>3. inst[prog.term[b]] # "yes"
  BY <1>1, <1>2 DEF BranchesCovered, Owed
<1>4. prog.term[b] = i /\ inst'[i] # inst[i]
  BY <1>1, <1>2, <1>3, UpdateInstEffect
<1>5. i \in Terminators /\ prog.block[i] = b
  BY <1>4 DEF Terminators
<1>6. spread' = [from |-> b, ws |-> ws, rest |-> prog.succ[b]] /\ inst'[i] = ws
  BY <1>4, <1>5, UpdateInstEffect
<1> QED  BY <1>1, <1>4, <1>6 DEF Owed

-----------------------------------------------------------------------------
(* One lemma per action.                                                   *)

LEMMA SpreadInv == ASSUME IInv, Spread PROVE IInv' /\ Kept
<1>0. TypeOK /\ prog \in Programs /\ prog' = prog /\ inst' = inst /\ instWork' = instWork /\ visiting' = visiting
  BY DEF IInv, TypeOK, Spread
<1> USE <1>0, ProgramForm, Frame
<1> DEFINE b == Head(spread.rest)
           ws == SpreadState(b, spread.from, spread.ws)
<1>1. spread.rest \in Seq(Blocks) /\ spread.rest # <<>> /\ spread.ws \in States /\ spread.from \in Blocks
  BY DEF TypeOK, Spread
<1>2. /\ b \in Blocks /\ Tail(spread.rest) \in Seq(Blocks)
      /\ \A x \in ToSet(spread.rest) : x = b \/ x \in ToSet(Tail(spread.rest))
  BY <1>1, TakeHead
<1>3. ws \in States /\ UpdateBlock(b, ws) /\ spread' = [spread EXCEPT !.rest = Tail(@)]
  BY <1>1 DEF Spread, SpreadState, States
<1> HIDE DEF b, ws
<1>4. /\ block' \in [Blocks -> States] /\ blockWork' \in Seq(Blocks)
      /\ ToSet(blockWork) \subseteq ToSet(blockWork')
      /\ \A c \in Blocks : block[c] = "yes" => block'[c] = "yes"
      /\ \A c \in Blocks : block'[c] = "yes" => block[c] = "yes" \/ c \in ToSet(blockWork')
      /\ ws = "yes" => block'[b] = "yes"
  BY <1>2, <1>3, UpdateBlockEffect
<1>5. /\ spread' \in [from : Blocks, ws : States, rest : Seq(Blocks)]
      /\ spread'.from = spread.from /\ spread'.ws = spread.ws /\ spread'.rest = Tail(spread.rest)
  BY <1>2, <1>3 DEF TypeOK
<1>6. TypeOK'
  <2>1. Insts' = Insts /\ Blocks' = Blocks
    OBVIOUS
  <2>2. UNCHANGED <<unknownPhis, sweep, phase, deferred, resolved>>
    BY DEF Spread, phases
  <2> QED  BY ONLY <1>0, <1>4, <1>5, <2>1, <2>2 DEF TypeOK
<1>7. Kept
  BY <1>4 DEF Kept
<1>8. Justified'
  BY <1>6, <1>7, ReasonsKept DEF IInv
<1>9. UsersCovered'
  BY DEF IInv, UsersCovered
<1>10. BlocksCovered'
  BY <1>4 DEF IInv, BlocksCovered
<1>11. BranchesCovered'
  <2>1. SUFFICES ASSUME NEW c \in Blocks, inst[prog.term[c]] = "yes",
                        NEW s \in ToSet(prog.succ[c]), ~PostDominates(s, c), block'[s] # "yes"
                 PROVE  Owed(c, s)'
    BY DEF BranchesCovered
  <2>2. s \in Blocks
    <3>1. prog.succ[c] \in Seq(Blocks)
      OBVIOUS
    <3> QED  BY <3>1 DEF ToSet
  <2>3. Owed(c, s)
    BY <1>4, <2>1, <2>2 DEF IInv, BranchesCovered
  <2>4. s # b
    <3>1. s = b => ws = "yes"
      BY <2>1, <2>3 DEF Owed, SpreadState, ws
    <3> QED  BY <1>4, <2>1, <3>1
  <2> QED  BY <1>2, <1>5, <2>3, <2>4 DEF Owed
<1>12. Quiet'
  BY <1>1, <1>5 DEF IInv, Quiet, Spread, phases
<1> QED  BY <1>6, <1>7, <1>8, <1>9, <1>10, <1>11, <1>12 DEF IInv

LEMMA VisitInv == ASSUME IInv, NEW i \in Insts, Visit(i) PROVE IInv' /\ Kept
<1>0. /\ TypeOK /\ prog \in Programs /\ prog' = prog /\ block' = block /\ blockWork' = blockWork
      /\ spread.rest = <<>> /\ visiting' = visiting \ {i} /\ phase' = phase
      /\ phase \in {"analyze", "last"}
  BY DEF IInv, TypeOK, Visit, Analyzing, phases
<1> USE <1>0, ProgramForm, Frame
<1>1. CASE ~Sensitive(i) /\ ~AllArgsNot(i)
  <2>1. UNCHANGED <<inst, instWork, spread>>
    BY <1>1 DEF Visit
  <2>2. TypeOK'
    <3>1. unknownPhis' \subseteq prog.phis /\ visiting' \subseteq Insts
      BY DEF TypeOK, Visit
    <3>2. UNCHANGED <<sweep, deferred, resolved>> /\ Insts' = Insts /\ Blocks' = Blocks
      BY DEF Visit, phases
    <3> QED  BY ONLY <1>0, <2>1, <3>1, <3>2 DEF TypeOK
  <2>3. inst[i] # "yes"
    BY <1>1 DEF IInv, Justified
  <2>4. \A a \in prog.args[i] : inst[a] # "yes"
    BY <1>1 DEF Sensitive
  <2>5. Kept /\ Justified'
    <3>1. Kept
      BY <2>1 DEF Kept
    <3> QED  BY <2>1, <2>2, <3>1, ReasonsKept DEF IInv
  <2>6. UsersCovered'
    BY <2>1, <2>4 DEF IInv, UsersCovered, Users
  <2>7. BlocksCovered'
    BY <1>1, <2>1 DEF IInv, BlocksCovered, Sensitive
  <2>8. BranchesCovered'
    BY <2>1 DEF IInv, BranchesCovered, Owed
  <2>9. Quiet'
    BY <2>1 DEF IInv, Quiet
  <2> QED  BY <2>2, <2>5, <2>6, <2>7, <2>8, <2>9 DEF IInv
<1>2. CASE Sensitive(i) \/ AllArgsNot(i)
  <2>1. PICK ws \in {"no", "yes"} : /\ UpdateInst(i, ws)
                                    /\ ws = "yes" <=> Sensitive(i)
    BY <1>2 DEF Visit
  <2>2. inst[i] = "yes" => ws = "yes"
    BY <2>1 DEF IInv, Justified
  <2>3. /\ inst' \in [Insts -> States] /\ instWork' \in Seq(Insts)
        /\ spread' \in [from : Blocks, ws : States, rest : Seq(Blocks)]
        /\ inst'[i] = ws /\ \A j \in Insts \ {i} : inst'[j] = inst[j]
        /\ ToSet(instWork) \subseteq ToSet(instWork')
        /\ inst'[i] = inst[i] \/ i \in ToSet(instWork')
    BY <2>1, <2>2, UpdateInstEffect
  <2>4. TypeOK'
    <3>1. unknownPhis' \subseteq prog.phis /\ visiting' \subseteq Insts
      BY DEF TypeOK, Visit
    <3>2. UNCHANGED <<sweep, deferred, resolved>> /\ Insts' = Insts /\ Blocks' = Blocks
      BY DEF Visit, phases
    <3> QED  BY ONLY <1>0, <2>3, <3>1, <3>2 DEF TypeOK
  <2>5. Kept /\ Justified'
    <3>1. Kept
      BY <2>2, <2>3 DEF Kept
    <3>2. \A j \in Insts : inst'[j] = "yes" => inst[j] = "yes" \/ Sensitive(j)
      BY <2>1, <2>3
    <3> QED  BY <2>4, <3>1, <3>2, ReasonsKept DEF IInv
  <2>6. UsersCovered'
    <3>1. SUFFICES ASSUME NEW j \in Insts, inst'[j] = "yes", j \notin ToSet(instWork'),
                          NEW u \in Users(j)
                   PROVE  inst'[u] = "yes" \/ u \in visiting'
      BY DEF UsersCovered
    <3>2. inst[j] = "yes" /\ j \notin ToSet(instWork) /\ u \in Insts
      BY <2>3, <3>1 DEF Users
    <3>3. CASE u = i
      BY <2>1, <2>3, <3>2, <3>3 DEF Sensitive, Users
    <3>4. CASE u # i
      BY <2>3, <3>2, <3>4 DEF IInv, UsersCovered
    <3> QED  BY <3>3, <3>4
  <2>7. BlocksCovered'
    <3>1. SUFFICES ASSUME NEW j \in Insts, block[prog.block[j]] = "yes"
                   PROVE  inst'[j] = "yes" \/ j \in visiting' \/ prog.block[j] \in ToSet(blockWork)
      BY DEF BlocksCovered
    <3>2. CASE j = i
      BY <2>1, <2>3, <3>1, <3>2 DEF Sensitive
    <3>3. CASE j # i
      BY <2>3, <3>1, <3>3 DEF IInv, BlocksCovered
    <3> QED  BY <3>2, <3>3
  <2>8. BranchesCovered'
    BY <2>1, <2>2, UpdateKeepsBranches DEF IInv
  <2>9. Quiet'
    BY DEF IInv, Quiet
  <2> QED  BY <2>4, <2>5, <2>6, <2>7, <2>8, <2>9 DEF IInv
<1> QED  BY <1>1, <1>2

LEMMA PopInstInv == ASSUME IInv, PopInst PROVE IInv' /\ Kept
<1>0. /\ TypeOK /\ prog \in Programs /\ prog' = prog /\ block' = block /\ blockWork' = blockWork
      /\ inst' = inst /\ spread' = spread /\ phase' = phase /\ visiting = {}
      /\ instWork # <<>> /\ instWork' = Front(instWork) /\ visiting' = Users(Last(instWork))
      /\ phase \in {"analyze", "last"}
  BY DEF IInv, TypeOK, PopInst, Idle, Analyzing, phases
<1> USE <1>0, ProgramForm, Frame
<1>1. /\ instWork' \in Seq(Insts)
      /\ \A x \in ToSet(instWork) : x = Last(instWork) \/ x \in ToSet(instWork')
  <2>1. instWork \in Seq(Insts)
    BY DEF TypeOK
  <2> QED  BY <2>1, PopEntry
<1>2. TypeOK'
  <2>1. UNCHANGED <<unknownPhis, deferred, resolved>> /\ Insts' = Insts /\ Blocks' = Blocks
    BY DEF PopInst, phases
  <2>2. visiting' \subseteq Insts /\ sweep' \in BOOLEAN
    BY DEF PopInst, Users
  <2> QED  BY ONLY <1>0, <1>1, <2>1, <2>2 DEF TypeOK
<1>3. Kept
  BY DEF Kept
<1>4. Justified'
  BY <1>2, <1>3, ReasonsKept DEF IInv
<1>5. UsersCovered'
  <2>1. SUFFICES ASSUME NEW j \in Insts, inst[j] = "yes", j \notin ToSet(instWork'),
                        NEW u \in Users(j)
                 PROVE  inst[u] = "yes" \/ u \in visiting'
    BY DEF UsersCovered
  <2>2. CASE j = Last(instWork)
    BY <2>1, <2>2
  <2>3. CASE j # Last(instWork)
    BY <1>1, <2>1, <2>3 DEF IInv, UsersCovered
  <2> QED  BY <2>2, <2>3
<1>6. BlocksCovered'
  BY DEF IInv, BlocksCovered
<1>7. BranchesCovered'
  BY DEF IInv, BranchesCovered, Owed
<1>8. Quiet'
  BY DEF IInv, Quiet
<1> QED  BY <1>2, <1>3, <1>4, <1>5, <1>6, <1>7, <1>8 DEF IInv

LEMMA PopBlockInv == ASSUME IInv, PopBlock PROVE IInv' /\ Kept
<1>0. /\ TypeOK /\ prog \in Programs /\ prog' = prog /\ block' = block /\ instWork' = instWork
      /\ inst' = inst /\ spread' = spread /\ phase' = phase /\ visiting = {}
      /\ blockWork # <<>> /\ blockWork' = Front(blockWork) /\ visiting' = InstsOf(Last(blockWork))
      /\ phase \in {"analyze", "last"}
  BY DEF IInv, TypeOK, PopBlock, Idle, Analyzing, phases
<1> USE <1>0, ProgramForm, Frame
<1>1. /\ blockWork' \in Seq(Blocks)
      /\ \A x \in ToSet(blockWork) : x = Last(blockWork) \/ x \in ToSet(blockWork')
  <2>1. blockWork \in Seq(Blocks)
    BY DEF TypeOK
  <2> QED  BY <2>1, PopEntry
<1>2. TypeOK'
  <2>1. UNCHANGED <<unknownPhis, deferred, resolved>> /\ Insts' = Insts /\ Blocks' = Blocks
    BY DEF PopBlock, phases
  <2>2. visiting' \subseteq Insts /\ sweep' \in BOOLEAN
    BY DEF PopBlock, InstsOf
  <2> QED  BY ONLY <1>0, <1>1, <2>1, <2>2 DEF TypeOK
<1>3. Kept
  BY DEF Kept
<1>4. Justified'
  BY <1>2, <1>3, ReasonsKept DEF IInv
<1>5. UsersCovered'
  BY DEF IInv, UsersCovered
<1>6. BlocksCovered'
  BY <1>1 DEF IInv, BlocksCovered, InstsOf
<1>7. BranchesCovered'
  BY DEF IInv, BranchesCovered, Owed
<1>8. Quiet'
  BY DEF IInv, Quiet
<1> QED  BY <1>2, <1>3, <1>4, <1>5, <1>6, <1>7, <1>8 DEF IInv

\* Declaring an undecided phi not sensitive disturbs nothing.
LEMMA DecidedPhiInv ==
  ASSUME IInv, NEW i \in unknownPhis, inst[i] = "unknown", UpdateInst(i, "no"),
         UNCHANGED <<prog, block, blockWork, visiting, phase>>, phase \in {"resolve", "force"},
         UNCHANGED sweep, unknownPhis' \subseteq unknownPhis, UNCHANGED deferred, resolved' \in BOOLEAN
  PROVE  IInv' /\ Kept
<1>0. TypeOK /\ prog \in Programs /\ spread.rest = <<>> /\ i \in prog.phis
  BY DEF IInv, TypeOK, Quiet
<1> USE <1>0, ProgramForm, Frame
<1>1. i \in Insts /\ i \notin Terminators
  BY DEF Terminators
<1>2. /\ inst' \in [Insts -> States] /\ instWork' \in Seq(Insts)
      /\ spread' \in [from : Blocks, ws : States, rest : Seq(Blocks)]
      /\ inst'[i] = "no" /\ \A j \in Insts \ {i} : inst'[j] = inst[j]
      /\ ToSet(instWork) \subseteq ToSet(instWork')
      /\ spread'.rest = <<>>
  BY <1>1, UpdateInstEffect
<1>3. TypeOK'
  <2>1. Insts' = Insts /\ Blocks' = Blocks
    OBVIOUS
  <2> QED  BY ONLY <1>0, <1>2, <2>1, UNCHANGED <<prog, block, blockWork, visiting, phase>>,
              UNCHANGED sweep, unknownPhis' \subseteq unknownPhis, UNCHANGED deferred,
              resolved' \in BOOLEAN DEF TypeOK
<1>4. Kept /\ Justified'
  <2>1. Kept
    BY <1>1, <1>2 DEF Kept
  <2> QED  BY <1>1, <1>2, <1>3, <2>1, ReasonsKept DEF IInv
<1>5. UsersCovered'
  <2>1. SUFFICES ASSUME NEW j \in Insts, inst'[j] = "yes", j \notin ToSet(instWork'),
                        NEW u \in Users(j)
                 PROVE  inst'[u] = "yes" \/ u \in visiting
    BY DEF UsersCovered
  <2>2. inst[j] = "yes" /\ j \notin ToSet(instWork) /\ u \in Insts
    BY <1>2, <2>1 DEF Users
  <2>3. inst[u] = "yes" \/ u \in visiting
    BY <2>1, <2>2 DEF IInv, UsersCovered
  <2> QED  BY <1>2, <2>2, <2>3
<1>6. BlocksCovered'
  <2>1. SUFFICES ASSUME NEW j \in Insts, block[prog.block[j]] = "yes"
                 PROVE  inst'[j] = "yes" \/ j \in visiting \/ prog.block[j] \in ToSet(blockWork)
    BY DEF BlocksCovered
  <2>2. inst[j] = "yes" \/ j \in visiting \/ prog.block[j] \in ToSet(blockWork)
    BY <2>1 DEF IInv, BlocksCovered
  <2> QED  BY <1>2, <2>2
<1>7. BranchesCovered'
  BY <1>1, UpdateKeepsBranches DEF IInv
<1>8. Quiet'
  BY <1>2 DEF Quiet
<1> QED  BY <1>3, <1>4, <1>5, <1>6, <1>7, <1>8 DEF IInv

\* Steps that change neither results nor work lists.
LEMMA BookkeepingInv ==
  ASSUME IInv, UNCHANGED <<prog, inst, block, lists, visiting, sweep, spread>>, TypeOK', Quiet'
  PROVE  IInv' /\ Kept
<1>0. /\ TypeOK /\ prog \in Programs /\ prog' = prog /\ inst' = inst /\ block' = block
      /\ instWork' = instWork /\ blockWork' = blockWork /\ visiting' = visiting /\ spread' = spread
  BY DEF IInv, TypeOK, lists
<1> USE <1>0, ProgramForm, Frame
<1>1. Kept
  BY DEF Kept
<1>2. Justified'
  BY <1>1, ReasonsKept DEF IInv
<1>3. UsersCovered' /\ BlocksCovered'
  BY DEF IInv, UsersCovered, BlocksCovered
<1>4. BranchesCovered'
  BY DEF IInv, BranchesCovered, Owed
<1> QED  BY <1>1, <1>2, <1>3, <1>4 DEF IInv

\* The rest of the actions change phases and sets of phis.
LEMMA StepInv == IInv /\ [Next]_vars => IInv' /\ Kept
<1> SUFFICES ASSUME IInv, [Next]_vars PROVE IInv' /\ Kept
  OBVIOUS
<1>0. TypeOK /\ (prog' = prog => Insts' = Insts /\ Blocks' = Blocks)
  BY Frame DEF IInv
<1>1. CASE Spread
  BY <1>1, SpreadInv
<1>2. CASE PopInst
  BY <1>2, PopInstInv
<1>3. CASE PopBlock
  BY <1>3, PopBlockInv
<1>4. CASE EndAnalysis
  <2>1. UNCHANGED <<prog, inst, block, lists, unknownPhis, visiting, sweep, spread>>
    BY <1>4 DEF EndAnalysis
  <2>2. TypeOK'
    BY <1>0, <1>4, <2>1 DEF EndAnalysis, TypeOK, lists
  <2>3. Quiet'
    BY <1>4, <2>1 DEF EndAnalysis, Idle, Analyzing, Quiet, lists
  <2> QED  BY <2>1, <2>2, <2>3, BookkeepingInv
<1>5. CASE EndRound
  <2>1. UNCHANGED <<prog, inst, block, lists, visiting, sweep, spread, deferred, resolved>>
    BY <1>5 DEF EndRound
  <2>2. TypeOK'
    BY <1>0, <1>5, <2>1 DEF EndRound, AfterRound, TypeOK, lists
  <2>3. Quiet'
    BY <1>5, <2>1 DEF EndRound, AfterRound, IInv, Quiet, lists
  <2> QED  BY <2>1, <2>2, <2>3, BookkeepingInv
<1>6. CASE LastAnalysis
  <2>1. UNCHANGED <<prog, inst, block, lists, unknownPhis, visiting, sweep, spread, deferred, resolved>>
    BY <1>6 DEF LastAnalysis
  <2>2. TypeOK'
    BY <1>0, <1>6, <2>1 DEF LastAnalysis, TypeOK, lists
  <2>3. Quiet'
    BY <1>6, <2>1 DEF LastAnalysis, IInv, Quiet, lists
  <2> QED  BY <2>1, <2>2, <2>3, BookkeepingInv
<1>7. ASSUME NEW i \in Insts, Visit(i) PROVE IInv' /\ Kept
  BY <1>7, VisitInv
<1>8. ASSUME NEW i \in Insts, ResolvePhi(i) PROVE IInv' /\ Kept
  <2>1. /\ i \in unknownPhis /\ unknownPhis' \subseteq unknownPhis /\ phase = "resolve"
        /\ UNCHANGED <<prog, block, blockWork, visiting, sweep, phase>>
    BY <1>8 DEF ResolvePhi
  <2>2. CASE inst[i] = "unknown" /\ AllPredsVisited(i)
    <3>1. UpdateInst(i, "no") /\ resolved' = TRUE /\ UNCHANGED deferred
      BY <1>8, <2>2 DEF ResolvePhi
    <3> QED  BY <2>1, <2>2, <3>1, DecidedPhiInv
  <2>3. CASE ~(inst[i] = "unknown" /\ AllPredsVisited(i))
    <3>1. /\ UNCHANGED <<inst, instWork, spread, resolved>>
          /\ deferred' \subseteq deferred \cup {i}
      BY <1>8, <2>3 DEF ResolvePhi
    <3>2. TypeOK'
      BY <1>0, <2>1, <3>1 DEF TypeOK
    <3>3. Quiet'
      BY <2>1, <3>1 DEF IInv, Quiet
    <3> QED  BY <2>1, <3>1, <3>2, <3>3, BookkeepingInv DEF lists
  <2> QED  BY <2>2, <2>3
<1>9. ASSUME NEW i \in Insts, ForcePhi(i) PROVE IInv' /\ Kept
  <2>1. /\ i \in unknownPhis /\ unknownPhis' \subseteq unknownPhis /\ phase = "force"
        /\ UNCHANGED <<prog, block, blockWork, visiting, sweep, phase, deferred, resolved>>
    BY <1>9 DEF ForcePhi, phases
  <2>2. CASE inst[i] = "unknown"
    <3>1. UpdateInst(i, "no") /\ resolved' \in BOOLEAN
      BY <1>0, <1>9, <2>1, <2>2 DEF ForcePhi, TypeOK
    <3> QED  BY <2>1, <2>2, <3>1, DecidedPhiInv
  <2>3. CASE inst[i] # "unknown"
    <3>1. UNCHANGED <<inst, instWork, spread>>
      BY <1>9, <2>3 DEF ForcePhi
    <3>2. TypeOK'
      BY <1>0, <2>1, <3>1 DEF TypeOK
    <3>3. Quiet'
      BY <2>1, <3>1 DEF IInv, Quiet
    <3> QED  BY <2>1, <3>1, <3>2, <3>3, BookkeepingInv DEF lists
  <2> QED  BY <2>2, <2>3
<1>10. CASE UNCHANGED vars
  <2>1. UNCHANGED <<prog, inst, block, lists, visiting, sweep, spread, unknownPhis, phases>>
    BY <1>10 DEF vars
  <2>2. TypeOK'
    BY <1>0, <2>1 DEF TypeOK, lists, phases
  <2>3. Quiet'
    BY <2>1 DEF IInv, Quiet, lists, phases
  <2> QED  BY <2>1, <2>2, <2>3, BookkeepingInv
<1> QED  BY <1>1, <1>2, <1>3, <1>4, <1>5, <1>6, <1>7, <1>8, <1>9, <1>10 DEF Next

LEMMA Invariance == Spec => []IInv
BY InitInv, StepInv, PTL DEF Spec

-----------------------------------------------------------------------------
\* Types, for every set of well-formed functions.
THEOREM TypeCorrect == Spec => []TypeOK
<1>1. IInv => TypeOK
  BY DEF IInv
<1> QED  BY <1>1, Invariance, PTL

\* In the end the sensitive instructions and blocks are closed under operands,
\* blocks and branches: the work lists lose no debt.
THEOREM ResultComplete == Spec => []ResultClosed
<1>1. IInv => ResultClosed
  <2> SUFFICES ASSUME IInv, phase = "done" PROVE ResultClosed
    BY DEF ResultClosed
  <2>0. prog \in Programs /\ spread.rest = <<>> /\ instWork = <<>> /\ blockWork = <<>> /\ visiting = {}
    BY DEF IInv, TypeOK, Quiet
  <2>1. ToSet(instWork) = {} /\ ToSet(blockWork) = {} /\ ToSet(spread.rest) = {}
    BY <2>0 DEF ToSet
  <2>2. \A i \in Insts : inst[i] = "yes" => \A u \in Users(i) : inst[u] = "yes"
    BY <2>0, <2>1 DEF IInv, UsersCovered
  <2>3. \A i \in Insts : block[prog.block[i]] = "yes" => inst[i] = "yes"
    BY <2>0, <2>1 DEF IInv, BlocksCovered
  <2>4. \A b \in Blocks : inst[prog.term[b]] = "yes" =>
          \A s \in ToSet(prog.succ[b]) : PostDominates(s, b) \/ block[s] = "yes"
    BY <2>1 DEF IInv, BranchesCovered, Owed
  <2> QED  BY <2>2, <2>3, <2>4 DEF ResultClosed
<1> QED  BY <1>1, Invariance, PTL

\* No instruction and no block that was found sensitive is ever anything else.
THEOREM SensitivityStays == Spec => NeverReverts
<1>1. IInv /\ [Next]_vars =>
        [/\ \A i \in Insts : inst[i] = "yes" => inst'[i] = "yes"
         /\ \A b \in Blocks : block[b] = "yes" => block'[b] = "yes"]_vars
  BY StepInv DEF Kept
<1> QED  BY <1>1, Invariance, PTL DEF Spec, NeverReverts

-----------------------------------------------------------------------------
(* Every instruction gets a result.                                         *)

\* Reversing a list loses nothing.
LEMMA ReverseEntries ==
  ASSUME NEW S, NEW s \in Seq(S), NEW x \in ToSet(s) PROVE x \in ToSet(Reverse(s))
<1>1. PICK k \in 1 .. Len(s) : x = s[k]
  BY DEF ToSet
<1>2. PICK n \in Nat : n = Len(s)
  OBVIOUS
<1>3. (n - k) + 1 \in 1 .. n /\ (n - ((n - k) + 1)) + 1 = k
  BY <1>1, <1>2
<1>4. Reverse(s)[(n - k) + 1] = s[k]
  BY <1>2, <1>3 DEF Reverse
<1>5. DOMAIN Reverse(s) = 1 .. n
  BY <1>2 DEF Reverse
<1>6. Len(Reverse(s)) = n
  BY <1>5, ReverseType
<1> QED  BY <1>1, <1>3, <1>4, <1>5, <1>6 DEF ToSet

\* Pushing adds nothing else.
LEMMA PushOnly ==
  ASSUME NEW S, NEW s \in Seq(S), NEW x \in S, NEW y \in ToSet(Append(s, x))
  PROVE  y = x \/ y \in ToSet(s)
<1>1. Append(s, x) \in Seq(S) /\ Len(Append(s, x)) = Len(s) + 1 /\ Len(s) \in Nat
  OBVIOUS
<1>2. PICK k \in 1 .. Len(s) + 1 : y = Append(s, x)[k]
  BY <1>1 DEF ToSet
<1>3. CASE k = Len(s) + 1
  BY <1>2, <1>3
<1>4. CASE k # Len(s) + 1
  <2>1. k \in 1 .. Len(s) /\ y = s[k]
    BY <1>1, <1>2, <1>4
  <2> QED  BY <2>1 DEF ToSet
<1> QED  BY <1>3, <1>4

\* An instruction without a result will be visited, or an operand was not
\* known to be not sensitive when it was, or has been decided since.
Undecided ==
  \A i \in Insts : inst[i] = "unknown" =>
    \/ i \in visiting \/ prog.block[i] \in ToSet(blockWork)
    \/ \E a \in prog.args[i] : inst[a] # "no" \/ a \in ToSet(instWork)

\* An undecided phi is not forgotten.
Waits(i) ==
  \/ phase = "analyze" /\ (i \in visiting \/ prog.block[i] \in ToSet(blockWork) \/ i \in unknownPhis)
  \/ phase = "resolve" /\ i \in unknownPhis \cup deferred
  \/ phase = "force" /\ i \in unknownPhis
PhisWaiting == \A i \in Joining(prog) : inst[i] = "unknown" => Waits(i)

\* While phis are being decided nothing is left to analyse but these phis.
Settled ==
  phase \in {"resolve", "force"} =>
    /\ visiting = {} /\ blockWork = <<>>
    /\ \A i \in ToSet(instWork) : inst[i] # "yes"

DInv == IInv /\ Undecided /\ PhisWaiting /\ Settled

LEMMA ListEntries ==
  ASSUME TypeOK PROVE ToSet(instWork) \subseteq Insts
<1>1. instWork \in Seq(Insts)
  BY DEF TypeOK
<1> QED  BY <1>1 DEF ToSet

LEMMA InitDecided == Init => DInv
<1> SUFFICES ASSUME Init PROVE DInv
  OBVIOUS
<1>0. IInv /\ prog \in Programs
  BY InitInv DEF Init
<1> USE <1>0, ProgramForm
<1>1. \A b \in Blocks : b \in ToSet(blockWork)
  <2>1. blockWork = Reverse(prog.order) /\ Blocks = ToSet(prog.order) /\ prog.order \in Seq(Blocks)
    BY DEF Init, Blocks
  <2> QED  BY <2>1, ReverseEntries
<1>2. Undecided
  BY <1>1 DEF Undecided
<1>3. PhisWaiting
  <2>1. Joining(prog) \subseteq Insts /\ phase = "analyze"
    BY DEF Joining, Init
  <2> QED  BY <1>1, <2>1 DEF PhisWaiting, Waits
<1> QED  BY <1>2, <1>3 DEF DInv, Settled, Init

\* A decision of a phi between analyses.
LEMMA PhiDecided ==
  ASSUME DInv, NEW i \in unknownPhis, inst[i] = "unknown", UpdateInst(i, "no"),
         UNCHANGED <<prog, block, blockWork, visiting, phase>>, phase \in {"resolve", "force"},
         unknownPhis' = unknownPhis \ {i}, UNCHANGED deferred
  PROVE  Undecided' /\ PhisWaiting' /\ Settled'
<1>0. TypeOK /\ prog \in Programs /\ spread.rest = <<>> /\ i \in prog.phis
  BY DEF DInv, IInv, TypeOK, Quiet
<1> USE <1>0, ProgramForm, Frame
<1>1. i \in Insts /\ Joining(prog) \subseteq Insts /\ Joining(prog)' = Joining(prog)
  BY DEF Joining
<1>2. /\ inst'[i] = "no" /\ \A j \in Insts \ {i} : inst'[j] = inst[j]
      /\ ToSet(instWork) \subseteq ToSet(instWork')
      /\ inst'[i] = inst[i] \/ i \in ToSet(instWork')
  BY <1>1, UpdateInstEffect
<1>3. i \in ToSet(instWork')
  BY <1>2
<1>4. Undecided'
  <2>1. SUFFICES ASSUME NEW j \in Insts, inst'[j] = "unknown"
                 PROVE  \/ j \in visiting \/ prog.block[j] \in ToSet(blockWork)
                        \/ \E a \in prog.args[j] : inst'[a] # "no" \/ a \in ToSet(instWork')
    BY DEF Undecided
  <2>2. inst[j] = "unknown"
    BY <1>2, <2>1
  <2>3. CASE j \in visiting \/ prog.block[j] \in ToSet(blockWork)
    BY <2>3
  <2>4. CASE \E a \in prog.args[j] : inst[a] # "no" \/ a \in ToSet(instWork)
    <3>1. PICK a \in prog.args[j] : inst[a] # "no" \/ a \in ToSet(instWork)
      BY <2>4
    <3>2. a \in Insts
      OBVIOUS
    <3>3. inst'[a] # "no" \/ a \in ToSet(instWork')
      BY <1>2, <1>3, <3>1, <3>2
    <3> QED  BY <3>3
  <2> QED  BY <2>2, <2>3, <2>4 DEF DInv, Undecided
<1>5. PhisWaiting'
  <2>1. SUFFICES ASSUME NEW j \in Joining(prog), inst'[j] = "unknown" PROVE Waits(j)'
    BY <1>1 DEF PhisWaiting
  <2>2. j # i /\ inst[j] = "unknown"
    BY <1>1, <1>2, <2>1
  <2>3. Waits(j)
    BY <2>2 DEF DInv, PhisWaiting
  <2> QED  BY <2>2, <2>3 DEF Waits
<1>6. Settled'
  <2>1. visiting' = {} /\ blockWork' = <<>> /\ \A j \in ToSet(instWork) : inst[j] # "yes"
    BY DEF DInv, Settled
  <2>2. ASSUME NEW j \in ToSet(instWork') PROVE inst'[j] # "yes"
    <3>1. instWork' = Append(instWork, i)
      BY <1>2 DEF UpdateInst, Changes
    <3>2. j = i \/ j \in ToSet(instWork)
      <4>1. instWork \in Seq(Insts)
        BY DEF TypeOK
      <4> QED  BY <1>1, <3>1, <4>1, PushOnly
    <3> QED  BY <1>2, <2>1, <3>2, ListEntries
  <2> QED  BY <2>1, <2>2 DEF Settled
<1> QED  BY <1>4, <1>5, <1>6

LEMMA VisitDecided == ASSUME DInv, NEW i \in Insts, Visit(i) PROVE Undecided' /\ PhisWaiting' /\ Settled'
<1>0. /\ TypeOK /\ prog \in Programs /\ prog' = prog /\ block' = block /\ blockWork' = blockWork
      /\ spread.rest = <<>> /\ visiting' = visiting \ {i} /\ phase' = phase
      /\ phase \in {"analyze", "last"} /\ deferred' = deferred
  BY DEF DInv, IInv, TypeOK, Visit, Analyzing, phases
<1> USE <1>0, ProgramForm, Frame
<1>1. Joining(prog) \subseteq Insts /\ Joining(prog)' = Joining(prog)
  BY DEF Joining
<1>2. /\ \A j \in Insts \ {i} : inst'[j] = inst[j]
      /\ ToSet(instWork) \subseteq ToSet(instWork')
      /\ inst'[i] = inst[i] \/ i \in ToSet(instWork')
      /\ inst'[i] = "unknown" => ~Sensitive(i) /\ ~AllArgsNot(i) /\ inst[i] = "unknown"
  <2>1. CASE ~Sensitive(i) /\ ~AllArgsNot(i)
    BY <2>1 DEF Visit
  <2>2. CASE Sensitive(i) \/ AllArgsNot(i)
    <3>1. PICK ws \in {"no", "yes"} : /\ UpdateInst(i, ws)
                                      /\ ws = "yes" <=> Sensitive(i)
      BY <2>2 DEF Visit
    <3>2. inst[i] = "yes" => ws = "yes"
      BY <3>1 DEF DInv, IInv, Justified
    <3> QED  BY <3>1, <3>2, UpdateInstEffect
  <2> QED  BY <2>1, <2>2
<1>3. Undecided'
  <2>1. SUFFICES ASSUME NEW j \in Insts, inst'[j] = "unknown"
                 PROVE  \/ j \in visiting' \/ prog.block[j] \in ToSet(blockWork)
                        \/ \E a \in prog.args[j] : inst'[a] # "no" \/ a \in ToSet(instWork')
    BY DEF Undecided
  <2>2. (\E a \in prog.args[j] : inst[a] # "no" \/ a \in ToSet(instWork))
          => \E a \in prog.args[j] : inst'[a] # "no" \/ a \in ToSet(instWork')
    <3>1. SUFFICES ASSUME NEW a \in prog.args[j], inst[a] # "no" \/ a \in ToSet(instWork)
                   PROVE  inst'[a] # "no" \/ a \in ToSet(instWork')
      OBVIOUS
    <3>2. a \in Insts
      OBVIOUS
    <3> QED  BY <1>2, <3>1, <3>2
  <2>3. CASE j = i
    BY <1>2, <2>1, <2>2, <2>3 DEF AllArgsNot
  <2>4. CASE j # i
    <3>1. inst[j] = "unknown"
      BY <1>2, <2>1, <2>4
    <3> QED  BY <2>2, <2>4, <3>1 DEF DInv, Undecided
  <2> QED  BY <2>3, <2>4
<1>4. PhisWaiting'
  <2>1. SUFFICES ASSUME NEW j \in Joining(prog), inst'[j] = "unknown" PROVE Waits(j)'
    BY <1>1 DEF PhisWaiting
  <2>2. inst[j] = "unknown" /\ j \in Insts
    BY <1>1, <1>2, <2>1
  <2>3. phase = "analyze" /\ (j \in visiting \/ prog.block[j] \in ToSet(blockWork) \/ j \in unknownPhis)
    BY <2>2 DEF DInv, PhisWaiting, Waits
  <2>4. unknownPhis \subseteq unknownPhis'
    BY DEF Visit
  <2>5. j = i => j \in unknownPhis'
    BY <1>2, <2>1, <2>2 DEF Visit, Joining
  <2> QED  BY <2>3, <2>4, <2>5 DEF Waits
<1>5. Settled'
  BY DEF Settled
<1> QED  BY <1>3, <1>4, <1>5

LEMMA StepDecided == DInv /\ [Next]_vars => DInv'
<1> SUFFICES ASSUME DInv, [Next]_vars PROVE Undecided' /\ PhisWaiting' /\ Settled'
  BY StepInv DEF DInv
<1>0. TypeOK /\ prog \in Programs /\ (prog' = prog => Joining(prog)' = Joining(prog)) /\ Joining(prog) \subseteq Insts
  <2>1. TypeOK /\ prog \in Programs
    BY DEF DInv, IInv, TypeOK
  <2> QED  BY <2>1, ProgramForm DEF Joining
<1> USE <1>0, ProgramForm, Frame
<1>1. CASE Spread
  <2>1. UNCHANGED <<prog, inst, instWork, unknownPhis, visiting, deferred, phase>>
    BY <1>1 DEF Spread, phases
  <2>2. ToSet(blockWork) \subseteq ToSet(blockWork')
    <3>1. spread.rest \in Seq(Blocks) /\ spread.rest # <<>> /\ spread.ws \in States
      BY <1>1 DEF TypeOK, Spread
    <3>2. Head(spread.rest) \in Blocks
      BY <3>1, TakeHead
    <3>3. PICK ws \in States : UpdateBlock(Head(spread.rest), ws)
      BY <1>1, <3>1 DEF Spread, SpreadState, States
    <3> QED  BY <3>2, <3>3, UpdateBlockEffect
  <2>3. Undecided'
    BY <2>1, <2>2 DEF DInv, Undecided
  <2>4. PhisWaiting'
    BY <2>1, <2>2 DEF DInv, PhisWaiting, Waits
  <2>5. phase \notin {"resolve", "force"}
    BY <1>1 DEF DInv, IInv, Quiet, Spread
  <2> QED  BY <2>1, <2>3, <2>4, <2>5 DEF Settled
<1>2. CASE PopInst
  <2>1. /\ UNCHANGED <<prog, inst, block, blockWork, unknownPhis, deferred, phase>> /\ visiting = {}
        /\ visiting' = Users(Last(instWork)) /\ instWork' = Front(instWork) /\ instWork # <<>>
        /\ phase \in {"analyze", "last"}
    BY <1>2 DEF PopInst, Idle, Analyzing, phases
  <2>2. \A x \in ToSet(instWork) : x = Last(instWork) \/ x \in ToSet(instWork')
    <3>1. instWork \in Seq(Insts)
      BY DEF TypeOK
    <3> QED  BY <2>1, <3>1, PopEntry
  <2>3. Undecided'
    <3>1. SUFFICES ASSUME NEW j \in Insts, inst[j] = "unknown"
                   PROVE  \/ j \in visiting' \/ prog.block[j] \in ToSet(blockWork)
                          \/ \E a \in prog.args[j] : inst[a] # "no" \/ a \in ToSet(instWork')
      BY <2>1 DEF Undecided
    <3>2. \/ prog.block[j] \in ToSet(blockWork)
          \/ \E a \in prog.args[j] : inst[a] # "no" \/ a \in ToSet(instWork)
      BY <2>1, <3>1 DEF DInv, Undecided
    <3> QED  BY <2>1, <2>2, <3>2 DEF Users
  <2>4. PhisWaiting'
    BY <2>1 DEF DInv, PhisWaiting, Waits
  <2> QED  BY <2>1, <2>3, <2>4 DEF Settled
<1>3. CASE PopBlock
  <2>1. /\ UNCHANGED <<prog, inst, block, instWork, unknownPhis, deferred, phase>> /\ visiting = {}
        /\ visiting' = InstsOf(Last(blockWork)) /\ blockWork' = Front(blockWork) /\ blockWork # <<>>
        /\ phase \in {"analyze", "last"}
    BY <1>3 DEF PopBlock, Idle, Analyzing, phases
  <2>2. \A x \in ToSet(blockWork) : x = Last(blockWork) \/ x \in ToSet(blockWork')
    <3>1. blockWork \in Seq(Blocks)
      BY DEF TypeOK
    <3> QED  BY <2>1, <3>1, PopEntry
  <2>3. \A j \in Insts : prog.block[j] \in ToSet(blockWork) =>
          j \in visiting' \/ prog.block[j] \in ToSet(blockWork')
    BY <2>1, <2>2 DEF InstsOf
  <2>4. Undecided'
    BY <2>1, <2>3 DEF DInv, Undecided
  <2>5. PhisWaiting'
    BY <2>1, <2>3 DEF DInv, PhisWaiting, Waits
  <2> QED  BY <2>1, <2>4, <2>5 DEF Settled
<1>4. CASE EndAnalysis
  <2>1. /\ UNCHANGED <<prog, inst, block, instWork, blockWork, unknownPhis, visiting>>
        /\ visiting = {} /\ instWork = <<>> /\ blockWork = <<>>
    BY <1>4 DEF EndAnalysis, Idle, lists
  <2>2. ToSet(instWork) = {} /\ ToSet(blockWork) = {}
    BY <2>1 DEF ToSet
  <2>3. Undecided'
    BY <2>1 DEF DInv, Undecided
  <2>4. PhisWaiting'
    <3>1. SUFFICES ASSUME NEW j \in Joining(prog), inst[j] = "unknown" PROVE Waits(j)'
      BY <2>1 DEF PhisWaiting
    <3>2. phase \in {"analyze", "last"}
      BY <1>4 DEF EndAnalysis, Idle, Analyzing
    <3>3. phase = "analyze" /\ j \in unknownPhis
      BY <2>1, <2>2, <3>1, <3>2 DEF DInv, PhisWaiting, Waits
    <3>4. phase' = "resolve"
      BY <1>4, <3>3 DEF EndAnalysis
    <3> QED  BY <2>1, <3>3, <3>4 DEF Waits
  <2> QED  BY <2>1, <2>2, <2>3, <2>4 DEF Settled
<1>5. CASE EndRound
  <2>1. /\ UNCHANGED <<prog, inst, block, instWork, blockWork, visiting, deferred>>
        /\ phase = "resolve" /\ unknownPhis = {} /\ unknownPhis' = deferred
        /\ phase' \in {"analyze", "force"}
    BY <1>5 DEF EndRound, AfterRound, lists
  <2>2. Undecided'
    BY <2>1 DEF DInv, Undecided
  <2>3. PhisWaiting'
    BY <2>1 DEF DInv, PhisWaiting, Waits
  <2> QED  BY <2>1, <2>2, <2>3 DEF DInv, Settled
<1>6. CASE LastAnalysis
  <2>1. /\ UNCHANGED <<prog, inst, block, instWork, blockWork, visiting, deferred, unknownPhis>>
        /\ phase = "force" /\ unknownPhis = {} /\ phase' = "last"
    BY <1>6 DEF LastAnalysis, lists
  <2>2. Undecided'
    BY <2>1 DEF DInv, Undecided
  <2>3. PhisWaiting'
    BY <2>1 DEF DInv, PhisWaiting, Waits
  <2> QED  BY <2>1, <2>2, <2>3 DEF Settled
<1>7. ASSUME NEW i \in Insts, Visit(i) PROVE Undecided' /\ PhisWaiting' /\ Settled'
  BY <1>7, VisitDecided
<1>8. ASSUME NEW i \in Insts, ResolvePhi(i) PROVE Undecided' /\ PhisWaiting' /\ Settled'
  <2>1. /\ i \in unknownPhis /\ unknownPhis' = unknownPhis \ {i} /\ phase = "resolve"
        /\ UNCHANGED <<prog, block, blockWork, visiting, phase>>
    BY <1>8 DEF ResolvePhi
  <2>2. CASE inst[i] = "unknown" /\ AllPredsVisited(i)
    <3>1. UpdateInst(i, "no") /\ UNCHANGED deferred
      BY <1>8, <2>2 DEF ResolvePhi
    <3> QED  BY <2>1, <2>2, <3>1, PhiDecided
  <2>3. CASE ~(inst[i] = "unknown" /\ AllPredsVisited(i))
    <3>1. /\ UNCHANGED <<inst, instWork>>
          /\ deferred' = IF inst[i] = "unknown" THEN deferred \cup {i} ELSE deferred
      BY <1>8, <2>3 DEF ResolvePhi
    <3>2. Undecided'
      BY <2>1, <3>1 DEF DInv, Undecided
    <3>3. PhisWaiting'
      BY <2>1, <3>1 DEF DInv, PhisWaiting, Waits
    <3> QED  BY <2>1, <3>1, <3>2, <3>3 DEF DInv, Settled
  <2> QED  BY <2>2, <2>3
<1>9. ASSUME NEW i \in Insts, ForcePhi(i) PROVE Undecided' /\ PhisWaiting' /\ Settled'
  <2>1. /\ i \in unknownPhis /\ unknownPhis' = unknownPhis \ {i} /\ phase = "force"
        /\ UNCHANGED <<prog, block, blockWork, visiting, phase, deferred>>
    BY <1>9 DEF ForcePhi, phases
  <2>2. CASE inst[i] = "unknown"
    <3>1. UpdateInst(i, "no")
      BY <1>9, <2>2 DEF ForcePhi
    <3> QED  BY <2>1, <2>2, <3>1, PhiDecided
  <2>3. CASE inst[i] # "unknown"
    <3>1. UNCHANGED <<inst, instWork>>
      BY <1>9, <2>3 DEF ForcePhi
    <3>2. Undecided'
      BY <2>1, <3>1 DEF DInv, Undecided
    <3>3. PhisWaiting'
      BY <2>1, <2>3, <3>1 DEF DInv, PhisWaiting, Waits
    <3> QED  BY <2>1, <3>1, <3>2, <3>3 DEF DInv, Settled
  <2> QED  BY <2>2, <2>3
<1>10. CASE UNCHANGED vars
  <2>1. UNCHANGED <<prog, inst, block, instWork, blockWork, visiting, unknownPhis, deferred, phase>>
    BY <1>10 DEF vars, lists, phases
  <2>2. Undecided'
    BY <2>1 DEF DInv, Undecided
  <2>3. PhisWaiting'
    BY <2>1 DEF DInv, PhisWaiting, Waits
  <2> QED  BY <2>1, <2>2, <2>3 DEF DInv, Settled
<1> QED  BY <1>1, <1>2, <1>3, <1>4, <1>5, <1>6, <1>7, <1>8, <1>9, <1>10 DEF Next

\* The two assertions: in the end every instruction has a result, since what
\* has none would be a cycle of operands without a phi; and no operand of a phi
\* that is looked at again is sensitive.
THEOREM EverythingDecided == Spec => []AllDecided
<1>1. DInv => AllDecided
  <2> SUFFICES ASSUME DInv PROVE AllDecided
    OBVIOUS
  <2>0. IInv /\ TypeOK /\ prog \in Programs
    BY DEF DInv, IInv, TypeOK
  <2> USE <2>0, ProgramForm
  <2>1. ASSUME phase = "done" PROVE \A i \in Insts : inst[i] # "unknown"
    <3> DEFINE U == {i \in Insts : inst[i] = "unknown"}
    <3> SUFFICES ASSUME U # {} PROVE FALSE
      OBVIOUS
    <3>1. instWork = <<>> /\ blockWork = <<>> /\ visiting = {}
      BY <2>1 DEF IInv, Quiet
    <3>2. ToSet(instWork) = {} /\ ToSet(blockWork) = {}
      BY <3>1 DEF ToSet
    <3>3. U \in SUBSET (Insts \ Joining(prog))
      BY <2>1 DEF DInv, PhisWaiting, Waits
    <3>4. PICK i \in U : prog.args[i] \cap U = {}
      <4>1. \A S \in SUBSET (Insts \ Joining(prog)) : S # {} => \E i \in S : prog.args[i] \cap S = {}
        BY ProgramAssumption DEF WellFormed, Insts
      <4> HIDE DEF U
      <4> QED  BY <3>3, <4>1
    <3>5. PICK a \in prog.args[i] : inst[a] # "no"
      BY <3>1, <3>2 DEF DInv, Undecided
    <3>6. a \in Insts /\ inst[a] = "yes"
      BY <3>4, <3>5 DEF TypeOK, States
    <3>7. i \in Users(a)
      BY DEF Users
    <3>8. inst[i] = "yes"
      BY <3>1, <3>2, <3>6, <3>7 DEF IInv, UsersCovered
    <3> QED  BY <3>8
  <2>2. ASSUME phase = "resolve", NEW i \in unknownPhis, inst[i] = "unknown",
               NEW a \in prog.args[i], inst[a] = "yes"
        PROVE  FALSE
    <3>1. i \in Insts /\ a \in Insts /\ i \in Users(a)
      BY DEF TypeOK, Users
    <3>2. a \notin ToSet(instWork) /\ visiting = {}
      BY <2>2 DEF DInv, Settled
    <3> QED  BY <2>2, <3>1, <3>2 DEF IInv, UsersCovered
  <2> QED  BY <2>1, <2>2 DEF AllDecided
<1> QED  BY <1>1, InitDecided, StepDecided, PTL DEF Spec

-----------------------------------------------------------------------------
(* Nothing is found sensitive without depending on a wave operation.        *)

\* The wave operations and all that depends on something in S are in S.
Closed(S) == prog.wave \subseteq S /\ InfectedBy(S) \subseteq S
Sources(S) == {prog.block[i] : i \in S \cap Terminators}

\* S explains every result so far: sensitive blocks are entered by a branch in
\* S that they do not post-dominate, and only branches in S are spread.
Explains(S) ==
  /\ \A i \in Insts : inst[i] = "yes" => i \in S
  /\ \A b \in Blocks : block[b] = "yes" =>
       \E a \in Sources(S) : b \in ToSet(prog.succ[a]) /\ ~PostDominates(b, a)
  /\ spread.ws = "yes" =>
       spread.from \in Sources(S) /\ ToSet(spread.rest) \subseteq ToSet(prog.succ[spread.from])
Explained == \A S \in SUBSET Insts : Closed(S) => Explains(S)
EInv == IInv /\ Explained

LEMMA InitExplained == Init => EInv
<1> SUFFICES ASSUME Init PROVE Explained
  BY InitInv DEF EInv
<1>1. \A i \in Insts : inst[i] # "yes"
  BY DEF Init
<1>2. \A b \in Blocks : block[b] # "yes"
  BY DEF Init
<1>3. spread.ws = "no"
  BY DEF Init, NoSpread
<1> QED  BY <1>1, <1>2, <1>3 DEF Explained, Explains

\* What is sensitive by a rule is in every closed set that explains the rest.
LEMMA RuleExplained ==
  ASSUME TypeOK, NEW S \in SUBSET Insts, Closed(S), Explains(S), NEW i \in Insts, Sensitive(i)
  PROVE  i \in S
<1>0. prog \in Programs
  BY DEF TypeOK
<1> USE <1>0, ProgramForm
<1>1. CASE i \in prog.wave
  BY <1>1 DEF Closed
<1>2. CASE block[prog.block[i]] = "yes"
  <2>1. prog.block[i] \in Blocks
    OBVIOUS
  <2>2. \E a \in Sources(S) : prog.block[i] \in ToSet(prog.succ[a]) /\ ~PostDominates(prog.block[i], a)
    BY <1>2, <2>1 DEF Explains
  <2>3. i \in InfectedBy(S)
    BY <2>1, <2>2 DEF InfectedBy, Sources
  <2> QED  BY <2>3 DEF Closed
<1>3. CASE PhiControlled(i)
  <2>1. PICK b \in prog.incoming[i] : i \in prog.phis /\ inst[prog.term[b]] = "yes"
    BY <1>3 DEF PhiControlled
  <2>2. b \in Blocks /\ prog.term[b] \in S \cap Terminators /\ prog.block[prog.term[b]] = b
    BY <2>1 DEF Explains, Terminators
  <2>3. i \in InfectedBy(S)
    BY <2>1, <2>2 DEF InfectedBy
  <2> QED  BY <2>3 DEF Closed
<1>4. CASE \E a \in prog.args[i] : inst[a] = "yes"
  <2>1. prog.args[i] \cap S # {}
    BY <1>4 DEF Explains
  <2>2. i \in InfectedBy(S)
    BY <2>1 DEF InfectedBy
  <2> QED  BY <2>2 DEF Closed
<1> QED  BY <1>1, <1>2, <1>3, <1>4 DEF Sensitive

\* An update to what the rules say leaves everything explained.
LEMMA UpdateExplained ==
  ASSUME IInv, NEW S \in SUBSET Insts, Closed(S), Explains(S), prog' = prog, block' = block,
         NEW i \in Insts, NEW ws \in {"no", "yes"}, UpdateInst(i, ws),
         inst[i] = "yes" => ws = "yes", ws = "yes" => Sensitive(i), spread.rest = <<>>
  PROVE  Explains(S)'
<1>0. TypeOK /\ prog \in Programs
  BY DEF IInv, TypeOK
<1> USE <1>0, ProgramForm, Frame
<1>1. /\ inst'[i] = ws /\ \A j \in Insts \ {i} : inst'[j] = inst[j]
      /\ inst'[i] = inst[i] => spread' = spread
      /\ inst'[i] # inst[i] /\ i \in Terminators =>
           spread' = [from |-> prog.block[i], ws |-> ws, rest |-> prog.succ[prog.block[i]]]
  BY UpdateInstEffect
<1>2. ws = "yes" => i \in S
  BY RuleExplained
<1>3. \A j \in Insts : inst'[j] = "yes" => j \in S
  BY <1>1, <1>2 DEF Explains
<1>4. Sources(S)' = Sources(S)
  BY DEF Sources
<1>5. spread'.ws = "yes" =>
        spread'.from \in Sources(S) /\ ToSet(spread'.rest) \subseteq ToSet(prog.succ[spread'.from])
  <2>1. CASE inst'[i] = inst[i]
    BY <1>1, <2>1 DEF Explains
  <2>2. CASE inst'[i] # inst[i] /\ i \in Terminators
    BY <1>1, <1>2, <2>2 DEF Sources
  <2>3. CASE inst'[i] # inst[i] /\ i \notin Terminators
    <3>1. spread' = NoSpread
      BY <1>1, <2>3 DEF UpdateInst
    <3> QED  BY <3>1 DEF NoSpread
  <2> QED  BY <2>1, <2>2, <2>3
<1>6. \A b \in Blocks : block'[b] = "yes" =>
        \E a \in Sources(S) : b \in ToSet(prog.succ[a]) /\ ~PostDominates(b, a)
  BY DEF Explains
<1> QED  BY <1>3, <1>4, <1>5, <1>6 DEF Explains

LEMMA SpreadExplained ==
  ASSUME IInv, NEW S \in SUBSET Insts, Closed(S), Explains(S), Spread
  PROVE  Explains(S)'
<1>0. TypeOK /\ prog \in Programs /\ prog' = prog /\ inst' = inst
  BY DEF IInv, TypeOK, Spread
<1> USE <1>0, ProgramForm, Frame
<1> DEFINE h == Head(spread.rest)
           ws == SpreadState(h, spread.from, spread.ws)
<1>1. spread.rest \in Seq(Blocks) /\ spread.rest # <<>> /\ spread.ws \in States
  BY DEF TypeOK, Spread
<1>2. h \in Blocks /\ Tail(spread.rest) \in Seq(Blocks)
  BY <1>1, TakeHead
<1>3. h \in ToSet(spread.rest) /\ ToSet(Tail(spread.rest)) \subseteq ToSet(spread.rest)
  <2>1. Len(spread.rest) \in Nat /\ Len(spread.rest) >= 1 /\ h = spread.rest[1]
    BY <1>1
  <2>2. Len(Tail(spread.rest)) = Len(spread.rest) - 1
    BY <1>1
  <2>3. \A k \in 1 .. Len(spread.rest) - 1 : Tail(spread.rest)[k] = spread.rest[k + 1]
    BY <1>1
  <2>4. \A k \in 1 .. Len(spread.rest) - 1 : k + 1 \in 1 .. Len(spread.rest)
    BY <2>1
  <2> HIDE DEF h
  <2>5. \A k \in 1 .. Len(Tail(spread.rest)) : Tail(spread.rest)[k] \in ToSet(spread.rest)
    BY <2>2, <2>3, <2>4 DEF ToSet
  <2>6. h \in ToSet(spread.rest)
    BY <2>1 DEF ToSet
  <2>7. DOMAIN Tail(spread.rest) = 1 .. Len(Tail(spread.rest))
    BY <1>2
  <2>8. ASSUME NEW x \in ToSet(Tail(spread.rest)) PROVE x \in ToSet(spread.rest)
    <3>1. PICK k \in 1 .. Len(Tail(spread.rest)) : x = Tail(spread.rest)[k]
      BY <2>7 DEF ToSet
    <3> QED  BY <2>5, <3>1
  <2> QED  BY <2>6, <2>8
<1>4. ws \in States /\ UpdateBlock(h, ws) /\ spread' = [spread EXCEPT !.rest = Tail(@)]
  BY <1>1 DEF Spread, SpreadState, States
<1>5. /\ spread'.from = spread.from /\ spread'.ws = spread.ws /\ spread'.rest = Tail(spread.rest)
  BY <1>4 DEF TypeOK
<1>6. ws = "yes" => spread.ws = "yes" /\ ~PostDominates(h, spread.from)
  BY <1>1 DEF SpreadState
<1> HIDE DEF h, ws
<1>7. \A c \in Blocks : block'[c] = "yes" => block[c] = "yes" \/ (c = h /\ ws = "yes")
  BY <1>2, <1>4 DEF UpdateBlock, NeedsUpdate, TypeOK
<1>8. Sources(S)' = Sources(S)
  BY DEF Sources
<1>9. \A b \in Blocks : block'[b] = "yes" =>
        \E a \in Sources(S) : b \in ToSet(prog.succ[a]) /\ ~PostDominates(b, a)
  <2>1. SUFFICES ASSUME NEW b \in Blocks, block'[b] = "yes"
                 PROVE  \E a \in Sources(S) : b \in ToSet(prog.succ[a]) /\ ~PostDominates(b, a)
    OBVIOUS
  <2>2. CASE block[b] = "yes"
    BY <2>2 DEF Explains
  <2>3. CASE b = h /\ ws = "yes"
    BY <1>3, <1>6, <2>3 DEF Explains
  <2> QED  BY <1>7, <2>1, <2>2, <2>3
<1>10. \A i \in Insts : inst'[i] = "yes" => i \in S
  BY DEF Explains
<1>11. spread'.ws = "yes" =>
         spread'.from \in Sources(S) /\ ToSet(spread'.rest) \subseteq ToSet(prog.succ[spread'.from])
  BY <1>3, <1>5 DEF Explains
<1> QED  BY <1>8, <1>9, <1>10, <1>11 DEF Explains

LEMMA StepExplained == EInv /\ [Next]_vars => EInv'
<1> SUFFICES ASSUME EInv, [Next]_vars PROVE Explained'
  BY StepInv DEF EInv
<1>0. IInv /\ TypeOK /\ prog \in Programs /\ prog' = prog
  BY DEF EInv, IInv, TypeOK, Next, vars, Spread, PopInst, PopBlock, EndAnalysis, EndRound,
         LastAnalysis, Visit, ResolvePhi, ForcePhi
<1> USE <1>0, ProgramForm, Frame
<1>1. SUFFICES ASSUME NEW S \in SUBSET Insts, Closed(S) PROVE Explains(S)'
  <2>1. ASSUME NEW S PROVE Closed(S)' <=> Closed(S)
    BY ONLY prog' = prog DEF Closed, InfectedBy, Terminators, Insts, Blocks, PostDominates
  <2> QED  BY <1>1, <2>1 DEF Explained
<1>2. Explains(S)
  BY <1>1 DEF EInv, Explained
<1>3. CASE UNCHANGED <<inst, block, spread>>
  <2>1. Sources(S)' = Sources(S)
    BY DEF Sources
  <2> QED  BY <1>2, <1>3, <2>1 DEF Explains
<1>4. CASE Spread
  BY <1>1, <1>2, <1>4, SpreadExplained
<1>5. ASSUME NEW i \in Insts, Visit(i) PROVE Explains(S)'
  <2>1. block' = block /\ spread.rest = <<>>
    BY <1>5 DEF Visit, Analyzing
  <2>2. CASE ~Sensitive(i) /\ ~AllArgsNot(i)
    BY <1>3, <1>5, <2>1, <2>2 DEF Visit
  <2>3. CASE Sensitive(i) \/ AllArgsNot(i)
    <3>1. PICK ws \in {"no", "yes"} : /\ UpdateInst(i, ws)
                                      /\ ws = "yes" <=> Sensitive(i)
      BY <1>5, <2>3 DEF Visit
    <3>2. inst[i] = "yes" => ws = "yes"
      BY <3>1 DEF IInv, Justified
    <3>3. ws = "yes" => Sensitive(i)
      BY <3>1
    <3>4. UpdateInst(i, ws)
      BY <3>1
    <3> QED  BY ONLY <1>0, <1>1, <1>2, <2>1, <3>2, <3>3, <3>4, i \in Insts, UpdateExplained
  <2> QED  BY <2>2, <2>3
<1>6. ASSUME NEW i \in Insts, ResolvePhi(i) \/ ForcePhi(i) PROVE Explains(S)'
  <2>1. block' = block /\ spread.rest = <<>>
    BY <1>6 DEF ResolvePhi, ForcePhi, IInv, Quiet
  <2>2. UNCHANGED <<inst, spread>> \/ (inst[i] = "unknown" /\ UpdateInst(i, "no"))
    BY <1>6 DEF ResolvePhi, ForcePhi
  <2>3. CASE UNCHANGED <<inst, spread>>
    BY <1>3, <2>1, <2>3
  <2>4. CASE inst[i] = "unknown" /\ UpdateInst(i, "no")
    BY <1>1, <1>2, <2>1, <2>4, UpdateExplained
  <2> QED  BY <2>2, <2>3, <2>4
<1>7. PopInst \/ PopBlock \/ EndAnalysis \/ EndRound \/ LastAnalysis \/ UNCHANGED vars
        => UNCHANGED <<inst, block, spread>>
  BY DEF PopInst, PopBlock, EndAnalysis, EndRound, LastAnalysis, vars
<1> QED  BY <1>3, <1>4, <1>5, <1>6, <1>7 DEF Next

-----------------------------------------------------------------------------
(* What is reached is closed, so that it explains the result.               *)

\* Induction over the naturals, for a set rather than an operator.
LEMMA EveryNatural ==
  ASSUME NEW T, 0 \in T, \A n \in Nat : n \in T => n + 1 \in T
  PROVE  Nat \subseteq T
<1> DEFINE F == Nat \ T
<1> SUFFICES ASSUME F # {} PROVE FALSE
  OBVIOUS
<1>1. PICK x \in F : \A y \in F : ~(<<y, x>> \in OpToRel(<, Nat))
  BY NatLessThanWellFounded, WFMin
<1>2. x \in Nat /\ x \notin T /\ x # 0
  OBVIOUS
<1>3. x - 1 \in Nat /\ x - 1 < x /\ (x - 1) + 1 = x
  BY <1>2
<1>4. x - 1 \notin T
  BY <1>2, <1>3
<1>5. <<x - 1, x>> \in OpToRel(<, Nat)
  BY <1>2, <1>3 DEF OpToRel
<1> QED  BY <1>1, <1>3, <1>4, <1>5

\* f lists what is reached in so many steps.
ReachedFn(f) ==
  f = [k \in 0 .. Cardinality(Insts) |-> IF k = 0 THEN prog.wave ELSE Infect(f[k - 1])]
ReachedIn(f, n) == f[0] = prog.wave /\ \A k \in 1 .. n : f[k] = Infect(f[k - 1])

LEMMA ReachedIs == Reached = (CHOOSE f : ReachedFn(f))[Cardinality(Insts)]
BY DEF Reached, ReachedFn

LEMMA ReachedExists ==
  ASSUME Cardinality(Insts) \in Nat
  PROVE  \E f : ReachedIn(f, Cardinality(Insts)) /\ Reached = f[Cardinality(Insts)]
<1> DEFINE n == Cardinality(Insts)
           T == {m \in Nat : \E f : ReachedIn(f, m)}
<1>1. 0 \in T
  <2>1. ReachedIn([k \in {0} |-> prog.wave], 0)
    BY DEF ReachedIn
  <2> QED  BY <2>1
<1>2. ASSUME NEW m \in Nat, m \in T PROVE m + 1 \in T
  <2>1. PICK f : ReachedIn(f, m)
    BY <1>2
  <2> DEFINE g == [k \in 0 .. m + 1 |-> IF k = m + 1 THEN Infect(f[m]) ELSE f[k]]
  <2>2. g[0] = prog.wave
    BY <2>1 DEF ReachedIn
  <2>3. ASSUME NEW k \in 1 .. m + 1 PROVE g[k] = Infect(g[k - 1])
    <3>1. k - 1 \in 0 .. m + 1 /\ k \in 0 .. m + 1 /\ k - 1 # m + 1 /\ g[k - 1] = f[k - 1]
      OBVIOUS
    <3>2. CASE k = m + 1
      <4>1. k - 1 = m
        BY <3>2
      <4> QED  BY <3>1, <3>2, <4>1
    <3>3. CASE k # m + 1
      <4>1. k \in 1 .. m
        BY <3>3
      <4>2. f[k] = Infect(f[k - 1])
        BY <2>1, <4>1 DEF ReachedIn
      <4> QED  BY <3>1, <3>3, <4>2
    <3> QED  BY <3>2, <3>3
  <2> HIDE DEF g
  <2>4. ReachedIn(g, m + 1)
    BY <2>2, <2>3 DEF ReachedIn
  <2> QED  BY <2>4
<1> HIDE DEF T
<1>3. n \in T
  BY <1>1, <1>2, EveryNatural
<1>4. PICK f : ReachedIn(f, n)
  BY <1>3 DEF T
<1> DEFINE g == [k \in 0 .. n |-> f[k]]
<1>5. ReachedFn(g)
  <2> DEFINE h == [k \in 0 .. n |-> IF k = 0 THEN prog.wave ELSE Infect(g[k - 1])]
  <2>1. ASSUME NEW k \in 0 .. n PROVE g[k] = h[k]
    <3>1. CASE k = 0
      BY <1>4, <3>1 DEF ReachedIn
    <3>2. CASE k # 0
      <4>1. k \in 1 .. n /\ k - 1 \in 0 .. n
        BY <3>2
      <4>2. f[k] = Infect(f[k - 1])
        BY <1>4, <4>1 DEF ReachedIn
      <4> QED  BY <3>2, <4>1, <4>2
    <3> QED  BY <3>1, <3>2
  <2>2. g = h
    BY <2>1
  <2> QED  BY <2>2 DEF ReachedFn
<1>6. PICK c : ReachedFn(c) /\ Reached = c[n]
  <2>1. ReachedFn(CHOOSE c : ReachedFn(c))
    BY <1>5
  <2> QED  BY <2>1, ReachedIs
<1>7. ReachedIn(c, n)
  <2>1. \A k \in 0 .. n : c[k] = IF k = 0 THEN prog.wave ELSE Infect(c[k - 1])
    BY <1>6 DEF ReachedFn
  <2>2. 0 \in 0 .. n /\ \A k \in 1 .. n : k \in 0 .. n /\ k # 0
    OBVIOUS
  <2> HIDE DEF n
  <2>3. c[0] = prog.wave
    BY <2>1, <2>2
  <2>4. \A k \in 1 .. n : c[k] = Infect(c[k - 1])
    BY <2>1, <2>2
  <2> QED  BY <2>3, <2>4 DEF ReachedIn
<1> QED  BY <1>6, <1>7

\* Each step adds an instruction until nothing can be added, and there are no
\* more steps than instructions.
LEMMA ReachedClosed ==
  ASSUME prog \in Programs
  PROVE  Reached \in SUBSET Insts /\ Closed(Reached)
<1>0. IsFiniteSet(Insts) /\ prog.wave \subseteq Insts
  BY ProgramAssumption DEF WellFormed, Insts
<1> DEFINE n == Cardinality(Insts)
<1>1. n \in Nat
  BY <1>0, FS_CardinalityType
<1>2. PICK f : ReachedIn(f, n) /\ Reached = f[n]
  BY <1>1, ReachedExists
<1> DEFINE Far(k) == /\ f[k] \subseteq Insts /\ prog.wave \subseteq f[k]
                     /\ InfectedBy(f[k]) \subseteq f[k] \/ Cardinality(f[k]) >= k
           T == {k \in Nat : k <= n => Far(k)}
<1>3. ASSUME NEW S \in SUBSET Insts PROVE IsFiniteSet(S) /\ Cardinality(S) \in Nat
  BY <1>0, FS_Subset, FS_CardinalityType
<1>4. 0 \in T
  <2>1. f[0] = prog.wave
    BY <1>2 DEF ReachedIn
  <2>2. Cardinality(f[0]) \in Nat
    BY <1>0, <1>3, <2>1
  <2>3. Far(0)
    BY <1>0, <2>1, <2>2
  <2> QED  BY <2>3
<1>5. ASSUME NEW k \in Nat, k \in T PROVE k + 1 \in T
  <2> SUFFICES ASSUME k + 1 <= n PROVE Far(k + 1)
    OBVIOUS
  <2>1. Far(k)
    BY <1>1, <1>5
  <2>2. f[k + 1] = f[k] \cup InfectedBy(f[k])
    <3>1. k + 1 \in 1 .. n /\ (k + 1) - 1 = k
      BY <1>1
    <3> QED  BY <1>2, <3>1 DEF ReachedIn, Infect
  <2>3. InfectedBy(f[k]) \subseteq Insts
    BY DEF InfectedBy
  <2>4. CASE InfectedBy(f[k]) \subseteq f[k]
    <3>1. f[k + 1] = f[k]
      BY <2>2, <2>4
    <3> QED  BY <2>1, <2>4, <3>1
  <2>5. CASE ~(InfectedBy(f[k]) \subseteq f[k])
    <3> DEFINE A == f[k]
               B == f[k + 1]
    <3>1. A \subseteq B /\ A # B /\ B \in SUBSET Insts /\ A \in SUBSET Insts /\ prog.wave \subseteq B
      BY <2>1, <2>2, <2>3, <2>5
    <3>2. Cardinality(A) >= k
      BY <2>1, <2>5
    <3> HIDE DEF A, B
    <3>3. Cardinality(A) < Cardinality(B) /\ Cardinality(A) \in Nat /\ Cardinality(B) \in Nat
      <4>1. IsFiniteSet(B) /\ Cardinality(A) \in Nat /\ Cardinality(B) \in Nat
        BY <1>3, <3>1
      <4>2. Cardinality(A) <= Cardinality(B) /\ (Cardinality(A) = Cardinality(B) => A = B)
        BY <3>1, <4>1, FS_Subset
      <4> QED  BY <3>1, <4>1, <4>2
    <3>4. Cardinality(B) >= k + 1
      BY <3>2, <3>3
    <3> QED  BY <3>1, <3>4 DEF B
  <2> QED  BY <2>4, <2>5
<1> HIDE DEF T
<1>6. n \in T
  BY <1>1, <1>4, <1>5, EveryNatural
<1>7. Far(n)
  BY <1>1, <1>6 DEF T
<1>8. InfectedBy(f[n]) \subseteq f[n]
  <2>1. CASE Cardinality(f[n]) >= n
    <3> DEFINE A == f[n]
    <3>1. A \subseteq Insts /\ Cardinality(A) >= Cardinality(Insts)
      BY <1>7, <2>1
    <3> HIDE DEF A
    <3>2. Cardinality(A) <= Cardinality(Insts) /\ (Cardinality(A) = Cardinality(Insts) => A = Insts)
      BY <1>0, <3>1, FS_Subset
    <3>3. Cardinality(A) \in Nat
      BY <1>3, <3>1
    <3>4. A = Insts
      BY <1>1, <3>1, <3>2, <3>3
    <3>5. InfectedBy(A) \subseteq Insts
      BY DEF InfectedBy
    <3> QED  BY <3>4, <3>5 DEF A
  <2> QED  BY <1>7, <2>1
<1> QED  BY <1>2, <1>7, <1>8 DEF Closed

\* What is found sensitive depends on a wave operation, through operands, the
\* branches around its block, or the branches into a phi.
THEOREM NothingInVain == Spec => []NoFalseAlarm
<1>1. EInv => NoFalseAlarm
  <2> SUFFICES ASSUME EInv PROVE NoFalseAlarm
    OBVIOUS
  <2>1. Reached \in SUBSET Insts /\ Closed(Reached)
    BY ReachedClosed DEF EInv, IInv, TypeOK
  <2>2. Explains(Reached)
    BY <2>1 DEF EInv, Explained
  <2> QED  BY <2>2 DEF Explains, NoFalseAlarm
<1> QED  BY <1>1, InitExplained, StepExplained, PTL DEF Spec
=============================================================================
