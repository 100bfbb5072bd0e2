---------------------------- MODULE LinkerProofs ----------------------------
(***************************************************************************)
(* For all libraries and requests: types, the function map, and that what  *)
(* is linked is what the roots need, with every callee accounted for, and  *)
(* that a link fails when there is a reason to and only then.              *)
(***************************************************************************)
EXTENDS Linker, FiniteSetTheorems, TLAPS

(* The inductive invariant.                                                *)

\* The map sends the functions of each attached library to it.
Owners ==
  /\ \A n \in attached : lib[n] \in Libs
  /\ DOMAIN table = UNION {Symbols(n) : n \in attached}
  /\ \A n \in attached : \A s \in Symbols(n) : table[s] = n

\* Only what is no shader has been hidden.
HiddenRight ==
  \A n \in Names : \A s \in AllSymbols :
    <<n, s>> \in hidden => lib[n] \in Libs /\ s \notin Entries(n)

Linking == call.step \in {"functions", "initializers"}
Pending == added \cup work

\* Before a link begins its sets are empty.
Fresh ==
  call.step \in {"idle", "attach"} => added = {} /\ work = {} /\ libSet = {} /\ decls = {}

\* The roots are in; the callees of what is in and loaded are in, to do, or
\* stay declarations.
RootsIn == Linking => Roots \subseteq Pending
CalleesIn ==
  Linking =>
    \A s \in added :
      /\ Defined(s)
      /\ table[s] \in libSet
      /\ call.step = "functions" => <<table[s], s>> \in loaded
      /\ <<table[s], s>> \in loaded =>
           \A c \in Calls(table[s], s) : c \in Pending \/ (c \in decls /\ MayStay(c))
LibsIn == Linking => libSet \subseteq attached

\* Nothing is in, or to do, that is not needed.
Justified == Linking => \A S \in SUBSET DOMAIN table : Complete(S) => Pending \cap DOMAIN table \subseteq S

\* The second round adds initializers and what they call in their own source,
\* so that no further initializer becomes due.
InitFuncs(l) ==
  CHOOSE I \in SUBSET l.funs : l.ctors \subseteq I /\ \A f \in I : l.calls[f] \subseteq I
CtorsIn ==
  call.step = "initializers" =>
    /\ \A s \in Pending : Defined(s)
    /\ \A s \in Pending : \A c \in Ctors(table[s]) \ {s} :
         Uses(table[s], s) \cap Uses(table[s], c) # {} => c \in Pending
    /\ \A s \in work : /\ s[2] \in InitFuncs(lib[table[s]])
                       /\ Ctors(table[s]) \subseteq Pending

\* With -export-shaders-only everything but the shaders is hidden.
ShadersShown ==
  Linking /\ Target = "shaders" => \A n \in attached : At(n, Symbols(n) \ Entries(n)) \subseteq hidden

\* What a finished link promises.
Promise == LinkExact /\ CallsLinked

IInv ==
  /\ TypeOK /\ Owners /\ HiddenRight /\ Fresh
  /\ RootsIn /\ CalleesIn /\ LibsIn /\ Justified /\ CtorsIn /\ ShadersShown
  /\ Promise

-----------------------------------------------------------------------------
(* Facts about libraries.                                                  *)

\* Symbols of a library that is there.
LEMMA SymbolFacts ==
  ASSUME NEW n \in Names, lib[n] \in Libs
  PROVE  /\ Symbols(n) \subseteq AllSymbols
         /\ Entries(n) \subseteq Symbols(n) /\ Ctors(n) \subseteq Symbols(n)
         /\ \A s \in Symbols(n) : s[2] \in lib[n].funs /\ Symbol(n, s[2]) = s
         /\ \A s \in Entries(n) : s[1] = None
         /\ \A s : Calls(n, s) = {Symbol(n, f) : f \in lib[n].calls[s[2]]}
         /\ \A s \in AllSymbols : Calls(n, s) \subseteq AllSymbols
         /\ \A c, d \in Ctors(n) : c = d
<1>1. LibWellFormed(lib[n])
  BY LinkerAssumption
<1>2. \A f : Symbol(n, f)[2] = f
  BY DEF Symbol
<1>3. \A f \in Funcs : Symbol(n, f) \in AllSymbols
  BY DEF Symbol, AllSymbols
<1>4. Symbols(n) \subseteq AllSymbols
  BY <1>1, <1>3 DEF Symbols, LibWellFormed
<1>5. Entries(n) \subseteq Symbols(n) /\ Ctors(n) \subseteq Symbols(n)
  BY <1>1 DEF Entries, Ctors, Symbols, LibWellFormed
<1>6. \A s \in Symbols(n) : s[2] \in lib[n].funs /\ Symbol(n, s[2]) = s
  BY <1>2 DEF Symbols
<1>7. \A s \in Entries(n) : s[1] = None
  BY <1>1 DEF Entries, Symbol, LibWellFormed
<1>8. \A s \in AllSymbols : Calls(n, s) \subseteq AllSymbols
  BY <1>1, <1>3 DEF Calls, AllSymbols, LibWellFormed
<1>9. \A c, d \in Ctors(n) : c = d
  BY <1>1 DEF Ctors, LibWellFormed
<1> QED  BY <1>4, <1>5, <1>6, <1>7, <1>8, <1>9 DEF Calls

\* What the initializers call stays in their library.
LEMMA InitFuncsClosed ==
  ASSUME NEW l \in Libs
  PROVE  /\ InitFuncs(l) \subseteq l.funs /\ l.ctors \subseteq InitFuncs(l)
         /\ \A f \in InitFuncs(l) : l.calls[f] \subseteq InitFuncs(l)
<1>1. \E I \in SUBSET l.funs : l.ctors \subseteq I /\ \A f \in I : l.calls[f] \subseteq I
  BY LinkerAssumption DEF LibWellFormed
<1> QED  BY <1>1 DEF InitFuncs

\* The function map belongs to the attached libraries, one owner each.
LEMMA OwnersFacts ==
  ASSUME TypeOK, Owners
  PROVE  /\ \A s \in DOMAIN table : /\ table[s] \in attached /\ table[s] \in Names
                                    /\ lib[table[s]] \in Libs
                                    /\ s \in Symbols(table[s]) /\ s \in AllSymbols
         /\ \A n \in attached : Symbols(n) \subseteq DOMAIN table
         /\ \A s \in AllSymbols : Defined(s) => s \in DOMAIN table
BY DEF TypeOK, Owners, Defined

-----------------------------------------------------------------------------
(* Steps outside the work list.                                            *)

\* Outside a link nothing is said of its sets.
LEMMA OutsideLink ==
  ASSUME call.step' \notin {"functions", "initializers", "linked"}
  PROVE  (RootsIn /\ CalleesIn /\ LibsIn /\ Justified /\ CtorsIn /\ ShadersShown /\ Promise)'
BY DEF RootsIn, CalleesIn, LibsIn, Justified, CtorsIn, ShadersShown, Promise, LinkExact, CallsLinked, Linking

\* The map and what is hidden follow from libraries that stay.
LEMMA LibrariesStay ==
  ASSUME UNCHANGED lib
  PROVE  /\ \A n : Symbols(n)' = Symbols(n) /\ Entries(n)' = Entries(n) /\ Ctors(n)' = Ctors(n)
         /\ \A n, s : Calls(n, s)' = Calls(n, s) /\ Uses(n, s)' = Uses(n, s)
         /\ UNCHANGED <<attached, table>> /\ Owners => Owners'
         /\ UNCHANGED hidden /\ HiddenRight => HiddenRight'
<1>1. \A n : Symbols(n)' = Symbols(n) /\ Entries(n)' = Entries(n) /\ Ctors(n)' = Ctors(n)
  BY DEF Symbols, Symbol, Entries, Ctors
<1>2. \A n, s : Calls(n, s)' = Calls(n, s) /\ Uses(n, s)' = Uses(n, s)
  BY DEF Calls, Symbol, Uses
<1>3. UNCHANGED <<attached, table>> /\ Owners => Owners'
  BY <1>1 DEF Owners
<1>4. UNCHANGED hidden /\ HiddenRight => HiddenRight'
  BY <1>1 DEF HiddenRight, AllSymbols
<1> QED  BY <1>1, <1>2, <1>3, <1>4

LEMMA InitInv == Init => IInv
<1> SUFFICES ASSUME Init PROVE IInv
  OBVIOUS
<1>1. call.step = "idle"
  BY DEF Init, NoCall
<1>2. TypeOK
  BY DEF Init, NoCall, TypeOK, Versions
<1>3. Owners /\ HiddenRight /\ Fresh
  BY DEF Init, Owners, HiddenRight, Fresh
<1>4. RootsIn /\ CalleesIn /\ LibsIn /\ Justified /\ CtorsIn /\ ShadersShown /\ Promise
  BY <1>1 DEF RootsIn, CalleesIn, LibsIn, Justified, CtorsIn, ShadersShown, Promise,
              LinkExact, CallsLinked, Linking
<1> QED  BY <1>2, <1>3, <1>4 DEF IInv

LEMMA RegisterInv ==
  ASSUME IInv, NEW n \in Names, RegisterLibrary(n) PROVE IInv'
<1>0. TypeOK /\ Owners /\ HiddenRight /\ Fresh
  BY DEF IInv
<1>1. PICK l \in Libs : lib' = [lib EXCEPT ![n] = l]
  BY DEF RegisterLibrary
<1>2. /\ call.step = "idle" /\ lib[n] = None
      /\ UNCHANGED <<attached, table, loaded, usage, hidden, call, work, added, libSet, decls, visible>>
  BY DEF RegisterLibrary, linkVars
<1>3. TypeOK'
  BY <1>0, <1>1, <1>2 DEF TypeOK
<1>4. lib[n] \notin Libs
  BY <1>2, LinkerAssumption
<1>5. \A m \in Names : m # n => lib'[m] = lib[m]
  BY <1>0, <1>1 DEF TypeOK
<1>6. \A m \in Names : m # n => Symbols(m)' = Symbols(m) /\ Entries(m)' = Entries(m)
  BY <1>5 DEF Symbols, Symbol, Entries
<1>7. \A m \in attached : m \in Names /\ m # n
  BY <1>0, <1>4 DEF Owners, TypeOK
<1>8. Owners'
  BY <1>0, <1>2, <1>5, <1>6, <1>7 DEF Owners
<1>9. HiddenRight'
  BY <1>0, <1>2, <1>4, <1>5, <1>6 DEF HiddenRight
<1> QED  BY <1>0, <1>2, <1>3, <1>8, <1>9, OutsideLink DEF IInv, Fresh

LEMMA DetachInv ==
  ASSUME IInv, DetachAll PROVE IInv'
<1>0. TypeOK /\ HiddenRight /\ Fresh
  BY DEF IInv
<1>1. /\ call.step = "idle" /\ attached' = {} /\ table' = [f \in {} |-> None]
      /\ UNCHANGED <<lib, loaded, usage, hidden, work, added, libSet, decls, visible>>
  BY DEF DetachAll, libVars, linkVars
<1>2. \/ \E r \in Requests : call' = [NoCall EXCEPT !.step = "attach", !.request = r]
      \/ call' = call
  BY DEF DetachAll
<1>3. call'.step \in {"idle", "attach"}
  BY <1>1, <1>2 DEF NoCall
<1>4. TypeOK'
  <2>1. CASE call' = call
    BY <1>0, <1>1, <2>1 DEF TypeOK
  <2>2. CASE \E r \in Requests : call' = [NoCall EXCEPT !.step = "attach", !.request = r]
    <3>1. PICK r \in Requests : call' = [NoCall EXCEPT !.step = "attach", !.request = r]
      BY <2>2
    <3>2. Len(r.libs) \in Nat
      BY LinkerAssumption DEF RequestWellFormed
    <3>3. None \in Versions /\ 0 <= Len(r.libs)
      BY <3>2 DEF Versions
    <3>4. call' = [step |-> "attach", request |-> r, at |-> 0, ok |-> TRUE, cur |-> None, first |-> None]
      BY <3>1 DEF NoCall
    <3> HIDE DEF Versions
    <3>5. /\ call' \in [step : {"idle", "attach", "functions", "initializers",
                               "linked", "failed", "undefined"},
                        request : Requests \cup {None}, at : Nat, ok : BOOLEAN,
                        cur : Versions, first : Versions]
          /\ call'.request \in Requests /\ call'.at <= Len(call'.request.libs)
      BY <3>3, <3>4
    <3> QED  BY <1>0, <1>1, <3>5 DEF TypeOK, AllSymbols, Versions
  <2> QED  BY <1>2, <2>1, <2>2
<1>5. Owners'
  BY <1>1 DEF Owners
<1>6. HiddenRight'
  BY <1>0, <1>1, LibrariesStay
<1> QED  BY <1>0, <1>1, <1>3, <1>4, <1>5, <1>6, OutsideLink DEF IInv, Fresh

LEMMA AttachInv ==
  ASSUME IInv, AttachNext PROVE IInv'
<1>0. TypeOK /\ Owners /\ HiddenRight /\ Fresh
  BY DEF IInv
<1> DEFINE i == call.at + 1
           n == call.request.libs[i]
<1>1. /\ call.step = "attach" /\ call.at < Len(call.request.libs)
      /\ AttachLib(n)
      /\ UNCHANGED <<lib, loaded, usage, hidden, work, added, libSet, decls, visible>>
  BY DEF AttachNext, libVars, linkVars
<1>2. call.request \in Requests /\ call.request.libs \in Seq(Names) /\ call.at \in Nat
  BY <1>0, <1>1, LinkerAssumption DEF TypeOK, RequestWellFormed
<1>3. i \in 1 .. Len(call.request.libs) /\ n \in Names
  BY <1>1, <1>2
<1>4. Version(n) \in Versions
  BY <1>0, <1>3 DEF Version, Versions, TypeOK
<1>5. call' = [call EXCEPT !.at = i, !.cur = Version(n),
                           !.first = IF i = 1 THEN Version(n) ELSE call.first,
                           !.ok = @ /\ Attaches(n) /\ Version(n) = (IF i = 1 THEN Version(n) ELSE call.first)]
  BY DEF AttachNext
<1>6. call' \in [step : {"idle", "attach", "functions", "initializers",
                         "linked", "failed", "undefined"},
                 request : Requests \cup {None}, at : Nat, ok : BOOLEAN,
                 cur : Versions, first : Versions]
      /\ call'.step = "attach" /\ call'.request = call.request /\ call'.at <= Len(call'.request.libs)
  <2>1. (call.ok /\ Attaches(n) /\ Version(n) = (IF i = 1 THEN Version(n) ELSE call.first)) \in BOOLEAN
    OBVIOUS
  <2> HIDE DEF n, i
  <2>2. i \in Nat /\ i <= Len(call.request.libs)
    BY <1>2, <1>3
  <2> QED  BY <1>0, <1>1, <1>4, <1>5, <2>1, <2>2 DEF TypeOK
<1> HIDE DEF n, i
<1>7. attached' \subseteq Names /\ Owners'
  <2>1. CASE Attaches(n)
    <3>1. lib[n] \in Libs /\ n \notin attached /\ Symbols(n) \cap DOMAIN table = {}
      BY <1>0, <1>3, <2>1 DEF Attaches, Attachable, TypeOK
    <3>2. attached' = attached \cup {n} /\ table' = WithFunctions(n)
      BY <1>1, <2>1 DEF AttachLib, Attaches
    <3>3. DOMAIN table' = DOMAIN table \cup Symbols(n)
      BY <3>2 DEF WithFunctions
    <3>4. \A s \in Symbols(n) : table'[s] = n
      BY <3>1, <3>2 DEF WithFunctions, Defined
    <3>5. \A s \in DOMAIN table : table'[s] = table[s]
      BY <3>2 DEF WithFunctions, Defined
    <3>6. \A m \in attached : Symbols(m) \subseteq DOMAIN table
      BY <1>0 DEF Owners
    <3>7. \A m : Symbols(m)' = Symbols(m)
      BY <1>1, LibrariesStay
    <3>8. DOMAIN table' = UNION {Symbols(m) : m \in attached'}
      BY <1>0, <3>2, <3>3 DEF Owners
    <3>9. \A m \in attached' : \A s \in Symbols(m) : table'[s] = m
      BY <1>0, <3>2, <3>4, <3>5, <3>6 DEF Owners
    <3>10. \A m \in attached' : lib'[m] \in Libs
      BY <1>0, <1>1, <3>1, <3>2 DEF Owners
    <3>11. attached' \subseteq Names
      BY <1>0, <1>3, <3>2 DEF TypeOK
    <3> QED  BY <3>7, <3>8, <3>9, <3>10, <3>11 DEF Owners
  <2>2. CASE ~Attachable(n)
    BY <1>0, <1>1, <2>2, LibrariesStay DEF AttachLib, TypeOK
  <2>3. CASE Attachable(n) /\ ~Attaches(n)
    <3>1. n \notin attached /\ attached' = attached /\ table' = RemoveFunctions(WithFunctions(n), n)
      BY <1>1, <2>3 DEF AttachLib, Attaches, Attachable
    <3>2. \A s \in DOMAIN table : table[s] # n
      BY <1>0, <3>1, OwnersFacts
    <3>3. DOMAIN WithFunctions(n) = DOMAIN table \cup Symbols(n)
      BY DEF WithFunctions
    <3>4. /\ \A s \in DOMAIN table : WithFunctions(n)[s] = table[s]
          /\ \A s \in Symbols(n) \ DOMAIN table : WithFunctions(n)[s] = n
      BY DEF WithFunctions, Defined
    <3>5. DOMAIN table' = {s \in DOMAIN WithFunctions(n) : WithFunctions(n)[s] # n}
      BY <3>1 DEF RemoveFunctions
    <3>6. DOMAIN table' = DOMAIN table
      BY <3>2, <3>3, <3>4, <3>5
    <3>7. \A s \in DOMAIN table : table'[s] = table[s]
      BY <3>1, <3>4, <3>5, <3>6 DEF RemoveFunctions
    <3>8. \A m : Symbols(m)' = Symbols(m)
      BY <1>1, LibrariesStay
    <3>9. \A m \in attached : Symbols(m) \subseteq DOMAIN table
      BY <1>0 DEF Owners
    <3>10. \A m \in attached' : \A s \in Symbols(m)' : table'[s] = m
      BY <1>0, <3>1, <3>7, <3>8, <3>9 DEF Owners
    <3>11. \A m \in attached' : lib'[m] \in Libs
      BY <1>0, <1>1, <3>1 DEF Owners
    <3>12. DOMAIN table' = UNION {Symbols(m)' : m \in attached'}
      BY <1>0, <3>1, <3>6, <3>8 DEF Owners
    <3> QED  BY <1>0, <3>1, <3>10, <3>11, <3>12 DEF Owners, TypeOK
  <2> QED  BY <2>1, <2>2, <2>3 DEF Attaches
<1>8. TypeOK'
  <2>1. \A m \in attached' : Symbols(m)' \subseteq AllSymbols
    BY <1>0, <1>1, <1>7, SymbolFacts, LibrariesStay DEF Owners
  <2>2. \A s \in DOMAIN table' : \E m \in attached' : s \in Symbols(m)'
    BY <1>7 DEF Owners
  <2>3. \A s \in DOMAIN table' : s \in AllSymbols /\ table'[s] \in Names
    BY <1>7, <2>1, <2>2 DEF Owners
  <2>4. call'.request \in Requests
    BY <1>2, <1>6
  <2> QED  BY <1>0, <1>1, <1>6, <1>7, <2>3, <2>4 DEF TypeOK, AllSymbols, Versions
<1>9. HiddenRight'
  BY <1>0, <1>1, LibrariesStay
<1>10. call.step' \notin {"functions", "initializers", "linked"}
  BY <1>6
<1>11. Fresh'
  BY <1>0, <1>1, <1>6 DEF Fresh
<1> QED  BY <1>7, <1>8, <1>9, <1>10, <1>11, OutsideLink DEF IInv

-----------------------------------------------------------------------------
(* A link begins.                                                          *)

\* A step of Link to another stage keeps the request.
LEMMA StepTo ==
  ASSUME TypeOK, call.step # "idle",
         NEW x \in {"functions", "initializers", "linked", "failed", "undefined"}, Goto(x)
  PROVE  /\ call' \in [step : {"idle", "attach", "functions", "initializers",
                               "linked", "failed", "undefined"},
                       request : Requests \cup {None}, at : Nat, ok : BOOLEAN,
                       cur : Versions, first : Versions]
         /\ call'.step = x /\ call'.request = call.request
         /\ call'.request \in Requests /\ call'.at <= Len(call'.request.libs)
BY DEF TypeOK, Goto

\* What a request needs depends on the attached libraries and the request.
LEMMA SameView ==
  ASSUME UNCHANGED <<lib, attached, table>>, call'.request = call.request
  PROVE  /\ Target' = Target /\ Roots' = Roots
         /\ \A S : Complete(S)' <=> Complete(S)
         /\ \A s : (Defined(s)' <=> Defined(s)) /\ (MayStay(s)' <=> MayStay(s))
<1>1. /\ \A n : Symbols(n)' = Symbols(n) /\ Entries(n)' = Entries(n) /\ Ctors(n)' = Ctors(n)
      /\ \A n, s : Calls(n, s)' = Calls(n, s) /\ Uses(n, s)' = Uses(n, s)
  BY LibrariesStay
<1>2. Target' = Target /\ Exported' = Exported
  BY DEF Target, Exported
<1>3. Roots' = Roots
  BY <1>1, <1>2 DEF Roots
<1>4. \A S : Complete(S)' <=> Complete(S)
  BY <1>1, <1>3 DEF Complete
<1>5. \A s : (Defined(s)' <=> Defined(s)) /\ (MayStay(s)' <=> MayStay(s))
  BY <1>2 DEF Defined, MayStay
<1> QED  BY <1>2, <1>3, <1>4, <1>5

\* The roots are functions of the attached libraries.
LEMMA RootsDefined ==
  ASSUME TypeOK, Owners, call.step # "idle" PROVE Roots \subseteq DOMAIN table
<1>1. \A n \in attached : Entries(n) \subseteq DOMAIN table
  BY SymbolFacts, OwnersFacts DEF Owners, TypeOK
<1>2. Target \in {"shader", "library", "shaders", "exports"}
  BY LinkerAssumption DEF TypeOK, Target, RequestWellFormed
<1> QED  BY <1>1, <1>2 DEF Roots

\* Starting with nothing but roots to do.
LEMMA BeginInv ==
  ASSUME IInv, Attached, Goto("functions"),
         UNCHANGED <<lib, loaded, usage, attached, table, added, decls, visible>>,
         Roots \subseteq work', work' \cap DOMAIN table \subseteq Roots, work' \subseteq AllSymbols,
         libSet' \subseteq attached, HiddenRight', hidden' \subseteq Names \X AllSymbols,
         ShadersShown'
  PROVE  IInv'
<1>0. TypeOK /\ Owners /\ Fresh
  BY DEF IInv
<1>1. call.step = "attach"
  BY DEF Attached
<1>2. added = {} /\ decls = {}
  BY <1>0, <1>1 DEF Fresh
<1>3. /\ call' \in [step : {"idle", "attach", "functions", "initializers",
                            "linked", "failed", "undefined"},
                    request : Requests \cup {None}, at : Nat, ok : BOOLEAN,
                    cur : Versions, first : Versions]
      /\ call'.step = "functions" /\ call'.request = call.request
      /\ call'.request \in Requests /\ call'.at <= Len(call'.request.libs)
  BY <1>0, <1>1, StepTo
<1>4. TypeOK'
  BY <1>0, <1>3 DEF TypeOK, AllSymbols, Versions
<1>5. Owners'
  BY <1>0, LibrariesStay
<1>6. Roots' = Roots /\ \A S : Complete(S)' <=> Complete(S)
  BY <1>3, SameView
<1>7. Fresh' /\ CtorsIn' /\ Promise'
  BY <1>3 DEF Fresh, CtorsIn, Promise, LinkExact, CallsLinked
<1>8. RootsIn'
  BY <1>6 DEF RootsIn, Pending
<1>9. CalleesIn'
  BY <1>2 DEF CalleesIn
<1>10. LibsIn'
  BY DEF LibsIn
<1>11. Justified'
  <2> SUFFICES ASSUME NEW S \in SUBSET DOMAIN table, Complete(S)
               PROVE  work' \cap DOMAIN table \subseteq S
    BY <1>2, <1>6 DEF Justified, Pending
  <2> QED  BY DEF Complete
<1> QED  BY <1>4, <1>5, <1>7, <1>8, <1>9, <1>10, <1>11 DEF IInv

LEMMA ShaderInv ==
  ASSUME IInv, LinkShader PROVE IInv'
<1>0. TypeOK /\ Owners /\ HiddenRight /\ Fresh
  BY DEF IInv
<1>1. /\ Attached /\ Target = "shader" /\ work' = {<<None, call.request.entry>>} /\ Goto("functions")
      /\ UNCHANGED <<lib, loaded, usage, hidden, attached, table, added, libSet, decls, visible>>
  BY DEF LinkShader, libVars
<1>2. call.step = "attach"
  BY <1>1 DEF Attached
<1>3. call'.request = call.request
  BY <1>0, <1>1, <1>2, StepTo
<1>4. call.request.entry \in Funcs
  BY <1>0, <1>1, <1>2, LinkerAssumption DEF TypeOK, RequestWellFormed, Target
<1>5. work' \subseteq AllSymbols
  BY <1>1, <1>4 DEF AllSymbols
<1>6. Roots = {<<None, call.request.entry>>} \cap DOMAIN table
  BY <1>1 DEF Roots
<1>7. HiddenRight' /\ hidden' \subseteq Names \X AllSymbols
  BY <1>0, <1>1, LibrariesStay DEF TypeOK
<1>8. libSet' \subseteq attached
  BY <1>0, <1>1, <1>2 DEF Fresh
<1>9. ShadersShown'
  BY <1>1, <1>3, SameView DEF ShadersShown
<1> QED  BY <1>1, <1>5, <1>6, <1>7, <1>8, <1>9, BeginInv

LEMMA ExportsInv ==
  ASSUME IInv, LinkExports PROVE IInv'
<1>0. TypeOK /\ Owners /\ HiddenRight /\ Fresh
  BY DEF IInv
<1>1. /\ Attached /\ Target = "exports" /\ work' = DOMAIN table \cap Exported /\ Goto("functions")
      /\ UNCHANGED <<lib, loaded, usage, hidden, attached, table, added, libSet, decls, visible>>
  BY DEF LinkExports, libVars
<1>2. call.step = "attach"
  BY <1>1 DEF Attached
<1>3. call'.request = call.request
  BY <1>0, <1>1, <1>2, StepTo
<1>4. work' \subseteq AllSymbols
  BY <1>0, <1>1 DEF TypeOK
<1>5. Roots = DOMAIN table \cap Exported
  BY <1>1 DEF Roots
<1>6. HiddenRight' /\ hidden' \subseteq Names \X AllSymbols
  BY <1>0, <1>1, LibrariesStay DEF TypeOK
<1>7. libSet' \subseteq attached
  BY <1>0, <1>1, <1>2 DEF Fresh
<1>8. ShadersShown'
  BY <1>1, <1>3, SameView DEF ShadersShown
<1> QED  BY <1>1, <1>4, <1>5, <1>6, <1>7, <1>8, BeginInv

LEMMA ShadersInv ==
  ASSUME IInv, LinkShaders PROVE IInv'
<1>0. TypeOK /\ Owners /\ HiddenRight /\ Fresh
  BY DEF IInv
<1>1. /\ Attached /\ Target = "shaders" /\ Goto("functions")
      /\ work' = UNION {Entries(n) : n \in attached} /\ libSet' = attached
      /\ hidden' = hidden \cup UNION {At(n, Symbols(n) \ Entries(n)) : n \in attached}
      /\ UNCHANGED <<lib, loaded, usage, attached, table, added, decls, visible>>
  BY DEF LinkShaders
<1>2. Roots = UNION {Entries(n) : n \in attached}
  BY <1>1 DEF Roots
<1>3. /\ \A n \in attached : n \in Names /\ lib[n] \in Libs
      /\ \A n \in attached : Symbols(n) \subseteq AllSymbols /\ Entries(n) \subseteq Symbols(n)
  BY <1>0, SymbolFacts DEF TypeOK, Owners
<1>4. work' \subseteq AllSymbols
  BY <1>1, <1>3
<1>5. \A n, s : <<n, s>> \in hidden' =>
        <<n, s>> \in hidden \/ (n \in attached /\ s \in Symbols(n) /\ s \notin Entries(n))
  BY <1>1 DEF At
<1>6. hidden' \subseteq Names \X AllSymbols
  BY <1>0, <1>1, <1>3 DEF TypeOK, At
<1>7. HiddenRight'
  <2>1. \A n \in Names : \A s \in AllSymbols :
          <<n, s>> \in hidden' => lib[n] \in Libs /\ s \notin Entries(n)
    BY <1>0, <1>3, <1>5 DEF HiddenRight
  <2> QED  BY <1>1, <2>1, LibrariesStay DEF HiddenRight, AllSymbols
<1>8. ShadersShown'
  <2>1. \A n \in attached : At(n, Symbols(n) \ Entries(n)) \subseteq hidden'
    BY <1>1
  <2>2. \A n : (At(n, Symbols(n) \ Entries(n)))' = At(n, Symbols(n) \ Entries(n))
    BY <1>1, LibrariesStay DEF At
  <2> QED  BY <1>1, <2>1, <2>2 DEF ShadersShown
<1> QED  BY <1>1, <1>2, <1>4, <1>6, <1>7, <1>8, BeginInv

LEMMA AllInv ==
  ASSUME IInv, LinkAll PROVE IInv'
<1>0. TypeOK /\ Owners /\ HiddenRight /\ Fresh
  BY DEF IInv
<1> DEFINE all == {<<table[s], s>> : s \in DOMAIN table}
<1>1. /\ Attached /\ Target = "library" /\ Goto("functions")
      /\ loaded' = loaded \cup all
      /\ libSet' = {fs[1] : fs \in all}
      /\ added' = DOMAIN table
      /\ decls' = {d \in UNION {Calls(fs[1], fs[2]) : fs \in all} : ~Defined(d)}
      /\ UNCHANGED <<lib, usage, hidden, attached, table, work, visible>>
  BY DEF LinkAll
<1>2. call.step = "attach" /\ work = {}
  BY <1>0, <1>1 DEF Attached, Fresh
<1>3. /\ call' \in [step : {"idle", "attach", "functions", "initializers",
                            "linked", "failed", "undefined"},
                    request : Requests \cup {None}, at : Nat, ok : BOOLEAN,
                    cur : Versions, first : Versions]
      /\ call'.step = "functions" /\ call'.request = call.request
      /\ call'.request \in Requests /\ call'.at <= Len(call'.request.libs)
  BY <1>0, <1>1, <1>2, StepTo
<1>4. \A s \in DOMAIN table : /\ table[s] \in attached /\ table[s] \in Names
                              /\ lib[table[s]] \in Libs /\ s \in AllSymbols
  BY <1>0, OwnersFacts
<1>5. /\ libSet' = {table[s] : s \in DOMAIN table}
      /\ decls' = {d \in UNION {Calls(table[s], s) : s \in DOMAIN table} : ~Defined(d)}
  <2>1. \A fs \in all : \E s \in DOMAIN table : fs[1] = table[s] /\ fs[2] = s
    OBVIOUS
  <2>2. \A s \in DOMAIN table : \E fs \in all : fs[1] = table[s] /\ fs[2] = s
    <3> TAKE s \in DOMAIN table
    <3>1. <<table[s], s>> \in all
      OBVIOUS
    <3> HIDE DEF all
    <3> QED  BY <3>1
  <2> HIDE DEF all
  <2>3. {fs[1] : fs \in all} = {table[s] : s \in DOMAIN table}
    BY <2>1, <2>2
  <2>4. {Calls(fs[1], fs[2]) : fs \in all} = {Calls(table[s], s) : s \in DOMAIN table}
    BY <2>1, <2>2
  <2> QED  BY <1>1, <2>3, <2>4
<1>6. TypeOK'
  <2>1. decls' \subseteq AllSymbols
    BY <1>4, <1>5, SymbolFacts
  <2>2. loaded' \subseteq Names \X AllSymbols
    BY <1>0, <1>1, <1>4 DEF TypeOK
  <2>3. libSet' \subseteq Names /\ added' \subseteq AllSymbols
    BY <1>1, <1>4, <1>5
  <2> QED  BY <1>0, <1>1, <1>3, <2>1, <2>2, <2>3 DEF TypeOK, AllSymbols, Versions
<1>7. Owners' /\ HiddenRight'
  BY <1>0, <1>1, LibrariesStay
<1>8. /\ Roots' = Roots /\ Target' = Target
      /\ \A s : (MayStay(s)' <=> MayStay(s)) /\ (Defined(s)' <=> Defined(s))
      /\ \A S : Complete(S)' <=> Complete(S)
      /\ \A n, s : Calls(n, s)' = Calls(n, s)
  BY <1>1, <1>3, SameView, LibrariesStay
<1>9. Roots = DOMAIN table
  BY <1>1 DEF Roots
<1>10. Fresh' /\ CtorsIn' /\ Promise' /\ ShadersShown'
  BY <1>1, <1>3, <1>8 DEF Fresh, CtorsIn, Promise, LinkExact, CallsLinked, ShadersShown
<1>11. RootsIn'
  BY <1>1, <1>8, <1>9 DEF RootsIn, Pending
<1>12. CalleesIn'
  <2>1. \A s \in DOMAIN table : \A c \in Calls(table[s], s) : c \in DOMAIN table \/ c \in decls'
    BY <1>5 DEF Defined
  <2>2. \A c \in decls' : MayStay(c)
    BY <1>1, <1>5 DEF MayStay
  <2>3. \A s \in DOMAIN table : /\ Defined(s) /\ table[s] \in libSet' /\ <<table[s], s>> \in loaded'
    BY <1>1, <1>5 DEF Defined
  <2> QED  BY <1>1, <1>8, <2>1, <2>2, <2>3 DEF CalleesIn, Pending
<1>13. LibsIn'
  BY <1>1, <1>4, <1>5 DEF LibsIn
<1>14. Justified'
  BY <1>1, <1>2, <1>8, <1>9 DEF Justified, Pending, Complete
<1> QED  BY <1>6, <1>7, <1>10, <1>11, <1>12, <1>13, <1>14 DEF IInv

-----------------------------------------------------------------------------
(* The work list.                                                          *)

LEMMA AddInv ==
  ASSUME IInv, Linking, NEW s \in work, AddFunction(s) PROVE IInv'
<1> DEFINE n == table[s]
           used == UsedFunctions(n, s) \ added
           undefined == {f \in used : Stays(n, f)}
<1>0. /\ TypeOK /\ Owners /\ HiddenRight /\ Fresh
      /\ RootsIn /\ CalleesIn /\ LibsIn /\ Justified /\ CtorsIn /\ ShadersShown
  BY DEF IInv
<1>1. /\ s \notin added /\ Defined(s)
      /\ loaded' = IF call.step = "functions" THEN loaded \cup {<<n, s>>} ELSE loaded
      /\ decls' = decls \cup undefined
      /\ work' = (work \ {s}) \cup (used \ undefined)
      /\ added' = added \cup {s} /\ libSet' = libSet \cup {n}
      /\ UNCHANGED <<lib, usage, hidden, attached, table, call, visible>>
  BY DEF AddFunction
<1>2. used = IF <<n, s>> \in loaded' THEN Calls(n, s) \ added ELSE {}
  BY DEF UsedFunctions
<1>3. \A f \in undefined : call.step = "functions" /\ MayStay(f)
  BY DEF Stays, MayStay
<1> HIDE DEF used, undefined
<1>4. Pending' = Pending \cup (used \ undefined)
  BY <1>1 DEF Pending
<1>5. s \in AllSymbols /\ s \in DOMAIN table /\ n \in attached /\ n \in Names /\ lib[n] \in Libs
  BY <1>0, <1>1, OwnersFacts DEF TypeOK
<1>6. used \subseteq Calls(n, s) /\ Calls(n, s) \subseteq AllSymbols
  BY <1>2, <1>5, SymbolFacts
<1>7. <<n, s>> \in loaded' => \A c \in Calls(n, s) : c \in Pending' \/ (c \in decls' /\ MayStay(c))
  BY <1>1, <1>2, <1>3, <1>4 DEF Pending
<1>8. TypeOK'
  <2>1. loaded' \subseteq Names \X AllSymbols
    BY <1>0, <1>1, <1>5 DEF TypeOK
  <2>2. undefined \subseteq used
    BY DEF undefined
  <2>3. decls' \subseteq AllSymbols /\ work' \subseteq AllSymbols /\ added' \subseteq AllSymbols
    BY <1>0, <1>1, <1>5, <1>6, <2>2 DEF TypeOK
  <2>4. libSet' \subseteq Names
    BY <1>0, <1>1, <1>5 DEF TypeOK
  <2> QED  BY <1>0, <1>1, <2>1, <2>3, <2>4 DEF TypeOK, AllSymbols, Versions
<1>9. /\ Owners' /\ HiddenRight'
      /\ Target' = Target /\ Roots' = Roots
      /\ \A S : Complete(S)' <=> Complete(S)
      /\ \A x : (Defined(x)' <=> Defined(x)) /\ (MayStay(x)' <=> MayStay(x))
      /\ \A m : Symbols(m)' = Symbols(m) /\ Entries(m)' = Entries(m) /\ Ctors(m)' = Ctors(m)
      /\ \A m, x : Calls(m, x)' = Calls(m, x) /\ Uses(m, x)' = Uses(m, x)
  BY <1>0, <1>1, LibrariesStay, SameView
<1>10. Fresh' /\ Promise'
  BY <1>1 DEF Fresh, Promise, LinkExact, CallsLinked, Linking
<1>11. RootsIn' /\ LibsIn'
  BY <1>0, <1>1, <1>4, <1>5, <1>9 DEF RootsIn, LibsIn, Linking
<1>12. CalleesIn'
  <2>1. ASSUME NEW x \in added
        PROVE  /\ Defined(x) /\ table[x] \in libSet'
               /\ call.step = "functions" => <<table[x], x>> \in loaded'
               /\ <<table[x], x>> \in loaded' =>
                    \A c \in Calls(table[x], x) : c \in Pending' \/ (c \in decls' /\ MayStay(c))
    <3>1. x # s
      BY <1>1
    <3>2. <<table[x], x>> \in loaded' => <<table[x], x>> \in loaded
      BY <1>1, <3>1
    <3> QED  BY <1>0, <1>1, <1>4, <3>2 DEF CalleesIn
  <2>2. call.step = "functions" => <<n, s>> \in loaded'
    BY <1>1
  <2> QED  BY <1>1, <1>7, <1>9, <2>1, <2>2 DEF CalleesIn
<1>13. Justified'
  <2> SUFFICES ASSUME NEW S \in SUBSET DOMAIN table, Complete(S)
               PROVE  Pending' \cap DOMAIN table \subseteq S
    BY <1>1, <1>9 DEF Justified
  <2>1. Pending \cap DOMAIN table \subseteq S
    BY <1>0 DEF Justified
  <2>2. s \in S
    BY <1>5, <2>1 DEF Pending
  <2>3. Calls(n, s) \cap DOMAIN table \subseteq S
    BY <2>2 DEF Complete
  <2> QED  BY <1>4, <1>6, <2>1, <2>3
<1>14. CtorsIn'
  <2>0. \A x : InitFuncs(lib[x])' = InitFuncs(lib[x])
    BY <1>1 DEF InitFuncs
  <2> SUFFICES ASSUME call.step = "initializers"
               PROVE  /\ \A x \in Pending' : Defined(x)
                      /\ \A x \in Pending' : \A c \in Ctors(table[x]) \ {x} :
                           Uses(table[x], x) \cap Uses(table[x], c) # {} => c \in Pending'
                      /\ \A x \in work' : /\ x[2] \in InitFuncs(lib[table[x]])
                                          /\ Ctors(table[x]) \subseteq Pending'
    BY <1>1, <1>9, <2>0 DEF CtorsIn
  <2>1. s[2] \in InitFuncs(lib[n]) /\ Ctors(n) \subseteq Pending
    BY <1>0 DEF CtorsIn
  <2>2. ASSUME NEW u \in used
        PROVE  Defined(u) /\ table[u] = n /\ u[2] \in InitFuncs(lib[n]) /\ Ctors(n) \subseteq Pending'
    <3>1. PICK f \in lib[n].calls[s[2]] : u = Symbol(n, f)
      BY <1>6 DEF Calls
    <3>2. f \in InitFuncs(lib[n]) /\ f \in lib[n].funs
      BY <1>5, <2>1, <3>1, InitFuncsClosed
    <3>3. u \in Symbols(n) /\ u[2] = f
      BY <3>1, <3>2 DEF Symbols, Symbol
    <3> QED  BY <1>0, <1>4, <1>5, <2>1, <3>2, <3>3 DEF Owners, Defined
  <2>3. \A x \in Pending : /\ Defined(x)
                           /\ \A c \in Ctors(table[x]) \ {x} :
                                Uses(table[x], x) \cap Uses(table[x], c) # {} => c \in Pending
    BY <1>0 DEF CtorsIn
  <2>4. \A x \in work : x[2] \in InitFuncs(lib[table[x]]) /\ Ctors(table[x]) \subseteq Pending
    BY <1>0 DEF CtorsIn
  <2>5. work' \subseteq work \cup used
    BY <1>1
  <2> QED  BY <1>4, <2>2, <2>3, <2>4, <2>5
<1>15. ShadersShown'
  BY <1>0, <1>1, <1>9 DEF ShadersShown, Linking, At
<1> QED  BY <1>8, <1>9, <1>10, <1>11, <1>12, <1>13, <1>14, <1>15 DEF IInv

LEMMA SkipInv ==
  ASSUME IInv, Linking, NEW s \in work, SkipFunction(s) PROVE IInv'
<1>0. /\ TypeOK /\ Owners /\ HiddenRight /\ Fresh
      /\ RootsIn /\ CalleesIn /\ LibsIn /\ Justified /\ CtorsIn /\ ShadersShown
  BY DEF IInv
<1>1. /\ s \in added /\ work' = work \ {s}
      /\ UNCHANGED <<lib, loaded, usage, hidden, attached, table, call, added, libSet, decls, visible>>
  BY DEF SkipFunction, libVars
<1>2. Pending' = Pending
  BY <1>1 DEF Pending
<1>3. TypeOK'
  BY <1>0, <1>1 DEF TypeOK, AllSymbols, Versions
<1>4. /\ Owners' /\ HiddenRight'
      /\ Target' = Target /\ Roots' = Roots
      /\ \A S : Complete(S)' <=> Complete(S)
      /\ \A x : (Defined(x)' <=> Defined(x)) /\ (MayStay(x)' <=> MayStay(x))
      /\ \A m : Symbols(m)' = Symbols(m) /\ Entries(m)' = Entries(m) /\ Ctors(m)' = Ctors(m)
      /\ \A m, x : Calls(m, x)' = Calls(m, x) /\ Uses(m, x)' = Uses(m, x)
  BY <1>0, <1>1, LibrariesStay, SameView
<1>5. Fresh' /\ Promise'
  BY <1>1 DEF Fresh, Promise, LinkExact, CallsLinked, Linking
<1>6. RootsIn' /\ LibsIn' /\ ShadersShown'
  BY <1>0, <1>1, <1>2, <1>4 DEF RootsIn, LibsIn, ShadersShown, Linking, At
<1>7. CalleesIn'
  BY <1>0, <1>1, <1>2, <1>4 DEF CalleesIn, Linking
<1>8. Justified'
  BY <1>0, <1>1, <1>2, <1>4 DEF Justified, Linking
<1>9. CtorsIn'
  <2>1. \A x : InitFuncs(lib[x])' = InitFuncs(lib[x])
    BY <1>1 DEF InitFuncs
  <2> QED  BY <1>0, <1>1, <1>2, <1>4, <2>1 DEF CtorsIn
<1> QED  BY <1>3, <1>4, <1>5, <1>6, <1>7, <1>8, <1>9 DEF IInv

LEMMA UsageInv ==
  ASSUME IInv, BuildGlobalUsage PROVE IInv'
<1>0. /\ TypeOK /\ Owners /\ HiddenRight /\ Fresh
      /\ RootsIn /\ CalleesIn /\ LibsIn /\ Justified /\ ShadersShown
  BY DEF IInv
<1>1. /\ call.step = "functions" /\ work = {} /\ Goto("initializers")
      /\ loaded' = loaded \cup UNION {At(n, Ctors(n)) : n \in libSet}
      /\ usage' = usage \cup {fs \in loaded' : fs[1] \in libSet}
      /\ work' = UNION {{c \in Ctors(n) : NeedsCtor(n, c)} : n \in libSet}
      /\ UNCHANGED <<lib, hidden, attached, table, added, libSet, decls, visible>>
  BY DEF BuildGlobalUsage
<1>2. /\ call' \in [step : {"idle", "attach", "functions", "initializers",
                            "linked", "failed", "undefined"},
                    request : Requests \cup {None}, at : Nat, ok : BOOLEAN,
                    cur : Versions, first : Versions]
      /\ call'.step = "initializers" /\ call'.request = call.request
      /\ call'.request \in Requests /\ call'.at <= Len(call'.request.libs)
  BY <1>0, <1>1, StepTo
<1>3. Linking /\ Pending = added /\ Pending' = added \cup work'
  BY <1>1 DEF Linking, Pending
<1>4. \A n \in libSet : n \in attached /\ n \in Names /\ lib[n] \in Libs
  BY <1>0, <1>3 DEF LibsIn, TypeOK, Owners
<1>5. \A n \in libSet : /\ Symbols(n) \subseteq AllSymbols /\ Ctors(n) \subseteq Symbols(n)
                        /\ \A c, d \in Ctors(n) : c = d
  BY <1>4, SymbolFacts
<1>6. TypeOK'
  <2>1. loaded' \subseteq Names \X AllSymbols
    BY <1>0, <1>1, <1>4, <1>5 DEF TypeOK, At
  <2>2. usage' \subseteq Names \X AllSymbols
    BY <1>0, <1>1, <2>1 DEF TypeOK
  <2>3. work' \subseteq AllSymbols
    BY <1>1, <1>5
  <2> QED  BY <1>0, <1>1, <1>2, <2>1, <2>2, <2>3 DEF TypeOK, AllSymbols, Versions
<1>7. /\ Owners' /\ HiddenRight'
      /\ Target' = Target /\ Roots' = Roots
      /\ \A S : Complete(S)' <=> Complete(S)
      /\ \A x : (Defined(x)' <=> Defined(x)) /\ (MayStay(x)' <=> MayStay(x))
      /\ \A m : Symbols(m)' = Symbols(m) /\ Entries(m)' = Entries(m) /\ Ctors(m)' = Ctors(m)
      /\ \A m, x : Calls(m, x)' = Calls(m, x) /\ Uses(m, x)' = Uses(m, x)
  BY <1>0, <1>1, <1>2, LibrariesStay, SameView
<1>8. Fresh' /\ Promise'
  BY <1>2 DEF Fresh, Promise, LinkExact, CallsLinked
<1>9. RootsIn' /\ LibsIn' /\ ShadersShown'
  BY <1>0, <1>1, <1>3, <1>7 DEF RootsIn, LibsIn, ShadersShown, At
<1>10. \A s \in added : /\ Defined(s) /\ table[s] \in libSet /\ <<table[s], s>> \in loaded
                        /\ \A c \in Calls(table[s], s) : c \in added \/ (c \in decls /\ MayStay(c))
  BY <1>0, <1>1, <1>3 DEF CalleesIn
<1>11. CalleesIn'
  BY <1>1, <1>3, <1>7, <1>10 DEF CalleesIn
<1>12. \A s \in added : s \in DOMAIN table /\ s \in Symbols(table[s])
  BY <1>0, <1>10, OwnersFacts DEF TypeOK
<1>13. \A c \in work' : \E n \in libSet :
         /\ c \in Ctors(n) /\ c \in DOMAIN table /\ table[c] = n
         /\ \E s \in added : /\ s # c /\ table[s] = n /\ Uses(n, s) \cap Uses(n, c) # {}
  <2> TAKE c \in work'
  <2>1. PICK n \in libSet : c \in Ctors(n) /\ NeedsCtor(n, c)
    BY <1>1
  <2>2. PICK s \in Symbols(n) \ {c} : s \in added /\ Uses(n, s) \cap Uses(n, c) # {}
    BY <2>1 DEF NeedsCtor
  <2>3. table[s] = n /\ table[c] = n /\ c \in DOMAIN table
    BY <1>0, <1>4, <1>5, <2>1, <2>2, OwnersFacts DEF Owners
  <2> QED  BY <2>1, <2>2, <2>3
<1>14. Justified'
  <2> SUFFICES ASSUME NEW S \in SUBSET DOMAIN table, Complete(S)
               PROVE  (added \cup work') \cap DOMAIN table \subseteq S
    BY <1>1, <1>3, <1>7 DEF Justified
  <2>1. added \subseteq S
    BY <1>0, <1>3, <1>12 DEF Justified
  <2>2. work' \subseteq S
    BY <1>13, <2>1 DEF Complete
  <2> QED  BY <2>1, <2>2
<1>15. CtorsIn'
  <2>1. \A x \in Pending' : Defined(x)
    BY <1>3, <1>10, <1>13 DEF Defined
  <2>2. ASSUME NEW x \in Pending', NEW c \in Ctors(table[x]) \ {x},
               Uses(table[x], x) \cap Uses(table[x], c) # {}
        PROVE  c \in Pending'
    <3>1. CASE x \in added
      <4>1. NeedsCtor(table[x], c)
        BY <1>1, <1>10, <1>12, <2>2, <3>1 DEF NeedsCtor
      <4>2. c \in {d \in Ctors(table[x]) : NeedsCtor(table[x], d)}
        BY <2>2, <4>1
      <4>3. c \in work'
        BY <1>1, <1>10, <3>1, <4>2
      <4> QED  BY <1>3, <4>3
    <3>2. CASE x \in work'
      BY <1>5, <1>13, <3>2
    <3> QED  BY <1>3, <3>1, <3>2
  <2>3. ASSUME NEW x \in work'
        PROVE  x[2] \in InitFuncs(lib[table[x]]) /\ Ctors(table[x]) \subseteq Pending'
    <3>1. x \in Ctors(table[x]) /\ table[x] \in libSet
      BY <1>13
    <3>2. x[2] \in lib[table[x]].ctors
      BY <3>1 DEF Ctors, Symbol
    <3> QED  BY <1>3, <1>4, <1>5, <3>1, <3>2, InitFuncsClosed
  <2>4. \A x : InitFuncs(lib[x])' = InitFuncs(lib[x])
    BY <1>1 DEF InitFuncs
  <2> QED  BY <1>1, <1>7, <2>1, <2>2, <2>3, <2>4 DEF CtorsIn
<1> QED  BY <1>6, <1>7, <1>8, <1>9, <1>11, <1>14, <1>15 DEF IInv

-----------------------------------------------------------------------------
(* A link ends.                                                            *)

\* When nothing is to do and every body is loaded, what is in is what is
\* needed, and no callee is lost.
LEMMA WorkDone ==
  ASSUME IInv, JobReady, BodiesLoaded
  PROVE  /\ added = Needed
         /\ \A s \in added : /\ Defined(s)
                             /\ \A c \in Calls(table[s], s) : c \in added \/ (c \in decls /\ MayStay(c))
<1>0. /\ call.step = "initializers" /\ work = {} /\ Linking /\ Pending = added
  BY DEF JobReady, Linking, Pending
<1>1. \A s \in added : /\ s \in DOMAIN table
                       /\ \A c \in Calls(table[s], s) : c \in added \/ (c \in decls /\ MayStay(c))
  BY <1>0 DEF IInv, CalleesIn, BodiesLoaded, Defined
<1>2. Roots \subseteq added
  BY <1>0 DEF IInv, RootsIn
<1>3. \A s \in added : \A c \in Ctors(table[s]) \ {s} :
        Uses(table[s], s) \cap Uses(table[s], c) # {} => c \in added
  BY <1>0 DEF IInv, CtorsIn
<1>4. \A s \in added : Calls(table[s], s) \cap DOMAIN table \subseteq added
  BY <1>1 DEF MayStay, Defined
<1>5. Complete(added)
  BY <1>2, <1>3, <1>4 DEF Complete
<1>6. \A S \in SUBSET DOMAIN table : Complete(S) => added \subseteq S
  BY <1>0, <1>1 DEF IInv, Justified
<1>7. added = Needed
  BY <1>1, <1>5, <1>6 DEF Needed
<1> QED  BY <1>1, <1>7 DEF Defined

\* With -export-shaders-only the shaders survive and nothing else.
LEMMA ShadersSurvive ==
  ASSUME IInv, JobReady, BodiesLoaded, Target = "shaders" PROVE Surviving = Roots
<1>0. TypeOK /\ Owners /\ HiddenRight /\ Linking
  BY DEF IInv, JobReady, Linking
<1>1. \A s \in added : s \in DOMAIN table
  BY WorkDone DEF Defined
<1>2. \A n \in attached : n \in Names /\ lib[n] \in Libs
  BY <1>0 DEF TypeOK, Owners
<1>3. \A n \in attached : At(n, Symbols(n) \ Entries(n)) \subseteq hidden
  BY <1>0 DEF IInv, ShadersShown
<1>4. Roots = UNION {Entries(n) : n \in attached}
  BY DEF Roots
<1>5. Roots \subseteq added
  BY <1>0 DEF IInv, RootsIn, Pending, JobReady
<1>6. ASSUME NEW s \in Surviving PROVE s \in Roots
  <2>1. s \in added /\ <<table[s], s>> \notin hidden
    BY <1>6 DEF Surviving
  <2>2. table[s] \in attached /\ s \in Symbols(table[s])
    BY <1>0, <1>1, <2>1, OwnersFacts
  <2>3. s \in Entries(table[s])
    BY <1>3, <2>1, <2>2 DEF At
  <2> QED  BY <1>4, <2>2, <2>3
<1>7. ASSUME NEW s \in Roots PROVE s \in Surviving
  <2>1. PICK n \in attached : s \in Entries(n)
    BY <1>4
  <2>2. s[1] = None /\ s \in Symbols(n) /\ s \in AllSymbols
    BY <1>2, <2>1, SymbolFacts
  <2>3. table[s] = n
    BY <1>0, <2>2 DEF Owners
  <2>4. <<n, s>> \notin hidden
    BY <1>0, <1>2, <2>1, <2>2 DEF HiddenRight
  <2> QED  BY <1>5, <2>2, <2>3, <2>4 DEF Surviving
<1> QED  BY <1>6, <1>7

LEMMA DoneInv ==
  ASSUME IInv, JobDone PROVE IInv'
<1>0. TypeOK /\ Owners /\ HiddenRight
  BY DEF IInv
<1>1. /\ JobReady /\ BodiesLoaded /\ Goto("linked")
      /\ visible' = CASE Target = "shader"  -> {<<None, call.request.entry>>}
                      [] Target = "exports" -> Exported
                      [] OTHER              -> Surviving
      /\ UNCHANGED <<lib, loaded, usage, hidden, attached, table, work, added, libSet, decls>>
  BY DEF JobDone, libVars
<1>2. call.step = "initializers" /\ call.request \in Requests
  BY <1>0, <1>1 DEF JobReady, TypeOK
<1>3. /\ call' \in [step : {"idle", "attach", "functions", "initializers",
                            "linked", "failed", "undefined"},
                    request : Requests \cup {None}, at : Nat, ok : BOOLEAN,
                    cur : Versions, first : Versions]
      /\ call'.step = "linked" /\ call'.request = call.request
      /\ call'.request \in Requests /\ call'.at <= Len(call'.request.libs)
  BY <1>0, <1>1, <1>2, StepTo
<1>4. visible' \subseteq AllSymbols
  <2>1. Target = "shader" => {<<None, call.request.entry>>} \subseteq AllSymbols
    BY <1>2, LinkerAssumption DEF RequestWellFormed, Target, AllSymbols
  <2>2. Exported \subseteq AllSymbols
    BY <1>2, LinkerAssumption DEF RequestWellFormed, Exported, AllSymbols
  <2>3. Surviving \subseteq AllSymbols
    BY <1>0 DEF Surviving, TypeOK
  <2> QED  BY <1>1, <2>1, <2>2, <2>3
<1>5. TypeOK'
  BY <1>0, <1>1, <1>3, <1>4 DEF TypeOK, AllSymbols, Versions
<1>6. /\ Owners' /\ HiddenRight' /\ Target' = Target /\ Roots' = Roots
      /\ \A S : Complete(S)' <=> Complete(S)
      /\ \A x : (Defined(x)' <=> Defined(x)) /\ (MayStay(x)' <=> MayStay(x))
      /\ \A m, x : Calls(m, x)' = Calls(m, x)
  BY <1>0, <1>1, <1>3, LibrariesStay, SameView
<1>7. Needed' = Needed
  BY <1>1, <1>6 DEF Needed
<1>8. added = Needed
  BY <1>1, WorkDone
<1>9. CallsLinked'
  <2>1. \A s \in added : /\ Defined(s)
                         /\ \A c \in Calls(table[s], s) : c \in added \/ (c \in decls /\ MayStay(c))
    BY <1>1, WorkDone
  <2> QED  BY <1>1, <1>6, <2>1 DEF CallsLinked
<1>10. LinkExact'
  <2>1. Target \in {"library", "shaders"} => visible' = Surviving
    BY <1>1
  <2>2. Target = "library" => visible' = {s \in Needed' : s[1] = None /\ <<table'[s], s>> \notin hidden'}
    BY <1>1, <1>7, <1>8, <2>1 DEF Surviving
  <2>3. Target = "shaders" => visible' = Roots'
    BY <1>1, <1>6, <2>1, ShadersSurvive
  <2> QED  BY <1>1, <1>6, <1>7, <1>8, <2>2, <2>3 DEF LinkExact
<1>11. /\ RootsIn' /\ CalleesIn' /\ LibsIn' /\ Justified' /\ CtorsIn' /\ ShadersShown' /\ Fresh'
  BY <1>3 DEF RootsIn, CalleesIn, LibsIn, Justified, CtorsIn, ShadersShown, Fresh, Linking
<1> QED  BY <1>5, <1>6, <1>9, <1>10, <1>11 DEF IInv, Promise

\* A link that fails, or runs into undefined behaviour.
LEMMA FailInv ==
  ASSUME IInv, call.step # "idle",
         Goto("failed") \/ Goto("undefined"),
         UNCHANGED <<libVars, attached, table, linkVars>>
  PROVE  IInv'
<1>0. TypeOK /\ Owners /\ HiddenRight
  BY DEF IInv
<1>1. UNCHANGED <<lib, loaded, usage, hidden, work, added, libSet, decls, visible>>
  BY DEF libVars, linkVars
<1>2. /\ call' \in [step : {"idle", "attach", "functions", "initializers",
                            "linked", "failed", "undefined"},
                    request : Requests \cup {None}, at : Nat, ok : BOOLEAN,
                    cur : Versions, first : Versions]
      /\ call'.step \in {"failed", "undefined"}
      /\ call'.request \in Requests /\ call'.at <= Len(call'.request.libs)
  BY <1>0, StepTo
<1>3. TypeOK'
  BY <1>0, <1>1, <1>2 DEF TypeOK, AllSymbols, Versions
<1>4. Owners' /\ HiddenRight'
  BY <1>0, <1>1, LibrariesStay
<1>5. Fresh' /\ call.step' \notin {"functions", "initializers", "linked"}
  BY <1>2 DEF Fresh
<1> QED  BY <1>3, <1>4, <1>5, OutsideLink DEF IInv

LEMMA ReturnInv ==
  ASSUME IInv, Return PROVE IInv'
<1>0. TypeOK /\ Owners /\ HiddenRight
  BY DEF IInv
<1>1. /\ call' = NoCall
      /\ work' = {} /\ added' = {} /\ libSet' = {} /\ decls' = {} /\ visible' = {}
      /\ UNCHANGED <<lib, loaded, usage, hidden, attached, table>>
  BY DEF Return, libVars
<1>2. call'.step = "idle"
  BY <1>1 DEF NoCall
<1>3. call' \in [step : {"idle", "attach", "functions", "initializers",
                         "linked", "failed", "undefined"},
                 request : Requests \cup {None}, at : Nat, ok : BOOLEAN,
                 cur : Versions, first : Versions]
  BY <1>1 DEF NoCall, Versions
<1>4. TypeOK'
  BY <1>0, <1>1, <1>2, <1>3 DEF TypeOK, AllSymbols, Versions
<1>5. Owners' /\ HiddenRight'
  BY <1>0, <1>1, LibrariesStay
<1> QED  BY <1>1, <1>2, <1>4, <1>5, OutsideLink DEF IInv, Fresh

LEMMA StepInv == IInv /\ [Next]_vars => IInv'
<1> SUFFICES ASSUME IInv, [Next]_vars PROVE IInv'
  OBVIOUS
<1>1. CASE DetachAll
  BY <1>1, DetachInv
<1>2. CASE \E n \in Names : RegisterLibrary(n)
  BY <1>2, RegisterInv
<1>3. CASE AttachNext
  BY <1>3, AttachInv
<1>4. CASE AttachFailed \/ JobFailed \/ JobUndefined
  BY <1>4, FailInv DEF AttachFailed, JobFailed, JobUndefined, JobReady, Fail, Goto
<1>5. CASE LinkShader \/ LinkAll \/ LinkShaders \/ LinkExports
  BY <1>5, ShaderInv, AllInv, ShadersInv, ExportsInv
<1>6. CASE AddFunctions
  <2>1. Linking /\ \E s \in work : AddFunction(s) \/ SkipFunction(s) \/ MissFunction(s)
    BY <1>6 DEF AddFunctions, Linking
  <2>2. PICK s \in work : AddFunction(s) \/ SkipFunction(s) \/ MissFunction(s)
    BY <2>1
  <2>3. CASE MissFunction(s)
    BY <2>1, <2>3, FailInv DEF MissFunction, Fail, Goto, Linking
  <2> QED  BY <2>1, <2>2, <2>3, AddInv, SkipInv
<1>7. CASE BuildGlobalUsage
  BY <1>7, UsageInv
<1>8. CASE JobDone
  BY <1>8, DoneInv
<1>9. CASE Return
  BY <1>9, ReturnInv
<1>10. CASE UNCHANGED vars
  <2>1. UNCHANGED <<lib, loaded, usage, hidden, attached, table, call, work, added, libSet, decls, visible>>
    BY <1>10 DEF vars, libVars, linkVars
  <2>2. /\ Target' = Target /\ Roots' = Roots /\ Pending' = Pending /\ Linking' = Linking
        /\ \A S : Complete(S)' <=> Complete(S)
        /\ \A x : (Defined(x)' <=> Defined(x)) /\ (MayStay(x)' <=> MayStay(x))
        /\ \A m : Symbols(m)' = Symbols(m) /\ Entries(m)' = Entries(m) /\ Ctors(m)' = Ctors(m)
        /\ \A m, x : Calls(m, x)' = Calls(m, x) /\ Uses(m, x)' = Uses(m, x)
    BY <2>1, SameView, LibrariesStay DEF Pending, Linking
  <2>3. TypeOK' /\ Owners' /\ HiddenRight' /\ Fresh'
    BY <2>1, LibrariesStay DEF IInv, TypeOK, AllSymbols, Versions, Fresh
  <2>4. RootsIn' /\ CalleesIn' /\ LibsIn' /\ Justified' /\ ShadersShown'
    BY <2>1, <2>2 DEF IInv, RootsIn, CalleesIn, LibsIn, Justified, ShadersShown, At
  <2>5. CtorsIn'
    <3>1. \A x : InitFuncs(lib[x])' = InitFuncs(lib[x])
      BY <2>1 DEF InitFuncs
    <3> QED  BY <2>1, <2>2, <3>1 DEF IInv, CtorsIn
  <2>6. Promise'
    <3>1. Needed' = Needed
      BY <2>1, <2>2 DEF Needed
    <3> QED  BY <2>1, <2>2, <3>1 DEF IInv, Promise, LinkExact, CallsLinked
  <2> QED  BY <2>3, <2>4, <2>5, <2>6 DEF IInv
<1> QED  BY <1>1, <1>2, <1>3, <1>4, <1>5, <1>6, <1>7, <1>8, <1>9, <1>10 DEF Next, LinkStep

LEMMA Invariance == Spec => []IInv
BY InitInv, StepInv, PTL DEF Spec

-----------------------------------------------------------------------------
(* Verdicts.  A second invariant, on top of the first, says of each stage   *)
(* what is known of the reasons to refuse.                                  *)

\* The libraries that AttachNext has tried are attached: they are different,
\* have no function in common, and agree on the version of the first one.
Agreed ==
  /\ attached = {call.request.libs[i] : i \in 1 .. call.at}
  /\ \A i, j \in 1 .. call.at : call.request.libs[i] = call.request.libs[j] => i = j
  /\ \A n, o \in attached : n # o => Symbols(n) \cap Symbols(o) = {}
  /\ \A n \in attached : lib[n].version \in {None, call.first}
  /\ call.cur = call.first
  /\ call.at = 0 => call.cur = None
  /\ call.at > 0 => call.first = lib[call.request.libs[1]].version

\* An error so far has a reason; no error so far, and there is none so far.
Refused == Unattachable \/ VersionsConflict
SoFar == call.step = "attach" => IF call.ok THEN Agreed ELSE Refused
Accepted == Linking \/ call.step = "linked" => ~Refused

\* In the first round what is to do is defined, or is the missing entry, or is
\* called by something needed, where the request wants every callee.
Wanted(x) ==
  \/ Target = "shader" /\ x = <<None, call.request.entry>>
  \/ Target \in {"shader", "shaders"} /\ \E y \in added : x \in Calls(table[y], y)
FirstRound ==
  call.step = "functions" =>
    /\ \A x \in work : Defined(x) \/ Wanted(x)
    /\ Target = "library" => work = {}

\* The entry is not forgotten, defined or not.
EntryIn == Linking /\ Target = "shader" => <<None, call.request.entry>> \in Pending

\* In the second round nothing leaves the libraries whose usage is known.
UsageKnown ==
  call.step = "initializers" =>
    /\ \A x \in work : table[x] \in libSet
    /\ \A fs \in loaded : fs[1] \in libSet => fs \in usage

VInv == SoFar /\ Accepted /\ FirstRound /\ EntryIn /\ UsageKnown /\ VerdictExact
\* Counting: fewer names than entries, and more than one version.
LEMMA TwiceNamed ==
  ASSUME NEW q \in Seq(Names)
  PROVE  LET R == {q[i] : i \in 1 .. Len(q)}
         IN  /\ IsFiniteSet(R)
             /\ Cardinality(R) < Len(q) <=> \E i, j \in 1 .. Len(q) : i # j /\ q[i] = q[j]
<1> DEFINE D == 1 .. Len(q)
           R == {q[i] : i \in D}
<1>1. Len(q) \in Nat /\ q \in [D -> Names]
  OBVIOUS
<1>2. IsFiniteSet(D) /\ Cardinality(D) = Len(q)
  BY <1>1, FS_Interval
<1>3. q \in [D -> R]
  BY <1>1
<1>4. q \in Surjection(D, R)
  BY <1>3 DEF Surjection
<1>5. q \in Injection(D, R) <=> \A i, j \in D : q[i] = q[j] => i = j
  BY <1>3, Zenon DEF Injection, IsInjective
<1> HIDE DEF D, R
<1>6. /\ IsFiniteSet(R) /\ Cardinality(R) <= Cardinality(D)
      /\ Cardinality(R) = Cardinality(D) <=> q \in Injection(D, R)
  BY <1>2, <1>4, FS_Surjection
<1>7. Cardinality(R) \in Nat
  BY <1>6, FS_CardinalityType
<1>8. Cardinality(R) < Len(q) <=> \E i, j \in D : i # j /\ q[i] = q[j]
  BY <1>1, <1>2, <1>5, <1>6, <1>7
<1> QED  BY <1>6, <1>8 DEF D, R

LEMMA MoreThanOne ==
  ASSUME NEW S, IsFiniteSet(S)
  PROVE  Cardinality(S) > 1 <=> \E v, w \in S : v # w
<1>1. Cardinality(S) \in Nat
  BY FS_CardinalityType
<1>2. Cardinality(S) = 0 <=> S = {}
  BY FS_EmptySet
<1>3. Cardinality(S) = 1 <=> \E v : S = {v}
  BY FS_Singleton
<1>4. (\E v : S = {v}) <=> S # {} /\ \A v, w \in S : v = w
  <2>1. ASSUME S # {}, \A v, w \in S : v = w PROVE \E v : S = {v}
    <3>1. PICK v : v \in S
      BY <2>1
    <3>2. S = {v}
      BY <2>1, <3>1
    <3> QED  BY <3>2
  <2>2. ASSUME NEW v, S = {v} PROVE S # {} /\ \A u, w \in S : u = w
    BY <2>2
  <2> QED  BY <2>1, <2>2
<1>5. Cardinality(S) > 1 <=> Cardinality(S) # 0 /\ Cardinality(S) # 1
  BY <1>1
<1> QED  BY <1>2, <1>3, <1>4, <1>5

\* The reasons to refuse, without counting.
Reasons(q) ==
  \/ \E i \in 1 .. Len(q) : lib[q[i]] = None
  \/ \E i, j \in 1 .. Len(q) : i # j /\ q[i] = q[j]
  \/ \E i, j \in 1 .. Len(q) : q[i] # q[j] /\ Symbols(q[i]) \cap Symbols(q[j]) # {}
  \/ \E i, j \in 1 .. Len(q) :
       /\ lib[q[i]].version # None /\ lib[q[j]].version # None
       /\ lib[q[i]].version # lib[q[j]].version
  \/ lib[q[1]].version = None /\ \E i \in 1 .. Len(q) : lib[q[i]].version # None
LEMMA RefusedMeans ==
  ASSUME call.request \in Requests
  PROVE  Refused <=> Reasons(call.request.libs)
<1> DEFINE q == call.request.libs
<1>1. q \in Seq(Names)
  BY LinkerAssumption DEF RequestWellFormed
<1> HIDE DEF q
<1> DEFINE D == 1 .. Len(q)
           V == {lib[n].version : n \in RequestLibs}
<1>2. RequestLibs = {q[i] : i \in D}
  BY DEF RequestLibs, q
<1>3. IsFiniteSet(RequestLibs)
      /\ (Cardinality(RequestLibs) < Len(q) <=> \E i, j \in D : i # j /\ q[i] = q[j])
  BY <1>1, <1>2, TwiceNamed
<1>4. IsFiniteSet(V)
  <2> DEFINE ver == [n \in RequestLibs |-> lib[n].version]
  <2>1. ver \in Surjection(RequestLibs, V)
    BY DEF Surjection
  <2> HIDE DEF ver, V
  <2> QED  BY <1>3, <2>1, FS_Surjection
<1>5. IsFiniteSet(V \ {None})
  <2> HIDE DEF V
  <2> QED  BY <1>4, FS_RemoveElement
<1>6. V = {lib[q[i]].version : i \in D}
  BY <1>2
<1>7. Cardinality(V \ {None}) > 1 <=> \E v, w \in V \ {None} : v # w
  <2> HIDE DEF V
  <2> QED  BY <1>5, MoreThanOne
<1>8. VersionsConflict <=> \/ Cardinality(V \ {None}) > 1
                           \/ V \ {None} # {} /\ lib[q[1]].version = None
  BY DEF VersionsConflict, q
<1>9. (\E v, w \in V \ {None} : v # w) <=>
        \E i, j \in D : /\ lib[q[i]].version # None /\ lib[q[j]].version # None
                        /\ lib[q[i]].version # lib[q[j]].version
  BY <1>6
<1>10. V \ {None} # {} <=> \E i \in D : lib[q[i]].version # None
  BY <1>6
<1> HIDE DEF V
<1>11. Unattachable <=>
         \/ \E i \in D : lib[q[i]] = None
         \/ \E i, j \in D : i # j /\ q[i] = q[j]
         \/ \E i, j \in D : q[i] # q[j] /\ Symbols(q[i]) \cap Symbols(q[j]) # {}
  <2>1. Unattachable <=> \/ \E n \in RequestLibs : lib[n] = None
                         \/ Cardinality(RequestLibs) < Len(q)
                         \/ \E m, n \in RequestLibs : m # n /\ Symbols(m) \cap Symbols(n) # {}
    BY DEF Unattachable, q
  <2>2. (\E n \in RequestLibs : lib[n] = None) <=> \E i \in D : lib[q[i]] = None
    BY <1>2
  <2>3. (\E m, n \in RequestLibs : m # n /\ Symbols(m) \cap Symbols(n) # {})
          <=> \E i, j \in D : q[i] # q[j] /\ Symbols(q[i]) \cap Symbols(q[j]) # {}
    BY <1>2
  <2> QED  BY <1>3, <2>1, <2>2, <2>3
<1>12. Refused <=> Reasons(q)
  BY <1>7, <1>8, <1>9, <1>10, <1>11, Zenon DEF Refused, Reasons
<1> QED  BY <1>12 DEF q

\* The reasons to refuse are those of the request and the libraries.
LEMMA SameReasons ==
  ASSUME UNCHANGED lib, call'.request = call.request
  PROVE  /\ Refused' <=> Refused
         /\ \A q : Reasons(q)' <=> Reasons(q)
<1>1. \A n : Symbols(n)' = Symbols(n)
  BY LibrariesStay
<1>2. RequestLibs' = RequestLibs
  BY DEF RequestLibs
<1>3. Unattachable' <=> Unattachable
  BY <1>1, <1>2 DEF Unattachable
<1>4. VersionsConflict' <=> VersionsConflict
  BY <1>2 DEF VersionsConflict
<1>5. \A q : Reasons(q)' <=> Reasons(q)
  BY <1>1 DEF Reasons
<1> QED  BY <1>3, <1>4, <1>5 DEF Refused

\* Between links nothing is said.
LEMMA IdleVerdict ==
  ASSUME call'.step \in {"idle", "undefined"} PROVE VInv'
BY DEF VInv, SoFar, Accepted, FirstRound, EntryIn, UsageKnown, VerdictExact, Linking

LEMMA InitVerdict == Init => VInv
BY DEF Init, NoCall, VInv, SoFar, Accepted, FirstRound, EntryIn, UsageKnown, VerdictExact, Linking

LEMMA DetachVerdict ==
  ASSUME IInv, DetachAll PROVE VInv'
<1>1. CASE UNCHANGED call
  BY <1>1, IdleVerdict DEF DetachAll
<1>2. CASE \E r \in Requests : call' = [NoCall EXCEPT !.step = "attach", !.request = r]
  <2>1. /\ call'.step = "attach" /\ call'.at = 0 /\ call'.ok = TRUE
        /\ call'.cur = None /\ call'.first = None
    BY <1>2 DEF NoCall
  <2>2. attached' = {}
    BY DEF DetachAll
  <2>3. 1 .. call'.at = {}
    BY <2>1
  <2>4. Agreed'
    BY <2>1, <2>2, <2>3 DEF Agreed
  <2> QED  BY <2>1, <2>4 DEF VInv, SoFar, Accepted, FirstRound, EntryIn, UsageKnown, VerdictExact, Linking
<1> QED  BY <1>1, <1>2 DEF DetachAll

LEMMA AttachVerdict ==
  ASSUME IInv, VInv, AttachNext PROVE VInv'
<1>0. TypeOK /\ Owners /\ SoFar
  BY DEF IInv, VInv
<1> DEFINE i == call.at + 1
           q == call.request.libs
           n == q[i]
           first == IF i = 1 THEN Version(n) ELSE call.first
<1>1. /\ call.step = "attach" /\ call.at < Len(q)
      /\ AttachLib(n) /\ UNCHANGED lib
  BY DEF AttachNext, libVars
<1>2. call.request \in Requests /\ q \in Seq(Names) /\ call.at \in Nat
  BY <1>0, <1>1, LinkerAssumption DEF TypeOK, RequestWellFormed
<1>3. i \in 1 .. Len(q) /\ n \in Names /\ i \in Nat
  BY <1>1, <1>2
<1>4. /\ call'.step = "attach" /\ call'.request = call.request /\ call'.at = i
      /\ call'.cur = Version(n) /\ call'.first = first
      /\ call'.ok = (call.ok /\ Attaches(n) /\ Version(n) = first)
  <2>1. call' = [call EXCEPT !.at = i, !.cur = Version(n), !.first = first,
                             !.ok = @ /\ Attaches(n) /\ Version(n) = first]
    BY DEF AttachNext
  <2>2. /\ DOMAIN call = {"step", "request", "at", "ok", "cur", "first"}
    BY <1>0 DEF TypeOK
  <2>3. call.step = "attach"
    BY <1>1
  <2> HIDE DEF i, n, first
  <2> QED  BY <2>1, <2>2, <2>3
<1>5. (Refused' <=> Refused) /\ (Refused <=> Reasons(q))
  BY <1>1, <1>2, <1>4, SameReasons, RefusedMeans
<1>6. \A m : Symbols(m)' = Symbols(m)
  BY <1>1, LibrariesStay
<1>7. \A j \in 1 .. i : j \in 1 .. call.at \/ j = i
  BY <1>2
<1>8. \A j \in 1 .. call.at : j \in 1 .. Len(q) /\ j # i /\ j \in 1 .. i
  BY <1>1, <1>2
<1>9. call.at > 0 <=> i # 1
  BY <1>2
<1>10. 1 \in 1 .. Len(q) /\ (call.at = 0 \/ call.at > 0)
  BY <1>1, <1>2
<1> HIDE DEF i, n, q, first
<1>11. CASE ~call.ok
  BY <1>0, <1>1, <1>4, <1>5, <1>11
       DEF VInv, SoFar, Accepted, FirstRound, EntryIn, UsageKnown, VerdictExact, Linking
<1>12. CASE call.ok
  <2>0. Agreed
    BY <1>0, <1>1, <1>12 DEF SoFar
  <2>1. /\ attached = {q[j] : j \in 1 .. call.at}
        /\ \A j, k \in 1 .. call.at : q[j] = q[k] => j = k
        /\ \A m, o \in attached : m # o => Symbols(m) \cap Symbols(o) = {}
        /\ \A m \in attached : lib[m].version \in {None, call.first}
        /\ call.cur = call.first /\ (call.at = 0 => call.cur = None)
        /\ call.at > 0 => call.first = lib[q[1]].version
    BY <2>0 DEF Agreed, q
  <2>2. Version(n) = IF lib[n] = None \/ lib[n].version = None THEN call.cur ELSE lib[n].version
    BY DEF Version
  <2>3. CASE call'.ok
    <3>1. /\ lib[n] # None /\ n \notin attached /\ Symbols(n) \cap DOMAIN table = {}
          /\ Version(n) = first
      BY <1>4, <2>3 DEF Attaches, Attachable
    <3>2. attached' = attached \cup {n}
      BY <1>1, <3>1 DEF AttachLib, Attachable
    <3>3. \A m \in attached : Symbols(m) \cap Symbols(n) = {}
      BY <1>0, <3>1 DEF Owners
    <3>4. attached' = {q[j] : j \in 1 .. i}
      <4>1. \A j \in 1 .. i : q[j] \in attached'
        BY <1>7, <2>1, <3>2 DEF n
      <4>2. \A m \in attached' : \E j \in 1 .. i : m = q[j]
        <5> TAKE m \in attached'
        <5>1. CASE m = n
          <6>1. i \in 1 .. i /\ m = q[i]
            BY <1>3, <5>1 DEF n
          <6> QED  BY <6>1
        <5>2. CASE m \in attached
          <6>1. PICK j \in 1 .. call.at : m = q[j]
            BY <2>1, <5>2
          <6> QED  BY <1>8, <6>1
        <5> QED  BY <3>2, <5>1, <5>2
      <4> QED  BY <4>1, <4>2
    <3>5. \A j, k \in 1 .. i : q[j] = q[k] => j = k
      BY <1>7, <2>1, <3>1 DEF n
    <3>6. \A m, o \in attached' : m # o => Symbols(m) \cap Symbols(o) = {}
      BY <2>1, <3>2, <3>3
    <3>7. /\ \A m \in attached' : lib[m].version \in {None, first}
          /\ first = lib[q[1]].version
      <4>1. CASE i = 1
        <5>1. attached = {} /\ call.cur = None
          <6>1. call.at = 0 /\ 1 .. call.at = {}
            BY <1>2, <1>9, <4>1
          <6> QED  BY <2>1, <6>1
        <5>2. first = lib[n].version
          BY <2>2, <3>1, <4>1, <5>1 DEF first
        <5> QED  BY <3>2, <4>1, <5>1, <5>2 DEF n
      <4>2. CASE i # 1
        <5>1. first = call.first /\ call.first = lib[q[1]].version
          BY <1>9, <2>1, <4>2 DEF first
        <5>2. lib[n].version \in {None, first}
          BY <2>2, <3>1
        <5> QED  BY <2>1, <3>2, <5>1, <5>2
      <4> QED  BY <4>1, <4>2
    <3>8. i # 0 /\ i > 0
      BY <1>3
    <3>9. Agreed'
      <4>1. /\ attached' = {call'.request.libs[j] : j \in 1 .. call'.at}
            /\ \A j, k \in 1 .. call'.at : call'.request.libs[j] = call'.request.libs[k] => j = k
        BY <1>4, <3>4, <3>5 DEF q
      <4>2. \A m, o \in attached' : m # o => Symbols(m)' \cap Symbols(o)' = {}
        BY <1>6, <3>6
      <4>3. \A m \in attached' : lib'[m].version \in {None, call'.first}
        BY <1>1, <1>4, <3>7
      <4>4. call'.cur = call'.first /\ call'.first = lib'[call'.request.libs[1]].version
        BY <1>1, <1>4, <3>1, <3>7 DEF q
      <4> QED  BY <1>4, <3>8, <4>1, <4>2, <4>3, <4>4 DEF Agreed
    <3> QED  BY <1>4, <2>3, <3>9
               DEF VInv, SoFar, Accepted, FirstRound, EntryIn, UsageKnown, VerdictExact, Linking
  <2>4. CASE ~call'.ok
    <3>1. Reasons(q)
      <4>1. CASE lib[n] = None
        BY <1>3, <4>1 DEF Reasons, n
      <4>2. CASE lib[n] # None /\ n \in attached
        <5>1. PICK j \in 1 .. call.at : n = q[j]
          BY <2>1, <4>2
        <5>2. j \in 1 .. Len(q) /\ j # i /\ q[j] = q[i]
          BY <1>8, <5>1 DEF n
        <5> QED  BY <1>3, <5>2 DEF Reasons
      <4>3. CASE lib[n] # None /\ n \notin attached /\ Symbols(n) \cap DOMAIN table # {}
        <5>1. PICK m \in attached : Symbols(m) \cap Symbols(n) # {}
          BY <1>0, <4>3 DEF Owners
        <5>2. PICK j \in 1 .. call.at : m = q[j]
          BY <2>1
        <5>3. j \in 1 .. Len(q) /\ q[j] # q[i] /\ Symbols(q[j]) \cap Symbols(q[i]) # {}
          BY <1>8, <4>3, <5>1, <5>2 DEF n
        <5> QED  BY <1>3, <5>3 DEF Reasons
      <4>4. CASE lib[n] # None /\ Attaches(n)
        <5>1. Version(n) # first
          BY <1>4, <1>12, <2>4, <4>4
        <5>2. i # 1 /\ first = call.first /\ call.first = lib[q[1]].version
          BY <1>9, <2>1, <5>1 DEF first
        <5>3. lib[q[i]].version # None /\ lib[q[i]].version # lib[q[1]].version
          BY <2>1, <2>2, <4>4, <5>1, <5>2 DEF n
        <5> QED  BY <1>3, <1>10, <5>3 DEF Reasons
      <4> QED  BY <4>1, <4>2, <4>3, <4>4 DEF Attaches, Attachable
    <3>2. Refused'
      BY <1>5, <3>1
    <3> QED  BY <1>4, <2>4, <3>2
               DEF VInv, SoFar, Accepted, FirstRound, EntryIn, UsageKnown, VerdictExact, Linking
  <2> QED  BY <2>3, <2>4
<1> QED  BY <1>11, <1>12

\* When every library is attached there is no reason to refuse.
LEMMA NotRefused ==
  ASSUME IInv, VInv, Attached PROVE ~Refused
<1> DEFINE q == call.request.libs
           D == 1 .. Len(q)
<1>1. call.step = "attach" /\ call.ok /\ call.at = Len(q)
  BY DEF Attached
<1>2. TypeOK /\ Owners /\ Agreed
  BY <1>1 DEF IInv, VInv, SoFar
<1>3. call.request \in Requests /\ q \in Seq(Names) /\ q # <<>>
  BY <1>1, <1>2, LinkerAssumption DEF TypeOK, RequestWellFormed
<1>4. 1 \in D /\ Len(q) > 0
  BY <1>3
<1>5. \A i \in D : q[i] \in attached
  BY <1>1, <1>2 DEF Agreed
<1>6. \A i \in D : lib[q[i]] \in Libs
  BY <1>2, <1>5 DEF Owners
<1>7. \A i, j \in D : q[i] = q[j] => i = j
  BY <1>1, <1>2 DEF Agreed
<1>8. \A n, o \in attached : n # o => Symbols(n) \cap Symbols(o) = {}
  BY <1>2 DEF Agreed
<1>9. /\ \A i \in D : lib[q[i]].version \in {None, call.first}
      /\ call.first = lib[q[1]].version
  BY <1>1, <1>2, <1>4, <1>5 DEF Agreed
<1>10. None \notin Libs
  BY LinkerAssumption
<1> HIDE DEF q
<1>11. ~Reasons(q)
  BY <1>5, <1>6, <1>7, <1>8, <1>9, <1>10 DEF Reasons
<1> QED  BY <1>3, <1>11, RefusedMeans DEF q

LEMMA AttachFailedVerdict ==
  ASSUME IInv, VInv, AttachFailed PROVE VInv'
<1>1. call.step = "attach" /\ ~call.ok /\ Goto("failed") /\ UNCHANGED lib
  BY DEF AttachFailed, Fail, Goto, libVars
<1>2. call'.step = "failed" /\ call'.request = call.request
  BY <1>1, StepTo DEF IInv
<1>3. Refused
  BY <1>1 DEF VInv, SoFar
<1>4. Refused'
  BY <1>1, <1>2, <1>3, SameReasons
<1> QED  BY <1>2, <1>4 DEF Refused, Reason, VInv, SoFar, Accepted, FirstRound, EntryIn, UsageKnown, VerdictExact, Linking

\* A link begins with roots that are defined, or with the entry.
LEMMA BeginVerdict ==
  ASSUME IInv, VInv, Attached, Goto("functions"),
         UNCHANGED <<lib, attached, table>>,
         \A x \in work' : Defined(x) \/ (Target = "shader" /\ x = <<None, call.request.entry>>),
         Target = "library" => work' = {},
         Target = "shader" => <<None, call.request.entry>> \in work'
  PROVE  VInv'
<1>1. call.step # "idle" /\ TypeOK
  BY DEF Attached, IInv
<1>2. call'.step = "functions" /\ call'.request = call.request
  BY <1>1, StepTo
<1>3. Accepted'
  BY <1>2, NotRefused, SameReasons DEF Accepted
<1>4. Target' = Target /\ \A x : Defined(x)' <=> Defined(x)
  BY <1>2, SameView
<1>5. FirstRound'
  BY <1>2, <1>4 DEF FirstRound, Wanted
<1>6. EntryIn'
  BY <1>2, <1>4 DEF EntryIn, Pending
<1> QED  BY <1>2, <1>3, <1>5, <1>6 DEF VInv, SoFar, UsageKnown, VerdictExact

LEMMA LinkVerdict ==
  ASSUME IInv, VInv, LinkShader \/ LinkAll \/ LinkShaders \/ LinkExports PROVE VInv'
<1>0. TypeOK /\ Owners /\ Fresh
  BY DEF IInv
<1>1. CASE LinkShader
  BY <1>1, BeginVerdict DEF LinkShader, libVars
<1>2. CASE LinkAll
  <2>1. Target = "library" /\ Attached /\ Goto("functions") /\ work' = work
        /\ UNCHANGED <<lib, attached, table>>
    BY <1>2 DEF LinkAll
  <2>2. work' = {}
    BY <1>0, <2>1 DEF Fresh, Attached
  <2> QED  BY <2>1, <2>2, BeginVerdict
<1>3. CASE LinkShaders
  <2>1. /\ Target = "shaders" /\ Attached /\ Goto("functions")
        /\ work' = UNION {Entries(n) : n \in attached}
        /\ UNCHANGED <<lib, attached, table>>
    BY <1>3 DEF LinkShaders
  <2>2. \A n \in attached : Entries(n) \subseteq DOMAIN table
    BY <1>0, SymbolFacts, OwnersFacts DEF Owners, TypeOK
  <2>3. \A x \in work' : Defined(x)
    BY <2>1, <2>2 DEF Defined
  <2> QED  BY <2>1, <2>3, BeginVerdict
<1>4. CASE LinkExports
  <2>1. /\ Target = "exports" /\ Attached /\ Goto("functions")
        /\ work' = DOMAIN table \cap Exported
        /\ UNCHANGED <<lib, attached, table>>
    BY <1>4 DEF LinkExports, libVars
  <2>2. \A x \in work' : Defined(x)
    BY <2>1 DEF Defined
  <2> QED  BY <2>1, <2>2, BeginVerdict
<1> QED  BY <1>1, <1>2, <1>3, <1>4

LEMMA AddVerdict ==
  ASSUME IInv, VInv, Linking, NEW s \in work, AddFunction(s) PROVE VInv'
<1> DEFINE n == table[s]
           used == UsedFunctions(n, s) \ added
           undefined == {x \in used : Stays(n, x)}
<1>0. /\ TypeOK /\ Owners /\ CtorsIn
      /\ Accepted /\ FirstRound /\ EntryIn /\ UsageKnown
  BY DEF IInv, VInv
<1>1. /\ s \notin added /\ Defined(s)
      /\ loaded' = IF call.step = "functions" THEN loaded \cup {<<n, s>>} ELSE loaded
      /\ decls' = decls \cup undefined
      /\ work' = (work \ {s}) \cup (used \ undefined)
      /\ added' = added \cup {s} /\ libSet' = libSet \cup {n}
      /\ UNCHANGED <<lib, usage, hidden, attached, table, call, visible>>
  BY DEF AddFunction
<1>2. used \subseteq Calls(n, s)
  BY DEF UsedFunctions
<1>3. \A x \in undefined : Stays(n, x)
  OBVIOUS
<1>4. \A x \in used \ undefined : ~Stays(n, x)
  OBVIOUS
<1> HIDE DEF used, undefined
<1>5. s \in AllSymbols /\ s \in DOMAIN table /\ n \in attached /\ n \in Names /\ lib[n] \in Libs
  BY <1>0, <1>1, OwnersFacts DEF TypeOK
<1>6. /\ Target' = Target /\ Linking' = Linking
      /\ \A x : (Defined(x)' <=> Defined(x))
      /\ \A m, x : Calls(m, x)' = Calls(m, x)
  BY <1>1, LibrariesStay, SameView DEF Linking
<1>7. Target \in {"shader", "library", "shaders", "exports"}
  BY <1>0, LinkerAssumption DEF TypeOK, Target, RequestWellFormed, Linking
<1>8. SoFar' /\ VerdictExact'
  BY <1>1 DEF SoFar, VerdictExact, Linking
<1>9. Accepted'
  BY <1>0, <1>1, SameReasons DEF Accepted, Linking
<1>10. EntryIn'
  BY <1>0, <1>1, <1>6 DEF EntryIn, Pending
<1>11. FirstRound'
  <2> SUFFICES ASSUME call.step = "functions"
               PROVE  /\ \A x \in work' : Defined(x) \/ Wanted(x)'
                      /\ Target = "library" => work' = {}
    BY <1>1, <1>6 DEF FirstRound
  <2>1. Target # "library"
    BY <1>0 DEF FirstRound
  <2>2. \A x : Wanted(x) => Wanted(x)'
    BY <1>1, <1>6 DEF Wanted
  <2>3. ASSUME NEW x \in used \ undefined PROVE Defined(x) \/ Wanted(x)'
    <3>1. x \in Calls(n, s)
      BY <1>2
    <3>2. CASE Target \in {"shader", "shaders"}
      BY <1>1, <1>6, <3>1, <3>2 DEF Wanted
    <3>3. CASE Target = "exports"
      <4>1. x[2] \in lib[n].funs \/ Defined(x)
        BY <1>4, <3>3 DEF Stays
      <4>2. x = Symbol(n, x[2])
        BY <3>1 DEF Calls, Symbol
      <4>3. x[2] \in lib[n].funs => x \in Symbols(n)
        BY <4>2 DEF Symbols
      <4>4. Symbols(n) \subseteq DOMAIN table
        BY <1>0, <1>5, OwnersFacts
      <4> QED  BY <4>1, <4>3, <4>4 DEF Defined
    <3> QED  BY <1>7, <2>1, <3>2, <3>3
  <2> QED  BY <1>0, <1>1, <2>1, <2>2, <2>3 DEF FirstRound
<1>12. UsageKnown'
  <2> SUFFICES ASSUME call.step = "initializers"
               PROVE  /\ \A x \in work' : table[x] \in libSet'
                      /\ \A fs \in loaded' : fs[1] \in libSet' => fs \in usage
    BY <1>1 DEF UsageKnown
  <2>1. n \in libSet /\ libSet' = libSet /\ loaded' = loaded
    BY <1>0, <1>1 DEF UsageKnown
  <2>2. s[2] \in InitFuncs(lib[n])
    BY <1>0 DEF CtorsIn
  <2>3. ASSUME NEW u \in used PROVE table[u] = n
    <3>1. PICK x \in lib[n].calls[s[2]] : u = Symbol(n, x)
      BY <1>2 DEF Calls
    <3>2. x \in lib[n].funs
      BY <1>5, <2>2, <3>1, InitFuncsClosed
    <3>3. u \in Symbols(n)
      BY <3>1, <3>2 DEF Symbols
    <3> QED  BY <1>0, <1>5, <3>3 DEF Owners
  <2> QED  BY <1>0, <1>1, <2>1, <2>3 DEF UsageKnown
<1> QED  BY <1>8, <1>9, <1>10, <1>11, <1>12 DEF VInv

LEMMA SkipVerdict ==
  ASSUME IInv, VInv, Linking, NEW s \in work, SkipFunction(s) PROVE VInv'
<1>0. Accepted /\ FirstRound /\ EntryIn /\ UsageKnown
  BY DEF VInv
<1>1. /\ s \in added /\ work' = work \ {s}
      /\ UNCHANGED <<lib, loaded, usage, hidden, attached, table, call, added, libSet, decls, visible>>
  BY DEF SkipFunction, libVars
<1>2. /\ Target' = Target /\ \A x : (Defined(x)' <=> Defined(x))
      /\ \A m, x : Calls(m, x)' = Calls(m, x)
  BY <1>1, LibrariesStay, SameView
<1>3. SoFar' /\ VerdictExact'
  BY <1>1 DEF SoFar, VerdictExact, Linking
<1>4. Accepted'
  BY <1>0, <1>1, SameReasons DEF Accepted, Linking
<1>5. EntryIn'
  BY <1>0, <1>1, <1>2 DEF EntryIn, Pending, Linking
<1>6. FirstRound'
  BY <1>0, <1>1, <1>2 DEF FirstRound, Wanted
<1>7. UsageKnown'
  BY <1>0, <1>1 DEF UsageKnown
<1> QED  BY <1>3, <1>4, <1>5, <1>6, <1>7 DEF VInv

LEMMA UsageVerdict ==
  ASSUME IInv, VInv, BuildGlobalUsage PROVE VInv'
<1>0. TypeOK /\ Owners /\ LibsIn /\ Accepted /\ FirstRound /\ EntryIn
  BY DEF IInv, VInv
<1>1. /\ call.step = "functions" /\ work = {} /\ Goto("initializers")
      /\ usage' = usage \cup {fs \in loaded' : fs[1] \in libSet}
      /\ work' = UNION {{c \in Ctors(n) : NeedsCtor(n, c)} : n \in libSet}
      /\ UNCHANGED <<lib, hidden, attached, table, added, libSet, decls, visible>>
  BY DEF BuildGlobalUsage
<1>2. call'.step = "initializers" /\ call'.request = call.request
  BY <1>0, <1>1, StepTo
<1>3. Accepted'
  BY <1>0, <1>1, <1>2, SameReasons DEF Accepted, Linking
<1>4. Target' = Target
  BY <1>1, <1>2, SameView
<1>5. EntryIn'
  BY <1>0, <1>1, <1>2, <1>4 DEF EntryIn, Pending, Linking
<1>6. \A x \in work' : table[x] \in libSet
  <2> TAKE x \in work'
  <2>1. PICK n \in libSet : x \in Ctors(n)
    BY <1>1
  <2>2. n \in attached /\ n \in Names /\ lib[n] \in Libs
    BY <1>0, <1>1 DEF LibsIn, Linking, Owners, TypeOK
  <2>3. x \in Symbols(n)
    BY <2>1, <2>2, SymbolFacts
  <2> QED  BY <1>0, <2>1, <2>2, <2>3 DEF Owners
<1>7. UsageKnown'
  BY <1>1, <1>6 DEF UsageKnown
<1> QED  BY <1>2, <1>3, <1>5, <1>7 DEF VInv, SoFar, FirstRound, VerdictExact

\* What a link is asked for and what it has so far are the same after it ends.
LEMMA EndView ==
  ASSUME UNCHANGED <<lib, usage, hidden, attached, table, added>>, call'.request = call.request
  PROVE  /\ Needed' = Needed /\ Undefined' = Undefined /\ ResourcesClash' = ResourcesClash
         /\ RootsUsable' = RootsUsable /\ ExportsMissing' = ExportsMissing
<1>1. /\ Target' = Target /\ Roots' = Roots /\ Exported' = Exported
      /\ \A S : Complete(S)' <=> Complete(S)
      /\ \A m, x : Calls(m, x)' = Calls(m, x) /\ Uses(m, x)' = Uses(m, x)
  BY SameView, LibrariesStay DEF Exported
<1>2. Needed' = Needed
  BY <1>1 DEF Needed
<1>3. Undefined' = Undefined
  BY <1>1, <1>2 DEF Undefined
<1>4. \A x, y : Mismatched(x, y)' = Mismatched(x, y)
  BY <1>1 DEF Mismatched, TypeOf
<1>5. ResourcesClash' = ResourcesClash
  BY <1>2, <1>4 DEF ResourcesClash
<1>6. RootsUsable' = RootsUsable
  BY <1>1 DEF RootsUsable
<1>7. ExportsMissing' = ExportsMissing
  BY <1>1, <1>2 DEF ExportsMissing
<1> QED  BY <1>2, <1>3, <1>5, <1>6, <1>7

\* What is in is needed.
LEMMA AddedNeeded ==
  ASSUME IInv, Linking PROVE added \subseteq Needed
<1>1. \A s \in added : s \in DOMAIN table /\ s \in Pending
  BY DEF IInv, CalleesIn, Defined, Pending
<1>2. \A S \in SUBSET DOMAIN table : Complete(S) => Pending \cap DOMAIN table \subseteq S
  BY DEF IInv, Justified
<1> QED  BY <1>1, <1>2 DEF Needed

LEMMA FailedVerdict ==
  ASSUME IInv, Linking, Goto("failed"), UNCHANGED <<libVars, attached, table, linkVars>>,
         Undefined \/ ResourcesClash \/ ~RootsUsable \/ ExportsMissing
  PROVE  VInv'
<1>1. call'.step = "failed" /\ call'.request = call.request
  BY StepTo DEF IInv, Linking
<1>2. /\ Undefined' = Undefined /\ ResourcesClash' = ResourcesClash
      /\ RootsUsable' = RootsUsable /\ ExportsMissing' = ExportsMissing
  BY <1>1, EndView DEF libVars, linkVars
<1>3. Reason'
  BY <1>2 DEF Reason
<1> QED  BY <1>1, <1>3 DEF VInv, SoFar, Accepted, FirstRound, EntryIn, UsageKnown, VerdictExact, Linking

LEMMA MissVerdict ==
  ASSUME IInv, VInv, Linking, NEW s \in work, MissFunction(s) PROVE VInv'
<1>0. CtorsIn /\ FirstRound
  BY DEF IInv, VInv
<1>1. /\ s \notin added /\ ~Defined(s) /\ Goto("failed")
      /\ UNCHANGED <<libVars, attached, table, linkVars>>
  BY DEF MissFunction, Fail, Goto
<1>2. call.step = "functions"
  BY <1>0, <1>1 DEF CtorsIn, Pending, Linking
<1>3. Wanted(s)
  BY <1>0, <1>1, <1>2 DEF FirstRound
<1>4. Undefined
  <2>1. CASE Target = "shader" /\ s = <<None, call.request.entry>>
    <3>1. Roots = {}
      BY <1>1, <2>1 DEF Roots, Defined
    <3> QED  BY <2>1, <3>1 DEF Undefined
  <2>2. CASE Target \in {"shader", "shaders"} /\ \E x \in added : s \in Calls(table[x], x)
    BY <1>1, <2>2, AddedNeeded DEF Undefined, Defined
  <2> QED  BY <1>3, <2>1, <2>2 DEF Wanted
<1> QED  BY <1>1, <1>4, FailedVerdict

LEMMA JobFailedVerdict ==
  ASSUME IInv, VInv, JobFailed PROVE VInv'
<1>1. /\ JobReady /\ Linking /\ Goto("failed") /\ UNCHANGED <<libVars, attached, table, linkVars>>
      /\ ~RootsUsable \/ ~ResourcesMatch \/ (BodiesLoaded /\ ~ExportsFound)
  BY DEF JobFailed, JobReady, Fail, Goto, Linking
<1>2. CASE ~ResourcesMatch
  <2>1. PICK x \in added, y \in added : Mismatched(x, y) # {}
    BY <1>2 DEF ResourcesMatch
  <2>2. ResourcesClash
    BY <1>1, <2>1, AddedNeeded DEF ResourcesClash
  <2> QED  BY <1>1, <2>2, FailedVerdict
<1>3. CASE BodiesLoaded /\ ~ExportsFound
  <2>1. added = Needed
    BY <1>1, <1>3, WorkDone
  <2>2. Target = "exports" /\ \E x \in Exported : x \notin Surviving
    BY <1>3 DEF ExportsFound
  <2>3. \A x \in Exported : x[1] = None
    BY DEF Exported
  <2>4. ExportsMissing
    BY <2>1, <2>2, <2>3 DEF ExportsMissing, Surviving
  <2> QED  BY <1>1, <2>4, FailedVerdict
<1>4. CASE ~RootsUsable
  BY <1>1, <1>4, FailedVerdict
<1> QED  BY <1>1, <1>2, <1>3, <1>4

LEMMA DoneVerdict ==
  ASSUME IInv, VInv, JobDone PROVE VInv'
<1>0. TypeOK /\ CalleesIn /\ CtorsIn /\ Accepted /\ EntryIn /\ UsageKnown
  BY DEF IInv, VInv
<1>1. /\ JobReady /\ RootsUsable /\ ResourcesMatch /\ BodiesLoaded /\ ExportsFound
      /\ Goto("linked")
      /\ UNCHANGED <<lib, loaded, usage, hidden, attached, table, work, added, libSet, decls>>
  BY DEF JobDone, libVars
<1>2. call.step = "initializers" /\ work = {} /\ Linking /\ Pending = added
  BY <1>1 DEF JobReady, Linking, Pending
<1>3. call'.step = "linked" /\ call'.request = call.request
  BY <1>0, <1>1, <1>2, StepTo
<1>4. ~Refused'
  BY <1>0, <1>1, <1>2, <1>3, SameReasons DEF Accepted
<1>5. /\ added = Needed
      /\ \A s \in added : /\ Defined(s)
                          /\ \A c \in Calls(table[s], s) : c \in added \/ (c \in decls /\ MayStay(c))
  BY <1>1, WorkDone
<1>6. ~Undefined
  <2>1. Target = "shader" => Roots # {}
    BY <1>0, <1>2, <1>5 DEF EntryIn, Roots, Defined
  <2>2. Target \in {"shader", "shaders"} =>
          \A s \in Needed : Calls(table[s], s) \subseteq DOMAIN table
    BY <1>5 DEF MayStay, Defined
  <2> QED  BY <2>1, <2>2 DEF Undefined
<1>7. ~ResourcesClash
  <2>1. \A s \in added : <<table[s], s>> \in usage
    BY <1>0, <1>1, <1>2 DEF CalleesIn, UsageKnown, BodiesLoaded
  <2> QED  BY <1>1, <1>5, <2>1 DEF ResourcesMatch, ResourcesClash
<1>8. ~ExportsMissing
  BY <1>1, <1>5 DEF ExportsFound, Surviving, ExportsMissing
<1>9. ~Reason'
  <2>1. /\ Undefined' = Undefined /\ ResourcesClash' = ResourcesClash
        /\ RootsUsable' = RootsUsable /\ ExportsMissing' = ExportsMissing
    BY <1>1, <1>3, EndView
  <2> QED  BY <1>1, <1>4, <1>6, <1>7, <1>8, <2>1 DEF Reason, Refused
<1> QED  BY <1>3, <1>4, <1>9 DEF VInv, SoFar, Accepted, FirstRound, EntryIn, UsageKnown, VerdictExact, Linking

LEMMA StutterVerdict ==
  ASSUME VInv, UNCHANGED vars PROVE VInv'
<1>1. UNCHANGED <<lib, loaded, usage, hidden, attached, table, call, work, added, libSet, decls, visible>>
  BY DEF vars, libVars, linkVars
<1>2. /\ Target' = Target
      /\ \A x : (Defined(x)' <=> Defined(x))
      /\ \A m : Symbols(m)' = Symbols(m)
      /\ \A m, x : Calls(m, x)' = Calls(m, x)
  BY <1>1, SameView, LibrariesStay
<1>3. Refused' <=> Refused
  BY <1>1, SameReasons
<1>4. Agreed' <=> Agreed
  BY <1>1, <1>2 DEF Agreed
<1>5. SoFar' /\ Accepted'
  BY <1>1, <1>3, <1>4 DEF VInv, SoFar, Accepted, Linking
<1>6. FirstRound' /\ EntryIn' /\ UsageKnown'
  BY <1>1, <1>2 DEF VInv, FirstRound, Wanted, EntryIn, UsageKnown, Linking, Pending
<1>7. Reason' <=> Reason
  BY <1>1, <1>3, EndView DEF Reason, Refused
<1>8. VerdictExact'
  BY <1>1, <1>7 DEF VInv, VerdictExact
<1> QED  BY <1>5, <1>6, <1>8 DEF VInv

LEMMA VerdictStep == IInv /\ VInv /\ [Next]_vars => VInv'
<1> SUFFICES ASSUME IInv, VInv, [Next]_vars PROVE VInv'
  OBVIOUS
<1>1. CASE DetachAll
  BY <1>1, DetachVerdict
<1>2. CASE (\E n \in Names : RegisterLibrary(n)) \/ Return
  BY <1>2, IdleVerdict DEF RegisterLibrary, Return, NoCall
<1>3. CASE AttachNext \/ AttachFailed
  BY <1>3, AttachVerdict, AttachFailedVerdict
<1>4. CASE LinkShader \/ LinkAll \/ LinkShaders \/ LinkExports
  BY <1>4, LinkVerdict
<1>5. CASE AddFunctions
  <2>1. Linking /\ \E s \in work : AddFunction(s) \/ SkipFunction(s) \/ MissFunction(s)
    BY <1>5 DEF AddFunctions, Linking
  <2> QED  BY <2>1, AddVerdict, SkipVerdict, MissVerdict
<1>6. CASE BuildGlobalUsage
  BY <1>6, UsageVerdict
<1>7. CASE JobDone \/ JobFailed
  BY <1>7, DoneVerdict, JobFailedVerdict
<1>8. CASE JobUndefined
  <2>1. call'.step = "undefined"
    BY <1>8, StepTo DEF JobUndefined, JobReady, IInv
  <2> QED  BY <2>1, IdleVerdict
<1>9. CASE UNCHANGED vars
  BY <1>9, StutterVerdict
<1> QED  BY <1>1, <1>2, <1>3, <1>4, <1>5, <1>6, <1>7, <1>8, <1>9 DEF Next, LinkStep

-----------------------------------------------------------------------------
\* Types, for all libraries and requests that are well formed.
THEOREM TypeCorrect == Spec => []TypeOK
<1>1. IInv => TypeOK
  BY DEF IInv
<1> QED  BY <1>1, Invariance, PTL

\* The function map is that of the attached libraries, whatever attach failed:
\* AttachLib takes out what it put in and nothing else.
THEOREM TableCorrect == Spec => []TableExact
<1>1. IInv => TableExact
  BY OwnersFacts DEF IInv, Owners, TableExact
<1> QED  BY <1>1, Invariance, PTL

\* What a link puts into the module is what its roots need, initializers
\* included, in spite of lazy loading; and it exports what it should.
THEOREM LinkCorrect == Spec => []LinkExact
<1>1. IInv => LinkExact
  BY DEF IInv, Promise
<1> QED  BY <1>1, Invariance, PTL

\* No callee in a linked module is lost.
THEOREM CalleesKept == Spec => []CallsLinked
<1>1. IInv => CallsLinked
  BY DEF IInv, Promise
<1> QED  BY <1>1, Invariance, PTL

\* Link fails for one of the reasons a client can see in its libraries, and
\* succeeds only when there is none: whatever order libraries are attached and
\* functions are taken from the work list, and whatever earlier links loaded.
THEOREM VerdictCorrect == Spec => []VerdictExact
<1>1. Spec => []IInv
  BY Invariance
<1>2. Init => VInv
  BY InitVerdict
<1>3. VInv => VerdictExact
  BY DEF VInv
<1> QED  BY <1>1, <1>2, <1>3, VerdictStep, PTL DEF Spec
=============================================================================
