------------------------------- MODULE Linker -------------------------------
(***************************************************************************)
(* The library linker: IDxcLinker in tools/dxcompiler/dxclinker.cpp        *)
(* (RegisterLibrary, Link) and DxilLinkerImpl, DxilLib and DxilLinkJob in  *)
(* lib/HLSL/DxilLinker.cpp.                                                *)
(*                                                                         *)
(* A linker keeps the libraries it was given and loads their functions on  *)
(* demand.  Link attaches some of them, collects the functions that the    *)
(* roots need, then the initializers of the globals those use, and clones  *)
(* everything into a new module.  What is loaded stays loaded for later    *)
(* links.  The work list is a stack in the code and a set here: its order  *)
(* depends on a hash table and on the order of call instructions.          *)
(***************************************************************************)
EXTENDS Integers, Sequences, FiniteSets

CONSTANTS
  Names,     \* names of libraries
  Libs,      \* contents of the libraries the client has
  Funcs,     \* names of functions in their source
  Globals,   \* names of globals
  Requests,  \* arguments of Link
  None

\* What a library contains: its functions (those in internal are invisible
\* outside), the shaders among them with their kinds, initializers of static
\* globals (ctors), callees and patch constant functions (calls), globals used,
\* the resources among the globals with their types, the compiler's version.
\* A compiled source has one initializer, which calls what is in the source only
\* (CGDeclCXX.cpp, EmitCXXGlobalInitFunc; CGHLSLMSFinishCodeGen.cpp,
\* IsValidCtorFunction); libraries that a linker made may have more.
LibWellFormed(l) ==
  /\ l.funs \subseteq Funcs /\ l.internal \subseteq l.funs /\ l.ctors \subseteq l.internal
  /\ l.entry \in [Funcs -> {None, "ps", "vs"}]
  /\ \A f \in Funcs : l.entry[f] # None => f \in l.funs \ l.internal
  /\ l.calls \in [Funcs -> SUBSET Funcs] /\ l.uses \in [Funcs -> SUBSET Globals]
  /\ \A c, d \in l.ctors : c = d
  /\ \E I \in SUBSET l.funs : l.ctors \subseteq I /\ \A f \in I : l.calls[f] \subseteq I

\* A request names libraries and one of the four things that Link can make.
RequestWellFormed(r) ==
  /\ r.libs \in Seq(Names) /\ r.libs # <<>>
  /\ r.target \in {"shader", "library", "shaders", "exports"}
  /\ r.target = "shader" => r.entry \in Funcs
  /\ r.exports \subseteq Funcs
ASSUME LinkerAssumption ==
  /\ \A l \in Libs : LibWellFormed(l)
  /\ \A r \in Requests : RequestWellFormed(r)
  /\ None \notin Names /\ None \notin Libs

VARIABLES
  lib,       \* m_LibMap: the library registered under a name
  attached,  \* m_attachedLibs
  table,     \* m_functionNameMap: the attached library that defines a function
  loaded,    \* functions materialized by LazyLoadFunction, so that calls are known
  usage,     \* functions whose usedGVs are filled in
  hidden,    \* functions whose linkage a link has made internal
  call,      \* the Link in progress: request and step, libraries left to attach
  work,      \* workList
  added,     \* addedFunctionSet, and m_functionDefs of the DxilLinkJob
  libSet,    \* libSet: libraries with a function in the link
  decls,     \* functions that stay undefined in a linked library
  visible    \* functions the linked module exports

libVars  == <<lib, loaded, usage, hidden>>
linkVars == <<work, added, libSet, decls, visible>>
vars == <<libVars, attached, table, call, linkVars>>

NoCall == [step |-> "idle", request |-> None, at |-> 0, ok |-> TRUE,
           cur |-> None, first |-> None]

Init ==
  /\ lib = [n \in Names |-> None]
  /\ attached = {} /\ table = [f \in {} |-> None]
  /\ loaded = {} /\ usage = {} /\ hidden = {}
  /\ call = NoCall
  /\ work = {} /\ added = {} /\ libSet = {} /\ decls = {} /\ visible = {}

-----------------------------------------------------------------------------
(* Functions of the libraries.                                             *)

\* DxilLib prefixes the names of internal functions with the library's.
Symbol(n, f) == <<IF f \in lib[n].internal THEN n ELSE None, f>>

Symbols(n)  == {Symbol(n, f) : f \in lib[n].funs}
Entries(n)  == {Symbol(n, f) : f \in {g \in Funcs : lib[n].entry[g] # None}}
Ctors(n)    == {Symbol(n, f) : f \in lib[n].ctors}
Calls(n, s) == {Symbol(n, f) : f \in lib[n].calls[s[2]]}
Uses(n, s)  == lib[n].uses[s[2]]

\* The global is a resource of this type, shared by name, or a static that
\* belongs to its library.
TypeOf(n, g) == IF g \in DOMAIN lib[n].resources THEN lib[n].resources[g] ELSE None

Defined(s) == s \in DOMAIN table
At(n, S)   == {<<n, s>> : s \in S}

-----------------------------------------------------------------------------
(* RegisterLibrary, and DxcLinker::Link up to the call of the linker.      *)

\* Registering under a name in use, or something that does not load, fails
\* and changes nothing.
RegisterLibrary(n) ==
  /\ call.step = "idle" /\ lib[n] = None
  /\ \E l \in Libs : lib' = [lib EXCEPT ![n] = l]
  /\ UNCHANGED <<attached, table, loaded, usage, hidden, call, linkVars>>

\* Link first detaches what an earlier link attached; it goes no further when
\* the options are wrong.
DetachAll ==
  /\ call.step = "idle"
  /\ \/ \E r \in Requests : call' = [NoCall EXCEPT !.step = "attach", !.request = r]
     \/ UNCHANGED call
  /\ attached' = {} /\ table' = [f \in {} |-> None]
  /\ UNCHANGED <<libVars, linkVars>>

\* The function map with the functions of library n, those it has kept.
WithFunctions(n) ==
  [s \in DOMAIN table \cup Symbols(n) |-> IF Defined(s) THEN table[s] ELSE n]

RemoveFunctionsMut(t, n) == [s \in DOMAIN t \ Symbols(n) |-> t[s]]   \* mutant
\* The function map without what library n put there.
RemoveFunctions(t, n) == [s \in {s \in DOMAIN t : t[s] # n} |-> t[s]]

\* AttachLib: a function that is already there is an error, after which the
\* functions of this library are taken out again.
Attachable(n) == lib[n] # None /\ n \notin attached
AttachLib(n) ==
  IF Attachable(n)
  THEN IF Symbols(n) \cap DOMAIN table = {}
       THEN attached' = attached \cup {n} /\ table' = WithFunctions(n)
       ELSE UNCHANGED attached /\ table' = RemoveFunctions(WithFunctions(n), n)
  ELSE UNCHANGED <<attached, table>>
Attaches(n) == Attachable(n) /\ Symbols(n) \cap DOMAIN table = {}

VersionMut(n) == IF lib[n] = None THEN call.cur ELSE lib[n].version   \* mutant
\* The version that a library is compared with the first one by: its own, or
\* for want of one that of the library before it.
Version(n) == IF lib[n] = None \/ lib[n].version = None THEN call.cur ELSE lib[n].version

AttachNext ==
  /\ call.step = "attach" /\ call.at < Len(call.request.libs)
  /\ LET i == call.at + 1
         n == call.request.libs[i]
         cur   == Version(n)
         first == IF i = 1 THEN cur ELSE call.first
     IN  /\ AttachLib(n)
         /\ call' = [call EXCEPT !.at = i, !.cur = cur, !.first = first,
                                 !.ok = @ /\ Attaches(n) /\ cur = first]
  /\ UNCHANGED <<libVars, linkVars>>

Fail == call' = [call EXCEPT !.step = "failed"]
Goto(step) == call' = [call EXCEPT !.step = step]

\* Any error while attaching means that nothing is linked.
AttachFailed ==
  /\ call.step = "attach" /\ call.at = Len(call.request.libs) /\ ~call.ok
  /\ Fail
  /\ UNCHANGED <<libVars, attached, table, linkVars>>

-----------------------------------------------------------------------------
(* DxilLinkerImpl::Link.                                                   *)

Attached == call.step = "attach" /\ call.at = Len(call.request.libs) /\ call.ok
Target   == call.request.target

\* A shader: its entry is the root.
LinkShader ==
  /\ Attached /\ Target = "shader"
  /\ work' = {<<None, call.request.entry>>}
  /\ Goto("functions")
  /\ UNCHANGED <<libVars, attached, table, added, libSet, decls, visible>>

\* A library without -exports takes every function.
LinkAll ==
  /\ Attached /\ Target = "library"
  /\ LET all == {<<table[s], s>> : s \in DOMAIN table}
     IN  /\ loaded' = loaded \cup all
         /\ libSet' = {fs[1] : fs \in all}
         /\ added' = DOMAIN table
         /\ decls' = {d \in UNION {Calls(fs[1], fs[2]) : fs \in all} : ~Defined(d)}
  /\ Goto("functions")
  /\ UNCHANGED <<lib, usage, hidden, attached, table, work, visible>>

\* -export-shaders-only: the shaders are the roots, and every other function
\* of the attached libraries becomes internal, in the library itself.
LinkShaders ==
  /\ Attached /\ Target = "shaders"
  /\ work' = UNION {Entries(n) : n \in attached}
  /\ libSet' = attached
  /\ hidden' = hidden \cup UNION {At(n, Symbols(n) \ Entries(n)) : n \in attached}
  /\ Goto("functions")
  /\ UNCHANGED <<lib, loaded, usage, attached, table, added, decls, visible>>

\* -exports: the functions named there, under their unprefixed names.
Exported == {<<None, f>> : f \in call.request.exports}
LinkExports ==
  /\ Attached /\ Target = "exports"
  /\ work' = DOMAIN table \cap Exported
  /\ Goto("functions")
  /\ UNCHANGED <<libVars, attached, table, added, libSet, decls, visible>>

\* The callees of s that LazyLoadFunction has found; none before it has run.
UsedFunctions(n, s) == IF <<n, s>> \in loaded' THEN Calls(n, s) ELSE {}

\* One round of AddFunctions.  A function that -exports pulls in may stay
\* undefined, if no library defines it.  Once the initializers are added
\* nothing is loaded any more, and everything must be defined.
Stays(n, f) ==
  /\ call.step = "functions" /\ Target = "exports"
  /\ f[2] \notin lib[n].funs /\ ~Defined(f)
AddFunctionMut(s) ==                                          \* mutant
  LET n == table[s]
  IN  /\ Defined(s)
      /\ loaded' = IF call.step = "functions" THEN loaded \cup {<<n, s>>} ELSE loaded
      /\ LET used == UsedFunctions(n, s)
             undefined == {f \in used : Stays(n, f)}
         IN  /\ decls' = decls \cup undefined
             /\ work' = (work \ {s}) \cup (used \ undefined)
      /\ added' = added \cup {s}
      /\ libSet' = libSet \cup {n}
      /\ UNCHANGED <<lib, usage, hidden, attached, table, call, visible>>
AddFunction(s) ==
  LET n == table[s]
  IN  /\ s \notin added /\ Defined(s)
      /\ loaded' = IF call.step = "functions" THEN loaded \cup {<<n, s>>} ELSE loaded
      /\ LET used == UsedFunctions(n, s) \ added
             undefined == {f \in used : Stays(n, f)}
         IN  /\ decls' = decls \cup undefined
             /\ work' = (work \ {s}) \cup (used \ undefined)
      /\ added' = added \cup {s}
      /\ libSet' = libSet \cup {n}
      /\ UNCHANGED <<lib, usage, hidden, attached, table, call, visible>>

SkipFunction(s) ==
  /\ s \in added
  /\ work' = work \ {s}
  /\ UNCHANGED <<libVars, attached, table, call, added, libSet, decls, visible>>

\* "Cannot find definition of function"
MissFunction(s) ==
  /\ s \notin added /\ ~Defined(s)
  /\ Fail
  /\ UNCHANGED <<libVars, attached, table, linkVars>>

AddFunctions ==
  /\ call.step \in {"functions", "initializers"}
  /\ \E s \in work : AddFunction(s) \/ SkipFunction(s) \/ MissFunction(s)

NeedsCtorMut(n, c) ==                                         \* mutant
  \E s \in Symbols(n) \ {c} : <<n, s>> \in loaded' /\ Uses(n, s) \cap Uses(n, c) # {}
\* An initializer is needed when a function of the link, other than itself,
\* uses a global it uses.  Users in bodies that are not loaded are not seen.
NeedsCtor(n, c) ==
  \E s \in Symbols(n) \ {c} :
    /\ s \in added /\ <<n, s>> \in loaded'
    /\ Uses(n, s) \cap Uses(n, c) # {}

\* BuildGlobalUsage of every library in the link loads its initializers and
\* records which globals the loaded functions use; then CollectUsedInitFunctions.
BuildGlobalUsage ==
  /\ call.step = "functions" /\ work = {}
  /\ loaded' = loaded \cup UNION {At(n, Ctors(n)) : n \in libSet}
  /\ usage' = usage \cup {fs \in loaded' : fs[1] \in libSet}
  /\ work' = UNION {{c \in Ctors(n) : NeedsCtor(n, c)} : n \in libSet}
  /\ Goto("initializers")
  /\ UNCHANGED <<lib, hidden, attached, table, added, libSet, decls, visible>>

-----------------------------------------------------------------------------
(* DxilLinkJob: the functions are known, the module is made.               *)

\* DxilLinkJob::Link wants a shader of the kind of the target profile,
\* LinkToLib wants a function.
RootsUsable ==
  IF Target = "shader"
  THEN LET e == <<None, call.request.entry>>
       IN  lib[table[e]].entry[e[2]] = call.request.kind
  ELSE added # {}

\* Resources that two functions know by one name, with different types.
Mismatched(x, y) ==
  {g \in Uses(table[x], x) \cap Uses(table[y], y) :
     /\ None \notin {TypeOf(table[x], g), TypeOf(table[y], g)}
     /\ TypeOf(table[x], g) # TypeOf(table[y], g)}

\* AddGlobals: going by usedGVs, there are none.
ResourcesMatch ==
  LET known == {x \in added : <<table[x], x>> \in usage}
  IN  \A x, y \in known : Mismatched(x, y) = {}

\* CloneFunctions copies a body; there is none in a function never loaded.
BodiesLoaded == \A s \in added : <<table[s], s>> \in loaded

\* What stays of a linked library once calls are inlined: functions without a
\* caller survive unless they are internal.
Surviving ==
  {s \in added : s[1] = None /\ <<table[s], s>> \notin hidden}
ExportsFound == Target # "exports" \/ Exported \subseteq Surviving

JobReady == call.step = "initializers" /\ work = {}

JobDone ==
  /\ JobReady /\ RootsUsable /\ ResourcesMatch /\ BodiesLoaded /\ ExportsFound
  /\ visible' = CASE Target = "shader"  -> {<<None, call.request.entry>>}
                  [] Target = "exports" -> Exported
                  [] OTHER              -> Surviving
  /\ Goto("linked")
  /\ UNCHANGED <<libVars, attached, table, work, added, libSet, decls>>

JobFailed ==
  /\ JobReady
  /\ ~(RootsUsable /\ ResourcesMatch /\ (BodiesLoaded => ExportsFound))
  /\ Fail
  /\ UNCHANGED <<libVars, attached, table, linkVars>>

\* CloneFunctionInto dereferences the first block of a body without blocks.
JobUndefined ==
  /\ JobReady /\ RootsUsable /\ ResourcesMatch /\ ~BodiesLoaded
  /\ Goto("undefined")
  /\ UNCHANGED <<libVars, attached, table, linkVars>>

\* Link returns; the job and the sets were its locals.
Return ==
  /\ call.step \in {"linked", "failed"}
  /\ call' = NoCall
  /\ work' = {} /\ added' = {} /\ libSet' = {} /\ decls' = {} /\ visible' = {}
  /\ UNCHANGED <<libVars, attached, table>>

-----------------------------------------------------------------------------
LinkStep ==
  \/ AttachNext \/ AttachFailed
  \/ LinkShader \/ LinkAll \/ LinkShaders \/ LinkExports
  \/ AddFunctions \/ BuildGlobalUsage
  \/ JobDone \/ JobFailed \/ JobUndefined \/ Return

Next == DetachAll \/ LinkStep \/ \E n \in Names : RegisterLibrary(n)

Spec == Init /\ [][Next]_vars

\* Link runs on its caller's thread and waits for nothing.
FairSpec == Spec /\ WF_vars(LinkStep)

-----------------------------------------------------------------------------
(* Correctness.                                                            *)

Versions   == {l.version : l \in Libs} \cup {None}
AllSymbols == (Names \cup {None}) \X Funcs

TypeOK ==
  /\ lib \in [Names -> Libs \cup {None}]
  /\ attached \subseteq Names /\ libSet \subseteq Names
  /\ DOMAIN table \subseteq AllSymbols /\ \A s \in DOMAIN table : table[s] \in Names
  /\ loaded \subseteq Names \X AllSymbols
  /\ usage \subseteq Names \X AllSymbols
  /\ hidden \subseteq Names \X AllSymbols
  /\ call \in [step : {"idle", "attach", "functions", "initializers",
                       "linked", "failed", "undefined"},
               request : Requests \cup {None}, at : Nat, ok : BOOLEAN,
               cur : Versions, first : Versions]
  /\ call.step # "idle" => call.request \in Requests /\ call.at <= Len(call.request.libs)
  /\ work \subseteq AllSymbols /\ added \subseteq AllSymbols /\ decls \subseteq AllSymbols
  /\ visible \subseteq AllSymbols

\* The function map holds the functions of the attached libraries and nothing
\* else, whichever attach failed half way and however a library comes back.
TableExact ==
  /\ DOMAIN table = UNION {Symbols(n) : n \in attached}
  /\ \A s \in DOMAIN table : table[s] \in attached /\ s \in Symbols(table[s])

\* Every callee in a module that was linked is in it, or is a declaration that
\* a linked library may keep.
MayStay(s) == ~Defined(s) /\ Target \in {"library", "exports"}
CallsLinked ==
  call.step = "linked" =>
    \A s \in added : /\ Defined(s)
                     /\ \A c \in Calls(table[s], s) : c \in added \/ (c \in decls /\ MayStay(c))

\* The functions that a request needs, said without a work list: the least set
\* with the roots, with the callees that are defined, and with the initializers
\* of the globals that its other functions use.
Roots ==
  CASE Target = "shader"  -> {<<None, call.request.entry>>} \cap DOMAIN table
    [] Target = "library" -> DOMAIN table
    [] Target = "shaders" -> UNION {Entries(n) : n \in attached}
    [] Target = "exports" -> DOMAIN table \cap Exported
Complete(S) ==
  /\ Roots \subseteq S
  /\ \A s \in S : Calls(table[s], s) \cap DOMAIN table \subseteq S
  /\ \A s \in S : \A c \in Ctors(table[s]) \ {s} :
       Uses(table[s], s) \cap Uses(table[s], c) # {} => c \in S
Needed == {s \in DOMAIN table : \A S \in SUBSET DOMAIN table : Complete(S) => s \in S}

\* A module that was linked has the functions it needs, all of them and no
\* other, and exports those asked for that no earlier link has hidden.
LinkExact ==
  call.step = "linked" =>
    /\ added = Needed
    /\ Target = "library" => visible = {s \in Needed : s[1] = None /\ <<table[s], s>> \notin hidden}
    /\ Target = "shaders" => visible = Roots

\* Link fails for a reason the client can see in its libraries, and does not
\* succeed when there is one.
RequestLibs == {call.request.libs[i] : i \in 1 .. Len(call.request.libs)}
Unattachable ==
  \/ \E n \in RequestLibs : lib[n] = None
  \/ Cardinality(RequestLibs) < Len(call.request.libs)
  \/ \E m, n \in RequestLibs : m # n /\ Symbols(m) \cap Symbols(n) # {}
\* Two versions differ, or the first library has none and another one does.
VersionsConflict ==
  LET versions == {lib[n].version : n \in RequestLibs} \ {None}
  IN  \/ Cardinality(versions) > 1
      \/ versions # {} /\ lib[call.request.libs[1]].version = None
Undefined ==
  \/ Target = "shader" /\ Roots = {}
  \/ /\ Target \in {"shader", "shaders"}
     /\ \E s \in Needed : ~(Calls(table[s], s) \subseteq DOMAIN table)
ResourcesClash == \E x, y \in Needed : Mismatched(x, y) # {}
ExportsMissing ==
  Target = "exports" /\ \E s \in Exported : s \notin Needed \/ <<table[s], s>> \in hidden
Reason ==
  Unattachable \/ VersionsConflict \/ Undefined \/ ResourcesClash \/ ~RootsUsable \/ ExportsMissing
VerdictExact ==
  /\ call.step = "failed" => Reason
  /\ call.step = "linked" => ~Reason

\* Link returns, even when functions of several libraries call each other.
Returns == call.step # "idle" ~> call.step \in {"idle", "undefined"}

\* "All init function already loaded in BuildGlobalUsage, so set bLazyLoadDone
\* to true here": whatever is cloned has been loaded.
AllLoaded == call.step # "undefined"
=============================================================================
