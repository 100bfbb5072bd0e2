------------------------------ MODULE MCLinker ------------------------------
(***************************************************************************)
(* Linker on five libraries under three names.  Functions of two           *)
(* libraries call each other, one clashes with another, initializers call  *)
(* functions of their own, resources of one name differ in type, versions  *)
(* differ or are missing.                                                  *)
(***************************************************************************)
EXTENDS Linker, TLC

CONSTANTS a, b, c, f, g, h, k, m, r, s, one, two

NoFunctions == [x \in Funcs |-> {}]
NoEntry     == [x \in Funcs |-> None]

\* A pixel shader that calls a function of another library.
Shader ==
  [funs |-> {m}, internal |-> {}, ctors |-> {},
   entry |-> [NoEntry EXCEPT ![m] = "ps"],
   calls |-> [NoFunctions EXCEPT ![m] = {f}],
   uses |-> [x \in Funcs |-> IF x = m THEN {r} ELSE {}],
   resources |-> (r :> one), version |-> one]

\* A function that reads a static, whose initializer calls a function.
Static ==
  [funs |-> {f, h, k}, internal |-> {h, k}, ctors |-> {k}, entry |-> NoEntry,
   calls |-> [NoFunctions EXCEPT ![k] = {h}],
   uses |-> [x \in Funcs |-> IF x \in {f, k} THEN {s} ELSE {}],
   resources |-> <<>>, version |-> one]

\* The same function by other means: it calls into a third library.
Caller ==
  [funs |-> {f}, internal |-> {}, ctors |-> {}, entry |-> NoEntry,
   calls |-> [NoFunctions EXCEPT ![f] = {g}],
   uses |-> [x \in Funcs |-> {}], resources |-> <<>>, version |-> None]

\* Called, and calling back, with a static and an initializer of its own.
Callee ==
  [funs |-> {g, k}, internal |-> {k}, ctors |-> {k}, entry |-> NoEntry,
   calls |-> [NoFunctions EXCEPT ![g] = {f}],
   uses |-> [x \in Funcs |-> CASE x = g -> {r, s} [] x = k -> {s} [] OTHER -> {}],
   resources |-> (r :> two), version |-> None]

\* As Static, but the function that its initializer calls is called elsewhere.
Shared ==
  [Static EXCEPT !.calls = [NoFunctions EXCEPT ![k] = {h}, ![f] = {h}], !.version = two]

SomeLibs == {Shader, Static, Shared, Caller, Callee}

\* Any library may have any name, so that these lists stand for the others.
Lists == {<<a>>, <<a, b>>, <<b, a>>, <<a, a>>, <<a, b, c>>}
SomeRequests ==
  {[libs |-> l, target |-> "shader", entry |-> m, kind |-> p, exports |-> {}] :
     l \in Lists, p \in {"ps", "vs"}}
  \cup {[libs |-> l, target |-> t, entry |-> None, kind |-> None, exports |-> {}] :
     l \in Lists, t \in {"library", "shaders"}}
  \cup {[libs |-> l, target |-> "exports", entry |-> None, kind |-> None, exports |-> {f}] :
     l \in Lists}
=============================================================================
