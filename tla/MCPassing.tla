------------------------------- MODULE MCPassing -------------------------------
(***************************************************************************)
(* One parameter and a result; or a parameter that is a std::function with *)
(* one of its own, or a list of such.                                      *)
(***************************************************************************)
EXTENDS Passing, TLC

\* The type t below the name n.
Part(n, t) == [p \in {<<n>> \o q : q \in DOMAIN t} |-> t[Tail(p)]]

Root(x) == <<>> :> x

Unary(r, t) == Root(Function(1)) @@ Part("0", r) @@ Part("1", t)

Object(f) == Root(Leaf(f, "object"))
Void == Root(Leaf("void", "none"))

Parameters ==
  {Object(f) : f \in Forms \ {"void"}}
    \cup {Root(Leaf("ptr", "incomplete")), Root(Leaf("constref", "number"))}

Results == {Void} \cup {Object(f) : f \in {"value", "ptr", "constptr", "shared"}}

MCTypes ==
  {Unary(r, t) : r \in Results, t \in Parameters}
    \cup {Unary(Void, Unary(r, t)) : r \in Results, t \in Parameters}

MCLists == {Unary(Void, Root(List) @@ Part("data", Unary(Void, Object("ptr"))))}
================================================================================
