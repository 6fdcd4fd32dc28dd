-------------------------------- MODULE MCRequest --------------------------------
(***************************************************************************)
(* A function of two basic arguments, the second with a default value; one *)
(* that gives back a result and an output parameter; a method; a           *)
(* constructor without parameters; and a function of two objects.          *)
(***************************************************************************)
EXTENDS Request, TLC

CONSTANTS plain, split, meth, ctor, pair, o, p

In(kind) == [kind |-> kind, input |-> TRUE, default |-> FALSE]
Optional == [kind |-> "basic", input |-> TRUE, default |-> TRUE]
Out      == [kind |-> "basic", input |-> FALSE, default |-> FALSE]

MCShape ==
  [f \in Functions |-> IF f = meth THEN "method"
                       ELSE IF f = ctor THEN "constructor" ELSE "function"]

MCParams ==
  [f \in Functions |->
     CASE f = plain -> <<In("basic"), Optional>>
       [] f = split -> <<Out, In("basic"), In("object")>>
       [] f = meth  -> <<In("state"), In("object")>>
       [] f = ctor  -> << >>
       [] f = pair  -> <<In("object"), In("object")>>]

MCPlace ==
  [f \in Functions |->
     [i \in 1..(Len(MCParams[f]) + 1) |->
        1 + Offset(f) + Cardinality({j \in 1..(i - 1) :
                          MCParams[f][j].input /\ MCParams[f][j].kind # "state"})]]

MCOuts ==
  [f \in Functions |-> CASE f = split -> <<0, 1>> [] f = meth -> << >>
                       [] OTHER -> <<0>>]

MCExtra == [f \in Functions |-> IF f = meth THEN 1 ELSE 0]
================================================================================
