--------------------------------- MODULE MCCaller ---------------------------------
(***************************************************************************)
(* A caller with a basic result, one with an object and two outputs, a     *)
(* closure, and a caller with a parameter that goes both ways.             *)
(***************************************************************************)
EXTENDS Caller, TLC

CONSTANTS plain, mixed, closure, both

MCLocal == [c \in Callers |-> c = closure]

MCResult == [c \in Callers |-> IF c = mixed THEN "object" ELSE "basic"]

In(kind)  == [kind |-> kind, input |-> TRUE, output |-> FALSE]
Out(kind) == [kind |-> kind, input |-> FALSE, output |-> TRUE]
InOut     == [kind |-> "basic", input |-> TRUE, output |-> TRUE]

MCParams ==
  [c \in Callers |->
     CASE c = plain   -> <<In("basic"), In("object")>>
       [] c = mixed   -> <<Out("basic"), In("basic"), Out("object")>>
       [] c = closure -> <<Out("object")>>
       [] c = both    -> <<InOut>>]
================================================================================
