-------------------------------- MODULE MCObjects --------------------------------
(***************************************************************************)
(* An object of a derived class, one of its base, and one that is returned *)
(* by value.                                                               *)
(***************************************************************************)
EXTENDS Objects, TLC

CONSTANTS base, derived, o, p, v

MCLineage == [c \in Classes |-> IF c = derived THEN {base, derived} ELSE {c}]

MCCasts == {<<derived, base>>}

MCClassOf == [x \in Objects |-> IF x = o THEN derived ELSE base]
================================================================================
