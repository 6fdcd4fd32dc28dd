-------------------------------- MODULE Kinship --------------------------------
(***************************************************************************)
(* What the casts between classes promise: an object passes for a class    *)
(* exactly when it is of that class or of one that derives from it, nil    *)
(* passes for every class, and the answer does not depend on the order in  *)
(* which classes were bound or questions asked.                            *)
(***************************************************************************)
CONSTANTS
  Classes,   \* classes registered
  Needs,     \* Needs[d]: the bases d was declared with
  Derives,   \* Derives[x][t]: x is t or derives from it
  Null       \* the class field of nil

VARIABLES
  bound,     \* classes Lua can make objects of
  asked,     \* the last question answered: <<class wanted, class held>>
  passes     \* and its answer

vars == <<bound, asked, passes>>

Init == bound = {} /\ asked = << >> /\ passes = FALSE

Join(d) ==
  /\ d \in Classes \ bound
  /\ Needs[d] \subseteq bound
  /\ bound' = bound \cup {d}
  /\ UNCHANGED <<asked, passes>>

Judge(t, x) ==
  /\ t \in bound
  /\ x \in bound \cup {Null}
  /\ asked' = <<t, x>>
  /\ passes' = IF x = Null THEN TRUE ELSE Derives[x][t]
  /\ UNCHANGED bound

Next == \/ \E d \in Classes : Join(d)
        \/ \E t \in Classes, x \in Classes \cup {Null} : Judge(t, x)

Spec == Init /\ [][Next]_vars
================================================================================
