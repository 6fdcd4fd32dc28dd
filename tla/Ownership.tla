-------------------------------- MODULE Ownership --------------------------------
(***************************************************************************)
(* What C++ and Lua are promised of the objects they share: an object      *)
(* lives as long as it has an owner and is destroyed, once, when the last  *)
(* of them lets it go.  An object without owner is the program's, to       *)
(* delete or to hand over.                                                 *)
(***************************************************************************)
CONSTANTS Objects, Owners

VARIABLES
  status,   \* "none" before an object is made, "alive", "gone"
  owners    \* the owners of each object

vars == <<status, owners>>

Become(o, s, ws) ==
  /\ status' = [status EXCEPT ![o] = s]
  /\ owners' = [owners EXCEPT ![o] = ws]

Create(o, w) == status[o] = "none" /\ Become(o, "alive", {w})

Appear(o) == status[o] = "none" /\ Become(o, "alive", {})

\* A temporary does not outlive the call that makes it.
Vanish(o) == status[o] = "none" /\ Become(o, "gone", {})

Own(o, w) == status[o] = "alive" /\ Become(o, "alive", owners[o] \cup {w})

Release(o, w) ==
  /\ w \in owners[o]
  /\ Become(o, IF owners[o] = {w} THEN "gone" ELSE status[o], owners[o] \ {w})

Delete(o) == status[o] = "alive" /\ owners[o] = {} /\ Become(o, "gone", {})

Init ==
  /\ status = [o \in Objects |-> "none"]
  /\ owners = [o \in Objects |-> {}]

Next ==
  \E o \in Objects :
    \/ Appear(o) \/ Vanish(o) \/ Delete(o)
    \/ \E w \in Owners : Create(o, w) \/ Own(o, w) \/ Release(o, w)

Spec == Init /\ [][Next]_vars
================================================================================
