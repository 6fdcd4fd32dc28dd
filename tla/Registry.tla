------------------------------- MODULE Registry -------------------------------
(***************************************************************************)
(* What registration and engine.bind() promise, whatever the modules, the  *)
(* order of the names and the Lua stack: a bindable becomes visible to Lua *)
(* only when every type it needs is known, once, and for good; bind()      *)
(* answers true exactly when everything is bound; and when it answers      *)
(* false it has left behind no bindable of a certain class, the Retried    *)
(* ones, that it could have bound.                                         *)
(***************************************************************************)
EXTENDS FiniteSets

CONSTANTS
  Items,     \* bindables
  Types,     \* types they provide and need
  Slot,      \* Slot[i]: the place i is filed in; the first one keeps it
  Provides,  \* Provides[i]: the type i describes, if any
  Needs,     \* Needs[i]: types that must be known to bind i
  AtOnce,    \* bindables whose type is known as soon as they exist
  OnBind,    \* bindables whose type is known when they are bound
  Retried    \* bindables that bind() never gives up too early

VARIABLES
  made,      \* bindables that exist or have existed
  held,      \* bindables that are filed
  bound,     \* bindables that are visible to Lua
  known,     \* types that are known
  answer     \* the last answer of bind()

vars == <<made, held, bound, known, answer>>

Init == made = {} /\ held = {} /\ bound = {} /\ known = {} /\ answer = TRUE

File(i) ==
  /\ i \in Items \ made
  /\ \A j \in held : Slot[j] # Slot[i]
  /\ made' = made \cup {i}
  /\ held' = held \cup {i}
  /\ known' = IF i \in AtOnce THEN known \cup {Provides[i]} ELSE known
  /\ UNCHANGED <<bound, answer>>

\* A namesake is destroyed, and what it describes is forgotten.
Refuse(i) ==
  /\ i \in Items \ made
  /\ \E j \in held : Slot[j] = Slot[i]
  /\ made' = made \cup {i}
  /\ known' = known \ {Provides[i]}
  /\ UNCHANGED <<held, bound, answer>>

Attach(i) ==
  /\ i \in held \ bound
  /\ Needs[i] \subseteq known
  /\ bound' = bound \cup {i}
  /\ known' = IF i \in OnBind THEN known \cup {Provides[i]} ELSE known
  /\ UNCHANGED <<made, held, answer>>

Answer ==
  /\ answer' = (bound = held)
  /\ \A i \in (held \ bound) \cap Retried : ~(Needs[i] \subseteq known)
  /\ UNCHANGED <<made, held, bound, known>>

Next == (\E i \in Items : File(i) \/ Refuse(i) \/ Attach(i)) \/ Answer

Spec == Init /\ [][Next]_vars
===============================================================================
