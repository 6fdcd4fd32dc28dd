--------------------------------- MODULE Objects ---------------------------------
(***************************************************************************)
(* The lifetime of C++ objects that Lua holds.  to_lua makes a table, here *)
(* a box, around a shared_ptr or a plain pointer; its metatable has a __gc *)
(* that destroys the shared_ptr.  cast_to makes a second box of another    *)
(* class, delegate_owner makes a shared_ptr of a plain pointer, and a call *)
(* of C++ borrows the object of a box for as long as it runs.              *)
(*                                                                         *)
(* A block is the control block of a shared_ptr, which counts its copies.  *)
(***************************************************************************)
EXTENDS Integers, FiniteSets

CONSTANTS
  Classes,
  Lineage,     \* Lineage[c]: c and the classes it inherits from
  Casts,       \* <<c, d>>: the class c has cast_to<d>()
  Objects,
  ClassOf,
  Values,      \* the objects that C++ returns by value
  Boxes,
  Blocks,
  None

ASSUME ObjectsAssumption ==
  /\ Lineage \in [Classes -> SUBSET Classes]
  /\ \A c \in Classes : c \in Lineage[c]
  /\ Casts \subseteq Classes \X Classes
  /\ ClassOf \in [Objects -> Classes]
  /\ Values \subseteq Objects
  /\ None \notin Objects /\ None \notin Blocks /\ None \notin Boxes
  /\ Boxes \cap {"program", "call"} = {}

VARIABLES
  status,      \* "none", "alive" or "gone"; "twice" if destroyed again
  owned,       \* the object that a block was made for
  uses,        \* use_count() of a block
  program,     \* the blocks of which C++ keeps a shared_ptr
  boxes,       \* __id, __type and __ptr_private of each box
  reachable,   \* the boxes that Lua can still reach
  call,        \* what the C++ function that runs borrows
  closed       \* lua_close() has begun

vars == <<status, owned, uses, program, boxes, reachable, call, closed>>

blockVars == <<owned, uses, program>>
luaVars   == <<boxes, reachable, closed>>

Free == [kind |-> "free"]

\* Where the box b keeps its pointer.
Slot(b) == <<"slot", b>>

Smart(b) == boxes[b].kind = "smart"

ObjectOf(b) == IF Smart(b) THEN owned[boxes[b].of] ELSE boxes[b].of

Unowned(o) == status[o] = "alive" /\ \A g \in Blocks : owned[g] # o

Idle ==
  [object |-> None, block |-> None, box |-> None, self |-> FALSE, smart |-> FALSE]

\* One call of C++ is followed at a time.
Running == call # Idle

------------------------------------------------------------------------------
(***************************************************************************)
(* std::shared_ptr                                                         *)
(***************************************************************************)

\* The first shared_ptr of an object.
Shared(o, g) ==
  /\ owned[g] = None
  /\ owned' = [owned EXCEPT ![g] = o]
  /\ uses' = [uses EXCEPT ![g] = 1]

Copied(g) == uses' = [uses EXCEPT ![g] = @ + 1] /\ UNCHANGED <<owned, status>>

Dropped(g) ==
  /\ uses' = [uses EXCEPT ![g] = @ - 1]
  /\ status' = [status EXCEPT ![owned[g]] =
       IF uses[g] > 1 THEN @ ELSE IF @ = "alive" THEN "gone" ELSE "twice"]
  /\ UNCHANGED owned

------------------------------------------------------------------------------
(***************************************************************************)
(* The C++ program                                                         *)
(***************************************************************************)

Born(o) == status[o] = "none" /\ status' = [status EXCEPT ![o] = "alive"]

MakeShared(o, g) ==
  /\ ~closed /\ o \notin Values
  /\ Born(o) /\ Shared(o, g)
  /\ program' = program \cup {g}
  /\ UNCHANGED <<luaVars, call>>

New(o) ==
  /\ ~closed /\ o \notin Values
  /\ Born(o)
  /\ UNCHANGED <<blockVars, luaVars, call>>

\* The program deletes only what is its own and not in use.
Delete(o) ==
  /\ Unowned(o) /\ call.object # o
  /\ status' = [status EXCEPT ![o] = "gone"]
  /\ UNCHANGED <<blockVars, luaVars, call>>

Drop(g) ==
  /\ g \in program
  /\ Dropped(g)
  /\ program' = program \ {g}
  /\ UNCHANGED <<luaVars, call>>

\* A function that is given a shared_ptr keeps a copy.
Keep ==
  /\ call.block \in Blocks \ program
  /\ Copied(call.block)
  /\ program' = program \cup {call.block}
  /\ UNCHANGED <<luaVars, call>>

------------------------------------------------------------------------------
(***************************************************************************)
(* From C++ to Lua                                                         *)
(***************************************************************************)

\* A new table with __id, __type and __ptr_private, and the metatable of c.
ToLua(b, kind, c, x) ==
  /\ ~closed /\ boxes[b] = Free
  /\ boxes' = [boxes EXCEPT ![b] = [kind |-> kind, class |-> c, of |-> x]]
  /\ reachable' = reachable \cup {b}
  /\ UNCHANGED <<call, closed>>

\* Lua calls a constructor.
Construct(o, g, b) ==
  /\ o \notin Values
  /\ Born(o) /\ Shared(o, g)
  /\ ToLua(b, "smart", ClassOf[o], g)
  /\ UNCHANGED program

\* C++ returns a shared_ptr.
GiveShared(g, b, c) ==
  /\ g \in program /\ c \in Lineage[ClassOf[owned[g]]]
  /\ Copied(g)
  /\ ToLua(b, "smart", c, g)
  /\ UNCHANGED program

\* C++ returns a pointer, to an object that it will delete, or not, itself.
GiveRaw(o, b, c) ==
  /\ status[o] = "alive" /\ c \in Lineage[ClassOf[o]]
  /\ ToLua(b, "raw", c, o)
  /\ UNCHANGED <<blockVars, status>>

\* The same with the policy delegate_owner: once, and no owner before.
GiveOwned(o, g, b, c) ==
  /\ Unowned(o) /\ c \in Lineage[ClassOf[o]]
  /\ Shared(o, g)
  /\ ToLua(b, "smart", c, g)
  /\ UNCHANGED <<status, program>>

\* C++ returns a value: the box points to a temporary, which is destroyed
\* when request_from_lua is done.
GiveValue(o, b) ==
  /\ o \in Values /\ status[o] = "none"
  /\ status' = [status EXCEPT ![o] = "gone"]
  /\ ToLua(b, "raw", ClassOf[o], o)
  /\ UNCHANGED blockVars

\* Slip: the cast makes a shared_ptr of the pointer of another.
CastAnew(a, b, c) ==
  \E g \in Blocks : /\ Shared(ObjectOf(a), g) /\ ToLua(b, "smart", c, g)
                    /\ UNCHANGED status

\* static_pointer_cast shares the block.
CastShared(a, b, c) ==
  Copied(boxes[a].of) /\ ToLua(b, "smart", c, boxes[a].of)

\* The address of the pointer is cast, and not the pointer.
CastRaw(a, b, c) ==
  ToLua(b, "raw", c, Slot(a)) /\ UNCHANGED <<owned, uses, status>>

\* c.cast_to(a); the program asks for a class that the object is of.
CastTo(a, b, c) ==
  /\ a \in reachable /\ <<c, boxes[a].class>> \in Casts
  /\ ObjectOf(a) \in Objects /\ c \in Lineage[ClassOf[ObjectOf(a)]]
  /\ IF Smart(a) THEN CastShared(a, b, c) ELSE CastRaw(a, b, c)
  /\ UNCHANGED program

------------------------------------------------------------------------------
(***************************************************************************)
(* From Lua to C++                                                         *)
(***************************************************************************)

\* Slip: an argument is taken from the stack, and only its pointer kept.
Bare(b, self) ==
  [object |-> ObjectOf(b), block |-> None, box |-> None,
   self |-> self, smart |-> Smart(b)]

\* An argument stays on the stack, and what is passed to C++ holds a copy of
\* its shared_ptr; of the object of a method only the pointer is kept, and
\* its box is removed from the stack.
Borrowed(b, self) ==
  [object |-> ObjectOf(b),
   block |-> IF Smart(b) /\ ~self THEN boxes[b].of ELSE None,
   box |-> IF self THEN None ELSE b, self |-> self, smart |-> Smart(b)]

\* Lua calls a method of the object, or a function that it is an argument of.
Enter(b, self) ==
  /\ ~closed /\ ~Running /\ b \in reachable
  /\ ObjectOf(b) \in Objects /\ status[ObjectOf(b)] = "alive"
  /\ call' = Borrowed(b, self)
  /\ IF call'.block = None THEN UNCHANGED <<owned, uses, status>>
                           ELSE Copied(call'.block)
  /\ UNCHANGED <<program, luaVars>>

Leave ==
  /\ Running
  /\ call' = Idle
  /\ IF call.block = None THEN UNCHANGED <<owned, uses, status>>
                          ELSE Dropped(call.block)
  /\ UNCHANGED <<program, luaVars>>

------------------------------------------------------------------------------
(***************************************************************************)
(* Lua                                                                     *)
(***************************************************************************)

Forget(b) ==
  /\ b \in reachable
  /\ reachable' = reachable \ {b}
  /\ UNCHANGED <<status, blockVars, boxes, call, closed>>

\* Slips of __gc: nothing is destroyed, or the shared_ptr twice.
Nothing(b) == UNCHANGED <<owned, uses, status>>
Twice(b) ==
  IF Smart(b) THEN /\ uses' = [uses EXCEPT ![boxes[b].of] = @ - 2]
                   /\ UNCHANGED <<owned, status>>
  ELSE UNCHANGED <<owned, uses, status>>

\* __gc destroys a shared_ptr, and has nothing to do for a pointer.
Finalized(b) ==
  IF Smart(b) THEN Dropped(boxes[b].of) ELSE UNCHANGED <<owned, uses, status>>

Collect(b) ==
  /\ boxes[b] # Free /\ b \notin reachable /\ call.box # b
  /\ Finalized(b)
  /\ boxes' = [boxes EXCEPT ![b] = Free]
  /\ UNCHANGED <<program, reachable, call, closed>>

\* ~engine() closes the state before anything else is destroyed.
Close ==
  /\ ~closed /\ ~Running
  /\ closed' = TRUE /\ reachable' = {}
  /\ UNCHANGED <<status, blockVars, boxes, call>>

------------------------------------------------------------------------------

Init ==
  /\ status = [o \in Objects |-> "none"]
  /\ owned = [g \in Blocks |-> None]
  /\ uses = [g \in Blocks |-> 0]
  /\ program = {}
  /\ boxes = [b \in Boxes |-> Free]
  /\ reachable = {}
  /\ call = Idle
  /\ closed = FALSE

Next ==
  \/ \E o \in Objects : New(o) \/ Delete(o) \/ \E g \in Blocks : MakeShared(o, g)
  \/ \E g \in Blocks : Drop(g)
  \/ Keep \/ Leave \/ Close
  \/ \E b \in Boxes : Forget(b) \/ Collect(b) \/ \E self \in BOOLEAN : Enter(b, self)
  \/ \E o \in Objects, b \in Boxes :
       \/ GiveValue(o, b) \/ \E g \in Blocks : Construct(o, g, b)
       \/ \E c \in Classes : GiveRaw(o, b, c) \/ \E g \in Blocks : GiveOwned(o, g, b, c)
  \/ \E b \in Boxes, c \in Classes :
       \/ \E g \in Blocks : GiveShared(g, b, c)
       \/ \E a \in Boxes : CastTo(a, b, c)

\* lua_close() calls every __gc that is left.
Fairness == WF_vars(closed /\ \E b \in Boxes : Collect(b))

Spec == Init /\ [][Next]_vars /\ Fairness

------------------------------------------------------------------------------
(***************************************************************************)
(* Properties                                                              *)
(***************************************************************************)

Box ==
  {Free} \cup [kind : {"smart"}, class : Classes, of : Blocks]
         \cup [kind : {"raw"}, class : Classes, of : Objects \cup {Slot(b) : b \in Boxes}]

(* The type invariant: no count falls below zero, no object is destroyed   *)
(* a second time, and a box that can be reached has not been finalised.    *)
TypeOK ==
  /\ status \in [Objects -> {"none", "alive", "gone"}]
  /\ owned \in [Blocks -> Objects \cup {None}]
  /\ uses \in [Blocks -> Nat]
  /\ program \subseteq Blocks
  /\ boxes \in [Boxes -> Box]
  /\ reachable \subseteq {b \in Boxes : boxes[b] # Free}
  /\ call \in [object : Objects \cup {None}, block : Blocks \cup {None},
               box : Boxes \cup {None}, self : BOOLEAN, smart : BOOLEAN]
  /\ closed \in BOOLEAN

Keepers == Boxes \cup {"program", "call"}

\* The owners of a block: boxes, the program, the call.
KeptBy(g) ==
  {b \in Boxes : Smart(b) /\ boxes[b].of = g}
    \cup {w \in {"program"} : g \in program} \cup {w \in {"call"} : call.block = g}

(* The owners of an object, whatever block they share it through.          *)
OwnersOf == [o \in Objects |-> UNION {KeptBy(g) : g \in {h \in Blocks : owned[h] = o}}]

Promise == INSTANCE Ownership WITH Owners <- Keepers, owners <- OwnersOf

(* Objects live as long as a box, the program or a call owns them, and are *)
(* destroyed with the last, whatever class each box gives them.            *)
KeepsPromise == Promise!Spec

(* use_count() is the number of those that hold the block.                 *)
CountsExact == \A g \in Blocks : uses[g] = Cardinality(KeptBy(g))

(* The object that a C++ function is given from a shared_ptr of Lua is     *)
(* alive until the function returns, although Lua and C++ may let go of it *)
(* meanwhile.                                                              *)
ArgumentAlive == call.smart /\ ~call.self => status[call.object] = "alive"

(* The same of the object whose method runs.                               *)
SelfAlive == call.smart => status[call.object] = "alive"

(* Once the state is closed no object lives that only Lua owned.           *)
ClosedDestroys ==
  closed ~> \A g \in Blocks \ program : owned[g] # None => status[owned[g]] = "gone"
================================================================================
