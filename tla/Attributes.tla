------------------------------- MODULE Attributes -------------------------------
(***************************************************************************)
(* What Lua is promised of the properties of a C++ object: a read gives    *)
(* the value the member has now, a write changes that member and no other, *)
(* and what cannot be done raises an error and changes nothing.            *)
(***************************************************************************)
CONSTANTS
  Classes, Objects, ClassOf,
  Names,     \* names of properties and methods
  Values,    \* what a member can hold
  Odd,       \* a key that is not a string
  Error, Method,
  Nil        \* nil, which no member can hold

VARIABLES
  declared,  \* declared[c]: the properties of c, with what they can do
  members,   \* members[o][n]: the C++ member behind the property n of o
  reply      \* what the last access to an object gave

vars == <<declared, members, reply>>

PropertiesOf(o) == declared[ClassOf[o]]

\* The first declaration of a name holds.
Declare(c, n, get, set) ==
  /\ n \notin DOMAIN declared[c]
  /\ declared' = [declared EXCEPT ![c] =
                    [k \in DOMAIN @ \cup {n} |->
                       IF k = n THEN [get |-> get, set |-> set] ELSE @[k]]]
  /\ UNCHANGED <<members, reply>>

\* The C++ program changes a member, or Lua does through an object this
\* promise does not cover.
Assign(o, n, v) ==
  /\ members' = [members EXCEPT ![o][n] = v]
  /\ reply' \in {reply, << >>}
  /\ UNCHANGED declared

Read(o, n) ==
  /\ n \in DOMAIN PropertiesOf(o)
  /\ reply' = <<"get", o, n, IF PropertiesOf(o)[n].get THEN members[o][n] ELSE Error>>
  /\ UNCHANGED <<declared, members>>

\* Any other key is looked up among the methods.
LookUp(o, n) ==
  /\ n \notin DOMAIN PropertiesOf(o)
  /\ reply' \in {<<"get", o, n, r>> : r \in {Nil, Method}}
  /\ UNCHANGED <<declared, members>>

Writable(o, n, v) ==
  n \in DOMAIN PropertiesOf(o) /\ PropertiesOf(o)[n].set /\ v \in Values

Write(o, n, v) ==
  /\ Writable(o, n, v)
  /\ members' = [members EXCEPT ![o][n] = v]
  /\ reply' = <<"set", o, n, v>>
  /\ UNCHANGED declared

Refuse(o, n, v) ==
  /\ ~Writable(o, n, v)
  /\ reply' = <<"set", o, n, Error>>
  /\ UNCHANGED <<declared, members>>

\* A key that is not a string is ignored.
Ignore(o) ==
  /\ reply' = <<"set", o, Odd, Nil>>
  /\ UNCHANGED <<declared, members>>

Elsewhere ==
  /\ reply' = << >>
  /\ UNCHANGED <<declared, members>>

Init ==
  /\ declared = [c \in Classes |-> [n \in {} |-> [get |-> FALSE, set |-> FALSE]]]
  /\ members \in [Objects -> [Names -> Values]]
  /\ reply = << >>

Next ==
  \/ \E c \in Classes, n \in Names, get, set \in BOOLEAN : Declare(c, n, get, set)
  \/ \E o \in Objects :
       \/ \E n \in Names, v \in Values : Assign(o, n, v) \/ Write(o, n, v)
       \/ \E n \in Names : Read(o, n)
       \/ \E n \in Names \cup {Odd} : LookUp(o, n)
       \/ \E n \in Names, v \in Values \cup {Nil} : Refuse(o, n, v)
       \/ Ignore(o)
  \/ Elsewhere

Spec == Init /\ [][Next]_vars
================================================================================
