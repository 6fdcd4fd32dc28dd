--------------------------------- MODULE Access ---------------------------------
(***************************************************************************)
(* wrapper_class: the methods and properties of a class as a Lua program   *)
(* reads and writes them through an object, which is a Lua table whose     *)
(* metatable is the table of its class.  bind() decides from what has been *)
(* registered by then whether __index is a closure that looks for the      *)
(* property first, or only the table of the class, and whether there is a  *)
(* __newindex at all.  The program may register more after bind().         *)
(*                                                                         *)
(* A method is searched in the table of the class, then in those of its    *)
(* bases, each with its own bases: the search is modelled table by table,  *)
(* on an explicit stack, and nothing else happens until it ends.           *)
(***************************************************************************)
EXTENDS Integers, Sequences

CONSTANTS
  Classes,
  Bases,     \* Bases[c]: the direct bases of c, as inheritance() declared them
  Derives,   \* Derives[x][t]: x is t or derives from it (std::is_base_of)
  Chains,    \* sequences of classes, each a base of the one before it
  Objects, ClassOf,
  Names,     \* names of properties and methods
  Offers,    \* Offers[c]: the <<name, kind>> of properties registered with c
  Methods,   \* Methods[c]: the names of methods registered with c
  Values,    \* what a member can hold
  Odd,       \* a key that is not a string
  Error, Method,
  Nil,       \* nil, which no member can hold
  Own,       \* any value that the table of an object itself holds
  MaxVersion,  \* how often a method is registered under one name
  Late       \* whether the program registers after bind()

Kinds == {"both", "readonly", "writeonly", "writeonly with policy"}

ASSUME AccessAssumption ==
  /\ Bases \in [Classes -> Seq(Classes)]
  /\ ClassOf \in [Objects -> Classes]
  /\ Offers \in [Classes -> SUBSET (Names \X Kinds)]
  /\ Methods \in [Classes -> SUBSET Names]
  /\ Odd \notin Names
  /\ Values \cap {Error, Method, Nil, Own} = {}
  /\ Error \notin {Method, Nil, Own} /\ Method \notin {Nil, Own} /\ Nil # Own
  /\ MaxVersion \in Nat
  /\ Late \in BOOLEAN

\* Derives is the order Bases generates, Chains has every way that leads from a class
\* to one it derives from.
ASSUME HierarchyAssumption ==
  /\ Derives \in [Classes -> [Classes -> BOOLEAN]]
  /\ \A x, t \in Classes :
       Derives[x][t] <=> x = t \/ \E i \in 1..Len(Bases[x]) : Derives[Bases[x][i]][t]
  /\ Chains \subseteq Seq(Classes)
  /\ \A c \in Classes : <<c>> \in Chains
  /\ \A p \in Chains : \A i \in 1..Len(Bases[p[Len(p)]]) :
       Append(p, Bases[p[Len(p)]][i]) \in Chains
  /\ \A p \in Chains : \A i \in 1..Len(p) - 1 : SubSeq(p, 1, i) \in Chains

VARIABLES
  properties,  \* properties_ of each class
  versions,    \* class_bindables_: the last method registered, 0 for none
  newindexed,  \* classes whose class_bindables_ have a __newindex
  bound,       \* classes that are bound
  index,       \* __index of the class table: "closure" or "table"
  newindex,    \* whether the class table has a __newindex
  fields,      \* fields[c][n]: the method in the table of c, 0 for nil
  members,     \* members[o][n]: the C++ member behind the property n of o
  raw,         \* raw[o]: the keys that the Lua table of o itself has
  answer,      \* the last access from Lua and what it gave
  wanted,      \* what the search is for: the object and the name
  walk         \* the search: tables looked into, each with the next base; << >> when idle

wrapper    == <<properties, versions, newindexed>>
class      == <<bound, index, newindex, fields>>
object     == <<members, raw>>
search     == <<wanted, walk>>
accessVars == <<wrapper, class, object, answer, search>>

Idle == walk = << >>

Keys == Names \cup {Odd}

------------------------------------------------------------------------------
(***************************************************************************)
(* Registration.                                                           *)
(***************************************************************************)

\* property_writeonly without a policy hands over to property.
Getter(kind) == kind # "writeonly with policy"
Setter(kind) == kind # "readonly"

\* Slip: the last declaration replaces the first.
WithLast(c, n, kind) ==
  [k \in DOMAIN properties[c] \cup {n} |->
     IF k = n THEN [kind |-> kind, get |-> Getter(kind), set |-> Setter(kind)]
     ELSE properties[c][k]]

\* properties_.insert(): nothing happens to a name that is there.
With(c, n, kind) ==
  [k \in DOMAIN properties[c] \cup {n} |->
     IF k \in DOMAIN properties[c] THEN properties[c][k]
     ELSE [kind |-> kind, get |-> Getter(kind), set |-> Setter(kind)]]

\* Whatever became of the declaration, its setter asks for a __newindex.
Noted(c, kind) == IF Setter(kind) THEN newindexed \cup {c} ELSE newindexed

AddProperty(c, n, kind) ==
  /\ Idle
  /\ Late \/ c \notin bound
  /\ <<n, kind>> \in Offers[c]
  /\ properties' = [properties EXCEPT ![c] = With(c, n, kind)]
  /\ newindexed' = Noted(c, kind)
  /\ UNCHANGED <<versions, class, object, answer, search>>

\* A method replaces, and destroys, the one that had its name.
AddMethod(c, n) ==
  /\ Idle
  /\ Late \/ c \notin bound
  /\ n \in Methods[c]
  /\ versions[c][n] < MaxVersion
  /\ versions' = [versions EXCEPT ![c][n] = @ + 1]
  /\ UNCHANGED <<properties, newindexed, class, object, answer, search>>

HasOneGetter(c) == \E n \in DOMAIN properties[c] : properties[c][n].get

Bind(c) ==
  /\ Idle
  /\ c \notin bound
  /\ \A i \in 1..Len(Bases[c]) : Bases[c][i] \in bound
  /\ bound' = bound \cup {c}
  /\ fields' = [fields EXCEPT ![c] = versions[c]]
  /\ index' = [index EXCEPT ![c] = IF HasOneGetter(c) THEN "closure" ELSE "table"]
  /\ newindex' = [newindex EXCEPT ![c] = c \in newindexed]
  /\ UNCHANGED <<wrapper, object, answer, search>>

------------------------------------------------------------------------------
(***************************************************************************)
(* Lua reads o[k].                                                         *)
(***************************************************************************)

Alive(o) == ClassOf[o] \in bound

PropertiesOf(o) == properties[ClassOf[o]]

\* The metamethods run for a key the table of the object does not have.
Missing(o, k) == k \notin raw[o]

\* The getter is asked, or there is none.
GetProperty(o, n) ==
  /\ Missing(o, n)
  /\ index[ClassOf[o]] = "closure"
  /\ n \in DOMAIN PropertiesOf(o)
  /\ answer' = <<"get", o, n, IF PropertiesOf(o)[n].get THEN members[o][n] ELSE Error>>

\* Any other key is searched in the table of the class; one that is not a
\* string is in none.
GetOther(o, k) ==
  /\ Missing(o, k)
  /\ ~(index[ClassOf[o]] = "closure" /\ k \in DOMAIN PropertiesOf(o))
  /\ IF k = Odd THEN answer' = <<"get", o, k, Nil>> /\ UNCHANGED search
     ELSE /\ answer' = << >>
          /\ wanted' = <<o, k>>
          /\ walk' = <<[class |-> ClassOf[o], next |-> 1]>>

GetRaw(o, k) ==
  /\ ~Missing(o, k)
  /\ answer' = <<"get", o, k, Own>>

Get(o, k) ==
  /\ Idle
  /\ Alive(o)
  /\ \/ (GetProperty(o, k) \/ GetRaw(o, k)) /\ UNCHANGED search
     \/ GetOther(o, k)
  /\ UNCHANGED <<wrapper, class, object>>

(***************************************************************************)
(* The search for a method: the __index of a table is the table of its     *)
(* only base, or a closure that asks that of each base in turn.            *)
(***************************************************************************)

Here == walk[Len(walk)]

\* Slip: the own table is looked into after the bases.
HasLate(f) == f.next > Len(Bases[f.class]) /\ fields[f.class][wanted[2]] # 0

\* The table itself has the name.
Has(f) == fields[f.class][wanted[2]] # 0

Ended(reply) ==
  /\ answer' = reply
  /\ walk' = << >>
  /\ UNCHANGED <<wanted, wrapper, class, object>>

Hit ==
  /\ ~Idle
  /\ Has(Here)
  /\ Ended(<<"get", wanted[1], wanted[2], Method,
             Here.class, fields[Here.class][wanted[2]]>>)

Descend ==
  /\ ~Idle
  /\ ~Has(Here)
  /\ Here.next <= Len(Bases[Here.class])
  /\ walk' = Append(walk, [class |-> Bases[Here.class][Here.next], next |-> 1])
  /\ UNCHANGED <<wanted, wrapper, class, object, answer>>

Above == SubSeq(walk, 1, Len(walk) - 1)

Advance(up) == [up EXCEPT ![Len(up)].next = @ + 1]

\* The base and all of its own have nothing: the next base is asked.
Miss ==
  /\ ~Idle
  /\ ~Has(Here)
  /\ Here.next > Len(Bases[Here.class])
  /\ Len(walk) > 1
  /\ walk' = Advance(Above)
  /\ UNCHANGED <<wanted, wrapper, class, object, answer>>

Nowhere ==
  /\ ~Idle
  /\ ~Has(Here)
  /\ Here.next > Len(Bases[Here.class])
  /\ Len(walk) = 1
  /\ Ended(<<"get", wanted[1], wanted[2], Nil>>)

(***************************************************************************)
(* Lua writes o[k] = v.                                                    *)
(***************************************************************************)

\* There is no __newindex, or no need of it.
IsRaw(o, k) == ~Missing(o, k) \/ ~newindex[ClassOf[o]]

\* The table of the object is written.
SetRaw(o, k, v) ==
  /\ IsRaw(o, k)
  /\ raw' = [raw EXCEPT ![o] = IF v = Nil THEN @ \ {k} ELSE @ \cup {k}]
  /\ answer' = <<"set", o, k, v>>
  /\ UNCHANGED members

\* Slips: a property is written whether or not it has a setter, or the
\* value has its type.
ReadOnlyAsWell(o, n, v) == n \in DOMAIN PropertiesOf(o) /\ v \in Values
Unconverted(o, n, v) == n \in DOMAIN PropertiesOf(o) /\ PropertiesOf(o)[n].set

Writable(o, n, v) ==
  n \in DOMAIN PropertiesOf(o) /\ PropertiesOf(o)[n].set /\ v \in Values

SetProperty(o, n, v) ==
  /\ ~IsRaw(o, n)
  /\ Writable(o, n, v)
  /\ members' = [members EXCEPT ![o][n] = v]
  /\ answer' = <<"set", o, n, v>>
  /\ UNCHANGED raw

\* Not a property, one without a setter, or not a value for it.
SetRefused(o, n, v) ==
  /\ ~IsRaw(o, n)
  /\ n # Odd /\ ~Writable(o, n, v)
  /\ answer' = <<"set", o, n, Error>>
  /\ UNCHANGED object

\* A key that is not a string: invoke_ does nothing.
SetIgnored(o, k) ==
  /\ ~IsRaw(o, k)
  /\ k = Odd
  /\ answer' = <<"set", o, k, Nil>>
  /\ UNCHANGED object

Set(o, k, v) ==
  /\ Idle
  /\ Alive(o)
  /\ SetRaw(o, k, v) \/ SetProperty(o, k, v) \/ SetRefused(o, k, v) \/ SetIgnored(o, k)
  /\ UNCHANGED <<wrapper, class, search>>

\* The C++ program changes a member, as a method of the object does.
Assign(o, n, v) ==
  /\ Idle
  /\ Alive(o)
  /\ n \in DOMAIN PropertiesOf(o)
  /\ members' = [members EXCEPT ![o][n] = v]
  /\ UNCHANGED <<wrapper, class, raw, answer, search>>

------------------------------------------------------------------------------

AccessInit ==
  /\ properties = [c \in Classes |-> [n \in {} |-> [kind |-> "", get |-> FALSE, set |-> FALSE]]]
  /\ versions = [c \in Classes |-> [n \in Names |-> 0]]
  /\ newindexed = {} /\ bound = {}
  /\ index = [c \in Classes |-> "table"]
  /\ newindex = [c \in Classes |-> FALSE]
  /\ fields = [c \in Classes |-> [n \in Names |-> 0]]
  /\ \E v \in Values : members = [o \in Objects |-> [n \in Names |-> v]]
  /\ raw = [o \in Objects |-> {}]
  /\ answer = << >> /\ wanted = << >> /\ walk = << >>

AccessNext ==
  \/ \E c \in Classes :
       \/ \E n \in Names : AddMethod(c, n) \/ \E kind \in Kinds : AddProperty(c, n, kind)
       \/ Bind(c)
  \/ \E o \in Objects :
       \/ \E k \in Keys : Get(o, k) \/ \E v \in Values \cup {Nil} : Set(o, k, v)
       \/ \E n \in Names, v \in Values : Assign(o, n, v)
  \/ Hit \/ Descend \/ Miss \/ Nowhere

AccessSpec == AccessInit /\ [][AccessNext]_accessVars

------------------------------------------------------------------------------
(***************************************************************************)
(* Properties                                                              *)
(***************************************************************************)

Property == [kind : Kinds, get : BOOLEAN, set : BOOLEAN]
Look == [class : Classes, next : Nat \ {0}]

(* The type invariant.                                                     *)
AccessTypeOK ==
  /\ \A c \in Classes : /\ DOMAIN properties[c] \subseteq Names
                        /\ properties[c] \in [DOMAIN properties[c] -> Property]
  /\ DOMAIN properties = Classes
  /\ versions \in [Classes -> [Names -> 0..MaxVersion]]
  /\ newindexed \subseteq Classes /\ bound \subseteq Classes
  /\ index \in [Classes -> {"closure", "table"}]
  /\ newindex \in [Classes -> BOOLEAN]
  /\ fields \in [Classes -> [Names -> 0..MaxVersion]]
  /\ members \in [Objects -> [Names -> Values]]
  /\ raw \in [Objects -> SUBSET Keys]
  /\ answer \in {<< >>} \cup
       ({"get", "set"} \X Objects \X Keys \X (Values \cup {Error, Nil, Own})) \cup
       ({"get"} \X Objects \X Names \X {Method} \X Classes \X (1..MaxVersion))
  /\ walk \in Seq(Look)
  /\ wanted \in {<< >>} \cup (Objects \X Names)
  /\ ~Idle => wanted # << >>

(* A class whose bind() saw a getter and a setter: its objects are what a  *)
(* C++ programmer expects of them.                                         *)
Guarded(c) == c \in bound /\ index[c] = "closure" /\ newindex[c]

(* Nothing is ever stored in the object itself once its class has a        *)
(* __newindex: no Lua value hides a property or a method.                  *)
ObjectsClosed == \A o \in Objects : newindex[ClassOf[o]] => raw[o] = {}

(* A class has a __newindex as soon as a writable property was registered  *)
(* before bind(), whatever else has the same name.                         *)
SettersSeen ==
  \A c \in bound : ~Late =>
    ((\E n \in DOMAIN properties[c] : properties[c][n].set) => newindex[c])

\* Someone that x derives from, or x itself, has a method n.
Offered(x, n) == \E t \in Classes : Derives[x][t] /\ versions[t][n] # 0

\* A way down the hierarchy that leaves out no method n: no class on it before
\* the last has one, and neither has anything behind the bases it passes by.
LeavesNoneOut(p, n) ==
  \A i \in 1..Len(p) - 1 :
    /\ versions[p[i]][n] = 0
    /\ \E j \in 1..Len(Bases[p[i]]) :
         /\ p[i + 1] = Bases[p[i]][j]
         /\ \A k \in 1..j - 1 : ~Offered(Bases[p[i]][k], n)

(* What Lua finds under the name of a method, when all were registered in  *)
(* time, is the first one of the hierarchy in the order in which the bases *)
(* were declared, each with its own bases before the next: an override     *)
(* hides what it overrides, a class that has nothing hides nothing, and    *)
(* only what no class of the hierarchy has is nil.  Of the methods of one  *)
(* class under one name it is the one registered last, never a callable    *)
(* that was destroyed when another took its name.                          *)
MethodsReached ==
  ~Late /\ answer # << >> /\ answer[1] = "get" /\ answer[3] # Odd =>
    LET c == ClassOf[answer[2]]
        n == answer[3]
    IN  /\ answer[4] = Nil => ~Offered(c, n)
        /\ answer[4] = Method =>
             /\ answer[6] = versions[answer[5]][n]
             /\ \E p \in Chains : /\ p[1] = c /\ p[Len(p)] = answer[5]
                                 /\ LeavesNoneOut(p, n)

(* The same when registration goes on after bind().                        *)
MethodsCurrent == \A c \in bound : fields[c] = versions[c]

(* Lua reads of a readable property what the member holds: what an         *)
(* assignment stored is what the object has.                               *)
Truthful ==
  [][\A o \in Objects, n \in Names :
       /\ answer' \notin {answer, << >>}
       /\ answer'[1] = "get" /\ answer'[2] = o /\ answer'[3] = n
       /\ n \in DOMAIN PropertiesOf(o) /\ PropertiesOf(o)[n].get
       => answer'[4] = members[o][n]]_accessVars

(* What was registered as write only is not read.                          *)
WriteOnlyUnread ==
  [][\A o \in Objects, n \in Names :
       /\ answer' \notin {answer, << >>}
       /\ answer'[1] = "get" /\ answer'[2] = o /\ answer'[3] = n
       /\ n \in DOMAIN PropertiesOf(o)
       /\ PropertiesOf(o)[n].kind \in {"writeonly", "writeonly with policy"}
       => answer'[4] = Error]_accessVars

\* What Attributes calls declared and reply.
Declared ==
  [c \in Classes |-> [n \in DOMAIN properties[c] |->
     [get |-> properties[c][n].get, set |-> properties[c][n].set]]]
Reply == IF answer # << >> /\ Guarded(ClassOf[answer[2]])
         THEN <<answer[1], answer[2], answer[3], answer[4]>> ELSE << >>

(* The objects of guarded classes implement Attributes.                    *)
Promise == INSTANCE Attributes WITH declared <- Declared, reply <- Reply

KeepsPromise == Promise!Spec
================================================================================
