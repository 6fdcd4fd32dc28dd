--------------------------------- MODULE Convert ---------------------------------
(***************************************************************************)
(* convert_to and convert_from: C++ values become Lua values on the stack, *)
(* and Lua values of the stack become C++ values.  A container is written  *)
(* into a table, and read from one with lua_next, which takes the last key *)
(* from the top of the stack; each element is pushed, converted and meant  *)
(* to be removed by its own conversion, which may be that of a container.  *)
(***************************************************************************)
EXTENDS Integers, Sequences, FiniteSets, SequencesExt

CONSTANTS
  Types,
  Kind,        \* Kind[t]: one of Kinds
  Key, Elem,   \* of a container: the types of its keys and of its elements;
               \* Elem of an enum: its underlying type
  Enumerators, \* of an enum: its registered enumerators, as its underlying
               \* type has them
  Least, Size, \* of an integer type: its least value, how many it has
  LuaLeast, LuaSize, \* the same of a Lua integer
  Text,        \* Text[n]: the integer n written in a string
  UpToNul,     \* UpToNul[x]: the string x up to its first NUL
  Plain,       \* the types that have no objects in them
  Values,      \* <<t, x>>: the values x of type t that C++ converts
  Registered,  \* those of Values in which every enumerator is registered
  Exact,       \* those of Values in which no string has a NUL
  Scripts,     \* <<h, v, t>>: the tables h and the value v of Lua, to be read
               \* as a t
  Nil, None,
  MaxStack     \* how high the stack may be

Kinds == {"integer", "enum", "string", "object", "unknown", "list", "set", "map"}

Container(t) == Kind[t] \in {"list", "set", "map"}

LuaIntegers == LuaLeast..(LuaLeast + LuaSize - 1)

\* s is a sequence, of whatever elements.
IsSeq(s) == Len(s) \in Nat /\ s = [i \in 1..Len(s) |-> s[i]]

ASSUME ConvertAssumption ==
  /\ Kind \in [Types -> Kinds]
  /\ LuaLeast \in Int /\ LuaSize \in Nat \ {0} /\ {0, 1} \subseteq LuaIntegers
  /\ Nil \notin {"integer", "string", "object", "table"}
  /\ \A t \in Types :
       /\ Container(t) => Elem[t] \in Types
       /\ Kind[t] = "map" => Key[t] \in Types
       /\ Kind[t] = "enum" => Elem[t] \in Types /\ Kind[Elem[t]] \in {"integer", "string"}
       /\ Kind[t] = "integer" =>
            /\ Least[t] \in Int /\ Size[t] \in Nat \ {0}
            /\ LuaSize % Size[t] = 0
       /\ t \in Plain <=> /\ Kind[t] # "object"
                          /\ Container(t) => Elem[t] \in Plain
                          /\ Kind[t] = "map" => Key[t] \in Plain

\* The values of which the value x of type t is made.
Parts(t, x) ==
  IF Kind[t] = "enum" THEN {<<Elem[t], <<Kind[Elem[t]], x[2]>> >>}
  ELSE IF Kind[t] = "list" THEN {<<Elem[t], x[2][i]>> : i \in 1..Len(x[2])}
  ELSE IF Kind[t] = "set" THEN {<<Elem[t], y>> : y \in x[2]}
  ELSE IF Kind[t] = "map" THEN UNION {{<<Key[t], y[1]>>, <<Elem[t], y[2]>>} : y \in x[2]}
  ELSE {}

\* A map has one element for a key; each element gets an index or a key of Lua.
Formed(t, x) ==
  CASE Kind[t] = "integer" -> x = <<"integer", x[2]>> /\ x[2] \in Least[t]..(Least[t] + Size[t] - 1)
    [] Kind[t] \in {"enum", "string", "object"} -> x = <<Kind[t], x[2]>>
    [] Kind[t] = "list" ->
         x = <<"list", x[2]>> /\ IsSeq(x[2]) /\ (Len(x[2]) > 0 => Len(x[2]) \in LuaIntegers)
    [] Kind[t] \in {"set", "map"} ->
         /\ x = <<Kind[t], x[2]>> /\ IsFiniteSet(x[2])
         /\ Cardinality(x[2]) > 0 => Cardinality(x[2]) \in LuaIntegers
         /\ Kind[t] = "map" =>
              \A y, z \in x[2] : y = <<y[1], y[2]>> /\ (y[1] = z[1] => y = z)
    [] OTHER -> TRUE

\* What is part of a value is a value too.
ASSUME ValuesAssumption ==
  \A vt \in Values :
    /\ vt = <<vt[1], vt[2]>> /\ vt[1] \in Types
    /\ Formed(vt[1], vt[2])
    /\ Parts(vt[1], vt[2]) \subseteq Values
    /\ vt \in Registered <=>
         /\ Kind[vt[1]] = "enum" => vt[2][2] \in Enumerators[vt[1]]
         /\ Container(vt[1]) => Parts(vt[1], vt[2]) \subseteq Registered
    /\ vt \in Exact <=>
         /\ Kind[vt[1]] = "string" => UpToNul[vt[2][2]] = vt[2][2]
         /\ Parts(vt[1], vt[2]) \subseteq Exact

\* v is a value of Lua, which has n tables.
LuaValueOf(v, n) ==
  \/ v[1] = "integer" /\ v[2] \in LuaIntegers
  \/ v[1] \in {"string", "object"}
  \/ v = <<Nil>>
  \/ v[1] = "table" /\ v[2] \in 1..n

\* A table has no key twice, and never the key nil.
ASSUME ScriptsAssumption ==
  \A s \in Scripts :
    /\ s[3] \in Types
    /\ LuaValueOf(s[2], Len(s[1]))
    /\ IsSeq(s[1])
    /\ \A h \in 1..Len(s[1]) :
         /\ IsSeq(s[1][h])
         /\ \A i \in 1..Len(s[1][h]) :
              /\ s[1][h][i] = <<s[1][h][i][1], s[1][h][i][2]>>
              /\ LuaValueOf(s[1][h][i][1], Len(s[1])) /\ LuaValueOf(s[1][h][i][2], Len(s[1]))
              /\ s[1][h][i][1] # <<Nil>>
              /\ \A j \in 1..Len(s[1][h]) : s[1][h][i][1] = s[1][h][j][1] => i = j

VARIABLES
  pc,          \* what the innermost conversion is about to do
  containers,  \* the containers that are being converted, innermost last
  stack,       \* the Lua stack
  heap,        \* the tables: their pairs in the order of lua_next
  error,       \* error_msg is not empty
  rest,        \* the stack without the value that is converted
  origin       \* what is converted: by C++, back to it, or only by Lua

convertVars == <<pc, containers, stack, heap, error, rest, origin>>

Ended == pc[1] \in {"end", "raised"}

F == containers[Len(containers)]

Outer == SubSeq(containers, 1, Len(containers) - 1)

Down(n) == SubSeq(stack, 1, Len(stack) - n)

\* static_cast to an integer type, and the conversion to lua_Integer.
Wrap(n, least, size) == least + ((n - least) % size)

Narrow(t, n) == Wrap(n, Least[t], Size[t])

\* Slip: what Lua has no integer for stays as it is.
Unwrapped(n) == n

ToInteger(n) == Wrap(n, LuaLeast, LuaSize)

\* The innermost container goes on at stage s with f, converting nothing.
Stay(s, f) == containers' = Append(Outer, [f EXCEPT !.stage = s])

\* The conversion is over, for the container around it.
Back(x) == pc' = <<"back", x>>

IsBack == pc[1] = "back"

------------------------------------------------------------------------------
(***************************************************************************)
(* From C++ to Lua                                                         *)
(***************************************************************************)

\* The pairs of a container in the order of its iterators: any order of a
\* set or a map.
Items(t, x) ==
  IF Kind[t] = "list" THEN {[i \in 1..Len(x[2]) |-> <<i, x[2][i]>>]}
  ELSE IF Kind[t] = "map" THEN SetToSeqs(x[2])
  ELSE {[i \in 1..Len(q) |-> <<i, q[i]>>] : q \in SetToSeqs(x[2])}

\* What the value x of type t is in Lua: c_str ends a string at a NUL.
Pushed(t, x) ==
  CASE Kind[t] = "integer" -> <<"integer", ToInteger(x[2])>>
    [] Kind[t] = "string"  -> <<"string", UpToNul[x[2]]>>
    [] OTHER -> x

ToBasic ==
  /\ pc[1] = "to" /\ Kind[pc[2]] \in {"integer", "string", "object"}
  /\ stack' = Append(stack, Pushed(pc[2], pc[3]))
  /\ Back(None)
  /\ UNCHANGED <<containers, heap, error, rest, origin>>

\* An enumerator is written as its underlying value, registered or not.
ToEnum ==
  /\ pc[1] = "to" /\ Kind[pc[2]] = "enum"
  /\ pc' = <<"to", Elem[pc[2]], <<Kind[Elem[pc[2]]], pc[3][2]>> >>
  /\ UNCHANGED <<containers, stack, heap, error, rest, origin>>

\* A type that the lookup does not know.
ToUnknown ==
  /\ pc[1] = "to" /\ Kind[pc[2]] = "unknown"
  /\ error' = TRUE
  /\ Back(None)
  /\ UNCHANGED <<containers, stack, heap, rest, origin>>

ToOpen ==
  /\ pc[1] = "to" /\ Container(pc[2])
  /\ heap' = Append(heap, << >>)
  /\ stack' = Append(stack, <<"table", Len(heap) + 1>>)
  /\ \E q \in Items(pc[2], pc[3]) :
       containers' = Append(containers, [to |-> TRUE, type |-> pc[2], at |-> Len(stack) + 1,
                                 items |-> q, held |-> None, stage |-> "next"])
  /\ Back(None)
  /\ UNCHANGED <<error, rest, origin>>

ToFrame(s) == IsBack /\ containers # << >> /\ F.to /\ F.stage = s

\* The index of an array is pushed; the key of a map has its conversion.
ToNext ==
  /\ ToFrame("next") /\ F.items # << >>
  /\ IF Kind[F.type] = "map"
     THEN /\ Stay("key", F) /\ pc' = <<"to", Key[F.type], F.items[1][1]>>
          /\ UNCHANGED stack
     ELSE /\ Stay("value", F) /\ pc' = <<"to", Elem[F.type], F.items[1][2]>>
          /\ stack' = Append(stack, <<"integer", F.items[1][1]>>)
  /\ UNCHANGED <<heap, error, rest, origin>>

ToValue ==
  /\ ToFrame("key") /\ ~error
  /\ Stay("value", F) /\ pc' = <<"to", Elem[F.type], F.items[1][2]>>
  /\ UNCHANGED <<stack, heap, error, rest, origin>>

\* The pairs ps of a t with p among them, instead of one that has its key.
\* Lua finds the elements of an array in order, those of other tables in any.
Settled(t, ps, p) ==
  LET same == {i \in 1..Len(ps) : ps[i][1] = p[1]}
      places == IF Kind[t] = "map" THEN 1..(Len(ps) + 1) ELSE {Len(ps) + 1}
  IN IF same = {} THEN {InsertAt(ps, i, p) : i \in places}
                  ELSE {[ps EXCEPT ![i] = p] : i \in same}

\* lua_settable takes the key and the value.
ToSettled ==
  /\ ToFrame("value") /\ ~error
  /\ LET t == stack[Len(stack) - 2][2]
         p == <<stack[Len(stack) - 1], Last(stack)>>
     IN \E ps \in Settled(F.type, heap[t], p) : heap' = [heap EXCEPT ![t] = ps]
  /\ stack' = Down(2)
  /\ Stay("next", [F EXCEPT !.items = Tail(@)])
  /\ Back(None)
  /\ UNCHANGED <<error, rest, origin>>

\* The loop is over; after an error it leaves the stack as it is.
ToClose ==
  /\ IsBack /\ containers # << >> /\ F.to
  /\ error \/ (F.stage = "next" /\ F.items = << >>)
  /\ containers' = Outer
  /\ Back(None)
  /\ UNCHANGED <<stack, heap, error, rest, origin>>

------------------------------------------------------------------------------
(***************************************************************************)
(* From Lua to C++                                                         *)
(***************************************************************************)

\* lua_isinteger, lua_isstring (a number is one), the check of an instance
\* (nil is an empty one).
Fits(t, v) ==
  CASE Kind[t] = "integer" -> v[1] = "integer"
    [] Kind[t] = "string"  -> v[1] \in {"string", "integer"}
    [] Kind[t] = "object"  -> v[1] \in {"object", Nil}
    [] OTHER -> FALSE

\* Slip: the value is clipped to the type.
Clipped(t, v) ==
  CASE Kind[t] = "integer" /\ v[2] >= Least[t] + Size[t] ->
         <<"integer", Least[t] + Size[t] - 1>>
    [] Kind[t] = "integer" /\ v[2] < Least[t] -> <<"integer", Least[t]>>
    [] Kind[t] = "string" ->
         <<"string", IF v[1] = "integer" THEN Text[v[2]] ELSE UpToNul[v[2]]>>
    [] OTHER -> v

Cast(t, v) ==
  CASE Kind[t] = "integer" -> <<"integer", Narrow(t, v[2])>>
    [] Kind[t] = "string" ->
         <<"string", IF v[1] = "integer" THEN Text[v[2]] ELSE UpToNul[v[2]]>>
    [] OTHER -> v

\* The type that a value of Lua is first read as.
Under(t) == IF Kind[t] = "enum" THEN Elem[t] ELSE t

\* reverse_values_ is searched for what the underlying type has made of it.
Enumerated(t, v) == Kind[t] = "enum" => Cast(Elem[t], v)[2] \in Enumerators[t]

Readable(t, v) == Fits(Under(t), v) /\ Enumerated(t, v)

Read(t, v) ==
  IF Kind[t] = "enum" THEN <<"enum", Cast(Elem[t], v)[2]>> ELSE Cast(t, v)

\* Slip: the conversion leaves what it read.
Left == stack

\* What is left of the stack: a conversion removes what it read, except an
\* object.
Removed == IF Kind[pc[2]] = "object" THEN stack ELSE RemoveAt(stack, pc[3])

\* The value at pc[3] of the stack is converted; a value of another type sets
\* error_msg and is left.
FromBasic ==
  /\ pc[1] = "from" /\ ~Container(pc[2]) /\ Kind[pc[2]] # "enum"
  /\ IF Readable(pc[2], stack[pc[3]])
     THEN /\ Back(Read(pc[2], stack[pc[3]]))
          /\ stack' = Removed
          /\ UNCHANGED error
     ELSE /\ Back(None)
          /\ error' = TRUE
          /\ UNCHANGED stack
  /\ UNCHANGED <<containers, heap, rest, origin>>

\* The underlying value is converted, and thereby removed; then looked up.
FromEnum ==
  /\ pc[1] = "from" /\ Kind[pc[2]] = "enum"
  /\ stack' = IF Fits(Elem[pc[2]], stack[pc[3]]) THEN Removed ELSE stack
  /\ IF Readable(pc[2], stack[pc[3]])
     THEN Back(Read(pc[2], stack[pc[3]])) /\ UNCHANGED error
     ELSE Back(None) /\ error' = TRUE
  /\ UNCHANGED <<containers, heap, rest, origin>>

FromOpen ==
  /\ pc[1] = "from" /\ Container(pc[2])
  /\ Back(None)
  /\ IF stack[pc[3]][1] = "table"
     THEN /\ stack' = Append(stack, <<Nil>>)
          /\ containers' = Append(containers, [to |-> FALSE, type |-> pc[2], at |-> pc[3],
                                       items |-> << >>, held |-> None, stage |-> "next"])
          /\ UNCHANGED error
     ELSE error' = TRUE /\ UNCHANGED <<stack, containers>>
  /\ UNCHANGED <<heap, rest, origin>>

FromFrame(s) == IsBack /\ containers # << >> /\ ~F.to /\ F.stage = s

Pairs == heap[stack[F.at][2]]

\* Where lua_next finds the key k, and where it goes on.
Known(k) == k = <<Nil>> \/ \E i \in 1..Len(Pairs) : Pairs[i][1] = k

After(k) ==
  IF k = <<Nil>> THEN 1 ELSE 1 + CHOOSE i \in 1..Len(Pairs) : Pairs[i][1] = k

Content(f) == <<Kind[f.type], IF Kind[f.type] = "list" THEN f.items ELSE ToSet(f.items)>>

TableRemoved(s) == RemoveAt(s, F.at)

\* The loop is over, with s on the stack.
FromClose(s) ==
  /\ stack' = TableRemoved(s)
  /\ containers' = Outer
  /\ Back(Content(F))
  /\ UNCHANGED <<heap, error, rest, origin>>

\* lua_next, and then the test of error_msg.
FromNext ==
  /\ FromFrame("next") /\ Known(Last(stack)) /\ Len(stack) < MaxStack
  /\ LET i == After(Last(stack))
     IN IF i > Len(Pairs) THEN FromClose(Down(1))
        ELSE IF error THEN FromClose(Down(1) \o Pairs[i])
        ELSE /\ stack' = Down(1) \o Pairs[i]
             /\ Stay("value", F)
             /\ pc' = <<"from", Elem[F.type], Len(stack) + 1>>
             /\ UNCHANGED <<heap, error, rest, origin>>

\* lua_next raises an error for a key that the table does not have.
FromRaise ==
  /\ FromFrame("next") /\ ~Known(Last(stack))
  /\ pc' = <<"raised", None>> /\ containers' = << >> /\ stack' = << >>
  /\ UNCHANGED <<heap, error, rest, origin>>

\* Slip: of two elements that are equal the last stays, or both.
InsertedLast(f, x) ==
  IF Kind[f.type] = "map"
  THEN [f EXCEPT !.items = Append(SelectSeq(@, LAMBDA y : y[1] # x[1]), x)]
  ELSE [f EXCEPT !.items = Append(@, x)]

\* What the container f has when x is inserted: of two elements of a set, or
\* keys of a map, that are equal the first stays.
Inserted(f, x) ==
  IF \/ Kind[f.type] = "list"
     \/ \A i \in 1..Len(f.items) :
          IF Kind[f.type] = "map" THEN f.items[i][1] # x[1] ELSE f.items[i] # x
  THEN [f EXCEPT !.items = Append(@, x)] ELSE f

\* The element of a list or a set is there.
FromElement ==
  /\ FromFrame("value") /\ Kind[F.type] # "map"
  /\ Stay("next", IF error THEN F ELSE Inserted(F, pc[2]))
  /\ UNCHANGED <<pc, stack, heap, error, rest, origin>>

\* Slip: the key itself is converted.
KeyItself == stack

\* A copy of the key is pushed, since lua_next needs the key.
KeyCopied == Append(stack, Last(stack))

\* The element of a map is there, and the key is converted.
FromKey ==
  /\ FromFrame("value") /\ Kind[F.type] = "map"
  /\ IF error THEN Stay("next", F) /\ UNCHANGED <<pc, stack>>
     ELSE /\ Stay("key", [F EXCEPT !.held = pc[2]])
          /\ stack' = KeyCopied
          /\ pc' = <<"from", Key[F.type], Len(stack')>>
  /\ UNCHANGED <<heap, error, rest, origin>>

FromPair ==
  /\ FromFrame("key")
  /\ Stay("next", IF error THEN F ELSE Inserted(F, <<pc[2], F.held>>))
  /\ UNCHANGED <<pc, stack, heap, error, rest, origin>>

------------------------------------------------------------------------------

Finish ==
  /\ IsBack /\ containers = << >>
  /\ pc' = <<"end", pc[2]>>
  /\ UNCHANGED <<containers, stack, heap, error, rest, origin>>

\* Lua reads what C++ wrote back, with another argument above it or not.
ReadBack(above) ==
  /\ pc[1] = "end" /\ ~error /\ origin.by = "cpp"
  /\ pc' = <<"from", origin.type, 1>>
  /\ stack' = stack \o above
  /\ rest' = above
  /\ origin' = [origin EXCEPT !.by = "back"]
  /\ UNCHANGED <<containers, heap, error>>

ConvertInit ==
  /\ containers = << >> /\ error = FALSE /\ rest = << >>
  /\ \/ \E vt \in Values :
          /\ pc = <<"to", vt[1], vt[2]>> /\ stack = << >> /\ heap = << >>
          /\ origin = [type |-> vt[1], value |-> vt[2], by |-> "cpp"]
     \/ \E s \in Scripts :
          /\ pc = <<"from", s[3], 1>> /\ stack = <<s[2]>> /\ heap = s[1]
          /\ origin = [type |-> s[3], value |-> s[2], by |-> "lua"]

Step ==
  \/ ToBasic \/ ToEnum \/ ToUnknown \/ ToOpen \/ ToNext \/ ToValue \/ ToSettled \/ ToClose
  \/ FromBasic \/ FromEnum \/ FromOpen \/ FromNext \/ FromRaise \/ FromElement \/ FromKey \/ FromPair
  \/ Finish

ConvertNext == Step \/ \E above \in {<< >>, << <<"integer", 0>> >>} : ReadBack(above)

ConvertSpec == ConvertInit /\ [][ConvertNext]_convertVars /\ WF_convertVars(Step)
------------------------------------------------------------------------------
(***************************************************************************)
(* Properties                                                              *)
(***************************************************************************)

LuaValue(v) == LuaValueOf(v, Len(heap))

(* The type invariant: what is on the stack and in tables are Lua values,  *)
(* and each container that is read is at its place on the stack.           *)
ConvertTypeOK ==
  /\ pc[1] \in {"to", "from", "back", "end", "raised"}
  /\ pc[1] \in {"to", "from"} => pc[2] \in Types
  /\ \A i \in 1..Len(stack) : LuaValue(stack[i])
  /\ \A t \in 1..Len(heap) : \A i \in 1..Len(heap[t]) :
       LuaValue(heap[t][i][1]) /\ LuaValue(heap[t][i][2])
  /\ \A k \in 1..Len(containers) :
       /\ containers[k].stage \in {"next", "key", "value"}
       /\ ~containers[k].to => stack[containers[k].at][1] = "table"
  /\ error \in BOOLEAN

(* What C++ writes, with no NUL in a string, is read back as the same value *)
(* by the same type, however containers are nested and in whatever order   *)
(* Lua finds their elements; an enumerator that is not registered is       *)
(* written, and refused when read.                                         *)
RoundTrip ==
  /\ Ended /\ origin.by = "back"
  /\ origin.type \in Plain /\ <<origin.type, origin.value>> \in Exact
  =>
    IF <<origin.type, origin.value>> \in Registered
    THEN pc = <<"end", origin.value>> /\ ~error
    ELSE error

(* A conversion that succeeds leaves on the stack what it had to: the new  *)
(* value, or all that was there but the value it read.                     *)
StackKept ==
  pc[1] = "end" /\ ~error /\ origin.type \in Plain =>
    IF origin.by = "cpp" THEN Len(stack) = 1 ELSE stack = rest

(* What a container reads from the pairs of a table.                       *)
Meant(t, ps) ==
  IF Kind[t] = "map"
  THEN {<<Read(Key[t], ps[i][1]), Read(Elem[t], ps[i][2])>> : i \in
          {j \in 1..Len(ps) : \A k \in 1..(j - 1) :
             Read(Key[t], ps[k][1]) # Read(Key[t], ps[j][1])}}
  ELSE LET q == [i \in 1..Len(ps) |-> Read(Elem[t], ps[i][2])]
       IN IF Kind[t] = "list" THEN q ELSE ToSet(q)

Convertible(t, ps) ==
  \A i \in 1..Len(ps) :
    Readable(Elem[t], ps[i][2]) /\ (Kind[t] = "map" => Readable(Key[t], ps[i][1]))

Flat(t) ==
  /\ Container(t) /\ ~Container(Elem[t])
  /\ Kind[t] = "map" => ~Container(Key[t])

(* A table of Lua is read whole, each element as it is converted alone; if *)
(* one cannot be converted, the conversion does not succeed.               *)
ReadExact ==
  Ended /\ origin.by = "lua" /\ Flat(origin.type) /\ origin.type \in Plain =>
    LET ps == heap[origin.value[2]]
    IN IF origin.value[1] = "table" /\ Convertible(origin.type, ps)
       THEN pc = <<"end", <<Kind[origin.type], Meant(origin.type, ps)>>>> /\ ~error
       ELSE error

(* A conversion that fails says so with error_msg, and does not raise an   *)
(* error of Lua.                                                           *)
NeverRaises == pc[1] # "raised"

(* The conversion of a value without objects ends: each loop over a table  *)
(* comes to its end, on a stack of bounded height.                         *)
ConversionEnds == ~Ended /\ origin.type \in Plain ~> Ended
================================================================================
