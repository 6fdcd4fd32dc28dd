-------------------------------- MODULE Passing --------------------------------
(***************************************************************************)
(* How an object gets from Lua to the parameter of a C++ function and back *)
(* and what the policy of the parameter has to do with it.  Between the    *)
(* two it is in an any, which holds it by value, by reference, by pointer  *)
(* or by shared_ptr; arg_call says which of these each parameter takes.    *)
(*                                                                         *)
(* Calls nest: Lua calls a C++ function, which calls the std::function it  *)
(* was given, which is a Lua function, and so on.  The policies of this    *)
(* std::function are the nodes below that of the parameter.                *)
(***************************************************************************)
EXTENDS Policy

CONSTANTS
  Raw,         \* objects that no shared_ptr holds
  Counted,     \* objects that some shared_ptr holds
  Consts,      \* const objects
  New,         \* an object that default_initializer made
  Temp,        \* a copy, or a number
  Null,
  Rash,        \* the risks this program takes
  MaxDepth,    \* calls that run at a time
  MaxChanges   \* policies that are set

Objects == Raw \cup Counted \cup Consts \cup {New, Temp, Null}

ASSUME PassingAssumption ==
  /\ Raw \cap Counted = {} /\ Raw \cap Consts = {} /\ Counted \cap Consts = {}
  /\ {New, Temp, Null} \cap (Raw \cup Counted \cup Consts) = {}
  /\ New # Temp /\ New # Null /\ Temp # Null
  /\ Objects \cap Paths = {}
  /\ Rash \subseteq {"default", "nil", "output"}
  /\ MaxDepth \in Nat /\ MaxChanges \in Nat

VARIABLES
  changes,     \* policies set so far
  frames,      \* the calls that run, the last one innermost
  boxes,       \* the objects that Lua has, each with how it is held
  closures,    \* the paths of the C++ functions that Lua can call
  functors     \* the paths of the Lua functions that C++ can call

vars == <<type, nodes, changes, frames, boxes, closures, functors>>

How == {"value", "ref", "cref", "ptr", "cptr", "shared"}

Holds(how, x) == [how |-> how, of |-> x]

Boxes == [how : {"ptr", "shared"}, of : Objects]

------------------------------------------------------------------------------
(***************************************************************************)
(* arg_call                                                                *)
(***************************************************************************)

\* What each table of arg_call has a conversion for: the table of const T*, of
\* T*, of T* for an incomplete T, of const T, of T, of std::shared_ptr<T>.
ConstPointerTable == How
PointerTable      == {"value", "ref", "ptr", "shared"}
IncompleteTable   == {"ptr"}
ConstTable        == How
ValueTable        == {"value", "ref", "ptr", "shared"}
SharedTable       == {"shared"}

\* Slip: the table of const T* for every pointer.
Lax(t) ==
  CASE t.form \in {"constptr", "ptr"} -> ConstPointerTable
    [] t.form \in {"shared", "sharedref"} -> SharedTable
    [] OTHER -> ValueTable

\* The table of a parameter of type t.  const T& is no const type.
Accepted(t) ==
  CASE t.form = "constptr" -> ConstPointerTable
    [] t.form = "ptr" /\ t.class = "incomplete" -> IncompleteTable
    [] t.form = "ptr" -> PointerTable
    [] t.form \in {"shared", "sharedref"} -> SharedTable
    [] OTHER -> ValueTable

Accepts(t, c) == c.how \in Accepted(t)

\* output_arg_ casts to T&&, for which a pointer is a value of its own.
OutAccepts(t, c) == IF t.form = "ptr" THEN c.how = "ptr" ELSE Accepts(t, c)

\* as<R>() wants the very type.
ReturnAccepts(t, c) ==
  c.how = CASE t.form = "ref"        -> "ref"
            [] t.form = "constref"   -> "cref"
            [] t.form = "constptr"   -> "cptr"
            [] t.form = "ptr"        -> "ptr"
            [] t.form \in {"shared", "sharedref"} -> "shared"
            [] OTHER                 -> "value"

\* Slip: what is made is the value itself.
FreshValue(t) == IF t.class \in {"object", "number"} THEN Holds("value", New) ELSE Empty

\* default_initializer: make_shared of a class and for a shared_ptr, a value
\* of any other type that is registered, nothing of an incomplete one.
Fresh(t) ==
  IF t.class = "object" \/ (t.class = "number" /\ t.form \in {"shared", "sharedref"})
  THEN Holds("shared", New)
  ELSE IF t.class = "number" THEN Holds("value", Temp)
  ELSE Empty

------------------------------------------------------------------------------
(***************************************************************************)
(* convert_from and convert_to                                             *)
(***************************************************************************)

\* The paths of the std::functions in the value at p.
Within(p) == {q \in {p, Append(p, "data")} : TypeAt(q).form = "function"}

\* References to nothing that a careful program does not let Lua ask for.
Referenced(t) == t.form \in {"value", "ref", "constref"}

\* What Lua passes for a t that converts: a box, but none of a copy, which may
\* be gone, or nil, which is an empty shared_ptr, for an object.
FromLua(p, t) ==
  IF t.class \in {"object", "incomplete"}
  THEN {b \in boxes : b.of # Temp}
         \cup {c \in {Holds("shared", Null)} : Referenced(t) => "nil" \in Rash}
  ELSE {Holds("value", IF t.class = "number" THEN Temp ELSE p)}

\* What the C++ code has for a t.
Native(t) ==
  IF t.form \in {"shared", "sharedref"} THEN Counted \cup {Null}
  ELSE CASE t.form = "constptr" -> Raw \cup Counted \cup Consts \cup {Null}
         [] t.form = "constref" -> Raw \cup Counted \cup Consts
         [] t.form = "ptr"      -> Raw \cup Counted \cup {Null}
         [] t.form = "ref"      -> Raw \cup Counted
         [] OTHER               -> {Temp}

\* The any of an argument: std::ref of a lvalue of the parameter.
Argument(t, x) ==
  Holds(CASE t.form = "constptr" -> "cptr"
          [] t.form = "constref" -> "cref"
          [] t.form = "ptr"      -> "ptr"
          [] t.form \in {"shared", "sharedref"} -> "shared"
          [] OTHER               -> "ref", x)

\* The any of a result, which keeps a copy of what a reference refers to.
Returned(t, x) ==
  Holds(CASE t.form = "constptr" -> "cptr"
          [] t.form = "ptr"      -> "ptr"
          [] t.form \in {"shared", "sharedref"} -> "shared"
          [] OTHER               -> "value",
        IF Referenced(t) THEN Temp ELSE x)

Pointer == Leaf("ptr", "object")

Refused == Empty

\* Slip: a plain pointer gets an owner without being asked.
BoxedOwned(p, t, c) ==
  IF Accepts(Leaf("shared", "object"), c) THEN c
  ELSE IF Accepts([Pointer EXCEPT !.class = t.class], c) THEN Holds("shared", c.of)
  ELSE Refused

\* to_lua of a class: a box with a shared_ptr, or with a pointer unless the
\* policy gives Lua the object.  Neither takes what is const.
Boxed(p, t, c) ==
  IF Accepts(Leaf("shared", "object"), c) THEN c
  ELSE IF Accepts([Pointer EXCEPT !.class = t.class], c)
  THEN Holds(IF nodes[p].owner /\ t.class = "object" THEN "shared" ELSE "ptr", c.of)
  ELSE Refused

\* A number is copied; of a std::function a closure is made.
ToLua(p, t, c) ==
  IF t.class \in {"object", "incomplete"}
  THEN /\ Boxed(p, t, c) # Refused
       /\ boxes' = boxes \cup {b \in {Boxed(p, t, c)} : b.of # Null}
       /\ UNCHANGED closures
  ELSE closures' = closures \cup Within(p) /\ UNCHANGED boxes

\* check_arg_call in to_lua: a number is asked for as a const T.
CannotToLua(p, t, c) ==
  CASE t.class \in {"object", "incomplete"} -> Boxed(p, t, c) = Refused
    [] t.class = "number"                  -> c.how \notin ConstTable
    [] OTHER                               -> c.how \notin ValueTable

------------------------------------------------------------------------------
(***************************************************************************)
(* The calls                                                               *)
(***************************************************************************)

Top == frames[Len(frames)]

\* Lua runs at the bottom and in the calls of C++; C++ in those of Lua.
LuaRuns == frames # <<>> => (Top.dir = "toLua" /\ Top.at = "body")

NativeRuns == frames # <<>> /\ Top.dir = "fromLua" /\ Top.at = "body"

Arity(fr) == TypeAt(fr.path).arity

\* The type of the i-th parameter of a call.
ParameterOf(fr, i) == TypeAt(Append(fr.path, Names[i + 1]))

\* The path of the parameter whose turn it is, and its type and policy.
Here(fr) == Append(fr.path, Names[fr.i + 1])
Wanted   == TypeAt(Here(Top))
Policy   == nodes[Here(Top)]

\* A request reads the node of each parameter it passes: get_sub_node()
\* asserts that it is there.
Reads(fr) == fr.at \in {"args", "output"} /\ fr.i <= Arity(fr)

Turn(d, a) ==
  frames # <<>> /\ Top.dir = d /\ Top.at = a /\ Reads(Top) /\ Here(Top) \in DOMAIN nodes

Becomes(fr) == frames' = [frames EXCEPT ![Len(frames)] = fr]

Entered(p, d) ==
  /\ Len(frames) < MaxDepth
  /\ frames' = Append(frames, [path |-> p, dir |-> d, at |-> "args", i |-> 1,
                               args |-> <<>>, ret |-> Empty])

\* The error ends the innermost call.  A std::function raises it as an error
\* of Lua, across the C++ function that called it: it stops at a Lua function
\* that expects it, or leaves the script.
Failed ==
  /\ \E n \in {m \in 0..(Len(frames) - 1) : m % 2 = 0} : frames' = SubSeq(frames, 1, n)
  /\ UNCHANGED <<type, nodes, changes>>

Lost == Failed /\ UNCHANGED <<boxes, closures, functors>>

\* The argument c is there; the next one.
Got(c) ==
  /\ Becomes([Top EXCEPT !.i = @ + 1, !.args = Append(@, c)])
  /\ UNCHANGED <<type, nodes, changes>>

Passed == Becomes([Top EXCEPT !.i = @ + 1]) /\ UNCHANGED <<type, nodes, changes>>

\* Lua calls a C++ function, C++ a std::function made of a Lua function.
CallFromLua(p) ==
  /\ LuaRuns /\ p \in closures /\ Entered(p, "fromLua")
  /\ UNCHANGED <<type, nodes, changes, boxes, closures, functors>>

CallToLua(p) ==
  /\ NativeRuns /\ p \in functors /\ Entered(p, "toLua")
  /\ UNCHANGED <<type, nodes, changes, boxes, closures, functors>>

\* request_from_lua::initialize_: an input parameter is what Lua passes, if
\* its type takes it.
FetchInput ==
  /\ Turn("fromLua", "args") /\ Policy.in
  /\ \E c \in FromLua(Here(Top), Wanted) : Accepts(Wanted, c) /\ Got(c)
  /\ UNCHANGED <<boxes, closures, functors>>

\* Lua passes fewer arguments: the default value, which nothing looks at.
FetchDefault ==
  /\ Turn("fromLua", "args") /\ Policy.in
  /\ Policy.default # Empty /\ Got(Policy.default)
  /\ UNCHANGED <<boxes, closures, functors>>

FetchFresh ==
  /\ Turn("fromLua", "args") /\ ~Policy.in
  /\ Fresh(Wanted) # Empty /\ Got(Fresh(Wanted))
  /\ UNCHANGED <<boxes, closures, functors>>

\* Lua passes what does not convert or does not fit, or nothing; or there is
\* no fresh value.
FetchFails ==
  /\ Turn("fromLua", "args") /\ (~Policy.in => Fresh(Wanted) = Empty)
  /\ Lost

\* request_to_lua::initialize_: input parameters are pushed.
Push ==
  /\ Turn("toLua", "args")
  /\ \E x \in Native(Wanted) :
       IF Policy.in
       THEN LET c == Argument(Wanted, x)
            IN  IF CannotToLua(Here(Top), Wanted, c)
                THEN Failed /\ UNCHANGED <<boxes, closures>>
                ELSE ToLua(Here(Top), Wanted, c) /\ Got(c)
       ELSE Got(Argument(Wanted, x)) /\ UNCHANGED <<boxes, closures>>
  /\ UNCHANGED functors

\* All arguments are there: the function runs, and a C++ function may keep the
\* std::functions among them.
Run ==
  /\ frames # <<>> /\ Top.at = "args" /\ Top.i > Arity(Top)
  /\ Becomes([Top EXCEPT !.at = "body"])
  /\ functors' = functors \cup
       (IF Top.dir = "toLua" THEN {}
        ELSE UNION {Within(Append(Top.path, Names[j + 1])) : j \in 1..Arity(Top)})
  /\ UNCHANGED <<type, nodes, changes, boxes, closures>>

\* The C++ function assigns to a parameter std::shared_ptr<T>&.
Assign(i, x) ==
  /\ NativeRuns /\ i \in 1..Arity(Top)
  /\ TypeAt(Append(Top.path, Names[i + 1])).form = "sharedref"
  /\ Becomes([Top EXCEPT !.args[i] = Holds("shared", x)])
  /\ UNCHANGED <<type, nodes, changes, boxes, closures, functors>>

\* It throws, or the Lua function raises an error.
Raise == frames # <<>> /\ Top.at = "body" /\ Lost

ResultType == TypeAt(Append(Top.path, "0"))

\* A function without a result has none to convert.
ReturnNative(x) ==
  /\ NativeRuns /\ (IF ResultType.form = "void" THEN x = Null ELSE x \in Native(ResultType))
  /\ Becomes([Top EXCEPT !.at = "output", !.ret = Returned(ResultType, x),
                         !.i = IF ResultType.form = "void" THEN 1 ELSE 0])
  /\ UNCHANGED <<type, nodes, changes, boxes, closures, functors>>

ReturnLua ==
  /\ frames # <<>> /\ LuaRuns
  /\ Becomes([Top EXCEPT !.at = "output", !.i = IF ResultType.form = "void" THEN 1 ELSE 0])
  /\ UNCHANGED <<type, nodes, changes, boxes, closures, functors>>

\* append_output_: the result, unless it is discarded, then each output.
Written == IF Top.i = 0 THEN Top.ret ELSE Top.args[Top.i]

Writes == IF Top.i = 0 THEN ~Policy.discard ELSE Policy.out

Append_output ==
  /\ Turn("fromLua", "output") /\ UNCHANGED functors
  /\ IF ~Writes THEN Passed /\ UNCHANGED <<boxes, closures>>
     ELSE IF CannotToLua(Here(Top), Wanted, Written)
     THEN Failed /\ UNCHANGED <<boxes, closures>>
     ELSE ToLua(Here(Top), Wanted, Written) /\ Passed

\* output_return_ and output_arg_: what Lua returns is converted, and cast
\* without a check.
Output_arg ==
  /\ Turn("toLua", "output") /\ UNCHANGED <<boxes, closures>>
  /\ IF Top.i > 0 /\ ~Policy.out THEN Passed /\ UNCHANGED functors
     ELSE /\ \E c \in FromLua(Here(Top), Wanted) :
               /\ "output" \notin Rash =>
                    (IF Top.i = 0 THEN ReturnAccepts(Wanted, c) ELSE OutAccepts(Wanted, c))
               /\ IF Top.i = 0 THEN Becomes([Top EXCEPT !.i = 1, !.ret = c])
                               ELSE Becomes([Top EXCEPT !.i = @ + 1, !.args[Top.i] = c])
          /\ functors' = functors \cup Within(Here(Top))
          /\ UNCHANGED <<type, nodes, changes>>

\* What Lua returns does not convert.
OutputFails ==
  /\ Turn("toLua", "output") /\ (Top.i > 0 => Policy.out)
  /\ Lost

Leave ==
  /\ frames # <<>> /\ Top.at = "output" /\ Top.i > Arity(Top)
  /\ frames' = SubSeq(frames, 1, Len(frames) - 1)
  /\ UNCHANGED <<type, nodes, changes, boxes, closures, functors>>

------------------------------------------------------------------------------
(***************************************************************************)
(* The specification                                                       *)
(***************************************************************************)

Defaults ==
  {Holds("ptr", x) : x \in Raw} \cup {Holds("shared", x) : x \in Counted}
    \cup {Holds("cptr", x) : x \in Consts}

\* The program sets a policy, with a default value that the parameter takes.
Configure ==
  /\ frames = <<>> /\ changes < MaxChanges /\ changes' = changes + 1
  /\ \E p \in DOMAIN nodes :
       \/ \E b \in BOOLEAN : Input(p, b) \/ Output(p, b)
       \/ \E c \in Defaults :
             /\ TypeAt(p).class = "object" /\ Last(p) # "0"
             /\ "default" \notin Rash => Accepts(TypeAt(p), c)
             /\ SetDefaultValue(p, c)
       \/ DiscardReturn(p) \/ DelegateOwner(p)
       \/ \E n \in PathNames : GetAttr(p, n)
  /\ nodes' # nodes
  /\ UNCHANGED <<type, frames, boxes, closures, functors>>

\* Lua starts with a box of each object that the program gave it.
Init ==
  /\ PolicyInit /\ changes = 0 /\ frames = <<>>
  /\ boxes = {Holds("ptr", x) : x \in Raw} \cup {Holds("shared", x) : x \in Counted}
  /\ closures = {<<>>} /\ functors = {}

Next ==
  \/ Configure
  \/ \E p \in closures : CallFromLua(p)
  \/ \E p \in functors : CallToLua(p)
  \/ FetchInput \/ FetchDefault \/ FetchFresh \/ FetchFails \/ Push \/ Run
  \/ \E i \in 1..Len(Names), x \in Counted \cup {Null} : Assign(i, x)
  \/ Raise
  \/ \E x \in Objects : ReturnNative(x)
  \/ ReturnLua \/ Append_output \/ Output_arg \/ OutputFails \/ Leave

Spec == Init /\ [][Next]_vars

------------------------------------------------------------------------------
(***************************************************************************)
(* Properties                                                              *)
(***************************************************************************)

Contents == [how : How, of : Objects \cup Paths] \cup {Empty}

\* Each any is empty or holds an object, the tree has its types and the calls
\* of Lua and of C++ alternate.
TypeOK ==
  /\ type \in Types /\ changes \in 0..MaxChanges
  /\ \A p \in DOMAIN nodes :
       /\ p \in Paths /\ (nodes[p].in => nodes[p].mayIn) /\ (nodes[p].out => nodes[p].mayOut)
       /\ nodes[p].default \in Contents
  /\ boxes \subseteq Boxes /\ closures \subseteq Paths /\ functors \subseteq Paths
  /\ Len(frames) <= MaxDepth
  /\ \A k \in 1..Len(frames) :
       /\ frames[k].dir = IF k % 2 = 1 THEN "fromLua" ELSE "toLua"
       /\ frames[k].path \in (IF k % 2 = 1 THEN closures ELSE functors)
       /\ frames[k].ret \in Contents
       /\ \A i \in 1..Len(frames[k].args) : frames[k].args[i] \in Contents
       /\ k < Len(frames) => frames[k].at = "body"

\* const is kept across Lua: no object that the program has as const is in a
\* box of Lua, nor in the hands of a C++ function that may change it
\* (arg_call and class_type_info::to_lua).
ConstKept ==
  /\ \A b \in boxes : b.of \notin Consts
  /\ \A k \in 1..Len(frames) : \A i \in 1..Len(frames[k].args) :
       frames[k].dir = "fromLua" /\ ParameterOf(frames[k], i).form \notin {"constref", "constptr"}
         => frames[k].args[i].of \notin Consts

\* The call of a C++ function casts each argument to the type of its
\* parameter, and the assertion of arg_call holds, wherever the argument is
\* from: Lua, a default value, default_initializer (request_from_lua::call_).
CastsFit ==
  \A k \in 1..Len(frames) :
    frames[k].dir = "fromLua" /\ frames[k].at \in {"body", "output"}
      => \A i \in 1..Arity(frames[k]) : Accepts(ParameterOf(frames[k], i), frames[k].args[i])

\* A request finds the node of each parameter that it passes, however deep the
\* std::function is that it calls (get_sub_node of policy.hpp).
ReadsExist ==
  \A k \in 1..Len(frames) : Reads(frames[k]) => Here(frames[k]) \in DOMAIN nodes

\* Lua owns what some shared_ptr holds, or what the policy of some parameter
\* gave it: no pointer that only passes through gets an owner
\* (class_type_info::to_lua_).
OwnersAsked ==
  \A b \in boxes :
    b.how = "shared" /\ b.of \notin Counted \cup {New}
      => \E p \in DOMAIN nodes : nodes[p].owner

\* By hand.  What Lua returns is cast as it fits (output_arg_ and get_return);
\* a program that lets Lua choose the box cannot count on it.
ReturnsFit ==
  \A k \in 1..Len(frames) :
    LET fr == frames[k]
    IN  fr.dir = "toLua" /\ fr.at = "output"
          => /\ fr.ret # Empty => ReturnAccepts(ParameterOf(fr, 0), fr.ret)
             /\ \A i \in 1..Arity(fr) :
                  i < fr.i /\ Here([fr EXCEPT !.i = i]) \in DOMAIN nodes
                    /\ nodes[Here([fr EXCEPT !.i = i])].out
                    => OutAccepts(ParameterOf(fr, i), fr.args[i])

\* By hand.  A reference never refers to nothing.
NoNullReference ==
  \A k \in 1..Len(frames) : \A i \in 1..Len(frames[k].args) :
    frames[k].dir = "fromLua" /\ Referenced(ParameterOf(frames[k], i))
      => frames[k].args[i].of # Null

\* By hand.  No box outlives the copy that it points into.
NoDangling == frames = <<>> => \A b \in boxes : b.of # Temp
================================================================================
