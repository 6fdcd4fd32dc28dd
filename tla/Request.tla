--------------------------------- MODULE Request ---------------------------------
(***************************************************************************)
(* request_from_lua and the callables that use it: a call from Lua of a    *)
(* bound function, method or constructor.  The parameters are read one by  *)
(* one from the same position of the Lua stack, each conversion being      *)
(* meant to remove what it read; results are pushed and counted in         *)
(* nb_return_, a member of the callable.  While the C++ body runs it may   *)
(* call Lua, which may call the same or another callable.                  *)
(***************************************************************************)
EXTENDS Integers, Sequences, FiniteSets

CONSTANTS
  Functions,   \* the callables
  Shape,       \* Shape[f]: "function", "method" or "constructor"
  Params,      \* Params[f]: kind and policy of each parameter
  Place,       \* Place[f][i]: the argument the parameter i is meant to get
  Outs,        \* Outs[f]: what is pushed: 0 for a result that is not
               \* discarded, i for the parameter i if it is an output
  Extra,       \* Extra[f]: what the body itself pushes for Lua
  Basic,       \* Lua values that convert to a basic type
  Instances,   \* Lua values that are instances of a class
  Nil,
  Default, Fresh, State,  \* a default value; a new one; the lua_State
  Below,       \* what lies below the frame of a call on the Lua stack
  MaxArgs, MaxDepth

Kinds == {"basic", "object", "state"}

\* Whether the parameter i takes an argument.
Reads(f, i) == Params[f][i].input /\ Params[f][i].kind # "state"

\* Methods and constructors are given the object or the class first.
Offset(f) == IF Shape[f] = "function" THEN 0 ELSE 1

ASSUME RequestAssumption ==
  /\ Shape \in [Functions -> {"function", "method", "constructor"}]
  /\ \A f \in Functions : Params[f] \in
       Seq([kind : Kinds, input : BOOLEAN, default : BOOLEAN])
  /\ Outs \in [Functions -> Seq(Nat)]
  /\ Extra \in [Functions -> Nat]
  /\ MaxArgs \in Nat /\ MaxDepth \in Nat

ASSUME PlaceAssumption ==
  \A f \in Functions : 
    /\ Place[f] \in [1..(Len(Params[f]) + 1) -> Nat \ {0}]
    /\ Place[f][1] = Offset(f) + 1
    /\ \A i \in 1..Len(Params[f]) :
         Place[f][i + 1] = Place[f][i] + (IF Reads(f, i) THEN 1 ELSE 0)

VARIABLES
  frames,      \* the calls that are running, the last one innermost
  nbReturn,    \* nb_return_ of the request of each callable
  answer       \* what a call that just returned gave to Lua

vars == <<frames, nbReturn, answer>>

LuaValues == Basic \cup Instances \cup {Nil}

Inner == frames[Len(frames)]

f0 == Inner.fn

\* The innermost call goes on with s on the stack, g collected, in phase p.
GoOn(s, g, p) ==
  frames' = [frames EXCEPT ![Len(frames)].stack = s, ![Len(frames)].got = g,
                           ![Len(frames)].phase = p]

Popped == SubSeq(frames, 1, Len(frames) - 1)

------------------------------------------------------------------------------

NoAnswer == [own |-> << >>, received |-> << >>, again |-> FALSE]

\* Lua calls f: from the outside, or from Lua code the innermost body runs.
Call(f, args) ==
  /\ Len(frames) < MaxDepth
  /\ frames # << >> => Inner.phase = "body"
  /\ Shape[f] = "constructor" => args # << >>
  /\ frames' = Append([k \in 1..Len(frames) |->
                         [frames[k] EXCEPT !.again = @ \/ frames[k].fn = f]],
                      [fn |-> f, given |-> args, stack |-> args, got |-> << >>,
                       phase |-> "self", again |-> FALSE])
  /\ answer' = NoAnswer
  /\ UNCHANGED nbReturn

\* invoke(): the counter starts from zero.
Begin(s) ==
  /\ GoOn(s, << >>, "take")
  /\ nbReturn' = [nbReturn EXCEPT ![f0] = 0]
  /\ UNCHANGED answer

\* luaL_error() leaves the call; the call of Lua it was made from ends too.
Error ==
  /\ frames' = Popped
  /\ UNCHANGED <<nbReturn, answer>>

SelfGiven ==
  Shape[f0] = "method" => Inner.stack # << >> /\ Inner.stack[1] \in Instances

\* A method takes the object away from the stack, a constructor the class.
Self ==
  /\ frames # << >> /\ Inner.phase = "self"
  /\ IF SelfGiven
     THEN Begin(SubSeq(Inner.stack, Offset(f0) + 1, Len(Inner.stack)))
     ELSE Error

Index == Len(Inner.got) + 1

Param == Params[f0][Index]

Took(s, v) ==
  /\ GoOn(s, Append(Inner.got, v), "take")
  /\ UNCHANGED <<nbReturn, answer>>

Taking == frames # << >> /\ Inner.phase = "take" /\ Index <= Len(Params[f0])

\* Nothing is left on the stack: the default value, or an error.
TakeMissing ==
  /\ Taking /\ Reads(f0, Index) /\ Inner.stack = << >>
  /\ IF Param.default THEN Took(<< >>, Default) ELSE Error

\* Slip: the conversion leaves what it read.
Left(s) == s

Removed(s) == Tail(s)

\* A basic type is removed from the stack when it has been converted.
TakeBasic ==
  /\ Taking /\ Reads(f0, Index) /\ Inner.stack # << >>
  /\ Param.kind = "basic"
  /\ IF Inner.stack[1] \in Basic
     THEN Took(Removed(Inner.stack), Inner.stack[1]) ELSE Error

\* The conversion of an object leaves it where it is.
TakeObject ==
  /\ Taking /\ Reads(f0, Index) /\ Inner.stack # << >>
  /\ Param.kind = "object"
  /\ IF Inner.stack[1] \in Instances \cup {Nil}
     THEN Took(Inner.stack, Inner.stack[1]) ELSE Error

\* The lua_State, or a parameter that is only an output.
TakeNothing ==
  /\ Taking /\ ~Reads(f0, Index)
  /\ Took(Inner.stack, IF Param.input THEN State ELSE Fresh)

\* Slip: the last parameter is forgotten.
AllButOne == Index >= Len(Params[f0])

AllTaken == Index > Len(Params[f0])

Enter ==
  /\ frames # << >> /\ Inner.phase = "take" /\ AllTaken
  /\ GoOn(Inner.stack, Inner.got, "body")
  /\ UNCHANGED <<nbReturn, answer>>

\* What this call has for Lua: <<depth, position>>, -1 for what the body
\* pushes itself, 0 for the result, i for the parameter i.
Token(i) == <<Len(frames), i>>

Pushed == [k \in 1..Extra[f0] |-> Token(-k)]

Outputs == [k \in 1..Len(Outs[f0]) |-> Token(Outs[f0][k])]

\* The n topmost values of s, and what is below it.
Top(n, s) ==
  [k \in 1..n |-> IF k + Len(s) - n >= 1 THEN s[k + Len(s) - n] ELSE Below]

\* Slip: what is pushed is not counted.
Uncounted(n) == n

\* append_output_() counts each value it pushes.
Counted(n) == n + Len(Outputs)

\* The body returns, and Lua is given as many values as were counted.
Return ==
  /\ frames # << >> /\ Inner.phase = "body"
  /\ nbReturn' = [nbReturn EXCEPT ![f0] = Counted(@)]
  /\ answer' = [own |-> Pushed \o Outputs,
                received |-> Top(nbReturn'[f0] + Extra[f0], Inner.stack \o Pushed \o Outputs),
                again |-> Inner.again]
  /\ frames' = Popped

\* The body throws, or only n of its values can be converted.
Throw(n) ==
  /\ frames # << >> /\ Inner.phase = "body"
  /\ n = 0 \/ n < Len(Outputs)
  /\ nbReturn' = [nbReturn EXCEPT ![f0] = @ + n]
  /\ frames' = Popped
  /\ UNCHANGED answer

------------------------------------------------------------------------------

Init ==
  /\ frames = << >>
  /\ nbReturn = [f \in Functions |-> -1]
  /\ answer = NoAnswer

Arguments == UNION {[1..n -> LuaValues] : n \in 0..MaxArgs}

Next ==
  \/ \E f \in Functions, args \in Arguments : Call(f, args)
  \/ Self \/ TakeMissing \/ TakeBasic \/ TakeObject \/ TakeNothing \/ Enter
  \/ Return
  \/ \E n \in 0..MaxArgs : Throw(n)

Spec == Init /\ [][Next]_vars

------------------------------------------------------------------------------
(***************************************************************************)
(* Properties                                                              *)
(***************************************************************************)

(* What the parameter i of f is meant to be given.                         *)
Meant(f, args, i) ==
  IF Reads(f, i) THEN IF Place[f][i] <= Len(args) THEN args[Place[f][i]] ELSE Default
  ELSE IF Params[f][i].input THEN State ELSE Fresh

(* No parameter that takes an argument follows one that takes an object.   *)
ObjectLast(f) ==
  \A i, j \in 1..Len(Params[f]) :
    i < j /\ Reads(f, i) /\ Reads(f, j) => Params[f][i].kind # "object"

GotItsArguments(r) == \A i \in 1..Len(r.got) : r.got[i] = Meant(r.fn, r.given, i)

Frame ==
  [fn : Functions, given : Seq(LuaValues), stack : Seq(LuaValues),
   got : Seq(LuaValues \cup {Default, Fresh, State}),
   phase : {"self", "take", "body"}, again : BOOLEAN]

(* The type invariant: a body that is entered has all its arguments.       *)
TypeOK ==
  /\ frames \in Seq(Frame)
  /\ \A k \in 1..Len(frames) :
       /\ Len(frames[k].got) <= Len(Params[frames[k].fn])
       /\ frames[k].phase = "body" => Len(frames[k].got) = Len(Params[frames[k].fn])
       /\ frames[k].phase = "self" => frames[k].got = << >>
       /\ k < Len(frames) => frames[k].phase = "body"
  /\ nbReturn \in [Functions -> Nat \cup {-1}]
  /\ answer.again \in BOOLEAN

(* The body of a callable of which at most the last argument is an object  *)
(* gets the arguments of the call, in their order, however deep the calls  *)
(* are nested; what is missing is replaced by a default value.             *)
ArgsInOrder ==
  \A k \in 1..Len(frames) : ObjectLast(frames[k].fn) => GotItsArguments(frames[k])

(* The same of every callable.                                             *)
ArgsAlwaysInOrder == \A k \in 1..Len(frames) : GotItsArguments(frames[k])

(* A call during which its callable was not called again gives Lua what it *)
(* pushed, neither more nor less, whatever was left below on the stack.    *)
ReturnsExact == ~answer.again => answer.received = answer.own

(* The same of every call.                                                 *)
ReturnsAlwaysExact == answer.received = answer.own

(* A method runs for an instance only.                                     *)
MethodsHaveSelf ==
  \A k \in 1..Len(frames) :
    frames[k].phase # "self" /\ Shape[frames[k].fn] = "method" =>
      frames[k].given # << >> /\ frames[k].given[1] \in Instances
================================================================================
