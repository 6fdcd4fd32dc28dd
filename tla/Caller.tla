---------------------------------- MODULE Caller ----------------------------------
(***************************************************************************)
(* request_to_lua, and caller_wrapper and the closures that use it: C++    *)
(* calls a function of Lua.  The arguments are pushed, lua_pcall replaces  *)
(* them by as many results as were counted, and the result and the output  *)
(* parameters are read by their distance from the top of the stack, which  *)
(* is kept in nb_output_.  The counters are members of a caller, and local *)
(* to a call of a closure.  Nothing else on the stack is ever popped.      *)
(*                                                                         *)
(* Each C++ function that Lua calls has a stack of its own: a level.       *)
(***************************************************************************)
EXTENDS Integers, Sequences, FiniteSets, SequencesExt

CONSTANTS
  Callers,     \* the callers and closures
  Local,       \* Local[c]: c is a closure, its counters are not shared
  Result,      \* Result[c]: "none", "basic" or "object"
  Params,      \* Params[c]: kind and policy of each parameter
  MaxLevels,
  MaxLeft      \* how much calls may leave on a stack before there are no more

Kinds == {"basic", "object"}

\* What lies on a stack: the k-th result of a call, or one of the others.
TheResult(k) == <<"result", k>>
Leftover == <<"left", 0>>
Message  == <<"error", 0>>
Nowhere  == <<"outside", 0>>

ASSUME CallerAssumption ==
  /\ "none" \notin Callers
  /\ Local \in [Callers -> BOOLEAN]
  /\ Result \in [Callers -> Kinds \cup {"none"}]
  /\ \A c \in Callers :
       /\ Params[c] \in Seq([kind : Kinds, input : BOOLEAN, output : BOOLEAN])
       /\ \A i \in 1..Len(Params[c]) : Params[c][i].input \/ Params[c][i].output
  /\ MaxLevels \in Nat \ {0} /\ MaxLeft \in Nat

VARIABLES
  levels,      \* the C++ functions that are running, the last one innermost
  nbOutput,    \* nb_output_ of each caller
  answer       \* what the invocation that just ended gave to C++

vars == <<levels, nbOutput, answer>>

Inner == levels[Len(levels)]

c0 == Inner.caller

\* Once there is no level the program is over.
Busy(phase) == levels # << >> /\ Inner.phase = phase

Depth == Len(Inner.stack)

NoAnswer == [ended |-> FALSE]

\* A level where no invocation is running; s is what is left on its stack.
Idle(s) ==
  [caller |-> "none", phase |-> "idle", stack |-> s, base |-> Len(s),
   count |-> 0, got |-> << >>, again |-> FALSE]

Set(level) == levels' = [levels EXCEPT ![Len(levels)] = level]

Inputs(c, n) == Cardinality({i \in 1..n : Params[c][i].input})

\* The results counted when n parameters were looked at: one that is an input
\* is not counted, even when it is an output as well.
Counted(c, n) ==
  (IF Result[c] = "none" THEN 0 ELSE 1)
    + Cardinality({i \in 1..n : ~Params[c][i].input})

\* The results asked of lua_pcall.
Wanted(c) == Counted(c, Len(Params[c]))

Outputs(c) == {i \in 1..Len(Params[c]) : Params[c][i].output}

TheOutput(c, k) ==
  CHOOSE i \in Outputs(c) : Cardinality({j \in Outputs(c) : j <= i}) = k

\* What is read afterwards: the result and the outputs, by their kinds.
ToRead(c) ==
  (IF Result[c] = "none" THEN << >> ELSE <<Result[c]>>)
    \o [k \in 1..Cardinality(Outputs(c)) |-> Params[c][TheOutput(c, k)].kind]

------------------------------------------------------------------------------

\* Slip: one value too many is popped at the end.
OneLess(s) == [k \in 1..Len(s) - 1 |-> Leftover]

Leave(s) == [k \in 1..Len(s) |-> Leftover]

\* luaL_error in a closure: the C++ function that called it is abandoned with
\* its stack, or the program when Lua did not call that function.
Abandon == levels' = Front(levels)

\* invoke() returns: what it leaves on the stack stays there.
End(s, ok, got) ==
  /\ IF ok \/ ~Local[c0] THEN Set(Idle(Leave(s))) ELSE Abandon
  /\ answer' = [ended |-> TRUE, caller |-> c0, ok |-> ok, got |-> got,
                again |-> Inner.again, left |-> Len(s) - Inner.base]

\* The counter of a caller; that of a closure is Wanted less what was read.
Counter(c, n) ==
  nbOutput' = IF Local[c] THEN nbOutput ELSE [nbOutput EXCEPT ![c] = n]

NbOutput == IF Local[c0] THEN Wanted(c0) - Len(Inner.got) ELSE nbOutput[c0]

Down == Counter(c0, NbOutput - 1)

\* The level l when c is invoked from within.
Below(l, c) == [l EXCEPT !.again = @ \/ l.caller = c]

\* c is invoked, and the innermost level becomes l.
SetAgain(c, l) ==
  levels' = [k \in 1..Len(levels) |-> IF k = Len(levels) THEN l ELSE Below(levels[k], c)]

\* The function is pushed, then all arguments.
Invoke(c) ==
  /\ Busy("idle") /\ Depth <= MaxLeft
  /\ SetAgain(c, [Idle(Inner.stack) EXCEPT
       !.caller = c, !.phase = "lua", !.count = Wanted(c)])
  /\ Counter(c, Wanted(c))
  /\ answer' = NoAnswer

\* The argument for the n-th parameter cannot be converted: the function and
\* what was pushed so far are left, and no more is counted.
PushFails(c, n) ==
  /\ Busy("idle") /\ Depth <= MaxLeft
  /\ n \in 1..Len(Params[c]) /\ Params[c][n].input
  /\ IF Local[c] THEN Abandon
     ELSE SetAgain(c, Idle(Inner.stack \o [k \in 1..Inputs(c, n) |-> Leftover]))
  /\ Counter(c, Counted(c, n))
  /\ answer' = [ended |-> TRUE, caller |-> c, ok |-> FALSE, got |-> << >>,
                again |-> FALSE, left |-> Inputs(c, n)]

\* Lua calls a C++ function, which may invoke a caller in turn.
LuaCalls ==
  /\ Busy("lua") /\ Len(levels) < MaxLevels
  /\ levels' = Append(levels, Idle(<< >>))
  /\ UNCHANGED <<nbOutput, answer>>

\* That function returns, and its stack is gone.
LuaGoesOn ==
  /\ Busy("idle") /\ Len(levels) > 1
  /\ levels' = Front(levels)
  /\ answer' = NoAnswer
  /\ UNCHANGED nbOutput

\* lua_pcall fails: the error is left.
CallFails ==
  /\ Busy("lua")
  /\ End(Append(Inner.stack, Message), FALSE, << >>)
  /\ UNCHANGED nbOutput

\* lua_pcall leaves the results it was asked for, numbered in order.
CallReturns ==
  /\ Busy("lua")
  /\ Set([Inner EXCEPT !.phase = "read",
                       !.stack = @ \o [k \in 1..Inner.count |-> TheResult(k)]])
  /\ UNCHANGED <<nbOutput, answer>>

\* Slip: the last result is read first.
FromBottom(n) == Inner.base + n

\* The position the index -n of the stack stands for.
Position(n) == IF n > 0 THEN Depth - n + 1 ELSE IF n < 0 THEN -n ELSE Depth + 1

Kind == ToRead(c0)[Len(Inner.got) + 1]

Reading == Busy("read") /\ Len(Inner.got) < Len(ToRead(c0))

Outside == Position(NbOutput) \notin 1..Depth

\* Slip: a conversion removes all there is.
AllRemoved(s, p) == << >>

\* A basic type is removed from the stack, an object stays.
Removed(s, p) == IF Kind = "object" THEN s ELSE RemoveAt(s, p)

\* One conversion: the return value, or the next output parameter.
Read ==
  /\ Reading /\ ~Outside
  /\ Set([Inner EXCEPT !.stack = Removed(@, Position(NbOutput)),
                       !.got = Append(@, Inner.stack[Position(NbOutput)])])
  /\ Down
  /\ UNCHANGED answer

Refused ==
  /\ End(Inner.stack, FALSE, Inner.got)
  /\ IF Result[c0] # "none" /\ Inner.got = << >> THEN Down ELSE UNCHANGED nbOutput

\* The value has not the type wanted.  nb_output_ has gone down only for the
\* return value.
ReadFails ==
  /\ Reading /\ ~Outside
  /\ Refused

\* There is no such position: whatever lies there is refused, or read, and
\* then to remove it takes away the top of the stack.
ReadOutside ==
  /\ Reading /\ Outside
  /\ \/ Refused
     \/ /\ \E s \in {Inner.stack, IF Depth = 0 THEN << >> ELSE Front(Inner.stack)} :
             Set([Inner EXCEPT !.stack = s, !.got = Append(@, Nowhere)])
        /\ Down
        /\ UNCHANGED answer

Done ==
  /\ Busy("read") /\ Len(Inner.got) = Len(ToRead(c0))
  /\ End(Inner.stack, TRUE, Inner.got)
  /\ UNCHANGED nbOutput

------------------------------------------------------------------------------

Init ==
  /\ levels = <<Idle(<< >>)>>
  /\ nbOutput = [c \in Callers |-> 0]
  /\ answer = NoAnswer

Next ==
  \/ \E c \in Callers : Invoke(c) \/ \E n \in 1..Len(Params[c]) : PushFails(c, n)
  \/ LuaCalls \/ LuaGoesOn \/ CallFails \/ CallReturns
  \/ Read \/ ReadFails \/ ReadOutside \/ Done

Spec == Init /\ [][Next]_vars

------------------------------------------------------------------------------
(***************************************************************************)
(* Properties                                                              *)
(***************************************************************************)

Values == {Leftover, Message, Nowhere} \cup ({"result"} \X Nat)

Level ==
  [caller : Callers \cup {"none"}, phase : {"idle", "lua", "read"},
   stack : Seq(Values), base : Nat, count : Nat, got : Seq(Values), again : BOOLEAN]

(* No parameter is both an input and an output.                            *)
OneWay(c) == \A i \in 1..Len(Params[c]) : ~(Params[c][i].input /\ Params[c][i].output)

\* The counter of this invocation is its own: it is one of a closure, or of a
\* caller that was not invoked from within.
OwnCounter(l) == OneWay(l.caller) /\ (Local[l.caller] \/ ~l.again)

(* The type invariant: the results of an invocation lie above what it      *)
(* found on the stack, and only the innermost level does anything.         *)
TypeOK ==
  /\ levels \in Seq(Level)
  /\ \A k \in 1..Len(levels) :
       /\ levels[k].phase # "idle" /\ OwnCounter(levels[k]) =>
            levels[k].base <= Len(levels[k].stack)
       /\ levels[k].phase = "idle" <=> levels[k].caller = "none"
       /\ k < Len(levels) => levels[k].phase = "lua"
  /\ nbOutput \in [Callers -> Int]

\* What was read is the results of this call, in their order.
InOrder == \A k \in 1..Len(answer.got) : answer.got[k] = TheResult(k)

(* The result and the outputs of a call are the values that its Lua        *)
(* function returned, in their order, although they are found by their     *)
(* distance from the top and some are removed and others not; and however  *)
(* many other calls were made meanwhile.                                   *)
ResultsInOrder == answer.ended /\ OwnCounter(answer) => InOrder

(* The same of every call.                                                 *)
ResultsAlwaysInOrder == answer.ended => InOrder

(* A call that succeeds leaves on the stack the objects it read, and takes *)
(* nothing that it did not push.                                           *)
LeftExact ==
  answer.ended /\ answer.ok /\ OwnCounter(answer) =>
    answer.left = Cardinality({k \in 1..Len(ToRead(answer.caller)) :
                                 ToRead(answer.caller)[k] = "object"})

(* An invocation never takes away what was on the stack before it.         *)
NothingTaken ==
  [][\A k \in 1..Len(levels) :
       k <= Len(levels') /\ (levels[k].phase = "idle" \/ OwnCounter(levels[k])) =>
         Len(levels'[k].stack) >= levels[k].base]_vars
================================================================================
