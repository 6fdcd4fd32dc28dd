-------------------------------- MODULE Closure --------------------------------
(***************************************************************************)
(* std::function between Lua and C++.  A function given to C++, a closure  *)
(* that C++ made before included, is registered with luaL_ref; the         *)
(* std::function made of it holds, in all its copies, one                  *)
(* shared_ptr<auto_unref>, here a block, whose destructor gives the        *)
(* reference back.  A std::function given to Lua is copied into a          *)
(* userdata, to_data, of the table that is the upvalue of a C closure; the *)
(* __gc of this table destroys the copy.                                   *)
(*                                                                         *)
(* Lua does not see into a to_data, nor into a block: a function that      *)
(* captures a closure that holds this same function keeps itself.          *)
(***************************************************************************)
EXTENDS Naturals, Sequences, FiniteSets

CONSTANTS
  Functions,   \* Lua functions
  Closures,    \* C closures made of a std::function
  Slots,       \* variables in which C++ keeps a std::function
  Blocks, Refs,
  Threads, Main,  \* the coroutines of Lua and the main one among them
  Plain,       \* a std::function made of a C++ function
  None,
  Gone,        \* what is left of a to_data after its destructor
  Rash,        \* the risks this program takes
  MaxDepth

ASSUME ClosureAssumption ==
  /\ Main \in Threads
  /\ Rash \subseteq {"outlive", "coroutine", "reset", "finaliser"}
  /\ MaxDepth \in Nat
  /\ Closures \cap (Functions \cup Blocks) = {}
  /\ {Plain, None, Gone} \cap (Blocks \cup Functions \cup Closures) = {}
  /\ Plain # None /\ Gone # None /\ Gone # Plain

VARIABLES
  registry,    \* the function that LUA_REGISTRYINDEX has under each reference
  block,       \* state and ref of an auto_unref, and what it was made of
  slots,       \* the std::function in each variable
  data,        \* the to_data of each closure
  doomed,      \* the closures whose __gc Lua is about to call
  named,       \* what Lua can reach from its variables
  upvalue,     \* the closure that each Lua function refers to
  frames,      \* the calls that are running, the last one innermost
  lost,        \* blocks of which an error skipped a destructor
  closed,      \* lua_close() has begun
  gone         \* the threads that are freed

vars == <<registry, block, slots, data, doomed, named, upvalue, frames, lost,
          closed, gone>>

luaVars == <<doomed, named, upvalue, closed, gone>>

Functor == Blocks \cup {Plain}

\* What is a function for Lua.
Function == Functions \cup Closures

Inner == frames[Len(frames)]

LuaRuns == frames # <<>> /\ Inner.kind = "lua"

\* A C++ function runs, called by Lua or from main().
NativeRuns == frames # <<>> => Inner.kind = "native"

Room == Len(frames) < MaxDepth

Entered(k, x, s) == frames' = Append(frames, [kind |-> k, of |-> x, via |-> s])

\* A new object is any that is not in use: one of them.
Fresh(S) == IF S = {} THEN {} ELSE {CHOOSE x \in S : TRUE}

Unused == {c \in Closures : data[c] = None}

Popped == SubSeq(frames, 1, Len(frames) - 1)

Running == {frames[i] : i \in 1..Len(frames)}

\* No std::function has been made in a coroutine.
OneState == \A b \in Blocks : block[b] # None => block[b].state = Main

Arguments == {fr.of : fr \in {x \in Running : x.kind = "native"}}

\* The blocks that some std::function shares.
Living ==
  Blocks \cap ({slots[s] : s \in Slots} \cup {data[c] : c \in Closures}
                 \cup Arguments \cup lost)

\* What Lua can reach from the set R: a closure leads to nothing else.
ReachedFrom(R) ==
  Function \cap (R \cup {upvalue[f] : f \in Functions \cap R})

OnStack == {fr.of : fr \in {x \in Running : x.kind \in {"lua", "closure"}}}

\* What the Lua code that runs can get hold of.
Accessible == ReachedFrom(named \cup OnStack)

\* What Lua must not collect.
LuaReach == ReachedFrom(named \cup OnStack \cup {registry[r] : r \in Refs})

------------------------------------------------------------------------------
(***************************************************************************)
(* auto_unref                                                              *)
(***************************************************************************)

Unreferenced(bs) ==
  /\ registry' = [r \in Refs |->
       IF \E b \in bs : block[b].ref = r THEN None ELSE registry[r]]
  /\ block' = [b \in Blocks |-> IF b \in Living' THEN block[b] ELSE None]

\* Slip: each copy gives the reference back.
EachReleases(xs) == Unreferenced(xs \cap Blocks)

\* Slip: nobody does.
NoneReleases(xs) == Unreferenced({})

\* Copies of xs are destroyed; the last copy of a block destroys auto_unref.
Released(xs) == Unreferenced((xs \cap Blocks) \ Living')

------------------------------------------------------------------------------
(***************************************************************************)
(* From a function to a std::function                                      *)
(***************************************************************************)

\* do_file() and do_string().
Run ==
  /\ frames = <<>> /\ ~closed /\ Entered("lua", None, None)
  /\ UNCHANGED <<registry, block, slots, data, lost, luaVars>>

\* The coroutine t of Lua calls a C++ function with f as its argument, which
\* conversion takes from the stack.
From(f, b, r, t) ==
  /\ LuaRuns /\ Room /\ ~closed
  /\ f \in Accessible /\ b \in Fresh(Blocks \ Living)
  /\ r \in Fresh({q \in Refs : registry[q] = None}) /\ t \notin gone
  /\ registry' = [registry EXCEPT ![r] = f]
  /\ block' = [block EXCEPT ![b] = [ref |-> r, state |-> t, made |-> f]]
  /\ Entered("native", b, None)
  /\ UNCHANGED <<slots, data, lost, luaVars>>

\* The C++ function returns, and its argument with it.
Leave ==
  /\ frames # <<>> /\ Inner.kind \in {"native", "closure"}
  /\ frames' = Popped
  /\ UNCHANGED <<slots, data, lost, luaVars>>
  /\ Released({Inner.of})

\* It copies the argument to where it keeps it.
Keep(s) ==
  /\ frames # <<>> /\ Inner.kind = "native" /\ slots[s] = None
  /\ slots' = [slots EXCEPT ![s] = Inner.of]
  /\ UNCHANGED <<registry, block, data, frames, lost, luaVars>>

\* It lets go of a copy: not of the one through which it was called.
Drop(s) ==
  /\ NativeRuns /\ slots[s] # None
  /\ "reset" \in Rash \/ \A fr \in Running : fr.via # s
  /\ slots' = [slots EXCEPT ![s] = None]
  /\ UNCHANGED <<data, frames, lost, luaVars>>
  /\ Released({slots[s]})

------------------------------------------------------------------------------
(***************************************************************************)
(* Calls of a std::function                                                *)
(***************************************************************************)

\* The std::function that may be called next, and the variable it is in.
Callable ==
  IF frames # <<>> /\ Inner.kind = "closure" THEN {<<data[Inner.of], None>>}
  ELSE {<<slots[s], s>> : s \in Slots}
         \cup {<<fr.of, None>> : fr \in {x \in Running : x = Inner}}

\* The reference gives the function, and request_to_lua calls it.
Invoke(b, s) ==
  /\ ~LuaRuns /\ Room /\ <<b, s>> \in Callable /\ b \in Blocks
  /\ block[b].state \notin gone
  /\ LET x == registry[block[b].ref]
     IN Entered(IF x \in Closures THEN "closure" ELSE "lua", x, s)
  /\ UNCHANGED <<registry, block, slots, data, lost, luaVars>>

\* A Lua function, or the program, returns.
Return ==
  /\ LuaRuns
  /\ frames' = Popped
  /\ UNCHANGED <<registry, block, slots, data, lost, luaVars>>

\* A Lua function fails: request_to_lua catches the error and the
\* std::function raises it again in the state that it captured, over the
\* C++ functions up to the Lua code where this state has its handler,
\* without their destructors.  That is the code that called them when it
\* runs in this state, and it may be any that is further out when it is
\* another coroutine that runs.  Where there is none the program is aborted.
Raise ==
  /\ LuaRuns
  /\ LET under == {i \in 1..(Len(frames) - 1) : frames[i].kind = "lua"}
     IN \E k \in under \cup {0} :
          /\ k > 0 \/ Inner.of = None
          /\ OneState => \A j \in under : j <= k
          /\ frames' = SubSeq(frames, 1, k)
          /\ lost' = lost \cup
               {frames[i].of : i \in {j \in (k + 1)..Len(frames) : frames[j].kind = "native"}}
  /\ UNCHANGED <<registry, block, slots, data, luaVars>>

------------------------------------------------------------------------------
(***************************************************************************)
(* From a std::function to a C closure                                     *)
(***************************************************************************)

\* The C++ function gives Lua its argument, what it keeps or its own.
To(c, x) ==
  /\ frames # <<>> /\ Inner.kind = "native" /\ c \in Fresh(Unused)
  /\ x \in {Plain, Inner.of} \cup {slots[s] : s \in Slots} /\ x # None
  /\ data' = [data EXCEPT ![c] = x]
  /\ named' = named \cup {c}
  /\ UNCHANGED <<registry, block, slots, doomed, upvalue, frames, lost, closed, gone>>

\* Lua calls a closure, or a finaliser does, of those collected with it.
Call(c) ==
  /\ Room
  /\ \/ LuaRuns /\ c \in Accessible
     \/ "finaliser" \in Rash /\ (c \in doomed \/ data[c] = Gone)
  /\ Entered("closure", c, None)
  /\ UNCHANGED <<registry, block, slots, data, lost, luaVars>>

\* Slip: __gc does not find the to_data.
GcNothing(c) ==
  /\ c \in doomed \ OnStack
  /\ doomed' = doomed \ {c}
  /\ UNCHANGED <<registry, block, slots, data, named, upvalue, frames, lost,
                 closed, gone>>

\* The __gc of c destroys the to_data, and leaves the field that points to
\* it; after the last of those found together all their tables are freed.
\* No finaliser runs inside another.
Gc(c) ==
  /\ c \in doomed \ OnStack
  /\ doomed' = doomed \ {c}
  /\ data' = [x \in Closures |->
       IF x # c /\ data[x] # Gone THEN data[x]
       ELSE IF doomed' = {} /\ "finaliser" \notin Rash THEN None ELSE Gone]
  /\ upvalue' = [f \in Functions |->
       IF upvalue[f] # None /\ data'[upvalue[f]] = None THEN None ELSE upvalue[f]]
  /\ UNCHANGED <<slots, named, frames, lost, closed, gone>>
  /\ Released({data[c]})

------------------------------------------------------------------------------
(***************************************************************************)
(* Lua                                                                     *)
(***************************************************************************)

Forget(x) ==
  /\ x \in named /\ LuaRuns
  /\ named' = named \ {x}
  /\ UNCHANGED <<registry, block, slots, data, doomed, upvalue, frames, lost,
                 closed, gone>>

Capture(f, c) ==
  /\ LuaRuns /\ {f, c} \subseteq Accessible
  /\ upvalue' = [upvalue EXCEPT ![f] = c]
  /\ UNCHANGED <<registry, block, slots, data, doomed, named, frames, lost,
                 closed, gone>>

\* What nothing refers to any more is to be finalised, whatever is collected
\* next.
Collect ==
  /\ doomed = {} /\ ~closed
  /\ doomed' = {c \in Closures : data[c] \in Functor /\ c \notin LuaReach}
  /\ doomed' # {}
  /\ UNCHANGED <<registry, block, slots, data, named, upvalue, frames, lost,
                 closed, gone>>

\* A coroutine has ended and is collected: the program lets go first of what
\* it was given there.
EndThread(t) ==
  /\ t \in Threads \ (gone \cup {Main}) /\ frames = <<>>
  /\ "coroutine" \in Rash \/ \A b \in Living \ lost : block[b].state # t
  /\ gone' = gone \cup {t}
  /\ UNCHANGED <<registry, block, slots, data, doomed, named, upvalue, frames,
                 lost, closed>>

\* ~engine(): every closure is finalised, then the state is freed.  The
\* program drops what it keeps before.
Close ==
  /\ frames = <<>> /\ ~closed /\ doomed = {}
  /\ "outlive" \in Rash \/ \A s \in Slots : slots[s] = None
  /\ closed' = TRUE /\ named' = {}
  /\ doomed' = {c \in Closures : data[c] \in Functor}
  /\ UNCHANGED <<registry, block, slots, data, upvalue, frames, lost, gone>>

Closed ==
  /\ closed /\ doomed = {} /\ frames = <<>> /\ gone # Threads
  /\ gone' = Threads
  /\ UNCHANGED <<registry, block, slots, data, doomed, named, upvalue, frames,
                 lost, closed>>

------------------------------------------------------------------------------

Init ==
  /\ registry = [r \in Refs |-> None]
  /\ block = [b \in Blocks |-> None]
  /\ slots = [s \in Slots |-> None]
  /\ data = [c \in Closures |-> None]
  /\ doomed = {} /\ named = Functions
  /\ upvalue = [f \in Functions |-> None]
  /\ frames = <<>> /\ lost = {}
  /\ closed = FALSE /\ gone = {}

Next ==
  \/ Run \/ Leave \/ Return \/ Raise \/ Collect \/ Close \/ Closed
  \/ \E f \in Function, b \in Blocks, r \in Refs, t \in Threads : From(f, b, r, t)
  \/ \E s \in Slots : Keep(s) \/ Drop(s)
  \/ \E b \in Blocks, s \in Slots \cup {None} : Invoke(b, s)
  \/ \E c \in Closures : Call(c) \/ Gc(c) \/ \E x \in Functor : To(c, x)
  \/ \E x \in Function : Forget(x)
  \/ \E f \in Functions, c \in Closures : Capture(f, c)
  \/ \E t \in Threads : EndThread(t)

\* The collector, which works as Lua allocates, and lua_close() go on.
Fairness ==
  /\ WF_vars(Collect) /\ WF_vars(Closed)
  /\ \A c \in Closures : WF_vars(Gc(c))

Spec == Init /\ [][Next]_vars /\ Fairness

------------------------------------------------------------------------------
(***************************************************************************)
(* Properties                                                              *)
(***************************************************************************)

Frame ==
  [kind : {"lua"}, of : Functions \cup {None}, via : Slots \cup {None}]
    \cup [kind : {"native"}, of : Blocks, via : {None}]
    \cup [kind : {"closure"}, of : Closures, via : Slots \cup {None}]

(* The type invariant: a reference that is called gives a function.        *)
TypeOK ==
  /\ registry \in [Refs -> Function \cup {None}]
  /\ block \in [Blocks -> [ref : Refs, state : Threads, made : Function] \cup {None}]
  /\ slots \in [Slots -> Blocks \cup {None}]
  /\ data \in [Closures -> Functor \cup {None, Gone}]
  /\ doomed \subseteq {c \in Closures : data[c] \in Functor}
  /\ named \subseteq Function
  /\ upvalue \in [Functions -> Closures \cup {None}]
  /\ frames \in Seq(Frame)
  /\ \A i \in 2..Len(frames) : frames[i].kind = "lua" => frames[i].of # None
  /\ lost \subseteq Blocks
  /\ closed \in BOOLEAN
  /\ gone \subseteq Threads

(* The registry has, under the reference of each std::function that lives, *)
(* the function it was made of, no two share a reference although Lua      *)
(* gives those it gets back to others, and it has nothing else.            *)
RefsExact ==
  /\ \A b \in Living : registry[block[b].ref] = block[b].made
  /\ \A b, d \in Living : block[b].ref = block[d].ref => b = d
  /\ \A r \in Refs : registry[r] # None => \E b \in Living : block[b].ref = r

(* A closure that Lua or a function kept by C++ can reach has its          *)
(* std::function, and will not lose it before lua_close().                 *)
ClosuresWhole ==
  ~closed =>
    \A c \in Closures \cap
             ReachedFrom(named \cup OnStack \cup {block[b].made : b \in Living}) :
      data[c] \in Functor /\ c \notin doomed

(* A std::function that is destroyed gives its reference back to a state   *)
(* that is still there; the one whose destructor was skipped never does.   *)
StateThere == \A b \in Living \ lost : block[b].state \notin gone

(* The std::function through which C++ called Lua is still there when the  *)
(* call fails and the error is raised in the state that it captured.       *)
FunctorThere == \A fr \in Running : fr.via # None => slots[fr.via] \in Blocks

(* A closure that is called has its std::function.                         *)
CallsWhole ==
  \A fr \in Running : fr.kind = "closure" => data[fr.of] \in Functor

\* What is kept by R, through what a std::function in a closure keeps.
Keeps(R) ==
  LET Holds(S) == {block[data[c]].made : c \in {d \in Closures \cap S : data[d] \in Blocks}}
      kept[n \in Nat] ==
        IF n = 0 THEN ReachedFrom(R)
        ELSE LET k == kept[n - 1] IN k \cup ReachedFrom(Holds(k))
  IN  kept[Cardinality(Function)]

\* The functions that keep themselves, through the closure that they capture.
Cyclic == {f \in Functions : f \in Keeps({upvalue[f]})}

\* What Lua, C++ or a skipped destructor has a reason to keep.
Wanted ==
  Keeps(named \cup OnStack \cup Cyclic
          \cup {block[b].made : b \in Living \cap (Arguments \cup lost
                                                     \cup {slots[s] : s \in Slots})})

(* A function stays registered for good only if Lua or C++ still refers to *)
(* it, a function that keeps itself does, or an error skipped the          *)
(* destructor that would have released it: however long the chain of       *)
(* closures is, the collector and lua_close() come to its end.             *)
Freed ==
  \A f \in Function :
    []<>(\A r \in Refs : registry[r] = f => f \in Wanted)
================================================================================
